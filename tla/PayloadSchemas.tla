---------------------------- MODULE PayloadSchemas ----------------------------
(***************************************************************************)
(* The normalisation of the payload schemas that get_possible_methods      *)
(* returns (services/annotations.py).  A JSON schema is a record of the    *)
(* keywords it has: type (a sequence; a plain string is a sequence of      *)
(* one), anyOf, ref (the name its $ref ends in), enum, and the             *)
(* annotations format, builder_format (x-builder-format), omit             *)
(* (x-builder-prefer-omit-when-null), description, additional.             *)
(***************************************************************************)
EXTENDS SequencesExt

Has(schema, keyword)      == keyword \in DOMAIN schema
Without(schema, keywords) == Restrict(schema, DOMAIN schema \ keywords)

\* (Mutant: any type that admits null.)
IsNullable(schema) == Has(schema, "type") /\ Contains(schema.type, "null")

IsNull(schema) == Has(schema, "type") /\ schema.type = <<"null">>

\* _normalize_nullable_schema, of a schema that prefers to be omitted.
DropNullType(schema) ==
    LET remaining == SelectSeq(schema.type, LAMBDA t : t # "null")
    IN  IF Has(schema, "type") /\ remaining # <<>>
        THEN [schema EXCEPT !.type = remaining] ELSE schema

MergeOnlyOption(schema) ==
    LET options == SelectSeq(schema.anyOf, LAMBDA o : ~IsNull(o))
    IN  IF Has(schema, "anyOf") /\ Len(options) = 1
        THEN options[1] @@ Without(schema, {"anyOf"}) ELSE schema

NormalizeNullable(schema) ==
    IF Has(schema, "omit") THEN MergeOnlyOption(DropNullType(schema)) ELSE schema

\* (Mutant: the values of the first option that has any.)
RECURSIVE CollectFirstEnum(_, _)
CollectFirstEnum(schema, definitions) ==
    IF Has(schema, "enum") THEN schema.enum
    ELSE IF Has(schema, "ref") THEN CollectFirstEnum(definitions[schema.ref], definitions)
    ELSE IF ~Has(schema, "anyOf") THEN <<>>
    ELSE LET found == SelectSeq([i \in DOMAIN schema.anyOf |->
                          CollectFirstEnum(schema.anyOf[i], definitions)],
                          LAMBDA values : values # <<>>)
         IN  IF found = <<>> THEN <<>> ELSE found[1]

RECURSIVE CollectEnumValues(_, _)
CollectEnumValues(schema, definitions) ==
    IF Has(schema, "enum") THEN schema.enum
    ELSE IF Has(schema, "ref")
    THEN IF Has(definitions, schema.ref)
         THEN CollectEnumValues(definitions[schema.ref], definitions) ELSE <<>>
    ELSE IF ~Has(schema, "anyOf") THEN <<>>
    ELSE FoldLeft(LAMBDA values, v : IF Contains(values, v) THEN values ELSE Append(values, v),
                  <<>>,
                  FlattenSeq([i \in DOMAIN schema.anyOf |->
                      CollectEnumValues(schema.anyOf[i], definitions)]))

\* (Mutant: the whole $ref is looked up in place of its last part.)
ReferenceOptionsUnnamed(schema, definitions) ==
    IF ~Has(schema, "anyOf") THEN <<>>
    ELSE SelectSeq(schema.anyOf, LAMBDA o : Has(o, "type") /\ o.type = <<"object">>)

\* The options an object may be read from, the best one first.
ReferenceOptions(schema, definitions) ==
    LET known(o)  == Has(o, "ref") /\ Has(definitions, o.ref)
        object(o) == Has(o, "type") /\ o.type = <<"object">>
        refs      == SelectSeq(schema.anyOf, known)
    IN  IF ~Has(schema, "anyOf") THEN <<>>
        ELSE [i \in DOMAIN refs |-> [ref |-> refs[i].ref]] \o SelectSeq(schema.anyOf, object)

StringFormats == {"decimal-string", "date", "date-time", "country-code"}

NormalizeBuilderFormat(schema, definitions) ==
    LET metadata == Without(schema, {"anyOf"})
        string   == [type |-> <<"string">>] @@ Without(metadata, {"ref"})
        values   == CollectEnumValues(schema, definitions)
        options  == ReferenceOptions(schema, definitions)
        kind     == schema.builder_format
    IN  IF ~Has(schema, "builder_format") THEN schema
        ELSE CASE kind \in StringFormats -> [format |-> kind] @@ string
               [] kind = "enum-string"   -> IF values = <<>> THEN string
                                            ELSE [enum |-> values] @@ string
               [] kind = "object"        -> IF options = <<>> THEN metadata ELSE
                    options[1] @@ Without(metadata, {"type", "additional"})
               [] OTHER                  -> schema

RECURSIVE NormalizeValue(_, _)
NormalizeValue(schema, definitions) ==
    LET inner == IF Has(schema, "anyOf")
                 THEN [schema EXCEPT !.anyOf = [i \in DOMAIN schema.anyOf |->
                          NormalizeValue(schema.anyOf[i], definitions)]]
                 ELSE schema
    IN  NormalizeBuilderFormat(NormalizeNullable(inner), definitions)

\* Every field and every definition, each against the definitions as they were.
NormalizeTree(tree) ==
    [fields      |-> [f \in DOMAIN tree.fields |->
                         NormalizeValue(tree.fields[f], tree.definitions)],
     definitions |-> [d \in DOMAIN tree.definitions |->
                         NormalizeValue(tree.definitions[d], tree.definitions)]]

-----------------------------------------------------------------------------
(* The reference: what a schema admits, by JSON Schema's own rules.  The   *)
(* annotations admit everything.                                           *)

Values == {"null", "a", "b", "c", "text", "number", "object"}
Literals == {"a", "b", "c"}
TypeOf(v) == IF v \in Literals \cup {"text"} THEN "string" ELSE v

RECURSIVE Admits(_, _, _)
Admits(schema, definitions, v) ==
    /\ Has(schema, "type") => Contains(schema.type, TypeOf(v))
    /\ Has(schema, "enum") => Contains(schema.enum, v)
    /\ Has(schema, "ref") => Admits(definitions[schema.ref], definitions, v)
    /\ Has(schema, "anyOf") => \E i \in DOMAIN schema.anyOf : Admits(schema.anyOf[i], definitions, v)

Admitted(tree, f) == {v \in Values : Admits(tree.fields[f], tree.definitions, v)}

\* Named by an enumeration some option leads to.
RECURSIVE Names(_, _, _)
Names(schema, definitions, v) ==
    \/ Has(schema, "enum") /\ Contains(schema.enum, v)
    \/ Has(schema, "ref") /\ Names(definitions[schema.ref], definitions, v)
    \/ Has(schema, "anyOf") /\ \E i \in DOMAIN schema.anyOf : Names(schema.anyOf[i], definitions, v)
=============================================================================
