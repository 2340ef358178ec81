------------------------------ MODULE MCFunctions ------------------------------
(***************************************************************************)
(* The algorithms for TLC: every payload schema of one field with some     *)
(* options, or every download name up to a length, and one step that       *)
(* normalises it.                                                          *)
(***************************************************************************)
EXTENDS PayloadSchemas, NameRequests

CONSTANT MaxOptions    \* bound: length of an anyOf

ASSUME MaxOptionsAssumption == MaxOptions \in Nat

VARIABLES
    request,   \* a payload schema, or <<>> when a name is asked for
    result     \* <<>>, then <<the normalised schema>>

Definitions ==
    [Color |-> [type |-> <<"string">>, enum |-> <<"a", "b">>],
     Shade |-> [type |-> <<"string">>, enum |-> <<"c", "b">>],
     Tint  |-> [anyOf |-> <<[ref |-> "Color"], [ref |-> "Shade"], [type |-> <<"null">>]>>,
                omit |-> TRUE],
     Party |-> [type |-> <<"object">>, additional |-> FALSE]]

Options ==
    {[type |-> <<"null">>], [type |-> <<"string">>], [type |-> <<"number">>],
     [type |-> <<"string", "null">>], [type |-> <<"object">>, description |-> "inner"],
     [type |-> <<"string">>, enum |-> <<"c", "a">>],
     [anyOf |-> <<[ref |-> "Shade"], [type |-> <<"number">>]>>],
     [anyOf |-> <<[ref |-> "Color"], [type |-> <<"null">>]>>, omit |-> TRUE,
      builder_format |-> "enum-string"]}
    \cup {[ref |-> d] : d \in DOMAIN Definitions}

Formats == {"decimal-string", "enum-string", "object", "other"}

\* A field: an option, or some; with or without the annotations.
Bare   == Options \cup {[anyOf |-> s] : s \in UNION {[1..n -> Options] : n \in 1..MaxOptions}}
Fields == {m @@ s : m \in {<<>>} \cup {[omit |-> TRUE]}
                          \cup {[builder_format |-> k] : k \in Formats}
                          \cup {[omit |-> TRUE, builder_format |-> k] : k \in Formats},
                    s \in Bare}

Tree(field) == [fields |-> [f |-> field], definitions |-> Definitions]

\* A string format annotates what a string may stand for, "object" what an object may.
Fitting(field) ==
    LET values == Admitted(Tree(field), "f")
    IN  Has(field, "builder_format") =>
            CASE field.builder_format = "decimal-string" -> "text" \in values
              [] field.builder_format = "enum-string" ->
                     "text" \in values \/ values \cap Literals # {}
              [] field.builder_format = "object" -> "object" \in values
              [] OTHER -> TRUE

SchemaInit == /\ \E s \in Fields : Fitting(s) /\ request = Tree(s)
              /\ result = <<>>

NormalizeSchema == /\ request # <<>> /\ result = <<>>
                   /\ result' = <<NormalizeTree(request)>>
                   /\ UNCHANGED request

Init == \/ SchemaInit /\ wanted = <<>> /\ got = <<>>
        \/ NameInit /\ request = <<>> /\ result = <<>>

Next == \/ NormalizeSchema /\ UNCHANGED <<wanted, got>>
        \/ NormalizeName /\ UNCHANGED <<request, result>>

Spec == Init /\ [][Next]_<<request, result, wanted, got>>

-----------------------------------------------------------------------------
OmitPreferred(s) ==
    Has(s, "omit") \/ (Has(s, "anyOf") /\ \E i \in DOMAIN s.anyOf : Has(s.anyOf[i], "omit"))

Done   == result # <<>>
Field  == request.fields.f
Before == Admitted(request, "f")
After  == Admitted(result[1], "f")

(***************************************************************************)
(* A normalised payload schema admits nothing that the method's own schema *)
(* refuses: an agent that follows it sends no payload that _validate_args  *)
(* turns away for its shape.                                               *)
(***************************************************************************)
NeverWidens == Done => After \subseteq Before

(***************************************************************************)
(* Without a builder format the normalisation takes away null at most, and *)
(* only where omitting the field, or one of its options, is preferred.     *)
(***************************************************************************)
KeepsValues == Done /\ (~Has(Field, "builder_format") \/ Field.builder_format = "other") =>
    Before \ After \subseteq (IF OmitPreferred(Field) THEN {"null"} ELSE {})

(***************************************************************************)
(* An enum-string field offers exactly the literals of the enumerations    *)
(* its options lead to, through references and nested options, each once.  *)
(***************************************************************************)
OffersEveryLiteral ==
    Done /\ Has(Field, "builder_format") /\ Field.builder_format = "enum-string" =>
        LET named   == {v \in Literals : Names(Field, request.definitions, v)}
            offered == result[1].fields.f
        IN  named # {} => /\ Has(offered, "enum") /\ ToSet(offered.enum) = named
                          /\ Len(offered.enum) = Cardinality(named)
=============================================================================
