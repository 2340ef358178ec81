---------------------------- MODULE DownloadNames ----------------------------
(***************************************************************************)
(* InvoiceDownloadService._normalize_file_name.  A name is a sequence of   *)
(* tokens: "a" a word of letters, digits and hyphens, "id" the default     *)
(* invoice-<uuid>, "ext" the letters of the format (either case), ".",     *)
(* "_", "/", " " white space and "?" any other character.                  *)
(***************************************************************************)
EXTENDS SequencesExt

Unsafe    == {"/", " ", "?"}
Tokens    == {"a", "id", "ext", ".", "_"} \cup Unsafe
Edges     == {".", "_"}
Extension == <<".", "ext">>
Default   == <<"id">> \o Extension

Strip(name, tokens) ==
    LET kept == {i \in DOMAIN name : name[i] \notin tokens}
    IN  IF kept = {} THEN <<>> ELSE SubSeq(name, Min(kept), Max(kept))

\* pathlib: the last component, not counting empty ones and ".".
ComponentTo(name, end) ==
    SubSeq(name, 1 + SelectLastInSubSeq(name, 1, end, LAMBDA t : t = "/"), end)

PathName(name) ==
    LET ends == {e \in DOMAIN name :
            /\ name[e] # "/" /\ (e = Len(name) \/ name[e + 1] = "/")
            /\ ComponentTo(name, e) # <<".">>}
    IN  IF ends = {} THEN <<>> ELSE ComponentTo(name, Max(ends))

\* rsplit(".", 1)[0], and the extension.
WithExtension(name) ==
    LET dot == SelectLastInSeq(name, LAMBDA t : t = ".")
    IN  (IF dot = 0 THEN name ELSE SubSeq(name, 1, dot - 1)) \o Extension

EnsureExtension(name) == IF IsSuffix(Extension, name) THEN name ELSE WithExtension(name)

\* (Mutant: the dot is not among the characters kept.)
ReplacedDots(name) ==
    [i \in DOMAIN name |-> IF name[i] \in Unsafe \cup {"."} THEN "_" ELSE name[i]]

\* A run of unsafe characters becomes one "_".
Replaced(name) ==
    LET starts  == {i \in DOMAIN name :
            name[i] \in Unsafe => i = 1 \/ name[i - 1] \notin Unsafe}
        kept(j) == CHOOSE i \in starts : Cardinality({k \in starts : k <= i}) = j
    IN  [j \in 1..Cardinality(starts) |->
            IF name[kept(j)] \in Unsafe THEN "_" ELSE name[kept(j)]]

\* (Mutant: the extension is not looked at again after the name was stripped.)
NormalizeFileNameOnce(request) ==
    LET named == PathName(Strip(IF request = <<>> THEN Default ELSE request, {" "}))
        safe  == EnsureExtension(IF named = <<>> THEN Default ELSE named)
    IN  Strip(Replaced(safe), Edges)

NormalizeFileName(request) ==
    LET named      == PathName(Strip(IF request = <<>> THEN Default ELSE request, {" "}))
        safe       == EnsureExtension(IF named = <<>> THEN Default ELSE named)
        normalized == Strip(Replaced(safe), Edges)
    IN  IF normalized = <<>> THEN Default ELSE EnsureExtension(normalized)

-----------------------------------------------------------------------------
(* What the name is for: one file in the export directory, and the name in *)
(* the Content-Disposition of the answer.                                  *)

IsFileName(name) ==
    /\ ToSet(name) \cap Unsafe = {}
    /\ Len(name) > Len(Extension) /\ IsSuffix(Extension, name)
    /\ name[1] \notin Edges
=============================================================================
