---------------------------- MODULE NameRequests ----------------------------
(***************************************************************************)
(* A request for a download under any name up to a length, and the one     *)
(* step of create_invoice_download_link that normalises it.                *)
(***************************************************************************)
EXTENDS DownloadNames

CONSTANT MaxTokens    \* bound: length of a requested name

ASSUME MaxTokensAssumption == MaxTokens \in Nat

VARIABLES wanted, got    \* the name asked for; <<>>, then <<the name used>>

RequestedNames == UNION {[1..n -> Tokens \ {"id"}] : n \in 0..MaxTokens}

NameInit == wanted \in RequestedNames /\ got = <<>>

NormalizeName == /\ got = <<>>
                 /\ got' = <<NormalizeFileName(wanted)>>
                 /\ UNCHANGED wanted

NameSpec == NameInit /\ [][NormalizeName]_<<wanted, got>>

-----------------------------------------------------------------------------
(***************************************************************************)
(* The name of a download is a plain file name with the right extension    *)
(* and a stem, whatever was asked for.                                     *)
(***************************************************************************)
NameIsFileName == got # <<>> => IsFileName(got[1])

(***************************************************************************)
(* A name that is fit for use is kept as it is, inner dots included.       *)
(***************************************************************************)
FitNameIsKept == got # <<>> /\ IsFileName(wanted) => got[1] = wanted
=============================================================================
