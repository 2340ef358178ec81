-------------------------- MODULE MCInvoiceDownloads --------------------------
(***************************************************************************)
(* Instances of InvoiceDownloads for TLC.                                  *)
(***************************************************************************)
EXTENDS InvoiceDownloads, TLC

Symmetry == Permutations(Links) \cup Permutations(Requests)
=============================================================================
