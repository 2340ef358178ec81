---------------------------- MODULE ContextNames ----------------------------
(***************************************************************************)
(* The names of the contexts of a draft: clients choose them, except for   *)
(* "root" (_ROOT_CONTEXT_ID, services/drafts.py).                          *)
(***************************************************************************)
CONSTANTS
    Ids,        \* context ids
    Root,       \* "root"
    None,       \* the parent of the root context
    Absent      \* "no such context"

ASSUME NamesAssumption == Root \in Ids /\ {None, Absent} \cap Ids = {} /\ None # Absent
=============================================================================
