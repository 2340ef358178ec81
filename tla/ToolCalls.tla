------------------------------ MODULE ToolCalls ------------------------------
(***************************************************************************)
(* The tool calls of ksef2-mcp that touch the shared in-memory store: the  *)
(* methods of LocalSessionService (services/sessions.py) and of            *)
(* DraftRuntimeService (services/drafts.py), and the keys they name.       *)
(***************************************************************************)
EXTENDS Naturals, FiniteSets

CONSTANTS
    Sessions,   \* uuids of session handles
    Drafts,     \* uuids of drafts
    Calls,      \* tool calls, each made once
    Batch,      \* how many operations succeed in a call's batch, if it is an update_draft
    Absent      \* "no such entry" (dict.get returning None)

Keys == Sessions \cup Drafts

\* The i-th change a call makes to an entry.
Changes == UNION {{c} \X (1..Batch[c]) : c \in Calls}

ASSUME StoreAssumption ==
    /\ IsFiniteSet(Keys)
    /\ Sessions \cap Drafts = {}
    /\ Batch \in [Calls -> Nat \ {0}]
    /\ Absent \notin Calls \cup Keys
    /\ \A made \in SUBSET Changes : Absent # made

Creates == {"create_draft", "open_interactive_session"}
Writes  == {"update_draft", "close_interactive_session"}
Lookups == Writes \cup {"read_draft"}

\* read_draft stands for get_contexts, get_possible_methods and build_draft,
\* and for an update_draft none of whose operations succeeds.
Requests ==
    [op : {"open_interactive_session", "close_interactive_session"}, key : Sessions]
        \cup [op : {"create_draft", "update_draft", "read_draft", "delete_draft"},
              key : Drafts]
        \cup [op : {"list_interactive_sessions"}, key : {Absent}]

NoRequest == [op |-> "none", key |-> Absent]

\* update_draft applies its operations one after the other, close_interactive_session
\* changes the handle once.
Size(c, r)      == IF r.op = "update_draft" THEN Batch[c] ELSE 1
ChangesOf(c, r) == {c} \X (1..Size(c, r))

\* Calls whose body cannot raise.
Unfailing == {"create_draft", "delete_draft", "list_interactive_sessions"}
=============================================================================
