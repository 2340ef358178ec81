----------------------------- MODULE AtomicStore -----------------------------
(***************************************************************************)
(* What a unit of work promises: each tool call takes effect in one step,  *)
(* entirely when it returns and not at all when it raises.                 *)
(***************************************************************************)
EXTENDS ToolCalls

VARIABLES
    contents,   \* key -> the changes made to the entry, or Absent
    outcome     \* what each call asked for and how it ended

vars == <<contents, outcome>>

Pending == [req |-> NoRequest, end |-> "pending"]

TypeOK ==
    /\ contents \in [Keys -> {Absent} \cup SUBSET Changes]
    /\ outcome \in [Calls -> [req : Requests, end : {"returned", "raised"}] \cup {Pending}]

Init ==
    /\ contents = [k \in Keys |-> Absent]
    /\ outcome = [c \in Calls |-> Pending]

End(c, r, how) == /\ outcome[c] = Pending
                  /\ outcome' = [outcome EXCEPT ![c] = [req |-> r, end |-> how]]

Create(c, r) ==
    /\ r.op \in Creates
    /\ \A d \in Calls : outcome[d].req.key # r.key
    /\ contents' = [contents EXCEPT ![r.key] = {}]
    /\ End(c, r, "returned")

Write(c, r) ==
    /\ r.op \in Writes /\ contents[r.key] # Absent
    /\ contents' = [contents EXCEPT ![r.key] = @ \cup ChangesOf(c, r)]
    /\ End(c, r, "returned")

Observe(c, r) ==
    /\ \/ r.op = "read_draft" /\ contents[r.key] # Absent
       \/ r.op = "list_interactive_sessions"
    /\ UNCHANGED contents
    /\ End(c, r, "returned")

Delete(c, r) ==
    /\ r.op = "delete_draft"
    /\ contents' = [contents EXCEPT ![r.key] = Absent]
    /\ End(c, r, "returned")

Fail(c, r) ==
    /\ r.op \notin Unfailing
    /\ r.op \in Creates => \A d \in Calls : outcome[d].req.key # r.key
    /\ UNCHANGED contents
    /\ End(c, r, "raised")

Next == \E c \in Calls, r \in Requests :
            Create(c, r) \/ Write(c, r) \/ Observe(c, r) \/ Delete(c, r) \/ Fail(c, r)

Spec == Init /\ [][Next]_vars

-----------------------------------------------------------------------------
Returned(c, ops) == outcome[c].end = "returned" /\ outcome[c].req.op \in ops
Deleted(k) == \E d \in Calls : Returned(d, {"delete_draft"}) /\ outcome[d].req.key = k

(***************************************************************************)
(* Every call that returned shows in the store and no call that raised     *)
(* does: an entry is present exactly when its create returned and no       *)
(* delete did, and holds all the changes of the writes that returned and   *)
(* no other.                                                               *)
(***************************************************************************)
ExactEffects ==
    /\ \A k \in Keys : contents[k] # Absent <=>
           /\ \E c \in Calls : Returned(c, Creates) /\ outcome[c].req.key = k
           /\ ~Deleted(k)
    /\ \A k \in Keys : contents[k] # Absent =>
           contents[k] = UNION {ChangesOf(c, outcome[c].req) : c \in
               {d \in Calls : Returned(d, Writes) /\ outcome[d].req.key = k}}
=============================================================================
