--------------------------- MODULE InvoiceDownloads ---------------------------
(***************************************************************************)
(* Download links of an invoice (services/invoice_downloads.py) and the    *)
(* HTTP route that serves them (server.py): create_invoice_download_link   *)
(* builds the draft, writes the file and registers the artifact in memory, *)
(* in this order; a request looks the artifact up and opens the file.      *)
(*                                                                         *)
(* The draft is changed one operation at a time while links are built, and *)
(* another call's rollback (adapters/uow.py) puts an earlier copy of it    *)
(* back, in which changes that had been acknowledged are missing.  The     *)
(* drafts and the artifacts are lost with the process, the files are not;  *)
(* anyone may delete a file at any time; building, exporting and writing   *)
(* may fail.                                                               *)
(***************************************************************************)
EXTENDS Naturals

CONSTANTS
    Links,          \* download ids, one per create_invoice_download_link
    Requests,       \* GET requests
    MaxChanges,     \* bound: changes of the draft, numbered 1, 2, ...
    MaxRestarts,    \* bound: how often the process restarts
    None            \* "not there"

ASSUME DownloadsAssumption ==
    /\ MaxChanges \in Nat /\ MaxRestarts \in Nat
    /\ None \notin Links \cup [changes : SUBSET (1..MaxChanges), whole : BOOLEAN]
    /\ \A c \in SUBSET (1..MaxChanges) : c # None

VARIABLES
    draft,      \* the changes the stored draft holds, or None
    past,       \* what was stored in this process: another call may hold a copy of any
    replaced,   \* whether a call may hold a draft that is not the stored one any more
    changes,    \* how many changes were made
    pending,    \* those whose update_draft is under way
    acked,      \* those whose update_draft returned
    undone,     \* history: those a rollback, a deletion or a restart took from the draft
    file,       \* the export directory: what each file holds, or None
    artifacts,  \* _DOWNLOAD_ARTIFACTS
    pc,         \* where each creation is
    made,       \* the changes each creation has built into its invoice
    due,        \* history: the changes acknowledged when each creation began, without
                \* those that were undone when it built its invoice
    rpc,        \* where each request is
    asked,      \* the link it asks for
    answer,     \* its status and, with 200, what it was sent
    gone,       \* history: the links whose file was deleted or whose process has ended
    missed,     \* history: the requests whose file was deleted under their hands
    restarts    \* how often the process was restarted

store == <<draft, past, replaced, undone>>
calls == <<changes, pending, acked>>
links == <<artifacts, pc, made, due>>
reads == <<rpc, asked, answer>>
vars  == <<store, calls, file, links, reads, gone, missed, restarts>>

\* (Mutant: the path holds the name only.)
PathByName(l) == CHOOSE k \in Links : TRUE

\* The download id is part of the path.
PathOf(l) == l

Init ==
    /\ draft = None /\ past = {None} /\ replaced = FALSE
    /\ changes = 0 /\ pending = {} /\ acked = {} /\ undone = {}
    /\ file = [p \in Links |-> None]
    /\ artifacts = {}
    /\ pc = [l \in Links |-> "idle"]
    /\ made = [l \in Links |-> None]
    /\ due = [l \in Links |-> {}]
    /\ rpc = [r \in Requests |-> "idle"]
    /\ asked = [r \in Requests |-> None]
    /\ answer = [r \in Requests |-> None]
    /\ gone = {} /\ missed = {} /\ restarts = 0

-----------------------------------------------------------------------------
(* The other calls on the draft (services/drafts.py, adapters/uow.py). *)

Content(c) == IF c = None THEN {} ELSE c

\* What is stored becomes c, an object nobody else holds.
Refile(c) ==
    /\ draft' = c
    /\ undone' = (undone \cup Content(draft)) \ Content(c)
    /\ replaced' = (replaced \/ draft # None)
    /\ UNCHANGED past

CreateDraft ==
    /\ draft = None /\ past = {None}
    /\ draft' = {} /\ past' = {None, {}}
    /\ UNCHANGED <<replaced, undone, calls, file, links, reads, gone, missed, restarts>>

\* One operation of an update_draft, on the stored draft or on one that was stored
\* when the call looked it up.
Change ==
    /\ changes < MaxChanges
    /\ changes' = changes + 1 /\ pending' = pending \cup {changes'}
    /\ \/ /\ draft # None
          /\ draft' = draft \cup {changes'} /\ past' = past \cup {draft'}
          /\ UNCHANGED undone
       \/ /\ replaced
          /\ undone' = undone \cup {changes'}
          /\ UNCHANGED <<draft, past>>
    /\ UNCHANGED <<replaced, acked, file, links, reads, gone, missed, restarts>>

UpdateReturns ==
    /\ \E S \in SUBSET pending \ {{}} : acked' = acked \cup S /\ pending' = pending \ S
    /\ UNCHANGED <<store, changes, file, links, reads, gone, missed, restarts>>

\* A call on any draft or session that began in this process fails, and puts back what
\* was stored when it began.  (Nothing, None, is stored between clear() and update().)
RollBack ==
    /\ \E c \in past : Refile(c)
    /\ UNCHANGED <<calls, file, links, reads, gone, missed, restarts>>

DeleteDraft ==
    /\ draft # None
    /\ Refile(None)
    /\ UNCHANGED <<calls, file, links, reads, gone, missed, restarts>>

-----------------------------------------------------------------------------
(* create_invoice_download_link. *)

Goto(l, from, to) == pc[l] = from /\ pc' = [pc EXCEPT ![l] = to]

Begin(l) ==
    /\ Goto(l, "idle", "build")
    /\ due' = [due EXCEPT ![l] = acked]
    /\ UNCHANGED <<store, calls, file, artifacts, made, reads, gone, missed, restarts>>

\* (Mutant: what was built before is built no more.)
BuildCached(l) ==
    /\ draft # None
    /\ Goto(l, "build", "open")
    /\ \E k \in Links : made' = [made EXCEPT ![l] = IF made[k] = None THEN draft ELSE made[k]]
    /\ due' = [due EXCEPT ![l] = @ \ undone]
    /\ UNCHANGED <<store, calls, file, artifacts, reads, gone, missed, restarts>>

\* build_draft: the stored draft is looked up and exported.
BuildDraft(l) ==
    /\ draft # None
    /\ Goto(l, "build", "open")
    /\ made' = [made EXCEPT ![l] = draft]
    /\ due' = [due EXCEPT ![l] = @ \ undone]
    /\ UNCHANGED <<store, calls, file, artifacts, reads, gone, missed, restarts>>

\* The draft is unknown or incomplete: build_draft rolls back, too, unless it is the
\* copying of the store that fails.
BuildFails(l) ==
    /\ Goto(l, "build", "failed")
    /\ UNCHANGED store \/ \E c \in past : Refile(c)
    /\ UNCHANGED <<calls, file, artifacts, made, due, reads, gone, missed, restarts>>

\* The exporter fails before the file is opened.
ExportFails(l) ==
    /\ Goto(l, "open", "failed")
    /\ UNCHANGED <<store, calls, file, artifacts, made, due, reads>>
    /\ UNCHANGED <<gone, missed, restarts>>

OpenFile(l) ==
    /\ Goto(l, "open", "write")
    /\ file' = [file EXCEPT ![PathOf(l)] = [changes |-> made[l], whole |-> FALSE]]
    /\ UNCHANGED <<store, calls, artifacts, made, due, reads, gone, missed, restarts>>

\* A file that was deleted while it was open stays deleted.
WriteFile(l) ==
    /\ Goto(l, "write", "register")
    /\ file' = [file EXCEPT ![PathOf(l)] = IF @ = None THEN @ ELSE [@ EXCEPT !.whole = TRUE]]
    /\ UNCHANGED <<store, calls, artifacts, made, due, reads, gone, missed, restarts>>

\* (Mutant: the artifact is registered in a finally clause.)
WriteFailsRegistered(l) ==
    /\ Goto(l, "write", "failed")
    /\ artifacts' = artifacts \cup {l}
    /\ UNCHANGED <<store, calls, file, made, due, reads, gone, missed, restarts>>

WriteFails(l) ==
    /\ Goto(l, "write", "failed")
    /\ UNCHANGED <<store, calls, file, artifacts, made, due, reads>>
    /\ UNCHANGED <<gone, missed, restarts>>

\* (Mutant: one artifact, the last, is kept.)
RegisterOnly(l) ==
    /\ Goto(l, "register", "returned")
    /\ artifacts' = {l}
    /\ UNCHANGED <<store, calls, file, made, due, reads, gone, missed, restarts>>

Register(l) ==
    /\ Goto(l, "register", "returned")
    /\ artifacts' = artifacts \cup {l}
    /\ UNCHANGED <<store, calls, file, made, due, reads, gone, missed, restarts>>

-----------------------------------------------------------------------------
(* GET /downloads/invoices/{download_id}, for a link that was handed out. *)

Exists(l) == file[PathOf(l)] # None

Answer(r, status, content) ==
    /\ rpc' = [rpc EXCEPT ![r] = "done"]
    /\ answer' = [answer EXCEPT ![r] = [status |-> status, content |-> content]]
    /\ UNCHANGED <<store, calls, file, links, gone, missed, restarts>>

\* (Mutant: the file is not looked at.)
FindUnchecked(l) == l \in artifacts

\* get_artifact_or_raise.
Find(l) == l \in artifacts /\ Exists(l)

Found(r) ==
    /\ rpc[r] = "idle"
    /\ \E l \in Links : pc[l] = "returned" /\ Find(l) /\ asked' = [asked EXCEPT ![r] = l]
    /\ rpc' = [rpc EXCEPT ![r] = "found"]
    /\ UNCHANGED <<store, calls, file, links, answer, gone, missed, restarts>>

NotFound(r) ==
    /\ rpc[r] = "idle"
    /\ \E l \in Links : pc[l] = "returned" /\ ~Find(l) /\ asked' = [asked EXCEPT ![r] = l]
    /\ Answer(r, 404, None)

\* FileResponse looks at the file again, and opens it.
Serve(r) ==
    /\ rpc[r] = "found" /\ Exists(asked[r])
    /\ Answer(r, 200, file[PathOf(asked[r])])
    /\ UNCHANGED asked

ServeFails(r) ==
    /\ rpc[r] = "found" /\ ~Exists(asked[r])
    /\ Answer(r, 500, None)
    /\ UNCHANGED asked

-----------------------------------------------------------------------------
(* The file system, and the end of the process. *)

Delete(l) ==
    /\ Exists(l)
    /\ file' = [file EXCEPT ![PathOf(l)] = None]
    /\ gone' = gone \cup {k \in Links : PathOf(k) = PathOf(l)}
    /\ missed' = missed \cup {r \in Requests : rpc[r] = "found" /\ PathOf(asked[r]) = PathOf(l)}
    /\ UNCHANGED <<store, calls, links, reads, restarts>>

Restart ==
    /\ restarts < MaxRestarts
    /\ restarts' = restarts + 1
    /\ draft' = None /\ past' = {None} /\ replaced' = FALSE /\ pending' = {}
    /\ undone' = undone \cup Content(draft)
    /\ artifacts' = {}
    /\ pc' = [l \in Links |-> IF pc[l] \in {"idle", "returned"} THEN pc[l] ELSE "failed"]
    /\ rpc' = [r \in Requests |-> IF rpc[r] = "found" THEN "lost" ELSE rpc[r]]
    /\ gone' = gone \cup {l \in Links : pc[l] = "returned"}
    /\ UNCHANGED <<changes, acked, file, made, due, asked, answer, missed>>

Create(l) == Begin(l) \/ BuildDraft(l) \/ BuildFails(l) \/ ExportFails(l) \/ OpenFile(l)
             \/ WriteFile(l) \/ WriteFails(l) \/ Register(l)
Get(r) == Found(r) \/ NotFound(r) \/ Serve(r) \/ ServeFails(r)
Draft  == CreateDraft \/ Change \/ UpdateReturns \/ RollBack \/ DeleteDraft

Next == \/ \E l \in Links : Create(l) \/ Delete(l)
        \/ \E r \in Requests : Get(r)
        \/ Draft \/ Restart

Spec == Init /\ [][Next]_vars

-----------------------------------------------------------------------------
(***************************************************************************)
(* Every variable has the shape its comment gives it; an artifact has a    *)
(* creation that returned in this process or is about to.                  *)
(***************************************************************************)
Made     == SUBSET (1..MaxChanges)
Contents == [changes : Made, whole : BOOLEAN] \cup {None}

TypeOK ==
    /\ draft \in {None} \cup Made /\ past \subseteq {None} \cup Made /\ replaced \in BOOLEAN
    /\ changes \in 0..MaxChanges /\ pending \in Made /\ acked \in Made /\ undone \in Made
    /\ file \in [Links -> Contents]
    /\ artifacts \subseteq {l \in Links : pc[l] = "returned"}
    /\ pc \in [Links -> {"idle", "build", "open", "write", "register", "returned", "failed"}]
    /\ made \in [Links -> {None} \cup Made]
    /\ due \in [Links -> Made]
    /\ rpc \in [Requests -> {"idle", "found", "done", "lost"}]
    /\ asked \in [Requests -> Links \cup {None}]
    /\ answer \in [Requests -> [status : {200, 404, 500}, content : Contents] \cup {None}]
    /\ gone \subseteq Links /\ missed \subseteq Requests /\ restarts \in 0..MaxRestarts

Status(r, s) == rpc[r] = "done" /\ answer[r].status = s

(***************************************************************************)
(* Whoever follows a link is sent the whole invoice that its own creation  *)
(* built, whatever other creations wrote, failed to write or are writing.  *)
(***************************************************************************)
ServedComplete == \A r \in Requests : Status(r, 200) =>
    answer[r].content = [changes |-> made[asked[r]], whole |-> TRUE]

(***************************************************************************)
(* The invoice sent holds every change whose update_draft had returned     *)
(* when its link was asked for, but for those that were missing from the   *)
(* draft when it was built because an overlapping call had rolled them     *)
(* back, had replaced the draft under the hands of their update_draft or   *)
(* had deleted it, or because the process had ended.                       *)
(***************************************************************************)
FreshUnlessUndone == \A r \in Requests : Status(r, 200) =>
    due[asked[r]] \subseteq answer[r].content.changes

(***************************************************************************)
(* A link that was handed out is refused as unknown only when its file was *)
(* deleted or the process that registered it has ended.                    *)
(***************************************************************************)
LinkServed == \A r \in Requests : Status(r, 404) => asked[r] \in gone

(***************************************************************************)
(* A request ends in a server error only when the file was deleted while   *)
(* the request was being served: get_artifact_or_raise rules out the rest. *)
(***************************************************************************)
ErrorOnlyInTheGap == \A r \in Requests : Status(r, 500) => r \in missed
=============================================================================
