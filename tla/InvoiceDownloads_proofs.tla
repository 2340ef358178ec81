----------------------- MODULE InvoiceDownloads_proofs -----------------------
(***************************************************************************)
(* Download links for any number of creations, requests, changes and       *)
(* restarts: what is served is complete and fresh, and what is refused is  *)
(* gone.  The name of a download, for requests of any length.              *)
(***************************************************************************)
EXTENDS InvoiceDownloads, NameRequests, WellFoundedInduction, FiniteSetTheorems,
        SequenceTheorems, TLAPS

Whole(l) == [changes |-> made[l], whole |-> TRUE]

\* What the place of a creation says of its file.
FileOf(l) ==
    /\ pc[l] \in {"idle", "build", "open"} => file[l] = None
    /\ pc[l] = "write" => file[l] \in {None, [changes |-> made[l], whole |-> FALSE]}
    /\ pc[l] \in {"register", "returned"} => file[l] \in {None, Whole(l)}

\* A change is in the stored draft or was undone.
Accounted == pending \cup acked \subseteq Content(draft) \cup undone

\* So is what a creation owes until it builds the draft, and then it has built it.
BuiltDue(l) ==
    /\ pc[l] = "build" => due[l] \subseteq Content(draft) \cup undone
    /\ pc[l] \in {"open", "write", "register", "returned"} =>
           made[l] \in Made /\ due[l] \subseteq made[l]

\* A link without its file, or handed out without its artifact, is gone.
Reachable(l) ==
    /\ pc[l] \in {"write", "register", "returned"} /\ file[l] = None => l \in gone
    /\ pc[l] = "returned" /\ l \notin artifacts => l \in gone

RequestOf(r) ==
    /\ rpc[r] \in {"found", "done"} => asked[r] \in Links /\ pc[asked[r]] = "returned"
    /\ rpc[r] = "found" /\ file[asked[r]] = None => r \in missed
    /\ Status(r, 200) => answer[r].content = Whole(asked[r])
    /\ Status(r, 404) => asked[r] \in gone
    /\ Status(r, 500) => r \in missed

IInv ==
    /\ TypeOK /\ Accounted
    /\ \A l \in Links : FileOf(l) /\ BuiltDue(l) /\ Reachable(l)
    /\ \A r \in Requests : RequestOf(r)

-----------------------------------------------------------------------------
(***************************************************************************)
(* What is written to a file is never mistaken for its absence.            *)
(***************************************************************************)
LEMMA Written == ASSUME NEW v \in Made, NEW w \in BOOLEAN
                 PROVE  /\ [changes |-> v, whole |-> w] \in Contents
                        /\ [changes |-> v, whole |-> w] # None
<1>1. [changes |-> v, whole |-> w] \in [changes : SUBSET (1..MaxChanges), whole : BOOLEAN]
  BY DEF Made
<1> QED
  BY <1>1, DownloadsAssumption DEF Contents, Made

(***************************************************************************)
(* What a copy of the store holds is a set of changes.                     *)
(***************************************************************************)
LEMMA ContentMade == ASSUME NEW c \in {None} \cup Made PROVE Content(c) \in Made
BY DEF Content, Made

(***************************************************************************)
(* Putting a copy of an earlier store back keeps the shape of the store    *)
(* and loses sight of no change.                                           *)
(***************************************************************************)
LEMMA RefileKeeps ==
  ASSUME TypeOK, NEW c \in {None} \cup Made, Refile(c)
  PROVE  /\ draft' \in {None} \cup Made /\ past' = past
         /\ undone' \in Made /\ replaced' \in BOOLEAN
         /\ Content(draft) \cup undone \subseteq Content(draft)' \cup undone'
<1>1. Content(draft) \in Made /\ Content(c) \in Made
  BY ContentMade DEF TypeOK
<1>2. Content(draft)' = Content(c)
  BY DEF Refile, Content
<1> QED
  BY <1>1, <1>2 DEF Refile, TypeOK, Made

\* The shape of the store and of the calls on it, after a step.
StoreShape ==
    /\ draft' \in {None} \cup Made /\ past' \subseteq {None} \cup Made /\ replaced' \in BOOLEAN
    /\ changes' \in 0..MaxChanges /\ pending' \in Made /\ acked' \in Made /\ undone' \in Made

(***************************************************************************)
(* A step of another call on the draft, a rollback included, keeps the     *)
(* shape of the store and loses sight of no change.                        *)
(***************************************************************************)
LEMMA DraftStep ==
  ASSUME TypeOK, Accounted, Draft
  PROVE  /\ StoreShape /\ Accounted'
         /\ Content(draft) \cup undone \subseteq Content(draft)' \cup undone'
<1> USE DEF TypeOK, Accounted, StoreShape, Made, store, calls
<1>0. Content(draft) \in Made
  BY ContentMade
<1>1. CASE CreateDraft
  <2>1. {} # None
    BY DownloadsAssumption
  <2>2. Content(draft) = {} /\ Content(draft)' = {}
    BY <1>1, <2>1 DEF CreateDraft, Content
  <2> QED
    BY <1>1, <2>2 DEF CreateDraft
<1>2. CASE Change
  <2>1. changes' \in 1..MaxChanges
    BY <1>2, DownloadsAssumption DEF Change
  <2>2. CASE draft # None /\ draft' = draft \cup {changes'} /\ past' = past \cup {draft'}
             /\ UNCHANGED undone
    <3>1. draft \in Made
      BY <2>2
    <3>2. draft' \in Made
      BY <2>1, <2>2, <3>1
    <3>3. draft' # None
      BY <3>2, DownloadsAssumption
    <3>4. Content(draft) = draft /\ Content(draft)' = draft'
      BY <2>2, <3>3 DEF Content
    <3>5. /\ pending' = pending \cup {changes'} /\ undone' = undone
          /\ replaced' = replaced /\ acked' = acked
      BY <1>2, <2>2 DEF Change
    <3>6. pending' \in SUBSET (1..MaxChanges) /\ past' \subseteq {None} \cup SUBSET (1..MaxChanges)
      BY <2>1, <2>2, <3>2, <3>5
    <3>7. pending' \cup acked' \subseteq Content(draft)' \cup undone'
      BY <2>2, <3>4, <3>5
    <3>8. Content(draft) \cup undone \subseteq Content(draft)' \cup undone'
      BY <2>2, <3>4, <3>5
    <3>9. StoreShape
      BY <2>1, <3>2, <3>5, <3>6
    <3> QED
      BY <3>7, <3>8, <3>9
  <2>3. CASE undone' = undone \cup {changes'} /\ UNCHANGED <<draft, past>>
    <3>1. Content(draft)' = Content(draft)
      BY <2>3 DEF Content
    <3> QED
      BY <1>2, <2>1, <2>3, <3>1 DEF Change
  <2> QED
    BY <1>2, <2>2, <2>3 DEF Change
<1>3. CASE UpdateReturns
  <2>1. Content(draft)' = Content(draft)
    BY <1>3 DEF UpdateReturns, Content
  <2> QED
    BY <1>3, <2>1 DEF UpdateReturns
<1>4. CASE RollBack
  <2>1. PICK c \in past : Refile(c)
    BY <1>4 DEF RollBack
  <2> QED
    BY <1>4, <2>1, RefileKeeps DEF RollBack
<1>5. CASE DeleteDraft
  BY <1>5, RefileKeeps DEF DeleteDraft
<1> QED
  BY <1>1, <1>2, <1>3, <1>4, <1>5 DEF Draft

(***************************************************************************)
(* The end of the process keeps the shape of the store; what is lost with  *)
(* the draft was undone.                                                   *)
(***************************************************************************)
LEMMA EndStep ==
  ASSUME TypeOK, Accounted, Restart
  PROVE  /\ StoreShape /\ Accounted'
         /\ Content(draft) \cup undone \subseteq Content(draft)' \cup undone'
<1>1. Content(draft) \in Made /\ Content(draft)' = {}
  BY ContentMade DEF Restart, Content, TypeOK
<1> QED
  BY <1>1 DEF Restart, TypeOK, Accounted, StoreShape, Made

(***************************************************************************)
(* A creation that fails to build its draft may roll back, too.            *)
(***************************************************************************)
LEMMA FailStep ==
  ASSUME TypeOK, Accounted, NEW l \in Links, BuildFails(l)
  PROVE  /\ StoreShape /\ Accounted'
         /\ Content(draft) \cup undone \subseteq Content(draft)' \cup undone'
<1> USE DEF TypeOK, Accounted, StoreShape, store, calls, BuildFails
<1>1. CASE UNCHANGED store
  BY <1>1 DEF Content
<1>2. CASE \E c \in past : Refile(c)
  BY <1>2, RefileKeeps
<1> QED
  BY <1>1, <1>2

(***************************************************************************)
(* A step of a creation, of a request or of their surroundings keeps the   *)
(* shape of every variable.                                                *)
(***************************************************************************)
LEMMA TypeStep == IInv /\ [Next]_vars => TypeOK'
<1> SUFFICES ASSUME IInv, [Next]_vars PROVE TypeOK'
  OBVIOUS
<1>0. TypeOK /\ Accounted /\ \A l \in Links : BuiltDue(l)
  BY DEF IInv
<1> USE <1>0, DownloadsAssumption DEF TypeOK, Goto, PathOf, links, reads, store, calls
<1>1. ASSUME NEW l \in Links, Create(l) PROVE TypeOK'
  <2>1. CASE Begin(l)
    BY <2>1 DEF Begin
  <2>2. CASE BuildDraft(l)
    <3>1. due[l] \ undone \in Made
      BY DEF Made
    <3> QED
      BY <2>2, <3>1 DEF BuildDraft
  <2>3. CASE BuildFails(l)
    <3>1. StoreShape
      BY <2>3, FailStep
    <3> QED
      BY <2>3, <3>1 DEF BuildFails, StoreShape
  <2>8. CASE ExportFails(l)
    BY <2>8 DEF ExportFails
  <2>4. CASE OpenFile(l)
    BY <2>4 DEF OpenFile, Contents, BuiltDue
  <2>5. CASE WriteFile(l)
    <3>0. file[l] \in Contents
      OBVIOUS
    <3>1. (IF file[l] = None THEN None ELSE [file[l] EXCEPT !.whole = TRUE]) \in Contents
      <4>1. CASE file[l] = None
        BY <4>1 DEF Contents
      <4>2. CASE file[l] # None
        <5>1. file[l] \in [changes : Made, whole : BOOLEAN]
          BY <3>0, <4>2 DEF Contents
        <5>2. [file[l] EXCEPT !.whole = TRUE] \in [changes : Made, whole : BOOLEAN]
          BY <5>1
        <5> QED
          BY <4>2, <5>2 DEF Contents
      <4> QED
        BY <4>1, <4>2
    <3>2. file' \in [Links -> Contents]
      BY <2>5, <3>1 DEF WriteFile
    <3> QED
      BY <2>5, <3>2 DEF WriteFile
  <2>6. CASE WriteFails(l)
    BY <2>6 DEF WriteFails
  <2>7. CASE Register(l)
    BY <2>7 DEF Register
  <2> QED
    BY <1>1, <2>1, <2>2, <2>3, <2>4, <2>5, <2>6, <2>7, <2>8 DEF Create
<1>2. ASSUME NEW r \in Requests, Get(r) PROVE TypeOK'
  <2>1. CASE Found(r)
    BY <2>1 DEF Found
  <2>2. CASE NotFound(r)
    BY <2>2 DEF NotFound, Answer, Contents
  <2>3. CASE Serve(r)
    <3>1. asked[r] \in Links
      BY <2>3 DEF Serve, IInv, RequestOf
    <3>2. answer' \in [Requests -> [status : {200, 404, 500}, content : Contents] \cup {None}]
      BY <2>3, <3>1 DEF Serve, Answer
    <3> QED
      BY <2>3, <3>2 DEF Serve, Answer
  <2>4. CASE ServeFails(r)
    BY <2>4 DEF ServeFails, Answer, Contents
  <2> QED
    BY <1>2, <2>1, <2>2, <2>3, <2>4 DEF Get
<1>3. CASE Draft
  <2>1. StoreShape
    BY <1>3, DraftStep
  <2>2. UNCHANGED <<file, links, reads, gone, missed, restarts>>
    BY <1>3 DEF Draft, CreateDraft, Change, UpdateReturns, RollBack, DeleteDraft
  <2> QED
    BY <2>1, <2>2 DEF StoreShape
<1>4. ASSUME NEW l \in Links, Delete(l) PROVE TypeOK'
  BY <1>4 DEF Delete, Contents
<1>5. CASE Restart
  <2>1. StoreShape
    BY <1>5, EndStep
  <2>2. /\ pc' \in [Links -> {"idle", "build", "open", "write", "register", "returned", "failed"}]
        /\ rpc' \in [Requests -> {"idle", "found", "done", "lost"}]
    BY <1>5 DEF Restart
  <2>3. artifacts' = {} /\ gone' \subseteq Links /\ restarts' \in 0..MaxRestarts
    BY <1>5 DEF Restart
  <2> QED
    BY <1>5, <2>1, <2>2, <2>3 DEF Restart, StoreShape
<1>6. CASE UNCHANGED vars
  BY <1>6 DEF vars
<1> QED
  BY <1>1, <1>2, <1>3, <1>4, <1>5, <1>6 DEF Next

(***************************************************************************)
(* No step loses sight of a change: what was made is stored or was undone. *)
(***************************************************************************)
LEMMA AccountStep ==
  ASSUME IInv, [Next]_vars
  PROVE  Accounted' /\ Content(draft) \cup undone \subseteq Content(draft)' \cup undone'
<1>0. TypeOK /\ Accounted
  BY DEF IInv
<1>1. CASE Draft
  BY <1>0, <1>1, DraftStep
<1>2. CASE Restart
  BY <1>0, <1>2, EndStep
<1>3. ASSUME NEW l \in Links, BuildFails(l)
      PROVE  Accounted' /\ Content(draft) \cup undone \subseteq Content(draft)' \cup undone'
  BY <1>0, <1>3, FailStep
<1>4. CASE UNCHANGED <<store, calls>>
  BY <1>0, <1>4 DEF Accounted, Content, store, calls
<1>5. ASSUME NEW l \in Links, Create(l), ~BuildFails(l) PROVE UNCHANGED <<store, calls>>
  BY <1>5 DEF Create, Begin, BuildDraft, ExportFails, OpenFile, WriteFile, WriteFails, Register
<1>6. ASSUME NEW r \in Requests, Get(r) PROVE UNCHANGED <<store, calls>>
  BY <1>6 DEF Get, Found, NotFound, Serve, ServeFails, Answer
<1>7. ASSUME NEW l \in Links, Delete(l) PROVE UNCHANGED <<store, calls>>
  BY <1>7 DEF Delete
<1> QED
  BY <1>1, <1>2, <1>3, <1>4, <1>5, <1>6, <1>7 DEF Next, vars

(***************************************************************************)
(* A step keeps what is known of a creation: what its file holds, that it  *)
(* has built what it owes, and that only a gone link lacks its file.       *)
(***************************************************************************)
LEMMA LinkStep ==
    IInv /\ [Next]_vars => \A k \in Links : FileOf(k)' /\ BuiltDue(k)' /\ Reachable(k)'
<1> SUFFICES ASSUME IInv, [Next]_vars, NEW k \in Links
             PROVE  FileOf(k)' /\ BuiltDue(k)' /\ Reachable(k)'
  OBVIOUS
<1>0. TypeOK /\ Accounted /\ FileOf(k) /\ BuiltDue(k) /\ Reachable(k)
  BY DEF IInv
<1>a. Content(draft) \cup undone \subseteq Content(draft)' \cup undone'
  BY AccountStep
<1> HIDE DEF Content
<1> USE <1>0, <1>a, DownloadsAssumption
        DEF TypeOK, Goto, PathOf, links, reads, FileOf, BuiltDue, Reachable, Whole
<1>1. ASSUME NEW l \in Links, Create(l) PROVE FileOf(k)' /\ BuiltDue(k)' /\ Reachable(k)'
  <2>1. CASE Begin(l)
    BY <2>1 DEF Begin, Accounted
  <2>2. CASE BuildDraft(l)
    <3>1. CASE k = l
      <4>1. pc[l] = "build" /\ pc'[l] = "open" /\ draft \in Made /\ Content(draft) = draft
        BY <2>2 DEF BuildDraft, Content
      <4>2. made'[l] = draft /\ due'[l] = due[l] \ undone
        BY <2>2 DEF BuildDraft
      <4>3. due'[l] \subseteq made'[l]
        BY <3>1, <4>1, <4>2
      <4> QED
        BY <2>2, <3>1, <4>1, <4>2, <4>3 DEF BuildDraft
    <3>2. CASE k # l
      BY <2>2, <3>2 DEF BuildDraft
    <3> QED
      BY <3>1, <3>2
  <2>3. CASE BuildFails(l)
    BY <2>3 DEF BuildFails
  <2>8. CASE ExportFails(l)
    BY <2>8 DEF ExportFails
  <2>4. CASE OpenFile(l)
    <3>1. CASE k = l
      <4>1. /\ pc'[l] = "write" /\ file'[l] = [changes |-> made[l], whole |-> FALSE]
            /\ made' = made /\ due' = due
        BY <2>4, <3>1 DEF OpenFile
      <4>2. made[l] \in Made
        BY <2>4, <3>1 DEF OpenFile
      <4>3. file'[l] # None
        BY <4>1, <4>2, Written
      <4> QED
        BY <2>4, <3>1, <4>1, <4>3 DEF OpenFile
    <3>2. CASE k # l
      BY <2>4, <3>2 DEF OpenFile
    <3> QED
      BY <3>1, <3>2
  <2>5. CASE WriteFile(l)
    <3>1. CASE k = l
      <4>1. /\ pc[l] = "write" /\ pc'[l] = "register" /\ gone' = gone
            /\ file'[l] = IF file[l] = None THEN None ELSE [file[l] EXCEPT !.whole = TRUE]
            /\ made' = made /\ due' = due
        BY <2>5, <3>1 DEF WriteFile
      <4>2. CASE file[l] = None
        BY <3>1, <4>1, <4>2
      <4>3. CASE file[l] = [changes |-> made[l], whole |-> FALSE]
        <5>1. made[l] \in Made
          BY <3>1, <4>1
        <5>2. file[l] # None
          BY <4>3, <5>1, Written
        <5>3. file'[l] = [changes |-> made[l], whole |-> TRUE]
          <6>1. file'[l] = [file[l] EXCEPT !.whole = TRUE]
            BY <4>1, <5>2
          <6>2. @ = [[changes |-> made[l], whole |-> FALSE] EXCEPT !.whole = TRUE]
            BY <4>3
          <6> QED
            BY <6>1, <6>2, Zenon
        <5>4. file'[l] # None
          BY <5>1, <5>3, Written
        <5> QED
          BY <3>1, <4>1, <5>3, <5>4
      <4> QED
        BY <3>1, <4>1, <4>2, <4>3
    <3>2. CASE k # l
      BY <2>5, <3>2 DEF WriteFile
    <3> QED
      BY <3>1, <3>2
  <2>6. CASE WriteFails(l)
    BY <2>6 DEF WriteFails
  <2>7. CASE Register(l)
    BY <2>7 DEF Register
  <2> QED
    BY <1>1, <2>1, <2>2, <2>3, <2>4, <2>5, <2>6, <2>7, <2>8 DEF Create
<1>2. ASSUME NEW r \in Requests, Get(r) PROVE FileOf(k)' /\ BuiltDue(k)' /\ Reachable(k)'
  BY <1>2 DEF Get, Found, NotFound, Serve, ServeFails, Answer
<1>3. CASE Draft
  BY <1>3 DEF Draft, CreateDraft, Change, UpdateReturns, RollBack, DeleteDraft
<1>4. ASSUME NEW l \in Links, Delete(l) PROVE FileOf(k)' /\ BuiltDue(k)' /\ Reachable(k)'
  BY <1>4 DEF Delete
<1>5. CASE Restart
  BY <1>5 DEF Restart
<1>6. CASE UNCHANGED vars
  BY <1>6 DEF vars
<1> QED
  BY <1>1, <1>2, <1>3, <1>4, <1>5, <1>6 DEF Next

(***************************************************************************)
(* A step keeps what is known of a request: it asks for a link that was    *)
(* handed out, it was sent what the creation built, and it was refused for *)
(* a reason.                                                               *)
(***************************************************************************)
LEMMA RequestStep == IInv /\ [Next]_vars => \A q \in Requests : RequestOf(q)'
<1> SUFFICES ASSUME IInv, [Next]_vars, NEW q \in Requests PROVE RequestOf(q)'
  OBVIOUS
<1>0. TypeOK /\ RequestOf(q) /\ \A l \in Links : FileOf(l) /\ Reachable(l)
  BY DEF IInv
<1> USE <1>0, DownloadsAssumption DEF TypeOK, PathOf, links, reads, RequestOf, Status, Whole
<1>1. ASSUME NEW l \in Links, Create(l) PROVE RequestOf(q)'
  <2>1. CASE Begin(l)
    BY <2>1 DEF Begin, Goto
  <2>2. CASE BuildDraft(l)
    <3>1. rpc[q] \in {"found", "done"} => asked[q] # l
      BY <2>2 DEF BuildDraft, Goto
    <3>2. rpc[q] \in {"found", "done"} => made'[asked[q]] = made[asked[q]] /\ pc'[asked[q]] = "returned"
      BY <2>2, <3>1 DEF BuildDraft, Goto
    <3> QED
      BY <2>2, <3>2 DEF BuildDraft
  <2>3. CASE BuildFails(l)
    BY <2>3 DEF BuildFails, Goto
  <2>8. CASE ExportFails(l)
    BY <2>8 DEF ExportFails, Goto
  <2>4. CASE OpenFile(l)
    BY <2>4 DEF OpenFile, Goto
  <2>5. CASE WriteFile(l)
    BY <2>5 DEF WriteFile, Goto
  <2>6. CASE WriteFails(l)
    BY <2>6 DEF WriteFails, Goto
  <2>7. CASE Register(l)
    BY <2>7 DEF Register, Goto
  <2> QED
    BY <1>1, <2>1, <2>2, <2>3, <2>4, <2>5, <2>6, <2>7, <2>8 DEF Create
<1>2. ASSUME NEW r \in Requests, Get(r) PROVE RequestOf(q)'
  <2>1. CASE Found(r)
    <3>1. CASE q = r
      <4>1. asked'[q] \in Links /\ pc[asked'[q]] = "returned" /\ file[asked'[q]] # None
        BY <2>1, <3>1 DEF Found, Find, Exists
      <4>2. rpc'[q] = "found"
        BY <2>1, <3>1 DEF Found
      <4> QED
        BY <2>1, <4>1, <4>2 DEF Found
    <3>2. CASE q # r
      <4>1. asked'[q] = asked[q] /\ rpc'[q] = rpc[q]
        BY <2>1, <3>2 DEF Found
      <4>2. UNCHANGED <<file, links, answer, gone, missed>>
        BY <2>1 DEF Found
      <4> QED
        BY <4>1, <4>2
    <3> QED
      BY <3>1, <3>2
  <2>2. CASE NotFound(r)
    BY <2>2 DEF NotFound, Answer, Find, Exists, Reachable
  <2>3. CASE Serve(r)
    <3>1. CASE q = r
      <4>1. asked[q] \in Links /\ pc[asked[q]] = "returned" /\ file[asked[q]] = Whole(asked[q])
        BY <2>3, <3>1 DEF Serve, Exists, FileOf
      <4>2. rpc'[q] = "done" /\ answer'[q] = [status |-> 200, content |-> Whole(asked[q])]
        BY <2>3, <3>1, <4>1 DEF Serve, Answer
      <4>3. UNCHANGED <<file, links, asked, gone, missed>>
        BY <2>3 DEF Serve, Answer
      <4>4. answer'[q].status = 200 /\ answer'[q].content = Whole(asked[q])
        BY <4>2
      <4> QED
        BY <4>1, <4>2, <4>3, <4>4
    <3>2. CASE q # r
      <4>1. answer'[q] = answer[q] /\ rpc'[q] = rpc[q]
        BY <2>3, <3>2 DEF Serve, Answer
      <4> QED
        BY <2>3, <4>1 DEF Serve, Answer
    <3> QED
      BY <3>1, <3>2
  <2>4. CASE ServeFails(r)
    BY <2>4 DEF ServeFails, Answer, Exists
  <2> QED
    BY <1>2, <2>1, <2>2, <2>3, <2>4 DEF Get
<1>3. CASE Draft
  BY <1>3 DEF Draft, CreateDraft, Change, UpdateReturns, RollBack, DeleteDraft
<1>4. ASSUME NEW l \in Links, Delete(l) PROVE RequestOf(q)'
  BY <1>4 DEF Delete
<1>5. CASE Restart
  BY <1>5 DEF Restart
<1>6. CASE UNCHANGED vars
  BY <1>6 DEF vars
<1> QED
  BY <1>1, <1>2, <1>3, <1>4, <1>5, <1>6 DEF Next

(***************************************************************************)
(* The inductive invariant: it holds at first, and every step keeps it.    *)
(***************************************************************************)
LEMMA DownloadsInvariant == Spec => []IInv
<1>1. Init => IInv
  <2> SUFFICES ASSUME Init PROVE IInv
    OBVIOUS
  <2>1. TypeOK
    <3>1. {} \in Made
      BY DEF Made
    <3>2. draft \in {None} \cup Made /\ past \subseteq {None} \cup Made /\ replaced \in BOOLEAN
      BY DEF Init
    <3>5. changes \in 0..MaxChanges /\ restarts \in 0..MaxRestarts
      <4>1. MaxChanges \in Nat /\ MaxRestarts \in Nat
        BY DownloadsAssumption
      <4> QED
        BY <4>1 DEF Init
    <3>3. file \in [Links -> Contents] /\ made \in [Links -> {None} \cup Made]
      BY DEF Init, Contents
    <3>4. due \in [Links -> Made]
      BY <3>1 DEF Init
    <3> QED
      BY <3>1, <3>2, <3>3, <3>4, <3>5 DEF Init, TypeOK
  <2>2. Accounted
    BY DEF Init, Accounted
  <2> QED
    BY <2>1, <2>2 DEF Init, IInv, FileOf, BuiltDue, Reachable, RequestOf, Status
<1>2. IInv /\ [Next]_vars => IInv'
  BY TypeStep, AccountStep, LinkStep, RequestStep DEF IInv
<1> QED
  BY <1>1, <1>2, PTL DEF Spec

(***************************************************************************)
(* The type invariant of the downloads: an artifact always belongs to a    *)
(* creation that returned.                                                 *)
(***************************************************************************)
THEOREM DownloadsTypeOK == Spec => []TypeOK
<1>1. IInv => TypeOK
  BY DEF IInv
<1> QED
  BY <1>1, DownloadsInvariant, PTL

(***************************************************************************)
(* Whoever follows a link is sent the whole invoice its creation built:    *)
(* however many creations fail half way, files vanish and restarts happen. *)
(***************************************************************************)
THEOREM DownloadsComplete == Spec => []ServedComplete
<1>1. IInv => ServedComplete
  BY DEF IInv, RequestOf, ServedComplete, Whole
<1> QED
  BY <1>1, DownloadsInvariant, PTL

(***************************************************************************)
(* The invoice sent holds every change whose update_draft had returned     *)
(* when its link was asked for, but for those that a rollback, a deletion  *)
(* or a restart had taken from the draft when it was built: whatever the   *)
(* calls on the draft that overlap with its creation do.                   *)
(***************************************************************************)
THEOREM DownloadsFresh == Spec => []FreshUnlessUndone
<1>1. IInv => FreshUnlessUndone
  <2> SUFFICES ASSUME IInv, NEW r \in Requests, Status(r, 200)
               PROVE  due[asked[r]] \subseteq answer[r].content.changes
    BY DEF FreshUnlessUndone
  <2>1. asked[r] \in Links /\ pc[asked[r]] = "returned" /\ answer[r].content = Whole(asked[r])
    BY DEF IInv, RequestOf, Status
  <2>2. due[asked[r]] \subseteq made[asked[r]]
    BY <2>1 DEF IInv, BuiltDue
  <2> QED
    BY <2>1, <2>2 DEF Whole
<1> QED
  BY <1>1, DownloadsInvariant, PTL

(***************************************************************************)
(* A link that was handed out is refused as unknown only when it is gone.  *)
(***************************************************************************)
THEOREM DownloadsLinkServed == Spec => []LinkServed
<1>1. IInv => LinkServed
  BY DEF IInv, RequestOf, LinkServed
<1> QED
  BY <1>1, DownloadsInvariant, PTL

(***************************************************************************)
(* A request ends in a server error only when its file vanished between    *)
(* the lookup and the opening.                                             *)
(***************************************************************************)
THEOREM DownloadsErrors == Spec => []ErrorOnlyInTheGap
<1>1. IInv => ErrorOnlyInTheGap
  BY DEF IInv, RequestOf, ErrorOnlyInTheGap
<1> QED
  BY <1>1, DownloadsInvariant, PTL
-----------------------------------------------------------------------------
(* DownloadNames.  A set of positions is searched for its ends by the      *)
(* well-foundedness of < on Nat, a set: no induction scheme is needed.     *)

\* The least and the greatest element of a set of positions are what they are called
\* (Min, Max of FiniteSetsExt, with which the operators of DownloadNames search).
LEMMA Least ==
  ASSUME NEW S \in SUBSET Nat, S # {}
  PROVE  Min(S) \in S /\ \A y \in S : Min(S) <= y
<1> DEFINE R == {ss \in Nat \X Nat : ss[1] < ss[2]}
<1>1. IsWellFoundedOn(R, Nat)
  BY NatLessThanWellFounded DEF OpToRel
<1> HIDE DEF R
<1>2. PICK x \in S : \A y \in S : <<y, x>> \notin R
  BY <1>1, WFMin
<1>3. \A y \in S : x \in Nat /\ y \in Nat /\ (<<y, x>> \notin R => x <= y)
  BY DEF R
<1>4. \A y \in S : x <= y
  BY <1>2, <1>3
<1> QED
  BY <1>4 DEF Min

LEMMA Greatest ==
  ASSUME NEW n \in Nat, NEW S \in SUBSET (1..n), S # {}
  PROVE  Max(S) \in S /\ \A y \in S : Max(S) >= y
<1> DEFINE T == {m \in 0..n : n - m \in S}
<1>1. T \in SUBSET Nat /\ \A y \in S : y \in Nat /\ y <= n /\ n - y \in T
  OBVIOUS
<1>2. Min(T) \in T /\ \A m \in T : Min(T) <= m
  BY <1>1, Least
<1>3. n - Min(T) \in S /\ Min(T) \in Nat /\ Min(T) <= n
  BY <1>1, <1>2
<1>4. \A y \in S : n - Min(T) >= y
  BY <1>1, <1>2, <1>3
<1> QED
  BY <1>3, <1>4 DEF Max

\* A search from the end answers a position, or 0 (SelectLastInSeq).
LEMMA LastOf ==
  ASSUME NEW n \in Nat, NEW S \in SUBSET (1..n)
  PROVE  /\ (IF S # {} THEN Max(S) ELSE 0) \in 0..n
         /\ S = {} \/ Max(S) \in S
<1>1. CASE S = {}
  BY <1>1
<1>2. CASE S # {}
  <2>1. Max(S) \in S
    BY <1>2, Greatest
  <2>2. \A m \in S : m \in 0..n
    OBVIOUS
  <2> QED
    BY <1>2, <2>1, <2>2
<1> QED
  BY <1>1, <1>2

\* A slice of a name.
LEMMA PartIs ==
  ASSUME NEW s \in Seq(Tokens), NEW a \in 1..Len(s) + 1, NEW b \in 0..Len(s), a <= b + 1
  PROVE  /\ SubSeq(s, a, b) \in Seq(Tokens) /\ Len(SubSeq(s, a, b)) = b - a + 1
         /\ \A i \in 1..(b - a + 1) : SubSeq(s, a, b)[i] = s[a + i - 1]
OBVIOUS

\* str.endswith of the extension.
LEMMA SuffixIs ==
  ASSUME NEW name \in Seq(Tokens)
  PROVE  IsSuffix(Extension, name) <=>
             Len(name) >= 2 /\ name[Len(name) - 1] = "." /\ name[Len(name)] = "ext"
<1> DEFINE back == Reverse(name)
<1>1. back \in Seq(Tokens) /\ Len(back) = Len(name)
      /\ \A i \in 1..Len(name) : back[i] = name[(Len(name) - i) + 1]
  BY DEF Reverse
<1>2. Reverse(Extension) = <<"ext", ".">>
  BY DEF Reverse, Extension
<1> HIDE DEF back
<1>3. IsSuffix(Extension, name) <=> IsPrefix(<<"ext", ".">>, back)
  BY <1>2 DEF IsSuffix, back
<1>4. IsPrefix(<<"ext", ".">>, back) <=> Len(back) >= 2 /\ back[1] = "ext" /\ back[2] = "."
  BY <1>1 DEF IsPrefix
<1> QED
  BY <1>1, <1>3, <1>4

\* str.strip: a part of the name that starts with nothing stripped; a name without
\* such characters at its ends is left alone.
LEMMA StripIs ==
  ASSUME NEW name \in Seq(Tokens), NEW tokens
  PROVE  /\ Strip(name, tokens) \in Seq(Tokens)
         /\ \A i \in 1..Len(Strip(name, tokens)) : \E j \in 1..Len(name) : Strip(name, tokens)[i] = name[j]
         /\ Strip(name, tokens) # <<>> => Strip(name, tokens)[1] \notin tokens
         /\ name # <<>> /\ name[1] \notin tokens /\ name[Len(name)] \notin tokens => Strip(name, tokens) = name
<1> DEFINE kept == {i \in DOMAIN name : name[i] \notin tokens}
<1>1. Strip(name, tokens) = IF kept = {} THEN <<>> ELSE SubSeq(name, Min(kept), Max(kept))
  BY DEF Strip
<1>2. kept \in SUBSET (1..Len(name)) /\ kept \in SUBSET Nat
  OBVIOUS
<1>3. ASSUME kept # {}
      PROVE  /\ Min(kept) \in kept /\ \A y \in kept : Min(kept) <= y
             /\ Max(kept) \in kept /\ \A y \in kept : Max(kept) >= y
  <2> HIDE DEF kept
  <2>1. Min(kept) \in kept /\ \A y \in kept : Min(kept) <= y
    BY <1>2, <1>3, Least
  <2>2. Max(kept) \in kept /\ \A y \in kept : Max(kept) >= y
    BY <1>2, <1>3, Greatest, Len(name) \in Nat
  <2> QED
    BY <2>1, <2>2
<1>4. CASE kept = {}
  BY <1>1, <1>4
<1>5. CASE kept # {}
  <2> DEFINE lo == Min(kept)
             hi == Max(kept)
  <2>1. /\ lo \in 1..Len(name) /\ hi \in 1..Len(name) /\ lo <= hi /\ name[lo] \notin tokens
        /\ \A y \in kept : lo <= y /\ hi >= y
    BY <1>2, <1>3, <1>5
  <2>2. Strip(name, tokens) = SubSeq(name, lo, hi)
    BY <1>1, <1>5
  <2> HIDE DEF lo, hi
  <2>3. /\ SubSeq(name, lo, hi) \in Seq(Tokens) /\ Len(SubSeq(name, lo, hi)) = hi - lo + 1
        /\ \A i \in 1..(hi - lo + 1) : SubSeq(name, lo, hi)[i] = name[lo + i - 1]
    BY <2>1
  <2>4. name[1] \notin tokens /\ name[Len(name)] \notin tokens => lo = 1 /\ hi = Len(name)
    BY <2>1
  <2>5. SubSeq(name, 1, Len(name)) = name
    OBVIOUS
  <2>6. \A i \in 1..(hi - lo + 1) : lo + i - 1 \in 1..Len(name)
    BY <2>1
  <2>7. /\ Len(Strip(name, tokens)) = hi - lo + 1 /\ Strip(name, tokens) \in Seq(Tokens)
        /\ Strip(name, tokens)[1] = name[lo]
        /\ \A i \in 1..(hi - lo + 1) : Strip(name, tokens)[i] = name[lo + i - 1]
    BY <2>1, <2>2, <2>3
  <2>8. \A i \in 1..Len(Strip(name, tokens)) : \E j \in 1..Len(name) : Strip(name, tokens)[i] = name[j]
    BY <2>6, <2>7
  <2>9. name[1] \notin tokens /\ name[Len(name)] \notin tokens => Strip(name, tokens) = name
    BY <2>2, <2>4, <2>5
  <2> QED
    BY <2>1, <2>7, <2>8, <2>9
<1> QED
  BY <1>4, <1>5

\* A name without "/" is its own last component.
LEMMA ComponentIs ==
  ASSUME NEW name \in Seq(Tokens), NEW end \in 1..Len(name)
  PROVE  /\ ComponentTo(name, end) \in Seq(Tokens)
         /\ (\A i \in 1..Len(name) : name[i] # "/") /\ end = Len(name) => ComponentTo(name, end) = name
<1> DEFINE slashes == {i \in 1..end : name[i] = "/"}
           slash   == IF slashes # {} THEN Max(slashes) ELSE 0
<1>1. ComponentTo(name, end) = SubSeq(name, 1 + slash, end)
  BY DEF ComponentTo, SelectLastInSubSeq
<1>2. slashes \in SUBSET (1..end) /\ end \in Nat /\ end <= Len(name)
  OBVIOUS
<1>3. slash \in 0..end /\ (slashes = {} => slash = 0)
  <2> HIDE DEF slashes
  <2> QED
    BY <1>2, LastOf
<1>4. (\A i \in 1..Len(name) : name[i] # "/") => slashes = {}
  OBVIOUS
<1> HIDE DEF slash, slashes
<1>5. SubSeq(name, 1 + slash, end) \in Seq(Tokens)
  BY <1>2, <1>3, PartIs
<1>6. SubSeq(name, 1, Len(name)) = name
  OBVIOUS
<1>7. (\A i \in 1..Len(name) : name[i] # "/") => slash = 0
  BY <1>3, <1>4
<1>8. ASSUME \A i \in 1..Len(name) : name[i] # "/", end = Len(name)
      PROVE  ComponentTo(name, end) = name
  <2>1. 1 + slash = 1
    BY <1>7, <1>8
  <2> QED
    BY <1>1, <1>6, <1>8, <2>1
<1> QED
  BY <1>1, <1>5, <1>8

\* pathlib's name: a name without "/" is left alone.
LEMMA PathNameIs ==
  ASSUME NEW name \in Seq(Tokens)
  PROVE  /\ PathName(name) \in Seq(Tokens)
         /\ (\A i \in 1..Len(name) : name[i] # "/") /\ Len(name) >= 2 => PathName(name) = name
<1> DEFINE ends == {e \in DOMAIN name :
                       /\ name[e] # "/" /\ (e = Len(name) \/ name[e + 1] = "/")
                       /\ ComponentTo(name, e) # <<".">>}
<1>1. PathName(name) = IF ends = {} THEN <<>> ELSE ComponentTo(name, Max(ends))
  BY DEF PathName
<1>2. ends \in SUBSET (1..Len(name)) /\ Len(name) \in Nat
  OBVIOUS
<1>3. ends # {} => Max(ends) \in ends
  <2> HIDE DEF ends
  <2> QED
    BY <1>2, Greatest
<1>4. PathName(name) \in Seq(Tokens)
  <2>1. CASE ends = {}
    BY <1>1, <2>1
  <2>2. CASE ends # {}
    <3>1. Max(ends) \in 1..Len(name)
      BY <1>2, <1>3, <2>2
    <3>2. PathName(name) = ComponentTo(name, Max(ends))
      BY <1>1, <2>2
    <3> QED
      BY <3>1, <3>2, ComponentIs
  <2> QED
    BY <2>1, <2>2
<1>5. ASSUME \A i \in 1..Len(name) : name[i] # "/", Len(name) >= 2 PROVE PathName(name) = name
  <2>1. ComponentTo(name, Len(name)) = name /\ name # <<".">>
    BY <1>5, ComponentIs
  <2>2. Len(name) \in ends
    BY <1>5, <2>1
  <2>3. \A e \in ends : e = Len(name)
    BY <1>5
  <2> HIDE DEF ends
  <2> QED
    BY <1>1, <1>3, <2>1, <2>2, <2>3
<1> QED
  BY <1>4, <1>5

\* rsplit and the extension: the start of the name stays, and nothing unsafe is added.
LEMMA WithExtensionIs ==
  ASSUME NEW name \in Seq(Tokens)
  PROVE  /\ WithExtension(name) \in Seq(Tokens)
         /\ IsSuffix(Extension, WithExtension(name))
         /\ (\A i \in 1..Len(name) : name[i] \notin Unsafe)
               => \A i \in 1..Len(WithExtension(name)) : WithExtension(name)[i] \notin Unsafe
         /\ name # <<>> /\ name[1] # "."
               => Len(WithExtension(name)) > 2 /\ WithExtension(name)[1] = name[1]
<1> DEFINE dots == {i \in 1..Len(name) : name[i] = "."}
           dot  == IF dots # {} THEN Max(dots) ELSE 0
           stem == IF dot = 0 THEN name ELSE SubSeq(name, 1, dot - 1)
           full == WithExtension(name)
<1>1. full = stem \o <<".", "ext">>
  BY DEF WithExtension, SelectLastInSeq, Extension
<1>2. dots \in SUBSET (1..Len(name)) /\ Len(name) \in Nat
  OBVIOUS
<1>3. dot = 0 \/ dot \in dots
  <2> HIDE DEF dots
  <2> QED
    BY <1>2, Greatest
<1>4. dot \in 0..Len(name) /\ (dot # 0 => name[dot] = ".")
  BY <1>3
<1> HIDE DEF dot
<1>5. /\ stem \in Seq(Tokens)
      /\ Len(stem) = IF dot = 0 THEN Len(name) ELSE dot - 1
      /\ \A i \in 1..Len(stem) : i \in 1..Len(name) /\ stem[i] = name[i]
  <2>1. CASE dot = 0
    BY <2>1
  <2>2. CASE dot # 0
    <3>1. dot - 1 \in 0..Len(name) /\ dot \in Nat /\ dot <= Len(name) /\ 1 \in 1..Len(name) + 1
      BY <1>4, <2>2
    <3>2. stem = SubSeq(name, 1, dot - 1)
      BY <2>2
    <3>3. /\ stem \in Seq(Tokens) /\ Len(stem) = dot - 1
          /\ \A i \in 1..dot - 1 : stem[i] = name[i]
      BY <3>1, <3>2, PartIs
    <3> QED
      BY <2>2, <3>1, <3>3
  <2> QED
    BY <2>1, <2>2
<1> HIDE DEF stem
<1>6. <<".", "ext">> \in Seq(Tokens)
  <2>1. "." \in Tokens /\ "ext" \in Tokens
    BY DEF Tokens
  <2> QED
    BY <2>1
<1>7. /\ full \in Seq(Tokens) /\ Len(full) = Len(stem) + 2 /\ Len(stem) \in Nat
      /\ full[Len(stem) + 1] = "." /\ full[Len(stem) + 2] = "ext"
      /\ \A i \in 1..Len(stem) : full[i] = stem[i]
  BY <1>1, <1>5, <1>6
<1> HIDE DEF full
<1>8. IsSuffix(Extension, full)
  BY <1>7, SuffixIs
<1>9. SUFFICES /\ (\A i \in 1..Len(name) : name[i] \notin Unsafe)
                     => \A i \in 1..Len(full) : full[i] \notin Unsafe
               /\ name # <<>> /\ name[1] # "." => Len(full) > 2 /\ full[1] = name[1]
  BY <1>7, <1>8 DEF full
<1>10. (\A i \in 1..Len(name) : name[i] \notin Unsafe)
          => \A i \in 1..Len(full) : full[i] \notin Unsafe
  <2> SUFFICES ASSUME \A i \in 1..Len(name) : name[i] \notin Unsafe, NEW i \in 1..Len(full)
               PROVE  full[i] \notin Unsafe
    OBVIOUS
  <2>1. CASE i \in 1..Len(stem)
    BY <1>5, <1>7, <2>1
  <2>2. CASE i \notin 1..Len(stem)
    <3>1. i = Len(stem) + 1 \/ i = Len(stem) + 2
      BY <1>7, <2>2
    <3> QED
      BY <1>7, <3>1 DEF Unsafe
  <2> QED
    BY <2>1, <2>2
<1>11. name # <<>> /\ name[1] # "." => Len(full) > 2 /\ full[1] = name[1]
  <2> SUFFICES ASSUME name # <<>>, name[1] # "." PROVE Len(full) > 2 /\ full[1] = name[1]
    OBVIOUS
  <2>1. Len(name) >= 1
    OBVIOUS
  <2>2. dot # 1
    BY <1>4
  <2>3. Len(stem) >= 1
    BY <1>2, <1>4, <1>5, <2>1, <2>2
  <2> QED
    BY <1>5, <1>7, <2>3
<1> QED
  BY <1>10, <1>11

\* The extension is added only where it is missing.
LEMMA EnsureIs ==
  ASSUME NEW name \in Seq(Tokens)
  PROVE  /\ EnsureExtension(name) \in Seq(Tokens)
         /\ IsSuffix(Extension, name) => EnsureExtension(name) = name
BY WithExtensionIs DEF EnsureExtension

\* The last line of _normalize_file_name: a safe name whose first character is no dot
\* and no underscore becomes a file name.
LEMMA EnsuredIsFileName ==
  ASSUME NEW name \in Seq(Tokens), name # <<>>, name[1] \notin Edges,
         \A i \in 1..Len(name) : name[i] \notin Unsafe
  PROVE  IsFileName(EnsureExtension(name))
<1> DEFINE full == EnsureExtension(name)
<1>1. name[1] # "."
  BY DEF Edges
<1>2. /\ Len(full) > 2 /\ full[1] = name[1] /\ IsSuffix(Extension, full)
      /\ \A i \in 1..Len(full) : full[i] \notin Unsafe
  <2>1. CASE ~IsSuffix(Extension, name)
    <3>1. full = WithExtension(name)
      BY <2>1 DEF EnsureExtension
    <3> HIDE DEF full
    <3> QED
      BY <1>1, <3>1, WithExtensionIs
  <2>2. CASE IsSuffix(Extension, name)
    <3>1. full = name
      BY <2>2 DEF EnsureExtension
    <3>2. Len(name) >= 2 /\ name[Len(name) - 1] = "." /\ Len(name) \in Nat
      BY <2>2, SuffixIs
    <3>3. Len(name) > 2
      BY <1>1, <3>2
    <3> HIDE DEF full
    <3> QED
      BY <2>2, <3>1, <3>3
  <2> QED
    BY <2>1, <2>2
<1>3. full \in Seq(Tokens) /\ Len(Extension) = 2
  BY EnsureIs DEF Extension
<1> HIDE DEF full
<1>4. ToSet(full) \cap Unsafe = {}
  BY <1>2, <1>3 DEF ToSet
<1>5. IsFileName(full)
  BY <1>2, <1>3, <1>4 DEF IsFileName
<1> QED
  BY <1>5 DEF full

\* A set of positions is finite.
LEMMA FinitePart ==
  ASSUME NEW n \in Nat, NEW S \in SUBSET (1..n)
  PROVE  IsFiniteSet(S) /\ Cardinality(S) \in Nat /\ Cardinality(1..n) = n
<1>1. IsFiniteSet(1..n) /\ Cardinality(1..n) = n
  BY FS_Interval
<1>2. IsFiniteSet(S)
  BY <1>1, FS_Subset
<1> QED
  BY <1>1, <1>2, FS_CardinalityType

\* The number of kept positions up to i takes every value up to their number.
LEMMA Ranked ==
  ASSUME NEW n \in Nat, NEW S \in SUBSET (1..n), NEW j \in 1..Cardinality(S)
  PROVE  \E i \in S : Cardinality({k \in S : k <= i}) = j
<1> DEFINE UpTo(i) == {k \in S : k <= i}
           late    == {i \in 0..n : Cardinality(UpTo(i)) >= j}
<1>1. IsFiniteSet(S) /\ Cardinality(S) \in Nat
  BY FinitePart
<1>2. \A i \in 0..n : IsFiniteSet(UpTo(i)) /\ Cardinality(UpTo(i)) \in Nat
  <2>1. \A i \in 0..n : UpTo(i) \in SUBSET (1..n)
    OBVIOUS
  <2> HIDE DEF UpTo
  <2> QED
    BY <2>1, FinitePart
<1>3. UpTo(n) = S /\ UpTo(0) = {}
  <2>1. \A k \in S : k \in Nat /\ 1 <= k /\ k <= n
    OBVIOUS
  <2>2. UpTo(n) = S
    BY <2>1
  <2>3. UpTo(0) = {}
    <3>1. \A k \in S : ~(k <= 0)
      BY <2>1
    <3> QED
      BY <3>1
  <2> QED
    BY <2>2, <2>3
<1>4. n \in late
  BY <1>1, <1>3
<1>5. late \in SUBSET Nat /\ late # {}
  <2>1. late \in SUBSET Nat
    OBVIOUS
  <2> QED
    BY <1>4, <2>1
<1>6. PICK i \in late : \A y \in late : i <= y
  <2> HIDE DEF late
  <2> QED
    BY <1>5, Least
<1>7. i \in 0..n /\ Cardinality(UpTo(i)) >= j
  BY <1>6
<1>8. i # 0
  BY <1>3, <1>7, FS_EmptySet
<1>9. i - 1 \in 0..n /\ i - 1 \notin late
  <2> HIDE DEF late
  <2>1. i \in Nat /\ i <= n
    BY <1>7
  <2>2. i - 1 \in 0..n
    BY <1>8, <2>1
  <2>3. ~(i <= i - 1)
    BY <2>1
  <2> QED
    BY <1>6, <2>2, <2>3
<1>10. Cardinality(UpTo(i - 1)) < j
  <2>1. ~(Cardinality(UpTo(i - 1)) >= j)
    BY <1>9
  <2>2. Cardinality(UpTo(i - 1)) \in Nat /\ j \in Int
    <3> HIDE DEF UpTo
    <3> QED
      BY <1>2, <1>9
  <2> HIDE DEF UpTo
  <2> QED
    BY <2>1, <2>2
<1> HIDE DEF late
<1>11. UpTo(i) = IF i \in S THEN UpTo(i - 1) \cup {i} ELSE UpTo(i - 1)
  <2>1. \A k \in S : k \in Nat
    OBVIOUS
  <2>2. i \in Nat
    BY <1>7
  <2>3. \A k \in S : k <= i <=> k <= i - 1 \/ k = i
    BY <2>1, <2>2
  <2> QED
    BY <2>2, <2>3
<1>12. i \in S /\ i \notin UpTo(i - 1)
  <2>1. Cardinality(UpTo(i)) # Cardinality(UpTo(i - 1))
    <3> HIDE DEF UpTo
    <3>1. Cardinality(UpTo(i)) \in Nat /\ Cardinality(UpTo(i - 1)) \in Nat
      BY <1>2, <1>7, <1>9
    <3> QED
      BY <1>7, <1>10, <3>1
  <2>2. i \in S
    BY <1>11, <2>1
  <2>3. i \in Nat /\ ~(i <= i - 1)
    BY <1>7
  <2> QED
    BY <2>2, <2>3
<1>13. Cardinality(UpTo(i)) = Cardinality(UpTo(i - 1)) + 1
  <2> DEFINE before == UpTo(i - 1)
  <2>1. IsFiniteSet(before) /\ i \notin before /\ UpTo(i) = before \cup {i}
    BY <1>2, <1>9, <1>11, <1>12
  <2> HIDE DEF before
  <2>2. Cardinality(before \cup {i}) = Cardinality(before) + 1
    BY <2>1, FS_AddElement
  <2> QED
    BY <2>1, <2>2 DEF before
<1>14. Cardinality(UpTo(i)) = j
  <2> DEFINE now == Cardinality(UpTo(i))
             was == Cardinality(UpTo(i - 1))
  <2>1. now \in Nat /\ was \in Nat /\ j \in Nat
    <3> HIDE DEF UpTo
    <3> QED
      BY <1>2, <1>7, <1>9
  <2>2. now >= j /\ was < j /\ now = was + 1
    BY <1>7, <1>10, <1>13
  <2> HIDE DEF now, was
  <2>3. now = j
    BY <2>1, <2>2
  <2> QED
    BY <2>3 DEF now
<1> QED
  BY <1>12, <1>14

\* The substitution of the regular expression: nothing unsafe remains, and a name with
\* nothing unsafe is left alone.
LEMMA ReplacedIs ==
  ASSUME NEW name \in Seq(Tokens)
  PROVE  /\ Replaced(name) \in Seq(Tokens)
         /\ \A j \in 1..Len(Replaced(name)) : Replaced(name)[j] \notin Unsafe
         /\ (\A i \in 1..Len(name) : name[i] \notin Unsafe) => Replaced(name) = name
<1> DEFINE starts  == {i \in DOMAIN name :
                          name[i] \in Unsafe => i = 1 \/ name[i - 1] \notin Unsafe}
           kept(j) == CHOOSE i \in starts : Cardinality({k \in starts : k <= i}) = j
           new(j)  == IF name[kept(j)] \in Unsafe THEN "_" ELSE name[kept(j)]
<1>1. Replaced(name) = [j \in 1..Cardinality(starts) |-> new(j)]
  BY DEF Replaced
<1>2. starts \in SUBSET (1..Len(name)) /\ Len(name) \in Nat
  OBVIOUS
<1>3. (\A i \in 1..Len(name) : name[i] \notin Unsafe) => starts = 1..Len(name)
  OBVIOUS
<1>4. "_" \in Tokens /\ "_" \notin Unsafe
  BY DEF Tokens, Unsafe
<1> HIDE DEF starts
<1>5. Cardinality(starts) \in Nat
  BY <1>2, FinitePart
<1>6. ASSUME NEW j \in 1..Cardinality(starts)
      PROVE  kept(j) \in starts /\ Cardinality({k \in starts : k <= kept(j)}) = j
  <2>1. \E i \in starts : Cardinality({k \in starts : k <= i}) = j
    BY <1>2, Ranked
  <2> QED
    BY <2>1
<1> HIDE DEF kept
<1>7. \A j \in 1..Cardinality(starts) : new(j) \in Tokens /\ new(j) \notin Unsafe
  <2> SUFFICES ASSUME NEW j \in 1..Cardinality(starts)
               PROVE  new(j) \in Tokens /\ new(j) \notin Unsafe
    OBVIOUS
  <2>1. kept(j) \in 1..Len(name)
    BY <1>2, <1>6
  <2>2. name[kept(j)] \in Tokens
    BY <2>1
  <2> QED
    BY <1>4, <2>2
<1> HIDE DEF new
<1>8. /\ Replaced(name) \in Seq(Tokens)
      /\ \A j \in 1..Len(Replaced(name)) : Replaced(name)[j] \notin Unsafe
  BY <1>1, <1>5, <1>7
<1>9. (\A i \in 1..Len(name) : name[i] \notin Unsafe) => Replaced(name) = name
  <2> SUFFICES ASSUME \A i \in 1..Len(name) : name[i] \notin Unsafe
               PROVE  Replaced(name) = name
    OBVIOUS
  <2>1. starts = 1..Len(name)
    BY <1>3
  <2>2. Cardinality(starts) = Len(name)
    BY <1>2, <2>1, FinitePart
  <2>3. \A j \in 1..Len(name) : new(j) = name[j]
    <3> SUFFICES ASSUME NEW j \in 1..Len(name) PROVE new(j) = name[j]
      OBVIOUS
    <3>1. kept(j) \in 1..Len(name) /\ Cardinality({k \in starts : k <= kept(j)}) = j
      BY <1>2, <1>6, <2>2
    <3>2. {k \in starts : k <= kept(j)} = 1..kept(j)
      BY <2>1, <3>1
    <3>3. Cardinality(1..kept(j)) = kept(j)
      BY <3>1, FS_Interval
    <3>4. kept(j) = j
      BY <3>1, <3>2, <3>3
    <3> QED
      BY <3>1, <3>4 DEF new
  <2> QED
    BY <1>1, <2>2, <2>3
<1> QED
  BY <1>8, <1>9

-----------------------------------------------------------------------------
\* invoice-<uuid>.<format> is a file name.
LEMMA DefaultIsFileName == Default \in Seq(Tokens) /\ IsFileName(Default)
<1> DEFINE stem == <<"id">>
<1>1. /\ "id" \in Tokens \ Unsafe /\ "." \in Tokens \ Unsafe /\ "ext" \in Tokens \ Unsafe
      /\ "id" \notin Edges
  BY DEF Tokens, Unsafe, Edges
<1>2. stem \in Seq(Tokens) /\ Len(stem) = 1 /\ stem[1] = "id" /\ <<".", "ext">> \in Seq(Tokens)
  BY <1>1
<1>3. /\ Default = stem \o Extension /\ Extension \in Seq(Tokens)
      /\ Len(Extension) = 2 /\ Extension[1] = "." /\ Extension[2] = "ext"
  BY <1>2 DEF Default, Extension
<1> HIDE DEF stem
<1>4. /\ Default \in Seq(Tokens) /\ Len(Default) = 3
      /\ Default[1] = "id" /\ Default[2] = "." /\ Default[3] = "ext"
  <2>1. /\ Default \in Seq(Tokens) /\ Len(Default) = Len(stem) + Len(Extension)
        /\ \A i \in 1..Len(stem) + Len(Extension) :
              Default[i] = IF i <= Len(stem) THEN stem[i] ELSE Extension[i - Len(stem)]
    BY <1>2, <1>3, ConcatProperties
  <2>2. \A i \in 1..3 : Default[i] = IF i <= 1 THEN stem[i] ELSE Extension[i - 1]
    BY <1>2, <1>3, <2>1
  <2>3. Default[1] = stem[1] /\ Default[2] = Extension[1] /\ Default[3] = Extension[2]
    BY <2>2
  <2> QED
    BY <1>2, <1>3, <2>1, <2>3
<1>5. IsSuffix(Extension, Default)
  <2>1. Len(Default) >= 2 /\ Len(Default) - 1 = 2
    BY <1>4
  <2> QED
    BY <1>4, <2>1, SuffixIs
<1>6. \A i \in 1..3 : Default[i] \notin Unsafe
  BY <1>1, <1>4
<1>7. ToSet(Default) \cap Unsafe = {}
  BY <1>4, <1>6 DEF ToSet
<1> QED
  BY <1>1, <1>3, <1>4, <1>5, <1>7 DEF IsFileName

\* _normalize_file_name answers a plain file name with the extension of its format,
\* whatever name of whatever length was asked for: NameIsFileName without the bound.
LEMMA NormalizedIsFileName ==
  \A request \in Seq(Tokens) : IsFileName(NormalizeFileName(request))
<1> SUFFICES ASSUME NEW request \in Seq(Tokens) PROVE IsFileName(NormalizeFileName(request))
  OBVIOUS
<1> DEFINE given      == IF request = <<>> THEN Default ELSE request
           named      == PathName(Strip(given, {" "}))
           safe       == EnsureExtension(IF named = <<>> THEN Default ELSE named)
           normalized == Strip(Replaced(safe), Edges)
<1>1. NormalizeFileName(request) =
          IF normalized = <<>> THEN Default ELSE EnsureExtension(normalized)
  BY DEF NormalizeFileName
<1>2. given \in Seq(Tokens)
  BY DefaultIsFileName
<1>3. named \in Seq(Tokens)
  <2> HIDE DEF given
  <2> QED
    BY <1>2, StripIs, PathNameIs
<1>4. safe \in Seq(Tokens)
  <2> HIDE DEF named
  <2> QED
    BY <1>3, DefaultIsFileName, EnsureIs
<1>5. /\ Replaced(safe) \in Seq(Tokens)
      /\ \A j \in 1..Len(Replaced(safe)) : Replaced(safe)[j] \notin Unsafe
  <2> HIDE DEF safe
  <2> QED
    BY <1>4, ReplacedIs
<1>6. /\ normalized \in Seq(Tokens)
      /\ \A i \in 1..Len(normalized) : normalized[i] \notin Unsafe
      /\ normalized # <<>> => normalized[1] \notin Edges
  <2> DEFINE plain == Replaced(safe)
  <2> HIDE DEF plain
  <2>1. plain \in Seq(Tokens) /\ \A j \in 1..Len(plain) : plain[j] \notin Unsafe
    BY <1>5 DEF plain
  <2>2. /\ Strip(plain, Edges) \in Seq(Tokens)
        /\ \A i \in 1..Len(Strip(plain, Edges)) :
               \E j \in 1..Len(plain) : Strip(plain, Edges)[i] = plain[j]
        /\ Strip(plain, Edges) # <<>> => Strip(plain, Edges)[1] \notin Edges
    BY <2>1, StripIs
  <2>3. \A i \in 1..Len(Strip(plain, Edges)) : Strip(plain, Edges)[i] \notin Unsafe
    BY <2>1, <2>2
  <2> QED
    BY <2>2, <2>3 DEF plain
<1> HIDE DEF normalized
<1>7. CASE normalized = <<>>
  BY <1>1, <1>7, DefaultIsFileName
<1>8. CASE normalized # <<>>
  BY <1>1, <1>6, <1>8, EnsuredIsFileName
<1> QED
  BY <1>7, <1>8

\* A request that is such a name already is answered unchanged, whatever its length:
\* FitNameIsKept without the bound.
LEMMA FileNameIsKept ==
  \A request \in Seq(Tokens) :
      IsFileName(request) => NormalizeFileName(request) = request
<1> SUFFICES ASSUME NEW request \in Seq(Tokens), IsFileName(request)
             PROVE  NormalizeFileName(request) = request
  OBVIOUS
<1>1. /\ IsSuffix(Extension, request) /\ request[1] \notin Edges
      /\ \A i \in 1..Len(request) : request[i] \notin Unsafe
  BY DEF IsFileName, ToSet
<1>2. Len(request) >= 2 /\ Len(request) \in Nat /\ request # <<>> /\ request[Len(request)] = "ext"
  BY <1>1, SuffixIs
<1>3. "/" \in Unsafe /\ " " \in Unsafe /\ "ext" \notin Edges
  BY DEF Unsafe, Edges
<1>4. request[1] \notin Unsafe /\ request[Len(request)] \notin Unsafe
  BY <1>1, <1>2
<1>5. Strip(request, {" "}) = request
  <2>1. request[1] \notin {" "} /\ request[Len(request)] \notin {" "}
    BY <1>3, <1>4
  <2> QED
    BY <1>2, <2>1, StripIs
<1>6. PathName(request) = request
  <2>1. \A i \in 1..Len(request) : request[i] # "/"
    BY <1>1, <1>3
  <2> QED
    BY <1>2, <2>1, PathNameIs
<1>7. EnsureExtension(request) = request
  BY <1>1, EnsureIs
<1>8. Replaced(request) = request
  BY <1>1, ReplacedIs
<1>9. Strip(request, Edges) = request
  BY <1>1, <1>2, <1>3, StripIs
<1> QED
  BY <1>2, <1>5, <1>6, <1>7, <1>8, <1>9 DEF NormalizeFileName

(***************************************************************************)
(* The names of downloads as the run has them: a name asked for, and the   *)
(* name used.                                                              *)
(***************************************************************************)
NameInv == wanted \in Seq(Tokens) /\ got \in {<<>>, <<NormalizeFileName(wanted)>>}

LEMMA NameInvariant == NameSpec => []NameInv
<1>1. NameInit => NameInv
  <2> SUFFICES ASSUME NameInit PROVE wanted \in Seq(Tokens) /\ got = <<>>
    BY DEF NameInv
  <2>1. PICK n \in 0..MaxTokens : wanted \in [1..n -> Tokens \ {"id"}]
    BY DEF NameInit, RequestedNames
  <2>2. n \in Nat
    BY MaxTokensAssumption
  <2>3. wanted \in [1..n -> Tokens]
    BY <2>1
  <2>4. wanted \in Seq(Tokens)
    BY <2>2, <2>3
  <2> QED
    BY <2>4 DEF NameInit
<1>2. NameInv /\ [NormalizeName]_<<wanted, got>> => NameInv'
  BY DEF NameInv, NormalizeName
<1> QED
  BY <1>1, <1>2, PTL DEF NameSpec

(***************************************************************************)
(* Every name a download gets is a plain file name with the extension of   *)
(* its format, whatever name of whatever length was asked for.             *)
(***************************************************************************)
THEOREM NamesAreFileNames == NameSpec => []NameIsFileName
<1>1. NameInv => NameIsFileName
  <2> SUFFICES ASSUME NameInv, got # <<>> PROVE IsFileName(got[1])
    BY DEF NameIsFileName
  <2>1. got[1] = NormalizeFileName(wanted)
    BY DEF NameInv
  <2> QED
    BY <2>1, NormalizedIsFileName DEF NameInv
<1> QED
  BY <1>1, NameInvariant, PTL

(***************************************************************************)
(* A name that is fit for use is used unchanged, however long it is.       *)
(***************************************************************************)
THEOREM FitNamesAreKept == NameSpec => []FitNameIsKept
<1>1. NameInv => FitNameIsKept
  <2> SUFFICES ASSUME NameInv, got # <<>>, IsFileName(wanted) PROVE got[1] = wanted
    BY DEF FitNameIsKept
  <2>1. got[1] = NormalizeFileName(wanted)
    BY DEF NameInv
  <2> QED
    BY <2>1, FileNameIsKept DEF NameInv
<1> QED
  BY <1>1, NameInvariant, PTL
=============================================================================
