-------------------------- MODULE UnitOfWork_proofs --------------------------
(***************************************************************************)
(* Proofs about UnitOfWork.  For every set of keys and calls: type         *)
(* correctness, with or without concurrency, and, when calls are made one  *)
(* at a time, that the unit of work implements the atomic store and so     *)
(* that the store is what the calls were told.                             *)
(***************************************************************************)
EXTENDS UnitOfWork, TLAPS, FiniteSetTheorems

(***************************************************************************)
(* What a request may be: every operation but the listing names a key of   *)
(* the store.                                                              *)
(***************************************************************************)
LEMMA RequestShape ==
  ASSUME NEW r \in Requests
  PROVE  /\ r.op \in Creates \cup Writes \cup
                {"read_draft", "delete_draft", "list_interactive_sessions"}
         /\ r.op # "list_interactive_sessions" => r.key \in Keys
         /\ r.op = "open_interactive_session" => r.key \in Sessions
         /\ r.op = "list_interactive_sessions" => r.key = Absent
  BY DEF Requests, Creates, Writes, Keys

(***************************************************************************)
(* The objects of a table are pairs of a key and a maker.                  *)
(***************************************************************************)
LEMMA ObjectsShape ==
  ASSUME TypeOK, NEW T \in SUBSET Keys
  PROVE  Objects(T) \in SUBSET (Keys \X Calls)
  BY DEF TypeOK, Objects, Filed

(***************************************************************************)
(* A change is one of a call, and the next change of a call is one.        *)
(***************************************************************************)
LEMMA ChangesShape ==
  /\ \A c \in Calls : \A i \in 1..Batch[c] : <<c, i>> \in Changes
  /\ \A x \in Changes : x[1] \in Calls /\ x[2] \in 1..Batch[x[1]] /\ x = <<x[1], x[2]>>
  /\ \A c \in Calls : Batch[c] \in Nat \ {0}
  /\ \A c \in Calls : \A r : Size(c, r) \in 1..Batch[c]
<1>1. \A c \in Calls : Batch[c] \in Nat \ {0}
  BY StoreAssumption
<1>2. \A c \in Calls : \A i \in 1..Batch[c] : <<c, i>> \in Changes
  BY DEF Changes
<1>3. \A x \in Changes : x[1] \in Calls /\ x[2] \in 1..Batch[x[1]] /\ x = <<x[1], x[2]>>
  BY DEF Changes
<1>4. \A c \in Calls : \A r : Size(c, r) \in 1..Batch[c]
  BY <1>1 DEF Size
<1> QED
  BY <1>1, <1>2, <1>3, <1>4

\* The change a call makes next, whether some or all of a call's changes are in a
\* content.
Latest(c)           == <<c, applied[c] + 1>>
Touches(c, content) == \E x \in content : x[1] = c
Whole(c, content)   == ChangesOf(c, req[c]) \subseteq content

(***************************************************************************)
(* One change more.                                                        *)
(***************************************************************************)
LEMMA AppliedGrows ==
  ASSUME NEW c \in Calls, applied[c] \in Nat, applied'[c] = applied[c] + 1
  PROVE  Applied(c)' = Applied(c) \cup {Latest(c)}
<1>1. 1..(applied[c] + 1) = (1..applied[c]) \cup {applied[c] + 1}
  OBVIOUS
<1> QED
  BY <1>1 DEF Applied, Latest

(***************************************************************************)
(* Every step keeps a call within its batch.                               *)
(***************************************************************************)
LEMMA InBatchStep ==
  ASSUME TypeOK, [Next]_vars
  PROVE  \A c \in Calls : InBatch(c)'
<1> USE DEF Active, Copying, InBody, RollingBack, Ended
<1>1. CASE UNCHANGED vars
  BY <1>1 DEF vars, TypeOK, InBatch
<1>2. ASSUME NEW d \in Calls, NEW there, pc' = [pc EXCEPT ![d] = there], there # "found",
             there \in {"idle", "body"} \cup Copying => pc[d] \in Copying,
             UNCHANGED <<req, applied>>
      PROVE  \A c \in Calls : InBatch(c)'
  <2>1. \A c \in Calls : pc'[c] = IF c = d THEN there ELSE pc[c]
    BY <1>2 DEF TypeOK
  <2>2. \A c \in Calls : InBatch(c)
    BY DEF TypeOK
  <2> QED
    BY <1>2, <2>1, <2>2 DEF InBatch
<1>3. ASSUME NEW d \in Calls, Begin(d) PROVE \A c \in Calls : InBatch(c)'
  <2>1. \A c \in Calls : InBatch(c)
    BY DEF TypeOK
  <2>2. \A c \in Calls : /\ pc'[c] = IF c = d THEN "copySessions" ELSE pc[c]
                         /\ c # d => req'[c] = req[c]
    BY <1>3 DEF Begin, Goto, TypeOK
  <2>3. pc[d] = "idle" /\ UNCHANGED applied
    BY <1>3 DEF Begin
  <2> QED
    BY <2>1, <2>2, <2>3 DEF InBatch
<1>4. ASSUME NEW d \in Calls, CopyEntry(d) PROVE \A c \in Calls : InBatch(c)'
  BY <1>4 DEF CopyEntry, TypeOK, InBatch
<1>5. ASSUME NEW d \in Calls, Lookup(d) PROVE \A c \in Calls : InBatch(c)'
  <2>1. \A c \in Calls : InBatch(c)
    BY DEF TypeOK
  <2>2. \A c \in Calls : pc'[c] = IF c = d THEN "found" ELSE pc[c]
    BY <1>5 DEF Lookup, Goto, TypeOK
  <2>3. pc[d] = "body" /\ UNCHANGED <<req, applied>>
    BY <1>5 DEF Lookup
  <2>4. \A c \in Calls : Size(c, req[c]) \in 1..Batch[c] /\ Batch[c] \in Nat
    BY ChangesShape
  <2> QED
    BY <2>1, <2>2, <2>3, <2>4 DEF InBatch
<1>6. ASSUME NEW d \in Calls, Write(d) PROVE \A c \in Calls : InBatch(c)'
  <2>1. \A c \in Calls : InBatch(c)
    BY DEF TypeOK
  <2>2. \A c \in Calls : /\ c # d => pc'[c] = pc[c] /\ applied'[c] = applied[c]
                         /\ pc'[d] = IF applied[d] + 1 = Size(d, req[d]) THEN "exit" ELSE "found"
                         /\ applied'[d] = applied[d] + 1
    BY <1>6 DEF Write, Change, Goto, TypeOK
  <2>3. pc[d] = "found" /\ req[d].op \in Writes /\ UNCHANGED req
    BY <1>6 DEF Write, Change
  <2>4. \A c \in Calls : Size(c, req[c]) \in 1..Batch[c] /\ Batch[c] \in Nat /\ applied[c] \in Nat
    BY ChangesShape DEF TypeOK
  <2>5. InBatch(d)'
    BY <2>1, <2>2, <2>3, <2>4 DEF InBatch
  <2> QED
    BY <2>1, <2>2, <2>3, <2>5 DEF InBatch
<1> QED
  BY <1>1, <1>2, <1>3, <1>4, <1>5, <1>6
     DEF Next, Continue, Enter, Body, Exit, Finished, Goto, CopyEnd, CopyFails, Add, OpenFails,
         NotFound, Observe, Pop, Raise, Commit, ClearTable, RestoreTable

(***************************************************************************)
(* Every step keeps the types.                                             *)
(***************************************************************************)
LEMMA TypeStep == TypeOK /\ [Next]_vars => TypeOK'
<1> SUFFICES ASSUME TypeOK, [Next]_vars PROVE TypeOK'
  OBVIOUS
<1>0. \A d \in Calls : InBatch(d)'
  BY InBatchStep
<1> USE <1>0
<1> USE DEF Active, Copying, InBody, RollingBack, Ended
<1>1. CASE UNCHANGED vars
  BY <1>1 DEF vars, TypeOK
<1>2. ASSUME NEW c \in Calls, Begin(c) PROVE TypeOK'
  <2>1. Objects(Sessions) \in SUBSET (Keys \X Calls)
    BY ObjectsShape DEF Keys
  <2> QED
    BY <1>2, <2>1 DEF Begin, Goto, ActiveCalls, TypeOK
<1>3. ASSUME NEW c \in Calls, CopyEntry(c) PROVE TypeOK'
  <2>1. PICK k \in Uncopied(c) : backup' = [backup EXCEPT ![c][k] = heap[k][store[k]]]
    BY <1>3 DEF CopyEntry
  <2>2. k \in Keys /\ store[k] \in Calls
    BY StoreAssumption DEF Uncopied, Filed, Table, Keys, TypeOK
  <2>3. heap[k][store[k]] \in SUBSET Changes
    BY <2>2 DEF TypeOK
  <2> QED
    BY <1>3, <2>1, <2>2, <2>3 DEF CopyEntry, TypeOK
<1>4. ASSUME NEW c \in Calls, CopyEnd(c) PROVE TypeOK'
  <2>1. Objects(Drafts) \in SUBSET (Keys \X Calls)
    BY ObjectsShape DEF Keys
  <2>2. PICK there \in {"copyDrafts", "body"} : pc' = [pc EXCEPT ![c] = there]
    BY <1>4 DEF CopyEnd, Goto
  <2>3. iter' \in [Calls -> SUBSET (Keys \X Calls)]
    BY <1>4, <2>1 DEF CopyEnd, TypeOK
  <2>4. pc[c] \in Active /\ UNCHANGED <<req, store, heap, backup, held, applied, overlap>>
    BY <1>4 DEF CopyEnd
  <2> QED
    BY <2>2, <2>3, <2>4 DEF TypeOK
<1>5. ASSUME NEW c \in Calls, CopyFails(c) PROVE TypeOK'
  BY <1>5 DEF CopyFails, Goto, NothingCopied, TypeOK
<1>6. ASSUME NEW c \in Calls, Body(c) PROVE TypeOK'
  <2>1. CASE Add(c)
    <3>1. req[c].key \in Keys
      BY <2>1, RequestShape DEF Add, Creates, TypeOK
    <3> QED
      BY <2>1, <3>1 DEF Add, Goto, TypeOK
  <2>2. CASE OpenFails(c)
    BY <2>2 DEF OpenFails, Goto, TypeOK
  <2>3. CASE Lookup(c)
    <3>1. req[c].key \in Keys
      BY <2>3, RequestShape DEF Lookup, Lookups, Writes, TypeOK
    <3> QED
      BY <2>3, <3>1 DEF Lookup, Goto, TypeOK
  <2>4. CASE NotFound(c)
    BY <2>4 DEF NotFound, Goto, TypeOK
  <2>5. CASE Write(c)
    <3>1. req[c].key \in Keys /\ held[c] \in Calls
      BY <2>5, RequestShape DEF Write, Change, Writes, TypeOK
    <3>2. Latest(c) \in Changes
      <4>1. applied[c] \in Nat /\ applied[c] < Size(c, req[c])
        BY <2>5 DEF Write, Change, TypeOK, InBatch
      <4>2. Size(c, req[c]) \in 1..Batch[c] /\ Batch[c] \in Nat
        BY ChangesShape
      <4>3. applied[c] + 1 \in 1..Batch[c]
        BY <4>1, <4>2
      <4> QED
        BY <4>3, ChangesShape DEF Latest
    <3>3. /\ applied' \in [Calls -> Nat]
          /\ pc' \in [Calls -> {"idle"} \cup Active \cup Ended]
      BY <2>5 DEF Write, Change, Goto, TypeOK
    <3>4. heap' \in [Keys -> [Calls -> SUBSET Changes]]
      <4>1. heap \in [Keys -> [Calls -> SUBSET Changes]]
        BY DEF TypeOK
      <4>2. heap' = [heap EXCEPT ![req[c].key][held[c]] = @ \cup {Latest(c)}]
        BY <2>5 DEF Write, Change, Latest
      <4> HIDE DEF Latest
      <4> QED
        BY <3>1, <3>2, <4>1, <4>2
    <3>5. \A d \in Calls : /\ pc'[d] \in Active => pc[d] \in Active
                           /\ pc'[d] = "found" => pc[d] = "found"
      BY <2>5 DEF Write, Change, Goto, TypeOK
    <3>6. UNCHANGED <<req, store, backup, iter, held, overlap>>
      BY <2>5 DEF Write, Change
    <3> QED
      BY <3>3, <3>4, <3>5, <3>6 DEF TypeOK
  <2>6. CASE Observe(c)
    BY <2>6 DEF Observe, Goto, TypeOK
  <2>7. CASE Pop(c)
    BY <2>7 DEF Pop, Goto, TypeOK
  <2>8. CASE Raise(c)
    BY <2>8 DEF Raise, Goto, TypeOK
  <2> QED
    BY <1>6, <2>1, <2>2, <2>3, <2>4, <2>5, <2>6, <2>7, <2>8 DEF Body
<1>7. ASSUME NEW c \in Calls, Commit(c) PROVE TypeOK'
  BY <1>7 DEF Commit, Goto, NothingCopied, TypeOK
<1>8. ASSUME NEW c \in Calls, ClearTable(c) PROVE TypeOK'
  BY <1>8 DEF ClearTable, Goto, TypeOK
<1>9. ASSUME NEW c \in Calls, RestoreTable(c) PROVE TypeOK'
  <2>1. /\ store' \in [Keys -> Calls \cup {Absent}]
        /\ heap' \in [Keys -> [Calls -> SUBSET Changes]]
    BY <1>9 DEF RestoreTable, RestoredKeys, TypeOK
  <2>2. PICK there \in {"clearDrafts", "raised"} : pc' = [pc EXCEPT ![c] = there]
    BY <1>9 DEF RestoreTable, Goto
  <2>3. /\ backup' \in [Calls -> [Keys -> {Absent} \cup SUBSET Changes]]
        /\ held' \in [Calls -> Calls \cup {Absent}]
    <3>1. CASE UNCHANGED <<backup, held>>
      BY <3>1 DEF TypeOK
    <3>2. CASE /\ backup' = [backup EXCEPT ![c] = NothingCopied]
               /\ held' = [held EXCEPT ![c] = Absent]
      BY <3>2 DEF NothingCopied, TypeOK
    <3> QED
      BY <1>9, <3>1, <3>2 DEF RestoreTable
  <2>4. \A d \in Calls : d # c => held'[d] = held[d]
    BY <1>9 DEF RestoreTable, TypeOK
  <2>5. pc[c] \in Active /\ UNCHANGED <<req, iter, applied, overlap>>
    BY <1>9 DEF RestoreTable
  <2>6. \A d \in Calls : pc'[d] = IF d = c THEN there ELSE pc[d]
    BY <2>2 DEF TypeOK
  <2>7. \A d \in Calls : /\ pc'[d] \in Active => req'[d] \in Requests
                         /\ pc'[d] = "found" => req'[d].op \in Lookups /\ held'[d] \in Calls
    BY <2>4, <2>5, <2>6 DEF TypeOK
  <2>8. pc' \in [Calls -> {"idle"} \cup Active \cup Ended]
    BY <2>2 DEF TypeOK
  <2>9. /\ req' \in [Calls -> Requests \cup {NoRequest}]
        /\ iter' \in [Calls -> SUBSET (Keys \X Calls)]
        /\ applied' \in [Calls -> Nat]
        /\ overlap' \in [Calls -> SUBSET Calls]
    BY <2>5 DEF TypeOK
  <2> QED
    BY <2>1, <2>3, <2>7, <2>8, <2>9 DEF TypeOK
<1> QED
  BY <1>1, <1>2, <1>3, <1>4, <1>5, <1>6, <1>7, <1>8, <1>9
     DEF Next, Continue, Enter, Exit, Finished

(***************************************************************************)
(* Type correctness, for serial and for concurrent calls.                  *)
(***************************************************************************)
THEOREM UnitOfWorkTypeOK == Spec => []TypeOK
<1>1. Init => TypeOK
  <2> USE DEF Active, Copying, InBody, RollingBack
  <2>1. Init => \A c \in Calls : InBatch(c)
    BY ChangesShape DEF Init, InBatch
  <2> QED
    BY <2>1 DEF Init, TypeOK, NothingCopied
<1> QED
  BY <1>1, TypeStep, PTL DEF Spec

-----------------------------------------------------------------------------
(***************************************************************************)
(* A step of the one call under way keeps the serial invariant if it keeps *)
(* what that call knows of the store.                                      *)
(***************************************************************************)
LEMMA OneMoves ==
  ASSUME TypeOK, SerialInv, NEW c \in Calls, pc[c] \in Active,
         NEW there \in Active \cup Ended, pc' = [pc EXCEPT ![c] = there],
         req' = req, \A d \in Calls : d # c => backup'[d] = backup[d],
         CallInv(c)'
  PROVE  SerialInv'
<1>1. \A d \in Calls : d # c => pc'[d] = pc[d] /\ pc[d] \notin Active
  BY DEF SerialInv, ActiveCalls, TypeOK
<1>2. (\A d, e \in ActiveCalls : d = e)'
  BY <1>1 DEF ActiveCalls
<1>3. ASSUME NEW d \in Calls, d # c PROVE CallInv(d)'
  BY <1>1, <1>3 DEF SerialInv, CallInv, Active, Copying, InBody, RollingBack, NothingCopied
<1>4. ASSUME NEW d \in Calls PROVE FreshKey(d)'
  <2>1. \A e \in Calls : pc'[e] # "idle" => pc[e] # "idle"
    BY <1>1 DEF Active, Copying, InBody, RollingBack
  <2>2. pc'[d] \in Active => pc[d] \in Active
    BY <1>1
  <2> QED
    BY <2>1, <2>2 DEF SerialInv, FreshKey
<1> QED
  BY <1>2, <1>3, <1>4 DEF SerialInv

(***************************************************************************)
(* As many entries copied as the iterator has visited means all of them.   *)
(***************************************************************************)
LEMMA AllVisitedAllCopied ==
  ASSUME TypeOK, NEW c \in Calls, AllVisited(c),
         iter[c] = Objects(Table(c)), Copied(c) \subseteq Filed(Table(c))
  PROVE  Uncopied(c) = {}
<1> DEFINE F == Filed(Table(c))
           O == Objects(Table(c))
           f == [k \in F |-> <<k, store[k]>>]
<1>1. IsFiniteSet(F)
  BY StoreAssumption, FS_Subset DEF Filed, Table, Keys
<1>2. f \in Bijection(F, O)
  BY DEF Objects, Bijection, Injection, Surjection, IsInjective
<1>3. Cardinality(O) = Cardinality(F)
  BY <1>1, <1>2, FS_Bijection DEF ExistsBijection
<1>4. Copied(c) = F
  BY <1>1, <1>3, FS_Subset DEF AllVisited
<1> QED
  BY <1>4 DEF Uncopied

(***************************************************************************)
(* Every step of serial calls keeps the serial invariant.                  *)
(***************************************************************************)
LEMMA SerialStep ==
  ASSUME Serial, TypeOK, TypeOK', SerialInv, [Next]_vars
  PROVE  SerialInv'
<1> USE DEF Active, Copying, InBody, RollingBack, Ended
<1>1. CASE UNCHANGED vars
  <2>1. UNCHANGED <<pc, req, store, heap, backup, iter, held, applied>>
    BY <1>1 DEF vars
  <2>2. Contents' = Contents /\ \A c \in Calls : Applied(c)' = Applied(c)
    BY <2>1 DEF Contents, Applied
  <2>3. \A c \in Calls : CallInv(c) => CallInv(c)'
    BY <2>1, <2>2 DEF CallInv, NothingCopied, CopiedSoFar, RestoredSoFar, Performed,
       Objects, Filed, Table
  <2>4. \A c \in Calls : FreshKey(c) => FreshKey(c)'
    BY <2>1 DEF FreshKey
  <2> QED
    BY <2>1, <2>3, <2>4 DEF SerialInv, ActiveCalls
<1>2. ASSUME NEW c \in Calls, Begin(c) PROVE SerialInv'
  <2>1. \A d \in Calls : pc[d] \notin Active
    BY <1>2 DEF Begin, ActiveCalls
  <2>2. \A d \in Calls : pc'[d] = IF d = c THEN "copySessions" ELSE pc[d]
    BY <1>2 DEF Begin, Goto, TypeOK
  <2>3. UNCHANGED <<store, heap, backup, held>>
    BY <1>2 DEF Begin
  <2>4. PICK r \in Requests : MayName(r) /\ req' = [req EXCEPT ![c] = r]
    BY <1>2 DEF Begin
  <2>5. (\A d, e \in ActiveCalls : d = e)'
    BY <2>1, <2>2 DEF ActiveCalls
  <2>6. CallInv(c)'
    <3>1. backup[c] = NothingCopied
      BY <2>1 DEF SerialInv, CallInv
    <3>2. iter'[c] = Objects(Sessions)
      BY <1>2 DEF Begin, TypeOK
    <3>3. CopiedSoFar(c)'
      BY <2>2, <2>3, <3>1, <3>2 DEF CopiedSoFar, NothingCopied, Table, Objects, Filed, Contents
    <3> QED
      BY <2>2, <3>3 DEF CallInv
  <2>7. ASSUME NEW d \in Calls, d # c PROVE CallInv(d)'
    BY <2>1, <2>2, <2>3, <2>7 DEF SerialInv, CallInv, NothingCopied
  <2>8. ASSUME NEW d \in Calls PROVE FreshKey(d)'
    <3>1. pc'[d] \in Active => d = c
      BY <2>1, <2>2
    <3>2. r.op \in Creates => \A e \in Calls : e # c /\ pc[e] # "idle" => req[e].key # r.key
      BY <2>4 DEF MayName, Named
    <3>3. req'[c] = r /\ \A e \in Calls : e # c => req'[e] = req[e] /\ pc'[e] = pc[e]
      BY <2>2, <2>4 DEF TypeOK
    <3> QED
      BY <3>1, <3>2, <3>3 DEF FreshKey
  <2> QED
    BY <2>5, <2>6, <2>7, <2>8 DEF SerialInv
<1>3. ASSUME NEW c \in Calls, CopyEntry(c) PROVE SerialInv'
  <2>1. PICK k \in Uncopied(c) : backup' = [backup EXCEPT ![c][k] = heap[k][store[k]]]
    BY <1>3 DEF CopyEntry
  <2>2. k \in Table(c) /\ k \in Keys /\ store[k] # Absent
    BY DEF Uncopied, Filed, Table, Keys
  <2>3. Contents[k] = heap[k][store[k]]
    BY <2>2 DEF Contents
  <2>4. UNCHANGED <<pc, req, store, heap, iter>> /\ pc[c] \in Copying
    BY <1>3 DEF CopyEntry
  <2>5. \A j \in Keys : backup'[c][j] = IF j = k THEN Contents[k] ELSE backup[c][j]
    BY <2>1, <2>2, <2>3 DEF TypeOK
  <2>6. Contents' = Contents /\ Objects(Table(c))' = Objects(Table(c))
    BY <2>4 DEF Contents, Objects, Filed, Table
  <2>7. CopiedSoFar(c)
    BY <2>4 DEF SerialInv, CallInv
  <2>8. CopiedSoFar(c)'
    BY <2>2, <2>4, <2>5, <2>6, <2>7 DEF CopiedSoFar, Keys
  <2>9. CallInv(c)'
    BY <2>4, <2>8 DEF CallInv
  <2>10. \A d \in Calls : d # c => backup'[d] = backup[d]
    BY <2>1 DEF TypeOK
  <2>11. pc' = [pc EXCEPT ![c] = pc[c]]
    BY <2>4 DEF TypeOK
  <2> QED
    BY <2>4, <2>9, <2>10, <2>11, OneMoves
<1>4. ASSUME NEW c \in Calls, CopyEnd(c) PROVE SerialInv'
  <2>1. CopiedSoFar(c) /\ pc[c] \in Copying
    BY <1>4 DEF CopyEnd, SerialInv, CallInv
  <2>2. ~Refilled(c)
    BY <2>1 DEF CopiedSoFar, Refilled, Objects
  <2>3. Uncopied(c) = {}
    BY <1>4, <2>2 DEF CopyEnd
  <2>4. \A k \in Table(c) : backup[c][k] = Contents[k]
    BY <2>1, <2>3 DEF CopiedSoFar, Uncopied, Copied, Filed, Contents, Table, Keys
  <2>5. UNCHANGED <<req, store, heap, backup>>
    BY <1>4 DEF CopyEnd
  <2>6. Contents' = Contents /\ Objects(Drafts)' = Objects(Drafts)
    BY <2>5 DEF Contents, Objects, Filed
  <2>7. CASE pc[c] = "copySessions"
    <3>1. pc' = [pc EXCEPT ![c] = "copyDrafts"] /\ iter'[c] = Objects(Drafts)
      BY <1>4, <2>7 DEF CopyEnd, Goto, TypeOK
    <3>2. CopiedSoFar(c)'
      BY <2>1, <2>4, <2>5, <2>6, <2>7, <3>1 DEF CopiedSoFar, Table, TypeOK
    <3>3. CallInv(c)'
      BY <3>1, <3>2 DEF CallInv, TypeOK
    <3> QED
      BY <2>5, <2>7, <3>1, <3>3, OneMoves
  <2>8. CASE pc[c] = "copyDrafts"
    <3>1. pc' = [pc EXCEPT ![c] = "body"]
      BY <1>4, <2>8 DEF CopyEnd, Goto
    <3>2. \A k \in Keys : backup[c][k] = Contents[k]
      BY <2>1, <2>4, <2>8 DEF CopiedSoFar, Table, Keys
    <3>3. backup[c] = Contents
      BY <3>2 DEF TypeOK, Contents
    <3>4. CallInv(c)'
      BY <2>5, <2>6, <3>1, <3>3 DEF CallInv, TypeOK
    <3> QED
      BY <2>5, <2>8, <3>1, <3>4, OneMoves
  <2> QED
    BY <2>1, <2>7, <2>8
<1>5. ASSUME NEW c \in Calls, CopyFails(c) PROVE FALSE
  <2>1. CopiedSoFar(c) /\ pc[c] \in Copying
    BY <1>5 DEF CopyFails, SerialInv, CallInv
  <2>2. iter[c] = Objects(Table(c)) /\ Copied(c) \subseteq Filed(Table(c))
    BY <2>1 DEF CopiedSoFar, Copied, Filed, Contents, Table, Keys
  <2>3. SizeKept(c)
    BY <2>2 DEF SizeKept
  <2>4. ~ \E k \in Uncopied(c) : Changing(k)
    BY <2>1 DEF Changing, SerialInv, ActiveCalls, Active, Copying, InBody
  <2> QED
    BY <1>5, <2>2, <2>3, <2>4, AllVisitedAllCopied DEF CopyFails
<1>6. ASSUME NEW c \in Calls, Body(c) PROVE SerialInv'
  <2> DEFINE k == req[c].key
  <2>1. CASE Add(c)
    <3>1. k \in Keys /\ req[c].op \in Creates
      BY <2>1, RequestShape DEF Add, Creates, TypeOK
    <3>2. /\ store' = [store EXCEPT ![k] = c] /\ heap' = [heap EXCEPT ![k][c] = {}]
          /\ UNCHANGED <<req, backup>> /\ pc[c] = "body" /\ pc' = [pc EXCEPT ![c] = "exit"]
      BY <2>1 DEF Add, Goto
    <3>3. Contents' = [Contents EXCEPT ![k] = {}]
      BY <3>1, <3>2, StoreAssumption DEF Contents, TypeOK
    <3>4. Performed(c)'
      BY <3>1, <3>2, <3>3 DEF Performed, SerialInv, CallInv, Creates, Writes
    <3>5. CallInv(c)'
      BY <3>2, <3>4 DEF CallInv, TypeOK
    <3> QED
      BY <3>2, <3>5, OneMoves
  <2>2. CASE Write(c)
    <3>1. k \in Keys /\ req[c].op \in Writes /\ held[c] \in Calls
      BY <2>2, RequestShape DEF Write, Change, Writes, TypeOK
    <3>2. /\ heap' = [heap EXCEPT ![k][held[c]] = @ \cup {Latest(c)}]
          /\ UNCHANGED <<req, store, backup, held>> /\ pc[c] = "found"
          /\ applied' = [applied EXCEPT ![c] = @ + 1]
          /\ pc' = [pc EXCEPT ![c] = IF applied[c] + 1 = Size(c, req[c]) THEN "exit" ELSE "found"]
      BY <2>2 DEF Write, Change, Goto, Latest
    <3>3. /\ held[c] = store[k] /\ backup[c][k] # Absent
          /\ Contents = [backup[c] EXCEPT ![k] = @ \cup Applied(c)]
      BY <3>2 DEF SerialInv, CallInv
    <3>4. Contents' = [Contents EXCEPT ![k] = @ \cup {Latest(c)}]
      <4>1. /\ store[k] # Absent /\ heap'[k][store[k]] = heap[k][store[k]] \cup {Latest(c)}
            /\ \A j \in Keys : j # k => heap'[j] = heap[j]
        BY <3>1, <3>2, <3>3, StoreAssumption DEF TypeOK
      <4>2. Contents[k] = heap[k][store[k]] /\ Contents'[k] = heap'[k][store[k]]
        BY <3>1, <3>2, <4>1 DEF Contents
      <4>3. \A j \in Keys : j # k => Contents'[j] = Contents[j]
        BY <3>2, <4>1 DEF Contents
      <4>4. Contents \in [Keys -> {Contents[j] : j \in Keys}] /\ DOMAIN Contents' = Keys
        BY DEF Contents
      <4> QED
        BY <3>1, <4>1, <4>2, <4>3, <4>4 DEF Contents
    <3>5. Applied(c)' = Applied(c) \cup {Latest(c)} /\ applied'[c] = applied[c] + 1
      BY <3>2, AppliedGrows DEF TypeOK
    <3>6. Contents' = [backup'[c] EXCEPT ![k] = @ \cup Applied(c)']
      <4>1. backup'[c] = backup[c] /\ backup[c] \in [Keys -> {Absent} \cup SUBSET Changes]
        BY <3>2 DEF TypeOK
      <4> HIDE DEF Latest, Applied
      <4>2. [[backup[c] EXCEPT ![k] = @ \cup Applied(c)] EXCEPT ![k] = @ \cup {Latest(c)}]
              = [backup[c] EXCEPT ![k] = @ \cup Applied(c)']
        BY <3>1, <3>5, <4>1
      <4> QED
        BY <3>2, <3>3, <3>4, <4>1, <4>2
    <3>7. CASE applied[c] + 1 = Size(c, req[c])
      <4>1. Applied(c)' = ChangesOf(c, req[c])
        BY <3>5, <3>7 DEF Applied, ChangesOf
      <4>2. Performed(c)'
        BY <3>1, <3>2, <3>3, <3>6, <4>1 DEF Performed, Creates, Writes
      <4>3. CallInv(c)'
        BY <3>2, <3>7, <4>2 DEF CallInv, TypeOK
      <4> QED
        BY <3>2, <3>7, <4>3, OneMoves
    <3>8. CASE applied[c] + 1 # Size(c, req[c])
      <4>1. CallInv(c)'
        BY <3>2, <3>3, <3>6, <3>8 DEF CallInv, TypeOK
      <4> QED
        BY <3>2, <3>8, <4>1, OneMoves
    <3> QED
      BY <3>7, <3>8
  <2>3. CASE Pop(c)
    <3>1. k \in Keys /\ req[c].op = "delete_draft"
      BY <2>3, RequestShape DEF Pop, TypeOK
    <3>2. /\ store' = [store EXCEPT ![k] = Absent]
          /\ UNCHANGED <<req, heap, backup>> /\ pc[c] = "body" /\ pc' = [pc EXCEPT ![c] = "exit"]
      BY <2>3 DEF Pop, Goto
    <3>3. Contents' = [Contents EXCEPT ![k] = Absent]
      BY <3>1, <3>2 DEF Contents, TypeOK
    <3>4. Performed(c)'
      BY <3>1, <3>2, <3>3 DEF Performed, SerialInv, CallInv, Creates, Writes
    <3>5. CallInv(c)'
      BY <3>2, <3>4 DEF CallInv, TypeOK
    <3> QED
      BY <3>2, <3>5, OneMoves
  <2>4. CASE Lookup(c)
    <3>1. /\ held'[c] = store[k] /\ pc[c] = "body" /\ pc' = [pc EXCEPT ![c] = "found"]
          /\ UNCHANGED <<req, store, heap, backup, applied>> /\ k \in Keys /\ store[k] # Absent
      BY <2>4, RequestShape DEF Lookup, Lookups, Writes, Goto, TypeOK
    <3>2. Contents = backup[c] /\ Contents' = Contents /\ Applied(c)' = {}
      <4>1. Contents = backup[c]
        BY <3>1 DEF SerialInv, CallInv
      <4>2. Contents' = Contents
        BY <3>1 DEF Contents
      <4>3. applied'[c] = 0
        BY <3>1 DEF TypeOK, InBatch
      <4>4. 1..0 = {}
        OBVIOUS
      <4> QED
        BY <4>1, <4>2, <4>3, <4>4 DEF Applied
    <3>3. backup[c][k] # Absent /\ backup[c][k] = backup[c][k] \cup {}
      BY <3>1, <3>2, StoreAssumption DEF Contents, TypeOK
    <3>4. Contents' = [backup'[c] EXCEPT ![k] = @ \cup Applied(c)']
      BY <3>1, <3>2, <3>3 DEF TypeOK
    <3>5. CallInv(c)'
      BY <3>1, <3>3, <3>4 DEF CallInv, TypeOK
    <3> QED
      BY <3>1, <3>5, OneMoves
  <2>5. CASE Observe(c)
    <3>1. /\ pc[c] \in {"body", "found"} /\ pc' = [pc EXCEPT ![c] = "exit"]
          /\ UNCHANGED <<req, store, heap, backup>>
          /\ \/ req[c].op = "list_interactive_sessions"
             \/ req[c].op = "read_draft" /\ pc[c] = "found"
      BY <2>5 DEF Observe, Goto
    <3>2. Contents' = Contents /\ backup[c] = Contents
      <4>1. CASE pc[c] = "body"
        BY <3>1, <4>1 DEF SerialInv, CallInv, Contents
      <4>2. CASE pc[c] = "found"
        <5>1. /\ backup[c][k] # Absent /\ k \in Keys
              /\ Contents = [backup[c] EXCEPT ![k] = @ \cup Applied(c)]
          BY <4>2, RequestShape DEF SerialInv, CallInv, Lookups, Writes, TypeOK
        <5>2. req[c].op \notin Writes
          BY <3>1 DEF Writes
        <5>3. applied[c] = 0
          BY <5>2 DEF TypeOK, InBatch
        <5>4. Applied(c) = {}
          BY <5>3 DEF Applied
        <5>5. backup[c][k] \cup {} = backup[c][k]
          BY <5>1 DEF TypeOK
        <5> QED
          BY <3>1, <5>1, <5>4, <5>5 DEF Contents, TypeOK
      <4> QED
        BY <3>1, <4>1, <4>2
    <3>3. req[c].op = "read_draft" => Contents[k] # Absent
      <4> SUFFICES ASSUME req[c].op = "read_draft" PROVE Contents[k] # Absent
        OBVIOUS
      <4>1. k \in Keys /\ held[c] \in Calls /\ held[c] = store[k]
        BY <3>1, RequestShape DEF SerialInv, CallInv, TypeOK
      <4> QED
        BY <4>1, StoreAssumption DEF Contents, TypeOK
    <3>4. Performed(c)'
      BY <3>1, <3>2, <3>3 DEF Performed, Creates, Writes
    <3>5. CallInv(c)'
      BY <3>1, <3>4 DEF CallInv, TypeOK
    <3> QED
      BY <3>1, <3>5, OneMoves
  <2>6. CASE OpenFails(c) \/ NotFound(c) \/ Raise(c)
    <3>1. /\ pc[c] \in InBody /\ pc' = [pc EXCEPT ![c] = "clearSessions"]
          /\ UNCHANGED <<req, store, heap, backup>>
      BY <2>6 DEF OpenFails, NotFound, Raise, Goto
    <3>2. req[c].op \notin Unfailing
      BY <2>6 DEF OpenFails, NotFound, Raise, Unfailing, Lookups, Writes, TypeOK
    <3>3. CallInv(c)'
      BY <3>1, <3>2 DEF CallInv, RestoredSoFar, TypeOK
    <3> QED
      BY <3>1, <3>3, OneMoves
  <2> QED
    BY <1>6, <2>1, <2>2, <2>3, <2>4, <2>5, <2>6 DEF Body
<1>7. ASSUME NEW c \in Calls, Commit(c) PROVE SerialInv'
  <2>1. /\ pc[c] = "exit" /\ pc' = [pc EXCEPT ![c] = "returned"] /\ UNCHANGED req
        /\ backup' = [backup EXCEPT ![c] = NothingCopied]
    BY <1>7 DEF Commit, Goto
  <2>2. CallInv(c)'
    BY <2>1 DEF CallInv, NothingCopied, TypeOK
  <2>3. \A d \in Calls : d # c => backup'[d] = backup[d]
    BY <2>1 DEF TypeOK
  <2> QED
    BY <2>1, <2>2, <2>3, OneMoves
<1>8. ASSUME NEW c \in Calls, ClearTable(c) PROVE SerialInv'
  <2>1. /\ pc[c] \in RollingBack /\ UNCHANGED <<req, heap, backup>>
        /\ store' = [k \in Keys |-> IF k \in Table(c) THEN Absent ELSE store[k]]
    BY <1>8 DEF ClearTable
  <2>2. RestoredSoFar(c)
    BY <2>1 DEF SerialInv, CallInv
  <2>3. CASE pc[c] = "clearSessions"
    <3>1. pc' = [pc EXCEPT ![c] = "restoreSessions"]
      BY <1>8, <2>3 DEF ClearTable, Goto
    <3>2. RestoredSoFar(c)'
      BY <2>1, <2>2, <2>3, <3>1 DEF RestoredSoFar, Table, Keys, TypeOK
    <3>3. CallInv(c)'
      BY <3>1, <3>2 DEF CallInv, TypeOK
    <3> QED
      BY <2>1, <2>3, <3>1, <3>3, OneMoves
  <2>4. CASE pc[c] = "clearDrafts"
    <3>1. pc' = [pc EXCEPT ![c] = "restoreDrafts"]
      BY <1>8, <2>4 DEF ClearTable, Goto
    <3>2. \A k \in Sessions : Contents'[k] = Contents[k]
      BY <2>1, <2>4, StoreAssumption DEF Contents, Table, Keys
    <3>3. RestoredSoFar(c)'
      BY <2>1, <2>2, <2>4, <3>1, <3>2 DEF RestoredSoFar, Table, Keys, TypeOK
    <3>4. CallInv(c)'
      BY <3>1, <3>3 DEF CallInv, TypeOK
    <3> QED
      BY <2>1, <2>4, <3>1, <3>4, OneMoves
  <2> QED
    BY <1>8, <2>3, <2>4 DEF ClearTable
<1>9. ASSUME NEW c \in Calls, RestoreTable(c) PROVE SerialInv'
  <2>1. /\ pc[c] \in RollingBack /\ UNCHANGED req
        /\ \A d \in Calls : d # c => backup'[d] = backup[d]
    BY <1>9 DEF RestoreTable, TypeOK
  <2>2. RestoredSoFar(c)
    BY <2>1 DEF SerialInv, CallInv
  <2>3. CASE pc[c] = "restoreSessions"
    <3>1. pc' = [pc EXCEPT ![c] = "clearDrafts"] /\ UNCHANGED backup
      BY <1>9, <2>3 DEF RestoreTable, Goto
    <3>2. \A k \in Sessions : Contents'[k] = backup[c][k]
      BY <1>9, <2>2, <2>3, StoreAssumption
         DEF RestoreTable, RestoredSoFar, RestoredKeys, Contents, Table, Keys, TypeOK
    <3>3. RestoredSoFar(c)'
      BY <2>1, <2>2, <3>1, <3>2 DEF RestoredSoFar, TypeOK
    <3>4. CallInv(c)'
      BY <3>1, <3>3 DEF CallInv, TypeOK
    <3> QED
      BY <2>1, <2>3, <3>1, <3>4, OneMoves
  <2>4. CASE pc[c] = "restoreDrafts"
    <3>1. /\ pc' = [pc EXCEPT ![c] = "raised"]
          /\ backup' = [backup EXCEPT ![c] = NothingCopied]
      BY <1>9, <2>4 DEF RestoreTable, Goto
    <3>2. CallInv(c)'
      BY <3>1 DEF CallInv, TypeOK, NothingCopied
    <3> QED
      BY <2>1, <2>4, <3>1, <3>2, OneMoves
  <2> QED
    BY <1>9, <2>3, <2>4 DEF RestoreTable
<1> QED
  BY <1>1, <1>2, <1>3, <1>4, <1>5, <1>6, <1>7, <1>8, <1>9
     DEF Next, Continue, Enter, Exit, Finished

(***************************************************************************)
(* The serial invariant holds of calls made one at a time.                 *)
(***************************************************************************)
THEOREM SerialInvariant ==
  ASSUME Serial
  PROVE  Spec => [](TypeOK /\ SerialInv)
<1>1. Init => SerialInv
  BY DEF Init, SerialInv, ActiveCalls, CallInv, FreshKey,
     Active, Copying, InBody, RollingBack
<1>2. TypeOK /\ TypeOK' /\ SerialInv /\ [Next]_vars => SerialInv'
  BY SerialStep
<1> QED
  BY <1>1, <1>2, UnitOfWorkTypeOK, PTL DEF Spec

-----------------------------------------------------------------------------
(***************************************************************************)
(* The settled store is what the one call past its snapshot copied, and    *)
(* the contents when there is no such call.                                *)
(***************************************************************************)
LEMMA SettledValue ==
  SerialInv =>
      /\ \A c \in Calls : pc[c] \in InBody \cup RollingBack => Settled = backup[c]
      /\ (\A c \in Calls : pc[c] \notin InBody \cup RollingBack) => Settled = Contents
<1> SUFFICES ASSUME SerialInv
             PROVE  /\ \A c \in Calls : pc[c] \in InBody \cup RollingBack =>
                          Settled = backup[c]
                    /\ (\A c \in Calls : pc[c] \notin InBody \cup RollingBack) =>
                          Settled = Contents
  OBVIOUS
<1> DEFINE past == {c \in Calls : pc[c] \in InBody \cup RollingBack}
<1>1. ASSUME NEW c \in past PROVE Settled = backup[c]
  <2>1. \A d \in past : d = c
    BY DEF SerialInv, ActiveCalls, Active
  <2>2. (CHOOSE d \in past : TRUE) = c
    BY <2>1
  <2> QED
    BY <2>2 DEF Settled
<1>2. past = {} => Settled = Contents
  BY DEF Settled
<1> QED
  BY <1>1, <1>2

(***************************************************************************)
(* When the call under way ends, no call is under way.                     *)
(***************************************************************************)
LEMMA OutcomeStep ==
  ASSUME TypeOK, SerialInv, NEW c \in Calls, pc[c] \in Active,
         NEW there \in {"returned", "raised"}, pc' = [pc EXCEPT ![c] = there],
         req' = req
  PROVE  /\ Outcome[c] = Atomic!Pending
         /\ Outcome' = [Outcome EXCEPT ![c] = [req |-> req[c], end |-> there]]
         /\ req[c] \in Requests
         /\ req[c].op \in Creates =>
                \A d \in Calls : Outcome[d].req.key # req[c].key
         /\ \A d \in Calls : pc'[d] \notin InBody \cup RollingBack
<1> USE DEF Active, Copying, InBody, RollingBack, Ended
<1>1. Outcome[c] = Atomic!Pending
  BY DEF Outcome, Atomic!Pending, Atomic!NoRequest, NoRequest
<1>2. Outcome' = [Outcome EXCEPT ![c] = [req |-> req[c], end |-> there]]
  BY DEF Outcome, TypeOK
<1>3. req[c] \in Requests
  BY DEF TypeOK
<1>4. ASSUME req[c].op \in Creates, NEW d \in Calls
      PROVE  Outcome[d].req.key # req[c].key
  <2>1. req[c].key # Absent
    BY <1>3, <1>4, RequestShape, StoreAssumption DEF Creates
  <2>2. d # c /\ pc[d] # "idle" => req[d].key # req[c].key
    BY <1>4 DEF SerialInv, FreshKey
  <2> QED
    BY <2>1, <2>2 DEF Outcome, NoRequest
<1>5. \A d \in Calls : pc'[d] \notin InBody \cup RollingBack
  BY DEF SerialInv, ActiveCalls, TypeOK
<1> QED
  BY <1>1, <1>2, <1>3, <1>4, <1>5

(***************************************************************************)
(* Every step of serial calls is a step of the atomic store or a stutter.  *)
(***************************************************************************)
LEMMA AtomicStep ==
  ASSUME Serial, TypeOK, SerialInv, SerialInv', [Next]_vars,
         \A c \in Calls : pc'[c] \in InBody \cup RollingBack => Settled' = backup'[c],
         (\A c \in Calls : pc'[c] \notin InBody \cup RollingBack) => Settled' = Contents'
  PROVE  [Atomic!Next]_(Atomic!vars)
<1> USE DEF Active, Copying, InBody, RollingBack, Ended
<1> SUFFICES (Settled' = Settled /\ Outcome' = Outcome) \/ Atomic!Next
  BY DEF Atomic!vars
<1>1. CASE UNCHANGED vars
  BY <1>1 DEF vars, Settled, Contents, Outcome
<1>2. ASSUME NEW c \in Calls, Begin(c) PROVE Settled' = Settled /\ Outcome' = Outcome
  <2>1. \A d \in Calls : pc[d] \notin Active
    BY <1>2 DEF Begin, ActiveCalls
  <2>2. /\ pc' = [pc EXCEPT ![c] = "copySessions"] /\ pc[c] = "idle"
        /\ \A d \in Calls : d # c => req'[d] = req[d]
        /\ UNCHANGED <<store, heap>>
    BY <1>2 DEF Begin, Goto, TypeOK
  <2>3. Settled' = Settled
    BY <2>1, <2>2, SettledValue DEF Contents, TypeOK
  <2>4. Outcome' = Outcome
    BY <2>2 DEF Outcome, TypeOK
  <2> QED
    BY <2>3, <2>4
<1>3. ASSUME NEW c \in Calls, Enter(c) PROVE Settled' = Settled /\ Outcome' = Outcome
  <2>1. pc[c] \in Copying /\ UNCHANGED <<req, store, heap>>
    BY <1>3 DEF Enter, CopyEntry, CopyEnd, CopyFails
  <2>2. PICK there \in Copying \cup {"body", "refused"} : pc' = [pc EXCEPT ![c] = there]
    BY <1>3 DEF Enter, CopyEntry, CopyEnd, CopyFails, Goto, TypeOK
  <2>3. there # "refused"
    BY <2>2 DEF SerialInv, CallInv, TypeOK
  <2>4. Settled = Contents
    BY <2>1, SettledValue DEF SerialInv, ActiveCalls
  <2>5. there = "body" => backup'[c] = Contents'
    BY <2>2 DEF SerialInv, CallInv, TypeOK
  <2>6. there # "body" => \A d \in Calls : pc'[d] \notin InBody \cup RollingBack
    BY <2>1, <2>2, <2>3 DEF SerialInv, ActiveCalls, TypeOK
  <2>7. Settled' = Contents'
    BY <2>2, <2>5, <2>6 DEF TypeOK
  <2>8. Outcome' = Outcome
    BY <2>1, <2>2, <2>3 DEF Outcome, TypeOK
  <2> QED
    BY <2>1, <2>4, <2>7, <2>8 DEF Contents
<1>4. ASSUME NEW c \in Calls, NEW there \in InBody \cup RollingBack,
             pc[c] \in InBody \cup RollingBack, pc' = [pc EXCEPT ![c] = there],
             UNCHANGED <<req, backup>>
      PROVE  Settled' = Settled /\ Outcome' = Outcome
  <2>1. Settled' = backup'[c] /\ Settled = backup[c]
    BY <1>4, SettledValue DEF TypeOK
  <2>2. Outcome' = Outcome
    BY <1>4 DEF Outcome, TypeOK
  <2> QED
    BY <1>4, <2>1, <2>2
<1>5. ASSUME NEW c \in Calls, Body(c) PROVE Settled' = Settled /\ Outcome' = Outcome
  <2>1. \E there \in InBody \cup RollingBack :
           /\ pc[c] \in InBody /\ pc' = [pc EXCEPT ![c] = there]
           /\ UNCHANGED <<req, backup>>
    BY <1>5 DEF Body, Add, OpenFails, Lookup, NotFound, Write, Change, Observe, Pop, Raise, Goto
  <2> QED
    BY <1>4, <2>1
<1>6. ASSUME NEW c \in Calls, Commit(c) PROVE Atomic!Next
  <2> DEFINE r == req[c]
  <2>1. /\ pc[c] = "exit" /\ pc' = [pc EXCEPT ![c] = "returned"]
        /\ UNCHANGED <<req, store, heap>>
    BY <1>6 DEF Commit, Goto
  <2>2. /\ Outcome[c] = Atomic!Pending
        /\ Outcome' = [Outcome EXCEPT ![c] = [req |-> r, end |-> "returned"]]
        /\ r \in Requests
        /\ r.op \in Creates => \A d \in Calls : Outcome[d].req.key # r.key
        /\ \A d \in Calls : pc'[d] \notin InBody \cup RollingBack
    BY <2>1, OutcomeStep
  <2>3. Atomic!End(c, r, "returned")
    BY <2>2 DEF Atomic!End
  <2>4. Settled = backup[c] /\ Settled' = Contents
    BY <2>1, <2>2, SettledValue DEF Contents
  <2>5. Performed(c)
    BY <2>1 DEF SerialInv, CallInv
  <2>6. r.op \in Creates => Atomic!Create(c, r)
    BY <2>2, <2>3, <2>4, <2>5 DEF Performed, Atomic!Create, Atomic!Creates, Creates
  <2>7. r.op \in Writes => Atomic!Write(c, r)
    BY <2>3, <2>4, <2>5 DEF Performed, Atomic!Write, Atomic!Writes, Writes, Atomic!ChangesOf, ChangesOf,
       Atomic!Size, Size
  <2>8. r.op \in {"read_draft", "list_interactive_sessions"} => Atomic!Observe(c, r)
    BY <2>3, <2>4, <2>5 DEF Performed, Atomic!Observe
  <2>9. r.op = "delete_draft" => Atomic!Delete(c, r)
    BY <2>3, <2>4, <2>5 DEF Performed, Atomic!Delete
  <2>10. r \in Atomic!Requests
    BY <2>2 DEF Requests, Atomic!Requests
  <2> QED
    BY <2>2, <2>6, <2>7, <2>8, <2>9, <2>10, RequestShape DEF Atomic!Next
<1>7. ASSUME NEW c \in Calls, ClearTable(c) PROVE Settled' = Settled /\ Outcome' = Outcome
  <2>1. \E there \in RollingBack :
           /\ pc[c] \in RollingBack /\ pc' = [pc EXCEPT ![c] = there]
           /\ UNCHANGED <<req, backup>>
    BY <1>7 DEF ClearTable, Goto
  <2> QED
    BY <1>4, <2>1
<1>8. ASSUME NEW c \in Calls, RestoreTable(c)
      PROVE  (Settled' = Settled /\ Outcome' = Outcome) \/ Atomic!Next
  <2>1. CASE pc[c] = "restoreSessions"
    <3>1. pc' = [pc EXCEPT ![c] = "clearDrafts"] /\ UNCHANGED <<req, backup>>
      BY <1>8, <2>1 DEF RestoreTable, Goto
    <3> QED
      BY <1>4, <2>1, <3>1
  <2>2. CASE pc[c] = "restoreDrafts"
    <3> DEFINE r == req[c]
    <3>1. pc' = [pc EXCEPT ![c] = "raised"] /\ UNCHANGED req
      BY <1>8, <2>2 DEF RestoreTable, Goto
    <3>2. /\ Outcome[c] = Atomic!Pending
          /\ Outcome' = [Outcome EXCEPT ![c] = [req |-> r, end |-> "raised"]]
          /\ r \in Requests
          /\ r.op \in Creates => \A d \in Calls : Outcome[d].req.key # r.key
          /\ \A d \in Calls : pc'[d] \notin InBody \cup RollingBack
      BY <2>2, <3>1, OutcomeStep
    <3>3. RestoredSoFar(c)
      BY <2>2 DEF SerialInv, CallInv
    <3>4. \A k \in Keys : Contents'[k] = backup[c][k]
      BY <1>8, <2>2, <3>3, StoreAssumption
         DEF RestoreTable, RestoredSoFar, RestoredKeys, Contents, Table, Keys, TypeOK
    <3>5. Contents' = backup[c]
      BY <3>4 DEF Contents, TypeOK
    <3>6. Settled' = Settled
      BY <2>2, <3>2, <3>5, SettledValue
    <3>7. Atomic!Fail(c, r)
      BY <3>2, <3>3, <3>6
         DEF RestoredSoFar, Atomic!Fail, Atomic!End, Atomic!Unfailing, Unfailing, Atomic!Creates, Creates
    <3>8. r \in Atomic!Requests
      BY <3>2 DEF Requests, Atomic!Requests
    <3> QED
      BY <3>7, <3>8 DEF Atomic!Next
  <2> QED
    BY <1>8, <2>1, <2>2 DEF RestoreTable
<1> QED
  BY <1>1, <1>2, <1>3, <1>5, <1>6, <1>7, <1>8 DEF Next, Continue, Exit, Finished

(***************************************************************************)
(* Calls made one at a time implement the atomic store.                    *)
(***************************************************************************)
THEOREM SerialImplementsAtomic ==
  ASSUME Serial
  PROVE  Spec => AtomicSpec
<1>1. Init => Atomic!Init
  BY DEF Init, Atomic!Init, Settled, Contents, Outcome, Atomic!Pending, Atomic!NoRequest,
     NoRequest, Atomic!Keys, Keys, InBody, RollingBack, Ended
<1> DEFINE SV ==
      SerialInv =>
        /\ \A c \in Calls : pc[c] \in InBody \cup RollingBack => Settled = backup[c]
        /\ (\A c \in Calls : pc[c] \notin InBody \cup RollingBack) => Settled = Contents
<1>2. SV
  BY SettledValue
<1>3. TypeOK /\ SerialInv /\ SerialInv' /\ SV' /\ [Next]_vars => [Atomic!Next]_(Atomic!vars)
  BY AtomicStep
<1> HIDE DEF SV
<1> QED
  BY <1>1, <1>2, <1>3, SerialInvariant, PTL DEF Spec, AtomicSpec, Atomic!Spec

-----------------------------------------------------------------------------
(***************************************************************************)
(* No two calls create the same key.                                       *)
(***************************************************************************)
CreateKeysUnique ==
    \A c, d \in Calls :
        /\ pc[c] # "idle" /\ pc[d] # "idle"
        /\ req[c].op \in Creates /\ req[d].op \in Creates /\ req[c].key = req[d].key
        => c = d

(***************************************************************************)
(* uuid4 keys stay unique, for serial and for concurrent calls.            *)
(***************************************************************************)
THEOREM KeysUnique == Spec => [](TypeOK /\ CreateKeysUnique)
<1>1. Init => CreateKeysUnique
  BY DEF Init, CreateKeysUnique
<1>2. TypeOK /\ CreateKeysUnique /\ [Next]_vars => CreateKeysUnique'
  <2> SUFFICES ASSUME TypeOK, CreateKeysUnique, [Next]_vars PROVE CreateKeysUnique'
    OBVIOUS
  <2>1. ASSUME NEW c \in Calls, Begin(c) PROVE CreateKeysUnique'
    <3>1. PICK r \in Requests : MayName(r) /\ req' = [req EXCEPT ![c] = r]
      BY <2>1 DEF Begin
    <3>2. /\ req'[c] = r
          /\ \A d \in Calls : d # c => req'[d] = req[d] /\ pc'[d] = pc[d]
      BY <2>1, <3>1 DEF Begin, Goto, TypeOK
    <3>3. r.op \in Creates => \A d \in Calls : pc[d] # "idle" => req[d].key # r.key
      BY <3>1 DEF MayName, Named
    <3> QED
      BY <3>2, <3>3 DEF CreateKeysUnique
  <2>2. ASSUME NEW c \in Calls, Continue(c) PROVE CreateKeysUnique'
    <3>1. pc[c] # "idle" /\ UNCHANGED req /\ \A d \in Calls : d # c => pc'[d] = pc[d]
      BY <2>2 DEF Continue, Enter, Body, Exit, CopyEntry, CopyEnd, CopyFails, Add, OpenFails,
         Lookup, NotFound, Write, Change, Observe, Pop, Raise, Commit, ClearTable, RestoreTable, Goto,
         TypeOK, Copying
    <3> QED
      BY <3>1 DEF CreateKeysUnique
  <2>3. CASE UNCHANGED vars
    BY <2>3 DEF vars, CreateKeysUnique
  <2> QED
    BY <2>1, <2>2, <2>3 DEF Next, Finished
<1> QED
  BY <1>1, <1>2, UnitOfWorkTypeOK, PTL DEF Spec

-----------------------------------------------------------------------------
\* The theorems of the atomic store, read of the settled store.
Proved == INSTANCE AtomicStore_proofs WITH contents <- Settled, outcome <- Outcome

(***************************************************************************)
(* Exact effects, read of a settled store that is the store as it stands:  *)
(* an entry is there exactly when its create returned and no delete did.   *)
(***************************************************************************)
LEMMA ExactStore ==
  ASSUME TypeOK, Proved!ExactEffects, Settled = Contents
  PROVE  \A k \in Keys :
           /\ store[k] # Absent =>
                /\ \E d \in Calls : Returned(d, Creates) /\ req[d].key = k
                /\ ~Deleted(k)
                /\ \A d \in Calls : Returned(d, Writes) /\ req[d].key = k
                                   => Whole(d, Contents[k])
                /\ \A d \in Calls : Touches(d, Contents[k]) => Returned(d, Writes)
           /\ \A c \in Calls : Returned(c, Creates) /\ req[c].key = k /\ ~Deleted(k)
                               => store[k] # Absent
<1> USE DEF Ended
<1>1. \A d \in Calls : \A ops : Proved!Returned(d, ops) <=> Returned(d, ops)
  BY DEF Proved!Returned, Returned, Outcome
<1>2. \A d \in Calls : pc[d] = "returned" => Outcome[d].req = req[d]
  BY DEF Outcome
<1>3. \A k \in Keys : Proved!Deleted(k) <=> Deleted(k)
  BY <1>2 DEF Proved!Deleted, Deleted, Proved!Returned, Returned, Outcome
<1>4. \A k \in Keys : store[k] = Absent <=> Contents[k] = Absent
  BY StoreAssumption DEF Contents, TypeOK
<1>5. ASSUME NEW k \in Keys, store[k] # Absent
      PROVE  /\ \E d \in Calls : Returned(d, Creates) /\ req[d].key = k
             /\ ~Deleted(k)
  BY <1>1, <1>2, <1>3, <1>4, <1>5
     DEF Proved!ExactEffects, Proved!Creates, Proved!Keys, Keys, Creates, Returned
<1>6. ASSUME NEW k \in Keys, store[k] # Absent
      PROVE  /\ \A d \in Calls : Returned(d, Writes) /\ req[d].key = k
                                => Whole(d, Contents[k])
             /\ \A d \in Calls : Touches(d, Contents[k]) => Returned(d, Writes)
  <2> DEFINE W == {d \in Calls : Proved!Returned(d, Writes) /\ Outcome[d].req.key = k}
  <2>1. Contents[k] = UNION {Proved!ChangesOf(d, Outcome[d].req) : d \in W}
    BY <1>4, <1>6 DEF Proved!ExactEffects, Proved!Keys, Keys, Proved!Writes, Writes
  <2>2. W = {d \in Calls : Returned(d, Writes) /\ req[d].key = k}
    BY <1>1, <1>2 DEF Returned
  <2>3. \A d \in W : Proved!ChangesOf(d, Outcome[d].req) = ChangesOf(d, req[d])
    BY <1>2, <2>2 DEF Proved!ChangesOf, ChangesOf, Proved!Size, Size, Returned
  <2> HIDE DEF W
  <2>4. \A d \in W : Whole(d, Contents[k])
    BY <2>1, <2>3 DEF Whole
  <2>5. ASSUME NEW d \in Calls, Touches(d, Contents[k]) PROVE d \in W
    <3>1. PICK x \in Contents[k] : x[1] = d
      BY <2>5 DEF Touches
    <3>2. PICK e \in W : x \in ChangesOf(e, req[e])
      BY <2>1, <2>3
    <3> QED
      BY <3>1, <3>2 DEF ChangesOf
  <2> QED
    BY <2>2, <2>4, <2>5
<1>7. ASSUME NEW c \in Calls, NEW k \in Keys, Returned(c, Creates), req[c].key = k, ~Deleted(k)
      PROVE  store[k] # Absent
  BY <1>1, <1>2, <1>3, <1>4, <1>7
     DEF Proved!ExactEffects, Proved!Creates, Proved!Keys, Keys, Creates, Returned
<1> QED
  BY <1>5, <1>7, <1>6

LEMMA NamesKey ==
  ASSUME TypeOK, NEW c \in Calls, pc[c] \in Ended,
         req[c].op \in Creates \cup Writes \cup {"delete_draft"}
  PROVE  req[c].key \in Keys
BY RequestShape DEF TypeOK, NoRequest, Creates, Writes

(***************************************************************************)
(* With no call under way, exact effects in the settled store are a store  *)
(* that contradicts no call.                                               *)
(***************************************************************************)
LEMMA ExactIsDurable ==
  ASSUME TypeOK, SerialInv, CreateKeysUnique, Proved!ExactEffects
  PROVE  Durable
<1> SUFFICES ASSUME Quiet, NEW c \in Calls, Contradicted(c) PROVE FALSE
  BY DEF Durable
<1> USE DEF Active, Copying, InBody, RollingBack, Ended
<1>1. Settled = Contents
  BY SettledValue DEF Quiet, ActiveCalls
<1>2. ~CreateLost(c)
  BY <1>1, ExactStore, NamesKey DEF CreateLost, Returned
<1>3. ~DeleteUndone(c)
  BY <1>1, ExactStore, NamesKey DEF DeleteUndone, Deleted, Returned
<1>4. ~WriteLost(c)
  BY <1>1, ExactStore, NamesKey DEF WriteLost, Whole, Returned
<1>5. ~FailureShows(c)
  <2> SUFFICES ASSUME FailureShows(c) PROVE FALSE
    OBVIOUS
  <2>1. pc[c] = "raised"
    BY DEF FailureShows, SerialInv, CallInv
  <2>2. CASE req[c].op \in Creates /\ store[req[c].key] # Absent
    BY <1>1, <2>1, <2>2, ExactStore, NamesKey DEF CreateKeysUnique, Returned
  <2>3. CASE \E k \in Keys : store[k] # Absent /\ Touches(c, Contents[k])
    BY <1>1, <2>1, <2>3, ExactStore DEF Returned
  <2> QED
    BY <2>2, <2>3 DEF FailureShows, Touches
<1> QED
  BY <1>2, <1>3, <1>4, <1>5 DEF Contradicted

(***************************************************************************)
(* The settled store of serial calls has the exact effects the atomic      *)
(* store has, because the one implements the other.                        *)
(***************************************************************************)
LEMMA SettledIsExact ==
  ASSUME Serial
  PROVE  Spec => []Proved!ExactEffects
<1>1. Atomic!Init => Proved!Init
  BY DEF Atomic!Init, Proved!Init, Atomic!Keys, Proved!Keys, Atomic!Pending, Proved!Pending,
     Atomic!NoRequest, Proved!NoRequest
<1>2. [Atomic!Next]_(Atomic!vars) => [Proved!Next]_(Proved!vars)
  BY DEF Atomic!Next, Proved!Next, Atomic!vars, Proved!vars,
     Atomic!Create, Proved!Create, Atomic!Write, Proved!Write, Atomic!Observe, Proved!Observe,
     Atomic!Delete, Proved!Delete, Atomic!Fail, Proved!Fail, Atomic!End, Proved!End,
     Atomic!Requests, Proved!Requests, Atomic!Creates, Proved!Creates, Atomic!Writes, Proved!Writes,
     Atomic!Unfailing, Proved!Unfailing, Atomic!Pending, Proved!Pending,
     Atomic!NoRequest, Proved!NoRequest, Atomic!ChangesOf, Proved!ChangesOf, Atomic!Size, Proved!Size
<1>3. Proved!StoreAssumption
  BY StoreAssumption DEF Proved!StoreAssumption, Proved!Keys, Keys, IsFiniteSet, Proved!IsFiniteSet,
     Proved!Changes, Changes
<1>4. Proved!Spec => []Proved!ExactEffects
  BY <1>3, Proved!AtomicExactEffects
<1> QED
  BY <1>1, <1>2, <1>4, SerialImplementsAtomic, PTL DEF AtomicSpec, Atomic!Spec, Proved!Spec

(***************************************************************************)
(* The store of calls made one at a time is what the calls were told.      *)
(***************************************************************************)
THEOREM SerialDurable ==
  ASSUME Serial
  PROVE  Spec => []Durable
<1>1. TypeOK /\ SerialInv /\ CreateKeysUnique /\ Proved!ExactEffects => Durable
  BY ExactIsDurable
<1> QED
  BY <1>1, SerialInvariant, KeysUnique, SettledIsExact, PTL

(***************************************************************************)
(* A client that waits for each call to end never loses a draft whose      *)
(* create_draft returned.                                                  *)
(***************************************************************************)
THEOREM SerialCreatedStaysFiled ==
  ASSUME Serial
  PROVE  Spec => []CreatedStaysFiled
<1>1. Durable => CreatedStaysFiled
  BY DEF Durable, CreatedStaysFiled, Contradicted
<1> QED
  BY <1>1, SerialDurable, PTL

(***************************************************************************)
(* list_interactive_sessions, called by a client that makes one call at a  *)
(* time, lists every session whose open returned: what it copied on its    *)
(* way in is the settled store, and still the store.                       *)
(***************************************************************************)
THEOREM SerialListIsComplete ==
  ASSUME Serial
  PROVE  Spec => []ListIsComplete
<1>1. TypeOK /\ SerialInv /\ Proved!ExactEffects => ListIsComplete
  <2> SUFFICES ASSUME TypeOK, SerialInv, Proved!ExactEffects, NEW c \in Calls, pc[c] = "body",
                      NEW o \in Calls, Returned(o, {"open_interactive_session"}), CreateLost(o)
               PROVE  FALSE
    BY DEF ListIsComplete
  <2>1. Settled = Contents
    BY SettledValue DEF SerialInv, CallInv, InBody
  <2> QED
    BY <2>1, ExactStore, NamesKey DEF CreateLost, Returned, Ended
<1> QED
  BY <1>1, SerialInvariant, KeysUnique, SettledIsExact, PTL

-----------------------------------------------------------------------------
(***************************************************************************)
(* Concurrent calls.  A call is hit when one that rolled back overlapped   *)
(* it, and calls that rolled back clash when they overlapped each other.   *)
(* Without a clash, the store has the effect of every call that is not hit *)
(* and so does the copy of every call that began after it, for as long as  *)
(* that copy may still be restored; a call that failed is in neither.      *)
(***************************************************************************)
Hit(c) == overlap[c] \cap RolledBack # {}
Clash  == \E r \in RolledBack : Hit(r)

Began(c)    == pc[c] # "idle"
Done(c)     == pc[c] \in {"exit", "returned"}
Given(k)    == \E o \in Calls : Done(o) /\ req[o].op \in Creates /\ req[o].key = k
Deleting(k) == \E d \in Calls : Done(d) /\ req[d].op = "delete_draft" /\ req[d].key = k

OverlapInv == \A c, d \in Calls :
    /\ pc[c] \in Active /\ pc[d] \in Active /\ c # d => d \in overlap[c]
    /\ d \in overlap[c] => c \in overlap[d] /\ Began(c) /\ c # d

\* What is filed, copied or walked was created; a key not yet filed is one call's.
Seen(k) == \/ store[k] # Absent
           \/ \E d \in Calls : backup[d][k] # Absent
           \/ \E d, m \in Calls : <<k, m>> \in iter[d]

KeyInv ==
    /\ \A k \in Keys : Seen(k) => Given(k)
    /\ \A o \in Calls : pc[o] \in Copying \cup {"body"} /\ req[o].op \in Creates =>
           \A d \in Calls : d # o /\ Began(d) => req[d].key # req[o].key

\* A call's changes are in what it wrote to, and in what others copied, only once
\* it wrote.
Wrote(c, k) ==
    /\ req[c].key = k
    /\ \/ Done(c) /\ req[c].op \in Writes
       \/ (pc[c] = "found" \/ c \in RolledBack) /\ req[c].op = "update_draft"

TraceInv == \A c \in Calls, k \in Keys :
    /\ \A m \in Calls : Touches(c, heap[k][m]) => Wrote(c, k)
    /\ \A d \in Calls : backup[d][k] # Absent /\ Touches(c, backup[d][k]) => Wrote(c, k) /\ c # d

\* What a call looks at stays what it was, until a rollback hits the call.
ViewInv == \A c \in Calls :
    /\ pc[c] \notin Active => backup[c] = NothingCopied
    /\ ~Hit(c) /\ pc[c] = "found" => /\ store[req[c].key] \in {held[c], Absent}
                                     /\ Applied(c) \subseteq heap[req[c].key][held[c]]
    /\ ~Hit(c) /\ pc[c] \in Copying => \A o \in iter[c] : store[o[1]] \in {o[2], Absent}

Refilling(r, k) == /\ pc[r] = (IF k \in Sessions THEN "restoreSessions" ELSE "restoreDrafts")
                   /\ backup[r][k] # Absent
HasCopied(r, k) == pc[r] \in InBody \cup RollingBack \/ (pc[r] = "copyDrafts" /\ k \in Sessions)

\* The effect of a call in the store.
Shows(c, k) ==
    /\ req[c].op \in Creates =>
           store[k] # Absent \/ Deleting(k) \/ \E r \in Calls : Refilling(r, k)
    /\ req[c].op \in Writes => store[k] = Absent \/ Whole(c, heap[k][store[k]])
    /\ req[c].op = "delete_draft" => store[k] = Absent

\* The effect of a call in the copy of one that began after it.
ShowsIn(r, c, k) ==
    /\ req[c].op \in Creates /\ ~Hit(r) /\ HasCopied(r, k) =>
           backup[r][k] # Absent \/ Deleting(k)
    /\ req[c].op \in Writes => backup[r][k] = Absent \/ Whole(c, backup[r][k])
    /\ req[c].op = "delete_draft" => backup[r][k] = Absent

Leaves(c, k) ==
    /\ pc[c] = "raised" => store[k] = Absent \/ ~Touches(c, heap[k][store[k]])
    /\ pc[c] = "restoreDrafts" /\ Wrote(c, k) => store[k] = Absent

EffectInv(c) == \A k \in Keys :
    /\ ~Hit(c) /\ Done(c) /\ req[c].key = k => Shows(c, k)
    /\ Leaves(c, k)
    /\ \A r \in Calls : pc[r] \in Active /\ r # c /\ c \notin overlap[r] =>
           /\ ~Hit(c) /\ Done(c) /\ req[c].key = k => ShowsIn(r, c, k)
           /\ pc[c] = "raised" => backup[r][k] = Absent \/ ~Touches(c, backup[r][k])

ConcurrentInv ==
    /\ OverlapInv /\ KeyInv /\ TraceInv /\ ViewInv
    /\ ~Clash => \A c \in Calls : EffectInv(c)

(***************************************************************************)
(* What the steps of one call leave alone.                                 *)
(***************************************************************************)
LEMMA BeginFrame ==
  ASSUME TypeOK, NEW c \in Calls, Begin(c)
  PROVE  /\ pc[c] = "idle" /\ pc'[c] = "copySessions"
         /\ \A d \in Calls : d # c => pc'[d] = pc[d] /\ req'[d] = req[d] /\ iter'[d] = iter[d]
         /\ iter'[c] = Objects(Sessions) /\ UNCHANGED <<store, heap, backup, held, applied>>
         /\ overlap'[c] = ActiveCalls
         /\ \A d \in Calls : d # c =>
                overlap'[d] = IF d \in ActiveCalls THEN overlap[d] \cup {c} ELSE overlap[d]
         /\ MayName(req'[c])
<1>1. PICK r \in Requests : MayName(r) /\ req' = [req EXCEPT ![c] = r]
  BY DEF Begin
<1> QED
  BY <1>1 DEF Begin, Goto, TypeOK

LEMMA ContinueFrame ==
  ASSUME TypeOK, NEW c \in Calls, Continue(c)
  PROVE  /\ pc[c] \in Active /\ pc'[c] \in Active \cup Ended
         /\ UNCHANGED <<req, overlap>>
         /\ \A d \in Calls : d # c => /\ pc'[d] = pc[d] /\ backup'[d] = backup[d]
                                      /\ held'[d] = held[d] /\ iter'[d] = iter[d]
                                      /\ applied'[d] = applied[d]
         /\ pc'[c] \in Copying => pc[c] \in Copying
         /\ pc'[c] = "body" => pc[c] \in Copying
         /\ pc[c] = "found" => pc'[c] \in {"found", "exit", "clearSessions"}
         /\ c \in RolledBack => pc'[c] \in RollingBack \cup {"raised"}
         /\ Done(c) => \/ pc'[c] = "returned"
                       \/ req[c].op = "update_draft" /\ pc'[c] = "clearSessions"
<1> USE DEF Active, Copying, InBody, RollingBack, Ended, RolledBack, Done, Goto, TypeOK
<1>1. CASE Enter(c)
  <2>1. CASE CopyEntry(c)
    BY <2>1 DEF CopyEntry
  <2>2. CASE CopyEnd(c)
    BY <2>2 DEF CopyEnd
  <2>3. CASE CopyFails(c)
    BY <2>3 DEF CopyFails
  <2> QED
    BY <1>1, <2>1, <2>2, <2>3 DEF Enter
<1>2. CASE Body(c)
  <2>1. CASE Add(c) \/ OpenFails(c) \/ Lookup(c) \/ NotFound(c)
    BY <2>1 DEF Add, OpenFails, Lookup, NotFound
  <2>2. CASE Write(c) \/ Observe(c) \/ Pop(c)
    BY <2>2 DEF Write, Change, Observe, Pop
  <2>3. CASE Raise(c)
    BY <2>3 DEF Raise
  <2> QED
    BY <1>2, <2>1, <2>2, <2>3 DEF Body
<1>3. CASE Exit(c)
  <2>1. CASE Commit(c)
    BY <2>1 DEF Commit
  <2>2. CASE ClearTable(c)
    BY <2>2 DEF ClearTable
  <2>3. CASE RestoreTable(c)
    BY <2>3 DEF RestoreTable
  <2> QED
    BY <1>3, <2>1, <2>2, <2>3 DEF Exit
<1> QED
  BY <1>1, <1>2, <1>3 DEF Continue

(***************************************************************************)
(* Nothing that counts against a call is ever forgotten, nor what was      *)
(* created or deleted.                                                     *)
(***************************************************************************)
LEMMA Monotone ==
  ASSUME TypeOK, OverlapInv, [Next]_vars
  PROVE  /\ RolledBack \subseteq RolledBack' /\ (Clash => Clash')
         /\ \A c \in Calls : Hit(c) => Hit(c)'
         /\ \A k \in Keys : (Given(k) => Given(k)') /\ (Deleting(k) => Deleting(k)')
<1>1. ASSUME RolledBack \subseteq RolledBack', \A c \in Calls : overlap[c] \subseteq overlap'[c]
      PROVE  (Clash => Clash') /\ \A c \in Calls : Hit(c) => Hit(c)'
  BY <1>1 DEF Clash, Hit, RolledBack
<1>2. ASSUME \A d \in Calls : Done(d) /\ req[d].op # "update_draft" =>
                 Done(d)' /\ req'[d] = req[d]
      PROVE  \A k \in Keys : (Given(k) => Given(k)') /\ (Deleting(k) => Deleting(k)')
  BY <1>2 DEF Given, Deleting, Creates
<1>3. ASSUME NEW c \in Calls, Begin(c)
      PROVE  /\ RolledBack \subseteq RolledBack' /\ \A d \in Calls : overlap[d] \subseteq overlap'[d]
             /\ \A d \in Calls : Done(d) => Done(d)' /\ req'[d] = req[d]
  <2>1. overlap[c] = {}
    BY <1>3, BeginFrame DEF OverlapInv, Began, TypeOK
  <2>2. \A d \in Calls : overlap[d] \subseteq overlap'[d]
    BY <1>3, <2>1, BeginFrame
  <2>3. \A d \in Calls : Done(d) => Done(d)' /\ req'[d] = req[d]
    BY <1>3, BeginFrame DEF Done
  <2>4. RolledBack \subseteq RolledBack'
    BY <1>3, BeginFrame DEF RolledBack, RollingBack
  <2> QED
    BY <2>2, <2>3, <2>4
<1>4. ASSUME NEW c \in Calls, Continue(c)
      PROVE  /\ RolledBack \subseteq RolledBack' /\ overlap' = overlap
             /\ \A d \in Calls : Done(d) /\ req[d].op # "update_draft" => Done(d)' /\ req'[d] = req[d]
  <2>1. \A d \in Calls : Done(d) /\ req[d].op # "update_draft" => Done(d)' /\ req'[d] = req[d]
    BY <1>4, ContinueFrame DEF Done
  <2>2. RolledBack \subseteq RolledBack'
    BY <1>4, ContinueFrame DEF RolledBack
  <2> QED
    BY <1>4, <2>1, <2>2, ContinueFrame
<1>5. ASSUME UNCHANGED vars
      PROVE  /\ RolledBack \subseteq RolledBack' /\ overlap' = overlap
             /\ \A d \in Calls : Done(d) /\ req[d].op # "update_draft" => Done(d)' /\ req'[d] = req[d]
  BY <1>5 DEF vars, RolledBack, Done
<1>6. RolledBack \subseteq RolledBack' /\ \A c \in Calls : overlap[c] \subseteq overlap'[c]
  BY <1>3, <1>4, <1>5 DEF Next, Finished
<1>7. \A d \in Calls : Done(d) /\ req[d].op # "update_draft" => Done(d)' /\ req'[d] = req[d]
  BY <1>3, <1>4, <1>5 DEF Next, Finished
<1> QED
  BY <1>1, <1>2, <1>6, <1>7

LEMMA OverlapStep == ASSUME TypeOK, OverlapInv, [Next]_vars PROVE OverlapInv'
<1>1. ASSUME NEW b \in Calls, Begin(b) PROVE OverlapInv'
  <2> SUFFICES ASSUME NEW c \in Calls, NEW d \in Calls
               PROVE  /\ pc'[c] \in Active /\ pc'[d] \in Active /\ c # d => d \in overlap'[c]
                      /\ d \in overlap'[c] => c \in overlap'[d] /\ pc'[c] # "idle" /\ c # d
    BY DEF OverlapInv, Began
  <2>1. /\ pc[b] = "idle" /\ pc'[b] = "copySessions" /\ overlap'[b] = ActiveCalls
        /\ \A e \in Calls : e # b =>
             /\ pc'[e] = pc[e]
             /\ overlap'[e] = IF e \in ActiveCalls THEN overlap[e] \cup {b} ELSE overlap[e]
    BY <1>1, BeginFrame
  <2>2. \A e \in Calls : e \in ActiveCalls <=> pc[e] \in Active
    BY DEF ActiveCalls
  <2>3. b \notin ActiveCalls
    BY <2>1 DEF ActiveCalls, Active, Copying, InBody, RollingBack
  <2>4. \A e \in Calls : b \notin overlap[e]
    BY <2>1 DEF OverlapInv, Began
  <2>5. /\ pc[c] \in Active /\ pc[d] \in Active /\ c # d => d \in overlap[c]
        /\ d \in overlap[c] => c \in overlap[d] /\ pc[c] # "idle" /\ c # d
    BY DEF OverlapInv, Began
  <2>6. CASE c = b
    <3>1. \A e \in ActiveCalls : pc[e] # "idle" /\ e # b
      BY <2>3 DEF ActiveCalls, Active, Copying, InBody, RollingBack
    <3> QED
      BY <2>1, <2>2, <2>3, <2>6, <3>1
  <2>7. CASE c # b /\ d = b
    BY <2>1, <2>2, <2>3, <2>4, <2>7 DEF Active, Copying, InBody, RollingBack
  <2>8. CASE c # b /\ d # b
    BY <2>1, <2>5, <2>8
  <2> QED
    BY <2>6, <2>7, <2>8
<1>2. ASSUME NEW b \in Calls, Continue(b) PROVE OverlapInv'
  <2>1. /\ pc[b] \in Active /\ overlap' = overlap /\ \A d \in Calls : d # b => pc'[d] = pc[d]
        /\ pc'[b] # "idle"
    BY <1>2, ContinueFrame DEF Active, Copying, InBody, RollingBack, Ended
  <2> QED
    BY <2>1 DEF OverlapInv, Began
<1>3. CASE UNCHANGED vars
  BY <1>3 DEF vars, OverlapInv, Began
<1> QED
  BY <1>1, <1>2, <1>3 DEF Next, Finished

-----------------------------------------------------------------------------
(***************************************************************************)
(* What a step of a call does to one key.                                  *)
(***************************************************************************)
Does(c, k)     == pc[c] = "body" /\ pc'[c] = "exit" /\ req[c].key = k
Adds(c, k)     == Does(c, k) /\ req[c].op \in Creates
Pops(c, k)     == Does(c, k) /\ req[c].op = "delete_draft"
WritesTo(c, k) == /\ pc[c] = "found" /\ req[c].key = k /\ req[c].op \in Writes
                  /\ \/ pc'[c] = "exit"
                     \/ pc'[c] = "found" /\ req[c].op = "update_draft"
Clears(c, k)   == /\ pc[c] = (IF k \in Sessions THEN "clearSessions" ELSE "clearDrafts")
                  /\ pc'[c] = (IF k \in Sessions THEN "restoreSessions" ELSE "restoreDrafts")
                  /\ backup'[c] = backup[c]
Refills(c, k)  == Refilling(c, k) /\ pc'[c] = (IF k \in Sessions THEN "clearDrafts" ELSE "raised")

LEMMA KeyEffect ==
  ASSUME TypeOK, NEW c \in Calls, Continue(c), NEW k \in Keys
  PROVE  \/ store'[k] = store[k] /\ heap'[k] = heap[k]
         \/ Adds(c, k) /\ store'[k] = c /\ heap'[k] = [heap[k] EXCEPT ![c] = {}]
         \/ WritesTo(c, k) /\ store'[k] = store[k]
                           /\ heap'[k] = [heap[k] EXCEPT ![held[c]] = @ \cup {Latest(c)}]
         \/ (Pops(c, k) \/ Clears(c, k)) /\ store'[k] = Absent /\ heap'[k] = heap[k]
         \/ Refills(c, k) /\ store'[k] = c /\ heap'[k] = [heap[k] EXCEPT ![c] = backup[c][k]]
<1> USE DEF Goto, TypeOK
<1>1. CASE Enter(c)
  BY <1>1 DEF Enter, CopyEntry, CopyEnd, CopyFails
<1>2. CASE Add(c)
  <2>1. pc[c] = "body" /\ pc'[c] = "exit" /\ req[c].op \in Creates
    BY <1>2 DEF Add
  <2>2. /\ store' = [store EXCEPT ![req[c].key] = c]
        /\ heap' = [heap EXCEPT ![req[c].key][c] = {}]
    BY <1>2 DEF Add
  <2>3. CASE req[c].key = k
    BY <2>1, <2>2, <2>3 DEF Adds, Does
  <2>4. CASE req[c].key # k
    BY <2>2, <2>4
  <2> QED
    BY <2>3, <2>4
<1>3. CASE Write(c)
  <2>1. /\ pc[c] = "found" /\ req[c].op \in Writes /\ store' = store
        /\ pc'[c] = IF applied[c] + 1 = Size(c, req[c]) THEN "exit" ELSE "found"
        /\ applied[c] \in Nat /\ applied[c] < Size(c, req[c])
    BY <1>3 DEF Write, Change, InBatch
  <2>2. pc'[c] = "exit" \/ (pc'[c] = "found" /\ req[c].op = "update_draft")
    BY <2>1 DEF Size
  <2>3. heap' = [heap EXCEPT ![req[c].key][held[c]] = @ \cup {Latest(c)}]
    BY <1>3 DEF Write, Change, Latest
  <2> HIDE DEF Latest
  <2>4. CASE req[c].key = k
    BY <2>1, <2>3, <2>4, <2>2 DEF WritesTo
  <2>5. CASE req[c].key # k
    BY <2>1, <2>3, <2>5
  <2> QED
    BY <2>4, <2>5
<1>4. CASE Pop(c)
  <2>1. pc[c] = "body" /\ pc'[c] = "exit" /\ req[c].op = "delete_draft" /\ heap' = heap
    BY <1>4 DEF Pop
  <2>2. store' = [store EXCEPT ![req[c].key] = Absent]
    BY <1>4 DEF Pop
  <2>3. CASE req[c].key = k
    BY <2>1, <2>2, <2>3 DEF Pops, Does
  <2>4. CASE req[c].key # k
    BY <2>1, <2>2, <2>4
  <2> QED
    BY <2>3, <2>4
<1>5. CASE OpenFails(c) \/ Lookup(c) \/ NotFound(c) \/ Observe(c) \/ Raise(c) \/ Commit(c)
  BY <1>5 DEF OpenFails, Lookup, NotFound, Observe, Raise, Commit
<1>6. k \in Table(c) <=> IF pc[c] \in {"copySessions", "clearSessions", "restoreSessions"}
                         THEN k \in Sessions ELSE k \notin Sessions
  BY StoreAssumption DEF Table, Keys
<1>7. CASE ClearTable(c)
  <2>1. /\ pc[c] \in {"clearSessions", "clearDrafts"} /\ heap' = heap /\ backup' = backup
        /\ pc'[c] = IF pc[c] = "clearSessions" THEN "restoreSessions" ELSE "restoreDrafts"
        /\ store'[k] = IF k \in Table(c) THEN Absent ELSE store[k]
    BY <1>7 DEF ClearTable
  <2> QED
    BY <1>6, <2>1 DEF Clears
<1>8. CASE RestoreTable(c)
  <2>1. /\ pc[c] \in {"restoreSessions", "restoreDrafts"}
        /\ pc'[c] = IF pc[c] = "restoreSessions" THEN "clearDrafts" ELSE "raised"
    BY <1>8 DEF RestoreTable
  <2>2. k \in RestoredKeys(c) <=> Refilling(c, k)
    BY <1>6, <2>1 DEF RestoredKeys, Refilling
  <2>3. /\ store'[k] = IF k \in RestoredKeys(c) THEN c ELSE store[k]
        /\ heap'[k] = IF k \in RestoredKeys(c) THEN [heap[k] EXCEPT ![c] = backup[c][k]]
                      ELSE heap[k]
    BY <1>8 DEF RestoreTable
  <2> QED
    BY <2>1, <2>2, <2>3 DEF Refills, Refilling
<1> QED
  BY <1>1, <1>2, <1>3, <1>4, <1>5, <1>7, <1>8 DEF Continue, Body, Exit

Copies(c, k) == /\ pc[c] \in Copying /\ pc'[c] = pc[c] /\ k \in Table(c) /\ store[k] # Absent
                /\ UNCHANGED <<store, heap>>

LEMMA BackupEffect ==
  ASSUME TypeOK, NEW c \in Calls, Continue(c)
  PROVE  /\ \A k \in Keys : \/ backup'[c][k] = backup[c][k]
                            \/ Copies(c, k) /\ backup'[c][k] = heap[k][store[k]]
                            \/ pc'[c] \in Ended /\ backup'[c] = NothingCopied
         /\ pc'[c] \notin Active => backup'[c] = NothingCopied
         /\ pc[c] \notin Copying => iter'[c] = iter[c]
         /\ pc[c] \in Copying =>
              /\ UNCHANGED <<store, heap>>
              /\ iter'[c] = iter[c] \/ iter'[c] = {} \/ iter'[c] = Objects(Drafts)
<1> USE DEF Goto, TypeOK, Active, Copying, InBody, RollingBack, Ended
<1>1. CASE CopyEntry(c)
  <2>1. PICK j \in Uncopied(c) : backup' = [backup EXCEPT ![c][j] = heap[j][store[j]]]
    BY <1>1 DEF CopyEntry
  <2>2. j \in Table(c) /\ j \in Keys /\ store[j] # Absent
    BY <2>1 DEF Uncopied, Filed, Table, Keys
  <2>3. pc[c] \in Copying /\ UNCHANGED <<pc, store, heap, iter>>
    BY <1>1 DEF CopyEntry
  <2>4. \A k \in Keys : \/ backup'[c][k] = backup[c][k]
                        \/ Copies(c, k) /\ backup'[c][k] = heap[k][store[k]]
    BY <2>1, <2>2, <2>3 DEF Copies
  <2> QED
    BY <2>3, <2>4
<1>2. CASE CopyEnd(c)
  BY <1>2 DEF CopyEnd
<1>3. CASE CopyFails(c)
  BY <1>3 DEF CopyFails
<1>4. CASE Body(c)
  <2>1. UNCHANGED <<backup, iter>> /\ pc[c] \notin Copying /\ pc'[c] \in Active
    BY <1>4 DEF Body, Add, OpenFails, Lookup, NotFound, Write, Change, Observe, Pop, Raise
  <2> QED
    BY <2>1
<1>5. CASE Exit(c)
  BY <1>5 DEF Exit, Commit, ClearTable, RestoreTable
<1> QED
  BY <1>1, <1>2, <1>3, <1>4, <1>5 DEF Continue, Enter

-----------------------------------------------------------------------------
\* A key is not created again, nor filed by two creates.
LEMMA NotAdded ==
  ASSUME TypeOK, CreateKeysUnique, KeyInv, NEW c \in Calls, Continue(c), NEW k \in Keys,
         Adds(c, k)
  PROVE  /\ ~Given(k) /\ ~Seen(k)
         /\ \A d \in Calls : d # c /\ Began(d) => req[d].key # k
<1>1. pc[c] = "body" /\ req[c].op \in Creates /\ req[c].key = k
  BY DEF Adds, Does
<1>2. \A d \in Calls : d # c /\ Began(d) => req[d].key # k
  BY <1>1 DEF KeyInv
<1>3. ~Given(k)
  BY <1>1, <1>2 DEF Given, Done, Began
<1> QED
  BY <1>2, <1>3 DEF KeyInv

LEMMA KeyStep ==
  ASSUME TypeOK, OverlapInv, CreateKeysUnique, KeyInv, [Next]_vars
  PROVE  KeyInv'
<1>0. \A k \in Keys : (Seen(k) => Given(k)) /\ (Given(k) => Given(k)')
  BY Monotone DEF KeyInv
<1> DEFINE Fresh(o) == pc[o] \in Copying \cup {"body"} /\ req[o].op \in Creates =>
                           \A d \in Calls : d # o /\ Began(d) => req[d].key # req[o].key
<1>1. \A o \in Calls : Fresh(o)
  BY DEF KeyInv
<1>2. ASSUME NEW k \in Keys, Seen(k)' => Seen(k) \/ Given(k)' PROVE Seen(k)' => Given(k)'
  BY <1>0, <1>2
<1>3. ASSUME NEW c \in Calls, Begin(c) PROVE KeyInv'
  <2>1. ASSUME NEW k \in Keys PROVE Seen(k)' => Seen(k)
    <3>1. UNCHANGED <<store, backup>> /\ \A d \in Calls : d # c => iter'[d] = iter[d]
      BY <1>3, BeginFrame
    <3>2. \A m \in Calls : <<k, m>> \in iter'[c] => store[k] # Absent
      BY <1>3, BeginFrame DEF Objects, Filed
    <3> QED
      BY <3>1, <3>2 DEF Seen
  <2>2. ASSUME NEW o \in Calls PROVE Fresh(o)'
    <3>1. /\ \A d \in Calls : d # c => pc'[d] = pc[d] /\ req'[d] = req[d]
          /\ pc[c] = "idle" /\ pc'[c] = "copySessions" /\ MayName(req'[c])
      BY <1>3, BeginFrame
    <3>2. CASE o = c
      <4>1. req'[c].op \in Creates => \A d \in Calls : pc[d] # "idle" => req[d].key # req'[c].key
        BY <3>1 DEF MayName, Named
      <4> QED
        BY <3>1, <3>2, <4>1 DEF Began
    <3>3. CASE o # c
      <4> SUFFICES ASSUME pc[o] \in Copying \cup {"body"}, req[o].op \in Creates
                   PROVE  req'[c].key # req[o].key
        BY <1>1, <3>1, <3>3 DEF Began
      <4>1. o \in ActiveCalls /\ Began(o)
        BY DEF ActiveCalls, Active, Copying, InBody, Began
      <4>2. CASE req'[c].op \in Creates
        BY <3>1, <4>1, <4>2 DEF MayName, Named, Began
      <4>3. CASE req'[c].op \notin Creates
        <5> SUFFICES ASSUME req'[c].key = req[o].key PROVE FALSE
          OBVIOUS
        <5>1. store[req[o].key] # Absent
          BY <3>1, <4>1, <4>3 DEF MayName
        <5>2. req[o].key \in Keys
          BY <4>1, RequestShape DEF TypeOK, ActiveCalls, Creates
        <5>3. PICK e \in Calls : Done(e) /\ req[e].op \in Creates /\ req[e].key = req[o].key
          BY <5>1, <5>2 DEF KeyInv, Seen, Given
        <5>4. e = o
          BY <4>1, <5>3 DEF CreateKeysUnique, Done, Began
        <5> QED
          BY <5>3, <5>4 DEF Done, Copying
      <4> QED
        BY <4>2, <4>3
    <3> QED
      BY <3>2, <3>3
  <2> QED
    BY <1>2, <2>1, <2>2 DEF KeyInv
<1>4. ASSUME NEW c \in Calls, Continue(c) PROVE KeyInv'
  <2>1. ASSUME NEW k \in Keys PROVE Seen(k)' => Seen(k) \/ Given(k)'
    <3>1. store'[k] # Absent => Seen(k) \/ Given(k)'
      <4>1. CASE Adds(c, k)
        BY <1>4, <4>1, ContinueFrame DEF Adds, Does, Given, Done
      <4> QED
        BY <1>4, <4>1, KeyEffect DEF Seen, Refills, Refilling
    <3>2. \A d \in Calls : backup'[d][k] # Absent => Seen(k)
      <4>1. \A d \in Calls : d # c => backup'[d] = backup[d]
        BY <1>4, ContinueFrame
      <4>2. backup'[c][k] # Absent => Seen(k)
        BY <1>4, BackupEffect DEF Seen, Copies, NothingCopied
      <4> QED
        BY <4>1, <4>2 DEF Seen
    <3>3. \A d, m \in Calls : <<k, m>> \in iter'[d] => Seen(k)
      <4>1. \A d \in Calls : d # c => iter'[d] = iter[d]
        BY <1>4, ContinueFrame
      <4>2. \A m \in Calls : <<k, m>> \in Objects(Drafts) => store[k] # Absent
        BY DEF Objects, Filed
      <4>3. \A m \in Calls : <<k, m>> \in iter'[c] => Seen(k)
        BY <1>4, <4>2, BackupEffect DEF Seen
      <4> QED
        BY <4>1, <4>3 DEF Seen
    <3> QED
      BY <3>1, <3>2, <3>3 DEF Seen
  <2>2. ASSUME NEW o \in Calls PROVE Fresh(o)'
    <3>1. req' = req /\ (\A d \in Calls : d # c => pc'[d] = pc[d]) /\ Began(c)
      BY <1>4, ContinueFrame DEF Began, Active, Copying, InBody, RollingBack
    <3>2. pc'[o] \in Copying \cup {"body"} => pc[o] \in Copying \cup {"body"}
      BY <1>4, <3>1, ContinueFrame
    <3>3. \A d \in Calls : Began(d)' => Began(d)
      BY <3>1 DEF Began
    <3> QED
      BY <1>1, <3>1, <3>2, <3>3
  <2> QED
    BY <1>2, <2>1, <2>2 DEF KeyInv
<1>5. CASE UNCHANGED vars
  <2>1. UNCHANGED <<pc, req, store, backup, iter>>
    BY <1>5 DEF vars
  <2> QED
    BY <2>1 DEF KeyInv, Seen, Given, Done, Began
<1> QED
  BY <1>3, <1>4, <1>5 DEF Next, Finished

LEMMA TraceStep ==
  ASSUME TypeOK, CreateKeysUnique, KeyInv, TraceInv, [Next]_vars
  PROVE  TraceInv'
<1>1. ASSUME UNCHANGED <<heap, backup>>, \A c \in Calls, k \in Keys : Wrote(c, k) => Wrote(c, k)'
      PROVE  TraceInv'
  BY <1>1 DEF TraceInv
<1>2. ASSUME NEW b \in Calls, Begin(b) PROVE TraceInv'
  <2>1. \A c \in Calls, k \in Keys : Wrote(c, k) => Wrote(c, k)'
    BY <1>2, BeginFrame DEF Wrote, Done, RolledBack, RollingBack
  <2> QED
    BY <1>1, <1>2, <2>1, BeginFrame
<1>3. ASSUME NEW b \in Calls, Continue(b) PROVE TraceInv'
  <2> SUFFICES ASSUME NEW c \in Calls, NEW k \in Keys
               PROVE  /\ \A m \in Calls : Touches(c, heap'[k][m]) => Wrote(c, k)'
                      /\ \A d \in Calls : backup'[d][k] # Absent /\ Touches(c, backup'[d][k])
                                              => Wrote(c, k)' /\ c # d
    BY DEF TraceInv
  <2>1. Wrote(c, k) => Wrote(c, k)'
    <3>1. req' = req /\ (c # b => pc'[c] = pc[c])
      BY <1>3, ContinueFrame
    <3>2. CASE c # b
      BY <3>1, <3>2 DEF Wrote, Done, RolledBack
    <3>3. CASE c = b /\ Done(c)
      BY <1>3, <3>1, <3>3, ContinueFrame DEF Wrote, Done, RolledBack, RollingBack
    <3>4. CASE c = b /\ c \in RolledBack
      BY <1>3, <3>1, <3>4, ContinueFrame DEF Wrote, Done, RolledBack, RollingBack
    <3>5. CASE c = b /\ pc[c] = "found" /\ req[c].op = "update_draft"
      BY <1>3, <3>1, <3>5, ContinueFrame DEF Wrote, Done, RolledBack, RollingBack, Writes
    <3> QED
      BY <3>2, <3>3, <3>4, <3>5 DEF Wrote
  <2>2. /\ \A m \in Calls : Touches(c, heap[k][m]) => Wrote(c, k)
        /\ \A d \in Calls : backup[d][k] # Absent /\ Touches(c, backup[d][k]) => Wrote(c, k) /\ c # d
    BY DEF TraceInv
  <2>3. ASSUME NEW m \in Calls, Touches(c, heap'[k][m]) PROVE Wrote(c, k)'
    <3>1. CASE Touches(c, heap[k][m])
      BY <2>1, <2>2, <3>1
    <3>2. CASE ~Touches(c, heap[k][m]) /\ WritesTo(b, k)
      <4>1. ~Adds(b, k) /\ ~Clears(b, k) /\ ~Pops(b, k) /\ ~Refills(b, k)
        BY <3>2 DEF WritesTo, Adds, Pops, Does, Clears, Refills, Refilling
      <4>2. heap'[k] = [heap[k] EXCEPT ![held[b]] = @ \cup {Latest(b)}] \/ heap'[k] = heap[k]
        BY <1>3, <4>1, KeyEffect
      <4>3. c = b
        <5>1. heap[k] \in [Calls -> SUBSET Changes]
          BY DEF TypeOK
        <5>2. heap'[k][m] = heap[k][m] \/ heap'[k][m] = heap[k][m] \cup {Latest(b)}
          BY <4>2, <5>1
        <5> QED
          BY <2>3, <3>2, <5>2 DEF Touches, Latest
      <4>4. req' = req
        BY <1>3, ContinueFrame
      <4> QED
        BY <3>2, <4>3, <4>4 DEF WritesTo, Wrote, Done
    <3>3. CASE ~Touches(c, heap[k][m]) /\ ~WritesTo(b, k)
      <4>1. \/ heap'[k] = heap[k] \/ heap'[k] = [heap[k] EXCEPT ![b] = {}]
            \/ Refills(b, k) /\ heap'[k] = [heap[k] EXCEPT ![b] = backup[b][k]]
        BY <1>3, <3>3, KeyEffect
      <4>2. Refills(b, k) /\ Touches(c, backup[b][k])
        BY <2>3, <3>3, <4>1 DEF Touches, TypeOK
      <4> QED
        BY <2>1, <2>2, <4>2 DEF Refills, Refilling
    <3> QED
      BY <3>1, <3>2, <3>3
  <2>4. ASSUME NEW d \in Calls, backup'[d][k] # Absent, Touches(c, backup'[d][k])
        PROVE  Wrote(c, k)' /\ c # d
    <3>1. CASE backup'[d][k] = backup[d][k]
      BY <2>1, <2>2, <2>4, <3>1
    <3>2. CASE backup'[d][k] # backup[d][k]
      <4>1. d = b
        BY <1>3, <3>2, ContinueFrame
      <4>2. Copies(b, k) /\ backup'[b][k] = heap[k][store[k]]
        BY <1>3, <2>4, <3>2, <4>1, BackupEffect DEF NothingCopied
      <4>3. store[k] \in Calls
        BY <4>2 DEF Copies, TypeOK
      <4>4. Wrote(c, k)
        BY <2>2, <2>4, <4>1, <4>2, <4>3
      <4>5. c # b
        BY <4>2, <4>4 DEF Wrote, Copies, Done, Copying, RolledBack, RollingBack
      <4> QED
        BY <2>1, <4>1, <4>4, <4>5
    <3> QED
      BY <3>1, <3>2
  <2> QED
    BY <2>3, <2>4
<1>4. CASE UNCHANGED vars
  BY <1>1, <1>4 DEF vars, Wrote, Done, RolledBack
<1> QED
  BY <1>2, <1>3, <1>4 DEF Next, Finished

\* A call that rolls back hits every other call that is under way.
LEMMA RollbackHits ==
  ASSUME OverlapInv, NEW b \in Calls, pc[b] \in RollingBack,
         NEW c \in Calls, pc[c] \in Active, b # c
  PROVE  Hit(c) /\ b \in overlap[c]
BY DEF OverlapInv, Hit, RolledBack, Active

LEMMA ViewStep ==
  ASSUME TypeOK, OverlapInv, CreateKeysUnique, KeyInv, ViewInv, [Next]_vars
  PROVE  ViewInv'
<1> DEFINE Kept(c)   == pc[c] \notin Active => backup[c] = NothingCopied
           Found(c)  == ~Hit(c) /\ pc[c] = "found" =>
                            /\ store[req[c].key] \in {held[c], Absent}
                            /\ Applied(c) \subseteq heap[req[c].key][held[c]]
           Walked(c) == ~Hit(c) /\ pc[c] \in Copying =>
                            \A o \in iter[c] : store[o[1]] \in {o[2], Absent}
<1>0. \A c \in Calls : Kept(c) /\ Found(c) /\ Walked(c) /\ (~Hit(c)' => ~Hit(c))
  BY Monotone DEF ViewInv
<1>1. ASSUME NEW b \in Calls, Begin(b), NEW c \in Calls PROVE Kept(c)' /\ Found(c)' /\ Walked(c)'
  <2>1. CASE c = b
    <3>1. pc'[c] = "copySessions" /\ store' = store /\ iter'[c] = Objects(Sessions)
      BY <1>1, <2>1, BeginFrame
    <3>2. \A o \in iter'[c] : store'[o[1]] = o[2]
      BY <3>1 DEF Objects
    <3> QED
      BY <3>1, <3>2 DEF Active, Copying
  <2>2. CASE c # b
    <3>1. /\ pc'[c] = pc[c] /\ req'[c] = req[c] /\ iter'[c] = iter[c] /\ Applied(c)' = Applied(c)
          /\ UNCHANGED <<store, heap, backup, held>>
      BY <1>1, <2>2, BeginFrame DEF Applied
    <3> QED
      BY <1>0, <3>1
  <2> QED
    BY <2>1, <2>2
<1>2. ASSUME NEW b \in Calls, Continue(b), NEW c \in Calls PROVE Kept(c)' /\ Found(c)' /\ Walked(c)'
  <2>1. CASE c = b
    <3>1. Kept(c)'
      BY <1>2, <2>1, BackupEffect, NothingCopied' = NothingCopied DEF NothingCopied
    <3>2. Found(c)'
      <4> SUFFICES ASSUME pc'[c] = "found", ~Hit(c)
                   PROVE  /\ store'[req'[c].key] \in {held'[c], Absent}
                          /\ Applied(c)' \subseteq heap'[req'[c].key][held'[c]]
        BY <1>0
      <4>1. Lookup(c) \/ Write(c)
        BY <1>2, <2>1
           DEF Continue, Enter, CopyEntry, CopyEnd, CopyFails, Body, Add, OpenFails, NotFound,
               Observe, Pop, Raise, Exit, Commit, ClearTable, RestoreTable, Goto, TypeOK,
               Copying
      <4>2. CASE Lookup(c)
        <5>1. held'[c] = store[req[c].key] /\ UNCHANGED <<req, store>>
          BY <4>2 DEF Lookup, TypeOK
        <5>2. applied'[c] = 0
          BY <4>2 DEF Lookup, TypeOK, InBatch
        <5>3. Applied(c)' = {}
          BY <5>2 DEF Applied
        <5> QED
          BY <5>1, <5>3
      <4>3. CASE Write(c)
        <5>1. /\ pc[c] = "found" /\ req[c].key \in Keys /\ held[c] \in Calls
              /\ UNCHANGED <<req, store, held>> /\ applied'[c] = applied[c] + 1
          BY <4>3, RequestShape DEF Write, Change, Lookups, Writes, Active, InBody, TypeOK
        <5>2. heap'[req[c].key][held[c]] = heap[req[c].key][held[c]] \cup {Latest(c)}
          BY <4>3, <5>1 DEF Write, Change, Latest, TypeOK
        <5>3. Applied(c)' = Applied(c) \cup {Latest(c)}
          BY <5>1, AppliedGrows DEF TypeOK
        <5> QED
          BY <1>0, <5>1, <5>2, <5>3
      <4> QED
        BY <4>1, <4>2, <4>3
    <3>3. Walked(c)'
      <4> SUFFICES ASSUME pc'[c] \in Copying, ~Hit(c), NEW o \in iter'[c]
                   PROVE  store'[o[1]] \in {o[2], Absent}
        BY <1>0
      <4>1. pc[c] \in Copying
        BY <1>2, <2>1, ContinueFrame
      <4>2. store' = store /\ (iter'[c] = iter[c] \/ iter'[c] = {} \/ iter'[c] = Objects(Drafts))
        BY <1>2, <2>1, <4>1, BackupEffect
      <4>3. o \in iter[c] \/ o \in Objects(Drafts)
        BY <4>2
      <4>4. CASE o \in iter[c]
        BY <1>0, <4>1, <4>2, <4>4
      <4>5. CASE o \in Objects(Drafts)
        BY <4>2, <4>5 DEF Objects
      <4> QED
        BY <4>3, <4>4, <4>5
    <3> QED
      BY <3>1, <3>2, <3>3
  <2>2. CASE c # b
    <3>1. /\ pc'[c] = pc[c] /\ req' = req /\ backup'[c] = backup[c] /\ held'[c] = held[c]
          /\ iter'[c] = iter[c] /\ applied'[c] = applied[c]
      BY <1>2, <2>2, ContinueFrame
    <3>2. ASSUME ~Hit(c), pc[c] \in Active, NEW k \in Keys, ~Adds(b, k)
          PROVE  /\ store'[k] = store[k] \/ store'[k] = Absent
                 /\ \A m \in Calls : heap[k][m] \subseteq heap'[k][m]
      <4>1. ~Refills(b, k)
        BY <2>2, <3>2, RollbackHits DEF Refills, Refilling, RollingBack
      <4>2. \/ heap'[k] = heap[k]
            \/ heap'[k] = [heap[k] EXCEPT ![held[b]] = @ \cup {Latest(b)}]
        BY <1>2, <3>2, <4>1, KeyEffect
      <4>3. \A m \in Calls : heap[k][m] \subseteq heap'[k][m]
        <5>1. heap[k] \in [Calls -> SUBSET Changes]
          BY DEF TypeOK
        <5> HIDE DEF Latest
        <5> QED
          BY <4>2, <5>1
      <4> QED
        BY <1>2, <3>2, <4>1, <4>3, KeyEffect
    <3>3. Found(c)'
      <4> SUFFICES ASSUME pc[c] = "found", ~Hit(c)
                   PROVE  /\ store'[req[c].key] \in {held[c], Absent}
                          /\ Applied(c) \subseteq heap'[req[c].key][held[c]]
        BY <1>0, <3>1 DEF Applied
      <4>1. req[c].key \in Keys /\ held[c] \in Calls
        BY RequestShape DEF TypeOK, Active, InBody, Lookups, Writes
      <4>2. ~Adds(b, req[c].key)
        BY <1>2, <2>2, <4>1, NotAdded DEF Began
      <4>3. /\ store'[req[c].key] = store[req[c].key] \/ store'[req[c].key] = Absent
            /\ heap[req[c].key][held[c]] \subseteq heap'[req[c].key][held[c]]
        BY <3>2, <4>1, <4>2 DEF Active, InBody
      <4> QED
        BY <1>0, <4>3
    <3>4. Walked(c)'
      <4> SUFFICES ASSUME pc[c] \in Copying, ~Hit(c), NEW o \in iter[c]
                   PROVE  store'[o[1]] \in {o[2], Absent}
        BY <1>0, <3>1
      <4>1. PICK k \in Keys, m \in Calls : o = <<k, m>>
        BY DEF TypeOK
      <4>2. Seen(k)
        BY <4>1 DEF Seen
      <4>3. ~Adds(b, k)
        BY <1>2, <4>2, NotAdded
      <4>4. store'[k] = store[k] \/ store'[k] = Absent
        BY <3>2, <4>3 DEF Active
      <4> QED
        BY <1>0, <4>1, <4>4
    <3> QED
      BY <1>0, <3>1, <3>3, <3>4, NothingCopied' = NothingCopied DEF NothingCopied
  <2> QED
    BY <2>1, <2>2
<1>3. ASSUME UNCHANGED vars, NEW c \in Calls PROVE Kept(c)' /\ Found(c)' /\ Walked(c)'
  BY <1>0, <1>3 DEF vars, NothingCopied, Applied
<1> QED
  BY <1>1, <1>2, <1>3 DEF Next, Finished, ViewInv

-----------------------------------------------------------------------------
\* A call that no rollback hit, or that failed with no clash, did not overlap the
\* call that rolls back.
LEMMA Apart ==
  ASSUME OverlapInv, ~Clash, NEW b \in Calls, pc[b] \in RollingBack, NEW c \in Calls,
         ~Hit(c) \/ c \in RolledBack
  PROVE  c \notin overlap[b] /\ ~Hit(b) /\ pc[b] \in Active
<1>1. b \in RolledBack /\ ~Hit(b) /\ pc[b] \in Active
  BY DEF RolledBack, Clash, Active
<1>2. c \in overlap[b] => b \in overlap[c]
  BY DEF OverlapInv
<1> QED
  BY <1>1, <1>2 DEF Hit

\* A rollback that refills a table files every entry of it that it copied.
LEMMA RefillFiles ==
  ASSUME TypeOK, NEW b \in Calls, Continue(b), NEW k \in Keys, Refilling(b, k)
  PROVE  store'[k] # Absent
<1>1. RestoreTable(b)
  BY DEF Refilling, Continue, Enter, CopyEntry, CopyEnd, CopyFails, Body, Add, OpenFails, Lookup,
         NotFound, Write, Change, Observe, Pop, Raise, Exit, Commit, ClearTable, Copying
<1>2. k \in RestoredKeys(b)
  BY StoreAssumption DEF Refilling, RestoredKeys, Table, Keys
<1> QED
  BY <1>1, <1>2, StoreAssumption DEF RestoreTable

\* A call that has just copied a table has every entry that is filed in it.
LEMMA CopyComplete ==
  ASSUME TypeOK, ViewInv, NEW r \in Calls, Continue(r), ~Hit(r), pc[r] \in Active,
         NEW k \in Keys, HasCopied(r, k)', pc'[r] \in Active, ~HasCopied(r, k)
  PROVE  (store[k] = Absent \/ backup[r][k] # Absent) /\ pc[r] \in Copying
<1>1. pc[r] \in Copying
  BY DEF HasCopied, Active
<1>2. CopyEnd(r)
  <2>1. Enter(r)
    BY <1>1 DEF Continue, Body, Add, OpenFails, Lookup, NotFound, Write, Change, Observe, Pop, Raise,
       Exit, Commit, ClearTable, RestoreTable, Copying
  <2>2. ~CopyEntry(r)
    BY DEF CopyEntry, HasCopied
  <2>3. ~CopyFails(r)
    BY DEF CopyFails, Goto, TypeOK, Active, Copying, InBody, RollingBack
  <2> QED
    BY <2>1, <2>2, <2>3 DEF Enter
<1>3. Uncopied(r) = {}
  BY <1>1, <1>2 DEF CopyEnd, Refilled, ViewInv
<1>4. k \in Table(r)
  <2>1. \/ pc[r] = "copySessions" /\ pc'[r] = "copyDrafts"
        \/ pc[r] = "copyDrafts" /\ pc'[r] = "body"
    BY <1>2 DEF CopyEnd, Goto, TypeOK
  <2> QED
    BY <2>1 DEF HasCopied, Table, Keys, InBody, RollingBack
<1> QED
  BY <1>1, <1>3, <1>4 DEF Uncopied, Copied, Filed

-----------------------------------------------------------------------------
(***************************************************************************)
(* The effect of a call stays in the store: only a rollback of a call that *)
(* overlapped it could take it away, since any other has it in its copy.   *)
(***************************************************************************)
LEMMA ShowsStep ==
  ASSUME TypeOK, CreateKeysUnique, OverlapInv, KeyInv, ViewInv, ~Clash,
         \A e \in Calls : EffectInv(e), [Next]_vars,
         NEW c \in Calls, NEW k \in Keys, ~Hit(c)', Done(c)', req'[c].key = k
  PROVE  Shows(c, k)'
<1>0. ~Hit(c) /\ (Deleting(k) => Deleting(k)')
  BY Monotone
<1>1. CASE UNCHANGED vars
  BY <1>0, <1>1 DEF vars, EffectInv, Shows, Whole, Done, Refilling
<1>2. ASSUME NEW b \in Calls, Begin(b) PROVE Shows(c, k)'
  <2>1. /\ c # b /\ UNCHANGED <<store, heap, backup>> /\ pc[b] = "idle"
        /\ \A d \in Calls : d # b => pc'[d] = pc[d] /\ req'[d] = req[d]
    BY <1>2, BeginFrame DEF Done
  <2>2. Shows(c, k)
    BY <1>0, <2>1 DEF EffectInv, Done
  <2>3. \A r \in Calls : Refilling(r, k) => Refilling(r, k)'
    BY <2>1 DEF Refilling
  <2> QED
    BY <1>0, <2>1, <2>2, <2>3 DEF Shows, Whole
<1>3. ASSUME NEW b \in Calls, Continue(b) PROVE Shows(c, k)'
  <2>1. req' = req /\ \A d \in Calls : d # b => pc'[d] = pc[d] /\ backup'[d] = backup[d]
    BY <1>3, ContinueFrame
  <2>2. CASE c = b
    <3>1. CASE pc[c] = "exit"
      <4>1. UNCHANGED <<store, heap>>
        BY <1>3, <2>2, <3>1
           DEF Continue, Enter, CopyEntry, CopyEnd, CopyFails, Body, Add, OpenFails, Lookup,
               NotFound, Write, Change, Observe, Pop, Raise, Exit, Commit, ClearTable, RestoreTable,
               Copying
      <4>2. Shows(c, k)
        BY <1>0, <2>1, <3>1 DEF EffectInv, Done
      <4>3. \A r \in Calls : Refilling(r, k) => Refilling(r, k)'
        BY <2>1, <2>2, <3>1 DEF Refilling
      <4> QED
        BY <1>0, <2>1, <4>1, <4>2, <4>3 DEF Shows, Whole
    <3>2. CASE pc[c] # "exit"
      <4> USE DEF Goto, TypeOK
      <4>1. Add(c) \/ Write(c) \/ Observe(c) \/ Pop(c)
        BY <1>3, <2>2, <3>2
           DEF Continue, Enter, CopyEntry, CopyEnd, CopyFails, Body, OpenFails, Lookup,
               NotFound, Raise, Exit, Commit, ClearTable, RestoreTable, Copying, Done
      <4>2. CASE Add(c)
        BY <2>1, <4>2, StoreAssumption DEF Add, Shows, Whole, Creates, Writes
      <4>3. CASE Write(c)
        <5>1. /\ req[c].op \in Writes /\ store' = store /\ pc[c] = "found" /\ held[c] \in Calls
              /\ heap' = [heap EXCEPT ![k][held[c]] = @ \cup {Latest(c)}]
          BY <2>1, <4>3 DEF Write, Change, Latest
        <5>2. store[k] \in {held[c], Absent} /\ Applied(c) \subseteq heap[k][held[c]]
          BY <1>0, <2>1, <5>1 DEF ViewInv
        <5>3. applied[c] \in Nat /\ applied'[c] = applied[c] + 1 /\ applied'[c] = Size(c, req[c])
          BY <4>3 DEF Write, Change, Done
        <5>4. Applied(c) \cup {Latest(c)} = ChangesOf(c, req[c])
          BY <5>3, AppliedGrows DEF Applied, ChangesOf
        <5>5. heap'[k][held[c]] = heap[k][held[c]] \cup {Latest(c)}
          BY <5>1
        <5>6. Whole(c, heap'[k][held[c]])
          BY <5>2, <5>4, <5>5 DEF Whole
        <5> QED
          BY <2>1, <5>1, <5>2, <5>6 DEF Shows, Whole, Creates, Writes
      <4>4. CASE Pop(c)
        BY <2>1, <4>4 DEF Pop, Shows, Whole, Creates, Writes
      <4>5. CASE Observe(c)
        BY <2>1, <4>5 DEF Observe, Shows, Whole, Creates, Writes
      <4> QED
        BY <4>1, <4>2, <4>3, <4>4, <4>5
    <3> QED
      BY <3>1, <3>2
  <2>3. CASE c # b
    <3>1. Done(c) /\ req[c].key = k /\ Shows(c, k)
      BY <1>0, <2>1, <2>3 DEF Done, EffectInv
    <3>2. ASSUME store'[k] # Absent \/ Deleting(k)', req[c].op \in Creates PROVE Shows(c, k)'
      BY <2>1, <3>2 DEF Shows, Whole, Creates, Writes
    <3>3. ASSUME req[c].op \in Creates, \E r \in Calls : Refilling(r, k)
          PROVE  store'[k] # Absent \/ \E r \in Calls : Refilling(r, k)'
      <4>1. PICK r \in Calls : Refilling(r, k)
        BY <3>3
      <4>2. CASE r = b
        BY <1>3, <4>1, <4>2, RefillFiles
      <4>3. CASE r # b
        BY <2>1, <4>1, <4>3 DEF Refilling
      <4> QED
        BY <4>2, <4>3
    <3>4. ~Adds(b, k)
      BY <1>3, <2>3, <3>1, NotAdded DEF Began, Done
    <3>5. CASE store'[k] = store[k] /\ heap'[k] = heap[k]
      BY <1>0, <2>1, <3>1, <3>3, <3>5 DEF Shows, Whole
    <3>6. CASE WritesTo(b, k) /\ store'[k] = store[k]
               /\ heap'[k] = [heap[k] EXCEPT ![held[b]] = @ \cup {Latest(b)}]
      <4>1. \A m \in Calls : heap[k][m] \subseteq heap'[k][m]
        BY <3>6 DEF TypeOK
      <4>2. store[k] = Absent \/ store[k] \in Calls
        BY DEF TypeOK
      <4> QED
        BY <1>0, <2>1, <3>1, <3>3, <3>6, <4>1, <4>2 DEF Shows, Whole
    <3>7. CASE Pops(b, k) /\ store'[k] = Absent
      <4>1. Deleting(k)'
        BY <2>1, <3>7 DEF Pops, Does, Deleting, Done
      <4> QED
        BY <2>1, <3>7, <4>1 DEF Shows, Whole
    <3>8. ASSUME pc[b] \in RollingBack PROVE ShowsIn(b, c, k) /\ ~Hit(b)
      BY <1>0, <2>3, <3>1, <3>8, Apart DEF EffectInv
    <3>9. CASE Clears(b, k) /\ store'[k] = Absent
      <4>1. pc[b] \in RollingBack
        BY <3>9 DEF Clears, RollingBack
      <4>2. req[c].op \in Creates => backup[b][k] # Absent \/ Deleting(k)
        BY <3>8, <4>1 DEF ShowsIn, HasCopied
      <4>3. backup[b][k] # Absent => Refilling(b, k)'
        BY <3>9 DEF Clears, Refilling
      <4> QED
        BY <1>0, <2>1, <3>9, <4>2, <4>3 DEF Shows, Whole
    <3>10. CASE Refills(b, k) /\ store'[k] = b /\ heap'[k] = [heap[k] EXCEPT ![b] = backup[b][k]]
      <4>1. pc[b] \in RollingBack /\ backup[b][k] # Absent
        BY <3>10 DEF Refills, Refilling, RollingBack
      <4>2. /\ req[c].op \in Writes => Whole(c, backup[b][k])
            /\ req[c].op # "delete_draft"
        BY <3>8, <4>1 DEF ShowsIn
      <4>3. heap'[k][b] = backup[b][k] /\ b # Absent
        BY <3>10, StoreAssumption DEF TypeOK
      <4> QED
        BY <2>1, <3>10, <4>2, <4>3 DEF Shows, Whole
    <3>11. \/ store'[k] = store[k] /\ heap'[k] = heap[k]
           \/ WritesTo(b, k) /\ store'[k] = store[k]
                             /\ heap'[k] = [heap[k] EXCEPT ![held[b]] = @ \cup {Latest(b)}]
           \/ (Pops(b, k) \/ Clears(b, k)) /\ store'[k] = Absent
           \/ Refills(b, k) /\ store'[k] = b /\ heap'[k] = [heap[k] EXCEPT ![b] = backup[b][k]]
      <4>1. \/ store'[k] = store[k] /\ heap'[k] = heap[k]
            \/ Adds(b, k) /\ store'[k] = b /\ heap'[k] = [heap[k] EXCEPT ![b] = {}]
            \/ WritesTo(b, k) /\ store'[k] = store[k]
                              /\ heap'[k] = [heap[k] EXCEPT ![held[b]] = @ \cup {Latest(b)}]
            \/ (Pops(b, k) \/ Clears(b, k)) /\ store'[k] = Absent /\ heap'[k] = heap[k]
            \/ Refills(b, k) /\ store'[k] = b /\ heap'[k] = [heap[k] EXCEPT ![b] = backup[b][k]]
        BY <1>3, KeyEffect
      <4> QED
        BY <3>4, <4>1
    <3> QED
      BY <3>5, <3>6, <3>7, <3>9, <3>10, <3>11
  <2> QED
    BY <2>2, <2>3
<1> QED
  BY <1>1, <1>2, <1>3 DEF Next, Finished

(***************************************************************************)
(* A call that failed leaves nothing in the store: its own rollback files  *)
(* copies made before it wrote, and any other rolls back to such a copy.   *)
(***************************************************************************)
LEMMA LeavesStep ==
  ASSUME TypeOK, CreateKeysUnique, OverlapInv, KeyInv, TraceInv, TraceInv', ~Clash,
         \A e \in Calls : EffectInv(e), [Next]_vars,
         NEW c \in Calls, NEW k \in Keys
  PROVE  Leaves(c, k)'
<1>0. Leaves(c, k) /\ TypeOK'
  BY TypeStep DEF EffectInv
<1>1. CASE UNCHANGED vars
  BY <1>0, <1>1 DEF vars, Leaves, Wrote, Done, RolledBack
<1>2. ASSUME NEW b \in Calls, Begin(b) PROVE Leaves(c, k)'
  <2>1. UNCHANGED <<store, heap>> /\ pc'[b] = "copySessions"
        /\ \A d \in Calls : d # b => pc'[d] = pc[d] /\ req'[d] = req[d]
    BY <1>2, BeginFrame
  <2> QED
    BY <1>0, <2>1 DEF Leaves, Wrote, Done, RolledBack
<1>3. ASSUME NEW b \in Calls, Continue(b) PROVE Leaves(c, k)'
  <2>1. req' = req /\ \A d \in Calls : d # b => pc'[d] = pc[d]
    BY <1>3, ContinueFrame
  <2>2. \/ store'[k] = store[k] /\ heap'[k] = heap[k]
        \/ Adds(b, k) /\ store'[k] = b /\ heap'[k] = [heap[k] EXCEPT ![b] = {}]
        \/ WritesTo(b, k) /\ store'[k] = store[k]
                          /\ heap'[k] = [heap[k] EXCEPT ![held[b]] = @ \cup {Latest(b)}]
        \/ (Pops(b, k) \/ Clears(b, k)) /\ store'[k] = Absent /\ heap'[k] = heap[k]
        \/ Refills(b, k) /\ store'[k] = b /\ heap'[k] = [heap[k] EXCEPT ![b] = backup[b][k]]
    BY <1>3, KeyEffect
  <2>3. heap[k] \in [Calls -> SUBSET Changes] /\ store[k] \in Calls \cup {Absent}
        /\ store'[k] \in Calls \cup {Absent} /\ Absent \notin Calls
    BY <1>0, StoreAssumption DEF TypeOK
  <2>4. CASE c = b
    <3>1. ASSUME pc'[c] = "raised", store'[k] # Absent, Touches(c, heap'[k][store'[k]]) PROVE FALSE
      <4>1. pc[c] = "restoreDrafts"
        BY <1>3, <2>4, <3>1
           DEF Continue, Enter, CopyEntry, CopyEnd, CopyFails, Body, Add, OpenFails, Lookup,
               NotFound, Write, Change, Observe, Pop, Raise, Exit, Commit, ClearTable, RestoreTable,
               Goto, TypeOK, Copying
      <4>2. Wrote(c, k)'
        BY <2>3, <3>1 DEF TraceInv
      <4>3. Wrote(c, k)
        BY <2>1, <3>1, <4>1, <4>2 DEF Wrote, Done, RolledBack, RollingBack
      <4>4. store[k] = Absent
        BY <1>0, <4>1, <4>3 DEF Leaves
      <4>5. Refilling(c, k) /\ store'[k] = c /\ heap'[k] = [heap[k] EXCEPT ![c] = backup[c][k]]
        BY <2>2, <2>4, <3>1, <4>1, <4>4 DEF Adds, Does, WritesTo, Pops, Clears, Refills
      <4>6. heap'[k][c] = backup[c][k] /\ backup[c][k] # Absent
        BY <2>3, <4>5 DEF Refilling
      <4> QED
        BY <3>1, <4>5, <4>6 DEF TraceInv
    <3>2. ASSUME pc'[c] = "restoreDrafts", Wrote(c, k)' PROVE store'[k] = Absent
      <4>1. ClearTable(c) /\ pc[c] = "clearDrafts"
        BY <1>3, <2>4, <3>2
           DEF Continue, Enter, CopyEntry, CopyEnd, CopyFails, Body, Add, OpenFails, Lookup,
               NotFound, Write, Change, Observe, Pop, Raise, Exit, Commit, ClearTable, RestoreTable,
               Goto, TypeOK, Copying
      <4>2. req[c].op = "update_draft" /\ req[c].key = k
        BY <2>1, <3>2 DEF Wrote, Done
      <4>3. k \in Drafts
        BY <4>1, <4>2 DEF TypeOK, Active, RollingBack, Requests
      <4> QED
        BY <4>1, <4>3 DEF ClearTable, Table
    <3> QED
      BY <3>1, <3>2 DEF Leaves
  <2>5. CASE c # b
    <3>1. pc'[c] = pc[c] /\ (pc[c] = "restoreDrafts" => (Wrote(c, k)' => Wrote(c, k)))
      BY <2>1, <2>5 DEF Wrote, Done, RolledBack
    <3>2. ASSUME pc[c] = "raised" PROVE store'[k] = Absent \/ ~Touches(c, heap'[k][store'[k]])
      <4>1. store[k] = Absent \/ ~Touches(c, heap[k][store[k]])
        BY <1>0, <3>2 DEF Leaves
      <4>2. CASE Refills(b, k) /\ store'[k] = b /\ heap'[k] = [heap[k] EXCEPT ![b] = backup[b][k]]
        <5>1. pc[b] \in RollingBack /\ c \in RolledBack /\ backup[b][k] # Absent
          BY <3>2, <4>2 DEF Refills, Refilling, RollingBack, RolledBack
        <5>2. c \notin overlap[b] /\ pc[b] \in Active
          BY <5>1, Apart
        <5>3. ~Touches(c, backup[b][k])
          BY <2>5, <3>2, <5>1, <5>2 DEF EffectInv
        <5> QED
          BY <2>3, <4>2, <5>3
      <4>3. CASE WritesTo(b, k) /\ store'[k] = store[k]
                 /\ heap'[k] = [heap[k] EXCEPT ![held[b]] = @ \cup {Latest(b)}]
        <5> HIDE DEF Latest
        <5>1. \A m \in Calls : heap'[k][m] \subseteq heap[k][m] \cup {Latest(b)}
          BY <2>3, <4>3
        <5>2. ~Touches(c, {Latest(b)})
          BY <2>5 DEF Touches, Latest
        <5> QED
          BY <2>3, <4>1, <4>3, <5>1, <5>2 DEF Touches
      <4>4. CASE Adds(b, k) /\ store'[k] = b /\ heap'[k] = [heap[k] EXCEPT ![b] = {}]
        BY <2>3, <4>4 DEF Touches
      <4> QED
        BY <2>2, <4>1, <4>2, <4>3, <4>4
    <3>3. ASSUME pc[c] = "restoreDrafts", Wrote(c, k) PROVE store'[k] = Absent
      <4>1. store[k] = Absent
        BY <1>0, <3>3 DEF Leaves
      <4>2. ~Adds(b, k)
        BY <1>3, <2>5, <3>3, NotAdded DEF Began, Wrote
      <4>3. ~Refills(b, k)
        <5> SUFFICES ASSUME Refills(b, k) PROVE FALSE
          OBVIOUS
        <5>1. pc[b] \in RollingBack /\ c \in RolledBack /\ pc[c] \in Active
          BY <3>3 DEF Refills, Refilling, RollingBack, RolledBack, Active
        <5> QED
          BY <2>5, <5>1, RollbackHits DEF Clash
      <4> QED
        BY <2>2, <4>1, <4>2, <4>3
    <3> QED
      BY <3>1, <3>2, <3>3 DEF Leaves
  <2> QED
    BY <2>4, <2>5
<1> QED
  BY <1>1, <1>2, <1>3 DEF Next, Finished

(***************************************************************************)
(* The effect of a call that ended is in the copy of every call that began *)
(* after it, and a failed call leaves nothing there either.                *)
(***************************************************************************)
LEMMA CopyStep ==
  ASSUME TypeOK, OverlapInv, ViewInv, ~Clash, \A e \in Calls : EffectInv(e), [Next]_vars,
         NEW c \in Calls, NEW k \in Keys, NEW r \in Calls,
         pc'[r] \in Active, r # c, c \notin overlap'[r]
  PROVE  /\ ~Hit(c)' /\ Done(c)' /\ req'[c].key = k => ShowsIn(r, c, k)'
         /\ pc'[c] = "raised" => backup'[r][k] = Absent \/ ~Touches(c, backup'[r][k])
<1> DEFINE Ours == ~Hit(c)' /\ Done(c)' /\ req'[c].key = k
<1>0. /\ ~Hit(c)' => ~Hit(c)
      /\ ~Hit(r)' => ~Hit(r)
      /\ Deleting(k) => Deleting(k)'
  BY Monotone
<1>1. CASE UNCHANGED vars
  <2>1. pc[r] \in Active /\ c \notin overlap[r]
    BY <1>1 DEF vars
  <2>2. /\ ~Hit(c) /\ Done(c) /\ req[c].key = k => ShowsIn(r, c, k)
        /\ pc[c] = "raised" => backup[r][k] = Absent \/ ~Touches(c, backup[r][k])
    BY <2>1 DEF EffectInv
  <2> QED
    BY <1>0, <1>1, <2>2 DEF vars, ShowsIn, Whole, Touches, Done, HasCopied
<1>2. ASSUME NEW b \in Calls, Begin(b)
      PROVE  /\ Ours => ShowsIn(r, c, k)'
             /\ pc'[c] = "raised" => backup'[r][k] = Absent \/ ~Touches(c, backup'[r][k])
  <2>1. /\ backup' = backup /\ pc[b] = "idle" /\ pc'[b] = "copySessions"
        /\ \A d \in Calls : d # b => /\ pc'[d] = pc[d] /\ req'[d] = req[d]
                                     /\ overlap[d] \subseteq overlap'[d]
    BY <1>2, BeginFrame
  <2>2. CASE c = b
    BY <2>1, <2>2 DEF Done
  <2>3. CASE c # b /\ r = b
    <3>1. backup'[r][k] = Absent
      BY <2>1, <2>3 DEF ViewInv, NothingCopied, Active, Copying, InBody, RollingBack
    <3>2. ~HasCopied(r, k)'
      BY <2>1, <2>3 DEF HasCopied, InBody, RollingBack
    <3> QED
      BY <3>1, <3>2 DEF ShowsIn, Whole, Touches
  <2>4. CASE c # b /\ r # b
    <3>1. pc[r] \in Active /\ c \notin overlap[r]
      BY <2>1, <2>4
    <3>2. /\ ~Hit(c) /\ Done(c) /\ req[c].key = k => ShowsIn(r, c, k)
          /\ pc[c] = "raised" => backup[r][k] = Absent \/ ~Touches(c, backup[r][k])
      BY <3>1 DEF EffectInv
    <3> QED
      BY <1>0, <2>1, <2>4, <3>2 DEF ShowsIn, Whole, Touches, Done, HasCopied
  <2> QED
    BY <2>2, <2>3, <2>4
<1>3. ASSUME NEW b \in Calls, Continue(b)
      PROVE  /\ Ours => ShowsIn(r, c, k)'
             /\ pc'[c] = "raised" => backup'[r][k] = Absent \/ ~Touches(c, backup'[r][k])
  <2>1. /\ pc[b] \in Active /\ UNCHANGED <<req, overlap>>
        /\ \A d \in Calls : d # b => pc'[d] = pc[d] /\ backup'[d] = backup[d]
    BY <1>3, ContinueFrame
  <2>2. pc[r] \in Active /\ c \notin overlap[r] /\ c # b
    BY <2>1 DEF OverlapInv
  <2>3. /\ Ours => ~Hit(c) /\ Done(c) /\ req[c].key = k
        /\ pc'[c] = pc[c] /\ req'[c] = req[c]
    BY <1>0, <2>1, <2>2 DEF Done
  <2>4. /\ Ours => ShowsIn(r, c, k) /\ Shows(c, k)
        /\ pc[c] = "raised" => /\ backup[r][k] = Absent \/ ~Touches(c, backup[r][k])
                               /\ store[k] = Absent \/ ~Touches(c, heap[k][store[k]])
    BY <2>2, <2>3 DEF EffectInv, Leaves
  <2>5. CASE r # b
    BY <1>0, <2>1, <2>3, <2>4, <2>5 DEF ShowsIn, Whole, Touches, HasCopied
  <2>6. CASE r = b /\ backup'[r][k] = backup[r][k]
    <3>1. ASSUME Ours, req[c].op \in Creates, ~Hit(r), HasCopied(r, k)', ~HasCopied(r, k)
          PROVE  backup[r][k] # Absent \/ Deleting(k)
      <4>1. (store[k] = Absent \/ backup[r][k] # Absent) /\ pc[r] \in Copying
        BY <1>3, <2>2, <2>6, <3>1, CopyComplete
      <4>2. ASSUME NEW d \in Calls, Refilling(d, k) PROVE FALSE
        <5>1. pc[d] \in RollingBack /\ d # r
          BY <4>1, <4>2 DEF Refilling, RollingBack, Copying
        <5> QED
          BY <2>2, <3>1, <5>1, RollbackHits
      <4> QED
        BY <2>4, <3>1, <4>1, <4>2 DEF Shows
    <3> QED
      BY <1>0, <2>3, <2>4, <2>6, <3>1 DEF ShowsIn, Whole, Touches
  <2>7. CASE r = b /\ Copies(r, k) /\ backup'[r][k] = heap[k][store[k]]
    <3>1. store[k] # Absent /\ backup'[r][k] # Absent
      BY <2>7, StoreAssumption DEF Copies, TypeOK
    <3> QED
      BY <2>3, <2>4, <2>7, <3>1 DEF ShowsIn, Whole, Touches, Shows
  <2>8. CASE r = b /\ pc'[r] \in Ended
    BY <2>8 DEF Active, Copying, InBody, RollingBack, Ended
  <2> QED
    BY <1>3, <2>5, <2>6, <2>7, <2>8, BackupEffect
<1> QED
  BY <1>1, <1>2, <1>3 DEF Next, Finished

LEMMA ConcurrentStep ==
  ASSUME TypeOK, CreateKeysUnique, ConcurrentInv, [Next]_vars PROVE ConcurrentInv'
<1>1. OverlapInv' /\ KeyInv' /\ TraceInv' /\ ViewInv'
  BY OverlapStep, KeyStep, TraceStep, ViewStep DEF ConcurrentInv
<1>2. ASSUME ~Clash', NEW c \in Calls PROVE EffectInv(c)'
  <2>1. OverlapInv /\ KeyInv /\ TraceInv /\ ViewInv
    BY DEF ConcurrentInv
  <2>2. ~Clash
    BY <1>2, <2>1, Monotone
  <2>3. \A e \in Calls : EffectInv(e)
    BY <2>2 DEF ConcurrentInv
  <2>4. ASSUME NEW k \in Keys
        PROVE  /\ ~Hit(c)' /\ Done(c)' /\ req'[c].key = k => Shows(c, k)'
               /\ Leaves(c, k)'
    <3>1. Leaves(c, k)'
      BY <1>1, <2>1, <2>2, <2>3, LeavesStep
    <3>2. ASSUME ~Hit(c)', Done(c)', req'[c].key = k PROVE Shows(c, k)'
      BY <2>1, <2>2, <2>3, <3>2, ShowsStep
    <3> QED
      BY <3>1, <3>2
  <2>5. ASSUME NEW k \in Keys, NEW r \in Calls, pc'[r] \in Active, r # c, c \notin overlap'[r]
        PROVE  /\ ~Hit(c)' /\ Done(c)' /\ req'[c].key = k => ShowsIn(r, c, k)'
               /\ pc'[c] = "raised" => backup'[r][k] = Absent \/ ~Touches(c, backup'[r][k])
    BY <2>1, <2>2, <2>3, <2>5, CopyStep
  <2> QED
    BY <2>4, <2>5 DEF EffectInv
<1> QED
  BY <1>1, <1>2 DEF ConcurrentInv

(***************************************************************************)
(* With no call under way, a call no rollback hit shows in the store and   *)
(* a failed one does not, unless two rollbacks met.                        *)
(***************************************************************************)
LEMMA ConcurrentIsExplained ==
  ASSUME TypeOK, CreateKeysUnique, ConcurrentInv PROVE ExplainedLoss
<1> SUFFICES ASSUME Quiet, NEW c \in Calls, Contradicted(c), ~Hit(c), ~Clash PROVE FALSE
  BY DEF ExplainedLoss, Hit, Clash
<1>1. EffectInv(c) /\ KeyInv /\ TraceInv
  BY DEF ConcurrentInv
<1>2. \A d \in Calls : pc[d] \notin Active
  BY DEF Quiet, ActiveCalls
<1>3. \A d \in Calls, k \in Keys : ~Refilling(d, k)
  BY <1>2 DEF Refilling, Active, RollingBack
<1>4. \A k \in Keys : Deleting(k) => Deleted(k)
  BY <1>2 DEF Deleting, Deleted, Returned, Done, Active, InBody
<1>5. ASSUME pc[c] = "returned", req[c].op \in Creates \cup Writes \cup {"delete_draft"}
      PROVE  req[c].key \in Keys /\ Shows(c, req[c].key)
  <2>1. req[c].key \in Keys
    BY <1>5, NamesKey DEF Ended
  <2> QED
    BY <1>1, <1>5, <2>1 DEF EffectInv, Done
<1>6. ~CreateLost(c)
  BY <1>3, <1>4, <1>5 DEF CreateLost, Returned, Shows
<1>7. ~DeleteUndone(c)
  BY <1>5 DEF DeleteUndone, Returned, Shows
<1>8. ~WriteLost(c)
  BY <1>5 DEF WriteLost, Returned, Shows, Whole, Contents
<1>9. ~FailureShows(c)
  <2> SUFFICES ASSUME FailureShows(c) PROVE FALSE
    OBVIOUS
  <2>1. pc[c] \in {"raised", "refused"}
    BY DEF FailureShows
  <2>2. CASE req[c].op \in Creates /\ store[req[c].key] # Absent
    <3>1. req[c].key \in Keys
      BY <2>1, <2>2, NamesKey DEF Ended
    <3>2. PICK o \in Calls : Done(o) /\ req[o].op \in Creates /\ req[o].key = req[c].key
      BY <1>1, <2>2, <3>1 DEF KeyInv, Seen, Given
    <3> QED
      BY <2>1, <2>2, <3>2 DEF CreateKeysUnique, Done
  <2>3. ASSUME NEW k \in Keys, store[k] # Absent, Touches(c, Contents[k]) PROVE FALSE
    <3>1. store[k] \in Calls /\ Touches(c, heap[k][store[k]])
      BY <2>3 DEF Contents, TypeOK
    <3>2. Wrote(c, k)
      BY <1>1, <3>1 DEF TraceInv
    <3>3. pc[c] = "raised"
      BY <2>1, <3>2 DEF Wrote, Done, RolledBack, RollingBack
    <3> QED
      BY <1>1, <2>3, <3>1, <3>3 DEF EffectInv, Leaves
  <2> QED
    BY <2>2, <2>3 DEF FailureShows, Touches
<1> QED
  BY <1>6, <1>7, <1>8, <1>9 DEF Contradicted

(***************************************************************************)
(* A listing that is about to read the store: a session whose open no      *)
(* rollback hit is filed, unless a rollback is refilling the store under   *)
(* the listing, and that one hits it.                                      *)
(***************************************************************************)
LEMMA ConcurrentIsListed ==
  ASSUME TypeOK, CreateKeysUnique, ConcurrentInv PROVE ListingExplained
<1> SUFFICES ASSUME NEW c \in Calls, NEW o \in Calls, pc[c] = "body",
                    Returned(o, {"open_interactive_session"}), CreateLost(o),
                    ~Hit(o), ~Hit(c), ~Clash
             PROVE  FALSE
  BY DEF ListingExplained, Hit, Clash
<1> DEFINE k == req[o].key
<1>1. pc[o] = "returned" /\ req[o].op = "open_interactive_session"
  BY DEF Returned
<1>2. k \in Sessions /\ k \in Keys /\ store[k] = Absent
  BY <1>1, RequestShape DEF CreateLost, TypeOK, NoRequest, Keys
<1>3. Deleting(k) \/ \E r \in Calls : Refilling(r, k)
  BY <1>1, <1>2 DEF ConcurrentInv, EffectInv, Shows, Done, Creates
<1>4. ~Deleting(k)
  <2> SUFFICES ASSUME NEW d \in Calls, Done(d), req[d].op = "delete_draft", req[d].key = k
               PROVE  FALSE
    BY DEF Deleting
  <2>1. req[d] \in Requests
    BY DEF TypeOK, NoRequest
  <2>2. req[d].key \in Drafts
    BY <2>1 DEF Requests
  <2> QED
    BY <1>2, <2>2, StoreAssumption
<1>5. PICK r \in Calls : Refilling(r, k)
  BY <1>3, <1>4
<1>6. pc[r] \in RollingBack /\ pc[c] \in Active /\ r # c
  BY <1>2, <1>5 DEF Refilling, RollingBack, Active, InBody
<1> QED
  BY <1>6, RollbackHits DEF ConcurrentInv

(***************************************************************************)
(* The invariant of concurrent calls holds from the first state on.        *)
(***************************************************************************)
LEMMA ConcurrentAlways == Spec => [](TypeOK /\ CreateKeysUnique /\ ConcurrentInv)
<1>1. Init => ConcurrentInv
  <2> SUFFICES ASSUME Init PROVE ConcurrentInv
    OBVIOUS
  <2> USE DEF Init
  <2>1. OverlapInv
    BY DEF OverlapInv, Active, Copying, InBody, RollingBack
  <2>2. KeyInv
    BY DEF KeyInv, Seen, NothingCopied, Copying
  <2>3. TraceInv
    BY DEF TraceInv, Touches, NothingCopied
  <2>4. ViewInv
    BY DEF ViewInv, Copying
  <2>5. \A c \in Calls : EffectInv(c)
    BY DEF EffectInv, Done, Leaves, Active, Copying, InBody, RollingBack
  <2> QED
    BY <2>1, <2>2, <2>3, <2>4, <2>5 DEF ConcurrentInv
<1>2. TypeOK /\ CreateKeysUnique /\ ConcurrentInv /\ [Next]_vars => ConcurrentInv'
  BY ConcurrentStep
<1> QED
  BY <1>1, <1>2, KeysUnique, PTL DEF Spec

(***************************************************************************)
(* However calls interleave, a call's answer and the store disagree only   *)
(* if a rollback overlapped the call or two rollbacks overlapped each      *)
(* other: every loss there can be is the loss of a missing lock.           *)
(***************************************************************************)
THEOREM LossIsExplained == Spec => []ExplainedLoss
<1>1. TypeOK /\ CreateKeysUnique /\ ConcurrentInv => ExplainedLoss
  BY ConcurrentIsExplained
<1> QED
  BY <1>1, ConcurrentAlways, PTL

(***************************************************************************)
(* However calls interleave, list_interactive_sessions misses a session    *)
(* whose open returned only if a rollback overlapped the open or the       *)
(* listing, or two rollbacks overlapped each other.                        *)
(***************************************************************************)
THEOREM ListingIsExplained == Spec => []ListingExplained
<1>1. TypeOK /\ CreateKeysUnique /\ ConcurrentInv => ListingExplained
  BY ConcurrentIsListed
<1> QED
  BY <1>1, ConcurrentAlways, PTL

-----------------------------------------------------------------------------
(***************************************************************************)
(* What a call has copied is a finite part of the keys.                    *)
(***************************************************************************)
LEMMA CopiedSize ==
  ASSUME NEW c \in Calls
  PROVE  /\ Cardinality(Keys) \in Nat /\ IsFiniteSet(Copied(c))
         /\ Cardinality(Copied(c)) \in 0..Cardinality(Keys)
<1>1. Copied(c) \subseteq Keys
  BY DEF Copied, Table, Keys
<1> QED
  BY <1>1, StoreAssumption, FS_Subset, FS_CardinalityType

(***************************************************************************)
(* A step to a later place outweighs whatever was copied at the earlier.   *)
(***************************************************************************)
LEMMA LaterIsLess ==
  ASSUME NEW a \in 0..10, NEW b \in 0..10, a < b, NEW n \in Nat,
         NEW x \in 0..n, NEW y \in 0..n, b = 10 => y = 0
  PROVE  /\ 0 <= (10 - b) * (n + 1) - y
         /\ (10 - b) * (n + 1) - y < (10 - a) * (n + 1) - x
<1>1. \A m \in Nat : m * (n + 1) \in Nat /\ (m + 1) * (n + 1) = m * (n + 1) + (n + 1)
  OBVIOUS
<1>2. (10 - a) * (n + 1) >= (10 - b) * (n + 1) + (n + 1)
  <2>1. b - a - 1 \in Nat /\ 10 - b \in Nat
    OBVIOUS
  <2>2. (10 - a) * (n + 1) = (10 - b) * (n + 1) + (b - a - 1) * (n + 1) + (n + 1)
    OBVIOUS
  <2> QED
    BY <1>1, <2>1, <2>2
<1>3. b # 10 => (10 - b) * (n + 1) >= n + 1
  <2>1. b # 10 => 9 - b \in Nat /\ (10 - b) * (n + 1) = (9 - b) * (n + 1) + (n + 1)
    OBVIOUS
  <2> QED
    BY <1>1, <2>1
<1>4. (10 - b) * (n + 1) \in Nat /\ (10 - a) * (n + 1) \in Nat
  BY <1>1
<1> QED
  BY <1>2, <1>3, <1>4

(***************************************************************************)
(* A step of a call copies one entry more, makes one change more or takes  *)
(* the call to a later place, and a call that ends drops its copy.         *)
(***************************************************************************)
LEMMA Forward ==
  ASSUME TypeOK, NEW c \in Calls, Begin(c) \/ Continue(c), ~CopyEntry(c),
         ~(Write(c) /\ pc'[c] = "found")
  PROVE  /\ Stage(c) \in 0..10 /\ Stage(c)' \in 0..10 /\ Stage(c) < Stage(c)'
         /\ Stage(c)' = 10 => backup'[c] = NothingCopied
         /\ applied'[c] \in {applied[c], applied[c] + 1}
<1> USE DEF Stage, Goto, TypeOK
<1>1. CASE Begin(c)
  BY <1>1 DEF Begin
<1>2. CASE CopyEnd(c) \/ CopyFails(c)
  BY <1>2 DEF CopyEnd, CopyFails, Copying
<1>3. CASE Add(c) \/ OpenFails(c) \/ Lookup(c) \/ NotFound(c)
  BY <1>3 DEF Add, OpenFails, Lookup, NotFound
<1>4. CASE Write(c) \/ Observe(c) \/ Pop(c) \/ Raise(c)
  BY <1>4 DEF Write, Change, Observe, Pop, Raise
<1>5. CASE Commit(c) \/ ClearTable(c) \/ RestoreTable(c)
  BY <1>5 DEF Commit, ClearTable, RestoreTable
<1> QED
  BY <1>1, <1>2, <1>3, <1>4, <1>5 DEF Continue, Enter, Body, Exit

LEMMA StepNearer ==
  ASSUME TypeOK, TypeOK', NEW c \in Calls, Begin(c) \/ Continue(c)
  PROVE  0 <= Remaining(c)' /\ Remaining(c)' < Remaining(c)
<1>0. /\ Batch[c] \in Nat /\ applied[c] \in 0..Batch[c] /\ applied'[c] \in 0..Batch[c]
  BY ChangesShape DEF TypeOK, InBatch
<1>1. /\ Cardinality(Keys) \in Nat
      /\ Cardinality(Copied(c)) \in 0..Cardinality(Keys)
      /\ Cardinality(Copied(c)') \in 0..Cardinality(Keys)
  <2>1. Copied(c)' \subseteq Keys
    BY DEF Copied, Table, Keys
  <2> QED
    BY <2>1, CopiedSize, StoreAssumption, FS_Subset, FS_CardinalityType
<1>2. CASE CopyEntry(c)
  <2>1. PICK k \in Uncopied(c) : backup' = [backup EXCEPT ![c][k] = heap[k][store[k]]]
    BY <1>2 DEF CopyEntry
  <2>2. /\ k \in Table(c) /\ k \in Keys /\ k \notin Copied(c) /\ store[k] \in Calls
        /\ heap[k][store[k]] \in SUBSET Changes
    BY DEF Uncopied, Filed, Table, Keys, TypeOK
  <2>3. heap[k][store[k]] # Absent
    BY <2>2, StoreAssumption
  <2>4. UNCHANGED pc /\ Table(c)' = Table(c) /\ Stage(c)' = Stage(c)
    BY <1>2 DEF CopyEntry, Table, Stage
  <2>5. \A j \in Keys : backup'[c][j] = IF j = k THEN heap[k][store[k]] ELSE backup[c][j]
    BY <2>1 DEF TypeOK
  <2>6. Copied(c)' = Copied(c) \cup {k}
    BY <2>2, <2>3, <2>4, <2>5 DEF Copied, Table, Keys
  <2>7. Cardinality(Copied(c)') = Cardinality(Copied(c)) + 1
    BY <2>2, <2>6, CopiedSize, FS_AddElement
  <2>8. Stage(c) \in 0..2
    BY <1>2 DEF CopyEntry, Copying, Stage
  <2> DEFINE n == Cardinality(Keys) + 1
             w == (10 - Stage(c)) * n
  <2>9. w \in Int /\ w >= n
    <3> HIDE DEF n
    <3>1. n \in Nat
      BY <1>1 DEF n
    <3>2. \A s \in 0..2 : (10 - s) * n \in Int /\ (10 - s) * n >= n
      BY <3>1
    <3> QED
      BY <2>8, <3>2
  <2>10. /\ Remaining(c) = w - Cardinality(Copied(c)) + (Batch[c] - applied[c])
         /\ Remaining(c)' = w - Cardinality(Copied(c)') + (Batch[c] - applied[c])
    BY <1>2, <2>4 DEF Remaining, CopyEntry
  <2> HIDE DEF w
  <2> QED
    BY <1>0, <1>1, <2>7, <2>9, <2>10
<1>3. CASE Write(c) /\ pc'[c] = "found"
  <2>1. /\ pc[c] = "found" /\ backup' = backup /\ applied'[c] = applied[c] + 1
    BY <1>3 DEF Write, Change, TypeOK
  <2>2. Table(c)' = Table(c) /\ Stage(c) = 4 /\ Stage(c)' = 4
    BY <1>3, <2>1 DEF Table, Stage
  <2>3. Copied(c)' = Copied(c)
    BY <2>1, <2>2 DEF Copied
  <2>4. /\ Remaining(c) = 6 * (Cardinality(Keys) + 1) - Cardinality(Copied(c))
                             + (Batch[c] - applied[c])
        /\ Remaining(c)' = 6 * (Cardinality(Keys) + 1) - Cardinality(Copied(c))
                              + (Batch[c] - applied'[c])
    BY <2>2, <2>3 DEF Remaining
  <2> QED
    BY <1>0, <1>1, <2>1, <2>4
<1>4. CASE ~CopyEntry(c) /\ ~(Write(c) /\ pc'[c] = "found")
  <2>1. /\ Stage(c) \in 0..10 /\ Stage(c)' \in 0..10 /\ Stage(c) < Stage(c)'
        /\ Stage(c)' = 10 => backup'[c] = NothingCopied
        /\ applied'[c] \in {applied[c], applied[c] + 1}
    BY <1>4, Forward
  <2>2. Stage(c)' = 10 => Copied(c)' = {}
    BY <2>1 DEF Copied, Table, NothingCopied, Keys
  <2>3. Stage(c)' = 10 => Cardinality(Copied(c)') = 0
    BY <2>2, FS_EmptySet
  <2> DEFINE before == (10 - Stage(c)) * (Cardinality(Keys) + 1) - Cardinality(Copied(c))
             after  == (10 - Stage(c)') * (Cardinality(Keys) + 1) - Cardinality(Copied(c)')
  <2>4. 0 <= after /\ after < before
    BY <1>1, <2>1, <2>3, LaterIsLess
  <2>5. before \in Int /\ after \in Int
    BY <1>1, <2>1
  <2>6. /\ Remaining(c) = before + (Batch[c] - applied[c])
        /\ Remaining(c)' = after + (Batch[c] - applied'[c])
    BY DEF Remaining
  <2> HIDE DEF before, after
  <2> QED
    BY <1>0, <2>1, <2>4, <2>5, <2>6
<1> QED
  BY <1>2, <1>3, <1>4

(***************************************************************************)
(* However calls interleave, every step brings one call nearer to its end  *)
(* and no call further from it.                                            *)
(***************************************************************************)
THEOREM NothingIsRetried == Spec => StepsAdvance
<1> DEFINE Advance == \E c \in Calls : /\ 0 <= Remaining(c)' /\ Remaining(c)' < Remaining(c)
                                       /\ \A d \in Calls \ {c} : Remaining(d)' = Remaining(d)
<1>1. TypeOK /\ [Next]_vars => [Advance]_vars
  <2> SUFFICES ASSUME TypeOK, TypeOK', NEW c \in Calls, Begin(c) \/ Continue(c) PROVE Advance
    BY TypeStep DEF Next, Finished
  <2>1. \A d \in Calls \ {c} : pc'[d] = pc[d] /\ backup'[d] = backup[d] /\ applied'[d] = applied[d]
    BY BeginFrame, ContinueFrame
  <2>2. \A d \in Calls \ {c} : Remaining(d)' = Remaining(d)
    BY <2>1 DEF Remaining, Stage, Copied, Table
  <2> QED
    BY <2>2, StepNearer
<1> QED
  BY <1>1, UnitOfWorkTypeOK, PTL DEF Spec, StepsAdvance

-----------------------------------------------------------------------------
(***************************************************************************)
(* A call that found an entry found one that was created, and, while no    *)
(* call has rolled back, every call that deletes that entry overlaps it.   *)
(***************************************************************************)
FoundInv(c) == pc[c] = "found" =>
    /\ Given(req[c].key)
    /\ RolledBack = {} => \A d \in Calls :
           Done(d) /\ req[d].op = "delete_draft" /\ req[d].key = req[c].key => d \in overlap[c]

\* While no call has rolled back, what is created is filed or being deleted, and what
\* is deleted is not filed.
LEMMA NoRollback ==
  ASSUME TypeOK, ConcurrentInv, RolledBack = {}, NEW k \in Keys
  PROVE  /\ Given(k) => store[k] # Absent \/ Deleting(k)
         /\ Deleting(k) => store[k] = Absent
         /\ \A c \in Calls : ~Hit(c)
<1>1. ~Clash /\ \A c \in Calls : ~Hit(c)
  BY DEF Clash, Hit
<1>2. \A c \in Calls : Done(c) /\ req[c].key = k => Shows(c, k)
  BY <1>1 DEF ConcurrentInv, EffectInv
<1>3. \A r \in Calls : ~Refilling(r, k)
  BY DEF Refilling, RolledBack, RollingBack
<1>4. Given(k) => store[k] # Absent \/ Deleting(k)
  BY <1>2, <1>3 DEF Given, Shows
<1>5. Deleting(k) => store[k] = Absent
  BY <1>2 DEF Deleting, Shows
<1> QED
  BY <1>1, <1>4, <1>5

LEMMA FoundKey ==
  ASSUME TypeOK, NEW c \in Calls, pc[c] = "found"
  PROVE  req[c] \in Requests /\ req[c].key \in Keys /\ req[c].op \in Lookups /\ held[c] \in Calls
BY RequestShape DEF TypeOK, Active, InBody, Lookups, Writes

LEMMA FoundStep ==
  ASSUME TypeOK, CreateKeysUnique, ConcurrentInv, \A c \in Calls : FoundInv(c), [Next]_vars
  PROVE  \A c \in Calls : FoundInv(c)'
<1>1. OverlapInv
  BY DEF ConcurrentInv
<1>2. RolledBack' = {} => RolledBack = {}
  BY <1>1, Monotone
<1>3. ASSUME NEW c \in Calls, Continue(c), pc[c] # "found", pc'[c] = "found" PROVE FoundInv(c)'
  <2>1. pc[c] = "body" /\ req[c].op \in Lookups /\ UNCHANGED <<req, store>> /\ store[req[c].key] # Absent
    BY <1>3 DEF Continue, Enter, Body, Exit, CopyEntry, CopyEnd, CopyFails, Add, OpenFails,
       Lookup, NotFound, Write, Change, Observe, Pop, Raise, Commit, ClearTable, RestoreTable, Goto,
       TypeOK, Copying
  <2>2. req[c] \in Requests /\ req[c].key \in Keys
    BY <2>1, RequestShape DEF TypeOK, Active, InBody, Lookups, Writes
  <2>3. Given(req[c].key)
    BY <2>1, <2>2 DEF ConcurrentInv, KeyInv, Seen
  <2>4. Given(req[c].key)'
    <3> DEFINE k == req[c].key
    <3>1. req'[c].key = k
      BY <2>1
    <3>2. \A j \in Keys : Given(j) => Given(j)'
      BY <1>1, Monotone
    <3>3. PICK j \in Keys : j = req[c].key
      BY <2>2
    <3>4. Given(j)'
      BY <2>3, <3>2, <3>3
    <3>5. req'[c].key = j
      BY <2>1, <3>3
    <3> QED
      BY <3>4, <3>5 DEF Given
  <2>5. ASSUME RolledBack' = {}, NEW d \in Calls, Done(d)', req'[d].op = "delete_draft",
               req'[d].key = req'[c].key
        PROVE  FALSE
    <3>1. d # c /\ Done(d) /\ req'[d] = req[d]
      BY <1>3, <2>1, <2>5, ContinueFrame DEF Done
    <3>2. Deleting(req[c].key)
      BY <2>1, <2>5, <3>1 DEF Deleting
    <3> QED
      BY <1>2, <2>1, <2>2, <2>5, <3>2, NoRollback
  <2> QED
    BY <2>4, <2>5 DEF FoundInv
<1>4. ASSUME NEW b \in Calls, Begin(b) \/ Continue(b), NEW c \in Calls, pc[c] = "found",
             pc'[c] = "found"
      PROVE  FoundInv(c)'
  <2>1. pc[c] = "found" /\ req'[c] = req[c] /\ (Begin(b) => c # b)
    BY <1>4, BeginFrame, ContinueFrame
  <2>2. req[c].key \in Keys
    BY <2>1, FoundKey
  <2>3. Given(req[c].key)'
    <3>1. PICK j \in Keys : j = req[c].key
      BY <2>2
    <3>2. Given(j)'
      BY <1>1, <2>1, <3>1, Monotone DEF FoundInv
    <3>3. req'[c].key = j
      BY <2>1, <3>1
    <3> QED
      BY <3>2, <3>3 DEF Given
  <2>4. ASSUME RolledBack' = {}, NEW d \in Calls, Done(d)', req'[d].op = "delete_draft",
               req'[d].key = req'[c].key
        PROVE  d \in overlap'[c]
    <3>1. CASE Begin(b)
      <4>1. d # b /\ Done(d) /\ req'[d] = req[d]
        BY <2>4, <3>1, BeginFrame DEF Done
      <4>2. d \in overlap[c]
        BY <1>2, <2>1, <2>4, <4>1 DEF FoundInv
      <4> QED
        BY <2>1, <3>1, <4>2, BeginFrame
    <3>2. CASE Continue(b)
      <4>1. UNCHANGED <<req, overlap>> /\ pc[b] \in Active /\ \A e \in Calls : e # b => pc'[e] = pc[e]
        BY <3>2, ContinueFrame
      <4>2. CASE d = b
        BY <1>1, <1>4, <2>1, <2>4, <4>1, <4>2 DEF OverlapInv, Active, InBody, Done
      <4>3. CASE d # b
        <5>1. Done(d)
          BY <2>4, <4>1, <4>3 DEF Done
        <5> QED
          BY <1>2, <2>1, <2>4, <4>1, <5>1 DEF FoundInv
      <4> QED
        BY <4>2, <4>3
    <3> QED
      BY <1>4, <3>1, <3>2
  <2> QED
    BY <2>3, <2>4 DEF FoundInv
<1>5. ASSUME NEW c \in Calls, Begin(c) PROVE pc'[c] # "found"
  BY <1>5, BeginFrame
<1>6. CASE UNCHANGED vars
  BY <1>6 DEF vars, FoundInv, Given, Done, RolledBack
<1>7. \A c \in Calls : pc'[c] # "found" => FoundInv(c)'
  BY DEF FoundInv
<1>8. ASSUME NEW b \in Calls, Begin(b) \/ Continue(b), NEW c \in Calls PROVE FoundInv(c)'
  <2>1. c # b => pc'[c] = pc[c]
    BY <1>8, BeginFrame, ContinueFrame
  <2> QED
    BY <1>3, <1>4, <1>5, <1>7, <1>8, <2>1
<1> QED
  BY <1>6, <1>8 DEF Next, Finished

(***************************************************************************)
(* The body of a call ends: its effect is reported in one step.            *)
(***************************************************************************)
LEMMA BodyEnds ==
  ASSUME TypeOK, NEW c \in Calls, pc[c] \in {"body", "found"},
         pc' = [pc EXCEPT ![c] = "exit"], req' = req
  PROVE  /\ Effects!End(c, req[c], "returned")
         /\ req[c] \in Requests /\ req[c] \in Effects!Requests
<1>1. Effect[c] = Effects!Pending
  BY DEF Effect, BodyEnded, Effects!Pending, Effects!NoRequest, NoRequest
<1>2. Effect' = [Effect EXCEPT ![c] = [req |-> req[c], end |-> "returned"]]
  BY DEF Effect, BodyEnded, TypeOK
<1>3. req[c] \in Requests
  BY DEF TypeOK, Active, InBody
<1>4. req[c] \in Effects!Requests
  BY <1>3 DEF Requests, Effects!Requests
<1> QED
  BY <1>1, <1>2, <1>3, <1>4 DEF Effects!End

\* A lookup whose draft is gone when the body ends was overtaken by the delete.
LEMMA GoneIsOvertaken ==
  ASSUME TypeOK, ConcurrentInv, NEW c \in Calls, FoundInv(c), pc[c] = "found",
         RolledBack = {}, store[req[c].key] = Absent,
         pc' = [pc EXCEPT ![c] = "exit"], req' = req, UNCHANGED Visible
  PROVE  Overtaken(c)
<1>1. req[c].key \in Keys
  BY FoundKey
<1>2. Deleting(req[c].key)
  BY <1>1, NoRollback DEF FoundInv
<1>3. PICK d \in Calls : Done(d) /\ req[d].op = "delete_draft" /\ req[d].key = req[c].key
  BY <1>2 DEF Deleting
<1>4. d \in overlap[c]
  BY <1>3 DEF FoundInv
<1> QED
  BY <1>3, <1>4, BodyEnds DEF Overtaken, Done, BodyEnded

\* What is visible under a key is a set of changes when the key is filed.
LEMMA VisibleShape ==
  ASSUME TypeOK, NEW k \in Keys, store[k] # Absent
  PROVE  /\ store[k] \in Calls /\ Visible[k] # Absent
         /\ Visible[k] = {x \in heap[k][store[k]] : BodyEnded(x[1])}
         /\ \A x \in heap[k][store[k]] : x[1] \in Calls
<1>1. store[k] \in Calls /\ heap[k][store[k]] \in SUBSET Changes
  BY DEF TypeOK
<1>2. Visible[k] = {x \in heap[k][store[k]] : BodyEnded(x[1])}
  BY DEF Visible
<1>3. Visible[k] \in SUBSET Changes
  BY <1>1, <1>2
<1> QED
  BY <1>1, <1>2, <1>3, ChangesShape, StoreAssumption

\* A call that has not begun to change its object has made no change.
LEMMA Untouched ==
  ASSUME TypeOK, TraceInv, NEW c \in Calls, ~Done(c), RolledBack = {},
         pc[c] # "found" \/ req[c].op # "update_draft",
         NEW k \in Keys, NEW m \in Calls
  PROVE  \A x \in heap[k][m] : x[1] # c
BY DEF TraceInv, Touches, Wrote

\* A call whose body ends without a change of its own makes none visible.
LEMMA NothingShown ==
  ASSUME TypeOK, TraceInv, NEW c \in Calls, ~Done(c), RolledBack = {},
         pc[c] # "found" \/ req[c].op # "update_draft",
         pc' = [pc EXCEPT ![c] = "exit"],
         NEW k \in Keys, store'[k] = store[k], heap'[k] = heap[k]
  PROVE  Visible'[k] = Visible[k]
<1>1. CASE store[k] = Absent
  BY <1>1 DEF Visible
<1>2. CASE store[k] # Absent
  <2>1. \A x \in heap[k][store[k]] : x[1] \in Calls /\ x[1] # c
    BY <1>2, VisibleShape, Untouched
  <2>2. \A x \in heap[k][store[k]] : BodyEnded(x[1])' <=> BodyEnded(x[1])
    BY <2>1 DEF BodyEnded, TypeOK
  <2> QED
    BY <1>2, <2>2 DEF Visible
<1> QED
  BY <1>1, <1>2

\* The last change of a batch makes all of it visible, in the entry it belongs to
\* and nowhere else; an earlier change makes nothing visible.
LEMMA BatchShown ==
  ASSUME TypeOK, ConcurrentInv, NEW c \in Calls, Write(c), RolledBack = {},
         NEW k \in Keys
  PROVE  /\ pc'[c] = "found" => Visible'[k] = Visible[k]
         /\ pc'[c] = "exit" =>
              Visible'[k] = IF k = req[c].key /\ store[k] = held[c]
                            THEN Visible[k] \cup ChangesOf(c, req[c]) ELSE Visible[k]
<1>1. /\ pc[c] = "found" /\ req[c].op \in Writes /\ UNCHANGED <<req, store>>
      /\ heap' = [heap EXCEPT ![req[c].key][held[c]] = @ \cup {Latest(c)}]
      /\ pc' = [pc EXCEPT ![c] = IF applied[c] + 1 = Size(c, req[c]) THEN "exit" ELSE "found"]
  BY DEF Write, Change, Goto, Latest
<1>2. req[c].key \in Keys /\ held[c] \in Calls /\ ~Done(c)
  BY <1>1, FoundKey DEF Done
<1>3. ~Hit(c) /\ Applied(c) \subseteq heap[req[c].key][held[c]]
  BY <1>1 DEF ConcurrentInv, ViewInv, Hit
<1>4. CASE store[k] = Absent
  BY <1>1, <1>2, <1>4, StoreAssumption DEF Visible
<1>5. CASE store[k] # Absent
  <2> DEFINE content == heap[k][store[k]]
  <2>1. /\ store[k] \in Calls /\ \A x \in content : x[1] \in Calls
        /\ Visible[k] = {x \in content : BodyEnded(x[1])}
        /\ Visible'[k] = {x \in heap'[k][store[k]] : BodyEnded(x[1])'}
    BY <1>1, <1>5, VisibleShape DEF Visible
  <2>2. \A d \in Calls : BodyEnded(d)' <=> BodyEnded(d) \/ (d = c /\ pc'[c] = "exit")
    BY <1>1 DEF BodyEnded, TypeOK
  <2>3. ~BodyEnded(c) /\ Latest(c)[1] = c
    BY <1>1 DEF BodyEnded, Latest
  <2>4. CASE k = req[c].key /\ store[k] = held[c]
    <3>1. heap'[k][store[k]] = content \cup {Latest(c)}
      BY <1>1, <1>2, <2>4 DEF TypeOK
    <3>2. pc'[c] = "exit" => ChangesOf(c, req[c]) = Applied(c) \cup {Latest(c)}
      <4> SUFFICES ASSUME pc'[c] = "exit"
                   PROVE  ChangesOf(c, req[c]) = Applied(c) \cup {Latest(c)}
        OBVIOUS
      <4>1. Size(c, req[c]) = applied[c] + 1 /\ applied[c] \in Nat
        BY <1>1 DEF TypeOK
      <4>2. 1..(applied[c] + 1) = (1..applied[c]) \cup {applied[c] + 1}
        BY <4>1
      <4> QED
        BY <4>1, <4>2 DEF ChangesOf, Applied, Latest
    <3>3. \A x \in content : x[1] = c => x \in ChangesOf(c, req[c])
      <4> SUFFICES ASSUME NEW x \in content, x[1] = c PROVE x \in ChangesOf(c, req[c])
        OBVIOUS
      <4>1. x \in Changes
        BY <2>1 DEF TypeOK
      <4>2. x = <<c, x[2]>> /\ x[2] \in 1..Batch[c]
        BY <4>1, ChangesShape
      <4>3. req[c].op = "update_draft"
        BY <1>2, <2>1, Untouched DEF ConcurrentInv
      <4> QED
        BY <4>2, <4>3 DEF ChangesOf, Size
    <3>4. CASE pc'[c] = "found"
      BY <2>1, <2>2, <2>3, <3>1, <3>4
    <3>5. CASE pc'[c] = "exit"
      <4>1. \A x \in ChangesOf(c, req[c]) : x[1] = c
        BY DEF ChangesOf
      <4>2. ChangesOf(c, req[c]) \subseteq content \cup {Latest(c)}
        BY <1>3, <2>4, <3>2, <3>5
      <4>3. Latest(c) \in ChangesOf(c, req[c])
        BY <3>2, <3>5
      <4>4. \A x \in content : BodyEnded(x[1])' <=> BodyEnded(x[1]) \/ x[1] = c
        BY <2>1, <2>2, <3>5
      <4>5. BodyEnded(c)'
        BY <2>2, <3>5
      <4> QED
        BY <2>1, <2>3, <2>4, <3>1, <3>3, <3>5, <4>1, <4>2, <4>3, <4>4, <4>5
    <3> QED
      BY <1>1, <3>4, <3>5 DEF TypeOK
  <2>5. CASE ~(k = req[c].key /\ store[k] = held[c])
    <3>1. heap'[k][store[k]] = content
      BY <1>1, <1>2, <2>1, <2>5 DEF TypeOK
    <3>2. \A x \in content : x[1] # c
      <4>1. k # req[c].key
        BY <1>1, <1>3, <1>5, <2>5 DEF ConcurrentInv, ViewInv
      <4> QED
        BY <2>1, <4>1 DEF ConcurrentInv, TraceInv, Touches, Wrote
    <3> QED
      BY <2>1, <2>2, <2>5, <3>1, <3>2
  <2> QED
    BY <2>4, <2>5
<1> QED
  BY <1>4, <1>5

\* A read that shares its draft with no batch finds whole batches there.
LEMMA ReadsWhole ==
  ASSUME TypeOK, ConcurrentInv, NEW c \in Calls, pc[c] = "found", req[c].op = "read_draft",
         RolledBack = {}, ~Sharing, store[req[c].key] = held[c]
  PROVE  heap[req[c].key][held[c]] = Visible[req[c].key]
<1> DEFINE k == req[c].key
<1>1. k \in Keys /\ held[c] \in Calls /\ store[k] # Absent
  BY FoundKey, StoreAssumption
<1>2. /\ Visible[k] = {x \in heap[k][held[c]] : BodyEnded(x[1])}
      /\ \A x \in heap[k][held[c]] : x[1] \in Calls
  BY <1>1, VisibleShape
<1>3. ASSUME NEW x \in heap[k][held[c]] PROVE BodyEnded(x[1])
  <2>1. x[1] \in Calls /\ Wrote(x[1], k)
    BY <1>1, <1>2, <1>3 DEF ConcurrentInv, TraceInv, Touches
  <2>2. PICK d \in Calls : d = x[1]
    BY <2>1
  <2>3. ASSUME pc[d] = "found", req[d].op = "update_draft" PROVE FALSE
    <3>1. c \in overlap[d]
      BY <2>3 DEF ConcurrentInv, OverlapInv, Active, InBody
    <3> QED
      BY <2>1, <2>2, <2>3, <3>1 DEF Sharing, Lookups, Wrote
  <2> QED
    BY <2>1, <2>2, <2>3 DEF Wrote, Done, BodyEnded
<1> QED
  BY <1>2, <1>3

LEMMA EffectStep ==
  ASSUME TypeOK, ConcurrentInv, NEW c \in Calls, FoundInv(c), Continue(c),
         RolledBack = {}, RolledBack' = {}, ~Sharing
  PROVE  \/ Effects!Next /\ ReadsVisible(c)
         \/ UNCHANGED <<Visible, Effect>>
         \/ Overtaken(c)
<1> DEFINE k == req[c].key
<1>1. pc[c] \notin RollingBack /\ pc'[c] \notin RollingBack
  BY DEF RolledBack
<1>2. CASE \/ CopyEntry(c) \/ CopyEnd(c) \/ CopyFails(c) \/ Lookup(c) \/ Commit(c)
  <2>1. UNCHANGED <<store, heap, req>>
    BY <1>2 DEF CopyEntry, CopyEnd, CopyFails, Lookup, Commit
  <2>2. PICK there : /\ pc' = [pc EXCEPT ![c] = there]
                     /\ there \in {"exit", "returned"} <=> pc[c] \in {"exit", "returned"}
    <3>1. CASE CopyEntry(c)
      BY <3>1 DEF CopyEntry, TypeOK
    <3>2. CASE CopyEnd(c) \/ CopyFails(c)
      BY <3>2 DEF CopyEnd, CopyFails, Goto, Copying
    <3>3. CASE Lookup(c) \/ Commit(c)
      BY <3>3 DEF Lookup, Commit, Goto
    <3> QED
      BY <1>2, <3>1, <3>2, <3>3
  <2>3. \A d \in Calls : BodyEnded(d)' <=> BodyEnded(d)
    BY <2>2 DEF BodyEnded, TypeOK
  <2>4. Effect' = Effect
    BY <2>1, <2>3 DEF Effect
  <2>5. Visible' = Visible
    <3>1. ASSUME NEW j \in Keys PROVE Visible'[j] = Visible[j]
      BY <2>1, <2>3, VisibleShape DEF Visible
    <3> QED
      BY <3>1 DEF Visible
  <2> QED
    BY <2>4, <2>5
<1>3. CASE Add(c)
  <2>1. /\ pc[c] = "body" /\ req[c].op \in Creates /\ pc' = [pc EXCEPT ![c] = "exit"] /\ req' = req
        /\ store' = [store EXCEPT ![k] = c] /\ heap' = [heap EXCEPT ![k][c] = {}]
    BY <1>3 DEF Add, Goto
  <2>2. Effects!End(c, req[c], "returned") /\ req[c] \in Requests /\ req[c] \in Effects!Requests
    BY <2>1, BodyEnds
  <2>3. k \in Keys /\ k # Absent /\ c # Absent
    BY <2>1, <2>2, RequestShape, StoreAssumption DEF Creates
  <2>4. \A d \in Calls : Effect[d].req.key # k
    <3>1. \A d \in Calls : d # c /\ Began(d) => req[d].key # k
      BY <2>1 DEF ConcurrentInv, KeyInv
    <3> QED
      BY <2>1, <2>3, <3>1 DEF Effect, BodyEnded, NoRequest, Began
  <2>5. \A j \in Keys : Visible'[j] = IF j = k THEN {} ELSE Visible[j]
    <3>1. heap'[k][c] = {} /\ store'[k] = c
      BY <2>1, <2>3 DEF TypeOK
    <3>2. Visible'[k] = {}
      BY <2>3, <3>1 DEF Visible
    <3>3. ASSUME NEW j \in Keys, j # k PROVE Visible'[j] = Visible[j]
      <4>1. store'[j] = store[j] /\ heap'[j] = heap[j]
        BY <2>1, <3>3 DEF TypeOK
      <4>2. ~Done(c) /\ pc[c] # "found" /\ TraceInv
        BY <2>1 DEF ConcurrentInv, Done
      <4> QED
        BY <2>1, <4>1, <4>2, NothingShown
    <3> QED
      BY <3>2, <3>3
  <2>6. Visible' = [Visible EXCEPT ![k] = {}]
    BY <2>5 DEF Visible
  <2>7. ReadsVisible(c)
    BY <2>1 DEF ReadsVisible
  <2> QED
    BY <2>1, <2>2, <2>4, <2>6, <2>7 DEF Effects!Next, Effects!Create, Effects!Creates, Creates
<1>4. CASE Write(c)
  <2>1. /\ pc[c] = "found" /\ req[c].op \in Writes /\ UNCHANGED <<req, store>>
        /\ pc' = [pc EXCEPT ![c] = IF applied[c] + 1 = Size(c, req[c]) THEN "exit" ELSE "found"]
    BY <1>4 DEF Write, Change, Goto
  <2>2. k \in Keys /\ held[c] \in Calls /\ store[k] \in {held[c], Absent}
    BY <2>1, FoundKey, NoRollback DEF ConcurrentInv, ViewInv
  <2>3. ReadsVisible(c)
    BY <2>1 DEF ReadsVisible, Writes
  <2>4. CASE pc'[c] = "found"
    <3>1. \A j \in Keys : Visible'[j] = Visible[j]
      BY <1>4, <2>4, BatchShown
    <3>2. Visible' = Visible
      BY <3>1 DEF Visible
    <3>3. Effect' = Effect
      BY <2>1, <2>4 DEF Effect, BodyEnded, TypeOK
    <3> QED
      BY <3>2, <3>3
  <2>5. CASE pc'[c] = "exit" /\ store[k] = held[c]
    <3>1. pc' = [pc EXCEPT ![c] = "exit"]
      BY <2>1, <2>5 DEF TypeOK
    <3>2. Effects!End(c, req[c], "returned") /\ req[c] \in Effects!Requests
      BY <2>1, <3>1, BodyEnds
    <3>3. Visible[k] # Absent
      BY <2>2, <2>5, VisibleShape, StoreAssumption
    <3>4. \A j \in Keys : Visible'[j] = IF j = k THEN Visible[j] \cup ChangesOf(c, req[c])
                                       ELSE Visible[j]
      BY <1>4, <2>5, BatchShown
    <3>5. Visible' = [Visible EXCEPT ![k] = @ \cup ChangesOf(c, req[c])]
      <4>1. /\ Visible = [j \in Keys |-> Visible[j]]
            /\ Visible' = [j \in Keys |-> Visible'[j]]
        BY DEF Visible
      <4> QED
        BY <2>2, <3>4, <4>1
    <3>6. Effects!ChangesOf(c, req[c]) = ChangesOf(c, req[c])
      BY DEF Effects!ChangesOf, ChangesOf, Effects!Size, Size
    <3> QED
      BY <2>1, <2>3, <3>2, <3>3, <3>5, <3>6 DEF Effects!Next, Effects!Write, Effects!Writes, Writes
  <2>6. CASE pc'[c] = "exit" /\ store[k] = Absent
    <3>1. pc' = [pc EXCEPT ![c] = "exit"]
      BY <2>1, <2>6 DEF TypeOK
    <3>2. \A j \in Keys : Visible'[j] = Visible[j]
      BY <1>4, <2>2, <2>6, BatchShown, StoreAssumption
    <3>3. UNCHANGED Visible
      BY <3>2 DEF Visible
    <3> QED
      BY <2>1, <2>6, <3>1, <3>3, GoneIsOvertaken
  <2> QED
    BY <2>1, <2>2, <2>4, <2>5, <2>6 DEF TypeOK
<1>5. CASE Observe(c)
  <2>1. /\ pc[c] \in {"body", "found"} /\ pc' = [pc EXCEPT ![c] = "exit"]
        /\ UNCHANGED <<req, store, heap>>
        /\ \/ pc[c] = "found" /\ req[c].op = "read_draft"
           \/ pc[c] = "body" /\ req[c].op = "list_interactive_sessions"
    BY <1>5 DEF Observe, Goto
  <2>2. Effects!End(c, req[c], "returned") /\ req[c] \in Effects!Requests
    BY <2>1, BodyEnds
  <2>3. UNCHANGED Visible
    <3>1. \A j \in Keys : Visible'[j] = Visible[j]
      BY <2>1, NothingShown DEF ConcurrentInv, Done
    <3> QED
      BY <3>1 DEF Visible
  <2>4. CASE pc[c] = "body" /\ req[c].op = "list_interactive_sessions"
    <3>1. ReadsVisible(c)
      BY <2>4 DEF ReadsVisible
    <3> QED
      BY <2>2, <2>3, <2>4, <3>1 DEF Effects!Next, Effects!Observe
  <2>5. CASE pc[c] = "found" /\ req[c].op = "read_draft" /\ store[k] # Absent
    <3>1. k \in Keys /\ store[k] = held[c]
      BY <2>5, FoundKey, NoRollback DEF ConcurrentInv, ViewInv
    <3>2. Visible[k] # Absent
      BY <2>5, <3>1, VisibleShape
    <3>3. ReadsVisible(c)
      BY <2>5, <3>1, ReadsWhole DEF ReadsVisible
    <3> QED
      BY <2>2, <2>3, <2>5, <3>2, <3>3 DEF Effects!Next, Effects!Observe
  <2>6. CASE pc[c] = "found" /\ store[k] = Absent
    BY <2>1, <2>3, <2>6, GoneIsOvertaken
  <2> QED
    BY <2>1, <2>4, <2>5, <2>6
<1>6. CASE Pop(c)
  <2>1. /\ pc[c] = "body" /\ req[c].op = "delete_draft" /\ pc' = [pc EXCEPT ![c] = "exit"]
        /\ UNCHANGED <<req, heap>> /\ store' = [store EXCEPT ![k] = Absent]
    BY <1>6 DEF Pop, Goto
  <2>2. Effects!End(c, req[c], "returned") /\ req[c] \in Effects!Requests /\ req[c] \in Requests
    BY <2>1, BodyEnds
  <2>3. k \in Keys
    BY <2>1, <2>2, RequestShape
  <2>4. \A j \in Keys : Visible'[j] = IF j = k THEN Absent ELSE Visible[j]
    <3>1. Visible'[k] = Absent
      BY <2>1, <2>3 DEF Visible, TypeOK
    <3>2. ASSUME NEW j \in Keys, j # k PROVE Visible'[j] = Visible[j]
      BY <2>1, <3>2, NothingShown DEF ConcurrentInv, Done, TypeOK
    <3> QED
      BY <3>1, <3>2
  <2>5. Visible' = [Visible EXCEPT ![k] = Absent]
    BY <2>4 DEF Visible
  <2>6. ReadsVisible(c)
    BY <2>1 DEF ReadsVisible
  <2> QED
    BY <2>1, <2>2, <2>5, <2>6 DEF Effects!Next, Effects!Delete
<1>7. ~(OpenFails(c) \/ NotFound(c) \/ Raise(c))
  BY <1>1 DEF OpenFails, NotFound, Raise, Goto, TypeOK, RollingBack
<1>8. ~(ClearTable(c) \/ RestoreTable(c))
  BY <1>1 DEF ClearTable, RestoreTable, RollingBack
<1> QED
  BY <1>2, <1>3, <1>4, <1>5, <1>6, <1>7, <1>8 DEF Continue, Enter, Body, Exit

(***************************************************************************)
(* As long as no call rolls back and no update_draft shares its draft with *)
(* an overlapping call that looks it up, overlapping calls are calls of    *)
(* the atomic store, each in one step, whole batch and whole read, for any *)
(* number of calls, keys and operations.                                   *)
(***************************************************************************)
THEOREM AtomicUntilShared == Spec => AtomicUnlessShared
<1> DEFINE Found == \A c \in Calls : FoundInv(c)
           Step  == RolledBack' = {} /\ ~Sharing' =>
                        \/ Effects!Next /\ \A c \in Calls : ReadsVisible(c)
                        \/ UNCHANGED <<Visible, Effect>>
                        \/ \E c \in Calls : Overtaken(c)
<1>1. Init => Found
  BY DEF Init, FoundInv
<1>2. TypeOK /\ CreateKeysUnique /\ ConcurrentInv /\ Found /\ [Next]_vars => Found'
  BY FoundStep
<1>3. TypeOK /\ ConcurrentInv /\ Found /\ [Next]_vars => [Step]_vars
  <2> SUFFICES ASSUME TypeOK, ConcurrentInv, Found, [Next]_vars, RolledBack' = {}, ~Sharing',
                      ~UNCHANGED vars
               PROVE  \/ Effects!Next /\ \A c \in Calls : ReadsVisible(c)
                      \/ UNCHANGED <<Visible, Effect>>
                      \/ \E c \in Calls : Overtaken(c)
    OBVIOUS
  <2>1. RolledBack = {}
    BY Monotone DEF ConcurrentInv
  <2>2. PICK c \in Calls : Begin(c) \/ Continue(c)
    BY DEF Next, Finished
  <2>3. CASE Begin(c)
    <3>1. UNCHANGED <<store, heap>> /\ pc[c] = "idle" /\ pc' = [pc EXCEPT ![c] = "copySessions"]
          /\ \A d \in Calls : d # c => req'[d] = req[d]
      BY <2>3, BeginFrame DEF Begin, Goto
    <3>2. \A d \in Calls : BodyEnded(d)' <=> BodyEnded(d)
      BY <3>1 DEF BodyEnded, TypeOK
    <3>3. Effect' = Effect
      BY <3>1, <3>2 DEF Effect, BodyEnded
    <3>4. ASSUME NEW j \in Keys PROVE Visible'[j] = Visible[j]
      BY <3>1, <3>2, VisibleShape DEF Visible
    <3>5. Visible' = Visible
      BY <3>4 DEF Visible
    <3> QED
      BY <3>3, <3>5
  <2>4. CASE Continue(c)
    <3>1. UNCHANGED <<req, overlap>> /\ \A d \in Calls : d # c => pc'[d] = pc[d]
      BY <2>4, ContinueFrame
    <3>2. ~Sharing
      BY <3>1 DEF Sharing
    <3>3. \A d \in Calls : d # c => ReadsVisible(d)
      BY <3>1 DEF ReadsVisible
    <3> QED
      BY <2>1, <2>4, <3>2, <3>3, EffectStep
  <2> QED
    BY <2>2, <2>3, <2>4
<1> HIDE DEF Step, Found
<1>4. Spec => [][Step]_vars
  BY <1>1, <1>2, <1>3, ConcurrentAlways, PTL DEF Spec
<1> QED
  BY <1>4 DEF AtomicUnlessShared, Step
=============================================================================
