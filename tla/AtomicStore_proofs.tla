-------------------------- MODULE AtomicStore_proofs --------------------------
(***************************************************************************)
(* The atomic store keeps exactly the effects of the calls that returned.  *)
(***************************************************************************)
EXTENDS AtomicStore, TLAPS

(***************************************************************************)
(* What a request may be: every operation but the listing names a key of   *)
(* the store.                                                              *)
(***************************************************************************)
LEMMA RequestFields ==
  ASSUME NEW r \in Requests
  PROVE  /\ r.op \in Creates \cup Writes \cup
                {"read_draft", "delete_draft", "list_interactive_sessions"}
         /\ r.op # "list_interactive_sessions" => r.key \in Keys
         /\ r.op = "list_interactive_sessions" => r.key = Absent
         /\ r.op # "none"
  BY DEF Requests, Creates, Writes, Keys

(***************************************************************************)
(* The changes a call makes are changes of that call.                      *)
(***************************************************************************)
LEMMA ChangesShape ==
  ASSUME NEW c \in Calls, NEW r \in Requests
  PROVE  ChangesOf(c, r) \in SUBSET Changes
<1>1. Size(c, r) \in 1..Batch[c]
  BY StoreAssumption DEF Size
<1> QED
  BY <1>1, StoreAssumption DEF ChangesOf, Changes

(***************************************************************************)
(* Type correctness of the atomic store.                                   *)
(***************************************************************************)
THEOREM AtomicTypeOK == Spec => []TypeOK
<1>1. Init => TypeOK
  BY DEF Init, TypeOK
<1>2. TypeOK /\ [Next]_vars => TypeOK'
  <2> SUFFICES ASSUME TypeOK, [Next]_vars PROVE TypeOK'
    OBVIOUS
  <2>1. CASE UNCHANGED vars
    BY <2>1 DEF vars, TypeOK
  <2>2. CASE Next
    <3>1. PICK c \in Calls, r \in Requests :
            Create(c, r) \/ Write(c, r) \/ Observe(c, r) \/ Delete(c, r) \/ Fail(c, r)
      BY <2>2 DEF Next
    <3>2. outcome' \in [Calls -> [req : Requests, end : {"returned", "raised"}] \cup {Pending}]
      BY <3>1 DEF TypeOK, End, Create, Write, Observe, Delete, Fail
    <3>3. contents' \in [Keys -> {Absent} \cup SUBSET Changes]
      <4>1. CASE Write(c, r)
        <5>1. r.key \in Keys
          BY <4>1, RequestFields DEF Write, Writes
        <5>2. contents[r.key] \in SUBSET Changes
          BY <4>1, <5>1 DEF Write, TypeOK
        <5> QED
          BY <4>1, <5>1, <5>2, ChangesShape DEF Write, TypeOK
      <4> QED
        BY <3>1, <4>1 DEF TypeOK, Create, Observe, Delete, Fail
    <3> QED
      BY <3>2, <3>3 DEF TypeOK
  <2> QED
    BY <2>1, <2>2
<1> QED
  BY <1>1, <1>2, PTL DEF Spec

(***************************************************************************)
(* A step that ends call c adds c, and nothing else, to the calls that     *)
(* have ended.                                                             *)
(***************************************************************************)
LEMMA EndStep ==
  ASSUME TypeOK, NEW c \in Calls, NEW r \in Requests,
         NEW how \in {"returned", "raised"}, End(c, r, how)
  PROVE  /\ outcome[c] = Pending
         /\ outcome'[c].req = r /\ outcome'[c].end = how
         /\ \A d \in Calls : d # c => outcome'[d] = outcome[d]
         /\ outcome[c].req.op = "none" /\ outcome[c].end = "pending"
  BY DEF End, TypeOK, Pending, NoRequest

(***************************************************************************)
(* The entries and their contents are exactly what the calls that returned *)
(* made of them.                                                           *)
(***************************************************************************)
THEOREM AtomicExactEffects == Spec => []ExactEffects
<1>1. Init => ExactEffects
  BY DEF Init, ExactEffects, Returned, Pending
<1>2. TypeOK /\ ExactEffects /\ [Next]_vars => ExactEffects'
  <2> SUFFICES ASSUME TypeOK, ExactEffects, [Next]_vars PROVE ExactEffects'
    OBVIOUS
  <2>1. CASE UNCHANGED vars
    BY <2>1 DEF vars, ExactEffects, Returned, Deleted
  <2>2. CASE Next
    <3>1. PICK c \in Calls, r \in Requests :
            Create(c, r) \/ Write(c, r) \/ Observe(c, r) \/ Delete(c, r) \/ Fail(c, r)
      BY <2>2 DEF Next
    <3> DEFINE Made(k)  == \E d \in Calls : Returned(d, Creates) /\ outcome[d].req.key = k
               Writers(k) == {d \in Calls : Returned(d, Writes) /\ outcome[d].req.key = k}
               Wrote(k) == UNION {ChangesOf(d, outcome[d].req) : d \in Writers(k)}
               Exact    == /\ \A k \in Keys : contents[k] # Absent <=> Made(k) /\ ~Deleted(k)
                           /\ \A k \in Keys : contents[k] # Absent => contents[k] = Wrote(k)
    <3>e. (ExactEffects <=> Exact) /\ (ExactEffects' <=> Exact')
      BY DEF ExactEffects
    <3> HIDE DEF Made, Writers, Wrote
    <3>0. ASSUME NEW how \in {"returned", "raised"}, End(c, r, how),
                 how = "returned" => r.op \notin Writes, NEW k \in Keys
          PROVE  Wrote(k)' = Wrote(k)
      <4>1. Writers(k)' = Writers(k) /\ c \notin Writers(k)
        BY <3>0, EndStep DEF Writers, Returned, Writes
      <4>2. \A d \in Writers(k) : outcome'[d] = outcome[d]
        BY <3>0, <4>1, EndStep DEF Writers
      <4> QED
        BY <4>1, <4>2 DEF Wrote
    <3>2. CASE Create(c, r)
      <4>1. End(c, r, "returned") /\ r.op \in Creates /\ r.key \in Keys
        BY <3>2, RequestFields DEF Create, Creates
      <4>2. ~Deleted(r.key) /\ Wrote(r.key) = {}
        BY <3>2 DEF Create, Deleted, Writers, Wrote
      <4>3. \A k \in Keys : /\ Made(k)' <=> Made(k) \/ k = r.key
                            /\ Deleted(k)' <=> Deleted(k)
                            /\ Wrote(k)' = Wrote(k)
        BY <3>0, <4>1, EndStep DEF Made, Deleted, Returned, Creates, Writes
      <4>4. contents' = [contents EXCEPT ![r.key] = {}]
        BY <3>2 DEF Create
      <4>5. Absent # {}
        BY StoreAssumption
      <4> QED
        BY <3>e, <4>1, <4>2, <4>3, <4>4, <4>5 DEF TypeOK
    <3>3. CASE Write(c, r)
      <4>1. End(c, r, "returned") /\ r.op \in Writes /\ r.key \in Keys
        BY <3>3, RequestFields DEF Write, Writes
      <4>2. \A k \in Keys : /\ Made(k)' <=> Made(k)
                            /\ Deleted(k)' <=> Deleted(k)
                            /\ Wrote(k)' = IF k = r.key THEN Wrote(k) \cup ChangesOf(c, r)
                                           ELSE Wrote(k)
        <5>1. /\ c \notin Writers(r.key) /\ Writers(r.key)' = Writers(r.key) \cup {c}
              /\ \A k \in Keys : k # r.key => Writers(k)' = Writers(k) /\ c \notin Writers(k)
          BY <4>1, EndStep DEF Writers, Returned, Writes
        <5>2. outcome'[c].req = r /\ \A d \in Calls : d # c => outcome'[d] = outcome[d]
          BY <4>1, EndStep
        <5>3. \A k \in Keys : Wrote(k)' = IF k = r.key THEN Wrote(k) \cup ChangesOf(c, r)
                                         ELSE Wrote(k)
          BY <5>1, <5>2 DEF Wrote, Writers
        <5> QED
          BY <4>1, <5>3, EndStep DEF Made, Deleted, Returned, Creates, Writes
      <4>3. /\ contents[r.key] # Absent
            /\ contents' = [contents EXCEPT ![r.key] = @ \cup ChangesOf(c, r)]
        BY <3>3 DEF Write
      <4>4. contents[r.key] \cup ChangesOf(c, r) # Absent
        BY <4>1, <4>3, ChangesShape, StoreAssumption DEF TypeOK
      <4> QED
        BY <3>e, <4>1, <4>2, <4>3, <4>4 DEF TypeOK
    <3>4. CASE Delete(c, r)
      <4>1. End(c, r, "returned") /\ r.op = "delete_draft" /\ r.key \in Keys
        BY <3>4, RequestFields DEF Delete
      <4>2. \A k \in Keys : /\ Made(k)' <=> Made(k)
                            /\ Deleted(k)' <=> Deleted(k) \/ k = r.key
                            /\ Wrote(k)' = Wrote(k)
        BY <3>0, <4>1, EndStep DEF Made, Deleted, Returned, Creates, Writes
      <4>3. contents' = [contents EXCEPT ![r.key] = Absent]
        BY <3>4 DEF Delete
      <4> QED
        BY <3>e, <4>1, <4>2, <4>3 DEF TypeOK
    <3>5. CASE Observe(c, r) \/ Fail(c, r)
      <4>1. \E how \in {"returned", "raised"} :
               End(c, r, how) /\ (how = "returned" =>
                   r.op \in {"read_draft", "list_interactive_sessions"})
        BY <3>5 DEF Observe, Fail
      <4>2. \A k \in Keys : /\ Made(k)' <=> Made(k)
                            /\ Deleted(k)' <=> Deleted(k)
                            /\ Wrote(k)' = Wrote(k)
        BY <3>0, <4>1, EndStep DEF Made, Deleted, Returned, Creates, Writes
      <4>3. UNCHANGED contents
        BY <3>5 DEF Observe, Fail
      <4> QED
        BY <4>2, <4>3 DEF ExactEffects, Made, Writers, Wrote
    <3> QED
      BY <3>1, <3>2, <3>3, <3>4, <3>5
  <2> QED
    BY <2>1, <2>2
<1> QED
  BY <1>1, <1>2, AtomicTypeOK, PTL DEF Spec
=============================================================================
