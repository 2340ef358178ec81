---------------------- MODULE AuthenticatedCalls_proofs ----------------------
(***************************************************************************)
(* The shared caches for any number of overlapping calls: their types, and *)
(* why the two files a call logs in with belong together.                  *)
(***************************************************************************)
EXTENDS AuthenticatedCalls, FiniteSetTheorems, TLAPS

Before == {"idle", "service", "factory", "build"}
Past   == {c \in Calls : pc[c] \notin Before}

\* Where a call is says which files it holds and which its factory has.
CallOf(c) ==
    /\ pc[c] \notin {"certificate_read", "private_key", "private_key_read", "login"} =>
           used[c] = NoFiles
    /\ pc[c] \in {"certificate_read", "private_key"} => used[c]["private_key"] = None
    /\ pc[c] \in {"private_key", "private_key_read"} => loaded[own[c]]["certificate"] # None
    /\ pc[c] \in {"certificate_read", "private_key_read"} =>
           \A p \in Files : pc[c] = Reading[p] => used[c][p] # None
    /\ pc[c] = "login" => used[c] = NoFiles \/ loaded[own[c]]["private_key"] # None

FactoryOf(f) == loaded[f]["private_key"] # None => loaded[f]["certificate"] # None

\* Whatever a factory and its calls hold is of generation g, the present one for as
\* long as the private key is missing.
Uniform(f, g) ==
    /\ \A p \in Files : loaded[f][p] \in {None, g}
    /\ \A c \in Calls : own[c] = f => \A p \in Files : used[c][p] \in {None, g}
    /\ loaded[f]["private_key"] = None => g = disk

Whole(f) == f \notin torn => \E g \in Nat : Uniform(f, g)

IInv ==
    /\ TypeOK
    /\ built <= Cardinality(Past)
    /\ \A c \in Calls : CallOf(c)
    /\ \A f \in Factories : FactoryOf(f) /\ Whole(f)
-----------------------------------------------------------------------------
(***************************************************************************)
(* Translating an exception gives an exception, in create() and in every   *)
(* service.                                                                *)
(***************************************************************************)
Raised == Own \cup Foreign \cup {"none", "NotImplementedError"}

LEMMA Translated == ASSUME NEW o, NEW e \in Raised
                    PROVE  CreateRaises(e) \in Raised /\ ServiceRaises(o, e) \in Raised
<1>1. CreateRaises(e) \in Raised
  BY DEF CreateRaises, Raised, Own, Foreign, SDK, Refusal
<1>2. TokenRaises(e) \in Raised /\ PermissionRaises(e) \in Raised /\ SessionRaises(e) \in Raised
  BY DEF TokenRaises, PermissionRaises, SessionRaises, Raised, Own, Foreign, SDK, Refusal
<1> QED
  BY <1>1, <1>2 DEF ServiceRaises, PageRaises

(***************************************************************************)
(* A call under way asks a service that exists, and works with a factory   *)
(* that was built once it has one.                                         *)
(***************************************************************************)
LEMMA Known == ASSUME TypeOK, NEW c \in Calls
               PROVE  /\ pc[c] \notin {"idle", "ended"} => MyService(c) \in Services
                      /\ own[c] \in 1..built => own[c] \in Factories
<1>1. \A o \in Ops : ServiceOf[o] \in Services
  BY CallsAssumption DEF ServiceOf, Services
<1>2. Cardinality(Calls) \in Nat /\ built \in 0..Cardinality(Calls)
  BY CallsAssumption, FS_CardinalityType DEF TypeOK
<1>3. 1..built \subseteq Factories
  BY <1>2 DEF Factories
<1> QED
  BY <1>1, <1>3 DEF TypeOK, MyService

(***************************************************************************)
(* A call that leaves gives its factory and its files back.                *)
(***************************************************************************)
LEMMA LeaveTypes == ASSUME TypeOK, NEW c \in Calls, NEW e \in Raised, NEW done \in BOOLEAN,
                           Leave(c, e, done)
                    PROVE  TypeOK'
<1> USE DEF TypeOK
<1>1. answer' \in [exc : Own \cup Foreign \cup {"none", "NotImplementedError"}, effect : BOOLEAN]
  <2>1. PICK out \in {CreateRaises(e), "Exception"} :
          answer' = [exc |-> ServiceRaises(op[c], out), effect |-> done]
    BY DEF Leave
  <2>2. out \in Raised
    BY <2>1, Translated DEF Raised, Foreign
  <2> QED
    BY <2>1, <2>2, Translated DEF Raised
<1>2. settled' \in [Services -> [Files -> Generation]]
  BY DEF Leave
<1>3. NoFiles \in [Files -> Generation]
  BY DEF NoFiles, Generation
<1>4. used' \in [Calls -> [Files -> Generation]]
  BY <1>3 DEF Leave
<1>5. /\ op' \in [Calls -> Ops \cup {None}] /\ own' \in [Calls -> 1..built \cup {None}]
      /\ together' \in [Calls -> BOOLEAN]
      /\ \A d \in Calls : d # c => op'[d] = op[d] /\ own'[d] = own[d] /\ pc'[d] = pc[d]
  BY DEF Leave, Goto
<1>6. pc'[c] = "ended" /\ pc' \in [Calls -> {"idle", "service", "factory", "build", "keep",
          "certificate", "certificate_read", "private_key", "private_key_read", "login", "ended"}]
  BY DEF Leave, Goto
<1>7. UNCHANGED <<settings, service, factory, built, loaded, disk, torn>>
  BY DEF Leave, caches
<1> QED
  BY <1>1, <1>2, <1>4, <1>5, <1>6, <1>7

\* The four ways out.
Leaves(c) == \E e \in Raised, done \in BOOLEAN : Leave(c, e, done)

LEMMA WaysOut ==
    ASSUME NEW c \in Calls,
           NotConfigured(c) \/ Request(c) \/ RequestFails(c) \/ \E p \in Files : LoadFails(c, p)
    PROVE  Leaves(c)
BY DEF NotConfigured, Request, RequestFails, LoadFails, Leaves, Raised, Own, Foreign, SDK, Refusal

-----------------------------------------------------------------------------
(***************************************************************************)
(* No more factories are built than calls have gone past the build: the    *)
(* numbers 1..built are enough to name them.                               *)
(***************************************************************************)
LEMMA PastGrows == ASSUME TypeOK, built <= Cardinality(Past), built' = built,
                          \A d \in Calls : pc[d] \notin Before => pc'[d] \notin Before
                   PROVE  built' <= Cardinality(Past')
<1>1. Past \subseteq Past' /\ IsFiniteSet(Past')
  BY CallsAssumption, FS_Subset DEF Past
<1>2. Cardinality(Past) <= Cardinality(Past') /\ Cardinality(Past) \in Nat /\ Cardinality(Past') \in Nat
  BY <1>1, FS_Subset, FS_CardinalityType
<1> QED
  BY <1>2 DEF TypeOK

LEMMA BuildCounts == ASSUME TypeOK, built <= Cardinality(Past), NEW c \in Calls, BuildFactory(c)
                     PROVE  built' <= Cardinality(Past') /\ built' \in 1..Cardinality(Calls)
<1>1. Past' = Past \cup {c} /\ c \notin Past
  BY DEF BuildFactory, Goto, TypeOK, Past, Before
<1>2. IsFiniteSet(Past) /\ IsFiniteSet(Past') /\ Past' \subseteq Calls
  BY CallsAssumption, FS_Subset DEF Past
<1>3. Cardinality(Past') = Cardinality(Past) + 1
  BY <1>1, <1>2, FS_AddElement
<1>4. Cardinality(Past') <= Cardinality(Calls) /\ Cardinality(Calls) \in Nat /\ Cardinality(Past) \in Nat
  BY <1>2, CallsAssumption, FS_Subset, FS_CardinalityType
<1> QED
  BY <1>3, <1>4 DEF BuildFactory, TypeOK

-----------------------------------------------------------------------------
(***************************************************************************)
(* Finding the service and the factory, loading, logging in, leaving and   *)
(* the replacement of the files keep the shape of every variable.          *)
(***************************************************************************)
LEMMA TypeStep == IInv /\ [Next]_vars => TypeOK'
<1> SUFFICES ASSUME IInv, [Next]_vars PROVE TypeOK'
  OBVIOUS
<1>0. TypeOK
  BY DEF IInv
<1> USE <1>0, CallsAssumption DEF Goto, caches, history
<1>1. ASSUME NEW c \in Calls, Begin(c) PROVE TypeOK'
  BY <1>1 DEF Begin, TypeOK
<1>2. ASSUME NEW c \in Calls, Resolve(c) PROVE TypeOK'
  <2> USE DEF TypeOK, Opened
  <2>1. CASE FindService(c)
    <3>1. service[MyService(c)] \in 1..built \cup {None}
      BY <2>1, Known DEF FindService
    <3>2. own' \in [Calls -> 1..built \cup {None}]
      BY <2>1, <3>1 DEF FindService
    <3>3. pc'[c] = "factory" \/ own'[c] \in 1..built
      BY <2>1, <3>1 DEF FindService
    <3> QED
      BY <2>1, <3>2, <3>3 DEF FindService
  <2>2. CASE FindFactory(c)
    BY <2>2 DEF FindFactory
  <2>3. CASE BuildFactory(c)
    <3>1. built' \in 1..Cardinality(Calls) /\ built' = built + 1 /\ factory' = built'
      BY <2>3, BuildCounts DEF BuildFactory, IInv
    <3>2. 1..built \subseteq 1..built' /\ built' \in 1..built'
      BY <3>1
    <3>3. own' = [own EXCEPT ![c] = built'] /\ own' \in [Calls -> 1..built' \cup {None}]
      BY <2>3, <3>2 DEF BuildFactory
    <3>4. service' \in [Services -> 1..built' \cup {None}]
      BY <2>3, <3>2 DEF BuildFactory
    <3>5. built' \in 0..Cardinality(Calls) /\ factory' \in 1..built' \cup {None}
      BY <3>1, <3>2
    <3>6. \A d \in Calls :
            /\ pc'[d] \notin {"idle", "ended"} => op'[d] \in Ops
            /\ pc'[d] \notin {"idle", "service", "factory", "build", "ended"} => own'[d] \in 1..built'
      BY <2>3, <3>2, <3>3 DEF BuildFactory
    <3> QED
      BY <2>3, <3>3, <3>4, <3>5, <3>6 DEF BuildFactory
  <2>4. CASE BackendUnsupported(c)
    BY <2>4 DEF BackendUnsupported
  <2>5. CASE KeepService(c)
    BY <2>5 DEF KeepService
  <2> QED
    BY <1>2, <2>1, <2>2, <2>3, <2>4, <2>5 DEF Resolve
<1>3. ASSUME NEW c \in Calls, NEW p \in Files, Load(c, p) \/ Store(c, p) PROVE TypeOK'
  <2> USE DEF TypeOK, Files, Reading, AfterLoad
  <2>1. own[c] \in Factories
    <3>1. own[c] \in 1..built
      BY <1>3 DEF Load, Store
    <3> QED
      BY <3>1, Known
  <2>2. CASE Load(c, p)
    <3>1. loaded[own[c]][p] \in Generation /\ disk \in Generation
      BY <2>1 DEF Generation
    <3>2. used' \in [Calls -> [Files -> Generation]]
      BY <2>2, <3>1 DEF Load, Cached
    <3>3. pc'[c] \in {"certificate_read", "private_key", "private_key_read", "login"}
      BY <2>2 DEF Load
    <3> QED
      BY <2>2, <3>2, <3>3, <2>1 DEF Load
  <2>3. CASE Store(c, p)
    <3>1. loaded' \in [Factories -> [Files -> Generation]]
      BY <2>1, <2>3 DEF Store
    <3>2. pc'[c] \in {"private_key", "login"}
      BY <2>3 DEF Store
    <3> QED
      BY <2>3, <3>1, <3>2, <2>1 DEF Store
  <2> QED
    BY <1>3, <2>2, <2>3
<1>4. ASSUME NEW c \in Calls, Leaves(c) PROVE TypeOK'
  BY <1>4, LeaveTypes DEF Leaves
<1>5. CASE ReplaceFiles
  BY <1>5 DEF ReplaceFiles, TypeOK
<1>6. CASE UNCHANGED vars
  BY <1>6 DEF vars, TypeOK
<1> QED
  BY <1>1, <1>2, <1>3, <1>4, <1>5, <1>6, WaysOut DEF Next, Authenticate, Finished

(***************************************************************************)
(* A step never takes a call back to the build, and builds one factory at  *)
(* most.                                                                   *)
(***************************************************************************)
LEMMA CountStep == IInv /\ [Next]_vars => (built <= Cardinality(Past))'
<1> SUFFICES ASSUME IInv, [Next]_vars PROVE built' <= Cardinality(Past')
  OBVIOUS
<1>0. TypeOK /\ built <= Cardinality(Past)
  BY DEF IInv
<1>1. ASSUME NEW c \in Calls, BuildFactory(c) PROVE built' <= Cardinality(Past')
  BY <1>0, <1>1, BuildCounts
<1>2. ASSUME built' = built, \A d \in Calls : pc[d] \notin Before => pc'[d] \notin Before
      PROVE  built' <= Cardinality(Past')
  BY <1>0, <1>2, PastGrows
<1> USE <1>0 DEF TypeOK, Before, Goto, caches
<1>3. ASSUME NEW c \in Calls, Begin(c) PROVE built' <= Cardinality(Past')
  BY <1>2, <1>3 DEF Begin
<1>4. ASSUME NEW c \in Calls, Resolve(c) PROVE built' <= Cardinality(Past')
  <2>1. CASE FindService(c)
    BY <1>2, <2>1 DEF FindService, Opened
  <2>2. CASE FindFactory(c)
    BY <1>2, <2>2 DEF FindFactory
  <2>3. CASE BackendUnsupported(c)
    BY <1>2, <2>3 DEF BackendUnsupported
  <2>4. CASE KeepService(c)
    BY <1>2, <2>4 DEF KeepService, Opened
  <2> QED
    BY <1>1, <1>4, <2>1, <2>2, <2>3, <2>4 DEF Resolve
<1>5. ASSUME NEW c \in Calls, NEW p \in Files, Load(c, p) \/ Store(c, p)
      PROVE  built' <= Cardinality(Past')
  BY <1>2, <1>5 DEF Load, Store, Files, Reading, AfterLoad
<1>6. ASSUME NEW c \in Calls, Leaves(c) PROVE built' <= Cardinality(Past')
  BY <1>2, <1>6 DEF Leaves, Leave
<1>7. CASE ReplaceFiles \/ UNCHANGED vars
  BY <1>2, <1>7 DEF ReplaceFiles, vars
<1> QED
  BY <1>3, <1>4, <1>5, <1>6, <1>7, WaysOut DEF Next, Authenticate, Finished

-----------------------------------------------------------------------------
(***************************************************************************)
(* What a step of call c does to the files: a call that looks for its      *)
(* factory holds none before and after.                                    *)
(***************************************************************************)
LEMMA ResolveHoldsNone ==
    ASSUME IInv, NEW c \in Calls, Begin(c) \/ Resolve(c)
    PROVE  /\ used[c] = NoFiles /\ UNCHANGED <<used, loaded, disk, torn>>
           /\ pc'[c] \notin {"certificate_read", "private_key", "private_key_read"}
           /\ \A d \in Calls : d # c => own'[d] = own[d] /\ pc'[d] = pc[d]
<1> USE DEF IInv, CallOf, TypeOK, Goto, caches, history
<1>1. CASE Begin(c)
  BY <1>1 DEF Begin
<1>2. CASE FindService(c)
  BY <1>2 DEF FindService, Opened
<1>3. CASE FindFactory(c)
  BY <1>3 DEF FindFactory
<1>4. CASE BuildFactory(c)
  BY <1>4 DEF BuildFactory
<1>5. CASE BackendUnsupported(c)
  BY <1>5 DEF BackendUnsupported
<1>6. CASE KeepService(c)
  BY <1>6 DEF KeepService, Opened
<1> QED
  BY <1>1, <1>2, <1>3, <1>4, <1>5, <1>6 DEF Resolve

LEMMA LeaveHoldsNone ==
    ASSUME IInv, NEW c \in Calls, Leaves(c)
    PROVE  /\ used'[c] = NoFiles /\ pc'[c] = "ended" /\ own'[c] = None
           /\ UNCHANGED <<loaded, disk, torn>>
           /\ \A d \in Calls : d # c => own'[d] = own[d] /\ pc'[d] = pc[d] /\ used'[d] = used[d]
BY DEF IInv, TypeOK, Leaves, Leave, Goto, caches

\* One file of one call changes: to the factory's, or to the one on disk.
LEMMA LoadHolds ==
    ASSUME IInv, NEW c \in Calls, NEW p \in Files, Load(c, p)
    PROVE  /\ pc[c] = p /\ own[c] \in Factories /\ UNCHANGED <<own, loaded, disk, torn>>
           /\ \A d \in Calls : d # c => pc'[d] = pc[d] /\ used'[d] = used[d]
           /\ \A q \in Files : q # p => used'[c][q] = used[c][q]
           /\ used'[c][p] # None
           /\ \/ /\ loaded[own[c]][p] = None /\ used'[c][p] = disk /\ pc'[c] = Reading[p]
              \/ /\ loaded[own[c]][p] # None /\ used'[c][p] = loaded[own[c]][p]
                 /\ pc'[c] = AfterLoad[p]
<1>1. TypeOK
  BY DEF IInv
<1>2. own[c] \in Factories
  BY <1>1, Known DEF TypeOK, Load, Files
<1> QED
  BY <1>1, <1>2, CallsAssumption DEF TypeOK, Load, Cached, Goto, caches, history, Generation

LEMMA StoreHolds ==
    ASSUME IInv, NEW c \in Calls, NEW p \in Files, Store(c, p)
    PROVE  /\ pc[c] = Reading[p] /\ pc'[c] = AfterLoad[p] /\ own[c] \in Factories
           /\ UNCHANGED <<own, used, disk, torn>>
           /\ \A d \in Calls : d # c => pc'[d] = pc[d]
           /\ loaded'[own[c]][p] = used[c][p] /\ used[c][p] # None
           /\ \A f \in Factories : \A q \in Files :
                  /\ f # own[c] \/ q # p => loaded'[f][q] = loaded[f][q]
                  /\ loaded[f][q] # None => loaded'[f][q] # None
<1>1. TypeOK /\ CallOf(c)
  BY DEF IInv
<1>2. own[c] \in Factories
  BY <1>1, Known DEF TypeOK, Store, Files, Reading
<1>3. pc[c] \in {"certificate_read", "private_key_read"} /\ pc[c] = Reading[p]
  BY DEF Store, Files, Reading
<1> QED
  BY <1>1, <1>2, <1>3 DEF TypeOK, Store, CallOf, Goto, history

-----------------------------------------------------------------------------
(***************************************************************************)
(* Wherever a call goes, it holds the files its place says, and a file a   *)
(* factory has is never dropped.                                           *)
(***************************************************************************)
LEMMA CallStep == IInv /\ [Next]_vars => \A d \in Calls : CallOf(d)'
<1> SUFFICES ASSUME IInv, [Next]_vars, NEW d \in Calls PROVE CallOf(d)'
  OBVIOUS
<1>0. TypeOK /\ CallOf(d)
  BY DEF IInv
<1>1. ASSUME pc'[d] = pc[d], own'[d] = own[d], used'[d] = used[d],
             \A f \in Factories, p \in Files : loaded[f][p] # None => loaded'[f][p] # None
      PROVE  CallOf(d)'
  <2>1. pc[d] \in {"private_key", "private_key_read", "login"} => own[d] \in Factories
    BY <1>0, Known DEF TypeOK
  <2> QED
    BY <1>0, <1>1, <2>1 DEF CallOf, Files
<1>2. ASSUME NEW c \in Calls, Begin(c) \/ Resolve(c) PROVE CallOf(d)'
  <2>1. CASE d = c
    BY <1>2, <2>1, ResolveHoldsNone DEF CallOf
  <2>2. CASE d # c
    BY <1>1, <1>2, <2>2, ResolveHoldsNone
  <2> QED
    BY <2>1, <2>2
<1>3. ASSUME NEW c \in Calls, Leaves(c) PROVE CallOf(d)'
  <2>1. CASE d = c
    BY <1>3, <2>1, LeaveHoldsNone DEF CallOf
  <2>2. CASE d # c
    BY <1>1, <1>3, <2>2, LeaveHoldsNone
  <2> QED
    BY <2>1, <2>2
<1>4. ASSUME NEW c \in Calls, NEW p \in Files, Load(c, p) PROVE CallOf(d)'
  <2>1. CASE d = c
    <3>1. p \in {"certificate", "private_key"} /\ pc[c] = p
      BY <1>4, LoadHolds DEF Files
    <3>2. CASE p = "certificate"
      BY <1>0, <1>4, <2>1, <3>1, <3>2, LoadHolds DEF CallOf, Reading, AfterLoad, Files, NoFiles
    <3>3. CASE p = "private_key"
      BY <1>0, <1>4, <2>1, <3>1, <3>3, LoadHolds DEF CallOf, Reading, AfterLoad, Files
    <3> QED
      BY <3>1, <3>2, <3>3
  <2>2. CASE d # c
    BY <1>1, <1>4, <2>2, LoadHolds
  <2> QED
    BY <2>1, <2>2
<1>5. ASSUME NEW c \in Calls, NEW p \in Files, Store(c, p) PROVE CallOf(d)'
  <2>1. \A f \in Factories : \A q \in Files : loaded[f][q] # None => loaded'[f][q] # None
    <3>1. TAKE f \in Factories
    <3>2. TAKE q \in Files
    <3> QED
      BY <1>5, StoreHolds
  <2>2. CASE d = c
    <3>1. CASE p = "certificate"
      BY <1>0, <1>5, <2>2, <3>1, StoreHolds DEF CallOf, Reading, AfterLoad, Files
    <3>2. CASE p = "private_key"
      <4>1. pc'[c] = "login" /\ own'[c] = own[c]
        BY <1>5, <3>2, StoreHolds DEF AfterLoad
      <4>2. loaded'[own[c]]["private_key"] # None
        <5>1. loaded'[own[c]][p] = used[c][p] /\ used[c][p] # None
          BY <1>5, StoreHolds
        <5> QED
          BY <3>2, <5>1
      <4> QED
        BY <2>2, <4>1, <4>2 DEF CallOf
    <3> QED
      BY <3>1, <3>2 DEF Files
  <2>3. CASE d # c
    BY <1>1, <1>5, <2>1, <2>3, StoreHolds
  <2> QED
    BY <2>2, <2>3
<1>6. CASE ReplaceFiles \/ UNCHANGED vars
  BY <1>1, <1>6 DEF ReplaceFiles, vars, caches
<1> QED
  BY <1>2, <1>3, <1>4, <1>5, <1>6, WaysOut DEF Next, Authenticate, Finished

(***************************************************************************)
(* A factory that no replacement caught with one file keeps files of one   *)
(* generation: a file is read from the disk only while the private key is  *)
(* missing, when what it has is of the present generation.                 *)
(***************************************************************************)
LEMMA FactoryStep == IInv /\ [Next]_vars => \A f \in Factories : FactoryOf(f)' /\ Whole(f)'
<1> SUFFICES ASSUME IInv, [Next]_vars, NEW f \in Factories PROVE FactoryOf(f)' /\ Whole(f)'
  OBVIOUS
<1>0. TypeOK /\ FactoryOf(f) /\ Whole(f) /\ \A c \in Calls : CallOf(c)
  BY DEF IInv
<1>1. ASSUME UNCHANGED <<loaded, disk, torn>>,
             \A d \in Calls : \/ own'[d] = own[d] /\ used'[d] = used[d]
                              \/ used'[d] = NoFiles
      PROVE  FactoryOf(f)' /\ Whole(f)'
  BY <1>0, <1>1 DEF FactoryOf, Whole, Uniform, NoFiles
<1>2. ASSUME NEW c \in Calls, Begin(c) \/ Resolve(c) PROVE FactoryOf(f)' /\ Whole(f)'
  BY <1>1, <1>2, ResolveHoldsNone
<1>3. ASSUME NEW c \in Calls, Leaves(c) PROVE FactoryOf(f)' /\ Whole(f)'
  BY <1>1, <1>3, LeaveHoldsNone
<1>4. ASSUME NEW c \in Calls, NEW p \in Files, Load(c, p) PROVE FactoryOf(f)' /\ Whole(f)'
  <2>1. FactoryOf(f)'
    BY <1>0, <1>4, LoadHolds DEF FactoryOf
  <2>2. ASSUME f \notin torn PROVE \E g \in Nat : Uniform(f, g)'
    <3>1. PICK g \in Nat : Uniform(f, g)
      BY <1>0, <2>2 DEF Whole
    <3>2. own[c] = f => used'[c][p] \in {None, g}
      BY <1>0, <1>4, <3>1, LoadHolds DEF Uniform, FactoryOf, Files
    <3>3. \A d \in Calls, q \in Files : own'[d] = f => used'[d][q] \in {None, g}
      BY <1>4, <3>1, <3>2, LoadHolds DEF Uniform
    <3> QED
      BY <1>4, <3>1, <3>3, LoadHolds DEF Uniform
  <2> QED
    BY <1>4, <2>1, <2>2, LoadHolds DEF Whole
<1>5. ASSUME NEW c \in Calls, NEW p \in Files, Store(c, p) PROVE FactoryOf(f)' /\ Whole(f)'
  <2>1. FactoryOf(f)'
    <3>1. CASE own[c] = f /\ p = "private_key"
      <4>1. CallOf(c) /\ pc[c] = "private_key_read"
        BY <1>0, <1>5, <3>1, StoreHolds DEF Reading
      <4>2. loaded[f]["certificate"] # None
        BY <3>1, <4>1 DEF CallOf
      <4> QED
        BY <1>5, <4>2, StoreHolds DEF FactoryOf, Files
    <3>2. CASE own[c] # f \/ p # "private_key"
      <4>1. loaded'[f]["private_key"] = loaded[f]["private_key"]
        BY <1>5, <3>2, StoreHolds DEF Files
      <4>2. loaded[f]["certificate"] # None => loaded'[f]["certificate"] # None
        BY <1>5, StoreHolds DEF Files
      <4> QED
        BY <1>0, <4>1, <4>2 DEF FactoryOf
    <3> QED
      BY <3>1, <3>2
  <2>2. ASSUME f \notin torn PROVE \E g \in Nat : Uniform(f, g)'
    <3>1. PICK g \in Nat : Uniform(f, g)
      BY <1>0, <2>2 DEF Whole
    <3>2. \A q \in Files : loaded'[f][q] \in {None, g}
      <4>1. TAKE q \in Files
      <4>2. CASE own[c] = f /\ q = p
        <5>1. loaded'[f][q] = used[c][p]
          BY <1>5, <4>2, StoreHolds
        <5> QED
          BY <3>1, <4>2, <5>1 DEF Uniform
      <4>3. CASE own[c] # f \/ q # p
        <5>1. loaded'[f][q] = loaded[f][q]
          BY <1>5, <4>3, StoreHolds
        <5> QED
          BY <3>1, <5>1 DEF Uniform
      <4> QED
        BY <4>2, <4>3
    <3>3. loaded'[f]["private_key"] = None => loaded[f]["private_key"] = None
      BY <1>5, StoreHolds DEF Files
    <3> QED
      BY <1>5, <3>1, <3>2, <3>3, StoreHolds DEF Uniform
  <2> QED
    BY <1>5, <2>1, <2>2, StoreHolds DEF Whole
<1>6. CASE ReplaceFiles
  <2>1. FactoryOf(f)' /\ UNCHANGED <<loaded, own, used>> /\ disk' = disk + 1
    BY <1>0, <1>6 DEF ReplaceFiles, FactoryOf
  <2>2. ASSUME f \notin torn' PROVE \E g \in Nat : Uniform(f, g)'
    <3>1. f \notin torn /\ ~HalfLoaded(f)
      BY <1>6, <2>2 DEF ReplaceFiles
    <3>2. PICK g \in Nat : Uniform(f, g)
      BY <1>0, <3>1 DEF Whole
    <3>3. CASE loaded[f]["private_key"] # None
      BY <2>1, <3>2, <3>3 DEF Uniform
    <3>4. CASE loaded[f]["private_key"] = None
      <4>1. loaded[f]["certificate"] = None
        BY <3>1, <3>4 DEF HalfLoaded
      <4>2. \A c \in Calls : own[c] = f => used[c] = NoFiles
        BY <1>0, <3>1, <3>4, <4>1 DEF HalfLoaded, CallOf
      <4>3. \A h \in Nat : h = disk + 1 => Uniform(f, h)'
        BY <2>1, <3>4, <4>1, <4>2 DEF Uniform, Files, NoFiles
      <4> QED
        BY <1>0, <4>3, disk + 1 \in Nat DEF TypeOK
    <3> QED
      BY <3>3, <3>4
  <2> QED
    BY <2>1, <2>2 DEF Whole
<1>7. CASE UNCHANGED vars
  BY <1>1, <1>7 DEF vars, caches, history
<1> QED
  BY <1>2, <1>3, <1>4, <1>5, <1>6, <1>7, WaysOut DEF Next, Authenticate, Finished

-----------------------------------------------------------------------------
LEMMA CallsInvariant == Spec => []IInv
<1>1. Init => IInv
  <2> SUFFICES ASSUME Init PROVE IInv
    OBVIOUS
  <2>1. Cardinality(Calls) \in Nat /\ 0 \in Nat
    BY CallsAssumption, FS_CardinalityType
  <2>2. TypeOK
    BY <2>1, CallsAssumption DEF Init, TypeOK, NoFiles, Generation
  <2>3. built <= Cardinality(Past)
    <3>1. IsFiniteSet(Past)
      BY CallsAssumption, FS_Subset DEF Past
    <3> QED
      BY <3>1, FS_CardinalityType DEF Init
  <2>4. \A c \in Calls : CallOf(c)
    BY DEF Init, CallOf
  <2>5. \A f \in Factories : FactoryOf(f) /\ Uniform(f, 0)
    BY DEF Init, FactoryOf, Uniform, NoFiles, Files
  <2> QED
    BY <2>1, <2>2, <2>3, <2>4, <2>5 DEF IInv, Whole
<1>2. IInv /\ [Next]_vars => IInv'
  BY TypeStep, CountStep, CallStep, FactoryStep DEF IInv
<1> QED
  BY <1>1, <1>2, PTL DEF Spec

(***************************************************************************)
(* TypeOK holds of any number of overlapping calls, whatever fails: the    *)
(* caches of functools name factories that were built, and no more are     *)
(* built than there were calls.                                            *)
(***************************************************************************)
THEOREM CallsTypeOK == Spec => []TypeOK
<1>1. IInv => TypeOK
  BY DEF IInv
<1> QED
  BY <1>1, CallsInvariant, PTL

(***************************************************************************)
(* get_xades_credentials never pairs a certificate with the private key of *)
(* another generation, however many calls load at a time, unless the files *)
(* were replaced when the factory had one of the two.                      *)
(***************************************************************************)
THEOREM CredentialsMatch == Spec => []MatchedCredentials
<1>1. IInv => MatchedCredentials
  <2> SUFFICES ASSUME IInv, NEW c \in Calls, LoggingIn(c), own[c] \notin torn
               PROVE  used[c]["certificate"] = used[c]["private_key"]
    BY DEF MatchedCredentials
  <2>1. own[c] \in Factories
    BY Known DEF IInv, TypeOK, LoggingIn
  <2>2. PICK g \in Nat : Uniform(own[c], g)
    BY <2>1 DEF IInv, Whole
  <2> QED
    BY <2>2 DEF Uniform, LoggingIn, Files
<1> QED
  BY <1>1, CallsInvariant, PTL

-----------------------------------------------------------------------------
(***************************************************************************)
(* What a call reports, for whatever was raised in it and whatever close() *)
(* adds: a failed login is reported only of what is refused without an     *)
(* effect, and only list_token_page hands an SDK exception on.             *)
(***************************************************************************)
LEMMA Reported ==
    ASSUME NEW o \in DOMAIN ServiceOf, NEW e \in Raised, NEW out \in {CreateRaises(e), "Exception"}
    PROVE  /\ ServiceRaises(o, out) \in {"ConfigurationError", "AuthenticationError"}
                  => e \in Refusal \cup {"ConfigurationError", "AuthenticationError"}
           /\ ServiceRaises(o, out) \in SDK => o = "list_token_page"
           /\ ServiceRaises(o, out) \in Foreign => ServiceOf[o] # "sessions"
<1> USE DEF Raised, Own, Foreign, SDK, Refusal
<1>1. CreateRaises(e) \in {"ConfigurationError", "AuthenticationError"}
          => e \in Refusal \cup {"ConfigurationError", "AuthenticationError"}
  BY DEF CreateRaises
<1>2. CASE o = "list_token_page"
  BY <1>1, <1>2 DEF ServiceRaises, PageRaises, ServiceOf
<1>3. CASE o = "list_permissions"
  BY <1>1, <1>3 DEF ServiceRaises, PermissionRaises, ServiceOf
<1>4. CASE o \in {"open_interactive_session", "close_interactive_session"}
  BY <1>1, <1>4 DEF ServiceRaises, SessionRaises, ServiceOf
<1>5. CASE o \in {"generate_token", "get_token_status", "revoke_token"}
  BY <1>1, <1>5 DEF ServiceRaises, TokenRaises, ServiceOf
<1> QED
  BY <1>2, <1>3, <1>4, <1>5 DEF ServiceOf

\* The exception a call ends with, by the way it left.
LEMMA LeavesWith ==
    ASSUME TypeOK, NEW c \in Calls,
           NotConfigured(c) \/ Request(c) \/ RequestFails(c) \/ \E p \in Files : LoadFails(c, p)
    PROVE  \E e \in Raised, done \in BOOLEAN :
             /\ e \in Refusal \cup {"ConfigurationError", "AuthenticationError"} => ~done
             /\ Leave(c, e, done)
<1> USE DEF Raised, Own, Foreign, SDK, Refusal
<1>1. CASE NotConfigured(c) \/ \E p \in Files : LoadFails(c, p)
  BY <1>1 DEF NotConfigured, LoadFails
<1>2. CASE Request(c)
  BY <1>2 DEF Request
<1>3. CASE RequestFails(c)
  BY <1>3 DEF RequestFails
<1> QED
  BY <1>1, <1>2, <1>3

(***************************************************************************)
(* A call that reports missing configuration or a failed login changed     *)
(* nothing at KSeF.                                                        *)
(***************************************************************************)
THEOREM RefusedCallsDoNothing == Spec => []RefusedWithoutEffect
<1>1. Init => RefusedWithoutEffect
  BY DEF Init, RefusedWithoutEffect
<1>2. TypeOK /\ RefusedWithoutEffect /\ [Next]_vars => RefusedWithoutEffect'
  <2> SUFFICES ASSUME TypeOK, RefusedWithoutEffect, [Next]_vars PROVE RefusedWithoutEffect'
    OBVIOUS
  <2>1. ASSUME NEW c \in Calls,
               NotConfigured(c) \/ Request(c) \/ RequestFails(c) \/ \E p \in Files : LoadFails(c, p)
        PROVE  RefusedWithoutEffect'
    <3>1. PICK e \in Raised, done \in BOOLEAN :
            /\ e \in Refusal \cup {"ConfigurationError", "AuthenticationError"} => ~done
            /\ Leave(c, e, done)
      BY <2>1, LeavesWith
    <3>2. op[c] \in DOMAIN ServiceOf
      BY <2>1, CallsAssumption
         DEF TypeOK, NotConfigured, Request, RequestFails, LoadFails, Opened, Files
    <3>3. PICK out \in {CreateRaises(e), "Exception"} :
            answer' = [exc |-> ServiceRaises(op[c], out), effect |-> done]
      BY <3>1 DEF Leave
    <3> QED
      BY <3>1, <3>2, <3>3, Reported DEF RefusedWithoutEffect
  <2>2. ASSUME NEW c \in Calls, BackendUnsupported(c) PROVE RefusedWithoutEffect'
    BY <2>2 DEF BackendUnsupported, RefusedWithoutEffect
  <2>3. ASSUME UNCHANGED answer PROVE RefusedWithoutEffect'
    BY <2>3 DEF RefusedWithoutEffect
  <2> QED
    BY <2>1, <2>2, <2>3
       DEF Next, Begin, Resolve, FindService, FindFactory, BuildFactory, KeepService,
           Authenticate, Load, Store, ReplaceFiles, Finished, vars
<1> QED
  BY <1>1, <1>2, CallsTypeOK, PTL DEF Spec

(***************************************************************************)
(* Of the SDK's exceptions only list_token_page lets one out, and a        *)
(* session tool lets nothing foreign out.                                  *)
(***************************************************************************)
THEOREM OnlyPagesLetErrorsOut == Spec => ErrorsTranslated
<1>1. TypeOK /\ [Next]_vars => [\A c \in ActiveCalls : pc'[c] = "ended" =>
          /\ answer'.exc \in SDK => op[c] = "list_token_page"
          /\ answer'.exc \in Foreign => MyService(c) # "sessions"]_vars
  <2> SUFFICES ASSUME TypeOK, [Next]_vars, NEW d \in ActiveCalls, pc'[d] = "ended",
                      ~UNCHANGED vars
               PROVE  /\ answer'.exc \in SDK => op[d] = "list_token_page"
                      /\ answer'.exc \in Foreign => MyService(d) # "sessions"
    OBVIOUS
  <2>0. d \in Calls /\ pc[d] \notin {"idle", "ended"} /\ op[d] \in DOMAIN ServiceOf
    BY CallsAssumption DEF ActiveCalls, TypeOK
  <2>1. ASSUME NEW c \in Calls,
               NotConfigured(c) \/ Request(c) \/ RequestFails(c) \/ \E p \in Files : LoadFails(c, p)
        PROVE  /\ answer'.exc \in SDK => op[d] = "list_token_page"
               /\ answer'.exc \in Foreign => MyService(d) # "sessions"
    <3>1. PICK e \in Raised, done \in BOOLEAN : Leave(c, e, done)
      BY <2>1, LeavesWith
    <3>2. c = d
      BY <2>0, <3>1 DEF Leave, Goto, TypeOK
    <3>3. PICK out \in {CreateRaises(e), "Exception"} :
            answer' = [exc |-> ServiceRaises(op[c], out), effect |-> done]
      BY <3>1 DEF Leave
    <3> QED
      BY <2>0, <3>2, <3>3, Reported DEF MyService
  <2>2. ASSUME NEW c \in Calls, BackendUnsupported(c)
        PROVE  answer'.exc \notin Foreign /\ answer'.exc \notin SDK
    BY <2>2 DEF BackendUnsupported, Foreign, SDK, Refusal
  <2>3. ASSUME NEW c \in Calls, Begin(c) \/ FindService(c) \/ FindFactory(c) \/ BuildFactory(c)
                                \/ KeepService(c) PROVE FALSE
    BY <2>0, <2>3 DEF Begin, FindService, FindFactory, BuildFactory, KeepService, Goto, Opened, TypeOK
  <2>4. ASSUME NEW c \in Calls, NEW p \in Files, Load(c, p) \/ Store(c, p) PROVE FALSE
    BY <2>0, <2>4 DEF Load, Store, Goto, Reading, AfterLoad, Files, TypeOK
  <2>5. ASSUME ReplaceFiles \/ Finished PROVE FALSE
    BY <2>0, <2>5 DEF ReplaceFiles, Finished
  <2> QED
    BY <2>1, <2>2, <2>3, <2>4, <2>5 DEF Next, Resolve, Authenticate
<1> QED
  BY <1>1, CallsTypeOK, PTL DEF Spec, ErrorsTranslated


-----------------------------------------------------------------------------
(***************************************************************************)
(* Why a service keeps its login.  A call that met no other is the only    *)
(* one: it finds its service missing or as it left it, and logs in with    *)
(* what its factory has cached.  So the service it leaves behind has a     *)
(* factory with both files, and no call can put another in its place or    *)
(* load them again.                                                        *)
(***************************************************************************)
Looking == {"service", "factory", "build", "keep"}

Solo(c) == c \in ActiveCalls /\ ~together[c] =>
    /\ ActiveCalls = {c}
    /\ pc[c] \in {"factory", "build", "keep"} => service[MyService(c)] = None
    /\ pc[c] \notin Looking => service[MyService(c)] = own[c]
    /\ \A p \in Files : used[c][p] = None \/ pc[c] = Reading[p] \/ used[c][p] = Cached(c, p)

HasSettled(s) == \A p \in Files : settled[s][p] # None

Serves(s, f) ==
    /\ service[s] = f /\ f # None /\ loaded[f] = settled[s]
    /\ \A c \in ActiveCalls :
           /\ MyService(c) = s /\ pc[c] # "service" => own[c] = f /\ pc[c] \notin Looking
           /\ own[c] = f => /\ \A p \in Files : pc[c] # Reading[p]
                            /\ \A p \in Files : used[c][p] \in {None, settled[s][p]}

StableInv == /\ \A c \in Calls : Solo(c)
             /\ \A s \in Services : HasSettled(s) => Serves(s, service[s])

\* A call leaves from create(), under way, on one of three places.
LEMMA LeavesFrom ==
    ASSUME TypeOK, NEW c \in Calls,
           NotConfigured(c) \/ Request(c) \/ RequestFails(c) \/ \E p \in Files : LoadFails(c, p)
    PROVE  Leaves(c) /\ pc[c] \in {"certificate", "private_key", "login"}
<1>1. pc[c] \in {"certificate", "private_key", "login"}
  BY DEF NotConfigured, Request, RequestFails, LoadFails, Opened, Files
<1> QED
  BY <1>1, WaysOut

LeavesWell(c) == Leaves(c) /\ pc[c] \in {"certificate", "private_key", "login"}

\* Which call is under way after a step, and what a step does to the others.
LEMMA UnderWay ==
    ASSUME IInv, NEW c \in Calls,
           Resolve(c) \/ LeavesWell(c) \/ \E p \in Files : Load(c, p) \/ Store(c, p)
    PROVE  /\ c \in ActiveCalls /\ ActiveCalls' \subseteq ActiveCalls
           /\ \A d \in Calls : d # c => /\ together'[d] = together[d] /\ op'[d] = op[d]
                                        /\ own'[d] = own[d] /\ pc'[d] = pc[d] /\ used'[d] = used[d]
<1>0. TypeOK
  BY DEF IInv
<1>1. /\ \A d \in Calls : d # c => /\ together'[d] = together[d] /\ op'[d] = op[d]
                                   /\ own'[d] = own[d] /\ pc'[d] = pc[d] /\ used'[d] = used[d]
      /\ pc[c] \notin {"idle", "ended"}
  <2> USE <1>0 DEF TypeOK, Goto, caches, history
  <2>1. CASE Resolve(c)
    BY <2>1 DEF Resolve, FindService, FindFactory, BuildFactory, BackendUnsupported, KeepService
  <2>2. CASE LeavesWell(c)
    BY <2>2 DEF LeavesWell, Leaves, Leave
  <2>3. ASSUME NEW p \in Files, Load(c, p)
        PROVE  /\ \A d \in Calls : d # c => /\ together'[d] = together[d] /\ op'[d] = op[d]
                                            /\ own'[d] = own[d] /\ pc'[d] = pc[d] /\ used'[d] = used[d]
               /\ pc[c] \notin {"idle", "ended"}
    BY <2>3 DEF Load, Files
  <2>4. ASSUME NEW p \in Files, Store(c, p)
        PROVE  /\ \A d \in Calls : d # c => /\ together'[d] = together[d] /\ op'[d] = op[d]
                                            /\ own'[d] = own[d] /\ pc'[d] = pc[d] /\ used'[d] = used[d]
               /\ pc[c] \notin {"idle", "ended"}
    BY <2>4 DEF Store, Files, Reading
  <2> QED
    BY <2>1, <2>2, <2>3, <2>4
<1> QED
  BY <1>1 DEF ActiveCalls

LEMMA SoloStep == IInv /\ (\A c \in Calls : Solo(c)) /\ [Next]_vars => \A c \in Calls : Solo(c)'
<1> SUFFICES ASSUME IInv, \A c \in Calls : Solo(c), [Next]_vars, NEW d \in Calls,
                    d \in ActiveCalls', ~together'[d]
             PROVE  /\ ActiveCalls' = {d}
                    /\ pc'[d] \in {"factory", "build", "keep"} => service'[MyService(d)'] = None
                    /\ pc'[d] \notin Looking => service'[MyService(d)'] = own'[d]
                    /\ \A p \in Files : \/ used'[d][p] = None \/ pc'[d] = Reading[p]
                                        \/ used'[d][p] = Cached(d, p)'
  BY DEF Solo
<1> DEFINE Goal == /\ ActiveCalls' = {d}
                   /\ pc'[d] \in {"factory", "build", "keep"} => service'[MyService(d)'] = None
                   /\ pc'[d] \notin Looking => service'[MyService(d)'] = own'[d]
                   /\ \A p \in Files : \/ used'[d][p] = None \/ pc'[d] = Reading[p]
                                       \/ used'[d][p] = Cached(d, p)'
<1>0. TypeOK /\ CallOf(d)
  BY DEF IInv
<1>1. ASSUME NEW c \in Calls, Begin(c) PROVE Goal
  <2>1. /\ pc[c] = "idle" /\ pc' = [pc EXCEPT ![c] = "service"] /\ used' = used
        /\ together' = [e \in Calls |->
               together[e] \/ (e \in ActiveCalls \cup {c} /\ ActiveCalls # {})]
    BY <1>1 DEF Begin, Goto
  <2>2. d \in ActiveCalls \cup {c}
    BY <1>0, <2>1 DEF ActiveCalls
  <2>3. ActiveCalls = {}
    BY <2>1, <2>2
  <2>4. d = c /\ pc'[d] = "service" /\ ActiveCalls' = {d}
    BY <1>0, <2>1, <2>2, <2>3 DEF ActiveCalls, TypeOK
  <2>5. used'[d] = NoFiles
    BY <1>0, <2>1, <2>4 DEF CallOf
  <2> QED
    BY <2>4, <2>5 DEF Looking, NoFiles
<1>2. ASSUME NEW c \in Calls,
             Resolve(c) \/ LeavesWell(c) \/ \E p \in Files : Load(c, p) \/ Store(c, p)
      PROVE  Goal
  <2>1. d = c
    <3> SUFFICES ASSUME d # c PROVE FALSE
      OBVIOUS
    <3>1. ~together[d] /\ d \in ActiveCalls /\ c \in ActiveCalls
      BY <1>2, UnderWay
    <3> QED
      BY <3>1 DEF Solo
  <2>2. ASSUME together'[c] = together[c], op'[c] = op[c]
        PROVE  /\ ActiveCalls' = {d} /\ MyService(d)' = MyService(d)
               /\ pc[d] \in {"factory", "build", "keep"} => service[MyService(d)] = None
               /\ pc[d] \notin Looking => service[MyService(d)] = own[d]
               /\ \A p \in Files : \/ used[d][p] = None \/ pc[d] = Reading[p]
                                   \/ used[d][p] = Cached(d, p)
    <3>1. ~together[d] /\ d \in ActiveCalls /\ ActiveCalls' \subseteq ActiveCalls
      BY <1>2, <2>1, <2>2, UnderWay
    <3> QED
      BY <2>1, <2>2, <3>1 DEF Solo, MyService
  <2>3. CASE LeavesWell(c)
    BY <1>0, <2>1, <2>3 DEF LeavesWell, Leaves, Leave, Goto, TypeOK, ActiveCalls
  <2>4. CASE Resolve(c)
    <3>1. together'[c] = together[c] /\ op'[c] = op[c]
      BY <2>4 DEF Resolve, FindService, FindFactory, BuildFactory, BackendUnsupported,
                  KeepService, history
    <3>2. used'[d] = NoFiles
      BY <2>1, <2>4, ResolveHoldsNone
    <3>3. \A p \in Files : used'[d][p] = None
      BY <3>2 DEF NoFiles
    <3>4. /\ pc'[d] \in {"factory", "build", "keep"} => service'[MyService(d)] = None
          /\ pc'[d] \notin Looking => service'[MyService(d)] = own'[d]
      <4>1. MyService(d) \in Services
        BY <1>0, <2>1, <2>4, Known
           DEF Resolve, FindService, FindFactory, BuildFactory, BackendUnsupported, KeepService
      <4>2. CASE FindService(c)
        BY <1>0, <2>1, <4>2 DEF FindService, TypeOK, Goto, Looking, Opened, caches
      <4>3. CASE FindFactory(c) \/ BuildFactory(c)
        BY <1>0, <2>1, <2>2, <3>1, <4>3 DEF FindFactory, BuildFactory, TypeOK, Goto, Looking, caches
      <4>4. CASE BackendUnsupported(c)
        BY <1>0, <2>1, <4>4 DEF BackendUnsupported, TypeOK, Goto, ActiveCalls
      <4>5. CASE KeepService(c)
        BY <1>0, <2>1, <2>2, <3>1, <4>1, <4>5 DEF KeepService, TypeOK, Goto, Looking, Opened
      <4> QED
        BY <2>4, <4>2, <4>3, <4>4, <4>5 DEF Resolve
    <3> QED
      BY <2>2, <3>1, <3>3, <3>4
  <2>5. ASSUME NEW p \in Files, Load(c, p) PROVE Goal
    <3>1. together'[c] = together[c] /\ op'[c] = op[c] /\ service' = service /\ pc[c] = p
      BY <2>5 DEF Load, history, caches
    <3>2. pc[c] \notin Looking /\ pc'[c] \notin Looking
      BY <2>5, <3>1, LoadHolds DEF Looking, Files, Reading, AfterLoad
    <3>3. used'[d][p] = Cached(d, p)' \/ pc'[d] = Reading[p]
      BY <2>1, <2>5, LoadHolds DEF Cached
    <3>4. own' = own /\ loaded' = loaded
      BY <2>5, LoadHolds
    <3>5. \A q \in Files : q # p => used'[d][q] = used[d][q] /\ pc[d] # Reading[q]
      BY <2>1, <2>5, <3>1, LoadHolds DEF Files, Reading
    <3>6. \A q \in Files : \/ used'[d][q] = None \/ pc'[d] = Reading[q]
                           \/ used'[d][q] = Cached(d, q)'
      BY <2>2, <3>1, <3>3, <3>4, <3>5 DEF Cached
    <3> QED
      BY <2>1, <2>2, <3>1, <3>2, <3>4, <3>6 DEF Looking
  <2>6. ASSUME NEW p \in Files, Store(c, p) PROVE Goal
    <3>1. together'[c] = together[c] /\ op'[c] = op[c] /\ service' = service /\ pc[c] = Reading[p]
      BY <2>6 DEF Store, history
    <3>2. pc[c] \notin Looking /\ pc'[c] \notin Looking
      BY <2>6, <3>1, StoreHolds DEF Looking, Files, Reading, AfterLoad
    <3>3. own' = own /\ used' = used /\ loaded'[own[d]][p] = used[d][p] /\ own[d] \in Factories
      BY <2>1, <2>6, StoreHolds
    <3>4. \A q \in Files : q # p => Cached(d, q)' = Cached(d, q) /\ pc[d] # Reading[q]
      BY <2>1, <2>6, <3>1, <3>3, StoreHolds DEF Files, Reading, Cached
    <3>5. \A q \in Files : \/ used'[d][q] = None \/ pc'[d] = Reading[q]
                           \/ used'[d][q] = Cached(d, q)'
      BY <2>2, <3>1, <3>3, <3>4 DEF Cached
    <3> QED
      BY <2>1, <2>2, <3>1, <3>2, <3>3, <3>5 DEF Looking
  <2> QED
    BY <1>2, <2>3, <2>4, <2>5, <2>6
<1>3. CASE ReplaceFiles \/ UNCHANGED vars
  <2>1. UNCHANGED <<service, loaded, pc, op, own, used, together>>
    BY <1>3 DEF ReplaceFiles, vars, caches, history
  <2>2. ActiveCalls' = ActiveCalls /\ MyService(d)' = MyService(d)
    BY <2>1 DEF ActiveCalls, MyService
  <2> QED
    BY <2>1, <2>2 DEF Solo, Cached
<1> QED
  BY <1>0, <1>1, <1>2, <1>3, LeavesFrom DEF Next, Authenticate, Finished, LeavesWell

\* A settled service goes on with its factory, whatever call takes a step.
LEMMA ServesStep ==
    ASSUME IInv, NEW s \in Services, NEW f, HasSettled(s), Serves(s, f), [Next]_vars,
           settled'[s] = settled[s]
    PROVE  Serves(s, f)'
<1> DEFINE Serving(c) == /\ MyService(c) = s /\ pc[c] # "service" => own[c] = f /\ pc[c] \notin Looking
                         /\ own[c] = f => /\ \A p \in Files : pc[c] # Reading[p]
                                          /\ \A p \in Files : used[c][p] \in {None, settled[s][p]}
<1>0. /\ TypeOK /\ f \in Factories /\ f # None /\ service[s] = f
      /\ loaded[f] = settled[s] /\ \A p \in Files : loaded[f][p] # None
  <2>1. TypeOK /\ service[s] = f /\ f # None /\ loaded[f] = settled[s]
    BY DEF IInv, Serves
  <2>2. Cardinality(Calls) \in Nat /\ built \in 0..Cardinality(Calls) /\ f \in 1..built
    BY <2>1, CallsAssumption, FS_CardinalityType DEF TypeOK
  <2>3. f \in Factories
    BY <2>2 DEF Factories
  <2> QED
    BY <2>1, <2>3 DEF HasSettled
<1>1. \A c \in ActiveCalls : Serving(c)
  BY DEF Serves
<1>2. ASSUME service'[s] = f, loaded'[f] = loaded[f], NEW c \in Calls,
             \A d \in Calls : d # c => /\ op'[d] = op[d] /\ own'[d] = own[d] /\ pc'[d] = pc[d]
                                       /\ used'[d] = used[d],
             c \in ActiveCalls' => Serving(c)'
      PROVE  Serves(s, f)'
  <2>1. ASSUME NEW d \in ActiveCalls', d # c PROVE Serving(d)'
    <3>1. d \in Calls /\ d \in ActiveCalls
      BY <1>2, <2>1 DEF ActiveCalls
    <3>2. /\ MyService(d)' = MyService(d) /\ own'[d] = own[d] /\ pc'[d] = pc[d]
          /\ used'[d] = used[d]
      BY <1>2, <2>1, <3>1 DEF MyService
    <3>3. Serving(d)
      BY <1>1, <3>1
    <3> QED
      BY <3>2, <3>3
  <2>2. \A d \in ActiveCalls' : Serving(d)'
    BY <1>2, <2>1
  <2> QED
    BY <1>0, <1>2, <2>2 DEF Serves
<1>3. ASSUME NEW c \in Calls, Begin(c) PROVE Serves(s, f)'
  <2>1. /\ service' = service /\ loaded' = loaded /\ pc'[c] = "service"
        /\ \A d \in Calls : d # c => /\ op'[d] = op[d] /\ own'[d] = own[d] /\ pc'[d] = pc[d]
                                     /\ used'[d] = used[d]
    BY <1>0, <1>3 DEF Begin, Goto, caches, TypeOK
  <2>2. used'[c] = NoFiles
    BY <1>3, ResolveHoldsNone
  <2>3. Serving(c)'
    BY <2>1, <2>2 DEF Looking, Files, Reading, NoFiles
  <2> QED
    BY <1>0, <1>2, <2>1, <2>3
<1>4. ASSUME NEW c \in Calls, Resolve(c) PROVE Serves(s, f)'
  <2>1. /\ loaded' = loaded /\ op' = op /\ used'[c] = NoFiles /\ c \in ActiveCalls
        /\ \A p \in Files : pc'[c] # Reading[p]
        /\ \A d \in Calls : d # c => /\ op'[d] = op[d] /\ own'[d] = own[d] /\ pc'[d] = pc[d]
                                     /\ used'[d] = used[d]
    <3>1. loaded' = loaded /\ used'[c] = NoFiles /\ \A p \in Files : pc'[c] # Reading[p]
      BY <1>4, ResolveHoldsNone DEF Files, Reading
    <3>2. op' = op
      BY <1>4 DEF Resolve, FindService, FindFactory, BuildFactory, BackendUnsupported, KeepService
    <3> QED
      BY <1>4, <3>1, <3>2, UnderWay
  <2>2. MyService(c)' = MyService(c) /\ MyService(c) \in Services /\ Serving(c)
    BY <1>0, <1>1, <2>1, Known DEF MyService, ActiveCalls
  <2>3. /\ service'[s] = f
        /\ c \in ActiveCalls' /\ MyService(c) = s /\ pc'[c] # "service"
               => own'[c] = f /\ pc'[c] \notin Looking
    <3>1. CASE FindService(c)
      BY <1>0, <2>2, <3>1 DEF FindService, TypeOK, Goto, Looking, Opened, caches
    <3>2. CASE FindFactory(c) \/ BuildFactory(c)
      BY <1>0, <2>1, <2>2, <3>2 DEF FindFactory, BuildFactory, Looking, caches
    <3>3. CASE BackendUnsupported(c)
      BY <1>0, <3>3 DEF BackendUnsupported, TypeOK, Goto, ActiveCalls, caches
    <3>4. CASE KeepService(c)
      BY <1>0, <2>1, <2>2, <3>4 DEF KeepService, Looking, TypeOK
    <3> QED
      BY <1>4, <3>1, <3>2, <3>3, <3>4 DEF Resolve
  <2>4. \A p \in Files : used'[c][p] = None
    BY <2>1 DEF NoFiles
  <2> QED
    BY <1>2, <2>1, <2>2, <2>3, <2>4
<1>5. ASSUME NEW c \in Calls, NEW p \in Files, Load(c, p) PROVE Serves(s, f)'
  <2>1. /\ service' = service /\ loaded' = loaded /\ op' = op /\ own' = own /\ pc[c] = p
    BY <1>5, LoadHolds DEF Load, caches
  <2>2. c \in ActiveCalls /\ MyService(c)' = MyService(c) /\ Serving(c)
    BY <1>1, <1>5, <2>1, UnderWay DEF MyService
  <2>3. pc'[c] \notin Looking /\ pc[c] \notin Looking
    BY <1>5, <2>1, LoadHolds DEF Looking, Files, Reading, AfterLoad
  <2>4. ASSUME own[c] = f PROVE /\ \A q \in Files : pc'[c] # Reading[q]
                                /\ \A q \in Files : used'[c][q] \in {None, settled[s][q]}
    <3>1. used'[c][p] = loaded[f][p] /\ pc'[c] = AfterLoad[p]
      BY <1>0, <1>5, <2>4, LoadHolds
    <3>2. \A q \in Files : q # p => used'[c][q] = used[c][q]
      BY <1>5, LoadHolds
    <3> QED
      BY <1>0, <2>2, <2>4, <3>1, <3>2 DEF Files, Reading, AfterLoad
  <2>5. Serving(c)'
    BY <2>1, <2>2, <2>3, <2>4 DEF Looking
  <2> QED
    BY <1>0, <1>2, <1>5, <2>1, <2>5, UnderWay
<1>6. ASSUME NEW c \in Calls, NEW p \in Files, Store(c, p) PROVE Serves(s, f)'
  <2>1. /\ service' = service /\ op' = op /\ own' = own /\ used' = used /\ pc[c] = Reading[p]
        /\ pc'[c] = AfterLoad[p]
    BY <1>6, StoreHolds DEF Store
  <2>2. c \in ActiveCalls /\ MyService(c)' = MyService(c) /\ Serving(c)
    BY <1>1, <1>6, <2>1, UnderWay DEF MyService
  <2>3. pc'[c] \notin Looking /\ pc[c] \notin Looking /\ pc[c] # "service"
    BY <2>1 DEF Looking, Files, Reading, AfterLoad
  <2>4. own[c] # f
    BY <2>1, <2>2
  <2>5. loaded'[f] = loaded[f]
    <3>1. loaded' = [loaded EXCEPT ![own[c]][p] = used[c][p]]
      BY <1>6 DEF Store
    <3> QED
      BY <1>0, <2>4, <3>1 DEF TypeOK
  <2>6. Serving(c)'
    BY <2>1, <2>2, <2>3, <2>4
  <2> QED
    BY <1>0, <1>2, <1>6, <2>1, <2>5, <2>6, UnderWay
<1>7. ASSUME NEW c \in Calls, LeavesWell(c) PROVE Serves(s, f)'
  <2>1. service' = service /\ loaded' = loaded /\ pc'[c] = "ended"
    BY <1>0, <1>7 DEF LeavesWell, Leaves, Leave, caches, Goto, TypeOK
  <2> QED
    BY <1>0, <1>2, <1>7, <2>1, UnderWay DEF ActiveCalls
<1>8. CASE ReplaceFiles \/ UNCHANGED vars
  <2>1. UNCHANGED <<service, loaded, pc, op, own, used>>
    BY <1>8 DEF ReplaceFiles, vars, caches
  <2>2. ActiveCalls' = ActiveCalls /\ \A c \in Calls : MyService(c)' = MyService(c)
    BY <2>1 DEF ActiveCalls, MyService
  <2> QED
    BY <2>1, <2>2 DEF Serves, ActiveCalls
<1> QED
  BY <1>0, <1>3, <1>4, <1>5, <1>6, <1>7, <1>8, LeavesFrom
     DEF Next, Authenticate, Finished, LeavesWell

\* What a call that met no other leaves behind.
LEMMA SoloSettles ==
    ASSUME IInv, NEW c \in Calls, Solo(c), LeavesWell(c), ~together[c],
           \A p \in Files : used[c][p] # None,
           NEW s, s = MyService(c), NEW f, f = own[c]
    PROVE  Serves(s, f)' /\ service'[s] = f
<1>0. TypeOK /\ c \in ActiveCalls /\ own[c] \in Factories /\ own[c] # None /\ MyService(c) \in Services
  <2>1. TypeOK /\ pc[c] \notin {"idle", "service", "factory", "build", "ended"}
    BY DEF IInv, LeavesWell
  <2>2. own[c] \in 1..built /\ 1..built \subseteq Nat
    BY <2>1 DEF TypeOK
  <2> QED
    BY <2>1, <2>2, Known, CallsAssumption DEF ActiveCalls
<1>1. /\ ActiveCalls = {c} /\ service[MyService(c)] = own[c]
      /\ \A p \in Files : used[c][p] = loaded[own[c]][p]
  BY <1>0 DEF Solo, LeavesWell, Looking, Files, Reading, Cached
<1>2. ActiveCalls' = {}
  BY <1>0, <1>1 DEF LeavesWell, Leaves, Leave, Goto, TypeOK, ActiveCalls
<1>3. settled' = [settled EXCEPT ![MyService(c)] = used[c]] /\ service' = service /\ loaded' = loaded
  BY DEF LeavesWell, Leaves, Leave, caches
<1>4. used[c] = loaded[own[c]]
  <2>1. used[c] \in [Files -> Generation] /\ loaded[own[c]] \in [Files -> Generation]
    BY <1>0 DEF TypeOK
  <2> QED
    BY <1>1, <2>1
<1>5. settled'[MyService(c)] = loaded'[own[c]] /\ service'[MyService(c)] = own[c]
  BY <1>0, <1>1, <1>3, <1>4 DEF TypeOK
<1> QED
  BY <1>0, <1>2, <1>5 DEF Serves

(***************************************************************************)
(* Once a call of a service has loaded the credentials and met no other    *)
(* call, every later call of that service logs in with the very same ones, *)
(* for any number of calls, services built and replacements of the files:  *)
(* the lru_cache around the service keeps the factory, the cached          *)
(* properties of the factory keep both files.                              *)
(***************************************************************************)
THEOREM LoginsAreStable == Spec => []StableLogin
<1>1. Init => StableInv
  <2> SUFFICES ASSUME Init PROVE StableInv
    OBVIOUS
  <2>1. ActiveCalls = {}
    BY DEF Init, ActiveCalls
  <2>2. \A s \in Services : ~HasSettled(s)
    BY DEF Init, HasSettled, NoFiles, Files
  <2> QED
    BY <2>1, <2>2 DEF StableInv, Solo
<1>2. IInv /\ StableInv /\ [Next]_vars => StableInv'
  <2> SUFFICES ASSUME IInv, StableInv, [Next]_vars PROVE StableInv'
    OBVIOUS
  <2>1. \A c \in Calls : Solo(c)'
    BY SoloStep DEF StableInv
  <2>2. ASSUME NEW s \in Services, HasSettled(s)' PROVE Serves(s, service[s])'
    <3>1. CASE settled'[s] = settled[s]
      <4>1. HasSettled(s)
        BY <2>2, <3>1 DEF HasSettled
      <4>2. PICK f : f = service[s]
        OBVIOUS
      <4>3. Serves(s, f)
        BY <4>1, <4>2 DEF StableInv
      <4>4. Serves(s, f)'
        BY <3>1, <4>1, <4>3, ServesStep
      <4>5. service'[s] = f
        BY <4>4 DEF Serves
      <4> QED
        BY <4>4, <4>5
    <3>2. CASE settled'[s] # settled[s]
      <4>1. PICK c \in Calls : LeavesWell(c)
        <5>1. ~UNCHANGED settled
          BY <3>2
        <5> QED
          BY <5>1, LeavesFrom
             DEF IInv, Next, Begin, Resolve, FindService, FindFactory, BuildFactory, KeepService,
                 BackendUnsupported, Authenticate, Load, Store, ReplaceFiles, Finished, vars,
                 history, LeavesWell
      <4>2. settled' = IF together[c] \/ None \in {used[c][p] : p \in Files} THEN settled
                       ELSE [settled EXCEPT ![MyService(c)] = used[c]]
        BY <4>1 DEF LeavesWell, Leaves, Leave
      <4>3. ~together[c] /\ \A p \in Files : used[c][p] # None
        BY <3>2, <4>2
      <4>4. s = MyService(c)
        BY <3>2, <4>2, <4>3 DEF IInv, TypeOK
      <4>5. PICK f : f = own[c]
        OBVIOUS
      <4>6. Serves(s, f)' /\ service'[s] = f
        BY <4>1, <4>3, <4>4, <4>5, SoloSettles DEF StableInv
      <4> QED
        BY <4>6
    <3> QED
      BY <3>1, <3>2
  <2> QED
    BY <2>1, <2>2 DEF StableInv
<1>3. IInv /\ StableInv => StableLogin
  <2> SUFFICES ASSUME IInv, StableInv, NEW c \in Calls, LoggingIn(c),
                      \A p \in Files : settled[MyService(c)][p] # None
               PROVE  used[c] = settled[MyService(c)]
    BY DEF StableLogin
  <2>1. c \in ActiveCalls /\ MyService(c) \in Services /\ pc[c] = "login"
    BY Known DEF LoggingIn, IInv, ActiveCalls
  <2>2. Serves(MyService(c), service[MyService(c)])
    BY <2>1 DEF StableInv, HasSettled
  <2>3. \A p \in Files : used[c][p] \in {None, settled[MyService(c)][p]}
    BY <2>1, <2>2 DEF Serves
  <2>4. \A p \in Files : used[c][p] = settled[MyService(c)][p]
    BY <2>3 DEF LoggingIn
  <2>5. used[c] \in [Files -> Generation] /\ settled[MyService(c)] \in [Files -> Generation]
    BY <2>1 DEF IInv, TypeOK
  <2> QED
    BY <2>4, <2>5
<1> QED
  BY <1>1, <1>2, <1>3, CallsInvariant, PTL DEF Spec
=============================================================================
