------------------------- MODULE EnsureClusterProofs -------------------------
(***************************************************************************)
(* EnsureCluster for any number of goroutines and clients: the invariant   *)
(* CallInv is inductive, the three safety properties the runs check follow *)
(* from it, and every step is a step of ClusterRegistry or changes nothing *)
(* the registry shows.                                                     *)
(***************************************************************************)
EXTENDS EnsureCluster, TLAPS

USE DEF Nested, Hypervisor

(* CallInv holds before the first call. *)
LEMMA InitCallInv == Init => CallInv
<1> SUFFICES ASSUME Init PROVE CallInv
  OBVIOUS
<1>1. TypeOK
  BY DEF Init, TypeOK, Keys, PcStates
<1>2. MutexInv
  BY ThreadsAssumption DEF Init, MutexInv, InCall
<1>3. SetupInv /\ BuildInv /\ ReturnedInv
  BY DEF Init, SetupInv, BuildInv, ReturnedInv, CacheEmpty, InCall, Keys
<1> QED
  BY <1>1, <1>2, <1>3 DEF CallInv

(* TypeOK is preserved by every step.                                      *)
LEMMA NextTypeOK == TypeOK /\ [Next]_vars => TypeOK'
<1> SUFFICES ASSUME TypeOK, [Next]_vars PROVE TypeOK'
  OBVIOUS
<1> USE DEF TypeOK, PcStates, At, Goto, Exit, callVars
<1>1. ASSUME NEW t \in Threads, NEW k \in Keys, Call(t, k) PROVE TypeOK'
  BY <1>1 DEF Call
<1>2. ASSUME NEW t \in Threads, Lock(t) PROVE TypeOK'
  BY <1>2 DEF Lock
<1>3. ASSUME NEW t \in Threads, CallStep(t) PROVE TypeOK'
  <2>1. CASE CheckCache(t)
    BY <2>1 DEF CheckCache
  <2>2. CASE SetupStep(t)
    <3>1. CASE ClusterCreated(t)
      BY <3>1 DEF ClusterCreated, Keys
    <3>2. CASE TunnelStarted(t)
      BY <3>2 DEF TunnelStarted, Keys
    <3>3. CASE SetupFails(t)
      BY <3>3 DEF SetupFails
    <3> QED
      BY <2>2, <3>1, <3>2, <3>3 DEF SetupStep
  <2>3. CASE Lookup(t)
    BY <2>3 DEF Lookup
  <2>4. CASE InitStep(t)
    BY <2>4 DEF InitStep, InitKCluster, InitFails
  <2>5. CASE CreateNs(t)
    BY <2>5 DEF CreateNs
  <2>6. CASE Store(t)
    BY <2>6 DEF Store
  <2>7. CASE Return(t)
    BY <2>7 DEF Return, Unlocked
  <2> QED
    BY <1>3, <2>1, <2>2, <2>3, <2>4, <2>5, <2>6, <2>7 DEF CallStep
<1>4. ASSUME NEW k \in Keys, TunnelListens(k) \/ TunnelFails(k) PROVE TypeOK'
  BY <1>4 DEF TunnelListens, TunnelFails
<1>5. CASE UNCHANGED vars
  BY <1>5 DEF vars
<1> QED
  BY <1>1, <1>2, <1>3, <1>4, <1>5 DEF Next, Exited

(* The mutex admits one goroutine: two that are past it are the same. *)
LEMMA OneInCall ==
  ASSUME MutexInv, NEW t \in Threads, NEW u \in Threads, InCall(t), InCall(u)
  PROVE  t = u
BY DEF MutexInv

(* Steps that leave the map, the pcs and the locals of every call alone      *)
(* cannot disturb the invariant.                                             *)
LEMMA FrameCallInv ==
  ASSUME CallInv, TypeOK', UNCHANGED <<callVars, setups>>
  PROVE  CallInv'
BY DEF CallInv, callVars, MutexInv, SetupInv, BuildInv, ReturnedInv, InCall,
       CacheEmpty

(* A step of one call keeps what the mutex, the map and the set-up branch    *)
(* guarantee one another.                                                    *)
LEMMA CallStepCallInv ==
  ASSUME CallInv, TypeOK', NEW t \in Threads,
         Lock(t) \/ CallStep(t)
  PROVE  CallInv'
<1> USE DEF At, Goto
<1>t. TypeOK /\ MutexInv /\ SetupInv /\ BuildInv /\ ReturnedInv
  BY DEF CallInv
<1>1. CASE Lock(t)
  <2>1. MutexInv'
    BY <1>t, <1>1, ThreadsAssumption DEF Lock, TypeOK, MutexInv, InCall
  <2>2. SetupInv'
    BY <1>t, <1>1, OneInCall DEF Lock, TypeOK, SetupInv, BuildInv,
         CacheEmpty, InCall
  <2>3. BuildInv'
    BY <1>t, <1>1, OneInCall DEF Lock, TypeOK, BuildInv,
         CacheEmpty, InCall
  <2>4. ReturnedInv'
    BY <1>t, <1>1 DEF Lock, TypeOK, BuildInv, ReturnedInv
  <2> QED
    BY <2>1, <2>2, <2>3, <2>4 DEF CallInv
<1>2. CASE CheckCache(t)
  <2>1. MutexInv'
    BY <1>t, <1>2, ThreadsAssumption DEF CheckCache, NeedsSetup, TypeOK, MutexInv, InCall
  <2>2. SetupInv'
    <3>1. CASE CacheEmpty
      <4>1. pc[t] = "check" /\ InCall(t)
        BY <1>2 DEF CheckCache, InCall
      <4>2. setups = 0
        BY <1>t, <3>1, <4>1, OneInCall DEF SetupInv, InCall
      <4>3. setups' = 1 /\ pc' = [pc EXCEPT ![t] = "setup"] /\ clrCache' = clrCache
        BY <1>2, <3>1, <4>2 DEF CheckCache, NeedsSetup, CacheEmpty
      <4> QED
        BY <1>t, <3>1, <4>3 DEF TypeOK, SetupInv, CacheEmpty, InCall
    <3>2. CASE ~CacheEmpty
      <4>1. setups' = setups /\ pc' = [pc EXCEPT ![t] = "lookup"] /\ clrCache' = clrCache
        BY <1>2, <3>2 DEF CheckCache, NeedsSetup, CacheEmpty
      <4> QED
        BY <1>t, <3>2, <4>1 DEF TypeOK, SetupInv, CacheEmpty, InCall
    <3> QED
      BY <3>1, <3>2
  <2>3. BuildInv'
    BY <1>t, <1>2, OneInCall DEF CheckCache, NeedsSetup, TypeOK, BuildInv,
         CacheEmpty, InCall
  <2>4. ReturnedInv'
    BY <1>t, <1>2 DEF CheckCache, NeedsSetup, TypeOK, BuildInv, ReturnedInv
  <2> QED
    BY <2>1, <2>2, <2>3, <2>4 DEF CallInv
<1>3. CASE ClusterCreated(t)
  <2>1. MutexInv'
    BY <1>t, <1>3, ThreadsAssumption DEF ClusterCreated, TypeOK, MutexInv, InCall
  <2>2. SetupInv'
    BY <1>t, <1>3, OneInCall DEF ClusterCreated, TypeOK, SetupInv, BuildInv,
         CacheEmpty, InCall
  <2>3. BuildInv'
    BY <1>t, <1>3, OneInCall DEF ClusterCreated, TypeOK, BuildInv,
         CacheEmpty, InCall
  <2>4. ReturnedInv'
    BY <1>t, <1>3 DEF ClusterCreated, TypeOK, BuildInv, ReturnedInv
  <2> QED
    BY <2>1, <2>2, <2>3, <2>4 DEF CallInv
<1>4. CASE TunnelStarted(t)
  <2>1. MutexInv'
    BY <1>t, <1>4, ThreadsAssumption DEF TunnelStarted, TypeOK, MutexInv, InCall
  <2>2. SetupInv'
    BY <1>t, <1>4, OneInCall DEF TunnelStarted, TypeOK, SetupInv, BuildInv,
         CacheEmpty, InCall
  <2>3. BuildInv'
    BY <1>t, <1>4, OneInCall DEF TunnelStarted, TypeOK, BuildInv,
         CacheEmpty, InCall
  <2>4. ReturnedInv'
    BY <1>t, <1>4 DEF TunnelStarted, TypeOK, BuildInv, ReturnedInv
  <2> QED
    BY <2>1, <2>2, <2>3, <2>4 DEF CallInv
<1>5. CASE Lookup(t)
  <2>1. MutexInv'
    BY <1>t, <1>5, ThreadsAssumption DEF Lookup, Miss, TypeOK, MutexInv, InCall
  <2>2. SetupInv'
    BY <1>t, <1>5, OneInCall DEF Lookup, Miss, TypeOK, SetupInv, BuildInv,
         CacheEmpty, InCall
  <2>3. BuildInv'
    BY <1>t, <1>5, OneInCall DEF Lookup, Miss, TypeOK, BuildInv,
         CacheEmpty, InCall
  <2>4. ReturnedInv'
    BY <1>t, <1>5 DEF Lookup, Miss, TypeOK, BuildInv, ReturnedInv
  <2> QED
    BY <2>1, <2>2, <2>3, <2>4 DEF CallInv
<1>6. CASE InitKCluster(t)
  <2>1. MutexInv'
    BY <1>t, <1>6, ThreadsAssumption DEF InitKCluster, Reachable, TypeOK, MutexInv, InCall
  <2>2. SetupInv'
    BY <1>t, <1>6, OneInCall DEF InitKCluster, Reachable, TypeOK, SetupInv, BuildInv,
         CacheEmpty, InCall
  <2>3. BuildInv'
    BY <1>t, <1>6, OneInCall DEF InitKCluster, Reachable, TypeOK, BuildInv,
         CacheEmpty, InCall
  <2>4. ReturnedInv'
    BY <1>t, <1>6 DEF InitKCluster, Reachable, TypeOK, BuildInv, ReturnedInv
  <2> QED
    BY <2>1, <2>2, <2>3, <2>4 DEF CallInv
<1>7. CASE CreateNs(t)
  <2>1. MutexInv'
    BY <1>t, <1>7, ThreadsAssumption DEF CreateNs, TypeOK, MutexInv, InCall
  <2>2. SetupInv'
    BY <1>t, <1>7, OneInCall DEF CreateNs, TypeOK, SetupInv, BuildInv,
         CacheEmpty, InCall
  <2>3. BuildInv'
    BY <1>t, <1>7, OneInCall DEF CreateNs, TypeOK, BuildInv,
         CacheEmpty, InCall
  <2>4. ReturnedInv'
    BY <1>t, <1>7 DEF CreateNs, TypeOK, BuildInv, ReturnedInv
  <2> QED
    BY <2>1, <2>2, <2>3, <2>4 DEF CallInv
<1>8. CASE Store(t)
  <2>1. MutexInv'
    BY <1>t, <1>8, ThreadsAssumption DEF Store, TypeOK, MutexInv, InCall
  <2>2. SetupInv'
    BY <1>t, <1>8, OneInCall DEF Store, TypeOK, SetupInv, BuildInv,
         CacheEmpty, InCall
  <2>3. BuildInv'
    BY <1>t, <1>8, OneInCall DEF Store, TypeOK, BuildInv,
         CacheEmpty, InCall
  <2>4. ReturnedInv'
    BY <1>t, <1>8 DEF Store, TypeOK, BuildInv, ReturnedInv
  <2> QED
    BY <2>1, <2>2, <2>3, <2>4 DEF CallInv
<1>9. CASE Return(t)
  <2>1. MutexInv'
    BY <1>t, <1>9, ThreadsAssumption DEF Return, Unlocked, TypeOK, MutexInv, InCall
  <2>2. SetupInv'
    BY <1>t, <1>9, OneInCall DEF Return, Unlocked, TypeOK, SetupInv, BuildInv,
         CacheEmpty, InCall
  <2>3. BuildInv'
    BY <1>t, <1>9, OneInCall DEF Return, Unlocked, TypeOK, BuildInv,
         CacheEmpty, InCall
  <2>4. ReturnedInv'
    BY <1>t, <1>9 DEF Return, Unlocked, TypeOK, BuildInv, ReturnedInv
  <2> QED
    BY <2>1, <2>2, <2>3, <2>4 DEF CallInv
<1>10. CASE SetupFails(t) \/ InitFails(t)
  BY <1>10, FrameCallInv DEF SetupFails, InitFails, Exit
<1> QED
  BY <1>1, <1>2, <1>3, <1>4, <1>5, <1>6, <1>7, <1>8, <1>9, <1>10
  DEF CallStep, SetupStep, InitStep

(* CallInv is inductive. *)
LEMMA NextCallInv == CallInv /\ [Next]_vars => CallInv'
<1> SUFFICES ASSUME CallInv, [Next]_vars PROVE CallInv'
  OBVIOUS
<1>t. TypeOK'
  BY NextTypeOK DEF CallInv
<1>1. ASSUME NEW t \in Threads, NEW k \in Keys, Call(t, k) PROVE CallInv'
  <2>1. MutexInv' /\ SetupInv' /\ BuildInv' /\ ReturnedInv'
    BY <1>1 DEF Call, At, Goto, CallInv, TypeOK, MutexInv, SetupInv, BuildInv,
                ReturnedInv, InCall, CacheEmpty
  <2> QED
    BY <1>t, <2>1 DEF CallInv
<1>2. ASSUME NEW t \in Threads, Lock(t) \/ CallStep(t) PROVE CallInv'
  BY <1>t, <1>2, CallStepCallInv
<1>3. ASSUME NEW k \in Keys, TunnelListens(k) \/ TunnelFails(k) PROVE CallInv'
  BY <1>t, <1>3, FrameCallInv DEF TunnelListens, TunnelFails, Exit, callVars
<1>4. CASE UNCHANGED vars
  BY <1>t, <1>4, FrameCallInv DEF vars, callVars
<1> QED
  BY <1>1, <1>2, <1>3, <1>4 DEF Next, Exited

(* The mutex, the map of clients and the set-up branch agree at every step,  *)
(* for any number of goroutines.                                             *)
THEOREM CallInvariance == Spec => []CallInv
<1> QED
  BY InitCallInv, NextCallInv, PTL DEF Spec

(* EnsureCluster sets up once, hands out one client per key, and never sets  *)
(* up under a test that has a client.                                        *)
THEOREM SetUpOnceAlways == Spec => []SetUpOnce
<1>1. CallInv => SetUpOnce
  BY DEF CallInv, SetupInv, SetUpOnce
<1> QED
  BY <1>1, CallInvariance, PTL

(* Whoever asks, and whenever, the client of a key is the one in the map.    *)
THEOREM OneClientPerKeyAlways == Spec => []OneClientPerKey
<1>1. CallInv => OneClientPerKey
  BY DEF CallInv, ReturnedInv, OneClientPerKey
<1> QED
  BY <1>1, CallInvariance, PTL

(* While the cluster is being set up the map is empty, so nobody has been    *)
(* given anything.                                                           *)
THEOREM NoSetupUnderTestAlways == Spec => []NoSetupUnderTest
<1>1. CallInv => NoSetupUnderTest
  BY DEF CallInv, SetupInv, ReturnedInv, CacheEmpty, NoSetupUnderTest
<1> QED
  BY <1>1, CallInvariance, PTL

-----------------------------------------------------------------------------
(* The refinement. *)

(* Nothing is established, bound or handed out at the start.                 *)
LEMMA InitRefines == Init => Registry!RegInit
BY DEF Init, Registry!RegInit, Established

(* Steps that show the registry nothing new. *)
LEMMA Unseen ==
  ASSUME UNCHANGED <<proc, clrCache, returned>>, Established' = Established
  PROVE  UNCHANGED Registry!regVars
BY DEF Registry!regVars

(* Every step of a call is a step of the registry or none.                   *)
LEMMA CallStepRefines ==
  ASSUME CallInv, NEW t \in Threads, CallStep(t)
  PROVE  [Registry!RegNext]_(Registry!regVars)
<1> USE DEF At, Goto, CallInv, TypeOK
<1>1. CASE CheckCache(t)
  <2>1. UNCHANGED <<proc, clrCache, returned>>
    BY <1>1 DEF CheckCache
  <2>2. Established' = Established
    <3>1. CASE CacheEmpty
      <4>1. pc[t] = "check" /\ InCall(t)
        BY <1>1 DEF CheckCache, InCall
      <4>2. setups = 0
        BY <3>1, <4>1, OneInCall DEF SetupInv, InCall
      <4>3. pc' = [pc EXCEPT ![t] = "setup"]
        BY <1>1, <3>1 DEF CheckCache, NeedsSetup, CacheEmpty
      <4> QED
        BY <4>2, <4>3 DEF Established
    <3>2. CASE ~CacheEmpty
      <4>1. setups' = setups /\ pc' = [pc EXCEPT ![t] = "lookup"]
        BY <1>1, <3>2 DEF CheckCache, NeedsSetup, CacheEmpty
      <4>2. pc[t] = "check"
        BY <1>1 DEF CheckCache
      <4> QED
        BY <4>1, <4>2 DEF Established
    <3> QED
      BY <3>1, <3>2
  <2> QED
    BY <2>1, <2>2, Unseen
<1>2. CASE ClusterCreated(t) \/ TunnelStarted(t)
  <2>1. /\ proc = "running" /\ pc[t] = "setup" /\ setups' = setups
        /\ pc' = [pc EXCEPT ![t] = "lookup"]
        /\ UNCHANGED <<proc, clrCache, returned>>
    BY <1>2 DEF ClusterCreated, TunnelStarted
  <2>2. setups > 0 /\ \A u \in Threads : pc[u] = "setup" => u = t
    BY <2>1, OneInCall DEF SetupInv, InCall
  <2>3. ~Established /\ Established'
    BY <2>1, <2>2 DEF Established
  <2> QED
    BY <2>1, <2>3 DEF Registry!RegNext, Registry!Establish
<1>3. CASE SetupFails(t) \/ InitFails(t)
  BY <1>3 DEF SetupFails, InitFails, Exit, callVars, Registry!RegNext,
              Registry!Die, Established
<1>4. CASE Lookup(t) \/ InitKCluster(t) \/ CreateNs(t)
  <2>1. UNCHANGED <<proc, clrCache, returned>>
    BY <1>4 DEF Lookup, InitKCluster, CreateNs
  <2>2. Established' = Established
    BY <1>4 DEF Lookup, InitKCluster, CreateNs, Established
  <2> QED
    BY <2>1, <2>2, Unseen
<1>5. CASE Store(t)
  <2>1. /\ pc[t] = "store" /\ proc = "running" /\ InCall(t)
        /\ pc' = [pc EXCEPT ![t] = "return"]
        /\ clrCache' = [clrCache EXCEPT ![key[t]] = cluster[t]]
        /\ UNCHANGED <<proc, setups, returned>>
    BY <1>5 DEF Store, InCall
  <2>2. Established /\ Established'
    <3>1. setups = 1
      BY <2>1 DEF SetupInv
    <3>2. \A u \in Threads : pc[u] = "setup" => InCall(u)
      BY DEF InCall
    <3>3. \A u \in Threads : pc[u] # "setup"
      BY <2>1, <3>2, OneInCall
    <3> QED
      BY <2>1, <3>1, <3>3 DEF Established
  <2>3. /\ key[t] \in Keys /\ clrCache[key[t]] = NoClient
        /\ cluster[t] \in Clients /\ \A k \in Keys : clrCache[k] # cluster[t]
    BY <2>1 DEF BuildInv
  <2>4. Registry!Bind(key[t])
    BY <2>1, <2>2, <2>3 DEF Registry!Bind
  <2> QED
    BY <2>3, <2>4 DEF Registry!RegNext
<1>6. CASE Return(t)
  <2>1. /\ pc[t] = "return" /\ proc = "running" /\ InCall(t)
        /\ pc' = [pc EXCEPT ![t] = "idle"]
        /\ returned' = [returned EXCEPT ![t][key[t]] = clrCache[key[t]]]
        /\ UNCHANGED <<proc, setups, clrCache>>
    BY <1>6 DEF Return, InCall
  <2>2. Established /\ Established'
    <3>1. setups = 1
      BY <2>1 DEF SetupInv
    <3>2. \A u \in Threads : pc[u] = "setup" => InCall(u)
      BY DEF InCall
    <3>3. \A u \in Threads : pc[u] # "setup"
      BY <2>1, <3>2, OneInCall
    <3> QED
      BY <2>1, <3>1, <3>3 DEF Established
  <2>3. key[t] \in Keys /\ clrCache[key[t]] # NoClient
    BY <2>1 DEF BuildInv
  <2>4. Registry!Obtain(t, key[t])
    BY <2>1, <2>2, <2>3 DEF Registry!Obtain
  <2> QED
    BY <2>3, <2>4 DEF Registry!RegNext
<1> QED
  BY <1>1, <1>2, <1>3, <1>4, <1>5, <1>6 DEF CallStep, SetupStep, InitStep

(* EnsureCluster implements the registry of clients.                         *)
THEOREM Implementation == Spec => ImplementsRegistry
<1>1. CallInv /\ [Next]_vars => [Registry!RegNext]_(Registry!regVars)
  <2> SUFFICES ASSUME CallInv, [Next]_vars
               PROVE  [Registry!RegNext]_(Registry!regVars)
    OBVIOUS
  <2>1. ASSUME NEW t \in Threads, NEW k \in Keys, Call(t, k)
        PROVE  [Registry!RegNext]_(Registry!regVars)
    BY <2>1, Unseen DEF Call, At, Goto, Established, CallInv, TypeOK
  <2>2. ASSUME NEW t \in Threads, Lock(t)
        PROVE  [Registry!RegNext]_(Registry!regVars)
    BY <2>2, Unseen DEF Lock, At, Goto, Established, CallInv, TypeOK
  <2>3. ASSUME NEW t \in Threads, CallStep(t)
        PROVE  [Registry!RegNext]_(Registry!regVars)
    BY <2>3, CallStepRefines
  <2>4. ASSUME NEW k \in Keys, TunnelListens(k)
        PROVE  [Registry!RegNext]_(Registry!regVars)
    BY <2>4, Unseen DEF TunnelListens, callVars, Established
  <2>5. ASSUME NEW k \in Keys, TunnelFails(k)
        PROVE  [Registry!RegNext]_(Registry!regVars)
    BY <2>5 DEF TunnelFails, Exit, callVars, Registry!RegNext, Registry!Die,
                Established
  <2>6. CASE UNCHANGED vars
    BY <2>6, Unseen DEF vars, Established
  <2> QED
    BY <2>1, <2>2, <2>3, <2>4, <2>5, <2>6 DEF Next, Exited
<1> QED
  BY <1>1, InitRefines, CallInvariance, PTL
  DEF Spec, ImplementsRegistry, Registry!RegSpec
-----------------------------------------------------------------------------
(* CallsEnd is a liveness property.  What the fairness has to be added to:   *)
(* whoever has the mutex comes nearer to giving it back with each step, and  *)
(* the steps of others cannot take it further away.                          *)

ToUnlock == [check |-> 7, setup |-> 6, lookup |-> 5, init |-> 4, createNs |-> 3,
             store |-> 2, return |-> 1, lock |-> 0, idle |-> 0]
Left(t) == ToUnlock[pc[t]]

(* A call ends seven steps after it has got the mutex, or the process does;  *)
(* in between the mutex stays with it, whatever the others ask for.          *)
THEOREM HeldBriefly ==
  Spec => [][\A t \in Threads : mx = t =>
               /\ Left(t) \in 1..7
               /\ CallStep(t) => Left(t)' < Left(t) \/ proc' = "exited"
               /\ ~CallStep(t) => mx' = t /\ Left(t)' = Left(t)]_vars
<1>1. CallInv /\ [Next]_vars =>
        [\A t \in Threads : mx = t =>
           /\ Left(t) \in 1..7
           /\ CallStep(t) => Left(t)' < Left(t) \/ proc' = "exited"
           /\ ~CallStep(t) => mx' = t /\ Left(t)' = Left(t)]_vars
  <2> SUFFICES ASSUME CallInv, Next, NEW t \in Threads, mx = t
               PROVE  /\ Left(t) \in 1..7
                      /\ CallStep(t) => Left(t)' < Left(t) \/ proc' = "exited"
                      /\ ~CallStep(t) => mx' = t /\ Left(t)' = Left(t)
    OBVIOUS
  <2> USE DEF CallInv, TypeOK
  <2>1. pc[t] \in PcStates \ {"idle", "lock"}
    BY DEF MutexInv, InCall
  <2>2. Left(t) \in 1..7
    BY <2>1 DEF Left, ToUnlock, PcStates
  <2>3. ASSUME CallStep(t) PROVE Left(t)' < Left(t) \/ proc' = "exited"
    <3> USE DEF Left, ToUnlock, At, Goto, Exit
    <3>1. CASE CheckCache(t) \/ Lookup(t)
      BY <3>1 DEF CheckCache, Lookup
    <3>2. CASE SetupStep(t)
      BY <3>2 DEF SetupStep, ClusterCreated, TunnelStarted, SetupFails
    <3>3. CASE InitStep(t)
      BY <3>3 DEF InitStep, InitKCluster, InitFails
    <3>4. CASE CreateNs(t) \/ Store(t) \/ Return(t)
      BY <3>4 DEF CreateNs, Store, Return
    <3> QED
      BY <2>3, <3>1, <3>2, <3>3, <3>4 DEF CallStep
  <2>4. ASSUME ~CallStep(t) PROVE mx' = t /\ pc'[t] = pc[t]
    <3>1. ASSUME NEW u \in Threads, NEW k \in Keys, Call(u, k)
          PROVE  mx' = t /\ pc'[t] = pc[t]
      BY <2>1, <3>1 DEF Call, At, Goto
    <3>2. ASSUME NEW u \in Threads, Lock(u) PROVE FALSE
      BY <3>2, ThreadsAssumption DEF Lock
    <3>3. ASSUME NEW u \in Threads, CallStep(u) PROVE mx' = t /\ pc'[t] = pc[t]
      <4>1. InCall(u)
        BY <3>3 DEF CallStep, CheckCache, SetupStep, ClusterCreated, TunnelStarted,
                    SetupFails, Lookup, InitStep, InitKCluster, InitFails,
                    CreateNs, Store, Return, At, InCall
      <4>2. u = t
        BY <4>1 DEF MutexInv
      <4> QED
        BY <2>4, <3>3, <4>2
    <3>4. ASSUME NEW k \in Keys, TunnelListens(k) \/ TunnelFails(k)
          PROVE  mx' = t /\ pc'[t] = pc[t]
      BY <3>4 DEF TunnelListens, TunnelFails, Exit, callVars
    <3>5. CASE Exited
      BY <3>5 DEF Exited, vars, callVars
    <3> QED
      BY <3>1, <3>2, <3>3, <3>4, <3>5 DEF Next
  <2>5. ~CallStep(t) => Left(t)' = Left(t)
    BY <2>4 DEF Left
  <2> QED
    BY <2>2, <2>3, <2>4, <2>5
<1> QED
  BY <1>1, CallInvariance, PTL DEF Spec
==============================================================================
