---------------------------- MODULE EnsureCluster ----------------------------
(***************************************************************************)
(* testkit_v2/util/kube_cluster.go: the goroutines of one test binary ask  *)
(* EnsureCluster for a client of the test cluster or of the hypervisor     *)
(* cluster.  The first call, under the global mutex mx, sets the cluster   *)
(* up; a client is built once per key and kept in the global map clrCache. *)
(* ClusterCreate, which ClusterCreate.tla models step by step, is here one *)
(* long call that completes or kills the process: Fatalf is log.Fatalf.    *)
(***************************************************************************)
EXTENDS Naturals

CONSTANTS Threads,     \* goroutines running tests
          NoThread,    \* mx is free
          Clients,     \* the *KCluster values InitKCluster can return
          NoClient     \* an absent map entry

ASSUME ThreadsAssumption == NoThread \notin Threads
ASSUME ClientsAssumption == NoClient \notin Clients

(***************************************************************************)
(* The tests use two keys: EnsureCluster("", "") and, where a hypervisor   *)
(* is configured, EnsureCluster(HypervisorKubeConfig, "").                 *)
(***************************************************************************)
Nested == "nested"
Hypervisor == "hypervisor"
Keys == {Nested, Hypervisor}

VARIABLES
  proc,       \* the test binary: "running" or "exited"
  hvFlag,     \* -hypervisorkconfig was given, HypervisorKubeConfig # ""
  mx,         \* the holder of the mutex
  clrCache,   \* the map of clients
  pc,         \* where each goroutine is in EnsureCluster
  key,        \* the key k of the call
  cluster,    \* the local variable cluster of the call
  setups,     \* how many times the set-up branch was entered
  tunnel,     \* the local listener of the ssh tunnel to each cluster
  testNs,     \* TestNS exists in each cluster
  returned    \* what each goroutine was last returned for each key

vars == <<proc, hvFlag, mx, clrCache, pc, key, cluster, setups, tunnel,
          testNs, returned>>

\* What only the goroutine inside EnsureCluster changes.
callVars == <<mx, clrCache, pc, key, cluster, returned>>

PcStates == {"idle", "lock", "check", "setup", "lookup", "init", "createNs",
             "store", "return"}

Init ==
  /\ proc = "running"
  /\ hvFlag \in BOOLEAN
  /\ mx = NoThread
  /\ clrCache = [k \in Keys |-> NoClient]
  /\ pc = [t \in Threads |-> "idle"]
  /\ key = [t \in Threads |-> Nested]
  /\ cluster = [t \in Threads |-> NoClient]
  /\ setups = 0
  /\ tunnel = [k \in Keys |-> "off"]
  /\ testNs = [k \in Keys |-> FALSE]
  /\ returned = [t \in Threads |-> [k \in Keys |-> NoClient]]

At(t, l) == proc = "running" /\ pc[t] = l
Goto(t, l) == pc' = [pc EXCEPT ![t] = l]

\* Fatalf: the whole process ends, whatever the other goroutines are doing.
Exit ==
  /\ proc' = "exited"
  /\ UNCHANGED <<hvFlag, callVars, setups, tunnel, testNs>>

-----------------------------------------------------------------------------
(* One call of EnsureCluster. *)

\* Tests ask for the nested cluster first, and for the hypervisor only after
\* they found HypervisorKubeConfig set.
Call(t, k) ==
  /\ At(t, "idle")
  /\ k = Hypervisor => hvFlag /\ returned[t][Nested] # NoClient
  /\ key' = [key EXCEPT ![t] = k]
  /\ Goto(t, "lock")
  /\ UNCHANGED <<proc, hvFlag, mx, clrCache, cluster, setups, tunnel, testNs,
                 returned>>

\* A regression: mx is an RWMutex, and the map is "only read" most times.
LockShared(t) ==
  /\ At(t, "lock")
  /\ Goto(t, "check")
  /\ UNCHANGED <<proc, hvFlag, mx, clrCache, key, cluster, setups, tunnel,
                 testNs, returned>>

Lock(t) ==
  /\ At(t, "lock")
  /\ mx = NoThread
  /\ mx' = t
  /\ Goto(t, "check")
  /\ UNCHANGED <<proc, hvFlag, clrCache, key, cluster, setups, tunnel, testNs,
                 returned>>

\* A regression: decide on the set-up by the key of this call only.
NeedsSetupByKey(t) == clrCache[key[t]] = NoClient

NeedsSetup(t) == \A k \in Keys : clrCache[k] = NoClient

CheckCache(t) ==
  /\ At(t, "check")
  /\ IF NeedsSetup(t)
       THEN Goto(t, "setup") /\ setups' = setups + 1
       ELSE Goto(t, "lookup") /\ UNCHANGED setups
  /\ UNCHANGED <<proc, hvFlag, mx, clrCache, key, cluster, tunnel, testNs,
                 returned>>

\* ClusterCreate returned: it started both tunnels, reached both clusters
\* through them, and made TestNS on the hypervisor.
ClusterCreated(t) ==
  /\ At(t, "setup") /\ hvFlag
  /\ Goto(t, "lookup")
  /\ tunnel' = [k \in Keys |-> "listening"]
  /\ testNs' = [testNs EXCEPT ![Hypervisor] = TRUE]
  /\ UNCHANGED <<proc, hvFlag, mx, clrCache, key, cluster, setups, returned>>

\* A cluster that exists already: the tunnel is started in a goroutine that
\* the caller does not wait for.
TunnelStarted(t) ==
  /\ At(t, "setup") /\ ~hvFlag
  /\ Goto(t, "lookup")
  /\ tunnel' = [tunnel EXCEPT ![Nested] = "starting"]
  /\ UNCHANGED <<proc, hvFlag, mx, clrCache, key, cluster, setups, testNs,
                 returned>>

\* envInit, GetSshClient and every step of ClusterCreate end in Fatalf when
\* they fail.
SetupFails(t) == At(t, "setup") /\ Exit

\* A regression: build a client without looking the key up.
MissAlways(t) == TRUE

Miss(t) == clrCache[key[t]] = NoClient

Lookup(t) ==
  /\ At(t, "lookup")
  /\ Goto(t, IF Miss(t) THEN "init" ELSE "return")
  /\ UNCHANGED <<proc, hvFlag, mx, clrCache, key, cluster, setups, tunnel,
                 testNs, returned>>

\* The KCluster values some goroutine or the map still refers to.
Reachable ==
  {cluster[u] : u \in Threads} \cup {clrCache[k] : k \in Keys}
    \cup {returned[u][k] : u \in Threads, k \in Keys}

\* InitKCluster allocates a new KCluster; it makes no request.
InitKCluster(t) ==
  /\ At(t, "init")
  /\ \E c \in Clients \ Reachable : cluster' = [cluster EXCEPT ![t] = c]
  /\ Goto(t, "createNs")
  /\ UNCHANGED <<proc, hvFlag, mx, clrCache, key, setups, tunnel, testNs,
                 returned>>

InitFails(t) == At(t, "init") /\ Exit

\* The first request through the tunnel.  The error is dropped.
CreateNs(t) ==
  /\ At(t, "createNs")
  /\ \/ /\ tunnel[key[t]] = "listening"
        /\ testNs' = [testNs EXCEPT ![key[t]] = TRUE]
     \/ UNCHANGED testNs
  /\ Goto(t, "store")
  /\ UNCHANGED <<proc, hvFlag, mx, clrCache, key, cluster, setups, tunnel,
                 returned>>

Store(t) ==
  /\ At(t, "store")
  /\ clrCache' = [clrCache EXCEPT ![key[t]] = cluster[t]]
  /\ Goto(t, "return")
  /\ UNCHANGED <<proc, hvFlag, mx, key, cluster, setups, tunnel, testNs,
                 returned>>

\* A regression: an early return on a hit that is not covered by the defer.
UnlockAfterMiss(t) == IF cluster[t] = NoClient THEN mx ELSE NoThread

Unlocked(t) == NoThread

Return(t) ==
  /\ At(t, "return")
  /\ returned' = [returned EXCEPT ![t][key[t]] = clrCache[key[t]]]
  /\ mx' = Unlocked(t)
  /\ cluster' = [cluster EXCEPT ![t] = NoClient]
  /\ Goto(t, "idle")
  /\ UNCHANGED <<proc, hvFlag, clrCache, key, setups, tunnel, testNs>>

-----------------------------------------------------------------------------
(* The tunnel goroutine of NewTunnel. *)

TunnelListens(k) ==
  /\ proc = "running"
  /\ tunnel[k] = "starting"
  /\ tunnel' = [tunnel EXCEPT ![k] = "listening"]
  /\ UNCHANGED <<proc, hvFlag, callVars, setups, testNs>>

\* net.Listen or Accept fails, or a forwarded Dial gives up: Fatalf.
TunnelFails(k) ==
  /\ proc = "running"
  /\ tunnel[k] # "off"
  /\ Exit

\* A dead process does nothing.
Exited == proc = "exited" /\ UNCHANGED vars

-----------------------------------------------------------------------------
SetupStep(t) == ClusterCreated(t) \/ TunnelStarted(t) \/ SetupFails(t)

InitStep(t) == InitKCluster(t) \/ InitFails(t)

CallStep(t) ==
  \/ CheckCache(t) \/ SetupStep(t) \/ Lookup(t) \/ InitStep(t)
  \/ CreateNs(t) \/ Store(t) \/ Return(t)

Next ==
  \/ \E t \in Threads, k \in Keys : Call(t, k)
  \/ \E t \in Threads : Lock(t) \/ CallStep(t)
  \/ \E k \in Keys : TunnelListens(k) \/ TunnelFails(k)
  \/ Exited

(***************************************************************************)
(* A goroutine inside the call goes on: every wait in the set-up is        *)
(* bounded by RetrySec, by the retries of Dial or by -timeout.  The mutex  *)
(* of Go hands itself over to a waiter starved for a millisecond, so a     *)
(* goroutine that finds it free again and again gets it.  Nothing makes a  *)
(* test call, and nothing makes the tunnel listen before CreateNs.         *)
(***************************************************************************)
Fairness == \A t \in Threads : WF_vars(CallStep(t)) /\ SF_vars(Lock(t))

Spec == Init /\ [][Next]_vars
FairSpec == Spec /\ Fairness

-----------------------------------------------------------------------------
TypeOK ==
  /\ proc \in {"running", "exited"}
  /\ hvFlag \in BOOLEAN
  /\ mx \in Threads \cup {NoThread}
  /\ clrCache \in [Keys -> Clients \cup {NoClient}]
  /\ pc \in [Threads -> PcStates]
  /\ key \in [Threads -> Keys]
  /\ cluster \in [Threads -> Clients \cup {NoClient}]
  /\ setups \in Nat
  /\ tunnel \in [Keys -> {"off", "starting", "listening"}]
  /\ testNs \in [Keys -> BOOLEAN]
  /\ returned \in [Threads -> [Keys -> Clients \cup {NoClient}]]

\* Past the mutex: between mx.Lock and the deferred Unlock.
InCall(t) == pc[t] \notin {"idle", "lock"}

CacheEmpty == \A k \in Keys : clrCache[k] = NoClient

\* The mutex is held by the one goroutine inside the call, and by no other.
MutexInv == \A t \in Threads : InCall(t) <=> mx = t

\* The map is filled only after the set-up; while it is empty, whoever set
\* up is still inside the call.
SetupInv ==
  /\ setups \in {0, 1}
  /\ ~CacheEmpty => setups = 1
  /\ CacheEmpty /\ setups = 1 =>
       \E t \in Threads :
         pc[t] \in {"setup", "lookup", "init", "createNs", "store"}
  /\ \A t \in Threads :
       /\ InCall(t) /\ pc[t] # "check" => setups = 1
       /\ pc[t] = "setup" => CacheEmpty

\* The client a call is building is for a key without one, and is new.
BuildInv ==
  \A t \in Threads :
    /\ pc[t] \in {"init", "createNs", "store"} => clrCache[key[t]] = NoClient
    /\ pc[t] \in {"createNs", "store"} =>
         cluster[t] \in Clients /\ \A k \in Keys : clrCache[k] # cluster[t]
    /\ pc[t] = "return" => clrCache[key[t]] # NoClient

\* What a goroutine was returned is what the map still holds.
ReturnedInv ==
  \A t \in Threads, k \in Keys : returned[t][k] \in {NoClient, clrCache[k]}

\* The inductive invariant: what the mutex, the map and the set-up branch of
\* EnsureCluster guarantee one another at every step of every goroutine.
CallInv == TypeOK /\ MutexInv /\ SetupInv /\ BuildInv /\ ReturnedInv

\* However many goroutines call first, the environment is read and the
\* cluster created (or the tunnel started) once per process: a second tunnel
\* could not bind the port and would end the run.
SetUpOnce == setups <= 1

\* Two tests that were given a client for the same key were given the same
\* one, at whatever time each of them asked.
OneClientPerKey ==
  \A t, u \in Threads, k \in Keys :
    {returned[t][k], returned[u][k]} \ {NoClient} \in {{}, {clrCache[k]}}

\* Once a test works with a client, no goroutine is setting the cluster up:
\* vmSync, reinit of the namespace and bootstrap never run under a test.
NoSetupUnderTest ==
  (\E t \in Threads, k \in Keys : returned[t][k] # NoClient)
    => \A u \in Threads : pc[u] # "setup"

\* Every call ends: it returns or the process has exited.
CallsEnd ==
  \A t \in Threads :
    (pc[t] = "lock") ~> (pc[t] = "idle" \/ proc = "exited")

\* The cluster counts as established when the one set-up is over.
Established == setups > 0 /\ \A t \in Threads : pc[t] # "setup"

Registry == INSTANCE ClusterRegistry WITH
  alive <- (proc = "running"), established <- Established,
  bound <- clrCache, obtained <- returned

\* EnsureCluster implements the registry of clients the tests rely on.
ImplementsRegistry == Registry!RegSpec
=============================================================================
