--------------------------- MODULE NsLifecycleProofs ---------------------------
(***************************************************************************)
(* The test namespaces for any number of runs and names: what clean-up and *)
(* reinitialization can never do to one another.                           *)
(***************************************************************************)
EXTENDS NsLifecycle, FiniteSetTheorems, TLAPS

(* NsInv holds before any run has started.                                   *)
LEMMA InitNsInv == Init => NsInv
<1> SUFFICES ASSUME Init PROVE NsInv
  OBVIOUS
<1>1. TypeOK
  <2>1. now \in Nat /\ gen \in [Names -> Nat] /\ born \in [Names -> Nat]
    <3>1. now \in Nat
      <4>1. now = CleanUpAge + 1
        BY Zenon DEF Init
      <4> QED
        BY <4>1, TimesAssumption
    <3>2. gen \in [Names -> {0, 1}] /\ born \in [Names -> {0}]
      BY DEF Init
    <3> QED
      BY <3>1, <3>2
  <2>2. phase \in [Names -> {"absent", "active", "terminating"}]
    BY DEF Init
  <2>3. pc \in [Runs -> PcStates] /\ old \in [Runs -> SUBSET Names]
    BY DEF Init, PcStates
  <2>4. started \in [Runs -> Nat] /\ genThen \in [Runs -> Nat] /\ made \in [Runs -> Nat]
    BY DEF Init
  <2> QED
    BY <2>1, <2>2, <2>3, <2>4 DEF Init, TypeOK
<1>2. GenInv /\ OldInv
  <2>1. \A n \in Names : gen[n] >= 0
    BY <1>1 DEF TypeOK
  <2>2. \A r \in Runs : /\ pc[r] = "off" /\ made[r] = 0 /\ old[r] = {}
                        /\ name[r] \in Names
    BY DEF Init
  <2> QED
    BY <2>1, <2>2 DEF GenInv, OldInv
<1> QED
  BY <1>1, <1>2 DEF NsInv

(* Every step keeps the types.                                               *)
LEMMA NextTypeOK == TypeOK /\ OldInv /\ [Next]_vars => TypeOK'
<1> SUFFICES ASSUME TypeOK, OldInv, [Next]_vars PROVE TypeOK'
  OBVIOUS
<1> USE DEF TypeOK, PcStates, Goto, Delete, nsVars, runVars
<1>1. ASSUME NEW r \in Runs, Start(r) \/ Finish(r) \/ Die(r) PROVE TypeOK'
  <2>1. CASE Start(r)
    <3>1. pc' \in [Runs -> PcStates]
      BY <2>1 DEF Start
    <3>2. started' \in [Runs -> Nat] /\ genThen' \in [Runs -> Nat]
      BY <2>1 DEF Start
    <3> QED
      BY <2>1, <3>1, <3>2 DEF Start
  <2>2. CASE Finish(r) \/ Die(r)
    BY <2>2 DEF Finish, Die
  <2> QED
    BY <1>1, <2>1, <2>2
<1>2. ASSUME NEW r \in Runs, DeleteOld(r) \/ SeeGone(r) \/ CleanDone(r)
      PROVE  TypeOK'
  BY <1>2 DEF DeleteOld, SeeGone, CleanDone
<1>3. ASSUME NEW r \in Runs, ListOld(r) PROVE TypeOK'
  BY <1>3 DEF ListOld, Cleanable, Names
<1>4. ASSUME NEW r \in Runs, CleanOne(r) PROVE TypeOK'
  BY <1>4 DEF CleanOne
<1>5. ASSUME NEW r \in Runs, CreateNs(r) PROVE TypeOK'
  BY <1>5 DEF CreateNs
<1>6. CASE (\E n \in Names : NsGone(n)) \/ Tick \/ UNCHANGED vars
  BY <1>6 DEF NsGone, Tick, vars
<1> QED
  BY <1>1, <1>2, <1>3, <1>4, <1>5, <1>6 DEF Next, Prepare

(* What becomes of a namespace in a step: it stays, it begins to go, it is   *)
(* gone, or a new one takes its name.                                        *)
LEMMA NamespaceSteps ==
  ASSUME TypeOK, [Next]_vars, NEW n \in Names
  PROVE  \/ gen'[n] = gen[n] /\ (phase'[n] = "active" => phase[n] = "active")
                             /\ (phase[n] = "absent" => phase'[n] = "absent")
         \/ gen'[n] = gen[n] + 1 /\ phase[n] = "absent" /\ phase'[n] = "active"
<1> USE DEF TypeOK, Delete, nsVars, runVars
<1>1. ASSUME NEW r \in Runs, CreateNs(r)
      PROVE  \/ UNCHANGED <<phase, gen>>
             \/ /\ gen' = [gen EXCEPT ![name[r]] = @ + 1]
                /\ phase' = [phase EXCEPT ![name[r]] = "active"]
                /\ phase[name[r]] = "absent"
  BY <1>1 DEF CreateNs
<1>3. ASSUME NEW r \in Runs, Start(r) \/ SeeGone(r) \/ ListOld(r) \/ CleanDone(r)
                               \/ Finish(r) \/ Die(r)
      PROVE  UNCHANGED <<phase, gen>>
  BY <1>3 DEF Start, SeeGone, ListOld, CleanDone, Finish, Die
<1>5. ASSUME NEW r \in Runs, DeleteOld(r) \/ CleanOne(r)
      PROVE  /\ gen'[n] = gen[n] /\ (phase'[n] = "active" => phase[n] = "active")
             /\ (phase[n] = "absent" => phase'[n] = "absent")
  BY <1>5 DEF DeleteOld, CleanOne
<1>6. CASE (\E m \in Names : NsGone(m)) \/ Tick \/ UNCHANGED vars
  BY <1>6 DEF NsGone, Tick, vars
<1> QED
  BY <1>1, <1>3, <1>5, <1>6 DEF Next, Prepare

(* A step leaves the names and modes alone; a run that does not take it      *)
(* keeps its place and its notes.                                            *)
LEMMA OthersIdle ==
  ASSUME TypeOK, [Next]_vars, NEW q \in Runs
  PROVE  /\ name' = name /\ mode' = mode
         /\ \/ Start(q) \/ Prepare(q) \/ Finish(q) \/ Die(q)
            \/ /\ pc'[q] = pc[q] /\ genThen'[q] = genThen[q]
               /\ made'[q] = made[q] /\ old'[q] = old[q]
<1> USE DEF TypeOK, Goto, nsVars, runVars
<1>1. ASSUME NEW r \in Runs, Start(r) \/ Prepare(r) \/ Finish(r) \/ Die(r)
      PROVE  /\ name' = name /\ mode' = mode
             /\ r # q => /\ pc'[q] = pc[q] /\ genThen'[q] = genThen[q]
                         /\ made'[q] = made[q] /\ old'[q] = old[q]
  BY <1>1 DEF Prepare, Start, DeleteOld, SeeGone, ListOld, CleanOne, CleanDone,
              CreateNs, Finish, Die
<1>2. CASE (\E n \in Names : NsGone(n)) \/ Tick \/ UNCHANGED vars
  BY <1>2 DEF NsGone, Tick, vars
<1> QED
  BY <1>1, <1>2 DEF Next

(* What a run has seen of its namespace stays true, whatever happens to it.  *)
LEMMA NextGenInv == NsInv /\ [Next]_vars => GenInv'
<1> SUFFICES ASSUME NsInv, [Next]_vars, NEW r \in Runs
             PROVE  /\ pc'[r] # "off" => genThen'[r] <= gen'[name'[r]]
                    /\ made'[r] <= gen'[name'[r]]
                    /\ pc'[r] = "gone" /\ gen'[name'[r]] = genThen'[r]
                         => phase'[name'[r]] # "active"
                    /\ pc'[r] \in {"create", "use"} /\ mode'[r] = "reinit" =>
                         \/ gen'[name'[r]] > genThen'[r]
                         \/ phase'[name'[r]] = "absent" /\ pc'[r] = "create"
  BY DEF GenInv
<1> DEFINE n == name[r]
<1>1. /\ n \in Names /\ gen[n] \in Nat /\ genThen[r] \in Nat /\ made[r] \in Nat
      /\ name' = name /\ mode' = mode
  BY OthersIdle DEF NsInv, TypeOK
<1>2. \/ gen'[n] = gen[n] /\ (phase'[n] = "active" => phase[n] = "active")
                          /\ (phase[n] = "absent" => phase'[n] = "absent")
      \/ gen'[n] = gen[n] + 1 /\ phase[n] = "absent" /\ phase'[n] = "active"
  BY <1>1, NamespaceSteps DEF NsInv
<1>3. /\ pc[r] # "off" => genThen[r] <= gen[n]
      /\ made[r] <= gen[n]
      /\ pc[r] = "gone" /\ gen[n] = genThen[r] => phase[n] # "active"
      /\ pc[r] \in {"create", "use"} /\ mode[r] = "reinit" =>
           gen[n] > genThen[r] \/ (phase[n] = "absent" /\ pc[r] = "create")
  BY DEF NsInv, GenInv
<1> HIDE DEF n
<1> USE DEF TypeOK, Goto, nsVars, runVars
<1>4. CASE pc'[r] = pc[r] /\ genThen'[r] = genThen[r] /\ made'[r] = made[r]
  BY <1>1, <1>2, <1>3, <1>4 DEF n
<1>5. CASE Start(r)
  <2>1. /\ genThen'[r] = gen[n] /\ gen' = gen /\ made' = made
        /\ pc'[r] \in {"delete", "list", "create"}
        /\ mode[r] = "reinit" => pc'[r] = "delete"
    BY <1>5 DEF Start, NsInv, n
  <2> QED
    BY <1>1, <1>3, <2>1 DEF n
<1>6. CASE DeleteOld(r)
  <2>1. /\ pc'[r] = "gone" /\ phase'[n] # "active" /\ gen' = gen
        /\ genThen' = genThen /\ made' = made
    BY <1>1, <1>6 DEF DeleteOld, Delete, NsInv, n
  <2> QED
    BY <1>1, <1>3, <1>6, <2>1 DEF DeleteOld, n
<1>7. CASE SeeGone(r)
  <2>1. /\ pc'[r] = (IF phase[n] = "absent" THEN "create" ELSE "dead")
        /\ UNCHANGED <<phase, gen, genThen, made>> /\ pc[r] = "gone"
    BY <1>7 DEF SeeGone, NsInv, n
  <2> QED
    BY <1>1, <1>3, <2>1 DEF n
<1>8. CASE ListOld(r) \/ CleanOne(r) \/ CleanDone(r)
  <2>1. /\ pc'[r] \in {"clean", "create"} /\ mode[r] # "reinit"
        /\ genThen' = genThen /\ made' = made /\ pc[r] # "off"
    BY <1>8 DEF ListOld, CleanOne, CleanDone, NsInv, OldInv
  <2> QED
    BY <1>1, <1>2, <1>3, <2>1 DEF n
<1>9. CASE CreateNs(r)
  <2>1. /\ pc[r] = "create" /\ pc'[r] = "use" /\ genThen' = genThen
    BY <1>9 DEF CreateNs, NsInv
  <2>2. CASE phase[n] = "absent"
    <3>1. gen'[n] = gen[n] + 1 /\ made'[r] = gen'[n]
      BY <1>1, <1>9, <2>2 DEF CreateNs, NsInv, n
    <3> QED
      BY <1>1, <1>3, <2>1, <3>1 DEF n
  <2>3. CASE phase[n] # "absent"
    <3>1. UNCHANGED <<gen, phase, made>>
      BY <1>9, <2>3 DEF CreateNs, n
    <3> QED
      BY <1>1, <1>3, <2>1, <2>3, <3>1 DEF n
  <2> QED
    BY <2>2, <2>3
<1>10. CASE Finish(r) \/ Die(r)
  <2>1. /\ pc'[r] \in {"done", "dead"} /\ pc[r] # "off"
        /\ UNCHANGED <<gen, genThen, made>>
    BY <1>10 DEF Finish, Die, NsInv
  <2> QED
    BY <1>1, <1>3, <2>1 DEF n
<1> QED
  BY <1>4, <1>5, <1>6, <1>7, <1>8, <1>9, <1>10, OthersIdle DEF Prepare, NsInv

(* cleanUpNs keeps to the temporary names it listed.                         *)
LEMMA NextOldInv == NsInv /\ [Next]_vars => OldInv'
<1> SUFFICES ASSUME NsInv, [Next]_vars, NEW r \in Runs
             PROVE  /\ old'[r] \subseteq TmpNames \ {name'[r]}
                    /\ pc'[r] \in {"list", "clean"} \/ old'[r] # {} => mode'[r] = "free tmp"
                    /\ pc'[r] \in {"delete", "gone"} => mode'[r] = "reinit"
  BY DEF OldInv
<1>1. name' = name /\ mode' = mode /\ TypeOK
  BY OthersIdle DEF NsInv
<1>2. /\ old[r] \subseteq TmpNames \ {name[r]}
      /\ pc[r] \in {"list", "clean"} \/ old[r] # {} => mode[r] = "free tmp"
      /\ pc[r] \in {"delete", "gone"} => mode[r] = "reinit"
  BY DEF NsInv, OldInv
<1>3. CASE pc'[r] = pc[r] /\ old'[r] = old[r]
  BY <1>1, <1>2, <1>3
<1> USE DEF TypeOK, Goto, nsVars, runVars
<1>4. CASE Start(r)
  BY <1>1, <1>2, <1>4 DEF Start
<1>5. CASE DeleteOld(r) \/ SeeGone(r) \/ CleanDone(r) \/ Finish(r) \/ Die(r)
  BY <1>1, <1>2, <1>5 DEF DeleteOld, SeeGone, CleanDone, Finish, Die
<1>6. CASE ListOld(r) \/ CleanOne(r)
  BY <1>1, <1>2, <1>6 DEF ListOld, CleanOne, Cleanable
<1>7. CASE CreateNs(r)
  BY <1>1, <1>2, <1>7 DEF CreateNs
<1> QED
  BY <1>1, <1>3, <1>4, <1>5, <1>6, <1>7, OthersIdle DEF Prepare

(* However many runs share, clean up and reinitialize namespaces, what each  *)
(* has learned of its own one stays true.                                    *)
THEOREM NsInvariance == Spec => []NsInv
<1>1. NsInv /\ [Next]_vars => NsInv'
  BY NextTypeOK, NextGenInv, NextOldInv DEF NsInv
<1> QED
  BY <1>1, InitNsInv, PTL DEF Spec

(* A -namespacereinit run never works in the namespace it found.             *)
THEOREM ReinitFreshAlways == Spec => []ReinitFresh
<1>1. NsInv => ReinitFresh
  BY DEF NsInv, GenInv, ReinitFresh
<1> QED
  BY <1>1, NsInvariance, PTL

(* A namespace whose name does not begin with "e2e-tmp-" goes away only for  *)
(* a run that was told to reinitialize it.                                   *)
THEOREM OnlyReinitDeletesAlways == Spec => OnlyReinitDeletes
<1>1. NsInv /\ [Next]_vars =>
        [\A n \in LikeNames \cup OtherNames :
           phase[n] = "active" /\ phase'[n] # "active" =>
             \E r \in Runs : name[r] = n /\ mode[r] = "reinit" /\ pc[r] = "delete"]_vars
  <2> SUFFICES ASSUME NsInv, Next, NEW n \in LikeNames \cup OtherNames,
                      phase[n] = "active", phase'[n] # "active"
               PROVE  \E r \in Runs :
                        name[r] = n /\ mode[r] = "reinit" /\ pc[r] = "delete"
    OBVIOUS
  <2> USE DEF NsInv, TypeOK, nsVars, runVars
  <2>1. n \in Names /\ n \notin TmpNames
    BY NamesAssumption DEF Names
  <2>2. ASSUME NEW r \in Runs, DeleteOld(r) PROVE name[r] = n /\ mode[r] = "reinit"
    BY <2>1, <2>2 DEF DeleteOld, Delete, OldInv
  <2>3. ASSUME NEW r \in Runs, CleanOne(r) PROVE FALSE
    <3>1. PICK m \in old[r] : Delete(m)
      BY <2>3 DEF CleanOne
    <3>2. m # n
      BY <2>1 DEF OldInv
    <3> QED
      BY <2>1, <3>1, <3>2 DEF Delete
  <2>4. ASSUME NEW r \in Runs, CreateNs(r) PROVE FALSE
    BY <2>1, <2>4 DEF CreateNs
  <2>5. ASSUME NEW r \in Runs, \/ Start(r) \/ SeeGone(r) \/ ListOld(r)
                               \/ CleanDone(r) \/ Finish(r) \/ Die(r)
        PROVE  FALSE
    BY <2>5 DEF Start, SeeGone, ListOld, CleanDone, Finish, Die
  <2>6. CASE (\E m \in Names : NsGone(m)) \/ Tick
    BY <2>1, <2>6 DEF NsGone, Tick
  <2>7. ASSUME NEW r \in Runs, DeleteOld(r) PROVE pc[r] = "delete"
    BY <2>7 DEF DeleteOld
  <2> QED
    BY <2>2, <2>3, <2>4, <2>5, <2>6, <2>7 DEF Next, Prepare
<1> QED
  BY <1>1, NsInvariance, PTL DEF Spec, OnlyReinitDeletes

-----------------------------------------------------------------------------
(* Why a run may lose the namespace it made (RunKeepsItsNs is violated): it  *)
(* lasts longer than nsCleanUpSeconds, or its name, which is made of the     *)
(* minute and the second, has been another namespace's before.               *)

\* No run that makes up its name has the name of another run or of a
\* namespace that is there.
NamesOfTheirOwn ==
  \A r \in Runs :
    mode[r] = "free tmp" =>
      phase[name[r]] = "absent" /\ \A q \in Runs : name[q] = name[r] => q = r

Unmade == {"off", "list", "clean", "create"}

\* Until a run makes it its namespace is not there; then it is, no older than
\* the run; and nobody is about to delete it.
HasItsNs(r) ==
  /\ Running(r) => started[r] <= now /\ now - started[r] <= Timeout
  /\ pc[r] \in Unmade => phase[name[r]] = "absent"
  /\ pc[r] = "use" => /\ phase[name[r]] = "active" /\ made[r] = gen[name[r]]
                      /\ started[r] <= born[name[r]]
  /\ pc[r] \in Unmade \cup {"use"} => \A q \in Runs : name[r] \notin old[q]

KeepInv ==
  /\ NsInv
  /\ \A r \in Runs : mode[r] = "free tmp" <=> name[r] \in TmpNames
  /\ \A r \in Runs : mode[r] = "free tmp" =>
       /\ HasItsNs(r)
       /\ \A q \in Runs : name[q] = name[r] => q = r

(* Only the run that owns a temporary name does anything to its namespace.   *)
LEMMA OnlyItsRun ==
  ASSUME KeepInv, [Next]_vars, NEW r \in Runs, mode[r] = "free tmp",
         pc[r] \in Unmade \cup {"use"}, ~CreateNs(r)
  PROVE  /\ phase'[name[r]] = phase[name[r]]
         /\ gen'[name[r]] = gen[name[r]]
         /\ born'[name[r]] = born[name[r]]
<1> USE DEF KeepInv, NsInv, TypeOK, nsVars, runVars
<1> DEFINE n == name[r]
<1>1. n \in Names /\ n \in TmpNames /\ phase[n] \in {"absent", "active"}
  BY DEF HasItsNs
<1>2. \A q \in Runs : q # r => name[q] # n
  OBVIOUS
<1>3. \A q \in Runs : n \notin old[q]
  BY DEF HasItsNs
<1> HIDE DEF n
<1>4. ASSUME NEW q \in Runs, DeleteOld(q)
      PROVE  phase'[n] = phase[n] /\ gen'[n] = gen[n] /\ born'[n] = born[n]
  <2>1. mode[q] = "reinit"
    BY <1>4 DEF DeleteOld, OldInv
  <2>2. name[q] # n
    BY <1>2, <2>1
  <2> QED
    BY <1>1, <1>4, <2>2 DEF DeleteOld, Delete
<1>5. ASSUME NEW q \in Runs, CleanOne(q)
      PROVE  phase'[n] = phase[n] /\ gen'[n] = gen[n] /\ born'[n] = born[n]
  <2>1. PICK m \in old[q] : Delete(m)
    BY <1>5 DEF CleanOne
  <2>2. m # n
    BY <1>3
  <2> QED
    BY <1>1, <2>1, <2>2 DEF Delete
<1>6. ASSUME NEW q \in Runs, CreateNs(q)
      PROVE  phase'[n] = phase[n] /\ gen'[n] = gen[n] /\ born'[n] = born[n]
  <2>1. name[q] # n
    BY <1>2, <1>6
  <2> QED
    BY <1>1, <1>6, <2>1 DEF CreateNs
<1>7. ASSUME NEW q \in Runs, \/ Start(q) \/ SeeGone(q) \/ ListOld(q)
                             \/ CleanDone(q) \/ Finish(q) \/ Die(q)
      PROVE  phase'[n] = phase[n] /\ gen'[n] = gen[n] /\ born'[n] = born[n]
  BY <1>7 DEF Start, SeeGone, ListOld, CleanDone, Finish, Die
<1>8. ASSUME NEW m \in Names, NsGone(m)
      PROVE  phase'[n] = phase[n] /\ gen'[n] = gen[n] /\ born'[n] = born[n]
  <2>1. m # n
    BY <1>1, <1>8 DEF NsGone
  <2> QED
    BY <1>1, <1>8, <2>1 DEF NsGone
<1>9. CASE Tick \/ UNCHANGED vars
  BY <1>9 DEF Tick, vars
<1> QED
  BY <1>4, <1>5, <1>6, <1>7, <1>8, <1>9 DEF Next, Prepare, n

(* What a run that is not too old has made is not too old.                   *)
LEMMA NotOlder ==
  ASSUME NEW s \in Nat, NEW b \in Nat, NEW t \in Nat, s <= b,
         NEW long \in Nat, NEW age \in Nat, t - s <= long, long <= age
  PROVE  ~(t - b > age)
OBVIOUS

(* A namespace that is not there, or not older than nsCleanUpSeconds, gets   *)
(* on nobody's list.                                                         *)
LEMMA NotListed ==
  ASSUME Timeout <= CleanUpAge, KeepInv, [Next]_vars,
         NEW r \in Runs, mode[r] = "free tmp", pc[r] \in Unmade \cup {"use"},
         NEW q \in Runs
  PROVE  name[r] \notin old'[q]
<1> USE DEF KeepInv, NsInv, TypeOK, nsVars, runVars
<1>1. name[r] \notin old[q]
  BY DEF HasItsNs
<1>2. CASE ListOld(q)
  <2>1. old'[q] = old[q] \/
          old'[q] = {n \in Cleanable \ {name[q]} :
                       phase[n] # "absent" /\ now - born[n] > CleanUpAge}
    BY <1>2 DEF ListOld
  <2>2. phase[name[r]] = "absent" \/ ~(now - born[name[r]] > CleanUpAge)
    <3>1. CASE pc[r] = "use"
      <4>1. started[r] <= born[name[r]] /\ now - started[r] <= Timeout
        BY <3>1 DEF HasItsNs, Running
      <4>2. started[r] \in Nat /\ born[name[r]] \in Nat /\ now \in Nat
        OBVIOUS
      <4>3. Timeout \in Nat /\ CleanUpAge \in Nat /\ Timeout <= CleanUpAge
        BY TimesAssumption
      <4> HIDE DEF KeepInv, NsInv, TypeOK
      <4> QED
        BY <4>1, <4>2, <4>3, NotOlder
    <3>2. CASE pc[r] \in Unmade
      BY <3>2 DEF HasItsNs
    <3> QED
      BY <3>1, <3>2
  <2> QED
    BY <1>1, <2>1, <2>2
<1>3. CASE CleanOne(q)
  <2>1. old'[q] \subseteq old[q]
    BY <1>3 DEF CleanOne
  <2> QED
    BY <1>1, <2>1
<1>4. CASE old'[q] = old[q]
  BY <1>1, <1>4
<1> QED
  BY <1>2, <1>3, <1>4, OthersIdle DEF Prepare, Start, DeleteOld, SeeGone,
     CleanDone, CreateNs, Finish, Die

(* -timeout kills a run.                                                     *)
LEMMA LastsTimeout ==
  ASSUME TypeOK, [Next]_vars, NEW r \in Runs,
         Running(r) => started[r] <= now /\ now - started[r] <= Timeout
  PROVE  Running(r)' => started'[r] <= now' /\ now' - started'[r] <= Timeout
<1>1. now \in Nat /\ started \in [Runs -> Nat] /\ started[r] \in Nat
  BY DEF TypeOK
<1>2. CASE Start(r)
  <2>1. started'[r] = now /\ now' = now
    BY <1>1, <1>2 DEF Start
  <2> QED
    BY <1>1, <2>1, TimesAssumption
<1>3. CASE Tick
  <2>1. Running(r) => now - started[r] < Timeout
    BY <1>3 DEF Tick
  <2>2. now' = now + 1 /\ started'[r] = started[r] /\ pc'[r] = pc[r]
    BY <1>3 DEF Tick, runVars
  <2> QED
    BY <1>1, <2>1, <2>2, TimesAssumption DEF Running
<1>4. CASE ~Start(r) /\ ~Tick
  <2> DEFINE Same == /\ now' = now /\ started'[r] = started[r]
                     /\ Running(r)' => Running(r)
  <2>1. Same
    <3> USE <1>1, <1>4 DEF TypeOK, Goto, nsVars, runVars, Running
    <3>1. ASSUME NEW q \in Runs, Start(q) PROVE Same
      BY <3>1 DEF Start
    <3>2. ASSUME NEW q \in Runs, Prepare(q) \/ Finish(q) \/ Die(q) PROVE Same
      BY <3>2 DEF Prepare, DeleteOld, Delete, SeeGone, ListOld, CleanOne,
         CleanDone, CreateNs, Finish, Die
    <3>3. CASE (\E n \in Names : NsGone(n)) \/ UNCHANGED vars
      BY <3>3 DEF NsGone, vars
    <3> QED
      BY <3>1, <3>2, <3>3 DEF Next
  <2> QED
    BY <2>1
<1> QED
  BY <1>2, <1>3, <1>4

(* Every step leaves such a run what it has.                                 *)
LEMMA NextHasItsNs ==
  ASSUME Timeout <= CleanUpAge, KeepInv, [Next]_vars,
         NEW r \in Runs, mode[r] = "free tmp"
  PROVE  HasItsNs(r)'
<1> USE DEF KeepInv, NsInv, TypeOK, nsVars, runVars, Goto
<1> DEFINE n == name[r]
<1>1. /\ n \in Names /\ name' = name /\ TypeOK' /\ HasItsNs(r)
  BY OthersIdle, NextTypeOK
<1>2. \/ Start(r) \/ Prepare(r) \/ Finish(r) \/ Die(r)
      \/ pc'[r] = pc[r] /\ made'[r] = made[r]
  BY OthersIdle
<1>3. pc[r] \in PcStates /\ pc[r] \notin {"delete", "gone"}
  BY DEF OldInv
<1>4. pc[r] \in Unmade \cup {"use"} \/ pc'[r] \in {"done", "dead"}
  <2>1. CASE pc[r] \in {"done", "dead"}
    BY <1>2, <2>1 DEF Start, Prepare, DeleteOld, SeeGone, ListOld, CleanOne,
       CleanDone, CreateNs, Finish, Die
  <2> QED
    BY <1>3, <2>1 DEF PcStates, Unmade
<1>5. CASE pc'[r] \in {"done", "dead"}
  BY <1>5 DEF HasItsNs, Running, Unmade
<1>6. CASE pc[r] \in Unmade \cup {"use"} /\ pc'[r] \notin {"done", "dead"}
  <2>1. Running(r)' => started'[r] <= now' /\ now' - started'[r] <= Timeout
    BY <1>1, LastsTimeout DEF HasItsNs
  <2>2. \A q \in Runs : n \notin old'[q]
    BY <1>6, NotListed
  <2>3. CASE CreateNs(r)
    <3>1. phase[n] = "absent"
      BY <1>1, <2>3 DEF CreateNs, HasItsNs, Unmade
    <3>2. /\ pc'[r] = "use" /\ phase'[n] = "active" /\ made'[r] = gen'[n]
          /\ born'[n] = now /\ started' = started /\ pc[r] = "create"
      BY <1>1, <2>3, <3>1 DEF CreateNs
    <3>3. started[r] <= now
      BY <1>1, <3>2 DEF HasItsNs, Running
    <3> QED
      BY <1>1, <2>1, <2>2, <3>2, <3>3 DEF HasItsNs, Unmade
  <2>4. CASE ~CreateNs(r)
    <3>1. phase'[n] = phase[n] /\ gen'[n] = gen[n] /\ born'[n] = born[n]
      BY <1>6, <2>4, OnlyItsRun
    <3>2. pc'[r] \in Unmade => pc[r] \in Unmade
      BY <1>2, <1>6, <2>4 DEF Start, Prepare, DeleteOld, SeeGone, ListOld,
         CleanOne, CleanDone, Finish, Die, Unmade
    <3>3. pc'[r] = "use" =>
            pc[r] = "use" /\ made'[r] = made[r] /\ started'[r] = started[r]
      <4>1. ASSUME pc'[r] = "use" PROVE pc[r] = "use" /\ made'[r] = made[r]
        BY <1>2, <1>3, <2>4, <4>1 DEF Start, Prepare, DeleteOld, SeeGone, ListOld,
           CleanOne, CleanDone, Finish, Die
      <4>2. ASSUME pc'[r] = "use" PROVE started'[r] = started[r]
        <5>1. ~Start(r)
          BY <4>2 DEF Start
        <5> QED
          BY <5>1 DEF Next, Prepare, Start, DeleteOld, Delete, SeeGone, ListOld,
             CleanOne, CleanDone, CreateNs, Finish, Die, NsGone, Tick, vars
      <4> QED
        BY <4>1, <4>2
    <3> QED
      BY <1>1, <2>1, <2>2, <3>1, <3>2, <3>3 DEF HasItsNs
  <2> QED
    BY <2>3, <2>4
<1> QED
  BY <1>4, <1>5, <1>6

(* A run that ends within nsCleanUpSeconds, under a name that nobody else    *)
(* has had, keeps the namespace it made: both conditions are needed, and     *)
(* neither the command line of the README nor envInit's names ensure them.   *)
THEOREM RunKeepsItsNsInTime ==
  ASSUME Timeout <= CleanUpAge
  PROVE  Spec /\ NamesOfTheirOwn => []RunKeepsItsNs
<1>1. Init /\ NamesOfTheirOwn => KeepInv
  <2> SUFFICES ASSUME Init, NamesOfTheirOwn PROVE KeepInv
    OBVIOUS
  <2>1. \A r \in Runs : mode[r] = "free tmp" => HasItsNs(r)
    <3>1. \A r \in Runs : pc[r] = "off" /\ old[r] = {}
      BY DEF Init
    <3> QED
      BY <3>1 DEF NamesOfTheirOwn, HasItsNs, Running
  <2>2. \A r \in Runs : mode[r] = "free tmp" <=> name[r] \in TmpNames
    BY DEF Init
  <2> QED
    BY <2>1, <2>2, InitNsInv DEF KeepInv, NamesOfTheirOwn
<1>2. KeepInv /\ [Next]_vars => KeepInv'
  <2> SUFFICES ASSUME KeepInv, [Next]_vars PROVE KeepInv'
    OBVIOUS
  <2>1. NsInv'
    BY NextTypeOK, NextGenInv, NextOldInv DEF KeepInv, NsInv
  <2>2. \A r \in Runs : name' = name /\ mode' = mode
    BY OthersIdle DEF KeepInv, NsInv
  <2>3. \A r \in Runs : mode[r] = "free tmp" => HasItsNs(r)'
    BY NextHasItsNs
  <2> QED
    BY <2>1, <2>2, <2>3 DEF KeepInv
<1>3. KeepInv => RunKeepsItsNs
  <2> SUFFICES ASSUME KeepInv, NEW r \in Runs, pc[r] = "use", mode[r] = "free tmp"
               PROVE  phase[name[r]] = "active" /\ gen[name[r]] = made[r]
    BY DEF RunKeepsItsNs
  <2> QED
    BY DEF KeepInv, HasItsNs
<1> QED
  BY <1>1, <1>2, <1>3, PTL DEF Spec
-----------------------------------------------------------------------------
(* PrepareEnds is a liveness property.  What the fairness has to be added    *)
(* to: every request brings a run nearer to the end of prepareNamespace, and *)
(* neither time nor the other runs throw it back.                            *)

\* A listing has the temporary names at most; each is deleted once.
StepsLeft(r) ==
  [off |-> 0, delete |-> 3, gone |-> 2, list |-> Cardinality(TmpNames) + 3,
   clean |-> Cardinality(old[r]) + 2, create |-> 1,
   use |-> 0, done |-> 0, dead |-> 0][pc[r]]

(* The list of names to delete is finite.                                    *)
LEMMA OldFinite ==
  ASSUME IsFiniteSet(TmpNames), NEW S, S \subseteq TmpNames
  PROVE  IsFiniteSet(S) /\ Cardinality(S) \in 0..Cardinality(TmpNames)
BY FS_Subset, FS_CardinalityType

(* Every request is one fewer to make.                                       *)
LEMMA PrepareCounts ==
  ASSUME IsFiniteSet(TmpNames), NsInv, NsInv', NEW r \in Runs, Prepare(r)
  PROVE  StepsLeft(r)' < StepsLeft(r)
<1> DEFINE K == Cardinality(TmpNames)
           O == Cardinality(old[r])
<1>1. /\ IsFiniteSet(old[r]) /\ O \in 0..K /\ O' \in 0..K /\ K \in Nat
  BY OldFinite, FS_CardinalityType DEF NsInv, OldInv
<1>2. r \in DOMAIN pc
  BY DEF NsInv, TypeOK
<1> USE DEF Goto
<1>3. CASE DeleteOld(r) \/ SeeGone(r) \/ CreateNs(r)
  <2>1. \/ pc[r] = "delete" /\ pc'[r] = "gone"
        \/ pc[r] = "gone" /\ pc'[r] \in {"create", "dead"}
        \/ pc[r] = "create" /\ pc'[r] = "use"
    BY <1>2, <1>3 DEF DeleteOld, SeeGone, CreateNs
  <2> QED
    BY <2>1 DEF StepsLeft
<1>4. CASE ListOld(r)
  <2>1. pc[r] = "list" /\ pc'[r] = "clean"
    BY <1>2, <1>4 DEF ListOld
  <2>2. StepsLeft(r) = K + 3 /\ StepsLeft(r)' = O' + 2
    BY <2>1 DEF StepsLeft
  <2>3. O' <= K /\ O' \in Nat /\ K \in Nat
    BY <1>1
  <2>4. \A o, k \in Nat : o <= k => o + 2 < k + 3
    OBVIOUS
  <2>5. O' + 2 < K + 3
    BY <2>3, <2>4, Zenon
  <2> QED
    BY <2>2, <2>5
<1>5. CASE CleanOne(r)
  <2>1. PICK n \in old[r] : old' = [old EXCEPT ![r] = @ \ {n}]
    BY <1>5 DEF CleanOne
  <2>2. pc[r] = "clean" /\ pc' = pc
    BY <1>5 DEF CleanOne
  <2>3. old'[r] = old[r] \ {n}
    BY <2>1 DEF NsInv, TypeOK
  <2>4. O' = O - 1
    BY <1>1, <2>3, FS_RemoveElement
  <2>5. StepsLeft(r) = O + 2 /\ StepsLeft(r)' = O' + 2
    BY <2>2 DEF StepsLeft
  <2> HIDE DEF K, O
  <2> QED
    BY <1>1, <2>4, <2>5
<1>6. CASE CleanDone(r)
  <2>1. pc[r] = "clean" /\ pc'[r] = "create"
    BY <1>2, <1>6 DEF CleanDone
  <2>2. StepsLeft(r) = O + 2 /\ StepsLeft(r)' = 1
    BY <2>1 DEF StepsLeft
  <2> HIDE DEF K, O
  <2> QED
    BY <1>1, <2>2
<1> QED
  BY <1>3, <1>4, <1>5, <1>6 DEF Prepare

(* prepareNamespace takes one request for each temporary name and three      *)
(* more, at most; nobody else's clean-up, no namespace that comes or goes    *)
(* and no time that passes makes it longer.                                  *)
THEOREM PrepareIsBounded ==
  ASSUME IsFiniteSet(TmpNames)
  PROVE  Spec => [][\A r \in Runs :
                      /\ StepsLeft(r) \in 0..(Cardinality(TmpNames) + 3)
                      /\ Prepare(r) => StepsLeft(r)' < StepsLeft(r)
                      /\ ~Start(r) => StepsLeft(r)' <= StepsLeft(r)]_vars
<1>1. NsInv /\ NsInv' /\ [Next]_vars =>
        [\A r \in Runs :
           /\ StepsLeft(r) \in 0..(Cardinality(TmpNames) + 3)
           /\ Prepare(r) => StepsLeft(r)' < StepsLeft(r)
           /\ ~Start(r) => StepsLeft(r)' <= StepsLeft(r)]_vars
  <2> SUFFICES ASSUME NsInv, NsInv', Next, NEW r \in Runs
               PROVE  /\ StepsLeft(r) \in 0..(Cardinality(TmpNames) + 3)
                      /\ Prepare(r) => StepsLeft(r)' < StepsLeft(r)
                      /\ ~Start(r) => StepsLeft(r)' <= StepsLeft(r)
    OBVIOUS
  <2>1. /\ Cardinality(TmpNames) \in Nat
        /\ Cardinality(old[r]) \in 0..Cardinality(TmpNames)
        /\ Cardinality(old'[r]) \in 0..Cardinality(TmpNames)
    BY OldFinite, FS_CardinalityType DEF NsInv, OldInv
  <2>2. pc[r] \in PcStates /\ pc'[r] \in PcStates
    BY DEF NsInv, TypeOK
  <2>3. StepsLeft(r) \in 0..(Cardinality(TmpNames) + 3) /\ StepsLeft(r)' \in Nat
    BY <2>1, <2>2 DEF StepsLeft, PcStates
  <2>4. CASE Prepare(r)
    <3>1. StepsLeft(r)' < StepsLeft(r)
      BY <2>4, PrepareCounts
    <3> QED
      BY <2>1, <2>3, <3>1
  <2>5. CASE Finish(r) \/ Die(r)
    <3>1. pc'[r] \in {"done", "dead"}
      BY <2>5 DEF Finish, Die, Goto, NsInv, TypeOK
    <3>2. StepsLeft(r)' = 0
      BY <3>1 DEF StepsLeft
    <3> QED
      BY <2>1, <2>3, <3>2, PrepareCounts
  <2>6. CASE pc'[r] = pc[r] /\ old'[r] = old[r]
    <3>1. StepsLeft(r)' = StepsLeft(r)
      BY <2>6 DEF StepsLeft
    <3> QED
      BY <2>1, <2>3, <3>1, PrepareCounts
  <2>7. CASE Start(r)
    BY <2>3, <2>7, PrepareCounts
  <2> QED
    BY <2>4, <2>5, <2>6, <2>7, OthersIdle DEF NsInv
<1> QED
  BY <1>1, NsInvariance, PTL DEF Spec
==============================================================================
