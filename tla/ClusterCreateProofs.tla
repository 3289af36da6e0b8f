-------------------------- MODULE ClusterCreateProofs --------------------------
(***************************************************************************)
(* ClusterCreate for any cluster type, any list of modules and any number  *)
(* of crashed runs before: what a run that returns has made sure of, and   *)
(* why no run installs over the work of another.                           *)
(***************************************************************************)
EXTENDS ClusterCreate, FiniteSetTheorems, TLAPS

(* The workers of a cluster type can be counted.                             *)
LEMMA WorkersFinite ==
  IsFiniteSet(Workers) /\ Cardinality(Workers) \in Nat /\ Workers \subseteq Vms
<1>1. IsFiniteSet(Vms)
  BY RolesAssumption, FS_Interval DEF Vms
<1>2. Workers \subseteq Vms
  BY DEF Workers
<1> QED
  BY <1>1, <1>2, FS_Subset, FS_CardinalityType

(* CreateInv holds when the first run starts.                                *)
LEMMA InitCreateInv == Init => CreateInv
<1> SUFFICES ASSUME Init PROVE CreateInv
  OBVIOUS
<1>1. TypeOK
  <2>1. apt \in 0..MaxApt /\ check \in 1..(Len(Checks) + 1) /\ run \in 1..MaxRuns
    BY ChecksAssumption, BoundsAssumption DEF Init
  <2>2. groupSize \in 0..Cardinality(Workers)
    BY WorkersFinite DEF Init
  <2>3. rollout \in [Modules -> Rollouts] /\ jobs \in [Phases -> Nat]
    BY DEF Init, Rollouts
  <2>4. docker \in BOOLEAN
    BY Zenon DEF Init
  <2> QED
    BY <2>1, <2>2, <2>3, <2>4 DEF Init, TypeOK, Stages, PcStates
<1>2. StageInv
  BY DEF Init, StageInv, Untouched, Phases
<1>3. RunInv
  BY DEF Init, RunInv, Untouched, Installing, Joining, Phases
<1>4. JobsInv
  BY BoundsAssumption DEF Init, JobsInv, Phases
<1> QED
  BY <1>1, <1>2, <1>3, <1>4 DEF CreateInv

(* Every step of the run keeps CreateInv.                                    *)
LEMMA RunStepCreateInv == CreateInv /\ RunStep => CreateInv'
<1> SUFFICES ASSUME CreateInv, RunStep PROVE CreateInv'
  OBVIOUS
<1> USE WorkersFinite, ChecksAssumption, BoundsAssumption
    DEF CreateInv, TypeOK, StageInv, RunInv, JobsInv, Stages, Phases, Rollouts,
        PcStates, Untouched, Installing, Joining, Goto, vmVars, clusterVars
<1>1. CASE CheckInstalled
  BY <1>1 DEF CheckInstalled
<1>2. CASE FindDocker
  BY <1>2 DEF FindDocker
<1>3. CASE AptInstalls
  BY <1>3 DEF AptInstalls
<1>4. CASE AptFails
  <2>1. TypeOK'
    BY <1>4 DEF AptFails
  <2>2. StageInv'
    BY <1>4 DEF AptFails
  <2>3. RunInv'
    BY <1>4 DEF AptFails
  <2>4. JobsInv'
    BY <1>4 DEF AptFails
  <2> QED
    BY <2>1, <2>2, <2>3, <2>4
<1>5. CASE StartConfig
  <2>1. TypeOK'
    BY <1>5 DEF StartConfig
  <2>2. StageInv'
    BY <1>5 DEF StartConfig
  <2>3. RunInv'
    BY <1>5 DEF StartConfig
  <2>4. JobsInv'
    BY <1>5 DEF StartConfig
  <2> QED
    BY <2>1, <2>2, <2>3, <2>4
<1>6. CASE StartResources
  <2>1. TypeOK'
    BY <1>6 DEF StartResources
  <2>2. StageInv'
    BY <1>6 DEF StartResources
  <2>3. RunInv'
    BY <1>6 DEF StartResources
  <2>4. JobsInv'
    BY <1>6 DEF StartResources
  <2> QED
    BY <2>1, <2>2, <2>3, <2>4
<1>7. CASE ResourcesDone
  BY <1>7 DEF ResourcesDone
<1>8. CASE DhctlFails
  BY <1>8 DEF DhctlFails
<1>9. CASE GetKubeconfig
  BY <1>9 DEF GetKubeconfig
<1>10. CASE EnsureDockerRemoved
  <2>1. TypeOK'
    <3>1. docker' \in BOOLEAN
      BY <1>10, Zenon DEF EnsureDockerRemoved
    <3>2. jobs' \in [Phases -> Nat]
      BY <1>10 DEF EnsureDockerRemoved
    <3> QED
      BY <1>10, <3>1, <3>2 DEF EnsureDockerRemoved
  <2>2. StageInv'
    BY <1>10 DEF EnsureDockerRemoved
  <2>3. RunInv'
    BY <1>10 DEF EnsureDockerRemoved
  <2>4. JobsInv'
    BY <1>10 DEF EnsureDockerRemoved
  <2> QED
    BY <2>1, <2>2, <2>3, <2>4
<1>11. CASE EnsureStaticInstance
  <2>1. instances' \subseteq Workers /\ deck >= 2
    BY <1>11 DEF EnsureStaticInstance
  <2>2. pc = "instances" /\ UNCHANGED <<vmVars, created, rollout, groupSize,
                                       readyNodes, runVars>>
    BY <1>11 DEF EnsureStaticInstance
  <2> HIDE WorkersFinite
  <2>3. TypeOK'
    BY <2>1, <2>2 DEF runVars
  <2>4. StageInv' /\ RunInv' /\ JobsInv'
    BY <2>1, <2>2 DEF runVars
  <2> QED
    BY <2>3, <2>4
<1>12. CASE InstancesDone
  <2>1. TypeOK'
    BY <1>12 DEF InstancesDone
  <2>2. StageInv'
    BY <1>12 DEF InstancesDone
  <2>3. RunInv'
    BY <1>12 DEF InstancesDone
  <2>4. JobsInv'
    BY <1>12 DEF InstancesDone
  <2> QED
    BY <2>1, <2>2, <2>3, <2>4
<1>13. CASE CreateNodeGroup
  BY <1>13 DEF CreateNodeGroup
<1>14. CASE NodesReady
  <2>1. TypeOK'
    BY <1>14 DEF NodesReady
  <2>2. StageInv'
    BY <1>14 DEF NodesReady
  <2>3. RunInv'
    BY <1>14 DEF NodesReady
  <2>4. JobsInv'
    BY <1>14 DEF NodesReady
  <2> QED
    BY <2>1, <2>2, <2>3, <2>4
<1>15. CASE NodesTimeOut
  <2>1. TypeOK'
    BY <1>15 DEF NodesTimeOut
  <2>2. StageInv'
    BY <1>15 DEF NodesTimeOut
  <2>3. RunInv'
    BY <1>15 DEF NodesTimeOut
  <2>4. JobsInv'
    BY <1>15 DEF NodesTimeOut
  <2> QED
    BY <2>1, <2>2, <2>3, <2>4
<1>16. CASE CheckModule
  <2>1. TypeOK'
    BY <1>16 DEF CheckModule
  <2>2. StageInv'
    BY <1>16 DEF CheckModule
  <2>3. RunInv'
    <3>1. ASSUME NEW i \in 1..(check' - 1) PROVE rollout'[Checks[i]] # "absent"
      <4>1. i \in 1..check /\ check \in 1..Len(Checks) /\ rollout' = rollout
        BY <1>16 DEF CheckModule
      <4>2. CASE i = check
        BY <1>16, <4>1, <4>2 DEF CheckModule, LooksReady
      <4>3. CASE i \in 1..(check - 1)
        BY <1>16, <4>1, <4>3 DEF CheckModule
      <4> QED
        BY <4>1, <4>2, <4>3
    <3> QED
      BY <1>16, <3>1 DEF CheckModule
  <2>4. JobsInv'
    BY <1>16 DEF CheckModule
  <2> QED
    BY <2>1, <2>2, <2>3, <2>4
<1>17. CASE ModuleTimesOut
  <2>1. TypeOK'
    BY <1>17 DEF ModuleTimesOut
  <2>2. StageInv'
    BY <1>17 DEF ModuleTimesOut
  <2>3. RunInv'
    BY <1>17 DEF ModuleTimesOut
  <2>4. JobsInv'
    BY <1>17 DEF ModuleTimesOut
  <2> QED
    BY <2>1, <2>2, <2>3, <2>4
<1>18. CASE Finish
  BY <1>18 DEF Finish
<1> QED
  BY <1>1, <1>2, <1>3, <1>4, <1>5, <1>6, <1>7, <1>8, <1>9, <1>10, <1>11, <1>12, <1>13, <1>14, <1>15, <1>16, <1>17, <1>18 DEF RunStep

(* Crashes, restarts and everything outside the run keep CreateInv.          *)
LEMMA OtherStepCreateInv ==
  CreateInv /\ (Die \/ Rerun \/ RerunReinit \/ External) => CreateInv'
<1> SUFFICES ASSUME CreateInv, Die \/ Rerun \/ RerunReinit \/ External
             PROVE  CreateInv'
  OBVIOUS
<1> USE WorkersFinite, ChecksAssumption, BoundsAssumption
    DEF CreateInv, TypeOK, StageInv, RunInv, JobsInv, Stages, Phases, Rollouts,
        PcStates, Untouched, Installing, Joining, Goto, vmVars, clusterVars,
        runVars
<1>1. CASE Die
  BY <1>1 DEF Die
<1>2. CASE Rerun
  BY <1>2 DEF Rerun, StartAgain
<1>3. CASE RerunReinit
  <2>1. TypeOK'
    <3>1. docker' \in BOOLEAN
      BY <1>3, Zenon DEF RerunReinit
    <3> QED
      BY <1>3, <3>1 DEF RerunReinit, StartAgain
  <2>2. StageInv'
    BY <1>3 DEF RerunReinit
  <2>3. RunInv'
    BY <1>3 DEF RerunReinit, StartAgain
  <2>4. JobsInv'
    BY <1>3 DEF RerunReinit, StartAgain
  <2> QED
    BY <2>1, <2>2, <2>3, <2>4
<1>4. CASE DhctlConfig
  BY <1>4 DEF DhctlConfig
<1>5. ASSUME NEW m \in Modules, DhctlResources(m) PROVE CreateInv'
  <2>1. ~Untouched /\ deck >= 2
    BY <1>5 DEF DhctlResources
  <2> QED
    BY <1>5, <2>1 DEF DhctlResources
<1>6. ASSUME NEW m \in Modules, RolloutStarts(m) \/ RolloutChanges(m)
      PROVE  CreateInv'
  <2>1. /\ rollout' \in [Modules -> Rollouts]
        /\ \A k \in Modules : rollout'[k] # "absent" => k \in created /\ deck = 3
        /\ \A k \in Modules : rollout[k] # "absent" => rollout'[k] # "absent"
    BY <1>6 DEF RolloutStarts, RolloutChanges
  <2>2. UNCHANGED <<vmVars, created, instances, groupSize, readyNodes, runVars>>
    BY <1>6 DEF RolloutStarts, RolloutChanges
  <2>3. \A i \in 1..(check - 1) : Checks[i] \in Modules
    BY DEF Modules
  <2> QED
    BY <2>1, <2>2, <2>3
<1>7. ASSUME NEW p \in Phases, OrphanEnds(p) PROVE CreateInv'
  <2>1. jobs' \in [Phases -> Nat] /\ jobs[p] > 0 /\ (pc = p => jobs'[p] >= 1)
    BY <1>7 DEF OrphanEnds
  <2>2. \A q \in Phases : q # p => jobs'[q] = jobs[q]
    BY <1>7 DEF OrphanEnds
  <2>3. jobs["resources"] = 0 => jobs'["resources"] = 0
    BY <1>7, <2>1, <2>2
  <2>4. UNCHANGED <<deck, docker, clusterVars, runVars>>
    BY <1>7 DEF OrphanEnds
  <2>5. \A q \in Phases : jobs'[q] <= jobs[q]
    BY <1>7, <2>1, <2>2 DEF OrphanEnds
  <2>6. TypeOK' /\ StageInv'
    BY <2>1, <2>3, <2>4
  <2>7. RunInv'
    BY <2>1, <2>2, <2>3, <2>4
  <2>8. JobsInv'
    BY <2>1, <2>4, <2>5
  <2> QED
    BY <2>6, <2>7, <2>8
<1>8. ASSUME NEW v \in Vms, NodeChanges(v) PROVE CreateInv'
  BY <1>8 DEF NodeChanges
<1> QED
  BY <1>1, <1>2, <1>3, <1>4, <1>5, <1>6, <1>7, <1>8 DEF External

(* A run finds its cluster as its place in ClusterCreate says, whatever the  *)
(* runs before it, their containers and the cluster itself do meanwhile.     *)
THEOREM CreateInvariance == Spec => []CreateInv
<1>1. CreateInv /\ UNCHANGED vars => CreateInv'
  BY DEF CreateInv, TypeOK, StageInv, RunInv, JobsInv, Untouched, vars, vmVars,
         clusterVars, runVars
<1>2. CreateInv /\ [Next]_vars => CreateInv'
  BY <1>1, RunStepCreateInv, OtherStepCreateInv DEF Next
<1> QED
  BY <1>2, InitCreateInv, PTL DEF Spec

(* What a run at its end has seen on the way.                                *)
LEMMA DoneMeans == CreateInv => DoneComplete
<1> SUFFICES ASSUME CreateInv, pc = "done"
             PROVE  /\ deck = 3 /\ created = Modules
                    /\ instances = Workers /\ groupSize = Cardinality(Workers)
  BY DEF DoneComplete
<1>1. \A i \in 1..Len(Checks) : rollout[Checks[i]] # "absent"
  BY ChecksAssumption DEF CreateInv, RunInv
<1>2. \A m \in Modules : rollout[m] # "absent" /\ m \in created /\ deck = 3
  BY <1>1 DEF CreateInv, StageInv, Modules
<1>3. Checks[1] \in Modules
  BY ChecksAssumption DEF Modules
<1> QED
  BY <1>2, <1>3 DEF CreateInv, TypeOK, RunInv

(* When ClusterCreate returns, Deckhouse runs, every module waited for has   *)
(* its resources, and every worker is a static instance of the node group,   *)
(* also when the run skipped the installation an earlier one had begun.      *)
THEOREM DoneCompleteAlways == Spec => []DoneComplete
  BY DoneMeans, CreateInvariance, PTL

(* Docker is installed and dhctl's first phase started only where no earlier *)
(* run has created a resource or a static instance.                          *)
THEOREM NoReinstallAlways == Spec => NoReinstall
<1>1. CreateInv /\ [Next]_vars =>
        [(docker' /\ ~docker) \/ jobs'["config"] > jobs["config"] =>
           created = {} /\ instances = {}]_vars
  <2> SUFFICES ASSUME CreateInv, Next,
                      (docker' /\ ~docker) \/ jobs'["config"] > jobs["config"]
               PROVE  pc \in Installing
    BY DEF CreateInv, RunInv, Untouched
  <2> USE DEF CreateInv, TypeOK, Phases, vmVars, clusterVars
  <2>1. CASE RunStep
    <3>1. CASE AptInstalls \/ StartConfig
      BY <3>1 DEF AptInstalls, StartConfig, Installing
    <3>2. CASE StartResources \/ ResourcesDone \/ DhctlFails \/ EnsureDockerRemoved
      BY <3>2 DEF StartResources, ResourcesDone, DhctlFails, EnsureDockerRemoved,
                  RunInv, Installing
    <3>3. CASE UNCHANGED <<docker, jobs>>
      BY <3>3
    <3> QED
      BY <2>1, <3>1, <3>2, <3>3 DEF RunStep, CheckInstalled, FindDocker, AptFails,
         GetKubeconfig, EnsureStaticInstance, InstancesDone, CreateNodeGroup,
         NodesReady, NodesTimeOut, CheckModule, ModuleTimesOut, Finish
  <2>2. CASE Die \/ Rerun
    BY <2>2 DEF Die, Rerun
  <2>3. CASE RerunReinit
    BY <2>3 DEF RerunReinit
  <2>4. CASE External
    <3>1. CASE \E p \in Phases : OrphanEnds(p)
      BY <3>1 DEF OrphanEnds
    <3>2. CASE UNCHANGED <<docker, jobs>>
      BY <3>2
    <3> QED
      BY <2>4, <3>1, <3>2 DEF External, DhctlConfig, DhctlResources,
         RolloutStarts, RolloutChanges, NodeChanges
  <2> QED
    BY <2>1, <2>2, <2>3, <2>4 DEF Next
<1> QED
  BY <1>1, CreateInvariance, PTL DEF Spec, NoReinstall

-----------------------------------------------------------------------------
(* The refinement of ClusterLife.                                            *)

(* Nothing is installed, at work or reported when the first run starts.      *)
LEMMA InitLife == Init => Life!LifeInit
BY DEF Init, Life!LifeInit, Phases

(* Steps that change nothing of the life of the cluster.                     *)
LEMMA NoLife ==
  ASSUME UNCHANGED <<deck, jobs, created, instances>>,
         (pc' = "done") = (pc = "done")
  PROVE  UNCHANGED Life!lifeVars
BY DEF Life!lifeVars

(* Containers that end are such a step of the life of the cluster.           *)
LEMMA FewerJobs ==
  ASSUME jobs \in [Phases -> Nat], jobs' \in [Phases -> Nat],
         \A p \in Phases : jobs'[p] <= jobs[p],
         UNCHANGED <<deck, created, instances>>,
         (pc' = "done") = (pc = "done")
  PROVE  Life!JobsEnd
<1>1. /\ jobs["config"] \in Nat /\ jobs'["config"] \in Nat
      /\ jobs["resources"] \in Nat /\ jobs'["resources"] \in Nat
      /\ jobs'["config"] <= jobs["config"]
      /\ jobs'["resources"] <= jobs["resources"]
  BY DEF Phases
<1>2. \E over \in SUBSET (1..jobs["config"]) :
        1..jobs'["config"] = (1..jobs["config"]) \ over
  <2> DEFINE over == (jobs'["config"] + 1)..jobs["config"]
  <2>1. over \in SUBSET (1..jobs["config"])
    BY <1>1
  <2>2. 1..jobs'["config"] = (1..jobs["config"]) \ over
    BY <1>1
  <2> QED
    BY <2>1, <2>2
<1>3. \E over \in SUBSET (1..jobs["resources"]) :
        1..jobs'["resources"] = (1..jobs["resources"]) \ over
  <2> DEFINE over == (jobs'["resources"] + 1)..jobs["resources"]
  <2>1. over \in SUBSET (1..jobs["resources"])
    BY <1>1
  <2>2. 1..jobs'["resources"] = (1..jobs["resources"]) \ over
    BY <1>1
  <2> QED
    BY <2>1, <2>2
<1> QED
  BY <1>2, <1>3 DEF Life!JobsEnd

(* A container of the first phase is started on a cluster without anything.  *)
LEMMA ConfigInstalls ==
  ASSUME CreateInv, StartConfig
  PROVE  \E j \in 1..MaxRuns : Life!Install(j)
<1>1. /\ pc = "login" /\ pc' = "config"
      /\ jobs' = [jobs EXCEPT !["config"] = @ + 1]
      /\ UNCHANGED <<deck, created, instances>>
  BY DEF StartConfig, Goto, clusterVars
<1>2. /\ jobs["config"] \in Nat /\ run \in 1..MaxRuns /\ jobs["config"] < run
      /\ created = {} /\ instances = {} /\ jobs["resources"] = 0
  BY <1>1 DEF CreateInv, TypeOK, RunInv, JobsInv, Installing, Untouched, Phases
<1>3. jobs'["config"] = jobs["config"] + 1 /\ jobs'["resources"] = jobs["resources"]
  BY <1>1 DEF CreateInv, TypeOK, Phases
<1> DEFINE j == jobs["config"] + 1
<1>4. j \in 1..MaxRuns
  BY <1>2, BoundsAssumption
<1>5. 1..jobs'["config"] = (1..jobs["config"]) \cup {j}
  BY <1>2, <1>3
<1>6. 1..jobs["resources"] = {} /\ 1..jobs'["resources"] = {}
  BY <1>2, <1>3
<1>7. Life!Install(j)
  BY <1>1, <1>2, <1>5, <1>6 DEF Life!Install
<1> QED
  BY <1>4, <1>7

(* The second phase begins where the first has brought Deckhouse up.         *)
LEMMA ResourcesPopulate ==
  ASSUME CreateInv, StartResources
  PROVE  \E j \in 1..MaxRuns : Life!Populate(j)
<1>1. /\ pc = "config" /\ pc' = "resources" /\ deck = 3
      /\ jobs' = [jobs EXCEPT !["config"] = @ - 1, !["resources"] = @ + 1]
      /\ UNCHANGED <<deck, created, instances>>
  BY DEF StartResources, Goto, clusterVars
<1>2. jobs["config"] \in Nat /\ jobs["config"] >= 1 /\ jobs["resources"] = 0
  BY <1>1 DEF CreateInv, TypeOK, RunInv, Installing, Untouched, Phases
<1>3. jobs'["config"] = jobs["config"] - 1 /\ jobs'["resources"] = 1
  BY <1>1, <1>2 DEF CreateInv, TypeOK, Phases
<1>4. 1..jobs'["resources"] = (1..jobs["resources"]) \cup {1}
  BY <1>2, <1>3
<1>5. \E over \in SUBSET (1..jobs["config"]) :
        1..jobs'["config"] = (1..jobs["config"]) \ over
  <2>1. 1..jobs'["config"] = (1..jobs["config"]) \ {jobs["config"]}
    BY <1>2, <1>3
  <2>2. {jobs["config"]} \in SUBSET (1..jobs["config"])
    BY <1>2
  <2> QED
    BY <2>1, <2>2
<1>6. /\ deck > 0
      /\ UNCHANGED <<deck, created, instances>>
      /\ (pc = "done")' = (pc = "done")
  BY <1>1
<1>7. Life!Populate(1)
  BY <1>4, <1>5, <1>6 DEF Life!Populate
<1> QED
  BY <1>7, BoundsAssumption

(* Every step of a run is a step of the life of the cluster, or none.        *)
LEMMA RunStepLives ==
  ASSUME CreateInv, CreateInv', RunStep
  PROVE  [Life!LifeNext]_(Life!lifeVars)
<1> USE DEF CreateInv, TypeOK, Goto, vmVars, clusterVars, runVars
<1>1. CASE CheckInstalled \/ FindDocker \/ AptInstalls \/ AptFails
  BY <1>1, NoLife DEF CheckInstalled, FindDocker, AptInstalls, AptFails
<1>2. CASE StartConfig
  BY <1>2, ConfigInstalls DEF Life!LifeNext
<1>3. CASE StartResources
  BY <1>3, ResourcesPopulate DEF Life!LifeNext
<1>4. CASE ResourcesDone \/ DhctlFails \/ EnsureDockerRemoved
  <2>1. /\ UNCHANGED <<deck, created, instances>>
        /\ (pc' = "done") = (pc = "done")
    BY <1>4 DEF ResourcesDone, DhctlFails, EnsureDockerRemoved, Phases
  <2>2. \A p \in Phases : jobs'[p] <= jobs[p]
    BY <1>4 DEF ResourcesDone, DhctlFails, EnsureDockerRemoved, Phases
  <2> QED
    BY <2>1, <2>2, FewerJobs DEF Life!LifeNext
<1>5. CASE GetKubeconfig \/ InstancesDone \/ CreateNodeGroup \/ NodesReady
           \/ NodesTimeOut
  BY <1>5, NoLife DEF GetKubeconfig, InstancesDone, CreateNodeGroup, NodesReady,
                      NodesTimeOut
<1>6. CASE EnsureStaticInstance
  <2>1. PICK v \in Workers : instances' = instances \cup {v}
    BY <1>6 DEF EnsureStaticInstance
  <2>2. deck >= 2 /\ UNCHANGED <<deck, jobs, created, pc>>
    BY <1>6 DEF EnsureStaticInstance, RunInv, Joining
  <2>3. Life!Join(v)
    BY <2>1, <2>2 DEF Life!Join
  <2> QED
    BY <2>3 DEF Life!LifeNext
<1>7. CASE CheckModule \/ ModuleTimesOut
  BY <1>7, NoLife DEF CheckModule, ModuleTimesOut
<1>8. CASE Finish
  <2>1. pc' = "done" /\ UNCHANGED <<deck, jobs, created, instances>>
    BY <1>8 DEF Finish
  <2>2. CreateInv' => DoneComplete'
    BY DoneMeans, PTL
  <2>3. deck = 3 /\ created = Modules
    BY <2>1, <2>2 DEF DoneComplete
  <2>4. Life!Report
    BY <2>1, <2>3 DEF Life!Report
  <2> QED
    BY <2>4 DEF Life!LifeNext
<1> QED
  BY <1>1, <1>2, <1>3, <1>4, <1>5, <1>6, <1>7, <1>8 DEF RunStep

(* So is every crash, restart and step outside the run.                      *)
LEMMA OtherStepLives ==
  ASSUME CreateInv, CreateInv', Die \/ Rerun \/ RerunReinit \/ External
  PROVE  [Life!LifeNext]_(Life!lifeVars)
<1> USE DEF CreateInv, TypeOK, Goto, vmVars, clusterVars, runVars
<1>1. CASE Die
  BY <1>1, NoLife DEF Die
<1>2. CASE Rerun
  <2>1. pc' = "check" /\ UNCHANGED <<deck, jobs, created, instances>>
    BY <1>2 DEF Rerun, StartAgain
  <2>2. Life!RunAgain
    BY <2>1 DEF Life!RunAgain
  <2> QED
    BY <2>2 DEF Life!LifeNext
<1>3. CASE RerunReinit
  <2>1. /\ pc' = "check" /\ deck' = 0 /\ created' = {} /\ instances' = {}
        /\ jobs'["config"] = 0 /\ jobs'["resources"] = 0
    BY <1>3 DEF RerunReinit, StartAgain, Phases
  <2>2. (1..jobs["config"])' = {} /\ (1..jobs["resources"])' = {}
    BY <2>1
  <2>3. Life!Reset
    BY <2>1, <2>2 DEF Life!Reset
  <2> QED
    BY <2>3 DEF Life!LifeNext
<1>4. CASE DhctlConfig
  <2>1. /\ jobs["config"] > 0 /\ deck < 3 /\ deck' = deck + 1
        /\ UNCHANGED <<jobs, created, instances, pc>>
    BY <1>4 DEF DhctlConfig
  <2>2. 1 \in 1..jobs["config"] /\ deck' \in (deck + 1)..3
    BY <2>1 DEF Phases, Stages
  <2>3. Life!Advance
    BY <2>1, <2>2 DEF Life!Advance
  <2> QED
    BY <2>3 DEF Life!LifeNext
<1>5. ASSUME NEW m \in Modules, DhctlResources(m)
      PROVE  [Life!LifeNext]_(Life!lifeVars)
  <2>1. /\ jobs["resources"] > 0 /\ created' = created \cup {m}
        /\ UNCHANGED <<deck, jobs, instances, pc>>
    BY <1>5 DEF DhctlResources
  <2>2. deck = 3 /\ 1 \in 1..jobs["resources"]
    BY <2>1 DEF JobsInv, Phases
  <2>3. Life!Furnish(m)
    BY <2>1, <2>2 DEF Life!Furnish
  <2> QED
    BY <2>3 DEF Life!LifeNext
<1>6. ASSUME NEW m \in Modules, RolloutStarts(m) \/ RolloutChanges(m)
      PROVE  [Life!LifeNext]_(Life!lifeVars)
  BY <1>6, NoLife DEF RolloutStarts, RolloutChanges
<1>7. ASSUME NEW p \in Phases, OrphanEnds(p)
      PROVE  [Life!LifeNext]_(Life!lifeVars)
  <2>1. UNCHANGED <<deck, created, instances, pc>>
    BY <1>7 DEF OrphanEnds
  <2>2. \A q \in Phases : jobs'[q] <= jobs[q]
    BY <1>7 DEF OrphanEnds
  <2> QED
    BY <2>1, <2>2, FewerJobs DEF Life!LifeNext
<1>8. ASSUME NEW v \in Vms, NodeChanges(v)
      PROVE  [Life!LifeNext]_(Life!lifeVars)
  BY <1>8, NoLife DEF NodeChanges
<1> QED
  BY <1>1, <1>2, <1>3, <1>4, <1>5, <1>6, <1>7, <1>8 DEF External

(* ClusterCreate gives its cluster the life that ClusterLife describes, over *)
(* any number of runs, crashes, reinits and containers left at work.         *)
THEOREM LifeImplemented == Spec => ImplementsLife
<1>1. CreateInv /\ CreateInv' /\ [Next]_vars => [Life!LifeNext]_(Life!lifeVars)
  <2> SUFFICES ASSUME CreateInv, CreateInv', [Next]_vars
               PROVE  [Life!LifeNext]_(Life!lifeVars)
    OBVIOUS
  <2>1. CASE UNCHANGED vars
    BY <2>1, NoLife DEF vars, vmVars, clusterVars, runVars
  <2>2. CASE Next
    BY <2>2, RunStepLives, OtherStepLives DEF Next
  <2> QED
    BY <2>1, <2>2
<1> QED
  BY <1>1, InitLife, CreateInvariance, PTL
  DEF Spec, ImplementsLife, Life!LifeSpec

(* What holds of every life of a cluster, so also of this one.               *)
LEMMA LifeStep ==
  ASSUME Life!LifeInv, [Life!LifeNext]_(Life!lifeVars)
  PROVE  Life!LifeInv'
<1>1. CASE UNCHANGED Life!lifeVars
  BY <1>1 DEF Life!lifeVars, Life!LifeInv
<1>2. ASSUME NEW j \in 1..MaxRuns, Life!Install(j) \/ Life!Populate(j)
      PROVE  Life!LifeInv'
  BY <1>2 DEF Life!LifeInv, Life!Install, Life!Populate
<1>3. CASE Life!Advance
  <2>1. PICK d \in (deck + 1)..3 : deck' = d
    BY <1>3 DEF Life!Advance
  <2>2. /\ UNCHANGED <<created, instances, pc = "done">>
        /\ (1..jobs["resources"])' = 1..jobs["resources"]
    BY <1>3 DEF Life!Advance
  <2>3. deck \in 0..2 /\ deck' \in 1..3 /\ deck' > deck
    BY <2>1 DEF Life!LifeInv
  <2>4. created = {} /\ pc # "done"
    BY <2>3 DEF Life!LifeInv
  <2> QED
    BY <2>2, <2>3, <2>4 DEF Life!LifeInv
<1>4. ASSUME NEW r \in Modules, Life!Furnish(r) PROVE Life!LifeInv'
  BY <1>4 DEF Life!LifeInv, Life!Furnish
<1>5. ASSUME NEW n \in Workers, Life!Join(n) \/ Life!Leave(n)
      PROVE  Life!LifeInv'
  BY <1>5 DEF Life!LifeInv, Life!Join, Life!Leave
<1>6. CASE Life!JobsEnd
  <2>1. UNCHANGED <<deck, created, instances, pc = "done">>
    BY <1>6 DEF Life!JobsEnd
  <2>2. (1..jobs["resources"])' # {} => 1..jobs["resources"] # {}
    BY <1>6 DEF Life!JobsEnd
  <2> QED
    BY <2>1, <2>2 DEF Life!LifeInv
<1>7. CASE Life!Report
  BY <1>7 DEF Life!LifeInv, Life!Report
<1>8. CASE Life!RunAgain
  BY <1>8 DEF Life!LifeInv, Life!RunAgain
<1>9. CASE Life!Reset
  BY <1>9 DEF Life!LifeInv, Life!Reset
<1> QED
  BY <1>1, <1>2, <1>3, <1>4, <1>5, <1>6, <1>7, <1>8, <1>9
     DEF Life!LifeNext

(* Success is only reported over a complete installation, and nothing is     *)
(* built on a missing one: this follows from ClusterLife alone.              *)
THEOREM LifeSound == Spec => []Life!LifeInv
<1>1. Life!LifeInit => Life!LifeInv
  BY DEF Life!LifeInit, Life!LifeInv
<1> QED
  BY <1>1, LifeStep, LifeImplemented, PTL DEF ImplementsLife, Life!LifeSpec

-----------------------------------------------------------------------------
(* Why a run may find half a cluster (RepairedByRerun, which is violated):   *)
(* only because of a run that did not wait for its dhctl to end well.        *)

DhctlWaitedOut == pc \in Phases => pc' # "dead"

\* What the first phase begins is at work under the run, or complete.
HalfwayOnlyInDhctl ==
  /\ \A p \in Phases : jobs[p] = IF pc = p THEN 1 ELSE 0
  /\ deck > 0 => pc \in Phases \/ (deck = 3 /\ created = Modules)
  /\ pc = "resources" => deck = 3

WaitedInv == CreateInv /\ HalfwayOnlyInDhctl

(* A run that waits for dhctl leaves no container and nothing half-made.     *)
LEMMA RunStepWaitedInv ==
  ASSUME WaitedInv, RunStep, DhctlWaitedOut
  PROVE  WaitedInv'
<1>1. CreateInv'
  BY RunStepCreateInv DEF WaitedInv
<1>2. /\ jobs \in [Phases -> Nat] /\ deck \in 0..3 /\ created \subseteq Modules
      /\ HalfwayOnlyInDhctl
  BY DEF WaitedInv, CreateInv, TypeOK, Stages
<1>3. HalfwayOnlyInDhctl'
  <2> USE DEF Phases, Goto, vmVars, clusterVars, HalfwayOnlyInDhctl
  <2>1. CASE StartConfig
    <3>1. /\ pc = "login" /\ pc' = "config" /\ UNCHANGED <<deck, created>>
          /\ jobs' = [jobs EXCEPT !["config"] = @ + 1]
      BY <2>1 DEF StartConfig
    <3> QED
      BY <1>2, <3>1
  <2>2. CASE StartResources
    <3>1. /\ pc = "config" /\ pc' = "resources" /\ deck = 3
          /\ UNCHANGED <<deck, created>>
          /\ jobs' = [jobs EXCEPT !["config"] = @ - 1, !["resources"] = @ + 1]
      BY <2>2 DEF StartResources
    <3> QED
      BY <1>2, <3>1
  <2>3. CASE ResourcesDone
    <3>1. /\ pc = "resources" /\ pc' = "kubeconfig" /\ created = Modules
          /\ UNCHANGED <<deck, created>>
          /\ jobs' = [jobs EXCEPT !["resources"] = @ - 1]
      BY <2>3 DEF ResourcesDone
    <3> QED
      BY <1>2, <3>1
  <2>4. CASE DhctlFails
    BY <2>4 DEF DhctlFails, DhctlWaitedOut
  <2>5. CASE EnsureDockerRemoved
    <3>1. /\ pc = "undock" /\ pc' = "instances" /\ UNCHANGED <<deck, created>>
          /\ jobs' = [p \in Phases |-> 0] \/ jobs' = jobs
      BY <2>5 DEF EnsureDockerRemoved
    <3> QED
      BY <1>2, <3>1
  <2>6. CASE pc \notin Phases /\ pc' \notin Phases /\ UNCHANGED <<deck, jobs, created>>
    BY <1>2, <2>6
  <2> QED
    BY <2>1, <2>2, <2>3, <2>4, <2>5, <2>6 DEF RunStep, CheckInstalled,
       FindDocker, AptInstalls, AptFails, GetKubeconfig, EnsureStaticInstance,
       InstancesDone, CreateNodeGroup, NodesReady, NodesTimeOut, CheckModule,
       ModuleTimesOut, Finish, runVars
<1> QED
  BY <1>1, <1>3 DEF WaitedInv

(* A run that dies elsewhere, the next run, and what is outside of them      *)
(* leave nothing half-made either.                                           *)
LEMMA OtherStepWaitedInv ==
  ASSUME WaitedInv, Die \/ Rerun \/ RerunReinit \/ External, DhctlWaitedOut
  PROVE  WaitedInv'
<1>1. CreateInv'
  BY OtherStepCreateInv DEF WaitedInv
<1>2. /\ jobs \in [Phases -> Nat] /\ deck \in 0..3 /\ created \subseteq Modules
      /\ HalfwayOnlyInDhctl
  BY DEF WaitedInv, CreateInv, TypeOK, Stages
<1>3. HalfwayOnlyInDhctl'
  <2> USE DEF Phases, Goto, vmVars, clusterVars, runVars, HalfwayOnlyInDhctl
  <2>1. CASE Die \/ Rerun
    <3>1. pc \notin Phases /\ pc' \notin Phases /\ UNCHANGED <<deck, jobs, created>>
      BY <2>1 DEF Die, Rerun, StartAgain, DhctlWaitedOut
    <3> QED
      BY <1>2, <3>1
  <2>2. CASE RerunReinit
    BY <2>2 DEF RerunReinit, StartAgain
  <2>3. CASE DhctlConfig
    <3>1. pc = "config" /\ pc' = pc /\ UNCHANGED <<jobs, created>>
      BY <1>2, <2>3 DEF DhctlConfig
    <3> QED
      BY <1>2, <3>1
  <2>4. ASSUME NEW m \in Modules, DhctlResources(m) PROVE HalfwayOnlyInDhctl'
    <3>1. pc = "resources" /\ pc' = pc /\ UNCHANGED <<deck, jobs>>
      BY <1>2, <2>4 DEF DhctlResources
    <3> QED
      BY <1>2, <3>1
  <2>5. ASSUME NEW p \in Phases, OrphanEnds(p) PROVE FALSE
    BY <1>2, <2>5 DEF OrphanEnds
  <2>6. CASE UNCHANGED <<pc, deck, jobs, created>>
    BY <1>2, <2>6
  <2> QED
    BY <2>1, <2>2, <2>3, <2>4, <2>5, <2>6
       DEF External, RolloutStarts, RolloutChanges, NodeChanges
<1> QED
  BY <1>1, <1>3 DEF WaitedInv

(* A run finds half a cluster, which it takes for an installed one, only     *)
(* because an earlier run died, or was cut off, while dhctl was at work:     *)
(* deaths at every other point leave what the next run can finish.           *)
THEOREM RepairedWhenWaitedOut ==
  Spec /\ [][DhctlWaitedOut]_vars => []RepairedByRerun
<1>1. Init => WaitedInv
  BY InitCreateInv DEF WaitedInv, HalfwayOnlyInDhctl, Init, Phases
<1>2. WaitedInv /\ UNCHANGED vars => WaitedInv'
  BY DEF WaitedInv, HalfwayOnlyInDhctl, CreateInv, TypeOK, StageInv, RunInv,
         JobsInv, Untouched, vars, vmVars, clusterVars, runVars
<1>3. WaitedInv /\ [Next]_vars /\ [DhctlWaitedOut]_vars => WaitedInv'
  BY <1>2, RunStepWaitedInv, OtherStepWaitedInv DEF Next
<1>4. WaitedInv => RepairedByRerun
  <2> SUFFICES ASSUME WaitedInv, pc = "check"
               PROVE  deck = 0 \/ (deck = 3 /\ created = Modules)
    BY DEF RepairedByRerun
  <2> QED
    BY DEF WaitedInv, HalfwayOnlyInDhctl, CreateInv, TypeOK, Stages, Phases
<1> QED
  BY <1>1, <1>3, <1>4, PTL DEF Spec

-----------------------------------------------------------------------------
(* What counting ready nodes does show (AllAddedReady is violated).          *)

\* Only the master and the workers that were added become nodes.
NodesInv == CreateInv /\ readyNodes \subseteq Workers \cup {Master}

\* ensureNodesReady lets a run go on with one added node that is not ready at
\* most, and only because it has counted the master in its place.
AllReadyButOne ==
  \/ instances \subseteq readyNodes
  \/ Master \in readyNodes /\ \E w \in Workers : instances \ readyNodes = {w}
AddedButOne == [][pc = "nodes" /\ pc' = "modules" => AllReadyButOne]_vars

(* Only the master and workers are ever ready.                               *)
LEMMA NextNodesInv == NodesInv /\ [Next]_vars => NodesInv'
<1> SUFFICES ASSUME NodesInv, [Next]_vars PROVE NodesInv'
  OBVIOUS
<1>1. CreateInv'
  <2>1. CreateInv /\ UNCHANGED vars => CreateInv'
    BY DEF CreateInv, TypeOK, StageInv, RunInv, JobsInv, Untouched, vars, vmVars,
           clusterVars, runVars
  <2> QED
    BY <2>1, RunStepCreateInv, OtherStepCreateInv DEF Next, NodesInv
<1>2. readyNodes' \subseteq Workers \cup {Master}
  <2>1. ASSUME NEW v \in Vms, NodeChanges(v)
        PROVE  readyNodes' \subseteq Workers \cup {Master}
    <3>1. v \in Workers \cup {Master}
      BY <2>1 DEF NodeChanges, NodesInv, CreateInv, TypeOK
    <3> QED
      BY <2>1, <3>1 DEF NodeChanges, NodesInv
  <2>2. CASE RerunReinit
    BY <2>2 DEF RerunReinit
  <2>3. CASE UNCHANGED readyNodes
    BY <2>3 DEF NodesInv
  <2> QED
    BY <2>1, <2>2, <2>3 DEF Next, RunStep, External, CheckInstalled, FindDocker,
       AptInstalls, AptFails, StartConfig, StartResources, ResourcesDone,
       DhctlFails, GetKubeconfig, EnsureDockerRemoved, EnsureStaticInstance,
       InstancesDone, CreateNodeGroup, NodesReady, NodesTimeOut, CheckModule,
       ModuleTimesOut, Finish, Die, Rerun, DhctlConfig, DhctlResources,
       OrphanEnds, RolloutStarts, RolloutChanges, Goto, vars, clusterVars
<1> QED
  BY <1>1, <1>2 DEF NodesInv

(* As many of the workers and one other as there are workers: all, or all    *)
(* but one of them.                                                          *)
LEMMA AllButOne ==
  ASSUME NEW W, IsFiniteSet(W), NEW m, m \notin W,
         NEW R, R \subseteq W \cup {m}, Cardinality(R) >= Cardinality(W)
  PROVE  W \subseteq R \/ (m \in R /\ \E w \in W : W \ R = {w})
<1>1. IsFiniteSet(R) /\ IsFiniteSet(W \cap R) /\ IsFiniteSet(W \ R)
  BY FS_Subset, FS_AddElement
<1>2. /\ Cardinality(W) \in Nat /\ Cardinality(R) \in Nat
      /\ Cardinality(W \cap R) \in Nat /\ Cardinality(W \ R) \in Nat
  BY <1>1, FS_CardinalityType
<1>3. Cardinality(W \ R) = Cardinality(W) - Cardinality(W \cap R)
  BY <1>1, FS_Difference
<1>4. CASE m \notin R
  <2>1. Cardinality(W \cap R) = Cardinality(R)
    <3>1. W \cap R = R
      BY <1>4
    <3> QED
      BY <3>1
  <2>2. Cardinality(W \ R) = 0
    BY <1>2, <1>3, <2>1
  <2> QED
    BY <1>1, <2>2, FS_EmptySet
<1>5. CASE m \in R
  <2>1. R = (W \cap R) \cup {m} /\ m \notin W \cap R
    BY <1>5
  <2>2. Cardinality(R) = Cardinality(W \cap R) + 1
    BY <1>1, <2>1, FS_AddElement
  <2>3. Cardinality(W \ R) = 0 \/ Cardinality(W \ R) = 1
    BY <1>2, <1>3, <2>2
  <2>4. CASE Cardinality(W \ R) = 0
    BY <1>1, <2>4, FS_EmptySet
  <2>5. CASE Cardinality(W \ R) = 1
    <3>1. PICK w : W \ R = {w}
      BY <1>1, <2>5, FS_Singleton
    <3> QED
      BY <1>5, <3>1
  <2> QED
    BY <2>3, <2>4, <2>5
<1> QED
  BY <1>4, <1>5

(* When ensureNodesReady lets a run go on, every static node that was added  *)
(* is ready, but for one whose place the master took in the count.           *)
THEOREM AddedButOneAlways == Spec => AddedButOne
<1>1. Init => NodesInv
  BY InitCreateInv DEF NodesInv, Init
<1>2. NodesInv /\ [Next]_vars =>
        [pc = "nodes" /\ pc' = "modules" => AllReadyButOne]_vars
  <2> SUFFICES ASSUME NodesInv, Next, pc = "nodes", pc' = "modules"
               PROVE  AllReadyButOne
    OBVIOUS
  <2>1. Cardinality(readyNodes) >= Cardinality(Workers)
    BY DEF Next, RunStep, External, CheckInstalled, FindDocker, AptInstalls,
       AptFails, StartConfig, StartResources, ResourcesDone, DhctlFails,
       GetKubeconfig, EnsureDockerRemoved, EnsureStaticInstance, InstancesDone,
       CreateNodeGroup, NodesReady, NodesTimeOut, CheckModule, ModuleTimesOut,
       Finish, Die, Rerun, RerunReinit, StartAgain, DhctlConfig,
       DhctlResources, OrphanEnds, NodeChanges, RolloutStarts, RolloutChanges,
       Goto, runVars, Phases
  <2>2. Master \notin Workers
    <3>1. \E i \in Vms : "master" \in VmRoles[i]
      BY RolesAssumption
    <3>2. "master" \in VmRoles[Master]
      BY <3>1 DEF Master
    <3> QED
      BY <3>2 DEF Workers
  <2>3. instances = Workers
    BY DEF NodesInv, CreateInv, RunInv
  <2> QED
    BY <2>1, <2>2, <2>3, WorkersFinite, AllButOne DEF NodesInv, AllReadyButOne
<1> QED
  BY <1>1, <1>2, NextNodesInv, PTL DEF Spec, AddedButOne
-----------------------------------------------------------------------------
(* CreateEnds is a liveness property.  What the fairness has to be added to: *)
(* a run that goes on comes nearer to the end of ClusterCreate with every    *)
(* step, and nothing outside the run throws it back.                         *)

FromEnd == [check |-> 12, docker |-> 11, apt |-> 10, login |-> 9, config |-> 8,
            resources |-> 7, kubeconfig |-> 6, undock |-> 5, instances |-> 4,
            group |-> 3, nodes |-> 2, modules |-> 1]

\* The places that are left, and the turns of the loops: calls of apt,
\* workers without an instance, waits for modules.
StepsLeft ==
  IF pc \in {"done", "dead"} THEN 0
  ELSE FromEnd[pc] + (MaxApt - apt) + Cardinality(Workers \ instances)
         + (Len(Checks) + 1 - check)

(* The workers without an instance can be counted.                           *)
LEMMA UnservedFinite ==
  /\ IsFiniteSet(Workers \ instances)
  /\ Cardinality(Workers \ instances) \in 0..Cardinality(Workers)
<1>1. IsFiniteSet(Workers \ instances)
  BY WorkersFinite, FS_Difference
<1>2. Cardinality(Workers \ instances) <= Cardinality(Workers)
  BY WorkersFinite, FS_Subset
<1> QED
  BY <1>1, <1>2, WorkersFinite, FS_CardinalityType

(* What is left to do is a number, and no more than the whole of it.         *)
LEMMA StepsAreFew ==
  TypeOK => StepsLeft \in 0..(12 + MaxApt + Cardinality(Workers) + Len(Checks))
<1> SUFFICES ASSUME TypeOK
             PROVE  StepsLeft \in 0..(12 + MaxApt + Cardinality(Workers) + Len(Checks))
  OBVIOUS
<1>1. /\ MaxApt - apt \in 0..MaxApt
      /\ Len(Checks) + 1 - check \in 0..Len(Checks)
      /\ MaxApt \in Nat /\ Len(Checks) \in Nat
  BY BoundsAssumption, ChecksAssumption DEF TypeOK
<1>2. pc \notin {"done", "dead"} => FromEnd[pc] \in 1..12
  BY DEF TypeOK, PcStates, FromEnd
<1>3. \A a, u, l \in Nat : \A b \in 0..a, v \in 0..u, m \in 0..l, n \in 1..12 :
        n + b + v + m \in 0..(12 + a + u + l)
  OBVIOUS
<1>4. CASE pc \in {"done", "dead"}
  BY <1>1, <1>4, WorkersFinite DEF StepsLeft
<1>5. CASE pc \notin {"done", "dead"}
  <2>1. FromEnd[pc] + (MaxApt - apt) + Cardinality(Workers \ instances)
          + (Len(Checks) + 1 - check)
          \in 0..(12 + MaxApt + Cardinality(Workers) + Len(Checks))
    BY <1>1, <1>2, <1>3, <1>5, UnservedFinite, WorkersFinite, Zenon
  <2> QED
    BY <1>5, <2>1 DEF StepsLeft
<1> QED
  BY <1>4, <1>5

(* It stays one.                                                             *)
LEMMA NextSteps == TypeOK' => (StepsLeft \in Nat)'
<1>1. TypeOK => StepsLeft \in Nat
  BY StepsAreFew, BoundsAssumption, ChecksAssumption, WorkersFinite
<1> QED
  BY <1>1, PTL

(* Every step of a run is one fewer to take.                                 *)
LEMMA RunStepCounts ==
  ASSUME TypeOK, TypeOK', RunStep
  PROVE  StepsLeft' < StepsLeft
<1> DEFINE Unserved == Cardinality(Workers \ instances)
           Waits == Len(Checks) + 1 - check
           Calls == MaxApt - apt
<1>1. /\ Unserved \in Nat /\ Waits \in Nat /\ Calls \in Nat
      /\ Waits' \in Nat /\ Calls' \in Nat
  <2>1. Unserved \in Nat
    BY UnservedFinite, WorkersFinite
  <2>2. Waits \in Nat /\ Waits' \in Nat
    BY ChecksAssumption DEF TypeOK
  <2>3. Calls \in Nat /\ Calls' \in Nat
    <3>1. apt \in 0..MaxApt /\ apt' \in 0..MaxApt /\ MaxApt \in Nat
      BY BoundsAssumption DEF TypeOK
    <3>2. \A a \in 0..MaxApt : MaxApt - a \in Nat
      BY <3>1
    <3> QED
      BY <3>1, <3>2, Zenon
  <2> QED
    BY <2>1, <2>2, <2>3
<1>2. pc \notin {"done", "dead"} => StepsLeft = FromEnd[pc] + Calls + Unserved + Waits
  BY DEF StepsLeft
<1>3. pc' \notin {"done", "dead"} =>
        StepsLeft' = FromEnd[pc'] + Calls' + Unserved' + Waits'
  BY DEF StepsLeft
<1>4. pc' \in {"done", "dead"} => StepsLeft' = 0
  BY DEF StepsLeft
<1>5. instances' = instances => Unserved' = Unserved
  OBVIOUS
<1>6. check' = check => Waits' = Waits
  OBVIOUS
<1>7. apt' = apt => Calls' = Calls
  OBVIOUS
<1> HIDE DEF Unserved, Waits, Calls
<1>8. ASSUME instances' = instances, check' = check, apt' = apt,
             pc \notin {"done", "dead"}, FromEnd[pc] \in 1..12,
             pc' \in {"done", "dead"} \/ FromEnd[pc'] \in 1..(FromEnd[pc] - 1)
      PROVE  StepsLeft' < StepsLeft
  BY <1>1, <1>2, <1>3, <1>4, <1>5, <1>6, <1>7, <1>8
<1> USE DEF Goto, vmVars, clusterVars, runVars
<1>9. CASE CheckInstalled \/ FindDocker \/ AptInstalls \/ StartConfig
           \/ StartResources
  BY <1>8, <1>9 DEF CheckInstalled, FindDocker, AptInstalls, StartConfig,
                    StartResources, FromEnd
<1>10. CASE ResourcesDone \/ DhctlFails \/ GetKubeconfig \/ EnsureDockerRemoved
            \/ InstancesDone
  BY <1>8, <1>10 DEF ResourcesDone, DhctlFails, GetKubeconfig,
                     EnsureDockerRemoved, InstancesDone, Phases, FromEnd
<1>11. CASE CreateNodeGroup \/ NodesReady \/ NodesTimeOut \/ ModuleTimesOut
            \/ Finish
  BY <1>8, <1>11 DEF CreateNodeGroup, NodesReady, NodesTimeOut, ModuleTimesOut,
                     Finish, FromEnd
<1>12. CASE AptFails
  <2>1. /\ pc = "apt" /\ pc' \in {"apt", "dead"} /\ apt' = apt + 1
        /\ instances' = instances /\ check' = check
    BY <1>12 DEF AptFails
  <2>2. Calls' = Calls - 1
    BY <2>1, BoundsAssumption DEF TypeOK, Calls
  <2> QED
    BY <1>1, <1>2, <1>3, <1>4, <1>5, <1>6, <2>1, <2>2 DEF FromEnd
<1>13. CASE CheckModule
  <2>1. /\ pc = "modules" /\ pc' = "modules" /\ check' = check + 1
        /\ instances' = instances /\ apt' = apt
    BY <1>13 DEF CheckModule
  <2>2. Waits' = Waits - 1
    BY <2>1, ChecksAssumption DEF TypeOK, Waits
  <2> QED
    BY <1>1, <1>2, <1>3, <1>5, <1>7, <2>1, <2>2 DEF FromEnd
<1>14. CASE EnsureStaticInstance
  <2>1. PICK v \in Workers \ instances : instances' = instances \cup {v}
    BY <1>14 DEF EnsureStaticInstance
  <2>2. pc = "instances" /\ pc' = pc /\ check' = check /\ apt' = apt
    BY <1>14 DEF EnsureStaticInstance
  <2>3. Unserved' = Unserved - 1
    <3>1. Workers \ instances' = (Workers \ instances) \ {v}
      BY <2>1
    <3>2. Cardinality(Workers \ instances') = Cardinality(Workers \ instances) - 1
      BY <2>1, <3>1, UnservedFinite, FS_RemoveElement
    <3> QED
      BY <3>2 DEF Unserved
  <2> QED
    BY <1>1, <1>2, <1>3, <1>6, <1>7, <2>2, <2>3 DEF FromEnd
<1> QED
  BY <1>9, <1>10, <1>11, <1>12, <1>13, <1>14 DEF RunStep

(* A run of ClusterCreate takes twelve steps at most, and one more for each  *)
(* call of apt, each worker and each wait, whatever dhctl, the nodes and the *)
(* modules do: only the next run has more to do.                             *)
THEOREM CreateIsBounded ==
  Spec => [][/\ StepsLeft \in 0..(12 + MaxApt + Cardinality(Workers) + Len(Checks))
             /\ RunStep => StepsLeft' < StepsLeft
             /\ run' = run => StepsLeft' <= StepsLeft]_vars
<1>1. TypeOK /\ TypeOK' /\ [Next]_vars =>
        [/\ StepsLeft \in 0..(12 + MaxApt + Cardinality(Workers) + Len(Checks))
         /\ RunStep => StepsLeft' < StepsLeft
         /\ run' = run => StepsLeft' <= StepsLeft]_vars
  <2> SUFFICES ASSUME TypeOK, TypeOK', Next
               PROVE  /\ StepsLeft \in 0..(12 + MaxApt + Cardinality(Workers) + Len(Checks))
                      /\ RunStep => StepsLeft' < StepsLeft
                      /\ run' = run => StepsLeft' <= StepsLeft
    OBVIOUS
  <2>1. StepsLeft \in 0..(12 + MaxApt + Cardinality(Workers) + Len(Checks))
    BY StepsAreFew
  <2>2. StepsLeft \in Nat
    BY <2>1
  <2>4. CASE RunStep
    <3>1. StepsLeft' < StepsLeft
      BY <2>4, RunStepCounts
    <3>2. StepsLeft' \in Int /\ StepsLeft \in Nat
      BY <2>2, NextSteps
    <3> QED
      BY <2>1, <3>1, <3>2
  <2>5. CASE Die
    <3>1. StepsLeft' = 0
      BY <2>5 DEF Die, Goto, StepsLeft
    <3> QED
      BY <2>1, <2>2, <3>1, RunStepCounts
  <2>6. CASE Rerun \/ RerunReinit
    <3>1. run' # run
      BY <2>6 DEF Rerun, RerunReinit, StartAgain, TypeOK
    <3> QED
      BY <2>1, <3>1, RunStepCounts
  <2>7. CASE External
    <3>1. UNCHANGED <<pc, apt, check, instances>>
      BY <2>7 DEF External, DhctlConfig, DhctlResources, OrphanEnds, NodeChanges,
                  RolloutStarts, RolloutChanges, vmVars, clusterVars, runVars
    <3>2. StepsLeft' = StepsLeft
      BY <3>1 DEF StepsLeft
    <3> QED
      BY <2>1, <2>2, <3>2, RunStepCounts
  <2> QED
    BY <2>4, <2>5, <2>6, <2>7 DEF Next
<1>2. CreateInv => TypeOK
  BY DEF CreateInv
<1> QED
  BY <1>1, <1>2, CreateInvariance, PTL DEF Spec
==============================================================================
