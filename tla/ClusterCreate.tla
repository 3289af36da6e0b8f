----------------------------- MODULE ClusterCreate -----------------------------
(***************************************************************************)
(* ClusterCreate (testkit_v2/util/kube_vm_cluster.go) after vmSync: install*)
(* Deckhouse on the master VM with dhctl, which runs in a Docker container *)
(* on the bootstrap VM, then add the workers as static nodes (kube_node.go)*)
(* and wait for the modules (kube.go).  One run at a time works on the     *)
(* namespace.  It may die anywhere and be started again on what it left,   *)
(* which may be a dhctl container that is still at work.                   *)
(* dhctl, the nodes and the module controllers are external.               *)
(***************************************************************************)
EXTENDS Integers, Sequences, FiniteSets

CONSTANTS
  VmRoles,   \* the roles of each configured VM, in the order of VmCluster
  Checks,    \* the module behind each wait of ensureClusterReady, in order
  MaxApt,    \* bound: calls of apt that fit into RetrySec(120)
  MaxRuns    \* bound: how often ClusterCreate is started

Vms == 1..Len(VmRoles)
Modules == {Checks[i] : i \in 1..Len(Checks)}

Master == CHOOSE i \in Vms : "master" \in VmRoles[i]
Workers == {i \in Vms : "worker" \in VmRoles[i] /\ "master" \notin VmRoles[i]}

\* identifyVmRoles: one master, and a VM to bootstrap from.
ASSUME RolesAssumption ==
  /\ Len(VmRoles) \in Nat
  /\ \E i \in Vms : \A j \in Vms : "master" \in VmRoles[j] <=> j = i
  /\ \E i \in Vms : "master" \notin VmRoles[i]
                    /\ VmRoles[i] \cap {"setup", "worker"} # {}
ASSUME ChecksAssumption == Len(Checks) \in Nat \ {0}
ASSUME BoundsAssumption == MaxApt \in Nat \ {0} /\ MaxRuns \in Nat \ {0}

VARIABLES
  \* the virtual machines
  deck,        \* how far Deckhouse is installed on the master, see Stages
  docker,      \* the docker command exists on the bootstrap VM
  jobs,        \* the dhctl containers at work on the bootstrap VM, per phase
  \* the test cluster
  created,     \* modules whose resources exist
  rollout,     \* the workloads of each module
  instances,   \* workers that have a StaticInstance
  groupSize,   \* staticInstances.count of the NodeGroup, 0 without one
  readyNodes,  \* VMs that are a Ready node
  \* the run
  pc,          \* where it is
  apt,         \* failed calls of apt
  check,       \* index of the wait of ensureClusterReady
  run          \* its number

vmVars == <<deck, docker, jobs>>
clusterVars == <<created, rollout, instances, groupSize, readyNodes>>
runVars == <<pc, apt, check, run>>
vars == <<vmVars, clusterVars, runVars>>

\* none; /opt/deckhouse exists; and the API server with its kubeconfig; and
\* Deckhouse runs, so that modules are rolled out
Stages == 0..3
Phases == {"config", "resources"}

\* Deployment or DaemonSet not found; its status not yet filled in, all
\* numbers zero; not all replicas ready; all ready
Rollouts == {"absent", "blank", "starting", "ready"}

PcStates == {"check", "docker", "apt", "login", "config", "resources",
             "kubeconfig", "undock", "instances", "group", "nodes", "modules",
             "done", "dead"}

Init ==
  /\ deck = 0
  /\ docker = FALSE
  /\ jobs = [p \in Phases |-> 0]
  /\ created = {}
  /\ rollout = [m \in Modules |-> "absent"]
  /\ instances = {}
  /\ groupSize = 0
  /\ readyNodes = {}
  /\ pc = "check" /\ apt = 0 /\ check = 1 /\ run = 1

Goto(l) == pc' = l /\ UNCHANGED <<apt, check, run>>
-----------------------------------------------------------------------------
(* initVmD8 *)

\* A regression: a listing that fails counts as "not installed".
CheckInstalledStrict ==
  /\ pc = "check"
  /\ \/ Goto("docker")
     \/ deck > 0 /\ Goto("kubeconfig")
  /\ UNCHANGED <<vmVars, clusterVars>>

\* checkDeckhouseInstalled ignores the error of ls: a request that fails
\* counts as "installed".
CheckInstalled ==
  /\ pc = "check"
  /\ \/ deck = 0 /\ Goto("docker")
     \/ Goto("kubeconfig")
  /\ UNCHANGED <<vmVars, clusterVars>>

\* A request that fails counts as "no docker".
FindDocker ==
  /\ pc = "docker"
  /\ \/ docker /\ Goto("login")
     \/ Goto("apt")
  /\ UNCHANGED <<vmVars, clusterVars>>

AptInstalls ==
  /\ pc = "apt"
  /\ docker' = TRUE
  /\ Goto("login")
  /\ UNCHANGED <<deck, jobs, clusterVars>>

\* A regression: apt is called until it succeeds.
AptFailsForever ==
  /\ pc = "apt"
  /\ apt' = 1 - apt
  /\ UNCHANGED <<pc, check, run, vmVars, clusterVars>>

\* Whatever the error, RetrySec calls again until the time is up.
AptFails ==
  /\ pc = "apt"
  /\ apt' = apt + 1
  /\ pc' = IF apt' < MaxApt THEN "apt" ELSE "dead"
  /\ UNCHANGED <<check, run, vmVars, clusterVars>>

\* bootstrapConfig starts the container and waits for it, then
\* bootstrapResources does; each is cut off by its "timeout".
StartConfig ==
  /\ pc = "login"
  /\ jobs' = [jobs EXCEPT !["config"] = @ + 1]
  /\ Goto("config")
  /\ UNCHANGED <<deck, docker, clusterVars>>

StartResources ==
  /\ pc = "config"
  /\ deck = 3
  /\ jobs' = [jobs EXCEPT !["config"] = @ - 1, !["resources"] = @ + 1]
  /\ Goto("resources")
  /\ UNCHANGED <<deck, docker, clusterVars>>

ResourcesDone ==
  /\ pc = "resources"
  /\ created = Modules
  /\ jobs' = [jobs EXCEPT !["resources"] = @ - 1]
  /\ Goto("kubeconfig")
  /\ UNCHANGED <<deck, docker, clusterVars>>

DhctlFails ==
  /\ pc \in Phases
  /\ jobs' = [jobs EXCEPT ![pc] = @ - 1]
  /\ Goto("dead")
  /\ UNCHANGED <<deck, docker, clusterVars>>

\* A regression: Exec instead of ExecFatal, and the error is ignored.
GetKubeconfigUnchecked ==
  /\ pc = "kubeconfig"
  /\ Goto("undock")
  /\ UNCHANGED <<vmVars, clusterVars>>

\* ExecFatal("sudo cat /root/.kube/config")
GetKubeconfig ==
  /\ pc = "kubeconfig"
  /\ Goto(IF deck >= 2 THEN "undock" ELSE "dead")
  /\ UNCHANGED <<vmVars, clusterVars>>

-----------------------------------------------------------------------------
(* The rest of ClusterCreate. *)

\* ensureDockerRemoved; the error of "docker --version" is ignored, a request
\* that fails counts as "already removed".  With docker go its containers.
EnsureDockerRemoved ==
  /\ pc = "undock"
  /\ Goto("instances")
  /\ \/ docker' = FALSE /\ jobs' = [p \in Phases |-> 0]
     \/ UNCHANGED <<docker, jobs>>
  /\ UNCHANGED <<deck, clusterVars>>

\* createStaticInstances, one worker after the other; an instance that exists
\* is the same already, its name being made of the address.
EnsureStaticInstance ==
  /\ pc = "instances" /\ ~(Workers \subseteq instances)
  /\ \E v \in Workers \ instances :
       /\ \A w \in Workers \ instances : v <= w
       /\ instances' = instances \cup {v}
  /\ UNCHANGED <<vmVars, created, rollout, groupSize, readyNodes, runVars>>

InstancesDone ==
  /\ pc = "instances" /\ Workers \subseteq instances
  /\ Goto("group")
  /\ UNCHANGED <<vmVars, clusterVars>>

\* createNodeGroupForStatic creates the group or patches the count.
CreateNodeGroup ==
  /\ pc = "group"
  /\ groupSize' = Cardinality(Workers)
  /\ Goto("nodes")
  /\ UNCHANGED <<vmVars, created, rollout, instances, readyNodes>>

\* ensureNodesReady counts nodes: the master is one of them.
NodesReady ==
  /\ pc = "nodes"
  /\ Cardinality(readyNodes) >= Cardinality(Workers)
  /\ Goto("modules")
  /\ UNCHANGED <<vmVars, clusterVars>>

NodesTimeOut ==
  /\ pc = "nodes"
  /\ Cardinality(readyNodes) < Cardinality(Workers)
  /\ Goto("dead")
  /\ UNCHANGED <<vmVars, clusterVars>>

\* CheckDeploymentReady compares ReadyReplicas with Replicas, and
\* CheckDaemonSetReady the numbers of the status with each other and with the
\* pods: all are zero until the controller has filled in the status.
LooksReady(m) == rollout[m] \in {"blank", "ready"}

CheckModule ==
  /\ pc = "modules" /\ check <= Len(Checks)
  /\ LooksReady(Checks[check])
  /\ check' = check + 1
  /\ UNCHANGED <<pc, apt, run, vmVars, clusterVars>>

ModuleTimesOut ==
  /\ pc = "modules" /\ check <= Len(Checks)
  /\ ~LooksReady(Checks[check])
  /\ Goto("dead")
  /\ UNCHANGED <<vmVars, clusterVars>>

\* A regression: an off-by-one leaves out the last wait.
FinishEarly ==
  /\ pc = "modules" /\ check >= Len(Checks)
  /\ Goto("done")
  /\ UNCHANGED <<vmVars, clusterVars>>

Finish ==
  /\ pc = "modules" /\ check > Len(Checks)
  /\ Goto("done")
  /\ UNCHANGED <<vmVars, clusterVars>>

-----------------------------------------------------------------------------
(* The end of a run, and the next one. *)

\* A failed request, -timeout or an interrupt.  Nobody stops the containers.
Die ==
  /\ pc \notin {"dead", "done"}
  /\ Goto("dead")
  /\ UNCHANGED <<vmVars, clusterVars>>

StartAgain ==
  /\ pc \in {"dead", "done"} /\ run < MaxRuns
  /\ run' = run + 1
  /\ pc' = "check" /\ apt' = 0 /\ check' = 1

Rerun == StartAgain /\ UNCHANGED <<vmVars, clusterVars>>

\* -namespacereinit: prepareNamespace deletes the VMs with their namespace.
RerunReinit ==
  /\ StartAgain
  /\ deck' = 0 /\ docker' = FALSE /\ jobs' = [p \in Phases |-> 0]
  /\ created' = {} /\ rollout' = [m \in Modules |-> "absent"]
  /\ instances' = {} /\ groupSize' = 0 /\ readyNodes' = {}

-----------------------------------------------------------------------------
(* External: dhctl containers, nodes, module controllers. *)

DhctlConfig ==
  /\ jobs["config"] > 0 /\ deck < 3
  /\ deck' = deck + 1
  /\ UNCHANGED <<docker, jobs, clusterVars, runVars>>

DhctlResources(m) ==
  /\ jobs["resources"] > 0 /\ deck >= 2
  /\ created' = created \cup {m}
  /\ UNCHANGED <<vmVars, rollout, instances, groupSize, readyNodes, runVars>>

\* A container whose run has died ends, or is killed.
OrphanEnds(p) ==
  /\ jobs[p] > (IF pc = p THEN 1 ELSE 0)
  /\ jobs' = [jobs EXCEPT ![p] = @ - 1]
  /\ UNCHANGED <<deck, docker, clusterVars, runVars>>

NodeChanges(v) ==
  /\ \/ v \in readyNodes
     \/ v = Master /\ deck >= 2
     \/ v \in instances /\ groupSize > 0
  /\ readyNodes' = IF v \in readyNodes THEN readyNodes \ {v}
                                       ELSE readyNodes \cup {v}
  /\ UNCHANGED <<vmVars, created, rollout, instances, groupSize, runVars>>

\* The controller creates the workload, fills in its status, and replicas
\* come and go.
RolloutStarts(m) ==
  /\ deck = 3 /\ m \in created /\ rollout[m] = "absent"
  /\ rollout' = [rollout EXCEPT ![m] = "blank"]
  /\ UNCHANGED <<vmVars, created, instances, groupSize, readyNodes, runVars>>

RolloutChanges(m) ==
  /\ rollout[m] # "absent"
  /\ rollout' = [rollout EXCEPT ![m] = IF @ = "starting" THEN "ready"
                                                         ELSE "starting"]
  /\ UNCHANGED <<vmVars, created, instances, groupSize, readyNodes, runVars>>

-----------------------------------------------------------------------------
RunStep ==
  \/ CheckInstalled \/ FindDocker \/ AptInstalls \/ AptFails
  \/ StartConfig \/ StartResources \/ ResourcesDone \/ DhctlFails
  \/ GetKubeconfig \/ EnsureDockerRemoved
  \/ EnsureStaticInstance \/ InstancesDone
  \/ CreateNodeGroup \/ NodesReady \/ NodesTimeOut
  \/ CheckModule \/ ModuleTimesOut \/ Finish

External ==
  \/ DhctlConfig
  \/ \E m \in Modules :
       DhctlResources(m) \/ RolloutStarts(m) \/ RolloutChanges(m)
  \/ \E p \in Phases : OrphanEnds(p)
  \/ \E v \in Vms : NodeChanges(v)

Next == RunStep \/ Die \/ Rerun \/ RerunReinit \/ External

Spec == Init /\ [][Next]_vars

\* A run that is not killed goes on: commands are cut off by "timeout", waits
\* by RetrySec.  dhctl, the nodes and the modules owe it nothing.
FairSpec == Spec /\ WF_vars(RunStep)

-----------------------------------------------------------------------------
TypeOK ==
  /\ deck \in Stages
  /\ docker \in BOOLEAN
  /\ jobs \in [Phases -> Nat]
  /\ created \subseteq Modules
  /\ rollout \in [Modules -> Rollouts]
  /\ instances \subseteq Workers
  /\ groupSize \in 0..Cardinality(Workers)
  /\ readyNodes \subseteq Vms
  /\ pc \in PcStates
  /\ apt \in 0..MaxApt
  /\ check \in 1..(Len(Checks) + 1)
  /\ run \in 1..MaxRuns

\* Nothing of the test cluster exists yet, and nothing is about to.
Untouched == created = {} /\ instances = {} /\ jobs["resources"] = 0

\* What the cluster cannot have before Deckhouse has come so far.
StageInv ==
  /\ deck = 0 => Untouched
  /\ instances # {} => deck >= 2
  /\ \A m \in Modules : rollout[m] # "absent" => m \in created /\ deck = 3

\* What a run can rely on where it is, whatever the runs before it and their
\* containers do.
Installing == {"docker", "apt", "login", "config"}
Joining == {"undock", "instances", "group", "nodes", "modules", "done"}
RunInv ==
  /\ pc \in {"check", "docker"} => apt = 0
  /\ pc = "apt" => apt < MaxApt
  /\ pc \notin {"modules", "done", "dead"} => check = 1
  /\ pc \in Installing => Untouched
  /\ pc \in Phases => jobs[pc] >= 1
  /\ pc \in Joining => deck >= 2
  /\ pc \in {"group", "nodes", "modules", "done"} => instances = Workers
  /\ pc \in {"nodes", "modules", "done"} => groupSize = Cardinality(Workers)
  /\ pc \in {"modules", "done"} =>
       \A i \in 1..(check - 1) : rollout[Checks[i]] # "absent"
  /\ pc = "done" => check = Len(Checks) + 1

\* The containers: each run starts one of the first phase at most, and one
\* of the second is started only when none is at work.
JobsInv ==
  /\ jobs["config"] <= run
  /\ pc \in {"check", "docker", "apt", "login"} => jobs["config"] < run
  /\ jobs["resources"] <= 1
  /\ jobs["resources"] > 0 => deck = 3

CreateInv == TypeOK /\ StageInv /\ RunInv /\ JobsInv

\* ClusterCreate returns only with a cluster that has everything it was to
\* be given, also when it took a half-made cluster for an installed one and
\* skipped the installation.
DoneComplete ==
  pc = "done" =>
    /\ deck = 3 /\ created = Modules
    /\ instances = Workers /\ groupSize = Cardinality(Workers)

\* No run starts to install over a cluster that an earlier run has taken
\* further than dhctl's first phase, nor puts Docker on a node of it, even
\* when the answer of checkDeckhouseInstalled was wrong or has become stale.
NoReinstall ==
  [][(docker' /\ ~docker) \/ jobs'["config"] > jobs["config"] =>
       created = {} /\ instances = {}]_vars

\* Over all runs, crashes and containers left behind, the cluster has the life
\* that both bootstraps promise: see ClusterLife.  No run installs over what
\* an earlier one has built, even when the answer of checkDeckhouseInstalled
\* was wrong or has become stale, and no run returns from half a cluster.
Life == INSTANCE ClusterLife WITH
  Jobs <- 1..MaxRuns, Resources <- Modules, Nodes <- Workers,
  deckhouse <- deck,
  installers <- 1..jobs["config"], populators <- 1..jobs["resources"],
  furnished <- created, members <- instances, reported <- pc = "done"
ImplementsLife == Life!LifeSpec

\* ClusterCreate returns or kills the process.
CreateEnds == (pc = "check") ~> (pc \in {"done", "dead"})

\* EnsureCluster is to "check and modify existing cluster if needed"
\* (kube_cluster.go:26): what an earlier run left, with no container at work
\* on it, is nothing, or something this run can finish.
RepairedByRerun ==
  pc = "check" /\ (\A p \in Phases : jobs[p] = 0) =>
    deck = 0 \/ (deck = 3 /\ created = Modules)

\* "ensureNodesReady checks if all nodes are ready after being added" (377).
AllAddedReady ==
  [][pc = "nodes" /\ pc' = "modules" => instances \subseteq readyNodes]_vars
==============================================================================
