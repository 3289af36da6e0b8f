------------------------------- MODULE MCPrograms -------------------------------
(***************************************************************************)
(* An instance of the five programs that stand alone: the bootstrap of the *)
(* older toolkit, TestPVC, the cases of images/sds-lvm-e2e and its two     *)
(* kinds of benchmarks.  They run on clusters of their own and share no    *)
(* state; the initial state says which one is started, the others are idle *)
(* and stay as they are.                                                   *)
(***************************************************************************)
EXTENDS InitCluster, PvcTests, VolumeCases, FullCycle, ParallelBench

VARIABLE program  \* the program that is started

vars == <<program, bootVars, pvcVars, casesVars, cycleVars, benchVars>>

\* NewVmItems of the bootstrap: master, installer and second worker.
MCVmItems == <<"vm1", "vm2", "vm3">>

BootIdle ==
  /\ privFile = NoFile /\ pubFile = NoFile /\ image = FALSE
  /\ ipClaims = {} /\ sysDisks = {} /\ dataDisks = {} /\ attached = {}
  /\ machines = {} /\ diskless = {} /\ trusted = [v \in Vms |-> Empty]
  /\ aptLock = FALSE /\ dockerCmd = FALSE /\ stage = "none"
  /\ dhctl = [p \in DhctlPhases |-> {}]
  /\ resources = FALSE /\ secret = FALSE /\ scripts = {} /\ joined = {}
  /\ account = FALSE /\ token = FALSE
  /\ bootPc = "dead" /\ boot = MaxBoots /\ item = 1 /\ sshPub = Empty
  /\ newSys = FALSE /\ install = FALSE /\ nodeList = {} /\ script = "none"
  /\ busy = {} /\ launched = {}

PvcIdle == PvcInit /\ modVersion["nc"] = 0 /\ ~class

CycleIdle ==
  /\ binding = "Immediate"
  /\ claimPhase = [c \in ClaimNames |-> "none"]
  /\ podPhase = [c \in ClaimNames |-> "none"]
  /\ cyclePc = "done" /\ cycleTodo = {}
  /\ pvcNames = {} /\ boundMarks = {} /\ bounded = 0
  /\ podNames = {} /\ goodMarks = {} /\ succeeded = 0

Init ==
  \/ program = "boot" /\ BootInit /\ PvcIdle /\ CaseInit /\ CycleIdle /\ BenchInit
  \/ program = "pvc" /\ BootIdle /\ PvcInit /\ CaseInit /\ CycleIdle /\ BenchInit
  \/ program = "cases" /\ BootIdle /\ PvcIdle /\ CaseInit /\ CycleIdle /\ BenchInit
  \/ program = "cycle" /\ BootIdle /\ PvcIdle /\ CaseInit /\ CycleInit /\ BenchInit
  \/ program = "bench" /\ BootIdle /\ PvcIdle /\ CaseInit /\ CycleIdle /\ BenchInit

Next ==
  \/ /\ program = "boot" /\ BootNext
     /\ UNCHANGED <<program, pvcVars, casesVars, cycleVars, benchVars>>
  \/ /\ program = "pvc" /\ PvcNext
     /\ UNCHANGED <<program, bootVars, casesVars, cycleVars, benchVars>>
  \/ /\ program = "cases" /\ CaseNext
     /\ UNCHANGED <<program, bootVars, pvcVars, cycleVars, benchVars>>
  \/ /\ program = "cycle" /\ CycleNext
     /\ UNCHANGED <<program, bootVars, pvcVars, casesVars, benchVars>>
  \/ /\ program = "bench" /\ BenchNext
     /\ UNCHANGED <<program, bootVars, pvcVars, casesVars, cycleVars>>

Spec == Init /\ [][Next]_vars /\ BootFairness /\ CycleFairness
==============================================================================
