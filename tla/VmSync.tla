-------------------------------- MODULE VmSync --------------------------------
(***************************************************************************)
(* The virtual machines of the test cluster: vmSync and vmCreate           *)
(* (testkit_v2/util/kube_vm_cluster.go) and CreateVM with the objects it   *)
(* makes (testkit_v2/util/kube_vm.go).  Several test runs, each a process  *)
(* of its own, work against one hypervisor; they may share a namespace     *)
(* (-namespace), always share the cluster-wide images, and may die between *)
(* any two requests and be started again on what they left behind.         *)
(* The API server and the virtualization controller are external.          *)
(***************************************************************************)
EXTENDS Integers, Sequences, FiniteSets

CONSTANTS
  Runs,         \* test runs
  Namespaces,   \* values of -namespace
  VmCluster,    \* the sequence of VM names of the configured cluster type
  Foreign,      \* names of VMs that another cluster type has left behind
  Images,       \* OS images
  ImageOf,      \* the image of each configured VM
  StaticIp      \* the configured VMs with an ip of their own

Required == {VmCluster[i] : i \in 1..Len(VmCluster)}
Names == Required \cup Foreign

ASSUME VmClusterAssumption ==
  /\ VmCluster \in Seq(Required) /\ VmCluster # <<>>
  /\ IsFiniteSet(Required)
  /\ Cardinality(Required) = Len(VmCluster)     \* the names are distinct
  /\ Required \cap Foreign = {}
ASSUME ForeignAssumption == IsFiniteSet(Foreign)
ASSUME ImagesAssumption == ImageOf \in [Required -> Images]
ASSUME StaticIpAssumption == StaticIp \subseteq Required

VARIABLES
  \* the hypervisor
  images,    \* the ClusterVirtualImages that exist
  claims,    \* per namespace, the VMs with a VirtualMachineIPAddress
  disks,     \* per namespace, the VMs whose system disk exists
  made,      \* per namespace, the VirtualMachines that exist
  blank,     \* per namespace, those made with an empty disk reference
  running,   \* per namespace, those in phase Running, which have an address
  \* the test runs
  nsOf,      \* the namespace each run was given
  pc,        \* where each run is
  next,      \* index of the VM that vmCreate is at
  newDisk,   \* vmSystemDisk.Name is set: this call made the disk
  vmList,    \* the result of the last ListVM
  ipKnown    \* the VMs of the run's VmCluster whose ip has been filled in

hvVars == <<images, claims, disks, made, blank, running>>
runVars == <<nsOf, pc, next, newDisk, vmList, ipKnown>>
vars == <<hvVars, runVars>>

PcStates == {"list", "image", "mkImage", "claim", "mkClaim", "disk", "mkDisk",
             "vm", "wait", "assign", "synced", "dead"}

Init ==
  /\ images = {}
  /\ claims = [n \in Namespaces |-> {}]
  /\ \E left \in [Namespaces -> SUBSET Foreign] :
       disks = left /\ made = left /\ running = left
  /\ blank = [n \in Namespaces |-> {}]
  /\ nsOf \in [Runs -> Namespaces]
  /\ pc = [r \in Runs |-> "list"]
  /\ next = [r \in Runs |-> 1]
  /\ newDisk = [r \in Runs |-> FALSE]
  /\ vmList = [r \in Runs |-> {}]
  /\ ipKnown = [r \in Runs |-> {}]

Goto(r, l) == pc' = [pc EXCEPT ![r] = l]
Add(f, r, v) == [f EXCEPT ![nsOf[r]] = @ \cup {v}]
Vm(r) == VmCluster[next[r]]
-----------------------------------------------------------------------------
(* vmSync: are there VMs enough? *)

\* Every VM of the namespace counts, whatever its name.  A request that
\* fails counts as no VM.
ListVms(r) ==
  /\ pc[r] = "list"
  /\ \/ /\ Cardinality(made[nsOf[r]]) >= Len(VmCluster)
        /\ Goto(r, "wait")
     \/ Goto(r, "image")
  /\ UNCHANGED <<hvVars, nsOf, next, newDisk, vmList, ipKnown>>

-----------------------------------------------------------------------------
(* CreateVM, for the VM that vmCreate is at.  A look-up that fails is taken *)
(* for an object that is missing; to create one that exists is fatal, but   *)
(* for the VM itself.                                                       *)

GetImage(r) ==
  /\ pc[r] = "image"
  /\ \/ ImageOf[Vm(r)] \in images /\ Goto(r, "claim")
     \/ Goto(r, "mkImage")
  /\ UNCHANGED <<hvVars, nsOf, next, newDisk, vmList, ipKnown>>

CreateImage(r) ==
  /\ pc[r] = "mkImage"
  /\ IF ImageOf[Vm(r)] \in images
       THEN Goto(r, "dead") /\ UNCHANGED images
       ELSE Goto(r, "claim") /\ images' = images \cup {ImageOf[Vm(r)]}
  /\ UNCHANGED <<claims, disks, made, blank, running, nsOf, next, newDisk,
                 vmList, ipKnown>>

\* Here a failed request is an error, which Die stands for.
ListIpClaim(r) ==
  /\ pc[r] = "claim"
  /\ Goto(r, IF Vm(r) \in StaticIp \ claims[nsOf[r]] THEN "mkClaim" ELSE "disk")
  /\ UNCHANGED <<hvVars, nsOf, next, newDisk, vmList, ipKnown>>

CreateIpClaim(r) ==
  /\ pc[r] = "mkClaim"
  /\ IF Vm(r) \in claims[nsOf[r]]
       THEN Goto(r, "dead") /\ UNCHANGED claims
       ELSE Goto(r, "disk") /\ claims' = Add(claims, r, Vm(r))
  /\ UNCHANGED <<images, disks, made, blank, running, nsOf, next, newDisk,
                 vmList, ipKnown>>

\* The disk found is discarded: vmSystemDisk stays the empty object.
GetVd(r) ==
  /\ pc[r] = "disk"
  /\ newDisk' = [newDisk EXCEPT ![r] = FALSE]
  /\ \/ Vm(r) \in disks[nsOf[r]] /\ Goto(r, "vm")
     \/ Goto(r, "mkDisk")
  /\ UNCHANGED <<hvVars, nsOf, next, vmList, ipKnown>>

\* A regression: the error of the disk's creation is logged, not returned.
CreateVdUnchecked(r) ==
  /\ pc[r] = "mkDisk"
  /\ Goto(r, "vm")
  /\ newDisk' = [newDisk EXCEPT ![r] = TRUE]
  /\ \/ disks' = Add(disks, r, Vm(r))
     \/ UNCHANGED disks
  /\ UNCHANGED <<images, claims, made, blank, running, nsOf, next, vmList,
                 ipKnown>>

CreateVd(r) ==
  /\ pc[r] = "mkDisk"
  /\ IF Vm(r) \in disks[nsOf[r]]
       THEN Goto(r, "dead") /\ UNCHANGED <<disks, newDisk>>
       ELSE /\ Goto(r, "vm")
            /\ disks' = Add(disks, r, Vm(r))
            /\ newDisk' = [newDisk EXCEPT ![r] = TRUE]
  /\ UNCHANGED <<images, claims, made, blank, running, nsOf, next, vmList,
                 ipKnown>>

\* AlreadyExists is no error here, and the existing VM stays as it is.
CreateVmObject(r) ==
  /\ pc[r] = "vm"
  /\ made' = Add(made, r, Vm(r))
  /\ blank' = IF Vm(r) \in made[nsOf[r]] \/ newDisk[r]
                THEN blank ELSE Add(blank, r, Vm(r))
  /\ IF next[r] < Len(VmCluster)
       THEN Goto(r, "image") /\ next' = [next EXCEPT ![r] = @ + 1]
       ELSE Goto(r, "wait") /\ next' = [next EXCEPT ![r] = 1]
  /\ newDisk' = [newDisk EXCEPT ![r] = FALSE]
  /\ UNCHANGED <<images, claims, disks, running, nsOf, vmList, ipKnown>>

-----------------------------------------------------------------------------
(* vmSync: wait until as many VMs run as are required. *)

\* A regression: the phase is left out of the filter.
ListedAnyPhase(r) == made[nsOf[r]]

Listed(r) == running[nsOf[r]]

Enough(S) == Cardinality(S) >= Len(VmCluster)

SeeRunning(r) ==
  /\ pc[r] = "wait"
  /\ Enough(Listed(r))
  /\ vmList' = [vmList EXCEPT ![r] = Listed(r)]
  /\ Goto(r, "assign")
  /\ UNCHANGED <<hvVars, nsOf, next, newDisk, ipKnown>>

\* A regression: on a time-out, wait again.
WaitTimesOutNever(r) == pc[r] = "wait" /\ ~Enough(Listed(r)) /\ UNCHANGED vars

\* RetrySec(8*60) returned an error: Fatalf.
WaitTimesOut(r) ==
  /\ pc[r] = "wait"
  /\ ~Enough(Listed(r))
  /\ Goto(r, "dead")
  /\ UNCHANGED <<hvVars, nsOf, next, newDisk, vmList, ipKnown>>

\* Addresses are filled in by name, from the list that was long enough.
AssignIps(r) ==
  /\ pc[r] = "assign"
  /\ ipKnown' = [ipKnown EXCEPT ![r] = vmList[r] \cap Required]
  /\ Goto(r, "synced")
  /\ UNCHANGED <<hvVars, nsOf, next, newDisk, vmList>>

-----------------------------------------------------------------------------
(* A run ends at any point (Fatalf on a failed request, -timeout, an       *)
(* interrupt), and is started again on the same namespace.                 *)

Forget(r) ==
  /\ next' = [next EXCEPT ![r] = 1]
  /\ newDisk' = [newDisk EXCEPT ![r] = FALSE]
  /\ vmList' = [vmList EXCEPT ![r] = {}]
  /\ ipKnown' = [ipKnown EXCEPT ![r] = {}]

Die(r) ==
  /\ pc[r] # "dead"
  /\ Goto(r, "dead")
  /\ Forget(r)
  /\ UNCHANGED <<hvVars, nsOf>>

Restart(r) ==
  /\ pc[r] \in {"dead", "synced"}
  /\ Goto(r, "list")
  /\ Forget(r)
  /\ UNCHANGED <<hvVars, nsOf>>

(* The virtualization controller: a VM boots from its disk, or not at all; *)
(* it may go down and come up again.                                       *)
VmStarts(n, v) ==
  /\ v \in (made[n] \ blank[n]) \cap disks[n]
  /\ running' = [running EXCEPT ![n] = @ \cup {v}]
  /\ UNCHANGED <<images, claims, disks, made, blank, runVars>>

VmStops(n, v) ==
  /\ v \in running[n]
  /\ running' = [running EXCEPT ![n] = @ \ {v}]
  /\ UNCHANGED <<images, claims, disks, made, blank, runVars>>

-----------------------------------------------------------------------------
RunStep(r) ==
  \/ ListVms(r) \/ GetImage(r) \/ CreateImage(r)
  \/ ListIpClaim(r) \/ CreateIpClaim(r)
  \/ GetVd(r) \/ CreateVd(r) \/ CreateVmObject(r)
  \/ SeeRunning(r) \/ WaitTimesOut(r) \/ AssignIps(r)

Next ==
  \/ \E r \in Runs : RunStep(r) \/ Die(r) \/ Restart(r)
  \/ \E n \in Namespaces, v \in Names : VmStarts(n, v) \/ VmStops(n, v)

Spec == Init /\ [][Next]_vars

\* A run that is not killed goes on: each request is answered or fails, and
\* RetrySec is bounded.  VMs need not start, and nobody needs to restart.
FairSpec == Spec /\ \A r \in Runs : WF_vars(RunStep(r))

-----------------------------------------------------------------------------
TypeOK ==
  /\ images \subseteq Images
  /\ claims \in [Namespaces -> SUBSET Names]
  /\ disks \in [Namespaces -> SUBSET Names]
  /\ made \in [Namespaces -> SUBSET Names]
  /\ blank \in [Namespaces -> SUBSET Names]
  /\ running \in [Namespaces -> SUBSET Names]
  /\ nsOf \in [Runs -> Namespaces]
  /\ pc \in [Runs -> PcStates]
  /\ next \in [Runs -> 1..Len(VmCluster)]
  /\ newDisk \in [Runs -> BOOLEAN]
  /\ vmList \in [Runs -> SUBSET Names]
  /\ ipKnown \in [Runs -> SUBSET Names]

\* The steps at which CreateVM has the image, and those at which it also has
\* the address.
PastImage == {"claim", "mkClaim", "disk", "mkDisk", "vm"}
PastClaim == {"disk", "mkDisk", "vm"}

\* Whatever VM object exists, and whoever died while making it, everything
\* it is made of exists; only such a VM runs.
WholeVms ==
  \A n \in Namespaces :
    /\ running[n] \subseteq made[n] \ blank[n]
    /\ made[n] \subseteq disks[n]
    /\ \A v \in made[n] \cap Required :
         ImageOf[v] \in images /\ (v \in StaticIp => v \in claims[n])

\* What the step a run is at says of the objects made so far.
MadeSoFar(r) ==
  /\ pc[r] \in PastImage => ImageOf[Vm(r)] \in images
  /\ pc[r] \in PastClaim /\ Vm(r) \in StaticIp => Vm(r) \in claims[nsOf[r]]
  /\ pc[r] = "vm" => Vm(r) \in disks[nsOf[r]]

\* No run has seen or filled in a VM that does not exist or cannot boot.
SeenSoFar(r) ==
  /\ vmList[r] \subseteq made[nsOf[r]] \ blank[nsOf[r]]
  /\ pc[r] \in {"assign", "synced"} => Enough(vmList[r])
  /\ pc[r] = "synced" => ipKnown[r] = vmList[r] \cap Required

StepInv == \A r \in Runs : MadeSoFar(r)
ListInv == \A r \in Runs : SeenSoFar(r)

ProvisionInv == TypeOK /\ WholeVms /\ StepInv /\ ListInv

\* In a namespace without VMs of other cluster types, vmSync returns only
\* when every configured VM has its address and was made with a disk to boot
\* from, although it only counts VMs and although VMs and runs come and go.
SyncedComplete ==
  \A r \in Runs :
    pc[r] = "synced" /\ made[nsOf[r]] \cap Foreign = {} =>
      ipKnown[r] = Required /\ blank[nsOf[r]] \cap Required = {}

\* vmSync ends, with the VMs or with the run.
SyncEnds == \A r \in Runs : (pc[r] = "list") ~> (pc[r] \in {"synced", "dead"})

\* EnsureCluster is to "check and modify existing cluster if needed"
\* (kube_cluster.go:26): no VM is left that no later run can make boot.
EveryVmBootable == \A n \in Namespaces : blank[n] = {}
==============================================================================
