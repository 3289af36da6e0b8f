------------------------------- MODULE LvmStore -------------------------------
(***************************************************************************)
(* Block devices and LVM volume groups of the cluster under test, as the   *)
(* tests see them through util/kube_storage.go, and the disks that         *)
(* util/kube_vm.go attaches to its nodes from the hypervisor.  The agent   *)
(* that turns disks into block devices and objects into volume groups      *)
(* (sds-node-configurator) is external.                                    *)
(***************************************************************************)
EXTENDS Integers, FiniteSets

CONSTANTS
  Node,         \* nodes of the cluster under test
  Bd,           \* block devices there may ever be
  NodeOf        \* the node a block device is on

ASSUME NodeOfAssumption == NodeOf \in [Bd -> Node]
ASSUME BdAssumption == IsFiniteSet(Bd) /\ Bd # {}

\* Tests name a group after the device it is made on.
Lvg == {"e2e-01-", "e2e-lvg-"} \X Bd

VARIABLES
  disk,         \* pairs of a disk's name, <<node, number>>, and its device
  bds,          \* the BlockDevice objects
  lvgs,         \* the LVMVolumeGroup objects
  sel,          \* the devices selected by the spec of each
  held,         \* the devices in its status: those the volume group has
  deleting      \* the objects that have been deleted and are still there

storeVars == <<disk, bds, lvgs, sel, held, deleting>>

Attached == {d[2] : d \in disk}
Named(prefix) == {l \in lvgs : l[1] = prefix}
Selected == UNION {sel[l] : l \in lvgs}
Held == UNION {held[l] : l \in lvgs}
-----------------------------------------------------------------------------
(* What the tests ask for *)

\* A regression: without the filter on the status "consumable".
ListAnyBD(n) == {b \in bds : NodeOf[b] = n}

\* ListBD(BdFilter{Node: n, Consumable: true})
ListBD(n) == {b \in bds : NodeOf[b] = n /\ b \notin Held}

\* ListLVG(LvgFilter{Name: prefix, Node: n}): the node is looked up in the
\* status, so that a group without a status is on no node.
ListLVG(prefix, n) ==
  {l \in Named(prefix) : held[l] # {} /\ NodeOf[l[2]] = n}

\* The phase of an LVMVolumeGroup, for WaitLVGsReady.
Ready(l) == held[l] # {} /\ held[l] = sel[l]

\* Devices of a node that nothing refers to: one is like the other.
Fresh(n) ==
  {b \in Bd \ (Attached \cup bds \cup Selected \cup Held) :
     NodeOf[b] = n /\ \A l \in lvgs : l[2] # b}

\* CreateVMBD: a disk of that name is taken as it is.
CreateVMBD(n, number) ==
  \/ /\ \E d \in disk : d[1] = <<n, number>>
     /\ UNCHANGED disk
  \/ /\ \A d \in disk : d[1] # <<n, number>>
     /\ Fresh(n) # {}
     /\ disk' = disk \cup {<<<<n, number>>, CHOOSE b \in Fresh(n) : TRUE>>}

CreateLVG(l) ==
  /\ l \notin lvgs
  /\ lvgs' = lvgs \cup {l}
  /\ sel' = [sel EXCEPT ![l] = {l[2]}]
  /\ UNCHANGED <<disk, bds, held, deleting>>

\* The caller's copy is the latest, or the update is refused.
UpdateLVG(l, more) ==
  /\ l \in lvgs
  /\ sel' = [sel EXCEPT ![l] = @ \cup more]
  /\ UNCHANGED <<disk, bds, lvgs, held, deleting>>

DeleteLVG(L) ==
  /\ deleting' = deleting \cup L
  /\ UNCHANGED <<disk, bds, lvgs, sel, held>>

DeleteVmbd(D) ==
  /\ disk' = disk \ D
  /\ UNCHANGED <<bds, lvgs, sel, held, deleting>>

DeleteBd(B) ==
  /\ bds' = bds \ B
  /\ UNCHANGED <<disk, lvgs, sel, held, deleting>>
-----------------------------------------------------------------------------
(* The agent on the nodes *)

Discover(b) ==
  /\ b \in Attached \ bds
  /\ bds' = bds \cup {b}
  /\ UNCHANGED <<disk, lvgs, sel, held, deleting>>

Vanish(b) ==
  /\ b \in bds \ (Attached \cup Held)
  /\ bds' = bds \ {b}
  /\ UNCHANGED <<disk, lvgs, sel, held, deleting>>

\* The volume group is made, or extended, if no other has the devices.
Reconcile(l) ==
  /\ l \in lvgs \ deleting
  /\ sel[l] # held[l] /\ sel[l] \subseteq bds \cap Attached
  /\ \A m \in lvgs \ {l} : held[m] \cap sel[l] = {}
  /\ held' = [held EXCEPT ![l] = sel[l]]
  /\ UNCHANGED <<disk, bds, lvgs, sel, deleting>>

Remove(l) ==
  /\ l \in deleting
  /\ lvgs' = lvgs \ {l}
  /\ deleting' = deleting \ {l}
  /\ sel' = [sel EXCEPT ![l] = {}]
  /\ held' = [held EXCEPT ![l] = {}]
  /\ UNCHANGED <<disk, bds>>

Agent ==
  \/ \E b \in Bd : Discover(b) \/ Vanish(b)
  \/ \E l \in Lvg : Reconcile(l) \/ Remove(l)
==============================================================================
