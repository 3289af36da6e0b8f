----------------------------- MODULE VmSyncProofs -----------------------------
(***************************************************************************)
(* vmSync for any number of runs, namespaces and virtual machines: what    *)
(* the objects left by dead runs always have, and why counting running VMs *)
(* is enough where no other cluster type has left any.                     *)
(***************************************************************************)
EXTENDS VmSync, FiniteSetTheorems, TLAPS

(* The VM a run is at is one of the configured ones, and has an image.       *)
LEMMA VmRequired ==
  ASSUME TypeOK, NEW r \in Runs
  PROVE  Vm(r) \in Required /\ ImageOf[Vm(r)] \in Images /\ Vm(r) \in Names
<1>1. next[r] \in 1..Len(VmCluster)
  BY DEF TypeOK
<1>2. Vm(r) \in Required
  BY <1>1 DEF Vm, Required
<1> QED
  BY <1>2, ImagesAssumption DEF Names

(* A cluster type has at least one VM.                                       *)
LEMMA ClusterNotEmpty == Len(VmCluster) \in Nat /\ 1 \in 1..Len(VmCluster)
BY VmClusterAssumption

(* To add a VM to what exists in a run's namespace adds just that.           *)
LEMMA AddOne ==
  ASSUME NEW f \in [Namespaces -> SUBSET Names], NEW r \in Runs,
         nsOf \in [Runs -> Namespaces], NEW v \in Names
  PROVE  /\ Add(f, r, v) \in [Namespaces -> SUBSET Names]
         /\ \A n \in Namespaces :
              Add(f, r, v)[n] = IF n = nsOf[r] THEN f[n] \cup {v} ELSE f[n]
BY DEF Add

(* ProvisionInv holds when the first runs start.                             *)
LEMMA InitProvisionInv == Init => ProvisionInv
<1> SUFFICES ASSUME Init PROVE ProvisionInv
  OBVIOUS
<1>1. TypeOK
  <2>1. PICK left \in [Namespaces -> SUBSET Foreign] :
          disks = left /\ made = left /\ running = left
    BY DEF Init
  <2>2. left \in [Namespaces -> SUBSET Names]
    BY DEF Names
  <2>3. newDisk \in [Runs -> BOOLEAN]
    BY Zenon DEF Init
  <2> QED
    BY <2>1, <2>2, <2>3, ClusterNotEmpty DEF Init, TypeOK, PcStates
<1>2. WholeVms
  <2>1. \A n \in Namespaces :
          made[n] \subseteq Foreign /\ disks[n] = made[n] /\ running[n] = made[n]
    BY DEF Init
  <2> QED
    BY <2>1, VmClusterAssumption DEF Init, WholeVms
<1>3. StepInv /\ ListInv
  BY DEF Init, StepInv, ListInv, MadeSoFar, SeenSoFar, PastImage, PastClaim
<1> QED
  BY <1>1, <1>2, <1>3 DEF ProvisionInv

(* Every step keeps the types.                                               *)
LEMMA NextTypeOK == TypeOK /\ [Next]_vars => TypeOK'
<1> SUFFICES ASSUME TypeOK, [Next]_vars PROVE TypeOK'
  OBVIOUS
<1> USE DEF TypeOK, PcStates, Goto, hvVars, runVars
<1>1. ASSUME NEW r \in Runs, RunStep(r) PROVE TypeOK'
  <2>1. Vm(r) \in Names /\ ImageOf[Vm(r)] \in Images
    BY VmRequired
  <2>2. CASE ListVms(r) \/ GetImage(r) \/ ListIpClaim(r)
    BY <2>2 DEF ListVms, GetImage, ListIpClaim
  <2>3. CASE CreateImage(r)
    BY <2>1, <2>3 DEF CreateImage
  <2>4. CASE CreateIpClaim(r)
    <3>1. claims' \in [Namespaces -> SUBSET Names]
      <4>1. claims' = claims \/ claims' = Add(claims, r, Vm(r))
        BY <2>4 DEF CreateIpClaim
      <4>2. Add(claims, r, Vm(r)) \in [Namespaces -> SUBSET Names]
        BY <2>1 DEF Add
      <4> QED
        BY <4>1, <4>2
    <3> QED
      BY <2>4, <3>1 DEF CreateIpClaim
  <2>5. CASE GetVd(r)
    BY <2>5 DEF GetVd
  <2>6. CASE CreateVd(r)
    <3>1. disks' \in [Namespaces -> SUBSET Names]
      <4>1. disks' = disks \/ disks' = Add(disks, r, Vm(r))
        BY <2>6 DEF CreateVd
      <4>2. Add(disks, r, Vm(r)) \in [Namespaces -> SUBSET Names]
        BY <2>1 DEF Add
      <4> QED
        BY <4>1, <4>2
    <3> QED
      BY <2>6, <3>1 DEF CreateVd
  <2>7. CASE CreateVmObject(r)
    <3>1. made' \in [Namespaces -> SUBSET Names]
      BY <2>1, <2>7 DEF CreateVmObject, Add
    <3>2. blank' \in [Namespaces -> SUBSET Names]
      <4>1. blank' = blank \/ blank' = Add(blank, r, Vm(r))
        BY <2>7 DEF CreateVmObject
      <4>2. Add(blank, r, Vm(r)) \in [Namespaces -> SUBSET Names]
        BY <2>1 DEF Add
      <4> QED
        BY <4>1, <4>2
    <3>3. next' \in [Runs -> 1..Len(VmCluster)] /\ pc' \in [Runs -> PcStates]
      <4>1. CASE next[r] < Len(VmCluster)
        <5>1. next[r] + 1 \in 1..Len(VmCluster)
          BY <4>1, ClusterNotEmpty
        <5> QED
          BY <2>7, <4>1, <5>1 DEF CreateVmObject
      <4>2. CASE ~(next[r] < Len(VmCluster))
        BY <2>7, <4>2, ClusterNotEmpty DEF CreateVmObject
      <4> QED
        BY <4>1, <4>2
    <3>4. newDisk' \in [Runs -> BOOLEAN]
      BY <2>7 DEF CreateVmObject
    <3> QED
      BY <2>7, <3>1, <3>2, <3>3, <3>4 DEF CreateVmObject
  <2>8. CASE SeeRunning(r) \/ WaitTimesOut(r) \/ AssignIps(r)
    BY <2>8 DEF SeeRunning, WaitTimesOut, AssignIps, Listed
  <2> QED
    BY <1>1, <2>2, <2>3, <2>4, <2>5, <2>6, <2>7, <2>8 DEF RunStep
<1>2. ASSUME NEW r \in Runs, Die(r) \/ Restart(r) PROVE TypeOK'
  BY <1>2, ClusterNotEmpty DEF Die, Restart, Forget
<1>3. ASSUME NEW n \in Namespaces, NEW v \in Names,
             VmStarts(n, v) \/ VmStops(n, v)
      PROVE  TypeOK'
  BY <1>3 DEF VmStarts, VmStops
<1>4. CASE UNCHANGED vars
  BY <1>4 DEF vars
<1> QED
  BY <1>1, <1>2, <1>3, <1>4 DEF Next

(* Nothing that was made goes away, and a VM that can boot stays so.         *)
LEMMA Grows ==
  ASSUME TypeOK, [Next]_vars
  PROVE  /\ nsOf' = nsOf
         /\ images \subseteq images'
         /\ \A n \in Namespaces :
              /\ claims[n] \subseteq claims'[n]
              /\ disks[n] \subseteq disks'[n]
              /\ made[n] \subseteq made'[n]
              /\ made[n] \ blank[n] \subseteq made'[n] \ blank'[n]
<1> USE DEF TypeOK, hvVars, runVars
<1> DEFINE Grown ==
      /\ nsOf' = nsOf
      /\ images \subseteq images'
      /\ \A n \in Namespaces :
           /\ claims[n] \subseteq claims'[n]
           /\ disks[n] \subseteq disks'[n]
           /\ made[n] \subseteq made'[n]
           /\ made[n] \ blank[n] \subseteq made'[n] \ blank'[n]
<1>1. ASSUME NEW r \in Runs, RunStep(r) PROVE Grown
  <2>1. CASE ListVms(r) \/ GetImage(r) \/ ListIpClaim(r) \/ GetVd(r)
             \/ SeeRunning(r) \/ WaitTimesOut(r) \/ AssignIps(r)
    BY <2>1 DEF ListVms, GetImage, ListIpClaim, GetVd, SeeRunning,
                WaitTimesOut, AssignIps
  <2>2. CASE CreateImage(r)
    BY <2>2 DEF CreateImage
  <2>3. CASE CreateIpClaim(r)
    BY <2>3 DEF CreateIpClaim, Add
  <2>4. CASE CreateVd(r)
    <3>1. disks' = disks \/ disks' = Add(disks, r, Vm(r))
      BY <2>4 DEF CreateVd
    <3>2. \A n \in Namespaces : disks[n] \subseteq disks'[n]
      <4>1. CASE disks' = disks
        BY <4>1
      <4>2. CASE disks' = Add(disks, r, Vm(r))
        BY <4>2 DEF Add
      <4> QED
        BY <3>1, <4>1, <4>2
    <3> QED
      BY <2>4, <3>2 DEF CreateVd
  <2>5. CASE CreateVmObject(r)
    <3>1. \A n \in Namespaces :
            made'[n] = IF n = nsOf[r] THEN made[n] \cup {Vm(r)} ELSE made[n]
      BY <2>5 DEF CreateVmObject, Add
    <3>2. \A n \in Namespaces : blank'[n] \subseteq blank[n] \cup (made'[n] \ made[n])
      <4>1. CASE Vm(r) \in made[nsOf[r]] \/ newDisk[r]
        BY <2>5, <4>1 DEF CreateVmObject
      <4>2. CASE ~(Vm(r) \in made[nsOf[r]] \/ newDisk[r])
        BY <2>5, <3>1, <4>2 DEF CreateVmObject, Add
      <4> QED
        BY <4>1, <4>2
    <3>3. \A n \in Namespaces : made[n] \ blank[n] \subseteq made'[n] \ blank'[n]
      BY <3>1, <3>2
    <3> QED
      BY <2>5, <3>1, <3>3 DEF CreateVmObject
  <2> QED
    BY <1>1, <2>1, <2>2, <2>3, <2>4, <2>5 DEF RunStep
<1>2. ASSUME NEW r \in Runs, Die(r) \/ Restart(r) PROVE Grown
  BY <1>2 DEF Die, Restart
<1>3. ASSUME NEW n \in Namespaces, NEW v \in Names,
             VmStarts(n, v) \/ VmStops(n, v)
      PROVE  Grown
  BY <1>3 DEF VmStarts, VmStops
<1>4. CASE UNCHANGED vars
  BY <1>4 DEF vars
<1> QED
  BY <1>1, <1>2, <1>3, <1>4 DEF Next

(* A step of another actor leaves what a run relies on.                      *)
LEMMA OthersKeep ==
  ASSUME TypeOK, [Next]_vars, NEW q \in Runs, MadeSoFar(q), SeenSoFar(q),
         pc'[q] = pc[q], next'[q] = next[q], vmList'[q] = vmList[q],
         ipKnown'[q] = ipKnown[q]
  PROVE  MadeSoFar(q)' /\ SeenSoFar(q)'
<1>1. nsOf[q] \in Namespaces
  BY DEF TypeOK
<1>2. Vm(q)' = Vm(q)
  BY DEF Vm
<1>3. MadeSoFar(q)'
  BY <1>1, <1>2, Grows DEF MadeSoFar
<1>4. SeenSoFar(q)'
  BY <1>1, Grows DEF SeenSoFar, Enough
<1> QED
  BY <1>3, <1>4

(* Every step keeps what VM objects are made of.                             *)
LEMMA NextWholeVms ==
  ASSUME ProvisionInv, [Next]_vars
  PROVE  WholeVms'
<1> USE DEF ProvisionInv, TypeOK, hvVars, runVars
<1> DEFINE Kept == /\ running' = running
                   /\ made' = made
<1>1. ASSUME Kept PROVE WholeVms'
  BY <1>1, Grows DEF WholeVms
<1>2. ASSUME NEW r \in Runs, CreateVmObject(r) PROVE WholeVms'
  <2>1. \A n \in Namespaces :
          made'[n] = IF n = nsOf[r] THEN made[n] \cup {Vm(r)} ELSE made[n]
    BY <1>2 DEF CreateVmObject, Add
  <2>2. /\ ImageOf[Vm(r)] \in images
        /\ Vm(r) \in StaticIp => Vm(r) \in claims[nsOf[r]]
        /\ Vm(r) \in disks[nsOf[r]]
    BY <1>2 DEF CreateVmObject, StepInv, MadeSoFar, PastImage, PastClaim
  <2>3. UNCHANGED <<images, claims, disks, running>>
    BY <1>2 DEF CreateVmObject
  <2>4. \A n \in Namespaces : running'[n] \subseteq made'[n] \ blank'[n]
    BY <2>3, Grows DEF WholeVms
  <2>5. nsOf[r] \in Namespaces /\ made[nsOf[r]] \subseteq disks[nsOf[r]]
    BY DEF WholeVms
  <2>6. ASSUME NEW n \in Namespaces
        PROVE  /\ made'[n] \subseteq disks[n]
               /\ \A v \in made'[n] \cap Required :
                    ImageOf[v] \in images /\ (v \in StaticIp => v \in claims[n])
    <3>1. /\ made[n] \subseteq disks[n]
          /\ \A v \in made[n] \cap Required :
               ImageOf[v] \in images /\ (v \in StaticIp => v \in claims[n])
      BY <2>6 DEF WholeVms
    <3>2. CASE n = nsOf[r]
      <4>1. made'[n] = made[n] \cup {Vm(r)}
        BY <2>1, <2>6, <3>2
      <4> HIDE DEF TypeOK, ProvisionInv
      <4> QED
        BY <2>2, <3>1, <3>2, <4>1
    <3>3. CASE n # nsOf[r]
      BY <2>1, <2>6, <3>1, <3>3
    <3> QED
      BY <3>2, <3>3
  <2> QED
    BY <2>3, <2>4, <2>6 DEF WholeVms
<1>3. ASSUME NEW r \in Runs, RunStep(r) PROVE WholeVms'
  <2>1. CASE CreateVmObject(r)
    BY <1>2, <2>1
  <2>2. CASE ~CreateVmObject(r)
    <3>1. Kept
      BY <1>3, <2>2 DEF RunStep, ListVms, GetImage, ListIpClaim, GetVd,
           SeeRunning, WaitTimesOut, AssignIps, CreateImage, CreateIpClaim,
           CreateVd
    <3> QED
      BY <1>1, <3>1
  <2> QED
    BY <2>1, <2>2
<1>4. ASSUME NEW r \in Runs, Die(r) \/ Restart(r) PROVE WholeVms'
  BY <1>1, <1>4 DEF Die, Restart
<1>5. ASSUME NEW n \in Namespaces, NEW v \in Names,
             VmStarts(n, v) \/ VmStops(n, v)
      PROVE  WholeVms'
  <2>1. UNCHANGED <<images, claims, disks, made, blank>>
    BY <1>5 DEF VmStarts, VmStops
  <2>2. \A m \in Namespaces : running'[m] \subseteq made[m] \ blank[m]
    <3>1. CASE VmStarts(n, v)
      BY <3>1 DEF VmStarts, WholeVms
    <3>2. CASE VmStops(n, v)
      BY <3>2 DEF VmStops, WholeVms
    <3> QED
      BY <1>5, <3>1, <3>2
  <2> QED
    BY <2>1, <2>2 DEF WholeVms
<1>6. CASE UNCHANGED vars
  BY <1>1, <1>6 DEF vars
<1> QED
  BY <1>3, <1>4, <1>5, <1>6 DEF Next

(* The run that takes a step relies on what it has just made or seen.        *)
LEMMA OwnStepKeeps ==
  ASSUME ProvisionInv, NEW r \in Runs, RunStep(r), TypeOK'
  PROVE  MadeSoFar(r)' /\ SeenSoFar(r)'
<1>1. MadeSoFar(r) /\ SeenSoFar(r) /\ TypeOK
  BY DEF ProvisionInv, StepInv, ListInv
<1> USE DEF TypeOK, Goto, hvVars, PastImage, PastClaim
<1>2. nsOf[r] \in Namespaces /\ nsOf' = nsOf /\ Vm(r) \in Required
  <2>1. nsOf' = nsOf
    BY DEF RunStep, ListVms, GetImage, ListIpClaim, GetVd, SeeRunning,
           WaitTimesOut, AssignIps, CreateImage, CreateIpClaim, CreateVd,
           CreateVmObject
  <2> QED
    BY <1>1, <2>1, VmRequired
<1>3. CASE ListVms(r) \/ WaitTimesOut(r)
  BY <1>1, <1>3 DEF ListVms, WaitTimesOut, MadeSoFar, SeenSoFar, Vm
<1>4. CASE GetImage(r) \/ ListIpClaim(r) \/ GetVd(r)
  BY <1>1, <1>4 DEF GetImage, ListIpClaim, GetVd, MadeSoFar, SeenSoFar, Vm
<1>5. CASE CreateImage(r)
  BY <1>1, <1>5 DEF CreateImage, MadeSoFar, SeenSoFar, Vm
<1>6. CASE CreateIpClaim(r)
  BY <1>1, <1>2, <1>6 DEF CreateIpClaim, Add, MadeSoFar, SeenSoFar, Vm
<1>7. CASE CreateVd(r)
  BY <1>1, <1>2, <1>7 DEF CreateVd, Add, MadeSoFar, SeenSoFar, Vm
<1>8. CASE CreateVmObject(r)
  <2>1. pc'[r] \in {"image", "wait"} /\ vmList' = vmList
    BY <1>1, <1>8 DEF CreateVmObject
  <2>2. MadeSoFar(r)'
    BY <2>1 DEF MadeSoFar
  <2>3. [Next]_vars
    BY DEF Next
  <2>4. made[nsOf[r]] \ blank[nsOf[r]] \subseteq made'[nsOf[r]] \ blank'[nsOf[r]]
    BY <1>1, <1>2, <2>3, Grows
  <2> QED
    BY <1>1, <1>2, <2>1, <2>2, <2>4 DEF SeenSoFar
<1>9. CASE SeeRunning(r)
  <2>1. running[nsOf[r]] \subseteq made[nsOf[r]] \ blank[nsOf[r]]
    BY <1>2 DEF ProvisionInv, WholeVms
  <2> QED
    BY <1>1, <1>2, <1>9, <2>1 DEF SeeRunning, Listed, Enough, MadeSoFar, SeenSoFar
<1>10. CASE AssignIps(r)
  BY <1>1, <1>10 DEF AssignIps, Enough, MadeSoFar, SeenSoFar
<1> QED
  BY <1>3, <1>4, <1>5, <1>6, <1>7, <1>8, <1>9, <1>10 DEF RunStep

(* Every step keeps ProvisionInv.                                            *)
LEMMA NextProvisionInv == ProvisionInv /\ [Next]_vars => ProvisionInv'
<1> SUFFICES ASSUME ProvisionInv, [Next]_vars PROVE ProvisionInv'
  OBVIOUS
<1>1. TypeOK /\ TypeOK' /\ WholeVms'
  BY NextTypeOK, NextWholeVms DEF ProvisionInv
<1>2. ASSUME NEW q \in Runs PROVE MadeSoFar(q)' /\ SeenSoFar(q)'
  <2> DEFINE Idle == /\ pc'[q] = pc[q] /\ next'[q] = next[q]
                     /\ vmList'[q] = vmList[q] /\ ipKnown'[q] = ipKnown[q]
  <2>1. MadeSoFar(q) /\ SeenSoFar(q)
    BY <1>2 DEF ProvisionInv, StepInv, ListInv
  <2>2. CASE Idle
    BY <1>1, <1>2, <2>1, <2>2, OthersKeep
  <2>3. CASE RunStep(q)
    BY <1>1, <1>2, <2>3, OwnStepKeeps
  <2>4. CASE Die(q) \/ Restart(q)
    <3>1. pc'[q] \in {"list", "dead"} /\ vmList'[q] = {}
      BY <1>1, <2>4 DEF TypeOK, Die, Restart, Goto, Forget
    <3> QED
      BY <3>1 DEF MadeSoFar, SeenSoFar, PastImage, PastClaim
  <2>5. ASSUME NEW r \in Runs \ {q}, RunStep(r) \/ Die(r) \/ Restart(r)
        PROVE  Idle
    BY <1>1, <2>5 DEF TypeOK, Goto, Forget, Die, Restart, RunStep, runVars,
       ListVms, GetImage, CreateImage, ListIpClaim, CreateIpClaim, GetVd,
       CreateVd, CreateVmObject, SeeRunning, WaitTimesOut, AssignIps
  <2>6. CASE (\E n \in Namespaces, v \in Names : VmStarts(n, v) \/ VmStops(n, v))
             \/ UNCHANGED vars
    <3>1. UNCHANGED runVars
      BY <2>6 DEF VmStarts, VmStops, vars
    <3> QED
      BY <2>2, <3>1 DEF runVars
  <2> QED
    BY <1>2, <2>2, <2>3, <2>4, <2>5, <2>6 DEF Next
<1>3. StepInv' /\ ListInv'
  BY <1>2 DEF StepInv, ListInv
<1> QED
  BY <1>1, <1>3 DEF ProvisionInv

(* Whatever run died at whatever request, every VM object has the image, the *)
(* disk and the address claim that CreateVM gives it before it makes it, and *)
(* no run ever counts a VM that cannot boot.                                 *)
THEOREM ProvisionInvariance == Spec => []ProvisionInv
<1>1. Init => ProvisionInv
  BY InitProvisionInv
<1>2. ProvisionInv /\ [Next]_vars => ProvisionInv'
  BY NextProvisionInv
<1> QED
  BY <1>1, <1>2, PTL DEF Spec

(* Where no other cluster type has left a VM, counting the running VMs is as *)
(* good as naming them: when vmSync returns, every configured VM is known.   *)
THEOREM SyncedCompleteAlways == Spec => []SyncedComplete
<1>1. ProvisionInv => SyncedComplete
  <2> SUFFICES ASSUME ProvisionInv, NEW r \in Runs, pc[r] = "synced",
                      made[nsOf[r]] \cap Foreign = {}
               PROVE  ipKnown[r] = Required /\ blank[nsOf[r]] \cap Required = {}
    BY DEF SyncedComplete
  <2>1. /\ vmList[r] \subseteq made[nsOf[r]] \ blank[nsOf[r]]
        /\ Cardinality(vmList[r]) >= Len(VmCluster)
        /\ ipKnown[r] = vmList[r] \cap Required
    BY DEF ProvisionInv, ListInv, SeenSoFar, Enough
  <2>2. vmList[r] \subseteq Required
    BY <2>1 DEF ProvisionInv, TypeOK, Names
  <2>3. vmList[r] = Required
    <3>1. IsFiniteSet(vmList[r]) /\ Cardinality(vmList[r]) <= Cardinality(Required)
          /\ (Cardinality(vmList[r]) = Cardinality(Required) => vmList[r] = Required)
      BY <2>2, VmClusterAssumption, FS_Subset
    <3>2. Cardinality(vmList[r]) \in Nat /\ Cardinality(Required) \in Nat
      BY <3>1, VmClusterAssumption, FS_CardinalityType
    <3> QED
      BY <2>1, <3>1, <3>2, VmClusterAssumption
  <2> QED
    BY <2>1, <2>3
<1> QED
  BY <1>1, ProvisionInvariance, PTL

-----------------------------------------------------------------------------
(* Why a VM may be left that cannot boot (EveryVmBootable, which a run       *)
(* violates): only because of a run that dies between a disk and its VM, or  *)
(* of another run that finds the disk of a run that is between the two.      *)

\* No two runs are given one namespace.
Apart == \A r, q \in Runs : nsOf[r] = nsOf[q] => r = q

\* A run that has the disk gets as far as its VM.
DiskThenVm == \A r \in Runs : pc[r] = "vm" => pc'[r] # "dead"

\* A disk without a VM is the one that a run has just made.
NoStrayDisk ==
  \A r \in Runs :
    /\ \A v \in disks[nsOf[r]] \ made[nsOf[r]] :
         pc[r] = "vm" /\ newDisk[r] /\ v = Vm(r)
    /\ pc[r] = "vm" => newDisk[r] \/ Vm(r) \in made[nsOf[r]]

BootableInv == TypeOK /\ Apart /\ NoStrayDisk /\ EveryVmBootable

(* No step of a run leaves its own disk without a VM, or its VM without one. *)
LEMMA OwnDiskGetsVm ==
  ASSUME BootableInv, NEW r \in Runs, RunStep(r)
  PROVE  /\ \A n \in Namespaces : blank'[n] = {}
         /\ \A n \in Namespaces \ {nsOf[r]} :
              disks'[n] = disks[n] /\ made'[n] = made[n]
         /\ \A v \in disks'[nsOf[r]] \ made'[nsOf[r]] :
              pc'[r] = "vm" /\ newDisk'[r] /\ v = Vm(r)'
         /\ pc'[r] = "vm" => newDisk'[r] \/ Vm(r)' \in made'[nsOf[r]]
<1> USE DEF TypeOK, Goto, hvVars
<1>1. /\ TypeOK /\ nsOf[r] \in Namespaces
      /\ \A v \in disks[nsOf[r]] \ made[nsOf[r]] :
           pc[r] = "vm" /\ newDisk[r] /\ v = Vm(r)
      /\ pc[r] = "vm" => newDisk[r] \/ Vm(r) \in made[nsOf[r]]
      /\ \A n \in Namespaces : blank[n] = {}
  BY DEF BootableInv, NoStrayDisk, EveryVmBootable
<1>2. CASE \/ ListVms(r) \/ GetImage(r) \/ CreateImage(r) \/ ListIpClaim(r)
           \/ CreateIpClaim(r) \/ SeeRunning(r) \/ WaitTimesOut(r) \/ AssignIps(r)
  <2>1. /\ pc[r] # "vm" /\ pc'[r] # "vm"
        /\ UNCHANGED <<disks, made, blank>>
    BY <1>1, <1>2 DEF ListVms, GetImage, CreateImage, ListIpClaim,
       CreateIpClaim, SeeRunning, WaitTimesOut, AssignIps
  <2> QED
    BY <1>1, <2>1
<1>3. CASE GetVd(r)
  BY <1>1, <1>3 DEF GetVd, Vm
<1>4. CASE CreateVd(r)
  <2>1. pc[r] = "mkDisk" /\ UNCHANGED <<made, blank, next>>
    BY <1>4 DEF CreateVd
  <2>2. CASE Vm(r) \in disks[nsOf[r]]
    BY <1>1, <1>4, <2>1, <2>2 DEF CreateVd
  <2>3. CASE Vm(r) \notin disks[nsOf[r]]
    <3>1. /\ pc'[r] = "vm" /\ newDisk'[r] /\ disks' = Add(disks, r, Vm(r))
          /\ Vm(r)' = Vm(r)
      BY <1>1, <1>4, <2>1, <2>3 DEF CreateVd, Vm
    <3>2. /\ disks'[nsOf[r]] = disks[nsOf[r]] \cup {Vm(r)}
          /\ \A n \in Namespaces \ {nsOf[r]} : disks'[n] = disks[n]
      BY <1>1, <3>1 DEF Add
    <3> QED
      BY <1>1, <2>1, <3>1, <3>2
  <2> QED
    BY <2>2, <2>3
<1>5. CASE CreateVmObject(r)
  <2>1. /\ pc[r] = "vm" /\ pc'[r] # "vm" /\ UNCHANGED disks
        /\ made' = Add(made, r, Vm(r))
        /\ blank' = blank
    BY <1>1, <1>5 DEF CreateVmObject
  <2>2. /\ made'[nsOf[r]] = made[nsOf[r]] \cup {Vm(r)}
        /\ \A n \in Namespaces \ {nsOf[r]} : made'[n] = made[n]
    BY <1>1, <2>1 DEF Add
  <2> QED
    BY <1>1, <2>1, <2>2
<1> QED
  BY <1>2, <1>3, <1>4, <1>5 DEF RunStep

(* Every step that takes each run from its disk on to the VM keeps           *)
(* BootableInv.                                                              *)
LEMMA NextBootableInv ==
  ASSUME BootableInv, [Next]_vars, [DiskThenVm]_vars
  PROVE  BootableInv'
<1> DEFINE Stray(q) ==
      /\ \A v \in disks[nsOf[q]] \ made[nsOf[q]] :
           pc[q] = "vm" /\ newDisk[q] /\ v = Vm(q)
      /\ pc[q] = "vm" => newDisk[q] \/ Vm(q) \in made[nsOf[q]]
<1>1. TypeOK /\ TypeOK' /\ nsOf' = nsOf /\ Apart'
  BY NextTypeOK, Grows DEF BootableInv, Apart
<1>2. \A q \in Runs : Stray(q) /\ nsOf[q] \in Namespaces
  BY <1>1 DEF BootableInv, NoStrayDisk, TypeOK
<1>3. EveryVmBootable' /\ \A q \in Runs : Stray(q)'
  <2>1. ASSUME NEW r \in Runs, RunStep(r)
        PROVE  EveryVmBootable' /\ \A q \in Runs : Stray(q)'
    <3>1. EveryVmBootable' /\ Stray(r)'
      BY <1>1, <2>1, OwnDiskGetsVm DEF EveryVmBootable
    <3>2. ASSUME NEW q \in Runs, q # r PROVE Stray(q)'
      <4>1. nsOf[q] # nsOf[r]
        BY <3>2 DEF BootableInv, Apart
      <4>2. disks'[nsOf[q]] = disks[nsOf[q]] /\ made'[nsOf[q]] = made[nsOf[q]]
        BY <1>2, <2>1, <4>1, OwnDiskGetsVm
      <4>3. pc'[q] = pc[q] /\ newDisk'[q] = newDisk[q] /\ Vm(q)' = Vm(q)
        BY <1>1, <2>1, <3>2 DEF TypeOK, Goto, RunStep, Vm, ListVms, GetImage,
           CreateImage, ListIpClaim, CreateIpClaim, GetVd, CreateVd,
           CreateVmObject, SeeRunning, WaitTimesOut, AssignIps
      <4> QED
        BY <1>1, <1>2, <4>2, <4>3
    <3> QED
      BY <3>1, <3>2
  <2>2. ASSUME NEW r \in Runs, Die(r) \/ Restart(r)
        PROVE  EveryVmBootable' /\ \A q \in Runs : Stray(q)'
    <3>1. UNCHANGED <<disks, made, blank>> /\ pc'[r] \in {"dead", "list"}
      BY <1>1, <2>2 DEF Die, Restart, Goto, hvVars, TypeOK
    <3>2. pc[r] # "vm"
      <4>1. pc'[r] # pc[r]
        BY <1>1, <2>2 DEF Die, Restart, Goto, TypeOK
      <4>2. DiskThenVm
        BY <4>1 DEF vars, runVars
      <4> QED
        BY <1>1, <2>2, <4>2 DEF DiskThenVm, Restart, Die, Goto, TypeOK
    <3>3. Stray(r)'
      BY <1>1, <1>2, <3>1, <3>2
    <3>4. ASSUME NEW q \in Runs, q # r PROVE Stray(q)'
      <4>1. pc'[q] = pc[q] /\ newDisk'[q] = newDisk[q] /\ Vm(q)' = Vm(q)
        BY <1>1, <2>2, <3>4 DEF Die, Restart, Goto, Forget, TypeOK, Vm
      <4> QED
        BY <1>1, <1>2, <3>1, <4>1
    <3> QED
      BY <3>1, <3>3, <3>4 DEF BootableInv, EveryVmBootable
  <2>3. ASSUME UNCHANGED <<disks, made, blank, runVars>>
        PROVE  EveryVmBootable' /\ \A q \in Runs : Stray(q)'
    BY <1>2, <2>3 DEF BootableInv, EveryVmBootable, runVars, Vm
  <2> QED
    BY <2>1, <2>2, <2>3 DEF Next, VmStarts, VmStops, vars, hvVars
<1> QED
  BY <1>1, <1>3 DEF BootableInv, NoStrayDisk

(* A VM that no later run can make boot comes only from a run that died, or  *)
(* was killed, between a disk and its VM, or from two runs in one namespace: *)
(* without either, every VM is made with its disk.                           *)
THEOREM BootableWhenCarriedThrough ==
  Spec /\ Apart /\ [][DiskThenVm]_vars => []EveryVmBootable
<1>1. Init /\ Apart => BootableInv
  <2> SUFFICES ASSUME Init, Apart PROVE NoStrayDisk /\ EveryVmBootable
    BY InitProvisionInv DEF BootableInv, ProvisionInv
  <2>1. disks = made /\ \A r \in Runs : pc[r] = "list"
    BY DEF Init
  <2> QED
    BY <2>1 DEF Init, NoStrayDisk, EveryVmBootable
<1>2. BootableInv /\ [Next]_vars /\ [DiskThenVm]_vars => BootableInv'
  BY NextBootableInv
<1>3. BootableInv => EveryVmBootable
  BY DEF BootableInv
<1> QED
  BY <1>1, <1>2, <1>3, PTL DEF Spec

-----------------------------------------------------------------------------
(* SyncEnds is a liveness property.  What the fairness has to be added to: a *)
(* run that goes on comes nearer to the end of vmSync with every step, and   *)
(* neither other runs nor the hypervisor throw it back.                      *)

AtVm == [image |-> 9, mkImage |-> 8, claim |-> 7, mkClaim |-> 6,
         disk |-> 5, mkDisk |-> 4, vm |-> 3]
Elsewhere == [list |-> 7 * Len(VmCluster) + 3, wait |-> 2, assign |-> 1,
              synced |-> 0, dead |-> 0]

\* Seven requests for each VM that is left.
Steps(l, i) == IF l \in DOMAIN AtVm THEN 7 * (Len(VmCluster) - i) + AtVm[l]
                                    ELSE Elsewhere[l]
StepsLeft(r) == Steps(pc[r], next[r])

(* What is left to do is a number, wherever a run is.                        *)
LEMMA StepsAreFew ==
  ASSUME NEW l \in PcStates, NEW i \in 1..Len(VmCluster)
  PROVE  Steps(l, i) \in 0..(7 * Len(VmCluster) + 3)
<1>1. Len(VmCluster) \in Nat
  BY ClusterNotEmpty
<1>2. CASE l \in DOMAIN AtVm
  <2>1. AtVm[l] \in 3..9
    BY <1>2 DEF AtVm
  <2> QED
    BY <1>1, <1>2, <2>1 DEF Steps
<1>3. CASE l \notin DOMAIN AtVm
  <2>1. l \in {"list", "wait", "assign", "synced", "dead"}
    BY <1>3 DEF AtVm, PcStates
  <2>2. Elsewhere[l] \in 0..(7 * Len(VmCluster) + 3)
    BY <1>1, <2>1 DEF Elsewhere
  <2> QED
    BY <1>3, <2>2 DEF Steps
<1> QED
  BY <1>2, <1>3

(* Every request of vmSync is one fewer to make.                             *)
LEMMA RunStepCounts ==
  ASSUME TypeOK, NEW r \in Runs, RunStep(r)
  PROVE  StepsLeft(r)' < StepsLeft(r)
<1> USE DEF TypeOK, Goto
<1>1. next[r] \in 1..Len(VmCluster) /\ Len(VmCluster) \in Nat /\ r \in DOMAIN pc
  BY ClusterNotEmpty
<1>2. CASE ListVms(r)
  <2>1. pc[r] = "list" /\ pc'[r] \in {"wait", "image"} /\ next' = next
    BY <1>1, <1>2 DEF ListVms
  <2> QED
    BY <1>1, <2>1 DEF StepsLeft, Steps, AtVm, Elsewhere
<1>3. CASE GetImage(r) \/ CreateImage(r)
  <2>1. /\ next' = next
        /\ \/ pc[r] = "image" /\ pc'[r] \in {"claim", "mkImage"}
           \/ pc[r] = "mkImage" /\ pc'[r] \in {"claim", "dead"}
    BY <1>1, <1>3 DEF GetImage, CreateImage
  <2> QED
    BY <1>1, <2>1 DEF StepsLeft, Steps, AtVm, Elsewhere
<1>4. CASE ListIpClaim(r) \/ CreateIpClaim(r)
  <2>1. /\ next' = next
        /\ \/ pc[r] = "claim" /\ pc'[r] \in {"mkClaim", "disk"}
           \/ pc[r] = "mkClaim" /\ pc'[r] \in {"disk", "dead"}
    BY <1>1, <1>4 DEF ListIpClaim, CreateIpClaim
  <2> QED
    BY <1>1, <2>1 DEF StepsLeft, Steps, AtVm, Elsewhere
<1>5. CASE GetVd(r) \/ CreateVd(r)
  <2>1. /\ next' = next
        /\ \/ pc[r] = "disk" /\ pc'[r] \in {"mkDisk", "vm"}
           \/ pc[r] = "mkDisk" /\ pc'[r] \in {"vm", "dead"}
    BY <1>1, <1>5 DEF GetVd, CreateVd
  <2> QED
    BY <1>1, <2>1 DEF StepsLeft, Steps, AtVm, Elsewhere
<1>6. CASE CreateVmObject(r)
  <2>1. /\ pc[r] = "vm"
        /\ \/ /\ next[r] < Len(VmCluster)
              /\ pc'[r] = "image" /\ next'[r] = next[r] + 1
           \/ pc'[r] = "wait"
    BY <1>1, <1>6 DEF CreateVmObject
  <2> QED
    BY <1>1, <2>1 DEF StepsLeft, Steps, AtVm, Elsewhere
<1>7. CASE SeeRunning(r) \/ WaitTimesOut(r) \/ AssignIps(r)
  <2>1. \/ pc[r] = "wait" /\ pc'[r] \in {"assign", "dead"}
        \/ pc[r] = "assign" /\ pc'[r] = "synced"
    BY <1>1, <1>7 DEF SeeRunning, WaitTimesOut, AssignIps
  <2> QED
    BY <2>1 DEF StepsLeft, Steps, AtVm, Elsewhere
<1> QED
  BY <1>2, <1>3, <1>4, <1>5, <1>6, <1>7 DEF RunStep

(* From its start vmSync makes seven requests for each VM at most, and three *)
(* steps more, whatever the other runs and the hypervisor do: nothing but a  *)
(* restart gives a run more to do.                                           *)
THEOREM SyncIsBounded ==
  Spec => [][\A r \in Runs :
               /\ StepsLeft(r) \in 0..(7 * Len(VmCluster) + 3)
               /\ RunStep(r) => StepsLeft(r)' < StepsLeft(r)
               /\ ~Restart(r) => StepsLeft(r)' <= StepsLeft(r)]_vars
<1>1. ProvisionInv /\ [Next]_vars =>
        [\A r \in Runs :
           /\ StepsLeft(r) \in 0..(7 * Len(VmCluster) + 3)
           /\ RunStep(r) => StepsLeft(r)' < StepsLeft(r)
           /\ ~Restart(r) => StepsLeft(r)' <= StepsLeft(r)]_vars
  <2> SUFFICES ASSUME TypeOK, TypeOK', Next, NEW r \in Runs
               PROVE  /\ StepsLeft(r) \in 0..(7 * Len(VmCluster) + 3)
                      /\ RunStep(r) => StepsLeft(r)' < StepsLeft(r)
                      /\ ~Restart(r) => StepsLeft(r)' <= StepsLeft(r)
    BY NextTypeOK DEF ProvisionInv
  <2>1. /\ StepsLeft(r) \in 0..(7 * Len(VmCluster) + 3)
        /\ StepsLeft(r) \in Nat /\ StepsLeft(r)' \in Nat
    <3>1. /\ pc[r] \in PcStates /\ next[r] \in 1..Len(VmCluster)
          /\ pc'[r] \in PcStates /\ next'[r] \in 1..Len(VmCluster)
      BY DEF TypeOK
    <3> QED
      BY <3>1, StepsAreFew, ClusterNotEmpty DEF StepsLeft
  <2>2. CASE RunStep(r)
    BY <2>1, <2>2, RunStepCounts
  <2>3. CASE Die(r)
    <3>1. pc'[r] = "dead"
      BY <2>3 DEF Die, Goto, TypeOK
    <3>2. Steps(pc'[r], next'[r]) = 0
      BY <3>1 DEF Steps, AtVm, Elsewhere
    <3>3. StepsLeft(r)' = 0
      BY <3>2 DEF StepsLeft
    <3> QED
      BY <2>1, <3>3, RunStepCounts
  <2>4. CASE pc'[r] = pc[r] /\ next'[r] = next[r]
    <3>1. Steps(pc'[r], next'[r]) = Steps(pc[r], next[r])
      BY <2>4
    <3>2. StepsLeft(r)' = StepsLeft(r)
      BY <3>1 DEF StepsLeft
    <3> QED
      BY <2>1, <3>2, RunStepCounts
  <2>5. ASSUME NEW q \in Runs, q # r, RunStep(q) \/ Die(q) \/ Restart(q)
        PROVE  pc'[r] = pc[r] /\ next'[r] = next[r]
    BY <2>5 DEF TypeOK, Goto, Forget, Die, Restart, RunStep, runVars,
       ListVms, GetImage, CreateImage, ListIpClaim, CreateIpClaim, GetVd,
       CreateVd, CreateVmObject, SeeRunning, WaitTimesOut, AssignIps
  <2> QED
    BY <2>1, <2>2, <2>3, <2>4, <2>5, RunStepCounts
       DEF Next, VmStarts, VmStops, runVars
<1> QED
  BY <1>1, ProvisionInvariance, PTL DEF Spec
==============================================================================
