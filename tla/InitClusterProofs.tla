--------------------------- MODULE InitClusterProofs ---------------------------
(***************************************************************************)
(* The older bootstrap for any number of machines and any number of boots: *)
(* one key pair, machines with all they need, one installation, and what a *)
(* boot that ends well has built.                                          *)
(***************************************************************************)
EXTENDS InitCluster, TLAPS

(* The master, the setup machine and the one under way are machines.         *)
LEMMA VmItemsFacts ==
  /\ Len(VmItems) \in Nat /\ Len(VmItems) >= 2
  /\ \A i \in 1..Len(VmItems) : VmItems[i] \in Vms
  /\ \A v \in Vms : \E i \in 1..Len(VmItems) : v = VmItems[i]
  /\ Master \in Vms /\ Setup \in Vms /\ Workers \subseteq Vms
<1>1. Len(VmItems) \in Nat /\ Len(VmItems) >= 2
  BY VmItemsAssumption
<1> QED
  BY <1>1 DEF Vms, Master, Setup, Workers

(* BootInv holds at the first start.                                         *)
LEMMA BootInitInv == BootInit => BootInv
<1> SUFFICES ASSUME BootInit PROVE BootInv
  OBVIOUS
<1> USE VmItemsFacts, MaxBootsAssumption, FilesAssumption
    DEF BootInit, DeckStages, DhctlPhases, BootPcs, Keying, PastKeys, Creating,
        PastCreate, PastSsh, PastCheck, PastResources, Bare, Files, Boots
<1>1. BootTypeOK
  <2>1. trusted \in [Vms -> Files] /\ dhctl \in [DhctlPhases -> SUBSET Boots]
    OBVIOUS
  <2>2. boot \in Boots /\ item \in 1..Len(VmItems)
    OBVIOUS
  <2>3. /\ image \in BOOLEAN /\ aptLock \in BOOLEAN /\ dockerCmd \in BOOLEAN
        /\ resources \in BOOLEAN /\ secret \in BOOLEAN /\ account \in BOOLEAN
        /\ token \in BOOLEAN /\ newSys \in BOOLEAN /\ install \in BOOLEAN
    BY Zenon
  <2> QED
    BY <2>1, <2>2, <2>3 DEF BootTypeOK
<1>2. KeyInv /\ MadeInv
  BY DEF KeyInv, MadeInv
<1>3. StageInv /\ DoneInv
  BY DEF StageInv, DoneInv
<1> QED
  BY <1>1, <1>2, <1>3 DEF BootInv

(* BootInv is kept by the steps of the key files.                            *)
LEMMA KeySteps ==
  ASSUME BootInv,
         \/ OpenPrivate
         \/ KeyExists
         \/ FillPrivate
         \/ OpenPublic
         \/ FillPublic
         \/ ReadPublic
  PROVE  BootInv'
<1> USE VmItemsFacts, MaxBootsAssumption, FilesAssumption
    DEF BootInv, BootTypeOK, KeyInv, MadeInv, StageInv, DoneInv, DeckStages,
        DhctlPhases, BootPcs, Keying, PastKeys, Creating, PastCreate, PastSsh,
        PastCheck, PastResources, Bare, LetsIn, BootGoto, Vm, Files, Keys, Boots,
        fileVars,
        vmObjects, hostVars, nestedVars, procVars
<1>1. CASE OpenPrivate
  BY <1>1 DEF OpenPrivate
<1>2. CASE KeyExists
  BY <1>2 DEF KeyExists
<1>3. CASE FillPrivate
  BY <1>3 DEF FillPrivate
<1>4. CASE OpenPublic
  BY <1>4 DEF OpenPublic
<1>5. CASE FillPublic
  BY <1>5 DEF FillPublic
<1>6. CASE ReadPublic
  <2>1. BootTypeOK'
    BY <1>6 DEF ReadPublic
  <2>2. KeyInv'
    BY <1>6 DEF ReadPublic
  <2>3. MadeInv'
    BY <1>6 DEF ReadPublic
  <2>4. StageInv'
    BY <1>6 DEF ReadPublic
  <2>5. DoneInv'
    BY <1>6 DEF ReadPublic
  <2> QED
    BY <2>1, <2>2, <2>3, <2>4, <2>5
<1> QED
  BY <1>1, <1>2, <1>3, <1>4, <1>5, <1>6

(* BootInv is kept by the steps of CreateVM and the wait.                    *)
LEMMA CreateSteps ==
  ASSUME BootInv,
         \/ CreateCVMI
         \/ CreateVMIPClaim
         \/ CreateVMDFromCVMI
         \/ CreateVMD
         \/ CreateAttachment
         \/ CreateMachine
         \/ AllVMUp
         \/ AwaitFails
  PROVE  BootInv'
<1> USE VmItemsFacts, MaxBootsAssumption, FilesAssumption
    DEF BootInv, BootTypeOK, KeyInv, MadeInv, StageInv, DoneInv, DeckStages,
        DhctlPhases, BootPcs, Keying, PastKeys, Creating, PastCreate, PastSsh,
        PastCheck, PastResources, Bare, LetsIn, BootGoto, Vm, Files, Keys, Boots,
        fileVars,
        vmObjects, hostVars, nestedVars, procVars
<1>1. CASE CreateCVMI
  BY <1>1 DEF CreateCVMI
<1>2. CASE CreateVMIPClaim
  BY <1>2 DEF CreateVMIPClaim
<1>3. CASE CreateVMDFromCVMI
  BY <1>3 DEF CreateVMDFromCVMI
<1>4. CASE CreateVMD
  BY <1>4 DEF CreateVMD
<1>5. CASE CreateAttachment
  BY <1>5 DEF CreateAttachment
<1>6. CASE CreateMachine
  <2>1. BootTypeOK'
    <3>1. item' \in 1..Len(VmItems) /\ bootPc' \in BootPcs
      BY <1>6 DEF CreateMachine
    <3>2. machines' \subseteq Vms /\ diskless' \subseteq Vms
      BY <1>6 DEF CreateMachine
    <3>3. trusted' = trusted \/ trusted' = [trusted EXCEPT ![Vm] = sshPub]
      BY <1>6 DEF CreateMachine
    <3>4. trusted' \in [Vms -> Files]
      BY <3>3
    <3> QED
      BY <1>6, <3>1, <3>2, <3>4 DEF CreateMachine
  <2>2. KeyInv'
    BY <1>6 DEF CreateMachine
  <2>3. MadeInv'
    <3>1. Vm \in machines' /\ machines \subseteq machines'
      BY <1>6 DEF CreateMachine
    <3>2. CASE item < Len(VmItems)
      <4>1. \A i \in 1..(item' - 1) : VmItems[i] \in machines'
        <5> SUFFICES ASSUME NEW i \in 1..(item' - 1)
                     PROVE  VmItems[i] \in machines'
          OBVIOUS
        <5>1. item' = item + 1
          BY <1>6, <3>2 DEF CreateMachine
        <5>2. CASE i = item
          BY <3>1, <5>2
        <5>3. CASE i # item
          BY <1>6, <3>1, <5>1, <5>3 DEF CreateMachine
        <5> QED
          BY <5>2, <5>3
      <4> QED
        BY <1>6, <3>2, <4>1 DEF CreateMachine
    <3>3. CASE ~(item < Len(VmItems))
      <4>1. item = Len(VmItems)
        BY <3>3
      <4>2. Vms \subseteq machines'
        <5> SUFFICES ASSUME NEW v \in Vms PROVE v \in machines'
          OBVIOUS
        <5>1. PICK i \in 1..Len(VmItems) : v = VmItems[i]
          OBVIOUS
        <5>2. CASE i = item
          BY <3>1, <5>1, <5>2
        <5>3. CASE i # item
          BY <1>6, <3>1, <4>1, <5>1, <5>3 DEF CreateMachine
        <5> QED
          BY <5>2, <5>3
      <4>3. machines' \subseteq machines \cup {Vm}
        BY <1>6 DEF CreateMachine
      <4>4. machines' = Vms /\ bootPc' = "await"
        <5>1. machines' \subseteq Vms
          BY <4>3
        <5>2. bootPc' = "await"
          BY <1>6, <3>3 DEF CreateMachine
        <5> QED
          BY <4>2, <5>1, <5>2
      <4>5. diskless' \subseteq machines' /\ image'
        BY <1>6, <4>4 DEF CreateMachine
      <4>6. machines' \subseteq ipClaims' \cap sysDisks' \cap dataDisks' \cap attached'
        BY <1>6, <4>3 DEF CreateMachine
      <4> QED
        BY <4>4, <4>5, <4>6
    <3> QED
      BY <3>2, <3>3
  <2>4. StageInv'
    BY <1>6 DEF CreateMachine
  <2>5. DoneInv'
    BY <1>6 DEF CreateMachine
  <2> QED
    BY <2>1, <2>2, <2>3, <2>4, <2>5
<1>7. CASE AllVMUp
  BY <1>7 DEF AllVMUp
<1>8. CASE AwaitFails
  BY <1>8 DEF AwaitFails
<1> QED
  BY <1>1, <1>2, <1>3, <1>4, <1>5, <1>6, <1>7, <1>8

(* BootInv is kept by the steps over ssh.                                    *)
LEMMA SshSteps ==
  ASSUME BootInv,
         \/ GetSSHClients
         \/ SshFails
         \/ AptInstalls
         \/ AptGivesUp
         \/ CheckDeckhouse
         \/ NoDocker
         \/ StartInstall
         \/ StartResources
         \/ ResourcesDone
         \/ DhctlFails
  PROVE  BootInv'
<1> USE VmItemsFacts, MaxBootsAssumption, FilesAssumption
    DEF BootInv, BootTypeOK, KeyInv, MadeInv, StageInv, DoneInv, DeckStages,
        DhctlPhases, BootPcs, Keying, PastKeys, Creating, PastCreate, PastSsh,
        PastCheck, PastResources, Bare, LetsIn, BootGoto, Vm, Files, Keys, Boots,
        fileVars,
        vmObjects, hostVars, nestedVars, procVars
<1>1. CASE GetSSHClients
  BY <1>1 DEF GetSSHClients
<1>2. CASE SshFails
  BY <1>2 DEF SshFails
<1>3. CASE AptInstalls
  BY <1>3 DEF AptInstalls
<1>4. CASE AptGivesUp
  BY <1>4 DEF AptGivesUp
<1>5. CASE CheckDeckhouse
  <2>1. BootTypeOK'
    BY <1>5 DEF CheckDeckhouse
  <2>2. KeyInv'
    BY <1>5 DEF CheckDeckhouse
  <2>3. MadeInv'
    BY <1>5 DEF CheckDeckhouse
  <2>4. StageInv'
    BY <1>5 DEF CheckDeckhouse
  <2>5. DoneInv'
    BY <1>5 DEF CheckDeckhouse
  <2> QED
    BY <2>1, <2>2, <2>3, <2>4, <2>5
<1>6. CASE NoDocker
  BY <1>6 DEF NoDocker
<1>7. CASE StartInstall
  BY <1>7 DEF StartInstall
<1>8. CASE StartResources
  BY <1>8 DEF StartResources
<1>9. CASE ResourcesDone
  BY <1>9 DEF ResourcesDone
<1>10. CASE DhctlFails
  BY <1>10 DEF DhctlFails
<1> QED
  BY <1>1, <1>2, <1>3, <1>4, <1>5, <1>6, <1>7, <1>8, <1>9, <1>10

(* BootInv is kept by the steps of the nodes and the kubeconfig.             *)
LEMMA JoinSteps ==
  ASSUME BootInv,
         \/ ListNodes
         \/ ScriptFound
         \/ SpawnInstalls
         \/ \E n \in Workers : NodeInstall(n)
         \/ \E n \in Workers : NodeInstalled(n)
         \/ Wait
         \/ CreateUser
         \/ SeeToken
         \/ Download
  PROVE  BootInv'
<1> USE VmItemsFacts, MaxBootsAssumption, FilesAssumption
    DEF BootInv, BootTypeOK, KeyInv, MadeInv, StageInv, DoneInv, DeckStages,
        DhctlPhases, BootPcs, Keying, PastKeys, Creating, PastCreate, PastSsh,
        PastCheck, PastResources, Bare, LetsIn, BootGoto, Vm, Files, Keys, Boots,
        fileVars,
        vmObjects, hostVars, nestedVars, procVars
<1>1. CASE ListNodes
  BY <1>1 DEF ListNodes
<1>2. CASE ScriptFound
  BY <1>2 DEF ScriptFound, GetScript
<1>3. CASE SpawnInstalls
  BY <1>3 DEF SpawnInstalls
<1>4. ASSUME NEW n \in Workers, NodeInstall(n) PROVE BootInv'
  BY <1>4 DEF NodeInstall
<1>5. ASSUME NEW n \in Workers, NodeInstalled(n) PROVE BootInv'
  BY <1>5 DEF NodeInstalled
<1>6. CASE Wait
  BY <1>6 DEF Wait
<1>7. CASE CreateUser
  BY <1>7 DEF CreateUser
<1>8. CASE SeeToken
  BY <1>8 DEF SeeToken
<1>9. CASE Download
  BY <1>9 DEF Download
<1> QED
  BY <1>1, <1>2, <1>3, <1>4, <1>5, <1>6, <1>7, <1>8, <1>9

(* BootInv is kept by failures, restarts and what happens outside.           *)
LEMMA OtherSteps ==
  ASSUME BootInv,
         \/ ScriptGarbled
         \/ BootDies
         \/ BootAgain
         \/ AptReleases
         \/ DhctlInstalls
         \/ DhctlCreates
         \/ SecretAppears
         \/ TokenAppears
         \/ \E p \in DhctlPhases, b \in Boots : OrphanEnds(p, b)
         \/ \E n \in Workers : NodeJoins(n)
         \/ \E n \in Workers : ScriptFails(n)
  PROVE  BootInv'
<1> USE VmItemsFacts, MaxBootsAssumption, FilesAssumption
    DEF BootInv, BootTypeOK, KeyInv, MadeInv, StageInv, DoneInv, DeckStages,
        DhctlPhases, BootPcs, Keying, PastKeys, Creating, PastCreate, PastSsh,
        PastCheck, PastResources, Bare, LetsIn, BootGoto, Vm, Files, Keys, Boots,
        fileVars,
        vmObjects, hostVars, nestedVars, procVars
<1>1. CASE ScriptGarbled
  BY <1>1 DEF ScriptGarbled, GetScript
<1>2. CASE BootDies
  BY <1>2 DEF BootDies
<1>3. CASE BootAgain
  <2>1. BootTypeOK'
    <3>1. boot' \in Boots /\ item' \in 1..Len(VmItems)
      BY <1>3 DEF BootAgain
    <3>2. newSys' \in BOOLEAN /\ install' \in BOOLEAN
      BY <1>3, Zenon DEF BootAgain
    <3> QED
      BY <1>3, <3>1, <3>2 DEF BootAgain
  <2>2. KeyInv'
    BY <1>3 DEF BootAgain
  <2>3. MadeInv'
    BY <1>3 DEF BootAgain
  <2>4. StageInv'
    BY <1>3 DEF BootAgain
  <2>5. DoneInv'
    BY <1>3 DEF BootAgain
  <2> QED
    BY <2>1, <2>2, <2>3, <2>4, <2>5
<1>4. CASE AptReleases
  <2>1. BootTypeOK'
    <3>1. aptLock' \in BOOLEAN
      BY <1>4, Zenon DEF AptReleases
    <3> QED
      BY <1>4, <3>1 DEF AptReleases
  <2>2. KeyInv'
    BY <1>4 DEF AptReleases
  <2>3. MadeInv'
    BY <1>4 DEF AptReleases
  <2>4. StageInv'
    BY <1>4 DEF AptReleases
  <2>5. DoneInv'
    BY <1>4 DEF AptReleases
  <2> QED
    BY <2>1, <2>2, <2>3, <2>4, <2>5
<1>5. CASE DhctlInstalls
  BY <1>5 DEF DhctlInstalls
<1>6. CASE DhctlCreates
  BY <1>6 DEF DhctlCreates
<1>7. CASE SecretAppears
  BY <1>7 DEF SecretAppears
<1>8. CASE TokenAppears
  BY <1>8 DEF TokenAppears
<1>9. ASSUME NEW p \in DhctlPhases, NEW b \in Boots, OrphanEnds(p, b) PROVE BootInv'
  BY <1>9 DEF OrphanEnds
<1>10. ASSUME NEW n \in Workers, NodeJoins(n) PROVE BootInv'
  BY <1>10 DEF NodeJoins
<1>11. ASSUME NEW n \in Workers, ScriptFails(n) PROVE BootInv'
  BY <1>11 DEF ScriptFails
<1> QED
  BY <1>1, <1>2, <1>3, <1>4, <1>5, <1>6, <1>7, <1>8, <1>9, <1>10, <1>11

(* BootInv is kept by every step of the program and of its surroundings.     *)
LEMMA BootNextInv == BootInv /\ [BootNext]_bootVars => BootInv'
<1> SUFFICES ASSUME BootInv, [BootNext]_bootVars PROVE BootInv'
  OBVIOUS
<1>1. CASE UNCHANGED bootVars
  BY <1>1 DEF bootVars, fileVars, vmObjects, hostVars, nestedVars, procVars,
     BootInv, BootTypeOK, KeyInv, MadeInv, StageInv, DoneInv, Bare, LetsIn, Vm
<1>2. CASE BootNext
  BY <1>2, KeySteps, CreateSteps, SshSteps, JoinSteps, OtherSteps
     DEF BootNext, BootStep, BootFault, BootExternal
<1> QED
  BY <1>1, <1>2

(* BootInv holds in every state, whatever the number of machines and boots.  *)
THEOREM BootInvariance == BootSpec => []BootInv
  BY BootInitInv, BootNextInv, PTL DEF BootSpec

(* What a boot at its end has seen on the way.                               *)
LEMMA DoneMeans == BootInv => BootComplete
BY DEF BootInv, BootTypeOK, MadeInv, StageInv, DoneInv, BootComplete, Bare,
       PastCreate, PastSsh, PastResources, PastKeys, Keying, Creating, BootPcs,
       DeckStages

(* A boot that ends well has built all it was to build: see BootComplete.    *)
THEOREM BootCompleteAlways == BootSpec => []BootComplete
BY DoneMeans, BootInvariance, PTL

(* The step behind OneKeyPair: while a file is written there is no machine,  *)
(* and a new machine gets what is in the file.                               *)
LEMMA KeyStep ==
  ASSUME BootInv, OneKeyPair, [BootNext]_bootVars
  PROVE  OneKeyPair'
<1>1. CASE UNCHANGED <<privFile, machines, trusted>>
  BY <1>1 DEF OneKeyPair
<1>2. CASE OpenPrivate \/ FillPrivate
  BY <1>2, FilesAssumption
     DEF OpenPrivate, FillPrivate, BootInv, KeyInv, OneKeyPair, vmObjects,
              BootTypeOK, Keys
<1>3. CASE CreateMachine
  <2>1. sshPub \in {Empty, privFile} /\ privFile' = privFile
    BY <1>3 DEF CreateMachine, BootInv, KeyInv, fileVars, PastKeys, Keying, BootPcs
  <2>2. trusted \in [Vms -> Files] /\ machines \subseteq Vms
    BY DEF BootInv, BootTypeOK
  <2>3. CASE Vm \in machines
    BY <1>3, <2>1, <2>3 DEF CreateMachine, OneKeyPair
  <2>4. CASE Vm \notin machines
    <3>1. machines' = machines \cup {Vm} /\ trusted' = [trusted EXCEPT ![Vm] = sshPub]
      BY <1>3, <2>4 DEF CreateMachine
    <3>2. Vm \in Vms
      BY VmItemsFacts DEF Vm, BootInv, BootTypeOK
    <3> QED
      BY <2>1, <2>2, <3>1, <3>2 DEF OneKeyPair
  <2> QED
    BY <2>3, <2>4
<1>4. [BootNext]_bootVars /\ ~(OpenPrivate \/ FillPrivate \/ CreateMachine)
        => UNCHANGED <<privFile, machines, trusted>>
  BY DEF BootNext, BootStep, BootFault, BootExternal, bootVars, fileVars, vmObjects,
         KeyExists, OpenPublic, FillPublic, ReadPublic, CreateCVMI,
         CreateVMIPClaim, CreateVMDFromCVMI, CreateVMD, CreateAttachment, AllVMUp,
         AwaitFails, GetSSHClients, SshFails, AptInstalls, AptGivesUp,
         CheckDeckhouse, NoDocker, StartInstall, StartResources, ResourcesDone,
         DhctlFails, ListNodes, ScriptFound, ScriptGarbled, GetScript,
         SpawnInstalls, NodeInstall, NodeInstalled, Wait, CreateUser, SeeToken,
         Download, BootDies, BootAgain, AptReleases, DhctlInstalls, DhctlCreates,
         SecretAppears, TokenAppears, OrphanEnds, NodeJoins, ScriptFails
<1> QED
  BY <1>1, <1>2, <1>3, <1>4

(* Machines trust one key, the one on disk: see OneKeyPair.                  *)
THEOREM OneKeyPairAlways == BootSpec => []OneKeyPair
<1>1. BootInit => OneKeyPair
  BY DEF BootInit, OneKeyPair
<1> QED
  BY <1>1, BootInvariance, KeyStep, PTL DEF BootSpec

(* Only StartInstall starts an installation, with a list of commands that    *)
(* was made when the master had none: see InstallOnBare.                     *)
THEOREM InstallOnBareAlways == BootSpec => InstallOnBare
<1> DEFINE OnBare == dhctl'["install"] \ dhctl["install"] # {} =>
                       ~resources /\ joined = {} /\ scripts = {}
<1>1. BootInv /\ [BootNext]_bootVars => [OnBare]_bootVars
  <2> SUFFICES ASSUME BootInv, [BootNext]_bootVars PROVE OnBare
    OBVIOUS
  <2>1. CASE StartInstall
    BY <2>1 DEF StartInstall, BootInv, StageInv, Bare, PastCheck
  <2>2. CASE UNCHANGED dhctl
    BY <2>2
  <2>3. CASE StartResources \/ ResourcesDone \/ DhctlFails
              \/ \E p \in DhctlPhases, b \in Boots : OrphanEnds(p, b)
    BY <2>3 DEF StartResources, ResourcesDone, DhctlFails, OrphanEnds, BootInv,
                BootTypeOK, DhctlPhases
  <2>4. [BootNext]_bootVars /\ ~StartInstall
          /\ ~(StartResources \/ ResourcesDone \/ DhctlFails
                \/ \E p \in DhctlPhases, b \in Boots : OrphanEnds(p, b))
          => UNCHANGED dhctl
    BY DEF BootNext, BootStep, BootFault, BootExternal, bootVars, hostVars,
           OpenPrivate, KeyExists, FillPrivate, OpenPublic, FillPublic, ReadPublic,
           CreateCVMI, CreateVMIPClaim, CreateVMDFromCVMI, CreateVMD,
           CreateAttachment, CreateMachine, AllVMUp, AwaitFails, GetSSHClients,
           SshFails, AptInstalls, AptGivesUp, CheckDeckhouse, NoDocker, ListNodes,
           ScriptFound, ScriptGarbled, GetScript, SpawnInstalls, NodeInstall,
           NodeInstalled, Wait, CreateUser, SeeToken, Download, BootDies, BootAgain,
           AptReleases, DhctlInstalls, DhctlCreates, SecretAppears, TokenAppears,
           NodeJoins, ScriptFails
  <2> QED
    BY <2>1, <2>2, <2>3, <2>4
<1> QED
  BY <1>1, BootInvariance, PTL DEF BootSpec, InstallOnBare

-----------------------------------------------------------------------------
(* The refinement of ClusterLife.                                            *)

(* Nothing is installed, at work or reported at the first start.             *)
LEMMA BootInitLife == BootInit => Life!LifeInit
BY DEF BootInit, Life!LifeInit, LifeStage, DhctlPhases

(* Steps that change nothing of the life of the cluster.                     *)
LEMMA NoLife ==
  ASSUME UNCHANGED <<stage, dhctl, resources>>,
         (scripts \cup joined)' = scripts \cup joined,
         (bootPc = "done")' = (bootPc = "done")
  PROVE  UNCHANGED Life!lifeVars
BY DEF Life!lifeVars, LifeStage

(* Most steps are of that kind, those of the installation and those that     *)
(* change the number of nodes apart.                                         *)
LEMMA OtherStepsNoLife ==
  ASSUME [BootNext]_bootVars,
         ~StartInstall, ~StartResources, ~ResourcesDone, ~DhctlFails,
         ~Download, ~BootAgain, ~DhctlInstalls, ~DhctlCreates,
         ~(\E n \in Workers : NodeInstall(n) \/ ScriptFails(n)),
         ~(\E p \in DhctlPhases, b \in Boots : OrphanEnds(p, b))
  PROVE  UNCHANGED Life!lifeVars
<1>1. UNCHANGED <<stage, dhctl, resources>>
  BY DEF BootNext, BootStep, BootFault, BootExternal, bootVars, hostVars,
         nestedVars, OpenPrivate, KeyExists, FillPrivate, OpenPublic, FillPublic,
         ReadPublic, CreateCVMI, CreateVMIPClaim, CreateVMDFromCVMI, CreateVMD,
         CreateAttachment, CreateMachine, AllVMUp, AwaitFails, GetSSHClients,
         SshFails, AptInstalls, AptGivesUp, CheckDeckhouse, NoDocker, ListNodes,
         ScriptFound, ScriptGarbled, GetScript, SpawnInstalls, NodeInstalled,
         Wait, CreateUser, SeeToken, BootDies, AptReleases, SecretAppears,
         TokenAppears, NodeJoins
<1>2. (scripts \cup joined)' = scripts \cup joined
  <2>1. CASE \E n \in Workers : NodeJoins(n)
    BY <2>1 DEF NodeJoins
  <2>2. CASE UNCHANGED <<scripts, joined>>
    BY <2>2
  <2>3. (\E n \in Workers : NodeJoins(n)) \/ UNCHANGED <<scripts, joined>>
    BY DEF BootNext, BootStep, BootFault, BootExternal, bootVars, hostVars,
           nestedVars, OpenPrivate, KeyExists, FillPrivate, OpenPublic,
           FillPublic, ReadPublic, CreateCVMI, CreateVMIPClaim,
           CreateVMDFromCVMI, CreateVMD, CreateAttachment, CreateMachine, AllVMUp,
           AwaitFails, GetSSHClients, SshFails, AptInstalls, AptGivesUp,
           CheckDeckhouse, NoDocker, ListNodes, ScriptFound, ScriptGarbled,
           GetScript, SpawnInstalls, NodeInstalled, Wait, CreateUser, SeeToken,
           BootDies, AptReleases, SecretAppears, TokenAppears
  <2> QED
    BY <2>1, <2>2, <2>3
<1>3. (bootPc = "done")' = (bootPc = "done")
  BY DEF BootNext, BootStep, BootFault, BootExternal, bootVars, procVars,
         BootGoto, OpenPrivate, KeyExists, FillPrivate, OpenPublic, FillPublic,
         ReadPublic, CreateCVMI, CreateVMIPClaim, CreateVMDFromCVMI, CreateVMD,
         CreateAttachment, CreateMachine, AllVMUp, AwaitFails, GetSSHClients,
         SshFails, AptInstalls, AptGivesUp, CheckDeckhouse, NoDocker, ListNodes,
         ScriptFound, ScriptGarbled, GetScript, SpawnInstalls, NodeInstalled,
         Wait, CreateUser, SeeToken, BootDies, AptReleases, SecretAppears,
         TokenAppears, NodeJoins
<1> QED
  BY <1>1, <1>2, <1>3, NoLife

(* A set that has become smaller has lost some set.                          *)
LEMMA Remainder ==
  ASSUME NEW S, NEW T, T \subseteq S
  PROVE  \E over \in SUBSET S : T = S \ over
<1>1. S \ T \in SUBSET S /\ T = S \ (S \ T)
  OBVIOUS
<1> QED
  BY <1>1

(* The steps of the installation are steps of the life of the cluster.       *)
LEMMA InstallationLives ==
  ASSUME BootInv,
         \/ StartInstall \/ StartResources \/ ResourcesDone \/ DhctlFails
         \/ DhctlInstalls \/ DhctlCreates
         \/ \E p \in DhctlPhases, b \in Boots : OrphanEnds(p, b)
  PROVE  Life!LifeNext
<1> USE DEF BootInv, BootTypeOK, BootGoto, LifeStage
<1>1. CASE StartInstall
  <2>1. /\ ~resources /\ scripts \cup joined = {} /\ dhctl["resources"] = {}
    BY <1>1 DEF StartInstall, StageInv, Bare, PastCheck
  <2>2. /\ dhctl'["install"] = dhctl["install"] \cup {boot}
        /\ dhctl'["resources"] = dhctl["resources"]
        /\ UNCHANGED <<stage, resources, scripts, joined>>
        /\ (bootPc = "done")' = (bootPc = "done")
    BY <1>1 DEF StartInstall, DhctlPhases, nestedVars
  <2>3. Life!Install(boot)
    BY <2>1, <2>2 DEF Life!Install
  <2> QED
    BY <2>3 DEF Life!LifeNext
<1>2. CASE StartResources
  <2>1. stage # "none"
    BY <1>2 DEF StartResources, StageInv, PastCheck
  <2>2. /\ dhctl'["install"] = dhctl["install"] \ {boot}
        /\ dhctl'["resources"] = dhctl["resources"] \cup {boot}
        /\ UNCHANGED <<stage, resources, scripts, joined>>
        /\ (bootPc = "done")' = (bootPc = "done")
    BY <1>2 DEF StartResources, nestedVars
  <2>3. \E over \in SUBSET dhctl["install"] :
          dhctl'["install"] = dhctl["install"] \ over
    <3>1. dhctl'["install"] \subseteq dhctl["install"]
      BY <2>2
    <3> QED
      BY <3>1, Remainder
  <2>4. LifeStage > 0
    BY <2>1
  <2>5. Life!Populate(boot)
    BY <2>2, <2>3, <2>4 DEF Life!Populate
  <2> QED
    BY <2>5 DEF Life!LifeNext
<1>3. CASE ResourcesDone \/ DhctlFails
           \/ \E p \in DhctlPhases, b \in Boots : OrphanEnds(p, b)
  <2>1. /\ UNCHANGED <<stage, resources, scripts, joined>>
        /\ (bootPc = "done")' = (bootPc = "done")
    BY <1>3 DEF ResourcesDone, DhctlFails, OrphanEnds, DhctlPhases, nestedVars,
                procVars
  <2>2. dhctl'["install"] \subseteq dhctl["install"]
    BY <1>3 DEF ResourcesDone, DhctlFails, OrphanEnds, DhctlPhases
  <2>3. dhctl'["resources"] \subseteq dhctl["resources"]
    BY <1>3 DEF ResourcesDone, DhctlFails, OrphanEnds, DhctlPhases
  <2>4. \E over \in SUBSET dhctl["install"] :
          dhctl'["install"] = dhctl["install"] \ over
    BY <2>2, Remainder
  <2>5. \E over \in SUBSET dhctl["resources"] :
          dhctl'["resources"] = dhctl["resources"] \ over
    BY <2>3, Remainder
  <2>6. UNCHANGED <<LifeStage, {f \in {"resources.yml"} : resources}>>
    BY <2>1
  <2>7. Life!JobsEnd
    BY <2>1, <2>4, <2>5, <2>6 DEF Life!JobsEnd
  <2> QED
    BY <2>7 DEF Life!LifeNext
<1>4. CASE DhctlInstalls
  <2>1. /\ dhctl["install"] # {}
        /\ LifeStage' \in (LifeStage + 1)..3
        /\ UNCHANGED <<dhctl, resources, scripts, joined, bootPc>>
    BY <1>4 DEF DhctlInstalls, nestedVars, procVars, DeckStages
  <2>2. Life!Advance
    BY <2>1 DEF Life!Advance
  <2> QED
    BY <2>2 DEF Life!LifeNext
<1>5. CASE DhctlCreates
  <2>1. /\ dhctl["resources"] # {} /\ stage = "whole" /\ resources' = TRUE
        /\ UNCHANGED <<dhctl, stage, scripts, joined, bootPc>>
    BY <1>5 DEF DhctlCreates, hostVars, procVars
  <2>2. {f \in {"resources.yml"} : resources}' = {"resources.yml"}
    BY <2>1
  <2>3. Life!Furnish("resources.yml")
    BY <2>1, <2>2 DEF Life!Furnish
  <2> QED
    BY <2>3 DEF Life!LifeNext
<1> QED
  BY <1>1, <1>2, <1>3, <1>4, <1>5

(* So are those of the nodes, and the end and the start of a process.        *)
LEMMA NodesLive ==
  ASSUME BootInv, BootInv',
         \/ \E n \in Workers : NodeInstall(n) \/ ScriptFails(n)
         \/ Download \/ BootAgain
  PROVE  [Life!LifeNext]_(Life!lifeVars)
<1> USE DEF BootInv, BootTypeOK, BootGoto, LifeStage
<1>1. ASSUME NEW n \in Workers, NodeInstall(n)
      PROVE  [Life!LifeNext]_(Life!lifeVars)
  <2>1. /\ UNCHANGED <<stage, dhctl, resources, joined, bootPc>>
        /\ scripts' = IF script = "ok" THEN scripts \cup {n} ELSE scripts
    BY <1>1 DEF NodeInstall, hostVars
  <2>2. CASE script = "ok"
    <3>1. LifeStage >= 2
      BY <1>1, <2>2 DEF NodeInstall, DoneInv, StageInv, PastResources
    <3>2. (scripts \cup joined)' = (scripts \cup joined) \cup {n}
      BY <2>1, <2>2
    <3>3. UNCHANGED <<LifeStage, {f \in {"resources.yml"} : resources},
                      dhctl["install"], dhctl["resources"], bootPc = "done">>
      BY <2>1
    <3>4. Life!Join(n)
      BY <3>1, <3>2, <3>3 DEF Life!Join
    <3> QED
      BY <3>4 DEF Life!LifeNext
  <2>3. CASE script # "ok"
    BY <2>1, <2>3, NoLife
  <2> QED
    BY <2>2, <2>3
<1>2. ASSUME NEW n \in Workers, ScriptFails(n)
      PROVE  [Life!LifeNext]_(Life!lifeVars)
  <2>1. /\ UNCHANGED <<stage, dhctl, resources, joined>>
        /\ scripts' = scripts \ {n}
    BY <1>2 DEF ScriptFails, hostVars
  <2>2. (bootPc = "done")' = (bootPc = "done")
    BY <1>2 DEF ScriptFails
  <2>3. CASE n \in joined
    <3>1. (scripts \cup joined)' = scripts \cup joined
      BY <2>1, <2>3
    <3> QED
      BY <2>1, <2>2, <3>1, NoLife
  <2>4. CASE n \notin joined
    <3>1. (scripts \cup joined)' = (scripts \cup joined) \ {n}
      BY <2>1, <2>4
    <3>2. UNCHANGED <<LifeStage, {f \in {"resources.yml"} : resources},
                      dhctl["install"], dhctl["resources"]>>
      BY <2>1
    <3>3. Life!Leave(n)
      BY <2>2, <3>1, <3>2 DEF Life!Leave
    <3> QED
      BY <3>3 DEF Life!LifeNext
  <2> QED
    BY <2>3, <2>4
<1>3. CASE Download
  <2>1. /\ UNCHANGED <<stage, dhctl, resources, scripts, joined>>
        /\ bootPc' = "done"
    BY <1>3 DEF Download, hostVars, nestedVars
  <2>2. BootInv' => BootComplete'
    BY DoneMeans, PTL
  <2>3. stage = "whole" /\ resources
    BY <2>1, <2>2 DEF BootComplete
  <2>4. LifeStage = 3 /\ {f \in {"resources.yml"} : resources} = {"resources.yml"}
    BY <2>3
  <2>5. UNCHANGED <<LifeStage, {f \in {"resources.yml"} : resources},
                    dhctl["install"], dhctl["resources"], scripts \cup joined>>
    BY <2>1
  <2>6. (bootPc = "done")' = TRUE
    BY <2>1
  <2>7. Life!Report
    BY <2>4, <2>5, <2>6 DEF Life!Report
  <2> QED
    BY <2>7 DEF Life!LifeNext
<1>4. CASE BootAgain
  <2>1. /\ UNCHANGED <<stage, dhctl, resources, scripts, joined>>
        /\ bootPc' = "stat"
    BY <1>4 DEF BootAgain, hostVars, nestedVars
  <2>2. UNCHANGED <<LifeStage, {f \in {"resources.yml"} : resources},
                    dhctl["install"], dhctl["resources"], scripts \cup joined>>
    BY <2>1
  <2>3. Life!RunAgain
    BY <2>1, <2>2 DEF Life!RunAgain
  <2> QED
    BY <2>3 DEF Life!LifeNext
<1> QED
  BY <1>1, <1>2, <1>3, <1>4

(* The older bootstrap gives its cluster the life that ClusterLife describes,*)
(* over any number of boots, and whatever containers and scripts of a dead   *)
(* process do meanwhile.                                                     *)
THEOREM LifeImplemented == BootSpec => BootsImplementLife
<1>1. BootInv /\ BootInv' /\ [BootNext]_bootVars
        => [Life!LifeNext]_(Life!lifeVars)
  BY OtherStepsNoLife, InstallationLives, NodesLive
<1> QED
  BY <1>1, BootInitLife, BootInvariance, PTL
  DEF BootSpec, BootsImplementLife, Life!LifeSpec
-----------------------------------------------------------------------------
(* What it takes to leave a machine behind that no later boot can use.       *)

\* No process dies with the public key file open, nor between a system disk
\* and its machine.
Halves == {"fillPub", "data", "attach", "vm"}
NotCutInHalf == bootPc \in Halves => bootPc' # "dead"

\* Every machine has a disk to start from and the key that boots call it with.
MachinesUsable == \A v \in machines : v \notin diskless /\ LetsIn(v)

\* Why: whatever a boot finds, an earlier one has made whole.
DiskInv ==
  /\ diskless = {}
  /\ \A v \in sysDisks \ machines :
       bootPc \in {"data", "attach", "vm"} /\ v = Vm /\ newSys
PubInv ==
  /\ pubFile = Empty => bootPc = "fillPub"
  /\ bootPc \in PastKeys => sshPub = privFile
  /\ \A v \in machines : trusted[v] = privFile
WholeInv == BootInv /\ DiskInv /\ PubInv

(* The key files: no machine exists while they are being written.            *)
LEMMA KeyStepsWhole ==
  ASSUME WholeInv, OpenPrivate \/ KeyExists \/ FillPrivate \/ OpenPublic
                   \/ FillPublic \/ ReadPublic
  PROVE  DiskInv' /\ PubInv'
<1> USE FilesAssumption
    DEF WholeInv, BootInv, KeyInv, DiskInv, PubInv, BootGoto, Vm, fileVars,
        vmObjects, PastKeys, BootPcs, Keying, Files, Keys, Boots
<1>1. CASE OpenPrivate
  <2>1. machines = {} /\ pubFile = NoFile
    BY <1>1 DEF OpenPrivate
  <2> QED
    BY <1>1, <2>1 DEF OpenPrivate
<1>2. CASE KeyExists
  BY <1>2 DEF KeyExists
<1>3. CASE FillPrivate
  BY <1>3 DEF FillPrivate
<1>4. CASE OpenPublic
  <2>1. machines = {}
    BY <1>4 DEF OpenPublic
  <2> QED
    BY <1>4, <2>1 DEF OpenPublic
<1>5. CASE FillPublic
  <2>1. machines = {} /\ boot \in Keys /\ boot # Empty
    BY <1>5 DEF FillPublic, BootTypeOK
  <2> QED
    BY <1>5, <2>1 DEF FillPublic
<1>6. CASE ReadPublic
  <2>1. pubFile # NoFile => pubFile = privFile
    BY <1>6 DEF ReadPublic
  <2> QED
    BY <1>6, <2>1 DEF ReadPublic
<1> QED
  BY <1>1, <1>2, <1>3, <1>4, <1>5, <1>6

(* CreateVM: a system disk that is in the list has its machine.              *)
LEMMA CreateStepsWhole ==
  ASSUME WholeInv, CreateCVMI \/ CreateVMIPClaim \/ CreateVMDFromCVMI \/ CreateVMD
                   \/ CreateAttachment \/ CreateMachine
  PROVE  DiskInv' /\ PubInv'
<1> USE VmItemsFacts
    DEF WholeInv, BootInv, DiskInv, PubInv, BootGoto, Vm, vmObjects, fileVars,
        PastKeys, BootPcs, Keying
<1>1. CASE CreateCVMI \/ CreateVMIPClaim
  BY <1>1 DEF CreateCVMI, CreateVMIPClaim
<1>2. CASE CreateVMDFromCVMI
  BY <1>2 DEF CreateVMDFromCVMI
<1>3. CASE CreateVMD \/ CreateAttachment
  BY <1>3 DEF CreateVMD, CreateAttachment
<1>4. CASE CreateMachine
  <2>1. PubInv'
    <3>1. \A v \in machines' : trusted'[v] = privFile
      BY <1>4 DEF CreateMachine, BootTypeOK
    <3> QED
      BY <1>4, <3>1 DEF CreateMachine
  <2>2. CASE Vm \in machines
    <3>1. sysDisks \subseteq machines
      BY <2>2
    <3> QED
      BY <1>4, <2>1, <2>2, <3>1 DEF CreateMachine
  <2>3. CASE Vm \notin machines
    <3>1. Vm \in sysDisks /\ newSys
      BY <1>4, <2>3 DEF CreateMachine, MadeInv
    <3>2. diskless' = {} /\ sysDisks' \subseteq machines'
      BY <1>4, <2>3, <3>1 DEF CreateMachine
    <3> QED
      BY <2>1, <3>2
  <2> QED
    BY <2>2, <2>3
<1> QED
  BY <1>1, <1>2, <1>3, <1>4

(* All other steps leave keys and machines alone.                            *)
LEMMA OtherStepsWhole ==
  ASSUME WholeInv, UNCHANGED <<fileVars, vmObjects>>,
         bootPc \notin Halves \/ UNCHANGED procVars,
         bootPc' \in PastKeys => bootPc \in PastKeys /\ sshPub' = sshPub,
         bootPc' \notin Halves \/ UNCHANGED procVars
  PROVE  DiskInv' /\ PubInv'
BY DEF WholeInv, DiskInv, PubInv, Halves, Vm, fileVars, vmObjects, procVars

(* Each step keeps WholeInv, unless it cuts a boot in half.                  *)
LEMMA NextWholeInv ==
  WholeInv /\ [BootNext /\ NotCutInHalf]_bootVars => WholeInv'
<1> SUFFICES ASSUME WholeInv, [BootNext /\ NotCutInHalf]_bootVars
             PROVE  DiskInv' /\ PubInv'
  BY BootNextInv DEF WholeInv
<1> USE DEF fileVars, vmObjects, procVars, BootGoto
<1> DEFINE Quiet == /\ UNCHANGED <<fileVars, vmObjects>>
                    /\ bootPc \notin Halves \/ UNCHANGED procVars
                    /\ bootPc' \in PastKeys => bootPc \in PastKeys /\ sshPub' = sshPub
                    /\ bootPc' \notin Halves \/ UNCHANGED procVars
<1>1. CASE \/ OpenPrivate \/ KeyExists \/ FillPrivate \/ OpenPublic
           \/ FillPublic \/ ReadPublic
  BY <1>1, KeyStepsWhole
<1>2. CASE \/ CreateCVMI \/ CreateVMIPClaim \/ CreateVMDFromCVMI \/ CreateVMD
           \/ CreateAttachment \/ CreateMachine
  BY <1>2, CreateStepsWhole
<1> USE DEF Halves, PastKeys, BootPcs, Keying
<1>3. CASE AllVMUp \/ AwaitFails \/ GetSSHClients \/ SshFails \/ AptInstalls
           \/ AptGivesUp \/ CheckDeckhouse \/ NoDocker
  <2>1. Quiet
    BY <1>3 DEF AllVMUp, AwaitFails, GetSSHClients, SshFails, AptInstalls,
                AptGivesUp, CheckDeckhouse, NoDocker
  <2> QED
    BY <2>1, OtherStepsWhole
<1>4. CASE StartInstall \/ StartResources \/ ResourcesDone \/ DhctlFails
           \/ ListNodes \/ ScriptFound \/ ScriptGarbled \/ SpawnInstalls
  <2>1. Quiet
    BY <1>4 DEF StartInstall, StartResources, ResourcesDone, DhctlFails, ListNodes,
                ScriptFound, ScriptGarbled, GetScript, SpawnInstalls, DhctlPhases
  <2> QED
    BY <2>1, OtherStepsWhole
<1>5. CASE (\E n \in Workers : NodeInstall(n) \/ NodeInstalled(n))
           \/ Wait \/ CreateUser \/ SeeToken \/ Download
  <2>1. Quiet
    BY <1>5 DEF NodeInstall, NodeInstalled, Wait, CreateUser, SeeToken, Download
  <2> QED
    BY <2>1, OtherStepsWhole
<1>6. CASE BootDies /\ NotCutInHalf
  <2>1. Quiet
    BY <1>6 DEF BootDies, NotCutInHalf
  <2> QED
    BY <2>1, OtherStepsWhole
<1>7. CASE BootAgain
  <2>1. Quiet
    BY <1>7 DEF BootAgain
  <2> QED
    BY <2>1, OtherStepsWhole
<1>8. CASE BootExternal
  <2>1. Quiet
    BY <1>8 DEF BootExternal, AptReleases, DhctlInstalls, DhctlCreates,
                SecretAppears, TokenAppears, OrphanEnds, NodeJoins, ScriptFails
  <2> QED
    BY <2>1, OtherStepsWhole
<1>9. CASE UNCHANGED bootVars
  <2>1. Quiet
    BY <1>9 DEF bootVars
  <2> QED
    BY <2>1, OtherStepsWhole
<1> QED
  BY <1>1, <1>2, <1>3, <1>4, <1>5, <1>6, <1>7, <1>8, <1>9
     DEF BootNext, BootStep, BootFault

(* Only a boot that dies at one of those places can leave a machine that     *)
(* AwaitFails or SshFails in every boot after it: as long as none does,      *)
(* each machine has its disk and trusts the key in the file.                 *)
THEOREM UsableWhenNotCutInHalf ==
  BootSpec /\ [][NotCutInHalf]_bootVars => []MachinesUsable
<1>1. BootInit => WholeInv
  BY BootInitInv, FilesAssumption
     DEF WholeInv, BootInit, DiskInv, PubInv, PastKeys, Keying
<1>2. WholeInv => MachinesUsable
  BY DEF WholeInv, DiskInv, PubInv, BootInv, KeyInv, MachinesUsable, LetsIn
<1>3. [BootNext]_bootVars /\ [NotCutInHalf]_bootVars
        => [BootNext /\ NotCutInHalf]_bootVars
  OBVIOUS
<1> QED
  BY <1>1, <1>2, <1>3, NextWholeInv, PTL DEF BootSpec
==============================================================================
