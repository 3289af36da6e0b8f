------------------------------ MODULE InitCluster ------------------------------
(***************************************************************************)
(* InitClusterCreate, the bootstrap of the older toolkit                   *)
(* (testkit/clusterManagement/cluster.go) with the objects and keys it     *)
(* makes (testkit/funcs/virtual.go, ssh.go): a pair of ssh keys in files,  *)
(* three virtual machines, Deckhouse on the first by dhctl from the        *)
(* second, the other two as nodes, a kubeconfig.  One process at a time;   *)
(* any error ends it, anywhere, and it is started again on what it left.   *)
(* External: the API server, dhctl's containers, apt, the controllers and  *)
(* the bootstrap script of a node, which run on when the process is gone.  *)
(***************************************************************************)
EXTENDS Integers, Sequences

CONSTANTS
  VmItems,    \* the names of the virtual machines, in the order of creation
  MaxBoots,   \* bound: how often the program is started
  NoFile,     \* a file that does not exist
  Empty       \* a file that is open for writing and has no content yet

Vms == {VmItems[i] : i \in 1..Len(VmItems)}
Master == VmItems[1]             \* MasterNodeIP
Setup == VmItems[2]              \* InstallWorkerNodeIp: docker and dhctl
Workers == Vms \ {Master}        \* InstallWorkerNodeIp and WorkerNode2
Boots == 1..MaxBoots
Keys == Boots                    \* a key pair is known by the boot that made it

ASSUME VmItemsAssumption ==
  /\ VmItems \in Seq(Vms) /\ Len(VmItems) >= 2
  /\ \A i, j \in 1..Len(VmItems) : VmItems[i] = VmItems[j] => i = j
ASSUME MaxBootsAssumption == MaxBoots \in Nat \ {0}
ASSUME FilesAssumption == NoFile \notin Keys /\ Empty \notin Keys /\ NoFile # Empty

VARIABLES
  \* AppTmpPath on the machine of the program
  privFile,   \* id_rsa_test
  pubFile,    \* id_rsa_test.pub
  \* the hypervisor
  image,      \* the ClusterVirtualImage exists
  ipClaims,   \* virtual machines whose address claim exists,
  sysDisks,   \*   whose system disk exists,
  dataDisks,  \*   whose data disk exists,
  attached,   \*   whose data disk has an attachment,
  machines,   \*   and those that exist themselves
  diskless,   \* those made with an empty disk reference
  trusted,    \* the public key in the user data of each
  \* the cluster
  aptLock,    \* the lists of apt are locked on the setup machine
  dockerCmd,  \* it has the docker command
  stage,      \* of Deckhouse on the master
  dhctl,      \* boots whose container is at work, per phase
  resources,  \* resources.yml has been applied, with the node group
  secret,     \* manual-bootstrap-for-worker exists
  scripts,    \* machines on which the bootstrap script is at work
  joined,     \* machines that are nodes
  account,    \* createuser.sh has made the service account
  token,      \* the service account has a token
  \* the process
  bootPc,     \* where it is
  boot,       \* its number
  item,       \* index of the virtual machine CreateVM is called for
  sshPub,     \* sshPubKeyString
  newSys,     \* vmSystemDisk.Name is set: this call made the disk
  install,    \* the list of commands has DeckhouseInstallCommand
  nodeList,   \* addresses of the nodes, as listed
  script,     \* nodeInstallScript
  busy,       \* goroutines the WaitGroup counts, by machine
  launched    \* those that have sent the script

fileVars == <<privFile, pubFile>>
vmObjects == <<image, ipClaims, sysDisks, dataDisks, attached, machines,
               diskless, trusted>>
hostVars == <<aptLock, dockerCmd, stage, dhctl>>
nestedVars == <<resources, secret, scripts, joined, account, token>>
procVars == <<bootPc, boot, item, sshPub, newSys, install, nodeList, script,
              busy, launched>>
bootVars == <<fileVars, vmObjects, hostVars, nestedVars, procVars>>

Files == Keys \cup {NoFile, Empty}
DeckStages == {"none", "half", "whole"}
DhctlPhases == {"install", "resources"}
BootPcs == {"stat", "fillPriv", "openPub", "fillPub", "readPub",
            "image", "claim", "system", "data", "attach", "vm",
            "await", "ssh", "apt", "check", "login", "install", "resources",
            "nodes", "script", "join", "wait", "token", "download",
            "done", "dead"}

\* The image is cluster-wide and may be there already.
BootInit ==
  /\ privFile = NoFile /\ pubFile = NoFile
  /\ image \in BOOLEAN
  /\ ipClaims = {} /\ sysDisks = {} /\ dataDisks = {} /\ attached = {}
  /\ machines = {} /\ diskless = {} /\ trusted = [v \in Vms |-> Empty]
  /\ aptLock = TRUE /\ dockerCmd = FALSE /\ stage = "none"
  /\ dhctl = [p \in DhctlPhases |-> {}]
  /\ resources = FALSE /\ secret = FALSE /\ scripts = {} /\ joined = {}
  /\ account = FALSE /\ token = FALSE
  /\ bootPc = "stat" /\ boot = 1 /\ item = 1 /\ sshPub = Empty
  /\ newSys = FALSE /\ install = FALSE /\ nodeList = {} /\ script = "none"
  /\ busy = {} /\ launched = {}

\* The process goes on at l; none of its other variables changes.
BootGoto(l) ==
  /\ bootPc' = l
  /\ UNCHANGED <<boot, item, sshPub, newSys, install, nodeList, script, busy,
                 launched>>
Vm == VmItems[item]
-----------------------------------------------------------------------------
(* CheckAndGetSSHKeys: only the private file is looked for.  os.WriteFile   *)
(* opens and truncates the file before it writes.                           *)

\* A regression: a new pair is made in every boot.
OpenPrivateAlways ==
  /\ bootPc = "stat"
  /\ privFile' = Empty
  /\ BootGoto("fillPriv")
  /\ UNCHANGED <<pubFile, vmObjects, hostVars, nestedVars>>

OpenPrivate ==
  /\ bootPc = "stat" /\ privFile = NoFile
  /\ privFile' = Empty
  /\ BootGoto("fillPriv")
  /\ UNCHANGED <<pubFile, vmObjects, hostVars, nestedVars>>

KeyExists ==
  /\ bootPc = "stat" /\ privFile # NoFile
  /\ BootGoto("readPub")
  /\ UNCHANGED <<fileVars, vmObjects, hostVars, nestedVars>>

FillPrivate ==
  /\ bootPc = "fillPriv"
  /\ privFile' = boot
  /\ BootGoto("openPub")
  /\ UNCHANGED <<pubFile, vmObjects, hostVars, nestedVars>>

OpenPublic ==
  /\ bootPc = "openPub"
  /\ pubFile' = Empty
  /\ BootGoto("fillPub")
  /\ UNCHANGED <<privFile, vmObjects, hostVars, nestedVars>>

FillPublic ==
  /\ bootPc = "fillPub"
  /\ pubFile' = boot
  /\ BootGoto("readPub")
  /\ UNCHANGED <<privFile, vmObjects, hostVars, nestedVars>>

\* A missing file is fatal, an empty one is not.
ReadPublic ==
  /\ bootPc = "readPub"
  /\ IF pubFile = NoFile
       THEN BootGoto("dead")
       ELSE /\ bootPc' = "image" /\ sshPub' = pubFile
            /\ UNCHANGED <<boot, item, newSys, install, nodeList, script, busy,
                           launched>>
  /\ UNCHANGED <<fileVars, vmObjects, hostVars, nestedVars>>

-----------------------------------------------------------------------------
(* CreateVM for one machine: list, and create what is not in the list.      *)
(* Nobody else creates these objects, so that the two requests are a step.  *)

CreateCVMI ==
  /\ bootPc = "image"
  /\ image' = TRUE
  /\ BootGoto("claim")
  /\ UNCHANGED <<fileVars, ipClaims, sysDisks, dataDisks, attached, machines,
                 diskless, trusted, hostVars, nestedVars>>

CreateVMIPClaim ==
  /\ bootPc = "claim"
  /\ ipClaims' = ipClaims \cup {Vm}
  /\ BootGoto("system")
  /\ UNCHANGED <<fileVars, image, sysDisks, dataDisks, attached, machines,
                 diskless, trusted, hostVars, nestedVars>>

\* vmSystemDisk stays the empty object when the disk is in the list.
CreateVMDFromCVMI ==
  /\ bootPc = "system"
  /\ newSys' = (Vm \notin sysDisks)
  /\ sysDisks' = sysDisks \cup {Vm}
  /\ bootPc' = "data"
  /\ UNCHANGED <<boot, item, sshPub, install, nodeList, script, busy, launched>>
  /\ UNCHANGED <<fileVars, image, ipClaims, dataDisks, attached, machines,
                 diskless, trusted, hostVars, nestedVars>>

CreateVMD ==
  /\ bootPc = "data"
  /\ dataDisks' = dataDisks \cup {Vm}
  /\ BootGoto("attach")
  /\ UNCHANGED <<fileVars, image, ipClaims, sysDisks, attached, machines,
                 diskless, trusted, hostVars, nestedVars>>

\* A regression: any error of the request is passed over.
CreateAttachmentUnchecked ==
  /\ bootPc = "attach"
  /\ attached' \in {attached, attached \cup {Vm}}
  /\ BootGoto("vm")
  /\ UNCHANGED <<fileVars, image, ipClaims, sysDisks, dataDisks, machines,
                 diskless, trusted, hostVars, nestedVars>>

\* Before the machine; "already exists" is passed over.
CreateAttachment ==
  /\ bootPc = "attach"
  /\ attached' = attached \cup {Vm}
  /\ BootGoto("vm")
  /\ UNCHANGED <<fileVars, image, ipClaims, sysDisks, dataDisks, machines,
                 diskless, trusted, hostVars, nestedVars>>

\* A machine that exists is left as it is.
CreateMachine ==
  /\ bootPc = "vm"
  /\ IF Vm \in machines
       THEN UNCHANGED <<machines, diskless, trusted>>
       ELSE /\ machines' = machines \cup {Vm}
            /\ diskless' = IF newSys THEN diskless ELSE diskless \cup {Vm}
            /\ trusted' = [trusted EXCEPT ![Vm] = sshPub]
  /\ IF item < Len(VmItems)
       THEN bootPc' = "image" /\ item' = item + 1
       ELSE bootPc' = "await" /\ item' = item
  /\ UNCHANGED <<boot, sshPub, newSys, install, nodeList, script, busy, launched>>
  /\ UNCHANGED <<fileVars, image, ipClaims, sysDisks, dataDisks, attached,
                 hostVars, nestedVars>>

\* A machine without a disk to start from is never in phase Running.
AllVMUp ==
  /\ bootPc = "await" /\ diskless = {}
  /\ BootGoto("ssh")
  /\ UNCHANGED <<fileVars, vmObjects, hostVars, nestedVars>>

\* 600 tries, or a list that cannot be had.
AwaitFails ==
  /\ bootPc = "await"
  /\ BootGoto("dead")
  /\ UNCHANGED <<fileVars, vmObjects, hostVars, nestedVars>>

-----------------------------------------------------------------------------
(* Commands over ssh on the setup machine and the master.                   *)

LetsIn(v) == privFile \in Keys /\ trusted[v] = privFile

\* GetSSHClient for both, and the uploads, which every boot repeats.
GetSSHClients ==
  /\ bootPc = "ssh" /\ LetsIn(Setup) /\ LetsIn(Master)
  /\ BootGoto("apt")
  /\ UNCHANGED <<fileVars, vmObjects, hostVars, nestedVars>>

\* A key that is no key, 600 tries, or an upload that fails.
SshFails ==
  /\ bootPc = "ssh"
  /\ BootGoto("dead")
  /\ UNCHANGED <<fileVars, vmObjects, hostVars, nestedVars>>

\* apt is called again as long as it reports the lock of its lists; its error
\* is dropped.
AptInstalls ==
  /\ bootPc = "apt" /\ ~aptLock
  /\ dockerCmd' = TRUE
  /\ BootGoto("check")
  /\ UNCHANGED <<fileVars, vmObjects, aptLock, stage, dhctl, nestedVars>>

AptGivesUp ==
  /\ bootPc = "apt" /\ ~aptLock
  /\ BootGoto("check")
  /\ UNCHANGED <<fileVars, vmObjects, hostVars, nestedVars>>

\* A regression: the list of commands always has the installation.
InstallAlways ==
  /\ bootPc = "check"
  /\ install' = TRUE
  /\ bootPc' = "login"
  /\ UNCHANGED <<boot, item, sshPub, newSys, nodeList, script, busy, launched>>
  /\ UNCHANGED <<fileVars, vmObjects, hostVars, nestedVars>>

\* "ls -1 /opt/deckhouse | wc -l" on the master.
CheckDeckhouse ==
  /\ bootPc = "check"
  /\ install' = (stage = "none")
  /\ bootPc' = "login"
  /\ UNCHANGED <<boot, item, sshPub, newSys, nodeList, script, busy, launched>>
  /\ UNCHANGED <<fileVars, vmObjects, hostVars, nestedVars>>

NoDocker ==
  /\ bootPc = "login" /\ ~dockerCmd
  /\ BootGoto("dead")
  /\ UNCHANGED <<fileVars, vmObjects, hostVars, nestedVars>>

StartInstall ==
  /\ bootPc = "login" /\ dockerCmd /\ install
  /\ dhctl' = [dhctl EXCEPT !["install"] = @ \cup {boot}]
  /\ BootGoto("install")
  /\ UNCHANGED <<fileVars, vmObjects, aptLock, dockerCmd, stage, nestedVars>>

StartResources ==
  /\ \/ bootPc = "login" /\ dockerCmd /\ ~install
     \/ bootPc = "install" /\ stage = "whole"
  /\ dhctl' = [install |-> dhctl["install"] \ {boot},
               resources |-> dhctl["resources"] \cup {boot}]
  /\ BootGoto("resources")
  /\ UNCHANGED <<fileVars, vmObjects, aptLock, dockerCmd, stage, nestedVars>>

\* A regression: the error of the command is only logged.
ResourcesUnchecked ==
  /\ bootPc = "resources"
  /\ dhctl' = [dhctl EXCEPT !["resources"] = @ \ {boot}]
  /\ BootGoto("nodes")
  /\ UNCHANGED <<fileVars, vmObjects, aptLock, dockerCmd, stage, nestedVars>>

ResourcesDone ==
  /\ bootPc = "resources" /\ resources
  /\ dhctl' = [dhctl EXCEPT !["resources"] = @ \ {boot}]
  /\ BootGoto("nodes")
  /\ UNCHANGED <<fileVars, vmObjects, aptLock, dockerCmd, stage, nestedVars>>

DhctlFails ==
  /\ bootPc \in DhctlPhases
  /\ dhctl' = [dhctl EXCEPT ![bootPc] = @ \ {boot}]
  /\ BootGoto("dead")
  /\ UNCHANGED <<fileVars, vmObjects, aptLock, dockerCmd, stage, nestedVars>>

-----------------------------------------------------------------------------
(* The nodes.                                                               *)

ListNodes ==
  /\ bootPc = "nodes"
  /\ nodeList' = joined
  /\ bootPc' = "script"
  /\ UNCHANGED <<boot, item, sshPub, newSys, install, script, busy, launched>>
  /\ UNCHANGED <<fileVars, vmObjects, hostVars, nestedVars>>

GetScript(s) ==
  /\ bootPc = "script"
  /\ script' = s
  /\ bootPc' = "join"
  /\ UNCHANGED <<boot, item, sshPub, newSys, install, nodeList, busy, launched>>
  /\ UNCHANGED <<fileVars, vmObjects, hostVars, nestedVars>>

\* The command is repeated as long as its output has "not found".
ScriptFound == secret /\ GetScript("ok")

\* Any other failure of kubectl is lost in the pipe to jq, and its message
\* is taken for the script.
ScriptGarbled == GetScript("garbled")

SpawnInstalls ==
  /\ bootPc = "join"
  /\ busy' = Workers \ nodeList
  /\ launched' = {}
  /\ bootPc' = "wait"
  /\ UNCHANGED <<boot, item, sshPub, newSys, install, nodeList, script>>
  /\ UNCHANGED <<fileVars, vmObjects, hostVars, nestedVars>>

\* nodeInstall connects, once, and pipes the script into a shell.
NodeInstall(n) ==
  /\ bootPc = "wait" /\ n \in busy \ launched /\ LetsIn(n)
  /\ launched' = launched \cup {n}
  /\ scripts' = IF script = "ok" THEN scripts \cup {n} ELSE scripts
  /\ UNCHANGED <<bootPc, boot, item, sshPub, newSys, install, nodeList, script,
                 busy>>
  /\ UNCHANGED <<fileVars, vmObjects, hostVars, resources, secret, joined,
                 account, token>>

\* The shell has nothing to do when base64 cannot decode what it is given.
NodeInstalled(n) ==
  /\ bootPc = "wait" /\ n \in busy \cap launched
  /\ script = "ok" => n \in joined /\ n \notin scripts
  /\ busy' = busy \ {n}
  /\ UNCHANGED <<bootPc, boot, item, sshPub, newSys, install, nodeList, script,
                 launched>>
  /\ UNCHANGED <<fileVars, vmObjects, hostVars, nestedVars>>

\* A regression: the main goroutine does not wait.
NoWait ==
  /\ bootPc = "wait"
  /\ BootGoto("token")
  /\ UNCHANGED <<fileVars, vmObjects, hostVars, nestedVars>>

Wait ==
  /\ bootPc = "wait" /\ busy = {}
  /\ BootGoto("token")
  /\ UNCHANGED <<fileVars, vmObjects, hostVars, nestedVars>>

\* createuser.sh, whose errors do not stop it, is repeated until the
\* kubeconfig it writes has a token.
CreateUser ==
  /\ bootPc = "token" /\ ~account
  /\ account' = TRUE
  /\ UNCHANGED <<fileVars, vmObjects, hostVars, resources, secret, scripts,
                 joined, token, procVars>>

SeeToken ==
  /\ bootPc = "token" /\ account /\ token
  /\ BootGoto("download")
  /\ UNCHANGED <<fileVars, vmObjects, hostVars, nestedVars>>

Download ==
  /\ bootPc = "download"
  /\ BootGoto("done")
  /\ UNCHANGED <<fileVars, vmObjects, hostVars, nestedVars>>

-----------------------------------------------------------------------------
(* The end of a process, and the next one.                                  *)

\* Any other error in LogFatalIfError, in whatever goroutine, or an interrupt.
\* What runs on the machines runs on.
BootDies ==
  /\ bootPc \notin {"done", "dead"}
  /\ BootGoto("dead")
  /\ UNCHANGED <<fileVars, vmObjects, hostVars, nestedVars>>

BootAgain ==
  /\ bootPc \in {"done", "dead"} /\ boot < MaxBoots
  /\ boot' = boot + 1
  /\ bootPc' = "stat" /\ item' = 1 /\ sshPub' = Empty /\ newSys' = FALSE
  /\ install' = FALSE /\ nodeList' = {} /\ script' = "none"
  /\ busy' = {} /\ launched' = {}
  /\ UNCHANGED <<fileVars, vmObjects, hostVars, nestedVars>>

-----------------------------------------------------------------------------
(* External.                                                                *)

AptReleases ==
  /\ aptLock
  /\ aptLock' = FALSE
  /\ UNCHANGED <<fileVars, vmObjects, dockerCmd, stage, dhctl, nestedVars,
                 procVars>>

DhctlInstalls ==
  /\ dhctl["install"] # {} /\ stage # "whole"
  /\ stage' = IF stage = "none" THEN "half" ELSE "whole"
  /\ UNCHANGED <<fileVars, vmObjects, aptLock, dockerCmd, dhctl, nestedVars,
                 procVars>>

\* The kinds in resources.yml are known once Deckhouse runs.
DhctlCreates ==
  /\ dhctl["resources"] # {} /\ stage = "whole" /\ ~resources
  /\ resources' = TRUE
  /\ UNCHANGED <<fileVars, vmObjects, hostVars, secret, scripts, joined, account,
                 token, procVars>>

OrphanEnds(p, b) ==
  /\ b \in dhctl[p] /\ ~(b = boot /\ bootPc = p)
  /\ dhctl' = [dhctl EXCEPT ![p] = @ \ {b}]
  /\ UNCHANGED <<fileVars, vmObjects, aptLock, dockerCmd, stage, nestedVars,
                 procVars>>

SecretAppears ==
  /\ resources /\ ~secret
  /\ secret' = TRUE
  /\ UNCHANGED <<fileVars, vmObjects, hostVars, resources, scripts, joined,
                 account, token, procVars>>

TokenAppears ==
  /\ account /\ ~token
  /\ token' = TRUE
  /\ UNCHANGED <<fileVars, vmObjects, hostVars, resources, secret, scripts,
                 joined, account, procVars>>

NodeJoins(n) ==
  /\ n \in scripts
  /\ scripts' = scripts \ {n} /\ joined' = joined \cup {n}
  /\ UNCHANGED <<fileVars, vmObjects, hostVars, resources, secret, account, token,
                 procVars>>

\* The goroutine that sent the script, if it is still there, gets the error.
ScriptFails(n) ==
  /\ n \in scripts
  /\ scripts' = scripts \ {n}
  /\ BootGoto(IF bootPc = "wait" /\ n \in busy \cap launched THEN "dead"
                                                              ELSE bootPc)
  /\ UNCHANGED <<fileVars, vmObjects, hostVars, resources, secret, joined, account,
                 token>>

-----------------------------------------------------------------------------
\* The steps of the process; those of BootFault are requests that fail.
BootStep ==
  \/ OpenPrivate \/ KeyExists \/ FillPrivate \/ OpenPublic \/ FillPublic
  \/ ReadPublic
  \/ CreateCVMI \/ CreateVMIPClaim \/ CreateVMDFromCVMI \/ CreateVMD
  \/ CreateAttachment \/ CreateMachine \/ AllVMUp \/ AwaitFails
  \/ GetSSHClients \/ SshFails \/ AptInstalls \/ AptGivesUp
  \/ CheckDeckhouse \/ NoDocker \/ StartInstall \/ StartResources
  \/ ResourcesDone \/ DhctlFails
  \/ ListNodes \/ ScriptFound \/ SpawnInstalls
  \/ \E n \in Workers : NodeInstall(n) \/ NodeInstalled(n)
  \/ Wait \/ CreateUser \/ SeeToken \/ Download
BootFault == ScriptGarbled \/ BootDies

BootExternal ==
  \/ AptReleases \/ DhctlInstalls \/ DhctlCreates \/ SecretAppears \/ TokenAppears
  \/ \E p \in DhctlPhases, b \in Boots : OrphanEnds(p, b)
  \/ \E n \in Workers : NodeJoins(n) \/ ScriptFails(n)

BootNext == BootStep \/ BootFault \/ BootAgain \/ BootExternal

BootSpec == BootInit /\ [][BootNext]_bootVars

\* The process goes on, and so do those its endless loops wait for: the other
\* user of apt, the controllers of secrets and tokens, the scripts it started.
BootFairness ==
  /\ WF_bootVars(BootStep)
  /\ WF_bootVars(AptReleases)
  /\ WF_bootVars(SecretAppears) /\ WF_bootVars(TokenAppears)
  /\ \A n \in Workers : WF_bootVars(NodeJoins(n) \/ ScriptFails(n))
-----------------------------------------------------------------------------
BootTypeOK ==
  /\ privFile \in Files /\ pubFile \in Files
  /\ image \in BOOLEAN
  /\ ipClaims \subseteq Vms /\ sysDisks \subseteq Vms /\ dataDisks \subseteq Vms
  /\ attached \subseteq Vms /\ machines \subseteq Vms /\ diskless \subseteq Vms
  /\ trusted \in [Vms -> Files]
  /\ aptLock \in BOOLEAN /\ dockerCmd \in BOOLEAN
  /\ stage \in DeckStages
  /\ dhctl \in [DhctlPhases -> SUBSET Boots]
  /\ resources \in BOOLEAN /\ secret \in BOOLEAN
  /\ scripts \subseteq Workers /\ joined \subseteq Workers
  /\ account \in BOOLEAN /\ token \in BOOLEAN
  /\ bootPc \in BootPcs
  /\ boot \in Boots /\ item \in 1..Len(VmItems)
  /\ sshPub \in Files /\ newSys \in BOOLEAN /\ install \in BOOLEAN
  /\ nodeList \subseteq Workers
  /\ script \in {"none", "ok", "garbled"}
  /\ busy \subseteq Workers /\ launched \subseteq Workers

Keying == {"stat", "fillPriv", "openPub", "fillPub", "readPub"}
PastKeys == BootPcs \ (Keying \cup {"dead"})
Creating == {"image", "claim", "system", "data", "attach", "vm"}
PastCreate == PastKeys \ Creating
PastSsh == PastCreate \ {"await", "ssh"}
PastCheck == {"login", "install"}
PastResources == {"nodes", "script", "join", "wait", "token", "download", "done"}

\* The files hold halves of one pair, whatever step a process died at, and
\* what a process has read, or given to a machine, is the half on disk.
KeyInv ==
  /\ pubFile \in {NoFile, Empty, privFile}
  /\ pubFile # NoFile => privFile \in Keys
  /\ bootPc = "fillPriv" => privFile = Empty /\ pubFile = NoFile
  /\ bootPc = "openPub" => privFile = boot /\ pubFile = NoFile
  /\ bootPc = "fillPub" => privFile = boot
  /\ bootPc \in {"fillPriv", "openPub", "fillPub"} => machines = {}
  /\ machines # {} => pubFile # NoFile
  /\ bootPc \in PastKeys => pubFile # NoFile /\ sshPub \in {Empty, privFile}

\* A machine that exists has what CreateVM makes before it.
MadeInv ==
  /\ diskless \subseteq machines
  /\ machines \subseteq ipClaims \cap sysDisks \cap dataDisks \cap attached
  /\ machines # {} => image
  /\ bootPc \in Keying => item = 1
  /\ bootPc \in Creating => \A i \in 1..(item - 1) : VmItems[i] \in machines
  /\ bootPc \in Creating \ {"image"} => image
  /\ bootPc \in {"system", "data", "attach", "vm"} => Vm \in ipClaims
  /\ bootPc \in {"data", "attach", "vm"} => Vm \in sysDisks
  /\ bootPc \in {"attach", "vm"} => Vm \in dataDisks
  /\ bootPc = "vm" => Vm \in attached
  /\ bootPc \in PastCreate => machines = Vms

\* What the cluster has only after Deckhouse has come so far.
Bare == ~resources /\ scripts = {} /\ joined = {} /\ dhctl["resources"] = {}
StageInv ==
  /\ stage = "none" => Bare
  /\ resources => stage = "whole"
  /\ secret => resources
  /\ scripts \cup joined # {} => secret
  /\ token => account
  /\ bootPc \in PastCheck /\ install => Bare
  /\ bootPc \in PastCheck /\ ~install => stage # "none"
  /\ bootPc = "install" => install

\* What the process has done on the way.
DoneInv ==
  /\ bootPc \in PastCreate \ {"await"} => diskless = {}
  /\ bootPc \in PastSsh => LetsIn(Setup) /\ LetsIn(Master)
  /\ bootPc \in PastResources => resources
  /\ bootPc \in PastResources \ {"nodes"} => nodeList \subseteq joined
  /\ bootPc \in PastResources \ {"nodes", "script"} =>
       /\ script \in {"ok", "garbled"}
       /\ script = "ok" => secret
  /\ bootPc = "wait" /\ script = "ok" => Workers \subseteq busy \cup joined
  /\ bootPc \in {"token", "download", "done"} /\ script = "ok" =>
       Workers \subseteq joined
  /\ bootPc \in {"download", "done"} => account /\ token

BootInv == BootTypeOK /\ KeyInv /\ MadeInv /\ StageInv /\ DoneInv

\* However often the program died between the two key files and the machines,
\* a machine that trusts a key trusts the one it will be called with.
OneKeyPair ==
  \A v \in machines : trusted[v] = Empty \/ trusted[v] = privFile

\* The program ends well only with what it was to build: machines that can
\* start, the installation, its resources, and a kubeconfig with a token; and
\* all nodes, unless a failure of kubectl was taken for the install script.
BootComplete ==
  bootPc = "done" =>
    /\ machines = Vms /\ diskless = {} /\ attached = Vms
    /\ stage = "whole" /\ resources /\ account /\ token
    /\ script = "ok" => Workers \subseteq joined

\* No boot starts dhctl's installation on a master whose cluster has got
\* resources or nodes, although containers outlive the boot that started them.
InstallOnBare ==
  [][dhctl'["install"] \ dhctl["install"] # {} =>
       ~resources /\ joined = {} /\ scripts = {}]_bootVars

\* Over all boots, and whatever the containers and scripts of a dead one do,
\* the cluster has the life that both bootstraps promise: see ClusterLife.
LifeStage == IF stage = "none" THEN 0 ELSE IF stage = "half" THEN 1 ELSE 3
Life == INSTANCE ClusterLife WITH
  Jobs <- Boots, Resources <- {"resources.yml"}, Nodes <- Workers,
  deckhouse <- LifeStage,
  installers <- dhctl["install"], populators <- dhctl["resources"],
  furnished <- {f \in {"resources.yml"} : resources},
  members <- scripts \cup joined, reported <- bootPc = "done"
BootsImplementLife == Life!LifeSpec

\* The loops without a bound (apt, the script, the token) are entered only
\* where what they wait for is on its way.
BootEnds == (bootPc = "stat") ~> (bootPc \in {"done", "dead"})
==============================================================================
