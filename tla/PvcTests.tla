-------------------------------- MODULE PvcTests --------------------------------
(***************************************************************************)
(* TestPVC (tests/03_sds_lv_test.go): a storage class, or else the default *)
(* path that switches modules on and makes a volume group on every node    *)
(* (util/kube_deckhouse_modules.go, util/kube_storage.go); then a claim    *)
(* that is made, resized and deleted.  The test is run again and again on  *)
(* one nested cluster and may die anywhere; others edit the configurations *)
(* of the modules and the class meanwhile.  External: the API server with  *)
(* its resource versions, the controllers of the modules and of volumes.   *)
(***************************************************************************)
EXTENDS Integers

CONSTANTS
  StorNodes,   \* the nodes of the nested cluster
  NoNode,      \* no node
  MaxPvcRuns,  \* bound: how often the test is run
  MaxRev       \* bound: others edit configurations up to this revision

ASSUME PvcAssumption ==
  /\ NoNode \notin StorNodes /\ MaxPvcRuns \in Nat \ {0} /\ MaxRev \in Nat

VARIABLES
  \* the nested cluster
  rev,         \* the last resource version given
  modVersion,  \* resource version of each ModuleConfig, 0 where there is none
  modAuthor,   \* who wrote it last
  deployed,    \* the controller of sds-replicated-volume is ready
  class,       \* the storage class exists
  groups,      \* default-lvg-<node>, for each node
  everReady,   \* history: nodes whose group has been Ready
  claim,       \* phase of the claim test-pvc
  deleting,    \* the claim is on its way out
  \* the test
  pvcPc,       \* where it is
  pvcRun,      \* its number
  module,      \* the module EnsureModuleEnabled is called for
  version,     \* existingModuleConfig.ResourceVersion
  readyLvgs,   \* readyLVMVolumeGroups, as listed
  todoNodes,   \* nodes the loop has still to look at
  lvgNode,     \* the node whose new group CreateLvgWithCheck waits for
  listed,      \* the phase of the claim in pvcList, "none" if it is not in it
  failed,      \* t.Error or t.Fatal has been called
  madeRv,      \* history: this run made the second configuration,
  viaDefault,  \*   has come through the default path,
  resized      \*   and its UpdatePVC was accepted

configVars == <<rev, modVersion, modAuthor>>
storeVars == <<deployed, class, groups, everReady>>
claimVars == <<claim, deleting>>
moduleVars == <<module, version>>
nodeVars == <<readyLvgs, todoNodes, lvgNode>>
pastVars == <<madeRv, viaDefault, resized>>
testVars == <<pvcPc, pvcRun, moduleVars, nodeVars, listed, failed, pastVars>>
pvcVars == <<configVars, storeVars, claimVars, testVars>>

Modules == {"nc", "rv"}   \* sds-node-configurator, sds-replicated-volume
PvcEnds == {"done", "dead"}
InConfig == {"config", "version", "update"}
InDefault == {"deploy", "lvgs", "nodes", "lvg"}
\* Steps of testPVCCreate that end it with t.Fatal.
InCreate == InConfig \cup InDefault \cup {"get", "create"}
PvcPcs == InCreate \cup PvcEnds \cup {"class", "bound", "list", "resize", "delete"}

\* sds-node-configurator and the class may be there already.
PvcInit ==
  /\ modVersion \in {[m \in Modules |-> 0], [nc |-> 1, rv |-> 0]}
  /\ modAuthor = [m \in Modules |-> IF modVersion[m] = 0 THEN "none" ELSE "other"]
  /\ rev = modVersion["nc"]
  /\ deployed = FALSE /\ class \in BOOLEAN
  /\ groups = [n \in StorNodes |-> "none"] /\ everReady = {}
  /\ claim = "none" /\ deleting = FALSE
  /\ pvcRun = 1 /\ pvcPc = "class" /\ module = "nc" /\ version = 0
  /\ readyLvgs = {} /\ todoNodes = {} /\ lvgNode = NoNode /\ listed = "none"
  /\ failed = FALSE /\ madeRv = FALSE /\ viaDefault = FALSE /\ resized = FALSE

PvcGoto(l) ==
  /\ pvcPc' = l
  /\ UNCHANGED <<pvcRun, moduleVars, nodeVars, listed, failed, pastVars>>

\* The functions with these variables have returned.
LocalsGone ==
  /\ module' = "nc" /\ version' = 0
  /\ readyLvgs' = {} /\ todoNodes' = {} /\ lvgNode' = NoNode

\* Nothing is left of the process, or of the one before.
NewProcess ==
  /\ LocalsGone /\ listed' = "none"
  /\ failed' = FALSE /\ madeRv' = FALSE /\ viaDefault' = FALSE /\ resized' = FALSE

\* t.Fatal ends testPVCCreate; TestPVC goes on with testPVCResize.
PvcFatal ==
  /\ pvcPc \in InCreate
  /\ pvcPc' = "list" /\ failed' = TRUE
  /\ LocalsGone
  /\ UNCHANGED <<configVars, storeVars, claimVars, pvcRun, listed, pastVars>>
-----------------------------------------------------------------------------
(* The storage class.                                                       *)

\* CreateLocalThickStorageClass: the test drops its error, whatever it is.
CreateClass ==
  /\ pvcPc = "class"
  /\ class' \in {class, TRUE}
  /\ PvcGoto("get")
  /\ UNCHANGED <<configVars, deployed, groups, everReady, claimVars>>

\* EnsureStorageClass; an error other than NotFound is PvcFatal.
ClassFound ==
  /\ pvcPc = "get" /\ class
  /\ PvcGoto("create")
  /\ UNCHANGED <<configVars, storeVars, claimVars>>

ClassNotFound ==
  /\ pvcPc = "get" /\ ~class
  /\ PvcGoto("config")
  /\ UNCHANGED <<configVars, storeVars, claimVars>>

-----------------------------------------------------------------------------
(* EnsureModuleEnabled, for one module after the other.                     *)

WriteConfig ==
  /\ rev' = rev + 1
  /\ modVersion' = [modVersion EXCEPT ![module] = rev + 1]
  /\ modAuthor' = [modAuthor EXCEPT ![module] = "test"]

\* The module is done: the next one, or the wait for the controller.
ModuleDone ==
  /\ IF module = "nc" THEN pvcPc' = "config" /\ module' = "rv"
                      ELSE pvcPc' = "deploy" /\ module' = module
  /\ UNCHANGED <<pvcRun, version, nodeVars, listed, failed, viaDefault, resized>>

CreateConfig ==
  /\ pvcPc = "config" /\ modVersion[module] = 0
  /\ WriteConfig
  /\ ModuleDone /\ madeRv' = (module = "rv")
  /\ UNCHANGED <<storeVars, claimVars>>

\* A regression: AlreadyExists is taken for success.
AlreadyExistsIsFine ==
  /\ pvcPc = "config" /\ modVersion[module] # 0
  /\ ModuleDone /\ madeRv' = madeRv
  /\ UNCHANGED <<configVars, storeVars, claimVars>>

ConfigAlreadyExists ==
  /\ pvcPc = "config" /\ modVersion[module] # 0
  /\ PvcGoto("version")
  /\ UNCHANGED <<configVars, storeVars, claimVars>>

\* The name in the request is SDSNodeConfiguratorModuleName for any module.
GetConfig ==
  /\ pvcPc = "version" /\ modVersion["nc"] # 0
  /\ version' = modVersion["nc"]
  /\ pvcPc' = "update"
  /\ UNCHANGED <<pvcRun, module, nodeVars, listed, failed, pastVars>>
  /\ UNCHANGED <<configVars, storeVars, claimVars>>

\* A regression: the update does not carry a resource version.
UpdateBlind ==
  /\ pvcPc = "update" /\ modVersion[module] # 0
  /\ WriteConfig
  /\ ModuleDone /\ madeRv' = madeRv
  /\ UNCHANGED <<storeVars, claimVars>>

\* The API server takes an update of the version it has; a conflict is
\* PvcFatal.
UpdateConfig ==
  /\ pvcPc = "update" /\ modVersion[module] = version
  /\ WriteConfig
  /\ ModuleDone /\ madeRv' = madeRv
  /\ UNCHANGED <<storeVars, claimVars>>

-----------------------------------------------------------------------------
(* The controller, and EnsureEveryNodeHasLVMVolumeGroup.                    *)

\* WaitUntilSDSReplicatedVolumeModuleReady; its time-out is PvcFatal.
ControllerReady ==
  /\ pvcPc = "deploy" /\ deployed
  /\ PvcGoto("lvgs")
  /\ UNCHANGED <<configVars, storeVars, claimVars>>

ListLvgsIn(phases) ==
  /\ pvcPc = "lvgs"
  /\ readyLvgs' = {n \in StorNodes : groups[n] \in phases}
  /\ todoNodes' = StorNodes
  /\ pvcPc' = "nodes"
  /\ UNCHANGED <<pvcRun, moduleVars, lvgNode, listed, failed, pastVars>>
  /\ UNCHANGED <<configVars, storeVars, claimVars>>

\* A regression: the list is not restricted to groups that are Ready.
ListAllLvgs == ListLvgsIn({"Pending", "Ready"})

\* ListLVG and ListNode; the nodes are the same all the time.
ListReadyLvgs == ListLvgsIn({"Ready"})

LvgThere(n) ==
  /\ pvcPc = "nodes" /\ n \in todoNodes \cap readyLvgs
  /\ todoNodes' = todoNodes \ {n}
  /\ UNCHANGED <<pvcPc, pvcRun, moduleVars, readyLvgs, lvgNode, listed, failed,
                 pastVars>>
  /\ UNCHANGED <<configVars, storeVars, claimVars>>

\* CreateLVG fails where there is a group that is not in the list.
CreateDefaultLvg(n) ==
  /\ pvcPc = "nodes" /\ n \in todoNodes \ readyLvgs /\ groups[n] = "none"
  /\ groups' = [groups EXCEPT ![n] = "Pending"]
  /\ todoNodes' = todoNodes \ {n} /\ lvgNode' = n
  /\ pvcPc' = "lvg"
  /\ UNCHANGED <<pvcRun, moduleVars, readyLvgs, listed, failed, pastVars>>
  /\ UNCHANGED <<configVars, deployed, class, everReady, claimVars>>

\* WaitLVGsReady for this group; its time-out is PvcFatal.
DefaultLvgReady ==
  /\ pvcPc = "lvg" /\ groups[lvgNode] = "Ready"
  /\ PvcGoto("nodes")
  /\ UNCHANGED <<configVars, storeVars, claimVars>>

\* CreateDefaultStorageClass returns without an error, and without a class.
DefaultDone ==
  /\ pvcPc = "nodes" /\ todoNodes = {}
  /\ pvcPc' = "create" /\ viaDefault' = TRUE
  /\ LocalsGone
  /\ UNCHANGED <<pvcRun, listed, failed, madeRv, resized>>
  /\ UNCHANGED <<configVars, storeVars, claimVars>>

-----------------------------------------------------------------------------
(* The claim.                                                               *)

\* A claim that exists is PvcFatal.
CreateClaim ==
  /\ pvcPc = "create" /\ claim = "none"
  /\ claim' = "Pending"
  /\ PvcGoto("bound")
  /\ UNCHANGED <<configVars, storeVars, deleting>>

\* WaitPVCStatus: Bound, an empty phase after a failed request, or 20 polls;
\* the test only logs which.
WaitClaim ==
  /\ pvcPc = "bound"
  /\ PvcGoto("list")
  /\ UNCHANGED <<configVars, storeVars, claimVars>>

ListClaims ==
  /\ pvcPc = "list"
  /\ listed' = claim
  /\ pvcPc' = "resize"
  /\ UNCHANGED <<pvcRun, moduleVars, nodeVars, failed, pastVars>>
  /\ UNCHANGED <<configVars, storeVars, claimVars>>

ListClaimsFails ==
  /\ pvcPc = "list"
  /\ listed' = "none" /\ failed' = TRUE
  /\ pvcPc' = "resize"
  /\ UNCHANGED <<pvcRun, moduleVars, nodeVars, pastVars>>
  /\ UNCHANGED <<configVars, storeVars, claimVars>>

NoClaimListed ==
  /\ pvcPc = "resize" /\ listed = "none"
  /\ PvcGoto("delete")
  /\ UNCHANGED <<configVars, storeVars, claimVars>>

\* Only a Bound claim can be resized, and only at the version in the list.
ResizeClaim ==
  /\ pvcPc = "resize" /\ listed = "Bound" /\ claim = "Bound"
  /\ pvcPc' = "delete" /\ resized' = TRUE
  /\ UNCHANGED <<pvcRun, moduleVars, nodeVars, listed, failed, madeRv, viaDefault>>
  /\ UNCHANGED <<configVars, storeVars, claimVars>>

\* A regression: the error of UpdatePVC is only logged.
ResizeErrorDropped ==
  /\ pvcPc = "resize" /\ listed # "none"
  /\ PvcGoto("delete")
  /\ UNCHANGED <<configVars, storeVars, claimVars>>

ResizeFails ==
  /\ pvcPc = "resize" /\ listed # "none"
  /\ pvcPc' = "delete" /\ failed' = TRUE
  /\ UNCHANGED <<pvcRun, moduleVars, nodeVars, listed, pastVars>>
  /\ UNCHANGED <<configVars, storeVars, claimVars>>

DeleteClaim ==
  /\ pvcPc = "delete" /\ claim # "none"
  /\ deleting' = TRUE
  /\ PvcGoto("done")
  /\ UNCHANGED <<configVars, storeVars, claim>>

DeleteClaimFails ==
  /\ pvcPc = "delete"
  /\ pvcPc' = "done" /\ failed' = TRUE
  /\ UNCHANGED <<pvcRun, moduleVars, nodeVars, listed, pastVars>>
  /\ UNCHANGED <<configVars, storeVars, claimVars>>

-----------------------------------------------------------------------------
PvcDies ==
  /\ pvcPc \notin PvcEnds
  /\ pvcPc' = "dead" /\ NewProcess
  /\ UNCHANGED pvcRun
  /\ UNCHANGED <<configVars, storeVars, claimVars>>

\* In the same namespace (-namespace) or in a new one.
PvcAgain ==
  /\ pvcPc \in PvcEnds /\ pvcRun < MaxPvcRuns
  /\ pvcRun' = pvcRun + 1
  /\ pvcPc' = "class" /\ NewProcess
  /\ \/ UNCHANGED claimVars
     \/ claim' = "none" /\ deleting' = FALSE
  /\ UNCHANGED <<configVars, storeVars>>

-----------------------------------------------------------------------------
(* External.                                                                *)

\* Somebody makes or edits a configuration, or takes it away.
EditConfig(m) ==
  /\ rev < MaxRev
  /\ rev' = rev + 1
  /\ modVersion' = [modVersion EXCEPT ![m] = rev + 1]
  /\ modAuthor' = [modAuthor EXCEPT ![m] = "other"]
  /\ UNCHANGED <<storeVars, claimVars, testVars>>

DropConfig(m) ==
  /\ modVersion[m] # 0
  /\ modVersion' = [modVersion EXCEPT ![m] = 0]
  /\ modAuthor' = [modAuthor EXCEPT ![m] = "none"]
  /\ UNCHANGED <<rev, storeVars, claimVars, testVars>>

ClassChanges ==
  /\ class' = ~class
  /\ UNCHANGED <<configVars, deployed, groups, everReady, claimVars, testVars>>

ControllerChanges ==
  /\ deployed \/ modVersion["rv"] # 0
  /\ deployed' = ~deployed
  /\ UNCHANGED <<configVars, class, groups, everReady, claimVars, testVars>>

\* The agent on the node; a Ready group may cease to be.
GroupChanges(n) ==
  /\ \/ /\ groups[n] = "Pending"
        /\ groups' = [groups EXCEPT ![n] = "Ready"]
        /\ everReady' = everReady \cup {n}
     \/ /\ groups[n] = "Ready"
        /\ groups' = [groups EXCEPT ![n] = "Pending"]
        /\ UNCHANGED everReady
  /\ UNCHANGED <<configVars, deployed, class, claimVars, testVars>>

ClaimBinds ==
  /\ claim = "Pending" /\ class /\ ~deleting
  /\ claim' = "Bound"
  /\ UNCHANGED <<configVars, storeVars, deleting, testVars>>

ClaimGoes ==
  /\ deleting
  /\ claim' = "none" /\ deleting' = FALSE
  /\ UNCHANGED <<configVars, storeVars, testVars>>

-----------------------------------------------------------------------------
PvcStep ==
  \/ PvcFatal \/ CreateClass \/ ClassFound \/ ClassNotFound
  \/ CreateConfig \/ ConfigAlreadyExists \/ GetConfig \/ UpdateConfig
  \/ ControllerReady \/ ListReadyLvgs
  \/ \E n \in StorNodes : LvgThere(n) \/ CreateDefaultLvg(n)
  \/ DefaultLvgReady \/ DefaultDone
  \/ CreateClaim \/ WaitClaim \/ ListClaims \/ ListClaimsFails \/ NoClaimListed
  \/ ResizeClaim \/ ResizeFails \/ DeleteClaim \/ DeleteClaimFails

PvcExternal ==
  \/ \E m \in Modules : EditConfig(m) \/ DropConfig(m)
  \/ ClassChanges \/ ControllerChanges
  \/ \E n \in StorNodes : GroupChanges(n)
  \/ ClaimBinds \/ ClaimGoes

PvcNext == PvcStep \/ PvcDies \/ PvcAgain \/ PvcExternal

PvcSpec == PvcInit /\ [][PvcNext]_pvcVars
-----------------------------------------------------------------------------
PvcTypeOK ==
  /\ rev \in Nat /\ modVersion \in [Modules -> Nat]
  /\ modAuthor \in [Modules -> {"none", "other", "test"}]
  /\ deployed \in BOOLEAN /\ class \in BOOLEAN
  /\ groups \in [StorNodes -> {"none", "Pending", "Ready"}]
  /\ everReady \subseteq StorNodes
  /\ claim \in {"none", "Pending", "Bound"} /\ deleting \in BOOLEAN
  /\ pvcPc \in PvcPcs /\ pvcRun \in 1..MaxPvcRuns
  /\ module \in Modules /\ version \in Nat
  /\ readyLvgs \subseteq StorNodes /\ todoNodes \subseteq StorNodes
  /\ lvgNode \in StorNodes \cup {NoNode}
  /\ listed \in {"none", "Pending", "Bound"} /\ failed \in BOOLEAN
  /\ madeRv \in BOOLEAN /\ viaDefault \in BOOLEAN /\ resized \in BOOLEAN

\* Versions are never given twice, so that what was read of one configuration
\* is never the version of the other.
VersionInv ==
  /\ \A m \in Modules : modVersion[m] <= rev
  /\ modVersion["nc"] = modVersion["rv"] => modVersion["nc"] = 0
  /\ \A m \in Modules : modAuthor[m] = "none" <=> modVersion[m] = 0
  /\ version <= rev
  /\ pvcPc = "update" => version # 0 /\ version # modVersion["rv"]
  /\ pvcPc \in InDefault => madeRv

LvgInDefaultInv ==
  /\ viaDefault => pvcPc \notin {"class", "get"} \cup InConfig \cup InDefault
  /\ \A n \in StorNodes : groups[n] = "Ready" => n \in everReady
  /\ readyLvgs \subseteq everReady
  /\ pvcPc = "lvg" => lvgNode \in StorNodes
  /\ pvcPc = "nodes" =>
       StorNodes \subseteq todoNodes \cup everReady
  /\ pvcPc = "lvg" =>
       StorNodes \subseteq todoNodes \cup everReady \cup {lvgNode}

ClaimInv ==
  /\ deleting => claim # "none"
  /\ pvcPc \in {"bound", "list", "resize", "delete"} /\ ~failed =>
       claim # "none" /\ ~deleting
  /\ pvcPc = "resize" /\ ~failed => listed # "none"
  /\ pvcPc = "delete" /\ ~failed => resized

PvcInv == PvcTypeOK /\ VersionInv /\ LvgInDefaultInv /\ ClaimInv

\* What others wrote into a configuration is overwritten only in that of
\* sds-node-configurator, and only if they did not write after the Get.
EditsSurvive ==
  [][\A m \in Modules :
       modAuthor[m] = "other" /\ modAuthor'[m] = "test" =>
         m = "nc" /\ modVersion[m] = version]_pvcVars

\* The default path passes only if the group of every node was Ready at some
\* time, those that an earlier run left half-made included; and only in a run
\* that made the configuration of sds-replicated-volume itself: with one that
\* exists, the version of the wrong module is read and the update fails.
DefaultPathPasses == viaDefault => madeRv /\ StorNodes \subseteq everReady

\* A test that passes has had its claim resized, although neither the wait for
\* the claim nor its result counts, and leaves no claim that stays.
PvcPassMeansResized ==
  pvcPc = "done" /\ ~failed => resized /\ (claim = "none" \/ deleting)
==============================================================================
