------------------------------- MODULE LvgTests -------------------------------
(***************************************************************************)
(* TestLvg (tests/01_sds_nc_test.go): volume groups are created, extended  *)
(* and deleted, the first two in a sub-test per node that                  *)
(* RunTestGroupNodes (util/kube_tester.go) runs one by one or in parallel; *)
(* removeTestDisks (tests/tools.go) cleans up before and after.  It may   *)
(* start on a cluster where an earlier run was killed.                     *)
(*                                                                         *)
(* The rules of package testing are external: a parallel sub-test pauses   *)
(* until the function that started it has returned; t.Run returns when all *)
(* its sub-tests have ended; Fatal and Skip end the test they are called   *)
(* on; a panic runs the clean-up of the parents, and then the process is   *)
(* gone.                                                                   *)
(***************************************************************************)
EXTENDS LvmStore

CONSTANTS
  Id,           \* the number of a node in its group
  Deb,          \* nodes of the groups "Deb...", which resize leaves out
  OldLvgs,      \* groups of which earlier runs may have left one
  Commands      \* command lines (see CommandsAssumption)

ASSUME IdAssumption == Id \in [Node -> Nat]
ASSUME NodesAssumption == Deb \subseteq Node /\ OldLvgs \subseteq Lvg
ASSUME CommandsAssumption ==
  Commands \subseteq
    [mode : {"flat", "tree", "parallel"},  \* TreeMode and Parallel
     skipOptional : BOOLEAN,               \* SkipOptional
     keepState : BOOLEAN,                  \* KeepState
     hv : BOOLEAN,                         \* HypervisorKubeConfig is set
     missing : BOOLEAN]                    \* a required group has no nodes

VARIABLES
  cmd,          \* the command line
  step,         \* where TestLvg is,
  stage,        \*   and where in that step
  body,         \* where the sub-test of each node is
  i,            \* its loop counter
  todo,         \* the devices it goes on to use
  target,       \* the group it resizes
  bad,          \* WaitLVGsReady has failed in this step
  created,      \* how "create" has ended
  panicked,
  clean         \* there were no groups when "create" began

testVars == <<body, i, todo, target>>
mainVars == <<step, stage, bad, created, panicked, clean>>
vars == <<cmd, storeVars, testVars, mainVars>>

Steps == {"prepare", "create", "resize", "delete", "cleanup", "end"}
CreatePcs == {"list", "vmbd", "bds", "lvg"}
ResizePcs == {"add", "find", "pick", "update", "poll"}
Ended == {"ok", "failed", "skipped", "absent"}

BdCount(n) == (Id[n] % 3) + 1
Ours == Named("e2e-01-")
Parallel == cmd.mode = "parallel"
Running(n) == body[n] \in CreatePcs \cup ResizePcs

NoBodies == [n \in Node |-> "none"]
FirstI == [n \in Node |-> 1]
NoTodo == [n \in Node |-> {}]
NoTarget == [n \in Node |-> <<"e2e-01-", CHOOSE b \in Bd : TRUE>>]

\* The disk an old group was made on: "create" numbers them from 1, "resize"
\* takes 21, the tests of 05 have random names.
DiskNames(l) == {NodeOf[l[2]]} \X (IF l[1] = "e2e-01-" THEN {1, 21} ELSE {0})

\* An earlier run on this cluster has been killed, or told to keep its state.
Init ==
  /\ cmd \in Commands
  /\ lvgs \in {{}} \cup {{l} : l \in OldLvgs}
  /\ \E name \in [lvgs -> Node \X {0, 1, 21}] :
       /\ \A l \in lvgs : name[l] \in DiskNames(l)
       /\ disk = IF cmd.hv THEN {<<name[l], l[2]>> : l \in lvgs}
                           ELSE {<<<<NodeOf[b], 0>>, b>> : b \in Bd}
  /\ bds = {d[2] : d \in disk}
  /\ sel = [l \in Lvg |-> IF l \in lvgs THEN {l[2]} ELSE {}]
  /\ held \in {sel, [l \in Lvg |-> {}]}
  /\ deleting = {}
  /\ step = "prepare" /\ stage = "lvgs"
  /\ body = NoBodies
  /\ i = FirstI /\ todo = NoTodo /\ target = NoTarget
  /\ bad = FALSE /\ created = "none" /\ panicked = FALSE
  /\ clean = FALSE
-----------------------------------------------------------------------------
(* TestLvg goes from step to step *)

\* The nodes a step has sub-tests for (MapLabelNodes): none, and no error, if
\* they cannot be listed.
StepNodes(s) ==
  IF s = "delete" THEN {{}} ELSE {IF s = "resize" THEN Node \ Deb ELSE Node, {}}

\* In parallel mode nothing runs before the function of the step returns, and
\* it waits for the groups before that.
Begin(s) ==
  /\ step' = s
  /\ stage' = IF s = "create" /\ Parallel THEN "wait"
              ELSE IF s \in {"create", "resize"} THEN "nodes" ELSE "lvgs"
  /\ \E nodes \in StepNodes(s) :
       body' = [n \in Node |-> IF n \in nodes THEN "none" ELSE "absent"]
  /\ i' = FirstI /\ todo' = NoTodo /\ target' = NoTarget
  /\ bad' = FALSE

\* t.Cleanup(cleanup01): what is known of the run no longer matters.
BeginCleanup ==
  /\ step' = IF cmd.keepState THEN "end" ELSE "cleanup"
  /\ stage' = "lvgs"
  /\ created' = "none" /\ clean' = FALSE

\* SkipNow and FailNow on the test of the step itself.
Aborted == cmd.mode = "flat" /\ \E n \in Node : body[n] \in {"failed", "skipped"}

\* A regression: the step ends without its sub-tests.
NodesStarted == \A n \in Node : body[n] # "none"

\* A regression: a sub-test that has failed is waited for.
NodesOk == \A n \in Node : body[n] \in {"ok", "absent"}

\* What t.Run waits for.
NodesDone ==
  \/ \A n \in Node : body[n] \in Ended
  \/ Aborted /\ \A n \in Node : ~Running(n)

Outcome(waitFailed) ==
  IF \/ waitFailed
     \/ cmd.missing /\ ~cmd.skipOptional /\ \E n \in Node : body[n] # "absent"
     \/ \E n \in Node : body[n] = "failed"
  THEN "failed"
  ELSE IF Aborted THEN "skipped" ELSE "passed"

EndStep(waitFailed) ==
  /\ created' = IF step = "create" THEN Outcome(waitFailed) ELSE created
  /\ Begin(IF step = "create" THEN "resize" ELSE "delete")

\* A sub-test begins: any, when they are parallel, or the next.
StartNode(n) ==
  /\ body[n] = "none"
  /\ \/ stage = "nodes" /\ (Parallel \/ (~Aborted /\ \A m \in Node : ~Running(m)))
     \/ panicked /\ Parallel /\ step = "cleanup"
  /\ body' = [body EXCEPT ![n] = IF step = "create" THEN "list"
                                 ELSE IF cmd.hv THEN "add" ELSE "find"]
  /\ UNCHANGED <<cmd, storeVars, i, todo, target, mainVars>>

EndNodes ==
  /\ stage = "nodes" /\ NodesDone
  /\ IF step = "create" /\ ~Parallel /\ ~Aborted
     THEN stage' = "wait" /\ UNCHANGED <<step, testVars, bad, created>>
     ELSE EndStep(bad)
  /\ UNCHANGED <<cmd, storeVars, panicked, clean>>

\* A regression: one group that is ready will do.
AnyReady == Ours = {} \/ \E l \in Ours : Ready(l)

\* WaitLVGsReady(LvgFilter{Name: WhereLike{testPrefix}}) sees no other group.
AllReady == \A l \in Ours : Ready(l)

WaitLVGsReady ==
  /\ stage = "wait" /\ step = "create"
  /\ \E failed \in BOOLEAN :
       /\ ~failed => AllReady
       /\ IF Parallel
          THEN stage' = "nodes" /\ bad' = failed /\ UNCHANGED <<step, testVars, created>>
          ELSE EndStep(failed)
  /\ UNCHANGED <<cmd, storeVars, panicked, clean>>
-----------------------------------------------------------------------------
(* directLVGCreate on a node *)

Goto(n, l) == body' = [body EXCEPT ![n] = l]
Skipf == IF cmd.skipOptional THEN "skipped" ELSE "failed"

\* A request that fails lists no groups.
ListOurs(n) ==
  /\ body[n] = "list"
  /\ \/ ListLVG("e2e-01-", n) # {} /\ Goto(n, Skipf)
     \/ Goto(n, IF cmd.hv THEN "vmbd" ELSE "bds")
  /\ UNCHANGED <<cmd, storeVars, i, todo, target, mainVars>>

AddDisk(n) ==
  /\ body[n] = "vmbd"
  /\ \/ /\ CreateVMBD(n, i[n])
        /\ Goto(n, IF i[n] < BdCount(n) THEN "vmbd" ELSE "bds")
        /\ i' = [i EXCEPT ![n] = @ + 1]
     \/ Goto(n, "failed") /\ UNCHANGED <<disk, i>>
  /\ UNCHANGED <<cmd, bds, lvgs, sel, held, deleting, todo, target, mainVars>>

\* The result of WaitVmbdAttached is not used; then 5 seconds for enough
\* devices.  Which come first does not depend on the tests.
PickBds(n) ==
  /\ body[n] = "bds"
  /\ \/ /\ \E B \in SUBSET ListBD(n) :
             Cardinality(B) = BdCount(n) /\ todo' = [todo EXCEPT ![n] = B]
        /\ Goto(n, "lvg")
     \/ Goto(n, "failed") /\ UNCHANGED todo
  /\ UNCHANGED <<cmd, storeVars, i, target, mainVars>>

CreateNext(n) ==
  /\ body[n] = "lvg"
  /\ \/ \E b \in todo[n] :
          /\ CreateLVG(<<"e2e-01-", b>>)
          /\ todo' = [todo EXCEPT ![n] = @ \ {b}]
          /\ Goto(n, IF todo[n] = {b} THEN "ok" ELSE "lvg")
     \/ Goto(n, "failed") /\ UNCHANGED <<storeVars, todo>>
  /\ UNCHANGED <<cmd, i, target, mainVars>>
-----------------------------------------------------------------------------
(* directLVGResize on a node *)

AddExtraDisk(n) ==
  /\ body[n] = "add"
  /\ CreateVMBD(n, 21) \/ UNCHANGED disk
  /\ Goto(n, "find")
  /\ UNCHANGED <<cmd, bds, lvgs, sel, held, deleting, i, todo, target, mainVars>>

FindLvg(n) ==
  /\ body[n] = "find"
  /\ \/ \E l \in ListLVG("e2e-01-", n) :
          Goto(n, "pick") /\ target' = [target EXCEPT ![n] = l]
     \/ Goto(n, "failed") /\ UNCHANGED target
  /\ UNCHANGED <<cmd, storeVars, i, todo, mainVars>>

PickExtra(n) ==
  /\ body[n] = "pick"
  /\ \/ \E b \in ListBD(n) :
          Goto(n, "update") /\ todo' = [todo EXCEPT ![n] = {b}]
     \/ Goto(n, Skipf) /\ UNCHANGED todo
  /\ UNCHANGED <<cmd, storeVars, i, target, mainVars>>

Extend(n) ==
  /\ body[n] = "update"
  /\ \/ UpdateLVG(target[n], todo[n]) /\ Goto(n, "poll")
     \/ Goto(n, "failed") /\ UNCHANGED storeVars
  /\ UNCHANGED <<cmd, i, todo, target, mainVars>>

SeeResized(n) ==
  /\ body[n] = "poll"
  /\ \/ todo[n] \subseteq held[target[n]] /\ Goto(n, "ok")
     \/ Goto(n, "failed")
  /\ UNCHANGED <<cmd, storeVars, i, todo, target, mainVars>>

Exit ==
  /\ step' = "end" /\ stage' = "lvgs"
  /\ body' = NoBodies /\ i' = FirstI /\ todo' = NoTodo /\ target' = NoTarget
  /\ created' = "none" /\ clean' = FALSE

\* GetLvg fails, and the group it has not returned is read.  The clean-up of
\* TestLvg runs beside the other nodes' sub-tests, unless it already does.
Panic(n) ==
  /\ body[n] = "poll"
  /\ IF panicked \/ cmd.keepState
     THEN Exit
     ELSE BeginCleanup /\ Goto(n, "failed") /\ UNCHANGED <<i, todo, target>>
  /\ panicked' = TRUE
  /\ UNCHANGED <<cmd, storeVars, bad>>
-----------------------------------------------------------------------------
(* directLVGDelete *)

\* If the groups cannot be listed, none is deleted.
DeleteLvgs ==
  /\ step = "delete" /\ stage = "lvgs"
  /\ \/ \E L \in {{}, Ours} : DeleteLVG(L) /\ stage' = "gone"
                              /\ UNCHANGED <<step, created, clean>>
     \/ /\ \E L \in SUBSET Ours : DeleteLVG(L)
        /\ BeginCleanup
  /\ UNCHANGED <<cmd, testVars, bad, panicked>>

\* A regression: the end of the 10 seconds is not an error.
GoneOrTimeout == TRUE

Gone == Ours = {}

SeeDeleted ==
  /\ step = "delete" /\ stage = "gone"
  /\ \/ /\ Gone
        /\ IF cmd.hv THEN stage' = "disks" /\ UNCHANGED <<step, created, clean>>
           ELSE BeginCleanup
     \/ BeginCleanup
  /\ UNCHANGED <<cmd, storeVars, testVars, bad, panicked>>

DeleteDisks ==
  /\ step = "delete" /\ stage = "disks"
  /\ \E D \in SUBSET disk : DeleteVmbd(D)
  /\ BeginCleanup
  /\ UNCHANGED <<cmd, testVars, bad, panicked>>
-----------------------------------------------------------------------------
(* removeTestDisks, before and after: no error of it is looked at, and how  *)
(* a wait ends, by what it waits for or by its time, makes no difference.   *)
(* The objects of a list are deleted up to the first request that fails;   *)
(* of the BlockDevices all or none, since the agent brings back some.       *)

Removing == step \in {"prepare", "cleanup"}

RemoveLvgs ==
  /\ Removing /\ stage = "lvgs"
  /\ \E L \in SUBSET Named("e2e-lvg-") : DeleteLVG(L)
  /\ stage' = IF cmd.hv THEN "disks" ELSE "bds"
  /\ UNCHANGED <<cmd, testVars, step, bad, created, panicked, clean>>

RemoveDisks ==
  /\ Removing /\ stage = "disks"
  /\ \E D \in SUBSET disk : DeleteVmbd(D)
  /\ stage' = "bds"
  /\ UNCHANGED <<cmd, testVars, step, bad, created, panicked, clean>>

RemoveBds ==
  /\ Removing /\ stage = "bds"
  /\ \E B \in {{}, bds} : DeleteBd(B)
  /\ IF step = "prepare"
     THEN Begin("create") /\ clean' = (lvgs = {}) /\ UNCHANGED created
     ELSE Exit /\ UNCHANGED bad
  /\ UNCHANGED <<cmd, panicked>>
-----------------------------------------------------------------------------
Main ==
  \/ (\E n \in Node : StartNode(n)) \/ EndNodes \/ WaitLVGsReady
  \/ DeleteLvgs \/ SeeDeleted \/ DeleteDisks
  \/ RemoveLvgs \/ RemoveDisks \/ RemoveBds

Body(n) ==
  \/ ListOurs(n) \/ AddDisk(n) \/ PickBds(n) \/ CreateNext(n)
  \/ AddExtraDisk(n) \/ FindLvg(n) \/ PickExtra(n) \/ Extend(n)
  \/ SeeResized(n) \/ Panic(n)

\* Bound: the agent rests when no sub-test is left to look at what it does.
Watched == step \notin {"cleanup", "end"} \/ (step = "cleanup" /\ panicked)

Next ==
  \/ Main
  \/ \E n \in Node : Body(n)
  \/ Watched /\ Agent /\ UNCHANGED <<cmd, testVars, mainVars>>

Spec == Init /\ [][Next]_vars

\* Every loop of the tests is bounded by RetrySec, and as long as a goroutine
\* can go on, one does; nothing is assumed of the agent.
FairSpec == Spec /\ WF_vars(Main \/ \E n \in Node : Body(n))
-----------------------------------------------------------------------------
TypeOK ==
  /\ disk \subseteq (Node \X Nat) \X Bd
  /\ bds \subseteq Bd /\ lvgs \subseteq Lvg /\ deleting \subseteq lvgs
  /\ sel \in [Lvg -> SUBSET Bd] /\ held \in [Lvg -> SUBSET Bd]
  /\ cmd \in Commands
  /\ step \in Steps /\ stage \in {"wait", "nodes", "lvgs", "gone", "disks", "bds"}
  /\ body \in [Node -> CreatePcs \cup ResizePcs \cup Ended \cup {"none"}]
  /\ i \in [Node -> Nat] /\ todo \in [Node -> SUBSET Bd]
  /\ target \in [Node -> Lvg]
  /\ created \in {"none", "passed", "failed", "skipped"}
  /\ bad \in BOOLEAN /\ panicked \in BOOLEAN /\ clean \in BOOLEAN

\* Sub-tests run in their own step only, one at a time unless parallel; the
\* one exception is a clean-up that a panic has started.
StepInv ==
  /\ step = "create" => stage \in {"wait", "nodes"}
  /\ step = "resize" => stage = "nodes"
  /\ step = "delete" => stage \in {"lvgs", "gone", "disks"}
  /\ step \in {"prepare", "cleanup", "end"} => stage \in {"lvgs", "disks", "bds"}
  /\ panicked => step \in {"cleanup", "end"}
  /\ \A n \in Node : Running(n) =>
       \/ step = "create" /\ stage = "nodes" /\ body[n] \in CreatePcs
       \/ step = "resize" /\ body[n] \in ResizePcs
       \/ step = "cleanup" /\ panicked /\ Parallel /\ body[n] \in ResizePcs
  /\ ~Parallel => \A m, n \in Node : Running(m) /\ Running(n) => m = n

\* A group has its first device selected; when "delete" comes to the disks, no
\* group of the test is left.
GroupInv ==
  /\ \A l \in lvgs : l[2] \in sel[l]
  /\ step = "delete" /\ stage = "disks" => Ours = {}

\* The runs about which OneGroupPerDevice speaks.
Calm ==
  /\ ~Parallel /\ clean
  /\ \/ step = "create"
     \/ step \in {"resize", "delete"} /\ created = "passed"

\* Why devices are not shared in them: a sub-test makes the first groups of
\* its node, of devices it has found free at once;
Homes ==
  \A l \in lvgs : l[1] = "e2e-01-" /\ \A b \in sel[l] : NodeOf[b] = NodeOf[l[2]]

Unclaimed(n) == \A b \in todo[n] : NodeOf[b] = n /\ b \notin Selected

CreateClaim(n) ==
  step = "create" =>
  /\ body[n] \in {"none", "list", "vmbd", "bds"} => \A l \in lvgs : NodeOf[l[2]] # n
  /\ body[n] = "lvg" => Unclaimed(n)

\* and as long as a group can still be extended, all that is selected on the
\* node is in its status.
ResizeClaim(n) ==
  step = "resize" =>
  /\ body[n] \in {"none", "add", "find", "pick", "update"} =>
       \A l \in lvgs : NodeOf[l[2]] = n => sel[l] = held[l]
  /\ body[n] \in {"pick", "update"} => NodeOf[target[n][2]] = n
  /\ body[n] = "update" => Unclaimed(n)

ClaimInv == Calm => Homes /\ \A n \in Node : CreateClaim(n) /\ ResizeClaim(n)

LvgInv == TypeOK /\ StepInv /\ GroupInv /\ ClaimInv

\* "resize" finds the groups of a "create" that has passed ready
\* (tests/01_sds_nc_test.go:44).
ReadyBeforeResize ==
  step = "resize" /\ created = "passed" => \A l \in Ours : held[l] # {}

\* It does so unless the sub-tests are parallel, with what runs before left
\* behind and whichever requests fail.
InOrder == ~Parallel => ReadyBeforeResize

\* No device is selected for two groups, on a cluster without old groups, as
\* long as "create" has not failed and sub-tests are not parallel: nobody
\* claims the devices that tests find consumable (01_sds_nc_test.go:120).
OneGroupPerDevice ==
  Calm => \A l, m \in lvgs : l # m => sel[l] \cap sel[m] = {}

\* The step "delete" (tests/01_sds_nc_test.go:150) takes disks away when no
\* group of the test is left on any of them, and none is made any more.
DisksAfterGroups ==
  [][step = "delete" /\ disk' # disk =>
       Ours = {} /\ \A n \in Node : ~Running(n)]_vars

\* TestLvg comes to its end, whatever the agent and the requests do.
TestEnds == (step # "end") ~> (step = "end")
==============================================================================
