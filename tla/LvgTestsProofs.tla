---------------------------- MODULE LvgTestsProofs ----------------------------
(***************************************************************************)
(* TestLvg for any nodes, devices, groups left behind and command lines:   *)
(* its sub-tests keep to their steps, what "create" has waited for is      *)
(* there in "resize", devices are not shared and disks go last.            *)
(***************************************************************************)
EXTENDS LvgTests, FiniteSetTheorems, TLAPS

(* LvgInv holds wherever TestLvg may start.                                  *)
LEMMA InitLvgInv == Init => LvgInv
<1> SUFFICES ASSUME Init PROVE LvgInv
  OBVIOUS
<1>1. lvgs \subseteq Lvg /\ sel \in [Lvg -> SUBSET Bd] /\ held \in [Lvg -> SUBSET Bd]
  BY NodesAssumption DEF Init, Lvg
<1>2. disk \subseteq (Node \X Nat) \X Bd /\ bds \subseteq Bd
  <2>1. PICK name \in [lvgs -> Node \X {0, 1, 21}] :
          disk = IF cmd.hv THEN {<<name[l], l[2]>> : l \in lvgs}
                           ELSE {<<<<NodeOf[b], 0>>, b>> : b \in Bd}
    BY DEF Init
  <2>2. disk \subseteq (Node \X Nat) \X Bd
    <3>1. ASSUME NEW l \in lvgs PROVE <<name[l], l[2]>> \in (Node \X Nat) \X Bd
      BY <1>1 DEF Lvg
    <3>2. ASSUME NEW b \in Bd PROVE <<<<NodeOf[b], 0>>, b>> \in (Node \X Nat) \X Bd
      BY NodeOfAssumption
    <3> QED
      BY <2>1, <3>1, <3>2
  <2>3. bds = {d[2] : d \in disk}
    BY DEF Init
  <2> QED
    BY <2>2, <2>3
<1>3. target \in [Node -> Lvg]
  <2>1. (CHOOSE b \in Bd : TRUE) \in Bd
    BY BdAssumption
  <2> QED
    BY <2>1 DEF Init, NoTarget, Lvg
<1>4. body \in [Node -> {"none"}] /\ i \in [Node -> Nat] /\ todo \in [Node -> SUBSET Bd]
  BY DEF Init, NoBodies, FirstI, NoTodo
<1>5. TypeOK
  BY <1>1, <1>2, <1>3, <1>4 DEF Init, TypeOK, Steps
<1>6. StepInv
  BY <1>4 DEF Init, StepInv, Running, CreatePcs, ResizePcs
<1>7. GroupInv /\ ClaimInv
  BY <1>1 DEF Init, GroupInv, ClaimInv, Calm
<1> QED
  BY <1>5, <1>6, <1>7 DEF LvgInv

(* What Begin puts into the variables of the sub-tests.                      *)
LEMMA BeginTypes ==
  ASSUME NEW s \in {"create", "resize", "delete"}, Begin(s)
  PROVE  /\ step' = s /\ stage' \in {"wait", "nodes", "lvgs"} /\ bad' = FALSE
         /\ s = "create" => stage' \in {"wait", "nodes"}
         /\ s = "resize" => stage' = "nodes"
         /\ s = "delete" => stage' = "lvgs"
         /\ body' \in [Node -> {"none", "absent"}]
         /\ i' \in [Node -> Nat] /\ todo' \in [Node -> SUBSET Bd]
         /\ target' \in [Node -> Lvg]
<1>1. body' \in [Node -> {"none", "absent"}]
  BY DEF Begin
<1>2. target' \in [Node -> Lvg]
  <2>1. (CHOOSE b \in Bd : TRUE) \in Bd
    BY BdAssumption
  <2> QED
    BY <2>1 DEF Begin, NoTarget, Lvg
<1> QED
  BY <1>1, <1>2 DEF Begin, FirstI, NoTodo

(* The same for Exit.                                                        *)
LEMMA ExitTypes ==
  ASSUME Exit
  PROVE  /\ step' = "end" /\ stage' = "lvgs" /\ created' = "none" /\ clean' = FALSE
         /\ body' \in [Node -> {"none"}]
         /\ i' \in [Node -> Nat] /\ todo' \in [Node -> SUBSET Bd]
         /\ target' \in [Node -> Lvg]
<1>1. (CHOOSE b \in Bd : TRUE) \in Bd
  BY BdAssumption
<1> QED
  BY <1>1 DEF Exit, NoBodies, FirstI, NoTodo, NoTarget, Lvg

(* Every step keeps the types: those of the store,                           *)
LEMMA NextStoreTypes ==
  ASSUME TypeOK, [Next]_vars
  PROVE  /\ disk' \subseteq (Node \X Nat) \X Bd
         /\ bds' \subseteq Bd /\ lvgs' \subseteq Lvg /\ deleting' \subseteq lvgs'
         /\ sel' \in [Lvg -> SUBSET Bd] /\ held' \in [Lvg -> SUBSET Bd]
         /\ cmd' = cmd
<1> DEFINE P == /\ disk' \subseteq (Node \X Nat) \X Bd
                /\ bds' \subseteq Bd /\ lvgs' \subseteq Lvg /\ deleting' \subseteq lvgs'
                /\ sel' \in [Lvg -> SUBSET Bd] /\ held' \in [Lvg -> SUBSET Bd]
                /\ cmd' = cmd
<1> SUFFICES P
  OBVIOUS
<1> USE DEF TypeOK, storeVars
<1>1. ASSUME NEW n \in Node, NEW k \in Nat, CreateVMBD(n, k)
      PROVE  disk' \subseteq (Node \X Nat) \X Bd
  <2>1. ASSUME Fresh(n) # {} PROVE (CHOOSE b \in Fresh(n) : TRUE) \in Bd
    <3>1. (CHOOSE b \in Fresh(n) : TRUE) \in Fresh(n)
      BY <2>1
    <3> QED
      BY <3>1 DEF Fresh
  <2>2. CASE UNCHANGED disk
    BY <2>2
  <2>3. CASE /\ Fresh(n) # {}
             /\ disk' = disk \cup {<<<<n, k>>, CHOOSE b \in Fresh(n) : TRUE>>}
    <3> DEFINE b == CHOOSE b \in Fresh(n) : TRUE
    <3>1. b \in Bd /\ disk' = disk \cup {<<<<n, k>>, b>>}
      BY <2>1, <2>3
    <3> HIDE DEF b
    <3>2. <<<<n, k>>, b>> \in (Node \X Nat) \X Bd
      BY <3>1
    <3> QED
      BY <3>1, <3>2
  <2> QED
    BY <1>1, <2>2, <2>3 DEF CreateVMBD
<1>2. ASSUME NEW n \in Node, AddDisk(n) PROVE P
  <2>1. disk' \subseteq (Node \X Nat) \X Bd
    BY <1>1, <1>2 DEF AddDisk
  <2> QED
    BY <1>2, <2>1 DEF AddDisk
<1>3. ASSUME NEW n \in Node, AddExtraDisk(n) PROVE P
  <2>1. disk' \subseteq (Node \X Nat) \X Bd
    BY <1>1, <1>3 DEF AddExtraDisk
  <2> QED
    BY <1>3, <2>1 DEF AddExtraDisk
<1>4. ASSUME NEW n \in Node, CreateNext(n) PROVE P
  <2>1. CASE UNCHANGED storeVars
    BY <1>4, <2>1 DEF CreateNext
  <2>2. ASSUME NEW b \in todo[n], CreateLVG(<<"e2e-01-", b>>) PROVE P
    <3>1. <<"e2e-01-", b>> \in Lvg /\ <<"e2e-01-", b>>[2] = b /\ b \in Bd
      BY DEF Lvg
    <3> QED
      BY <1>4, <2>2, <3>1 DEF CreateLVG, CreateNext
  <2> QED
    BY <1>4, <2>1, <2>2 DEF CreateNext
<1>5. ASSUME NEW n \in Node, Extend(n) PROVE P
  BY <1>5 DEF Extend, UpdateLVG
<1>6. ASSUME NEW n \in Node,
             \/ StartNode(n) \/ ListOurs(n) \/ PickBds(n) \/ FindLvg(n)
             \/ PickExtra(n) \/ SeeResized(n) \/ Panic(n)
      PROVE  P
  BY <1>6 DEF StartNode, ListOurs, PickBds, FindLvg, PickExtra, SeeResized, Panic
<1>7. CASE EndNodes \/ WaitLVGsReady \/ SeeDeleted \/ UNCHANGED vars
  BY <1>7 DEF EndNodes, WaitLVGsReady, SeeDeleted, vars
<1>8. CASE DeleteLvgs \/ RemoveLvgs
  BY <1>8 DEF DeleteLvgs, RemoveLvgs, DeleteLVG, Ours, Named
<1>9. CASE DeleteDisks \/ RemoveDisks \/ RemoveBds
  BY <1>9 DEF DeleteDisks, RemoveDisks, RemoveBds, DeleteVmbd, DeleteBd
<1>10. CASE Watched /\ Agent /\ UNCHANGED <<cmd, testVars, mainVars>>
  <2>1. CASE \E b \in Bd : Discover(b) \/ Vanish(b)
    BY <1>10, <2>1 DEF Discover, Vanish
  <2>2. CASE \E l \in Lvg : Reconcile(l) \/ Remove(l)
    BY <1>10, <2>2 DEF Reconcile, Remove
  <2> QED
    BY <1>10, <2>1, <2>2 DEF Agent
<1> QED
  BY <1>2, <1>3, <1>4, <1>5, <1>6, <1>7, <1>8, <1>9, <1>10 DEF Next, Main, Body

(* and those of the test.                                                    *)
LEMMA NextTypeOK == TypeOK /\ [Next]_vars => TypeOK'
<1> SUFFICES ASSUME TypeOK, [Next]_vars PROVE TypeOK'
  OBVIOUS
<1> DEFINE Q == /\ step' \in Steps
                /\ stage' \in {"wait", "nodes", "lvgs", "gone", "disks", "bds"}
                /\ body' \in [Node -> CreatePcs \cup ResizePcs \cup Ended \cup {"none"}]
                /\ i' \in [Node -> Nat] /\ todo' \in [Node -> SUBSET Bd]
                /\ target' \in [Node -> Lvg]
                /\ created' \in {"none", "passed", "failed", "skipped"}
                /\ bad' \in BOOLEAN /\ panicked' \in BOOLEAN /\ clean' \in BOOLEAN
<1> SUFFICES Q
  BY NextStoreTypes DEF TypeOK
<1> USE DEF TypeOK, testVars, mainVars, Steps, CreatePcs, ResizePcs, Ended, Goto
<1>1. ASSUME NEW n \in Node, StartNode(n) PROVE Q
  BY <1>1 DEF StartNode
<1>2. ASSUME NEW n \in Node, ListOurs(n) PROVE Q
  BY <1>2 DEF ListOurs, Skipf
<1>3. ASSUME NEW n \in Node, AddDisk(n) PROVE Q
  BY <1>3 DEF AddDisk
<1>4. ASSUME NEW n \in Node, PickBds(n) PROVE Q
  BY <1>4 DEF PickBds, ListBD
<1>5. ASSUME NEW n \in Node, CreateNext(n) PROVE Q
  BY <1>5 DEF CreateNext
<1>6. ASSUME NEW n \in Node, AddExtraDisk(n) \/ Extend(n) \/ SeeResized(n) PROVE Q
  BY <1>6 DEF AddExtraDisk, Extend, SeeResized
<1>7. ASSUME NEW n \in Node, FindLvg(n) PROVE Q
  BY <1>7 DEF FindLvg, ListLVG, Named
<1>8. ASSUME NEW n \in Node, PickExtra(n) PROVE Q
  BY <1>8 DEF PickExtra, ListBD, Skipf
<1>9. ASSUME NEW n \in Node, Panic(n) PROVE Q
  BY <1>9, ExitTypes DEF Panic, BeginCleanup
<1>10. CASE EndNodes \/ WaitLVGsReady
  <2>1. ASSUME NEW f \in BOOLEAN, EndStep(f)
        PROVE  /\ created' \in {"none", "passed", "failed", "skipped"}
               /\ step' \in Steps /\ stage' \in {"wait", "nodes", "lvgs"} /\ bad' = FALSE
               /\ body' \in [Node -> {"none", "absent"}]
               /\ i' \in [Node -> Nat] /\ todo' \in [Node -> SUBSET Bd]
               /\ target' \in [Node -> Lvg]
    <3> DEFINE s == IF step = "create" THEN "resize" ELSE "delete"
    <3>1. Begin(s) /\ s \in {"create", "resize", "delete"}
      BY <2>1 DEF EndStep
    <3>2. created' \in {"none", "passed", "failed", "skipped"}
      BY <2>1 DEF EndStep, Outcome
    <3> HIDE DEF s
    <3> QED
      BY <3>1, <3>2, BeginTypes
  <2>2. CASE EndNodes
    BY <2>1, <2>2 DEF EndNodes
  <2>3. CASE WaitLVGsReady
    BY <2>1, <2>3 DEF WaitLVGsReady
  <2> QED
    BY <1>10, <2>2, <2>3
<1>11. CASE DeleteLvgs \/ SeeDeleted \/ DeleteDisks
  BY <1>11 DEF DeleteLvgs, SeeDeleted, DeleteDisks, BeginCleanup
<1>12. CASE RemoveLvgs \/ RemoveDisks
  BY <1>12 DEF RemoveLvgs, RemoveDisks
<1>13. CASE RemoveBds
  BY <1>13, BeginTypes, ExitTypes DEF RemoveBds
<1>14. CASE (Watched /\ Agent /\ UNCHANGED <<cmd, testVars, mainVars>>) \/ UNCHANGED vars
  BY <1>14 DEF vars
<1> QED
  BY <1>1, <1>2, <1>3, <1>4, <1>5, <1>6, <1>7, <1>8, <1>9, <1>10, <1>11, <1>12,
     <1>13, <1>14 DEF Next, Main, Body

(* Every step keeps the sub-tests to their steps.                            *)
LEMMA NextStepInv == TypeOK /\ StepInv /\ [Next]_vars => StepInv'
<1> SUFFICES ASSUME TypeOK, StepInv, [Next]_vars PROVE StepInv'
  OBVIOUS
<1>0. cmd' = cmd
  BY NextStoreTypes
<1> DEFINE Quiet == \A n \in Node : ~Running(n)
<1> DEFINE Staged == /\ step' = "create" => stage' \in {"wait", "nodes"}
                     /\ step' = "resize" => stage' = "nodes"
                     /\ step' = "delete" => stage' \in {"lvgs", "gone", "disks"}
                     /\ step' \in {"prepare", "cleanup", "end"} =>
                          stage' \in {"lvgs", "disks", "bds"}
                     /\ panicked' => step' \in {"cleanup", "end"}
<1> USE DEF TypeOK, StepInv, testVars, mainVars, CreatePcs, ResizePcs, Goto, Running,
            Parallel
<1>1. ASSUME Staged, \A n \in Node : body'[n] \notin CreatePcs \cup ResizePcs
      PROVE  StepInv'
  BY <1>1
<1> DEFINE Fits(p) ==
      \/ step = "create" /\ stage = "nodes" /\ p \in CreatePcs
      \/ step = "resize" /\ p \in ResizePcs
      \/ step = "cleanup" /\ panicked /\ Parallel /\ p \in ResizePcs
<1>2. ASSUME NEW n \in Node, NEW pc, body' = [body EXCEPT ![n] = pc],
             UNCHANGED <<step, stage, panicked>>,
             pc \in CreatePcs \cup ResizePcs =>
               /\ Fits(pc)
               /\ Running(n) \/ Parallel \/ \A m \in Node : ~Running(m)
      PROVE  StepInv'
  BY <1>0, <1>2
<1>3. ASSUME NEW n \in Node, StartNode(n) PROVE StepInv'
  <2> DEFINE pc == IF step = "create" THEN "list" ELSE IF cmd.hv THEN "add" ELSE "find"
  <2>1. body' = [body EXCEPT ![n] = pc] /\ UNCHANGED <<step, stage, panicked>>
    BY <1>3 DEF StartNode
  <2>2. Fits(pc) /\ (Parallel \/ \A m \in Node : ~Running(m))
    BY <1>3 DEF StartNode, Steps
  <2> HIDE DEF pc
  <2> QED
    BY <1>2, <2>1, <2>2
<1>4. ASSUME NEW n \in Node, \/ ListOurs(n) \/ AddDisk(n) \/ PickBds(n) \/ CreateNext(n)
                             \/ AddExtraDisk(n) \/ FindLvg(n) \/ PickExtra(n)
                             \/ Extend(n) \/ SeeResized(n)
      PROVE  StepInv'
  <2>1. Running(n) /\ UNCHANGED <<step, stage, panicked>>
    BY <1>4 DEF ListOurs, AddDisk, PickBds, CreateNext, AddExtraDisk, FindLvg,
                PickExtra, Extend, SeeResized
  <2>2. CASE body[n] \in CreatePcs
    <3>1. PICK pc \in CreatePcs \cup Ended : body' = [body EXCEPT ![n] = pc]
      BY <1>4, <2>2 DEF ListOurs, AddDisk, PickBds, CreateNext, AddExtraDisk, FindLvg,
                        PickExtra, Extend, SeeResized, Skipf, Ended
    <3> QED
      BY <1>2, <2>1, <2>2, <3>1 DEF Ended
  <2>3. CASE body[n] \in ResizePcs
    <3>1. PICK pc \in ResizePcs \cup Ended : body' = [body EXCEPT ![n] = pc]
      BY <1>4, <2>3 DEF ListOurs, AddDisk, PickBds, CreateNext, AddExtraDisk, FindLvg,
                        PickExtra, Extend, SeeResized, Skipf, Ended
    <3> QED
      BY <1>2, <2>1, <2>3, <3>1 DEF Ended
  <2> QED
    BY <2>1, <2>2, <2>3
<1>5. ASSUME NEW n \in Node, Panic(n) PROVE StepInv'
  <2>1. CASE panicked \/ cmd.keepState
    BY <1>1, <1>5, <2>1, ExitTypes DEF Panic
  <2>2. CASE ~(panicked \/ cmd.keepState)
    BY <1>0, <1>5, <2>2 DEF Panic, BeginCleanup
  <2> QED
    BY <2>1, <2>2
<1>6. CASE EndNodes \/ WaitLVGsReady
  <2>1. ASSUME NEW f, EndStep(f), panicked' = panicked, step \in {"create", "resize"}
        PROVE  StepInv'
    <3> DEFINE s == IF step = "create" THEN "resize" ELSE "delete"
    <3>1. Begin(s) /\ s \in {"create", "resize", "delete"}
      BY <2>1 DEF EndStep
    <3> HIDE DEF s
    <3>2. Staged /\ body' \in [Node -> {"none", "absent"}]
      BY <2>1, <3>1, BeginTypes
    <3> QED
      BY <1>1, <3>2
  <2>2. CASE EndNodes
    <3>1. Quiet
      BY <2>2 DEF EndNodes, NodesDone, Ended
    <3>2. step \in {"create", "resize"}
      BY <2>2 DEF EndNodes, Steps
    <3>3. panicked' = panicked
      BY <2>2 DEF EndNodes
    <3>4. CASE stage' = "wait" /\ step = "create" /\ UNCHANGED <<step, testVars, bad, created>>
      BY <1>1, <3>1, <3>3, <3>4
    <3>5. CASE EndStep(bad)
      BY <2>1, <3>2, <3>3, <3>5
    <3> QED
      BY <2>2, <3>4, <3>5 DEF EndNodes
  <2>3. CASE WaitLVGsReady
    <3>1. Quiet /\ step = "create" /\ panicked' = panicked
      BY <2>3 DEF WaitLVGsReady
    <3>2. CASE stage' = "nodes" /\ UNCHANGED <<step, testVars, created>>
      BY <1>1, <3>1, <3>2
    <3>3. CASE \E f \in BOOLEAN : EndStep(f)
      BY <2>1, <3>1, <3>3
    <3> QED
      BY <2>3, <3>2, <3>3 DEF WaitLVGsReady
  <2> QED
    BY <1>6, <2>2, <2>3
<1>7. CASE DeleteLvgs \/ SeeDeleted \/ DeleteDisks
  BY <1>1, <1>7 DEF DeleteLvgs, SeeDeleted, DeleteDisks, BeginCleanup
<1>8. CASE RemoveLvgs \/ RemoveDisks
  BY <1>0, <1>8 DEF RemoveLvgs, RemoveDisks, Removing
<1>9. CASE RemoveBds
  <2>1. CASE step = "prepare"
    <3>1. Staged /\ body' \in [Node -> {"none", "absent"}]
      BY <1>9, <2>1, BeginTypes DEF RemoveBds
    <3> QED
      BY <1>1, <3>1
  <2>2. CASE step # "prepare"
    BY <1>1, <1>9, <2>2, ExitTypes DEF RemoveBds
  <2> QED
    BY <2>1, <2>2
<1>10. CASE (Watched /\ Agent /\ UNCHANGED <<cmd, testVars, mainVars>>) \/ UNCHANGED vars
  BY <1>0, <1>10 DEF vars
<1> QED
  BY <1>3, <1>4, <1>5, <1>6, <1>7, <1>8, <1>9, <1>10 DEF Next, Main, Body

(* What every sub-test that takes a step leaves alone.                       *)
LEMMA BodySteps ==
  ASSUME TypeOK, NEW n \in Node, Body(n)
  PROVE  /\ \A m \in Node : m # n => /\ body'[m] = body[m] \/ panicked'
                                     /\ todo'[m] = todo[m] \/ panicked'
                                     /\ target'[m] = target[m] \/ panicked'
         /\ cmd' = cmd
         /\ \/ panicked' /\ step' \in {"cleanup", "end"} /\ UNCHANGED storeVars
            \/ UNCHANGED <<step, stage, created, clean, panicked>>
<1> USE DEF TypeOK, testVars, mainVars, storeVars, Goto
<1>1. CASE ListOurs(n) \/ AddDisk(n) \/ PickBds(n) \/ CreateNext(n)
  BY <1>1 DEF ListOurs, AddDisk, PickBds, CreateNext
<1>2. CASE AddExtraDisk(n) \/ FindLvg(n) \/ PickExtra(n) \/ Extend(n) \/ SeeResized(n)
  BY <1>2 DEF AddExtraDisk, FindLvg, PickExtra, Extend, SeeResized
<1>3. CASE Panic(n)
  BY <1>3 DEF Panic, BeginCleanup, Exit
<1> QED
  BY <1>1, <1>2, <1>3 DEF Body

(* A group has its first device, and disks go last.                          *)
LEMMA NextGroupInv == TypeOK /\ StepInv /\ GroupInv /\ [Next]_vars => GroupInv'
<1> SUFFICES ASSUME TypeOK, StepInv, GroupInv, [Next]_vars PROVE GroupInv'
  OBVIOUS
<1> USE DEF TypeOK, GroupInv, Ours, Named, storeVars, testVars, mainVars
<1>1. ASSUME UNCHANGED <<lvgs, sel>>, step' # "delete" \/ stage' # "disks"
      PROVE  GroupInv'
  BY <1>1
<1>2. ASSUME NEW n \in Node, CreateNext(n) PROVE GroupInv'
  <2>1. CASE UNCHANGED storeVars
    BY <1>2, <2>1 DEF CreateNext
  <2>2. ASSUME NEW b \in todo[n], CreateLVG(<<"e2e-01-", b>>) PROVE GroupInv'
    <3>1. step = "create" /\ step' = step
      BY <1>2 DEF CreateNext, StepInv, Running, CreatePcs, ResizePcs
    <3>2. <<"e2e-01-", b>> \in Lvg
      BY DEF Lvg
    <3> QED
      BY <2>2, <3>1, <3>2 DEF CreateLVG
  <2> QED
    BY <1>2, <2>1, <2>2 DEF CreateNext
<1>3. ASSUME NEW n \in Node, Extend(n) PROVE GroupInv'
  BY <1>3 DEF Extend, UpdateLVG
<1>4. ASSUME NEW n \in Node, AddDisk(n) \/ AddExtraDisk(n) \/ Panic(n) PROVE GroupInv'
  BY <1>4 DEF AddDisk, AddExtraDisk, Panic, BeginCleanup, Exit
<1>5. ASSUME NEW n \in Node, \/ StartNode(n) \/ ListOurs(n) \/ PickBds(n) \/ FindLvg(n)
                             \/ PickExtra(n) \/ SeeResized(n)
      PROVE  GroupInv'
  BY <1>5 DEF StartNode, ListOurs, PickBds, FindLvg, PickExtra, SeeResized
<1>6. CASE EndNodes \/ WaitLVGsReady
  BY <1>1, <1>6 DEF EndNodes, WaitLVGsReady, EndStep, Begin
<1>7. CASE DeleteLvgs \/ DeleteDisks
  BY <1>1, <1>7 DEF DeleteLvgs, DeleteDisks, BeginCleanup, DeleteLVG, DeleteVmbd
<1>8. CASE SeeDeleted
  BY <1>1, <1>8 DEF SeeDeleted, BeginCleanup, Gone
<1>9. CASE RemoveLvgs \/ RemoveDisks \/ RemoveBds
  BY <1>1, <1>9 DEF RemoveLvgs, RemoveDisks, RemoveBds, Removing, DeleteLVG,
                    DeleteVmbd, DeleteBd, Begin, Exit
<1>10. CASE Watched /\ Agent /\ UNCHANGED <<cmd, testVars, mainVars>>
  <2>1. CASE \E b \in Bd : Discover(b) \/ Vanish(b)
    BY <1>10, <2>1 DEF Discover, Vanish
  <2>2. CASE \E l \in Lvg : Reconcile(l) \/ Remove(l)
    BY <1>10, <2>2 DEF Reconcile, Remove
  <2> QED
    BY <1>10, <2>1, <2>2 DEF Agent
<1>11. CASE UNCHANGED vars
  BY <1>11 DEF vars
<1> QED
  BY <1>2, <1>3, <1>4, <1>5, <1>6, <1>7, <1>8, <1>9, <1>10, <1>11 DEF Next, Main, Body

(* Without parallel sub-tests, TestLvg goes on to "resize" as if all had     *)
(* passed only after WaitLVGsReady has seen all groups of the test ready.    *)
LEMMA ResizeBegins ==
  ASSUME TypeOK, StepInv, [Next]_vars, ~Parallel, step # "resize",
         step' = "resize", created' = "passed"
  PROVE  /\ step = "create" /\ AllReady /\ UNCHANGED <<lvgs, sel, held, clean>>
         /\ body' \in [Node -> {"none", "absent"}]
<1> USE DEF TypeOK, StepInv, testVars, mainVars, storeVars
<1>1. CASE EndNodes
  <2>1. step = "create" /\ EndStep(bad)
    BY <1>1 DEF EndNodes, EndStep, Begin
  <2>2. Aborted
    BY <1>1, <2>1 DEF EndNodes, EndStep, Begin
  <2>3. Outcome(bad) # "passed"
    BY <2>2 DEF Outcome
  <2> QED
    BY <2>1, <2>3 DEF EndStep
<1>2. CASE WaitLVGsReady
  <2>1. PICK f \in BOOLEAN : (~f => AllReady) /\ step = "create" /\ EndStep(f)
    BY <1>2 DEF WaitLVGsReady
  <2>2. ~f
    BY <2>1 DEF EndStep, Outcome
  <2>3. body' \in [Node -> {"none", "absent"}]
    BY <2>1, BeginTypes DEF EndStep
  <2> QED
    BY <1>2, <2>1, <2>2, <2>3 DEF WaitLVGsReady
<1>3. ASSUME NEW n \in Node, StartNode(n) \/ Body(n) PROVE FALSE
  BY <1>3, BodySteps DEF StartNode
<1>4. CASE DeleteLvgs \/ SeeDeleted \/ DeleteDisks
  BY <1>4 DEF DeleteLvgs, SeeDeleted, DeleteDisks, BeginCleanup
<1>5. CASE RemoveLvgs \/ RemoveDisks \/ RemoveBds
  BY <1>5 DEF RemoveLvgs, RemoveDisks, RemoveBds, Removing, Begin, Exit
<1>6. CASE (Watched /\ Agent /\ UNCHANGED <<cmd, testVars, mainVars>>) \/ UNCHANGED vars
  BY <1>6 DEF vars
<1> QED
  BY <1>1, <1>2, <1>3, <1>4, <1>5, <1>6 DEF Next, Main

(* In "resize" the groups stay those that "create" has made.                 *)
LEMMA NextInOrder ==
  TypeOK /\ StepInv /\ GroupInv /\ InOrder /\ [Next]_vars => InOrder'
<1> SUFFICES ASSUME TypeOK, StepInv, GroupInv, InOrder, [Next]_vars, ~Parallel,
                    step' = "resize", created' = "passed",
                    NEW l \in Ours'
             PROVE  held'[l] # {}
  BY NextStoreTypes DEF InOrder, ReadyBeforeResize, Parallel
<1> USE DEF TypeOK, Ours, Named, storeVars, testVars, mainVars
<1>1. CASE step # "resize"
  BY <1>1, ResizeBegins DEF AllReady, Ready
<1>2. CASE step = "resize" /\ created = "passed" /\ UNCHANGED <<lvgs, held>>
  BY <1>2 DEF InOrder, ReadyBeforeResize
<1>3. CASE step = "resize" /\ ~(created = "passed" /\ UNCHANGED <<lvgs, held>>)
  <2>1. ASSUME NEW n \in Node, CreateNext(n) PROVE FALSE
    BY <1>3, <2>1 DEF CreateNext, StepInv, Running, CreatePcs, ResizePcs
  <2>2. ASSUME NEW n \in Node, \/ ListOurs(n) \/ AddDisk(n) \/ PickBds(n) \/ AddExtraDisk(n)
                               \/ FindLvg(n) \/ PickExtra(n) \/ SeeResized(n)
        PROVE  FALSE
    BY <1>3, <2>2 DEF ListOurs, AddDisk, PickBds, AddExtraDisk, FindLvg, PickExtra, SeeResized
  <2>3. ASSUME NEW n \in Node, Extend(n) PROVE FALSE
    BY <1>3, <2>3 DEF Extend, UpdateLVG
  <2>4. ASSUME NEW n \in Node, Panic(n) PROVE FALSE
    BY <2>4 DEF Panic, BeginCleanup, Exit
  <2>5. CASE EndNodes \/ WaitLVGsReady \/ \E n \in Node : StartNode(n)
    BY <1>3, <2>5 DEF EndNodes, WaitLVGsReady, EndStep, Begin, StartNode
  <2>6. CASE DeleteLvgs \/ SeeDeleted \/ DeleteDisks
    BY <1>3, <2>6 DEF DeleteLvgs, SeeDeleted, DeleteDisks
  <2>7. CASE RemoveLvgs \/ RemoveDisks \/ RemoveBds
    BY <1>3, <2>7 DEF RemoveLvgs, RemoveDisks, RemoveBds, Removing
  <2>8. CASE Watched /\ Agent /\ UNCHANGED <<cmd, testVars, mainVars>>
    <3>1. CASE \E b \in Bd : Discover(b) \/ Vanish(b)
      BY <1>3, <2>8, <3>1 DEF Discover, Vanish
    <3>2. ASSUME NEW m \in Lvg, Reconcile(m) PROVE held'[l] # {}
      <4>1. created = "passed" /\ l \in lvgs /\ held[l] # {} /\ m[2] \in sel[m]
        BY <2>8, <1>3, <3>2 DEF Reconcile, InOrder, ReadyBeforeResize, GroupInv
      <4> QED
        BY <3>2, <4>1 DEF Reconcile
    <3>3. ASSUME NEW m \in Lvg, Remove(m) PROVE held'[l] # {}
      <4>1. created = "passed" /\ l \in lvgs /\ held[l] # {} /\ l # m
        BY <2>8, <1>3, <3>3 DEF Remove, InOrder, ReadyBeforeResize
      <4> QED
        BY <3>3, <4>1 DEF Remove
    <3> QED
      BY <2>8, <3>1, <3>2, <3>3 DEF Agent
  <2>9. CASE UNCHANGED vars
    BY <1>3, <2>9 DEF vars
  <2> QED
    BY <2>1, <2>2, <2>3, <2>4, <2>5, <2>6, <2>7, <2>8, <2>9 DEF Next, Main, Body
<1> QED
  BY <1>1, <1>2, <1>3

(* The invariant that makes OneGroupPerDevice inductive.                     *)
IInv == LvgInv /\ InOrder /\ OneGroupPerDevice

(* A calm run has been calm since "create" began, without groups.            *)
LEMMA CalmBefore ==
  ASSUME LvgInv, [Next]_vars, Calm'
  PROVE  \/ Calm /\ step' = step
         \/ Calm /\ step = "create" /\ step' = "resize" /\ AllReady
              /\ UNCHANGED <<lvgs, sel, held>>
              /\ body' \in [Node -> {"none", "absent"}]
         \/ Calm /\ step' = "delete" /\ UNCHANGED <<lvgs, sel, held>>
         \/ step = "prepare" /\ lvgs' = {} /\ body' \in [Node -> {"none", "absent"}]
<1> USE DEF LvgInv, TypeOK, Calm, testVars, mainVars, storeVars
<1>0. ~Parallel /\ cmd' = cmd
  BY NextStoreTypes DEF Parallel
<1>1. CASE EndNodes \/ WaitLVGsReady
  <2>1. clean' = clean /\ UNCHANGED <<lvgs, sel, held>> /\ step \in {"create", "resize"}
    BY <1>1 DEF EndNodes, WaitLVGsReady, StepInv, Steps
  <2>2. CASE step = "create" /\ step' = "resize"
    BY <1>0, <2>1, <2>2, ResizeBegins
  <2>3. CASE ~(step = "create" /\ step' = "resize")
    BY <1>0, <1>1, <2>1, <2>3 DEF EndNodes, WaitLVGsReady, EndStep, Begin
  <2> QED
    BY <2>2, <2>3
<1>2. ASSUME NEW n \in Node, StartNode(n) \/ Body(n) PROVE Calm /\ step' = step
  BY <1>0, <1>2, BodySteps DEF StartNode
<1>3. CASE DeleteLvgs \/ SeeDeleted \/ DeleteDisks
  BY <1>0, <1>3 DEF DeleteLvgs, SeeDeleted, DeleteDisks, BeginCleanup
<1>4. CASE RemoveLvgs \/ RemoveDisks
  BY <1>4 DEF RemoveLvgs, RemoveDisks, Removing
<1>5. CASE RemoveBds
  <2>1. CASE step = "prepare"
    BY <1>5, <2>1, BeginTypes DEF RemoveBds, DeleteBd
  <2>2. CASE step # "prepare"
    BY <1>5, <2>2, ExitTypes DEF RemoveBds
  <2> QED
    BY <2>1, <2>2
<1>6. CASE (Watched /\ Agent /\ UNCHANGED <<cmd, testVars, mainVars>>) \/ UNCHANGED vars
  BY <1>0, <1>6 DEF vars
<1> QED
  BY <1>1, <1>2, <1>3, <1>4, <1>5, <1>6 DEF Next, Main

(* All devices selected on a node are selected by groups made on it.         *)
LEMMA SelectedHome ==
  ASSUME TypeOK, Homes, NEW b \in Selected
  PROVE  \E l \in lvgs : b \in sel[l] /\ NodeOf[l[2]] = NodeOf[b]
BY DEF Selected, Homes

Claims == Homes /\ (\A n \in Node : CreateClaim(n) /\ ResizeClaim(n))
Disjoint == \A l, m \in lvgs : l # m => sel[l] \cap sel[m] = {}

(* A sub-test that selects devices keeps the claims: "create" with a group   *)
(* of its own,                                                               *)
LEMMA CreateKeepsClaims ==
  ASSUME TypeOK, StepInv, Claims, Disjoint, NEW n \in Node, CreateNext(n)
  PROVE  Claims' /\ Disjoint'
<1> USE DEF TypeOK, Claims, Homes, Unclaimed, CreateClaim, ResizeClaim, Disjoint, Selected,
            storeVars, mainVars, Goto
<1>1. step = "create" /\ step' = step /\ body[n] = "lvg" /\ target' = target
  BY DEF CreateNext, StepInv, Running, CreatePcs, ResizePcs
<1>2. CASE Goto(n, "failed") /\ UNCHANGED <<storeVars, todo>>
  BY <1>1, <1>2
<1>3. ASSUME NEW b \in todo[n], CreateLVG(<<"e2e-01-", b>>),
             todo' = [todo EXCEPT ![n] = @ \ {b}],
             Goto(n, IF todo[n] = {b} THEN "ok" ELSE "lvg")
      PROVE  Claims' /\ Disjoint'
  <2> DEFINE l == <<"e2e-01-", b>>
  <2>1. l \in Lvg /\ l[1] = "e2e-01-" /\ l[2] = b /\ b \in Bd
    BY DEF Lvg
  <2>2. /\ NodeOf[b] = n /\ \A m \in lvgs : b \notin sel[m]
        /\ \A c \in todo[n] : NodeOf[c] = n /\ \A m \in lvgs : c \notin sel[m]
    BY <1>1
  <2>3. /\ l \notin lvgs /\ lvgs' = lvgs \cup {l}
        /\ sel'[l] = {b} /\ \A m \in lvgs : sel'[m] = sel[m]
    BY <1>3, <2>1 DEF CreateLVG
  <2> HIDE DEF l
  <2>4. Homes'
    BY <2>1, <2>2, <2>3
  <2>5. Disjoint'
    BY <2>1, <2>2, <2>3
  <2>6. ASSUME NEW m \in Node PROVE CreateClaim(m)'
    <3>1. CASE m = n
      BY <1>1, <1>3, <2>1, <2>2, <2>3, <3>1
    <3>2. CASE m # n
      <4>1. body'[m] = body[m] /\ todo'[m] = todo[m]
        BY <1>3, <3>2
      <4>2. ASSUME body[m] \in {"none", "list", "vmbd", "bds"}
            PROVE  \A k \in lvgs' : NodeOf[k[2]] # m
        BY <1>1, <2>1, <2>2, <2>3, <3>2, <4>2
      <4>3. ASSUME body[m] = "lvg", NEW c \in todo[m]
            PROVE  NodeOf[c] = m /\ \A k \in lvgs' : c \notin sel'[k]
        BY <1>1, <2>1, <2>2, <2>3, <3>2, <4>3
      <4> QED
        BY <4>1, <4>2, <4>3
    <3> QED
      BY <3>1, <3>2
  <2> QED
    BY <1>1, <2>4, <2>5, <2>6
<1> QED
  BY <1>2, <1>3 DEF CreateNext

(* "resize" with one device more for a group of its node.                    *)
LEMMA ResizeKeepsClaims ==
  ASSUME TypeOK, Claims, Disjoint, NEW n \in Node, Extend(n),
         step = "resize"
  PROVE  Claims' /\ Disjoint'
<1> USE DEF TypeOK, Claims, Homes, Unclaimed, CreateClaim, ResizeClaim, Disjoint, Selected,
            storeVars, mainVars, Goto
<1> DEFINE l == target[n]
<1>1. body[n] = "update" /\ UNCHANGED <<step, todo, target>>
  BY DEF Extend
<1>2. CASE Goto(n, "failed") /\ UNCHANGED storeVars
  BY <1>1, <1>2
<1>3. CASE UpdateLVG(l, todo[n]) /\ Goto(n, "poll")
  <2>1. l \in lvgs /\ l \in Lvg /\ NodeOf[l[2]] = n
    BY <1>1, <1>3 DEF UpdateLVG
  <2>2. \A c \in todo[n] : NodeOf[c] = n /\ \A m \in lvgs : c \notin sel[m]
    BY <1>1
  <2>3. /\ lvgs' = lvgs /\ held' = held
        /\ sel'[l] = sel[l] \cup todo[n] /\ \A m \in lvgs : m # l => sel'[m] = sel[m]
    BY <1>3, <2>1 DEF UpdateLVG
  <2> HIDE DEF l
  <2>4. Homes' /\ Disjoint'
    BY <2>1, <2>2, <2>3
  <2>5. ASSUME NEW m \in Node PROVE ResizeClaim(m)'
    <3>1. CASE m = n
      BY <1>3, <3>1
    <3>2. CASE m # n
      <4>1. body'[m] = body[m]
        BY <1>3, <3>2
      <4>2. ASSUME NEW k \in lvgs, NodeOf[k[2]] = m PROVE sel'[k] = sel[k]
        BY <2>1, <2>3, <3>2, <4>2
      <4>3. ASSUME body[m] = "update", NEW c \in todo[m]
            PROVE  NodeOf[c] = m /\ \A k \in lvgs' : c \notin sel'[k]
        BY <1>1, <2>1, <2>2, <2>3, <3>2, <4>3
      <4> QED
        BY <1>1, <2>3, <4>1, <4>2, <4>3
    <3> QED
      BY <3>1, <3>2
  <2> QED
    BY <1>1, <2>4, <2>5
<1> QED
  BY <1>2, <1>3 DEF Extend

(* What a sub-test finds consumable nobody has selected.                     *)
LEMMA FreeIsUnclaimed ==
  ASSUME TypeOK, Homes, NEW n \in Node, NEW b \in ListBD(n),
         \A l \in lvgs : NodeOf[l[2]] = n => sel[l] = held[l]
  PROVE  NodeOf[b] = n /\ b \notin Selected
<1>1. NodeOf[b] = n /\ \A l \in lvgs : b \notin held[l]
  BY DEF ListBD, Held
<1>2. ASSUME b \in Selected PROVE FALSE
  <2>1. PICK l \in lvgs : b \in sel[l] /\ NodeOf[l[2]] = NodeOf[b]
    BY <1>2, SelectedHome
  <2> QED
    BY <1>1, <2>1
<1> QED
  BY <1>1, <1>2

(* While a calm run stays in its step, every step keeps the claims.          *)
LEMMA StepKeepsClaims ==
  ASSUME LvgInv, [Next]_vars, Calm, Calm', step' = step, Claims, Disjoint
  PROVE  Claims' /\ Disjoint'
<1> USE DEF LvgInv, TypeOK, Claims, Homes, Unclaimed, CreateClaim, ResizeClaim, Disjoint,
            Selected, storeVars, testVars, mainVars, Goto
<1>1. ASSUME NEW n \in Node, StartNode(n) PROVE Claims' /\ Disjoint'
  BY <1>1 DEF StartNode, StepInv, Calm
<1>2. ASSUME NEW n \in Node, ListOurs(n) \/ AddDisk(n) PROVE Claims' /\ Disjoint'
  BY <1>2 DEF ListOurs, AddDisk, Skipf
<1>3. ASSUME NEW n \in Node, AddExtraDisk(n) \/ SeeResized(n) PROVE Claims' /\ Disjoint'
  BY <1>3 DEF AddExtraDisk, SeeResized
<1>4. ASSUME NEW n \in Node, PickBds(n) PROVE Claims' /\ Disjoint'
  <2>1. step = "create"
    BY <1>4 DEF PickBds, StepInv, Running, CreatePcs, ResizePcs
  <2>2. \A b \in ListBD(n) : NodeOf[b] = n /\ b \notin Selected
    BY <1>4, <2>1, FreeIsUnclaimed DEF PickBds
  <2>3. body'[n] = "lvg" => todo'[n] \subseteq ListBD(n)
    BY <1>4 DEF PickBds
  <2>4. \A m \in Node : m # n => body'[m] = body[m] /\ todo'[m] = todo[m]
    BY <1>4 DEF PickBds
  <2>5. body'[n] \in {"lvg", "failed"} /\ UNCHANGED <<lvgs, sel, held, step>>
    BY <1>4 DEF PickBds
  <2> HIDE DEF Goto
  <2> QED
    BY <2>1, <2>2, <2>3, <2>4, <2>5
<1>5. ASSUME NEW n \in Node, CreateNext(n) PROVE Claims' /\ Disjoint'
  BY <1>5, CreateKeepsClaims
<1>6. ASSUME NEW n \in Node, FindLvg(n) PROVE Claims' /\ Disjoint'
  BY <1>6 DEF FindLvg, ListLVG, Named
<1>7. ASSUME NEW n \in Node, PickExtra(n) PROVE Claims' /\ Disjoint'
  <2>1. step = "resize"
    BY <1>7 DEF PickExtra, StepInv, Calm, Running, CreatePcs, ResizePcs
  <2>2. \A b \in ListBD(n) : NodeOf[b] = n /\ b \notin Selected
    BY <1>7, <2>1, FreeIsUnclaimed DEF PickExtra
  <2>3. body'[n] = "update" => todo'[n] \subseteq ListBD(n)
    BY <1>7 DEF PickExtra, Skipf
  <2>4. \A m \in Node : m # n => body'[m] = body[m] /\ todo'[m] = todo[m]
    BY <1>7 DEF PickExtra
  <2>5. /\ body[n] = "pick" /\ body'[n] \in {"update", "skipped", "failed"}
        /\ UNCHANGED <<lvgs, sel, held, step, target>>
    BY <1>7 DEF PickExtra, Skipf
  <2> HIDE DEF Goto
  <2> QED
    BY <2>1, <2>2, <2>3, <2>4, <2>5
<1>8. ASSUME NEW n \in Node, Extend(n) PROVE Claims' /\ Disjoint'
  <2>1. step = "resize"
    BY <1>8 DEF Extend, StepInv, Calm, Running, CreatePcs, ResizePcs
  <2> QED
    BY <1>8, <2>1, ResizeKeepsClaims
<1>9. ASSUME NEW n \in Node, Panic(n) PROVE FALSE
  BY <1>9 DEF Panic, BeginCleanup, Exit, Calm
<1>10. CASE EndNodes \/ WaitLVGsReady
  BY <1>10 DEF EndNodes, WaitLVGsReady, EndStep, Begin, StepInv
<1>11. CASE DeleteLvgs \/ SeeDeleted \/ DeleteDisks
  BY <1>11 DEF DeleteLvgs, SeeDeleted, DeleteDisks, DeleteLVG, DeleteVmbd
<1>12. CASE RemoveLvgs \/ RemoveDisks \/ RemoveBds
  BY <1>12 DEF RemoveLvgs, RemoveDisks, RemoveBds, Removing, Calm
<1>13. CASE Watched /\ Agent /\ UNCHANGED <<cmd, testVars, mainVars>>
  <2>1. CASE \E b \in Bd : Discover(b) \/ Vanish(b)
    BY <1>13, <2>1 DEF Discover, Vanish
  <2>2. ASSUME NEW l \in Lvg, Reconcile(l) PROVE Claims' /\ Disjoint'
    BY <1>13, <2>2 DEF Reconcile
  <2>3. ASSUME NEW l \in Lvg, Remove(l) PROVE Claims' /\ Disjoint'
    <3>1. /\ lvgs' = lvgs \ {l}
          /\ \A m \in lvgs' : sel'[m] = sel[m] /\ held'[m] = held[m]
          /\ UNCHANGED <<step, body, todo, target>>
      BY <1>13, <2>3 DEF Remove
    <3> QED
      BY <3>1
  <2> QED
    BY <1>13, <2>1, <2>2, <2>3 DEF Agent
<1>14. CASE UNCHANGED vars
  BY <1>14 DEF vars
<1> QED
  BY <1>1, <1>2, <1>3, <1>4, <1>5, <1>6, <1>7, <1>8, <1>9, <1>10, <1>11, <1>12,
     <1>13, <1>14 DEF Next, Main, Body

(* So does every step of every run.                                          *)
LEMMA NextClaims == IInv /\ [Next]_vars => ClaimInv' /\ OneGroupPerDevice'
<1> SUFFICES ASSUME IInv, [Next]_vars, Calm' PROVE Claims' /\ Disjoint'
  BY DEF ClaimInv, OneGroupPerDevice, Claims, Disjoint
<1>1. Calm => Claims /\ Disjoint
  BY DEF IInv, LvgInv, ClaimInv, OneGroupPerDevice, Claims, Disjoint
<1>2. TypeOK /\ TypeOK' /\ LvgInv
  BY NextTypeOK DEF IInv, LvgInv
<1> USE DEF Claims, Homes, Unclaimed, CreateClaim, ResizeClaim, Disjoint, Selected
<1>3. CASE Calm /\ step' = step
  BY <1>1, <1>2, <1>3, StepKeepsClaims
<1>4. CASE /\ Calm /\ step' = "resize" /\ AllReady /\ UNCHANGED <<lvgs, sel, held>>
           /\ body' \in [Node -> {"none", "absent"}]
  BY <1>1, <1>4 DEF AllReady, Ready, Ours, Named
<1>5. CASE Calm /\ step' = "delete" /\ UNCHANGED <<lvgs, sel, held>>
  BY <1>1, <1>5
<1>6. CASE lvgs' = {} /\ body' \in [Node -> {"none", "absent"}]
  BY <1>6
<1> QED
  BY <1>2, <1>3, <1>4, <1>5, <1>6, CalmBefore

(* IInv is an inductive invariant.                                           *)
LEMMA Inductive == Spec => []IInv
<1>1. Init => IInv
  <2>1. Init => InOrder /\ OneGroupPerDevice
    BY DEF Init, InOrder, ReadyBeforeResize, OneGroupPerDevice, Calm
  <2> QED
    BY <2>1, InitLvgInv DEF IInv
<1>2. IInv /\ [Next]_vars => IInv'
  <2> SUFFICES ASSUME IInv, [Next]_vars PROVE IInv'
    OBVIOUS
  <2>1. TypeOK' /\ StepInv' /\ GroupInv' /\ InOrder'
    BY NextTypeOK, NextStepInv, NextGroupInv, NextInOrder DEF IInv, LvgInv
  <2>2. ClaimInv' /\ OneGroupPerDevice'
    BY NextClaims
  <2> QED
    BY <2>1, <2>2 DEF IInv, LvgInv
<1> QED
  BY <1>1, <1>2, PTL DEF Spec

(* Sub-tests stay within their step and, unless parallel, one at a time; a   *)
(* group keeps its first device, and the claims hold (directLVGCreate,       *)
(* directLVGResize, RunTestGroupNodes).                                      *)
THEOREM LvgInvariant == Spec => []LvgInv
<1>1. IInv => LvgInv
  BY DEF IInv
<1> QED
  BY <1>1, Inductive, PTL

(* Unless sub-tests are parallel, "resize" finds all groups of a "create"    *)
(* that has passed with nodes in their status (tests/01_sds_nc_test.go:44),  *)
(* whatever was there before and whichever requests fail.                    *)
THEOREM ResizeInOrder == Spec => []InOrder
<1>1. IInv => InOrder
  BY DEF IInv
<1> QED
  BY <1>1, Inductive, PTL

(* On a cluster without old groups no device is ever selected for two, as    *)
(* long as "create" has passed and sub-tests are not parallel, although      *)
(* nobody claims the devices that ListBD finds consumable.                   *)
THEOREM DevicesNotShared == Spec => []OneGroupPerDevice
<1>1. IInv => OneGroupPerDevice
  BY DEF IInv
<1> QED
  BY <1>1, Inductive, PTL

(* directLVGDelete takes disks away only when no group of the test is left   *)
(* and no sub-test can make one.                                             *)
THEOREM DisksGoLast == Spec => DisksAfterGroups
<1>1. IInv /\ [Next]_vars =>
        [step = "delete" /\ disk' # disk =>
           Ours = {} /\ \A n \in Node : ~Running(n)]_vars
  <2> SUFFICES ASSUME IInv, [Next]_vars, step = "delete", disk' # disk
               PROVE  Ours = {} /\ \A n \in Node : ~Running(n)
    OBVIOUS
  <2> USE DEF IInv, LvgInv, StepInv, storeVars, testVars, mainVars
  <2>1. \A n \in Node : ~Running(n)
    OBVIOUS
  <2>2. ASSUME NEW n \in Node, StartNode(n) \/ Body(n) PROVE FALSE
    <3>1. ~StartNode(n)
      BY DEF StartNode
    <3> QED
      BY <2>1, <2>2, <3>1 DEF Running, CreatePcs, ResizePcs, Body, ListOurs, AddDisk,
         PickBds, CreateNext, AddExtraDisk, FindLvg, PickExtra, Extend, SeeResized, Panic
  <2>3. CASE EndNodes \/ WaitLVGsReady \/ SeeDeleted \/ UNCHANGED vars
    BY <2>3 DEF EndNodes, WaitLVGsReady, SeeDeleted, vars
  <2>4. CASE DeleteLvgs
    BY <2>4 DEF DeleteLvgs, DeleteLVG
  <2>5. CASE RemoveLvgs \/ RemoveDisks \/ RemoveBds
    BY <2>5 DEF RemoveLvgs, RemoveDisks, RemoveBds, Removing
  <2>6. CASE DeleteDisks
    BY <2>1, <2>6 DEF DeleteDisks, GroupInv
  <2>7. CASE Watched /\ Agent /\ UNCHANGED <<cmd, testVars, mainVars>>
    BY <2>7 DEF Agent, Discover, Vanish, Reconcile, Remove
  <2> QED
    BY <2>1, <2>2, <2>3, <2>4, <2>5, <2>6, <2>7 DEF Next, Main
<1> QED
  BY <1>1, Inductive, PTL DEF Spec, DisksAfterGroups
-----------------------------------------------------------------------------
(* TestEnds is a liveness property.  What the fairness has to be added to:   *)
(* every step of the test, or of a sub-test, leaves fewer to take.           *)

\* Steps left to the main goroutine.
MainLeft ==
  [prepare |-> [lvgs |-> 15, disks |-> 14, bds |-> 13],
   create |-> IF Parallel THEN [wait |-> 12, nodes |-> 11]
                          ELSE [nodes |-> 12, wait |-> 11],
   resize |-> [nodes |-> 10],
   delete |-> [lvgs |-> 9, gone |-> 8, disks |-> 7],
   cleanup |-> [lvgs |-> 6, disks |-> 5, bds |-> 4],
   end |-> [lvgs |-> 0, disks |-> 0, bds |-> 0]][step][stage]

\* Steps left to the sub-test of a node, of its step: c is BdCount, k the loop
\* counter and t the number of devices it goes on to use.
BodyRank(c, k, t) ==
  [none |-> 2 * c + 4, list |-> 2 * c + 3, vmbd |-> 2 * c + 3 - k,
   bds |-> c + 2, lvg |-> t + 1,
   add |-> 5, find |-> 4, pick |-> 3, update |-> 2, poll |-> 1,
   ok |-> 0, failed |-> 0, skipped |-> 0, absent |-> 0]
BodyLeft(n) == BodyRank(BdCount(n), i[n], Cardinality(todo[n]))[body[n]]

\* The loops of directLVGCreate stay in their bounds.
LoopInv ==
  \A n \in Node :
    /\ body[n] \in {"none", "list"} => i[n] = 1
    /\ body[n] = "vmbd" => i[n] \in 1..BdCount(n)
    /\ body[n] = "lvg" => Cardinality(todo[n]) \in 1..BdCount(n)

(* A node makes one to three groups.                                         *)
LEMMA OneToThree == \A n \in Node : BdCount(n) \in 1..3
BY IdAssumption DEF BdCount

(* Devices can be counted.                                                   *)
LEMMA CountBds ==
  ASSUME NEW S \in SUBSET Bd
  PROVE  IsFiniteSet(S) /\ Cardinality(S) \in Nat
BY BdAssumption, FS_Subset, FS_CardinalityType

(* One device less of those a sub-test goes on to use.                       *)
LEMMA OneBdLess ==
  ASSUME NEW S \in SUBSET Bd, NEW b \in S
  PROVE  /\ Cardinality(S \ {b}) = Cardinality(S) - 1
         /\ S # {b} => Cardinality(S \ {b}) >= 1
<1>1. IsFiniteSet(S) /\ Cardinality(S \ {b}) = Cardinality(S) - 1
  BY CountBds, FS_RemoveElement
<1>2. ASSUME S # {b} PROVE Cardinality(S \ {b}) >= 1
  <2>1. S \ {b} # {} /\ S \ {b} \in SUBSET Bd
    BY <1>2
  <2>2. IsFiniteSet(S \ {b}) /\ Cardinality(S \ {b}) \in Nat
    BY <2>1, CountBds
  <2>3. Cardinality(S \ {b}) # 0
    BY <2>1, <2>2, FS_EmptySet
  <2> QED
    BY <2>2, <2>3
<1> QED
  BY <1>1, <1>2

(* A step of the sub-test of a node, and where it leads: nearer to the end   *)
(* of the sub-test, within the bounds of its loops.                          *)
LEMMA BodyCounts ==
  ASSUME TypeOK, LoopInv, NEW n \in Node,
         \/ StartNode(n) \/ ListOurs(n) \/ AddDisk(n) \/ PickBds(n) \/ CreateNext(n)
         \/ AddExtraDisk(n) \/ FindLvg(n) \/ PickExtra(n) \/ Extend(n) \/ SeeResized(n)
  PROVE  /\ UNCHANGED <<cmd, step, stage>>
         /\ BodyLeft(n)' < BodyLeft(n)
         /\ \A m \in Node \ {n} : body'[m] = body[m] /\ i'[m] = i[m] /\ todo'[m] = todo[m]
         /\ body'[n] \in {"none", "list"} => i'[n] = 1
         /\ body'[n] = "vmbd" => i'[n] \in 1..BdCount(n)
         /\ body'[n] = "lvg" => Cardinality(todo'[n]) \in 1..BdCount(n)
<1> DEFINE c == BdCount(n)
           N == /\ BodyLeft(n)' < BodyLeft(n)
                /\ body'[n] \in {"none", "list"} => i'[n] = 1
                /\ body'[n] = "vmbd" => i'[n] \in 1..c
                /\ body'[n] = "lvg" => Cardinality(todo'[n]) \in 1..c
<1>1. /\ UNCHANGED <<cmd, step, stage>>
      /\ \A m \in Node \ {n} : body'[m] = body[m] /\ i'[m] = i[m] /\ todo'[m] = todo[m]
  BY DEF TypeOK, Goto, StartNode, ListOurs, AddDisk, PickBds, CreateNext, AddExtraDisk,
         FindLvg, PickExtra, Extend, SeeResized, mainVars
<1>2. c \in 1..3 /\ c' = c
  BY OneToThree DEF BdCount
<1>3. /\ BodyLeft(n) = BodyRank(c, i[n], Cardinality(todo[n]))[body[n]]
      /\ BodyLeft(n)' = BodyRank(c, i'[n], Cardinality(todo'[n]))[body'[n]]
  BY <1>2 DEF BodyLeft
<1>4. i[n] \in Nat /\ todo[n] \in SUBSET Bd /\ Cardinality(todo[n]) \in Nat
  BY CountBds DEF TypeOK
<1> SUFFICES N
  BY <1>1 DEF c
<1> HIDE DEF c
<1> USE DEF BodyRank, Goto
<1>5. CASE StartNode(n)
  <2>1. body[n] = "none" /\ body'[n] \in {"list", "add", "find"} /\ i' = i
    BY <1>5 DEF StartNode, TypeOK
  <2>2. i'[n] = 1
    BY <2>1 DEF LoopInv
  <2> QED
    BY <1>2, <1>3, <2>1, <2>2
<1>6. CASE ListOurs(n)
  <2>1. /\ body[n] = "list" /\ body'[n] \in {"skipped", "failed", "vmbd", "bds"}
        /\ i' = i
    BY <1>6 DEF ListOurs, Skipf, TypeOK
  <2>2. i'[n] = 1
    BY <2>1 DEF LoopInv
  <2> QED
    BY <1>2, <1>3, <2>1, <2>2
<1>7. CASE AddDisk(n)
  <2>1. body[n] = "vmbd" /\ i[n] \in 1..c
    BY <1>7 DEF AddDisk, LoopInv, c
  <2>2. \/ i[n] < c /\ body'[n] = "vmbd" /\ i'[n] = i[n] + 1
        \/ body'[n] \in {"bds", "failed"}
    BY <1>7 DEF AddDisk, TypeOK, c
  <2> QED
    BY <1>2, <1>3, <2>1, <2>2
<1>8. CASE PickBds(n)
  <2>1. /\ body[n] = "bds"
        /\ \/ body'[n] = "lvg" /\ Cardinality(todo'[n]) = c
           \/ body'[n] = "failed"
    BY <1>8 DEF PickBds, TypeOK, c
  <2> QED
    BY <1>2, <1>3, <2>1
<1>9. CASE CreateNext(n)
  <2>1. body[n] = "lvg" /\ Cardinality(todo[n]) \in 1..c
    BY <1>9 DEF CreateNext, LoopInv, c
  <2>2. CASE body'[n] = "failed"
    BY <1>2, <1>3, <2>1, <2>2
  <2>3. ASSUME NEW b \in todo[n], todo' = [todo EXCEPT ![n] = @ \ {b}],
               Goto(n, IF todo[n] = {b} THEN "ok" ELSE "lvg")
        PROVE  N
    <3>1. todo'[n] = todo[n] \ {b}
      BY <2>3 DEF TypeOK
    <3>2. /\ Cardinality(todo'[n]) = Cardinality(todo[n]) - 1
          /\ todo[n] # {b} => Cardinality(todo'[n]) >= 1
      BY <1>4, <3>1, OneBdLess
    <3>3. \/ body'[n] = "ok"
          \/ body'[n] = "lvg" /\ todo[n] # {b}
      BY <2>3 DEF TypeOK
    <3>4. BodyLeft(n) = Cardinality(todo[n]) + 1
      BY <1>3, <2>1
    <3>5. CASE body'[n] = "ok"
      <4>1. BodyLeft(n)' = 0
        BY <1>3, <3>5
      <4> QED
        BY <1>4, <3>4, <3>5, <4>1
    <3>6. CASE body'[n] = "lvg" /\ todo[n] # {b}
      <4>1. BodyLeft(n)' = Cardinality(todo[n])
        BY <1>3, <1>4, <3>2, <3>6
      <4>2. Cardinality(todo'[n]) \in 1..c
        BY <1>2, <1>4, <2>1, <3>2, <3>6
      <4> QED
        BY <1>4, <3>4, <3>6, <4>1, <4>2
    <3> QED
      BY <3>3, <3>5, <3>6
  <2>4. \/ body'[n] = "failed"
        \/ \E b \in todo[n] : /\ todo' = [todo EXCEPT ![n] = @ \ {b}]
                              /\ Goto(n, IF todo[n] = {b} THEN "ok" ELSE "lvg")
    BY <1>9 DEF CreateNext, TypeOK
  <2> QED
    BY <2>2, <2>3, <2>4
<1>10. CASE AddExtraDisk(n) \/ FindLvg(n) \/ PickExtra(n) \/ Extend(n) \/ SeeResized(n)
  <2>1. \/ body[n] = "add" /\ body'[n] = "find"
        \/ body[n] = "find" /\ body'[n] \in {"pick", "failed"}
        \/ body[n] = "pick" /\ body'[n] \in {"update", "failed", "skipped"}
        \/ body[n] = "update" /\ body'[n] \in {"poll", "failed"}
        \/ body[n] = "poll" /\ body'[n] \in {"ok", "failed"}
    BY <1>10 DEF AddExtraDisk, FindLvg, PickExtra, Extend, SeeResized, Skipf, TypeOK
  <2> QED
    BY <1>3, <2>1
<1> QED
  BY <1>5, <1>6, <1>7, <1>8, <1>9, <1>10

\* What MainLeft is, where the test can be.
MainIs ==
  /\ step = "prepare" => /\ stage = "lvgs" => MainLeft = 15
                         /\ stage = "disks" => MainLeft = 14
                         /\ stage = "bds" => MainLeft = 13
  /\ step = "create" => /\ stage = "wait" => MainLeft = IF Parallel THEN 12 ELSE 11
                        /\ stage = "nodes" => MainLeft = IF Parallel THEN 11 ELSE 12
  /\ step = "resize" /\ stage = "nodes" => MainLeft = 10
  /\ step = "delete" => /\ stage = "lvgs" => MainLeft = 9
                        /\ stage = "gone" => MainLeft = 8
                        /\ stage = "disks" => MainLeft = 7
  /\ step = "cleanup" => /\ stage = "lvgs" => MainLeft = 6
                         /\ stage = "disks" => MainLeft = 5
                         /\ stage = "bds" => MainLeft = 4
  /\ step = "end" /\ stage \in {"lvgs", "disks", "bds"} => MainLeft = 0

(* The table is read right, before a step and after it.                      *)
LEMMA MainValues == MainIs
BY DEF MainIs, MainLeft

(* The main goroutine goes on, or the process panics: either comes nearer to *)
(* the end, the latter by leaving steps out.                                 *)
LEMMA MainCounts ==
  ASSUME TypeOK, StepInv,
         \/ EndNodes \/ WaitLVGsReady \/ DeleteLvgs \/ SeeDeleted \/ DeleteDisks
         \/ RemoveLvgs \/ RemoveDisks \/ RemoveBds \/ \E n \in Node : Panic(n)
  PROVE  MainLeft' < MainLeft
<1>1. cmd' = cmd /\ Parallel' = Parallel
  BY DEF EndNodes, WaitLVGsReady, DeleteLvgs, SeeDeleted, DeleteDisks, RemoveLvgs,
         RemoveDisks, RemoveBds, Panic, Parallel
<1>2. MainIs /\ MainIs'
  BY MainValues, PTL
<1> USE <1>1, <1>2 DEF StepInv, MainIs
<1>3. ASSUME BeginCleanup PROVE MainLeft' \in {0, 6}
  BY <1>3 DEF BeginCleanup
<1>4. ASSUME Exit PROVE MainLeft' = 0
  BY <1>4 DEF Exit
<1>5. CASE EndNodes
  <2>1. stage = "nodes" /\ step \in {"create", "resize"}
    BY <1>5 DEF EndNodes, TypeOK, Steps
  <2>2. \/ step = "create" /\ ~Parallel /\ step' = "create" /\ stage' = "wait"
        \/ step = "create" /\ step' = "resize" /\ stage' = "nodes"
        \/ step = "resize" /\ step' = "delete" /\ stage' = "lvgs"
    BY <1>5, <2>1 DEF EndNodes, EndStep, Begin
  <2> QED
    BY <2>1, <2>2
<1>6. CASE WaitLVGsReady
  BY <1>6 DEF WaitLVGsReady, EndStep, Begin
<1>7. CASE DeleteLvgs
  BY <1>3, <1>7 DEF DeleteLvgs
<1>8. CASE SeeDeleted
  BY <1>3, <1>8 DEF SeeDeleted
<1>9. CASE DeleteDisks
  BY <1>3, <1>9 DEF DeleteDisks
<1>10. CASE RemoveLvgs
  BY <1>10 DEF RemoveLvgs, Removing
<1>11. CASE RemoveDisks
  BY <1>11 DEF RemoveDisks, Removing
<1>12. CASE RemoveBds
  BY <1>4, <1>12 DEF RemoveBds, Removing, Begin
<1>13. ASSUME NEW n \in Node, Panic(n) PROVE MainLeft' < MainLeft
  <2>1. Running(n) /\ body[n] \notin CreatePcs
    BY <1>13 DEF Panic, Running, CreatePcs, ResizePcs
  <2>2. \/ step = "resize" /\ MainLeft = 10
        \/ step = "cleanup" /\ panicked /\ MainLeft \in {4, 5, 6}
    BY <2>1
  <2>3. CASE panicked \/ cmd.keepState
    BY <1>4, <1>13, <2>2, <2>3 DEF Panic
  <2>4. CASE ~(panicked \/ cmd.keepState)
    BY <1>3, <1>13, <2>2, <2>4 DEF Panic
  <2> QED
    BY <2>3, <2>4
<1> QED
  BY <1>5, <1>6, <1>7, <1>8, <1>9, <1>10, <1>11, <1>12, <1>13

(* The bounds of the loops hold throughout.                                  *)
LEMMA NextLoopInv == TypeOK /\ LoopInv /\ [Next]_vars => LoopInv'
<1> SUFFICES ASSUME TypeOK, LoopInv, [Next]_vars PROVE LoopInv'
  OBVIOUS
<1>1. \A n \in Node : BdCount(n)' = BdCount(n)
  BY DEF BdCount
<1>2. ASSUME NEW n \in Node, StartNode(n) \/ Body(n), ~Panic(n) PROVE LoopInv'
  <2>1. /\ \A m \in Node \ {n} : body'[m] = body[m] /\ i'[m] = i[m] /\ todo'[m] = todo[m]
        /\ body'[n] \in {"none", "list"} => i'[n] = 1
        /\ body'[n] = "vmbd" => i'[n] \in 1..BdCount(n)
        /\ body'[n] = "lvg" => Cardinality(todo'[n]) \in 1..BdCount(n)
    BY <1>2, BodyCounts DEF Body
  <2> QED
    BY <1>1, <2>1 DEF LoopInv
<1>3. ASSUME UNCHANGED testVars PROVE LoopInv'
  BY <1>1, <1>3 DEF LoopInv, testVars
<1>4. ASSUME body' \in [Node -> {"none", "absent"}], i' = FirstI PROVE LoopInv'
  BY <1>4 DEF LoopInv, FirstI
<1>5. ASSUME NEW s, Begin(s) PROVE LoopInv'
  BY <1>4, <1>5 DEF Begin
<1>6. ASSUME Exit PROVE LoopInv'
  BY <1>4, <1>6 DEF Exit, NoBodies
<1>7. CASE EndNodes \/ WaitLVGsReady
  BY <1>3, <1>5, <1>7 DEF EndNodes, WaitLVGsReady, EndStep
<1>8. CASE DeleteLvgs \/ SeeDeleted \/ DeleteDisks \/ RemoveLvgs \/ RemoveDisks
  BY <1>3, <1>8 DEF DeleteLvgs, SeeDeleted, DeleteDisks, RemoveLvgs, RemoveDisks
<1>9. CASE RemoveBds
  BY <1>5, <1>6, <1>9 DEF RemoveBds
<1>10. ASSUME NEW n \in Node, Panic(n) PROVE LoopInv'
  <2>1. ASSUME Goto(n, "failed"), UNCHANGED <<i, todo>> PROVE LoopInv'
    BY <1>1, <2>1 DEF LoopInv, Goto, TypeOK
  <2> QED
    BY <1>6, <1>10, <2>1 DEF Panic
<1>11. CASE UNCHANGED vars \/ (Watched /\ Agent /\ UNCHANGED <<cmd, testVars, mainVars>>)
  BY <1>3, <1>11 DEF vars
<1> QED
  BY <1>2, <1>7, <1>8, <1>9, <1>10, <1>11 DEF Next, Main

\* The main goroutine has fewer steps left; or one sub-test has.
Nearer ==
  \/ MainLeft' < MainLeft
  \/ /\ MainLeft' = MainLeft
     /\ \E n \in Node : /\ BodyLeft(n)' < BodyLeft(n)
                        /\ \A m \in Node \ {n} : BodyLeft(m)' = BodyLeft(m)

(* Nobody has many steps left.                                               *)
LEMMA LeftBounds ==
  ASSUME TypeOK, StepInv, LoopInv
  PROVE  MainLeft \in 0..15 /\ \A n \in Node : BodyLeft(n) \in 0..10
<1>1. MainLeft \in 0..15
  BY MainValues DEF MainIs, TypeOK, StepInv, Steps
<1>2. ASSUME NEW n \in Node PROVE BodyLeft(n) \in 0..10
  <2>1. BdCount(n) \in 1..3 /\ i[n] \in Nat /\ Cardinality(todo[n]) \in Nat
    BY OneToThree, CountBds DEF TypeOK
  <2>2. /\ body[n] = "vmbd" => i[n] \in 1..BdCount(n)
        /\ body[n] = "lvg" => Cardinality(todo[n]) \in 1..BdCount(n)
    BY DEF LoopInv
  <2>3. body[n] \in CreatePcs \cup ResizePcs \cup Ended \cup {"none"}
    BY DEF TypeOK
  <2> QED
    BY <2>1, <2>2, <2>3 DEF BodyLeft, BodyRank, CreatePcs, ResizePcs, Ended
<1> QED
  BY <1>1, <1>2

(* TestLvg has fifteen steps of its own at most, and a sub-test ten: every   *)
(* one that is taken leaves the main goroutine fewer, or a sub-test fewer    *)
(* and the others as many; the agent does not change how many are left.      *)
THEOREM TestIsBounded ==
  Spec => [][/\ MainLeft \in 0..15 /\ \A n \in Node : BodyLeft(n) \in 0..10
             /\ Main \/ (\E n \in Node : Body(n)) => Nearer
             /\ ~Main /\ ~(\E n \in Node : Body(n)) =>
                  MainLeft' = MainLeft /\ \A n \in Node : BodyLeft(n)' = BodyLeft(n)]_vars
<1>1. Spec => []LoopInv
  <2>1. Init => LoopInv
    BY DEF Init, LoopInv, NoBodies, FirstI
  <2>2. LvgInv /\ LoopInv /\ [Next]_vars => LoopInv'
    BY NextLoopInv DEF LvgInv
  <2> QED
    BY <2>1, <2>2, LvgInvariant, PTL DEF Spec
<1>2. LvgInv /\ LoopInv /\ [Next]_vars =>
        [/\ MainLeft \in 0..15 /\ \A n \in Node : BodyLeft(n) \in 0..10
         /\ Main \/ (\E n \in Node : Body(n)) => Nearer
         /\ ~Main /\ ~(\E n \in Node : Body(n)) =>
              MainLeft' = MainLeft /\ \A n \in Node : BodyLeft(n)' = BodyLeft(n)]_vars
  <2> SUFFICES ASSUME TypeOK, StepInv, LoopInv, Next
               PROVE  /\ MainLeft \in 0..15 /\ \A n \in Node : BodyLeft(n) \in 0..10
                      /\ Main \/ (\E n \in Node : Body(n)) => Nearer
                      /\ ~Main /\ ~(\E n \in Node : Body(n)) =>
                           /\ MainLeft' = MainLeft
                           /\ \A n \in Node : BodyLeft(n)' = BodyLeft(n)
    BY DEF LvgInv
  <2>1. ASSUME NEW n \in Node,
               \/ StartNode(n) \/ ListOurs(n) \/ AddDisk(n) \/ PickBds(n) \/ CreateNext(n)
               \/ AddExtraDisk(n) \/ FindLvg(n) \/ PickExtra(n) \/ Extend(n) \/ SeeResized(n)
        PROVE  Nearer
    <3>1. /\ UNCHANGED <<cmd, step, stage>>
          /\ BodyLeft(n)' < BodyLeft(n)
          /\ \A m \in Node \ {n} : body'[m] = body[m] /\ i'[m] = i[m] /\ todo'[m] = todo[m]
      BY <2>1, BodyCounts
    <3>2. MainLeft' = MainLeft
      BY <3>1 DEF MainLeft, Parallel
    <3>3. \A m \in Node \ {n} : BodyLeft(m)' = BodyLeft(m)
      BY <3>1 DEF BodyLeft, BdCount
    <3> QED
      BY <3>1, <3>2, <3>3 DEF Nearer
  <2>2. ASSUME \/ EndNodes \/ WaitLVGsReady \/ DeleteLvgs \/ SeeDeleted \/ DeleteDisks
               \/ RemoveLvgs \/ RemoveDisks \/ RemoveBds \/ \E n \in Node : Panic(n)
        PROVE  Nearer
    <3>1. MainLeft' < MainLeft
      BY <2>2, MainCounts
    <3> QED
      BY <3>1 DEF Nearer
  <2>3. Main \/ (\E n \in Node : Body(n)) => Nearer
    BY <2>1, <2>2 DEF Main, Body
  <2>4. ASSUME UNCHANGED <<cmd, testVars, mainVars>>
        PROVE  MainLeft' = MainLeft /\ \A n \in Node : BodyLeft(n)' = BodyLeft(n)
    BY <2>4 DEF MainLeft, Parallel, BodyLeft, BdCount, testVars, mainVars
  <2> QED
    BY LeftBounds, <2>3, <2>4 DEF Next
<1> QED
  BY <1>1, <1>2, LvgInvariant, PTL DEF Spec
==============================================================================
