--------------------------- MODULE VolumeTestsProofs ---------------------------
(***************************************************************************)
(* TestPVC, the cases of images/sds-lvm-e2e and its benchmarks, for any    *)
(* nodes, claims and goroutines, and any number of runs: what a pass       *)
(* means, and whose objects a test touches.                                *)
(***************************************************************************)
EXTENDS PvcTests, VolumeCases, FullCycle, ParallelBench, FiniteSetTheorems, TLAPS
-----------------------------------------------------------------------------
(* TestPVC.                                                                 *)

(* PvcInv is kept.                                                           *)
LEMMA PvcNextInv == PvcInv /\ [PvcNext]_pvcVars => PvcInv'
<1> SUFFICES ASSUME PvcInv, [PvcNext]_pvcVars PROVE PvcInv'
  OBVIOUS
<1> USE PvcAssumption
    DEF PvcInv, PvcTypeOK, VersionInv, LvgInDefaultInv, ClaimInv, Modules, PvcEnds,
        InConfig, InDefault, InCreate, PvcPcs, PvcGoto, configVars, storeVars,
        claimVars, moduleVars, nodeVars, pastVars, testVars
<1>1. CASE PvcFatal
  BY <1>1 DEF PvcFatal, LocalsGone
<1>2. CASE CreateClass
  <2>1. /\ deployed' \in BOOLEAN /\ class' \in BOOLEAN /\ deleting' \in BOOLEAN
        /\ failed' \in BOOLEAN /\ madeRv' \in BOOLEAN /\ viaDefault' \in BOOLEAN
        /\ resized' \in BOOLEAN
    BY <1>2, Zenon DEF CreateClass
  <2>2. PvcTypeOK'
    BY <1>2, <2>1 DEF CreateClass
  <2>3. VersionInv' /\ LvgInDefaultInv' /\ ClaimInv'
    BY <1>2 DEF CreateClass
  <2> QED
    BY <2>2, <2>3
<1>3. CASE ClassFound
  BY <1>3 DEF ClassFound
<1>4. CASE ClassNotFound
  BY <1>4 DEF ClassNotFound
<1>5. CASE CreateConfig
  <2>1. PvcTypeOK' /\ LvgInDefaultInv' /\ ClaimInv'
    BY <1>5 DEF CreateConfig, WriteConfig, ModuleDone
  <2>2. CASE module = "nc"
    BY <1>5, <2>1, <2>2 DEF CreateConfig, WriteConfig, ModuleDone
  <2>3. CASE module = "rv"
    <3>1. madeRv' = TRUE /\ pvcPc' = "deploy"
      BY <1>5, <2>3 DEF CreateConfig, WriteConfig, ModuleDone
    <3>2. modVersion["nc"] # rev + 1 /\ modVersion'["nc"] = modVersion["nc"]
          /\ modVersion'["rv"] = rev + 1 /\ rev' = rev + 1
      BY <1>5, <2>3 DEF CreateConfig, WriteConfig, ModuleDone
    <3>3. /\ \A m \in Modules : modVersion'[m] <= rev'
          /\ modVersion'["nc"] = modVersion'["rv"] => modVersion'["nc"] = 0
          /\ version' <= rev'
      BY <1>5, <3>2 DEF CreateConfig, WriteConfig, ModuleDone
    <3>4. \A m \in Modules : modAuthor'[m] = "none" <=> modVersion'[m] = 0
      BY <1>5, <2>3 DEF CreateConfig, WriteConfig, ModuleDone
    <3> QED
      BY <2>1, <3>1, <3>3, <3>4
  <2> QED
    BY <2>2, <2>3
<1>6. CASE ConfigAlreadyExists
  BY <1>6 DEF ConfigAlreadyExists
<1>7. CASE GetConfig
  BY <1>7 DEF GetConfig
<1>8. CASE UpdateConfig
  BY <1>8 DEF UpdateConfig, WriteConfig, ModuleDone
<1>9. CASE ControllerReady
  BY <1>9 DEF ControllerReady
<1>10. CASE ListReadyLvgs
  BY <1>10 DEF ListReadyLvgs, ListLvgsIn
<1>11. CASE \E n \in StorNodes : LvgThere(n)
  BY <1>11 DEF LvgThere
<1>12. CASE \E n \in StorNodes : CreateDefaultLvg(n)
  BY <1>12 DEF CreateDefaultLvg
<1>13. CASE DefaultLvgReady
  BY <1>13 DEF DefaultLvgReady
<1>14. CASE DefaultDone
  BY <1>14 DEF DefaultDone, LocalsGone
<1>15. CASE CreateClaim
  BY <1>15 DEF CreateClaim
<1>16. CASE WaitClaim
  BY <1>16 DEF WaitClaim
<1>17. CASE ListClaims
  BY <1>17 DEF ListClaims
<1>18. CASE ListClaimsFails
  BY <1>18 DEF ListClaimsFails
<1>19. CASE NoClaimListed
  BY <1>19 DEF NoClaimListed
<1>20. CASE ResizeClaim
  BY <1>20 DEF ResizeClaim
<1>21. CASE ResizeFails
  BY <1>21 DEF ResizeFails
<1>22. CASE DeleteClaim
  BY <1>22 DEF DeleteClaim
<1>23. CASE DeleteClaimFails
  BY <1>23 DEF DeleteClaimFails
<1>24. CASE PvcDies
  <2>1. /\ deployed' \in BOOLEAN /\ class' \in BOOLEAN /\ deleting' \in BOOLEAN
        /\ failed' \in BOOLEAN /\ madeRv' \in BOOLEAN /\ viaDefault' \in BOOLEAN
        /\ resized' \in BOOLEAN
    BY <1>24, Zenon DEF PvcDies, LocalsGone, NewProcess
  <2>2. PvcTypeOK'
    BY <1>24, <2>1 DEF PvcDies, LocalsGone, NewProcess
  <2>3. VersionInv' /\ LvgInDefaultInv' /\ ClaimInv'
    BY <1>24 DEF PvcDies, LocalsGone, NewProcess
  <2> QED
    BY <2>2, <2>3
<1>25. CASE PvcAgain
  <2>1. /\ deployed' \in BOOLEAN /\ class' \in BOOLEAN /\ deleting' \in BOOLEAN
        /\ failed' \in BOOLEAN /\ madeRv' \in BOOLEAN /\ viaDefault' \in BOOLEAN
        /\ resized' \in BOOLEAN
    BY <1>25, Zenon DEF PvcAgain, LocalsGone, NewProcess
  <2>2. PvcTypeOK'
    BY <1>25, <2>1 DEF PvcAgain, LocalsGone, NewProcess
  <2>3. VersionInv' /\ LvgInDefaultInv' /\ ClaimInv'
    BY <1>25 DEF PvcAgain, LocalsGone, NewProcess
  <2> QED
    BY <2>2, <2>3
<1>26. CASE \E m \in Modules : EditConfig(m)
  BY <1>26 DEF EditConfig
<1>27. CASE \E m \in Modules : DropConfig(m)
  BY <1>27 DEF DropConfig
<1>28. CASE ClassChanges
  BY <1>28 DEF ClassChanges
<1>29. CASE ControllerChanges
  BY <1>29 DEF ControllerChanges
<1>30. CASE \E n \in StorNodes : GroupChanges(n)
  BY <1>30 DEF GroupChanges
<1>31. CASE ClaimBinds
  BY <1>31 DEF ClaimBinds
<1>32. CASE ClaimGoes
  <2>1. /\ deployed' \in BOOLEAN /\ class' \in BOOLEAN /\ deleting' \in BOOLEAN
        /\ failed' \in BOOLEAN /\ madeRv' \in BOOLEAN /\ viaDefault' \in BOOLEAN
        /\ resized' \in BOOLEAN
    BY <1>32, Zenon DEF ClaimGoes
  <2>2. PvcTypeOK'
    BY <1>32, <2>1 DEF ClaimGoes
  <2>3. VersionInv' /\ LvgInDefaultInv' /\ ClaimInv'
    BY <1>32 DEF ClaimGoes
  <2> QED
    BY <2>2, <2>3
<1>33. CASE UNCHANGED pvcVars
  BY <1>33 DEF pvcVars
<1> QED
  BY <1>1, <1>2, <1>3, <1>4, <1>5, <1>6, <1>7, <1>8, <1>9, <1>10, <1>11, <1>12,
     <1>13, <1>14, <1>15, <1>16, <1>17, <1>18, <1>19, <1>20, <1>21, <1>22, <1>23,
     <1>24, <1>25, <1>26, <1>27, <1>28, <1>29, <1>30, <1>31, <1>32, <1>33
     DEF PvcNext, PvcStep, PvcExternal

(* PvcInv holds on the cluster the test is first started on.                 *)
LEMMA PvcInitInv == PvcInit => PvcInv
<1> SUFFICES ASSUME PvcInit PROVE PvcInv
  OBVIOUS
    <1> USE PvcAssumption DEF PvcInit, Modules, InDefault, InCreate, InConfig,
           PvcPcs, PvcEnds
<1>1. PvcTypeOK
  <2>1. /\ rev \in Nat /\ modVersion \in [Modules -> Nat]
        /\ modAuthor \in [Modules -> {"none", "other", "test"}]
        /\ pvcRun \in 1..MaxPvcRuns
    OBVIOUS
  <2>2. /\ deployed \in BOOLEAN /\ class \in BOOLEAN /\ deleting \in BOOLEAN
        /\ failed \in BOOLEAN /\ madeRv \in BOOLEAN /\ viaDefault \in BOOLEAN
        /\ resized \in BOOLEAN
    BY Zenon
  <2> QED
    BY <2>1, <2>2 DEF PvcTypeOK
<1>2. VersionInv
  BY DEF VersionInv
<1>3. LvgInDefaultInv /\ ClaimInv
  BY DEF LvgInDefaultInv, ClaimInv
<1> QED
  BY <1>1, <1>2, <1>3 DEF PvcInv

(* The invariant of TestPVC.                                                 *)
THEOREM PvcInvariance == PvcSpec => []PvcInv
<1> QED
  BY PvcInitInv, PvcNextInv, PTL DEF PvcSpec

(* The default path: see DefaultPathPasses.  A run that ends it has gone      *)
(* through the configuration of both modules and all nodes.                  *)
THEOREM DefaultPathAlways == PvcSpec => []DefaultPathPasses
<1>1. PvcInit => DefaultPathPasses
  BY DEF PvcInit, DefaultPathPasses
<1>2. PvcInv /\ DefaultPathPasses /\ [PvcNext]_pvcVars => DefaultPathPasses'
  <2> SUFFICES ASSUME PvcInv, DefaultPathPasses, [PvcNext]_pvcVars
               PROVE  DefaultPathPasses'
    OBVIOUS
  <2>1. everReady \subseteq everReady'
        BY DEF PvcFatal, CreateClass, ClassFound, ClassNotFound, CreateConfig,
           ConfigAlreadyExists, GetConfig, UpdateConfig, ControllerReady,
           ListReadyLvgs, ListLvgsIn, LvgThere, CreateDefaultLvg, DefaultLvgReady,
           DefaultDone, CreateClaim, WaitClaim, ListClaims, ListClaimsFails,
           NoClaimListed, ResizeClaim, ResizeFails, DeleteClaim, DeleteClaimFails,
           PvcDies, PvcAgain, EditConfig, DropConfig, ClassChanges,
           ControllerChanges, GroupChanges, ClaimBinds, ClaimGoes, WriteConfig,
           ModuleDone, PvcGoto, LocalsGone, NewProcess, PvcNext, PvcStep,
           PvcExternal, configVars, storeVars, claimVars, moduleVars, nodeVars,
           pastVars, testVars, pvcVars
  <2>2. CASE DefaultDone
    BY <2>1, <2>2 DEF DefaultDone, PvcInv, VersionInv, LvgInDefaultInv, InDefault,
                      DefaultPathPasses
  <2>3. CASE CreateConfig
    BY <2>3 DEF CreateConfig, WriteConfig, ModuleDone, PvcInv, LvgInDefaultInv,
                InConfig, DefaultPathPasses
  <2>4. CASE PvcDies \/ PvcAgain
    BY <2>4 DEF PvcDies, PvcAgain, NewProcess, DefaultPathPasses
  <2>5. [PvcNext]_pvcVars /\ ~(DefaultDone \/ CreateConfig \/ PvcDies \/ PvcAgain)
          => UNCHANGED <<viaDefault, madeRv>>
        BY DEF PvcFatal, CreateClass, ClassFound, ClassNotFound, CreateConfig,
           ConfigAlreadyExists, GetConfig, UpdateConfig, ControllerReady,
           ListReadyLvgs, ListLvgsIn, LvgThere, CreateDefaultLvg, DefaultLvgReady,
           DefaultDone, CreateClaim, WaitClaim, ListClaims, ListClaimsFails,
           NoClaimListed, ResizeClaim, ResizeFails, DeleteClaim, DeleteClaimFails,
           PvcDies, PvcAgain, EditConfig, DropConfig, ClassChanges,
           ControllerChanges, GroupChanges, ClaimBinds, ClaimGoes, WriteConfig,
           ModuleDone, PvcGoto, LocalsGone, NewProcess, PvcNext, PvcStep,
           PvcExternal, configVars, storeVars, claimVars, moduleVars, nodeVars,
           pastVars, testVars, pvcVars
  <2> QED
    BY <2>1, <2>2, <2>3, <2>4, <2>5 DEF DefaultPathPasses
<1> QED
  BY <1>1, <1>2, PvcInvariance, PTL DEF PvcSpec

(* The claim of a test that passes: see PvcPassMeansResized.  Only           *)
(* DeleteClaim ends a test that has not failed.                              *)
THEOREM PassMeansResizedAlways == PvcSpec => []PvcPassMeansResized
<1>1. PvcInit => PvcPassMeansResized
  BY DEF PvcInit, PvcPassMeansResized
<1>2. PvcInv /\ PvcPassMeansResized /\ [PvcNext]_pvcVars => PvcPassMeansResized'
  <2> SUFFICES ASSUME PvcInv, PvcPassMeansResized, [PvcNext]_pvcVars,
                      pvcPc' = "done", ~failed'
               PROVE  resized' /\ (claim' = "none" \/ deleting')
    BY DEF PvcPassMeansResized
  <2>1. CASE DeleteClaim
    BY <2>1 DEF DeleteClaim, PvcGoto, pastVars, PvcInv, ClaimInv
  <2>2. CASE ClaimGoes
    BY <2>2 DEF ClaimGoes, PvcPassMeansResized, testVars, pastVars
  <2>3. CASE ClaimBinds
    BY <2>3 DEF ClaimBinds, PvcPassMeansResized, testVars, pastVars
  <2>4. ~(DeleteClaim \/ ClaimGoes \/ ClaimBinds)
          => UNCHANGED <<pvcPc, failed, resized, claim, deleting>>
        BY DEF PvcFatal, CreateClass, ClassFound, ClassNotFound, CreateConfig,
           ConfigAlreadyExists, GetConfig, UpdateConfig, ControllerReady,
           ListReadyLvgs, ListLvgsIn, LvgThere, CreateDefaultLvg, DefaultLvgReady,
           DefaultDone, CreateClaim, WaitClaim, ListClaims, ListClaimsFails,
           NoClaimListed, ResizeClaim, ResizeFails, DeleteClaim, DeleteClaimFails,
           PvcDies, PvcAgain, EditConfig, DropConfig, ClassChanges,
           ControllerChanges, GroupChanges, ClaimBinds, ClaimGoes, WriteConfig,
           ModuleDone, PvcGoto, LocalsGone, NewProcess, PvcNext, PvcStep,
           PvcExternal, configVars, storeVars, claimVars, moduleVars, nodeVars,
           pastVars, testVars, pvcVars
  <2> QED
    BY <2>1, <2>2, <2>3, <2>4 DEF PvcPassMeansResized
<1> QED
  BY <1>1, <1>2, PvcInvariance, PTL DEF PvcSpec

(* Whose configuration is overwritten: see EditsSurvive.                     *)
THEOREM EditsSurviveAlways == PvcSpec => EditsSurvive
<1> DEFINE Kept == \A m \in Modules :
                     modAuthor[m] = "other" /\ modAuthor'[m] = "test" =>
                       m = "nc" /\ modVersion[m] = version
<1>1. PvcInv /\ [PvcNext]_pvcVars => [Kept]_pvcVars
  <2> SUFFICES ASSUME PvcInv, [PvcNext]_pvcVars PROVE Kept
    OBVIOUS
  <2> USE DEF PvcInv, PvcTypeOK, VersionInv, Modules
  <2>1. CASE CreateConfig
    BY <2>1 DEF CreateConfig, WriteConfig
  <2>2. CASE UpdateConfig
    BY <2>2 DEF UpdateConfig, WriteConfig
  <2>3. CASE \E m \in Modules : EditConfig(m) \/ DropConfig(m)
    BY <2>3 DEF EditConfig, DropConfig
      <2>4. ~(CreateConfig \/ UpdateConfig \/ \E m \in Modules : EditConfig(m) \/
           DropConfig(m))
          => UNCHANGED modAuthor
        BY DEF PvcFatal, CreateClass, ClassFound, ClassNotFound, CreateConfig,
           ConfigAlreadyExists, GetConfig, UpdateConfig, ControllerReady,
           ListReadyLvgs, ListLvgsIn, LvgThere, CreateDefaultLvg, DefaultLvgReady,
           DefaultDone, CreateClaim, WaitClaim, ListClaims, ListClaimsFails,
           NoClaimListed, ResizeClaim, ResizeFails, DeleteClaim, DeleteClaimFails,
           PvcDies, PvcAgain, EditConfig, DropConfig, ClassChanges,
           ControllerChanges, GroupChanges, ClaimBinds, ClaimGoes, WriteConfig,
           ModuleDone, PvcGoto, LocalsGone, NewProcess, PvcNext, PvcStep,
           PvcExternal, configVars, storeVars, claimVars, moduleVars, nodeVars,
           pastVars, testVars, pvcVars
  <2> QED
    BY <2>1, <2>2, <2>3, <2>4
<1> QED
  BY <1>1, PvcInvariance, PTL DEF PvcSpec, EditsSurvive
-----------------------------------------------------------------------------
(* The cases of images/sds-lvm-e2e.                                          *)

\* The steps of cases.
Ops == {"createClass", "createPvc", "waitPvc", "createPod", "waitPod",
        "waitGoodPod", "deletePod", "waitNoPod", "deletePvc", "resizePvc"}

(* How many steps the cases have.                                           *)
LEMMA CaseLengths ==
  /\ Len(Cases) = 5 /\ Len(Cases[1]) = 1 /\ Len(Cases[2]) = 8 /\ Len(Cases[3]) = 8
  /\ Len(Cases[4]) = 12 /\ Len(Cases[5]) = 4
  BY DEF Cases

(* The order of the steps in a case, as far as it matters.                   *)
LEMMA CasesFacts ==
  ASSUME NEW c \in 1..5, NEW i \in 1..Len(Cases[c])
  PROVE  /\ Cases[c][i] \in Ops
         /\ Cases[c][i] = "createPvc" <=> i = 1 /\ c # 1
         /\ Cases[c][i] \in {"waitPod", "waitGoodPod"} =>
              i # 1 /\ Cases[c][i-1] = "createPod"
         /\ Cases[c][i] = "deletePvc" => i = Len(Cases[c]) - 1 /\ c # 5
         /\ Cases[c][i] = "resizePvc" => i = 3 /\ c = 5
         /\ Cases[c][i] = "createPod" =>
              i + 3 <= Len(Cases[c]) /\ Cases[c][i + 3] = "waitNoPod"
<1>1. CASE c = 1
  BY <1>1 DEF Cases, Ops
<1>2. CASE c = 2
  BY <1>2 DEF Cases, Ops
<1>3. CASE c = 3
  BY <1>3 DEF Cases, Ops
<1>4. CASE c = 4
  BY <1>4 DEF Cases, Ops
<1>5. CASE c = 5
  BY <1>5 DEF Cases, Ops
<1> QED
  BY <1>1, <1>2, <1>3, <1>4, <1>5

(* What the cases have among their steps.                                    *)
LEMMA CaseContents ==
  /\ \A c \in 2..4 : \E i \in 1..Len(Cases[c]) :
       Cases[c][i] \in {"waitPod", "waitGoodPod"}
  /\ \A c \in 2..4 : \E i \in 1..Len(Cases[c]) : Cases[c][i] = "waitNoPod"
  /\ \A c \in 2..4 : \E i \in 1..Len(Cases[c]) : Cases[c][i] = "deletePvc"
  /\ \A c \in 2..5 : \E i \in 1..Len(Cases[c]) : Cases[c][i] = "createPvc"
  /\ \E i \in 1..Len(Cases[5]) : Cases[5][i] = "resizePvc"
<1>1. /\ Cases[2][4] = "waitGoodPod" /\ Cases[3][4] = "waitPod"
      /\ Cases[4][4] = "waitPod"
      /\ \A c \in 2..4 : Cases[c][6] = "waitNoPod"
      /\ Cases[2][7] = "deletePvc" /\ Cases[3][7] = "deletePvc"
      /\ Cases[4][11] = "deletePvc"
      /\ \A c \in 2..5 : Cases[c][1] = "createPvc"
      /\ Cases[5][3] = "resizePvc"
  BY DEF Cases
<1> QED
  BY <1>1, CaseLengths

(* The step the program is at.                                               *)
LEMMA HereFacts ==
  ASSUME CaseTypeOK, NamesInv
  PROVE  /\ InCase <=> caseNo \in 1..5
         /\ Op = "over" <=> ~InCase
         /\ Op = "end" => InCase /\ opNo = Len(Cases[caseNo]) + 1
         /\ Op \notin {"over", "end"} =>
              /\ InCase /\ opNo \in 1..Len(Cases[caseNo])
              /\ Op = Cases[caseNo][opNo] /\ Op \in Ops
<1>1. Len(Cases) = 5 /\ caseNo \in 1..6 /\ opNo \in Nat \ {0}
  BY CaseLengths DEF CaseTypeOK
<1>2. \A c \in 1..5 : Len(Cases[c]) \in Nat
  BY CaseLengths
<1>3. InCase <=> caseNo \in 1..5
  BY <1>1 DEF InCase
<1>4. InCase => opNo <= Len(Cases[caseNo]) + 1
  BY DEF NamesInv
<1>5. CASE caseNo = 6
  BY <1>1, <1>3, <1>5 DEF Op
<1>6. CASE caseNo \in 1..5 /\ opNo = Len(Cases[caseNo]) + 1
  BY <1>1, <1>2, <1>3, <1>6 DEF Op
<1>7. CASE caseNo \in 1..5 /\ opNo \in 1..Len(Cases[caseNo])
  <2>1. Op = Cases[caseNo][opNo]
    BY <1>1, <1>2, <1>7 DEF Op
  <2>2. Op \in Ops
    BY <2>1, <1>7, CasesFacts
  <2> QED
    BY <1>3, <1>7, <2>1, <2>2 DEF Ops
<1> QED
  BY <1>1, <1>2, <1>3, <1>4, <1>5, <1>6, <1>7

(* What is behind the step the program is at.                                *)
LEMMA OrderFacts ==
  ASSUME CaseTypeOK, NamesInv, Op \notin {"over", "end"}
  PROVE  /\ Op = "createPvc" => opNo = 1 /\ \A op \in Ops : ~Before(op)
         /\ Before("deletePvc") => Op = "waitPvc"
         /\ Op \notin {"createClass", "createPvc"} => Before("createPvc")
         /\ Before("resizePvc") => Op # "deletePvc" /\ ~Before("deletePvc")
         /\ Op = "resizePvc" => ~Before("deletePvc")
<1>1. /\ caseNo \in 1..5 /\ opNo \in 1..Len(Cases[caseNo])
      /\ Op = Cases[caseNo][opNo] /\ Len(Cases[caseNo]) \in Nat
  BY HereFacts, CaseLengths
<1>2. Op = "createPvc" => opNo = 1 /\ \A op \in Ops : ~Before(op)
  <2>1. Cases[caseNo][opNo] = "createPvc" => opNo = 1
    BY <1>1, CasesFacts
  <2> QED
    BY <1>1, <2>1 DEF Before
<1>3. ASSUME Before("deletePvc") PROVE Op = "waitPvc" /\ caseNo # 5
  <2>1. PICK i \in 1..(opNo - 1) : Cases[caseNo][i] = "deletePvc"
    BY <1>3 DEF Before
  <2>2. i = Len(Cases[caseNo]) - 1 /\ caseNo # 5
    <3>1. i \in 1..Len(Cases[caseNo])
      BY <1>1
    <3> QED
      BY <1>1, <2>1, <3>1, CasesFacts
  <2>3. opNo = Len(Cases[caseNo])
    BY <1>1, <2>1, <2>2
  <2>4. caseNo # 1
    BY <1>1, <2>2, <2>1, CaseLengths
  <2>5. Cases[2][8] = "waitPvc" /\ Cases[3][8] = "waitPvc"
      /\ Cases[4][12] = "waitPvc"
    BY DEF Cases
  <2>6. Len(Cases[2]) = 8 /\ Len(Cases[3]) = 8 /\ Len(Cases[4]) = 12
    BY CaseLengths
  <2>7. CASE caseNo = 2
    <3>1. opNo = 8
      BY <2>3, <2>6, <2>7
    <3>2. Op = Cases[2][8]
      BY <1>1, <2>7, <3>1
    <3> QED
      BY <2>5, <2>7, <3>2
  <2>8. CASE caseNo = 3
    <3>1. opNo = 8
      BY <2>3, <2>6, <2>8
    <3>2. Op = Cases[3][8]
      BY <1>1, <2>8, <3>1
    <3> QED
      BY <2>5, <2>8, <3>2
  <2>9. CASE caseNo = 4
    <3>1. opNo = 12
      BY <2>3, <2>6, <2>9
    <3>2. Op = Cases[4][12]
      BY <1>1, <2>9, <3>1
    <3> QED
      BY <2>5, <2>9, <3>2
  <2>10. caseNo = 2 \/ caseNo = 3 \/ caseNo = 4
    <3>1. caseNo \in 1..5 /\ caseNo # 1 /\ caseNo # 5
      BY <1>1, <2>2, <2>4
    <3> QED
      BY <3>1
  <2> QED
    BY <2>2, <2>7, <2>8, <2>9, <2>10
<1>4. ASSUME Op \notin {"createClass", "createPvc"} PROVE Before("createPvc")
  <2>1. Cases[1][1] = "createClass"
    BY DEF Cases
  <2>2. caseNo # 1
    BY <1>1, <1>4, <2>1, CaseLengths
  <2>3. Cases[caseNo][1] = "createPvc" /\ opNo # 1
    BY <1>1, <1>4, <2>2, CasesFacts, CaseLengths
  <2> QED
    BY <1>1, <2>3 DEF Before
<1>5. ASSUME Before("resizePvc") PROVE caseNo = 5 /\ Op # "deletePvc"
  <2>1. PICK i \in 1..(opNo - 1) : Cases[caseNo][i] = "resizePvc"
    BY <1>5 DEF Before
  <2> QED
    BY <1>1, <2>1, CasesFacts
<1>6. Op = "resizePvc" => caseNo = 5
  BY <1>1, CasesFacts
<1> QED
  BY <1>2, <1>3, <1>4, <1>5, <1>6

(* The case with a resize deletes nothing.                                   *)
LEMMA BeforeFacts ==
  ASSUME CaseTypeOK, NamesInv, InCase, Before("resizePvc")
  PROVE  Before("createPvc") /\ ~Before("deletePvc")
<1>1. /\ caseNo \in 1..5 /\ opNo \in 1..(Len(Cases[caseNo]) + 1)
      /\ Len(Cases[caseNo]) \in Nat
  BY HereFacts, CaseLengths DEF NamesInv, CaseTypeOK
<1>2. PICK i \in 1..(opNo - 1) : Cases[caseNo][i] = "resizePvc"
  BY DEF Before
<1>3. caseNo = 5 /\ i \in 1..Len(Cases[caseNo])
  BY <1>1, <1>2, CasesFacts
<1>4. Cases[5][1] = "createPvc" /\ 1 \in 1..(opNo - 1)
  BY <1>1, <1>2 DEF Cases
<1>5. \A j \in 1..(opNo - 1) : Cases[5][j] # "deletePvc"
  BY <1>1, <1>3, CasesFacts
<1> QED
  BY <1>3, <1>4, <1>5 DEF Before

(* What changes when the program goes on to the next step of a case.         *)
LEMMA ProceedFacts ==
  ASSUME CaseTypeOK, NamesInv, Op \notin {"over", "end"},
         opNo' = opNo + 1, caseNo' = caseNo
  PROVE  /\ InCase /\ InCase'
         /\ opNo' \in Nat \ {0, 1} /\ opNo' <= Len(Cases[caseNo']) + 1
         /\ \A op \in Ops : Before(op)' <=> Before(op) \/ Op = op
         /\ Op' \in {"waitPod", "waitGoodPod"} => Op = "createPod"
         /\ Over("waitNoPod")' =>
              Op # "createPod" /\ (Op = "waitNoPod" \/ Over("waitNoPod"))
<1>1. /\ caseNo \in 1..5 /\ opNo \in 1..Len(Cases[caseNo]) /\ InCase
      /\ Op = Cases[caseNo][opNo] /\ Len(Cases[caseNo]) \in Nat
  BY HereFacts, CaseLengths
<1>2. InCase' /\ opNo' \in Nat \ {0, 1} /\ opNo' <= Len(Cases[caseNo']) + 1
  BY <1>1 DEF InCase
<1>3. \A op \in Ops : Before(op)' <=> Before(op) \/ Op = op
  BY <1>1 DEF Before
<1>4. Op' \in {"waitPod", "waitGoodPod"} => Op = "createPod"
  <2>1. Op' = IF opNo' > Len(Cases[caseNo]) THEN "end" ELSE Cases[caseNo][opNo']
    BY <1>1, CaseLengths DEF Op
  <2>2. ASSUME Op' \in {"waitPod", "waitGoodPod"} PROVE Op = "createPod"
    <3>1. opNo' \in 1..Len(Cases[caseNo]) /\ Op' = Cases[caseNo][opNo']
      BY <1>1, <1>2, <2>1, <2>2
    <3> QED
      BY <1>1, <2>2, <3>1, CasesFacts
  <2> QED
    BY <2>2
<1>5. ASSUME Over("waitNoPod")'
      PROVE  Op # "createPod" /\ (Op = "waitNoPod" \/ Over("waitNoPod"))
  <2>1. /\ Before("waitNoPod")'
        /\ \A i \in (opNo + 1)..Len(Cases[caseNo]) : Cases[caseNo][i] # "waitNoPod"
    BY <1>5 DEF Over
  <2>2. Op # "createPod"
    BY <1>1, <2>1, CasesFacts
  <2>3. Op # "waitNoPod" => Over("waitNoPod")
    BY <1>1, <1>3, <2>1 DEF Over, Ops
  <2> QED
    BY <2>2, <2>3
<1> QED
  BY <1>1, <1>2, <1>3, <1>4, <1>5
(* CasesInv is kept.                                                         *)
LEMMA CaseNextInv == CasesInv /\ [CaseNext]_casesVars => CasesInv'
<1> SUFFICES ASSUME CasesInv, [CaseNext]_casesVars PROVE CasesInv'
  OBVIOUS
<1>0. CaseTypeOK /\ NamesInv /\ ProgressInv
  BY DEF CasesInv
<1> USE GoTestsAssumption DEF volVars, podVars, nameVars, caseVars
<1>1. CASE CreateStorageClass
  <2>1. /\ opNo' = opNo + 1 /\ caseNo' = caseNo /\ goTest' = goTest
        /\ Op \notin {"over", "end"}
    BY <1>1 DEF CreateStorageClass, Proceed
  <2>0. /\ retain' \in BOOLEAN /\ volGoing' \in BOOLEAN /\ podGoing' \in BOOLEAN
        /\ sawPending' \in BOOLEAN /\ caseFailed' \in BOOLEAN
    BY <1>0, <1>1, Zenon DEF CreateStorageClass, Proceed, CaseTypeOK
  <2>2. CaseTypeOK'
    BY <1>0, <1>1, <2>0, <2>1 DEF CreateStorageClass, Proceed, CaseTypeOK
  <2>3. NamesInv'
    BY <1>0, <1>1, <2>1, OrderFacts, ProceedFacts
       DEF CreateStorageClass, Proceed, CaseTypeOK, NamesInv, Ops
  <2>4. ProgressInv'
    BY <1>0, <1>1, <2>1, OrderFacts, ProceedFacts
       DEF CreateStorageClass, Proceed, CaseTypeOK, NamesInv, ProgressInv, Ops
  <2> QED
    BY <2>2, <2>3, <2>4 DEF CasesInv
<1>2. CASE CreatePVC
  <2>1. /\ opNo' = opNo + 1 /\ caseNo' = caseNo /\ goTest' = goTest
        /\ Op \notin {"over", "end"}
    BY <1>2 DEF CreatePVC, Proceed, MakeClaim
  <2>0. /\ retain' \in BOOLEAN /\ volGoing' \in BOOLEAN /\ podGoing' \in BOOLEAN
        /\ sawPending' \in BOOLEAN /\ caseFailed' \in BOOLEAN
    BY <1>0, <1>2, Zenon DEF CreatePVC, Proceed, MakeClaim, CaseTypeOK
  <2>2. CaseTypeOK'
    BY <1>0, <1>2, <2>0, <2>1 DEF CreatePVC, Proceed, MakeClaim, CaseTypeOK
  <2>3. NamesInv'
    BY <1>0, <1>2, <2>1, OrderFacts, ProceedFacts
       DEF CreatePVC, Proceed, MakeClaim, CaseTypeOK, NamesInv, Ops
  <2>4. ProgressInv'
    BY <1>0, <1>2, <2>1, OrderFacts, ProceedFacts
       DEF CreatePVC, Proceed, MakeClaim, CaseTypeOK, NamesInv, ProgressInv,
           Ops
  <2> QED
    BY <2>2, <2>3, <2>4 DEF CasesInv
<1>3. CASE CreatePVCLost
  <2>1. /\ opNo' = opNo + 1 /\ caseNo' = caseNo /\ goTest' = goTest
        /\ Op \notin {"over", "end"}
    BY <1>3 DEF CreatePVCLost, Proceed, MakeClaim
  <2>0. /\ retain' \in BOOLEAN /\ volGoing' \in BOOLEAN /\ podGoing' \in BOOLEAN
        /\ sawPending' \in BOOLEAN /\ caseFailed' \in BOOLEAN
    BY <1>0, <1>3, Zenon DEF CreatePVCLost, Proceed, MakeClaim, CaseTypeOK
  <2>2. CaseTypeOK'
    BY <1>0, <1>3, <2>0, <2>1 DEF CreatePVCLost, Proceed, MakeClaim, CaseTypeOK
  <2>3. NamesInv'
    BY <1>0, <1>3, <2>1, OrderFacts, ProceedFacts
       DEF CreatePVCLost, Proceed, MakeClaim, CaseTypeOK, NamesInv, Ops
  <2>4. ProgressInv'
    BY <1>0, <1>3, <2>1, OrderFacts, ProceedFacts
       DEF CreatePVCLost, Proceed, MakeClaim, CaseTypeOK, NamesInv,
           ProgressInv, Ops
  <2> QED
    BY <2>2, <2>3, <2>4 DEF CasesInv
<1>4. CASE WaitPVCEnds
  <2>1. /\ opNo' = opNo + 1 /\ caseNo' = caseNo /\ goTest' = goTest
        /\ Op \notin {"over", "end"}
    BY <1>4 DEF WaitPVCEnds, Proceed
  <2>0. /\ retain' \in BOOLEAN /\ volGoing' \in BOOLEAN /\ podGoing' \in BOOLEAN
        /\ sawPending' \in BOOLEAN /\ caseFailed' \in BOOLEAN
    BY <1>0, <1>4, Zenon DEF WaitPVCEnds, Proceed, CaseTypeOK
  <2>2. CaseTypeOK'
    BY <1>0, <1>4, <2>0, <2>1 DEF WaitPVCEnds, Proceed, CaseTypeOK
  <2>3. NamesInv'
    BY <1>0, <1>4, <2>1, OrderFacts, ProceedFacts
       DEF WaitPVCEnds, Proceed, CaseTypeOK, NamesInv, Ops
  <2>4. ProgressInv'
    BY <1>0, <1>4, <2>1, OrderFacts, ProceedFacts
       DEF WaitPVCEnds, Proceed, CaseTypeOK, NamesInv, ProgressInv, Ops
  <2> QED
    BY <2>2, <2>3, <2>4 DEF CasesInv
<1>5. CASE WaitPVCTimesOut
  <2>1. /\ opNo' = opNo + 1 /\ caseNo' = caseNo /\ goTest' = goTest
        /\ Op \notin {"over", "end"}
    BY <1>5 DEF WaitPVCTimesOut, Proceed
  <2>0. /\ retain' \in BOOLEAN /\ volGoing' \in BOOLEAN /\ podGoing' \in BOOLEAN
        /\ sawPending' \in BOOLEAN /\ caseFailed' \in BOOLEAN
    BY <1>0, <1>5, Zenon DEF WaitPVCTimesOut, Proceed, CaseTypeOK
  <2>2. CaseTypeOK'
    BY <1>0, <1>5, <2>0, <2>1 DEF WaitPVCTimesOut, Proceed, CaseTypeOK
  <2>3. NamesInv'
    BY <1>0, <1>5, <2>1, OrderFacts, ProceedFacts
       DEF WaitPVCTimesOut, Proceed, CaseTypeOK, NamesInv, Ops
  <2>4. ProgressInv'
    BY <1>0, <1>5, <2>1, OrderFacts, ProceedFacts
       DEF WaitPVCTimesOut, Proceed, CaseTypeOK, NamesInv, ProgressInv, Ops
  <2> QED
    BY <2>2, <2>3, <2>4 DEF CasesInv
<1>6. CASE EditSizePVC
  <2>1. /\ opNo' = opNo + 1 /\ caseNo' = caseNo /\ goTest' = goTest
        /\ Op \notin {"over", "end"}
    BY <1>6 DEF EditSizePVC, Proceed
  <2>0. /\ retain' \in BOOLEAN /\ volGoing' \in BOOLEAN /\ podGoing' \in BOOLEAN
        /\ sawPending' \in BOOLEAN /\ caseFailed' \in BOOLEAN
    BY <1>0, <1>6, Zenon DEF EditSizePVC, Proceed, CaseTypeOK
  <2>2. CaseTypeOK'
    BY <1>0, <1>6, <2>0, <2>1 DEF EditSizePVC, Proceed, CaseTypeOK
  <2>3. NamesInv'
    BY <1>0, <1>6, <2>1, OrderFacts, ProceedFacts
       DEF EditSizePVC, Proceed, CaseTypeOK, NamesInv, Ops
  <2>4. ProgressInv'
    BY <1>0, <1>6, <2>1, OrderFacts, ProceedFacts
       DEF EditSizePVC, Proceed, CaseTypeOK, NamesInv, ProgressInv, Ops
  <2> QED
    BY <2>2, <2>3, <2>4 DEF CasesInv
<1>7. CASE DeletePVC
  <2>1. /\ opNo' = opNo + 1 /\ caseNo' = caseNo /\ goTest' = goTest
        /\ Op \notin {"over", "end"}
    BY <1>7 DEF DeletePVC, Proceed
  <2>0. /\ retain' \in BOOLEAN /\ volGoing' \in BOOLEAN /\ podGoing' \in BOOLEAN
        /\ sawPending' \in BOOLEAN /\ caseFailed' \in BOOLEAN
    BY <1>0, <1>7, Zenon DEF DeletePVC, Proceed, CaseTypeOK
  <2>2. CaseTypeOK'
    BY <1>0, <1>7, <2>0, <2>1 DEF DeletePVC, Proceed, CaseTypeOK
  <2>3. NamesInv'
    BY <1>0, <1>7, <2>1, OrderFacts, ProceedFacts
       DEF DeletePVC, Proceed, CaseTypeOK, NamesInv, Ops
  <2>4. ProgressInv'
    BY <1>0, <1>7, <2>1, OrderFacts, ProceedFacts
       DEF DeletePVC, Proceed, CaseTypeOK, NamesInv, ProgressInv, Ops
  <2> QED
    BY <2>2, <2>3, <2>4 DEF CasesInv
<1>8. CASE CreatePod
  <2>1. /\ opNo' = opNo + 1 /\ caseNo' = caseNo /\ goTest' = goTest
        /\ Op \notin {"over", "end"}
    BY <1>8 DEF CreatePod, Proceed, MakePod
  <2>0. /\ retain' \in BOOLEAN /\ volGoing' \in BOOLEAN /\ podGoing' \in BOOLEAN
        /\ sawPending' \in BOOLEAN /\ caseFailed' \in BOOLEAN
    BY <1>0, <1>8, Zenon DEF CreatePod, Proceed, MakePod, CaseTypeOK
  <2>2. CaseTypeOK'
    BY <1>0, <1>8, <2>0, <2>1 DEF CreatePod, Proceed, MakePod, CaseTypeOK
  <2>3. NamesInv'
    BY <1>0, <1>8, <2>1, OrderFacts, ProceedFacts
       DEF CreatePod, Proceed, MakePod, CaseTypeOK, NamesInv, Ops
  <2>4. ProgressInv'
    BY <1>0, <1>8, <2>1, OrderFacts, ProceedFacts
       DEF CreatePod, Proceed, MakePod, CaseTypeOK, NamesInv, ProgressInv, Ops
  <2> QED
    BY <2>2, <2>3, <2>4 DEF CasesInv
<1>9. CASE CreatePodLost
  <2>1. /\ opNo' = opNo + 1 /\ caseNo' = caseNo /\ goTest' = goTest
        /\ Op \notin {"over", "end"}
    BY <1>9 DEF CreatePodLost, Proceed, MakePod
  <2>0. /\ retain' \in BOOLEAN /\ volGoing' \in BOOLEAN /\ podGoing' \in BOOLEAN
        /\ sawPending' \in BOOLEAN /\ caseFailed' \in BOOLEAN
    BY <1>0, <1>9, Zenon DEF CreatePodLost, Proceed, MakePod, CaseTypeOK
  <2>2. CaseTypeOK'
    BY <1>0, <1>9, <2>0, <2>1 DEF CreatePodLost, Proceed, MakePod, CaseTypeOK
  <2>3. NamesInv'
    BY <1>0, <1>9, <2>1, OrderFacts, ProceedFacts
       DEF CreatePodLost, Proceed, MakePod, CaseTypeOK, NamesInv, Ops
  <2>4. ProgressInv'
    BY <1>0, <1>9, <2>1, OrderFacts, ProceedFacts
       DEF CreatePodLost, Proceed, MakePod, CaseTypeOK, NamesInv, ProgressInv,
           Ops
  <2> QED
    BY <2>2, <2>3, <2>4 DEF CasesInv
<1>10. CASE CreatePodFails
  <2>1. /\ opNo' = opNo + 1 /\ caseNo' = caseNo /\ goTest' = goTest
        /\ Op \notin {"over", "end"}
    BY <1>10 DEF CreatePodFails, Proceed
  <2>0. /\ retain' \in BOOLEAN /\ volGoing' \in BOOLEAN /\ podGoing' \in BOOLEAN
        /\ sawPending' \in BOOLEAN /\ caseFailed' \in BOOLEAN
    BY <1>0, <1>10, Zenon DEF CreatePodFails, Proceed, CaseTypeOK
  <2>2. CaseTypeOK'
    BY <1>0, <1>10, <2>0, <2>1 DEF CreatePodFails, Proceed, CaseTypeOK
  <2>3. NamesInv'
    BY <1>0, <1>10, <2>1, OrderFacts, ProceedFacts
       DEF CreatePodFails, Proceed, CaseTypeOK, NamesInv, Ops
  <2>4. ProgressInv'
    BY <1>0, <1>10, <2>1, OrderFacts, ProceedFacts
       DEF CreatePodFails, Proceed, CaseTypeOK, NamesInv, ProgressInv, Ops
  <2> QED
    BY <2>2, <2>3, <2>4 DEF CasesInv
<1>11. CASE WaitPodStatus
  <2>1. /\ opNo' = opNo + 1 /\ caseNo' = caseNo /\ goTest' = goTest
        /\ Op \notin {"over", "end"}
    BY <1>11 DEF WaitPodStatus, Proceed
  <2>0. /\ retain' \in BOOLEAN /\ volGoing' \in BOOLEAN /\ podGoing' \in BOOLEAN
        /\ sawPending' \in BOOLEAN /\ caseFailed' \in BOOLEAN
    BY <1>0, <1>11, Zenon DEF WaitPodStatus, Proceed, CaseTypeOK
  <2>2. CaseTypeOK'
    BY <1>0, <1>11, <2>0, <2>1 DEF WaitPodStatus, Proceed, CaseTypeOK
  <2>3. NamesInv'
    BY <1>0, <1>11, <2>1, OrderFacts, ProceedFacts
       DEF WaitPodStatus, Proceed, CaseTypeOK, NamesInv, Ops
  <2>4. ProgressInv'
    BY <1>0, <1>11, <2>1, OrderFacts, ProceedFacts
       DEF WaitPodStatus, Proceed, CaseTypeOK, NamesInv, ProgressInv, Ops
  <2> QED
    BY <2>2, <2>3, <2>4 DEF CasesInv
<1>12. CASE DeletePod
  <2>1. /\ opNo' = opNo + 1 /\ caseNo' = caseNo /\ goTest' = goTest
        /\ Op \notin {"over", "end"}
    BY <1>12 DEF DeletePod, Proceed
  <2>0. /\ retain' \in BOOLEAN /\ volGoing' \in BOOLEAN /\ podGoing' \in BOOLEAN
        /\ sawPending' \in BOOLEAN /\ caseFailed' \in BOOLEAN
    BY <1>0, <1>12, Zenon DEF DeletePod, Proceed, CaseTypeOK
  <2>2. CaseTypeOK'
    BY <1>0, <1>12, <2>0, <2>1 DEF DeletePod, Proceed, CaseTypeOK
  <2>3. NamesInv'
    BY <1>0, <1>12, <2>1, OrderFacts, ProceedFacts
       DEF DeletePod, Proceed, CaseTypeOK, NamesInv, Ops
  <2>4. ProgressInv'
    BY <1>0, <1>12, <2>1, OrderFacts, ProceedFacts
       DEF DeletePod, Proceed, CaseTypeOK, NamesInv, ProgressInv, Ops
  <2> QED
    BY <2>2, <2>3, <2>4 DEF CasesInv
<1>13. CASE WaitDeletePod
  <2>1. /\ opNo' = opNo + 1 /\ caseNo' = caseNo /\ goTest' = goTest
        /\ Op \notin {"over", "end"}
    BY <1>13 DEF WaitDeletePod, Proceed
  <2>0. /\ retain' \in BOOLEAN /\ volGoing' \in BOOLEAN /\ podGoing' \in BOOLEAN
        /\ sawPending' \in BOOLEAN /\ caseFailed' \in BOOLEAN
    BY <1>0, <1>13, Zenon DEF WaitDeletePod, Proceed, CaseTypeOK
  <2>2. CaseTypeOK'
    BY <1>0, <1>13, <2>0, <2>1 DEF WaitDeletePod, Proceed, CaseTypeOK
  <2>3. NamesInv'
    BY <1>0, <1>13, <2>1, OrderFacts, ProceedFacts
       DEF WaitDeletePod, Proceed, CaseTypeOK, NamesInv, Ops
  <2>4. ProgressInv'
    BY <1>0, <1>13, <2>1, OrderFacts, ProceedFacts
       DEF WaitDeletePod, Proceed, CaseTypeOK, NamesInv, ProgressInv, Ops
  <2> QED
    BY <2>2, <2>3, <2>4 DEF CasesInv
<1>14. CASE OpFails
  <2>1. /\ opNo' = opNo + 1 /\ caseNo' = caseNo /\ goTest' = goTest
        /\ Op \notin {"over", "end"}
    BY <1>14 DEF OpFails, Proceed
  <2>0. /\ retain' \in BOOLEAN /\ volGoing' \in BOOLEAN /\ podGoing' \in BOOLEAN
        /\ sawPending' \in BOOLEAN /\ caseFailed' \in BOOLEAN
    BY <1>0, <1>14, Zenon DEF OpFails, Proceed, CaseTypeOK
  <2>2. CaseTypeOK'
    BY <1>0, <1>14, <2>0, <2>1 DEF OpFails, Proceed, CaseTypeOK
  <2>3. NamesInv'
    BY <1>0, <1>14, <2>1, OrderFacts, ProceedFacts
       DEF OpFails, Proceed, CaseTypeOK, NamesInv, Ops
  <2>4. ProgressInv'
    BY <1>0, <1>14, <2>1, OrderFacts, ProceedFacts
       DEF OpFails, Proceed, CaseTypeOK, NamesInv, ProgressInv, Ops
  <2> QED
    BY <2>2, <2>3, <2>4 DEF CasesInv
<1>15. CASE WaitPVCSees
  <2>1. /\ opNo' = opNo /\ caseNo' = caseNo /\ Op' = Op /\ InCase' = InCase
        /\ \A op \in Ops : (Before(op)' <=> Before(op)) /\ (Over(op)' <=> Over(op))
    BY <1>15 DEF WaitPVCSees, Op, InCase, Before, Over
  <2>0. /\ retain' \in BOOLEAN /\ volGoing' \in BOOLEAN /\ podGoing' \in BOOLEAN
        /\ sawPending' \in BOOLEAN /\ caseFailed' \in BOOLEAN
    BY <1>0, <1>15, Zenon DEF WaitPVCSees, CaseTypeOK
  <2>2. CaseTypeOK'
    BY <1>0, <1>15, <2>0 DEF WaitPVCSees, CaseTypeOK
  <2>3. NamesInv'
    BY <1>0, <1>15, <2>1 DEF WaitPVCSees, CaseTypeOK, NamesInv, Ops
  <2>4. ProgressInv'
    BY <1>0, <1>15, <2>1, BeforeFacts
       DEF WaitPVCSees, CaseTypeOK, NamesInv, ProgressInv, Ops
  <2> QED
    BY <2>2, <2>3, <2>4 DEF CasesInv
<1>16. CASE VolumeBinds
  <2>1. /\ opNo' = opNo /\ caseNo' = caseNo /\ Op' = Op /\ InCase' = InCase
        /\ \A op \in Ops : (Before(op)' <=> Before(op)) /\ (Over(op)' <=> Over(op))
    BY <1>16 DEF VolumeBinds, Op, InCase, Before, Over
  <2>0. /\ retain' \in BOOLEAN /\ volGoing' \in BOOLEAN /\ podGoing' \in BOOLEAN
        /\ sawPending' \in BOOLEAN /\ caseFailed' \in BOOLEAN
    BY <1>0, <1>16, Zenon DEF VolumeBinds, CaseTypeOK
  <2>2. CaseTypeOK'
    BY <1>0, <1>16, <2>0 DEF VolumeBinds, CaseTypeOK
  <2>3. NamesInv'
    BY <1>0, <1>16, <2>1 DEF VolumeBinds, CaseTypeOK, NamesInv, Ops
  <2>4. ProgressInv'
    BY <1>0, <1>16, <2>1, BeforeFacts
       DEF VolumeBinds, CaseTypeOK, NamesInv, ProgressInv, Ops
  <2> QED
    BY <2>2, <2>3, <2>4 DEF CasesInv
<1>17. CASE VolumeGoes
  <2>1. /\ opNo' = opNo /\ caseNo' = caseNo /\ Op' = Op /\ InCase' = InCase
        /\ \A op \in Ops : (Before(op)' <=> Before(op)) /\ (Over(op)' <=> Over(op))
    BY <1>17 DEF VolumeGoes, Op, InCase, Before, Over
  <2>0. /\ retain' \in BOOLEAN /\ volGoing' \in BOOLEAN /\ podGoing' \in BOOLEAN
        /\ sawPending' \in BOOLEAN /\ caseFailed' \in BOOLEAN
    BY <1>0, <1>17, Zenon DEF VolumeGoes, CaseTypeOK
  <2>2. CaseTypeOK'
    BY <1>0, <1>17, <2>0 DEF VolumeGoes, CaseTypeOK
  <2>3. NamesInv'
    BY <1>0, <1>17, <2>1 DEF VolumeGoes, CaseTypeOK, NamesInv, Ops
  <2>4. ProgressInv'
    BY <1>0, <1>17, <2>1, BeforeFacts
       DEF VolumeGoes, CaseTypeOK, NamesInv, ProgressInv, Ops
  <2> QED
    BY <2>2, <2>3, <2>4 DEF CasesInv
<1>18. CASE PodStarts
  <2>1. /\ opNo' = opNo /\ caseNo' = caseNo /\ Op' = Op /\ InCase' = InCase
        /\ \A op \in Ops : (Before(op)' <=> Before(op)) /\ (Over(op)' <=> Over(op))
    BY <1>18 DEF PodStarts, Op, InCase, Before, Over
  <2>0. /\ retain' \in BOOLEAN /\ volGoing' \in BOOLEAN /\ podGoing' \in BOOLEAN
        /\ sawPending' \in BOOLEAN /\ caseFailed' \in BOOLEAN
    BY <1>0, <1>18, Zenon DEF PodStarts, CaseTypeOK
  <2>2. CaseTypeOK'
    BY <1>0, <1>18, <2>0 DEF PodStarts, CaseTypeOK
  <2>3. NamesInv'
    BY <1>0, <1>18, <2>1 DEF PodStarts, CaseTypeOK, NamesInv, Ops
  <2>4. ProgressInv'
    BY <1>0, <1>18, <2>1, BeforeFacts
       DEF PodStarts, CaseTypeOK, NamesInv, ProgressInv, Ops
  <2> QED
    BY <2>2, <2>3, <2>4 DEF CasesInv
<1>19. CASE \E state \in {"Completed", "Error"} : PodEnds(state)
  <2>1. /\ opNo' = opNo /\ caseNo' = caseNo /\ Op' = Op /\ InCase' = InCase
        /\ \A op \in Ops : (Before(op)' <=> Before(op)) /\ (Over(op)' <=> Over(op))
    BY <1>19 DEF PodEnds, Op, InCase, Before, Over
  <2>0. /\ retain' \in BOOLEAN /\ volGoing' \in BOOLEAN /\ podGoing' \in BOOLEAN
        /\ sawPending' \in BOOLEAN /\ caseFailed' \in BOOLEAN
    BY <1>0, <1>19, Zenon DEF PodEnds, CaseTypeOK
  <2>2. CaseTypeOK'
    BY <1>0, <1>19, <2>0 DEF PodEnds, CaseTypeOK
  <2>3. NamesInv'
    BY <1>0, <1>19, <2>1 DEF PodEnds, CaseTypeOK, NamesInv, Ops
  <2>4. ProgressInv'
    BY <1>0, <1>19, <2>1, BeforeFacts
       DEF PodEnds, CaseTypeOK, NamesInv, ProgressInv, Ops
  <2> QED
    BY <2>2, <2>3, <2>4 DEF CasesInv
<1>20. CASE PodGoes
  <2>1. /\ opNo' = opNo /\ caseNo' = caseNo /\ Op' = Op /\ InCase' = InCase
        /\ \A op \in Ops : (Before(op)' <=> Before(op)) /\ (Over(op)' <=> Over(op))
    BY <1>20 DEF PodGoes, Op, InCase, Before, Over
  <2>0. /\ retain' \in BOOLEAN /\ volGoing' \in BOOLEAN /\ podGoing' \in BOOLEAN
        /\ sawPending' \in BOOLEAN /\ caseFailed' \in BOOLEAN
    BY <1>0, <1>20, Zenon DEF PodGoes, CaseTypeOK
  <2>2. CaseTypeOK'
    BY <1>0, <1>20, <2>0 DEF PodGoes, CaseTypeOK
  <2>3. NamesInv'
    BY <1>0, <1>20, <2>1 DEF PodGoes, CaseTypeOK, NamesInv, Ops
  <2>4. ProgressInv'
    BY <1>0, <1>20, <2>1, BeforeFacts
       DEF PodGoes, CaseTypeOK, NamesInv, ProgressInv, Ops
  <2> QED
    BY <2>2, <2>3, <2>4 DEF CasesInv
<1>21. CASE NextCase
  <2>0. /\ retain' \in BOOLEAN /\ volGoing' \in BOOLEAN /\ podGoing' \in BOOLEAN
        /\ sawPending' \in BOOLEAN /\ caseFailed' \in BOOLEAN
    BY <1>0, <1>21, Zenon DEF NextCase, CaseTypeOK
  <2>1. CaseTypeOK'
    BY <1>0, <1>21, <2>0, HereFacts, CaseLengths DEF NextCase, CaseTypeOK
  <2>2. opNo' = 1 /\ pvcName' = 0 /\ podName' = 0 /\ mounted' = {}
    BY <1>0, <1>21, HereFacts DEF NextCase, NamesInv
  <2>3. \A op \in Ops : ~Before(op)' /\ ~Over(op)'
    BY <2>2 DEF Before, Over
  <2>4. NamesInv'
    BY <1>0, <1>21, <2>1, <2>2, CaseLengths
       DEF NextCase, NamesInv, InCase, CaseTypeOK
  <2>5. InCase' => Op' \notin {"waitPod", "waitGoodPod"}
    <3>1. \A c \in 1..5 : Cases[c][1] \in {"createClass", "createPvc"}
      BY DEF Cases
    <3> QED
      BY <2>2, <3>1, CaseLengths DEF InCase, Op
  <2>6. ProgressInv'
    BY <2>3, <2>5 DEF ProgressInv, Ops
  <2> QED
    BY <2>1, <2>4, <2>6 DEF CasesInv
<1>22. CASE GoTestDies
  <2>0. /\ retain' \in BOOLEAN /\ volGoing' \in BOOLEAN /\ podGoing' \in BOOLEAN
        /\ sawPending' \in BOOLEAN /\ caseFailed' \in BOOLEAN
    BY <1>0, <1>22, Zenon DEF GoTestDies, CaseTypeOK
  <2>1. CaseTypeOK'
    BY <1>0, <1>22, <2>0, HereFacts, CaseLengths DEF GoTestDies, CaseTypeOK
  <2>2. opNo' = 1 /\ pvcName' = 0 /\ podName' = 0 /\ mounted' = {}
    BY <1>0, <1>22, HereFacts DEF GoTestDies, NamesInv
  <2>3. \A op \in Ops : ~Before(op)' /\ ~Over(op)'
    BY <2>2 DEF Before, Over
  <2>4. NamesInv'
    BY <1>0, <1>22, <2>1, <2>2, CaseLengths
       DEF GoTestDies, NamesInv, InCase, CaseTypeOK
  <2>5. InCase' => Op' \notin {"waitPod", "waitGoodPod"}
    <3>1. \A c \in 1..5 : Cases[c][1] \in {"createClass", "createPvc"}
      BY DEF Cases
    <3> QED
      BY <2>2, <3>1, CaseLengths DEF InCase, Op
  <2>6. ProgressInv'
    BY <2>3, <2>5 DEF ProgressInv, Ops
  <2> QED
    BY <2>1, <2>4, <2>6 DEF CasesInv
<1>23. CASE GoTestAgain
  <2>0. /\ retain' \in BOOLEAN /\ volGoing' \in BOOLEAN /\ podGoing' \in BOOLEAN
        /\ sawPending' \in BOOLEAN /\ caseFailed' \in BOOLEAN
    BY <1>0, <1>23, Zenon DEF GoTestAgain, CaseTypeOK
  <2>1. CaseTypeOK'
    BY <1>0, <1>23, <2>0, HereFacts, CaseLengths DEF GoTestAgain, CaseTypeOK
  <2>2. opNo' = 1 /\ pvcName' = 0 /\ podName' = 0 /\ mounted' = {}
    BY <1>0, <1>23, HereFacts DEF GoTestAgain, NamesInv
  <2>3. \A op \in Ops : ~Before(op)' /\ ~Over(op)'
    BY <2>2 DEF Before, Over
  <2>4. NamesInv'
    BY <1>0, <1>23, <2>1, <2>2, CaseLengths
       DEF GoTestAgain, NamesInv, InCase, CaseTypeOK
  <2>5. InCase' => Op' \notin {"waitPod", "waitGoodPod"}
    <3>1. \A c \in 1..5 : Cases[c][1] \in {"createClass", "createPvc"}
      BY DEF Cases
    <3> QED
      BY <2>2, <3>1, CaseLengths DEF InCase, Op
  <2>6. ProgressInv'
    BY <2>3, <2>5 DEF ProgressInv, Ops
  <2> QED
    BY <2>1, <2>4, <2>6 DEF CasesInv
<1>24. CASE UNCHANGED casesVars
  BY <1>0, <1>24, HereFacts, CaseLengths
     DEF casesVars, Op, InCase, Before, Over, CasesInv, CaseTypeOK, NamesInv,
         ProgressInv
<1> QED
  BY <1>1, <1>2, <1>3, <1>4, <1>5, <1>6, <1>7, <1>8, <1>9, <1>10, <1>11, <1>12,
     <1>13, <1>14, <1>15, <1>16, <1>17, <1>18, <1>19, <1>20, <1>21, <1>22, <1>23,
     <1>24
     DEF CaseNext, CaseStep

(* CasesInv holds at the first start.                                        *)
LEMMA CaseInitInv == CaseInit => CasesInv
<1> SUFFICES ASSUME CaseInit PROVE CasesInv
  OBVIOUS
<1>1. CaseTypeOK
  <2>1. /\ retain \in BOOLEAN /\ volGoing \in BOOLEAN /\ podGoing \in BOOLEAN
        /\ sawPending \in BOOLEAN /\ caseFailed \in BOOLEAN
    BY Zenon DEF CaseInit
  <2> QED
    BY <2>1, CaseLengths, GoTestsAssumption DEF CaseInit, CaseTypeOK
<1>2. NamesInv
  BY CaseLengths DEF CaseInit, NamesInv, InCase
<1>3. ProgressInv
  <2>1. Op = "createClass" /\ \A op \in Ops : ~Before(op) /\ ~Over(op)
    BY CaseLengths DEF CaseInit, Op, Before, Over, Cases
  <2> QED
    BY <2>1 DEF ProgressInv, Ops
<1> QED
  BY <1>1, <1>2, <1>3 DEF CasesInv

(* The invariant of the cases.                                               *)
THEOREM CasesInvariance == CaseSpec => []CasesInv
  BY CaseInitInv, CaseNextInv, PTL DEF CaseSpec

(* A case that passes: see CasePassed.                                       *)
THEOREM CasePassedAlways == CaseSpec => []CasePassed
<1>1. CasesInv => CasePassed
  <2> SUFFICES ASSUME CasesInv, Op = "end", ~caseFailed PROVE CasePassed
    BY DEF CasePassed
  <2>1. CaseTypeOK /\ NamesInv /\ ProgressInv
    BY DEF CasesInv
  <2>2. /\ InCase /\ caseNo \in 1..5 /\ opNo = Len(Cases[caseNo]) + 1
        /\ Len(Cases[caseNo]) \in Nat
    BY <2>1, HereFacts, CaseLengths
  <2>3. /\ \A op \in Ops, i \in 1..Len(Cases[caseNo]) :
             Cases[caseNo][i] = op => Before(op)
        /\ \A op \in Ops : Before(op) => Over(op)
    BY <2>2 DEF Before, Over
  <2>4. CASE caseNo \in WithPods
    <3>1. Before("createPvc") /\ Before("waitNoPod") /\ Before("deletePvc")
      <4>1. caseNo \in 2..4 /\ caseNo \in 2..5
        BY <2>4 DEF WithPods
      <4>2. Before("createPvc")
        BY <2>3, <4>1, CaseContents DEF Ops
      <4>3. Before("waitNoPod")
        BY <2>3, <4>1, CaseContents DEF Ops
      <4>4. Before("deletePvc")
        BY <2>3, <4>1, CaseContents DEF Ops
      <4> QED
        BY <4>2, <4>3, <4>4
    <3>2. Before("waitPod") \/ Before("waitGoodPod")
      <4>1. PICK i \in 1..Len(Cases[caseNo]) :
                 Cases[caseNo][i] \in {"waitPod", "waitGoodPod"}
        BY <2>4, CaseContents DEF WithPods
      <4>2. Cases[caseNo][i] = "waitPod" => Before("waitPod")
        BY <2>3 DEF Ops
      <4>3. Cases[caseNo][i] = "waitGoodPod" => Before("waitGoodPod")
        BY <2>3 DEF Ops
      <4> QED
        BY <4>1, <4>2, <4>3
    <3>3. pvcName # 0 /\ mounted = {pvcName} /\ (vol = "none" \/ volGoing)
      BY <2>1, <2>2, <3>1, <3>2 DEF ProgressInv
    <3>4. pod = "none"
      BY <2>1, <2>2, <2>3, <3>1 DEF ProgressInv, Ops
    <3>5. pvcName = volId
      BY <2>1, <3>3 DEF NamesInv
    <3>6. mounted = {volId} /\ mounted # {0}
      BY <3>3, <3>5
    <3> QED
      BY <2>4, <3>3, <3>4, <3>6 DEF CasePassed, WithPods, Resizing
  <2>5. CASE caseNo = Resizing
    <3>1. Before("resizePvc")
      BY <2>3, <2>5, CaseContents DEF Resizing, Ops
    <3>2. Before("createPvc") /\ ~Before("deletePvc")
      BY <2>1, <2>2, <3>1, BeforeFacts
    <3> QED
      BY <2>1, <2>2, <2>5, <3>1, <3>2
         DEF CasePassed, ProgressInv, NamesInv, WithPods, Resizing
  <2> QED
    BY <2>4, <2>5 DEF CasePassed
<1> QED
  BY <1>1, CasesInvariance, PTL

(* Whose claims and pods a case deletes: see DeletesOwn.                     *)
THEOREM DeletesOwnAlways == CaseSpec => DeletesOwn
<1> DEFINE Own == /\ volGoing' /\ ~volGoing => volId = pvcName
                  /\ podGoing' /\ ~podGoing => podId = podName
<1>1. CasesInv /\ [CaseNext]_casesVars => [Own]_casesVars
  <2> SUFFICES ASSUME CasesInv, [CaseNext]_casesVars PROVE Own
    OBVIOUS
  <2>1. CASE DeletePVC \/ DeletePod
    <3>1. pvcName # 0 => volId = pvcName
      BY DEF CasesInv, NamesInv
    <3>2. podName # 0 => podId = podName
      BY DEF CasesInv, NamesInv
    <3>3. DeletePVC => pvcName # 0 /\ podGoing' = podGoing
      BY DEF DeletePVC, podVars
    <3>4. DeletePod => podName # 0 /\ volGoing' = volGoing
      BY DEF DeletePod, volVars
    <3>5. CASE DeletePVC
      BY <3>1, <3>3, <3>5
    <3>6. CASE DeletePod
      BY <3>2, <3>4, <3>6
    <3> QED
      BY <2>1, <3>5, <3>6
  <2>2. CASE VolumeGoes \/ PodGoes
    BY <2>2 DEF VolumeGoes, PodGoes, volVars, podVars
  <2>3. ~(DeletePVC \/ DeletePod \/ VolumeGoes \/ PodGoes)
          => UNCHANGED <<volGoing, podGoing>>
    BY DEF CaseNext, CaseStep, casesVars, volVars, podVars, CreateStorageClass,
           CreatePVC, CreatePVCLost, MakeClaim, WaitPVCEnds, WaitPVCSees,
           WaitPVCTimesOut, EditSizePVC, CreatePod, CreatePodLost, MakePod,
           CreatePodFails, WaitPodStatus, WaitDeletePod, OpFails, NextCase,
           GoTestDies, GoTestAgain, VolumeBinds, PodStarts, PodEnds
  <2> QED
    BY <2>1, <2>2, <2>3
<1> QED
  BY <1>1, CasesInvariance, PTL DEF CaseSpec, DeletesOwn
-----------------------------------------------------------------------------
(* The benchmark case_600.                                                   *)

(* CycleInv holds at the start.                                              *)
LEMMA CycleInitInv == CycleInit => CycleInv
  BY FS_EmptySet DEF CycleInit, CycleInv, ClaimPhases, PodPhases, CyclePcs

(* Counting what is new in a list keeps counter and marks together, as the   *)
(* two sets have nothing in common.                                          *)
LEMMA CountNew ==
  ASSUME NEW S, IsFiniteSet(S), NEW marks \in SUBSET S,
         NEW seen \in SUBSET (S \ marks)
  PROVE  /\ IsFiniteSet(marks \cup seen)
         /\ Cardinality(marks \cup seen) = Cardinality(marks) + Cardinality(seen)
<1>1. IsFiniteSet(marks) /\ IsFiniteSet(seen)
  BY FS_Subset
<1>2. Cardinality(marks \cap seen) = 0
  <2>1. marks \cap seen = {}
    OBVIOUS
  <2> QED
    BY <2>1, FS_EmptySet, Zenon
<1>3. /\ IsFiniteSet(marks \cup seen)
      /\ Cardinality(marks \cup seen) =
           Cardinality(marks) + Cardinality(seen) - Cardinality(marks \cap seen)
  BY <1>1, FS_Union, Zenon
<1>4. Cardinality(marks) \in Nat /\ Cardinality(seen) \in Nat
  BY <1>1, FS_CardinalityType
<1> QED
  BY <1>2, <1>3, <1>4

(* A counter that has reached the number of names has them all.              *)
LEMMA CountedAll ==
  ASSUME NEW S, IsFiniteSet(S), NEW marks \in SUBSET S,
         Cardinality(marks) >= Cardinality(S)
  PROVE  marks = S
  BY FS_Subset, FS_CardinalityType

(* CycleInv is kept.                                                         *)
LEMMA CycleNextInv == CycleInv /\ [CycleNext]_cycleVars => CycleInv'
<1> SUFFICES ASSUME CycleInv, [CycleNext]_cycleVars PROVE CycleInv'
  OBVIOUS
<1>0. IsFiniteSet(pvcNames) /\ IsFiniteSet(podNames)
  BY ClaimNamesAssumption, FS_Subset DEF CycleInv
<1> USE
   DEF CycleInv, ClaimPhases, PodPhases, CyclePcs, cycleObjects, boundVars,
       podMapVars
<1>1. CASE \E c \in ClaimNames : CreateCyclePVC(c)
  BY <1>1 DEF CreateCyclePVC
<1>2. CASE \E c \in ClaimNames : CreateCyclePVCFails(c)
  BY <1>2 DEF CreateCyclePVCFails
<1>3. CASE \E c \in ClaimNames : CreateCyclePod(c)
  BY <1>3 DEF CreateCyclePod
<1>4. CASE \E c \in ClaimNames : CreateCyclePodFails(c)
  BY <1>4 DEF CreateCyclePodFails
<1>5. CASE \E c \in ClaimNames : CycleBinds(c)
  BY <1>5 DEF CycleBinds
<1>6. CASE \E c \in ClaimNames, phase \in {"Succeeded", "Failed"} :
                CyclePodEnds(c, phase)
  BY <1>6 DEF CyclePodEnds
<1>7. CASE NextLoop
  <2>1. cyclePc = "bound" => boundMarks = pvcNames
    BY <1>7, <1>0, CountedAll DEF NextLoop
  <2>2. cyclePc = "succeed" => goodMarks = podNames
    BY <1>7, <1>0, CountedAll DEF NextLoop
  <2> QED
    BY <1>7, <2>1, <2>2 DEF NextLoop
<1>8. CASE PollClaims
  <2> DEFINE seen == {c \in pvcNames \ boundMarks : claimPhase[c] = "Bound"}
  <2>1. boundMarks' = boundMarks \cup seen /\ bounded' = bounded + Cardinality(seen)
    BY <1>8 DEF PollClaims
  <2>2. boundMarks \in SUBSET pvcNames /\ seen \in SUBSET (pvcNames \ boundMarks)
    OBVIOUS
  <2>3. bounded' = Cardinality(boundMarks')
    BY <2>1, <2>2, <1>0, CountNew
  <2> QED
    BY <1>8, <2>1, <2>3 DEF PollClaims
<1>9. CASE PollPods
  <2> DEFINE seen == {c \in podNames \ goodMarks : podPhase[c] = "Succeeded"}
  <2>1. goodMarks' = goodMarks \cup seen /\ succeeded' = succeeded + Cardinality(seen)
    BY <1>9 DEF PollPods
  <2>2. goodMarks \in SUBSET podNames /\ seen \in SUBSET (podNames \ goodMarks)
    OBVIOUS
  <2>3. Cardinality(goodMarks \cup seen) = Cardinality(goodMarks) + Cardinality(seen)
    BY <2>2, <1>0, CountNew
  <2>4. succeeded' = Cardinality(goodMarks')
    BY <2>1, <2>3
  <2> QED
    BY <1>9, <2>1, <2>4 DEF PollPods
<1>10. CASE UNCHANGED cycleVars
  BY <1>10 DEF cycleVars
<1> QED
  BY <1>1, <1>2, <1>3, <1>4, <1>5, <1>6, <1>7, <1>8, <1>9, <1>10 DEF CycleNext

(* The benchmark measures all it has made: see CycleMeasuresAll.             *)
THEOREM CycleMeasuresAllAlways == CycleSpec => []CycleMeasuresAll
<1>1. CycleInv => CycleMeasuresAll
  BY DEF CycleInv, CycleMeasuresAll
<1> QED
  BY <1>1, CycleInitInv, CycleNextInv, PTL DEF CycleSpec
-----------------------------------------------------------------------------
(* The parallel benchmarks of lvm_func_test.go.                              *)

(* BenchInv holds at the start.                                              *)
LEMMA BenchInitInv == BenchInit => BenchInv
<1> SUFFICES ASSUME BenchInit PROVE BenchInv
  OBVIOUS
<1>1. Storing = {} /\ Cardinality({}) = 0
  BY FS_EmptySet DEF BenchInit, Storing
<1> QED
  BY <1>1, BenchAssumption DEF BenchInit, BenchInv

(* BenchInv is kept: an iteration that is handed out adds a goroutine that   *)
(* has still to store, a store takes one away.                               *)
LEMMA BenchNextInv == BenchInv /\ [BenchNext]_benchVars => BenchInv'
<1> SUFFICES ASSUME BenchInv, [BenchNext]_benchVars PROVE BenchInv'
  OBVIOUS
<1>1. CASE UNCHANGED benchVars
  BY <1>1 DEF benchVars, BenchInv, Storing
<1>2. IsFiniteSet(Storing) /\ Cardinality(Storing) \in Nat
  BY BenchAssumption, FS_Subset, FS_CardinalityType DEF Storing
<1>3. ASSUME NEW w \in Goroutines, PbNext(w) PROVE BenchInv'
  <2>1. Storing' = Storing \cup {w} /\ w \notin Storing
    BY <1>3 DEF PbNext, BenchGoto, BenchInv, Storing
  <2>2. Cardinality(Storing') = Cardinality(Storing) + 1
    BY <1>2, <2>1, FS_AddElement
  <2> QED
    BY <1>2, <1>3, <2>2, BenchAssumption DEF PbNext, BenchGoto, BenchInv
<1>4. ASSUME NEW w \in Goroutines, PbOver(w) \/ LoadI(w) \/ UseI(w) PROVE BenchInv'
  <2>1. Storing' = Storing
    BY <1>4 DEF PbOver, LoadI, UseI, BenchGoto, BenchInv, Storing
  <2>2. UseI(w) => counter \in 1..BN
    BY <1>2, BenchAssumption DEF UseI, BenchInv
  <2>3. CASE PbOver(w)
    BY <2>1, <2>3 DEF PbOver, BenchGoto, BenchInv
  <2>4. CASE LoadI(w)
    BY <2>1, <2>4 DEF LoadI, BenchGoto, BenchInv
  <2>5. CASE UseI(w)
    BY <2>1, <2>2, <2>5 DEF UseI, BenchGoto, BenchInv
  <2> QED
    BY <1>4, <2>3, <2>4, <2>5
<1>5. ASSUME NEW w \in Goroutines, StoreI(w) PROVE BenchInv'
  <2>1. Storing' = Storing \ {w} /\ w \in Storing
    BY <1>5 DEF StoreI, BenchGoto, BenchInv, Storing
  <2>2. Cardinality(Storing') = Cardinality(Storing) - 1
    BY <1>2, <2>1, FS_RemoveElement
  <2> QED
    BY <1>2, <1>5, <2>2, BenchAssumption DEF StoreI, BenchGoto, BenchInv
<1> QED
  BY <1>1, <1>3, <1>4, <1>5 DEF BenchNext

(* No volume outside 1 to b.N: see NamesInRange.                             *)
THEOREM NamesInRangeAlways == BenchSpec => []NamesInRange
<1>1. BenchInv => NamesInRange
  BY DEF BenchInv, NamesInRange
<1> QED
  BY <1>1, BenchInitInv, BenchNextInv, PTL DEF BenchSpec
================================================================================
