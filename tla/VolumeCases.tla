------------------------------ MODULE VolumeCases ------------------------------
(***************************************************************************)
(* The cases of images/sds-lvm-e2e (01_create_storage_classes_test.go,     *)
(* case_23_25_test.go to case_28_test.go) with the requests and waits of   *)
(* funcs/storage_class.go, pvc.go and pod.go.  One "go test" runs them in  *)
(* the order of the files.  All use the names test-pvc and test-pod in one *)
(* namespace, none cleans up for another, and t.Error lets a case go on    *)
(* with the empty name of what it could not make.                          *)
(* External: the API server, the controllers of volumes, kubelet.          *)
(***************************************************************************)
EXTENDS Integers, Sequences

CONSTANTS MaxGoTests  \* bound: how often "go test" is started
ASSUME GoTestsAssumption == MaxGoTests \in Nat \ {0}

VARIABLES
  \* the cluster
  retain,     \* the class test-lvm-thick-immediate-retain, which all cases use
  vol,        \* phase of the claim test-pvc, "none" if there is none
  volId,      \* its number: claims are counted
  volGoing,   \* it is being deleted
  volSize,    \* its size
  pod,        \* state of the container of test-pod, "none" if there is none
  podId,      \* its number: pods are counted
  podGoing,   \* it is being deleted
  podVol,     \* the claim the container ran on
  \* the test program
  goTest,     \* how often it was started
  caseNo,     \* index in Cases
  opNo,       \* index in the steps of the case
  pvcName,    \* number of the claim CreatePVC returned, 0 if pvc.Name is empty
  podName,    \* number of the pod CreatePod returned, 0 if it is ""
  sawPending, \* this WaitPVCStatus has seen the claim Pending
  caseFailed, \* t.Error was called in this case
  mounted     \* history: the claims of the pods this case has seen end

volVars == <<vol, volId, volGoing, volSize>>
podVars == <<pod, podId, podGoing, podVol>>
nameVars == <<pvcName, podName, mounted>>
caseVars == <<goTest, caseNo, opNo, sawPending, caseFailed>>
casesVars == <<retain, volVars, podVars, nameVars, caseVars>>

\* The steps of each test, in the order of the files.
Cases == <<
  <<"createClass">>,                                                        \* 18
  <<"createPvc", "waitPvc", "createPod", "waitGoodPod", "deletePod", "waitNoPod",
    "deletePvc", "waitPvc">>,                                           \* 23, 24
  <<"createPvc", "waitPvc", "createPod", "waitPod", "deletePod", "waitNoPod",
    "deletePvc", "waitPvc">>,                                               \* 26
  <<"createPvc", "waitPvc", "createPod", "waitPod", "deletePod", "waitNoPod",
    "createPod", "waitPod", "deletePod", "waitNoPod",
    "deletePvc", "waitPvc">>,                                               \* 27
  <<"createPvc", "waitPvc", "resizePvc", "waitPvc">> >>                     \* 28
WithPods == 2..4
Resizing == 5

\* The step the program is at.
Op ==
  IF caseNo > Len(Cases) THEN "over"
  ELSE IF opNo > Len(Cases[caseNo]) THEN "end"
  ELSE Cases[caseNo][opNo]

CaseInit ==
  /\ retain = FALSE
  /\ vol = "none" /\ volId = 0 /\ volGoing = FALSE /\ volSize = 0
  /\ pod = "none" /\ podId = 0 /\ podGoing = FALSE /\ podVol = 0
  /\ goTest = 1 /\ caseNo = 1 /\ opNo = 1 /\ sawPending = FALSE
  /\ pvcName = 0 /\ podName = 0 /\ mounted = {} /\ caseFailed = FALSE

Proceed(ok) ==
  /\ opNo' = opNo + 1 /\ sawPending' = FALSE
  /\ caseFailed' = (caseFailed \/ ~ok)
  /\ UNCHANGED <<goTest, caseNo>>
-----------------------------------------------------------------------------
(* Storage classes: 17, 19 and 20 make, and the next test deletes, others.  *)

CreateStorageClass ==
  /\ Op = "createClass" /\ ~retain
  /\ retain' = TRUE
  /\ Proceed(TRUE)
  /\ UNCHANGED <<volVars, podVars, nameVars>>

-----------------------------------------------------------------------------
(* Claims.                                                                  *)

MakeClaim ==
  /\ vol = "none"
  /\ vol' = "Pending" /\ volId' = volId + 1 /\ volSize' = 1
  /\ UNCHANGED volGoing

CreatePVC ==
  /\ Op = "createPvc" /\ MakeClaim
  /\ pvcName' = volId'
  /\ Proceed(TRUE)
  /\ UNCHANGED <<retain, podVars, podName, mounted>>

\* A regression: its error is only logged.
CreatePVCErrorDropped ==
  /\ Op = "createPvc" /\ MakeClaim
  /\ Proceed(TRUE)
  /\ UNCHANGED <<retain, podVars, nameVars>>

\* The request is carried out and its answer is lost.
CreatePVCLost ==
  /\ Op = "createPvc" /\ MakeClaim
  /\ Proceed(FALSE)
  /\ UNCHANGED <<retain, podVars, nameVars>>

\* WaitPVCStatus returns without an error when the claim is Bound, and also
\* when the first request fails or finds nothing.
WaitPVCEnds ==
  /\ Op = "waitPvc"
  /\ (pvcName # 0 /\ vol = "Bound") \/ ~sawPending
  /\ Proceed(TRUE)
  /\ UNCHANGED <<retain, volVars, podVars, nameVars>>

WaitPVCSees ==
  /\ Op = "waitPvc" /\ pvcName # 0 /\ vol = "Pending" /\ ~sawPending
  /\ sawPending' = TRUE
  /\ UNCHANGED <<retain, volVars, podVars, nameVars, goTest, caseNo, opNo,
                 caseFailed>>

WaitPVCTimesOut ==
  /\ Op = "waitPvc" /\ sawPending
  /\ Proceed(FALSE)
  /\ UNCHANGED <<retain, volVars, podVars, nameVars>>

\* EditSizePVC: get and update; only a Bound claim can be resized.
EditSizePVC ==
  /\ Op = "resizePvc" /\ pvcName # 0 /\ vol = "Bound"
  /\ volSize' = 2
  /\ Proceed(TRUE)
  /\ UNCHANGED <<retain, vol, volId, volGoing, podVars, nameVars>>

\* A regression: the name is a constant, and not that of the object created.
DeletePVCByName ==
  /\ Op = "deletePvc" /\ vol # "none"
  /\ volGoing' = TRUE
  /\ Proceed(TRUE)
  /\ UNCHANGED <<retain, vol, volId, volSize, podVars, nameVars>>

DeletePVC ==
  /\ Op = "deletePvc" /\ pvcName # 0 /\ vol # "none"
  /\ volGoing' = TRUE
  /\ Proceed(TRUE)
  /\ UNCHANGED <<retain, vol, volId, volSize, podVars, nameVars>>

-----------------------------------------------------------------------------
(* Pods.                                                                    *)

\* A pod without the name of a claim is refused.
MakePod ==
  /\ pod = "none" /\ pvcName # 0
  /\ pod' = "Waiting" /\ podId' = podId + 1 /\ podVol' = 0
  /\ UNCHANGED podGoing

CreatePod ==
  /\ Op = "createPod" /\ MakePod
  /\ podName' = podId'
  /\ Proceed(TRUE)
  /\ UNCHANGED <<retain, volVars, pvcName, mounted>>

CreatePodLost ==
  /\ Op = "createPod" /\ MakePod
  /\ podName' = 0
  /\ Proceed(FALSE)
  /\ UNCHANGED <<retain, volVars, pvcName, mounted>>

CreatePodFails ==
  /\ Op = "createPod"
  /\ podName' = 0
  /\ Proceed(FALSE)
  /\ UNCHANGED <<retain, volVars, podVars, pvcName, mounted>>

\* WaitPodStatus returns the reason; only the first case looks at it.
WaitPodStatus ==
  /\ Op \in {"waitPod", "waitGoodPod"}
  /\ podName # 0 /\ pod \in {"Completed", "Error"}
  /\ mounted' = mounted \cup {podVol}
  /\ Proceed(Op = "waitPod" \/ pod = "Completed")
  /\ UNCHANGED <<retain, volVars, podVars, pvcName, podName>>

DeletePod ==
  /\ Op = "deletePod" /\ podName # 0 /\ pod # "none"
  /\ podGoing' = TRUE
  /\ Proceed(TRUE)
  /\ UNCHANGED <<retain, volVars, pod, podId, podVol, nameVars>>

\* A regression: any error of the request counts as NotFound.
AnyErrorIsNotFound ==
  /\ Op = "waitNoPod"
  /\ Proceed(TRUE)
  /\ UNCHANGED <<retain, volVars, podVars, nameVars>>

\* With an empty name the request fails, and not with NotFound.
WaitDeletePod ==
  /\ Op = "waitNoPod" /\ podName # 0 /\ pod = "none"
  /\ Proceed(TRUE)
  /\ UNCHANGED <<retain, volVars, podVars, nameVars>>

-----------------------------------------------------------------------------
\* AlreadyExists, NotFound, an empty name, a request that fails, a time-out.
OpFails ==
  /\ Op \in {"createClass", "createPvc", "resizePvc", "deletePvc", "waitPod",
             "waitGoodPod", "deletePod", "waitNoPod"}
  /\ Proceed(FALSE)
  /\ UNCHANGED <<retain, volVars, podVars, nameVars>>

NextCase ==
  /\ Op = "end"
  /\ caseNo' = caseNo + 1 /\ opNo' = 1 /\ caseFailed' = FALSE
  /\ pvcName' = 0 /\ podName' = 0 /\ mounted' = {}
  /\ UNCHANGED <<retain, volVars, podVars, goTest, sawPending>>

\* A panic, a time-out of "go test" or an interrupt.
GoTestDies ==
  /\ Op # "over"
  /\ caseNo' = Len(Cases) + 1 /\ opNo' = 1
  /\ caseFailed' = FALSE /\ sawPending' = FALSE
  /\ pvcName' = 0 /\ podName' = 0 /\ mounted' = {}
  /\ UNCHANGED <<retain, volVars, podVars, goTest>>

GoTestAgain ==
  /\ Op = "over" /\ goTest < MaxGoTests
  /\ goTest' = goTest + 1 /\ caseNo' = 1
  /\ UNCHANGED <<retain, volVars, podVars, nameVars, opNo, sawPending, caseFailed>>

-----------------------------------------------------------------------------
(* External.                                                                *)

VolumeBinds ==
  /\ vol = "Pending" /\ retain /\ ~volGoing
  /\ vol' = "Bound"
  /\ UNCHANGED <<retain, volId, volGoing, volSize, podVars, nameVars, caseVars>>

\* A claim stays while a pod runs on it, not for one that waits for it.
VolumeGoes ==
  /\ volGoing /\ pod # "Running"
  /\ vol' = "none" /\ volGoing' = FALSE /\ volSize' = 0
  /\ UNCHANGED <<retain, volId, podVars, nameVars, caseVars>>

PodStarts ==
  /\ pod = "Waiting" /\ ~podGoing /\ vol = "Bound" /\ ~volGoing
  /\ pod' = "Running" /\ podVol' = volId
  /\ UNCHANGED <<retain, volVars, podId, podGoing, nameVars, caseVars>>

PodEnds(state) ==
  /\ pod = "Running"
  /\ pod' = state
  /\ UNCHANGED <<retain, volVars, podId, podGoing, podVol, nameVars, caseVars>>

PodGoes ==
  /\ podGoing
  /\ pod' = "none" /\ podGoing' = FALSE /\ podVol' = 0
  /\ UNCHANGED <<retain, volVars, podId, nameVars, caseVars>>

-----------------------------------------------------------------------------
CaseStep ==
  \/ CreateStorageClass  \/ CreatePVC \/ CreatePVCLost \/ WaitPVCEnds \/ WaitPVCSees
  \/ WaitPVCTimesOut \/ EditSizePVC \/ DeletePVC
  \/ CreatePod \/ CreatePodLost \/ CreatePodFails \/ WaitPodStatus \/ DeletePod
  \/ WaitDeletePod \/ OpFails \/ NextCase

CaseNext ==
  \/ CaseStep \/ GoTestDies \/ GoTestAgain
  \/ VolumeBinds \/ VolumeGoes \/ PodStarts \/ PodGoes
  \/ \E state \in {"Completed", "Error"} : PodEnds(state)

CaseSpec == CaseInit /\ [][CaseNext]_casesVars
-----------------------------------------------------------------------------
CaseTypeOK ==
  /\ retain \in BOOLEAN
  /\ vol \in {"none", "Pending", "Bound"} /\ volId \in Nat
  /\ volGoing \in BOOLEAN /\ volSize \in 0..2
  /\ pod \in {"none", "Waiting", "Running", "Completed", "Error"}
  /\ podId \in Nat
  /\ podGoing \in BOOLEAN /\ podVol \in 0..volId
  /\ goTest \in 1..MaxGoTests /\ caseNo \in 1..(Len(Cases) + 1)
  /\ opNo \in Nat \ {0} /\ sawPending \in BOOLEAN
  /\ pvcName \in 0..volId /\ podName \in 0..podId
  /\ caseFailed \in BOOLEAN /\ mounted \subseteq 0..volId

\* What a case has behind it, and what it has behind it for the last time.
Before(op) == \E i \in 1..(opNo - 1) : Cases[caseNo][i] = op
Over(op) ==
  /\ Before(op)
  /\ \A i \in opNo..Len(Cases[caseNo]) : Cases[caseNo][i] # op
InCase == caseNo \in 1..Len(Cases)

\* What a case holds a name of is there until it deletes it itself.
NamesInv ==
  /\ volGoing => vol # "none"
  /\ podGoing => pod # "none"
  /\ ~InCase => opNo = 1 /\ pvcName = 0
  /\ InCase => opNo <= Len(Cases[caseNo]) + 1
  /\ pvcName # 0 => pvcName = volId
  /\ pvcName # 0 => (vol # "none" /\ ~volGoing) \/ Before("deletePvc")
  /\ podName # 0 => podName = podId /\ pvcName # 0
  /\ podName # 0 /\ pod \in {"Running", "Completed", "Error"} => podVol = pvcName
  /\ mounted \subseteq {pvcName} \ {0}

\* What a case without t.Error has done so far.
ProgressInv ==
  InCase /\ ~caseFailed =>
    /\ Before("createPvc") => pvcName # 0
    /\ Before("deletePvc") => vol = "none" \/ volGoing
    /\ Before("resizePvc") => volSize = 2 /\ vol = "Bound"
    /\ Op = "waitPod" \/ Op = "waitGoodPod" => podName # 0
    /\ Before("waitPod") \/ Before("waitGoodPod") => mounted = {pvcName}
    /\ Over("waitNoPod") => pod = "none"

\* An inductive invariant.
CasesInv == CaseTypeOK /\ NamesInv /\ ProgressInv

\* Whatever is left of earlier cases or runs under the same two names, a case
\* deletes only the claim and the pod that it made itself.
DeletesOwn ==
  [][/\ volGoing' /\ ~volGoing => volId = pvcName
     /\ podGoing' /\ ~podGoing => podId = podName]_casesVars

\* A case that passes ran all its pods on the one claim it made, and leaves
\* neither of them, although only t.Error, and no error, ends the case: 28 is
\* the one that leaves its claim, resized.
CasePassed ==
  Op = "end" /\ ~caseFailed =>
    /\ caseNo \in WithPods =>
         /\ mounted = {volId} /\ mounted # {0}
         /\ pod = "none" /\ (vol = "none" \/ volGoing)
    /\ caseNo = Resizing =>
         volId = pvcName /\ vol = "Bound" /\ volSize = 2 /\ ~volGoing
==============================================================================
