------------------------------- MODULE FullCycle -------------------------------
(***************************************************************************)
(* The two benchmarks of case_600_test.go: make claims, make a pod on each *)
(* one, and poll lists, without a bound and without a pause, until all of  *)
(* the claims are Bound and all of the pods have succeeded.  The first one *)
(* waits for the claims before it makes the pods, the second makes the     *)
(* pods first, as its class binds a claim for its first consumer.          *)
(* External: the API server, the controllers of volumes, kubelet.          *)
(***************************************************************************)
EXTENDS FiniteSets, Integers

CONSTANTS ClaimNames  \* test-pvc-<i>; the pods have their names from them
ASSUME ClaimNamesAssumption == IsFiniteSet(ClaimNames)

VARIABLES
  claimPhase, \* of each claim, "none" if there is none
  podPhase,   \* of the pod on it
  binding,    \* volumeBindingMode of the class: which benchmark this is
  cyclePc,    \* where it is
  cycleTodo,  \* names the loop has still to create
  pvcNames,   \* the keys of the map of claims,
  boundMarks, \*   those with true,
  bounded,    \*   and their number
  podNames,   \* likewise for pods
  goodMarks,
  succeeded

cycleObjects == <<claimPhase, podPhase, binding>>
boundVars == <<pvcNames, boundMarks, bounded>>
podMapVars == <<podNames, goodMarks, succeeded>>
cycleVars == <<cycleObjects, cyclePc, cycleTodo, boundVars, podMapVars>>

ClaimPhases == {"none", "Pending", "Bound"}
PodPhases == {"none", "Pending", "Succeeded", "Failed"}
CyclePcs == {"claims", "bound", "pods", "succeed", "done"}

\* Claims and pods of an earlier benchmark may be there: none is deleted.
CycleInit ==
  /\ binding \in {"Immediate", "WaitForFirstConsumer"}
  /\ claimPhase \in [ClaimNames -> {"none", "Bound"}]
  /\ podPhase \in [ClaimNames -> {"none", "Succeeded"}]
  /\ \A c \in ClaimNames : podPhase[c] # "none" => claimPhase[c] # "none"
  /\ cyclePc = "claims" /\ cycleTodo = ClaimNames
  /\ pvcNames = {} /\ boundMarks = {} /\ bounded = 0
  /\ podNames = {} /\ goodMarks = {} /\ succeeded = 0

CreateCyclePVC(c) ==
  /\ cyclePc = "claims" /\ c \in cycleTodo /\ claimPhase[c] = "none"
  /\ claimPhase' = [claimPhase EXCEPT ![c] = "Pending"]
  /\ cycleTodo' = cycleTodo \ {c}
  /\ pvcNames' = pvcNames \cup {c}
  /\ UNCHANGED <<podPhase, binding, cyclePc, boundMarks, bounded, podMapVars>>

\* A regression: "continue" is missing after the error.
CountFailedPVC(c) ==
  /\ cyclePc = "claims" /\ c \in cycleTodo
  /\ cycleTodo' = cycleTodo \ {c}
  /\ pvcNames' = pvcNames \cup {c}
  /\ UNCHANGED <<cycleObjects, cyclePc, boundMarks, bounded, podMapVars>>

\* AlreadyExists, or any other error: the name is not counted.
CreateCyclePVCFails(c) ==
  /\ cyclePc = "claims" /\ c \in cycleTodo
  /\ cycleTodo' = cycleTodo \ {c}
  /\ UNCHANGED <<cycleObjects, cyclePc, boundVars, podMapVars>>

CreateCyclePod(c) ==
  /\ cyclePc = "pods" /\ c \in cycleTodo /\ podPhase[c] = "none"
  /\ podPhase' = [podPhase EXCEPT ![c] = "Pending"]
  /\ cycleTodo' = cycleTodo \ {c}
  /\ podNames' = podNames \cup {c}
  /\ UNCHANGED <<claimPhase, binding, cyclePc, boundVars, goodMarks, succeeded>>

CreateCyclePodFails(c) ==
  /\ cyclePc = "pods" /\ c \in cycleTodo
  /\ cycleTodo' = cycleTodo \ {c}
  /\ UNCHANGED <<cycleObjects, cyclePc, boundVars, podMapVars>>

\* A loop has come to its end.
NextLoop ==
  /\ \/ cyclePc \in {"claims", "pods"} /\ cycleTodo = {}
     \/ cyclePc = "bound" /\ bounded >= Cardinality(pvcNames)
     \/ cyclePc = "succeed" /\ succeeded >= Cardinality(podNames)
  /\ cyclePc' =
       CASE cyclePc = "claims" -> IF binding = "Immediate" THEN "bound" ELSE "pods"
         [] cyclePc = "bound"  -> IF binding = "Immediate" THEN "pods" ELSE "succeed"
         [] cyclePc = "pods"   -> IF binding = "Immediate" THEN "succeed" ELSE "bound"
         [] cyclePc = "succeed" -> "done"
  /\ cycleTodo' = IF cyclePc' = "pods" THEN pvcNames ELSE {}
  /\ UNCHANGED <<cycleObjects, boundVars, podMapVars>>

\* A regression: a claim is counted each time it is seen Bound.
PollClaimsAgain ==
  /\ cyclePc = "bound" /\ bounded < Cardinality(pvcNames)
  /\ LET seen == {c \in pvcNames : claimPhase[c] = "Bound"} IN
       /\ boundMarks' = boundMarks \cup seen
       /\ bounded' = bounded + Cardinality(seen)
  /\ UNCHANGED <<cycleObjects, cyclePc, cycleTodo, pvcNames, podMapVars>>

\* One GetPVCs, and the loop over the map.
PollClaims ==
  /\ cyclePc = "bound" /\ bounded < Cardinality(pvcNames)
  /\ LET seen == {c \in pvcNames \ boundMarks : claimPhase[c] = "Bound"} IN
       /\ boundMarks' = boundMarks \cup seen
       /\ bounded' = bounded + Cardinality(seen)
  /\ UNCHANGED <<cycleObjects, cyclePc, cycleTodo, pvcNames, podMapVars>>

PollPods ==
  /\ cyclePc = "succeed" /\ succeeded < Cardinality(podNames)
  /\ LET seen == {c \in podNames \ goodMarks : podPhase[c] = "Succeeded"} IN
       /\ goodMarks' = goodMarks \cup seen
       /\ succeeded' = succeeded + Cardinality(seen)
  /\ UNCHANGED <<cycleObjects, cyclePc, cycleTodo, boundVars, podNames>>

-----------------------------------------------------------------------------
(* External.                                                                *)

Consumed(c) == binding = "Immediate" \/ podPhase[c] # "none"

CycleBinds(c) ==
  /\ claimPhase[c] = "Pending" /\ Consumed(c)
  /\ claimPhase' = [claimPhase EXCEPT ![c] = "Bound"]
  /\ UNCHANGED <<podPhase, binding, cyclePc, cycleTodo, boundVars, podMapVars>>

\* "grep ext4" finds something, or the pod fails.
CyclePodEnds(c, phase) ==
  /\ podPhase[c] = "Pending" /\ claimPhase[c] = "Bound"
  /\ podPhase' = [podPhase EXCEPT ![c] = phase]
  /\ UNCHANGED <<claimPhase, binding, cyclePc, cycleTodo, boundVars, podMapVars>>

-----------------------------------------------------------------------------
CycleNext ==
  \/ \E c \in ClaimNames :
       \/ CreateCyclePVC(c) \/ CreateCyclePVCFails(c)
       \/ CreateCyclePod(c) \/ CreateCyclePodFails(c)
       \/ CycleBinds(c)
       \/ \E phase \in {"Succeeded", "Failed"} : CyclePodEnds(c, phase)
  \/ NextLoop \/ PollClaims \/ PollPods

CycleSpec == CycleInit /\ [][CycleNext]_cycleVars

\* The program goes on, and lists it asks for come again and again; a claim
\* that can be is bound, and a pod that can run ends.
CycleFairness ==
  /\ WF_cycleVars(\E c \in ClaimNames :
                    \/ CreateCyclePVC(c) \/ CreateCyclePVCFails(c)
                    \/ CreateCyclePod(c) \/ CreateCyclePodFails(c))
  /\ WF_cycleVars(NextLoop) /\ WF_cycleVars(PollClaims) /\ WF_cycleVars(PollPods)
  /\ \A c \in ClaimNames :
       /\ WF_cycleVars(CycleBinds(c))
       /\ WF_cycleVars(\E phase \in {"Succeeded", "Failed"} : CyclePodEnds(c, phase))
-----------------------------------------------------------------------------
\* Counters and marks agree, and marks are never ahead of the objects.
CycleInv ==
  /\ claimPhase \in [ClaimNames -> ClaimPhases]
  /\ podPhase \in [ClaimNames -> PodPhases]
  /\ binding \in {"Immediate", "WaitForFirstConsumer"}
  /\ cyclePc \in CyclePcs /\ cycleTodo \subseteq ClaimNames
  /\ podNames \subseteq pvcNames /\ pvcNames \subseteq ClaimNames
  /\ boundMarks \subseteq {c \in pvcNames : claimPhase[c] = "Bound"}
  /\ goodMarks \subseteq {c \in podNames : podPhase[c] = "Succeeded"}
  /\ bounded = Cardinality(boundMarks) /\ succeeded = Cardinality(goodMarks)
  /\ cyclePc = "pods" => cycleTodo \subseteq pvcNames
  /\ cyclePc \in {"succeed", "done"} => boundMarks = pvcNames
  /\ cyclePc = "pods" /\ binding = "Immediate" => boundMarks = pvcNames
  /\ cyclePc = "done" => goodMarks = podNames

\* A benchmark that ends has seen every claim it made Bound and every pod it
\* made succeed, though it counts from lists that are taken at any time.
CycleMeasuresAll ==
  cyclePc = "done" =>
    /\ \A c \in pvcNames : claimPhase[c] = "Bound"
    /\ \A c \in podNames : podPhase[c] = "Succeeded"

\* What no poll will ever see: a failed pod, and with the second benchmark a
\* claim whose pod could not be made.
CycleStuck ==
  \/ \E c \in podNames : podPhase[c] = "Failed"
  \/ \E c \in pvcNames : ~Consumed(c) /\ cyclePc = "bound"

\* The benchmark ends, except in these two cases, which it waits out forever.
CycleEnds == (cyclePc = "claims") ~> (cyclePc = "done" \/ CycleStuck)
==============================================================================
