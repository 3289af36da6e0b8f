------------------------------ MODULE NsLifecycle ------------------------------
(***************************************************************************)
(* The test namespaces on the hypervisor cluster: envInit (util/env.go)    *)
(* names one, prepareNamespace (util/kube_vm_cluster.go) deletes old ones  *)
(* and creates it, with CreateNs, DeleteNs and DeleteNsAndWait of          *)
(* util/kube.go.  Runs by several people and CI jobs go on at a time.      *)
(* The namespace controller, which empties a deleted namespace and then    *)
(* removes it, is external, and so is time.                                *)
(***************************************************************************)
EXTENDS Integers, FiniteSets

CONSTANTS
  Runs,         \* test runs, each started once
  TmpNames,     \* names that begin with "e2e-tmp-"
  LikeNames,    \* other names that have "e2e-tmp-" in them
  OtherNames,   \* all other names of test namespaces
  CleanUpAge,   \* nsCleanUpSeconds
  Timeout,      \* bound: -timeout, how long a run lasts, at most
  MaxTime       \* bound: the end of time

Names == TmpNames \cup LikeNames \cup OtherNames

ASSUME NamesAssumption ==
  TmpNames \cap (LikeNames \cup OtherNames) = {} /\ LikeNames \cap OtherNames = {}
ASSUME TimesAssumption == CleanUpAge \in Nat /\ Timeout \in Nat /\ MaxTime \in Nat

VARIABLES
  now,       \* the time, in ticks
  phase,     \* "absent", "active" or "terminating", per name
  gen,       \* how many namespaces of each name there have been
  born,      \* when the latest of them was created
  name,      \* TestNS of each run
  mode,      \* its TestNSCleanUp
  pc,        \* where it is
  started,   \* when it was started
  genThen,   \* gen[name] when it was started
  made,      \* the gen of the namespace it created, 0 if it found one
  old        \* what cleanUpNs has still to delete

nsVars == <<phase, gen, born>>
runVars == <<name, mode, pc, started, genThen, made, old>>
vars == <<now, nsVars, runVars>>

\* "" is "delete" too, which prepares in the same way (see Finish).
Modes == {"", "reinit", "free tmp"}
PcStates == {"off", "delete", "gone", "list", "clean", "create", "use", "done",
             "dead"}

\* Namespaces of earlier runs may be there.
Init ==
  /\ now = CleanUpAge + 1
  /\ phase \in [Names -> {"absent", "active"}]
  /\ gen = [n \in Names |-> IF phase[n] = "active" THEN 1 ELSE 0]
  /\ born = [n \in Names |-> 0]
  /\ name \in [Runs -> Names]
  /\ mode \in [Runs -> Modes]
  \* envInit: without a name on the command line, one made of the minute and
  \* the second, which may be any
  /\ \A r \in Runs : mode[r] = "free tmp" <=> name[r] \in TmpNames
  /\ pc = [r \in Runs |-> "off"]
  /\ started = [r \in Runs |-> 0]
  /\ genThen = [r \in Runs |-> 0]
  /\ made = [r \in Runs |-> 0]
  /\ old = [r \in Runs |-> {}]

Goto(r, l) == pc' = [pc EXCEPT ![r] = l]

\* DeleteNs: what is there under that name begins to go.
Delete(n) ==
  /\ phase' = [phase EXCEPT ![n] = IF @ = "active" THEN "terminating" ELSE @]
  /\ UNCHANGED <<now, gen, born>>
-----------------------------------------------------------------------------
(* prepareNamespace *)

Start(r) ==
  /\ pc[r] = "off"
  /\ Goto(r, IF mode[r] = "reinit" THEN "delete"
             ELSE IF mode[r] = "free tmp" THEN "list" ELSE "create")
  /\ started' = [started EXCEPT ![r] = now]
  /\ genThen' = [genThen EXCEPT ![r] = gen[name[r]]]
  /\ UNCHANGED <<now, nsVars, name, mode, made, old>>

\* A regression: DeleteNs instead of DeleteNsAndWait.
DeleteOldNoWait(r) ==
  /\ pc[r] = "delete"
  /\ Delete(name[r])
  /\ Goto(r, "create")
  /\ UNCHANGED <<name, mode, started, genThen, made, old>>

DeleteOld(r) ==
  /\ pc[r] = "delete"
  /\ Delete(name[r])
  /\ Goto(r, "gone")
  /\ UNCHANGED <<name, mode, started, genThen, made, old>>

\* DeleteNsAndWait polls for 20 seconds; then prepareNamespace is fatal.
SeeGone(r) ==
  /\ pc[r] = "gone"
  /\ Goto(r, IF phase[name[r]] = "absent" THEN "create" ELSE "dead")
  /\ UNCHANGED <<now, nsVars, name, mode, started, genThen, made, old>>

\* A regression: the filter "%e2e-tmp-%" without the check of the prefix.
CleanableLike == TmpNames \cup LikeNames

\* cleanUpNs deletes what the filter lists and HasPrefix confirms.
Cleanable == TmpNames

\* A request that fails lists nothing.
ListOld(r) ==
  /\ pc[r] = "list"
  /\ Goto(r, "clean")
  /\ \/ old' = [old EXCEPT ![r] =
                  {n \in Cleanable \ {name[r]} :
                     phase[n] # "absent" /\ now - born[n] > CleanUpAge}]
     \/ UNCHANGED old
  /\ UNCHANGED <<now, nsVars, name, mode, started, genThen, made>>

\* By name, and without another look at the age.
CleanOne(r) ==
  /\ pc[r] = "clean"
  /\ \E n \in old[r] :
       /\ Delete(n)
       /\ old' = [old EXCEPT ![r] = @ \ {n}]
  /\ UNCHANGED <<name, mode, pc, started, genThen, made>>

CleanDone(r) ==
  /\ pc[r] = "clean" /\ old[r] = {}
  /\ Goto(r, "create")
  /\ UNCHANGED <<now, nsVars, name, mode, started, genThen, made, old>>

\* A regression: wait for a namespace of that name to go.
CreateNsWaiting(r) ==
  /\ pc[r] = "create" /\ phase[name[r]] = "absent"
  /\ phase' = [phase EXCEPT ![name[r]] = "active"]
  /\ gen' = [gen EXCEPT ![name[r]] = @ + 1]
  /\ born' = [born EXCEPT ![name[r]] = now]
  /\ made' = [made EXCEPT ![r] = gen'[name[r]]]
  /\ Goto(r, "use")
  /\ UNCHANGED <<now, name, mode, started, genThen, old>>

\* AlreadyExists is no error, be the namespace another run's or going away.
CreateNs(r) ==
  /\ pc[r] = "create"
  /\ IF phase[name[r]] = "absent"
       THEN /\ phase' = [phase EXCEPT ![name[r]] = "active"]
            /\ gen' = [gen EXCEPT ![name[r]] = @ + 1]
            /\ born' = [born EXCEPT ![name[r]] = now]
            /\ made' = [made EXCEPT ![r] = gen'[name[r]]]
       ELSE UNCHANGED <<nsVars, made>>
  /\ Goto(r, "use")
  /\ UNCHANGED <<now, name, mode, started, genThen, old>>

-----------------------------------------------------------------------------
(* The end of a run.  TestFinalizer of a "delete" run asks for the nested    *)
(* cluster and deletes TestNS there: the hypervisor's namespace stays.       *)

Finish(r) ==
  /\ pc[r] = "use"
  /\ Goto(r, "done")
  /\ UNCHANGED <<now, nsVars, name, mode, started, genThen, made, old>>

Die(r) ==
  /\ pc[r] \notin {"off", "done", "dead"}
  /\ Goto(r, "dead")
  /\ UNCHANGED <<now, nsVars, name, mode, started, genThen, made, old>>

(* External. *)

Running(r) == pc[r] \notin {"off", "done", "dead"}

NsGone(n) ==
  /\ phase[n] = "terminating"
  /\ phase' = [phase EXCEPT ![n] = "absent"]
  /\ UNCHANGED <<now, gen, born, runVars>>

Tick ==
  /\ now < MaxTime
  /\ \A r \in Runs : Running(r) => now - started[r] < Timeout
  /\ now' = now + 1
  /\ UNCHANGED <<nsVars, runVars>>

-----------------------------------------------------------------------------
Prepare(r) ==
  \/ DeleteOld(r) \/ SeeGone(r)
  \/ ListOld(r) \/ CleanOne(r) \/ CleanDone(r)
  \/ CreateNs(r)

Next ==
  \/ \E r \in Runs : Start(r) \/ Prepare(r) \/ Finish(r) \/ Die(r)
  \/ \E n \in Names : NsGone(n)
  \/ Tick

Spec == Init /\ [][Next]_vars

\* Requests are answered or fail, and the wait is bounded: a run that is not
\* killed gets on with its preparation.  Nothing else has to happen.
FairSpec == Spec /\ \A r \in Runs : WF_vars(Prepare(r))

-----------------------------------------------------------------------------
TypeOK ==
  /\ now \in Nat
  /\ phase \in [Names -> {"absent", "active", "terminating"}]
  /\ gen \in [Names -> Nat]
  /\ born \in [Names -> Nat]
  /\ name \in [Runs -> Names]
  /\ mode \in [Runs -> Modes]
  /\ pc \in [Runs -> PcStates]
  /\ started \in [Runs -> Nat]
  /\ genThen \in [Runs -> Nat]
  /\ made \in [Runs -> Nat]
  /\ old \in [Runs -> SUBSET Names]

\* A reinit run that has seen its namespace gone finds no old one any more,
\* and so does a run that works in a namespace of its own making.
GenInv ==
  \A r \in Runs :
    /\ pc[r] # "off" => genThen[r] <= gen[name[r]]
    /\ made[r] <= gen[name[r]]
    /\ pc[r] = "gone" /\ gen[name[r]] = genThen[r] => phase[name[r]] # "active"
    /\ pc[r] \in {"create", "use"} /\ mode[r] = "reinit" =>
         gen[name[r]] > genThen[r] \/ (phase[name[r]] = "absent" /\ pc[r] = "create")

\* cleanUpNs has its list from a look at temporary names other than its own.
OldInv ==
  \A r \in Runs :
    /\ old[r] \subseteq TmpNames \ {name[r]}
    /\ pc[r] \in {"list", "clean"} \/ old[r] # {} => mode[r] = "free tmp"
    /\ pc[r] \in {"delete", "gone"} => mode[r] = "reinit"

NsInv == TypeOK /\ GenInv /\ OldInv

\* -namespacereinit "removes old with the same name": the namespace such a
\* run works in is not the one it found, however many runs share the name.
ReinitFresh ==
  \A r \in Runs :
    pc[r] = "use" /\ mode[r] = "reinit" /\ phase[name[r]] # "absent" =>
      gen[name[r]] > genThen[r]

\* Whatever cleans up at the same time, a namespace with a name of its own
\* goes away only for a run that was told to reinitialize it, and no run
\* cleans up what it is about to use.
OnlyReinitDeletes ==
  [][\A n \in LikeNames \cup OtherNames :
       phase[n] = "active" /\ phase'[n] # "active" =>
         \E r \in Runs : name[r] = n /\ mode[r] = "reinit" /\ pc[r] = "delete"]_vars

\* Preparation ends, with a namespace or with the run.
PrepareEnds ==
  \A r \in Runs : (pc[r] \in {"delete", "list", "create"})
                    ~> (pc[r] \in {"use", "done", "dead"})

\* "go test -v -timeout 99m ./tests/... -hypervisorkconfig ..." (README.md:24)
\* names no namespace: the one such a run makes stays for as long as it lasts.
RunKeepsItsNs ==
  \A r \in Runs :
    pc[r] = "use" /\ mode[r] = "free tmp" /\ made[r] > 0 =>
      phase[name[r]] = "active" /\ gen[name[r]] = made[r]
==============================================================================
