----------------------------- MODULE ClusterLife -----------------------------
(***************************************************************************)
(* What both bootstraps (ClusterCreate of testkit_v2, InitClusterCreate of *)
(* the older testkit) promise about the life of one test cluster, whatever *)
(* crashes, restarts and containers that outlive their run: Deckhouse only *)
(* goes forward, and is installed only on a cluster that has nothing yet;  *)
(* resources need all of it, nodes its API server; and a run reports       *)
(* success only over a complete installation.                              *)
(***************************************************************************)
EXTENDS Integers

CONSTANTS Jobs,       \* containers of dhctl, of either phase
          Resources,  \* what the second phase of dhctl creates
          Nodes       \* the machines that are to become nodes

VARIABLES deckhouse,   \* 0 none, 1 begun, 2 its API server answers, 3 all of it
          installers,  \* containers of the first phase at work,
          populators,  \*   and of the second
          furnished,   \* resources that exist
          members,     \* machines that are nodes, or were told to become one
          reported     \* the last run has ended well

lifeVars == <<deckhouse, installers, populators, furnished, members, reported>>

LifeInit ==
  /\ deckhouse = 0
  /\ installers = {} /\ populators = {}
  /\ furnished = {} /\ members = {}
  /\ reported = FALSE

\* Also over an installation that was begun, but over nothing built on it.
Install(j) ==
  /\ furnished = {} /\ members = {} /\ populators = {}
  /\ installers' = installers \cup {j}
  /\ UNCHANGED <<deckhouse, populators, furnished, members, reported>>

Advance ==
  /\ installers # {}
  /\ \E d \in (deckhouse + 1)..3 : deckhouse' = d
  /\ UNCHANGED <<installers, populators, furnished, members, reported>>

Populate(j) ==
  /\ deckhouse > 0
  /\ populators' = populators \cup {j}
  /\ \E over \in SUBSET installers : installers' = installers \ over
  /\ UNCHANGED <<deckhouse, furnished, members, reported>>

JobsEnd ==
  /\ \E over \in SUBSET installers : installers' = installers \ over
  /\ \E over \in SUBSET populators : populators' = populators \ over
  /\ UNCHANGED <<deckhouse, furnished, members, reported>>

Furnish(r) ==
  /\ deckhouse = 3 /\ populators # {}
  /\ furnished' = furnished \cup {r}
  /\ UNCHANGED <<deckhouse, installers, populators, members, reported>>

Join(n) ==
  /\ deckhouse >= 2
  /\ members' = members \cup {n}
  /\ UNCHANGED <<deckhouse, installers, populators, furnished, reported>>

\* The script that makes it a node has failed.
Leave(n) ==
  /\ members' = members \ {n}
  /\ UNCHANGED <<deckhouse, installers, populators, furnished, reported>>

Report ==
  /\ deckhouse = 3 /\ furnished = Resources
  /\ reported' = TRUE
  /\ UNCHANGED <<deckhouse, installers, populators, furnished, members>>

RunAgain ==
  /\ reported' = FALSE
  /\ UNCHANGED <<deckhouse, installers, populators, furnished, members>>

\* The machines are deleted, with all that is on them.
Reset ==
  /\ deckhouse' = 0
  /\ installers' = {} /\ populators' = {}
  /\ furnished' = {} /\ members' = {}
  /\ reported' = FALSE

LifeNext ==
  \/ \E j \in Jobs : Install(j) \/ Populate(j)
  \/ Advance \/ JobsEnd
  \/ \E r \in Resources : Furnish(r)
  \/ \E n \in Nodes : Join(n) \/ Leave(n)
  \/ Report \/ RunAgain \/ Reset

LifeSpec == LifeInit /\ [][LifeNext]_lifeVars

\* What follows for every program with such a life: success is reported only
\* over a complete installation, and nothing is built on a missing one.
LifeInv ==
  /\ deckhouse \in 0..3
  /\ furnished \subseteq Resources /\ members \subseteq Nodes
  /\ furnished # {} => deckhouse = 3
  /\ members # {} => deckhouse >= 2
  /\ populators # {} => deckhouse > 0
  /\ reported => deckhouse = 3 /\ furnished = Resources
=============================================================================
