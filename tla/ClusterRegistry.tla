--------------------------- MODULE ClusterRegistry ---------------------------
(***************************************************************************)
(* What EnsureCluster promises to the tests of one test binary, without    *)
(* the mutex, the tunnels and the steps in between: the test cluster is    *)
(* established once, each (config, context) key is bound to one client for *)
(* the life of the process, a test obtains only what is bound, and the     *)
(* process may die at any moment (every error of the set-up is fatal).     *)
(***************************************************************************)
CONSTANTS Threads,   \* the goroutines running tests
          Keys,      \* the (config path, context) pairs clients are kept for
          Clients,   \* the *KCluster values that InitKCluster can return
          NoClient   \* "no client", not a member of Clients

VARIABLES alive,         \* the test binary has not exited
          established,   \* the cluster is ready to be used
          bound,         \* the client of each key
          obtained       \* what each test was last given for each key

regVars == <<alive, established, bound, obtained>>

RegInit ==
  /\ alive = TRUE
  /\ established = FALSE
  /\ bound = [k \in Keys |-> NoClient]
  /\ obtained = [t \in Threads |-> [k \in Keys |-> NoClient]]

Establish ==
  /\ alive /\ ~established
  /\ established' = TRUE
  /\ UNCHANGED <<alive, bound, obtained>>

\* A key is bound once, to a client no other key has.
Bind(k) ==
  /\ alive /\ established
  /\ bound[k] = NoClient
  /\ \E c \in Clients :
       /\ \A j \in Keys : bound[j] # c
       /\ bound' = [bound EXCEPT ![k] = c]
  /\ UNCHANGED <<alive, established, obtained>>

Obtain(t, k) ==
  /\ alive /\ established
  /\ bound[k] # NoClient
  /\ obtained' = [obtained EXCEPT ![t][k] = bound[k]]
  /\ UNCHANGED <<alive, established, bound>>

Die ==
  /\ alive
  /\ alive' = FALSE
  /\ UNCHANGED <<established, bound, obtained>>

RegNext ==
  \/ Establish
  \/ \E k \in Keys : Bind(k)
  \/ \E t \in Threads, k \in Keys : Obtain(t, k)
  \/ Die

RegSpec == RegInit /\ [][RegNext]_regVars
==============================================================================
