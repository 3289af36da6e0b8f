----------------------------- MODULE ParallelBench -----------------------------
(***************************************************************************)
(* The parallel benchmarks of lvm_func_test.go: goroutines share the       *)
(* counter i, add one to it without a lock and use what they then read as  *)
(* the name of a logical volume to create, extend or remove.  External:    *)
(* testing.PB, which hands out b.N iterations atomically; LVM.             *)
(***************************************************************************)
EXTENDS FiniteSets, Integers

CONSTANTS
  Goroutines,  \* those of RunParallel
  BN           \* b.N

ASSUME BenchAssumption == IsFiniteSet(Goroutines) /\ BN \in Nat

VARIABLES
  taken,       \* iterations handed out
  counter,     \* i
  register,    \* what a goroutine has loaded of it
  benchPc,     \* where it is
  volNames,    \* history: the names of volumes used in commands
  stores       \* history: how often i was written

benchVars == <<taken, counter, register, benchPc, volNames, stores>>

\* A regression: the counter starts at one.
BenchInitAtOne ==
  /\ taken = 0 /\ counter = 1 /\ stores = 0
  /\ register = [w \in Goroutines |-> 0] /\ volNames = {}
  /\ benchPc = [w \in Goroutines |-> "next"]

BenchInit ==
  /\ taken = 0 /\ counter = 0 /\ stores = 0
  /\ register = [w \in Goroutines |-> 0] /\ volNames = {}
  /\ benchPc = [w \in Goroutines |-> "next"]

BenchGoto(w, l) == benchPc' = [benchPc EXCEPT ![w] = l]

PbNext(w) ==
  /\ benchPc[w] = "next" /\ taken < BN
  /\ taken' = taken + 1
  /\ BenchGoto(w, "load")
  /\ UNCHANGED <<counter, register, volNames, stores>>

PbOver(w) ==
  /\ benchPc[w] = "next" /\ taken = BN
  /\ BenchGoto(w, "over")
  /\ UNCHANGED <<taken, counter, register, volNames, stores>>

\* i++ is a load and a store.
LoadI(w) ==
  /\ benchPc[w] = "load"
  /\ register' = [register EXCEPT ![w] = counter]
  /\ BenchGoto(w, "store")
  /\ UNCHANGED <<taken, counter, volNames, stores>>

StoreI(w) ==
  /\ benchPc[w] = "store"
  /\ counter' = register[w] + 1 /\ stores' = stores + 1
  /\ BenchGoto(w, "use")
  /\ UNCHANGED <<taken, register, volNames>>

\* strconv.Itoa(i) reads i again; the command may fail, the loop goes on.
UseI(w) ==
  /\ benchPc[w] = "use"
  /\ volNames' = volNames \cup {counter}
  /\ BenchGoto(w, "next")
  /\ UNCHANGED <<taken, counter, register, stores>>

BenchNext ==
  \E w \in Goroutines : PbNext(w) \/ PbOver(w) \/ LoadI(w) \/ StoreI(w) \/ UseI(w)

BenchSpec == BenchInit /\ [][BenchNext]_benchVars
-----------------------------------------------------------------------------
\* Goroutines with an iteration whose store is still to come.
Storing == {w \in Goroutines : benchPc[w] \in {"load", "store"}}

\* However many stores are lost, i is at most their number, and that is at most
\* the number of iterations.
BenchInv ==
  /\ taken \in 0..BN /\ stores \in Nat /\ counter \in Nat
  /\ register \in [Goroutines -> Nat]
  /\ benchPc \in [Goroutines -> {"next", "load", "store", "use", "over"}]
  /\ stores + Cardinality(Storing) = taken
  /\ counter <= stores /\ (stores > 0 => counter > 0)
  /\ \A w \in Goroutines : benchPc[w] = "store" => register[w] <= stores
  /\ \A w \in Goroutines : benchPc[w] = "use" => stores > 0
  /\ volNames \subseteq 1..BN

\* Increments may be lost and names repeat, but no benchmark touches a volume
\* outside the numbers 1 to b.N, which the others create and remove.
NamesInRange == volNames \subseteq 1..BN
==============================================================================
