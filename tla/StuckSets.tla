------------------------------- MODULE StuckSets -------------------------------
(***************************************************************************)
(* What HasCycles of internal/deadlock/graph.go answers, said without      *)
(* Kahn's algorithm: the definition that CycleReport promises, that        *)
(* WaitForGraph computes, and that the checks of Deadlock use.             *)
(***************************************************************************)
EXTENDS Naturals, FiniteSets

CONSTANT Tasks   \* task IDs, numbered in their lexicographic order

ASSUME TasksAssumption == Tasks \subseteq Nat /\ IsFiniteSet(Tasks)

\* The largest set of tasks each awaited by another task of it, along the edges
\* E: a task waits for itself to no effect.
Deadlocked(E) ==
  UNION {S \in SUBSET Tasks :
           \A n \in S : \E m \in S \ {n} : <<m, n>> \in E}
=============================================================================
