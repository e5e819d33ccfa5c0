------------------------------ MODULE CycleReport ------------------------------
(***************************************************************************)
(* What the wait-for graph of internal/deadlock/graph.go promises: a set   *)
(* of edges that is added to and removed from, and an answer in one step.  *)
(* WaitForGraph implements it.                                             *)
(***************************************************************************)
EXTENDS StuckSets

VARIABLES
  edges,     \* pairs <<waiting, awaited>>
  answer     \* what HasCycles returned on these edges: {} before, {it} after

Init == edges = {} /\ answer = {}

\* The last answer is about other edges.
Set(E) == edges' = E /\ answer' = {}

AddEdge(from, to) ==
  Set(IF from = to THEN edges ELSE edges \cup {<<from, to>>})

RemoveEdge(from, to) == Set(edges \ {<<from, to>>})

RemoveNode(node) == Set({e \in edges : node \notin {e[1], e[2]}})

HasCycles ==
  /\ answer = {}
  /\ answer' = {[cyclic |-> Deadlocked(edges) # {}, tasks |-> Deadlocked(edges)]}
  /\ UNCHANGED edges

Next == \/ \E from, to \in Tasks : AddEdge(from, to) \/ RemoveEdge(from, to)
        \/ \E node \in Tasks : RemoveNode(node)
        \/ HasCycles

Spec == Init /\ [][Next]_<<edges, answer>>
=============================================================================
