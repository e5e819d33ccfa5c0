--------------------------- MODULE WaitForGraphProofs ---------------------------
(***************************************************************************)
(* Proofs about WaitForGraph, for any finite set of tasks.                 *)
(***************************************************************************)
EXTENDS WaitForGraph, Numbers, FiniteSetTheorems, TLAPS

\* The nodes HasCycles has taken from its queue.
Done == {n \in Nodes : inDegree[n] = 0} \ queue

\* What holds between two turns of the loop of HasCycles: a node's in-degree
\* counts the waiters not yet processed, the queue holds nodes without any,
\* and no set of mutually awaited tasks has lost a member.
KahnInv ==
  pc = "kahn" =>
    /\ DOMAIN inDegree = Nodes
    /\ \A n \in Nodes : inDegree[n] = Cardinality(Waiters(n) \ Done)
    /\ queue \subseteq {n \in Nodes : inDegree[n] = 0}
    /\ processed = Cardinality(Done)
    /\ \A S \in SUBSET Nodes : Stuck(S) => S \cap Done = {}

GraphType == /\ DOMAIN adj \subseteq Tasks
             /\ \A m \in DOMAIN adj : adj[m] \subseteq Tasks \ {m}

IInv == TypeOK /\ KahnInv /\ ReportIsLargest

\* There are finitely many nodes and waiters.
LEMMA NodesFinite ==
  ASSUME GraphType
  PROVE  /\ Nodes \subseteq Tasks /\ IsFiniteSet(Nodes)
         /\ \A n : Waiters(n) \subseteq Nodes /\ IsFiniteSet(Waiters(n))
<1>1. Nodes \subseteq Tasks
  BY DEF GraphType, Nodes
<1>2. \A n : Waiters(n) \subseteq Nodes
  BY DEF Waiters, Nodes
<1> QED
  BY <1>1, <1>2, FS_Subset, TasksAssumption

\* A node of the graph waits for a node of the graph.
LEMMA WaitsNodes ==
  ASSUME NEW m, NEW n, Waits(m, n)
  PROVE  m \in Nodes /\ n \in Nodes /\ m \in Waiters(n)
  BY DEF Waits, Nodes, Waiters

\* The empty graph satisfies the invariant.
LEMMA TypeInit == Init => IInv
<1> SUFFICES ASSUME Init PROVE IInv
  OBVIOUS
<1>1. DOMAIN adj = {} /\ DOMAIN inDegree = {}
  BY DEF Init
<1>2. TypeOK
  BY <1>1 DEF Init, TypeOK
<1> QED
  BY <1>2 DEF Init, IInv, KahnInv, ReportIsLargest

\* Changing the graph forgets the last report.
LEMMA ChangeInv ==
  ASSUME IInv, Change, GraphType'
  PROVE  IInv'
<1>1. TypeOK'
  BY DEF Change, TypeOK, GraphType
<1> QED
  BY <1>1 DEF Change, IInv, KahnInv, ReportIsLargest

\* The in-degrees HasCycles starts from count the waiters of each node.
LEMMA HasCyclesInv ==
  ASSUME IInv, HasCycles
  PROVE  IInv'
<1>0. TypeOK /\ GraphType
  BY DEF IInv, TypeOK, GraphType
<1>1. \A n : IsFiniteSet(Waiters(n))
  BY <1>0, NodesFinite
<1>2. \A n : /\ Cardinality(Waiters(n)) \in Nat
             /\ Cardinality(Waiters(n)) = 0 <=> Waiters(n) = {}
  BY <1>1, FS_CardinalityType, FS_EmptySet
<1>3. /\ UNCHANGED adj /\ Nodes' = Nodes
      /\ inDegree' = [n \in Nodes |-> Cardinality(Waiters(n))]
      /\ queue' = {n \in Nodes : Waiters(n) = {}}
      /\ processed' = 0 /\ result' = FALSE /\ deadlocked' = {}
  BY DEF HasCycles, Nodes
<1>4. Done' = {}
  BY <1>2, <1>3 DEF Done
<1>5. \A n : Waiters(n)' = Waiters(n)
  BY <1>3 DEF Waiters
<1>6. TypeOK'
  <2>1. Nodes \subseteq Tasks
    BY <1>0, NodesFinite
  <2>2. pc' \in {"idle", "kahn", "done"}
    BY DEF HasCycles
  <2> QED
    BY <1>0, <1>2, <1>3, <2>1, <2>2 DEF TypeOK
<1>7. KahnInv'
  BY <1>2, <1>3, <1>4, <1>5, FS_EmptySet DEF KahnInv
<1>8. ReportIsLargest'
  <2> SUFFICES ASSUME pc' = "done" PROVE ReportIsLargest'
    BY DEF ReportIsLargest
  <2>1. Nodes = {}
    BY DEF HasCycles
  <2> QED
    BY <1>3, <2>1 DEF ReportIsLargest, Stuck
<1> QED
  BY <1>6, <1>7, <1>8 DEF IInv

\* The popped node joins Done; its successors lose a waiter each.
LEMMA ProcessInv ==
  ASSUME IInv, Process
  PROVE  IInv'
<1>0. TypeOK /\ GraphType /\ pc = "kahn"
  BY DEF IInv, TypeOK, GraphType, Process
<1>1. /\ DOMAIN inDegree = Nodes
      /\ \A n \in Nodes : inDegree[n] = Cardinality(Waiters(n) \ Done)
      /\ queue \subseteq {n \in Nodes : inDegree[n] = 0}
      /\ processed = Cardinality(Done)
      /\ \A S \in SUBSET Nodes : Stuck(S) => S \cap Done = {}
  BY <1>0 DEF IInv, KahnInv
<1>2. PICK node \in queue :
        /\ inDegree' = [n \in Nodes |-> IF Waits(node, n) THEN inDegree[n] - 1
                                                          ELSE inDegree[n]]
        /\ queue' = (queue \ {node})
                      \cup {n \in Nodes : Waits(node, n) /\ inDegree[n] = 1}
  BY DEF Process
<1>3. /\ UNCHANGED <<adj, pc, result, deadlocked>> /\ processed' = processed + 1
      /\ Nodes' = Nodes /\ \A n : Waiters(n)' = Waiters(n)
  BY DEF Process, Nodes, Waiters
<1>4. node \in Nodes /\ inDegree[node] = 0 /\ node \notin Done
  BY <1>1, <1>2 DEF Done
<1>5. \A n \in Nodes : /\ IsFiniteSet(Waiters(n) \ Done)
                       /\ inDegree[n] \in Nat
                       /\ inDegree[n] = 0 <=> Waiters(n) \ Done = {}
  <2>1. \A n : IsFiniteSet(Waiters(n) \ Done)
    BY <1>0, NodesFinite, FS_Subset
  <2> QED
    BY <1>1, <2>1, FS_CardinalityType, FS_EmptySet
\* A waiter of the node that is not processed yet is counted.
<1>6. ASSUME NEW n \in Nodes, Waits(node, n)
      PROVE  /\ inDegree[n] \in Nat \ {0}
             /\ Cardinality(Waiters(n) \ (Done \cup {node})) = inDegree[n] - 1
  <2>1. node \in Waiters(n) \ Done
    BY <1>4, <1>6, WaitsNodes
  <2>2. inDegree[n] \in Nat \ {0}
    BY <1>5, <2>1
  <2>3. Cardinality((Waiters(n) \ Done) \ {node})
          = Cardinality(Waiters(n) \ Done) - 1
    BY <1>5, <2>1, FS_RemoveElement
  <2>4. Waiters(n) \ (Done \cup {node}) = (Waiters(n) \ Done) \ {node}
    OBVIOUS
  <2> QED
    BY <1>1, <2>2, <2>3, <2>4
<1>7. ASSUME NEW n \in Nodes, ~Waits(node, n)
      PROVE  Cardinality(Waiters(n) \ (Done \cup {node})) = inDegree[n]
  <2>1. node \notin Waiters(n)
    BY <1>7 DEF Waits, Waiters
  <2>2. Waiters(n) \ (Done \cup {node}) = Waiters(n) \ Done
    BY <2>1
  <2> QED
    BY <1>1, <2>2
<1>8. \A n \in Nodes : inDegree'[n] = IF Waits(node, n) THEN inDegree[n] - 1
                                                       ELSE inDegree[n]
  BY <1>2
<1>9. Done' = Done \cup {node}
  <2>1. ASSUME NEW n \in Nodes
        PROVE  n \in Done' <=> n \in Done \cup {node}
    <3>1. CASE Waits(node, n)
      <4>1. inDegree[n] \in Nat \ {0} /\ inDegree'[n] = inDegree[n] - 1
        BY <1>6, <1>8, <3>1
      <4>2. n # node /\ n \notin Done /\ n \notin queue
        BY <1>1, <1>4, <4>1 DEF Done
      <4> QED
        BY <1>2, <1>3, <3>1, <4>1, <4>2 DEF Done
    <3>2. CASE ~Waits(node, n)
      BY <1>2, <1>3, <1>4, <1>8, <3>2 DEF Done
    <3> QED
      BY <3>1, <3>2
  <2>2. Done \cup {node} \subseteq Nodes /\ Done' \subseteq Nodes
    BY <1>3, <1>4 DEF Done
  <2> QED
    BY <2>1, <2>2
<1>10. TypeOK'
  <2>1. \A n \in Nodes : inDegree'[n] \in Nat
    <3> SUFFICES ASSUME NEW n \in Nodes PROVE inDegree'[n] \in Nat
      OBVIOUS
    <3>1. inDegree[n] \in Nat
      BY <1>5
    <3>2. CASE Waits(node, n)
      <4>1. inDegree[n] \in Nat \ {0}
        BY <1>6, <3>2
      <4>2. inDegree'[n] = inDegree[n] - 1
        BY <1>8, <3>2
      <4> QED
        BY <4>1, <4>2
    <3>3. CASE ~Waits(node, n)
      BY <1>8, <3>1, <3>3
    <3> QED
      BY <3>2, <3>3
  <2>2. DOMAIN inDegree' = Nodes /\ Nodes \subseteq Tasks
    BY <1>0, <1>2, NodesFinite
  <2>3. queue' \subseteq Tasks
    BY <1>0, <1>2, <2>2 DEF TypeOK
  <2> QED
    BY <1>0, <1>3, <2>1, <2>2, <2>3 DEF TypeOK
<1>11. \A n \in Nodes' : inDegree'[n] = Cardinality(Waiters(n)' \ Done')
  BY <1>3, <1>6, <1>7, <1>8, <1>9
<1>12. queue' \subseteq {n \in Nodes' : inDegree'[n] = 0}
  <2>1. ASSUME NEW n \in queue'
        PROVE  n \in Nodes /\ inDegree'[n] = 0
    <3>1. CASE Waits(node, n) /\ inDegree[n] = 1 /\ n \in Nodes
      BY <1>8, <3>1
    <3>2. CASE n \in queue
      <4>1. n \in Nodes /\ inDegree[n] = 0
        BY <1>1, <3>2
      <4>2. ~Waits(node, n)
        BY <1>6, <4>1
      <4> QED
        BY <1>8, <4>1, <4>2
    <3> QED
      BY <1>2, <2>1, <3>1, <3>2
  <2> QED
    BY <1>3, <2>1
<1>13. processed' = Cardinality(Done')
  <2>1. IsFiniteSet(Done)
    BY <1>0, NodesFinite, FS_Subset DEF Done
  <2> QED
    <3>1. /\ Cardinality(Done \cup {node}) = Cardinality(Done) + 1
          /\ Cardinality(Done) \in Nat
      BY <1>4, <2>1, FS_AddElement, FS_CardinalityType
    <3>2. Cardinality(Done') = Cardinality(Done \cup {node})
      BY <1>9
    <3> QED
      BY <1>1, <1>3, <3>1, <3>2
\* All waiters of the node are processed: no mutually awaited set has it.
<1>14. ASSUME NEW S \in SUBSET Nodes, Stuck(S)
       PROVE  S \cap Done' = {}
  <2>1. S \cap Done = {}
    BY <1>1, <1>14
  <2>2. Waiters(node) \subseteq Done
    BY <1>4, <1>5
  <2>3. node \notin S
    BY <1>14, <2>1, <2>2, WaitsNodes DEF Stuck
  <2> QED
    BY <1>9, <2>1, <2>3
<1>15. \A S \in SUBSET Nodes' : Stuck(S)' => S \cap Done' = {}
  BY <1>3, <1>14 DEF Stuck, Waits
<1>16. KahnInv'
  BY <1>2, <1>3, <1>11, <1>12, <1>13, <1>15 DEF KahnInv
<1> QED
  BY <1>0, <1>3, <1>10, <1>16 DEF IInv, ReportIsLargest

\* With an empty queue Done is every node of in-degree 0, so the report is
\* every other node.
LEMMA FinishInv ==
  ASSUME IInv, Finish
  PROVE  IInv'
<1>0. TypeOK /\ GraphType /\ pc = "kahn" /\ queue = {}
  BY DEF IInv, TypeOK, GraphType, Finish
<1>1. /\ \A n \in Nodes : inDegree[n] = Cardinality(Waiters(n) \ Done)
      /\ processed = Cardinality(Done) /\ DOMAIN inDegree = Nodes
      /\ \A S \in SUBSET Nodes : Stuck(S) => S \cap Done = {}
  BY <1>0 DEF IInv, KahnInv
<1>2. Done = {n \in Nodes : inDegree[n] = 0}
  BY <1>0 DEF Done
<1>3. /\ IsFiniteSet(Nodes) /\ IsFiniteSet(Done) /\ Nodes \subseteq Tasks
      /\ Cardinality(Nodes) \in Nat /\ Cardinality(Done) \in Nat
      /\ Cardinality(Done) <= Cardinality(Nodes)
      /\ Cardinality(Done) = Cardinality(Nodes) => Done = Nodes
  BY <1>0, <1>2, NodesFinite, FS_Subset, FS_CardinalityType
<1>4. \A n \in Nodes : inDegree[n] \in Nat
  BY <1>0, <1>1 DEF TypeOK
<1>5. {n \in Nodes : inDegree[n] > 0} = Nodes \ Done
  BY <1>2, <1>4
<1>6. /\ deadlocked' = Nodes \ Done
      /\ result' = (Nodes \ Done # {})
  <2>1. CASE processed < Cardinality(Nodes)
    <3>1. Nodes \ Done # {}
      BY <1>1, <1>2, <1>3, <2>1
    <3> QED
      BY <1>5, <2>1, <3>1 DEF Finish
  <2>2. CASE ~(processed < Cardinality(Nodes))
    <3>1. Done = Nodes
      BY <1>1, <1>3, <2>2
    <3> QED
      BY <2>2, <3>1 DEF Finish
  <2> QED
    BY <2>1, <2>2
<1>7. Nodes' = Nodes /\ UNCHANGED <<adj, inDegree, queue, processed>> /\ pc' = "done"
  BY DEF Finish, Nodes
\* Each reported node has a waiter that was not processed either.
<1>8. Stuck(Nodes \ Done)
  <2> SUFFICES ASSUME NEW n \in Nodes \ Done
               PROVE  \E m \in Nodes \ Done : Waits(m, n)
    BY DEF Stuck
  <2>1. Cardinality(Waiters(n) \ Done) # 0
    BY <1>1, <1>2
  <2>2. Waiters(n) \ Done # {}
    BY <2>1, FS_EmptySet
  <2>3. PICK m \in Waiters(n) : m \notin Done
    BY <2>2
  <2> QED
    BY <2>3 DEF Waiters, Waits, Nodes
<1>9. \A S \in SUBSET Nodes : Stuck(S) => S \subseteq Nodes \ Done
  BY <1>1
<1>10. ReportIsLargest'
  <2>1. \A S : Stuck(S)' <=> Stuck(S)
    BY <1>7 DEF Stuck, Waits
  <2>2. Stuck(deadlocked') /\ deadlocked' \subseteq Nodes
    BY <1>6, <1>8
  <2>3. Stuck(deadlocked)'
    BY <1>7, <2>2 DEF Stuck, Waits
  <2> QED
    BY <1>6, <1>7, <1>9, <2>1, <2>2, <2>3 DEF ReportIsLargest
<1>11. TypeOK'
  <2>1. deadlocked' \subseteq Tasks
    BY <1>3, <1>6
  <2>2. result' \in BOOLEAN
    BY <1>6
  <2> QED
    BY <1>0, <1>7, <2>1, <2>2 DEF TypeOK
<1> QED
  BY <1>7, <1>10, <1>11 DEF IInv, KahnInv

\* Every step keeps the invariant: changes of the graph, and Kahn's steps.
LEMMA InvNext == IInv /\ [Next]_vars => IInv'
<1> SUFFICES ASSUME IInv, [Next]_vars PROVE IInv'
  OBVIOUS
<1>0. GraphType
  BY DEF IInv, TypeOK, GraphType
<1>1. CASE UNCHANGED vars
  <2>1. /\ UNCHANGED <<adj, pc, inDegree, queue, processed, result, deadlocked>>
        /\ Nodes' = Nodes /\ Done' = Done
    BY <1>1 DEF vars, locals, Nodes, Done
  <2>2. TypeOK'
    BY <2>1 DEF IInv, TypeOK
  <2>3. (\A S : Stuck(S)' <=> Stuck(S)) /\ (\A n : Waiters(n)' = Waiters(n))
    BY <2>1 DEF Stuck, Waits, Waiters
  <2>4. KahnInv'
    BY <2>1, <2>3 DEF IInv, KahnInv
  <2>5. ReportIsLargest'
    BY <2>1 DEF IInv, ReportIsLargest, Stuck, Waits
  <2> QED
    BY <2>2, <2>4, <2>5 DEF IInv
<1>2. ASSUME NEW from \in Tasks, NEW to \in Tasks, AddEdge(from, to)
      PROVE  IInv'
  <2>1. GraphType'
    BY <1>0, <1>2 DEF AddEdge, GraphType
  <2> QED
    BY <1>2, <2>1, ChangeInv DEF AddEdge
<1>3. ASSUME NEW from \in Tasks, NEW to \in Tasks, RemoveEdge(from, to)
      PROVE  IInv'
  <2>1. GraphType'
    BY <1>0, <1>3 DEF RemoveEdge, GraphType
  <2> QED
    BY <1>3, <2>1, ChangeInv DEF RemoveEdge
<1>4. ASSUME NEW node \in Tasks, RemoveNode(node)
      PROVE  IInv'
  <2>1. GraphType'
    BY <1>0, <1>4 DEF RemoveNode, GraphType
  <2> QED
    BY <1>4, <2>1, ChangeInv DEF RemoveNode
<1> QED
  BY <1>1, <1>2, <1>3, <1>4, HasCyclesInv, ProcessInv, FinishInv DEF Next

\* For any finite graph HasCycles reports exactly the largest set of tasks
\* each awaited by another of the set (graph.go:117-170).
THEOREM HasCyclesExact == Spec => []ReportIsLargest
<1>1. IInv => ReportIsLargest
  BY DEF IInv
<1> QED
  BY <1>1, TypeInit, InvNext, PTL DEF Spec

\* Every variable keeps its type; no in-degree is decremented below 0.
THEOREM GraphTyped == Spec => []TypeOK
<1>1. IInv => TypeOK
  BY DEF IInv
<1> QED
  BY <1>1, TypeInit, InvNext, PTL DEF Spec

-----------------------------------------------------------------------------
(* The refinement of CycleReport: the lists behave like a set of edges, and *)
(* the loop like one look at it.                                           *)


\* The state of the report, under names of its own.
Edges  == {e \in Tasks \X Tasks : Waits(e[1], e[2])}
Answer == IF pc = "done" THEN {[cyclic |-> result, tasks |-> deadlocked]} ELSE {}

\* Among tasks, being stuck is a matter of edges; no task waits for itself.
LEMMA StuckByEdges ==
  ASSUME TypeOK, NEW S \in SUBSET Tasks
  PROVE  Stuck(S) <=> \A n \in S : \E m \in S \ {n} : <<m, n>> \in Edges
<1>1. ASSUME NEW m \in Tasks, NEW n \in Tasks
      PROVE  /\ Waits(m, n) <=> <<m, n>> \in Edges
             /\ Waits(m, n) => m # n
  BY DEF TypeOK, Waits, Edges
<1>2. ASSUME NEW n \in S
      PROVE  (\E m \in S : Waits(m, n)) <=> \E m \in S \ {n} : <<m, n>> \in Edges
  BY <1>1
<1> QED
  BY <1>2 DEF Stuck

\* The report of Kahn's loop is the answer of the definition.
Exact == pc = "done" => /\ deadlocked = Deadlocked(Edges)
                        /\ result = (Deadlocked(Edges) # {})

LEMMA AnswerExact == TypeOK /\ ReportIsLargest => Exact
<1> SUFFICES ASSUME TypeOK, ReportIsLargest, pc = "done"
             PROVE  /\ deadlocked = Deadlocked(Edges)
                    /\ result = (Deadlocked(Edges) # {})
  BY DEF Exact
<1>1. /\ Stuck(deadlocked) /\ deadlocked \subseteq Tasks
      /\ \A S \in SUBSET Nodes : Stuck(S) => S \subseteq deadlocked
      /\ result \in BOOLEAN /\ (result <=> deadlocked # {})
  BY DEF ReportIsLargest, TypeOK
<1>2. deadlocked \subseteq Deadlocked(Edges)
  BY <1>1, StuckByEdges DEF Deadlocked
<1>3. Deadlocked(Edges) \subseteq deadlocked
  <2>1. SUFFICES ASSUME NEW S \in SUBSET Tasks, Stuck(S) PROVE S \subseteq deadlocked
    BY StuckByEdges DEF Deadlocked
  <2>2. S \subseteq Nodes
    BY <2>1, WaitsNodes DEF Stuck
  <2> QED
    BY <1>1, <2>1, <2>2
<1>4. deadlocked = Deadlocked(Edges)
  BY <1>2, <1>3
<1> QED
  BY <1>1, <1>4

\* At first there is no edge and no answer.
LEMMA ReportInit == Init => Report!Init
  BY DEF Init, Waits, Report!Init

\* A change of the lists is the change of the set, and forgets the answer.
LEMMA ChangeReport ==
  ASSUME Change, NEW F, F = Edges' PROVE Report!Set(F)
<1>1. Answer' = {}
  BY DEF Change, Answer
<1> QED
  BY <1>1 DEF Report!Set, Edges, Answer

LEMMA AddEdgeReport ==
  ASSUME TypeOK, NEW from \in Tasks, NEW to \in Tasks, AddEdge(from, to)
  PROVE  Report!AddEdge(from, to)
<1>1. Edges' = IF from = to THEN Edges ELSE Edges \cup {<<from, to>>}
  <2>1. CASE from = to
    BY <2>1 DEF AddEdge, Edges, Waits
  <2>2. CASE from # to
    <3>1. ASSUME NEW m \in Tasks, NEW n \in Tasks
          PROVE  Waits(m, n)' <=> Waits(m, n) \/ (m = from /\ n = to)
      BY <2>2 DEF AddEdge, Waits
    <3>2. Edges' = {e \in Tasks \X Tasks :
                      Waits(e[1], e[2]) \/ (e[1] = from /\ e[2] = to)}
      BY <3>1 DEF Edges
    <3> QED
      BY <2>2, <3>2 DEF Edges
  <2> QED
    BY <2>1, <2>2
<1>2. Change
  BY DEF AddEdge
<1> QED
  BY <1>1, <1>2, ChangeReport DEF Report!AddEdge, Edges

LEMMA RemoveEdgeReport ==
  ASSUME TypeOK, NEW from \in Tasks, NEW to \in Tasks, RemoveEdge(from, to)
  PROVE  Report!RemoveEdge(from, to)
<1>1. Edges' = Edges \ {<<from, to>>}
  <2>1. ASSUME NEW m \in Tasks, NEW n \in Tasks
        PROVE  Waits(m, n)' <=> Waits(m, n) /\ ~(m = from /\ n = to)
    BY DEF RemoveEdge, Waits
  <2>2. Edges' = {e \in Tasks \X Tasks :
                    Waits(e[1], e[2]) /\ ~(e[1] = from /\ e[2] = to)}
    BY <2>1 DEF Edges
  <2> QED
    BY <2>2 DEF Edges
<1>2. Change
  BY DEF RemoveEdge
<1> QED
  BY <1>1, <1>2, ChangeReport DEF Report!RemoveEdge, Edges

LEMMA RemoveNodeReport ==
  ASSUME TypeOK, NEW node \in Tasks, RemoveNode(node)
  PROVE  Report!RemoveNode(node)
<1>1. Edges' = {e \in Edges : node \notin {e[1], e[2]}}
  <2>1. ASSUME NEW m \in Tasks, NEW n \in Tasks
        PROVE  Waits(m, n)' <=> Waits(m, n) /\ node \notin {m, n}
    BY DEF RemoveNode, Waits
  <2>2. Edges' = {e \in Tasks \X Tasks :
                    Waits(e[1], e[2]) /\ node \notin {e[1], e[2]}}
    BY <2>1 DEF Edges
  <2> QED
    BY <2>2 DEF Edges
<1>2. Change
  BY DEF RemoveNode
<1> QED
  BY <1>1, <1>2, ChangeReport DEF Report!RemoveNode, Edges

\* The loop is silent until it returns, and then gives the answer.
LEMMA LoopReport ==
  ASSUME IInv, IInv', HasCycles \/ Process \/ Finish
  PROVE  [Report!Next]_<<Edges, Answer>>
<1>1. pc # "done" /\ UNCHANGED adj /\ Edges' = Edges /\ Answer = {}
  BY DEF HasCycles, Process, Finish, Edges, Waits, Answer
<1>2. CASE pc' # "done"
  BY <1>1, <1>2 DEF Answer
<1>3. CASE pc' = "done"
  <2>1. /\ deadlocked' = Deadlocked(Edges')
        /\ result' = (Deadlocked(Edges') # {})
    <3>1. TypeOK' /\ ReportIsLargest'
      BY DEF IInv
    <3>2. Exact'
      BY <3>1, AnswerExact, PTL
    <3> QED
      BY <1>3, <3>2 DEF Exact
  <2>2. Answer' = {[cyclic |-> Deadlocked(Edges) # {}, tasks |-> Deadlocked(Edges)]}
    BY <1>1, <1>3, <2>1 DEF Answer
  <2> QED
    BY <1>1, <2>2 DEF Report!Next, Report!HasCycles, Report!Deadlocked,
       Deadlocked, Edges, Answer
<1> QED
  BY <1>2, <1>3

LEMMA ReportNext ==
  IInv /\ IInv' /\ [Next]_vars => [Report!Next]_<<Edges, Answer>>
<1> SUFFICES ASSUME IInv, IInv', [Next]_vars
             PROVE  [Report!Next]_<<Edges, Answer>>
  OBVIOUS
<1>0. TypeOK
  BY DEF IInv
<1>1. CASE UNCHANGED vars
  BY <1>1 DEF vars, locals, Edges, Waits, Answer
<1>2. ASSUME NEW from \in Tasks, NEW to \in Tasks,
             AddEdge(from, to) \/ RemoveEdge(from, to)
      PROVE  Report!Next
  BY <1>0, <1>2, AddEdgeReport, RemoveEdgeReport DEF Report!Next
<1>3. ASSUME NEW node \in Tasks, RemoveNode(node)
      PROVE  Report!Next
  BY <1>0, <1>3, RemoveNodeReport DEF Report!Next
<1>4. CASE HasCycles \/ Process \/ Finish
  BY <1>4, LoopReport
<1> QED
  BY <1>1, <1>2, <1>3, <1>4 DEF Next

\* Under every sequence of additions, removals and calls the graph answers like
\* a set of edges that is looked at in one step (graph.go:34-170).
THEOREM ReportAtOnce == Spec => ReportsAtOnce
<1>1. IInv /\ IInv' /\ [Next]_vars => [Report!Next]_<<Edges, Answer>>
  BY ReportNext
<1> QED
  BY <1>1, ReportInit, TypeInit, InvNext, PTL
     DEF Spec, ReportsAtOnce, Report!Spec, Edges, Answer

-----------------------------------------------------------------------------
(* In terms of paths: what is reported lies downstream of a cycle.          *)

\* S holds what m waits for, and what any of S waits for.
Closed(m, S) ==
  /\ \A k \in Nodes : Waits(m, k) => k \in S
  /\ \A a \in S, k \in Nodes : Waits(a, k) => k \in S

\* Awaited is the least set that is closed for m.
LEMMA AwaitedLeast ==
  ASSUME NEW m
  PROVE  /\ Awaited(m) \in SUBSET Nodes /\ Closed(m, Awaited(m))
         /\ \A S \in SUBSET Nodes : Closed(m, S) => Awaited(m) \subseteq S
<1>1. Awaited(m) = {n \in Nodes : \A S \in SUBSET Nodes : Closed(m, S) => n \in S}
  BY DEF Awaited, Closed
<1>2. \A S \in SUBSET Nodes : Closed(m, S) => Awaited(m) \subseteq S
  BY <1>1
<1>3. ASSUME NEW k \in Nodes, Waits(m, k) PROVE k \in Awaited(m)
  BY <1>1, <1>3 DEF Closed
<1>4. ASSUME NEW a \in Awaited(m), NEW k \in Nodes, Waits(a, k) PROVE k \in Awaited(m)
  <2>1. \A S \in SUBSET Nodes : Closed(m, S) => a \in S
    BY <1>1
  <2>2. \A S \in SUBSET Nodes : Closed(m, S) => k \in S
    BY <1>4, <2>1 DEF Closed
  <2> QED
    BY <1>1, <2>2
<1> QED
  BY <1>1, <1>2, <1>3, <1>4 DEF Closed

\* What is awaited by what m awaits, m awaits.
LEMMA AwaitedThrough ==
  ASSUME NEW m, NEW n \in Awaited(m) PROVE Awaited(n) \subseteq Awaited(m)
<1>1. Awaited(m) \in SUBSET Nodes /\ Closed(m, Awaited(m))
  BY AwaitedLeast
<1>2. Closed(n, Awaited(m))
  BY <1>1 DEF Closed
<1> QED
  BY <1>1, <1>2, AwaitedLeast

\* The nodes on a cycle, and those a node on a cycle waits for.
Downstream == {n \in Nodes : \E m \in Nodes : OnCycle(m) /\ n \in Awaited(m)}

\* Of what a node on a cycle awaits, everything has a waiter there: those that
\* have one are closed already.
LEMMA DownstreamStuck == Stuck(Downstream)
<1> SUFFICES ASSUME NEW n \in Downstream PROVE \E k \in Downstream : Waits(k, n)
  BY DEF Stuck
<1>1. PICK m \in Nodes : m \in Awaited(m) /\ n \in Awaited(m)
  BY DEF Downstream, OnCycle
<1> DEFINE A == Awaited(m)
           S == {k \in A : \E a \in A : Waits(a, k)}
<1>2. A \in SUBSET Nodes /\ Closed(m, A)
  BY AwaitedLeast
<1>3. S \in SUBSET Nodes /\ Closed(m, S)
  BY <1>1, <1>2 DEF Closed
<1>4. n \in S
  BY <1>1, <1>3, AwaitedLeast
<1>5. PICK k \in A : Waits(k, n)
  BY <1>4
<1> QED
  BY <1>1, <1>2, <1>5 DEF Downstream, OnCycle

\* Upstream of each member of a stuck set there is a cycle: walk from waiter to
\* waiter; the one with the fewest members upstream of it has a waiter that it
\* waits for itself.
LEMMA CycleUpstream ==
  ASSUME GraphType, NEW S \in SUBSET Nodes, Stuck(S), NEW n \in S
  PROVE  n \in Downstream
<1> DEFINE U(m) == {k \in S : m \in Awaited(k)}
           B    == {m \in S : n \in Awaited(m)}
           Size == {Cardinality(U(m)) : m \in B}
<1>1. IsFiniteSet(S) /\ \A m : IsFiniteSet(U(m)) /\ Cardinality(U(m)) \in Nat
  BY NodesFinite, FS_Subset, FS_CardinalityType
\* A waiter in S of what is n, or upstream of n.
<1>2. ASSUME NEW m \in S, m = n \/ m \in B
      PROVE  \E k \in B : Waits(k, m) /\ m \in Awaited(k)
  <2>1. PICK k \in S : Waits(k, m)
    BY DEF Stuck
  <2>2. m \in Awaited(k)
    BY <2>1, AwaitedLeast DEF Closed
  <2>3. n \in Awaited(k)
    BY <1>2, <2>2, AwaitedThrough
  <2> QED
    BY <2>1, <2>2, <2>3
<1>3. Size \in SUBSET Nat /\ Size # {}
  BY <1>1, <1>2
<1>4. PICK m \in B : \A k \in B : Cardinality(U(m)) <= Cardinality(U(k))
  <2>1. PICK x \in Size : \A y \in Size : x <= y
    BY <1>3, LeastNumber
  <2> QED
    BY <2>1
<1>5. PICK k \in B : Waits(k, m) /\ m \in Awaited(k)
  BY <1>2, <1>4
<1>6. k \in Awaited(k)
  <2> SUFFICES ASSUME k \notin Awaited(k) PROVE FALSE
    OBVIOUS
  <2>1. U(k) \subseteq U(m)
    BY <1>5, AwaitedLeast DEF Closed
  <2>2. k \in U(m) /\ k \notin U(k)
    BY <1>5
  <2>3. U(k) \subseteq U(m) \ {k}
    BY <2>1, <2>2
  <2> HIDE DEF U
  <2>4. Cardinality(U(m) \ {k}) = Cardinality(U(m)) - 1 /\ IsFiniteSet(U(m) \ {k})
    BY <1>1, <2>2, FS_RemoveElement
  <2>5. Cardinality(U(k)) <= Cardinality(U(m)) - 1
    BY <2>3, <2>4, FS_Subset
  <2>6. Cardinality(U(m)) <= Cardinality(U(k))
    BY <1>4, <1>5
  <2> QED
    BY <1>1, <2>5, <2>6
<1> QED
  BY <1>5, <1>6 DEF Downstream, OnCycle

\* There is a cycle exactly when HasCycles says so, and it reports the nodes on
\* a cycle and those a node on a cycle waits for: Kahn's loop, which follows no
\* path, answers in terms of paths (graph.go:97-170).
THEOREM ReportDownstream == Spec => []ReportIsDownstream
<1>1. IInv => ReportIsDownstream
  <2> SUFFICES ASSUME IInv, pc = "done"
               PROVE  /\ result <=> \E n \in Nodes : OnCycle(n)
                      /\ deadlocked = Downstream
    BY DEF ReportIsDownstream, Downstream
  <2>1. /\ Stuck(deadlocked) /\ deadlocked \in SUBSET Nodes
        /\ \A S \in SUBSET Nodes : Stuck(S) => S \subseteq deadlocked
        /\ result <=> deadlocked # {}
    BY DEF IInv, ReportIsLargest
  <2>2. Downstream \subseteq deadlocked
    BY <2>1, DownstreamStuck DEF Downstream
  <2>3. deadlocked \subseteq Downstream
    BY <2>1, CycleUpstream DEF IInv, TypeOK, GraphType
  <2>4. Downstream # {} <=> \E n \in Nodes : OnCycle(n)
    BY DEF Downstream, OnCycle
  <2> QED
    BY <2>1, <2>2, <2>3, <2>4
<1> QED
  BY <1>1, TypeInit, InvNext, PTL DEF Spec

=============================================================================
