------------------------------ MODULE WaitForGraph ------------------------------
(***************************************************************************)
(* The wait-for graph of internal/deadlock/graph.go: its edges, and Kahn's *)
(* algorithm in HasCycles, one popped node at a time.  A graph belongs to  *)
(* one goroutine.  AddEdge never stores an edge twice, so the slice adj[n] *)
(* is a set here; a key with an empty slice is kept as the code keeps it.  *)
(***************************************************************************)
EXTENDS StuckSets

VARIABLES
  adj,             \* adj[from] = the tasks it waits for
  pc,              \* "idle", "kahn" inside HasCycles, "done" when it returned
  inDegree, queue, processed,   \* its local variables
  result, deadlocked            \* what it returned

locals == <<inDegree, queue, processed, result, deadlocked>>
vars   == <<adj, pc, locals>>

Nodes == DOMAIN adj \cup UNION {adj[m] : m \in DOMAIN adj}

Waits(m, n) == m \in DOMAIN adj /\ n \in adj[m]

Waiters(n) == {m \in DOMAIN adj : n \in adj[m]}

TypeOK ==
  /\ DOMAIN adj \subseteq Tasks
  /\ \A m \in DOMAIN adj : adj[m] \subseteq Tasks \ {m}
  /\ pc \in {"idle", "kahn", "done"}
  /\ DOMAIN inDegree \subseteq Tasks
  /\ \A n \in DOMAIN inDegree : inDegree[n] \in Nat
  /\ queue \subseteq Tasks
  /\ processed \in Nat
  /\ result \in BOOLEAN
  /\ deadlocked \subseteq Tasks

Init ==
  /\ adj = [m \in {} |-> {}]
  /\ pc = "idle"
  /\ inDegree = [n \in {} |-> 0] /\ queue = {} /\ processed = 0
  /\ result = FALSE /\ deadlocked = {}

-----------------------------------------------------------------------------
(* Changing the graph, between two calls of HasCycles. *)

\* What the last HasCycles returned is forgotten.
Change ==
  /\ pc # "kahn" /\ pc' = "idle"
  /\ inDegree' = [n \in {} |-> 0] /\ queue' = {} /\ processed' = 0
  /\ result' = FALSE /\ deadlocked' = {}

\* Mutant: it is.
AddEdgeSelf(from, to) ==
  /\ Change
  /\ adj' = [m \in DOMAIN adj \cup {from} |->
               (IF m \in DOMAIN adj THEN adj[m] ELSE {})
                 \cup (IF m = from THEN {to} ELSE {})]

\* A task that waits for itself is not recorded.
AddEdge(from, to) ==
  /\ Change
  /\ adj' = IF from = to THEN adj
            ELSE [m \in DOMAIN adj \cup {from} |->
                    (IF m \in DOMAIN adj THEN adj[m] ELSE {})
                      \cup (IF m = from THEN {to} ELSE {})]

RemoveEdge(from, to) ==
  /\ Change
  /\ adj' = [m \in DOMAIN adj |-> IF m = from THEN adj[m] \ {to} ELSE adj[m]]

\* Mutant: edges towards the node stay.
RemoveNodeOutgoing(node) ==
  /\ Change
  /\ adj' = [m \in DOMAIN adj \ {node} |-> adj[m]]

RemoveNode(node) ==
  /\ Change
  /\ adj' = [m \in DOMAIN adj \ {node} |-> adj[m] \ {node}]

-----------------------------------------------------------------------------
(* HasCycles. *)

\* In-degrees, and the queue of the nodes nobody waits for.  An empty graph
\* has no cycle.
HasCycles ==
  /\ pc = "idle"
  /\ pc' = IF Nodes = {} THEN "done" ELSE "kahn"
  /\ inDegree' = [n \in Nodes |-> Cardinality(Waiters(n))]
  /\ queue' = {n \in Nodes : Waiters(n) = {}}
  /\ processed' = 0 /\ result' = FALSE /\ deadlocked' = {}
  /\ UNCHANGED adj

\* Mutant: in-degrees go down, but no node joins the queue.
ProcessNoPush ==
  /\ pc = "kahn"
  /\ \E node \in queue :
       /\ \A m \in queue : node <= m
       /\ inDegree' = [n \in Nodes |-> IF Waits(node, n) THEN inDegree[n] - 1
                                                         ELSE inDegree[n]]
       /\ queue' = queue \ {node}
  /\ processed' = processed + 1
  /\ UNCHANGED <<adj, pc, result, deadlocked>>

\* The smallest node of the queue is processed.
Process ==
  /\ pc = "kahn"
  /\ \E node \in queue :
       /\ \A m \in queue : node <= m
       /\ inDegree' = [n \in Nodes |-> IF Waits(node, n) THEN inDegree[n] - 1
                                                         ELSE inDegree[n]]
       /\ queue' = (queue \ {node})
                     \cup {n \in Nodes : Waits(node, n) /\ inDegree[n] = 1}
  /\ processed' = processed + 1
  /\ UNCHANGED <<adj, pc, result, deadlocked>>

\* Mutant: a node one task waits for is left out.
FinishSkipsSingle ==
  /\ pc = "kahn" /\ queue = {}
  /\ pc' = "done"
  /\ result' = (processed < Cardinality(Nodes))
  /\ deadlocked' = IF processed < Cardinality(Nodes)
                   THEN {n \in Nodes : inDegree[n] > 1} ELSE {}
  /\ UNCHANGED <<adj, inDegree, queue, processed>>

\* Nodes that were never processed are reported.
Finish ==
  /\ pc = "kahn" /\ queue = {}
  /\ pc' = "done"
  /\ result' = (processed < Cardinality(Nodes))
  /\ deadlocked' = IF processed < Cardinality(Nodes)
                   THEN {n \in Nodes : inDegree[n] > 0} ELSE {}
  /\ UNCHANGED <<adj, inDegree, queue, processed>>

Next == \/ \E from, to \in Tasks : AddEdge(from, to) \/ RemoveEdge(from, to)
        \/ \E node \in Tasks : RemoveNode(node)
        \/ HasCycles \/ Process \/ Finish

Spec == Init /\ [][Next]_vars

-----------------------------------------------------------------------------
(* Properties. *)

\* Tasks each of which another one of them waits for.
Stuck(S) == \A n \in S : \E m \in S : Waits(m, n)

\* HasCycles reports the largest such set of nodes, and a cycle when there is
\* one that is not empty: what it reports depends on the graph alone, not on
\* the order in which the queue is worked off.
ReportIsLargest ==
  pc = "done" =>
    /\ Stuck(deadlocked) /\ deadlocked \subseteq Nodes
    /\ \A S \in SUBSET Nodes : Stuck(S) => S \subseteq deadlocked
    /\ result <=> deadlocked # {}

\* The tasks that m waits for, directly or through others.
Awaited(m) ==
  {n \in Nodes : \A S \in SUBSET Nodes :
     /\ \A k \in Nodes : Waits(m, k) => k \in S
     /\ \A j \in S, k \in Nodes : Waits(j, k) => k \in S
     => n \in S}

OnCycle(n) == n \in Awaited(n)

\* In terms of paths: there is a cycle exactly when HasCycles says so, and it
\* reports the nodes on a cycle and those a node on a cycle waits for.
ReportIsDownstream ==
  pc = "done" =>
    /\ result <=> \E n \in Nodes : OnCycle(n)
    /\ deadlocked = {n \in Nodes : \E m \in Nodes : OnCycle(m) /\ n \in Awaited(m)}

\* The edges as a set, and what HasCycles returned.
Report ==
  INSTANCE CycleReport
    WITH edges  <- {e \in Tasks \X Tasks : Waits(e[1], e[2])},
         answer <- IF pc = "done"
                   THEN {[cyclic |-> result, tasks |-> deadlocked]} ELSE {}

\* The adjacency lists are a set of edges under every sequence of additions and
\* removals, and Kahn's loop answers like one look at it (graph.go:34-170).
ReportsAtOnce == Report!Spec

=============================================================================
