-------------------------------- MODULE Deadlock --------------------------------
(***************************************************************************)
(* Detector and Breaker of internal/deadlock: tasks record whom they wait  *)
(* for, CheckOnce looks for a cycle of old edges and names a victim, and   *)
(* Handle cancels victims within an hourly quota.  The goroutine of        *)
(* Detector.Start drops what it finds; whoever calls CheckOnce hands the   *)
(* victims to Handle.                                                      *)
(*                                                                         *)
(* Detector.edges is guarded by an RWMutex, held for reading while a check *)
(* asks for trust scores.  Breaker.killTimestamps is guarded by nothing:   *)
(* its reads and writes are steps of their own.  Time is counted in        *)
(* Threshold-long ticks.                                                   *)
(***************************************************************************)
EXTENDS StuckSets, Sequences

CONSTANTS
  Loops,           \* goroutines started by Detector.Start
  Handlers,        \* goroutines that call CheckOnce and Handle
  Batches,         \* other lists of victims given to Handle, as sets
  Scores,          \* trust scores, ranked
  MaxKillPerHour,  \* BreakerConfig
  Hour,            \* ticks per hour
  MaxRecords       \* bound: calls of RecordEdge

ASSUME DeadlockAssumption ==
  /\ Loops \cap Handlers = {}
  /\ Batches \subseteq (SUBSET Tasks) \ {{}}
  /\ Scores \subseteq Nat /\ Scores # {}
  /\ MaxKillPerHour \in Nat /\ Hour \in Nat \ {0} /\ MaxRecords \in Nat

Checkers == Loops \cup Handlers

VARIABLES
  edges, old,      \* recorded edges, and those older than Threshold
  dryRun,          \* the DryRun of either configuration
  kills,           \* ages of killTimestamps, oldest first, up to Hour
  pc, loc,         \* each checker: where it is, and its local variables
  records,         \* calls of RecordEdge so far
  cancels,         \* history: ages of the cancellations of the last hour
  cancelled,       \* history: tasks cancelled and not seen waiting since
  awaited          \* history: those of them recorded as waited for since

vars == <<edges, old, dryRun, kills, pc, loc, records, cancels, cancelled, awaited>>

Local == [nodes   : SUBSET Tasks,       \* deadlocked, in checkOnce
          victims : SUBSET Tasks,       \* still to be handled
          victim  : Tasks \cup {0},     \* the one just cancelled
          read    : Seq(0..Hour),       \* killTimestamps as read
          given   : BOOLEAN,            \* history: victims are a Batch
          moved   : BOOLEAN]            \* history: old edges went since the check

None == [nodes |-> {}, victims |-> {}, victim |-> 0, read |-> <<>>,
         given |-> FALSE, moved |-> FALSE]

TypeOK ==
  /\ edges \subseteq Tasks \X Tasks /\ old \subseteq edges
  /\ dryRun \in [{"detector", "breaker"} -> BOOLEAN]
  /\ kills \in Seq(0..Hour) /\ cancels \in Seq(0..Hour)
  /\ pc \in [Checkers -> {"idle", "weigh", "quota", "filter", "cancel",
                          "record", "append", "remove"}]
  /\ loc \in [Checkers -> Local]
  /\ records \in 0..MaxRecords
  /\ cancelled \subseteq Tasks /\ awaited \subseteq cancelled

Init ==
  /\ edges = {} /\ old = {}
  /\ dryRun \in [{"detector", "breaker"} -> BOOLEAN]
  /\ kills = <<>> /\ cancels = <<>> /\ cancelled = {} /\ awaited = {}
  /\ pc = [c \in Checkers |-> "idle"]
  /\ loc = [c \in Checkers |-> None]
  /\ records = 0

\* d.mu can be locked for writing.
Unlocked == \A c \in Checkers : pc[c] # "weigh"

\* The ages of s below Hour, in their order: the loop of canKill.
Young(s) ==
  LET kept[i \in 0..Len(s)] ==
        IF i = 0 THEN <<>>
        ELSE IF s[i] < Hour THEN Append(kept[i - 1], s[i]) ELSE kept[i - 1]
  IN  kept[Len(s)]

Goto(c, l) == pc' = [pc EXCEPT ![c] = l]
Return(c)  == Goto(c, "idle") /\ loc' = [loc EXCEPT ![c] = None]

-----------------------------------------------------------------------------
(* The tasks, and time. *)

\* Every checker under way hears that edges in E are gone, or young again.
Moved(E) ==
  [c \in Checkers |-> IF pc[c] # "idle" /\ E \cap old # {}
                      THEN [loc[c] EXCEPT !.moved = TRUE] ELSE loc[c]]

\* Recording an edge again makes it young again.
RecordEdge(from, to) ==
  /\ Unlocked /\ records < MaxRecords
  /\ records' = records + 1
  /\ edges' = edges \cup {<<from, to>>}
  /\ old' = old \ {<<from, to>>}
  /\ loc' = Moved({<<from, to>>})
  /\ cancelled' = cancelled \ {from}
  /\ awaited' = (awaited \cup ({to} \cap cancelled)) \ {from}
  /\ UNCHANGED <<dryRun, kills, pc, cancels>>

\* Mutants: the age of the edge is kept; d.mu is not taken.
RemoveEdgeKeepsAge(from, to) ==
  /\ Unlocked
  /\ edges' = edges \ {<<from, to>>}
  /\ loc' = Moved({<<from, to>>})
  /\ UNCHANGED <<old, dryRun, kills, pc, records, cancels, cancelled, awaited>>

RemoveEdgeUnlocked(from, to) ==
  /\ edges' = edges \ {<<from, to>>}
  /\ old' = old \ {<<from, to>>}
  /\ loc' = Moved({<<from, to>>})
  /\ UNCHANGED <<dryRun, kills, pc, records, cancels, cancelled, awaited>>

RemoveEdge(from, to) ==
  /\ Unlocked
  /\ edges' = edges \ {<<from, to>>}
  /\ old' = old \ {<<from, to>>}
  /\ loc' = Moved({<<from, to>>})
  /\ UNCHANGED <<dryRun, kills, pc, records, cancels, cancelled, awaited>>

Older(s) == [i \in DOMAIN s |-> IF s[i] < Hour THEN s[i] + 1 ELSE Hour]

Tick ==
  /\ old' = edges
  /\ kills' = Older(kills)
  /\ cancels' = Young(Older(cancels))
  /\ loc' = [c \in Checkers |-> [loc[c] EXCEPT !.read = Older(loc[c].read)]]
  /\ UNCHANGED <<edges, dryRun, pc, records, cancelled, awaited>>

Environment == \/ \E from, to \in Tasks : RecordEdge(from, to)
                                            \/ RemoveEdge(from, to)
               \/ Tick

-----------------------------------------------------------------------------
(* Detector.checkOnce. *)

\* Mutant: the threshold is forgotten, young edges count too.
CheckOnceYoung(c) ==
  /\ pc[c] = "idle"
  /\ ~dryRun["detector"] /\ Deadlocked(edges) # {}
  /\ loc' = [loc EXCEPT ![c].nodes = Deadlocked(edges)]
  /\ Goto(c, "weigh")
  /\ UNCHANGED <<edges, old, dryRun, kills, records, cancels, cancelled, awaited>>

\* The read lock is taken and the deadlocked nodes are found.  Without any, or
\* in dry-run, the check returns nil and nothing changes.
CheckOnce(c) ==
  /\ pc[c] = "idle"
  /\ ~dryRun["detector"] /\ Deadlocked(old) # {}
  /\ loc' = [loc EXCEPT ![c].nodes = Deadlocked(old)]
  /\ Goto(c, "weigh")
  /\ UNCHANGED <<edges, old, dryRun, kills, records, cancels, cancelled, awaited>>

\* The lowest score of f wins, and among equals the smallest task.
Weakest(S, f) ==
  CHOOSE n \in S : \A m \in S : f[n] < f[m] \/ (f[n] = f[m] /\ n <= m)

\* Scores are asked for one by one, a failed lookup counts as the neutral one;
\* then the lock is released.  The loop of Start drops the victim.
Weigh(c) ==
  /\ pc[c] = "weigh"
  /\ \E f \in [loc[c].nodes -> Scores] :
       IF c \in Loops \/ dryRun["breaker"]
       THEN Return(c)
       ELSE /\ Goto(c, "quota")
            /\ loc' = [loc EXCEPT ![c].nodes = {},
                                  ![c].victims = {Weakest(loc[c].nodes, f)}]
  /\ UNCHANGED <<edges, old, dryRun, kills, records, cancels, cancelled, awaited>>

-----------------------------------------------------------------------------
(* Breaker.Handle. *)

\* Handle is given a list that is not the one CheckOnce just returned.
HandleBatch(c) ==
  /\ c \in Handlers /\ pc[c] = "idle" /\ ~dryRun["breaker"]
  /\ \E v \in Batches : loc' = [loc EXCEPT ![c].victims = v, ![c].given = TRUE]
  /\ Goto(c, "quota")
  /\ UNCHANGED <<edges, old, dryRun, kills, records, cancels, cancelled, awaited>>

\* canKill reads killTimestamps, drops what is an hour old, and compares.
CanKillRead(c) ==
  /\ pc[c] = "quota"
  /\ loc' = [loc EXCEPT ![c].read = kills]
  /\ Goto(c, "filter")
  /\ UNCHANGED <<edges, old, dryRun, kills, records, cancels, cancelled, awaited>>

\* Mutants: what is an hour old is kept and the rest dropped; one kill too
\* many; nothing is ever dropped.
CanKillInverted(c) ==
  /\ pc[c] = "filter"
  /\ LET kept == SelectSeq(loc[c].read, LAMBDA t : t >= Hour) IN
     /\ kills' = kept
     /\ IF Len(kept) < MaxKillPerHour
        THEN Goto(c, "cancel") /\ loc' = [loc EXCEPT ![c].read = <<>>]
        ELSE Return(c)
  /\ UNCHANGED <<edges, old, dryRun, records, cancels, cancelled, awaited>>

CanKillOneMore(c) ==
  /\ pc[c] = "filter"
  /\ kills' = Young(loc[c].read)
  /\ IF Len(Young(loc[c].read)) <= MaxKillPerHour
     THEN Goto(c, "cancel") /\ loc' = [loc EXCEPT ![c].read = <<>>]
     ELSE Return(c)
  /\ UNCHANGED <<edges, old, dryRun, records, cancels, cancelled, awaited>>

CanKillForever(c) ==
  /\ pc[c] = "filter"
  /\ IF Len(loc[c].read) < MaxKillPerHour
     THEN Goto(c, "cancel") /\ loc' = [loc EXCEPT ![c].read = <<>>]
     ELSE Return(c)
  /\ UNCHANGED <<edges, old, dryRun, kills, records, cancels, cancelled, awaited>>

CanKill(c) ==
  /\ pc[c] = "filter"
  /\ kills' = Young(loc[c].read)
  /\ IF Len(Young(loc[c].read)) < MaxKillPerHour
     THEN Goto(c, "cancel") /\ loc' = [loc EXCEPT ![c].read = <<>>]
     ELSE Return(c)
  /\ UNCHANGED <<edges, old, dryRun, records, cancels, cancelled, awaited>>

\* The next victim, or the end of the list.
Handled(c, v) ==
  IF loc[c].victims = {v} THEN Return(c)
  ELSE /\ Goto(c, "cancel")
       /\ loc' = [loc EXCEPT ![c].victims = loc[c].victims \ {v},
                             ![c].victim = 0]

\* CancelCallback of one victim.
Cancel(c) ==
  /\ pc[c] = "cancel"
  /\ \E v \in loc[c].victims :
       /\ loc' = [loc EXCEPT ![c].victim = v]
       /\ cancelled' = cancelled \cup {v} /\ awaited' = awaited \ {v}
  /\ cancels' = Append(cancels, 0)
  /\ Goto(c, "record")
  /\ UNCHANGED <<edges, old, dryRun, kills, records>>

\* It fails, or is not set: the victim is skipped.
CancelFails(c) ==
  /\ pc[c] = "cancel"
  /\ \E v \in loc[c].victims : Handled(c, v)
  /\ UNCHANGED <<edges, old, dryRun, kills, records, cancels, cancelled, awaited>>

\* recordKill reads killTimestamps and appends.
RecordRead(c) ==
  /\ pc[c] = "record"
  /\ loc' = [loc EXCEPT ![c].read = kills]
  /\ Goto(c, "append")
  /\ UNCHANGED <<edges, old, dryRun, kills, records, cancels, cancelled, awaited>>

RecordKill(c) ==
  /\ pc[c] = "append"
  /\ kills' = Append(loc[c].read, 0)
  /\ loc' = [loc EXCEPT ![c].read = <<>>]
  /\ Goto(c, "remove")
  /\ UNCHANGED <<edges, old, dryRun, records, cancels, cancelled, awaited>>

\* Mutant: the edges of what was cancelled stay.
RemoveNodeKeepsEdges(c) ==
  /\ pc[c] = "remove" /\ Unlocked
  /\ Handled(c, loc[c].victim)
  /\ UNCHANGED <<edges, old, dryRun, kills, records, cancels, cancelled, awaited>>

\* RemoveNode of the detector, and on to the next victim.
RemoveNode(c) ==
  /\ pc[c] = "remove" /\ Unlocked
  /\ LET E == {e \in edges : loc[c].victim \in {e[1], e[2]}} IN
     /\ edges' = edges \ E
     /\ old' = old \ E
     /\ IF loc[c].victims = {loc[c].victim}
        THEN /\ Goto(c, "idle")
             /\ loc' = [Moved(E) EXCEPT ![c] = None]
        ELSE /\ Goto(c, "cancel")
             /\ loc' = [Moved(E) EXCEPT
                          ![c].victims = loc[c].victims \ {loc[c].victim},
                          ![c].victim = 0]
  /\ UNCHANGED <<dryRun, kills, records, cancels, cancelled, awaited>>

Running(c) == \/ Weigh(c) \/ CanKillRead(c) \/ CanKill(c)
              \/ Cancel(c) \/ CancelFails(c)
              \/ RecordRead(c) \/ RecordKill(c) \/ RemoveNode(c)

Next == \/ Environment
        \/ \E c \in Checkers : CheckOnce(c) \/ HandleBatch(c) \/ Running(c)

Spec == Init /\ [][Next]_vars

\* Time passes; every checker keeps checking, and what it began it goes on
\* with; a writer of the RWMutex gets its turn among readers; a cancellation
\* that is tried for ever succeeds in the end.
FairSpec ==
  /\ Spec /\ WF_vars(Tick)
  /\ \A c \in Checkers :
       /\ WF_vars(CheckOnce(c)) /\ WF_vars(Running(c))
       /\ SF_vars(RemoveNode(c)) /\ SF_vars(Cancel(c))

-----------------------------------------------------------------------------
(* Properties. *)

\* While scores are asked for, the deadlock they are asked about stays: no
\* task leaves it, and no edge of it becomes young (checkOnce holds d.mu).
WeighedStayStuck ==
  \A c \in Checkers : pc[c] = "weigh" => loc[c].nodes \subseteq Deadlocked(old)

\* A victim of CheckOnce is still deadlocked on old edges when it is about to
\* be cancelled, unless old edges went meanwhile.
VictimsStayStuck ==
  \A c \in Checkers :
    pc[c] \in {"quota", "filter", "cancel"} /\ ~loc[c].given /\ ~loc[c].moved
      => loc[c].victims \subseteq Deadlocked(old)

\* Handle removes the edges of what it cancelled: a single handler cancels no
\* task that CheckOnce names again before it is seen waiting, but for one that
\* waits for nobody and was recorded as waited for since: a bystander.
CancelledOnce ==
  [][\A c \in Checkers : pc[c] = "cancel" /\ pc'[c] = "record" /\ ~loc[c].given
       => LET v == loc'[c].victim IN
          v \in cancelled => v \in awaited /\ \A t \in Tasks : <<v, t>> \notin edges]_vars

\* A single handler's records miss no cancellation of the last hour, but the
\* one it is about to record.
KillsRecorded ==
  (\A c \in Checkers : pc[c] \notin {"record", "append"})
    => Len(Young(kills)) >= Len(cancels)

\* A single handler exceeds the quota by less than the longest list given to
\* Handle: the quota is looked at once per list.
KillsBounded ==
  \A n \in 0..Cardinality(Tasks) :
    (\A v \in Batches : Cardinality(v) <= n + 1) => Len(cancels) <= MaxKillPerHour + n

OnCycle(n, E) ==
  \A S \in SUBSET Tasks :
    /\ \A k \in Tasks \ {n} : <<n, k>> \in E => k \in S
    /\ \A j \in S, k \in Tasks : <<j, k>> \in E => k \in S
    => n \in S

\* A deadlocked task does not stay deadlocked, when nothing is in dry-run: the
\* cycle is found and broken in the end, whatever quota, failed cancellations
\* and bystanders that are cancelled first.
CyclesBroken ==
  \A n \in Tasks :
    (\A d \in DOMAIN dryRun : ~dryRun[d]) /\ OnCycle(n, edges)
      ~> ~OnCycle(n, edges)

=============================================================================
