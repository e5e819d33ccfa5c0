---------------------------- MODULE DeadlockProofs -----------------------------
(***************************************************************************)
(* Deadlock for any tasks, checkers, batches, scores and quota: what is    *)
(* weighed and what is cancelled is still deadlocked; with one handler, no *)
(* task is cancelled twice, the records of kills miss no cancellation, and *)
(* the quota is exceeded by less than the longest list.  Ages of kills do  *)
(* not matter to the first two, so that Shape leaves the field read open.  *)
(***************************************************************************)
EXTENDS Deadlock, Numbers, FiniteSetTheorems, TLAPS

Labels  == {"idle", "weigh", "quota", "filter", "cancel", "record", "append", "remove"}
Deciding  == {"quota", "filter", "cancel"}
Recording == {"record", "append", "remove"}

Rec(nodes, victims, victim, read, given, moved) ==
  [nodes |-> nodes, victims |-> victims, victim |-> victim, read |-> read,
   given |-> given, moved |-> moved]

\* r is a record of the fields of Local.
Whole(r) == r = Rec(r.nodes, r.victims, r.victim, r.read, r.given, r.moved)

Shape ==
  /\ edges \subseteq Tasks \X Tasks /\ old \subseteq edges
  /\ pc \in [Checkers -> Labels]
  /\ loc = [c \in Checkers |-> loc[c]]
  /\ \A c \in Checkers : Whole(loc[c])

\* What is weighed is stuck, the list CheckOnce returns has one victim, and
\* that one stays stuck unless old edges went.
Sound(c) ==
  /\ pc[c] = "weigh" => loc[c].nodes # {} /\ loc[c].nodes \subseteq Deadlocked(old)
  /\ pc[c] \in Deciding /\ ~loc[c].given => \E v \in Tasks : loc[c].victims = {v}
  /\ pc[c] \in Recording /\ ~loc[c].given => loc[c].victims = {loc[c].victim}
  /\ pc[c] \in Deciding /\ ~loc[c].given /\ ~loc[c].moved
       => loc[c].victims \subseteq Deadlocked(old)

IInv == Shape /\ \A c \in Checkers : Sound(c)

-----------------------------------------------------------------------------
(* Deadlocked sets. *)

LEMMA DeadlockedGrows ==
  ASSUME NEW E, NEW F, E \subseteq F PROVE Deadlocked(E) \subseteq Deadlocked(F)
  BY DEF Deadlocked

LEMMA DeadlockedTasks ==
  ASSUME NEW E, NEW n \in Deadlocked(E)
  PROVE  n \in Tasks /\ \E m \in Tasks : <<m, n>> \in E
  BY DEF Deadlocked

\* The victim is one of the tasks weighed.
LEMMA WeakestIsWeighed ==
  ASSUME NEW S \in SUBSET Tasks, S # {}, NEW f \in [S -> Scores]
  PROVE  Weakest(S, f) \in S
<1>1. Tasks \subseteq Nat /\ Scores \subseteq Nat
  BY TasksAssumption, DeadlockAssumption
<1>2. PICK s \in {f[n] : n \in S} : \A t \in {f[n] : n \in S} : s <= t
  <2>1. {f[n] : n \in S} \in SUBSET Nat /\ {f[n] : n \in S} # {}
    BY <1>1
  <2> QED
    BY <2>1, LeastNumber
<1>3. PICK n \in {k \in S : f[k] = s} : \A m \in {k \in S : f[k] = s} : n <= m
  <2>1. {k \in S : f[k] = s} \in SUBSET Nat /\ {k \in S : f[k] = s} # {}
    BY <1>1, <1>2
  <2> QED
    BY <2>1, LeastNumber
<1>4. ASSUME NEW m \in S PROVE f[n] < f[m] \/ (f[n] = f[m] /\ n <= m)
  <2>1. f[n] <= f[m] /\ f[n] \in Nat /\ f[m] \in Nat
    BY <1>1, <1>2, <1>3
  <2>2. f[n] = f[m] => n <= m
    BY <1>3
  <2> QED
    BY <2>1, <2>2
<1>5. n \in S
  BY <1>3
<1> QED
  BY <1>4, <1>5 DEF Weakest

-----------------------------------------------------------------------------
(* What is weighed, and what is about to be cancelled, is stuck. *)

LEMMA StuckInit == Init => IInv
<1> SUFFICES ASSUME Init PROVE IInv
  OBVIOUS
<1>1. Shape
  BY DEF Init, Shape, None, Labels, Whole, Rec
<1>2. \A c \in Checkers : pc[c] = "idle"
  BY DEF Init
<1> QED
  BY <1>1, <1>2 DEF IInv, Sound, Deciding, Recording

\* A step of one checker that leaves the edges alone is judged by what it
\* leaves behind.
LEMMA OneChecker ==
  ASSUME IInv, NEW c \in Checkers, UNCHANGED <<edges, old>>,
         pc' = [pc EXCEPT ![c] = pc'[c]], pc'[c] \in Labels,
         loc' = [loc EXCEPT ![c] = loc'[c]], Whole(loc'[c]), Sound(c)'
  PROVE  IInv'
<1>1. /\ pc' \in [Checkers -> Labels]
      /\ loc' = [d \in Checkers |-> loc'[d]]
      /\ \A d \in Checkers \ {c} : pc'[d] = pc[d] /\ loc'[d] = loc[d]
  BY DEF IInv, Shape
<1>2. Shape'
  BY <1>1 DEF IInv, Shape
<1>3. \A d \in Checkers : Sound(d)'
  BY <1>1 DEF IInv, Sound
<1> QED
  BY <1>2, <1>3 DEF IInv

\* What a change of one place of pc and loc leaves there, field by field.
LEMMA Left ==
  ASSUME IInv, NEW c \in Checkers, NEW l \in Labels, NEW r,
         pc' = [pc EXCEPT ![c] = l], loc' = [loc EXCEPT ![c] = r]
  PROVE  /\ pc'[c] = l /\ pc' = [pc EXCEPT ![c] = pc'[c]]
         /\ loc'[c] = r /\ loc' = [loc EXCEPT ![c] = loc'[c]]
  BY DEF IInv, Shape

LEMMA RecFields ==
  ASSUME NEW n, NEW s, NEW v, NEW q, NEW g, NEW m
  PROVE  /\ Rec(n, s, v, q, g, m).nodes = n /\ Rec(n, s, v, q, g, m).victims = s
         /\ Rec(n, s, v, q, g, m).victim = v /\ Rec(n, s, v, q, g, m).read = q
         /\ Rec(n, s, v, q, g, m).given = g /\ Rec(n, s, v, q, g, m).moved = m
         /\ Whole(Rec(n, s, v, q, g, m))
  BY DEF Rec, Whole

\* A change of one or two fields, spelled out.
LEMMA Spelled ==
  ASSUME NEW r, NEW n, NEW s, NEW v, NEW q, NEW g, Whole(r)
  PROVE  /\ [r EXCEPT !.nodes = n] = Rec(n, r.victims, r.victim, r.read, r.given, r.moved)
         /\ [r EXCEPT !.victim = v] = Rec(r.nodes, r.victims, v, r.read, r.given, r.moved)
         /\ [r EXCEPT !.read = q] = Rec(r.nodes, r.victims, r.victim, q, r.given, r.moved)
         /\ [r EXCEPT !.moved = g] = Rec(r.nodes, r.victims, r.victim, r.read, r.given, g)
         /\ [r EXCEPT !.nodes = n, !.victims = s]
              = Rec(n, s, r.victim, r.read, r.given, r.moved)
         /\ [r EXCEPT !.victims = s, !.given = g]
              = Rec(r.nodes, s, r.victim, r.read, g, r.moved)
         /\ [r EXCEPT !.victims = s, !.victim = v]
              = Rec(r.nodes, s, v, r.read, r.given, r.moved)
<1>1. PICK nn, vs, vv, rr, gg, mm : r = Rec(nn, vs, vv, rr, gg, mm)
  BY DEF Whole
<1>2. /\ r.nodes = nn /\ r.victims = vs /\ r.victim = vv
      /\ r.read = rr /\ r.given = gg /\ r.moved = mm
  BY <1>1 DEF Rec
<1>3. /\ [r EXCEPT !.nodes = n] = Rec(n, vs, vv, rr, gg, mm)
      /\ [r EXCEPT !.victims = s] = Rec(nn, s, vv, rr, gg, mm)
  BY <1>1 DEF Rec
<1>4. /\ [r EXCEPT !.victim = v] = Rec(nn, vs, v, rr, gg, mm)
      /\ [r EXCEPT !.read = q] = Rec(nn, vs, vv, q, gg, mm)
      /\ [r EXCEPT !.moved = g] = Rec(nn, vs, vv, rr, gg, g)
  BY <1>1 DEF Rec
<1>5. /\ [r EXCEPT !.nodes = n, !.victims = s] = [[r EXCEPT !.nodes = n] EXCEPT !.victims = s]
      /\ [r EXCEPT !.victims = s, !.given = g] = [[r EXCEPT !.victims = s] EXCEPT !.given = g]
      /\ [r EXCEPT !.victims = s, !.victim = v] = [[r EXCEPT !.victims = s] EXCEPT !.victim = v]
  OBVIOUS
<1>6. [Rec(n, vs, vv, rr, gg, mm) EXCEPT !.victims = s] = Rec(n, s, vv, rr, gg, mm)
  BY DEF Rec
<1>7. [Rec(nn, s, vv, rr, gg, mm) EXCEPT !.given = g] = Rec(nn, s, vv, rr, g, mm)
  BY DEF Rec
<1>8. [Rec(nn, s, vv, rr, gg, mm) EXCEPT !.victim = v] = Rec(nn, s, v, rr, gg, mm)
  BY DEF Rec
<1> QED
  BY <1>2, <1>3, <1>4, <1>5, <1>6, <1>7, <1>8

LEMMA ReturnStuck ==
  ASSUME IInv, NEW c \in Checkers, Return(c), UNCHANGED <<edges, old>>
  PROVE  IInv'
<1>1. pc' = [pc EXCEPT ![c] = "idle"] /\ loc' = [loc EXCEPT ![c] = None]
  BY DEF Return, Goto
<1>2. /\ pc'[c] = "idle" /\ pc' = [pc EXCEPT ![c] = pc'[c]]
      /\ loc'[c] = None /\ loc' = [loc EXCEPT ![c] = loc'[c]]
  BY <1>1, Left DEF Labels
<1>3. pc'[c] \in Labels /\ Whole(loc'[c])
  BY <1>2 DEF None, Whole, Rec, Labels
<1>4. Sound(c)'
  BY <1>2 DEF Sound, Deciding, Recording
<1> QED
  BY <1>2, <1>3, <1>4, OneChecker

LEMMA CheckOnceStuck ==
  ASSUME IInv, NEW c \in Checkers, CheckOnce(c) PROVE IInv'
<1> DEFINE x == loc[c]
           r == Rec(Deadlocked(old), x.victims, x.victim, x.read, x.given, x.moved)
<1>1. /\ pc' = [pc EXCEPT ![c] = "weigh"] /\ "weigh" \in Labels
      /\ UNCHANGED <<edges, old>> /\ Deadlocked(old) # {}
      /\ loc' = [loc EXCEPT ![c].nodes = Deadlocked(old)]
  BY DEF CheckOnce, Goto, Labels
<1>2. loc' = [loc EXCEPT ![c] = [x EXCEPT !.nodes = Deadlocked(old)]]
  BY <1>1
<1>3. loc' = [loc EXCEPT ![c] = r]
  BY <1>2, Spelled DEF IInv, Shape
<1>4. r.nodes = Deadlocked(old) /\ Whole(r)
  BY RecFields
<1> HIDE DEF r
<1>5. /\ pc'[c] = "weigh" /\ pc' = [pc EXCEPT ![c] = pc'[c]]
      /\ loc'[c] = r /\ loc' = [loc EXCEPT ![c] = loc'[c]]
  BY <1>1, <1>3, Left
<1>6. Sound(c)'
  BY <1>1, <1>4, <1>5 DEF Sound, Deciding, Recording
<1> QED
  BY <1>1, <1>4, <1>5, <1>6, OneChecker

LEMMA WeighStuck ==
  ASSUME IInv, NEW c \in Checkers, Weigh(c) PROVE IInv'
<1> DEFINE x == loc[c]
<1>1. PICK f \in [x.nodes -> Scores] :
        \/ Return(c)
        \/ /\ pc' = [pc EXCEPT ![c] = "quota"]
           /\ loc' = [loc EXCEPT ![c].nodes = {}, ![c].victims = {Weakest(x.nodes, f)}]
  BY DEF Weigh, Goto
<1>2. x.nodes # {} /\ x.nodes \subseteq Deadlocked(old) /\ UNCHANGED <<edges, old>>
  BY DEF IInv, Weigh, Sound
<1>3. CASE Return(c)
  BY <1>2, <1>3, ReturnStuck
<1>4. CASE /\ pc' = [pc EXCEPT ![c] = "quota"]
           /\ loc' = [loc EXCEPT ![c].nodes = {}, ![c].victims = {Weakest(x.nodes, f)}]
  <2> DEFINE v == Weakest(x.nodes, f)
             r == Rec({}, {v}, x.victim, x.read, x.given, x.moved)
  <2>1. v \in Tasks /\ v \in Deadlocked(old)
    <3>1. x.nodes \in SUBSET Tasks
      BY <1>2, DeadlockedTasks
    <3>2. v \in x.nodes
      BY <1>2, <3>1, WeakestIsWeighed
    <3> QED
      BY <1>2, <3>1, <3>2
  <2>2. loc' = [loc EXCEPT ![c] = [x EXCEPT !.nodes = {}, !.victims = {v}]]
    BY <1>4
  <2> HIDE DEF v
  <2>3. Whole(x)
    BY DEF IInv, Shape
  <2>4. [x EXCEPT !.nodes = {}, !.victims = {v}] = r
    BY <2>3, Spelled
  <2>5. loc' = [loc EXCEPT ![c] = r]
    BY <2>2, <2>4
  <2>6. r.victims = {v} /\ Whole(r)
    BY RecFields
  <2> HIDE DEF r
  <2>7. /\ pc'[c] = "quota" /\ pc' = [pc EXCEPT ![c] = pc'[c]]
        /\ loc'[c] = r /\ loc' = [loc EXCEPT ![c] = loc'[c]]
    BY <1>4, <2>5, Left DEF Labels
  <2>8. Sound(c)' /\ pc'[c] \in Labels
    BY <1>2, <2>1, <2>6, <2>7 DEF Sound, Recording, Labels
  <2> QED
    BY <1>2, <2>6, <2>7, <2>8, OneChecker
<1> QED
  BY <1>1, <1>3, <1>4

LEMMA HandleBatchStuck ==
  ASSUME IInv, NEW c \in Checkers, HandleBatch(c) PROVE IInv'
<1> DEFINE x == loc[c]
<1>1. PICK v \in Batches : loc' = [loc EXCEPT ![c].victims = v, ![c].given = TRUE]
  BY DEF HandleBatch
<1> DEFINE r == Rec(x.nodes, v, x.victim, x.read, TRUE, x.moved)
<1>2. pc' = [pc EXCEPT ![c] = "quota"] /\ UNCHANGED <<edges, old>>
  BY DEF HandleBatch, Goto
<1>3. loc' = [loc EXCEPT ![c] = [x EXCEPT !.victims = v, !.given = TRUE]]
  BY <1>1
<1>4. Whole(x)
  BY DEF IInv, Shape
<1>5. [x EXCEPT !.victims = v, !.given = TRUE] = r
  BY <1>4, Spelled
<1>6. loc' = [loc EXCEPT ![c] = r]
  BY <1>3, <1>5
<1>7. r.given = TRUE /\ Whole(r)
  BY DEF Rec, Whole
<1> HIDE DEF r
<1>8. /\ pc'[c] = "quota" /\ pc' = [pc EXCEPT ![c] = pc'[c]]
      /\ loc'[c] = r /\ loc' = [loc EXCEPT ![c] = loc'[c]]
  BY <1>2, <1>6, Left DEF Labels
<1>9. Sound(c)' /\ pc'[c] \in Labels
  BY <1>7, <1>8 DEF Sound, Labels
<1> QED
  BY <1>2, <1>7, <1>8, <1>9, OneChecker

\* Reading, filtering and writing killTimestamps moves a checker on.
LEMMA ReadStuck ==
  ASSUME IInv, NEW c \in Checkers, NEW l, NEW q, UNCHANGED <<edges, old>>,
         pc' = [pc EXCEPT ![c] = l], loc' = [loc EXCEPT ![c].read = q],
         \/ pc[c] \in Deciding /\ l \in Deciding
         \/ pc[c] \in Recording /\ l \in Recording
  PROVE  IInv'
<1> DEFINE x == loc[c]
           r == Rec(x.nodes, x.victims, x.victim, q, x.given, x.moved)
<1>1. loc' = [loc EXCEPT ![c] = [x EXCEPT !.read = q]]
  OBVIOUS
<1>2. loc' = [loc EXCEPT ![c] = r]
  BY <1>1, Spelled DEF IInv, Shape
<1>3. /\ r.victims = x.victims /\ r.victim = x.victim
      /\ r.given = x.given /\ r.moved = x.moved /\ Whole(r)
  BY RecFields
<1> HIDE DEF r
<1>4. l \in Labels
  BY DEF Deciding, Recording, Labels
<1>5. /\ pc'[c] = l /\ pc' = [pc EXCEPT ![c] = pc'[c]]
      /\ loc'[c] = r /\ loc' = [loc EXCEPT ![c] = loc'[c]]
  BY <1>2, <1>4, Left
<1>6. Sound(c)
  BY DEF IInv
<1>7. Sound(c)'
  BY <1>3, <1>5, <1>6 DEF Sound, Deciding, Recording
<1> QED
  BY <1>3, <1>4, <1>5, <1>7, OneChecker

LEMMA CanKillStuck ==
  ASSUME IInv, NEW c \in Checkers, CanKillRead(c) \/ CanKill(c) PROVE IInv'
<1>1. CASE CanKillRead(c)
  BY <1>1, ReadStuck DEF CanKillRead, Goto, Deciding
<1>2. CASE CanKill(c)
  <2>1. /\ UNCHANGED <<edges, old>> /\ pc[c] = "filter"
        /\ \/ Goto(c, "cancel") /\ loc' = [loc EXCEPT ![c].read = <<>>]
           \/ Return(c)
    BY <1>2 DEF CanKill
  <2>2. CASE Return(c)
    BY <2>1, <2>2, ReturnStuck
  <2>3. CASE Goto(c, "cancel") /\ loc' = [loc EXCEPT ![c].read = <<>>]
    BY <2>1, <2>3, ReadStuck DEF Goto, Deciding
  <2> QED
    BY <2>1, <2>2, <2>3
<1> QED
  BY <1>1, <1>2

LEMMA CancelStuck ==
  ASSUME IInv, NEW c \in Checkers, Cancel(c) PROVE IInv'
<1> DEFINE x == loc[c]
<1>1. PICK v \in x.victims : loc' = [loc EXCEPT ![c].victim = v]
  BY DEF Cancel
<1> DEFINE r == Rec(x.nodes, x.victims, v, x.read, x.given, x.moved)
<1>2. pc[c] = "cancel" /\ pc' = [pc EXCEPT ![c] = "record"] /\ UNCHANGED <<edges, old>>
  BY DEF Cancel, Goto
<1>3. loc' = [loc EXCEPT ![c] = [x EXCEPT !.victim = v]]
  BY <1>1
<1>4. loc' = [loc EXCEPT ![c] = r]
  BY <1>3, Spelled DEF IInv, Shape
<1>5. r.victims = x.victims /\ r.victim = v /\ r.given = x.given /\ Whole(r)
  BY RecFields
<1>6. ~x.given => x.victims = {v}
  BY <1>2 DEF IInv, Sound, Deciding
<1> HIDE DEF r
<1>7. /\ pc'[c] = "record" /\ pc' = [pc EXCEPT ![c] = pc'[c]]
      /\ loc'[c] = r /\ loc' = [loc EXCEPT ![c] = loc'[c]]
  BY <1>2, <1>4, Left DEF Labels
<1>8. Sound(c)' /\ pc'[c] \in Labels
  BY <1>5, <1>6, <1>7 DEF Sound, Deciding, Labels
<1> QED
  BY <1>2, <1>5, <1>7, <1>8, OneChecker

\* CancelFails is the end of the list, or the list was not CheckOnce's.
LEMMA CancelFailsLeaves ==
  ASSUME IInv, NEW c \in Checkers, CancelFails(c)
  PROVE  \/ Return(c)
         \/ \E z : /\ pc' = [pc EXCEPT ![c] = "cancel"] /\ loc' = [loc EXCEPT ![c] = z]
                   /\ Whole(z) /\ z.given
<1> DEFINE x == loc[c]
<1>1. PICK v \in x.victims : Handled(c, v)
  BY DEF CancelFails
<1>2. pc[c] = "cancel"
  BY DEF CancelFails
<1>3. CASE x.victims = {v}
  BY <1>1, <1>3 DEF Handled
<1>4. CASE x.victims # {v}
  <2> DEFINE r == Rec(x.nodes, x.victims \ {v}, 0, x.read, x.given, x.moved)
  <2>1. /\ pc' = [pc EXCEPT ![c] = "cancel"]
        /\ loc' = [loc EXCEPT ![c].victims = x.victims \ {v}, ![c].victim = 0]
    BY <1>1, <1>4 DEF Handled, Goto
  <2>2. loc' = [loc EXCEPT ![c] = [x EXCEPT !.victims = x.victims \ {v}, !.victim = 0]]
    BY <2>1
  <2>3. Whole(x)
    BY DEF IInv, Shape
  <2>4. [x EXCEPT !.victims = x.victims \ {v}, !.victim = 0] = r
    BY <2>3, Spelled
  <2>5. r.given = x.given /\ Whole(r)
    BY RecFields
  <2>6. x.given
    BY <1>2, <1>4 DEF IInv, Sound, Deciding
  <2> HIDE DEF r
  <2> QED
    BY <2>1, <2>2, <2>4, <2>5, <2>6
<1> QED
  BY <1>3, <1>4

LEMMA CancelFailsStuck ==
  ASSUME IInv, NEW c \in Checkers, CancelFails(c) PROVE IInv'
<1>1. UNCHANGED <<edges, old>>
  BY DEF CancelFails
<1>2. CASE Return(c)
  BY <1>1, <1>2, ReturnStuck
<1>3. ASSUME NEW z, pc' = [pc EXCEPT ![c] = "cancel"], loc' = [loc EXCEPT ![c] = z],
             Whole(z), z.given
      PROVE  IInv'
  <2>1. /\ pc'[c] = "cancel" /\ pc' = [pc EXCEPT ![c] = pc'[c]]
        /\ loc'[c] = z /\ loc' = [loc EXCEPT ![c] = loc'[c]]
    BY <1>3, Left DEF Labels
  <2>2. Sound(c)' /\ pc'[c] \in Labels
    BY <1>3, <2>1 DEF Sound, Recording, Labels
  <2> QED
    BY <1>1, <1>3, <2>1, <2>2, OneChecker
<1> QED
  BY <1>2, <1>3, CancelFailsLeaves

LEMMA RecordStuck ==
  ASSUME IInv, NEW c \in Checkers, RecordRead(c) \/ RecordKill(c) PROVE IInv'
<1>1. CASE RecordRead(c)
  BY <1>1, ReadStuck DEF RecordRead, Goto, Recording
<1>2. CASE RecordKill(c)
  BY <1>2, ReadStuck DEF RecordKill, Goto, Recording
<1> QED
  BY <1>1, <1>2

\* A checker that hears of edges E that went keeps what it holds.
LEMMA MovedKeeps ==
  ASSUME IInv, NEW d \in Checkers, NEW E
  PROVE  LET y == Moved(E)[d] IN
           /\ Whole(y) /\ y.victims = loc[d].victims /\ y.victim = loc[d].victim
           /\ y.given = loc[d].given
           /\ y.moved = TRUE \/ y = loc[d]
           /\ pc[d] # "idle" /\ E \cap old # {} => y.moved = TRUE
           /\ pc[d] = "idle" \/ E \cap old = {} => y = loc[d]
<1> DEFINE x == loc[d]
           y == Moved(E)[d]
           r == Rec(x.nodes, x.victims, x.victim, x.read, x.given, TRUE)
<1>1. Whole(x)
  BY DEF IInv, Shape
<1>2. y = IF pc[d] # "idle" /\ E \cap old # {} THEN [x EXCEPT !.moved = TRUE] ELSE x
  BY DEF Moved
<1>3. [x EXCEPT !.moved = TRUE] = r
  BY <1>1, Spelled
<1>4. /\ r.victims = x.victims /\ r.victim = x.victim /\ r.given = x.given
      /\ r.moved = TRUE /\ Whole(r)
  BY DEF Rec, Whole
<1> HIDE DEF x, y, r
<1>5. /\ Whole(y) /\ y.victims = x.victims /\ y.victim = x.victim
      /\ y.given = x.given
      /\ y.moved = TRUE \/ y = x
      /\ pc[d] # "idle" /\ E \cap old # {} => y.moved = TRUE
      /\ pc[d] = "idle" \/ E \cap old = {} => y = x
  BY <1>1, <1>2, <1>3, <1>4
<1> QED
  BY <1>5 DEF x, y

\* It knows that they went if that matters.
LEMMA MovedSound ==
  ASSUME IInv, Unlocked, NEW d \in Checkers, NEW E, old' = old \ E,
         pc'[d] = pc[d], loc'[d] = Moved(E)[d]
  PROVE  Whole(loc'[d]) /\ Sound(d)'
<1>1. Sound(d) /\ pc[d] # "weigh"
  BY DEF IInv, Unlocked
<1>2. /\ Whole(loc'[d]) /\ loc'[d].victims = loc[d].victims
      /\ loc'[d].victim = loc[d].victim /\ loc'[d].given = loc[d].given
      /\ pc[d] # "idle" /\ E \cap old # {} => loc'[d].moved = TRUE
      /\ pc[d] = "idle" \/ E \cap old = {} => loc'[d] = loc[d]
  BY MovedKeeps
<1>3. CASE pc[d] # "idle" /\ E \cap old # {}
  BY <1>1, <1>2, <1>3 DEF Sound
<1>4. CASE pc[d] = "idle"
  BY <1>2, <1>4 DEF Sound, Deciding, Recording
<1>5. CASE E \cap old = {}
  <2>1. old' = old /\ loc'[d] = loc[d]
    BY <1>2, <1>5
  <2> QED
    BY <1>1, <1>2, <2>1 DEF Sound
<1> QED
  BY <1>2, <1>3, <1>4, <1>5

LEMMA EnvironmentStuck == IInv /\ Environment => IInv'
<1> SUFFICES ASSUME IInv, Environment PROVE IInv'
  OBVIOUS
<1>1. ASSUME NEW from \in Tasks, NEW to \in Tasks, RecordEdge(from, to) \/ RemoveEdge(from, to)
      PROVE  IInv'
  <2> DEFINE E == {<<from, to>>}
  <2>1. /\ Unlocked /\ old' = old \ E /\ loc' = Moved(E) /\ pc' = pc
        /\ edges' \in {edges \cup E, edges \ E}
    BY <1>1 DEF RecordEdge, RemoveEdge
  <2>2. edges' \subseteq Tasks \X Tasks /\ old' \subseteq edges'
    BY <2>1 DEF IInv, Shape
  <2>3. \A d \in Checkers : Whole(loc'[d]) /\ Sound(d)'
    BY <2>1, MovedSound
  <2>4. loc' = [d \in Checkers |-> loc'[d]]
    BY <2>1 DEF Moved
  <2> QED
    BY <2>1, <2>2, <2>3, <2>4 DEF IInv, Shape
<1>2. CASE Tick
  <2>1. /\ old' = edges /\ edges' = edges /\ pc' = pc
        /\ loc' = [c \in Checkers |-> [loc[c] EXCEPT !.read = Older(loc[c].read)]]
    BY <1>2 DEF Tick
  <2>2. Deadlocked(old) \subseteq Deadlocked(old')
    BY <2>1, DeadlockedGrows DEF IInv, Shape
  <2>3. ASSUME NEW d \in Checkers PROVE Whole(loc'[d]) /\ Sound(d)'
    <3> DEFINE x == loc[d]
               r == Rec(x.nodes, x.victims, x.victim, Older(x.read), x.given, x.moved)
    <3>1. Whole(x) /\ Sound(d)
      BY DEF IInv, Shape
    <3>2. [x EXCEPT !.read = Older(x.read)] = r
      BY <3>1, Spelled
    <3>3. loc'[d] = r
      BY <2>1, <3>2
    <3>4. /\ r.nodes = x.nodes /\ r.victims = x.victims /\ r.victim = x.victim
          /\ r.given = x.given /\ r.moved = x.moved /\ Whole(r)
      BY RecFields
    <3> HIDE DEF r
    <3>5. pc'[d] = pc[d]
      BY <2>1
    <3> QED
      BY <2>2, <3>1, <3>3, <3>4, <3>5 DEF Sound
  <2>4. loc' = [d \in Checkers |-> loc'[d]]
    BY <2>1
  <2> QED
    BY <2>1, <2>3, <2>4 DEF IInv, Shape
<1> QED
  BY <1>1, <1>2 DEF Environment

\* The edges RemoveNode removes.
About(c) == {e \in edges : loc[c].victim \in {e[1], e[2]}}

\* RemoveNode is the end of the list, or the list was not CheckOnce's.
LEMMA RemoveNodeLeaves ==
  ASSUME IInv, NEW c \in Checkers, RemoveNode(c)
  PROVE  \E l, z :
           /\ pc' = [pc EXCEPT ![c] = l] /\ loc' = [Moved(About(c)) EXCEPT ![c] = z]
           /\ l \in {"idle", "cancel"} /\ Whole(z)
           /\ l = "cancel" => z.given
<1> DEFINE x == loc[c]
           E == About(c)
           y == Moved(E)[c]
<1>1. /\ Unlocked /\ pc[c] = "remove" /\ edges' = edges \ E /\ old' = old \ E
      /\ \/ /\ pc' = [pc EXCEPT ![c] = "idle"]
            /\ loc' = [Moved(E) EXCEPT ![c] = None]
         \/ /\ x.victims # {x.victim}
            /\ pc' = [pc EXCEPT ![c] = "cancel"]
            /\ loc' = [Moved(E) EXCEPT ![c].victims = x.victims \ {x.victim},
                                       ![c].victim = 0]
  BY DEF RemoveNode, Goto, About
<1>2. Moved(E) = [d \in Checkers |-> Moved(E)[d]]
  BY DEF Moved
<1>3. CASE pc' = [pc EXCEPT ![c] = "idle"] /\ loc' = [Moved(E) EXCEPT ![c] = None]
  <2>1. Whole(None)
    BY DEF None, Whole, Rec
  <2> WITNESS "idle", None
  <2> QED
    BY <1>3, <2>1
<1>4. CASE /\ x.victims # {x.victim}
           /\ pc' = [pc EXCEPT ![c] = "cancel"]
           /\ loc' = [Moved(E) EXCEPT ![c].victims = x.victims \ {x.victim},
                                      ![c].victim = 0]
  <2> DEFINE s == x.victims \ {x.victim}
             r == Rec(y.nodes, s, 0, y.read, y.given, y.moved)
  <2>1. x.given
    BY <1>1, <1>4 DEF IInv, Sound, Recording
  <2>2. Whole(y) /\ y.given = x.given
    BY MovedKeeps
  <2>3. loc' = [Moved(E) EXCEPT ![c] = [y EXCEPT !.victims = s, !.victim = 0]]
    BY <1>2, <1>4
  <2> HIDE DEF s, x, y
  <2>4. [y EXCEPT !.victims = s, !.victim = 0] = r
    BY <2>2, Spelled
  <2>5. r.given = y.given /\ Whole(r)
    BY RecFields
  <2>6. loc' = [Moved(E) EXCEPT ![c] = r]
    BY <2>3, <2>4
  <2>7. r.given
    BY <2>1, <2>2, <2>5
  <2> HIDE DEF r
  <2> WITNESS "cancel", r
  <2> QED
    BY <1>4, <2>5, <2>6, <2>7
<1> QED
  BY <1>1, <1>3, <1>4

LEMMA RemoveNodeStuck ==
  ASSUME IInv, NEW c \in Checkers, RemoveNode(c) PROVE IInv'
<1> DEFINE E == About(c)
<1>1. Unlocked /\ edges' = edges \ E /\ old' = old \ E
  BY DEF RemoveNode, About
<1>2. Moved(E) = [d \in Checkers |-> Moved(E)[d]]
  BY DEF Moved
<1>3. PICK l, z :
        /\ pc' = [pc EXCEPT ![c] = l] /\ loc' = [Moved(E) EXCEPT ![c] = z]
        /\ l \in {"idle", "cancel"} /\ Whole(z)
        /\ l = "cancel" => z.given
  BY RemoveNodeLeaves
<1> HIDE DEF E
<1>4. /\ pc'[c] = l /\ loc'[c] = z /\ pc' \in [Checkers -> Labels]
      /\ \A d \in Checkers \ {c} : pc'[d] = pc[d] /\ loc'[d] = Moved(E)[d]
      /\ loc' = [d \in Checkers |-> loc'[d]]
  BY <1>2, <1>3 DEF IInv, Shape, Labels
<1>5. Whole(loc'[c]) /\ Sound(c)'
  BY <1>3, <1>4 DEF Sound, Deciding, Recording
<1>6. \A d \in Checkers \ {c} : Whole(loc'[d]) /\ Sound(d)'
  BY <1>1, <1>4, MovedSound
<1>7. edges' \subseteq Tasks \X Tasks /\ old' \subseteq edges'
  BY <1>1 DEF IInv, Shape
<1> QED
  BY <1>4, <1>5, <1>6, <1>7 DEF IInv, Shape

LEMMA StuckNext == IInv /\ [Next]_vars => IInv'
<1> SUFFICES ASSUME IInv, [Next]_vars PROVE IInv'
  OBVIOUS
<1>1. CASE Environment
  BY <1>1, EnvironmentStuck
<1>2. ASSUME NEW c \in Checkers, CheckOnce(c) \/ HandleBatch(c) \/ Running(c)
      PROVE  IInv'
  BY <1>2, CheckOnceStuck, HandleBatchStuck, WeighStuck, CanKillStuck, CancelStuck,
     CancelFailsStuck, RecordStuck, RemoveNodeStuck DEF Running
<1>3. CASE UNCHANGED vars
  BY <1>3 DEF vars, IInv, Shape, Sound
<1> QED
  BY <1>1, <1>2, <1>3 DEF Next

\* While trust scores are asked for, the deadlock they are asked about stays, for
\* any tasks, checkers and recorded edges (checkOnce holds d.mu).
THEOREM WeighedStuck == Spec => []WeighedStayStuck
<1>1. IInv => WeighedStayStuck
  BY DEF IInv, Sound, WeighedStayStuck
<1> QED
  BY <1>1, StuckInit, StuckNext, PTL DEF Spec

\* A task that checkOnce named is deadlocked when Handle cancels it, unless old
\* edges were removed or recorded again in between.
THEOREM VictimsStuck == Spec => []VictimsStayStuck
<1>1. IInv => VictimsStayStuck
  BY DEF IInv, Sound, VictimsStayStuck, Deciding
<1> QED
  BY <1>1, StuckInit, StuckNext, PTL DEF Spec

-----------------------------------------------------------------------------
(* With one handler, what was cancelled is not cancelled again. *)

\* Loops weigh and drop.
LoopsDrop == \A c \in Loops : pc[c] \in {"idle", "weigh"}

\* Tasks cancelled that no edge recorded since names.
Unnamed == cancelled \ awaited

\* What was cancelled waits for nobody until it is seen waiting, and is waited
\* for by nobody until that is seen, but for the one whose edges the handler h
\* is about to remove; and what h is about to cancel is none of the unnamed.
Gone(h) ==
  /\ \A e \in edges, t \in Unnamed :
       t \in {e[1], e[2]} => pc[h] \in Recording /\ loc[h].victim = t
  /\ \A e \in edges : e[1] \in cancelled => pc[h] \in Recording /\ loc[h].victim = e[1]
  /\ pc[h] \in Deciding /\ ~loc[h].given => loc[h].victims \cap Unnamed = {}

OneInv(h) == IInv /\ LoopsDrop /\ Gone(h)

LEMMA OneInit == ASSUME NEW h \in Checkers PROVE Init => OneInv(h)
<1>1. Init => LoopsDrop /\ Gone(h)
  BY DEF Init, LoopsDrop, Gone, Deciding, Checkers
<1> QED
  BY <1>1, StuckInit DEF OneInv

LEMMA LoopsNext == IInv /\ LoopsDrop /\ [Next]_vars => LoopsDrop'
<1> SUFFICES ASSUME IInv, LoopsDrop, [Next]_vars PROVE LoopsDrop'
  OBVIOUS
<1>1. CASE Environment
  BY <1>1 DEF Environment, RecordEdge, RemoveEdge, Tick, LoopsDrop
<1>2. ASSUME NEW c \in Checkers, CheckOnce(c) \/ HandleBatch(c) \/ Running(c)
      PROVE  LoopsDrop'
  <2>1. pc[c] \in Labels /\ pc \in [Checkers -> Labels]
    BY DEF IInv, Shape
  <2>2. /\ \A d \in Checkers : d # c => pc'[d] = pc[d]
        /\ c \in Loops => pc'[c] \in {"idle", "weigh"}
    <3>1. CASE c \in Loops /\ (CheckOnce(c) \/ Weigh(c))
      BY <2>1, <3>1 DEF CheckOnce, Weigh, Return, Goto
    <3>2. CASE c \in Loops /\ ~(CheckOnce(c) \/ Weigh(c))
      <4>1. pc[c] \in {"idle", "weigh"} /\ c \notin Handlers
        BY <3>2, DeadlockAssumption DEF LoopsDrop
      <4> QED
        BY <1>2, <3>2, <4>1 DEF HandleBatch, Running, CanKillRead, CanKill, Cancel,
                                CancelFails, RecordRead, RecordKill, RemoveNode
    <3>3. CASE c \notin Loops
      BY <1>2, <2>1, <3>3 DEF CheckOnce, HandleBatch, Running, Weigh, CanKillRead,
         CanKill, Cancel, CancelFails, RecordRead, RecordKill, RemoveNode, Handled,
         Return, Goto
    <3> QED
      BY <3>1, <3>2, <3>3
  <2> QED
    BY <2>2 DEF LoopsDrop, Checkers
<1>3. CASE UNCHANGED vars
  BY <1>3 DEF vars, LoopsDrop
<1> QED
  BY <1>1, <1>2, <1>3 DEF Next

\* The fields a change of one leaves alone.
LEMMA Changed ==
  ASSUME NEW r, NEW n, NEW v, NEW q, Whole(r)
  PROVE  /\ [r EXCEPT !.nodes = n].victims = r.victims
         /\ [r EXCEPT !.nodes = n].victim = r.victim
         /\ [r EXCEPT !.nodes = n].given = r.given
         /\ [r EXCEPT !.read = q].victims = r.victims
         /\ [r EXCEPT !.read = q].victim = r.victim
         /\ [r EXCEPT !.read = q].given = r.given
         /\ [r EXCEPT !.victim = v].victim = v
<1>1. PICK a1, a2, a3, a4, a5, a6 : r = Rec(a1, a2, a3, a4, a5, a6)
  BY DEF Whole
<1> QED
  BY <1>1 DEF Rec

LEMMA GoneEnvironment ==
  ASSUME IInv, NEW h \in Checkers, Gone(h), Environment PROVE Gone(h)'
<1>1. ASSUME NEW from \in Tasks, NEW to \in Tasks, RecordEdge(from, to) \/ RemoveEdge(from, to)
      PROVE  Gone(h)'
  <2> DEFINE E == {<<from, to>>}
             y == Moved(E)[h]
  <2>1. pc' = pc /\ loc'[h] = y
    BY <1>1 DEF RecordEdge, RemoveEdge
  <2>2. y.victims = loc[h].victims /\ y.victim = loc[h].victim /\ y.given = loc[h].given
    BY MovedKeeps
  <2> HIDE DEF y
  <2>3. cancelled' \subseteq cancelled /\ Unnamed' \subseteq Unnamed
    BY <1>1 DEF RecordEdge, RemoveEdge, Unnamed
  <2>4. ASSUME NEW e \in edges', NEW t \in Unnamed', t \in {e[1], e[2]} PROVE e \in edges
    <3>1. CASE RecordEdge(from, to)
      <4>1. e \in edges \/ e = <<from, to>>
        BY <3>1 DEF RecordEdge
      <4>2. t # from /\ t # to
        BY <2>4, <3>1 DEF RecordEdge, Unnamed
      <4> QED
        BY <2>4, <4>1, <4>2
    <3>2. CASE RemoveEdge(from, to)
      BY <3>2 DEF RemoveEdge
    <3> QED
      BY <1>1, <3>1, <3>2
  <2>5. ASSUME NEW e \in edges', e[1] \in cancelled' PROVE e \in edges
    BY <1>1, <2>5 DEF RecordEdge, RemoveEdge
  <2> QED
    BY <2>1, <2>2, <2>3, <2>4, <2>5 DEF Gone
<1>2. CASE Tick
  <2> DEFINE y == [loc[h] EXCEPT !.read = Older(loc[h].read)]
  <2>1. /\ pc' = pc /\ edges' = edges /\ loc'[h] = y
        /\ cancelled' = cancelled /\ Unnamed' = Unnamed
    BY <1>2 DEF Tick, Unnamed
  <2>2. Whole(loc[h])
    BY DEF IInv, Shape
  <2>3. y.victims = loc[h].victims /\ y.victim = loc[h].victim /\ y.given = loc[h].given
    BY <2>2, Changed
  <2> HIDE DEF y
  <2> QED
    BY <2>1, <2>3 DEF Gone
<1> QED
  BY <1>1, <1>2 DEF Environment

\* The loops of the detector cancel nothing and leave the edges alone.
LEMMA GoneLoop ==
  ASSUME IInv, LoopsDrop, NEW h \in Checkers, Gone(h), NEW c \in Loops, c # h,
         CheckOnce(c) \/ HandleBatch(c) \/ Running(c)
  PROVE  Gone(h)'
<1>1. CheckOnce(c) \/ Weigh(c)
  <2>1. pc[c] \in {"idle", "weigh"} /\ c \notin Handlers
    BY DeadlockAssumption DEF LoopsDrop
  <2> QED
    BY <2>1 DEF HandleBatch, Running, CanKillRead, CanKill, Cancel, CancelFails,
                RecordRead, RecordKill, RemoveNode
<1>2. /\ edges' = edges /\ cancelled' = cancelled /\ Unnamed' = Unnamed
      /\ pc'[h] = pc[h] /\ loc'[h] = loc[h]
  <2>1. pc \in [Checkers -> Labels] /\ loc = [d \in Checkers |-> loc[d]] /\ c \in Checkers
    BY DEF IInv, Shape, Checkers
  <2>2. CASE CheckOnce(c)
    BY <2>1, <2>2 DEF CheckOnce, Goto, Unnamed
  <2>3. CASE Weigh(c)
    BY <2>1, <2>3 DEF Weigh, Return, Goto, Unnamed
  <2> QED
    BY <1>1, <2>2, <2>3
<1> QED
  BY <1>2 DEF Gone

\* The handler comes out of a step with nothing to cancel.
LEMMA GoneReturn ==
  ASSUME IInv, NEW h \in Checkers, Gone(h), pc[h] \notin Recording, Return(h),
         UNCHANGED <<edges, cancelled, awaited>>
  PROVE  Gone(h)'
<1>1. pc'[h] = "idle"
  BY DEF IInv, Shape, Return, Goto
<1> QED
  BY <1>1 DEF Gone, Deciding, Recording, Unnamed

LEMMA GoneWeigh ==
  ASSUME IInv, NEW h \in Checkers, Gone(h), Weigh(h) PROVE Gone(h)'
<1> DEFINE x == loc[h]
<1>1. PICK f \in [x.nodes -> Scores] :
        \/ Return(h)
        \/ /\ pc' = [pc EXCEPT ![h] = "quota"]
           /\ loc' = [loc EXCEPT ![h].nodes = {}, ![h].victims = {Weakest(x.nodes, f)}]
  BY DEF Weigh, Goto
<1>2. /\ pc[h] = "weigh" /\ UNCHANGED <<edges, cancelled, awaited>>
      /\ x.nodes # {} /\ x.nodes \subseteq Deadlocked(old) /\ old \subseteq edges
  BY DEF IInv, Shape, Weigh, Sound
<1>3. /\ \A e \in edges, t \in Unnamed : t \notin {e[1], e[2]}
      /\ \A e \in edges : e[1] \notin cancelled
  BY <1>2 DEF Gone, Recording
<1>u. Unnamed' = Unnamed
  BY <1>2 DEF Unnamed
<1>4. CASE Return(h)
  BY <1>2, <1>4, GoneReturn DEF Recording
<1>5. CASE /\ pc' = [pc EXCEPT ![h] = "quota"]
           /\ loc' = [loc EXCEPT ![h].nodes = {}, ![h].victims = {Weakest(x.nodes, f)}]
  <2> DEFINE v == Weakest(x.nodes, f)
             r == Rec({}, {v}, x.victim, x.read, x.given, x.moved)
  <2>1. x.nodes \in SUBSET Tasks
    BY <1>2, DeadlockedTasks
  <2>2. v \in Deadlocked(old)
    BY <1>2, <2>1, WeakestIsWeighed
  <2>3. v \notin Unnamed
    <3>1. PICK m \in Tasks : <<m, v>> \in edges
      BY <1>2, <2>2, DeadlockedTasks
    <3> QED
      BY <1>3, <3>1
  <2>4. Whole(x) /\ loc = [d \in Checkers |-> loc[d]]
    BY DEF IInv, Shape
  <2>5. loc'[h] = [x EXCEPT !.nodes = {}, !.victims = {v}]
    BY <1>5, <2>4
  <2> HIDE DEF v
  <2>6. [x EXCEPT !.nodes = {}, !.victims = {v}] = r
    BY <2>4, Spelled
  <2>7. r.victims = {v}
    BY RecFields
  <2> HIDE DEF r
  <2> QED
    BY <1>2, <1>3, <1>u, <2>3, <2>5, <2>6, <2>7 DEF Gone
<1> QED
  BY <1>1, <1>4, <1>5

LEMMA GoneHandleBatch ==
  ASSUME IInv, NEW h \in Checkers, Gone(h), HandleBatch(h) PROVE Gone(h)'
<1> DEFINE x == loc[h]
<1>1. PICK v \in Batches : loc' = [loc EXCEPT ![h].victims = v, ![h].given = TRUE]
  BY DEF HandleBatch
<1> DEFINE r == Rec(x.nodes, v, x.victim, x.read, TRUE, x.moved)
<1>2. pc[h] = "idle" /\ UNCHANGED <<edges, cancelled, awaited>>
  BY DEF HandleBatch
<1>3. Whole(x) /\ loc = [d \in Checkers |-> loc[d]]
  BY DEF IInv, Shape
<1>4. loc'[h] = [x EXCEPT !.victims = v, !.given = TRUE]
  BY <1>1, <1>3
<1>5. [x EXCEPT !.victims = v, !.given = TRUE] = r
  BY <1>3, Spelled
<1>6. r.given = TRUE
  BY DEF Rec
<1> HIDE DEF r
<1> QED
  BY <1>2, <1>4, <1>5, <1>6 DEF Gone, Recording, Unnamed

\* Reading and writing killTimestamps.
LEMMA GoneRead ==
  ASSUME IInv, NEW h \in Checkers, Gone(h), NEW l, NEW q,
         UNCHANGED <<edges, cancelled, awaited>>,
         pc' = [pc EXCEPT ![h] = l], loc' = [loc EXCEPT ![h].read = q],
         \/ pc[h] \in Deciding /\ l \in Deciding
         \/ pc[h] \in Recording /\ l \in Recording
  PROVE  Gone(h)'
<1> DEFINE y == [loc[h] EXCEPT !.read = q]
<1>1. Whole(loc[h]) /\ loc = [d \in Checkers |-> loc[d]] /\ pc \in [Checkers -> Labels]
  BY DEF IInv, Shape
<1>2. pc'[h] = l /\ loc'[h] = y
  BY <1>1
<1>3. y.victims = loc[h].victims /\ y.victim = loc[h].victim /\ y.given = loc[h].given
  BY <1>1, Changed
<1> HIDE DEF y
<1> QED
  BY <1>2, <1>3 DEF Gone, Deciding, Recording, Unnamed

\* A victim is cancelled, its edges are still there, and its number is kept.
LEMMA GoneCancel ==
  ASSUME IInv, NEW h \in Checkers, Gone(h), Cancel(h) PROVE Gone(h)'
<1>1. PICK v : /\ loc' = [loc EXCEPT ![h].victim = v]
               /\ cancelled' = cancelled \cup {v} /\ awaited' = awaited \ {v}
  BY DEF Cancel
<1>2. pc[h] = "cancel" /\ pc' = [pc EXCEPT ![h] = "record"] /\ edges' = edges
  BY DEF Cancel, Goto
<1> DEFINE y == [loc[h] EXCEPT !.victim = v]
<1>3. Whole(loc[h]) /\ loc = [d \in Checkers |-> loc[d]] /\ pc \in [Checkers -> Labels]
  BY DEF IInv, Shape
<1>4. pc'[h] = "record" /\ loc'[h] = y
  BY <1>1, <1>2, <1>3
<1>5. y.victim = v
  BY <1>3, Changed
<1>6. /\ \A e \in edges, t \in Unnamed : t \notin {e[1], e[2]}
      /\ \A e \in edges : e[1] \notin cancelled
  BY <1>2 DEF Gone, Recording
<1>7. Unnamed' = Unnamed \cup {v}
  BY <1>1 DEF Unnamed
<1> HIDE DEF y
<1> QED
  BY <1>1, <1>2, <1>4, <1>5, <1>6, <1>7 DEF Gone, Deciding, Recording

\* Edges of the one just cancelled go; the next of a list follows.
LEMMA GoneNextVictim ==
  ASSUME IInv, NEW h \in Checkers, Gone(h), CancelFails(h) \/ RemoveNode(h)
  PROVE  Gone(h)'
<1> DEFINE x == loc[h]
<1>1. /\ cancelled' = cancelled /\ Unnamed' = Unnamed
      /\ \A e \in edges', t \in Unnamed : t \notin {e[1], e[2]}
      /\ \A e \in edges' : e[1] \notin cancelled
  <2>1. CASE CancelFails(h)
    BY <2>1 DEF CancelFails, Gone, Recording, Unnamed
  <2>2. CASE RemoveNode(h)
    <3>1. /\ edges' = edges \ {e \in edges : x.victim \in {e[1], e[2]}}
          /\ cancelled' = cancelled /\ Unnamed' = Unnamed
      BY <2>2 DEF RemoveNode, Unnamed
    <3>2. /\ \A e \in edges, t \in Unnamed : t \in {e[1], e[2]} => x.victim = t
          /\ \A e \in edges : e[1] \in cancelled => x.victim = e[1]
      BY DEF Gone
    <3> QED
      BY <3>1, <3>2
  <2> QED
    BY <2>1, <2>2
<1>2. pc'[h] \in {"idle", "cancel"} /\ (pc'[h] = "cancel" => loc'[h].given)
  <2>1. pc \in [Checkers -> Labels] /\ loc = [d \in Checkers |-> loc[d]]
    BY DEF IInv, Shape
  <2>2. CASE CancelFails(h)
    <3>1. CASE Return(h)
      BY <2>1, <3>1 DEF Return, Goto
    <3>2. ASSUME NEW z, pc' = [pc EXCEPT ![h] = "cancel"], loc' = [loc EXCEPT ![h] = z],
                 z.given
          PROVE  pc'[h] = "cancel" /\ loc'[h].given
      BY <2>1, <3>2
    <3> QED
      BY <2>2, <3>1, <3>2, CancelFailsLeaves
  <2>3. CASE RemoveNode(h)
    <3> DEFINE E == About(h)
    <3>1. PICK l, z :
            /\ pc' = [pc EXCEPT ![h] = l] /\ loc' = [Moved(E) EXCEPT ![h] = z]
            /\ l \in {"idle", "cancel"}
            /\ l = "cancel" => z.given
      BY <2>3, RemoveNodeLeaves
    <3>2. Moved(E) = [d \in Checkers |-> Moved(E)[d]]
      BY DEF Moved
    <3> HIDE DEF E
    <3>3. pc'[h] = l /\ loc'[h] = z
      BY <2>1, <3>1, <3>2
    <3> QED
      BY <3>1, <3>3
  <2> QED
    BY <2>2, <2>3
<1> QED
  BY <1>1, <1>2 DEF Gone, Deciding

LEMMA OneNext ==
  ASSUME NEW h \in Checkers, Handlers = {h}, OneInv(h), [Next]_vars PROVE OneInv(h)'
<1>1. IInv /\ LoopsDrop /\ Gone(h)
  BY DEF OneInv
<1>2. IInv' /\ LoopsDrop'
  BY <1>1, StuckNext, LoopsNext
<1> SUFFICES Gone(h)'
  BY <1>2 DEF OneInv
<1>3. CASE Environment
  BY <1>1, <1>3, GoneEnvironment
<1>4. ASSUME NEW c \in Loops, CheckOnce(c) \/ HandleBatch(c) \/ Running(c)
      PROVE  Gone(h)'
  BY <1>1, <1>4, GoneLoop, DeadlockAssumption
<1>5. CASE CheckOnce(h)
  <2>1. pc[h] = "idle" /\ pc'[h] = "weigh" /\ UNCHANGED <<edges, cancelled, awaited>>
    BY <1>1, <1>5 DEF CheckOnce, Goto, IInv, Shape
  <2> QED
    BY <1>1, <2>1 DEF Gone, Deciding, Recording, Unnamed
<1>6. CASE CanKillRead(h)
  BY <1>1, <1>6, GoneRead DEF CanKillRead, Goto, Deciding
<1>7. CASE CanKill(h)
  <2>1. /\ UNCHANGED <<edges, cancelled, awaited>> /\ pc[h] = "filter"
        /\ \/ Goto(h, "cancel") /\ loc' = [loc EXCEPT ![h].read = <<>>]
           \/ Return(h)
    BY <1>7 DEF CanKill
  <2>2. CASE Return(h)
    BY <1>1, <2>1, <2>2, GoneReturn DEF Recording
  <2>3. CASE Goto(h, "cancel") /\ loc' = [loc EXCEPT ![h].read = <<>>]
    BY <1>1, <2>1, <2>3, GoneRead DEF Goto, Deciding
  <2> QED
    BY <2>1, <2>2, <2>3
<1>8. CASE RecordRead(h)
  BY <1>1, <1>8, GoneRead DEF RecordRead, Goto, Recording
<1>9. CASE RecordKill(h)
  BY <1>1, <1>9, GoneRead DEF RecordKill, Goto, Recording
<1>10. CASE Weigh(h) \/ HandleBatch(h) \/ Cancel(h) \/ CancelFails(h) \/ RemoveNode(h)
  BY <1>1, <1>10, GoneWeigh, GoneHandleBatch, GoneCancel, GoneNextVictim
<1>11. CASE UNCHANGED vars
  BY <1>1, <1>11 DEF vars, Gone, Unnamed
<1>12. Checkers = Loops \cup {h}
  BY DEF Checkers
<1> QED
  BY <1>3, <1>4, <1>5, <1>6, <1>7, <1>8, <1>9, <1>10, <1>11, <1>12
     DEF Next, Running

\* What is cancelled of a list of CheckOnce was not cancelled before, or is a
\* bystander waited for since.
LEMMA OneCancels ==
  ASSUME NEW h \in Checkers, Handlers = {h}, OneInv(h), [Next]_vars,
         NEW c \in Checkers, pc[c] = "cancel", pc'[c] = "record", ~loc[c].given
  PROVE  LET v == loc'[c].victim IN
         v \in cancelled => v \in awaited /\ \A t \in Tasks : <<v, t>> \notin edges
<1>1. c = h
  BY DEF OneInv, LoopsDrop, Checkers
<1>2. /\ loc[h].victims \cap Unnamed = {} /\ \A e \in edges : e[1] \notin cancelled
      /\ pc \in [Checkers -> Labels] /\ loc = [d \in Checkers |-> loc[d]] /\ Whole(loc[h])
  BY <1>1 DEF OneInv, Gone, Deciding, Recording, IInv, Shape
<1>3. Cancel(h)
  <2>1. pc' # pc
    BY <1>1
  <2>2. ~Environment
    BY <2>1 DEF Environment, RecordEdge, RemoveEdge, Tick
  <2>3. PICK d \in Checkers : CheckOnce(d) \/ HandleBatch(d) \/ Running(d)
    BY <2>1, <2>2 DEF Next, vars
  <2>4. d = h
    BY <1>1, <1>2, <2>3 DEF CheckOnce, HandleBatch, Running, Weigh, CanKillRead,
       CanKill, Cancel, CancelFails, RecordRead, RecordKill, RemoveNode, Handled,
       Return, Goto
  <2> QED
    BY <1>1, <1>2, <2>3, <2>4 DEF CheckOnce, HandleBatch, Running, Weigh, CanKillRead,
       CanKill, CancelFails, RecordRead, RecordKill, RemoveNode, Handled, Return, Goto
<1>4. PICK v \in loc[h].victims : loc' = [loc EXCEPT ![h].victim = v]
  BY <1>3 DEF Cancel
<1>5. loc'[h] = [loc[h] EXCEPT !.victim = v]
  BY <1>2, <1>4
<1>6. loc'[h].victim = v
  BY <1>2, <1>5, Changed
<1> QED
  BY <1>1, <1>2, <1>4, <1>6 DEF Unnamed

\* A single handler, beside any number of detector loops, cancels no task that
\* CheckOnce names twice unless it was seen waiting in between, or waits for
\* nobody and was seen waited for: RemoveNode forgets what Handle cancelled, and
\* a new edge must be recorded before it is named again.
THEOREM OneHandlerCancelsOnce ==
  ASSUME NEW h, Handlers = {h} PROVE Spec => CancelledOnce
<1>1. h \in Checkers
  BY DEF Checkers
<1>2. Init => OneInv(h)
  BY <1>1, OneInit
<1>3. OneInv(h) /\ [Next]_vars => OneInv(h)'
  BY <1>1, OneNext
<1>4. OneInv(h) /\ [Next]_vars
        => [\A c \in Checkers : pc[c] = "cancel" /\ pc'[c] = "record" /\ ~loc[c].given
              => LET v == loc'[c].victim IN
                 v \in cancelled => v \in awaited /\ \A t \in Tasks : <<v, t>> \notin edges]_vars
  BY <1>1, OneCancels
<1> QED
  BY <1>2, <1>3, <1>4, PTL DEF Spec, CancelledOnce

-----------------------------------------------------------------------------
(* Counting ages: how many of a list of kills are below an age, and what    *)
(* canKill's loop leaves of them.                                           *)

\* How many ages of s are below t.
Count(s, t) == Cardinality({i \in DOMAIN s : s[i] < t})

Ages == 0..Hour

LEMMA AgesAssumption == Hour \in Nat \ {0} /\ Ages \subseteq Nat
  BY DeadlockAssumption DEF Ages

\* The first i ages of s that are below t.
Up(s, i, t) == {j \in 1..i : s[j] < t}

LEMMA UpFinite ==
  ASSUME NEW s, NEW i \in Nat, NEW t
  PROVE  IsFiniteSet(Up(s, i, t)) /\ Cardinality(Up(s, i, t)) \in 0..i
<1>1. IsFiniteSet(1..i) /\ Cardinality(1..i) = i
  BY FS_Interval
<1>2. Up(s, i, t) \subseteq 1..i
  BY DEF Up
<1> QED
  BY <1>1, <1>2, FS_Subset, FS_CardinalityType

LEMMA UpNext ==
  ASSUME NEW s \in Seq(Ages), NEW i \in 1..Len(s), NEW t \in Ages
  PROVE  Cardinality(Up(s, i, t)) = Cardinality(Up(s, i - 1, t)) + (IF s[i] < t THEN 1 ELSE 0)
<1>1. s[i] \in Ages /\ i \in Nat /\ i - 1 \in Nat /\ i - 1 + 1 = i /\ i \notin 1..(i - 1)
  OBVIOUS
<1>2. CASE s[i] < t
  <2>1. Up(s, i, t) = Up(s, i - 1, t) \cup {i} /\ i \notin Up(s, i - 1, t)
    BY <1>1, <1>2 DEF Up
  <2> QED
    BY <1>1, <1>2, <2>1, UpFinite, FS_AddElement
<1>3. CASE ~(s[i] < t)
  <2>1. Up(s, i, t) = Up(s, i - 1, t)
    BY <1>1, <1>3 DEF Up
  <2> QED
    BY <1>1, <1>3, <2>1, UpFinite
<1> QED
  BY <1>2, <1>3

LEMMA CountUp ==
  ASSUME NEW s \in Seq(Ages), NEW t PROVE Count(s, t) = Cardinality(Up(s, Len(s), t))
<1>1. {i \in DOMAIN s : s[i] < t} = Up(s, Len(s), t)
  BY DEF Up
<1> QED
  BY <1>1 DEF Count

LEMMA CountType ==
  ASSUME NEW s \in Seq(Ages), NEW t PROVE Count(s, t) \in 0..Len(s)
  BY CountUp, UpFinite

LEMMA CountZero ==
  ASSUME NEW s \in Seq(Ages) PROVE Count(s, 0) = 0
<1>1. {i \in DOMAIN s : s[i] < 0} = {}
  <2>1. \A i \in DOMAIN s : s[i] \in Ages
    OBVIOUS
  <2>2. \A a \in Ages : ~(a < 0)
    BY AgesAssumption DEF Ages
  <2> QED
    BY <2>1, <2>2
<1> QED
  BY <1>1, FS_EmptySet DEF Count

\* A new record has age 0.
LEMMA CountAppend ==
  ASSUME NEW s \in Seq(Ages), NEW t \in Ages, NEW a \in Ages
  PROVE  /\ Append(s, a) \in Seq(Ages)
         /\ Count(Append(s, a), t) = Count(s, t) + (IF a < t THEN 1 ELSE 0)
<1> DEFINE z == Append(s, a)
<1>1. /\ z \in Seq(Ages) /\ Len(z) = Len(s) + 1 /\ z[Len(z)] = a
      /\ Len(z) - 1 = Len(s) /\ Len(z) \in 1..Len(z)
      /\ \A i \in 1..Len(s) : z[i] = s[i]
  OBVIOUS
<1>2. Up(z, Len(s), t) = Up(s, Len(s), t)
  BY <1>1 DEF Up
<1> HIDE DEF z
<1>3. Cardinality(Up(z, Len(z), t)) = Cardinality(Up(z, Len(z) - 1, t)) + (IF a < t THEN 1 ELSE 0)
  BY <1>1, UpNext
<1>4. Count(z, t) = Count(s, t) + (IF a < t THEN 1 ELSE 0)
  BY <1>1, <1>2, <1>3, CountUp
<1> QED
  BY <1>1, <1>4 DEF z

\* An hour later: below t is what was below t - 1.
LEMMA OlderType ==
  ASSUME NEW s \in Seq(Ages)
  PROVE  /\ Older(s) \in Seq(Ages) /\ Len(Older(s)) = Len(s)
         /\ \A i \in 1..Len(s) : Older(s)[i] = IF s[i] < Hour THEN s[i] + 1 ELSE Hour
<1>1. DOMAIN s = 1..Len(s) /\ \A i \in 1..Len(s) : s[i] \in Ages
  OBVIOUS
<1>2. \A a \in Ages : (IF a < Hour THEN a + 1 ELSE Hour) \in Ages
  BY AgesAssumption DEF Ages
<1> QED
  BY <1>1, <1>2 DEF Older

LEMMA CountOlder ==
  ASSUME NEW s \in Seq(Ages), NEW t \in Ages \ {0}
  PROVE  Count(Older(s), t) = Count(s, t - 1)
<1>1. DOMAIN s = 1..Len(s) /\ DOMAIN Older(s) = 1..Len(s)
  BY OlderType
<1>2. ASSUME NEW i \in 1..Len(s) PROVE Older(s)[i] < t <=> s[i] < t - 1
  <2>1. s[i] \in Ages /\ Older(s)[i] = IF s[i] < Hour THEN s[i] + 1 ELSE Hour
    BY OlderType
  <2> QED
    BY <2>1, AgesAssumption DEF Ages
<1>3. {i \in DOMAIN Older(s) : Older(s)[i] < t} = {i \in DOMAIN s : s[i] < t - 1}
  BY <1>1, <1>2
<1> QED
  BY <1>3 DEF Count

\* One turn of the loop of canKill, and the loop up to record n.
Turn(s, g, i) ==
  IF i = 0 THEN <<>> ELSE IF s[i] < Hour THEN Append(g[i - 1], s[i]) ELSE g[i - 1]

Scan(s, n, g) == g = [i \in 0..n |-> Turn(s, g, i)]

LEMMA ScanRuns ==
  ASSUME NEW s \in Seq(Ages), NEW n \in Nat PROVE \E g : Scan(s, n, g)
<1> DEFINE T == {k \in Nat : ~ \E g : Scan(s, k, g)}
<1> SUFFICES ASSUME T # {} PROVE FALSE
  OBVIOUS
<1>1. PICK k \in T : \A j \in T : k <= j
  <2>1. T \in SUBSET Nat
    OBVIOUS
  <2> HIDE DEF T
  <2> QED
    BY <2>1, LeastNumber
<1>2. CASE k = 0
  <2> DEFINE g == [i \in 0..0 |-> <<>>]
  <2>1. [i \in 0..0 |-> Turn(s, g, i)] = g
    BY DEF Turn
  <2> HIDE DEF g
  <2>2. Scan(s, 0, g)
    BY <2>1 DEF Scan
  <2> QED
    BY <1>1, <1>2, <2>2
<1>3. CASE k # 0
  <2>1. k - 1 \in Nat /\ k \in Nat /\ k - 1 < k
    BY <1>1, <1>3
  <2>2. k - 1 \notin T
    BY <1>1, <2>1
  <2>3. PICK g : Scan(s, k - 1, g)
    BY <2>1, <2>2
  <2> DEFINE h == [i \in 0..k |-> IF i = k THEN Turn(s, g, k) ELSE g[i]]
  <2>4. ASSUME NEW i \in 0..k PROVE Turn(s, h, i) = h[i]
    <3>1. CASE i = 0
      <4>1. h[0] = g[0] /\ 0 \in 0..(k - 1)
        BY <1>3, <2>1
      <4>2. g[0] = Turn(s, g, 0)
        BY <2>3, <4>1 DEF Scan
      <4> QED
        BY <3>1, <4>1, <4>2 DEF Turn
    <3>2. CASE i # 0
      <4>1. i - 1 \in 0..k /\ i - 1 # k
        BY <2>1, <3>2
      <4>2. h[i - 1] = g[i - 1]
        BY <4>1
      <4>3. h[i] = Turn(s, g, i)
        <5>1. CASE i = k
          BY <5>1
        <5>2. CASE i # k
          <6>1. i \in 0..(k - 1)
            BY <2>1, <5>2
          <6>2. g[i] = Turn(s, g, i)
            BY <2>3, <6>1 DEF Scan
          <6> QED
            BY <5>2, <6>2
        <5> QED
          BY <5>1, <5>2
      <4> HIDE DEF h
      <4> QED
        BY <3>2, <4>2, <4>3 DEF Turn
    <3> QED
      BY <3>1, <3>2
  <2>5. h = [i \in 0..k |-> h[i]]
    OBVIOUS
  <2> HIDE DEF h
  <2>6. [i \in 0..k |-> Turn(s, h, i)] = [i \in 0..k |-> h[i]]
    BY <2>4
  <2>7. Scan(s, k, h)
    BY <2>5, <2>6 DEF Scan
  <2> QED
    BY <1>1, <2>7
<1> QED
  BY <1>2, <1>3

\* What canKill keeps: the ages below an hour, all of them.
LEMMA YoungCount ==
  ASSUME NEW s \in Seq(Ages)
  PROVE  /\ Young(s) \in Seq(Ages) /\ \A i \in DOMAIN Young(s) : Young(s)[i] < Hour
         /\ Len(Young(s)) = Count(s, Hour)
         /\ \A t \in Ages : Count(Young(s), t) = Count(s, t)
<1> DEFINE n == Len(s)
           f == CHOOSE g : Scan(s, n, g)
<1>1. n \in Nat /\ Hour \in Ages
  BY AgesAssumption DEF Ages
<1>2. Young(s) = f[n]
  BY DEF Young, Scan, Turn
<1>3. Scan(s, n, f)
  BY <1>1, ScanRuns
<1> HIDE DEF f
<1> DEFINE Good(i) ==
             /\ f[i] \in Seq(Ages) /\ \A j \in DOMAIN f[i] : f[i][j] < Hour
             /\ Len(f[i]) = Cardinality(Up(s, i, Hour))
             /\ \A t \in Ages : Count(f[i], t) = Cardinality(Up(s, i, t))
           T == {i \in 0..n : ~Good(i)}
<1>4. Good(0)
  <2>1. f[0] = <<>>
    BY <1>1, <1>3 DEF Scan, Turn
  <2>2. \A t : Up(s, 0, t) = {} /\ Cardinality({}) = 0
    BY FS_EmptySet DEF Up
  <2>3. \A t : Count(<<>>, t) = 0
    BY FS_EmptySet DEF Count
  <2>4. <<>> \in Seq(Ages) /\ Len(<<>>) = 0 /\ DOMAIN <<>> = {}
    OBVIOUS
  <2> QED
    BY <2>1, <2>2, <2>3, <2>4
<1>5. ASSUME NEW i \in 1..n, Good(i - 1) PROVE Good(i)
  <2>1. /\ f[i] = IF s[i] < Hour THEN Append(f[i - 1], s[i]) ELSE f[i - 1]
        /\ s[i] \in Ages
    <3>1. i \in 0..n /\ i # 0 /\ s[i] \in Ages
      BY <1>1
    <3>2. f[i] = Turn(s, f, i)
      BY <1>3, <3>1 DEF Scan
    <3> QED
      BY <3>1, <3>2 DEF Turn
  <2>2. \A t \in Ages : Cardinality(Up(s, i, t))
                          = Cardinality(Up(s, i - 1, t)) + (IF s[i] < t THEN 1 ELSE 0)
    BY UpNext
  <2>3. \A t \in Ages : Cardinality(Up(s, i - 1, t)) \in Nat
    BY UpFinite
  <2>4. CASE s[i] < Hour
    <3> DEFINE p == f[i - 1]
    <3>1. /\ p \in Seq(Ages) /\ f[i] = Append(p, s[i])
          /\ \A j \in DOMAIN p : p[j] < Hour
          /\ Len(p) = Cardinality(Up(s, i - 1, Hour))
          /\ \A t \in Ages : Count(p, t) = Cardinality(Up(s, i - 1, t))
      BY <1>5, <2>1, <2>4
    <3> HIDE DEF p
    <3>2. ASSUME NEW t \in Ages PROVE Count(f[i], t) = Cardinality(Up(s, i, t))
      <4>1. Count(Append(p, s[i]), t) = Count(p, t) + (IF s[i] < t THEN 1 ELSE 0)
        BY <2>1, <3>1, CountAppend
      <4> QED
        BY <2>2, <3>1, <4>1
    <3>3. /\ Len(f[i]) = Len(p) + 1 /\ f[i] \in Seq(Ages)
          /\ \A j \in DOMAIN f[i] : f[i][j] = s[i] \/ (j \in DOMAIN p /\ f[i][j] = p[j])
      <4> DEFINE a == s[i]
      <4>1. a \in Ages /\ f[i] = Append(p, a)
        BY <2>1, <3>1
      <4> HIDE DEF a
      <4>2. /\ Len(Append(p, a)) = Len(p) + 1 /\ Append(p, a) \in Seq(Ages)
            /\ \A j \in DOMAIN Append(p, a) :
                 Append(p, a)[j] = a \/ (j \in DOMAIN p /\ Append(p, a)[j] = p[j])
        BY <3>1, <4>1
      <4> QED
        BY <4>1, <4>2 DEF a
    <3>4. \A j \in DOMAIN f[i] : f[i][j] < Hour
      BY <2>4, <3>1, <3>3
    <3>5. Len(f[i]) = Cardinality(Up(s, i, Hour))
      BY <1>1, <2>2, <2>4, <3>1, <3>3
    <3> QED
      BY <3>2, <3>3, <3>4, <3>5
  <2>5. CASE ~(s[i] < Hour)
    <3>1. f[i] = f[i - 1]
      BY <2>1, <2>5
    <3>2. \A t \in Ages : ~(s[i] < t)
      BY <2>1, <2>5, AgesAssumption DEF Ages
    <3>3. \A t \in Ages : Cardinality(Up(s, i, t)) = Cardinality(Up(s, i - 1, t))
      BY <2>2, <2>3, <3>2
    <3> QED
      BY <1>1, <1>5, <3>1, <3>3
  <2> QED
    BY <2>4, <2>5
<1>6. T = {}
  <2> SUFFICES ASSUME T # {} PROVE FALSE
    OBVIOUS
  <2>1. PICK i \in T : \A j \in T : i <= j
    <3>1. T \in SUBSET Nat
      OBVIOUS
    <3> HIDE DEF T
    <3> QED
      BY <3>1, LeastNumber
  <2> HIDE DEF Good
  <2>2. i # 0
    BY <1>4, <2>1
  <2>3. i - 1 \in 0..n /\ i - 1 \notin T /\ i \in 1..n
    BY <1>1, <2>1, <2>2
  <2> QED
    BY <1>5, <2>1, <2>3
<1>7. Good(n)
  <2> HIDE DEF Good
  <2> QED
    BY <1>1, <1>6
<1> QED
  BY <1>1, <1>2, <1>7, CountUp

-----------------------------------------------------------------------------
(* What each step of a checker does, spelled out.                           *)

\* What a step of checker c leaves there, and that it leaves the others alone.
Becomes(c, l, r) == pc'[c] = l /\ loc'[c] = r
Alone(c) == \A d \in Checkers \ {c} : pc'[d] = pc[d] /\ loc'[d] = loc[d]

LEMMA Became ==
  ASSUME IInv, NEW c \in Checkers, NEW l, NEW r,
         pc' = [pc EXCEPT ![c] = l], loc' = [loc EXCEPT ![c] = r]
  PROVE  Becomes(c, l, r) /\ Alone(c)
  BY DEF IInv, Shape, Becomes, Alone

LEMMA CheckOnceDoes ==
  ASSUME IInv, NEW c \in Checkers, CheckOnce(c)
  PROVE  LET x == loc[c] IN
         /\ Becomes(c, "weigh", Rec(Deadlocked(old), x.victims, x.victim, x.read,
                                    x.given, x.moved))
         /\ Alone(c)
<1> DEFINE x == loc[c]
<1>1. /\ pc' = [pc EXCEPT ![c] = "weigh"]
      /\ loc' = [loc EXCEPT ![c] = [x EXCEPT !.nodes = Deadlocked(old)]]
  BY DEF CheckOnce, Goto
<1>2. [x EXCEPT !.nodes = Deadlocked(old)]
        = Rec(Deadlocked(old), x.victims, x.victim, x.read, x.given, x.moved)
  BY Spelled DEF IInv, Shape
<1> QED
  BY <1>1, <1>2, Became

LEMMA WeighDoes ==
  ASSUME IInv, NEW c \in Checkers, Weigh(c)
  PROVE  LET x == loc[c] IN
         /\ \/ Becomes(c, "idle", None)
            \/ \E v \in Tasks :
                 Becomes(c, "quota", Rec({}, {v}, x.victim, x.read, x.given, x.moved))
         /\ Alone(c)
<1> DEFINE x == loc[c]
<1>1. PICK f \in [x.nodes -> Scores] :
        \/ Return(c)
        \/ /\ pc' = [pc EXCEPT ![c] = "quota"]
           /\ loc' = [loc EXCEPT ![c].nodes = {}, ![c].victims = {Weakest(x.nodes, f)}]
  BY DEF Weigh, Goto
<1>2. x.nodes # {} /\ x.nodes \subseteq Deadlocked(old)
  BY DEF IInv, Weigh, Sound
<1>3. CASE Return(c)
  BY <1>3, Became DEF Return, Goto
<1>4. CASE /\ pc' = [pc EXCEPT ![c] = "quota"]
           /\ loc' = [loc EXCEPT ![c].nodes = {}, ![c].victims = {Weakest(x.nodes, f)}]
  <2> DEFINE v == Weakest(x.nodes, f)
  <2>1. v \in Tasks
    <3>1. x.nodes \in SUBSET Tasks
      BY <1>2, DeadlockedTasks
    <3> QED
      BY <1>2, <3>1, WeakestIsWeighed
  <2>2. loc' = [loc EXCEPT ![c] = [x EXCEPT !.nodes = {}, !.victims = {v}]]
    BY <1>4
  <2> HIDE DEF v
  <2>3. [x EXCEPT !.nodes = {}, !.victims = {v}]
          = Rec({}, {v}, x.victim, x.read, x.given, x.moved)
    BY Spelled DEF IInv, Shape
  <2>4. /\ Becomes(c, "quota", Rec({}, {v}, x.victim, x.read, x.given, x.moved))
        /\ Alone(c)
    BY <1>4, <2>2, <2>3, Became
  <2> QED
    BY <2>1, <2>4
<1> QED
  BY <1>1, <1>3, <1>4

LEMMA HandleBatchDoes ==
  ASSUME IInv, NEW c \in Checkers, HandleBatch(c)
  PROVE  LET x == loc[c] IN
         /\ \E b \in Batches :
              Becomes(c, "quota", Rec(x.nodes, b, x.victim, x.read, TRUE, x.moved))
         /\ Alone(c)
<1> DEFINE x == loc[c]
<1>1. PICK b \in Batches : loc' = [loc EXCEPT ![c].victims = b, ![c].given = TRUE]
  BY DEF HandleBatch
<1>2. loc' = [loc EXCEPT ![c] = [x EXCEPT !.victims = b, !.given = TRUE]]
  BY <1>1
<1>3. [x EXCEPT !.victims = b, !.given = TRUE]
        = Rec(x.nodes, b, x.victim, x.read, TRUE, x.moved)
  BY Spelled DEF IInv, Shape
<1>4. /\ Becomes(c, "quota", Rec(x.nodes, b, x.victim, x.read, TRUE, x.moved))
      /\ Alone(c)
  BY <1>2, <1>3, Became DEF HandleBatch, Goto
<1> QED
  BY <1>4

\* A step that reads, filters or writes killTimestamps.
LEMMA ReadDoes ==
  ASSUME IInv, NEW c \in Checkers, NEW l, NEW q,
         pc' = [pc EXCEPT ![c] = l], loc' = [loc EXCEPT ![c].read = q]
  PROVE  LET x == loc[c] IN
         /\ Becomes(c, l, Rec(x.nodes, x.victims, x.victim, q, x.given, x.moved))
         /\ Alone(c)
<1> DEFINE x == loc[c]
<1>1. loc' = [loc EXCEPT ![c] = [x EXCEPT !.read = q]]
  OBVIOUS
<1>2. [x EXCEPT !.read = q] = Rec(x.nodes, x.victims, x.victim, q, x.given, x.moved)
  BY Spelled DEF IInv, Shape
<1> QED
  BY <1>1, <1>2, Became

LEMMA CancelDoes ==
  ASSUME IInv, NEW c \in Checkers, Cancel(c)
  PROVE  LET x == loc[c] IN
         /\ \E v \in x.victims :
              Becomes(c, "record", Rec(x.nodes, x.victims, v, x.read, x.given, x.moved))
         /\ Alone(c)
<1> DEFINE x == loc[c]
<1>1. PICK v \in x.victims : loc' = [loc EXCEPT ![c].victim = v]
  BY DEF Cancel
<1>2. loc' = [loc EXCEPT ![c] = [x EXCEPT !.victim = v]]
  BY <1>1
<1>3. [x EXCEPT !.victim = v] = Rec(x.nodes, x.victims, v, x.read, x.given, x.moved)
  BY Spelled DEF IInv, Shape
<1>4. /\ Becomes(c, "record", Rec(x.nodes, x.victims, v, x.read, x.given, x.moved))
      /\ Alone(c)
  BY <1>2, <1>3, Became DEF Cancel, Goto
<1> QED
  BY <1>4

LEMMA CancelFailsDoes ==
  ASSUME IInv, NEW c \in Checkers, CancelFails(c)
  PROVE  LET x == loc[c] IN
         /\ \/ Becomes(c, "idle", None)
            \/ \E v \in x.victims :
                 Becomes(c, "cancel", Rec(x.nodes, x.victims \ {v}, 0, x.read,
                                          x.given, x.moved))
         /\ Alone(c)
<1> DEFINE x == loc[c]
<1>1. PICK v \in x.victims : Handled(c, v)
  BY DEF CancelFails
<1>2. CASE x.victims = {v}
  BY <1>1, <1>2, Became DEF Handled, Return, Goto
<1>3. CASE x.victims # {v}
  <2>1. /\ pc' = [pc EXCEPT ![c] = "cancel"]
        /\ loc' = [loc EXCEPT ![c] = [x EXCEPT !.victims = x.victims \ {v}, !.victim = 0]]
    BY <1>1, <1>3 DEF Handled, Goto
  <2>2. [x EXCEPT !.victims = x.victims \ {v}, !.victim = 0]
          = Rec(x.nodes, x.victims \ {v}, 0, x.read, x.given, x.moved)
    BY Spelled DEF IInv, Shape
  <2>3. /\ Becomes(c, "cancel", Rec(x.nodes, x.victims \ {v}, 0, x.read, x.given, x.moved))
        /\ Alone(c)
    BY <2>1, <2>2, Became
  <2> QED
    BY <2>3
<1> QED
  BY <1>2, <1>3

LEMMA RemoveNodeDoes ==
  ASSUME IInv, NEW c \in Checkers, RemoveNode(c)
  PROVE  LET y == Moved(About(c))[c]
             x == loc[c] IN
         /\ \/ Becomes(c, "idle", None)
            \/ Becomes(c, "cancel", Rec(y.nodes, x.victims \ {x.victim}, 0, y.read,
                                        y.given, y.moved))
         /\ \A d \in Checkers \ {c} : pc'[d] = pc[d] /\ loc'[d] = Moved(About(c))[d]
<1> DEFINE x == loc[c]
           E == About(c)
           y == Moved(E)[c]
           s == x.victims \ {x.victim}
<1>1. \/ /\ pc' = [pc EXCEPT ![c] = "idle"]
         /\ loc' = [Moved(E) EXCEPT ![c] = None]
      \/ /\ pc' = [pc EXCEPT ![c] = "cancel"]
         /\ loc' = [Moved(E) EXCEPT ![c].victims = s, ![c].victim = 0]
  BY DEF RemoveNode, Goto, About
<1>2. Moved(E) = [d \in Checkers |-> Moved(E)[d]] /\ pc \in [Checkers -> Labels]
  BY DEF Moved, IInv, Shape
<1>3. CASE /\ pc' = [pc EXCEPT ![c] = "idle"]
           /\ loc' = [Moved(E) EXCEPT ![c] = None]
  <2> HIDE DEF E
  <2> QED
    BY <1>2, <1>3 DEF Becomes, E
<1>4. CASE /\ pc' = [pc EXCEPT ![c] = "cancel"]
           /\ loc' = [Moved(E) EXCEPT ![c].victims = s, ![c].victim = 0]
  <2>1. Whole(y)
    BY MovedKeeps
  <2>2. loc' = [Moved(E) EXCEPT ![c] = [y EXCEPT !.victims = s, !.victim = 0]]
    BY <1>2, <1>4
  <2>3. [y EXCEPT !.victims = s, !.victim = 0] = Rec(y.nodes, s, 0, y.read, y.given, y.moved)
    <3> HIDE DEF y, s
    <3> QED
      BY <2>1, Spelled
  <2> DEFINE r == Rec(y.nodes, s, 0, y.read, y.given, y.moved)
  <2>4. loc' = [Moved(E) EXCEPT ![c] = r]
    BY <2>2, <2>3
  <2> HIDE DEF r, E
  <2>5. pc'[c] = "cancel" /\ loc'[c] = r
        /\ \A d \in Checkers \ {c} : pc'[d] = pc[d] /\ loc'[d] = Moved(E)[d]
    BY <1>2, <1>4, <2>4
  <2> QED
    BY <2>5 DEF Becomes, r, E
<1> QED
  BY <1>1, <1>3, <1>4

-----------------------------------------------------------------------------
(* Every state is well typed.                                               *)

LEMMA RecLocal ==
  ASSUME NEW n \in SUBSET Tasks, NEW s \in SUBSET Tasks, NEW v \in Tasks \cup {0},
         NEW q \in Seq(Ages), NEW g \in BOOLEAN, NEW m \in BOOLEAN
  PROVE  Rec(n, s, v, q, g, m) \in Local
  BY DEF Rec, Local, Ages

LEMMA LocalFields ==
  ASSUME NEW r \in Local
  PROVE  /\ r.nodes \in SUBSET Tasks /\ r.victims \in SUBSET Tasks
         /\ r.victim \in Tasks \cup {0} /\ r.read \in Seq(Ages)
         /\ r.given \in BOOLEAN /\ r.moved \in BOOLEAN
  BY DEF Local, Ages

LEMMA NoneLocal == None \in Local
  BY DEF None, Local

LEMMA MovedLocal ==
  ASSUME TypeOK, NEW d \in Checkers, NEW E
  PROVE  /\ Moved(E)[d] \in Local /\ Moved(E)[d].read = loc[d].read
         /\ Moved(E)[d].victims = loc[d].victims
  BY DEF TypeOK, Moved, Local

\* Where a checker is and what it holds, after a step of it.
Held == pc' \in [Checkers -> Labels] /\ loc' \in [Checkers -> Local]

LEMMA BecameTyped ==
  ASSUME TypeOK, Shape', NEW c \in Checkers, NEW l \in Labels, NEW r \in Local,
         Becomes(c, l, r), Alone(c)
  PROVE  Held
<1>1. \A d \in Checkers : loc'[d] \in Local
  BY DEF TypeOK, Becomes, Alone
<1> QED
  BY <1>1 DEF Held, Shape

LEMMA CheckerTyped ==
  ASSUME IInv, TypeOK, IInv', NEW c \in Checkers,
         CheckOnce(c) \/ HandleBatch(c) \/ Running(c)
  PROVE  Held
<1> DEFINE x == loc[c]
<1>1. /\ x.nodes \in SUBSET Tasks /\ x.victims \in SUBSET Tasks
      /\ x.victim \in Tasks \cup {0} /\ x.read \in Seq(Ages)
      /\ x.given \in BOOLEAN /\ x.moved \in BOOLEAN
  BY LocalFields DEF TypeOK
<1>2. Shape' /\ kills \in Seq(Ages) /\ <<>> \in Seq(Ages)
  BY DEF IInv, TypeOK, Ages
<1>3. CASE CheckOnce(c)
  <2> DEFINE r == Rec(Deadlocked(old), x.victims, x.victim, x.read, x.given, x.moved)
  <2>1. Becomes(c, "weigh", r) /\ Alone(c)
    BY <1>3, CheckOnceDoes
  <2>2. Deadlocked(old) \in SUBSET Tasks
    BY DEF Deadlocked
  <2>3. r \in Local
    BY <1>1, <2>2, RecLocal
  <2> HIDE DEF r
  <2> QED
    BY <1>2, <2>1, <2>3, BecameTyped DEF Labels
<1>4. CASE HandleBatch(c)
  <2>1. PICK b \in Batches :
          Becomes(c, "quota", Rec(x.nodes, b, x.victim, x.read, TRUE, x.moved))
    BY <1>4, HandleBatchDoes
  <2> DEFINE r == Rec(x.nodes, b, x.victim, x.read, TRUE, x.moved)
  <2>2. b \in SUBSET Tasks
    BY DeadlockAssumption
  <2>3. r \in Local
    BY <1>1, <2>2, RecLocal
  <2>4. Alone(c)
    BY <1>4, HandleBatchDoes
  <2> HIDE DEF r
  <2> QED
    BY <1>2, <2>1, <2>3, <2>4, BecameTyped DEF Labels, r
<1>i. ASSUME Becomes(c, "idle", None), Alone(c) PROVE Held
  BY <1>2, <1>i, NoneLocal, BecameTyped DEF Labels
<1>5. CASE Weigh(c)
  <2>1. Alone(c)
    BY <1>5, WeighDoes
  <2>2. ASSUME NEW v \in Tasks,
               Becomes(c, "quota", Rec({}, {v}, x.victim, x.read, x.given, x.moved))
        PROVE  Held
    <3> DEFINE r == Rec({}, {v}, x.victim, x.read, x.given, x.moved)
    <3>1. r \in Local
      BY <1>1, RecLocal
    <3>2. Becomes(c, "quota", r)
      BY <2>2
    <3> HIDE DEF r
    <3> QED
      BY <1>2, <2>1, <3>1, <3>2, BecameTyped DEF Labels
  <2> QED
    BY <1>5, <1>i, <2>1, <2>2, WeighDoes
<1>r. ASSUME NEW l \in Labels, NEW q \in Seq(Ages),
             pc' = [pc EXCEPT ![c] = l], loc' = [loc EXCEPT ![c].read = q]
      PROVE  Held
  <2> DEFINE r == Rec(x.nodes, x.victims, x.victim, q, x.given, x.moved)
  <2>1. Becomes(c, l, r) /\ Alone(c)
    BY <1>r, ReadDoes
  <2>2. r \in Local
    BY <1>1, RecLocal
  <2> HIDE DEF r
  <2> QED
    BY <1>2, <2>1, <2>2, BecameTyped
<1>6. CASE CanKillRead(c) \/ RecordRead(c) \/ RecordKill(c)
  BY <1>2, <1>6, <1>r DEF CanKillRead, RecordRead, RecordKill, Goto, Labels
<1>7. CASE CanKill(c)
  <2>1. \/ pc' = [pc EXCEPT ![c] = "cancel"] /\ loc' = [loc EXCEPT ![c].read = <<>>]
        \/ pc' = [pc EXCEPT ![c] = "idle"] /\ loc' = [loc EXCEPT ![c] = None]
    BY <1>7 DEF CanKill, Goto, Return
  <2> QED
    BY <1>2, <1>i, <1>r, <2>1, Became DEF Labels
<1>8. CASE Cancel(c)
  <2>1. PICK v \in x.victims :
          Becomes(c, "record", Rec(x.nodes, x.victims, v, x.read, x.given, x.moved))
    BY <1>8, CancelDoes
  <2>2. Alone(c)
    BY <1>8, CancelDoes
  <2> DEFINE r == Rec(x.nodes, x.victims, v, x.read, x.given, x.moved)
  <2>3. r \in Local
    BY <1>1, RecLocal
  <2> HIDE DEF r
  <2> QED
    BY <1>2, <2>1, <2>2, <2>3, BecameTyped DEF Labels, r
<1>9. CASE CancelFails(c)
  <2>1. Alone(c)
    BY <1>9, CancelFailsDoes
  <2>2. ASSUME NEW v \in x.victims,
               Becomes(c, "cancel", Rec(x.nodes, x.victims \ {v}, 0, x.read,
                                        x.given, x.moved))
        PROVE  Held
    <3> DEFINE r == Rec(x.nodes, x.victims \ {v}, 0, x.read, x.given, x.moved)
    <3>1. r \in Local
      <4>1. x.victims \ {v} \in SUBSET Tasks
        BY <1>1
      <4> QED
        BY <1>1, <4>1, RecLocal
    <3>2. Becomes(c, "cancel", r)
      BY <2>2
    <3> HIDE DEF r
    <3> QED
      BY <1>2, <2>1, <3>1, <3>2, BecameTyped DEF Labels
  <2> QED
    BY <1>9, <1>i, <2>1, <2>2, CancelFailsDoes
<1>10. CASE RemoveNode(c)
  <2> DEFINE y == Moved(About(c))[c]
             r == Rec(y.nodes, x.victims \ {x.victim}, 0, y.read, y.given, y.moved)
  <2>1. /\ Becomes(c, "idle", None) \/ Becomes(c, "cancel", r)
        /\ \A d \in Checkers \ {c} : pc'[d] = pc[d] /\ loc'[d] = Moved(About(c))[d]
    BY <1>10, RemoveNodeDoes
  <2>2. y \in Local
    BY MovedLocal
  <2> HIDE DEF y
  <2>3. r \in Local
    <3>1. x.victims \ {x.victim} \in SUBSET Tasks
      BY <1>1
    <3> QED
      BY <2>2, <3>1, RecLocal, LocalFields
  <2> HIDE DEF r
  <2>4. \A d \in Checkers : loc'[d] \in Local
    BY <2>1, <2>3, NoneLocal, MovedLocal DEF Becomes
  <2> QED
    BY <1>2, <2>4 DEF Shape, Held
<1> QED
  BY <1>3, <1>4, <1>5, <1>6, <1>7, <1>8, <1>9, <1>10 DEF Running

LEMMA EnvironmentTyped ==
  ASSUME IInv, TypeOK, Environment, IInv' PROVE Held
<1>1. Shape'
  BY DEF IInv
<1>2. ASSUME NEW from \in Tasks, NEW to \in Tasks, RecordEdge(from, to) \/ RemoveEdge(from, to)
      PROVE  Held
  <2>1. loc' = Moved({<<from, to>>})
    BY <1>2 DEF RecordEdge, RemoveEdge
  <2>2. \A d \in Checkers : loc'[d] \in Local
    BY <2>1, MovedLocal
  <2> QED
    BY <1>1, <2>2 DEF Shape, Held
<1>3. CASE Tick
  <2>1. \A d \in Checkers : loc'[d] = [loc[d] EXCEPT !.read = Older(loc[d].read)]
    BY <1>3 DEF Tick
  <2>2. \A d \in Checkers : loc[d] \in Local /\ Older(loc[d].read) \in Seq(0..Hour)
    BY LocalFields, OlderType DEF TypeOK, Ages
  <2>3. \A d \in Checkers : loc'[d] \in Local
    BY <2>1, <2>2 DEF Local
  <2> QED
    BY <1>1, <2>3 DEF Shape, Held
<1> QED
  BY <1>2, <1>3 DEF Environment

\* The records are ages of at most an hour.
LEMMA KillsTyped ==
  ASSUME IInv, TypeOK, [Next]_vars PROVE kills' \in Seq(Ages) /\ cancels' \in Seq(Ages)
<1>1. kills \in Seq(Ages) /\ cancels \in Seq(Ages) /\ 0 \in Ages
  BY AgesAssumption DEF TypeOK, Ages
<1>2. \A c \in Checkers : loc[c].read \in Seq(Ages)
  BY LocalFields DEF TypeOK
<1>3. CASE Environment
  <2>1. \/ kills' = kills /\ cancels' = cancels
        \/ kills' = Older(kills) /\ cancels' = Young(Older(cancels))
    BY <1>3 DEF Environment, RecordEdge, RemoveEdge, Tick
  <2> QED
    BY <1>1, <2>1, OlderType, YoungCount
<1>4. ASSUME NEW c \in Checkers, CheckOnce(c) \/ HandleBatch(c) \/ Running(c)
      PROVE  kills' \in Seq(Ages) /\ cancels' \in Seq(Ages)
  <2>1. /\ kills' = kills \/ kills' = Young(loc[c].read) \/ kills' = Append(loc[c].read, 0)
        /\ cancels' = cancels \/ cancels' = Append(cancels, 0)
    BY <1>4 DEF CheckOnce, HandleBatch, Running, Weigh, CanKillRead, CanKill, Cancel,
       CancelFails, RecordRead, RecordKill, RemoveNode
  <2> QED
    BY <1>1, <1>2, <2>1, YoungCount, CountAppend
<1>5. CASE UNCHANGED vars
  BY <1>1, <1>5 DEF vars
<1> QED
  BY <1>3, <1>4, <1>5 DEF Next

LEMMA TypedNext == IInv /\ TypeOK /\ [Next]_vars => TypeOK'
<1> SUFFICES ASSUME IInv, TypeOK, [Next]_vars PROVE TypeOK'
  OBVIOUS
<1>1. IInv'
  BY StuckNext
<1>2. Held
  <2>1. CASE UNCHANGED vars
    BY <2>1 DEF vars, TypeOK, Held, Labels
  <2> QED
    BY <1>1, <2>1, EnvironmentTyped, CheckerTyped DEF Next
<1>3. kills' \in Seq(0..Hour) /\ cancels' \in Seq(0..Hour)
  BY KillsTyped DEF Ages
<1>4. /\ edges' \subseteq Tasks \X Tasks /\ old' \subseteq edges'
      /\ pc' \in [Checkers -> {"idle", "weigh", "quota", "filter", "cancel",
                               "record", "append", "remove"}]
  BY <1>1 DEF IInv, Shape, Labels
<1>5. /\ dryRun' \in [{"detector", "breaker"} -> BOOLEAN] /\ records' \in 0..MaxRecords
      /\ cancelled' \subseteq Tasks /\ awaited' \subseteq cancelled'
  <2>1. CASE Environment
    <3>1. /\ dryRun' = dryRun /\ cancelled' \subseteq cancelled
          /\ awaited \subseteq cancelled => awaited' \subseteq cancelled'
          /\ records' = records \/ (records < MaxRecords /\ records' = records + 1)
      BY <2>1 DEF Environment, RecordEdge, RemoveEdge, Tick
    <3> QED
      BY <3>1, DeadlockAssumption DEF TypeOK
  <2>2. ASSUME NEW c \in Checkers, CheckOnce(c) \/ HandleBatch(c) \/ Running(c)
        PROVE  /\ dryRun' = dryRun /\ records' = records
               /\ \/ UNCHANGED <<cancelled, awaited>>
                  \/ \E v \in loc[c].victims : /\ cancelled' = cancelled \cup {v}
                                                /\ awaited' = awaited \ {v}
    BY <2>2 DEF CheckOnce, HandleBatch, Running, Weigh, CanKillRead, CanKill, Cancel,
       CancelFails, RecordRead, RecordKill, RemoveNode
  <2>3. \A c \in Checkers : loc[c].victims \subseteq Tasks
    BY LocalFields DEF TypeOK
  <2>4. CASE UNCHANGED vars
    BY <2>4 DEF vars, TypeOK
  <2>5. CASE \E c \in Checkers : CheckOnce(c) \/ HandleBatch(c) \/ Running(c)
    BY <2>2, <2>3, <2>5 DEF TypeOK
  <2> QED
    BY <2>1, <2>4, <2>5 DEF Next
<1> QED
  BY <1>2, <1>3, <1>4, <1>5 DEF TypeOK, Held

\* Every state is well typed; in particular ages stay within an hour, and what a
\* check weighs, names and hands on are tasks.
THEOREM DeadlockTyped == Spec => []TypeOK
<1>1. Init => TypeOK
  BY NoneLocal, DeadlockAssumption DEF Init, TypeOK
<1> QED
  BY <1>1, TypedNext, StuckInit, StuckNext, PTL DEF Spec

-----------------------------------------------------------------------------
(* With one handler the records miss no cancellation, and bound them.       *)

LEMMA CountYoung ==
  ASSUME NEW s \in Seq(Ages), \A i \in DOMAIN s : s[i] < Hour
  PROVE  Count(s, Hour) = Len(s)
<1>1. Up(s, Len(s), Hour) = 1..Len(s)
  BY DEF Up
<1>2. Cardinality(1..Len(s)) = Len(s)
  <2>1. Len(s) \in Nat /\ 1 \in Int /\ Len(s) \in Int
    OBVIOUS
  <2>2. Cardinality(1..Len(s)) = IF 1 > Len(s) THEN 0 ELSE Len(s) - 1 + 1
    BY <2>1, FS_Interval
  <2> QED
    BY <2>1, <2>2
<1> QED
  BY <1>1, <1>2, CountUp

\* Of every age, the records of handler h show as many cancellations as there
\* were, but for the one it is about to record; and what it read is still true.
Pending(h) == IF pc[h] \in {"record", "append"} THEN 1 ELSE 0

Known(h) ==
  /\ \A t \in Ages : Count(cancels, t) <= Count(kills, t) + Pending(h)
  /\ pc[h] \in {"filter", "append"} => loc[h].read = kills
  /\ \A i \in DOMAIN cancels : cancels[i] < Hour

KnownInv(h) == IInv /\ TypeOK /\ LoopsDrop /\ Known(h)

\* Each cancellation takes one of a list, and a list is begun under the quota.
Spent(h, n) ==
  /\ Len(cancels) <= MaxKillPerHour + n
  /\ pc[h] \in {"quota", "filter"} => Cardinality(loc[h].victims) <= n + 1
  /\ pc[h] = "cancel"
       => Len(cancels) + Cardinality(loc[h].victims) <= MaxKillPerHour + n
  /\ pc[h] \in Recording
       => /\ loc[h].victim \in loc[h].victims
          /\ Len(cancels) + Cardinality(loc[h].victims) <= MaxKillPerHour + n + 1

\* An hour later.
LEMMA TickAges ==
  ASSUME TypeOK, Tick
  PROVE  /\ kills \in Seq(Ages) /\ cancels \in Seq(Ages)
         /\ kills' \in Seq(Ages) /\ cancels' \in Seq(Ages)
         /\ \A i \in DOMAIN cancels' : cancels'[i] < Hour
         /\ \A t \in Ages \ {0} : /\ Count(kills', t) = Count(kills, t - 1)
                                  /\ Count(cancels', t) = Count(cancels, t - 1)
         /\ Len(cancels') <= Len(cancels)
<1>1. kills \in Seq(Ages) /\ cancels \in Seq(Ages)
  BY DEF TypeOK, Ages
<1>2. /\ Older(kills) \in Seq(Ages) /\ Older(cancels) \in Seq(Ages)
      /\ Len(Older(cancels)) = Len(cancels)
  BY <1>1, OlderType
<1>3. kills' = Older(kills) /\ cancels' = Young(Older(cancels))
  BY DEF Tick
<1>4. /\ cancels' \in Seq(Ages) /\ \A i \in DOMAIN cancels' : cancels'[i] < Hour
      /\ Len(cancels') = Count(Older(cancels), Hour)
      /\ \A t \in Ages : Count(cancels', t) = Count(Older(cancels), t)
  BY <1>2, <1>3, YoungCount
<1>5. Count(Older(cancels), Hour) \in 0..Len(cancels)
  BY <1>2, CountType
<1>6. ASSUME NEW t \in Ages \ {0}
      PROVE  /\ Count(kills', t) = Count(kills, t - 1)
             /\ Count(cancels', t) = Count(cancels, t - 1)
  BY <1>1, <1>3, <1>4, CountOlder
<1> QED
  BY <1>1, <1>2, <1>3, <1>4, <1>5, <1>6

\* The environment changes ages only, and those together.
LEMMA EnvironmentKnown ==
  ASSUME NEW h \in Checkers, KnownInv(h), Environment
  PROVE  /\ Known(h)' /\ pc' = pc /\ loc'[h].victims = loc[h].victims
         /\ loc'[h].victim = loc[h].victim /\ Len(cancels') <= Len(cancels)
<1>1. IInv /\ TypeOK /\ Known(h)
  BY DEF KnownInv
<1>2. CASE Tick
  <2> DEFINE y == [loc[h] EXCEPT !.read = Older(loc[h].read)]
  <2>1. pc' = pc /\ loc'[h] = y /\ kills' = Older(kills)
    BY <1>2 DEF Tick
  <2>2. y.read = Older(loc[h].read) /\ y.victims = loc[h].victims /\ y.victim = loc[h].victim
    BY <1>1 DEF TypeOK, Local
  <2> HIDE DEF y
  <2>3. ASSUME NEW t \in Ages PROVE Count(cancels', t) <= Count(kills', t) + Pending(h)'
    <3>1. Pending(h)' = Pending(h) /\ Pending(h) \in Nat
      BY <2>1 DEF Pending
    <3>2. CASE t = 0
      <4>1. Count(cancels', 0) = 0 /\ Count(kills', 0) = 0
        BY <1>1, <1>2, TickAges, CountZero
      <4> QED
        BY <3>1, <3>2, <4>1
    <3>3. CASE t # 0
      <4>1. /\ Count(kills', t) = Count(kills, t - 1)
            /\ Count(cancels', t) = Count(cancels, t - 1)
        BY <1>1, <1>2, <3>3, TickAges
      <4>2. t - 1 \in Ages
        BY <3>3, AgesAssumption DEF Ages
      <4> QED
        BY <1>1, <3>1, <4>1, <4>2 DEF Known
    <3> QED
      BY <3>2, <3>3
  <2>4. \A i \in DOMAIN cancels' : cancels'[i] < Hour
    BY <1>1, <1>2, TickAges
  <2>5. Len(cancels') <= Len(cancels)
    BY <1>1, <1>2, TickAges
  <2> QED
    BY <1>1, <2>1, <2>2, <2>3, <2>4, <2>5 DEF Known
<1>3. ASSUME NEW from \in Tasks, NEW to \in Tasks, RecordEdge(from, to) \/ RemoveEdge(from, to)
      PROVE  /\ Known(h)' /\ pc' = pc /\ loc'[h].victims = loc[h].victims
             /\ loc'[h].victim = loc[h].victim /\ Len(cancels') <= Len(cancels)
  <2> DEFINE y == Moved({<<from, to>>})[h]
  <2>1. kills' = kills /\ cancels' = cancels /\ pc' = pc /\ loc'[h] = y
    BY <1>3 DEF RecordEdge, RemoveEdge
  <2>2. y.victims = loc[h].victims /\ y.victim = loc[h].victim /\ y.read = loc[h].read
    BY <1>1, MovedKeeps, MovedLocal
  <2>3. Len(cancels) \in Nat
    BY <1>1 DEF TypeOK
  <2> HIDE DEF y
  <2> QED
    BY <1>1, <2>1, <2>2, <2>3 DEF Known, Pending
<1> QED
  BY <1>2, <1>3 DEF Environment

\* A loop of the detector touches nothing of it.
LEMMA LoopLeaves ==
  ASSUME IInv, LoopsDrop, NEW h \in Checkers, NEW c \in Loops, c # h,
         CheckOnce(c) \/ HandleBatch(c) \/ Running(c)
  PROVE  /\ kills' = kills /\ cancels' = cancels
         /\ pc'[h] = pc[h] /\ loc'[h] = loc[h]
<1>1. CheckOnce(c) \/ Weigh(c)
  <2>1. pc[c] \in {"idle", "weigh"} /\ c \notin Handlers
    BY DeadlockAssumption DEF LoopsDrop
  <2> QED
    BY <2>1 DEF HandleBatch, Running, CanKillRead, CanKill, Cancel, CancelFails,
                RecordRead, RecordKill, RemoveNode
<1>2. Alone(c)
  BY <1>1, CheckOnceDoes, WeighDoes DEF Checkers
<1> QED
  BY <1>1, <1>2 DEF Alone, CheckOnce, Weigh

\* What the handler does, as far as records and lists go.
Unspent == kills' = kills /\ cancels' = cancels

LEMMA BecomesFields ==
  ASSUME NEW c, NEW l, NEW n, NEW s, NEW v, NEW q, NEW g, NEW m,
         Becomes(c, l, Rec(n, s, v, q, g, m))
  PROVE  /\ pc'[c] = l /\ loc'[c].victims = s
         /\ loc'[c].victim = v /\ loc'[c].read = q
  BY DEF Becomes, Rec

LEMMA HandlerDoes ==
  ASSUME IInv, NEW h \in Checkers, CheckOnce(h) \/ HandleBatch(h) \/ Running(h)
  PROVE  LET x == loc[h]
             z == loc'[h] IN
         \/ /\ pc[h] \in {"idle", "weigh", "cancel", "remove"} /\ pc'[h] \in {"idle", "weigh"}
            /\ Unspent
         \/ /\ pc[h] \in {"idle", "weigh"} /\ pc'[h] = "quota" /\ Unspent
            /\ z.victims \in Batches \/ \E v \in Tasks : z.victims = {v}
         \/ /\ pc[h] = "quota" /\ pc'[h] = "filter" /\ Unspent
            /\ z.victims = x.victims /\ z.read = kills
         \/ /\ pc[h] = "filter" /\ pc'[h] \in {"idle", "cancel"}
            /\ kills' = Young(x.read) /\ cancels' = cancels
            /\ pc'[h] = "cancel" => /\ Len(Young(x.read)) < MaxKillPerHour
                                    /\ z.victims = x.victims
         \/ /\ pc[h] = "cancel" /\ pc'[h] = "record"
            /\ kills' = kills /\ cancels' = Append(cancels, 0)
            /\ z.victims = x.victims /\ z.victim \in x.victims
         \/ /\ pc[h] = "cancel" /\ pc'[h] = "cancel" /\ Unspent
            /\ \E v \in x.victims : z.victims = x.victims \ {v}
         \/ /\ pc[h] = "record" /\ pc'[h] = "append" /\ Unspent
            /\ z.victims = x.victims /\ z.victim = x.victim /\ z.read = kills
         \/ /\ pc[h] = "append" /\ pc'[h] = "remove"
            /\ kills' = Append(x.read, 0) /\ cancels' = cancels
            /\ z.victims = x.victims /\ z.victim = x.victim
         \/ /\ pc[h] = "remove" /\ pc'[h] = "cancel" /\ Unspent
            /\ z.victims = x.victims \ {x.victim}
<1> DEFINE x == loc[h]
           z == loc'[h]
<1>1. CASE CheckOnce(h)
  <2>1. pc'[h] = "weigh"
    BY <1>1, CheckOnceDoes DEF Becomes
  <2> QED
    BY <1>1, <2>1 DEF CheckOnce, Unspent
<1>2. CASE HandleBatch(h)
  <2>1. pc'[h] = "quota" /\ z.victims \in Batches
    <3>1. PICK b \in Batches :
            Becomes(h, "quota", Rec(x.nodes, b, x.victim, x.read, TRUE, x.moved))
      BY <1>2, HandleBatchDoes
    <3>2. pc'[h] = "quota" /\ z.victims = b
      BY <3>1 DEF Becomes, Rec
    <3> QED
      BY <3>2
  <2> QED
    BY <1>2, <2>1 DEF HandleBatch, Unspent
<1>3. CASE Weigh(h)
  <2>1. \/ pc'[h] = "idle"
        \/ pc'[h] = "quota" /\ \E v \in Tasks : z.victims = {v}
    <3>1. CASE Becomes(h, "idle", None)
      BY <3>1 DEF Becomes
    <3>2. ASSUME NEW v \in Tasks,
                 Becomes(h, "quota", Rec({}, {v}, x.victim, x.read, x.given, x.moved))
          PROVE  pc'[h] = "quota" /\ z.victims = {v}
      BY <3>2, BecomesFields
    <3> QED
      BY <1>3, <3>1, <3>2, WeighDoes
  <2> QED
    BY <1>3, <2>1 DEF Weigh, Unspent
<1>r. ASSUME NEW l, NEW q, pc' = [pc EXCEPT ![h] = l], loc' = [loc EXCEPT ![h].read = q]
      PROVE  /\ pc'[h] = l /\ z.read = q
             /\ z.victims = x.victims /\ z.victim = x.victim
  <2>1. Becomes(h, l, Rec(x.nodes, x.victims, x.victim, q, x.given, x.moved))
    BY <1>r, ReadDoes
  <2> QED
    BY <2>1, BecomesFields
<1>4. CASE CanKillRead(h)
  <2>1. /\ pc'[h] = "filter" /\ z.read = kills
        /\ z.victims = x.victims /\ z.victim = x.victim
    BY <1>4, <1>r DEF CanKillRead, Goto
  <2> QED
    BY <1>4, <2>1 DEF CanKillRead, Unspent
<1>5. CASE CanKill(h)
  <2>1. \/ /\ Len(Young(x.read)) < MaxKillPerHour
           /\ pc' = [pc EXCEPT ![h] = "cancel"] /\ loc' = [loc EXCEPT ![h].read = <<>>]
        \/ pc' = [pc EXCEPT ![h] = "idle"] /\ loc' = [loc EXCEPT ![h] = None]
    BY <1>5 DEF CanKill, Goto, Return
  <2>2. \/ /\ Len(Young(x.read)) < MaxKillPerHour
           /\ pc'[h] = "cancel" /\ z.victims = x.victims
        \/ pc'[h] = "idle"
    BY <1>r, <2>1, Became DEF Becomes
  <2> QED
    BY <1>5, <2>2 DEF CanKill
<1>6. CASE Cancel(h)
  <2>1. pc'[h] = "record" /\ z.victims = x.victims /\ z.victim \in x.victims
    <3>1. PICK v \in x.victims :
            Becomes(h, "record", Rec(x.nodes, x.victims, v, x.read, x.given, x.moved))
      BY <1>6, CancelDoes
    <3> QED
      BY <3>1, BecomesFields
  <2> QED
    BY <1>6, <2>1 DEF Cancel
<1>7. CASE CancelFails(h)
  <2>1. \/ pc'[h] = "idle"
        \/ pc'[h] = "cancel" /\ \E v \in x.victims : z.victims = x.victims \ {v}
    <3>1. CASE Becomes(h, "idle", None)
      BY <3>1 DEF Becomes
    <3>2. ASSUME NEW v \in x.victims,
                 Becomes(h, "cancel", Rec(x.nodes, x.victims \ {v}, 0, x.read,
                                          x.given, x.moved))
          PROVE  pc'[h] = "cancel" /\ z.victims = x.victims \ {v}
      BY <3>2, BecomesFields
    <3> QED
      BY <1>7, <3>1, <3>2, CancelFailsDoes
  <2> QED
    BY <1>7, <2>1 DEF CancelFails, Unspent
<1>8. CASE RecordRead(h)
  <2>1. /\ pc'[h] = "append" /\ z.read = kills
        /\ z.victims = x.victims /\ z.victim = x.victim
    BY <1>8, <1>r DEF RecordRead, Goto
  <2> QED
    BY <1>8, <2>1 DEF RecordRead, Unspent
<1>9. CASE RecordKill(h)
  <2>1. /\ pc'[h] = "remove"
        /\ z.victims = x.victims /\ z.victim = x.victim
    BY <1>9, <1>r DEF RecordKill, Goto
  <2> QED
    BY <1>9, <2>1 DEF RecordKill
<1>10. CASE RemoveNode(h)
  <2>1. pc'[h] = "idle" \/ (pc'[h] = "cancel" /\ z.victims = x.victims \ {x.victim})
    <3> DEFINE y == Moved(About(h))[h]
    <3>1. CASE Becomes(h, "idle", None)
      BY <3>1 DEF Becomes
    <3>2. CASE Becomes(h, "cancel", Rec(y.nodes, x.victims \ {x.victim}, 0, y.read,
                                        y.given, y.moved))
      BY <3>2, BecomesFields
    <3> QED
      BY <1>10, <3>1, <3>2, RemoveNodeDoes
  <2> QED
    BY <1>10, <2>1 DEF RemoveNode, Unspent
<1> QED
  BY <1>1, <1>2, <1>3, <1>4, <1>5, <1>6, <1>7, <1>8, <1>9, <1>10 DEF Running

LEMMA HandlerKnown ==
  ASSUME NEW h \in Checkers, KnownInv(h), CheckOnce(h) \/ HandleBatch(h) \/ Running(h)
  PROVE  Known(h)'
<1> DEFINE x == loc[h]
           z == loc'[h]
<1>1. IInv /\ Known(h) /\ kills \in Seq(Ages) /\ cancels \in Seq(Ages)
  BY DEF KnownInv, TypeOK, Ages
<1>2. \A t \in Ages : Count(kills, t) \in Nat /\ Count(cancels, t) \in Nat
  BY <1>1, CountType
<1>3. 0 \in Ages /\ 0 < Hour
  BY AgesAssumption DEF Ages
\* A record is added to both, the one before the other.
<1>4. ASSUME NEW s \in Seq(Ages), NEW t \in Ages
      PROVE  Count(Append(s, 0), t) = Count(s, t) + (IF 0 < t THEN 1 ELSE 0)
  BY <1>3, CountAppend
<1>5. Count(kills, 0) = 0 /\ Count(cancels, 0) = 0 /\ \A t \in Ages : 0 < t \/ t = 0
  BY <1>1, CountZero, AgesAssumption DEF Ages
<1>6. ASSUME Unspent, Pending(h)' = Pending(h),
             pc'[h] \in {"filter", "append"} => z.read = kills
      PROVE  Known(h)'
  BY <1>1, <1>6 DEF Known, Unspent
<1>7. CASE /\ pc[h] = "filter" /\ pc'[h] \in {"idle", "cancel"}
           /\ kills' = Young(x.read) /\ cancels' = cancels
  <2>1. x.read = kills /\ Pending(h) = 0 /\ Pending(h)' = 0
    BY <1>1, <1>7 DEF Known, Pending
  <2>2. \A t \in Ages : Count(kills', t) = Count(kills, t)
    BY <1>1, <1>7, <2>1, YoungCount
  <2>3. \A t \in Ages : Count(cancels', t) <= Count(kills', t) + Pending(h)'
    BY <1>1, <1>7, <2>1, <2>2 DEF Known
  <2> QED
    BY <1>1, <1>7, <2>3 DEF Known
<1>8. CASE /\ pc[h] = "cancel" /\ pc'[h] = "record"
           /\ kills' = kills /\ cancels' = Append(cancels, 0)
  <2>1. Pending(h) = 0 /\ Pending(h)' = 1
    BY <1>8 DEF Pending
  <2>2. ASSUME NEW t \in Ages PROVE Count(cancels', t) <= Count(kills', t) + 1
    <3>1. Count(cancels', t) = Count(cancels, t) + (IF 0 < t THEN 1 ELSE 0)
      BY <1>1, <1>4, <1>8
    <3>2. Count(cancels, t) <= Count(kills, t)
      BY <1>1, <1>2, <2>1 DEF Known
    <3> QED
      BY <1>2, <1>8, <3>1, <3>2
  <2>3. \A i \in DOMAIN cancels' : cancels'[i] < Hour
    <3>1. \A i \in DOMAIN cancels' : cancels'[i] = 0 \/ (i \in DOMAIN cancels /\ cancels'[i] = cancels[i])
      BY <1>1, <1>8
    <3> QED
      BY <1>1, <1>3, <3>1 DEF Known
  <2> QED
    BY <1>8, <2>1, <2>2, <2>3 DEF Known
<1>9. CASE /\ pc[h] = "append" /\ pc'[h] = "remove"
           /\ kills' = Append(x.read, 0) /\ cancels' = cancels
  <2>1. x.read = kills /\ Pending(h) = 1 /\ Pending(h)' = 0
    BY <1>1, <1>9 DEF Known, Pending
  <2>2. ASSUME NEW t \in Ages PROVE Count(cancels', t) <= Count(kills', t) + 0
    <3>1. Count(kills', t) = Count(kills, t) + (IF 0 < t THEN 1 ELSE 0)
      BY <1>1, <1>4, <1>9, <2>1
    <3>2. Count(cancels, t) <= Count(kills, t) + 1
      BY <1>1, <2>1 DEF Known
    <3>3. CASE 0 < t
      BY <1>2, <1>9, <3>1, <3>2, <3>3
    <3>4. CASE t = 0
      BY <1>2, <1>5, <1>9, <3>1, <3>4
    <3> QED
      BY <1>5, <3>3, <3>4
  <2> QED
    BY <1>1, <1>9, <2>1, <2>2 DEF Known
<1>10. CASE /\ pc[h] \in {"idle", "weigh", "cancel", "remove"} /\ pc'[h] \in {"idle", "weigh"}
            /\ Unspent
  BY <1>6, <1>10 DEF Pending
<1>11. CASE /\ pc[h] \in {"idle", "weigh", "cancel", "remove"} /\ pc'[h] \in {"quota", "cancel"}
            /\ Unspent
  BY <1>6, <1>11 DEF Pending
<1>12. CASE /\ \/ pc[h] = "quota" /\ pc'[h] = "filter"
               \/ pc[h] = "record" /\ pc'[h] = "append"
            /\ z.read = kills /\ Unspent
  BY <1>6, <1>12 DEF Pending
<1> HIDE DEF x, z
<1> QED
  BY <1>1, <1>7, <1>8, <1>9, <1>10, <1>11, <1>12, HandlerDoes DEF x, z

LEMMA KnownNext ==
  ASSUME NEW h \in Checkers, Handlers = {h}, KnownInv(h), [Next]_vars PROVE KnownInv(h)'
<1>1. IInv /\ TypeOK /\ LoopsDrop /\ Known(h)
  BY DEF KnownInv
<1>2. IInv' /\ TypeOK' /\ LoopsDrop'
  BY <1>1, StuckNext, TypedNext, LoopsNext
<1> SUFFICES Known(h)'
  BY <1>2 DEF KnownInv
<1>3. CASE Environment
  BY <1>3, EnvironmentKnown
<1>4. ASSUME NEW c \in Loops, CheckOnce(c) \/ HandleBatch(c) \/ Running(c)
      PROVE  Known(h)'
  <2>1. /\ kills' = kills /\ cancels' = cancels
        /\ pc'[h] = pc[h] /\ loc'[h] = loc[h]
    BY <1>1, <1>4, LoopLeaves, DeadlockAssumption
  <2> QED
    BY <1>1, <2>1 DEF Known, Pending
<1>5. CASE CheckOnce(h) \/ HandleBatch(h) \/ Running(h)
  BY <1>5, HandlerKnown
<1>6. CASE UNCHANGED vars
  BY <1>1, <1>6 DEF vars, Known, Pending
<1>7. Checkers = Loops \cup {h}
  BY DEF Checkers
<1> QED
  BY <1>3, <1>4, <1>5, <1>6, <1>7 DEF Next

LEMMA KnownInit == ASSUME NEW h \in Checkers PROVE Init => KnownInv(h)
<1> SUFFICES ASSUME Init PROVE KnownInv(h)
  OBVIOUS
<1>1. IInv /\ TypeOK /\ LoopsDrop
  BY StuckInit, NoneLocal, DeadlockAssumption DEF Init, TypeOK, LoopsDrop, Checkers
<1>2. /\ kills = <<>> /\ cancels = <<>> /\ pc[h] = "idle"
      /\ \A t : Count(<<>>, t) = 0
  BY FS_EmptySet DEF Init, Count
<1>3. \A t \in Ages : Count(cancels, t) <= Count(kills, t) + Pending(h)
  BY <1>2 DEF Pending
<1>4. Known(h)
  BY <1>2, <1>3 DEF Known
<1> QED
  BY <1>1, <1>4 DEF KnownInv

\* What the records say of the last hour is what happened, but for a record that
\* is still to be written.
LEMMA KnownCount ==
  ASSUME NEW h \in Checkers, KnownInv(h)
  PROVE  /\ Len(Young(kills)) \in Nat /\ Len(cancels) \in Nat
         /\ Len(cancels) <= Len(Young(kills)) + Pending(h)
<1>1. kills \in Seq(Ages) /\ cancels \in Seq(Ages) /\ Hour \in Ages
  BY AgesAssumption DEF KnownInv, TypeOK, Ages
<1>2. Len(Young(kills)) = Count(kills, Hour) /\ Count(kills, Hour) \in Nat
  BY <1>1, YoungCount, CountType
<1>3. Count(cancels, Hour) = Len(cancels)
  BY <1>1, CountYoung DEF KnownInv, Known
<1> QED
  BY <1>1, <1>2, <1>3 DEF KnownInv, Known

\* A single handler's records miss no cancellation of the last hour, for any
\* tasks, quota, hour and number of detector loops.
THEOREM HandlerRecordsKills ==
  ASSUME NEW h, Handlers = {h} PROVE Spec => []KillsRecorded
<1>1. h \in Checkers
  BY DEF Checkers
<1>2. KnownInv(h) => KillsRecorded
  BY <1>1, KnownCount DEF KillsRecorded, Pending
<1> QED
  BY <1>1, <1>2, KnownInit, KnownNext, PTL DEF Spec

-----------------------------------------------------------------------------
\* The list a handler works on never outgrows what the quota leaves.
LEMMA SpentNext ==
  ASSUME NEW h \in Checkers, Handlers = {h}, KnownInv(h), [Next]_vars,
         NEW n \in Nat, \A v \in Batches : Cardinality(v) <= n + 1, Spent(h, n)
  PROVE  Spent(h, n)'
<1> DEFINE x == loc[h]
           z == loc'[h]
<1>1. /\ IInv /\ TypeOK /\ LoopsDrop /\ Len(cancels) \in Nat /\ MaxKillPerHour \in Nat
      /\ x.victims \in SUBSET Tasks
  BY DeadlockAssumption, LocalFields DEF KnownInv, TypeOK
<1>2. IsFiniteSet(x.victims) /\ Cardinality(x.victims) \in Nat
  BY <1>1, TasksAssumption, FS_Subset, FS_CardinalityType
<1>3. \A v \in x.victims : Cardinality(x.victims \ {v}) = Cardinality(x.victims) - 1
  BY <1>2, FS_RemoveElement
<1>4. \A v : Cardinality({v}) = 1
  BY FS_Singleton
<1>5. x.victims # {} => Cardinality(x.victims) >= 1
  BY <1>2, FS_EmptySet
<1>6. CASE Environment
  <2>1. /\ pc' = pc /\ z.victims = x.victims /\ z.victim = x.victim
        /\ Len(cancels') <= Len(cancels) /\ Len(cancels') \in Nat
    <3>1. TypeOK'
      BY <1>1, TypedNext
    <3> QED
      BY <1>6, <3>1, EnvironmentKnown DEF TypeOK
  <2> HIDE DEF x, z
  <2> QED
    BY <1>1, <1>2, <2>1 DEF Spent, x, z
<1>7. CASE UNCHANGED <<cancels, pc[h], loc[h]>>
  BY <1>7 DEF Spent
<1>8. ASSUME NEW c \in Loops, CheckOnce(c) \/ HandleBatch(c) \/ Running(c)
      PROVE  Spent(h, n)'
  BY <1>1, <1>7, <1>8, LoopLeaves, DeadlockAssumption
<1>9. CASE CheckOnce(h) \/ HandleBatch(h) \/ Running(h)
  <2>1. CASE pc'[h] \in {"idle", "weigh"} /\ cancels' = cancels
    BY <2>1 DEF Spent, Recording
  <2>2. CASE /\ pc'[h] = "quota" /\ Unspent
             /\ z.victims \in Batches \/ \E v \in Tasks : z.victims = {v}
    <3>1. Cardinality(z.victims) <= n + 1
      <4> DEFINE w == z.victims
      <4>1. w \in Batches \/ \E v \in Tasks : w = {v}
        BY <2>2
      <4> HIDE DEF w
      <4>2. CASE \E v \in Tasks : w = {v}
        <5>1. PICK v \in Tasks : w = {v}
          BY <4>2
        <5>2. Cardinality(w) = 1
          BY <1>4, <5>1
        <5> QED
          BY <5>2 DEF w
      <4>3. CASE w \in Batches
        BY <4>3 DEF w
      <4> QED
        BY <4>1, <4>2, <4>3
    <3> QED
      BY <2>2, <3>1 DEF Spent, Recording, Unspent
  <2>3. CASE /\ pc[h] = "quota" /\ pc'[h] = "filter" /\ Unspent
             /\ z.victims = x.victims
    BY <2>3 DEF Spent, Recording, Unspent
  <2>4. CASE /\ pc[h] = "filter" /\ pc'[h] = "cancel" /\ cancels' = cancels
             /\ Len(Young(x.read)) < MaxKillPerHour /\ z.victims = x.victims
    <3>1. x.read = kills /\ Pending(h) = 0
      BY <2>4 DEF KnownInv, Known, Pending
    <3>2. Len(cancels) + 1 <= MaxKillPerHour
      BY <1>1, <2>4, <3>1, KnownCount
    <3>3. Cardinality(x.victims) <= n + 1
      BY <2>4 DEF Spent
    <3>4. Len(cancels) + Cardinality(x.victims) <= MaxKillPerHour + n
      BY <1>1, <1>2, <3>2, <3>3
    <3> QED
      BY <2>4, <3>4 DEF Spent, Recording
  <2>5. CASE /\ pc[h] = "cancel" /\ pc'[h] = "record" /\ cancels' = Append(cancels, 0)
             /\ z.victims = x.victims /\ z.victim \in x.victims
    <3>1. Len(cancels') = Len(cancels) + 1
      BY <2>5 DEF KnownInv, TypeOK
    <3>2. Len(cancels) + Cardinality(x.victims) <= MaxKillPerHour + n
      BY <2>5 DEF Spent
    <3>3. Cardinality(x.victims) >= 1
      BY <1>5, <2>5
    <3>4. /\ Len(cancels') <= MaxKillPerHour + n
          /\ Len(cancels') + Cardinality(x.victims) <= MaxKillPerHour + n + 1
      BY <1>1, <1>2, <3>1, <3>2, <3>3
    <3> QED
      BY <2>5, <3>4 DEF Spent, Recording
  <2>6. CASE /\ pc[h] = "cancel" /\ pc'[h] = "cancel" /\ Unspent
             /\ \E v \in x.victims : z.victims = x.victims \ {v}
    <3>1. Cardinality(z.victims) = Cardinality(x.victims) - 1
      BY <1>3, <2>6
    <3>2. Len(cancels) + Cardinality(x.victims) <= MaxKillPerHour + n
      BY <2>6 DEF Spent
    <3>3. Len(cancels) + Cardinality(z.victims) <= MaxKillPerHour + n
      BY <1>1, <1>2, <3>1, <3>2
    <3> QED
      BY <2>6, <3>3 DEF Spent, Recording, Unspent
  <2>7. CASE /\ pc[h] \in {"record", "append"} /\ pc'[h] \in {"append", "remove"}
             /\ cancels' = cancels
             /\ z.victims = x.victims /\ z.victim = x.victim
    BY <2>7 DEF Spent, Recording
  <2>8. CASE /\ pc[h] = "remove" /\ pc'[h] = "cancel" /\ Unspent
             /\ z.victims = x.victims \ {x.victim}
    <3>1. /\ x.victim \in x.victims
          /\ Len(cancels) + Cardinality(x.victims) <= MaxKillPerHour + n + 1
      BY <2>8 DEF Spent, Recording
    <3>2. Cardinality(z.victims) = Cardinality(x.victims) - 1
      BY <1>3, <2>8, <3>1
    <3>3. Len(cancels) + Cardinality(z.victims) <= MaxKillPerHour + n
      BY <1>1, <1>2, <3>1, <3>2
    <3> QED
      BY <2>8, <3>3 DEF Spent, Recording, Unspent
  <2>9. Unspent => cancels' = cancels
    BY DEF Unspent
  <2> HIDE DEF x, z
  <2> QED
    BY <1>1, <1>9, <2>1, <2>2, <2>3, <2>4, <2>5, <2>6, <2>7, <2>8, <2>9, HandlerDoes
       DEF x, z
<1>10. CASE UNCHANGED vars
  BY <1>7, <1>10 DEF vars
<1>11. Checkers = Loops \cup {h}
  BY DEF Checkers
<1> QED
  BY <1>6, <1>8, <1>9, <1>10, <1>11 DEF Next

\* Spent, for whatever bound the lists given to the handler have.
SpentInv(h) ==
  \A n \in 0..Cardinality(Tasks) :
    (\A v \in Batches : Cardinality(v) <= n + 1) => Spent(h, n)

\* A single handler exceeds the quota by less than the longest list it is given,
\* for any tasks, quota, hour and number of detector loops: it looks at the
\* quota once per list, and what it looks at misses nothing.
THEOREM HandlerKillsBounded ==
  ASSUME NEW h, Handlers = {h} PROVE Spec => []KillsBounded
<1>1. h \in Checkers
  BY DEF Checkers
<1>2. Cardinality(Tasks) \in Nat /\ MaxKillPerHour \in Nat
  BY TasksAssumption, FS_CardinalityType, DeadlockAssumption
<1>3. Init => SpentInv(h)
  <2> SUFFICES ASSUME Init, NEW n \in 0..Cardinality(Tasks) PROVE Spent(h, n)
    BY DEF SpentInv
  <2>1. pc[h] = "idle" /\ Len(cancels) = 0
    BY <1>1 DEF Init
  <2> QED
    BY <1>2, <2>1 DEF Spent, Recording
<1>4. KnownInv(h) /\ SpentInv(h) /\ [Next]_vars => SpentInv(h)'
  <2> SUFFICES ASSUME KnownInv(h), SpentInv(h), [Next]_vars,
                      NEW n \in 0..Cardinality(Tasks),
                      \A v \in Batches : Cardinality(v) <= n + 1
               PROVE  Spent(h, n)'
    BY DEF SpentInv
  <2>1. n \in Nat /\ Spent(h, n)
    BY <1>2 DEF SpentInv
  <2> QED
    BY <1>1, <2>1, SpentNext
<1>5. SpentInv(h) => KillsBounded
  BY DEF SpentInv, Spent, KillsBounded
<1> QED
  BY <1>1, <1>3, <1>4, <1>5, KnownInit, KnownNext, PTL DEF Spec

=============================================================================
