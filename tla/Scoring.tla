-------------------------------- MODULE Scoring --------------------------------
(***************************************************************************)
(* One call of ScoringEngine.ScoreAgents (scheduler/scoring.go) over each  *)
(* of the data sources.  The call reads a card, a load and then dimension  *)
(* after dimension; each read is a step, each may fail, and heartbeats,    *)
(* finished tasks and trust records come in between.  MemoryDataSource     *)
(* locks every single read; RedisDataSource asks twice for a rate, with    *)
(* two GETs.  ScoreAgents keeps no state, so one call says it all.         *)
(***************************************************************************)
EXTENDS Dimensions, Ranking

CONSTANTS
  Calls,        \* pairs of a deployment, [source, wrapped, carded]: which
                \* DataSource the engine has, and of a request for it,
                \* [required, universe, labels, region]
  Lists,        \* agentIDs passed to ScoreAgents
  Starts,       \* data of the agents when the call begins
  Domain,       \* Domain[f]: the values field f may be set to
  Window,       \* how many tasks the counts of the last 100 cover
  MaxEvents     \* bound: changes of data and failed reads during the call

\* No DataSource; one over maps; one over Redis.
Sources == {"nil", "memory", "redis"}

Optional(S) == S \cup {None}
Name == Optional(STRING)

Deploys  == [source : Sources, wrapped : BOOLEAN, carded : BOOLEAN]
Requests == [required : Seq(STRING), universe : Name, labels : Name, region : Name]

Cards == [skills : SUBSET STRING, universe : Name, region : Name,
          version : Optional(Nat \X Nat), first : Int, last : Int]
Loads == [cpu : Int, memory : Int, active : Nat, capacity : Nat]
Metas == [auth : Int, interfaces : Seq(STRING), region : Name]

\* What each field of an agent's data may be.
Kinds ==
  [card |-> Optional(Cards), load |-> Optional(Loads), meta |-> Optional(Metas),
   latencies |-> Optional(Seq(Int) \ {<<>>}),
   successes |-> Optional(Nat), errors |-> Optional(Nat),
   tasks |-> Optional(Nat), total |-> Optional(Nat),
   mbps |-> Optional(Nat), trust |-> Optional(Int)]

Fields == DOMAIN Kinds

Datum(x) == DOMAIN x = Fields /\ \A f \in Fields : x[f] \in Kinds[f]

ASSUME ScoringAssumption ==
  /\ Calls \subseteq Deploys \X Requests
  /\ \A c \in Calls : c[1].source = "nil" => ~c[1].wrapped /\ ~c[1].carded
  /\ Lists \subseteq Seq(Agents) /\ \A l \in Lists : IsInjective(l)
  /\ \A s \in Starts : DOMAIN s = Agents /\ \A a \in Agents : Datum(s[a])
  /\ DOMAIN Domain = Fields \ {"tasks"}
  /\ \A f \in DOMAIN Domain : Domain[f] \subseteq Kinds[f]
  /\ Window \in Nat \ {0} /\ MaxEvents \in Nat

VARIABLES
  deploy, req,          \* the engine and the request
  agentIDs, todo,       \* the agents to score, and those still to come
  at, half,             \* the next read; the first GET of a rate
  dims,                 \* DimensionScores of the agent so far
  data,                 \* registry, load and metrics of each agent
  events,
  shown,                \* history: all that an agent's data were in the call,
  lost,                 \* the reads that failed,
  torn,                 \* agents whose data changed between two GETs,
  regular               \* and those whose data never were odd (Regular)

callVars == <<todo, at, half, dims>>
history  == <<shown, lost, torn, regular>>
vars     == <<deploy, req, agentIDs, callVars, data, events, history, rankVars>>

\* The order of the reads of scoreAgent.
Steps == <<"card", "load", "trust", "latency", "success", "bandwidth", "auth",
           "protocol", "history", "errors", "availability", "version", "geo",
           "add">>

-----------------------------------------------------------------------------
(* What a read finds: x is an agent's data at that moment. *)

\* Memory has one count of tasks, for the rates and for the history.
Tasks(x) == IF deploy.source = "memory" THEN x.total ELSE x.tasks

\* What GetAgent returns to a data source that has a registry.
CardOf(x) == IF deploy.carded THEN x.card ELSE None

Meta(x) == IF deploy.source = "memory" /\ x.meta # None THEN x.meta
           ELSE MetaFromCard(CardOf(x))

\* One dimension of the DataSource.
Value(d, x) ==
  CASE d = "trust"     -> ClampedTrust(x.trust)
    [] d = "latency"   -> LatencyScore(x.latencies)
    [] d = "success"   -> SuccessScore(x.successes, Tasks(x))
    [] d = "bandwidth" -> BandwidthScore(x.mbps)
    [] d = "auth"      -> Meta(x).auth
    [] d = "protocol"  -> ProtocolCompat(Meta(x).interfaces,
                                         Protocols(deploy.source, deploy.wrapped))
    [] d = "history"   -> HistoryScore(x.total)
    [] d = "errors"    -> ErrorScore(x.errors, Tasks(x))
    [] d = "availability" -> Availability(CardOf(x))
    [] d = "version"   -> VersionCompat(CardOf(x))
    [] d = "geo"       -> GeoPenalty(Meta(x).region, req.region)

\* Reads that go to the registry, and those that can fail at all.
OfRegistry == {"availability", "version"}
OfMeta     == {"auth", "protocol", "geo"}

CanFail(d, x) ==
  CASE d = "trust"       -> deploy.wrapped \/ deploy.source = "redis"
    [] d \in OfRegistry  -> deploy.carded
    [] d \in OfMeta      -> deploy.carded
                              /\ (deploy.source = "redis" \/ x.meta = None)
    [] OTHER             -> deploy.source = "redis"

\* A failed card read behind GetMeta gives the default meta and no error; any
\* other failure makes scoring.go fall back.
Failed(d) ==
  CASE d = "auth"     -> DefaultMeta.auth
    [] d = "protocol" -> ProtocolCompat(DefaultMeta.interfaces,
                                        Protocols(deploy.source, deploy.wrapped))
    [] d = "geo"      -> GeoPenalty(DefaultMeta.region, req.region)
    [] OTHER          -> Fallback[d]

-----------------------------------------------------------------------------
(* The data change while the call collects; what happens before it is in     *)
(* Starts, and nothing is read after it.                                     *)

Spend == events < MaxEvents /\ events' = events + 1

\* No more outcomes than tasks; use of a machine, capacity and authentication
\* within their limits; no protocol listed twice.
Proper(x) ==
  /\ \A n \in {x.successes, x.errors} : None \in {n, Tasks(x)} \/ n <= Tasks(x)
  /\ x.load # None => /\ {x.load.cpu, x.load.memory} \subseteq 0..4
                      /\ x.load.active <= x.load.capacity
  /\ x.meta # None => x.meta.auth \in 0..One /\ IsInjective(x.meta.interfaces)

\* The window of the last tasks only grows and fills.
Regular(x, y) ==
  /\ Proper(x) /\ Proper(y)
  /\ x.tasks # None => y.tasks # None /\ x.tasks <= y.tasks

Change(a, y) ==
  /\ phase = "collect" /\ Spend
  /\ data' = [data EXCEPT ![a] = y]
  /\ shown' = [shown EXCEPT ![a] = @ \cup {y}]
  /\ torn' = IF half # None /\ Head(todo) = a THEN torn \cup {a} ELSE torn
  /\ regular' = IF Regular(data[a], y) THEN regular ELSE regular \ {a}
  /\ UNCHANGED <<deploy, req, agentIDs, callVars, lost, rankVars>>

Settable ==
  {"card", "load"}
    \cup (IF deploy.source = "nil" THEN {}
          ELSE {"latencies", "mbps", "total", "trust"})
    \cup (IF deploy.source = "memory" THEN {"errors", "meta"} ELSE {})

\* The setters of MemoryDataSource, the external writers of the Redis keys, and
\* the registry.  The engine of wau-trust keeps scores within 0..1.
Set(a) ==
  \E f \in Settable : \E v \in Domain[f] \ {data[a][f]} :
    /\ f = "trust" /\ deploy.wrapped => v \in (0..One) \cup {None}
    /\ Change(a, [data[a] EXCEPT ![f] = v])

\* SetSuccess overwrites the count of tasks that SetTotalTasks sets.
SetSuccess(a) ==
  /\ deploy.source = "memory"
  /\ \E s \in Domain["successes"] \ {None}, t \in Domain["total"] \ {None} :
       s <= t /\ Change(a, [data[a] EXCEPT !.successes = s, !.total = t])

Count(n) == IF n = None THEN 0 ELSE n

\* The writer of the last-100 keys counts a task, and its outcome later; in a
\* full window the oldest outcome drops out.
BeginTask(a) ==
  /\ deploy.source = "redis"
  /\ LET x == data[a] IN
     \/ /\ Count(x.tasks) < Window
        /\ Change(a, [x EXCEPT !.tasks = Count(@) + 1])
     \/ /\ Count(x.tasks) = Window /\ Count(x.successes) > 0
        /\ Change(a, [x EXCEPT !.successes = @ - 1])
     \/ /\ Count(x.tasks) = Window /\ Count(x.errors) > 0
        /\ Change(a, [x EXCEPT !.errors = @ - 1])

EndTask(a) ==
  /\ deploy.source = "redis"
  /\ LET x == data[a] IN
     /\ Count(x.successes) + Count(x.errors) < Count(x.tasks)
     /\ \/ Change(a, [x EXCEPT !.successes = Count(@) + 1])
        \/ Change(a, [x EXCEPT !.errors = Count(@) + 1])

\* The keys expire.
Expire(a) ==
  /\ deploy.source = "redis" /\ data[a].tasks # None
  /\ Change(a, [data[a] EXCEPT !.successes = None, !.errors = None,
                               !.tasks = None])

Environment == \E a \in Agents : \/ Set(a) \/ SetSuccess(a)
                                 \/ BeginTask(a) \/ EndTask(a) \/ Expire(a)

-----------------------------------------------------------------------------
(* The call. *)

Init ==
  /\ RankInit
  /\ \E c \in Calls : deploy = c[1] /\ req = c[2]
  /\ agentIDs \in Lists /\ todo = agentIDs
  /\ at = 1 /\ half = None /\ dims = <<>>
  /\ data \in Starts /\ events = 0
  /\ shown = [a \in Agents |-> {data[a]}]
  /\ lost = {} /\ torn = {} /\ regular = {a \in Agents : Proper(data[a])}

Unchanging == UNCHANGED <<deploy, req, agentIDs, data, shown, regular>>

Call == Begin /\ Unchanging /\ UNCHANGED <<callVars, events, lost, torn>>

\* The read that is next, of the agent whose turn it is.
Reading(s) == phase = "collect" /\ todo # <<>> /\ Steps[at] = s
This       == Head(todo)
Seen       == data[This]

NextAgent == todo' = Tail(todo) /\ at' = 1 /\ half' = None /\ dims' = <<>>

Put(new) == /\ dims' = [d \in DOMAIN dims \cup DOMAIN new |->
                          IF d \in DOMAIN new THEN new[d] ELSE dims[d]]
            /\ at' = at + 1 /\ half' = None
            /\ UNCHANGED <<todo, torn, rankVars>>

\* A registry without the card answers with an error, or with nil.
Missing(d) == /\ d \in OfRegistry \cup {"card"} /\ Seen.card = None
              /\ d # "card" => deploy.carded

Die == /\ \E d \in OfRegistry \cup {"card"} : Reading(d) /\ Missing(d)
       /\ Panic
       /\ Unchanging /\ UNCHANGED <<callVars, events, lost, torn>>

\* Mutant: the error is ignored, and AgentScore{} taken.
GetAgentEmpty ==
  /\ Reading("card") /\ Seen.card = None
  /\ scores' = Append(scores, [agent |-> None, total |-> 0, rank |-> 0])
  /\ NextAgent
  /\ Unchanging /\ UNCHANGED <<events, lost, torn, phase, i, j, gathered>>

\* Mutant: an agent without its card ends the loop.
GetAgentBreaks ==
  /\ Reading("card")
  /\ \/ /\ Seen.card # None
        /\ Put([skill   |-> SkillMatch(Seen.card.skills, req.required),
                network |-> NetworkPenalty(Seen.card, req)])
        /\ UNCHANGED <<events, lost>>
     \/ /\ IF Seen.card = None THEN UNCHANGED <<events, lost>>
           ELSE Spend /\ lost' = lost \cup {<<This, "card">>}
        /\ todo' = <<>> /\ UNCHANGED <<at, half, dims, torn, rankVars>>
  /\ Unchanging

\* Without its card an agent is left out.
GetAgent ==
  /\ Reading("card")
  /\ \/ /\ Seen.card # None
        /\ Put([skill   |-> SkillMatch(Seen.card.skills, req.required),
                network |-> NetworkPenalty(Seen.card, req)])
        /\ UNCHANGED <<events, lost>>
     \/ /\ IF Seen.card = None THEN UNCHANGED <<events, lost>>
           ELSE Spend /\ lost' = lost \cup {<<This, "card">>}
        /\ NextAgent /\ UNCHANGED <<torn, rankVars>>
  /\ Unchanging

\* The error of GetLoad is dropped.
GetLoad ==
  /\ Reading("load")
  /\ \E l \in {Seen.load, None} :
       /\ IF l = Seen.load THEN UNCHANGED <<events, lost>>
          ELSE Spend /\ lost' = lost \cup {<<This, "load">>}
       /\ Put([health |-> HealthScore(l), load |-> LoadScore(l)])
  /\ Unchanging

Rates == {"success", "errors"}

Score(d, v) == Put([e \in {d} |-> v])

\* A dimension that one read answers.
Read(d) ==
  /\ Reading(d) /\ (d \in Rates => deploy.source # "redis")
  /\ \/ /\ Score(d, IF deploy.source = "nil" THEN Fallback[d] ELSE Value(d, Seen))
        /\ UNCHANGED <<events, lost>>
     \/ /\ CanFail(d, Seen) /\ Spend
        /\ Score(d, Failed(d)) /\ lost' = lost \cup {<<This, d>>}
  /\ Unchanging

Outcomes(d, x) == IF d = "success" THEN x.successes ELSE x.errors

Rate(d, n, t) == IF d = "success" THEN SuccessScore(n, t) ELSE ErrorScore(n, t)

Kept(n) == half' = n /\ UNCHANGED <<todo, at, dims, events, lost, torn, rankVars>>

\* Mutant: the tasks are asked for first.
TwoGetsTasksFirst(d) ==
  /\ Reading(d) /\ deploy.source = "redis"
  /\ \/ half = None /\ Seen.tasks # None /\ Kept(Seen.tasks)
     \/ /\ half # None \/ Seen.tasks = None
        /\ Score(d, Rate(d, Outcomes(d, Seen), half)) /\ UNCHANGED <<events, lost>>
  /\ Unchanging

\* Redis: the outcomes, then the tasks.  An error of the second GET is dropped
\* and counts as no tasks.
TwoGets(d) ==
  /\ Reading(d) /\ deploy.source = "redis"
  /\ \/ half = None /\ Outcomes(d, Seen) # None /\ Kept(Outcomes(d, Seen))
     \/ /\ half # None \/ Outcomes(d, Seen) = None
        /\ Score(d, Rate(d, half, Seen.tasks)) /\ UNCHANGED <<events, lost>>
     \/ Spend /\ Score(d, Failed(d)) /\ lost' = lost \cup {<<This, d>>}
  /\ Unchanging

Total ==
  LET points(d) == dims[d] * Weights[d]
  IN  points("skill") + points("trust") + points("health") + points("latency")
        + points("load") + points("success") + points("network")
        + points("bandwidth") + points("auth") + points("protocol")
        + points("history") + points("errors") + points("availability")
        + points("version") + points("geo")

AddScore ==
  /\ Reading("add")
  /\ Collect(This, Total) /\ NextAgent
  /\ Unchanging /\ UNCHANGED <<events, lost, torn>>

\* The two loops and the ranks: nothing is read any more.
Sort ==
  /\ todo = <<>>
  /\ StartSort \/ Compare \/ NextRow \/ SetRanks
  /\ Unchanging /\ UNCHANGED <<callVars, events, lost, torn>>

Next == \/ Environment \/ Call \/ Die \/ GetAgent \/ GetLoad
        \/ \E d \in DOMAIN Fallback : Read(d)
        \/ \E d \in Rates : TwoGets(d)
        \/ AddScore \/ Sort

Spec == Init /\ [][Next]_vars

\* Mutant: the last of those with the most points.
PickWakeTargetLast(candidates) ==
  LET best[k \in DOMAIN candidates] ==
        IF k > 1 /\ candidates[k].total < best[k - 1].total THEN best[k - 1]
        ELSE candidates[k]
  IN  best[Len(candidates)]

\* sleep_policy.go: the first of the candidates with the most points; best[k]
\* is the best of the first k.
PickWakeTarget(candidates) ==
  LET best[k \in DOMAIN candidates] ==
        IF k > 1 /\ candidates[k].total <= best[k - 1].total THEN best[k - 1]
        ELSE candidates[k]
  IN  best[Len(candidates)]

-----------------------------------------------------------------------------
(* Properties. *)

TypeOK ==
  /\ RankType
  /\ <<deploy, req>> \in Calls
  /\ agentIDs \in Seq(Agents) /\ todo \in Seq(Agents) /\ at \in DOMAIN Steps
  /\ half \in Nat \cup {None}
  /\ DOMAIN dims \subseteq DOMAIN Weights
  /\ DOMAIN data = Agents /\ \A a \in Agents : Datum(data[a])
  /\ events \in 0..MaxEvents
  /\ DOMAIN shown = Agents /\ \A a \in Agents : data[a] \in shown[a]
  /\ lost \subseteq Agents \X (DOMAIN Weights \cup {"card"})
  /\ torn \subseteq Agents /\ regular \subseteq Agents

\* Whether agent a could be scored is a matter of its own card.
HadCard(a)    == \E x \in shown[a] : x.card # None
MissedCard(a) == <<a, "card">> \in lost \/ \E x \in shown[a] : x.card = None

\* No agent that was asked for gets lost on the way into the answer: one that is
\* not ranked was itself without its card at some moment of the call or had the
\* read of it fail, whatever became of the agents before it and of its other
\* reads; and none is ranked that was not asked for or never had a card
\* (scoring.go:66-73, 93-99).
ScoredAreRanked ==
  phase \in {"sort", "done"} =>
    LET ranked == {scores[k].agent : k \in DOMAIN scores} IN
    /\ \A a \in Range(agentIDs) \ ranked : MissedCard(a)
    /\ \A a \in ranked : a \in Range(agentIDs) /\ HadCard(a)

\* Every dimension lies within 0..1 and every total with it, whatever is written
\* between two reads, as long as the counts of an agent add up and do not expire
\* meanwhile and its load is within its limits; a rate is asked for in two GETs,
\* its outcomes first (datasource_redis.go:96-103), and trust and uptime are
\* clamped.
ScoresInRange ==
  /\ phase = "collect" /\ todo # <<>> /\ This \in regular
       => \A d \in DOMAIN dims : dims[d] \in 0..One
  /\ \A k \in DOMAIN scores :
       scores[k].agent \in regular => scores[k].total \in 0..(1000 * One)

\* Data of one kind, the more the better.
AtLeast(m, n) == IF None \in {m, n} THEN m = n ELSE n <= m

AsFree(l, m) ==
  IF None \in {l, m} THEN l = m
  ELSE /\ l.cpu <= m.cpu /\ l.memory <= m.memory
       /\ l.capacity > 0 /\ m.capacity > 0
       /\ l.active * m.capacity <= m.active * l.capacity

AsFast(v, w) ==
  IF None \in {v, w} THEN v = w ELSE Percentile99(v) <= Percentile99(w)

AsOften(m, s, n, t) ==
  IF None \in {m, s, n, t} THEN m = n /\ s = t
  ELSE (s = 0 <=> t = 0) /\ n * s <= m * t

AsGood(x, y) ==
  /\ None \notin {x.card, y.card}
  /\ y.card.skills \subseteq x.card.skills
  /\ \A f \in {"universe", "region", "version", "first"} : x.card[f] = y.card[f]
  /\ y.card.last <= x.card.last
  /\ AsFree(x.load, y.load) /\ AsFast(x.latencies, y.latencies)
  /\ AsOften(x.successes, Tasks(x), y.successes, Tasks(y))
  /\ AsOften(y.errors, Tasks(y), x.errors, Tasks(x))
  /\ AtLeast(x.mbps, y.mbps) /\ AtLeast(x.total, y.total)
  /\ AtLeast(x.trust, y.trust) /\ x.meta = y.meta

\* Data that were read as they stood.
Untroubled(a) == a \notin torn /\ \A l \in lost : l[1] # a

\* An agent whose data were at least as good as another's all the time, with no
\* read failed and none torn, has no fewer points: whatever the fifteen
\* curves, their weights and the order of the reads do to the numbers.
BetterNotLower ==
  \A p, q \in DOMAIN scores :
    LET a == scores[p].agent  b == scores[q].agent IN
    /\ Untroubled(a) /\ Untroubled(b)
    /\ \A x \in shown[a], y \in shown[b] : AsGood(x, y)
    => scores[q].total <= scores[p].total

\* An agent nothing is known of but its card.
Blank(x) == [f \in Fields |-> IF f = "card" THEN x.card ELSE None]

\* A read that fails costs and earns what having no data does: scoring.go and
\* both data sources agree on what is neutral.  Availability is the exception:
\* unknown it is 0.5, not readable 1.0.
LostIsUnknown ==
  phase = "collect" /\ todo # <<>> =>
    \A d \in DOMAIN dims \cap DOMAIN Fallback :
      <<This, d>> \in lost /\ d \notin OfRegistry \cup OfMeta
        => dims[d] = Value(d, Blank(Seen))

\* Of any of the ranked agents that sleep, in rank order, the one to be woken is
\* the best-ranked; in any other order it has as many points.
WakesBestRanked ==
  phase = "done" =>
    \A S \in (SUBSET DOMAIN scores) \ {{}} : \A o \in SetToSeqs(S) :
      LET woken == PickWakeTarget([k \in DOMAIN o |-> scores[o[k]]])
          best  == CHOOSE k \in S : \A l \in S : k <= l
      IN /\ woken.total = scores[best].total
         /\ (\A k, l \in DOMAIN o : k < l => o[k] < o[l]) => woken = scores[best]

=============================================================================
