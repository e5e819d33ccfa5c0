------------------------------- MODULE Dispatch -------------------------------
(***************************************************************************)
(* Scheduler.Schedule, ScheduleSimple, pickBest and RetryTask of           *)
(* scheduler/scheduler.go, with the two filters pickBest calls             *)
(* (SleepPolicy.FilterAsleep and ColdRoutingPolicy.SelectCold).            *)
(*                                                                         *)
(* A call holds no lock from one read to the next: the registry, the trust *)
(* engine, the policies and the scoring engine may all change in between,  *)
(* so every read is a step of its own.                                     *)
(***************************************************************************)
EXTENDS Naturals

CONSTANTS
  Agents,      \* agent IDs of the registry
  NoAgent,     \* the empty agent ID ""
  Callers,     \* goroutines calling the scheduler, each with its own task
  Skilled,     \* agents whose SkillMatch reaches SkillFloor
  Scores,      \* values of TotalScore
  Engines,     \* scoring engines the deployment passes around
  Reads,       \* outcomes of one trust read
  MaxRetry,    \* largest maxRetry passed to RetryTask
  MaxChanges   \* bound: environment changes while a call runs

\* with a DataSource, which knows who sleeps; without one; a nil pointer
EngineKinds == {"trust", "plain", "nil"}

ASSUME AgentsAssumption ==
  NoAgent \notin Agents /\ Skilled \subseteq Agents
ASSUME DomainsAssumption ==
  /\ Scores \subseteq Nat /\ Scores # {}
  /\ Engines \subseteq EngineKinds
  /\ Reads \subseteq {"ok", "error"}
  /\ MaxRetry \in Nat /\ MaxChanges \in Nat

VARIABLES
  online, asleep, cold,      \* the registry and the trust engine
  coldPolicy, sleepPolicy,   \* FALSE is nil
  scoring,                   \* s.scoring
  task,                      \* req.Task of each caller
  pc, loc,                   \* where each call is, and its local variables
  changes,                   \* environment changes since the last call began
  seen                       \* history: what was true at some point of the call

env  == <<online, asleep, cold, coldPolicy, sleepPolicy, scoring>>
vars == <<env, task, pc, loc, changes, seen>>

Kinds   == {"Schedule", "NilTask", "Simple"}
Running == {"list", "score", "pick", "sleep", "filter", "explore", "cold",
            "assign"}

Locals == [kind  : Kinds,
           total : [Agents -> Scores],    \* TotalScore of each agent
           pool  : SUBSET Agents,         \* the slice scores
           todo  : SUBSET Agents,         \* not yet visited by the loop
           found : SUBSET Agents,         \* the slice eligible
           coldPolicy : BOOLEAN, sleepPolicy : BOOLEAN,  \* pickBest's copies
           engine : EngineKinds,          \* the engine a filter works with
           best  : Agents \cup {NoAgent},
           route : {"none", "warm", "cold"}]

\* History: what was true at some point of the call.
Notes == [awake : SUBSET Agents, asleep : SUBSET Agents, cold : SUBSET Agents,
          listed : SUBSET Agents, engines : SUBSET EngineKinds,
          filter : SUBSET BOOLEAN, errors : SUBSET Agents,
          scored : SUBSET Agents]

NoScores == [a \in Agents |-> CHOOSE x \in Scores : TRUE]

Fresh(k) == [kind |-> k, total |-> NoScores, pool |-> {}, todo |-> {},
             found |-> {}, coldPolicy |-> FALSE, sleepPolicy |-> FALSE,
             engine |-> "plain", best |-> NoAgent, route |-> "none"]

\* What the environment shows at this moment.
Sight == [awake |-> Agents \ asleep, asleep |-> asleep, cold |-> cold,
          listed |-> online, engines |-> {scoring}, filter |-> {sleepPolicy},
          errors |-> {}, scored |-> {}]

NothingSeen == [awake |-> {}, asleep |-> {}, cold |-> {}, listed |-> {},
                engines |-> {}, filter |-> {}, errors |-> {}, scored |-> {}]

Merge(x, y) ==
  [awake |-> x.awake \cup y.awake, asleep |-> x.asleep \cup y.asleep,
   cold |-> x.cold \cup y.cold, listed |-> x.listed \cup y.listed,
   engines |-> x.engines \cup y.engines, filter |-> x.filter \cup y.filter,
   errors |-> x.errors, scored |-> x.scored]

TypeOK ==
  /\ online \subseteq Agents /\ asleep \subseteq Agents /\ cold \subseteq Agents
  /\ coldPolicy \in BOOLEAN /\ sleepPolicy \in BOOLEAN
  /\ scoring \in EngineKinds
  /\ task \in [Callers -> [status : {"pending", "dispatched"},
                           agent : Agents \cup {NoAgent}, retries : Nat]]
  /\ pc \in [Callers -> Running \cup {"idle", "panicked"}]
  /\ loc \in [Callers -> Locals]
  /\ changes \in Nat
  /\ seen \in [Callers -> Notes]

Init ==
  /\ online = {} /\ asleep = {} /\ cold = Agents
  /\ coldPolicy \in BOOLEAN /\ sleepPolicy \in BOOLEAN
  /\ scoring \in Engines \ {"nil"}
  /\ task = [c \in Callers |->
               [status |-> "pending", agent |-> NoAgent, retries |-> 0]]
  /\ pc = [c \in Callers |-> "idle"]
  /\ loc = [c \in Callers |-> Fresh("Schedule")]
  /\ changes = 0
  /\ seen = [c \in Callers |-> NothingSeen]

-----------------------------------------------------------------------------
(* The environment: each change is added to what the running calls saw. *)

Observe ==
  /\ \/ (\A c \in Callers : pc[c] \notin Running) /\ UNCHANGED changes
     \/ changes < MaxChanges /\ changes' = changes + 1
  /\ seen' = [c \in Callers |-> IF pc[c] \in Running
                                THEN Merge(seen[c], Sight') ELSE seen[c]]
  /\ UNCHANGED <<task, pc, loc>>

Toggle(S, a) == IF a \in S THEN S \ {a} ELSE S \cup {a}

\* A first heartbeat, or one that did not come.
Heartbeat ==
  /\ \E a \in Agents : online' = Toggle(online, a)
  /\ UNCHANGED <<asleep, cold, coldPolicy, sleepPolicy, scoring>>
  /\ Observe

\* Engine.Sleep and Engine.Wake.
SleepWake ==
  /\ \E a \in Agents : asleep' = Toggle(asleep, a)
  /\ UNCHANGED <<online, cold, coldPolicy, sleepPolicy, scoring>>
  /\ Observe

\* Engine.RecordSuccess and RecordFailure: the agent has a trust history.
Record ==
  /\ \E a \in cold : cold' = cold \ {a}
  /\ UNCHANGED <<online, asleep, coldPolicy, sleepPolicy, scoring>>
  /\ Observe

\* Engine.Reset forgets the history and wakes the agent.
Reset ==
  /\ \E a \in Agents : cold' = cold \cup {a} /\ asleep' = asleep \ {a}
  /\ UNCHANGED <<online, coldPolicy, sleepPolicy, scoring>>
  /\ Observe

SetColdPolicy ==
  /\ coldPolicy' = ~coldPolicy
  /\ UNCHANGED <<online, asleep, cold, sleepPolicy, scoring>>
  /\ Observe

SetSleepPolicy ==
  /\ sleepPolicy' = ~sleepPolicy
  /\ UNCHANGED <<online, asleep, cold, coldPolicy, scoring>>
  /\ Observe

\* The pointer is stored as it is, nil included.
SetScoringEngine ==
  /\ \E e \in Engines : scoring' = e
  /\ UNCHANGED <<online, asleep, cold, coldPolicy, sleepPolicy>>
  /\ Observe

Environment == \/ Heartbeat \/ SleepWake \/ Record \/ Reset
               \/ SetColdPolicy \/ SetSleepPolicy \/ SetScoringEngine

-----------------------------------------------------------------------------
(* One call. *)

Goto(c, l) == pc' = [pc EXCEPT ![c] = l]

\* The local variables, and what was noted about the call, go with it.
End(c, l) ==
  /\ Goto(c, l)
  /\ loc' = [loc EXCEPT ![c] = Fresh("Schedule")]
  /\ seen' = [seen EXCEPT ![c] = NothingSeen]
  /\ changes' = 0

Continue == UNCHANGED <<changes, seen>>

\* Highest-ranked agents of S: the order of equal scores is left open.
Top(c, S) ==
  {a \in S : \A b \in S : loc[c].total[b] <= loc[c].total[a]}

\* Mutant: the first of a slice nobody sorted.
PickWarmUnsorted(c) ==
  /\ \E a \in loc[c].pool :
       loc' = [loc EXCEPT ![c].best = a, ![c].route = "warm"]
  /\ Goto(c, "assign")

\* scores[0] of the slice that is left.
PickWarm(c) ==
  /\ \E a \in Top(c, loc[c].pool) :
       loc' = [loc EXCEPT ![c].best = a, ![c].route = "warm"]
  /\ Goto(c, "assign")

Call(c) ==
  /\ pc[c] = "idle"
  /\ Goto(c, "list")
  /\ \E k \in Kinds : loc' = [loc EXCEPT ![c] = Fresh(k)]
  /\ seen' = [seen EXCEPT ![c] = Sight]
  /\ UNCHANGED <<env, task, changes>>

\* GetOnlineAgents: an error or an empty list ends the call.
List(c) ==
  /\ pc[c] = "list"
  /\ \/ End(c, "idle")
     \/ /\ online # {}
        /\ loc' = [loc EXCEPT ![c].pool = online]
        /\ Goto(c, "score") /\ Continue
  /\ UNCHANGED <<env, task>>

\* ScoreAgents: s.scoring is read outside s.mu; an agent whose card cannot be
\* read is skipped; without any agent left the call fails.  A card that is gone
\* may come back as nil without an error, and scoreAgent reads its skills.
CardGone(c) == ~(loc[c].pool \subseteq online)

Score(c) ==
  /\ pc[c] = "score"
  /\ \/ (scoring = "nil" \/ CardGone(c)) /\ End(c, "panicked")
     \/ scoring # "nil" /\ End(c, "idle")
     \/ /\ scoring # "nil"
        /\ \E S \in (SUBSET loc[c].pool) \ {{}}, f \in [Agents -> Scores] :
             /\ loc' = [loc EXCEPT ![c].total = f, ![c].pool = S]
             /\ seen' = [seen EXCEPT ![c].scored = S]
        /\ Goto(c, "pick")
        /\ UNCHANGED changes
  /\ UNCHANGED <<env, task>>

\* Mutant: with a cold policy the sleep filter is skipped.
PickColdFirst(c) ==
  /\ pc[c] = "pick"
  /\ loc' = [loc EXCEPT ![c].coldPolicy = coldPolicy,
                        ![c].sleepPolicy = sleepPolicy]
  /\ Goto(c, IF sleepPolicy /\ ~coldPolicy THEN "sleep" ELSE "explore")
  /\ Continue /\ UNCHANGED <<env, task>>

\* pickBest copies both policies under one read lock.
Pick(c) ==
  /\ pc[c] = "pick"
  /\ loc' = [loc EXCEPT ![c].coldPolicy = coldPolicy,
                        ![c].sleepPolicy = sleepPolicy]
  /\ Goto(c, IF sleepPolicy THEN "sleep" ELSE "explore")
  /\ Continue /\ UNCHANGED <<env, task>>

\* FilterAsleep works with the s.scoring of the moment it is called; a nil
\* engine returns the candidates unchanged.
EnterFilter(c) ==
  /\ pc[c] = "sleep"
  /\ \/ scoring = "nil" /\ Goto(c, "explore") /\ UNCHANGED loc
     \/ /\ scoring # "nil"
        /\ loc' = [loc EXCEPT ![c].engine = scoring, ![c].todo = loc[c].pool]
        /\ Goto(c, "filter")
  /\ Continue /\ UNCHANGED <<env, task>>

\* Only an engine with a DataSource can fail to read.
Outcomes(c) == IF loc[c].engine = "trust" THEN Reads ELSE {"ok"}

\* Mutant: a failed read drops the candidate.
DroppedOnError(c, a, r) == r = "error" \/ (loc[c].engine = "trust" /\ a \in asleep)

\* IsAsleep of one candidate; a failed read keeps it.
Dropped(c, a, r) == r = "ok" /\ loc[c].engine = "trust" /\ a \in asleep

FilterOne(c) ==
  /\ pc[c] = "filter"
  /\ \E a \in Top(c, loc[c].todo), r \in Outcomes(c) :
       /\ loc' = [loc EXCEPT ![c].todo = loc[c].todo \ {a},
                             ![c].pool = IF Dropped(c, a, r)
                                         THEN loc[c].pool \ {a} ELSE loc[c].pool]
       /\ seen' = [seen EXCEPT ![c].errors =
                     IF r = "error" THEN seen[c].errors \cup {a}
                                    ELSE seen[c].errors]
  /\ UNCHANGED <<env, task, pc, changes>>

\* Mutant: the loop waits for a candidate when none is left.
FilterEndWaits(c) ==
  /\ pc[c] = "filter" /\ loc[c].todo = {} /\ loc[c].pool # {}
  /\ Goto(c, "explore")
  /\ Continue /\ UNCHANGED <<env, task, loc>>

\* With everyone asleep pickBest returns AgentScore{}, and no error.
FilterEnd(c) ==
  /\ pc[c] = "filter" /\ loc[c].todo = {}
  /\ Goto(c, IF loc[c].pool = {} THEN "assign" ELSE "explore")
  /\ Continue /\ UNCHANGED <<env, task, loc>>

\* No cold policy, or ShouldExplore draws warm.
Warm(c) ==
  /\ pc[c] = "explore"
  /\ PickWarm(c)
  /\ Continue /\ UNCHANGED <<env, task>>

\* SelectCold works with the s.scoring of the moment it is called; IsCold on a
\* nil engine panics.
EnterCold(c) ==
  /\ pc[c] = "explore" /\ loc[c].coldPolicy
  /\ \/ scoring = "nil" /\ End(c, "panicked")
     \/ /\ scoring # "nil"
        /\ loc' = [loc EXCEPT ![c].engine = scoring, ![c].todo = loc[c].pool]
        /\ Goto(c, "cold") /\ Continue
  /\ UNCHANGED <<env, task>>

\* Mutant: no skill floor.
EligibleUnskilled(c, a, r) == r = "ok" /\ loc[c].engine = "trust" /\ a \in cold

\* IsCold of one candidate; a failed read skips it.
Eligible(c, a, r) ==
  r = "ok" /\ loc[c].engine = "trust" /\ a \in cold /\ a \in Skilled

ColdOne(c) ==
  /\ pc[c] = "cold"
  /\ \E a \in Top(c, loc[c].todo), r \in Outcomes(c) :
       loc' = [loc EXCEPT ![c].todo = loc[c].todo \ {a},
                          ![c].found = IF Eligible(c, a, r)
                                       THEN loc[c].found \cup {a}
                                       ELSE loc[c].found]
  /\ Continue /\ UNCHANGED <<env, task, pc>>

\* Mutant: the index is taken into the candidates, not into eligible.
ColdEndAny(c) ==
  /\ pc[c] = "cold" /\ loc[c].todo = {}
  /\ \/ loc[c].found = {} /\ PickWarm(c)
     \/ /\ loc[c].found # {}
        /\ \E a \in loc[c].pool :
             loc' = [loc EXCEPT ![c].best = a, ![c].route = "cold"]
        /\ Goto(c, "assign")
  /\ Continue /\ UNCHANGED <<env, task>>

\* eligible[hash % len], or the warm pool when nobody is eligible.
ColdEnd(c) ==
  /\ pc[c] = "cold" /\ loc[c].todo = {}
  /\ \/ loc[c].found = {} /\ PickWarm(c)
     \/ /\ \E a \in loc[c].found :
             loc' = [loc EXCEPT ![c].best = a, ![c].route = "cold"]
        /\ Goto(c, "assign")
  /\ Continue /\ UNCHANGED <<env, task>>

\* Mutant: the task gets the status of the running ones.
AssignRunning(c) ==
  /\ pc[c] = "assign"
  /\ task' = [task EXCEPT ![c].status = "running", ![c].agent = loc[c].best]
  /\ End(c, "idle")
  /\ UNCHANGED env

\* The tail of Schedule.  ScheduleSimple has no task; a Schedule without a
\* task reaches the log line that dereferences req.Task.
Assign(c) ==
  /\ pc[c] = "assign"
  /\ \/ /\ loc[c].kind = "Schedule"
        /\ task' = [task EXCEPT ![c].status = "dispatched",
                                ![c].agent = loc[c].best]
        /\ End(c, "idle")
     \/ loc[c].kind = "Simple" /\ End(c, "idle") /\ UNCHANGED task
     \/ loc[c].kind = "NilTask" /\ End(c, "panicked") /\ UNCHANGED task
  /\ UNCHANGED env

Step(c) == \/ List(c) \/ Score(c) \/ Pick(c) \/ EnterFilter(c)
           \/ FilterOne(c) \/ FilterEnd(c) \/ Warm(c) \/ EnterCold(c)
           \/ ColdOne(c) \/ ColdEnd(c) \/ Assign(c)

\* Mutant: the agent of the last attempt stays.
RetryTaskKeepsAgent(c) ==
  /\ pc[c] = "idle"
  /\ \E m \in 0..MaxRetry : task[c].retries < m
  /\ task' = [task EXCEPT ![c].status = "pending", ![c].retries = @ + 1]
  /\ Continue /\ UNCHANGED <<env, pc, loc>>

\* RetryTask, between two calls; at the limit it changes nothing.
RetryTask(c) ==
  /\ pc[c] = "idle"
  /\ \E m \in 0..MaxRetry : task[c].retries < m
  /\ task' = [task EXCEPT ![c] = [status  |-> "pending",
                                  agent   |-> NoAgent,
                                  retries |-> task[c].retries + 1]]
  /\ Continue /\ UNCHANGED <<env, pc, loc>>

Next == \/ Environment
        \/ \E c \in Callers : Call(c) \/ Step(c) \/ RetryTask(c)

Spec == Init /\ [][Next]_vars

\* A goroutine that can run is eventually scheduled; callers and the
\* environment owe nothing.
FairSpec == Spec /\ \A c \in Callers : WF_vars(Step(c))

-----------------------------------------------------------------------------
(* Properties. *)

Settled(c) == pc[c] = "assign"
Routed(c)  == Settled(c) /\ loc[c].best # NoAgent

\* What held from the first read of the call to its last.
FilteredThroughout(c) == FALSE \notin seen[c].filter
TrustThroughout(c)    == seen[c].engines = {"trust"}

\* An agent asleep for the whole call is not routed to, if the sleep policy
\* was set and the engine wired to wau-trust for the whole call and its
\* IsAsleep read did not fail (FilterAsleep precedes both choices of pickBest).
AsleepNeverRouted ==
  \A c \in Callers :
    Routed(c) /\ FilteredThroughout(c) /\ TrustThroughout(c)
      => loc[c].best \in seen[c].awake \cup seen[c].errors

\* A warm choice is the best-ranked scored agent, but for those that were
\* asleep at some moment of the call under a sleep policy.
WarmIsBestAwake ==
  \A c \in Callers :
    Settled(c) /\ loc[c].route = "warm"
      => \A a \in seen[c].scored :
           loc[c].total[a] > loc[c].total[loc[c].best]
             => a \in seen[c].asleep /\ TRUE \in seen[c].filter

\* A cold choice was online, scored, and cold at some moment of the call, and
\* reaches the skill floor (SelectCold).
ColdRouteJustified ==
  \A c \in Callers :
    Settled(c) /\ loc[c].route = "cold"
      => loc[c].best \in seen[c].cold \cap seen[c].listed \cap seen[c].scored
                         \cap Skilled

\* A call that ends without an agent and without an error met a sleep policy,
\* and each scored agent was asleep at some moment of the call.
EmptyOnlyIfAllSlept ==
  \A c \in Callers :
    Settled(c) /\ loc[c].best = NoAgent
      => TRUE \in seen[c].filter /\ seen[c].scored \subseteq seen[c].asleep

\* Every call comes to an end, whatever changes meanwhile.
CallEnds == \A c \in Callers : pc[c] = "list" ~> pc[c] \in {"idle", "panicked"}

\* A call seen from outside: it is under way or not, and what it met.
Promise ==
  INSTANCE Dispatcher
    WITH sleepFilter <- sleepPolicy,
         stage       <- [c \in Callers |-> IF pc[c] \in Running THEN "busy"
                                           ELSE pc[c]],
         met         <- [c \in Callers |-> seen[c].listed],
         filters     <- [c \in Callers |-> seen[c].filter]

\* However its reads fall, a call does to its task in one step what the caller
\* is promised: nothing, or an agent that was online during the call, and
\* nobody only under a sleep policy; a retry makes the task as good as new.
KeepsPromise == Promise!Spec

\* What the four properties rest on, by the part of the call it is about.
\* A running call has seen the present moment.
Noted(c) ==
  pc[c] \in Running =>
    /\ Agents \ asleep \subseteq seen[c].awake
    /\ asleep \subseteq seen[c].asleep /\ cold \subseteq seen[c].cold
    /\ online \subseteq seen[c].listed
    /\ scoring \in seen[c].engines /\ sleepPolicy \in seen[c].filter

\* The slices of a call shrink from the scored agents, and only sleepers go.
Slices(c) ==
  /\ pc[c] = "score" => loc[c].pool \subseteq seen[c].listed
  /\ pc[c] \in Running \ {"list", "score"} =>
       /\ loc[c].pool \subseteq seen[c].scored
       /\ seen[c].scored \subseteq seen[c].listed
       /\ \A a \in seen[c].scored \ loc[c].pool :
            a \in seen[c].asleep /\ TRUE \in seen[c].filter
  /\ loc[c].todo \subseteq loc[c].pool
  /\ pc[c] \notin {"filter", "cold"} => loc[c].todo = {}
  /\ pc[c] \notin {"cold", "assign"} => loc[c].found = {}
  /\ loc[c].found \subseteq loc[c].pool \cap seen[c].cold \cap Skilled

\* Nothing excuses an agent of the pool from having been awake but a failed
\* read, a missing policy or another engine.
Screened(c, a) ==
  \/ a \in seen[c].awake \cup seen[c].errors
  \/ FALSE \in seen[c].filter
  \/ \E e \in seen[c].engines : e # "trust"

Filtering(c) ==
  /\ pc[c] \in {"sleep", "filter"} => TRUE \in seen[c].filter
  /\ pc[c] = "filter" =>
       /\ loc[c].engine \in seen[c].engines
       /\ \A a \in loc[c].pool \ loc[c].todo : Screened(c, a)
  /\ pc[c] \in {"explore", "cold", "assign"} =>
       \A a \in loc[c].pool : Screened(c, a)

Choice(c) ==
  /\ pc[c] # "assign" => loc[c].best = NoAgent /\ loc[c].route = "none"
  /\ pc[c] = "assign" =>
       /\ loc[c].best = NoAgent
            => loc[c].pool = {} /\ TRUE \in seen[c].filter
       /\ loc[c].best # NoAgent => loc[c].best \in loc[c].pool
       /\ loc[c].route = "warm" =>
            \A a \in loc[c].pool :
              loc[c].total[a] <= loc[c].total[loc[c].best]
       /\ loc[c].route = "cold" => loc[c].best \in loc[c].found

Sound(c) == Noted(c) /\ Slices(c) /\ Filtering(c) /\ Choice(c)

CallInv == \A c \in Callers : Sound(c)

\* scheduler.go:417 and :344: with all candidates filtered out the call ends
\* in ErrNoAvailableAgent; no task is dispatched to nobody.
NoEmptyDispatch ==
  \A c \in Callers : task[c].status = "dispatched" => task[c].agent # NoAgent

=============================================================================
