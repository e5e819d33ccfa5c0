---------------------------- MODULE DispatchProofs ----------------------------
(***************************************************************************)
(* Proofs about Dispatch, for any agents, callers, engines and scores and  *)
(* any number of changes during a call.                                    *)
(***************************************************************************)
EXTENDS Dispatch, TLAPS

\* The local variables of a new call and its empty notes are well typed.
LEMMA FreshType == \A k \in Kinds : Fresh(k) \in Locals
  BY DomainsAssumption DEF Fresh, Locals, NoScores, EngineKinds

\* An idle call has noted a well-typed nothing.
LEMMA NothingType == NothingSeen \in Notes
  BY DEF NothingSeen, Notes

\* What the environment shows is a note.
LEMMA SightType == TypeOK => Sight \in Notes
  BY DEF TypeOK, Sight, Notes

\* Two notes together are one.
LEMMA MergeType == ASSUME NEW x \in Notes, NEW y \in Notes
                   PROVE  Merge(x, y) \in Notes
  BY DEF Merge, Notes

\* The initial states are well typed (the constructors).
LEMMA TypeInit == Init => TypeOK
<1> SUFFICES ASSUME Init PROVE TypeOK
  OBVIOUS
<1>1. loc \in [Callers -> Locals]
  BY FreshType DEF Init, Kinds
<1>2. seen \in [Callers -> Notes]
  BY NothingType DEF Init
<1> QED
  BY <1>1, <1>2, DomainsAssumption DEF Init, TypeOK, Notes, Running

\* Each step keeps the types.
LEMMA TypeNext == TypeOK /\ [Next]_vars => TypeOK'
<1> SUFFICES ASSUME TypeOK, [Next]_vars PROVE TypeOK'
  OBVIOUS
<1>1. CASE UNCHANGED vars
  BY <1>1 DEF vars, env, TypeOK
<1>2. CASE Environment
  <2>1. /\ online' \subseteq Agents /\ asleep' \subseteq Agents
        /\ cold' \subseteq Agents /\ coldPolicy' \in BOOLEAN
        /\ sleepPolicy' \in BOOLEAN /\ scoring' \in EngineKinds
        /\ Observe
    BY <1>2, DomainsAssumption DEF Environment, Heartbeat, SleepWake, Record,
       Reset, SetColdPolicy, SetSleepPolicy, SetScoringEngine, Toggle, TypeOK
  <2>2. Sight' \in Notes
    BY <2>1 DEF Sight, Notes
  <2>3. seen' \in [Callers -> Notes]
    BY <2>1, <2>2, MergeType DEF Observe, TypeOK
  <2>4. changes' \in Nat
    BY <2>1 DEF Observe, TypeOK
  <2> QED
    BY <2>1, <2>3, <2>4 DEF Observe, TypeOK
<1>3. ASSUME NEW c \in Callers, Call(c)
      PROVE  TypeOK'
  <2>1. Sight \in Notes
    BY SightType
  <2> QED
    BY <1>3, <2>1, FreshType DEF Call, Goto, env, Running, TypeOK
<1>4. ASSUME NEW c \in Callers, RetryTask(c)
      PROVE  TypeOK'
  BY <1>4 DEF RetryTask, Continue, env, TypeOK
<1>5. ASSUME NEW c \in Callers, NEW l \in {"idle", "panicked"}, End(c, l)
      PROVE  /\ pc' \in [Callers -> Running \cup {"idle", "panicked"}]
             /\ loc' \in [Callers -> Locals]
             /\ seen' \in [Callers -> Notes]
             /\ changes' \in Nat
  BY <1>5, FreshType, NothingType DEF End, Goto, TypeOK, Kinds
<1>6. ASSUME NEW c \in Callers, PickWarm(c)
      PROVE  /\ pc' \in [Callers -> Running \cup {"idle", "panicked"}]
             /\ loc' \in [Callers -> Locals]
  <2>1. PICK a \in Agents : loc' = [loc EXCEPT ![c].best = a, ![c].route = "warm"]
    BY <1>6 DEF PickWarm, Top, TypeOK, Locals
  <2>2. loc[c] \in Locals
    BY DEF TypeOK
  <2>3. [loc[c] EXCEPT !.best = a, !.route = "warm"] \in Locals
    BY <2>2 DEF Locals
  <2> QED
    BY <1>6, <2>1, <2>3 DEF PickWarm, Goto, TypeOK, Running
<1>7. ASSUME NEW c \in Callers, Step(c)
      PROVE  TypeOK'
  <2>0. /\ loc[c] \in Locals
        /\ loc[c].pool \subseteq Agents /\ loc[c].todo \subseteq Agents
        /\ loc[c].found \subseteq Agents
    <3>1. loc[c] \in Locals
      BY DEF TypeOK
    <3> QED
      BY <3>1 DEF Locals
  <2>1. CASE List(c)
    <3>1. CASE End(c, "idle")
      BY <2>1, <3>1, <1>5 DEF List, env, TypeOK
    <3>2. CASE loc' = [loc EXCEPT ![c].pool = online]
      <4>1. [loc[c] EXCEPT !.pool = online] \in Locals
        BY <2>0 DEF Locals, TypeOK
      <4> QED
        BY <2>1, <1>5, <3>2, <4>1 DEF List, Continue, Goto, env, TypeOK, Running
    <3> QED
      BY <2>1, <3>1, <3>2 DEF List
  <2>2. CASE Score(c)
    <3>1. CASE \E l \in {"idle", "panicked"} : End(c, l)
      BY <2>2, <3>1, <1>5 DEF Score, env, TypeOK
    <3>2. CASE \E S \in (SUBSET loc[c].pool) \ {{}}, f \in [Agents -> Scores] :
                  /\ loc' = [loc EXCEPT ![c].total = f, ![c].pool = S]
                  /\ seen' = [seen EXCEPT ![c].scored = S]
                  /\ Goto(c, "pick") /\ UNCHANGED <<changes, env, task>>
      <4>1. PICK S \in (SUBSET loc[c].pool) \ {{}}, f \in [Agents -> Scores] :
                  /\ loc' = [loc EXCEPT ![c].total = f, ![c].pool = S]
                  /\ seen' = [seen EXCEPT ![c].scored = S]
        BY <3>2
      <4>0. S \in SUBSET Agents
        BY <2>0
      <4>2. [loc[c] EXCEPT !.total = f, !.pool = S] \in Locals
        BY <4>0, <2>0 DEF Locals
      <4>3. loc' \in [Callers -> Locals]
        BY <4>1, <4>2 DEF TypeOK
      <4>4. seen' \in [Callers -> Notes]
        <5>1. [seen[c] EXCEPT !.scored = S] \in Notes
          BY <4>0 DEF Notes, TypeOK
        <5> QED
          BY <4>1, <5>1 DEF TypeOK
      <4> QED
        BY <3>2, <4>3, <4>4 DEF Goto, env, TypeOK, Running
    <3> QED
      BY <2>2, <3>1, <3>2 DEF Score
  <2>3. CASE Pick(c)
    <3>1. [loc[c] EXCEPT !.coldPolicy = coldPolicy, !.sleepPolicy = sleepPolicy]
            \in Locals
      BY <2>0 DEF Locals, TypeOK
    <3>2. loc' \in [Callers -> Locals]
      BY <2>3, <3>1 DEF Pick, TypeOK
    <3> QED
      BY <2>3, <3>2 DEF Pick, Continue, Goto, env, TypeOK, Running
  <2>4. CASE EnterFilter(c)
    <3>1. [loc[c] EXCEPT !.engine = scoring, !.todo = loc[c].pool] \in Locals
      BY <2>0 DEF Locals, TypeOK
    <3>2. loc' \in [Callers -> Locals]
      BY <2>4, <3>1 DEF EnterFilter, TypeOK
    <3>3. pc' \in [Callers -> Running \cup {"idle", "panicked"}]
      BY <2>4 DEF EnterFilter, Goto, TypeOK, Running
    <3> QED
      BY <2>4, <3>2, <3>3 DEF EnterFilter, Continue, env, TypeOK
  <2>5. CASE FilterOne(c)
    <3>1. PICK S \in SUBSET Agents, T \in SUBSET Agents, U \in SUBSET Agents :
            /\ loc' = [loc EXCEPT ![c].todo = S, ![c].pool = T]
            /\ seen' = [seen EXCEPT ![c].errors = U]
      <4>1. PICK a \in Agents, r \in Outcomes(c) :
              /\ loc' = [loc EXCEPT ![c].todo = loc[c].todo \ {a},
                             ![c].pool = IF Dropped(c, a, r)
                                         THEN loc[c].pool \ {a} ELSE loc[c].pool]
              /\ seen' = [seen EXCEPT ![c].errors =
                     IF r = "error" THEN seen[c].errors \cup {a}
                                    ELSE seen[c].errors]
        BY <2>5, <2>0 DEF FilterOne, Top
      <4>2. seen[c].errors \subseteq Agents
        BY DEF Notes, TypeOK
      <4> DEFINE T == IF Dropped(c, a, r) THEN loc[c].pool \ {a} ELSE loc[c].pool
                 U == IF r = "error" THEN seen[c].errors \cup {a}
                                     ELSE seen[c].errors
      <4>3. T \in SUBSET Agents /\ U \in SUBSET Agents
                /\ loc[c].todo \ {a} \in SUBSET Agents
        BY <4>2, <2>0
      <4> QED
        BY <4>1, <4>3
    <3>2. [loc[c] EXCEPT !.todo = S, !.pool = T] \in Locals
      BY <2>0 DEF Locals
    <3>3. loc' \in [Callers -> Locals]
      BY <3>1, <3>2 DEF TypeOK
    <3>4. seen' \in [Callers -> Notes]
      <4>1. [seen[c] EXCEPT !.errors = U] \in Notes
        BY DEF Notes, TypeOK
      <4> QED
        BY <3>1, <4>1 DEF TypeOK
    <3> QED
      BY <2>5, <3>3, <3>4 DEF FilterOne, env, TypeOK
  <2>6. CASE FilterEnd(c)
    BY <2>6 DEF FilterEnd, Continue, Goto, env, TypeOK, Running
  <2>7. CASE Warm(c)
    BY <1>6, <2>7 DEF Warm, Continue, env, TypeOK
  <2>8. CASE EnterCold(c)
    <3>1. CASE End(c, "panicked")
      BY <2>8, <3>1, <1>5 DEF EnterCold, env, TypeOK
    <3>2. CASE loc' = [loc EXCEPT ![c].engine = scoring, ![c].todo = loc[c].pool]
      <4>1. [loc[c] EXCEPT !.engine = scoring, !.todo = loc[c].pool] \in Locals
        BY <2>0 DEF Locals, TypeOK
      <4>2. loc' \in [Callers -> Locals]
        BY <3>2, <4>1 DEF TypeOK
      <4> QED
        BY <2>8, <1>5, <4>2 DEF EnterCold, Continue, Goto, env, TypeOK, Running
    <3> QED
      BY <2>8, <3>1, <3>2 DEF EnterCold
  <2>9. CASE ColdOne(c)
    <3>1. PICK S \in SUBSET Agents, T \in SUBSET Agents :
            loc' = [loc EXCEPT ![c].todo = S, ![c].found = T]
      <4>1. PICK a \in Agents, r \in Outcomes(c) :
              loc' = [loc EXCEPT ![c].todo = loc[c].todo \ {a},
                          ![c].found = IF Eligible(c, a, r)
                                       THEN loc[c].found \cup {a}
                                       ELSE loc[c].found]
        BY <2>9, <2>0 DEF ColdOne, Top
      <4> DEFINE T == IF Eligible(c, a, r) THEN loc[c].found \cup {a}
                                           ELSE loc[c].found
      <4>2. T \in SUBSET Agents /\ loc[c].todo \ {a} \in SUBSET Agents
        BY <2>0
      <4> QED
        BY <4>1, <4>2
    <3>2. [loc[c] EXCEPT !.todo = S, !.found = T] \in Locals
      BY <2>0 DEF Locals
    <3>3. loc' \in [Callers -> Locals]
      BY <3>1, <3>2 DEF TypeOK
    <3> QED
      BY <2>9, <3>3 DEF ColdOne, Continue, env, TypeOK
  <2>10. CASE ColdEnd(c)
    <3>1. CASE PickWarm(c)
      BY <1>6, <2>10, <3>1 DEF ColdEnd, Continue, env, TypeOK
    <3>2. CASE \E a \in loc[c].found :
                 loc' = [loc EXCEPT ![c].best = a, ![c].route = "cold"]
      <4>1. PICK a \in Agents :
              loc' = [loc EXCEPT ![c].best = a, ![c].route = "cold"]
        BY <2>0, <3>2 DEF Locals
      <4>2. [loc[c] EXCEPT !.best = a, !.route = "cold"] \in Locals
        BY <2>0 DEF Locals
      <4>3. loc' \in [Callers -> Locals]
        BY <4>1, <4>2 DEF TypeOK
      <4> QED
        BY <2>10, <1>6, <4>3 DEF ColdEnd, Continue, Goto, env, TypeOK, Running
    <3> QED
      BY <2>10, <3>1, <3>2 DEF ColdEnd
  <2>11. CASE Assign(c)
    <3>1. PICK l \in {"idle", "panicked"} : End(c, l)
      BY <2>11 DEF Assign
    <3>2. loc[c].best \in Agents \cup {NoAgent}
      BY <2>0 DEF Locals
    <3> QED
      BY <1>5, <2>11, <3>1, <3>2 DEF Assign, env, TypeOK
  <2> QED
    BY <1>7, <2>1, <2>2, <2>3, <2>4, <2>5, <2>6, <2>7, <2>8, <2>9, <2>10,
       <2>11 DEF Step
<1> QED
  BY <1>1, <1>2, <1>3, <1>4, <1>7 DEF Next

\* Every state of the scheduler and its callers is well typed.
THEOREM TypeCorrect == Spec => []TypeOK
  BY TypeInit, TypeNext, PTL DEF Spec

-----------------------------------------------------------------------------
\* The types of one caller's record and notes, field by field.
LEMMA Fields ==
  ASSUME TypeOK, NEW c \in Callers
  PROVE  /\ loc[c] \in Locals /\ loc[c].pool \subseteq Agents
         /\ loc[c].todo \subseteq Agents /\ loc[c].found \subseteq Agents
         /\ loc[c].best \in Agents \cup {NoAgent}
         /\ loc[c].total \in [Agents -> Nat]
         /\ seen[c] \in Notes
<1>1. loc[c] \in Locals /\ seen[c] \in Notes
  BY DEF TypeOK
<1> QED
  BY <1>1, DomainsAssumption DEF Locals

\* No call is under way at the start.
LEMMA InvInit == Init => CallInv
<1> SUFFICES ASSUME Init, NEW c \in Callers PROVE Sound(c)
  BY DEF CallInv
<1>1. pc[c] = "idle" /\ loc[c] = Fresh("Schedule") /\ seen[c] = NothingSeen
  BY DEF Init
<1> QED
  BY <1>1 DEF Sound, Noted, Slices, Filtering, Choice, Fresh, NothingSeen,
     Running

\* A change of the environment adds to what was seen and touches no call.
LEMMA InvEnvironment == TypeOK /\ CallInv /\ Environment => CallInv'
<1> SUFFICES ASSUME TypeOK, CallInv, Environment, NEW c \in Callers
             PROVE  Sound(c)'
  BY DEF CallInv
<1>1. Observe
  BY DEF Environment, Heartbeat, SleepWake, Record, Reset, SetColdPolicy,
     SetSleepPolicy, SetScoringEngine
<1>2. pc' = pc /\ loc' = loc /\ Sound(c)
  BY <1>1 DEF Observe, CallInv
<1>3. CASE pc[c] \in Running
  <2>1. seen'[c] = Merge(seen[c], Sight')
    BY <1>1, <1>3 DEF Observe, TypeOK
  <2>2. /\ seen'[c].awake = seen[c].awake \cup (Agents \ asleep')
        /\ seen'[c].asleep = seen[c].asleep \cup asleep'
        /\ seen'[c].cold = seen[c].cold \cup cold'
        /\ seen'[c].listed = seen[c].listed \cup online'
        /\ seen'[c].engines = seen[c].engines \cup {scoring'}
        /\ seen'[c].filter = seen[c].filter \cup {sleepPolicy'}
        /\ seen'[c].errors = seen[c].errors
        /\ seen'[c].scored = seen[c].scored
    BY <2>1 DEF Merge, Sight
  <2>3. Noted(c)'
    BY <2>2 DEF Noted
  <2>4. Slices(c)'
    BY <1>2, <2>2 DEF Sound, Slices
  <2>5. Filtering(c)'
    BY <1>2, <2>2 DEF Sound, Filtering, Screened
  <2>6. Choice(c)'
    BY <1>2, <2>2 DEF Sound, Choice
  <2> QED
    BY <2>3, <2>4, <2>5, <2>6 DEF Sound
<1>4. CASE pc[c] \notin Running
  <2>1. seen'[c] = seen[c]
    BY <1>1, <1>4 DEF Observe, TypeOK
  <2> QED
    BY <1>2, <1>4, <2>1 DEF Sound, Noted, Slices, Filtering, Choice, Screened
<1> QED
  BY <1>3, <1>4

\* A step of one call leaves the other calls as they were.
LEMMA OtherCalls ==
  ASSUME TypeOK, CallInv, UNCHANGED env, NEW c \in Callers, NEW d \in Callers,
         pc'[d] = pc[d], loc'[d] = loc[d], seen'[d] = seen[d]
  PROVE  Sound(d)'
BY DEF CallInv, Sound, Noted, Slices, Filtering, Choice, Screened, env

\* A call that ends, or one that has not begun, has nothing to keep.
LEMMA EndSound ==
  ASSUME TypeOK, NEW c \in Callers, NEW l \in {"idle", "panicked"}, End(c, l)
  PROVE  Sound(c)'
<1>1. pc'[c] = l /\ loc'[c] = Fresh("Schedule") /\ seen'[c] = NothingSeen
  BY DEF End, Goto, TypeOK
<1> QED
  BY <1>1 DEF Sound, Noted, Slices, Filtering, Choice, Fresh, NothingSeen,
     Running

\* The warm choice: the top of the pool, which the filter has screened.
LEMMA PickWarmSound ==
  ASSUME NEW c \in Callers, TypeOK, Sound(c), pc[c] \in {"explore", "cold"},
         loc[c].todo = {}, PickWarm(c), UNCHANGED <<env, seen>>
  PROVE  Sound(c)'
<1>0. loc[c] \in Locals
  BY DEF TypeOK
<1>1. PICK a \in Top(c, loc[c].pool) :
        loc' = [loc EXCEPT ![c].best = a, ![c].route = "warm"]
  BY DEF PickWarm
<1>2. /\ loc'[c].best = a /\ loc'[c].route = "warm"
      /\ loc'[c].pool = loc[c].pool /\ loc'[c].todo = loc[c].todo
      /\ loc'[c].found = loc[c].found /\ loc'[c].total = loc[c].total
      /\ pc'[c] = "assign"
  BY <1>0, <1>1 DEF TypeOK, Locals, PickWarm, Goto
<1>3. a \in Agents /\ a # NoAgent /\ a \in loc[c].pool
  BY Fields, AgentsAssumption DEF Top
<1>4. Noted(c)' /\ Slices(c)' /\ Filtering(c)'
  BY <1>2 DEF Sound, Noted, Slices, Filtering, Screened, env, Running
<1>5. Choice(c)'
  BY <1>2, <1>3 DEF Choice, Top
<1> QED
  BY <1>4, <1>5 DEF Sound

\* The calling caller keeps its own invariant, one lemma per group of steps.
LEMMA BeginSound ==
  ASSUME NEW c \in Callers, TypeOK, Sound(c), Call(c) \/ List(c) \/ Pick(c)
  PROVE  Sound(c)'
<1>0. loc[c] \in Locals
  BY DEF TypeOK
<1>1. CASE Call(c)
  <2>1. PICK k \in Kinds : loc'[c] = Fresh(k)
    BY <1>1 DEF Call, TypeOK
  <2>2. pc'[c] = "list" /\ seen'[c] = Sight /\ UNCHANGED env
    BY <1>1 DEF Call, Goto, TypeOK
  <2> QED
    BY <2>1, <2>2 DEF Sound, Noted, Slices, Filtering, Choice, Fresh, Sight, env
<1>2. CASE List(c)
  <2>1. CASE End(c, "idle")
    BY <2>1, EndSound
  <2>2. CASE ~End(c, "idle")
    <3>1. /\ loc'[c].pool = online /\ loc'[c].todo = loc[c].todo
          /\ loc'[c].found = loc[c].found /\ loc'[c].best = loc[c].best
          /\ loc'[c].route = loc[c].route
          /\ pc[c] = "list" /\ pc'[c] = "score" /\ seen'[c] = seen[c]
          /\ UNCHANGED env
      BY <1>0, <1>2, <2>2 DEF List, Goto, Continue, TypeOK, Locals
    <3> QED
      BY <3>1 DEF Sound, Noted, Slices, Filtering, Choice, env, Running
  <2> QED
    BY <2>1, <2>2
<1>3. CASE Pick(c)
  <2>1. /\ loc'[c].pool = loc[c].pool /\ loc'[c].todo = loc[c].todo
        /\ loc'[c].found = loc[c].found /\ loc'[c].best = loc[c].best
        /\ loc'[c].route = loc[c].route
        /\ pc[c] = "pick" /\ seen'[c] = seen[c] /\ UNCHANGED env
        /\ pc'[c] = IF sleepPolicy THEN "sleep" ELSE "explore"
    BY <1>0, <1>3 DEF Pick, Goto, Continue, TypeOK, Locals
  <2>2. sleepPolicy \in seen[c].filter
    BY <2>1 DEF Sound, Noted, Running
  <2> QED
    BY <2>1, <2>2 DEF Sound, Noted, Slices, Filtering, Screened, Choice, env,
       Running, TypeOK
<1> QED
  BY <1>1, <1>2, <1>3

\* Scoring: the pool becomes the scored part of the listed agents.
LEMMA ScoreSound ==
  ASSUME NEW c \in Callers, TypeOK, Sound(c), Score(c)
  PROVE  Sound(c)'
<1>0. loc[c] \in Locals /\ seen[c] \in Notes /\ loc[c].pool \subseteq Agents
  BY Fields
<1>1. CASE End(c, "panicked") \/ End(c, "idle")
  BY <1>1, EndSound
<1>2. CASE ~(End(c, "panicked") \/ End(c, "idle"))
  <2>1. PICK S \in (SUBSET loc[c].pool) \ {{}}, f \in [Agents -> Scores] :
             /\ loc' = [loc EXCEPT ![c].total = f, ![c].pool = S]
             /\ seen' = [seen EXCEPT ![c].scored = S]
    BY <1>2 DEF Score
  <2>2. /\ loc'[c].pool = S /\ loc'[c].todo = loc[c].todo
        /\ loc'[c].found = loc[c].found /\ loc'[c].best = loc[c].best
        /\ loc'[c].route = loc[c].route
    BY <1>0, <2>1 DEF TypeOK, Locals
  <2>3. /\ seen'[c].scored = S /\ seen'[c].awake = seen[c].awake
        /\ seen'[c].asleep = seen[c].asleep /\ seen'[c].cold = seen[c].cold
        /\ seen'[c].listed = seen[c].listed
        /\ seen'[c].engines = seen[c].engines
        /\ seen'[c].filter = seen[c].filter
    BY <1>0, <2>1 DEF TypeOK, Notes
  <2>4. pc[c] = "score" /\ pc'[c] = "pick" /\ UNCHANGED env
    BY <1>2 DEF Score, Goto, TypeOK
  <2> QED
    BY <2>2, <2>3, <2>4 DEF Sound, Noted, Slices, Filtering, Choice, env,
       Running
<1> QED
  BY <1>1, <1>2

\* The sleep filter: only sleepers leave the pool, and what stays is screened.
LEMMA FilterSound ==
  ASSUME NEW c \in Callers, TypeOK, Sound(c),
         EnterFilter(c) \/ FilterOne(c) \/ FilterEnd(c)
  PROVE  Sound(c)'
<1>0. /\ loc[c] \in Locals /\ seen[c] \in Notes /\ loc[c].pool \subseteq Agents
      /\ loc[c].todo \subseteq Agents
  BY Fields
<1>1. CASE EnterFilter(c)
  <2>1. pc[c] = "sleep" /\ seen'[c] = seen[c] /\ UNCHANGED env
    BY <1>1 DEF EnterFilter, Continue
  <2>2. scoring \in seen[c].engines
    BY <2>1 DEF Sound, Noted, Running
  <2>3. CASE scoring = "nil"
    <3>1. loc'[c] = loc[c] /\ pc'[c] = "explore"
      BY <1>1, <2>3 DEF EnterFilter, Goto, TypeOK
    <3>2. \A a \in Agents : Screened(c, a)'
      <4>1. scoring \in seen'[c].engines /\ scoring # "trust"
        BY <2>1, <2>2, <2>3
      <4>2. \E e \in seen'[c].engines : e # "trust"
        BY <4>1
      <4> QED
        BY <4>2 DEF Screened
    <3> QED
      BY <1>0, <2>1, <3>1, <3>2 DEF Sound, Noted, Slices, Filtering, Choice, env,
         Running
  <2>4. CASE scoring # "nil"
    <3>1. /\ loc'[c].pool = loc[c].pool /\ loc'[c].todo = loc[c].pool
          /\ loc'[c].found = loc[c].found /\ loc'[c].best = loc[c].best
          /\ loc'[c].route = loc[c].route /\ loc'[c].engine = scoring
          /\ pc'[c] = "filter"
      BY <1>0, <1>1, <2>4 DEF EnterFilter, Goto, TypeOK, Locals
    <3> QED
      BY <2>1, <2>2, <3>1 DEF Sound, Noted, Slices, Filtering, Choice, env,
         Running
  <2> QED
    BY <2>3, <2>4
<1>2. CASE FilterOne(c)
  <2>0. pc[c] = "filter" /\ pc'[c] = pc[c] /\ UNCHANGED env
    BY <1>2 DEF FilterOne
  <2>1. PICK a \in loc[c].todo, r \in Outcomes(c) :
          /\ loc' = [loc EXCEPT ![c].todo = loc[c].todo \ {a},
                             ![c].pool = IF Dropped(c, a, r)
                                         THEN loc[c].pool \ {a} ELSE loc[c].pool]
          /\ seen' = [seen EXCEPT ![c].errors =
                     IF r = "error" THEN seen[c].errors \cup {a}
                                    ELSE seen[c].errors]
    BY <1>2 DEF FilterOne, Top
  <2>2. /\ loc'[c].pool = IF Dropped(c, a, r) THEN loc[c].pool \ {a}
                                              ELSE loc[c].pool
        /\ loc'[c].todo = loc[c].todo \ {a}
        /\ loc'[c].found = loc[c].found /\ loc'[c].best = loc[c].best
        /\ loc'[c].route = loc[c].route /\ loc'[c].engine = loc[c].engine
    BY <1>0, <2>1 DEF TypeOK, Locals
  <2>3. /\ seen'[c].errors = IF r = "error" THEN seen[c].errors \cup {a}
                                            ELSE seen[c].errors
        /\ seen'[c].awake = seen[c].awake /\ seen'[c].asleep = seen[c].asleep
        /\ seen'[c].cold = seen[c].cold /\ seen'[c].listed = seen[c].listed
        /\ seen'[c].engines = seen[c].engines
        /\ seen'[c].filter = seen[c].filter
        /\ seen'[c].scored = seen[c].scored
    BY <1>0, <2>1 DEF TypeOK, Notes
  <2>4. Noted(c)' /\ Choice(c)'
    BY <2>0, <2>2, <2>3 DEF Sound, Noted, Choice, env
  <2>5. Dropped(c, a, r) => a \in seen[c].asleep /\ TRUE \in seen[c].filter
    BY <2>0 DEF Dropped, Sound, Noted, Filtering, Running
  <2>6. Slices(c)'
    BY <2>0, <2>2, <2>3, <2>5 DEF Sound, Slices, Running
  <2>7. \A b \in loc[c].pool \ loc[c].todo : Screened(c, b)'
    BY <2>0, <2>3 DEF Sound, Filtering, Screened
  <2>8. ~Dropped(c, a, r) => Screened(c, a)'
    <3>1. CASE r = "error"
      BY <2>3, <3>1 DEF Screened
    <3>2. CASE loc[c].engine # "trust"
      BY <2>0, <2>3, <3>2 DEF Sound, Filtering, Screened
    <3>3. CASE r # "error" /\ loc[c].engine = "trust" /\ a \notin asleep
      BY <1>0, <2>0, <2>3, <3>3 DEF Sound, Noted, Screened, Running
    <3> QED
      BY <3>1, <3>2, <3>3, DomainsAssumption DEF Dropped, Outcomes
  <2>9. Filtering(c)'
    <3>1. \A b \in loc'[c].pool \ loc'[c].todo : Screened(c, b)'
      BY <2>2, <2>7, <2>8
    <3> QED
      BY <2>0, <2>2, <2>3, <3>1 DEF Sound, Filtering
  <2> QED
    BY <2>4, <2>6, <2>9 DEF Sound
<1>3. CASE FilterEnd(c)
  <2>1. /\ pc[c] = "filter" /\ loc[c].todo = {} /\ loc'[c] = loc[c]
        /\ seen'[c] = seen[c] /\ UNCHANGED env
        /\ pc'[c] = IF loc[c].pool = {} THEN "assign" ELSE "explore"
    BY <1>3 DEF FilterEnd, Goto, Continue, TypeOK
  <2>2. loc[c].best = NoAgent /\ loc[c].route = "none"
    BY <2>1 DEF Sound, Choice
  <2> QED
    BY <2>1, <2>2 DEF Sound, Noted, Slices, Filtering, Screened, Choice, env,
       Running
<1> QED
  BY <1>1, <1>2, <1>3

\* The warm and the cold choice come from the pool that is left.
LEMMA ExploreSound ==
  ASSUME NEW c \in Callers, TypeOK, Sound(c),
         Warm(c) \/ EnterCold(c) \/ ColdOne(c) \/ ColdEnd(c)
  PROVE  Sound(c)'
<1>0. /\ loc[c] \in Locals /\ loc[c].pool \subseteq Agents
      /\ loc[c].todo \subseteq Agents /\ loc[c].found \subseteq Agents
  BY Fields
<1>1. CASE Warm(c)
  <2>1. pc[c] = "explore" /\ PickWarm(c) /\ UNCHANGED <<env, seen>>
    BY <1>1 DEF Warm, Continue
  <2>2. loc[c].todo = {}
    BY <2>1 DEF Sound, Slices
  <2> QED
    BY <2>1, <2>2, PickWarmSound
<1>2. CASE EnterCold(c)
  <2>1. CASE End(c, "panicked")
    BY <2>1, EndSound
  <2>2. CASE ~End(c, "panicked")
    <3>1. /\ loc'[c].pool = loc[c].pool /\ loc'[c].todo = loc[c].pool
          /\ loc'[c].found = loc[c].found /\ loc'[c].best = loc[c].best
          /\ loc'[c].route = loc[c].route
          /\ pc[c] = "explore" /\ pc'[c] = "cold" /\ seen'[c] = seen[c]
          /\ UNCHANGED env
      BY <1>0, <1>2, <2>2 DEF EnterCold, Goto, Continue, TypeOK, Locals
    <3> QED
      BY <3>1 DEF Sound, Noted, Slices, Filtering, Screened, Choice, env, Running
  <2> QED
    BY <2>1, <2>2
<1>3. CASE ColdOne(c)
  <2>0. pc[c] = "cold" /\ pc'[c] = pc[c] /\ seen'[c] = seen[c] /\ UNCHANGED env
    BY <1>3 DEF ColdOne, Continue
  <2>1. PICK a \in loc[c].todo, r \in Outcomes(c) :
          loc' = [loc EXCEPT ![c].todo = loc[c].todo \ {a},
                          ![c].found = IF Eligible(c, a, r)
                                       THEN loc[c].found \cup {a}
                                       ELSE loc[c].found]
    BY <1>3 DEF ColdOne, Top
  <2>2. /\ loc'[c].found = IF Eligible(c, a, r) THEN loc[c].found \cup {a}
                                                ELSE loc[c].found
        /\ loc'[c].todo = loc[c].todo \ {a} /\ loc'[c].pool = loc[c].pool
        /\ loc'[c].best = loc[c].best /\ loc'[c].route = loc[c].route
    BY <1>0, <2>1 DEF TypeOK, Locals
  <2>3. Eligible(c, a, r) => a \in loc[c].pool \cap seen[c].cold \cap Skilled
    BY <2>0 DEF Eligible, Sound, Noted, Slices, Running
  <2> QED
    BY <2>0, <2>2, <2>3 DEF Sound, Noted, Slices, Filtering, Screened, Choice,
       env
<1>4. CASE ColdEnd(c)
  <2>0. /\ pc[c] = "cold" /\ loc[c].todo = {} /\ seen'[c] = seen[c]
        /\ UNCHANGED <<env, seen>>
    BY <1>4 DEF ColdEnd, Continue
  <2>1. CASE PickWarm(c)
    BY <2>0, <2>1, PickWarmSound
  <2>2. CASE ~PickWarm(c)
    <3>1. PICK a \in loc[c].found :
            loc' = [loc EXCEPT ![c].best = a, ![c].route = "cold"]
      BY <1>4, <2>2 DEF ColdEnd
    <3>2. /\ loc'[c].best = a /\ loc'[c].route = "cold"
          /\ loc'[c].pool = loc[c].pool /\ loc'[c].todo = loc[c].todo
          /\ loc'[c].found = loc[c].found /\ pc'[c] = "assign"
      BY <1>0, <1>4, <2>2, <3>1 DEF ColdEnd, Goto, TypeOK, Locals
    <3>3. a # NoAgent /\ a \in loc[c].pool
      BY <1>0, AgentsAssumption DEF Sound, Slices
    <3> QED
      BY <2>0, <3>2, <3>3 DEF Sound, Noted, Slices, Filtering, Screened, Choice,
         env, Running
  <2> QED
    BY <2>1, <2>2
<1> QED
  BY <1>1, <1>2, <1>3, <1>4

\* Every step keeps the invariant: the environment, one call, or a retry.
LEMMA InvNext == TypeOK /\ CallInv /\ [Next]_vars => CallInv'
<1> SUFFICES ASSUME TypeOK, CallInv, [Next]_vars PROVE CallInv'
  OBVIOUS
<1>1. CASE UNCHANGED vars
  BY <1>1, OtherCalls DEF vars, CallInv
<1>2. CASE Environment
  BY <1>2, InvEnvironment
<1>3. ASSUME NEW c \in Callers, Call(c) \/ Step(c)
      PROVE  CallInv'
  <2>1. Sound(c)'
    <3>1. Sound(c)
      BY DEF CallInv
    <3>2. CASE Assign(c)
      BY <3>2, EndSound DEF Assign
    <3> QED
      BY <1>3, <3>1, <3>2, BeginSound, ScoreSound, FilterSound, ExploreSound
         DEF Step
  <2>2. ASSUME NEW d \in Callers, d # c
        PROVE  /\ pc'[d] = pc[d] /\ loc'[d] = loc[d] /\ seen'[d] = seen[d]
               /\ UNCHANGED env
    BY <1>3, <2>2 DEF Call, Step, List, Score, Pick, EnterFilter, FilterOne,
       FilterEnd, Warm, EnterCold, ColdOne, ColdEnd, Assign, PickWarm, End,
       Goto, Continue, TypeOK
  <2> QED
    BY <2>1, <2>2, OtherCalls DEF CallInv
<1>4. ASSUME NEW c \in Callers, RetryTask(c)
      PROVE  CallInv'
  <2>1. UNCHANGED <<env, pc, loc, seen>>
    BY <1>4 DEF RetryTask, Continue
  <2> QED
    BY <2>1, OtherCalls DEF CallInv
<1> QED
  BY <1>1, <1>2, <1>3, <1>4 DEF Next

\* What each running call has seen accounts for its slices and its choice.
THEOREM CallsSound == Spec => []CallInv
  BY InvInit, InvNext, TypeInit, TypeNext, PTL DEF Spec

\* The invariant of a call gives the four properties of its choice.
LEMMA CallInvImplies ==
  ASSUME TypeOK, CallInv
  PROVE  AsleepNeverRouted /\ WarmIsBestAwake /\ ColdRouteJustified
           /\ EmptyOnlyIfAllSlept
<1> SUFFICES ASSUME NEW c \in Callers, Settled(c)
             PROVE  /\ Routed(c) /\ FilteredThroughout(c) /\ TrustThroughout(c)
                         => loc[c].best \in seen[c].awake \cup seen[c].errors
                    /\ loc[c].route = "warm"
                         => \A a \in seen[c].scored :
                              loc[c].total[a] > loc[c].total[loc[c].best]
                                => /\ a \in seen[c].asleep
                                   /\ TRUE \in seen[c].filter
                    /\ loc[c].route = "cold"
                         => loc[c].best \in seen[c].cold \cap seen[c].listed
                                    \cap seen[c].scored \cap Skilled
                    /\ loc[c].best = NoAgent
                         => /\ TRUE \in seen[c].filter
                            /\ seen[c].scored \subseteq seen[c].asleep
  BY DEF AsleepNeverRouted, WarmIsBestAwake, ColdRouteJustified,
     EmptyOnlyIfAllSlept, Routed
<1>1. pc[c] = "assign" /\ Slices(c) /\ Filtering(c) /\ Choice(c)
  BY DEF Settled, CallInv, Sound
<1>2. loc[c].total \in [Agents -> Nat] /\ loc[c].pool \subseteq Agents
      /\ seen[c].scored \subseteq Agents
  BY Fields DEF Notes
<1>3. ASSUME Routed(c), FilteredThroughout(c), TrustThroughout(c)
      PROVE  loc[c].best \in seen[c].awake \cup seen[c].errors
  BY <1>1, <1>3 DEF Routed, FilteredThroughout, TrustThroughout, Filtering,
     Choice, Screened
<1>4. ASSUME loc[c].route = "warm", NEW a \in seen[c].scored,
             loc[c].total[a] > loc[c].total[loc[c].best]
      PROVE  a \in seen[c].asleep /\ TRUE \in seen[c].filter
  <2>1. CASE a \in loc[c].pool /\ loc[c].best \in loc[c].pool
    BY <1>1, <1>2, <1>4, <2>1 DEF Choice
  <2>2. CASE a \notin loc[c].pool
    BY <1>1, <2>2 DEF Slices, Running
  <2>3. CASE a \in loc[c].pool /\ loc[c].best \notin loc[c].pool
    BY <1>1, <2>3 DEF Choice
  <2> QED
    BY <2>1, <2>2, <2>3
<1>5. ASSUME loc[c].route = "cold"
      PROVE  loc[c].best \in seen[c].cold \cap seen[c].listed
                                \cap seen[c].scored \cap Skilled
  BY <1>1, <1>5 DEF Choice, Slices, Running
<1>6. ASSUME loc[c].best = NoAgent
      PROVE  TRUE \in seen[c].filter /\ seen[c].scored \subseteq seen[c].asleep
  BY <1>1, <1>6 DEF Choice, Slices, Running
<1> QED
  BY <1>3, <1>4, <1>5, <1>6

\* An agent that slept through the whole call is never routed to.
THEOREM SleepersSafe == Spec => []AsleepNeverRouted
  BY TypeCorrect, CallsSound, CallInvImplies, PTL

\* A warm choice is the best of the agents that stayed awake.
THEOREM WarmRouteBest == Spec => []WarmIsBestAwake
  BY TypeCorrect, CallsSound, CallInvImplies, PTL

\* A cold choice is cold, skilled, online and scored.
THEOREM ColdRouteSafe == Spec => []ColdRouteJustified
  BY TypeCorrect, CallsSound, CallInvImplies, PTL

\* No agent is chosen only if all of them slept.
THEOREM EmptyResult == Spec => []EmptyOnlyIfAllSlept
  BY TypeCorrect, CallsSound, CallInvImplies, PTL

-----------------------------------------------------------------------------
(* The refinement of Dispatcher: each step of a call is a step of the      *)
(* promise, or none.                                                       *)


\* The state of the promise, under names of its own.
Stage    == [c \in Callers |-> IF pc[c] \in Running THEN "busy" ELSE pc[c]]
Met      == [c \in Callers |-> seen[c].listed]
Filters  == [c \in Callers |-> seen[c].filter]

\* Initially nobody is online and no call is under way.
LEMMA PromiseInit == Init => Promise!Init
  BY DEF Init, Promise!Init, NothingSeen, Running

\* A change of the environment is one the promise allows for.
LEMMA PromiseEnvironment ==
  ASSUME TypeOK, Environment PROVE Promise!Change
<1>1. /\ online' \subseteq Agents /\ sleepPolicy' \in BOOLEAN
      /\ Observe
  BY DEF Environment, Heartbeat, SleepWake, Record, Reset, SetColdPolicy,
     SetSleepPolicy, SetScoringEngine, Toggle, TypeOK
<1>2. /\ UNCHANGED <<task, pc>>
      /\ seen' = [c \in Callers |-> IF pc[c] \in Running
                                    THEN Merge(seen[c], Sight') ELSE seen[c]]
  BY <1>1 DEF Observe
<1>3. ASSUME NEW c \in Callers, pc[c] \in Running
      PROVE  /\ Stage[c] = "busy"
             /\ Met'[c] = Met[c] \cup online'
             /\ Filters'[c] = Filters[c] \cup {sleepPolicy'}
  <2>1. seen'[c] = Merge(seen[c], Sight')
    BY <1>2, <1>3
  <2>2. /\ seen'[c].listed = seen[c].listed \cup online'
        /\ seen'[c].filter = seen[c].filter \cup {sleepPolicy'}
    BY <2>1 DEF Merge, Sight
  <2> QED
    BY <1>3, <2>2 DEF Stage, Met, Filters
<1>4. ASSUME NEW c \in Callers, pc[c] \notin Running
      PROVE  /\ Stage[c] # "busy"
             /\ Met'[c] = Met[c] /\ Filters'[c] = Filters[c]
  BY <1>2, <1>4 DEF Stage, Met, Filters, TypeOK
<1>5. Met' = [c \in Callers |-> IF Stage[c] = "busy" THEN Met[c] \cup online'
                                ELSE Met[c]]
  BY <1>3, <1>4 DEF Met
<1>6. Filters' = [c \in Callers |-> IF Stage[c] = "busy"
                                     THEN Filters[c] \cup {sleepPolicy'}
                                     ELSE Filters[c]]
  BY <1>3, <1>4 DEF Filters
<1>7. Stage' = Stage
  BY <1>2 DEF Stage
<1> QED
  BY <1>1, <1>2, <1>5, <1>6, <1>7 DEF Promise!Change, Stage, Met, Filters

\* A step inside a call does nothing a caller sees.
LEMMA PromiseStutter ==
  ASSUME TypeOK, NEW c \in Callers, pc[c] \in Running,
         NEW l \in Running, pc' = [pc EXCEPT ![c] = l],
         UNCHANGED <<online, sleepPolicy, task>>,
         \A d \in Callers : /\ seen'[d].listed = seen[d].listed
                            /\ seen'[d].filter = seen[d].filter
  PROVE  UNCHANGED Promise!vars
<1>1. Stage' = Stage
  BY DEF Stage, TypeOK
<1>2. Met' = Met /\ Filters' = Filters
  BY DEF Met, Filters
<1> QED
  BY <1>1, <1>2 DEF Promise!vars, Stage, Met, Filters

\* A call that ends, ends in one step of the promise.
LEMMA PromiseEnd ==
  ASSUME TypeOK, NEW c \in Callers, pc[c] \in Running,
         NEW l \in {"idle", "panicked"}, End(c, l),
         UNCHANGED <<online, sleepPolicy>>
  PROVE  Promise!End(c, l)
<1>1. Stage[c] = "busy" /\ Stage' = [Stage EXCEPT ![c] = l]
  BY DEF Stage, End, Goto, TypeOK, Running
<1>2. seen' = [seen EXCEPT ![c] = NothingSeen]
  BY DEF End
<1>3. Met' = [Met EXCEPT ![c] = {}]
  BY <1>2 DEF Met, NothingSeen, TypeOK
<1>4. Filters' = [Filters EXCEPT ![c] = {}]
  BY <1>2 DEF Filters, NothingSeen, TypeOK
<1> QED
  BY <1>1, <1>3, <1>4 DEF Promise!End, Stage, Met, Filters

\* A call that begins meets what is there.
LEMMA PromiseBegin ==
  ASSUME TypeOK, NEW c \in Callers, Call(c) PROVE Promise!Begin(c)
<1>1. Stage[c] = "idle" /\ Stage' = [Stage EXCEPT ![c] = "busy"]
  BY DEF Stage, Call, Goto, TypeOK, Running
<1>2. seen' = [seen EXCEPT ![c] = Sight] /\ UNCHANGED <<env, task>>
  BY DEF Call
<1>3. Met' = [Met EXCEPT ![c] = online]
  BY <1>2 DEF Met, Sight, TypeOK
<1>4. Filters' = [Filters EXCEPT ![c] = {sleepPolicy}]
  BY <1>2 DEF Filters, Sight, TypeOK
<1> QED
  BY <1>1, <1>2, <1>3, <1>4 DEF Promise!Begin, Stage, Met, Filters, env

\* The tail of Schedule gives the task away as promised.
LEMMA PromiseAssign ==
  ASSUME TypeOK, CallInv, NEW c \in Callers, Assign(c)
  PROVE  Promise!Give(c) \/ Promise!LeaveTask(c)
<1>1. pc[c] = "assign" /\ UNCHANGED <<online, sleepPolicy>>
  BY DEF Assign, env
<1>2. CASE End(c, "idle") /\ task' = [task EXCEPT ![c].status = "dispatched",
                                                  ![c].agent = loc[c].best]
  <2>1. Promise!End(c, "idle")
    BY <1>1, <1>2, PromiseEnd DEF Running
  <2>2. \/ loc[c].best \in seen[c].listed
        \/ loc[c].best = NoAgent /\ TRUE \in seen[c].filter
    BY <1>1 DEF CallInv, Sound, Slices, Choice, Running
  <2>3. loc[c].best \in Met[c] \cup (IF TRUE \in Filters[c] THEN {NoAgent} ELSE {})
    BY <2>2 DEF Met, Filters
  <2> QED
    BY <1>2, <2>1, <2>3 DEF Promise!Give, Met, Filters
<1>3. CASE \E l \in {"idle", "panicked"} : End(c, l) /\ UNCHANGED task
  BY <1>1, <1>3, PromiseEnd DEF Promise!LeaveTask, Running
<1> QED
  BY <1>2, <1>3 DEF Assign

\* The other steps of a call end it without touching the task, or are inside.
LEMMA PromiseStep ==
  ASSUME TypeOK, CallInv, NEW c \in Callers, Step(c)
  PROVE  [Promise!Next]_Promise!vars
<1>1. CASE Assign(c)
  BY <1>1, PromiseAssign DEF Promise!Next
<1>2. CASE \E l \in {"idle", "panicked"} :
             pc[c] \in Running /\ End(c, l) /\ UNCHANGED <<env, task>>
  BY <1>2, PromiseEnd DEF Promise!LeaveTask, Promise!Next, env
<1>3. CASE /\ pc[c] \in Running /\ UNCHANGED <<env, task>>
           /\ \E l \in Running : pc' = [pc EXCEPT ![c] = l]
           /\ \A d \in Callers : /\ seen'[d].listed = seen[d].listed
                                 /\ seen'[d].filter = seen[d].filter
  BY <1>3, PromiseStutter DEF env
<1>4. CASE List(c)
  BY <1>2, <1>3, <1>4 DEF List, Continue, Goto, Running
<1>5. CASE Score(c)
  <2>1. CASE scoring # "nil" /\ \E S \in (SUBSET loc[c].pool) \ {{}} :
               /\ seen' = [seen EXCEPT ![c].scored = S]
               /\ Goto(c, "pick")
    BY <1>3, <1>5, <2>1 DEF Score, Goto, Running, TypeOK, Notes
  <2>2. CASE \E l \in {"idle", "panicked"} : End(c, l)
    BY <1>2, <1>5, <2>2 DEF Score, Running
  <2> QED
    BY <1>5, <2>1, <2>2 DEF Score
<1>6. CASE Pick(c) \/ EnterFilter(c) \/ FilterEnd(c) \/ Warm(c) \/ ColdEnd(c)
  BY <1>3, <1>6 DEF Pick, EnterFilter, FilterEnd, Warm, ColdEnd, PickWarm,
     Continue, Goto, Running
<1>7. CASE FilterOne(c)
  <2>1. /\ pc' = [pc EXCEPT ![c] = "filter"] /\ pc[c] = "filter"
        /\ \E U : seen' = [seen EXCEPT ![c].errors = U]
    BY <1>7 DEF FilterOne, TypeOK
  <2> QED
    BY <1>3, <1>7, <2>1 DEF FilterOne, Running, TypeOK, Notes
<1>8. CASE ColdOne(c)
  <2>1. pc' = [pc EXCEPT ![c] = "cold"] /\ pc[c] = "cold"
    BY <1>8 DEF ColdOne, TypeOK
  <2> QED
    BY <1>3, <1>8, <2>1 DEF ColdOne, Continue, Running
<1>9. CASE EnterCold(c)
  BY <1>2, <1>3, <1>9 DEF EnterCold, Continue, Goto, Running
<1> QED
  BY <1>1, <1>4, <1>5, <1>6, <1>7, <1>8, <1>9 DEF Step

\* A retry is one.
LEMMA PromiseRetry ==
  ASSUME TypeOK, NEW c \in Callers, RetryTask(c) PROVE Promise!Retry(c)
<1>1. /\ Stage[c] = "idle" /\ Stage' = Stage /\ Met' = Met
      /\ Filters' = Filters /\ UNCHANGED <<online, sleepPolicy>>
  BY DEF RetryTask, Continue, env, Stage, Met, Filters, Running
<1> QED
  BY <1>1 DEF RetryTask, Promise!Retry, Stage, Met, Filters

\* Every step is one the promise allows.
LEMMA PromiseNext ==
  TypeOK /\ CallInv /\ [Next]_vars => [Promise!Next]_Promise!vars
<1> SUFFICES ASSUME TypeOK, CallInv, [Next]_vars
             PROVE  [Promise!Next]_Promise!vars
  OBVIOUS
<1>1. CASE UNCHANGED vars
  <2>1. Stage' = Stage /\ Met' = Met /\ Filters' = Filters
    BY <1>1 DEF vars, Stage, Met, Filters
  <2> QED
    BY <1>1, <2>1 DEF vars, env, Promise!vars, Stage, Met, Filters
<1>2. CASE Environment
  BY <1>2, PromiseEnvironment DEF Promise!Next
<1>3. ASSUME NEW c \in Callers, Call(c) PROVE [Promise!Next]_Promise!vars
  BY <1>3, PromiseBegin DEF Promise!Next
<1>4. ASSUME NEW c \in Callers, Step(c) PROVE [Promise!Next]_Promise!vars
  BY <1>4, PromiseStep
<1>5. ASSUME NEW c \in Callers, RetryTask(c) PROVE [Promise!Next]_Promise!vars
  BY <1>5, PromiseRetry DEF Promise!Next
<1> QED
  BY <1>1, <1>2, <1>3, <1>4, <1>5 DEF Next

\* A call changes its task in one step or not at all, and gives it only to an
\* agent that was online during the call, or, under a sleep policy, to nobody
\* (Schedule, pickBest, RetryTask).
THEOREM PromiseKept == Spec => KeepsPromise
  BY PromiseInit, PromiseNext, TypeCorrect, CallsSound, PTL
     DEF Spec, KeepsPromise, Promise!Spec

=============================================================================
