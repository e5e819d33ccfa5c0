---------------------------- MODULE LifecycleProofs ----------------------------
(***************************************************************************)
(* Lifecycle for any finite set of loops: the flag running keeps the       *)
(* watchdog single until it is stopped, and the stop channel from being    *)
(* closed twice unless the watchdog was started again.                     *)
(***************************************************************************)
EXTENDS Lifecycle, FiniteSetTheorems, TLAPS

Started == {l \in Loops : loop[l] \notin {"none", "refused"}}

\* Before the stop, running says whether a watchdog was started, and only one
\* was; after it, running or a crash says that a second one was.
FlagTells ==
  guarded =>
    /\ ~closed => /\ ~crashed
                  /\ ~running => Started = {}
                  /\ running => \E l \in Loops : Started = {l}
    /\ closed => Started # {}
    /\ closed /\ (running \/ crashed) => \E k, l \in Started : k # l

IInv == TypeOK /\ FlagTells

LEMMA LifecycleInit == Init => IInv
  BY DEF Init, IInv, TypeOK, FlagTells, Started

LEMMA TypeNext == TypeOK /\ [Next]_vars => TypeOK'
<1> SUFFICES ASSUME TypeOK, [Next]_vars PROVE TypeOK'
  OBVIOUS
<1> USE DEF TypeOK, Live
<1>1. CASE StopWatchdog
  BY <1>1 DEF StopWatchdog, CloseStopCh
<1>2. CASE Stop
  BY <1>2 DEF Stop, CloseStopCh
<1>3. ASSUME NEW l \in Loops, StartWatchdog(l) PROVE TypeOK'
  BY <1>3 DEF StartWatchdog, Goto
<1>4. ASSUME NEW l \in Loops, Start(l) PROVE TypeOK'
  BY <1>4 DEF Start, Goto
<1>5. ASSUME NEW l \in Loops, CancelContext(l) PROVE TypeOK'
  BY <1>5 DEF CancelContext
<1>6. ASSUME NEW l \in Loops, Step(l) PROVE TypeOK'
  BY <1>6 DEF Step, NewTicker, Exit, Tick, Checked, Goto
<1>7. CASE UNCHANGED vars
  BY <1>7 DEF vars
<1> QED
  BY <1>1, <1>2, <1>3, <1>4, <1>5, <1>6, <1>7 DEF Next

\* A step of a loop under way starts none.
LEMMA StepStartsNone ==
  ASSUME TypeOK, NEW l \in Loops, Step(l)
  PROVE  Started' = Started /\ UNCHANGED <<guarded, running, closed, crashed>>
<1>1. /\ UNCHANGED <<guarded, running, closed, crashed>>
      /\ loop[l] \notin {"none", "refused"}
      /\ \E p \in {"waiting", "checking", "ended"} : loop' = [loop EXCEPT ![l] = p]
  BY DEF Step, NewTicker, Exit, Tick, Checked, Goto
<1>2. \A k \in Loops : loop'[k] \in {"none", "refused"} <=> loop[k] \in {"none", "refused"}
  BY <1>1 DEF TypeOK
<1> QED
  BY <1>1, <1>2 DEF Started

\* A start adds one loop, or none when running.
LEMMA StartAddsOne ==
  ASSUME TypeOK, NEW l \in Loops, StartWatchdog(l)
  PROVE  /\ UNCHANGED <<guarded, closed, crashed>> /\ ~crashed /\ running'
         /\ l \notin Started
         /\ Started' = IF running THEN Started ELSE Started \cup {l}
<1>1. /\ UNCHANGED <<guarded, closed, crashed>> /\ ~crashed /\ running'
      /\ loop[l] = "none"
      /\ loop' = [loop EXCEPT ![l] = IF running THEN "refused" ELSE "starting"]
  BY DEF StartWatchdog, Goto
<1>2. l \notin Started
  BY <1>1 DEF Started
<1>3. \A k \in Loops : /\ k # l => loop'[k] = loop[k]
                       /\ loop'[l] = IF running THEN "refused" ELSE "starting"
  BY <1>1 DEF TypeOK
<1>4. CASE running
  BY <1>1, <1>2, <1>3, <1>4 DEF Started
<1>5. CASE ~running
  BY <1>1, <1>2, <1>3, <1>5 DEF Started
<1> QED
  BY <1>1, <1>2, <1>4, <1>5

LEMMA FlagNext == IInv /\ [Next]_vars => IInv'
<1> SUFFICES ASSUME TypeOK, FlagTells, [Next]_vars PROVE FlagTells'
  BY TypeNext DEF IInv
<1>1. CASE guarded /\ StopWatchdog
  <2>1. /\ running /\ ~crashed /\ closed' /\ crashed' = closed /\ running' = closed
        /\ guarded' = guarded /\ Started' = Started
    BY <1>1 DEF StopWatchdog, CloseStopCh, Started
  <2> QED
    BY <1>1, <2>1 DEF FlagTells
<1>2. CASE ~guarded /\ Stop
  BY <1>2 DEF Stop, FlagTells
<1>3. ASSUME NEW l \in Loops, guarded /\ StartWatchdog(l) PROVE FlagTells'
  <2>1. /\ UNCHANGED <<guarded, closed, crashed>> /\ ~crashed /\ running'
        /\ l \notin Started
        /\ Started' = IF running THEN Started ELSE Started \cup {l}
    BY <1>3, StartAddsOne
  <2> QED
    BY <2>1 DEF FlagTells
<1>4. ASSUME NEW l \in Loops, ~guarded /\ Start(l) PROVE FlagTells'
  BY <1>4 DEF Start, FlagTells
<1>5. ASSUME NEW l \in Loops, CancelContext(l) PROVE FlagTells'
  BY <1>5 DEF CancelContext, FlagTells, Started
<1>6. ASSUME NEW l \in Loops, Step(l) PROVE FlagTells'
  BY <1>6, StepStartsNone DEF FlagTells
<1>7. CASE UNCHANGED vars
  BY <1>7 DEF vars, FlagTells, Started
<1> QED
  BY <1>1, <1>2, <1>3, <1>4, <1>5, <1>6, <1>7 DEF Next

\* The types of the flag, the channel and the loops' places hold throughout
\* (StartWatchdog, StopWatchdog, Start, Stop and both loops).
THEOREM LifecycleTyped == Spec => []TypeOK
<1>1. IInv => TypeOK
  BY DEF IInv
<1> QED
  BY <1>1, LifecycleInit, FlagNext, PTL DEF Spec

\* Until StopWatchdog closes the channel at most one watchdog loop lives,
\* whatever starts and cancelled contexts come before (StartWatchdog).
THEOREM SingleWatchdog == Spec => []OneWatchdog
<1>1. IInv => OneWatchdog
  <2> SUFFICES ASSUME IInv, guarded, ~closed PROVE Cardinality(LiveLoops) <= 1
    BY DEF OneWatchdog
  <2>1. LiveLoops \subseteq Started
    BY DEF LiveLoops, Started, Live
  <2>2. PICK S : LiveLoops \subseteq S /\ (S = {} \/ \E l \in Loops : S = {l})
    BY <2>1 DEF IInv, TypeOK, FlagTells
  <2>3. IsFiniteSet(S) /\ Cardinality(S) <= 1
    <3>1. CASE S = {}
      <4>1. IsFiniteSet(S) /\ Cardinality(S) = 0
        BY <3>1, FS_EmptySet
      <4> QED
        BY <4>1
    <3>2. ASSUME NEW l \in Loops, S = {l} PROVE IsFiniteSet(S) /\ Cardinality(S) <= 1
      <4>1. IsFiniteSet({l}) /\ Cardinality({l}) = 1
        BY FS_Singleton
      <4> QED
        BY <3>2, <4>1
    <3> QED
      BY <2>2, <3>1, <3>2
  <2> QED
    BY <2>2, <2>3, FS_Subset, FS_CardinalityType
<1> QED
  BY <1>1, LifecycleInit, FlagNext, PTL DEF Spec

\* A second close of the watchdog's channel, a panic, takes a second start:
\* stopping twice is not enough (StopWatchdog).
THEOREM SecondStartCrashes == Spec => []CrashNeedsRestart
<1>1. IInv => CrashNeedsRestart
  <2> SUFFICES ASSUME IInv, guarded, crashed PROVE Cardinality(Started) > 1
    BY DEF CrashNeedsRestart, Started
  <2>1. PICK k, l \in Started : k # l
    BY DEF IInv, TypeOK, FlagTells
  <2>2. IsFiniteSet(Started) /\ Cardinality(Started) \in Nat
    BY LifecycleAssumption, FS_Subset, FS_CardinalityType DEF Started
  <2>3. IsFiniteSet({k}) /\ Cardinality({k}) = 1
    BY FS_Singleton
  <2>4. IsFiniteSet({k} \cup {l}) /\ Cardinality({k} \cup {l}) = 2
    BY <2>1, <2>3, FS_AddElement
  <2>5. {k} \cup {l} \subseteq Started
    OBVIOUS
  <2>6. Cardinality({k} \cup {l}) <= Cardinality(Started)
    BY <2>2, <2>5, FS_Subset
  <2> QED
    BY <2>2, <2>4, <2>6
<1> QED
  BY <1>1, LifecycleInit, FlagNext, PTL DEF Spec

=============================================================================
