------------------------------- MODULE Lifecycle -------------------------------
(***************************************************************************)
(* The two background loops: the watchdog of scheduler/scheduler.go        *)
(* (guarded: StartWatchdog and StopWatchdog keep a flag running under the  *)
(* mutex) and the detector loop of internal/deadlock/detector.go (not      *)
(* guarded: Start and Stop keep nothing).  Either loop selects over its    *)
(* context, the stop channel, made once by the constructor, and a ticker.  *)
(***************************************************************************)
EXTENDS Naturals, FiniteSets

CONSTANT Loops \* bound: the loops ever started, each with its own context

ASSUME LifecycleAssumption == IsFiniteSet(Loops)

VARIABLES
  guarded,     \* the loop is the watchdog (TRUE) or the detector's (FALSE)
  running,     \* s.running
  closed,      \* stopCh is closed
  done,        \* loops whose context is done
  loop,        \* where each loop is
  crashed      \* a second close of stopCh panicked: the process is gone

vars == <<guarded, running, closed, done, loop, crashed>>

\* starting: after the mutex is released and before the goroutine runs
Live == {"starting", "waiting", "checking"}

LiveLoops == {l \in Loops : loop[l] \in Live}

TypeOK ==
  /\ guarded \in BOOLEAN /\ running \in BOOLEAN
  /\ closed \in BOOLEAN /\ crashed \in BOOLEAN
  /\ done \subseteq Loops
  /\ loop \in [Loops -> Live \cup {"none", "refused", "ended"}]

Init ==
  /\ guarded \in BOOLEAN
  /\ running = FALSE /\ closed = FALSE /\ crashed = FALSE
  /\ done = {}
  /\ loop = [l \in Loops |-> "none"]

\* Nothing happens any more once the process has crashed.
Goto(l, p) == ~crashed /\ loop' = [loop EXCEPT ![l] = p]

-----------------------------------------------------------------------------
(* The watchdog. *)

\* Mutant: the flag is looked at and never set.
StartWatchdogUnset(l) ==
  /\ loop[l] = "none"
  /\ Goto(l, IF running THEN "refused" ELSE "starting")
  /\ UNCHANGED <<guarded, running, closed, done, crashed>>

\* A start while running does nothing, even when the loop has ended.
StartWatchdog(l) ==
  /\ loop[l] = "none"
  /\ Goto(l, IF running THEN "refused" ELSE "starting")
  /\ running' = TRUE
  /\ UNCHANGED <<guarded, closed, done, crashed>>

CloseStopCh ==
  /\ ~crashed
  /\ closed' = TRUE
  /\ crashed' = closed

\* Mutant: the flag is not looked at.
StopWatchdogAlways ==
  /\ CloseStopCh
  /\ running' = closed
  /\ UNCHANGED <<guarded, done, loop>>

StopWatchdog ==
  /\ running
  /\ CloseStopCh
  /\ running' = closed      \* the panic comes before the assignment
  /\ UNCHANGED <<guarded, done, loop>>

(* The detector loop. *)

Start(l) ==
  /\ loop[l] = "none"
  /\ Goto(l, "starting")
  /\ UNCHANGED <<guarded, running, closed, done, crashed>>

Stop ==
  /\ CloseStopCh
  /\ UNCHANGED <<guarded, running, done, loop>>

-----------------------------------------------------------------------------
(* watchdogLoop and loop. *)

NewTicker(l) ==
  /\ loop[l] = "starting"
  /\ Goto(l, "waiting")
  /\ UNCHANGED <<guarded, running, closed, done, crashed>>

\* The cancel function of the context a loop was started with.
CancelContext(l) ==
  /\ ~crashed /\ loop[l] # "none" /\ l \notin done
  /\ done' = done \cup {l}
  /\ UNCHANGED <<guarded, running, closed, loop, crashed>>

\* Mutant: the select lacks the stop channel.
ToldByContext(l) == l \in done

\* select takes any case that is ready.
Told(l) == l \in done \/ closed

Exit(l) ==
  /\ loop[l] = "waiting" /\ Told(l)
  /\ Goto(l, "ended")
  /\ UNCHANGED <<guarded, running, closed, done, crashed>>

Tick(l) ==
  /\ loop[l] = "waiting"
  /\ Goto(l, "checking")
  /\ UNCHANGED <<guarded, running, closed, done, crashed>>

\* Mutant: the loop returns after a check.
CheckedReturns(l) ==
  /\ loop[l] = "checking"
  /\ Goto(l, "returned")
  /\ UNCHANGED <<guarded, running, closed, done, crashed>>

\* checkTimeouts, which only logs, or checkOnce (module Deadlock).
Checked(l) ==
  /\ loop[l] = "checking"
  /\ Goto(l, "waiting")
  /\ UNCHANGED <<guarded, running, closed, done, crashed>>

Step(l) == NewTicker(l) \/ Exit(l) \/ Tick(l) \/ Checked(l)

Next ==
  \/ guarded /\ StopWatchdog
  \/ ~guarded /\ Stop
  \/ \E l \in Loops :
       \/ guarded /\ StartWatchdog(l)
       \/ ~guarded /\ Start(l)
       \/ CancelContext(l)
       \/ Step(l)

Spec == Init /\ [][Next]_vars

\* The runtime runs every goroutine and fires every ticker, and a select with
\* several ready cases picks one at random, so that no ready case is passed
\* over for ever.
FairSpec ==
  /\ Spec
  /\ \A l \in Loops : WF_vars(Step(l)) /\ SF_vars(Exit(l))

-----------------------------------------------------------------------------
(* Properties. *)

\* Until it is stopped there is one watchdog, whoever starts it and however
\* often, and whatever becomes of the contexts.
OneWatchdog == guarded /\ ~closed => Cardinality(LiveLoops) <= 1

\* The flag keeps a stop channel from being closed twice as long as the
\* watchdog is started once: stopping it twice is no crash, starting it again
\* after a stop is the only way to one.
CrashNeedsRestart ==
  guarded /\ crashed => Cardinality({l \in Loops : loop[l] \notin {"none", "refused"}}) > 1

\* A loop that was told to end ends, even when its ticker fires all the time
\* and when it was told before it ran.
ToldLoopsEnd ==
  \A l \in Loops :
    loop[l] \in Live /\ (l \in done \/ closed) ~> loop[l] = "ended" \/ crashed

=============================================================================
