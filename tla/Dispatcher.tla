------------------------------- MODULE Dispatcher -------------------------------
(***************************************************************************)
(* What a caller of Schedule and RetryTask (scheduler/scheduler.go) is     *)
(* promised, with none of the reads: a call ends in one step, and gives    *)
(* its task to an agent that was online at some moment of the call, or     *)
(* leaves it alone.  Dispatch implements it.                               *)
(***************************************************************************)
EXTENDS Naturals

CONSTANTS Agents, NoAgent, Callers

VARIABLES
  online, sleepFilter,   \* registered agents; is there a sleep policy?
  task, stage,           \* of each caller
  met, filters           \* during its call: agents online, values of sleepFilter

vars == <<online, sleepFilter, task, stage, met, filters>>

Init ==
  /\ online = {} /\ sleepFilter \in BOOLEAN
  /\ task = [c \in Callers |->
               [status |-> "pending", agent |-> NoAgent, retries |-> 0]]
  /\ stage = [c \in Callers |-> "idle"]
  /\ met = [c \in Callers |-> {}] /\ filters = [c \in Callers |-> {}]

\* Agents come and go, policies are set: a call under way meets them.
Change ==
  /\ online' \subseteq Agents /\ sleepFilter' \in BOOLEAN
  /\ met' = [c \in Callers |-> IF stage[c] = "busy" THEN met[c] \cup online'
                               ELSE met[c]]
  /\ filters' = [c \in Callers |-> IF stage[c] = "busy"
                                   THEN filters[c] \cup {sleepFilter'}
                                   ELSE filters[c]]
  /\ UNCHANGED <<task, stage>>

Begin(c) ==
  /\ stage[c] = "idle" /\ stage' = [stage EXCEPT ![c] = "busy"]
  /\ met' = [met EXCEPT ![c] = online]
  /\ filters' = [filters EXCEPT ![c] = {sleepFilter}]
  /\ UNCHANGED <<online, sleepFilter, task>>

End(c, s) ==
  /\ stage[c] = "busy" /\ stage' = [stage EXCEPT ![c] = s]
  /\ met' = [met EXCEPT ![c] = {}] /\ filters' = [filters EXCEPT ![c] = {}]
  /\ UNCHANGED <<online, sleepFilter>>

\* An error, a panic, or ScheduleSimple, which only names an agent.
LeaveTask(c) == (End(c, "idle") \/ End(c, "panicked")) /\ UNCHANGED task

\* Only under a sleep policy a task is given to nobody.
Give(c) ==
  /\ End(c, "idle")
  /\ \E a \in met[c] \cup (IF TRUE \in filters[c] THEN {NoAgent} ELSE {}) :
       task' = [task EXCEPT ![c].status = "dispatched", ![c].agent = a]

\* Below its limit.
Retry(c) ==
  /\ stage[c] = "idle"
  /\ task' = [task EXCEPT ![c] = [status  |-> "pending",
                                  agent   |-> NoAgent,
                                  retries |-> task[c].retries + 1]]
  /\ UNCHANGED <<online, sleepFilter, stage, met, filters>>

Next == \/ Change
        \/ \E c \in Callers : Begin(c) \/ LeaveTask(c) \/ Give(c) \/ Retry(c)

Spec == Init /\ [][Next]_vars
=============================================================================
