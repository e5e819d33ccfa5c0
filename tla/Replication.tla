------------------------------ MODULE Replication ------------------------------
(***************************************************************************)
(* Self-replication: Scheduler.Replicate of scheduler/scheduler.go decides, *)
(* ReplicationPolicy of scheduler/replication_policy.go gates and counts,  *)
(* and the kernel carries a decision out in three writes, as the comment   *)
(* of Replicate prescribes: engine.Replicate, registry.Heartbeat (undone   *)
(* by RollbackReplicate when it fails), and RecordChild on the policy      *)
(* GetReplicationPolicy then returns.  No lock spans these steps.          *)
(*                                                                         *)
(* Each policy object has its own counters, which it keeps while another   *)
(* one is in force; the objects share their settings.  Trust scores are    *)
(* levels.                                                                 *)
(***************************************************************************)
EXTENDS Naturals, FiniteSets

CONSTANTS
  Agents, NoAgent,    \* agent IDs, and the empty ID
  Kernels,            \* goroutines that replicate
  Requests,           \* <<parent, child>> pairs they are asked for
  MaxTrust, Neutral,  \* the top level; the level of an agent without history
  MinTrust,           \* MinParentTrust
  Inherit,            \* engine.ReplicateTrust, from a parent level to a child's
  MaxChildren,        \* MaxChildrenPerParent
  Known,              \* agents registered at the start
  Policies, NoPolicy, \* policy objects, and the nil policy
  MaxForeign          \* bound: children counted on an object that another
                      \* object let through, since its counter was reset

Trust == 0..MaxTrust
Counters == [Policies -> [Agents -> Nat]]

ASSUME ReplicationAssumption ==
  /\ NoAgent \notin Agents /\ Known \subseteq Agents
  /\ NoPolicy \notin Policies
  /\ IsFiniteSet(Kernels)
  /\ Requests \subseteq (Agents \cup {NoAgent}) \X (Agents \cup {NoAgent})
  /\ MaxTrust \in Nat /\ Neutral \in Trust /\ MinTrust \in Trust
  /\ Inherit \in [Trust -> Trust]
  /\ MaxChildren \in Nat \ {0}   \* normalize
  /\ MaxForeign \in Nat

VARIABLES
  trust, reason,      \* the trust engine: score, and reason of the last record
  known,              \* agents with a card in the registry
  policy,             \* replicationPolicy: the object in force, or nil
  count,              \* childCounts of each policy object
  foreign,            \* history: the children among them it did not let through
  pc, loc,            \* each kernel: where it is, and what it holds
  lost                \* history: children a crash or a failed undo left behind

vars == <<trust, reason, known, policy, count, foreign, pc, loc, lost>>

Deciding  == {"parent", "cold", "trust", "gate"}
Executing == {"decided", "written", "registered"}

Local == [parent : Agents \cup {NoAgent}, child : Agents \cup {NoAgent},
          pol : Policies \cup {NoPolicy},  \* the policy read under s.mu
          parentTrust : Trust,  \* ReplicateDecision.ParentTrust
          expected : Trust,     \* ReplicateDecision.ExpectedChildTrust
          written : Trust,      \* what engine.Replicate wrote
          peak : Trust,         \* history: best trust of the parent in the call
          stale : BOOLEAN]      \* history: parentTrust is not, or no longer, its trust

TypeOK ==
  /\ trust \in [Agents -> Trust]
  /\ reason \in [Agents -> {"none", "replicate", "record"}]
  /\ known \subseteq Agents
  /\ policy \in Policies \cup {NoPolicy}
  /\ count \in Counters /\ foreign \in Counters
  /\ pc \in [Kernels -> Deciding \cup Executing \cup {"idle", "undo"}]
  /\ loc \in [Kernels -> Local]
  /\ lost \subseteq Agents

Idle == [parent |-> NoAgent, child |-> NoAgent, pol |-> NoPolicy,
         parentTrust |-> Neutral, expected |-> Neutral, written |-> Neutral,
         peak |-> Neutral, stale |-> FALSE]

Init ==
  /\ trust = [a \in Agents |-> Neutral]
  /\ reason = [a \in Agents |-> "none"]
  /\ known = Known
  /\ policy \in Policies \cup {NoPolicy}
  /\ count = [g \in Policies |-> [a \in Agents |-> 0]]
  /\ foreign = count
  /\ pc = [k \in Kernels |-> "idle"]
  /\ loc = [k \in Kernels |-> Idle]
  /\ lost = {}

IsCold(a) == reason[a] = "none"
Higher(x, y) == IF x >= y THEN x ELSE y

\* A write to the trust of agent a, seen by the kernels whose parent a is.
SetTrust(a, t, r) ==
  /\ trust' = [trust EXCEPT ![a] = t]
  /\ reason' = [reason EXCEPT ![a] = r]

Watch(l, a, t) ==
  IF l.parent = a
  THEN [l EXCEPT !.peak = Higher(t, l.peak), !.stale = TRUE] ELSE l

WatchAll(a, t) == [k \in Kernels |-> Watch(loc[k], a, t)]

-----------------------------------------------------------------------------
(* Everything around the kernels. *)

\* Engine.RecordSuccess and RecordFailure move the score.
RecordOutcome ==
  /\ \E a \in Agents, t \in Trust :
       SetTrust(a, t, "record") /\ loc' = WatchAll(a, t)
  /\ UNCHANGED <<known, policy, count, foreign, pc, lost>>

\* Engine.Reset forgets the agent.
ResetAgent ==
  /\ \E a \in Agents :
       SetTrust(a, Neutral, "none") /\ loc' = WatchAll(a, Neutral)
  /\ UNCHANGED <<known, policy, count, foreign, pc, lost>>

\* SetReplicationPolicy stores any pointer: nil, a new object, or one that was
\* in force before, which still has its counters.
SetReplicationPolicy ==
  /\ policy' \in Policies \cup {NoPolicy}
  /\ UNCHANGED <<trust, reason, known, count, foreign, pc, loc, lost>>

\* ReplicationPolicy.Reset of one parent, on any object.
ResetCount ==
  /\ \E g \in Policies, a \in Agents :
       /\ count' = [count EXCEPT ![g][a] = 0]
       /\ foreign' = [foreign EXCEPT ![g][a] = 0]
  /\ UNCHANGED <<trust, reason, known, policy, pc, loc, lost>>

Environment == RecordOutcome \/ ResetAgent \/ SetReplicationPolicy \/ ResetCount

-----------------------------------------------------------------------------
(* Scheduler.Replicate: a refusal at any step leaves nothing behind. *)

Goto(k, l) == pc' = [pc EXCEPT ![k] = l]
Refuse(k)  == Goto(k, "idle") /\ loc' = [loc EXCEPT ![k] = Idle]
Shared     == <<trust, reason, known, policy, count, foreign, lost>>

\* Steps 1 and 2: the policy is read under s.mu; empty IDs are refused.
Begin(k) ==
  /\ pc[k] = "idle" /\ policy # NoPolicy
  /\ \E r \in Requests :
       /\ r[1] # NoAgent /\ r[2] # NoAgent
       /\ loc' = [loc EXCEPT ![k] =
                    [Idle EXCEPT !.parent = r[1], !.child = r[2], !.pol = policy,
                                 !.peak = trust[r[1]]]]
  /\ Goto(k, "parent")
  /\ UNCHANGED Shared

\* Step 3: GetAgent finds the card, or not, or fails.
CheckParent(k) ==
  /\ pc[k] = "parent"
  /\ \/ Refuse(k)
     \/ loc[k].parent \in known /\ Goto(k, "cold") /\ UNCHANGED loc
  /\ UNCHANGED Shared

\* Step 4: a failed IsCold does not block.
CheckCold(k) ==
  /\ pc[k] = "cold"
  /\ \/ IsCold(loc[k].parent) /\ Refuse(k)
     \/ Goto(k, "trust") /\ UNCHANGED loc
  /\ UNCHANGED Shared

\* Mutant: a failed read counts as full trust.
ReadTrustFailsOpen(k) ==
  /\ pc[k] = "trust"
  /\ loc' \in {[loc EXCEPT ![k].parentTrust = trust[loc[k].parent],
                           ![k].stale = FALSE],
               [loc EXCEPT ![k].parentTrust = MaxTrust, ![k].stale = TRUE]}
  /\ Goto(k, "gate")
  /\ UNCHANGED Shared

\* Step 5: the error of TrustScore is dropped, its value is the neutral one.
ReadTrust(k) ==
  /\ pc[k] = "trust"
  /\ loc' \in {[loc EXCEPT ![k].parentTrust = trust[loc[k].parent],
                           ![k].stale = FALSE],
               [loc EXCEPT ![k].parentTrust = Neutral, ![k].stale = TRUE]}
  /\ Goto(k, "gate")
  /\ UNCHANGED Shared

\* Mutant: one child too many.
CanReplicateOneMore(t, n) == t >= MinTrust /\ n <= MaxChildren

\* CanReplicate, on the policy read at the start.
CanReplicate(t, n) == t >= MinTrust /\ n < MaxChildren

\* Mutant: the expected trust is never filled in.
DecideBlank(k) ==
  /\ pc[k] = "gate"
  /\ IF CanReplicate(loc[k].parentTrust, count[loc[k].pol][loc[k].parent])
     THEN Goto(k, "decided") /\ UNCHANGED loc
     ELSE Refuse(k)
  /\ UNCHANGED Shared

\* ChildCount, the gate, and the decision.
Decide(k) ==
  /\ pc[k] = "gate"
  /\ IF CanReplicate(loc[k].parentTrust, count[loc[k].pol][loc[k].parent])
     THEN /\ loc' = [loc EXCEPT ![k].expected = Inherit[loc[k].parentTrust]]
          /\ Goto(k, "decided")
     ELSE Refuse(k)
  /\ UNCHANGED Shared

-----------------------------------------------------------------------------
(* The kernel, as documented in scheduler.go and types.go. *)

\* Mutant: the child gets one level more, without a cap.
WriteTrustUncapped(k) ==
  /\ pc[k] = "decided"
  /\ LET t == Inherit[trust[loc[k].parent]] + 1 IN
     /\ ~IsCold(loc[k].parent)
     /\ SetTrust(loc[k].child, t, "replicate")
     /\ loc' = [loc EXCEPT ![k].written = t]
  /\ Goto(k, "written")
  /\ UNCHANGED <<known, policy, count, foreign, lost>>

\* engine.Replicate reads the parent's trust of that moment; a cold parent or
\* a failed write ends the replication.
WriteTrust(k) ==
  /\ pc[k] = "decided"
  /\ \/ Refuse(k) /\ UNCHANGED <<trust, reason>>
     \/ LET t == Inherit[trust[loc[k].parent]] IN
        /\ ~IsCold(loc[k].parent)
        /\ SetTrust(loc[k].child, t, "replicate")
        /\ loc' = [j \in Kernels |->
                     IF j = k THEN [loc[k] EXCEPT !.written = t]
                              ELSE Watch(loc[j], loc[k].child, t)]
        /\ Goto(k, "written")
  /\ UNCHANGED <<known, policy, count, foreign, lost>>

\* Mutant: nothing is undone when it fails.
HeartbeatNoUndo(k) ==
  /\ pc[k] = "written"
  /\ \/ known' = known \cup {loc[k].child} /\ Goto(k, "registered")
     \/ UNCHANGED known /\ Goto(k, "idle")
  /\ UNCHANGED <<trust, reason, policy, count, foreign, loc, lost>>

\* registry.Heartbeat registers the child, or fails.
Heartbeat(k) ==
  /\ pc[k] = "written"
  /\ \/ known' = known \cup {loc[k].child} /\ Goto(k, "registered")
     \/ UNCHANGED known /\ Goto(k, "undo")
  /\ UNCHANGED <<trust, reason, policy, count, foreign, loc, lost>>

\* RollbackReplicate deletes the child's trust if its last record is a
\* replication, and otherwise leaves it to whoever wrote it.  It may fail.
Rollback(k) ==
  /\ pc[k] = "undo"
  /\ LET a == loc[k].child IN
     \/ /\ reason[a] = "replicate"
        /\ SetTrust(a, Neutral, "none")
        /\ loc' = [WatchAll(a, Neutral) EXCEPT ![k] = Idle]
        /\ UNCHANGED lost
     \/ /\ reason[a] # "replicate"
        /\ loc' = [loc EXCEPT ![k] = Idle]
        /\ UNCHANGED <<trust, reason, lost>>
     \/ /\ lost' = lost \cup {a}
        /\ loc' = [loc EXCEPT ![k] = Idle]
        /\ UNCHANGED <<trust, reason>>
  /\ Goto(k, "idle")
  /\ UNCHANGED <<known, policy, count, foreign>>

\* One more child of agent a on policy object g.
Count(f, g, a) == [f EXCEPT ![g][a] = f[g][a] + 1]

\* RecordChild on the policy of that moment, if there is one.
RecordChild(k) ==
  /\ pc[k] = "registered"
  /\ LET a == loc[k].parent IN
     \/ policy = NoPolicy /\ UNCHANGED <<count, foreign>>
     \/ /\ policy = loc[k].pol
        /\ count' = Count(count, policy, a) /\ UNCHANGED foreign
     \/ /\ policy \notin {NoPolicy, loc[k].pol} /\ foreign[policy][a] < MaxForeign
        /\ count' = Count(count, policy, a) /\ foreign' = Count(foreign, policy, a)
  /\ Refuse(k)
  /\ UNCHANGED <<trust, reason, known, policy, lost>>

\* A kernel dies between two steps; what it wrote stays.
Crash(k) ==
  /\ pc[k] # "idle"
  /\ Refuse(k)
  /\ lost' = IF pc[k] \in {"written", "undo"} THEN lost \cup {loc[k].child}
                                              ELSE lost
  /\ UNCHANGED <<trust, reason, known, policy, count, foreign>>

Step(k) == \/ Begin(k) \/ CheckParent(k) \/ CheckCold(k) \/ ReadTrust(k)
           \/ Decide(k) \/ WriteTrust(k) \/ Heartbeat(k) \/ Rollback(k)
           \/ RecordChild(k)

Next == Environment \/ \E k \in Kernels : Step(k) \/ Crash(k)

Spec == Init /\ [][Next]_vars

-----------------------------------------------------------------------------
(* Properties. *)

\* The limit is checked and counted in different steps, and counted on whatever
\* object is in force then, so it can be passed: an object counts one child per
\* other kernel too many, and the children that another object let through, and
\* no more (SetReplicationPolicy, ChildCount, RecordChild).
OvershootBounded ==
  \A g \in Policies, a \in Agents :
    count[g][a] <= MaxChildren - 1 + Cardinality(Kernels) + foreign[g][a]

\* With a threshold above the neutral score, a replication under way means the
\* parent did have that much trust at some moment of the call, whatever reads
\* of it failed (IsCold and TrustScore errors do not block).
DecisionEarned ==
  \A k \in Kernels :
    pc[k] \in Executing /\ Neutral < MinTrust => loc[k].peak >= MinTrust

\* The child gets the trust the decision announced, unless the parent's trust
\* was misread or has changed since.
ExpectedIfUndisturbed ==
  \A k \in Kernels :
    pc[k] = "written" /\ ~loc[k].stale => loc[k].written = loc[k].expected

\* A child with replicated trust and no registry card is one a kernel is still
\* busy with, or was when it crashed or failed to undo it.
NoOrphanTrust ==
  \A a \in Agents :
    reason[a] = "replicate" /\ a \notin known
      => \/ a \in lost
         \/ \E k \in Kernels : loc[k].child = a /\ pc[k] \in {"written", "undo"}

=============================================================================
