--------------------------- MODULE ReplicationProofs ---------------------------
(***************************************************************************)
(* Proofs about Replication, for any number of kernels, agents, policy     *)
(* objects and trust levels.                                               *)
(***************************************************************************)
EXTENDS Replication, FiniteSetTheorems, TLAPS

States == Deciding \cup Executing \cup {"idle", "undo"}

\* A kernel that replicates nothing holds well-typed variables.
LEMMA IdleType == Idle \in Local
  BY ReplicationAssumption DEF Idle, Local, Trust

\* Watching a kernel's parent changes its history fields only.
LEMMA WatchType ==
  ASSUME NEW l \in Local, NEW a \in Agents, NEW t \in Trust
  PROVE  /\ Watch(l, a, t) \in Local
         /\ Watch(l, a, t).parent = l.parent
         /\ Watch(l, a, t).child = l.child
         /\ Watch(l, a, t).pol = l.pol
<1>1. Higher(t, l.peak) \in Trust
  BY DEF Higher, Local
<1>2. [l EXCEPT !.peak = Higher(t, l.peak), !.stale = TRUE] \in Local
  BY <1>1 DEF Local
<1> QED
  BY <1>2 DEF Watch, Local

\* The variables a kernel holds, by field.
LEMMA LocalType ==
  ASSUME TypeOK, NEW k \in Kernels
  PROVE  /\ loc[k] \in Local
         /\ loc[k].parent \in Agents \cup {NoAgent}
         /\ loc[k].child \in Agents \cup {NoAgent}
         /\ loc[k].pol \in Policies \cup {NoPolicy}
         /\ loc[k].parentTrust \in Trust
<1>1. loc[k] \in Local
  BY DEF TypeOK
<1> QED
  BY <1>1 DEF Local

\* A kernel past the first step has a parent and a child that are agents, and a
\* policy.
Named == \A k \in Kernels : pc[k] # "idle" => /\ loc[k].parent \in Agents
                                             /\ loc[k].child \in Agents
                                             /\ loc[k].pol \in Policies

\* A request is a pair of IDs.
LEMMA RequestType ==
  ASSUME NEW r \in Requests, r[1] # NoAgent, r[2] # NoAgent
  PROVE  r[1] \in Agents /\ r[2] \in Agents
<1>1. r \in (Agents \cup {NoAgent}) \X (Agents \cup {NoAgent})
  BY ReplicationAssumption
<1> QED
  BY <1>1

-----------------------------------------------------------------------------
(* What each step does to the variables the bound is about. *)

\* Typing of the two variables a kernel's step changes in its own place.
LEMMA PlaceType ==
  ASSUME TypeOK, NEW k \in Kernels, NEW l \in States, NEW x \in Local,
         Goto(k, l), loc' = [loc EXCEPT ![k] = x]
  PROVE  pc' \in [Kernels -> States] /\ loc' \in [Kernels -> Local]
  BY DEF TypeOK, Goto, States

\* The initial states are well typed.
LEMMA TypeInit == Init => TypeOK
  BY IdleType, ReplicationAssumption DEF Init, TypeOK, Counters, Trust

\* What SetTrust writes, and what the kernels watching it hold afterwards.
LEMMA SetTrustType ==
  ASSUME TypeOK, NEW a \in Agents, NEW t \in Trust,
         NEW r \in {"none", "replicate", "record"}, SetTrust(a, t, r)
  PROVE  /\ trust' \in [Agents -> Trust]
         /\ reason' \in [Agents -> {"none", "replicate", "record"}]
  BY DEF TypeOK, SetTrust

\* The history of every kernel stays well typed when trust is written.
LEMMA WatchAllType ==
  ASSUME TypeOK, NEW a \in Agents, NEW t \in Trust
  PROVE  WatchAll(a, t) \in [Kernels -> Local]
<1>1. \A k \in Kernels : Watch(loc[k], a, t) \in Local
  BY WatchType, LocalType
<1> QED
  BY <1>1 DEF WatchAll

\* One more child of an agent on a policy object.
LEMMA CountType ==
  ASSUME NEW f \in Counters, NEW g \in Policies, NEW a \in Agents
  PROVE  /\ Count(f, g, a) \in Counters
         /\ Count(f, g, a)[g][a] = f[g][a] + 1
         /\ \A h \in Policies, b \in Agents :
              h # g \/ b # a => Count(f, g, a)[h][b] = f[h][b]
<1>1. f \in [Policies -> [Agents -> Nat]] /\ f[g] \in [Agents -> Nat] /\ f[g][a] \in Nat
  BY DEF Counters
<1>2. [f[g] EXCEPT ![a] = f[g][a] + 1] \in [Agents -> Nat]
  BY <1>1
<1> QED
  BY <1>1, <1>2 DEF Counters, Count

-----------------------------------------------------------------------------
Typed == TypeOK /\ Named

\* Every step keeps the types, action by action.
LEMMA TypeNext == Typed /\ [Next]_vars => Typed'
<1> SUFFICES ASSUME Typed, [Next]_vars PROVE Typed'
  OBVIOUS
<1>0. TypeOK /\ Named
  BY DEF Typed
<1>n. Neutral \in Trust
  BY ReplicationAssumption
<1>1. CASE UNCHANGED vars
  BY <1>1 DEF vars, Typed, TypeOK, Named
<1>2. CASE Environment
  <2>1. ASSUME NEW a \in Agents, NEW t \in Trust, NEW r \in {"none", "record"},
               SetTrust(a, t, r), loc' = WatchAll(a, t),
               UNCHANGED <<known, policy, count, foreign, pc, lost>>
        PROVE  Typed'
    <3>1. /\ trust' \in [Agents -> Trust]
          /\ reason' \in [Agents -> {"none", "replicate", "record"}]
      BY <1>0, <2>1, SetTrustType
    <3>2. loc' \in [Kernels -> Local]
      BY <1>0, <2>1, WatchAllType
    <3>3. TypeOK'
      BY <1>0, <2>1, <3>1, <3>2 DEF TypeOK
    <3>4. \A k \in Kernels : loc'[k].parent = loc[k].parent
                             /\ loc'[k].child = loc[k].child
                             /\ loc'[k].pol = loc[k].pol
      BY <1>0, <2>1, WatchType, LocalType DEF WatchAll
    <3>5. Named'
      BY <1>0, <2>1, <3>4 DEF Named
    <3> QED
      BY <3>3, <3>5 DEF Typed
  <2>2. CASE RecordOutcome
    BY <2>1, <2>2 DEF RecordOutcome
  <2>3. CASE ResetAgent
    BY <1>n, <2>1, <2>3 DEF ResetAgent
  <2>4. CASE SetReplicationPolicy
    <3>1. policy' \in Policies \cup {NoPolicy}
      BY <2>4 DEF SetReplicationPolicy
    <3>3. TypeOK'
      BY <1>0, <2>4, <3>1 DEF SetReplicationPolicy, TypeOK
    <3> QED
      BY <1>0, <2>4, <3>3 DEF SetReplicationPolicy, Typed, Named
  <2>5. CASE ResetCount
    <3>1. count' \in Counters /\ foreign' \in Counters
      BY <1>0, <2>5 DEF ResetCount, TypeOK, Counters
    <3>2. TypeOK'
      BY <1>0, <2>5, <3>1 DEF ResetCount, TypeOK
    <3> QED
      BY <1>0, <2>5, <3>2 DEF ResetCount, Typed, Named
  <2> QED
    BY <1>2, <2>2, <2>3, <2>4, <2>5 DEF Environment
<1>3. ASSUME NEW k \in Kernels, Step(k) \/ Crash(k)
      PROVE  Typed'
  <2>0. /\ loc[k] \in Local
        /\ loc[k].parent \in Agents \cup {NoAgent}
        /\ loc[k].child \in Agents \cup {NoAgent}
        /\ loc[k].pol \in Policies \cup {NoPolicy} /\ loc[k].parentTrust \in Trust
    BY <1>0, LocalType
  \* A step that changes only its own place and variables.
  <2>1. ASSUME NEW l \in States, NEW x \in Local,
               Goto(k, l), loc' = [loc EXCEPT ![k] = x],
               \/ l = "idle"
               \/ x.parent \in Agents /\ x.child \in Agents /\ x.pol \in Policies,
               UNCHANGED <<trust, reason, policy>>,
               known' \subseteq Agents, lost' \subseteq Agents,
               count' \in Counters /\ foreign' \in Counters
        PROVE  Typed'
    <3>1. pc' \in [Kernels -> States] /\ loc' \in [Kernels -> Local]
      BY <1>0, <2>1, PlaceType
    <3>2. TypeOK'
      BY <1>0, <2>1, <3>1 DEF TypeOK, States
    <3>3. Named'
      BY <1>0, <2>1 DEF Named, TypeOK, Goto
    <3> QED
      BY <3>2, <3>3 DEF Typed
  \* A step that writes an agent's trust, and its own place and variables.
  <2>2. ASSUME NEW l \in States, NEW a \in Agents, NEW t \in Trust,
               NEW r \in {"none", "replicate", "record"}, NEW x \in Local,
               SetTrust(a, t, r), Goto(k, l),
               loc' = [WatchAll(a, t) EXCEPT ![k] = x],
               \/ l = "idle"
               \/ x.parent \in Agents /\ x.child \in Agents /\ x.pol \in Policies,
               UNCHANGED <<known, policy, count, foreign, lost>>
        PROVE  Typed'
    <3>1. /\ trust' \in [Agents -> Trust]
          /\ reason' \in [Agents -> {"none", "replicate", "record"}]
      BY <1>0, <2>2, SetTrustType
    <3>2. loc' \in [Kernels -> Local]
      BY <1>0, <2>2, WatchAllType
    <3>3. pc' \in [Kernels -> States]
      BY <1>0, <2>2 DEF Goto, TypeOK, States
    <3>4. TypeOK'
      BY <1>0, <2>2, <3>1, <3>2, <3>3 DEF TypeOK, States
    <3>5. \A j \in Kernels : Watch(loc[j], a, t).parent = loc[j].parent
                             /\ Watch(loc[j], a, t).child = loc[j].child
                             /\ Watch(loc[j], a, t).pol = loc[j].pol
      BY <1>0, WatchType, LocalType
    <3>6. \A j \in Kernels \ {k} : loc'[j].parent = loc[j].parent
                                   /\ loc'[j].child = loc[j].child
                                   /\ loc'[j].pol = loc[j].pol
      BY <2>2, <3>5 DEF WatchAll
    <3>7. loc'[k] = x
      BY <2>2 DEF WatchAll
    <3>8. Named'
      BY <1>0, <2>2, <3>6, <3>7 DEF Named, Goto, TypeOK
    <3> QED
      BY <3>4, <3>8 DEF Typed
  <2>3. ASSUME Refuse(k), UNCHANGED <<trust, reason, known, policy>>,
               lost' \subseteq Agents, count' \in Counters /\ foreign' \in Counters
        PROVE  Typed'
    <3>1. /\ Goto(k, "idle") /\ loc' = [loc EXCEPT ![k] = Idle]
          /\ known' \subseteq Agents /\ "idle" \in States
      BY <1>0, <2>3 DEF Refuse, TypeOK, States
    <3> QED
      BY <2>1, <2>3, <3>1, IdleType
  <2>4. CASE Begin(k)
    <3>1. PICK r \in Requests :
            /\ r[1] # NoAgent /\ r[2] # NoAgent
            /\ loc' = [loc EXCEPT ![k] =
                    [Idle EXCEPT !.parent = r[1], !.child = r[2], !.pol = policy,
                                 !.peak = trust[r[1]]]]
      BY <2>4 DEF Begin
    <3>2. r[1] \in Agents /\ r[2] \in Agents
      BY <3>1, RequestType
    <3> DEFINE x == [Idle EXCEPT !.parent = r[1], !.child = r[2], !.pol = policy,
                                 !.peak = trust[r[1]]]
    <3>3. trust[r[1]] \in Trust /\ policy \in Policies
      BY <1>0, <2>4, <3>2 DEF Begin, TypeOK
    <3>4. x \in Local /\ x.parent = r[1] /\ x.child = r[2] /\ x.pol = policy
      BY <3>2, <3>3, IdleType DEF Local
    <3>5. Goto(k, "parent") /\ UNCHANGED Shared /\ "parent" \in States
      BY <2>4 DEF Begin, States, Deciding
    <3>6. loc' = [loc EXCEPT ![k] = x]
      BY <3>1
    <3> HIDE DEF x
    <3>7. /\ known' \subseteq Agents /\ lost' \subseteq Agents
          /\ count' \in Counters /\ foreign' \in Counters
          /\ UNCHANGED <<trust, reason, policy>>
      BY <1>0, <3>5 DEF TypeOK, Shared
    <3> QED
      BY <2>1, <3>2, <3>3, <3>4, <3>5, <3>6, <3>7
  \* In the other steps the kernel is past Begin.
  <2>n. ASSUME pc[k] # "idle"
        PROVE  /\ loc[k].parent \in Agents /\ loc[k].child \in Agents
               /\ loc[k].pol \in Policies
    BY <1>0, <2>n DEF Named
  <2>s. ASSUME UNCHANGED Shared
        PROVE  /\ UNCHANGED <<trust, reason, known, policy>>
               /\ known' \subseteq Agents /\ lost' \subseteq Agents
               /\ count' \in Counters /\ foreign' \in Counters
    BY <1>0, <2>s DEF TypeOK, Shared
  <2>5. ASSUME NEW l \in States, pc[k] # "idle",
               Refuse(k) \/ (Goto(k, l) /\ UNCHANGED loc), UNCHANGED Shared
        PROVE  Typed'
    <3>1. CASE Refuse(k)
      BY <2>3, <2>5, <2>s, <3>1
    <3>2. CASE Goto(k, l) /\ UNCHANGED loc
      <4>1. loc' = [loc EXCEPT ![k] = loc[k]]
        BY <1>0, <3>2 DEF TypeOK
      <4> QED
        BY <2>0, <2>1, <2>5, <2>n, <2>s, <3>2, <4>1
    <3> QED
      BY <2>5, <3>1, <3>2
  <2>6. CASE CheckParent(k)
    BY <2>5, <2>6 DEF CheckParent, States, Deciding
  <2>7. CASE CheckCold(k)
    BY <2>5, <2>7 DEF CheckCold, States, Deciding
  <2>8. CASE ReadTrust(k)
    <3>0. ASSUME NEW t, NEW b
          PROVE  [loc EXCEPT ![k].parentTrust = t, ![k].stale = b]
                 = [loc EXCEPT ![k] = [loc[k] EXCEPT !.parentTrust = t,
                                                     !.stale = b]]
      BY <1>0 DEF TypeOK
    <3>1. trust[loc[k].parent] \in Trust /\ pc[k] # "idle"
      BY <1>0, <2>8, <2>n DEF ReadTrust, TypeOK
    <3>2. ASSUME NEW t \in Trust, NEW b \in BOOLEAN,
                 loc' = [loc EXCEPT ![k].parentTrust = t, ![k].stale = b]
          PROVE  Typed'
      <4> DEFINE x == [loc[k] EXCEPT !.parentTrust = t, !.stale = b]
      <4>1. /\ x \in Local /\ x.parent = loc[k].parent /\ x.child = loc[k].child
            /\ x.pol = loc[k].pol
        BY <2>0 DEF Local
      <4>2. loc' = [loc EXCEPT ![k] = x]
        BY <3>0, <3>2
      <4>3. Goto(k, "gate") /\ UNCHANGED Shared /\ "gate" \in States
        BY <2>8 DEF ReadTrust, States, Deciding
      <4> HIDE DEF x
      <4> QED
        BY <2>1, <2>n, <2>s, <3>1, <4>1, <4>2, <4>3
    <3>3. \/ loc' = [loc EXCEPT ![k].parentTrust = trust[loc[k].parent],
                               ![k].stale = FALSE]
          \/ loc' = [loc EXCEPT ![k].parentTrust = Neutral, ![k].stale = TRUE]
      BY <2>8 DEF ReadTrust
    <3> QED
      BY <1>n, <3>1, <3>2, <3>3
  <2>9. CASE Decide(k)
    <3>0. Inherit[loc[k].parentTrust] \in Trust /\ pc[k] # "idle"
      BY <2>0, <2>9, ReplicationAssumption DEF Decide
    <3>1. CASE Refuse(k)
      BY <2>5, <2>9, <3>0, <3>1 DEF Decide, States
    <3>2. CASE Goto(k, "decided")
               /\ loc' = [loc EXCEPT ![k].expected = Inherit[loc[k].parentTrust]]
      <4> DEFINE x == [loc[k] EXCEPT !.expected = Inherit[loc[k].parentTrust]]
      <4>1. /\ x \in Local /\ x.parent = loc[k].parent /\ x.child = loc[k].child
            /\ x.pol = loc[k].pol
        BY <2>0, <3>0 DEF Local
      <4>2. loc' = [loc EXCEPT ![k] = x]
        BY <3>2
      <4>3. UNCHANGED Shared /\ "decided" \in States
        BY <2>9 DEF Decide, States, Executing
      <4> HIDE DEF x
      <4> QED
        BY <2>1, <2>n, <2>s, <3>0, <3>2, <4>1, <4>2, <4>3
    <3> QED
      BY <2>9, <3>1, <3>2 DEF Decide
  <2>10. CASE WriteTrust(k)
    <3>0. pc[k] # "idle" /\ UNCHANGED <<known, policy, count, foreign, lost>>
      BY <2>10 DEF WriteTrust
    <3>1. CASE Refuse(k) /\ UNCHANGED <<trust, reason>>
      BY <2>3, <3>0, <3>1, <1>0 DEF TypeOK
    <3>2. CASE ~(Refuse(k) /\ UNCHANGED <<trust, reason>>)
      <4> DEFINE a == loc[k].child
                 t == Inherit[trust[loc[k].parent]]
                 x == [loc[k] EXCEPT !.written = t]
      <4>1. /\ SetTrust(a, t, "replicate") /\ Goto(k, "written")
            /\ loc' = [j \in Kernels |-> IF j = k THEN x ELSE Watch(loc[j], a, t)]
        BY <2>10, <3>2 DEF WriteTrust
      <4>2. loc[k].parent \in Agents /\ a \in Agents /\ loc[k].pol \in Policies
        BY <2>n, <3>0
      <4>3. t \in Trust
        BY <1>0, <4>2, ReplicationAssumption DEF TypeOK
      <4>4. /\ x \in Local /\ x.parent = loc[k].parent /\ x.child = a
            /\ x.pol = loc[k].pol
        BY <2>0, <4>3 DEF Local
      <4> HIDE DEF x, a, t
      <4>5. loc' = [WatchAll(a, t) EXCEPT ![k] = x]
        BY <4>1 DEF WatchAll
      <4>6. "written" \in States
        BY DEF States, Executing
      <4> QED
        BY <2>2, <3>0, <4>1, <4>2, <4>3, <4>4, <4>5, <4>6
    <3> QED
      BY <3>1, <3>2
  <2>11. CASE Heartbeat(k)
    <3>1. /\ pc[k] # "idle"
          /\ UNCHANGED <<trust, reason, policy, count, foreign, loc, lost>>
          /\ \E l \in {"registered", "undo"} : Goto(k, l)
      BY <2>11 DEF Heartbeat
    <3>2. known' \subseteq Agents
      BY <1>0, <2>11, <2>n, <3>1 DEF Heartbeat, TypeOK
    <3>3. /\ loc' = [loc EXCEPT ![k] = loc[k]] /\ lost' \subseteq Agents
          /\ count' \in Counters /\ foreign' \in Counters
      BY <1>0, <3>1 DEF TypeOK
    <3>4. {"registered", "undo"} \subseteq States
      BY DEF States, Executing
    <3> QED
      BY <2>0, <2>1, <2>n, <3>1, <3>2, <3>3, <3>4
  <2>12. CASE Rollback(k)
    <3> DEFINE a == loc[k].child
    <3>1. /\ pc[k] # "idle" /\ Goto(k, "idle")
          /\ UNCHANGED <<known, policy, count, foreign>>
      BY <2>12 DEF Rollback
    <3>2. a \in Agents /\ "idle" \in States /\ Idle \in Local
      BY <2>n, <3>1, IdleType DEF States
    <3>3. CASE /\ SetTrust(a, Neutral, "none")
               /\ loc' = [WatchAll(a, Neutral) EXCEPT ![k] = Idle]
               /\ UNCHANGED lost
      BY <1>n, <2>2, <3>1, <3>2, <3>3
    <3>4. CASE /\ lost' \in {lost, lost \cup {a}}
               /\ loc' = [loc EXCEPT ![k] = Idle]
               /\ UNCHANGED <<trust, reason>>
      <4>1. Refuse(k)
        BY <3>1, <3>4 DEF Refuse
      <4>2. lost' \subseteq Agents /\ count' \in Counters /\ foreign' \in Counters
        BY <1>0, <3>1, <3>2, <3>4 DEF TypeOK
      <4> QED
        BY <2>3, <3>1, <3>4, <4>1, <4>2
    <3> QED
      BY <2>12, <3>3, <3>4 DEF Rollback
  <2>13. CASE RecordChild(k)
    <3>1. /\ pc[k] # "idle" /\ Refuse(k)
          /\ UNCHANGED <<trust, reason, known, policy, lost>>
      BY <2>13 DEF RecordChild
    <3>2. count' \in Counters /\ foreign' \in Counters
      <4>1. /\ count \in Counters /\ foreign \in Counters
            /\ policy # NoPolicy => policy \in Policies
            /\ loc[k].parent \in Agents
        BY <1>0, <2>n, <3>1 DEF TypeOK
      <4>2. \/ UNCHANGED <<count, foreign>>
            \/ /\ policy # NoPolicy /\ count' = Count(count, policy, loc[k].parent)
               /\ foreign' \in {foreign, Count(foreign, policy, loc[k].parent)}
        BY <2>13, <2>n, <3>1, ReplicationAssumption DEF RecordChild, Refuse
      <4> QED
        BY <4>1, <4>2, CountType
    <3>3. lost' \subseteq Agents
      BY <1>0, <3>1 DEF TypeOK
    <3> QED
      BY <2>3, <3>1, <3>2, <3>3
  <2>14. CASE Crash(k)
    <3>1. /\ pc[k] # "idle" /\ Refuse(k)
          /\ UNCHANGED <<trust, reason, known, policy, count, foreign>>
          /\ lost' \in {lost, lost \cup {loc[k].child}}
      BY <2>14 DEF Crash
    <3>2. lost' \subseteq Agents /\ count' \in Counters /\ foreign' \in Counters
      BY <1>0, <2>n, <3>1 DEF TypeOK
    <3> QED
      BY <2>3, <3>1, <3>2
  <2> QED
    BY <1>3, <2>4, <2>6, <2>7, <2>8, <2>9, <2>10, <2>11, <2>12, <2>13, <2>14
    DEF Step
<1> QED
  BY <1>1, <1>2, <1>3 DEF Next

\* Every variable keeps its type: Replicate and the kernel's three writes,
\* for any number of kernels and policy objects.
THEOREM ReplicationTyped == Spec => []TypeOK
<1>1. Init => Typed
  BY TypeInit DEF Typed, Named, Init
<1>2. Typed => TypeOK
  BY DEF Typed
<1> QED
  BY <1>1, <1>2, TypeNext, PTL DEF Spec

-----------------------------------------------------------------------------
(* The number of children: a kernel under way keeps its place below the     *)
(* bound of the object that let it through; a child counted elsewhere        *)
(* raises that object's bound.                                               *)

Bound == MaxChildren - 1 + Cardinality(Kernels)

\* Kernels that object g let through for parent a, and that have yet to count.
Underway(g, a) ==
  {k \in Kernels : pc[k] \in Executing /\ loc[k].parent = a /\ loc[k].pol = g}

Reserved ==
  \A g \in Policies, a \in Agents :
    count[g][a] + Cardinality(Underway(g, a)) <= Bound + foreign[g][a]

IInv == Typed /\ Reserved

\* The numbers of the bound are natural numbers.
LEMMA BoundType ==
  /\ Bound \in Nat /\ Cardinality(Kernels) \in Nat /\ Cardinality(Kernels) <= Bound
  /\ MaxChildren \in Nat /\ Bound = MaxChildren - 1 + Cardinality(Kernels)
<1>1. Cardinality(Kernels) \in Nat /\ MaxChildren \in Nat \ {0}
  BY ReplicationAssumption, FS_CardinalityType
<1> QED
  BY <1>1 DEF Bound

LEMMA CounterType ==
  ASSUME TypeOK, NEW g \in Policies, NEW a \in Agents
  PROVE  count[g][a] \in Nat /\ foreign[g][a] \in Nat
  BY DEF TypeOK, Counters

LEMMA CounterTypeNext ==
  ASSUME TypeOK', NEW g \in Policies, NEW a \in Agents
  PROVE  count'[g][a] \in Nat /\ foreign'[g][a] \in Nat
  BY DEF TypeOK, Counters

\* The kernels under way are finitely many, so they can be counted.
LEMMA UnderwayFinite ==
  ASSUME NEW g, NEW a
  PROVE  /\ IsFiniteSet(Underway(g, a)) /\ Cardinality(Underway(g, a)) \in Nat
         /\ Cardinality(Underway(g, a)) <= Cardinality(Kernels)
<1>1. Underway(g, a) \subseteq Kernels /\ IsFiniteSet(Kernels)
  BY ReplicationAssumption DEF Underway
<1> QED
  BY <1>1, FS_Subset, FS_CardinalityType

\* The same in the next state.
LEMMA UnderwayFiniteNext ==
  ASSUME NEW g, NEW a
  PROVE  /\ IsFiniteSet(Underway(g, a)') /\ Cardinality(Underway(g, a)') \in Nat
         /\ Cardinality(Underway(g, a)') <= Cardinality(Kernels)
<1>1. Underway(g, a)' \subseteq Kernels /\ IsFiniteSet(Kernels)
  BY ReplicationAssumption DEF Underway
<1> QED
  BY <1>1, FS_Subset, FS_CardinalityType

\* Nothing is counted at the start, and no kernel is busy.
LEMMA BoundInit == Init => IInv
<1> SUFFICES ASSUME Init PROVE IInv
  OBVIOUS
<1>1. Typed
  BY TypeInit DEF Typed, Named, Init
<1>2. \A g \in Policies, a \in Agents : count[g][a] = 0 /\ foreign[g][a] = 0
  BY DEF Init
<1>3. Reserved
  BY <1>2, UnderwayFinite, BoundType DEF Reserved
<1> QED
  BY <1>1, <1>3 DEF IInv

\* A step that lets no kernel through: counters stay, or go back to 0.
LEMMA Shrink ==
  ASSUME IInv, Typed',
         \A g \in Policies, a \in Agents : Underway(g, a)' \subseteq Underway(g, a),
         \A g \in Policies, a \in Agents :
           \/ count'[g][a] = count[g][a] /\ foreign'[g][a] = foreign[g][a]
           \/ count'[g][a] = 0
  PROVE  IInv'
<1> SUFFICES ASSUME NEW g \in Policies, NEW a \in Agents
             PROVE  count'[g][a] + Cardinality(Underway(g, a)')
                      <= Bound + foreign'[g][a]
  BY DEF IInv, Reserved, Bound
<1>1. Cardinality(Underway(g, a)') <= Cardinality(Underway(g, a))
  BY UnderwayFinite, FS_Subset
<1>2. count[g][a] + Cardinality(Underway(g, a)) <= Bound + foreign[g][a]
  BY DEF IInv, Reserved
<1>3. /\ count[g][a] \in Nat /\ foreign[g][a] \in Nat
      /\ count'[g][a] \in Nat /\ foreign'[g][a] \in Nat
  BY CounterType, CounterTypeNext DEF IInv, Typed
<1>4. /\ Cardinality(Underway(g, a)) \in Nat /\ Cardinality(Underway(g, a)') \in Nat
      /\ Cardinality(Underway(g, a)') <= Cardinality(Kernels)
  BY UnderwayFinite, UnderwayFiniteNext
<1>5. CASE count'[g][a] = count[g][a] /\ foreign'[g][a] = foreign[g][a]
  BY <1>1, <1>2, <1>3, <1>4, <1>5, BoundType
<1>6. CASE count'[g][a] = 0
  BY <1>3, <1>4, <1>6, BoundType
<1> QED
  BY <1>5, <1>6

\* A kernel's step that counts no child and lets none through: it leaves, goes
\* on deciding, or goes on executing as before.
LEMMA Quiet ==
  ASSUME IInv, Typed', NEW k \in Kernels, UNCHANGED <<count, foreign>>,
         \A j \in Kernels \ {k} : /\ pc'[j] = pc[j]
                                  /\ loc'[j].parent = loc[j].parent
                                  /\ loc'[j].pol = loc[j].pol,
         \/ pc'[k] \notin Executing
         \/ /\ pc[k] \in Executing
            /\ loc'[k].parent = loc[k].parent /\ loc'[k].pol = loc[k].pol
  PROVE  IInv'
<1>1. \A g \in Policies, a \in Agents : Underway(g, a)' \subseteq Underway(g, a)
  BY DEF Underway
<1> QED
  BY <1>1, Shrink

\* The gate: the count it saw is below the limit, so even with every kernel
\* under way on that object the bound holds.
LEMMA LetThrough ==
  ASSUME IInv, Typed', NEW k \in Kernels, Decide(k), ~Refuse(k)
  PROVE  IInv'
<1> DEFINE p == loc[k].parent
           h == loc[k].pol
<1>1. /\ loc[k] \in Local /\ p \in Agents /\ h \in Policies /\ pc[k] = "gate"
      /\ pc \in [Kernels -> States] /\ loc \in [Kernels -> Local]
  BY LocalType DEF IInv, Typed, TypeOK, Named, States, Decide
<1>2. /\ count[h][p] < MaxChildren /\ Goto(k, "decided") /\ UNCHANGED <<count, foreign>>
      /\ loc' = [loc EXCEPT ![k].expected = Inherit[loc[k].parentTrust]]
  BY DEF Decide, CanReplicate, Shared
<1>3. /\ \A j \in Kernels \ {k} : pc'[j] = pc[j] /\ loc'[j] = loc[j]
      /\ loc'[k].parent = p /\ loc'[k].pol = h
  BY <1>1, <1>2 DEF Goto, Local
<1> SUFFICES ASSUME NEW g \in Policies, NEW a \in Agents
             PROVE  count[g][a] + Cardinality(Underway(g, a)') <= Bound + foreign[g][a]
  BY <1>2 DEF IInv, Reserved, Bound
<1>4. /\ count[g][a] \in Nat /\ foreign[g][a] \in Nat
      /\ Cardinality(Underway(g, a)) \in Nat /\ Cardinality(Underway(g, a)') \in Nat
      /\ Cardinality(Underway(g, a)') <= Cardinality(Kernels)
      /\ count[g][a] + Cardinality(Underway(g, a)) <= Bound + foreign[g][a]
  BY CounterType, UnderwayFinite, UnderwayFiniteNext DEF IInv, Reserved, Typed
<1>5. CASE g = h /\ a = p
  <2>1. count[g][a] < MaxChildren
    BY <1>2, <1>5
  <2> QED
    BY <1>4, <2>1, BoundType
<1>6. CASE g # h \/ a # p
  <2>1. Underway(g, a)' \subseteq Underway(g, a)
    BY <1>3, <1>6 DEF Underway
  <2>2. Cardinality(Underway(g, a)') <= Cardinality(Underway(g, a))
    BY <2>1, UnderwayFinite, FS_Subset
  <2> QED
    BY <1>4, <2>2, BoundType
<1> QED
  BY <1>5, <1>6

\* RecordChild: the kernel gives up its place, if it has one on the object it
\* counts on; if not, the child counts as another object's.
LEMMA Recorded ==
  ASSUME IInv, Typed', NEW k \in Kernels, RecordChild(k)
  PROVE  IInv'
<1> DEFINE p == loc[k].parent
           h == loc[k].pol
<1>1. /\ p \in Agents /\ h \in Policies /\ pc[k] = "registered"
      /\ pc \in [Kernels -> States] /\ loc \in [Kernels -> Local]
      /\ count \in Counters /\ foreign \in Counters
      /\ policy # NoPolicy => policy \in Policies
  BY DEF IInv, Typed, TypeOK, Named, States, RecordChild
<1>2. /\ \A j \in Kernels \ {k} : pc'[j] = pc[j] /\ loc'[j] = loc[j]
      /\ pc'[k] = "idle"
  BY <1>1 DEF RecordChild, Refuse, Goto
<1>3. CASE UNCHANGED <<count, foreign>>
  BY <1>2, <1>3, Quiet DEF Executing
<1>4. CASE policy \in Policies /\ count' = Count(count, policy, p)
  <2> SUFFICES ASSUME NEW g \in Policies, NEW a \in Agents
               PROVE  count'[g][a] + Cardinality(Underway(g, a)')
                        <= Bound + foreign'[g][a]
    BY DEF IInv, Reserved, Bound
  <2>1. /\ count[g][a] \in Nat /\ foreign[g][a] \in Nat
        /\ Cardinality(Underway(g, a)) \in Nat /\ Cardinality(Underway(g, a)') \in Nat
        /\ count[g][a] + Cardinality(Underway(g, a)) <= Bound + foreign[g][a]
    BY CounterType, UnderwayFinite, UnderwayFiniteNext DEF IInv, Reserved, Typed
  <2>2. Underway(g, a)' \subseteq Underway(g, a) \ {k}
    BY <1>2 DEF Underway, Executing
  <2>3. Cardinality(Underway(g, a)') <= Cardinality(Underway(g, a))
    BY <2>2, UnderwayFinite, FS_Subset
  <2>4. CASE g # policy \/ a # p
    <3>1. count'[g][a] = count[g][a]
      BY <1>1, <1>4, <2>4, CountType
    <3>2. foreign'[g][a] = foreign[g][a]
      BY <1>1, <1>4, <2>4, CountType DEF RecordChild
    <3> QED
      BY <2>1, <2>3, <3>1, <3>2, BoundType
  <2>5. CASE g = policy /\ a = p /\ policy = h
    <3>1. count'[g][a] = count[g][a] + 1
      BY <1>1, <1>4, <2>5, CountType
    <3>2. foreign' = foreign
      BY <1>1, <2>5 DEF RecordChild, Typed, TypeOK, IInv
    <3>3. k \in Underway(g, a)
      BY <1>1, <2>5 DEF Underway, Executing
    <3>4. /\ IsFiniteSet(Underway(g, a) \ {k})
          /\ Cardinality(Underway(g, a) \ {k}) = Cardinality(Underway(g, a)) - 1
      BY <3>3, UnderwayFinite, FS_RemoveElement
    <3>5. Cardinality(Underway(g, a)') <= Cardinality(Underway(g, a)) - 1
      BY <2>2, <3>4, FS_Subset
    <3> QED
      BY <2>1, <3>1, <3>2, <3>5, BoundType
  <2>6. CASE g = policy /\ a = p /\ policy # h
    <3>1. count'[g][a] = count[g][a] + 1
      BY <1>1, <1>4, <2>6, CountType
    <3>2. foreign' = Count(foreign, policy, p)
      BY <1>4, <2>6, ReplicationAssumption DEF RecordChild
    <3>3. foreign'[g][a] = foreign[g][a] + 1
      BY <1>1, <1>4, <2>6, <3>2, CountType
    <3> QED
      BY <2>1, <2>3, <3>1, <3>3, BoundType
  <2> QED
    BY <2>4, <2>5, <2>6
<1>5. ~UNCHANGED <<count, foreign>>
        => policy \in Policies /\ count' = Count(count, policy, p)
  BY <1>1 DEF RecordChild
<1> QED
  BY <1>3, <1>4, <1>5

\* Every step keeps the bound, action by action.
LEMMA BoundNext == IInv /\ [Next]_vars => IInv'
<1> SUFFICES ASSUME IInv, [Next]_vars PROVE IInv'
  OBVIOUS
<1>0. TypeOK /\ Typed /\ Typed' /\ TypeOK'
  BY TypeNext DEF IInv, Typed
<1>1. ASSUME UNCHANGED <<count, foreign, pc>>,
             \A j \in Kernels : /\ loc'[j].parent = loc[j].parent
                                /\ loc'[j].pol = loc[j].pol
      PROVE  IInv'
  <2>1. \A g \in Policies, a \in Agents : Underway(g, a)' \subseteq Underway(g, a)
    BY <1>1 DEF Underway
  <2> QED
    BY <1>0, <1>1, <2>1, Shrink
<1>2. CASE UNCHANGED vars
  BY <1>1, <1>2 DEF vars
<1>3. CASE Environment
  <2>1. ASSUME NEW a \in Agents, NEW t \in Trust, loc' = WatchAll(a, t),
               UNCHANGED <<known, policy, count, foreign, pc, lost>>
        PROVE  IInv'
    <3>1. \A j \in Kernels : /\ loc'[j].parent = loc[j].parent
                             /\ loc'[j].pol = loc[j].pol
      BY <1>0, <2>1, WatchType, LocalType DEF WatchAll
    <3> QED
      BY <1>1, <2>1, <3>1
  <2>2. CASE RecordOutcome
    BY <2>1, <2>2 DEF RecordOutcome
  <2>3. CASE ResetAgent
    BY <2>1, <2>3, ReplicationAssumption DEF ResetAgent
  <2>4. CASE SetReplicationPolicy
    BY <1>1, <2>4 DEF SetReplicationPolicy
  <2>5. CASE ResetCount
    <3>1. UNCHANGED <<pc, loc>>
      BY <2>5 DEF ResetCount
    <3>2. \A g \in Policies, a \in Agents :
            \/ count'[g][a] = count[g][a] /\ foreign'[g][a] = foreign[g][a]
            \/ count'[g][a] = 0
      BY <1>0, <2>5 DEF ResetCount, TypeOK, Counters
    <3>3. \A g \in Policies, a \in Agents : Underway(g, a)' \subseteq Underway(g, a)
      BY <3>1 DEF Underway
    <3> QED
      BY <1>0, <3>2, <3>3, Shrink
  <2> QED
    BY <1>3, <2>2, <2>3, <2>4, <2>5 DEF Environment
<1>4. ASSUME NEW k \in Kernels, Step(k) \/ Crash(k)
      PROVE  IInv'
  <2>0. loc[k] \in Local
    BY <1>0, LocalType
  <2>1. ASSUME Refuse(k), UNCHANGED <<count, foreign>>
        PROVE  IInv'
    <3>1. \A j \in Kernels \ {k} : pc'[j] = pc[j] /\ loc'[j] = loc[j]
      BY <1>0, <2>1 DEF Refuse, Goto, TypeOK
    <3>2. pc'[k] = "idle" /\ pc'[k] \notin Executing
      BY <1>0, <2>1 DEF Refuse, Goto, TypeOK, Executing
    <3> QED
      BY <1>0, <2>1, <3>1, <3>2, Quiet
  <2>2. ASSUME NEW l \in States, Goto(k, l), UNCHANGED <<count, foreign>>,
               \A j \in Kernels : /\ loc'[j].parent = loc[j].parent
                                  /\ loc'[j].pol = loc[j].pol,
               l \notin Executing \/ pc[k] \in Executing
        PROVE  IInv'
    <3>1. pc'[k] = l /\ \A j \in Kernels \ {k} : pc'[j] = pc[j]
      BY <1>0, <2>2 DEF Goto, TypeOK
    <3> QED
      BY <1>0, <2>2, <3>1, Quiet
  <2>3. CASE Begin(k)
    <3>1. \A j \in Kernels \ {k} : pc'[j] = pc[j] /\ loc'[j] = loc[j]
      BY <1>0, <2>3 DEF Begin, Goto, TypeOK
    <3>2. pc'[k] \notin Executing /\ UNCHANGED <<count, foreign>>
      BY <1>0, <2>3 DEF Begin, Goto, Shared, TypeOK, Executing
    <3> QED
      BY <1>0, <3>1, <3>2, Quiet
  <2>4. CASE CheckParent(k) \/ CheckCold(k)
    <3>1. UNCHANGED <<count, foreign>> /\ pc[k] \in {"parent", "cold"}
      BY <2>4 DEF CheckParent, CheckCold, Shared
    <3>2. \/ Refuse(k)
          \/ UNCHANGED loc /\ \E l \in {"cold", "trust"} : Goto(k, l)
      BY <2>4 DEF CheckParent, CheckCold
    <3>3. ASSUME NEW l \in {"cold", "trust"}, UNCHANGED loc, Goto(k, l)
          PROVE  IInv'
      <4>1. l \in States /\ l \notin Executing
        BY DEF States, Deciding, Executing
      <4> QED
        BY <2>2, <3>1, <3>3, <4>1
    <3> QED
      BY <2>1, <3>1, <3>2, <3>3
  <2>5. CASE ReadTrust(k)
    <3>1. \A j \in Kernels : /\ loc'[j].parent = loc[j].parent
                             /\ loc'[j].pol = loc[j].pol
      <4>1. \A j \in Kernels \ {k} : loc'[j] = loc[j]
        BY <1>0, <2>5 DEF ReadTrust, TypeOK
      <4>2. loc'[k].parent = loc[k].parent /\ loc'[k].pol = loc[k].pol
        BY <1>0, <2>0, <2>5 DEF ReadTrust, TypeOK, Local
      <4> QED
        BY <4>1, <4>2
    <3>2. /\ Goto(k, "gate") /\ UNCHANGED <<count, foreign>>
          /\ "gate" \in States /\ "gate" \notin Executing
      BY <2>5 DEF ReadTrust, Shared, States, Deciding, Executing
    <3> QED
      BY <2>2, <3>1, <3>2
  <2>6. CASE Decide(k)
    <3>1. UNCHANGED <<count, foreign>> /\ pc[k] = "gate"
      BY <2>6 DEF Decide, Shared
    <3>2. CASE Refuse(k)
      BY <2>1, <3>1, <3>2
    <3> QED
      BY <1>0, <2>6, <3>2, LetThrough
  <2>7. CASE WriteTrust(k)
    <3>1. UNCHANGED <<count, foreign>> /\ pc[k] = "decided"
      BY <2>7 DEF WriteTrust
    <3>2. CASE Refuse(k)
      BY <2>1, <3>1, <3>2
    <3>3. CASE ~Refuse(k)
      <4> DEFINE t == Inherit[trust[loc[k].parent]]
      <4>1. /\ Goto(k, "written")
            /\ loc' = [j \in Kernels |->
                         IF j = k THEN [loc[k] EXCEPT !.written = t]
                                  ELSE Watch(loc[j], loc[k].child, t)]
        BY <2>7, <3>3 DEF WriteTrust
      <4>2. loc[k].child \in Agents /\ t \in Trust
        BY <1>0, <3>1, ReplicationAssumption DEF Typed, Named, TypeOK
      <4> HIDE DEF t
      <4>3. \A j \in Kernels : /\ loc'[j].parent = loc[j].parent
                               /\ loc'[j].pol = loc[j].pol
        <5>1. \A j \in Kernels \ {k} : loc'[j] = Watch(loc[j], loc[k].child, t)
          BY <4>1
        <5>2. loc'[k].parent = loc[k].parent /\ loc'[k].pol = loc[k].pol
          BY <2>0, <4>1 DEF Local
        <5> QED
          BY <1>0, <4>2, <5>1, <5>2, WatchType, LocalType
      <4>4. "written" \in States /\ "written" \in Executing /\ pc[k] \in Executing
        BY <3>1 DEF States, Executing
      <4> QED
        BY <2>2, <3>1, <4>1, <4>3, <4>4
    <3> QED
      BY <3>2, <3>3
  <2>8. CASE Heartbeat(k)
    <3>1. /\ UNCHANGED <<count, foreign, loc>> /\ pc[k] = "written"
          /\ \E l \in {"registered", "undo"} : Goto(k, l)
      BY <2>8 DEF Heartbeat
    <3>2. /\ {"registered", "undo"} \subseteq States
          /\ pc[k] \in Executing
      BY <3>1 DEF States, Executing
    <3> QED
      BY <2>2, <3>1, <3>2
  <2>9. CASE Rollback(k)
    <3> DEFINE a == loc[k].child
    <3>1. /\ UNCHANGED <<count, foreign>> /\ Goto(k, "idle") /\ pc[k] = "undo"
      BY <2>9 DEF Rollback
    <3>2. CASE loc' = [loc EXCEPT ![k] = Idle]
      BY <2>1, <3>1, <3>2 DEF Refuse
    <3>3. CASE loc' = [WatchAll(a, Neutral) EXCEPT ![k] = Idle]
      <4>1. a \in Agents /\ Neutral \in Trust
        BY <1>0, <3>1, ReplicationAssumption DEF Typed, Named
      <4>2. \A j \in Kernels \ {k} : loc'[j] = Watch(loc[j], a, Neutral)
        BY <3>3 DEF WatchAll
      <4> HIDE DEF a
      <4>3. \A j \in Kernels \ {k} : /\ loc'[j].parent = loc[j].parent
                                     /\ loc'[j].pol = loc[j].pol
        BY <1>0, <4>1, <4>2, WatchType, LocalType
      <4>4. /\ pc'[k] \notin Executing
            /\ \A j \in Kernels \ {k} : pc'[j] = pc[j]
        BY <1>0, <3>1 DEF Goto, TypeOK, Executing
      <4> QED
        BY <1>0, <3>1, <4>3, <4>4, Quiet
    <3> QED
      BY <2>9, <3>2, <3>3 DEF Rollback
  <2>10. CASE RecordChild(k)
    BY <1>0, <2>10, Recorded
  <2>11. CASE Crash(k)
    BY <2>1, <2>11 DEF Crash
  <2> QED
    BY <1>4, <2>3, <2>4, <2>5, <2>6, <2>7, <2>8, <2>9, <2>10, <2>11 DEF Step
<1> QED
  BY <1>2, <1>3, <1>4 DEF Next

\* However policies are swapped, counters reset, kernels interleaved or crashed,
\* no counter passes the limit by more than one child per other kernel and the
\* children other policy objects let through: ChildCount and CanReplicate
\* decide, RecordChild counts later, on the object SetReplicationPolicy left.
THEOREM ReplicationBounded == Spec => []OvershootBounded
<1>1. IInv => OvershootBounded
  <2> SUFFICES ASSUME IInv, NEW g \in Policies, NEW a \in Agents
               PROVE  count[g][a] <= Bound + foreign[g][a]
    BY DEF OvershootBounded, Bound
  <2>1. count[g][a] + Cardinality(Underway(g, a)) <= Bound + foreign[g][a]
    BY DEF IInv, Reserved
  <2>2. count[g][a] \in Nat /\ foreign[g][a] \in Nat
    BY CounterType DEF IInv, Typed
  <2> QED
    BY <2>1, <2>2, UnderwayFinite, BoundType
<1> QED
  BY <1>1, BoundInit, BoundNext, PTL DEF Spec

-----------------------------------------------------------------------------
(* What a kernel holds, and what it leaves behind. *)

\* What a kernel remembers of its parent's trust is true of the moment it was
\* read, and it knows when that has passed; a child it registered is known.
Remembers(k) ==
  /\ pc[k] \in {"parent", "cold", "trust"} => trust[loc[k].parent] <= loc[k].peak
  /\ pc[k] = "gate" => loc[k].parentTrust <= loc[k].peak \/ loc[k].parentTrust = Neutral
  /\ pc[k] \in Executing /\ Neutral < MinTrust => loc[k].peak >= MinTrust
  /\ pc[k] \in {"gate", "decided"} /\ ~loc[k].stale
       => loc[k].parentTrust = trust[loc[k].parent]
  /\ pc[k] = "decided" => loc[k].expected = Inherit[loc[k].parentTrust]
  /\ pc[k] = "written" /\ ~loc[k].stale => loc[k].written = loc[k].expected
  /\ pc[k] = "registered" => loc[k].child \in known

HistInv == Typed /\ (\A k \in Kernels : Remembers(k)) /\ NoOrphanTrust

LEMMA HistInit == Init => HistInv
<1> SUFFICES ASSUME Init PROVE HistInv
  OBVIOUS
<1>1. Typed
  BY TypeInit DEF Typed, Named, Init
<1>2. /\ \A k \in Kernels : pc[k] = "idle"
      /\ \A a \in Agents : reason[a] = "none"
  BY DEF Init
<1> QED
  BY <1>1, <1>2 DEF HistInv, Remembers, NoOrphanTrust, Executing

\* A kernel that watches a write of the trust of a, or no write at all.
LEMMA WatchRemembers ==
  ASSUME HistInv, NEW k \in Kernels, NEW a \in Agents, NEW t \in Trust,
         pc'[k] = pc[k], loc'[k] = Watch(loc[k], a, t),
         trust' = [trust EXCEPT ![a] = t], known \subseteq known'
  PROVE  Remembers(k)' /\ loc'[k].child = loc[k].child
<1> DEFINE x == loc[k]
           y == Watch(x, a, t)
<1>1. /\ x \in Local /\ Remembers(k) /\ trust \in [Agents -> Trust]
      /\ pc[k] # "idle" => x.parent \in Agents
  BY DEF HistInv, Typed, TypeOK, Named
<1>2. /\ x.peak \in Nat /\ x.parentTrust \in Nat /\ t \in Nat
      /\ MinTrust \in Nat /\ Neutral \in Nat
      /\ \A b \in Agents : trust[b] \in Nat
  <2>1. Trust \subseteq Nat /\ MinTrust \in Trust /\ Neutral \in Trust
    BY ReplicationAssumption DEF Trust
  <2>2. x.peak \in Trust /\ x.parentTrust \in Trust
    BY <1>1 DEF Local
  <2> QED
    BY <1>1, <2>1, <2>2
<1>3. /\ y.parent = x.parent /\ y.child = x.child /\ y.parentTrust = x.parentTrust
      /\ y.expected = x.expected /\ y.written = x.written
      /\ x.parent = a => y.peak = Higher(t, x.peak) /\ y.stale = TRUE
      /\ x.parent # a => y.peak = x.peak /\ y.stale = x.stale
  BY <1>1 DEF Watch, Local
<1>4. t <= Higher(t, x.peak) /\ x.peak <= Higher(t, x.peak) /\ Higher(t, x.peak) \in Nat
  BY <1>2 DEF Higher
<1>5. \A b \in Agents : trust'[b] = IF b = a THEN t ELSE trust[b]
  BY <1>1
<1> HIDE DEF x, y
<1>6. loc[k] = x /\ loc'[k] = y
  BY DEF x, y
<1>7. CASE x.parent = a
  BY <1>1, <1>2, <1>3, <1>4, <1>5, <1>6, <1>7 DEF Remembers, Executing
<1>8. CASE x.parent # a
  BY <1>1, <1>2, <1>3, <1>5, <1>6, <1>8 DEF Remembers, Executing
<1> QED
  BY <1>3, <1>6, <1>7, <1>8

LEMMA SameRemembers ==
  ASSUME HistInv, NEW k \in Kernels, pc'[k] = pc[k], loc'[k] = loc[k],
         trust' = trust, known \subseteq known'
  PROVE  Remembers(k)' /\ loc'[k].child = loc[k].child
  BY DEF HistInv, Remembers

\* A step of one kernel that writes no trust.
LEMMA OneRemembers ==
  ASSUME HistInv, Typed', NEW k \in Kernels, UNCHANGED <<trust, reason>>,
         known \subseteq known', lost \subseteq lost',
         \A j \in Kernels \ {k} : pc'[j] = pc[j] /\ loc'[j] = loc[j],
         Remembers(k)',
         pc[k] \in {"written", "undo"}
           => \/ loc[k].child \in known' \cup lost'
              \/ pc'[k] \in {"written", "undo"} /\ loc'[k].child = loc[k].child
              \/ reason[loc[k].child] # "replicate"
  PROVE  HistInv'
<1>1. \A j \in Kernels : Remembers(j)'
  BY SameRemembers
<1>2. NoOrphanTrust'
  BY DEF HistInv, NoOrphanTrust
<1> QED
  BY <1>1, <1>2 DEF HistInv

LEMMA RefuseRemembers ==
  ASSUME HistInv, Typed', NEW k \in Kernels, Refuse(k),
         UNCHANGED <<trust, reason, known>>, lost \subseteq lost',
         pc[k] \in {"written", "undo"} => loc[k].child \in lost' \/ reason[loc[k].child] # "replicate"
  PROVE  HistInv'
<1>1. /\ pc'[k] = "idle"
      /\ \A j \in Kernels \ {k} : pc'[j] = pc[j] /\ loc'[j] = loc[j]
  BY DEF HistInv, Typed, TypeOK, Refuse, Goto
<1>2. Remembers(k)'
  BY <1>1 DEF Remembers, Executing
<1> QED
  BY <1>1, <1>2, OneRemembers

LEMMA HistEnvironment == HistInv /\ Typed' /\ Environment => HistInv'
<1> SUFFICES ASSUME HistInv, Typed', Environment PROVE HistInv'
  OBVIOUS
<1>1. ASSUME NEW a \in Agents, NEW t \in Trust, NEW r \in {"none", "record"},
             SetTrust(a, t, r), loc' = WatchAll(a, t),
             UNCHANGED <<known, policy, count, foreign, pc, lost>>
      PROVE  HistInv'
  <2>1. \A k \in Kernels : Remembers(k)' /\ loc'[k].child = loc[k].child
    BY <1>1, WatchRemembers DEF SetTrust, WatchAll
  <2>2. \A b \in Agents : reason'[b] = "replicate" => reason[b] = "replicate"
    BY <1>1 DEF SetTrust, HistInv, Typed, TypeOK
  <2>3. NoOrphanTrust'
    BY <1>1, <2>1, <2>2 DEF HistInv, NoOrphanTrust
  <2> QED
    BY <2>1, <2>3 DEF HistInv
<1>2. ASSUME UNCHANGED <<trust, reason, known, pc, loc, lost>> PROVE HistInv'
  BY <1>2 DEF HistInv, Remembers, NoOrphanTrust
<1>3. Neutral \in Trust
  BY ReplicationAssumption
<1>4. CASE RecordOutcome
  BY <1>1, <1>4 DEF RecordOutcome
<1>5. CASE ResetAgent
  BY <1>1, <1>3, <1>5 DEF ResetAgent
<1>6. CASE SetReplicationPolicy \/ ResetCount
  BY <1>2, <1>6 DEF SetReplicationPolicy, ResetCount
<1> QED
  BY <1>4, <1>5, <1>6 DEF Environment

\* Scheduler.Replicate: what is read is remembered.
LEMMA HistReplicate ==
  ASSUME HistInv, Typed', NEW k \in Kernels,
         Begin(k) \/ CheckParent(k) \/ CheckCold(k) \/ ReadTrust(k) \/ Decide(k)
  PROVE  HistInv'
<1> DEFINE x == loc[k]
<1>1. /\ UNCHANGED <<trust, reason, known, lost>> /\ pc[k] \in Deciding \cup {"idle"}
      /\ pc \in [Kernels -> States] /\ loc \in [Kernels -> Local]
      /\ x \in Local /\ Remembers(k) /\ trust \in [Agents -> Trust]
      /\ pc[k] # "idle" => x.parent \in Agents
  BY DEF HistInv, Typed, TypeOK, Named, States, Begin, CheckParent, CheckCold, ReadTrust,
         Decide, Shared, Deciding
<1>2. pc[k] \notin {"written", "undo"}
  BY <1>1 DEF Deciding
<1>3. CASE Refuse(k)
  BY <1>1, <1>2, <1>3, RefuseRemembers
<1>4. ASSUME NEW l, Goto(k, l), \A j \in Kernels \ {k} : loc'[j] = loc[j], Remembers(k)'
      PROVE  HistInv'
  <2>1. \A j \in Kernels \ {k} : pc'[j] = pc[j]
    BY <1>1, <1>4 DEF Goto
  <2> QED
    BY <1>1, <1>2, <1>4, <2>1, OneRemembers
<1>t. /\ \A a \in Agents : trust[a] \in Nat
      /\ MinTrust \in Nat /\ Neutral \in Nat /\ x.parentTrust \in Nat /\ x.peak \in Nat
  <2>1. Trust \subseteq Nat /\ MinTrust \in Trust /\ Neutral \in Trust
    BY ReplicationAssumption DEF Trust
  <2>2. x.peak \in Trust /\ x.parentTrust \in Trust
    BY <1>1 DEF Local
  <2> QED
    BY <1>1, <2>1, <2>2
<1>5. CASE Begin(k)
  <2>1. PICK r \in Requests :
          /\ r[1] # NoAgent /\ r[2] # NoAgent
          /\ loc' = [loc EXCEPT ![k] =
                      [Idle EXCEPT !.parent = r[1], !.child = r[2], !.pol = policy,
                                   !.peak = trust[r[1]]]]
    BY <1>5 DEF Begin
  <2>2. r[1] \in Agents
    BY <2>1, RequestType
  <2>3. loc'[k].parent = r[1] /\ loc'[k].peak = trust[r[1]]
    BY <1>1, <2>1, IdleType DEF Local
  <2>4. Goto(k, "parent") /\ pc'[k] = "parent" /\ trust' = trust
    BY <1>1, <1>5 DEF Begin, Goto, Shared
  <2>5. Remembers(k)'
    BY <1>t, <2>2, <2>3, <2>4 DEF Remembers, Executing
  <2> QED
    BY <1>1, <1>4, <2>1, <2>4, <2>5
<1>6. CASE (CheckParent(k) \/ CheckCold(k)) /\ ~Refuse(k)
  <2>1. PICK l \in {"cold", "trust"} : Goto(k, l) /\ loc' = loc
    BY <1>6 DEF CheckParent, CheckCold
  <2>2. pc'[k] = l /\ pc[k] \in {"parent", "cold"}
    BY <1>1, <1>6, <2>1 DEF CheckParent, CheckCold, Goto
  <2>3. Remembers(k)'
    BY <1>1, <2>1, <2>2 DEF Remembers, Executing
  <2> QED
    BY <1>4, <2>1, <2>3
<1>7. CASE ReadTrust(k)
  <2>1. Goto(k, "gate") /\ pc'[k] = "gate" /\ pc[k] = "trust"
    BY <1>1, <1>7 DEF ReadTrust, Goto
  <2>2. /\ \A j \in Kernels \ {k} : loc'[j] = loc[j]
        /\ loc'[k].parent = x.parent /\ loc'[k].peak = x.peak
        /\ \/ loc'[k].parentTrust = trust[x.parent] /\ loc'[k].stale = FALSE
           \/ loc'[k].parentTrust = Neutral /\ loc'[k].stale = TRUE
    BY <1>1, <1>7 DEF ReadTrust, Local
  <2>3. Remembers(k)'
    BY <1>1, <1>t, <2>1, <2>2 DEF Remembers, Executing
  <2> QED
    BY <1>4, <2>1, <2>2, <2>3
<1>8. CASE Decide(k) /\ ~Refuse(k)
  <2>1. /\ Goto(k, "decided") /\ pc'[k] = "decided" /\ pc[k] = "gate"
        /\ x.parentTrust >= MinTrust
        /\ loc' = [loc EXCEPT ![k].expected = Inherit[x.parentTrust]]
    BY <1>1, <1>8 DEF Decide, CanReplicate, Goto
  <2>2. /\ \A j \in Kernels \ {k} : loc'[j] = loc[j]
        /\ loc'[k].parent = x.parent /\ loc'[k].peak = x.peak /\ loc'[k].stale = x.stale
        /\ loc'[k].parentTrust = x.parentTrust
        /\ loc'[k].expected = Inherit[x.parentTrust]
    BY <1>1, <2>1 DEF Local
  <2>3. Neutral < MinTrust => x.peak >= MinTrust
    BY <1>1, <1>t, <2>1 DEF Remembers
  <2> HIDE DEF x
  <2>4. Remembers(k)'
    <3>1. loc[k] = x
      BY DEF x
    <3> QED
      BY <1>1, <2>1, <2>2, <2>3, <3>1 DEF Remembers, Executing
  <2> QED
    BY <1>4, <2>1, <2>2, <2>4
<1> QED
  BY <1>3, <1>5, <1>6, <1>7, <1>8

\* engine.Replicate: the child's trust is the announced one, unless the parent's
\* went stale; the kernel is busy with the child from here on.
LEMMA HistWriteTrust ==
  ASSUME HistInv, Typed', NEW k \in Kernels, WriteTrust(k) PROVE HistInv'
<1> DEFINE x == loc[k]
           t == Inherit[trust[x.parent]]
<1>1. /\ pc[k] = "decided" /\ UNCHANGED <<known, lost>>
      /\ pc \in [Kernels -> States] /\ reason \in [Agents -> {"none", "replicate", "record"}]
      /\ x \in Local /\ Remembers(k) /\ x.parent \in Agents /\ x.child \in Agents
  BY DEF HistInv, Typed, TypeOK, Named, States, WriteTrust
<1>2. CASE Refuse(k) /\ UNCHANGED <<trust, reason>>
  BY <1>1, <1>2, RefuseRemembers
<1>3. CASE ~(Refuse(k) /\ UNCHANGED <<trust, reason>>)
  <2>1. /\ SetTrust(x.child, t, "replicate") /\ Goto(k, "written")
        /\ loc' = [j \in Kernels |-> IF j = k THEN [x EXCEPT !.written = t]
                                              ELSE Watch(loc[j], x.child, t)]
    BY <1>3 DEF WriteTrust
  <2>2. t \in Trust
    BY <1>1, ReplicationAssumption DEF HistInv, Typed, TypeOK
  <2>3. /\ pc'[k] = "written" /\ \A j \in Kernels \ {k} : pc'[j] = pc[j]
        /\ loc'[k].peak = x.peak /\ loc'[k].stale = x.stale /\ loc'[k].written = t
        /\ loc'[k].expected = x.expected /\ loc'[k].child = x.child
    BY <1>1, <2>1 DEF Goto, Local
  <2>4. ~x.stale => t = x.expected
    BY <1>1 DEF Remembers
  <2> HIDE DEF t
  <2>5. Remembers(k)'
    <3>1. Neutral < MinTrust => x.peak >= MinTrust
      BY <1>1 DEF Remembers, Executing
    <3> HIDE DEF x
    <3> QED
      BY <2>3, <2>4, <3>1 DEF Remembers
  <2>6. \A j \in Kernels \ {k} : Remembers(j)' /\ loc'[j].child = loc[j].child
    BY <1>1, <2>1, <2>2, <2>3, WatchRemembers DEF SetTrust
  <2>7. NoOrphanTrust'
    <3>1. \A a \in Agents : a # x.child => reason'[a] = reason[a]
      BY <1>1, <2>1 DEF SetTrust
    <3> QED
      BY <1>1, <2>3, <2>6, <3>1 DEF HistInv, NoOrphanTrust
  <2> QED
    BY <2>5, <2>6, <2>7 DEF HistInv
<1> QED
  BY <1>2, <1>3

LEMMA HistHeartbeat ==
  ASSUME HistInv, Typed', NEW k \in Kernels, Heartbeat(k) PROVE HistInv'
<1>1. /\ pc[k] = "written" /\ UNCHANGED <<trust, reason, loc, lost>>
      /\ pc \in [Kernels -> States] /\ Remembers(k)
  BY DEF HistInv, Typed, TypeOK, States, Heartbeat
<1>2. \/ pc'[k] = "undo" /\ known' = known
      \/ pc'[k] = "registered" /\ known' = known \cup {loc[k].child}
  BY <1>1 DEF Heartbeat, Goto
<1>3. \A j \in Kernels \ {k} : pc'[j] = pc[j]
  BY <1>1 DEF Heartbeat, Goto
<1>4. Remembers(k)'
  BY <1>1, <1>2 DEF Remembers, Executing
<1> QED
  BY <1>1, <1>2, <1>3, <1>4, OneRemembers

\* RollbackReplicate: the child's trust is gone, was not a replication's, or is
\* counted as lost.
LEMMA HistRollback ==
  ASSUME HistInv, Typed', NEW k \in Kernels, Rollback(k) PROVE HistInv'
<1> DEFINE a == loc[k].child
<1>1. /\ pc[k] = "undo" /\ Goto(k, "idle") /\ known' = known /\ a \in Agents
      /\ pc \in [Kernels -> States] /\ loc \in [Kernels -> Local]
      /\ reason \in [Agents -> {"none", "replicate", "record"}]
  BY DEF HistInv, Typed, TypeOK, Named, States, Rollback
<1>2. CASE /\ loc' = [loc EXCEPT ![k] = Idle] /\ UNCHANGED <<trust, reason>>
           /\ lost \subseteq lost' /\ (a \in lost' \/ reason[a] # "replicate")
  BY <1>1, <1>2, RefuseRemembers DEF Refuse
<1>3. CASE /\ SetTrust(a, Neutral, "none") /\ lost' = lost
           /\ loc' = [WatchAll(a, Neutral) EXCEPT ![k] = Idle]
  <2>1. /\ pc'[k] = "idle"
        /\ \A j \in Kernels \ {k} : pc'[j] = pc[j] /\ loc'[j] = Watch(loc[j], a, Neutral)
    BY <1>1, <1>3 DEF Goto, WatchAll
  <2>2. Neutral \in Trust
    BY ReplicationAssumption
  <2>3. \A j \in Kernels \ {k} : Remembers(j)' /\ loc'[j].child = loc[j].child
    BY <1>1, <1>3, <2>1, <2>2, WatchRemembers DEF SetTrust
  <2>4. Remembers(k)'
    BY <2>1 DEF Remembers, Executing
  <2>5. \A b \in Agents : reason'[b] = IF b = a THEN "none" ELSE reason[b]
    BY <1>1, <1>3 DEF SetTrust
  <2> HIDE DEF a
  <2>6. NoOrphanTrust'
    <3>1. a = loc[k].child
      BY DEF a
    <3> QED
      BY <1>1, <1>3, <2>1, <2>3, <2>5, <3>1 DEF HistInv, NoOrphanTrust
  <2> QED
    BY <2>3, <2>4, <2>6 DEF HistInv
<1> QED
  BY <1>2, <1>3 DEF Rollback

LEMMA HistNext == HistInv /\ [Next]_vars => HistInv'
<1> SUFFICES ASSUME HistInv, [Next]_vars PROVE HistInv'
  OBVIOUS
<1>1. Typed'
  BY TypeNext DEF HistInv
<1>2. CASE Environment
  BY <1>1, <1>2, HistEnvironment
<1>3. ASSUME NEW k \in Kernels, RecordChild(k) PROVE HistInv'
  <2>1. /\ Refuse(k) /\ UNCHANGED <<trust, reason, known, lost>>
        /\ pc[k] \notin {"written", "undo"}
    BY <1>3 DEF RecordChild
  <2> QED
    BY <1>1, <2>1, RefuseRemembers
<1>4. ASSUME NEW k \in Kernels, Crash(k) PROVE HistInv'
  <2>1. /\ Refuse(k) /\ UNCHANGED <<trust, reason, known>> /\ lost \subseteq lost'
        /\ pc[k] \in {"written", "undo"} => loc[k].child \in lost'
    BY <1>4 DEF Crash
  <2> QED
    BY <1>1, <2>1, RefuseRemembers
<1>5. ASSUME NEW k \in Kernels, Step(k) PROVE HistInv'
  BY <1>1, <1>3, <1>5, HistReplicate, HistWriteTrust, HistHeartbeat, HistRollback DEF Step
<1>6. CASE UNCHANGED vars
  BY <1>6 DEF vars, HistInv, Remembers, NoOrphanTrust, Typed, TypeOK, Named
<1> QED
  BY <1>2, <1>4, <1>5, <1>6 DEF Next

\* With a threshold above the neutral score, a replication under way means that
\* the parent did have that much trust during the call, whatever reads of it
\* failed and whatever moved the score since (Replicate, CanReplicate).
THEOREM DecisionsEarned == Spec => []DecisionEarned
<1>1. HistInv => DecisionEarned
  BY DEF HistInv, Remembers, DecisionEarned
<1> QED
  BY <1>1, HistInit, HistNext, PTL DEF Spec

\* The child gets the trust that ReplicateDecision announced, unless the parent's
\* was misread or written in between, by anyone (Replicate, engine.Replicate).
THEOREM AnnouncedTrust == Spec => []ExpectedIfUndisturbed
<1>1. HistInv => ExpectedIfUndisturbed
  BY DEF HistInv, Remembers, ExpectedIfUndisturbed
<1> QED
  BY <1>1, HistInit, HistNext, PTL DEF Spec

\* Replicated trust without a registry card belongs to a kernel that is still
\* busy with it, or was left by a crash or a failed RollbackReplicate: no
\* interleaving of kernels that replicate, fail and undo leaves other orphans.
THEOREM OrphansExplained == Spec => []NoOrphanTrust
<1>1. HistInv => NoOrphanTrust
  BY DEF HistInv
<1> QED
  BY <1>1, HistInit, HistNext, PTL DEF Spec

=============================================================================
