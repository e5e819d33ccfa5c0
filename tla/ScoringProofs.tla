----------------------------- MODULE ScoringProofs -----------------------------
(***************************************************************************)
(* Proofs about ScoreAgents, modules Ranking and Scoring, for any number   *)
(* of agents, any data, engine and request: the slice is put in order; and *)
(* whatever is written, lost and torn between two reads, the totals stay   *)
(* in range, a lost read counts as none, and better data earn no less.     *)
(***************************************************************************)
EXTENDS Scoring, Numbers, FiniteSetTheorems, TLAPS

-----------------------------------------------------------------------------
(* The two loops of the sort.                                                *)

(* Membership of the scores' fields, for the leaves that need no more.       *)

LEMMA ScoreFields ==
  ASSUME RankType, NEW k \in DOMAIN scores
  PROVE  /\ scores[k] \in AgentScore
         /\ scores[k].agent \in Agents /\ scores[k].total \in Int
         /\ k \in Nat /\ 1 <= k /\ k <= Len(scores)
  <1>1. scores \in Seq(AgentScore) /\ Len(scores) \in Nat /\ k \in 1..Len(scores)
    BY DEF RankType
  <1>2. scores[k] \in AgentScore
    BY <1>1
  <1>3. QED
    BY <1>1, <1>2 DEF AgentScore

(* An exchange of two elements of the slice.                                 *)

LEMMA SwappedType ==
  ASSUME RankType, i \in DOMAIN scores, j \in DOMAIN scores
  PROVE  /\ Swapped \in Seq(AgentScore)
         /\ DOMAIN Swapped = DOMAIN scores
         /\ Len(Swapped) = Len(scores)
         /\ \A k \in DOMAIN scores :
              Swapped[k] = IF k = j THEN scores[i] ELSE IF k = i THEN scores[j]
                           ELSE scores[k]
  BY DEF RankType, Swapped

\* Every score is still there, and two places still hold two agents.
LEMMA SwappedKeeps ==
  ASSUME RankType, i \in DOMAIN scores, j \in DOMAIN scores,
         \A p, q \in DOMAIN scores : p # q => scores[p].agent # scores[q].agent
  PROVE  /\ {<<Swapped[k].agent, Swapped[k].total>> : k \in DOMAIN Swapped}
              = {<<scores[k].agent, scores[k].total>> : k \in DOMAIN scores}
         /\ \A p, q \in DOMAIN Swapped : p # q => Swapped[p].agent # Swapped[q].agent
  <1> DEFINE Old == {<<scores[k].agent, scores[k].total>> : k \in DOMAIN scores}
             New == {<<Swapped[k].agent, Swapped[k].total>> : k \in DOMAIN Swapped}
  <1>1. /\ DOMAIN Swapped = DOMAIN scores
        /\ \A k \in DOMAIN scores :
             Swapped[k] = IF k = j THEN scores[i] ELSE IF k = i THEN scores[j]
                          ELSE scores[k]
    BY SwappedType
  <1>2. ASSUME NEW k \in DOMAIN scores
        PROVE  /\ \E l \in DOMAIN scores : Swapped[k] = scores[l]
               /\ \E l \in DOMAIN scores : scores[k] = Swapped[l]
    BY <1>1
  <1>3. New = Old
    <2>1. ASSUME NEW k \in DOMAIN scores
          PROVE  <<Swapped[k].agent, Swapped[k].total>> \in Old
      <3>1. PICK l \in DOMAIN scores : Swapped[k] = scores[l]
        BY <1>2
      <3>2. QED
        BY <3>1
    <2>2. ASSUME NEW k \in DOMAIN scores
          PROVE  <<scores[k].agent, scores[k].total>> \in New
      <3>1. PICK l \in DOMAIN scores : scores[k] = Swapped[l]
        BY <1>2
      <3>2. QED
        BY <1>1, <3>1
    <2>3. QED
      BY <1>1, <2>1, <2>2
  <1>4. QED
    BY <1>1, <1>3

-----------------------------------------------------------------------------

LEMMA TypeInit == RankInit => RankType
  BY DEF RankInit, RankType

LEMMA TypeStep == RankType /\ [RankNext]_rankVars => RankType'
  <1> SUFFICES ASSUME RankType, [RankNext]_rankVars PROVE RankType'
    OBVIOUS
  <1> USE DEF RankType
  <1>1. CASE Begin \/ Panic \/ StartSort
    BY <1>1 DEF Begin, Panic, StartSort, Enter
  <1>2. CASE Compare
    <2>1. i \in DOMAIN scores /\ j \in DOMAIN scores
      BY <1>2 DEF Compare
    <2>2. Swapped \in Seq(AgentScore)
      BY <2>1, SwappedType
    <2>3. QED
      BY <1>2, <2>2 DEF Compare
  <1>3. CASE NextRow
    BY <1>3 DEF NextRow
  <1>4. CASE SetRanks
    <2>1. ASSUME NEW k \in DOMAIN scores
          PROVE  [scores[k] EXCEPT !.rank = k] \in AgentScore
      BY ScoreFields DEF AgentScore
    <2>2. [k \in DOMAIN scores |-> [scores[k] EXCEPT !.rank = k]] \in Seq(AgentScore)
      BY <2>1
    <2>3. QED
      BY <1>4, <2>2 DEF SetRanks
  <1>5. ASSUME NEW a \in Agents, NEW t \in Int, Collect(a, t)
        PROVE  RankType'
    <2>1. [agent |-> a, total |-> t, rank |-> 0] \in AgentScore
      BY DEF AgentScore
    <2>2. QED
      BY <1>5, <2>1 DEF Collect
  <1>6. CASE UNCHANGED rankVars
    BY <1>6 DEF rankVars
  <1>7. QED
    BY <1>1, <1>2, <1>3, <1>4, <1>5, <1>6 DEF RankNext

\* The call keeps its types: an exchange or a rank never leaves the slice
\* (scoring.go:72-86).
THEOREM RankTypeCorrect == RankSpec => []RankType
  BY TypeInit, TypeStep, PTL DEF RankSpec

-----------------------------------------------------------------------------
(* The invariant of the two loops.                                           *)

LEMMA SortInit == RankInit => SortInv /\ RankedDescending
  BY DEF RankInit, SortInv, RankedDescending

\* A comparison keeps the rows before i final and extends what row i was
\* compared with to j.
LEMMA ComparePreservesSort ==
  ASSUME RankType, SortInv, Compare PROVE SortInv'
  <1>1. /\ i \in DOMAIN scores /\ j \in DOMAIN scores /\ i < j
        /\ phase' = "sort" /\ i' = i /\ j' = j + 1
    BY DEF RankType, SortInv, Compare
  <1>2. /\ \A p, q \in DOMAIN scores :
             p < i /\ p < q => scores[q].total <= scores[p].total
        /\ \A q \in DOMAIN scores :
             i < q /\ q < j => scores[q].total <= scores[i].total
    BY DEF SortInv, Compare, Descending
  <1>3. \A k \in DOMAIN scores : scores[k].total \in Int /\ k \in Nat
    BY ScoreFields
  <1>4. CASE scores[j].total > scores[i].total
    <2>1. scores' = Swapped
      BY <1>4 DEF Compare
    <2>2. /\ DOMAIN scores' = DOMAIN scores
          /\ \A k \in DOMAIN scores :
               scores'[k].total = IF k = j THEN scores[i].total
                                  ELSE IF k = i THEN scores[j].total
                                  ELSE scores[k].total
      BY <1>1, <2>1, SwappedType
    <2>3. ASSUME NEW p \in DOMAIN scores, NEW q \in DOMAIN scores, p < i, p < q
          PROVE  scores'[q].total <= scores'[p].total
      BY <1>1, <1>2, <1>3, <2>2, <2>3
    <2>4. ASSUME NEW q \in DOMAIN scores, i < q, q < j + 1
          PROVE  scores'[q].total <= scores'[i].total
      BY <1>1, <1>2, <1>3, <1>4, <2>2, <2>4
    <2>5. QED
      BY <1>1, <1>3, <2>2, <2>3, <2>4 DEF SortInv, Descending
  <1>5. CASE ~(scores[j].total > scores[i].total)
    <2>1. scores' = scores
      BY <1>5 DEF Compare
    <2>2. ASSUME NEW q \in DOMAIN scores, i < q, q < j + 1
          PROVE  scores[q].total <= scores[i].total
      BY <1>1, <1>2, <1>3, <1>5, <2>2
    <2>3. QED
      BY <1>1, <1>2, <2>1, <2>2 DEF SortInv, Descending
  <1>6. QED
    BY <1>4, <1>5

LEMMA SortStep ==
  RankType /\ SortInv /\ RankedDescending /\ [RankNext]_rankVars => SortInv'
  <1> SUFFICES ASSUME RankType, SortInv, RankedDescending, [RankNext]_rankVars
               PROVE  SortInv'
    OBVIOUS
  <1>1. CASE Begin \/ Panic
    BY <1>1 DEF Begin, Panic, Enter, SortInv
  <1>2. CASE StartSort
    BY <1>2 DEF StartSort, Enter, SortInv, RankType
  <1>3. CASE Compare
    BY <1>3, ComparePreservesSort
  <1>4. CASE NextRow
    <2>1. ASSUME NEW p \in DOMAIN scores, NEW q \in DOMAIN scores, p < i + 1, p < q
          PROVE  Descending(p, q)
      BY <1>4, <2>1, ScoreFields DEF NextRow, SortInv, RankType
    <2>2. QED
      BY <1>4, <2>1 DEF NextRow, SortInv, RankType, Descending
  <1>5. CASE SetRanks
    BY <1>5 DEF SetRanks, SortInv
  <1>6. ASSUME NEW a \in Agents, NEW t \in Int, Collect(a, t) PROVE SortInv'
    BY <1>6 DEF Collect, SortInv
  <1>7. CASE UNCHANGED rankVars
    BY <1>7 DEF rankVars, SortInv, Descending
  <1>8. QED
    BY <1>1, <1>2, <1>3, <1>4, <1>5, <1>6, <1>7 DEF RankNext

\* An agent is appended once, and what was there stays in its place.
LEMMA CollectPreservesRanked ==
  ASSUME RankType, RankedDescending, NEW a \in Agents, NEW t \in Int, Collect(a, t)
  PROVE  RankedDescending'
  <1> DEFINE new == [agent |-> a, total |-> t, rank |-> 0]
             n == Len(scores) + 1
  <1>1. /\ scores' = Append(scores, new) /\ phase' = "collect"
        /\ gathered' = gathered \cup {<<a, t>>}
        /\ \A k \in DOMAIN scores : scores[k].agent # a
    BY DEF Collect, Collected
  <1>2. /\ DOMAIN scores' = DOMAIN scores \cup {n} /\ n \notin DOMAIN scores
        /\ scores'[n] = new /\ \A k \in DOMAIN scores : scores'[k] = scores[k]
    BY <1>1 DEF RankType
  <1>3. {<<scores'[k].agent, scores'[k].total>> : k \in DOMAIN scores'}
          = {<<scores[k].agent, scores[k].total>> : k \in DOMAIN scores} \cup {<<a, t>>}
    BY <1>2
  <1>4. \A p, q \in DOMAIN scores' : p # q => scores'[p].agent # scores'[q].agent
    BY <1>1, <1>2 DEF RankedDescending
  <1>5. QED
    BY <1>1, <1>3, <1>4 DEF RankedDescending

LEMMA RankedStep ==
  RankType /\ SortInv /\ RankedDescending /\ [RankNext]_rankVars
    => RankedDescending'
  <1> SUFFICES ASSUME RankType, SortInv, RankedDescending, [RankNext]_rankVars
               PROVE  RankedDescending'
    OBVIOUS
  <1>1. CASE Begin \/ Panic \/ StartSort
    BY <1>1 DEF Begin, Panic, StartSort, Enter, RankedDescending
  <1>2. CASE Compare
    <2>1. i \in DOMAIN scores /\ j \in DOMAIN scores /\ phase' = "sort"
      BY <1>2 DEF Compare, RankType
    <2>2. CASE scores' = Swapped
      BY <1>2, <2>1, <2>2, SwappedKeeps DEF Compare, RankedDescending
    <2>3. CASE scores' = scores
      BY <1>2, <2>1, <2>3 DEF Compare, RankedDescending
    <2>4. QED
      BY <1>2, <2>2, <2>3 DEF Compare
  <1>3. CASE NextRow
    BY <1>3 DEF NextRow, RankedDescending
  <1>4. CASE SetRanks
    <2>1. /\ DOMAIN scores' = DOMAIN scores /\ gathered' = gathered
          /\ \A k \in DOMAIN scores :
               /\ scores'[k].agent = scores[k].agent
               /\ scores'[k].total = scores[k].total
               /\ scores'[k].rank = k
      BY <1>4, ScoreFields DEF SetRanks, AgentScore
    <2>2. \A p, q \in DOMAIN scores : p < q => scores[q].total <= scores[p].total
      BY <1>4, ScoreFields DEF SetRanks, SortInv, RankType, Descending
    <2>3. gathered' = {<<scores'[k].agent, scores'[k].total>> : k \in DOMAIN scores'}
      BY <2>1 DEF RankedDescending
    <2>4. \A p, q \in DOMAIN scores' : p # q => scores'[p].agent # scores'[q].agent
      BY <2>1 DEF RankedDescending
    <2>5. QED
      BY <2>1, <2>2, <2>3, <2>4 DEF RankedDescending, Descending
  <1>5. ASSUME NEW a \in Agents, NEW t \in Int, Collect(a, t)
        PROVE  RankedDescending'
    BY <1>5, CollectPreservesRanked
  <1>6. CASE UNCHANGED rankVars
    BY <1>6 DEF rankVars, RankedDescending, Descending
  <1>7. QED
    BY <1>1, <1>2, <1>3, <1>4, <1>5, <1>6 DEF RankNext

\* The answer of ScoreAgents holds each collected score once, the best first and
\* ranked from 1, for any number of agents and any totals (scoring.go:72-86).
THEOREM RankedDescendingCorrect == RankSpec => []RankedDescending
  <1>1. RankInit => RankType /\ SortInv /\ RankedDescending
    BY TypeInit, SortInit
  <1>2. RankType /\ SortInv /\ RankedDescending /\ [RankNext]_rankVars
          => (RankType /\ SortInv /\ RankedDescending)'
    BY TypeStep, SortStep, RankedStep
  <1>3. QED
    BY <1>1, <1>2, PTL DEF RankSpec

-----------------------------------------------------------------------------
(* The curves: whole numbers whatever they are given, and within 0..1 of     *)
(* proper data.                                                              *)

LEMMA PartInt ==
  ASSUME NEW n \in Int, NEW d \in Nat \ {0} PROVE Part(n, d) \in Int
  BY DEF Part, One

\* A share is at most all.
LEMMA PartRange ==
  ASSUME NEW n \in Nat, NEW d \in Nat \ {0}, n <= d PROVE Part(n, d) \in 0..One
  BY DEF Part, One

LEMMA WithinRange ==
  ASSUME NEW lo \in Int, NEW hi \in Int, lo <= hi, NEW x \in Int
  PROVE  Within(lo, hi, x) \in lo..hi
  BY DEF Within

LEMMA WithinOne == \A x \in Int : Within(0, One, x) \in 0..One
  BY DEF Within, One

LEMMA SkillRange ==
  ASSUME NEW skills, NEW required \in Seq(STRING)
  PROVE  SkillMatch(skills, required) \in 0..One
<1>1. CASE required = <<>>
  BY <1>1 DEF SkillMatch, One
<1>2. CASE required # <<>>
  <2> DEFINE K == {k \in DOMAIN required : required[k] \in skills}
             n == Len(required)
  <2>1. n \in Nat \ {0} /\ K \subseteq 1..n
    BY <1>2
  <2> HIDE DEF n, K
  <2>2. IsFiniteSet(1..n) /\ Cardinality(1..n) = n
    BY <2>1, FS_Interval
  <2>3. Cardinality(K) \in Nat /\ Cardinality(K) <= n
    BY <2>1, <2>2, FS_Subset, FS_CardinalityType
  <2>4. Part(Cardinality(K), n) \in 0..One
    BY <2>1, <2>3, PartRange
  <2> QED
    BY <1>2, <2>4 DEF SkillMatch, K, n
<1> QED
  BY <1>1, <1>2

LEMMA HealthScores ==
  ASSUME NEW load \in Optional(Loads)
  PROVE  /\ HealthScore(load) \in Int
         /\ load # None /\ {load.cpu, load.memory} \subseteq 0..4
              => HealthScore(load) \in 0..One
         /\ HealthScore(None) \in 0..One
<1>1. HealthScore(None) \in 0..One
  BY DEF HealthScore, Part, One
<1>2. CASE load # None
  <2>1. /\ load.cpu \in Int /\ load.memory \in Int
        /\ HealthScore(load) = Part(8 - load.cpu - load.memory, 8)
    BY <1>2 DEF HealthScore, Optional, Loads
  <2>2. HealthScore(load) \in Int
    BY <2>1, PartInt
  <2>3. ASSUME {load.cpu, load.memory} \subseteq 0..4 PROVE HealthScore(load) \in 0..One
    BY <2>1, <2>3, PartRange
  <2> QED
    BY <1>1, <2>2, <2>3
<1> QED
  BY <1>1, <1>2 DEF One

LEMMA LoadScores ==
  ASSUME NEW load \in Optional(Loads)
  PROVE  /\ LoadScore(load) \in Int
         /\ load # None /\ load.active <= load.capacity
              => LoadScore(load) \in 0..One
         /\ LoadScore(None) \in 0..One
<1>1. LoadScore(None) \in 0..One
  BY DEF LoadScore, Part, One
<1>2. CASE load # None /\ load.capacity # 0
  <2>1. load.active \in Nat /\ load.capacity \in Nat \ {0} /\ One \in Int
        /\ LoadScore(load) = One - Part(load.active, load.capacity)
    BY <1>2 DEF LoadScore, Optional, Loads, One
  <2>2. LoadScore(load) \in Int
    BY <2>1, PartInt
  <2>3. ASSUME load.active <= load.capacity PROVE LoadScore(load) \in 0..One
    <3>1. Part(load.active, load.capacity) \in 0..One
      BY <2>1, <2>3, PartRange
    <3> QED
      BY <2>1, <3>1
  <2> QED
    BY <1>1, <2>2, <2>3
<1>3. CASE load # None /\ load.capacity = 0
  BY <1>3 DEF LoadScore, Part, One
<1> QED
  BY <1>1, <1>2, <1>3 DEF One

LEMMA NetworkRange ==
  ASSUME NEW card, NEW source PROVE NetworkPenalty(card, source) \in 0..One
  BY DEF NetworkPenalty, Part, One

LEMMA TrustRange ==
  ASSUME NEW trust \in Optional(Int) PROVE ClampedTrust(trust) \in 0..One
<1>1. Part(1, 2) \in 0..One
  BY DEF Part, One
<1> QED
  BY <1>1, WithinOne DEF ClampedTrust, Optional

LEMMA GeoRange ==
  ASSUME NEW region, NEW sourceRegion PROVE GeoPenalty(region, sourceRegion) \in 0..One
  BY DEF GeoPenalty, Part, One

LEMMA SuccessScores ==
  ASSUME NEW n \in Optional(Nat), NEW t \in Optional(Nat)
  PROVE  /\ SuccessScore(n, t) \in Int
         /\ None \in {n, t} \/ n <= t => SuccessScore(n, t) \in 0..One
<1>1. CASE None \in {n, t} \/ t = 0
  BY <1>1 DEF SuccessScore, Part, One
<1>2. CASE None \notin {n, t} /\ t # 0
  <2>1. n \in Nat /\ t \in Nat \ {0}
    BY <1>2 DEF Optional
  <2>2. SuccessScore(n, t) = Part(7 * n, 10 * t) + 90
    BY <1>2 DEF SuccessScore, Part, One
  <2>3. 7 * n \in Int /\ 10 * t \in Nat \ {0}
    BY <2>1
  <2>4. Part(7 * n, 10 * t) \in Int
    BY <2>3, PartInt
  <2>5. ASSUME n <= t PROVE Part(7 * n, 10 * t) \in 0..420
    <3>1. (600 * (7 * n)) \div (10 * t) \in 0..420
      <4>1. 600 * (7 * n) = 10 * (420 * n)
        BY <2>1
      <4>2. (600 * (7 * n)) <= 420 * (10 * t)
        BY <2>1, <2>5
      <4> QED
        BY <2>1, <4>2
    <3> QED
      BY <3>1 DEF Part, One
  <2> QED
    BY <1>2, <2>2, <2>4, <2>5 DEF One
<1> QED
  BY <1>1, <1>2

LEMMA ErrorScores ==
  ASSUME NEW n \in Optional(Nat), NEW t \in Optional(Nat)
  PROVE  /\ ErrorScore(n, t) \in Int
         /\ None \in {n, t} \/ n <= t => ErrorScore(n, t) \in 0..One
<1>1. CASE None \in {n, t} \/ t = 0
  BY <1>1 DEF ErrorScore, One
<1>2. CASE None \notin {n, t} /\ t # 0
  <2>1. n \in Nat /\ t \in Nat \ {0}
    BY <1>2 DEF Optional
  <2>2. ErrorScore(n, t) = One - Part(n, t) /\ One \in Int
    BY <1>2 DEF ErrorScore, One
  <2>3. Part(n, t) \in Int
    BY <2>1, PartInt
  <2>4. n <= t => Part(n, t) \in 0..One
    BY <2>1, PartRange
  <2> QED
    BY <1>2, <2>2, <2>3, <2>4
<1> QED
  BY <1>1, <1>2

LEMMA DecadesType == ASSUME NEW n \in Nat PROVE Decades(n) \in 0..3
<1>1. IsFiniteSet({10, 100, 1000}) /\ Cardinality({10, 100, 1000}) = 3
  <2>1. IsFiniteSet({10}) /\ Cardinality({10}) = 1
    BY FS_Singleton
  <2>2. IsFiniteSet({10, 100}) /\ Cardinality({10, 100}) = 2
    BY <2>1, FS_AddElement, {10, 100} = {10} \cup {100}
  <2> QED
    BY <2>2, FS_AddElement, {10, 100, 1000} = {10, 100} \cup {1000}
<1>2. {p \in {10, 100, 1000} : p <= n} \subseteq {10, 100, 1000}
  OBVIOUS
<1>3. Cardinality({p \in {10, 100, 1000} : p <= n}) \in 0..3
  BY <1>1, <1>2, FS_Subset, FS_CardinalityType
<1> QED
  BY <1>3 DEF Decades

LEMMA BandwidthRange ==
  ASSUME NEW mbps \in Optional(Nat) PROVE BandwidthScore(mbps) \in 0..One
<1>1. CASE mbps \in {None, 0}
  BY <1>1 DEF BandwidthScore, Part, One
<1>2. CASE mbps \in Nat /\ mbps # None /\ mbps # 0
  <2>1. Decades(mbps) \in Int
    BY <1>2, DecadesType
  <2>2. Part(Decades(mbps), 2) \in Int
    BY <2>1, PartInt
  <2>3. Part(1, 10) = 60 /\ One = 600
    BY DEF Part, One
  <2>4. Within(60, 600, Part(Decades(mbps), 2)) \in 60..600
    BY <2>2 DEF Within
  <2> QED
    BY <1>2, <2>3, <2>4 DEF BandwidthScore
<1> QED
  BY <1>1, <1>2 DEF Optional

LEMMA HistoryRange ==
  ASSUME NEW total \in Optional(Nat) PROVE HistoryScore(total) \in 0..One
<1>1. CASE total \in {None, 0}
  BY <1>1 DEF HistoryScore, Part, One
<1>2. CASE total \in Nat /\ total # None /\ total # 0
  <2>1. Decades(total) \in 0..3
    BY <1>2, DecadesType
  <2>2. \A k \in 0..3 : Part(3, 10) + Part(7 * k, 30) \in 0..One
    BY DEF Part, One
  <2> QED
    BY <1>2, <2>1, <2>2 DEF HistoryScore
<1> QED
  BY <1>1, <1>2 DEF Optional

LEMMA AvailabilityRange ==
  ASSUME NEW card \in Optional(Cards) PROVE Availability(card) \in 0..One
<1>1. CASE card = None
  BY <1>1 DEF Availability, One
<1>2. CASE card # None
  <2>1. card.first \in Int /\ card.last \in Int /\ Now \in Nat
    BY <1>2, ClockAssumption DEF Optional, Cards
  <2>2. CASE card.first <= 0 \/ Now <= card.first
    BY <1>2, <2>2 DEF Availability, Part, One
  <2>3. CASE ~(card.first <= 0 \/ Now <= card.first)
    <3>1. Now - card.first \in Nat \ {0} /\ card.last - card.first \in Int
      BY <2>1, <2>3
    <3>2. Part(card.last - card.first, Now - card.first) \in Int
      BY <3>1, PartInt
    <3>3. Within(0, One, Part(card.last - card.first, Now - card.first)) \in 0..One
      BY <3>2, WithinOne
    <3> QED
      BY <1>2, <2>3, <3>3 DEF Availability
  <2> QED
    BY <2>2, <2>3
<1> QED
  BY <1>1, <1>2

LEMMA VersionRange ==
  ASSUME NEW card \in Optional(Cards) PROVE VersionCompat(card) \in 0..One
<1>1. CASE card = None \/ None \in {card.version, KernelVersion}
  BY <1>1 DEF VersionCompat, One
<1>2. CASE ~(card = None \/ None \in {card.version, KernelVersion})
  <2> DEFINE diff == card.version[2] - KernelVersion[2]
             far  == IF diff < 0 THEN -diff ELSE diff
  <2>1. card.version \in Nat \X Nat /\ KernelVersion \in Nat \X Nat
    BY <1>2, VersionAssumption DEF Optional, Cards
  <2>2. far \in Nat
    BY <2>1
  <2> HIDE DEF far
  <2>3. far < 3 => One - Part(far, 5) \in 0..One
    <3> SUFFICES ASSUME far < 3 PROVE One - Part(far, 5) \in 0..One
      OBVIOUS
    <3>1. Part(far, 5) \in 0..One
      BY <2>2, PartRange
    <3> QED
      BY <3>1 DEF One
  <2>4. Part(3, 10) \in 0..One /\ 0 \in 0..One
    BY DEF Part, One
  <2>5. VersionCompat(card) =
          CASE card.version[1] # KernelVersion[1] -> 0
            [] card.version[1] = KernelVersion[1] /\ far >= 3 -> Part(3, 10)
            [] OTHER -> One - Part(far, 5)
    BY <1>2 DEF VersionCompat, far
  <2>6. CASE card.version[1] # KernelVersion[1]
    BY <2>4, <2>5, <2>6
  <2>7. CASE card.version[1] = KernelVersion[1] /\ far >= 3
    BY <2>4, <2>5, <2>7
  <2>8. CASE card.version[1] = KernelVersion[1] /\ ~(far >= 3)
    BY <2>2, <2>3, <2>5, <2>8
  <2> QED
    BY <2>6, <2>7, <2>8
<1> QED
  BY <1>1, <1>2

\* What the sorted copy has at the index is one of the values: of two values the
\* larger one has more values up to it, and the largest has all of them.
LEMMA PercentileType ==
  ASSUME NEW values \in Seq(Int) \ {<<>>} PROVE Percentile99(values) \in Range(values)
<1> DEFINE U(v) == {n \in DOMAIN values : values[n] <= v}
           R == Range(values)
           len == Len(values)
           K == ((len - 1) * 99) \div 100
<1>1. /\ len \in Nat \ {0} /\ DOMAIN values = 1..len /\ R \subseteq Int /\ R # {}
      /\ \A v \in R : \E n \in 1..len : values[n] = v
      /\ \A n \in 1..len : values[n] \in R
      /\ IsFiniteSet(1..len) /\ Cardinality(1..len) = len
  <2>1. len \in Nat \ {0} /\ DOMAIN values = 1..len
    OBVIOUS
  <2>2. R = {values[n] : n \in 1..len}
    BY <2>1 DEF Range
  <2>3. \A n \in 1..len : values[n] \in Int
    BY <2>1
  <2> HIDE DEF len, R
  <2>4. 1 \in Int /\ len \in Int
    BY <2>1
  <2>5. IsFiniteSet(1..len) /\ Cardinality(1..len) = len
    BY <2>1, <2>4, FS_Interval
  <2> QED
    BY <2>1, <2>2, <2>3, <2>5
<1>2. K \in Nat /\ K < len
  <2>1. len - 1 \in Nat
    BY <1>1
  <2>2. \A m \in Nat : (m * 99) \div 100 \in Nat /\ (m * 99) \div 100 <= m
    OBVIOUS
  <2> QED
    BY <1>1, <2>1, <2>2
<1>3. \A v : IsFiniteSet(U(v)) /\ Cardinality(U(v)) \in 0..len
  <2>2. \A v : U(v) \subseteq 1..len
    BY <1>1
  <2> HIDE DEF U, len
  <2> QED
    BY <1>1, <2>2, FS_Subset, FS_CardinalityType
<1>4. ASSUME NEW v \in R, NEW w \in R, v < w
      PROVE  Cardinality(U(v)) < Cardinality(U(w))
  <2>1. PICK n \in 1..len : values[n] = w
    BY <1>1
  <2>2. n \in U(w) /\ n \notin U(v) /\ U(v) \subseteq U(w)
    BY <1>1, <1>4, <2>1
  <2>3. U(v) \subseteq U(w) \ {n}
    BY <2>2
  <2> HIDE DEF U
  <2>4. Cardinality(U(w) \ {n}) = Cardinality(U(w)) - 1 /\ IsFiniteSet(U(w) \ {n})
    BY <1>3, <2>2, FS_RemoveElement
  <2>5. Cardinality(U(v)) <= Cardinality(U(w) \ {n})
    BY <2>3, <2>4, FS_Subset
  <2>6. Cardinality(U(v)) \in Nat /\ Cardinality(U(w)) \in Nat
    BY <1>3
  <2> QED
    BY <2>4, <2>5, <2>6
<1>5. \E v \in R : Cardinality(U(v)) > K
  <2> DEFINE T == {len - Cardinality(U(v)) : v \in R}
  <2>1. T \in SUBSET Nat /\ T # {}
    <3>1. \A v \in R : len - Cardinality(U(v)) \in Nat
      <4> HIDE DEF U, R, len
      <4> QED
        BY <1>1, <1>3
    <3> HIDE DEF U, R, len
    <3> QED
      BY <1>1, <3>1
  <2>2. PICK v \in R : \A w \in R : Cardinality(U(w)) <= Cardinality(U(v))
    <3>1. PICK x \in T : \A y \in T : x <= y
      BY <2>1, LeastNumber
    <3>2. PICK v \in R : x = len - Cardinality(U(v))
      BY <3>1
    <3>3. ASSUME NEW w \in R PROVE Cardinality(U(w)) <= Cardinality(U(v))
      <4>1. len - Cardinality(U(v)) <= len - Cardinality(U(w))
        BY <3>1, <3>2
      <4> HIDE DEF U, len, T
      <4> QED
        BY <1>1, <1>3, <4>1
    <3> QED
      BY <3>3
  <2>3. \A n \in 1..len : values[n] <= v
    <3> SUFFICES ASSUME NEW n \in 1..len, v < values[n] PROVE FALSE
      BY <1>1
    <3>1. Cardinality(U(v)) < Cardinality(U(values[n]))
      BY <1>1, <1>4
    <3> HIDE DEF U
    <3> QED
      BY <1>1, <1>3, <2>2, <3>1
  <2>4. U(v) = 1..len
    BY <1>1, <2>3
  <2> QED
    <3> HIDE DEF U, K, len, R
    <3> QED
      BY <1>1, <1>2, <2>4
<1>6. \E v \in R : /\ Cardinality(U(v)) > K
                   /\ \A w \in R : Cardinality(U(w)) > K => v <= w
  <2> DEFINE X == {v \in R : Cardinality(U(v)) > K}
             T == {Cardinality(U(v)) : v \in X}
  <2>1. T \in SUBSET Nat /\ T # {}
    <3> HIDE DEF U, R, K
    <3> QED
      BY <1>3, <1>5
  <2>2. PICK v \in X : \A w \in X : Cardinality(U(v)) <= Cardinality(U(w))
    <3>1. PICK x \in T : \A y \in T : x <= y
      BY <2>1, LeastNumber
    <3> QED
      BY <3>1
  <2>3. ASSUME NEW w \in X PROVE v <= w
    <3> SUFFICES ASSUME w < v PROVE FALSE
      BY <1>1
    <3>1. Cardinality(U(w)) < Cardinality(U(v))
      BY <1>4
    <3> HIDE DEF U
    <3> QED
      BY <1>3, <2>2, <3>1
  <2> QED
    BY <2>2, <2>3
<1> DEFINE p == CHOOSE v \in R : /\ Cardinality(U(v)) > K
                                 /\ \A w \in R : Cardinality(U(w)) > K => v <= w
<1>7. p \in R
  <2> HIDE DEF U, R, K
  <2> QED
    BY <1>6
<1>8. Percentile99(values) = p
  BY DEF Percentile99
<1> QED
  BY <1>7, <1>8

LEMMA LatencyRange ==
  ASSUME NEW values \in Optional(Seq(Int) \ {<<>>}) PROVE LatencyScore(values) \in 0..One
<1>1. CASE values = None
  BY <1>1 DEF LatencyScore, One
<1>2. CASE values \in Seq(Int) \ {<<>>} /\ values # None
  <2>1. Percentile99(values) \in Int
    BY <1>2, PercentileType DEF Range
  <2>2. Within(0, 4, Percentile99(values)) \in 0..4
    BY <2>1 DEF Within
  <2> DEFINE p == Part(Within(0, 4, Percentile99(values)), 4)
  <2>3. p \in 0..One
    BY <2>2, PartRange
  <2>4. LatencyScore(values) = One - p
    BY <1>2 DEF LatencyScore
  <2> HIDE DEF p
  <2> QED
    BY <2>3, <2>4 DEF One
<1> QED
  BY <1>1, <1>2 DEF Optional

\* A protocol that is listed once counts once.
LEMMA ProtocolScores ==
  ASSUME NEW S, NEW interfaces \in Seq(S), NEW preferred, IsFiniteSet(preferred)
  PROVE  /\ ProtocolCompat(interfaces, preferred) \in Int
         /\ IsInjective(interfaces) => ProtocolCompat(interfaces, preferred) \in 0..One
<1> DEFINE match == {k \in DOMAIN interfaces : interfaces[k] \in preferred}
<1>1. ProtocolCompat(interfaces, preferred) =
        IF match = {} THEN 0 ELSE Part(Cardinality(match), Cardinality(preferred))
  BY DEF ProtocolCompat
<1>2. IsFiniteSet(match)
  <2>1. IsFiniteSet(1..Len(interfaces)) /\ match \subseteq 1..Len(interfaces)
    BY FS_Interval
  <2> QED
    BY <2>1, FS_Subset
<1>3. match # {} => preferred # {}
  OBVIOUS
<1>4. IsInjective(interfaces) => Cardinality(match) <= Cardinality(preferred)
  <2> SUFFICES ASSUME IsInjective(interfaces)
               PROVE  Cardinality(match) <= Cardinality(preferred)
    OBVIOUS
  <2> DEFINE f == [k \in match |-> interfaces[k]]
  <2>1. f \in Injection(match, preferred)
    BY DEF Injection, IsInjective
  <2> HIDE DEF f
  <2> QED
    BY <2>1, FS_Injection
<1> HIDE DEF match
<1>5. /\ Cardinality(match) \in Nat
      /\ match # {} => Cardinality(preferred) \in Nat \ {0}
  BY <1>2, <1>3, FS_CardinalityType, FS_EmptySet
<1> DEFINE part == Part(Cardinality(match), Cardinality(preferred))
<1>6. match # {} => part \in Int
  BY <1>5, PartInt
<1>7. match # {} /\ IsInjective(interfaces) => part \in 0..One
  BY <1>4, <1>5, PartRange
<1>8. ProtocolCompat(interfaces, preferred) = IF match = {} THEN 0 ELSE part
  BY <1>1
<1> HIDE DEF part
<1>9. CASE match = {}
  BY <1>8, <1>9 DEF One
<1>10. CASE match # {}
  BY <1>6, <1>7, <1>8, <1>10
<1> QED
  BY <1>9, <1>10

LEMMA ProtocolsFinite == \A s, w : IsFiniteSet(Protocols(s, w))
<1>1. IsFiniteSet({"A2A"})
  BY FS_Singleton
<1>2. IsFiniteSet({"A2A"} \cup {"AFP"}) /\ {"A2A", "AFP"} = {"A2A"} \cup {"AFP"}
  BY <1>1, FS_AddElement
<1> QED
  BY <1>2, PreferredAssumption DEF Protocols

-----------------------------------------------------------------------------
(* What a read finds.                                                       *)

LEMMA KindsAre ==
  /\ Fields = {"card", "load", "meta", "latencies", "successes", "errors",
               "tasks", "total", "mbps", "trust"}
  /\ Kinds["card"] = Optional(Cards) /\ Kinds["load"] = Optional(Loads)
  /\ Kinds["meta"] = Optional(Metas)
  /\ Kinds["latencies"] = Optional(Seq(Int) \ {<<>>})
  /\ \A f \in {"successes", "errors", "tasks", "total", "mbps"} :
       Kinds[f] = Optional(Nat)
  /\ Kinds["trust"] = Optional(Int)
  BY DEF Fields, Kinds

LEMMA DatumFields ==
  ASSUME NEW x, Datum(x)
  PROVE  /\ x.card \in Optional(Cards) /\ x.load \in Optional(Loads)
         /\ x.meta \in Optional(Metas) /\ x.latencies \in Optional(Seq(Int) \ {<<>>})
         /\ x.successes \in Optional(Nat) /\ x.errors \in Optional(Nat)
         /\ x.tasks \in Optional(Nat) /\ x.total \in Optional(Nat)
         /\ x.mbps \in Optional(Nat) /\ x.trust \in Optional(Int)
  BY KindsAre DEF Datum

LEMMA DatumSet ==
  ASSUME NEW x, Datum(x), NEW f \in Fields, NEW v \in Kinds[f]
  PROVE  /\ Datum([x EXCEPT ![f] = v])
         /\ \A g \in Fields : [x EXCEPT ![f] = v][g] = IF g = f THEN v ELSE x[g]
  BY DEF Datum

\* The engine and the request.
LEMMA CallType ==
  ASSUME <<deploy, req>> \in Calls
  PROVE  /\ deploy.source \in Sources /\ deploy.wrapped \in BOOLEAN
         /\ deploy.carded \in BOOLEAN /\ req.required \in Seq(STRING)
         /\ deploy.source = "nil" => ~deploy.wrapped /\ ~deploy.carded
<1>1. deploy \in Deploys /\ req \in Requests
  BY ScoringAssumption
<1>2. deploy.source = "nil" => ~deploy.wrapped /\ ~deploy.carded
  <2>1. \A c \in Calls : c[1].source = "nil" => ~c[1].wrapped /\ ~c[1].carded
    BY ScoringAssumption
  <2>2. <<deploy, req>>[1] = deploy
    OBVIOUS
  <2> QED
    BY <2>1, <2>2
<1> QED
  BY <1>1, <1>2 DEF Deploys, Requests

LEMMA OneProtocol == <<"A2A">> \in Seq({"A2A"}) /\ IsInjective(<<"A2A">>)
<1> DEFINE s == <<"A2A">>
<1>1. s \in Seq({"A2A"}) /\ DOMAIN s = 1..1
  OBVIOUS
<1> HIDE DEF s
<1>2. \A p, q \in 1..1 : p = q
  OBVIOUS
<1>3. IsInjective(s)
  BY <1>1, <1>2 DEF IsInjective
<1> QED
  BY <1>1, <1>3 DEF s

LEMMA MetaScores ==
  ASSUME NEW x, Datum(x)
  PROVE  /\ Meta(x).auth \in Int /\ \E S : Meta(x).interfaces \in Seq(S)
         /\ Proper(x) => Meta(x).auth \in 0..One /\ IsInjective(Meta(x).interfaces)
<1>1. CASE deploy.source = "memory" /\ x.meta # None
  <2>1. x.meta \in Metas /\ Meta(x) = x.meta
    BY <1>1, DatumFields DEF Meta, Optional
  <2>2. Proper(x) => x.meta.auth \in 0..One /\ IsInjective(x.meta.interfaces)
    BY <1>1 DEF Proper
  <2>3. x.meta.auth \in Int /\ x.meta.interfaces \in Seq(STRING)
    BY <2>1 DEF Metas
  <2> QED
    BY <2>1, <2>2, <2>3
<1>2. CASE ~(deploy.source = "memory" /\ x.meta # None)
  <2>1. Meta(x).auth = One /\ Meta(x).interfaces = <<"A2A">>
    BY <1>2 DEF Meta, MetaFromCard, DefaultMeta
  <2>2. One \in Int /\ One \in 0..One
    BY DEF One
  <2>3. Meta(x).interfaces \in Seq({"A2A"}) /\ IsInjective(Meta(x).interfaces)
    BY <2>1, OneProtocol
  <2> QED
    BY <2>1, <2>2, <2>3
<1> QED
  BY <1>1, <1>2

Dimension == {"trust", "latency", "success", "bandwidth", "auth", "protocol",
              "history", "errors", "availability", "version", "geo"}

LEMMA OneInt == One \in Nat /\ \A v \in 0..One : v \in Int
  BY DEF One

LEMMA FallbackRange ==
  DOMAIN Fallback = Dimension /\ \A d \in Dimension : Fallback[d] \in 0..One
  BY DEF Fallback, Dimension, Part, One

LEMMA TasksType == ASSUME NEW x, Datum(x) PROVE Tasks(x) \in Optional(Nat)
  BY DatumFields DEF Tasks

\* Each dimension that a data source answers.
LEMMA ValueScores ==
  ASSUME NEW x, Datum(x), NEW d \in Dimension
  PROVE  /\ Value(d, x) \in Int
         /\ Proper(x) => Value(d, x) \in 0..One
<1>0. /\ x.card \in Optional(Cards) /\ x.latencies \in Optional(Seq(Int) \ {<<>>})
      /\ x.successes \in Optional(Nat) /\ x.errors \in Optional(Nat)
      /\ x.total \in Optional(Nat) /\ x.mbps \in Optional(Nat)
      /\ x.trust \in Optional(Int) /\ Tasks(x) \in Optional(Nat)
      /\ CardOf(x) \in Optional(Cards)
  BY DatumFields, TasksType DEF CardOf, Optional
<1>1. CASE d = "trust"
  <2>1. Value(d, x) = ClampedTrust(x.trust)
    BY <1>1 DEF Value
  <2> QED
    BY <1>0, <2>1, TrustRange, OneInt
<1>2. CASE d = "latency"
  <2>1. Value(d, x) = LatencyScore(x.latencies)
    BY <1>2 DEF Value
  <2> QED
    BY <1>0, <2>1, LatencyRange, OneInt
<1>3. CASE d = "success"
  <2>1. Value(d, x) = SuccessScore(x.successes, Tasks(x))
    BY <1>3 DEF Value
  <2>2. Proper(x) => None \in {x.successes, Tasks(x)} \/ x.successes <= Tasks(x)
    BY DEF Proper
  <2> QED
    BY <1>0, <2>1, <2>2, SuccessScores
<1>4. CASE d = "bandwidth"
  <2>1. Value(d, x) = BandwidthScore(x.mbps)
    BY <1>4 DEF Value
  <2> QED
    BY <1>0, <2>1, BandwidthRange, OneInt
<1>5. CASE d = "auth"
  BY <1>5, MetaScores DEF Value
<1>6. CASE d = "protocol"
  <2>1. Value(d, x) = ProtocolCompat(Meta(x).interfaces,
                                     Protocols(deploy.source, deploy.wrapped))
    BY <1>6 DEF Value
  <2>2. PICK S : Meta(x).interfaces \in Seq(S)
    BY MetaScores
  <2>4. IsFiniteSet(Protocols(deploy.source, deploy.wrapped))
    BY ProtocolsFinite
  <2>3. Proper(x) => IsInjective(Meta(x).interfaces)
    BY MetaScores
  <2> QED
    BY <2>1, <2>2, <2>3, <2>4, ProtocolScores
<1>7. CASE d = "history"
  <2>1. Value(d, x) = HistoryScore(x.total)
    BY <1>7 DEF Value
  <2> QED
    BY <1>0, <2>1, HistoryRange, OneInt
<1>8. CASE d = "errors"
  <2>1. Value(d, x) = ErrorScore(x.errors, Tasks(x))
    BY <1>8 DEF Value
  <2>2. Proper(x) => None \in {x.errors, Tasks(x)} \/ x.errors <= Tasks(x)
    BY DEF Proper
  <2> QED
    BY <1>0, <2>1, <2>2, ErrorScores
<1>9. CASE d = "availability"
  <2>1. Value(d, x) = Availability(CardOf(x))
    BY <1>9 DEF Value
  <2> QED
    BY <1>0, <2>1, AvailabilityRange, OneInt
<1>10. CASE d = "version"
  <2>1. Value(d, x) = VersionCompat(CardOf(x))
    BY <1>10 DEF Value
  <2> QED
    BY <1>0, <2>1, VersionRange, OneInt
<1>11. CASE d = "geo"
  <2>1. Value(d, x) = GeoPenalty(Meta(x).region, req.region)
    BY <1>11 DEF Value
  <2> QED
    BY <1>0, <2>1, GeoRange, OneInt
<1> QED
  BY <1>1, <1>2, <1>3, <1>4, <1>5, <1>6, <1>7, <1>8, <1>9, <1>10, <1>11 DEF Dimension

LEMMA FailedRange == ASSUME NEW d \in Dimension PROVE Failed(d) \in 0..One
<1>1. CASE d = "auth"
  BY <1>1 DEF Failed, DefaultMeta, One
<1>2. CASE d = "protocol"
  <2>2. ProtocolCompat(<<"A2A">>, Protocols(deploy.source, deploy.wrapped)) \in 0..One
    BY OneProtocol, ProtocolsFinite, ProtocolScores
  <2> QED
    BY <1>2, <2>2 DEF Failed, DefaultMeta
<1>3. CASE d = "geo"
  BY <1>3, GeoRange DEF Failed
<1>4. CASE d \notin {"auth", "protocol", "geo"}
  BY <1>4, FallbackRange DEF Failed
<1> QED
  BY <1>1, <1>2, <1>3, <1>4

\* A rate of two reads, the second of them a count of tasks.
LEMMA RateScores ==
  ASSUME NEW d, NEW n \in Optional(Nat), NEW t \in Optional(Nat)
  PROVE  /\ Rate(d, n, t) \in Int
         /\ None \in {n, t} \/ n <= t => Rate(d, n, t) \in 0..One
  BY SuccessScores, ErrorScores DEF Rate

-----------------------------------------------------------------------------
(* How far the call is.                                                      *)

\* The read that fills a dimension.
Turn == [skill |-> 1, network |-> 1, health |-> 2, load |-> 2, trust |-> 3,
         latency |-> 4, success |-> 5, bandwidth |-> 6, auth |-> 7,
         protocol |-> 8, history |-> 9, errors |-> 10, availability |-> 11,
         version |-> 12, geo |-> 13]

Filled(k) == {d \in DOMAIN Weights : Turn[d] < k}

LEMMA WeightsAre ==
  /\ DOMAIN Weights = Dimension \cup {"skill", "network", "health", "load"}
  /\ \A d \in DOMAIN Weights : Turn[d] \in 1..13
  /\ \A d \in DOMAIN Weights : Turn[d] = 1 <=> d \in {"skill", "network"}
  /\ \A d \in DOMAIN Weights : Turn[d] = 2 <=> d \in {"health", "load"}
  BY DEF Weights, Dimension, Turn

LEMMA TurnsDiffer ==
  ASSUME NEW d \in Dimension, NEW e \in DOMAIN Weights, Turn[e] = Turn[d] PROVE e = d
  BY DEF Weights, Dimension, Turn

LEMMA StepsAre ==
  /\ DOMAIN Steps = 1..14 /\ Steps[1] = "card" /\ Steps[2] = "load" /\ Steps[14] = "add"
  /\ Steps[3] = "trust" /\ Steps[4] = "latency" /\ Steps[5] = "success"
  /\ Steps[6] = "bandwidth" /\ Steps[7] = "auth" /\ Steps[8] = "protocol"
  /\ Steps[9] = "history" /\ Steps[10] = "errors" /\ Steps[11] = "availability"
  /\ Steps[12] = "version" /\ Steps[13] = "geo"
  BY DEF Steps

LEMMA ReadingAt ==
  ASSUME at \in DOMAIN Steps
  PROVE  /\ Reading("card") => at = 1
         /\ Reading("load") => at = 2
         /\ Reading("add") => at = 14
         /\ \A d \in Dimension : Reading(d) => Turn[d] = at
<1>1. at \in 1..14
  BY StepsAre
<1>2. at \in {1, 2, 3, 4, 5, 6, 7, 8, 9, 10, 11, 12, 13, 14}
  BY <1>1
<1> QED
  BY <1>2, StepsAre DEF Reading, Dimension, Turn

Collecting ==
  /\ IsInjective(todo)
  /\ DOMAIN dims = Filled(at) /\ \A d \in DOMAIN dims : dims[d] \in Int
  /\ half # None => todo # <<>> /\ at \in {5, 10} /\ deploy.source = "redis"

IInv == TypeOK /\ Collecting

\* A read fills the dimensions whose turn it is.
LEMMA PutDoes ==
  ASSUME TypeOK, Collecting, NEW new, at \in 1..13, Put(new),
         DOMAIN new = {d \in DOMAIN Weights : Turn[d] = at},
         \A d \in DOMAIN new : new[d] \in Int
  PROVE  /\ at' \in DOMAIN Steps /\ half' = None /\ todo' = todo
         /\ UNCHANGED torn /\ UNCHANGED rankVars
         /\ DOMAIN dims' = Filled(at') /\ \A d \in DOMAIN dims' : dims'[d] \in Int
         /\ DOMAIN dims' = DOMAIN dims \cup DOMAIN new
         /\ DOMAIN dims \cap DOMAIN new = {}
         /\ \A d \in DOMAIN dims' :
              dims'[d] = IF d \in DOMAIN new THEN new[d] ELSE dims[d]
<1>1. /\ dims' = [d \in DOMAIN dims \cup DOMAIN new |->
                    IF d \in DOMAIN new THEN new[d] ELSE dims[d]]
      /\ at' = at + 1 /\ half' = None /\ todo' = todo
      /\ UNCHANGED torn /\ UNCHANGED rankVars
  BY DEF Put
<1>2. at + 1 \in DOMAIN Steps
  BY StepsAre
<1>3. \A d \in DOMAIN Weights : Turn[d] \in Int
  BY WeightsAre
<1>4. \A d \in DOMAIN Weights : Turn[d] < at + 1 <=> Turn[d] < at \/ Turn[d] = at
  BY <1>3
<1>5. DOMAIN dims = Filled(at)
  BY DEF Collecting
<1>6. Filled(at + 1) = DOMAIN dims \cup DOMAIN new
  BY <1>4, <1>5 DEF Filled
<1>7. DOMAIN dims \cap DOMAIN new = {}
  BY <1>3, <1>5 DEF Filled
<1> QED
  BY <1>1, <1>2, <1>6, <1>7 DEF Collecting

\* The next agent.
LEMMA NextAgentDoes ==
  ASSUME TypeOK, Collecting, todo # <<>>, NextAgent
  PROVE  /\ at' \in DOMAIN Steps /\ half' = None /\ DOMAIN dims' = {}
         /\ todo' \in Seq(Agents) /\ IsInjective(todo') /\ DOMAIN dims' = Filled(at')
         /\ Len(todo') = Len(todo) - 1
         /\ \A k \in 1..Len(todo') : k + 1 \in 1..Len(todo) /\ todo'[k] = todo[k + 1]
<1>1. /\ todo \in Seq(Agents) /\ todo' = Tail(todo)
      /\ at' = 1 /\ half' = None /\ dims' = <<>>
  BY DEF TypeOK, NextAgent
<1>2. /\ todo' \in Seq(Agents) /\ Len(todo') = Len(todo) - 1
      /\ \A k \in 1..Len(todo') : k + 1 \in 1..Len(todo) /\ todo'[k] = todo[k + 1]
  BY <1>1
<1>3. IsInjective(todo')
  <2>1. DOMAIN todo' = 1..Len(todo') /\ DOMAIN todo = 1..Len(todo)
    BY <1>1, <1>2
  <2>2. \A p, q \in 1..Len(todo) : todo[p] = todo[q] => p = q
    BY <2>1 DEF Collecting, IsInjective
  <2>3. ASSUME NEW p \in 1..Len(todo'), NEW q \in 1..Len(todo'), todo'[p] = todo'[q]
        PROVE  p = q
    <3>1. p + 1 = q + 1
      BY <1>2, <2>2, <2>3
    <3> QED
      BY <3>1
  <2> QED
    BY <2>1, <2>3 DEF IsInjective
<1>4. Filled(1) = {}
  BY WeightsAre DEF Filled
<1>5. DOMAIN dims' = {} /\ 1 \in DOMAIN Steps
  BY <1>1, StepsAre
<1> QED
  BY <1>1, <1>2, <1>3, <1>4, <1>5

-----------------------------------------------------------------------------
(* What comes in between.                                                    *)

\* While the tasks of an agent are not known, their outcomes stay.
Keeps(a, y) ==
  deploy.source = "redis" /\ data[a].tasks = None
    => y.successes = data[a].successes /\ y.errors = data[a].errors

LEMMA SetDoes ==
  ASSUME TypeOK, NEW a \in Agents, Set(a)
  PROVE  \E y : Datum(y) /\ Change(a, y) /\ Keeps(a, y)
<1>1. PICK f \in Settable : \E v \in Domain[f] \ {data[a][f]} :
                                Change(a, [data[a] EXCEPT ![f] = v])
  BY DEF Set
<1>2. PICK v \in Domain[f] : Change(a, [data[a] EXCEPT ![f] = v])
  BY <1>1
<1>3. f \in Fields \ {"tasks", "successes"} /\ (deploy.source = "redis" => f # "errors")
  BY <1>1, KindsAre DEF Settable
<1>4. v \in Kinds[f]
  BY <1>3, ScoringAssumption
<1>5. Datum(data[a])
  BY DEF TypeOK
<1>6. Datum([data[a] EXCEPT ![f] = v])
      /\ \A g \in Fields : [data[a] EXCEPT ![f] = v][g] = IF g = f THEN v ELSE data[a][g]
  BY <1>3, <1>4, <1>5, DatumSet
<1>7. Keeps(a, [data[a] EXCEPT ![f] = v])
  BY <1>3, <1>6, KindsAre DEF Keeps
<1> QED
  BY <1>2, <1>6, <1>7

LEMMA SetSuccessDoes ==
  ASSUME TypeOK, NEW a \in Agents, SetSuccess(a)
  PROVE  \E y : Datum(y) /\ Change(a, y) /\ Keeps(a, y)
<1>1. PICK s \in Domain["successes"], t \in Domain["total"] :
        Change(a, [data[a] EXCEPT !.successes = s, !.total = t])
  BY DEF SetSuccess
<1>2. deploy.source = "memory"
  BY DEF SetSuccess
<1>3. s \in Kinds["successes"] /\ t \in Kinds["total"]
  BY KindsAre, ScoringAssumption
<1>4. Datum(data[a])
  BY DEF TypeOK
<1>5. Datum([data[a] EXCEPT !.successes = s])
  BY <1>3, <1>4, DatumSet, KindsAre
<1>6. Datum([[data[a] EXCEPT !.successes = s] EXCEPT !.total = t])
  BY <1>3, <1>5, DatumSet, KindsAre
<1>7. [data[a] EXCEPT !.successes = s, !.total = t]
        = [[data[a] EXCEPT !.successes = s] EXCEPT !.total = t]
  OBVIOUS
<1> QED
  BY <1>1, <1>2, <1>6, <1>7 DEF Keeps

LEMMA CountType == ASSUME NEW n \in Optional(Nat) PROVE Count(n) \in Nat
  BY DEF Count, Optional

LEMMA BeginTaskDoes ==
  ASSUME TypeOK, NEW a \in Agents, BeginTask(a)
  PROVE  \E y : Datum(y) /\ Change(a, y) /\ Keeps(a, y)
<1> DEFINE x == data[a]
<1>1. Datum(x) /\ Window \in Nat \ {0}
  BY ScoringAssumption DEF TypeOK
<1>2. /\ x.tasks \in Optional(Nat)
      /\ x.successes \in Optional(Nat) /\ x.errors \in Optional(Nat)
  BY <1>1, DatumFields
<1>3. \/ Change(a, [x EXCEPT !.tasks = Count(x.tasks) + 1])
      \/ /\ Count(x.tasks) = Window /\ Count(x.successes) > 0
         /\ Change(a, [x EXCEPT !.successes = x.successes - 1])
      \/ /\ Count(x.tasks) = Window /\ Count(x.errors) > 0
         /\ Change(a, [x EXCEPT !.errors = x.errors - 1])
  BY DEF BeginTask
<1> HIDE DEF x
<1>4. CASE Change(a, [x EXCEPT !.tasks = Count(x.tasks) + 1])
  <2>0. Count(x.tasks) \in Nat
    BY <1>2, CountType
  <2>1. Count(x.tasks) + 1 \in Kinds["tasks"] /\ "tasks" \in Fields
    BY <2>0, KindsAre DEF Optional
  <2> DEFINE v == Count(x.tasks) + 1
             y == [x EXCEPT !["tasks"] = v]
  <2>2. Change(a, y)
    BY <1>4
  <2> HIDE DEF v
  <2>3. v \in Kinds["tasks"]
    BY <2>1 DEF v
  <2>4. Datum(y)
    BY <1>1, <2>1, <2>3, DatumSet
  <2>5. y.successes = x.successes /\ y.errors = x.errors
    OBVIOUS
  <2>6. Keeps(a, y)
    BY <2>5 DEF Keeps, x
  <2> QED
    BY <2>2, <2>4, <2>6
<1>5. CASE /\ Count(x.tasks) = Window /\ Count(x.successes) > 0
           /\ Change(a, [x EXCEPT !.successes = x.successes - 1])
  <2>1. x.successes - 1 \in Kinds["successes"] /\ x.tasks # None
    BY <1>1, <1>2, <1>5, KindsAre DEF Optional, Count
  <2>2. Datum([x EXCEPT !.successes = x.successes - 1])
    BY <1>1, <2>1, DatumSet, KindsAre
  <2>3. Keeps(a, [x EXCEPT !.successes = x.successes - 1])
    BY <2>1 DEF Keeps, x
  <2> QED
    BY <1>5, <2>2, <2>3
<1>6. CASE /\ Count(x.tasks) = Window /\ Count(x.errors) > 0
           /\ Change(a, [x EXCEPT !.errors = x.errors - 1])
  <2>1. x.errors - 1 \in Kinds["errors"] /\ x.tasks # None
    BY <1>1, <1>2, <1>6, KindsAre DEF Optional, Count
  <2>2. Datum([x EXCEPT !.errors = x.errors - 1])
    BY <1>1, <2>1, DatumSet, KindsAre
  <2>3. Keeps(a, [x EXCEPT !.errors = x.errors - 1])
    BY <2>1 DEF Keeps, x
  <2> QED
    BY <1>6, <2>2, <2>3
<1> QED
  BY <1>3, <1>4, <1>5, <1>6

LEMMA EndTaskDoes ==
  ASSUME TypeOK, NEW a \in Agents, EndTask(a)
  PROVE  \E y : Datum(y) /\ Change(a, y) /\ Keeps(a, y)
<1> DEFINE x == data[a]
<1>1. Datum(x)
  BY DEF TypeOK
<1>2. /\ x.tasks \in Optional(Nat)
      /\ x.successes \in Optional(Nat) /\ x.errors \in Optional(Nat)
  BY <1>1, DatumFields
<1>3. /\ Count(x.successes) + Count(x.errors) < Count(x.tasks)
      /\ \/ Change(a, [x EXCEPT !.successes = Count(x.successes) + 1])
         \/ Change(a, [x EXCEPT !.errors = Count(x.errors) + 1])
  BY DEF EndTask
<1> HIDE DEF x
<1>0. Count(x.successes) \in Nat /\ Count(x.errors) \in Nat
  BY <1>2, CountType
<1>4. x.tasks # None
  BY <1>0, <1>3 DEF Count
<1>5. /\ Count(x.successes) + 1 \in Kinds["successes"]
      /\ Count(x.errors) + 1 \in Kinds["errors"]
  BY <1>0, KindsAre DEF Optional
<1>6. /\ Datum([x EXCEPT !.successes = Count(x.successes) + 1])
      /\ Datum([x EXCEPT !.errors = Count(x.errors) + 1])
  BY <1>1, <1>5, DatumSet, KindsAre
<1>7. \A y : Keeps(a, y)
  BY <1>4 DEF Keeps, x
<1> QED
  BY <1>3, <1>6, <1>7

LEMMA ExpireDoes ==
  ASSUME TypeOK, NEW a \in Agents, Expire(a)
  PROVE  \E y : Datum(y) /\ Change(a, y) /\ Keeps(a, y)
<1> DEFINE x == data[a]
           y1 == [x EXCEPT !.successes = None]
           y2 == [y1 EXCEPT !.errors = None]
           y3 == [y2 EXCEPT !.tasks = None]
<1>1. Datum(x) /\ x.tasks # None
  BY DEF TypeOK, Expire
<1>2. Change(a, [x EXCEPT !.successes = None, !.errors = None, !.tasks = None])
  BY DEF Expire
<1>4. None \in Kinds["successes"] /\ None \in Kinds["errors"] /\ None \in Kinds["tasks"]
  BY KindsAre DEF Optional
<1> HIDE DEF x
<1>3. [x EXCEPT !.successes = None, !.errors = None, !.tasks = None] = y3
  OBVIOUS
<1>5. Datum(y1)
  BY <1>1, <1>4, DatumSet, KindsAre
<1> HIDE DEF y1
<1>6. Datum(y2)
  BY <1>4, <1>5, DatumSet, KindsAre
<1> HIDE DEF y2
<1>7. Datum(y3)
  BY <1>4, <1>6, DatumSet, KindsAre
<1>8. Keeps(a, y3)
  BY <1>1 DEF Keeps, x
<1> QED
  BY <1>2, <1>3, <1>7, <1>8

LEMMA EnvironmentDoes ==
  ASSUME TypeOK, Environment
  PROVE  \E a \in Agents : \E y : Datum(y) /\ Change(a, y) /\ Keeps(a, y)
  BY SetDoes, SetSuccessDoes, BeginTaskDoes, EndTaskDoes, ExpireDoes DEF Environment

-----------------------------------------------------------------------------
(* The invariant of the call.                                                *)

Neutral == Dimension \ (OfRegistry \cup OfMeta)

\* What is lost belongs to agents that had their turn, and left them the
\* fallback.
LostInv ==
  /\ \A k \in DOMAIN todo : k # 1 => \A d : <<todo[k], d>> \notin lost
  /\ todo # <<>> => \A d : <<This, d>> \in lost
                           => d \in DOMAIN dims /\ (d \in Neutral => dims[d] = Fallback[d])

\* The first GET of a rate does not exceed the tasks, or the tasks are unknown
\* and the outcomes are what they were; and they are if nothing has changed.
HalfInv ==
  half # None =>
    /\ This \in regular => IF Seen.tasks = None THEN half = Outcomes(Steps[at], Seen)
                           ELSE half <= Seen.tasks
    /\ This \notin torn => half = Outcomes(Steps[at], Seen)

RangeInv ==
  /\ \A a \in regular : Proper(data[a])
  /\ HalfInv
  /\ todo # <<>> /\ This \in regular => \A d \in DOMAIN dims : dims[d] \in 0..One
  /\ \A g \in gathered : g[1] \in regular => g[2] \in 0..(1000 * One)

\* What data x are worth in dimension d when nothing fails.
Dim(d, x) ==
  CASE d = "skill"   -> SkillMatch(x.card.skills, req.required)
    [] d = "network" -> NetworkPenalty(x.card, req)
    [] d = "health"  -> HealthScore(x.load)
    [] d = "load"    -> LoadScore(x.load)
    [] d \in Dimension -> IF deploy.source = "nil" THEN Fallback[d] ELSE Value(d, x)

LEMMA DimIs ==
  /\ \A x : Dim("skill", x) = SkillMatch(x.card.skills, req.required)
  /\ \A x : Dim("network", x) = NetworkPenalty(x.card, req)
  /\ \A x : Dim("health", x) = HealthScore(x.load)
  /\ \A x : Dim("load", x) = LoadScore(x.load)
  /\ \A x : \A d \in Dimension :
       Dim(d, x) = IF deploy.source = "nil" THEN Fallback[d] ELSE Value(d, x)
<1>1. \A x : Dim("skill", x) = SkillMatch(x.card.skills, req.required)
  BY DEF Dim, Dimension
<1>2. \A x : Dim("network", x) = NetworkPenalty(x.card, req)
  BY DEF Dim, Dimension
<1>3. \A x : Dim("health", x) = HealthScore(x.load)
  BY DEF Dim, Dimension
<1>4. \A x : Dim("load", x) = LoadScore(x.load)
  BY DEF Dim, Dimension
<1>5. ASSUME NEW x, NEW d \in Dimension
      PROVE  Dim(d, x) = IF deploy.source = "nil" THEN Fallback[d] ELSE Value(d, x)
  <2>1. d \notin {"skill", "network", "health", "load"}
    BY DEF Dimension
  <2> QED
    BY <2>1 DEF Dim
<1> QED
  BY <1>1, <1>2, <1>3, <1>4, <1>5

Points(v) ==
  v["skill"] * 250 + v["trust"] * 200 + v["health"] * 150 + v["latency"] * 100
    + v["load"] * 80 + v["success"] * 70 + v["network"] * 50 + v["bandwidth"] * 30
    + v["auth"] * 20 + v["protocol"] * 20 + v["history"] * 10 + v["errors"] * 10
    + v["availability"] * 5 + v["version"] * 5 + v["geo"] * 0

\* Agent a has its points by data that were its own in the call, perhaps by
\* others in each dimension.
Earned(a, t) ==
  \E v \in [DOMAIN Weights -> Int] :
    t = Points(v) /\ \A d \in DOMAIN Weights : \E x \in shown[a] : v[d] = Dim(d, x)

EarnedInv == \A g \in gathered : Untroubled(g[1]) => Earned(g[1], g[2])

ShownInv ==
  /\ \A a \in Agents : \A x \in shown[a] : Datum(x)
  /\ todo # <<>> /\ Untroubled(This)
       => \A d \in DOMAIN dims : \E x \in shown[This] : dims[d] = Dim(d, x)
  /\ EarnedInv

CallInv == TypeOK /\ Collecting /\ LostInv /\ RangeInv /\ ShownInv

\* The scores that one read gives the agent whose turn it is.
Fills(new) ==
  /\ Put(new) /\ Unchanging
  /\ phase = "collect" /\ todo # <<>> /\ at \in 1..13
  /\ events' \in 0..MaxEvents
  /\ DOMAIN new = {d \in DOMAIN Weights : Turn[d] = at}
  /\ \A d \in DOMAIN new : new[d] \in Int
  /\ This \in regular => \A d \in DOMAIN new : new[d] \in 0..One
  /\ \/ /\ lost' = lost
        /\ This \notin torn => \A d \in DOMAIN new : new[d] = Dim(d, Seen)
     \/ \E e \in DOMAIN new : /\ lost' = lost \cup {<<This, e>>}
                              /\ e \in Neutral => new[e] = Fallback[e]

Skips == /\ phase = "collect" /\ todo # <<>> /\ NextAgent
         /\ events' \in 0..MaxEvents
         /\ lost' \in {lost, lost \cup {<<This, "card">>}}
         /\ UNCHANGED <<torn, rankVars>> /\ Unchanging

LEMMA SpendType == ASSUME TypeOK, Spend \/ UNCHANGED events PROVE events' \in 0..MaxEvents
  BY ScoringAssumption DEF TypeOK, Spend

LEMMA ThisType ==
  ASSUME TypeOK, todo # <<>> PROVE This \in Agents /\ This = todo[1] /\ Datum(Seen)
                                    /\ todo \in Seq(Agents) /\ Len(todo) \in Nat \ {0}
<1>1. todo \in Seq(Agents) /\ Len(todo) \in Nat \ {0} /\ This = todo[1]
  BY DEF TypeOK, This
<1>2. This \in Agents
  BY <1>1
<1> QED
  BY <1>1, <1>2 DEF TypeOK, Seen

LEMMA GetAgentDoes ==
  ASSUME CallInv, GetAgent
  PROVE  Skips \/ \E new : Fills(new)
<1>1. /\ Reading("card") /\ phase = "collect" /\ todo # <<>> /\ at = 1
      /\ Unchanging
  BY ReadingAt DEF GetAgent, Reading, CallInv, TypeOK
<1>2. CASE NextAgent
  <2>1. /\ Spend \/ UNCHANGED events
        /\ lost' \in {lost, lost \cup {<<This, "card">>}}
    <3>1. NextAgent => todo' # todo
      <4>1. todo \in Seq(Agents)
        BY DEF CallInv, TypeOK
      <4>2. Len(Tail(todo)) = Len(todo) - 1 /\ Len(todo) \in Nat
        BY <1>1, <4>1
      <4> QED
        BY <4>2 DEF NextAgent
    <3> QED
      BY <1>2, <3>1 DEF GetAgent, Put
  <2>2. UNCHANGED <<torn, rankVars>>
    BY <1>2 DEF GetAgent, Put
  <2> QED
    BY <1>1, <1>2, <2>1, <2>2, SpendType DEF Skips, CallInv
<1>3. CASE ~NextAgent
  <2> DEFINE s == SkillMatch(Seen.card.skills, req.required)
             n == NetworkPenalty(Seen.card, req)
             new == [skill |-> s, network |-> n]
  <2>1. Put(new) /\ UNCHANGED <<events, lost>>
    BY <1>3 DEF GetAgent
  <2>2. s \in 0..One /\ n \in 0..One
    BY SkillRange, NetworkRange, CallType DEF CallInv, TypeOK
  <2> HIDE DEF s, n
  <2>3. DOMAIN new = {"skill", "network"} /\ \A d \in DOMAIN new : new[d] \in 0..One
    BY <2>2
  <2>4. DOMAIN new = {d \in DOMAIN Weights : Turn[d] = at}
    BY <1>1, <2>3, WeightsAre
  <2>5. \A d \in DOMAIN new : new[d] = Dim(d, Seen)
    BY <2>3, DimIs DEF s, n
  <2>6. Fills(new)
    BY <1>1, <2>1, <2>3, <2>4, <2>5, SpendType, OneInt DEF Fills, CallInv
  <2> QED
    BY <2>6
<1> QED
  BY <1>2, <1>3

LEMMA GetLoadDoes ==
  ASSUME CallInv, GetLoad PROVE \E new : Fills(new)
<1>1. /\ Reading("load") /\ phase = "collect" /\ todo # <<>> /\ at = 2 /\ Unchanging
  BY ReadingAt DEF GetLoad, Reading, CallInv, TypeOK
<1>2. PICK l \in {Seen.load, None} :
        /\ IF l = Seen.load THEN UNCHANGED <<events, lost>>
           ELSE Spend /\ lost' = lost \cup {<<This, "load">>}
        /\ Put([health |-> HealthScore(l), load |-> LoadScore(l)])
  BY DEF GetLoad
<1>3. Datum(Seen) /\ (This \in regular => Proper(Seen))
  BY <1>1, ThisType DEF CallInv, RangeInv, Seen
<1>4. Seen.load \in Optional(Loads)
  BY <1>3, DatumFields
<1>5. l \in Optional(Loads)
  BY <1>4 DEF Optional
<1>6. l # None /\ This \in regular
        => {l.cpu, l.memory} \subseteq 0..4 /\ l.active <= l.capacity
  BY <1>3 DEF Proper
<1> DEFINE h == HealthScore(l)
           v == LoadScore(l)
           new == [health |-> h, load |-> v]
<1>7. /\ h \in Int /\ v \in Int
      /\ This \in regular => h \in 0..One /\ v \in 0..One
  BY <1>5, <1>6, HealthScores, LoadScores
<1>8. Put(new)
  BY <1>2
<1> HIDE DEF h, v
<1>9. DOMAIN new = {"health", "load"} /\ \A d \in DOMAIN new : new[d] \in Int
  BY <1>7
<1>10. This \in regular => \A d \in DOMAIN new : new[d] \in 0..One
  BY <1>7
<1>11. DOMAIN new = {d \in DOMAIN Weights : Turn[d] = at}
  BY <1>1, <1>9, WeightsAre
<1>12. events' \in 0..MaxEvents
  BY <1>2, SpendType DEF CallInv
<1>13. \/ lost' = lost /\ l = Seen.load
       \/ lost' = lost \cup {<<This, "load">>}
  BY <1>2
<1>16. l = Seen.load => \A d \in DOMAIN new : new[d] = Dim(d, Seen)
  BY <1>9, DimIs DEF h, v, new
<1>14. "load" \in DOMAIN new /\ "load" \notin Neutral
  BY <1>9 DEF Neutral, Dimension
<1> HIDE DEF new
<1>15. Fills(new)
  BY <1>1, <1>8, <1>9, <1>10, <1>11, <1>12, <1>13, <1>14, <1>16 DEF Fills
<1> QED
  BY <1>15

\* One dimension is told, by a read or by the failure of one.
LEMMA ScoreDoes ==
  ASSUME CallInv, NEW d \in Dimension, NEW v \in Int,
         Reading(d), Score(d, v), Unchanging,
         This \in regular => v \in 0..One,
         \/ UNCHANGED <<events, lost>> /\ (This \notin torn => v = Dim(d, Seen))
         \/ Spend /\ v = Failed(d) /\ lost' = lost \cup {<<This, d>>}
  PROVE  \E new : Fills(new)
<1> DEFINE new == [e \in {d} |-> v]
<1>1. phase = "collect" /\ todo # <<>> /\ Turn[d] = at /\ d \in DOMAIN Weights
  BY ReadingAt, WeightsAre DEF Reading, CallInv, TypeOK
<1>2. at \in 1..13
  BY <1>1, WeightsAre
<1>3. DOMAIN new = {e \in DOMAIN Weights : Turn[e] = at}
  BY <1>1, TurnsDiffer
<1>4. events' \in 0..MaxEvents
  BY SpendType DEF CallInv
<1>5. d \in Neutral => Failed(d) = Fallback[d]
  BY DEF Failed, Neutral, OfMeta
<1>6. Put(new)
  BY DEF Score
<1>7. d \in DOMAIN new /\ \A e \in DOMAIN new : new[e] = v
  OBVIOUS
<1> HIDE DEF new
<1>9. \/ /\ lost' = lost
         /\ This \notin torn => \A e \in DOMAIN new : new[e] = Dim(e, Seen)
      \/ \E e \in DOMAIN new : /\ lost' = lost \cup {<<This, e>>}
                               /\ e \in Neutral => new[e] = Fallback[e]
  <2>1. CASE UNCHANGED <<events, lost>> /\ (This \notin torn => v = Dim(d, Seen))
    <3>1. \A e \in DOMAIN new : e = d
      BY DEF new
    <3> QED
      BY <1>7, <2>1, <3>1
  <2>2. CASE Spend /\ v = Failed(d) /\ lost' = lost \cup {<<This, d>>}
    BY <1>5, <1>7, <2>2
  <2> QED
    BY <2>1, <2>2
<1>8. Fills(new)
  BY <1>1, <1>2, <1>3, <1>4, <1>6, <1>7, <1>9 DEF Fills
<1> QED
  BY <1>8

LEMMA ReadDoes ==
  ASSUME CallInv, NEW d \in Dimension, Read(d) PROVE \E new : Fills(new)
<1>1. Reading(d) /\ phase = "collect" /\ todo # <<>> /\ Unchanging
  BY DEF Read, Reading
<1>2. Datum(Seen) /\ (This \in regular => Proper(Seen))
  BY <1>1, ThisType DEF CallInv, RangeInv, Seen
<1>3. CASE /\ Score(d, IF deploy.source = "nil" THEN Fallback[d] ELSE Value(d, Seen))
           /\ UNCHANGED <<events, lost>>
  <2> DEFINE v == IF deploy.source = "nil" THEN Fallback[d] ELSE Value(d, Seen)
  <2>1. v \in Int /\ (This \in regular => v \in 0..One)
    BY <1>2, ValueScores, FallbackRange, OneInt
  <2>2. Score(d, v)
    BY <1>3
  <2>3. v = Dim(d, Seen)
    BY DimIs
  <2> HIDE DEF v
  <2> QED
    BY <1>1, <1>3, <2>1, <2>2, <2>3, ScoreDoes
<1>4. CASE Spend /\ Score(d, Failed(d)) /\ lost' = lost \cup {<<This, d>>}
  <2>1. Failed(d) \in 0..One /\ Failed(d) \in Int
    BY FailedRange, OneInt
  <2> QED
    BY <1>1, <1>4, <2>1, ScoreDoes
<1> QED
  BY <1>3, <1>4 DEF Read

LEMMA OutcomesType ==
  ASSUME NEW x, Datum(x), NEW d PROVE Outcomes(d, x) \in Optional(Nat)
  BY DatumFields DEF Outcomes

LEMMA TwoGetsDoes ==
  ASSUME CallInv, NEW d \in Rates, TwoGets(d)
  PROVE  \/ half = None /\ Outcomes(d, Seen) # None /\ Kept(Outcomes(d, Seen))
            /\ Reading(d) /\ deploy.source = "redis" /\ Unchanging
         \/ \E new : Fills(new)
<1>1. Reading(d) /\ phase = "collect" /\ todo # <<>> /\ Unchanging
      /\ deploy.source = "redis" /\ d \in Dimension
  BY DEF TwoGets, Reading, Rates, Dimension
<1>2. Datum(Seen) /\ (This \in regular => Proper(Seen))
  BY <1>1, ThisType DEF CallInv, RangeInv, Seen
<1>3. CASE /\ half # None \/ Outcomes(d, Seen) = None
           /\ Score(d, Rate(d, half, Seen.tasks)) /\ UNCHANGED <<events, lost>>
  <2>1. half \in Optional(Nat) /\ Seen.tasks \in Optional(Nat)
    BY <1>2, DatumFields DEF CallInv, TypeOK, Optional
  <2>2. This \in regular => None \in {half, Seen.tasks} \/ half <= Seen.tasks
    BY DEF CallInv, RangeInv, HalfInv
  <2>3. /\ Rate(d, half, Seen.tasks) \in Int
        /\ This \in regular => Rate(d, half, Seen.tasks) \in 0..One
    BY <2>1, <2>2, RateScores
  <2>4. Dim(d, Seen) = Rate(d, Outcomes(d, Seen), Seen.tasks)
    <3>1. Dim(d, Seen) = Value(d, Seen)
      BY <1>1, DimIs
    <3> QED
      BY <1>1, <3>1 DEF Value, Rate, Outcomes, Rates, Tasks
  <2>5. This \notin torn => half = Outcomes(d, Seen)
    BY <1>1, <1>3 DEF CallInv, RangeInv, HalfInv, Reading
  <2> QED
    BY <1>1, <1>3, <2>3, <2>4, <2>5, ScoreDoes
<1>4. CASE Spend /\ Score(d, Failed(d)) /\ lost' = lost \cup {<<This, d>>}
  <2>1. Failed(d) \in 0..One /\ Failed(d) \in Int
    BY <1>1, FailedRange, OneInt
  <2> QED
    BY <1>1, <1>4, <2>1, ScoreDoes
<1> QED
  BY <1>1, <1>3, <1>4 DEF TwoGets

-----------------------------------------------------------------------------
(* Every step keeps it.                                                      *)

LEMMA ProperStays ==
  ASSUME UNCHANGED <<deploy, data, regular>>, \A a \in regular : Proper(data[a])
  PROVE  (\A a \in regular : Proper(data[a]))'
  BY DEF Proper, Tasks

LEMMA DimStays ==
  ASSUME UNCHANGED <<deploy, req>> PROVE \A d, x : Dim(d, x)' = Dim(d, x)
<1>1. \A d, x : Value(d, x)' = Value(d, x)
  BY DEF Value, Tasks, CardOf, Meta
<1> QED
  BY <1>1 DEF Dim

\* What was earned stays earned while an agent's data are remembered.
LEMMA EarnedStays ==
  ASSUME UNCHANGED <<deploy, req>>, NEW a, NEW t,
         shown[a] \subseteq shown'[a], Earned(a, t)
  PROVE  Earned(a, t)'
<1>1. PICK v \in [DOMAIN Weights -> Int] :
        t = Points(v) /\ \A d \in DOMAIN Weights : \E x \in shown[a] : v[d] = Dim(d, x)
  BY DEF Earned
<1>2. \A d \in DOMAIN Weights : \E x \in shown'[a] : v[d] = Dim(d, x)'
  BY <1>1, DimStays
<1> QED
  BY <1>1, <1>2 DEF Earned

LEMMA EarnedInvStays ==
  ASSUME CallInv, UNCHANGED <<deploy, req, gathered>>,
         torn \subseteq torn', lost \subseteq lost',
         \A a \in Agents : shown[a] \subseteq shown'[a]
  PROVE  EarnedInv'
<1> SUFFICES ASSUME NEW g \in gathered, Untroubled(g[1])' PROVE Earned(g[1], g[2])'
  BY DEF EarnedInv
<1>1. g[1] \in Agents
  BY DEF CallInv, TypeOK, RankType
<1>2. Untroubled(g[1])
  BY DEF Untroubled
<1>3. Earned(g[1], g[2])
  BY <1>2 DEF CallInv, ShownInv, EarnedInv
<1> QED
  BY <1>1, <1>3, EarnedStays

LEMMA FillsStep ==
  ASSUME CallInv, NEW new, Fills(new) PROVE CallInv'
<1>1. /\ at' \in DOMAIN Steps /\ half' = None /\ todo' = todo
      /\ UNCHANGED torn /\ UNCHANGED rankVars
      /\ DOMAIN dims' = Filled(at') /\ \A d \in DOMAIN dims' : dims'[d] \in Int
      /\ DOMAIN dims' = DOMAIN dims \cup DOMAIN new
      /\ DOMAIN dims \cap DOMAIN new = {}
      /\ \A d \in DOMAIN dims' : dims'[d] = IF d \in DOMAIN new THEN new[d] ELSE dims[d]
  BY PutDoes DEF Fills, CallInv
<1>2. /\ UNCHANGED <<deploy, req, agentIDs, data, shown, regular>> /\ todo # <<>>
      /\ This \in Agents /\ This = todo[1] /\ This' = This
      /\ DOMAIN new \subseteq DOMAIN Weights
  BY <1>1, ThisType DEF Fills, Unchanging, CallInv, This
<1>3. \/ /\ lost' = lost
         /\ This \notin torn => \A d \in DOMAIN new : new[d] = Dim(d, Seen)
      \/ \E e \in DOMAIN new : /\ lost' = lost \cup {<<This, e>>}
                               /\ e \in Neutral => new[e] = Fallback[e]
  BY DEF Fills
<1>4. TypeOK'
  <2>1. RankType'
    BY <1>1 DEF CallInv, TypeOK, RankType, rankVars
  <2>2. lost' \subseteq Agents \X (DOMAIN Weights \cup {"card"})
    BY <1>2, <1>3 DEF CallInv, TypeOK
  <2>3. DOMAIN dims' \subseteq DOMAIN Weights
    BY <1>1 DEF Filled
  <2>4. (/\ DOMAIN data = Agents
         /\ \A a \in Agents : Datum(data[a]) /\ data[a] \in shown[a])'
    BY <1>2 DEF CallInv, TypeOK, Datum
  <2> QED
    BY <1>1, <1>2, <2>1, <2>2, <2>3, <2>4 DEF CallInv, TypeOK, Fills
<1>5. Collecting'
  BY <1>1 DEF CallInv, Collecting
<1>6. LostInv'
  <2>1. ASSUME NEW k \in DOMAIN todo, k # 1, NEW d PROVE <<todo[k], d>> \notin lost'
    <3>1. todo[k] # This
      BY <1>2, <2>1, ThisType DEF CallInv, Collecting, IsInjective
    <3>2. <<todo[k], d>> \notin lost
      BY <2>1 DEF CallInv, LostInv
    <3> QED
      BY <1>3, <3>1, <3>2
  <2>2. ASSUME NEW d, <<This, d>> \in lost'
        PROVE  d \in DOMAIN dims' /\ (d \in Neutral => dims'[d] = Fallback[d])
    <3>1. CASE <<This, d>> \in lost
      <4>1. d \in DOMAIN dims /\ (d \in Neutral => dims[d] = Fallback[d])
        BY <1>2, <3>1 DEF CallInv, LostInv
      <4> QED
        BY <1>1, <4>1
    <3>2. CASE <<This, d>> \notin lost
      <4>1. d \in DOMAIN new /\ (d \in Neutral => new[d] = Fallback[d])
        BY <1>3, <2>2, <3>2
      <4> QED
        BY <1>1, <4>1
    <3> QED
      BY <3>1, <3>2
  <2> QED
    BY <1>1, <1>2, <2>1, <2>2 DEF LostInv
<1>7. RangeInv'
  <2>1. (\A a \in regular : Proper(data[a]))'
    BY <1>2, ProperStays DEF CallInv, RangeInv
  <2>2. HalfInv'
    BY <1>1 DEF HalfInv
  <2>3. This \in regular => \A d \in DOMAIN dims' : dims'[d] \in 0..One
    <3>1. This \in regular => \A d \in DOMAIN dims : dims[d] \in 0..One
      BY <1>2 DEF CallInv, RangeInv
    <3> QED
      BY <1>1, <3>1 DEF Fills
  <2>4. (\A g \in gathered : g[1] \in regular => g[2] \in 0..(1000 * One))'
    BY <1>1, <1>2 DEF CallInv, RangeInv, rankVars
  <2> QED
    BY <1>1, <1>2, <2>1, <2>2, <2>3, <2>4 DEF RangeInv
<1>8. ShownInv'
  <2>1. ASSUME Untroubled(This)', NEW d \in DOMAIN dims'
        PROVE  \E x \in shown[This] : dims'[d] = Dim(d, x)
    <3>1. This \notin torn /\ \A e : <<This, e>> \notin lost'
      BY <1>1, <1>2, <2>1 DEF Untroubled
    <3>2. lost' = lost /\ \A e \in DOMAIN new : new[e] = Dim(e, Seen)
      BY <1>3, <3>1
    <3>3. Untroubled(This)
      BY <1>1, <1>2, <2>1, <3>2 DEF Untroubled
    <3>4. CASE d \in DOMAIN new
      BY <1>1, <1>2, <3>2, <3>4 DEF CallInv, TypeOK, Seen
    <3>5. CASE d \notin DOMAIN new
      BY <1>1, <1>2, <3>3, <3>5 DEF CallInv, ShownInv
    <3> QED
      BY <3>4, <3>5
  <2>2. Untroubled(This)'
          => \A d \in DOMAIN dims' : \E x \in shown[This] : dims'[d] = Dim(d, x)'
    BY <1>2, <2>1, DimStays
  <2>3. (todo # <<>> /\ Untroubled(This)
           => \A d \in DOMAIN dims : \E x \in shown[This] : dims[d] = Dim(d, x))'
    BY <1>2, <2>2
  <2>4. (\A a \in Agents : \A x \in shown[a] : Datum(x))'
    BY <1>2 DEF CallInv, ShownInv, Datum
  <2>5. EarnedInv'
    BY <1>1, <1>2, <1>3, EarnedInvStays DEF rankVars
  <2> QED
    BY <2>3, <2>4, <2>5 DEF ShownInv
<1> QED
  BY <1>4, <1>5, <1>6, <1>7, <1>8 DEF CallInv

\* The next agent is in turn: nothing has been told of it, or lost.
LEMMA NextAgentStep ==
  ASSUME CallInv, todo # <<>>, NextAgent, Unchanging, UNCHANGED torn,
         lost' \in {lost, lost \cup {<<This, "card">>}},
         events' \in 0..MaxEvents, RankType', EarnedInv',
         (\A g \in gathered : g[1] \in regular => g[2] \in 0..(1000 * One))'
  PROVE  CallInv'
<1>1. /\ at' \in DOMAIN Steps /\ half' = None /\ DOMAIN dims' = {}
      /\ todo' \in Seq(Agents) /\ IsInjective(todo') /\ DOMAIN dims' = Filled(at')
      /\ Len(todo') = Len(todo) - 1
      /\ \A k \in 1..Len(todo') : k + 1 \in 1..Len(todo) /\ todo'[k] = todo[k + 1]
  BY NextAgentDoes DEF CallInv
<1>2. /\ UNCHANGED <<deploy, req, agentIDs, data, shown, regular, torn>>
      /\ todo \in Seq(Agents) /\ DOMAIN todo = 1..Len(todo) /\ DOMAIN todo' = 1..Len(todo')
  BY <1>1 DEF Unchanging, CallInv, TypeOK
<1>3. TypeOK'
  <2>1. (/\ DOMAIN data = Agents
         /\ \A a \in Agents : Datum(data[a]) /\ data[a] \in shown[a])'
    BY <1>2 DEF CallInv, TypeOK, Datum
  <2>2. lost' \subseteq Agents \X (DOMAIN Weights \cup {"card"})
    BY ThisType DEF CallInv, TypeOK
  <2> QED
    BY <1>1, <1>2, <2>1, <2>2 DEF CallInv, TypeOK
<1>4. Collecting'
  BY <1>1 DEF Collecting
<1>5. \A k \in DOMAIN todo' : \A d : <<todo'[k], d>> \notin lost'
  <2> SUFFICES ASSUME NEW k \in DOMAIN todo', NEW d PROVE <<todo'[k], d>> \notin lost'
    OBVIOUS
  <2>1. k + 1 \in DOMAIN todo /\ k + 1 # 1 /\ todo'[k] = todo[k + 1]
    BY <1>1, <1>2
  <2>2. todo'[k] # This
    <3>1. 1 \in DOMAIN todo /\ This = todo[1]
      BY <1>2, <2>1, ThisType DEF CallInv
    <3> QED
      BY <2>1, <3>1 DEF CallInv, Collecting, IsInjective
  <2>3. <<todo'[k], d>> \notin lost
    BY <2>1 DEF CallInv, LostInv
  <2> QED
    BY <2>2, <2>3
<1>6. LostInv'
  <2>1. todo' # <<>> => This' = todo'[1] /\ 1 \in DOMAIN todo'
    BY <1>1 DEF This
  <2> QED
    BY <1>2, <1>5, <2>1 DEF LostInv
<1>7. RangeInv'
  <2>1. (\A a \in regular : Proper(data[a]))'
    BY <1>2, ProperStays DEF CallInv, RangeInv
  <2> QED
    BY <1>1, <2>1 DEF RangeInv, HalfInv
<1>8. ShownInv'
  <2>1. (\A a \in Agents : \A x \in shown[a] : Datum(x))'
    BY <1>2 DEF CallInv, ShownInv, Datum
  <2> QED
    BY <1>1, <2>1 DEF ShownInv
<1> QED
  BY <1>3, <1>4, <1>6, <1>7, <1>8 DEF CallInv

LEMMA SkipsStep == ASSUME CallInv, Skips PROVE CallInv'
<1>1. RankType'
  BY DEF Skips, CallInv, TypeOK, RankType, rankVars
<1>2. (\A g \in gathered : g[1] \in regular => g[2] \in 0..(1000 * One))'
  BY DEF Skips, Unchanging, CallInv, RangeInv, rankVars
<1>3. UNCHANGED <<deploy, req, gathered, torn, shown>> /\ lost \subseteq lost'
  BY DEF Skips, Unchanging, rankVars
<1>4. EarnedInv'
  BY <1>3, EarnedInvStays
<1> QED
  BY <1>1, <1>2, <1>4, NextAgentStep DEF Skips

\* The first GET of a rate.
LEMMA KeptStep ==
  ASSUME CallInv, NEW d \in Rates, Reading(d), deploy.source = "redis", Unchanging,
         half = None, Outcomes(d, Seen) # None, Kept(Outcomes(d, Seen))
  PROVE  CallInv'
<1>1. /\ half' = Outcomes(d, Seen) /\ UNCHANGED <<deploy, req, agentIDs, data, shown, regular>>
      /\ UNCHANGED <<todo, at, dims, events, lost, torn, rankVars>>
      /\ todo # <<>> /\ Steps[at] = d /\ This' = This /\ Seen' = Seen
  BY DEF Kept, Unchanging, Reading, This, Seen
<1>2. Datum(Seen) /\ (This \in regular => Proper(Seen))
  BY <1>1, ThisType DEF CallInv, RangeInv, Seen
<1>3. half' \in Nat
  BY <1>1, <1>2, OutcomesType DEF Optional
<1>4. TypeOK'
  <2>1. RankType'
    BY <1>1 DEF CallInv, TypeOK, RankType, rankVars
  <2>2. (/\ DOMAIN data = Agents
         /\ \A a \in Agents : Datum(data[a]) /\ data[a] \in shown[a])'
    BY <1>1 DEF CallInv, TypeOK, Datum
  <2> QED
    BY <1>1, <1>3, <2>1, <2>2 DEF CallInv, TypeOK
<1>5. Collecting'
  <2>1. Turn[d] = at /\ Turn[d] \in {5, 10}
    BY ReadingAt DEF Rates, Dimension, Turn, CallInv, TypeOK
  <2> QED
    BY <1>1, <2>1 DEF CallInv, Collecting
<1>6. LostInv'
  BY <1>1 DEF CallInv, LostInv
<1>7. RangeInv'
  <2>1. (\A a \in regular : Proper(data[a]))'
    BY <1>1, ProperStays DEF CallInv, RangeInv
  <2>2. HalfInv'
    <3>1. This \in regular /\ Seen.tasks # None => half' <= Seen.tasks
      BY <1>1, <1>2 DEF Proper, Tasks, Outcomes
    <3>2. Outcomes(Steps[at], Seen)' = half'
      BY <1>1 DEF Outcomes
    <3> QED
      BY <1>1, <3>1, <3>2 DEF HalfInv
  <2> QED
    BY <1>1, <2>1, <2>2 DEF CallInv, RangeInv, rankVars
<1>8. ShownInv'
  <2>1. (\A a \in Agents : \A x \in shown[a] : Datum(x))'
    BY <1>1 DEF CallInv, ShownInv, Datum
  <2>2. EarnedInv'
    BY <1>1, EarnedInvStays DEF rankVars
  <2>3. (todo # <<>> /\ Untroubled(This))' => todo # <<>> /\ Untroubled(This)
    BY <1>1 DEF Untroubled
  <2>4. (\A e \in DOMAIN dims : \E x \in shown[This] : dims[e] = Dim(e, x))
          => (\A e \in DOMAIN dims : \E x \in shown[This] : dims[e] = Dim(e, x))'
    BY <1>1, DimStays
  <2> QED
    BY <2>1, <2>2, <2>3, <2>4 DEF CallInv, ShownInv
<1> QED
  BY <1>4, <1>5, <1>6, <1>7, <1>8 DEF CallInv

\* A change of data between two reads.
LEMMA ChangeStep ==
  ASSUME CallInv, NEW a \in Agents, NEW y, Datum(y), Change(a, y), Keeps(a, y)
  PROVE  CallInv' /\ UNCHANGED rankVars
<1>1. /\ phase = "collect" /\ events' \in 0..MaxEvents
      /\ data' = [data EXCEPT ![a] = y] /\ shown' = [shown EXCEPT ![a] = @ \cup {y}]
      /\ torn' \in {torn, torn \cup {a}} /\ torn \subseteq torn'
      /\ half # None /\ This = a => a \in torn'
      /\ regular' = IF Regular(data[a], y) THEN regular ELSE regular \ {a}
      /\ UNCHANGED <<deploy, req, agentIDs, todo, at, half, dims, lost, rankVars>>
      /\ UNCHANGED rankVars
  BY SpendType DEF Change, CallInv, callVars, This
<1>2. /\ DOMAIN data = Agents /\ DOMAIN data' = Agents /\ data'[a] = y
      /\ \A b \in Agents : b # a => data'[b] = data[b]
      /\ regular' \subseteq regular /\ regular \subseteq Agents
      /\ (a \in regular' => Regular(data[a], y))
  BY <1>1 DEF CallInv, TypeOK
<1>3. TypeOK'
  <2>1. RankType'
    BY <1>1 DEF CallInv, TypeOK, RankType, rankVars
  <2>2. \A b \in Agents : Datum(data'[b])
    BY <1>2 DEF CallInv, TypeOK
  <2>3. \A b \in Agents : data'[b] \in shown'[b]
    <3> SUFFICES ASSUME NEW b \in Agents PROVE data'[b] \in shown'[b]
      OBVIOUS
    <3>1. data[b] \in shown[b] /\ data[a] \in shown[a]
      BY DEF CallInv, TypeOK
    <3>2. a \in DOMAIN shown
      BY DEF CallInv, TypeOK
    <3> QED
      BY <1>1, <1>2, <3>1, <3>2
  <2>4. (\A b \in Agents : Datum(data[b]))'
    BY <1>2, <2>2 DEF Datum
  <2> QED
    BY <1>1, <1>2, <2>1, <2>3, <2>4 DEF CallInv, TypeOK
<1>4. Collecting' /\ LostInv'
  BY <1>1 DEF CallInv, Collecting, LostInv, This
<1>5. RangeInv'
  <2>1. (\A b \in regular : Proper(data[b]))'
    <3>1. \A b \in regular' : Proper(data'[b])
      BY <1>2 DEF Regular, CallInv, RangeInv
    <3> QED
      BY <1>1, <3>1 DEF Proper, Tasks
  <2>2. HalfInv'
    <3>5. half # None /\ This \notin torn' => half = Outcomes(Steps[at], data'[This])
      <4> SUFFICES ASSUME half # None, This \notin torn'
                   PROVE  half = Outcomes(Steps[at], data'[This])
        OBVIOUS
      <4>1. todo # <<>>
        BY DEF CallInv, Collecting
      <4>2. This \in Agents /\ This # a /\ data'[This] = Seen
        BY <1>1, <1>2, <4>1, ThisType DEF CallInv, Seen
      <4>3. half = Outcomes(Steps[at], Seen)
        BY <1>1 DEF CallInv, RangeInv, HalfInv
      <4> QED
        BY <4>2, <4>3
    <3> SUFFICES ASSUME half # None, This \in regular'
                 PROVE  IF data'[This].tasks = None
                        THEN half = Outcomes(Steps[at], data'[This])
                        ELSE half <= data'[This].tasks
      BY <1>1, <3>5 DEF HalfInv, This, Seen, Outcomes
    <3>1. This \in regular /\ todo # <<>> /\ at \in {5, 10} /\ deploy.source = "redis"
      BY <1>2 DEF CallInv, Collecting
    <3>2. IF Seen.tasks = None THEN half = Outcomes(Steps[at], Seen) ELSE half <= Seen.tasks
      BY <3>1 DEF CallInv, RangeInv, HalfInv
    <3>3. CASE This # a
      BY <1>2, <3>1, <3>2, <3>3, ThisType DEF CallInv, Seen
    <3>4. CASE This = a
      <4>1. Seen = data[a] /\ Regular(Seen, y) /\ data'[This] = y /\ Datum(Seen)
        BY <1>2, <3>4 DEF Seen, CallInv, TypeOK
      <4>2. /\ Seen.tasks \in Optional(Nat) /\ y.tasks \in Optional(Nat)
            /\ half \in Nat
        BY <4>1, DatumFields DEF CallInv, TypeOK
      <4>3. Proper(y) /\ (Seen.tasks # None => y.tasks # None /\ Seen.tasks <= y.tasks)
        BY <4>1 DEF Regular
      <4>4. CASE Seen.tasks = None
        <5>1. half = Outcomes(Steps[at], y)
          BY <3>1, <3>2, <4>1, <4>4 DEF Keeps, Outcomes
        <5>2. y.tasks # None => half <= y.tasks
          BY <3>1, <4>3, <5>1 DEF Proper, Tasks, Outcomes
        <5> QED
          BY <4>1, <5>1, <5>2
      <4>5. CASE Seen.tasks # None
        BY <3>2, <4>1, <4>2, <4>3, <4>5 DEF Optional
      <4> QED
        BY <4>4, <4>5
    <3> QED
      BY <3>3, <3>4
  <2> QED
    BY <1>1, <1>2, <2>1, <2>2 DEF CallInv, RangeInv, This, rankVars
<1>6. \A b \in Agents : shown[b] \subseteq shown'[b]
      /\ \A x \in shown'[b] : x \in shown[b] \/ x = y
  BY <1>1 DEF CallInv, TypeOK
<1>7. ShownInv'
  <2>1. \A b \in Agents : \A x \in shown'[b] : Datum(x)
    BY <1>6 DEF CallInv, ShownInv
  <2>2. (\A b \in Agents : \A x \in shown[b] : Datum(x))'
    BY <2>1 DEF Datum
  <2>3. EarnedInv'
    BY <1>1, <1>6, EarnedInvStays DEF rankVars
  <2>4. ASSUME todo # <<>>, Untroubled(This)', NEW d \in DOMAIN dims
        PROVE  \E x \in shown'[This] : dims[d] = Dim(d, x)'
    <3>1. Untroubled(This) /\ This \in Agents
      BY <1>1, <2>4, ThisType DEF Untroubled, This, CallInv
    <3>2. PICK x \in shown[This] : dims[d] = Dim(d, x)
      BY <2>4, <3>1 DEF CallInv, ShownInv
    <3> QED
      BY <1>1, <1>6, <3>1, <3>2, DimStays
  <2>5. This' = This /\ todo' = todo /\ dims' = dims
    BY <1>1 DEF This
  <2> QED
    BY <2>2, <2>3, <2>4, <2>5 DEF ShownInv
<1> QED
  BY <1>1, <1>3, <1>4, <1>5, <1>7 DEF CallInv

\* A step of the ranking that reads and collects nothing.
LEMMA RankingStep ==
  ASSUME CallInv, RankType', gathered' = gathered,
         Unchanging, UNCHANGED <<callVars, events, lost, torn>>
  PROVE  CallInv'
<1>1. UNCHANGED <<deploy, req, agentIDs, data, shown, regular, todo, at, half, dims,
                  events, lost, torn>>
  BY DEF Unchanging, callVars
<1>2. TypeOK'
  BY <1>1 DEF CallInv, TypeOK, Datum
<1>3. Collecting' /\ LostInv'
  BY <1>1 DEF CallInv, Collecting, LostInv, This
<1>4. (\A a \in regular : Proper(data[a]))'
  BY <1>1, ProperStays DEF CallInv, RangeInv
<1>5. RangeInv'
  BY <1>1, <1>4 DEF CallInv, RangeInv, HalfInv, This, Seen, Outcomes
<1>6. ShownInv'
  <2>1. (\A b \in Agents : \A x \in shown[b] : Datum(x))'
    BY <1>1 DEF CallInv, ShownInv, Datum
  <2>2. EarnedInv'
    BY <1>1, EarnedInvStays
  <2>3. (todo # <<>> /\ Untroubled(This))' => todo # <<>> /\ Untroubled(This)
    BY <1>1 DEF Untroubled, This
  <2>4. (\A e \in DOMAIN dims : \E x \in shown[This] : dims[e] = Dim(e, x))
          => (\A e \in DOMAIN dims : \E x \in shown[This] : dims[e] = Dim(e, x))'
    BY <1>1, DimStays DEF This
  <2> QED
    BY <2>1, <2>2, <2>3, <2>4 DEF CallInv, ShownInv
<1> QED
  BY <1>2, <1>3, <1>5, <1>6 DEF CallInv

\* The weights add up to 1.0 (scoring.go).
LEMMA PointsRange ==
  ASSUME NEW n \in Nat, NEW v, \A d \in DOMAIN Weights : v[d] \in 0..n
  PROVE  Points(v) \in 0..(1000 * n)
<1>1. /\ v["skill"] \in 0..n /\ v["trust"] \in 0..n /\ v["health"] \in 0..n
      /\ v["latency"] \in 0..n /\ v["load"] \in 0..n
  BY DEF Weights
<1>2. /\ v["success"] \in 0..n /\ v["network"] \in 0..n /\ v["bandwidth"] \in 0..n
      /\ v["auth"] \in 0..n /\ v["protocol"] \in 0..n
  BY DEF Weights
<1>3. /\ v["history"] \in 0..n /\ v["errors"] \in 0..n /\ v["availability"] \in 0..n
      /\ v["version"] \in 0..n /\ v["geo"] \in 0..n
  BY DEF Weights
<1> DEFINE p == v["skill"] * 250 + v["trust"] * 200 + v["health"] * 150
                  + v["latency"] * 100 + v["load"] * 80
           q == p + v["success"] * 70 + v["network"] * 50 + v["bandwidth"] * 30
                  + v["auth"] * 20 + v["protocol"] * 20
<1>4. p \in 0..(780 * n)
  BY <1>1
<1>5. q \in 0..(970 * n)
  <2> HIDE DEF p
  <2> QED
    BY <1>2, <1>4 DEF q
<1>6. q + v["history"] * 10 + v["errors"] * 10 + v["availability"] * 5
        + v["version"] * 5 + v["geo"] * 0 \in 0..(1000 * n)
  <2> HIDE DEF q
  <2> QED
    BY <1>3, <1>5
<1> QED
  BY <1>6 DEF Points

LEMMA TotalRange ==
  ASSUME CallInv, at = 14, todo # <<>>
  PROVE  /\ Total \in Int /\ (This \in regular => Total \in 0..(1000 * One))
         /\ Untroubled(This) => Earned(This, Total)
<1>1. DOMAIN dims = DOMAIN Weights
  <2>1. \A d \in DOMAIN Weights : Turn[d] < 14
    BY WeightsAre
  <2> QED
    BY <2>1 DEF CallInv, Collecting, Filled
<1>2. \A d \in DOMAIN Weights : dims[d] \in Int
  BY <1>1 DEF CallInv, Collecting
<1>3. Total = Points(dims)
  BY DEF Total, Weights, Points
<1>4. DOMAIN Weights = {"skill", "trust", "health", "latency", "load", "success",
                        "network", "bandwidth", "auth", "protocol", "history", "errors",
                        "availability", "version", "geo"}
  BY DEF Weights
<1>5. Total \in Int
  BY <1>2, <1>3, <1>4 DEF Points
<1>6. ASSUME This \in regular PROVE Total \in 0..(1000 * One)
  <2>1. \A d \in DOMAIN Weights : dims[d] \in 0..One
    BY <1>1, <1>6 DEF CallInv, RangeInv
  <2>2. One \in Nat
    BY OneInt
  <2> QED
    BY <1>3, <2>1, <2>2, PointsRange
<1>7. ASSUME Untroubled(This) PROVE Earned(This, Total)
  <2> DEFINE v == [d \in DOMAIN Weights |-> dims[d]]
  <2>1. v \in [DOMAIN Weights -> Int] /\ \A d \in DOMAIN Weights : v[d] = dims[d]
    BY <1>2
  <2>2. Points(v) = Points(dims)
    BY <1>4 DEF Points
  <2>3. \A d \in DOMAIN Weights : \E x \in shown[This] : dims[d] = Dim(d, x)
    BY <1>1, <1>7 DEF CallInv, ShownInv
  <2> HIDE DEF v
  <2> QED
    BY <1>3, <2>1, <2>2, <2>3 DEF Earned
<1> QED
  BY <1>5, <1>6, <1>7

LEMMA AddScoreStep ==
  ASSUME CallInv, AddScore, RankType'
  PROVE  CallInv' /\ Collect(This, Total) /\ Total \in Int
<1>1. /\ Collect(This, Total) /\ NextAgent /\ Unchanging /\ UNCHANGED <<lost, torn>>
      /\ todo # <<>> /\ at = 14 /\ events' \in 0..MaxEvents
  BY ReadingAt, SpendType DEF AddScore, Reading, CallInv, TypeOK
<1>2. /\ Total \in Int /\ (This \in regular => Total \in 0..(1000 * One))
      /\ Untroubled(This) => Earned(This, Total)
  BY <1>1, TotalRange
<1>3. gathered' = gathered \cup {<<This, Total>>} /\ regular' = regular
  BY <1>1 DEF Collect, Unchanging
<1>4. (\A g \in gathered : g[1] \in regular => g[2] \in 0..(1000 * One))'
  BY <1>2, <1>3 DEF CallInv, RangeInv
<1>5. EarnedInv'
  <2>1. UNCHANGED <<deploy, req, shown, torn, lost>>
    BY <1>1 DEF Unchanging
  <2>2. ASSUME NEW g \in gathered', Untroubled(g[1])' PROVE Earned(g[1], g[2])'
    <3>1. Untroubled(g[1])
      BY <2>1, <2>2 DEF Untroubled
    <3>2. Earned(g[1], g[2])
      BY <1>2, <1>3, <3>1 DEF CallInv, ShownInv, EarnedInv
    <3> QED
      BY <2>1, <3>2, EarnedStays
  <2> QED
    BY <2>2 DEF EarnedInv
<1> QED
  BY <1>1, <1>2, <1>4, <1>5, NextAgentStep

-----------------------------------------------------------------------------

LEMMA CallInit == Init => CallInv
<1> SUFFICES ASSUME Init PROVE CallInv
  OBVIOUS
<1>1. <<deploy, req>> \in Calls
  <2>1. PICK c \in Calls : deploy = c[1] /\ req = c[2]
    BY DEF Init
  <2>2. c \in Deploys \X Requests
    BY ScoringAssumption
  <2> QED
    BY <2>1, <2>2
<1>2. /\ agentIDs \in Seq(Agents) /\ todo \in Seq(Agents) /\ IsInjective(todo)
      /\ events \in 0..MaxEvents
  BY ScoringAssumption DEF Init
<1>3. DOMAIN data = Agents /\ \A a \in Agents : Datum(data[a])
  BY ScoringAssumption DEF Init
<1>4. DOMAIN dims = {} /\ Filled(at) = {} /\ at \in DOMAIN Steps
  BY WeightsAre, StepsAre DEF Init, Filled
<1>5. RankType
  BY TypeInit DEF Init
<1>6. TypeOK
  BY <1>1, <1>2, <1>3, <1>4, <1>5 DEF TypeOK, Init
<1>7. Collecting
  BY <1>2, <1>4 DEF Collecting, Init
<1>8. LostInv
  BY DEF LostInv, Init
<1>9. RangeInv
  BY <1>4 DEF RangeInv, HalfInv, Init, RankInit
<1>10. ShownInv
  BY <1>3, <1>4 DEF ShownInv, EarnedInv, Init, RankInit
<1> QED
  BY <1>6, <1>7, <1>8, <1>9, <1>10 DEF CallInv

LEMMA CallStep ==
  CallInv /\ [Next]_vars => CallInv' /\ [RankNext]_rankVars
<1> SUFFICES ASSUME CallInv, [Next]_vars PROVE CallInv' /\ [RankNext]_rankVars
  OBVIOUS
<1>0. RankType
  BY DEF CallInv, TypeOK
<1>1. CASE Environment
  BY <1>1, EnvironmentDoes, ChangeStep DEF CallInv
<1>2. CASE Call
  <2>1. Begin /\ [RankNext]_rankVars /\ gathered' = gathered
    BY <1>2 DEF Call, RankNext, Begin, Enter
  <2>2. RankType'
    BY <1>0, <2>1, TypeStep
  <2> QED
    BY <1>2, <2>1, <2>2, RankingStep DEF Call
<1>3. CASE Die
  <2>1. Panic /\ [RankNext]_rankVars /\ gathered' = gathered
    BY <1>3 DEF Die, RankNext, Panic, Enter
  <2>2. RankType'
    BY <1>0, <2>1, TypeStep
  <2> QED
    BY <1>3, <2>1, <2>2, RankingStep DEF Die
<1>4. ASSUME NEW new, Fills(new) PROVE CallInv' /\ [RankNext]_rankVars
  <2>1. UNCHANGED rankVars
    BY <1>4 DEF Fills, Put
  <2> QED
    BY <1>4, <2>1, FillsStep
<1>5. CASE GetAgent
  <2>1. CASE Skips
    BY <2>1, SkipsStep DEF Skips
  <2> QED
    BY <1>4, <1>5, <2>1, GetAgentDoes
<1>6. CASE GetLoad
  BY <1>4, <1>6, GetLoadDoes
<1>7. ASSUME NEW d \in DOMAIN Fallback, Read(d) PROVE CallInv' /\ [RankNext]_rankVars
  BY <1>4, <1>7, ReadDoes, FallbackRange
<1>8. ASSUME NEW d \in Rates, TwoGets(d) PROVE CallInv' /\ [RankNext]_rankVars
  <2>1. CASE \E new : Fills(new)
    BY <1>4, <2>1
  <2>2. CASE half = None /\ Outcomes(d, Seen) # None /\ Kept(Outcomes(d, Seen))
             /\ Reading(d) /\ deploy.source = "redis" /\ Unchanging
    BY <2>2, KeptStep DEF Kept
  <2> QED
    BY <1>8, <2>1, <2>2, TwoGetsDoes
<1>9. CASE AddScore
  <2>1. Reading("add") /\ Collect(This, Total)
    BY <1>9 DEF AddScore
  <2>2. at = 14 /\ todo # <<>>
    BY <2>1, ReadingAt DEF Reading, CallInv, TypeOK
  <2>3. Total \in Int /\ This \in Agents
    BY <2>2, TotalRange, ThisType DEF CallInv
  <2>4. Total \in {scores'[k].total : k \in DOMAIN scores'}
    <3> DEFINE n == Len(scores) + 1
    <3>1. scores \in Seq(AgentScore)
          /\ scores' = Append(scores, [agent |-> This, total |-> Total, rank |-> 0])
      BY <1>0, <2>1 DEF Collect, RankType
    <3>2. n \in DOMAIN scores' /\ scores'[n].total = Total
      BY <3>1
    <3> QED
      BY <3>2
  <2>5. [RankNext]_rankVars
    BY <2>1, <2>3, <2>4 DEF RankNext
  <2>6. RankType'
    BY <1>0, <2>5, TypeStep
  <2> QED
    BY <1>9, <2>5, <2>6, AddScoreStep
<1>10. CASE Sort
  <2>1. StartSort \/ Compare \/ NextRow \/ SetRanks
    BY <1>10 DEF Sort
  <2>2. [RankNext]_rankVars
    BY <2>1 DEF RankNext
  <2>3. gathered' = gathered
    BY <2>1 DEF StartSort, Compare, NextRow, SetRanks, Enter
  <2>4. RankType'
    BY <1>0, <2>2, TypeStep
  <2> QED
    BY <1>10, <2>2, <2>3, <2>4, RankingStep DEF Sort
<1>11. CASE UNCHANGED vars
  <2>1. UNCHANGED <<deploy, req, agentIDs, todo, at, half, dims, data, events, shown,
                    lost, torn, regular, phase, scores, i, j, gathered>>
    BY <1>11 DEF vars, callVars, history, rankVars
  <2>2. RankType' /\ gathered' = gathered /\ UNCHANGED rankVars
    BY <1>0, <2>1 DEF RankType, rankVars
  <2>3. Unchanging /\ UNCHANGED <<callVars, events, lost, torn>>
    BY <2>1 DEF Unchanging, callVars
  <2> QED
    BY <2>2, <2>3, RankingStep
<1> QED
  BY <1>1, <1>2, <1>3, <1>5, <1>6, <1>7, <1>8, <1>9, <1>10, <1>11 DEF Next

\* What the call reads, whatever is written and lost meanwhile, is data and gives
\* whole numbers; the two GETs of a rate belong to one turn (scoring.go).
THEOREM ScoringTyped == Spec => []TypeOK
<1>1. CallInv => TypeOK
  BY DEF CallInv
<1> QED
  BY <1>1, CallInit, CallStep, PTL DEF Spec

\* Whatever happens between the reads of ScoreAgents, what it does to its slice
\* is what the machine of module Ranking does.
LEMMA ScoringRanks == Spec => RankSpec
<1>1. Init => RankInit
  BY DEF Init
<1> QED
  BY <1>1, CallInit, CallStep, PTL DEF Spec, RankSpec

\* The answer of the whole call is in order.
THEOREM ScoringDescends == Spec => []RankedDescending
  BY ScoringRanks, RankedDescendingCorrect, PTL

-----------------------------------------------------------------------------
(* Nobody gets lost.                                                         *)

Totalled(a) == \E g \in gathered : g[1] = a

\* Every agent asked for has its turn before it, its total, or had no card; the
\* one whose turn it is has been seen with its card after the first read.
AskedInv ==
  /\ \A a \in Range(agentIDs) : a \in Range(todo) \/ Totalled(a) \/ MissedCard(a)
  /\ Range(todo) \subseteq Range(agentIDs)
  /\ todo # <<>> /\ at # 1 => HadCard(This)
  /\ \A g \in gathered : g[1] \in Range(agentIDs) /\ HadCard(g[1])
  /\ phase \in {"sort", "done"} => todo = <<>>

\* What was seen and lost only grows.
Grows ==
  /\ UNCHANGED agentIDs /\ lost \subseteq lost'
  /\ \A a \in Agents : shown[a] \subseteq shown'[a]

LEMMA CardsStay ==
  ASSUME CallInv, Grows
  PROVE  \A a \in Range(agentIDs) : /\ a \in Agents
                                    /\ HadCard(a) => HadCard(a)'
                                    /\ MissedCard(a) => MissedCard(a)'
<1>1. \A a \in Range(agentIDs) : a \in Agents
  BY DEF CallInv, TypeOK, Range
<1> QED
  BY <1>1 DEF Grows, HadCard, MissedCard

\* A step within one agent's turn.
LEMMA AskedStays ==
  ASSUME CallInv, AskedInv, Grows, UNCHANGED <<todo, gathered>>,
         todo # <<>> /\ at' # 1 => HadCard(This) \/ HadCard(This)',
         phase' \in {"sort", "done"} => todo = <<>>
  PROVE  AskedInv'
<1>1. \A a \in Range(agentIDs) : /\ HadCard(a) => HadCard(a)'
                                 /\ MissedCard(a) => MissedCard(a)'
  BY CardsStay
<1>2. Range(agentIDs)' = Range(agentIDs) /\ Range(todo)' = Range(todo) /\ This' = This
  BY DEF Grows, Range, This
<1>3. todo # <<>> => This \in Range(agentIDs)
  <2>1. todo # <<>> => This \in Range(todo)
    BY ThisType DEF CallInv, Range
  <2> QED
    BY <2>1 DEF AskedInv
<1>4. (\A a \in Range(agentIDs) : a \in Range(todo) \/ Totalled(a) \/ MissedCard(a))'
  BY <1>1, <1>2 DEF AskedInv, Totalled
<1>5. (todo # <<>> /\ at # 1 => HadCard(This))'
  BY <1>1, <1>2, <1>3 DEF HadCard
<1>6. (\A g \in gathered : g[1] \in Range(agentIDs) /\ HadCard(g[1]))'
  BY <1>1, <1>2 DEF AskedInv
<1> QED
  BY <1>2, <1>4, <1>5, <1>6 DEF AskedInv

\* The turn passes on, from an agent that has its total or had no card.
LEMMA AskedPasses ==
  ASSUME CallInv, AskedInv, Grows, todo # <<>>, NextAgent, phase' = "collect",
         \/ \E g \in gathered' : g[1] = This
         \/ <<This, "card">> \in lost' \/ \E x \in shown'[This] : x.card = None,
         gathered \subseteq gathered',
         \A g \in gathered' : g \in gathered \/ (g[1] = This /\ HadCard(This))
  PROVE  AskedInv'
<1>1. \A a \in Range(agentIDs) : /\ HadCard(a) => HadCard(a)'
                                 /\ MissedCard(a) => MissedCard(a)'
  BY CardsStay
<1>2. /\ at' = 1 /\ Len(todo') = Len(todo) - 1 /\ Len(todo) \in Nat \ {0}
      /\ DOMAIN todo = 1..Len(todo) /\ DOMAIN todo' = 1..Len(todo') /\ This = todo[1]
      /\ \A k \in 1..Len(todo') : k + 1 \in 1..Len(todo) /\ todo'[k] = todo[k + 1]
  BY NextAgentDoes, ThisType DEF CallInv, NextAgent
<1>3. Range(todo') \subseteq Range(todo) /\ This \in Range(todo)
  BY <1>2 DEF Range
<1>4. \A a \in Range(todo) : a = This \/ a \in Range(todo')
  <2> SUFFICES ASSUME NEW k \in 1..Len(todo), k # 1 PROVE todo[k] \in Range(todo')
    BY <1>2 DEF Range
  <2>1. k - 1 \in 1..Len(todo')
    BY <1>2
  <2>2. todo'[k - 1] = todo[k]
    BY <1>2, <2>1
  <2> QED
    BY <1>2, <2>1, <2>2 DEF Range
<1>5. Range(agentIDs)' = Range(agentIDs) /\ This \in Range(agentIDs)
  BY <1>3 DEF Grows, Range, AskedInv
<1>6. \A a \in Range(agentIDs) : Totalled(a) => Totalled(a)'
  BY DEF Totalled
<1>7. (\A a \in Range(agentIDs) : a \in Range(todo) \/ Totalled(a) \/ MissedCard(a))'
  <2> SUFFICES ASSUME NEW a \in Range(agentIDs)
               PROVE  a \in Range(todo') \/ Totalled(a)' \/ MissedCard(a)'
    BY <1>5 DEF Range
  <2>1. CASE a = This
    BY <2>1 DEF Totalled, MissedCard
  <2>2. CASE a # This
    BY <1>1, <1>4, <1>6, <2>2 DEF AskedInv
  <2> QED
    BY <2>1, <2>2
<1>8. (\A g \in gathered : g[1] \in Range(agentIDs) /\ HadCard(g[1]))'
  BY <1>1, <1>5 DEF AskedInv
<1> QED
  BY <1>2, <1>3, <1>5, <1>7, <1>8 DEF AskedInv, Range

LEMMA AskedInit == Init => AskedInv
  BY DEF Init, RankInit, AskedInv

LEMMA AskedStep == CallInv /\ AskedInv /\ [Next]_vars => AskedInv'
<1> SUFFICES ASSUME CallInv, AskedInv, [Next]_vars PROVE AskedInv'
  OBVIOUS
<1>1. CASE Environment
  <2>1. PICK a \in Agents : \E y : Change(a, y)
    BY <1>1, EnvironmentDoes DEF CallInv
  <2>2. PICK y : Change(a, y)
    BY <2>1
  <2>3. /\ UNCHANGED <<agentIDs, todo, at, lost, phase, gathered>>
        /\ shown' = [shown EXCEPT ![a] = @ \cup {y}]
    BY <2>2 DEF Change, callVars, rankVars
  <2>4. Grows
    BY <2>3 DEF Grows, CallInv, TypeOK
  <2> QED
    BY <2>3, <2>4, AskedStays DEF AskedInv
<1>2. CASE Call \/ Die \/ Sort \/ UNCHANGED vars
  <2>1. UNCHANGED <<agentIDs, todo, at, lost, shown, gathered>>
    BY <1>2 DEF Call, Die, Sort, vars, Unchanging, callVars, history, rankVars, Begin,
                Panic, Enter, StartSort, Compare, NextRow, SetRanks
  <2>2. phase' \in {"sort", "done"} => todo = <<>>
    BY <1>2 DEF Call, Die, Sort, vars, rankVars, Begin, Panic, Enter, AskedInv
  <2>3. Grows
    BY <2>1 DEF Grows
  <2> QED
    BY <2>1, <2>2, <2>3, AskedStays DEF AskedInv
<1>3. ASSUME NEW new, Fills(new), at # 1 \/ HadCard(This) PROVE AskedInv'
  <2>1. /\ UNCHANGED <<agentIDs, todo, shown, phase, gathered>> /\ lost \subseteq lost'
        /\ phase = "collect"
    BY <1>3 DEF Fills, Put, Unchanging, rankVars
  <2>2. Grows
    BY <2>1 DEF Grows
  <2>3. HadCard(This)
    BY <1>3 DEF AskedInv, Fills
  <2> QED
    BY <2>1, <2>2, <2>3, AskedStays
<1>4. CASE GetAgent
  <2>1. /\ todo # <<>> /\ This \in Agents /\ Seen \in shown[This]
        /\ phase = "collect" /\ shown' = shown /\ agentIDs' = agentIDs
    BY <1>4, ThisType DEF GetAgent, Reading, CallInv, TypeOK, Seen, Unchanging
  <2>2. CASE Skips
    <3>1. CASE Seen.card # None /\ Put([skill |-> SkillMatch(Seen.card.skills, req.required),
                                        network |-> NetworkPenalty(Seen.card, req)])
      <4>1. todo' = todo /\ todo' = Tail(todo)
        BY <2>2, <3>1 DEF Skips, NextAgent, Put
      <4>2. Len(Tail(todo)) = Len(todo) - 1 /\ Len(todo) \in Nat
        BY <2>1, ThisType DEF CallInv
      <4> QED
        BY <4>1, <4>2
    <3>2. CASE IF Seen.card = None THEN UNCHANGED <<events, lost>>
               ELSE Spend /\ lost' = lost \cup {<<This, "card">>}
      <4>1. <<This, "card">> \in lost' \/ \E x \in shown'[This] : x.card = None
        BY <2>1, <3>2
      <4>2. Grows /\ gathered' = gathered /\ NextAgent /\ phase' = "collect"
        BY <2>1, <2>2 DEF Grows, Skips, rankVars
      <4> QED
        BY <2>1, <4>1, <4>2, AskedPasses
    <3> QED
      BY <1>4, <3>1, <3>2 DEF GetAgent
  <2>3. CASE ~Skips
    <3>1. PICK new : Fills(new)
      BY <1>4, <2>3, GetAgentDoes
    <3>2. Seen.card # None
      <4>1. todo' = todo /\ Len(Tail(todo)) = Len(todo) - 1 /\ Len(todo) \in Nat
        BY <2>1, <3>1, ThisType DEF Fills, Put, CallInv
      <4>2. ~NextAgent
        BY <4>1 DEF NextAgent
      <4>3. Seen.card # None \/ NextAgent
        BY <1>4 DEF GetAgent
      <4> QED
        BY <4>2, <4>3
    <3>3. HadCard(This)
      BY <2>1, <3>2 DEF HadCard
    <3> QED
      BY <1>3, <3>1, <3>3
  <2> QED
    BY <2>2, <2>3
<1>5. CASE GetLoad
  <2>1. at # 1
    BY <1>5, ReadingAt DEF GetLoad, CallInv, TypeOK
  <2> QED
    BY <1>3, <1>5, <2>1, GetLoadDoes
<1>6. ASSUME NEW d \in DOMAIN Fallback, Read(d) PROVE AskedInv'
  <2>1. Turn[d] = at /\ d \in Dimension
    BY <1>6, ReadingAt, FallbackRange DEF Read, CallInv, TypeOK
  <2>2. at # 1
    BY <2>1 DEF Turn, Dimension
  <2> QED
    BY <1>3, <1>6, <2>2, ReadDoes, FallbackRange
<1>7. ASSUME NEW d \in Rates, TwoGets(d) PROVE AskedInv'
  <2>1. at # 1
    BY <1>7, ReadingAt DEF TwoGets, CallInv, TypeOK, Turn, Dimension, Rates
  <2>2. CASE \E new : Fills(new)
    BY <1>3, <2>1, <2>2
  <2>3. CASE half = None /\ Outcomes(d, Seen) # None /\ Kept(Outcomes(d, Seen))
             /\ Reading(d) /\ deploy.source = "redis" /\ Unchanging
    <3>1. UNCHANGED <<agentIDs, todo, at, lost, shown, phase, gathered>>
      BY <2>3 DEF Kept, Unchanging, rankVars
    <3>2. Grows
      BY <3>1 DEF Grows
    <3> QED
      BY <3>1, <3>2, AskedStays DEF AskedInv
  <2> QED
    BY <1>7, <2>2, <2>3, TwoGetsDoes
<1>8. CASE AddScore
  <2>1. /\ Collect(This, Total) /\ NextAgent /\ todo # <<>> /\ at = 14
        /\ UNCHANGED <<agentIDs, shown, lost>>
    BY <1>8, ReadingAt DEF AddScore, Reading, Unchanging, CallInv, TypeOK
  <2>2. /\ gathered' = gathered \cup {<<This, Total>>} /\ phase' = "collect"
    BY <2>1 DEF Collect
  <2>3. \E g \in gathered' : g[1] = This
    <3>1. <<This, Total>> \in gathered' /\ <<This, Total>>[1] = This
      BY <2>2
    <3> QED
      BY <3>1, Zenon
  <2>4. HadCard(This) /\ Grows
    BY <2>1 DEF AskedInv, Grows
  <2> QED
    BY <2>1, <2>2, <2>3, <2>4, AskedPasses DEF CallInv
<1> QED
  BY <1>1, <1>2, <1>4, <1>5, <1>6, <1>7, <1>8 DEF Next

\* An agent that is missing from the answer had no card at some moment of the call,
\* or the read of its card failed, and one that is in it was asked for and had a
\* card: for any list of agents, any data and any failures (scoring.go:66-73).
THEOREM ScoredAreRankedCorrect == Spec => []ScoredAreRanked
<1>1. CallInv /\ AskedInv /\ RankedDescending => ScoredAreRanked
  <2> SUFFICES ASSUME CallInv, AskedInv, RankedDescending, phase \in {"sort", "done"}
               PROVE  LET ranked == {scores[k].agent : k \in DOMAIN scores} IN
                      /\ \A a \in Range(agentIDs) \ ranked : MissedCard(a)
                      /\ \A a \in ranked : a \in Range(agentIDs) /\ HadCard(a)
    BY DEF ScoredAreRanked
  <2> DEFINE ranked == {scores[k].agent : k \in DOMAIN scores}
  <2>1. \A a : a \in ranked <=> Totalled(a)
    <3>1. gathered = {<<scores[k].agent, scores[k].total>> : k \in DOMAIN scores}
      BY DEF RankedDescending
    <3>2. ASSUME NEW a, a \in ranked PROVE Totalled(a)
      <4>1. PICK k \in DOMAIN scores : a = scores[k].agent
        BY <3>2
      <4>2. <<a, scores[k].total>> \in gathered
        BY <3>1, <4>1
      <4> QED
        BY <4>2 DEF Totalled
    <3>3. ASSUME NEW a, Totalled(a) PROVE a \in ranked
      <4>1. PICK g \in gathered : g[1] = a
        BY <3>3 DEF Totalled
      <4>2. PICK k \in DOMAIN scores : g = <<scores[k].agent, scores[k].total>>
        BY <3>1, <4>1
      <4> QED
        BY <4>1, <4>2
    <3> QED
      BY <3>2, <3>3
  <2>2. Range(todo) = {}
    BY DEF AskedInv, Range
  <2> QED
    BY <2>1, <2>2 DEF AskedInv, Totalled
<1> QED
  BY <1>1, CallInit, CallStep, AskedInit, AskedStep, ScoringDescends, PTL DEF Spec

-----------------------------------------------------------------------------

LEMMA BlankIsFallback ==
  ASSUME NEW x, NEW d \in Neutral PROVE Value(d, Blank(x)) = Fallback[d]
<1>1. /\ Blank(x).trust = None /\ Blank(x).latencies = None /\ Blank(x).mbps = None
      /\ Blank(x).successes = None /\ Blank(x).errors = None /\ Blank(x).total = None
  BY KindsAre DEF Blank
<1>2. CASE d = "trust"
  <2>1. Value(d, Blank(x)) = ClampedTrust(None)
    BY <1>1, <1>2 DEF Value
  <2> QED
    BY <1>2, <2>1 DEF ClampedTrust, Fallback
<1>3. CASE d = "latency"
  <2>1. Value(d, Blank(x)) = LatencyScore(None)
    BY <1>1, <1>3 DEF Value
  <2> QED
    BY <1>3, <2>1 DEF LatencyScore, Fallback
<1>4. CASE d = "success"
  <2>1. Value(d, Blank(x)) = SuccessScore(None, Tasks(Blank(x)))
    BY <1>1, <1>4 DEF Value
  <2> QED
    BY <1>4, <2>1 DEF SuccessScore, Fallback
<1>5. CASE d = "bandwidth"
  <2>1. Value(d, Blank(x)) = BandwidthScore(None)
    BY <1>1, <1>5 DEF Value
  <2> QED
    BY <1>5, <2>1, NoneAssumption DEF BandwidthScore, Fallback
<1>6. CASE d = "history"
  <2>1. Value(d, Blank(x)) = HistoryScore(None)
    BY <1>1, <1>6 DEF Value
  <2> QED
    BY <1>6, <2>1, NoneAssumption DEF HistoryScore, Fallback
<1>7. CASE d = "errors"
  <2>1. Value(d, Blank(x)) = ErrorScore(None, Tasks(Blank(x)))
    BY <1>1, <1>7 DEF Value
  <2> QED
    BY <1>7, <2>1 DEF ErrorScore, Fallback
<1> QED
  BY <1>2, <1>3, <1>4, <1>5, <1>6, <1>7 DEF Neutral, Dimension, OfRegistry, OfMeta

\* A failed read leaves an agent what it would have with no data at all, for any
\* data, any kernel version and any protocols (scoring.go, both data sources).
THEOREM LostUnknown == Spec => []LostIsUnknown
<1>1. CallInv => LostIsUnknown
  <2> SUFFICES ASSUME CallInv, todo # <<>>, NEW d \in DOMAIN Fallback,
                      <<This, d>> \in lost,
                      d \notin OfRegistry \cup OfMeta
               PROVE  dims[d] = Value(d, Blank(Seen))
    BY DEF LostIsUnknown
  <2>1. d \in Neutral
    BY FallbackRange DEF Neutral
  <2>2. dims[d] = Fallback[d]
    BY <2>1 DEF CallInv, LostInv
  <2> QED
    BY <2>1, <2>2, BlankIsFallback
<1> QED
  BY <1>1, CallInit, CallStep, PTL DEF Spec

\* Every dimension lies within 0..1 and every total with it, for any number of
\* agents, any data and any order of writes between the reads, as long as an
\* agent's data stay regular (datasource_redis.go:96-103, scoring.go).
THEOREM ScoresWithinRange == Spec => []ScoresInRange
<1>1. CallInv /\ RankedDescending => ScoresInRange
  <2> SUFFICES ASSUME CallInv, RankedDescending PROVE ScoresInRange
    OBVIOUS
  <2>1. phase = "collect" /\ todo # <<>> /\ This \in regular
          => \A d \in DOMAIN dims : dims[d] \in 0..One
    BY DEF CallInv, RangeInv
  <2>2. ASSUME NEW k \in DOMAIN scores, scores[k].agent \in regular
        PROVE  scores[k].total \in 0..(1000 * One)
    <3> DEFINE g == <<scores[k].agent, scores[k].total>>
    <3>1. g \in gathered
      BY DEF RankedDescending
    <3>2. \A h \in gathered : h[1] \in regular => h[2] \in 0..(1000 * One)
      BY DEF CallInv, RangeInv
    <3> QED
      BY <2>2, <3>1, <3>2
  <2> QED
    BY <2>1, <2>2 DEF ScoresInRange
<1> QED
  BY <1>1, CallInit, CallStep, ScoringDescends, PTL DEF Spec

-----------------------------------------------------------------------------
(* The choice of the agent to wake.                                          *)

\* One turn of the loop over the candidates, and the loop up to number n.
Better(c, g, k) == IF k > 1 /\ c[k].total <= g[k - 1].total THEN g[k - 1] ELSE c[k]

Picks(c, D, g) == g = [k \in D |-> Better(c, g, k)]

LEMMA PickRuns ==
  ASSUME NEW c, NEW n \in Nat PROVE \E g : Picks(c, 1..n, g)
<1> DEFINE T == {k \in Nat : ~ \E g : Picks(c, 1..k, g)}
<1> SUFFICES ASSUME T # {} PROVE FALSE
  OBVIOUS
<1>1. PICK k \in T : \A l \in T : k <= l
  <2>1. T \in SUBSET Nat
    OBVIOUS
  <2> HIDE DEF T
  <2> QED
    BY <2>1, LeastNumber
<1>2. CASE k = 0
  <2> DEFINE g == [l \in {} |-> c]
  <2>1. 1..0 = {}
    OBVIOUS
  <2>2. [l \in {} |-> Better(c, g, l)] = g
    OBVIOUS
  <2> HIDE DEF g
  <2>3. Picks(c, 1..0, g)
    BY <2>1, <2>2 DEF Picks
  <2> QED
    BY <1>1, <1>2, <2>3
<1>3. CASE k # 0
  <2>1. k - 1 \in Nat /\ k \in Nat /\ k - 1 < k
    BY <1>1, <1>3
  <2>2. k - 1 \notin T
    BY <1>1, <2>1
  <2>3. PICK g : Picks(c, 1..(k - 1), g)
    BY <2>1, <2>2
  <2> DEFINE h == [l \in 1..k |-> IF l = k THEN Better(c, g, k) ELSE g[l]]
  <2>4. ASSUME NEW l \in 1..k PROVE Better(c, h, l) = h[l]
    <3>1. h[l] = Better(c, g, l)
      <4>1. CASE l = k
        BY <4>1
      <4>2. CASE l # k
        <5>1. l \in 1..(k - 1)
          BY <2>1, <4>2
        <5>2. g[l] = Better(c, g, l)
          BY <2>3, <5>1 DEF Picks
        <5> QED
          BY <4>2, <5>2
      <4> QED
        BY <4>1, <4>2
    <3>2. l > 1 => h[l - 1] = g[l - 1]
      BY <2>1
    <3> HIDE DEF h
    <3> QED
      BY <3>1, <3>2 DEF Better
  <2>5. h = [l \in 1..k |-> h[l]]
    OBVIOUS
  <2> HIDE DEF h
  <2>6. [l \in 1..k |-> Better(c, h, l)] = [l \in 1..k |-> h[l]]
    BY <2>4
  <2>7. Picks(c, 1..k, h)
    BY <2>5, <2>6 DEF Picks
  <2> QED
    BY <1>1, <2>7
<1> QED
  BY <1>2, <1>3

\* It is the first of the candidates that no other exceeds.
LEMMA PickIsFirstBest ==
  ASSUME NEW c \in Seq(AgentScore), c # <<>>
  PROVE  \E m \in 1..Len(c) :
           /\ PickWakeTarget(c) = c[m]
           /\ \A l \in 1..Len(c) : /\ c[l].total <= c[m].total
                                   /\ l < m => c[l].total < c[m].total
<1> DEFINE n == Len(c)
           f == CHOOSE g : Picks(c, DOMAIN c, g)
<1>1. n \in Nat \ {0} /\ DOMAIN c = 1..n
  OBVIOUS
<1>2. \A l \in 1..n : c[l].total \in Int
  <2>1. \A l \in 1..n : c[l] \in AgentScore
    BY <1>1
  <2> QED
    BY <2>1 DEF AgentScore
<1>3. PickWakeTarget(c) = f[n]
  BY DEF PickWakeTarget, Picks, Better
<1>4. Picks(c, 1..n, f)
  BY <1>1, PickRuns
<1> HIDE DEF f, n
<1>5. \A k \in 1..n : f[k] = Better(c, f, k)
  BY <1>4 DEF Picks
<1> DEFINE Good(k) == \E m \in 1..k :
                        /\ f[k] = c[m]
                        /\ \A l \in 1..k : /\ c[l].total <= c[m].total
                                           /\ l < m => c[l].total < c[m].total
           T == {k \in 1..n : ~Good(k)}
<1>6. Good(1)
  BY <1>1, <1>2, <1>5 DEF Better
<1>7. ASSUME NEW k \in 1..n, k # 1, Good(k - 1) PROVE Good(k)
  <2>1. PICK m \in 1..(k - 1) :
          /\ f[k - 1] = c[m]
          /\ \A l \in 1..(k - 1) : /\ c[l].total <= c[m].total
                                   /\ l < m => c[l].total < c[m].total
    BY <1>7
  <2>2. k > 1 /\ k \in Int /\ n \in Int /\ m \in 1..n /\ m \in 1..k
        /\ f[k] = IF c[k].total <= c[m].total THEN c[m] ELSE c[k]
    BY <1>1, <1>5, <1>7, <2>1 DEF Better
  <2>3. \A l \in 1..k : l \in 1..n /\ (l # k => l \in 1..(k - 1))
    BY <2>2
  <2>4. CASE c[k].total <= c[m].total
    <3>1. \A l \in 1..k : /\ c[l].total <= c[m].total
                          /\ l < m => c[l].total < c[m].total
      BY <2>1, <2>2, <2>3, <2>4
    <3> QED
      BY <2>2, <2>4, <3>1
  <2>5. CASE ~(c[k].total <= c[m].total)
    <3>1. \A l \in 1..k : /\ c[l].total <= c[k].total
                          /\ l < k => c[l].total < c[k].total
      BY <1>2, <2>1, <2>2, <2>3, <2>5
    <3>2. k \in 1..k /\ f[k] = c[k]
      BY <2>2, <2>5
    <3> QED
      BY <3>1, <3>2
  <2> QED
    BY <2>4, <2>5
<1> HIDE DEF Good
<1>8. T = {}
  <2> SUFFICES ASSUME T # {} PROVE FALSE
    OBVIOUS
  <2>1. T \in SUBSET Nat
    OBVIOUS
  <2>2. PICK k \in T : \A l \in T : k <= l
    BY <2>1, LeastNumber
  <2>3. k \in 1..n /\ ~Good(k) /\ k # 1
    BY <1>6, <2>2
  <2>4. k - 1 \in 1..n /\ ~(k <= k - 1)
    BY <1>1, <2>3
  <2>5. Good(k - 1)
    BY <2>2, <2>4
  <2> QED
    BY <1>7, <2>3, <2>5
<1>9. Good(n)
  BY <1>1, <1>8
<1> QED
  BY <1>3, <1>9 DEF Good, n

\* Every order of a set of places names each of them once.
LEMMA SeqsAreOrders ==
  ASSUME NEW n \in Nat, NEW S \in SUBSET (1..n), S # {}, NEW o \in SetToSeqs(S)
  PROVE  /\ Cardinality(S) \in Nat \ {0}
         /\ o \in [1..Cardinality(S) -> S]
         /\ \A b \in S : \E m \in 1..Cardinality(S) : o[m] = b
<1> DEFINE q == Cardinality(S)
<1>1. IsFiniteSet(S)
  <2>1. 1 \in Int /\ n \in Int
    OBVIOUS
  <2>2. IsFiniteSet(1..n)
    BY <2>1, FS_Interval
  <2> QED
    BY <2>2, FS_Subset
<1>2. q \in Nat \ {0}
  BY <1>1, FS_CardinalityType, FS_EmptySet
<1>3. o \in [1..q -> S] /\ \A k, l \in 1..q : k # l => o[k] # o[l]
  BY DEF SetToSeqs
<1> HIDE DEF q
<1>4. o \in Injection(1..q, S)
  BY <1>3 DEF Injection, IsInjective
<1>5. IsFiniteSet(1..q) /\ Cardinality(1..q) = q
  <2>1. 1 \in Int /\ q \in Int
    BY <1>2
  <2> QED
    BY <1>2, <2>1, FS_Interval
<1>6. Cardinality(1..q) = Cardinality(S)
  BY <1>5 DEF q
<1>7. o \in Surjection(1..q, S)
  BY <1>1, <1>4, <1>6, FS_Injection
<1> QED
  BY <1>2, <1>3, <1>7 DEF Surjection, q

\* Whoever sleeps of any number of ranked agents and in whatever order the
\* candidates come, the one pickWakeTarget takes has the best of their totals, and
\* in rank order is the best-ranked (sleep_policy.go).
THEOREM WakesBest == Spec => []WakesBestRanked
<1>1. CallInv /\ RankedDescending => WakesBestRanked
  <2> SUFFICES ASSUME RankType, RankedDescending, phase = "done",
                      NEW S \in (SUBSET DOMAIN scores) \ {{}}, NEW o \in SetToSeqs(S)
               PROVE  LET woken == PickWakeTarget([k \in DOMAIN o |-> scores[o[k]]])
                          best  == CHOOSE k \in S : \A l \in S : k <= l
                      IN /\ woken.total = scores[best].total
                         /\ (\A k, l \in DOMAIN o : k < l => o[k] < o[l])
                              => woken = scores[best]
    BY DEF WakesBestRanked, CallInv, TypeOK
  <2> DEFINE q == Cardinality(S)
             c == [k \in DOMAIN o |-> scores[o[k]]]
             best == CHOOSE k \in S : \A l \in S : k <= l
  <2>1. /\ scores \in Seq(AgentScore) /\ Len(scores) \in Nat
        /\ S \in SUBSET (1..Len(scores)) /\ S # {}
    BY DEF RankType
  <2>2. /\ q \in Nat \ {0} /\ o \in [1..q -> S]
        /\ \A b \in S : \E m \in 1..q : o[m] = b
    BY <2>1, SeqsAreOrders
  <2>3. best \in S /\ \A l \in S : best <= l
    <3>1. S \in SUBSET Nat
      BY <2>1
    <3>2. \E k \in S : \A l \in S : k <= l
      BY <2>1, <3>1, LeastNumber
    <3> QED
      BY <3>2
  <2> HIDE DEF q, best
  <2>4. /\ c \in Seq(AgentScore) /\ Len(c) = q /\ c # <<>>
        /\ \A k \in 1..q : c[k] = scores[o[k]]
    <3>1. \A k \in 1..q : scores[o[k]] \in AgentScore
      BY <2>1, <2>2
    <3>2. DOMAIN o = 1..q
      BY <2>2
    <3> QED
      BY <2>2, <3>1, <3>2
  <2> HIDE DEF c
  <2>5. PICK m \in 1..q :
          /\ PickWakeTarget(c) = c[m]
          /\ \A l \in 1..q : /\ c[l].total <= c[m].total
                             /\ l < m => c[l].total < c[m].total
    BY <2>4, PickIsFirstBest
  <2>6. PICK b \in 1..q : o[b] = best
    BY <2>2, <2>3
  <2>7. o[m] \in S /\ best <= o[m] /\ best \in DOMAIN scores /\ o[m] \in DOMAIN scores
    BY <2>2, <2>3
  <2>8. scores[best].total \in Int /\ scores[o[m]].total \in Int
        /\ best \in Nat /\ o[m] \in Nat
    BY <2>7, ScoreFields
  <2>9. scores[o[m]].total <= scores[best].total
    <3>1. \A x, y \in DOMAIN scores : x < y => scores[y].total <= scores[x].total
      BY DEF RankedDescending, Descending
    <3>2. best < o[m] \/ best = o[m]
      BY <2>7, <2>8
    <3> QED
      BY <2>7, <2>8, <3>1, <3>2
  <2>10. c[b] = scores[best] /\ c[m] = scores[o[m]]
    BY <2>4, <2>6
  <2>11. c[m].total = c[b].total
    BY <2>5, <2>8, <2>9, <2>10
  <2>12. ASSUME \A k, l \in DOMAIN o : k < l => o[k] < o[l] PROVE m = b
    <3>1. b = 1
      <4> SUFFICES ASSUME 1 < b PROVE FALSE
        BY <2>2
      <4>1. 1 \in DOMAIN o /\ b \in DOMAIN o
        BY <2>2
      <4>2. o[1] < o[b] /\ o[1] \in S
        BY <2>2, <2>12, <4>1
      <4>3. best <= o[1] /\ o[1] \in Nat
        BY <2>1, <2>3, <4>2
      <4> QED
        BY <2>6, <2>8, <4>2, <4>3
    <3> QED
      BY <2>2, <2>5, <2>8, <2>10, <2>11, <3>1
  <2> QED
    BY <2>5, <2>10, <2>11, <2>12 DEF c, best
<1> QED
  BY <1>1, CallInit, CallStep, ScoringDescends, PTL DEF Spec

-----------------------------------------------------------------------------
(* The curves keep the order of the data they are given.                     *)

LEMMA PartGrows ==
  ASSUME NEW m \in Int, NEW n \in Int, NEW d \in Nat \ {0}, n <= m
  PROVE  Part(n, d) <= Part(m, d)
  BY DEF Part, One

\* Of two shares the larger one, given as a comparison of products.
LEMMA PartRatio ==
  ASSUME NEW n \in Nat, NEW d \in Nat \ {0}, NEW m \in Nat, NEW e \in Nat \ {0},
         n * e <= m * d
  PROVE  Part(n, d) <= Part(m, e)
<1> DEFINE k == (600 * n) \div d
<1>1. k \in Int /\ d * k <= 600 * n
  OBVIOUS
<1> HIDE DEF k
<1>2. (d * k) * e <= (600 * n) * e
  BY <1>1
<1>3. (600 * n) * e <= (600 * m) * d
  BY (600 * n) * e = 600 * (n * e), (600 * m) * d = 600 * (m * d)
<1>4. d * (k * e) <= d * (600 * m)
  BY <1>1, <1>2, <1>3
<1>5. k * e <= 600 * m
  BY <1>1, <1>4
<1>6. k <= (600 * m) \div e
  BY <1>1, <1>5
<1> QED
  BY <1>6 DEF Part, One, k

LEMMA WithinGrows ==
  ASSUME NEW lo \in Int, NEW hi \in Int, lo <= hi, NEW x \in Int, NEW y \in Int, y <= x
  PROVE  Within(lo, hi, y) <= Within(lo, hi, x)
  BY DEF Within

LEMMA SkillGrows ==
  ASSUME NEW s, NEW t, t \subseteq s, NEW required \in Seq(STRING)
  PROVE  SkillMatch(t, required) <= SkillMatch(s, required)
<1>1. CASE required = <<>>
  BY <1>1 DEF SkillMatch, One
<1>2. CASE required # <<>>
  <2> DEFINE K(u) == {k \in DOMAIN required : required[k] \in u}
             n == Len(required)
  <2>1. n \in Nat \ {0} /\ \A u : K(u) \subseteq 1..n
    BY <1>2
  <2>2. K(t) \subseteq K(s)
    OBVIOUS
  <2> HIDE DEF n, K
  <2>3. IsFiniteSet(1..n)
    BY <2>1, FS_Interval
  <2>4. IsFiniteSet(K(s)) /\ IsFiniteSet(K(t))
    BY <2>1, <2>3, FS_Subset
  <2>5. /\ Cardinality(K(t)) \in Nat /\ Cardinality(K(s)) \in Nat
        /\ Cardinality(K(t)) <= Cardinality(K(s))
    BY <2>2, <2>4, FS_Subset, FS_CardinalityType
  <2>6. Part(Cardinality(K(t)), n) <= Part(Cardinality(K(s)), n)
    BY <2>1, <2>5, PartGrows
  <2> QED
    BY <1>2, <2>6 DEF SkillMatch, K, n
<1> QED
  BY <1>1, <1>2

LEMMA LoadsGrow ==
  ASSUME NEW l \in Optional(Loads), NEW m \in Optional(Loads), AsFree(l, m)
  PROVE  HealthScore(m) <= HealthScore(l) /\ LoadScore(m) <= LoadScore(l)
<1>0. /\ HealthScore(m) \in Int /\ HealthScore(l) \in Int
      /\ LoadScore(m) \in Int /\ LoadScore(l) \in Int
  BY HealthScores, LoadScores
<1>1. CASE None \in {l, m}
  BY <1>0, <1>1 DEF AsFree
<1>2. CASE None \notin {l, m}
  <2>1. /\ l \in Loads /\ m \in Loads
        /\ l.cpu <= m.cpu /\ l.memory <= m.memory
        /\ l.capacity > 0 /\ m.capacity > 0
        /\ l.active * m.capacity <= m.active * l.capacity
    BY <1>2 DEF AsFree, Optional
  <2>2. /\ l.cpu \in Int /\ m.cpu \in Int /\ l.memory \in Int /\ m.memory \in Int
        /\ l.active \in Nat /\ m.active \in Nat
        /\ l.capacity \in Nat \ {0} /\ m.capacity \in Nat \ {0}
    BY <2>1 DEF Loads
  <2>3. Part(8 - m.cpu - m.memory, 8) <= Part(8 - l.cpu - l.memory, 8)
    BY <2>1, <2>2, PartGrows
  <2>4. Part(l.active, l.capacity) <= Part(m.active, m.capacity)
    BY <2>1, <2>2, PartRatio
  <2>5. /\ Part(l.active, l.capacity) \in Int /\ Part(m.active, m.capacity) \in Int
        /\ One \in Int
    BY <2>2, PartInt, OneInt
  <2>6. /\ LoadScore(l) = One - Part(l.active, l.capacity)
        /\ LoadScore(m) = One - Part(m.active, m.capacity)
    BY <1>2, <2>2 DEF LoadScore
  <2> QED
    BY <1>2, <2>3, <2>4, <2>5, <2>6 DEF HealthScore
<1> QED
  BY <1>1, <1>2

LEMMA TrustGrows ==
  ASSUME NEW s \in Optional(Int), NEW t \in Optional(Int), AtLeast(s, t)
  PROVE  ClampedTrust(t) <= ClampedTrust(s)
<1>0. ClampedTrust(s) \in Int /\ ClampedTrust(t) \in Int
  BY TrustRange, OneInt
<1>1. CASE None \in {s, t}
  BY <1>0, <1>1 DEF AtLeast
<1>2. CASE None \notin {s, t}
  <2>1. s \in Int /\ t \in Int /\ t <= s /\ 0 <= One /\ One \in Int
    BY <1>2 DEF AtLeast, Optional, One
  <2>2. Within(0, One, t) <= Within(0, One, s)
    BY <2>1, WithinGrows
  <2> QED
    BY <1>2, <2>2 DEF ClampedTrust
<1> QED
  BY <1>1, <1>2

LEMMA LatencyGrows ==
  ASSUME NEW v \in Optional(Seq(Int) \ {<<>>}), NEW w \in Optional(Seq(Int) \ {<<>>}),
         AsFast(v, w)
  PROVE  LatencyScore(w) <= LatencyScore(v)
<1>0. LatencyScore(v) \in Int /\ LatencyScore(w) \in Int
  BY LatencyRange, OneInt
<1>1. CASE None \in {v, w}
  BY <1>0, <1>1 DEF AsFast
<1>2. CASE None \notin {v, w}
  <2> DEFINE p == Percentile99(v)  r == Percentile99(w)
  <2>1. p \in Int /\ r \in Int /\ p <= r
    BY <1>2, PercentileType DEF AsFast, Optional, Range
  <2>2. /\ LatencyScore(v) = One - Part(Within(0, 4, p), 4)
        /\ LatencyScore(w) = One - Part(Within(0, 4, r), 4)
    BY <1>2 DEF LatencyScore
  <2> HIDE DEF p, r
  <2>3. /\ Within(0, 4, p) \in Int /\ Within(0, 4, r) \in Int
        /\ Within(0, 4, p) <= Within(0, 4, r)
    BY <2>1 DEF Within
  <2>4. Part(Within(0, 4, p), 4) <= Part(Within(0, 4, r), 4)
    BY <2>3, PartGrows
  <2>5. Part(Within(0, 4, p), 4) \in Int /\ Part(Within(0, 4, r), 4) \in Int
    BY <2>3, PartInt
  <2> QED
    BY <2>2, <2>4, <2>5, OneInt
<1> QED
  BY <1>1, <1>2

LEMMA Seventy ==
  ASSUME NEW a \in Nat, NEW b \in Nat PROVE (7 * a) * (10 * b) = 70 * (a * b)
<1>1. (7 * a) * (10 * b) = 7 * (a * (10 * b))
  OBVIOUS
<1>2. a * (10 * b) = 10 * (a * b)
  OBVIOUS
<1>3. a * b \in Nat
  OBVIOUS
<1> QED
  BY <1>1, <1>2, <1>3

LEMMA SuccessGrows ==
  ASSUME NEW m \in Optional(Nat), NEW s \in Optional(Nat), NEW n \in Optional(Nat),
         NEW t \in Optional(Nat), AsOften(m, s, n, t)
  PROVE  SuccessScore(n, t) <= SuccessScore(m, s)
<1>0. SuccessScore(n, t) \in Int /\ SuccessScore(m, s) \in Int
  BY SuccessScores
<1>1. CASE None \in {m, s, n, t}
  BY <1>0, <1>1 DEF AsOften
<1>2. CASE None \notin {m, s, n, t} /\ s = 0
  BY <1>0, <1>2 DEF AsOften, SuccessScore
<1>3. CASE None \notin {m, s, n, t} /\ s # 0
  <2>1. /\ m \in Nat /\ n \in Nat /\ s \in Nat \ {0} /\ t \in Nat \ {0} /\ n * s <= m * t
    BY <1>3 DEF AsOften, Optional
  <2>2. /\ 7 * n \in Nat /\ 7 * m \in Nat /\ 10 * s \in Nat \ {0} /\ 10 * t \in Nat \ {0}
    BY <2>1
  <2>3. (7 * n) * (10 * s) = 70 * (n * s) /\ (7 * m) * (10 * t) = 70 * (m * t)
    BY <2>1, Seventy
  <2>4. (7 * n) * (10 * s) <= (7 * m) * (10 * t)
    BY <2>1, <2>3
  <2>5. Part(7 * n, 10 * t) <= Part(7 * m, 10 * s)
    BY <2>2, <2>4, PartRatio
  <2>6. Part(7 * n, 10 * t) \in Int /\ Part(7 * m, 10 * s) \in Int
    BY <2>2, PartInt
  <2>7. Part(3, 20) \in Int
    BY DEF Part, One
  <2>8. /\ SuccessScore(n, t) = Part(7 * n, 10 * t) + Part(3, 20)
        /\ SuccessScore(m, s) = Part(7 * m, 10 * s) + Part(3, 20)
    BY <1>3, <2>1 DEF SuccessScore
  <2> QED
    BY <2>5, <2>6, <2>7, <2>8
<1> QED
  BY <1>2, <1>1, <1>3

LEMMA ErrorGrows ==
  ASSUME NEW m \in Optional(Nat), NEW s \in Optional(Nat), NEW n \in Optional(Nat),
         NEW t \in Optional(Nat), AsOften(m, s, n, t)
  PROVE  ErrorScore(m, s) <= ErrorScore(n, t)
<1>0. ErrorScore(n, t) \in Int /\ ErrorScore(m, s) \in Int
  BY ErrorScores
<1>1. CASE None \in {m, s, n, t}
  BY <1>0, <1>1 DEF AsOften
<1>2. CASE None \notin {m, s, n, t} /\ s = 0
  BY <1>0, <1>2 DEF AsOften, ErrorScore
<1>3. CASE None \notin {m, s, n, t} /\ s # 0
  <2>1. /\ m \in Nat /\ n \in Nat /\ s \in Nat \ {0} /\ t \in Nat \ {0} /\ n * s <= m * t
    BY <1>3 DEF AsOften, Optional
  <2>2. Part(n, t) <= Part(m, s)
    BY <2>1, PartRatio
  <2>3. Part(n, t) \in Int /\ Part(m, s) \in Int /\ One \in Int
    BY <2>1, PartInt, OneInt
  <2> QED
    BY <1>3, <2>1, <2>2, <2>3 DEF ErrorScore
<1> QED
  BY <1>2, <1>1, <1>3

LEMMA DecadesGrow ==
  ASSUME NEW m \in Nat, NEW n \in Nat, n <= m PROVE Decades(n) <= Decades(m)
<1> DEFINE D(k) == {p \in {10, 100, 1000} : p <= k}
<1>1. D(n) \subseteq D(m)
  OBVIOUS
<1>2. IsFiniteSet({10, 100, 1000})
  <2>1. IsFiniteSet({10})
    BY FS_Singleton
  <2>2. IsFiniteSet({10} \cup {100})
    BY <2>1, FS_AddElement
  <2>3. IsFiniteSet(({10} \cup {100}) \cup {1000})
    BY <2>2, FS_AddElement
  <2> QED
    BY <2>3, {10, 100, 1000} = ({10} \cup {100}) \cup {1000}
<1>3. IsFiniteSet(D(m))
  BY <1>2, FS_Subset
<1>4. Cardinality(D(n)) <= Cardinality(D(m))
  BY <1>1, <1>3, FS_Subset
<1> QED
  BY <1>4 DEF Decades

LEMMA BandwidthGrows ==
  ASSUME NEW m \in Optional(Nat), NEW n \in Optional(Nat), AtLeast(m, n)
  PROVE  BandwidthScore(n) <= BandwidthScore(m)
<1>0. BandwidthScore(n) \in Int /\ BandwidthScore(m) \in Int
  BY BandwidthRange, OneInt
<1>1. CASE None \in {m, n}
  BY <1>0, <1>1 DEF AtLeast
<1>2. CASE None \notin {m, n}
  <2>1. m \in Nat /\ n \in Nat /\ n <= m
    BY <1>2 DEF AtLeast, Optional
  <2>2. Decades(n) \in 0..3 /\ Decades(m) \in 0..3 /\ Decades(n) <= Decades(m)
    BY <2>1, DecadesType, DecadesGrow
  <2> DEFINE F(k) == Within(Part(1, 10), One, Part(k, 2))
  <2>3. \A k \in 0..3 : F(k) = (CASE k = 0 -> 60 [] k = 1 -> 300 [] OTHER -> 600)
    BY DEF Within, Part, One
  <2>4. \A k \in Nat : k # 0 => BandwidthScore(k) = F(Decades(k))
    BY NoneAssumption DEF BandwidthScore
  <2>5. BandwidthScore(0) = 60
    BY NoneAssumption DEF BandwidthScore, Part, One
  <2> HIDE DEF F
  <2> QED
    BY <2>1, <2>2, <2>3, <2>4, <2>5
<1> QED
  BY <1>1, <1>2

LEMMA HistoryGrows ==
  ASSUME NEW m \in Optional(Nat), NEW n \in Optional(Nat), AtLeast(m, n)
  PROVE  HistoryScore(n) <= HistoryScore(m)
<1>0. HistoryScore(n) \in Int /\ HistoryScore(m) \in Int
  BY HistoryRange, OneInt
<1>1. CASE None \in {m, n}
  BY <1>0, <1>1 DEF AtLeast
<1>2. CASE None \notin {m, n}
  <2>1. m \in Nat /\ n \in Nat /\ n <= m
    BY <1>2 DEF AtLeast, Optional
  <2>2. Decades(n) \in 0..3 /\ Decades(m) \in 0..3 /\ Decades(n) <= Decades(m)
    BY <2>1, DecadesType, DecadesGrow
  <2> DEFINE F(k) == Part(3, 10) + Part(7 * k, 30)
  <2>3. \A k \in 0..3 : F(k) = 180 + 140 * k
    BY DEF Part, One
  <2>4. \A k \in Nat : k # 0 => HistoryScore(k) = F(Decades(k))
    BY NoneAssumption DEF HistoryScore
  <2>5. HistoryScore(0) = 180
    BY NoneAssumption DEF HistoryScore, Part, One
  <2> HIDE DEF F
  <2> QED
    BY <2>1, <2>2, <2>3, <2>4, <2>5
<1> QED
  BY <1>1, <1>2

LEMMA AvailabilityGrows ==
  ASSUME NEW x \in Cards, NEW y \in Cards, x # None, y # None,
         x.first = y.first, y.last <= x.last
  PROVE  Availability(y) <= Availability(x)
<1>1. /\ x.first \in Int /\ x.last \in Int /\ y.last \in Int /\ Now \in Nat
  BY ClockAssumption DEF Cards
<1>2. CASE x.first <= 0 \/ Now <= x.first
  <2>1. Availability(x) = Part(1, 2) /\ Availability(y) = Part(1, 2)
    BY <1>2 DEF Availability
  <2> QED
    BY <2>1 DEF Part, One
<1>3. CASE ~(x.first <= 0 \/ Now <= x.first)
  <2> DEFINE d == Now - x.first
             u == Part(x.last - x.first, d)
             v == Part(y.last - x.first, d)
  <2>1. /\ d \in Nat \ {0} /\ x.last - x.first \in Int /\ y.last - x.first \in Int
        /\ y.last - x.first <= x.last - x.first
    BY <1>1, <1>3
  <2>2. Availability(x) = Within(0, One, u) /\ Availability(y) = Within(0, One, v)
    BY <1>3 DEF Availability
  <2> HIDE DEF d
  <2>3. u \in Int /\ v \in Int /\ v <= u
    BY <2>1, PartInt, PartGrows
  <2> HIDE DEF u, v
  <2>4. Within(0, One, v) <= Within(0, One, u)
    BY <2>3, WithinGrows DEF One
  <2> QED
    BY <2>2, <2>4
<1> QED
  BY <1>2, <1>3

\* The card a data source has of the better one is the better card, and the
\* metadata are the same.
LEMMA SameMeta ==
  ASSUME NEW x, NEW y, AsGood(x, y) PROVE Meta(x) = Meta(y)
<1>1. /\ x.card # None /\ y.card # None /\ x.card["universe"] = y.card["universe"]
      /\ x.meta = y.meta
  BY DEF AsGood
<1>2. MetaFromCard(CardOf(x)) = MetaFromCard(CardOf(y))
  BY <1>1 DEF MetaFromCard, CardOf
<1> QED
  BY <1>1, <1>2 DEF Meta

LEMMA ValueGrows ==
  ASSUME NEW x, NEW y, Datum(x), Datum(y), AsGood(x, y), NEW d \in Dimension
  PROVE  Value(d, y) <= Value(d, x)
<1>1. /\ x.latencies \in Optional(Seq(Int) \ {<<>>})
      /\ y.latencies \in Optional(Seq(Int) \ {<<>>})
      /\ x.successes \in Optional(Nat) /\ y.successes \in Optional(Nat)
      /\ x.errors \in Optional(Nat) /\ y.errors \in Optional(Nat)
      /\ x.total \in Optional(Nat) /\ y.total \in Optional(Nat)
      /\ x.mbps \in Optional(Nat) /\ y.mbps \in Optional(Nat)
      /\ x.trust \in Optional(Int) /\ y.trust \in Optional(Int)
      /\ Tasks(x) \in Optional(Nat) /\ Tasks(y) \in Optional(Nat)
  BY DatumFields, TasksType
<1>2. /\ x.card # None /\ y.card # None /\ x.card \in Cards /\ y.card \in Cards
  BY DatumFields DEF AsGood, Optional
<1>3. /\ AsFast(x.latencies, y.latencies)
      /\ AsOften(x.successes, Tasks(x), y.successes, Tasks(y))
      /\ AsOften(y.errors, Tasks(y), x.errors, Tasks(x))
      /\ AtLeast(x.mbps, y.mbps) /\ AtLeast(x.total, y.total)
      /\ AtLeast(x.trust, y.trust)
      /\ x.card.version = y.card.version /\ x.card.first = y.card.first
      /\ y.card.last <= x.card.last
  BY DEF AsGood
<1>4. Value(d, x) \in Int /\ Value(d, y) \in Int
  BY ValueScores
<1>5. Meta(x) = Meta(y)
  BY SameMeta
<1>6. CASE d = "trust"
  <2>1. Value(d, x) = ClampedTrust(x.trust) /\ Value(d, y) = ClampedTrust(y.trust)
    BY <1>6 DEF Value
  <2> QED
    BY <1>1, <1>3, <2>1, TrustGrows
<1>7. CASE d = "latency"
  <2>1. Value(d, x) = LatencyScore(x.latencies) /\ Value(d, y) = LatencyScore(y.latencies)
    BY <1>7 DEF Value
  <2> QED
    BY <1>1, <1>3, <2>1, LatencyGrows
<1>8. CASE d = "success"
  <2>1. /\ Value(d, x) = SuccessScore(x.successes, Tasks(x))
        /\ Value(d, y) = SuccessScore(y.successes, Tasks(y))
    BY <1>8 DEF Value
  <2> QED
    BY <1>1, <1>3, <2>1, SuccessGrows
<1>9. CASE d = "bandwidth"
  <2>1. Value(d, x) = BandwidthScore(x.mbps) /\ Value(d, y) = BandwidthScore(y.mbps)
    BY <1>9 DEF Value
  <2> QED
    BY <1>1, <1>3, <2>1, BandwidthGrows
<1>10. CASE d \in OfMeta
  <2>1. Value(d, x) = Value(d, y)
    <3>1. CASE d = "auth"
      BY <1>5, <3>1 DEF Value
    <3>2. CASE d = "protocol"
      BY <1>5, <3>2 DEF Value
    <3>3. CASE d = "geo"
      BY <1>5, <3>3 DEF Value
    <3> QED
      BY <1>10, <3>1, <3>2, <3>3 DEF OfMeta
  <2> QED
    BY <1>4, <2>1
<1>11. CASE d = "history"
  <2>1. Value(d, x) = HistoryScore(x.total) /\ Value(d, y) = HistoryScore(y.total)
    BY <1>11 DEF Value
  <2> QED
    BY <1>1, <1>3, <2>1, HistoryGrows
<1>12. CASE d = "errors"
  <2>1. /\ Value(d, x) = ErrorScore(x.errors, Tasks(x))
        /\ Value(d, y) = ErrorScore(y.errors, Tasks(y))
    BY <1>12 DEF Value
  <2> QED
    BY <1>1, <1>3, <2>1, ErrorGrows
<1>13. CASE d \in OfRegistry /\ ~deploy.carded
  <2>1. CardOf(x) = CardOf(y)
    BY <1>13 DEF CardOf
  <2>2. Value(d, x) = Value(d, y)
    <3>1. CASE d = "availability"
      BY <2>1, <3>1 DEF Value
    <3>2. CASE d = "version"
      BY <2>1, <3>2 DEF Value
    <3> QED
      BY <1>13, <3>1, <3>2 DEF OfRegistry
  <2> QED
    BY <1>4, <2>2
<1>14. CASE d = "availability" /\ deploy.carded
  <2>1. Value(d, x) = Availability(x.card) /\ Value(d, y) = Availability(y.card)
    BY <1>14 DEF Value, CardOf
  <2> QED
    BY <1>2, <1>3, <2>1, AvailabilityGrows
<1>15. CASE d = "version" /\ deploy.carded
  <2>1. Value(d, x) = VersionCompat(x.card) /\ Value(d, y) = VersionCompat(y.card)
    BY <1>15 DEF Value, CardOf
  <2>2. VersionCompat(x.card) = VersionCompat(y.card)
    BY <1>2, <1>3 DEF VersionCompat
  <2> QED
    BY <1>4, <2>1, <2>2
<1> QED
  BY <1>6, <1>7, <1>8, <1>9, <1>10, <1>11, <1>12, <1>13, <1>14, <1>15
     DEF Dimension, OfMeta, OfRegistry

LEMMA DimGrows ==
  ASSUME <<deploy, req>> \in Calls, NEW x, NEW y, Datum(x), Datum(y), AsGood(x, y),
         NEW d \in DOMAIN Weights
  PROVE  Dim(d, y) <= Dim(d, x)
<1>1. /\ y.card.skills \subseteq x.card.skills /\ AsFree(x.load, y.load)
      /\ x.card.universe = y.card.universe /\ x.card.region = y.card.region
      /\ x.load \in Optional(Loads) /\ y.load \in Optional(Loads)
  BY DatumFields DEF AsGood
<1>2. CASE d = "skill"
  BY <1>1, <1>2, DimIs, SkillGrows, CallType
<1>3. CASE d = "network"
  <2>1. NetworkPenalty(y.card, req) = NetworkPenalty(x.card, req)
    BY <1>1 DEF NetworkPenalty
  <2>2. NetworkPenalty(x.card, req) \in Int
    BY NetworkRange, OneInt
  <2> QED
    BY <1>3, <2>1, <2>2, DimIs
<1>4. CASE d \in {"health", "load"}
  BY <1>1, <1>4, DimIs, LoadsGrow
<1>5. CASE d \in Dimension
  <2>1. Value(d, y) <= Value(d, x)
    BY <1>5, ValueGrows
  <2>2. Fallback[d] \in Int
    BY <1>5, FallbackRange, OneInt
  <2> QED
    BY <1>5, <2>1, <2>2, DimIs
<1> QED
  BY <1>2, <1>3, <1>4, <1>5, WeightsAre

LEMMA SumGrows ==
  ASSUME NEW v \in [DOMAIN Weights -> Int], NEW w \in [DOMAIN Weights -> Int],
         \A d \in DOMAIN Weights : w[d] <= v[d]
  PROVE  Points(w) <= Points(v)
<1>1. DOMAIN Weights = {"skill", "trust", "health", "latency", "load", "success",
                        "network", "bandwidth", "auth", "protocol", "history", "errors",
                        "availability", "version", "geo"}
  BY DEF Weights
<1>2. \A d \in DOMAIN Weights : v[d] \in Int /\ w[d] \in Int /\ w[d] <= v[d]
  OBVIOUS
<1> DEFINE first(u)  == u["skill"] * 250 + u["trust"] * 200 + u["health"] * 150
                           + u["latency"] * 100 + u["load"] * 80
           second(u) == u["success"] * 70 + u["network"] * 50 + u["bandwidth"] * 30
                           + u["auth"] * 20 + u["protocol"] * 20
           third(u)  == u["history"] * 10 + u["errors"] * 10 + u["availability"] * 5
                           + u["version"] * 5 + u["geo"] * 0
<1>3. first(w) \in Int /\ first(v) \in Int /\ first(w) <= first(v)
  BY <1>1, <1>2
<1>4. second(w) \in Int /\ second(v) \in Int /\ second(w) <= second(v)
  BY <1>1, <1>2
<1>5. third(w) \in Int /\ third(v) \in Int /\ third(w) <= third(v)
  BY <1>1, <1>2
<1>6. /\ Points(w) = first(w) + second(w) + third(w)
      /\ Points(v) = first(v) + second(v) + third(v)
  BY <1>1, <1>2 DEF Points
<1> HIDE DEF first, second, third
<1> QED
  BY <1>3, <1>4, <1>5, <1>6

\* An agent whose data were at least as good as another's throughout the call
\* gets no fewer points, for any data, engine and request, and any order of
\* writes between the reads (scoring.go:107-196 and both data sources).
THEOREM BetterNotLowerCorrect == Spec => []BetterNotLower
<1>1. CallInv /\ RankedDescending => BetterNotLower
  <2> SUFFICES ASSUME CallInv, RankedDescending,
                      NEW p \in DOMAIN scores, NEW q \in DOMAIN scores,
                      Untroubled(scores[p].agent), Untroubled(scores[q].agent),
                      \A x \in shown[scores[p].agent], y \in shown[scores[q].agent] :
                        AsGood(x, y)
               PROVE  scores[q].total <= scores[p].total
    BY DEF BetterNotLower
  <2> DEFINE a == scores[p].agent
             b == scores[q].agent
  <2>1. a \in Agents /\ b \in Agents
    BY ScoreFields DEF CallInv, TypeOK
  <2>2. Earned(a, scores[p].total) /\ Earned(b, scores[q].total)
    <3>1. <<a, scores[p].total>> \in gathered /\ <<b, scores[q].total>> \in gathered
      BY DEF RankedDescending
    <3> QED
      BY <3>1 DEF CallInv, ShownInv, EarnedInv
  <2> HIDE DEF a, b
  <2>3. PICK v \in [DOMAIN Weights -> Int] :
          /\ scores[p].total = Points(v)
          /\ \A d \in DOMAIN Weights : \E x \in shown[a] : v[d] = Dim(d, x)
    BY <2>2 DEF Earned
  <2>4. PICK w \in [DOMAIN Weights -> Int] :
          /\ scores[q].total = Points(w)
          /\ \A d \in DOMAIN Weights : \E y \in shown[b] : w[d] = Dim(d, y)
    BY <2>2 DEF Earned
  <2>5. \A x \in shown[a], y \in shown[b] : Datum(x) /\ Datum(y) /\ AsGood(x, y)
    BY <2>1 DEF CallInv, ShownInv, a, b
  <2>6. ASSUME NEW d \in DOMAIN Weights PROVE w[d] <= v[d]
    <3>1. PICK x \in shown[a] : v[d] = Dim(d, x)
      BY <2>3
    <3>2. PICK y \in shown[b] : w[d] = Dim(d, y)
      BY <2>4
    <3>3. <<deploy, req>> \in Calls
      BY DEF CallInv, TypeOK
    <3>4. Dim(d, y) <= Dim(d, x)
      BY <2>5, <3>3, DimGrows
    <3> QED
      BY <3>1, <3>2, <3>4
  <2> QED
    BY <2>3, <2>4, <2>6, SumGrows
<1> QED
  BY <1>1, CallInit, CallStep, ScoringDescends, PTL DEF Spec

=============================================================================
