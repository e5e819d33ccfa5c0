------------------------------- MODULE Dimensions -------------------------------
(***************************************************************************)
(* The curves of the fifteen dimensions: scheduler/scoring.go and the two  *)
(* data sources.  1.0 is One points, so that the curves' constants and the *)
(* ratios of small counts are whole numbers.  Logarithms are exact on the  *)
(* values taken: a latency is its position on the code's log scale, with 0 *)
(* at 100 ms and 4 at 5 s; a bandwidth and a number of tasks are powers of *)
(* ten.  None is an absent key, a nil pointer or an empty string.          *)
(***************************************************************************)
EXTENDS Integers, Sequences, FiniteSets, SequencesExt

CONSTANTS
  None,
  Now,             \* time.Now().Unix()
  KernelVersion,   \* config.KernelVersion, as parseSemver reads it
  Preferred        \* config.PreferredProtocols

ASSUME NoneAssumption == None \notin Int
ASSUME ClockAssumption == Now \in Nat
ASSUME VersionAssumption == KernelVersion \in (Nat \X Nat) \cup {None}
ASSUME PreferredAssumption == Preferred \subseteq STRING /\ IsFiniteSet(Preferred)

One == 600
Part(n, d) == (One * n) \div d
Within(lo, hi, x) == IF x < lo THEN lo ELSE IF x > hi THEN hi ELSE x

\* Each repetition of a required skill counts.
SkillMatch(skills, required) ==
  IF required = <<>> THEN One
  ELSE Part(Cardinality({k \in DOMAIN required : required[k] \in skills}),
            Len(required))

\* cpu and memory are in quarters.
HealthScore(load) ==
  IF load = None THEN Part(1, 2) ELSE Part(8 - load.cpu - load.memory, 8)

\* Mutant: the rate itself.
LoadScoreRate(load) ==
  IF load = None \/ load.capacity = 0 THEN Part(1, 2)
  ELSE Part(load.active, load.capacity)

LoadScore(load) ==
  IF load = None \/ load.capacity = 0 THEN Part(1, 2)
  ELSE One - Part(load.active, load.capacity)

\* Another universe costs 0.3, another region of the same universe 0.05.
NetworkPenalty(card, source) ==
  CASE source.universe = None -> One
    [] source.universe \notin {None, card.universe} -> Part(7, 10)
    [] OTHER -> IF Cardinality({card.region, source.labels} \ {None}) = 2
                THEN Part(95, 100) ELSE One

\* TrustScore of the two sources; WauTrustDataSource passes the engine's on.
ClampedTrust(trust) ==
  IF trust = None THEN Part(1, 2) ELSE Within(0, One, trust)

\* percentile: the index is rounded down, so that of up to a hundred values
\* the second largest is taken.  The value at index k of the sorted copy is the
\* least one that more than k of the values do not exceed.
Percentile99(values) ==
  LET beyond(v) == Cardinality({n \in DOMAIN values : values[n] <= v})
                     > ((Len(values) - 1) * 99) \div 100
  IN  CHOOSE v \in Range(values) :
        beyond(v) /\ \A w \in Range(values) : beyond(w) => v <= w

LatencyScore(values) ==
  IF values = None THEN One
  ELSE One - Part(Within(0, 4, Percentile99(values)), 4)

\* Seven tenths the rate and three tenths a half; neutral without tasks.
SuccessScore(successes, tasks) ==
  IF None \in {successes, tasks} \/ tasks = 0 THEN Part(1, 2)
  ELSE Part(7 * successes, 10 * tasks) + Part(3, 20)

ErrorScore(errors, tasks) ==
  IF None \in {errors, tasks} \/ tasks = 0 THEN One ELSE One - Part(errors, tasks)

\* The largest k <= 3 with 10^k <= n, of a number that is not 0.
Decades(n) == Cardinality({p \in {10, 100, 1000} : p <= n})

BandwidthScore(mbps) ==
  CASE mbps = None -> One
    [] mbps = 0 -> Part(1, 10)
    [] OTHER -> Within(Part(1, 10), One, Part(Decades(mbps), 2))

\* A first task costs an agent points: none is 0.3, no record 0.5.
HistoryScore(total) ==
  CASE total = None -> Part(1, 2)
    [] total = 0 -> Part(3, 10)
    [] OTHER -> Part(3, 10) + Part(7 * Decades(total), 30)

Protocols(source, wrapped) ==
  IF source = "redis" /\ ~wrapped THEN Preferred ELSE {"A2A", "AFP"}

\* Each repetition of an interface counts.
ProtocolCompat(interfaces, preferred) ==
  LET match == {k \in DOMAIN interfaces : interfaces[k] \in preferred}
  IN IF match = {} THEN 0 ELSE Part(Cardinality(match), Cardinality(preferred))

\* A card without FirstSeen, or one from the future, is neutral.
Availability(card) ==
  CASE card = None -> One
    [] card # None /\ (card.first <= 0 \/ Now <= card.first) -> Part(1, 2)
    [] OTHER -> Within(0, One, Part(card.last - card.first, Now - card.first))

\* Another major version 0, else 0.2 less per minor one, and 0.3 from three on.
VersionCompat(card) ==
  IF card = None \/ None \in {card.version, KernelVersion} THEN One
  ELSE LET diff == card.version[2] - KernelVersion[2]
           far  == IF diff < 0 THEN -diff ELSE diff
       IN CASE card.version[1] # KernelVersion[1] -> 0
            [] card.version[1] = KernelVersion[1] /\ far >= 3 -> Part(3, 10)
            [] OTHER -> One - Part(far, 5)

GeoPenalty(region, sourceRegion) ==
  IF Cardinality({region, sourceRegion} \ {None}) = 2 THEN Part(9, 10) ELSE One

\* DefaultAgentMeta, and agentMetaFromCard: the universe serves as region.
DefaultMeta == [auth |-> One, interfaces |-> <<"A2A">>, region |-> "default"]

MetaFromCard(card) ==
  IF card = None \/ card.universe = None THEN DefaultMeta
  ELSE [DefaultMeta EXCEPT !.region = card.universe]

\* DefaultWeights, in thousandths.
Weights == [skill |-> 250, trust |-> 200, health |-> 150, latency |-> 100,
            load |-> 80, success |-> 70, network |-> 50, bandwidth |-> 30,
            auth |-> 20, protocol |-> 20, history |-> 10, errors |-> 10,
            availability |-> 5, version |-> 5, geo |-> 0]

\* Mutant: an unknown rate is the worst one.
FallbackZero == [trust |-> Part(1, 2), latency |-> One, success |-> 0,
                 bandwidth |-> One, auth |-> One, protocol |-> One,
                 history |-> Part(1, 2), errors |-> One, availability |-> One,
                 version |-> One, geo |-> One]

\* What scoring.go takes without a DataSource, or when a read fails.
Fallback == [trust |-> Part(1, 2), latency |-> One, success |-> Part(1, 2),
             bandwidth |-> One, auth |-> One, protocol |-> One,
             history |-> Part(1, 2), errors |-> One, availability |-> One,
             version |-> One, geo |-> One]
=============================================================================
