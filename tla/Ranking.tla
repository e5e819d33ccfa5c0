-------------------------------- MODULE Ranking --------------------------------
(***************************************************************************)
(* The second half of ScoringEngine.ScoreAgents (scheduler/scoring.go):    *)
(* the collected scores are put in order by exchanges, one comparison a    *)
(* step, and ranked.  How a score comes about is left open here; module    *)
(* Scoring fills it in.                                                    *)
(***************************************************************************)
EXTENDS Integers, Sequences

CONSTANT Agents   \* agent IDs

VARIABLES
  phase,      \* of the call of ScoreAgents
  scores,     \* the slice it returns
  i, j,       \* the loop variables, from 1
  gathered    \* history: what the collecting loop appended

rankVars == <<phase, scores, i, j, gathered>>

AgentScore == [agent : Agents, total : Int, rank : Nat]

RankType ==
  /\ phase \in {"idle", "collect", "sort", "done", "panicked"}
  /\ scores \in Seq(AgentScore)
  /\ i \in Nat \ {0} /\ j \in Nat \ {0}
  /\ gathered \subseteq Agents \X Int

RankInit ==
  /\ phase = "idle"
  /\ scores = <<>> /\ i = 1 /\ j = 2
  /\ gathered = {}

-----------------------------------------------------------------------------
(* The actions. *)

\* Goto and what stays.
Enter(p) == phase' = p /\ UNCHANGED <<scores, i, j, gathered>>

Begin == phase = "idle" /\ Enter("collect")

Collected(a) == \E k \in DOMAIN scores : scores[k].agent = a

\* The scoring loop appends one agent's score.
Collect(a, t) ==
  /\ phase = "collect" /\ ~Collected(a)
  /\ scores' = Append(scores, [agent |-> a, total |-> t, rank |-> 0])
  /\ gathered' = gathered \cup {<<a, t>>}
  /\ UNCHANGED <<phase, i, j>>

\* A card without a value is read: the goroutine dies.
Panic == phase = "collect" /\ Enter("panicked")

\* Every agent has been scored or skipped.
StartSort == phase = "collect" /\ Enter("sort")

Swapped == [scores EXCEPT ![i] = scores[j], ![j] = scores[i]]

\* Mutant: the last element is never compared.
CompareShort ==
  /\ phase = "sort" /\ i <= Len(scores) /\ j <= Len(scores)
  /\ scores' = IF j < Len(scores) /\ scores[j].total > scores[i].total
               THEN Swapped ELSE scores
  /\ j' = j + 1
  /\ UNCHANGED <<phase, i, gathered>>

\* The body of the inner loop.
Compare ==
  /\ phase = "sort" /\ i <= Len(scores) /\ j <= Len(scores)
  /\ scores' = IF scores[j].total > scores[i].total THEN Swapped ELSE scores
  /\ j' = j + 1
  /\ UNCHANGED <<phase, i, gathered>>

NextRow ==
  /\ phase = "sort" /\ i <= Len(scores) /\ j > Len(scores)
  /\ i' = i + 1 /\ j' = i + 2
  /\ UNCHANGED <<phase, scores, gathered>>

SetRanks ==
  /\ phase = "sort" /\ i > Len(scores)
  /\ phase' = "done"
  /\ scores' = [k \in DOMAIN scores |-> [scores[k] EXCEPT !.rank = k]]
  /\ UNCHANGED <<i, j, gathered>>

\* Any total may be collected: the one that is found in the new slice.
RankNext ==
  \/ Begin \/ Panic \/ StartSort \/ Compare \/ NextRow \/ SetRanks
  \/ \E a \in Agents, t \in {scores'[k].total : k \in DOMAIN scores'} :
       t \in Int /\ Collect(a, t)

RankSpec == RankInit /\ [][RankNext]_rankVars

-----------------------------------------------------------------------------
(* Properties. *)

Descending(p, q) == scores[q].total <= scores[p].total

\* The exchanges lose no score and double none, and at the end nobody stands
\* before an agent with more points; ranks count from 1 (scoring.go:72-86).
RankedDescending ==
  /\ gathered = {<<scores[k].agent, scores[k].total>> : k \in DOMAIN scores}
  /\ \A p, q \in DOMAIN scores : p # q => scores[p].agent # scores[q].agent
  /\ phase = "done" =>
       \A p \in DOMAIN scores :
         /\ scores[p].rank = p
         /\ \A q \in DOMAIN scores : p < q => Descending(p, q)

\* Between two comparisons: the rows before i are final, and so far row i has
\* kept the most points of what it was compared with.
SortInv ==
  /\ phase \in {"idle", "collect"} => i = 1 /\ j = 2
  /\ phase = "sort" =>
       /\ \A p, q \in DOMAIN scores : p < i /\ p < q => Descending(p, q)
       /\ i <= Len(scores) => j > i
       /\ \A q \in DOMAIN scores : i < q /\ q < j => Descending(i, q)

=============================================================================
