------------------------------ MODULE ColdRouting ------------------------------
(***************************************************************************)
(* ColdRoutingPolicy of scheduler/cold_routing.go: whether a request goes  *)
(* to the cold pool (ShouldExplore) and which of the eligible agents it    *)
(* gets (the second half of SelectCold).  A request with an ID hashes it   *)
(* with hashSeed; a request without one steps hashSeed, an LCG.  The seed  *)
(* is read and written by concurrent calls without a lock, so each access  *)
(* is a step.  Words wrap around at Words: when that is a power of two, the *)
(* low bits of the LCG go the same way as in the code's 32.                *)
(***************************************************************************)
EXTENDS Naturals

CONSTANTS
  Words,       \* words of hashSeed's type; 2^32 in the code
  BitXor(_, _), \* the ^ of the code
  Requests,    \* request IDs
  Hash,        \* FNV-1a of each request ID
  NoID,        \* the empty request ID
  Callers,     \* goroutines in pickBest
  Num, Den,    \* ExploreBudget = Num / Den
  Eligible,    \* length of the slice eligible
  Seeds,       \* values of hashSeed normalize leaves
  MaxStreak    \* bound: picks in a row that are told apart

Max32 == Words - 1     \* math.MaxUint32
Word  == 0..Max32

ASSUME ColdRoutingAssumption ==
  /\ Words \in Nat \ {0, 1}
  /\ Hash \in [Requests -> Word] /\ NoID \notin Requests
  /\ \A r \in Requests, word \in Word : BitXor(Hash[r], word) \in Word
  /\ Num \in Nat \ {0} /\ Den \in Nat \ {0} /\ Num <= Den   \* normalize
  /\ Eligible \in Nat \ {0} /\ Seeds \subseteq Word \ {0}
  /\ MaxStreak \in Nat \ {0}

VARIABLES
  hashSeed, pc, loc,
  streak      \* history: picks without ID that gave the same agent in a row

vars == <<hashSeed, pc, loc, streak>>

\* The answer to a call: warm, or cold with the index of an eligible agent.
NoAnswer == <<>>
Warm     == <<"warm">>
Cold(i)  == <<"cold", i>>
Answers  == {NoAnswer, Warm} \cup {Cold(i) : i \in 0..Eligible - 1}

Local == [id   : Requests \cup {NoID},
          read : Word,                        \* the seed as read, or as written
          for  : {"explore", "select"}]       \* what the draw is for

Idle == [id |-> NoID, read |-> 0, for |-> "explore"]

TypeOK ==
  /\ hashSeed \in Word
  /\ pc \in [Callers -> {"idle", "draw", "read", "write", "check", "drawn"}]
  /\ loc \in [Callers -> Local]
  /\ streak \in [agent : Answers, picks : 0..MaxStreak]

Init ==
  /\ hashSeed \in Seeds
  /\ pc = [c \in Callers |-> "idle"]
  /\ loc = [c \in Callers |-> Idle]
  /\ streak = [agent |-> NoAnswer, picks |-> 0]

Goto(c, l) == pc' = [pc EXCEPT ![c] = l]

\* draw < ExploreBudget, with draw = word / MaxUint32.
Explores(word) == word * Den < Num * Max32

\* Mutant: no overflow.
LcgWide(word) == word * (1664525 % Words) + (1013904223 % Words)

\* The multiplier and increment of Numerical Recipes.
Lcg(word) == (word * (1664525 % Words) + (1013904223 % Words)) % Words

-----------------------------------------------------------------------------
Begin(c) ==
  /\ pc[c] = "idle"
  /\ \E r \in Requests \cup {NoID} :
       /\ loc' = [loc EXCEPT ![c] = [Idle EXCEPT !.id = r]]
       /\ Goto(c, IF r = NoID THEN "read" ELSE "draw")
  /\ UNCHANGED <<hashSeed, streak>>

Answer(c, a) ==
  /\ Goto(c, "idle")
  /\ loc' = [loc EXCEPT ![c] = Idle]
  /\ streak' = IF loc[c].id # NoID \/ a = Warm THEN streak
               ELSE [agent |-> a,
                     picks |-> IF a # streak.agent THEN 1
                               ELSE IF streak.picks < MaxStreak
                                    THEN streak.picks + 1 ELSE MaxStreak]

\* What a word decides: explore or not, or which of the eligible agents.
Decide(c, word, next) ==
  IF loc[c].for = "select" THEN Answer(c, Cold(word % Eligible))
  ELSE IF Explores(word)
       THEN /\ loc' = [loc EXCEPT ![c].for = "select"]
            /\ Goto(c, next) /\ UNCHANGED streak
       ELSE Answer(c, Warm)

\* With an ID both decisions are taken from its hash and the seed.
DrawKeyed(c) ==
  /\ pc[c] = "draw"
  /\ Decide(c, BitXor(Hash[loc[c].id], hashSeed), "draw")
  /\ UNCHANGED hashSeed

\* Without, each decision steps the seed.
StepRead(c) ==
  /\ pc[c] = "read"
  /\ loc' = [loc EXCEPT ![c].read = hashSeed]
  /\ Goto(c, "write")
  /\ UNCHANGED <<hashSeed, streak>>

StepWrite(c) ==
  /\ pc[c] = "write"
  /\ hashSeed' = Lcg(loc[c].read)
  /\ loc' = [loc EXCEPT ![c].read = hashSeed']
  /\ Goto(c, "check")
  /\ UNCHANGED streak

\* Mutant: the seed stays as it is.
StepNoCheck(c) ==
  /\ pc[c] = "check"
  /\ Goto(c, "drawn")
  /\ UNCHANGED <<hashSeed, loc, streak>>

\* A seed of 0 becomes 1: the seed just written, or what others made of it.
StepCheck(c) ==
  /\ pc[c] = "check"
  /\ \E word \in {loc[c].read, hashSeed} :
       IF word = 0
       THEN hashSeed' = 1 /\ loc' = [loc EXCEPT ![c].read = 1]
       ELSE UNCHANGED <<hashSeed, loc>>
  /\ Goto(c, "drawn")
  /\ UNCHANGED streak

\* The word drawn: the same choice.
Drawn(c) ==
  /\ pc[c] = "drawn"
  /\ \E word \in {loc[c].read, hashSeed} : Decide(c, word, "read")
  /\ UNCHANGED hashSeed

Next == \E c \in Callers :
          Begin(c) \/ DrawKeyed(c) \/ StepRead(c) \/ StepWrite(c)
          \/ StepCheck(c) \/ Drawn(c)

Spec == Init /\ [][Next]_vars

-----------------------------------------------------------------------------
(* Properties. *)

\* The seed is 0 only while the caller that made it 0 has not checked yet, also
\* when others overwrite it, read it or write it back in between.
ZeroIsMended == hashSeed = 0 => \E c \in Callers : pc[c] = "check"

\* cold_routing.go:180: requests without an ID are spread evenly over the
\* eligible agents: sixteen picks in a row do not all go to one of them.
PicksSpread == Eligible > 1 => streak.picks < 16

=============================================================================
