--------------------------- MODULE ColdRoutingProofs ---------------------------
(***************************************************************************)
(* Proofs about ColdRouting, for any width of the words, any hash, any     *)
(* number of callers and eligible agents.                                  *)
(***************************************************************************)
EXTENDS ColdRouting, TLAPS

\* A step of the LCG stays within the words.
LEMMA LcgType == \A word \in Word : Lcg(word) \in Word
<1>1. Words \in Nat \ {0, 1}
  BY ColdRoutingAssumption
<1>2. ASSUME NEW word \in Word
      PROVE  word * (1664525 % Words) + (1013904223 % Words) \in Nat
  <2>1. word \in Nat /\ 1664525 % Words \in Nat /\ 1013904223 % Words \in Nat
    BY <1>1 DEF Word, Max32
  <2>2. \A i, j, k \in Nat : i * j + k \in Nat
    OBVIOUS
  <2> QED
    BY <2>1, <2>2
<1>3. \A i \in Nat : i % Words \in Word
  BY <1>1 DEF Word, Max32
<1> QED
  BY <1>2, <1>3 DEF Lcg

\* What a request with an ID draws from.
Keyed(id) == BitXor(Hash[id], hashSeed)

LEMMA KeyedType == \A id \in Requests : hashSeed \in Word => Keyed(id) \in Word
BY ColdRoutingAssumption DEF Keyed

\* The agent a word picks is one of the eligible.
LEMMA ColdType == \A word \in Word : Cold(word % Eligible) \in Answers
<1>1. Words \in Nat \ {0, 1} /\ Eligible \in Nat \ {0}
  BY ColdRoutingAssumption
<1>2. \A word \in Word : word % Eligible \in 0..Eligible - 1
  BY <1>1 DEF Word, Max32
<1> QED
  BY <1>2 DEF Answers

-----------------------------------------------------------------------------
\* An answer and a decision leave the state well typed.
LEMMA AnswerType ==
  ASSUME TypeOK, NEW c \in Callers, NEW a \in Answers, Answer(c, a)
  PROVE  /\ pc' \in [Callers -> {"idle", "draw", "read", "write", "check", "drawn"}]
         /\ loc' \in [Callers -> Local]
         /\ streak' \in [agent : Answers, picks : 0..MaxStreak]
<1>1. Idle \in Local
  BY ColdRoutingAssumption DEF Idle, Local, Word, Max32
<1>3. MaxStreak \in Nat \ {0}
  BY ColdRoutingAssumption
<1>4. loc' \in [Callers -> Local]
  BY <1>1 DEF Answer, TypeOK
<1>6. streak' \in [agent : Answers, picks : 0..MaxStreak]
  <2>1. streak.agent \in Answers /\ streak.picks \in 0..MaxStreak
    BY DEF TypeOK
  <2>2. CASE streak' = streak
    BY <2>2 DEF TypeOK
  <2>3. CASE streak' = [agent |-> a,
                        picks |-> IF a # streak.agent THEN 1
                                  ELSE IF streak.picks < MaxStreak
                                       THEN streak.picks + 1 ELSE MaxStreak]
    BY <1>3, <2>1, <2>3
  <2> QED
    BY <2>2, <2>3 DEF Answer
<1> QED
  BY <1>4, <1>6 DEF Answer, Goto, TypeOK

LEMMA DecideType ==
  ASSUME TypeOK, NEW c \in Callers, NEW word \in Word,
         NEW next \in {"draw", "read"}, Decide(c, word, next)
  PROVE  /\ pc' \in [Callers -> {"idle", "draw", "read", "write", "check", "drawn"}]
         /\ loc' \in [Callers -> Local]
         /\ streak' \in [agent : Answers, picks : 0..MaxStreak]
<1>1. CASE \E a \in Answers : Answer(c, a)
  BY <1>1, AnswerType
<1>2. CASE /\ loc' = [loc EXCEPT ![c].for = "select"]
           /\ Goto(c, next) /\ UNCHANGED streak
  <2>1. loc' \in [Callers -> Local]
    BY <1>2 DEF TypeOK, Local
  <2> QED
    BY <1>2, <2>1 DEF Goto, TypeOK
<1>3. Warm \in Answers /\ Cold(word % Eligible) \in Answers
  BY ColdType DEF Answers
<1> QED
  BY <1>1, <1>2, <1>3 DEF Decide

-----------------------------------------------------------------------------
(* The invariant.                                                           *)

\* Who draws from a hash has an ID; who steps the seed has none.
Keys ==
  \A c \in Callers :
    /\ pc[c] = "draw" => loc[c].id \in Requests
    /\ pc[c] \in {"read", "write", "check", "drawn"} => loc[c].id = NoID

\* A seed of 0 has a witness: the caller that wrote it and still holds it.
ZeroHeld == hashSeed = 0 => \E c \in Callers : pc[c] = "check" /\ loc[c].read = 0

IInv == TypeOK /\ Keys /\ ZeroHeld

LEMMA InitTyped == Init => TypeOK
<1> SUFFICES ASSUME Init PROVE TypeOK
  OBVIOUS
<1>1. Idle \in Local
  BY ColdRoutingAssumption DEF Idle, Local, Word, Max32
<1>2. hashSeed \in Word /\ MaxStreak \in Nat
  BY ColdRoutingAssumption DEF Init
<1>3. streak \in [agent : Answers, picks : 0..MaxStreak]
  BY <1>2 DEF Init, Answers
<1> QED
  BY <1>1, <1>2, <1>3 DEF Init, TypeOK, Answers

\* A step leaves the state well typed, whatever others did to the seed.
LEMMA StepTyped ==
  ASSUME TypeOK, Keys, [Next]_vars PROVE TypeOK'
<1>n. /\ 0 \in Word /\ 1 \in Word /\ hashSeed \in Word
      /\ \A c \in Callers : loc[c] \in Local
  BY ColdRoutingAssumption DEF Word, Max32, TypeOK
<1>1. ASSUME NEW c \in Callers, Begin(c) PROVE TypeOK'
  <2>1. PICK r \in Requests \cup {NoID} :
          /\ loc' = [loc EXCEPT ![c] = [Idle EXCEPT !.id = r]]
          /\ Goto(c, IF r = NoID THEN "read" ELSE "draw")
    BY <1>1 DEF Begin
  <2>2. [Idle EXCEPT !.id = r] \in Local
    BY <1>n DEF Idle, Local
  <2> QED
    BY <1>1, <2>1, <2>2 DEF Begin, Goto, TypeOK
<1>2. ASSUME NEW c \in Callers, DrawKeyed(c) PROVE TypeOK'
  <2>1. loc[c].id \in Requests
    BY <1>2 DEF DrawKeyed, Keys
  <2>2. Keyed(loc[c].id) \in Word
    BY <1>n, <2>1, KeyedType
  <2> QED
    BY <1>2, <1>n, <2>2, DecideType DEF DrawKeyed, Keyed, TypeOK
<1>3. ASSUME NEW c \in Callers, StepRead(c) PROVE TypeOK'
  <2>1. loc' \in [Callers -> Local]
    BY <1>3, <1>n DEF StepRead, TypeOK, Local
  <2> QED
    BY <1>3, <2>1 DEF StepRead, Goto, TypeOK
<1>4. ASSUME NEW c \in Callers, StepWrite(c) PROVE TypeOK'
  <2>1. hashSeed' \in Word
    BY <1>4, <1>n, LcgType DEF StepWrite, Local
  <2>2. loc' \in [Callers -> Local]
    BY <1>4, <1>n, <2>1 DEF StepWrite, TypeOK, Local
  <2> QED
    BY <1>4, <2>1, <2>2 DEF StepWrite, Goto, TypeOK
<1>5. ASSUME NEW c \in Callers, StepCheck(c) PROVE TypeOK'
  <2>1. /\ Goto(c, "drawn") /\ UNCHANGED streak
        /\ \/ hashSeed' = 1 /\ loc' = [loc EXCEPT ![c].read = 1]
           \/ UNCHANGED <<hashSeed, loc>>
    BY <1>5 DEF StepCheck
  <2>2. loc' \in [Callers -> Local]
    BY <1>n, <2>1 DEF TypeOK, Local
  <2> QED
    BY <1>n, <2>1, <2>2 DEF Goto, TypeOK
<1>6. ASSUME NEW c \in Callers, Drawn(c) PROVE TypeOK'
  <2>1. PICK word \in {loc[c].read, hashSeed} : Decide(c, word, "read")
    BY <1>6 DEF Drawn
  <2>2. word \in Word
    BY <1>n, <2>1 DEF Local
  <2> QED
    BY <1>6, <1>n, <2>1, <2>2, DecideType DEF Drawn, TypeOK
<1>7. CASE UNCHANGED vars
  BY <1>7 DEF vars, TypeOK
<1> QED
  BY <1>1, <1>2, <1>3, <1>4, <1>5, <1>6, <1>7 DEF Next

\* A seed of 0 keeps its witness until somebody sets it to 1.
LEMMA StepZeroHeld ==
  ASSUME TypeOK, ZeroHeld, [Next]_vars PROVE ZeroHeld'
<1> SUFFICES ASSUME hashSeed' = 0
             PROVE  \E d \in Callers : pc'[d] = "check" /\ loc'[d].read = 0
  BY DEF ZeroHeld
<1>1. ASSUME NEW c \in Callers, StepWrite(c)
      PROVE  pc'[c] = "check" /\ loc'[c].read = hashSeed'
  BY <1>1 DEF StepWrite, Goto, TypeOK, Local
<1>2. ASSUME NEW c \in Callers, UNCHANGED hashSeed,
             \/ Begin(c) \/ DrawKeyed(c) \/ StepRead(c) \/ StepCheck(c) \/ Drawn(c)
      PROVE  \E d \in Callers : pc'[d] = "check" /\ loc'[d].read = 0
  <2>1. PICK d \in Callers : pc[d] = "check" /\ loc[d].read = 0
    BY <1>2 DEF ZeroHeld
  <2>2. CASE StepCheck(c)
    <3>1. \E word \in {loc[c].read, hashSeed} : word # 0
      BY <1>2, <2>2 DEF StepCheck
    <3>2. d # c
      BY <1>2, <2>1, <3>1
    <3>3. UNCHANGED loc /\ pc'[d] = pc[d]
      BY <1>2, <2>2, <3>2 DEF StepCheck, Goto, TypeOK
    <3> QED
      BY <2>1, <3>3
  <2>3. CASE Begin(c) \/ DrawKeyed(c) \/ StepRead(c) \/ Drawn(c)
    <3>1. pc[c] # "check"
      BY <2>3 DEF Begin, DrawKeyed, StepRead, Drawn
    <3>2. pc'[d] = pc[d] /\ loc'[d] = loc[d]
      BY <2>1, <2>3, <3>1 DEF Begin, DrawKeyed, StepRead, Drawn, Decide, Answer, Goto, TypeOK
    <3> QED
      BY <2>1, <3>2
  <2> QED
    BY <1>2, <2>2, <2>3
<1>3. ASSUME NEW c \in Callers, StepCheck(c), ~UNCHANGED hashSeed PROVE FALSE
  BY <1>3 DEF StepCheck
<1>4. CASE UNCHANGED vars
  BY <1>4 DEF vars, ZeroHeld
<1>5. ASSUME NEW c \in Callers, Begin(c) \/ DrawKeyed(c) \/ StepRead(c) \/ Drawn(c)
      PROVE  UNCHANGED hashSeed
  BY <1>5 DEF Begin, DrawKeyed, StepRead, Drawn
<1> QED
  BY <1>1, <1>2, <1>3, <1>4, <1>5 DEF Next

\* Whoever takes a step leaves the other calls where they are.
LEMMA StepKeys ==
  ASSUME TypeOK, Keys, [Next]_vars PROVE Keys'
<1> SUFFICES ASSUME NEW d \in Callers
             PROVE  /\ pc'[d] = "draw" => loc'[d].id \in Requests
                    /\ pc'[d] \in {"read", "write", "check", "drawn"} => loc'[d].id = NoID
  BY DEF Keys
<1>k. /\ pc[d] = "draw" => loc[d].id \in Requests
      /\ pc[d] \in {"read", "write", "check", "drawn"} => loc[d].id = NoID
  BY DEF Keys
<1>1. ASSUME NEW c \in Callers, Begin(c)
      PROVE  \/ pc'[d] = pc[d] /\ loc'[d].id = loc[d].id
             \/ pc'[d] = "draw" /\ loc'[d].id \in Requests
             \/ pc'[d] = "read" /\ loc'[d].id = NoID
  <2>1. PICK r \in Requests \cup {NoID} :
          /\ loc' = [loc EXCEPT ![c] = [Idle EXCEPT !.id = r]]
          /\ Goto(c, IF r = NoID THEN "read" ELSE "draw")
    BY <1>1 DEF Begin
  <2>2. [Idle EXCEPT !.id = r].id = r
    BY DEF Idle
  <2> QED
    BY <2>1, <2>2 DEF Goto, TypeOK
<1>2. ASSUME NEW c \in Callers, NEW word, NEW next \in {"draw", "read"},
             Decide(c, word, next)
      PROVE  \/ pc'[d] = pc[d] /\ loc'[d].id = loc[d].id
             \/ c = d /\ pc'[d] = "idle"
             \/ c = d /\ pc'[d] = next /\ loc'[d].id = loc[d].id
  BY <1>2 DEF Decide, Answer, Goto, TypeOK, Local
<1>3. ASSUME NEW c \in Callers, StepRead(c) \/ StepWrite(c) \/ StepCheck(c)
      PROVE  /\ loc'[d].id = loc[d].id
             /\ \/ pc'[d] = pc[d]
                \/ c = d /\ pc[d] \in {"read", "write", "check"}
                         /\ pc'[d] \in {"write", "check", "drawn"}
  <2>1. loc'[d].id = loc[d].id
    <3>1. CASE StepRead(c)
      BY <3>1 DEF StepRead, TypeOK, Local
    <3>2. CASE StepWrite(c)
      BY <3>2 DEF StepWrite, TypeOK, Local
    <3>3. CASE StepCheck(c)
      BY <3>3 DEF StepCheck, TypeOK, Local
    <3> QED
      BY <1>3, <3>1, <3>2, <3>3
  <2> QED
    BY <1>3, <2>1 DEF StepRead, StepWrite, StepCheck, Goto, TypeOK
<1>4. ASSUME NEW c \in Callers, DrawKeyed(c)
      PROVE  pc[c] = "draw" /\ Decide(c, Keyed(loc[c].id), "draw")
  BY <1>4 DEF DrawKeyed, Keyed
<1>5. ASSUME NEW c \in Callers, Drawn(c)
      PROVE  pc[c] = "drawn" /\ \E word : Decide(c, word, "read")
  BY <1>5 DEF Drawn
<1>6. CASE UNCHANGED vars
  BY <1>6, <1>k DEF vars
<1> QED
  BY <1>1, <1>2, <1>3, <1>4, <1>5, <1>6, <1>k DEF Next

-----------------------------------------------------------------------------
\* What holds in every state, for any hash, any width and any number of callers.
THEOREM ColdRoutingInv == Spec => []IInv
<1>1. Init => IInv
  <2>1. Init => Keys /\ ZeroHeld
    BY ColdRoutingAssumption DEF Init, Keys, ZeroHeld
  <2> QED
    BY <2>1, InitTyped DEF IInv
<1>2. IInv /\ [Next]_vars => IInv'
  BY StepTyped, StepKeys, StepZeroHeld DEF IInv
<1> QED
  BY <1>1, <1>2, PTL DEF Spec

\* The seed stays a word, each call at one of its places with a well-typed
\* answer, whatever the others did to the seed in between.
THEOREM ColdRoutingTyped == Spec => []TypeOK
<1>1. IInv => TypeOK
  BY DEF IInv
<1> QED
  BY <1>1, ColdRoutingInv, PTL

\* A seed of 0, with which every draw is cold, is one whose writer is about to
\* mend it: no interleaving of steps leaves it behind.
THEOREM ZeroMended == Spec => []ZeroIsMended
<1>1. IInv => ZeroIsMended
  BY DEF IInv, ZeroHeld, ZeroIsMended
<1> QED
  BY <1>1, ColdRoutingInv, PTL

=============================================================================
