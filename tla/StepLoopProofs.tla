--------------------------- MODULE StepLoopProofs ---------------------------
(***************************************************************************)
(* The properties of StepLoop, proved for any length of episode, any       *)
(* thresholds, any rescue budget and any settings.                         *)
(***************************************************************************)
EXTENDS StepLoop, FiniteSetTheorems, WellFoundedInduction, TLAPS

Asking == {"generate", "rescue"}
Acting == {"act", "evaluate"}
Scoring == {"collect", "returned"}

\* How many steps there are.
LengthInv ==
  /\ phase \in Asking => Len(steps) < MaxSteps
  /\ phase \in Acting \cup Scoring => steps # <<>>

Called == {i \in DOMAIN steps : steps[i].called}

\* The budget, and what is left of the cooldown after a rescue.
RescueInv ==
  /\ Cardinality(Called) <= calls
  /\ phase = "rescue" => Cardinality(Called) < calls /\ cooldown = 0
  /\ \A i \in DOMAIN steps :
       steps[i].applied => cooldown + (Len(steps) - i) >= CooldownSteps
  /\ \A i, j \in DOMAIN steps :
       i < j /\ steps[i].applied /\ steps[j].called => j - i > CooldownSteps

\* Who has a query, and who may be running.
QueryInv ==
  /\ queries = IF config.teacher THEN Rows ELSE {}
  /\ steps # <<>> => ~steps[1].skipped
  /\ live \subseteq {Query(i) : i \in queries}
                      \cup {Judgement(i) : i \in judgements}
  /\ phase \in {"stopping", "returned", "raised"} =>
       live \subseteq {Query(i) : i \in queries}
  /\ phase = "raised" => live = {}

\* Every step before the one at hand has a score or a task that will give it.
ScoreInv ==
  /\ phase \in Asking \cup Acting \cup {"collect"} =>
       \A i \in DOMAIN steps :
         i < Len(steps) \/ phase \in Asking =>
           /\ steps[i].score # "final"
           /\ steps[i].score # "none" \/ i \in judgements
  /\ phase \in Acting => steps[Len(steps)].score = "none"
  /\ phase \in Acting \cup {"collect"} => Len(steps) \notin judgements
  /\ phase = "collect" => steps[Len(steps)].score = "final"
  /\ phase = "returned" =>
       \A i \in DOMAIN steps :
         /\ steps[i].score # "none"
         /\ steps[i].score = "final" <=> i = Len(steps)

Inv ==
  /\ StepTypeOK
  /\ LengthInv
  /\ RescueInv
  /\ QueryInv
  /\ ScoreInv
  /\ LoopsAreExecuted

LEMMA InvInit == Init => Inv
<1> SUFFICES ASSUME Init PROVE Inv
  OBVIOUS
<1> USE StepLoopAssumption
<1>1. StepTypeOK
  BY DEF Init, StepTypeOK, Phase, Proposal, Action
<1>2. LengthInv
  BY DEF Init, LengthInv, Asking, Acting, Scoring
<1>3. RescueInv
  <2>1. Called = {}
    BY DEF Init, Called
  <2>2. QED
    BY <2>1, FS_EmptySet DEF Init, RescueInv
<1>4. QueryInv
  BY DEF Init, QueryInv, Rows
<1>5. ScoreInv
  BY DEF Init, ScoreInv, Asking, Acting
<1>6. LoopsAreExecuted
  BY DEF Init, LoopsAreExecuted
<1>7. QED
  BY <1>1, <1>2, <1>3, <1>4, <1>5, <1>6 DEF Inv

-----------------------------------------------------------------------------
(* The history of the steps: all of a step but its score and its flag       *)
(* `skipped' is written once.                                               *)

Kept(s, t) ==
  /\ s.screen = t.screen /\ s.action = t.action /\ s.valid = t.valid
  /\ s.called = t.called /\ s.applied = t.applied /\ s.looped = t.looped

\* What Settle makes of the steps.
LEMMA SettleSteps ==
  ASSUME StepTypeOK, NEW p \in Proposal, NEW called \in BOOLEAN,
         NEW applied \in BOOLEAN, Settle(p, called, applied)
  PROVE  /\ steps' \in Seq(Step)
         /\ Len(steps') = Len(steps) + 1
         /\ DOMAIN steps' = 1 .. Len(steps) + 1
         /\ \A j \in 1 .. Len(steps) :
              /\ Kept(steps[j], steps'[j])
              /\ steps'[j].score = steps[j].score
              /\ steps'[j].skipped <=> steps[j].skipped \/ j \in Repeated(p)
         /\ Kept(NewStep(p, called, applied), steps'[Len(steps) + 1])
         /\ steps'[Len(steps) + 1].score = "none"
         /\ steps'[Len(steps) + 1].skipped <=> Len(steps) + 1 \in Repeated(p)
<1> DEFINE n == Len(steps)
           base(j) == IF j = n + 1 THEN NewStep(p, called, applied) ELSE steps[j]
           mark(s, j) == [s EXCEPT !.skipped = @ \/ j \in Repeated(p)]
<1>1. n \in Nat /\ DOMAIN steps = 1 .. n
  BY DEF StepTypeOK
<1>2. steps' = [j \in 1 .. n + 1 |-> mark(base(j), j)]
  BY DEF Settle
<1>3. ASSUME NEW j \in 1 .. n + 1
      PROVE  base(j) \in Step
  <2>1. CASE j = n + 1
    <3>1. Looping(p) \in BOOLEAN
      BY DEF Looping, GuardEnabled, Loops
    <3>2. NewStep(p, called, applied) \in Step
      BY <3>1 DEF NewStep, Step, StepTypeOK, Proposal, Score
    <3>3. QED
      BY <2>1, <3>2
  <2>2. CASE j # n + 1
    <3>1. j \in 1 .. n
      BY <1>1, <2>2
    <3>2. QED
      BY <1>1, <2>2, <3>1 DEF StepTypeOK
  <2>3. QED
    BY <2>1, <2>2
<1>4. ASSUME NEW s \in Step, NEW j \in 1 .. n + 1
      PROVE  /\ mark(s, j) \in Step
             /\ Kept(s, mark(s, j))
             /\ mark(s, j).score = s.score
             /\ mark(s, j).skipped <=> s.skipped \/ j \in Repeated(p)
  BY DEF Step, Kept
<1>5. \A j \in 1 .. n + 1 : steps'[j] = mark(base(j), j)
  BY <1>2
<1>6. \A j \in 1 .. n : base(j) = steps[j]
  BY <1>1
<1>7. steps' \in [1 .. n + 1 -> Step]
  BY <1>2, <1>3, <1>4
<1> HIDE DEF base, mark
<1>8. steps' \in Seq(Step) /\ Len(steps') = n + 1
  BY <1>1, <1>7
<1>9. DOMAIN steps' = 1 .. n + 1
  BY <1>7
<1>10. ASSUME NEW j \in 1 .. n
       PROVE  /\ Kept(steps[j], steps'[j])
              /\ steps'[j].score = steps[j].score
              /\ steps'[j].skipped <=> steps[j].skipped \/ j \in Repeated(p)
  <2>1. j \in 1 .. n + 1
    BY <1>1
  <2>2. QED
    BY <1>3, <1>4, <1>5, <1>6, <2>1
<1>11. /\ Kept(NewStep(p, called, applied), steps'[n + 1])
       /\ steps'[n + 1].score = NewStep(p, called, applied).score
       /\ steps'[n + 1].skipped <=>
            NewStep(p, called, applied).skipped \/ n + 1 \in Repeated(p)
  <2>1. n + 1 \in 1 .. n + 1
    BY <1>1
  <2>2. base(n + 1) = NewStep(p, called, applied)
    BY DEF base
  <2>3. QED
    BY <1>3, <1>4, <1>5, <2>1, <2>2
<1>12. QED
  BY <1>8, <1>9, <1>10, <1>11 DEF NewStep

-----------------------------------------------------------------------------
(* The guard never holds the first step of an episode to be a repetition.   *)

LEMMA LeastNat ==
  ASSUME NEW T, T \subseteq Nat, T # {}
  PROVE  \E x \in T : \A y \in T : x <= y
<1> DEFINE R == OpToRel(<, Nat)
<1>1. IsWellFoundedOn(R, Nat)
  BY NatLessThanWellFounded
<1>2. \A x, y \in Nat : y < x => <<y, x>> \in R
  BY DEF OpToRel
<1> HIDE DEF R
<1>3. PICK x \in T : \A y \in T : <<y, x>> \notin R
  BY <1>1, WFMin
<1>4. \A y \in T : ~(y < x) => x <= y
  OBVIOUS
<1>5. QED
  BY <1>2, <1>3, <1>4

LEMMA FirstIsNoRepeat ==
  ASSUME NEW S, NEW h \in Seq(S), h # <<>>, Loops(h)
  PROVE  1 \notin RepeatedIndices(h)
<1> USE StepLoopAssumption
<1>1. CASE Repeats(h)
  <2>1. Len(h) # 1
    <3> SUFFICES ASSUME Len(h) = 1 PROVE FALSE
      OBVIOUS
    <3> DEFINE E == {i \in DOMAIN h : h[i] = h[Len(h)]}
    <3>1. E = {1}
      OBVIOUS
    <3>2. Cardinality(E) = 1
      BY <3>1, FS_Singleton
    <3>3. Cardinality(E) >= RepeatThreshold
      BY <1>1 DEF Repeats
    <3> HIDE DEF E
    <3>4. QED
      BY <3>2, <3>3
  <2>2. QED
    BY <1>1, <2>1 DEF RepeatedIndices
<1>2. CASE ~Repeats(h)
  <2>1. Cycles(h) # {} /\ Cycles(h) \subseteq Nat
    <3>1. Cycles(h) \subseteq Nat
      BY DEF Cycles
    <3>2. Cycles(h) # {}
      BY <1>2 DEF Loops
    <3>3. QED
      BY <3>1, <3>2
  <2>2. \E n \in Cycles(h) : \A m \in Cycles(h) : n <= m
    BY <2>1, LeastNat
  <2> DEFINE n == CHOOSE n \in Cycles(h) : \A m \in Cycles(h) : n <= m
  <2>3. n \in Cycles(h)
    BY <2>2
  <2>4. RepeatedIndices(h) = Len(h) - n + 1 .. Len(h)
    BY <1>2 DEF RepeatedIndices
  <2> HIDE DEF n
  <2>5. QED
    BY <2>3, <2>4 DEF Cycles
<1>3. QED
  BY <1>1, <1>2

-----------------------------------------------------------------------------
(* Settle: the one place where a step is added                              *)

Settled(p, called, applied) ==
  /\ Inv
  /\ phase \in Asking
  /\ p \in Proposal /\ called \in BOOLEAN /\ applied \in BOOLEAN
  /\ applied => ~Looping(p)
  /\ Settle(p, called, applied)
  /\ UNCHANGED <<config, screen, judgements>>

LEMMA RepeatedFacts ==
  ASSUME StepTypeOK, NEW p \in Proposal
  PROVE  /\ Observed(p) \in Seq(Screen \X Action)
         /\ Observed(p) # <<>>
         /\ 1 \notin Repeated(p)
         /\ ~config.teacher => Repeated(p) = {}
<1>1. Observed(p) \in Seq(Screen \X Action) /\ Observed(p) # <<>>
  <2>1. <<screen, p.action>> \in Screen \X Action
    BY DEF StepTypeOK, Proposal
  <2>2. guard \in Seq(Screen \X Action)
    BY DEF StepTypeOK
  <2> HIDE DEF Action
  <2>3. QED
    BY <2>1, <2>2 DEF Observed
<1>2. QED
  BY <1>1, FirstIsNoRepeat DEF Repeated, Looping

LEMMA SettleType ==
  ASSUME NEW p, NEW called, NEW applied, Settled(p, called, applied)
  PROVE  /\ steps' \in Seq(Step)
         /\ Len(steps') <= MaxSteps
         /\ guard' \in Seq(Screen \X Action)
         /\ queries' \subseteq DOMAIN steps'
         /\ live' \subseteq {Query(i) : i \in DOMAIN steps'}
                              \cup {Judgement(i) : i \in DOMAIN steps'}
         /\ judgements' \subseteq DOMAIN steps'
         /\ config' \in Configs /\ screen' \in Screen
         /\ phase' \in Acting
<1> USE DEF Settled
<1>1. StepTypeOK /\ LengthInv
  BY DEF Inv
<1>2. Len(steps) \in Nat /\ DOMAIN steps = 1 .. Len(steps)
  BY <1>1 DEF StepTypeOK
<1>3. DOMAIN steps' = 1 .. Len(steps) + 1 /\ DOMAIN steps \subseteq DOMAIN steps'
  BY <1>1, <1>2, SettleSteps
<1>4. steps' \in Seq(Step) /\ Len(steps') <= MaxSteps
  BY <1>1, <1>2, SettleSteps, StepLoopAssumption DEF LengthInv
<1>5. guard' \in Seq(Screen \X Action)
  BY <1>1, RepeatedFacts DEF Settle, StepTypeOK
<1>6. Submitted(p) \subseteq {Len(steps) + 1}
  BY DEF Submitted
<1>7. queries' \subseteq DOMAIN steps'
  BY <1>1, <1>2, <1>3, <1>6 DEF Settle, StepTypeOK
<1>8. live' \subseteq {Query(i) : i \in DOMAIN steps'}
                        \cup {Judgement(i) : i \in DOMAIN steps'}
  BY <1>1, <1>2, <1>3, <1>6 DEF Settle, StepTypeOK
<1>9. phase' \in Acting
  BY DEF Settle, Acting
<1>10. QED
  BY <1>1, <1>3, <1>4, <1>5, <1>7, <1>8, <1>9 DEF StepTypeOK

LEMMA SettleQueries ==
  ASSUME NEW p, NEW called, NEW applied, Settled(p, called, applied)
  PROVE  QueryInv'
<1> USE DEF Settled
<1> DEFINE n == Len(steps)
<1>1. StepTypeOK /\ QueryInv
  BY DEF Inv
<1>2. n \in Nat /\ DOMAIN steps = 1 .. n
  BY <1>1 DEF StepTypeOK
<1>3. /\ DOMAIN steps' = 1 .. n + 1
      /\ \A j \in 1 .. n :
           steps'[j].skipped <=> steps[j].skipped \/ j \in Repeated(p)
      /\ steps'[n + 1].skipped <=> n + 1 \in Repeated(p)
  BY <1>1, SettleSteps
<1>4. queries' = IF config.teacher THEN Rows' ELSE {}
  <2>1. CASE ~config.teacher
    BY <1>1, <2>1 DEF Settle, Submitted, QueryInv
  <2>2. CASE config.teacher
    <3>1. queries' = (Rows \ Repeated(p)) \cup ({n + 1} \ Repeated(p))
      BY <1>1, <2>2 DEF Settle, Submitted, QueryInv
    <3>2. Rows = {j \in 1 .. n : ~steps[j].skipped}
      BY <1>2, <2>2 DEF Rows
    <3>3. Rows' = {j \in 1 .. n + 1 : ~steps'[j].skipped}
      BY <1>3, <2>2 DEF Rows
    <3>4. \A j \in 1 .. n + 1 : j = n + 1 \/ j \in 1 .. n
      BY <1>2
    <3>5. n + 1 \notin 1 .. n /\ n + 1 \in 1 .. n + 1
          /\ 1 .. n \subseteq 1 .. n + 1
      BY <1>2
    <3> HIDE DEF n
    <3>6. QED
      BY <1>3, <2>2, <3>1, <3>2, <3>3, <3>4, <3>5
  <2>3. QED
    BY <2>1, <2>2
<1>5. ~steps'[1].skipped
  <2>1. 1 \notin Repeated(p)
    BY <1>1, RepeatedFacts
  <2>2. CASE n = 0
    BY <1>3, <2>1, <2>2
  <2>3. CASE n # 0
    <3>1. 1 \in 1 .. n /\ steps # <<>>
      BY <1>2, <2>3
    <3>2. QED
      BY <1>1, <1>3, <2>1, <3>1 DEF QueryInv
  <2>4. QED
    BY <2>2, <2>3
<1>6. live' \subseteq {Query(i) : i \in queries'}
                        \cup {Judgement(i) : i \in judgements'}
  <2>1. live \subseteq {Query(i) : i \in queries}
                         \cup {Judgement(i) : i \in judgements}
    BY <1>1 DEF QueryInv
  <2>2. /\ queries' = (queries \ Repeated(p)) \cup Submitted(p)
        /\ live' = (live \ {Query(j) : j \in Repeated(p)})
                     \cup {Query(j) : j \in Submitted(p)}
    BY DEF Settle
  <2>3. QED
    BY <2>1, <2>2
<1>7. phase' \notin {"stopping", "returned", "raised"}
  BY DEF Settle
<1>8. QED
  BY <1>4, <1>5, <1>6, <1>7 DEF QueryInv

LEMMA SettleScores ==
  ASSUME NEW p, NEW called, NEW applied, Settled(p, called, applied)
  PROVE  ScoreInv' /\ LengthInv'
<1> USE DEF Settled
<1> DEFINE n == Len(steps)
<1>1. StepTypeOK /\ ScoreInv
  BY DEF Inv
<1>2. n \in Nat /\ DOMAIN steps = 1 .. n
  BY <1>1 DEF StepTypeOK
<1>3. /\ DOMAIN steps' = 1 .. n + 1 /\ Len(steps') = n + 1
      /\ steps' \in Seq(Step)
      /\ \A j \in 1 .. n : steps'[j].score = steps[j].score
  BY <1>1, SettleSteps
<1>4. phase' \in Acting
  BY SettleType
<1>5. \A i \in 1 .. n :
        steps[i].score # "final" /\ (steps[i].score # "none" \/ i \in judgements)
  BY <1>1, <1>2 DEF ScoreInv, Asking
<1>6. ASSUME NEW i \in 1 .. n + 1, i < n + 1
      PROVE  /\ steps'[i].score # "final"
             /\ steps'[i].score # "none" \/ i \in judgements'
  <2>1. i \in 1 .. n
    BY <1>2, <1>6
  <2>2. QED
    BY <1>3, <1>5, <2>1
<1>7. n + 1 \notin judgements' /\ steps'[n + 1].score = "none"
  BY <1>1, <1>2, SettleSteps DEF StepTypeOK
<1>8. ScoreInv'
  BY <1>3, <1>4, <1>6, <1>7 DEF ScoreInv, Acting, Asking
<1>9. LengthInv'
  BY <1>2, <1>3, <1>4 DEF LengthInv, Acting, Asking
<1>10. QED
  BY <1>8, <1>9

\* Prefixes of a history that grows
LEMMA PrefixAppend ==
  ASSUME NEW S, NEW h \in Seq(S), NEW x \in S
  PROVE  /\ \A i \in 1 .. Len(h) :
              SubSeq(Append(h, x), 1, i) = SubSeq(h, 1, i)
         /\ SubSeq(Append(h, x), 1, Len(h) + 1) = Append(h, x)
OBVIOUS

LEMMA SettleGuard ==
  ASSUME NEW p, NEW called, NEW applied, Settled(p, called, applied)
  PROVE  LoopsAreExecuted'
<1> USE DEF Settled
<1> DEFINE n == Len(steps)
           token == <<screen, p.action>>
<1>1. StepTypeOK /\ LoopsAreExecuted
  BY DEF Inv
<1>2. n \in Nat /\ DOMAIN steps = 1 .. n
  BY <1>1 DEF StepTypeOK
<1> SUFFICES ASSUME GuardEnabled' PROVE LoopsAreExecuted'
  BY DEF LoopsAreExecuted
<1>3. GuardEnabled
  BY DEF GuardEnabled, RescueEnabled
<1>4. /\ DOMAIN steps' = 1 .. n + 1 /\ Len(steps') = n + 1
      /\ \A j \in 1 .. n :
           /\ Kept(steps[j], steps'[j])
           /\ steps'[j].skipped <=> steps[j].skipped \/ j \in Repeated(p)
      /\ Kept(NewStep(p, called, applied), steps'[n + 1])
      /\ steps'[n + 1].skipped <=> n + 1 \in Repeated(p)
  BY <1>1, SettleSteps
<1>5. /\ guard' = Append(guard, token)
      /\ Observed(p) = guard'
  BY <1>3 DEF Settle, Observed
<1>6. guard = [i \in 1 .. n |-> <<steps[i].screen, steps[i].action>>]
  BY <1>1, <1>2, <1>3 DEF LoopsAreExecuted
<1>7. guard \in Seq(Screen \X Action) /\ Len(guard) = n /\ token \in Screen \X Action
  BY <1>1, <1>2, <1>6 DEF StepTypeOK, Proposal
<1>8. guard' = [i \in 1 .. n + 1 |-> <<steps'[i].screen, steps'[i].action>>]
  <2>1. guard' = [i \in 1 .. n + 1 |-> IF i = n + 1 THEN token ELSE guard[i]]
    BY <1>2, <1>5, <1>7
  <2>2. steps'[n + 1].screen = screen /\ steps'[n + 1].action = p.action
    BY <1>4 DEF Kept, NewStep
  <2>3. ASSUME NEW i \in 1 .. n + 1
        PROVE  (IF i = n + 1 THEN token ELSE guard[i])
                 = <<steps'[i].screen, steps'[i].action>>
    <3>1. CASE i = n + 1
      BY <2>2, <3>1
    <3>2. CASE i # n + 1
      <4>1. i \in 1 .. n
        BY <1>2, <3>2
      <4>2. QED
        BY <1>4, <1>6, <3>2, <4>1 DEF Kept
    <3>3. QED
      BY <3>1, <3>2
  <2>4. QED
    BY <2>1, <2>3
<1>9. /\ \A i \in 1 .. n : SubSeq(guard', 1, i) = SubSeq(guard, 1, i)
      /\ SubSeq(guard', 1, n + 1) = guard'
  BY <1>5, <1>7, PrefixAppend
<1>10. Looping(p) <=> Loops(guard')
  BY <1>3, <1>5 DEF Looping
<1> DEFINE on == config.teacher /\ config.skip
           in(i, j) == /\ Loops(SubSeq(guard, 1, j))
                       /\ i \in RepeatedIndices(SubSeq(guard, 1, j))
<1>11. ASSUME NEW i
       PROVE  i \in Repeated(p) <=> /\ on
                                    /\ Loops(guard')
                                    /\ i \in RepeatedIndices(guard')
  BY <1>5, <1>10 DEF Repeated
<1>12. \A i \in 1 .. n + 1 : steps'[i].looped <=> Loops(SubSeq(guard', 1, i))
  <2>1. steps'[n + 1].looped <=> Loops(guard')
    BY <1>4, <1>10 DEF Kept, NewStep
  <2>2. \A i \in 1 .. n : steps'[i].looped <=> Loops(SubSeq(guard, 1, i))
    BY <1>1, <1>2, <1>3, <1>4 DEF LoopsAreExecuted, Kept
  <2>3. \A i \in 1 .. n + 1 : i = n + 1 \/ i \in 1 .. n
    BY <1>2
  <2>4. QED
    BY <1>9, <2>1, <2>2, <2>3
<1>13. ASSUME NEW i \in 1 .. n + 1
       PROVE  steps'[i].skipped <=>
                on /\ \E j \in i .. n + 1 :
                        /\ Loops(SubSeq(guard', 1, j))
                        /\ i \in RepeatedIndices(SubSeq(guard', 1, j))
  <2>1. CASE i = n + 1
    <3>1. i .. n + 1 = {n + 1}
      BY <1>2, <2>1
    <3>2. QED
      BY <1>4, <1>9, <1>11, <2>1, <3>1
  <2>2. CASE i # n + 1
    <3>1. i \in 1 .. n /\ i .. n + 1 = (i .. n) \cup {n + 1} /\ i .. n \subseteq 1 .. n
      BY <1>2, <2>2
    <3>2. steps[i].skipped <=> on /\ \E j \in i .. n : in(i, j)
      BY <1>1, <1>2, <1>3, <3>1 DEF LoopsAreExecuted
    <3>3. steps'[i].skipped <=> steps[i].skipped \/ i \in Repeated(p)
      BY <1>4, <3>1
    <3>4. \A j \in i .. n : SubSeq(guard', 1, j) = SubSeq(guard, 1, j)
      BY <1>9, <3>1
    <3> HIDE DEF n, on
    <3>5. QED
      BY <1>9, <1>11, <3>1, <3>2, <3>3, <3>4
  <2>3. QED
    BY <2>1, <2>2
<1>14. QED
  BY <1>4, <1>8, <1>12, <1>13 DEF LoopsAreExecuted

\* How the set of the steps with a rescue grows
LEMMA SettleCalled ==
  ASSUME NEW p, NEW called, NEW applied, Settled(p, called, applied)
  PROVE  /\ ~called => Cardinality(Called') = Cardinality(Called)
         /\ called => Cardinality(Called') = Cardinality(Called) + 1
         /\ \A j \in DOMAIN steps' : j = Len(steps) + 1 \/ j \in DOMAIN steps
         /\ \A j \in DOMAIN steps : /\ steps'[j].called = steps[j].called
                                    /\ steps'[j].applied = steps[j].applied
         /\ steps'[Len(steps) + 1].called = called
         /\ steps'[Len(steps) + 1].applied = applied
         /\ Len(steps') = Len(steps) + 1
<1> USE DEF Settled
<1> DEFINE n == Len(steps)
<1>1. StepTypeOK
  BY DEF Inv
<1>2. n \in Nat /\ DOMAIN steps = 1 .. n
  BY <1>1 DEF StepTypeOK
<1>3. /\ DOMAIN steps' = 1 .. n + 1 /\ Len(steps') = n + 1
      /\ \A j \in 1 .. n : Kept(steps[j], steps'[j])
      /\ Kept(NewStep(p, called, applied), steps'[n + 1])
  BY <1>1, SettleSteps
<1>4. /\ \A j \in 1 .. n : /\ steps'[j].called = steps[j].called
                            /\ steps'[j].applied = steps[j].applied
      /\ steps'[n + 1].called = called
      /\ steps'[n + 1].applied = applied
  BY <1>3 DEF Kept, NewStep
<1>5. \A j \in 1 .. n + 1 : j = n + 1 \/ j \in 1 .. n
  BY <1>2
<1>6. n + 1 \in 1 .. n + 1 /\ n + 1 \notin 1 .. n /\ 1 .. n \subseteq 1 .. n + 1
  BY <1>2
<1>7. Called = {i \in 1 .. n : steps[i].called}
  BY <1>2 DEF Called
<1>8. Called' = {i \in 1 .. n + 1 : steps'[i].called}
  BY <1>3 DEF Called
<1>9. IsFiniteSet(Called) /\ n + 1 \notin Called
  <2>1. IsFiniteSet(1 .. n)
    BY <1>2, FS_Interval
  <2>2. QED
    BY <1>6, <1>7, <2>1, FS_Subset
<1>10. CASE called
  <2>1. Called' = Called \cup {n + 1}
    BY <1>4, <1>5, <1>6, <1>7, <1>8, <1>10
  <2>2. Cardinality(Called') = Cardinality(Called) + 1
    BY <1>9, <2>1, FS_AddElement
  <2>3. QED
    BY <1>2, <1>3, <1>4, <1>5, <1>10, <2>2
<1>11. CASE ~called
  <2>1. Called' = Called
    BY <1>4, <1>5, <1>6, <1>7, <1>8, <1>11
  <2>2. QED
    BY <1>2, <1>3, <1>4, <1>5, <1>11, <2>1
<1>12. QED
  BY <1>10, <1>11

\* What Settle leaves to show of the invariant: the budget.
LEMMA SettleInv ==
  ASSUME NEW p, NEW called, NEW applied, Settled(p, called, applied),
         still' \in Nat, proposal' \in Proposal,
         calls' \in 0 .. MaxCalls, cooldown' \in 0 .. CooldownSteps,
         RescueInv'
  PROVE  Inv'
<1>1. StepTypeOK'
  <2>1. phase' \in Phase
    BY SettleType DEF Acting, Phase
  <2>2. QED
    BY SettleType, <2>1 DEF StepTypeOK
<1>2. QED
  BY <1>1, SettleQueries, SettleScores, SettleGuard DEF Inv

LEMMA InvGenerate == Inv /\ Generate => Inv'
<1> SUFFICES ASSUME Inv, Generate PROVE Inv'
  OBVIOUS
<1>1. PICK p \in Proposal : Settle(p, FALSE, FALSE)
  BY DEF Generate
<1>2. StepTypeOK /\ RescueInv
  BY DEF Inv
<1>3. Settled(p, FALSE, FALSE)
  BY <1>1 DEF Generate, Settled, Asking
<1>4. /\ calls' = calls /\ still' = still /\ proposal' = proposal
      /\ cooldown' \in 0 .. CooldownSteps /\ cooldown' + 1 >= cooldown
      /\ cooldown \in Nat
  BY <1>2, StepLoopAssumption DEF Generate, Cooled, StepTypeOK
<1>5. RescueInv'
  <2>1. Len(steps) \in Nat /\ DOMAIN steps = 1 .. Len(steps)
    BY <1>2 DEF StepTypeOK
  <2>2. phase' # "rescue"
    BY <1>1 DEF Settle
  <2>3. Cardinality(Called') <= calls'
    BY <1>2, <1>3, <1>4, SettleCalled DEF RescueInv
  <2>4. ASSUME NEW i \in DOMAIN steps', steps'[i].applied
        PROVE  cooldown' + (Len(steps') - i) >= CooldownSteps
    <3>1. i \in DOMAIN steps /\ steps[i].applied
      BY <1>3, <2>4, SettleCalled
    <3>2. cooldown + (Len(steps) - i) >= CooldownSteps
      BY <1>2, <3>1 DEF RescueInv
    <3>3. Len(steps') = Len(steps) + 1
      BY <1>3, SettleCalled
    <3>4. i \in Nat /\ cooldown' \in Nat /\ CooldownSteps \in Nat
      BY <1>4, <2>1, <3>1, StepLoopAssumption
    <3>5. cooldown' + (Len(steps) + 1 - i) >= CooldownSteps
      <4>1. cooldown \in Nat /\ Len(steps) \in Nat
        BY <1>4, <2>1
      <4>2. cooldown' + 1 >= cooldown
        BY <1>4
      <4>3. \A c, d, n, k, m \in Nat :
              c + (n - k) >= m /\ d + 1 >= c => d + (n + 1 - k) >= m
        OBVIOUS
      <4>4. QED
        BY <3>2, <3>4, <4>1, <4>2, <4>3
    <3>6. QED
      BY <3>3, <3>5
  <2>5. ASSUME NEW i \in DOMAIN steps', NEW j \in DOMAIN steps',
               i < j, steps'[i].applied, steps'[j].called
        PROVE  j - i > CooldownSteps
    <3>1. i \in DOMAIN steps /\ j \in DOMAIN steps
          /\ steps[i].applied /\ steps[j].called
      BY <1>3, <2>5, SettleCalled
    <3>2. QED
      BY <1>2, <2>5, <3>1 DEF RescueInv
  <2>6. QED
    BY <2>2, <2>3, <2>4, <2>5 DEF RescueInv
<1>6. QED
  BY <1>2, <1>3, <1>4, <1>5, SettleInv DEF StepTypeOK

\* A step at which the teacher was called: its cooldown was over.
LEMMA RescueSettled ==
  ASSUME NEW p, NEW applied, Settled(p, TRUE, applied), phase = "rescue",
         calls' = calls,
         cooldown' = IF applied THEN CooldownSteps ELSE cooldown
  PROVE  RescueInv'
<1> USE StepLoopAssumption
<1>1. StepTypeOK /\ RescueInv
  BY DEF Settled, Inv
<1>2. Len(steps) \in Nat /\ DOMAIN steps = 1 .. Len(steps)
  BY <1>1 DEF StepTypeOK
<1>3. phase' # "rescue"
  BY DEF Settled, Settle
<1>4. Cardinality(Called) < calls /\ cooldown = 0
  BY <1>1 DEF RescueInv
<1>5. Cardinality(Called') <= calls'
  <2>1. Cardinality(Called) \in Nat
    <3>1. IsFiniteSet(1 .. Len(steps))
      BY <1>2, FS_Interval
    <3>2. IsFiniteSet(Called)
      BY <1>2, <3>1, FS_Subset DEF Called
    <3>3. QED
      BY <3>2, FS_CardinalityType
  <2>2. Cardinality(Called') = Cardinality(Called) + 1
    BY SettleCalled
  <2>3. QED
    BY <1>1, <1>4, <2>1, <2>2 DEF StepTypeOK
<1>6. Len(steps') = Len(steps) + 1
  BY SettleCalled
<1>7. \A i \in DOMAIN steps : steps[i].applied => Len(steps) - i >= CooldownSteps
  BY <1>1, <1>2, <1>4 DEF RescueInv
<1>8. ASSUME NEW i \in DOMAIN steps', steps'[i].applied
      PROVE  cooldown' + (Len(steps') - i) >= CooldownSteps
  <2>1. CASE i \in DOMAIN steps
    <3>1. steps[i].applied
      BY <1>8, <2>1, SettleCalled
    <3>2. cooldown' \in Nat
      BY <1>4
    <3>3. QED
      BY <1>2, <1>6, <1>7, <2>1, <3>1, <3>2
  <2>2. CASE i = Len(steps) + 1
    <3>1. steps'[Len(steps) + 1].applied = applied
      BY SettleCalled
    <3>2. applied
      BY <1>8, <2>2, <3>1
    <3>3. QED
      BY <1>2, <1>6, <2>2, <3>2
  <2>3. QED
    BY <2>1, <2>2, SettleCalled
<1>9. ASSUME NEW i \in DOMAIN steps', NEW j \in DOMAIN steps',
             i < j, steps'[i].applied, steps'[j].called
      PROVE  j - i > CooldownSteps
  <2>1. i \in DOMAIN steps
    <3>1. DOMAIN steps' = 1 .. Len(steps) + 1
      BY <1>1, SettleSteps DEF Settled
    <3>2. QED
      BY <1>2, <1>9, <3>1
  <2>2. steps[i].applied
    BY <1>9, <2>1, SettleCalled
  <2>3. CASE j \in DOMAIN steps
    BY <1>1, <1>9, <2>1, <2>2, <2>3, SettleCalled DEF RescueInv
  <2>4. CASE j = Len(steps) + 1
    BY <1>2, <1>7, <2>1, <2>2, <2>4
  <2>5. QED
    BY <2>3, <2>4, SettleCalled
<1>10. QED
  BY <1>3, <1>5, <1>8, <1>9 DEF RescueInv

LEMMA InvTeacherApplied == Inv /\ TeacherApplied => Inv'
<1> SUFFICES ASSUME Inv, TeacherApplied PROVE Inv'
  OBVIOUS
<1>1. PICK p \in Proposal : ~Looping(p) /\ Settle(p, TRUE, TRUE)
  BY DEF TeacherApplied
<1>2. Settled(p, TRUE, TRUE)
  BY <1>1 DEF TeacherApplied, Settled, Asking
<1>3. RescueInv'
  BY <1>2, RescueSettled DEF TeacherApplied
<1>4. NoProposal \in Proposal
  BY DEF NoProposal, Proposal, Action
<1>5. /\ still' \in Nat /\ proposal' \in Proposal
      /\ calls' \in 0 .. MaxCalls /\ cooldown' \in 0 .. CooldownSteps
  BY <1>4, StepLoopAssumption DEF Inv, StepTypeOK, TeacherApplied
<1>6. QED
  BY <1>2, <1>3, <1>5, SettleInv

LEMMA InvTeacherRejected == Inv /\ TeacherRejected => Inv'
<1> SUFFICES ASSUME Inv, TeacherRejected PROVE Inv'
  OBVIOUS
<1>1. proposal \in Proposal
  BY DEF Inv, StepTypeOK
<1>2. Settled(proposal, TRUE, FALSE)
  BY <1>1 DEF TeacherRejected, Settled, Asking
<1>3. RescueInv'
  BY <1>2, RescueSettled DEF TeacherRejected, rescueVars
<1>4. NoProposal \in Proposal
  BY DEF NoProposal, Proposal, Action
<1>5. QED
  BY <1>2, <1>3, <1>4, SettleInv
     DEF Inv, StepTypeOK, TeacherRejected, rescueVars

-----------------------------------------------------------------------------
(* The other actions give scores to steps at most.                          *)

Rescored ==
  /\ steps' \in Seq(Step)
  /\ Len(steps') = Len(steps)
  /\ DOMAIN steps' = DOMAIN steps
  /\ \A i \in DOMAIN steps : /\ Kept(steps[i], steps'[i])
                             /\ steps'[i].skipped = steps[i].skipped

LEMMA ScoredStep ==
  ASSUME NEW s \in Step, NEW score \in Score
  PROVE  /\ Scored(s, score) \in Step
         /\ Kept(s, Scored(s, score))
         /\ Scored(s, score).skipped = s.skipped
         /\ Scored(s, score).score = score
BY DEF Scored, Step, Kept

LEMMA RescoredKeeps ==
  ASSUME Inv, Rescored, UNCHANGED <<config, guard, rescueVars, queries>>
  PROVE  /\ Rows' = Rows
         /\ LoopsAreExecuted'
         /\ phase' # "rescue" => RescueInv'
         /\ steps' # <<>> => steps # <<>> /\ ~steps'[1].skipped
<1>1. StepTypeOK /\ LoopsAreExecuted /\ RescueInv /\ QueryInv
  BY DEF Inv
<1>2. Len(steps) \in Nat /\ DOMAIN steps = 1 .. Len(steps)
  BY <1>1 DEF StepTypeOK
<1>3. Rows' = Rows
  BY DEF Rows, Rescored
<1>4. LoopsAreExecuted'
  BY <1>1 DEF LoopsAreExecuted, Rescored, Kept, GuardEnabled, RescueEnabled
<1>5. ASSUME phase' # "rescue" PROVE RescueInv'
  <2>1. Called' = Called
    BY DEF Called, Rescored, Kept
  <2>2. QED
    BY <1>1, <1>5, <2>1 DEF RescueInv, Rescored, Kept, rescueVars
<1>6. ASSUME steps' # <<>> PROVE steps # <<>> /\ ~steps'[1].skipped
  <2>1. Len(steps') # 0
    BY <1>6 DEF Rescored
  <2>2. 1 \in DOMAIN steps /\ steps # <<>>
    BY <1>2, <2>1 DEF Rescored
  <2>3. QED
    BY <1>1, <2>2 DEF QueryInv, Rescored
<1>7. QED
  BY <1>3, <1>4, <1>5, <1>6

LEMMA SameSteps ==
  ASSUME StepTypeOK, UNCHANGED steps
  PROVE  Rescored
BY DEF StepTypeOK, Rescored, Kept

LEMMA InvAct == Inv /\ Act => Inv'
<1> SUFFICES ASSUME Inv, Act PROVE Inv'
  OBVIOUS
<1> DEFINE n == Len(steps)
           final == steps[n].action = "answer" \/ n = MaxSteps
           judged == ~final /\ config.estimator = "gigpo" /\ ~steps[n].looped
           score == IF config.estimator = "gigpo" THEN "rule" ELSE "unused"
<1>1. StepTypeOK /\ LengthInv /\ QueryInv /\ ScoreInv
  BY DEF Inv
<1>2. n \in Nat /\ DOMAIN steps = 1 .. n /\ steps # <<>> /\ n \in DOMAIN steps
  <2>1. n \in Nat /\ DOMAIN steps = 1 .. n /\ steps # <<>>
    BY <1>1 DEF StepTypeOK, Act, LengthInv, Acting
  <2>2. n # 0
    BY <1>1, <2>1 DEF StepTypeOK
  <2>3. QED
    BY <2>1, <2>2
<1>3. steps[n] \in Step /\ score \in Score
  BY <1>1, <1>2 DEF StepTypeOK, Score
<1>4. /\ phase = "act"
      /\ phase' = IF final THEN "evaluate" ELSE "generate"
      /\ steps' = IF final \/ judged THEN steps
                  ELSE [steps EXCEPT ![n] = Scored(@, score)]
      /\ judgements' = IF judged THEN judgements \cup {n} ELSE judgements
      /\ live' = IF judged THEN live \cup {Judgement(n)} ELSE live
      /\ UNCHANGED <<config, proposal, guard, rescueVars, queries>>
      /\ screen' \in Screen
      /\ still' \in {still + 1, 0}
  BY DEF Act
<1>5. /\ Rescored
      /\ \A i \in 1 .. n : i # n => steps'[i].score = steps[i].score
      /\ ~(final \/ judged) => steps'[n].score = score
  <2>1. CASE final \/ judged
    BY <1>1, <1>2, <1>4, <2>1, SameSteps
  <2>2. CASE ~(final \/ judged)
    <3>1. steps' = [steps EXCEPT ![n] = Scored(steps[n], score)]
      BY <1>4, <2>2
    <3>2. \A i \in 1 .. n : i # n => steps'[i] = steps[i]
      BY <1>2, <3>1
    <3>3. steps'[n] = Scored(steps[n], score)
      BY <1>2, <3>1
    <3> HIDE DEF score
    <3>4. steps' \in Seq(Step) /\ Len(steps') = n /\ DOMAIN steps' = DOMAIN steps
      BY <1>1, <1>2, <1>3, <3>1, ScoredStep DEF StepTypeOK
    <3>5. ASSUME NEW i \in DOMAIN steps
          PROVE  Kept(steps[i], steps'[i]) /\ steps'[i].skipped = steps[i].skipped
      <4>1. CASE i = n
        BY <1>3, <3>3, <4>1, ScoredStep
      <4>2. CASE i # n
        BY <1>2, <3>2, <4>2 DEF Kept
      <4>3. QED
        BY <4>1, <4>2
    <3>6. steps'[n].score = score
      BY <1>3, <3>3, ScoredStep
    <3>7. Rescored
      BY <3>4, <3>5 DEF Rescored
    <3>8. QED
      BY <3>2, <3>6, <3>7
  <2>3. QED
    BY <2>1, <2>2
<1> HIDE DEF score, judged
<1>6. StepTypeOK'
  <2>1. phase' \in Phase /\ still' \in Nat
    BY <1>1, <1>4 DEF Phase, StepTypeOK
  <2>2. judgements' \subseteq DOMAIN steps'
    BY <1>1, <1>2, <1>4, <1>5 DEF StepTypeOK, Rescored
  <2>3. live' \subseteq {Query(i) : i \in DOMAIN steps'}
                          \cup {Judgement(i) : i \in DOMAIN steps'}
    BY <1>1, <1>2, <1>4, <1>5 DEF StepTypeOK, Rescored
  <2>4. QED
    BY <1>1, <1>4, <1>5, <2>1, <2>2, <2>3 DEF StepTypeOK, Rescored, rescueVars
<1>7. LengthInv'
  <2>1. n <= MaxSteps
    BY <1>1 DEF StepTypeOK
  <2>2. Len(steps') = n /\ steps' # <<>>
    <3>1. Len(steps') = n /\ DOMAIN steps' = DOMAIN steps
      BY <1>5 DEF Rescored
    <3>2. n \in DOMAIN steps'
      BY <1>2, <3>1
    <3>3. QED
      BY <3>1, <3>2
  <2>3. ~final => n < MaxSteps
    <3>1. MaxSteps \in Nat
      BY StepLoopAssumption
    <3>2. ~final => n # MaxSteps
      OBVIOUS
    <3> HIDE DEF final
    <3>3. n \in Nat
      BY <1>2
    <3> HIDE DEF n
    <3>4. QED
      BY <2>1, <3>1, <3>2, <3>3
  <2>4. phase' \in Asking => ~final
    BY <1>4 DEF Asking
  <2> HIDE DEF final
  <2>5. QED
    BY <2>2, <2>3, <2>4 DEF LengthInv
<1>8. RescueInv' /\ LoopsAreExecuted' /\ Rows' = Rows
      /\ (steps' # <<>> => ~steps'[1].skipped)
  BY <1>4, <1>5, RescoredKeeps
<1>9. QueryInv'
  BY <1>1, <1>4, <1>8 DEF QueryInv
<1>10. ScoreInv'
  <2>1. ASSUME NEW i \in 1 .. n, i < n
        PROVE  /\ steps[i].score # "final"
               /\ steps[i].score # "none" \/ i \in judgements
    BY <1>1, <1>2, <1>4, <2>1 DEF ScoreInv, Acting
  <2>2. n \notin judgements
    BY <1>1, <1>4 DEF ScoreInv, Acting
  <2>3. \A i \in 1 .. n : i = n \/ (i < n /\ i # n)
    <3>1. \A m \in Nat : \A i \in 1 .. m : i = m \/ (i < m /\ i # m)
      OBVIOUS
    <3>2. QED
      BY <1>2, <3>1
  <2>4. Len(steps') = n /\ DOMAIN steps' = 1 .. n
    BY <1>2, <1>5 DEF Rescored
  <2>5. CASE final
    <3>1. judgements' = judgements /\ phase' = "evaluate" /\ steps' = steps
      BY <1>4, <2>5 DEF judged
    <3>2. steps[n].score = "none"
      BY <1>1, <1>4 DEF ScoreInv, Acting
    <3>3. ASSUME NEW i \in DOMAIN steps', i < Len(steps')
          PROVE  /\ steps'[i].score # "final"
                 /\ steps'[i].score # "none" \/ i \in judgements'
      <4>1. i \in 1 .. n /\ i < n
        BY <2>4, <3>3
      <4>2. /\ steps[i].score # "final"
            /\ steps[i].score # "none" \/ i \in judgements
        BY <2>1, <4>1
      <4>3. QED
        BY <3>1, <4>2
    <3>4. Len(steps') \notin judgements' /\ steps'[Len(steps')].score = "none"
      BY <2>2, <2>4, <3>1, <3>2
    <3>5. QED
      BY <3>1, <3>3, <3>4 DEF ScoreInv, Acting, Asking
  <2>6. CASE ~final
    <3>1. phase' = "generate"
      BY <1>4, <2>6
    <3>2. judged \/ steps'[n].score \in {"rule", "unused"}
      BY <1>5, <2>6 DEF score
    <3>3. judgements \subseteq judgements' /\ (judged => n \in judgements')
      BY <1>4
    <3>4. judged => steps' = steps
      BY <1>4
    <3>5. \A i \in 1 .. n : /\ steps'[i].score # "none" \/ i \in judgements'
      BY <1>5, <2>1, <2>3, <3>2, <3>3
    <3>6. \A i \in 1 .. n : steps'[i].score # "final"
      <4>1. ASSUME judged PROVE steps[n].score # "final"
        BY <1>1, <1>2, <1>4 DEF ScoreInv, Acting
      <4>2. steps'[n].score # "final"
        BY <3>2, <3>4, <4>1
      <4>3. ASSUME NEW i \in 1 .. n, i # n PROVE steps'[i].score # "final"
        <5>1. i < n
          BY <2>3, <4>3
        <5>2. steps'[i].score = steps[i].score
          BY <1>5, <4>3
        <5>3. QED
          BY <2>1, <5>1, <5>2
      <4>4. QED
        BY <4>2, <4>3
    <3>7. QED
      BY <2>4, <3>1, <3>5, <3>6 DEF ScoreInv, Acting, Asking
  <2>7. QED
    BY <2>5, <2>6
<1>11. QED
  BY <1>6, <1>7, <1>8, <1>9, <1>10 DEF Inv

LEMMA InvEvaluate == Inv /\ Evaluate => Inv'
<1> SUFFICES ASSUME Inv, Evaluate PROVE Inv'
  OBVIOUS
<1> DEFINE n == Len(steps)
<1>1. StepTypeOK /\ LengthInv /\ QueryInv /\ ScoreInv
  BY DEF Inv
<1>2. /\ phase = "evaluate" /\ phase' = "collect"
      /\ steps' = [steps EXCEPT ![n] = Scored(steps[n], "final")]
      /\ UNCHANGED <<config, screen, still, proposal, guard, rescueVars, taskVars>>
  BY DEF Evaluate
<1>3. n \in Nat /\ DOMAIN steps = 1 .. n /\ n \in DOMAIN steps
  <2>1. n \in Nat /\ DOMAIN steps = 1 .. n /\ steps # <<>>
    BY <1>1, <1>2 DEF StepTypeOK, LengthInv, Acting
  <2>2. n # 0
    BY <1>1, <2>1 DEF StepTypeOK
  <2>3. QED
    BY <2>1, <2>2
<1>4. steps[n] \in Step /\ "final" \in Score
  BY <1>1, <1>3 DEF StepTypeOK, Score
<1>5. /\ \A i \in 1 .. n : i # n => steps'[i] = steps[i]
      /\ steps'[n] = Scored(steps[n], "final")
      /\ DOMAIN steps' = 1 .. n
  BY <1>2, <1>3
<1>6. steps' \in Seq(Step) /\ Len(steps') = n
  BY <1>1, <1>2, <1>3, <1>4, ScoredStep DEF StepTypeOK
<1>7. Rescored
  <2>1. ASSUME NEW i \in DOMAIN steps
        PROVE  Kept(steps[i], steps'[i]) /\ steps'[i].skipped = steps[i].skipped
    <3>1. CASE i = n
      BY <1>4, <1>5, <3>1, ScoredStep
    <3>2. CASE i # n
      BY <1>3, <1>5, <3>2 DEF Kept
    <3>3. QED
      BY <3>1, <3>2
  <2>2. QED
    BY <1>3, <1>5, <1>6, <2>1 DEF Rescored
<1>8. StepTypeOK'
  <2>1. phase' \in Phase
    BY <1>2 DEF Phase
  <2>2. QED
    BY <1>1, <1>2, <1>3, <1>5, <1>6, <2>1 DEF StepTypeOK, rescueVars, taskVars
<1>9. LengthInv'
  <2>1. Len(steps') # 0
    BY <1>3, <1>6
  <2>2. QED
    BY <1>2, <2>1 DEF LengthInv, Asking, Acting, Scoring
<1>10. RescueInv' /\ LoopsAreExecuted' /\ Rows' = Rows
       /\ (steps' # <<>> => ~steps'[1].skipped)
  BY <1>2, <1>7, RescoredKeeps DEF taskVars
<1>11. QueryInv'
  BY <1>1, <1>2, <1>10 DEF QueryInv, taskVars
<1>12. ScoreInv'
  <2>1. ASSUME NEW i \in DOMAIN steps', i < n
        PROVE  /\ steps'[i].score # "final"
               /\ steps'[i].score # "none" \/ i \in judgements'
    <3>1. steps'[i] = steps[i] /\ i \in DOMAIN steps
      BY <1>3, <1>5, <2>1
    <3>2. judgements' = judgements
      BY <1>2 DEF taskVars
    <3>3. QED
      BY <1>1, <1>2, <2>1, <3>1, <3>2 DEF ScoreInv, Acting
  <2>2. n \notin judgements'
    BY <1>1, <1>2 DEF ScoreInv, Acting, taskVars
  <2>3. steps'[n].score = "final"
    BY <1>4, <1>5, ScoredStep
  <2>4. QED
    BY <1>2, <1>6, <2>1, <2>2, <2>3 DEF ScoreInv, Acting, Asking
<1>13. QED
  BY <1>8, <1>9, <1>10, <1>11, <1>12 DEF Inv

LEMMA InvCollect == Inv /\ Collect => Inv'
<1> SUFFICES ASSUME Inv, Collect PROVE Inv'
  OBVIOUS
<1> DEFINE n == Len(steps)
<1>1. StepTypeOK /\ LengthInv /\ QueryInv /\ ScoreInv
  BY DEF Inv
<1>2. PICK failed : steps' = [i \in DOMAIN steps |->
        IF i \notin judgements THEN steps[i]
        ELSE Scored(steps[i], IF i \in failed THEN "unscored" ELSE "judge")]
  BY DEF Collect
<1>3. /\ phase = "collect" /\ phase' = "returned"
      /\ \A i \in judgements : Judgement(i) \notin live
      /\ UNCHANGED <<config, screen, still, proposal, guard, rescueVars, taskVars>>
  BY DEF Collect
<1>4. n \in Nat /\ DOMAIN steps = 1 .. n /\ DOMAIN steps' = 1 .. n
  BY <1>1, <1>2 DEF StepTypeOK
<1>5. ASSUME NEW i \in DOMAIN steps
      PROVE  /\ steps'[i] \in Step
             /\ Kept(steps[i], steps'[i])
             /\ steps'[i].skipped = steps[i].skipped
             /\ i \notin judgements => steps'[i].score = steps[i].score
             /\ i \in judgements => steps'[i].score \in {"unscored", "judge"}
  <2>1. steps[i] \in Step
    BY <1>1 DEF StepTypeOK
  <2>2. CASE i \notin judgements
    BY <1>2, <2>1, <2>2 DEF Kept
  <2>3. CASE i \in judgements
    <3> DEFINE score == IF i \in failed THEN "unscored" ELSE "judge"
    <3>1. steps'[i] = Scored(steps[i], score)
      BY <1>2, <2>3
    <3>2. score \in {"unscored", "judge"} /\ score \in Score
      BY DEF Score
    <3> HIDE DEF score
    <3>3. QED
      BY <2>1, <2>3, <3>1, <3>2, ScoredStep
  <2>4. QED
    BY <2>2, <2>3
<1>6. steps' \in Seq(Step) /\ Len(steps') = n
  <2>1. steps' \in [1 .. n -> Step]
    BY <1>2, <1>4, <1>5
  <2>2. QED
    BY <1>4, <2>1
<1>7. Rescored
  BY <1>4, <1>5, <1>6 DEF Rescored
<1>8. StepTypeOK'
  <2>1. phase' \in Phase
    BY <1>3 DEF Phase
  <2>2. QED
    BY <1>1, <1>3, <1>4, <1>6, <2>1 DEF StepTypeOK, rescueVars, taskVars
<1>9. LengthInv'
  <2>1. steps # <<>>
    BY <1>1, <1>3 DEF LengthInv, Scoring
  <2>2. n # 0
    BY <1>1, <2>1 DEF StepTypeOK
  <2>3. steps' # <<>>
    BY <1>6, <2>2
  <2>4. QED
    BY <1>3, <2>3 DEF LengthInv, Asking
<1>10. RescueInv' /\ LoopsAreExecuted' /\ Rows' = Rows
       /\ (steps' # <<>> => ~steps'[1].skipped)
  BY <1>3, <1>7, RescoredKeeps DEF taskVars
<1>11. QueryInv'
  <2>1. live \subseteq {Query(i) : i \in queries}
    BY <1>1, <1>3 DEF QueryInv
  <2>2. QED
    BY <1>1, <1>3, <1>10, <2>1 DEF QueryInv, taskVars
<1>12. ScoreInv'
  <2>1. ASSUME NEW i \in DOMAIN steps'
        PROVE  /\ steps'[i].score # "none"
               /\ steps'[i].score = "final" <=> i = n
    <3>1. i \in DOMAIN steps
      BY <1>4
    <3>2. CASE i = n
      <4>1. n \notin judgements /\ steps[n].score = "final"
        BY <1>1, <1>3 DEF ScoreInv, Acting
      <4>2. QED
        BY <1>5, <3>1, <3>2, <4>1
    <3>3. CASE i # n
      <4>1. i < n
        BY <1>4, <3>3
      <4>2. /\ steps[i].score # "final"
            /\ steps[i].score # "none" \/ i \in judgements
        BY <1>1, <1>3, <3>1, <4>1 DEF ScoreInv
      <4>3. QED
        BY <1>5, <3>1, <3>3, <4>2
    <3>4. QED
      BY <3>2, <3>3
  <2>2. QED
    BY <1>3, <1>6, <2>1 DEF ScoreInv, Asking, Acting
<1>13. QED
  BY <1>8, <1>9, <1>10, <1>11, <1>12 DEF Inv

\* The steps, the guard and the dictionaries stay as they are.
LEMMA InvCallTeacher == Inv /\ CallTeacher => Inv'
<1> SUFFICES ASSUME Inv, CallTeacher PROVE Inv'
  OBVIOUS
<1> USE StepLoopAssumption
<1>1. StepTypeOK /\ LengthInv /\ QueryInv /\ ScoreInv /\ RescueInv
  BY DEF Inv
<1>2. /\ phase = "generate" /\ phase' = "rescue"
      /\ calls' = calls + 1 /\ calls < MaxCalls
      /\ cooldown = 0 /\ cooldown' = 0
      /\ proposal' \in Proposal
      /\ UNCHANGED <<config, steps, screen, still, guard, taskVars>>
  BY <1>1 DEF CallTeacher, Triggers, InCooldown, Cooled, StepTypeOK
<1>3. StepTypeOK'
  <2>1. phase' \in Phase /\ calls' \in 0 .. MaxCalls
    BY <1>1, <1>2 DEF Phase, StepTypeOK
  <2>2. QED
    BY <1>1, <1>2, <2>1 DEF StepTypeOK, taskVars
<1>4. LengthInv'
  BY <1>1, <1>2 DEF LengthInv, Asking, Acting, Scoring
<1>5. RescueInv'
  <2>1. Called' = Called
    BY <1>2 DEF Called
  <2>2. Cardinality(Called) \in Nat
    <3>1. IsFiniteSet(1 .. Len(steps)) /\ Called \subseteq 1 .. Len(steps)
      BY <1>1, FS_Interval DEF StepTypeOK, Called
    <3>2. QED
      BY <3>1, FS_Subset, FS_CardinalityType
  <2>3. Cardinality(Called') < calls' /\ Cardinality(Called') <= calls'
    BY <1>1, <1>2, <2>1, <2>2 DEF RescueInv, StepTypeOK
  <2>4. QED
    BY <1>1, <1>2, <2>3 DEF RescueInv
<1>6. QueryInv'
  BY <1>1, <1>2 DEF QueryInv, Rows, taskVars
<1>7. ScoreInv'
  BY <1>1, <1>2 DEF ScoreInv, Asking, Acting, taskVars
<1>8. LoopsAreExecuted'
  BY <1>2 DEF Inv, LoopsAreExecuted, GuardEnabled, RescueEnabled
<1>9. QED
  BY <1>3, <1>4, <1>5, <1>6, <1>7, <1>8 DEF Inv

\* Tasks end or are cancelled.
LEMMA InvTasks ==
  ASSUME Inv, Fails \/ StopQueries \/ TaskEnds \/ UNCHANGED vars
  PROVE  Inv'
<1>1. StepTypeOK /\ LengthInv /\ QueryInv /\ ScoreInv /\ RescueInv
  BY DEF Inv
<1>2. UNCHANGED <<config, steps, screen, still, proposal, guard, rescueVars,
                  queries, judgements>> /\ live' \subseteq live
  BY DEF Fails, StopQueries, TaskEnds, vars, taskVars
<1>3. phase' = phase \/ phase' \in {"stopping", "raised"}
  BY DEF Fails, StopQueries, TaskEnds, vars
<1>4. StepTypeOK'
  <2>1. phase' \in Phase
    BY <1>1, <1>3 DEF Phase, StepTypeOK
  <2>2. QED
    BY <1>1, <1>2, <2>1 DEF StepTypeOK, rescueVars
<1>5. LengthInv'
  BY <1>1, <1>2, <1>3 DEF LengthInv, Asking, Acting, Scoring
<1>6. RescueInv'
  <2>1. Called' = Called
    BY <1>2 DEF Called
  <2>2. QED
    BY <1>1, <1>2, <1>3, <2>1 DEF RescueInv, rescueVars
<1>7. QueryInv'
  <2>1. Rows' = Rows
    BY <1>2 DEF Rows
  <2>2. phase' = "stopping" =>
          live' \subseteq {Query(i) : i \in queries}
    BY <1>1, <1>2 DEF QueryInv, Fails, StopQueries, TaskEnds, vars
  <2>3. phase' \in {"returned", "raised"} =>
          live' \subseteq {Query(i) : i \in queries}
    BY <1>1, <1>2 DEF QueryInv, Fails, StopQueries, TaskEnds, vars
  <2>4. phase' = "raised" => live' = {}
    BY <1>1, <1>2 DEF QueryInv, Fails, StopQueries, TaskEnds, vars
  <2>5. QED
    BY <1>1, <1>2, <2>1, <2>2, <2>3, <2>4 DEF QueryInv
<1>8. ScoreInv'
  BY <1>1, <1>2, <1>3 DEF ScoreInv, Asking, Acting
<1>9. LoopsAreExecuted'
  BY <1>2 DEF Inv, LoopsAreExecuted, GuardEnabled, RescueEnabled
<1>10. QED
  BY <1>4, <1>5, <1>6, <1>7, <1>8, <1>9 DEF Inv

-----------------------------------------------------------------------------

LEMMA InvNext == Inv /\ [Next]_vars => Inv'
<1> SUFFICES ASSUME Inv, [Next]_vars PROVE Inv'
  OBVIOUS
<1>1. CASE Generate
  BY <1>1, InvGenerate
<1>2. CASE CallTeacher
  BY <1>2, InvCallTeacher
<1>3. CASE TeacherApplied
  BY <1>3, InvTeacherApplied
<1>4. CASE TeacherRejected
  BY <1>4, InvTeacherRejected
<1>5. CASE Act
  BY <1>5, InvAct
<1>6. CASE Evaluate
  BY <1>6, InvEvaluate
<1>7. CASE Collect
  BY <1>7, InvCollect
<1>8. CASE Fails \/ StopQueries \/ TaskEnds \/ UNCHANGED vars
  BY <1>8, InvTasks
<1>9. CASE Over
  BY <1>9, InvTasks DEF Over
<1>10. QED
  BY <1>1, <1>2, <1>3, <1>4, <1>5, <1>6, <1>7, <1>8, <1>9 DEF Next

LEMMA InvAlways == Spec => []Inv
BY InvInit, InvNext, PTL DEF Spec

\* The variables of an attempt keep their types.
THEOREM StepTypeCorrect == Spec => []StepTypeOK
<1>1. Inv => StepTypeOK
  BY DEF Inv
<1>2. QED
  BY <1>1, InvAlways, PTL

\* The teacher stays within its budget, and the student has its cooldown,
\* whatever the teacher answers and however long the episode is.
THEOREM RescuesAreSpaced == Spec => []RescueSpaced
<1>1. Inv => RescueSpaced
  <2> SUFFICES ASSUME Inv PROVE RescueSpaced
    OBVIOUS
  <2>1. Cardinality(Called) <= MaxCalls
    <3>1. IsFiniteSet(1 .. Len(steps)) /\ Called \subseteq 1 .. Len(steps)
      BY FS_Interval DEF Inv, StepTypeOK, Called
    <3>2. Cardinality(Called) \in Nat
      BY <3>1, FS_Subset, FS_CardinalityType
    <3>3. QED
      BY <3>2, StepLoopAssumption DEF Inv, RescueInv, StepTypeOK
  <2>2. QED
    BY <2>1 DEF Inv, RescueInv, RescueSpaced, Called
<1>2. QED
  BY <1>1, InvAlways, PTL

\* The guard's history is that of the executed actions.
THEOREM GuardSeesExecuted == Spec => []LoopsAreExecuted
<1>1. Inv => LoopsAreExecuted
  BY DEF Inv
<1>2. QED
  BY <1>1, InvAlways, PTL

\* An attempt that returns has rows, and they are complete.
THEOREM ReturnedRowsComplete == Spec => []RowsComplete
<1>1. Inv => RowsComplete
  <2> SUFFICES ASSUME Inv, phase = "returned" PROVE RowsComplete
    BY DEF RowsComplete
  <2>1. StepTypeOK /\ LengthInv /\ QueryInv /\ ScoreInv
    BY DEF Inv
  <2>2. 1 \in DOMAIN steps /\ ~steps[1].skipped
    BY <2>1 DEF LengthInv, Scoring, QueryInv, StepTypeOK
  <2>3. 1 \in Rows
    BY <2>2 DEF Rows
  <2>4. QED
    BY <2>1, <2>3 DEF RowsComplete, QueryInv, ScoreInv
<1>2. QED
  BY <1>1, InvAlways, PTL

\* No task outlives its attempt but those its rows carry.
THEOREM TasksAreOwned == Spec => []NothingOrphaned
<1>1. Inv => NothingOrphaned
  <2> SUFFICES ASSUME Inv PROVE NothingOrphaned
    OBVIOUS
  <2>1. QueryInv
    BY DEF Inv
  <2>2. queries \subseteq Rows
    BY <2>1 DEF QueryInv
  <2>3. QED
    BY <2>1, <2>2 DEF QueryInv, NothingOrphaned
<1>2. QED
  BY <1>1, InvAlways, PTL

-----------------------------------------------------------------------------
(* The record of the steps.  What a row is trained on is read off the steps *)
(* when the attempt returns: nothing that happened is written over until    *)
(* then.                                                                    *)

\* A step that waits for its process reward has none yet.
JudgedOpen == phase # "returned" => \A i \in judgements : steps[i].score = "none"

Stands ==
  /\ \A i \in DOMAIN steps :
       /\ i \in DOMAIN steps'
       /\ Kept(steps[i], steps'[i])
       /\ steps[i].skipped => steps'[i].skipped
       /\ steps[i].score # "none" => steps'[i].score = steps[i].score
  /\ queries' \cap DOMAIN steps \subseteq queries
  /\ judgements \subseteq judgements'

LEMMA SettleStands ==
  ASSUME JudgedOpen, NEW p, NEW called, NEW applied, Settled(p, called, applied)
  PROVE  Stands /\ JudgedOpen'
<1> USE DEF Settled
<1>1. StepTypeOK
  BY DEF Inv
<1>2. Len(steps) \in Nat /\ DOMAIN steps = 1 .. Len(steps)
  BY <1>1 DEF StepTypeOK
<1>3. /\ DOMAIN steps' = 1 .. Len(steps) + 1
      /\ \A i \in DOMAIN steps :
           /\ Kept(steps[i], steps'[i])
           /\ steps'[i].score = steps[i].score
           /\ steps'[i].skipped <=> steps[i].skipped \/ i \in Repeated(p)
  BY <1>1, <1>2, SettleSteps
<1>4. queries' \cap DOMAIN steps \subseteq queries
  <2>1. Submitted(p) \cap DOMAIN steps = {}
    BY <1>2 DEF Submitted
  <2>2. QED
    BY <2>1 DEF Settle
<1>5. JudgedOpen'
  BY <1>1, <1>3 DEF JudgedOpen, StepTypeOK, Asking
<1>6. DOMAIN steps \subseteq DOMAIN steps'
  BY <1>2, <1>3
<1>7. QED
  BY <1>3, <1>4, <1>5, <1>6 DEF Stands

\* The last step gets a score, and nobody was to give it another.
LEMMA ScoreStands ==
  ASSUME Inv, JudgedOpen, NEW score \in Score, steps # <<>>,
         steps[Len(steps)].score = "none", Len(steps) \notin judgements,
         steps' = [steps EXCEPT ![Len(steps)] = Scored(steps[Len(steps)], score)],
         UNCHANGED <<queries, judgements>>, phase # "returned"
  PROVE  Stands /\ JudgedOpen'
<1> DEFINE n == Len(steps)
<1>1. StepTypeOK
  BY DEF Inv
<1>2. n \in Nat /\ DOMAIN steps = 1 .. n /\ n \in DOMAIN steps
  <2>1. n \in Nat /\ DOMAIN steps = 1 .. n /\ n # 0
    BY <1>1 DEF StepTypeOK
  <2>2. QED
    BY <2>1
<1>3. /\ DOMAIN steps' = DOMAIN steps
      /\ steps'[n] = Scored(steps[n], score)
      /\ \A i \in DOMAIN steps \ {n} : steps'[i] = steps[i]
  BY <1>2
<1>4. Kept(steps[n], steps'[n]) /\ steps'[n].skipped = steps[n].skipped
  BY <1>1, <1>2, <1>3, ScoredStep DEF StepTypeOK
<1>5. \A i \in DOMAIN steps \ {n} : Kept(steps[i], steps'[i])
  BY <1>3 DEF Kept
<1>6. JudgedOpen'
  BY <1>1, <1>3 DEF JudgedOpen, StepTypeOK
<1>7. QED
  BY <1>3, <1>4, <1>5, <1>6 DEF Stands

LEMMA ActStands ==
  ASSUME Inv, JudgedOpen, Act
  PROVE  Stands /\ JudgedOpen'
<1> DEFINE n == Len(steps)
           final == steps[n].action = "answer" \/ n = MaxSteps
           judged == ~final /\ config.estimator = "gigpo" /\ ~steps[n].looped
           score == IF config.estimator = "gigpo" THEN "rule" ELSE "unused"
<1>1. StepTypeOK /\ LengthInv /\ ScoreInv
  BY DEF Inv
<1>2. /\ phase = "act"
      /\ steps' = IF final \/ judged THEN steps
                  ELSE [steps EXCEPT ![n] = Scored(@, score)]
      /\ judgements' = IF judged THEN judgements \cup {n} ELSE judgements
      /\ queries' = queries
  BY DEF Act
<1>3. steps # <<>> /\ steps[n].score = "none" /\ n \notin judgements
  BY <1>1, <1>2 DEF LengthInv, ScoreInv, Acting
<1>4. CASE final \/ judged
  <2>1. steps' = steps /\ judgements \subseteq judgements'
    BY <1>2, <1>4
  <2>2. \A i \in judgements' : steps'[i].score = "none"
    BY <1>2, <1>3, <1>4 DEF JudgedOpen
  <2>3. QED
    BY <1>2, <2>1, <2>2 DEF Stands, JudgedOpen, Kept
<1>5. CASE ~(final \/ judged)
  <2>1. score \in Score
    BY DEF Score
  <2>2. steps' = [steps EXCEPT ![n] = Scored(steps[n], score)]
        /\ UNCHANGED <<queries, judgements>>
    BY <1>2, <1>5
  <2> HIDE DEF score
  <2>3. QED
    BY <1>2, <1>3, <2>1, <2>2, ScoreStands
<1>6. QED
  BY <1>4, <1>5

LEMMA CollectStands ==
  ASSUME Inv, JudgedOpen, Collect
  PROVE  Stands /\ JudgedOpen'
<1>1. StepTypeOK
  BY DEF Inv
<1>2. PICK failed : steps' = [i \in DOMAIN steps |->
        IF i \notin judgements THEN steps[i]
        ELSE Scored(steps[i], IF i \in failed THEN "unscored" ELSE "judge")]
  BY DEF Collect
<1>3. ASSUME NEW i \in DOMAIN steps
      PROVE  /\ Kept(steps[i], steps'[i])
             /\ steps'[i].skipped = steps[i].skipped
             /\ steps[i].score # "none" => steps'[i].score = steps[i].score
  <2>1. CASE i \notin judgements
    BY <1>2, <2>1 DEF Kept
  <2>2. CASE i \in judgements
    <3> DEFINE score == IF i \in failed THEN "unscored" ELSE "judge"
    <3>1. steps'[i] = Scored(steps[i], score)
      BY <1>2, <2>2
    <3>2. score \in Score /\ steps[i] \in Step
      BY <1>1 DEF Score, StepTypeOK
    <3>3. steps[i].score = "none"
      BY <2>2 DEF JudgedOpen, Collect
    <3> HIDE DEF score
    <3>4. QED
      BY <3>1, <3>2, <3>3, ScoredStep
  <2>3. QED
    BY <2>1, <2>2
<1>4. DOMAIN steps' = DOMAIN steps
  BY <1>2
<1>5. QED
  BY <1>3, <1>4 DEF Stands, JudgedOpen, Collect, taskVars

LEMMA StandsNext ==
  Inv /\ JudgedOpen /\ [Next]_vars => Stands /\ JudgedOpen'
<1> SUFFICES ASSUME Inv, JudgedOpen, [Next]_vars PROVE Stands /\ JudgedOpen'
  OBVIOUS
<1>1. CASE Generate
  <2>1. PICK p \in Proposal : Settle(p, FALSE, FALSE)
    BY <1>1 DEF Generate
  <2>2. QED
    BY <1>1, <2>1, SettleStands DEF Generate, Settled, Asking
<1>2. CASE TeacherApplied
  <2>1. PICK p \in Proposal : ~Looping(p) /\ Settle(p, TRUE, TRUE)
    BY <1>2 DEF TeacherApplied
  <2>2. QED
    BY <1>2, <2>1, SettleStands DEF TeacherApplied, Settled, Asking
<1>3. CASE TeacherRejected
  <2>1. proposal \in Proposal
    BY DEF Inv, StepTypeOK
  <2>2. QED
    BY <1>3, <2>1, SettleStands DEF TeacherRejected, Settled, Asking
<1>4. CASE Act
  BY <1>4, ActStands
<1>5. CASE Evaluate
  <2>1. /\ phase = "evaluate" /\ UNCHANGED <<queries, judgements>>
        /\ steps' = [steps EXCEPT ![Len(steps)]
                       = Scored(steps[Len(steps)], "final")]
    BY <1>5 DEF Evaluate, taskVars
  <2>2. /\ steps # <<>> /\ steps[Len(steps)].score = "none"
        /\ Len(steps) \notin judgements
    BY <2>1 DEF Inv, LengthInv, ScoreInv, Acting
  <2>3. "final" \in Score
    BY DEF Score
  <2>4. QED
    BY <2>1, <2>2, <2>3, ScoreStands
<1>6. CASE Collect
  BY <1>6, CollectStands
<1>7. CASE UNCHANGED <<steps, queries, judgements>>
           /\ (phase = "returned" => phase' = "returned")
  BY <1>7 DEF Stands, JudgedOpen, Kept
<1>8. QED
  BY <1>1, <1>2, <1>3, <1>4, <1>5, <1>6, <1>7
     DEF Next, CallTeacher, Fails, StopQueries, TaskEnds, Over, vars, taskVars

\* Steps are added and never rewritten: a step keeps its screen and its action,
\* a dropped one stays dropped and without a query, and a score is given once.
StepsStand == [][Stands]_vars

\* Whatever order the tasks end in, no score, flag or action of a step that was
\* taken is ever overwritten.
THEOREM StepsAreRecorded == Spec => StepsStand
<1>1. Init => JudgedOpen
  BY DEF Init, JudgedOpen
<1>2. QED
  BY <1>1, StandsNext, InvAlways, PTL DEF Spec, StepsStand

=============================================================================
