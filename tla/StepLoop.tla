------------------------------ MODULE StepLoop ------------------------------
(***************************************************************************)
(* One attempt at an episode: MobileWorldAgentLoop._run_valid_attempt and  *)
(* _run_valid_attempt_impl (guiagentlab/rollout/agent.py), with the loop   *)
(* guard (reward/loop_guard.py) and the budget of teacher rescues          *)
(* (rollout/teacher_intervention.py).  An action is what the coroutine does*)
(* between two awaits that matter; meanwhile the asyncio tasks it started  *)
(* run: one per teacher query and one per process reward.                  *)
(*                                                                         *)
(* Steps are numbered from 1.  A screenshot is its fingerprint, an action  *)
(* its normalized key; the actions without environment effect or with a    *)
(* terminal one are told apart, the others are Gestures.  ask_user is left *)
(* out: the constructor refuses it.  Rewards are left out but for where    *)
(* they come from.                                                         *)
(***************************************************************************)
EXTENDS Naturals, Sequences, FiniteSets

CONSTANTS
  Screen,
  Gesture,
  Configs,            \* the settings the attempt may run under
  MaxSteps,
  RepeatThreshold, MaxCycleLength,
  MaxCalls, CooldownSteps, NoChangeThreshold

Estimator == {"gigpo", "admire_grpo", "grpo"}

ASSUME StepLoopAssumption ==
  /\ Configs \subseteq [estimator : Estimator, teacher : BOOLEAN,
                        rescue : BOOLEAN, skip : BOOLEAN, loopGuard : BOOLEAN]
  /\ Gesture \cap {"wait", "answer", "status"} = {}
  /\ MaxSteps \in Nat \ {0}
  /\ RepeatThreshold \in Nat \ {0, 1}
  /\ MaxCycleLength \in Nat
  /\ MaxCalls \in Nat
  /\ CooldownSteps \in Nat
  /\ NoChangeThreshold \in Nat \ {0}

VARIABLES
  config,     \* the attempt's settings
  phase,
  steps,      \* gigpo_steps
  screen,     \* current_anchor, current_anchor_detail
  still,      \* no_change_streak
  proposal,   \* the student's action while the teacher is asked for another
  guard,      \* loop_guard._history
  calls, cooldown,  \* teacher_intervention.calls, .cooldown_remaining
  queries,    \* the keys of pending_teacher_queries
  judgements, \* the keys of pending_process_rewards
  live        \* the tasks that have not ended

rescueVars == <<calls, cooldown>>
taskVars == <<queries, judgements, live>>
vars == <<config, phase, steps, screen, still, proposal, guard, rescueVars,
          taskVars>>

Action == Gesture \cup {"wait", "answer", "status"}

\* What parse_action_or_wait makes of a model's text; ask_user is made a wait.
Proposal == {p \in [action : Action, valid : BOOLEAN] :
               p.valid \/ p.action = "wait"}

Score == {"none", "judge", "unscored", "rule", "unused", "final"}

Step == [screen : Screen, action : Action, valid : BOOLEAN, called : BOOLEAN,
         applied : BOOLEAN, looped : BOOLEAN, skipped : BOOLEAN, score : Score]

Phase == {"generate", "rescue", "act", "evaluate", "collect", "stopping",
          "returned", "raised"}

Query(i) == <<"query", i>>
Judgement(i) == <<"judgement", i>>

RescueEnabled == config.rescue /\ config.teacher

GuardEnabled ==
  /\ config.loopGuard
  /\ \/ config.estimator \in {"gigpo", "admire_grpo"}
     \/ config.teacher /\ config.skip
     \/ RescueEnabled

-----------------------------------------------------------------------------
(* DeterministicLoopGuard.observe, of a history that ends with the step *)

Repeats(h) ==
  Cardinality({i \in DOMAIN h : h[i] = h[Len(h)]}) >= RepeatThreshold

Cycles(h) ==
  {n \in 2 .. MaxCycleLength :
     /\ 2 * n <= Len(h)
     /\ \A i \in Len(h) - n + 1 .. Len(h) : h[i] = h[i - n]}

Loops(h) == Repeats(h) \/ Cycles(h) # {}

\* Mutant: both rounds of a cycle are repeated steps.
RepeatedIndicesBoth(h) ==
  IF Repeats(h) THEN {Len(h)}
  ELSE LET n == CHOOSE n \in Cycles(h) : \A m \in Cycles(h) : n <= m
       IN Len(h) - 2 * n + 1 .. Len(h)

\* last_repeated_indices, when the history loops.
RepeatedIndices(h) ==
  IF Repeats(h) THEN {Len(h)}
  ELSE LET n == CHOOSE n \in Cycles(h) : \A m \in Cycles(h) : n <= m
       IN Len(h) - n + 1 .. Len(h)

\* Mutant: teacher_guard and student_guard are one object.
ObservedShared(p) ==
  Append(IF phase = "rescue" THEN Append(guard, <<screen, proposal.action>>)
         ELSE guard, <<screen, p.action>>)

\* A copy of the guard observes an action.
Observed(p) == Append(guard, <<screen, p.action>>)

Looping(p) == GuardEnabled /\ Loops(Observed(p))

-----------------------------------------------------------------------------

Init ==
  /\ config \in Configs
  /\ phase = "generate"
  /\ steps = <<>>
  /\ screen \in Screen
  /\ still = 0
  /\ proposal = [action |-> "wait", valid |-> FALSE]
  /\ guard = <<>>
  /\ calls = 0
  /\ cooldown = 0
  /\ queries = {}
  /\ judgements = {}
  /\ live = {}

NewStep(p, called, applied) ==
  [screen |-> screen, action |-> p.action, valid |-> p.valid, called |-> called,
   applied |-> applied, looped |-> Looping(p), skipped |-> FALSE,
   score |-> "none"]

\* The steps whose teacher queries are not worth their cost
Repeated(p) ==
  IF Looping(p) /\ config.teacher /\ config.skip
  THEN RepeatedIndices(Observed(p)) ELSE {}

Submitted(p) ==
  IF config.teacher THEN {Len(steps) + 1} \ Repeated(p) ELSE {}

\* The action is settled: the student's or, `applied', the teacher's.  The
\* repeated steps lose their queries; the step, unless it is one of them, gets
\* its own.
Settle(p, called, applied) ==
  LET i == Len(steps) + 1
  IN /\ steps' = [j \in 1 .. i |->
           LET s == IF j = i THEN NewStep(p, called, applied) ELSE steps[j]
           IN [s EXCEPT !.skipped = @ \/ j \in Repeated(p)]]
     /\ guard' = IF GuardEnabled THEN Observed(p) ELSE guard
     /\ queries' = (queries \ Repeated(p)) \cup Submitted(p)
     /\ live' = (live \ {Query(j) : j \in Repeated(p)})
                  \cup {Query(j) : j \in Submitted(p)}
     /\ phase' = IF p.action = "status" THEN "evaluate" ELSE "act"

\* Mutant: the decrement comes before the test.
InCooldownLate == cooldown > 1

\* ConservativeTeacherIntervention.start_step
InCooldown == cooldown > 0

\* Mutant: the cooldown is decremented come what may.
CooledAlways == cooldown - 1
Cooled == IF cooldown > 0 THEN cooldown - 1 ELSE 0

\* trigger_reasons
Triggers(p) ==
  /\ RescueEnabled
  /\ calls < MaxCalls
  /\ ~InCooldown
  /\ ~p.valid \/ Looping(p) \/ still >= NoChangeThreshold

\* The student's action is executed.
Generate ==
  /\ phase = "generate"
  /\ \E p \in Proposal :
       /\ ~Triggers(p)
       /\ Settle(p, FALSE, FALSE)
  /\ cooldown' = Cooled
  /\ UNCHANGED <<config, screen, still, proposal, calls, judgements>>

\* The teacher is called: the budget is spent before it answers.
CallTeacher ==
  /\ phase = "generate"
  /\ \E p \in Proposal :
       /\ Triggers(p)
       /\ proposal' = p
  /\ phase' = "rescue"
  /\ calls' = calls + 1
  /\ cooldown' = Cooled
  /\ UNCHANGED <<config, steps, screen, still, guard, taskVars>>

NoProposal == [action |-> "wait", valid |-> FALSE]

\* The teacher's action is good: it replaces the student's.
TeacherApplied ==
  /\ phase = "rescue"
  /\ \E p \in Proposal :
       /\ p.valid
       /\ ~Looping(p)
       /\ Settle(p, TRUE, TRUE)
  /\ proposal' = NoProposal
  /\ cooldown' = CooldownSteps
  /\ UNCHANGED <<config, screen, still, calls, judgements>>

\* The call fails, or the teacher's action is invalid or loops.
TeacherRejected ==
  /\ phase = "rescue"
  /\ Settle(proposal, TRUE, FALSE)
  /\ proposal' = NoProposal
  /\ UNCHANGED <<config, screen, still, rescueVars, judgements>>

Scored(s, score) == [s EXCEPT !.score = score]

\* client.step, the next screenshot, and the step's process reward.
Act ==
  LET i == Len(steps)
      final == steps[i].action = "answer" \/ i = MaxSteps
      judged == ~final /\ config.estimator = "gigpo" /\ ~steps[i].looped
  IN /\ phase = "act"
     /\ screen' \in Screen
     /\ still' = IF screen' = steps[i].screen THEN still + 1 ELSE 0
     /\ phase' = IF final THEN "evaluate" ELSE "generate"
     /\ steps' = IF final \/ judged THEN steps
                 ELSE [steps EXCEPT ![i] = Scored(@,
                   IF config.estimator = "gigpo" THEN "rule" ELSE "unused")]
     /\ judgements' = IF judged THEN judgements \cup {i} ELSE judgements
     /\ live' = IF judged THEN live \cup {Judgement(i)} ELSE live
     /\ UNCHANGED <<config, proposal, guard, rescueVars, queries>>

\* client.evaluate
Evaluate ==
  /\ phase = "evaluate"
  /\ steps' = [steps EXCEPT ![Len(steps)] = Scored(@, "final")]
  /\ phase' = "collect"
  /\ UNCHANGED <<config, screen, still, proposal, guard, rescueVars, taskVars>>

\* _collect_process_rewards, and the rows are returned.
Collect ==
  /\ phase = "collect"
  /\ \A i \in judgements : Judgement(i) \notin live
  /\ \E failed \in SUBSET judgements :
       steps' = [i \in DOMAIN steps |->
         IF i \notin judgements THEN steps[i]
         ELSE Scored(steps[i], IF i \in failed THEN "unscored" ELSE "judge")]
  /\ phase' = "returned"
  /\ UNCHANGED <<config, screen, still, proposal, guard, rescueVars, taskVars>>

\* The process rewards are cancelled and awaited, then the teacher queries.
Fails ==
  /\ phase \in {"generate", "rescue", "act", "evaluate", "collect"}
  /\ phase' = "stopping"
  /\ live' = live \ {Judgement(i) : i \in judgements}
  /\ UNCHANGED <<config, steps, screen, still, proposal, guard, rescueVars,
                 queries, judgements>>

\* Mutant: a query that was submitted last is forgotten.
StopQueriesButLast ==
  /\ phase = "stopping"
  /\ phase' = "raised"
  /\ live' = live \ {Query(i) : i \in queries \ {Len(steps)}}
  /\ UNCHANGED <<config, steps, screen, still, proposal, guard, rescueVars,
                 queries, judgements>>

StopQueries ==
  /\ phase = "stopping"
  /\ phase' = "raised"
  /\ live' = live \ {Query(i) : i \in queries}
  /\ UNCHANGED <<config, steps, screen, still, proposal, guard, rescueVars,
                 queries, judgements>>

TaskEnds ==
  /\ \E t \in live : live' = live \ {t}
  /\ UNCHANGED <<config, phase, steps, screen, still, proposal, guard,
                 rescueVars, queries, judgements>>

Over ==
  /\ phase \in {"returned", "raised"}
  /\ live = {}
  /\ UNCHANGED vars

Next ==
  \/ Generate \/ CallTeacher \/ TeacherApplied \/ TeacherRejected
  \/ Act \/ Evaluate \/ Collect
  \/ Fails \/ StopQueries
  \/ TaskEnds
  \/ Over

Spec == Init /\ [][Next]_vars

-----------------------------------------------------------------------------
(* Properties *)

\* The variables have their types.
StepTypeOK ==
  /\ config \in Configs
  /\ phase \in Phase
  /\ steps \in Seq(Step)
  /\ Len(steps) <= MaxSteps
  /\ screen \in Screen
  /\ still \in Nat
  /\ proposal \in Proposal
  /\ guard \in Seq(Screen \X Action)
  /\ calls \in 0 .. MaxCalls
  /\ cooldown \in 0 .. CooldownSteps
  /\ queries \subseteq DOMAIN steps
  /\ judgements \subseteq DOMAIN steps
  /\ live \subseteq {Query(i) : i \in DOMAIN steps}
                      \cup {Judgement(i) : i \in DOMAIN steps}

\* The teacher is a rescue, not a second player: it is called at most MaxCalls
\* times, whatever it answered, and after an action of its own the student has
\* CooldownSteps steps for itself.
RescueSpaced ==
  /\ Cardinality({i \in DOMAIN steps : steps[i].called}) <= MaxCalls
  /\ \A i, j \in DOMAIN steps :
       i < j /\ steps[i].applied /\ steps[j].called => j - i > CooldownSteps

\* Loops are those of the actions that were executed: proposals of either
\* model that came to nothing leave no trace in the guard, and a step lost its
\* row exactly when it belongs to the repeated part of an executed loop.
LoopsAreExecuted ==
  GuardEnabled =>
    /\ guard = [i \in DOMAIN steps |-> <<steps[i].screen, steps[i].action>>]
    /\ \A i \in DOMAIN steps :
         /\ steps[i].looped <=> Loops(SubSeq(guard, 1, i))
         /\ steps[i].skipped <=>
              /\ config.teacher /\ config.skip
              /\ \E j \in i .. Len(steps) :
                   /\ Loops(SubSeq(guard, 1, j))
                   /\ i \in RepeatedIndices(SubSeq(guard, 1, j))

\* An attempt that returns has a row to train on; each row has its teacher
\* query, and the dropped steps have none; and every step has its reward.
Rows == {i \in DOMAIN steps : ~(config.teacher /\ steps[i].skipped)}

RowsComplete ==
  phase = "returned" =>
    /\ Rows # {}
    /\ config.teacher => queries = Rows
    /\ \A i \in DOMAIN steps :
         /\ steps[i].score # "none"
         /\ steps[i].score = "final" <=> i = Len(steps)

\* No task outlives its attempt: a failed attempt leaves none behind, and one
\* that returned leaves the teacher queries its rows carry.
NothingOrphaned ==
  /\ phase = "raised" => live = {}
  /\ phase = "returned" => live \subseteq {Query(i) : i \in Rows}

=============================================================================
