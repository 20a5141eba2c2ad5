----------------------------- MODULE Evaluation -----------------------------
(***************************************************************************)
(* OpenAIEvaluator (guiagentlab/evaluation/openai_runner.py): worker       *)
(* threads take jobs off a queue, run each in a container of ThreadPool,   *)
(* try again after a failure, and record one episode for each job.  An     *)
(* evaluation that was killed, or that raised, is run again over the same  *)
(* output directory and leaves out the jobs that have an episode there.    *)
(*                                                                         *)
(* A whole episode is one step with its possible outcomes.  Jobs are alike,*)
(* so their order in the queue is left open; a thread more than there are  *)
(* jobs finds the queue empty and ends, as if it had not been started.     *)
(***************************************************************************)
EXTENDS ThreadPool, Sequences

CONSTANTS
  Job,
  NoJob,
  MaxAttempts,
  RecordFailure,     \* exhausted_task_policy is "record_failure"
  MaxRuns            \* bound on the times the evaluation is run

ASSUME EvaluationAssumption ==
  /\ IsFiniteSet(Worker) /\ Worker # {}
  /\ IsFiniteSet(Job)
  /\ NoJob \notin Job
  /\ MaxAttempts \in Nat \ {0}
  /\ RecordFailure \in BOOLEAN
  /\ MaxRuns \in Nat \ {0}

VARIABLES
  episodes,  \* the "final_score" of each valid episode file of a job
  queue,
  abort,     \* _abort_event; _fatal_errors is non-empty
  outcome,   \* what `run' did
  counters,
  stage,     \* where the thread is
  job,
  attempt,
  result,    \* the attempt's score, or what it failed by
  dirty,     \* this process loaded a task there and has not torn it down
  runs

fileVars == <<episodes, runs>>
mainVars == <<queue, abort, outcome, counters>>
threadVars == <<stage, job, attempt, result>>
evalVars == <<poolVars, fileVars, mainVars, threadVars, dirty>>

Score == {"success", "failure"}

Stage ==
  {"look", "get", "acquire", "setup", "initialize", "episode", "teardown",
   "cleanup", "release", "quarantine", "retry", "write", "done", "fatal",
   "exit", "dead"}

\* The stages in which the thread's container is to be given back.
Holding ==
  {"setup", "initialize", "episode", "teardown", "cleanup", "release"}

Goto(w, s) == stage' = [stage EXCEPT ![w] = s]
Fail(w, r, s) ==
  /\ result' = [result EXCEPT ![w] = r]
  /\ Goto(w, s)

-----------------------------------------------------------------------------
(* run starts *)

\* Mutant: a job that failed is not taken as completed.
PendingUnsuccessful(ep) == {j \in Job : ep[j] = <<>> \/ ep[j][1] = "failure"}

\* _completed_jobs
Pending(ep) == {j \in Job : ep[j] = <<>>}

Recorded(ep, score) == {j \in Job : ep[j] # <<>> /\ ep[j][1] = score}

Counters(ep) ==
  [completed  |-> Cardinality(Job) - Cardinality(Pending(ep)),
   successful |-> Cardinality(Recorded(ep, "success")),
   failed     |-> Cardinality(Recorded(ep, "failure")),
   errors     |-> 0]

Init ==
  /\ PoolInit
  /\ episodes = [j \in Job |-> <<>>]
  /\ queue = Pending(episodes)
  /\ abort = FALSE
  /\ outcome = "none"
  /\ counters = Counters(episodes)
  /\ stage = [w \in Worker |-> "look"]
  /\ job = [w \in Worker |-> NoJob]
  /\ attempt = [w \in Worker |-> 1]
  /\ result = [w \in Worker |-> "none"]
  /\ dirty = [e \in Endpoint |-> FALSE]
  /\ runs = 1

\* The process ends or is killed, and the evaluation is run again.
Rerun ==
  /\ runs < MaxRuns
  /\ PoolRestart
  /\ queue' = Pending(episodes)
  /\ abort' = FALSE
  /\ outcome' = "none"
  /\ counters' = Counters(episodes)
  /\ stage' = [w \in Worker |-> "look"]
  /\ job' = [w \in Worker |-> NoJob]
  /\ attempt' = [w \in Worker |-> 1]
  /\ result' = [w \in Worker |-> "none"]
  /\ dirty' = [e \in Endpoint |-> FALSE]
  /\ runs' = runs + 1
  /\ UNCHANGED episodes

-----------------------------------------------------------------------------
(* The worker thread *)

\* while not self._abort_event.is_set()
Look(w) ==
  /\ stage[w] = "look"
  /\ Goto(w, IF abort THEN "exit" ELSE "get")
  /\ UNCHANGED <<poolVars, fileVars, mainVars, job, attempt, result, dirty>>

\* get_nowait
Get(w) ==
  /\ stage[w] = "get"
  /\ IF queue = {}
     THEN Goto(w, "exit") /\ UNCHANGED <<queue, job>>
     ELSE \E j \in queue :
            /\ queue' = queue \ {j}
            /\ job' = [job EXCEPT ![w] = j]
            /\ Goto(w, "acquire")
  /\ UNCHANGED <<poolVars, fileVars, abort, outcome, counters, attempt, result, dirty>>

\* Writing progress.json raises, outside the try that catches what a job
\* raises: the thread dies, before its job has begun or when it is over.
ProgressFails(w) ==
  /\ stage[w] = "look" \/ (stage[w] = "acquire" /\ attempt[w] = 1 /\ call[w] = "none")
  /\ job[w] # NoJob
  /\ Goto(w, "dead")
  /\ UNCHANGED <<poolVars, fileVars, mainVars, job, attempt, result, dirty>>

\* The thread is through with its job.
Forget(w) ==
  /\ Goto(w, "look")
  /\ attempt' = [attempt EXCEPT ![w] = 1]
  /\ result' = [result EXCEPT ![w] = "none"]

Done(w) ==
  /\ stage[w] = "done"
  /\ counters' = [counters EXCEPT !.completed = @ + 1,
       !.successful = IF result[w] = "success" THEN @ + 1 ELSE @,
       !.failed = IF result[w] = "failure" THEN @ + 1 ELSE @]
  /\ Forget(w)
  /\ UNCHANGED <<poolVars, fileVars, queue, abort, outcome, job, dirty>>

\* Mutant: the exception is logged and the thread goes on.
FatalGoesOn(w) ==
  /\ stage[w] = "fatal"
  /\ counters' = [counters EXCEPT !.completed = @ + 1, !.errors = @ + 1]
  /\ Forget(w)
  /\ UNCHANGED <<poolVars, fileVars, queue, abort, outcome, job, dirty>>

\* _run_job raised.
Fatal(w) ==
  /\ stage[w] = "fatal"
  /\ abort' = TRUE
  /\ counters' = [counters EXCEPT !.completed = @ + 1, !.errors = @ + 1]
  /\ Forget(w)
  /\ UNCHANGED <<poolVars, fileVars, queue, outcome, job, dirty>>

\* The threads are joined, and progress.json is written once more.
Join ==
  /\ outcome = "none"
  /\ \A w \in Worker : stage[w] \in {"exit", "dead"}
  /\ \/ outcome' = IF abort THEN "raised" ELSE "returned"
     \/ outcome' = "raised"
  /\ UNCHANGED <<poolVars, fileVars, queue, abort, counters, threadVars, dirty>>

-----------------------------------------------------------------------------
(* An attempt of _run_job *)

Acquire(w) ==
  /\ stage[w] = "acquire"
  /\ \/ /\ AcquireCall(w) \/ AcquireWaits(w) \/ Expire(w)
        /\ UNCHANGED <<stage, result>>
     \/ AcquireLease(w) /\ Goto(w, "setup") /\ UNCHANGED result
     \/ AcquireRaises(w) /\ Fail(w, "infrastructure", "retry")
  /\ UNCHANGED <<fileVars, mainVars, job, attempt, dirty>>

\* health, initialize_controller and the task's goal
SetUp(w) ==
  /\ stage[w] = "setup"
  /\ \/ Goto(w, "initialize") /\ UNCHANGED result
     \/ Fail(w, "infrastructure", "quarantine")
  /\ UNCHANGED <<poolVars, fileVars, mainVars, job, attempt, dirty>>

\* initialize_task may raise though the task is loaded.
InitializeTask(w) ==
  /\ stage[w] = "initialize"
  /\ \/ /\ dirty' = [dirty EXCEPT ![lease[w]] = TRUE]
        /\ Goto(w, "episode")
        /\ UNCHANGED result
     \/ /\ \E loaded \in BOOLEAN : dirty' = [dirty EXCEPT ![lease[w]] = loaded]
        /\ Fail(w, "infrastructure", "quarantine")
  /\ UNCHANGED <<poolVars, fileVars, mainVars, job, attempt>>

\* Mutant: an unexpected exception leaves the container leased.
EpisodeRaisesFatal(w) ==
  \/ \E r \in {"infrastructure", "model"} : Fail(w, r, "cleanup")
  \/ Fail(w, "internal", "fatal")

EpisodeRaises(w) ==
  \/ \E r \in {"infrastructure", "model"} : Fail(w, r, "cleanup")
  \/ Fail(w, "internal", "quarantine")

\* The first screenshot, _run_attempt and its score
Episode(w) ==
  /\ stage[w] = "episode"
  /\ \/ \E score \in Score : Fail(w, score, "teardown")
     \/ EpisodeRaises(w)
  /\ UNCHANGED <<poolVars, fileVars, mainVars, job, attempt, dirty>>

\* Mutant: a container that served a model failure is released anyhow.
CleanedUpUnchecked(w, tornDown) ==
  IF result[w] \in Score \cup {"model"} THEN "release" ELSE "quarantine"

\* A score, or a failure of the model alone, lets the container go back when
\* its task is gone.
CleanedUp(w, tornDown) ==
  IF tornDown /\ result[w] \in Score \cup {"model"}
  THEN "release" ELSE "quarantine"

\* tear_down, after the score or in the handler of failures
TearDown(w) ==
  /\ stage[w] \in {"teardown", "cleanup"}
  /\ \E tornDown, loaded \in BOOLEAN :
       /\ tornDown => ~loaded
       /\ dirty' = [dirty EXCEPT ![lease[w]] = loaded]
       /\ Goto(w, CleanedUp(w, tornDown))
  /\ UNCHANGED <<poolVars, fileVars, mainVars, job, attempt, result>>

AfterGiveBack(w) ==
  IF result[w] \in Score THEN "write"
  ELSE IF result[w] = "internal" THEN "fatal" ELSE "retry"

GiveBack(w) ==
  /\ \/ stage[w] = "release" /\ Release(w) /\ Goto(w, AfterGiveBack(w))
     \/ /\ stage[w] = "quarantine"
        /\ \/ (Quarantine(w) \/ QuarantineMark(w)) /\ UNCHANGED stage
           \/ QuarantineMarkFails(w) /\ Goto(w, "fatal")
           \/ QuarantineSchedule(w) /\ Goto(w, AfterGiveBack(w))
  /\ UNCHANGED <<fileVars, mainVars, job, attempt, result, dirty>>

\* Mutants: one attempt too many, and the same attempt for ever.
LastAttemptLate(w) == attempt[w] > MaxAttempts
NextAttemptSame(w) == attempt[w]

LastAttempt(w) == attempt[w] = MaxAttempts
NextAttempt(w) == attempt[w] + 1

\* The failed attempt is recorded, which may raise, and the next one begins.
Retry(w) ==
  /\ stage[w] = "retry"
  /\ \/ Goto(w, "fatal") /\ UNCHANGED <<attempt, result>>
     \/ /\ ~LastAttempt(w)
        /\ attempt' = [attempt EXCEPT ![w] = NextAttempt(w)]
        /\ Fail(w, "none", "acquire")
     \/ /\ LastAttempt(w)
        /\ IF RecordFailure THEN Fail(w, "failure", "write")
           ELSE Goto(w, "fatal") /\ UNCHANGED result
        /\ UNCHANGED attempt
  /\ UNCHANGED <<poolVars, fileVars, mainVars, job, dirty>>

\* write_episode puts the file in place and then its index entry.
WriteEpisode(w) ==
  /\ stage[w] = "write"
  /\ \E placed, indexed \in BOOLEAN :
       /\ indexed => placed
       /\ episodes' = IF placed
                      THEN [episodes EXCEPT ![job[w]] = Append(@, result[w])]
                      ELSE episodes
       /\ Goto(w, IF indexed THEN "done" ELSE "fatal")
  /\ UNCHANGED <<poolVars, runs, mainVars, job, attempt, result, dirty>>

\* The pool's recovery threads; an accepted container has no task left in it.
Recover(e) ==
  /\ RecoveryStep(e)
  /\ dirty' = [dirty EXCEPT ![e] = @ /\ task'[e] # "recovered"]
  /\ UNCHANGED <<fileVars, mainVars, threadVars>>

-----------------------------------------------------------------------------

ThreadStep(w) ==
  \/ Look(w) \/ Get(w) \/ Done(w) \/ Fatal(w)
  \/ Acquire(w) \/ SetUp(w) \/ InitializeTask(w) \/ Episode(w)
  \/ TearDown(w) \/ GiveBack(w) \/ Retry(w) \/ WriteEpisode(w)

Next ==
  \/ \E w \in Worker : ThreadStep(w) \/ ProgressFails(w)
  \/ \E e \in Endpoint : Recover(e)
  \/ Join
  \/ Rerun

Spec == Init /\ [][Next]_evalVars

\* Threads run, requests and recoveries end, and every acquire has a deadline
\* (acquire_timeout), which passes.
Fairness ==
  /\ \A w \in Worker : WF_evalVars(ThreadStep(w))
  /\ \A e \in Endpoint : WF_evalVars(Recover(e))
  /\ WF_evalVars(Join)

FairSpec == Spec /\ Fairness

-----------------------------------------------------------------------------
(* Properties *)

EvaluationTypeOK ==
  /\ episodes \in [Job -> Seq(Score)]
  /\ queue \subseteq Job
  /\ abort \in BOOLEAN
  /\ outcome \in {"none", "returned", "raised"}
  /\ stage \in [Worker -> Stage]
  /\ job \in [Worker -> Job \cup {NoJob}]
  /\ attempt \in [Worker -> 1..MaxAttempts]
  /\ result \in [Worker -> Score \cup
                   {"none", "infrastructure", "model", "internal"}]
  /\ dirty \in [Endpoint -> BOOLEAN]
  /\ runs \in 1..MaxRuns

\* However often the evaluation is killed and run again, and wherever it was
\* when it died, no job has two episodes: the next start would raise
\* "duplicate completed trajectory".
RecordedOnce == \A j \in Job : Len(episodes[j]) <= 1

\* An evaluation that returns, rather than raises, has an episode for every
\* job, and what it reports is what is on disk, unless a thread died over its
\* progress file.
ReturnsComplete ==
  outcome = "returned" /\ (\A w \in Worker : stage[w] # "dead") =>
    /\ Pending(episodes) = {}
    /\ counters = Counters(episodes)

\* "Partial results must not be summarized": an evaluation that has not
\* recorded every job raises.
PartialNeverReturned == outcome = "returned" => Pending(episodes) = {}

\* A container that can be leased has no task of this evaluation left in it.
CleanHandOver == \A e \in Endpoint : state[e] = "available" => ~dirty[e]

\* Whatever path a job takes to its end, its container has been given back.
LeaseReturned ==
  \A w \in Worker :
    HoldsLease(w) => stage[w] \in Holding \cup {"quarantine"}

\* Every evaluation ends, or is killed: no thread waits for a container, or
\* tries a job, for ever.
EvaluationEnds == []<>(outcome # "none")

=============================================================================
