--------------------------- MODULE EvaluationProofs --------------------------
(***************************************************************************)
(* The evaluation runner uses the pool as the pool's theorems assume, gives *)
(* every container back, hands none over with a task in it, and records no  *)
(* job twice: for any jobs, threads, pool and number of runs.               *)
(***************************************************************************)
EXTENDS Evaluation, ThreadPoolProofs, FiniteSetTheorems

\* Every step of the evaluation is one of the pool's or leaves the pool alone.
LEMMA PoolStep == [Next]_evalVars => [PoolNext]_poolVars
<1> SUFFICES ASSUME [Next]_evalVars PROVE PoolNext \/ UNCHANGED poolVars
  OBVIOUS
<1>1. ASSUME NEW w \in Worker, Acquire(w) \/ GiveBack(w) PROVE PoolNext
  BY <1>1
     DEF Acquire, GiveBack, PoolNext, AcquireStep, QuarantineStep
<1>2. ASSUME NEW w \in Worker, ThreadStep(w), ~Acquire(w), ~GiveBack(w)
      PROVE  UNCHANGED poolVars
  BY <1>2
     DEF ThreadStep, Look, Get, Done, Fatal, SetUp, InitializeTask, Episode,
         TearDown, Retry, WriteEpisode
<1>3. ASSUME NEW w \in Worker, ProgressFails(w) PROVE UNCHANGED poolVars
  BY <1>3 DEF ProgressFails
<1>4. ASSUME NEW e \in Endpoint, Recover(e) PROVE PoolNext
  BY <1>4 DEF Recover, PoolNext
<1>5. CASE Join
  BY <1>5 DEF Join
<1>6. CASE Rerun
  BY <1>6 DEF Rerun, PoolNext
<1>7. CASE UNCHANGED evalVars
  BY <1>7 DEF evalVars
<1>8. QED
  BY <1>1, <1>2, <1>3, <1>4, <1>5, <1>6, <1>7 DEF Next

\* What is proved of the threaded pool holds of the evaluation.
THEOREM EvaluationUsesPool == Spec => PoolSpec
<1>1. Init => PoolInit
  BY DEF Init
<1>2. QED
  BY <1>1, PoolStep, PTL DEF Spec, PoolSpec

\* So the evaluation's threads get their containers from a service of NActive
\* leases; those that wait are noticed, and never wait for each other only.
THEOREM PoolServesEvaluation ==
  Spec => /\ PoolServes
          /\ [](Cardinality(Leased(state)) <= NActive)
          /\ [](SomeoneLooks /\ SomebodyMoves)
BY EvaluationUsesPool, PoolImplementsService, PoolCapacity, WakeupsReach,
   ThreadsNeverStuck, PTL

-----------------------------------------------------------------------------
(* The inductive invariant *)

\* From Get to WriteEpisode a thread has a job of its own without an episode.
Unwritten == Holding \cup {"acquire", "quarantine", "retry", "write"}

JobBooks ==
  /\ \A j \in queue : episodes[j] = <<>>
  /\ \A w \in Worker : stage[w] \in Unwritten =>
       job[w] \in Job \ queue /\ episodes[job[w]] = <<>>
  /\ \A v, w \in Worker :
       stage[v] \in Unwritten /\ stage[w] \in Unwritten /\ job[v] = job[w]
         => v = w

\* What is written is a score.
ResultFits == \A w \in Worker : stage[w] \in {"teardown", "write"} => result[w] \in Score

\* A thread's place in the pool's operations follows from its stage.
Follows(w) ==
  /\ stage[w] \in Holding => call[w] = "none" /\ HoldsLease(w)
  /\ stage[w] = "quarantine" =>
       Quarantining(w) \/ (call[w] = "none" /\ HoldsLease(w))
  /\ stage[w] \notin Holding \cup {"quarantine"} =>
       /\ lease[w] = NoEndpoint
       /\ call[w] = "none" \/ (stage[w] = "acquire" /\ InAcquire(w))

LeaseFollows == \A w \in Worker : Follows(w)

\* A task is left only where nobody can lease the container, and not where its
\* thread is about to release it.
TaskContained ==
  /\ \A e \in Endpoint :
       state[e] = "available" \/ task[e] = "recovered" => ~dirty[e]
  /\ \A w \in Worker : stage[w] = "release" => ~dirty[lease[w]]

EvaluationInv ==
  /\ PoolInv
  /\ EvaluationTypeOK
  /\ RecordedOnce
  /\ JobBooks
  /\ ResultFits
  /\ LeaseFollows
  /\ TaskContained

LEMMA Bounds ==
  /\ 1 \in 1..MaxAttempts
  /\ 1 \in 1..MaxRuns
  /\ \A n \in 1..MaxAttempts : n # MaxAttempts => n + 1 \in 1..MaxAttempts
  /\ \A n \in 1..MaxRuns : n < MaxRuns => n + 1 \in 1..MaxRuns
BY EvaluationAssumption

LEMMA FreshEvaluation ==
  ASSUME PoolInv, \A w \in Worker : call[w] = "none" /\ lease[w] = NoEndpoint,
         dirty = [e \in Endpoint |-> FALSE],
         stage = [w \in Worker |-> "look"],
         queue = Pending(episodes)
  PROVE  JobBooks /\ ResultFits /\ LeaseFollows /\ TaskContained
<1>1. JobBooks
  BY DEF Pending, JobBooks, Unwritten, Holding
<1>2. ResultFits
  BY DEF ResultFits
<1>3. LeaseFollows
  BY DEF LeaseFollows, Follows, Holding
<1>4. TaskContained
  BY DEF TaskContained
<1>5. QED
  BY <1>1, <1>2, <1>3, <1>4

LEMMA EvaluationInit == Init => EvaluationInv
<1> SUFFICES ASSUME Init PROVE EvaluationInv
  OBVIOUS
<1>1. PoolInv
  BY PoolInvInit DEF Init
<1>2. episodes \in [Job -> Seq(Score)] /\ RecordedOnce
  BY DEF Init, RecordedOnce
<1>3. EvaluationTypeOK
  BY <1>2, Bounds DEF Init, EvaluationTypeOK, Pending, Stage
<1>4. JobBooks /\ ResultFits /\ LeaseFollows /\ TaskContained
  BY <1>1, FreshEvaluation DEF Init, PoolInit
<1>5. QED
  BY <1>1, <1>2, <1>3, <1>4 DEF EvaluationInv

LEMMA EvaluationRerun ==
  ASSUME EvaluationInv, Rerun
  PROVE  /\ EvaluationTypeOK' /\ RecordedOnce'
         /\ JobBooks' /\ ResultFits' /\ LeaseFollows' /\ TaskContained'
<1>1. EvaluationTypeOK' /\ RecordedOnce'
  BY Bounds
     DEF EvaluationInv, EvaluationTypeOK, RecordedOnce, Rerun, Pending, Stage
<1>2. JobBooks'
  BY DEF Rerun, Pending, JobBooks, Unwritten, Holding
<1>3. ResultFits'
  BY DEF Rerun, ResultFits
<1>4. LeaseFollows'
  BY DEF Rerun, PoolRestart, LeaseFollows, Follows, Holding
<1>5. TaskContained'
  BY DEF Rerun, TaskContained
<1>6. QED
  BY <1>1, <1>2, <1>3, <1>4, <1>5

-----------------------------------------------------------------------------
(* Types and jobs *)

LEMMA EvaluationTypeStep ==
  ASSUME EvaluationInv, NEW w \in Worker, ThreadStep(w) \/ ProgressFails(w)
  PROVE  EvaluationTypeOK'
<1> USE DEF EvaluationInv, EvaluationTypeOK, Stage, Goto, Fail, Forget,
            mainVars, fileVars
<1>1. CASE Look(w)
  BY <1>1 DEF Look
<1>2. CASE Get(w)
  BY <1>2 DEF Get
<1>3. CASE Done(w) \/ Fatal(w)
  BY <1>3, Bounds DEF Done, Fatal
<1>4. CASE ProgressFails(w)
  BY <1>4 DEF ProgressFails
<1>5. CASE Acquire(w)
  <2>1. CASE UNCHANGED <<stage, result>>
    BY <1>5, <2>1 DEF Acquire
  <2>2. CASE Goto(w, "setup") /\ UNCHANGED result
    BY <1>5, <2>2 DEF Acquire
  <2>3. CASE Fail(w, "infrastructure", "retry")
    BY <1>5, <2>3 DEF Acquire
  <2>4. QED
    BY <1>5, <2>1, <2>2, <2>3 DEF Acquire
<1>6. CASE SetUp(w)
  BY <1>6 DEF SetUp
<1>7. CASE InitializeTask(w)
  BY <1>7 DEF InitializeTask
<1>8. CASE Episode(w)
  BY <1>8 DEF Episode, EpisodeRaises, Score
<1>9. CASE TearDown(w)
  BY <1>9 DEF TearDown, CleanedUp
<1>10. CASE GiveBack(w)
  BY <1>10 DEF GiveBack, AfterGiveBack
<1>11. CASE Retry(w)
  <2>1. \/ attempt' = attempt
        \/ /\ attempt[w] # MaxAttempts
           /\ attempt' = [attempt EXCEPT ![w] = attempt[w] + 1]
    BY <1>11 DEF Retry, LastAttempt, NextAttempt
  <2>2. attempt' \in [Worker -> 1..MaxAttempts]
    <3>1. attempt \in [Worker -> 1..MaxAttempts]
      OBVIOUS
    <3>2. attempt[w] # MaxAttempts => attempt[w] + 1 \in 1..MaxAttempts
      BY <3>1, Bounds
    <3>3. QED
      BY <2>1, <3>1, <3>2
  <2>3. QED
    BY <1>11, <2>2 DEF Retry, Score
<1>12. CASE WriteEpisode(w)
  <2>1. result[w] \in Score /\ job[w] \in Job
    BY <1>12 DEF WriteEpisode, ResultFits, JobBooks, Unwritten
  <2>2. episodes' \in [Job -> Seq(Score)]
    BY <1>12, <2>1 DEF WriteEpisode
  <2>3. QED
    BY <1>12, <2>2 DEF WriteEpisode
<1>13. QED
  BY <1>1, <1>2, <1>3, <1>4, <1>5, <1>6, <1>7, <1>8, <1>9, <1>10, <1>11, <1>12
     DEF ThreadStep

\* Only w has moved.
Alone(w) ==
  \A v \in Worker \ {w} : stage'[v] = stage[v] /\ result'[v] = result[v]

LEMMA MovesAlone ==
  ASSUME EvaluationTypeOK, NEW w \in Worker, ThreadStep(w) \/ ProgressFails(w)
  PROVE  Alone(w)
BY DEF EvaluationTypeOK, ThreadStep, Look, Get, Done, Fatal, ProgressFails,
       Acquire, SetUp, InitializeTask, Episode, EpisodeRaises, TearDown,
       GiveBack, Retry, WriteEpisode, Goto, Fail, Forget, Alone

LEMMA JobStep ==
  ASSUME EvaluationInv, NEW w \in Worker, ThreadStep(w) \/ ProgressFails(w)
  PROVE  JobBooks' /\ RecordedOnce'
<1> USE DEF EvaluationInv, EvaluationTypeOK, JobBooks, RecordedOnce, Goto, Fail,
            Forget, mainVars, fileVars
<1>1. Alone(w)
  BY MovesAlone
<1>2. CASE Get(w)
  <2>1. UNCHANGED episodes /\ stage[w] \notin Unwritten
    BY <1>2 DEF Get, Unwritten, Holding
  <2>2. CASE queue = {}
    <3>1. UNCHANGED <<queue, job>> /\ stage'[w] \notin Unwritten
      BY <1>2, <2>2 DEF Get, Unwritten, Holding
    <3>2. QED
      BY <1>1, <2>1, <3>1 DEF Alone
  <2>3. CASE queue # {}
    <3>1. PICK j \in queue :
            queue' = queue \ {j} /\ job' = [job EXCEPT ![w] = j]
      BY <1>2, <2>3 DEF Get
    <3>2. QED
      BY <1>1, <2>1, <3>1 DEF Alone
  <2>4. QED
    BY <2>2, <2>3
<1>3. CASE WriteEpisode(w)
  <2>1. /\ stage[w] \in Unwritten /\ stage'[w] \notin Unwritten
        /\ UNCHANGED <<queue, job>>
    BY <1>3 DEF WriteEpisode, Unwritten, Holding
  <2>2. /\ \A j \in Job \ {job[w]} : episodes'[j] = episodes[j]
        /\ Len(episodes'[job[w]]) <= 1
    BY <1>3, <2>1 DEF WriteEpisode, ResultFits
  <2>3. QED
    BY <1>1, <2>1, <2>2 DEF Alone
<1>4. CASE ~Get(w) /\ ~WriteEpisode(w)
  <2>1. UNCHANGED <<episodes, queue, job>>
    BY <1>4
       DEF ThreadStep, Look, Done, Fatal, ProgressFails, Acquire, SetUp,
           InitializeTask, Episode, TearDown, GiveBack, Retry
  <2>2. stage'[w] \in Unwritten => stage[w] \in Unwritten
    BY <1>4
       DEF ThreadStep, Look, Done, Fatal, ProgressFails, Acquire, SetUp,
           InitializeTask, Episode, TearDown, GiveBack, Retry, Unwritten,
           Holding
  <2>3. QED
    BY <1>1, <2>1, <2>2 DEF Alone
<1>5. QED
  BY <1>2, <1>3, <1>4

LEMMA ResultStep ==
  ASSUME EvaluationInv, NEW w \in Worker, ThreadStep(w) \/ ProgressFails(w)
  PROVE  ResultFits'
<1> USE DEF EvaluationInv, EvaluationTypeOK, ResultFits, Goto, Fail, Forget,
            mainVars, fileVars
<1>1. CASE Episode(w)
  BY <1>1 DEF Episode, EpisodeRaises
<1>2. CASE TearDown(w)
  BY <1>2 DEF TearDown, CleanedUp
<1>3. CASE GiveBack(w)
  BY <1>3 DEF GiveBack, AfterGiveBack
<1>4. CASE Retry(w)
  BY <1>4 DEF Retry, Score
<1>5. CASE SetUp(w) \/ InitializeTask(w) \/ Acquire(w)
  BY <1>5 DEF SetUp, InitializeTask, Acquire
<1>6. CASE Look(w) \/ Get(w) \/ Done(w) \/ Fatal(w) \/ ProgressFails(w)
           \/ WriteEpisode(w)
  BY <1>6 DEF Look, Get, Done, Fatal, ProgressFails, WriteEpisode
<1>7. QED
  BY <1>1, <1>2, <1>3, <1>4, <1>5, <1>6 DEF ThreadStep

-----------------------------------------------------------------------------
(* Leases *)

\* What a step of somebody else leaves a thread with.
Keeps(v) ==
  /\ lease'[v] = lease[v]
  /\ call'[v] = call[v] \/ (call[v] = "waiting" /\ call'[v] = "testing")
  /\ HoldsLease(v) => HoldsLease(v)'

LEMMA OthersKeep ==
  ASSUME PoolInv, NEW w \in Worker, NEW v \in Worker \ {w},
         \/ AcquireCall(w) \/ AcquireStep(w) \/ Expire(w)
         \/ Release(w) \/ Quarantine(w) \/ QuarantineStep(w)
  PROVE  Keeps(v)
<1> USE DEF PoolInv, PoolTypeOK, Keeps, HoldsLease, WakesWaiters, containerVars,
            recoveryVars
<1>1. CASE AcquireLease(w)
  <2>1. PICK e \in Endpoint :
          /\ e \in LeaseCandidates(state)
          /\ state' = [state EXCEPT ![e] = "leased"]
          /\ holder' = [holder EXCEPT ![e] = w]
          /\ lease' = [lease EXCEPT ![w] = e]
    BY <1>1 DEF AcquireLease, FirstOf
  <2>2. state[e] = "available"
    BY <2>1, CandidatesAreAvailable
  <2>3. QED
    BY <1>1, <2>1, <2>2 DEF AcquireLease
<1>2. CASE AcquireCall(w) \/ AcquireRaises(w) \/ AcquireWaits(w) \/ Expire(w)
  BY <1>2 DEF AcquireCall, AcquireRaises, AcquireWaits, Expire
<1>3. CASE Release(w)
  <2>1. WakesWaiters(Worker)
    BY <1>3, NotifyOneWakes DEF Release
  <2>2. QED
    BY <1>3, <2>1 DEF Release
<1>4. CASE Quarantine(w)
  <2>1. WakesWaiters(Worker \ {w})
    BY <1>4, NotifyAllAndGoWakes DEF Quarantine, CallState
  <2>2. QED
    BY <1>4, <2>1 DEF Quarantine
<1>5. CASE QuarantineMark(w) \/ QuarantineMarkFails(w)
  BY <1>5 DEF QuarantineMark, QuarantineMarkFails
<1>6. CASE QuarantineSchedule(w)
  <2>1. WakesWaiters(Worker \ {w})
    BY <1>6, NotifyAllAndGoWakes DEF QuarantineSchedule, CallState
  <2>2. state[lease[w]] = "quarantined"
    BY <1>6 DEF QuarantineSchedule, QuarantineOwnsContainer, Quarantining
  <2>3. QED
    BY <1>6, <2>1, <2>2 DEF QuarantineSchedule
<1>7. QED
  BY <1>1, <1>2, <1>3, <1>4, <1>5, <1>6 DEF AcquireStep, QuarantineStep

LEMMA RecoveryKeeps ==
  ASSUME PoolInv, NEW e \in Endpoint, RecoveryStep(e), NEW v \in Worker
  PROVE  Keeps(v)
<1> USE DEF PoolInv, PoolTypeOK, Keeps, HoldsLease, WakesWaiters, containerVars,
            callVars
<1>1. CASE RecoveryConcludes(e)
  BY <1>1 DEF RecoveryConcludes
<1>2. CASE RecoveryEnds(e)
  <2>1. WakesWaiters(Worker)
    BY <1>2, NotifyAllWakes DEF RecoveryEnds
  <2>2. QED
    BY <1>2, <2>1 DEF RecoveryEnds
<1>3. QED
  BY <1>1, <1>2 DEF RecoveryStep

LEMMA KeepsFollowing ==
  ASSUME NEW v \in Worker, Follows(v), Keeps(v), stage'[v] = stage[v]
  PROVE  Follows(v)'
BY DEF Follows, Keeps, Quarantining, InAcquire

\* Where a thread that acquires, or gives back, goes.
LEMMA AcquireFollows ==
  ASSUME EvaluationInv, NEW w \in Worker, Acquire(w)
  PROVE  Follows(w)'
<1> USE DEF EvaluationInv, EvaluationTypeOK, PoolInv, PoolTypeOK, LeaseFollows,
            Follows, Holding, HoldsLease, Goto, Fail, containerVars,
            recoveryVars
<1>1. stage[w] = "acquire" /\ lease[w] = NoEndpoint
  BY DEF Acquire
<1>2. CASE (AcquireCall(w) \/ AcquireWaits(w) \/ Expire(w)) /\ UNCHANGED stage
  BY <1>1, <1>2 DEF AcquireCall, AcquireWaits, Expire, InAcquire
<1>3. CASE AcquireLease(w) /\ Goto(w, "setup")
  BY <1>1, <1>3 DEF AcquireLease, FirstOf
<1>4. CASE AcquireRaises(w) /\ Fail(w, "infrastructure", "retry")
  BY <1>1, <1>4 DEF AcquireRaises
<1>5. QED
  BY <1>2, <1>3, <1>4 DEF Acquire

LEMMA GiveBackFollows ==
  ASSUME EvaluationInv, NEW w \in Worker, GiveBack(w)
  PROVE  Follows(w)'
<1> USE DEF EvaluationInv, EvaluationTypeOK, PoolInv, PoolTypeOK, LeaseFollows,
            Follows, Holding, Goto, containerVars, recoveryVars
<1>1. AfterGiveBack(w) \in {"write", "fatal", "retry"}
  BY DEF AfterGiveBack
<1>2. CASE Release(w) /\ Goto(w, AfterGiveBack(w))
  <2>1. WakesWaiters(Worker)
    BY <1>2, NotifyOneWakes DEF Release
  <2>2. QED
    BY <1>1, <1>2, <2>1 DEF Release, WakesWaiters
<1>3. CASE stage[w] = "quarantine" /\ Quarantine(w) /\ UNCHANGED stage
  <2>1. call'[w] = "mark"
    BY <1>3, NotifyAllAndGoWakes DEF Quarantine, CallState
  <2>2. QED
    BY <1>3, <2>1 DEF Quarantining
<1>4. CASE stage[w] = "quarantine" /\ QuarantineMark(w) /\ UNCHANGED stage
  BY <1>4 DEF QuarantineMark, Quarantining
<1>5. CASE QuarantineMarkFails(w) /\ Goto(w, "fatal")
  BY <1>5 DEF QuarantineMarkFails
<1>6. CASE QuarantineSchedule(w) /\ Goto(w, AfterGiveBack(w))
  <2>1. call'[w] = "none"
    BY <1>6, NotifyAllAndGoWakes DEF QuarantineSchedule, CallState
  <2>2. QED
    BY <1>1, <1>6, <2>1 DEF QuarantineSchedule
<1>7. QED
  BY <1>2, <1>3, <1>4, <1>5, <1>6 DEF GiveBack

LEMMA LeaseStep ==
  ASSUME EvaluationInv, NEW w \in Worker, ThreadStep(w) \/ ProgressFails(w)
  PROVE  LeaseFollows'
<1> USE DEF EvaluationInv, LeaseFollows
<1>1. Alone(w)
  BY MovesAlone
<1>2. CASE Acquire(w) \/ GiveBack(w)
  <2>1. ASSUME NEW v \in Worker \ {w} PROVE Follows(v)'
    <3>1. Keeps(v)
      BY <1>2, OthersKeep DEF Acquire, GiveBack, AcquireStep, QuarantineStep
    <3>2. QED
      BY <1>1, <3>1, KeepsFollowing DEF Alone
  <2>2. Follows(w)'
    BY <1>2, AcquireFollows, GiveBackFollows
  <2>3. QED
    BY <2>1, <2>2
<1>3. CASE ~Acquire(w) /\ ~GiveBack(w)
  <2>1. UNCHANGED <<state, holder, call, lease>>
    BY <1>3
       DEF ThreadStep, Look, Get, Done, Fatal, ProgressFails, SetUp,
           InitializeTask, Episode, TearDown, Retry, WriteEpisode, poolVars,
           containerVars, callVars
  <2>2. ASSUME NEW v \in Worker \ {w} PROVE Follows(v)'
    BY <1>1, <2>1, KeepsFollowing DEF Alone, Keeps, HoldsLease
  <2>3. \/ stage[w] \in Holding /\ stage'[w] \in Holding \cup {"quarantine"}
        \/ /\ stage[w] \notin Holding \cup {"quarantine"}
           /\ stage'[w] \notin Holding \cup {"quarantine"}
           /\ call[w] = "none"
    BY <1>3
       DEF ThreadStep, Look, Get, Done, Fatal, ProgressFails, SetUp,
           InitializeTask, Episode, EpisodeRaises, TearDown, CleanedUp, Retry,
           WriteEpisode, Goto, Fail, Forget, Follows, Holding, EvaluationTypeOK
  <2>4. Follows(w)'
    BY <2>1, <2>3 DEF Follows, HoldsLease, Holding
  <2>5. QED
    BY <2>2, <2>4
<1>4. QED
  BY <1>2, <1>3

-----------------------------------------------------------------------------
(* Tasks *)

\* The pool alone makes no container available or recovered, but for the one
\* that is released and the one whose recovery concludes.
LEMMA TaskStep ==
  ASSUME EvaluationInv, NEW w \in Worker, ThreadStep(w) \/ ProgressFails(w)
  PROVE  TaskContained'
<1> USE DEF EvaluationInv, EvaluationTypeOK, PoolInv, PoolTypeOK, TaskContained,
            Goto, Fail, Forget, mainVars, fileVars
<1>1. Alone(w)
  BY MovesAlone
<1>2. \A v \in Worker : stage[v] \in Holding =>
        lease[v] \in Endpoint /\ state[lease[v]] = "leased" /\ holder[lease[v]] = v
  BY DEF LeaseFollows, Follows, HoldsLease
<1>3. CASE InitializeTask(w) \/ TearDown(w)
  <2>1. /\ UNCHANGED <<state, task, lease>>
        /\ \A e \in Endpoint \ {lease[w]} : dirty'[e] = dirty[e]
        /\ stage[w] \in Holding
        /\ stage'[w] = "release" => ~dirty'[lease[w]]
    <3>1. stage[w] \in Holding /\ lease[w] \in Endpoint
      BY <1>2, <1>3 DEF InitializeTask, TearDown, Holding
    <3>2. /\ UNCHANGED <<state, task, lease>>
          /\ \A e \in Endpoint \ {lease[w]} : dirty'[e] = dirty[e]
      BY <1>3
         DEF InitializeTask, TearDown, poolVars, containerVars, recoveryVars
    <3>3. CASE InitializeTask(w)
      BY <3>1, <3>2, <3>3 DEF InitializeTask
    <3>4. CASE TearDown(w)
      <4>1. PICK tornDown \in BOOLEAN, loaded \in BOOLEAN :
              /\ tornDown => ~loaded
              /\ dirty' = [dirty EXCEPT ![lease[w]] = loaded]
              /\ Goto(w, CleanedUp(w, tornDown))
        BY <3>4 DEF TearDown
      <4>2. QED
        BY <3>1, <3>2, <4>1 DEF CleanedUp
    <3>5. QED
      BY <1>3, <3>3, <3>4
  <2>2. lease[w] \in Endpoint
        /\ state[lease[w]] # "available" /\ task[lease[w]] # "recovered"
    BY <1>2, <2>1
  <2>3. ASSUME NEW v \in Worker \ {w}, stage[v] = "release"
        PROVE  lease[v] \in Endpoint \ {lease[w]}
    BY <1>2, <2>1, <2>3 DEF Holding
  <2>4. ASSUME NEW e \in Endpoint, state'[e] = "available" \/ task'[e] = "recovered"
        PROVE  ~dirty'[e]
    <3>1. e # lease[w] /\ ~dirty[e]
      BY <2>1, <2>2, <2>4
    <3>2. QED
      BY <2>1, <3>1
  <2>5. ASSUME NEW v \in Worker, stage'[v] = "release"
        PROVE  ~dirty'[lease'[v]]
    <3>1. CASE v = w
      BY <2>1, <2>5, <3>1
    <3>2. CASE v # w
      <4>1. stage[v] = "release"
        BY <1>1, <2>5, <3>2 DEF Alone
      <4>2. ~dirty[lease[v]]
        BY <4>1
      <4>3. QED
        BY <2>1, <2>3, <3>2, <4>1, <4>2
    <3>3. QED
      BY <3>1, <3>2
  <2>6. QED
    BY <2>4, <2>5
<1>4. CASE Acquire(w) \/ GiveBack(w)
  <2>1. UNCHANGED dirty
    BY <1>4 DEF Acquire, GiveBack
  <2>2. \A v \in Worker \ {w} : lease'[v] = lease[v]
    <3>1. \/ AcquireCall(w) \/ AcquireStep(w) \/ Expire(w)
          \/ Release(w) \/ Quarantine(w) \/ QuarantineStep(w)
      BY <1>4 DEF Acquire, GiveBack, AcquireStep, QuarantineStep
    <3>2. QED
      BY <3>1, OthersKeep DEF Keeps
  <2>3. stage'[w] # "release"
    BY <1>4 DEF Acquire, GiveBack, AfterGiveBack
  <2>4. ASSUME NEW e \in Endpoint, (state'[e] = "available") \/ (task'[e] = "recovered")
        PROVE  ~dirty[e]
    <3>1. CASE Acquire(w)
      BY <2>4, <3>1
         DEF Acquire, AcquireCall, AcquireWaits, Expire, AcquireLease,
             AcquireRaises, containerVars, recoveryVars
    <3>2. CASE GiveBack(w)
      BY <2>4, <3>2
         DEF GiveBack, Release, Quarantine, QuarantineMark,
             QuarantineMarkFails, QuarantineSchedule, containerVars,
             recoveryVars
    <3>3. QED
      BY <1>4, <3>1, <3>2
  <2>5. QED
    BY <1>1, <2>1, <2>2, <2>3, <2>4 DEF Alone
<1>5. CASE ~Acquire(w) /\ ~GiveBack(w) /\ ~InitializeTask(w) /\ ~TearDown(w)
  <2>1. UNCHANGED <<state, task, lease, dirty>>
    BY <1>5
       DEF ThreadStep, Look, Get, Done, Fatal, ProgressFails, SetUp, Episode,
           Retry, WriteEpisode, poolVars, containerVars, recoveryVars
  <2>2. stage'[w] # "release"
    BY <1>5
       DEF ThreadStep, Look, Get, Done, Fatal, ProgressFails, SetUp, Episode,
           EpisodeRaises, Retry, WriteEpisode
  <2>3. QED
    BY <1>1, <2>1, <2>2 DEF Alone
<1>6. QED
  BY <1>3, <1>4, <1>5

LEMMA RecoverStep ==
  ASSUME EvaluationInv, NEW e \in Endpoint, Recover(e)
  PROVE  /\ EvaluationTypeOK' /\ RecordedOnce'
         /\ JobBooks' /\ ResultFits' /\ LeaseFollows' /\ TaskContained'
<1> USE DEF EvaluationInv
<1>1. /\ UNCHANGED <<episodes, runs, queue, abort, outcome, stage, job, attempt, result>>
      /\ RecoveryStep(e)
      /\ dirty' = [dirty EXCEPT ![e] = dirty[e] /\ task'[e] # "recovered"]
  BY DEF Recover, fileVars, mainVars, threadVars
<1>2. EvaluationTypeOK' /\ RecordedOnce' /\ JobBooks' /\ ResultFits'
  BY <1>1 DEF EvaluationTypeOK, RecordedOnce, JobBooks, ResultFits
<1>3. LeaseFollows'
  BY <1>1, RecoveryKeeps, KeepsFollowing DEF LeaseFollows
<1>4. TaskContained'
  <2>1. \A v \in Worker : lease'[v] = lease[v]
    BY <1>1, RecoveryKeeps DEF Keeps
  <2>2. /\ \A f \in Endpoint \ {e} : state'[f] = state[f] /\ task'[f] = task[f]
        /\ state'[e] = "available" => state[e] = "available" \/ task[e] = "recovered"
    BY <1>1
       DEF RecoveryStep, RecoveryConcludes, RecoveryEnds, PoolInv, PoolTypeOK,
           containerVars, callVars
  <2>3. \A f \in Endpoint : dirty'[f] => dirty[f]
    BY <1>1 DEF EvaluationTypeOK
  <2>4. dirty'[e] => task'[e] # "recovered"
    BY <1>1 DEF EvaluationTypeOK
  <2>5. \A v \in Worker : stage[v] = "release" => lease[v] \in Endpoint
    BY DEF LeaseFollows, Follows, Holding, HoldsLease
  <2>6. QED
    BY <1>1, <2>1, <2>2, <2>3, <2>4, <2>5 DEF TaskContained
<1>5. QED
  BY <1>2, <1>3, <1>4

-----------------------------------------------------------------------------
(* The theorems *)

LEMMA EvaluationInvNext == EvaluationInv /\ [Next]_evalVars => EvaluationInv'
<1> SUFFICES ASSUME EvaluationInv, [Next]_evalVars PROVE EvaluationInv'
  OBVIOUS
<1>1. PoolInv'
  BY PoolStep, PoolInvNext DEF EvaluationInv
<1>2. ASSUME NEW w \in Worker, ThreadStep(w) \/ ProgressFails(w)
      PROVE  EvaluationInv'
  BY <1>1, <1>2, EvaluationTypeStep, JobStep, ResultStep, LeaseStep, TaskStep
     DEF EvaluationInv
<1>3. ASSUME NEW e \in Endpoint, Recover(e) PROVE EvaluationInv'
  BY <1>1, <1>3, RecoverStep DEF EvaluationInv
<1>4. CASE Rerun
  BY <1>1, <1>4, EvaluationRerun DEF EvaluationInv
<1>5. CASE Join \/ UNCHANGED evalVars
  <2>1. /\ UNCHANGED <<poolVars, episodes, runs, queue, abort, threadVars, dirty>>
        /\ outcome' \in {"none", "returned", "raised"}
    BY <1>5
       DEF Join, evalVars, fileVars, mainVars, EvaluationInv, EvaluationTypeOK
  <2>2. QED
    BY <1>1, <2>1
       DEF EvaluationInv, EvaluationTypeOK, RecordedOnce, JobBooks, ResultFits,
           LeaseFollows, Follows, TaskContained, Quarantining, InAcquire,
           HoldsLease, poolVars, containerVars, recoveryVars, callVars,
           threadVars
<1>6. QED
  BY <1>2, <1>3, <1>4, <1>5 DEF Next

LEMMA EvaluationInvHolds == Spec => []EvaluationInv
BY EvaluationInit, EvaluationInvNext, PTL DEF Spec

\* The evaluation's variables keep their types; no thread begins more attempts
\* than it may.
THEOREM EvaluationTypeCorrect == Spec => []EvaluationTypeOK
<1>1. EvaluationInv => EvaluationTypeOK
  BY DEF EvaluationInv
<1>2. QED
  BY <1>1, EvaluationInvHolds, PTL

\* No job is ever recorded twice, whenever the evaluation dies and is run again.
THEOREM JobsRecordedOnce == Spec => []RecordedOnce
<1>1. EvaluationInv => RecordedOnce
  BY DEF EvaluationInv
<1>2. QED
  BY <1>1, EvaluationInvHolds, PTL

\* What is on disk stays there: whoever runs the evaluation again finds the
\* episodes it would have found before, and more.
EpisodesStay ==
  [][\A j \in Job : episodes[j] # <<>> => episodes'[j] = episodes[j]]_evalVars

\* No thread writes to the episode of another, or of an earlier run.
THEOREM EpisodesAreFinal == Spec => EpisodesStay
<1> DEFINE Stay == \A j \in Job : episodes[j] # <<>> => episodes'[j] = episodes[j]
<1>1. EvaluationInv /\ [Next]_evalVars => Stay
  <2> SUFFICES ASSUME EvaluationInv, [Next]_evalVars PROVE Stay
    OBVIOUS
  <2>1. ASSUME NEW w \in Worker, WriteEpisode(w) PROVE Stay
    <3>1. job[w] \in Job /\ episodes[job[w]] = <<>>
      BY <2>1 DEF EvaluationInv, JobBooks, Unwritten, WriteEpisode
    <3>2. \A j \in Job \ {job[w]} : episodes'[j] = episodes[j]
      BY <2>1 DEF EvaluationInv, EvaluationTypeOK, WriteEpisode
    <3>3. QED
      BY <3>1, <3>2
  <2>2. CASE UNCHANGED episodes
    BY <2>2
  <2>3. QED
    BY <2>1, <2>2
       DEF Next, ThreadStep, Look, Get, Done, Fatal, Acquire, SetUp,
           InitializeTask, Episode, TearDown, GiveBack, Retry, ProgressFails,
           Recover, Join, Rerun, evalVars, fileVars
<1>2. QED
  BY <1>1, EvaluationInvHolds, PTL DEF Spec, EpisodesStay

\* A thread holds a container only where its path leads to giving it back.
THEOREM LeasesReturned == Spec => []LeaseReturned
<1>1. EvaluationInv => LeaseReturned
  BY ThreadPoolAssumption
     DEF EvaluationInv, LeaseFollows, Follows, LeaseReturned, HoldsLease
<1>2. QED
  BY <1>1, EvaluationInvHolds, PTL

\* A container that can be leased has no task of the evaluation left in it.
THEOREM HandOversClean == Spec => []CleanHandOver
<1>1. EvaluationInv => CleanHandOver
  BY DEF EvaluationInv, TaskContained, CleanHandOver
<1>2. QED
  BY <1>1, EvaluationInvHolds, PTL

-----------------------------------------------------------------------------
(* What a returning evaluation reports.  As long as nothing has gone wrong   *)
(* for good, a counter lacks just the jobs whose threads are about to count  *)
(* them, and a job without an episode is still to be run or being run.       *)

Healthy == ~abort /\ \A w \in Worker : stage[w] \notin {"fatal", "dead"}

DoneBy(score) == {w \in Worker : stage[w] = "done" /\ result[w] = score}

Counter == [completed : Nat, successful : Nat, failed : Nat, errors : Nat]

Uncounted(n, score) ==
  n + Cardinality(DoneBy(score)) = Cardinality(Recorded(episodes, score))

CountersFit ==
  /\ counters \in Counter
  /\ Healthy =>
       /\ Uncounted(counters.successful, "success")
       /\ Uncounted(counters.failed, "failure")
       /\ counters.completed = counters.successful + counters.failed
       /\ counters.errors = 0
       /\ \A w \in Worker : stage[w] = "done" => result[w] \in Score

JobsAccounted ==
  Healthy =>
    /\ \A j \in Pending(episodes) \ queue :
         \E w \in Worker : stage[w] \in Unwritten /\ job[w] = j
    /\ \A w \in Worker : stage[w] = "exit" => queue = {}

RunConcluded ==
  /\ outcome # "none" => \A w \in Worker : stage[w] \in {"exit", "dead"}
  /\ ReturnsComplete

ReportInv == EvaluationInv /\ CountersFit /\ JobsAccounted /\ RunConcluded

LEMMA Sizes ==
  /\ \A S \in SUBSET Worker : IsFiniteSet(S) /\ Cardinality(S) \in Nat
  /\ \A S \in SUBSET Job : IsFiniteSet(S) /\ Cardinality(S) \in Nat
BY EvaluationAssumption, FS_Subset, FS_CardinalityType

\* Every job is pending, or recorded with one of the two scores.
LEMMA Partition ==
  ASSUME NEW ep \in [Job -> Seq(Score)]
  PROVE  /\ Cardinality(Recorded(ep, "success")) \in Nat
         /\ Cardinality(Recorded(ep, "failure")) \in Nat
         /\ Cardinality(Job) - Cardinality(Pending(ep)) =
              Cardinality(Recorded(ep, "success"))
                + Cardinality(Recorded(ep, "failure"))
<1> DEFINE won == Recorded(ep, "success")
           lost == Recorded(ep, "failure")
           rest == Pending(ep)
<1>1. won \in SUBSET Job /\ lost \in SUBSET Job /\ rest \in SUBSET Job
  BY DEF Recorded, Pending
<1>2. won \cap lost = {}
  BY DEF Recorded
<1>3. won \cup lost = Job \ rest
  <2>1. \A j \in Job : ep[j] # <<>> => ep[j][1] \in Score
    OBVIOUS
  <2>2. QED
    BY <2>1 DEF Recorded, Pending, Score
<1>4. Job \cap rest = rest
  BY <1>1
<1> HIDE DEF won, lost, rest
<1>5. Cardinality(won \cup lost) =
        Cardinality(won) + Cardinality(lost) - Cardinality({})
  BY <1>1, <1>2, Sizes, FS_Union
<1>6. Cardinality(Job \ rest) = Cardinality(Job) - Cardinality(rest)
  BY <1>1, <1>4, Sizes, FS_Difference
<1>7. Cardinality(won) \in Nat /\ Cardinality(lost) \in Nat
  BY <1>1, Sizes
<1>8. Cardinality({}) = 0
  BY FS_EmptySet
<1>9. Cardinality(won \cup lost) = Cardinality(won) + Cardinality(lost)
  BY <1>5, <1>7, <1>8
<1>10. Cardinality(Job) - Cardinality(rest) =
         Cardinality(won) + Cardinality(lost)
  <2>1. Cardinality(won \cup lost) = Cardinality(Job \ rest)
    BY <1>3
  <2>2. QED
    BY <1>6, <1>9, <2>1
<1>11. QED
  BY <1>7, <1>10 DEF won, lost, rest

FreshRun ==
  /\ counters = Counters(episodes)
  /\ queue = Pending(episodes)
  /\ outcome = "none"
  /\ stage = [w \in Worker |-> "look"]

LEMMA FreshReport ==
  EvaluationTypeOK /\ FreshRun => CountersFit /\ JobsAccounted /\ RunConcluded
<1> SUFFICES ASSUME EvaluationTypeOK, FreshRun
             PROVE  CountersFit /\ JobsAccounted /\ RunConcluded
  OBVIOUS
<1> USE DEF FreshRun
<1>1. episodes \in [Job -> Seq(Score)]
  BY DEF EvaluationTypeOK
<1>2. counters \in Counter
      /\ counters.completed = counters.successful + counters.failed
      /\ counters.errors = 0
  BY <1>1, Partition DEF Counters, Counter
<1>3. DoneBy("success") = {} /\ DoneBy("failure") = {}
  BY DEF DoneBy
<1>4. /\ Uncounted(counters.successful, "success")
      /\ Uncounted(counters.failed, "failure")
  <2>1. /\ counters.successful = Cardinality(Recorded(episodes, "success"))
        /\ counters.failed = Cardinality(Recorded(episodes, "failure"))
    BY DEF Counters
  <2>2. Cardinality({}) = 0
    BY FS_EmptySet
  <2>3. \A n \in Nat : n + 0 = n
    OBVIOUS
  <2>4. QED
    BY <1>1, <1>3, <2>1, <2>2, <2>3, Partition DEF Uncounted
<1>5. CountersFit
  BY <1>2, <1>4 DEF CountersFit
<1>6. JobsAccounted /\ RunConcluded
  BY DEF JobsAccounted, RunConcluded, ReturnsComplete
<1>7. QED
  BY <1>5, <1>6

\* A thread that counts its job, or writes one to be counted, changes both
\* sides of the equation alike.
LEMMA Counted ==
  ASSUME NEW w \in Worker, NEW score, w \in DoneBy(score),
         DoneBy(score)' = DoneBy(score) \ {w},
         Recorded(episodes, score)' = Recorded(episodes, score),
         NEW n \in Nat, Uncounted(n, score)
  PROVE  (n + 1) + Cardinality(DoneBy(score)') = Cardinality(Recorded(episodes, score)')
<1>1. Cardinality(DoneBy(score)) \in Nat
      /\ Cardinality(DoneBy(score) \ {w}) = Cardinality(DoneBy(score)) - 1
  BY Sizes, FS_RemoveElement DEF DoneBy
<1>2. Cardinality(DoneBy(score)') = Cardinality(DoneBy(score)) - 1
  BY <1>1
<1>3. QED
  BY <1>1, <1>2 DEF Uncounted

LEMMA Written ==
  ASSUME NEW w \in Worker, NEW score, w \notin DoneBy(score),
         DoneBy(score)' = DoneBy(score) \cup {w},
         NEW j \in Job, j \notin Recorded(episodes, score),
         Recorded(episodes, score)' = Recorded(episodes, score) \cup {j},
         NEW n \in Nat, Uncounted(n, score)
  PROVE  n + Cardinality(DoneBy(score)') = Cardinality(Recorded(episodes, score)')
<1>1. /\ Cardinality(DoneBy(score)) \in Nat
      /\ Cardinality(DoneBy(score) \cup {w}) = Cardinality(DoneBy(score)) + 1
  BY Sizes, FS_AddElement DEF DoneBy
<1>2. /\ Cardinality(Recorded(episodes, score)) \in Nat
      /\ Cardinality(Recorded(episodes, score) \cup {j}) =
           Cardinality(Recorded(episodes, score)) + 1
  BY Sizes, FS_AddElement DEF Recorded
<1>3. /\ Cardinality(DoneBy(score)') = Cardinality(DoneBy(score)) + 1
      /\ Cardinality(Recorded(episodes, score)') =
           Cardinality(Recorded(episodes, score)) + 1
  BY <1>1, <1>2
<1>4. QED
  BY <1>1, <1>2, <1>3 DEF Uncounted

LEMMA SameCount ==
  ASSUME NEW score, DoneBy(score)' = DoneBy(score),
         Recorded(episodes, score)' = Recorded(episodes, score),
         NEW n \in Nat, Uncounted(n, score)
  PROVE  n + Cardinality(DoneBy(score)') = Cardinality(Recorded(episodes, score)')
BY DEF Uncounted

LEMMA DoneCounts ==
  ASSUME EvaluationInv, CountersFit, NEW w \in Worker, Done(w)
  PROVE  CountersFit'
<1> USE DEF EvaluationInv, EvaluationTypeOK, CountersFit
<1>1. Alone(w) /\ stage[w] = "done" /\ stage'[w] = "look"
  BY MovesAlone DEF Done, Forget, Goto, ThreadStep
<1>2. counters' \in Counter
  <2> DEFINE won == IF result[w] = "success" THEN counters.successful + 1
                    ELSE counters.successful
             lost == IF result[w] = "failure" THEN counters.failed + 1
                     ELSE counters.failed
  <2>1. won \in Nat /\ lost \in Nat /\ counters.completed + 1 \in Nat
    BY DEF Counter
  <2>2. counters' = [completed |-> counters.completed + 1, successful |-> won,
                     failed |-> lost, errors |-> counters.errors]
    BY DEF Done, Counter
  <2>3. counters.errors \in Nat
    BY DEF Counter
  <2> HIDE DEF won, lost
  <2>4. QED
    BY <2>1, <2>2, <2>3 DEF Counter
<1>3. SUFFICES ASSUME Healthy' PROVE CountersFit'
  BY <1>2
<1>4. Healthy /\ UNCHANGED episodes
  BY <1>1, <1>3 DEF Done, Healthy, Alone, fileVars
<1>5. PICK r \in Score : result[w] = r
  BY <1>1, <1>4
<1>6. \A v \in Worker : stage'[v] = "done" => result'[v] \in Score
  BY <1>1, <1>4 DEF Alone
<1>7. ASSUME NEW score
      PROVE  Recorded(episodes, score)' = Recorded(episodes, score)
  BY <1>4 DEF Recorded
<1>8. ASSUME NEW score, score # r PROVE DoneBy(score)' = DoneBy(score)
  BY <1>1, <1>5, <1>8 DEF DoneBy, Alone
<1>9. w \in DoneBy(r) /\ DoneBy(r)' = DoneBy(r) \ {w}
  BY <1>1, <1>5 DEF DoneBy, Alone
<1>10. CASE r = "success"
  <2>1. counters' = [counters EXCEPT !.completed = @ + 1, !.successful = @ + 1]
    BY <1>5, <1>10 DEF Done
  <2>2. /\ counters'.successful = counters.successful + 1
        /\ counters'.failed = counters.failed
        /\ counters'.completed = counters.completed + 1
        /\ counters'.errors = counters.errors
    BY <2>1 DEF Counter
  <2>3. Uncounted(counters.successful, "success")'
    BY <1>4, <1>7, <1>9, <1>10, <2>2, Counted DEF Uncounted, Counter
  <2>4. Uncounted(counters.failed, "failure")'
    BY <1>4, <1>7, <1>8, <1>10, <2>2, SameCount DEF Uncounted, Counter
  <2>5. QED
    BY <1>2, <1>4, <1>6, <2>2, <2>3, <2>4 DEF Counter
<1>11. CASE r = "failure"
  <2>1. counters' = [counters EXCEPT !.completed = @ + 1, !.failed = @ + 1]
    BY <1>5, <1>11 DEF Done
  <2>2. /\ counters'.failed = counters.failed + 1
        /\ counters'.successful = counters.successful
        /\ counters'.completed = counters.completed + 1
        /\ counters'.errors = counters.errors
    BY <2>1 DEF Counter
  <2>3. Uncounted(counters.failed, "failure")'
    BY <1>4, <1>7, <1>9, <1>11, <2>2, Counted DEF Uncounted, Counter
  <2>4. Uncounted(counters.successful, "success")'
    <3>1. /\ DoneBy("success")' = DoneBy("success")
          /\ Recorded(episodes, "success")' = Recorded(episodes, "success")
      BY <1>7, <1>8, <1>11
    <3>2. counters.successful \in Nat /\ Uncounted(counters.successful, "success")
      BY <1>4 DEF Counter
    <3>3. QED
      BY <2>2, <3>1, <3>2, SameCount DEF Uncounted
  <2>5. QED
    BY <1>2, <1>4, <1>6, <2>2, <2>3, <2>4 DEF Counter
<1>12. QED
  BY <1>10, <1>11 DEF Score

LEMMA WriteCounts ==
  ASSUME EvaluationInv, CountersFit, NEW w \in Worker, WriteEpisode(w)
  PROVE  CountersFit'
<1> USE DEF EvaluationInv, EvaluationTypeOK, CountersFit
<1>1. Alone(w) /\ stage[w] = "write" /\ UNCHANGED <<counters, result, abort>>
  BY MovesAlone DEF WriteEpisode, ThreadStep, mainVars
<1>2. SUFFICES ASSUME Healthy' PROVE CountersFit'
  BY <1>1
<1>3. Healthy
  BY <1>1, <1>2 DEF Healthy, Alone
<1>4. PICK r \in Score : result[w] = r
  BY <1>1 DEF ResultFits
<1>5. PICK j \in Job : job[w] = j /\ episodes[j] = <<>>
  BY <1>1 DEF JobBooks, Unwritten
<1>6. /\ stage'[w] = "done"
      /\ episodes' = [episodes EXCEPT ![j] = <<r>>]
  <2>1. PICK placed \in BOOLEAN, indexed \in BOOLEAN :
          /\ indexed => placed
          /\ episodes' = IF placed
                         THEN [episodes EXCEPT ![job[w]] = Append(@, result[w])]
                         ELSE episodes
          /\ Goto(w, IF indexed THEN "done" ELSE "fatal")
    BY DEF WriteEpisode
  <2>2. indexed
    BY <1>2, <2>1 DEF Goto, Healthy
  <2>3. stage'[w] = "done"
    BY <2>1, <2>2 DEF Goto
  <2>4. episodes' = [episodes EXCEPT ![j] = Append(episodes[j], r)]
    BY <1>4, <1>5, <2>1, <2>2
  <2>5. Append(episodes[j], r) = <<r>>
    BY <1>5
  <2>6. QED
    BY <2>3, <2>4, <2>5
<1>7. \A v \in Worker : stage'[v] = "done" => result'[v] \in Score
  BY <1>1, <1>3, <1>4 DEF Alone
<1>8. ASSUME NEW score, score # r
      PROVE  /\ DoneBy(score)' = DoneBy(score)
             /\ Recorded(episodes, score)' = Recorded(episodes, score)
  <2>1. DoneBy(score)' = DoneBy(score)
    BY <1>1, <1>4, <1>8 DEF DoneBy, Alone
  <2>2. \A i \in Job : i \in Recorded(episodes, score)'
                         <=> i \in Recorded(episodes, score)
    BY <1>5, <1>6, <1>8 DEF Recorded
  <2>3. QED
    BY <2>1, <2>2 DEF Recorded
<1>9. /\ w \notin DoneBy(r) /\ DoneBy(r)' = DoneBy(r) \cup {w}
      /\ j \notin Recorded(episodes, r)
      /\ Recorded(episodes, r)' = Recorded(episodes, r) \cup {j}
  <2>1. w \notin DoneBy(r) /\ DoneBy(r)' = DoneBy(r) \cup {w}
    BY <1>1, <1>4, <1>6 DEF DoneBy, Alone
  <2>2. j \notin Recorded(episodes, r)
    BY <1>5 DEF Recorded
  <2>3. \A i \in Job : i \in Recorded(episodes, r)'
                         <=> i \in Recorded(episodes, r) \/ i = j
    BY <1>5, <1>6 DEF Recorded
  <2>4. QED
    BY <2>1, <2>2, <2>3 DEF Recorded
<1>10. ASSUME NEW score \in Score, NEW n \in Nat, Uncounted(n, score)
       PROVE  Uncounted(n, score)'
  <2>1. CASE score = r
    BY <1>9, <1>10, <2>1, Written DEF Uncounted
  <2>2. CASE score # r
    BY <1>8, <1>10, <2>2, SameCount DEF Uncounted
  <2>3. QED
    BY <2>1, <2>2
<1>11. counters.successful \in Nat /\ counters.failed \in Nat
  BY DEF Counter
<1>12. Uncounted(counters.successful, "success")'
       /\ Uncounted(counters.failed, "failure")'
  BY <1>1, <1>3, <1>10, <1>11 DEF Score, Uncounted
<1>13. QED
  BY <1>1, <1>3, <1>7, <1>12

\* The other steps of a thread count nothing.
LEMMA OtherCounts ==
  ASSUME EvaluationInv, CountersFit, NEW w \in Worker, ThreadStep(w),
         ~Done(w), ~WriteEpisode(w)
  PROVE  CountersFit'
<1> USE DEF EvaluationInv, EvaluationTypeOK, CountersFit
<1>1. Alone(w)
  BY MovesAlone
<1>2. CASE Fatal(w)
  <2>1. abort' = TRUE
    BY <1>2 DEF Fatal
  <2>2. counters.completed + 1 \in Nat /\ counters.errors + 1 \in Nat
    BY DEF Counter
  <2>3. counters' \in Counter
    BY <1>2, <2>2 DEF Fatal, Counter
  <2>4. QED
    BY <2>1, <2>3 DEF Healthy
<1>3. CASE ~Fatal(w)
  <2>1. /\ UNCHANGED <<episodes, counters, abort>>
        /\ stage[w] \notin {"done", "fatal", "dead"} /\ stage'[w] # "done"
    BY <1>3
       DEF ThreadStep, Look, Get, Acquire, SetUp, InitializeTask, Episode,
           EpisodeRaises, TearDown, CleanedUp, GiveBack, AfterGiveBack, Retry,
           Goto, Fail, mainVars, fileVars
  <2>2. Healthy' => Healthy
    BY <1>1, <2>1 DEF Healthy, Alone
  <2>3. ASSUME NEW score
        PROVE  /\ DoneBy(score)' = DoneBy(score)
               /\ Recorded(episodes, score)' = Recorded(episodes, score)
    BY <1>1, <2>1 DEF DoneBy, Recorded, Alone
  <2>4. counters.successful \in Nat /\ counters.failed \in Nat
    BY DEF Counter
  <2>5. Healthy => Uncounted(counters.successful, "success")'
                   /\ Uncounted(counters.failed, "failure")'
    BY <2>1, <2>3, <2>4, SameCount DEF Uncounted
  <2>6. \A v \in Worker : stage'[v] = "done" =>
          stage[v] = "done" /\ result'[v] = result[v]
    BY <1>1, <2>1 DEF Alone
  <2>7. QED
    BY <2>1, <2>2, <2>5, <2>6
<1>4. QED
  BY <1>2, <1>3

LEMMA AccountsStep ==
  ASSUME EvaluationInv, JobsAccounted, NEW w \in Worker, ThreadStep(w)
  PROVE  JobsAccounted'
<1> USE DEF EvaluationInv, EvaluationTypeOK, JobsAccounted, Pending
<1>1. Alone(w) /\ \A v \in Worker \ {w} : job'[v] = job[v]
  BY MovesAlone
     DEF ThreadStep, Look, Get, Done, Fatal, Acquire, SetUp, InitializeTask,
         Episode, TearDown, GiveBack, Retry, WriteEpisode
<1>2. SUFFICES ASSUME Healthy' PROVE JobsAccounted'
  OBVIOUS
<1>3. ~Fatal(w)
  BY <1>2 DEF Fatal, Healthy
<1>4. stage[w] \notin {"fatal", "dead"} /\ UNCHANGED abort
  BY <1>3
     DEF ThreadStep, Look, Get, Done, Acquire, SetUp, InitializeTask, Episode,
         TearDown, GiveBack, Retry, WriteEpisode, mainVars
<1>5. Healthy
  BY <1>1, <1>2, <1>4 DEF Healthy, Alone
<1>6. CASE Get(w)
  <2>1. UNCHANGED episodes /\ stage[w] = "get"
    BY <1>6 DEF Get, fileVars
  <2>2. CASE queue = {}
    <3>1. UNCHANGED <<queue, job>>
      BY <1>6, <2>2 DEF Get
    <3>2. stage[w] \notin Unwritten /\ stage'[w] = "exit"
      BY <1>6, <2>1, <2>2 DEF Get, Goto, Unwritten, Holding
    <3>3. \A v \in Worker \ {w} : stage'[v] = stage[v]
      BY <1>1 DEF Alone
    <3>4. ASSUME NEW j \in Pending(episodes') \ queue'
          PROVE  \E v \in Worker : stage'[v] \in Unwritten /\ job'[v] = j
      <4>1. PICK v \in Worker : stage[v] \in Unwritten /\ job[v] = j
        BY <1>5, <2>1, <3>1, <3>4
      <4>2. v # w
        BY <3>2, <4>1
      <4>3. QED
        BY <3>1, <3>3, <4>1, <4>2
    <3>5. QED
      BY <2>2, <3>1, <3>4
  <2>3. CASE queue # {}
    <3>1. PICK j \in queue :
            /\ queue' = queue \ {j}
            /\ job' = [job EXCEPT ![w] = j]
            /\ stage' = [stage EXCEPT ![w] = "acquire"]
      BY <1>6, <2>3 DEF Get, Goto
    <3>2. stage'[w] \in Unwritten /\ job'[w] = j /\ stage'[w] # "exit"
      BY <3>1 DEF Unwritten
    <3>3. stage[w] \notin Unwritten
      BY <2>1 DEF Unwritten, Holding
    <3>4. QED
      BY <1>1, <1>5, <2>1, <2>3, <3>1, <3>2, <3>3 DEF Alone
  <2>4. QED
    BY <2>2, <2>3
<1>7. CASE WriteEpisode(w)
  <2>1. /\ UNCHANGED <<queue, job>> /\ stage'[w] = "done"
        /\ \A i \in Job \ {job[w]} : episodes'[i] = episodes[i]
    BY <1>2, <1>7 DEF WriteEpisode, Goto, Healthy, mainVars
  <2>2. job[w] \in Job /\ episodes'[job[w]] # <<>>
    <3>1. job[w] \in Job /\ result[w] \in Score /\ episodes[job[w]] = <<>>
      BY <1>7 DEF WriteEpisode, JobBooks, ResultFits, Unwritten
    <3>2. episodes' = [episodes EXCEPT ![job[w]] = Append(@, result[w])]
      BY <1>2, <1>7, <2>1 DEF WriteEpisode, Goto, Healthy
    <3>3. Append(episodes[job[w]], result[w]) # <<>>
      BY <3>1
    <3>4. QED
      BY <3>1, <3>2, <3>3
  <2>3. QED
    BY <1>1, <1>5, <2>1, <2>2 DEF Alone
<1>8. CASE ~Get(w) /\ ~WriteEpisode(w)
  <2>1. UNCHANGED <<episodes, queue, job>>
    BY <1>3, <1>8
       DEF ThreadStep, Look, Done, Acquire, SetUp, InitializeTask, Episode,
           TearDown, GiveBack, Retry, mainVars, fileVars
  <2>2. (stage[w] \in Unwritten => stage'[w] \in Unwritten) /\ stage'[w] # "exit"
    <3>1. stage'[w] # "fatal"
      BY <1>2 DEF Healthy
    <3>2. QED
      BY <1>3, <1>5, <1>8, <3>1
         DEF ThreadStep, Look, Done, Acquire, SetUp, InitializeTask, Episode,
             EpisodeRaises, TearDown, CleanedUp, GiveBack, AfterGiveBack,
             Retry, Goto, Fail, Forget, Unwritten, Holding, Healthy
  <2>3. QED
    BY <1>1, <1>5, <2>1, <2>2 DEF Alone
<1>9. QED
  BY <1>6, <1>7, <1>8

LEMMA JoinReports ==
  ASSUME ReportInv, Join
  PROVE  RunConcluded'
<1> USE DEF ReportInv, EvaluationInv, EvaluationTypeOK
<1>1. /\ \A w \in Worker : stage[w] \in {"exit", "dead"}
      /\ UNCHANGED <<stage, episodes, counters, queue, abort>>
  BY DEF Join, threadVars, fileVars
<1>2. SUFFICES ASSUME outcome' = "returned", \A w \in Worker : stage[w] = "exit"
               PROVE  Pending(episodes) = {} /\ counters = Counters(episodes)
  <2>1. Pending(episodes)' = Pending(episodes)
        /\ Counters(episodes)' = Counters(episodes)
    BY <1>1 DEF Pending, Counters, Recorded
  <2>2. (\A w \in Worker : stage'[w] # "dead") => \A w \in Worker : stage[w] = "exit"
    BY <1>1
  <2>3. QED
    BY <1>1, <2>1, <2>2 DEF RunConcluded, ReturnsComplete
<1>3. Healthy
  BY <1>2 DEF Join, Healthy
<1>4. Pending(episodes) = {}
  <2>1. queue = {}
    BY <1>2, <1>3, EvaluationAssumption DEF JobsAccounted
  <2>2. \A w \in Worker : stage[w] \notin Unwritten
    BY <1>2 DEF Unwritten, Holding
  <2>3. QED
    BY <1>3, <2>1, <2>2 DEF JobsAccounted
<1>5. /\ counters.successful = Cardinality(Recorded(episodes, "success"))
      /\ counters.failed = Cardinality(Recorded(episodes, "failure"))
  <2>1. DoneBy("success") = {} /\ DoneBy("failure") = {}
    BY <1>2 DEF DoneBy
  <2>2. Cardinality({}) = 0 /\ \A n \in Nat : n + 0 = n
    BY FS_EmptySet
  <2>3. counters.successful \in Nat /\ counters.failed \in Nat
    BY DEF CountersFit, Counter
  <2>4. QED
    BY <1>3, <2>1, <2>2, <2>3 DEF CountersFit, Uncounted
<1>6. counters.completed = Cardinality(Job) - Cardinality(Pending(episodes))
      /\ counters.errors = 0
  BY <1>3, <1>5, Partition DEF CountersFit
<1>7. counters \in Counter
  BY DEF CountersFit
<1>8. counters = Counters(episodes)
  BY <1>5, <1>6, <1>7 DEF Counters, Counter
<1>9. QED
  BY <1>4, <1>8

LEMMA ReportInit == Init => ReportInv
<1> SUFFICES ASSUME Init PROVE ReportInv
  OBVIOUS
<1>1. EvaluationInv
  BY EvaluationInit
<1>2. QED
  BY <1>1, FreshReport DEF Init, EvaluationInv, FreshRun, ReportInv

LEMMA ReportRerun ==
  ASSUME ReportInv, Rerun
  PROVE  CountersFit' /\ JobsAccounted' /\ RunConcluded'
<1>1. EvaluationTypeOK'
  BY EvaluationRerun DEF ReportInv
<1>2. FreshRun'
  BY DEF Rerun, FreshRun, Counters, Pending, Recorded
<1>3. EvaluationTypeOK' /\ FreshRun'
        => CountersFit' /\ JobsAccounted' /\ RunConcluded'
  BY FreshReport, PTL
<1>4. QED
  BY <1>1, <1>2, <1>3

LEMMA ReportNext == ReportInv /\ [Next]_evalVars => ReportInv'
<1> SUFFICES ASSUME ReportInv, [Next]_evalVars PROVE ReportInv'
  OBVIOUS
<1>1. EvaluationInv'
  BY EvaluationInvNext DEF ReportInv
<1>2. ASSUME NEW w \in Worker, ThreadStep(w)
      PROVE  CountersFit' /\ JobsAccounted' /\ RunConcluded'
  <2>1. CountersFit'
    BY <1>2, DoneCounts, WriteCounts, OtherCounts DEF ReportInv
  <2>2. JobsAccounted'
    BY <1>2, AccountsStep DEF ReportInv
  <2>3. outcome = "none" /\ UNCHANGED outcome
    BY <1>2
       DEF ReportInv, RunConcluded, ThreadStep, Look, Get, Done, Fatal, Acquire,
           SetUp, InitializeTask, Episode, TearDown, GiveBack, Retry,
           WriteEpisode, mainVars
  <2>4. QED
    BY <2>1, <2>2, <2>3 DEF RunConcluded, ReturnsComplete
<1>3. ASSUME NEW w \in Worker, ProgressFails(w)
      PROVE  CountersFit' /\ JobsAccounted' /\ RunConcluded'
  <2>1. ~Healthy' /\ UNCHANGED counters
    BY <1>3
       DEF ReportInv, EvaluationInv, EvaluationTypeOK, ProgressFails, Goto,
           Healthy, mainVars
  <2>2. outcome = "none" /\ UNCHANGED outcome
    BY <1>3 DEF ReportInv, RunConcluded, ProgressFails, mainVars
  <2>3. QED
    BY <2>1, <2>2
       DEF ReportInv, CountersFit, JobsAccounted, RunConcluded, ReturnsComplete
<1>4. CASE Rerun
  BY <1>1, <1>4, ReportRerun DEF ReportInv
<1>5. ASSUME UNCHANGED <<episodes, queue, abort, counters, threadVars>>
      PROVE  CountersFit' /\ JobsAccounted' /\ (UNCHANGED outcome => RunConcluded')
  <2>1. UNCHANGED <<Healthy, DoneBy("success"), DoneBy("failure")>>
    BY <1>5 DEF Healthy, DoneBy, threadVars
  <2>2. ASSUME NEW score
        PROVE  Recorded(episodes, score)' = Recorded(episodes, score)
    BY <1>5 DEF Recorded
  <2>3. Pending(episodes)' = Pending(episodes)
        /\ Counters(episodes)' = Counters(episodes)
    BY <1>5 DEF Pending, Counters, Recorded
  <2>4. CountersFit' /\ JobsAccounted'
    BY <1>5, <2>1, <2>2, <2>3
       DEF ReportInv, CountersFit, JobsAccounted, Uncounted, threadVars
  <2>5. UNCHANGED outcome => RunConcluded'
    BY <1>5, <2>3 DEF ReportInv, RunConcluded, ReturnsComplete, threadVars
  <2>6. QED
    BY <2>4, <2>5
<1>6. QED
  BY <1>1, <1>2, <1>3, <1>4, <1>5, JoinReports
     DEF ReportInv, Next, Recover, Join, evalVars, fileVars, mainVars, threadVars

\* An evaluation that returns, and whose threads all lived, has an episode for
\* every job and reports what is on disk.
THEOREM ReturnsAreComplete == Spec => []ReturnsComplete
<1>1. ReportInv => ReturnsComplete
  BY DEF ReportInv, RunConcluded
<1>2. ReportInv /\ [Next]_evalVars => ReportInv'
  BY ReportNext
<1>3. QED
  BY <1>1, <1>2, ReportInit, PTL DEF Spec

=============================================================================
