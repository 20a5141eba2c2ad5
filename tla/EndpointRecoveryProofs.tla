----------------------- MODULE EndpointRecoveryProofs -----------------------
(***************************************************************************)
(* The safety properties of EndpointRecovery, proved for any number of      *)
(* endpoints, attempts and crashes.                                         *)
(***************************************************************************)
EXTENDS EndpointRecovery, TLAPS

\* The lock: one thread has a payload, and it is what the file says.
LockHeld ==
  \A e \in Endpoint : payload[e] # NoPayload =>
    /\ payload[e] = file
    /\ stage[e] \in Marking \cup {"boot"}
    /\ \A f \in Endpoint : payload[f] # NoPayload => f = e

\* What a stage says of the endpoint's own record.
FileFollowsStage ==
  \A e \in Endpoint :
    /\ stage[e] \in {"restart", "probe", "loaded", "retry", "reject", "accept"}
         => file[e] = "recovering"
    /\ stage[e] = "begin" => file[e] # "available"
    /\ stage[e] \in {"serving", "quarantine"} => file[e] = "available"
    /\ stage[e] = "out" => file[e] = "quarantined" \/ lost[e]
    /\ stage[e] = "accept" => proven[e] /\ ~loaded[e]
    /\ stage[e] = "retry" => attempt[e] < Attempts

RecoveryInv ==
  /\ RecoveryTypeOK
  /\ LockHeld
  /\ FileFollowsStage
  /\ FileVouches

LEMMA MarkingIs ==
  /\ Marking = {"quarantine", "begin", "retry", "reject", "accept"}
  /\ \A s \in Marking : Mark[s] \in RecordState /\ AfterMark[s] \in Stage
BY DEF Marking, Mark, AfterMark, RecordState, Stage, Working

LEMMA RecoveryInvInit == Init => RecoveryInv
<1> SUFFICES ASSUME Init PROVE RecoveryInv
  OBVIOUS
<1>1. RecoveryTypeOK
  BY RecoveryAssumption DEF Init, RecoveryTypeOK, Stage, Working
<1>2. LockHeld
  BY DEF Init, LockHeld
<1>3. FileFollowsStage
  BY DEF Init, FileFollowsStage
<1>4. FileVouches
  BY DEF Init, FileVouches
<1>5. QED
  BY <1>1, <1>2, <1>3, <1>4 DEF RecoveryInv

-----------------------------------------------------------------------------
(* The locked section *)

LEMMA InvRead ==
  ASSUME RecoveryInv, NEW e \in Endpoint, Read(e)
  PROVE  RecoveryInv'
BY RecoveryAssumption
   DEF RecoveryInv, Read, RecoveryTypeOK, LockHeld, FileFollowsStage,
       FileVouches, emulatorVars

\* The payload written back is the file itself but for one record.
LEMMA CommitWritesOne ==
  ASSUME RecoveryInv, NEW e \in Endpoint, Commit(e)
  PROVE  /\ file' = [file EXCEPT ![e] = Mark[stage[e]]]
         /\ \A f \in Endpoint : payload'[f] = NoPayload
         /\ stage[e] \in Marking
         /\ stage' = [stage EXCEPT ![e] = AfterMark[stage[e]]]
BY DEF RecoveryInv, RecoveryTypeOK, LockHeld, Commit

LEMMA InvCommit ==
  ASSUME RecoveryInv, NEW e \in Endpoint, Commit(e)
  PROVE  RecoveryInv'
<1> USE DEF RecoveryInv
<1>1. RecoveryTypeOK'
  <2>1. attempt' \in [Endpoint -> 1..Attempts]
    <3>1. NextAttempt(e) \in 1..Attempts
      BY RecoveryAssumption
         DEF NextAttempt, RecoveryTypeOK, FileFollowsStage
    <3>2. QED
      BY <3>1 DEF Commit, RecoveryTypeOK
  <2>2. file' \in [Endpoint -> RecordState] /\ stage' \in [Endpoint -> Stage]
    BY CommitWritesOne, MarkingIs DEF RecoveryTypeOK
  <2>3. QED
    BY <2>1, <2>2 DEF Commit, RecoveryTypeOK, emulatorVars
<1>2. LockHeld'
  BY CommitWritesOne DEF LockHeld
<1>3. FileFollowsStage'
  <2>1. \A f \in Endpoint \ {e} :
          /\ file'[f] = file[f] /\ stage'[f] = stage[f]
          /\ lost'[f] = lost[f] /\ attempt'[f] = attempt[f]
    <3> SUFFICES ASSUME NEW f \in Endpoint \ {e}
                 PROVE  /\ file'[f] = file[f] /\ stage'[f] = stage[f]
                        /\ lost'[f] = lost[f] /\ attempt'[f] = attempt[f]
      OBVIOUS
    <3>1. file'[f] = file[f] /\ stage'[f] = stage[f]
      BY CommitWritesOne DEF RecoveryTypeOK
    <3>2. lost' = [lost EXCEPT ![e] = FALSE]
          /\ attempt' = [attempt EXCEPT ![e] = NextAttempt(e)]
      BY DEF Commit
    <3>3. lost'[f] = lost[f] /\ attempt'[f] = attempt[f]
      BY <3>2 DEF RecoveryTypeOK
    <3>4. QED
      BY <3>1, <3>3
  <2>2. /\ file'[e] = Mark[stage[e]]
        /\ stage'[e] = AfterMark[stage[e]]
        /\ stage'[e] \in {"begin", "restart", "out", "serving"}
    BY CommitWritesOne, MarkingIs DEF AfterMark, RecoveryTypeOK
  <2>3. /\ stage'[e] = "begin" => file'[e] # "available"
        /\ stage'[e] = "restart" => file'[e] = "recovering"
        /\ stage'[e] = "out" => file'[e] = "quarantined"
        /\ stage'[e] = "serving" => file'[e] = "available"
    BY <2>2, CommitWritesOne, MarkingIs DEF AfterMark, Mark
  <2>4. proven' = proven /\ loaded' = loaded
    BY DEF Commit, emulatorVars
  <2>5. QED
    BY <2>1, <2>2, <2>3, <2>4 DEF FileFollowsStage
<1>4. FileVouches'
  <2>1. ASSUME file'[e] = "available" PROVE proven[e] /\ ~loaded[e]
    <3>1. stage[e] = "accept"
      BY <2>1, CommitWritesOne, MarkingIs DEF RecoveryTypeOK, Mark
    <3>2. QED
      BY <3>1 DEF FileFollowsStage
  <2>2. proven' = proven /\ loaded' = loaded
    BY DEF Commit, emulatorVars
  <2>3. ASSUME NEW f \in Endpoint \ {e}
        PROVE  /\ file'[f] = file[f]
               /\ stage'[f] = stage[f]
               /\ lost'[f] = lost[f]
    BY CommitWritesOne DEF Commit, RecoveryTypeOK
  <2>4. QED
    BY <2>1, <2>2, <2>3 DEF FileVouches
<1>5. QED
  BY <1>1, <1>2, <1>3, <1>4

LEMMA InvWriteFails ==
  ASSUME RecoveryInv, NEW e \in Endpoint, WriteFails(e)
  PROVE  RecoveryInv'
<1> USE DEF RecoveryInv, WriteFails, emulatorVars
<1>1. stage'[e] \in {"down", "out"} /\ stage[e] \in Marking \cup {"boot"}
  BY DEF RecoveryTypeOK, LockHeld
<1>2. stage[e] # "boot" => lost'[e]
  BY DEF RecoveryTypeOK
<1>3. RecoveryTypeOK'
  BY RecoveryAssumption DEF RecoveryTypeOK, Stage, Working
<1>4. LockHeld'
  BY DEF LockHeld, RecoveryTypeOK
<1>5. FileFollowsStage'
  BY <1>1, <1>2, MarkingIs DEF FileFollowsStage, RecoveryTypeOK
<1>6. FileVouches'
  BY <1>1, <1>2, MarkingIs DEF FileVouches, RecoveryTypeOK
<1>7. QED
  BY <1>3, <1>4, <1>5, <1>6

-----------------------------------------------------------------------------
(* The pool *)

LEMMA InvBoot ==
  ASSUME RecoveryInv, NEW e \in Endpoint, Boot(e)
  PROVE  RecoveryInv'
<1>1. file' = file /\ \A f \in Endpoint : payload'[f] = NoPayload
  BY DEF RecoveryInv, Boot, LockHeld, RecoveryTypeOK
<1>2. /\ stage' = [stage EXCEPT ![e] = BootsTo(file[e])]
      /\ BootsTo(file[e]) \in {"begin", "serving"}
      /\ BootsTo(file[e]) = "serving" => file[e] = "available"
      /\ BootsTo(file[e]) = "begin" => file[e] # "available"
  BY DEF RecoveryInv, Boot, LockHeld, BootsTo
<1>3. RecoveryTypeOK'
  BY <1>1, <1>2, RecoveryAssumption, MarkingIs
     DEF RecoveryInv, RecoveryTypeOK, Boot, Stage, Working, emulatorVars
<1>4. LockHeld'
  BY <1>1 DEF LockHeld
<1>5. FileFollowsStage'
  BY <1>1, <1>2 DEF RecoveryInv, RecoveryTypeOK, FileFollowsStage, Boot, emulatorVars
<1>6. FileVouches'
  BY <1>1, <1>2 DEF RecoveryInv, RecoveryTypeOK, FileVouches, Boot, emulatorVars
<1>7. QED
  BY <1>3, <1>4, <1>5, <1>6 DEF RecoveryInv

LEMMA InvPool ==
  ASSUME RecoveryInv, NEW e \in Endpoint,
         \/ Start(e)
         \/ Break(e)
         \/ Stop(e)
         \/ Crash(e)
  PROVE  RecoveryInv'
<1> USE RecoveryAssumption, MarkingIs
    DEF RecoveryInv, RecoveryTypeOK, LockHeld, FileFollowsStage, FileVouches,
        Stage, Working, emulatorVars
<1>1. CASE Start(e)
  BY <1>1 DEF Start
<1>2. CASE Break(e)
  BY <1>2 DEF Break
<1>3. CASE Stop(e)
  BY <1>3 DEF Stop
<1>4. CASE Crash(e)
  <2>1. RecoveryTypeOK'
    BY <1>4 DEF Crash
  <2>2. LockHeld'
    BY <1>4 DEF Crash
  <2>3. FileFollowsStage'
    BY <1>4 DEF Crash
  <2>4. FileVouches'
    <3>1. lost'[e] <=> lost[e] \/ stage[e] = "quarantine"
      <4> DEFINE unmarked == lost[e] \/ stage[e] = "quarantine"
      <4>1. lost \in [Endpoint -> BOOLEAN]
        OBVIOUS
      <4>2. lost' = [lost EXCEPT ![e] = unmarked]
        BY <1>4 DEF Crash
      <4> HIDE DEF unmarked
      <4>3. lost'[e] = unmarked
        BY <4>1, <4>2
      <4>4. QED
        BY <4>3, Zenon DEF unmarked
    <3>2. ASSUME NEW f \in Endpoint \ {e}
          PROVE  stage'[f] = stage[f] /\ lost'[f] = lost[f]
      BY <1>4 DEF Crash
    <3>3. UNCHANGED <<file, proven, loaded>>
      BY <1>4 DEF Crash
    <3>4. QED
      BY <3>1, <3>2, <3>3
  <2>5. QED
    BY <2>1, <2>2, <2>3, <2>4
<1>5. QED
  BY <1>1, <1>2, <1>3, <1>4

-----------------------------------------------------------------------------
(* The attempt *)

LEMMA InvRecoverStep ==
  ASSUME RecoveryInv, NEW e \in Endpoint, RecoverStep(e)
  PROVE  RecoveryInv'
<1> USE RecoveryAssumption, MarkingIs
    DEF RecoveryInv, RecoveryTypeOK, LockHeld, FileFollowsStage, FileVouches,
        Stage, Working, emulatorVars, AttemptFailed
<1>1. CASE VerifyFails(e)
  BY <1>1 DEF VerifyFails
<1>2. CASE RestartContainer(e)
  BY <1>2 DEF RestartContainer
<1>3. CASE Probe(e)
  BY <1>3 DEF Probe
<1>4. CASE ProbeFails(e)
  BY <1>4 DEF ProbeFails
<1>5. CASE Accept(e)
  <2>1. PICK screenshot, teardown, health, tookEffect \in BOOLEAN :
          /\ teardown => tookEffect
          /\ loaded' = [loaded EXCEPT ![e] = ~tookEffect]
          /\ proven' = [proven EXCEPT ![e] =
                          Accepts(e, screenshot, teardown, health)]
          /\ stage' = [stage EXCEPT ![e] =
                         IF Accepts(e, screenshot, teardown, health)
                         THEN "accept" ELSE AttemptFailed(e)]
    BY <1>5 DEF Accept
  <2>2. UNCHANGED <<file, payload, attempt, lost, crashes>>
        /\ stage[e] = "loaded" /\ file[e] = "recovering"
    BY <1>5 DEF Accept
  <2>3. RecoveryTypeOK'
    <3>1. stage' \in [Endpoint -> Stage]
      BY <2>1
    <3>2. loaded' \in [Endpoint -> BOOLEAN]
      BY <2>1
    <3>3. proven' \in [Endpoint -> BOOLEAN]
      BY <2>1 DEF Accepts
    <3>4. QED
      BY <1>5, <3>1, <3>2, <3>3 DEF Accept
  <2>4. LockHeld'
    BY <2>1, <2>2
  <2>5. FileFollowsStage'
    <3>1. ASSUME NEW f \in Endpoint \ {e}
          PROVE  UNCHANGED <<stage[f], proven[f], loaded[f]>>
      BY <2>1
    <3>2. stage'[e] \in {"accept", "retry", "reject"}
      BY <2>1
    <3>3. stage'[e] = "retry" => attempt[e] < Attempts
      BY <2>1
    <3>4. CASE Accepts(e, screenshot, teardown, health)
      <4>1. teardown /\ tookEffect
        BY <2>1, <3>4 DEF Accepts
      <4>2. proven'[e] = Accepts(e, screenshot, teardown, health)
        BY <2>1
      <4>3. loaded'[e] = ~tookEffect
        BY <2>1
      <4>4. proven'[e] /\ ~loaded'[e]
        BY <3>4, <4>1, <4>2, <4>3, Zenon
      <4>5. QED
        BY <2>2, <3>1, <3>2, <3>3, <4>4
    <3>5. CASE ~Accepts(e, screenshot, teardown, health)
      <4>1. stage'[e] # "accept"
        BY <2>1, <3>5
      <4>2. QED
        BY <2>2, <3>1, <3>2, <3>3, <4>1
    <3>6. QED
      BY <3>4, <3>5
  <2>6. FileVouches'
    BY <2>1, <2>2
  <2>7. QED
    BY <2>3, <2>4, <2>5, <2>6
<1>6. QED
  BY <1>1, <1>2, <1>3, <1>4, <1>5 DEF RecoverStep

LEMMA RecoveryInvNext == RecoveryInv /\ [Next]_vars => RecoveryInv'
<1> SUFFICES ASSUME RecoveryInv, [Next]_vars PROVE RecoveryInv'
  OBVIOUS
<1>1. CASE Next
  BY <1>1, InvRead, InvCommit, InvWriteFails, InvBoot, InvPool, InvRecoverStep
     DEF Next
<1>2. CASE UNCHANGED vars
  BY <1>2
     DEF vars, RecoveryInv, RecoveryTypeOK, LockHeld, FileFollowsStage,
         FileVouches
<1>3. QED
  BY <1>1, <1>2

LEMMA RecoveryInvHolds == Spec => []RecoveryInv
BY RecoveryInvInit, RecoveryInvNext, PTL DEF Spec

-----------------------------------------------------------------------------
(* The theorems *)

\* The variables keep their types: the attempts stay within their number.
THEOREM RecoveryTypeCorrect == Spec => []RecoveryTypeOK
<1>1. RecoveryInv => RecoveryTypeOK
  BY DEF RecoveryInv
<1>2. QED
  BY <1>1, RecoveryInvHolds, PTL

\* The file says "available" only of a container that passed its acceptance,
\* but for a quarantine that has not reached it.
THEOREM FileIsTrusted == Spec => []FileVouches
<1>1. RecoveryInv => FileVouches
  BY DEF RecoveryInv
<1>2. QED
  BY <1>1, RecoveryInvHolds, PTL

\* No endpoint of a running pool is left without a verdict in the file.
THEOREM VerdictReached == Spec => []VerdictOnFile
<1>1. RecoveryInv => VerdictOnFile
  BY DEF RecoveryInv, FileFollowsStage, VerdictOnFile
<1>2. QED
  BY <1>1, RecoveryInvHolds, PTL

LEMMA LifecycleStep ==
  RecoveryInv /\ [Next]_vars => [Lifecycle!Next]_file
<1> SUFFICES ASSUME RecoveryInv, [Next]_vars
             PROVE  Lifecycle!Next \/ file' = file
  OBVIOUS
<1>1. ASSUME NEW e \in Endpoint, Commit(e)
      PROVE  Lifecycle!Next
  <2>1. /\ file' = [file EXCEPT ![e] = Mark[stage[e]]]
        /\ stage[e] \in Marking
    BY <1>1, CommitWritesOne
  <2>2. CASE stage[e] = "quarantine"
    <3>1. file[e] = "available" /\ Mark[stage[e]] = "quarantined"
      BY <2>2 DEF RecoveryInv, FileFollowsStage, Mark
    <3>2. Lifecycle!Withdraw(e)
      BY <2>1, <3>1 DEF Lifecycle!Withdraw
    <3>3. QED
      BY <3>2 DEF Lifecycle!Next
  <2>3. CASE stage[e] \in {"begin", "retry"}
    <3>1. file[e] # "available" /\ Mark[stage[e]] = "recovering"
      BY <2>3 DEF RecoveryInv, FileFollowsStage, Mark
    <3>2. Lifecycle!Attempt(e)
      BY <2>1, <3>1 DEF Lifecycle!Attempt
    <3>3. QED
      BY <3>2 DEF Lifecycle!Next
  <2>4. CASE stage[e] \in {"reject", "accept"}
    <3>1. /\ file[e] = "recovering"
          /\ Mark[stage[e]] \in {"available", "quarantined"}
      BY <2>4 DEF RecoveryInv, FileFollowsStage, Mark
    <3>2. Lifecycle!Conclude(e)
      BY <2>1, <3>1 DEF Lifecycle!Conclude
    <3>3. QED
      BY <3>2 DEF Lifecycle!Next
  <2>5. QED
    BY <2>1, <2>2, <2>3, <2>4, MarkingIs
<1>2. ASSUME NEW e \in Endpoint, Boot(e)
      PROVE  file' = file
  BY <1>2 DEF Boot, RecoveryInv, LockHeld
<1>3. QED
  BY <1>1, <1>2
     DEF Next, vars, Read, WriteFails, Start, Break, Stop, Crash, RecoverStep,
         VerifyFails, RestartContainer, Probe, ProbeFails, Accept

\* The file, rewritten as a whole by every thread and process that shares it,
\* behaves as one record for each endpoint.
THEOREM ImplementsLifecycle == Spec => LifecycleSpec
<1>1. Init => Lifecycle!Init
  BY DEF Init, Lifecycle!Init, RecordState, Lifecycle!RecordState
<1>2. QED
  BY <1>1, LifecycleStep, RecoveryInvHolds, PTL
     DEF Spec, LifecycleSpec, Lifecycle!Spec

-----------------------------------------------------------------------------
(* Who writes what.                                                         *)

GivenUpLast == \A e \in Endpoint : stage[e] = "reject" => attempt[e] = Attempts

LEMMA GivenUpNext == RecoveryInv /\ GivenUpLast /\ [Next]_vars => GivenUpLast'
<1> SUFFICES ASSUME RecoveryInv, GivenUpLast, [Next]_vars PROVE GivenUpLast'
  OBVIOUS
<1> USE DEF RecoveryInv, RecoveryTypeOK, GivenUpLast
<1>1. ASSUME NEW e \in Endpoint,
             VerifyFails(e) \/ ProbeFails(e) \/ RestartContainer(e) \/ Probe(e)
      PROVE  GivenUpLast'
  BY <1>1 DEF VerifyFails, ProbeFails, RestartContainer, Probe, AttemptFailed
<1>2. ASSUME NEW e \in Endpoint, Accept(e) PROVE GivenUpLast'
  <2>1. stage' \in {[stage EXCEPT ![e] = "accept"],
                    [stage EXCEPT ![e] = AttemptFailed(e)]}
        /\ UNCHANGED attempt
    BY <1>2 DEF Accept
  <2>2. QED
    BY <2>1 DEF AttemptFailed
<1>3. ASSUME NEW e \in Endpoint, Commit(e) PROVE GivenUpLast'
  <2>1. /\ stage' = [stage EXCEPT ![e] = AfterMark[stage[e]]]
        /\ attempt' = [attempt EXCEPT ![e] = NextAttempt(e)]
        /\ stage[e] \in Marking
    BY <1>3 DEF Commit
  <2>2. AfterMark[stage[e]] # "reject"
    BY <2>1, MarkingIs DEF AfterMark
  <2>3. QED
    BY <2>1, <2>2
<1>4. ASSUME NEW e \in Endpoint,
             \/ Read(e)
             \/ WriteFails(e)
             \/ Start(e)
             \/ Boot(e)
             \/ Break(e)
             \/ Stop(e)
             \/ Crash(e)
      PROVE  GivenUpLast'
  BY <1>4 DEF Read, WriteFails, Start, Boot, BootsTo, Break, Stop, Crash
<1>5. CASE UNCHANGED vars
  BY <1>5 DEF vars
<1>6. QED
  BY <1>1, <1>2, <1>3, <1>4, <1>5 DEF Next, RecoverStep

\* A record changes by its own thread's mark only: to "available" when the
\* container has passed an acceptance and has no task loaded, and from
\* "recovering" to "quarantined" when the last attempt has failed.
OwnMark(e) ==
  /\ Commit(e)
  /\ file'[e] = "available" => proven[e] /\ ~loaded[e]
  /\ file[e] = "recovering" /\ file'[e] = "quarantined" => attempt[e] = Attempts

OwnMarksOnly ==
  [][\A e \in Endpoint : file'[e] # file[e] => OwnMark(e)]_vars

\* The file is rewritten as a whole, by many threads, and yet each record has
\* one writer, who has a reason.
THEOREM RecordsAreOwned == Spec => OwnMarksOnly
<1>1. Init => GivenUpLast
  BY DEF Init, GivenUpLast
<1>2. RecoveryInv /\ GivenUpLast /\ [Next]_vars =>
        \A e \in Endpoint : file'[e] # file[e] => OwnMark(e)
  <2> SUFFICES ASSUME RecoveryInv, GivenUpLast, [Next]_vars,
                      NEW e \in Endpoint, file'[e] # file[e]
               PROVE  OwnMark(e)
    OBVIOUS
  <2>1. ASSUME NEW f \in Endpoint, Commit(f) PROVE OwnMark(e)
    <3>1. f = e
      BY <2>1, CommitWritesOne DEF RecoveryInv, RecoveryTypeOK
    <3>2. file'[e] = Mark[stage[e]] /\ stage[e] \in Marking
      BY <2>1, <3>1, CommitWritesOne DEF RecoveryInv, RecoveryTypeOK
    <3>3. file'[e] = "available" => stage[e] = "accept"
      BY <3>2, MarkingIs DEF Mark
    <3>4. file'[e] = "quarantined" => stage[e] \in {"quarantine", "reject"}
      BY <3>2, MarkingIs DEF Mark
    <3>5. QED
      BY <2>1, <3>1, <3>3, <3>4
         DEF OwnMark, RecoveryInv, FileFollowsStage, GivenUpLast
  <2>2. ASSUME NEW f \in Endpoint, Boot(f) PROVE file' = file
    BY <2>2 DEF RecoveryInv, LockHeld, Boot
  <2>3. QED
    BY <2>1, <2>2
       DEF Next, RecoverStep, Read, WriteFails, Start, Break, Stop, Crash,
           VerifyFails, RestartContainer, Probe, ProbeFails, Accept, vars
<1>3. QED
  BY <1>1, <1>2, GivenUpNext, RecoveryInvHolds, PTL DEF Spec, OwnMarksOnly

=============================================================================
