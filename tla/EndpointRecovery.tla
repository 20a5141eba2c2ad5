-------------------------- MODULE EndpointRecovery --------------------------
(***************************************************************************)
(* EndpointRecovery (guiagentlab/env/recovery.py): the JSON file that      *)
(* outlives the pools, and the recovery of one broken container.           *)
(*                                                                         *)
(* Several threads, of one or of several processes, share the file.  A     *)
(* `with self._locked_state()' block takes the lock and reads the whole    *)
(* file (Read), and puts a whole new file in its place (Commit); the       *)
(* payload it works on is `payload[e]', and the lock is held exactly by the*)
(* one who has a payload.  Each endpoint has one thread at a time working  *)
(* for it, the one that quarantines it or the one that recovers it; that   *)
(* thread is named by its endpoint.  The thread dies with its process, so a*)
(* crash of a process that serves several endpoints is several Crash steps *)
(* in a row.                                                               *)
(*                                                                         *)
(* The exit code of `docker restart' is not kept: the code decides nothing *)
(* by it.  Whether the restart took effect is another matter.              *)
(***************************************************************************)
EXTENDS Naturals

CONSTANTS
  Endpoint,
  Attempts,     \* RecoveryConfig.attempts
  MaxCrashes,   \* bound on the crashes of a behaviour
  NoPayload

RecordState == {"available", "quarantined", "recovering", "retired"}

ASSUME RecoveryAssumption ==
  /\ Attempts \in Nat \ {0}
  /\ MaxCrashes \in Nat
  /\ NoPayload \notin [Endpoint -> RecordState]

VARIABLES
  file,      \* the "state" of each endpoint's record in the file
  payload,   \* what each thread has read and is about to write back
  stage,     \* where the endpoint's thread is
  attempt,   \* the attempt of recover_endpoint
  proven,    \* the container passed its acceptance since it last broke
  loaded,    \* the acceptance's task is loaded in the emulator
  lost,      \* the endpoint's last mark never reached the file
  crashes

vars == <<file, payload, stage, attempt, proven, loaded, lost, crashes>>
emulatorVars == <<proven, loaded>>

\* The stages that end in a locked section, and what it writes.
Mark == [quarantine |-> "quarantined", begin |-> "recovering",
         retry |-> "recovering", reject |-> "quarantined",
         accept |-> "available"]

Marking == DOMAIN Mark
Working == Marking \cup {"restart", "probe", "loaded"}
Stage == Working \cup {"down", "boot", "serving", "out"}

Init ==
  /\ file \in [Endpoint -> RecordState]
  /\ payload = [e \in Endpoint |-> NoPayload]
  /\ stage = [e \in Endpoint |-> "down"]
  /\ attempt = [e \in Endpoint |-> 1]
  /\ proven = [e \in Endpoint |-> file[e] = "available"]
  /\ loaded = [e \in Endpoint |-> FALSE]
  /\ lost = [e \in Endpoint |-> FALSE]
  /\ crashes = 0

-----------------------------------------------------------------------------
(* The locked section of mark and of statuses *)

\* Mutant: nobody takes the lock.
ReadUnlocked(e) ==
  /\ stage[e] \in Marking \cup {"boot"}
  /\ payload[e] = NoPayload
  /\ payload' = [payload EXCEPT ![e] = file]
  /\ UNCHANGED <<file, stage, attempt, emulatorVars, lost, crashes>>

\* fcntl.flock, then the whole file is read.
Read(e) ==
  /\ stage[e] \in Marking \cup {"boot"}
  /\ \A f \in Endpoint : payload[f] = NoPayload
  /\ payload' = [payload EXCEPT ![e] = file]
  /\ UNCHANGED <<file, stage, attempt, emulatorVars, lost, crashes>>

\* The stage after a mark.  After a failed attempt the thread sleeps and goes
\* on with the next one.
AfterMark ==
  [quarantine |-> "begin", begin |-> "restart", retry |-> "begin",
   reject |-> "out", accept |-> "serving"]

\* Mutant: each mark "recovering" starts the count again.
NextAttemptReset(e) ==
  IF stage[e] = "retry" THEN attempt[e] + 1
  ELSE IF stage[e] \in {"quarantine", "begin"} THEN 1 ELSE attempt[e]

NextAttempt(e) ==
  IF stage[e] = "retry" THEN attempt[e] + 1
  ELSE IF stage[e] = "quarantine" THEN 1 ELSE attempt[e]

\* os.replace: the new file appears as a whole, and the lock is given back.
Commit(e) ==
  /\ stage[e] \in Marking
  /\ payload[e] # NoPayload
  /\ file' = [payload[e] EXCEPT ![e] = Mark[stage[e]]]
  /\ payload' = [payload EXCEPT ![e] = NoPayload]
  /\ stage' = [stage EXCEPT ![e] = AfterMark[stage[e]]]
  /\ attempt' = [attempt EXCEPT ![e] = NextAttempt(e)]
  /\ lost' = [lost EXCEPT ![e] = FALSE]
  /\ UNCHANGED <<emulatorVars, crashes>>

\* Writing the temporary file fails.  The exception ends the thread, or the
\* pool's constructor; the file keeps what it had.
WriteFails(e) ==
  /\ payload[e] # NoPayload
  /\ payload' = [payload EXCEPT ![e] = NoPayload]
  /\ stage' = [stage EXCEPT ![e] = IF @ = "boot" THEN "down" ELSE "out"]
  /\ lost' = [lost EXCEPT ![e] = @ \/ stage[e] # "boot"]
  /\ UNCHANGED <<file, attempt, emulatorVars, crashes>>

-----------------------------------------------------------------------------
(* A pool starts, serves, and dies. *)

\* Mutant: only "quarantined" endpoints are taken up.
BootsToQuarantined(record) == IF record = "quarantined" THEN "begin" ELSE "serving"

\* statuses returns every endpoint that is not available, and the pool starts
\* a recovery for each.
BootsTo(record) == IF record # "available" THEN "begin" ELSE "serving"

Start(e) ==
  /\ stage[e] = "down"
  /\ stage' = [stage EXCEPT ![e] = "boot"]
  /\ UNCHANGED <<file, payload, attempt, emulatorVars, lost, crashes>>

\* statuses writes the payload back, unchanged but for its time stamp.
Boot(e) ==
  /\ stage[e] = "boot"
  /\ payload[e] # NoPayload
  /\ file' = payload[e]
  /\ payload' = [payload EXCEPT ![e] = NoPayload]
  /\ stage' = [stage EXCEPT ![e] = BootsTo(payload[e][e])]
  /\ attempt' = [attempt EXCEPT ![e] = 1]
  /\ UNCHANGED <<emulatorVars, lost, crashes>>

\* A run finds the container broken and quarantines it.
Break(e) ==
  /\ stage[e] = "serving"
  /\ stage' = [stage EXCEPT ![e] = "quarantine"]
  /\ proven' = [proven EXCEPT ![e] = FALSE]
  /\ UNCHANGED <<file, payload, attempt, loaded, lost, crashes>>

\* The pool's process ends in good order.
Stop(e) ==
  /\ stage[e] \in {"serving", "out"}
  /\ stage' = [stage EXCEPT ![e] = "down"]
  /\ UNCHANGED <<file, payload, attempt, emulatorVars, lost, crashes>>

Crash(e) ==
  /\ crashes < MaxCrashes
  /\ stage[e] # "down"
  /\ crashes' = crashes + 1
  /\ stage' = [stage EXCEPT ![e] = "down"]
  /\ payload' = [payload EXCEPT ![e] = NoPayload]
  /\ lost' = [lost EXCEPT ![e] = @ \/ stage[e] = "quarantine"]
  /\ UNCHANGED <<file, attempt, emulatorVars>>

-----------------------------------------------------------------------------
(* An attempt of recover_endpoint *)

\* Mutant: the endpoint is given up one attempt late.
AttemptFailedLate(e) == IF attempt[e] > Attempts THEN "reject" ELSE "retry"

AttemptFailed(e) == IF attempt[e] = Attempts THEN "reject" ELSE "retry"

\* _verify_container_mapping raises.
VerifyFails(e) ==
  /\ stage[e] = "restart"
  /\ stage' = [stage EXCEPT ![e] = AttemptFailed(e)]
  /\ UNCHANGED <<file, payload, attempt, emulatorVars, lost, crashes>>

\* A restart that takes effect wipes what the emulator had loaded.
RestartContainer(e) ==
  /\ stage[e] = "restart"
  /\ stage' = [stage EXCEPT ![e] = "probe"]
  /\ \E takesEffect \in BOOLEAN :
       loaded' = [loaded EXCEPT ![e] = @ /\ ~takesEffect]
  /\ UNCHANGED <<file, payload, attempt, proven, lost, crashes>>

\* _wait_ready and the acceptance up to initialize_task.
Probe(e) ==
  /\ stage[e] = "probe"
  /\ stage' = [stage EXCEPT ![e] = "loaded"]
  /\ loaded' = [loaded EXCEPT ![e] = TRUE]
  /\ UNCHANGED <<file, payload, attempt, proven, lost, crashes>>

\* Any of it fails; initialize_task may have loaded the task all the same,
\* and then nobody tears it down.
ProbeFails(e) ==
  /\ stage[e] = "probe"
  /\ stage' = [stage EXCEPT ![e] = AttemptFailed(e)]
  /\ \E tookEffect \in BOOLEAN :
       loaded' = [loaded EXCEPT ![e] = @ \/ tookEffect]
  /\ UNCHANGED <<file, payload, attempt, proven, lost, crashes>>

\* Mutant: the teardown's own failure does not count.
AcceptUnlessScreenshotFails(e, screenshot, teardown, health) ==
  screenshot /\ health

Accepts(e, screenshot, teardown, health) == screenshot /\ teardown /\ health

\* The rest of _accept_recovered_endpoint: a second screenshot, the teardown
\* (whatever the screenshot did), and the last health request.
Accept(e) ==
  /\ stage[e] = "loaded"
  /\ \E screenshot, teardown, health, tookEffect \in BOOLEAN :
       LET passes == Accepts(e, screenshot, teardown, health) IN
       /\ teardown => tookEffect
       /\ loaded' = [loaded EXCEPT ![e] = ~tookEffect]
       /\ proven' = [proven EXCEPT ![e] = passes]
       /\ stage' = [stage EXCEPT ![e] =
                      IF passes THEN "accept" ELSE AttemptFailed(e)]
  /\ UNCHANGED <<file, payload, attempt, lost, crashes>>

-----------------------------------------------------------------------------

RecoverStep(e) ==
  \/ VerifyFails(e) \/ RestartContainer(e)
  \/ Probe(e) \/ ProbeFails(e) \/ Accept(e)

Next ==
  \E e \in Endpoint :
    \/ Read(e) \/ Commit(e) \/ WriteFails(e)
    \/ Start(e) \/ Boot(e) \/ Break(e) \/ Stop(e) \/ Crash(e)
    \/ RecoverStep(e)

\* Threads and the requests they make come to an end, and the kernel does not
\* pass over a waiter for the lock for ever.  Nothing else is assumed: a pool
\* need not be started again and a container need not break.
Fairness ==
  \A e \in Endpoint :
    /\ SF_vars(Read(e))
    /\ WF_vars(Commit(e) \/ WriteFails(e))
    /\ WF_vars(Boot(e))
    /\ WF_vars(RecoverStep(e))

Spec == Init /\ [][Next]_vars

FairSpec == Spec /\ Fairness

-----------------------------------------------------------------------------
(* Properties *)

RecoveryTypeOK ==
  /\ file \in [Endpoint -> RecordState]
  /\ payload \in [Endpoint -> [Endpoint -> RecordState] \cup {NoPayload}]
  /\ stage \in [Endpoint -> Stage]
  /\ attempt \in [Endpoint -> 1..Attempts]
  /\ proven \in [Endpoint -> BOOLEAN]
  /\ loaded \in [Endpoint -> BOOLEAN]
  /\ lost \in [Endpoint -> BOOLEAN]
  /\ crashes \in 0..MaxCrashes

\* The file says "available" only of a container that has passed a whole
\* acceptance since it last broke and was left without the acceptance's task,
\* whoever else writes the file, whatever docker claims and whoever crashes.
\* The exceptions are a quarantine on its way to the file and one that never
\* got there, because the write failed or the process died first.
FileVouches ==
  \A e \in Endpoint : file[e] = "available" =>
    \/ proven[e] /\ ~loaded[e]
    \/ stage[e] = "quarantine"
    \/ lost[e]

\* Nobody is left behind "recovering": an endpoint no thread works on, in a
\* pool that runs, has a verdict in the file, though the thread that wrote
\* "recovering" may have died with an earlier process.
VerdictOnFile ==
  \A e \in Endpoint : stage[e] \in {"serving", "out"} =>
    \/ file[e] = (IF stage[e] = "serving" THEN "available" ELSE "quarantined")
    \/ lost[e]

\* The file read and replaced as a whole behaves like one record for each
\* endpoint: no update of another thread is lost, no record comes back to life.
Lifecycle == INSTANCE EndpointLifecycle WITH record <- file

LifecycleSpec == Lifecycle!Spec

\* Every recovery ends, in service or out of it, unless its process dies.
RecoveryConcludes ==
  \A e \in Endpoint :
    stage[e] \in Working ~> stage[e] \in {"serving", "out", "down"}

=============================================================================
