---- MODULE MCStepLoop ----
(* The settings of scripts/train/gigpo.sh, admire_grpo.sh and opd.sh, with  *)
(* the teacher's rescues on and off.                                        *)
EXTENDS StepLoop

Settings(estimator, teacher, rescue, loopGuard) ==
  [estimator |-> estimator, teacher |-> teacher, rescue |-> rescue,
   skip |-> teacher, loopGuard |-> loopGuard]

MCConfigs ==
  {Settings("gigpo", FALSE, FALSE, TRUE),
   Settings("gigpo", FALSE, FALSE, FALSE),
   Settings("admire_grpo", FALSE, FALSE, TRUE),
   Settings("grpo", TRUE, TRUE, TRUE),
   Settings("grpo", TRUE, FALSE, TRUE)}
====
