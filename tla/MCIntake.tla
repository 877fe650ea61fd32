------------------------------ MODULE MCIntake ------------------------------
(* More messages than two concurrent requests can push past a depth of one,  *)
(* and a batch smaller than what the queue can hold.  One wakeup is enough   *)
(* for the pipeline's promises; two are needed for a claim that fails in the *)
(* middle.                                                                   *)
EXTENDS Intake

CONSTANTS m1, m2, m3, w1, w2, r1, r2

MCMessages == {m1, m2, m3}
OneMessage == {m1}
OneWakeup == {w1}
TwoWakeups == {w1, w2}
MCRequests == {r1, r2}

=============================================================================
