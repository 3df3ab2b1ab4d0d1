---------------------------- MODULE SagaPromise -----------------------------
(***************************************************************************)
(* What a saga promises: its steps take effect in order, and either all of *)
(* them stay or the effects are taken back, the last one first, before the *)
(* saga reports that it is compensated.                                    *)
(***************************************************************************)
EXTENDS Naturals

CONSTANT StepCount  \* number of steps of the saga

VARIABLES
  status,  \* what the saga reports
  effects  \* how many leading steps are in effect

Init == status = "NONE" /\ effects = 0

Begin == status = "NONE" /\ status' = "RUNNING" /\ UNCHANGED effects

Do ==
  /\ status = "RUNNING" /\ effects < StepCount
  /\ effects' = effects + 1
  /\ UNCHANGED status

Complete ==
  /\ status = "RUNNING" /\ effects = StepCount
  /\ status' = "COMPLETED"
  /\ UNCHANGED effects

GiveUp ==
  /\ status = "RUNNING" /\ effects < StepCount
  /\ status' = "COMPENSATING"
  /\ UNCHANGED effects

Undo ==
  /\ status = "COMPENSATING" /\ effects > 0
  /\ effects' = effects - 1
  /\ UNCHANGED status

Finish ==
  /\ status = "COMPENSATING" /\ effects = 0
  /\ status' = "COMPENSATED"
  /\ UNCHANGED effects

Next == Begin \/ Do \/ Complete \/ GiveUp \/ Undo \/ Finish

Spec == Init /\ [][Next]_<<status, effects>>
=============================================================================
