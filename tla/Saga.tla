-------------------------------- MODULE Saga --------------------------------
(***************************************************************************)
(* The executions of a saga by SagaService.executeSaga in one process.  An *)
(* execution's entity lives in memory and is saved before a step, after a  *)
(* step, when compensation starts and at the end.  Any of these saves may  *)
(* fail and the process may die; nothing resumes an execution from its row.*)
(*                                                                         *)
(* Executions share no state of SagaService, only the process that dies.   *)
(***************************************************************************)
EXTENDS Integers

CONSTANTS
  Executions,   \* calls of executeSaga
  StepCount,    \* saga.steps.length
  MaxDbErrors,  \* bound: failing saves
  MaxCrashes    \* bound: crashes (one ends every execution in progress)

ASSUME ConstantsAreTyped ==
  /\ StepCount \in Nat /\ MaxDbErrors \in Nat /\ MaxCrashes \in Nat

Steps == 0..(StepCount - 1)

VARIABLES
  pc,          \* the await each execution stands at
  execution,   \* its entity in memory
  row,         \* its row in saga_executions
  undoing,     \* index of its compensation loop
  executed,    \* history: steps whose execute() returned
  traces,      \* history: steps whose execute() threw after taking effect
  undone,      \* history: steps whose compensate() was called
  undoFailed,  \* history: of these, the ones whose call threw
  dbErrors, crashes

history == <<executed, traces, undone, undoFailed>>
faults == <<dbErrors, crashes>>
vars == <<pc, execution, row, undoing, history, faults>>

Statuses == {"RUNNING", "COMPLETED", "COMPENSATING", "COMPENSATED"}

\* failedStep = StepCount stands for none.  completedSteps lists the steps in
\* order, so their number says it all.
Execution == [status : Statuses, currentStep : Nat, completedSteps : Nat,
              failedStep : Nat]

Fresh == [status |-> "RUNNING", currentStep |-> 0, completedSteps |-> 0,
          failedStep |-> StepCount]

\* No row was ever inserted.
NoExecution == [status |-> "NONE"]

Over == {"returned", "threw", "dead"}

TypeOK ==
  /\ pc \in [Executions -> Over \cup
               {"new", "create", "saveStart", "execute", "saveResult",
                "saveFailure", "compensate", "saveCompensated", "saveCompleted"}]
  /\ execution \in [Executions -> Execution]
  /\ row \in [Executions -> Execution \cup {NoExecution}]
  /\ undoing \in [Executions -> -1..StepCount]
  /\ executed \in [Executions -> SUBSET Steps]
  /\ traces \in [Executions -> SUBSET Steps]
  /\ undone \in [Executions -> SUBSET Steps]
  /\ undoFailed \in [Executions -> SUBSET Steps]
  /\ dbErrors \in Nat /\ crashes \in Nat

None == [e \in Executions |-> {}]

Init ==
  /\ pc = [e \in Executions |-> "new"]
  /\ execution = [e \in Executions |-> Fresh]
  /\ row = [e \in Executions |-> NoExecution]
  /\ undoing = [e \in Executions |-> -1]
  /\ executed = None /\ traces = None /\ undone = None /\ undoFailed = None
  /\ dbErrors = 0 /\ crashes = 0

-----------------------------------------------------------------------------
\* executeSaga is called; the entity is built and its insert issued.
Start(e) ==
  /\ pc[e] = "new"
  /\ pc' = [pc EXCEPT ![e] = "create"]
  /\ UNCHANGED <<execution, row, undoing, history, faults>>

(* The loop of executeSaga moves to step i, or past the last one.          *)

\* Faulty variant: the loop stops one step early.
GoToButLast(e, i) ==
  IF i < StepCount - 1
  THEN /\ pc' = [pc EXCEPT ![e] = "saveStart"]
       /\ execution' = [execution EXCEPT ![e].currentStep = i]
  ELSE /\ pc' = [pc EXCEPT ![e] = "saveCompleted"]
       /\ execution' = [execution EXCEPT ![e].status = "COMPLETED"]

GoTo(e, i) ==
  IF i < StepCount
  THEN /\ pc' = [pc EXCEPT ![e] = "saveStart"]
       /\ execution' = [execution EXCEPT ![e].currentStep = i]
  ELSE /\ pc' = [pc EXCEPT ![e] = "saveCompleted"]
       /\ execution' = [execution EXCEPT ![e].status = "COMPLETED"]

\* Faulty variant: the row is written only when the saga ends.
SavedAtEnd(e, from) ==
  /\ pc[e] = from
  /\ row' = IF execution[e].status = "RUNNING" /\ row[e] # NoExecution
            THEN row ELSE [row EXCEPT ![e] = execution[e]]

\* The save issued at `from' commits.
Saved(e, from) == pc[e] = from /\ row' = [row EXCEPT ![e] = execution[e]]

CreateExecution(e) ==
  /\ Saved(e, "create")
  /\ GoTo(e, 0)
  /\ UNCHANGED <<undoing, history, faults>>

StartStep(e) ==
  /\ Saved(e, "saveStart")
  /\ pc' = [pc EXCEPT ![e] = "execute"]
  /\ UNCHANGED <<execution, undoing, history, faults>>

\* step.execute() resolves: the result goes to the context, the name to
\* completedSteps.
StepSucceeds(e) ==
  /\ pc[e] = "execute"
  /\ executed' = [executed EXCEPT ![e] = @ \cup {execution[e].currentStep}]
  /\ execution' = [execution EXCEPT ![e].completedSteps = @ + 1]
  /\ pc' = [pc EXCEPT ![e] = "saveResult"]
  /\ UNCHANGED <<row, undoing, traces, undone, undoFailed, faults>>

\* The catch block of a step.
BeginCompensation(e) ==
  /\ execution' = [execution EXCEPT ![e].status = "COMPENSATING",
                                    ![e].failedStep = execution[e].currentStep]
  /\ pc' = [pc EXCEPT ![e] = "saveFailure"]

\* step.execute() rejects, perhaps after it took effect in part.
StepFails(e, inPart) ==
  /\ pc[e] = "execute"
  /\ traces' = IF inPart THEN [traces EXCEPT ![e] = @ \cup {execution[e].currentStep}]
               ELSE traces
  /\ BeginCompensation(e)
  /\ UNCHANGED <<row, undoing, executed, undone, undoFailed, faults>>

SaveResult(e) ==
  /\ Saved(e, "saveResult")
  /\ GoTo(e, execution[e].currentStep + 1)
  /\ UNCHANGED <<undoing, history, faults>>

\* The save after a step shares the try block with the step.
SaveResultFails(e) ==
  /\ pc[e] = "saveResult"
  /\ dbErrors < MaxDbErrors
  /\ dbErrors' = dbErrors + 1
  /\ BeginCompensation(e)
  /\ UNCHANGED <<row, undoing, history, crashes>>

\* The compensation loop moves to step i, or past the first one.
UndoFrom(e, i) ==
  /\ undoing' = [undoing EXCEPT ![e] = i]
  /\ IF i >= 0
     THEN pc' = [pc EXCEPT ![e] = "compensate"] /\ UNCHANGED execution
     ELSE /\ pc' = [pc EXCEPT ![e] = "saveCompensated"]
          /\ execution' = [execution EXCEPT ![e].status = "COMPENSATED"]

\* Faulty variant: compensation skips a step.
FirstToUndoSkipping(e) == execution[e].currentStep - 2

\* this.compensate(saga, execution, i - 1)
FirstToUndo(e) == execution[e].currentStep - 1

SaveFailure(e) ==
  /\ Saved(e, "saveFailure")
  /\ UndoFrom(e, FirstToUndo(e))
  /\ UNCHANGED <<history, faults>>

CompensateStep(e) ==
  /\ pc[e] = "compensate"
  /\ undone' = [undone EXCEPT ![e] = @ \cup {undoing[e]}]
  /\ UndoFrom(e, undoing[e] - 1)
  /\ UNCHANGED <<row, executed, traces, undoFailed, faults>>

\* Faulty variant: an error of compensate() is not caught.
CompensateStepThrows(e) ==
  /\ pc[e] = "compensate"
  /\ undone' = [undone EXCEPT ![e] = @ \cup {undoing[e]}]
  /\ undoFailed' = [undoFailed EXCEPT ![e] = @ \cup {undoing[e]}]
  /\ pc' = [pc EXCEPT ![e] = "threw"]
  /\ UNCHANGED <<execution, row, undoing, executed, traces, faults>>

\* compensate() rejects: logged, and the loop goes on.
CompensateStepFails(e) ==
  /\ pc[e] = "compensate"
  /\ undone' = [undone EXCEPT ![e] = @ \cup {undoing[e]}]
  /\ undoFailed' = [undoFailed EXCEPT ![e] = @ \cup {undoing[e]}]
  /\ UndoFrom(e, undoing[e] - 1)
  /\ UNCHANGED <<row, executed, traces, faults>>

\* The error of the step is rethrown to the caller.
SaveCompensated(e) ==
  /\ Saved(e, "saveCompensated")
  /\ pc' = [pc EXCEPT ![e] = "threw"]
  /\ UNCHANGED <<execution, undoing, history, faults>>

SaveCompleted(e) ==
  /\ Saved(e, "saveCompleted")
  /\ pc' = [pc EXCEPT ![e] = "returned"]
  /\ UNCHANGED <<execution, undoing, history, faults>>

\* Any other save fails: the error leaves executeSaga, with no compensation.
SaveFails(e) ==
  /\ pc[e] \in {"create", "saveStart", "saveFailure", "saveCompensated",
                "saveCompleted"}
  /\ dbErrors < MaxDbErrors
  /\ dbErrors' = dbErrors + 1
  /\ pc' = [pc EXCEPT ![e] = "threw"]
  /\ UNCHANGED <<execution, row, undoing, history, crashes>>

Running(e) == pc[e] \notin Over \cup {"new"}

\* The process dies with all its executions; the steps under way in `inPart'
\* have taken effect in part.
Crash(inPart) ==
  /\ \E e \in Executions : Running(e)
  /\ crashes < MaxCrashes
  /\ crashes' = crashes + 1
  /\ traces' = [e \in Executions |->
                 IF e \in inPart THEN traces[e] \cup {execution[e].currentStep}
                 ELSE traces[e]]
  /\ pc' = [e \in Executions |-> IF Running(e) THEN "dead" ELSE pc[e]]
  /\ UNCHANGED <<execution, row, undoing, executed, undone, undoFailed, dbErrors>>

Ended == (\A e \in Executions : pc[e] \in Over) /\ UNCHANGED vars

\* The saves of executeSaga.
Save(e) ==
  \/ CreateExecution(e) \/ StartStep(e) \/ SaveResult(e) \/ SaveFailure(e)
  \/ SaveCompensated(e) \/ SaveCompleted(e)

\* What a step or a compensation does is the saga's own business.
Execute(e) ==
  \/ Save(e)
  \/ StepSucceeds(e) \/ \E inPart \in BOOLEAN : StepFails(e, inPart)
  \/ CompensateStep(e) \/ CompensateStepFails(e)

Next ==
  \/ \E e \in Executions :
       Start(e) \/ Execute(e) \/ SaveResultFails(e) \/ SaveFails(e)
  \/ \E inPart \in SUBSET {e \in Executions : pc[e] = "execute"} : Crash(inPart)
  \/ Ended

Spec == Init /\ [][Next]_vars

-----------------------------------------------------------------------------
(* Properties.                                                             *)

\* A row that says COMPLETED stands for a saga all of whose steps are in
\* effect, whatever saves failed on the way.
CompletedMeansAllInEffect ==
  \A e \in Executions :
    row[e].status = "COMPLETED" => executed[e] = Steps /\ undone[e] = {}

\* A row that says COMPENSATED leaves in effect at most the step recorded as
\* failed and steps whose compensation threw.
CompensatedLeavesFailedStep ==
  \A e \in Executions :
    row[e].status = "COMPENSATED" =>
      ((executed[e] \cup traces[e]) \ undone[e]) \subseteq {row[e].failedStep}

\* Wherever an execution is cut off, the row misses at most the last step that
\* completed.
RowLagsByOneStep ==
  \A e \in Executions :
    row[e] # NoExecution => \A s \in executed[e] : s <= row[e].completedSteps

\* compensate() is called for steps that completed, never for others.
OnlyCompletedUndone == \A e \in Executions : undone[e] \subseteq executed[e]

\* What an operator reads off the row is true of the effects, up to one step,
\* through failing saves and a crash, and only what completed was undone: he
\* knows where to look.
RowTellsEffects ==
  /\ OnlyCompletedUndone
  /\ CompletedMeansAllInEffect
  /\ CompensatedLeavesFailedStep
  /\ RowLagsByOneStep

\* "Compensate completed steps in reverse order": when the row says
\* COMPENSATED, every step it lists as completed was compensated.
CompletedStepsCompensated ==
  \A e \in Executions :
    row[e].status = "COMPENSATED" =>
      \A s \in Steps : s < row[e].completedSteps => s \in undone[e]

\* Unless a save fails or the process dies, every execution that starts ends
\* with a row that says how, although steps and compensations may fail.
EveryExecutionEnds ==
  \A e \in Executions :
    Running(e) ~> \/ row[e].status \in {"COMPLETED", "COMPENSATED"}
                  \/ dbErrors > 0 \/ crashes > 0

-----------------------------------------------------------------------------
(* The abstract promise of a saga, and the mapping to it.                  *)

\* How many leading steps are in effect.
Effects(e) ==
  IF undone[e] = {} THEN execution[e].completedSteps
                    ELSE CHOOSE s \in undone[e] : \A t \in undone[e] : s <= t

Promise(e) == INSTANCE SagaPromise WITH status <- row[e].status,
                                        effects <- Effects(e)

\* Until a save fails, the row and the effects of an execution move as
\* SagaPromise says: all steps in order, or what was done taken back, the last
\* step first, before the row says COMPENSATED.
KeepsPromise ==
  /\ \A e \in Executions : Promise(e)!Init
  /\ [][\A e \in Executions :
          dbErrors' = 0 => Promise(e)!Next
                           \/ UNCHANGED <<row[e].status, Effects(e)>>]_vars
=============================================================================
