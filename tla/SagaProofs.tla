------------------------------ MODULE SagaProofs ------------------------------
(***************************************************************************)
(* TLAPS proofs about the saga engine, for any number of executions, steps *)
(* and faults: its types, what a row tells of the effects, and that row    *)
(* and effects move as SagaPromise says until a save fails.  The           *)
(* create-project saga is shown to take only steps of the engine, so all   *)
(* of this holds of it, and while no other setup interferes its row tells  *)
(* what became of the project.                                             *)
(***************************************************************************)
EXTENDS CreateProjectSaga, TLAPS

\* The numbers of the first k steps.
First(k) == 0..(k - 1)

\* Nothing has run, nothing is stored.
NotStarted(e) ==
  pc[e] \in {"new", "create"} =>
    /\ execution[e] = Fresh /\ row[e] = NoExecution
    /\ executed[e] = {} /\ traces[e] = {} /\ undone[e] = {}

\* The steps before currentStep are in effect and stored, and currentStep too
\* while its result is about to be saved.
GoingOn(e) ==
  pc[e] \in {"saveStart", "execute", "saveResult"} =>
    /\ execution[e].status = "RUNNING" /\ execution[e].currentStep \in Steps
    /\ execution[e].completedSteps =
         IF pc[e] = "saveResult" THEN execution[e].currentStep + 1
                                 ELSE execution[e].currentStep
    /\ executed[e] = First(execution[e].completedSteps)
    /\ traces[e] = {} /\ undone[e] = {}
    /\ row[e] \in Execution /\ row[e].status = "RUNNING"
    /\ row[e].completedSteps = execution[e].currentStep

AllDone(e) ==
  pc[e] = "saveCompleted" =>
    /\ execution[e].status = "COMPLETED"
    /\ execution[e].completedSteps = StepCount
    /\ executed[e] = Steps /\ traces[e] = {} /\ undone[e] = {}
    /\ row[e] \in Execution /\ row[e].status = "RUNNING"
    /\ row[e].completedSteps = StepCount

\* The step at which the execution failed is recorded; it may have completed
\* if it was the save behind it that failed, which takes a database error.
GivingUp(e) ==
  pc[e] \in {"saveFailure", "compensate", "saveCompensated"} =>
    /\ execution[e].currentStep \in Steps
    /\ execution[e].failedStep = execution[e].currentStep
    /\ \/ execution[e].completedSteps = execution[e].currentStep
       \/ execution[e].completedSteps = execution[e].currentStep + 1 /\ dbErrors # 0
    /\ executed[e] = First(execution[e].completedSteps)
    /\ traces[e] \subseteq {execution[e].currentStep}
    /\ row[e] \in Execution

FailureUnsaved(e) ==
  pc[e] = "saveFailure" =>
    /\ execution[e].status = "COMPENSATING" /\ undone[e] = {}
    /\ row[e].status = "RUNNING"
    /\ row[e].completedSteps = execution[e].currentStep

\* The loop of compensate() has undone the steps above its index.
TakingBack(e) ==
  pc[e] = "compensate" =>
    /\ execution[e].status = "COMPENSATING" /\ row[e].status = "COMPENSATING"
    /\ row[e].completedSteps = execution[e].completedSteps
    /\ undoing[e] \in First(execution[e].currentStep)
    /\ undone[e] = (undoing[e] + 1)..(execution[e].currentStep - 1)

TakenBack(e) ==
  pc[e] = "saveCompensated" =>
    /\ execution[e].status = "COMPENSATED" /\ row[e].status = "COMPENSATING"
    /\ row[e].completedSteps = execution[e].completedSteps
    /\ undone[e] = First(execution[e].currentStep)

\* What the row of one execution tells, however the execution ended.
RowTells(e) ==
  /\ undone[e] \subseteq executed[e]
  /\ row[e].status = "COMPLETED" => executed[e] = Steps /\ undone[e] = {}
  /\ row[e].status = "COMPENSATED" =>
       ((executed[e] \cup traces[e]) \ undone[e]) \subseteq {row[e].failedStep}
  /\ row[e] # NoExecution => \A s \in executed[e] : s <= row[e].completedSteps

Phase(e) ==
  /\ NotStarted(e) /\ GoingOn(e) /\ AllDone(e) /\ GivingUp(e)
  /\ FailureUnsaved(e) /\ TakingBack(e) /\ TakenBack(e) /\ RowTells(e)

SagaInv == TypeOK /\ \A e \in Executions : Phase(e)

-----------------------------------------------------------------------------
(* The entity of an execution.                                             *)

\* What the assignments to an entity change and leave.
LEMMA EntityEdits ==
  ASSUME NEW x \in Execution, NEW i \in Nat, NEW st \in Statuses
  PROVE  /\ [x EXCEPT !.currentStep = i] \in Execution
         /\ [x EXCEPT !.currentStep = i].currentStep = i
         /\ [x EXCEPT !.currentStep = i].status = x.status
         /\ [x EXCEPT !.currentStep = i].completedSteps = x.completedSteps
         /\ [x EXCEPT !.currentStep = i].failedStep = x.failedStep
         /\ [x EXCEPT !.status = st] \in Execution
         /\ [x EXCEPT !.status = st].status = st
         /\ [x EXCEPT !.status = st].currentStep = x.currentStep
         /\ [x EXCEPT !.status = st].completedSteps = x.completedSteps
         /\ [x EXCEPT !.status = st].failedStep = x.failedStep
         /\ [x EXCEPT !.completedSteps = i] \in Execution
         /\ [x EXCEPT !.completedSteps = i].completedSteps = i
         /\ [x EXCEPT !.completedSteps = i].status = x.status
         /\ [x EXCEPT !.completedSteps = i].currentStep = x.currentStep
         /\ [x EXCEPT !.failedStep = i] \in Execution
         /\ [x EXCEPT !.failedStep = i].failedStep = i
         /\ [x EXCEPT !.failedStep = i].status = x.status
         /\ [x EXCEPT !.failedStep = i].currentStep = x.currentStep
         /\ [x EXCEPT !.failedStep = i].completedSteps = x.completedSteps
BY DEF Execution

\* The fields of an entity are numbers, and no entity is the absence of a row.
LEMMA EntityFields ==
  ASSUME NEW x \in Execution
  PROVE  /\ x.currentStep \in Nat /\ x.completedSteps \in Nat
         /\ x.failedStep \in Nat /\ x.status \in Statuses
         /\ x # NoExecution
<1>1. x.status # "NONE"
  BY DEF Execution, Statuses
<1> QED
  BY <1>1 DEF Execution, NoExecution

\* A step of e changes nothing of the others.
Spares(e) ==
  \A f \in Executions \ {e} :
    /\ pc'[f] = pc[f] /\ execution'[f] = execution[f] /\ row'[f] = row[f]
    /\ undoing'[f] = undoing[f] /\ executed'[f] = executed[f]
    /\ traces'[f] = traces[f] /\ undone'[f] = undone[f]

\* A step of one execution leaves the others in their phases.
LEMMA OneExecutionMoves ==
  ASSUME SagaInv, NEW e \in Executions, Spares(e), TypeOK', Phase(e)',
         dbErrors' = 0 => dbErrors = 0
  PROVE  SagaInv'
<1> SUFFICES ASSUME NEW f \in Executions, f # e PROVE Phase(f)'
  BY DEF SagaInv
<1>1. Phase(f)
  BY DEF SagaInv
<1>2. /\ pc'[f] = pc[f] /\ execution'[f] = execution[f] /\ row'[f] = row[f]
      /\ undoing'[f] = undoing[f] /\ executed'[f] = executed[f]
      /\ traces'[f] = traces[f] /\ undone'[f] = undone[f]
  BY DEF Spares
<1>3. NotStarted(f)' /\ GoingOn(f)' /\ AllDone(f)'
  BY <1>1, <1>2 DEF Phase, NotStarted, GoingOn, AllDone
<1>4. GivingUp(f)'
  BY <1>1, <1>2 DEF Phase, GivingUp
<1>5. FailureUnsaved(f)' /\ TakingBack(f)' /\ TakenBack(f)' /\ RowTells(f)'
  BY <1>1, <1>2 DEF Phase, FailureUnsaved, TakingBack, TakenBack, RowTells
<1> QED
  BY <1>3, <1>4, <1>5 DEF Phase

\* The loop's next step, or its end.
LEMMA GoToMoves ==
  ASSUME TypeOK, NEW e \in Executions, NEW i \in Nat, GoTo(e, i)
  PROVE  /\ execution' \in [Executions -> Execution]
         /\ \A f \in Executions \ {e} : pc'[f] = pc[f] /\ execution'[f] = execution[f]
         /\ pc' = [pc EXCEPT ![e] = IF i < StepCount THEN "saveStart"
                                                     ELSE "saveCompleted"]
         /\ execution'[e].completedSteps = execution[e].completedSteps
         /\ execution'[e].failedStep = execution[e].failedStep
         /\ i < StepCount => /\ execution'[e].currentStep = i
                             /\ execution'[e].status = execution[e].status
         /\ ~ (i < StepCount) => execution'[e].status = "COMPLETED"
<1>1. /\ execution \in [Executions -> Execution]
      /\ execution[e] \in Execution
      /\ "COMPLETED" \in Statuses
  BY DEF TypeOK, Statuses
<1>2. CASE i < StepCount
  <2> DEFINE x == [execution[e] EXCEPT !.currentStep = i]
  <2>1. execution' = [execution EXCEPT ![e] = x] /\ pc' = [pc EXCEPT ![e] = "saveStart"]
    BY <1>1, <1>2 DEF GoTo
  <2>2. /\ x \in Execution /\ x.currentStep = i
        /\ x.status = execution[e].status
        /\ x.completedSteps = execution[e].completedSteps
        /\ x.failedStep = execution[e].failedStep
    BY <1>1, EntityEdits
  <2> HIDE DEF x
  <2> QED
    BY <1>1, <1>2, <2>1, <2>2 DEF TypeOK
<1>3. CASE ~ (i < StepCount)
  <2> DEFINE x == [execution[e] EXCEPT !.status = "COMPLETED"]
  <2>1. execution' = [execution EXCEPT ![e] = x] /\ pc' = [pc EXCEPT ![e] = "saveCompleted"]
    BY <1>1, <1>3 DEF GoTo
  <2>2. /\ x \in Execution /\ x.status = "COMPLETED"
        /\ x.completedSteps = execution[e].completedSteps
        /\ x.failedStep = execution[e].failedStep
    BY <1>1, EntityEdits
  <2> HIDE DEF x
  <2> QED
    BY <1>1, <1>3, <2>1, <2>2 DEF TypeOK
<1> QED
  BY <1>2, <1>3

\* The catch block of a step.
LEMMA BeginCompensationMoves ==
  ASSUME TypeOK, NEW e \in Executions, BeginCompensation(e)
  PROVE  /\ execution' \in [Executions -> Execution]
         /\ \A f \in Executions \ {e} : pc'[f] = pc[f] /\ execution'[f] = execution[f]
         /\ pc' = [pc EXCEPT ![e] = "saveFailure"]
         /\ execution'[e].status = "COMPENSATING"
         /\ execution'[e].failedStep = execution[e].currentStep
         /\ execution'[e].currentStep = execution[e].currentStep
         /\ execution'[e].completedSteps = execution[e].completedSteps
<1>1. /\ execution \in [Executions -> Execution]
      /\ execution[e] \in Execution
      /\ "COMPENSATING" \in Statuses
      /\ execution[e].currentStep \in Nat
  BY EntityFields DEF TypeOK, Statuses
<1> DEFINE y == [execution[e] EXCEPT !.status = "COMPENSATING"]
           x == [y EXCEPT !.failedStep = execution[e].currentStep]
<1>2. /\ y \in Execution /\ y.status = "COMPENSATING"
      /\ y.currentStep = execution[e].currentStep
      /\ y.completedSteps = execution[e].completedSteps
  BY <1>1, EntityEdits
<1>3. execution' = [execution EXCEPT ![e] = x] /\ pc' = [pc EXCEPT ![e] = "saveFailure"]
  BY <1>1 DEF BeginCompensation
<1> HIDE DEF y
<1>4. /\ x \in Execution /\ x.status = "COMPENSATING"
      /\ x.failedStep = execution[e].currentStep
      /\ x.currentStep = execution[e].currentStep
      /\ x.completedSteps = execution[e].completedSteps
  BY <1>1, <1>2, EntityEdits
<1> HIDE DEF x
<1> QED
  BY <1>1, <1>3, <1>4 DEF TypeOK

\* The compensation loop's next step, or its end.
LEMMA UndoFromMoves ==
  ASSUME TypeOK, NEW e \in Executions, NEW i \in -1..StepCount, UndoFrom(e, i)
  PROVE  /\ execution' \in [Executions -> Execution]
         /\ undoing' \in [Executions -> -1..StepCount]
         /\ \A f \in Executions \ {e} : /\ pc'[f] = pc[f]
                                        /\ execution'[f] = execution[f]
                                        /\ undoing'[f] = undoing[f]
         /\ pc' = [pc EXCEPT ![e] = IF i >= 0 THEN "compensate" ELSE "saveCompensated"]
         /\ undoing'[e] = i
         /\ execution'[e].failedStep = execution[e].failedStep
         /\ execution'[e].currentStep = execution[e].currentStep
         /\ execution'[e].completedSteps = execution[e].completedSteps
         /\ i >= 0 => execution'[e].status = execution[e].status
         /\ ~ (i >= 0) => execution'[e].status = "COMPENSATED"
<1>1. /\ execution \in [Executions -> Execution]
      /\ execution[e] \in Execution
      /\ "COMPENSATED" \in Statuses
      /\ undoing' = [undoing EXCEPT ![e] = i]
  BY DEF TypeOK, Statuses, UndoFrom
<1>2. /\ undoing' \in [Executions -> -1..StepCount]
      /\ \A f \in Executions \ {e} : undoing'[f] = undoing[f]
      /\ undoing'[e] = i
  BY <1>1 DEF TypeOK
<1>3. CASE i >= 0
  <2>1. execution' = execution /\ pc' = [pc EXCEPT ![e] = "compensate"]
    BY <1>3 DEF UndoFrom
  <2> QED
    BY <1>1, <1>2, <1>3, <2>1 DEF TypeOK
<1>4. CASE ~ (i >= 0)
  <2> DEFINE x == [execution[e] EXCEPT !.status = "COMPENSATED"]
  <2>1. /\ execution' = [execution EXCEPT ![e] = x]
        /\ pc' = [pc EXCEPT ![e] = "saveCompensated"]
    BY <1>1, <1>4 DEF UndoFrom
  <2>2. /\ x \in Execution /\ x.status = "COMPENSATED"
        /\ x.currentStep = execution[e].currentStep
        /\ x.completedSteps = execution[e].completedSteps
        /\ x.failedStep = execution[e].failedStep
    BY <1>1, EntityEdits
  <2> HIDE DEF x
  <2> QED
    BY <1>1, <1>2, <1>4, <2>1, <2>2 DEF TypeOK
<1> QED
  BY <1>3, <1>4

-----------------------------------------------------------------------------
(* The invariant, action by action.                                        *)

\* At first no saga has started.
LEMMA SagaHoldsAtFirst == Init => SagaInv
<1> SUFFICES ASSUME Init PROVE SagaInv
  OBVIOUS
<1>1. Fresh \in Execution
  BY ConstantsAreTyped DEF Fresh, Execution, Statuses
<1>2. -1 \in -1..StepCount
  BY ConstantsAreTyped
<1>3. TypeOK
  BY <1>1, <1>2 DEF Init, TypeOK, None
<1>4. ASSUME NEW e \in Executions PROVE Phase(e)
  BY DEF Init, None, NoExecution, Phase, NotStarted, GoingOn, AllDone, GivingUp,
     FailureUnsaved, TakingBack, TakenBack, RowTells
<1> QED
  BY <1>3, <1>4 DEF SagaInv

\* A save of the entity stores all of it, and nothing else.
LEMMA SavedRow ==
  ASSUME TypeOK, NEW e \in Executions, NEW from, Saved(e, from)
  PROVE  /\ pc[e] = from
         /\ row' \in [Executions -> Execution \cup {NoExecution}]
         /\ row'[e] = execution[e] /\ row'[e] \in Execution
         /\ \A f \in Executions \ {e} : row'[f] = row[f]
<1>1. execution[e] \in Execution
  BY DEF TypeOK
<1> QED
  BY <1>1 DEF Saved, TypeOK

\* execute creates the row and starts the next step.
LEMMA StartKeeps ==
  ASSUME SagaInv, NEW e \in Executions, Start(e) \/ CreateExecution(e) \/ StartStep(e)
  PROVE  SagaInv'
<1>0. TypeOK /\ Phase(e) /\ StepCount \in Nat /\ 0 \in Nat
  BY ConstantsAreTyped DEF SagaInv
<1>1. CASE Start(e)
  <2>1. Spares(e) /\ TypeOK' /\ pc'[e] = "create"
    BY <1>0, <1>1 DEF Start, Spares, TypeOK, Over, history, faults
  <2>2. Phase(e)'
    BY <1>0, <1>1, <2>1 DEF Start, history, faults, Phase, NotStarted, GoingOn,
       AllDone, GivingUp, FailureUnsaved, TakingBack, TakenBack, RowTells
  <2> QED
    BY <1>1, <2>1, <2>2, OneExecutionMoves DEF Start, faults
<1>2. CASE CreateExecution(e)
  <2>1. GoTo(e, 0) /\ Saved(e, "create") /\ UNCHANGED <<undoing, history, faults>>
    BY <1>2 DEF CreateExecution
  <2>2. /\ pc[e] = "create" /\ execution[e] = Fresh
        /\ executed[e] = {} /\ traces[e] = {} /\ undone[e] = {}
    BY <1>0, <2>1 DEF Saved, Phase, NotStarted
  <2>3. Spares(e) /\ TypeOK'
    BY <1>0, <2>1, GoToMoves, SavedRow DEF Spares, TypeOK, Over, history, faults
  <2>4. /\ row'[e] \in Execution /\ row'[e].status = "RUNNING"
        /\ row'[e].completedSteps = 0
        /\ execution'[e].completedSteps = 0
        /\ executed'[e] = {} /\ traces'[e] = {} /\ undone'[e] = {}
    BY <1>0, <2>1, <2>2, GoToMoves, SavedRow DEF Fresh, history
  <2>5. RowTells(e)'
    BY <2>4 DEF RowTells
  <2>6. CASE 0 < StepCount
    <3>1. /\ pc'[e] = "saveStart" /\ execution'[e].currentStep = 0
          /\ execution'[e].status = "RUNNING"
      BY <1>0, <2>1, <2>2, <2>6, GoToMoves DEF Fresh, TypeOK
    <3>2. 0 \in Steps /\ First(0) = {}
      BY <1>0, <2>6 DEF Steps, First
    <3>3. GoingOn(e)'
      BY <2>4, <3>1, <3>2 DEF GoingOn
    <3> QED
      BY <1>0, <2>1, <2>3, <2>5, <3>1, <3>3, OneExecutionMoves DEF faults, Phase,
         NotStarted, AllDone, GivingUp, FailureUnsaved, TakingBack, TakenBack
  <2>7. CASE ~ (0 < StepCount)
    <3>1. pc'[e] = "saveCompleted" /\ execution'[e].status = "COMPLETED"
      BY <1>0, <2>1, <2>7, GoToMoves DEF TypeOK
    <3>2. StepCount = 0 /\ Steps = {}
      BY <1>0, <2>7 DEF Steps
    <3>3. AllDone(e)'
      BY <2>4, <3>1, <3>2 DEF AllDone
    <3> QED
      BY <1>0, <2>1, <2>3, <2>5, <3>1, <3>3, OneExecutionMoves DEF faults, Phase,
         NotStarted, GoingOn, GivingUp, FailureUnsaved, TakingBack, TakenBack
  <2> QED
    BY <2>6, <2>7
<1>3. CASE StartStep(e)
  <2>1. /\ Saved(e, "saveStart") /\ pc' = [pc EXCEPT ![e] = "execute"]
        /\ UNCHANGED <<execution, undoing, history, faults>>
    BY <1>3 DEF StartStep
  <2>2. GoingOn(e) /\ pc[e] = "saveStart" /\ pc'[e] = "execute"
    BY <1>0, <2>1 DEF Saved, Phase, TypeOK
  <2>3. Spares(e) /\ TypeOK'
    BY <1>0, <2>1, SavedRow DEF Spares, TypeOK, Over, history, faults
  <2>4. row'[e] = execution[e] /\ row'[e] \in Execution
    BY <1>0, <2>1, SavedRow
  <2>5. GoingOn(e)'
    BY <2>1, <2>2, <2>4 DEF GoingOn, history
  <2>6. RowTells(e)'
    <3>1. /\ execution[e].completedSteps \in Nat
          /\ executed[e] = First(execution[e].completedSteps)
          /\ execution[e].status = "RUNNING" /\ undone[e] = {}
      BY <1>0, <2>2, <2>4, EntityFields DEF GoingOn
    <3>2. \A s \in First(execution[e].completedSteps) : s <= execution[e].completedSteps
      BY <3>1 DEF First
    <3> QED
      BY <2>1, <2>4, <3>1, <3>2 DEF RowTells, history
  <2> QED
    BY <1>0, <2>1, <2>2, <2>3, <2>5, <2>6, OneExecutionMoves DEF faults, Phase,
       NotStarted, AllDone, GivingUp, FailureUnsaved, TakingBack, TakenBack
<1> QED
  BY <1>1, <1>2, <1>3

\* The step runs, or it fails, before or after its effect.
LEMMA StepKeeps ==
  ASSUME SagaInv, NEW e \in Executions,
         StepSucceeds(e) \/ (\E inPart \in BOOLEAN : StepFails(e, inPart))
         \/ SaveResultFails(e)
  PROVE  SagaInv'
<1>0. TypeOK /\ Phase(e)
  BY DEF SagaInv
<1>1. /\ GoingOn(e) /\ pc[e] \in {"execute", "saveResult"}
      /\ execution[e] \in Execution
      /\ execution[e].currentStep \in Steps /\ execution[e].currentStep \in Nat
      /\ row[e] \in Execution /\ row[e].status = "RUNNING"
      /\ row[e].completedSteps = execution[e].currentStep
      /\ undone[e] = {} /\ traces[e] = {}
      /\ executed[e] = First(execution[e].completedSteps)
  BY <1>0, EntityFields DEF StepSucceeds, StepFails, SaveResultFails, Phase, GoingOn,
     TypeOK
<1> DEFINE s == execution[e].currentStep
<1>2. First(s + 1) = First(s) \cup {s} /\ \A t \in First(s + 1) : t <= s
  BY <1>1 DEF First
<1>3. \A t \in First(s) : t <= s
  BY <1>1 DEF First
<1>4. CASE StepSucceeds(e)
  <2> DEFINE x == [execution[e] EXCEPT !.completedSteps = s + 1]
  <2>1. /\ pc[e] = "execute" /\ execution[e].completedSteps = s
        /\ pc' = [pc EXCEPT ![e] = "saveResult"]
        /\ executed' = [executed EXCEPT ![e] = @ \cup {s}]
        /\ UNCHANGED <<row, undoing, traces, undone, undoFailed, faults>>
    BY <1>1, <1>4 DEF StepSucceeds, GoingOn
  <2>2. execution' = [execution EXCEPT ![e] = x]
    BY <1>0, <1>4, <2>1 DEF StepSucceeds, TypeOK
  <2>3. /\ x \in Execution /\ x.completedSteps = s + 1
        /\ x.currentStep = s /\ x.status = execution[e].status
    <3>1. s + 1 \in Nat /\ "RUNNING" \in Statuses
      BY <1>1 DEF Statuses
    <3> QED
      BY <1>1, <3>1, EntityEdits
  <2> HIDE DEF x
  <2>4. executed' \in [Executions -> SUBSET Steps] /\ executed'[e] = First(s + 1)
    BY <1>0, <1>1, <1>2, <2>1 DEF TypeOK
  <2>5. execution' \in [Executions -> Execution] /\ execution'[e] = x
    BY <1>0, <2>2, <2>3 DEF TypeOK
  <2>6. Spares(e) /\ TypeOK' /\ pc'[e] = "saveResult"
    BY <1>0, <2>1, <2>2, <2>4, <2>5 DEF Spares, TypeOK, Over, faults
  <2>7. GoingOn(e)'
    BY <1>1, <2>1, <2>3, <2>4, <2>5, <2>6 DEF GoingOn
  <2>8. RowTells(e)'
    BY <1>1, <1>2, <2>1, <2>4 DEF RowTells
  <2> QED
    BY <2>1, <2>6, <2>7, <2>8, OneExecutionMoves DEF faults, Phase, NotStarted,
       AllDone, GivingUp, FailureUnsaved, TakingBack, TakenBack
\* A rejecting step and a failing save behind it end in the same catch block.
<1>5. ASSUME BeginCompensation(e), UNCHANGED <<row, undoing, executed, undone, undoFailed>>,
             crashes' = crashes, dbErrors' \in Nat,
             traces' \in [Executions -> SUBSET Steps],
             \A f \in Executions \ {e} : traces'[f] = traces[f],
             traces'[e] \subseteq {s},
             \/ pc[e] = "execute" /\ dbErrors' = dbErrors
             \/ pc[e] = "saveResult" /\ dbErrors' # 0
      PROVE  SagaInv'
  <2>1. /\ execution' \in [Executions -> Execution]
        /\ pc' = [pc EXCEPT ![e] = "saveFailure"]
        /\ execution'[e].status = "COMPENSATING"
        /\ execution'[e].failedStep = s
        /\ execution'[e].currentStep = s
        /\ execution'[e].completedSteps = execution[e].completedSteps
    BY <1>0, <1>5, BeginCompensationMoves
  <2>2. Spares(e) /\ TypeOK' /\ pc'[e] = "saveFailure"
    <3>1. \A f \in Executions \ {e} : pc'[f] = pc[f] /\ execution'[f] = execution[f]
      BY <1>0, <1>5, BeginCompensationMoves
    <3> QED
      BY <1>0, <1>5, <2>1, <3>1 DEF Spares, TypeOK, Over
  <2>3. \/ execution[e].completedSteps = s
        \/ execution[e].completedSteps = s + 1 /\ dbErrors' # 0
    BY <1>1, <1>5 DEF GoingOn
  <2>4. GivingUp(e)'
    BY <1>1, <1>5, <2>1, <2>2, <2>3 DEF GivingUp
  <2>5. FailureUnsaved(e)'
    BY <1>1, <1>5, <2>1 DEF FailureUnsaved
  <2>6. RowTells(e)'
    <3>1. \A t \in executed[e] : t <= s
      BY <1>1, <1>2, <1>3, <2>3
    <3> QED
      BY <1>1, <1>5, <3>1 DEF RowTells
  <2>7. dbErrors' = 0 => dbErrors = 0
    BY <1>5
  <2> QED
    BY <2>2, <2>4, <2>5, <2>6, <2>7, OneExecutionMoves DEF Phase, NotStarted,
       GoingOn, AllDone, TakingBack, TakenBack
<1>6. ASSUME NEW inPart \in BOOLEAN, StepFails(e, inPart) PROVE SagaInv'
  <2>1. /\ traces' \in [Executions -> SUBSET Steps]
        /\ \A f \in Executions \ {e} : traces'[f] = traces[f]
        /\ traces'[e] \subseteq {s}
    <3>1. CASE inPart
      BY <1>0, <1>1, <1>6, <3>1 DEF StepFails, TypeOK
    <3>2. CASE ~ inPart
      BY <1>0, <1>1, <1>6, <3>2 DEF StepFails, TypeOK
    <3> QED
      BY <3>1, <3>2
  <2> QED
    BY <1>0, <1>5, <1>6, <2>1 DEF StepFails, faults, TypeOK
<1>7. CASE SaveResultFails(e)
  <2>1. dbErrors' \in Nat /\ dbErrors' # 0
    BY <1>0, <1>7 DEF SaveResultFails, TypeOK
  <2>2. UNCHANGED <<row, undoing, executed, traces, undone, undoFailed, crashes>>
    BY <1>7 DEF SaveResultFails, history
  <2>3. traces' \in [Executions -> SUBSET Steps] /\ traces'[e] \subseteq {s}
    BY <1>0, <1>1, <2>2 DEF TypeOK
  <2> QED
    BY <1>5, <1>7, <2>1, <2>2, <2>3 DEF SaveResultFails
<1> QED
  BY <1>4, <1>6, <1>7

\* The row takes the result and the number of the next step.
LEMMA SaveResultKeeps ==
  ASSUME SagaInv, NEW e \in Executions, SaveResult(e)
  PROVE  SagaInv'
<1>0. TypeOK /\ Phase(e) /\ StepCount \in Nat
  BY ConstantsAreTyped DEF SagaInv
<1> DEFINE s == execution[e].currentStep
<1>1. /\ Saved(e, "saveResult") /\ GoTo(e, s + 1)
      /\ UNCHANGED <<undoing, history, faults>>
  BY DEF SaveResult
<1>2. /\ execution[e] \in Execution /\ s \in Steps /\ s \in Nat
      /\ execution[e].status = "RUNNING" /\ execution[e].completedSteps = s + 1
      /\ executed[e] = First(s + 1) /\ traces[e] = {} /\ undone[e] = {}
  BY <1>0, <1>1, EntityFields DEF Saved, Phase, GoingOn, TypeOK
<1>3. s + 1 \in Nat /\ (s + 1 < StepCount \/ s + 1 = StepCount)
  BY <1>0, <1>2 DEF Steps
<1>4. /\ row' \in [Executions -> Execution \cup {NoExecution}]
      /\ row'[e] = execution[e] /\ row'[e] \in Execution
      /\ \A f \in Executions \ {e} : row'[f] = row[f]
  BY <1>0, <1>1, SavedRow
<1>5. /\ execution' \in [Executions -> Execution]
      /\ \A f \in Executions \ {e} : pc'[f] = pc[f] /\ execution'[f] = execution[f]
      /\ pc' = [pc EXCEPT ![e] = IF s + 1 < StepCount THEN "saveStart"
                                                      ELSE "saveCompleted"]
      /\ execution'[e].completedSteps = s + 1
      /\ s + 1 < StepCount => /\ execution'[e].currentStep = s + 1
                              /\ execution'[e].status = "RUNNING"
      /\ ~ (s + 1 < StepCount) => execution'[e].status = "COMPLETED"
  BY <1>0, <1>1, <1>2, <1>3, GoToMoves
<1> HIDE DEF s
<1>6. Spares(e) /\ TypeOK'
  BY <1>0, <1>1, <1>4, <1>5 DEF Spares, TypeOK, Over, history, faults
<1>7. RowTells(e)'
  <2>1. \A t \in First(s + 1) : t <= s + 1
    BY <1>3 DEF First
  <2> QED
    BY <1>1, <1>2, <1>4, <2>1 DEF RowTells, history
<1>8. CASE s + 1 < StepCount
  <2>1. pc'[e] = "saveStart"
    BY <1>0, <1>5, <1>8 DEF TypeOK
  <2>2. s + 1 \in Steps
    BY <1>0, <1>3, <1>8 DEF Steps
  <2>3. GoingOn(e)'
    BY <1>1, <1>2, <1>4, <1>5, <1>8, <2>1, <2>2 DEF GoingOn, history
  <2> QED
    BY <1>1, <1>6, <1>7, <2>1, <2>3, OneExecutionMoves DEF faults, Phase,
       NotStarted, AllDone, GivingUp, FailureUnsaved, TakingBack, TakenBack
<1>9. CASE ~ (s + 1 < StepCount)
  <2>1. pc'[e] = "saveCompleted"
    BY <1>0, <1>5, <1>9 DEF TypeOK
  <2>2. First(s + 1) = Steps /\ s + 1 = StepCount
    BY <1>3, <1>9 DEF First, Steps
  <2>3. AllDone(e)'
    BY <1>1, <1>2, <1>4, <1>5, <1>9, <2>1, <2>2 DEF AllDone, history
  <2> QED
    BY <1>1, <1>6, <1>7, <2>1, <2>3, OneExecutionMoves DEF faults, Phase,
       NotStarted, GoingOn, GivingUp, FailureUnsaved, TakingBack, TakenBack
<1> QED
  BY <1>8, <1>9

\* The failure is saved and the completed steps are undone backwards.
LEMMA CompensationKeeps ==
  ASSUME SagaInv, NEW e \in Executions,
         SaveFailure(e) \/ CompensateStep(e) \/ CompensateStepFails(e)
  PROVE  SagaInv'
<1>0. TypeOK /\ Phase(e) /\ StepCount \in Nat
  BY ConstantsAreTyped DEF SagaInv
<1> DEFINE s == execution[e].currentStep
           k == execution[e].completedSteps
<1>1. /\ pc[e] \in {"saveFailure", "compensate"}
      /\ execution[e] \in Execution /\ s \in Steps /\ s \in Nat
      /\ execution[e].failedStep = s /\ (k = s \/ (k = s + 1 /\ dbErrors # 0))
      /\ executed[e] = First(k) /\ traces[e] \subseteq {s}
      /\ row[e] \in Execution
      /\ execution[e].status = "COMPENSATING"
  <2>1. pc[e] \in {"saveFailure", "compensate"}
    BY DEF SaveFailure, CompensateStep, CompensateStepFails, Saved
  <2>2. execution[e] \in Execution /\ s \in Nat
    BY <1>0, EntityFields DEF TypeOK
  <2>3. execution[e].status = "COMPENSATING"
    BY <1>0, <2>1 DEF Phase, FailureUnsaved, TakingBack
  <2>4. GivingUp(e)
    BY <1>0 DEF Phase
  <2>5. s \in Steps /\ execution[e].failedStep = s /\ row[e] \in Execution
    BY <2>1, <2>4 DEF GivingUp
  <2>6. k = s \/ (k = s + 1 /\ dbErrors # 0)
    BY <2>1, <2>4 DEF GivingUp
  <2>7. executed[e] = First(k) /\ traces[e] \subseteq {s}
    BY <2>1, <2>4 DEF GivingUp
  <2> HIDE DEF s, k
  <2> QED
    BY <2>1, <2>2, <2>3, <2>5, <2>6, <2>7
<1>2. s < StepCount /\ k \in Nat
  BY <1>0, <1>1 DEF Steps
\* The loop goes to step i with the steps above it undone and the row saved.
<1>3. ASSUME NEW i \in -1..(s - 1), UndoFrom(e, i),
             row' \in [Executions -> Execution \cup {NoExecution}],
             \A f \in Executions \ {e} : row'[f] = row[f],
             row'[e] \in Execution, row'[e].status = "COMPENSATING",
             row'[e].completedSteps = k,
             undone' \in [Executions -> SUBSET Steps],
             \A f \in Executions \ {e} : undone'[f] = undone[f],
             undone'[e] = (i + 1)..(s - 1),
             undoFailed' \in [Executions -> SUBSET Steps],
             UNCHANGED <<executed, traces, faults>>
      PROVE  SagaInv'
  <2>1. /\ execution' \in [Executions -> Execution]
        /\ undoing' \in [Executions -> -1..StepCount]
        /\ \A f \in Executions \ {e} : /\ pc'[f] = pc[f]
                                       /\ execution'[f] = execution[f]
                                       /\ undoing'[f] = undoing[f]
        /\ pc' = [pc EXCEPT ![e] = IF i >= 0 THEN "compensate" ELSE "saveCompensated"]
        /\ undoing'[e] = i
        /\ execution'[e].failedStep = s
        /\ execution'[e].currentStep = s
        /\ execution'[e].completedSteps = k
        /\ i >= 0 => execution'[e].status = "COMPENSATING"
        /\ ~ (i >= 0) => execution'[e].status = "COMPENSATED"
    <3>1. i \in -1..StepCount
      BY <1>0, <1>1, <1>2
    <3> QED
      BY <1>0, <1>1, <1>3, <3>1, UndoFromMoves
  <2> HIDE DEF s, k
  <2>2. Spares(e) /\ TypeOK'
    BY <1>0, <1>3, <2>1 DEF Spares, TypeOK, Over, faults
  <2>3. RowTells(e)'
    <3>1. (i + 1)..(s - 1) \subseteq First(k)
      BY <1>1, <1>2, <1>3 DEF First
    <3>2. \A t \in First(k) : t <= k
      BY <1>2 DEF First
    <3> QED
      BY <1>1, <1>3, <3>1, <3>2 DEF RowTells
  <2>4. CASE i >= 0
    <3>1. pc'[e] = "compensate"
      BY <1>0, <2>1, <2>4 DEF TypeOK
    <3>2. i \in First(s)
      BY <1>1, <1>3, <2>4 DEF First
    <3>3. GivingUp(e)' /\ TakingBack(e)'
      BY <1>1, <1>3, <2>1, <2>4, <3>1, <3>2 DEF GivingUp, TakingBack, faults
    <3> QED
      BY <1>3, <2>2, <2>3, <3>1, <3>3, OneExecutionMoves DEF faults, Phase,
         NotStarted, GoingOn, AllDone, FailureUnsaved, TakenBack
  <2>5. CASE ~ (i >= 0)
    <3>1. pc'[e] = "saveCompensated"
      BY <1>0, <2>1, <2>5 DEF TypeOK
    <3>2. (i + 1)..(s - 1) = First(s)
      BY <1>1, <1>3, <2>5 DEF First
    <3>3. GivingUp(e)' /\ TakenBack(e)'
      BY <1>1, <1>3, <2>1, <2>5, <3>1, <3>2 DEF GivingUp, TakenBack, faults
    <3> QED
      BY <1>3, <2>2, <2>3, <3>1, <3>3, OneExecutionMoves DEF faults, Phase,
         NotStarted, GoingOn, AllDone, FailureUnsaved, TakingBack
  <2> QED
    BY <2>4, <2>5
<1>4. CASE SaveFailure(e)
  <2>1. /\ Saved(e, "saveFailure") /\ UndoFrom(e, s - 1)
        /\ UNCHANGED <<history, faults>>
    BY <1>4 DEF SaveFailure, FirstToUndo
  <2>2. /\ row' \in [Executions -> Execution \cup {NoExecution}]
        /\ row'[e] = execution[e]
        /\ \A f \in Executions \ {e} : row'[f] = row[f]
    BY <1>0, <2>1, SavedRow
  <2>3. undone[e] = {} /\ ((s - 1) + 1)..(s - 1) = {} /\ s - 1 \in -1..(s - 1)
    BY <1>0, <1>1, <2>1 DEF Saved, Phase, FailureUnsaved
  <2>4. undone \in [Executions -> SUBSET Steps] /\ undoFailed \in [Executions -> SUBSET Steps]
    BY <1>0 DEF TypeOK
  <2> QED
    BY <1>1, <1>3, <2>1, <2>2, <2>3, <2>4 DEF history
<1>5. CASE CompensateStep(e) \/ CompensateStepFails(e)
  <2> DEFINE j == undoing[e]
  <2>1. /\ pc[e] = "compensate" /\ UndoFrom(e, j - 1)
        /\ undone' = [undone EXCEPT ![e] = @ \cup {j}]
        /\ undoFailed' \in {undoFailed, [undoFailed EXCEPT ![e] = @ \cup {j}]}
        /\ UNCHANGED <<row, executed, traces, faults>>
    BY <1>5 DEF CompensateStep, CompensateStepFails
  <2>2. /\ j \in First(s) /\ undone[e] = (j + 1)..(s - 1)
        /\ row[e].status = "COMPENSATING" /\ row[e].completedSteps = k
    BY <1>0, <2>1 DEF Phase, TakingBack
  <2>3. /\ j \in Steps /\ j - 1 \in -1..(s - 1)
        /\ ((j + 1)..(s - 1)) \cup {j} = ((j - 1) + 1)..(s - 1)
    <3>1. j \in Int /\ 0 <= j /\ j <= s - 1
      BY <1>1, <2>2 DEF First
    <3> HIDE DEF j, s
    <3>2. j \in Steps
      BY <1>0, <1>1, <1>2, <3>1 DEF Steps
    <3>3. j - 1 \in -1..(s - 1)
      BY <1>1, <3>1
    <3>4. (j - 1) + 1 = j
      BY <3>1
    <3>5. ((j + 1)..(s - 1)) \cup {j} = j..(s - 1)
      BY <1>1, <3>1
    <3> QED
      BY <3>2, <3>3, <3>4, <3>5
  <2> HIDE DEF j
  <2>4. /\ undone' \in [Executions -> SUBSET Steps]
        /\ undone'[e] = ((j - 1) + 1)..(s - 1)
        /\ \A f \in Executions \ {e} : undone'[f] = undone[f]
    <3>1. undone \in [Executions -> SUBSET Steps]
      BY <1>0 DEF TypeOK
    <3>2. undone'[e] = undone[e] \cup {j} /\ \A f \in Executions \ {e} : undone'[f] = undone[f]
      BY <2>1, <3>1
    <3>3. undone' \in [Executions -> SUBSET Steps]
      BY <2>1, <2>3, <3>1
    <3> QED
      BY <2>2, <2>3, <3>2, <3>3
  <2>5. undoFailed' \in [Executions -> SUBSET Steps]
    BY <1>0, <2>1, <2>3 DEF TypeOK
  <2>6. row \in [Executions -> Execution \cup {NoExecution}]
    BY <1>0 DEF TypeOK
  <2> QED
    BY <1>1, <1>3, <2>1, <2>2, <2>3, <2>4, <2>5, <2>6
<1> QED
  BY <1>4, <1>5

\* The last save of a run, and a save that fails.
LEMMA EndKeeps ==
  ASSUME SagaInv, NEW e \in Executions,
         SaveCompensated(e) \/ SaveCompleted(e) \/ SaveFails(e)
  PROVE  SagaInv'
<1>0. TypeOK /\ Phase(e)
  BY DEF SagaInv
<1>1. ASSUME RowTells(e)', pc'[e] \in Over PROVE Phase(e)'
  BY <1>1 DEF Over, Phase, NotStarted, GoingOn, AllDone, GivingUp, FailureUnsaved,
     TakingBack, TakenBack
<1>2. CASE SaveFails(e)
  <2>1. Spares(e) /\ TypeOK' /\ pc'[e] \in Over
    BY <1>0, <1>2 DEF SaveFails, Spares, TypeOK, Over, history
  <2>2. RowTells(e)'
    BY <1>0, <1>2 DEF SaveFails, history, Phase, RowTells
  <2>3. dbErrors' # 0
    BY <1>0, <1>2 DEF SaveFails, TypeOK
  <2> QED
    BY <1>1, <2>1, <2>2, <2>3, OneExecutionMoves
<1>3. CASE SaveCompensated(e)
  <2>1. /\ Saved(e, "saveCompensated") /\ pc' = [pc EXCEPT ![e] = "threw"]
        /\ UNCHANGED <<execution, undoing, history, faults>>
    BY <1>3 DEF SaveCompensated
  <2>2. Spares(e) /\ TypeOK' /\ pc'[e] \in Over
    BY <1>0, <2>1, SavedRow DEF Spares, TypeOK, Over, history, faults
  <2> DEFINE s == execution[e].currentStep
             k == execution[e].completedSteps
  <2>3. /\ row'[e] = execution[e] /\ row'[e] \in Execution
        /\ row'[e].status = "COMPENSATED" /\ row'[e].failedStep = s
        /\ row'[e].completedSteps = k
        /\ s \in Nat /\ k \in {s, s + 1}
        /\ executed[e] = First(k) /\ undone[e] = First(s) /\ traces[e] \subseteq {s}
    BY <1>0, <2>1, SavedRow, EntityFields DEF Saved, Phase, GivingUp, TakenBack
  <2> HIDE DEF s, k
  <2>4. /\ First(s) \subseteq First(k) /\ First(k) \ First(s) \subseteq {s}
        /\ \A t \in First(k) : t <= k
    BY <2>3 DEF First
  <2>5. RowTells(e)'
    BY <2>1, <2>3, <2>4 DEF RowTells, history
  <2> QED
    BY <1>1, <2>1, <2>2, <2>5, OneExecutionMoves DEF faults
<1>4. CASE SaveCompleted(e)
  <2>1. /\ Saved(e, "saveCompleted") /\ pc' = [pc EXCEPT ![e] = "returned"]
        /\ UNCHANGED <<execution, undoing, history, faults>>
    BY <1>4 DEF SaveCompleted
  <2>2. Spares(e) /\ TypeOK' /\ pc'[e] \in Over
    BY <1>0, <2>1, SavedRow DEF Spares, TypeOK, Over, history, faults
  <2>3. /\ row'[e] = execution[e]
        /\ row'[e].status = "COMPLETED" /\ row'[e].completedSteps = StepCount
        /\ executed[e] = Steps /\ undone[e] = {}
    BY <1>0, <2>1, SavedRow DEF Saved, Phase, AllDone
  <2>4. \A t \in Steps : t <= StepCount
    BY ConstantsAreTyped DEF Steps
  <2>5. RowTells(e)'
    BY <2>1, <2>3, <2>4 DEF RowTells, history
  <2> QED
    BY <1>1, <2>1, <2>2, <2>5, OneExecutionMoves DEF faults
<1> QED
  BY <1>2, <1>3, <1>4

\* A crash stops every run where it is.
LEMMA CrashKeeps ==
  ASSUME SagaInv, NEW inPart \in SUBSET {e \in Executions : pc[e] = "execute"},
         Crash(inPart)
  PROVE  SagaInv'
<1>0. TypeOK
  BY DEF SagaInv
<1>1. ASSUME NEW e \in Executions
      PROVE  /\ traces'[e] \subseteq Steps
             /\ Phase(e)'
  <2>1. Phase(e)
    BY DEF SagaInv
  <2>2. /\ pc'[e] = IF Running(e) THEN "dead" ELSE pc[e]
        /\ traces'[e] = IF e \in inPart THEN traces[e] \cup {execution[e].currentStep}
                        ELSE traces[e]
        /\ UNCHANGED <<execution, row, undoing, executed, undone, dbErrors>>
    BY DEF Crash
  <2>3. CASE e \in inPart
    <3>1. /\ pc[e] = "execute" /\ pc'[e] = "dead"
          /\ execution[e].currentStep \in Steps /\ row[e].status = "RUNNING"
          /\ traces[e] = {}
      BY <2>1, <2>2, <2>3 DEF Phase, GoingOn, Running, Over
    <3>2. RowTells(e)'
      BY <2>1, <2>2, <3>1 DEF Phase, RowTells
    <3> QED
      BY <2>2, <2>3, <3>1, <3>2 DEF Phase, NotStarted, GoingOn, AllDone, GivingUp,
         FailureUnsaved, TakingBack, TakenBack
  <2>4. CASE e \notin inPart
    <3>1. traces'[e] = traces[e] /\ traces[e] \subseteq Steps
      BY <1>0, <2>2, <2>4 DEF TypeOK
    <3>2. RowTells(e)'
      BY <2>1, <2>2, <3>1 DEF Phase, RowTells
    <3>3. CASE Running(e)
      <4>1. pc'[e] = "dead"
        BY <2>2, <3>3
      <4> QED
        BY <3>1, <3>2, <4>1 DEF Phase, NotStarted, GoingOn, AllDone, GivingUp,
           FailureUnsaved, TakingBack, TakenBack
    <3>4. CASE ~ Running(e)
      <4>1. pc'[e] = pc[e] /\ pc[e] \in Over \cup {"new"}
        BY <2>2, <3>4 DEF Running
      <4> QED
        BY <2>1, <2>2, <3>1, <3>2, <4>1 DEF Phase, NotStarted, GoingOn, AllDone,
           GivingUp, FailureUnsaved, TakingBack, TakenBack, Over
    <3> QED
      BY <3>3, <3>4
  <2> QED
    BY <2>3, <2>4
<1>2. traces' \in [Executions -> SUBSET Steps]
  <2>1. traces' = [e \in Executions |-> traces'[e]]
    BY DEF Crash
  <2> QED
    BY <1>1, <2>1
<1>3. TypeOK'
  BY <1>0, <1>2 DEF Crash, TypeOK, Over
<1> QED
  BY <1>1, <1>3 DEF SagaInv

\* Every step keeps each execution in the phase its pc and row tell.
LEMMA SagaStep == SagaInv /\ [Next]_vars => SagaInv'
<1> SUFFICES ASSUME SagaInv, [Next]_vars PROVE SagaInv'
  OBVIOUS
<1>1. CASE UNCHANGED vars
  <2>1. TypeOK'
    BY <1>1 DEF SagaInv, TypeOK, vars, history, faults
  <2>2. ASSUME NEW e \in Executions PROVE Phase(e)'
    <3>1. Phase(e)
      BY DEF SagaInv
    <3> QED
      BY <1>1, <3>1 DEF vars, history, faults, Phase, NotStarted, GoingOn, AllDone,
         GivingUp, FailureUnsaved, TakingBack, TakenBack, RowTells
  <2> QED
    BY <2>1, <2>2 DEF SagaInv
<1> QED
  BY <1>1, StartKeeps, StepKeeps, SaveResultKeeps, CompensationKeeps, EndKeeps,
     CrashKeeps DEF Next, Execute, Save, Ended

-----------------------------------------------------------------------------
(* The promise.                                                            *)

\* The index the compensation loop undid last is the least of those undone.
Least(S) == CHOOSE s \in S : \A t \in S : s <= t

\* The least number of an interval is its first.
LEMMA LeastOfInterval ==
  ASSUME NEW a \in Int, NEW b \in Int, a <= b
  PROVE  Least(a..b) = a
<1>1. a \in a..b /\ \A t \in a..b : a <= t
  OBVIOUS
<1>2. \A s \in a..b : (\A t \in a..b : s <= t) => s = a
  BY <1>1
<1> QED
  BY <1>1, <1>2 DEF Least

\* What SagaPromise sees of an execution, before and after a step.
LEMMA EffectsAre ==
  ASSUME NEW e \in Executions
  PROVE  /\ undone[e] = {} => Effects(e) = execution[e].completedSteps
         /\ undone'[e] = {} => Effects(e)' = execution'[e].completedSteps
         /\ undone[e] # {} => Effects(e) = Least(undone[e])
         /\ undone'[e] # {} => Effects(e)' = Least(undone'[e])
BY DEF Effects, Least

\* What SagaPromise allows the row and the effects of one execution to do.
PromiseKept(e) ==
  dbErrors' = 0 =>
    Promise(e)!Next \/ UNCHANGED <<row[e].status, Effects(e)>>

\* An execution that a step leaves alone keeps its promise.
LEMMA UntouchedKeepsPromise ==
  ASSUME NEW e \in Executions, row'[e].status = row[e].status,
         undone'[e] = undone[e],
         execution'[e].completedSteps = execution[e].completedSteps
  PROVE  PromiseKept(e)
BY DEF PromiseKept, Effects

\* Going forward adds one effect at a time.
LEMMA ForwardKeepsPromise ==
  ASSUME SagaInv, NEW e \in Executions,
         \/ CreateExecution(e) \/ StartStep(e) \/ StepSucceeds(e)
         \/ SaveResult(e) \/ SaveCompleted(e)
  PROVE  PromiseKept(e)
<1>0. TypeOK /\ Phase(e) /\ execution[e] \in Execution
  BY DEF SagaInv, TypeOK
<1>1. undone[e] = {} /\ undone'[e] = undone[e]
  BY <1>0 DEF CreateExecution, StartStep, StepSucceeds, SaveResult, SaveCompleted,
     Saved, history, Phase, NotStarted, GoingOn, AllDone
<1>2. /\ Effects(e) = execution[e].completedSteps
      /\ Effects(e)' = execution'[e].completedSteps
  BY <1>1, EffectsAre
<1>3. CASE CreateExecution(e)
  <2>1. /\ Saved(e, "create") /\ GoTo(e, 0)
    BY <1>3 DEF CreateExecution
  <2>2. /\ row[e].status = "NONE" /\ execution[e] = Fresh
    BY <1>0, <2>1 DEF Saved, Phase, NotStarted, NoExecution
  <2>3. row'[e].status = "RUNNING"
    BY <1>0, <2>1, <2>2, SavedRow DEF Fresh
  <2>4. execution'[e].completedSteps = execution[e].completedSteps
    BY <1>0, <2>1, GoToMoves
  <2>5. Promise(e)!Begin
    BY <1>2, <2>2, <2>3, <2>4 DEF Promise!Begin
  <2> QED
    BY <2>5 DEF PromiseKept, Promise!Next
<1>4. CASE StartStep(e)
  <2>1. Saved(e, "saveStart") /\ execution' = execution
    BY <1>4 DEF StartStep
  <2>2. row[e].status = "RUNNING" /\ execution[e].status = "RUNNING"
    BY <1>0, <2>1 DEF Saved, Phase, GoingOn
  <2>3. row'[e].status = row[e].status
    BY <1>0, <2>1, <2>2, SavedRow
  <2> QED
    BY <1>1, <2>1, <2>3, UntouchedKeepsPromise
<1>5. CASE SaveResult(e)
  <2>1. Saved(e, "saveResult") /\ GoTo(e, execution[e].currentStep + 1)
    BY <1>5 DEF SaveResult
  <2>2. row[e].status = "RUNNING" /\ execution[e].status = "RUNNING"
    BY <1>0, <2>1 DEF Saved, Phase, GoingOn
  <2>3. row'[e].status = row[e].status
    BY <1>0, <2>1, <2>2, SavedRow
  <2>4. execution[e].currentStep + 1 \in Nat
    BY <1>0, EntityFields
  <2>5. execution'[e].completedSteps = execution[e].completedSteps
    BY <1>0, <2>1, <2>4, GoToMoves
  <2> QED
    BY <1>1, <2>3, <2>5, UntouchedKeepsPromise
<1>6. CASE StepSucceeds(e)
  <2>1. /\ row' = row /\ pc[e] = "execute"
        /\ execution' = [execution EXCEPT ![e] =
             [execution[e] EXCEPT !.completedSteps = execution[e].completedSteps + 1]]
    BY <1>0, <1>6 DEF StepSucceeds, TypeOK
  <2>2. row[e].status = "RUNNING" /\ execution[e].completedSteps < StepCount
    BY <1>0, <2>1, ConstantsAreTyped DEF Phase, GoingOn, Steps
  <2>3. execution'[e].completedSteps = execution[e].completedSteps + 1
    <3>1. /\ "RUNNING" \in Statuses /\ execution[e].completedSteps + 1 \in Nat
          /\ execution \in [Executions -> Execution]
      BY <1>0, EntityFields DEF Statuses, TypeOK
    <3> QED
      BY <1>0, <2>1, <3>1, EntityEdits
  <2>4. Promise(e)!Do
    BY <1>2, <2>1, <2>2, <2>3 DEF Promise!Do
  <2> QED
    BY <2>4 DEF PromiseKept, Promise!Next
<1>7. CASE SaveCompleted(e)
  <2>1. Saved(e, "saveCompleted") /\ execution' = execution
    BY <1>7 DEF SaveCompleted
  <2>2. /\ row[e].status = "RUNNING" /\ execution[e].status = "COMPLETED"
        /\ execution[e].completedSteps = StepCount
    BY <1>0, <2>1 DEF Saved, Phase, AllDone
  <2>3. row'[e].status = "COMPLETED"
    BY <1>0, <2>1, <2>2, SavedRow
  <2>4. Promise(e)!Complete
    BY <1>2, <2>1, <2>2, <2>3 DEF Promise!Complete
  <2> QED
    BY <2>4 DEF PromiseKept, Promise!Next
<1> QED
  BY <1>3, <1>4, <1>5, <1>6, <1>7

\* Compensation takes effects back from the last to the first.
LEMMA BackwardKeepsPromise ==
  ASSUME SagaInv, NEW e \in Executions,
         \/ SaveFailure(e) \/ CompensateStep(e) \/ CompensateStepFails(e)
         \/ SaveCompensated(e)
  PROVE  PromiseKept(e)
<1> SUFFICES ASSUME dbErrors' = 0
             PROVE  Promise(e)!Next
  BY DEF PromiseKept
<1> DEFINE s == execution[e].currentStep
<1>0. TypeOK /\ Phase(e) /\ execution[e] \in Execution
  BY DEF SagaInv, TypeOK
<1>1. pc[e] \in {"saveFailure", "compensate", "saveCompensated"} /\ dbErrors = 0
  BY DEF SaveFailure, CompensateStep, CompensateStepFails, SaveCompensated, Saved,
     faults
<1>2. execution[e].completedSteps = s /\ s \in Steps /\ s \in Nat
  BY <1>0, <1>1, EntityFields DEF Phase, GivingUp
<1>3. s < StepCount
  BY <1>2, ConstantsAreTyped DEF Steps
<1>4. CASE SaveFailure(e)
  <2>1. /\ Saved(e, "saveFailure") /\ UndoFrom(e, s - 1) /\ undone' = undone
    BY <1>4 DEF SaveFailure, FirstToUndo, history
  <2>2. /\ row[e].status = "RUNNING" /\ execution[e].status = "COMPENSATING"
        /\ undone[e] = {}
    BY <1>0, <2>1 DEF Saved, Phase, FailureUnsaved
  <2>3. row'[e].status = "COMPENSATING"
    BY <1>0, <2>1, <2>2, SavedRow
  <2>4. execution'[e].completedSteps = s
    <3>1. s - 1 \in -1..StepCount
      BY <1>2, <1>3, ConstantsAreTyped
    <3> QED
      BY <1>0, <1>2, <2>1, <3>1, UndoFromMoves
  <2>5. Effects(e) = s /\ Effects(e)' = s
    BY <1>2, <2>1, <2>2, <2>4, EffectsAre
  <2>6. Promise(e)!GiveUp
    BY <1>3, <2>2, <2>3, <2>5 DEF Promise!GiveUp
  <2> QED
    BY <2>6 DEF Promise!Next
<1>5. CASE CompensateStep(e) \/ CompensateStepFails(e)
  <2> DEFINE j == undoing[e]
  <2>1. /\ pc[e] = "compensate" /\ row' = row
        /\ undone' = [undone EXCEPT ![e] = @ \cup {j}]
    BY <1>5 DEF CompensateStep, CompensateStepFails
  <2>2. /\ j \in First(s) /\ undone[e] = (j + 1)..(s - 1)
        /\ row[e].status = "COMPENSATING"
    BY <1>0, <2>1 DEF Phase, TakingBack
  <2>3. j \in Int /\ 0 <= j /\ j <= s - 1
    BY <1>2, <2>2 DEF First
  <2>4. undone'[e] = undone[e] \cup {j}
    BY <1>0, <2>1 DEF TypeOK
  <2> HIDE DEF j, s
  <2>5. undone'[e] = j..(s - 1) /\ undone'[e] # {}
    BY <1>2, <2>2, <2>3, <2>4
  <2>6. Effects(e)' = j
    <3>1. Least(j..(s - 1)) = j
      <4>1. s - 1 \in Int
        BY <1>2
      <4> QED
        BY <2>3, <4>1, LeastOfInterval
    <3>2. Effects(e)' = Least(undone'[e])
      BY <2>5, EffectsAre
    <3> QED
      BY <2>5, <3>1, <3>2
  <2>7. Effects(e) = j + 1
    <3>1. CASE j = s - 1
      BY <1>2, <2>2, <2>3, <3>1, EffectsAre
    <3>2. CASE j < s - 1
      <4>1. (j + 1)..(s - 1) # {} /\ j + 1 \in Int /\ s - 1 \in Int /\ j + 1 <= s - 1
        BY <1>2, <2>3, <3>2
      <4> QED
        BY <2>2, <4>1, EffectsAre, LeastOfInterval
    <3> QED
      BY <1>2, <2>3, <3>1, <3>2
  <2>8. Promise(e)!Undo
    BY <2>1, <2>2, <2>3, <2>6, <2>7 DEF Promise!Undo
  <2> QED
    BY <2>8 DEF Promise!Next
<1>6. CASE SaveCompensated(e)
  <2>1. /\ Saved(e, "saveCompensated") /\ UNCHANGED <<execution, undone>>
    BY <1>6 DEF SaveCompensated, history
  <2>2. /\ row[e].status = "COMPENSATING" /\ execution[e].status = "COMPENSATED"
        /\ undone[e] = First(s)
    BY <1>0, <2>1 DEF Saved, Phase, TakenBack
  <2>3. row'[e].status = "COMPENSATED"
    BY <1>0, <2>1, <2>2, SavedRow
  <2>4. Effects(e)' = Effects(e)
    BY <2>1 DEF Effects
  <2>5. Effects(e) = 0
    <3> HIDE DEF s
    <3>1. CASE s = 0
      <4>1. undone[e] = {}
        BY <2>2, <3>1 DEF First
      <4> QED
        BY <1>2, <3>1, <4>1, EffectsAre
    <3>2. CASE s > 0
      <4>1. /\ First(s) = 0..(s - 1) /\ First(s) # {}
            /\ s - 1 \in Int /\ 0 \in Int /\ 0 <= s - 1
        BY <1>2, <3>2 DEF First
      <4> QED
        BY <2>2, <4>1, EffectsAre, LeastOfInterval
    <3> QED
      BY <1>2, <3>1, <3>2
  <2>6. Promise(e)!Finish
    BY <2>2, <2>3, <2>4, <2>5 DEF Promise!Finish
  <2> QED
    BY <2>6 DEF Promise!Next
<1> QED
  BY <1>4, <1>5, <1>6

\* The compensation loop stays within the steps.
LEMMA UndoIndexes ==
  ASSUME SagaInv, NEW e \in Executions,
         SaveFailure(e) \/ CompensateStep(e) \/ CompensateStepFails(e)
  PROVE  \E i \in -1..StepCount : UndoFrom(e, i)
<1>0. TypeOK /\ Phase(e)
  BY DEF SagaInv
<1>1. CASE SaveFailure(e)
  <2>1. execution[e].currentStep \in Steps
    BY <1>0, <1>1 DEF SaveFailure, Saved, Phase, GivingUp
  <2>2. execution[e].currentStep - 1 \in -1..StepCount
    BY <2>1, ConstantsAreTyped DEF Steps
  <2> QED
    BY <1>1, <2>2 DEF SaveFailure, FirstToUndo
<1>2. CASE CompensateStep(e) \/ CompensateStepFails(e)
  <2>1. undoing[e] \in First(execution[e].currentStep)
        /\ execution[e].currentStep \in Steps
    BY <1>0, <1>2 DEF CompensateStep, CompensateStepFails, Phase, TakingBack,
       GivingUp
  <2>2. undoing[e] - 1 \in -1..StepCount
    BY <2>1, ConstantsAreTyped DEF Steps, First
  <2> QED
    BY <1>2, <2>2 DEF CompensateStep, CompensateStepFails
<1> QED
  BY <1>1, <1>2

\* A step of one execution leaves the promise of another alone.
LEMMA StepsSpare ==
  ASSUME SagaInv, NEW e \in Executions,
         Start(e) \/ Execute(e) \/ SaveResultFails(e) \/ SaveFails(e)
  PROVE  Spares(e)
<1>0. TypeOK /\ Phase(e)
  BY DEF SagaInv
<1>1. CASE Start(e) \/ SaveFails(e) \/ StartStep(e) \/ SaveCompensated(e)
           \/ SaveCompleted(e)
  BY <1>0, <1>1 DEF Start, SaveFails, StartStep, SaveCompensated, SaveCompleted,
     Saved, Spares, TypeOK, history
<1>2. CASE StepSucceeds(e)
  BY <1>0, <1>2 DEF StepSucceeds, Spares, TypeOK
<1>3. CASE SaveResultFails(e) \/ \E inPart \in BOOLEAN : StepFails(e, inPart)
  <2>1. \A f \in Executions \ {e} : pc'[f] = pc[f] /\ execution'[f] = execution[f]
    BY <1>0, <1>3, BeginCompensationMoves DEF SaveResultFails, StepFails
  <2>2. \A f \in Executions \ {e} : traces'[f] = traces[f]
    BY <1>0, <1>3 DEF SaveResultFails, StepFails, history, TypeOK
  <2>3. UNCHANGED <<row, undoing, executed, undone>>
    BY <1>3 DEF SaveResultFails, StepFails, history
  <2> QED
    BY <2>1, <2>2, <2>3 DEF Spares
<1>4. CASE CreateExecution(e) \/ SaveResult(e)
  <2>1. PICK i \in Nat : GoTo(e, i)
    <3>1. execution[e].currentStep + 1 \in Nat
      BY <1>0, EntityFields DEF TypeOK
    <3> QED
      BY <1>4, <3>1 DEF CreateExecution, SaveResult
  <2>2. \A f \in Executions \ {e} : pc'[f] = pc[f] /\ execution'[f] = execution[f]
    BY <1>0, <2>1, GoToMoves
  <2> QED
    BY <1>0, <1>4, <2>2 DEF CreateExecution, SaveResult, Saved, Spares, TypeOK,
       history
<1>5. CASE SaveFailure(e) \/ CompensateStep(e) \/ CompensateStepFails(e)
  <2>1. PICK i \in -1..StepCount : UndoFrom(e, i)
    BY <1>5, UndoIndexes
  <2>2. \A f \in Executions \ {e} :
          pc'[f] = pc[f] /\ execution'[f] = execution[f] /\ undoing'[f] = undoing[f]
    BY <1>0, <2>1, UndoFromMoves
  <2>3. \A f \in Executions \ {e} :
          /\ row'[f] = row[f] /\ undone'[f] = undone[f]
          /\ executed'[f] = executed[f] /\ traces'[f] = traces[f]
    BY <1>0, <1>5 DEF SaveFailure, CompensateStep, CompensateStepFails, Saved,
       history, TypeOK
  <2> QED
    BY <2>2, <2>3 DEF Spares
<1> QED
  BY <1>1, <1>2, <1>3, <1>4, <1>5 DEF Execute, Save

\* Every step of the engine is a step of the promise, or none.
LEMMA PromiseStep ==
  ASSUME SagaInv, [Next]_vars, NEW f \in Executions
  PROVE  PromiseKept(f)
<1>0. TypeOK /\ Phase(f) /\ dbErrors \in Nat
  BY DEF SagaInv, TypeOK
<1>1. ASSUME NEW e \in Executions,
             Start(e) \/ Execute(e) \/ SaveResultFails(e) \/ SaveFails(e)
      PROVE  PromiseKept(f)
  <2>1. CASE e # f
    BY <1>1, <2>1, StepsSpare, UntouchedKeepsPromise DEF Spares
  <2>2. CASE e = f
    <3>1. CASE SaveResultFails(e) \/ SaveFails(e)
      <4>1. dbErrors' # 0
        BY <1>0, <3>1 DEF SaveResultFails, SaveFails
      <4> QED
        BY <4>1 DEF PromiseKept
    <3>2. CASE Start(e)
      BY <2>2, <3>2, UntouchedKeepsPromise DEF Start, history
    <3>3. ASSUME NEW inPart \in BOOLEAN, StepFails(e, inPart) PROVE PromiseKept(f)
      <4>1. execution'[e].completedSteps = execution[e].completedSteps
        BY <1>0, <3>3, BeginCompensationMoves DEF StepFails
      <4> QED
        BY <2>2, <3>3, <4>1, UntouchedKeepsPromise DEF StepFails
    <3> QED
      BY <1>1, <2>2, <3>1, <3>2, <3>3, ForwardKeepsPromise, BackwardKeepsPromise
         DEF Execute, Save
  <2> QED
    BY <2>1, <2>2
<1>2. ASSUME NEW inPart, Crash(inPart) PROVE PromiseKept(f)
  BY <1>2, UntouchedKeepsPromise DEF Crash
<1>3. CASE UNCHANGED vars
  BY <1>3, UntouchedKeepsPromise DEF vars, history
<1> QED
  BY <1>1, <1>2, <1>3 DEF Next, Ended

-----------------------------------------------------------------------------
(* The create-project saga takes only steps of the engine.                 *)

\* The steps of the project saga are steps of the engine.
LEMMA SetupStep == [SetupNext]_<<vars, setup>> => [Next]_vars
<1> SUFFICES ASSUME SetupNext PROVE [Next]_vars
  BY DEF vars
<1>1. ASSUME NEW e \in Executions, Begin(e) \/ SavesFail(e) PROVE Next
  BY <1>1 DEF Begin, SavesFail, Next
<1>2. ASSUME NEW e \in Executions, Proceed(e)
      PROVE  Execute(e) \/ UNCHANGED vars
  <2>1. CASE Saves(e)
    BY <2>1 DEF Saves, Execute
  <2>2. CASE CreateProject(e)
    BY <2>2 DEF CreateProject, Fails, Waits, Execute
  <2>3. CASE CreateInitialTasks(e)
    <3>1. (part[e] > 0) \in BOOLEAN
      OBVIOUS
    <3> QED
      BY <2>3, <3>1 DEF CreateInitialTasks, Fails, Waits, Execute
  <2>4. CASE MailAndLog(e)
    BY <2>4 DEF MailAndLog, Execute
  <2>5. CASE RemoveTasks(e) \/ RemoveProject(e) \/ NothingToUndo(e)
    BY <2>5 DEF RemoveTasks, RemoveProject, NothingToUndo, Waits, Execute
  <2>6. CASE CallOfStepFails(e)
    <3>1. (At(e, 1) /\ part[e] >= 2) \in BOOLEAN
      OBVIOUS
    <3> QED
      BY <2>6, <3>1 DEF CallOfStepFails, Fails, Execute
  <2>7. CASE CompensationFails(e)
    BY <2>7 DEF CompensationFails, UndoFails, Execute
  <2> QED
    BY <1>2, <2>1, <2>2, <2>3, <2>4, <2>5, <2>6, <2>7 DEF Proceed
<1>3. CASE ProcessDies
  <2>1. {e \in Executions : At(e, 1) /\ part[e] >= 2}
          \in SUBSET {e \in Executions : pc[e] = "execute"}
    BY DEF At
  <2> QED
    BY <1>3, <2>1 DEF ProcessDies, Next
<1>4. CASE Ended /\ UNCHANGED setup
  BY <1>4 DEF Ended
<1> QED
  BY <1>1, <1>2, <1>3, <1>4 DEF SetupNext, Next

-----------------------------------------------------------------------------
(* An execution no other ran beside.                                       *)

Ctx == [of : Executions \cup {"none"}, results : SUBSET Steps]

InCall == {"execute", "compensate"}

\* A call reads the field of the last execution that began.
SetupTyped ==
  /\ current \in Executions \cup {"none"}
  /\ data \in [Executions -> Keys \cup {"none"}]
  /\ local \in [Executions -> Ctx]
  /\ part \in [Executions -> Nat]
  /\ projects \in [Executions -> Keys \cup NotLive]
  /\ tasks \in [TaskIds -> Executions \cup NotLive]
  /\ overlapped \subseteq Executions
  /\ \A e \in Executions :
       /\ pc[e] # "new" => current \in Executions
       /\ pc[e] \in InCall => local[e].of \in Executions

\* While it runs the field holds its context, and no other runs.
OwnsContext(e) ==
  /\ Running(e) => current = e /\ \A o \in Executions \ {e} : ~ Running(o)
  /\ pc[e] \in InCall => local[e].of = e /\ local[e].results = executed[e]

\* No other that runs reads its context, before it begins or after it ended.
ContextUnread(e) ==
  \A o \in Executions \ {e} :
    Running(o) => current # e /\ (pc[o] \in InCall => local[o].of # e)

\* On the way forward, its project and tasks are those of the steps that
\* completed, and of the part of the second step that is over.
Made(e) ==
  pc[e] \in {"new", "create", "saveStart", "execute", "saveResult", "saveCompleted"} =>
    /\ projects[e] = IF execution[e].completedSteps >= 1 THEN data[e] ELSE "none"
    /\ IF At(e, 1)
       THEN /\ part[e] \in 0..3
            /\ part[e] >= 2 => tasks[<<e, 1>>] = e
            /\ part[e] < 2 => tasks[<<e, 1>>] = "none"
            /\ tasks[<<e, 2>>] = "none"
       ELSE \A n \in {1, 2} :
              tasks[<<e, n>>] = IF execution[e].completedSteps >= 2 THEN e ELSE "none"

\* On the way back, what was compensated without an error is gone.
Unmade(e) ==
  pc[e] \in {"saveFailure", "compensate", "saveCompensated"} =>
    /\ execution[e].currentStep = 0 => \A n \in {1, 2} : tasks[<<e, n>>] # e
    /\ undoFailed[e] = {} /\ 1 \in undone[e] => \A n \in {1, 2} : tasks[<<e, n>>] # e
    /\ undoFailed[e] = {} /\ 0 \in undone[e] => ~ Live(e)
    /\ Undoes(e, 1) => part[e] \in {0, 1} /\ (part[e] = 1 => tasks[<<e, 1>>] # e)

\* What RowTellsProjectWhenAlone says of one execution.
Outcome(e) ==
  /\ row[e].status = "COMPLETED" =>
       projects[e] = data[e] /\ \A n \in {1, 2} : tasks[<<e, n>>] = e
  /\ row[e].status = "COMPENSATED" /\ undoFailed[e] = {} =>
       /\ Live(e) => row[e].failedStep = 0
       /\ \A n \in {1, 2} : tasks[<<e, n>>] = e => row[e].failedStep = 1

Alone(e) ==
  /\ OwnsContext(e) /\ ContextUnread(e)
  /\ Made(e) /\ Unmade(e) /\ Outcome(e)

AloneInv ==
  /\ SagaInv /\ SetupTyped
  /\ \A e \in Executions \ overlapped : Alone(e)

\* What the engine makes of an entity in a step of e: the count of completed
\* steps grows with a step that succeeds only, and a call that is made reads
\* the results of the steps executed so far.
LEMMA EngineMoves ==
  ASSUME SagaInv, NEW e \in Executions,
         \/ Save(e) \/ SaveResultFails(e) \/ SaveFails(e)
         \/ \E inPart \in BOOLEAN : StepFails(e, inPart)
         \/ CompensateStep(e) \/ CompensateStepFails(e)
  PROVE  /\ execution'[e].completedSteps = execution[e].completedSteps
         /\ executed' = executed
<1>0. TypeOK /\ Phase(e)
  BY DEF SagaInv
<1>1. executed' = executed
  BY DEF Save, CreateExecution, StartStep, SaveResult, SaveFailure, SaveCompensated,
     SaveCompleted, SaveResultFails, SaveFails, StepFails, CompensateStep,
     CompensateStepFails, history
<1>2. CASE StartStep(e) \/ SaveCompensated(e) \/ SaveCompleted(e) \/ SaveFails(e)
  BY <1>1, <1>2 DEF StartStep, SaveCompensated, SaveCompleted, SaveFails
<1>3. CASE SaveResultFails(e) \/ \E inPart \in BOOLEAN : StepFails(e, inPart)
  BY <1>0, <1>1, <1>3, BeginCompensationMoves DEF SaveResultFails, StepFails
<1>4. CASE CreateExecution(e) \/ SaveResult(e)
  <2>1. PICK i \in Nat : GoTo(e, i)
    <3>1. execution[e].currentStep + 1 \in Nat
      BY <1>0, EntityFields DEF TypeOK
    <3> QED
      BY <1>4, <3>1 DEF CreateExecution, SaveResult
  <2> QED
    BY <1>0, <1>1, <2>1, GoToMoves
<1>5. CASE SaveFailure(e) \/ CompensateStep(e) \/ CompensateStepFails(e)
  <2>1. PICK i \in -1..StepCount : UndoFrom(e, i)
    BY <1>5, UndoIndexes
  <2> QED
    BY <1>0, <1>1, <2>1, UndoFromMoves
<1> QED
  BY <1>2, <1>3, <1>4, <1>5 DEF Save

\* What one execution's step in the setup changes of the others' data.
SparesSetup(o) ==
  \A f \in Executions \ {o} :
    /\ data'[f] = data[f] /\ local'[f] = local[f] /\ part'[f] = part[f]
    /\ undoFailed'[f] = undoFailed[f]
    /\ ~ (pc[o] \in InCall /\ local[o].of = f) =>
         /\ projects'[f] = projects[f]
         /\ \A n \in {1, 2} : tasks'[<<f, n>>] = tasks[<<f, n>>]

EffectsOf(o) ==
  /\ projects' \in [Executions -> Keys \cup NotLive]
  /\ tasks' \in [TaskIds -> Executions \cup NotLive]
  /\ \A f \in Executions \ {o} :
       ~ (pc[o] \in InCall /\ local[o].of = f) =>
         /\ projects'[f] = projects[f]
         /\ \A n \in {1, 2} : tasks'[<<f, n>>] = tasks[<<f, n>>]

\* The context is replaced by Begin only; a step that goes on reads it.
ReadsField(o) ==
  /\ UNCHANGED <<current, data, overlapped>>
  /\ Running(o)
  /\ \/ UNCHANGED vars /\ local' = local
     \/ GoesOn(o) /\ (Execute(o) \/ SaveResultFails(o) \/ SaveFails(o))

\* A step of one setup touches its own project and tasks only.
LEMMA SetupMoves ==
  ASSUME SagaInv, SetupTyped, NEW o \in Executions, Proceed(o) \/ SavesFail(o)
  PROVE  /\ ReadsField(o) /\ SparesSetup(o)
         /\ projects' \in [Executions -> Keys \cup NotLive]
         /\ tasks' \in [TaskIds -> Executions \cup NotLive]
         /\ part' \in [Executions -> Nat]
<1>0. TypeOK
  BY DEF SagaInv
<1>1. Running(o)
  BY DEF Proceed, SavesFail, Saves, Save, CreateExecution, StartStep, SaveResult,
     SaveFailure, SaveCompensated, SaveCompleted, Saved, SaveResultFails, SaveFails,
     CreateProject, CreateInitialTasks, MailAndLog, RemoveTasks, RemoveProject,
     NothingToUndo, CallOfStepFails, CompensationFails, At, Undoes, Running, Over
<1>2. ASSUME GoesOn(o)
      PROVE  /\ UNCHANGED <<current, data, overlapped>>
             /\ part' \in [Executions -> Nat]
             /\ \A f \in Executions \ {o} : local'[f] = local[f] /\ part'[f] = part[f]
  BY <1>2 DEF GoesOn, SetupTyped
<1>3. ASSUME Waits(o)
      PROVE  /\ UNCHANGED <<current, data, overlapped, local, undoFailed>>
             /\ UNCHANGED vars
             /\ part' \in [Executions -> Nat]
             /\ \A f \in Executions \ {o} : part'[f] = part[f]
  BY <1>3 DEF Waits, SetupTyped, vars, history
<1>4. ASSUME Execute(o) \/ SaveResultFails(o) \/ SaveFails(o)
      PROVE  \A f \in Executions \ {o} : undoFailed'[f] = undoFailed[f]
  BY <1>0, <1>4 DEF Execute, Save, CreateExecution, StartStep, SaveResult,
     SaveFailure, SaveCompensated, SaveCompleted, SaveResultFails, SaveFails,
     StepSucceeds, StepFails, CompensateStep, CompensateStepFails, history, TypeOK
<1>5. pc[o] \in InCall => local[o].of \in Executions /\ data[local[o].of] \in Keys \cup NotLive
  BY DEF SetupTyped, NotLive
<1>6. ASSUME tasks' = tasks, NEW p \in Keys \cup NotLive, NEW g \in {o, local[o].of},
             projects' = [projects EXCEPT ![g] = p], pc[o] \in InCall
      PROVE  EffectsOf(o)
  BY <1>6 DEF SetupTyped, EffectsOf
<1>7. ASSUME projects' = projects, NEW p \in Executions \cup NotLive,
             NEW g \in {o, local[o].of}, NEW n,
             tasks' = [tasks EXCEPT ![<<g, n>>] = p], pc[o] \in InCall
      PROVE  EffectsOf(o)
  <2>1. tasks' \in [TaskIds -> Executions \cup NotLive]
    BY <1>5, <1>7 DEF SetupTyped, TaskIds
  <2>2. \A f \in Executions \ {o} : local[o].of # f =>
          \A m \in {1, 2} : tasks'[<<f, m>>] = tasks[<<f, m>>]
    BY <1>7 DEF SetupTyped, TaskIds
  <2> QED
    BY <1>7, <2>1, <2>2 DEF SetupTyped, EffectsOf
<1>8. UNCHANGED effects => EffectsOf(o)
  BY DEF SetupTyped, EffectsOf, effects
<1>9. EffectsOf(o)
  <2>1. CASE CreateProject(o)
    <3>1. CASE projects' = [projects EXCEPT ![o] = data[local[o].of]] /\ tasks' = tasks
      BY <1>5, <1>6, <2>1, <3>1 DEF CreateProject, At, InCall
    <3> QED
      BY <1>8, <2>1, <3>1 DEF CreateProject, Fails
  <2>2. CASE CreateInitialTasks(o)
    <3>1. CASE part[o] \in {1, 3} /\ projects' = projects
               /\ tasks' = [tasks EXCEPT ![<<o, (part[o] + 1) \div 2>>] = local[o].of]
      <4>1. pc[o] \in InCall
        BY <2>2 DEF CreateInitialTasks, At, InCall
      <4> QED
        BY <1>5, <1>7, <3>1, <4>1
    <3> QED
      BY <1>8, <2>2, <3>1 DEF CreateInitialTasks, Fails
  <2>3. CASE RemoveTasks(o)
    <3>1. pc[o] \in InCall
      BY <2>3 DEF RemoveTasks, Undoes, InCall
    <3> QED
      BY <1>7, <2>3, <3>1 DEF RemoveTasks, NotLive
  <2>4. CASE RemoveProject(o)
    BY <1>6, <2>4 DEF RemoveProject, Undoes, InCall, NotLive
  <2> QED
    BY <1>8, <2>1, <2>2, <2>3, <2>4 DEF Proceed, SavesFail, Saves, MailAndLog,
       NothingToUndo, CallOfStepFails, CompensationFails, Fails, UndoFails
<1>10. CASE GoesOn(o) /\ (Execute(o) \/ SaveResultFails(o) \/ SaveFails(o))
  BY <1>1, <1>2, <1>4, <1>9, <1>10 DEF ReadsField, SparesSetup, EffectsOf
<1>11. CASE Waits(o)
  BY <1>1, <1>3, <1>9, <1>11 DEF ReadsField, SparesSetup, EffectsOf
<1>12. Waits(o) \/ (GoesOn(o) /\ (Execute(o) \/ SaveResultFails(o) \/ SaveFails(o)))
  <2>1. CASE Proceed(o)
    <3>1. CASE CreateInitialTasks(o) \/ CallOfStepFails(o) \/ CreateProject(o)
      <4>1. (part[o] > 0) \in BOOLEAN /\ (At(o, 1) /\ part[o] >= 2) \in BOOLEAN
        OBVIOUS
      <4> QED
        BY <3>1, <4>1 DEF CreateInitialTasks, CallOfStepFails, CreateProject, Fails,
           Execute
    <3> QED
      BY <2>1, <3>1 DEF Proceed, Saves, MailAndLog, RemoveTasks, RemoveProject,
         NothingToUndo, CompensationFails, UndoFails, Execute
  <2> QED
    BY <2>1 DEF SavesFail
<1> QED
  BY <1>10, <1>11, <1>12

\* The types, while executions begin, go on and die.
LEMMA SetupTypesStep ==
  ASSUME SagaInv, SagaInv', SetupTyped, [SetupNext]_<<vars, setup>>
  PROVE  SetupTyped'
<1>0. TypeOK /\ TypeOK' /\ "none" \notin Executions
  BY ExecutionsAreNoMarks DEF SagaInv, NotLive
<1>1. NoContext \in Ctx
  BY DEF NoContext, Ctx
<1>2. ASSUME NEW o \in Executions, Begin(o) PROVE SetupTyped'
  <2>1. /\ current' = o /\ o \in Executions
        /\ data' \in [Executions -> Keys \cup {"none"}]
        /\ UNCHANGED <<local, part, projects, tasks>>
        /\ overlapped' \subseteq Executions
    BY <1>2 DEF Begin, SetupTyped, effects
  <2>2. pc' = [pc EXCEPT ![o] = "create"]
    BY <1>2 DEF Begin, Start
  <2>3. \A f \in Executions : pc'[f] \in InCall => local'[f].of \in Executions
    BY <1>0, <2>1, <2>2 DEF SetupTyped, InCall, TypeOK
  <2> QED
    BY <2>1, <2>3 DEF SetupTyped
<1>3. ASSUME NEW o \in Executions, Proceed(o) \/ SavesFail(o) PROVE SetupTyped'
  <2>1. /\ ReadsField(o)
        /\ projects' \in [Executions -> Keys \cup NotLive]
        /\ tasks' \in [TaskIds -> Executions \cup NotLive]
        /\ part' \in [Executions -> Nat]
    BY <1>3, SetupMoves
  <2>2. current \in Executions
    BY <1>0, <2>1 DEF ReadsField, Running, SetupTyped, TypeOK
  <2>3. Context \in Ctx /\ Context.of = current
    BY <1>0, <2>2 DEF Context, Ctx, TypeOK
  <2>4. CASE UNCHANGED vars /\ local' = local
    BY <2>1, <2>2, <2>4 DEF ReadsField, SetupTyped, vars
  <2>5. CASE GoesOn(o) /\ (Execute(o) \/ SaveResultFails(o) \/ SaveFails(o))
    <3>1. local' = [local EXCEPT ![o] = IF pc'[o] \in InCall THEN Context ELSE NoContext]
      BY <2>5 DEF GoesOn, InCall
    <3>2. local' \in [Executions -> Ctx]
      BY <1>1, <2>3, <3>1 DEF SetupTyped
    <3>3. \A f \in Executions : pc'[f] \in InCall => local'[f].of \in Executions
      <4>1. \A f \in Executions \ {o} : pc'[f] = pc[f]
        BY <2>5, StepsSpare DEF Spares
      <4> QED
        BY <2>2, <2>3, <3>1, <4>1 DEF SetupTyped
    <3> QED
      BY <2>1, <2>2, <3>2, <3>3 DEF ReadsField, SetupTyped
  <2> QED
    BY <2>1, <2>4, <2>5 DEF ReadsField
<1>4. CASE ProcessDies
  <2>1. \A e \in Executions : /\ pc'[e] # "new" => pc[e] # "new"
                              /\ pc'[e] \notin InCall
    BY <1>0, <1>4 DEF ProcessDies, Crash, Running, Over, InCall, TypeOK
  <2> QED
    BY <1>1, <1>4, <2>1 DEF ProcessDies, SetupTyped, effects
<1>5. CASE UNCHANGED <<vars, setup>>
  BY <1>5 DEF SetupTyped, vars, setup, effects
<1> QED
  BY <1>2, <1>3, <1>4, <1>5 DEF SetupNext, Ended

\* Steps of others that change nothing of an execution and its project.
LEMMA ProjectUntouched ==
  ASSUME NEW e \in Executions, Made(e), Unmade(e), Outcome(e),
         pc'[e] = pc[e], execution'[e] = execution[e], row'[e] = row[e],
         undoing'[e] = undoing[e], undone'[e] = undone[e],
         undoFailed'[e] = undoFailed[e], projects'[e] = projects[e],
         \A n \in {1, 2} : tasks'[<<e, n>>] = tasks[<<e, n>>],
         data'[e] = data[e], pc[e] \in InCall => part'[e] = part[e]
  PROVE  Made(e)' /\ Unmade(e)' /\ Outcome(e)'
<1>1. Made(e)'
  BY DEF Made, At, InCall
<1>2. Unmade(e)'
  BY DEF Unmade, Undoes, Live, InCall
<1>3. Outcome(e)'
  BY DEF Outcome, Live
<1> QED
  BY <1>1, <1>2, <1>3

\* Executions that end without a save leave the rest as it is.
LEMMA ProjectLeft ==
  ASSUME NEW e \in Executions, Outcome(e), pc'[e] \in Over,
         row'[e] = row[e], undoFailed'[e] = undoFailed[e],
         projects'[e] = projects[e], data'[e] = data[e],
         \A n \in {1, 2} : tasks'[<<e, n>>] = tasks[<<e, n>>]
  PROVE  Made(e)' /\ Unmade(e)' /\ Outcome(e)'
<1>1. Made(e)' /\ Unmade(e)'
  BY DEF Made, Unmade, Over, Undoes
<1>2. Outcome(e)'
  BY DEF Outcome, Live
<1> QED
  BY <1>1, <1>2

\* The saves on the way forward.
LEMMA ForwardAlone ==
  ASSUME AloneInv, NEW e \in Executions, Made(e), Unmade(e), Outcome(e), GoesOn(e),
         CreateExecution(e) \/ StartStep(e) \/ SaveResult(e) \/ SaveCompleted(e),
         UNCHANGED effects
  PROVE  Made(e)' /\ Unmade(e)' /\ Outcome(e)'
<1>0. /\ TypeOK /\ Phase(e) /\ UNCHANGED <<projects, tasks, data>>
      /\ part'[e] = 0
      /\ execution[e].completedSteps \in Nat
  BY EntityFields DEF AloneInv, SagaInv, effects, GoesOn, SetupTyped, TypeOK
<1>1. /\ execution'[e].completedSteps = execution[e].completedSteps
      /\ row'[e] = execution[e]
  BY EngineMoves, SavedRow, <1>0 DEF AloneInv, Save, CreateExecution, StartStep,
     SaveResult, SaveCompleted
<1>2. CASE CreateExecution(e) \/ SaveResult(e)
  <2>1. pc'[e] \in {"saveStart", "saveCompleted"}
    <3>1. PICK i \in Nat : GoTo(e, i)
      <4>1. execution[e].currentStep + 1 \in Nat
        BY <1>0, EntityFields DEF TypeOK
      <4> QED
        BY <1>2, <4>1 DEF CreateExecution, SaveResult
    <3> QED
      BY <1>0, <3>1, GoToMoves DEF TypeOK
  <2>2. pc[e] \in {"create", "saveResult"} /\ execution[e].status = "RUNNING"
    BY <1>0, <1>2 DEF CreateExecution, SaveResult, Saved, Phase, NotStarted, GoingOn,
       Fresh
  <2> QED
    BY <1>0, <1>1, <2>1, <2>2 DEF Made, Unmade, Outcome, At, Undoes
<1>3. CASE StartStep(e)
  <2>1. /\ pc[e] = "saveStart" /\ pc'[e] = "execute" /\ execution' = execution
        /\ execution[e].status = "RUNNING"
        /\ execution[e].completedSteps = execution[e].currentStep
    BY <1>0, <1>3 DEF StartStep, Saved, Phase, GoingOn, TypeOK
  <2>2. Made(e)'
    BY <1>0, <2>1 DEF Made, At
  <2>3. Unmade(e)' /\ Outcome(e)'
    BY <1>0, <1>1, <2>1 DEF Unmade, Outcome, Undoes
  <2> QED
    BY <2>2, <2>3
<1>4. CASE SaveCompleted(e)
  <2>1. /\ pc[e] = "saveCompleted" /\ pc'[e] = "returned"
        /\ execution[e].status = "COMPLETED" /\ execution[e].completedSteps = 4
    BY <1>0, <1>4, SetupHasFourSteps DEF SaveCompleted, Saved, Phase, AllDone, TypeOK
  <2>2. Made(e)' /\ Unmade(e)'
    BY <2>1 DEF Made, Unmade, Undoes
  <2>3. projects[e] = data[e] /\ \A n \in {1, 2} : tasks[<<e, n>>] = e
    BY <2>1 DEF Made, At
  <2> QED
    BY <1>0, <1>1, <2>1, <2>2, <2>3 DEF Outcome
<1> QED
  BY <1>2, <1>3, <1>4

\* A step that throws, or the save behind it: nothing is undone so far.
LEMMA FailureAlone ==
  ASSUME AloneInv, NEW e \in Executions, Made(e), Unmade(e), Outcome(e), GoesOn(e),
         SaveResultFails(e) \/ \E inPart \in BOOLEAN : StepFails(e, inPart),
         UNCHANGED effects
  PROVE  Made(e)' /\ Unmade(e)' /\ Outcome(e)'
<1>0. /\ TypeOK /\ Phase(e) /\ UNCHANGED <<projects, tasks, data>>
      /\ e \notin NotLive
  BY ExecutionsAreNoMarks DEF AloneInv, SagaInv, effects, GoesOn
<1>1. /\ BeginCompensation(e) /\ pc[e] \in {"execute", "saveResult"}
      /\ UNCHANGED <<row, undone, undoFailed>>
  BY DEF SaveResultFails, StepFails, history
<1>2. /\ pc'[e] = "saveFailure"
      /\ execution'[e].currentStep = execution[e].currentStep
  BY <1>0, <1>1, BeginCompensationMoves DEF TypeOK
<1>3. execution[e].completedSteps \in {execution[e].currentStep, execution[e].currentStep + 1}
      /\ undone[e] = {} /\ execution[e].currentStep \in Nat
  BY <1>0, <1>1, EntityFields DEF Phase, GoingOn, TypeOK
<1>4. execution[e].currentStep = 0 => \A n \in {1, 2} : tasks[<<e, n>>] # e
  BY <1>0, <1>1, <1>3 DEF Made, At, NotLive
<1>5. Made(e)' /\ Unmade(e)'
  BY <1>0, <1>1, <1>2, <1>3, <1>4 DEF Made, Unmade, Undoes
<1>6. Outcome(e)'
  BY <1>0, <1>1 DEF Outcome, Live
<1> QED
  BY <1>5, <1>6

\* The saves on the way back.
LEMMA SavesBackAlone ==
  ASSUME AloneInv, NEW e \in Executions, Made(e), Unmade(e), Outcome(e), GoesOn(e),
         SaveFailure(e) \/ SaveCompensated(e), UNCHANGED effects
  PROVE  Made(e)' /\ Unmade(e)' /\ Outcome(e)'
<1>0. /\ TypeOK /\ Phase(e) /\ UNCHANGED <<projects, tasks, data, undoFailed, undone>>
      /\ part'[e] = 0
  BY DEF AloneInv, SagaInv, effects, GoesOn, SetupTyped, SaveFailure,
     SaveCompensated, history
<1>1. row'[e] = execution[e]
  BY SavedRow, <1>0 DEF SaveFailure, SaveCompensated
<1>2. CASE SaveFailure(e)
  <2>1. PICK i \in -1..StepCount : UndoFrom(e, i)
    BY <1>2, UndoIndexes DEF AloneInv
  <2>2. /\ pc'[e] \in {"compensate", "saveCompensated"}
        /\ execution'[e].currentStep = execution[e].currentStep
    BY <1>0, <2>1, UndoFromMoves DEF TypeOK
  <2>3. pc[e] = "saveFailure" /\ execution[e].status = "COMPENSATING" /\ undone[e] = {}
    BY <1>0, <1>2 DEF SaveFailure, Saved, Phase, FailureUnsaved
  <2>4. Unmade(e)'
    BY <1>0, <2>2, <2>3 DEF Unmade, Undoes
  <2> QED
    BY <1>1, <2>2, <2>3, <2>4 DEF Made, Outcome
<1>3. CASE SaveCompensated(e)
  <2>1. /\ pc[e] = "saveCompensated" /\ pc'[e] = "threw"
        /\ execution[e].status = "COMPENSATED"
        /\ undone[e] = 0..(execution[e].currentStep - 1)
        /\ execution[e].failedStep = execution[e].currentStep
        /\ execution[e].currentStep \in Nat
    BY <1>0, <1>3, EntityFields DEF SaveCompensated, Saved, Phase, TakenBack, GivingUp,
       First, TypeOK
  <2>2. Made(e)' /\ Unmade(e)'
    BY <2>1 DEF Made, Unmade, Undoes
  <2>3. ASSUME undoFailed[e] = {}
        PROVE  /\ Live(e) => execution[e].failedStep = 0
               /\ \A n \in {1, 2} : tasks[<<e, n>>] = e => execution[e].failedStep = 1
    <3>1. execution[e].currentStep # 0 => 0 \in undone[e]
      BY <2>1
    <3>2. execution[e].currentStep \notin {0, 1} => 1 \in undone[e]
      BY <2>1
    <3> QED
      BY <2>1, <2>3, <3>1, <3>2 DEF Unmade
  <2> QED
    BY <1>0, <1>1, <2>1, <2>2, <2>3 DEF Outcome, Live
<1> QED
  BY <1>2, <1>3

\* A step that succeeds: the count of completed steps grows by one.
LEMMA SuccessMoves ==
  ASSUME SagaInv, NEW e \in Executions, StepSucceeds(e)
  PROVE  /\ pc[e] = "execute" /\ pc'[e] = "saveResult"
         /\ execution[e].currentStep \in Steps
         /\ execution[e].completedSteps = execution[e].currentStep
         /\ execution'[e].completedSteps = execution[e].currentStep + 1
         /\ UNCHANGED <<row, undoFailed>>
<1>0. TypeOK /\ Phase(e)
  BY DEF SagaInv
<1>1. /\ pc[e] = "execute" /\ pc'[e] = "saveResult"
      /\ UNCHANGED <<row, undoFailed>>
  BY <1>0 DEF StepSucceeds, TypeOK
<1>2. /\ execution[e].currentStep \in Steps
      /\ execution[e].completedSteps = execution[e].currentStep
  BY <1>0, <1>1 DEF Phase, GoingOn
<1>3. execution[e] \in Execution /\ execution[e].completedSteps + 1 \in Nat
  BY <1>0, EntityFields DEF TypeOK
<1>4. execution' = [execution EXCEPT ![e] =
                     [execution[e] EXCEPT !.completedSteps = execution[e].completedSteps + 1]]
  BY <1>0 DEF StepSucceeds, TypeOK
<1>5. execution'[e].completedSteps = execution[e].completedSteps + 1
  BY <1>0, <1>3, <1>4, EntityEdits DEF TypeOK
<1> QED
  BY <1>1, <1>2, <1>5

\* The steps that take effect.
LEMMA StepsAlone ==
  ASSUME AloneInv, NEW e \in Executions, OwnsContext(e), Made(e), Unmade(e), Outcome(e),
         \/ CreateProject(e) /\ (Waits(e) \/ (StepSucceeds(e) /\ GoesOn(e)))
         \/ CreateInitialTasks(e) /\ (Waits(e) \/ (StepSucceeds(e) /\ GoesOn(e)))
         \/ MailAndLog(e) /\ StepSucceeds(e)
  PROVE  Made(e)' /\ Unmade(e)' /\ Outcome(e)'
<1>0. /\ TypeOK /\ Phase(e) /\ pc[e] = "execute" /\ local[e].of = e
      /\ UNCHANGED <<data, row, undoFailed>>
      /\ execution[e].completedSteps = execution[e].currentStep
      /\ e \notin NotLive /\ part[e] \in Nat
      /\ projects \in [Executions -> Keys \cup NotLive]
      /\ tasks \in [TaskIds -> Executions \cup NotLive]
      /\ part \in [Executions -> Nat]
  <2>1. TypeOK /\ Phase(e) /\ pc[e] = "execute"
    BY DEF AloneInv, SagaInv, CreateProject, CreateInitialTasks, MailAndLog, At
  <2>2. UNCHANGED <<data, row, undoFailed>>
    BY DEF Waits, GoesOn, StepSucceeds, MailAndLog, vars, history
  <2> QED
    BY <2>1, <2>2, ExecutionsAreNoMarks DEF OwnsContext, InCall, Phase, GoingOn,
       AloneInv, SetupTyped
<1>1. pc'[e] \in {"execute", "saveResult"}
  BY <1>0, SuccessMoves DEF Waits, vars, AloneInv
<1>2. Unmade(e)'
  BY <1>1 DEF Unmade, Undoes
<1>3. row[e].status = "RUNNING"
  BY <1>0 DEF Phase, GoingOn
<1>4. Outcome(e)'
  BY <1>0, <1>3 DEF Outcome
<1>5. CASE CreateProject(e)
  <2>1. execution[e].currentStep = 0 /\ \A n \in {1, 2} : tasks[<<e, n>>] = "none"
    BY <1>0, <1>5 DEF CreateProject, At, Made
  <2>2. CASE Waits(e)
    <3>1. pc' = pc /\ execution' = execution
      BY <2>2 DEF Waits, vars
    <3>2. ~ StepFails(e, FALSE) /\ ~ StepSucceeds(e)
      BY <1>0, <3>1, BeginCompensationMoves, SuccessMoves DEF StepFails, AloneInv, TypeOK
    <3>3. UNCHANGED <<projects, tasks>>
      BY <1>5, <3>2 DEF CreateProject, Fails, effects
    <3> QED
      BY <1>0, <1>2, <1>4, <2>1, <3>1, <3>3 DEF Made, At
  <2>3. CASE StepSucceeds(e)
    <3>1. pc'[e] = "saveResult" /\ execution'[e].completedSteps = 1
      BY <2>1, <2>3, SuccessMoves DEF AloneInv
    <3>2. ~ Waits(e) /\ ~ StepFails(e, FALSE)
      BY <1>0, <3>1, BeginCompensationMoves DEF Waits, vars, StepFails, TypeOK
    <3>3. projects'[e] = data[e] /\ tasks' = tasks
      BY <1>0, <1>5, <3>2 DEF CreateProject, Fails
    <3> QED
      BY <1>0, <1>2, <1>4, <2>1, <3>1, <3>3 DEF Made, At
  <2> QED
    BY <1>5, <2>2, <2>3 DEF CreateInitialTasks, MailAndLog, At
<1>6. CASE CreateInitialTasks(e)
  <2>1. /\ execution[e].currentStep = 1 /\ projects[e] = data[e] /\ At(e, 1)
        /\ part[e] >= 2 => tasks[<<e, 1>>] = e
        /\ part[e] < 2 => tasks[<<e, 1>>] = "none"
        /\ tasks[<<e, 2>>] = "none" /\ part[e] \in 0..3
    BY <1>0, <1>6 DEF CreateInitialTasks, At, Made
  <2>2. CASE Waits(e)
    <3>1. pc' = pc /\ execution' = execution /\ part'[e] = part[e] + 1
      BY <1>0, <2>2 DEF Waits, vars
    <3>2. ~ (\E inPart : StepFails(e, inPart)) /\ ~ StepSucceeds(e)
      BY <1>0, <3>1, BeginCompensationMoves, SuccessMoves DEF StepFails, AloneInv, TypeOK
    <3>3. projects' = projects
      BY <1>6, <3>2 DEF CreateInitialTasks, Fails, effects
    <3>4. CASE part[e] \in {0, 2} /\ tasks' = tasks
      BY <1>0, <1>2, <1>4, <2>1, <3>1, <3>3, <3>4 DEF Made, At
    <3>5. CASE part[e] = 1 /\ tasks' = [tasks EXCEPT ![<<e, 1>>] = e]
      <4>1. /\ tasks'[<<e, 1>>] = e /\ tasks'[<<e, 2>>] = "none"
        BY <1>0, <2>1, <3>5 DEF TaskIds
      <4> QED
        BY <1>0, <1>2, <1>4, <2>1, <3>1, <3>3, <3>5, <4>1 DEF Made, At
    <3>6. \/ part[e] \in {0, 2} /\ tasks' = tasks
          \/ part[e] = 1 /\ tasks' = [tasks EXCEPT ![<<e, 1>>] = e]
      <4>1. (1 + 1) \div 2 = 1
        OBVIOUS
      <4> QED
        BY <1>0, <1>6, <3>2, <4>1 DEF CreateInitialTasks, Fails, effects
    <3> QED
      BY <3>4, <3>5, <3>6
  <2>3. CASE StepSucceeds(e)
    <3>1. pc'[e] = "saveResult" /\ execution'[e].completedSteps = 2
      BY <2>1, <2>3, SuccessMoves DEF AloneInv
    <3>2. ~ Waits(e) /\ ~ (\E inPart : StepFails(e, inPart))
      BY <1>0, <3>1, BeginCompensationMoves DEF Waits, vars, StepFails, TypeOK
    <3>3. part[e] = 3 /\ tasks' = [tasks EXCEPT ![<<e, 2>>] = e] /\ projects' = projects
      <4>1. (3 + 1) \div 2 = 2
        OBVIOUS
      <4> QED
        BY <1>0, <1>6, <3>2, <4>1 DEF CreateInitialTasks, Fails
    <3>4. tasks'[<<e, 1>>] = e /\ tasks'[<<e, 2>>] = e
      BY <1>0, <2>1, <3>3 DEF TaskIds
    <3> QED
      BY <1>0, <1>2, <1>4, <2>1, <3>1, <3>3, <3>4 DEF Made, At
  <2> QED
    BY <1>6, <2>2, <2>3 DEF CreateProject, MailAndLog, At
<1>7. CASE MailAndLog(e) /\ StepSucceeds(e)
  <2>1. execution[e].currentStep \in {2, 3}
    BY <1>7 DEF MailAndLog, At
  <2>2. /\ pc'[e] = "saveResult"
        /\ execution'[e].completedSteps = execution[e].currentStep + 1
    BY <1>7, SuccessMoves DEF AloneInv
  <2>3. projects[e] = data[e] /\ \A n \in {1, 2} : tasks[<<e, n>>] = e
    BY <1>0, <2>1 DEF Made, At
  <2>4. UNCHANGED <<projects, tasks>>
    BY <1>7 DEF MailAndLog, effects
  <2> QED
    BY <1>0, <1>2, <1>4, <2>1, <2>2, <2>3, <2>4 DEF Made, At
<1> QED
  BY <1>5, <1>6, <1>7

\* A call of the compensation loop, and how the loop goes on.
LEMMA UndoMoves ==
  ASSUME SagaInv, NEW e \in Executions, CompensateStep(e) \/ CompensateStepFails(e)
  PROVE  /\ pc[e] = "compensate" /\ pc'[e] \in {"compensate", "saveCompensated"}
         /\ execution'[e].currentStep = execution[e].currentStep
         /\ undone'[e] = undone[e] \cup {undoing[e]}
         /\ undoing[e] \in First(execution[e].currentStep)
         /\ row' = row
         /\ row[e].status = "COMPENSATING"
<1>0. TypeOK /\ Phase(e)
  BY DEF SagaInv
<1>1. PICK i \in -1..StepCount : UndoFrom(e, i)
  BY UndoIndexes
<1>2. /\ pc'[e] \in {"compensate", "saveCompensated"}
      /\ execution'[e].currentStep = execution[e].currentStep
  BY <1>0, <1>1, UndoFromMoves DEF TypeOK
<1>3. /\ pc[e] = "compensate" /\ row' = row
      /\ undone'[e] = undone[e] \cup {undoing[e]}
  BY <1>0 DEF CompensateStep, CompensateStepFails, TypeOK
<1>4. /\ undoing[e] \in First(execution[e].currentStep)
      /\ row[e].status = "COMPENSATING"
  BY <1>0, <1>3 DEF Phase, TakingBack
<1> QED
  BY <1>2, <1>3, <1>4

\* The compensations, with or without an error.
LEMMA UndoAlone ==
  ASSUME AloneInv, NEW e \in Executions, OwnsContext(e), Made(e), Unmade(e), Outcome(e),
         RemoveTasks(e) \/ RemoveProject(e) \/ NothingToUndo(e) \/ CompensationFails(e)
  PROVE  Made(e)' /\ Unmade(e)' /\ Outcome(e)'
<1>0. /\ TypeOK /\ Phase(e) /\ pc[e] = "compensate" /\ local[e].of = e
      /\ UNCHANGED <<data, row>>
      /\ execution[e].currentStep \in Steps
      /\ undoing[e] \in First(execution[e].currentStep)
      /\ row[e].status = "COMPENSATING"
      /\ e \notin NotLive
      /\ projects \in [Executions -> Keys \cup NotLive]
      /\ tasks \in [TaskIds -> Executions \cup NotLive]
      /\ part \in [Executions -> Nat]
  <2>1. TypeOK /\ Phase(e) /\ pc[e] = "compensate"
    BY DEF AloneInv, SagaInv, RemoveTasks, RemoveProject, NothingToUndo,
       CompensationFails, Undoes
  <2>2. UNCHANGED <<data, row>>
    BY DEF RemoveTasks, RemoveProject, NothingToUndo, CompensationFails, UndoFails,
       Waits, GoesOn, CompensateStep, CompensateStepFails, vars
  <2> QED
    BY <2>1, <2>2, ExecutionsAreNoMarks DEF OwnsContext, InCall, Phase, TakingBack,
       GivingUp, AloneInv, SetupTyped
<1>1. Outcome(e)'
  BY <1>0 DEF Outcome
<1>2. CASE RemoveTasks(e) /\ Waits(e)
  <2>1. /\ UNCHANGED <<pc, execution, undone, undoing, undoFailed, projects>>
        /\ part'[e] = part[e] + 1 /\ ~ CompensateStep(e)
    <3>1. UNCHANGED vars
      BY <1>2 DEF Waits
    <3>2. undone' = undone /\ undoing' = undoing /\ undoFailed' = undoFailed
      BY <3>1 DEF vars, history
    <3>3. ~ CompensateStep(e)
      <4>1. undoing'[e] = undoing[e] - 1 => FALSE
        BY <1>0, <3>2, ConstantsAreTyped DEF TypeOK
      <4> QED
        BY <1>0, <4>1 DEF CompensateStep, UndoFrom, TypeOK
    <3> QED
      BY <1>0, <1>2, <3>1, <3>2, <3>3 DEF Waits, vars, RemoveTasks
  <2>2. part[e] = 0 /\ Undoes(e, 1)
    BY <1>0, <1>2, <2>1 DEF RemoveTasks, Unmade
  <2>3. tasks' = [tasks EXCEPT ![<<e, 1>>] = "removed"]
    BY <1>0, <1>2, <2>2 DEF RemoveTasks
  <2>4. tasks'[<<e, 1>>] # e /\ tasks'[<<e, 2>>] = tasks[<<e, 2>>]
    BY <1>0, <2>3 DEF TaskIds, NotLive
  <2>5. Unmade(e)'
    BY <1>0, <2>1, <2>2, <2>4 DEF Unmade, Undoes, Live
  <2> QED
    BY <1>0, <1>1, <2>1, <2>5 DEF Made
<1>3. CASE /\ CompensateStep(e) /\ GoesOn(e)
           /\ RemoveTasks(e) \/ RemoveProject(e) \/ NothingToUndo(e)
  <2>1. /\ pc'[e] \in {"compensate", "saveCompensated"}
        /\ execution'[e].currentStep = execution[e].currentStep
        /\ undone'[e] = undone[e] \cup {undoing[e]}
        /\ undoFailed' = undoFailed /\ part'[e] = 0
    BY <1>0, <1>3, UndoMoves DEF AloneInv, CompensateStep, GoesOn
  <2>2. CASE RemoveTasks(e)
    <3>1. ~ Waits(e)
      <4>1. undoing'[e] = undoing[e] - 1
        BY <1>0, <1>3 DEF CompensateStep, UndoFrom, TypeOK
      <4>2. undoing'[e] # undoing[e]
        BY <1>0, <4>1, ConstantsAreTyped DEF TypeOK
      <4> QED
        BY <4>2 DEF Waits, vars
    <3>2. /\ part[e] = 1 /\ Undoes(e, 1) /\ projects' = projects
      BY <2>2, <3>1 DEF RemoveTasks
    <3>3. tasks' = [tasks EXCEPT ![<<e, 2>>] = "removed"]
      BY <1>0, <2>2, <3>2 DEF RemoveTasks
    <3>4. tasks'[<<e, 1>>] # e /\ tasks'[<<e, 2>>] # e
      BY <1>0, <3>2, <3>3 DEF TaskIds, NotLive, Unmade
    <3>5. undoing[e] = 1
      BY <3>2 DEF Undoes
    <3> QED
      BY <1>0, <1>1, <2>1, <3>2, <3>4, <3>5 DEF Made, Unmade, Undoes, Live
  <2>3. CASE RemoveProject(e)
    <3>1. projects'[e] = "removed" /\ tasks' = tasks /\ undoing[e] = 0
      BY <1>0, <2>3 DEF RemoveProject, Undoes
    <3> QED
      BY <1>0, <1>1, <2>1, <3>1 DEF Made, Unmade, Undoes, Live, NotLive
  <2>4. CASE NothingToUndo(e)
    <3>1. UNCHANGED <<projects, tasks>> /\ undoing[e] = 2
      BY <2>4 DEF NothingToUndo, Undoes, effects
    <3> QED
      BY <1>0, <1>1, <2>1, <3>1 DEF Made, Unmade, Undoes, Live
  <2> QED
    BY <1>3, <2>2, <2>3, <2>4
<1>4. CASE CompensationFails(e)
  <2>1. CompensateStepFails(e) /\ GoesOn(e) /\ UNCHANGED effects
    BY <1>4 DEF CompensationFails, UndoFails
  <2>2. /\ pc'[e] \in {"compensate", "saveCompensated"}
        /\ execution'[e].currentStep = execution[e].currentStep
        /\ part'[e] = 0 /\ undoFailed'[e] # {}
    <3>1. undoFailed'[e] = undoFailed[e] \cup {undoing[e]}
      BY <1>0, <2>1 DEF CompensateStepFails, TypeOK
    <3> QED
      BY <1>0, <2>1, <3>1, UndoMoves DEF AloneInv, GoesOn
  <2>3. UNCHANGED <<projects, tasks>>
    BY <2>1 DEF effects
  <2> QED
    BY <1>0, <1>1, <2>2, <2>3 DEF Made, Unmade, Undoes
<1> QED
  BY <1>2, <1>3, <1>4 DEF RemoveTasks, RemoveProject, NothingToUndo

\* An execution that is alone keeps the field and reads its own context.
LEMMA ContextKept ==
  ASSUME AloneInv, NEW e \in Executions, Proceed(e) \/ SavesFail(e),
         OwnsContext(e), ContextUnread(e)
  PROVE  OwnsContext(e)' /\ ContextUnread(e)'
<1>0. /\ SagaInv /\ TypeOK /\ ReadsField(e) /\ SetupTyped
      /\ current = e /\ current' = e
      /\ \A o \in Executions \ {e} : ~ Running(o)
  BY SetupMoves DEF AloneInv, SagaInv, ReadsField, OwnsContext
<1>1. \A o \in Executions \ {e} : pc'[o] = pc[o]
  BY <1>0, StepsSpare DEF ReadsField, Spares, vars
<1>2. \A o \in Executions \ {e} : ~ Running(o)'
  BY <1>0, <1>1 DEF Running
<1>3. pc'[e] \in InCall => local'[e].of = e /\ local'[e].results = executed'[e]
  <2>1. CASE UNCHANGED vars /\ local' = local
    BY <2>1 DEF vars, history, OwnsContext
  <2>2. CASE GoesOn(e) /\ (Execute(e) \/ SaveResultFails(e) \/ SaveFails(e))
    <3>1. CASE StepSucceeds(e)
      BY <1>0, <3>1, SuccessMoves DEF InCall
    <3>2. CASE ~ StepSucceeds(e)
      <4>1. executed' = executed
        BY <1>0, <2>2, <3>2, EngineMoves DEF Execute
      <4>2. Context.of = e /\ Context.results = executed[e]
        BY <1>0 DEF Context
      <4>3. pc'[e] \in InCall => local'[e] = Context
        BY <2>2 DEF GoesOn, InCall, SetupTyped, AloneInv
      <4> QED
        BY <4>1, <4>2, <4>3
    <3> QED
      BY <3>1, <3>2
  <2> QED
    BY <1>0, <2>1, <2>2 DEF ReadsField
<1> QED
  BY <1>0, <1>2, <1>3 DEF OwnsContext, ContextUnread

\* A step of an execution that is alone.
LEMMA OwnStepAlone ==
  ASSUME AloneInv, NEW e \in Executions, Proceed(e) \/ SavesFail(e),
         e \notin overlapped
  PROVE  Alone(e)'
<1>0. /\ Alone(e) /\ OwnsContext(e) /\ ContextUnread(e)
      /\ Made(e) /\ Unmade(e) /\ Outcome(e)
  BY DEF AloneInv, Alone
<1>1. OwnsContext(e)' /\ ContextUnread(e)'
  BY <1>0, ContextKept
<1>2. ASSUME NEW inPart \in BOOLEAN, Fails(e, inPart)
      PROVE  Made(e)' /\ Unmade(e)' /\ Outcome(e)'
  BY <1>0, <1>2, FailureAlone DEF Fails
<1>3. CASE Saves(e)
  BY <1>0, <1>1, <1>3, ForwardAlone, SavesBackAlone DEF Saves, Save, Alone
<1>4. CASE CreateProject(e) \/ CreateInitialTasks(e) \/ MailAndLog(e)
  <2>1. CASE \E inPart \in BOOLEAN : Fails(e, inPart)
    BY <1>1, <1>2, <2>1 DEF Alone
  <2>2. CASE ~ \E inPart \in BOOLEAN : Fails(e, inPart)
    <3>1. ~ Fails(e, FALSE) /\ ~ Fails(e, part[e] > 0)
      <4>1. FALSE \in BOOLEAN /\ (part[e] > 0) \in BOOLEAN
        OBVIOUS
      <4> QED
        BY <2>2, <4>1
    <3>2. CASE CreateProject(e)
      <4>1. Waits(e) \/ (StepSucceeds(e) /\ GoesOn(e))
        BY <3>1, <3>2 DEF CreateProject
      <4> QED
        BY <1>0, <1>1, <3>2, <4>1, StepsAlone DEF Alone
    <3>3. CASE CreateInitialTasks(e)
      <4>1. Waits(e) \/ (StepSucceeds(e) /\ GoesOn(e))
        BY <3>1, <3>3 DEF CreateInitialTasks
      <4> QED
        BY <1>0, <1>1, <3>3, <4>1, StepsAlone DEF Alone
    <3>4. CASE MailAndLog(e)
      <4>1. StepSucceeds(e)
        BY <3>1, <3>4 DEF MailAndLog, Fails
      <4> QED
        BY <1>0, <1>1, <3>4, <4>1, StepsAlone DEF Alone
    <3> QED
      BY <1>4, <3>2, <3>3, <3>4
  <2> QED
    BY <2>1, <2>2
<1>5. CASE CallOfStepFails(e)
  <2>1. (At(e, 1) /\ part[e] >= 2) \in BOOLEAN
    OBVIOUS
  <2> QED
    BY <1>1, <1>2, <1>5, <2>1 DEF CallOfStepFails, Alone
<1>6. CASE RemoveTasks(e) \/ RemoveProject(e) \/ NothingToUndo(e) \/ CompensationFails(e)
  BY <1>0, <1>1, <1>6, UndoAlone DEF Alone
<1>7. CASE SavesFail(e) /\ SaveResultFails(e)
  BY <1>0, <1>1, <1>7, FailureAlone DEF SavesFail, Alone
<1>8. CASE SavesFail(e) /\ SaveFails(e)
  <2>1. /\ pc'[e] = "threw" /\ UNCHANGED <<row, undoFailed, projects, tasks, data>>
    BY <1>8 DEF SavesFail, SaveFails, GoesOn, effects, history, AloneInv, SagaInv, TypeOK
  <2> QED
    BY <1>0, <1>1, <2>1, ProjectLeft DEF Over, Alone
<1> QED
  BY <1>1, <1>3, <1>4, <1>5, <1>6, <1>7, <1>8 DEF Proceed, SavesFail, Alone

\* Another execution goes on: the one that is alone does not run, and its
\* context is not the one that is read.
LEMMA OtherStepAlone ==
  ASSUME AloneInv, NEW e \in Executions, NEW o \in Executions, o # e,
         Proceed(o) \/ SavesFail(o), e \notin overlapped
  PROVE  Alone(e)'
<1>0. /\ SagaInv /\ TypeOK /\ SetupTyped /\ ReadsField(o) /\ SparesSetup(o)
      /\ OwnsContext(e) /\ ContextUnread(e) /\ Made(e) /\ Unmade(e) /\ Outcome(e)
      /\ current' = current /\ data' = data /\ Running(o)
  BY SetupMoves DEF AloneInv, Alone, SagaInv, ReadsField
<1>1. current # e /\ ~ (pc[o] \in InCall /\ local[o].of = e) /\ ~ Running(e)
  BY <1>0 DEF ContextUnread, OwnsContext
<1>2. /\ projects'[e] = projects[e] /\ undoFailed'[e] = undoFailed[e]
      /\ \A n \in {1, 2} : tasks'[<<e, n>>] = tasks[<<e, n>>]
      /\ \A f \in Executions \ {o} : local'[f] = local[f] /\ part'[f] = part[f]
  BY <1>0, <1>1 DEF SparesSetup
<1>3. \A f \in Executions \ {o} :
        /\ pc'[f] = pc[f] /\ execution'[f] = execution[f] /\ row'[f] = row[f]
        /\ undoing'[f] = undoing[f] /\ undone'[f] = undone[f]
        /\ executed'[f] = executed[f]
  <2>1. CASE UNCHANGED vars
    BY <2>1 DEF vars, history
  <2>2. CASE Execute(o) \/ SaveResultFails(o) \/ SaveFails(o)
    BY <1>0, <2>2, StepsSpare DEF Spares
  <2> QED
    BY <1>0, <2>1, <2>2 DEF ReadsField
<1>4. Made(e)' /\ Unmade(e)' /\ Outcome(e)'
  BY <1>0, <1>2, <1>3, ProjectUntouched
<1>5. ~ Running(e)' /\ pc'[e] \notin InCall
  BY <1>1, <1>3 DEF Running, InCall, Over
<1>6. OwnsContext(e)'
  BY <1>5 DEF OwnsContext
<1>7. pc'[o] \in InCall => local'[o].of # e
  <2>1. CASE UNCHANGED vars /\ local' = local
    BY <1>1, <2>1 DEF vars
  <2>2. CASE GoesOn(o)
    <3>1. pc'[o] \in InCall => local'[o] = Context
      BY <1>0, <2>2 DEF GoesOn, InCall, SetupTyped
    <3> QED
      BY <1>1, <3>1 DEF Context
  <2> QED
    BY <1>0, <2>1, <2>2 DEF ReadsField
<1>8. ContextUnread(e)'
  <2> SUFFICES ASSUME NEW f \in Executions \ {e}, Running(f)'
               PROVE  current' # e /\ (pc'[f] \in InCall => local'[f].of # e)
    BY DEF ContextUnread
  <2>1. CASE f = o
    BY <1>0, <1>1, <1>7, <2>1
  <2>2. CASE f # o
    BY <1>0, <1>1, <1>2, <1>3, <2>2 DEF ContextUnread, Running
  <2> QED
    BY <2>1, <2>2
<1> QED
  BY <1>4, <1>6, <1>8 DEF Alone

\* An execution begins: it is alone if nothing runs, and what runs is not
\* alone any more.
LEMMA BeginAlone ==
  ASSUME AloneInv, NEW e \in Executions, NEW o \in Executions, Begin(o),
         e \notin overlapped'
  PROVE  Alone(e)'
<1> DEFINE others == {f \in Executions : Running(f)}
<1>0. /\ SagaInv /\ TypeOK /\ SetupTyped /\ e \notin overlapped /\ e \notin others
      /\ o = e => others = {}
      /\ OwnsContext(e) /\ ContextUnread(e) /\ Made(e) /\ Unmade(e) /\ Outcome(e)
      /\ current' = o /\ UNCHANGED <<local, part, projects, tasks>>
      /\ \A f \in Executions \ {o} : data'[f] = data[f]
  <2>1. /\ e \notin overlapped /\ e \notin others /\ (o = e => others = {})
        /\ current' = o /\ UNCHANGED <<local, part, projects, tasks>>
    BY DEF Begin, effects
  <2>2. \A f \in Executions \ {o} : data'[f] = data[f]
    BY DEF Begin, AloneInv, SetupTyped
  <2> QED
    BY <2>1, <2>2 DEF AloneInv, Alone, SagaInv
<1>1. /\ pc[o] = "new" /\ pc' = [pc EXCEPT ![o] = "create"]
      /\ UNCHANGED <<execution, row, undoing, undone, undoFailed>>
  BY DEF Begin, Start, history
<1>2. CASE o # e
  <2>1. pc'[e] = pc[e] /\ ~ Running(e) /\ pc[e] \notin InCall
    BY <1>0, <1>1, <1>2 DEF Running, InCall, Over, TypeOK
  <2>2. Made(e)' /\ Unmade(e)' /\ Outcome(e)'
    BY <1>0, <1>1, <1>2, <2>1, ProjectUntouched
  <2>3. OwnsContext(e)'
    BY <2>1 DEF OwnsContext, Running
  <2>4. ContextUnread(e)'
    <3> SUFFICES ASSUME NEW f \in Executions \ {e}, Running(f)'
                 PROVE  current' # e /\ (pc'[f] \in InCall => local'[f].of # e)
      BY DEF ContextUnread
    <3>1. CASE f = o
      BY <1>0, <1>1, <1>2, <3>1 DEF InCall, TypeOK
    <3>2. CASE f # o
      BY <1>0, <1>1, <1>2, <3>2 DEF ContextUnread, Running, TypeOK
    <3> QED
      BY <3>1, <3>2
  <2> QED
    BY <2>2, <2>3, <2>4 DEF Alone
<1>3. CASE o = e
  <2>1. pc'[e] = "create" /\ \A f \in Executions \ {e} : pc'[f] = pc[f] /\ ~ Running(f)
    BY <1>0, <1>1, <1>3 DEF TypeOK
  <2>2. execution[e] = Fresh /\ row[e] = NoExecution
    BY <1>0, <1>1, <1>3 DEF SagaInv, Phase, NotStarted
  <2>3. Made(e)' /\ Unmade(e)' /\ Outcome(e)'
    BY <1>0, <1>1, <1>3, <2>1, <2>2 DEF Made, Unmade, Outcome, Undoes, At, Fresh,
       NoExecution
  <2>4. OwnsContext(e)' /\ ContextUnread(e)'
    BY <1>0, <1>3, <2>1 DEF OwnsContext, ContextUnread, Running, InCall
  <2> QED
    BY <2>3, <2>4 DEF Alone
<1> QED
  BY <1>2, <1>3

\* While no other setup interferes, the project of a setup is what its row tells.
LEMMA AloneStep ==
  ASSUME AloneInv, [SetupNext]_<<vars, setup>>
  PROVE  AloneInv'
<1>1. SagaInv' /\ SetupTyped'
  BY SetupStep, SagaStep, SetupTypesStep DEF AloneInv
<1> SUFFICES ASSUME NEW e \in Executions, e \notin overlapped' PROVE Alone(e)'
  BY <1>1 DEF AloneInv
<1>2. ASSUME NEW o \in Executions, Begin(o) PROVE Alone(e)'
  BY <1>2, BeginAlone
<1>3. ASSUME NEW o \in Executions, Proceed(o) \/ SavesFail(o) PROVE Alone(e)'
  <2>1. overlapped' = overlapped
    BY <1>3, SetupMoves DEF AloneInv, ReadsField
  <2> QED
    BY <1>3, <2>1, OwnStepAlone, OtherStepAlone
<1>4. CASE ProcessDies
  <2>1. /\ Alone(e) /\ TypeOK /\ UNCHANGED <<row, undoFailed, projects, tasks, data,
                                            execution, undoing, undone, current>>
    BY <1>4 DEF AloneInv, SagaInv, Alone, ProcessDies, Crash, effects
  <2>2. \A f \in Executions : pc'[f] = IF Running(f) THEN "dead" ELSE pc[f]
    BY <1>4 DEF ProcessDies, Crash
  <2>3. \A f \in Executions : ~ Running(f)' /\ pc'[f] \notin InCall
    BY <2>2 DEF Running, Over, InCall
  <2>4. OwnsContext(e)' /\ ContextUnread(e)'
    BY <2>3 DEF OwnsContext, ContextUnread
  <2>5. CASE Running(e)
    BY <2>1, <2>2, <2>4, <2>5, ProjectLeft DEF Alone, Over
  <2>6. CASE ~ Running(e)
    <3>1. pc[e] \notin InCall /\ pc'[e] = pc[e]
      BY <2>2, <2>6 DEF Running, Over, InCall
    <3> QED
      BY <2>1, <2>4, <3>1, ProjectUntouched DEF Alone
  <2> QED
    BY <2>5, <2>6
<1>5. CASE UNCHANGED <<vars, setup>>
  <2>1. Alone(e)
    BY <1>5 DEF AloneInv, setup
  <2>2. Made(e)' /\ Unmade(e)' /\ Outcome(e)'
    BY <1>5, <2>1, ProjectUntouched DEF Alone, vars, setup, effects, history
  <2>3. OwnsContext(e)' /\ ContextUnread(e)'
    BY <1>5, <2>1 DEF Alone, OwnsContext, ContextUnread, Running, vars, setup, history
  <2> QED
    BY <2>2, <2>3 DEF Alone
<1> QED
  BY <1>2, <1>3, <1>4, <1>5 DEF SetupNext, Ended

\* At first there is no project.
LEMMA AloneAtFirst == SetupInit => AloneInv
<1> SUFFICES ASSUME SetupInit PROVE AloneInv
  OBVIOUS
<1>1. SagaInv
  BY SagaHoldsAtFirst DEF SetupInit
<1>2. NoContext \in Ctx
  BY DEF NoContext, Ctx
<1>3. SetupTyped
  BY <1>2 DEF SetupInit, Init, SetupTyped, InCall, NotLive
<1>4. ASSUME NEW e \in Executions PROVE Alone(e)
  <2>1. /\ pc[e] = "new" /\ execution[e] = Fresh /\ row[e] = NoExecution
        /\ projects[e] = "none" /\ \A n \in {1, 2} : tasks[<<e, n>>] = "none"
        /\ \A f \in Executions : ~ Running(f)
    BY DEF SetupInit, Init, Running, TaskIds
  <2> QED
    BY <2>1 DEF Alone, OwnsContext, ContextUnread, Made, Unmade, Outcome, Fresh,
       NoExecution, InCall, At, Undoes, Running
<1> QED
  BY <1>1, <1>3, <1>4 DEF AloneInv

-----------------------------------------------------------------------------
(* Theorems.                                                               *)

\* executeSaga, save by save: the control state of every execution says which
\* steps are in effect, which are undone and what its row holds.
THEOREM SagaInvariant == Spec => []SagaInv
<1>1. Init => SagaInv
  BY SagaHoldsAtFirst
<1>2. SagaInv /\ [Next]_vars => SagaInv'
  BY SagaStep
<1> QED
  BY <1>1, <1>2, PTL DEF Spec

\* Entities, rows, loop indexes and histories keep their types.
THEOREM TypeCorrect == Spec => []TypeOK
<1>1. SagaInv => TypeOK
  BY DEF SagaInv
<1> QED
  BY <1>1, SagaInvariant, PTL

\* executeSaga and compensate: COMPLETED means that all steps are in effect,
\* COMPENSATED that at most the recorded failed step is left, no row misses
\* more than the last step, and only completed steps are compensated.
THEOREM RowsTellEffects == Spec => []RowTellsEffects
<1>1. SagaInv => RowTellsEffects
  <2> SUFFICES ASSUME SagaInv PROVE RowTellsEffects
    OBVIOUS
  <2>1. \A e \in Executions : RowTells(e)
    BY DEF SagaInv, Phase
  <2> QED
    BY <2>1 DEF RowTells, RowTellsEffects, OnlyCompletedUndone,
       CompletedMeansAllInEffect, CompensatedLeavesFailedStep, RowLagsByOneStep
<1> QED
  BY <1>1, SagaInvariant, PTL

\* The engine implements SagaPromise for each execution until a save fails:
\* steps in order, then all of them kept, or taken back last one first before
\* the row says COMPENSATED.
THEOREM PromiseIsKept == Spec => KeepsPromise
<1>1. Init => \A e \in Executions : Promise(e)!Init
  <2> SUFFICES ASSUME Init, NEW e \in Executions PROVE Promise(e)!Init
    OBVIOUS
  <2>1. row[e].status = "NONE" /\ undone[e] = {} /\ execution[e].completedSteps = 0
    BY DEF Init, NoExecution, None, Fresh
  <2>2. Effects(e) = 0
    BY <2>1, EffectsAre
  <2> QED
    BY <2>1, <2>2 DEF Promise!Init
<1>2. SagaInv /\ [Next]_vars =>
        [\A e \in Executions : dbErrors' = 0 =>
           Promise(e)!Next \/ UNCHANGED <<row[e].status, Effects(e)>>]_vars
  BY PromiseStep DEF PromiseKept
<1> QED
  BY <1>1, <1>2, SagaInvariant, PTL DEF Spec, KeepsPromise

\* CreateProjectSaga runs on the engine: whatever its steps do to projects,
\* tasks and the shared context, each step is one of executeSaga or none.
THEOREM SetupRunsTheEngine == FairSetupSpec => Spec
<1>1. SetupInit => Init
  BY DEF SetupInit
<1>2. [SetupNext]_<<vars, setup>> => [Next]_vars
  BY SetupStep
<1> QED
  BY <1>1, <1>2, PTL DEF FairSetupSpec, Spec

\* CreateProjectSaga: an execution that no other ran beside does to its project
\* and tasks what its row says, through failing saves, failing steps and
\* compensations and the end of the process; the shared context is its own.
THEOREM RowTellsProject == FairSetupSpec => []RowTellsProjectWhenAlone
<1>1. SetupInit => AloneInv
  BY AloneAtFirst
<1>2. AloneInv /\ [SetupNext]_<<vars, setup>> => AloneInv'
  BY AloneStep
<1>3. AloneInv => RowTellsProjectWhenAlone
  BY DEF AloneInv, Alone, Outcome, RowTellsProjectWhenAlone
<1> QED
  BY <1>1, <1>2, <1>3, PTL DEF FairSetupSpec
=============================================================================
