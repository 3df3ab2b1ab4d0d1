------------------------- MODULE CreateProjectSaga -------------------------
(***************************************************************************)
(* The saga CreateProjectWithSetup on the engine of Saga: its four steps   *)
(* and compensations with the projects and tasks they make and remove.     *)
(* The steps find their data through one field, this.context, that each    *)
(* call of execute() replaces; results go to the context of the execution. *)
(* One tenant; nobody else touches these projects and tasks.               *)
(***************************************************************************)
EXTENDS Saga

CONSTANT Keys  \* project keys the callers ask for

VARIABLES
  current,     \* the execution whose context this.context is
  data,        \* projectData.key of each execution
  local,       \* what the call under way read from this.context
  part,        \* awaits the call under way has passed
  projects,    \* the project each execution made
  tasks,       \* the two tasks each execution made
  overlapped   \* history: executions that ran beside another

effects == <<projects, tasks>>
setup == <<current, data, local, part, effects, overlapped>>

TaskIds == Executions \X {1, 2}

\* A project is its key and a task its project, while they are live.
NotLive == {"none", "removed"}

ASSUME SetupHasFourSteps == StepCount = 4

ASSUME ExecutionsAreNoMarks == Executions \cap NotLive = {}

\* The context holds a result for each step of its execution that returned.
NoContext == [of |-> "none", results |-> {}]
Context == [of |-> current, results |-> executed[current]]

SetupInit ==
  /\ Init
  /\ current = "none"
  /\ data = [e \in Executions |-> "none"]
  /\ local = [e \in Executions |-> NoContext]
  /\ part = [e \in Executions |-> 0]
  /\ projects = [e \in Executions |-> "none"]
  /\ tasks = [t \in TaskIds |-> "none"]
  /\ overlapped = {}

-----------------------------------------------------------------------------
\* CreateProjectSaga.execute(): the new context replaces the field.
Begin(e) ==
  LET others == {o \in Executions : Running(o)}
  IN /\ Start(e)
     /\ current' = e
     /\ \E k \in Keys : data' = [data EXCEPT ![e] = k]
     /\ overlapped' = overlapped \cup others \cup (IF others = {} THEN {} ELSE {e})
     /\ UNCHANGED <<local, part, effects>>

\* The engine goes on to its next await: a call it makes reads the field first.
GoesOn(e) ==
  /\ local' = [local EXCEPT ![e] = IF pc'[e] \in {"execute", "compensate"}
                                   THEN Context ELSE NoContext]
  /\ part' = [part EXCEPT ![e] = 0]
  /\ UNCHANGED <<current, data, overlapped>>

\* The call under way passes an await inside a step.
Waits(e) ==
  /\ part' = [part EXCEPT ![e] = @ + 1]
  /\ UNCHANGED <<vars, current, data, local, overlapped>>

Saves(e) == Save(e) /\ GoesOn(e) /\ UNCHANGED effects

SavesFail(e) ==
  (SaveResultFails(e) \/ SaveFails(e)) /\ GoesOn(e) /\ UNCHANGED effects

At(e, step) == pc[e] = "execute" /\ execution[e].currentStep = step
Undoes(e, step) == pc[e] = "compensate" /\ undoing[e] = step
Has(e, step) == step \in local[e].results

Fails(e, inPart) == StepFails(e, inPart) /\ GoesOn(e) /\ UNCHANGED effects
UndoFails(e) == CompensateStepFails(e) /\ GoesOn(e) /\ UNCHANGED effects

KeyTaken(k) == \E e \in Executions : projects[e] = k

\* ProjectsService.create: a query for the key and an insert.
CreateProject(e) ==
  /\ At(e, 0)
  /\ LET k == data[local[e].of]
     IN \/ part[e] = 0 /\ KeyTaken(k) /\ Fails(e, FALSE)
        \/ part[e] = 0 /\ ~KeyTaken(k) /\ Waits(e) /\ UNCHANGED effects
        \/ /\ part[e] = 1
           /\ projects' = [projects EXCEPT ![e] = k]
           /\ StepSucceeds(e) /\ GoesOn(e) /\ UNCHANGED tasks

\* Two calls of TasksService.create, each a query for the project (even parts)
\* and an insert (odd parts).  Without the result of the first step the call
\* throws at once.
CreateInitialTasks(e) ==
  /\ At(e, 1)
  /\ LET project == local[e].of
         live == projects[project] \notin NotLive
         inserted == (part[e] + 1) \div 2
     IN \/ ~Has(e, 0) /\ Fails(e, FALSE)
        \/ Has(e, 0) /\ part[e] \in {0, 2} /\ ~live /\ Fails(e, part[e] > 0)
        \/ Has(e, 0) /\ part[e] \in {0, 2} /\ live /\ Waits(e) /\ UNCHANGED effects
        \/ /\ Has(e, 0) /\ part[e] \in {1, 3}
           /\ tasks' = [tasks EXCEPT ![<<e, inserted>>] = project]
           /\ IF part[e] = 3 THEN StepSucceeds(e) /\ GoesOn(e) ELSE Waits(e)
           /\ UNCHANGED projects

\* The mail service swallows its errors; the last step does nothing.
MailAndLog(e) ==
  /\ At(e, 2) \/ At(e, 3)
  /\ IF At(e, 2) /\ ~Has(e, 0) THEN StepFails(e, FALSE) ELSE StepSucceeds(e)
  /\ GoesOn(e) /\ UNCHANGED effects

\* A database call of a step fails; what it did before stays.
CallOfStepFails(e) ==
  /\ At(e, 0) \/ (At(e, 1) /\ Has(e, 0))
  /\ Fails(e, At(e, 1) /\ part[e] >= 2)

\* Faulty variant: only the first task is removed.
RemoveOneTask(e) ==
  /\ Undoes(e, 1) /\ Has(e, 1)
  /\ tasks' = [tasks EXCEPT ![<<local[e].of, 1>>] = "removed"]
  /\ CompensateStep(e) /\ GoesOn(e)
  /\ UNCHANGED projects

\* TasksService.remove of each task in turn.  A task that is gone already is
\* not found, unless it is still cached.
RemoveTasks(e) ==
  /\ Undoes(e, 1) /\ Has(e, 1)
  /\ tasks' = [tasks EXCEPT ![<<local[e].of, part[e] + 1>>] = "removed"]
  /\ IF part[e] = 1 THEN CompensateStep(e) /\ GoesOn(e) ELSE Waits(e)
  /\ UNCHANGED projects

\* ProjectsService.remove; removing what is removed succeeds.
RemoveProject(e) ==
  /\ Undoes(e, 0) /\ Has(e, 0)
  /\ projects' = [projects EXCEPT ![local[e].of] = "removed"]
  /\ CompensateStep(e) /\ GoesOn(e)
  /\ UNCHANGED tasks

NothingToUndo(e) ==
  Undoes(e, 2) /\ CompensateStep(e) /\ GoesOn(e) /\ UNCHANGED effects

\* A compensation throws: its result is not in the context it reads, a task is
\* not found, or the database fails.
CompensationFails(e) == (Undoes(e, 0) \/ Undoes(e, 1)) /\ UndoFails(e)

Proceed(e) ==
  \/ Saves(e) \/ CreateProject(e) \/ CreateInitialTasks(e) \/ MailAndLog(e)
  \/ RemoveTasks(e) \/ RemoveProject(e) \/ NothingToUndo(e)
  \/ CallOfStepFails(e) \/ CompensationFails(e)

\* The process dies with all its executions.
ProcessDies ==
  /\ Crash({e \in Executions : At(e, 1) /\ part[e] >= 2})
  /\ local' = [e \in Executions |-> NoContext]
  /\ part' = [e \in Executions |-> 0]
  /\ UNCHANGED <<current, data, effects, overlapped>>

SetupNext ==
  \/ \E e \in Executions : Begin(e) \/ Proceed(e) \/ SavesFail(e)
  \/ ProcessDies
  \/ Ended /\ UNCHANGED setup

\* Every await of an execution is answered, or its process dies.
FairSetupSpec ==
  /\ SetupInit /\ [][SetupNext]_<<vars, setup>>
  /\ \A e \in Executions : WF_<<vars, setup>>(Proceed(e))

-----------------------------------------------------------------------------
(* Properties.                                                             *)

Live(e) == projects[e] \notin NotLive

\* An execution that no other ran beside does what its row says: COMPLETED,
\* its project is live under the key it was asked for with two tasks in it;
\* COMPENSATED with no error in a compensation, it leaves at most what the
\* failed step made.  Beside another, its steps work on the other's context.
RowTellsProjectWhenAlone ==
  \A e \in Executions \ overlapped :
    /\ row[e].status = "COMPLETED" =>
         projects[e] = data[e] /\ \A n \in {1, 2} : tasks[<<e, n>>] = e
    /\ row[e].status = "COMPENSATED" /\ undoFailed[e] = {} =>
         /\ Live(e) => row[e].failedStep = 0
         /\ \A n \in {1, 2} : tasks[<<e, n>>] = e => row[e].failedStep = 1
=============================================================================
