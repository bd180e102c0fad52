-------------------------- MODULE AsyncTaskManager --------------------------
(***************************************************************************)
(* builder-util's AsyncTaskManager under its callers: the one that owns it *)
(* (Main), and tasks that add more tasks to it or even wait on the manager *)
(* that waits for them, as PlatformPackager.copyAppFiles does.  An action  *)
(* is one uninterrupted run of the event loop; a promise and the handlers  *)
(* the manager attached to it settle together.                             *)
(***************************************************************************)
EXTENDS TaskManager

CONSTANTS
  Tasks,        \* the promises that may be added
  Cancellable,  \* those with a cancel() method
  Nesting,      \* tasks that add tasks and wait on the manager themselves
  Main,         \* the caller that is not a task
  NoWait        \* a caller that is not inside awaitTasks

ASSUME TasksAssumption == Cancellable \subseteq Tasks /\ Nesting \subseteq Tasks
ASSUME MainAssumption == Main \notin Tasks /\ \A S \in SUBSET Tasks : NoWait # S

Callers == Tasks \cup {Main}
Results == {"none", "waiting", "resolved", "rejected", "cancelled"}

VARIABLES
  manager,        \* tasks, errors and cancellableTasks
  cancelled,      \* the manager's token
  status,         \* of each promise: "new", "running", "succeeded", "failed"
  round,          \* the promises each caller's Promise.all waits for, or NoWait
  result,         \* how the last awaitTasks of a caller went
  cancelCalled,   \* promises whose cancel() was called
  isAccepted,     \* promises that addTask has put into the list (history)
  children        \* what each caller added with its wait (history)

vars == <<manager, cancelled, status, round, result, cancelCalled, isAccepted, children>>

TypeOK ==
  /\ manager \in Managers(Tasks)
  /\ cancelled \in BOOLEAN
  /\ status \in [Tasks -> {"new", "running", "succeeded", "failed"}]
  /\ round \in [Callers -> {NoWait} \cup SUBSET Tasks]
  /\ result \in [Callers -> Results]
  /\ cancelCalled \subseteq Cancellable
  /\ isAccepted \subseteq Tasks
  /\ children \in [Callers -> SUBSET Tasks]

Running == {t \in Tasks : status[t] = "running"}

Init ==
  /\ manager = NewManager
  /\ cancelled = FALSE
  /\ status = [t \in Tasks |-> "new"]
  /\ round = [c \in Callers |-> NoWait]
  /\ result = [c \in Callers |-> "none"]
  /\ cancelCalled = {}
  /\ isAccepted = {}
  /\ children = [c \in Callers |-> {}]

-----------------------------------------------------------------------------
\* Main gives up on the manager when a wait rejects or is cancelled.
IsActive(c) ==
  /\ round[c] = NoWait
  /\ IF c = Main THEN result[c] \in {"none", "resolved"}
     ELSE status[c] = "running" /\ result[c] # "rejected"

\* The promises S run already when they are handed over; a cancelled manager cancels those it
\* can and forgets them.
Adds(S) ==
  /\ status' = [t \in Tasks |-> IF t \in S THEN "running" ELSE status[t]]
  /\ isAccepted' = IF cancelled THEN isAccepted ELSE isAccepted \cup S

WithAdded(S) == IF cancelled THEN manager ELSE AddTasks(manager, S, Cancellable)

\* cancel() of what a cancelled manager is handed.
RefusedCalls(S) == IF cancelled THEN S \cap Cancellable ELSE {}

AddTask(c, t) ==
  /\ IsActive(c)
  /\ status[t] = "new" /\ t \notin Nesting
  /\ Adds({t})
  /\ manager' = WithAdded({t})
  /\ cancelCalled' = cancelCalled \cup RefusedCalls({t})
  /\ UNCHANGED <<cancelled, round, result, children>>

\* What awaitTasks does next for its caller: give up, throw, return or wait for another round.
Continue(c, m, decision) ==
  /\ result' = [result EXCEPT ![c] = decision]
  /\ round' = [round EXCEPT ![c] = IF decision = "waiting" THEN m.tasks ELSE NoWait]
  /\ manager' = After(m, decision)

\* Mutant: cancel() of every task in the list, whether it has one or not.
CancelCallsOfAllTasks(m, decision) ==
  IF decision \in {"cancelled", "rejected"} THEN m.cancellableTasks \cup m.tasks ELSE {}

\* Mutant: cancelTasks looks for cancellable tasks in the list only.
CancelCallsOfListed(m, decision) ==
  IF decision \in {"cancelled", "rejected"} THEN m.cancellableTasks \cap m.tasks ELSE {}

CancelCallsOf(m, decision) ==
  IF decision \in {"cancelled", "rejected"} THEN m.cancellableTasks ELSE {}

\* awaitTasks, called in the same turn as the tasks S are added (none for a caller that added
\* its tasks before).  A nesting task starts in the turn its manager's owner begins to wait,
\* so it is never in the list that it takes tasks from itself.
AwaitTasks(c, S) ==
  /\ IsActive(c)
  /\ c # Main => c \in Nesting /\ result[c] = "none" /\ S \cap Nesting = {}
  /\ \A t \in S : status[t] = "new"
  /\ LET m == WithAdded(S)
         decision == OnCall(m, cancelled)
     IN /\ Adds(S)
        /\ Continue(c, m, decision)
        /\ cancelCalled' = cancelCalled \cup RefusedCalls(S) \cup CancelCallsOf(m, decision)
  /\ children' = [children EXCEPT ![c] = S]
  /\ UNCHANGED cancelled

\* Promise.all of a round has resolved.
EndRound(c) ==
  /\ round[c] # NoWait
  /\ round[c] \cap Running = {}
  /\ LET decision == OnRoundEnd(manager, cancelled)
     IN /\ Continue(c, manager, decision)
        /\ cancelCalled' = cancelCalled \cup CancelCallsOf(manager, decision)
  /\ UNCHANGED <<cancelled, status, isAccepted, children>>

\* A promise settles; one whose own wait threw fails.
Settle(t, isOk) ==
  /\ status[t] = "running" /\ round[t] = NoWait
  /\ t \in Nesting => result[t] # "none"
  /\ result[t] = "rejected" => ~isOk
  /\ status' = [status EXCEPT ![t] = IF isOk THEN "succeeded" ELSE "failed"]
  /\ manager' = IF t \in isAccepted THEN SettleTask(manager, t, isOk) ELSE manager
  /\ UNCHANGED <<cancelled, round, result, cancelCalled, isAccepted, children>>

\* Somebody cancels the token: SIGINT, or the caller's caller.
CancelToken ==
  /\ ~cancelled
  /\ cancelled' = TRUE
  /\ UNCHANGED <<manager, status, round, result, cancelCalled, isAccepted, children>>

\* cancelTasks, called by the SIGINT handler after it cancelled the token.
CancelAll ==
  /\ cancelled
  /\ manager' = CancelTasks(manager)
  /\ cancelCalled' = cancelCalled \cup manager.cancellableTasks
  /\ UNCHANGED <<cancelled, status, round, result, isAccepted, children>>

\* Everything was added and every wait was answered.
Done ==
  /\ Running = {}
  /\ \A c \in Callers : round[c] = NoWait
  /\ UNCHANGED vars

Next ==
  \/ \E c \in Callers, t \in Tasks : AddTask(c, t)
  \/ \E c \in Callers, S \in SUBSET Tasks : AwaitTasks(c, S)
  \/ \E c \in Callers : EndRound(c)
  \/ \E t \in Tasks, isOk \in BOOLEAN : Settle(t, isOk)
  \/ CancelToken
  \/ CancelAll
  \/ Done

\* Every promise settles: the tasks are child processes, file operations and requests, each with
\* its own end, and a nesting task does reach its wait.  Microtasks run.
Fairness ==
  /\ \A t \in Tasks : WF_vars(\E isOk \in BOOLEAN : Settle(t, isOk))
  /\ \A t \in Nesting : WF_vars(\E S \in SUBSET Tasks : AwaitTasks(t, S))
  /\ \A c \in Callers : WF_vars(EndRound(c))

Spec == Init /\ [][Next]_vars /\ Fairness

-----------------------------------------------------------------------------
(* Properties *)

\* Tasks some round or the list still holds; the other running ones were given up.
Held == manager.tasks \cup UNION {round[c] : c \in {d \in Callers : round[d] # NoWait}}

Group == INSTANCE TaskGroup WITH
  open <- Held \cap Running,
  orphans <- (isAccepted \cap Running) \ Held,
  failed <- manager.errors,
  isCancelled <- cancelled,
  verdict <- result[Main]

\* Whatever tasks add to the manager while it is awaited, its owner's wait keeps the promise of
\* a task group: it returns only when no task runs any more and none has failed.
ImplementsTaskGroup == Group!SafeSpec

\* awaitTasks always answers its owner, although rounds wait for tasks that wait themselves.
OwnerIsAnswered == Group!Answered

\* A task that waits on the manager that waits for it, as copyAppFiles does, goes on normally
\* only when all it added has succeeded, or when the build is cancelled, which it then checks:
\* its awaitTasks may neither miss its own tasks nor let the owner take them away.
NestedWaitCoversChildren ==
  \A c \in Nesting : result[c] = "resolved" =>
    \A t \in children[c] : status[t] = "succeeded"

\* A wait that gives up has called cancel() of every cancellable task that still runs, of those
\* too that the round of another wait has already taken out of the list.
GivingUpCancelsAll ==
  [][ \A c \in Callers :
        result'[c] # result[c] /\ result'[c] \in {"rejected", "cancelled"} =>
          \A t \in isAccepted' \cap Cancellable : status'[t] = "running" => t \in cancelCalled'
    ]_vars
=============================================================================
