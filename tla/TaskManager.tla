----------------------------- MODULE TaskManager -----------------------------
(***************************************************************************)
(* The state of an AsyncTaskManager as a value, and what its methods do to *)
(* it, for the specifications of the manager itself and of its users.      *)
(* Tasks are kept as sets: nothing depends on the order of the arrays but  *)
(* the results, which no caller reads.                                     *)
(***************************************************************************)
EXTENDS FiniteSets

Managers(Task) == [tasks : SUBSET Task, errors : SUBSET Task, cancellableTasks : SUBSET Task]

NewManager == [tasks |-> {}, errors |-> {}, cancellableTasks |-> {}]

\* addTask of promises whose cancel() is in `cancellable`, while the token is not cancelled.
AddTasks(m, S, cancellable) ==
  [tasks |-> m.tasks \cup S, errors |-> m.errors,
   cancellableTasks |-> m.cancellableTasks \cup (S \cap cancellable)]

\* cancelTasks: the list is emptied, the errors stay.
CancelTasks(m) == [tasks |-> {}, errors |-> m.errors, cancellableTasks |-> {}]

\* What the handlers that addTask attaches to a promise do when it settles.
SettleTask(m, t, isOk) ==
  [tasks |-> m.tasks, errors |-> IF isOk THEN m.errors ELSE m.errors \cup {t},
   cancellableTasks |-> m.cancellableTasks \ {t}]

\* Mutant: the round's tasks stay in the list.
TakeTasksByCopy(m) == m

\* awaitTasks takes the tasks of its next round out of the list.
TakeTasks(m) == [tasks |-> {}, errors |-> m.errors, cancellableTasks |-> m.cancellableTasks]

\* How awaitTasks goes on when it is called, and after each round.
OnCall(m, isCancelled) ==
  IF isCancelled THEN "cancelled"
  ELSE IF m.errors # {} THEN "rejected"
  ELSE IF m.tasks = {} THEN "resolved"
  ELSE "waiting"

\* Mutant: a single round, tasks added during it are left in the list.
OnRoundEndOnce(m, isCancelled) == IF m.errors # {} THEN "rejected" ELSE "resolved"

\* Mutant: errors are looked at only when the wait begins.
OnRoundEndWithoutErrors(m, isCancelled) == OnCall([m EXCEPT !.errors = {}], isCancelled)

OnRoundEnd(m, isCancelled) ==
  IF m.errors # {} THEN "rejected"
  ELSE IF m.tasks = {} THEN "resolved"
  ELSE IF isCancelled THEN "cancelled"
  ELSE "waiting"

\* The manager after that decision.
After(m, decision) ==
  IF decision \in {"cancelled", "rejected"} THEN CancelTasks(m) ELSE TakeTasks(m)
==============================================================================
