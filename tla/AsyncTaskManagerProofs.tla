----------------------- MODULE AsyncTaskManagerProofs -----------------------
(***************************************************************************)
(* Proofs about AsyncTaskManager, for any tasks, nesting or not: its types *)
(* and that every step is one of the abstract TaskGroup.                   *)
(***************************************************************************)
EXTENDS AsyncTaskManager, TLAPS

\* Only accepted tasks are held, they have started, and only nesting tasks that run wait.
Bookkeeping ==
  /\ manager.tasks \subseteq isAccepted
  /\ manager.cancellableTasks \subseteq Cancellable
  /\ \A c \in Callers : round[c] # NoWait => round[c] \subseteq isAccepted
  /\ \A t \in isAccepted : status[t] # "new"
  /\ \A t \in Tasks : round[t] # NoWait => t \in Nesting /\ status[t] = "running"

\* A nesting task runs within a round of its owner, or after its owner gave up.
Nested ==
  \A t \in Nesting : status[t] = "running" =>
    \/ round[Main] # NoWait /\ t \in round[Main]
    \/ round[Main] = NoWait /\ result[Main] \in {"rejected", "cancelled"}

\* The inductive invariant.
IInv == TypeOK /\ Bookkeeping /\ Nested

-----------------------------------------------------------------------------
\* The manager's methods keep its type.
LEMMA ManagerTypes ==
  ASSUME NEW m \in Managers(Tasks)
  PROVE  /\ \A S \in SUBSET Tasks : AddTasks(m, S, Cancellable) \in Managers(Tasks)
         /\ CancelTasks(m) \in Managers(Tasks)
         /\ \A t \in Tasks, isOk \in BOOLEAN : SettleTask(m, t, isOk) \in Managers(Tasks)
         /\ TakeTasks(m) \in Managers(Tasks)
         /\ \A d \in Results : After(m, d) \in Managers(Tasks)
  <1>1. m = [tasks |-> m.tasks, errors |-> m.errors, cancellableTasks |-> m.cancellableTasks]
        /\ m.tasks \in SUBSET Tasks /\ m.errors \in SUBSET Tasks
        /\ m.cancellableTasks \in SUBSET Tasks
    BY DEF Managers
  <1>2. \A S \in SUBSET Tasks : AddTasks(m, S, Cancellable) \in Managers(Tasks)
    BY <1>1 DEF Managers, AddTasks
  <1>3. CancelTasks(m) \in Managers(Tasks) /\ TakeTasks(m) \in Managers(Tasks)
    BY <1>1 DEF Managers, CancelTasks, TakeTasks
  <1>4. \A t \in Tasks, isOk \in BOOLEAN : SettleTask(m, t, isOk) \in Managers(Tasks)
    BY <1>1 DEF Managers, SettleTask
  <1>5. QED
    BY <1>2, <1>3, <1>4 DEF After

\* The manager's methods, field by field.
LEMMA ManagerFields ==
  ASSUME NEW m \in Managers(Tasks)
  PROVE  /\ \A S \in SUBSET Tasks :
              /\ AddTasks(m, S, Cancellable).tasks = m.tasks \cup S
              /\ AddTasks(m, S, Cancellable).errors = m.errors
              /\ AddTasks(m, S, Cancellable).cancellableTasks =
                   m.cancellableTasks \cup (S \cap Cancellable)
         /\ \A d \in Results :
              /\ After(m, d).tasks = {} /\ After(m, d).errors = m.errors
              /\ After(m, d).cancellableTasks \subseteq m.cancellableTasks
         /\ CancelTasks(m).tasks = {} /\ CancelTasks(m).errors = m.errors
         /\ CancelTasks(m).cancellableTasks = {}
         /\ \A t \in Tasks, isOk \in BOOLEAN :
              /\ SettleTask(m, t, isOk).tasks = m.tasks
              /\ SettleTask(m, t, isOk).cancellableTasks \subseteq m.cancellableTasks
              /\ SettleTask(m, t, isOk).errors = IF isOk THEN m.errors ELSE m.errors \cup {t}
  BY DEF Managers, AddTasks, After, CancelTasks, TakeTasks, SettleTask

\* What awaitTasks decides, and what each decision presupposes.
LEMMA Decisions ==
  ASSUME NEW m, NEW b \in BOOLEAN
  PROVE  /\ OnCall(m, b) \in Results /\ OnRoundEnd(m, b) \in Results
         /\ OnCall(m, b) = "resolved" => ~b /\ m.errors = {} /\ m.tasks = {}
         /\ OnCall(m, b) = "waiting" => ~b
         /\ OnCall(m, b) = "rejected" => ~b /\ m.errors # {}
         /\ OnCall(m, b) = "cancelled" => b
         /\ OnRoundEnd(m, b) = "resolved" => m.errors = {} /\ m.tasks = {}
         /\ OnRoundEnd(m, b) = "rejected" => m.errors # {}
         /\ OnRoundEnd(m, b) = "cancelled" => b
         /\ {OnCall(m, b), OnRoundEnd(m, b)} \subseteq
              {"waiting", "resolved", "rejected", "cancelled"}
  BY DEF OnCall, OnRoundEnd, Results

-----------------------------------------------------------------------------
\* What handing tasks over does to the promises and to the list.
LEMMA AddsSteps ==
  ASSUME TypeOK, Bookkeeping, NEW S \in SUBSET Tasks, \A t \in S : status[t] = "new", Adds(S)
  PROVE  /\ status' \in [Tasks -> {"new", "running", "succeeded", "failed"}]
         /\ isAccepted' \in SUBSET Tasks
         /\ isAccepted \subseteq isAccepted'
         /\ \A t \in isAccepted' : status'[t] # "new"
         /\ \A t \in Tasks : status[t] # "new" => status'[t] = status[t]
         /\ \A t \in S : status'[t] = "running"
         /\ \A t \in Tasks \ S : status'[t] = status[t]
         /\ WithAdded(S) \in Managers(Tasks)
         /\ WithAdded(S).tasks \subseteq isAccepted'
         /\ WithAdded(S).errors = manager.errors
         /\ WithAdded(S).cancellableTasks \subseteq Cancellable
         /\ ~cancelled => isAccepted' = isAccepted \cup S
                            /\ WithAdded(S).tasks = manager.tasks \cup S
         /\ cancelled => isAccepted' = isAccepted /\ WithAdded(S) = manager
  <1>1. manager \in Managers(Tasks) /\ cancelled \in BOOLEAN
    BY DEF TypeOK
  <1>2. AddTasks(manager, S, Cancellable) \in Managers(Tasks)
    BY <1>1, ManagerTypes
  <1>3. AddTasks(manager, S, Cancellable).tasks = manager.tasks \cup S
        /\ AddTasks(manager, S, Cancellable).errors = manager.errors
        /\ AddTasks(manager, S, Cancellable).cancellableTasks =
             manager.cancellableTasks \cup (S \cap Cancellable)
    BY <1>1, ManagerFields
  <1>4. status' \in [Tasks -> {"new", "running", "succeeded", "failed"}]
    BY DEF Adds, TypeOK
  <1>5. \A t \in S : status'[t] = "running"
    BY DEF Adds
  <1>6. \A t \in Tasks \ S : status'[t] = status[t]
    BY DEF Adds
  <1>7. \A t \in Tasks : status[t] # "new" => status'[t] = status[t]
    BY <1>6
  <1>8. isAccepted' = IF cancelled THEN isAccepted ELSE isAccepted \cup S
    BY DEF Adds
  <1>9. \A t \in isAccepted' : status'[t] # "new"
    BY <1>5, <1>7, <1>8 DEF TypeOK, Bookkeeping
  <1>10. QED
    BY <1>1, <1>2, <1>3, <1>4, <1>5, <1>6, <1>7, <1>8, <1>9 DEF WithAdded, TypeOK, Bookkeeping

\* What a wait that goes on does to rounds and results.
LEMMA ContinueSteps ==
  ASSUME TypeOK, NEW c \in Callers, NEW m \in Managers(Tasks), NEW d \in Results, Continue(c, m, d)
  PROVE  /\ manager' \in Managers(Tasks)
         /\ manager'.tasks = {} /\ manager'.errors = m.errors
         /\ manager'.cancellableTasks \subseteq m.cancellableTasks
         /\ round' \in [Callers -> {NoWait} \cup SUBSET Tasks]
         /\ result' \in [Callers -> Results]
         /\ \A e \in Callers \ {c} : round'[e] = round[e] /\ result'[e] = result[e]
         /\ result'[c] = d
         /\ round'[c] = IF d = "waiting" THEN m.tasks ELSE NoWait
  <1>1. m.tasks \in SUBSET Tasks
    BY DEF Managers
  <1>2. /\ manager' \in Managers(Tasks)
        /\ manager'.tasks = {} /\ manager'.errors = m.errors
        /\ manager'.cancellableTasks \subseteq m.cancellableTasks
    BY ManagerTypes, ManagerFields DEF Continue
  <1>3. QED
    BY <1>1, <1>2 DEF Continue, TypeOK

\* A caller that does not wait is told from one that waits for nothing.
LEMMA NoWaitIsNoSet == NoWait \notin SUBSET Tasks
  BY MainAssumption

\* What awaitTasks decides on when it is called.
LEMMA AwaitSteps ==
  ASSUME IInv, NEW c \in Callers, NEW S \in SUBSET Tasks, AwaitTasks(c, S)
  PROVE  \E m \in Managers(Tasks), d \in Results :
           /\ m = WithAdded(S) /\ d = OnCall(m, cancelled)
           /\ Adds(S) /\ Continue(c, m, d)
           /\ m.tasks \subseteq isAccepted' /\ m.errors = manager.errors
           /\ m.cancellableTasks \subseteq Cancellable
  <1>1. Adds(S) /\ \A t \in S : status[t] = "new"
    BY DEF AwaitTasks
  <1>2. WithAdded(S) \in Managers(Tasks) /\ WithAdded(S).tasks \subseteq isAccepted'
        /\ WithAdded(S).errors = manager.errors /\ WithAdded(S).cancellableTasks \subseteq Cancellable
    BY <1>1, AddsSteps DEF IInv
  <1>3. OnCall(WithAdded(S), cancelled) \in Results
    BY Decisions DEF IInv, TypeOK
  <1>4. Continue(c, WithAdded(S), OnCall(WithAdded(S), cancelled))
    BY DEF AwaitTasks
  <1>5. QED
    BY <1>1, <1>2, <1>3, <1>4

-----------------------------------------------------------------------------
\* Every step keeps the types.
LEMMA NextTypeOK ==
  ASSUME IInv, [Next]_vars
  PROVE  TypeOK'
  <1>0. TypeOK /\ Bookkeeping
    BY DEF IInv
  <1>1. ASSUME NEW c \in Callers, NEW t \in Tasks, AddTask(c, t)
        PROVE  TypeOK'
    <2>1. Adds({t}) /\ \A u \in {t} : status[u] = "new"
      BY <1>1 DEF AddTask
    <2>2. manager' \in Managers(Tasks)
      BY <1>0, <1>1, <2>1, AddsSteps DEF AddTask
    <2>3. status' \in [Tasks -> {"new", "running", "succeeded", "failed"}] /\ isAccepted' \in SUBSET Tasks
      BY <1>0, <2>1, AddsSteps
    <2>4. cancelCalled' \subseteq Cancellable
      BY <1>0, <1>1 DEF AddTask, RefusedCalls, TypeOK
    <2>5. QED
      BY <1>0, <1>1, <2>2, <2>3, <2>4 DEF AddTask, TypeOK
  <1>2. ASSUME NEW c \in Callers, NEW S \in SUBSET Tasks, AwaitTasks(c, S)
        PROVE  TypeOK'
    <2>1. PICK m \in Managers(Tasks), d \in Results :
            /\ m = WithAdded(S) /\ d = OnCall(m, cancelled)
            /\ Adds(S) /\ Continue(c, m, d)
            /\ m.cancellableTasks \subseteq Cancellable
      BY <1>2, AwaitSteps
    <2>2. status' \in [Tasks -> {"new", "running", "succeeded", "failed"}] /\ isAccepted' \in SUBSET Tasks
      BY <1>0, <1>2, <2>1, AddsSteps DEF AwaitTasks
    <2>3. /\ manager' \in Managers(Tasks)
          /\ round' \in [Callers -> {NoWait} \cup SUBSET Tasks]
          /\ result' \in [Callers -> Results]
      BY <1>0, <2>1, ContinueSteps
    <2>4. cancelCalled' \subseteq Cancellable
      BY <1>0, <1>2, <2>1 DEF AwaitTasks, RefusedCalls, CancelCallsOf, TypeOK
    <2>5. children' \in [Callers -> SUBSET Tasks] /\ cancelled' \in BOOLEAN
      BY <1>0, <1>2 DEF AwaitTasks, TypeOK
    <2>6. QED
      BY <2>2, <2>3, <2>4, <2>5 DEF TypeOK
  <1>3. ASSUME NEW c \in Callers, EndRound(c)
        PROVE  TypeOK'
    <2>1. OnRoundEnd(manager, cancelled) \in Results /\ manager \in Managers(Tasks)
      BY <1>0, Decisions DEF TypeOK
    <2>2. /\ manager' \in Managers(Tasks)
          /\ round' \in [Callers -> {NoWait} \cup SUBSET Tasks]
          /\ result' \in [Callers -> Results]
      BY <1>0, <1>3, <2>1, ContinueSteps DEF EndRound
    <2>3. cancelCalled' \subseteq Cancellable
      BY <1>0, <1>3 DEF EndRound, CancelCallsOf, TypeOK, Bookkeeping
    <2>4. QED
      BY <1>0, <1>3, <2>2, <2>3 DEF EndRound, TypeOK
  <1>4. ASSUME NEW t \in Tasks, NEW isOk \in BOOLEAN, Settle(t, isOk)
        PROVE  TypeOK'
    <2>1. manager' \in Managers(Tasks)
      BY <1>0, <1>4, ManagerTypes DEF Settle, TypeOK
    <2>2. QED
      BY <1>0, <1>4, <2>1 DEF Settle, TypeOK
  <1>5. CASE CancelToken
    BY <1>0, <1>5 DEF CancelToken, TypeOK
  <1>6. CASE CancelAll
    <2>1. manager' \in Managers(Tasks)
      BY <1>0, <1>6, ManagerTypes DEF CancelAll, TypeOK
    <2>2. QED
      BY <1>0, <1>6, <2>1 DEF CancelAll, TypeOK, Bookkeeping
  <1>7. CASE UNCHANGED vars
    BY <1>0, <1>7 DEF vars, TypeOK
  <1>8. QED
    BY <1>1, <1>2, <1>3, <1>4, <1>5, <1>6, <1>7 DEF Next, Done

\* Every step keeps the bookkeeping.
LEMMA NextBookkeeping ==
  ASSUME IInv, [Next]_vars
  PROVE  Bookkeeping'
  <1>0. TypeOK /\ Bookkeeping
    BY DEF IInv
  <1>1. ASSUME NEW c \in Callers, NEW t \in Tasks, AddTask(c, t)
        PROVE  Bookkeeping'
    <2>1. Adds({t}) /\ (\A u \in {t} : status[u] = "new") /\ manager' = WithAdded({t}) /\ round' = round
      BY <1>1 DEF AddTask
    <2>2. QED
      BY <1>0, <2>1, AddsSteps DEF Bookkeeping, TypeOK
  <1>2. ASSUME NEW c \in Callers, NEW S \in SUBSET Tasks, AwaitTasks(c, S)
        PROVE  Bookkeeping'
    <2>1. PICK m \in Managers(Tasks), d \in Results :
            /\ m = WithAdded(S) /\ d = OnCall(m, cancelled)
            /\ Adds(S) /\ Continue(c, m, d)
            /\ m.tasks \subseteq isAccepted'
            /\ m.cancellableTasks \subseteq Cancellable
      BY <1>2, AwaitSteps
    <2>2. (\A t \in S : status[t] = "new") /\ (c # Main => c \in Nesting /\ status[c] = "running")
      BY <1>2 DEF AwaitTasks, IsActive
    <2>3. /\ isAccepted \subseteq isAccepted' /\ \A t \in isAccepted' : status'[t] # "new"
          /\ \A t \in Tasks : status[t] # "new" => status'[t] = status[t]
      BY <1>0, <2>1, <2>2, AddsSteps
    <2>4. /\ manager'.tasks = {} /\ manager'.cancellableTasks \subseteq m.cancellableTasks
          /\ \A e \in Callers \ {c} : round'[e] = round[e]
          /\ round'[c] = IF d = "waiting" THEN m.tasks ELSE NoWait
      BY <1>0, <2>1, ContinueSteps
    <2>5. \A e \in Callers : round'[e] # NoWait => round'[e] \subseteq isAccepted'
      BY <1>0, <2>1, <2>3, <2>4 DEF Bookkeeping
    <2>6. \A t \in Tasks : round'[t] # NoWait => t \in Nesting /\ status'[t] = "running"
      BY <1>0, <2>2, <2>3, <2>4, MainAssumption DEF Bookkeeping, Callers
    <2>7. QED
      BY <2>1, <2>3, <2>4, <2>5, <2>6 DEF Bookkeeping
  <1>3. ASSUME NEW c \in Callers, EndRound(c)
        PROVE  Bookkeeping'
    <2>1. OnRoundEnd(manager, cancelled) \in Results /\ manager \in Managers(Tasks)
      BY <1>0, Decisions DEF TypeOK
    <2>2. /\ manager'.tasks = {} /\ manager'.cancellableTasks \subseteq manager.cancellableTasks
          /\ \A e \in Callers \ {c} : round'[e] = round[e]
          /\ round'[c] \in {manager.tasks, NoWait}
      BY <1>0, <1>3, <2>1, ContinueSteps DEF EndRound
    <2>3. QED
      BY <1>0, <1>3, <2>2, MainAssumption DEF Bookkeeping, EndRound, Callers
  <1>4. ASSUME NEW t \in Tasks, NEW isOk \in BOOLEAN, Settle(t, isOk)
        PROVE  Bookkeeping'
    <2>1. manager'.tasks = manager.tasks /\ manager'.cancellableTasks \subseteq manager.cancellableTasks
      <3>1. manager \in Managers(Tasks) /\ manager' \in {SettleTask(manager, t, isOk), manager}
        BY <1>0, <1>4 DEF Settle, TypeOK
      <3>2. SettleTask(manager, t, isOk).tasks = manager.tasks
            /\ SettleTask(manager, t, isOk).cancellableTasks \subseteq manager.cancellableTasks
        BY DEF SettleTask
      <3>3. QED
        BY <3>1, <3>2
    <2>2. QED
      BY <1>0, <1>4, <2>1 DEF Settle, Bookkeeping, TypeOK
  <1>5. CASE CancelToken
    BY <1>0, <1>5 DEF CancelToken, Bookkeeping
  <1>6. CASE CancelAll
    <2>1. manager'.tasks = {} /\ manager'.cancellableTasks = {}
      BY <1>0, <1>6, ManagerFields DEF CancelAll, TypeOK
    <2>2. QED
      BY <1>0, <1>6, <2>1 DEF CancelAll, Bookkeeping
  <1>7. CASE UNCHANGED vars
    BY <1>0, <1>7 DEF vars, Bookkeeping
  <1>8. QED
    BY <1>1, <1>2, <1>3, <1>4, <1>5, <1>6, <1>7 DEF Next, Done

\* Nesting tasks stay within their owner's round until it gives up.
LEMMA NextNested ==
  ASSUME IInv, [Next]_vars
  PROVE  Nested'
  <1>0. TypeOK /\ Bookkeeping /\ Nested
    BY DEF IInv
  <1>m. Main \in Callers /\ Nesting \subseteq Tasks /\ Main \notin Tasks
    BY MainAssumption, TasksAssumption DEF Callers
  <1>1. ASSUME NEW c \in Callers, NEW t \in Tasks, AddTask(c, t)
        PROVE  Nested'
    <2>1. round' = round /\ result' = result /\ \A u \in Nesting : status'[u] = status[u]
      BY <1>0, <1>1, <1>m DEF AddTask, Adds, TypeOK
    <2>2. QED
      BY <1>0, <2>1 DEF Nested
  <1>2. ASSUME NEW c \in Callers, NEW S \in SUBSET Tasks, AwaitTasks(c, S)
        PROVE  Nested'
    <2>1. PICK m \in Managers(Tasks), d \in Results :
            /\ m = WithAdded(S) /\ d = OnCall(m, cancelled)
            /\ Adds(S) /\ Continue(c, m, d)
      BY <1>2, AwaitSteps
    <2>2. \A t \in S : status[t] = "new"
      BY <1>2 DEF AwaitTasks
    <2>3. /\ \A t \in Tasks \ S : status'[t] = status[t]
          /\ ~cancelled => m.tasks = manager.tasks \cup S
      BY <1>0, <2>1, <2>2, AddsSteps
    <2>4. /\ \A e \in Callers \ {c} : round'[e] = round[e] /\ result'[e] = result[e]
          /\ result'[c] = d
          /\ round'[c] = IF d = "waiting" THEN m.tasks ELSE NoWait
          /\ m.tasks \in SUBSET Tasks
      BY <1>0, <2>1, ContinueSteps DEF Managers
    <2>5. CASE c = Main
      <3>1. round[Main] = NoWait /\ result[Main] \in {"none", "resolved"}
        BY <1>2, <2>5 DEF AwaitTasks, IsActive
      <3>2. \A t \in Nesting : status[t] # "running"
        BY <1>0, <3>1 DEF Nested
      <3>3. \A t \in Nesting : status'[t] = "running" => t \in S
        BY <1>m, <2>3, <3>2
      <3>4. d \in {"waiting", "resolved", "rejected", "cancelled"}
        BY <1>0, <2>1, Decisions DEF TypeOK
      <3>5. CASE d = "waiting"
        BY <1>0, <2>1, <2>3, <2>4, <2>5, <3>3, <3>5, Decisions, NoWaitIsNoSet DEF Nested, TypeOK
      <3>6. CASE d = "resolved"
        <4>1. S = {}
          BY <1>0, <2>1, <2>3, <3>6, Decisions DEF TypeOK
        <4>2. QED
          BY <3>3, <4>1 DEF Nested
      <3>7. CASE d \in {"rejected", "cancelled"}
        BY <2>4, <2>5, <3>7 DEF Nested
      <3>8. QED
        BY <3>4, <3>5, <3>6, <3>7
    <2>6. CASE c # Main
      <3>1. S \cap Nesting = {}
        BY <1>2, <2>6 DEF AwaitTasks
      <3>2. round'[Main] = round[Main] /\ result'[Main] = result[Main]
        BY <1>m, <2>4, <2>6
      <3>3. QED
        BY <1>0, <1>m, <2>3, <3>1, <3>2 DEF Nested
    <2>7. QED
      BY <2>5, <2>6
  <1>3. ASSUME NEW c \in Callers, EndRound(c)
        PROVE  Nested'
    <2>1. OnRoundEnd(manager, cancelled) \in Results /\ manager \in Managers(Tasks)
      BY <1>0, Decisions DEF TypeOK
    <2>2. \A e \in Callers \ {c} : round'[e] = round[e] /\ result'[e] = result[e]
      BY <1>0, <1>3, <2>1, ContinueSteps DEF EndRound
    <2>3. status' = status
      BY <1>3 DEF EndRound
    <2>4. CASE c = Main
      BY <1>0, <1>3, <1>m, <2>3, <2>4 DEF Nested, EndRound, Running
    <2>5. CASE c # Main
      BY <1>0, <1>m, <2>2, <2>3, <2>5 DEF Nested
    <2>6. QED
      BY <2>4, <2>5
  <1>4. ASSUME NEW t \in Tasks, NEW isOk \in BOOLEAN, Settle(t, isOk)
        PROVE  Nested'
    <2>1. /\ \A u \in Nesting : status'[u] = "running" => status[u] = "running"
          /\ round' = round /\ result' = result
      BY <1>0, <1>4, <1>m DEF Settle, TypeOK
    <2>2. QED
      BY <1>0, <2>1 DEF Nested
  <1>5. CASE CancelToken
    BY <1>0, <1>5 DEF CancelToken, Nested
  <1>6. CASE CancelAll
    BY <1>0, <1>6 DEF CancelAll, Nested
  <1>7. CASE UNCHANGED vars
    BY <1>0, <1>7 DEF vars, Nested
  <1>8. QED
    BY <1>1, <1>2, <1>3, <1>4, <1>5, <1>6, <1>7 DEF Next, Done

\* Initially nothing was added.
LEMMA InitIInv == Init => IInv
  <1> SUFFICES ASSUME Init PROVE IInv
    OBVIOUS
  <1>1. NewManager \in Managers(Tasks) /\ NewManager.tasks = {} /\ NewManager.cancellableTasks = {}
    BY DEF NewManager, Managers
  <1>2. TypeOK
    BY <1>1 DEF Init, TypeOK, Results, Callers
  <1>3. Bookkeeping /\ Nested
    BY <1>1, TasksAssumption DEF Init, Bookkeeping, Nested, Callers
  <1>4. QED
    BY <1>2, <1>3 DEF IInv

\* Every reachable state satisfies the inductive invariant.
THEOREM Invariance == Spec => []IInv
  <1>1. IInv /\ [Next]_vars => IInv'
    BY NextTypeOK, NextBookkeeping, NextNested DEF IInv
  <1>2. QED
    BY InitIInv, <1>1, PTL DEF Spec

\* Type correctness, for any tasks.
THEOREM TypeCorrect == Spec => []TypeOK
  <1>1. IInv => TypeOK
    BY DEF IInv
  <1>2. QED
    BY Invariance, <1>1, PTL

-----------------------------------------------------------------------------
(* The refinement *)

\* Only accepted tasks are held.
LEMMA HeldIsAccepted ==
  ASSUME IInv
  PROVE  Held \subseteq isAccepted
  BY DEF IInv, Bookkeeping, Held

\* Steps that accept the new tasks S and hold on to some of the tasks move them as a group does.
LEMMA StepMoves ==
  ASSUME IInv, NEW S \in SUBSET Tasks, \A t \in S : status[t] = "new",
         Running' = Running \cup S, isAccepted' = isAccepted \cup S, Held' \subseteq Held \cup S
  PROVE  \E X \in SUBSET Tasks : Group!Moves(S, X)
  <1>1. Held \subseteq isAccepted /\ S \cap Running = {} /\ S \cap isAccepted = {}
    BY HeldIsAccepted DEF IInv, Bookkeeping, Running
  <1>2. Running \subseteq Tasks
    BY DEF Running
  <1> DEFINE X == ((Held \cap Running) \cup S) \ Held'
  <1>3. X \in SUBSET Tasks
    BY <1>2
  <1>4. (Held \cap Running)' = ((Held \cap Running) \cup S) \ X
    BY <1>1
  <1>5. ((isAccepted \cap Running) \ Held)' = ((isAccepted \cap Running) \ Held) \cup X
    BY <1>1
  <1>6. Group!Moves(S, X)
    BY <1>1, <1>4, <1>5 DEF Group!Moves
  <1>7. QED
    BY <1>3, <1>6

\* Steps that give nothing up.
LEMMA StepKeeps ==
  ASSUME IInv, NEW S \in SUBSET Tasks, \A t \in S : status[t] = "new",
         Running' = Running \cup S, isAccepted' = isAccepted \cup S,
         Held' \cap Running' = (Held \cap Running) \cup S
  PROVE  Group!Moves(S, {})
  <1>1. Held \subseteq isAccepted /\ S \cap Running = {} /\ S \cap isAccepted = {}
    BY HeldIsAccepted DEF IInv, Bookkeeping, Running
  <1>2. ((isAccepted \cap Running) \ Held)' = (isAccepted \cap Running) \ Held
    BY <1>1
  <1>3. QED
    BY <1>1, <1>2 DEF Group!Moves

\* What handing over new tasks does to the running ones.
LEMMA AddsRunning ==
  ASSUME TypeOK, NEW S \in SUBSET Tasks, \A t \in S : status[t] = "new", Adds(S)
  PROVE  Running' = Running \cup S
  BY DEF TypeOK, Adds, Running

\* Tasks handed to a cancelled manager do not concern the group.
LEMMA RefusedKeeps ==
  ASSUME IInv, NEW S \in SUBSET Tasks, \A t \in S : status[t] = "new",
         Running' = Running \cup S, isAccepted' = isAccepted, Held' \subseteq Held
  PROVE  /\ \E X \in SUBSET Tasks : Group!Moves({}, X)
         /\ Held' = Held => (Held \cap Running)' = Held \cap Running
                            /\ ((isAccepted \cap Running) \ Held)' = (isAccepted \cap Running) \ Held
  <1>1. Held \subseteq isAccepted /\ S \cap Running = {} /\ S \cap isAccepted = {}
    BY HeldIsAccepted DEF IInv, Bookkeeping, Running
  <1>2. Running \subseteq Tasks
    BY DEF Running
  <1> DEFINE X == (Held \cap Running) \ Held'
  <1>3. X \in SUBSET Tasks
    BY <1>2
  <1>4. (Held \cap Running)' = ((Held \cap Running) \cup {}) \ X
    BY <1>1
  <1>5. ((isAccepted \cap Running) \ Held)' = ((isAccepted \cap Running) \ Held) \cup X
    BY <1>1
  <1>6. Group!Moves({}, X)
    BY <1>4, <1>5 DEF Group!Moves
  <1>7. QED
    BY <1>1, <1>3, <1>6

\* addTask implements Accept, or nothing when the manager is cancelled.
LEMMA AddTaskImplements ==
  ASSUME IInv, NEW c \in Callers, NEW t \in Tasks, AddTask(c, t)
  PROVE  [Group!Next]_(Group!vars)
  <1>0. TypeOK /\ Bookkeeping
    BY DEF IInv
  <1>1. Adds({t}) /\ (\A u \in {t} : status[u] = "new") /\ manager' = WithAdded({t})
        /\ round' = round /\ result' = result /\ cancelled' = cancelled
    BY DEF AddTask
  <1>2. Running' = Running \cup {t} /\ manager'.errors = manager.errors
    BY <1>0, <1>1, AddsRunning, AddsSteps
  <1>3. CASE cancelled
    <2>1. isAccepted' = isAccepted /\ Held' = Held
      BY <1>0, <1>1, <1>3, AddsSteps DEF Held
    <2>2. UNCHANGED Group!vars
      BY <1>1, <1>2, <2>1, RefusedKeeps DEF Group!vars
    <2>3. QED
      BY <2>2
  <1>4. CASE ~cancelled
    <2>1. isAccepted' = isAccepted \cup {t} /\ manager'.tasks = manager.tasks \cup {t}
      BY <1>0, <1>1, <1>4, AddsSteps
    <2>2. Held' = Held \cup {t}
      BY <1>1, <2>1 DEF Held
    <2>3. Group!Moves({t}, {})
      BY <1>1, <1>2, <2>1, <2>2, StepKeeps DEF Running
    <2>4. Group!Accept
      BY <1>1, <1>2, <2>3 DEF Group!Accept
    <2>5. QED
      BY <2>4 DEF Group!Next
  <1>5. QED
    BY <1>3, <1>4

\* What a wait that goes on leaves held.
LEMMA ContinueHeld ==
  ASSUME TypeOK, NEW c \in Callers, NEW m \in Managers(Tasks), NEW d \in Results,
         Continue(c, m, d)
  PROVE  /\ d # "waiting" => Held' \subseteq Held
         /\ Held' \subseteq Held \cup m.tasks
         /\ \A t \in m.tasks : d = "waiting" => t \in Held'
         /\ \A e \in Callers \ {c} : round[e] # NoWait => round[e] \subseteq Held'
  <1>1. /\ manager'.tasks = {}
        /\ \A e \in Callers \ {c} : round'[e] = round[e]
        /\ round'[c] = IF d = "waiting" THEN m.tasks ELSE NoWait
        /\ m.tasks \in SUBSET Tasks
    BY ContinueSteps DEF Managers
  <1>2. QED
    BY <1>1, NoWaitIsNoSet DEF Held

\* awaitTasks implements Ask, or its answer when it does not wait; called by a task, it accepts or
\* gives up what it finds.
LEMMA AwaitTasksImplements ==
  ASSUME IInv, NEW c \in Callers, NEW S \in SUBSET Tasks, AwaitTasks(c, S)
  PROVE  [Group!Next]_(Group!vars)
  <1>0. TypeOK /\ Bookkeeping /\ Nested /\ Main \in Callers
    BY DEF IInv, Callers
  <1>1. PICK m \in Managers(Tasks), d \in Results :
          /\ m = WithAdded(S) /\ d = OnCall(m, cancelled)
          /\ Adds(S) /\ Continue(c, m, d)
          /\ m.errors = manager.errors
    BY AwaitSteps
  <1>2. (\A t \in S : status[t] = "new") /\ cancelled' = cancelled /\ round[c] = NoWait
    BY DEF AwaitTasks, IsActive
  <1>3. Running' = Running \cup S
    BY <1>0, <1>1, <1>2, AddsRunning
  <1>4. /\ manager'.errors = manager.errors /\ result'[c] = d
        /\ c # Main => result'[Main] = result[Main]
    BY <1>0, <1>1, ContinueSteps
  <1>5. /\ ~cancelled => isAccepted' = isAccepted \cup S /\ m.tasks = manager.tasks \cup S
        /\ cancelled => isAccepted' = isAccepted /\ m.tasks = manager.tasks
    BY <1>0, <1>1, <1>2, AddsSteps
  <1>6. manager.tasks \subseteq Held
    BY DEF Held
  <1>7. CASE d = "cancelled"
    <2>1. cancelled /\ Held' \subseteq Held
      BY <1>0, <1>1, <1>7, Decisions, ContinueHeld DEF TypeOK
    <2>2. \E X \in SUBSET Tasks : Group!Moves({}, X)
      BY <1>2, <1>3, <1>5, <2>1, RefusedKeeps
    <2>3. CASE c = Main
      <3>1. Group!GiveUp
        BY <1>2, <1>4, <1>7, <2>1, <2>2, <2>3 DEF Group!GiveUp
      <3>2. QED
        BY <3>1 DEF Group!Next
    <2>4. CASE c # Main
      <3>1. Group!Abandon
        BY <1>2, <1>4, <2>1, <2>2, <2>4 DEF Group!Abandon
      <3>2. QED
        BY <3>1 DEF Group!Next
    <2>5. QED
      BY <2>3, <2>4
  <1>8. CASE d = "rejected"
    <2>1. ~cancelled /\ manager.errors # {} /\ Held' \subseteq Held \cup S
      BY <1>0, <1>1, <1>8, Decisions, ContinueHeld DEF TypeOK
    <2>2. \E X \in SUBSET Tasks : Group!Moves(S, X)
      BY <1>2, <1>3, <1>5, <2>1, StepMoves
    <2>3. CASE c = Main
      <3>1. Group!Reject
        BY <1>2, <1>4, <1>8, <2>1, <2>2, <2>3 DEF Group!Reject
      <3>2. QED
        BY <3>1 DEF Group!Next
    <2>4. CASE c # Main
      <3>1. Group!Abandon
        BY <1>2, <1>4, <2>1, <2>2, <2>4 DEF Group!Abandon
      <3>2. QED
        BY <3>1 DEF Group!Next
    <2>5. QED
      BY <2>3, <2>4
  <1>9. CASE d = "waiting"
    <2>1. ~cancelled /\ Held' \subseteq Held \cup m.tasks
      BY <1>0, <1>1, <1>9, Decisions, ContinueHeld DEF TypeOK
    <2>2. Held \cup S \subseteq Held'
      <3>1. \A e \in Callers \ {c} : round[e] # NoWait => round[e] \subseteq Held'
        BY <1>0, <1>1, ContinueHeld
      <3>2. \A t \in m.tasks : t \in Held'
        BY <1>0, <1>1, <1>9, ContinueHeld
      <3>3. QED
        BY <1>2, <1>5, <2>1, <3>1, <3>2 DEF Held
    <2>3. Held' = Held \cup S
      BY <1>5, <1>6, <2>1, <2>2
    <2>4. Group!Moves(S, {})
      BY <1>2, <1>3, <1>5, <2>1, <2>3, StepKeeps DEF Running
    <2>5. CASE c = Main
      <3>1. Group!Ask
        BY <1>2, <1>4, <1>9, <2>4, <2>5 DEF Group!Ask
      <3>2. QED
        BY <3>1 DEF Group!Next
    <2>6. CASE c # Main
      <3>1. Group!Accept
        BY <1>2, <1>4, <2>4, <2>6 DEF Group!Accept
      <3>2. QED
        BY <3>1 DEF Group!Next
    <2>7. QED
      BY <2>5, <2>6
  <1>10. CASE d = "resolved"
    <2>1. ~cancelled /\ manager.errors = {} /\ m.tasks = {} /\ Held' \subseteq Held
      BY <1>0, <1>1, <1>10, Decisions, ContinueHeld DEF TypeOK
    <2>2. S = {} /\ manager.tasks = {}
      BY <1>5, <2>1
    <2>3. Held \subseteq Held'
      <3>1. \A e \in Callers \ {c} : round[e] # NoWait => round[e] \subseteq Held'
        BY <1>0, <1>1, ContinueHeld
      <3>2. QED
        BY <1>2, <2>2, <3>1 DEF Held
    <2>4. UNCHANGED <<Held \cap Running, (isAccepted \cap Running) \ Held>>
      BY <1>3, <1>5, <2>1, <2>2, <2>3
    <2>5. CASE c = Main
      <3>1. \A t \in Tasks : round[t] = NoWait
        BY <1>0, <2>5 DEF Nested, Bookkeeping, AwaitTasks, IsActive
      <3>2. Held = {}
        BY <1>2, <2>2, <2>5, <3>1 DEF Held, Callers
      <3>3. Group!Resolve
        BY <1>2, <1>4, <1>10, <2>1, <2>4, <2>5, <3>2 DEF Group!Resolve
      <3>4. QED
        BY <3>3 DEF Group!Next
    <2>6. CASE c # Main
      BY <1>2, <1>4, <2>4, <2>6 DEF Group!vars
    <2>7. QED
      BY <2>5, <2>6
  <1>11. QED
    BY <1>0, <1>1, <1>7, <1>8, <1>9, <1>10, Decisions DEF Results, TypeOK

\* The end of a round implements an answer or the next question.
LEMMA EndRoundImplements ==
  ASSUME IInv, NEW c \in Callers, EndRound(c)
  PROVE  [Group!Next]_(Group!vars)
  <1> DEFINE d == OnRoundEnd(manager, cancelled)
  <1>0. TypeOK /\ Bookkeeping /\ Nested /\ manager \in Managers(Tasks) /\ d \in Results
    BY Decisions DEF IInv, TypeOK
  <1>1. /\ Continue(c, manager, d)
        /\ cancelled' = cancelled /\ status' = status /\ isAccepted' = isAccepted
        /\ round[c] # NoWait /\ round[c] \cap Running = {}
    BY DEF EndRound
  <1>2. Running' = Running
    BY <1>1 DEF Running
  <1>3. /\ manager'.errors = manager.errors /\ result'[c] = d
        /\ c # Main => result'[Main] = result[Main]
    BY <1>0, <1>1, ContinueSteps DEF Callers
  <1>4. manager.tasks \subseteq Held
    BY DEF Held
  <1>5. Held' \subseteq Held
    BY <1>0, <1>1, <1>4, ContinueHeld
  <1>6. \E X \in SUBSET Tasks : Group!Moves({}, X)
    BY <1>1, <1>2, <1>5, RefusedKeeps
  <1>7. CASE d = "cancelled"
    <2>1. cancelled
      BY <1>0, <1>7, Decisions DEF TypeOK
    <2>2. c = Main => Group!GiveUp
      BY <1>1, <1>3, <1>6, <1>7, <2>1 DEF Group!GiveUp
    <2>3. c # Main => Group!Abandon
      BY <1>1, <1>3, <1>6, <2>1 DEF Group!Abandon
    <2>4. QED
      BY <2>2, <2>3 DEF Group!Next
  <1>8. CASE d = "rejected"
    <2>1. manager.errors # {}
      BY <1>0, <1>8, Decisions DEF TypeOK
    <2>2. c = Main => Group!Reject
      BY <1>1, <1>3, <1>6, <1>8, <2>1 DEF Group!Reject
    <2>3. c # Main => Group!Abandon
      BY <1>1, <1>3, <1>6, <2>1 DEF Group!Abandon
    <2>4. QED
      BY <2>2, <2>3 DEF Group!Next
  <1>9. CASE d \in {"waiting", "resolved"}
    <2>1. manager.tasks \subseteq Held'
      <3>1. d = "resolved" => manager.tasks = {}
        BY <1>0, Decisions DEF TypeOK
      <3>2. \A t \in manager.tasks : d = "waiting" => t \in Held'
        BY <1>0, <1>1, ContinueHeld
      <3>3. QED
        BY <1>9, <3>1, <3>2
    <2>2. \A e \in Callers \ {c} : round[e] # NoWait => round[e] \subseteq Held'
      BY <1>0, <1>1, ContinueHeld
    <2>3. Held \cap Running \subseteq Held'
      BY <1>1, <2>1, <2>2 DEF Held
    <2>4. UNCHANGED <<Held \cap Running, (isAccepted \cap Running) \ Held>>
      BY <1>1, <1>2, <1>5, <2>3
    <2>5. c # Main => UNCHANGED Group!vars
      BY <1>1, <1>3, <2>4 DEF Group!vars
    <2>6. CASE c = Main /\ d = "waiting"
      <3>1. Held' \cap Running' = (Held \cap Running) \cup {} /\ Running' = Running \cup {}
            /\ isAccepted' = isAccepted \cup {}
        BY <1>1, <1>2, <2>4
      <3>2. Group!Moves({}, {})
        BY <3>1, StepKeeps
      <3>3. Group!Ask
        BY <1>1, <1>3, <2>6, <3>2 DEF Group!Ask
      <3>4. QED
        BY <3>3 DEF Group!Next
    <2>7. CASE c = Main /\ d = "resolved"
      <3>1. manager.tasks = {} /\ manager.errors = {}
        BY <1>0, <2>7, Decisions DEF TypeOK
      <3>2. \A t \in Tasks : round[t] = NoWait
        BY <1>0, <1>1, <2>7 DEF Nested, Bookkeeping, Running
      <3>3. Held \cap Running = {}
        BY <1>1, <2>7, <3>1, <3>2 DEF Held, Callers
      <3>4. Group!Resolve
        BY <1>1, <1>3, <2>4, <2>7, <3>1, <3>3 DEF Group!Resolve
      <3>5. QED
        BY <3>4 DEF Group!Next
    <2>8. QED
      BY <1>9, <2>5, <2>6, <2>7
  <1>10. QED
    BY <1>0, <1>7, <1>8, <1>9, Decisions DEF Results, TypeOK

\* A promise that settles does so in the group, unless it was refused.
LEMMA SettleImplements ==
  ASSUME IInv, NEW t \in Tasks, NEW isOk \in BOOLEAN, Settle(t, isOk)
  PROVE  [Group!Next]_(Group!vars)
  <1>0. TypeOK /\ Bookkeeping
    BY DEF IInv
  <1>1. /\ status[t] = "running" /\ round' = round /\ result' = result
        /\ cancelled' = cancelled /\ isAccepted' = isAccepted
    BY DEF Settle
  <1>2. Running' = Running \ {t} /\ t \in Running
    BY <1>0 DEF Settle, TypeOK, Running
  <1>3. /\ SettleTask(manager, t, isOk).tasks = manager.tasks
        /\ SettleTask(manager, t, isOk).errors \in {manager.errors, manager.errors \cup {t}}
    BY DEF SettleTask
  <1>4. manager' \in {SettleTask(manager, t, isOk), manager}
    BY DEF Settle
  <1>5. Held' = Held
    BY <1>1, <1>3, <1>4 DEF Held
  <1>6. CASE t \in isAccepted
    <2>1. t \in (Held \cap Running) \cup ((isAccepted \cap Running) \ Held)
      BY <1>2, <1>6
    <2>2. /\ (Held \cap Running)' = (Held \cap Running) \ {t}
          /\ ((isAccepted \cap Running) \ Held)' = ((isAccepted \cap Running) \ Held) \ {t}
      BY <1>1, <1>2, <1>5
    <2>3. Group!Settle(t)
      BY <1>1, <1>3, <1>4, <2>1, <2>2 DEF Group!Settle
    <2>4. QED
      BY <2>3 DEF Group!Next
  <1>7. CASE t \notin isAccepted
    <2>1. manager' = manager
      BY <1>7 DEF Settle
    <2>2. t \notin Held
      BY <1>7, HeldIsAccepted
    <2>3. UNCHANGED Group!vars
      BY <1>1, <1>2, <1>5, <1>7, <2>1, <2>2 DEF Group!vars
    <2>4. QED
      BY <2>3
  <1>8. QED
    BY <1>6, <1>7

\* The cancel of the token, and cancelTasks after it.
LEMMA CancelImplements ==
  ASSUME IInv, CancelToken \/ CancelAll
  PROVE  [Group!Next]_(Group!vars)
  <1>1. CASE CancelToken
    <2>1. Group!Cancel
      BY <1>1 DEF CancelToken, Group!Cancel, Held, Running
    <2>2. QED
      BY <2>1 DEF Group!Next
  <1>2. CASE CancelAll
    <2>1. manager'.tasks = {} /\ manager'.errors = manager.errors
      BY <1>2 DEF CancelAll, CancelTasks
    <2>2. Held' \subseteq Held /\ Running' = Running
      BY <1>2, <2>1 DEF CancelAll, Held, Running
    <2>3. \E X \in SUBSET Tasks : Group!Moves({}, X)
      BY <1>2, <2>2, RefusedKeeps DEF CancelAll
    <2>4. Group!Abandon
      BY <1>2, <2>1, <2>3 DEF CancelAll, Group!Abandon
    <2>5. QED
      BY <2>4 DEF Group!Next
  <1>3. QED
    BY <1>1, <1>2

\* The manager implements the task group: its owner's wait resolves only when nothing runs and
\* nothing has failed, rejects only for a failure, and gives tasks up only after a failure or a
\* cancel (awaitTasks and cancelTasks of asyncTaskManager.ts).
THEOREM Refinement == Spec => ImplementsTaskGroup
  <1>1. Init => Group!Init
    <2> SUFFICES ASSUME Init PROVE Group!Init
      OBVIOUS
    <2>1. Running = {} /\ manager.errors = {} /\ result[Main] = "none"
      BY DEF Init, Running, NewManager, Callers
    <2>2. QED
      BY <2>1 DEF Group!Init, Init
  <1>2. IInv /\ [Next]_vars => [Group!Next]_(Group!vars)
    <2> SUFFICES ASSUME IInv, [Next]_vars PROVE [Group!Next]_(Group!vars)
      OBVIOUS
    <2>1. CASE UNCHANGED vars
      BY <2>1 DEF vars, Group!vars, Held, Running
    <2>2. QED
      BY <2>1, AddTaskImplements, AwaitTasksImplements, EndRoundImplements, SettleImplements,
         CancelImplements DEF Next, Done
  <1>3. QED
    BY Invariance, <1>1, <1>2, PTL DEF Spec, ImplementsTaskGroup, Group!SafeSpec

-----------------------------------------------------------------------------
(* Waits of tasks, and cancels *)

\* Errors are remembered, a waiting task's children succeeded or are in its round, and what runs
\* and can be cancelled was cancelled or will be.
Answers ==
  /\ \A t \in isAccepted : status[t] = "failed" => t \in manager.errors
  /\ \A c \in Nesting : result[c] = "waiting" => round[c] # NoWait
  /\ \A c \in Nesting : round[c] # NoWait =>
       \A t \in children[c] : t \in isAccepted /\ (t \in round[c] \/ status[t] = "succeeded")
  /\ \A c \in Nesting : result[c] = "resolved" => \A t \in children[c] : status[t] = "succeeded"
  /\ \A t \in isAccepted \cap Cancellable : status[t] = "running" =>
       t \in manager.cancellableTasks \cup cancelCalled

\* A decision to give up cancels everything that runs and can be cancelled.
LEMMA GivingUp ==
  ASSUME NEW m, NEW d, d \in {"rejected", "cancelled"}
  PROVE  CancelCallsOf(m, d) = m.cancellableTasks
  BY DEF CancelCallsOf

\* Handing over new tasks forgets neither a failure nor what has to be cancelled.
LEMMA AddsAnswers ==
  ASSUME IInv, Answers, NEW S \in SUBSET Tasks, \A t \in S : status[t] = "new", Adds(S)
  PROVE  /\ \A t \in isAccepted' : status'[t] = "failed" => t \in WithAdded(S).errors
         /\ \A t \in Tasks : status[t] = "succeeded" => status'[t] = "succeeded"
         /\ \A t \in isAccepted' \cap Cancellable : status'[t] = "running" =>
              t \in WithAdded(S).cancellableTasks \cup cancelCalled
  <1>0. TypeOK /\ Bookkeeping
    BY DEF IInv
  <1>1. manager \in Managers(Tasks)
    BY <1>0 DEF TypeOK
  <1>2. CASE cancelled
    <2>1. WithAdded(S) = manager /\ isAccepted' = isAccepted
      BY <1>2 DEF WithAdded, Adds
    <2>2. \A t \in isAccepted : status'[t] = status[t]
      BY <1>0, AddsSteps DEF Bookkeeping, TypeOK
    <2>3. \A t \in Tasks : status[t] = "succeeded" => status'[t] = "succeeded"
      BY <1>0, AddsSteps
    <2>4. QED
      BY <2>1, <2>2, <2>3 DEF Answers
  <1>3. CASE ~cancelled
    <2>1. /\ WithAdded(S).errors = manager.errors
          /\ WithAdded(S).cancellableTasks = manager.cancellableTasks \cup (S \cap Cancellable)
          /\ isAccepted' = isAccepted \cup S
      BY <1>3 DEF WithAdded, Adds, AddTasks
    <2>2. /\ \A t \in S : status'[t] = "running"
          /\ \A t \in Tasks : status[t] # "new" => status'[t] = status[t]
      BY <1>0, AddsSteps
    <2>3. \A t \in isAccepted : status'[t] = status[t]
      BY <1>0, <2>2 DEF Bookkeeping, TypeOK
    <2>4. QED
      BY <2>1, <2>2, <2>3 DEF Answers
  <1>4. QED
    BY <1>2, <1>3

\* Every step keeps that.
LEMMA NextAnswers ==
  ASSUME IInv, Answers, [Next]_vars
  PROVE  Answers'
  <1>0. TypeOK /\ Bookkeeping /\ Nesting \subseteq Tasks
    BY TasksAssumption DEF IInv
  <1>1. ASSUME NEW c \in Callers, NEW t \in Tasks, AddTask(c, t)
        PROVE  Answers'
    <2>1. Adds({t}) /\ (\A u \in {t} : status[u] = "new") /\ manager' = WithAdded({t})
          /\ round' = round /\ result' = result /\ children' = children
          /\ cancelCalled \subseteq cancelCalled'
      BY <1>1 DEF AddTask
    <2>2. /\ \A u \in isAccepted' : status'[u] = "failed" => u \in manager'.errors
          /\ \A u \in Tasks : status[u] = "succeeded" => status'[u] = "succeeded"
          /\ \A u \in isAccepted' \cap Cancellable : status'[u] = "running" =>
               u \in manager'.cancellableTasks \cup cancelCalled'
      BY <2>1, AddsAnswers
    <2>3. isAccepted \subseteq isAccepted' /\ children \in [Callers -> SUBSET Tasks]
      BY <1>0, <2>1, AddsSteps DEF TypeOK
    <2>4. QED
      BY <1>0, <2>1, <2>2, <2>3 DEF Answers, Callers
  <1>2. ASSUME NEW c \in Callers, NEW S \in SUBSET Tasks, AwaitTasks(c, S)
        PROVE  Answers'
    <2>1. PICK m \in Managers(Tasks), d \in Results :
            /\ m = WithAdded(S) /\ d = OnCall(m, cancelled)
            /\ Adds(S) /\ Continue(c, m, d)
            /\ m.tasks \subseteq isAccepted' /\ m.errors = manager.errors
      BY <1>2, AwaitSteps
    <2>2. /\ \A t \in S : status[t] = "new"
          /\ cancelled' = cancelled
          /\ cancelCalled' = cancelCalled \cup RefusedCalls(S) \cup CancelCallsOf(m, d)
          /\ children' = [children EXCEPT ![c] = S]
      BY <1>2, <2>1 DEF AwaitTasks
    <2>3. /\ \A t \in isAccepted' : status'[t] = "failed" => t \in m.errors
          /\ \A t \in Tasks : status[t] = "succeeded" => status'[t] = "succeeded"
          /\ \A t \in isAccepted' \cap Cancellable : status'[t] = "running" =>
               t \in m.cancellableTasks \cup cancelCalled
      BY <2>1, <2>2, AddsAnswers
    <2>4. /\ manager'.errors = m.errors
          /\ \A e \in Callers \ {c} : round'[e] = round[e] /\ result'[e] = result[e]
          /\ result'[c] = d
          /\ round'[c] = IF d = "waiting" THEN m.tasks ELSE NoWait
          /\ m.tasks \in SUBSET Tasks
      BY <1>0, <2>1, ContinueSteps DEF Managers
    <2>5. isAccepted \subseteq isAccepted' /\ (~cancelled => S \subseteq m.tasks)
      BY <1>0, <2>1, <2>2, AddsSteps
    <2>6. d \in {"rejected", "cancelled"} \/ manager'.cancellableTasks = m.cancellableTasks
      BY <2>1 DEF Continue, After, TakeTasks
    <2>7. d \in {"rejected", "cancelled"} => m.cancellableTasks \subseteq cancelCalled'
      BY <2>2, GivingUp
    <2>8. \A t \in isAccepted' \cap Cancellable : status'[t] = "running" =>
            t \in manager'.cancellableTasks \cup cancelCalled'
      BY <2>2, <2>3, <2>6, <2>7
    <2>9. d = "waiting" => S \subseteq isAccepted' /\ S \subseteq m.tasks /\ round'[c] = m.tasks
      BY <1>0, <2>1, <2>4, <2>5, Decisions DEF TypeOK
    <2>10. d = "resolved" => S = {}
      BY <1>0, <2>1, <2>5, Decisions DEF TypeOK
    <2>11. /\ children'[c] = S
           /\ \A e \in Callers \ {c} : children'[e] = children[e] /\ children[e] \subseteq Tasks
      BY <1>0, <2>2 DEF TypeOK
    <2>12. \A e \in Nesting : result'[e] = "waiting" => round'[e] # NoWait
      BY <1>0, <2>4, NoWaitIsNoSet DEF Answers, Callers
    <2>13. \A e \in Nesting : round'[e] # NoWait =>
             \A t \in children'[e] : t \in isAccepted' /\ (t \in round'[e] \/ status'[t] = "succeeded")
      BY <1>0, <2>3, <2>4, <2>5, <2>9, <2>11 DEF Answers, Callers
    <2>14. \A e \in Nesting : result'[e] = "resolved" => \A t \in children'[e] : status'[t] = "succeeded"
      BY <1>0, <2>3, <2>4, <2>10, <2>11 DEF Answers, Callers
    <2>15. QED
      BY <2>3, <2>4, <2>8, <2>12, <2>13, <2>14 DEF Answers
  <1>3. ASSUME NEW c \in Callers, EndRound(c)
        PROVE  Answers'
    <2> DEFINE d == OnRoundEnd(manager, cancelled)
    <2>1. d \in Results /\ manager \in Managers(Tasks) /\ manager.tasks \in SUBSET Tasks
      BY <1>0, Decisions DEF TypeOK, Managers
    <2>2. /\ Continue(c, manager, d)
          /\ cancelCalled' = cancelCalled \cup CancelCallsOf(manager, d)
          /\ status' = status /\ isAccepted' = isAccepted /\ children' = children
          /\ round[c] # NoWait /\ round[c] \cap Running = {}
      BY <1>3 DEF EndRound
    <2>3. /\ manager'.errors = manager.errors
          /\ \A e \in Callers \ {c} : round'[e] = round[e] /\ result'[e] = result[e]
          /\ result'[c] = d
          /\ round'[c] = IF d = "waiting" THEN manager.tasks ELSE NoWait
      BY <1>0, <2>1, <2>2, ContinueSteps
    <2>4. d \in {"rejected", "cancelled"} \/ manager'.cancellableTasks = manager.cancellableTasks
      BY <2>2 DEF Continue, After, TakeTasks
    <2>5. d \in {"rejected", "cancelled"} => manager.cancellableTasks \subseteq cancelCalled'
      BY <2>2, GivingUp
    <2>6. c \in Nesting /\ d \in {"waiting", "resolved"} =>
            \A t \in children[c] : status[t] = "succeeded" /\ t \in isAccepted
      <3>1. d \in {"waiting", "resolved"} => manager.errors = {}
        BY DEF OnRoundEnd
      <3>2. SUFFICES ASSUME c \in Nesting, d \in {"waiting", "resolved"}, NEW t \in children[c]
                     PROVE  status[t] = "succeeded" /\ t \in isAccepted
        OBVIOUS
      <3>3. t \in isAccepted /\ t \in Tasks /\ (t \in round[c] \/ status[t] = "succeeded")
        BY <1>0, <2>2, <3>2 DEF Answers, TypeOK, Callers
      <3>4. status[t] # "new" /\ status[t] # "failed"
        BY <1>0, <3>1, <3>2, <3>3 DEF Answers, Bookkeeping
      <3>5. t \in round[c] => status[t] # "running"
        BY <2>2, <3>3 DEF Running
      <3>6. status[t] \in {"new", "running", "succeeded", "failed"}
        BY <1>0, <3>3 DEF TypeOK
      <3>7. QED
        BY <3>3, <3>4, <3>5, <3>6
    <2>7. QED
      BY <1>0, <2>1, <2>2, <2>3, <2>4, <2>5, <2>6, NoWaitIsNoSet DEF Answers, Callers
  <1>4. ASSUME NEW t \in Tasks, NEW isOk \in BOOLEAN, Settle(t, isOk)
        PROVE  Answers'
    <2>1. /\ status[t] = "running" /\ round' = round /\ result' = result /\ children' = children
          /\ isAccepted' = isAccepted /\ cancelCalled' = cancelCalled
          /\ status'[t] = IF isOk THEN "succeeded" ELSE "failed"
          /\ \A u \in Tasks \ {t} : status'[u] = status[u]
      BY <1>0, <1>4 DEF Settle, TypeOK
    <2>2. SettleTask(manager, t, isOk).cancellableTasks = manager.cancellableTasks \ {t}
      BY DEF SettleTask
    <2>3. isOk \in BOOLEAN /\ manager.errors \subseteq SettleTask(manager, t, isOk).errors
          /\ (~isOk => t \in SettleTask(manager, t, isOk).errors)
      BY DEF SettleTask
    <2>4. manager' = IF t \in isAccepted THEN SettleTask(manager, t, isOk) ELSE manager
      BY <1>4 DEF Settle
    <2>5. \A u \in isAccepted : status'[u] = "failed" => u \in manager'.errors
      BY <1>0, <2>1, <2>3, <2>4 DEF Answers, TypeOK
    <2>6. \A u \in isAccepted \cap Cancellable : status'[u] = "running" =>
            u \in manager'.cancellableTasks \cup cancelCalled
      BY <1>0, <2>1, <2>2, <2>4 DEF Answers, TypeOK
    <2>7. \A u \in Tasks : status[u] = "succeeded" => status'[u] = "succeeded"
      BY <2>1
    <2>8. QED
      BY <1>0, <2>1, <2>5, <2>6, <2>7 DEF Answers, TypeOK, Callers
  <1>5. CASE CancelToken
    BY <1>0, <1>5 DEF CancelToken, Answers
  <1>6. CASE CancelAll
    <2>1. manager'.errors = manager.errors
      BY <1>6 DEF CancelAll, CancelTasks
    <2>2. QED
      BY <1>0, <1>6, <2>1 DEF CancelAll, Answers
  <1>7. CASE UNCHANGED vars
    BY <1>0, <1>7 DEF vars, Answers
  <1>8. QED
    BY <1>1, <1>2, <1>3, <1>4, <1>5, <1>6, <1>7 DEF Next, Done

\* The two invariants together.
LEMMA AnswersInvariant == Spec => [](IInv /\ Answers)
  <1>1. Init => IInv /\ Answers
    <2>1. Init => Answers
      BY TasksAssumption DEF Init, Answers, NewManager, Callers
    <2>2. QED
      BY <2>1, InitIInv
  <1>2. (IInv /\ Answers) /\ [Next]_vars => (IInv /\ Answers)'
    BY NextTypeOK, NextBookkeeping, NextNested, NextAnswers DEF IInv
  <1>3. QED
    BY <1>1, <1>2, PTL DEF Spec

\* A task that waits within its own manager's wait resumes only when what it added succeeded.
THEOREM NestedWaits == Spec => []NestedWaitCoversChildren
  <1>1. Answers => NestedWaitCoversChildren
    BY DEF Answers, NestedWaitCoversChildren
  <1>2. QED
    BY AnswersInvariant, <1>1, PTL

\* A wait that gives up leaves no cancellable task in the manager.
LEMMA GivingUpEmpties ==
  ASSUME TypeOK, NEW e \in Callers, NEW m, NEW d, Continue(e, m, d), NEW c \in Callers,
         result'[c] # result[c], result'[c] \in {"rejected", "cancelled"}
  PROVE  manager'.cancellableTasks = {}
  <1>1. result'[c] = d
    BY DEF Continue, TypeOK
  <1>2. QED
    BY <1>1 DEF Continue, After, CancelTasks

\* A wait that gives up has called cancel() of every accepted task that can be cancelled and runs.
THEOREM GivingUpCancels == Spec => GivingUpCancelsAll
  <1> DEFINE A == \A c \in Callers :
                    result'[c] # result[c] /\ result'[c] \in {"rejected", "cancelled"} =>
                      \A t \in isAccepted' \cap Cancellable :
                        status'[t] = "running" => t \in cancelCalled'
  <1>1. IInv /\ Answers /\ [Next]_vars => A
    <2> SUFFICES ASSUME IInv, Answers, [Next]_vars, NEW c \in Callers,
                        result'[c] # result[c], result'[c] \in {"rejected", "cancelled"}
                 PROVE  \A t \in isAccepted' \cap Cancellable :
                          status'[t] = "running" => t \in cancelCalled'
      OBVIOUS
    <2>1. TypeOK /\ Answers'
      BY NextAnswers DEF IInv
    <2>2. manager'.cancellableTasks = {}
      <3>1. \/ \E e \in Callers, S \in SUBSET Tasks : AwaitTasks(e, S)
            \/ \E e \in Callers : EndRound(e)
        BY DEF Next, vars, AddTask, Settle, CancelToken, CancelAll, Done
      <3>2. \E e \in Callers : \E m, d : Continue(e, m, d)
        BY <3>1 DEF AwaitTasks, EndRound
      <3>3. QED
        BY <2>1, <3>2, GivingUpEmpties
    <2>3. QED
      BY <2>1, <2>2 DEF Answers
  <1>2. QED
    BY AnswersInvariant, <1>1, PTL DEF Spec, GivingUpCancelsAll
=============================================================================
