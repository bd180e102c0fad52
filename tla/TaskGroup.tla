------------------------------ MODULE TaskGroup ------------------------------
(***************************************************************************)
(* What a group of asynchronous tasks promises to the one that waits for   *)
(* it, whatever data structure keeps the tasks: the wait resolves only     *)
(* when no task of the group is open and none has failed, it rejects only  *)
(* if one has failed, and it gives tasks up only after a cancel or a       *)
(* failure.  AsyncTaskManager implements it.                               *)
(***************************************************************************)
CONSTANT Tasks

VARIABLES
  open,         \* accepted tasks the group still answers for
  orphans,      \* tasks that run on although the group gave them up
  failed,       \* tasks that failed, orphans included
  isCancelled,  \* somebody cancelled the group
  verdict       \* of the last wait: "none", "waiting", "resolved", "rejected", "cancelled"

vars == <<open, orphans, failed, isCancelled, verdict>>

Verdicts == {"none", "waiting", "resolved", "rejected", "cancelled"}

Init ==
  /\ open = {} /\ orphans = {} /\ failed = {}
  /\ isCancelled = FALSE
  /\ verdict = "none"

\* New tasks S join, tasks X of the group are given up.
Moves(S, X) ==
  /\ S \cap (open \cup orphans) = {}
  /\ X \subseteq open \cup S
  /\ open' = (open \cup S) \ X
  /\ orphans' = orphans \cup X

Accept ==
  /\ \E S \in SUBSET Tasks : Moves(S, {})
  /\ UNCHANGED <<failed, isCancelled, verdict>>

Settle(t) ==
  /\ t \in open \cup orphans
  /\ open' = open \ {t}
  /\ orphans' = orphans \ {t}
  /\ failed' \in {failed, failed \cup {t}}
  /\ UNCHANGED <<isCancelled, verdict>>

Cancel ==
  /\ isCancelled' = TRUE
  /\ UNCHANGED <<open, orphans, failed, verdict>>

\* Tasks are given up only for a reason.
Abandon ==
  /\ isCancelled' = TRUE \/ (failed # {} /\ UNCHANGED isCancelled)
  /\ \E S, X \in SUBSET Tasks : Moves(S, X)
  /\ UNCHANGED <<failed, verdict>>

\* A wait begins, for the tasks accepted so far and those added with it.
Ask ==
  /\ verdict' = "waiting"
  /\ \E S \in SUBSET Tasks : Moves(S, {})
  /\ UNCHANGED <<failed, isCancelled>>

Resolve ==
  /\ open = {} /\ failed = {}
  /\ verdict' = "resolved"
  /\ UNCHANGED <<open, orphans, failed, isCancelled>>

Reject ==
  /\ failed # {}
  /\ verdict' = "rejected"
  /\ \E S, X \in SUBSET Tasks : Moves(S, X)
  /\ UNCHANGED <<failed, isCancelled>>

GiveUp ==
  /\ isCancelled
  /\ verdict' = "cancelled"
  /\ \E S, X \in SUBSET Tasks : Moves(S, X)
  /\ UNCHANGED <<failed, isCancelled>>

Next ==
  \/ Accept
  \/ \E t \in Tasks : Settle(t)
  \/ Cancel
  \/ Abandon
  \/ Ask
  \/ Resolve \/ Reject \/ GiveUp

SafeSpec == Init /\ [][Next]_vars

\* A wait is answered.
Answered == verdict = "waiting" ~> verdict # "waiting"

Spec == SafeSpec /\ Answered
=============================================================================
