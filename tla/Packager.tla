------------------------------ MODULE Packager ------------------------------
(***************************************************************************)
(* What packager.build() promises to those who listen to its events, the   *)
(* PublishManager above all: when it resolves, every artifact has been     *)
(* announced and nothing more comes, unless the build was cancelled.  A    *)
(* build that was cancelled or has failed may leave targets behind that    *)
(* announce their artifacts later.  BuildPipeline implements it.           *)
(***************************************************************************)
CONSTANT Artifacts  \* what the build is asked for

VARIABLES
  phase,      \* of the promise: "building", "resolved", "rejected"
  emitted,    \* artifacts announced with an artifactCreated event
  cancelled   \* the cancellation token of the build

packager == <<phase, emitted, cancelled>>

Init == phase = "building" /\ emitted = {} /\ cancelled = FALSE

Emit(a) ==
  /\ a \in Artifacts \ emitted
  /\ phase = "resolved" => cancelled
  /\ emitted' = emitted \cup {a}
  /\ UNCHANGED <<phase, cancelled>>

Resolve ==
  /\ phase = "building"
  /\ cancelled \/ emitted = Artifacts
  /\ phase' = "resolved"
  /\ UNCHANGED <<emitted, cancelled>>

Reject ==
  /\ phase = "building"
  /\ phase' = "rejected"
  /\ UNCHANGED <<emitted, cancelled>>

Cancel ==
  /\ cancelled' = TRUE
  /\ UNCHANGED <<phase, emitted>>

Next == (\E a \in Artifacts : Emit(a)) \/ Resolve \/ Reject \/ Cancel

SafeSpec == Init /\ [][Next]_packager

Settles == <>(phase # "building")

Spec == SafeSpec /\ Settles
=============================================================================
