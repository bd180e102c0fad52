----------------------- MODULE InstallLifecycleProofs -----------------------
(***************************************************************************)
(* Proofs about InstallLifecycle, for any set of updates, any target and   *)
(* any app adapter.                                                        *)
(***************************************************************************)
EXTENDS InstallLifecycle, TLAPS

\* What the code keeps true of the lifecycle, whoever acts: `idle` means no install is
\* running, the running install is the last one started, its will-quit handler is in place,
\* and the update that quits skip is the one dismissed last.
Lifecycle ==
  /\ installState = "idle" => install = NoInstall
  /\ installState = "installing" => install # NoInstall
  /\ install # NoInstall =>
       /\ install.updateId = attempt.update
       /\ PackageTarget
       /\ HasWillQuit => "willQuit" \in registeredHooks
  /\ hasInstalled => installState = "handedOff" /\ install = NoInstall
  /\ lastDismissed = skipInstallOnQuitUpdateId
  /\ lastDismissed \in dismissed \cup {NoUpdate}
  /\ "quit" \in registeredHooks => Registrable \subseteq registeredHooks

\* The inductive invariant.
IInv == TypeOK /\ Lifecycle /\ QuitWaitsForInstall

\* Init allows nothing but an idle lifecycle.
LEMMA InitIInv == Init => IInv
<1> SUFFICES ASSUME Init PROVE IInv
  OBVIOUS
<1>1. attempt \in Attempts
  BY DEF Init, Attempts
<1>2. pending \in {"none", "marked", "validated"}
  BY DEF Init
<1>3. TypeOK
  BY <1>1, <1>2 DEF Init, TypeOK, Hooks
<1> QED
  BY <1>3 DEF Init, IInv, Lifecycle, QuitWaitsForInstall

\* Every step of the session preserves the types.
LEMMA NextTypeOK == TypeOK /\ Lifecycle /\ [Next]_vars => TypeOK'
<1> SUFFICES ASSUME TypeOK, Lifecycle, [Next]_vars PROVE TypeOK'
  OBVIOUS
<1> USE RecordAssumption, UpdatesAssumption, TargetAssumption
    DEF TypeOK, lifecycle, options, history, helper, process
<1>1. ASSUME NEW u \in Updates, StartDownload(u) PROVE TypeOK'
  BY <1>1 DEF StartDownload, AddQuitHandler, Registrable, Hooks, Downloads
<1>2. CASE ValidateDownloadedPath
  BY <1>2 DEF ValidateDownloadedPath, PutOnDisk, Downloads
<1>3. CASE SetDownloadedFile
  BY <1>3 DEF SetDownloadedFile, PutOnDisk, Downloads
<1>4. CASE FinishDownload
  BY <1>4 DEF FinishDownload, AddQuitHandler, Registrable, Hooks
<1>5. ASSUME NEW c \in BOOLEAN, AbortDownload(c) PROVE TypeOK'
  BY <1>5 DEF AbortDownload, PutOnDisk
<1>6. CASE PendingInstall
  BY <1>6 DEF PendingInstall, ValidatePendingUpdate, DropPendingUpdate
<1>7. ASSUME NEW t \in Triggers, StartInstall(t) PROVE TypeOK'
  <2> USE <1>7 DEF StartInstall
  <2>1. file \in Updates
    BY DEF CanBegin
  <2>2. install' \in Installs
    BY <2>1 DEF Installs
  <2>3. attempt' \in Attempts
    BY <2>1 DEF Runs, Attempts
  <2>4. registeredHooks' \in SUBSET Hooks
    BY DEF AddWillQuitHandler, Registrable, Hooks
  <2> QED
    BY <2>1, <2>2, <2>3, <2>4 DEF TakesPending
<1>8. ASSUME NEW t \in Triggers, NEW r \in BOOLEAN, InstallAtOnce(t, r) PROVE TypeOK'
  <2> USE <1>8 DEF InstallAtOnce
  <2>1. file \in Updates
    BY DEF CanBegin
  <2>2. attempt' \in Attempts
    BY <2>1 DEF Runs, Attempts
  <2> QED
    BY <2>1, <2>2 DEF TakesPending, EndInstall, Settles, QuitsScheduledBy, EndInstallQuits
<1>9. CASE HandOffToNextLaunch
  BY <1>9 DEF HandOffToNextLaunch
<1>10. ASSUME NEW r \in BOOLEAN, FinishInstall(r) PROVE TypeOK'
  <2> USE <1>10 DEF FinishInstall
  <2>1. install \in Installs
    OBVIOUS
  <2>2. scheduledQuits' \in Nat
    BY DEF QuitsScheduledBy
  <2>3. attempt.update \in Updates /\ install.updateId \in Updates
    BY <2>1 DEF Installs, Lifecycle
  <2> QED
    BY <2>2, <2>3 DEF EndInstall, Settles, Attempts
<1>11. ASSUME NEW r \in BOOLEAN, file \in Updates, InstallOnQuit(r)
       PROVE  /\ attempt' \in Attempts
              /\ hasInstalled' \in BOOLEAN
              /\ dismissed' \in SUBSET Updates
              /\ lastDismissed' \in Updates \cup {NoUpdate}
              /\ installState' \in {"idle", "installing", "handedOff"}
              /\ skipInstallOnQuitUpdateId' \in Updates \cup {NoUpdate}
  BY <1>11 DEF InstallOnQuit, Runs, Settles, Attempts
<1>12. IsInstallOnQuitDue => file \in Updates
  BY DEF IsInstallOnQuitDue, InstallOnQuitUnavailable
<1>13. HandleQuit => /\ attempt' \in Attempts
                     /\ hasInstalled' \in BOOLEAN
                     /\ dismissed' \in SUBSET Updates
                     /\ lastDismissed' \in Updates \cup {NoUpdate}
                     /\ installState' \in {"idle", "installing", "handedOff"}
                     /\ skipInstallOnQuitUpdateId' \in Updates \cup {NoUpdate}
  BY <1>11, <1>12 DEF HandleQuit
<1>14. WillQuit => /\ attempt' \in Attempts
                   /\ hasInstalled' \in BOOLEAN
                   /\ dismissed' \in SUBSET Updates
                   /\ lastDismissed' \in Updates \cup {NoUpdate}
                   /\ installState' \in {"idle", "installing", "handedOff"}
                   /\ skipInstallOnQuitUpdateId' \in Updates \cup {NoUpdate}
                   /\ install' \in Installs \cup {NoInstall}
                   /\ phase' \in {"running", "quit", "exit"}
                   /\ exitCode' \in {0, 1}
                   /\ deferredQuit' \in BOOLEAN
  <2>1. CASE DeferQuit
    <3>1. install \in Installs
      BY <2>1 DEF DeferQuit, Lifecycle
    <3>2. install' \in Installs
      BY <2>1, <3>1 DEF DeferQuit, Installs
    <3> QED
      BY <2>1, <3>2 DEF DeferQuit
  <2>2. CASE InstallFailsInWillQuit
    BY <2>2, <1>11, <1>12 DEF InstallFailsInWillQuit, InstallsInWillQuit
  <2>3. CASE InstallSucceedsInWillQuit
    BY <2>3, <1>11, <1>12 DEF InstallSucceedsInWillQuit, InstallsInWillQuit
  <2>4. CASE ProceedWithQuit
    BY <2>4, <1>13 DEF ProceedWithQuit
  <2> QED
    BY <2>1, <2>2, <2>3, <2>4 DEF WillQuit
<1>15. CASE UserQuit
  BY <1>15, <1>14 DEF UserQuit
<1>16. CASE RunScheduledQuit
  <2>1. scheduledQuits' \in Nat
    BY <1>16 DEF RunScheduledQuit
  <2>2. CASE QuitVetoed
    <3>1. deferredQuit' \in BOOLEAN
      BY <2>2 DEF QuitVetoed
    <3> QED
      BY <1>16, <2>1, <2>2, <3>1 DEF RunScheduledQuit, QuitVetoed
  <2>3. CASE WillQuit
    BY <1>16, <2>1, <2>3, <1>14 DEF RunScheduledQuit
  <2> QED
    BY <1>16, <2>2, <2>3 DEF RunScheduledQuit
<1>17. CASE AppExit
  BY <1>17, <1>13 DEF AppExit
<1>18. CASE SessionEnds
  BY <1>18 DEF SessionEnds
<1>19. CASE SetOptions
  BY <1>19 DEF SetOptions
<1>20. CASE UNCHANGED vars
  BY <1>20 DEF vars
<1> QED
  BY <1>1, <1>2, <1>3, <1>4, <1>5, <1>6, <1>7, <1>8, <1>9, <1>10, <1>15, <1>16, <1>17, <1>18,
     <1>19, <1>20
  DEF Next, Download, StartsAnInstall, Quit, Ended

\* An install on quit starts from `idle` only, so no asynchronous install is running then.
LEMMA QuitInstallsFromIdle ==
  ASSUME IsInstallOnQuitDue, Lifecycle
  PROVE  installState = "idle" /\ install = NoInstall /\ ~hasInstalled
BY DEF IsInstallOnQuitDue, InstallOnQuitUnavailable, Lifecycle

\* The quit handlers keep the lifecycle consistent, and let the process end under a
\* running install only for the documented reasons.
LEMMA WillQuitLifecycle ==
  ASSUME IInv, phase = "running", WillQuit,
         UNCHANGED <<registeredHooks, isSessionEnding>>
  PROVE  Lifecycle' /\ QuitWaitsForInstall'
<1> USE DEF IInv
<1>1. CASE DeferQuit
  <2>1. install \in Installs
    BY <1>1 DEF DeferQuit, Lifecycle, TypeOK
  <2>2. install' # NoInstall /\ install'.updateId = install.updateId
    BY <1>1, <2>1, RecordAssumption DEF DeferQuit, Installs
  <2> QED
    BY <1>1, <2>1, <2>2, RecordAssumption
    DEF DeferQuit, Lifecycle, QuitWaitsForInstall, history, process
<1>2. CASE InstallFailsInWillQuit
  BY <1>2, QuitInstallsFromIdle
  DEF InstallFailsInWillQuit, InstallsInWillQuit, InstallOnQuit, Settles, Lifecycle,
      QuitWaitsForInstall, process
<1>3. CASE InstallSucceedsInWillQuit
  BY <1>3, QuitInstallsFromIdle
  DEF InstallSucceedsInWillQuit, InstallsInWillQuit, InstallOnQuit, Settles, Lifecycle,
      QuitWaitsForInstall
<1>4. CASE ProceedWithQuit
  <2>1. CASE IsInstallOnQuitDue /\ exitCode' = 0
    <3>1. PICK r \in BOOLEAN : InstallOnQuit(r)
      BY <1>4, <2>1 DEF ProceedWithQuit, HandleQuit
    <3> QED
      BY <1>4, <2>1, <3>1, QuitInstallsFromIdle
      DEF ProceedWithQuit, InstallOnQuit, Settles, Lifecycle, QuitWaitsForInstall
  <2>2. CASE ~(IsInstallOnQuitDue /\ exitCode' = 0)
    <3>1. UNCHANGED <<installState, install, attempt, hasInstalled, dismissed, lastDismissed,
                      skipInstallOnQuitUpdateId>>
      BY <1>4, <2>2 DEF ProceedWithQuit, HandleQuit, history
    <3>2. Lifecycle'
      BY <3>1 DEF Lifecycle
    <3>3. install # NoInstall =>
            isSessionEnding \/ ~HasWillQuit \/ installState = "handedOff"
      BY <1>4 DEF ProceedWithQuit, IsWillQuitHandled, Lifecycle, TypeOK
    <3> QED
      BY <3>1, <3>2, <3>3 DEF QuitWaitsForInstall
  <2> QED
    BY <2>1, <2>2
<1> QED
  BY <1>1, <1>2, <1>3, <1>4 DEF WillQuit

\* Every step preserves the inductive invariant.
LEMMA NextIInv == IInv /\ [Next]_vars => IInv'
<1> SUFFICES ASSUME IInv, [Next]_vars PROVE Lifecycle' /\ QuitWaitsForInstall'
  BY NextTypeOK DEF IInv
<1> USE DEF IInv, lifecycle, options, history, helper, process
<1>1. CASE Download
  <2>1. /\ UNCHANGED <<installState, install, attempt, hasInstalled, dismissed, lastDismissed,
                       skipInstallOnQuitUpdateId, isSessionEnding, phase>>
        /\ \/ registeredHooks' = registeredHooks
           \/ registeredHooks' = registeredHooks \cup Registrable
    BY <1>1
    DEF Download, StartDownload, ValidateDownloadedPath, SetDownloadedFile, FinishDownload,
        AbortDownload, AddQuitHandler
  <2> QED
    BY <2>1 DEF Lifecycle, QuitWaitsForInstall
<1>2. CASE PendingInstall
  BY <1>2
  DEF PendingInstall, ValidatePendingUpdate, DropPendingUpdate, Lifecycle, QuitWaitsForInstall
<1>3. ASSUME NEW t \in Triggers, StartInstall(t) PROVE Lifecycle' /\ QuitWaitsForInstall'
  <2> USE <1>3 DEF StartInstall
  <2>1. file \in Updates
    BY DEF CanBegin, TypeOK
  <2>2. install' \in Installs
    BY <2>1 DEF Installs
  <2>3. install' # NoInstall /\ install'.updateId = attempt'.update
    BY <2>2, RecordAssumption DEF Runs
  <2>4. HasWillQuit => "willQuit" \in registeredHooks'
    BY DEF AddWillQuitHandler, Registrable
  <2>5. ~hasInstalled'
    BY DEF CanBegin, Lifecycle
  <2>6. "quit" \in registeredHooks' => Registrable \subseteq registeredHooks'
    BY DEF AddWillQuitHandler, Lifecycle
  <2>7. /\ lastDismissed' = skipInstallOnQuitUpdateId'
        /\ lastDismissed' \in dismissed' \cup {NoUpdate}
    BY DEF Lifecycle
  <2>8. QuitWaitsForInstall'
    BY DEF QuitWaitsForInstall
  <2>9. installState' = "installing" /\ PackageTarget
    OBVIOUS
  <2>10. Lifecycle'
    BY ONLY <2>3, <2>4, <2>5, <2>6, <2>7, <2>9 DEF Lifecycle
  <2> QED
    BY <2>8, <2>10
<1>4. ASSUME NEW t \in Triggers, NEW r \in BOOLEAN, InstallAtOnce(t, r)
      PROVE Lifecycle' /\ QuitWaitsForInstall'
  BY <1>4
  DEF InstallAtOnce, CanBegin, EndInstall, Settles, Lifecycle, QuitWaitsForInstall
<1>5. CASE HandOffToNextLaunch
  BY <1>5 DEF HandOffToNextLaunch, Lifecycle, QuitWaitsForInstall
<1>6. ASSUME NEW r \in BOOLEAN, FinishInstall(r) PROVE Lifecycle' /\ QuitWaitsForInstall'
  <2>1. installState \in {"installing", "handedOff"} /\ ~hasInstalled
    BY <1>6 DEF FinishInstall, Lifecycle, TypeOK
  <2>2. PackageTarget /\ install.updateId = attempt.update
    BY <1>6 DEF FinishInstall, Lifecycle
  <2>3. /\ lastDismissed' = skipInstallOnQuitUpdateId'
        /\ lastDismissed' \in dismissed' \cup {NoUpdate}
    BY <1>6, <2>2 DEF FinishInstall, EndInstall, Settles, Lifecycle
  <2>4. hasInstalled' => installState' = "handedOff" /\ install' = NoInstall
    BY <1>6, <2>1 DEF FinishInstall, EndInstall, Settles
  <2>5. installState' \in {"idle", "handedOff"} /\ install' = NoInstall
    BY <1>6, <2>1 DEF FinishInstall, EndInstall
  <2>6. QuitWaitsForInstall'
    BY <2>5 DEF QuitWaitsForInstall
  <2> QED
    BY <1>6, <2>3, <2>4, <2>5, <2>6 DEF FinishInstall, Lifecycle
<1>7. CASE UserQuit
  BY <1>7, WillQuitLifecycle DEF UserQuit
<1>8. CASE RunScheduledQuit
  <2>1. CASE WillQuit
    BY <1>8, <2>1, WillQuitLifecycle DEF RunScheduledQuit
  <2>2. CASE QuitVetoed
    BY <1>8, <2>2 DEF RunScheduledQuit, QuitVetoed, Lifecycle, QuitWaitsForInstall
  <2> QED
    BY <1>8, <2>1, <2>2 DEF RunScheduledQuit
<1>9. CASE AppExit
  <2>1. CASE IsInstallOnQuitDue /\ exitCode' = 0
    <3>1. PICK r \in BOOLEAN : InstallOnQuit(r)
      BY <1>9, <2>1 DEF AppExit, HandleQuit
    <3> QED
      BY <1>9, <2>1, <3>1, QuitInstallsFromIdle
      DEF AppExit, InstallOnQuit, Settles, Lifecycle, QuitWaitsForInstall
  <2>2. CASE ~(IsInstallOnQuitDue /\ exitCode' = 0)
    BY <1>9, <2>2 DEF AppExit, HandleQuit, Lifecycle, QuitWaitsForInstall
  <2> QED
    BY <2>1, <2>2
<1>10. CASE SessionEnds
  BY <1>10 DEF SessionEnds, Lifecycle, QuitWaitsForInstall
<1>11. CASE SetOptions
  BY <1>11 DEF SetOptions, Lifecycle, QuitWaitsForInstall
<1>12. CASE UNCHANGED vars
  BY <1>12 DEF vars, Lifecycle, QuitWaitsForInstall
<1> QED
  BY <1>1, <1>2, <1>3, <1>4, <1>5, <1>6, <1>7, <1>8, <1>9, <1>10, <1>11, <1>12
  DEF Next, StartsAnInstall, Quit, Ended

\* IInv is an invariant of the specification.
THEOREM Invariance == Spec => []IInv
BY InitIInv, NextIInv, PTL DEF Spec

\* Every variable keeps its type.
THEOREM TypeCorrect == Spec => []TypeOK
BY Invariance, PTL DEF IInv

\* The process never ends in a quit under a running package manager, except when the OS
\* session ends, the adapter has no will-quit, or the app handed the update off meanwhile.
THEOREM QuitWaits == Spec => []QuitWaitsForInstall
BY Invariance, PTL DEF IInv

\* An installer starts only from `idle`.
LEMMA InstallerStartsFromIdle ==
  ASSUME IInv, [Next]_vars, RunsInstaller
  PROVE  installState = "idle" /\ install = NoInstall /\ ~hasInstalled
<1> USE DEF IInv, RunsInstaller, lifecycle, options, history, helper, process
<1>1. \/ \E t \in Triggers : StartInstall(t)
      \/ \E t \in Triggers, r \in BOOLEAN : InstallAtOnce(t, r)
      \/ WillQuit
      \/ HandleQuit
  BY DEF Next, Download, StartDownload, ValidateDownloadedPath, SetDownloadedFile,
         FinishDownload, AbortDownload, PendingInstall, ValidatePendingUpdate,
         DropPendingUpdate, StartsAnInstall, HandOffToNextLaunch, FinishInstall, Quit, UserQuit,
         RunScheduledQuit, QuitVetoed, AppExit, SessionEnds, SetOptions, Ended, vars
<1>2. CanBegin => installState = "idle"
  BY DEF CanBegin
<1>3. WillQuit \/ HandleQuit => IsInstallOnQuitDue
  BY DEF WillQuit, DeferQuit, InstallFailsInWillQuit, InstallSucceedsInWillQuit,
         InstallsInWillQuit, ProceedWithQuit, HandleQuit
<1>4. CanBegin \/ IsInstallOnQuitDue
  BY <1>1, <1>3 DEF StartInstall, InstallAtOnce
<1> QED
  BY <1>2, <1>4, QuitInstallsFromIdle DEF Lifecycle

\* Whoever asks for it, no installer starts while another one runs, after one succeeded,
\* or after the update was handed to the next launch.
THEOREM OneInstallAtATime == Spec => InstallsOneAtATime
<1>1. IInv /\ [Next]_vars =>
        (RunsInstaller => install = NoInstall /\ ~hasInstalled /\ installState # "handedOff")
  BY InstallerStartsFromIdle
<1>2. UNCHANGED vars => ~RunsInstaller
  BY DEF vars, history, RunsInstaller
<1> QED
  BY <1>1, Invariance, PTL DEF Spec, InstallsOneAtATime

\* The lifecycle never leaves `handedOff`.
THEOREM HandOffFinal == Spec => HandOffIsFinal
<1>1. IInv /\ [Next]_vars => (installState = "handedOff" => installState' = "handedOff")
  <2> SUFFICES ASSUME IInv, [Next]_vars, installState = "handedOff"
               PROVE  installState' = "handedOff"
    OBVIOUS
  <2> USE DEF IInv, lifecycle, options, history, helper, process
  <2>1. ~CanBegin /\ ~IsInstallOnQuitDue
    BY DEF CanBegin, IsInstallOnQuitDue, InstallOnQuitUnavailable
  <2>2. WillQuit \/ HandleQuit => installState' = "handedOff"
    BY <2>1
    DEF WillQuit, DeferQuit, InstallFailsInWillQuit, InstallSucceedsInWillQuit,
        InstallsInWillQuit, ProceedWithQuit, HandleQuit
  <2>3. ASSUME NEW r \in BOOLEAN, FinishInstall(r) PROVE installState' = "handedOff"
    BY <2>3 DEF FinishInstall, EndInstall
  <2>4. StartsAnInstall => installState' = "handedOff"
    BY <2>1 DEF StartsAnInstall, StartInstall, InstallAtOnce, HandOffToNextLaunch
  <2>5. Quit => installState' = "handedOff"
    BY <2>2 DEF Quit, UserQuit, RunScheduledQuit, QuitVetoed, AppExit
  <2>6. Download \/ PendingInstall => installState' = "handedOff"
    BY DEF Download, StartDownload, ValidateDownloadedPath, SetDownloadedFile,
           FinishDownload, AbortDownload, PendingInstall, ValidatePendingUpdate,
           DropPendingUpdate
  <2> QED
    BY <2>3, <2>4, <2>5, <2>6 DEF Next, SessionEnds, SetOptions, Ended, vars
<1> QED
  BY <1>1, Invariance, PTL DEF Spec, HandOffIsFinal

\* A quit installs the downloaded update, and only when it is not the one to skip.
LEMMA QuitInstallsDueUpdate ==
  ASSUME IInv, [Next]_vars, RunsInstaller, attempt'.startedBy = "quit"
  PROVE  IsInstallOnQuitDue /\ attempt'.update = file
<1> USE DEF IInv, RunsInstaller, lifecycle, options, history, helper, process
<1>1. \/ \E t \in Triggers : StartInstall(t)
      \/ \E t \in Triggers, r \in BOOLEAN : InstallAtOnce(t, r)
      \/ WillQuit
      \/ HandleQuit
  BY DEF Next, Download, StartDownload, ValidateDownloadedPath, SetDownloadedFile,
         FinishDownload, AbortDownload, PendingInstall, ValidatePendingUpdate,
         DropPendingUpdate, StartsAnInstall, HandOffToNextLaunch, FinishInstall, Quit, UserQuit,
         RunScheduledQuit, QuitVetoed, AppExit, SessionEnds, SetOptions, Ended, vars
<1>2. ASSUME NEW t \in Triggers, NEW u, Runs(u, t) PROVE FALSE
  BY <1>2 DEF Runs, Triggers
<1>3. WillQuit \/ HandleQuit
  BY <1>1, <1>2 DEF StartInstall, InstallAtOnce
<1>4. IsInstallOnQuitDue /\ \E r \in BOOLEAN : InstallOnQuit(r)
  BY <1>3
  DEF WillQuit, DeferQuit, InstallFailsInWillQuit, InstallSucceedsInWillQuit,
      InstallsInWillQuit, ProceedWithQuit, HandleQuit
<1>5. ASSUME NEW r \in BOOLEAN, InstallOnQuit(r) PROVE attempt'.update = file
  BY <1>5 DEF InstallOnQuit, Runs
<1> QED
  BY <1>4, <1>5

\* A quit never repeats the install that was dismissed last.
THEOREM DismissedNotRetried == Spec => DismissedNotRetriedOnQuit
<1>1. IInv /\ [Next]_vars =>
        (RunsInstaller /\ attempt'.startedBy = "quit" => attempt'.update # lastDismissed)
  BY QuitInstallsDueUpdate
  DEF IInv, Lifecycle, IsInstallOnQuitDue, InstallOnQuitUnavailable, InstallOnQuitSkipped
<1>2. UNCHANGED vars => ~RunsInstaller
  BY DEF vars, history, RunsInstaller
<1> QED
  BY <1>1, Invariance, PTL DEF Spec, DismissedNotRetriedOnQuit

\* The end of an install schedules one quit at most, a hand-off one.
THEOREM OneQuit == Spec => OneQuitPerInstall
<1>1. TypeOK /\ [Next]_vars => scheduledQuits' <= scheduledQuits + 1
  <2> SUFFICES ASSUME TypeOK, [Next]_vars PROVE scheduledQuits' <= scheduledQuits + 1
    OBVIOUS
  <2>1. scheduledQuits \in Nat
    BY DEF TypeOK
  <2> USE <2>1 DEF lifecycle, options, history, helper, process
  <2>2. ASSUME NEW i, NEW r \in BOOLEAN PROVE QuitsScheduledBy(i, r) \in {0, 1}
    BY DEF QuitsScheduledBy, EndInstallQuits, TriggerQuits
  <2>3. ASSUME NEW r \in BOOLEAN, FinishInstall(r) PROVE scheduledQuits' <= scheduledQuits + 1
    BY <2>2, <2>3 DEF FinishInstall
  <2>4. ASSUME NEW t \in Triggers, NEW r \in BOOLEAN, InstallAtOnce(t, r)
        PROVE  scheduledQuits' <= scheduledQuits + 1
    BY <2>2, <2>4 DEF InstallAtOnce
  <2>5. CASE Download \/ PendingInstall
    BY <2>5
    DEF Download, StartDownload, ValidateDownloadedPath, SetDownloadedFile, FinishDownload,
        AbortDownload, PendingInstall, ValidatePendingUpdate, DropPendingUpdate
  <2>6. CASE HandOffToNextLaunch \/ \E t \in Triggers : StartInstall(t)
    BY <2>6 DEF HandOffToNextLaunch, StartInstall
  <2>7. CASE Quit
    BY <2>7 DEF Quit, UserQuit, RunScheduledQuit, AppExit
  <2> QED
    BY <2>3, <2>4, <2>5, <2>6, <2>7
    DEF Next, StartsAnInstall, SessionEnds, SetOptions, Ended, vars
<1> QED
  BY <1>1, TypeCorrect, PTL DEF Spec, OneQuitPerInstall

\* How a quit that ends the process goes: through will-quit, where the install succeeded,
\* or past it to the quit handler.
LEMMA ProcessQuits ==
  ASSUME IInv, [Next]_vars, phase = "running", phase' = "quit"
  PROVE  InstallSucceedsInWillQuit \/ ProceedWithQuit
<1> USE DEF lifecycle, options, history, helper, process
<1>1. WillQuit
  BY DEF Next, Download, StartDownload, ValidateDownloadedPath, SetDownloadedFile,
         FinishDownload, AbortDownload, PendingInstall, ValidatePendingUpdate,
         DropPendingUpdate, StartsAnInstall, StartInstall, InstallAtOnce,
         HandOffToNextLaunch, FinishInstall, Quit, UserQuit,
         RunScheduledQuit, QuitVetoed, AppExit, SessionEnds, SetOptions, Ended, vars
<1> QED
  BY <1>1 DEF WillQuit, DeferQuit, InstallFailsInWillQuit

\* A quit installs what was downloaded and not dismissed.
THEOREM CleanQuitInstalls == Spec => UpdateInstalledOnCleanQuit
<1>1. IInv /\ [Next]_vars =>
        ( /\ phase = "running" /\ phase' = "quit" /\ exitCode' = 0
          /\ "quit" \in registeredHooks /\ download = NoDownload
          /\ file # NoUpdate /\ file \notin dismissed
          /\ installState = "idle" /\ autoInstallEvent = "onQuit" /\ ~isSessionEnding
          => RunsInstaller /\ attempt'.update = file )
  <2> SUFFICES ASSUME IInv, [Next]_vars,
                      phase = "running", phase' = "quit", exitCode' = 0,
                      "quit" \in registeredHooks, download = NoDownload,
                      file # NoUpdate, file \notin dismissed,
                      installState = "idle", autoInstallEvent = "onQuit", ~isSessionEnding
               PROVE  RunsInstaller /\ attempt'.update = file
    OBVIOUS
  <2>1. IsInstallOnQuitDue
    BY DEF IInv, Lifecycle, IsInstallOnQuitDue, InstallOnQuitUnavailable,
           InstallOnQuitSkipped
  <2>2. \E r \in BOOLEAN : InstallOnQuit(r)
    BY <2>1, ProcessQuits DEF InstallSucceedsInWillQuit, ProceedWithQuit, HandleQuit
  <2>3. attempt' = [update |-> file, startedBy |-> "quit", turn |-> 1 - attempt.turn]
    BY <2>2 DEF InstallOnQuit, Runs
  <2>4. attempt.turn \in {0, 1}
    BY DEF IInv, TypeOK, Attempts
  <2>5. attempt'.turn # attempt.turn
    BY <2>3, <2>4
  <2> QED
    BY <2>3, <2>5 DEF RunsInstaller
<1> QED
  BY <1>1, Invariance, PTL DEF Spec, UpdateInstalledOnCleanQuit

\* With cancelQuitOnInstallFailure, the app outlives an install that fails on quit.
THEOREM FailedInstallKeepsRunning == Spec => FailedInstallKeepsAppRunning
<1>1. IInv /\ [Next]_vars =>
        ( /\ phase = "running" /\ phase' = "quit" /\ RunsInstaller
          /\ PackageTarget /\ HasWillQuit /\ cancelQuitOnInstallFailure
          => hasInstalled' )
  <2> SUFFICES ASSUME IInv, [Next]_vars, phase = "running", phase' = "quit", RunsInstaller,
                      PackageTarget, HasWillQuit, cancelQuitOnInstallFailure
               PROVE  hasInstalled'
    OBVIOUS
  <2>1. CASE InstallSucceedsInWillQuit
    BY <2>1 DEF InstallSucceedsInWillQuit, InstallOnQuit, Settles
  <2>2. CASE ProceedWithQuit
    <3>1. IsInstallOnQuitDue /\ ~InstallsInWillQuit
      BY <2>2 DEF ProceedWithQuit, HandleQuit, RunsInstaller, history
    <3>2. "willQuit" \in registeredHooks
      BY <3>1 DEF IInv, Lifecycle, Registrable, IsInstallOnQuitDue
    <3>3. ~isSessionEnding
      BY <3>1 DEF IsInstallOnQuitDue, InstallOnQuitSkipped
    <3> QED
      BY <3>1, <3>2, <3>3 DEF InstallsInWillQuit, IsWillQuitHandled
  <2> QED
    BY <2>1, <2>2, ProcessQuits
<1> QED
  BY <1>1, Invariance, PTL DEF Spec, FailedInstallKeepsAppRunning
=============================================================================
