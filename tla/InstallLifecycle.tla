-------------------------- MODULE InstallLifecycle --------------------------
(***************************************************************************)
(* The install lifecycle of electron-updater in one session of the app:    *)
(* BaseUpdater, from the moment an update starts downloading to the quit   *)
(* that installs it.  Node runs one callback at a time, so every action is *)
(* one uninterrupted run of the event loop; only an install that waits for *)
(* a package manager and its elevation dialog (LinuxUpdater.doInstallAsync)*)
(* spans several of them, and everything else can happen in between.       *)
(*                                                                         *)
(* An update stands for its checksum, `downloadedUpdateId` in the code.    *)
(* The download itself and the cache on disk are in UpdateCache; here they *)
(* only change which update the download helper points at.                 *)
(***************************************************************************)
EXTENDS Naturals

CONSTANTS
  Updates,            \* the updates the server may offer during the session
  NoUpdate,           \* the helper points at no update
  NoInstall,          \* no install waits for a package manager
  NoDownload,         \* executeDownload is not running
  PackageTarget,      \* isQuitCancellable: deb, rpm, pacman, whose install is asynchronous
  HasWillQuit,        \* the app adapter implements onWillQuit
  HasSessionEnd,      \* the app adapter implements onSessionEnd
  MaxScheduledQuits   \* bound: quits that setImmediate has not run yet

ASSUME UpdatesAssumption == NoUpdate \notin Updates
ASSUME TargetAssumption ==
  /\ PackageTarget \in BOOLEAN
  /\ HasWillQuit \in BOOLEAN
  /\ HasSessionEnd \in BOOLEAN
ASSUME QuitsAssumption == MaxScheduledQuits \in Nat \ {0}

Triggers == {"install", "quitAndInstall", "launch"}
AutoInstallEvents == {"onQuit", "onNextLaunch", "manual"}
Hooks == {"quit", "willQuit", "sessionEnd"}

\* What a running install remembers: the record of its `installing` state and the trigger
\* that runInstallAsync was called with.
Installs == [updateId : Updates, isQuitDeferred : BOOLEAN, trigger : Triggers]

\* An executeDownload call: isSaved once its file is the helper's (setDownloadedFile).
Downloads == [update : Updates, isSaved : BOOLEAN]

ASSUME RecordAssumption ==
  /\ NoInstall \notin Installs
  /\ NoDownload \notin Downloads

Attempts == [update : Updates \cup {NoUpdate},
             startedBy : Triggers \cup {"quit", "none"},
             turn : {0, 1}]

VARIABLES
  installState,                \* "idle", "installing" or "handedOff"
  install,                     \* the asynchronous install that waits, or NoInstall
  registeredHooks,             \* lifecycle events whose handler is registered
  isSessionEnding,             \* the OS announced the end of the session
  skipInstallOnQuitUpdateId,   \* the update that no quit installs
  download,                    \* the executeDownload call in progress (isDownloadInProgress)
  onDisk,                      \* the update in the cache directory for pending updates
  pending,                     \* the update marked for this launch: "marked", "validated", "none"
  file,                        \* the update whose installer the download helper points at
  autoInstallEvent,            \* the app's option, it may change it at any time
  cancelQuitOnInstallFailure,  \* likewise
  scheduledQuits,              \* app.quit() calls that setImmediate has not run yet
  phase,                       \* "running", or how the process ended: "quit" or "exit"
  exitCode                     \* 0 or 1, of the process that ended

(***************************************************************************)
(* History variables: what happened, for the properties.  No guard of an   *)
(* action reads them.                                                      *)
(***************************************************************************)
VARIABLES
  attempt,        \* the last run of an installer and what started it; `turn` tells runs apart
  hasInstalled,   \* an installer succeeded in this session
  dismissed,      \* updates whose install failed such that quits must leave them alone
  lastDismissed,  \* the last of them
  deferredQuit    \* a quit was cancelled to wait for an install, and did not happen since

process == <<phase, exitCode>>
helper == <<download, onDisk, pending, file>>
lifecycle == <<installState, install, skipInstallOnQuitUpdateId, scheduledQuits>>
options == <<autoInstallEvent, cancelQuitOnInstallFailure>>
history == <<attempt, hasInstalled, dismissed, lastDismissed>>
vars == <<lifecycle, options, history, registeredHooks, isSessionEnding, helper, process,
          deferredQuit>>

TypeOK ==
  /\ installState \in {"idle", "installing", "handedOff"}
  /\ install \in Installs \cup {NoInstall}
  /\ registeredHooks \in SUBSET Hooks
  /\ isSessionEnding \in BOOLEAN
  /\ skipInstallOnQuitUpdateId \in Updates \cup {NoUpdate}
  /\ download \in Downloads \cup {NoDownload}
  /\ onDisk \in Updates \cup {NoUpdate}
  /\ pending \in {"none", "marked", "validated"}
  /\ file \in Updates \cup {NoUpdate}
  /\ autoInstallEvent \in AutoInstallEvents
  /\ cancelQuitOnInstallFailure \in BOOLEAN
  /\ scheduledQuits \in Nat
  /\ phase \in {"running", "quit", "exit"}
  /\ exitCode \in {0, 1}
  /\ attempt \in Attempts
  /\ hasInstalled \in BOOLEAN
  /\ dismissed \in SUBSET Updates
  /\ lastDismissed \in Updates \cup {NoUpdate}
  /\ deferredQuit \in BOOLEAN

Init ==
  /\ installState = "idle"
  /\ install = NoInstall
  /\ registeredHooks = {}
  /\ isSessionEnding = FALSE
  /\ skipInstallOnQuitUpdateId = NoUpdate
  /\ download = NoDownload
  /\ onDisk \in Updates \cup {NoUpdate}
  /\ pending \in (IF onDisk = NoUpdate THEN {"none"} ELSE {"none", "marked"})
  /\ file = NoUpdate
  /\ autoInstallEvent \in AutoInstallEvents
  /\ cancelQuitOnInstallFailure \in BOOLEAN
  /\ scheduledQuits = 0
  /\ phase = "running"
  /\ exitCode = 0
  /\ attempt = [update |-> NoUpdate, startedBy |-> "none", turn |-> 0]
  /\ hasInstalled = FALSE
  /\ dismissed = {}
  /\ lastDismissed = NoUpdate
  /\ deferredQuit = FALSE

-----------------------------------------------------------------------------
(***************************************************************************)
(* Hooks.  registerHookOnce keeps a hook only if it could be registered.   *)
(***************************************************************************)
Registrable ==
  {"quit"} \cup (IF PackageTarget /\ HasWillQuit THEN {"willQuit"} ELSE {})
           \cup (IF HasSessionEnd THEN {"sessionEnd"} ELSE {})

\* Mutant: the quit handler comes without its will-quit handler.
AddQuitHandlerAlone == registeredHooks' = registeredHooks \cup {"quit"}

AddQuitHandler == registeredHooks' = registeredHooks \cup Registrable

\* Mutant: an install that starts without a download before it leaves will-quit alone.
AddWillQuitHandlerNever == UNCHANGED registeredHooks

AddWillQuitHandler == registeredHooks' = registeredHooks \cup (Registrable \cap {"willQuit"})

\* Why a quit finds nothing to install, why it leaves the downloaded update alone, and
\* whether it would install it now.
InstallOnQuitUnavailable ==
  installState # "idle" \/ download # NoDownload \/ file = NoUpdate

\* Mutant: one failed install on quit stops them all.
InstallOnQuitSkippedForever ==
  \/ autoInstallEvent # "onQuit"
  \/ isSessionEnding
  \/ skipInstallOnQuitUpdateId # NoUpdate

InstallOnQuitSkipped ==
  \/ autoInstallEvent # "onQuit"
  \/ isSessionEnding
  \/ file # NoUpdate /\ file = skipInstallOnQuitUpdateId

IsInstallOnQuitDue ==
  "quit" \in registeredHooks /\ ~InstallOnQuitUnavailable /\ ~InstallOnQuitSkipped

-----------------------------------------------------------------------------
(***************************************************************************)
(* Downloads and the launch-time validation, as far as the download helper *)
(* shows them to BaseUpdater.                                              *)
(***************************************************************************)
StartDownload(u) ==
  /\ phase = "running"
  /\ download = NoDownload
  /\ download' = [update |-> u, isSaved |-> FALSE]
  /\ AddQuitHandler
  /\ UNCHANGED <<lifecycle, options, history, isSessionEnding, onDisk, pending, file, process,
                 deferredQuit>>

\* The cache directory holds one update, and the mark of the one that leaves it goes with
\* it; one that is validated already is installed all the same.
PutOnDisk(u) ==
  /\ onDisk' = u
  /\ pending' = IF onDisk # u /\ pending = "marked" THEN "none" ELSE pending

\* validateDownloadedPath: the helper points at an installer of an earlier session before
\* the download accepted it, or the cache of another update is emptied.
ValidateDownloadedPath ==
  /\ phase = "running"
  /\ download # NoDownload /\ ~download.isSaved
  /\ IF onDisk = download.update
     THEN file' = onDisk /\ UNCHANGED <<onDisk, pending>>
     ELSE PutOnDisk(NoUpdate) /\ UNCHANGED file
  /\ UNCHANGED <<lifecycle, options, history, registeredHooks, isSessionEnding, download,
                 process, deferredQuit>>

SetDownloadedFile ==
  /\ phase = "running"
  /\ download # NoDownload /\ ~download.isSaved
  /\ file' = download.update
  /\ PutOnDisk(download.update)
  /\ download' = [download EXCEPT !.isSaved = TRUE]
  /\ UNCHANGED <<lifecycle, options, history, registeredHooks, isSessionEnding, process,
                 deferredQuit>>

\* `done`: update-downloaded is emitted, quitting installs from now on.
FinishDownload ==
  /\ phase = "running"
  /\ download # NoDownload /\ download.isSaved
  /\ download' = NoDownload
  /\ AddQuitHandler
  /\ UNCHANGED <<lifecycle, options, history, isSessionEnding, onDisk, pending, file, process,
                 deferredQuit>>

\* The download rejects; isCleared: it failed where removeFileIfAny clears the helper.
AbortDownload(isCleared) ==
  /\ phase = "running"
  /\ download # NoDownload
  /\ isCleared => ~download.isSaved
  /\ download' = NoDownload
  /\ IF isCleared
     THEN file' = NoUpdate /\ PutOnDisk(NoUpdate)
     ELSE UNCHANGED <<onDisk, pending, file>>
  /\ UNCHANGED <<lifecycle, options, history, registeredHooks, isSessionEnding, process,
                 deferredQuit>>

\* installPendingUpdate: validateCachedPendingInstall points the helper at the update
\* before the app's verifier has seen it.
ValidatePendingUpdate ==
  /\ phase = "running"
  /\ pending = "marked"
  /\ file' = onDisk
  /\ pending' = "validated"
  /\ UNCHANGED <<lifecycle, options, history, registeredHooks, isSessionEnding, download,
                 onDisk, process, deferredQuit>>

\* installPendingUpdate ends without an install: the verifier rejects the update and the
\* helper is cleared, or the marker is cleared and runInstallAsync refuses.
DropPendingUpdate(isCleared) ==
  /\ phase = "running"
  /\ pending = "validated"
  /\ isCleared \/ installState # "idle" \/ file = NoUpdate
  /\ pending' = "none"
  /\ IF isCleared
     THEN file' = NoUpdate /\ onDisk' = NoUpdate
     ELSE UNCHANGED <<file, onDisk>>
  /\ UNCHANGED <<lifecycle, options, history, registeredHooks, isSessionEnding, download,
                 process, deferredQuit>>

-----------------------------------------------------------------------------
(***************************************************************************)
(* Installs.                                                               *)
(***************************************************************************)
\* Mutant: beginInstall does not look at the lifecycle.
CanBeginAnyTime == file # NoUpdate

\* beginInstall accepts: no install runs or handed its update off, and there is a file.
CanBegin == installState = "idle" /\ file # NoUpdate

\* The install on launch consumes the marked update that was validated.
TakesPending(trigger) ==
  IF trigger = "launch"
  THEN pending = "validated" /\ pending' = "none"
  ELSE UNCHANGED pending

Runs(u, by) == attempt' = [update |-> u, startedBy |-> by, turn |-> 1 - attempt.turn]

Settles(u, isInstalled, isDismissal) ==
  /\ hasInstalled' = (hasInstalled \/ isInstalled)
  /\ IF ~isInstalled /\ isDismissal
     THEN dismissed' = dismissed \cup {u} /\ lastDismissed' = u
     ELSE UNCHANGED <<dismissed, lastDismissed>>

\* Mutant: the end of an install overwrites a hand-off that came meanwhile.
EndInstallOfAny(i, isCurrent, isInstalled) ==
  /\ installState' = IF isInstalled THEN "handedOff" ELSE "idle"
  /\ skipInstallOnQuitUpdateId' =
       IF ~isInstalled /\ (i.isQuitDeferred \/ (i.trigger = "install" /\ PackageTarget))
       THEN i.updateId
       ELSE skipInstallOnQuitUpdateId

\* Mutant: the update to skip is the one the helper points at when the install ends.
EndInstallOfCurrentFile(i, isCurrent, isInstalled) ==
  /\ installState' = IF ~isCurrent THEN installState
                     ELSE IF isInstalled THEN "handedOff" ELSE "idle"
  /\ skipInstallOnQuitUpdateId' =
       IF ~isInstalled /\ (i.isQuitDeferred \/ (i.trigger = "install" /\ PackageTarget))
       THEN file
       ELSE skipInstallOnQuitUpdateId

\* endInstall for the install i; `isCurrent`: installState still is that install's.
EndInstall(i, isCurrent, isInstalled) ==
  /\ installState' = IF ~isCurrent THEN installState
                     ELSE IF isInstalled THEN "handedOff" ELSE "idle"
  /\ skipInstallOnQuitUpdateId' =
       IF ~isInstalled /\ (i.isQuitDeferred \/ (i.trigger = "install" /\ PackageTarget))
       THEN i.updateId
       ELSE skipInstallOnQuitUpdateId

\* Mutant: endInstall forgets that quitAndInstall and the install on launch quit themselves.
EndInstallQuitsAsWell(i, isInstalled) ==
  i.isQuitDeferred /\ (isInstalled \/ ~cancelQuitOnInstallFailure)

\* Mutant: only an install that succeeded makes the deferred quit happen.
EndInstallQuitsOnSuccess(i, isInstalled) ==
  i.isQuitDeferred /\ isInstalled /\ i.trigger = "install"

\* Whether endInstall itself makes the deferred quit happen, and whether the caller of
\* the install quits because it succeeded.
EndInstallQuits(i, isInstalled) ==
  /\ i.isQuitDeferred
  /\ IF isInstalled THEN i.trigger = "install" ELSE ~cancelQuitOnInstallFailure

TriggerQuits(i, isInstalled) == isInstalled /\ i.trigger # "install"

QuitsScheduledBy(i, isInstalled) ==
  (IF EndInstallQuits(i, isInstalled) THEN 1 ELSE 0)
    + (IF TriggerQuits(i, isInstalled) THEN 1 ELSE 0)

\* runInstallAsync up to its await, on a target that waits for a package manager.
StartInstall(trigger) ==
  /\ phase = "running"
  /\ PackageTarget
  /\ CanBegin
  /\ TakesPending(trigger)
  /\ installState' = "installing"
  /\ install' = [updateId |-> file, isQuitDeferred |-> FALSE, trigger |-> trigger]
  /\ AddWillQuitHandler
  /\ Runs(file, trigger)
  /\ UNCHANGED <<skipInstallOnQuitUpdateId, scheduledQuits, options, hasInstalled,
                 dismissed, lastDismissed, isSessionEnding, download, onDisk, file, process,
                 deferredQuit>>

\* The package manager ended, or its elevation dialog was dismissed.  setImmediate runs
\* before the end of a process that started later, so few quits are scheduled then.
FinishInstall(isInstalled) ==
  /\ phase = "running"
  /\ install # NoInstall
  /\ scheduledQuits < MaxScheduledQuits
  /\ EndInstall(install, installState = "installing", isInstalled)
  /\ install' = NoInstall
  /\ scheduledQuits' = scheduledQuits + QuitsScheduledBy(install, isInstalled)
  /\ Settles(attempt.update, isInstalled, install.isQuitDeferred \/ install.trigger = "install")
  /\ deferredQuit' =
       (deferredQuit /\ ~(install.isQuitDeferred /\ ~isInstalled /\ cancelQuitOnInstallFailure))
  /\ UNCHANGED <<options, attempt, registeredHooks, isSessionEnding, helper, process>>

\* install(), on every target, and runInstallAsync where doInstallAsync is doInstall.
InstallAtOnce(trigger, isInstalled) ==
  LET i == [updateId |-> file, isQuitDeferred |-> FALSE, trigger |-> trigger]
  IN  /\ phase = "running"
      /\ PackageTarget => trigger = "install"
      /\ CanBegin
      /\ TakesPending(trigger)
      /\ EndInstall(i, TRUE, isInstalled)
      /\ scheduledQuits' = scheduledQuits + QuitsScheduledBy(i, isInstalled)
      /\ Runs(file, trigger)
      /\ Settles(file, isInstalled, trigger = "install" /\ PackageTarget)
      /\ UNCHANGED <<install, options, registeredHooks, isSessionEnding, download, onDisk, file, process,
                     deferredQuit>>

\* quitAndInstall({ waitUntilNextLaunch: true }) that could mark the update on disk.
HandOffToNextLaunch ==
  /\ phase = "running"
  /\ file # NoUpdate
  /\ scheduledQuits < MaxScheduledQuits
  /\ installState' = "handedOff"
  /\ scheduledQuits' = scheduledQuits + 1
  /\ UNCHANGED <<install, skipInstallOnQuitUpdateId, options, history, registeredHooks,
                 isSessionEnding, helper, process, deferredQuit>>

-----------------------------------------------------------------------------
(***************************************************************************)
(* Quits.  will-quit is emitted once the windows are closed; unless a      *)
(* listener cancels it, quit follows and the process ends.                 *)
(***************************************************************************)
IsWillQuitHandled == "willQuit" \in registeredHooks /\ ~isSessionEnding

InstallOnQuit(isInstalled) ==
  /\ Runs(file, "quit")
  /\ Settles(file, isInstalled, TRUE)
  /\ installState' = IF isInstalled THEN "handedOff" ELSE "idle"
  /\ skipInstallOnQuitUpdateId' = IF isInstalled THEN skipInstallOnQuitUpdateId ELSE file

\* handleQuit, as the process ends with exit code 0 or another one.  With autoInstallEvent
\* "onNextLaunch" it marks the update on disk, which UpdateCache models.
HandleQuit ==
  IF exitCode' = 0 /\ IsInstallOnQuitDue
  THEN \E isInstalled \in BOOLEAN : InstallOnQuit(isInstalled)
  ELSE UNCHANGED <<installState, skipInstallOnQuitUpdateId, history>>

\* handleWillQuit while an install runs: the quit waits for it.
DeferQuit ==
  /\ IsWillQuitHandled
  /\ installState = "installing"
  /\ install' = [install EXCEPT !.isQuitDeferred = TRUE]
  /\ deferredQuit' = TRUE
  /\ UNCHANGED <<installState, skipInstallOnQuitUpdateId, history, process>>

\* handleWillQuit with cancelQuitOnInstallFailure: install while the quit can be cancelled.
InstallsInWillQuit == IsWillQuitHandled /\ cancelQuitOnInstallFailure /\ IsInstallOnQuitDue

InstallFailsInWillQuit ==
  /\ InstallsInWillQuit
  /\ InstallOnQuit(FALSE)
  /\ deferredQuit' = FALSE
  /\ UNCHANGED <<install, process>>

\* A listener that runs after the updater's may still cancel the quit.
InstallSucceedsInWillQuit ==
  /\ InstallsInWillQuit
  /\ InstallOnQuit(TRUE)
  /\ phase' \in {"running", "quit"}
  /\ exitCode' \in (IF phase' = "quit" THEN {0, 1} ELSE {0})
  /\ deferredQuit' = FALSE
  /\ UNCHANGED install

ProceedWithQuit ==
  /\ ~(IsWillQuitHandled /\ installState = "installing")
  /\ ~InstallsInWillQuit
  /\ phase' = "quit"
  /\ deferredQuit' = FALSE
  /\ exitCode' \in {0, 1}
  /\ HandleQuit
  /\ UNCHANGED install

WillQuit ==
  \/ DeferQuit
  \/ InstallFailsInWillQuit
  \/ InstallSucceedsInWillQuit
  \/ ProceedWithQuit

\* A window refuses to close, or a will-quit listener before the updater's cancels the quit.
QuitVetoed ==
  /\ deferredQuit' = FALSE
  /\ UNCHANGED <<installState, install, skipInstallOnQuitUpdateId, history, process>>

\* The user quits, or the app itself.  A vetoed quit of theirs changes nothing.
UserQuit ==
  /\ phase = "running"
  /\ WillQuit
  /\ UNCHANGED <<scheduledQuits, options, registeredHooks, isSessionEnding, helper>>

\* Mutant: a quit runs that nothing scheduled.
RunScheduledQuitUnscheduled ==
  /\ phase = "running"
  /\ scheduledQuits' = scheduledQuits - 1
  /\ WillQuit \/ QuitVetoed
  /\ UNCHANGED <<options, registeredHooks, isSessionEnding, helper>>

\* setImmediate runs an app.quit() of the updater.
RunScheduledQuit ==
  /\ phase = "running"
  /\ scheduledQuits > 0
  /\ scheduledQuits' = scheduledQuits - 1
  /\ WillQuit \/ QuitVetoed
  /\ UNCHANGED <<options, registeredHooks, isSessionEnding, helper>>

\* app.exit() emits quit without will-quit.
AppExit ==
  /\ phase = "running"
  /\ phase' = "exit"
  /\ exitCode' \in {0, 1}
  /\ deferredQuit' = FALSE
  /\ HandleQuit
  /\ UNCHANGED <<install, scheduledQuits, options, registeredHooks, isSessionEnding,
                 helper>>

SessionEnds ==
  /\ phase = "running"
  /\ "sessionEnd" \in registeredHooks
  /\ isSessionEnding' = TRUE
  /\ UNCHANGED <<lifecycle, options, history, registeredHooks, helper, process,
                 deferredQuit>>

SetOptions ==
  /\ phase = "running"
  /\ autoInstallEvent' \in AutoInstallEvents
  /\ cancelQuitOnInstallFailure' \in BOOLEAN
  /\ UNCHANGED <<lifecycle, history, registeredHooks, isSessionEnding, helper, process,
                 deferredQuit>>

\* The process has ended.
Ended == phase # "running" /\ UNCHANGED vars

-----------------------------------------------------------------------------
Download ==
  \/ \E u \in Updates : StartDownload(u)
  \/ ValidateDownloadedPath
  \/ SetDownloadedFile
  \/ FinishDownload
  \/ \E isCleared \in BOOLEAN : AbortDownload(isCleared)

PendingInstall ==
  \/ ValidatePendingUpdate
  \/ \E isCleared \in BOOLEAN : DropPendingUpdate(isCleared)

StartsAnInstall ==
  \/ \E trigger \in Triggers : StartInstall(trigger)
  \/ \E trigger \in Triggers, isInstalled \in BOOLEAN : InstallAtOnce(trigger, isInstalled)
  \/ HandOffToNextLaunch

Quit ==
  \/ UserQuit
  \/ RunScheduledQuit
  \/ AppExit

Next ==
  \/ Download
  \/ PendingInstall
  \/ StartsAnInstall
  \/ \E isInstalled \in BOOLEAN : FinishInstall(isInstalled)
  \/ Quit
  \/ SessionEnds
  \/ SetOptions
  \/ Ended

(***************************************************************************)
(* The package manager ends, whether it installs or its dialog is          *)
(* dismissed, and the event loop runs what setImmediate queued.  Nothing   *)
(* obliges the app or the user to do anything.                             *)
(***************************************************************************)
Fairness ==
  /\ WF_vars(\E isInstalled \in BOOLEAN : FinishInstall(isInstalled))
  /\ WF_vars(RunScheduledQuit)

Spec == Init /\ [][Next]_vars /\ Fairness

-----------------------------------------------------------------------------
(***************************************************************************)
(* Properties.                                                             *)
(***************************************************************************)
\* A quit does not end the process under a running package manager: handleWillQuit holds
\* the quit back, unless the OS session ends, the adapter has no will-quit, or the app
\* called quitAndInstall({ waitUntilNextLaunch: true }) meanwhile.
QuitWaitsForInstall ==
  phase = "quit" /\ install # NoInstall =>
    isSessionEnding \/ ~HasWillQuit \/ installState = "handedOff"

\* The same without the last exception, as handleWillQuit and `autoInstallEvent` document
\* it: a quit while quitAndInstall() runs waits for the install to finish.
QuitNeverCutsInstallShort ==
  phase = "quit" /\ install # NoInstall => isSessionEnding \/ ~HasWillQuit

RunsInstaller == attempt' # attempt

\* No installer starts while another one runs, after one succeeded, or after the update
\* was handed to the next launch, whoever asks: the app, a quit or the launch.
InstallsOneAtATime ==
  [][RunsInstaller => install = NoInstall /\ ~hasInstalled /\ installState # "handedOff"]_vars

\* Once an update is installed or marked for the next launch, no later event of the
\* session, such as the end of an older install, reopens the lifecycle.
HandOffIsFinal ==
  [][installState = "handedOff" => installState' = "handedOff"]_vars

\* A quit never repeats the install that was dismissed last, whatever was downloaded while
\* its dialog was open: the user is not shown the same elevation dialog again.
DismissedNotRetriedOnQuit ==
  [][RunsInstaller /\ attempt'.startedBy = "quit" => attempt'.update # lastDismissed]_vars

\* A clean quit installs the update that finished downloading, unless that update itself
\* was dismissed: the failure of an earlier update does not hold back a newer one.
UpdateInstalledOnCleanQuit ==
  [][ /\ phase = "running" /\ phase' = "quit" /\ exitCode' = 0
      /\ "quit" \in registeredHooks /\ download = NoDownload
      /\ file # NoUpdate /\ file \notin dismissed
      /\ installState = "idle" /\ autoInstallEvent = "onQuit" /\ ~isSessionEnding
      => RunsInstaller /\ attempt'.update = file ]_vars

\* With cancelQuitOnInstallFailure, a quit whose install fails does not end the process.
FailedInstallKeepsAppRunning ==
  [][ /\ phase = "running" /\ phase' = "quit" /\ RunsInstaller
      /\ PackageTarget /\ HasWillQuit /\ cancelQuitOnInstallFailure
      => hasInstalled' ]_vars

\* The end of an install schedules one app.quit() at most, although both endInstall and
\* the caller of the install quit the app.
OneQuitPerInstall == [][scheduledQuits' <= scheduledQuits + 1]_vars

\* A quit that was held back happens (the app may start installs forever and so hold it
\* back again), or a failed install cancels it as cancelQuitOnInstallFailure asks.
DeferredQuitHappens ==
  []<><<\E trigger \in Triggers : StartInstall(trigger)>>_vars \/ (deferredQuit ~> ~deferredQuit)
=============================================================================
