----------------------------- MODULE UpdateCache -----------------------------
(***************************************************************************)
(* The cache of downloaded updates, over several launches of the app:      *)
(* DownloadedUpdateHelper, its directory `pending` on disk, the download   *)
(* that fills it (AppUpdater.executeDownload) and the install on launch of *)
(* an update that an earlier launch marked (installPendingUpdate).  The    *)
(* two run concurrently in one process and share the helper and the disk;  *)
(* every `await` at which the other one, a quit or a crash can come in     *)
(* ends an action.                                                         *)
(*                                                                         *)
(* An update is its version, which stands for its checksum too; a file     *)
(* holds the bytes of one update, or damaged ones.  Emptying the directory *)
(* and hashing a file are one step each, and so is an install, which       *)
(* InstallLifecycle has in detail: the updater's target is one whose       *)
(* install is not elevated and only starts an installer (NSIS per user,    *)
(* AppImage), so the install on launch is automatic.                       *)
(***************************************************************************)
EXTENDS Naturals

CONSTANTS
  MaxVersion,      \* the app starts as version 1 and the server publishes up to this one
  None,            \* no file, no update
  Corrupt,         \* bytes that are no update's, a JSON file that does not parse
  SharedFileName,  \* the installers of all versions have the same file name
  AllowDowngrade   \* the app's allowDowngrade

ASSUME VersionsAssumption == MaxVersion \in Nat \ {0, 1}
ASSUME ContentAssumption == None \notin Nat /\ Corrupt \notin Nat /\ None # Corrupt
ASSUME OptionsAssumption == SharedFileName \in BOOLEAN /\ AllowDowngrade \in BOOLEAN

Versions == 1..MaxVersion
Contents == Versions \cup {None, Corrupt}

\* Where the installer of version v is saved in the pending directory.
UpdateFile(v) == IF SharedFileName THEN 1 ELSE v
Paths == {UpdateFile(v) : v \in Versions}

\* update-info.json, and the helper's copy of it.
CachedUpdateInfo == [update : Versions, installOnNextLaunch : BOOLEAN]

ASSUME InfoAssumption == None \notin CachedUpdateInfo /\ Corrupt \notin CachedUpdateInfo

DownloadSteps ==
  {"idle", "readingInfo", "hashing", "emptyingStale", "verifyingCached", "downloading",
   "verifying", "renaming", "writingInfo", "announcing", "clearing"}
PendingSteps ==
  {"idle", "fetching", "readingInfo", "hashing", "emptying", "verifying", "readingMarker",
   "writingMarker", "installing"}

VARIABLES
  \* on the server and on disk
  latest,            \* the version in the server's update info
  installed,         \* the version of the app that is installed
  updateInfo,        \* update-info.json: None, Corrupt or its record
  files,             \* the installers in the pending directory
  tempFile,          \* the installer under its temporary name
  \* in the process
  isRunning,
  file,              \* the helper's file: a path, or None
  downloadedInfo,    \* the helper's _downloadedFileInfo, or None
  versionInfo,       \* the update that this launch downloaded to `file`, or None
  isQuitHandled,     \* the quit handler is registered
  isHandedOff,       \* quitAndInstall({ waitUntilNextLaunch: true }) marked the update
  download,          \* executeDownload: its step, its update and the info it has read
  pendingInstall     \* installPendingUpdate: likewise, and whether it goes on to install

(***************************************************************************)
(* History: what the app's verifier accepted during this launch, whether   *)
(* update-downloaded was emitted in it, the last run of an installer,      *)
(* whether a mark is still to be honoured, whether the write that was to   *)
(* clear the mark of the install in progress has failed, and whether       *)
(* during this launch a pending install ran while a download or another    *)
(* mark used the cache, or a download could not write update-info.json.    *)
(***************************************************************************)
VARIABLES accepted, isAnnounced, lastRun, isInstallOwed, isMarkerKept, isDisturbed

disk == <<updateInfo, files, tempFile>>
helper == <<file, downloadedInfo, versionInfo>>
history == <<accepted, isAnnounced, lastRun, isInstallOwed, isMarkerKept, isDisturbed>>
session == <<isRunning, isQuitHandled, isHandedOff>>
vars == <<latest, installed, disk, helper, session, download, pendingInstall, history>>

Downloads ==
  [step : DownloadSteps, update : Versions \cup {None}, read : CachedUpdateInfo \cup {None}]
PendingInstalls ==
  [step : PendingSteps, update : Versions \cup {None}, read : CachedUpdateInfo \cup {None},
   isInstallable : BOOLEAN]
Runs == [content : Contents, startedBy : {"none", "app", "quit", "launch"}, turn : {0, 1}]

TypeOK ==
  /\ latest \in Versions
  /\ installed \in Versions
  /\ updateInfo \in CachedUpdateInfo \cup {None, Corrupt}
  /\ files \in [Paths -> Contents]
  /\ tempFile \in Versions \cup {None}
  /\ isRunning \in BOOLEAN
  /\ file \in Paths \cup {None}
  /\ downloadedInfo \in CachedUpdateInfo \cup {None}
  /\ versionInfo \in Versions \cup {None}
  /\ isQuitHandled \in BOOLEAN
  /\ isHandedOff \in BOOLEAN
  /\ download \in Downloads
  /\ pendingInstall \in PendingInstalls
  /\ accepted \in SUBSET Contents
  /\ isAnnounced \in BOOLEAN
  /\ lastRun \in Runs
  /\ isInstallOwed \in BOOLEAN
  /\ isMarkerKept \in BOOLEAN
  /\ isDisturbed \in BOOLEAN

NoDownload == [step |-> "idle", update |-> None, read |-> None]
NoPendingInstall == [step |-> "idle", update |-> None, read |-> None, isInstallable |-> FALSE]
NoRun == [content |-> None, startedBy |-> "none", turn |-> 0]

Init ==
  /\ latest = 1
  /\ installed = 1
  /\ updateInfo = None
  /\ files = [p \in Paths |-> None]
  /\ tempFile = None
  /\ isRunning = FALSE
  /\ file = None
  /\ downloadedInfo = None
  /\ versionInfo = None
  /\ isQuitHandled = FALSE
  /\ isHandedOff = FALSE
  /\ download = NoDownload
  /\ pendingInstall = NoPendingInstall
  /\ accepted = {}
  /\ isAnnounced = FALSE
  /\ lastRun = NoRun
  /\ isInstallOwed = FALSE
  /\ isMarkerKept = FALSE
  /\ isDisturbed = FALSE

-----------------------------------------------------------------------------
(***************************************************************************)
(* The parts that the download and the install on launch share.            *)
(***************************************************************************)
\* isUpdateAvailable and the loop guard of installPendingUpdate.
IsInstallableChange(v) == v # installed /\ (v > installed \/ AllowDowngrade)

\* emptyDir of the pending directory.
EmptyDir ==
  /\ updateInfo' = None
  /\ files' = [p \in Paths |-> None]
  /\ tempFile' = None

\* Mutant: clear() empties the directory and keeps the file.
ForgetFileInDirOnly ==
  /\ versionInfo' = None
  /\ UNCHANGED <<file, downloadedInfo>>

\* The synchronous part of clear(): the helper keeps _downloadedFileInfo.
ForgetFile ==
  /\ file' = None
  /\ versionInfo' = None
  /\ UNCHANGED downloadedInfo

\* getValidCachedUpdateFile of update u: whether update-info.json, as read, is missing, or
\* makes it empty the directory; then whether the file it names is missing, or does.
IsInfoMissing == updateInfo = None
IsInfoStale(u) ==
  /\ updateInfo # None
  /\ updateInfo # Corrupt => updateInfo.update # u
IsFileMissing(u) == files[UpdateFile(u)] = None

\* Mutant: the checksum in update-info.json is compared, the file is not hashed.
IsFileDamagedByInfo(u) == updateInfo = None

IsFileDamaged(u) == files[UpdateFile(u)] \notin {u, None}

\* The contents that writes in progress can leave in update-info.json when the process ends.
InfoWritten ==
  (IF download.step = "writingInfo" THEN {Corrupt, download.read} ELSE {})
    \cup
  (IF pendingInstall.step = "writingMarker"
   THEN {Corrupt, [pendingInstall.read EXCEPT !.installOnNextLaunch = FALSE]}
   ELSE {})

Run(content, by) ==
  lastRun' = [content |-> content, startedBy |-> by, turn |-> 1 - lastRun.turn]

\* The app's verifier accepts a file with these bytes; of a missing one nothing is accepted.
Accepts(content) == accepted' = accepted \cup ({content} \ {None})

\* What an installer of these bytes may do to the installed app.
InstallerMayInstall(content) ==
  installed' \in (IF content \in Versions THEN {installed, content} ELSE {installed})

\* The process is gone, its memory with it.
EndProcess ==
  /\ isRunning' = FALSE
  /\ file' = None
  /\ downloadedInfo' = None
  /\ versionInfo' = None
  /\ isQuitHandled' = FALSE
  /\ isHandedOff' = FALSE
  /\ download' = NoDownload
  /\ pendingInstall' = NoPendingInstall
  /\ accepted' = {}
  /\ isAnnounced' = FALSE
  /\ isMarkerKept' = FALSE
  /\ isDisturbed' = FALSE

-----------------------------------------------------------------------------
(***************************************************************************)
(* The download: executeDownload.                                          *)
(***************************************************************************)
DownloadGoesTo(step) == download' = [download EXCEPT !.step = step]

\* The app checks and downloads at once; isDownloadInProgress until the step is idle again.
StartDownload ==
  /\ isRunning
  /\ download.step = "idle"
  /\ IsInstallableChange(latest)
  /\ download' = [step |-> "readingInfo", update |-> latest, read |-> None]
  /\ isQuitHandled' = TRUE
  /\ isDisturbed' = (isDisturbed \/ pendingInstall.step # "idle")
  /\ UNCHANGED <<latest, installed, disk, helper, isRunning, isHandedOff, pendingInstall,
                 accepted, isAnnounced, lastRun, isInstallOwed, isMarkerKept>>

\* validateDownloadedPath: what this launch downloaded already only has to exist.
IsDownloadedFile(u) == versionInfo # None /\ file = UpdateFile(u)

FindDownload ==
  /\ download.step = "readingInfo"
  /\ LET u == download.update
     IN  \/ /\ IsDownloadedFile(u)
            /\ DownloadGoesTo(IF versionInfo = u /\ ~IsFileMissing(u) THEN "verifyingCached"
                              ELSE "downloading")
         \/ /\ ~IsDownloadedFile(u)
            /\ \/ IsInfoMissing /\ DownloadGoesTo("downloading")
               \/ IsInfoStale(u) /\ DownloadGoesTo("emptyingStale")
               \/ /\ ~IsInfoMissing /\ ~IsInfoStale(u)
                  /\ download' = [download EXCEPT !.step = "hashing", !.read = updateInfo]
  /\ UNCHANGED <<latest, installed, disk, helper, session, pendingInstall, history>>

\* Mutant: the file is looked for under the name it has for this version.
UsesCachedFileOfVersion(u, info) ==
  /\ file' = u
  /\ downloadedInfo' = info
  /\ UNCHANGED versionInfo

UsesCachedFile(u, info) ==
  /\ file' = UpdateFile(u)
  /\ downloadedInfo' = info
  /\ UNCHANGED versionInfo

HashCachedDownload ==
  /\ download.step = "hashing"
  /\ LET u == download.update
     IN  \/ /\ IsFileMissing(u)
            /\ DownloadGoesTo("downloading")
            /\ UNCHANGED helper
         \/ /\ IsFileDamaged(u)
            /\ DownloadGoesTo("emptyingStale")
            /\ UNCHANGED helper
         \/ /\ ~IsFileMissing(u) /\ ~IsFileDamaged(u)
            /\ DownloadGoesTo("verifyingCached")
            /\ UsesCachedFile(u, download.read)
  /\ UNCHANGED <<latest, installed, disk, session, pendingInstall, history>>

EmptyStaleCache ==
  /\ download.step = "emptyingStale"
  /\ EmptyDir
  /\ DownloadGoesTo("downloading")
  /\ UNCHANGED <<latest, installed, helper, session, pendingInstall, history>>

\* setDownloadedFile, up to the write of update-info.json.
SetDownloadedFile(u) ==
  /\ file' = UpdateFile(u)
  /\ versionInfo' = u
  /\ downloadedInfo' = [update |-> u, installOnNextLaunch |-> FALSE]

\* The app's verifier accepts the cached update: `done`, which does not save the cache.
AcceptCachedDownload ==
  /\ download.step = "verifyingCached"
  /\ Accepts(files[UpdateFile(download.update)])
  /\ SetDownloadedFile(download.update)
  /\ DownloadGoesTo("announcing")
  /\ UNCHANGED <<latest, installed, disk, session, pendingInstall, isAnnounced, lastRun,
                 isInstallOwed, isMarkerKept, isDisturbed>>

\* The task writes the temporary file and checks its checksum.
FetchUpdate ==
  /\ download.step = "downloading"
  /\ tempFile' = download.update
  /\ DownloadGoesTo("verifying")
  /\ UNCHANGED <<latest, installed, updateInfo, files, helper, session, pendingInstall,
                 history>>

AcceptDownload ==
  /\ download.step = "verifying"
  /\ Accepts(tempFile)
  /\ DownloadGoesTo("renaming")
  /\ UNCHANGED <<latest, installed, disk, helper, session, pendingInstall, isAnnounced,
                 lastRun, isInstallOwed, isMarkerKept, isDisturbed>>

\* The rename, and `done` up to the write of update-info.json.
SaveDownload ==
  /\ download.step = "renaming"
  /\ tempFile # None
  /\ files' = [files EXCEPT ![UpdateFile(download.update)] = tempFile]
  /\ tempFile' = None
  /\ SetDownloadedFile(download.update)
  /\ download' = [download EXCEPT !.step = "writingInfo", !.read = downloadedInfo']
  /\ UNCHANGED <<latest, installed, updateInfo, session, pendingInstall, history>>

WriteInfo ==
  /\ download.step = "writingInfo"
  /\ updateInfo' = download.read
  /\ DownloadGoesTo("announcing")
  /\ UNCHANGED <<latest, installed, files, tempFile, helper, session, pendingInstall, history>>

\* outputJson fails, a full disk for one: the download rejects, the helper keeps its file.
FailToWriteInfo ==
  /\ download.step = "writingInfo"
  /\ updateInfo' \in {updateInfo, Corrupt}
  /\ download' = NoDownload
  /\ isDisturbed' = TRUE
  /\ UNCHANGED <<latest, installed, files, tempFile, helper, session, pendingInstall, accepted,
                 isAnnounced, lastRun, isInstallOwed, isMarkerKept>>

\* update-downloaded: from now on, quitting installs the update.
FinishDownload ==
  /\ download.step = "announcing"
  /\ download' = NoDownload
  /\ isAnnounced' = TRUE
  /\ UNCHANGED <<latest, installed, disk, helper, session, pendingInstall, accepted, lastRun,
                 isInstallOwed, isMarkerKept, isDisturbed>>

\* removeFileIfAny: the verifier rejects the update, the task fails or is cancelled, the
\* rename fails or its retries are used up.
FailDownload ==
  /\ download.step \in {"verifyingCached", "downloading", "verifying", "renaming"}
  /\ ForgetFile
  /\ DownloadGoesTo("clearing")
  /\ UNCHANGED <<latest, installed, disk, session, pendingInstall, history>>

ClearAfterDownload ==
  /\ download.step = "clearing"
  /\ EmptyDir
  /\ download' = NoDownload
  /\ UNCHANGED <<latest, installed, helper, session, pendingInstall, history>>

-----------------------------------------------------------------------------
(***************************************************************************)
(* The install of a marked update: installPendingUpdate, by the launch or  *)
(* by the app.  runPendingInstall runs one at a time.                      *)
(***************************************************************************)
PendingGoesTo(step) == pendingInstall' = [pendingInstall EXCEPT !.step = step]

\* getPendingInstallInfo: update-info.json is there, parses and has the marker.
IsMarked == updateInfo \notin {None, Corrupt} /\ updateInfo.installOnNextLaunch

StartPendingInstall ==
  /\ isRunning
  /\ pendingInstall.step = "idle"
  /\ IsMarked
  /\ pendingInstall' =
       [NoPendingInstall EXCEPT !.step = "fetching", !.update = updateInfo.update]
  /\ isDisturbed' = (isDisturbed \/ download.step # "idle")
  /\ UNCHANGED <<latest, installed, disk, helper, session, download, accepted, isAnnounced,
                 lastRun, isInstallOwed, isMarkerKept>>

\* Mutant: no loop guard.
MatchPendingUpdateOfAnyVersion ==
  /\ pendingInstall.step = "fetching"
  /\ \/ latest = pendingInstall.update /\ PendingGoesTo("readingInfo")
     \/ latest # pendingInstall.update /\ PendingGoesTo("readingMarker")
  /\ UNCHANGED <<latest, installed, disk, helper, session, download, history>>

\* The latest update info: installable and the marked update's, or the marker is cleared.
MatchPendingUpdate ==
  /\ pendingInstall.step = "fetching"
  /\ LET isMatch == IsInstallableChange(latest) /\ latest = pendingInstall.update
     IN  \/ isMatch /\ PendingGoesTo("readingInfo")
         \/ ~isMatch /\ PendingGoesTo("readingMarker")
  /\ UNCHANGED <<latest, installed, disk, helper, session, download, history>>

\* The server cannot be reached, or the cached file is missing: the marker stays.
AbandonPendingInstall ==
  /\ \/ pendingInstall.step = "fetching"
     \/ pendingInstall.step = "readingInfo" /\ IsInfoMissing
     \/ pendingInstall.step = "hashing" /\ IsFileMissing(pendingInstall.update)
  /\ pendingInstall' = NoPendingInstall
  /\ UNCHANGED <<latest, installed, disk, helper, session, download, history>>

FindPendingUpdate ==
  /\ pendingInstall.step = "readingInfo"
  /\ ~IsInfoMissing
  /\ \/ IsInfoStale(pendingInstall.update) /\ PendingGoesTo("emptying")
     \/ /\ ~IsInfoStale(pendingInstall.update)
        /\ pendingInstall' = [pendingInstall EXCEPT !.step = "hashing", !.read = updateInfo]
  /\ UNCHANGED <<latest, installed, disk, helper, session, download, history>>

\* validateCachedPendingInstall makes it the helper's file before the verifier has seen it.
HashPendingUpdate ==
  /\ pendingInstall.step = "hashing"
  /\ ~IsFileMissing(pendingInstall.update)
  /\ \/ /\ IsFileDamaged(pendingInstall.update)
        /\ PendingGoesTo("emptying")
        /\ UNCHANGED helper
     \/ /\ ~IsFileDamaged(pendingInstall.update)
        /\ UsesCachedFile(pendingInstall.update, pendingInstall.read)
        /\ PendingGoesTo("verifying")
  /\ UNCHANGED <<latest, installed, disk, session, download, history>>

AcceptPendingUpdate ==
  /\ pendingInstall.step = "verifying"
  /\ Accepts(files[UpdateFile(pendingInstall.update)])
  /\ pendingInstall' =
       [pendingInstall EXCEPT !.step = "readingMarker", !.isInstallable = TRUE]
  /\ UNCHANGED <<latest, installed, disk, helper, session, download, isAnnounced, lastRun,
                 isInstallOwed, isMarkerKept, isDisturbed>>

RejectPendingUpdate ==
  /\ pendingInstall.step = "verifying"
  /\ ForgetFile
  /\ PendingGoesTo("emptying")
  /\ UNCHANGED <<latest, installed, disk, session, download, history>>

EmptyAfterPendingInstall ==
  /\ pendingInstall.step = "emptying"
  /\ EmptyDir
  /\ pendingInstall' = NoPendingInstall
  /\ UNCHANGED <<latest, installed, helper, session, download, history>>

\* clearPendingInstallMarker reads update-info.json and writes what it read without the
\* marker; then comes the install, unless the marker was cleared because there is none.
AfterMarker ==
  IF pendingInstall.isInstallable THEN PendingGoesTo("installing")
  ELSE pendingInstall' = NoPendingInstall

UnmarksMemory ==
  /\ downloadedInfo' = IF downloadedInfo = None THEN None
                       ELSE [downloadedInfo EXCEPT !.installOnNextLaunch = FALSE]
  /\ UNCHANGED <<file, versionInfo>>

\* Mutant: the marker stays until the installer has run.
ReadMarkerWithoutClearing ==
  /\ pendingInstall.step = "readingMarker"
  /\ AfterMarker
  /\ UNCHANGED <<latest, installed, disk, helper, session, download, history>>

ReadMarker ==
  /\ pendingInstall.step = "readingMarker"
  /\ \/ updateInfo \in {None, Corrupt} /\ AfterMarker /\ UNCHANGED helper
     \/ /\ updateInfo \notin {None, Corrupt}
        /\ \/ ~updateInfo.installOnNextLaunch /\ AfterMarker /\ UnmarksMemory
           \/ /\ updateInfo.installOnNextLaunch
              /\ pendingInstall' =
                   [pendingInstall EXCEPT !.step = "writingMarker", !.read = updateInfo]
              /\ UNCHANGED helper
  /\ UNCHANGED <<latest, installed, disk, session, download, history>>

ClearMarker ==
  /\ pendingInstall.step = "writingMarker"
  /\ updateInfo' = [pendingInstall.read EXCEPT !.installOnNextLaunch = FALSE]
  /\ AfterMarker
  /\ UnmarksMemory
  /\ UNCHANGED <<latest, installed, files, tempFile, session, download, history>>

\* outputJson fails: a warning, the helper's copy stays marked, and the install goes on.
FailToClearMarker ==
  /\ pendingInstall.step = "writingMarker"
  /\ updateInfo' \in {updateInfo, Corrupt}
  /\ AfterMarker
  /\ isMarkerKept' = pendingInstall.isInstallable
  /\ UNCHANGED <<latest, installed, files, tempFile, helper, session, download, accepted,
                 isAnnounced, lastRun, isInstallOwed, isDisturbed>>

\* runInstallAsync refuses: the update was handed to the next launch, or cleared.
RefuseLaunchInstall ==
  /\ pendingInstall.step = "installing"
  /\ isHandedOff \/ file = None
  /\ pendingInstall' = NoPendingInstall
  /\ isMarkerKept' = FALSE
  /\ UNCHANGED <<latest, installed, disk, helper, session, download, accepted, isAnnounced,
                 lastRun, isInstallOwed, isDisturbed>>

\* It runs the helper's file, whichever that is by now; the app quits once it started.
LaunchInstall ==
  /\ pendingInstall.step = "installing"
  /\ ~isHandedOff /\ file # None
  /\ Run(files[file], "launch")
  /\ \/ /\ files[file] # None
        /\ InstallerMayInstall(files[file])
        /\ updateInfo' \in {updateInfo} \cup InfoWritten
        /\ EndProcess
     \/ /\ pendingInstall' = NoPendingInstall
        /\ isMarkerKept' = FALSE
        /\ UNCHANGED <<installed, updateInfo, helper, session, download, accepted, isAnnounced,
                       isDisturbed>>
  /\ isInstallOwed' = (isMarkerKept /\ IsMarked')
  /\ UNCHANGED <<latest, files, tempFile>>

-----------------------------------------------------------------------------
(***************************************************************************)
(* The app, its quits and its launches, and what happens around it.        *)
(***************************************************************************)
\* install() or quitAndInstall(), which do not look at isDownloadInProgress.
AppInstall ==
  /\ isRunning
  /\ ~isHandedOff /\ file # None
  /\ Run(files[file], "app")
  /\ \/ /\ files[file] # None
        /\ InstallerMayInstall(files[file])
        /\ updateInfo' \in {updateInfo} \cup InfoWritten
        /\ EndProcess
     \/ UNCHANGED <<installed, updateInfo, helper, session, download, pendingInstall, accepted,
                    isAnnounced, isMarkerKept, isDisturbed>>
  /\ UNCHANGED <<latest, files, tempFile, isInstallOwed>>

\* markInstallOnNextLaunchSync of the helper's file.
Mark == [downloadedInfo EXCEPT !.installOnNextLaunch = TRUE]

\* quitAndInstall({ waitUntilNextLaunch: true }); the quit it schedules is a Quit.
HandOffToNextLaunch ==
  /\ isRunning
  /\ file # None
  /\ updateInfo' = Mark
  /\ downloadedInfo' = Mark
  /\ isHandedOff' = TRUE
  /\ isInstallOwed' = TRUE
  /\ isDisturbed' = (isDisturbed \/ pendingInstall.step # "idle")
  /\ UNCHANGED <<latest, installed, files, tempFile, file, versionInfo, isRunning,
                 isQuitHandled, download, pendingInstall, accepted, isAnnounced, lastRun,
                 isMarkerKept>>

\* Mutant: the quit handler does not look at isDownloadInProgress.
HandlesQuitWhileDownloading == isQuitHandled /\ ~isHandedOff /\ file # None

\* handleQuit finds an update to install or to mark.
HandlesQuit ==
  isQuitHandled /\ ~isHandedOff /\ download.step = "idle" /\ file # None

\* The process exits with code 0; autoInstallEvent is what the app has set by then.
Quit(autoInstallEvent) ==
  /\ isRunning
  /\ IF HandlesQuit /\ autoInstallEvent = "onQuit"
     THEN Run(files[file], "quit") /\ InstallerMayInstall(files[file])
     ELSE UNCHANGED <<installed, lastRun>>
  /\ IF HandlesQuit /\ autoInstallEvent = "onNextLaunch"
     THEN updateInfo' \in {Mark} \cup InfoWritten /\ isInstallOwed' = TRUE
     ELSE updateInfo' \in {updateInfo} \cup InfoWritten /\ UNCHANGED isInstallOwed
  /\ EndProcess
  /\ UNCHANGED <<latest, files, tempFile>>

\* A crash, or an exit with another code.
Crash ==
  /\ isRunning
  /\ updateInfo' \in {updateInfo} \cup InfoWritten
  /\ EndProcess
  /\ UNCHANGED <<latest, installed, files, tempFile, lastRun, isInstallOwed>>

Launch ==
  /\ ~isRunning
  /\ isRunning' = TRUE
  /\ lastRun' = NoRun
  /\ UNCHANGED <<latest, installed, disk, helper, isQuitHandled, isHandedOff, download,
                 pendingInstall, accepted, isAnnounced, isInstallOwed, isMarkerKept, isDisturbed>>

\* The publisher releases an update, or takes one back.
Publish ==
  /\ latest' \in Versions \ {latest}
  /\ UNCHANGED <<installed, disk, helper, session, download, pendingInstall, history>>

\* Between launches, a file of the cache is damaged.
DamageFile(p) ==
  /\ ~isRunning
  /\ files[p] # None
  /\ files' = [files EXCEPT ![p] = Corrupt]
  /\ UNCHANGED <<latest, installed, updateInfo, tempFile, helper, session, download,
                 pendingInstall, history>>

-----------------------------------------------------------------------------
Download ==
  \/ StartDownload
  \/ FindDownload
  \/ HashCachedDownload
  \/ EmptyStaleCache
  \/ AcceptCachedDownload
  \/ FetchUpdate
  \/ AcceptDownload
  \/ SaveDownload
  \/ WriteInfo
  \/ FailToWriteInfo
  \/ FinishDownload
  \/ FailDownload
  \/ ClearAfterDownload

PendingInstall ==
  \/ StartPendingInstall
  \/ MatchPendingUpdate
  \/ AbandonPendingInstall
  \/ FindPendingUpdate
  \/ HashPendingUpdate
  \/ AcceptPendingUpdate
  \/ RejectPendingUpdate
  \/ EmptyAfterPendingInstall
  \/ ReadMarker
  \/ ClearMarker
  \/ FailToClearMarker
  \/ RefuseLaunchInstall
  \/ LaunchInstall

App ==
  \/ AppInstall
  \/ HandOffToNextLaunch
  \/ \E autoInstallEvent \in {"onQuit", "onNextLaunch", "manual"} : Quit(autoInstallEvent)
  \/ Crash
  \/ Launch

Environment ==
  \/ Publish
  \/ \E p \in Paths : DamageFile(p)

Next ==
  \/ Download
  \/ PendingInstall
  \/ App
  \/ Environment

Spec == Init /\ [][Next]_vars

-----------------------------------------------------------------------------
(***************************************************************************)
(* Properties.                                                             *)
(***************************************************************************)
RunsBy(who) == lastRun' # lastRun /\ lastRun'.startedBy \in who

\* A marked update is installed on launch once: whether that install worked, failed or
\* only seemed to work, no later launch runs an installer unless an update was marked
\* since, or the write that was to clear its marker failed.  Without it, an app whose
\* installer fails would start it and quit for ever.
OneLaunchInstallPerMark == [][RunsBy({"launch"}) => isInstallOwed]_vars

\* The marker is gone from the disk when its installer runs, as installPendingUpdate
\* documents it: no install that fails silently is repeated on every launch.
NoMarkerOutlivesInstall == [][RunsBy({"launch"}) => ~IsMarked']_vars

\* The install on launch never installs the version that runs, nor an older one against
\* allowDowngrade, whatever the server and a concurrent download do after it checked.
LaunchInstallsOnlyChanges ==
  [][ RunsBy({"launch"}) /\ lastRun'.content \in Versions
      => IsInstallableChange(lastRun'.content) ]_vars

\* However the cache was damaged between launches, and whatever a crash left in it, no
\* damaged installer runs.
NoDamagedInstallerRuns == [][RunsBy({"app", "quit", "launch"}) => lastRun'.content # Corrupt]_vars

\* Only bytes that the app's verifier accepted in this launch are run: by a quit and by the
\* launch, although the helper points at a cached installer before the verifier has seen
\* it, and by the app once update-downloaded was emitted, before which it must not install.
OnlyAcceptedUpdatesRun ==
  [][ RunsBy({"quit", "launch"}) \/ (RunsBy({"app"}) /\ isAnnounced)
      => lastRun'.content \in accepted \cup {None} ]_vars

IsCacheQuiet == isRunning /\ download.step = "idle" /\ pendingInstall.step = "idle"

\* Between downloads the helper points at the installer of the update it describes: what
\* a quit installs or marks.
HelperMatchesCache ==
  IsCacheQuiet /\ file # None /\ ~isDisturbed => files[file] = downloadedInfo.update

\* The same when a download and a pending install overlapped, as executeDownload states it:
\* once the update is downloaded and verified, quitting installs it.
DownloadedUpdateStaysInCache ==
  IsCacheQuiet /\ file # None /\ ~isHandedOff => files[file] = downloadedInfo.update
=============================================================================
