----------------------------- MODULE MacUpdate -----------------------------
(***************************************************************************)
(* Updates on macOS over several launches of the app: AppUpdater's checks  *)
(* and its one download at a time (checkForUpdates, downloadUpdate,        *)
(* executeDownload), the differential download against the zip and the     *)
(* block map cached by an earlier one (differentialDownloadInstaller), the *)
(* hand-over to Squirrel.Mac through a local server (MacUpdater), and      *)
(* Squirrel.Mac itself (external).                                         *)
(*                                                                         *)
(* A version stands for its files.  What update-info.json and the app's    *)
(* verifier do for the pending directory, UpdateCache has in detail.       *)
(***************************************************************************)
EXTENDS Naturals

CONSTANTS
  MaxVersion,  \* the app starts as version 1 and the server publishes up to this one
  MaxFaults,   \* bound: failed operations, cancels, exits
  None,        \* no version
  Corrupt      \* a damaged file

ASSUME BoundsAssumption == MaxVersion \in Nat \ {0} /\ MaxFaults \in Nat
ASSUME ContentAssumption == None \notin Nat /\ Corrupt \notin Nat /\ None # Corrupt

Versions == 1..MaxVersion
OptionalVersions == Versions \cup {None}

VARIABLES
  \* chosen by the app, its release and the machine
  isManual,       \* autoInstallEvent is "manual"
  isSameSize,     \* the zips of all versions have the same size
  \* on the server and on disk
  latest,         \* the version in the server's update info
  installed,      \* the version of the app
  cachedZip,      \* update.zip in the cache directory
  cachedMap,      \* current.blockmap next to it
  pendingMap,     \* current.blockmap in the pending directory
  pendingZip,     \* the downloaded update there
  tempZip,        \* and its temporary file
  \* in the process
  isRunning,
  info,           \* updateInfoAndProvider: the version the last check has found, or None
  download,       \* downloadPromise: executeDownload's step, update, options, token
  announced,      \* the version of the last update-downloaded event, or None
  feed,           \* what the local server serves, the version, or None
  squirrelDownloadedUpdate,
  isQuitAwaited,  \* quitAndInstall waits for Squirrel
  squirrel,       \* Squirrel.Mac: what it does with which update, and what it has staged
  \* history and bounds
  isTorn,         \* an exit, an error or the option switched off has left one of the two cached
                  \* files unreplaced
  faults

settings == <<isManual, isSameSize>>
cache == <<cachedZip, cachedMap, isTorn>>
pending == <<pendingMap, pendingZip, tempZip>>
handover == <<announced, feed>>
quitting == <<squirrelDownloadedUpdate, isQuitAwaited>>
world == <<latest, installed, isRunning>>
vars == <<settings, world, cache, pending, info, download, handover, quitting, squirrel, faults>>

Steps == {"idle", "looking", "verifyingCached", "planning", "mapping", "ranging", "fetching",
          "verifying", "renaming", "copyingMap", "copyingZip", "serving", "handingOver"}

\* Until the temporary file is verified, a cancel of the token ends a fresh download.
CancellableSteps == {"planning", "mapping", "ranging", "fetching", "verifying"}

\* The steps before the file, a fresh one or that of an earlier download, is verified.
UnverifiedSteps == {"looking", "verifyingCached"} \cup CancellableSteps

Idle == [step |-> "idle", update |-> None, isDifferential |-> FALSE, plan |-> None,
         isFromCache |-> FALSE, isCancelled |-> FALSE, isCancelledInTime |-> FALSE]

TypeOK ==
  /\ isManual \in BOOLEAN /\ isSameSize \in BOOLEAN /\ isTorn \in BOOLEAN
  /\ isRunning \in BOOLEAN /\ squirrelDownloadedUpdate \in BOOLEAN /\ isQuitAwaited \in BOOLEAN
  /\ latest \in Versions /\ installed \in Versions
  /\ cachedMap \in OptionalVersions /\ cachedZip \in OptionalVersions \cup {Corrupt}
  /\ pendingMap \in OptionalVersions /\ pendingZip \in OptionalVersions
  /\ tempZip \in OptionalVersions \cup {Corrupt}
  /\ info \in OptionalVersions /\ announced \in OptionalVersions /\ feed \in OptionalVersions
  /\ download \in [step : Steps, update : OptionalVersions, isDifferential : BOOLEAN,
                   plan : OptionalVersions, isFromCache : BOOLEAN,
                   isCancelled : BOOLEAN, isCancelledInTime : BOOLEAN]
  /\ squirrel \in [step : {"idle", "fetching", "staging"}, update : OptionalVersions,
                   staged : OptionalVersions]
  /\ faults \in 0..MaxFaults

\* The first launch: the app was installed from a dmg, nothing is cached.
Init ==
  /\ isManual \in BOOLEAN
  /\ isSameSize \in BOOLEAN
  /\ latest = 1 /\ installed = 1
  /\ cachedZip = None /\ cachedMap = None /\ isTorn = FALSE
  /\ pendingMap = None /\ pendingZip = None /\ tempZip = None
  /\ isRunning = TRUE
  /\ info = None
  /\ download = Idle
  /\ announced = None /\ feed = None
  /\ squirrelDownloadedUpdate = FALSE /\ isQuitAwaited = FALSE
  /\ squirrel = [step |-> "idle", update |-> None, staged |-> None]
  /\ faults = 0

Fails == faults < MaxFaults /\ faults' = faults + 1

-----------------------------------------------------------------------------
(* Checks and the start of a download *)

Publish ==
  /\ latest < MaxVersion
  /\ latest' = latest + 1
  /\ UNCHANGED <<settings, installed, isRunning, cache, pending, info, download, handover, quitting,
                 squirrel, faults>>

\* downloadUpdate of update u: the download in progress, whatever its update, or a new one.
DownloadUpdate(u) ==
  IF download.step # "idle" THEN UNCHANGED download
  ELSE \E isDifferential \in BOOLEAN :
         download' = [Idle EXCEPT !.step = "looking", !.update = u, !.isDifferential = isDifferential]

\* checkForUpdates of an app that downloads what it finds at once.
CheckForUpdates ==
  /\ isRunning
  /\ IF latest > installed THEN info' = latest /\ DownloadUpdate(latest)
     ELSE UNCHANGED <<info, download>>
  /\ UNCHANGED <<settings, world, cache, pending, handover, quitting, squirrel, faults>>

\* cancel() of the token of the download in progress.  That of a check which has shared the
\* download of another one does nothing.
Cancel ==
  /\ download.step # "idle" /\ ~download.isCancelled
  /\ download' = [download EXCEPT !.isCancelled = TRUE,
                                  !.isCancelledInTime = download.step \in UnverifiedSteps]
  /\ Fails
  /\ UNCHANGED <<settings, world, cache, pending, info, handover, quitting, squirrel>>

-----------------------------------------------------------------------------
(* executeDownload *)

GoTo(step) == download' = [download EXCEPT !.step = step]

At(step) == download.step = step

\* validateDownloadedPath: another update's file is emptied away with the directory.
Look ==
  /\ At("looking")
  /\ IF pendingZip = download.update
       THEN GoTo("verifyingCached") /\ UNCHANGED pending
       ELSE /\ GoTo("planning")
            /\ IF pendingZip = None THEN UNCHANGED pending
               ELSE pendingMap' = None /\ pendingZip' = None /\ tempZip' = None
  /\ UNCHANGED <<settings, world, cache, info, handover, quitting, squirrel, faults>>

\* The custom verifier accepts what an earlier download has saved: `done` at once, without a
\* look at the token.
AcceptCached ==
  /\ At("verifyingCached")
  /\ download' = [download EXCEPT !.step = "copyingMap", !.isFromCache = TRUE]
  /\ UNCHANGED <<settings, world, cache, pending, info, handover, quitting, squirrel, faults>>

\* A fresh download drops the block map of an earlier round, and is differential if there is a
\* zip to take blocks from.
StartFresh ==
  /\ At("planning")
  /\ pendingMap' = None
  /\ GoTo(IF cachedZip # None /\ download.isDifferential THEN "mapping" ELSE "fetching")
  /\ UNCHANGED <<settings, world, cache, pendingZip, tempZip, info, handover, quitting, squirrel,
                 faults>>

\* isBlockMapOfFile compares sizes only; a damaged zip is a truncated one.
IsMapOfZip(map) == map # None /\ cachedZip # Corrupt /\ (map = cachedZip \/ isSameSize)

\* The new block map is saved; the old one is the cached one, else the server's for the installed
\* version, unless neither fits.
LoadMaps ==
  /\ At("mapping") /\ ~download.isCancelled
  /\ pendingMap' = download.update
  /\ download' =
       IF IsMapOfZip(cachedMap) THEN [download EXCEPT !.step = "ranging", !.plan = cachedMap]
       ELSE IF IsMapOfZip(installed) THEN [download EXCEPT !.step = "ranging", !.plan = installed]
       ELSE [download EXCEPT !.step = "fetching"]
  /\ UNCHANGED <<settings, world, cache, pendingZip, tempZip, info, handover, quitting, squirrel,
                 faults>>

\* A request fails before or after the new map is saved, or there is no old map at its URL.
LoadMapsFails ==
  /\ At("mapping") /\ ~download.isCancelled
  /\ pendingMap' \in {pendingMap, download.update}
  /\ GoTo("fetching")
  /\ Fails
  /\ UNCHANGED <<settings, world, cache, pendingZip, tempZip, info, handover, quitting, squirrel>>

\* Mutant: the result of a differential download is not compared with the checksum.
DownloadRangesUnchecked ==
  /\ At("ranging") /\ ~download.isCancelled
  /\ GoTo("verifying")
  /\ tempZip' = IF download.plan = cachedZip THEN download.update ELSE Corrupt
  /\ UNCHANGED <<settings, world, cache, pendingMap, pendingZip, info, handover, quitting, squirrel,
                 faults>>

\* The blocks are copied as the old map says: with a map of other bytes the checksum tells, and
\* the update is downloaded in full.
DownloadRanges ==
  /\ At("ranging") /\ ~download.isCancelled
  /\ IF download.plan = cachedZip
       THEN GoTo("verifying") /\ tempZip' = download.update
       ELSE GoTo("fetching") /\ tempZip' = Corrupt
  /\ UNCHANGED <<settings, world, cache, pendingMap, pendingZip, info, handover, quitting, squirrel,
                 faults>>

DownloadRangesFails ==
  /\ At("ranging") /\ ~download.isCancelled
  /\ GoTo("fetching")
  /\ tempZip' = Corrupt
  /\ Fails
  /\ UNCHANGED <<settings, world, cache, pendingMap, pendingZip, info, handover, quitting, squirrel>>

Fetch ==
  /\ At("fetching") /\ ~download.isCancelled
  /\ tempZip' = download.update
  /\ GoTo("verifying")
  /\ UNCHANGED <<settings, world, cache, pendingMap, pendingZip, info, handover, quitting, squirrel,
                 faults>>

\* Mutant: the token is not looked at after the verification.
VerifyWithoutToken ==
  /\ At("verifying")
  /\ GoTo("renaming")
  /\ UNCHANGED <<settings, world, cache, pending, info, handover, quitting, squirrel, faults>>

\* The verifier accepts the file, and the token is looked at for the last time.
Verify ==
  /\ At("verifying") /\ ~download.isCancelled
  /\ GoTo("renaming")
  /\ UNCHANGED <<settings, world, cache, pending, info, handover, quitting, squirrel, faults>>

\* Mutant: the promise of a failed download stays.
EndDownloadOnSuccess == download' = [download EXCEPT !.plan = None]

\* The promise settles and is forgotten.
EndDownload == download' = Idle

\* An error or the cancelled token ends the task; removeFileIfAny empties the directory.
FailDownload ==
  /\ \/ download.step \in CancellableSteps \ {"planning"} /\ download.isCancelled /\ UNCHANGED faults
     \/ download.step \in {"verifyingCached", "fetching", "verifying", "renaming"} /\ Fails
  /\ EndDownload
  /\ pendingMap' = None /\ pendingZip' = None /\ tempZip' = None
  /\ UNCHANGED <<settings, world, cache, info, handover, quitting, squirrel>>

\* The rename, retried while the file is busy, and update-info.json.
Rename ==
  /\ At("renaming")
  /\ pendingZip' = tempZip /\ tempZip' = None
  /\ GoTo("copyingMap")
  /\ UNCHANGED <<settings, world, cache, pendingMap, info, handover, quitting, squirrel, faults>>

\* Mutant: without a new block map, the cached one stays.
CopyMapIfAny ==
  /\ At("copyingMap")
  /\ cachedMap' = IF pendingMap # None THEN pendingMap ELSE cachedMap
  /\ GoTo(IF download.isDifferential THEN "copyingZip" ELSE "serving")
  /\ UNCHANGED <<settings, world, cachedZip, isTorn, pending, info, handover, quitting, squirrel,
                 faults>>

\* `done`: the cached block map is replaced, or removed when this download has none.
CopyMap ==
  /\ At("copyingMap")
  /\ cachedMap' = IF pendingMap # None THEN pendingMap
                  ELSE IF download.isDifferential THEN None ELSE cachedMap
  /\ isTorn' = (isTorn \/ (~download.isDifferential /\ pendingMap \notin {None, cachedZip}))
  /\ GoTo(IF download.isDifferential THEN "copyingZip" ELSE "serving")
  /\ UNCHANGED <<settings, world, cachedZip, pending, info, handover, quitting, squirrel, faults>>

\* An error of the copy or of the removal rejects the download; what is pending stays.
CopyMapFails ==
  /\ At("copyingMap")
  /\ cachedMap' \in IF pendingMap # None THEN {cachedMap, None} ELSE {cachedMap}
  /\ isTorn' = (isTorn /\ cachedMap' # None)
  /\ EndDownload
  /\ Fails
  /\ UNCHANGED <<settings, world, cachedZip, pending, info, handover, quitting, squirrel>>

\* MacUpdater's `done`: then the cached zip.
CopyZip ==
  /\ At("copyingZip")
  /\ cachedZip' = pendingZip
  /\ isTorn' = FALSE
  /\ GoTo("serving")
  /\ UNCHANGED <<settings, world, cachedMap, pending, info, handover, quitting, squirrel, faults>>

\* An error of the copy is only logged.
CopyZipFails ==
  /\ At("copyingZip")
  /\ cachedZip' \in {cachedZip, Corrupt}
  /\ isTorn' = (cachedMap # None)
  /\ GoTo("serving")
  /\ Fails
  /\ UNCHANGED <<settings, world, cachedMap, pending, info, handover, quitting, squirrel>>

-----------------------------------------------------------------------------
(* Squirrel.Mac *)

\* updateDownloaded: a server for this update replaces the last one, and unless the app installs
\* manually, Squirrel is told to fetch it.  One that is busy reports an error.
Serve ==
  /\ At("serving")
  /\ announced' = download.update
  /\ feed' = download.update
  /\ IF isManual \/ squirrel.step # "idle"
       THEN EndDownload /\ UNCHANGED squirrel
       ELSE /\ GoTo("handingOver")
            /\ squirrel' = [squirrel EXCEPT !.step = "fetching", !.update = download.update]
  /\ UNCHANGED <<settings, world, cache, pending, info, quitting, faults>>

\* The end of the response resolves the download; one whose file is gone fails both.
SquirrelFetches ==
  /\ squirrel.step = "fetching"
  /\ squirrel' = IF squirrel.update = pendingZip THEN [squirrel EXCEPT !.step = "staging"]
                 ELSE [squirrel EXCEPT !.step = "idle", !.update = None]
  /\ IF At("handingOver") THEN EndDownload ELSE UNCHANGED download
  /\ UNCHANGED <<settings, world, cache, pending, info, handover, quitting, faults>>

SquirrelFails ==
  /\ squirrel.step # "idle"
  /\ squirrel' = [squirrel EXCEPT !.step = "idle", !.update = None]
  /\ IF At("handingOver") /\ squirrel.step = "fetching" THEN EndDownload ELSE UNCHANGED download
  /\ Fails
  /\ UNCHANGED <<settings, world, cache, pending, info, handover, quitting>>

\* The process is gone, and what Squirrel has staged is installed.
Exit(staged) ==
  /\ isRunning' = FALSE
  /\ installed' = IF staged = None THEN installed ELSE staged
  /\ info' = None /\ download' = Idle /\ announced' = None /\ feed' = None
  /\ squirrelDownloadedUpdate' = FALSE /\ isQuitAwaited' = FALSE
  /\ squirrel' = [step |-> "idle", update |-> None, staged |-> None]
  /\ tempZip' = None
  /\ UNCHANGED <<settings, latest, pendingMap, pendingZip>>

\* A copy may be cut short, of the map too, which is ignored then.
CutCopies ==
  /\ cachedMap' \in IF At("copyingMap") THEN {cachedMap, None, pendingMap} ELSE {cachedMap}
  /\ cachedZip' \in IF At("copyingZip") THEN {cachedZip, Corrupt, pendingZip} ELSE {cachedZip}
  /\ isTorn' = (cachedMap' # None /\ (isTorn \/ cachedMap' # cachedZip'))

\* A quit or a crash.
Quit ==
  /\ isRunning
  /\ Exit(squirrel.staged)
  /\ CutCopies
  /\ Fails

\* The update is staged; the quit that waits for it follows.
SquirrelStages ==
  /\ squirrel.step = "staging"
  /\ IF isQuitAwaited THEN Exit(squirrel.update) /\ CutCopies
     ELSE /\ squirrel' = [step |-> "idle", update |-> None, staged |-> squirrel.update]
          /\ squirrelDownloadedUpdate' = TRUE
          /\ UNCHANGED <<settings, world, cache, pending, info, download, handover, isQuitAwaited>>
  /\ UNCHANGED faults

\* At once if Squirrel has got an update in this launch; else as soon as it has, which it is told
\* to fetch only if the app installs manually.
QuitAndInstall ==
  /\ isRunning /\ announced # None
  /\ IF squirrelDownloadedUpdate THEN Exit(squirrel.staged) /\ CutCopies
     ELSE /\ isQuitAwaited' = TRUE
          /\ squirrel' = IF isManual /\ squirrel.step = "idle"
                           THEN [squirrel EXCEPT !.step = "fetching", !.update = feed] ELSE squirrel
          /\ UNCHANGED <<settings, world, cache, pending, info, download, handover,
                         squirrelDownloadedUpdate>>
  /\ UNCHANGED faults

Launch ==
  /\ ~isRunning
  /\ isRunning' = TRUE
  /\ UNCHANGED <<settings, latest, installed, cache, pending, info, download, handover, quitting,
                 squirrel, faults>>

-----------------------------------------------------------------------------
DownloadStep ==
  \/ Look \/ AcceptCached \/ StartFresh
  \/ LoadMaps \/ LoadMapsFails \/ DownloadRanges \/ DownloadRangesFails \/ Fetch
  \/ Verify \/ FailDownload \/ Rename
  \/ CopyMap \/ CopyMapFails \/ CopyZip \/ CopyZipFails \/ Serve

SquirrelStep == SquirrelFetches \/ SquirrelStages \/ SquirrelFails

Next ==
  \/ Publish \/ CheckForUpdates \/ Cancel
  \/ DownloadStep \/ SquirrelStep
  \/ QuitAndInstall \/ Quit \/ Launch

\* The app checks again and again while it runs; requests, copies and the verifier end, and
\* Squirrel fetches what it is told to and reports how that went.
Fairness == WF_vars(CheckForUpdates) /\ WF_vars(DownloadStep) /\ WF_vars(SquirrelStep)

Spec == Init /\ [][Next]_vars /\ Fairness

-----------------------------------------------------------------------------
(* Properties *)

\* No stale block map sits next to a fresh zip, to poison the next differential download with a
\* wrong copy plan, however the downloads have gone: differential or in full, cached, failed or
\* cancelled (`done` of executeDownload).  A pair torn by an exit, or by an error of a copy, is
\* made good by the next download that is completed.
MapDescribesZip ==
  /\ TypeOK
  /\ isTorn \/ At("copyingZip") \/ cachedMap \in {None, cachedZip}

\* An update is announced with all its bytes right, whichever old map and zip it was put together
\* from, torn ones included.
AnnouncedIsWhole == [][ Serve => pendingZip = download.update ]_vars

\* A download cancelled before its file is verified announces nothing, also when the cancel comes
\* in the middle of a differential download that would fall back to a full one, or of the
\* verification.  The one exception is a file that an earlier download has saved: its path in
\* executeDownload never looks at the token, and announces it.
CancelledIsNotAnnounced ==
  [][ Serve /\ download.isCancelledInTime => download.isFromCache ]_vars

\* In an app that goes on checking, the latest version is announced in the end, although a check
\* that finds it during the download of an older one only gets the promise of that one, and
\* whatever fails or is cancelled first: every download settles and is forgotten.
LatestIsOffered ==
  \A v \in Versions :
    isRunning /\ latest = v /\ installed # v ~> latest # v \/ ~isRunning \/ announced = v
=============================================================================
