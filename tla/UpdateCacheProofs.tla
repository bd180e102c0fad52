-------------------------- MODULE UpdateCacheProofs --------------------------
(***************************************************************************)
(* Proofs about UpdateCache, for any number of versions, shared or         *)
(* distinct file names, and either value of allowDowngrade.                *)
(***************************************************************************)
EXTENDS UpdateCache, TLAPS

\* What the steps of the two users of the cache have read when they need it.
Steps ==
  /\ download.step # "idle" => download.update \in Versions
  /\ download.step \in {"hashing", "writingInfo"} => download.read \in CachedUpdateInfo
  /\ pendingInstall.step # "idle" => pendingInstall.update \in Versions
  /\ pendingInstall.step \in {"hashing", "writingMarker"} =>
       pendingInstall.read \in CachedUpdateInfo
  /\ file # None => downloadedInfo \in CachedUpdateInfo

\* What the running version may be replaced with: no file, or a version that is a change.
Installable == {None} \cup {v \in Versions : IsInstallableChange(v)}

\* The helper's file, and every file on its way to become that, is installable.
Sound ==
  /\ ~isRunning => file = None /\ download = NoDownload /\ pendingInstall = NoPendingInstall
  /\ download.step # "idle" => IsInstallableChange(download.update)
  /\ pendingInstall.step \in {"readingInfo", "hashing", "verifying"} =>
       IsInstallableChange(pendingInstall.update)
  /\ file # None => files[file] \in Installable
  /\ download.step = "verifyingCached" => files[UpdateFile(download.update)] \in Installable
  /\ download.step \in {"verifying", "renaming"} => tempFile \in Installable

\* A marker on disk is still to be honoured, and gone before its installer runs unless the
\* write that clears it has failed.
Marker ==
  /\ IsMarked => isInstallOwed
  /\ pendingInstall.step # "idle" => isInstallOwed
  /\ pendingInstall.step = "installing" /\ ~isHandedOff => ~IsMarked \/ isMarkerKept
  /\ download.step = "writingInfo" => ~download.read.installOnNextLaunch

\* The inductive invariant.
IInv == TypeOK /\ Steps /\ Sound /\ Marker

\* update-info.json stays a record when its marker changes.
LEMMA MarkedInfo ==
  ASSUME NEW i \in CachedUpdateInfo, NEW b \in BOOLEAN
  PROVE  [i EXCEPT !.installOnNextLaunch = b] \in CachedUpdateInfo
  BY DEF CachedUpdateInfo

\* What a download saves is a record.
LEMMA SavedInfo ==
  ASSUME NEW u \in Versions
  PROVE  [update |-> u, installOnNextLaunch |-> FALSE] \in CachedUpdateInfo
  BY DEF CachedUpdateInfo

\* A change of its step keeps the download's record.
LEMMA DownloadStepOK ==
  ASSUME download \in Downloads, NEW s \in DownloadSteps, DownloadGoesTo(s)
  PROVE  download' \in Downloads
  BY DEF DownloadGoesTo, Downloads

\* No download in progress is one of the download's states.
LEMMA NoDownloadOK == NoDownload \in Downloads /\ NoDownload.step = "idle"
  BY DEF NoDownload, Downloads, DownloadSteps

\* A change of its step keeps the record of the pending install.
LEMMA PendingStepOK ==
  ASSUME pendingInstall \in PendingInstalls, NEW s \in PendingSteps, PendingGoesTo(s)
  PROVE  pendingInstall' \in PendingInstalls
  BY DEF PendingGoesTo, PendingInstalls

\* Nor does an idle pending install leave its type.
LEMMA NoPendingInstallOK ==
  NoPendingInstall \in PendingInstalls /\ NoPendingInstall.step = "idle"
  BY DEF NoPendingInstall, PendingInstalls, PendingSteps

\* A run of an installer is remembered as a record.
LEMMA RunOK ==
  ASSUME lastRun \in Runs, NEW c \in Contents, NEW by \in {"app", "quit", "launch"},
         Run(c, by)
  PROVE  lastRun' \in Runs
  BY DEF Run, Runs

\* What a write in progress leaves in update-info.json is a record or does not parse.
LEMMA WrittenInfo == Steps => InfoWritten \subseteq CachedUpdateInfo \cup {Corrupt}
<1> SUFFICES ASSUME Steps PROVE InfoWritten \subseteq CachedUpdateInfo \cup {Corrupt}
  OBVIOUS
<1>1. download.step = "writingInfo" => download.read \in CachedUpdateInfo
  BY DEF Steps
<1>2. pendingInstall.step = "writingMarker" =>
        [pendingInstall.read EXCEPT !.installOnNextLaunch = FALSE] \in CachedUpdateInfo
  BY MarkedInfo DEF Steps
<1> QED
  BY <1>1, <1>2 DEF InfoWritten

\* The other records that the steps write.
LEMMA Records ==
  ASSUME TypeOK
  PROVE  /\ [step |-> "readingInfo", update |-> latest, read |-> None] \in Downloads
         /\ \A i \in CachedUpdateInfo :
              /\ [download EXCEPT !.step = "hashing", !.read = i] \in Downloads
              /\ [download EXCEPT !.step = "writingInfo", !.read = i] \in Downloads
              /\ [pendingInstall EXCEPT !.step = "hashing", !.read = i] \in PendingInstalls
              /\ [pendingInstall EXCEPT !.step = "writingMarker", !.read = i] \in PendingInstalls
              /\ [NoPendingInstall EXCEPT !.step = "fetching", !.update = i.update]
                   \in PendingInstalls
         /\ [pendingInstall EXCEPT !.step = "readingMarker", !.isInstallable = TRUE]
              \in PendingInstalls
         /\ NoRun \in Runs
  BY DEF TypeOK, Downloads, PendingInstalls, DownloadSteps, PendingSteps, NoPendingInstall, NoRun,
         CachedUpdateInfo, Runs, Contents

\* Every step preserves the types.
LEMMA NextTypeOK == TypeOK /\ Steps /\ [Next]_vars => TypeOK'
<1> SUFFICES ASSUME TypeOK, Steps, [Next]_vars PROVE TypeOK'
  OBVIOUS
<1> USE VersionsAssumption, ContentAssumption
    DEF TypeOK, Steps, disk, helper, history, session
<1>p. \A v \in Versions : UpdateFile(v) \in Paths
  BY DEF Paths
<1>i. InfoWritten \subseteq CachedUpdateInfo \cup {Corrupt}
  BY WrittenInfo
<1>e. EmptyDir => /\ updateInfo' \in CachedUpdateInfo \cup {None, Corrupt}
                  /\ files' \in [Paths -> Contents]
                  /\ tempFile' \in Versions \cup {None}
  BY DEF EmptyDir, Contents
<1>x. EndProcess => /\ isRunning' = FALSE /\ file' = None /\ downloadedInfo' = None
                    /\ versionInfo' = None /\ isQuitHandled' = FALSE /\ isHandedOff' = FALSE
                    /\ download' \in Downloads /\ pendingInstall' \in PendingInstalls
                    /\ accepted' = {} /\ isAnnounced' = FALSE /\ isMarkerKept' = FALSE
                    /\ isDisturbed' = FALSE
  BY NoDownloadOK, NoPendingInstallOK DEF EndProcess
<1>r. \A c \in Contents, by \in {"app", "quit", "launch"} : Run(c, by) => lastRun' \in Runs
  BY RunOK
<1>v. \A c : InstallerMayInstall(c) => installed' \in Versions
  BY DEF InstallerMayInstall
<1>a. \A c \in Contents : Accepts(c) => accepted' \in SUBSET Contents
  BY DEF Accepts
<1>m. file # None => Mark \in CachedUpdateInfo
  BY MarkedInfo DEF Mark
<1>n. UnmarksMemory => /\ downloadedInfo' \in CachedUpdateInfo \cup {None}
                       /\ UNCHANGED <<file, versionInfo>>
  BY MarkedInfo DEF UnmarksMemory
<1>k. AfterMarker => pendingInstall' \in PendingInstalls
  BY PendingStepOK, NoPendingInstallOK DEF AfterMarker, PendingSteps
<1>f. \A c \in Paths : files[c] \in Contents
  OBVIOUS
<1>1. CASE StartDownload
  BY <1>1, Records DEF StartDownload
<1>2. CASE FindDownload
  <2>1. ASSUME NEW s \in DownloadSteps, DownloadGoesTo(s) PROVE download' \in Downloads
    BY <2>1, DownloadStepOK
  <2>2. ~IsInfoMissing /\ ~IsInfoStale(download.update) => updateInfo \in CachedUpdateInfo
    BY DEF IsInfoMissing, IsInfoStale
  <2>3. updateInfo \in CachedUpdateInfo =>
          [download EXCEPT !.step = "hashing", !.read = updateInfo] \in Downloads
    BY Records
  <2>4. download' \in Downloads
    BY <1>2, <2>1, <2>2, <2>3 DEF FindDownload, DownloadSteps
  <2> QED
    BY <1>2, <2>4 DEF FindDownload
<1>3. CASE HashCachedDownload
  BY <1>3, <1>p, DownloadStepOK DEF HashCachedDownload, UsesCachedFile, DownloadSteps
<1>4. CASE EmptyStaleCache
  BY <1>4, <1>e, DownloadStepOK DEF EmptyStaleCache, DownloadSteps
<1>5. CASE AcceptCachedDownload
  BY <1>5, <1>p, <1>f, <1>a, SavedInfo, DownloadStepOK DEF AcceptCachedDownload, SetDownloadedFile, DownloadSteps
<1>6. CASE FetchUpdate
  BY <1>6, DownloadStepOK DEF FetchUpdate, DownloadSteps
<1>7. CASE AcceptDownload
  BY <1>7, <1>a, DownloadStepOK DEF AcceptDownload, DownloadSteps, Contents
<1>8. CASE SaveDownload
  BY <1>8, <1>p, SavedInfo, Records DEF SaveDownload, SetDownloadedFile, Contents
<1>9. CASE WriteInfo
  BY <1>9, DownloadStepOK DEF WriteInfo, DownloadSteps
<1>10. CASE FailToWriteInfo
  BY <1>10, NoDownloadOK DEF FailToWriteInfo
<1>11. CASE FinishDownload
  BY <1>11, NoDownloadOK DEF FinishDownload
<1>12. CASE FailDownload
  BY <1>12, DownloadStepOK DEF FailDownload, ForgetFile, DownloadSteps
<1>13. CASE ClearAfterDownload
  BY <1>13, <1>e, NoDownloadOK DEF ClearAfterDownload
<1>14. CASE StartPendingInstall
  BY <1>14, Records DEF StartPendingInstall, IsMarked
<1>15. CASE MatchPendingUpdate
  BY <1>15, PendingStepOK DEF MatchPendingUpdate, PendingSteps
<1>16. CASE AbandonPendingInstall
  BY <1>16, NoPendingInstallOK DEF AbandonPendingInstall
<1>17. CASE FindPendingUpdate
  <2>1. ~IsInfoMissing /\ ~IsInfoStale(pendingInstall.update) => updateInfo \in CachedUpdateInfo
    BY DEF IsInfoMissing, IsInfoStale
  <2>2. updateInfo \in CachedUpdateInfo =>
          [pendingInstall EXCEPT !.step = "hashing", !.read = updateInfo] \in PendingInstalls
    BY Records
  <2>3. pendingInstall' \in PendingInstalls
    BY <1>17, <2>1, <2>2, PendingStepOK DEF FindPendingUpdate, PendingSteps
  <2> QED
    BY <1>17, <2>3 DEF FindPendingUpdate
<1>18. CASE HashPendingUpdate
  BY <1>18, <1>p, PendingStepOK DEF HashPendingUpdate, PendingSteps, UsesCachedFile
<1>19. CASE AcceptPendingUpdate
  <2>1. files[UpdateFile(pendingInstall.update)] \in Contents
    BY <1>19, <1>p, <1>f DEF AcceptPendingUpdate
  <2>2. accepted' \in SUBSET Contents
    BY <1>19, <1>a, <2>1 DEF AcceptPendingUpdate
  <2>3. pendingInstall' \in PendingInstalls
    BY <1>19, Records DEF AcceptPendingUpdate
  <2> QED
    BY <1>19, <2>2, <2>3 DEF AcceptPendingUpdate
<1>20. CASE RejectPendingUpdate
  BY <1>20, PendingStepOK DEF RejectPendingUpdate, PendingSteps, ForgetFile
<1>21. CASE EmptyAfterPendingInstall
  BY <1>21, <1>e, NoPendingInstallOK DEF EmptyAfterPendingInstall
<1>22. CASE ReadMarker
  <2>1. pendingInstall' \in PendingInstalls
    BY <1>22, <1>k, Records DEF ReadMarker
  <2>2. /\ downloadedInfo' \in CachedUpdateInfo \cup {None}
        /\ UNCHANGED <<file, versionInfo>>
    BY <1>22, <1>n DEF ReadMarker
  <2> QED
    BY <1>22, <2>1, <2>2 DEF ReadMarker
<1>23. CASE ClearMarker
  BY <1>23, <1>k, <1>n, MarkedInfo DEF ClearMarker
<1>24. CASE RefuseLaunchInstall
  BY <1>24, NoPendingInstallOK DEF RefuseLaunchInstall
<1>25. CASE LaunchInstall
  <2>1. (isMarkerKept /\ IsMarked') \in BOOLEAN
    OBVIOUS
  <2> QED
    BY <1>25, <1>f, <1>i, <1>x, <1>r, <1>v, <2>1, NoPendingInstallOK DEF LaunchInstall
<1>26. CASE AppInstall
  BY <1>26, <1>f, <1>i, <1>x, <1>r, <1>v DEF AppInstall
<1>27. CASE HandOffToNextLaunch
  BY <1>27, <1>m DEF HandOffToNextLaunch
<1>28. ASSUME NEW e \in {"onQuit", "onNextLaunch", "manual"}, Quit(e) PROVE TypeOK'
  BY <1>28, <1>f, <1>i, <1>x, <1>r, <1>v, <1>m DEF Quit, HandlesQuit
<1>29. CASE Crash
  BY <1>29, <1>i, <1>x DEF Crash
<1>30. CASE Launch
  <2>1. lastRun' \in Runs
    BY <1>30, Records DEF Launch
  <2> QED
    BY <1>30, <2>1 DEF Launch
<1>31. CASE Publish
  BY <1>31 DEF Publish
<1>32. ASSUME NEW p \in Paths, DamageFile(p) PROVE TypeOK'
  BY <1>32 DEF DamageFile, Contents
<1>33. CASE FailToClearMarker
  <2>1. pendingInstall.isInstallable \in BOOLEAN
    BY DEF PendingInstalls
  <2> QED
    BY <1>33, <1>k, <2>1 DEF FailToClearMarker
<1> QED
  BY <1>1, <1>2, <1>3, <1>4, <1>5, <1>6, <1>7, <1>8, <1>9, <1>10, <1>11,
     <1>12, <1>13, <1>14, <1>15, <1>16, <1>17, <1>18, <1>19, <1>20, <1>21, <1>22,
     <1>23, <1>24, <1>25, <1>26, <1>27, <1>28, <1>29, <1>30, <1>31, <1>32, <1>33
  DEF Next, Download, PendingInstall, App, Environment, vars

-----------------------------------------------------------------------------
(***************************************************************************)
(* What a step leaves in the records of the download and the install.      *)
(***************************************************************************)
\* The next step of the download keeps what it has read.
LEMMA DownloadFields ==
  ASSUME download \in Downloads, NEW s, DownloadGoesTo(s)
  PROVE  /\ download'.step = s
         /\ download'.update = download.update
         /\ download'.read = download.read
  BY DEF DownloadGoesTo, Downloads

\* The download reads update-info.json, or what it saves there.
LEMMA DownloadReads ==
  ASSUME download \in Downloads, NEW s, NEW i, download' = [download EXCEPT !.step = s, !.read = i]
  PROVE  /\ download'.step = s
         /\ download'.update = download.update
         /\ download'.read = i
  BY DEF Downloads

\* The next step of the pending install keeps what it has read.
LEMMA PendingFields ==
  ASSUME pendingInstall \in PendingInstalls, NEW s, PendingGoesTo(s)
  PROVE  /\ pendingInstall'.step = s
         /\ pendingInstall'.update = pendingInstall.update
         /\ pendingInstall'.isInstallable = pendingInstall.isInstallable
         /\ pendingInstall'.read = pendingInstall.read
  BY DEF PendingGoesTo, PendingInstalls

\* The pending install reads update-info.json.
LEMMA PendingReads ==
  ASSUME pendingInstall \in PendingInstalls, NEW s, NEW i,
         pendingInstall' = [pendingInstall EXCEPT !.step = s, !.read = i]
  PROVE  /\ pendingInstall'.step = s
         /\ pendingInstall'.update = pendingInstall.update
         /\ pendingInstall'.isInstallable = pendingInstall.isInstallable
         /\ pendingInstall'.read = i
  BY DEF PendingInstalls

\* The verifier accepts the pending update.
LEMMA PendingAccepted ==
  ASSUME pendingInstall \in PendingInstalls,
         pendingInstall' = [pendingInstall EXCEPT !.step = "readingMarker", !.isInstallable = TRUE]
  PROVE  pendingInstall'.step = "readingMarker" /\ pendingInstall'.update = pendingInstall.update
  BY DEF PendingInstalls

\* The pending install starts with the marked update.
LEMMA PendingStarted ==
  ASSUME NEW u, pendingInstall' = [NoPendingInstall EXCEPT !.step = "fetching", !.update = u]
  PROVE  /\ pendingInstall'.step = "fetching" /\ pendingInstall'.update = u
         /\ ~pendingInstall'.isInstallable
  BY DEF NoPendingInstall

\* Past its marker, the pending install is over or installs.
LEMMA MarkerFields ==
  ASSUME pendingInstall \in PendingInstalls, AfterMarker
  PROVE  /\ pendingInstall'.step \in {"idle", "installing"}
         /\ pendingInstall'.step # "idle" => pendingInstall'.update = pendingInstall.update
  BY PendingFields, NoPendingInstallOK DEF AfterMarker

\* Marking the helper's update gives a marked record.
LEMMA MarkOK ==
  ASSUME downloadedInfo \in CachedUpdateInfo
  PROVE  Mark \in CachedUpdateInfo /\ Mark.installOnNextLaunch
  BY DEF Mark, CachedUpdateInfo

\* Clearing the marker in memory keeps the helper's file and record.
LEMMA UnmarksOK ==
  ASSUME UnmarksMemory
  PROVE  /\ file' = file
         /\ downloadedInfo \in CachedUpdateInfo => downloadedInfo' \in CachedUpdateInfo
  BY MarkedInfo DEF UnmarksMemory

\* Nothing in memory outlives the process.
LEMMA ProcessEnds ==
  ASSUME EndProcess
  PROVE  /\ ~isRunning' /\ ~isHandedOff' /\ file' = None
         /\ download' = NoDownload /\ pendingInstall' = NoPendingInstall
         /\ download'.step = "idle" /\ pendingInstall'.step = "idle"
  BY NoDownloadOK, NoPendingInstallOK DEF EndProcess

\* What the download makes of update-info.json and of the helper's file.
LEMMA FindDownloadFields ==
  ASSUME download \in Downloads, FindDownload
  PROVE  /\ download.step = "readingInfo"
         /\ download'.update = download.update
         /\ \/ download'.step \in {"downloading", "emptyingStale"}
            \/ download'.step = "verifyingCached" /\ file = UpdateFile(download.update)
            \/ /\ download'.step = "hashing"
               /\ updateInfo \notin {None, Corrupt} /\ download'.read = updateInfo
<1>1. ASSUME IsDownloadedFile(download.update), NEW s \in {"verifyingCached", "downloading"},
             DownloadGoesTo(s)
      PROVE  /\ download'.update = download.update
             /\ \/ download'.step = "downloading"
                \/ download'.step = "verifyingCached" /\ file = UpdateFile(download.update)
  BY <1>1, DownloadFields DEF IsDownloadedFile
<1>2. CASE IsDownloadedFile(download.update)
  BY <1>1, <1>2 DEF FindDownload
<1>3. CASE ~IsDownloadedFile(download.update)
  <2>1. \/ DownloadGoesTo("downloading")
        \/ DownloadGoesTo("emptyingStale")
        \/ /\ updateInfo \notin {None, Corrupt}
           /\ download' = [download EXCEPT !.step = "hashing", !.read = updateInfo]
    BY <1>3 DEF FindDownload, IsInfoMissing, IsInfoStale
  <2> QED
    BY <2>1, DownloadFields, DownloadReads DEF FindDownload
<1> QED
  BY <1>2, <1>3 DEF FindDownload

-----------------------------------------------------------------------------
\* Every step has read what the next one needs.
LEMMA NextSteps == TypeOK /\ Steps /\ [Next]_vars => Steps'
<1> SUFFICES ASSUME TypeOK, Steps, [Next]_vars PROVE Steps'
  OBVIOUS
<1>T. download \in Downloads /\ pendingInstall \in PendingInstalls /\ latest \in Versions
  BY DEF TypeOK
<1>I. updateInfo \notin {None, Corrupt} =>
        updateInfo \in CachedUpdateInfo /\ updateInfo.update \in Versions
  BY DEF TypeOK, CachedUpdateInfo
<1> USE <1>T DEF Steps, disk, helper, history, session
<1>1. CASE EmptyStaleCache \/ FetchUpdate \/ AcceptDownload \/ WriteInfo \/ FailDownload
  BY <1>1, DownloadFields
  DEF EmptyStaleCache, FetchUpdate, AcceptDownload, WriteInfo, FailDownload, ForgetFile
<1>2. CASE FailToWriteInfo \/ FinishDownload \/ ClearAfterDownload
  BY <1>2, NoDownloadOK DEF FailToWriteInfo, FinishDownload, ClearAfterDownload
<1>3. CASE MatchPendingUpdate \/ RejectPendingUpdate
  BY <1>3, PendingFields DEF MatchPendingUpdate, RejectPendingUpdate, ForgetFile
<1>4. CASE AbandonPendingInstall \/ EmptyAfterPendingInstall \/ RefuseLaunchInstall
  BY <1>4, NoPendingInstallOK
  DEF AbandonPendingInstall, EmptyAfterPendingInstall, RefuseLaunchInstall
<1>5. CASE LaunchInstall \/ AppInstall \/ Crash
  BY <1>5, ProcessEnds, NoPendingInstallOK DEF LaunchInstall, AppInstall, Crash
<1>6. ASSUME NEW e, Quit(e) PROVE Steps'
  BY <1>6, ProcessEnds DEF Quit
<1>7. CASE Publish \/ Launch \/ \E p \in Paths : DamageFile(p)
  BY <1>7 DEF Publish, Launch, DamageFile
<1>8. CASE StartDownload
  BY <1>8 DEF StartDownload
<1>9. CASE FindDownload
  BY <1>9, <1>I, FindDownloadFields DEF FindDownload
<1>10. CASE HashCachedDownload
  BY <1>10, DownloadFields DEF HashCachedDownload, UsesCachedFile
<1>11. CASE AcceptCachedDownload
  BY <1>11, DownloadFields, SavedInfo DEF AcceptCachedDownload, SetDownloadedFile
<1>12. CASE SaveDownload
  <2>1. downloadedInfo' \in CachedUpdateInfo
    BY <1>12, SavedInfo DEF SaveDownload, SetDownloadedFile
  <2> QED
    BY <1>12, <2>1, DownloadReads DEF SaveDownload
<1>13. CASE StartPendingInstall
  BY <1>13, <1>I, PendingStarted DEF StartPendingInstall, IsMarked
<1>14. CASE FindPendingUpdate
  BY <1>14, <1>I, PendingFields, PendingReads DEF FindPendingUpdate, IsInfoMissing, IsInfoStale
<1>15. CASE HashPendingUpdate
  BY <1>15, PendingFields DEF HashPendingUpdate, UsesCachedFile
<1>16. CASE AcceptPendingUpdate
  BY <1>16, PendingAccepted DEF AcceptPendingUpdate
<1>17. CASE ReadMarker
  BY <1>17, <1>I, PendingReads, MarkerFields, UnmarksOK DEF ReadMarker
<1>18. CASE ClearMarker
  BY <1>18, MarkerFields, UnmarksOK DEF ClearMarker
<1>19. CASE HandOffToNextLaunch
  BY <1>19, MarkOK DEF HandOffToNextLaunch
<1>20. CASE FailToClearMarker
  BY <1>20, MarkerFields DEF FailToClearMarker
<1> QED
  BY <1>1, <1>2, <1>3, <1>4, <1>5, <1>6, <1>7, <1>8, <1>9, <1>10, <1>11, <1>12, <1>13, <1>14,
     <1>15, <1>16, <1>17, <1>18, <1>19, <1>20
  DEF Next, Download, PendingInstall, App, Environment, vars

\* No step gives the helper a file that is not installable.
LEMMA NextSound == TypeOK /\ Steps /\ Sound /\ [Next]_vars => Sound'
<1> SUFFICES ASSUME TypeOK, Steps, Sound, [Next]_vars PROVE Sound'
  OBVIOUS
<1>T. /\ download \in Downloads /\ pendingInstall \in PendingInstalls
      /\ files \in [Paths -> Contents] /\ file \in Paths \cup {None} /\ isRunning \in BOOLEAN
      /\ tempFile \in Versions \cup {None} /\ latest \in Versions
  BY DEF TypeOK
<1>V. /\ download.step # "idle" => download.update \in Versions
      /\ pendingInstall.step # "idle" => pendingInstall.update \in Versions
  BY DEF Steps
<1>P. None \notin Paths /\ \A v \in Versions : UpdateFile(v) \in Paths
  BY ContentAssumption, VersionsAssumption DEF Paths, UpdateFile, Versions
<1>R. download.step # "idle" \/ pendingInstall.step # "idle" \/ file # None => isRunning
  BY NoDownloadOK, NoPendingInstallOK DEF Sound
<1>E. EmptyDir => tempFile' = None /\ \A p \in Paths : files'[p] = None
  BY DEF EmptyDir
<1>N. installed' = installed => Installable' = Installable
  BY DEF Installable, IsInstallableChange
<1>0. None \in Installable
      /\ \A v \in Versions : IsInstallableChange(v) => v \in Installable
  BY DEF Installable
<1> HIDE DEF Installable
<1> USE <1>T, <1>R, <1>N, <1>0
    DEF Sound, IsInstallableChange, disk, helper, history, session
<1>1. CASE FetchUpdate \/ AcceptDownload \/ WriteInfo
  BY <1>1, <1>V, DownloadFields DEF FetchUpdate, AcceptDownload, WriteInfo
<1>2. CASE EmptyStaleCache \/ FailDownload
  BY <1>2, <1>E, DownloadFields DEF EmptyStaleCache, FailDownload, ForgetFile
<1>3. CASE FailToWriteInfo \/ FinishDownload \/ ClearAfterDownload
  BY <1>3, <1>E, NoDownloadOK DEF FailToWriteInfo, FinishDownload, ClearAfterDownload
<1>4. CASE RejectPendingUpdate \/ FindPendingUpdate \/ MatchPendingUpdate
  <2>1. CASE RejectPendingUpdate
    BY <2>1, PendingFields DEF RejectPendingUpdate, ForgetFile
  <2>2. CASE FindPendingUpdate
    BY <2>2, PendingFields, PendingReads DEF FindPendingUpdate
  <2>3. CASE MatchPendingUpdate
    <3>1. \/ pendingInstall'.step = "readingMarker"
          \/ /\ pendingInstall'.update = latest /\ IsInstallableChange(latest)
             /\ pendingInstall'.step = "readingInfo"
      BY <2>3, PendingFields DEF MatchPendingUpdate
    <3> QED
      BY <2>3, <3>1 DEF MatchPendingUpdate
  <2> QED
    BY <1>4, <2>1, <2>2, <2>3
<1>5. CASE AbandonPendingInstall \/ EmptyAfterPendingInstall \/ RefuseLaunchInstall
  BY <1>5, <1>E, <1>V, <1>P, NoPendingInstallOK
  DEF AbandonPendingInstall, EmptyAfterPendingInstall, RefuseLaunchInstall
<1>6. CASE LaunchInstall \/ AppInstall \/ Crash
  BY <1>6, ProcessEnds, NoPendingInstallOK DEF LaunchInstall, AppInstall, Crash
<1>7. ASSUME NEW e, Quit(e) PROVE Sound'
  BY <1>7, ProcessEnds DEF Quit
<1>8. CASE Publish \/ Launch \/ \E p \in Paths : DamageFile(p)
  BY <1>8 DEF Publish, Launch, DamageFile
<1>9. CASE StartDownload
  BY <1>9 DEF StartDownload
<1>10. CASE FindDownload
  BY <1>10, <1>P, <1>V, FindDownloadFields DEF FindDownload
<1>11. CASE HashCachedDownload
  BY <1>11, <1>V, <1>P, DownloadFields
  DEF HashCachedDownload, UsesCachedFile, IsFileMissing, IsFileDamaged
<1>12. CASE AcceptCachedDownload
  BY <1>12, <1>V, <1>P, DownloadFields DEF AcceptCachedDownload, SetDownloadedFile
<1>13. CASE SaveDownload
  BY <1>13, <1>V, <1>P, DownloadReads DEF SaveDownload, SetDownloadedFile
<1>14. CASE StartPendingInstall
  BY <1>14, PendingStarted DEF StartPendingInstall, IsMarked
<1>15. CASE HashPendingUpdate
  BY <1>15, <1>V, <1>P, PendingFields
  DEF HashPendingUpdate, UsesCachedFile, IsFileMissing, IsFileDamaged
<1>16. CASE AcceptPendingUpdate
  BY <1>16, PendingAccepted DEF AcceptPendingUpdate
<1>17. CASE ReadMarker
  BY <1>17, PendingReads, MarkerFields, UnmarksOK DEF ReadMarker
<1>18. CASE ClearMarker
  BY <1>18, MarkerFields, UnmarksOK DEF ClearMarker
<1>19. CASE HandOffToNextLaunch
  BY <1>19 DEF HandOffToNextLaunch
<1>20. CASE FailToClearMarker
  BY <1>20, MarkerFields DEF FailToClearMarker
<1> QED
  BY <1>1, <1>2, <1>3, <1>4, <1>5, <1>6, <1>7, <1>8, <1>9, <1>10, <1>11, <1>12, <1>13, <1>14,
     <1>15, <1>16, <1>17, <1>18, <1>19, <1>20
  DEF Next, Download, PendingInstall, App, Environment, vars

\* Only what the process writes as it ends carries no marker that was cleared.
LEMMA NextMarker == TypeOK /\ Steps /\ Sound /\ Marker /\ [Next]_vars => Marker'
<1> SUFFICES ASSUME TypeOK, Steps, Sound, Marker, [Next]_vars PROVE Marker'
  OBVIOUS
<1>T. download \in Downloads /\ pendingInstall \in PendingInstalls
  BY DEF TypeOK
<1>U. \A i \in CachedUpdateInfo : ~[i EXCEPT !.installOnNextLaunch = FALSE].installOnNextLaunch
  BY DEF CachedUpdateInfo
<1>E. EmptyDir => ~IsMarked'
  BY DEF EmptyDir, IsMarked
<1>W. updateInfo' \in {updateInfo} \cup InfoWritten => (IsMarked' => IsMarked)
  BY <1>U DEF Steps, Marker, IsMarked, InfoWritten
<1>K. updateInfo' = updateInfo => (IsMarked' <=> IsMarked)
  BY DEF IsMarked
<1> USE <1>T, <1>K DEF Marker, disk, helper, history, session
<1>1. CASE FetchUpdate \/ AcceptDownload \/ FailDownload
  BY <1>1, DownloadFields DEF FetchUpdate, AcceptDownload, FailDownload
<1>2. CASE FinishDownload
  BY <1>2, NoDownloadOK DEF FinishDownload
<1>3. CASE EmptyStaleCache \/ ClearAfterDownload
  BY <1>3, <1>E, DownloadFields, NoDownloadOK DEF EmptyStaleCache, ClearAfterDownload
<1>4. CASE WriteInfo
  BY <1>4, DownloadFields DEF WriteInfo, IsMarked
<1>5. CASE FailToWriteInfo
  BY <1>5, NoDownloadOK DEF FailToWriteInfo, IsMarked
<1>6. CASE MatchPendingUpdate \/ RejectPendingUpdate \/ FindPendingUpdate \/ HashPendingUpdate
  <2>1. CASE MatchPendingUpdate \/ RejectPendingUpdate
    BY <2>1, PendingFields DEF MatchPendingUpdate, RejectPendingUpdate
  <2>2. CASE FindPendingUpdate
    <3>1. /\ pendingInstall.step = "readingInfo"
          /\ \/ PendingGoesTo("emptying")
             \/ pendingInstall' = [pendingInstall EXCEPT !.step = "hashing", !.read = updateInfo]
      BY <2>2 DEF FindPendingUpdate
    <3>2. pendingInstall'.step \in {"emptying", "hashing"}
      BY <3>1, PendingFields, PendingReads
    <3> QED
      BY <2>2, <3>1, <3>2 DEF FindPendingUpdate
  <2>3. CASE HashPendingUpdate
    BY <2>3, PendingFields DEF HashPendingUpdate
  <2> QED
    BY <1>6, <2>1, <2>2, <2>3
<1>7. CASE AbandonPendingInstall \/ RefuseLaunchInstall
  BY <1>7, NoPendingInstallOK DEF AbandonPendingInstall, RefuseLaunchInstall
<1>8. CASE EmptyAfterPendingInstall
  BY <1>8, <1>E, NoPendingInstallOK DEF EmptyAfterPendingInstall
<1>9. CASE LaunchInstall
  <2>1. updateInfo' \in {updateInfo} \cup InfoWritten
    BY <1>9 DEF LaunchInstall
  <2>2. IsMarked' => isInstallOwed'
    BY <1>9, <1>W, <2>1 DEF LaunchInstall
  <2> QED
    BY <1>9, <2>2, ProcessEnds, NoPendingInstallOK DEF LaunchInstall
<1>10. CASE AppInstall \/ Crash
  BY <1>10, <1>W, ProcessEnds DEF AppInstall, Crash
<1>11. ASSUME NEW e, Quit(e) PROVE Marker'
  <2>1. updateInfo' \in {updateInfo} \cup InfoWritten \/ isInstallOwed'
    BY <1>11, <1>W DEF Quit
  <2>2. isInstallOwed => isInstallOwed'
    BY <1>11 DEF Quit
  <2> QED
    BY <1>11, <1>W, <2>1, <2>2, ProcessEnds DEF Quit
<1>12. CASE Publish \/ Launch \/ \E p \in Paths : DamageFile(p)
  BY <1>12 DEF Publish, Launch, DamageFile
<1>13. CASE StartDownload
  BY <1>13 DEF StartDownload
<1>14. CASE FindDownload
  BY <1>14, FindDownloadFields DEF FindDownload
<1>15. CASE HashCachedDownload
  BY <1>15, DownloadFields DEF HashCachedDownload
<1>16. CASE AcceptCachedDownload
  BY <1>16, DownloadFields DEF AcceptCachedDownload
<1>17. CASE SaveDownload
  <2>1. ~downloadedInfo'.installOnNextLaunch
    BY <1>17 DEF SaveDownload, SetDownloadedFile
  <2>2. download'.step = "writingInfo" /\ download'.read = downloadedInfo'
    BY <1>17, DownloadReads DEF SaveDownload
  <2> QED
    BY <1>17, <2>1, <2>2 DEF SaveDownload
<1>18. CASE StartPendingInstall
  BY <1>18, PendingStarted DEF StartPendingInstall, IsMarked
<1>19. CASE AcceptPendingUpdate
  BY <1>19, PendingAccepted DEF AcceptPendingUpdate
<1>20. CASE ReadMarker
  BY <1>20, PendingReads, MarkerFields DEF ReadMarker, IsMarked
<1>21. CASE ClearMarker
  <2>1. ~IsMarked'
    BY <1>21, <1>U DEF ClearMarker, Steps, IsMarked
  <2> QED
    BY <1>21, <2>1, MarkerFields DEF ClearMarker
<1>22. CASE HandOffToNextLaunch
  BY <1>22 DEF HandOffToNextLaunch
<1>23. CASE FailToClearMarker
  <2>1. pendingInstall'.step = "installing" => pendingInstall.isInstallable
    BY <1>23, NoPendingInstallOK DEF FailToClearMarker, AfterMarker
  <2> QED
    BY <1>23, <2>1, MarkerFields DEF FailToClearMarker
<1> QED
  BY <1>1, <1>2, <1>3, <1>4, <1>5, <1>6, <1>7, <1>8, <1>9, <1>10, <1>11, <1>12, <1>13, <1>14,
     <1>15, <1>16, <1>17, <1>18, <1>19, <1>20, <1>21, <1>22, <1>23
  DEF Next, Download, PendingInstall, App, Environment, vars

-----------------------------------------------------------------------------
\* The first launch starts with an empty cache.
LEMMA InitIInv == Init => IInv
<1> SUFFICES ASSUME Init PROVE IInv
  OBVIOUS
<1>1. /\ NoDownload \in Downloads /\ NoDownload.step = "idle"
      /\ NoPendingInstall \in PendingInstalls /\ NoPendingInstall.step = "idle"
      /\ NoRun \in Runs
  BY NoDownloadOK, NoPendingInstallOK DEF NoRun, Runs, Contents
<1>2. 1 \in Versions
  BY VersionsAssumption DEF Versions
<1>3. TypeOK
  BY <1>1, <1>2 DEF Init, TypeOK, Contents
<1> QED
  BY <1>1, <1>3 DEF Init, IInv, Steps, Sound, Marker, IsMarked

\* The inductive invariant of the cache holds in every launch.
THEOREM Invariance == Spec => []IInv
<1>1. IInv /\ [Next]_vars => IInv'
  BY NextTypeOK, NextSteps, NextSound, NextMarker DEF IInv
<1> QED
  BY <1>1, InitIInv, PTL DEF Spec

\* The records on disk and in the process keep their types.
THEOREM TypeCorrect == Spec => []TypeOK
<1>1. IInv => TypeOK
  BY DEF IInv
<1> QED
  BY <1>1, Invariance, PTL

\* Who runs an installer, and which.
LEMMA InstallerRun ==
  ASSUME IInv, [Next]_vars, NEW who \in SUBSET {"app", "quit", "launch"}, RunsBy(who)
  PROVE  /\ file # None /\ lastRun'.content = files[file]
         /\ lastRun'.startedBy = "launch" => pendingInstall.step = "installing"
         /\ lastRun'.startedBy = "quit" => isQuitHandled /\ download.step = "idle"
<1> USE DEF RunsBy, disk, helper, history, session
<1>1. \A c, by : Run(c, by) => lastRun'.content = c /\ lastRun'.startedBy = by
  BY DEF Run
<1>2. \/ LaunchInstall
      \/ AppInstall
      \/ \E e \in {"onQuit", "onNextLaunch", "manual"} : Quit(e)
      \/ Launch
  BY DEF Next, Download, PendingInstall, App, Environment, StartDownload, FindDownload,
         HashCachedDownload, EmptyStaleCache, AcceptCachedDownload, FetchUpdate,
         AcceptDownload, SaveDownload, WriteInfo, FailToWriteInfo, FinishDownload,
         FailDownload, ClearAfterDownload, StartPendingInstall, MatchPendingUpdate,
         AbandonPendingInstall, FindPendingUpdate, HashPendingUpdate, AcceptPendingUpdate,
         RejectPendingUpdate, EmptyAfterPendingInstall, ReadMarker, ClearMarker,
         FailToClearMarker, RefuseLaunchInstall, HandOffToNextLaunch, Crash, Publish,
         DamageFile, vars
<1>3. ~Launch
  BY DEF Launch, NoRun
<1>4. CASE LaunchInstall
  BY <1>1, <1>4 DEF LaunchInstall
<1>5. CASE AppInstall
  BY <1>1, <1>5 DEF AppInstall
<1>6. ASSUME NEW e \in {"onQuit", "onNextLaunch", "manual"}, Quit(e)
      PROVE  /\ file # None /\ lastRun'.content = files[file] /\ lastRun'.startedBy = "quit"
             /\ isQuitHandled /\ download.step = "idle"
  BY <1>1, <1>6 DEF Quit, HandlesQuit
<1> QED
  BY <1>2, <1>3, <1>4, <1>5, <1>6

\* A marked update is installed on launch once, however that install ends, unless the write
\* that clears its marker fails.
THEOREM OneInstallPerMark == Spec => OneLaunchInstallPerMark
<1>1. IInv /\ [Next]_vars => (RunsBy({"launch"}) => isInstallOwed)
  BY InstallerRun DEF IInv, Marker, RunsBy
<1> QED
  BY <1>1, Invariance, PTL DEF Spec, OneLaunchInstallPerMark

\* No damaged installer runs, whatever was damaged between launches.
THEOREM NoDamagedRuns == Spec => NoDamagedInstallerRuns
<1>1. Corrupt \notin Installable
  BY ContentAssumption, VersionsAssumption DEF Installable, Versions
<1>2. IInv /\ [Next]_vars => (RunsBy({"app", "quit", "launch"}) => lastRun'.content # Corrupt)
  BY <1>1, InstallerRun DEF IInv, Sound
<1> QED
  BY <1>2, Invariance, PTL DEF Spec, NoDamagedInstallerRuns

\* The install on launch changes the version, and respects allowDowngrade.
THEOREM LaunchInstallsChanges == Spec => LaunchInstallsOnlyChanges
<1>1. None \notin Versions
  BY ContentAssumption, VersionsAssumption DEF Versions
<1>2. IInv /\ [Next]_vars =>
        (RunsBy({"launch"}) /\ lastRun'.content \in Versions
           => IsInstallableChange(lastRun'.content))
  BY <1>1, InstallerRun DEF IInv, Sound, Installable
<1> QED
  BY <1>2, Invariance, PTL DEF Spec, LaunchInstallsOnlyChanges

-----------------------------------------------------------------------------
(***************************************************************************)
(* Why every installer that runs was accepted, and why the helper's file   *)
(* is the update that it describes.                                        *)
(***************************************************************************)
HasInfo == updateInfo \notin {None, Corrupt}

\* The updates whose installer may still become the helper's file without being downloaded.
IsMentioned(u) ==
  \/ HasInfo /\ updateInfo.update = u
  \/ file # None /\ downloadedInfo.update = u
  \/ download.step \in {"hashing", "writingInfo"} /\ download.read.update = u
  \/ pendingInstall.step # "idle" /\ pendingInstall.update = u
  \/ pendingInstall.step \in {"hashing", "writingMarker"} /\ pendingInstall.read.update = u

Seen == accepted \cup {None}

\* No installer is in the cache that the verifier has not accepted in this launch.
IsClean == \A p \in Paths : files[p] \in Seen

IsKnown(u) == IsClean \/ u \in accepted

Known == \A u \in Versions : IsMentioned(u) => IsKnown(u)

\* What an earlier launch left is one update.
Single == \A u, v \in Versions : IsMentioned(u) /\ IsMentioned(v) => u = v

IsSettled ==
  \/ updateInfo = None
  \/ isAnnounced
  \/ versionInfo # None
  \/ isQuitHandled /\ download.step = "idle"
  \/ download.step \in {"announcing", "writingInfo"}

\* Once a download has ended or the cache is empty, everything it mentions was accepted.
Trust ==
  /\ Single \/ Known
  /\ IsSettled => Known
  /\ download.step \in {"hashing", "verifyingCached", "downloading", "verifying", "renaming"} =>
       Known \/ \A u \in Versions : IsMentioned(u) => u = download.update

\* Where the bytes come from that the download and the install have in hand.
Origins ==
  /\ ~isRunning => versionInfo = None /\ ~isAnnounced /\ ~isQuitHandled
  /\ download.step = "hashing" => download.read.update = download.update
  /\ download.step = "verifyingCached" =>
       IsKnown(download.update) \/ files[UpdateFile(download.update)] = download.update
  /\ download.step \in {"verifying", "renaming"} => tempFile \in {None, download.update}
  /\ download.step = "renaming" => tempFile \in Seen
  /\ download.step = "writingInfo" => download.read.update \in accepted
  /\ file # None => /\ file = UpdateFile(downloadedInfo.update)
                    /\ files[file] \in Seen \cup {downloadedInfo.update}
  /\ versionInfo # None => IsKnown(versionInfo)
  /\ pendingInstall.step = "hashing" => pendingInstall.read.update = pendingInstall.update
  /\ pendingInstall.step = "installing" => pendingInstall.isInstallable
  /\ pendingInstall.step # "idle" /\ pendingInstall.isInstallable =>
       files[UpdateFile(pendingInstall.update)] \in Seen

\* While nothing has disturbed the cache, disk and memory agree.
Agree ==
  ~isDisturbed =>
    /\ download.step = "idle" \/ pendingInstall.step = "idle"
    /\ file # None /\ download.step \notin {"downloading", "verifying", "renaming"} =>
         /\ files[file] = downloadedInfo.update
         /\ HasInfo /\ download.step # "writingInfo" =>
              updateInfo.update = downloadedInfo.update
    /\ download.step = "writingInfo" =>
         file # None /\ download.read.update = downloadedInfo.update
    /\ versionInfo # None => file # None /\ downloadedInfo.update = versionInfo
    /\ download.step = "hashing" => HasInfo /\ updateInfo.update = download.update
    /\ download.step = "verifyingCached" =>
         file # None /\ downloadedInfo.update = download.update
    /\ download.step = "verifyingCached" =>
         files[UpdateFile(download.update)] = download.update
    /\ pendingInstall.step \in {"fetching", "readingInfo", "hashing"} =>
         HasInfo /\ updateInfo.update = pendingInstall.update
    /\ pendingInstall.step = "writingMarker" => updateInfo = pendingInstall.read
    /\ pendingInstall.step = "emptying" \/ download.step = "clearing" => file = None

\* What the proofs above established.
Base == TypeOK /\ Steps /\ Sound

-----------------------------------------------------------------------------
\* A marker changes nothing else in a record.
LEMMA SameUpdate ==
  ASSUME NEW i \in CachedUpdateInfo, NEW b \in BOOLEAN
  PROVE  [i EXCEPT !.installOnNextLaunch = b].update = i.update
  BY DEF CachedUpdateInfo

\* Past its marker, the pending install has read nothing new and is installable if it was.
LEMMA MarkerEnds ==
  ASSUME pendingInstall \in PendingInstalls, AfterMarker
  PROVE  \/ pendingInstall'.step = "idle"
         \/ /\ pendingInstall'.step = "installing"
            /\ pendingInstall'.update = pendingInstall.update
            /\ pendingInstall.isInstallable /\ pendingInstall'.isInstallable
  BY NoPendingInstallOK DEF AfterMarker, PendingGoesTo, PendingInstalls

\* clearPendingInstallMarker goes on to write what it has read, or has nothing to clear.
LEMMA MarkerRead ==
  ASSUME pendingInstall \in PendingInstalls, ReadMarker
  PROVE  \/ AfterMarker
         \/ pendingInstall'.step = "writingMarker" /\ pendingInstall'.read = updateInfo
<1>1. \/ AfterMarker
      \/ pendingInstall' = [pendingInstall EXCEPT !.step = "writingMarker", !.read = updateInfo]
  BY DEF ReadMarker
<1> QED
  BY <1>1, PendingReads

\* Clearing the marker in memory keeps the helper's update.
LEMMA UnmarksUpdate ==
  ASSUME UnmarksMemory, file # None => downloadedInfo \in CachedUpdateInfo
  PROVE  /\ file' = file
         /\ versionInfo' = versionInfo
         /\ file # None => downloadedInfo'.update = downloadedInfo.update
  BY SameUpdate DEF UnmarksMemory

\* The constants that stand for nothing are no record, path or version.
LEMMA NoneIsNothing ==
  /\ None \notin Paths /\ None \notin Versions /\ Corrupt \notin Versions /\ None # Corrupt
  /\ \A v \in Versions : UpdateFile(v) \in Paths
  BY ContentAssumption, VersionsAssumption DEF Paths, UpdateFile, Versions

\* Apart from the process that ends, a step adds no installer to the cache that was not
\* accepted, and takes back no acceptance.
LEMMA FilesOnlyAccepted ==
  ASSUME Base, Origins, isRunning, isRunning', [Next]_vars
  PROVE  /\ accepted \subseteq accepted'
         /\ \A p \in Paths : files'[p] \in {files[p], None} \cup accepted'
<1> USE DEF Base, disk, helper, history, session
<1>T. /\ files \in [Paths -> Contents] /\ tempFile \in Versions \cup {None}
      /\ accepted \in SUBSET Contents
  BY DEF TypeOK
<1>E. EmptyDir => \A p \in Paths : files'[p] = None
  BY DEF EmptyDir
<1>A. \A c : Accepts(c) => accepted \subseteq accepted'
  BY DEF Accepts
<1>X. ~EndProcess
  BY DEF EndProcess
<1>1. CASE SaveDownload
  BY <1>1, <1>T DEF SaveDownload, Origins, Seen
<1>2. CASE AcceptCachedDownload \/ AcceptDownload \/ AcceptPendingUpdate
  BY <1>2, <1>A DEF AcceptCachedDownload, AcceptDownload, AcceptPendingUpdate
<1>3. CASE EmptyStaleCache \/ ClearAfterDownload \/ EmptyAfterPendingInstall
  BY <1>3, <1>E DEF EmptyStaleCache, ClearAfterDownload, EmptyAfterPendingInstall
<1>4. CASE LaunchInstall \/ AppInstall \/ Crash \/ \E e : Quit(e)
  BY <1>4, <1>X DEF LaunchInstall, AppInstall, Crash, Quit
<1> QED
  BY <1>1, <1>2, <1>3, <1>4
  DEF Next, Download, PendingInstall, App, Environment, vars,
      StartDownload, FindDownload, HashCachedDownload, FetchUpdate, WriteInfo,
      FailToWriteInfo, FinishDownload, FailDownload, StartPendingInstall, MatchPendingUpdate,
      AbandonPendingInstall, FindPendingUpdate, HashPendingUpdate, RejectPendingUpdate,
      ReadMarker, ClearMarker, FailToClearMarker, RefuseLaunchInstall, HandOffToNextLaunch,
      Launch, Publish,
      DamageFile

\* What is clean or accepted stays so.
LEMMA KnownStays ==
  ASSUME accepted \subseteq accepted',
         \A p \in Paths : files'[p] \in {files[p], None} \cup accepted'
  PROVE  /\ IsClean => IsClean'
         /\ \A u : IsKnown(u) => IsKnown(u)'
         /\ \A p \in Paths : files[p] \in Seen => files'[p] \in Seen'
  BY DEF IsClean, IsKnown, Seen

\* Apart from the process that ends, a step mentions no new update but the one that the
\* download accepts or saves.
LEMMA MentionedBefore ==
  ASSUME Base, Origins, isRunning, isRunning', [Next]_vars, NEW u \in Versions, IsMentioned(u)'
  PROVE  \/ IsMentioned(u)
         \/ u = download.update /\ (AcceptCachedDownload \/ SaveDownload)
<1> USE DEF Base, disk, helper, history, session
<1>T. download \in Downloads /\ pendingInstall \in PendingInstalls
      /\ latest \in Versions
      /\ updateInfo \in CachedUpdateInfo \cup {None, Corrupt}
  BY DEF TypeOK
<1>X. ~EndProcess
  BY DEF EndProcess
<1>S. file # None => downloadedInfo \in CachedUpdateInfo
  BY DEF Steps
<1> USE <1>T, <1>S, <1>X DEF IsMentioned, HasInfo
<1>1. CASE EmptyStaleCache \/ FetchUpdate \/ AcceptDownload \/ FailDownload
  BY <1>1, DownloadFields
  DEF EmptyStaleCache, FetchUpdate, AcceptDownload, FailDownload, ForgetFile, EmptyDir
<1>2. CASE WriteInfo
  BY <1>2, DownloadFields DEF WriteInfo
<1>3. CASE FailToWriteInfo \/ FinishDownload \/ ClearAfterDownload
  BY <1>3, NoDownloadOK DEF FailToWriteInfo, FinishDownload, ClearAfterDownload, EmptyDir
<1>4. CASE MatchPendingUpdate \/ RejectPendingUpdate
  BY <1>4, PendingFields DEF MatchPendingUpdate, RejectPendingUpdate, ForgetFile
<1>5. CASE AbandonPendingInstall \/ EmptyAfterPendingInstall \/ RefuseLaunchInstall \/ LaunchInstall
  BY <1>5, NoPendingInstallOK
  DEF AbandonPendingInstall, EmptyAfterPendingInstall, RefuseLaunchInstall, LaunchInstall, EmptyDir
<1>6. CASE AppInstall \/ Crash \/ \E e : Quit(e)
  BY <1>6 DEF AppInstall, Crash, Quit
<1>7. CASE Publish \/ Launch \/ \E p \in Paths : DamageFile(p)
  BY <1>7 DEF Publish, Launch, DamageFile
<1>8. CASE StartDownload
  BY <1>8 DEF StartDownload
<1>9. CASE FindDownload
  BY <1>9, FindDownloadFields DEF FindDownload
<1>10. CASE HashCachedDownload
  BY <1>10, DownloadFields DEF HashCachedDownload, UsesCachedFile
<1>11. CASE AcceptCachedDownload
  BY <1>11, DownloadFields DEF AcceptCachedDownload, SetDownloadedFile
<1>12. CASE SaveDownload
  <2>1. downloadedInfo'.update = download.update
    BY <1>12 DEF SaveDownload, SetDownloadedFile
  <2>2. download'.step = "writingInfo" /\ download'.read = downloadedInfo'
    BY <1>12, DownloadReads DEF SaveDownload
  <2>3. UNCHANGED <<updateInfo, pendingInstall>>
    BY <1>12 DEF SaveDownload
  <2> QED
    BY <1>12, <2>1, <2>2, <2>3
<1>13. CASE StartPendingInstall
  BY <1>13, PendingStarted DEF StartPendingInstall, IsMarked
<1>14. CASE FindPendingUpdate
  <2>1. pendingInstall.step # "idle" /\ UNCHANGED <<updateInfo, file, downloadedInfo, download>>
    BY <1>14 DEF FindPendingUpdate
  <2>2. \/ PendingGoesTo("emptying")
        \/ HasInfo /\ pendingInstall' = [pendingInstall EXCEPT !.step = "hashing",
                                                               !.read = updateInfo]
    BY <1>14 DEF FindPendingUpdate, IsInfoMissing, IsInfoStale
  <2>3. /\ pendingInstall'.update = pendingInstall.update
        /\ \/ pendingInstall'.step = "emptying"
           \/ HasInfo /\ pendingInstall'.read = updateInfo
    BY <2>2, PendingFields, PendingReads
  <2> QED
    BY <2>1, <2>3
<1>15. CASE HashPendingUpdate
  BY <1>15, PendingFields DEF HashPendingUpdate, UsesCachedFile
<1>16. CASE AcceptPendingUpdate
  BY <1>16, PendingAccepted DEF AcceptPendingUpdate
<1>17. CASE ReadMarker
  <2>1. pendingInstall.step = "readingMarker" /\ UNCHANGED <<updateInfo, download>>
    BY <1>17 DEF ReadMarker
  <2>2. file' = file /\ (file # None => downloadedInfo'.update = downloadedInfo.update)
    BY <1>17, UnmarksUpdate DEF ReadMarker
  <2>3. \/ AfterMarker
        \/ /\ pendingInstall'.update = pendingInstall.update
           /\ HasInfo /\ pendingInstall'.read = updateInfo
    BY <1>17, PendingReads DEF ReadMarker
  <2> QED
    BY <2>1, <2>2, <2>3, MarkerEnds
<1>18. CASE ClearMarker
  <2>1. pendingInstall.read \in CachedUpdateInfo
    BY <1>18 DEF ClearMarker, Steps
  <2>2. updateInfo'.update = pendingInstall.read.update
    BY <1>18, <2>1, SameUpdate DEF ClearMarker
  <2> QED
    BY <1>18, <2>2, MarkerEnds, UnmarksUpdate DEF ClearMarker
<1>19. CASE HandOffToNextLaunch
  <2>1. Mark.update = downloadedInfo.update
    BY <1>19, SameUpdate DEF HandOffToNextLaunch, Mark
  <2> QED
    BY <1>19, <2>1 DEF HandOffToNextLaunch
<1>20. CASE UNCHANGED vars
  BY <1>20 DEF vars
<1>21. CASE FailToClearMarker
  BY <1>21, MarkerEnds DEF FailToClearMarker
<1> QED
  BY <1>1, <1>2, <1>3, <1>4, <1>5, <1>6, <1>7, <1>8, <1>9, <1>10, <1>11, <1>12, <1>13, <1>14,
     <1>15, <1>16, <1>17, <1>18, <1>19, <1>20, <1>21
  DEF Next, Download, PendingInstall, App, Environment

\* A process that has ended has nothing in memory.
LEMMA EndsTrusted ==
  ASSUME EndProcess
  PROVE  Trust' /\ Origins'
<1>1. /\ file' = None /\ versionInfo' = None /\ ~isAnnounced' /\ ~isQuitHandled'
      /\ download'.step = "idle" /\ pendingInstall'.step = "idle"
  BY ProcessEnds DEF EndProcess
<1>2. Origins'
  BY <1>1 DEF Origins
<1>3. Single' /\ (updateInfo' = None => Known')
  BY <1>1 DEF Single, Known, IsMentioned, HasInfo
<1> QED
  BY <1>1, <1>2, <1>3 DEF Trust, IsSettled

\* Before a launch the cache mentions one update at most.
LEMMA StoppedTrusted ==
  ASSUME Sound, Origins, ~isRunning, UNCHANGED <<updateInfo, helper, download, pendingInstall>>,
         isAnnounced' = isAnnounced, isQuitHandled' = isQuitHandled
  PROVE  Trust' /\ Origins'
<1>1. /\ file' = None /\ versionInfo' = None /\ ~isAnnounced' /\ ~isQuitHandled'
      /\ download'.step = "idle" /\ pendingInstall'.step = "idle"
  BY NoDownloadOK, NoPendingInstallOK DEF Sound, Origins, helper
<1>2. Origins'
  BY <1>1 DEF Origins
<1>3. Single' /\ (updateInfo' = None => Known')
  BY <1>1 DEF Single, Known, IsMentioned, HasInfo
<1> QED
  BY <1>1, <1>2, <1>3 DEF Trust, IsSettled

\* The step of a process that stopped, or of one that stops.
LEMMA StoppedSteps ==
  ASSUME Base, Origins, [Next]_vars, ~(isRunning /\ isRunning')
  PROVE  EndProcess \/ (~isRunning /\ UNCHANGED <<updateInfo, helper, download, pendingInstall,
                                                  isAnnounced, isQuitHandled, isDisturbed>>)
<1> USE DEF Base, disk, helper, history, session
<1>1. ~isRunning => /\ download.step = "idle" /\ pendingInstall.step = "idle" /\ file = None
                    /\ ~isQuitHandled
  BY NoDownloadOK, NoPendingInstallOK DEF Sound, Origins
<1> QED
  BY <1>1
  DEF Next, Download, PendingInstall, App, Environment, vars,
      StartDownload, FindDownload, HashCachedDownload, EmptyStaleCache, AcceptCachedDownload,
      FetchUpdate, AcceptDownload, SaveDownload, WriteInfo,
      FailToWriteInfo, FinishDownload, FailDownload, ClearAfterDownload, StartPendingInstall,
      MatchPendingUpdate, AbandonPendingInstall, FindPendingUpdate, HashPendingUpdate,
      AcceptPendingUpdate, RejectPendingUpdate, EmptyAfterPendingInstall,
      ReadMarker, ClearMarker, FailToClearMarker, RefuseLaunchInstall, LaunchInstall, AppInstall,
      HandOffToNextLaunch, Quit, Crash, Launch, Publish, DamageFile

\* An update whose bytes the verifier sees is known from then on.
LEMMA AcceptedIsKnown ==
  ASSUME Base, Origins, isRunning, isRunning', AcceptCachedDownload
  PROVE  IsKnown(download.update)' /\ files[UpdateFile(download.update)] \in Seen'
<1>1. /\ download.update \in Versions /\ download'.update = download.update
      /\ files' = files /\ accepted' = accepted \cup ({files[UpdateFile(download.update)]} \ {None})
      /\ IsKnown(download.update) \/ files[UpdateFile(download.update)] = download.update
  BY DownloadFields DEF AcceptCachedDownload, Accepts, Origins, Base, Steps, TypeOK, disk
<1>2. IsKnown(download.update) => IsKnown(download.update)'
  BY <1>1 DEF IsKnown, IsClean, Seen
<1> QED
  BY <1>1, <1>2, NoneIsNothing DEF IsKnown, Seen

\* Whatever a step has in hand comes from a download of this launch, or is what it says.
LEMMA NextOrigins == Base /\ Trust /\ Origins /\ [Next]_vars => Origins'
<1> SUFFICES ASSUME Base, Trust, Origins, [Next]_vars PROVE Origins'
  OBVIOUS
<1>0. CASE ~(isRunning /\ isRunning')
  BY <1>0, StoppedSteps, EndsTrusted, StoppedTrusted DEF Base
<1> SUFFICES ASSUME isRunning, isRunning' PROVE Origins'
  BY <1>0
<1>F. /\ accepted \subseteq accepted'
      /\ \A p \in Paths : files'[p] = files[p] \/ files'[p] \in Seen'
      /\ \A p \in Paths : files[p] \in Seen => files'[p] \in Seen'
      /\ \A u : IsKnown(u) => IsKnown(u)'
  BY FilesOnlyAccepted, KnownStays DEF Seen
<1>P. /\ \A v \in Versions : UpdateFile(v) \in Paths
      /\ None \notin Paths
  BY NoneIsNothing
<1>T. /\ download \in Downloads /\ pendingInstall \in PendingInstalls
      /\ files \in [Paths -> Contents] /\ file \in Paths \cup {None}
      /\ tempFile \in Versions \cup {None} /\ latest \in Versions
      /\ versionInfo \in Versions \cup {None}
  BY DEF Base, TypeOK
<1>V. /\ download.step # "idle" => download.update \in Versions
      /\ pendingInstall.step # "idle" => pendingInstall.update \in Versions
      /\ file # None => downloadedInfo \in CachedUpdateInfo
  BY DEF Base, Steps
<1>E. EmptyDir => IsClean' /\ tempFile' = None
  BY DEF EmptyDir, IsClean, Seen
<1>X. ~EndProcess
  BY DEF EndProcess
<1>N. None \in Seen'
  BY DEF Seen
<1>M. Seen \subseteq Seen'
  BY <1>F DEF Seen
<1> HIDE DEF IsKnown, IsClean, Seen
<1> USE <1>F, <1>P, <1>T, <1>V, <1>X, <1>N, <1>M
    DEF Origins, disk, helper, history, session
<1>1. CASE EmptyStaleCache \/ ClearAfterDownload
  BY <1>1, <1>E, DownloadFields, NoDownloadOK DEF EmptyStaleCache, ClearAfterDownload, IsKnown
<1>2. CASE FetchUpdate \/ FailDownload
  BY <1>2, DownloadFields DEF FetchUpdate, FailDownload, ForgetFile
<1>3. CASE AcceptDownload
  BY <1>3, DownloadFields DEF AcceptDownload, Accepts, Seen
<1>4. CASE WriteInfo \/ FailToWriteInfo \/ FinishDownload
  BY <1>4, DownloadFields, NoDownloadOK DEF WriteInfo, FailToWriteInfo, FinishDownload
<1>5. CASE MatchPendingUpdate \/ FindPendingUpdate
  <2>1. /\ pendingInstall.step # "idle"
        /\ \/ \E s \in {"emptying", "readingInfo", "readingMarker"} : PendingGoesTo(s)
           \/ /\ updateInfo.update = pendingInstall.update
              /\ pendingInstall' = [pendingInstall EXCEPT !.step = "hashing", !.read = updateInfo]
    BY <1>5 DEF MatchPendingUpdate, FindPendingUpdate, IsInfoMissing, IsInfoStale
  <2>2. /\ pendingInstall'.isInstallable = pendingInstall.isInstallable
        /\ pendingInstall'.update = pendingInstall.update
        /\ pendingInstall'.step = "hashing" => pendingInstall'.read.update = pendingInstall.update
        /\ pendingInstall'.step # "installing"
    <3>1. ASSUME NEW s \in {"emptying", "readingInfo", "readingMarker"}, PendingGoesTo(s)
          PROVE  /\ pendingInstall'.isInstallable = pendingInstall.isInstallable
                 /\ pendingInstall'.update = pendingInstall.update
                 /\ pendingInstall'.step \notin {"hashing", "installing"}
      BY <3>1, PendingFields
    <3>2. ASSUME pendingInstall' = [pendingInstall EXCEPT !.step = "hashing", !.read = updateInfo]
          PROVE  /\ pendingInstall'.isInstallable = pendingInstall.isInstallable
                 /\ pendingInstall'.update = pendingInstall.update
                 /\ pendingInstall'.read = updateInfo
                 /\ pendingInstall'.step # "installing"
      BY <3>2, PendingReads
    <3> QED
      BY <2>1, <3>1, <3>2
  <2> QED
    BY <1>5, <2>1, <2>2 DEF MatchPendingUpdate, FindPendingUpdate
<1>6. CASE RejectPendingUpdate \/ AbandonPendingInstall \/ RefuseLaunchInstall
  BY <1>6, PendingFields, NoPendingInstallOK
  DEF RejectPendingUpdate, AbandonPendingInstall, RefuseLaunchInstall, ForgetFile
<1>7. CASE EmptyAfterPendingInstall
  BY <1>7, <1>E, NoPendingInstallOK DEF EmptyAfterPendingInstall, IsKnown
<1>8. CASE LaunchInstall \/ AppInstall \/ Crash \/ \E e : Quit(e)
  BY <1>8, NoPendingInstallOK DEF LaunchInstall, AppInstall, Crash, Quit
<1>9. CASE Publish \/ Launch \/ (\E p \in Paths : DamageFile(p)) \/ UNCHANGED vars
  BY <1>9 DEF Publish, Launch, DamageFile, vars
<1>10. CASE StartDownload \/ StartPendingInstall
  <2>1. CASE StartDownload
    BY <2>1 DEF StartDownload
  <2>2. CASE StartPendingInstall
    <3>1. ~pendingInstall'.isInstallable
      BY <2>2, PendingStarted DEF StartPendingInstall
    <3> QED
      BY <2>2, <3>1 DEF StartPendingInstall
  <2> QED
    BY <1>10, <2>1, <2>2
<1>11. CASE FindDownload
  <2>1. /\ download'.update = download.update
        /\ UNCHANGED <<updateInfo, files, tempFile, file, downloadedInfo, versionInfo, accepted,
                       isRunning, isAnnounced, isQuitHandled, pendingInstall>>
        /\ download.step = "readingInfo"
    BY <1>11, FindDownloadFields DEF FindDownload
  <2>2. \/ download'.step \in {"downloading", "emptyingStale"}
        \/ download'.step = "verifyingCached" /\ versionInfo = download.update
        \/ download'.step = "hashing" /\ download'.read.update = download.update
    <3>1. CASE IsDownloadedFile(download.update)
      BY <1>11, <3>1, DownloadFields DEF FindDownload
    <3>2. CASE ~IsDownloadedFile(download.update)
      <4>1. \/ DownloadGoesTo("downloading") \/ DownloadGoesTo("emptyingStale")
            \/ /\ updateInfo.update = download.update
               /\ download' = [download EXCEPT !.step = "hashing", !.read = updateInfo]
        BY <1>11, <3>2 DEF FindDownload, IsInfoMissing, IsInfoStale
      <4>2. DownloadGoesTo("downloading") => download'.step = "downloading"
        BY DownloadFields
      <4>3. DownloadGoesTo("emptyingStale") => download'.step = "emptyingStale"
        BY DownloadFields
      <4>4. download' = [download EXCEPT !.step = "hashing", !.read = updateInfo] =>
              download'.step = "hashing" /\ download'.read = updateInfo
        BY DownloadReads
      <4> QED
        BY <4>1, <4>2, <4>3, <4>4
    <3> QED
      BY <3>1, <3>2
  <2> QED
    BY <2>1, <2>2, NoneIsNothing
<1>12. CASE HashCachedDownload
  BY <1>12, DownloadFields
  DEF HashCachedDownload, UsesCachedFile, IsFileMissing, IsFileDamaged
<1>13. CASE AcceptCachedDownload
  <2>1. /\ download'.step = "announcing" /\ download'.update = download.update
        /\ file' = UpdateFile(download.update)
        /\ downloadedInfo'.update = download.update /\ versionInfo' = download.update
        /\ UNCHANGED <<updateInfo, files, tempFile, isRunning, isAnnounced, isQuitHandled,
                       pendingInstall>>
    BY <1>13, DownloadFields DEF AcceptCachedDownload, SetDownloadedFile
  <2> QED
    BY <1>13, <2>1, AcceptedIsKnown
<1>14. CASE SaveDownload
  <2>1. /\ download.step = "renaming" /\ tempFile = download.update
        /\ tempFile \in accepted
    BY <1>14, NoneIsNothing DEF SaveDownload, Seen
  <2>2. downloadedInfo'.update = download.update
    BY <1>14 DEF SaveDownload, SetDownloadedFile
  <2>3. download'.step = "writingInfo" /\ download'.read = downloadedInfo'
    BY <1>14, DownloadReads DEF SaveDownload
  <2>4. /\ file' = UpdateFile(download.update) /\ versionInfo' = download.update
        /\ files'[file'] = download.update
        /\ UNCHANGED <<isRunning, isAnnounced, isQuitHandled, accepted, pendingInstall>>
    BY <1>14, <2>1 DEF SaveDownload, SetDownloadedFile
  <2> QED
    BY <2>1, <2>2, <2>3, <2>4 DEF IsKnown
<1>15. CASE HashPendingUpdate
  <2>1. /\ pendingInstall'.isInstallable = pendingInstall.isInstallable
        /\ pendingInstall'.update = pendingInstall.update
        /\ pendingInstall.step = "hashing" /\ versionInfo' = versionInfo
        /\ pendingInstall'.step \notin {"hashing", "installing"}
        /\ UNCHANGED <<files, tempFile, accepted, isRunning, isAnnounced, isQuitHandled, download>>
    BY <1>15, PendingFields DEF HashPendingUpdate, UsesCachedFile
  <2>2. \/ UNCHANGED <<file, downloadedInfo>>
        \/ /\ file' = UpdateFile(pendingInstall.update)
           /\ downloadedInfo' = pendingInstall.read
           /\ files[UpdateFile(pendingInstall.update)] = pendingInstall.update
    BY <1>15 DEF HashPendingUpdate, UsesCachedFile, IsFileMissing, IsFileDamaged
  <2> QED
    BY <2>1, <2>2
<1>16. CASE AcceptPendingUpdate
  <2>1. /\ pendingInstall'.step = "readingMarker" /\ pendingInstall'.update = pendingInstall.update
        /\ pendingInstall.step = "verifying"
    BY <1>16, PendingAccepted DEF AcceptPendingUpdate
  <2>2. files'[UpdateFile(pendingInstall.update)] \in Seen'
    BY <1>16 DEF AcceptPendingUpdate, Accepts, Seen
  <2> QED
    BY <1>16, <2>1, <2>2 DEF AcceptPendingUpdate
<1>17. CASE ReadMarker \/ ClearMarker \/ FailToClearMarker
  <2>1. /\ pendingInstall.step \in {"readingMarker", "writingMarker"}
        /\ file' = file /\ versionInfo' = versionInfo
        /\ file # None => downloadedInfo'.update = downloadedInfo.update
        /\ UNCHANGED <<files, tempFile, accepted, isRunning, isAnnounced, isQuitHandled, download>>
    BY <1>17, UnmarksUpdate DEF ReadMarker, ClearMarker, FailToClearMarker
  <2>2. \/ AfterMarker
        \/ /\ pendingInstall'.step = "writingMarker"
           /\ pendingInstall'.update = pendingInstall.update
           /\ pendingInstall'.isInstallable = pendingInstall.isInstallable
    BY <1>17, PendingReads DEF ReadMarker, ClearMarker, FailToClearMarker
  <2> QED
    BY <2>1, <2>2, MarkerEnds
<1>18. CASE HandOffToNextLaunch
  <2>1. Mark.update = downloadedInfo.update
    BY <1>18, SameUpdate DEF HandOffToNextLaunch, Mark
  <2> QED
    BY <1>18, <2>1 DEF HandOffToNextLaunch
<1> QED
  BY <1>1, <1>2, <1>3, <1>4, <1>5, <1>6, <1>7, <1>8, <1>9, <1>10, <1>11, <1>12, <1>13, <1>14,
     <1>15, <1>16, <1>17, <1>18
  DEF Next, Download, PendingInstall, App, Environment

\* What the download finds is what this launch has downloaded, nothing, or its update.
LEMMA FoundDownload ==
  ASSUME download \in Downloads, FindDownload
  PROVE  \/ versionInfo # None
         \/ updateInfo = None
         \/ download'.step = "emptyingStale"
         \/ HasInfo /\ updateInfo.update = download.update
<1>1. CASE IsDownloadedFile(download.update)
  BY <1>1 DEF IsDownloadedFile
<1>2. CASE ~IsDownloadedFile(download.update)
  <2>1. \/ IsInfoMissing \/ DownloadGoesTo("emptyingStale")
        \/ ~IsInfoMissing /\ ~IsInfoStale(download.update)
    BY <1>2 DEF FindDownload
  <2> QED
    BY <2>1, DownloadFields DEF IsInfoMissing, IsInfoStale, HasInfo
<1> QED
  BY <1>1, <1>2

\* Whatever ends a download or empties the cache leaves only accepted updates to be mentioned.
LEMMA NextTrust == Base /\ Trust /\ Origins /\ [Next]_vars => Trust'
<1> SUFFICES ASSUME Base, Trust, Origins, [Next]_vars PROVE Trust'
  OBVIOUS
<1>0. CASE ~(isRunning /\ isRunning')
  BY <1>0, StoppedSteps, EndsTrusted, StoppedTrusted DEF Base
<1> SUFFICES ASSUME isRunning, isRunning' PROVE Trust'
  BY <1>0
<1>T. /\ download \in Downloads /\ pendingInstall \in PendingInstalls
      /\ download.step # "idle" => download.update \in Versions
  BY DEF Base, TypeOK, Steps
<1>K. \A u : IsKnown(u) => IsKnown(u)'
  BY FilesOnlyAccepted, KnownStays
<1>C. IsClean' => Known'
  BY DEF Known, IsKnown
<1>E. EmptyDir => IsClean'
  BY DEF EmptyDir, IsClean, Seen
<1>X. ~EndProcess
  BY DEF EndProcess
<1>1. CASE AcceptCachedDownload \/ SaveDownload
  <2>1. /\ download.step \in {"verifyingCached", "renaming"} /\ download.update \in Versions
        /\ download'.step \in {"announcing", "writingInfo"} /\ download'.update = download.update
    BY <1>T, <1>1, DownloadFields, DownloadReads DEF AcceptCachedDownload, SaveDownload
  <2>2. IsClean' \/ download.update \in accepted'
    <3>1. CASE AcceptCachedDownload
      BY <2>1, <3>1, AcceptedIsKnown DEF IsKnown
    <3>2. CASE SaveDownload
      BY <2>1, <3>2 DEF SaveDownload, Origins, Seen, history
    <3> QED
      BY <1>1, <3>1, <3>2
  <2>3. Known \/ \A u \in Versions : IsMentioned(u) => u = download.update
    BY <2>1 DEF Trust
  <2>4. ASSUME NEW u \in Versions, IsMentioned(u)' PROVE IsKnown(u)'
    <3>1. CASE u = download.update
      BY <2>2, <3>1 DEF IsKnown
    <3>2. CASE u # download.update
      BY <1>K, <2>3, <2>4, <3>2, MentionedBefore DEF Known
    <3> QED
      BY <3>1, <3>2
  <2> QED
    BY <2>1, <2>4 DEF Trust, Known
<1>2. CASE ~(AcceptCachedDownload \/ SaveDownload)
  <2>M. \A u \in Versions : IsMentioned(u)' => IsMentioned(u)
    BY <1>2, MentionedBefore
  <2>1. (Known => Known') /\ (Single => Single')
    BY <1>K, <2>M DEF Known, Single
  <2>2. CASE EmptyStaleCache \/ ClearAfterDownload \/ EmptyAfterPendingInstall
    BY <1>C, <1>E, <2>2 DEF EmptyStaleCache, ClearAfterDownload, EmptyAfterPendingInstall, Trust
  <2> HIDE DEF Known, Single
  <2> USE <1>T, <1>X, <2>M, <2>1 DEF Trust, IsSettled, disk, helper, history, session
  <2>3. CASE StartDownload \/ StartPendingInstall
    BY <2>3 DEF StartDownload, StartPendingInstall
  <2>4. CASE FindDownload
    <3>1. \/ Known
          \/ download'.step = "emptyingStale"
          \/ HasInfo /\ updateInfo.update = download.update
      BY <2>4, FoundDownload
    <3>2. HasInfo /\ updateInfo.update = download.update /\ Single =>
            \A u \in Versions : IsMentioned(u) => u = download.update
      BY <2>4 DEF Single, IsMentioned, FindDownload
    <3> QED
      BY <2>4, <3>1, <3>2, FindDownloadFields DEF FindDownload
  <2>5. CASE HashCachedDownload
    BY <2>5, DownloadFields DEF HashCachedDownload, UsesCachedFile
  <2>6. CASE FetchUpdate \/ AcceptDownload \/ FailDownload
    BY <2>6, DownloadFields DEF FetchUpdate, AcceptDownload, FailDownload, ForgetFile
  <2>7. CASE WriteInfo \/ FailToWriteInfo \/ FinishDownload
    BY <2>7, DownloadFields DEF WriteInfo, FailToWriteInfo, FinishDownload
  <2>8. CASE \/ MatchPendingUpdate \/ AbandonPendingInstall \/ FindPendingUpdate
             \/ HashPendingUpdate \/ AcceptPendingUpdate \/ RejectPendingUpdate
             \/ RefuseLaunchInstall
    BY <2>8
    DEF MatchPendingUpdate, AbandonPendingInstall, FindPendingUpdate, HashPendingUpdate,
        UsesCachedFile, AcceptPendingUpdate, RejectPendingUpdate, ForgetFile, RefuseLaunchInstall
  <2>9. CASE ReadMarker \/ ClearMarker \/ FailToClearMarker
    <3>1. ClearMarker => updateInfo' # None
      BY MarkedInfo, InfoAssumption DEF ClearMarker, Base, Steps
    <3> QED
      BY <2>9, <3>1, ContentAssumption DEF ReadMarker, ClearMarker, FailToClearMarker, UnmarksMemory
  <2>10. CASE LaunchInstall \/ AppInstall \/ Crash \/ \E e : Quit(e)
    BY <2>10 DEF LaunchInstall, AppInstall, Crash, Quit
  <2>11. CASE HandOffToNextLaunch
    <3>1. updateInfo' # None
      BY <2>11, MarkOK, InfoAssumption DEF HandOffToNextLaunch, Base, Steps
    <3> QED
      BY <2>11, <3>1 DEF HandOffToNextLaunch
  <2>12. CASE Publish \/ Launch \/ (\E p \in Paths : DamageFile(p)) \/ UNCHANGED vars
    BY <2>12 DEF Publish, Launch, DamageFile, vars
  <2> QED
    BY <1>2, <2>2, <2>3, <2>4, <2>5, <2>6, <2>7, <2>8, <2>9, <2>10, <2>11, <2>12
    DEF Next, Download, PendingInstall, App, Environment
<1> QED
  BY <1>1, <1>2

\* Alone in the cache, the download and the install keep memory and disk in agreement.
LEMMA NextAgree == Base /\ Origins /\ Agree /\ [Next]_vars => Agree'
<1> SUFFICES ASSUME Base, Origins, Agree, [Next]_vars, ~isDisturbed' PROVE Agree'
  BY DEF Agree
<1>0. CASE ~(isRunning /\ isRunning')
  <2>1. /\ file' = None /\ versionInfo' = None
        /\ download'.step = "idle" /\ pendingInstall'.step = "idle"
    BY <1>0, StoppedSteps, ProcessEnds, NoDownloadOK, NoPendingInstallOK
    DEF EndProcess, Base, Sound, Origins, helper
  <2> QED
    BY <2>1 DEF Agree
<1> SUFFICES ASSUME isRunning, isRunning' PROVE Agree'
  BY <1>0
<1>P. /\ \A v \in Versions : UpdateFile(v) \in Paths
      /\ None \notin Paths
  BY NoneIsNothing
<1>T. /\ download \in Downloads /\ pendingInstall \in PendingInstalls
      /\ files \in [Paths -> Contents] /\ file \in Paths \cup {None}
      /\ tempFile \in Versions \cup {None} /\ latest \in Versions
      /\ versionInfo \in Versions \cup {None}
  BY DEF Base, TypeOK
<1>V. /\ download.step # "idle" => download.update \in Versions
      /\ pendingInstall.step # "idle" => pendingInstall.update \in Versions
      /\ file # None => downloadedInfo \in CachedUpdateInfo
      /\ download.step = "writingInfo" => download.read \in CachedUpdateInfo
      /\ pendingInstall.step = "writingMarker" => pendingInstall.read \in CachedUpdateInfo
  BY DEF Base, Steps
<1>I. \A i \in CachedUpdateInfo : i \notin {None, Corrupt}
  BY InfoAssumption
<1>X. ~EndProcess
  BY DEF EndProcess
<1>O. /\ file # None => file = UpdateFile(downloadedInfo.update)
      /\ download.step = "hashing" => download.read.update = download.update
      /\ pendingInstall.step = "hashing" => pendingInstall.read.update = pendingInstall.update
      /\ download.step \in {"verifying", "renaming"} => tempFile \in {None, download.update}
  BY DEF Origins
<1> USE <1>P, <1>T, <1>V, <1>X, <1>O DEF Agree, HasInfo, disk, helper, history, session
<1>1. CASE EmptyStaleCache \/ FetchUpdate \/ AcceptDownload
  BY <1>1, DownloadFields DEF EmptyStaleCache, FetchUpdate, AcceptDownload, EmptyDir
<1>2. CASE WriteInfo
  BY <1>2, <1>I, DownloadFields DEF WriteInfo
<1>3. CASE FinishDownload \/ ClearAfterDownload \/ FailToWriteInfo
  BY <1>3, NoDownloadOK DEF FinishDownload, ClearAfterDownload, EmptyDir, FailToWriteInfo
<1>4. CASE FailDownload
  BY <1>4, DownloadFields DEF FailDownload, ForgetFile
<1>5. CASE MatchPendingUpdate \/ RejectPendingUpdate
  BY <1>5, PendingFields DEF MatchPendingUpdate, RejectPendingUpdate, ForgetFile
<1>6. CASE \/ AbandonPendingInstall \/ EmptyAfterPendingInstall \/ RefuseLaunchInstall
           \/ LaunchInstall
  BY <1>6, NoPendingInstallOK
  DEF AbandonPendingInstall, EmptyAfterPendingInstall, RefuseLaunchInstall, LaunchInstall, EmptyDir
<1>7. CASE AppInstall \/ Crash \/ \E e : Quit(e)
  BY <1>7 DEF AppInstall, Crash, Quit
<1>8. CASE Publish \/ Launch \/ (\E p \in Paths : DamageFile(p)) \/ UNCHANGED vars
  BY <1>8 DEF Publish, Launch, DamageFile, vars
<1>9. CASE StartDownload
  BY <1>9 DEF StartDownload
<1>10. CASE FindDownload
  <2>1. download.step = "readingInfo"
        /\ UNCHANGED <<updateInfo, files, file, downloadedInfo, versionInfo, pendingInstall,
                       isDisturbed>>
    BY <1>10 DEF FindDownload
  <2>2. \/ download'.step \in {"downloading", "emptyingStale"}
        \/ download'.step = "verifyingCached" /\ versionInfo = download.update
        \/ /\ download'.step = "hashing" /\ HasInfo /\ updateInfo.update = download.update
    <3>1. CASE IsDownloadedFile(download.update)
      BY <1>10, <3>1, DownloadFields DEF FindDownload
    <3>2. CASE ~IsDownloadedFile(download.update)
      <4>1. \/ DownloadGoesTo("downloading") \/ DownloadGoesTo("emptyingStale")
            \/ /\ HasInfo /\ updateInfo.update = download.update
               /\ download' = [download EXCEPT !.step = "hashing", !.read = updateInfo]
        BY <1>10, <3>2 DEF FindDownload, IsInfoMissing, IsInfoStale
      <4>2. DownloadGoesTo("downloading") => download'.step = "downloading"
        BY DownloadFields
      <4>3. DownloadGoesTo("emptyingStale") => download'.step = "emptyingStale"
        BY DownloadFields
      <4>4. download' = [download EXCEPT !.step = "hashing", !.read = updateInfo] =>
              download'.step = "hashing"
        BY DownloadReads
      <4> QED
        BY <4>1, <4>2, <4>3, <4>4
    <3> QED
      BY <3>1, <3>2
  <2>3. download'.update = download.update
    BY <1>10, FindDownloadFields
  <2> QED
    BY <2>1, <2>2, <2>3, NoneIsNothing
<1>11. CASE HashCachedDownload
  <2>1. /\ download.step = "hashing" /\ ~isDisturbed
        /\ UNCHANGED <<updateInfo, files, versionInfo, pendingInstall>>
        /\ download'.update = download.update
    BY <1>11, DownloadFields DEF HashCachedDownload, UsesCachedFile
  <2>2. \/ /\ UNCHANGED <<file, downloadedInfo>>
           /\ download'.step \in {"downloading", "emptyingStale"}
           /\ files[UpdateFile(download.update)] # download.update
        \/ /\ file' = UpdateFile(download.update) /\ downloadedInfo' = download.read
           /\ download'.step = "verifyingCached"
           /\ files[UpdateFile(download.update)] = download.update
    BY <1>11, NoneIsNothing, DownloadFields
    DEF HashCachedDownload, UsesCachedFile, IsFileMissing, IsFileDamaged
  <2> QED
    BY <2>1, <2>2
<1>12. CASE AcceptCachedDownload
  <2>1. /\ download.step = "verifyingCached" /\ download'.step = "announcing"
        /\ file' = UpdateFile(download.update)
        /\ downloadedInfo'.update = download.update /\ versionInfo' = download.update
        /\ UNCHANGED <<updateInfo, files, pendingInstall, isDisturbed>>
    BY <1>12, DownloadFields DEF AcceptCachedDownload, SetDownloadedFile
  <2> QED
    BY <2>1
<1>13. CASE SaveDownload
  <2>1. downloadedInfo'.update = download.update
    BY <1>13 DEF SaveDownload, SetDownloadedFile
  <2>2. download'.step = "writingInfo" /\ download'.read = downloadedInfo'
    BY <1>13, DownloadReads DEF SaveDownload
  <2>3. /\ file' = UpdateFile(download.update) /\ versionInfo' = download.update
        /\ files'[file'] = download.update
        /\ UNCHANGED <<pendingInstall, isDisturbed>> /\ download.step = "renaming"
    BY <1>13 DEF SaveDownload, SetDownloadedFile
  <2> QED
    BY <2>1, <2>2, <2>3
<1>14. CASE StartPendingInstall
  BY <1>14, PendingStarted DEF StartPendingInstall, IsMarked
<1>15. CASE FindPendingUpdate
  <2>1. pendingInstall.step = "readingInfo" /\ ~isDisturbed
        /\ UNCHANGED <<updateInfo, files, file, downloadedInfo, versionInfo, download>>
    BY <1>15 DEF FindPendingUpdate
  <2>2. pendingInstall' = [pendingInstall EXCEPT !.step = "hashing", !.read = updateInfo]
    BY <1>15, <2>1 DEF FindPendingUpdate, IsInfoMissing, IsInfoStale
  <2>3. pendingInstall'.step = "hashing" /\ pendingInstall'.update = pendingInstall.update
    BY <2>2, PendingReads
  <2> QED
    BY <2>1, <2>3
<1>16. CASE HashPendingUpdate
  <2>1. pendingInstall.step = "hashing" /\ ~isDisturbed
        /\ UNCHANGED <<updateInfo, files, download>> /\ versionInfo' = versionInfo
        /\ pendingInstall'.step \in {"emptying", "verifying"}
    BY <1>16, PendingFields DEF HashPendingUpdate, UsesCachedFile
  <2>2. \/ /\ UNCHANGED <<file, downloadedInfo>> /\ pendingInstall'.step = "emptying"
           /\ files[UpdateFile(pendingInstall.update)] # pendingInstall.update
        \/ /\ file' = UpdateFile(pendingInstall.update)
           /\ downloadedInfo' = pendingInstall.read /\ pendingInstall'.step = "verifying"
           /\ files[UpdateFile(pendingInstall.update)] = pendingInstall.update
    BY <1>16, PendingFields DEF HashPendingUpdate, UsesCachedFile, IsFileMissing, IsFileDamaged
  <2> QED
    BY <2>1, <2>2
<1>17. CASE AcceptPendingUpdate
  BY <1>17, PendingAccepted DEF AcceptPendingUpdate
<1>18. CASE ReadMarker
  <2>1. /\ pendingInstall.step = "readingMarker" /\ ~isDisturbed
        /\ file' = file /\ versionInfo' = versionInfo
        /\ file # None => downloadedInfo'.update = downloadedInfo.update
        /\ UNCHANGED <<updateInfo, files, download>>
    BY <1>18, UnmarksUpdate DEF ReadMarker
  <2>2. \/ AfterMarker
        \/ pendingInstall'.step = "writingMarker" /\ pendingInstall'.read = updateInfo
    BY <1>18, MarkerRead
  <2> QED
    BY <2>1, <2>2, MarkerEnds
<1>19. CASE ClearMarker
  <2>1. /\ pendingInstall.step = "writingMarker" /\ ~isDisturbed
        /\ file' = file /\ versionInfo' = versionInfo
        /\ file # None => downloadedInfo'.update = downloadedInfo.update
        /\ UNCHANGED <<files, download>>
    BY <1>19, UnmarksUpdate DEF ClearMarker
  <2>2. updateInfo' \in CachedUpdateInfo /\ updateInfo'.update = pendingInstall.read.update
    BY <1>19, MarkedInfo, SameUpdate DEF ClearMarker
  <2>3. pendingInstall'.step \in {"idle", "installing"}
    BY <1>19, MarkerEnds DEF ClearMarker
  <2> QED
    BY <2>1, <2>2, <2>3, <1>I
<1>20. CASE HandOffToNextLaunch
  <2>1. Mark \in CachedUpdateInfo /\ Mark.update = downloadedInfo.update
    BY <1>20, MarkedInfo, SameUpdate DEF HandOffToNextLaunch, Mark
  <2>2. /\ file # None /\ updateInfo' = Mark /\ downloadedInfo' = Mark
        /\ pendingInstall.step = "idle" /\ ~isDisturbed
        /\ UNCHANGED <<files, tempFile, file, versionInfo, download, pendingInstall>>
    BY <1>20 DEF HandOffToNextLaunch
  <2> QED
    BY <1>I, <2>1, <2>2
<1>21. CASE FailToClearMarker
  <2>1. pendingInstall'.step \in {"idle", "installing"}
    BY <1>21, MarkerEnds DEF FailToClearMarker
  <2> QED
    BY <1>21, <2>1 DEF FailToClearMarker
<1> QED
  BY <1>1, <1>2, <1>3, <1>4, <1>5, <1>6, <1>7, <1>8, <1>9, <1>10, <1>11, <1>12, <1>13, <1>14,
     <1>15, <1>16, <1>17, <1>18, <1>19, <1>20, <1>21
  DEF Next, Download, PendingInstall, App, Environment

-----------------------------------------------------------------------------
\* Where the bytes come from and whom the cache mentions, in every launch.
LEMMA Acceptance == Spec => [](Base /\ Trust /\ Origins)
<1>1. Init => Trust /\ Origins
  <2> SUFFICES ASSUME Init PROVE Trust /\ Origins
    OBVIOUS
  <2>1. ~HasInfo /\ file = None /\ download.step = "idle" /\ pendingInstall.step = "idle"
        /\ versionInfo = None /\ ~isAnnounced /\ ~isQuitHandled
    BY NoDownloadOK, NoPendingInstallOK DEF Init, HasInfo
  <2> QED
    BY <2>1 DEF Trust, Origins, Known, Single, IsMentioned
<1>2. IInv => Base
  BY DEF IInv, Base
<1>3. IInv /\ Trust /\ Origins /\ [Next]_vars => Trust' /\ Origins'
  BY <1>2, NextTrust, NextOrigins
<1> QED
  BY <1>1, <1>2, <1>3, Invariance, PTL DEF Spec

\* Until something disturbs the cache, memory and disk agree.
LEMMA Agreement == Spec => []Agree
<1>1. Init => Agree
  BY NoDownloadOK, NoPendingInstallOK DEF Init, Agree
<1>2. Base /\ Origins /\ Agree /\ [Next]_vars => Agree'
  BY NextAgree
<1> QED
  BY <1>1, <1>2, Acceptance, PTL DEF Spec

\* The helper's file is known once a download has ended, or the pending install goes on.
LEMMA FileIsSeen ==
  ASSUME Base, Trust, Origins, file # None,
         \/ isAnnounced
         \/ isQuitHandled /\ download.step = "idle"
         \/ pendingInstall.step = "installing"
  PROVE  files[file] \in Seen
<1>F. /\ file \in Paths /\ file = UpdateFile(downloadedInfo.update)
      /\ downloadedInfo.update \in Versions
      /\ files[file] \in Seen \cup {downloadedInfo.update}
      /\ pendingInstall.step # "idle" => pendingInstall.update \in Versions
  BY DEF Base, TypeOK, Steps, Origins, CachedUpdateInfo
<1>M. IsMentioned(downloadedInfo.update)
  BY DEF IsMentioned
<1>1. CASE Known
  BY <1>1, <1>F, <1>M DEF Known, IsKnown, IsClean, Seen
<1>2. CASE ~Known
  <2>1. Single /\ pendingInstall.step = "installing" /\ pendingInstall.isInstallable
    BY <1>2 DEF Trust, IsSettled, Origins
  <2>2. downloadedInfo.update = pendingInstall.update
    BY <2>1, <1>F, <1>M DEF Single, IsMentioned
  <2> QED
    BY <2>1, <2>2, <1>F DEF Origins
<1> QED
  BY <1>1, <1>2

\* A quit and a launch run only what the verifier accepted in this launch, and so does the
\* app once update-downloaded was emitted.
THEOREM AcceptedRuns == Spec => OnlyAcceptedUpdatesRun
<1>1. ASSUME IInv, Base, Trust, Origins, [Next]_vars,
             RunsBy({"quit", "launch"}) \/ (RunsBy({"app"}) /\ isAnnounced)
      PROVE  lastRun'.content \in accepted \cup {None}
  <2>1. PICK who \in SUBSET {"app", "quit", "launch"} :
          RunsBy(who) /\ (who = {"quit", "launch"} \/ isAnnounced)
    BY <1>1
  <2>2. /\ file # None /\ lastRun'.content = files[file]
        /\ \/ isAnnounced
           \/ isQuitHandled /\ download.step = "idle"
           \/ pendingInstall.step = "installing"
    BY <1>1, <2>1, InstallerRun DEF RunsBy
  <2> QED
    BY <1>1, <2>2, FileIsSeen DEF Seen
<1> QED
  BY <1>1, Invariance, Acceptance, PTL DEF Spec, OnlyAcceptedUpdatesRun

\* What a quit installs or marks is the update that the helper describes, unless a download
\* and a pending install overlapped or update-info.json could not be written.
THEOREM HelperMatches == Spec => []HelperMatchesCache
<1>1. Agree => HelperMatchesCache
  BY DEF Agree, HelperMatchesCache, IsCacheQuiet
<1> QED
  BY <1>1, Agreement, PTL
=============================================================================
