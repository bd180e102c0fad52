--------------------------- MODULE MacUpdateProofs ---------------------------
(***************************************************************************)
(* Proofs about MacUpdate, for any number of versions and faults: which    *)
(* files belong together at each step of a download, and what follows for  *)
(* the cached block map, for what is announced and for cancels.            *)
(***************************************************************************)
EXTENDS MacUpdate, TLAPS

\* The steps in which the pending directory holds no update that was saved.
FreshSteps == {"planning", "mapping", "ranging", "fetching", "verifying", "renaming"}

\* The steps in which it holds the update of the download.
SavedSteps == {"verifyingCached", "copyingMap", "copyingZip", "serving"}

\* What the download has on disk at each step.
Files ==
  /\ download.step # "idle" => download.update # None
  /\ download.step \in FreshSteps => pendingZip = None
  /\ download.step \in FreshSteps \ {"planning"} => pendingMap \in {None, download.update}
  /\ download.step \in {"verifying", "renaming"} => tempZip = download.update
  /\ download.step \in SavedSteps => pendingZip = download.update

\* Which block map is next to which zip.
Pairs ==
  /\ pendingZip # None => pendingMap \in {None, pendingZip}
  /\ download.step = "copyingZip" => cachedMap \in {None, pendingZip}
  /\ isTorn \/ download.step = "copyingZip" \/ cachedMap \in {None, cachedZip}

\* A cancel in time is seen before a fresh file passes for verified.
Cancels ==
  download.isCancelledInTime =>
    download.isCancelled /\ (download.step \in UnverifiedSteps \/ download.isFromCache)

\* The inductive invariant.
IInv == TypeOK /\ Files /\ Pairs /\ Cancels

Downloads == [step : Steps, update : OptionalVersions, isDifferential : BOOLEAN,
              plan : OptionalVersions, isFromCache : BOOLEAN,
              isCancelled : BOOLEAN, isCancelledInTime : BOOLEAN]

Squirrels == [step : {"idle", "fetching", "staging"}, update : OptionalVersions,
              staged : OptionalVersions]

-----------------------------------------------------------------------------
LEMMA NoVersion == None \notin Versions /\ Corrupt \notin OptionalVersions
  BY BoundsAssumption, ContentAssumption DEF Versions, OptionalVersions

LEMMA IdleTypes == Idle \in Downloads /\ Idle.step = "idle" /\ ~Idle.isCancelledInTime
  BY DEF Idle, Downloads, Steps, OptionalVersions

LEMMA Initially == Init => IInv
  <1> SUFFICES ASSUME Init
               PROVE  IInv
    OBVIOUS
  <1>1. 1 \in Versions /\ 0 \in 0..MaxFaults
    BY BoundsAssumption DEF Versions
  <1>2. TypeOK
    BY <1>1, IdleTypes DEF Init, TypeOK, OptionalVersions, Downloads
  <1>3. Files /\ Cancels
    BY IdleTypes DEF Init, Files, Cancels, FreshSteps, SavedSteps
  <1>4. Pairs
    BY DEF Init, Pairs
  <1>5. QED
    BY <1>2, <1>3, <1>4 DEF IInv

\* GoTo changes the step alone.
LEMMA Going ==
  ASSUME TypeOK, NEW s \in Steps, GoTo(s)
  PROVE  /\ download' \in Downloads
         /\ download'.step = s
         /\ download'.update = download.update
         /\ download'.isDifferential = download.isDifferential
         /\ download'.isFromCache = download.isFromCache
         /\ download'.isCancelled = download.isCancelled
         /\ download'.isCancelledInTime = download.isCancelledInTime
  BY DEF TypeOK, GoTo, Downloads

\* An operation that fails is counted, up to the bound.
LEMMA Failing == TypeOK /\ Fails => faults' \in 0..MaxFaults
  BY BoundsAssumption DEF Fails, TypeOK

\* The update of a download that goes on.
LEMMA Updating ==
  ASSUME IInv, download.step # "idle"
  PROVE  download.update \in Versions /\ download.update # None /\ download.update # Corrupt
  BY NoVersion DEF IInv, TypeOK, Files, OptionalVersions

\* A download that has ended claims nothing about files.
LEMMA Ended ==
  ASSUME download' = Idle
  PROVE  Files' /\ Cancels' /\ download' \in Downloads /\ download'.step = "idle"
  BY IdleTypes DEF Files, Cancels, FreshSteps, SavedSteps

\* The files unchanged: the pairs hold unless a download leaves the step between the two copies.
LEMMA SamePairs ==
  ASSUME Pairs, UNCHANGED <<cache, pending>>,
         download'.step = "copyingZip" <=> download.step = "copyingZip"
  PROVE  Pairs'
  BY DEF Pairs, cache, pending

-----------------------------------------------------------------------------
\* Checks and cancels do not touch the files of a download.
LEMMA OutsideSteps ==
  ASSUME IInv, Publish \/ CheckForUpdates \/ Cancel \/ Launch
  PROVE  IInv'
  <1> USE DEF IInv
  <1>1. CASE Publish
    <2>1. latest' \in Versions
      BY <1>1, BoundsAssumption DEF Publish, Versions, TypeOK
    <2>2. QED
      BY <1>1, <2>1 DEF Publish, TypeOK, Files, Pairs, Cancels, settings, cache, pending, handover,
                        quitting
  <1>2. CASE CheckForUpdates
    <2> USE <1>2 DEF CheckForUpdates, settings, cache, pending, handover, quitting, world
    <2>1. CASE UNCHANGED download
      <3>1. info' \in OptionalVersions
        BY DEF TypeOK, OptionalVersions
      <3>2. QED
        BY <2>1, <3>1 DEF TypeOK, Files, Pairs, Cancels
    <2>2. CASE ~UNCHANGED download
      <3>1. /\ download.step = "idle" /\ info' = latest /\ latest \in Versions
            /\ \E isDifferential \in BOOLEAN :
                 download' = [Idle EXCEPT !.step = "looking", !.update = latest,
                                          !.isDifferential = isDifferential]
        BY <2>2 DEF DownloadUpdate, TypeOK
      <3>2. /\ download' \in Downloads /\ download'.step = "looking" /\ download'.update = latest
            /\ ~download'.isCancelledInTime
        BY <3>1 DEF Idle, Downloads, Steps, OptionalVersions
      <3>3. TypeOK'
        BY <3>1, <3>2 DEF TypeOK, OptionalVersions, Downloads
      <3>4. Files' /\ Cancels'
        BY <3>1, <3>2, NoVersion DEF Files, Cancels, FreshSteps, SavedSteps
      <3>5. Pairs'
        BY <3>1, <3>2, SamePairs
      <3>6. QED
        BY <3>3, <3>4, <3>5
    <2>3. QED
      BY <2>1, <2>2
  <1>3. CASE Cancel
    <2> USE <1>3 DEF Cancel, settings, cache, pending, handover, quitting, world
    <2> DEFINE inTime == download.step \in UnverifiedSteps
    <2>1. inTime \in BOOLEAN /\ download \in Downloads
      BY DEF TypeOK, Downloads
    <2> HIDE DEF inTime
    <2>2. download' = [download EXCEPT !.isCancelled = TRUE, !.isCancelledInTime = inTime]
      BY DEF inTime
    <2>3. /\ download' \in Downloads /\ download'.step = download.step
          /\ download'.update = download.update /\ download'.isCancelled
          /\ download'.isCancelledInTime => download.step \in UnverifiedSteps
      <3>1. download'.isCancelledInTime = inTime
        BY <2>1, <2>2 DEF Downloads
      <3>2. /\ download' \in Downloads /\ download'.step = download.step
            /\ download'.update = download.update /\ download'.isCancelled
        BY <2>1, <2>2 DEF Downloads
      <3>3. QED
        BY <3>1, <3>2 DEF inTime
    <2>4. faults' \in 0..MaxFaults
      BY Failing
    <2>5. TypeOK'
      BY <2>3, <2>4 DEF TypeOK, Downloads
    <2>6. Files' /\ Cancels'
      BY <2>3 DEF Files, Cancels
    <2>7. Pairs'
      BY <2>3, SamePairs
    <2>8. QED
      BY <2>5, <2>6, <2>7
  <1>4. CASE Launch
    BY <1>4 DEF Launch, TypeOK, Files, Pairs, Cancels, settings, cache, pending, handover, quitting
  <1>5. QED
    BY <1>1, <1>2, <1>3, <1>4

\* The steps of a download until its file is saved.
LEMMA FreshStepsKeep ==
  ASSUME IInv,
         Look \/ AcceptCached \/ StartFresh \/ LoadMaps \/ LoadMapsFails \/ DownloadRanges
           \/ DownloadRangesFails \/ Fetch \/ Verify \/ FailDownload \/ Rename
  PROVE  IInv'
  <1> USE DEF IInv, At, settings, cache, pending, handover, quitting, world
  <1>1. CASE Look
    <2> USE <1>1 DEF Look
    <2>1. TypeOK'
      BY Going, Updating DEF TypeOK, Steps, Downloads, OptionalVersions
    <2>2. Files' /\ Cancels'
      BY Going, Updating DEF Files, Cancels, Steps, FreshSteps, SavedSteps, CancellableSteps,
                            UnverifiedSteps
    <2>3. Pairs'
      BY Going DEF Files, Pairs, Steps, FreshSteps, SavedSteps
    <2>4. QED
      BY <2>1, <2>2, <2>3
  <1>2. CASE AcceptCached
    <2> USE <1>2 DEF AcceptCached
    <2>0. /\ download' \in Downloads /\ download'.step = "copyingMap"
          /\ download'.update = download.update /\ download'.isFromCache
          /\ download'.isCancelled = download.isCancelled
          /\ download'.isCancelledInTime = download.isCancelledInTime
      BY DEF TypeOK, Downloads, Steps
    <2>1. TypeOK'
      BY <2>0 DEF TypeOK, Downloads
    <2>2. Files' /\ Cancels'
      BY <2>0, Updating DEF Files, Cancels, FreshSteps, SavedSteps
    <2>3. Pairs'
      BY <2>0 DEF Pairs
    <2>4. QED
      BY <2>1, <2>2, <2>3
  <1>3. CASE StartFresh
    <2> USE <1>3 DEF StartFresh
    <2>1. TypeOK'
      BY Going DEF TypeOK, Steps, Downloads, OptionalVersions
    <2>2. Files' /\ Cancels'
      BY Going, Updating DEF Files, Cancels, Steps, FreshSteps, SavedSteps, CancellableSteps,
                            UnverifiedSteps
    <2>3. Pairs'
      BY Going DEF Files, Pairs, Steps, FreshSteps, SavedSteps
    <2>4. QED
      BY <2>1, <2>2, <2>3
  <1>4. CASE LoadMaps
    <2> USE <1>4 DEF LoadMaps
    <2>1. /\ download' \in Downloads /\ download'.step \in {"ranging", "fetching"}
          /\ download'.update = download.update
          /\ download'.isFromCache = download.isFromCache
          /\ download'.isCancelled = download.isCancelled
          /\ download'.isCancelledInTime = download.isCancelledInTime
      BY DEF TypeOK, Downloads, Steps, OptionalVersions
    <2>2. TypeOK'
      BY <2>1 DEF TypeOK, Downloads
    <2>3. Files' /\ Cancels'
      BY <2>1, Updating DEF Files, Cancels, FreshSteps, SavedSteps, CancellableSteps,
                            UnverifiedSteps
    <2>4. Pairs'
      BY <2>1 DEF Files, Pairs, FreshSteps
    <2>5. QED
      BY <2>2, <2>3, <2>4
  <1>5. CASE LoadMapsFails
    <2> USE <1>5 DEF LoadMapsFails
    <2>1. TypeOK'
      BY Going, Failing DEF TypeOK, Steps, Downloads
    <2>2. Files' /\ Cancels'
      BY Going, Updating DEF Files, Cancels, Steps, FreshSteps, SavedSteps, CancellableSteps,
                            UnverifiedSteps
    <2>3. Pairs'
      BY Going DEF Files, Pairs, Steps, FreshSteps, SavedSteps
    <2>4. QED
      BY <2>1, <2>2, <2>3
  <1>6. CASE DownloadRanges
    <2> USE <1>6 DEF DownloadRanges
    <2>1. TypeOK'
      BY Going, Updating DEF TypeOK, Steps, Downloads, OptionalVersions
    <2>2. Files' /\ Cancels'
      BY Going, Updating DEF Files, Cancels, Steps, FreshSteps, SavedSteps, CancellableSteps,
                            UnverifiedSteps
    <2>3. Pairs'
      BY Going DEF Pairs, Steps
    <2>4. QED
      BY <2>1, <2>2, <2>3
  <1>7. CASE DownloadRangesFails
    <2> USE <1>7 DEF DownloadRangesFails
    <2>1. TypeOK'
      BY Going, Failing DEF TypeOK, Steps, Downloads
    <2>2. Files' /\ Cancels'
      BY Going, Updating DEF Files, Cancels, Steps, FreshSteps, SavedSteps, CancellableSteps,
                            UnverifiedSteps
    <2>3. Pairs'
      BY Going DEF Pairs, Steps
    <2>4. QED
      BY <2>1, <2>2, <2>3
  <1>8. CASE Fetch
    <2> USE <1>8 DEF Fetch
    <2>1. TypeOK'
      BY Going, Updating DEF TypeOK, Steps, Downloads, OptionalVersions
    <2>2. Files' /\ Cancels'
      BY Going, Updating DEF Files, Cancels, Steps, FreshSteps, SavedSteps, CancellableSteps,
                            UnverifiedSteps
    <2>3. Pairs'
      BY Going DEF Pairs, Steps
    <2>4. QED
      BY <2>1, <2>2, <2>3
  <1>9. CASE Verify
    <2> USE <1>9 DEF Verify
    <2>1. TypeOK'
      BY Going DEF TypeOK, Steps, Downloads
    <2>2. Files' /\ Cancels'
      BY Going, Updating DEF Files, Cancels, Steps, FreshSteps, SavedSteps, CancellableSteps,
                            UnverifiedSteps
    <2>3. Pairs'
      BY Going DEF Pairs, Steps
    <2>4. QED
      BY <2>1, <2>2, <2>3
  <1>10. CASE FailDownload
    <2> USE <1>10 DEF FailDownload, EndDownload
    <2>1. faults' \in 0..MaxFaults /\ download.step # "copyingZip"
      BY Failing DEF TypeOK, CancellableSteps
    <2>2. TypeOK'
      BY <2>1, Ended DEF TypeOK, Downloads, OptionalVersions
    <2>3. Pairs'
      BY <2>1, Ended DEF Pairs
    <2>4. QED
      BY <2>2, <2>3, Ended
  <1>11. CASE Rename
    <2> USE <1>11 DEF Rename
    <2>1. TypeOK'
      BY Going, Updating DEF TypeOK, Files, Steps, Downloads, OptionalVersions
    <2>2. Files' /\ Cancels'
      BY Going, Updating DEF Files, Cancels, Steps, FreshSteps, SavedSteps, CancellableSteps,
                            UnverifiedSteps
    <2>3. Pairs'
      BY Going DEF Files, Pairs, Steps, FreshSteps, SavedSteps
    <2>4. QED
      BY <2>1, <2>2, <2>3
  <1>12. QED
    BY <1>1, <1>2, <1>3, <1>4, <1>5, <1>6, <1>7, <1>8, <1>9, <1>10, <1>11

\* The copies into the cache, and the hand-over to Squirrel.
LEMMA SavedStepsKeep ==
  ASSUME IInv,
         \/ CopyMap \/ CopyMapFails \/ CopyZip \/ CopyZipFails
         \/ Serve \/ SquirrelFetches \/ SquirrelFails
  PROVE  IInv'
  <1> USE DEF IInv, At, settings, cache, pending, handover, quitting, world
  <1>1. CASE CopyMap
    <2> USE <1>1 DEF CopyMap
    <2>1. TypeOK'
      BY Going, Updating DEF TypeOK, Steps, Downloads, OptionalVersions
    <2>2. Files' /\ Cancels'
      BY Going, Updating DEF Files, Cancels, Steps, FreshSteps, SavedSteps, CancellableSteps,
                            UnverifiedSteps
    <2>3. Pairs'
      BY Going DEF Files, Pairs, Steps, FreshSteps, SavedSteps
    <2>4. QED
      BY <2>1, <2>2, <2>3
  <1>2. CASE CopyZip
    <2> USE <1>2 DEF CopyZip
    <2>1. TypeOK'
      <3>1. download' \in Downloads /\ cachedZip' \in OptionalVersions
        BY Going DEF TypeOK, Steps
      <3>2. QED
        BY <3>1 DEF TypeOK, Downloads
    <2>2. Files' /\ Cancels'
      BY Going, Updating DEF Files, Cancels, Steps, FreshSteps, SavedSteps, CancellableSteps,
                            UnverifiedSteps
    <2>3. Pairs'
      BY Going DEF Files, Pairs, Steps, FreshSteps, SavedSteps
    <2>4. QED
      BY <2>1, <2>2, <2>3
  <1>3. CASE CopyZipFails
    <2> USE <1>3 DEF CopyZipFails
    <2>1. TypeOK'
      BY Going, Failing DEF TypeOK, Steps, Downloads
    <2>2. Files' /\ Cancels'
      BY Going, Updating DEF Files, Cancels, Steps, FreshSteps, SavedSteps, CancellableSteps,
                            UnverifiedSteps
    <2>3. Pairs'
      BY Going DEF Files, Pairs, Steps, FreshSteps, SavedSteps
    <2>4. QED
      BY <2>1, <2>2, <2>3
  <1>4. CASE Serve
    <2> USE <1>4 DEF Serve
    <2>1. /\ squirrel' \in Squirrels
          /\ download' = Idle \/ GoTo("handingOver")
      BY DEF TypeOK, Squirrels, EndDownload, OptionalVersions
    <2>2. CASE download' = Idle
      <3>1. TypeOK'
        BY <2>1, <2>2, Ended, Updating DEF TypeOK, Downloads, Squirrels, OptionalVersions
      <3>2. Pairs'
        BY <2>2, Ended, SamePairs
      <3>3. QED
        BY <2>2, <3>1, <3>2, Ended
    <2>3. CASE GoTo("handingOver")
      <3>1. /\ download' \in Downloads /\ download'.step = "handingOver"
            /\ download'.update = download.update
            /\ download'.isFromCache = download.isFromCache
            /\ download'.isCancelled = download.isCancelled
            /\ download'.isCancelledInTime = download.isCancelledInTime
        BY Going, <2>3 DEF Steps
      <3>2. TypeOK'
        BY <2>1, <3>1, Updating DEF TypeOK, Downloads, Squirrels, OptionalVersions
      <3>3. Files' /\ Cancels'
        BY <3>1, Updating DEF Files, Cancels, FreshSteps, SavedSteps, CancellableSteps,
                            UnverifiedSteps
      <3>4. Pairs'
        BY <3>1, SamePairs
      <3>5. QED
        BY <3>2, <3>3, <3>4
    <2>4. QED
      BY <2>1, <2>2, <2>3
  <1>5. ASSUME SquirrelFetches \/ SquirrelFails
        PROVE  IInv'
    <2> USE DEF SquirrelFetches, SquirrelFails
    <2>1. /\ squirrel' \in Squirrels /\ faults' \in 0..MaxFaults
          /\ (UNCHANGED download) \/ (download' = Idle /\ At("handingOver"))
          /\ UNCHANGED <<settings, world, cache, pending, info, handover, quitting>>
      <3>1. CASE SquirrelFetches
        BY <3>1 DEF TypeOK, Squirrels, EndDownload, OptionalVersions
      <3>2. CASE SquirrelFails
        BY <3>2, Failing DEF TypeOK, Squirrels, EndDownload, OptionalVersions
      <3>3. QED
        BY <1>5, <3>1, <3>2
    <2>2. CASE UNCHANGED download
      BY <2>1, <2>2 DEF TypeOK, Squirrels, Files, Pairs, Cancels
    <2>3. CASE download' = Idle /\ At("handingOver")
      <3>1. TypeOK'
        BY <2>1, <2>3, Ended DEF TypeOK, Downloads, Squirrels
      <3>2. Pairs'
        BY <2>1, <2>3, Ended, SamePairs
      <3>3. QED
        BY <2>3, <3>1, <3>2, Ended
    <2>4. QED
      BY <2>1, <2>2, <2>3
  <1>6. CASE CopyMapFails
    <2> USE <1>6 DEF CopyMapFails, EndDownload
    <2>1. faults' \in 0..MaxFaults /\ cachedMap' \in OptionalVersions
      BY Failing DEF TypeOK, OptionalVersions
    <2>2. TypeOK'
      BY <2>1, Ended DEF TypeOK, Downloads
    <2>3. Pairs'
      BY Ended DEF Pairs
    <2>4. QED
      BY <2>2, <2>3, Ended
  <1>7. QED
    BY <1>1, <1>2, <1>3, <1>4, <1>5, <1>6

\* The process ends at any step: what a cut copy leaves is torn, or is a pair.
LEMMA ExitKeeps ==
  ASSUME IInv, NEW staged \in OptionalVersions, Exit(staged), CutCopies, faults' \in 0..MaxFaults
  PROVE  IInv'
  <1> USE BoundsAssumption, ContentAssumption
  <1>1. TypeOK'
    BY DEF IInv, TypeOK, Exit, CutCopies, Idle, settings, Steps, OptionalVersions, At
  <1>2. download'.step = "idle" /\ ~download'.isCancelledInTime
    BY DEF Exit, Idle
  <1>3. Files' /\ Cancels'
    BY <1>2 DEF Files, Cancels, FreshSteps, SavedSteps
  <1>4. Pairs'
    BY <1>2 DEF IInv, Pairs, Exit, CutCopies
  <1>5. QED
    BY <1>1, <1>3, <1>4 DEF IInv

LEMMA QuitsKeep ==
  ASSUME IInv, Quit \/ SquirrelStages \/ QuitAndInstall
  PROVE  IInv'
  <1> USE DEF IInv, TypeOK
  <1>1. CASE Quit
    <2>1. squirrel.staged \in OptionalVersions /\ faults' \in 0..MaxFaults
      BY <1>1, Failing DEF Quit
    <2>2. QED
      BY <1>1, <2>1, ExitKeeps DEF Quit
  <1>2. CASE SquirrelStages
    <2>1. CASE isQuitAwaited
      BY <1>2, <2>1, ExitKeeps DEF SquirrelStages
    <2>2. CASE ~isQuitAwaited
      <3>1. squirrel' \in Squirrels
        BY <1>2, <2>2 DEF SquirrelStages, Squirrels, OptionalVersions
      <3>2. QED
        BY <1>2, <2>2, <3>1 DEF SquirrelStages, Squirrels, Files, Pairs, Cancels, settings, cache,
                                pending, handover, world
    <2>3. QED
      BY <2>1, <2>2
  <1>3. CASE QuitAndInstall
    <2>1. CASE squirrelDownloadedUpdate
      BY <1>3, <2>1, ExitKeeps DEF QuitAndInstall
    <2>2. CASE ~squirrelDownloadedUpdate
      <3>1. squirrel' \in Squirrels
        BY <1>3, <2>2 DEF QuitAndInstall, Squirrels, OptionalVersions
      <3>2. QED
        BY <1>3, <2>2, <3>1 DEF QuitAndInstall, Squirrels, Files, Pairs, Cancels, settings, cache,
                                pending, handover, world
    <2>3. QED
      BY <2>1, <2>2
  <1>4. QED
    BY <1>1, <1>2, <1>3

-----------------------------------------------------------------------------
LEMMA NextKeeps == IInv /\ [Next]_vars => IInv'
  <1> SUFFICES ASSUME IInv, [Next]_vars
               PROVE  IInv'
    OBVIOUS
  <1>1. CASE Next
    BY <1>1, OutsideSteps, FreshStepsKeep, SavedStepsKeep, QuitsKeep
    DEF Next, DownloadStep, SquirrelStep
  <1>2. CASE UNCHANGED vars
    BY <1>2 DEF vars, IInv, TypeOK, Files, Pairs, Cancels, settings, cache, pending, handover,
                quitting, world
  <1>3. QED
    BY <1>1, <1>2

\* The files of every step belong together, whatever was cut short before (executeDownload).
THEOREM Invariance == Spec => []IInv
  BY Initially, NextKeeps, PTL DEF Spec

\* Type correctness of the macOS update.
THEOREM TypeCorrect == Spec => []TypeOK
  <1>1. IInv => TypeOK
    BY DEF IInv
  <1>2. QED
    BY <1>1, Invariance, PTL

\* `done` of executeDownload leaves no stale block map next to a fresh zip.
THEOREM MapsDescribeZips == Spec => []MapDescribesZip
  <1>1. IInv => MapDescribesZip
    BY DEF IInv, Pairs, MapDescribesZip, At
  <1>2. QED
    BY <1>1, Invariance, PTL

\* Only the update that was asked for, and all of it, is handed to Squirrel and announced.
THEOREM AnnouncedWhole == Spec => AnnouncedIsWhole
  <1>1. IInv /\ [Next]_vars => [Serve => pendingZip = download.update]_vars
    BY DEF IInv, Files, SavedSteps, Serve, At
  <1>2. QED
    BY <1>1, Invariance, PTL DEF Spec, AnnouncedIsWhole

\* A fresh download whose token was cancelled before its file was verified announces nothing.
THEOREM CancelledNotAnnounced == Spec => CancelledIsNotAnnounced
  <1>1. IInv /\ [Next]_vars =>
          [Serve /\ download.isCancelledInTime => download.isFromCache]_vars
    BY DEF IInv, Cancels, UnverifiedSteps, CancellableSteps, Serve, At
  <1>2. QED
    BY <1>1, Invariance, PTL DEF Spec, CancelledIsNotAnnounced
=============================================================================
