---------------------------- MODULE ToolsetCache ----------------------------
(***************************************************************************)
(* The cache of toolsets that all builds on a machine share                *)
(* (app-builder-lib's electronGet.ts and cacheState.ts): a directory per   *)
(* download URL with the extracted toolset, its .state and .lock files,    *)
(* and the archive cache next to it.  Builds are processes that run at the *)
(* same time, fail and crash anywhere.                                     *)
(*                                                                         *)
(* The URLs here are those of one toolset (GitHub, a mirror, an override): *)
(* each has an extract directory of its own and they share the path of the *)
(* cached archive, which is made of the release's and the file's names.    *)
(***************************************************************************)
EXTENDS Naturals

CONSTANTS
  Builds,      \* the processes
  Urls,        \* where the toolset is downloaded from
  Free,        \* a lock that nobody holds
  Stale,       \* the lock of a process that crashed, past its stale timeout
  MaxFaults    \* bound: crashes and failed operations

ASSUME LocksAssumption == Free \notin Builds /\ Stale \notin Builds /\ Free # Stale
ASSUME FaultsAssumption == MaxFaults \in Nat

\* What is at a path: nothing (or an empty directory), some of the files, all of them but not all of
\* their contents, or the toolset.
Contents == {"absent", "partial", "torn", "whole"}

FileCount(c) == CASE c = "absent" -> 0 [] c = "partial" -> 1 [] OTHER -> 2

CacheStates == {"none", "unreadable", "extracting", "complete"}

Steps == {"idle", "validating", "locking", "locked", "cleaning", "forgetting", "resolving",
          "downloading", "persisting", "marking", "opening", "extracting", "replacing", "moving",
          "copying", "counting", "completing", "using"}

\* The steps between lockfile.lock and release.
HoldingSteps == Steps \ {"idle", "validating", "locking", "using"}

VARIABLES
  dir,         \* the extracted toolset of each URL
  cacheState,  \* its state file, as readCacheStateFile sees it
  fileCount,   \* the count in a "complete" state file, 0 with any other state
  lock,        \* the lock file of each directory
  archive,     \* the archive cache
  build,       \* what each process is doing
  faults       \* so far

\* History variables, which no guard reads.
VARIABLES
  isSeeded,    \* the archive was there, whole, before the first build
  unpacked,    \* what the extraction left that each directory comes from
  outdated     \* builds whose fast path took a directory that another build was replacing

history == <<isSeeded, unpacked, outdated>>

vars == <<dir, cacheState, fileCount, lock, archive, build, faults, history>>

disk == <<dir, cacheState, fileCount, archive>>

BuildStates == [step : Steps, url : Urls, source : {"download", "archive"},
                count : 0..2, extracted : Contents]

TypeOK ==
  /\ dir \in [Urls -> Contents]
  /\ cacheState \in [Urls -> CacheStates]
  /\ fileCount \in [Urls -> 0..2]
  /\ lock \in [Urls -> {Free, Stale} \cup Builds]
  /\ archive \in {"absent", "partial", "whole"}
  /\ isSeeded \in BOOLEAN
  /\ unpacked \in [Urls -> Contents]
  /\ outdated \in SUBSET Builds
  /\ build \in [Builds -> BuildStates]
  /\ faults \in 0..MaxFaults
  \* a lock is held by the build that is between lock and release
  /\ \A u \in Urls, b \in Builds :
       lock[u] = b <=> build[b].step \in HoldingSteps /\ build[b].url = u

\* The caches builds find: nothing, an archive that somebody put there or that an earlier build
\* left unfinished, a toolset from which something was removed.
Init ==
  /\ \E f \in [Urls -> {"new", "damaged"}] :
       /\ dir = [u \in Urls |-> IF f[u] = "new" THEN "absent" ELSE "partial"]
       /\ cacheState = [u \in Urls |-> IF f[u] = "new" THEN "none" ELSE "complete"]
       /\ fileCount = [u \in Urls |-> IF f[u] = "new" THEN 0 ELSE 2]
       /\ unpacked = [u \in Urls |-> IF f[u] = "new" THEN "absent" ELSE "whole"]
  /\ lock = [u \in Urls |-> Free]
  /\ archive \in {"absent", "partial", "whole"}
  /\ isSeeded = (archive = "whole")
  /\ outdated = {}
  /\ \E u \in Urls :
       build = [b \in Builds |-> [step |-> "idle", url |-> u, source |-> "download",
                                  count |-> 0, extracted |-> "absent"]]
  /\ faults = 0

-----------------------------------------------------------------------------
At(b, s) == build[b].step = s

Goes(b, s) == build' = [build EXCEPT ![b].step = s]

Fault == faults < MaxFaults /\ faults' = faults + 1

\* What remains of a build that has ended is its step.
Ended(b, s) ==
  build' = [build EXCEPT ![b] = [@ EXCEPT !.step = s, !.source = "download", !.count = 0,
                                          !.extracted = "absent"]]

Release(b) == lock' = [lock EXCEPT ![build[b].url] = Free]

\* An exception leaves downloadAndExtract through its finally block.
Throws(b) == Ended(b, "idle") /\ Release(b)

IsValid(u, count) == dir[u] # "absent" /\ FileCount(dir[u]) >= count

\* The fast path before the lock reads the state file ...
Start(b, u) ==
  /\ build[b].step \in {"idle", "using"}
  /\ build' = [build EXCEPT ![b] =
       [step |-> IF cacheState[u] = "complete" THEN "validating" ELSE "locking",
        url |-> u, source |-> "download", count |-> fileCount[u], extracted |-> "absent"]]
  /\ outdated' = outdated \ {b}
  /\ UNCHANGED <<disk, lock, isSeeded, unpacked, faults>>

\* ... and then the directory, which another build may have replaced since, or be replacing.
Validate(b) ==
  /\ At(b, "validating")
  /\ IF IsValid(build[b].url, build[b].count) THEN Ended(b, "using") ELSE Goes(b, "locking")
  /\ outdated' = IF cacheState[build[b].url] # "complete" THEN outdated \cup {b} ELSE outdated
  /\ UNCHANGED <<disk, lock, isSeeded, unpacked, faults>>

CanLock(u) == lock[u] \in {Free, Stale}

Lock(b) ==
  /\ At(b, "locking") /\ CanLock(build[b].url)
  /\ lock' = [lock EXCEPT ![build[b].url] = b]
  /\ Goes(b, "locked")
  /\ UNCHANGED <<disk, history, faults>>

\* The retries are used up.
LockTimesOut(b) ==
  /\ At(b, "locking") /\ ~CanLock(build[b].url)
  /\ Fault /\ Ended(b, "idle")
  /\ UNCHANGED <<disk, lock, history>>

\* Mutant: the state file alone decides.
IsCompleteByState(u) == cacheState[u] = "complete"

IsComplete(u) == cacheState[u] = "complete" /\ IsValid(u, fileCount[u])

\* Another build may have completed the directory meanwhile.
Recheck(b) ==
  /\ At(b, "locked")
  /\ IF IsComplete(build[b].url)
       THEN Ended(b, "using") /\ Release(b)
       ELSE Goes(b, "cleaning") /\ UNCHANGED lock
  /\ UNCHANGED <<disk, history, faults>>

\* Removing a directory takes several steps, in which others may see it.
RemoveSomeOf(b) ==
  /\ dir[build[b].url] \in {"whole", "torn"}
  /\ dir' = [dir EXCEPT ![build[b].url] = "partial"]
  /\ UNCHANGED <<build, unpacked, faults>>

RemoveRestOf(b, next) ==
  /\ dir' = [dir EXCEPT ![build[b].url] = "absent"]
  /\ unpacked' = [unpacked EXCEPT ![build[b].url] = "absent"]
  /\ Goes(b, next)
  /\ UNCHANGED faults

\* cleanupCacheDirectory: what cannot be removed stays, with a warning.
Clean(b) ==
  /\ At(b, "cleaning")
  /\ \/ RemoveSomeOf(b)
     \/ RemoveRestOf(b, "forgetting")
     \/ Fault /\ Goes(b, "forgetting") /\ UNCHANGED <<dir, unpacked>>
  /\ UNCHANGED <<cacheState, fileCount, archive, lock, isSeeded, outdated>>

\* The state file of the build's directory becomes s, with the count n.
StateBecomes(b, s, n) ==
  /\ cacheState' = [cacheState EXCEPT ![build[b].url] = s]
  /\ fileCount' = [fileCount EXCEPT ![build[b].url] = n]

StateStays == UNCHANGED <<cacheState, fileCount>>

Forget(b) ==
  /\ At(b, "forgetting")
  /\ \/ StateBecomes(b, "none", 0) /\ UNCHANGED faults
     \/ Fault /\ StateStays
  /\ Goes(b, "resolving")
  /\ UNCHANGED <<dir, archive, lock, history>>

-----------------------------------------------------------------------------
\* Mutant: an archive that is there is used.
ArchiveIsUsableIfAny == archive # "absent"

\* Mutant: a seeded archive counts only with a state file next to it.
ArchiveIsUsableIfStated == archive = "whole" /\ \E u \in Urls : cacheState[u] # "none"

ArchiveIsUsable == archive = "whole"

UsesArchive(b) ==
  /\ ArchiveIsUsable
  /\ build' = [build EXCEPT ![b].step = "marking", ![b].source = "archive"]
  /\ UNCHANGED <<archive, faults>>

\* An archive with a wrong checksum is removed, or stays when that fails.
LeavesArchive(b) ==
  /\ ~ArchiveIsUsable
  /\ Goes(b, "downloading")
  /\ \/ archive' = "absent" /\ UNCHANGED faults
     \/ Fault /\ UNCHANGED archive

\* resolveFromArchiveCache.
ResolveArchive(b) ==
  /\ At(b, "resolving")
  /\ UsesArchive(b) \/ LeavesArchive(b)
  /\ UNCHANGED <<dir, cacheState, fileCount, lock, history>>

\* The directory cannot be made, or the archive cannot be read for its checksum.
ResolveFails(b) ==
  /\ At(b, "resolving")
  /\ Fault /\ Throws(b)
  /\ UNCHANGED <<disk, history>>

Persisting == {b \in Builds : At(b, "persisting")}

\* Those who extract from the archive cache while it is written read garbage.
Disturbed(B, builds) ==
  [b \in Builds |->
     IF b \in B /\ builds[b].step = "extracting" /\ builds[b].source = "archive"
       THEN [builds[b] EXCEPT !.extracted = "partial"] ELSE builds[b]]

\* downloadArtifactToFile, with its own retries and checksum: the file it returns is whole.
\* persistToArchiveCache then copies it over whatever is in the archive cache.
Download(b) ==
  /\ At(b, "downloading")
  /\ build' = Disturbed(Builds, [build EXCEPT ![b].step = "persisting"])
  /\ archive' = "partial"
  /\ UNCHANGED <<dir, cacheState, fileCount, lock, history, faults>>

DownloadFails(b) ==
  /\ At(b, "downloading")
  /\ Fault /\ Throws(b)
  /\ UNCHANGED <<disk, history>>

\* The copy ends, unless another one still writes the file or somebody removed it meanwhile.
Persist(b) ==
  /\ At(b, "persisting")
  /\ \/ /\ archive' = IF archive = "partial" /\ Persisting = {b} THEN "whole" ELSE archive
        /\ UNCHANGED faults
     \/ Fault /\ UNCHANGED archive
  /\ Goes(b, "marking")
  /\ UNCHANGED <<dir, cacheState, fileCount, lock, history>>

\* The states "downloaded" and "extracting"; a failed write is a warning.  It is assumed that a
\* file which could not be removed can at least be opened for writing, which empties it.
Mark(b) ==
  /\ At(b, "marking")
  /\ \/ StateBecomes(b, "extracting", 0) /\ UNCHANGED faults
     \/ Fault /\ StateBecomes(b, "unreadable", 0)
     \/ Fault /\ cacheState[build[b].url] # "complete" /\ StateStays
  /\ Goes(b, "opening")
  /\ UNCHANGED <<dir, archive, lock, history>>

-----------------------------------------------------------------------------
Source(b) == IF build[b].source = "archive" THEN archive ELSE "whole"

\* extractArchive waits for an archive that is missing, then gives up.
Open(b) ==
  /\ At(b, "opening")
  /\ IF Source(b) # "absent"
       THEN /\ build' = [build EXCEPT ![b].step = "extracting", ![b].extracted = Source(b)]
            /\ UNCHANGED lock
       ELSE Throws(b)
  /\ UNCHANGED <<disk, history, faults>>

ExtractFails(b) ==
  /\ At(b, "extracting")
  /\ \/ build[b].extracted # "whole" /\ UNCHANGED faults
     \/ Fault
  /\ Throws(b)
  /\ UNCHANGED <<disk, history>>

\* Into the .tmp directory, which is this build's.  Whatever files there are count as extracted: an
\* error that 7za reports is a warning then, and tar.extract warns of an entry it cannot write.
Extract(b) ==
  /\ At(b, "extracting")
  /\ \E c \in Contents \ {"absent"} :
       /\ c = "whole" => build[b].extracted = "whole"
       /\ build' = [build EXCEPT ![b].step = "replacing", ![b].extracted = c]
       /\ IF build[b].extracted = "whole" /\ c # "whole" THEN Fault ELSE UNCHANGED faults
  /\ UNCHANGED <<disk, lock, history>>

\* The old directory goes ...
Replace(b) ==
  /\ At(b, "replacing")
  /\ RemoveSomeOf(b) \/ RemoveRestOf(b, "moving")
  /\ UNCHANGED <<cacheState, fileCount, archive, lock, isSeeded, outdated>>

\* ... and the extracted one comes in its place: renamed, or copied when renaming failed too often.
Move(b) ==
  /\ At(b, "moving")
  /\ \/ dir' = [dir EXCEPT ![build[b].url] = build[b].extracted] /\ Goes(b, "counting")
     \/ dir' = [dir EXCEPT ![build[b].url] = "partial"] /\ Goes(b, "copying")
  /\ unpacked' = [unpacked EXCEPT ![build[b].url] = build[b].extracted]
  /\ UNCHANGED <<cacheState, fileCount, archive, lock, isSeeded, outdated, faults>>

\* The files appear one after the other, the last one before all of its contents.
Copy(b) ==
  /\ At(b, "copying")
  /\ \/ /\ dir[build[b].url] = "partial" /\ build[b].extracted # "partial"
        /\ dir' = [dir EXCEPT ![build[b].url] = "torn"]
        /\ UNCHANGED build
     \/ /\ dir[build[b].url] = "torn" \/ build[b].extracted = "partial"
        /\ dir' = [dir EXCEPT ![build[b].url] = build[b].extracted]
        /\ Goes(b, "counting")
  /\ UNCHANGED <<cacheState, fileCount, archive, lock, history, faults>>

\* Removing, moving or copying fails.
InstallFails(b) ==
  /\ build[b].step \in {"replacing", "moving", "copying"}
  /\ Fault /\ Throws(b)
  /\ UNCHANGED <<disk, history>>

\* Mutant: the copy is not awaited.
BeginCompleteDuringCopy(b) ==
  /\ build[b].step \in {"copying", "counting"}
  /\ StateBecomes(b, "unreadable", 0)
  /\ build' = [build EXCEPT ![b].step = "completing", ![b].count = FileCount(dir[build[b].url])]
  /\ UNCHANGED <<dir, archive, lock, history, faults>>

\* The last state is written like the others, but not atomically: readers may meet half of it.
BeginComplete(b) ==
  /\ At(b, "counting")
  /\ StateBecomes(b, "unreadable", 0)
  /\ build' = [build EXCEPT ![b].step = "completing", ![b].count = FileCount(dir[build[b].url])]
  /\ UNCHANGED <<dir, archive, lock, history, faults>>

Complete(b) ==
  /\ At(b, "completing")
  /\ StateBecomes(b, "complete", build[b].count)
  /\ Ended(b, "using") /\ Release(b)
  /\ UNCHANGED <<dir, archive, history, faults>>

CompleteFails(b) ==
  /\ At(b, "completing")
  /\ Fault /\ Throws(b)
  /\ UNCHANGED <<disk, history>>

\* A process ends anywhere; its lock file is not updated any more.
Crash(b) ==
  /\ build[b].step \notin {"idle", "using"}
  /\ Fault
  /\ Ended(b, "idle")
  /\ lock' = IF build[b].step \in HoldingSteps
               THEN [lock EXCEPT ![build[b].url] = Stale] ELSE lock
  /\ UNCHANGED <<disk, history>>

-----------------------------------------------------------------------------
\* What a build does of its own, failures aside.
Proceed(b) ==
  \/ Validate(b) \/ Lock(b) \/ Recheck(b) \/ Clean(b) \/ Forget(b)
  \/ ResolveArchive(b) \/ Download(b) \/ Persist(b) \/ Mark(b)
  \/ Open(b) \/ Extract(b) \/ Replace(b) \/ Move(b) \/ Copy(b)
  \/ BeginComplete(b) \/ Complete(b)

Fail(b) ==
  \/ LockTimesOut(b) \/ ResolveFails(b) \/ DownloadFails(b) \/ ExtractFails(b) \/ InstallFails(b)
  \/ CompleteFails(b) \/ Crash(b)

Next ==
  \E b \in Builds :
    \/ \E u \in Urls : Start(b, u)
    \/ Proceed(b)
    \/ Fail(b)

\* A process that is not stopped goes on.
Fairness == \A b \in Builds : WF_vars(Proceed(b) \/ ExtractFails(b))

Spec == Init /\ [][Next]_vars /\ Fairness

-----------------------------------------------------------------------------
(* Properties *)

IsRunning(b) == build[b].step \notin {"idle", "using"}

\* Whoever was handed a directory has in it all that its extraction left, for as long as it uses it:
\* whatever other builds do, crash in or leave behind (downloadAndExtract).  The exception are those
\* whose fast path looked at the directory, without the lock, after the state file it had read was
\* gone.  TypeOK says that the lock of a directory has one holder.
UsersHaveToolset ==
  /\ TypeOK
  /\ \A b \in Builds \ outdated :
       At(b, "using") => dir[build[b].url] = unpacked[build[b].url] /\ dir[build[b].url] # "absent"

\* The same for the fast path whenever it takes a directory, as its comment has it: a racing read
\* only ever falls through to take the lock.
FastPathFallsThrough ==
  [][\A b \in Builds :
       At(b, "validating") /\ build'[b].step = "using" =>
         dir[build[b].url] = unpacked[build[b].url]]_vars

\* A state file that says "complete" next to enough files means all that an extraction left, at any
\* moment, since that is all a build that holds no lock can see: never a copy half done, what a
\* crash or a removal left over, or a mixture of two extractions.
CompleteMeansUnpacked == \A u \in Urls : IsComplete(u) => dir[u] = unpacked[u]

\* An archive that was put into the archive cache is all a build needs: none goes to the network
\* for the toolset then (the contract for offline builds, resolveFromArchiveCache).  To extract a
\* .7z or a .tar.xz a build also needs the 7zip toolset, which has an archive of its own.
SeededArchiveIsEnough == isSeeded => \A b \in Builds : ~At(b, "downloading")

\* No crash, failure or leftover wedges the cache: when there are no more faults, a build that
\* waits for the lock gets its directory.  A build that downloads the toolset from another URL at
\* that time may get in its way, since it overwrites the archive they share under another lock.
RecoversFromFaults ==
  \A b \in Builds :
    faults = MaxFaults /\ At(b, "locking") ~>
      \/ At(b, "using")
      \/ \E c \in Builds : IsRunning(c) /\ build[c].url # build[b].url
=============================================================================
