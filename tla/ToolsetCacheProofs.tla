------------------------- MODULE ToolsetCacheProofs -------------------------
(***************************************************************************)
(* Proofs about ToolsetCache, for any number of builds, URLs, crashes and  *)
(* failures.                                                               *)
(***************************************************************************)
EXTENDS ToolsetCache, TLAPS

Others(b) == \A c \in Builds \ {b} : build'[c] = build[c]

\* A build goes on to its next step.
LEMMA GoesOn ==
  ASSUME build \in [Builds -> BuildStates], NEW b \in Builds, NEW s \in Steps, Goes(b, s)
  PROVE  /\ build' \in [Builds -> BuildStates]
         /\ build'[b].step = s
         /\ build'[b].url = build[b].url
         /\ build'[b].source = build[b].source
         /\ build'[b].count = build[b].count
         /\ build'[b].extracted = build[b].extracted
         /\ Others(b)
  BY DEF Goes, BuildStates, Others

\* What a build that has ended leaves of its record.
LEMMA EndedRecord ==
  ASSUME NEW r \in BuildStates, NEW s \in Steps
  PROVE  LET e == [r EXCEPT !.step = s, !.source = "download", !.count = 0, !.extracted = "absent"]
         IN  e \in BuildStates /\ e.step = s /\ e.url = r.url
<1> DEFINE e == [r EXCEPT !.step = s, !.source = "download", !.count = 0, !.extracted = "absent"]
           p == [r EXCEPT !.step = s, !.source = "download"]
           q == [p EXCEPT !.count = 0]
<1>1. p \in BuildStates
  BY DEF BuildStates
<1>2. e = [q EXCEPT !.extracted = "absent"]
  BY DEF BuildStates
<1>3. e.step = s /\ e.url = r.url
  BY DEF BuildStates
<1> HIDE DEF p, e
<1>4. q \in BuildStates
  BY <1>1 DEF BuildStates
<1> HIDE DEF q
<1>5. [q EXCEPT !.extracted = "absent"] \in BuildStates
  BY <1>4 DEF BuildStates, Contents
<1> QED
  BY <1>2, <1>3, <1>5 DEF e

\* A build that has ended keeps only its step and its URL.
LEMMA EndsAt ==
  ASSUME build \in [Builds -> BuildStates], NEW b \in Builds, NEW s \in Steps, Ended(b, s)
  PROVE  /\ build' \in [Builds -> BuildStates]
         /\ build'[b].step = s
         /\ build'[b].url = build[b].url
         /\ Others(b)
<1>1. build' = [build EXCEPT ![b] = [build[b] EXCEPT !.step = s, !.source = "download",
                                                     !.count = 0, !.extracted = "absent"]]
  BY DEF Ended
<1> QED
  BY <1>1, EndedRecord DEF Others

\* A build starts on the URL it was given.
LEMMA StartsOn ==
  ASSUME TypeOK, NEW b \in Builds, NEW u \in Urls, Start(b, u)
  PROVE  /\ build' \in [Builds -> BuildStates]
         /\ build'[b].step = (IF cacheState[u] = "complete" THEN "validating" ELSE "locking")
         /\ build'[b].url = u
         /\ build'[b].count = fileCount[u]
         /\ Others(b)
  BY DEF Start, TypeOK, BuildStates, Others, Contents, Steps

\* Resolving, opening, extracting and counting write one field besides the step.
LEMMA Resolves ==
  ASSUME build \in [Builds -> BuildStates], NEW b \in Builds,
         build' = [build EXCEPT ![b].step = "marking", ![b].source = "archive"]
  PROVE  /\ build' \in [Builds -> BuildStates]
         /\ build'[b].step = "marking" /\ build'[b].url = build[b].url
         /\ Others(b)
<1> DEFINE p == [build[b] EXCEPT !.step = "marking"]
<1>1. p \in BuildStates /\ p.step = "marking" /\ p.url = build[b].url
  BY DEF BuildStates, Steps
<1>2. build' = [build EXCEPT ![b] = [p EXCEPT !.source = "archive"]]
  OBVIOUS
<1> HIDE DEF p
<1>3. LET e == [p EXCEPT !.source = "archive"]
      IN  e \in BuildStates /\ e.step = p.step /\ e.url = p.url
  BY <1>1 DEF BuildStates
<1> QED
  BY <1>1, <1>2, <1>3 DEF Others

\* What a build has extracted.
LEMMA ExtractedTo ==
  ASSUME build \in [Builds -> BuildStates], NEW b \in Builds, NEW s \in Steps, NEW e \in Contents,
         build' = [build EXCEPT ![b].step = s, ![b].extracted = e]
  PROVE  /\ build' \in [Builds -> BuildStates]
         /\ build'[b].step = s /\ build'[b].url = build[b].url /\ build'[b].extracted = e
         /\ Others(b)
  BY DEF BuildStates, Others

\* What a build has counted.
LEMMA Counts ==
  ASSUME build \in [Builds -> BuildStates], NEW b \in Builds, NEW n \in 0..2,
         build' = [build EXCEPT ![b].step = "completing", ![b].count = n]
  PROVE  /\ build' \in [Builds -> BuildStates]
         /\ build'[b].step = "completing" /\ build'[b].url = build[b].url /\ build'[b].count = n
         /\ Others(b)
<1> DEFINE p == [build[b] EXCEPT !.step = "completing"]
<1>1. p \in BuildStates /\ p.step = "completing" /\ p.url = build[b].url
  BY DEF BuildStates, Steps
<1>2. build' = [build EXCEPT ![b] = [p EXCEPT !.count = n]]
  OBVIOUS
<1> HIDE DEF p
<1>3. LET e == [p EXCEPT !.count = n]
      IN  e \in BuildStates /\ e.step = p.step /\ e.url = p.url /\ e.count = n
  BY <1>1 DEF BuildStates
<1> QED
  BY <1>1, <1>2, <1>3 DEF Others

\* A download changes, of the others, what those extract who read the archive it overwrites.
LEMMA Downloads ==
  ASSUME build \in [Builds -> BuildStates], NEW b \in Builds, Download(b)
  PROVE  /\ build' \in [Builds -> BuildStates]
         /\ build'[b].step = "persisting" /\ build'[b].url = build[b].url
         /\ \A c \in Builds \ {b} :
              /\ build'[c].step = build[c].step /\ build'[c].url = build[c].url
              /\ build'[c].source = build[c].source /\ build'[c].count = build[c].count
              /\ build[c].step # "extracting" => build'[c].extracted = build[c].extracted
<1> DEFINE started == [build EXCEPT ![b].step = "persisting"]
<1>1. /\ started \in [Builds -> BuildStates]
      /\ started[b].step = "persisting" /\ started[b].url = build[b].url
      /\ \A c \in Builds \ {b} : started[c] = build[c]
  BY DEF BuildStates, Steps
<1>2. build' = Disturbed(Builds, started)
  BY DEF Download
<1> HIDE DEF started
<1>3. ASSUME NEW c \in Builds
      PROVE  /\ build'[c] \in BuildStates
             /\ build'[c].step = started[c].step /\ build'[c].url = started[c].url
             /\ build'[c].source = started[c].source /\ build'[c].count = started[c].count
             /\ started[c].step # "extracting" => build'[c].extracted = started[c].extracted
  BY <1>1, <1>2 DEF Disturbed, BuildStates, Contents
<1>4. build' \in [Builds -> BuildStates]
  BY <1>2, <1>3 DEF Disturbed
<1> QED
  BY <1>1, <1>3, <1>4

\* The part of the type invariant about the locks: a lock has one holder.
LockOK ==
  /\ lock \in [Urls -> {Free, Stale} \cup Builds]
  /\ build \in [Builds -> BuildStates]
  /\ \A u \in Urls, b \in Builds :
       lock[u] = b <=> build[b].step \in HoldingSteps /\ build[b].url = u

\* The holder goes on.
LEMMA HolderGoesOn ==
  ASSUME LockOK, NEW b \in Builds, UNCHANGED lock, build' \in [Builds -> BuildStates],
         build[b].step \in HoldingSteps <=> build'[b].step \in HoldingSteps,
         build[b].step \in HoldingSteps => build'[b].url = build[b].url,
         \A c \in Builds \ {b} : build'[c].step = build[c].step /\ build'[c].url = build[c].url
  PROVE  LockOK'
  BY DEF LockOK

\* The holder releases the lock.
LEMMA HolderReleases ==
  ASSUME LockOK, NEW b \in Builds, build[b].step \in HoldingSteps,
         \E l \in {Free, Stale} : lock' = [lock EXCEPT ![build[b].url] = l],
         build' \in [Builds -> BuildStates], build'[b].step \notin HoldingSteps, Others(b)
  PROVE  LockOK'
<1>1. build[b].url \in Urls /\ lock[build[b].url] = b
  BY DEF LockOK, BuildStates
<1> QED
  BY <1>1, LocksAssumption DEF LockOK, Others

\* A build that holds no lock takes one that is free or stale.
LEMMA HolderLocks ==
  ASSUME LockOK, NEW b \in Builds, At(b, "locking"), CanLock(build[b].url),
         lock' = [lock EXCEPT ![build[b].url] = b],
         build' \in [Builds -> BuildStates], build'[b].step = "locked",
         build'[b].url = build[b].url, Others(b)
  PROVE  LockOK'
<1>1. build[b].url \in Urls /\ build[b].step \notin HoldingSteps
  BY DEF LockOK, BuildStates, At, HoldingSteps
<1> QED
  BY <1>1, LocksAssumption DEF LockOK, Others, CanLock, HoldingSteps, Steps

-----------------------------------------------------------------------------
\* The types of what is on disk.
DiskOK ==
  /\ dir \in [Urls -> Contents]
  /\ cacheState \in [Urls -> CacheStates]
  /\ fileCount \in [Urls -> 0..2]
  /\ archive \in {"absent", "partial", "whole"}
  /\ isSeeded \in BOOLEAN
  /\ unpacked \in [Urls -> Contents]
  /\ outdated \in SUBSET Builds
  /\ faults \in 0..MaxFaults

\* The type invariant in two parts.
LEMMA TypeParts == TypeOK <=> LockOK /\ DiskOK
  BY DEF TypeOK, LockOK, DiskOK

\* Every step keeps the types on disk.
LEMMA NextDiskOK == TypeOK /\ [Next]_vars => DiskOK'
<1> SUFFICES ASSUME TypeOK, [Next]_vars PROVE DiskOK'
  OBVIOUS
<1>F. Fault => faults' \in 0..MaxFaults
  BY FaultsAssumption DEF Fault, TypeOK
<1> USE <1>F DEF TypeOK, DiskOK, disk, history
<1>1. CASE UNCHANGED vars
  BY <1>1 DEF vars
<1>2. ASSUME NEW b \in Builds, NEW u \in Urls, Start(b, u) PROVE DiskOK'
  BY <1>2 DEF Start
<1>3. ASSUME NEW b \in Builds, Proceed(b) PROVE DiskOK'
  <2>T. build[b] \in BuildStates /\ build[b].url \in Urls /\ build[b].extracted \in Contents
        /\ build[b].count \in 0..2
    BY DEF BuildStates
  <2> USE <2>T DEF Contents, CacheStates
  <2>1. CASE Validate(b) \/ Lock(b) \/ Recheck(b) \/ Open(b) \/ Extract(b)
    BY <2>1 DEF Validate, Lock, Recheck, Open, Extract
  <2>2. CASE Clean(b)
    BY <2>2 DEF Clean, RemoveSomeOf, RemoveRestOf
  <2>3. CASE Forget(b)
    BY <2>3 DEF Forget, StateBecomes, StateStays
  <2>4. CASE ResolveArchive(b) \/ Download(b) \/ Persist(b)
    BY <2>4 DEF ResolveArchive, UsesArchive, LeavesArchive, Download, Persist
  <2>5. CASE Mark(b)
    BY <2>5 DEF Mark, StateBecomes, StateStays
  <2>6. CASE Replace(b) \/ Move(b) \/ Copy(b)
    BY <2>6 DEF Replace, RemoveSomeOf, RemoveRestOf, Move, Copy
  <2>7. CASE BeginComplete(b) \/ Complete(b)
    BY <2>7 DEF BeginComplete, Complete, StateBecomes
  <2> QED
    BY <1>3, <2>1, <2>2, <2>3, <2>4, <2>5, <2>6, <2>7 DEF Proceed
<1>4. ASSUME NEW b \in Builds, Fail(b) PROVE DiskOK'
  BY <1>4 DEF Fail, LockTimesOut, ResolveFails, DownloadFails, ExtractFails, InstallFails,
              CompleteFails, Crash
<1> QED
  BY <1>1, <1>2, <1>3, <1>4 DEF Next

\* Every step keeps the builds' records, and one holder per lock.
LEMMA NextLockOK == TypeOK /\ [Next]_vars => LockOK'
<1> SUFFICES ASSUME TypeOK, [Next]_vars PROVE LockOK'
  OBVIOUS
<1>L. LockOK /\ build \in [Builds -> BuildStates]
  BY TypeParts DEF LockOK
<1>T. \A b \in Builds : build[b] \in BuildStates /\ build[b].url \in Urls
  BY <1>L DEF BuildStates
<1>1. CASE UNCHANGED vars
  BY <1>L, <1>1 DEF vars, LockOK
<1>2. ASSUME NEW b \in Builds, NEW u \in Urls, Start(b, u) PROVE LockOK'
  BY <1>2, <1>L, StartsOn, HolderGoesOn DEF Start, HoldingSteps, Steps, Others
<1>3. ASSUME NEW b \in Builds, Proceed(b) PROVE LockOK'
  <2>1. CASE Validate(b)
    BY <2>1, <1>L, GoesOn, EndsAt, HolderGoesOn DEF Validate, At, HoldingSteps, Steps, Others
  <2>2. CASE Lock(b)
    BY <2>2, <1>L, GoesOn, HolderLocks DEF Lock, At, Steps
  <2>3. CASE Recheck(b)
    BY <2>3, <1>L, GoesOn, EndsAt, HolderGoesOn, HolderReleases
    DEF Recheck, Release, At, HoldingSteps, Steps, Others
  <2>4. CASE Clean(b) \/ Forget(b) \/ Persist(b) \/ Mark(b) \/ Replace(b) \/ Move(b) \/ Copy(b)
    <3>1. /\ build[b].step \in HoldingSteps /\ lock' = lock
          /\ build' = build \/ \E s \in HoldingSteps : Goes(b, s)
      BY <2>4 DEF Clean, Forget, Persist, Mark, Replace, Move, Copy, RemoveSomeOf, RemoveRestOf,
                  At, HoldingSteps, Steps
    <3> QED
      BY <3>1, <1>L, GoesOn, HolderGoesOn DEF Others, HoldingSteps
  <2>5. CASE ResolveArchive(b)
    BY <2>5, <1>L, GoesOn, Resolves, HolderGoesOn
    DEF ResolveArchive, UsesArchive, LeavesArchive, At, HoldingSteps, Steps, Others
  <2>6. CASE Download(b)
    <3>1. At(b, "downloading") /\ UNCHANGED lock
      BY <2>6 DEF Download
    <3> QED
      BY <2>6, <3>1, <1>L, Downloads, HolderGoesOn DEF At, HoldingSteps, Steps
  <2>7. CASE Open(b)
    <3>1. Source(b) \in Contents
      BY DEF Source, Contents, TypeOK
    <3>2. CASE Source(b) # "absent"
      BY <2>7, <3>1, <3>2, <1>L, ExtractedTo, HolderGoesOn DEF Open, At, HoldingSteps, Steps, Others
    <3>3. CASE Source(b) = "absent"
      BY <2>7, <3>3, <1>L, EndsAt, HolderReleases DEF Open, Throws, Release, At, HoldingSteps, Steps
    <3> QED
      BY <3>2, <3>3
  <2>8. CASE Extract(b)
    <3>1. PICK c \in Contents :
            build' = [build EXCEPT ![b].step = "replacing", ![b].extracted = c]
      BY <2>8 DEF Extract
    <3>2. At(b, "extracting") /\ UNCHANGED lock
      BY <2>8 DEF Extract
    <3> QED
      BY <3>1, <3>2, <1>L, ExtractedTo, HolderGoesOn DEF At, HoldingSteps, Steps, Others
  <2>9. CASE BeginComplete(b)
    <3>1. FileCount(dir[build[b].url]) \in 0..2
      BY DEF FileCount
    <3> QED
      BY <2>9, <3>1, <1>L, Counts, HolderGoesOn DEF BeginComplete, At, HoldingSteps, Steps, Others
  <2>10. CASE Complete(b)
    BY <2>10, <1>L, EndsAt, HolderReleases DEF Complete, Release, At, HoldingSteps, Steps
  <2> QED
    BY <1>3, <2>1, <2>2, <2>3, <2>4, <2>5, <2>6, <2>7, <2>8, <2>9, <2>10 DEF Proceed
<1>4. ASSUME NEW b \in Builds, Fail(b) PROVE LockOK'
  <2>1. CASE LockTimesOut(b)
    BY <2>1, <1>L, EndsAt, HolderGoesOn DEF LockTimesOut, At, HoldingSteps, Steps, Others
  <2>2. CASE \/ ResolveFails(b) \/ DownloadFails(b) \/ ExtractFails(b) \/ InstallFails(b)
             \/ CompleteFails(b)
    <3>1. build[b].step \in HoldingSteps /\ Throws(b)
      BY <2>2 DEF ResolveFails, DownloadFails, ExtractFails, InstallFails, CompleteFails, At,
                  HoldingSteps, Steps
    <3> QED
      BY <3>1, <1>L, EndsAt, HolderReleases DEF Throws, Release, HoldingSteps, Steps
  <2>3. CASE Crash(b)
    <3>1. CASE build[b].step \in HoldingSteps
      BY <2>3, <3>1, <1>L, EndsAt, HolderReleases DEF Crash, HoldingSteps, Steps
    <3>2. CASE build[b].step \notin HoldingSteps
      BY <2>3, <3>2, <1>L, EndsAt, HolderGoesOn DEF Crash, HoldingSteps, Steps, Others
    <3> QED
      BY <3>1, <3>2
  <2> QED
    BY <1>4, <2>1, <2>2, <2>3 DEF Fail
<1> QED
  BY <1>1, <1>2, <1>3, <1>4 DEF Next

\* Before the first build, no process does anything.
LEMMA InitIdle ==
  Init => build \in [Builds -> BuildStates] /\ \A b \in Builds : build[b].step = "idle"
<1> SUFFICES ASSUME Init
             PROVE  build \in [Builds -> BuildStates] /\ \A b \in Builds : build[b].step = "idle"
  OBVIOUS
<1>1. PICK u \in Urls :
        build = [b \in Builds |-> [step |-> "idle", url |-> u, source |-> "download",
                                   count |-> 0, extracted |-> "absent"]]
  BY DEF Init
<1> QED
  BY <1>1 DEF BuildStates, Steps, Contents

\* The cache's state keeps its types, and a lock has one holder, whoever fails or crashes.
THEOREM TypeCorrect == Spec => []TypeOK
<1>1. Init => TypeOK
  <2> SUFFICES ASSUME Init PROVE TypeOK
    OBVIOUS
  <2>1. DiskOK
    BY FaultsAssumption DEF Init, DiskOK, Contents, CacheStates
  <2>3. /\ build \in [Builds -> BuildStates]
        /\ \A b \in Builds : build[b].step = "idle"
    BY InitIdle
  <2>4. lock \in [Urls -> {Free, Stale} \cup Builds] /\ \A v \in Urls : lock[v] = Free
    BY DEF Init
  <2>5. LockOK
    BY <2>3, <2>4, LocksAssumption DEF LockOK, HoldingSteps, Steps
  <2> QED
    BY <2>1, <2>5, TypeParts
<1>2. TypeOK /\ [Next]_vars => TypeOK'
  BY NextDiskOK, NextLockOK DEF TypeOK, LockOK, DiskOK
<1> QED
  BY <1>1, <1>2, PTL DEF Spec

-----------------------------------------------------------------------------
\* An archive that was seeded stays whole, and nobody downloads.
Seeded ==
  isSeeded => archive = "whole" /\ \A b \in Builds : build[b].step \notin {"downloading", "persisting"}

\* Who resolves against a seeded archive finds it, whatever the others do.
LEMMA NextSeeded == TypeOK /\ Seeded /\ [Next]_vars => Seeded'
<1> SUFFICES ASSUME TypeOK, Seeded, [Next]_vars, isSeeded' PROVE Seeded'
  BY DEF Seeded
<1>L. build \in [Builds -> BuildStates]
  BY DEF TypeOK
<1>1. CASE UNCHANGED vars
  BY <1>1 DEF Seeded, vars, history
<1>2. ASSUME NEW b \in Builds, \/ \E u \in Urls : Start(b, u)
                               \/ Proceed(b)
                               \/ Fail(b)
      PROVE  Seeded'
  <2>1. isSeeded' = isSeeded
    BY <1>2
    DEF Start, Proceed, Fail, Validate, Lock, Recheck, Clean, Forget, ResolveArchive, Download,
        Persist, Mark, Open, Extract, Replace, Move, Copy, BeginComplete, Complete, LockTimesOut,
        ResolveFails, DownloadFails, ExtractFails, InstallFails, CompleteFails, Crash, history
  <2>2. /\ archive = "whole"
        /\ \A c \in Builds : build[c].step \notin {"downloading", "persisting"}
    BY <2>1 DEF Seeded
  <2>3. /\ archive' = archive /\ build'[b].step \notin {"downloading", "persisting"} /\ Others(b)
    <3> USE <1>L, <2>2 DEF At, disk
    <3>1. CASE \E u \in Urls : Start(b, u)
      BY <3>1, StartsOn DEF Start
    <3>2. CASE Validate(b) \/ Recheck(b) \/ Complete(b)
      BY <3>2, GoesOn, EndsAt DEF Validate, Recheck, Complete, Steps
    <3>3. CASE \/ Lock(b) \/ Clean(b) \/ Forget(b) \/ Mark(b) \/ Replace(b) \/ Move(b)
               \/ Copy(b)
      <4>1. archive' = archive
            /\ (build' = build \/ \E s \in {"locked", "forgetting", "resolving", "opening",
                                            "moving", "counting", "copying"} : Goes(b, s))
        BY <3>3 DEF Lock, Clean, Forget, Mark, Replace, Move, Copy, RemoveSomeOf, RemoveRestOf
      <4> QED
        BY <4>1, GoesOn DEF Steps, Others
    <3>4. CASE ResolveArchive(b)
      BY <3>4, Resolves DEF ResolveArchive, UsesArchive, LeavesArchive, ArchiveIsUsable
    <3>5. CASE Download(b) \/ Persist(b)
      BY <3>5 DEF Download, Persist
    <3>6. CASE Open(b)
      <4>1. Source(b) \in Contents
        BY DEF Source, Contents
      <4> QED
        BY <3>6, <4>1, ExtractedTo, EndsAt DEF Open, Throws, Steps
    <3>7. CASE Extract(b)
      <4>1. PICK c \in Contents : build' = [build EXCEPT ![b].step = "replacing", ![b].extracted = c]
        BY <3>7 DEF Extract, Contents
      <4>2. build'[b].step = "replacing" /\ Others(b)
        BY <4>1, ExtractedTo DEF Steps
      <4> QED
        BY <3>7, <4>2 DEF Extract
    <3>8. CASE BeginComplete(b)
      <4>1. FileCount(dir[build[b].url]) \in 0..2
        BY DEF FileCount
      <4> QED
        BY <3>8, <4>1, Counts DEF BeginComplete
    <3>9. CASE Fail(b)
      BY <3>9, EndsAt
      DEF Fail, LockTimesOut, ResolveFails, DownloadFails, ExtractFails, InstallFails, CompleteFails, Crash,
          Throws, Steps
    <3> QED
      BY <1>2, <3>1, <3>2, <3>3, <3>4, <3>5, <3>6, <3>7, <3>8, <3>9 DEF Proceed
  <2> QED
    BY <2>2, <2>3 DEF Seeded, Others
<1> QED
  BY <1>1, <1>2 DEF Next

\* An archive that was put into the archive cache is all that the builds need.
THEOREM SeededSuffices == Spec => []SeededArchiveIsEnough
<1>1. Init => Seeded
  BY InitIdle DEF Init, Seeded
<1>2. TypeOK /\ Seeded /\ [Next]_vars => Seeded'
  BY NextSeeded
<1>3. Seeded => SeededArchiveIsEnough
  BY DEF Seeded, SeededArchiveIsEnough, At
<1> QED
  BY <1>1, <1>2, <1>3, TypeCorrect, PTL DEF Spec

-----------------------------------------------------------------------------
(***************************************************************************)
(* The directories.                                                        *)
(***************************************************************************)
BeforeMark == {"cleaning", "forgetting", "resolving", "downloading", "persisting", "marking"}
AfterMark == {"opening", "extracting", "replacing", "moving", "copying", "counting", "completing"}

\* A state file that says "complete" next to enough files means what was extracted, and there are
\* not enough files only if there should be all of them.
State(u) ==
  cacheState[u] = "complete" =>
    /\ fileCount[u] = 2 \/ IsComplete(u)
    /\ IsComplete(u) => dir[u] = unpacked[u]

States == \A u \in Urls : State(u)

\* What the holder of a lock knows of its directory.
Holder(b) ==
  LET u == build[b].url
  IN  /\ build[b].step \in BeforeMark => ~IsComplete(u)
      /\ build[b].step \in AfterMark => cacheState[u] # "complete"
      /\ build[b].step \in {"replacing", "moving", "copying", "counting"} =>
           build[b].extracted # "absent"
      /\ build[b].step \in {"copying", "counting"} => unpacked[u] = build[b].extracted
      /\ build[b].step \in {"counting", "completing"} => dir[u] = unpacked[u]
      /\ build[b].step = "completing" =>
           dir[u] # "absent" /\ build[b].count = FileCount(dir[u])

Holders == \A b \in Builds : Holder(b)

\* What those know who have no lock: the reader of a state file, and the user of a toolset.
Reader(b) == build[b].step = "validating" => build[b].count = 2 \/ IsComplete(build[b].url)

User(b) == build[b].step = "using" /\ b \notin outdated => IsComplete(build[b].url)

Visitors == \A b \in Builds : Reader(b) /\ User(b)

\* The others keep what the invariants say of them, except that the archive which they extract
\* may be overwritten.
Bystanders(b) ==
  \A c \in Builds \ {b} :
    /\ build'[c].step = build[c].step /\ build'[c].url = build[c].url
    /\ build'[c].count = build[c].count
    /\ build[c].step # "extracting" => build'[c].extracted = build[c].extracted

\* Only the directory changes whose lock the build holds.
OnlyItsOwn(b) ==
  \A u \in Urls :
    u # build[b].url => /\ dir'[u] = dir[u] /\ unpacked'[u] = unpacked[u]
                        /\ cacheState'[u] = cacheState[u] /\ fileCount'[u] = fileCount[u]

DirsUnchanged == UNCHANGED <<dir, unpacked, cacheState, fileCount>>

\* A build that takes no lock looks at the directories only.
LEMMA OthersStandBy ==
  ASSUME NEW b \in Builds, Others(b)
  PROVE  Bystanders(b)
  BY DEF Others, Bystanders

\* Who shares a directory with the holder of its lock does not hold it.
LEMMA OneHolder ==
  ASSUME TypeOK, NEW b \in Builds, NEW c \in Builds \ {b},
         build[b].step \in HoldingSteps, build[c].url = build[b].url
  PROVE  build[c].step \notin HoldingSteps
<1>1. build[b].url \in Urls
  BY DEF TypeOK, BuildStates
<1> QED
  BY <1>1 DEF TypeOK

\* The other holders are not concerned by what one does in its directory.
LEMMA OtherHolders ==
  ASSUME TypeOK, Holders, NEW b \in Builds, Bystanders(b),
         DirsUnchanged \/ (build[b].step \in HoldingSteps /\ OnlyItsOwn(b))
  PROVE  \A c \in Builds \ {b} : Holder(c)'
<1> SUFFICES ASSUME NEW c \in Builds \ {b} PROVE Holder(c)'
  OBVIOUS
<1> DEFINE u == build[c].url
<1>1. /\ build'[c].step = build[c].step /\ build'[c].url = u
      /\ build'[c].count = build[c].count
      /\ build[c].step # "extracting" => build'[c].extracted = build[c].extracted
  BY DEF Bystanders
<1>2. u \in Urls
  BY DEF TypeOK, BuildStates
<1>3. Holder(c)
  BY DEF Holders
<1>4. CASE build[c].step \notin HoldingSteps
  BY <1>1, <1>4 DEF Holder, HoldingSteps, Steps, BeforeMark, AfterMark
<1>5. CASE /\ dir'[u] = dir[u] /\ unpacked'[u] = unpacked[u]
           /\ cacheState'[u] = cacheState[u] /\ fileCount'[u] = fileCount[u]
  <2>1. IsComplete(build[c].url)' <=> IsComplete(u)
    BY <1>1, <1>5 DEF IsComplete, IsValid
  <2> QED
    BY <1>1, <1>3, <1>5, <2>1 DEF Holder
<1> QED
  BY <1>2, <1>4, <1>5, OneHolder DEF DirsUnchanged, OnlyItsOwn

\* What is complete stays so, whatever a build does.
LEMMA StaysComplete ==
  ASSUME TypeOK, Holders, NEW b \in Builds, NEW u \in Urls, IsComplete(u),
         DirsUnchanged \/ (Proceed(b) /\ build[b].step \in HoldingSteps /\ OnlyItsOwn(b))
  PROVE  IsComplete(u)'
<1>1. CASE DirsUnchanged
  BY <1>1 DEF DirsUnchanged, IsComplete, IsValid
<1>2. CASE OnlyItsOwn(b) /\ u # build[b].url
  BY <1>2 DEF OnlyItsOwn, IsComplete, IsValid
<1>3. CASE Proceed(b) /\ build[b].step \in HoldingSteps /\ u = build[b].url
  <2>1. Holder(b) /\ cacheState[u] = "complete"
    BY DEF Holders, IsComplete
  <2>2. build[b].step = "locked"
    BY <1>3, <2>1 DEF Holder, HoldingSteps, Steps, BeforeMark, AfterMark
  <2> QED
    BY <1>1, <1>3, <2>2
    DEF Proceed, Validate, Lock, Recheck, Clean, Forget, ResolveArchive, Download, Persist, Mark,
        Open, Extract, Replace, Move, Copy, BeginComplete, Complete, At, DirsUnchanged, disk, history
<1> QED
  BY <1>1, <1>2, <1>3

\* The steps of the holder of a lock, which keep what is known of its directory.
LEMMA HolderProceeds ==
  ASSUME TypeOK, States, Holders, NEW b \in Builds, Proceed(b), NEW u \in Urls, u = build[b].url
  PROVE  /\ Bystanders(b)
         /\ DirsUnchanged \/ (build[b].step \in HoldingSteps /\ OnlyItsOwn(b))
         /\ Holder(b)'
         /\ State(u)'
<1>T. /\ build \in [Builds -> BuildStates] /\ build[b] \in BuildStates
      /\ dir \in [Urls -> Contents] /\ cacheState \in [Urls -> CacheStates]
      /\ fileCount \in [Urls -> 0..2] /\ archive \in Contents
      /\ unpacked \in [Urls -> Contents]
      /\ build[b].extracted \in Contents
  BY DEF TypeOK, BuildStates, Contents
<1>H. Holder(b) /\ State(u)
  BY <1>T DEF Holders, States
<1>S. BeforeMark \subseteq HoldingSteps /\ AfterMark \subseteq HoldingSteps
  BY DEF BeforeMark, AfterMark, HoldingSteps, Steps
<1> USE <1>T DEF At, disk, history
<1>1. CASE Validate(b) \/ Lock(b)
  <2>1. DirsUnchanged /\ Others(b) /\ build'[b].step \in {"using", "locking", "locked"}
    BY <1>1, GoesOn, EndsAt DEF Validate, Lock, DirsUnchanged, Steps
  <2> QED
    BY <2>1, <1>H, OthersStandBy DEF Holder, State, IsComplete, IsValid, DirsUnchanged, BeforeMark, AfterMark
<1>2. CASE Recheck(b)
  <2>1. /\ DirsUnchanged /\ Others(b)
        /\ \/ build'[b].step = "using"
           \/ build'[b].step = "cleaning" /\ ~IsComplete(u) /\ build'[b].url = u
    BY <1>2, GoesOn, EndsAt DEF Recheck, DirsUnchanged, Steps
  <2> QED
    BY <2>1, <1>H, OthersStandBy DEF Holder, State, IsComplete, IsValid, DirsUnchanged, BeforeMark, AfterMark
<1>3. CASE Clean(b)
  <2>1. /\ build[b].step = "cleaning" /\ Bystanders(b) /\ build'[b].url = u
        /\ build'[b].step \in {"cleaning", "forgetting"}
    BY <1>3, GoesOn, OthersStandBy DEF Clean, RemoveSomeOf, RemoveRestOf, Steps, Others
  <2>2. /\ \/ UNCHANGED <<dir, unpacked>>
           \/ dir[u] \in {"whole", "torn"} /\ dir'[u] = "partial"
           \/ dir'[u] = "absent"
        /\ OnlyItsOwn(b) /\ UNCHANGED <<cacheState, fileCount>>
    BY <1>3 DEF Clean, RemoveSomeOf, RemoveRestOf, OnlyItsOwn
  <2> QED
    BY <2>1, <2>2, <1>H, <1>S, OthersStandBy
    DEF Holder, State, IsComplete, IsValid, FileCount, OnlyItsOwn, DirsUnchanged, BeforeMark,
        AfterMark
<1>4. CASE Forget(b)
  <2>1. /\ build[b].step = "forgetting" /\ Bystanders(b) /\ build'[b].url = u
        /\ build'[b].step = "resolving"
    BY <1>4, GoesOn, OthersStandBy DEF Forget, Steps
  <2>2. /\ UNCHANGED <<cacheState, fileCount>> \/ cacheState'[u] = "none"
        /\ OnlyItsOwn(b) /\ UNCHANGED <<dir, unpacked>>
    BY <1>4 DEF Forget, StateBecomes, StateStays, OnlyItsOwn
  <2> QED
    BY <2>1, <2>2, <1>H, <1>S, OthersStandBy
    DEF Holder, State, IsComplete, IsValid, FileCount, OnlyItsOwn, DirsUnchanged, BeforeMark,
        AfterMark
<1>5. CASE ResolveArchive(b)
  <2>1. /\ build[b].step = "resolving" /\ Bystanders(b) /\ build'[b].url = u
        /\ build'[b].step \in {"marking", "downloading"}
    BY <1>5, GoesOn, Resolves, OthersStandBy DEF ResolveArchive, UsesArchive, LeavesArchive, Steps
  <2>2. DirsUnchanged
    BY <1>5 DEF ResolveArchive, DirsUnchanged
  <2> QED
    BY <2>1, <2>2, <1>H, <1>S, OthersStandBy
    DEF Holder, State, IsComplete, IsValid, FileCount, OnlyItsOwn, DirsUnchanged, BeforeMark,
        AfterMark
<1>6. CASE Download(b)
  <2>1. /\ build[b].step = "downloading" /\ Bystanders(b) /\ build'[b].url = u
        /\ build'[b].step = "persisting"
    BY <1>6, Downloads DEF Download, Bystanders
  <2>2. DirsUnchanged
    BY <1>6 DEF Download, DirsUnchanged
  <2> QED
    BY <2>1, <2>2, <1>H, <1>S, OthersStandBy
    DEF Holder, State, IsComplete, IsValid, FileCount, OnlyItsOwn, DirsUnchanged, BeforeMark,
        AfterMark
<1>7. CASE Persist(b)
  <2>1. /\ build[b].step = "persisting" /\ Bystanders(b) /\ build'[b].url = u
        /\ build'[b].step = "marking"
    BY <1>7, GoesOn, OthersStandBy DEF Persist, Steps
  <2>2. DirsUnchanged
    BY <1>7 DEF Persist, DirsUnchanged
  <2> QED
    BY <2>1, <2>2, <1>H, <1>S, OthersStandBy
    DEF Holder, State, IsComplete, IsValid, FileCount, OnlyItsOwn, DirsUnchanged, BeforeMark,
        AfterMark
<1>8. CASE Mark(b)
  <2>1. /\ build[b].step = "marking" /\ Bystanders(b) /\ build'[b].url = u
        /\ build'[b].step = "opening"
    BY <1>8, GoesOn, OthersStandBy DEF Mark, Steps
  <2>2. /\ cacheState'[u] # "complete" /\ OnlyItsOwn(b) /\ UNCHANGED <<dir, unpacked>>
    BY <1>8 DEF Mark, StateBecomes, StateStays, OnlyItsOwn
  <2> QED
    BY <2>1, <2>2, <1>H, <1>S, OthersStandBy
    DEF Holder, State, IsComplete, IsValid, FileCount, OnlyItsOwn, DirsUnchanged, BeforeMark,
        AfterMark
<1>9. CASE Open(b)
  <2>1. Source(b) \in Contents
    BY DEF Source, Contents
  <2>2. /\ build[b].step = "opening" /\ Bystanders(b) /\ build'[b].url = u
        /\ build'[b].step \in {"extracting", "idle"} /\ DirsUnchanged
    BY <1>9, <2>1, ExtractedTo, EndsAt, OthersStandBy DEF Open, Throws, DirsUnchanged, Steps
  <2> QED
    BY <2>1, <2>2, <1>H, <1>S, OthersStandBy
    DEF Holder, State, IsComplete, IsValid, FileCount, OnlyItsOwn, DirsUnchanged, BeforeMark,
        AfterMark
<1>10. CASE Extract(b)
  <2>1. PICK c \in Contents \ {"absent"} :
          build' = [build EXCEPT ![b].step = "replacing", ![b].extracted = c]
    BY <1>10 DEF Extract
  <2>2. c \in Contents /\ c # "absent"
    OBVIOUS
  <2>3. /\ build'[b].url = u /\ build'[b].step = "replacing" /\ build'[b].extracted = c
        /\ Others(b)
    BY <2>1, <2>2, ExtractedTo DEF Steps
  <2>4. /\ build[b].step = "extracting" /\ Bystanders(b) /\ build'[b].url = u
        /\ build'[b].step = "replacing" /\ build'[b].extracted # "absent" /\ DirsUnchanged
    BY <1>10, <2>2, <2>3, OthersStandBy DEF Extract, DirsUnchanged
  <2> QED
    BY <2>4, <1>H, <1>S
    DEF Holder, State, IsComplete, IsValid, FileCount, OnlyItsOwn, DirsUnchanged, BeforeMark,
        AfterMark
<1>11. CASE Replace(b)
  <2>1. /\ build[b].step = "replacing" /\ Bystanders(b) /\ build'[b].url = u
        /\ build'[b].step \in {"replacing", "moving"} /\ build'[b].extracted = build[b].extracted
    BY <1>11, GoesOn, OthersStandBy DEF Replace, RemoveSomeOf, RemoveRestOf, Steps, Others
  <2>2. /\ dir'[u] \in {"partial", "absent"}
        /\ OnlyItsOwn(b) /\ UNCHANGED <<cacheState, fileCount>>
    BY <1>11 DEF Replace, RemoveSomeOf, RemoveRestOf, OnlyItsOwn
  <2> QED
    BY <2>1, <2>2, <1>H, <1>S, OthersStandBy
    DEF Holder, State, IsComplete, IsValid, FileCount, OnlyItsOwn, DirsUnchanged, BeforeMark,
        AfterMark
<1>12. CASE Move(b)
  <2>1. /\ build[b].step = "moving" /\ Bystanders(b) /\ build'[b].url = u
        /\ build'[b].extracted = build[b].extracted
        /\ \/ build'[b].step = "counting" /\ dir'[u] = build[b].extracted
           \/ build'[b].step = "copying"
    BY <1>12, GoesOn, OthersStandBy DEF Move, Steps
  <2>2. /\ unpacked'[u] = build[b].extracted
        /\ OnlyItsOwn(b) /\ UNCHANGED <<cacheState, fileCount>>
    BY <1>12 DEF Move, OnlyItsOwn
  <2> QED
    BY <2>1, <2>2, <1>H, <1>S, OthersStandBy
    DEF Holder, State, IsComplete, IsValid, FileCount, OnlyItsOwn, DirsUnchanged, BeforeMark,
        AfterMark
<1>13. CASE Copy(b)
  <2>1. /\ build[b].step = "copying" /\ Bystanders(b) /\ build'[b].url = u
        /\ build'[b].extracted = build[b].extracted
        /\ \/ build'[b].step = "counting" /\ dir'[u] = build[b].extracted
           \/ build'[b].step = "copying"
    BY <1>13, GoesOn, OthersStandBy DEF Copy, Steps, Others
  <2>2. OnlyItsOwn(b) /\ UNCHANGED <<unpacked, cacheState, fileCount>>
    BY <1>13 DEF Copy, OnlyItsOwn
  <2> QED
    BY <2>1, <2>2, <1>H, <1>S, OthersStandBy
    DEF Holder, State, IsComplete, IsValid, FileCount, OnlyItsOwn, DirsUnchanged, BeforeMark,
        AfterMark
<1>14. CASE BeginComplete(b)
  <2>1. build[b].step = "counting" /\ dir[u] = unpacked[u] /\ dir[u] # "absent"
    BY <1>14, <1>H DEF BeginComplete, Holder
  <2>2. FileCount(dir[u]) \in 0..2
    BY DEF FileCount
  <2>3. /\ Bystanders(b) /\ build'[b].url = u
        /\ build'[b].step = "completing" /\ build'[b].count = FileCount(dir[u])
    BY <1>14, <2>2, Counts, OthersStandBy DEF BeginComplete
  <2>4. /\ cacheState'[u] = "unreadable" /\ OnlyItsOwn(b) /\ UNCHANGED <<dir, unpacked>>
    BY <1>14 DEF BeginComplete, StateBecomes, OnlyItsOwn
  <2> QED
    BY <2>1, <2>3, <2>4, <1>S
    DEF Holder, State, IsComplete, OnlyItsOwn, BeforeMark, AfterMark
<1>15. CASE Complete(b)
  <2>1. build[b].step = "completing" /\ Bystanders(b) /\ build'[b].step = "using"
    BY <1>15, EndsAt, OthersStandBy DEF Complete, Steps
  <2>2. dir[u] = unpacked[u] /\ dir[u] # "absent" /\ build[b].count = FileCount(dir[u])
    BY <2>1, <1>H DEF Holder
  <2>3. /\ cacheState'[u] = "complete" /\ fileCount'[u] = FileCount(dir[u])
        /\ OnlyItsOwn(b) /\ UNCHANGED <<dir, unpacked>>
    BY <1>15, <2>2 DEF Complete, StateBecomes, OnlyItsOwn
  <2>4. IsComplete(u)'
    BY <2>2, <2>3 DEF IsComplete, IsValid, FileCount
  <2> QED
    BY <2>1, <2>2, <2>3, <2>4, <1>S DEF Holder, State, BeforeMark, AfterMark
<1> QED
  BY <1>1, <1>2, <1>3, <1>4, <1>5, <1>6, <1>7, <1>8, <1>9, <1>10, <1>11, <1>12, <1>13, <1>14,
     <1>15 DEF Proceed

\* A failure ends the build, leaving disk as it is.
LEMMA FailureEnds ==
  ASSUME TypeOK, NEW b \in Builds, Fail(b)
  PROVE  DirsUnchanged /\ Bystanders(b) /\ build'[b].step = "idle"
<1>1. Ended(b, "idle")
  BY DEF Fail, LockTimesOut, ResolveFails, DownloadFails, ExtractFails, InstallFails, CompleteFails, Crash, Throws
<1>2. DirsUnchanged
  BY DEF Fail, LockTimesOut, ResolveFails, DownloadFails, ExtractFails, InstallFails, CompleteFails, Crash,
         DirsUnchanged, disk, history
<1> QED
  BY <1>1, <1>2, EndsAt, OthersStandBy DEF TypeOK, Steps

\* What a build that starts has read of the directory.
LEMMA StartReads ==
  ASSUME TypeOK, NEW b \in Builds, NEW u \in Urls, Start(b, u)
  PROVE  /\ DirsUnchanged /\ Bystanders(b) /\ build'[b].url = u /\ build'[b].count = fileCount[u]
         /\ build'[b].step = (IF cacheState[u] = "complete" THEN "validating" ELSE "locking")
  BY StartsOn, OthersStandBy DEF Start, DirsUnchanged, disk, history

\* Every step keeps what the holders know of their directories.
LEMMA NextHolders == TypeOK /\ States /\ Holders /\ [Next]_vars => States' /\ Holders'
<1> SUFFICES ASSUME TypeOK, States, Holders, [Next]_vars PROVE States' /\ Holders'
  OBVIOUS
<1>0. ASSUME DirsUnchanged, NEW u \in Urls PROVE State(u)'
  BY <1>0 DEF States, State, DirsUnchanged, IsComplete, IsValid
<1>1. CASE UNCHANGED vars
  <2>1. DirsUnchanged /\ build' = build
    BY <1>1 DEF vars, history, DirsUnchanged
  <2>2. ASSUME NEW b \in Builds PROVE Holder(b)'
    <3>1. Holder(b) /\ (IsComplete(build[b].url)' <=> IsComplete(build[b].url))
      BY <2>1 DEF Holders, DirsUnchanged, IsComplete, IsValid
    <3> QED
      BY <2>1, <3>1 DEF Holder, DirsUnchanged
  <2> QED
    BY <1>0, <2>1, <2>2 DEF States, Holders
<1>2. ASSUME NEW b \in Builds, NEW u \in Urls, Start(b, u) PROVE States' /\ Holders'
  <2>1. Holder(b)'
    BY <1>2, StartReads DEF Holder, BeforeMark, AfterMark
  <2> QED
    BY <1>0, <1>2, <2>1, StartReads, OtherHolders DEF Holders, States
<1>3. ASSUME NEW b \in Builds, Proceed(b) PROVE States' /\ Holders'
  <2>1. build[b].url \in Urls
    BY DEF TypeOK, BuildStates
  <2>2. /\ Bystanders(b)
        /\ DirsUnchanged \/ (build[b].step \in HoldingSteps /\ OnlyItsOwn(b))
        /\ Holder(b)'
    BY <1>3, <2>1, HolderProceeds
  <2>3. ASSUME NEW u \in Urls PROVE State(u)'
    <3>1. CASE u = build[b].url
      BY <1>3, <3>1, HolderProceeds
    <3>2. CASE u # build[b].url /\ OnlyItsOwn(b)
      BY <3>2 DEF States, State, OnlyItsOwn, IsComplete, IsValid
    <3> QED
      BY <1>0, <2>2, <3>1, <3>2
  <2> QED
    BY <2>2, <2>3, OtherHolders DEF Holders, States
<1>4. ASSUME NEW b \in Builds, Fail(b) PROVE States' /\ Holders'
  <2>1. Holder(b)'
    BY <1>4, FailureEnds DEF Holder, BeforeMark, AfterMark
  <2> QED
    BY <1>0, <1>4, <2>1, FailureEnds, OtherHolders DEF Holders, States
<1> QED
  BY <1>1, <1>2, <1>3, <1>4 DEF Next

\* The directories that the first builds find.
LEMMA InitHolders == Init => States /\ Holders
<1> SUFFICES ASSUME Init PROVE States /\ Holders
  OBVIOUS
<1>1. States
  BY DEF Init, States, State, IsComplete, IsValid, FileCount
<1>2. Holders
  BY InitIdle DEF Holders, Holder, BeforeMark, AfterMark
<1> QED
  BY <1>1, <1>2

\* The holders know their directories, in every run of the builds.
LEMMA HoldersKnow == Spec => [](TypeOK /\ States /\ Holders)
<1>1. TypeOK /\ States /\ Holders /\ [Next]_vars => States' /\ Holders'
  BY NextHolders
<1> QED
  BY <1>1, InitHolders, TypeCorrect, PTL DEF Spec

\* A state file that says "complete", next to enough files, means all that was extracted, however
\* slow the readers are, wherever builds crash and whatever extractions report.
THEOREM CompleteIsUnpacked == Spec => []CompleteMeansUnpacked
<1>1. States => CompleteMeansUnpacked
  BY DEF States, State, CompleteMeansUnpacked, IsComplete
<1> QED
  BY <1>1, HoldersKnow, PTL

\* A build stays with its URL; it gets the toolset on the fast path, on the second look under the
\* lock, or once it has installed it.
LEMMA ProceedsOn ==
  ASSUME TypeOK, NEW b \in Builds, Proceed(b)
  PROVE  /\ build'[b].url = build[b].url
         /\ build'[b].step # "validating"
         /\ build[b].step \notin HoldingSteps => build'[b].step \in {"using", "locking", "locked"}
         /\ build'[b].step = "using" => Validate(b) \/ Recheck(b) \/ Complete(b)
<1>T. /\ build \in [Builds -> BuildStates] /\ build[b].url \in Urls /\ archive \in Contents
      /\ build[b].extracted \in Contents
  BY DEF TypeOK, BuildStates, Contents
<1> USE <1>T DEF At
<1>1. CASE Validate(b) \/ Lock(b)
  BY <1>1, GoesOn, EndsAt DEF Validate, Lock, Steps
<1>2. CASE Recheck(b) \/ Complete(b)
  BY <1>2, GoesOn, EndsAt DEF Recheck, Complete, Steps, HoldingSteps
<1>3. CASE Clean(b) \/ Forget(b) \/ Persist(b) \/ Mark(b) \/ Replace(b) \/ Move(b) \/ Copy(b)
  <2>1. /\ build[b].step \in HoldingSteps
        /\ build' = build \/ \E s \in HoldingSteps : Goes(b, s)
    BY <1>3 DEF Clean, Forget, Persist, Mark, Replace, Move, Copy, RemoveSomeOf, RemoveRestOf,
                HoldingSteps, Steps
  <2> QED
    BY <2>1, GoesOn DEF HoldingSteps
<1>4. CASE ResolveArchive(b)
  BY <1>4, GoesOn, Resolves DEF ResolveArchive, UsesArchive, LeavesArchive, Steps, HoldingSteps
<1>5. CASE Download(b)
  <2>1. build[b].step = "downloading"
    BY <1>5 DEF Download
  <2> QED
    BY <1>5, <2>1, Downloads DEF Steps, HoldingSteps
<1>6. CASE Open(b)
  <2>1. Source(b) \in Contents
    BY DEF Source, Contents
  <2>2. CASE Source(b) # "absent"
    BY <1>6, <2>1, <2>2, ExtractedTo DEF Open, Steps, HoldingSteps
  <2>3. CASE Source(b) = "absent"
    BY <1>6, <2>3, EndsAt DEF Open, Throws, Steps, HoldingSteps
  <2> QED
    BY <2>2, <2>3
<1>7. CASE Extract(b)
  <2>1. PICK e \in Contents : build' = [build EXCEPT ![b].step = "replacing", ![b].extracted = e]
    BY <1>7 DEF Extract, Contents
  <2>2. build'[b].step = "replacing" /\ build'[b].url = build[b].url
    BY <2>1, ExtractedTo DEF Steps
  <2> QED
    BY <1>7, <2>2 DEF Extract, Steps, HoldingSteps
<1>8. CASE BeginComplete(b)
  <2>1. FileCount(dir[build[b].url]) \in 0..2
    BY DEF FileCount
  <2> QED
    BY <1>8, <2>1, Counts DEF BeginComplete, Steps, HoldingSteps
<1> QED
  BY <1>1, <1>2, <1>3, <1>4, <1>5, <1>6, <1>7, <1>8 DEF Proceed

\* Only the fast path ever counts a build among those that took an outdated directory.
LEMMA OnlyFastPathOutdates ==
  ASSUME NEW b \in Builds, Proceed(b) \/ Fail(b), ~Validate(b)
  PROVE  outdated' = outdated
  BY DEF Proceed, Fail, Lock, Recheck, Clean, Forget, ResolveArchive, Download, Persist, Mark, Open,
         Extract, Replace, Move, Copy, BeginComplete, Complete, LockTimesOut, ResolveFails,
         DownloadFails, ExtractFails, InstallFails, CompleteFails, Crash, history

\* Who is handed a directory finds it complete.
LEMMA BecomesUser ==
  ASSUME TypeOK, States, Holders, Visitors, NEW b \in Builds, Proceed(b), build'[b].step = "using"
  PROVE  User(b)'
<1> DEFINE u == build[b].url
<1>T. /\ build \in [Builds -> BuildStates] /\ u \in Urls
      /\ dir \in [Urls -> Contents] /\ cacheState \in [Urls -> CacheStates]
      /\ fileCount \in [Urls -> 0..2]
  BY DEF TypeOK, BuildStates
<1>U. build'[b].url = u
  BY ProceedsOn
<1>1. CASE Validate(b)
  <2>1. /\ build[b].step = "validating" /\ IsValid(u, build[b].count)
        /\ UNCHANGED <<dir, cacheState, fileCount>>
        /\ b \notin outdated' => cacheState[u] = "complete"
    BY <1>1, <1>T, GoesOn DEF Validate, At, disk, Steps
  <2>2. build[b].count = 2 \/ IsComplete(u)
    BY <2>1 DEF Visitors, Reader
  <2>3. b \notin outdated' => IsComplete(u)
    BY <1>T, <2>1, <2>2 DEF IsComplete, IsValid, FileCount
  <2> QED
    BY <1>U, <2>1, <2>3 DEF User, IsComplete, IsValid
<1>2. CASE Recheck(b)
  <2>1. IsComplete(u) /\ UNCHANGED <<dir, cacheState, fileCount>>
    BY <1>2, <1>T, GoesOn DEF Recheck, disk, Steps
  <2> QED
    BY <1>U, <2>1 DEF User, IsComplete, IsValid
<1>3. CASE Complete(b)
  <2>1. dir[u] # "absent" /\ build[b].count = FileCount(dir[u])
    BY <1>3 DEF Complete, At, Holders, Holder
  <2>2. /\ dir'[u] = dir[u] /\ cacheState'[u] = "complete" /\ fileCount'[u] = FileCount(dir[u])
    BY <1>3, <1>T, <2>1 DEF Complete, StateBecomes
  <2>3. FileCount(dir[u]) \in Nat
    BY DEF FileCount
  <2> QED
    BY <1>U, <2>1, <2>2, <2>3 DEF User, IsComplete, IsValid
<1> QED
  BY <1>1, <1>2, <1>3, ProceedsOn

\* What is known of a directory without its lock.
LEMMA NextVisitors == TypeOK /\ States /\ Holders /\ Visitors /\ [Next]_vars => Visitors'
<1> SUFFICES ASSUME TypeOK, States, Holders, Visitors, [Next]_vars PROVE Visitors'
  OBVIOUS
<1>T. \A c \in Builds : build[c].url \in Urls /\ Holder(c) /\ Reader(c) /\ User(c)
  BY DEF TypeOK, BuildStates, Holders, Visitors
<1>0. ASSUME NEW b \in Builds, Bystanders(b), outdated \subseteq outdated' \cup {b},
             \A u \in Urls : IsComplete(u) => IsComplete(u)',
             Reader(b)', User(b)'
      PROVE  Visitors'
  <2>1. ASSUME NEW c \in Builds \ {b} PROVE Reader(c)' /\ User(c)'
    <3>1. /\ build'[c].step = build[c].step /\ build'[c].url = build[c].url
          /\ build'[c].count = build[c].count
      BY <1>0 DEF Bystanders
    <3>2. IsComplete(build[c].url) => IsComplete(build[c].url)'
      BY <1>0, <1>T, <3>1
    <3> QED
      BY <1>0, <1>T, <3>1, <3>2 DEF Reader, User
  <2> QED
    BY <1>0, <2>1 DEF Visitors
<1>1. CASE UNCHANGED vars
  <2>1. /\ UNCHANGED <<build, outdated>>
        /\ \A c \in Builds : IsComplete(build[c].url)' <=> IsComplete(build[c].url)
    BY <1>1 DEF vars, history, IsComplete, IsValid
  <2> QED
    BY <1>T, <2>1 DEF Visitors, Reader, User
<1>2. ASSUME NEW b \in Builds, NEW v \in Urls, Start(b, v) PROVE Visitors'
  <2>1. /\ DirsUnchanged /\ Bystanders(b) /\ build'[b].url = v /\ build'[b].count = fileCount[v]
        /\ build'[b].step = (IF cacheState[v] = "complete" THEN "validating" ELSE "locking")
    BY <1>2, StartReads
  <2>2. User(b)'
    BY <2>1 DEF User
  <2>3. Reader(b)'
    <3>1. State(v) /\ (IsComplete(v)' <=> IsComplete(v))
      BY <2>1 DEF States, DirsUnchanged, IsComplete, IsValid
    <3> QED
      BY <2>1, <3>1 DEF Reader, State
  <2>4. \A u \in Urls : IsComplete(u) => IsComplete(u)'
    BY <2>1, StaysComplete
  <2> QED
    BY <1>0, <1>2, <2>1, <2>2, <2>3, <2>4 DEF Start
<1>3. ASSUME NEW b \in Builds, Fail(b) PROVE Visitors'
  <2>1. DirsUnchanged /\ Bystanders(b) /\ build'[b].step = "idle"
    BY <1>3, FailureEnds
  <2>2. \A u \in Urls : IsComplete(u) => IsComplete(u)'
    BY <2>1, StaysComplete
  <2>3. outdated' = outdated
    BY <1>3 DEF Fail, LockTimesOut, ResolveFails, DownloadFails, ExtractFails, InstallFails,
                CompleteFails, Crash, history
  <2> QED
    BY <1>0, <2>1, <2>2, <2>3 DEF Reader, User
<1>4. ASSUME NEW b \in Builds, Proceed(b) PROVE Visitors'
  <2>1. /\ Bystanders(b)
        /\ DirsUnchanged \/ (build[b].step \in HoldingSteps /\ OnlyItsOwn(b))
        /\ Reader(b)' /\ User(b)'
    BY <1>4, <1>T, HolderProceeds, ProceedsOn, BecomesUser DEF Reader, User
  <2>2. \A u \in Urls : IsComplete(u) => IsComplete(u)'
    BY <1>4, <2>1, StaysComplete
  <2>3. outdated \subseteq outdated'
    BY <1>4, OnlyFastPathOutdates DEF Validate
  <2> QED
    BY <1>0, <2>1, <2>2, <2>3
<1> QED
  BY <1>1, <1>2, <1>3, <1>4 DEF Next

\* Whoever was handed a directory that was not being replaced has all that was extracted to it, for as
\* long as it uses it: under the lock or on the fast path, with any number of builds, URLs and faults.
THEOREM UsersKeepToolset == Spec => []UsersHaveToolset
<1>1. Init => Visitors
  BY InitIdle DEF Visitors, Reader, User
<1>2. TypeOK /\ States /\ Holders /\ Visitors /\ [Next]_vars => Visitors'
  BY NextVisitors
<1>3. TypeOK /\ States /\ Visitors => UsersHaveToolset
  <2> SUFFICES ASSUME TypeOK, States, Visitors, NEW b \in Builds \ outdated, At(b, "using")
               PROVE  dir[build[b].url] = unpacked[build[b].url] /\ dir[build[b].url] # "absent"
    BY DEF UsersHaveToolset
  <2>1. build[b].url \in Urls /\ IsComplete(build[b].url)
    BY DEF TypeOK, BuildStates, Visitors, User, At
  <2> QED
    BY <2>1 DEF States, State, IsComplete, IsValid
<1> QED
  BY <1>1, <1>2, <1>3, HoldersKnow, PTL DEF Spec
=============================================================================
