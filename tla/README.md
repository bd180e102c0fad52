# Verification of electron-builder

TLA+ models of the parts of electron-builder whose correctness depends on the order in which things happen, TLC
configurations that check them on small instances, and proofs, checked by TLAPS, that hold for every instance. Two
halves: the updater that runs on the users' machines, `electron-updater`, where an error cannot be repaired by a new
release when it is the update that no longer works; and the build, with its concurrent packs, targets, uploads and
caches.

Paths below are relative to `src/packages/` unless they say otherwise.

## 1. The system and its parts

electron-builder packages an Electron app for Windows, macOS and Linux, publishes the artifacts together with update
info files, and gives the app a library that checks for updates, downloads and installs them.

| Component | Code | State | Operations | Hard behaviour |
| --- | --- | --- | --- | --- |
| install lifecycle | `electron-updater/src/BaseUpdater.ts`, `ElectronAppAdapter.ts`, `AppAdapter.ts` | `installState` (idle, installing, handedOff), `registeredHooks`, `isDownloadInProgress`, `skipInstallOnQuitUpdateId`, `isSessionEnding` | `install`, `installAsync`, `quitAndInstall`, the install on launch, the `will-quit`, `quit` and session-end handlers | quits and further installs while an elevation dialog is open; a quit that is cancelled and made up for later; stale results |
| update cache | `DownloadedUpdateHelper.ts`, `AppUpdater.executeDownload`, `BaseUpdater.installPendingUpdate` | the directory `pending` with the installer and `update-info.json`; the helper's `_file`, `versionInfo`, `_downloadedFileInfo` | validate, save, clear, mark and unmark | crashes between two writes, launches in between, a download and a pending install that share the directory and the helper |
| update check and download | `AppUpdater.ts` | `checkForUpdatesPromise`, `downloadPromise`, `updateInfoAndProvider` | `checkForUpdates`, `downloadUpdate`, cancel, `differentialDownloadInstaller` | calls that join one in progress, cancellation that races completion, stale block maps |
| macOS updater | `MacUpdater.ts` | the local server, `squirrelDownloadedUpdate`, the cached zip, Squirrel's own state | `doDownloadUpdate`, `updateDownloaded`, `quitAndInstall` | two asynchronous updaters that know little of each other, exits between two copies |
| Linux, Windows updaters | `LinuxUpdater.ts`, `DebUpdater.ts`, `RpmUpdater.ts`, `PacmanUpdater.ts`, `AppImageUpdater.ts`, `NsisUpdater.ts` | none of their own | `doInstall`, `doInstallAsync`, install plans with recovery chains | failing steps, dismissed dialogs |
| differential download | `electron-updater/src/differentialDownloader/` | the plan of copy and download ranges; the splitter's position in a multipart response; copies in progress | compute and coalesce the plan, split responses, copy from the old file, fall back | chunks cut anywhere, off-by-one ranges, retry while copies run |
| asynchronous tasks | `builder-util/src/asyncTaskManager.ts` | the lists of tasks, errors and cancellable tasks | `addTask`, `awaitTasks`, `cancelTasks` | tasks that add tasks, or wait themselves, while they are awaited; cancel during the wait |
| cancellation and retry | `builder-util-runtime/src/CancellationToken.ts`, `retry.ts` | the token tree, listeners | `cancel`, `dispose`, `createPromise` | listeners of promises that still wait |
| packager and targets | `app-builder-lib/src/packager.ts`, `platformPackager.ts`, `core.ts`, `targets/`, `electron-builder-squirrel-windows/` | the packs of a platform, `pendingPackWork`, the targets' build queues, the finalize tasks | `doBuild`, `packAll`, `packPlatform`, `pack`, `build` and `finishBuild` of the targets | directories read in the background while the next target writes into them; concurrent packs; cancel |
| publishing and publishers | `app-builder-lib/src/index.ts`, `publish/PublishManager.ts`, `updateInfoBuilder.ts`, `electron-publish/src/` | publishers by configuration, scheduled uploads, update info tasks | `scheduleUpload`, `awaitTasks`, `cancelTasks`, `doUpload` | one release per configuration; info files after all artifacts; lost answers |
| electron and tool downloads | `app-builder-lib/src/util/electronGet.ts`, `cacheState.ts` | a directory, a state file, a lock per URL, an archive cache, shared by all builds of a machine | `downloadAndExtract` | unlocked reads, crashes anywhere, two URLs of one archive |
| node module collection | `app-builder-lib/src/node-module-collector/` | the dependency graph | collect, hoist | a pure graph algorithm |
| app files, asar, code signing, command line, DMG, Forge makers, docs, website, tests | | none of interest | | file input and output around external tools |

How they interact. In the app: the app calls `checkForUpdates`, which calls `downloadUpdate`; `executeDownload` asks the
`DownloadedUpdateHelper` whether the cache has the update, lets the platform updater's task download it (whole or
differentially), has it verified, renames it and calls `setDownloadedFile`; from then on the helper's `file` is what
`BaseUpdater` installs: at once, on quit through the hooks the app adapter registers with Electron, or, once marked in
`update-info.json`, on the next launch. On macOS it is served to Squirrel instead. In the build: `build()` starts the
packager and listens to its artifacts with a `PublishManager`; packager and publisher each keep an `AsyncTaskManager`;
targets announce artifacts as they are built, uploads run meanwhile, the update info comes last. Node runs one callback
at a time, so a component's state can change under another one only at an `await`; that is where the actions of the
models end. Builds of one machine meet in the toolset cache, as processes.

## 2. What makes each modelled part correct

*Install lifecycle.* A quit does not cut a running install short. Only one install runs at a time and none after an
update was handed off, whoever asks for it. What the user dismissed is not offered by the next quit; what he did not
dismiss is installed by it. A quit that was held back happens, and happens once. A failing install keeps the app
running where the app asked for that.

*Update cache.* Whatever crashes, damage and concurrency did to the cache, no installer runs that is damaged, that
the app's verifier has not accepted in this launch, or, on launch, that would not change the version; a mark starts one
install, if it can be taken off the disk; the helper points at what is on disk.

*Tasks.* A wait returns only when nothing runs any more and nothing has failed, gives up only for a reason, and is
answered; a task that waits on the manager that waits for it neither loses its own tasks nor blocks its owner.

*Packager.* Nobody reads an app directory that is being written. `build()` of every pack comes before `finishBuild`, and
the deferred writes after everything. The build resolves, uncancelled, only when every artifact was announced, and
always ends.

*Publishing.* The update info of a build appears on a server only after all it names. A build that resolves has
published everything. One publisher, hence one release, per configuration: no second one is made. The build ends.

*Toolset cache.* Who is handed a directory has in it all that the extraction left; no copy half done, leftover of a crash
or mixture of two extractions passes for complete, and nothing that failed blocks the next build.

*macOS update.* The cached block map describes the cached zip or is detected not to; what is announced is whole; a
download that was cancelled before its new file was verified is not announced; the latest version is offered in the end.

*Differential download.* The plan, executed, gives the new file; the download fails only for a cause outside; no read
after the old file is closed; it settles.

## 3. Modules

| Module | Models | Uses |
| --- | --- | --- |
| `InstallLifecycle` | one session of the app: `BaseUpdater` with the app adapter's quit events | |
| `UpdateCache` | any number of launches: the cache directory, `executeDownload` and `installPendingUpdate` | |
| `TaskGroup` | what a group of tasks promises to who waits for it | |
| `TaskManager` | an `AsyncTaskManager` as a value with its methods | |
| `AsyncTaskManager` | the manager under its callers; implements `TaskGroup` | `TaskManager`, `TaskGroup` |
| `Packager` | what `packager.build()` promises to its listeners | |
| `BuildPipeline` | the build of all platforms; implements `Packager` | `TaskManager`, `Packager` |
| `Publishing` | `build()` with its `PublishManager` and the uploads, for any packager as `Packager` says | `TaskManager`, `Packager` |
| `ToolsetCache` | concurrent builds on the cache of one toolset | |
| `MacUpdate` | checks, downloads, Squirrel and exits on macOS over many launches | |
| `DownloadPlan` | the plan of a differential download, as operators | |
| `Differential` | its execution | `DownloadPlan` |
| `MCUpdateCache`, `MCBuildPipeline`, `MCPublishing`, `MCDifferential` | the instances of four of them for TLC | |
| `InstallLifecycleProofs`, `UpdateCacheProofs`, `AsyncTaskManagerProofs`, `MacUpdateProofs`, `BuildPipelineProofs`, `PublishingProofs`, `ToolsetCacheProofs`, `DifferentialProofs` | inductive invariants and theorems | the module they are named after |

### InstallLifecycle

An update stands for its checksum, which is what `downloadedUpdateId` compares. `installState` has the three kinds of
the code; the record of an `installing` state, `{ updateId, isQuitDeferred }`, is in `install` together with the
trigger that `runInstallAsync` carries across its `await`, because that record survives a change of `installState`
(`endInstall` compares identities: its parameter `isCurrent`). `file` is the helper's, `download` is
`isDownloadInProgress` with the update that is downloaded. `registeredHooks` and `isSessionEnding` are the code's.

Every action is one uninterrupted run of the event loop. Installs that wait for a package manager
(`StartInstall`, `FinishInstall`) are two actions, with everything else possible in between; installs that return
before they give the event loop a turn (`InstallAtOnce`, the one in a quit) are one. A quit is one action from
`will-quit` to the end of the process, since Electron emits both without returning to the loop; `WillQuit` has one
disjunct per branch of `handleWillQuit`: `DeferQuit`, `InstallFailsInWillQuit`, `InstallSucceedsInWillQuit`,
`ProceedWithQuit`. `app.exit()` skips `will-quit` (`AppExit`). Quits scheduled with `setImmediate` wait in
`scheduledQuits`. The constants `PackageTarget` (`isQuitCancellable`), `HasWillQuit` and `HasSessionEnd` are the targets
and the adapters. The outcome of an installer is chosen by the environment, with exceptions of `doInstall` and
`doInstallAsync` counted as failures, as `endInstall` counts them. The history variables `attempt`, `hasInstalled`,
`dismissed`, `lastDismissed` and `deferredQuit` are read by properties only.

### UpdateCache

A version stands for the update and its checksum; `files` maps the installer's path in `pending` to the bytes there,
damaged bytes are `Corrupt`. `updateInfo` is `update-info.json`, `tempFile` the installer under its temporary name.
`file`, `versionInfo` and `downloadedInfo` are the helper's fields. `download.step` and `pendingInstall.step` are the
points at which `executeDownload` and `installPendingUpdate` give up the event loop, with what they keep in local
variables (`update`, `read`, `isInstallable`). In particular `update-info.json` is read and the file hashed in separate
steps, verification is a step of its own, the rename comes before the write of `update-info.json`, and
`clearPendingInstallMarker` reads and writes in two steps. Its write may fail (`FailToClearMarker`), which is logged and
nothing else: the installer runs all the same, and `isMarkerKept` remembers it. `Quit`, `Crash` and an installer that
starts may come between any two; a write in progress then leaves the old contents, the new ones or a file that does not
parse. `Publish` changes what the server offers at any time, back to an older version too. `DamageFile` is disk trouble
between launches. The verifier may answer differently each time it is asked.

Abstractions: a check immediately downloads what it found; emptying the directory is one step, and so is hashing a
file; an install is one step, since InstallLifecycle has its details; the package of an NSIS web installer, the block
map files (MacUpdate has them), and targets that do not install on launch (elevated and per-machine ones) are left out.
`SharedFileName` distinguishes providers whose installer has the same name for all versions, where a new download
replaces the old file, from the others.

### TaskManager, AsyncTaskManager, TaskGroup

The manager is the record `tasks`, `errors`, `cancellableTasks`; arrays are sets, since nothing but the unread results
depends on their order. `OnCall` and `OnRoundEnd` are the decisions of `awaitTasks` before its loop and after each
round, `After` what they do to the manager; the actions say who calls and what is waited for. `round` is the list that
a caller's `Promise.all` holds, which is no longer in the manager. A task in `Nesting` adds tasks and waits on the
manager that waits for it, as `copyAppFiles` does (`platformPackager.ts:559`): it runs to that wait in the turn in which
its owner began to wait, so it never meets itself in the list. `TaskGroup` knows only which tasks the group answers for,
which it gave up, and how the owner's last wait went; the refinement mapping takes a task to be open when it runs and
the list or a round still holds it.

### Packager, BuildPipeline

`Packager` is the contract of the event emitter: artifacts while it builds, a promise that resolves after the last one,
unless the build was cancelled or failed. `BuildPipeline` implements it. Its `main` is where `doBuild` is; `packs` are
the `pack()` calls of a platform, one at a time or together (`concurrency.jobs`, modelled as 1 or at least the number of
packs). `Plan` has the packs of each platform and its targets: those that build in the background as a set, the others,
which are built one after another, as a sequence. `groups` are the second halves of packs with sync targets
(`packageInDistributableFormat`); `work` is what each target does with each directory. Four kinds of targets cover all
of the code's: `Archives` queue work that reads the directory (tracked with `trackPackWork`), `Images` read it in
`build()`, `Writers` wait for the tracked work and write into it (Squirrel.Windows; fpm waits and writes like them, but
reads in `build()` itself and queues nothing), `Installers` read all directories in `finishBuild` and leave a deferred
task (`addToArchive` and its `elevate.exe`). `doPack` is one step with the outcome packed or failed: its checks of the
token lead to the same place. Not in it: an app directory that a prepackaged build shares between archs, and the
`app-update.yml` that AppImage, which builds in the background, writes there after `waitForPackWork`
(`AppImageTarget.ts:81`); an NSIS target with `buildUniversalInstaller: false`, which reads in `build()` what the one
modelled reads in `finishBuild`. Several fpm targets of a platform write one after the other, each after
`waitForPackWork` (`FpmTarget.ts:183`), and queue nothing; they are covered by one writer as far as others read.

### Publishing

`schedulers` are what calls `scheduleUpload`: the handler of each artifact, `build()` for the hook's artifact and the
event of each update info file. Each goes through the configurations one by one, with an `await` on the shared publisher
in between. `publishers` keeps every publisher ever created for a configuration, `nameToPublisher` the cached one.
Uploads to GitHub have the loop of `doUploadFile` with the server's answer separate from what it stored: `SendFails`
may store the file nevertheless, the retry is then refused, deletes and sends again. Uploads to other services are one
request. `packager.build()` is the module `Packager`, conjoined action by action: assume-guarantee, BuildPipeline
shows that the code provides what is assumed here. The release of a GitHub publisher (`_release`, a `Lazy`) is part of
the publisher's state: the first upload asks for it, it is looked for, made if there is none, and settles all uploads
that wait for it; `release` is what the server has. A release that is withheld (too old, of another type, or missing in
a build that makes none) turns all uploads into successes that store nothing, as `doUpload` does. It is assumed that a
release of the tag is found when there is one: `getOrCreateRelease` reads the first page of the list. Not in it: the
`-mac.json` that is written for clients before 2.0 and goes out in the first phase (`updateInfoBuilder.ts:172`), the keys
that sign manifests (signing may fail), what is in the update info, and GitLab, whose links of files to the release are
optional for `gitlabPublisher.ts` although `GitLabProvider.ts` finds files by them.

### ToolsetCache

`dir`, `cacheState`, `fileCount`, `lock` for each URL, and the one `archive` they share; `build` is the point at which
each process is in `downloadAndExtract`. Removing and copying directories take several steps; `torn` is a directory with
all its files but not all of their contents, which the file count cannot tell from a whole one. A crash leaves
everything as it is, the lock as `Stale`. `Start` may also be called by a process that has used the cache before.
`Extract` may leave a part of the files and go on, as `extractArchive` does with what `7za` reports or `tar.extract` warns
of; `unpacked` remembers, for the properties, what the extraction of each directory left. The fast path reads the state
file (`Start`) and the directory (`Validate`) in two steps without the lock; `outdated` are the builds that took a
directory although the state file they had read was gone by then.

### MacUpdate

A version stands for its zip and its block map. `download` is `downloadPromise` with the step of `executeDownload`;
`cachedZip`, `cachedMap` are the pair in the cache directory that the next differential download starts from,
`pendingMap`, `pendingZip`, `tempZip` the files of the download. The two are copied one after the other
(`CopyMap`, `CopyZip`), with an exit or an error possible in between. The checks of block maps against zips compare
sizes only, so `isSameSize` lets every wrong map pass; what then saves the update is the checksum (`DownloadRanges`).
A cancel may come at any step; the path of a file that an earlier download has saved (`AcceptCached`) never looks at it.
`squirrel` is Squirrel.Mac: fetch, stage, install at exit. A check is one step.

### DownloadPlan, Differential

`DownloadPlan` has `computeOperations` and `coalesceDownloadGaps`; their loops are recursive functions of the number of
rounds, and `AddBlock` and `AddOperation` are one round of each. `Content` gives every block of a map its bytes.
`Differential` executes the plan: `step` is what the function `w` waits for, `splitter` is `DataSplitter`, whose position
in the body (`handleData`) is a program counter of five places. Bytes are opaque values, so that every misplaced range
shows; the answer (`AnswerTo`) has real delimiters, header lists and both kinds of line end, and `ReceiveChunk` cuts it
anywhere. Abstractions: header text and boundary have one byte each; chunks that arrive while one
is handled stay in `response`; single ranges arrive whole or not at all; what follows the last part is dropped.

## 4. Runs

| Run | Configuration | Checks | Result |
| --- | --- | --- | --- |
| `package_lifecycle` | `InstallLifecyclePackage.cfg` | all properties of the lifecycle on a deb, rpm or pacman target under Electron, with liveness | pass |
| `quit_race` | `InstallLifecycleQuitRace.cfg` | `QuitNeverCutsInstallShort` | violated, see 7 |
| `update_cache` | `UpdateCache.cfg` | the invariants and action properties of the cache | pass |
| `marker_loop` | `UpdateCacheMarker.cfg` | `NoMarkerOutlivesInstall` | violated, see 7 |
| `cache_race` | `UpdateCacheRace.cfg` | `DownloadedUpdateStaysInCache` | violated, see 7 |
| `async_tasks` | `AsyncTaskManager.cfg` | the refinement of `TaskGroup`, answers, nested waits, cancel calls | pass |
| `toolset_cache` | `ToolsetCache.cfg` | who has a directory has all of it, `complete` means all of it, offline builds, recovery | pass |
| `toolset_fast_path` | `ToolsetCacheFastPath.cfg` | `FastPathFallsThrough` | violated, see 7 |
| `build_pipeline` | `BuildPipeline.cfg` | the refinement of `Packager` with its liveness, reads and writes of directories, `finishBuild` | pass |
| `publishing` | `Publishing.cfg` | update info last, all published, one release, the build ends | pass |
| `mac_update` | `MacUpdate.cfg` | block maps and zips, whole announcements, none of a fresh file that was cancelled in time, the latest is offered | pass |
| `differential` | `Differential.cfg` | the new file or a cause, no read of a closed file, settling | pass |

Bounds.

- *InstallLifecycle*: two updates are enough for one to replace the other during or after the install of the first,
  which every property about ids is about. *MaxScheduledQuits*: quits that `setImmediate` has not run. It is one in
  `package_lifecycle`, which keeps the liveness check in reach, and two in `quit_race`; it is a guard of `FinishInstall`
  and `HandOffToNextLaunch` that the code does not have. The proofs hold for every bound and for the targets whose
  install is synchronous (NSIS, AppImage), which no run instantiates.
- *UpdateCache*: three versions, the running one, the one downloaded or marked and one that replaces it. Launches,
  downloads, quits and crashes are not bounded.
- *AsyncTaskManager*: a plain task, two cancellable ones and a nesting one: each can be added before, during and after a
  round, by the owner or by another task, and rounds may chain.
- *ToolsetCache*: two builds, two URLs, two faults: a crash and a failure, or a crash of each build; the caches found
  at the start are what one more would have left.
- *BuildPipeline*: a platform with only async targets, then one with two archs and a target of each other kind; one
  failure, since a second one only changes which error is reported.
- *Publishing*: one artifact, the hook's and one update info file for each of two configurations, so three uploads
  share a publisher; two failures. `MaxAttempts` is 1 where the code has 3, so an upload is sent three times and not five:
  enough for a lost answer to be followed by the refusal, the deletion and the second sending, which may fail as well,
  and for the last attempt to be refused.
- *MacUpdate*: three versions and three faults, so a torn pair can be met by a download that fails, and then by one
  that succeeds. Launches and checks are not bounded.
- *Differential*: all files of up to three blocks out of four kinds, and some longer ones with two batches, one of which
  asks for several ranges in both, so that they may be refused when a part is written; against two old files, one of
  which repeats a block; blocks with equal checksums and unequal sizes, a block that looks like the end of a header
  list, empty blocks. Two ranges per request instead of 200, a pause after every second range.

Fairness.

- *InstallLifecycle*: `WF(FinishInstall)`: a package manager ends, and its elevation dialog is answered or times out.
  `WF(RunScheduledQuit)`: Node's event loop runs what `setImmediate` queued. Nothing is assumed of the app, the user, the
  server or a download. `DeferredQuitHappens` therefore has to except an app that starts new installs for ever.
- *UpdateCache*: safety only, none assumed.
- *AsyncTaskManager*, *BuildPipeline*, *Publishing*: promises settle (child processes end, requests are answered or time
  out) and the event loop runs. No task is assumed to succeed, and nobody to cancel. Publishing assumes it of its steps
  together, not of each task: all that runs ends by itself.
- *ToolsetCache*: a process that is not stopped goes on. `RecoversFromFaults` speaks of the time when there are no more
  faults, and excepts a build that uses another URL at that time: it overwrites the shared archive under another lock.
- *MacUpdate*: the app checks again and again, downloads and copies end, and Squirrel fetches what it is told to. The
  last is an assumption on an external program; without it `downloadUpdate` may stay pending for ever (`MacUpdater.ts`
  resolves it only when the response ends or Squirrel reports an error).
- *Differential*: only the steps of the process itself are fair; that a download settles when the server keeps
  answering has the server's fairness as its premise, and that a cancelled one settles does without.

Exceptions written into properties. `HelperMatchesCache` excepts launches in which a pending install overlapped a
download or a hand-off, or the write of `update-info.json` failed (`isDisturbed`): that is finding 4, and `cache_race`
checks the property without the exception. `MapDescribesZip` excepts a pair that an exit or an error has torn (`isTorn`),
until a download replaces both. `CancelledIsNotAnnounced` is about cancels before the verification ends, and files that
this download has fetched: later, and when a cached file is used, the code does not look at the token and announces the
update. `OneLaunchInstallPerMark` excepts launches in which the write that clears the marker failed (finding 2), and
`UsersHaveToolset` builds whose fast path was overtaken (finding 3). `OutcomeIsRight` lists what may make a download fail
(`HasExcuse`).

What "complete" means in the toolset run. Whether an extraction that lost files counts is decided by `extractArchive`,
which takes what a `.7z` left although `7za` reports an error (`electronGet.ts:241`), and what `tar.extract` left with
warnings (`electronGet.ts:219`): such a directory is counted, declared complete and kept. The default fpm bundle is a `.7z`.
So the properties do not say that the toolset is whole, which would be violated, but that it is what the extraction left.

Deadlock is checked in all runs but `differential`, where a download simply ends; the others stutter where the program
has ended (`Ended`, `Done`) or can always be started again.

## 5. Proofs

`InstallLifecycleProofs` holds for every set of updates, every target and every adapter; `UpdateCacheProofs` for any
number of versions, shared or distinct file names, and either value of `allowDowngrade`; `AsyncTaskManagerProofs` for
any promises, any of them cancellable or nesting; `MacUpdateProofs` for any number of versions and faults;
`BuildPipelineProofs` for any plan of platforms, packs and targets and any number of failures; `PublishingProofs` for any
artifacts and list of configurations, any number of attempts and failures; `ToolsetCacheProofs` for any number of
builds, URLs, crashes and failures; `DifferentialProofs` for any block maps and contents, limits of a request, line ends,
cuts of the answer into chunks and any number of failures.

Every invariant and every action property of the passing runs is a theorem; what remains to TLC alone is liveness.

Assumptions: the named ones of the specifications. Most say that null values are not updates, versions, records,
installs or tasks, that flags are Boolean and that bounds are numbers. Those of BuildPipeline say what
`createPlannedTargets` makes: every target is of one platform and of one kind, a platform has at least one pack and no
pack twice, and at most one target that writes into app directories and queues work that reads them. The last is true
because Squirrel.Windows is the only one: a second one would not wait for the queued work of the first, which is not
tracked. Those of Publishing only keep names apart: no artifact is a configuration, and `Handle` and `CreateInfo` are
tasks of their own. Those of DownloadPlan and Differential: block maps are sequences of blocks, a block has as many
bytes as its size says, a request has at least one range, and no byte of a line end occurs in a boundary or in the text of
a header. File contents are not restricted: they may hold anything that looks like a line end or a delimiter. TLC
evaluates the assumptions in the runs.

*Install lifecycle.* The inductive invariant is `IInv == TypeOK /\ Lifecycle /\ QuitWaitsForInstall`.
`QuitWaitsForInstall` speaks of the end of the process; it holds because an install that waits implies that
`installState` is `"installing"` or, after a hand-off, `"handedOff"`, and because the will-quit hook was registered
before the install began to wait. `Lifecycle` says so: it ties `installState`, `install`, `registeredHooks` and the
history together. `NextTypeOK` and `NextIInv` have a step per action; `QuitInstallsFromIdle` and `WillQuitLifecycle` are
shared by the three ways to quit. The action properties follow from the invariant and from lemmas that name the steps
which can run an installer (`InstallerStartsFromIdle`, `QuitInstallsDueUpdate`) or end the process (`ProcessQuits`).

*Update cache.* `IInv == TypeOK /\ Steps /\ Sound /\ Marker`. `Steps`: what a step needs was read by an earlier one.
`Sound`: the helper's file, the temporary file between its download and its rename, and the cached file between hash and
acceptance are missing or hold a version that is a permitted change; nothing of the process survives its end. It is what
makes a hash taken several steps earlier still valid: while the process runs, files are only emptied or replaced by
another checked download. `Marker`: a marker on disk is owed, when the installer is about to run there is none or the
write that was to clear it has failed, and what a write in progress may leave at a crash carries none. `InstallerRun`
names the steps that run an installer. `AcceptedRuns` and `HelperMatches` need more. An update is mentioned by
`update-info.json`, by the helper, by a read in progress or by a pending install. `Trust`: the mentioned ones are a
single leftover of an earlier launch, or each of them was accepted in this launch or belongs to a cache this launch has
found empty; the ends of a download, of an emptying and of an announcement lead to the second case. `Origins` says where
bytes in hand come from, which is why an acceptance given before a rename still speaks of the file after it. `Agree`:
while nothing has disturbed the cache (`isDisturbed`, finding 4), disk and helper name the same update at each step of a
download.

*Task manager.* `IInv == TypeOK /\ Bookkeeping /\ Nested`. `Bookkeeping`: what the list and the rounds hold was accepted
and has started, only running nesting tasks wait. `Nested`: a nesting task runs within a round of its owner or after its
owner gave up. The last is what the refinement needs: a nested wait takes tasks out of the list, so the owner's empty
list alone would not mean that nothing is left; it does, because the nesting task is still in the owner's round.
`Refinement` maps every action to the abstract one (a failing `awaitTasks` of a nesting task to `Abandon`, of the owner
to `Reject`) or to a stutter. `NestedWaits` and `GivingUpCancels` have strengthenings of their own, proved on top of
`IInv`: what a task added with its wait is in its round or has settled, and its failure is among the errors; a
cancellable task that runs is among `cancellableTasks` or was cancelled.

*macOS update.* `IInv == TypeOK /\ Files /\ Pairs /\ Cancels`. `Files`: what the download has on disk at each step; a
verified temporary file and a pending zip that is about to be copied or served are those of the download's own update.
`Pairs`: the block map in the pending directory is missing or that of the zip there, which makes the cached pair right
after both copies; between the two it is the pending zip that the cached map describes. `Cancels`: a cancel in time is
there to be seen by each step up to the verification, or the file is that of an earlier download. `FreshStepsKeep` and
`SavedStepsKeep` go through the steps of a download; the exits share `ExitKeeps`, in which a copy that was cut short
leaves a pair that is right or recorded as torn.

*Build.* `IInv == Types /\ Order /\ Reading /\ Listening /\ Tracking /\ Finishing`. What it promises holds while the
build `GoesOn`, that is, was neither cancelled nor rejected. `Order`: packs are started in order and a platform that
`doBuild` has left is packed. `Reading`: work on a directory begins when it is packed, a writer that waits knows all
that still reads its directory, nothing new begins to read it (the group holds the only target that could), and
installers read when all groups are quiet. `Listening`: what was handed to the packer's task manager is in its list,
awaited or settled. `Tracking`: what was begun is such a task, is in a group that is one, or in the queue of its target,
and what failed has left an error there. `Finishing`: `finishBuild` of a background target is called once, after every
`build()` of its platform, and is a task; the others are finished in order, and what is finished is done. `AllBuilt` and
`AllDone` draw the sum: past `awaitTasks` all background work is done, past the sync targets everything is. The four
theorems, and the steps of the refinement, follow from these two and from `Reading`. The long part of the module is that
each step keeps `Tracking`: a step that moves work from one holder to another (from a group to a queue, from a queue to
a round) must find a task manager that has not forgotten it; the frame lemmas (`PacksMove`, `GroupsMove`, `WorkMoves`,
`PendingMoves`, `QueuesMove`, `MainMoves`, `ErrorsStay`) say of each variable what any step does to it.

*Publishing.* `IInv == Types /\ Stages /\ Sharing /\ Sending /\ Tracking /\ Finishing`. `Stages`: what a scheduler has
left to do is an end of the list of configurations, nothing once it has ended (unless a cancel stopped it), and the
schedulers begin where `build()` lets them. `Sharing`: but for failed ones, a configuration has one publisher, the cached
one, and what that publisher knows of the release agrees with the server; a publisher that is about to make a release has
seen that there is none. `OneRelease` is its last line, and holds only together with the rest. `Sending`: who has gone
past a configuration has called `upload()` there or the configuration has no publisher; an upload that is done is stored,
if uploads are let in. `Tracking`: while the build was neither cancelled nor has failed, uploads and handlers under way
are pending, everything pending is in the task list or in the round that is awaited, what failed left an error, and an
artifact with update info is in `infos`, or about to be, or its failure is an error. `Finishing`: past the first
`awaitTasks` everything is stored (`AllStored`), past the second the update info files are. `AllIsDone` draws the sum
that `RoundEnds` needs: an uncancelled round that ends with an empty list and without errors leaves nothing under way,
so every scheduler has ended and every upload it is past is done. This needs `Passed`: without it an empty list could
mean that a handler has not yet called `upload()`. What `Finishing` says then lasts, because an upload that is done is
not called again (`DoneStays`). `BuildLasts`, `PublishersLast` and their like say once, for every step, what never goes
back; each of the `Next…` lemmas then looks only at the steps that move what its conjunct is about. No number of
attempts enters the argument, so it covers the three of the code as well as the one of the run.

*Toolset cache.* `TypeCorrect` includes that a lock has at most one holder (`LockOK`). `Seeded`: while the archive was
whole from the start nobody is at a step that downloads. `States` and `Holder` say what the state file, the count and
the directory are at each step of the build that holds the lock: "complete" is written only after a count of all that was
extracted, and erased before the directory is touched. For `UsersKeepToolset`, `Reader` and `User` follow a build that
goes past the lock: what it has read of the state file is still true when it has counted the files, or the state file
was gone by then and the build is one of those that took an outdated directory. Neither theorem assumes anything of
extractions, of copies or of the time between two steps.

*Differential download.* `IInv == Control /\ Descriptor /\ Verdict`: the descriptor is open exactly from the opening to
the closing of an attempt, copies and the function `w` belong to an attempt that runs or stops. `Rejected` is shared by
all the ways in which an attempt fails. `OutcomeIsRight` rests on four layers more.

1. *The plan.* Operations are laid (`IsLaid`) when positions in the new file can be given at which each produces the
   bytes that belong there (`Produces`). `AddBlockIsRight` and `AddOperationIsRight` show it kept by a round of either
   loop, the second with what a short gap means: the copies between two downloads lie where the gap does. The loops are
   recursive functions, and induction theorems with an operator as a parameter cannot be used; `InductionUpTo` is
   induction on an interval by the least element of a set of naturals, and `RecursionUpTo` derives from it that a
   recursive function obeys its equation. `PlanBuildsNewFile` and `PlanIsValid` hold for all maps whose new one has no
   empty block: `doDownload` rejects a plan with an empty range.
2. *The control* (`Shape`): types, what `w` may wait for in each phase, which batch and range it is at, and where
   `DataSplitter` may be. It holds whatever fails, and implies `TypeOK` (`ShapeIsTyped`). `ControlIsKept` states it.
3. *The stream.* `PartStart`, `DelimiterEnd` and `DataStart` say where each part of an answer begins, ends its delimiter
   and has its data. `IsStream`: there are positions `t`, `p`, `q` in the answer such that the splitter carries the bytes
   from `t` to `p`, has those from `p` to `q` of the chunk before it, and gets the rest later; its program counter and
   its counters fit these positions. A search for the end of a header list looks at the carried bytes and the chunk
   together; `HeaderListIsFound` shows that it finds the end of the head as soon as that has come and nothing before,
   and `StreamAfterFruitlessSearch` that the three bytes it carries suffice when two chunks share the end.
4. *The data.* `Good == Blameless /\ IsWritten /\ IsInStep`: an attempt stops only for a slow copy or a refusal of several
   ranges, the new file is what the operations so far produce with what is done of the current one, and the stream is as
   above for the ranges of the batch. `Right == Clean => Good`, where `Clean` says that nothing was cancelled, no fault
   was used, the old file is as its map says and no block is empty. Every step keeps it (`DataIsRight`), because what
   is not clean never becomes clean again. In a clean state a download fails only for a copy that the watchdog finds
   too slow, so one that failed has an excuse (`DownloadIsRight`).

| Theorem | Says |
| --- | --- |
| `TypeCorrect` of all modules but `BuildPipelineProofs`, `PublishingProofs` and `DifferentialProofs`, where it is part of another theorem | `Spec => []TypeOK` |
| `Invariance` of all modules but `ToolsetCacheProofs` | `Spec => []IInv` |
| `QuitWaits` | `Spec => []QuitWaitsForInstall` |
| `OneInstallAtATime` | `Spec => InstallsOneAtATime` |
| `HandOffFinal` | `Spec => HandOffIsFinal` |
| `DismissedNotRetried` | `Spec => DismissedNotRetriedOnQuit` |
| `CleanQuitInstalls` | `Spec => UpdateInstalledOnCleanQuit` |
| `FailedInstallKeepsRunning` | `Spec => FailedInstallKeepsAppRunning` |
| `OneQuit` | `Spec => OneQuitPerInstall` |
| `OneInstallPerMark` | `Spec => OneLaunchInstallPerMark` |
| `NoDamagedRuns` | `Spec => NoDamagedInstallerRuns` |
| `LaunchInstallsChanges` | `Spec => LaunchInstallsOnlyChanges` |
| `AcceptedRuns` | `Spec => OnlyAcceptedUpdatesRun` |
| `HelperMatches` | `Spec => []HelperMatchesCache` |
| `Refinement` | `Spec => ImplementsTaskGroup` |
| `NestedWaits` | `Spec => []NestedWaitCoversChildren` |
| `GivingUpCancels` | `Spec => GivingUpCancelsAll` |
| `MapsDescribeZips` | `Spec => []MapDescribesZip` |
| `AnnouncedWhole` | `Spec => AnnouncedIsWhole` |
| `CancelledNotAnnounced` | `Spec => CancelledIsNotAnnounced` |
| `FinishCovers` | `Spec => []FinishCoversBuilds` |
| `ReadersDoNotMeetWriter` | `Spec => []NoReadDuringWrite` |
| `DeferredAfterReaders` | `Spec => FinalizeAfterReaders` |
| `PromiseIsKept` | `Spec => Promise!SafeSpec`, the safety half of `ImplementsPackager` |
| `UpdateInfoIsLast` | `Spec => []UpdateInfoComesLast` (`TypeOK` is part of it) |
| `ResolvesWhenPublished` | `Spec => []ResolvesOnlyWhenPublished` |
| `OneRelease` | `Spec => []OneReleasePerConfig` |
| `SeededSuffices` | `Spec => []SeededArchiveIsEnough` |
| `CompleteIsUnpacked` | `Spec => []CompleteMeansUnpacked` |
| `UsersKeepToolset` | `Spec => []UsersHaveToolset` (`TypeOK` is part of it) |
| `DescriptorIsSafe` | `Spec => []OldFileIsOpenWhileRead` |
| `NothingIsLeaked` | `Spec => []ClosedWhenSettled` |
| `DoneIsRight` | `Spec => []DoneMeansNewFile`: nothing is written after the digest was checked |
| `PlanBuildsNewFile` | for all block maps without empty blocks in the new one and every limit of a gap, the planned operations produce the new file |
| `PlanIsValid` | `doDownload` accepts such a plan |
| `ControlIsKept` | `Spec => []Shape` |
| `DataIsRight` | `Spec => []Right`: unless something goes wrong outside, the new file grows by its next bytes |
| `DownloadIsRight` | `Spec => []OutcomeIsRight` |

Only model-checked: liveness, which under fairness is beyond the prover (`DeferredQuitHappens`, `OwnerIsAnswered`, the
settling half of `ImplementsPackager`, `BuildEnds`, `RecoversFromFaults`, `LatestIsOffered`, `DownloadSettles`).

## 6. What is not modelled

Everything in the table of section 1 that section 3 does not name. For the updaters of Windows and Linux, an install is
an outcome; their recovery chains are not modelled. HTTP, feeds, signatures, file formats, escaping of command lines,
the selection and copying of app files, asar and code signing are sequential input and output whose errors a test finds;
they would be models of other programs. `CancellationToken` is a flag in the modules: its tree of tokens and its
listeners are a model of their own. Large parts of the repository (the source rewriter `migrate-schema`, the
configuration types, option normalisation, templates) have no state. `PROJECT.json` lists every component with its
reason and every hazard, with a note where no property covers it.

## 7. Disagreements between code and documentation

1. `quit_race`: `quitAndInstall({ waitUntilNextLaunch: true })` during an install sets `installState` to `handedOff`
   (`BaseUpdater.ts:263`), so the quit it schedules is no longer held back and ends the process under the package
   manager, which `BaseUpdater.ts:779` excludes.
2. `marker_loop`: `clearPendingInstallMarker` logs a failing write and resolves (`DownloadedUpdateHelper.ts:165`), and
   `installPendingUpdate` starts the installer with the marker still on the disk, so the next launch starts it again;
   `BaseUpdater.ts:577` excludes the loop.
3. `toolset_fast_path`: between the two reads of the fast path another build may remove a damaged directory and copy the
   toolset into its place; the count of files is then reached before the last file is complete. `electronGet.ts:516` says
   that a racing read only ever falls through to the lock. It takes an extraction that is faster than two reads.
4. `cache_race`: the install of a marked update empties the directory under a download that has announced its update
   (`BaseUpdater.ts:549`, `DownloadedUpdateHelper.ts:276`); the quit then has nothing to install, against
   `BaseUpdater.ts:322`.

A limit that no run checks: `skipInstallOnQuitUpdateId` is one id (`BaseUpdater.ts:739`). After another update failed, an
earlier one that failed and is downloaded again is installed on quit again. `DismissedNotRetriedOnQuit` therefore speaks of
the update dismissed last.

## 8. Plan

What is left, in this order.

1. `LinuxInstallPlan`: recovery chains and denied elevation, composed with `InstallLifecycle`.
2. `CancellationToken`: the tree, `dispose` under promises that still wait.
3. Keygen and GitLab in `Publishing`; `hoist.ts` over small graphs.
