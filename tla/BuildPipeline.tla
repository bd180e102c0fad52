---------------------------- MODULE BuildPipeline ----------------------------
(***************************************************************************)
(* One build: Packager.doBuild with PlatformPackager.pack and the targets. *)
(* Platforms are packed one after another, the packs of a platform (one    *)
(* app directory per arch) one after another or together; the targets of a *)
(* pack read its directory while later packs are made, some write into it, *)
(* and the deferred tasks write into it in the end.                        *)
(*                                                                         *)
(* Left out: prepackaged apps, whose archs share one directory and into    *)
(* which AppImage.build() writes app-update.yml after waitForPackWork; an  *)
(* NSIS target with buildUniversalInstaller false, which reads in build()  *)
(* what the one modelled reads in finishBuild.                             *)
(***************************************************************************)
EXTENDS TaskManager, SequencesExt

CONSTANTS
  Plan,          \* the platforms in order: their packs, the targets that build in the background
                 \* (isAsyncSupported), and in their order the others
  Archives,      \* targets whose build() queues work that reads the directory (zip, tar.gz, 7z)
  Images,        \* targets whose build() reads it itself (AppImage, MSI)
  Writers,       \* targets that write into it, then queue work that reads it (Squirrel.Windows)
  Installers,    \* targets that read all directories of their platform in finishBuild (NSIS)
  MaxFailures,   \* bound: packs and targets that fail
  NoWait

AsyncTargets == Archives \cup Images  \* isAsyncSupported
Targets == AsyncTargets \cup Writers \cup Installers
Packs == UNION {ToSet(Plan[i].packs) : i \in DOMAIN Plan}
TargetsOf(i) == Plan[i].asyncTargets \cup ToSet(Plan[i].syncTargets)

\* A target's piece of work on a pack; an installer has one, for all packs.
Work ==
  {<<t>> : t \in Installers}
    \cup UNION {{<<p, t>> : p \in ToSet(Plan[i].packs), t \in TargetsOf(i) \ Installers} : i \in DOMAIN Plan}

TargetOf(w) == Last(w)
PacksOf(t) == UNION {ToSet(Plan[i].packs) : i \in {k \in DOMAIN Plan : t \in TargetsOf(k)}}
DirsOf(w) == IF Len(w) = 1 THEN PacksOf(TargetOf(w)) ELSE {w[1]}
PlatformOf(p) == CHOOSE i \in DOMAIN Plan : p \in ToSet(Plan[i].packs)

\* What the packer's task manager waits for: builds of images, groups of builds, finishBuild calls.
Tasks == Work \cup {<<"group", p>> : p \in Packs} \cup {<<"finish", t>> : t \in AsyncTargets}

ASSUME PlanAssumption ==
  /\ Plan \in Seq(ToSet(Plan)) /\ Plan # <<>>
  /\ \A i \in DOMAIN Plan :
       /\ Plan[i].packs \in Seq(Packs) /\ Plan[i].packs # <<>> /\ IsInjective(Plan[i].packs)
       /\ Plan[i].syncTargets \in Seq(Writers \cup Installers) /\ Plan[i].asyncTargets \subseteq AsyncTargets
\* Every target is of one kind, and of one platform.  One writer of a platform queues work that
\* reads: Squirrel.Windows.  fpm targets (deb, rpm, pacman) write after waitForPackWork too, but
\* queue nothing: each has ended when the next one begins, so one stands for them all.
ASSUME TargetAssumption ==
  /\ Targets = UNION {TargetsOf(i) : i \in DOMAIN Plan}
  /\ \A i, j \in DOMAIN Plan : i # j =>
       ToSet(Plan[i].packs) \cap ToSet(Plan[j].packs) = {} /\ TargetsOf(i) \cap TargetsOf(j) = {}
  /\ \A i \in DOMAIN Plan : \A t, u \in TargetsOf(i) \cap Writers : t = u
  /\ Archives \cap Images = {} /\ AsyncTargets \cap (Writers \cup Installers) = {}
  /\ Writers \cap Installers = {}
ASSUME NameAssumption == {"group", "finish"} \cap Packs = {} /\ \A S \in SUBSET Tasks : NoWait # S
ASSUME BoundAssumption == MaxFailures \in Nat

VARIABLES
  isConcurrent,  \* concurrency.jobs is at least the number of packs, or else 1
  cancelled,     \* the build's cancellation token
  main,          \* where doBuild is: its step, platform, the next pack, targets still to finish
  packs,         \* the pack() calls
  groups,        \* of each mixed pack: where its group is, and the sync targets to build
  work,          \* the state of each piece of work
  waits,         \* the work each waitForPackWork call waits for
  manager,       \* packAll's AsyncTaskManager
  pending,       \* promises it listens to that have not settled
  round,         \* what awaitTasks waits for, or NoWait
  queues,        \* the buildQueueManager of each target
  finishing,     \* the work each finishBuild waits for, or NoWait
  finalizers,    \* directories with a deferred task
  failures       \* so far

tasks == <<manager, pending, round>>
works == <<work, waits, queues>>
packing == <<packs, groups>>
ending == <<finishing, finalizers>>

vars == <<isConcurrent, cancelled, main, packing, works, tasks, ending, failures>>

MainSteps == {"packing", "pooling", "awaiting", "finishing", "finalizing", "resolved", "rejected"}
WorkSteps == {"new", "building", "waiting", "writing", "working", "done", "failed"}

TypeOK ==
  /\ isConcurrent \in BOOLEAN
  /\ cancelled \in BOOLEAN
  /\ main.step \in MainSteps /\ main.platform \in DOMAIN Plan
  /\ main.pack \in 1..(Len(Plan[main.platform].packs) + 1)
  /\ ToSet(main.syncTargets) \subseteq Targets \ AsyncTargets
  /\ packs \in [Packs -> {"new", "packing", "packed", "failed"}]
  /\ \A p \in Packs :
       /\ groups[p].at \in {"none", "images", "syncs", "ended"}
       /\ ToSet(groups[p].targets) \subseteq Targets \ AsyncTargets
  /\ work \in [Work -> WorkSteps]
  /\ waits \in [Work -> SUBSET Work]
  /\ manager \in Managers(Tasks)
  /\ pending \subseteq Tasks
  /\ round \in {NoWait} \cup SUBSET Tasks
  /\ queues \in [Targets -> Managers(Work)]
  /\ finishing \in [Targets -> {NoWait} \cup SUBSET Work]
  /\ finalizers \subseteq Packs
  /\ failures \in 0..MaxFailures

Init ==
  /\ isConcurrent \in BOOLEAN
  /\ cancelled = FALSE
  /\ main = [step |-> "packing", platform |-> 1, pack |-> 1, syncTargets |-> <<>>]
  /\ packs = [p \in Packs |-> "new"]
  /\ groups = [p \in Packs |-> [at |-> "none", targets |-> <<>>]]
  /\ work = [w \in Work |-> "new"]
  /\ waits = [w \in Work |-> {}]
  /\ manager = NewManager
  /\ pending = {}
  /\ round = NoWait
  /\ queues = [t \in Targets |-> NewManager]
  /\ finishing = [t \in Targets |-> NoWait]
  /\ finalizers = {}
  /\ failures = 0

Platform == Plan[main.platform]
Settled(w) == work[w] \in {"done", "failed"}
Fails == failures < MaxFailures /\ failures' = failures + 1

\* addTask of packAll's manager: with a cancelled token the promise runs unheard.
Add(S) ==
  IF cancelled THEN UNCHANGED <<manager, pending>>
  ELSE manager' = AddTasks(manager, S, {}) /\ pending' = pending \cup S

Settle(t, isOk) ==
  IF t \notin pending THEN UNCHANGED <<manager, pending>>
  ELSE manager' = SettleTask(manager, t, isOk) /\ pending' = pending \ {t}

-----------------------------------------------------------------------------
(* pack *)

StartPack ==
  /\ main.step = "packing" /\ ~cancelled
  /\ main.pack <= Len(Platform.packs)
  /\ main.pack > 1 /\ ~isConcurrent => packs[Platform.packs[main.pack - 1]] = "packed"
  /\ packs' = [packs EXCEPT ![Platform.packs[main.pack]] = "packing"]
  /\ main' = [main EXCEPT !.pack = @ + 1]
  /\ UNCHANGED <<isConcurrent, cancelled, groups, works, tasks, ending, failures>>

\* Mutant: the work of an archive is queued in a later turn than build().
BuildAsyncTargetsUnqueued(p, S) ==
  /\ work' = [w \in Work |->
       IF Len(w) = 2 /\ w[1] = p /\ TargetOf(w) \in S
         THEN IF TargetOf(w) \in Archives THEN "working" ELSE "building"
         ELSE work[w]]
  /\ UNCHANGED queues

\* build() of the targets S of a pack is called: the work of an archive is in the queue of its
\* target, and tracked, before build() returns.
BuildAsyncTargets(p, S) ==
  /\ work' = [w \in Work |->
       IF Len(w) = 2 /\ w[1] = p /\ TargetOf(w) \in S
         THEN IF TargetOf(w) \in Archives THEN "working" ELSE "building"
         ELSE work[w]]
  /\ queues' = [t \in Targets |->
       IF t \in S \cap Archives THEN AddTasks(queues[t], {<<p, t>>}, {}) ELSE queues[t]]

\* doPack has finished, or stopped at one of its checks of the token; either way
\* packageInDistributableFormat builds the targets, a mixed pack only in a build that goes on.
FinishPack(p) ==
  LET syncs == Plan[PlatformOf(p)].syncTargets
      asyncs == Plan[PlatformOf(p)].asyncTargets
  IN
  /\ packs[p] = "packing"
  /\ packs' = [packs EXCEPT ![p] = "packed"]
  /\ IF syncs = <<>>
       THEN /\ BuildAsyncTargets(p, asyncs)
            /\ Add({<<p, t>> : t \in asyncs \cap Images})
            /\ UNCHANGED groups
       ELSE IF cancelled
       THEN UNCHANGED <<work, queues, manager, pending, groups>>
       ELSE /\ BuildAsyncTargets(p, asyncs)
            /\ Add({<<"group", p>>})
            /\ groups' = [groups EXCEPT ![p] = [at |-> "images", targets |-> syncs]]
  /\ UNCHANGED <<isConcurrent, cancelled, main, waits, round, ending, failures>>

PackFails(p) ==
  /\ packs[p] = "packing"
  /\ packs' = [packs EXCEPT ![p] = "failed"]
  /\ Fails
  /\ UNCHANGED <<isConcurrent, cancelled, main, groups, works, tasks, ending>>

-----------------------------------------------------------------------------
(* The group of a mixed pack *)

SettleGroup(p, isOk) ==
  /\ groups' = [groups EXCEPT ![p].at = "ended"]
  /\ Settle(<<"group", p>>, isOk)

\* The sub task manager waits for the builds of the async targets.
EndImages(p) ==
  /\ groups[p].at = "images"
  /\ \A t \in Images : <<p, t>> \in Work => Settled(<<p, t>>)
  /\ IF \E t \in Images : <<p, t>> \in Work /\ work[<<p, t>>] = "failed"
       THEN SettleGroup(p, FALSE)
       ELSE groups' = [groups EXCEPT ![p].at = "syncs"] /\ UNCHANGED <<manager, pending>>
  /\ UNCHANGED <<isConcurrent, cancelled, main, packs, works, round, ending, failures>>

\* The next sync target: build() of an installer only records the directory.
BuildSyncTarget(p) ==
  /\ groups[p].at = "syncs"
  /\ groups[p].targets # <<>>
  /\ LET t == Head(groups[p].targets) IN
       /\ t \in Writers => work[<<p, t>>] = "new"
       /\ IF cancelled \/ t \in Installers
            THEN groups' = [groups EXCEPT ![p].targets = Tail(@)] /\ UNCHANGED work
            ELSE work' = [work EXCEPT ![<<p, t>>] = "building"] /\ UNCHANGED groups
  /\ UNCHANGED <<isConcurrent, cancelled, main, packs, waits, queues, tasks, ending, failures>>

EndGroup(p) ==
  /\ groups[p].at = "syncs" /\ groups[p].targets = <<>>
  /\ SettleGroup(p, TRUE)
  /\ UNCHANGED <<isConcurrent, cancelled, main, packs, works, round, ending, failures>>

\* Mutant: what the queue of this target still does is all a writer waits for.
TrackedOfQueue(w) == {v \in Work : TargetOf(v) = TargetOf(w) /\ work[v] = "working"}

\* The tracked work on the directory of w.
Tracked(w) == {v \in Work : TargetOf(v) \in Archives /\ v[1] = w[1] /\ work[v] = "working"}

\* waitForPackWork, after other awaits of build().
WaitForPackWork(w) ==
  /\ TargetOf(w) \in Writers /\ work[w] = "building"
  /\ work' = [work EXCEPT ![w] = "waiting"]
  /\ waits' = [waits EXCEPT ![w] = Tracked(w)]
  /\ UNCHANGED <<isConcurrent, cancelled, main, packing, queues, tasks, ending, failures>>

StartWriting(w) ==
  /\ work[w] = "waiting"
  /\ \A v \in waits[w] : Settled(v)
  /\ work' = [work EXCEPT ![w] = "writing"]
  /\ UNCHANGED <<isConcurrent, cancelled, main, packing, waits, queues, tasks, ending, failures>>

\* The directory is written, the rest is queued, and build() resolves: the group goes on.
EndWriting(w) ==
  /\ work[w] = "writing"
  /\ work' = [work EXCEPT ![w] = "working"]
  /\ queues' = [queues EXCEPT ![TargetOf(w)] = AddTasks(@, {w}, {})]
  /\ groups' = [groups EXCEPT ![w[1]].targets = Tail(@)]
  /\ UNCHANGED <<isConcurrent, cancelled, main, packs, waits, tasks, ending, failures>>

\* build() of a writer throws before it has queued anything, and the group with it.
WriterFails(w) ==
  /\ TargetOf(w) \in Writers /\ work[w] \in {"building", "writing"}
  /\ work' = [work EXCEPT ![w] = "failed"]
  /\ SettleGroup(w[1], FALSE)
  /\ Fails
  /\ UNCHANGED <<isConcurrent, cancelled, main, packs, waits, queues, round, ending>>

-----------------------------------------------------------------------------
(* Work that reads directories *)

IsReading(w) ==
  work[w] = "working" \/ (TargetOf(w) \in Images /\ work[w] = "building")

\* The promise of w settles where it was put: the queue of its target, or the task manager.
SettleWork(w, isOk) ==
  /\ work' = [work EXCEPT ![w] = IF isOk THEN "done" ELSE "failed"]
  /\ queues' = [queues EXCEPT ![TargetOf(w)] =
       IF TargetOf(w) \in Archives \cup Writers THEN SettleTask(@, w, isOk) ELSE @]
  /\ Settle(w, isOk)

\* Its artifact is announced.  An installer leaves a deferred task for its directories.
EndWork(w) ==
  /\ IsReading(w)
  /\ SettleWork(w, TRUE)
  /\ finalizers' = IF TargetOf(w) \in Installers THEN finalizers \cup DirsOf(w) ELSE finalizers
  /\ UNCHANGED <<isConcurrent, cancelled, main, packing, waits, round, finishing, failures>>

WorkFails(w) ==
  /\ IsReading(w)
  /\ SettleWork(w, FALSE)
  /\ Fails
  /\ UNCHANGED <<isConcurrent, cancelled, main, packing, waits, round, ending>>

-----------------------------------------------------------------------------
(* finishBuild of the targets with a queue *)

\* The queue's own token is never cancelled.
FinishCall(t) == OnCall(queues[t], FALSE)

EndFinish(t) ==
  /\ finishing[t] # NoWait
  /\ \A w \in finishing[t] : Settled(w)
  /\ LET decision == OnRoundEnd(queues[t], FALSE) IN
       /\ queues' = [queues EXCEPT ![t] = After(@, decision)]
       /\ finishing' = [finishing EXCEPT ![t] =
            IF decision = "waiting" THEN queues[t].tasks ELSE NoWait]
       /\ IF decision = "waiting" THEN UNCHANGED <<manager, pending, main>>
          ELSE IF t \in AsyncTargets
          THEN Settle(<<"finish", t>>, decision = "resolved") /\ UNCHANGED main
          ELSE /\ main' = IF decision = "resolved" THEN [main EXCEPT !.syncTargets = Tail(@)]
                          ELSE [main EXCEPT !.step = "rejected"]
               /\ UNCHANGED <<manager, pending>>
  /\ UNCHANGED <<isConcurrent, cancelled, packing, work, waits, round, finalizers, failures>>

-----------------------------------------------------------------------------
(* doBuild *)

PacksStarted == {Platform.packs[k] : k \in 1..(main.pack - 1)}

Rejects ==
  /\ main' = [main EXCEPT !.step = "rejected"]
  /\ UNCHANGED <<isConcurrent, cancelled, packing, works, tasks, ending, failures>>

\* A pack that is awaited has failed.
BuildFails ==
  /\ \/ main.step = "packing" /\ ~isConcurrent
     \/ main.step = "pooling"
  /\ \E p \in PacksStarted : packs[p] = "failed"
  /\ Rejects

HasPacked == main.pack > Len(Platform.packs) \/ cancelled

\* asyncPool looks at the token when it is called, which it is in the turn the loop ends.
StartPool ==
  /\ main.step = "packing" /\ isConcurrent
  /\ HasPacked /\ ~cancelled
  /\ main' = [main EXCEPT !.step = "pooling"]
  /\ UNCHANGED <<isConcurrent, cancelled, packing, works, tasks, ending, failures>>

\* Mutant: the pool is not awaited.
IsPlatformPackedAtOnce == main.step \in {"packing", "pooling"} /\ HasPacked

IsPlatformPacked ==
  \/ main.step = "packing" /\ isConcurrent /\ cancelled
  \/ /\ main.step = "packing" /\ ~isConcurrent /\ HasPacked
     /\ \A p \in PacksStarted : packs[p] = "packed"
  \/ main.step = "pooling" /\ \A p \in PacksStarted : packs[p] = "packed"

\* finishBuild of the async targets S is called; it resolves at once for those without queued work.
FinishAsyncTargets(S) ==
  LET waiting == {t \in S : FinishCall(t) = "waiting"}
      failed == {t \in S : FinishCall(t) = "rejected"}
  IN /\ finishing' = [t \in Targets |-> IF t \in waiting THEN queues[t].tasks ELSE finishing[t]]
     /\ queues' = [t \in Targets |-> IF t \in S THEN After(queues[t], FinishCall(t)) ELSE queues[t]]
     /\ pending' = pending \cup {<<"finish", t>> : t \in waiting}
     /\ manager' = [AddTasks(manager, {<<"finish", t>> : t \in S}, {})
                    EXCEPT !.errors = @ \cup {<<"finish", t>> : t \in failed}]

IsLastPlatform == main.platform = Len(Plan)

EndPlatform ==
  /\ IsPlatformPacked
  /\ IF cancelled
       THEN /\ main' = [main EXCEPT !.step = "awaiting"]
            /\ UNCHANGED <<queues, manager, pending, finishing>>
       ELSE /\ FinishAsyncTargets(Platform.asyncTargets)
            /\ main' =
                 [step |-> IF IsLastPlatform THEN "awaiting" ELSE "packing",
                  platform |-> IF IsLastPlatform THEN main.platform ELSE main.platform + 1,
                  pack |-> 1,
                  syncTargets |-> main.syncTargets \o Platform.syncTargets]
  /\ UNCHANGED <<isConcurrent, cancelled, packing, work, waits, round, finalizers, failures>>

ContinueWait(decision) ==
  /\ manager' = After(manager, decision)
  /\ round' = IF decision = "waiting" THEN manager.tasks ELSE NoWait
  /\ main' = [main EXCEPT !.step = CASE decision = "waiting" -> "awaiting"
                                     [] decision = "rejected" -> "rejected"
                                     [] OTHER -> "finishing"]
  /\ UNCHANGED <<isConcurrent, cancelled, packing, works, pending, ending, failures>>

AwaitTasks ==
  /\ main.step = "awaiting" /\ round = NoWait
  /\ ContinueWait(OnCall(manager, cancelled))

EndRound ==
  /\ main.step = "awaiting" /\ round # NoWait
  /\ round \cap pending = {}
  /\ ContinueWait(OnRoundEnd(manager, cancelled))

\* Mutant: only installers are awaited, not the queues of the other sync targets.
FinishInstallersOnly ==
  /\ main.step = "finishing" /\ main.syncTargets # <<>> /\ ~cancelled
  /\ LET t == Head(main.syncTargets) IN
       IF t \in Installers
         THEN /\ work[<<t>>] = "new"
              /\ work' = [work EXCEPT ![<<t>>] = "working"]
              /\ UNCHANGED main
         ELSE main' = [main EXCEPT !.syncTargets = Tail(@)] /\ UNCHANGED work
  /\ UNCHANGED <<isConcurrent, cancelled, packing, waits, queues, tasks, ending, failures>>

\* finishBuild of the next sync target: an installer is built now, a queue is awaited.
FinishSyncTarget ==
  /\ main.step = "finishing" /\ main.syncTargets # <<>> /\ ~cancelled
  /\ LET t == Head(main.syncTargets) IN
       /\ finishing[t] = NoWait
       /\ IF t \in Installers
            THEN /\ work[<<t>>] = "new"
                 /\ work' = [work EXCEPT ![<<t>>] = "working"]
                 /\ UNCHANGED <<queues, finishing, main>>
            ELSE /\ queues' = [queues EXCEPT ![t] = After(@, FinishCall(t))]
                 /\ CASE FinishCall(t) = "waiting" ->
                           finishing' = [finishing EXCEPT ![t] = queues[t].tasks] /\ UNCHANGED main
                      [] FinishCall(t) = "resolved" ->
                           main' = [main EXCEPT !.syncTargets = Tail(@)] /\ UNCHANGED finishing
                      [] OTHER ->
                           main' = [main EXCEPT !.step = "rejected"] /\ UNCHANGED finishing
                 /\ UNCHANGED work
  /\ UNCHANGED <<isConcurrent, cancelled, packing, waits, tasks, finalizers, failures>>

\* The installer that was awaited is built, or has failed.
EndInstaller ==
  /\ main.step = "finishing" /\ main.syncTargets # <<>>
  /\ LET t == Head(main.syncTargets) IN
       /\ t \in Installers /\ Settled(<<t>>)
       /\ main' = IF work[<<t>>] = "done" THEN [main EXCEPT !.syncTargets = Tail(@)]
                  ELSE [main EXCEPT !.step = "rejected"]
  /\ UNCHANGED <<isConcurrent, cancelled, packing, works, tasks, ending, failures>>

EndSyncTargets ==
  /\ main.step = "finishing"
  /\ main.syncTargets # <<>> =>
       LET t == Head(main.syncTargets)
       IN cancelled /\ finishing[t] = NoWait /\ (t \in Installers => work[<<t>>] = "new")
  /\ main' = [main EXCEPT !.step = "finalizing"]
  /\ UNCHANGED <<isConcurrent, cancelled, packing, works, tasks, ending, failures>>

\* A deferred task writes into its directory.
Finalize(p) ==
  /\ main.step = "finalizing" /\ ~cancelled
  /\ p \in finalizers
  /\ finalizers' = finalizers \ {p}
  /\ UNCHANGED <<isConcurrent, cancelled, main, packing, works, tasks, finishing, failures>>

EndBuild ==
  /\ main.step = "finalizing"
  /\ finalizers = {} \/ cancelled
  /\ main' = [main EXCEPT !.step = "resolved"]
  /\ UNCHANGED <<isConcurrent, cancelled, packing, works, tasks, ending, failures>>

Cancel ==
  /\ ~cancelled /\ main.step \notin {"resolved", "rejected"}
  /\ cancelled' = TRUE
  /\ UNCHANGED <<isConcurrent, main, packing, works, tasks, ending, failures>>

Ended == main.step \in {"resolved", "rejected"} /\ UNCHANGED vars

-----------------------------------------------------------------------------
Main ==
  \/ StartPack \/ BuildFails \/ StartPool \/ EndPlatform
  \/ AwaitTasks \/ EndRound
  \/ FinishSyncTarget \/ EndInstaller \/ EndSyncTargets
  \/ (\E p \in Packs : Finalize(p)) \/ EndBuild

PackStep(p) == FinishPack(p) \/ PackFails(p) \/ EndImages(p) \/ BuildSyncTarget(p) \/ EndGroup(p)

WorkStep(w) ==
  \/ WaitForPackWork(w) \/ StartWriting(w) \/ EndWriting(w) \/ WriterFails(w)
  \/ EndWork(w) \/ WorkFails(w)

Next ==
  \/ Main
  \/ \E p \in Packs : PackStep(p)
  \/ \E w \in Work : WorkStep(w)
  \/ \E t \in Targets : EndFinish(t)
  \/ Cancel
  \/ Ended

\* Every tool that is run and every file operation ends, and the event loop runs.
Fairness ==
  /\ WF_vars(Main)
  /\ \A p \in Packs : WF_vars(PackStep(p))
  /\ \A w \in Work : WF_vars(WorkStep(w))
  /\ \A t \in Targets : WF_vars(EndFinish(t))

Spec == Init /\ [][Next]_vars /\ Fairness

-----------------------------------------------------------------------------
(* Properties *)

\* While somebody writes into an app directory, the packer or a target that was told to wait
\* (waitForPackWork), no other target reads it.
NoReadDuringWrite ==
  \A w \in Work : work[w] = "writing" =>
    \A v \in Work : IsReading(v) => DirsOf(v) \cap DirsOf(w) = {}

\* When a deferred task writes into a directory, every target has finished reading it
\* (doBuild; addToArchive relies on it for elevate.exe).
FinalizeAfterReaders ==
  [][ \A p \in Packs : Finalize(p) => \A w \in Work : p \in DirsOf(w) => work[w] = "done" ]_vars

\* finishBuild of a target is called when build() has been called for all its packs, and then it
\* waits for all that they have queued: none of it is left when finishBuild has resolved.
FinishCoversBuilds ==
  /\ TypeOK
  /\ \A t \in Archives : main.step = "finishing" /\ ~cancelled =>
       \A w \in Work : TargetOf(w) = t => work[w] = "done"

Promise == INSTANCE Packager WITH
  Artifacts <- Work,
  phase <- IF main.step \in {"resolved", "rejected"} THEN main.step ELSE "building",
  emitted <- {w \in Work : work[w] = "done"}

\* The build implements what PublishManager relies on: it resolves without a cancel only when
\* every artifact of the plan has been announced, announces nothing after that, and comes to an
\* end whatever fails and whenever it is cancelled.
ImplementsPackager == Promise!Spec
=============================================================================
