----------------------------- MODULE Publishing -----------------------------
(***************************************************************************)
(* build() of app-builder-lib with its PublishManager, for a packager that *)
(* behaves as Packager says (BuildPipeline does): an artifact is uploaded  *)
(* to every publish configuration as soon as it is announced, while the    *)
(* build goes on; the update info files, which name the artifacts, are     *)
(* written and uploaded in the end.  A GitHub publisher looks for its      *)
(* release, or makes it, before its first upload; its uploads are retried  *)
(* and replace what an earlier build has left under the same name.         *)
(***************************************************************************)
EXTENDS TaskManager, SequencesExt, Integers

CONSTANTS
  Artifacts,    \* what the packager announces
  Updatable,    \* those with update info (isWriteUpdateInfo)
  Extra,        \* the artifact of the afterAllArtifactBuild hook, if it returns one
  ConfigList,   \* the publish configurations, in order
  GitHub,       \* those of GitHub's kind; an upload to another one is a single request
  MaxAttempts,  \* of doUploadFile: 3
  MaxFailures,  \* bound: operations that fail
  NoWait

Configs == ToSet(ConfigList)

ASSUME ArtifactsAssumption ==
  Updatable \subseteq Artifacts /\ Extra \notin Artifacts /\ (Artifacts \cup {Extra}) \cap Configs = {}
ASSUME ConfigsAssumption == ConfigList \in Seq(Configs) /\ GitHub \subseteq Configs
ASSUME BoundsAssumption == MaxAttempts \in Nat /\ MaxFailures \in Nat

\* The update info file of a configuration goes by its configuration.
Info(c) == c

\* What schedules uploads: the handler of each artifact, build() itself for Extra, and the event
\* handler of each update info file.
Schedulers == Artifacts \cup {Extra} \cup {Info(c) : c \in Configs}

Uploads == (Artifacts \cup {Extra}) \X Configs \cup {<<Info(c), c>> : c \in Configs}
Handle(a) == <<"handle", a>>
CreateInfo(a) == <<"createInfo", a>>
Tasks == Uploads \cup {Handle(a) : a \in Artifacts} \cup {CreateInfo(a) : a \in Updatable}

ASSUME NamesAssumption ==
  {"handle", "createInfo"} \cap Schedulers = {} /\ \A S \in SUBSET Tasks : NoWait # S

VARIABLES
  phase, emitted, cancelled,  \* of the packager
  isPublish,        \* whether artifacts are uploaded at all
  isListening,      \* the packager's event listeners are registered
  step,             \* where build() is
  schedulers,       \* of each one: where it is, the configurations to go, the publisher it awaits
  publishers,       \* those ever created for a configuration, with the release of GitHub's (_release)
  nameToPublisher,  \* the cached one, an index, or 0
  infos,            \* updateFileWriteTask: the artifacts in the update info files
  manager,          \* the PublishManager's AsyncTaskManager
  pending,          \* promises it listens to that have not settled
  round,            \* what awaitTasks waits for, or NoWait
  uploads,          \* where each upload is and its attemptNumber
  assets,           \* what the server has under its name: nothing, an earlier file or this one
  release,          \* of the version on GitHub: "none", "open" to uploads, or "double", two of them;
                    \* "withheld": its type or its age forbids uploads, or none may be made
  failures          \* so far

packager == <<phase, emitted, cancelled>>
caching == <<publishers, nameToPublisher>>
tasks == <<manager, pending, round>>
server == <<uploads, assets, release>>
vars == <<packager, isPublish, isListening, step, schedulers, caching, infos, tasks, server, failures>>

Build == INSTANCE Packager

Steps == {"building", "hook", "awaiting", "signing", "writing", "awaitingInfo", "succeeded", "failed"}

\* A publisher that was created, until its release is known.
Unsettled == {"created", "looking", "making"}
Created == Unsettled \cup {"found", "skipped", "unfound"}

TypeOK ==
  /\ phase \in {"building", "resolved", "rejected"}
  /\ emitted \subseteq Artifacts
  /\ {cancelled, isPublish, isListening} \subseteq BOOLEAN
  /\ step \in Steps
  /\ \A s \in Schedulers :
       /\ schedulers[s].at \in {"idle", "resolving", "scheduling", "creating", "ended", "failed"}
       /\ IsSuffix(schedulers[s].todo, ConfigList) \/ schedulers[s].todo \in {<<c>> : c \in Configs}
       /\ schedulers[s].at = "creating" =>
            schedulers[s].publisher \in DOMAIN publishers[Head(schedulers[s].todo)]
  /\ \A c \in Configs :
       /\ ToSet(publishers[c]) \subseteq {"creating", "null", "failed"} \cup Created
       /\ nameToPublisher[c] \in 0..Len(publishers[c])
  /\ infos \subseteq Updatable
  /\ manager \in Managers(Tasks)
  /\ pending \subseteq Tasks
  /\ round \in {NoWait} \cup SUBSET Tasks
  /\ uploads \in [Uploads -> [at : {"new", "awaitingRelease", "sending", "overwriting", "delaying",
                                    "done", "failed"},
                              attempt : 0..(MaxAttempts + 1), publisher : Nat]]
  /\ assets \in [Uploads -> {"none", "old", "new"}]
  /\ release \in [GitHub -> {"none", "open", "withheld", "double"}]
  /\ failures \in 0..MaxFailures

\* On GitHub an earlier build may have left a release and files in it.
Init ==
  /\ Build!Init
  /\ isPublish \in BOOLEAN
  /\ isListening = TRUE
  /\ step = "building"
  /\ schedulers = [s \in Schedulers |-> [at |-> "idle", todo |-> <<>>, publisher |-> 0]]
  /\ publishers = [c \in Configs |-> <<>>]
  /\ nameToPublisher = [c \in Configs |-> 0]
  /\ infos = {}
  /\ manager = NewManager
  /\ pending = {}
  /\ round = NoWait
  /\ uploads = [u \in Uploads |-> [at |-> "new", attempt |-> 0, publisher |-> 0]]
  /\ release \in [GitHub -> {"none", "open", "withheld"}]
  /\ assets = [u \in Uploads |->
       IF u[2] \in GitHub /\ release[u[2]] = "open" THEN "old" ELSE "none"]
  /\ failures = 0

Fails == failures < MaxFailures /\ failures' = failures + 1

\* addTask: with a cancelled token the promise runs unheard.
AddTask(t) ==
  IF cancelled THEN UNCHANGED <<manager, pending>>
  ELSE manager' = AddTasks(manager, {t}, {}) /\ pending' = pending \cup {t}

Settle(t, isOk) ==
  IF t \notin pending THEN UNCHANGED <<manager, pending>>
  ELSE manager' = SettleTask(manager, t, isOk) /\ pending' = pending \ {t}

\* PublishManager.cancelTasks of a build that has failed: what runs goes on.
CancelPublishing ==
  /\ manager' = CancelTasks(manager)
  /\ nameToPublisher' = [c \in Configs |-> 0]

-----------------------------------------------------------------------------
(* The handler of an artifact, and the other schedulers of uploads *)

Move(s, at) == schedulers' = [schedulers EXCEPT ![s].at = at]

\* onArtifactCreated, as long as its listeners are registered.
Emit(a) ==
  /\ Build!Emit(a)
  /\ IF isListening
       THEN Move(a, "resolving") /\ AddTask(Handle(a))
       ELSE UNCHANGED <<schedulers, manager, pending>>
  /\ UNCHANGED <<isPublish, isListening, step, caching, infos, round, server, failures>>

\* The publish configurations of the artifact are known.
Resolved(a) ==
  /\ a \in Artifacts /\ schedulers[a].at = "resolving"
  /\ schedulers' = [schedulers EXCEPT ![a].at = "scheduling",
                                      ![a].todo = IF isPublish THEN ConfigList ELSE <<>>]
  /\ UNCHANGED <<packager, isPublish, isListening, step, caching, infos, tasks, server, failures>>

\* Its configurations or its keys cannot be resolved.
ResolvingFails(a) ==
  /\ a \in Artifacts /\ schedulers[a].at = "resolving"
  /\ Move(a, "failed")
  /\ Settle(Handle(a), FALSE)
  /\ Fails
  /\ UNCHANGED <<packager, isPublish, isListening, step, caching, infos, round, server>>

\* Only the handlers of artifacts look at the token between two configurations.
GoesOn(s) == schedulers[s].todo # <<>> /\ (s \in Artifacts => ~cancelled)

\* Mutant: the promise of a publisher is cached when it has resolved.
GetOrCreatePublisherLate(c) ==
  IF nameToPublisher[c] # 0 /\ publishers[c][nameToPublisher[c]] # "creating"
    THEN UNCHANGED caching
    ELSE /\ publishers' = [publishers EXCEPT ![c] = Append(@, "creating")]
         /\ nameToPublisher' = [nameToPublisher EXCEPT ![c] = Len(publishers[c]) + 1]

GetOrCreatePublisher(c) ==
  IF nameToPublisher[c] # 0 THEN UNCHANGED caching
  ELSE /\ publishers' = [publishers EXCEPT ![c] = Append(@, "creating")]
       /\ nameToPublisher' = [nameToPublisher EXCEPT ![c] = Len(publishers[c]) + 1]

\* scheduleUpload
Schedule(s) ==
  /\ schedulers[s].at = "scheduling" /\ GoesOn(s)
  /\ LET c == Head(schedulers[s].todo) IN
       /\ GetOrCreatePublisher(c)
       /\ schedulers' = [schedulers EXCEPT ![s].at = "creating", ![s].publisher = nameToPublisher'[c]]
  /\ UNCHANGED <<packager, isPublish, isListening, step, infos, tasks, server, failures>>

PublisherOf(s) == publishers[Head(schedulers[s].todo)][schedulers[s].publisher]

\* Where an upload goes from a publisher whose release is p: without one it has nothing to do.
AtRelease(p) == CASE p = "found" -> "sending" [] p = "skipped" -> "done" [] p = "unfound" -> "failed"

\* The publisher is there: upload() is called, unless there is none for this configuration.  With a
\* cancelled token its first request rejects, unheard.
Upload(s) ==
  /\ schedulers[s].at = "creating" /\ PublisherOf(s) \in Created \cup {"null"}
  /\ schedulers' = [schedulers EXCEPT ![s].at = "scheduling", ![s].todo = Tail(@)]
  /\ LET c == Head(schedulers[s].todo)
         u == <<s, c>>
         p == PublisherOf(s)
         UploadGoes(at) == uploads' = [uploads EXCEPT ![u].at = at]
     IN \/ /\ p = "null"
           /\ UNCHANGED <<publishers, uploads, manager, pending>>
        \/ /\ p # "null" /\ cancelled
           /\ UploadGoes("failed")
           /\ UNCHANGED <<publishers, manager, pending>>
        \/ /\ p # "null" /\ ~cancelled /\ c \notin GitHub
           /\ UploadGoes("sending")
           /\ AddTask(u)
           /\ UNCHANGED publishers
        \/ /\ p \in Unsettled /\ ~cancelled /\ c \in GitHub
           /\ publishers' = [publishers EXCEPT ![c][schedulers[s].publisher] =
                               IF p = "created" THEN "looking" ELSE p]
           /\ uploads' = [uploads EXCEPT ![u].at = "awaitingRelease",
                                         ![u].publisher = schedulers[s].publisher]
           /\ AddTask(u)
        \/ /\ p \in {"found", "skipped", "unfound"} /\ ~cancelled
           /\ UploadGoes(AtRelease(p))
           /\ manager' = SettleTask(AddTasks(manager, {u}, {}), u, p # "unfound")
           /\ pending' = IF p = "found" THEN pending \cup {u} ELSE pending
           /\ UNCHANGED publishers
  /\ UNCHANGED <<packager, isPublish, isListening, step, nameToPublisher, infos, round, assets,
                 release, failures>>

UploadFails(s) ==
  /\ schedulers[s].at = "creating" /\ PublisherOf(s) = "failed"
  /\ Move(s, "failed")
  /\ IF s \in Artifacts THEN Settle(Handle(s), FALSE) ELSE UNCHANGED <<manager, pending>>
  /\ UNCHANGED <<packager, isPublish, isListening, step, caching, infos, round, server, failures>>

\* The handler of an artifact ends with the task that computes its update info.
EndSchedule(s) ==
  /\ schedulers[s].at = "scheduling" /\ ~GoesOn(s)
  /\ Move(s, "ended")
  /\ IF s \in Artifacts /\ ~cancelled
       THEN LET info == {CreateInfo(s)} \cap Tasks IN
            /\ manager' = SettleTask(AddTasks(manager, info, {}), Handle(s), TRUE)
            /\ pending' = (pending \cup info) \ {Handle(s)}
       ELSE IF s \in Artifacts THEN Settle(Handle(s), TRUE) ELSE UNCHANGED <<manager, pending>>
  /\ UNCHANGED <<packager, isPublish, isListening, step, caching, infos, round, server, failures>>

\* The update info of an artifact is computed, or not.  With electronUpdaterCompatibility below 2
\* the task also writes and announces a -mac.json for the first clients, in the first phase: left
\* out.
EndCreateInfo(a) ==
  /\ CreateInfo(a) \in pending
  /\ \/ infos' = infos \cup {a} /\ Settle(CreateInfo(a), TRUE) /\ UNCHANGED failures
     \/ UNCHANGED infos /\ Settle(CreateInfo(a), FALSE) /\ Fails
  /\ UNCHANGED <<packager, isPublish, isListening, step, schedulers, caching, round, server>>

-----------------------------------------------------------------------------
(* Publishers *)

\* createPublisher resolves, with null for a provider that is not to be published to.  Whether
\* it is depends on the configuration and the environment only.
PublisherCreated(c, n) ==
  /\ publishers[c][n] = "creating"
  /\ \E p \in {"created", "null"} :
       /\ \A k \in DOMAIN publishers[c] :
            publishers[c][k] \in {"creating", "failed"} \cup (IF p = "null" THEN {p} ELSE Created)
       /\ publishers' = [publishers EXCEPT ![c][n] = p]
  /\ UNCHANGED <<packager, isPublish, isListening, step, schedulers, nameToPublisher, infos, tasks,
                 server, failures>>

\* It rejects, and the configuration's entry is deleted, whichever publisher it holds by now.
PublisherFails(c, n) ==
  /\ publishers[c][n] = "creating"
  /\ publishers' = [publishers EXCEPT ![c][n] = "failed"]
  /\ nameToPublisher' = [nameToPublisher EXCEPT ![c] = 0]
  /\ Fails
  /\ UNCHANGED <<packager, isPublish, isListening, step, schedulers, infos, tasks, server>>

-----------------------------------------------------------------------------
(* The release of a GitHub publisher, a Lazy: asked for by the first upload, and once *)

\* The promise settles: all uploads that wait for it go on.
SettleRelease(c, n, p) ==
  LET waiting == {u \in Uploads : u[2] = c /\ uploads[u].at = "awaitingRelease"
                                           /\ uploads[u].publisher = n}
  IN /\ publishers' = [publishers EXCEPT ![c][n] = p]
     /\ uploads' = [u \in Uploads |->
          IF u \in waiting THEN [uploads[u] EXCEPT !.at = AtRelease(p), !.publisher = 0]
          ELSE uploads[u]]
     /\ manager' = IF p = "unfound" THEN [manager EXCEPT !.errors = @ \cup (waiting \cap pending)]
                   ELSE manager
     /\ pending' = IF p = "found" THEN pending ELSE pending \ waiting

\* getOrCreateRelease has the list of releases, of which it asks for the first page only: a release
\* of this tag is taken to be on it.
FindRelease(c, n) ==
  /\ publishers[c][n] = "looking"
  /\ IF release[c] = "none"
       THEN /\ publishers' = [publishers EXCEPT ![c][n] = "making"]
            /\ UNCHANGED <<uploads, manager, pending>>
       ELSE SettleRelease(c, n, IF release[c] = "withheld" THEN "skipped" ELSE "found")
  /\ UNCHANGED <<packager, isPublish, isListening, step, schedulers, nameToPublisher, infos, round,
                 assets, release, failures>>

\* createRelease on the servers of these configurations, which do not mind another one.
MadeOnServer(C) ==
  [c \in GitHub |-> IF c \notin C THEN release[c] ELSE IF release[c] = "none" THEN "open" ELSE "double"]

MakeRelease(c, n) ==
  /\ publishers[c][n] = "making"
  /\ SettleRelease(c, n, "found")
  /\ release' = MadeOnServer({c})
  /\ UNCHANGED <<packager, isPublish, isListening, step, schedulers, nameToPublisher, infos, round,
                 assets, failures>>

\* Either request fails, or the release is made and the answer gets lost.
ReleaseFails(c, n) ==
  /\ publishers[c][n] \in {"looking", "making"}
  /\ SettleRelease(c, n, "unfound")
  /\ release' \in {release} \cup (IF publishers[c][n] = "making" THEN {MadeOnServer({c})} ELSE {})
  /\ Fails
  /\ UNCHANGED <<packager, isPublish, isListening, step, schedulers, nameToPublisher, infos, round,
                 assets>>

-----------------------------------------------------------------------------
(* An upload *)

IsLastAttempt(u) == u[2] \notin GitHub \/ uploads[u].attempt > MaxAttempts

\* A failed attempt: given up, or to go on as `next`.
Catch(u, next) ==
  IF IsLastAttempt(u)
    THEN uploads' = [uploads EXCEPT ![u].at = "failed"] /\ Settle(u, FALSE)
    ELSE uploads' = [uploads EXCEPT ![u].at = next] /\ UNCHANGED <<manager, pending>>

\* The server has nothing under that name, stores the file and says so.
Send(u) ==
  /\ uploads[u].at = "sending"
  /\ assets[u] = "none"
  /\ assets' = [assets EXCEPT ![u] = "new"]
  /\ uploads' = [uploads EXCEPT ![u].at = "done"]
  /\ Settle(u, TRUE)
  /\ UNCHANGED <<packager, isPublish, isListening, step, schedulers, caching, infos, round, release,
                 failures>>

\* It refuses to replace what it has.
SendIsRefused(u) ==
  /\ uploads[u].at = "sending"
  /\ assets[u] # "none"
  /\ Catch(u, "overwriting")
  /\ UNCHANGED <<packager, isPublish, isListening, step, schedulers, caching, infos, round, assets,
                 release, failures>>

\* The request does not reach the server, or its answer gets lost.
SendFails(u) ==
  /\ uploads[u].at = "sending"
  /\ \/ UNCHANGED assets
     \/ assets[u] = "none" /\ assets' = [assets EXCEPT ![u] = "new"]
  /\ Catch(u, "delaying")
  /\ Fails
  /\ UNCHANGED <<packager, isPublish, isListening, step, schedulers, caching, infos, round, release>>

\* Mutant: a file that exists already counts as uploaded.
OverwriteNothing(u) ==
  /\ uploads[u].at = "overwriting"
  /\ uploads' = [uploads EXCEPT ![u].at = "done"]
  /\ Settle(u, TRUE)
  /\ UNCHANGED <<packager, isPublish, isListening, step, schedulers, caching, infos, round, assets,
                 release, failures>>

\* overwriteArtifact deletes the old file, and the upload is tried again.
Overwrite(u) ==
  /\ uploads[u].at = "overwriting"
  /\ assets' = [assets EXCEPT ![u] = "none"]
  /\ uploads' = [uploads EXCEPT ![u].at = "sending", ![u].attempt = @ + 1]
  /\ UNCHANGED <<packager, isPublish, isListening, step, schedulers, caching, infos, tasks, release,
                 failures>>

\* An error of these requests is not caught.
OverwriteFails(u) ==
  /\ uploads[u].at = "overwriting"
  /\ \E asset \in {"none", assets[u]} : assets' = [assets EXCEPT ![u] = asset]
  /\ uploads' = [uploads EXCEPT ![u].at = "failed"]
  /\ Settle(u, FALSE)
  /\ Fails
  /\ UNCHANGED <<packager, isPublish, isListening, step, schedulers, caching, infos, round, release>>

EndDelay(u) ==
  /\ uploads[u].at = "delaying"
  /\ uploads' = [uploads EXCEPT ![u].at = "sending", ![u].attempt = @ + 1]
  /\ UNCHANGED <<packager, isPublish, isListening, step, schedulers, caching, infos, tasks, assets,
                 release, failures>>

-----------------------------------------------------------------------------
(* build() *)

Ends(s) == step' = s /\ isListening' = FALSE

\* packager.build() has resolved, cancelled or not.
StartHook ==
  /\ step = "building" /\ Build!Resolve
  /\ step' = "hook"
  /\ UNCHANGED <<isPublish, isListening, schedulers, caching, infos, tasks, server, failures>>

BuildFails ==
  /\ step = "building" /\ Build!Reject
  /\ Ends("failed")
  /\ CancelPublishing
  /\ Fails
  /\ UNCHANGED <<isPublish, schedulers, publishers, infos, pending, round, server>>

\* The hook has returned another artifact.
HookReturns ==
  /\ step = "hook" /\ schedulers[Extra].at = "idle" /\ isPublish
  /\ schedulers' = [schedulers EXCEPT ![Extra].at = "scheduling", ![Extra].todo = ConfigList]
  /\ UNCHANGED <<packager, isPublish, isListening, step, caching, infos, tasks, server, failures>>

\* There is no hook, it has returned nothing new, or its artifact is scheduled.
EndHook ==
  /\ step = "hook" /\ schedulers[Extra].at \in {"idle", "ended"}
  /\ step' = "awaiting"
  /\ UNCHANGED <<packager, isPublish, isListening, schedulers, caching, infos, tasks, server, failures>>

\* The hook throws, or a publisher for its artifact could not be created.
HookFails ==
  /\ step = "hook"
  /\ \/ schedulers[Extra].at = "failed" /\ UNCHANGED failures
     \/ schedulers[Extra].at = "idle" /\ Fails
  /\ Ends("failed")
  /\ CancelPublishing
  /\ UNCHANGED <<packager, isPublish, schedulers, publishers, infos, pending, round, server>>

\* What PublishManager.awaitTasks does after a decision of the task manager's awaitTasks.  When
\* it rejects, build() does, with its listeners still registered.
Continue(decision) ==
  /\ round' = IF decision = "waiting" THEN manager.tasks ELSE NoWait
  /\ manager' = After(manager, decision)
  /\ CASE decision = "waiting" -> UNCHANGED <<step, isListening>>
       [] decision = "rejected" -> step' = "failed" /\ UNCHANGED isListening
       [] OTHER -> IF step = "awaitingInfo" \/ cancelled \/ infos = {} THEN Ends("succeeded")
                   ELSE step' = "signing" /\ UNCHANGED isListening

AwaitTasks ==
  /\ step \in {"awaiting", "awaitingInfo"} /\ round = NoWait
  /\ Continue(OnCall(manager, cancelled))
  /\ UNCHANGED <<packager, isPublish, schedulers, caching, infos, pending, server, failures>>

EndRound ==
  /\ round # NoWait /\ round \cap pending = {}
  /\ Continue(OnRoundEnd(manager, cancelled))
  /\ UNCHANGED <<packager, isPublish, schedulers, caching, infos, pending, server, failures>>

\* All files are signed before the first one is written; each is then announced, and its handler
\* schedules the upload.
WriteUpdateInfoFiles ==
  /\ step = "signing"
  /\ step' = "writing"
  /\ schedulers' = [s \in Schedulers |->
       IF s \in Configs /\ isPublish
         THEN [schedulers[s] EXCEPT !.at = "scheduling", !.todo = <<s>>] ELSE schedulers[s]]
  /\ UNCHANGED <<packager, isPublish, isListening, caching, infos, tasks, server, failures>>

SigningFails ==
  /\ step = "signing"
  /\ step' = "failed"
  /\ Fails
  /\ UNCHANGED <<packager, isPublish, isListening, schedulers, caching, infos, tasks, server>>

EndWriting ==
  /\ step = "writing"
  /\ \/ /\ \E c \in Configs : schedulers[Info(c)].at = "failed"
        /\ step' = "failed"
     \/ /\ \A c \in Configs : schedulers[Info(c)].at \in {"idle", "ended"}
        /\ step' = "awaitingInfo"
  /\ UNCHANGED <<packager, isPublish, isListening, schedulers, caching, infos, tasks, server, failures>>

InFlight ==
  {u \in Uploads : uploads[u].at \in {"awaitingRelease", "sending", "overwriting", "delaying"}}

\* The SIGINT handler.  The token rejects the requests and the delays of all uploads in its turn;
\* the server may have stored some files (Done) and made some releases (Made) nevertheless.  No
\* upload has a cancel().
Cancel ==
  /\ ~cancelled /\ step \notin {"succeeded", "failed"}
  /\ Build!Cancel
  /\ uploads' = [u \in Uploads |->
       IF u \in InFlight THEN [uploads[u] EXCEPT !.at = "failed", !.publisher = 0] ELSE uploads[u]]
  /\ \E Done \in SUBSET {u \in InFlight : uploads[u].at = "sending"
                                           /\ assets[u] = "none"} :
       assets' = [u \in Uploads |-> IF u \in Done THEN "new" ELSE assets[u]]
  /\ publishers' = [c \in Configs |-> [n \in DOMAIN publishers[c] |->
       IF publishers[c][n] \in {"looking", "making"} THEN "unfound" ELSE publishers[c][n]]]
  /\ \E Made \in SUBSET {c \in GitHub : "making" \in ToSet(publishers[c])} :
       release' = MadeOnServer(Made)
  /\ manager' = [CancelTasks(manager) EXCEPT !.errors = @ \cup (InFlight \cap pending)]
  /\ pending' = pending \ InFlight
  /\ nameToPublisher' = [c \in Configs |-> 0]
  /\ UNCHANGED <<isPublish, isListening, step, schedulers, infos, round, failures>>

\* What the build has left behind has ended too.
Ended == step \in {"succeeded", "failed"} /\ UNCHANGED vars

-----------------------------------------------------------------------------
BuildStep ==
  \/ StartHook \/ BuildFails \/ HookReturns \/ EndHook \/ HookFails
  \/ AwaitTasks \/ EndRound
  \/ WriteUpdateInfoFiles \/ SigningFails \/ EndWriting

SchedulerStep(s) ==
  \/ Resolved(s) \/ ResolvingFails(s)
  \/ Schedule(s) \/ Upload(s) \/ UploadFails(s) \/ EndSchedule(s)

PublisherStep(c) ==
  \E n \in DOMAIN publishers[c] :
    \/ PublisherCreated(c, n) \/ PublisherFails(c, n)
    \/ FindRelease(c, n) \/ MakeRelease(c, n) \/ ReleaseFails(c, n)

UploadStep(u) ==
  \/ Send(u) \/ SendIsRefused(u) \/ SendFails(u)
  \/ Overwrite(u) \/ OverwriteFails(u) \/ EndDelay(u)

Step ==
  \/ BuildStep
  \/ \E a \in Artifacts : Emit(a)
  \/ \E s \in Schedulers : SchedulerStep(s)
  \/ \E a \in Updatable : EndCreateInfo(a)
  \/ \E c \in Configs : PublisherStep(c)
  \/ \E u \in Uploads : UploadStep(u)

Next == Step \/ Cancel \/ Ended

\* The packager settles (ImplementsPackager of BuildPipeline), requests are answered or time out, and
\* the event loop runs.  Who comes first does not matter: whatever runs can only run so long.
Fairness == WF_vars(Step)

Spec == Init /\ [][Next]_vars /\ Fairness

-----------------------------------------------------------------------------
(* Properties *)

IsNull(c) == \E n \in DOMAIN publishers[c] : publishers[c][n] = "null"
HasInfo(c) == assets[<<Info(c), c>>] = "new"

\* Whoever finds the update info file of this build on a server finds what it names there: the
\* file is not sent before every artifact of the build has been stored, whatever fails, is sent
\* again or is cancelled on the way (PublishManager.awaitTasks).  The -mac.json for clients before
\* 2.0 goes out earlier, and is not in the module.
UpdateInfoComesLast ==
  /\ TypeOK
  /\ \A c \in Configs : HasInfo(c) =>
       /\ infos = Updatable
       /\ \A a \in Artifacts : assets[<<a, c>>] = "new"

IsWithheld(c) == c \in GitHub /\ release[c] = "withheld"

\* build() resolves, without a cancel, only when all it had to publish is stored under its name:
\* the artifacts, the hook's one and the update info.  No upload is skipped but all of a
\* configuration are, whose release is withheld from this build.
ResolvesOnlyWhenPublished ==
  step = "succeeded" /\ isPublish /\ ~cancelled =>
    \A c \in Configs : ~IsNull(c) /\ ~IsWithheld(c) =>
      /\ \A a \in Artifacts : assets[<<a, c>>] = "new"
      /\ schedulers[Extra].at # "idle" => assets[<<Extra, c>>] = "new"
      /\ Updatable # {} => HasInfo(c)

IsGivenUp == cancelled \/ step = "failed"

\* Uploads of one configuration go to one release, although their handlers run together, each
\* release is looked for before it is made, and a publisher that could not be created is replaced:
\* no second release is made, unless the build was given up (getOrCreatePublisher, _release).
OneReleasePerConfig == \A c \in GitHub : release[c] # "double" \/ IsGivenUp

\* build() settles whatever fails, and whenever it is cancelled.
BuildEnds == <>(step \in {"succeeded", "failed"})
=============================================================================
