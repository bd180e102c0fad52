-------------------------- MODULE PublishingProofs --------------------------
(***************************************************************************)
(* What publishing keeps to, proved for every set of artifacts and every   *)
(* list of configurations, every number of attempts and failures.  Each    *)
(* configuration has one publisher that all schedulers share; each of them *)
(* has called upload() for all that it is past; what is under way is a     *)
(* task of the PublishManager, what has failed is an error there.  So when *)
(* awaitTasks finds neither, all is stored: build() writes the update info *)
(* files then, and resolves when those are stored as well.  The invariant  *)
(* comes first, then the lemmas on operators and records, on the kinds of  *)
(* steps and on what lasts, what each step keeps, one conjunct at a time,  *)
(* and the theorems at the end.                                            *)
(***************************************************************************)
EXTENDS Publishing, TLAPS

\* The steps of a scheduler.
SchedulerSteps == {"idle", "resolving", "scheduling", "creating", "ended", "failed"}
\* A scheduler: its step, the configurations that it has left, the publisher it awaits.
SchedulerStates == [at : SchedulerSteps, todo : Seq(Configs), publisher : Nat]
\* The states of a publisher.
PublisherStates == {"creating", "null", "failed"} \cup Created
\* The steps of an upload.
UploadSteps == {"new", "awaitingRelease", "sending", "overwriting", "delaying", "done", "failed"}
\* An upload: its step, its attempts, the publisher whose release it awaits.
UploadStates == [at : UploadSteps, attempt : 0..(MaxAttempts + 1), publisher : Nat]

\* What the build has promised holds while it was neither cancelled nor has failed.
BuildGoesOn == ~cancelled /\ step # "failed"

\* What awaitTasks of the PublishManager is awaiting.
Awaited == IF round = NoWait THEN {} ELSE round

\* What the variables hold.
Types ==
  /\ phase \in {"building", "resolved", "rejected"} /\ emitted \subseteq Artifacts
  /\ cancelled \in BOOLEAN /\ isPublish \in BOOLEAN /\ isListening \in BOOLEAN
  /\ step \in Steps
  /\ schedulers \in [Schedulers -> SchedulerStates]
  /\ publishers \in [Configs -> Seq(PublisherStates)]
  /\ nameToPublisher \in [Configs -> Nat]
  /\ infos \subseteq Updatable
  /\ manager \in Managers(Tasks) /\ pending \in SUBSET Tasks
  /\ round \in {NoWait} \cup SUBSET Tasks
  /\ uploads \in [Uploads -> UploadStates]
  /\ \A u \in Uploads : uploads[u].at \in {"overwriting", "delaying"} => uploads[u].attempt <= MaxAttempts
  /\ assets \in [Uploads -> {"none", "old", "new"}]
  /\ release \in [GitHub -> {"none", "open", "withheld", "double"}]
  /\ failures \in 0..MaxFailures

\* What is left to do is the end of the list, for an update info file its own configuration;
\* nothing is, if nothing is published or the scheduler has ended and was not stopped.
Todo(s) ==
  /\ s \notin Configs => IsSuffix(schedulers[s].todo, ConfigList)
  /\ s \in Configs => schedulers[s].todo \in {<<>>, <<s>>}
  /\ schedulers[s].todo # <<>> => isPublish
  /\ schedulers[s].at \in {"idle", "resolving"} => schedulers[s].todo = <<>>
  /\ schedulers[s].at = "resolving" => s \in Artifacts
  /\ schedulers[s].at = "creating" =>
       schedulers[s].todo # <<>> /\ schedulers[s].publisher \in DOMAIN publishers[Head(schedulers[s].todo)]
  /\ schedulers[s].at = "ended" => schedulers[s].todo = <<>> \/ (s \in Artifacts /\ cancelled)

\* build() and its packager.
Stages ==
  /\ phase = "building" <=> step = "building"
  /\ phase = "rejected" => step = "failed"
  /\ phase = "resolved" => emitted = Artifacts \/ cancelled
  /\ isListening \/ step \in {"succeeded", "failed"}
  /\ round # NoWait => step \in {"awaiting", "awaitingInfo"}
  /\ step \notin {"building", "hook", "failed"} => schedulers[Extra].at \in {"idle", "ended"}
  /\ \A s \in Schedulers : Todo(s)
  /\ \A a \in Artifacts : schedulers[a].at # "idle" => a \in emitted

\* A configuration has publishers or none is wanted; but for those that failed, one, the cached.
OnePublisher(c) ==
  /\ nameToPublisher[c] <= Len(publishers[c])
  /\ \A n, m \in DOMAIN publishers[c] : publishers[c][n] = "null" => publishers[c][m] \notin Created
  /\ ~IsGivenUp => \A n \in DOMAIN publishers[c] : publishers[c][n] # "failed" => n = nameToPublisher[c]

\* What a publisher knows of its release.
KnowsRelease(c) ==
  \A n \in DOMAIN publishers[c] :
    /\ publishers[c][n] \in {"looking", "making", "found", "skipped", "unfound"} => c \in GitHub
    /\ publishers[c][n] \in {"making", "found"} => release[c] # "withheld"
    /\ publishers[c][n] = "making" => release[c] = "none" \/ IsGivenUp
    /\ publishers[c][n] = "skipped" => release[c] = "withheld"

\* Every configuration has one publisher, which knows its release, and a configuration one release.
Sharing ==
  /\ \A c \in Configs : OnePublisher(c) /\ KnowsRelease(c)
  /\ \A c \in GitHub : release[c] # "double" \/ IsGivenUp

\* An upload has a publisher, is sent where uploads are let in, and is done when it is stored there.
Sent(u) ==
  /\ uploads[u].at # "new" =>
       /\ isPublish /\ schedulers[u[1]].at # "idle"
       /\ \E n \in DOMAIN publishers[u[2]] : publishers[u[2]][n] \in Created
  /\ uploads[u].at \in {"sending", "overwriting", "delaying"} => ~IsWithheld(u[2])
  /\ assets[u] = "new" => uploads[u].at # "new" /\ ~IsWithheld(u[2])
  /\ uploads[u].at = "done" => assets[u] = "new" \/ IsWithheld(u[2])

\* Whoever has gone past a configuration has called upload() there, or nobody is to.
Passed(s) ==
  schedulers[s].at \in {"scheduling", "creating", "ended"} =>
    \A c \in Configs : isPublish /\ <<s, c>> \in Uploads /\ c \notin ToSet(schedulers[s].todo) =>
      uploads[<<s, c>>].at # "new" \/ IsNull(c)

\* Uploads go where they may, and every scheduler has passed what it no longer has to do.
Sending == (\A u \in Uploads : Sent(u)) /\ (\A s \in Schedulers : Passed(s))

\* What is under way is a task of the PublishManager, what failed has left an error there.
Heard(u) ==
  /\ u \in InFlight => u \in pending
  /\ uploads[u].at = "failed" => manager.errors # {}

\* The handler of an artifact is a task until all of its uploads were called, and so is the
\* making of its update info.
Handled(a) ==
  /\ a \in emitted => schedulers[a].at # "idle"
  /\ schedulers[a].at \in {"resolving", "scheduling", "creating"} => Handle(a) \in pending
  /\ schedulers[a].at = "failed" => manager.errors # {}
  /\ schedulers[a].at = "ended" /\ a \in Updatable =>
       CreateInfo(a) \in pending \/ a \in infos \/ manager.errors # {}

\* While the build goes on, whatever is under way is awaited or will be.
Tracking ==
  BuildGoesOn =>
    /\ pending \subseteq manager.tasks \cup Awaited
    /\ \A u \in Uploads : Heard(u)
    /\ \A a \in Artifacts : Handled(a)

\* What was to be published by s is.
IsStored(s) ==
  \A c \in Configs : isPublish /\ <<s, c>> \in Uploads => uploads[<<s, c>>].at = "done" \/ IsNull(c)

\* All the artifacts, and what the hook has returned, are stored, and so are the update infos.
AllStored ==
  /\ infos = Updatable
  /\ \A a \in Artifacts : a \in emitted /\ schedulers[a].at = "ended" /\ IsStored(a)
  /\ schedulers[Extra].at = "idle" \/ (schedulers[Extra].at = "ended" /\ IsStored(Extra))

\* The update info files come after all that, and a build that succeeds after them.
InfoStep(c) ==
  /\ schedulers[Info(c)].at # "idle" =>
       AllStored /\ step \in {"writing", "awaitingInfo", "succeeded", "failed"}
  /\ step = "writing" /\ isPublish => schedulers[Info(c)].at # "idle"
  /\ step = "awaitingInfo" /\ isPublish => schedulers[Info(c)].at = "ended"

\* Update info files are written after all is stored; who succeeds has stored them too.
Finishing ==
  /\ step \in {"signing", "writing", "awaitingInfo"} => AllStored
  /\ \A c \in Configs : InfoStep(c)
  /\ step = "succeeded" /\ ~cancelled =>
       /\ AllStored
       /\ Updatable # {} /\ isPublish =>
            \A c \in Configs : schedulers[Info(c)].at = "ended" /\ IsStored(Info(c))

\* The inductive invariant.
IInv == Types /\ Stages /\ Sharing /\ Sending /\ Tracking /\ Finishing
-----------------------------------------------------------------------------

\* Of the sets of tasks none is the mark for no wait; the tasks of the three kinds are different.
LEMMA TaskKinds ==
  /\ Uploads \subseteq Tasks
  /\ \A a \in Artifacts : Handle(a) \in Tasks \ Uploads
  /\ \A a \in Updatable : CreateInfo(a) \in Tasks \ Uploads
  /\ \A a, b : Handle(a) # CreateInfo(b)
  /\ \A a, b : Handle(a) = Handle(b) => a = b
  /\ \A a, b : CreateInfo(a) = CreateInfo(b) => a = b
  /\ \A a : CreateInfo(a) \in Tasks => a \in Updatable
<1>1. ASSUME NEW u \in Uploads, NEW x, u = <<"handle", x>> \/ u = <<"createInfo", x>> PROVE FALSE
  <2>1. u[1] \in {"handle", "createInfo"}
    BY <1>1
  <2>2. u[1] \in Schedulers
    BY DEF Uploads, Schedulers, Info
  <2> QED
    BY <2>1, <2>2, NamesAssumption
<1>2. /\ Uploads \subseteq Tasks
      /\ \A a \in Artifacts : <<"handle", a>> \in Tasks
      /\ \A a \in Updatable : <<"createInfo", a>> \in Tasks
  BY DEF Tasks, Handle, CreateInfo
<1>3. /\ \A a, b : <<"handle", a>> # <<"createInfo", b>>
      /\ \A a, b : <<"handle", a>> = <<"handle", b>> => a = b
      /\ \A a, b : <<"createInfo", a>> = <<"createInfo", b>> => a = b
  OBVIOUS
<1>4. ASSUME NEW a, <<"createInfo", a>> \in Tasks PROVE a \in Updatable
  BY <1>1, <1>3, <1>4 DEF Tasks, Handle, CreateInfo
<1> QED
  BY <1>1, <1>2, <1>3, <1>4 DEF Handle, CreateInfo

\* A set of tasks is not the mark for no wait.
LEMMA NoWaitIsNoSet == \A S \in SUBSET Tasks : S # NoWait
  BY NamesAssumption

\* Who schedules what: artifacts, the hook's and the update info files are different schedulers.
LEMMA SchedulerKinds ==
  /\ Schedulers = Artifacts \cup {Extra} \cup Configs
  /\ Artifacts \cap Configs = {} /\ Extra \notin Artifacts /\ Extra \notin Configs
  /\ \A s \in Artifacts \cup {Extra}, c \in Configs : <<s, c>> \in Uploads
  /\ \A s, c \in Configs : <<s, c>> \in Uploads <=> s = c
  /\ \A s, c : <<s, c>> \in Uploads => s \in Schedulers /\ c \in Configs
  /\ \A u \in Uploads : u[1] \in Schedulers /\ u[2] \in Configs /\ u = <<u[1], u[2]>>
<1>1. Schedulers = Artifacts \cup {Extra} \cup Configs
  BY DEF Schedulers, Info
<1>2. Artifacts \cap Configs = {} /\ Extra \notin Artifacts /\ Extra \notin Configs
  BY ArtifactsAssumption
<1>3. \A u \in Uploads : \/ \E s \in Artifacts \cup {Extra}, c \in Configs : u = <<s, c>>
                         \/ \E c \in Configs : u = <<c, c>>
  BY DEF Uploads, Info
<1>4. \A s \in Artifacts \cup {Extra}, c \in Configs : <<s, c>> \in Uploads
  BY DEF Uploads
<1>5. \A c \in Configs : <<c, c>> \in Uploads
  BY DEF Uploads, Info
<1>6. \A s, c, t, d : <<s, c>> = <<t, d>> => s = t /\ c = d
  OBVIOUS
<1>7. \A s, c : <<s, c>> \in Uploads => s \in Schedulers /\ c \in Configs
  BY <1>1, <1>3, <1>6
<1>8. ASSUME NEW s \in Configs, NEW c \in Configs, <<s, c>> \in Uploads PROVE s = c
  BY <1>8, <1>2, <1>3, <1>6
<1>9. \A u \in Uploads : u[1] \in Schedulers /\ u[2] \in Configs /\ u = <<u[1], u[2]>>
  BY <1>1, <1>3
<1> QED
  BY <1>1, <1>2, <1>4, <1>5, <1>7, <1>8, <1>9

-----------------------------------------------------------------------------
(* The records of the state, and what the task manager does to them.        *)

\* The methods of a task manager: what becomes of its tasks and its errors.
LEMMA ManagerMethods ==
  ASSUME NEW T, NEW m \in Managers(T)
  PROVE  /\ m.tasks \in SUBSET T /\ m.errors \in SUBSET T
         /\ \A S \in SUBSET T :
              /\ AddTasks(m, S, {}) \in Managers(T)
              /\ AddTasks(m, S, {}).tasks = m.tasks \cup S /\ AddTasks(m, S, {}).errors = m.errors
         /\ \A t \in T : \A isOk :
              /\ SettleTask(m, t, isOk) \in Managers(T)
              /\ SettleTask(m, t, isOk).tasks = m.tasks
              /\ isOk => SettleTask(m, t, isOk).errors = m.errors
              /\ ~isOk => SettleTask(m, t, isOk).errors = m.errors \cup {t}
              /\ m.errors \subseteq SettleTask(m, t, isOk).errors
         /\ \A d : After(m, d) \in Managers(T) /\ After(m, d).tasks = {} /\ After(m, d).errors = m.errors
<1>1. m.tasks \in SUBSET T /\ m.errors \in SUBSET T /\ m.cancellableTasks \in SUBSET T
  BY DEF Managers
<1>2. ASSUME NEW S \in SUBSET T
      PROVE  /\ AddTasks(m, S, {}) \in Managers(T)
             /\ AddTasks(m, S, {}).tasks = m.tasks \cup S /\ AddTasks(m, S, {}).errors = m.errors
  BY <1>1 DEF Managers, AddTasks
<1>3. ASSUME NEW t \in T, NEW isOk
      PROVE  /\ SettleTask(m, t, isOk) \in Managers(T)
             /\ SettleTask(m, t, isOk).tasks = m.tasks
             /\ isOk => SettleTask(m, t, isOk).errors = m.errors
             /\ ~isOk => SettleTask(m, t, isOk).errors = m.errors \cup {t}
             /\ m.errors \subseteq SettleTask(m, t, isOk).errors
  BY <1>1 DEF Managers, SettleTask
<1>4. ASSUME NEW d
      PROVE  After(m, d) \in Managers(T) /\ After(m, d).tasks = {} /\ After(m, d).errors = m.errors
  BY <1>1 DEF Managers, After, CancelTasks, TakeTasks
<1> QED
  BY <1>1, <1>2, <1>3, <1>4

\* Errors are added.
WithErrors(m, E) == [m EXCEPT !.errors = @ \cup E]

\* Errors that are added to a task manager are there, its tasks stay.
LEMMA ManagerErrors ==
  ASSUME NEW T, NEW m \in Managers(T)
  PROVE  \A E \in SUBSET T :
           /\ WithErrors(m, E) \in Managers(T)
           /\ WithErrors(m, E).tasks = m.tasks /\ WithErrors(m, E).errors = m.errors \cup E
<1>1. m.tasks \in SUBSET T /\ m.errors \in SUBSET T /\ m.cancellableTasks \in SUBSET T
  BY DEF Managers
<1> QED
  BY <1>1 DEF Managers, WithErrors

\* The list is given up.
LEMMA ManagerGivesUp ==
  ASSUME NEW T, NEW m \in Managers(T)
  PROVE  CancelTasks(m) \in Managers(T) /\ CancelTasks(m).tasks = {} /\ CancelTasks(m).errors = m.errors
  BY DEF Managers, CancelTasks

\* A promise settles.
LEMMA SettledTask ==
  ASSUME manager \in Managers(Tasks), pending \in SUBSET Tasks, NEW t, NEW isOk, Settle(t, isOk)
  PROVE  /\ manager' \in Managers(Tasks) /\ pending' \in SUBSET Tasks
         /\ pending' = pending \ {t} /\ manager'.tasks = manager.tasks
         /\ manager.errors \subseteq manager'.errors
         /\ t \in pending /\ ~isOk => manager'.errors # {}
         /\ t \notin pending \/ isOk => manager'.errors = manager.errors
<1>1. CASE t \in pending
  <2>1. manager' = SettleTask(manager, t, isOk) /\ pending' = pending \ {t} /\ t \in Tasks
    BY <1>1 DEF Settle
  <2>2. /\ SettleTask(manager, t, isOk) \in Managers(Tasks)
        /\ SettleTask(manager, t, isOk).tasks = manager.tasks
        /\ isOk => SettleTask(manager, t, isOk).errors = manager.errors
        /\ ~isOk => SettleTask(manager, t, isOk).errors = manager.errors \cup {t}
        /\ manager.errors \subseteq SettleTask(manager, t, isOk).errors
    BY <2>1, ManagerMethods
  <2>3. ~isOk => manager'.errors # {}
    BY <2>1, <2>2
  <2> QED
    BY <1>1, <2>1, <2>2, <2>3
<1>2. CASE t \notin pending
  BY <1>2 DEF Settle
<1> QED
  BY <1>1, <1>2

\* The end of a sequence, element by element.
LEMMA SuffixIs ==
  ASSUME NEW S, NEW s \in Seq(S), NEW t \in Seq(S)
  PROVE  IsSuffix(s, t) <=> /\ Len(s) <= Len(t)
                            /\ \A k \in 1..Len(s) : s[k] = t[Len(t) - Len(s) + k]
<1>1. /\ Len(s) \in Nat /\ Len(t) \in Nat
      /\ \A k \in 1..Len(s) : s[k] \in S
      /\ \A k \in 1..Len(t) : t[k] \in S
  OBVIOUS
<1> DEFINE r == Reverse(s)
           q == Reverse(t)
<1>2. /\ r \in Seq(S) /\ Len(r) = Len(s) /\ \A k \in 1..Len(s) : r[k] = s[Len(s) - k + 1]
      /\ q \in Seq(S) /\ Len(q) = Len(t) /\ \A k \in 1..Len(t) : q[k] = t[Len(t) - k + 1]
  BY <1>1 DEF Reverse
<1>3. IsSuffix(s, t) <=> Len(r) <= Len(q) /\ SubSeq(r, 1, Len(r)) = SubSeq(q, 1, Len(r))
  BY DEF IsSuffix, IsPrefix
<1> HIDE DEF r, q
<1>4. CASE Len(s) <= Len(t)
  <2>1. /\ SubSeq(r, 1, Len(r)) \in Seq(S) /\ Len(SubSeq(r, 1, Len(r))) = Len(s)
        /\ \A k \in 1..Len(s) : SubSeq(r, 1, Len(r))[k] = r[k]
        /\ SubSeq(q, 1, Len(r)) \in Seq(S) /\ Len(SubSeq(q, 1, Len(r))) = Len(s)
        /\ \A k \in 1..Len(s) : SubSeq(q, 1, Len(r))[k] = q[k]
    BY <1>1, <1>2, <1>4
  <2>2. SubSeq(r, 1, Len(r)) = SubSeq(q, 1, Len(r)) <=> \A k \in 1..Len(s) : r[k] = q[k]
    <3> DEFINE x == SubSeq(r, 1, Len(r))
               y == SubSeq(q, 1, Len(r))
    <3>1. x \in Seq(S) /\ y \in Seq(S) /\ Len(x) = Len(s) /\ Len(y) = Len(s)
          /\ \A k \in 1..Len(s) : x[k] = r[k] /\ y[k] = q[k]
      BY <2>1
    <3> HIDE DEF x, y
    <3>2. ASSUME \A k \in 1..Len(s) : r[k] = q[k] PROVE x = y
      BY <3>1, <3>2
    <3>3. ASSUME x = y PROVE \A k \in 1..Len(s) : r[k] = q[k]
      BY <3>1, <3>3
    <3> QED
      BY <3>2, <3>3 DEF x, y
  <2>3. ASSUME \A k \in 1..Len(s) : r[k] = q[k], NEW k \in 1..Len(s) PROVE s[k] = t[Len(t) - Len(s) + k]
    <3>1. Len(s) - k + 1 \in 1..Len(s)
      BY <1>1
    <3>2. r[Len(s) - k + 1] = q[Len(s) - k + 1]
      BY <3>1, <2>3
    <3>3. Len(s) - (Len(s) - k + 1) + 1 = k /\ Len(t) - (Len(s) - k + 1) + 1 = Len(t) - Len(s) + k
      BY <1>1
    <3>4. Len(s) - k + 1 \in 1..Len(t)
      BY <3>1, <1>1, <1>4
    <3>5. r[Len(s) - k + 1] = s[k]
      BY <3>1, <3>3, <1>2
    <3>6. q[Len(s) - k + 1] = t[Len(t) - Len(s) + k]
      BY <3>4, <3>3, <1>2
    <3> QED
      BY <3>2, <3>5, <3>6
  <2>4. ASSUME \A k \in 1..Len(s) : s[k] = t[Len(t) - Len(s) + k], NEW k \in 1..Len(s) PROVE r[k] = q[k]
    <3>1. Len(s) - k + 1 \in 1..Len(s) /\ Len(t) - Len(s) + (Len(s) - k + 1) = Len(t) - k + 1 /\ k \in 1..Len(t)
      BY <1>1, <1>4
    <3> QED
      BY <3>1, <2>4, <1>2
  <2> QED
    BY <1>2, <1>3, <1>4, <2>2, <2>3, <2>4
<1>5. CASE ~(Len(s) <= Len(t))
  BY <1>2, <1>3, <1>5
<1> QED
  BY <1>4, <1>5

\* What is left to do, when its first element is done.
LEMMA TodoTail ==
  ASSUME NEW t \in Seq(Configs), t # <<>>
  PROVE  /\ Head(t) \in Configs /\ Tail(t) \in Seq(Configs)
         /\ Head(t) \in ToSet(t) /\ ToSet(t) \subseteq ToSet(Tail(t)) \cup {Head(t)}
         /\ \A c : t = <<c>> => Tail(t) = <<>> /\ Head(t) = c
         /\ IsSuffix(t, ConfigList) => IsSuffix(Tail(t), ConfigList)
<1>1. Len(t) \in Nat \ {0} /\ DOMAIN t = 1..Len(t) /\ Head(t) = t[1] /\ Tail(t) \in Seq(Configs)
  OBVIOUS
<1>2. Len(Tail(t)) = Len(t) - 1 /\ DOMAIN Tail(t) = 1 .. Len(t) - 1
      /\ \A k \in 1 .. Len(t) - 1 : Tail(t)[k] = t[k + 1]
  BY <1>1
<1>3. ASSUME NEW x \in ToSet(t) PROVE x = Head(t) \/ x \in ToSet(Tail(t))
  <2>1. PICK k \in 1..Len(t) : x = t[k]
    BY <1>3, <1>1 DEF ToSet
  <2>2. CASE k = 1
    BY <2>1, <2>2, <1>1
  <2>3. CASE k # 1
    <3>1. k - 1 \in DOMAIN Tail(t) /\ Tail(t)[k - 1] = x
      BY <2>1, <2>3, <1>1, <1>2
    <3> QED
      BY <3>1 DEF ToSet
  <2> QED
    BY <2>2, <2>3
<1>4. Head(t) \in Configs /\ Head(t) \in ToSet(t)
  BY <1>1 DEF ToSet
<1>5. ASSUME IsSuffix(t, ConfigList) PROVE IsSuffix(Tail(t), ConfigList)
  <2>1. /\ Len(t) <= Len(ConfigList) /\ Len(ConfigList) \in Nat
        /\ \A k \in 1..Len(t) : t[k] = ConfigList[Len(ConfigList) - Len(t) + k]
    BY <1>5, SuffixIs, ConfigsAssumption
  <2>2. ASSUME NEW k \in 1..Len(Tail(t)) PROVE Tail(t)[k] = ConfigList[Len(ConfigList) - Len(Tail(t)) + k]
    <3>1. k + 1 \in 1..Len(t) /\ Tail(t)[k] = t[k + 1]
          /\ Len(ConfigList) - Len(Tail(t)) + k = Len(ConfigList) - Len(t) + (k + 1)
      BY <1>1, <1>2, <2>1
    <3> QED
      BY <3>1, <2>1
  <2>3. Len(Tail(t)) <= Len(ConfigList)
    BY <1>1, <1>2, <2>1
  <2> QED
    BY <1>1, <2>2, <2>3, SuffixIs, ConfigsAssumption
<1>6. \A c : t = <<c>> => Tail(t) = <<>> /\ Head(t) = c
  OBVIOUS
<1> QED
  BY <1>1, <1>3, <1>4, <1>5, <1>6

\* Nothing, and everything, is an end of the list of configurations.
LEMMA EndsOfList == IsSuffix(<<>>, ConfigList) /\ IsSuffix(ConfigList, ConfigList)
<1>1. <<>> \in Seq(Configs) /\ ConfigList \in Seq(Configs) /\ Len(ConfigList) \in Nat /\ Len(<<>>) = 0
  BY ConfigsAssumption
<1>2. IsSuffix(<<>>, ConfigList)
  <2>1. IsSuffix(<<>>, ConfigList) <=> /\ Len(<<>>) <= Len(ConfigList)
                            /\ \A k \in 1..Len(<<>>) : <<>>[k] = ConfigList[Len(ConfigList) - Len(<<>>) + k]
    BY <1>1, SuffixIs
  <2> QED
    BY <1>1, <2>1
<1>3. IsSuffix(ConfigList, ConfigList)
  <2>1. \A k \in 1..Len(ConfigList) : Len(ConfigList) - Len(ConfigList) + k = k
    BY <1>1
  <2> QED
    BY <1>1, <2>1, SuffixIs
<1> QED
  BY <1>2, <1>3

\* A sequence of publishers with another one.
LEMMA AppendPublisher ==
  ASSUME NEW s \in Seq(PublisherStates), NEW p \in PublisherStates
  PROVE  /\ Append(s, p) \in Seq(PublisherStates) /\ Len(Append(s, p)) = Len(s) + 1
         /\ DOMAIN Append(s, p) = DOMAIN s \cup {Len(s) + 1} /\ Len(s) + 1 \notin DOMAIN s
         /\ Append(s, p)[Len(s) + 1] = p /\ \A n \in DOMAIN s : Append(s, p)[n] = s[n]
  OBVIOUS

\* A sequence of publishers of which one changes.
LEMMA ChangePublisher ==
  ASSUME NEW s \in Seq(PublisherStates), NEW n \in DOMAIN s, NEW p \in PublisherStates
  PROVE  /\ [s EXCEPT ![n] = p] \in Seq(PublisherStates) /\ Len([s EXCEPT ![n] = p]) = Len(s)
         /\ DOMAIN [s EXCEPT ![n] = p] = DOMAIN s /\ [s EXCEPT ![n] = p][n] = p
         /\ \A m \in DOMAIN s : m # n => [s EXCEPT ![n] = p][m] = s[m]
  OBVIOUS

-----------------------------------------------------------------------------
(* What the parts of the steps do.                                          *)

\* Failures are counted within their bound.
LEMMA FailsOnce ==
  ASSUME Types, Fails PROVE failures' \in 0..MaxFailures
  BY BoundsAssumption DEF Types, Fails

\* The records at a scheduler and an upload.
LEMMA RecordsAre ==
  ASSUME Types
  PROVE  /\ \A s \in Schedulers : /\ schedulers[s] \in SchedulerStates
                                  /\ schedulers[s].at \in SchedulerSteps /\ schedulers[s].todo \in Seq(Configs)
                                  /\ schedulers[s].publisher \in Nat
         /\ \A u \in Uploads : /\ uploads[u] \in UploadStates
                               /\ uploads[u].at \in UploadSteps /\ uploads[u].attempt \in 0..(MaxAttempts + 1)
         /\ \A c \in Configs : publishers[c] \in Seq(PublisherStates) /\ Len(publishers[c]) \in Nat
                               /\ DOMAIN publishers[c] = 1..Len(publishers[c])
                               /\ \A n \in DOMAIN publishers[c] : publishers[c][n] \in PublisherStates
         /\ manager \in Managers(Tasks) /\ manager.tasks \in SUBSET Tasks /\ manager.errors \in SUBSET Tasks
<1>1. \A s \in Schedulers : schedulers[s] \in SchedulerStates
  BY DEF Types
<1>2. \A u \in Uploads : uploads[u] \in UploadStates
  BY DEF Types
<1>3. \A c \in Configs : publishers[c] \in Seq(PublisherStates)
  BY DEF Types
<1>4. manager \in Managers(Tasks)
  BY DEF Types
<1>5. \A r \in SchedulerStates : r.at \in SchedulerSteps /\ r.todo \in Seq(Configs) /\ r.publisher \in Nat
  BY DEF SchedulerStates
<1>6. \A r \in UploadStates : r.at \in UploadSteps /\ r.attempt \in 0..(MaxAttempts + 1)
  BY DEF UploadStates
<1>7. \A s \in Seq(PublisherStates) : /\ Len(s) \in Nat /\ DOMAIN s = 1..Len(s)
                                      /\ \A n \in DOMAIN s : s[n] \in PublisherStates
  OBVIOUS
<1> QED
  BY <1>1, <1>2, <1>3, <1>4, <1>5, <1>6, <1>7, ManagerMethods

\* A scheduler moves, the others do not.
Moves(s, x) ==
  /\ schedulers' \in [Schedulers -> SchedulerStates]
  /\ schedulers'[s].at = x
  /\ \A t \in Schedulers : t # s => schedulers'[t] = schedulers[t]

\* A scheduler goes to a step, and keeps its list and its publisher.
LEMMA MoveIs ==
  ASSUME Types, NEW s \in Schedulers, NEW x \in SchedulerSteps, Move(s, x)
  PROVE  /\ Moves(s, x)
         /\ schedulers'[s].todo = schedulers[s].todo /\ schedulers'[s].publisher = schedulers[s].publisher
<1>a. schedulers[s] \in SchedulerStates
  BY RecordsAre
<1>1. /\ [schedulers[s] EXCEPT !.at = x] \in SchedulerStates
      /\ [schedulers[s] EXCEPT !.at = x].at = x
      /\ [schedulers[s] EXCEPT !.at = x].todo = schedulers[s].todo
      /\ [schedulers[s] EXCEPT !.at = x].publisher = schedulers[s].publisher
  BY <1>a DEF SchedulerStates
<1>2. /\ schedulers' = [schedulers EXCEPT ![s] = [schedulers[s] EXCEPT !.at = x]]
      /\ schedulers \in [Schedulers -> SchedulerStates]
  BY DEF Move, Types
<1> QED
  BY <1>1, <1>2 DEF Moves

\* A scheduler with its list.
LEMMA ListIs ==
  ASSUME Types, NEW s \in Schedulers, NEW x \in SchedulerSteps, NEW t \in Seq(Configs),
         schedulers' = [schedulers EXCEPT ![s].at = x, ![s].todo = t]
  PROVE  Moves(s, x) /\ schedulers'[s].todo = t /\ schedulers'[s].publisher = schedulers[s].publisher
<1>a. schedulers[s] \in SchedulerStates
  BY RecordsAre
<1>1. /\ [schedulers[s] EXCEPT !.at = x, !.todo = t] \in SchedulerStates
      /\ [schedulers[s] EXCEPT !.at = x, !.todo = t].at = x
      /\ [schedulers[s] EXCEPT !.at = x, !.todo = t].todo = t
      /\ [schedulers[s] EXCEPT !.at = x, !.todo = t].publisher = schedulers[s].publisher
  BY <1>a DEF SchedulerStates
<1>2. /\ schedulers' = [schedulers EXCEPT ![s] = [schedulers[s] EXCEPT !.at = x, !.todo = t]]
      /\ schedulers \in [Schedulers -> SchedulerStates]
  BY DEF Types
<1> QED
  BY <1>1, <1>2 DEF Moves

\* A scheduler with the publisher that it awaits.
LEMMA AwaitsIs ==
  ASSUME Types, NEW s \in Schedulers, NEW x \in SchedulerSteps, NEW n \in Nat,
         schedulers' = [schedulers EXCEPT ![s].at = x, ![s].publisher = n]
  PROVE  Moves(s, x) /\ schedulers'[s].todo = schedulers[s].todo /\ schedulers'[s].publisher = n
<1>a. schedulers[s] \in SchedulerStates
  BY RecordsAre
<1>1. /\ [schedulers[s] EXCEPT !.at = x, !.publisher = n] \in SchedulerStates
      /\ [schedulers[s] EXCEPT !.at = x, !.publisher = n].at = x
      /\ [schedulers[s] EXCEPT !.at = x, !.publisher = n].todo = schedulers[s].todo
      /\ [schedulers[s] EXCEPT !.at = x, !.publisher = n].publisher = n
  BY <1>a DEF SchedulerStates
<1>2. /\ schedulers' = [schedulers EXCEPT ![s] = [schedulers[s] EXCEPT !.at = x, !.publisher = n]]
      /\ schedulers \in [Schedulers -> SchedulerStates]
  BY DEF Types
<1> QED
  BY <1>1, <1>2 DEF Moves

\* An upload goes on, the others do not.
UploadMoves(u, x) ==
  /\ uploads' \in [Uploads -> UploadStates]
  /\ uploads'[u].at = x
  /\ \A v \in Uploads : v # u => uploads'[v] = uploads[v]

\* An upload goes to a step, and its attempts are not counted.
LEMMA UploadGoesTo ==
  ASSUME Types, NEW u \in Uploads, NEW x \in UploadSteps, uploads' = [uploads EXCEPT ![u].at = x]
  PROVE  UploadMoves(u, x) /\ uploads'[u].attempt = uploads[u].attempt
<1>a. uploads[u] \in UploadStates
  BY RecordsAre
<1>1. /\ [uploads[u] EXCEPT !.at = x] \in UploadStates /\ [uploads[u] EXCEPT !.at = x].at = x
      /\ [uploads[u] EXCEPT !.at = x].attempt = uploads[u].attempt
  BY <1>a DEF UploadStates
<1>2. /\ uploads' = [uploads EXCEPT ![u] = [uploads[u] EXCEPT !.at = x]]
      /\ uploads \in [Uploads -> UploadStates]
  BY DEF Types
<1> QED
  BY <1>1, <1>2 DEF UploadMoves

\* An upload that waits for the release of a publisher.
LEMMA UploadWaits ==
  ASSUME Types, NEW u \in Uploads, NEW x \in UploadSteps, NEW n \in Nat,
         uploads' = [uploads EXCEPT ![u].at = x, ![u].publisher = n]
  PROVE  UploadMoves(u, x) /\ uploads'[u].attempt = uploads[u].attempt
<1>a. uploads[u] \in UploadStates
  BY RecordsAre
<1>1. /\ [uploads[u] EXCEPT !.at = x, !.publisher = n] \in UploadStates
      /\ [uploads[u] EXCEPT !.at = x, !.publisher = n].at = x
      /\ [uploads[u] EXCEPT !.at = x, !.publisher = n].attempt = uploads[u].attempt
  BY <1>a DEF UploadStates
<1>2. /\ uploads' = [uploads EXCEPT ![u] = [uploads[u] EXCEPT !.at = x, !.publisher = n]]
      /\ uploads \in [Uploads -> UploadStates]
  BY DEF Types
<1> QED
  BY <1>1, <1>2 DEF UploadMoves

\* An upload is tried again, as long as it may be.
LEMMA UploadAgain ==
  ASSUME Types, NEW u \in Uploads, uploads[u].at \in {"overwriting", "delaying"},
         uploads' = [uploads EXCEPT ![u].at = "sending", ![u].attempt = @ + 1]
  PROVE  UploadMoves(u, "sending")
<1>a. uploads[u] \in UploadStates /\ uploads[u].attempt <= MaxAttempts /\ uploads[u].attempt \in 0..(MaxAttempts + 1)
  BY RecordsAre DEF Types
<1> DEFINE r == [uploads[u] EXCEPT !.at = "sending", !.attempt = @ + 1]
<1>1. uploads[u].attempt + 1 \in 0..(MaxAttempts + 1)
  BY <1>a, BoundsAssumption
<1>2. r \in UploadStates /\ r.at = "sending"
  BY <1>a, <1>1 DEF UploadStates, UploadSteps
<1>3. uploads' = [uploads EXCEPT ![u] = r] /\ uploads \in [Uploads -> UploadStates]
  BY DEF Types
<1> HIDE DEF r
<1> QED
  BY <1>2, <1>3 DEF UploadMoves

\* A promise is added.
LEMMA TaskIsAdded ==
  ASSUME Types, NEW t \in Tasks, AddTask(t)
  PROVE  /\ manager' \in Managers(Tasks) /\ pending' \in SUBSET Tasks
         /\ manager'.errors = manager.errors
         /\ ~cancelled => manager'.tasks = manager.tasks \cup {t} /\ pending' = pending \cup {t}
         /\ cancelled => manager' = manager /\ pending' = pending
<1>1. manager \in Managers(Tasks) /\ pending \in SUBSET Tasks /\ {t} \in SUBSET Tasks
  BY DEF Types
<1>2. /\ AddTasks(manager, {t}, {}) \in Managers(Tasks)
      /\ AddTasks(manager, {t}, {}).tasks = manager.tasks \cup {t}
      /\ AddTasks(manager, {t}, {}).errors = manager.errors
  BY <1>1, ManagerMethods
<1> QED
  BY <1>1, <1>2 DEF AddTask

\* A failed attempt of an upload.
LEMMA CatchIs ==
  ASSUME Types, NEW u \in Uploads, NEW next \in {"overwriting", "delaying"}, Catch(u, next)
  PROVE  /\ \/ UploadMoves(u, "failed") /\ Settle(u, FALSE)
            \/ UploadMoves(u, next) /\ uploads'[u].attempt <= MaxAttempts /\ UNCHANGED <<manager, pending>>
<1>1. CASE IsLastAttempt(u)
  BY <1>1, UploadGoesTo DEF Catch, UploadSteps
<1>2. CASE ~IsLastAttempt(u)
  <2>1. UploadMoves(u, next) /\ uploads'[u].attempt = uploads[u].attempt
    BY <1>2, UploadGoesTo DEF Catch, UploadSteps
  <2>2. uploads[u].attempt <= MaxAttempts
    BY <1>2, RecordsAre, BoundsAssumption DEF IsLastAttempt
  <2> QED
    BY <1>2, <2>1, <2>2 DEF Catch
<1> QED
  BY <1>1, <1>2

\* A publisher changes, the others do not.
PublisherGoes(c, n, p) ==
  /\ publishers' \in [Configs -> Seq(PublisherStates)]
  /\ Len(publishers'[c]) = Len(publishers[c]) /\ DOMAIN publishers'[c] = DOMAIN publishers[c]
  /\ publishers'[c][n] = p
  /\ \A m \in DOMAIN publishers[c] : m # n => publishers'[c][m] = publishers[c][m]
  /\ \A d \in Configs : d # c => publishers'[d] = publishers[d]

\* A publisher goes to a state, and stays where it is in the list.
LEMMA PublisherGoesTo ==
  ASSUME Types, NEW c \in Configs, NEW n \in DOMAIN publishers[c], NEW p \in PublisherStates,
         publishers' = [publishers EXCEPT ![c][n] = p]
  PROVE  PublisherGoes(c, n, p)
<1>1. publishers' = [publishers EXCEPT ![c] = [publishers[c] EXCEPT ![n] = p]]
      /\ publishers \in [Configs -> Seq(PublisherStates)] /\ publishers[c] \in Seq(PublisherStates)
  BY DEF Types
<1> DEFINE s == [publishers[c] EXCEPT ![n] = p]
<1>2. /\ s \in Seq(PublisherStates) /\ Len(s) = Len(publishers[c]) /\ DOMAIN s = DOMAIN publishers[c] /\ s[n] = p
      /\ \A m \in DOMAIN publishers[c] : m # n => s[m] = publishers[c][m]
  BY <1>1, ChangePublisher
<1>3. publishers' = [publishers EXCEPT ![c] = s]
  BY <1>1
<1> HIDE DEF s
<1> QED
  BY <1>1, <1>2, <1>3 DEF PublisherGoes

\* The publisher of a configuration is there, or is begun.
LEMMA GetsPublisher ==
  ASSUME Types, NEW c \in Configs, nameToPublisher[c] <= Len(publishers[c]), GetOrCreatePublisher(c)
  PROVE  /\ publishers' \in [Configs -> Seq(PublisherStates)] /\ nameToPublisher' \in [Configs -> Nat]
         /\ \A d \in Configs : d # c => publishers'[d] = publishers[d] /\ nameToPublisher'[d] = nameToPublisher[d]
         /\ nameToPublisher'[c] \in DOMAIN publishers'[c] /\ nameToPublisher'[c] <= Len(publishers'[c])
         /\ \A n \in DOMAIN publishers[c] : n \in DOMAIN publishers'[c] /\ publishers'[c][n] = publishers[c][n]
         /\ nameToPublisher[c] # 0 => publishers'[c] = publishers[c] /\ nameToPublisher'[c] = nameToPublisher[c]
         /\ nameToPublisher[c] = 0 => \A n \in DOMAIN publishers'[c] :
              n \in DOMAIN publishers[c] \/ (n = nameToPublisher'[c] /\ publishers'[c][n] = "creating")
<1>1. publishers \in [Configs -> Seq(PublisherStates)] /\ nameToPublisher \in [Configs -> Nat]
      /\ publishers[c] \in Seq(PublisherStates)
      /\ Len(publishers[c]) \in Nat /\ DOMAIN publishers[c] = 1..Len(publishers[c])
  BY DEF Types
<1>2. CASE nameToPublisher[c] # 0
  <2>1. UNCHANGED caching
    BY <1>2 DEF GetOrCreatePublisher
  <2>2. nameToPublisher[c] \in 1..Len(publishers[c])
    BY <1>1, <1>2
  <2> QED
    BY <1>1, <1>2, <2>1, <2>2 DEF caching
<1>3. CASE nameToPublisher[c] = 0
  <2> DEFINE s == Append(publishers[c], "creating")
             k == Len(publishers[c]) + 1
  <2>1. publishers' = [publishers EXCEPT ![c] = s] /\ nameToPublisher' = [nameToPublisher EXCEPT ![c] = k]
    BY <1>3 DEF GetOrCreatePublisher
  <2>2. /\ s \in Seq(PublisherStates) /\ Len(s) = k
        /\ DOMAIN s = DOMAIN publishers[c] \cup {k} /\ k \notin DOMAIN publishers[c]
        /\ s[k] = "creating" /\ \A n \in DOMAIN publishers[c] : s[n] = publishers[c][n]
    BY <1>1, AppendPublisher DEF PublisherStates
  <2>3. k \in Nat /\ k <= Len(s)
    BY <1>1, <2>2
  <2> HIDE DEF s, k
  <2> QED
    BY <1>1, <1>3, <2>1, <2>2, <2>3
<1> QED
  BY <1>2, <1>3

\* The release of a publisher is known: those who waited for it go on.
LEMMA ReleaseSettles ==
  ASSUME Types, NEW c \in Configs, NEW n \in DOMAIN publishers[c], NEW p \in {"found", "skipped", "unfound"},
         SettleRelease(c, n, p)
  PROVE  /\ PublisherGoes(c, n, p)
         /\ uploads' \in [Uploads -> UploadStates] /\ manager' \in Managers(Tasks) /\ pending' \in SUBSET Tasks
         /\ manager'.tasks = manager.tasks /\ manager.errors \subseteq manager'.errors
         /\ pending' \subseteq pending /\ (p = "found" => pending' = pending)
         /\ \A u \in Uploads :
              \/ uploads'[u] = uploads[u] /\ (u \in pending => u \in pending')
              \/ /\ uploads[u].at = "awaitingRelease" /\ u[2] = c /\ uploads'[u].at = AtRelease(p)
                 /\ p = "unfound" /\ u \in pending => manager'.errors # {}
         /\ \A t \in pending : t \notin Uploads => t \in pending'
<1> DEFINE W == {u \in Uploads : u[2] = c /\ uploads[u].at = "awaitingRelease" /\ uploads[u].publisher = n}
<1>1. /\ publishers' = [publishers EXCEPT ![c][n] = p]
      /\ uploads' = [u \in Uploads |->
           IF u \in W THEN [uploads[u] EXCEPT !.at = AtRelease(p), !.publisher = 0] ELSE uploads[u]]
      /\ manager' = IF p = "unfound" THEN [manager EXCEPT !.errors = @ \cup (W \cap pending)] ELSE manager
      /\ pending' = IF p = "found" THEN pending ELSE pending \ W
  BY DEF SettleRelease
<1>2. PublisherGoes(c, n, p)
  BY <1>1, PublisherGoesTo DEF PublisherStates, Created
<1>3. AtRelease(p) \in UploadSteps
  BY DEF AtRelease, UploadSteps
<1>4. \A u \in Uploads : /\ uploads[u] \in UploadStates
                         /\ [uploads[u] EXCEPT !.at = AtRelease(p), !.publisher = 0] \in UploadStates
                         /\ [uploads[u] EXCEPT !.at = AtRelease(p), !.publisher = 0].at = AtRelease(p)
  <2>1. \A u \in Uploads : uploads[u] \in UploadStates
    BY RecordsAre
  <2>2. ASSUME NEW r \in UploadStates, NEW x \in UploadSteps
        PROVE  [r EXCEPT !.at = x, !.publisher = 0] \in UploadStates /\ [r EXCEPT !.at = x, !.publisher = 0].at = x
    BY <2>2 DEF UploadStates
  <2> QED
    BY <1>3, <2>1, <2>2
<1>5. W \subseteq Uploads /\ W \cap pending \in SUBSET Tasks /\ pending \in SUBSET Tasks
  BY DEF Types
<1>6. \A u \in W : uploads[u].at = "awaitingRelease" /\ u[2] = c
  OBVIOUS
<1> HIDE DEF W
<1>7. /\ manager' \in Managers(Tasks) /\ manager'.tasks = manager.tasks /\ manager.errors \subseteq manager'.errors
      /\ p = "unfound" => W \cap pending \subseteq manager'.errors
  <2> DEFINE E == W \cap pending
  <2>1. manager \in Managers(Tasks) /\ E \in SUBSET Tasks
    BY <1>5, RecordsAre
  <2>0. p = "unfound" => manager' = WithErrors(manager, E)
    BY <1>1 DEF WithErrors
  <2> HIDE DEF E
  <2>2. /\ WithErrors(manager, E) \in Managers(Tasks)
        /\ WithErrors(manager, E).tasks = manager.tasks
        /\ WithErrors(manager, E).errors = manager.errors \cup E
    BY <2>1, ManagerErrors
  <2>3. CASE p = "unfound"
    BY <2>0, <2>2, <2>3 DEF E
  <2>4. CASE p # "unfound"
    BY <1>1, <2>1, <2>4
  <2> QED
    BY <2>3, <2>4
<1>8. /\ uploads' \in [Uploads -> UploadStates]
      /\ \A u \in Uploads : u \in W => uploads'[u].at = AtRelease(p)
      /\ \A u \in Uploads : u \notin W => uploads'[u] = uploads[u]
  BY <1>1, <1>4
<1>9. pending' \in SUBSET Tasks /\ pending' \subseteq pending /\ (p = "found" => pending' = pending)
  BY <1>1, <1>5
<1>10. ASSUME NEW u \in Uploads, u \in W PROVE p = "unfound" /\ u \in pending => manager'.errors # {}
  BY <1>7, <1>10
<1>11. \A t \in pending : t \notin W => t \in pending'
  BY <1>1
<1> QED
  BY <1>2, <1>5, <1>6, <1>7, <1>8, <1>9, <1>10, <1>11

\* upload() was called and its promise is among the tasks.
Called(u, x) ==
  /\ UploadMoves(u, x) /\ uploads'[u].attempt = uploads[u].attempt
  /\ manager'.tasks = manager.tasks \cup {u}
  /\ pending \subseteq pending' /\ pending' \subseteq pending \cup {u}
  /\ x \in {"awaitingRelease", "sending"} => u \in pending'
  /\ x = "failed" => manager'.errors # {}

\* A task that has succeeded, or failed.
LEMMA SettledEither ==
  ASSUME NEW m \in Managers(Tasks), NEW t \in Tasks
  PROVE  /\ SettleTask(m, t, FALSE) \in Managers(Tasks) /\ SettleTask(m, t, FALSE).tasks = m.tasks
         /\ SettleTask(m, t, FALSE).errors = m.errors \cup {t}
         /\ SettleTask(m, t, TRUE) \in Managers(Tasks) /\ SettleTask(m, t, TRUE).tasks = m.tasks
         /\ SettleTask(m, t, TRUE).errors = m.errors
<1>1. m.tasks \in SUBSET Tasks /\ m.errors \in SUBSET Tasks /\ m.cancellableTasks \in SUBSET Tasks
  BY DEF Managers
<1> QED
  BY <1>1 DEF Managers, SettleTask

\* What a scheduler is about to upload to is a configuration, and that upload one of its own.
LEMMA HeadIs ==
  ASSUME Types, NEW s \in Schedulers, Todo(s), schedulers[s].todo # <<>>
  PROVE  /\ Head(schedulers[s].todo) \in Configs /\ <<s, Head(schedulers[s].todo)>> \in Uploads
         /\ Tail(schedulers[s].todo) \in Seq(Configs)
         /\ s \in Configs => Head(schedulers[s].todo) = s /\ Tail(schedulers[s].todo) = <<>>
<1>1. schedulers[s].todo \in Seq(Configs)
  BY RecordsAre
<1>2. Head(schedulers[s].todo) \in Configs /\ Tail(schedulers[s].todo) \in Seq(Configs)
  BY <1>1, TodoTail
<1>3. s \in Configs => Head(schedulers[s].todo) = s /\ Tail(schedulers[s].todo) = <<>>
  BY <1>1, TodoTail DEF Todo
<1> QED
  BY <1>2, <1>3, SchedulerKinds

\* What a call of upload() does.
LEMMA UploadIs ==
  ASSUME Types, NEW s \in Schedulers, Todo(s), Upload(s),
         NEW c, c = Head(schedulers[s].todo), NEW n, n = schedulers[s].publisher
  PROVE  /\ c \in Configs /\ <<s, c>> \in Uploads /\ n \in DOMAIN publishers[c] /\ schedulers[s].at = "creating"
         /\ Moves(s, "scheduling") /\ schedulers'[s].todo = Tail(schedulers[s].todo)
         /\ publishers' \in [Configs -> Seq(PublisherStates)] /\ uploads' \in [Uploads -> UploadStates]
         /\ manager' \in Managers(Tasks) /\ pending' \in SUBSET Tasks /\ manager.errors \subseteq manager'.errors
         /\ \/ publishers[c][n] = "null" /\ UNCHANGED <<publishers, uploads, manager, pending>>
            \/ /\ publishers[c][n] \in Created /\ cancelled /\ UploadMoves(<<s, c>>, "failed")
               /\ UNCHANGED <<publishers, manager, pending>>
            \/ /\ publishers[c][n] \in Created /\ ~cancelled
               /\ \E x \in {"awaitingRelease", "sending", "done", "failed"} :
                    /\ Called(<<s, c>>, x)
                    /\ x = "awaitingRelease" =>
                         /\ c \in GitHub /\ publishers[c][n] \in Unsettled
                         /\ PublisherGoes(c, n, IF publishers[c][n] = "created" THEN "looking" ELSE publishers[c][n])
                    /\ x # "awaitingRelease" => UNCHANGED publishers
                    /\ x = "sending" => c \notin GitHub \/ publishers[c][n] = "found"
                    /\ x = "done" => publishers[c][n] = "skipped"
<1> DEFINE u == <<s, c>>
           p == publishers[c][n]
           m == AddTasks(manager, {u}, {})
<1>1. schedulers[s].at = "creating" /\ p \in Created \cup {"null"}
      /\ schedulers' = [schedulers EXCEPT ![s].at = "scheduling", ![s].todo = Tail(@)]
  BY DEF Upload, PublisherOf
<1>2. schedulers[s].todo # <<>> /\ n \in DOMAIN publishers[c]
  BY <1>1 DEF Todo
<1>3. c \in Configs /\ u \in Uploads /\ Tail(schedulers[s].todo) \in Seq(Configs)
  BY <1>2, HeadIs
<1>4. Moves(s, "scheduling") /\ schedulers'[s].todo = Tail(schedulers[s].todo)
  BY <1>1, <1>3, ListIs DEF SchedulerSteps
<1>5. u \in Tasks /\ n \in Nat /\ manager \in Managers(Tasks) /\ pending \in SUBSET Tasks
      /\ publishers \in [Configs -> Seq(PublisherStates)] /\ uploads \in [Uploads -> UploadStates]
  BY <1>3, TaskKinds, RecordsAre DEF Types
<1>6. \/ /\ p = "null" /\ UNCHANGED <<publishers, uploads, manager, pending>>
      \/ /\ p # "null" /\ cancelled /\ uploads' = [uploads EXCEPT ![u].at = "failed"]
         /\ UNCHANGED <<publishers, manager, pending>>
      \/ /\ p # "null" /\ ~cancelled /\ c \notin GitHub /\ uploads' = [uploads EXCEPT ![u].at = "sending"]
         /\ AddTask(u) /\ UNCHANGED publishers
      \/ /\ p \in Unsettled /\ ~cancelled /\ c \in GitHub
         /\ publishers' = [publishers EXCEPT ![c][n] = IF p = "created" THEN "looking" ELSE p]
         /\ uploads' = [uploads EXCEPT ![u].at = "awaitingRelease", ![u].publisher = n]
         /\ AddTask(u)
      \/ /\ p \in {"found", "skipped", "unfound"} /\ ~cancelled
         /\ uploads' = [uploads EXCEPT ![u].at = AtRelease(p)]
         /\ manager' = SettleTask(AddTasks(manager, {u}, {}), u, p # "unfound")
         /\ pending' = IF p = "found" THEN pending \cup {u} ELSE pending
         /\ UNCHANGED publishers
  BY DEF Upload, PublisherOf
<1>g. c \in Configs /\ u \in Uploads /\ n \in DOMAIN publishers[c] /\ schedulers[s].at = "creating"
  BY <1>1, <1>2, <1>3
<1>7. CASE p = "null" /\ UNCHANGED <<publishers, uploads, manager, pending>>
  BY <1>g, <1>4, <1>5, <1>7
<1>8. CASE /\ p # "null" /\ cancelled /\ uploads' = [uploads EXCEPT ![u].at = "failed"]
           /\ UNCHANGED <<publishers, manager, pending>>
  <2>1. UploadMoves(u, "failed")
    BY <1>3, <1>8, UploadGoesTo DEF UploadSteps
  <2>2. uploads' \in [Uploads -> UploadStates]
    BY <2>1 DEF UploadMoves
  <2> QED
    BY <1>g, <1>1, <1>4, <1>5, <1>8, <2>1, <2>2
<1>9. CASE /\ p # "null" /\ ~cancelled /\ c \notin GitHub /\ uploads' = [uploads EXCEPT ![u].at = "sending"]
           /\ AddTask(u) /\ UNCHANGED publishers
  <2>1. UploadMoves(u, "sending") /\ uploads'[u].attempt = uploads[u].attempt
    BY <1>3, <1>9, UploadGoesTo DEF UploadSteps
  <2>2. /\ manager' \in Managers(Tasks) /\ pending' \in SUBSET Tasks /\ manager'.errors = manager.errors
        /\ manager'.tasks = manager.tasks \cup {u} /\ pending' = pending \cup {u}
    BY <1>5, <1>9, TaskIsAdded
  <2>3. Called(u, "sending") /\ uploads' \in [Uploads -> UploadStates]
    BY <2>1, <2>2 DEF Called, UploadMoves
  <2> QED
    BY <1>g, <1>1, <1>4, <1>5, <1>9, <2>2, <2>3
<1>10. CASE /\ p \in Unsettled /\ ~cancelled /\ c \in GitHub
            /\ publishers' = [publishers EXCEPT ![c][n] = IF p = "created" THEN "looking" ELSE p]
            /\ uploads' = [uploads EXCEPT ![u].at = "awaitingRelease", ![u].publisher = n]
            /\ AddTask(u)
  <2>1. UploadMoves(u, "awaitingRelease") /\ uploads'[u].attempt = uploads[u].attempt
    BY <1>3, <1>5, <1>10, UploadWaits DEF UploadSteps
  <2>2. /\ manager' \in Managers(Tasks) /\ pending' \in SUBSET Tasks /\ manager'.errors = manager.errors
        /\ manager'.tasks = manager.tasks \cup {u} /\ pending' = pending \cup {u}
    BY <1>5, <1>10, TaskIsAdded
  <2>3. Called(u, "awaitingRelease") /\ uploads' \in [Uploads -> UploadStates]
    BY <2>1, <2>2 DEF Called, UploadMoves
  <2> DEFINE q == IF p = "created" THEN "looking" ELSE p
  <2>4. q \in PublisherStates /\ p \in Created
    BY <1>10 DEF PublisherStates, Created, Unsettled
  <2>5. publishers' = [publishers EXCEPT ![c][n] = q]
    BY <1>10
  <2>6. PublisherGoes(c, n, q)
    <3> HIDE DEF q
    <3> QED
      BY <1>g, <2>4, <2>5, PublisherGoesTo
  <2>7. publishers' \in [Configs -> Seq(PublisherStates)]
    BY <2>6 DEF PublisherGoes
  <2> QED
    BY <1>g, <1>4, <1>10, <2>2, <2>3, <2>4, <2>6, <2>7
<1>11. CASE /\ p \in {"found", "skipped", "unfound"} /\ ~cancelled
            /\ uploads' = [uploads EXCEPT ![u].at = AtRelease(p)]
            /\ manager' = SettleTask(AddTasks(manager, {u}, {}), u, p # "unfound")
            /\ pending' = IF p = "found" THEN pending \cup {u} ELSE pending
            /\ UNCHANGED publishers
  <2> DEFINE x == AtRelease(p)
  <2>0. x \in {"sending", "done", "failed"} /\ (x = "sending" => p = "found") /\ (x = "done" => p = "skipped")
        /\ (x = "failed" => p = "unfound")
    BY <1>11 DEF AtRelease
  <2>1. uploads' = [uploads EXCEPT ![u].at = x] /\ x \in UploadSteps
    BY <1>11, <2>0 DEF UploadSteps
  <2> HIDE DEF x
  <2>2. UploadMoves(u, x) /\ uploads'[u].attempt = uploads[u].attempt
    BY <1>3, <2>1, UploadGoesTo
  <2>3. m \in Managers(Tasks) /\ m.tasks = manager.tasks \cup {u} /\ m.errors = manager.errors
    <3>1. {u} \in SUBSET Tasks
      BY <1>5
    <3> QED
      BY <1>5, <3>1, ManagerMethods
  <2>4. manager' = SettleTask(m, u, p # "unfound")
    BY <1>11
  <2> HIDE DEF m
  <2>5. /\ manager' \in Managers(Tasks) /\ manager'.tasks = manager.tasks \cup {u}
        /\ manager.errors \subseteq manager'.errors
        /\ p = "unfound" => manager'.errors # {}
    <3>1. p = "unfound" => manager' = SettleTask(m, u, FALSE)
      BY <2>4
    <3>2. p # "unfound" => manager' = SettleTask(m, u, TRUE)
      BY <2>4
    <3>3. u \in Tasks /\ m \in Managers(Tasks)
      BY <1>5, <2>3
    <3>4. /\ SettleTask(m, u, FALSE) \in Managers(Tasks) /\ SettleTask(m, u, FALSE).tasks = m.tasks
          /\ SettleTask(m, u, FALSE).errors = m.errors \cup {u}
      BY <3>3, SettledEither
    <3>5. /\ SettleTask(m, u, TRUE) \in Managers(Tasks) /\ SettleTask(m, u, TRUE).tasks = m.tasks
          /\ SettleTask(m, u, TRUE).errors = m.errors
      BY <3>3, SettledEither
    <3>6. CASE p = "unfound"
      BY <2>3, <3>1, <3>4, <3>6
    <3>7. CASE p # "unfound"
      BY <2>3, <3>2, <3>5, <3>7
    <3> QED
      BY <3>6, <3>7
  <2>6. pending' \in SUBSET Tasks /\ pending \subseteq pending' /\ pending' \subseteq pending \cup {u}
        /\ (p = "found" => u \in pending')
    BY <1>5, <1>11
  <2>7. Called(u, x) /\ uploads' \in [Uploads -> UploadStates]
    BY <2>0, <2>2, <2>5, <2>6 DEF Called, UploadMoves
  <2>8. p \in Created
    BY <1>11 DEF Created
  <2> QED
    BY <1>g, <1>4, <1>5, <1>11, <2>0, <2>5, <2>6, <2>7, <2>8
<1> QED
  BY <1>6, <1>7, <1>8, <1>9, <1>10, <1>11

\* What is listened to, before and after a step that may add a task or hear one settle.
Listens ==
  /\ manager' \in Managers(Tasks) /\ pending' \in SUBSET Tasks
  /\ manager.tasks \subseteq manager'.tasks /\ manager.errors \subseteq manager'.errors
  /\ \A t \in pending' : t \in pending \/ t \in manager'.tasks

\* A promise that settles, or is added, and one whose task is not heard.
LEMMA SettleListens ==
  ASSUME Types, NEW t, NEW isOk, Settle(t, isOk)
  PROVE  Listens /\ pending' = pending \ {t} /\ (t \in pending /\ ~isOk => manager'.errors # {})
  BY SettledTask DEF Types, Listens

\* A promise that is added is pending, unless the build was cancelled.
LEMMA AddListens ==
  ASSUME Types, NEW t \in Tasks, AddTask(t)
  PROVE  /\ Listens /\ pending \subseteq pending' /\ pending' \subseteq pending \cup {t}
         /\ ~cancelled => t \in pending'
  BY TaskIsAdded DEF Types, Listens

\* Nothing is heard by a manager that does not change.
LEMMA SameListens ==
  ASSUME Types, UNCHANGED <<manager, pending>> PROVE Listens
  BY DEF Types, Listens

\* A call of upload() adds a task, if it adds anything.
LEMMA CalledListens ==
  ASSUME Types, manager' \in Managers(Tasks), pending' \in SUBSET Tasks, manager.errors \subseteq manager'.errors,
         NEW u, NEW x, Called(u, x)
  PROVE  Listens
  BY DEF Called, Listens

\* The end of a scheduler: for an artifact's, its handler's task, and the one of its update info.
LEMMA EndScheduleIs ==
  ASSUME Types, NEW s \in Schedulers, EndSchedule(s)
  PROVE  /\ schedulers[s].at = "scheduling" /\ ~GoesOn(s)
         /\ Moves(s, "ended") /\ schedulers'[s].todo = schedulers[s].todo
         /\ Listens
         /\ \A t \in pending : t \in pending' \/ (s \in Artifacts /\ t = Handle(s))
         /\ s \in Updatable /\ ~cancelled => CreateInfo(s) \in pending'
<1>1. schedulers[s].at = "scheduling" /\ ~GoesOn(s) /\ Moves(s, "ended") /\ schedulers'[s].todo = schedulers[s].todo
  BY MoveIs DEF EndSchedule, SchedulerSteps
<1>2. manager \in Managers(Tasks) /\ pending \in SUBSET Tasks
  BY DEF Types
<1>3. CASE s \in Artifacts /\ ~cancelled
  <2> DEFINE info == {CreateInfo(s)} \cap Tasks
             m == AddTasks(manager, info, {})
  <2>1. manager' = SettleTask(m, Handle(s), TRUE) /\ pending' = (pending \cup info) \ {Handle(s)}
    BY <1>3 DEF EndSchedule
  <2>2. /\ info \in SUBSET Tasks /\ Handle(s) \in Tasks /\ Handle(s) # CreateInfo(s)
        /\ (s \in Updatable => CreateInfo(s) \in info) /\ Handle(s) \notin info
    BY <1>3, TaskKinds
  <2> HIDE DEF info
  <2>3. m \in Managers(Tasks) /\ m.tasks = manager.tasks \cup info /\ m.errors = manager.errors
    BY <1>2, <2>2, ManagerMethods
  <2> HIDE DEF m
  <2>4. manager' \in Managers(Tasks) /\ manager'.tasks = m.tasks /\ manager'.errors = m.errors
    BY <2>1, <2>2, <2>3, SettledEither
  <2>5. \A t \in pending : t \in pending' \/ (s \in Artifacts /\ t = Handle(s))
    BY <1>3, <2>1
  <2>6. s \in Updatable /\ ~cancelled => CreateInfo(s) \in pending'
    BY <2>1, <2>2
  <2>7. pending' \in SUBSET Tasks /\ \A t \in pending' : t \in pending \/ t \in manager'.tasks
    BY <1>2, <2>1, <2>2, <2>3, <2>4
  <2>8. Listens
    BY <2>3, <2>4, <2>7 DEF Listens
  <2> QED
    BY <1>1, <2>5, <2>6, <2>8
<1>4. CASE ~(s \in Artifacts /\ ~cancelled)
  <2>1. \/ s \in Artifacts /\ Settle(Handle(s), TRUE)
        \/ UNCHANGED <<manager, pending>>
    BY <1>4 DEF EndSchedule
  <2>2. Listens
    BY <2>1, SettleListens, SameListens
  <2>3. \A t \in pending : t \in pending' \/ (s \in Artifacts /\ t = Handle(s))
    BY <2>1, SettleListens
  <2>4. s \in Updatable => s \in Artifacts
    BY ArtifactsAssumption
  <2> QED
    BY <1>1, <1>4, <2>2, <2>3, <2>4
<1> QED
  BY <1>3, <1>4

\* The attempts of an upload are within their bound.
UploadTypes ==
  /\ uploads \in [Uploads -> UploadStates]
  /\ \A u \in Uploads : uploads[u].at \in {"overwriting", "delaying"} => uploads[u].attempt <= MaxAttempts

\* One upload moves, within the bound of its attempts.
LEMMA OneUploadTypes ==
  ASSUME Types, NEW u \in Uploads, NEW x, UploadMoves(u, x),
         x \notin {"overwriting", "delaying"} \/ uploads'[u].attempt <= MaxAttempts
  PROVE  UploadTypes'
  BY DEF Types, UploadMoves, UploadTypes

\* Uploads go on as their release is known, within the bound of their attempts.
LEMMA UploadsOfRelease ==
  ASSUME Types, uploads' \in [Uploads -> UploadStates],
         \A u \in Uploads : uploads'[u] = uploads[u] \/ uploads'[u].at \in {"sending", "done", "failed"}
  PROVE  UploadTypes'
  BY DEF Types, UploadTypes

\* The state around a release.
ReleaseTypes ==
  /\ publishers \in [Configs -> Seq(PublisherStates)] /\ UploadTypes
  /\ manager \in Managers(Tasks) /\ pending \in SUBSET Tasks

\* A release that is known, or is not to be, leaves the state around it well formed.
LEMMA SettledTypes ==
  ASSUME Types, NEW c \in Configs, NEW n \in DOMAIN publishers[c], NEW p \in {"found", "skipped", "unfound"},
         SettleRelease(c, n, p)
  PROVE  ReleaseTypes'
<1>1. /\ PublisherGoes(c, n, p) /\ uploads' \in [Uploads -> UploadStates]
      /\ manager' \in Managers(Tasks) /\ pending' \in SUBSET Tasks
      /\ \A u \in Uploads : uploads'[u] = uploads[u] \/ uploads'[u].at = AtRelease(p)
  BY ReleaseSettles
<1>2. AtRelease(p) \in {"sending", "done", "failed"}
  BY DEF AtRelease
<1>3. UploadTypes'
  BY <1>1, <1>2, UploadsOfRelease
<1> QED
  BY <1>1, <1>3 DEF ReleaseTypes, PublisherGoes

\* Releases that are made: a withheld one stays what it is, where none is made nothing changes.
LEMMA MadeIs ==
  ASSUME NEW C
  PROVE  /\ release \in [GitHub -> {"none", "open", "withheld", "double"}] =>
              MadeOnServer(C) \in [GitHub -> {"none", "open", "withheld", "double"}]
         /\ \A c \in GitHub : c \notin C => MadeOnServer(C)[c] = release[c]
         /\ \A c \in GitHub : c \in C => MadeOnServer(C)[c] \in {"open", "double"}
         /\ \A c \in GitHub : c \in C /\ release[c] = "none" => MadeOnServer(C)[c] = "open"
  BY DEF MadeOnServer

\* What a cancel does to everything that runs.
LEMMA CancelIs ==
  ASSUME Types, Cancel
  PROVE  /\ publishers' \in [Configs -> Seq(PublisherStates)] /\ nameToPublisher' \in [Configs -> Nat]
         /\ UploadTypes' /\ assets' \in [Uploads -> {"none", "old", "new"}]
         /\ release' \in [GitHub -> {"none", "open", "withheld", "double"}]
         /\ manager' \in Managers(Tasks) /\ pending' \in SUBSET Tasks /\ manager.errors \subseteq manager'.errors
         /\ \A c \in Configs : /\ nameToPublisher'[c] = 0
                               /\ Len(publishers'[c]) = Len(publishers[c]) /\ DOMAIN publishers'[c] = DOMAIN publishers[c]
                               /\ \A n \in DOMAIN publishers[c] :
                                    publishers'[c][n] = IF publishers[c][n] \in {"looking", "making"} THEN "unfound"
                                                        ELSE publishers[c][n]
         /\ \A u \in Uploads : \/ uploads'[u] = uploads[u] /\ u \notin InFlight
                               \/ uploads'[u].at = "failed" /\ u \in InFlight
         /\ \A u \in Uploads : assets'[u] = assets[u] \/ (assets'[u] = "new" /\ uploads[u].at = "sending")
         /\ \A c \in GitHub : \/ release'[c] = release[c]
                              \/ /\ \E n \in DOMAIN publishers[c] : publishers[c][n] = "making"
                                 /\ release'[c] \in {"open", "double"}
<1>1. /\ publishers \in [Configs -> Seq(PublisherStates)] /\ manager \in Managers(Tasks) /\ pending \in SUBSET Tasks
      /\ uploads \in [Uploads -> UploadStates] /\ assets \in [Uploads -> {"none", "old", "new"}]
      /\ release \in [GitHub -> {"none", "open", "withheld", "double"}]
  BY DEF Types
<1>2. nameToPublisher' \in [Configs -> Nat] /\ \A c \in Configs : nameToPublisher'[c] = 0
  BY DEF Cancel
<1>3. ASSUME NEW c \in Configs
      PROVE  /\ publishers'[c] \in Seq(PublisherStates)
             /\ Len(publishers'[c]) = Len(publishers[c]) /\ DOMAIN publishers'[c] = DOMAIN publishers[c]
             /\ \A n \in DOMAIN publishers[c] :
                  publishers'[c][n] = IF publishers[c][n] \in {"looking", "making"} THEN "unfound" ELSE publishers[c][n]
  <2> DEFINE P == publishers[c]
             Q == [n \in DOMAIN P |-> IF P[n] \in {"looking", "making"} THEN "unfound" ELSE P[n]]
  <2>1. publishers'[c] = Q
    BY DEF Cancel
  <2>2. P \in Seq(PublisherStates) /\ DOMAIN P = 1..Len(P) /\ Len(P) \in Nat
        /\ \A n \in DOMAIN P : P[n] \in PublisherStates
    BY RecordsAre
  <2>3. Q \in [1..Len(P) -> PublisherStates]
    BY <2>2 DEF PublisherStates, Created
  <2>4. Q \in Seq(PublisherStates) /\ Len(Q) = Len(P)
    <3> HIDE DEF Q
    <3>1. Q \in Seq(PublisherStates)
      BY <2>2, <2>3
    <3>2. DOMAIN Q = 1..Len(P) /\ DOMAIN Q = 1..Len(Q) /\ Len(Q) \in Nat
      BY <2>3, <3>1
    <3> QED
      BY <2>2, <3>1, <3>2
  <2> QED
    BY <2>1, <2>4
<1>4. publishers' \in [Configs -> Seq(PublisherStates)]
  <2>1. publishers' = [c \in Configs |-> publishers'[c]]
    BY DEF Cancel
  <2> QED
    BY <2>1, <1>3
<1>5. \A u \in Uploads : \/ uploads'[u] = uploads[u] /\ u \notin InFlight
                         \/ uploads'[u] = [uploads[u] EXCEPT !.at = "failed", !.publisher = 0] /\ u \in InFlight
  BY DEF Cancel
<1>6. \A u \in Uploads : /\ [uploads[u] EXCEPT !.at = "failed", !.publisher = 0] \in UploadStates
                         /\ [uploads[u] EXCEPT !.at = "failed", !.publisher = 0].at = "failed"
  <2>1. ASSUME NEW r \in UploadStates
        PROVE  [r EXCEPT !.at = "failed", !.publisher = 0] \in UploadStates /\ [r EXCEPT !.at = "failed", !.publisher = 0].at = "failed"
    BY DEF UploadStates, UploadSteps
  <2>2. \A u \in Uploads : uploads[u] \in UploadStates
    BY RecordsAre
  <2> QED
    BY <2>1, <2>2
<1>7. \A u \in Uploads : \/ uploads'[u] = uploads[u] /\ u \notin InFlight
                         \/ uploads'[u].at = "failed" /\ u \in InFlight
  BY <1>1, <1>5, <1>6
<1>8. UploadTypes'
  <2>1. uploads' = [u \in Uploads |-> uploads'[u]]
    BY DEF Cancel
  <2>2. \A u \in Uploads : uploads'[u] \in UploadStates
    BY <1>1, <1>5, <1>6
  <2> QED
    BY <1>7, <2>1, <2>2, UploadsOfRelease
<1>9. /\ assets' \in [Uploads -> {"none", "old", "new"}]
      /\ \A u \in Uploads : assets'[u] = assets[u] \/ (assets'[u] = "new" /\ uploads[u].at = "sending")
  <2>1. PICK Done \in SUBSET {u \in InFlight : uploads[u].at = "sending" /\ assets[u] = "none"} :
          assets' = [u \in Uploads |-> IF u \in Done THEN "new" ELSE assets[u]]
    BY DEF Cancel
  <2> QED
    BY <1>1, <2>1
<1>10. /\ release' \in [GitHub -> {"none", "open", "withheld", "double"}]
       /\ \A c \in GitHub : \/ release'[c] = release[c]
                            \/ /\ \E n \in DOMAIN publishers[c] : publishers[c][n] = "making"
                               /\ release'[c] \in {"open", "double"}
  <2>1. PICK Made \in SUBSET {c \in GitHub : "making" \in ToSet(publishers[c])} : release' = MadeOnServer(Made)
    BY DEF Cancel
  <2>2. \A c \in Made : \E n \in DOMAIN publishers[c] : publishers[c][n] = "making"
    BY <2>1 DEF ToSet
  <2> QED
    BY <1>1, <2>1, <2>2, MadeIs
<1>11. manager' \in Managers(Tasks) /\ pending' \in SUBSET Tasks /\ manager.errors \subseteq manager'.errors
  <2> DEFINE E == InFlight \cap pending
             m == CancelTasks(manager)
  <2>1. manager' = WithErrors(m, E) /\ pending' = pending \ InFlight
    BY DEF Cancel, WithErrors
  <2>2. E \in SUBSET Tasks /\ m \in Managers(Tasks) /\ m.errors = manager.errors
    BY <1>1, ManagerGivesUp
  <2> HIDE DEF E, m
  <2>3. WithErrors(m, E) \in Managers(Tasks) /\ WithErrors(m, E).errors = m.errors \cup E
    BY <2>2, ManagerErrors
  <2> QED
    BY <1>1, <2>1, <2>2, <2>3
<1> QED
  BY <1>2, <1>3, <1>4, <1>7, <1>8, <1>9, <1>10, <1>11

\* Every step keeps the types.
LEMMA NextTypes ==
  ASSUME IInv, [Next]_vars PROVE Types'
<1>a. Types /\ Stages /\ Sharing
  BY DEF IInv
<1> USE DEF packager, caching, tasks, server
<1>1. CASE StartHook
  BY <1>a, <1>1 DEF StartHook, Build!Resolve, Types, Steps
<1>2. CASE BuildFails
  <2>1. manager' \in Managers(Tasks) /\ failures' \in 0..MaxFailures
    BY <1>2, <1>a, RecordsAre, ManagerGivesUp, FailsOnce DEF BuildFails, CancelPublishing
  <2> QED
    BY <1>a, <1>2, <2>1 DEF BuildFails, CancelPublishing, Build!Reject, Ends, Types, Steps
<1>3. CASE HookReturns
  <2>1. Moves(Extra, "scheduling")
    BY <1>a, <1>3, ListIs, SchedulerKinds, ConfigsAssumption DEF HookReturns, SchedulerSteps
  <2> QED
    BY <1>a, <1>3, <2>1 DEF HookReturns, Moves, Types
<1>4. CASE EndHook
  BY <1>a, <1>4 DEF EndHook, Types, Steps
<1>5. CASE HookFails
  <2>1. manager' \in Managers(Tasks) /\ failures' \in 0..MaxFailures
    BY <1>5, <1>a, RecordsAre, ManagerGivesUp, FailsOnce DEF HookFails, CancelPublishing, Types
  <2> QED
    BY <1>a, <1>5, <2>1 DEF HookFails, CancelPublishing, Ends, Types, Steps
<1>6. CASE AwaitTasks \/ EndRound
  <2>1. PICK d : Continue(d) /\ UNCHANGED <<packager, isPublish, schedulers, caching, infos, pending, server, failures>>
    BY <1>6 DEF AwaitTasks, EndRound
  <2>2. manager' \in Managers(Tasks) /\ round' \in {NoWait} \cup SUBSET Tasks
    BY <1>a, <2>1, RecordsAre, ManagerMethods DEF Continue
  <2>3. step' \in Steps /\ isListening' \in BOOLEAN
    BY <1>a, <2>1 DEF Continue, Ends, Types, Steps
  <2> QED
    BY <1>a, <2>1, <2>2, <2>3 DEF Types
<1>7. CASE WriteUpdateInfoFiles
  <2>1. \A s \in Configs : <<s>> \in Seq(Configs)
    OBVIOUS
  <2>2. ASSUME NEW s \in Configs
        PROVE  [schedulers[s] EXCEPT !.at = "scheduling", !.todo = <<s>>] \in SchedulerStates
    <3>1. schedulers[s] \in SchedulerStates /\ <<s>> \in Seq(Configs)
      BY <1>a, <2>1, RecordsAre, SchedulerKinds
    <3> QED
      BY <3>1 DEF SchedulerStates, SchedulerSteps
  <2>3. schedulers' \in [Schedulers -> SchedulerStates]
    BY <1>a, <1>7, <2>2, RecordsAre DEF WriteUpdateInfoFiles
  <2> QED
    BY <1>a, <1>7, <2>3 DEF WriteUpdateInfoFiles, Types, Steps
<1>8. CASE SigningFails
  BY <1>a, <1>8, FailsOnce DEF SigningFails, Types, Steps
<1>9. CASE EndWriting
  BY <1>a, <1>9 DEF EndWriting, Types, Steps
<1>10. CASE \E a \in Artifacts : Emit(a)
  <2>1. PICK a \in Artifacts : Emit(a)
    BY <1>10
  <2>2. a \in Schedulers /\ Handle(a) \in Tasks
    BY SchedulerKinds, TaskKinds
  <2>3. schedulers' \in [Schedulers -> SchedulerStates] /\ manager' \in Managers(Tasks) /\ pending' \in SUBSET Tasks
    <3>1. CASE isListening
      BY <1>a, <2>1, <2>2, <3>1, MoveIs, TaskIsAdded DEF Emit, SchedulerSteps, Moves
    <3>2. CASE ~isListening
      BY <1>a, <2>1, <3>2 DEF Emit, Types
    <3> QED
      BY <3>1, <3>2
  <2> QED
    BY <1>a, <2>1, <2>3 DEF Emit, Build!Emit, Types
<1>11. CASE \E s \in Schedulers : Resolved(s)
  <2>1. PICK s \in Schedulers : Resolved(s)
    BY <1>11
  <2>2. schedulers' \in [Schedulers -> SchedulerStates]
    <3> DEFINE t == IF isPublish THEN ConfigList ELSE <<>>
    <3>1. t \in Seq(Configs)
      BY ConfigsAssumption
    <3>2. schedulers' = [schedulers EXCEPT ![s].at = "scheduling", ![s].todo = t]
      BY <2>1 DEF Resolved
    <3> HIDE DEF t
    <3> QED
      BY <1>a, <3>1, <3>2, ListIs DEF SchedulerSteps, Moves
  <2> QED
    BY <1>a, <2>1, <2>2 DEF Resolved, Types
<1>12. CASE \E s \in Schedulers : ResolvingFails(s)
  <2>1. PICK s \in Schedulers : ResolvingFails(s)
    BY <1>12
  <2>2. Moves(s, "failed") /\ failures' \in 0..MaxFailures
    BY <1>a, <2>1, MoveIs, FailsOnce DEF ResolvingFails, SchedulerSteps
  <2>3. manager' \in Managers(Tasks) /\ pending' \in SUBSET Tasks
    BY <1>a, <2>1, SettledTask DEF ResolvingFails, Types
  <2> QED
    BY <1>a, <2>1, <2>2, <2>3 DEF ResolvingFails, Moves, Types
<1>13. CASE \E s \in Schedulers : Schedule(s)
  <2>1. PICK s \in Schedulers : Schedule(s)
    BY <1>13
  <2> DEFINE c == Head(schedulers[s].todo)
  <2>2. c \in Configs /\ nameToPublisher[c] <= Len(publishers[c]) /\ GetOrCreatePublisher(c)
        /\ schedulers' = [schedulers EXCEPT ![s].at = "creating", ![s].publisher = nameToPublisher'[c]]
    BY <1>a, <2>1, RecordsAre, TodoTail DEF Schedule, GoesOn, Sharing, OnePublisher
  <2> HIDE DEF c
  <2>3. /\ publishers' \in [Configs -> Seq(PublisherStates)] /\ nameToPublisher' \in [Configs -> Nat]
    BY <1>a, <2>2, GetsPublisher
  <2>4. schedulers' \in [Schedulers -> SchedulerStates]
    BY <1>a, <2>2, <2>3, AwaitsIs DEF SchedulerSteps, Moves
  <2> QED
    BY <1>a, <2>1, <2>3, <2>4 DEF Schedule, Types
<1>14. CASE \E s \in Schedulers : Upload(s)
  <2>1. PICK s \in Schedulers : Upload(s)
    BY <1>14
  <2> DEFINE c == Head(schedulers[s].todo)
             n == schedulers[s].publisher
             u == <<s, c>>
  <2>2. Todo(s)
    BY <1>a DEF Stages
  <2>3. /\ u \in Uploads /\ Moves(s, "scheduling")
        /\ publishers' \in [Configs -> Seq(PublisherStates)] /\ uploads' \in [Uploads -> UploadStates]
        /\ manager' \in Managers(Tasks) /\ pending' \in SUBSET Tasks
        /\ \/ UNCHANGED uploads
           \/ UploadMoves(u, "failed")
           \/ \E x \in {"awaitingRelease", "sending", "done", "failed"} : Called(u, x)
    BY <1>a, <2>1, <2>2, UploadIs
  <2> HIDE DEF u
  <2>4. UploadTypes'
    <3>1. CASE UNCHANGED uploads
      BY <1>a, <3>1 DEF Types, UploadTypes
    <3>2. CASE \E x \in {"awaitingRelease", "sending", "done", "failed"} : UploadMoves(u, x)
      BY <1>a, <2>3, <3>2, OneUploadTypes
    <3> QED
      BY <2>3, <3>1, <3>2 DEF Called
  <2> QED
    BY <1>a, <2>1, <2>3, <2>4 DEF Upload, UploadTypes, Moves, Types
<1>15. CASE \E s \in Schedulers : UploadFails(s)
  <2>1. PICK s \in Schedulers : UploadFails(s)
    BY <1>15
  <2>2. Moves(s, "failed")
    BY <1>a, <2>1, MoveIs DEF UploadFails, SchedulerSteps
  <2>3. manager' \in Managers(Tasks) /\ pending' \in SUBSET Tasks
    BY <1>a, <2>1, SettledTask DEF UploadFails, Types
  <2> QED
    BY <1>a, <2>1, <2>2, <2>3 DEF UploadFails, Moves, Types
<1>16. CASE \E s \in Schedulers : EndSchedule(s)
  <2>1. PICK s \in Schedulers : EndSchedule(s)
    BY <1>16
  <2>2. Moves(s, "ended") /\ manager' \in Managers(Tasks) /\ pending' \in SUBSET Tasks
    BY <1>a, <2>1, EndScheduleIs DEF Listens
  <2> QED
    BY <1>a, <2>1, <2>2 DEF EndSchedule, Moves, Types
<1>17. CASE \E a \in Updatable : EndCreateInfo(a)
  <2>1. PICK a \in Updatable : EndCreateInfo(a)
    BY <1>17
  <2>2. manager' \in Managers(Tasks) /\ pending' \in SUBSET Tasks /\ failures' \in 0..MaxFailures
    BY <1>a, <2>1, SettledTask, FailsOnce DEF EndCreateInfo, Types
  <2> QED
    BY <1>a, <2>1, <2>2 DEF EndCreateInfo, Types
<1>18. CASE \E c \in Configs : \E n \in DOMAIN publishers[c] : PublisherCreated(c, n)
  <2>0. PICK c \in Configs : \E n \in DOMAIN publishers[c] : PublisherCreated(c, n)
    BY <1>18
  <2>1. PICK n \in DOMAIN publishers[c] : PublisherCreated(c, n)
    BY <2>0
  <2>2. PICK p \in PublisherStates : publishers' = [publishers EXCEPT ![c][n] = p]
    BY <2>1 DEF PublisherCreated, PublisherStates, Created, Unsettled
  <2>3. publishers' \in [Configs -> Seq(PublisherStates)]
    BY <1>a, <2>2, PublisherGoesTo DEF PublisherGoes
  <2> QED
    BY <1>a, <2>1, <2>3 DEF PublisherCreated, Types
<1>19. CASE \E c \in Configs : \E n \in DOMAIN publishers[c] : PublisherFails(c, n)
  <2>0. PICK c \in Configs : \E n \in DOMAIN publishers[c] : PublisherFails(c, n)
    BY <1>19
  <2>1. PICK n \in DOMAIN publishers[c] : PublisherFails(c, n)
    BY <2>0
  <2>2. publishers' \in [Configs -> Seq(PublisherStates)] /\ failures' \in 0..MaxFailures
    BY <1>a, <2>1, PublisherGoesTo, FailsOnce DEF PublisherFails, PublisherGoes, PublisherStates
  <2> QED
    BY <1>a, <2>1, <2>2 DEF PublisherFails, Types
<1>20. CASE \E c \in Configs : \E n \in DOMAIN publishers[c] : FindRelease(c, n)
  <2>0. PICK c \in Configs : \E n \in DOMAIN publishers[c] : FindRelease(c, n)
    BY <1>20
  <2>1. PICK n \in DOMAIN publishers[c] : FindRelease(c, n)
    BY <2>0
  <2>2. CASE release[c] = "none"
    <3>1. publishers' \in [Configs -> Seq(PublisherStates)]
      BY <1>a, <2>1, <2>2, PublisherGoesTo DEF FindRelease, PublisherGoes, PublisherStates, Created, Unsettled
    <3> QED
      BY <1>a, <2>1, <2>2, <3>1 DEF FindRelease, Types
  <2>3. CASE release[c] # "none"
    <3>1. PICK p \in {"found", "skipped", "unfound"} : SettleRelease(c, n, p)
      BY <2>1, <2>3 DEF FindRelease
    <3>2. ReleaseTypes'
      BY <1>a, <3>1, SettledTypes
    <3> QED
      BY <1>a, <2>1, <3>2 DEF FindRelease, ReleaseTypes, UploadTypes, Types
  <2> QED
    BY <2>2, <2>3
<1>21. CASE \E c \in Configs : \E n \in DOMAIN publishers[c] : MakeRelease(c, n)
  <2>0. PICK c \in Configs : \E n \in DOMAIN publishers[c] : MakeRelease(c, n)
    BY <1>21
  <2>1. PICK n \in DOMAIN publishers[c] : MakeRelease(c, n)
    BY <2>0
  <2>2. ReleaseTypes' /\ release' \in [GitHub -> {"none", "open", "withheld", "double"}]
    <3>1. SettleRelease(c, n, "found") /\ release' = MadeOnServer({c})
      BY <2>1 DEF MakeRelease
    <3>2. ReleaseTypes'
      BY <1>a, <3>1, SettledTypes
    <3>3. release' \in [GitHub -> {"none", "open", "withheld", "double"}]
      BY <1>a, <3>1, MadeIs DEF Types
    <3> QED
      BY <3>2, <3>3
  <2> QED
    BY <1>a, <2>1, <2>2 DEF MakeRelease, ReleaseTypes, UploadTypes, Types
<1>22. CASE \E c \in Configs : \E n \in DOMAIN publishers[c] : ReleaseFails(c, n)
  <2>0. PICK c \in Configs : \E n \in DOMAIN publishers[c] : ReleaseFails(c, n)
    BY <1>22
  <2>1. PICK n \in DOMAIN publishers[c] : ReleaseFails(c, n)
    BY <2>0
  <2>2. ReleaseTypes' /\ release' \in [GitHub -> {"none", "open", "withheld", "double"}] /\ failures' \in 0..MaxFailures
    <3>1. ReleaseTypes' /\ failures' \in 0..MaxFailures
      BY <1>a, <2>1, SettledTypes, FailsOnce DEF ReleaseFails
    <3>2. release' = release \/ release' = MadeOnServer({c})
      BY <2>1 DEF ReleaseFails
    <3> QED
      BY <1>a, <3>1, <3>2, MadeIs DEF Types
  <2> QED
    BY <1>a, <2>1, <2>2 DEF ReleaseFails, ReleaseTypes, UploadTypes, Types
<1>23. CASE \E u \in Uploads : Send(u)
  <2>1. PICK u \in Uploads : Send(u)
    BY <1>23
  <2>2. UploadMoves(u, "done") /\ manager' \in Managers(Tasks) /\ pending' \in SUBSET Tasks
    BY <1>a, <2>1, UploadGoesTo, SettledTask DEF Send, UploadSteps, Types
  <2> QED
    BY <1>a, <2>1, <2>2, OneUploadTypes DEF Send, Types, UploadMoves
<1>24. CASE \E u \in Uploads : SendIsRefused(u)
  <2>1. PICK u \in Uploads : SendIsRefused(u)
    BY <1>24
  <2>2. UploadTypes' /\ manager' \in Managers(Tasks) /\ pending' \in SUBSET Tasks
    <3>1. Catch(u, "overwriting")
      BY <2>1 DEF SendIsRefused
    <3>2. \/ UploadMoves(u, "failed") /\ Settle(u, FALSE)
          \/ UploadMoves(u, "overwriting") /\ uploads'[u].attempt <= MaxAttempts /\ UNCHANGED <<manager, pending>>
      BY <1>a, <3>1, CatchIs
    <3>3. UploadTypes'
      BY <1>a, <3>2, OneUploadTypes
    <3> QED
      BY <1>a, <3>2, <3>3, SettledTask DEF Types
  <2> QED
    BY <1>a, <2>1, <2>2 DEF SendIsRefused, UploadTypes, Types
<1>25. CASE \E u \in Uploads : SendFails(u)
  <2>1. PICK u \in Uploads : SendFails(u)
    BY <1>25
  <2>2. UploadTypes' /\ manager' \in Managers(Tasks) /\ pending' \in SUBSET Tasks
    <3>1. Catch(u, "delaying")
      BY <2>1 DEF SendFails
    <3>2. \/ UploadMoves(u, "failed") /\ Settle(u, FALSE)
          \/ UploadMoves(u, "delaying") /\ uploads'[u].attempt <= MaxAttempts /\ UNCHANGED <<manager, pending>>
      BY <1>a, <3>1, CatchIs
    <3>3. UploadTypes'
      BY <1>a, <3>2, OneUploadTypes
    <3> QED
      BY <1>a, <3>2, <3>3, SettledTask DEF Types
  <2>3. assets' \in [Uploads -> {"none", "old", "new"}] /\ failures' \in 0..MaxFailures
    BY <1>a, <2>1, FailsOnce DEF SendFails, Types
  <2> QED
    BY <1>a, <2>1, <2>2, <2>3 DEF SendFails, UploadTypes, Types
<1>26. CASE \E u \in Uploads : Overwrite(u)
  <2>1. PICK u \in Uploads : Overwrite(u)
    BY <1>26
  <2>2. UploadTypes'
    BY <1>a, <2>1, UploadAgain, OneUploadTypes DEF Overwrite
  <2> QED
    BY <1>a, <2>1, <2>2 DEF Overwrite, UploadTypes, Types
<1>27. CASE \E u \in Uploads : OverwriteFails(u)
  <2>1. PICK u \in Uploads : OverwriteFails(u)
    BY <1>27
  <2>2. UploadTypes' /\ manager' \in Managers(Tasks) /\ pending' \in SUBSET Tasks /\ failures' \in 0..MaxFailures
    BY <1>a, <2>1, UploadGoesTo, OneUploadTypes, SettledTask, FailsOnce DEF OverwriteFails, UploadSteps, Types
  <2>3. assets' \in [Uploads -> {"none", "old", "new"}]
    BY <1>a, <2>1 DEF OverwriteFails, Types
  <2> QED
    BY <1>a, <2>1, <2>2, <2>3 DEF OverwriteFails, UploadTypes, Types
<1>28. CASE \E u \in Uploads : EndDelay(u)
  <2>1. PICK u \in Uploads : EndDelay(u)
    BY <1>28
  <2>2. UploadTypes'
    BY <1>a, <2>1, UploadAgain, OneUploadTypes DEF EndDelay
  <2> QED
    BY <1>a, <2>1, <2>2 DEF EndDelay, UploadTypes, Types
<1>29. CASE Cancel
  BY <1>a, <1>29, CancelIs DEF Cancel, Build!Cancel, UploadTypes, Types
<1>30. CASE UNCHANGED vars
  BY <1>a, <1>30 DEF vars, Types
<1> QED
  BY <1>1, <1>2, <1>3, <1>4, <1>5, <1>6, <1>7, <1>8, <1>9, <1>10, <1>11, <1>12, <1>13, <1>14, <1>15, <1>16, <1>17, <1>18, <1>19, <1>20, <1>21, <1>22, <1>23, <1>24, <1>25, <1>26, <1>27, <1>28, <1>29, <1>30
     DEF Next, Step, BuildStep, SchedulerStep, PublisherStep, UploadStep, Ended

-----------------------------------------------------------------------------
(* The kinds of steps, and what they leave alone.                           *)

\* The steps of build() and its packager that leave the schedulers alone.
BuildMoves ==
  \/ StartHook \/ EndHook \/ AwaitTasks \/ EndRound \/ SigningFails \/ EndWriting
  \/ BuildFails \/ HookFails

\* The steps of build() that start schedulers.
SchedulersStart == HookReturns \/ WriteUpdateInfoFiles

\* The steps of a scheduler, but for upload().
SchedulerMoves(s) ==
  \/ s \in Artifacts /\ Emit(s)
  \/ Resolved(s) \/ ResolvingFails(s) \/ Schedule(s) \/ UploadFails(s) \/ EndSchedule(s)

\* The steps of createPublisher.
PublisherMoves(c, n) == PublisherCreated(c, n) \/ PublisherFails(c, n)

\* The steps of a publisher towards its release.
ReleaseMoves(c, n) == FindRelease(c, n) \/ MakeRelease(c, n) \/ ReleaseFails(c, n)

\* Every step is of one of these kinds.
LEMMA StepKinds ==
  ASSUME [Next]_vars
  PROVE  \/ BuildMoves \/ SchedulersStart
         \/ \E s \in Schedulers : SchedulerMoves(s) \/ Upload(s)
         \/ \E a \in Updatable : EndCreateInfo(a)
         \/ \E c \in Configs : \E n \in DOMAIN publishers[c] : PublisherMoves(c, n) \/ ReleaseMoves(c, n)
         \/ \E u \in Uploads : UploadStep(u)
         \/ Cancel \/ UNCHANGED vars
<1>1. \A a \in Artifacts : a \in Schedulers
  BY SchedulerKinds
<1>2. CASE BuildStep
  BY <1>2 DEF BuildStep, BuildMoves, SchedulersStart
<1>3. CASE \E a \in Artifacts : Emit(a)
  BY <1>1, <1>3 DEF SchedulerMoves
<1>4. CASE \E s \in Schedulers : SchedulerStep(s)
  BY <1>4 DEF SchedulerStep, SchedulerMoves
<1>5. CASE \E c \in Configs : PublisherStep(c)
  BY <1>5 DEF PublisherStep, PublisherMoves, ReleaseMoves
<1> QED
  BY <1>2, <1>3, <1>4, <1>5 DEF Next, Step, Ended

\* build() moves no scheduler, publisher or upload.
LEMMA BuildLeaves ==
  ASSUME BuildMoves
  PROVE  UNCHANGED <<emitted, cancelled, isPublish, schedulers, publishers, infos, pending, server>>
  BY DEF BuildMoves, StartHook, EndHook, AwaitTasks, EndRound, SigningFails, EndWriting, BuildFails, HookFails,
         Build!Resolve, Build!Reject, packager, caching, tasks, server

\* Whoever starts schedulers does nothing else.
LEMMA StartLeaves ==
  ASSUME SchedulersStart
  PROVE  UNCHANGED <<packager, isPublish, isListening, caching, infos, tasks, server>>
  BY DEF SchedulersStart, HookReturns, WriteUpdateInfoFiles

\* A scheduler leaves build() and the server alone.
LEMMA SchedulerLeaves ==
  ASSUME NEW s, SchedulerMoves(s)
  PROVE  UNCHANGED <<phase, cancelled, isPublish, isListening, step, infos, round, server>>
  BY DEF SchedulerMoves, Emit, Build!Emit, Resolved, ResolvingFails, Schedule, UploadFails, EndSchedule,
         packager, caching, tasks, server

\* A call of upload() changes nothing on the server.
LEMMA UploadLeaves ==
  ASSUME NEW s, Upload(s)
  PROVE  UNCHANGED <<packager, isPublish, isListening, step, nameToPublisher, infos, round, assets, release>>
  BY DEF Upload, packager, caching, tasks, server

\* Creating an update info leaves schedulers, publishers and server alone.
LEMMA InfoLeaves ==
  ASSUME NEW a, EndCreateInfo(a)
  PROVE  UNCHANGED <<packager, isPublish, isListening, step, schedulers, caching, round, server>>
  BY DEF EndCreateInfo

\* createPublisher leaves schedulers, tasks and server alone.
LEMMA PublisherLeaves ==
  ASSUME NEW c, NEW n, PublisherMoves(c, n)
  PROVE  UNCHANGED <<packager, isPublish, isListening, step, schedulers, infos, tasks, server>>
  BY DEF PublisherMoves, PublisherCreated, PublisherFails

\* Looking for a release leaves schedulers and stored files alone.
LEMMA ReleaseLeaves ==
  ASSUME NEW c, NEW n, ReleaseMoves(c, n)
  PROVE  UNCHANGED <<packager, isPublish, isListening, step, schedulers, nameToPublisher, infos, round, assets>>
  BY DEF ReleaseMoves, FindRelease, MakeRelease, ReleaseFails

\* An upload leaves schedulers, publishers and releases alone.
LEMMA UploadStepLeaves ==
  ASSUME NEW u, UploadStep(u)
  PROVE  UNCHANGED <<packager, isPublish, isListening, step, schedulers, caching, infos, round, release>>
  BY DEF UploadStep, Send, SendIsRefused, SendFails, Overwrite, OverwriteFails, EndDelay, tasks

\* A cancel leaves build() where it is, and comes before it has ended.
LEMMA CancelLeaves ==
  ASSUME Cancel
  PROVE  /\ UNCHANGED <<phase, emitted, isPublish, isListening, step, schedulers, infos, round>>
         /\ cancelled' = TRUE /\ step \notin {"succeeded", "failed"}
  BY DEF Cancel, Build!Cancel

-----------------------------------------------------------------------------
(* What steps do to the schedulers, the publishers and the uploads.         *)

\* A scheduler that moves has been announced or called before, and is never idle again.
LEMMA SchedulerMoveIs ==
  ASSUME Types, Stages, NEW s \in Schedulers, SchedulerMoves(s)
  PROVE  \/ UNCHANGED schedulers
         \/ \E x \in SchedulerSteps \ {"idle"} : Moves(s, x)
<1>1. CASE s \in Artifacts /\ Emit(s)
  <2>1. Move(s, "resolving") \/ UNCHANGED schedulers
    BY <1>1 DEF Emit
  <2> QED
    BY <2>1, MoveIs DEF SchedulerSteps
<1>2. CASE Resolved(s)
  <2> DEFINE t == IF isPublish THEN ConfigList ELSE <<>>
  <2>1. t \in Seq(Configs)
    BY ConfigsAssumption
  <2>2. schedulers' = [schedulers EXCEPT ![s].at = "scheduling", ![s].todo = t]
    BY <1>2 DEF Resolved
  <2> HIDE DEF t
  <2>3. Moves(s, "scheduling")
    BY <2>1, <2>2, ListIs DEF SchedulerSteps
  <2> QED
    BY <2>3 DEF SchedulerSteps
<1>3. CASE ResolvingFails(s)
  BY <1>3, MoveIs DEF ResolvingFails, SchedulerSteps
<1>4. CASE Schedule(s)
  <2> DEFINE c == Head(schedulers[s].todo)
  <2>1. schedulers[s].todo # <<>> /\ Todo(s) /\ schedulers' = [schedulers EXCEPT ![s].at = "creating", ![s].publisher = nameToPublisher'[c]]
        /\ GetOrCreatePublisher(c)
    BY <1>4 DEF Schedule, GoesOn, Stages
  <2>2. c \in Configs
    BY <2>1, HeadIs
  <2> HIDE DEF c
  <2>3. nameToPublisher'[c] \in Nat
    <3>1. nameToPublisher[c] \in Nat /\ Len(publishers[c]) + 1 \in Nat
      BY <2>2, RecordsAre DEF Types
    <3> QED
      BY <2>1, <2>2, <3>1 DEF GetOrCreatePublisher, Types, caching
  <2>4. Moves(s, "creating")
    BY <2>1, <2>3, AwaitsIs DEF SchedulerSteps
  <2> QED
    BY <2>4 DEF SchedulerSteps
<1>5. CASE UploadFails(s)
  BY <1>5, MoveIs DEF UploadFails, SchedulerSteps
<1>6. CASE EndSchedule(s)
  BY <1>6, EndScheduleIs DEF SchedulerSteps
<1> QED
  BY <1>1, <1>2, <1>3, <1>4, <1>5, <1>6 DEF SchedulerMoves

\* Schedulers that begin were idle.
LEMMA StartIs ==
  ASSUME Types, Stages, SchedulersStart, NEW s \in Schedulers
  PROVE  \/ schedulers'[s] = schedulers[s]
         \/ /\ HookReturns /\ s = Extra /\ schedulers[s].at = "idle" /\ schedulers'[s].todo = ConfigList
            /\ schedulers'[s].at = "scheduling" /\ isPublish
         \/ /\ WriteUpdateInfoFiles /\ s \in Configs /\ schedulers'[s].at = "scheduling" /\ isPublish
            /\ schedulers'[s].todo = <<s>>
<1>1. CASE HookReturns
  <2>1. Moves(Extra, "scheduling") /\ schedulers'[Extra].todo = ConfigList
    BY <1>1, ListIs, SchedulerKinds, ConfigsAssumption DEF HookReturns, SchedulerSteps
  <2> QED
    BY <1>1, <2>1 DEF HookReturns, Moves
<1>2. CASE WriteUpdateInfoFiles
  <2>1. schedulers'[s] = IF s \in Configs /\ isPublish
                         THEN [schedulers[s] EXCEPT !.at = "scheduling", !.todo = <<s>>] ELSE schedulers[s]
    BY <1>2 DEF WriteUpdateInfoFiles
  <2>2. schedulers[s] \in SchedulerStates
    BY RecordsAre
  <2>3. /\ [schedulers[s] EXCEPT !.at = "scheduling", !.todo = <<s>>].at = "scheduling"
        /\ [schedulers[s] EXCEPT !.at = "scheduling", !.todo = <<s>>].todo = <<s>>
    BY <2>2 DEF SchedulerStates
  <2> QED
    BY <1>2, <2>1, <2>3
<1> QED
  BY <1>1, <1>2 DEF SchedulersStart

\* A publisher that is made, or not.
LEMMA PublisherMoveIs ==
  ASSUME Types, NEW c \in Configs, NEW n \in DOMAIN publishers[c], PublisherMoves(c, n)
  PROVE  /\ publishers[c][n] = "creating"
         /\ \E p \in {"created", "null", "failed"} :
              /\ PublisherGoes(c, n, p)
              /\ p = "failed" => PublisherFails(c, n)
              /\ p # "failed" => UNCHANGED nameToPublisher
              /\ p = "null" => \A k \in DOMAIN publishers[c] : publishers[c][k] \notin Created
              /\ p = "created" => \A k \in DOMAIN publishers[c] : publishers[c][k] # "null"
<1>1. CASE PublisherCreated(c, n)
  <2>1. PICK p \in {"created", "null"} :
          /\ \A k \in DOMAIN publishers[c] :
               publishers[c][k] \in {"creating", "failed"} \cup (IF p = "null" THEN {p} ELSE Created)
          /\ publishers' = [publishers EXCEPT ![c][n] = p]
    BY <1>1 DEF PublisherCreated
  <2>2. PublisherGoes(c, n, p)
    BY <2>1, PublisherGoesTo DEF PublisherStates, Created, Unsettled
  <2>3. p = "null" => \A k \in DOMAIN publishers[c] : publishers[c][k] \notin Created
    BY <2>1 DEF Created, Unsettled
  <2>4. p = "created" => \A k \in DOMAIN publishers[c] : publishers[c][k] # "null"
    BY <2>1 DEF Created, Unsettled
  <2> QED
    BY <1>1, <2>1, <2>2, <2>3, <2>4 DEF PublisherCreated
<1>2. CASE PublisherFails(c, n)
  <2>1. PublisherGoes(c, n, "failed")
    BY <1>2, PublisherGoesTo DEF PublisherFails, PublisherStates
  <2> QED
    BY <1>2, <2>1 DEF PublisherFails
<1> QED
  BY <1>1, <1>2 DEF PublisherMoves

\* What becomes of a release, of its publisher and of the uploads that wait for it.
ReleaseGoes(c, n, p) ==
  /\ PublisherGoes(c, n, p)
  /\ p = "making" => publishers[c][n] = "looking" /\ release[c] = "none" /\ UNCHANGED <<server, tasks>>
  /\ p = "skipped" => publishers[c][n] = "looking" /\ release[c] = "withheld"
  /\ p = "found" /\ publishers[c][n] = "looking" => release[c] # "withheld"
  /\ p # "making" => SettleRelease(c, n, p)
  /\ \/ UNCHANGED release
     \/ release' = MadeOnServer({c}) /\ publishers[c][n] = "making" /\ p \in {"found", "unfound"}
  /\ p = "found" /\ publishers[c][n] = "making" => release' = MadeOnServer({c})

\* A step towards a release is one of those.
LEMMA ReleaseMoveIs ==
  ASSUME Types, NEW c \in Configs, NEW n \in DOMAIN publishers[c], ReleaseMoves(c, n)
  PROVE  /\ publishers[c][n] \in {"looking", "making"}
         /\ \E p \in {"making", "found", "skipped", "unfound"} : ReleaseGoes(c, n, p)
<1>1. CASE FindRelease(c, n) /\ release[c] = "none"
  <2>1. publishers[c][n] = "looking" /\ publishers' = [publishers EXCEPT ![c][n] = "making"]
        /\ UNCHANGED <<server, tasks>>
    BY <1>1 DEF FindRelease, server, tasks
  <2>2. PublisherGoes(c, n, "making")
    BY <2>1, PublisherGoesTo DEF PublisherStates, Created, Unsettled
  <2> QED
    BY <1>1, <2>1, <2>2 DEF ReleaseGoes, server
<1>2. CASE FindRelease(c, n) /\ release[c] # "none"
  <2> DEFINE p == IF release[c] = "withheld" THEN "skipped" ELSE "found"
  <2>1. publishers[c][n] = "looking" /\ SettleRelease(c, n, p) /\ UNCHANGED release /\ p \in {"found", "skipped"}
        /\ (p = "skipped" <=> release[c] = "withheld")
    BY <1>2 DEF FindRelease
  <2> HIDE DEF p
  <2>2. PublisherGoes(c, n, p)
    BY <2>1, ReleaseSettles
  <2> QED
    BY <2>1, <2>2 DEF ReleaseGoes
<1>3. CASE MakeRelease(c, n)
  <2>1. publishers[c][n] = "making" /\ SettleRelease(c, n, "found") /\ release' = MadeOnServer({c})
    BY <1>3 DEF MakeRelease
  <2>2. PublisherGoes(c, n, "found")
    BY <2>1, ReleaseSettles
  <2> QED
    BY <2>1, <2>2 DEF ReleaseGoes
<1>4. CASE ReleaseFails(c, n)
  <2>1. /\ publishers[c][n] \in {"looking", "making"} /\ SettleRelease(c, n, "unfound")
        /\ release' = release \/ (release' = MadeOnServer({c}) /\ publishers[c][n] = "making")
    BY <1>4 DEF ReleaseFails
  <2>2. PublisherGoes(c, n, "unfound")
    BY <2>1, ReleaseSettles
  <2> QED
    BY <2>1, <2>2 DEF ReleaseGoes
<1> QED
  BY <1>1, <1>2, <1>3, <1>4 DEF ReleaseMoves

\* An upload goes on, is done or has failed.
LEMMA UploadStepIs ==
  ASSUME Types, NEW u \in Uploads, UploadStep(u)
  PROVE  /\ uploads[u].at \in {"sending", "overwriting", "delaying"}
         /\ Listens /\ \A t \in pending : t # u => t \in pending'
         /\ \A v \in Uploads : v # u => assets'[v] = assets[v]
         /\ \/ UploadMoves(u, "done") /\ assets'[u] = "new"
            \/ UploadMoves(u, "failed") /\ (u \in pending => manager'.errors # {})
            \/ \E x \in {"sending", "overwriting", "delaying"} :
                 UploadMoves(u, x) /\ UNCHANGED <<manager, pending>>
<1>1. assets \in [Uploads -> {"none", "old", "new"}]
  BY DEF Types
<1>2. ASSUME Settle(u, FALSE) PROVE Listens /\ \A t \in pending : t # u => t \in pending'
  BY <1>2, SettleListens
<1>3. ASSUME Settle(u, FALSE) PROVE u \in pending => manager'.errors # {}
  BY <1>3, SettleListens
<1>4. CASE Send(u)
  <2>1. UploadMoves(u, "done")
    BY <1>4, UploadGoesTo DEF Send, UploadSteps
  <2>2. Listens /\ \A t \in pending : t # u => t \in pending'
    BY <1>4, SettleListens DEF Send
  <2> QED
    BY <1>1, <1>4, <2>1, <2>2 DEF Send
<1>5. ASSUME NEW next \in {"overwriting", "delaying"}, Catch(u, next)
      PROVE  /\ Listens /\ \A t \in pending : t # u => t \in pending'
             /\ \/ UploadMoves(u, "failed") /\ (u \in pending => manager'.errors # {})
                \/ UploadMoves(u, next) /\ UNCHANGED <<manager, pending>>
  <2>1. \/ UploadMoves(u, "failed") /\ Settle(u, FALSE)
        \/ UploadMoves(u, next) /\ UNCHANGED <<manager, pending>>
    BY <1>5, CatchIs
  <2> QED
    BY <1>2, <1>3, <2>1, SameListens
<1>6. CASE SendIsRefused(u)
  <2>1. Catch(u, "overwriting") /\ uploads[u].at = "sending" /\ UNCHANGED assets
    BY <1>6 DEF SendIsRefused
  <2> QED
    BY <1>5, <2>1
<1>7. CASE SendFails(u)
  <2>1. Catch(u, "delaying") /\ uploads[u].at = "sending" /\ (UNCHANGED assets \/ assets' = [assets EXCEPT ![u] = "new"])
    BY <1>7 DEF SendFails
  <2> QED
    BY <1>1, <1>5, <2>1
<1>8. CASE Overwrite(u)
  <2>1. UploadMoves(u, "sending")
    BY <1>8, UploadAgain DEF Overwrite
  <2>2. UNCHANGED <<manager, pending>> /\ uploads[u].at = "overwriting" /\ assets' = [assets EXCEPT ![u] = "none"]
    BY <1>8 DEF Overwrite, tasks
  <2> QED
    BY <1>1, <2>1, <2>2, SameListens
<1>9. CASE OverwriteFails(u)
  <2>1. UploadMoves(u, "failed")
    BY <1>9, UploadGoesTo DEF OverwriteFails, UploadSteps
  <2>2. Settle(u, FALSE) /\ uploads[u].at = "overwriting" /\ \E asset : assets' = [assets EXCEPT ![u] = asset]
    BY <1>9 DEF OverwriteFails
  <2> QED
    BY <1>1, <1>2, <1>3, <2>1, <2>2
<1>10. CASE EndDelay(u)
  <2>1. UploadMoves(u, "sending")
    BY <1>10, UploadAgain DEF EndDelay
  <2>2. UNCHANGED <<manager, pending>> /\ uploads[u].at = "delaying" /\ UNCHANGED assets
    BY <1>10 DEF EndDelay, tasks
  <2> QED
    BY <1>1, <2>1, <2>2, SameListens
<1> QED
  BY <1>4, <1>6, <1>7, <1>8, <1>9, <1>10 DEF UploadStep

-----------------------------------------------------------------------------
(* What lasts, whatever happens next.                                       *)

\* What is emitted, failed or cancelled stays so, and the mode of publishing is never changed.
BuildLasts ==
  /\ isPublish' = isPublish /\ (IsGivenUp => IsGivenUp') /\ (cancelled => cancelled')
  /\ emitted \subseteq emitted' /\ infos \subseteq infos' /\ manager.errors \subseteq manager'.errors

\* A scheduler that has begun is never idle again.
SchedulersLast == \A s \in Schedulers : schedulers[s].at # "idle" => schedulers'[s].at # "idle"

\* Publishers are added and never taken away; who was created, or null, stays so.
PublishersLast ==
  \A c \in Configs : \A n \in DOMAIN publishers[c] :
    /\ n \in DOMAIN publishers'[c]
    /\ publishers[c][n] = "null" => publishers'[c][n] = "null"
    /\ publishers[c][n] \in Created => publishers'[c][n] \in Created

\* An upload that was called is never new again.
UploadsLast == \A u \in Uploads : uploads[u].at # "new" => uploads'[u].at # "new"

\* A release is withheld, or is not, for good.
ReleasesLast == \A c \in GitHub : release'[c] = "withheld" <=> release[c] = "withheld"

\* Every step keeps what was emitted and what has failed.
LEMMA NextBuildLasts ==
  ASSUME IInv, [Next]_vars PROVE BuildLasts
<1>a. Types /\ Stages
  BY DEF IInv
<1> USE DEF packager, caching, tasks, server
<1>1. CASE BuildMoves
  <2>1. UNCHANGED <<emitted, cancelled, isPublish, infos>>
    BY <1>1, BuildLeaves
  <2>2. step = "failed" => step' = "failed"
    BY <1>a, <1>1 DEF BuildMoves, StartHook, EndHook, AwaitTasks, EndRound, SigningFails, EndWriting, BuildFails, HookFails, Stages
  <2>3. manager.errors = manager'.errors
    <3>1. CASE AwaitTasks \/ EndRound
      <4>1. PICK d : Continue(d)
        BY <3>1 DEF AwaitTasks, EndRound
      <4> QED
        BY <1>a, <4>1, RecordsAre, ManagerMethods DEF Continue
    <3>2. CASE BuildFails \/ HookFails
      BY <1>a, <3>2, RecordsAre, ManagerGivesUp DEF BuildFails, HookFails, CancelPublishing
    <3>3. CASE StartHook \/ EndHook \/ SigningFails \/ EndWriting
      BY <3>3 DEF StartHook, EndHook, SigningFails, EndWriting
    <3> QED
      BY <1>1, <3>1, <3>2, <3>3 DEF BuildMoves
  <2> QED
    BY <2>1, <2>2, <2>3 DEF BuildLasts, IsGivenUp
<1>2. CASE SchedulersStart
  <2>1. step = "failed" => step' = "failed"
    BY <1>2 DEF SchedulersStart, HookReturns, WriteUpdateInfoFiles
  <2> QED
    BY <1>2, <2>1, StartLeaves DEF BuildLasts, IsGivenUp
<1>3. CASE \E s \in Schedulers : SchedulerMoves(s)
  <2>1. PICK s \in Schedulers : SchedulerMoves(s)
    BY <1>3
  <2>2. UNCHANGED <<cancelled, isPublish, step, infos>>
    BY <2>1, SchedulerLeaves
  <2>3. emitted \subseteq emitted' /\ manager.errors \subseteq manager'.errors
    <3>1. CASE s \in Artifacts /\ Emit(s)
      <4>1. manager'.errors = manager.errors
        BY <1>a, <3>1, TaskIsAdded, TaskKinds DEF Emit
      <4> QED
        BY <3>1, <4>1 DEF Emit, Build!Emit
    <3>2. CASE Resolved(s) \/ Schedule(s)
      BY <3>2 DEF Resolved, Schedule
    <3>3. CASE ResolvingFails(s) \/ UploadFails(s)
      BY <1>a, <3>3, SettleListens DEF ResolvingFails, UploadFails, Listens
    <3>4. CASE EndSchedule(s)
      <4>1. Listens
        BY <1>a, <3>4, EndScheduleIs
      <4> QED
        BY <3>4, <4>1 DEF EndSchedule, Listens
    <3> QED
      BY <2>1, <3>1, <3>2, <3>3, <3>4 DEF SchedulerMoves
  <2> QED
    BY <2>2, <2>3 DEF BuildLasts, IsGivenUp
<1>4. CASE \E s \in Schedulers : Upload(s)
  <2>1. PICK s \in Schedulers : Upload(s)
    BY <1>4
  <2>2. manager.errors \subseteq manager'.errors
    BY <1>a, <2>1, UploadIs DEF Stages
  <2> QED
    BY <2>1, <2>2, UploadLeaves DEF BuildLasts, IsGivenUp
<1>5. CASE \E a \in Updatable : EndCreateInfo(a)
  <2>1. PICK a \in Updatable : EndCreateInfo(a)
    BY <1>5
  <2>2. manager.errors \subseteq manager'.errors /\ infos \subseteq infos'
    BY <1>a, <2>1, SettleListens DEF EndCreateInfo, Listens
  <2> QED
    BY <2>1, <2>2, InfoLeaves DEF BuildLasts, IsGivenUp
<1>6. CASE \E c \in Configs : \E n \in DOMAIN publishers[c] : PublisherMoves(c, n)
  BY <1>6, PublisherLeaves DEF BuildLasts, IsGivenUp
<1>7. CASE \E c \in Configs : \E n \in DOMAIN publishers[c] : ReleaseMoves(c, n)
  <2>1. PICK c \in Configs : \E n \in DOMAIN publishers[c] : ReleaseMoves(c, n)
    BY <1>7
  <2>2. PICK n \in DOMAIN publishers[c] : ReleaseMoves(c, n)
    BY <2>1
  <2>3. manager.errors \subseteq manager'.errors
    <3>1. PICK p \in {"making", "found", "skipped", "unfound"} : ReleaseGoes(c, n, p)
      BY <1>a, <2>2, ReleaseMoveIs
    <3>2. CASE p = "making"
      BY <3>1, <3>2 DEF ReleaseGoes
    <3>3. CASE p # "making"
      BY <1>a, <3>1, <3>3, ReleaseSettles DEF ReleaseGoes
    <3> QED
      BY <3>2, <3>3
  <2> QED
    BY <2>2, <2>3, ReleaseLeaves DEF BuildLasts, IsGivenUp
<1>8. CASE \E u \in Uploads : UploadStep(u)
  <2>1. PICK u \in Uploads : UploadStep(u)
    BY <1>8
  <2>2. manager.errors \subseteq manager'.errors
    BY <1>a, <2>1, UploadStepIs DEF Listens
  <2> QED
    BY <2>1, <2>2, UploadStepLeaves DEF BuildLasts, IsGivenUp
<1>9. CASE Cancel
  BY <1>a, <1>9, CancelIs, CancelLeaves DEF BuildLasts, IsGivenUp
<1>10. CASE UNCHANGED vars
  BY <1>10 DEF vars, BuildLasts, IsGivenUp
<1> QED
  BY <1>1, <1>2, <1>3, <1>4, <1>5, <1>6, <1>7, <1>8, <1>9, <1>10, StepKinds

\* No step makes a scheduler idle again.
LEMMA NextSchedulersLast ==
  ASSUME IInv, [Next]_vars PROVE SchedulersLast
<1>a. Types /\ Stages
  BY DEF IInv
<1>1. CASE UNCHANGED schedulers
  BY <1>1 DEF SchedulersLast
<1>2. CASE SchedulersStart
  BY <1>a, <1>2, StartIs DEF SchedulersLast
<1>3. CASE \E s \in Schedulers : SchedulerMoves(s)
  BY <1>a, <1>1, <1>3, SchedulerMoveIs DEF SchedulersLast, Moves
<1>4. CASE \E s \in Schedulers : Upload(s)
  BY <1>a, <1>4, UploadIs DEF SchedulersLast, Moves, Stages
<1>5. CASE UNCHANGED vars
  BY <1>1, <1>5 DEF vars
<1> QED
  BY <1>1, <1>2, <1>3, <1>4, <1>5, StepKinds, BuildLeaves, InfoLeaves, PublisherLeaves, ReleaseLeaves, UploadStepLeaves, CancelLeaves

\* No step takes a publisher away.
LEMMA NextPublishersLast ==
  ASSUME IInv, [Next]_vars PROVE PublishersLast
<1>a. Types /\ Stages /\ Sharing
  BY DEF IInv
<1> USE DEF packager, caching, tasks, server
<1>1. CASE UNCHANGED publishers
  BY <1>1 DEF PublishersLast
<1>2. CASE \E s \in Schedulers : SchedulerMoves(s)
  <2>1. PICK s \in Schedulers : SchedulerMoves(s)
    BY <1>2
  <2>2. CASE Schedule(s)
    <3> DEFINE c == Head(schedulers[s].todo)
    <3>1. schedulers[s].todo # <<>> /\ Todo(s) /\ GetOrCreatePublisher(c)
      BY <1>a, <2>2 DEF Schedule, GoesOn, Stages
    <3>2. c \in Configs
      BY <1>a, <3>1, HeadIs
    <3> HIDE DEF c
    <3>3. nameToPublisher[c] <= Len(publishers[c])
      BY <1>a, <3>2 DEF Sharing, OnePublisher
    <3>4. \A d \in Configs : \A n \in DOMAIN publishers[d] : n \in DOMAIN publishers'[d] /\ publishers'[d][n] = publishers[d][n]
      BY <1>a, <3>1, <3>2, <3>3, GetsPublisher
    <3> QED
      BY <3>4 DEF PublishersLast
  <2>3. CASE ~Schedule(s)
    <3>1. UNCHANGED publishers
      BY <2>1, <2>3 DEF SchedulerMoves, Emit, Resolved, ResolvingFails, UploadFails, EndSchedule
    <3> QED
      BY <1>1, <3>1
  <2> QED
    BY <2>2, <2>3
<1>3. CASE \E s \in Schedulers : Upload(s)
  <2>1. PICK s \in Schedulers : Upload(s)
    BY <1>3
  <2> DEFINE c == Head(schedulers[s].todo)
             n == schedulers[s].publisher
  <2>2. c \in Configs /\ n \in DOMAIN publishers[c]
        /\ \/ UNCHANGED publishers
           \/ /\ publishers[c][n] \in Unsettled
              /\ PublisherGoes(c, n, IF publishers[c][n] = "created" THEN "looking" ELSE publishers[c][n])
    BY <1>a, <2>1, UploadIs DEF Stages
  <2> HIDE DEF c, n
  <2>3. CASE /\ publishers[c][n] \in Unsettled
             /\ PublisherGoes(c, n, IF publishers[c][n] = "created" THEN "looking" ELSE publishers[c][n])
    BY <2>2, <2>3 DEF PublishersLast, PublisherGoes, Created, Unsettled
  <2> QED
    BY <1>1, <2>2, <2>3
<1>4. CASE \E c \in Configs : \E n \in DOMAIN publishers[c] : PublisherMoves(c, n)
  <2>1. PICK c \in Configs : \E n \in DOMAIN publishers[c] : PublisherMoves(c, n)
    BY <1>4
  <2>2. PICK n \in DOMAIN publishers[c] : PublisherMoves(c, n)
    BY <2>1
  <2>3. publishers[c][n] = "creating" /\ \E p : PublisherGoes(c, n, p)
    BY <1>a, <2>2, PublisherMoveIs
  <2> QED
    BY <2>3 DEF PublishersLast, PublisherGoes, Created, Unsettled
<1>5. CASE \E c \in Configs : \E n \in DOMAIN publishers[c] : ReleaseMoves(c, n)
  <2>1. PICK c \in Configs : \E n \in DOMAIN publishers[c] : ReleaseMoves(c, n)
    BY <1>5
  <2>2. PICK n \in DOMAIN publishers[c] : ReleaseMoves(c, n)
    BY <2>1
  <2>3. publishers[c][n] \in {"looking", "making"}
    BY <1>a, <2>2, ReleaseMoveIs
  <2>4. PICK p \in {"making", "found", "skipped", "unfound"} : ReleaseGoes(c, n, p)
    BY <1>a, <2>2, ReleaseMoveIs
  <2> QED
    BY <2>3, <2>4 DEF ReleaseGoes, PublishersLast, PublisherGoes, Created, Unsettled
<1>6. CASE Cancel
  BY <1>a, <1>6, CancelIs DEF PublishersLast, Created, Unsettled
<1>7. CASE UNCHANGED vars
  BY <1>1, <1>7 DEF vars
<1> QED
  BY <1>1, <1>2, <1>3, <1>4, <1>5, <1>6, <1>7, StepKinds, BuildLeaves, StartLeaves, InfoLeaves, UploadStepLeaves

\* No step makes an upload new again.
LEMMA NextUploadsLast ==
  ASSUME IInv, [Next]_vars PROVE UploadsLast
<1>a. Types /\ Stages
  BY DEF IInv
<1> USE DEF packager, caching, tasks, server
<1>1. CASE UNCHANGED uploads
  BY <1>1 DEF UploadsLast
<1>2. CASE \E s \in Schedulers : Upload(s)
  <2>1. PICK s \in Schedulers : Upload(s)
    BY <1>2
  <2>2. \/ UNCHANGED uploads
        \/ \E x \in {"awaitingRelease", "sending", "done", "failed"} : UploadMoves(<<s, Head(schedulers[s].todo)>>, x)
    BY <1>a, <2>1, UploadIs DEF Stages, Called
  <2> QED
    BY <1>1, <2>2 DEF UploadsLast, UploadMoves
<1>3. CASE \E c \in Configs : \E n \in DOMAIN publishers[c] : ReleaseMoves(c, n)
  <2>1. PICK c \in Configs : \E n \in DOMAIN publishers[c] : ReleaseMoves(c, n)
    BY <1>3
  <2>2. PICK n \in DOMAIN publishers[c] : ReleaseMoves(c, n)
    BY <2>1
  <2>3. PICK p \in {"making", "found", "skipped", "unfound"} : ReleaseGoes(c, n, p)
    BY <1>a, <2>2, ReleaseMoveIs
  <2>4. CASE p # "making"
    <3>1. \A u \in Uploads : uploads'[u] = uploads[u] \/ uploads'[u].at = AtRelease(p)
      BY <1>a, <2>3, <2>4, ReleaseSettles DEF ReleaseGoes
    <3>2. AtRelease(p) # "new"
      BY <2>4 DEF AtRelease
    <3> QED
      BY <3>1, <3>2 DEF UploadsLast
  <2> QED
    BY <1>1, <2>3, <2>4 DEF ReleaseGoes
<1>4. CASE \E u \in Uploads : UploadStep(u)
  BY <1>a, <1>4, UploadStepIs DEF UploadsLast, UploadMoves
<1>5. CASE Cancel
  BY <1>a, <1>5, CancelIs DEF UploadsLast
<1>6. CASE UNCHANGED vars
  BY <1>1, <1>6 DEF vars
<1> QED
  BY <1>1, <1>2, <1>3, <1>4, <1>5, <1>6, StepKinds, BuildLeaves, StartLeaves, SchedulerLeaves, InfoLeaves, PublisherLeaves

\* No step withholds a release, or allows one.
LEMMA NextReleasesLast ==
  ASSUME IInv, [Next]_vars PROVE ReleasesLast
<1>a. Types /\ Stages /\ Sharing
  BY DEF IInv
<1> USE DEF packager, caching, tasks, server
<1>1. CASE UNCHANGED release
  BY <1>1 DEF ReleasesLast
<1>2. CASE \E c \in Configs : \E n \in DOMAIN publishers[c] : ReleaseMoves(c, n)
  <2>1. PICK c \in Configs : \E n \in DOMAIN publishers[c] : ReleaseMoves(c, n)
    BY <1>2
  <2>2. PICK n \in DOMAIN publishers[c] : ReleaseMoves(c, n)
    BY <2>1
  <2>0. PICK p \in {"making", "found", "skipped", "unfound"} : ReleaseGoes(c, n, p)
    BY <1>a, <2>2, ReleaseMoveIs
  <2>3. UNCHANGED release \/ (release' = MadeOnServer({c}) /\ publishers[c][n] = "making")
    BY <2>0 DEF ReleaseGoes
  <2>4. CASE release' = MadeOnServer({c}) /\ publishers[c][n] = "making"
    <3>1. release[c] # "withheld"
      BY <1>a, <2>4 DEF Sharing, KnowsRelease
    <3>2. \A d \in GitHub : d \notin {c} => release'[d] = release[d]
      BY <2>4, MadeIs
    <3>3. \A d \in GitHub : d \in {c} => release'[d] \in {"open", "double"}
      BY <2>4, MadeIs
    <3> QED
      BY <3>1, <3>2, <3>3 DEF ReleasesLast
  <2> QED
    BY <1>1, <2>3, <2>4
<1>3. CASE Cancel
  <2>1. ASSUME NEW c \in GitHub, \E n \in DOMAIN publishers[c] : publishers[c][n] = "making" PROVE release[c] # "withheld"
    BY <1>a, <2>1, ConfigsAssumption DEF Sharing, KnowsRelease
  <2>2. \A c \in GitHub : \/ release'[c] = release[c]
                          \/ /\ \E n \in DOMAIN publishers[c] : publishers[c][n] = "making"
                             /\ release'[c] \in {"open", "double"}
    BY <1>a, <1>3, CancelIs
  <2> QED
    BY <2>1, <2>2 DEF ReleasesLast
<1>4. CASE UNCHANGED vars
  BY <1>1, <1>4 DEF vars
<1> QED
  BY <1>1, <1>2, <1>3, <1>4, StepKinds, BuildLeaves, StartLeaves, SchedulerLeaves, UploadLeaves, InfoLeaves, PublisherLeaves, UploadStepLeaves

-----------------------------------------------------------------------------
(* The publishers and their releases.                                       *)

\* What Sharing says of one configuration.
Unshared(c) == OnePublisher(c) /\ KnowsRelease(c) /\ (c \in GitHub => release[c] # "double" \/ IsGivenUp)

\* Sharing, one configuration at a time.
LEMMA SharingIs == Sharing <=> \A c \in Configs : Unshared(c)
  BY ConfigsAssumption DEF Sharing, Unshared

\* One publisher of a configuration moves, and with it perhaps the configuration's release.
LEMMA SharingMoves ==
  ASSUME Types, Types', Sharing, BuildLasts, ReleasesLast, UNCHANGED <<cancelled, step>>,
         NEW c \in Configs, NEW n \in DOMAIN publishers[c], NEW p, PublisherGoes(c, n, p),
         publishers[c][n] # "failed",
         \/ UNCHANGED nameToPublisher
         \/ p = "failed" /\ nameToPublisher' = [nameToPublisher EXCEPT ![c] = 0],
         \A d \in GitHub : d # c => release'[d] = release[d],
         p = "null" => \A k \in DOMAIN publishers[c] : publishers[c][k] \notin Created,
         p \in Created => publishers[c][n] \in Created \/ \A k \in DOMAIN publishers[c] : publishers[c][k] # "null",
         p \in {"looking", "making", "found", "skipped", "unfound"} => c \in GitHub,
         p \in {"making", "found"} => release'[c] # "withheld",
         p = "making" => release'[c] = "none" \/ IsGivenUp,
         p = "skipped" => release'[c] = "withheld",
         c \in GitHub => release'[c] # "double" \/ IsGivenUp,
         c \in GitHub /\ release'[c] # release[c] => p # "making"
  PROVE  Sharing'
<1>1. /\ \A d \in Configs : DOMAIN publishers[d] = 1..Len(publishers[d]) /\ Len(publishers[d]) \in Nat
      /\ nameToPublisher \in [Configs -> Nat]
  BY RecordsAre DEF Types
<1>2. IsGivenUp' <=> IsGivenUp
  BY DEF IsGivenUp
<1>3. ASSUME NEW d \in Configs, d # c PROVE Unshared(d)'
  <2>1. publishers'[d] = publishers[d] /\ nameToPublisher'[d] = nameToPublisher[d]
    BY <1>1, <1>3 DEF PublisherGoes
  <2>2. OnePublisher(d) /\ KnowsRelease(d) /\ (d \in GitHub => release[d] # "double" \/ IsGivenUp)
    BY DEF Sharing
  <2>3. OnePublisher(d)'
    BY <1>2, <2>1, <2>2 DEF OnePublisher
  <2>4. d \in GitHub => release'[d] = release[d]
    BY <1>3
  <2>5. KnowsRelease(d)'
    BY <1>2, <2>1, <2>2, <2>4 DEF KnowsRelease
  <2> QED
    BY <1>2, <2>2, <2>3, <2>4, <2>5 DEF Unshared
<1>4. Unshared(c)'
  <2>1. OnePublisher(c) /\ KnowsRelease(c)
    BY DEF Sharing
  <2>2. /\ Len(publishers'[c]) = Len(publishers[c]) /\ DOMAIN publishers'[c] = DOMAIN publishers[c]
        /\ publishers'[c][n] = p /\ \A m \in DOMAIN publishers[c] : m # n => publishers'[c][m] = publishers[c][m]
    BY DEF PublisherGoes
  <2>3. nameToPublisher'[c] = nameToPublisher[c] \/ (p = "failed" /\ nameToPublisher'[c] = 0)
    BY <1>1
  <2>4. nameToPublisher'[c] <= Len(publishers'[c])
    BY <1>1, <2>1, <2>2, <2>3 DEF OnePublisher
  <2>5. ASSUME NEW k \in DOMAIN publishers[c], NEW m \in DOMAIN publishers[c], publishers'[c][k] = "null"
        PROVE  publishers'[c][m] \notin Created
    <3>0. "null" \notin Created
      BY DEF Created, Unsettled
    <3>1. CASE k = n
      <4>1. p = "null" /\ \A j \in DOMAIN publishers[c] : publishers[c][j] \notin Created
        BY <2>2, <2>5, <3>1
      <4> QED
        BY <2>2, <3>0, <4>1
    <3>2. CASE k # n
      <4>1. publishers[c][k] = "null" /\ \A j \in DOMAIN publishers[c] : publishers[c][j] \notin Created
        BY <2>1, <2>2, <2>5, <3>2 DEF OnePublisher
      <4> QED
        BY <2>2, <4>1
    <3> QED
      BY <3>1, <3>2
  <2>6. ASSUME ~IsGivenUp, NEW m \in DOMAIN publishers[c], m # n PROVE publishers[c][m] = "failed" /\ nameToPublisher[c] = n
    BY <2>1, <2>6 DEF OnePublisher
  <2>7. ~IsGivenUp => nameToPublisher[c] = n
    BY <2>1 DEF OnePublisher
  <2>8. ASSUME ~IsGivenUp, NEW m \in DOMAIN publishers[c], publishers'[c][m] # "failed" PROVE m = nameToPublisher'[c]
    BY <2>2, <2>3, <2>6, <2>7, <2>8
  <2>9. OnePublisher(c)'
    BY <1>2, <2>2, <2>4, <2>5, <2>8 DEF OnePublisher
  <2>10. ASSUME NEW m \in DOMAIN publishers[c]
         PROVE  /\ publishers'[c][m] \in {"looking", "making", "found", "skipped", "unfound"} => c \in GitHub
                /\ publishers'[c][m] \in {"making", "found"} => release'[c] # "withheld"
                /\ publishers'[c][m] = "making" => release'[c] = "none" \/ IsGivenUp
                /\ publishers'[c][m] = "skipped" => release'[c] = "withheld"
    <3>1. CASE m = n
      BY <2>2, <3>1
    <3>2. CASE m # n
      <4>1. publishers'[c][m] = publishers[c][m] /\ (~IsGivenUp => publishers[c][m] = "failed")
        BY <2>2, <2>6, <3>2
      <4>2. c \in GitHub => (release'[c] = "withheld" <=> release[c] = "withheld")
        BY DEF ReleasesLast
      <4> QED
        BY <2>1, <4>1, <4>2 DEF KnowsRelease
    <3> QED
      BY <3>1, <3>2
  <2>11. KnowsRelease(c)'
    BY <1>2, <2>2, <2>10 DEF KnowsRelease
  <2> QED
    BY <1>2, <2>9, <2>11 DEF Unshared
<1>5. \A d \in Configs : Unshared(d)'
  BY <1>3, <1>4
<1> QED
  BY <1>5, SharingIs, ConfigsAssumption DEF Sharing, Unshared

\* Every step keeps Sharing: a publisher that is being made is the one that is found.
LEMMA NextSharing ==
  ASSUME IInv, [Next]_vars, Types' PROVE Sharing'
<1>a. Types /\ Stages /\ Sharing /\ BuildLasts /\ ReleasesLast
  BY NextBuildLasts, NextReleasesLast DEF IInv
<1> USE DEF packager, caching, tasks, server
<1>1. CASE UNCHANGED <<publishers, nameToPublisher, release>>
  BY <1>a, <1>1 DEF BuildLasts, Sharing, OnePublisher, KnowsRelease
<1>2. CASE UNCHANGED <<publishers, release>> /\ IsGivenUp' /\ nameToPublisher' = [c \in Configs |-> 0]
  <2>1. \A c \in Configs : Len(publishers[c]) \in Nat /\ nameToPublisher'[c] = 0
    BY <1>a, <1>2, RecordsAre
  <2> QED
    BY <1>a, <1>2, <2>1 DEF Sharing, OnePublisher, KnowsRelease
<1>3. CASE BuildMoves
  <2>1. UNCHANGED <<publishers, release>>
    BY <1>3, BuildLeaves
  <2>2. CASE BuildFails \/ HookFails
    <3>1. IsGivenUp' /\ nameToPublisher' = [c \in Configs |-> 0]
      BY <2>2 DEF BuildFails, HookFails, Ends, CancelPublishing, IsGivenUp
    <3> QED
      BY <1>2, <2>1, <3>1
  <2>3. CASE ~(BuildFails \/ HookFails)
    <3>1. UNCHANGED nameToPublisher
      BY <1>3, <2>3 DEF BuildMoves, StartHook, EndHook, AwaitTasks, EndRound, SigningFails, EndWriting
    <3> QED
      BY <1>1, <2>1, <3>1
  <2> QED
    BY <2>2, <2>3
<1>4. CASE \E s \in Schedulers : SchedulerMoves(s)
  <2>1. PICK s \in Schedulers : SchedulerMoves(s)
    BY <1>4
  <2>0. UNCHANGED release /\ (IsGivenUp' <=> IsGivenUp)
    BY <2>1, SchedulerLeaves DEF IsGivenUp
  <2>2. CASE Schedule(s)
    <3>0. schedulers[s].todo # <<>> /\ Todo(s) /\ GetOrCreatePublisher(Head(schedulers[s].todo))
      BY <1>a, <2>2 DEF Schedule, GoesOn, Stages
    <3>1. Head(schedulers[s].todo) \in Configs
      BY <1>a, <3>0, HeadIs
    <3>2. PICK c \in Configs : GetOrCreatePublisher(c)
      BY <3>0, <3>1
    <3>3. nameToPublisher[c] <= Len(publishers[c]) /\ OnePublisher(c) /\ KnowsRelease(c)
      BY <1>a, <3>2 DEF Sharing, OnePublisher
    <3>4. /\ \A d \in Configs : d # c => publishers'[d] = publishers[d] /\ nameToPublisher'[d] = nameToPublisher[d]
          /\ nameToPublisher'[c] <= Len(publishers'[c])
          /\ \A n \in DOMAIN publishers[c] : n \in DOMAIN publishers'[c] /\ publishers'[c][n] = publishers[c][n]
          /\ nameToPublisher[c] # 0 => publishers'[c] = publishers[c] /\ nameToPublisher'[c] = nameToPublisher[c]
          /\ nameToPublisher[c] = 0 => \A n \in DOMAIN publishers'[c] :
               n \in DOMAIN publishers[c] \/ (n = nameToPublisher'[c] /\ publishers'[c][n] = "creating")
      BY <1>a, <3>2, <3>3, GetsPublisher
    <3>5. ASSUME NEW d \in Configs, d # c PROVE OnePublisher(d)' /\ KnowsRelease(d)'
      BY <1>a, <2>0, <3>4, <3>5 DEF Sharing, OnePublisher, KnowsRelease
    <3>6. CASE nameToPublisher[c] # 0
      <4>1. OnePublisher(c)' /\ KnowsRelease(c)'
        BY <2>0, <3>3, <3>4, <3>6 DEF OnePublisher, KnowsRelease
      <4> QED
        BY <1>a, <2>0, <3>5, <4>1 DEF Sharing
    <3>7. CASE nameToPublisher[c] = 0
      <4>1. \A n \in DOMAIN publishers'[c] : \/ n \in DOMAIN publishers[c] /\ publishers'[c][n] = publishers[c][n]
                                             \/ n = nameToPublisher'[c] /\ publishers'[c][n] = "creating"
        BY <3>4, <3>7
      <4>2. ASSUME ~IsGivenUp, NEW n \in DOMAIN publishers[c] PROVE publishers[c][n] = "failed"
        BY <1>a, <3>2, <3>3, <3>7, <4>2, RecordsAre DEF OnePublisher
      <4>3. "creating" \notin Created \cup {"null", "failed"}
        BY DEF Created, Unsettled
      <4>4. OnePublisher(c)'
        BY <2>0, <3>3, <3>4, <4>1, <4>2, <4>3 DEF OnePublisher
      <4>5. KnowsRelease(c)'
        BY <2>0, <3>3, <4>1 DEF KnowsRelease
      <4> QED
        BY <1>a, <2>0, <3>5, <4>4, <4>5 DEF Sharing
    <3> QED
      BY <3>6, <3>7
  <2>3. CASE ~Schedule(s)
    <3>1. UNCHANGED <<publishers, nameToPublisher>>
      BY <2>1, <2>3 DEF SchedulerMoves, Emit, Resolved, ResolvingFails, UploadFails, EndSchedule
    <3> QED
      BY <1>1, <2>0, <3>1
  <2> QED
    BY <2>2, <2>3
<1>5. CASE \E s \in Schedulers : Upload(s)
  <2>1. PICK s \in Schedulers : Upload(s)
    BY <1>5
  <2> DEFINE c == Head(schedulers[s].todo)
             n == schedulers[s].publisher
             p == IF publishers[c][n] = "created" THEN "looking" ELSE publishers[c][n]
  <2>2. c \in Configs /\ n \in DOMAIN publishers[c]
        /\ \/ UNCHANGED publishers
           \/ c \in GitHub /\ publishers[c][n] \in Unsettled /\ PublisherGoes(c, n, p)
    BY <1>a, <2>1, UploadIs DEF Stages
  <2>3. UNCHANGED <<cancelled, step, nameToPublisher, release>>
    BY <2>1, UploadLeaves
  <2>4. CASE UNCHANGED publishers
    BY <1>1, <2>3, <2>4
  <2>5. CASE c \in GitHub /\ publishers[c][n] \in Unsettled /\ PublisherGoes(c, n, p)
    <3>1. p \in {"looking", "making"} /\ publishers[c][n] # "failed" /\ publishers[c][n] \in Created
          /\ (p = "making" => publishers[c][n] = "making")
      BY <2>5 DEF Unsettled, Created
    <3> HIDE DEF p, c, n
    <3>2. /\ p = "making" => release[c] # "withheld" /\ (release[c] = "none" \/ IsGivenUp)
          /\ release[c] # "double" \/ IsGivenUp
      BY <1>a, <2>2, <2>5, <3>1 DEF Sharing, KnowsRelease
    <3> QED
      BY <1>a, <2>2, <2>3, <2>5, <3>1, <3>2, SharingMoves
  <2> QED
    BY <2>2, <2>4, <2>5
<1>6. CASE \E c \in Configs : \E n \in DOMAIN publishers[c] : PublisherMoves(c, n)
  <2>1. PICK c \in Configs : \E n \in DOMAIN publishers[c] : PublisherMoves(c, n)
    BY <1>6
  <2>2. PICK n \in DOMAIN publishers[c] : PublisherMoves(c, n)
    BY <2>1
  <2>3. UNCHANGED <<cancelled, step, release>>
    BY <2>2, PublisherLeaves
  <2>4. publishers[c][n] = "creating"
    BY <1>a, <2>2, PublisherMoveIs
  <2>5. PICK p \in {"created", "null", "failed"} :
          /\ PublisherGoes(c, n, p)
          /\ p = "failed" => PublisherFails(c, n)
          /\ p # "failed" => UNCHANGED nameToPublisher
          /\ p = "null" => \A k \in DOMAIN publishers[c] : publishers[c][k] \notin Created
          /\ p = "created" => \A k \in DOMAIN publishers[c] : publishers[c][k] # "null"
    BY <1>a, <2>2, PublisherMoveIs
  <2>6. UNCHANGED nameToPublisher \/ (p = "failed" /\ nameToPublisher' = [nameToPublisher EXCEPT ![c] = 0])
    BY <2>5 DEF PublisherFails
  <2>7. c \in GitHub => release[c] # "double" \/ IsGivenUp
    BY <1>a DEF Sharing
  <2>8. p \in Created => p = "created"
    BY DEF Created, Unsettled
  <2> QED
    BY <1>a, <2>3, <2>4, <2>5, <2>6, <2>7, <2>8, SharingMoves
<1>7. CASE \E c \in Configs : \E n \in DOMAIN publishers[c] : ReleaseMoves(c, n)
  <2>1. PICK c \in Configs : \E n \in DOMAIN publishers[c] : ReleaseMoves(c, n)
    BY <1>7
  <2>2. PICK n \in DOMAIN publishers[c] : ReleaseMoves(c, n)
    BY <2>1
  <2>3. UNCHANGED <<cancelled, step, nameToPublisher>>
    BY <2>2, ReleaseLeaves
  <2>4. publishers[c][n] \in {"looking", "making"}
    BY <1>a, <2>2, ReleaseMoveIs
  <2>5. PICK p \in {"making", "found", "skipped", "unfound"} : ReleaseGoes(c, n, p)
    BY <1>a, <2>2, ReleaseMoveIs
  <2>6. /\ c \in GitHub
        /\ publishers[c][n] = "making" => release[c] # "withheld" /\ (release[c] = "none" \/ IsGivenUp)
        /\ release[c] # "double" \/ IsGivenUp
    BY <1>a, <2>4 DEF Sharing, KnowsRelease
  <2>7. /\ \A d \in GitHub : d # c => release'[d] = release[d]
        /\ release'[c] = "withheld" <=> release[c] = "withheld"
        /\ release'[c] # "double" \/ IsGivenUp
        /\ release'[c] # release[c] => p # "making"
    <3>1. CASE UNCHANGED release
      BY <2>6, <3>1
    <3>2. CASE release' = MadeOnServer({c}) /\ publishers[c][n] = "making" /\ p \in {"found", "unfound"}
      <4>1. /\ \A d \in GitHub : d \notin {c} => release'[d] = release[d]
            /\ \A d \in GitHub : d \in {c} => release'[d] \in {"open", "double"}
            /\ \A d \in GitHub : d \in {c} /\ release[d] = "none" => release'[d] = "open"
        BY <3>2, MadeIs
      <4> QED
        BY <2>6, <3>2, <4>1
    <3> QED
      BY <2>5, <3>1, <3>2 DEF ReleaseGoes
  <2>8. /\ PublisherGoes(c, n, p)
        /\ p \in {"making", "found"} => release'[c] # "withheld"
        /\ p = "making" => release'[c] = "none" \/ IsGivenUp
        /\ p = "skipped" => release'[c] = "withheld"
    BY <2>4, <2>5, <2>6, <2>7 DEF ReleaseGoes
  <2>9. p # "null" /\ publishers[c][n] # "failed" /\ publishers[c][n] \in Created
    BY <2>4 DEF Created, Unsettled
  <2> QED
    BY <1>a, <2>3, <2>6, <2>7, <2>8, <2>9, SharingMoves
<1>8. CASE Cancel
  <2>1. IsGivenUp'
    BY <1>8, CancelLeaves DEF IsGivenUp
  <2>2. ASSUME NEW c \in Configs PROVE OnePublisher(c)' /\ KnowsRelease(c)'
    <3>1. /\ nameToPublisher'[c] = 0
          /\ Len(publishers'[c]) = Len(publishers[c]) /\ DOMAIN publishers'[c] = DOMAIN publishers[c]
          /\ \A n \in DOMAIN publishers[c] :
               publishers'[c][n] = IF publishers[c][n] \in {"looking", "making"} THEN "unfound" ELSE publishers[c][n]
      BY <1>a, <1>8, CancelIs
    <3>2. Len(publishers[c]) \in Nat /\ OnePublisher(c) /\ KnowsRelease(c)
      BY <1>a, RecordsAre DEF Sharing
    <3>3. OnePublisher(c)'
      <4>1. \A n \in DOMAIN publishers[c] : /\ publishers'[c][n] = "null" <=> publishers[c][n] = "null"
                                            /\ publishers'[c][n] \in Created => publishers[c][n] \in Created
        BY <3>1 DEF Created, Unsettled
      <4> QED
        BY <2>1, <3>1, <3>2, <4>1 DEF OnePublisher
    <3>4. KnowsRelease(c)'
      <4>1. c \in GitHub => (release'[c] = "withheld" <=> release[c] = "withheld")
        BY <1>a DEF ReleasesLast
      <4> QED
        BY <2>1, <3>1, <3>2, <4>1 DEF KnowsRelease
    <3> QED
      BY <3>3, <3>4
  <2> QED
    BY <2>1, <2>2 DEF Sharing
<1>9. CASE UNCHANGED vars
  BY <1>1, <1>9 DEF vars
<1> QED
  BY <1>1, <1>3, <1>4, <1>5, <1>6, <1>7, <1>8, <1>9, StepKinds, StartLeaves, InfoLeaves, UploadStepLeaves

-----------------------------------------------------------------------------
(* The stages of the build, and what its schedulers have left to do.        *)

\* A scheduler that does not move has the same left to do.
LEMMA TodoStays ==
  ASSUME Types, NEW s \in Schedulers, Todo(s), PublishersLast, BuildLasts,
         schedulers'[s] = schedulers[s]
  PROVE  Todo(s)'
<1>1. isPublish' = isPublish /\ (cancelled => cancelled')
  BY DEF BuildLasts
<1>2. schedulers[s].todo # <<>> => Head(schedulers[s].todo) \in Configs
  BY HeadIs
<1>3. schedulers[s].at = "creating" =>
        schedulers[s].todo # <<>> /\ schedulers[s].publisher \in DOMAIN publishers'[Head(schedulers[s].todo)]
  BY <1>2 DEF Todo, PublishersLast
<1> QED
  BY <1>1, <1>3 DEF Todo

\* A scheduler moves: the list it has then, and where it was.
LEMMA TodoMoves ==
  ASSUME Types, Types', Stages, Sharing, BuildLasts, PublishersLast, NEW s \in Schedulers, SchedulerMoves(s)
  PROVE  /\ Todo(s)' /\ \A t \in Schedulers : t # s => schedulers'[t] = schedulers[t]
         /\ s \in Artifacts \/ UNCHANGED schedulers \/ schedulers[s].at \in {"scheduling", "creating"}
         /\ s \in emitted' \/ UNCHANGED schedulers \/ s \notin Artifacts
<1>a. Todo(s) /\ (s \in Artifacts => s \notin Configs) /\ (s \in Artifacts /\ schedulers[s].at # "idle" => s \in emitted)
  BY SchedulerKinds DEF Stages
<1>b. isPublish' = isPublish /\ (cancelled' <=> cancelled) /\ emitted \subseteq emitted'
  BY SchedulerLeaves DEF BuildLasts
<1>0. CASE UNCHANGED schedulers
  BY <1>a, <1>0, TodoStays
<1>1. CASE s \in Artifacts /\ Emit(s) /\ ~UNCHANGED schedulers
  <2>1. Moves(s, "resolving") /\ schedulers'[s].todo = schedulers[s].todo
    BY <1>1, MoveIs DEF Emit, SchedulerSteps
  <2>2. s \notin emitted /\ s \in emitted'
    BY <1>1 DEF Emit, Build!Emit
  <2>3. schedulers[s].at = "idle"
    BY <1>1, <2>2 DEF Stages
  <2> QED
    BY <1>1, <1>a, <1>b, <2>1, <2>2, <2>3 DEF Todo, Moves
<1>2. CASE Resolved(s)
  <2> DEFINE l == IF isPublish THEN ConfigList ELSE <<>>
  <2>1. l \in Seq(Configs) /\ IsSuffix(l, ConfigList) /\ (l # <<>> => isPublish)
    BY ConfigsAssumption, EndsOfList
  <2>2. schedulers' = [schedulers EXCEPT ![s].at = "scheduling", ![s].todo = l] /\ s \in Artifacts
        /\ schedulers[s].at = "resolving"
    BY <1>2 DEF Resolved
  <2> HIDE DEF l
  <2>3. Moves(s, "scheduling") /\ schedulers'[s].todo = l
    BY <2>1, <2>2, ListIs DEF SchedulerSteps
  <2>4. s \in emitted'
    BY <1>a, <1>b, <2>2
  <2> QED
    BY <1>a, <1>b, <2>1, <2>2, <2>3, <2>4 DEF Todo, Moves
<1>3. CASE ResolvingFails(s)
  <2>1. Moves(s, "failed") /\ schedulers'[s].todo = schedulers[s].todo /\ s \in Artifacts
        /\ schedulers[s].at = "resolving"
    BY <1>3, MoveIs DEF ResolvingFails, SchedulerSteps
  <2> QED
    BY <1>a, <1>b, <2>1 DEF Todo, Moves
<1>4. CASE Schedule(s)
  <2>1. schedulers[s].todo # <<>> /\ schedulers[s].at = "scheduling"
    BY <1>4 DEF Schedule, GoesOn
  <2>2. Head(schedulers[s].todo) \in Configs
    BY <1>a, <2>1, HeadIs
  <2>3. PICK c \in Configs : c = Head(schedulers[s].todo)
    BY <2>2
  <2>4. GetOrCreatePublisher(c)
        /\ schedulers' = [schedulers EXCEPT ![s].at = "creating", ![s].publisher = nameToPublisher'[c]]
    BY <1>4, <2>3 DEF Schedule
  <2>5. nameToPublisher'[c] \in DOMAIN publishers'[c] /\ nameToPublisher'[c] \in Nat
    <3>1. nameToPublisher[c] <= Len(publishers[c])
      BY DEF Sharing, OnePublisher
    <3>2. nameToPublisher' \in [Configs -> Nat] /\ nameToPublisher'[c] \in DOMAIN publishers'[c]
      BY <2>4, <3>1, GetsPublisher
    <3> QED
      BY <3>2
  <2>6. Moves(s, "creating") /\ schedulers'[s].todo = schedulers[s].todo /\ schedulers'[s].publisher = nameToPublisher'[c]
    <3>1. PICK n \in Nat : n = nameToPublisher'[c]
      BY <2>5
    <3>2. Moves(s, "creating") /\ schedulers'[s].todo = schedulers[s].todo /\ schedulers'[s].publisher = n
      BY <2>4, <3>1, AwaitsIs DEF SchedulerSteps
    <3> QED
      BY <3>1, <3>2
  <2>7. Todo(s)'
    BY <1>a, <1>b, <2>1, <2>3, <2>5, <2>6 DEF Todo, Moves
  <2> QED
    BY <1>a, <1>b, <2>1, <2>6, <2>7 DEF Moves
<1>5. CASE UploadFails(s)
  <2>1. Moves(s, "failed") /\ schedulers'[s].todo = schedulers[s].todo /\ schedulers[s].at = "creating"
    BY <1>5, MoveIs DEF UploadFails, SchedulerSteps
  <2> QED
    BY <1>a, <1>b, <2>1 DEF Todo, Moves
<1>6. CASE EndSchedule(s)
  <2>1. /\ schedulers[s].at = "scheduling" /\ ~GoesOn(s)
        /\ Moves(s, "ended") /\ schedulers'[s].todo = schedulers[s].todo
    BY <1>6, EndScheduleIs
  <2>2. schedulers[s].todo = <<>> \/ (s \in Artifacts /\ cancelled)
    BY <2>1 DEF GoesOn
  <2> QED
    BY <1>a, <1>b, <2>1, <2>2 DEF Todo, Moves
<1> QED
  BY <1>0, <1>1, <1>2, <1>3, <1>4, <1>5, <1>6 DEF SchedulerMoves

\* Every step keeps Stages: build() begins the schedulers in its own order.
LEMMA NextStages ==
  ASSUME IInv, [Next]_vars, Types' PROVE Stages'
<1>a. Types /\ Stages /\ Sharing /\ BuildLasts /\ PublishersLast
  BY NextBuildLasts, NextPublishersLast DEF IInv
<1>b. \A s \in Schedulers : schedulers'[s] = schedulers[s] => Todo(s)'
  BY <1>a, TodoStays DEF Stages
<1>c. \A a \in Artifacts : a \in Schedulers /\ a # Extra /\ a \notin Configs
  BY SchedulerKinds
<1>d. Extra \in Schedulers /\ Extra \notin Configs
  BY SchedulerKinds
<1>e. emitted \subseteq emitted' /\ (cancelled => cancelled')
  BY <1>a DEF BuildLasts
<1> USE DEF packager, caching, tasks, server
<1>1. CASE UNCHANGED <<phase, emitted, isListening, step, round, schedulers>>
  BY <1>a, <1>b, <1>e, <1>1 DEF Stages
<1>2. CASE BuildMoves
  <2>1. UNCHANGED <<emitted, cancelled, schedulers>>
    BY <1>2, BuildLeaves
  <2>2. \A s \in Schedulers : Todo(s)'
    BY <1>b, <2>1
  <2>3. CASE StartHook
    BY <1>a, <2>1, <2>2, <2>3 DEF StartHook, Build!Resolve, Stages
  <2>4. CASE EndHook
    BY <1>a, <2>1, <2>2, <2>4 DEF EndHook, Stages
  <2>5. CASE AwaitTasks \/ EndRound
    <3>1. step \in {"awaiting", "awaitingInfo"} /\ UNCHANGED phase
      BY <1>a, <2>5 DEF AwaitTasks, EndRound, Stages
    <3>2. PICK d : Continue(d)
      BY <2>5 DEF AwaitTasks, EndRound
    <3>3. \/ UNCHANGED <<step, isListening>>
          \/ round' = NoWait /\ step' = "failed" /\ UNCHANGED isListening
          \/ round' = NoWait /\ step' = "succeeded" /\ isListening' = FALSE
          \/ round' = NoWait /\ step' = "signing" /\ UNCHANGED isListening
      BY <3>2 DEF Continue, Ends
    <3> QED
      BY <1>a, <2>1, <2>2, <3>1, <3>3 DEF Stages
  <2>6. CASE SigningFails
    BY <1>a, <2>1, <2>2, <2>6 DEF SigningFails, Stages
  <2>7. CASE EndWriting
    BY <1>a, <2>1, <2>2, <2>7 DEF EndWriting, Stages
  <2>8. CASE BuildFails
    BY <1>a, <2>1, <2>2, <2>8 DEF BuildFails, Build!Reject, Ends, Stages
  <2>9. CASE HookFails
    BY <1>a, <2>1, <2>2, <2>9 DEF HookFails, Ends, Stages
  <2> QED
    BY <1>2, <2>3, <2>4, <2>5, <2>6, <2>7, <2>8, <2>9 DEF BuildMoves
<1>3. CASE SchedulersStart
  <2>1. UNCHANGED <<phase, emitted, cancelled, isPublish, isListening, round>>
    BY <1>3, StartLeaves
  <2>2. \A s \in Schedulers :
         \/ schedulers'[s] = schedulers[s]
         \/ /\ HookReturns /\ s = Extra /\ schedulers'[s].todo = ConfigList
            /\ schedulers'[s].at = "scheduling" /\ isPublish
         \/ /\ WriteUpdateInfoFiles /\ s \in Configs /\ schedulers'[s].at = "scheduling" /\ isPublish
            /\ schedulers'[s].todo = <<s>>
    BY <1>a, <1>3, StartIs
  <2>3. \A s \in Schedulers : Todo(s)'
    BY <1>b, <1>d, <2>1, <2>2, EndsOfList DEF Todo
  <2>4. \A a \in Artifacts : schedulers'[a].at # "idle" => a \in emitted
    <3>1. \A a \in Artifacts : schedulers'[a] = schedulers[a]
      BY <1>c, <2>2
    <3> QED
      BY <1>a, <3>1 DEF Stages
  <2>5. CASE HookReturns
    <3>1. step = "hook" /\ UNCHANGED step
      BY <2>5 DEF HookReturns
    <3> QED
      BY <1>a, <2>1, <2>3, <2>4, <3>1 DEF Stages
  <2>6. CASE WriteUpdateInfoFiles
    <3>1. schedulers'[Extra] = schedulers[Extra]
      BY <1>d, <2>2, <2>6 DEF HookReturns, WriteUpdateInfoFiles
    <3>2. step = "signing" /\ step' = "writing"
      BY <2>6 DEF WriteUpdateInfoFiles
    <3> QED
      BY <1>a, <2>1, <2>3, <2>4, <3>1, <3>2 DEF Stages
  <2> QED
    BY <1>3, <2>5, <2>6 DEF SchedulersStart
<1>4. CASE \E s \in Schedulers : SchedulerMoves(s)
  <2>1. PICK s \in Schedulers : SchedulerMoves(s)
    BY <1>4
  <2>2. UNCHANGED <<phase, cancelled, isListening, step, round>>
    BY <2>1, SchedulerLeaves
  <2>3. /\ Todo(s)' /\ \A t \in Schedulers : t # s => schedulers'[t] = schedulers[t]
        /\ s \in Artifacts \/ UNCHANGED schedulers \/ schedulers[s].at \in {"scheduling", "creating"}
        /\ s \in emitted' \/ UNCHANGED schedulers \/ s \notin Artifacts
    BY <1>a, <2>1, TodoMoves
  <2>4. \A t \in Schedulers : Todo(t)'
    BY <1>b, <2>3
  <2>5. step \notin {"building", "hook", "failed"} => schedulers'[Extra].at \in {"idle", "ended"}
    BY <1>a, <1>c, <1>d, <2>3 DEF Stages
  <2>6. \A a \in Artifacts : schedulers'[a].at # "idle" => a \in emitted'
    BY <1>a, <1>c, <1>e, <2>3 DEF Stages
  <2>7. phase = "resolved" => emitted' = Artifacts \/ cancelled
    <3>1. CASE s \in Artifacts /\ Emit(s)
      BY <3>1 DEF Emit, Build!Emit
    <3>2. CASE ~(s \in Artifacts /\ Emit(s))
      BY <1>a, <2>1, <3>2 DEF SchedulerMoves, Resolved, ResolvingFails, Schedule, UploadFails, EndSchedule, Stages
    <3> QED
      BY <3>1, <3>2
  <2> QED
    BY <1>a, <2>2, <2>4, <2>5, <2>6, <2>7 DEF Stages
<1>5. CASE \E s \in Schedulers : Upload(s)
  <2>1. PICK s \in Schedulers : Upload(s)
    BY <1>5
  <2>2. UNCHANGED <<phase, emitted, cancelled, isPublish, isListening, step, round>>
    BY <2>1, UploadLeaves
  <2>3. Todo(s)
    BY <1>a DEF Stages
  <2>4. /\ schedulers[s].at = "creating" /\ Moves(s, "scheduling")
        /\ schedulers'[s].todo = Tail(schedulers[s].todo)
    BY <1>a, <2>1, <2>3, UploadIs
  <2>5. schedulers[s].todo # <<>> /\ schedulers[s].todo \in Seq(Configs)
    BY <1>a, <2>3, <2>4, RecordsAre DEF Todo
  <2>6. /\ s \in Configs => Tail(schedulers[s].todo) = <<>>
        /\ IsSuffix(schedulers[s].todo, ConfigList) => IsSuffix(Tail(schedulers[s].todo), ConfigList)
    BY <1>a, <2>3, <2>5, HeadIs, TodoTail
  <2>7. Todo(s)'
    BY <2>2, <2>3, <2>4, <2>5, <2>6 DEF Todo, Moves
  <2>8. \A t \in Schedulers : Todo(t)'
    BY <1>b, <2>4, <2>7 DEF Moves
  <2>9. step \notin {"building", "hook", "failed"} => schedulers'[Extra].at \in {"idle", "ended"}
    BY <1>a, <1>d, <2>4 DEF Stages, Moves
  <2>10. \A a \in Artifacts : schedulers'[a].at # "idle" => a \in emitted
    BY <1>a, <1>c, <2>4 DEF Stages, Moves
  <2> QED
    BY <1>a, <2>2, <2>8, <2>9, <2>10 DEF Stages
<1>6. CASE UNCHANGED vars
  BY <1>1, <1>6 DEF vars
<1> QED
  BY <1>1, <1>2, <1>3, <1>4, <1>5, <1>6, StepKinds, InfoLeaves, PublisherLeaves, ReleaseLeaves, UploadStepLeaves, CancelLeaves

-----------------------------------------------------------------------------
(* The uploads and what the server has.                                     *)

\* All that lasts.
Lasts == BuildLasts /\ SchedulersLast /\ PublishersLast /\ UploadsLast /\ ReleasesLast

\* Every step keeps all of it.
LEMMA NextLasts ==
  ASSUME IInv, [Next]_vars PROVE Lasts
  BY NextBuildLasts, NextSchedulersLast, NextPublishersLast, NextUploadsLast, NextReleasesLast DEF Lasts

\* What lasts, as the uploads see it.
LEMMA KnownLasts ==
  ASSUME Lasts
  PROVE  /\ \A c : IsWithheld(c)' <=> IsWithheld(c)
         /\ \A c \in Configs : IsNull(c) => IsNull(c)'
         /\ \A c \in Configs : (\E n \in DOMAIN publishers[c] : publishers[c][n] \in Created) =>
              \E n \in DOMAIN publishers'[c] : publishers'[c][n] \in Created
  BY DEF Lasts, ReleasesLast, PublishersLast, IsWithheld, IsNull

\* An upload that was called before is, and has a publisher, whatever it does now.
LEMMA SentLasts ==
  ASSUME Lasts, NEW u \in Uploads, Sent(u),
         uploads[u].at # "new",
         uploads'[u].at \in {"sending", "overwriting", "delaying"} => ~IsWithheld(u[2]),
         assets'[u] = "new" => assets[u] = "new" \/ ~IsWithheld(u[2]),
         uploads'[u].at = "done" => assets'[u] = "new" \/ IsWithheld(u[2])
  PROVE  Sent(u)'
<1>1. u[1] \in Schedulers /\ u[2] \in Configs
  BY SchedulerKinds
<1>2. uploads'[u].at # "new" /\ isPublish' = isPublish
  BY DEF Lasts, UploadsLast, BuildLasts
<1>3. isPublish /\ schedulers'[u[1]].at # "idle" /\ \E n \in DOMAIN publishers'[u[2]] : publishers'[u[2]][n] \in Created
  <2>1. isPublish /\ schedulers[u[1]].at # "idle" /\ \E n \in DOMAIN publishers[u[2]] : publishers[u[2]][n] \in Created
    BY DEF Sent
  <2> QED
    BY <1>1, <2>1, KnownLasts DEF Lasts, SchedulersLast
<1>4. IsWithheld(u[2])' <=> IsWithheld(u[2])
  BY KnownLasts
<1>5. assets'[u] = "new" => ~IsWithheld(u[2])
  BY DEF Sent
<1> QED
  BY <1>2, <1>3, <1>4, <1>5 DEF Sent

\* An upload that does not move is as good as it was.
LEMMA SentStays ==
  ASSUME Lasts, NEW u \in Uploads, Sent(u), uploads'[u] = uploads[u], assets'[u] = assets[u]
  PROVE  Sent(u)'
<1>1. CASE uploads[u].at # "new"
  BY <1>1, SentLasts DEF Sent
<1>2. CASE uploads[u].at = "new"
  BY <1>2 DEF Sent
<1> QED
  BY <1>1, <1>2

\* A scheduler that keeps its list has passed what it had passed before.
LEMMA PassedStays ==
  ASSUME Lasts, NEW s \in Schedulers, Passed(s), schedulers'[s].todo = schedulers[s].todo,
         schedulers'[s].at \in {"scheduling", "creating", "ended"} => schedulers[s].at \in {"scheduling", "creating", "ended"}
  PROVE  Passed(s)'
<1>1. ASSUME schedulers'[s].at \in {"scheduling", "creating", "ended"},
             NEW c \in Configs, isPublish', <<s, c>> \in Uploads, c \notin ToSet(schedulers'[s].todo)
      PROVE  uploads'[<<s, c>>].at # "new" \/ IsNull(c)'
  <2>1. isPublish /\ c \notin ToSet(schedulers[s].todo)
    BY <1>1 DEF Lasts, BuildLasts
  <2>2. uploads[<<s, c>>].at # "new" \/ IsNull(c)
    BY <1>1, <2>1 DEF Passed
  <2> QED
    BY <1>1, <2>2, KnownLasts DEF Lasts, UploadsLast
<1> QED
  BY <1>1 DEF Passed

\* A scheduler with everything to go has not passed anything.
LEMMA NothingPassed ==
  ASSUME NEW s \in Schedulers,
         isPublish' => (s \notin Configs /\ schedulers'[s].todo = ConfigList) \/ (s \in Configs /\ schedulers'[s].todo = <<s>>)
  PROVE  Passed(s)'
<1>1. ASSUME NEW c \in Configs, isPublish', <<s, c>> \in Uploads PROVE c \in ToSet(schedulers'[s].todo)
  <2>1. CASE schedulers'[s].todo = ConfigList
    BY <1>1, <2>1 DEF Configs
  <2>2. CASE s \in Configs /\ schedulers'[s].todo = <<s>>
    <3>1. c = s
      BY <1>1, <2>2, SchedulerKinds
    <3>2. s \in ToSet(<<s>>)
      BY DEF ToSet
    <3> QED
      BY <2>2, <3>1, <3>2
  <2> QED
    BY <1>1, <2>1, <2>2
<1> QED
  BY <1>1 DEF Passed

\* A scheduler that moves past a configuration has called upload() there, or nobody is to.
LEMMA PassedMoves ==
  ASSUME Types, Stages, Lasts, NEW s \in Schedulers, Passed(s), SchedulerMoves(s)
  PROVE  Passed(s)'
<1>0. CASE UNCHANGED schedulers
  BY <1>0, PassedStays
<1>1. CASE s \in Artifacts /\ Emit(s) /\ ~UNCHANGED schedulers
  <2>1. schedulers'[s].at = "resolving"
    BY <1>1, MoveIs DEF Emit, SchedulerSteps, Moves
  <2> QED
    BY <2>1 DEF Passed
<1>2. CASE Resolved(s)
  <2> DEFINE l == IF isPublish THEN ConfigList ELSE <<>>
  <2>1. l \in Seq(Configs) /\ (isPublish => l = ConfigList)
    BY ConfigsAssumption
  <2>2. schedulers' = [schedulers EXCEPT ![s].at = "scheduling", ![s].todo = l] /\ s \in Artifacts
    BY <1>2 DEF Resolved
  <2> HIDE DEF l
  <2>3. schedulers'[s].todo = l
    BY <2>1, <2>2, ListIs DEF SchedulerSteps
  <2>4. isPublish' = isPublish /\ s \notin Configs
    BY <2>2, SchedulerKinds DEF Lasts, BuildLasts
  <2> QED
    BY <2>1, <2>3, <2>4, NothingPassed
<1>3. CASE ResolvingFails(s) \/ UploadFails(s)
  <2>1. schedulers'[s].at = "failed"
    BY <1>3, MoveIs DEF ResolvingFails, UploadFails, SchedulerSteps, Moves
  <2> QED
    BY <2>1 DEF Passed
<1>4. CASE Schedule(s)
  <2>1. schedulers[s].at = "scheduling" /\ schedulers[s] \in SchedulerStates
        /\ \E n : schedulers' = [schedulers EXCEPT ![s].at = "creating", ![s].publisher = n]
    BY <1>4, RecordsAre DEF Schedule
  <2>2. schedulers'[s].todo = schedulers[s].todo
    BY <2>1 DEF SchedulerStates, Types
  <2> QED
    BY <2>1, <2>2, PassedStays
<1>5. CASE EndSchedule(s)
  <2>1. schedulers[s].at = "scheduling" /\ schedulers'[s].todo = schedulers[s].todo
    BY <1>5, EndScheduleIs
  <2> QED
    BY <2>1, PassedStays
<1> QED
  BY <1>0, <1>1, <1>2, <1>3, <1>4, <1>5 DEF SchedulerMoves

\* Every step keeps Sending: upload() finds a created publisher, and sends where it may.
LEMMA NextSending ==
  ASSUME IInv, [Next]_vars, Types', Sharing' PROVE Sending'
<1>a. Types /\ Stages /\ Sharing /\ Sending
  BY DEF IInv
<1>b. Lasts
  BY NextLasts
<1>c. \A u \in Uploads : uploads'[u] = uploads[u] /\ assets'[u] = assets[u] => Sent(u)'
  BY <1>a, <1>b, SentStays DEF Sending
<1>d. \A s \in Schedulers : schedulers'[s] = schedulers[s] => Passed(s)'
  BY <1>a, <1>b, PassedStays DEF Sending
<1> USE DEF packager, caching, tasks, server
<1>1. CASE UNCHANGED <<uploads, assets, schedulers>>
  BY <1>c, <1>d, <1>1 DEF Sending
<1>2. CASE SchedulersStart
  <2>1. UNCHANGED <<uploads, assets>>
    BY <1>2, StartLeaves
  <2>2. ASSUME NEW s \in Schedulers PROVE Passed(s)'
    <3>1. \/ schedulers'[s] = schedulers[s]
          \/ s = Extra /\ schedulers'[s].todo = ConfigList
          \/ s \in Configs /\ schedulers'[s].todo = <<s>>
      BY <1>a, <1>2, StartIs
    <3>2. Extra \notin Configs
      BY SchedulerKinds
    <3> QED
      BY <1>d, <3>1, <3>2, NothingPassed
  <2> QED
    BY <1>c, <2>1, <2>2 DEF Sending
<1>3. CASE \E s \in Schedulers : SchedulerMoves(s)
  <2>1. PICK s \in Schedulers : SchedulerMoves(s)
    BY <1>3
  <2>2. UNCHANGED <<uploads, assets>>
    BY <2>1, SchedulerLeaves
  <2>3. \A t \in Schedulers : t # s => schedulers'[t] = schedulers[t]
    BY <1>a, <2>1, SchedulerMoveIs DEF Moves
  <2>4. Passed(s)'
    BY <1>a, <1>b, <2>1, PassedMoves DEF Sending
  <2> QED
    BY <1>c, <1>d, <2>2, <2>3, <2>4 DEF Sending
<1>4. CASE \E s \in Schedulers : Upload(s)
  <2>1. PICK s \in Schedulers : Upload(s)
    BY <1>4
  <2>2. Todo(s) /\ Passed(s)
    BY <1>a DEF Stages, Sending
  <2>3. UNCHANGED <<assets, isPublish>>
    BY <2>1, UploadLeaves
  <2>4. schedulers[s].at = "creating" /\ schedulers[s].todo # <<>> /\ isPublish /\ schedulers[s].todo \in Seq(Configs)
    BY <1>a, <2>1, <2>2, RecordsAre DEF Upload, Todo
  <2>5. PICK c \in Configs : c = Head(schedulers[s].todo) /\ <<s, c>> \in Uploads
    BY <1>a, <2>2, <2>4, HeadIs
  <2>6. PICK n \in DOMAIN publishers[c] : n = schedulers[s].publisher
    BY <1>a, <2>2, <2>4, <2>5 DEF Todo
  <2> DEFINE u == <<s, c>>
             p == publishers[c][n]
  <2>7. u \in Uploads /\ u[1] = s /\ u[2] = c
    BY <2>5
  <2>8. /\ Moves(s, "scheduling") /\ schedulers'[s].todo = Tail(schedulers[s].todo)
        /\ \/ p = "null" /\ UNCHANGED uploads
           \/ p \in Created /\ UploadMoves(u, "failed")
           \/ /\ p \in Created
              /\ \E x \in {"awaitingRelease", "sending", "done", "failed"} :
                   /\ Called(u, x)
                   /\ x = "sending" => c \notin GitHub \/ p = "found"
                   /\ x = "done" => p = "skipped"
    BY <1>a, <2>1, <2>2, <2>5, <2>6, UploadIs
  <2>9. \/ p = "null" /\ UNCHANGED uploads
        \/ /\ p \in Created
           /\ \E x \in {"awaitingRelease", "sending", "done", "failed"} :
                /\ UploadMoves(u, x)
                /\ x = "sending" => ~IsWithheld(c)
                /\ x = "done" => IsWithheld(c)
    <3>1. p = "found" => release[c] # "withheld"
      BY <1>a DEF Sharing, KnowsRelease
    <3>2. p = "skipped" => c \in GitHub /\ release[c] = "withheld"
      BY <1>a DEF Sharing, KnowsRelease
    <3> HIDE DEF p, u
    <3> QED
      BY <2>8, <3>1, <3>2 DEF IsWithheld, Called
  <2>10. \A v \in Uploads : v # u => uploads'[v] = uploads[v]
    BY <2>9 DEF UploadMoves
  <2>11. p = "null" \/ uploads'[u].at # "new"
    BY <2>9 DEF UploadMoves
  <2>12. Sent(u)'
    <3>0. Sent(u)
      BY <1>a, <2>7 DEF Sending
    <3>1. CASE UNCHANGED uploads
      BY <1>c, <2>3, <2>7, <3>1
    <3>2. ASSUME p \in Created, NEW x \in {"awaitingRelease", "sending", "done", "failed"}, UploadMoves(u, x),
                 x = "sending" => ~IsWithheld(c), x = "done" => IsWithheld(c)
          PROVE  Sent(u)'
      <4>1. uploads'[u].at = x /\ x # "new"
        BY <3>2 DEF UploadMoves
      <4>2. schedulers'[s].at # "idle"
        BY <2>8 DEF Moves
      <4>3. \E m \in DOMAIN publishers'[c] : publishers'[c][m] \in Created
        BY <1>b, <3>2, KnownLasts
      <4>4. assets[u] = "new" => ~IsWithheld(c)
        BY <2>7, <3>0 DEF Sent
      <4>5. IsWithheld(c)' <=> IsWithheld(c)
        BY <1>b, KnownLasts
      <4> QED
        BY <2>3, <2>4, <2>7, <3>2, <4>1, <4>2, <4>3, <4>4, <4>5 DEF Sent
    <3> QED
      BY <2>9, <3>1, <3>2
  <2>13. Passed(s)'
    <3>1. ASSUME NEW d \in Configs, <<s, d>> \in Uploads, d \notin ToSet(schedulers'[s].todo)
          PROVE  uploads'[<<s, d>>].at # "new" \/ IsNull(d)'
      <4>1. d = c \/ d \notin ToSet(schedulers[s].todo)
        BY <2>4, <2>5, <2>8, <3>1, TodoTail
      <4>2. CASE d = c
        <5>1. p = "null" => IsNull(c)'
          BY <1>b, KnownLasts DEF IsNull
        <5> QED
          BY <2>11, <4>2, <5>1
      <4>3. CASE d \notin ToSet(schedulers[s].todo)
        <5>1. uploads[<<s, d>>].at # "new" \/ IsNull(d)
          BY <2>2, <2>4, <3>1, <4>3 DEF Passed
        <5> QED
          BY <1>b, <3>1, <5>1, KnownLasts DEF Lasts, UploadsLast
      <4> QED
        BY <4>1, <4>2, <4>3
    <3> QED
      BY <3>1 DEF Passed
  <2>14. \A v \in Uploads : Sent(v)'
    BY <1>c, <2>3, <2>10, <2>12
  <2>15. \A t \in Schedulers : Passed(t)'
    BY <1>d, <2>8, <2>13 DEF Moves
  <2> QED
    BY <2>14, <2>15 DEF Sending
<1>5. CASE \E c \in Configs : \E n \in DOMAIN publishers[c] : ReleaseMoves(c, n)
  <2>1. PICK c \in Configs : \E n \in DOMAIN publishers[c] : ReleaseMoves(c, n)
    BY <1>5
  <2>2. PICK n \in DOMAIN publishers[c] : ReleaseMoves(c, n)
    BY <2>1
  <2>3. UNCHANGED <<assets, schedulers>>
    BY <2>2, ReleaseLeaves
  <2>4. PICK p \in {"making", "found", "skipped", "unfound"} : ReleaseGoes(c, n, p)
    BY <1>a, <2>2, ReleaseMoveIs
  <2>5. CASE p = "making"
    BY <1>1, <2>3, <2>4, <2>5 DEF ReleaseGoes
  <2>6. CASE p # "making"
    <3>1. SettleRelease(c, n, p) /\ PublisherGoes(c, n, p)
      BY <2>4, <2>6 DEF ReleaseGoes
    <3>2. /\ p = "found" => ~IsWithheld(c)'
          /\ p = "skipped" => IsWithheld(c)'
      BY <3>1 DEF Sharing, KnowsRelease, IsWithheld, PublisherGoes
    <3>3. /\ p = "found" => ~IsWithheld(c)
          /\ p = "skipped" => IsWithheld(c)
      BY <1>b, <3>2, KnownLasts
    <3>4. ASSUME NEW u \in Uploads PROVE Sent(u)'
      <4>1. CASE uploads'[u] = uploads[u]
        BY <1>c, <2>3, <4>1
      <4>2. CASE uploads[u].at = "awaitingRelease" /\ u[2] = c /\ uploads'[u].at = AtRelease(p)
        <5>1. /\ AtRelease(p) \in {"sending", "done", "failed"}
              /\ AtRelease(p) = "sending" => p = "found"
              /\ AtRelease(p) = "done" => p = "skipped"
          BY <2>6 DEF AtRelease
        <5>2. Sent(u) /\ assets'[u] = assets[u]
          BY <1>a, <2>3 DEF Sending
        <5> QED
          BY <1>b, <3>3, <4>2, <5>1, <5>2, SentLasts
      <4>3. \/ uploads'[u] = uploads[u]
            \/ uploads[u].at = "awaitingRelease" /\ u[2] = c /\ uploads'[u].at = AtRelease(p)
        BY <1>a, <2>6, <3>1, ReleaseSettles
      <4> QED
        BY <4>1, <4>2, <4>3
    <3> QED
      BY <1>d, <2>3, <3>4 DEF Sending
  <2> QED
    BY <2>5, <2>6
<1>6. CASE \E u \in Uploads : UploadStep(u)
  <2>1. PICK u \in Uploads : UploadStep(u)
    BY <1>6
  <2>2. UNCHANGED schedulers
    BY <2>1, UploadStepLeaves
  <2>3. /\ uploads[u].at \in {"sending", "overwriting", "delaying"}
        /\ \A v \in Uploads : v # u => assets'[v] = assets[v]
        /\ \/ UploadMoves(u, "done") /\ assets'[u] = "new"
           \/ UploadMoves(u, "failed")
           \/ \E x \in {"sending", "overwriting", "delaying"} : UploadMoves(u, x)
    BY <1>a, <2>1, UploadStepIs
  <2>4. \A v \in Uploads : v # u => uploads'[v] = uploads[v]
    BY <2>3 DEF UploadMoves
  <2>5. uploads'[u].at = "done" => assets'[u] = "new"
    BY <2>3 DEF UploadMoves
  <2>6. Sent(u) /\ ~IsWithheld(u[2])
    BY <1>a, <2>3 DEF Sending, Sent
  <2>7. Sent(u)'
    BY <1>b, <2>3, <2>5, <2>6, SentLasts
  <2> QED
    BY <1>c, <1>d, <2>2, <2>3, <2>4, <2>7 DEF Sending
<1>7. CASE Cancel
  <2>1. UNCHANGED schedulers
    BY <1>7, CancelLeaves
  <2>2. ASSUME NEW u \in Uploads PROVE Sent(u)'
    <3>1. /\ uploads'[u] = uploads[u] \/ (uploads'[u].at = "failed" /\ u \in InFlight)
          /\ assets'[u] = assets[u] \/ (assets'[u] = "new" /\ uploads[u].at = "sending")
      BY <1>a, <1>7, CancelIs
    <3>2. Sent(u)
      BY <1>a DEF Sending
    <3>3. CASE uploads'[u] = uploads[u] /\ assets'[u] = assets[u]
      BY <1>c, <3>3
    <3>4. CASE ~(uploads'[u] = uploads[u] /\ assets'[u] = assets[u])
      <4>1. uploads[u].at # "new" /\ (assets'[u] = "new" => assets[u] = "new" \/ uploads[u].at = "sending")
        BY <3>1, <3>4 DEF InFlight
      <4>2. uploads[u].at = "sending" => ~IsWithheld(u[2])
        BY <3>2 DEF Sent
      <4>3. uploads'[u].at \in {"sending", "overwriting", "delaying"} => ~IsWithheld(u[2])
        BY <3>1, <3>2 DEF Sent
      <4>4. uploads'[u].at = "done" => assets'[u] = "new" \/ IsWithheld(u[2])
        BY <3>1, <3>2 DEF Sent
      <4> QED
        BY <1>b, <3>2, <4>1, <4>2, <4>3, <4>4, SentLasts
    <3> QED
      BY <3>3, <3>4
  <2> QED
    BY <1>d, <2>1, <2>2 DEF Sending
<1>8. CASE UNCHANGED vars
  BY <1>1, <1>8 DEF vars
<1> QED
  BY <1>1, <1>2, <1>3, <1>4, <1>5, <1>6, <1>7, <1>8, StepKinds, BuildLeaves, InfoLeaves, PublisherLeaves

-----------------------------------------------------------------------------
(* The tasks of a build that goes on.                                       *)

\* An upload that does not move is heard as before.
LEMMA HeardStays ==
  ASSUME NEW u \in Uploads, Heard(u), manager.errors \subseteq manager'.errors,
         uploads'[u] = uploads[u], u \in pending => u \in pending'
  PROVE  Heard(u)'
  BY DEF Heard, InFlight

\* A handler that does not move is heard as before.
LEMMA HandledStays ==
  ASSUME BuildLasts, NEW a \in Artifacts, Handled(a), schedulers'[a] = schedulers[a], a \in emitted' => a \in emitted,
         Handle(a) \in pending => Handle(a) \in pending',
         CreateInfo(a) \in pending => CreateInfo(a) \in pending' \/ a \in infos' \/ manager'.errors # {}
  PROVE  Handled(a)'
  BY DEF Handled, BuildLasts

\* Tasks that are added, or settle, are among those that are awaited.
LEMMA PendingStays ==
  ASSUME pending \subseteq manager.tasks \cup Awaited, Listens, UNCHANGED round
  PROVE  pending' \subseteq manager'.tasks \cup Awaited'
  BY DEF Listens, Awaited

\* A step that moves no scheduler and no upload, and ends no task, leaves everything awaited.
LEMMA TrackingStays ==
  ASSUME BuildLasts, Tracking, UNCHANGED <<emitted, schedulers, uploads>>, Listens, UNCHANGED round,
         pending \subseteq pending'
  PROVE  Tracking'
<1>1. ASSUME BuildGoesOn'
      PROVE  /\ pending' \subseteq manager'.tasks \cup Awaited'
             /\ \A u \in Uploads : Heard(u)'
             /\ \A a \in Artifacts : Handled(a)'
  <2>1. /\ pending \subseteq manager.tasks \cup Awaited
        /\ \A u \in Uploads : Heard(u)
        /\ \A a \in Artifacts : Handled(a)
    BY <1>1 DEF BuildLasts, BuildGoesOn, IsGivenUp, Tracking
  <2> QED
    BY <2>1, PendingStays, HeardStays, HandledStays DEF Listens
<1> QED
  BY <1>1 DEF Tracking

\* The handler of an artifact.
LEMMA HandlerMoves ==
  ASSUME IInv, BuildLasts, BuildGoesOn, BuildGoesOn', NEW s \in Schedulers, SchedulerMoves(s),
         \A a \in Artifacts : Handled(a)
  PROVE  /\ Listens /\ \A t \in pending : t \in pending' \/ (s \in Artifacts /\ t = Handle(s))
         /\ \A t \in Schedulers : t # s => schedulers'[t] = schedulers[t]
         /\ s \in Artifacts => Handled(s)'
         /\ emitted' \subseteq emitted \cup ({s} \cap Artifacts)
<1>a. Types /\ Stages
  BY DEF IInv
<1>b. ~cancelled /\ infos \subseteq infos'
  BY DEF BuildGoesOn, BuildLasts
<1>c. \A t \in Schedulers : t # s => schedulers'[t] = schedulers[t]
  BY <1>a, SchedulerMoveIs DEF Moves
<1> USE DEF packager, caching, tasks, server
<1>1. CASE s \in Artifacts /\ Emit(s)
  <2>1. isListening
    <3>1. phase = "resolved" => cancelled
      BY <1>1 DEF Emit, Build!Emit
    <3>2. step = "building"
      BY <1>a, <1>b, <3>1 DEF BuildGoesOn, Stages, Types
    <3> QED
      BY <1>a, <3>2 DEF Stages
  <2>2. Move(s, "resolving") /\ AddTask(Handle(s)) /\ emitted' = emitted \cup {s}
    BY <1>1, <2>1 DEF Emit, Build!Emit
  <2>3. Moves(s, "resolving")
    BY <1>a, <2>2, MoveIs DEF SchedulerSteps
  <2>4. Listens /\ pending \subseteq pending' /\ Handle(s) \in pending'
    BY <1>a, <1>b, <1>1, <2>2, AddListens, TaskKinds
  <2>5. Handled(s)'
    BY <2>3, <2>4 DEF Handled, Moves
  <2> QED
    BY <1>c, <1>1, <2>2, <2>4, <2>5
<1>2. CASE Resolved(s)
  <2>1. UNCHANGED <<emitted, manager, pending>> /\ s \in Artifacts /\ schedulers[s].at = "resolving"
    BY <1>2 DEF Resolved
  <2>2. schedulers'[s].at = "scheduling"
    <3> DEFINE l == IF isPublish THEN ConfigList ELSE <<>>
    <3>1. l \in Seq(Configs)
      BY ConfigsAssumption
    <3>2. schedulers' = [schedulers EXCEPT ![s].at = "scheduling", ![s].todo = l]
      BY <1>2 DEF Resolved
    <3> HIDE DEF l
    <3> QED
      BY <1>a, <3>1, <3>2, ListIs DEF SchedulerSteps, Moves
  <2>3. Handle(s) \in pending
    BY <2>1 DEF Handled
  <2> QED
    BY <1>a, <1>c, <2>1, <2>2, <2>3, SameListens DEF Handled
<1>3. CASE ResolvingFails(s)
  <2>1. Moves(s, "failed") /\ s \in Artifacts /\ schedulers[s].at = "resolving" /\ Settle(Handle(s), FALSE)
        /\ UNCHANGED emitted
    BY <1>a, <1>3, MoveIs DEF ResolvingFails, SchedulerSteps
  <2>2. Handle(s) \in pending /\ Listens /\ pending' = pending \ {Handle(s)}
        /\ (Handle(s) \in pending => manager'.errors # {})
    BY <1>a, <2>1, SettleListens DEF Handled
  <2>3. Handled(s)'
    BY <2>1, <2>2 DEF Handled, Moves
  <2> QED
    BY <1>c, <2>1, <2>2, <2>3
<1>4. CASE Schedule(s)
  <2>1. UNCHANGED <<emitted, manager, pending>> /\ schedulers[s].at = "scheduling" /\ schedulers[s] \in SchedulerStates
        /\ \E n : schedulers' = [schedulers EXCEPT ![s].at = "creating", ![s].publisher = n]
    BY <1>a, <1>4, RecordsAre DEF Schedule
  <2>2. schedulers'[s].at = "creating"
    BY <1>a, <2>1 DEF SchedulerStates, Types
  <2>3. s \in Artifacts => Handle(s) \in pending
    BY <2>1 DEF Handled
  <2> QED
    BY <1>a, <1>c, <2>1, <2>2, <2>3, SameListens DEF Handled
<1>5. CASE UploadFails(s)
  <2>1. Moves(s, "failed") /\ schedulers[s].at = "creating" /\ UNCHANGED emitted
        /\ (s \in Artifacts => Settle(Handle(s), FALSE)) /\ (s \notin Artifacts => UNCHANGED <<manager, pending>>)
    BY <1>a, <1>5, MoveIs DEF UploadFails, SchedulerSteps
  <2>2. CASE s \in Artifacts
    <3>1. Handle(s) \in pending /\ Listens /\ pending' = pending \ {Handle(s)}
          /\ (Handle(s) \in pending => manager'.errors # {})
      BY <1>a, <2>1, <2>2, SettleListens DEF Handled
    <3>2. Handled(s)'
      BY <2>1, <3>1 DEF Handled, Moves
    <3> QED
      BY <1>c, <2>1, <2>2, <3>1, <3>2
  <2>3. CASE s \notin Artifacts
    BY <1>a, <1>c, <2>1, <2>3, SameListens
  <2> QED
    BY <2>2, <2>3
<1>6. CASE EndSchedule(s)
  <2>1. /\ Moves(s, "ended") /\ Listens
        /\ \A t \in pending : t \in pending' \/ (s \in Artifacts /\ t = Handle(s))
        /\ s \in Updatable /\ ~cancelled => CreateInfo(s) \in pending'
    BY <1>a, <1>6, EndScheduleIs
  <2>2. UNCHANGED emitted
    BY <1>6 DEF EndSchedule
  <2>3. Handled(s)'
    BY <1>b, <2>1 DEF Handled, Moves
  <2> QED
    BY <1>c, <2>1, <2>2, <2>3
<1> QED
  BY <1>1, <1>2, <1>3, <1>4, <1>5, <1>6 DEF SchedulerMoves

\* Every step keeps Tracking: a task ends before its promise is forgotten.
LEMMA NextTracking ==
  ASSUME IInv, [Next]_vars, Types' PROVE Tracking'
<1>a. Types /\ Stages /\ Tracking
  BY DEF IInv
<1>b. BuildLasts
  BY NextBuildLasts
<1> SUFFICES ASSUME BuildGoesOn'
             PROVE  /\ pending' \subseteq manager'.tasks \cup Awaited'
                    /\ \A u \in Uploads : Heard(u)'
                    /\ \A a \in Artifacts : Handled(a)'
  BY DEF Tracking
<1>c. BuildGoesOn /\ ~cancelled
  BY <1>b DEF BuildLasts, BuildGoesOn, IsGivenUp
<1>d. /\ pending \subseteq manager.tasks \cup Awaited
      /\ \A u \in Uploads : Heard(u)
      /\ \A a \in Artifacts : Handled(a)
  BY <1>a, <1>c DEF Tracking
<1>e. manager.errors \subseteq manager'.errors /\ infos \subseteq infos'
  BY <1>b DEF BuildLasts
<1>f. \A a \in Artifacts : a \in Schedulers
  BY SchedulerKinds
<1> USE DEF packager, caching, tasks, server
<1>1. CASE UNCHANGED <<emitted, schedulers, uploads, manager, pending, round>>
  <2>1. \A u \in Uploads : Heard(u)'
    BY <1>1, <1>d, <1>e, HeardStays
  <2>2. \A a \in Artifacts : Handled(a)'
    BY <1>1, <1>b, <1>d, HandledStays
  <2> QED
    BY <1>1, <1>d, <2>1, <2>2 DEF Awaited
<1>2. CASE BuildMoves
  <2>1. UNCHANGED <<emitted, schedulers, uploads, pending>>
    BY <1>2, BuildLeaves
  <2>2. \A u \in Uploads : Heard(u)'
    BY <2>1, <1>d, <1>e, HeardStays
  <2>3. \A a \in Artifacts : Handled(a)'
    BY <2>1, <1>b, <1>d, HandledStays
  <2>4. CASE StartHook \/ EndHook \/ SigningFails \/ EndWriting
    BY <1>1, <2>1, <2>4 DEF StartHook, EndHook, SigningFails, EndWriting
  <2>5. CASE BuildFails \/ HookFails
    BY <2>5 DEF BuildFails, HookFails, Ends, BuildGoesOn
  <2>6. CASE AwaitTasks \/ EndRound
    <3>1. PICK d : Continue(d) /\ (d = OnCall(manager, cancelled) \/ d = OnRoundEnd(manager, cancelled))
      BY <2>6 DEF AwaitTasks, EndRound
    <3>2. Awaited \cap pending = {}
      BY <2>6 DEF AwaitTasks, EndRound, Awaited
    <3>3. pending \subseteq manager.tasks
      BY <1>d, <3>2
    <3>4. d # "rejected" /\ d # "cancelled"
      <4>1. d # "rejected"
        BY <3>1 DEF Continue, BuildGoesOn
      <4>2. ~cancelled
        BY <1>c
      <4> QED
        BY <3>1, <4>1, <4>2 DEF OnCall, OnRoundEnd
    <3>5. CASE d = "waiting"
      <4>1. round' = manager.tasks /\ manager.tasks # NoWait
        BY <1>a, <3>1, <3>5, RecordsAre, NoWaitIsNoSet DEF Continue
      <4> QED
        BY <2>1, <2>2, <2>3, <3>3, <4>1 DEF Awaited
    <3>6. CASE d # "waiting"
      <4>1. manager.tasks = {}
        BY <3>1, <3>4, <3>6 DEF OnCall, OnRoundEnd
      <4> QED
        BY <2>1, <2>2, <2>3, <3>3, <4>1
    <3> QED
      BY <3>5, <3>6
  <2> QED
    BY <1>2, <2>4, <2>5, <2>6 DEF BuildMoves
<1>3. CASE SchedulersStart
  <2>1. UNCHANGED <<emitted, uploads, manager, pending, round>>
    BY <1>3, StartLeaves
  <2>2. \A u \in Uploads : Heard(u)'
    BY <2>1, <1>d, <1>e, HeardStays
  <2>3. \A a \in Artifacts : schedulers'[a] = schedulers[a]
    BY <1>a, <1>3, <1>f, StartIs, SchedulerKinds
  <2>4. \A a \in Artifacts : Handled(a)'
    BY <2>1, <2>3, <1>b, <1>d, HandledStays
  <2> QED
    BY <1>d, <2>1, <2>2, <2>4 DEF Awaited
<1>4. CASE \E s \in Schedulers : SchedulerMoves(s)
  <2>1. PICK s \in Schedulers : SchedulerMoves(s)
    BY <1>4
  <2>2. UNCHANGED <<round, uploads>>
    BY <2>1, SchedulerLeaves
  <2>3. /\ Listens /\ \A t \in pending : t \in pending' \/ (s \in Artifacts /\ t = Handle(s))
        /\ \A t \in Schedulers : t # s => schedulers'[t] = schedulers[t]
        /\ s \in Artifacts => Handled(s)'
        /\ emitted' \subseteq emitted \cup ({s} \cap Artifacts)
    BY <1>b, <1>c, <1>d, <2>1, HandlerMoves
  <2>4. ASSUME NEW u \in Uploads PROVE Heard(u)'
    <3>1. u \in pending => u \in pending'
      BY <2>3, TaskKinds
    <3> QED
      BY <1>d, <1>e, <2>2, <3>1, HeardStays
  <2>5. ASSUME NEW a \in Artifacts, a # s PROVE Handled(a)'
    <3>1. /\ Handle(a) \in pending => Handle(a) \in pending'
          /\ CreateInfo(a) \in pending => CreateInfo(a) \in pending'
      BY <2>3, <2>5, TaskKinds
    <3>2. schedulers'[a] = schedulers[a] /\ (a \in emitted' => a \in emitted)
      BY <1>f, <2>3, <2>5
    <3> QED
      BY <1>b, <1>d, <3>1, <3>2, HandledStays
  <2> QED
    BY <1>d, <2>2, <2>3, <2>4, <2>5, PendingStays
<1>5. CASE \E s \in Schedulers : Upload(s)
  <2>1. PICK s \in Schedulers : Upload(s)
    BY <1>5
  <2>2. UNCHANGED <<emitted, infos, round>>
    BY <2>1, UploadLeaves
  <2>3. Todo(s)
    BY <1>a DEF Stages
  <2>4. PICK c : c = Head(schedulers[s].todo)
    OBVIOUS
  <2>5. PICK n : n = schedulers[s].publisher
    OBVIOUS
  <2> DEFINE u == <<s, c>>
  <2>6. /\ u \in Uploads /\ schedulers[s].at = "creating" /\ Moves(s, "scheduling")
        /\ manager' \in Managers(Tasks) /\ pending' \in SUBSET Tasks
        /\ \/ UNCHANGED <<uploads, manager, pending>>
           \/ \E x \in {"awaitingRelease", "sending", "done", "failed"} : Called(u, x)
    BY <1>a, <1>c, <2>1, <2>3, <2>4, <2>5, UploadIs
  <2> HIDE DEF u
  <2>7. Listens /\ pending \subseteq pending'
    BY <1>a, <1>e, <2>6, SameListens, CalledListens DEF Called
  <2>8. ASSUME NEW v \in Uploads PROVE Heard(v)'
    <3>1. CASE uploads'[v] = uploads[v]
      BY <1>d, <1>e, <2>7, <3>1, HeardStays
    <3>2. CASE uploads'[v] # uploads[v]
      <4>1. PICK x \in {"awaitingRelease", "sending", "done", "failed"} : Called(u, x)
        BY <2>6, <3>2
      <4>2. v = u /\ uploads'[v].at = x
        BY <3>2, <4>1 DEF Called, UploadMoves
      <4>3. v \in InFlight' => x \in {"awaitingRelease", "sending"}
        BY <4>1, <4>2 DEF InFlight
      <4> QED
        BY <4>1, <4>2, <4>3 DEF Heard, Called
    <3> QED
      BY <3>1, <3>2
  <2>9. ASSUME NEW a \in Artifacts PROVE Handled(a)'
    <3>1. CASE a # s
      BY <1>b, <1>d, <1>f, <2>2, <2>6, <2>7, <3>1, HandledStays DEF Moves
    <3>2. CASE a = s
      <4>1. Handle(a) \in pending'
        BY <1>d, <2>6, <2>7, <3>2 DEF Handled
      <4>2. schedulers'[a].at = "scheduling"
        BY <2>6, <3>2 DEF Moves
      <4> QED
        BY <4>1, <4>2 DEF Handled
    <3> QED
      BY <3>1, <3>2
  <2> QED
    BY <1>d, <2>2, <2>7, <2>8, <2>9, PendingStays
<1>6. CASE \E a \in Updatable : EndCreateInfo(a)
  <2>1. PICK a \in Updatable : EndCreateInfo(a)
    BY <1>6
  <2>2. UNCHANGED <<emitted, schedulers, uploads, round>>
    BY <2>1, InfoLeaves
  <2>3. /\ CreateInfo(a) \in pending
        /\ (a \in infos' /\ Settle(CreateInfo(a), TRUE)) \/ Settle(CreateInfo(a), FALSE)
    BY <2>1 DEF EndCreateInfo
  <2>4. Listens /\ pending' = pending \ {CreateInfo(a)} /\ (a \in infos' \/ manager'.errors # {})
    BY <1>a, <2>3, SettleListens
  <2>5. ASSUME NEW u \in Uploads PROVE Heard(u)'
    <3>1. u \in pending => u \in pending'
      BY <2>4, TaskKinds
    <3> QED
      BY <1>d, <1>e, <2>2, <3>1, HeardStays
  <2>6. ASSUME NEW b \in Artifacts PROVE Handled(b)'
    <3>1. /\ Handle(b) \in pending => Handle(b) \in pending'
          /\ CreateInfo(b) \in pending => CreateInfo(b) \in pending' \/ b \in infos' \/ manager'.errors # {}
      BY <2>4, TaskKinds
    <3> QED
      BY <1>b, <1>d, <2>2, <3>1, HandledStays
  <2> QED
    BY <1>d, <2>2, <2>4, <2>5, <2>6, PendingStays
<1>7. CASE \E c \in Configs : \E n \in DOMAIN publishers[c] : PublisherMoves(c, n)
  BY <1>1, <1>7, PublisherLeaves
<1>8. CASE \E c \in Configs : \E n \in DOMAIN publishers[c] : ReleaseMoves(c, n)
  <2>1. PICK c \in Configs : \E n \in DOMAIN publishers[c] : ReleaseMoves(c, n)
    BY <1>8
  <2>2. PICK n \in DOMAIN publishers[c] : ReleaseMoves(c, n)
    BY <2>1
  <2>3. UNCHANGED <<emitted, schedulers, infos, round>>
    BY <2>2, ReleaseLeaves
  <2>4. PICK p \in {"making", "found", "skipped", "unfound"} : ReleaseGoes(c, n, p)
    BY <1>a, <2>2, ReleaseMoveIs
  <2>5. CASE p = "making"
    BY <1>1, <2>3, <2>4, <2>5 DEF ReleaseGoes
  <2>6. CASE p # "making"
    <3>1. SettleRelease(c, n, p)
      BY <2>4, <2>6 DEF ReleaseGoes
    <3>2. /\ manager' \in Managers(Tasks) /\ pending' \in SUBSET Tasks
          /\ manager'.tasks = manager.tasks /\ pending' \subseteq pending /\ (p = "found" => pending' = pending)
          /\ \A u \in Uploads :
               \/ uploads'[u] = uploads[u] /\ (u \in pending => u \in pending')
               \/ /\ uploads[u].at = "awaitingRelease" /\ u[2] = c /\ uploads'[u].at = AtRelease(p)
                  /\ p = "unfound" /\ u \in pending => manager'.errors # {}
          /\ \A t \in pending : t \notin Uploads => t \in pending'
      BY <1>a, <2>6, <3>1, ReleaseSettles
    <3>3. Listens
      BY <1>e, <3>2 DEF Listens
    <3>4. ASSUME NEW u \in Uploads PROVE Heard(u)'
      <4>1. CASE uploads'[u] = uploads[u] /\ (u \in pending => u \in pending')
        BY <1>d, <1>e, <4>1, HeardStays
      <4>2. CASE /\ uploads[u].at = "awaitingRelease" /\ uploads'[u].at = AtRelease(p)
                 /\ p = "unfound" /\ u \in pending => manager'.errors # {}
        <5>1. u \in pending
          BY <1>d, <4>2 DEF Heard, InFlight
        <5>2. \/ p = "found" /\ uploads'[u].at = "sending"
              \/ p = "skipped" /\ uploads'[u].at = "done"
              \/ p = "unfound" /\ uploads'[u].at = "failed"
          BY <2>6, <4>2 DEF AtRelease
        <5> QED
          BY <3>2, <4>2, <5>1, <5>2 DEF Heard, InFlight
      <4> QED
        BY <3>2, <4>1, <4>2
    <3>5. ASSUME NEW a \in Artifacts PROVE Handled(a)'
      <4>1. /\ Handle(a) \in pending => Handle(a) \in pending'
            /\ CreateInfo(a) \in pending => CreateInfo(a) \in pending'
        <5>1. Handle(a) \notin Uploads /\ (CreateInfo(a) \in pending => CreateInfo(a) \notin Uploads)
          BY <1>a, TaskKinds DEF Types
        <5> QED
          BY <3>2, <5>1
      <4> QED
        BY <1>b, <1>d, <2>3, <4>1, HandledStays
    <3> QED
      BY <1>d, <2>3, <3>3, <3>4, <3>5, PendingStays
  <2> QED
    BY <2>5, <2>6
<1>9. CASE \E u \in Uploads : UploadStep(u)
  <2>1. PICK u \in Uploads : UploadStep(u)
    BY <1>9
  <2>2. UNCHANGED <<emitted, schedulers, infos, round>>
    BY <2>1, UploadStepLeaves
  <2>3. /\ uploads[u].at \in {"sending", "overwriting", "delaying"}
        /\ Listens /\ \A t \in pending : t # u => t \in pending'
        /\ \/ UploadMoves(u, "done")
           \/ UploadMoves(u, "failed") /\ (u \in pending => manager'.errors # {})
           \/ \E x \in {"sending", "overwriting", "delaying"} :
                UploadMoves(u, x) /\ UNCHANGED <<manager, pending>>
    BY <1>a, <2>1, UploadStepIs
  <2>4. ASSUME NEW v \in Uploads PROVE Heard(v)'
    <3>1. CASE v # u
      <4>1. uploads'[v] = uploads[v]
        BY <2>3, <3>1 DEF UploadMoves
      <4> QED
        BY <1>d, <1>e, <2>3, <3>1, <4>1, HeardStays
    <3>2. CASE v = u
      <4>1. u \in pending
        BY <1>d, <2>3 DEF Heard, InFlight
      <4> QED
        BY <2>3, <3>2, <4>1 DEF Heard, InFlight, UploadMoves
    <3> QED
      BY <3>1, <3>2
  <2>5. ASSUME NEW a \in Artifacts PROVE Handled(a)'
    <3>1. /\ Handle(a) \in pending => Handle(a) \in pending'
          /\ CreateInfo(a) \in pending => CreateInfo(a) \in pending'
      <4>1. Handle(a) # u /\ (CreateInfo(a) \in pending => CreateInfo(a) # u)
        BY <1>a, TaskKinds DEF Types
      <4> QED
        BY <2>3, <4>1
    <3> QED
      BY <1>b, <1>d, <2>2, <3>1, HandledStays
  <2> QED
    BY <1>d, <2>2, <2>3, <2>4, <2>5, PendingStays
<1>10. CASE Cancel
  BY <1>10, CancelLeaves DEF BuildGoesOn
<1>11. CASE UNCHANGED vars
  BY <1>1, <1>11 DEF vars
<1> QED
  BY <1>2, <1>3, <1>4, <1>5, <1>6, <1>7, <1>8, <1>9, <1>10, <1>11, StepKinds

-----------------------------------------------------------------------------
(* The end of the build.                                                    *)

\* The scheduler of an update info file is named by its configuration.
LEMMA InfoIs == \A c : Info(c) = c
  BY DEF Info

\* A scheduler that has not begun, or has ended, begins at its own time only, or stays what it is.
LEMMA SchedulerStays ==
  ASSUME IInv, [Next]_vars, NEW s \in Schedulers, schedulers[s].at \in {"idle", "ended"}
  PROVE  \/ schedulers'[s] = schedulers[s]
         \/ /\ schedulers[s].at = "idle"
            /\ \/ s \in Artifacts /\ s \notin emitted
               \/ s = Extra /\ step = "hook"
               \/ s \in Configs /\ WriteUpdateInfoFiles
<1>a. Types /\ Stages /\ Finishing
  BY DEF IInv
<1>1. CASE SchedulersStart
  <2>1. \/ schedulers'[s] = schedulers[s]
        \/ HookReturns /\ s = Extra /\ schedulers[s].at = "idle"
        \/ WriteUpdateInfoFiles /\ s \in Configs
    BY <1>a, <1>1, StartIs
  <2>2. WriteUpdateInfoFiles /\ s \in Configs => schedulers[s].at = "idle"
    BY <1>a, InfoIs DEF WriteUpdateInfoFiles, Finishing, InfoStep
  <2>3. HookReturns => step = "hook"
    BY DEF HookReturns
  <2> QED
    BY <2>1, <2>2, <2>3
<1>2. CASE \E t \in Schedulers : SchedulerMoves(t)
  <2>1. PICK t \in Schedulers : SchedulerMoves(t)
    BY <1>2
  <2>2. CASE t # s
    BY <1>a, <2>1, <2>2, SchedulerMoveIs DEF Moves
  <2>3. CASE t = s
    <3>1. (s \in Artifacts /\ Emit(s)) \/ EndSchedule(s)
      BY <2>1, <2>3 DEF SchedulerMoves, Resolved, ResolvingFails, Schedule, UploadFails
    <3>2. ~EndSchedule(s)
      BY DEF EndSchedule
    <3>3. s \in Artifacts /\ s \notin emitted
      BY <3>1, <3>2 DEF Emit, Build!Emit
    <3>4. schedulers[s].at = "idle"
      BY <1>a, <3>3 DEF Stages
    <3> QED
      BY <3>3, <3>4
  <2> QED
    BY <2>2, <2>3
<1>3. CASE \E t \in Schedulers : Upload(t)
  <2>1. PICK t \in Schedulers : Upload(t)
    BY <1>3
  <2>2. schedulers[t].at = "creating" /\ Moves(t, "scheduling")
    BY <1>a, <2>1, UploadIs DEF Stages
  <2> QED
    BY <2>2 DEF Moves
<1>4. CASE UNCHANGED vars
  BY <1>4 DEF vars
<1> QED
  BY <1>1, <1>2, <1>3, <1>4, StepKinds, BuildLeaves, InfoLeaves, PublisherLeaves, ReleaseLeaves, UploadStepLeaves, CancelLeaves

\* An upload that is done stays so, when nobody may call it.
LEMMA DoneStays ==
  ASSUME IInv, [Next]_vars, NEW u \in Uploads, uploads[u].at = "done", schedulers[u[1]].at # "creating"
  PROVE  uploads'[u].at = "done"
<1>a. Types /\ Stages
  BY DEF IInv
<1>0. CASE UNCHANGED uploads
  BY <1>0
<1>1. CASE \E s \in Schedulers : Upload(s)
  <2>1. PICK s \in Schedulers : Upload(s)
    BY <1>1
  <2>2. PICK v : v = <<s, Head(schedulers[s].todo)>>
    OBVIOUS
  <2>3. schedulers[s].at = "creating" /\ (UNCHANGED uploads \/ \E x : UploadMoves(v, x))
    <3>1. \/ UNCHANGED uploads
          \/ UploadMoves(v, "failed")
          \/ \E x \in {"awaitingRelease", "sending", "done", "failed"} : Called(v, x)
      BY <1>a, <2>1, <2>2, UploadIs DEF Stages
    <3>2. schedulers[s].at = "creating"
      BY <2>1 DEF Upload
    <3> QED
      BY <3>1, <3>2 DEF Called
  <2>4. v # u
    BY <2>2, <2>3
  <2> QED
    BY <2>3, <2>4 DEF UploadMoves
<1>2. CASE \E c \in Configs : \E n \in DOMAIN publishers[c] : ReleaseMoves(c, n)
  <2>1. PICK c \in Configs : \E n \in DOMAIN publishers[c] : ReleaseMoves(c, n)
    BY <1>2
  <2>2. PICK n \in DOMAIN publishers[c] : ReleaseMoves(c, n)
    BY <2>1
  <2>4. PICK p \in {"making", "found", "skipped", "unfound"} : ReleaseGoes(c, n, p)
    BY <1>a, <2>2, ReleaseMoveIs
  <2>5. CASE p = "making"
    BY <1>0, <2>4, <2>5 DEF ReleaseGoes, server
  <2>6. CASE p # "making"
    <3>1. SettleRelease(c, n, p)
      BY <2>4, <2>6 DEF ReleaseGoes
    <3> QED
      BY <1>a, <2>6, <3>1, ReleaseSettles
  <2> QED
    BY <2>5, <2>6
<1>3. CASE \E v \in Uploads : UploadStep(v)
  <2>1. PICK v \in Uploads : UploadStep(v)
    BY <1>3
  <2>2. uploads[v].at \in {"sending", "overwriting", "delaying"} /\ \E x : UploadMoves(v, x)
    BY <1>a, <2>1, UploadStepIs
  <2> QED
    BY <2>2 DEF UploadMoves
<1>4. CASE Cancel
  BY <1>a, <1>4, CancelIs DEF InFlight
<1>5. CASE UNCHANGED vars
  BY <1>5 DEF vars, server
<1> QED
  BY <1>0, <1>1, <1>2, <1>3, <1>4, <1>5, StepKinds, BuildLeaves, StartLeaves, SchedulerLeaves, InfoLeaves, PublisherLeaves DEF server

\* What has been stored stays so.
LEMMA StoredStays ==
  ASSUME IInv, [Next]_vars, NEW s \in Schedulers, schedulers[s].at = "ended", IsStored(s)
  PROVE  schedulers'[s].at = "ended" /\ IsStored(s)'
<1>1. Lasts
  BY NextLasts
<1>2. schedulers'[s].at = "ended"
  BY SchedulerStays
<1>3. ASSUME NEW c \in Configs, isPublish', <<s, c>> \in Uploads
      PROVE  uploads'[<<s, c>>].at = "done" \/ IsNull(c)'
  <2>1. uploads[<<s, c>>].at = "done" \/ IsNull(c)
    BY <1>1, <1>3 DEF IsStored, Lasts, BuildLasts
  <2>2. uploads[<<s, c>>].at = "done" => uploads'[<<s, c>>].at = "done"
    BY <1>3, DoneStays
  <2> QED
    BY <1>1, <2>1, <2>2, KnownLasts
<1> QED
  BY <1>2, <1>3 DEF IsStored

\* When all is stored, it stays so.
LEMMA AllStoredStays ==
  ASSUME IInv, [Next]_vars, Types', AllStored, step # "hook"
  PROVE  AllStored'
<1>1. infos' = Updatable
  BY NextBuildLasts DEF AllStored, BuildLasts, Types
<1>2. ASSUME NEW a \in Artifacts PROVE a \in emitted' /\ schedulers'[a].at = "ended" /\ IsStored(a)'
  <2>1. a \in Schedulers /\ a \in emitted /\ schedulers[a].at = "ended" /\ IsStored(a)
    BY SchedulerKinds DEF AllStored
  <2> QED
    BY <2>1, StoredStays, NextBuildLasts DEF BuildLasts
<1>3. schedulers'[Extra].at = "idle" \/ (schedulers'[Extra].at = "ended" /\ IsStored(Extra)')
  <2>1. Extra \in Schedulers /\ Extra \notin Artifacts /\ Extra \notin Configs
    BY SchedulerKinds
  <2>2. CASE schedulers[Extra].at = "idle"
    BY <2>1, <2>2, SchedulerStays
  <2>3. CASE schedulers[Extra].at = "ended" /\ IsStored(Extra)
    BY <2>1, <2>3, StoredStays
  <2> QED
    BY <2>2, <2>3 DEF AllStored
<1> QED
  BY <1>1, <1>2, <1>3 DEF AllStored

\* When nothing is under way, and nothing has failed, all is stored.
LEMMA AllIsDone ==
  ASSUME IInv, ~cancelled, step \in {"awaiting", "awaitingInfo"}, pending = {}, manager.errors = {}
  PROVE  AllStored /\ \A s \in Schedulers : schedulers[s].at = "ended" => IsStored(s)
<1>a. Types /\ Stages /\ Sending
  BY DEF IInv
<1>b. BuildGoesOn
  BY DEF BuildGoesOn
<1>c. (\A u \in Uploads : Heard(u)) /\ (\A a \in Artifacts : Handled(a))
  BY <1>b DEF IInv, Tracking
<1>1. emitted = Artifacts
  BY <1>a DEF Types, Stages
<1>2. ASSUME NEW a \in Artifacts PROVE schedulers[a].at = "ended" /\ (a \in Updatable => a \in infos)
  <2>1. schedulers[a].at \in SchedulerSteps
    BY <1>a, RecordsAre, SchedulerKinds
  <2>2. Handled(a) /\ a \in emitted
    BY <1>1, <1>2, <1>c
  <2>3. schedulers[a].at = "ended"
    BY <2>1, <2>2 DEF Handled, SchedulerSteps
  <2> QED
    BY <2>2, <2>3 DEF Handled
<1>3. ASSUME NEW s \in Schedulers, schedulers[s].at = "ended" PROVE IsStored(s)
  <2>1. schedulers[s].todo = <<>>
    BY <1>a, <1>3 DEF Stages, Todo
  <2>2. ASSUME NEW c \in Configs, isPublish, <<s, c>> \in Uploads PROVE uploads[<<s, c>>].at = "done" \/ IsNull(c)
    <3>1. c \notin ToSet(schedulers[s].todo)
      BY <2>1 DEF ToSet
    <3>2. uploads[<<s, c>>].at # "new" \/ IsNull(c)
      BY <1>a, <1>3, <2>2, <3>1 DEF Sending, Passed
    <3>3. uploads[<<s, c>>].at \in UploadSteps
      BY <1>a, <2>2, RecordsAre
    <3>4. <<s, c>> \notin InFlight /\ uploads[<<s, c>>].at # "failed"
      BY <1>c, <2>2 DEF Heard
    <3> QED
      BY <2>2, <3>2, <3>3, <3>4 DEF InFlight, UploadSteps
  <2> QED
    BY <2>2 DEF IsStored
<1>4. infos = Updatable
  BY <1>a, <1>2, ArtifactsAssumption DEF Types
<1>5. schedulers[Extra].at \in {"idle", "ended"} /\ Extra \in Schedulers /\ \A a \in Artifacts : a \in Schedulers
  BY <1>a, SchedulerKinds DEF Stages
<1> QED
  BY <1>1, <1>2, <1>3, <1>4, <1>5 DEF AllStored

\* A round of awaiting ends: the build goes on when all is stored.
LEMMA RoundEnds ==
  ASSUME IInv, AwaitTasks \/ EndRound
  PROVE  \/ UNCHANGED step
         \/ step' = "failed"
         \/ step' = "succeeded" /\ cancelled
         \/ /\ ~cancelled /\ AllStored /\ \A s \in Schedulers : schedulers[s].at = "ended" => IsStored(s)
            /\ \/ step' = "signing" /\ step = "awaiting"
               \/ step' = "succeeded" /\ (step = "awaitingInfo" \/ infos = {})
<1>a. step \in {"awaiting", "awaitingInfo"}
  BY DEF AwaitTasks, EndRound, IInv, Stages
<1>1. PICK d : Continue(d) /\ (d = OnCall(manager, cancelled) \/ d = OnRoundEnd(manager, cancelled))
  BY DEF AwaitTasks, EndRound
<1>2. Awaited \cap pending = {}
  BY DEF AwaitTasks, EndRound, Awaited
<1>3. CASE cancelled
  BY <1>1, <1>3 DEF Continue, Ends
<1>4. CASE ~cancelled /\ d = "resolved"
  <2>1. manager.tasks = {} /\ manager.errors = {}
    BY <1>1, <1>4 DEF OnCall, OnRoundEnd
  <2>2. pending = {}
    BY <1>a, <1>2, <1>4, <2>1 DEF IInv, Tracking, BuildGoesOn
  <2>3. AllStored /\ \A s \in Schedulers : schedulers[s].at = "ended" => IsStored(s)
    BY <1>a, <1>4, <2>1, <2>2, AllIsDone
  <2> QED
    BY <1>1, <1>a, <1>4, <2>3 DEF Continue, Ends
<1>5. CASE ~cancelled /\ d # "resolved"
  <2>1. d \in {"waiting", "rejected"}
    BY <1>1, <1>5 DEF OnCall, OnRoundEnd
  <2> QED
    BY <1>1, <2>1 DEF Continue
<1> QED
  BY <1>3, <1>4, <1>5

\* How build() goes on from step to step.
LEMMA StepIs ==
  ASSUME IInv, [Next]_vars, step' # step
  PROVE  \/ step' \in {"hook", "awaiting", "failed"} /\ step \notin {"writing", "awaitingInfo", "succeeded", "failed"}
         \/ step' = "failed" /\ step \notin {"succeeded", "failed"}
         \/ AwaitTasks \/ EndRound \/ WriteUpdateInfoFiles
         \/ step = "writing" /\ step' = "awaitingInfo" /\ \A c \in Configs : schedulers[c].at \in {"idle", "ended"}
<1>1. BuildMoves \/ SchedulersStart
  <2>1. CASE UNCHANGED vars
    BY <2>1 DEF vars
  <2> QED
    BY <2>1, StepKinds, SchedulerLeaves, UploadLeaves, InfoLeaves, PublisherLeaves, ReleaseLeaves, UploadStepLeaves, CancelLeaves
<1>2. CASE SchedulersStart
  BY <1>2 DEF SchedulersStart, HookReturns
<1>3. CASE EndWriting
  BY <1>3, InfoIs DEF EndWriting
<1>4. CASE StartHook \/ EndHook \/ SigningFails \/ BuildFails \/ HookFails
  BY <1>4 DEF StartHook, EndHook, SigningFails, BuildFails, HookFails, Ends
<1> QED
  BY <1>1, <1>2, <1>3, <1>4 DEF BuildMoves

\* Every step keeps Finishing: build() goes on when all is stored.
LEMMA NextFinishing ==
  ASSUME IInv, [Next]_vars, Types' PROVE Finishing'
<1>a. Types /\ Stages /\ Finishing
  BY DEF IInv
<1>b. Lasts
  BY NextLasts
<1>c. \A c \in Configs : c \in Schedulers /\ c # Extra /\ c \notin Artifacts
  BY SchedulerKinds
<1>d. isPublish' = isPublish /\ (cancelled => cancelled')
  BY <1>b DEF Lasts, BuildLasts
<1>e. AllStored /\ step # "hook" => AllStored'
  BY AllStoredStays
<1>f. WriteUpdateInfoFiles => step = "signing" /\ step' = "writing"
  BY DEF WriteUpdateInfoFiles
<1>1. ASSUME step' \in {"signing", "writing", "awaitingInfo"} PROVE AllStored'
  <2>1. AllStored /\ step # "hook"
    <3>1. CASE step' = step
      BY <1>a, <1>1, <3>1 DEF Finishing
    <3>2. CASE step' # step /\ (AwaitTasks \/ EndRound)
      BY <1>1, <3>2, RoundEnds
    <3>3. CASE step' # step /\ ~(AwaitTasks \/ EndRound)
      <4>1. step \in {"signing", "writing"}
        BY <1>1, <1>f, <3>3, StepIs
      <4> QED
        BY <1>a, <4>1 DEF Finishing
    <3> QED
      BY <3>1, <3>2, <3>3
  <2> QED
    BY <1>e, <2>1
<1>2. ASSUME NEW c \in Configs PROVE InfoStep(c)'
  <2>0. InfoStep(c)
    BY <1>a DEF Finishing
  <2>1. ASSUME schedulers'[c].at # "idle"
        PROVE  AllStored' /\ step' \in {"writing", "awaitingInfo", "succeeded", "failed"}
    <3>1. CASE schedulers[c].at # "idle"
      <4>1. AllStored /\ step \in {"writing", "awaitingInfo", "succeeded", "failed"}
        BY <2>0, <3>1, InfoIs DEF InfoStep
      <4>2. CASE step' = step
        BY <1>e, <4>1, <4>2
      <4>3. CASE step' # step /\ (AwaitTasks \/ EndRound)
        <5>1. step' \in {"succeeded", "failed"}
          BY <4>1, <4>3, RoundEnds
        <5> QED
          BY <1>e, <4>1, <5>1
      <4>4. CASE step' # step /\ ~(AwaitTasks \/ EndRound)
        <5>1. step' \in {"awaitingInfo", "failed"}
          BY <1>f, <4>1, <4>4, StepIs
        <5> QED
          BY <1>e, <4>1, <5>1
      <4> QED
        BY <4>2, <4>3, <4>4
    <3>2. CASE schedulers[c].at = "idle"
      <4>1. WriteUpdateInfoFiles
        BY <1>c, <2>1, <3>2, SchedulerStays
      <4> QED
        BY <1>1, <1>f, <4>1
    <3> QED
      BY <3>1, <3>2
  <2>2. ASSUME step' = "writing", isPublish' PROVE schedulers'[c].at # "idle"
    <3>1. CASE step = "writing"
      BY <1>b, <1>c, <1>d, <2>0, <2>2, <3>1, InfoIs DEF InfoStep, Lasts, SchedulersLast
    <3>2. CASE step # "writing"
      <4>1. ~(AwaitTasks \/ EndRound)
        BY <2>2, <3>2, RoundEnds
      <4>2. WriteUpdateInfoFiles
        BY <2>2, <3>2, <4>1, StepIs
      <4>a. c \in Schedulers /\ isPublish
        BY <1>c, <1>d, <2>2
      <4>b. schedulers' = [s \in Schedulers |->
              IF s \in Configs /\ isPublish
                THEN [schedulers[s] EXCEPT !.at = "scheduling", !.todo = <<s>>] ELSE schedulers[s]]
        BY <4>2 DEF WriteUpdateInfoFiles
      <4>3. schedulers'[c] = [schedulers[c] EXCEPT !.at = "scheduling", !.todo = <<c>>]
        BY <4>a, <4>b, Zenon
      <4>4. schedulers[c] \in SchedulerStates
        BY <1>a, <1>c, RecordsAre
      <4>5. schedulers'[c].at = "scheduling"
        BY <4>3, <4>4 DEF SchedulerStates
      <4> QED
        BY <4>5
    <3> QED
      BY <3>1, <3>2
  <2>3. ASSUME step' = "awaitingInfo", isPublish' PROVE schedulers'[c].at = "ended"
    <3>1. schedulers[c].at = "ended"
      <4>1. CASE step = "awaitingInfo"
        BY <1>d, <2>0, <2>3, <4>1, InfoIs DEF InfoStep
      <4>2. CASE step # "awaitingInfo"
        <5>1. ~(AwaitTasks \/ EndRound)
          BY <2>3, <4>2, RoundEnds
        <5>2. step = "writing" /\ schedulers[c].at \in {"idle", "ended"}
          BY <1>f, <2>3, <4>2, <5>1, StepIs
        <5> QED
          BY <1>d, <2>0, <2>3, <5>2, InfoIs DEF InfoStep
      <4> QED
        BY <4>1, <4>2
    <3> QED
      BY <1>c, <3>1, SchedulerStays
  <2> QED
    BY <2>1, <2>2, <2>3, InfoIs DEF InfoStep
<1>3. ASSUME step' = "succeeded", ~cancelled'
      PROVE  AllStored' /\ (Updatable # {} /\ isPublish' => \A c \in Configs : schedulers'[c].at = "ended" /\ IsStored(c)')
  <2>1. AllStored /\ step # "hook"
        /\ (Updatable # {} /\ isPublish => \A c \in Configs : schedulers[c].at = "ended" /\ IsStored(c))
    <3>1. CASE step = "succeeded"
      BY <1>a, <1>d, <1>3, <3>1, InfoIs DEF Finishing
    <3>2. CASE step # "succeeded"
      <4>1. AwaitTasks \/ EndRound
        BY <1>f, <1>3, <3>2, StepIs
      <4>2. /\ AllStored /\ \A s \in Schedulers : schedulers[s].at = "ended" => IsStored(s)
            /\ step = "awaitingInfo" \/ infos = {}
        BY <1>d, <1>3, <3>2, <4>1, RoundEnds
      <4>3. step # "hook"
        BY <4>1 DEF IInv, Stages, AwaitTasks, EndRound
      <4>4. CASE step = "awaitingInfo"
        <5>1. isPublish => \A c \in Configs : schedulers[c].at = "ended"
          BY <1>a, <4>4, InfoIs DEF Finishing, InfoStep
        <5> QED
          BY <1>c, <4>2, <4>3, <5>1
      <4>5. CASE infos = {}
        BY <4>2, <4>3, <4>5 DEF AllStored
      <4> QED
        BY <4>2, <4>4, <4>5
    <3> QED
      BY <3>1, <3>2
  <2>2. ASSUME NEW c \in Configs, schedulers[c].at = "ended", IsStored(c) PROVE schedulers'[c].at = "ended" /\ IsStored(c)'
    BY <1>c, <2>2, StoredStays
  <2> QED
    BY <1>d, <1>e, <2>1, <2>2
<1> QED
  BY <1>1, <1>2, <1>3, InfoIs DEF Finishing

-----------------------------------------------------------------------------
(* The theorems.                                                            *)

\* The invariant holds at first.
LEMMA InitInvariant == Init => IInv
<1> SUFFICES ASSUME Init PROVE IInv
  OBVIOUS
<1> USE DEF Init, Build!Init
<1>0. /\ NewManager \in Managers(Tasks) /\ NewManager.tasks = {} /\ NewManager.errors = {}
  BY DEF NewManager, Managers
<1>1. ASSUME NEW s \in Schedulers PROVE /\ schedulers[s] \in SchedulerStates /\ schedulers[s].at = "idle"
                                       /\ schedulers[s].todo = <<>>
  BY DEF SchedulerStates, SchedulerSteps
<1>2. ASSUME NEW u \in Uploads PROVE uploads[u] \in UploadStates /\ uploads[u].at = "new"
  BY BoundsAssumption DEF UploadStates, UploadSteps
<1>3. ASSUME NEW c \in Configs PROVE publishers[c] = <<>> /\ nameToPublisher[c] = 0
  OBVIOUS
<1>4. assets \in [Uploads -> {"none", "old", "new"}] /\ \A u \in Uploads : assets[u] # "new"
  OBVIOUS
<1>5. Types
  <2>1. schedulers \in [Schedulers -> SchedulerStates] /\ uploads \in [Uploads -> UploadStates]
    BY <1>1, <1>2
  <2>2. \A u \in Uploads : uploads[u].at \notin {"overwriting", "delaying"}
    BY <1>2
  <2>3. publishers \in [Configs -> Seq(PublisherStates)] /\ nameToPublisher \in [Configs -> Nat]
    OBVIOUS
  <2>4. release \in [GitHub -> {"none", "open", "withheld", "double"}]
    OBVIOUS
  <2>5. manager \in Managers(Tasks) /\ pending \in SUBSET Tasks /\ round \in {NoWait} \cup SUBSET Tasks
    BY <1>0
  <2>6. failures \in 0..MaxFailures /\ step \in Steps
    BY BoundsAssumption DEF Steps
  <2>7. phase \in {"building", "resolved", "rejected"} /\ emitted \subseteq Artifacts /\ infos \subseteq Updatable
    OBVIOUS
  <2>8. cancelled \in BOOLEAN /\ isPublish \in BOOLEAN /\ isListening \in BOOLEAN
    OBVIOUS
  <2>9. \A u \in Uploads : uploads[u].at \in {"overwriting", "delaying"} => uploads[u].attempt <= MaxAttempts
    BY <2>2
  <2> HIDE DEF Init, Build!Init
  <2> QED
    BY <1>4, <2>1, <2>3, <2>4, <2>5, <2>6, <2>7, <2>8, <2>9 DEF Types
<1>6. \A s \in Schedulers : Todo(s)
  BY <1>1, EndsOfList DEF Todo
<1>7. \A a \in Artifacts \cup {Extra} \cup Configs : a \in Schedulers
  BY SchedulerKinds
<1>8. Stages
  BY <1>1, <1>6, <1>7 DEF Stages
<1>9. Sharing
  <2>1. ASSUME NEW c \in Configs PROVE OnePublisher(c) /\ KnowsRelease(c)
    <3>1. DOMAIN publishers[c] = {} /\ Len(publishers[c]) = 0
      BY <1>3
    <3> QED
      BY <1>3, <3>1 DEF OnePublisher, KnowsRelease
  <2>2. \A c \in GitHub : release[c] # "double"
    OBVIOUS
  <2> QED
    BY <2>1, <2>2 DEF Sharing
<1>10. Sending
  BY <1>1, <1>2, <1>4 DEF Sending, Sent, Passed
<1>11. Tracking
  <2>1. \A u \in Uploads : Heard(u)
    BY <1>2 DEF Heard, InFlight
  <2>2. \A a \in Artifacts : Handled(a)
    BY <1>1, <1>7 DEF Handled
  <2> QED
    BY <2>1, <2>2 DEF Tracking
<1>12. Finishing
  BY <1>1, <1>7, InfoIs DEF Finishing, InfoStep
<1> QED
  BY <1>5, <1>8, <1>9, <1>10, <1>11, <1>12 DEF IInv

\* Every step keeps the invariant.
LEMMA NextInvariant == IInv /\ [Next]_vars => IInv'
<1> SUFFICES ASSUME IInv, [Next]_vars PROVE IInv'
  OBVIOUS
<1>1. Types'
  BY NextTypes
<1>2. Sharing'
  BY <1>1, NextSharing
<1> QED
  BY <1>1, <1>2, NextStages, NextSending, NextTracking, NextFinishing DEF IInv

\* The invariant holds in every state of every build: publishers are shared, uploads go
\* where they may, and what is under way is awaited, as PublishManager and build() see to it.
THEOREM Invariance == Spec => []IInv
  BY InitInvariant, NextInvariant, PTL DEF Spec

\* The invariant implies the type invariant.
LEMMA TypesAreOK == IInv => TypeOK
<1> SUFFICES ASSUME IInv PROVE TypeOK
  OBVIOUS
<1>a. Types /\ Stages /\ Sharing
  BY DEF IInv
<1>1. ASSUME NEW s \in Schedulers
      PROVE  /\ schedulers[s].at \in {"idle", "resolving", "scheduling", "creating", "ended", "failed"}
             /\ IsSuffix(schedulers[s].todo, ConfigList) \/ schedulers[s].todo \in {<<c>> : c \in Configs}
             /\ schedulers[s].at = "creating" =>
                  schedulers[s].publisher \in DOMAIN publishers[Head(schedulers[s].todo)]
  <2>1. Todo(s) /\ schedulers[s].at \in SchedulerSteps
    BY <1>a, RecordsAre DEF Stages
  <2> QED
    BY <2>1, EndsOfList DEF Todo, SchedulerSteps
<1>2. ASSUME NEW c \in Configs
      PROVE  ToSet(publishers[c]) \subseteq {"creating", "null", "failed"} \cup Created /\ nameToPublisher[c] \in 0..Len(publishers[c])
  <2>1. \A n \in DOMAIN publishers[c] : publishers[c][n] \in PublisherStates
    BY <1>a, RecordsAre
  <2>2. nameToPublisher[c] \in Nat /\ Len(publishers[c]) \in Nat /\ nameToPublisher[c] <= Len(publishers[c])
    BY <1>a, RecordsAre DEF Types, Sharing, OnePublisher
  <2> QED
    BY <2>1, <2>2 DEF ToSet, PublisherStates
<1>3. {cancelled, isPublish, isListening} \subseteq BOOLEAN
  BY <1>a DEF Types
<1> QED
  BY <1>a, <1>1, <1>2, <1>3 DEF TypeOK, Types, UploadStates, UploadSteps

\* What is stored by a scheduler is on the server, where uploads are let in.
LEMMA StoredIsThere ==
  ASSUME IInv, isPublish, NEW s, NEW c \in Configs, <<s, c>> \in Uploads, IsStored(s), ~IsNull(c), ~IsWithheld(c)
  PROVE  assets[<<s, c>>] = "new"
<1>1. uploads[<<s, c>>].at = "done"
  BY DEF IsStored
<1>2. Sent(<<s, c>>)
  BY DEF IInv, Sending
<1>3. <<s, c>>[2] = c
  OBVIOUS
<1> QED
  BY <1>1, <1>2, <1>3 DEF Sent

\* The invariant implies that update info comes last.
LEMMA InfoIsLast == IInv => UpdateInfoComesLast
<1> SUFFICES ASSUME IInv, NEW c \in Configs, HasInfo(c)
             PROVE  infos = Updatable /\ \A a \in Artifacts : assets[<<a, c>>] = "new"
  BY TypesAreOK DEF UpdateInfoComesLast
<1>1. <<c, c>> \in Uploads /\ c \in Schedulers
  BY SchedulerKinds
<1>2. Sent(<<c, c>>) /\ assets[<<c, c>>] = "new"
  BY <1>1, InfoIs DEF IInv, Sending, HasInfo
<1>3. <<c, c>>[1] = c /\ <<c, c>>[2] = c
  OBVIOUS
<1>4. /\ isPublish /\ schedulers[c].at # "idle" /\ ~IsWithheld(c)
      /\ \E n \in DOMAIN publishers[c] : publishers[c][n] \in Created
  BY <1>2, <1>3 DEF Sent
<1>5. AllStored
  BY <1>4, InfoIs DEF IInv, Finishing, InfoStep
<1>6. ~IsNull(c)
  BY <1>4 DEF IInv, Sharing, OnePublisher, IsNull
<1> QED
  BY <1>4, <1>5, <1>6, StoredIsThere, SchedulerKinds DEF AllStored

\* The invariant implies that what a build promises is there when it resolves.
LEMMA PublishedIsThere == IInv => ResolvesOnlyWhenPublished
<1> SUFFICES ASSUME IInv, step = "succeeded", isPublish, ~cancelled, NEW c \in Configs, ~IsNull(c), ~IsWithheld(c)
             PROVE  /\ \A a \in Artifacts : assets[<<a, c>>] = "new"
                    /\ schedulers[Extra].at # "idle" => assets[<<Extra, c>>] = "new"
                    /\ Updatable # {} => HasInfo(c)
  BY DEF ResolvesOnlyWhenPublished
<1>1. AllStored /\ (Updatable # {} => IsStored(c))
  BY InfoIs DEF IInv, Finishing
<1> QED
  BY <1>1, StoredIsThere, SchedulerKinds, InfoIs DEF AllStored, HasInfo

\* An update info file is on the server only when all of the artifacts are, whatever order the
\* uploads end in: build() writes it after awaitTasks (publishArtifacts and writeUpdateInfoFiles).
THEOREM UpdateInfoIsLast == Spec => []UpdateInfoComesLast
  BY Invariance, InfoIsLast, PTL

\* A build that resolves, and was not cancelled, has published all that it was to: a failed upload
\* makes awaitTasks reject, and no task of a handler is missed.
THEOREM ResolvesWhenPublished == Spec => []ResolvesOnlyWhenPublished
  BY Invariance, PublishedIsThere, PTL

\* A publisher of a configuration is made once, so two releases of a tag are made only after an
\* error or a cancel (getOrCreatePublisher and the lazy release of GitHubPublisher).
THEOREM OneRelease == Spec => []OneReleasePerConfig
<1>1. IInv => OneReleasePerConfig
  BY DEF IInv, Sharing, OneReleasePerConfig
<1> QED
  BY <1>1, Invariance, PTL
=============================================================================
