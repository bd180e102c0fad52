------------------------ MODULE BuildPipelineProofs ------------------------
(***************************************************************************)
(* What a build keeps to, proved for every plan of platforms, packs and    *)
(* targets and every number of failures.  While it was neither cancelled   *)
(* nor rejected, whatever was begun is a task of the packer, in the group  *)
(* of its pack or in the queue of its target; what is awaited there cannot *)
(* be skipped, so that at the end every piece of work is done.  Readers    *)
(* and writers of a directory are kept apart by the order of their group   *)
(* and by what the writer has seen tracked.  The invariant comes first,    *)
(* then the lemmas on the plan and the task manager, what each step keeps, *)
(* one conjunct at a time, and the theorems at the end.                    *)
(***************************************************************************)
EXTENDS BuildPipeline, TLAPS

\* The four kinds of targets that a piece of work can be of.
IsArchive(w) == TargetOf(w) \in Archives
IsImage(w) == TargetOf(w) \in Images
IsWriter(w) == TargetOf(w) \in Writers
IsInstaller(w) == TargetOf(w) \in Installers

\* What a build has promised holds while it was neither cancelled nor rejected.
GoesOn == ~cancelled /\ main.step # "rejected"

\* doBuild has called finishBuild of the platform's async targets and noted the others.
HasEnded(i) == i < main.platform \/ main.step \notin {"packing", "pooling"}

\* doBuild has seen all of its tasks end.
IsPastTasks == main.step \in {"finishing", "finalizing", "resolved"}

\* What awaitTasks, and finishBuild of a target, wait for.
Awaited == IF round = NoWait THEN {} ELSE round
QueueAwaited(t) == IF finishing[t] = NoWait THEN {} ELSE finishing[t]

\* The kind of a target tells what states its work goes through.
StatesOf(w) ==
  CASE IsArchive(w) -> {"new", "working", "done", "failed"}
    [] IsImage(w) -> {"new", "building", "done", "failed"}
    [] IsInstaller(w) -> {"new", "working", "done", "failed"}
    [] OTHER -> WorkSteps

MainStates == [step : MainSteps, platform : DOMAIN Plan, pack : Nat \ {0}, syncTargets : Seq(Writers \cup Installers)]
GroupStates == [at : {"none", "images", "syncs", "ended"}, targets : Seq(Writers \cup Installers)]

Types ==
  /\ isConcurrent \in BOOLEAN /\ cancelled \in BOOLEAN
  /\ main \in MainStates
  /\ main.pack <= Len(Platform.packs) + 1
  /\ packs \in [Packs -> {"new", "packing", "packed", "failed"}]
  /\ groups \in [Packs -> GroupStates]
  /\ work \in [Work -> WorkSteps]
  /\ \A w \in Work : work[w] \in StatesOf(w)
  /\ waits \in [Work -> SUBSET Work]
  /\ manager \in Managers(Tasks) /\ pending \in SUBSET Tasks
  /\ round \in {NoWait} \cup SUBSET Tasks
  /\ queues \in [Targets -> Managers(Work)]
  /\ finishing \in [Targets -> {NoWait} \cup SUBSET Work]
  /\ finalizers \in SUBSET Packs
  /\ failures \in 0..MaxFailures

\* doBuild takes the packs in order, and goes on when those of a platform are packed.
Order ==
  /\ main.step \in {"packing", "pooling"} =>
       \A i \in DOMAIN Plan : i > main.platform => \A p \in ToSet(Plan[i].packs) : packs[p] = "new"
  /\ main.step = "packing" =>
       \A k \in DOMAIN Platform.packs : k >= main.pack => packs[Platform.packs[k]] = "new"
  /\ main.step = "pooling" => main.pack > Len(Platform.packs)
  /\ GoesOn => \A i \in DOMAIN Plan : HasEnded(i) => \A p \in ToSet(Plan[i].packs) : packs[p] = "packed"

\* The work on a directory begins when it is packed, that of a writer in the group, when the
\* images are built.
OnPack(w) ==
  LET p == w[1] IN
  /\ packs[p] # "packed" => work[w] = "new"
  /\ IsWriter(w) /\ groups[p].at \in {"none", "images"} => work[w] = "new"
  /\ IsImage(w) /\ groups[p].at = "syncs" => Settled(w)
  /\ IsWriter(w) /\ work[w] \in {"building", "waiting", "writing"} =>
       groups[p].at = "syncs" /\ groups[p].targets # <<>> /\ Head(groups[p].targets) = TargetOf(w)

\* A writer knows the work that still reads its directory, and writes when there is none.
Alone(w) ==
  \A v \in Work : IsArchive(v) /\ v[1] = w[1] /\ work[v] = "working" =>
    /\ work[w] = "waiting" => v \in waits[w]
    /\ work[w] # "writing"

\* An installer reads when nothing is packed or built in a group any more.
Quiet == \A p \in Packs : packs[p] = "packed" /\ groups[p].at \notin {"images", "syncs"}

InstallersLast == \A w \in Work : IsInstaller(w) /\ work[w] # "new" => Quiet

Reading ==
  /\ \A p \in Packs : packs[p] # "packed" => groups[p].at = "none"
  /\ \A w \in Work : ~IsInstaller(w) => OnPack(w)
  /\ \A w \in Work : IsWriter(w) => Alone(w)
  /\ InstallersLast

\* Whatever was handed to the packer's task manager is awaited until it settles.
Listening ==
  /\ main.step # "awaiting" => round = NoWait
  /\ GoesOn => IF IsPastTasks THEN pending = {} /\ manager.errors = {}
               ELSE pending \subseteq manager.tasks \cup Awaited

\* A group is such a task; it ends early with an error, or else has built its targets.
Grouped(p) ==
  /\ groups[p].at \in {"images", "syncs"} => <<"group", p>> \in pending
  /\ groups[p].at = "ended" => manager.errors # {} \/ groups[p].targets = <<>>

\* A writer is built in the group of its pack.
Written(w) ==
  work[w] = "new" /\ packs[w[1]] = "packed" =>
    groups[w[1]].at # "none" /\ TargetOf(w) \in ToSet(groups[w[1]].targets)

\* An image is built in the group of its pack or as a task of its own.
Imaged(w) ==
  LET p == w[1] IN
  /\ packs[p] = "packed" => work[w] # "new"
  /\ work[w] = "building" => w \in pending \/ groups[p].at = "images"
  /\ work[w] = "failed" => manager.errors # {} \/ groups[p].at = "images"

\* The queue of a target holds its work until it settles, and a failure for good.
Queued(w) ==
  LET t == TargetOf(w) IN
  /\ work[w] = "working" => queues[t].errors # {} \/ w \in queues[t].tasks \cup QueueAwaited(t)
  /\ work[w] = "failed" => queues[t].errors # {} \/ (IsWriter(w) /\ (GoesOn => manager.errors # {}))

Tracking ==
  /\ \A p \in Packs : GoesOn => Grouped(p)
  /\ \A w \in Work : GoesOn /\ IsWriter(w) => Written(w)
  /\ \A w \in Work : GoesOn /\ IsImage(w) => Imaged(w)
  /\ \A w \in Work : GoesOn /\ IsArchive(w) /\ packs[w[1]] = "packed" => work[w] # "new"
  /\ \A w \in Work : IsArchive(w) \/ IsWriter(w) => Queued(w)
  /\ \A t \in Images : queues[t].tasks = {} /\ queues[t].errors = {}
  /\ \A t \in Images \cup Installers : finishing[t] = NoWait

IsDone(t) == \A w \in Work : TargetOf(w) = t => work[w] = "done"

\* finishBuild of the async targets is called once, when all was built, and is such a task too;
\* that of the others is awaited in order.
Finishing ==
  /\ \A i \in DOMAIN Plan : \A t \in Plan[i].asyncTargets :
       /\ ~HasEnded(i) => finishing[t] = NoWait
       /\ GoesOn /\ HasEnded(i) /\ finishing[t] # NoWait => <<"finish", t>> \in pending
       /\ GoesOn /\ HasEnded(i) /\ finishing[t] = NoWait /\ t \in Archives => IsDone(t) \/ manager.errors # {}
  /\ \A t \in Writers : finishing[t] # NoWait =>
       main.step = "finishing" /\ main.syncTargets # <<>> /\ Head(main.syncTargets) = t
  /\ GoesOn => \A i \in DOMAIN Plan : HasEnded(i) => \A t \in ToSet(Plan[i].syncTargets) :
       t \in ToSet(main.syncTargets) \/ IsDone(t)
  /\ GoesOn /\ main.step \in {"finalizing", "resolved"} => main.syncTargets = <<>>

IInv == Types /\ Order /\ Reading /\ Listening /\ Tracking /\ Finishing
-----------------------------------------------------------------------------
(* The plan: what a piece of work is, and where it belongs.                 *)

\* The packs and the targets of a platform.
LEMMA PlanTypes ==
  ASSUME NEW i \in DOMAIN Plan
  PROVE  /\ DOMAIN Plan = 1..Len(Plan) /\ Len(Plan) \in Nat \ {0} /\ i \in Nat
         /\ Plan[i].packs \in Seq(Packs)
         /\ \A k \in DOMAIN Plan[i].packs : Plan[i].packs[k] \in ToSet(Plan[i].packs)
         /\ ToSet(Plan[i].packs) \subseteq Packs
         /\ Plan[i].syncTargets \in Seq(Writers \cup Installers)
         /\ ToSet(Plan[i].syncTargets) = TargetsOf(i) \ AsyncTargets
         /\ Plan[i].asyncTargets = TargetsOf(i) \cap AsyncTargets
<1>1. DOMAIN Plan = 1..Len(Plan) /\ Len(Plan) \in Nat \ {0} /\ i \in Nat
  BY PlanAssumption
<1>2. /\ Plan[i].packs \in Seq(Packs)
      /\ \A k \in DOMAIN Plan[i].packs : Plan[i].packs[k] \in ToSet(Plan[i].packs)
      /\ ToSet(Plan[i].packs) \subseteq Packs
  BY PlanAssumption DEF Packs, ToSet
<1>3. Plan[i].syncTargets \in Seq(Writers \cup Installers) /\ Plan[i].asyncTargets \subseteq AsyncTargets
  BY PlanAssumption
<1>4. ToSet(Plan[i].syncTargets) \subseteq Writers \cup Installers
  BY <1>3 DEF ToSet
<1>5. ToSet(Plan[i].syncTargets) = TargetsOf(i) \ AsyncTargets
  BY <1>3, <1>4, TargetAssumption DEF TargetsOf
<1>6. Plan[i].asyncTargets = TargetsOf(i) \cap AsyncTargets
  BY <1>3, <1>4, TargetAssumption DEF TargetsOf
<1> QED
  BY <1>1, <1>2, <1>3, <1>5, <1>6

\* A pack is of one platform.
LEMMA PlatformOfPack ==
  ASSUME NEW p \in Packs
  PROVE  /\ PlatformOf(p) \in DOMAIN Plan /\ p \in ToSet(Plan[PlatformOf(p)].packs)
         /\ \A i \in DOMAIN Plan : p \in ToSet(Plan[i].packs) => i = PlatformOf(p)
<1>1. \E i \in DOMAIN Plan : p \in ToSet(Plan[i].packs)
  BY DEF Packs
<1>2. PlatformOf(p) \in DOMAIN Plan /\ p \in ToSet(Plan[PlatformOf(p)].packs)
  BY <1>1 DEF PlatformOf
<1>3. \A i \in DOMAIN Plan : p \in ToSet(Plan[i].packs) => i = PlatformOf(p)
  BY <1>2, TargetAssumption
<1> QED
  BY <1>2, <1>3

\* A target is of one platform and of one kind.
LEMMA PlatformOfTarget ==
  ASSUME NEW t \in Targets
  PROVE  /\ \E i \in DOMAIN Plan : t \in TargetsOf(i)
         /\ \A i, j \in DOMAIN Plan : t \in TargetsOf(i) /\ t \in TargetsOf(j) => i = j
  BY TargetAssumption

\* A target is of exactly one kind; those that build in the background are archives and images.
LEMMA Kinds ==
  /\ Targets = Archives \cup Images \cup Writers \cup Installers
  /\ AsyncTargets = Archives \cup Images
  /\ Archives \cap Images = {} /\ Archives \cap Writers = {} /\ Archives \cap Installers = {}
  /\ Images \cap Writers = {} /\ Images \cap Installers = {} /\ Writers \cap Installers = {}
  BY TargetAssumption DEF Targets, AsyncTargets

\* What pieces of work there are.
LEMMA WorkIs ==
  ASSUME NEW w
  PROVE  w \in Work <=>
           \/ \E i \in DOMAIN Plan : \E p \in ToSet(Plan[i].packs), t \in TargetsOf(i) \ Installers : w = <<p, t>>
           \/ \E t \in Installers : w = <<t>>
<1> DEFINE S(i) == {<<p, t>> : p \in ToSet(Plan[i].packs), t \in TargetsOf(i) \ Installers}
<1>1. Work = {<<t>> : t \in Installers} \cup UNION {S(i) : i \in DOMAIN Plan}
  BY SMT DEF Work, S
<1>2. w \in UNION {S(i) : i \in DOMAIN Plan} <=> \E i \in DOMAIN Plan : w \in S(i)
  BY SMT
<1>3. \A i \in DOMAIN Plan : w \in S(i) <=>
        \E p \in ToSet(Plan[i].packs), t \in TargetsOf(i) \ Installers : w = <<p, t>>
  BY SMT
<1>4. w \in {<<t>> : t \in Installers} <=> \E t \in Installers : w = <<t>>
  BY Zenon
<1> HIDE DEF S
<1> QED
  BY <1>1, <1>2, <1>3, <1>4

\* The work of an installer goes by its target, that of any other by pack and target.
LEMMA WorkShape ==
  ASSUME NEW w \in Work
  PROVE  /\ TargetOf(w) \in Targets
         /\ TargetOf(w) \in Installers => w = <<TargetOf(w)>> /\ Len(w) = 1
         /\ TargetOf(w) \notin Installers =>
              /\ w = <<w[1], TargetOf(w)>> /\ Len(w) = 2 /\ w[1] \in Packs /\ DirsOf(w) = {w[1]}
              /\ TargetOf(w) \in TargetsOf(PlatformOf(w[1]))
<1>1. CASE \E i \in DOMAIN Plan : \E p \in ToSet(Plan[i].packs), t \in TargetsOf(i) \ Installers : w = <<p, t>>
  <2>1. PICK i \in DOMAIN Plan : \E p \in ToSet(Plan[i].packs), t \in TargetsOf(i) \ Installers : w = <<p, t>>
    BY <1>1
  <2>2. PICK p \in ToSet(Plan[i].packs), t \in TargetsOf(i) \ Installers : w = <<p, t>>
    BY <2>1
  <2>3. Len(w) = 2 /\ w[1] = p /\ TargetOf(w) = t
    BY <2>2 DEF TargetOf, Last
  <2>4. DirsOf(w) = {p}
    BY <2>3 DEF DirsOf
  <2>5. p \in Packs /\ t \in Targets
    BY <2>1, PlanTypes, TargetAssumption
  <2>6. i = PlatformOf(p)
    BY <2>5, PlatformOfPack
  <2> QED
    BY <2>2, <2>3, <2>4, <2>5, <2>6
<1>2. CASE \E t \in Installers : w = <<t>>
  <2>1. PICK t \in Installers : w = <<t>>
    BY <1>2
  <2>2. Len(w) = 1 /\ TargetOf(w) = t
    BY <2>1 DEF TargetOf, Last
  <2> QED
    BY <2>1, <2>2, Kinds
<1> QED
  BY <1>1, <1>2, WorkIs

\* The two forms of work, and what belongs to them.
LEMMA PackWork ==
  ASSUME NEW p \in Packs, NEW t \in TargetsOf(PlatformOf(p)), t \notin Installers
  PROVE  <<p, t>> \in Work /\ TargetOf(<<p, t>>) = t /\ Len(<<p, t>>) = 2 /\ <<p, t>>[1] = p
<1>1. <<p, t>> \in Work
  BY PlatformOfPack, WorkIs
<1> QED
  BY <1>1 DEF TargetOf, Last

\* An installer has one piece of work, for all packs.
LEMMA InstallerWork ==
  ASSUME NEW t \in Installers
  PROVE  <<t>> \in Work /\ TargetOf(<<t>>) = t
<1>1. <<t>> \in Work
  BY WorkIs
<1> QED
  BY <1>1 DEF TargetOf, Last

\* No two writers work on one directory.
LEMMA OneWriter ==
  ASSUME NEW v \in Work, NEW w \in Work, IsWriter(v), IsWriter(w), v[1] = w[1]
  PROVE  v = w
<1>1. w[1] \in Packs /\ TargetOf(v) \in TargetsOf(PlatformOf(w[1])) /\ TargetOf(w) \in TargetsOf(PlatformOf(w[1]))
  BY WorkShape, Kinds DEF IsWriter
<1>2. TargetOf(v) = TargetOf(w)
  BY <1>1, PlatformOfPack, TargetAssumption DEF IsWriter
<1> QED
  BY <1>2, WorkShape, Kinds DEF IsWriter

\* The packs a target of a platform works on are the platform's.
LEMMA PackOfTarget ==
  ASSUME NEW w \in Work, ~IsInstaller(w), NEW i \in DOMAIN Plan, TargetOf(w) \in TargetsOf(i)
  PROVE  w[1] \in ToSet(Plan[i].packs)
<1>1. w[1] \in Packs /\ TargetOf(w) \in TargetsOf(PlatformOf(w[1])) /\ TargetOf(w) \in Targets
  BY WorkShape DEF IsInstaller
<1>2. PlatformOf(w[1]) = i
  BY <1>1, PlatformOfPack, PlatformOfTarget
<1> QED
  BY <1>1, <1>2, PlatformOfPack

\* Work reads and writes directories of packs only.
LEMMA DirsArePacks ==
  ASSUME NEW w \in Work PROVE DirsOf(w) \subseteq Packs
<1>1. \A t : PacksOf(t) \subseteq Packs
  BY PlanTypes DEF PacksOf
<1>2. CASE IsInstaller(w)
  BY <1>1, <1>2, WorkShape DEF DirsOf, IsInstaller
<1>3. CASE ~IsInstaller(w)
  BY <1>3, WorkShape DEF IsInstaller
<1> QED
  BY <1>2, <1>3

\* The tasks of the three kinds are different.
LEMMA TaskKinds ==
  /\ Work \subseteq Tasks
  /\ \A p \in Packs : <<"group", p>> \in Tasks \ Work
  /\ \A t \in AsyncTargets : <<"finish", t>> \in Tasks \ Work
  /\ \A p \in Packs, t \in AsyncTargets : <<"group", p>> # <<"finish", t>>
<1>1. ASSUME NEW w \in Work, NEW x, w = <<"group", x>> \/ w = <<"finish", x>> PROVE FALSE
  <2>1. w[1] \in {"group", "finish"} /\ Len(w) = 2
    BY <1>1
  <2>2. w[1] \in Packs
    BY <2>1, WorkShape
  <2> QED
    BY <2>1, <2>2, NameAssumption
<1>2. /\ Work \subseteq Tasks
      /\ \A p \in Packs : <<"group", p>> \in Tasks
      /\ \A t \in AsyncTargets : <<"finish", t>> \in Tasks
  BY DEF Tasks
<1>3. \A p, t : <<"group", p>> # <<"finish", t>>
  OBVIOUS
<1> QED
  BY <1>1, <1>2, <1>3

\* A set of tasks or of work is not the mark for no wait.
LEMMA NoWaitIsNoSet == \A S : S \in SUBSET Tasks \/ S \in SUBSET Work => S # NoWait
  BY NameAssumption, TaskKinds

-----------------------------------------------------------------------------
(* The records of the state, and what the task manager does to them.        *)

\* A change of one field of a group's state leaves the other.
LEMMA GroupUpdate ==
  ASSUME NEW g \in GroupStates
  PROVE  /\ \A a \in {"none", "images", "syncs", "ended"} :
              /\ [g EXCEPT !.at = a] \in GroupStates
              /\ [g EXCEPT !.at = a].at = a /\ [g EXCEPT !.at = a].targets = g.targets
         /\ \A s \in Seq(Writers \cup Installers) :
              /\ [g EXCEPT !.targets = s] \in GroupStates
              /\ [g EXCEPT !.targets = s].at = g.at /\ [g EXCEPT !.targets = s].targets = s
  BY DEF GroupStates

\* The tail of a sequence and its elements.
LEMMA TailOf ==
  ASSUME NEW S, NEW s \in Seq(S), s # <<>>
  PROVE  /\ Tail(s) \in Seq(S) /\ Head(s) \in S
         /\ Head(s) \in ToSet(s) /\ ToSet(s) \subseteq ToSet(Tail(s)) \cup {Head(s)}
<1>1. Len(s) \in Nat \ {0} /\ DOMAIN s = 1..Len(s) /\ Head(s) = s[1] /\ Tail(s) \in Seq(S)
  OBVIOUS
<1>2. DOMAIN Tail(s) = 1 .. Len(s) - 1 /\ \A k \in 1 .. Len(s) - 1 : Tail(s)[k] = s[k + 1]
  BY <1>1
<1>3. ASSUME NEW x \in ToSet(s) PROVE x = Head(s) \/ x \in ToSet(Tail(s))
  <2>1. PICK k \in 1..Len(s) : x = s[k]
    BY <1>3, <1>1 DEF ToSet
  <2>2. CASE k = 1
    BY <2>1, <2>2, <1>1
  <2>3. CASE k # 1
    <3>1. k - 1 \in DOMAIN Tail(s) /\ Tail(s)[k - 1] = x
      BY <2>1, <2>3, <1>1, <1>2
    <3> QED
      BY <3>1 DEF ToSet
  <2> QED
    BY <2>2, <2>3
<1>4. Head(s) \in S /\ Head(s) \in ToSet(s)
  BY <1>1 DEF ToSet
<1> QED
  BY <1>1, <1>3, <1>4

\* The elements of two sequences, one after the other.
LEMMA ElementsOfConcat ==
  ASSUME NEW S, NEW s \in Seq(S), NEW u \in Seq(S)
  PROVE  s \o u \in Seq(S) /\ ToSet(s \o u) = ToSet(s) \cup ToSet(u)
<1>1. s \o u \in Seq(S) /\ DOMAIN s = 1..Len(s) /\ DOMAIN u = 1..Len(u) /\ DOMAIN (s \o u) = 1 .. Len(s) + Len(u)
      /\ Len(s) \in Nat /\ Len(u) \in Nat
  OBVIOUS
<1>2. \A k \in 1..Len(s) : (s \o u)[k] = s[k]
  BY <1>1
<1>3. \A k \in 1..Len(u) : k + Len(s) \in DOMAIN (s \o u) /\ (s \o u)[k + Len(s)] = u[k]
  BY <1>1
<1>4. ToSet(s) \subseteq ToSet(s \o u)
  BY <1>1, <1>2 DEF ToSet
<1>5. ToSet(u) \subseteq ToSet(s \o u)
  BY <1>1, <1>3 DEF ToSet
<1>6. ASSUME NEW x \in ToSet(s \o u) PROVE x \in ToSet(s) \cup ToSet(u)
  <2>1. PICK k \in 1 .. Len(s) + Len(u) : x = (s \o u)[k]
    BY <1>6, <1>1 DEF ToSet
  <2>2. CASE k <= Len(s)
    BY <2>1, <2>2, <1>1, <1>2 DEF ToSet
  <2>3. CASE k > Len(s)
    <3>1. k - Len(s) \in 1..Len(u) /\ u[k - Len(s)] = x
      BY <2>1, <2>3, <1>1
    <3> QED
      BY <3>1, <1>1 DEF ToSet
  <2> QED
    BY <2>1, <2>2, <2>3, <1>1
<1> QED
  BY <1>1, <1>4, <1>5, <1>6

\* The methods of a task manager: what becomes of its tasks and its errors.
LEMMA ManagerMethods ==
  ASSUME NEW T, NEW m \in Managers(T)
  PROVE  /\ m.tasks \in SUBSET T /\ m.errors \in SUBSET T
         /\ \A S \in SUBSET T :
              /\ AddTasks(m, S, {}) \in Managers(T)
              /\ AddTasks(m, S, {}).tasks = m.tasks \cup S /\ AddTasks(m, S, {}).errors = m.errors
         /\ \A t \in T : \A isOk :
              /\ SettleTask(m, t, isOk) \in Managers(T)
              /\ SettleTask(m, t, isOk).tasks = m.tasks
              /\ isOk => SettleTask(m, t, isOk).errors = m.errors
              /\ ~isOk => SettleTask(m, t, isOk).errors = m.errors \cup {t}
              /\ m.errors \subseteq SettleTask(m, t, isOk).errors
         /\ \A d : After(m, d) \in Managers(T) /\ After(m, d).tasks = {} /\ After(m, d).errors = m.errors
<1>1. m.tasks \in SUBSET T /\ m.errors \in SUBSET T /\ m.cancellableTasks \in SUBSET T
  BY DEF Managers
<1>2. ASSUME NEW S \in SUBSET T
      PROVE  /\ AddTasks(m, S, {}) \in Managers(T)
             /\ AddTasks(m, S, {}).tasks = m.tasks \cup S /\ AddTasks(m, S, {}).errors = m.errors
  BY <1>1 DEF Managers, AddTasks
<1>3. ASSUME NEW t \in T, NEW isOk
      PROVE  /\ SettleTask(m, t, isOk) \in Managers(T)
             /\ SettleTask(m, t, isOk).tasks = m.tasks
             /\ isOk => SettleTask(m, t, isOk).errors = m.errors
             /\ ~isOk => SettleTask(m, t, isOk).errors = m.errors \cup {t}
             /\ m.errors \subseteq SettleTask(m, t, isOk).errors
  BY <1>1 DEF Managers, SettleTask
<1>4. ASSUME NEW d
      PROVE  After(m, d) \in Managers(T) /\ After(m, d).tasks = {} /\ After(m, d).errors = m.errors
  BY <1>1 DEF Managers, After, CancelTasks, TakeTasks
<1> QED
  BY <1>1, <1>2, <1>3, <1>4

\* How awaitTasks goes on says what it has found.
LEMMA Decisions ==
  ASSUME NEW T, NEW m \in Managers(T), NEW isCancelled
  PROVE  /\ OnCall(m, isCancelled) \in {"cancelled", "rejected", "resolved", "waiting"}
         /\ OnRoundEnd(m, isCancelled) \in {"cancelled", "rejected", "resolved", "waiting"}
         /\ OnCall(m, isCancelled) = "resolved" => m.errors = {} /\ m.tasks = {}
         /\ OnRoundEnd(m, isCancelled) = "resolved" => m.errors = {} /\ m.tasks = {}
         /\ OnCall(m, isCancelled) = "rejected" => m.errors # {}
         /\ OnRoundEnd(m, isCancelled) = "rejected" => m.errors # {}
         /\ ~isCancelled => OnCall(m, isCancelled) # "cancelled" /\ OnRoundEnd(m, isCancelled) # "cancelled"
         /\ m.tasks = {} /\ m.errors = {} /\ ~isCancelled => OnCall(m, isCancelled) = "resolved"
  BY DEF OnCall, OnRoundEnd

\* addTask of packAll's manager.
LEMMA Added ==
  ASSUME manager \in Managers(Tasks), pending \in SUBSET Tasks, NEW S \in SUBSET Tasks, Add(S)
  PROVE  /\ manager' \in Managers(Tasks) /\ pending' \in SUBSET Tasks
         /\ pending \subseteq pending' /\ pending' \subseteq pending \cup S
         /\ ~cancelled => S \subseteq pending' /\ manager'.tasks = manager.tasks \cup S
         /\ manager'.errors = manager.errors
<1>1. CASE cancelled
  BY <1>1 DEF Add
<1>2. CASE ~cancelled
  BY <1>2, ManagerMethods DEF Add
<1> QED
  BY <1>1, <1>2

\* A promise settles that the manager may be listening to.
LEMMA SettledTask ==
  ASSUME manager \in Managers(Tasks), pending \in SUBSET Tasks, NEW t, NEW isOk, Settle(t, isOk)
  PROVE  /\ manager' \in Managers(Tasks) /\ pending' \in SUBSET Tasks
         /\ pending' = pending \ {t} /\ manager'.tasks = manager.tasks
         /\ manager.errors \subseteq manager'.errors
         /\ t \in pending /\ ~isOk => manager'.errors # {}
         /\ t \notin pending \/ isOk => manager'.errors = manager.errors
<1>1. CASE t \in pending
  <2>1. manager' = SettleTask(manager, t, isOk) /\ pending' = pending \ {t} /\ t \in Tasks
    BY <1>1 DEF Settle
  <2>2. /\ SettleTask(manager, t, isOk) \in Managers(Tasks)
        /\ SettleTask(manager, t, isOk).tasks = manager.tasks
        /\ isOk => SettleTask(manager, t, isOk).errors = manager.errors
        /\ ~isOk => SettleTask(manager, t, isOk).errors = manager.errors \cup {t}
        /\ manager.errors \subseteq SettleTask(manager, t, isOk).errors
    BY <2>1, ManagerMethods
  <2>3. ~isOk => manager'.errors # {}
    BY <2>1, <2>2
  <2> QED
    BY <1>1, <2>1, <2>2, <2>3
<1>2. CASE t \notin pending
  BY <1>2 DEF Settle
<1> QED
  BY <1>1, <1>2

\* The states of a piece of work, by the kind of its target.
LEMMA StatesAre ==
  ASSUME NEW w \in Work
  PROVE  /\ IsArchive(w) \/ IsImage(w) \/ IsWriter(w) \/ IsInstaller(w)
         /\ IsArchive(w) \/ IsInstaller(w) => StatesOf(w) = {"new", "working", "done", "failed"}
         /\ IsImage(w) => StatesOf(w) = {"new", "building", "done", "failed"}
         /\ IsWriter(w) => StatesOf(w) = WorkSteps
         /\ {"new", "done", "failed"} \subseteq StatesOf(w)
<1>1. TargetOf(w) \in Archives \cup Images \cup Writers \cup Installers
  BY WorkShape, Kinds
<1>2. CASE IsArchive(w)
  BY <1>2, Kinds DEF StatesOf, IsArchive, IsImage, IsWriter, IsInstaller
<1>3. CASE IsImage(w)
  BY <1>3, Kinds DEF StatesOf, IsArchive, IsImage, IsWriter, IsInstaller
<1>4. CASE IsInstaller(w)
  BY <1>4, Kinds DEF StatesOf, IsArchive, IsImage, IsWriter, IsInstaller
<1>5. CASE IsWriter(w)
  BY <1>5, Kinds DEF StatesOf, IsArchive, IsImage, IsWriter, IsInstaller, WorkSteps
<1> QED
  BY <1>1, <1>2, <1>3, <1>4, <1>5 DEF IsArchive, IsImage, IsWriter, IsInstaller

\* A change of one piece of work, to a state of its kind.
LEMMA WorkUpdate ==
  ASSUME Types, NEW w \in Work, NEW s \in StatesOf(w), work' = [work EXCEPT ![w] = s]
  PROVE  /\ work' \in [Work -> WorkSteps] /\ \A v \in Work : work'[v] \in StatesOf(v)
         /\ work'[w] = s /\ \A v \in Work : v # w => work'[v] = work[v]
<1>1. s \in WorkSteps
  BY StatesAre DEF WorkSteps
<1> QED
  BY <1>1 DEF Types

\* build() of a pack's async targets: archives are in their queue, images are being built.
LEMMA AsyncBuilds ==
  ASSUME Types, NEW p \in Packs, NEW S, S \subseteq TargetsOf(PlatformOf(p)) \cap AsyncTargets,
         BuildAsyncTargets(p, S)
  PROVE  /\ work' \in [Work -> WorkSteps] /\ queues' \in [Targets -> Managers(Work)]
         /\ \A w \in Work : work'[w] \in StatesOf(w)
         /\ \A w \in Work : ~IsInstaller(w) /\ w[1] = p /\ TargetOf(w) \in S =>
              /\ IsArchive(w) => work'[w] = "working" /\ w \in queues'[TargetOf(w)].tasks
              /\ IsImage(w) => work'[w] = "building"
         /\ \A w \in Work : ~(~IsInstaller(w) /\ w[1] = p /\ TargetOf(w) \in S) => work'[w] = work[w]
         /\ \A t \in Targets : queues[t].tasks \subseteq queues'[t].tasks /\ queues'[t].errors = queues[t].errors
         /\ \A t \in Targets \ Archives : queues'[t] = queues[t]
<1>1. ASSUME NEW w \in Work, ~IsInstaller(w), w[1] = p, TargetOf(w) \in S
      PROVE  /\ IsArchive(w) => work'[w] = "working" 
             /\ IsImage(w) => work'[w] = "building"
             /\ IsArchive(w) \/ IsImage(w)
  <2>1. Len(w) = 2
    BY <1>1, WorkShape DEF IsInstaller
  <2> QED
    BY <2>1, <1>1, Kinds DEF BuildAsyncTargets, IsArchive, IsImage
<1>2. ASSUME NEW w \in Work, ~(~IsInstaller(w) /\ w[1] = p /\ TargetOf(w) \in S)
      PROVE  work'[w] = work[w]
  <2>1. IsInstaller(w) => Len(w) = 1
    BY WorkShape DEF IsInstaller
  <2> QED
    BY <2>1, <1>2 DEF BuildAsyncTargets
<1>3. \A w \in Work : work'[w] \in StatesOf(w) /\ work'[w] \in WorkSteps
  <2> TAKE w \in Work
  <2>1. CASE ~IsInstaller(w) /\ w[1] = p /\ TargetOf(w) \in S
    BY <2>1, <1>1, StatesAre DEF WorkSteps
  <2>2. CASE ~(~IsInstaller(w) /\ w[1] = p /\ TargetOf(w) \in S)
    BY <2>2, <1>2 DEF Types
  <2> QED
    BY <2>1, <2>2
<1>4. work' \in [Work -> WorkSteps]
  <2>1. work' = [w \in Work |-> work'[w]]
    BY DEF BuildAsyncTargets
  <2> QED
    BY <2>1, <1>3
<1>5. ASSUME NEW t \in Targets
      PROVE  /\ queues'[t] \in Managers(Work)
             /\ queues[t].tasks \subseteq queues'[t].tasks /\ queues'[t].errors = queues[t].errors
             /\ t \notin Archives => queues'[t] = queues[t]
  <2>1. queues[t] \in Managers(Work)
    BY DEF Types
  <2>2. CASE t \in S \cap Archives
    <3>1. queues'[t] = AddTasks(queues[t], {<<p, t>>}, {})
      BY <2>2 DEF BuildAsyncTargets
    <3>2. AddTasks(queues[t], {<<p, t>>}, {}).tasks = queues[t].tasks \cup {<<p, t>>}
      BY DEF AddTasks
    <3>3. {<<p, t>>} \in SUBSET Work
      BY <2>2, PackWork, Kinds
    <3> QED
      BY <3>1, <3>3, <2>1, <2>2, ManagerMethods
  <2>3. CASE t \notin S \cap Archives
    BY <2>1, <2>3 DEF BuildAsyncTargets
  <2> QED
    BY <2>2, <2>3
<1>6. ASSUME NEW w \in Work, ~IsInstaller(w), w[1] = p, TargetOf(w) \in S, IsArchive(w)
      PROVE  w \in queues'[TargetOf(w)].tasks
  <2>1. w = <<p, TargetOf(w)>> /\ TargetOf(w) \in S \cap Archives /\ TargetOf(w) \in Targets
    BY <1>6, WorkShape DEF IsInstaller, IsArchive
  <2>2. queues'[TargetOf(w)] = AddTasks(queues[TargetOf(w)], {<<p, TargetOf(w)>>}, {})
    BY <2>1 DEF BuildAsyncTargets
  <2>3. AddTasks(queues[TargetOf(w)], {<<p, TargetOf(w)>>}, {}).tasks
          = queues[TargetOf(w)].tasks \cup {<<p, TargetOf(w)>>}
    BY DEF AddTasks
  <2> QED
    BY <2>1, <2>2, <2>3
<1>7. queues' \in [Targets -> Managers(Work)]
  <2>1. queues' = [t \in Targets |-> queues'[t]]
    BY DEF BuildAsyncTargets
  <2> QED
    BY <2>1, <1>5
<1> QED
  BY <1>1, <1>2, <1>3, <1>4, <1>5, <1>6, <1>7

\* The types of a queue's state and of what its finishBuild waits for.
LEMMA QueueUpdate ==
  ASSUME Types, NEW t \in Targets, NEW q \in Managers(Work), queues' = [queues EXCEPT ![t] = q]
  PROVE  queues' \in [Targets -> Managers(Work)] /\ queues'[t] = q /\ \A u \in Targets : u # t => queues'[u] = queues[u]
  BY DEF Types

\* The work of a target settles.
LEMMA WorkSettles ==
  ASSUME Types, NEW w \in Work, NEW isOk, SettleWork(w, isOk)
  PROVE  /\ work' \in [Work -> WorkSteps] /\ \A v \in Work : work'[v] \in StatesOf(v)
         /\ work'[w] = IF isOk THEN "done" ELSE "failed"
         /\ \A v \in Work : v # w => work'[v] = work[v]
         /\ queues' \in [Targets -> Managers(Work)]
         /\ \A t \in Targets : /\ queues'[t].tasks = queues[t].tasks
                               /\ queues[t].errors \subseteq queues'[t].errors
                               /\ t \in Images => queues'[t] = queues[t]
         /\ ~isOk /\ (IsArchive(w) \/ IsWriter(w)) => queues'[TargetOf(w)].errors # {}
         /\ manager' \in Managers(Tasks) /\ pending' \in SUBSET Tasks
         /\ pending' = pending \ {w} /\ manager'.tasks = manager.tasks
         /\ manager.errors \subseteq manager'.errors
         /\ w \in pending /\ ~isOk => manager'.errors # {}
         /\ w \notin pending \/ isOk => manager'.errors = manager.errors
<1> DEFINE s == IF isOk THEN "done" ELSE "failed"
           q == IF TargetOf(w) \in Archives \cup Writers THEN SettleTask(queues[TargetOf(w)], w, isOk)
                ELSE queues[TargetOf(w)]
<1>1. s \in StatesOf(w) /\ work' = [work EXCEPT ![w] = s]
  BY StatesAre DEF SettleWork
<1>2. TargetOf(w) \in Targets /\ queues[TargetOf(w)] \in Managers(Work)
  BY WorkShape DEF Types
<1>3. /\ q \in Managers(Work) /\ q.tasks = queues[TargetOf(w)].tasks
      /\ queues[TargetOf(w)].errors \subseteq q.errors
      /\ ~isOk /\ (IsArchive(w) \/ IsWriter(w)) => q.errors # {}
      /\ TargetOf(w) \in Images => q = queues[TargetOf(w)]
  <2>1. CASE TargetOf(w) \in Archives \cup Writers
    <3>1. q = SettleTask(queues[TargetOf(w)], w, isOk)
      BY <2>1
    <3>2. /\ SettleTask(queues[TargetOf(w)], w, isOk) \in Managers(Work)
          /\ SettleTask(queues[TargetOf(w)], w, isOk).tasks = queues[TargetOf(w)].tasks
          /\ ~isOk => SettleTask(queues[TargetOf(w)], w, isOk).errors = queues[TargetOf(w)].errors \cup {w}
          /\ queues[TargetOf(w)].errors \subseteq SettleTask(queues[TargetOf(w)], w, isOk).errors
      BY <1>2, ManagerMethods
    <3>3. TargetOf(w) \notin Images
      BY <2>1, Kinds
    <3> HIDE DEF q
    <3> QED
      BY <3>1, <3>2, <3>3
  <2>2. CASE TargetOf(w) \notin Archives \cup Writers
    BY <2>2, <1>2 DEF IsArchive, IsWriter
  <2> QED
    BY <2>1, <2>2
<1>4. queues' = [queues EXCEPT ![TargetOf(w)] = q]
  BY DEF SettleWork
<1>5. work' \in [Work -> WorkSteps] /\ (\A v \in Work : work'[v] \in StatesOf(v))
      /\ work'[w] = s /\ \A v \in Work : v # w => work'[v] = work[v]
  <2> HIDE DEF s
  <2> QED
    BY <1>1, WorkUpdate
<1>6. /\ queues' \in [Targets -> Managers(Work)] /\ queues'[TargetOf(w)] = q
      /\ \A t \in Targets : t # TargetOf(w) => queues'[t] = queues[t]
  <2> HIDE DEF q
  <2> QED
    BY <1>2, <1>3, <1>4, QueueUpdate
<1>7. \A t \in Targets : /\ queues'[t].tasks = queues[t].tasks
                         /\ queues[t].errors \subseteq queues'[t].errors
                         /\ t \in Images => queues'[t] = queues[t]
  <2> HIDE DEF q
  <2> QED
    BY <1>3, <1>6
<1>8. /\ manager' \in Managers(Tasks) /\ pending' \in SUBSET Tasks
      /\ pending' = pending \ {w} /\ manager'.tasks = manager.tasks
      /\ manager.errors \subseteq manager'.errors
      /\ w \in pending /\ ~isOk => manager'.errors # {}
      /\ w \notin pending \/ isOk => manager'.errors = manager.errors
  BY SettledTask DEF SettleWork, Types
<1> HIDE DEF q
<1>9. ~isOk /\ (IsArchive(w) \/ IsWriter(w)) => queues'[TargetOf(w)].errors # {}
  BY <1>3, <1>6
<1> QED
  BY <1>5, <1>6, <1>7, <1>8, <1>9

\* A group ends.
LEMMA GroupSettles ==
  ASSUME Types, NEW p \in Packs, NEW isOk, SettleGroup(p, isOk)
  PROVE  /\ groups' \in [Packs -> GroupStates]
         /\ groups'[p].at = "ended" /\ groups'[p].targets = groups[p].targets
         /\ \A q \in Packs : q # p => groups'[q] = groups[q]
         /\ manager' \in Managers(Tasks) /\ pending' \in SUBSET Tasks
         /\ pending' = pending \ {<<"group", p>>} /\ manager'.tasks = manager.tasks
         /\ manager.errors \subseteq manager'.errors
         /\ <<"group", p>> \in pending /\ ~isOk => manager'.errors # {}
         /\ <<"group", p>> \notin pending \/ isOk => manager'.errors = manager.errors
<1>1. /\ groups' \in [Packs -> GroupStates]
      /\ groups'[p].at = "ended" /\ groups'[p].targets = groups[p].targets
      /\ \A q \in Packs : q # p => groups'[q] = groups[q]
  <2>1. groups[p] \in GroupStates /\ groups' = [groups EXCEPT ![p] = [groups[p] EXCEPT !.at = "ended"]]
    BY DEF Types, SettleGroup
  <2>2. [groups[p] EXCEPT !.at = "ended"] \in GroupStates
        /\ [groups[p] EXCEPT !.at = "ended"].at = "ended"
        /\ [groups[p] EXCEPT !.at = "ended"].targets = groups[p].targets
    BY <2>1, GroupUpdate
  <2>3. groups \in [Packs -> GroupStates]
    BY DEF Types
  <2> QED
    BY <2>1, <2>2, <2>3
<1>2. Settle(<<"group", p>>, isOk)
  BY DEF SettleGroup
<1> QED
  BY <1>1, <1>2, SettledTask DEF Types

\* The next sync target of a group.
LEMMA GroupGoesOn ==
  ASSUME Types, NEW p \in Packs, groups[p].targets # <<>>, groups' = [groups EXCEPT ![p].targets = Tail(@)]
  PROVE  /\ groups' \in [Packs -> GroupStates]
         /\ groups'[p].at = groups[p].at /\ groups'[p].targets = Tail(groups[p].targets)
         /\ \A q \in Packs : q # p => groups'[q] = groups[q]
<1>1. groups[p] \in GroupStates /\ groups[p].targets \in Seq(Writers \cup Installers)
  BY DEF Types, GroupStates
<1> DEFINE rest == Tail(groups[p].targets)
<1>2. rest \in Seq(Writers \cup Installers)
  BY <1>1, TailOf
<1>3. groups' = [groups EXCEPT ![p] = [groups[p] EXCEPT !.targets = rest]]
  OBVIOUS
<1> HIDE DEF rest
<1>4. /\ [groups[p] EXCEPT !.targets = rest] \in GroupStates
      /\ [groups[p] EXCEPT !.targets = rest].at = groups[p].at
      /\ [groups[p] EXCEPT !.targets = rest].targets = rest
  BY <1>1, <1>2 DEF GroupStates
<1>5. /\ groups' \in [Packs -> GroupStates]
      /\ groups'[p].at = groups[p].at /\ groups'[p].targets = rest
      /\ \A q \in Packs : q # p => groups'[q] = groups[q]
  BY <1>3, <1>4 DEF Types
<1> QED
  BY <1>5 DEF rest

\* finishBuild of the async targets S.
LEMMA AsyncFinishes ==
  ASSUME Types, NEW S, S \subseteq AsyncTargets, FinishAsyncTargets(S)
  PROVE  /\ finishing' \in [Targets -> {NoWait} \cup SUBSET Work]
         /\ queues' \in [Targets -> Managers(Work)]
         /\ pending' \in SUBSET Tasks /\ manager' \in Managers(Tasks)
         /\ pending \subseteq pending' /\ pending' \ pending \subseteq manager'.tasks
         /\ manager.tasks \subseteq manager'.tasks /\ manager.errors \subseteq manager'.errors
         /\ \A t \in Targets \ S : finishing'[t] = finishing[t] /\ queues'[t] = queues[t]
         /\ \A t \in S :
              /\ queues'[t].tasks = {} /\ queues'[t].errors = queues[t].errors
              /\ \/ /\ FinishCall(t) = "waiting" /\ finishing'[t] = queues[t].tasks
                    /\ <<"finish", t>> \in pending'
                 \/ FinishCall(t) = "rejected" /\ finishing'[t] = finishing[t] /\ manager'.errors # {}
                 \/ FinishCall(t) = "resolved" /\ finishing'[t] = finishing[t]
<1> DEFINE waiting == {t \in S : FinishCall(t) = "waiting"}
           failed == {t \in S : FinishCall(t) = "rejected"}
           added == {<<"finish", t>> : t \in S}
           heard == {<<"finish", t>> : t \in waiting}
           wrong == {<<"finish", t>> : t \in failed}
           m == AddTasks(manager, added, {})
<1>1. S \subseteq Targets /\ added \in SUBSET Tasks /\ heard \subseteq added /\ wrong \subseteq added
  BY TaskKinds, Kinds
<1>2. /\ finishing' = [t \in Targets |-> IF t \in waiting THEN queues[t].tasks ELSE finishing[t]]
      /\ queues' = [t \in Targets |-> IF t \in S THEN After(queues[t], FinishCall(t)) ELSE queues[t]]
      /\ pending' = pending \cup heard
      /\ manager' = [m EXCEPT !.errors = @ \cup wrong]
  BY DEF FinishAsyncTargets
<1>3. \A t \in Targets : queues[t] \in Managers(Work) /\ finishing[t] \in {NoWait} \cup SUBSET Work
  BY DEF Types
<1>4. finishing' \in [Targets -> {NoWait} \cup SUBSET Work]
  <2>1. \A t \in Targets : queues[t].tasks \in SUBSET Work
    BY <1>3, ManagerMethods
  <2> QED
    BY <1>2, <1>3, <2>1
<1>5. queues' \in [Targets -> Managers(Work)] /\ \A t \in S : queues'[t].tasks = {} /\ queues'[t].errors = queues[t].errors
  BY <1>1, <1>2, <1>3, ManagerMethods
<1>6. m \in Managers(Tasks) /\ m.tasks = manager.tasks \cup added /\ m.errors = manager.errors
  BY <1>1, ManagerMethods DEF Types
<1>7. manager' \in Managers(Tasks) /\ manager'.tasks = m.tasks /\ manager'.errors = m.errors \cup wrong
  <2> HIDE DEF m, wrong, added
  <2> QED
    BY <1>1, <1>2, <1>6 DEF Managers
<1>8. ASSUME NEW t \in S
      PROVE  \/ /\ FinishCall(t) = "waiting" /\ finishing'[t] = queues[t].tasks
                /\ <<"finish", t>> \in pending'
             \/ FinishCall(t) = "rejected" /\ finishing'[t] = finishing[t] /\ manager'.errors # {}
             \/ FinishCall(t) = "resolved" /\ finishing'[t] = finishing[t]
  <2>1. FinishCall(t) \in {"rejected", "resolved", "waiting"}
    BY <1>1, <1>3, Decisions DEF FinishCall
  <2>2. CASE FinishCall(t) = "waiting"
    BY <1>1, <1>2, <2>2
  <2>3. CASE FinishCall(t) = "rejected"
    <3>1. t \notin waiting /\ <<"finish", t>> \in wrong
      BY <2>3
    <3> QED
      BY <1>1, <1>2, <1>7, <2>3, <3>1
  <2>4. CASE FinishCall(t) = "resolved"
    BY <1>1, <1>2, <2>4
  <2> QED
    BY <2>1, <2>2, <2>3, <2>4
<1>9. \A t \in Targets \ S : finishing'[t] = finishing[t] /\ queues'[t] = queues[t]
  BY <1>2
<1>10. pending' \in SUBSET Tasks /\ pending \subseteq pending' /\ pending' \ pending \subseteq manager'.tasks
       /\ manager.tasks \subseteq manager'.tasks /\ manager.errors \subseteq manager'.errors
  <2> HIDE DEF m, added, heard, wrong
  <2> QED
    BY <1>1, <1>2, <1>6, <1>7 DEF Types
<1> QED
  BY <1>4, <1>5, <1>7, <1>8, <1>9, <1>10

\* doBuild goes to its next step, or takes the next of its sync targets.
LEMMA MainGoesOn ==
  ASSUME Types, NEW s \in MainSteps, main' = [main EXCEPT !.step = s]
  PROVE  /\ main' \in MainStates /\ main'.step = s /\ main'.platform = main.platform
         /\ main'.pack = main.pack /\ main'.syncTargets = main.syncTargets
         /\ main'.pack <= Len(Plan[main'.platform].packs) + 1
  BY DEF Types, MainStates, Platform

\* When doBuild takes the next sync target, the one it drops was the first.
LEMMA MainTakesNext ==
  ASSUME Types, main.syncTargets # <<>>, main' = [main EXCEPT !.syncTargets = Tail(@)]
  PROVE  /\ main' \in MainStates /\ main'.step = main.step /\ main'.platform = main.platform
         /\ main'.pack = main.pack /\ main'.syncTargets = Tail(main.syncTargets)
         /\ main'.pack <= Len(Plan[main'.platform].packs) + 1
         /\ Head(main.syncTargets) \in Writers \cup Installers
         /\ ToSet(main.syncTargets) \subseteq ToSet(main'.syncTargets) \cup {Head(main.syncTargets)}
<1>1. main \in MainStates /\ main.syncTargets \in Seq(Writers \cup Installers)
  BY DEF Types, MainStates
<1> DEFINE rest == Tail(main.syncTargets)
<1>2. rest \in Seq(Writers \cup Installers) /\ Head(main.syncTargets) \in Writers \cup Installers
      /\ ToSet(main.syncTargets) \subseteq ToSet(rest) \cup {Head(main.syncTargets)}
  BY <1>1, TailOf
<1>3. main' = [main EXCEPT !.syncTargets = rest]
  OBVIOUS
<1> HIDE DEF rest
<1>4. /\ main' \in MainStates /\ main'.step = main.step /\ main'.platform = main.platform
      /\ main'.pack = main.pack /\ main'.syncTargets = rest
  BY <1>1, <1>2, <1>3 DEF MainStates
<1>5. main'.pack <= Len(Plan[main'.platform].packs) + 1
  BY <1>4 DEF Types, Platform
<1> QED
  BY <1>2, <1>4, <1>5 DEF rest

\* All that Types says, of the state after a step.
LEMMA TypesAfter ==
  ASSUME isConcurrent' \in BOOLEAN, cancelled' \in BOOLEAN,
         main' \in MainStates, main'.pack <= Len(Plan[main'.platform].packs) + 1,
         packs' \in [Packs -> {"new", "packing", "packed", "failed"}],
         groups' \in [Packs -> GroupStates],
         work' \in [Work -> WorkSteps], \A w \in Work : work'[w] \in StatesOf(w),
         waits' \in [Work -> SUBSET Work],
         manager' \in Managers(Tasks), pending' \in SUBSET Tasks,
         round' \in {NoWait} \cup SUBSET Tasks,
         queues' \in [Targets -> Managers(Work)],
         finishing' \in [Targets -> {NoWait} \cup SUBSET Work],
         finalizers' \in SUBSET Packs, failures' \in 0..MaxFailures
  PROVE  Types'
  BY DEF Types, Platform, StatesOf, IsArchive, IsImage, IsInstaller, TargetOf, MainStates, GroupStates

\* The types, field by field.
LEMMA TypesNow ==
  ASSUME Types
  PROVE  /\ isConcurrent \in BOOLEAN /\ cancelled \in BOOLEAN
         /\ main \in MainStates /\ main.pack <= Len(Plan[main.platform].packs) + 1
         /\ packs \in [Packs -> {"new", "packing", "packed", "failed"}]
         /\ groups \in [Packs -> GroupStates]
         /\ work \in [Work -> WorkSteps] /\ \A w \in Work : work[w] \in StatesOf(w)
         /\ waits \in [Work -> SUBSET Work]
         /\ manager \in Managers(Tasks) /\ pending \in SUBSET Tasks
         /\ round \in {NoWait} \cup SUBSET Tasks
         /\ queues \in [Targets -> Managers(Work)]
         /\ finishing \in [Targets -> {NoWait} \cup SUBSET Work]
         /\ finalizers \in SUBSET Packs /\ failures \in 0..MaxFailures
  BY DEF Types, Platform

\* doBuild goes on with the next platform, or awaits the tasks of all.
LEMMA PlatformEnds ==
  ASSUME Types, EndPlatform, ~cancelled
  PROVE  /\ main' \in MainStates /\ main'.pack <= Len(Plan[main'.platform].packs) + 1
         /\ main'.pack = 1
         /\ \/ main.platform = Len(Plan) /\ main'.step = "awaiting" /\ main'.platform = main.platform
            \/ main.platform < Len(Plan) /\ main'.step = "packing" /\ main'.platform = main.platform + 1
         /\ ToSet(main'.syncTargets) = ToSet(main.syncTargets) \cup ToSet(Platform.syncTargets)
<1>1. main \in MainStates /\ main.platform \in 1..Len(Plan) /\ Len(Plan) \in Nat /\ DOMAIN Plan = 1..Len(Plan)
  BY PlanTypes DEF Types, MainStates
<1>2. main' = [step |-> IF IsLastPlatform THEN "awaiting" ELSE "packing",
               platform |-> IF IsLastPlatform THEN main.platform ELSE main.platform + 1,
               pack |-> 1, syncTargets |-> main.syncTargets \o Platform.syncTargets]
  BY DEF EndPlatform
<1>3. /\ main.syncTargets \in Seq(Writers \cup Installers) /\ Platform.syncTargets \in Seq(Writers \cup Installers)
      /\ main.syncTargets \o Platform.syncTargets \in Seq(Writers \cup Installers)
      /\ ToSet(main.syncTargets \o Platform.syncTargets) = ToSet(main.syncTargets) \cup ToSet(Platform.syncTargets)
  <2>1. main.syncTargets \in Seq(Writers \cup Installers) /\ Platform.syncTargets \in Seq(Writers \cup Installers)
    BY <1>1, PlanTypes DEF MainStates, Platform
  <2> QED
    BY <2>1, ElementsOfConcat
<1>4. \/ main.platform = Len(Plan) /\ main'.step = "awaiting" /\ main'.platform = main.platform
      \/ main.platform < Len(Plan) /\ main'.step = "packing" /\ main'.platform = main.platform + 1
  BY <1>1, <1>2 DEF IsLastPlatform
<1>5. main' \in MainStates
  BY <1>1, <1>2, <1>3 DEF IsLastPlatform, MainStates, MainSteps
<1>6. main'.pack = 1 /\ main'.pack <= Len(Plan[main'.platform].packs) + 1
  <2>1. main'.platform \in DOMAIN Plan
    BY <1>5 DEF MainStates
  <2>2. Len(Plan[main'.platform].packs) \in Nat
    BY <2>1, PlanTypes
  <2> QED
    BY <1>2, <2>2
<1> QED
  BY <1>2, <1>3, <1>4, <1>5, <1>6

\* Failures are counted within their bound.
LEMMA FailsOnce ==
  ASSUME Types, Fails PROVE failures' \in 0..MaxFailures
  BY BoundAssumption DEF Types, Fails

\* A writer that has written queues the rest, and its group goes on.
LEMMA WriterQueues ==
  ASSUME Types, Reading, NEW w \in Work, EndWriting(w)
  PROVE  /\ IsWriter(w) /\ w[1] \in Packs /\ TargetOf(w) \in Writers \cap Targets
         /\ groups[w[1]].at = "syncs" /\ groups[w[1]].targets # <<>> /\ Head(groups[w[1]].targets) = TargetOf(w)
         /\ work' \in [Work -> WorkSteps] /\ \A v \in Work : work'[v] \in StatesOf(v)
         /\ work'[w] = "working" /\ \A v \in Work : v # w => work'[v] = work[v]
         /\ groups' \in [Packs -> GroupStates]
         /\ groups'[w[1]].at = "syncs" /\ groups'[w[1]].targets = Tail(groups[w[1]].targets)
         /\ \A q \in Packs : q # w[1] => groups'[q] = groups[q]
         /\ queues' \in [Targets -> Managers(Work)]
         /\ w \in queues'[TargetOf(w)].tasks /\ queues[TargetOf(w)].tasks \subseteq queues'[TargetOf(w)].tasks
         /\ queues'[TargetOf(w)].errors = queues[TargetOf(w)].errors
         /\ \A t \in Targets : t # TargetOf(w) => queues'[t] = queues[t]
<1>1. work[w] = "writing" /\ work[w] \in StatesOf(w)
  BY DEF EndWriting, Types
<1>2. IsWriter(w)
  BY <1>1, StatesAre
<1>3. w[1] \in Packs /\ TargetOf(w) \in Writers \cap Targets /\ ~IsInstaller(w)
  BY <1>2, WorkShape, Kinds DEF IsWriter, IsInstaller
<1>4. groups[w[1]].at = "syncs" /\ groups[w[1]].targets # <<>> /\ Head(groups[w[1]].targets) = TargetOf(w)
  BY <1>1, <1>2, <1>3 DEF Reading, OnPack
<1>5. /\ work' \in [Work -> WorkSteps] /\ \A v \in Work : work'[v] \in StatesOf(v)
      /\ work'[w] = "working" /\ \A v \in Work : v # w => work'[v] = work[v]
  <2>1. "working" \in StatesOf(w)
    BY <1>2, StatesAre DEF WorkSteps
  <2> QED
    BY <2>1, WorkUpdate DEF EndWriting
<1>6. /\ groups' \in [Packs -> GroupStates]
      /\ groups'[w[1]].at = "syncs" /\ groups'[w[1]].targets = Tail(groups[w[1]].targets)
      /\ \A q \in Packs : q # w[1] => groups'[q] = groups[q]
  <2>1. groups' = [groups EXCEPT ![w[1]].targets = Tail(@)]
    BY DEF EndWriting
  <2> QED
    BY <1>3, <1>4, <2>1, GroupGoesOn
<1> DEFINE t == TargetOf(w)
           q == AddTasks(queues[t], {w}, {})
<1>7. q \in Managers(Work) /\ q.tasks = queues[t].tasks \cup {w} /\ q.errors = queues[t].errors
  <2>1. queues[t] \in Managers(Work) /\ {w} \in SUBSET Work
    BY <1>3 DEF Types
  <2> QED
    BY <2>1, ManagerMethods
<1>8. queues' = [queues EXCEPT ![t] = q]
  BY DEF EndWriting
<1>9. /\ queues' \in [Targets -> Managers(Work)] /\ queues'[t] = q
      /\ \A u \in Targets : u # t => queues'[u] = queues[u]
  <2> HIDE DEF q
  <2> QED
    BY <1>3, <1>7, <1>8, QueueUpdate
<1> HIDE DEF q
<1> QED
  BY <1>2, <1>3, <1>4, <1>5, <1>6, <1>7, <1>9

\* A wait of finishBuild is over: there is new work to wait for, or finishBuild settles.
LEMMA Finished ==
  ASSUME Types, Finishing, Tracking, NEW t \in Targets, EndFinish(t)
  PROVE  /\ t \in Archives \cup Writers
         /\ queues' \in [Targets -> Managers(Work)] /\ finishing' \in [Targets -> {NoWait} \cup SUBSET Work]
         /\ \A u \in Targets : u # t => queues'[u] = queues[u] /\ finishing'[u] = finishing[u]
         /\ queues'[t].tasks = {} /\ queues'[t].errors = queues[t].errors
         /\ \/ /\ finishing'[t] = queues[t].tasks /\ UNCHANGED <<manager, pending, main>>
            \/ /\ finishing'[t] = NoWait
               /\ \/ queues[t].errors = {} /\ queues[t].tasks = {}
                  \/ queues[t].errors # {}
               /\ \/ /\ t \in Archives /\ UNCHANGED main
                     /\ Settle(<<"finish", t>>, queues[t].errors = {})
                  \/ /\ t \in Writers /\ UNCHANGED <<manager, pending>>
                     /\ main.step = "finishing" /\ main.syncTargets # <<>> /\ Head(main.syncTargets) = t
                     /\ \/ queues[t].errors = {} /\ main' = [main EXCEPT !.syncTargets = Tail(@)]
                        \/ queues[t].errors # {} /\ main' = [main EXCEPT !.step = "rejected"]
<1>1. finishing[t] # NoWait /\ queues[t] \in Managers(Work)
  BY DEF EndFinish, Types
<1>2. t \in Archives \cup Writers
  BY <1>1, Kinds DEF Tracking
<1> DEFINE d == OnRoundEnd(queues[t], FALSE)
<1>3. /\ d \in {"rejected", "resolved", "waiting"}
      /\ d = "resolved" => queues[t].errors = {} /\ queues[t].tasks = {}
      /\ d = "rejected" => queues[t].errors # {}
  BY <1>1, Decisions
<1>4. /\ queues' = [queues EXCEPT ![t] = After(queues[t], d)]
      /\ finishing' = [finishing EXCEPT ![t] = IF d = "waiting" THEN queues[t].tasks ELSE NoWait]
      /\ \/ d = "waiting" /\ UNCHANGED <<manager, pending, main>>
         \/ /\ d # "waiting" /\ t \in AsyncTargets
            /\ Settle(<<"finish", t>>, d = "resolved") /\ UNCHANGED main
         \/ /\ d # "waiting" /\ t \notin AsyncTargets
            /\ main' = IF d = "resolved" THEN [main EXCEPT !.syncTargets = Tail(@)]
                       ELSE [main EXCEPT !.step = "rejected"]
            /\ UNCHANGED <<manager, pending>>
  BY DEF EndFinish
<1> HIDE DEF d
<1>5. After(queues[t], d) \in Managers(Work) /\ After(queues[t], d).tasks = {} /\ After(queues[t], d).errors = queues[t].errors
      /\ queues[t].tasks \in SUBSET Work
  BY <1>1, ManagerMethods
<1>6. /\ queues' \in [Targets -> Managers(Work)] /\ finishing' \in [Targets -> {NoWait} \cup SUBSET Work]
      /\ \A u \in Targets : u # t => queues'[u] = queues[u] /\ finishing'[u] = finishing[u]
      /\ queues'[t] = After(queues[t], d) /\ finishing'[t] = IF d = "waiting" THEN queues[t].tasks ELSE NoWait
  BY <1>4, <1>5 DEF Types
<1>7. t \in Writers => main.step = "finishing" /\ main.syncTargets # <<>> /\ Head(main.syncTargets) = t
  BY <1>1 DEF Finishing
<1>8. CASE d = "waiting"
  BY <1>2, <1>4, <1>5, <1>6, <1>8
<1>9. CASE d = "resolved"
  <2>1. (d = "resolved") = (queues[t].errors = {})
    BY <1>3, <1>9
  <2> QED
    BY <1>2, <1>3, <1>4, <1>5, <1>6, <1>7, <1>9, <2>1, Kinds
<1>10. CASE d = "rejected"
  <2>1. (d = "resolved") = (queues[t].errors = {})
    BY <1>3, <1>10
  <2> QED
    BY <1>2, <1>3, <1>4, <1>5, <1>6, <1>7, <1>10, <2>1, Kinds
<1> QED
  BY <1>3, <1>8, <1>9, <1>10

\* doBuild waits for the tasks there are now, or has done with them.
LEMMA Waits ==
  ASSUME Types, Listening, AwaitTasks \/ EndRound
  PROVE  /\ main.step = "awaiting"
         /\ manager' \in Managers(Tasks) /\ manager'.tasks = {} /\ manager'.errors = manager.errors
         /\ UNCHANGED <<isConcurrent, cancelled, packing, works, pending, ending, failures>>
         /\ \/ round' = manager.tasks /\ main' = [main EXCEPT !.step = "awaiting"]
            \/ /\ round' = NoWait
               /\ \/ main' = [main EXCEPT !.step = "rejected"]
                  \/ cancelled /\ main' = [main EXCEPT !.step = "finishing"]
                  \/ /\ main' = [main EXCEPT !.step = "finishing"]
                     /\ manager.errors = {} /\ manager.tasks = {}
         /\ Awaited \cap pending = {}
<1>1. /\ main.step = "awaiting"
      /\ \/ round = NoWait /\ ContinueWait(OnCall(manager, cancelled))
         \/ round # NoWait /\ round \cap pending = {} /\ ContinueWait(OnRoundEnd(manager, cancelled))
  BY DEF AwaitTasks, EndRound
<1>2. Awaited \cap pending = {}
  BY <1>1 DEF Awaited
<1>3. PICK d : /\ ContinueWait(d) /\ d \in {"cancelled", "rejected", "resolved", "waiting"}
               /\ d = "resolved" => manager.errors = {} /\ manager.tasks = {}
               /\ d = "cancelled" => cancelled
  BY <1>1, Decisions DEF Types
<1>4. manager' \in Managers(Tasks) /\ manager'.tasks = {} /\ manager'.errors = manager.errors
  BY <1>3, ManagerMethods DEF ContinueWait, Types
<1>5. /\ UNCHANGED <<isConcurrent, cancelled, packing, works, pending, ending, failures>>
      /\ round' = IF d = "waiting" THEN manager.tasks ELSE NoWait
  BY <1>3 DEF ContinueWait
<1>6. /\ d = "waiting" => main' = [main EXCEPT !.step = "awaiting"]
      /\ d = "rejected" => main' = [main EXCEPT !.step = "rejected"]
      /\ d \in {"cancelled", "resolved"} => main' = [main EXCEPT !.step = "finishing"]
  BY <1>3 DEF ContinueWait
<1> QED
  BY <1>1, <1>2, <1>3, <1>4, <1>5, <1>6

\* A build begins with values of these types.
LEMMA InitTypes == Init => Types
<1> SUFFICES ASSUME Init PROVE Types
  OBVIOUS
<1>1. main \in MainStates /\ Platform = Plan[1] /\ main.pack <= Len(Platform.packs) + 1
  <2>1. 1 \in DOMAIN Plan /\ <<>> \in Seq(Writers \cup Installers)
    BY PlanAssumption
  <2>2. Len(Plan[1].packs) \in Nat
    BY <2>1, PlanTypes
  <2> QED
    BY <2>1, <2>2 DEF Init, MainStates, MainSteps, Platform
<1>2. groups \in [Packs -> GroupStates]
  BY DEF Init, GroupStates
<1>3. NewManager \in Managers(Tasks) /\ NewManager \in Managers(Work)
  BY DEF NewManager, Managers
<1>4. \A w \in Work : work[w] \in StatesOf(w)
  BY StatesAre DEF Init
<1>5. work \in [Work -> WorkSteps] /\ waits \in [Work -> SUBSET Work]
  BY DEF Init, WorkSteps
<1>6. manager \in Managers(Tasks) /\ queues \in [Targets -> Managers(Work)]
  BY <1>3 DEF Init
<1>7. packs \in [Packs -> {"new", "packing", "packed", "failed"}] /\ finishing \in [Targets -> {NoWait} \cup SUBSET Work]
  BY DEF Init
<1>8. /\ isConcurrent \in BOOLEAN /\ cancelled \in BOOLEAN /\ pending \in SUBSET Tasks
      /\ round \in {NoWait} \cup SUBSET Tasks /\ finalizers \in SUBSET Packs
  BY Zenon DEF Init
<1>9. failures \in 0..MaxFailures
  BY BoundAssumption DEF Init
<1> QED
  BY <1>1, <1>2, <1>4, <1>5, <1>6, <1>7, <1>8, <1>9 DEF Types

\* Every step keeps the types.
LEMMA NextTypes == IInv /\ [Next]_vars => Types'
<1> SUFFICES ASSUME Types, Reading, Listening, Tracking, Finishing, [Next]_vars PROVE Types'
  BY DEF IInv
<1> USE TypesNow DEF tasks, works, packing, ending
<1>1. CASE StartPack
  <2>1. Platform.packs \in Seq(Packs) /\ main.pack \in 1..Len(Platform.packs) /\ Len(Platform.packs) \in Nat
    BY <1>1, PlanTypes DEF StartPack, Platform, MainStates
  <2>2. main' \in MainStates /\ main'.platform = main.platform /\ main'.pack = main.pack + 1
    BY <1>1, <2>1 DEF StartPack, MainStates
  <2>3. main'.pack <= Len(Plan[main'.platform].packs) + 1
    BY <2>1, <2>2 DEF Platform
  <2>4. packs' \in [Packs -> {"new", "packing", "packed", "failed"}]
    BY <1>1 DEF StartPack
  <2> QED
    BY <1>1, <2>2, <2>3, <2>4, TypesAfter DEF StartPack
<1>2. ASSUME NEW p \in Packs, FinishPack(p) PROVE Types'
  <2>1. packs' \in [Packs -> {"new", "packing", "packed", "failed"}]
    BY <1>2 DEF FinishPack
  <2> DEFINE i == PlatformOf(p)
  <2>2. i \in DOMAIN Plan /\ Plan[i].asyncTargets = TargetsOf(i) \cap AsyncTargets
        /\ Plan[i].syncTargets \in Seq(Writers \cup Installers)
    BY PlatformOfPack, PlanTypes
  <2>3. \/ /\ BuildAsyncTargets(p, Plan[i].asyncTargets)
           /\ Add({<<p, t>> : t \in Plan[i].asyncTargets \cap Images})
           /\ groups' = groups
        \/ UNCHANGED <<work, queues, manager, pending, groups>>
        \/ /\ BuildAsyncTargets(p, Plan[i].asyncTargets)
           /\ Add({<<"group", p>>})
           /\ groups' = [groups EXCEPT ![p] = [at |-> "images", targets |-> Plan[i].syncTargets]]
    BY <1>2 DEF FinishPack
  <2>4. {<<p, t>> : t \in Plan[i].asyncTargets \cap Images} \in SUBSET Tasks /\ {<<"group", p>>} \in SUBSET Tasks
    BY <2>2, PackWork, Kinds, TaskKinds
  <2>5. manager' \in Managers(Tasks) /\ pending' \in SUBSET Tasks
    <3> HIDE DEF i
    <3> QED
      BY <2>3, <2>4, Added
  <2>6. groups' \in [Packs -> GroupStates]
    <3>1. [at |-> "images", targets |-> Plan[i].syncTargets] \in GroupStates
      BY <2>2 DEF GroupStates
    <3> QED
      BY <2>3, <3>1
  <2>7. work' \in [Work -> WorkSteps] /\ (\A w \in Work : work'[w] \in StatesOf(w)) /\ queues' \in [Targets -> Managers(Work)]
    BY <2>2, <2>3, AsyncBuilds
  <2> QED
    BY <1>2, <2>1, <2>5, <2>6, <2>7, TypesAfter DEF FinishPack
<1>3. ASSUME NEW p \in Packs, PackFails(p) PROVE Types'
  <2>1. packs' \in [Packs -> {"new", "packing", "packed", "failed"}]
    BY <1>3 DEF PackFails
  <2> QED
    BY <1>3, <2>1, FailsOnce, TypesAfter DEF PackFails
<1>4. ASSUME NEW p \in Packs, EndImages(p) PROVE Types'
  <2>1. CASE SettleGroup(p, FALSE)
    BY <1>4, <2>1, GroupSettles, TypesAfter DEF EndImages
  <2>2. CASE groups' = [groups EXCEPT ![p].at = "syncs"] /\ UNCHANGED <<manager, pending>>
    <3>1. groups' \in [Packs -> GroupStates]
      BY <2>2 DEF GroupStates
    <3> QED
      BY <1>4, <2>2, <3>1, TypesAfter DEF EndImages
  <2> QED
    BY <1>4, <2>1, <2>2 DEF EndImages
<1>5. ASSUME NEW p \in Packs, BuildSyncTarget(p) PROVE Types'
  <2> DEFINE t == Head(groups[p].targets)
  <2>1. CASE groups' = [groups EXCEPT ![p].targets = Tail(@)] /\ UNCHANGED work
    BY <1>5, <2>1, GroupGoesOn, TypesAfter DEF BuildSyncTarget
  <2>2. CASE work' = [work EXCEPT ![<<p, t>>] = "building"] /\ UNCHANGED groups /\ t \notin Installers
    <3>1. t \in Writers
      <4>1. groups[p].targets \in Seq(Writers \cup Installers) /\ groups[p].targets # <<>>
        BY <1>5 DEF BuildSyncTarget, GroupStates
      <4> QED
        BY <4>1, <2>2, TailOf
    <3>2. TargetOf(<<p, t>>) = t
      BY DEF TargetOf, Last
    <3>3. \A w \in Work : "building" \in WorkSteps /\ (w = <<p, t>> => "building" \in StatesOf(w))
      BY <3>1, <3>2, StatesAre DEF WorkSteps, IsWriter
    <3>4. work' \in [Work -> WorkSteps] /\ \A w \in Work : work'[w] \in StatesOf(w)
      <4> HIDE DEF t
      <4> QED
        BY <2>2, <3>3
    <3> QED
      BY <1>5, <2>2, <3>4, TypesAfter DEF BuildSyncTarget
  <2> QED
    BY <1>5, <2>1, <2>2 DEF BuildSyncTarget
<1>6. ASSUME NEW p \in Packs, EndGroup(p) PROVE Types'
  BY <1>6, GroupSettles, TypesAfter DEF EndGroup
<1>7. ASSUME NEW w \in Work, WaitForPackWork(w) PROVE Types'
  <2>1. "waiting" \in StatesOf(w)
    BY <1>7, StatesAre DEF WaitForPackWork, IsWriter, WorkSteps
  <2>2. work' \in [Work -> WorkSteps] /\ \A v \in Work : work'[v] \in StatesOf(v)
    BY <1>7, <2>1, WorkUpdate DEF WaitForPackWork
  <2>3. waits' \in [Work -> SUBSET Work]
    BY <1>7 DEF WaitForPackWork, Tracked
  <2> QED
    BY <1>7, <2>2, <2>3, TypesAfter DEF WaitForPackWork
<1>8. ASSUME NEW w \in Work, StartWriting(w) PROVE Types'
  <2>1. "writing" \in StatesOf(w)
    BY <1>8, StatesAre DEF StartWriting, WorkSteps
  <2> QED
    BY <1>8, <2>1, WorkUpdate, TypesAfter DEF StartWriting
<1>9. ASSUME NEW w \in Work, EndWriting(w) PROVE Types'
  BY <1>9, WriterQueues, TypesAfter DEF EndWriting
<1>10. ASSUME NEW w \in Work, WriterFails(w) PROVE Types'
  <2>1. "failed" \in StatesOf(w) /\ w[1] \in Packs
    BY <1>10, StatesAre, WorkShape, Kinds DEF WriterFails
  <2>2. work' \in [Work -> WorkSteps] /\ \A v \in Work : work'[v] \in StatesOf(v)
    BY <1>10, <2>1, WorkUpdate DEF WriterFails
  <2> QED
    BY <1>10, <2>1, <2>2, GroupSettles, FailsOnce, TypesAfter DEF WriterFails
<1>11. ASSUME NEW w \in Work, EndWork(w) PROVE Types'
  <2>1. DirsOf(w) \subseteq Packs
    BY DirsArePacks
  <2>2. finalizers' \in SUBSET Packs
    BY <1>11, <2>1 DEF EndWork
  <2> QED
    BY <1>11, <2>2, WorkSettles, TypesAfter DEF EndWork
<1>12. ASSUME NEW w \in Work, WorkFails(w) PROVE Types'
  BY <1>12, WorkSettles, FailsOnce, TypesAfter DEF WorkFails
<1>13. ASSUME NEW t \in Targets, EndFinish(t) PROVE Types'
  <2>1. UNCHANGED <<isConcurrent, cancelled, packing, work, waits, round, finalizers, failures>>
    BY <1>13 DEF EndFinish
  <2>2. queues' \in [Targets -> Managers(Work)] /\ finishing' \in [Targets -> {NoWait} \cup SUBSET Work]
    BY <1>13, Finished
  <2>3. manager' \in Managers(Tasks) /\ pending' \in SUBSET Tasks
    BY <1>13, Finished, SettledTask
  <2>4. main' \in MainStates /\ main'.pack <= Len(Plan[main'.platform].packs) + 1
    <3>1. "rejected" \in MainSteps
      BY DEF MainSteps
    <3>2. \/ main' = main
          \/ main.syncTargets # <<>> /\ main' = [main EXCEPT !.syncTargets = Tail(@)]
          \/ main' = [main EXCEPT !.step = "rejected"]
      BY <1>13, Finished
    <3> QED
      BY <3>1, <3>2, MainTakesNext, MainGoesOn
  <2> QED
    BY <2>1, <2>2, <2>3, <2>4, TypesAfter
<1>14. CASE BuildFails \/ StartPool \/ EndSyncTargets \/ EndBuild
  <2>1. PICK s \in MainSteps : main' = [main EXCEPT !.step = s]
    BY <1>14 DEF BuildFails, Rejects, StartPool, EndSyncTargets, EndBuild, MainSteps
  <2>2. UNCHANGED <<isConcurrent, cancelled, packing, works, tasks, ending, failures>>
    BY <1>14 DEF BuildFails, Rejects, StartPool, EndSyncTargets, EndBuild
  <2> QED
    BY <2>1, <2>2, MainGoesOn, TypesAfter
<1>15. CASE EndPlatform
  <2>1. CASE cancelled
    <3>1. main' = [main EXCEPT !.step = "awaiting"] /\ "awaiting" \in MainSteps
      BY <1>15, <2>1 DEF EndPlatform, MainSteps
    <3> QED
      BY <1>15, <2>1, <3>1, MainGoesOn, TypesAfter DEF EndPlatform
  <2>2. CASE ~cancelled
    <3>1. main.platform \in DOMAIN Plan /\ Platform.asyncTargets \subseteq AsyncTargets
      BY PlanTypes DEF MainStates, Platform
    <3>2. FinishAsyncTargets(Platform.asyncTargets)
      BY <1>15, <2>2 DEF EndPlatform
    <3>3. main' \in MainStates /\ main'.pack <= Len(Plan[main'.platform].packs) + 1
      BY <1>15, <2>2, PlatformEnds
    <3> QED
      BY <1>15, <3>1, <3>2, <3>3, AsyncFinishes, TypesAfter DEF EndPlatform
  <2> QED
    BY <2>1, <2>2
<1>16. CASE AwaitTasks \/ EndRound
  <2>1. PICK s \in MainSteps : main' = [main EXCEPT !.step = s]
    BY <1>16, Waits DEF MainSteps
  <2>2. round' \in {NoWait} \cup SUBSET Tasks
    BY <1>16, Waits, ManagerMethods
  <2> QED
    BY <1>16, <2>1, <2>2, Waits, MainGoesOn, TypesAfter
<1>17. CASE FinishSyncTarget
  <2> DEFINE t == Head(main.syncTargets)
  <2>1. main.syncTargets # <<>> /\ t \in Writers \cup Installers
    BY <1>17, TailOf DEF FinishSyncTarget, MainStates
  <2>2. CASE t \in Installers
    <3>1. <<t>> \in Work /\ "working" \in StatesOf(<<t>>)
      BY <2>2, InstallerWork, StatesAre DEF IsInstaller
    <3>2. work' = [work EXCEPT ![<<t>>] = "working"]
      BY <1>17, <2>2 DEF FinishSyncTarget
    <3> HIDE DEF t
    <3>3. work' \in [Work -> WorkSteps] /\ \A w \in Work : work'[w] \in StatesOf(w)
      BY <3>1, <3>2, WorkUpdate
    <3> QED
      BY <1>17, <2>2, <3>3, TypesAfter DEF FinishSyncTarget, t
  <2>3. CASE t \in Writers
    <3>1. t \in Targets /\ t \notin Installers
      BY <2>3, Kinds
    <3>2. queues' \in [Targets -> Managers(Work)]
      <4>1. queues' = [queues EXCEPT ![t] = After(queues[t], FinishCall(t))]
        BY <1>17, <3>1 DEF FinishSyncTarget
      <4>2. After(queues[t], FinishCall(t)) \in Managers(Work)
        BY <3>1, ManagerMethods
      <4> QED
        BY <4>1, <4>2
    <3>3. finishing' \in [Targets -> {NoWait} \cup SUBSET Work]
      <4>1. queues[t].tasks \in SUBSET Work
        BY <3>1, ManagerMethods
      <4> QED
        BY <1>17, <3>1, <4>1 DEF FinishSyncTarget
    <3>4. main' \in MainStates /\ main'.pack <= Len(Plan[main'.platform].packs) + 1
      <4>1. "rejected" \in MainSteps
        BY DEF MainSteps
      <4>2. \/ main' = main
            \/ main' = [main EXCEPT !.syncTargets = Tail(@)]
            \/ main' = [main EXCEPT !.step = "rejected"]
        BY <1>17, <3>1 DEF FinishSyncTarget
      <4> QED
        BY <2>1, <4>1, <4>2, MainTakesNext, MainGoesOn
    <3> QED
      BY <1>17, <3>1, <3>2, <3>3, <3>4, TypesAfter DEF FinishSyncTarget
  <2> QED
    BY <2>1, <2>2, <2>3
<1>18. CASE EndInstaller
  <2>1. CASE main' = [main EXCEPT !.syncTargets = Tail(@)]
    BY <1>18, <2>1, MainTakesNext, TypesAfter DEF EndInstaller
  <2>2. CASE main' = [main EXCEPT !.step = "rejected"]
    <3>1. "rejected" \in MainSteps
      BY DEF MainSteps
    <3> QED
      BY <1>18, <2>2, <3>1, MainGoesOn, TypesAfter DEF EndInstaller
  <2> QED
    BY <1>18, <2>1, <2>2 DEF EndInstaller
<1>19. ASSUME NEW p \in Packs, Finalize(p) PROVE Types'
  BY <1>19, TypesAfter DEF Finalize
<1>20. CASE Cancel
  BY <1>20, TypesAfter DEF Cancel
<1>21. CASE UNCHANGED vars
  BY <1>21, TypesAfter DEF vars
<1> QED
  BY <1>1, <1>2, <1>3, <1>4, <1>5, <1>6, <1>7, <1>8, <1>9, <1>10, <1>11, <1>12, <1>13, <1>14,
     <1>15, <1>16, <1>17, <1>18, <1>19, <1>20, <1>21
     DEF Next, Main, PackStep, WorkStep, Ended

-----------------------------------------------------------------------------
(* The order of the packs.                                                  *)

\* What was cancelled or rejected remains so.
LEMMA GoesOnBefore ==
  ASSUME IInv, [Next]_vars, GoesOn'
  PROVE  GoesOn
<1> USE DEF GoesOn
<1>1. main \in MainStates
  BY DEF IInv, Types
<1>2. CASE main' = main /\ cancelled' = cancelled
  BY <1>2
<1>3. CASE Cancel
  BY <1>3 DEF Cancel
<1>4. CASE main.step # "rejected" /\ cancelled' = cancelled
  BY <1>4
<1>5. ASSUME NEW p \in Packs, PackStep(p)
      PROVE main' = main /\ cancelled' = cancelled
  BY <1>5 DEF PackStep, FinishPack, PackFails, EndImages, BuildSyncTarget, EndGroup
<1>6. ASSUME NEW w \in Work, WorkStep(w)
      PROVE main' = main /\ cancelled' = cancelled
  BY <1>6 DEF WorkStep, WaitForPackWork, StartWriting, EndWriting, WriterFails, EndWork, WorkFails
<1>7. ASSUME NEW t \in Targets, EndFinish(t)
      PROVE cancelled' = cancelled /\ (main' = main \/ main.step # "rejected")
  BY <1>7, Finished DEF EndFinish, IInv
<1>8. CASE Main
  <2>1. cancelled' = cancelled
    BY <1>8 DEF Main, StartPack, BuildFails, Rejects, StartPool, EndPlatform, AwaitTasks, EndRound,
         ContinueWait, FinishSyncTarget, EndInstaller, EndSyncTargets, Finalize, EndBuild
  <2>2. main.step # "rejected"
    BY <1>8 DEF Main, StartPack, BuildFails, Rejects, StartPool, EndPlatform, IsPlatformPacked, AwaitTasks, EndRound,
         FinishSyncTarget, EndInstaller, EndSyncTargets, Finalize, EndBuild
  <2> QED
    BY <2>1, <2>2
<1>9. CASE UNCHANGED vars
  BY <1>9 DEF vars
<1> QED
  BY <1>2, <1>3, <1>4, <1>5, <1>6, <1>7, <1>8, <1>9 DEF Next, Ended

\* The order of the packs is about doBuild, the packs and the token alone.
LEMMA OrderStays ==
  ASSUME Order, UNCHANGED <<main, packs, cancelled>> PROVE Order'
  BY DEF Order, Platform, GoesOn, HasEnded

\* Once doBuild has gone through the packs, it stays past them.
LEMMA OrderLater ==
  ASSUME Order, main.step \notin {"packing", "pooling"}, main'.step \notin {"packing", "pooling"},
         GoesOn' => GoesOn, packs' = packs
  PROVE  Order'
  BY DEF Order, HasEnded

\* A pack that is being made ends.
LEMMA OrderOfPack ==
  ASSUME Types, Order, NEW p \in Packs, packs[p] = "packing", NEW s \in {"packed", "failed"},
         packs' = [packs EXCEPT ![p] = s], UNCHANGED <<main, cancelled>>
  PROVE  Order'
<1>1. \A q \in Packs : packs[q] = "new" => packs'[q] = "new"
  BY DEF Types
<1>2. \A q \in Packs : packs[q] = "packed" => packs'[q] = "packed"
  BY DEF Types
<1>3. \A i \in DOMAIN Plan : ToSet(Plan[i].packs) \subseteq Packs
  BY PlanTypes
<1>4. main.platform \in DOMAIN Plan /\ \A k \in DOMAIN Platform.packs : Platform.packs[k] \in Packs
  <2>1. main.platform \in DOMAIN Plan
    BY DEF Types, MainStates
  <2> QED
    BY <2>1, PlanTypes DEF Platform
<1>5. Platform' = Platform
  BY DEF Platform
<1>6. GoesOn' = GoesOn /\ \A i : HasEnded(i)' = HasEnded(i)
  BY DEF GoesOn, HasEnded
<1> QED
  BY <1>1, <1>2, <1>3, <1>4, <1>5, <1>6 DEF Order

\* Every step keeps the order of the packs.
LEMMA NextOrder == IInv /\ [Next]_vars => Order'
<1> SUFFICES ASSUME IInv, [Next]_vars PROVE Order'
  OBVIOUS
<1> USE DEF tasks, works, packing, ending
<1>a. Types /\ Order /\ Reading /\ Listening /\ Tracking /\ Finishing
  BY DEF IInv
<1>b. main \in MainStates /\ main.platform \in DOMAIN Plan /\ Platform = Plan[main.platform]
  BY <1>a DEF Types, MainStates, Platform
<1>c. GoesOn' => GoesOn
  BY GoesOnBefore
<1>1. CASE StartPack
  <2>1. Platform.packs \in Seq(Packs) /\ main.pack \in DOMAIN Platform.packs /\ main.step = "packing"
        /\ main.pack \in Nat
    BY <1>1, <1>b, PlanTypes DEF StartPack, MainStates
  <2>2. main'.platform = main.platform /\ main'.pack = main.pack + 1 /\ main'.step = main.step /\ Platform' = Platform
    BY <1>1, <1>b DEF StartPack, MainStates, Platform
  <2> DEFINE p == Platform.packs[main.pack]
  <2>3. p \in ToSet(Platform.packs) /\ p \in Packs
    BY <2>1, <1>b, PlanTypes
  <2>4. packs' = [packs EXCEPT ![p] = "packing"]
    BY <1>1 DEF StartPack
  <2>5. \A k \in DOMAIN Platform.packs : k >= main.pack + 1 => Platform.packs[k] # p /\ Platform.packs[k] \in Packs
    <3>1. IsInjective(Platform.packs)
      BY <1>b, PlanAssumption
    <3>2. \A k \in DOMAIN Platform.packs : Platform.packs[k] = p => k = main.pack
      BY <3>1, <2>1 DEF IsInjective
    <3>3. \A k \in DOMAIN Platform.packs : Platform.packs[k] \in Packs
      BY <2>1
    <3> QED
      BY <3>2, <3>3, <2>1
  <2>6. \A i \in DOMAIN Plan : i # main.platform => p \notin ToSet(Plan[i].packs)
    BY <2>3, <1>b, TargetAssumption
  <2>7. \A i \in DOMAIN Plan : ToSet(Plan[i].packs) \subseteq Packs /\ i \in Nat
    BY PlanTypes
  <2> HIDE DEF p
  <2>8. \A q \in Packs : q # p => packs'[q] = packs[q]
    BY <2>4, <1>a DEF Types
  <2>9. \A i \in DOMAIN Plan : i > main.platform => \A q \in ToSet(Plan[i].packs) : packs'[q] = "new"
    BY <2>1, <2>6, <2>7, <2>8, <1>a, <1>b DEF Order
  <2>10. \A k \in DOMAIN Platform.packs : k >= main.pack + 1 => packs'[Platform.packs[k]] = "new"
    BY <2>1, <2>5, <2>8, <1>a DEF Order
  <2>11. GoesOn' => \A i \in DOMAIN Plan : i < main.platform => \A q \in ToSet(Plan[i].packs) : packs'[q] = "packed"
    BY <2>6, <2>7, <2>8, <1>a, <1>b, <1>c DEF Order, HasEnded
  <2> QED
    BY <2>1, <2>2, <2>9, <2>10, <2>11 DEF Order, HasEnded
<1>2. ASSUME NEW p \in Packs, FinishPack(p) \/ PackFails(p) PROVE Order'
  <2>1. /\ packs[p] = "packing" /\ UNCHANGED <<main, cancelled>>
        /\ packs' = [packs EXCEPT ![p] = "packed"] \/ packs' = [packs EXCEPT ![p] = "failed"]
    BY <1>2 DEF FinishPack, PackFails
  <2> QED
    BY <2>1, <1>a, OrderOfPack
<1>3. ASSUME NEW p \in Packs, EndImages(p) \/ BuildSyncTarget(p) \/ EndGroup(p) PROVE Order'
  BY <1>3, <1>a, OrderStays DEF EndImages, BuildSyncTarget, EndGroup
<1>4. ASSUME NEW w \in Work, WorkStep(w) PROVE Order'
  BY <1>4, <1>a, OrderStays DEF WorkStep, WaitForPackWork, StartWriting, EndWriting, WriterFails, EndWork, WorkFails
<1>5. ASSUME NEW t \in Targets, EndFinish(t) PROVE Order'
  <2>1. UNCHANGED <<packs, cancelled>>
    BY <1>5 DEF EndFinish
  <2>2. CASE main' = main
    BY <2>1, <2>2, <1>a, OrderStays
  <2>3. CASE main' # main
    <3>1. /\ main.step = "finishing" /\ main.syncTargets # <<>>
          /\ \/ main' = [main EXCEPT !.syncTargets = Tail(@)]
             \/ main' = [main EXCEPT !.step = "rejected"]
      BY <1>5, <1>a, <2>3, Finished
    <3>2. main'.step \in {"finishing", "rejected"}
      BY <3>1, <1>a, <1>b, MainTakesNext DEF MainStates
    <3> QED
      BY <3>1, <3>2, <2>1, <1>a, <1>c, OrderLater
  <2> QED
    BY <2>2, <2>3
<1>6. CASE BuildFails
  <2>1. main'.step = "rejected" /\ packs' = packs /\ ~GoesOn'
    BY <1>6, <1>b DEF BuildFails, Rejects, MainStates, GoesOn
  <2> QED
    BY <2>1 DEF Order
<1>7. CASE StartPool
  <2>1. main'.step = "pooling" /\ main'.platform = main.platform /\ main'.pack = main.pack /\ Platform' = Platform
        /\ main.step = "packing" /\ packs' = packs
    BY <1>7, <1>b DEF StartPool, MainStates, Platform
  <2>2. main.pack > Len(Platform.packs)
    BY <1>7 DEF StartPool, HasPacked
  <2>3. \A i : HasEnded(i)' = HasEnded(i)
    BY <2>1 DEF HasEnded
  <2> QED
    BY <2>1, <2>2, <2>3, <1>a, <1>c DEF Order
<1>8. CASE EndPlatform
  <2>1. CASE cancelled
    <3>1. main'.step = "awaiting" /\ ~GoesOn'
      BY <1>8, <2>1, <1>b DEF EndPlatform, MainStates, GoesOn
    <3> QED
      BY <3>1 DEF Order
  <2>2. CASE ~cancelled
    <3>1. packs' = packs /\ IsPlatformPacked
      BY <1>8 DEF EndPlatform
    <3>2. main'.pack = 1
          /\ \/ main.platform = Len(Plan) /\ main'.step = "awaiting" /\ main'.platform = main.platform
             \/ main.platform < Len(Plan) /\ main'.step = "packing" /\ main'.platform = main.platform + 1
      BY <1>8, <2>2, <1>a, PlatformEnds
    <3>3. main.step \in {"packing", "pooling"} /\ main.pack > Len(Platform.packs)
          /\ \A q \in PacksStarted : packs[q] = "packed"
      BY <3>1, <2>2, <1>a DEF IsPlatformPacked, HasPacked, Order
    <3>4. \A q \in ToSet(Platform.packs) : packs[q] = "packed"
      <4>1. Platform.packs \in Seq(Packs) /\ main.pack \in Nat
        BY <1>b, PlanTypes DEF MainStates
      <4>2. DOMAIN Platform.packs \subseteq 1 .. main.pack - 1
        BY <4>1, <3>3
      <4> QED
        BY <4>2, <3>3 DEF PacksStarted, ToSet
    <3>5. DOMAIN Plan = 1..Len(Plan) /\ Len(Plan) \in Nat /\ main.platform \in 1..Len(Plan)
      BY <1>b, PlanTypes
    <3>6. GoesOn' => \A i \in DOMAIN Plan : i <= main.platform => \A q \in ToSet(Plan[i].packs) : packs[q] = "packed"
      <4>1. ASSUME GoesOn', NEW i \in DOMAIN Plan, i <= main.platform PROVE \A q \in ToSet(Plan[i].packs) : packs[q] = "packed"
        <5>1. CASE i = main.platform
          BY <5>1, <3>4, <1>b
        <5>2. CASE i < main.platform
          BY <5>2, <4>1, <1>a, <1>c DEF Order, HasEnded
        <5> QED
          BY <5>1, <5>2, <4>1, <3>5
      <4> QED
        BY <4>1
    <3>7. CASE main'.step = "awaiting"
      BY <3>1, <3>2, <3>5, <3>6, <3>7 DEF Order
    <3>8. CASE main'.step = "packing"
      <4>1. main'.platform = main.platform + 1
        BY <3>2, <3>8
      <4>2. \A i \in DOMAIN Plan : i > main.platform => \A q \in ToSet(Plan[i].packs) : packs[q] = "new"
        BY <3>3, <1>a DEF Order
      <4>3. main.platform + 1 \in DOMAIN Plan /\ main.platform + 1 > main.platform
        BY <3>2, <3>5, <3>8
      <4>4. Platform' = Plan[main.platform + 1]
        BY <4>1 DEF Platform
      <4>5. \A k \in DOMAIN Plan[main.platform + 1].packs : packs[Plan[main.platform + 1].packs[k]] = "new"
        BY <4>2, <4>3, PlanTypes
      <4>6. \A i \in DOMAIN Plan : (i > main.platform + 1 => i > main.platform) /\ (i < main.platform + 1 => i <= main.platform)
        BY <3>5
      <4> QED
        BY <3>1, <3>2, <3>6, <3>8, <4>1, <4>2, <4>4, <4>5, <4>6 DEF Order, HasEnded
    <3> QED
      BY <3>2, <3>7, <3>8
  <2> QED
    BY <2>1, <2>2
<1>9. CASE AwaitTasks \/ EndRound
  <2>1. main.step = "awaiting" /\ main'.step \in {"awaiting", "rejected", "finishing"} /\ packs' = packs
    BY <1>9, <1>a, <1>b, Waits DEF MainStates
  <2> QED
    BY <2>1, <1>a, <1>c, OrderLater
<1>10. CASE FinishSyncTarget \/ EndInstaller \/ EndSyncTargets \/ EndBuild
  <2>1. main.step \in {"finishing", "finalizing"} /\ packs' = packs
    BY <1>10 DEF FinishSyncTarget, EndInstaller, EndSyncTargets, EndBuild
  <2>2. \/ main' = main \/ main' = [main EXCEPT !.syncTargets = Tail(@)]
        \/ \E s \in {"rejected", "finalizing", "resolved"} : main' = [main EXCEPT !.step = s]
    BY <1>10 DEF FinishSyncTarget, EndInstaller, EndSyncTargets, EndBuild
  <2>3. main'.step \in {"finishing", "finalizing", "rejected", "resolved"}
    BY <2>1, <2>2, <1>b DEF MainStates
  <2> QED
    BY <2>1, <2>3, <1>a, <1>c, OrderLater
<1>11. ASSUME NEW p \in Packs, Finalize(p) PROVE Order'
  BY <1>11, <1>a, OrderStays DEF Finalize
<1>12. CASE Cancel
  <2>1. main' = main /\ packs' = packs /\ ~GoesOn'
    BY <1>12 DEF Cancel, GoesOn
  <2> QED
    BY <2>1, <1>a DEF Order, Platform
<1>13. CASE UNCHANGED vars
  BY <1>13, <1>a, OrderStays DEF vars
<1> QED
  BY <1>1, <1>2, <1>3, <1>4, <1>5, <1>6, <1>7, <1>8, <1>9, <1>10, <1>11, <1>12, <1>13
     DEF Next, Main, PackStep, Ended

-----------------------------------------------------------------------------
(* Who reads and who writes the directories.                                *)

\* A step that packs nothing and touches neither groups nor work.
LEMMA ReadingStays ==
  ASSUME Types, Reading, \A p \in Packs : packs'[p] = "packed" <=> packs[p] = "packed",
         UNCHANGED <<groups, work, waits>>
  PROVE  Reading'
<1>1. \A w \in Work : ~IsInstaller(w) => w[1] \in Packs
  BY WorkShape DEF IsInstaller
<1>2. \A w \in Work : ~IsInstaller(w) => OnPack(w)'
  BY <1>1 DEF Reading, OnPack, Settled, IsWriter, IsImage, IsInstaller, TargetOf
<1>3. \A w \in Work : IsWriter(w) => Alone(w)'
  BY DEF Reading, Alone, IsWriter, IsArchive, TargetOf
<1>4. InstallersLast'
  BY DEF Reading, InstallersLast, Quiet, IsInstaller, TargetOf
<1>5. \A p \in Packs : packs'[p] # "packed" => groups'[p].at = "none"
  BY DEF Reading
<1> QED
  BY <1>2, <1>3, <1>4, <1>5 DEF Reading, IsInstaller, IsWriter, TargetOf

\* The parts of Reading, in the state after a step.
LEMMA ReadingAfter ==
  ASSUME \A p \in Packs : packs'[p] # "packed" => groups'[p].at = "none",
         \A w \in Work : ~IsInstaller(w) => OnPack(w)',
         \A w \in Work : IsWriter(w) => Alone(w)',
         InstallersLast'
  PROVE  Reading'
  BY DEF Reading, IsInstaller, IsWriter, TargetOf

\* A pack is packed, and its async targets are being built or are not.
LEMMA ReadingOfPack ==
  ASSUME IInv, NEW p \in Packs, FinishPack(p)
  PROVE  Reading'
<1>a. Types /\ Reading
  BY DEF IInv
<1> DEFINE i == PlatformOf(p)
           S == Plan[i].asyncTargets
<1>1. /\ packs[p] = "packing" /\ packs'[p] = "packed" /\ \A q \in Packs : q # p => packs'[q] = packs[q]
      /\ waits' = waits
  BY <1>a DEF FinishPack, Types
<1>2. i \in DOMAIN Plan /\ S \subseteq TargetsOf(i) \cap AsyncTargets /\ S \subseteq Archives \cup Images
  BY PlatformOfPack, PlanTypes, Kinds
<1>3. \/ BuildAsyncTargets(p, S)
      \/ UNCHANGED <<work, queues>>
  BY DEF FinishPack
<1>4. /\ groups'[p].at \in {"none", "images"} /\ \A q \in Packs : q # p => groups'[q] = groups[q]
  <2>1. groups[p].at = "none"
    BY <1>a, <1>1 DEF Reading
  <2>2. groups' = groups \/ groups' = [groups EXCEPT ![p] = [at |-> "images", targets |-> Plan[i].syncTargets]]
    BY DEF FinishPack
  <2> QED
    BY <2>1, <2>2, <1>a DEF Types
<1> HIDE DEF i, S
<1>5. ASSUME NEW w \in Work, ~(~IsInstaller(w) /\ w[1] = p /\ TargetOf(w) \in S) PROVE work'[w] = work[w]
  BY <1>3, <1>5, <1>2, <1>a, AsyncBuilds DEF i
<1>6. ASSUME NEW w \in Work, IsWriter(w) \/ IsInstaller(w) PROVE work'[w] = work[w]
  BY <1>5, <1>6, <1>2, Kinds DEF IsWriter, IsInstaller
<1>7. ASSUME NEW w \in Work, ~IsInstaller(w) PROVE OnPack(w)'
  <2>1. w[1] \in Packs
    BY <1>7, WorkShape DEF IsInstaller
  <2>2. CASE w[1] = p
    <3>1. IsWriter(w) => work'[w] = "new"
      BY <2>2, <1>6, <1>a, <1>1, <1>7 DEF Reading, OnPack
    <3> QED
      BY <2>2, <3>1, <1>1, <1>4 DEF OnPack, IsWriter, IsImage, TargetOf
  <2>3. CASE w[1] # p
    <3>1. work'[w] = work[w] /\ groups'[w[1]] = groups[w[1]] /\ packs'[w[1]] = packs[w[1]] /\ OnPack(w)
      BY <2>1, <2>3, <1>1, <1>4, <1>5, <1>7, <1>a DEF Reading
    <3> QED
      BY <3>1 DEF OnPack, IsWriter, IsImage, TargetOf, Settled
  <2> QED
    BY <2>2, <2>3
<1>8. ASSUME NEW w \in Work, IsWriter(w) PROVE Alone(w)'
  <2>1. ~IsInstaller(w) /\ w[1] \in Packs /\ work'[w] = work[w]
    BY <1>6, <1>8, WorkShape, Kinds DEF IsInstaller, IsWriter
  <2>2. CASE w[1] = p
    <3>1. work'[w] = "new"
      BY <2>1, <2>2, <1>a, <1>1, <1>8 DEF Reading, OnPack
    <3> QED
      BY <3>1 DEF Alone
  <2>3. CASE w[1] # p
    <3>1. \A v \in Work : v[1] = w[1] => work'[v] = work[v]
      BY <2>3, <1>5
    <3>2. Alone(w)
      BY <1>8, <1>a DEF Reading
    <3> QED
      BY <2>1, <3>1, <3>2, <1>1 DEF Alone, IsArchive, TargetOf
  <2> QED
    BY <2>2, <2>3
<1>9. InstallersLast'
  <2>1. ~Quiet
    BY <1>1 DEF Quiet
  <2>2. \A w \in Work : IsInstaller(w) => work'[w] = "new"
    BY <2>1, <1>6, <1>a DEF Reading, InstallersLast
  <2> QED
    BY <2>2 DEF InstallersLast, IsInstaller, TargetOf
<1>10. \A q \in Packs : packs'[q] # "packed" => groups'[q].at = "none"
  BY <1>a, <1>1, <1>4 DEF Reading
<1> QED
  BY <1>7, <1>8, <1>9, <1>10, ReadingAfter

\* A group moves on; no work on its directory changes.
LEMMA ReadingOfGroup ==
  ASSUME IInv, NEW p \in Packs, UNCHANGED <<packs, work, waits>>,
         \A q \in Packs : q # p => groups'[q] = groups[q],
         groups[p].at \in {"images", "syncs"}, groups'[p].at \in {"syncs", "ended"},
         \A w \in Work : ~IsInstaller(w) /\ w[1] = p =>
           /\ IsWriter(w) => work[w] \notin {"building", "waiting", "writing"}
           /\ IsImage(w) /\ groups'[p].at = "syncs" => Settled(w)
  PROVE  Reading'
<1>a. Types /\ Reading
  BY DEF IInv
<1>1. ASSUME NEW w \in Work, ~IsInstaller(w) PROVE OnPack(w)'
  <2>1. w[1] \in Packs /\ OnPack(w)
    BY <1>1, <1>a, WorkShape DEF IsInstaller, Reading
  <2>2. CASE w[1] = p
    BY <1>1, <2>1, <2>2 DEF OnPack, IsWriter, IsImage, IsInstaller, TargetOf, Settled
  <2>3. CASE w[1] # p
    BY <2>1, <2>3 DEF OnPack, IsWriter, IsImage, IsInstaller, TargetOf, Settled
  <2> QED
    BY <2>2, <2>3
<1>2. \A w \in Work : IsWriter(w) => Alone(w)'
  BY <1>a DEF Reading, Alone, IsWriter, IsArchive, TargetOf
<1>3. InstallersLast'
  BY <1>a DEF Reading, InstallersLast, Quiet, IsInstaller, TargetOf
<1>4. \A q \in Packs : packs'[q] # "packed" => groups'[q].at = "none"
  <2>1. packs[p] = "packed"
    BY <1>a DEF Reading
  <2> QED
    BY <2>1, <1>a DEF Reading
<1> QED
  BY <1>1, <1>2, <1>3, <1>4, ReadingAfter

\* One piece of work of a pack moves on.
LEMMA ReadingOfWork ==
  ASSUME IInv, NEW w \in Work, packs' = packs,
         \A v \in Work : v # w => work'[v] = work[v] /\ waits'[v] = waits[v],
         \A q \in Packs : groups'[q].at = groups[q].at \/ (groups[q].at = "syncs" /\ groups'[q].at = "ended"),
         \A q \in Packs : ~IsWriter(w) \/ q # w[1] => groups'[q] = groups[q],
         work[w] # "new" \/ (~IsInstaller(w) /\ packs[w[1]] = "packed"),
         ~IsInstaller(w) => OnPack(w)',
         IsWriter(w) => Alone(w)',
         IsArchive(w) => work'[w] # "working"
  PROVE  Reading'
<1>a. Types /\ Reading
  BY DEF IInv
<1>1. ASSUME NEW v \in Work, ~IsInstaller(v) PROVE OnPack(v)'
  <2>1. v[1] \in Packs /\ OnPack(v)
    BY <1>1, <1>a, WorkShape DEF IsInstaller, Reading
  <2>2. CASE v = w
    BY <2>2, <1>1
  <2>3. CASE v # w /\ groups'[v[1]] = groups[v[1]]
    BY <2>1, <2>3 DEF OnPack, IsWriter, IsImage, IsInstaller, TargetOf, Settled
  <2>4. CASE v # w /\ IsWriter(w) /\ v[1] = w[1]
    <3>1. ~IsWriter(v)
      BY <2>4, OneWriter
    <3>2. groups'[v[1]].at = groups[v[1]].at \/ (groups[v[1]].at = "syncs" /\ groups'[v[1]].at = "ended")
      BY <2>1
    <3> QED
      BY <2>1, <2>4, <3>1, <3>2 DEF OnPack, IsWriter, IsImage, IsInstaller, TargetOf, Settled
  <2> QED
    BY <2>1, <2>2, <2>3, <2>4
<1>2. ASSUME NEW v \in Work, IsWriter(v) PROVE Alone(v)'
  <2>1. CASE v = w
    BY <2>1, <1>2
  <2>2. CASE v # w
    <3>1. \A u \in Work : IsArchive(u) /\ work'[u] = "working" => work[u] = "working"
      OBVIOUS
    <3>2. Alone(v) /\ work'[v] = work[v] /\ waits'[v] = waits[v]
      BY <1>2, <1>a, <2>2 DEF Reading
    <3> QED
      BY <3>1, <3>2 DEF Alone, IsArchive, IsWriter, TargetOf
  <2> QED
    BY <2>1, <2>2
<1>3. InstallersLast'
  <2>1. \A v \in Work : IsInstaller(v) /\ work'[v] # "new" => work[v] # "new"
    OBVIOUS
  <2>2. Quiet => Quiet'
    BY DEF Quiet
  <2> QED
    BY <2>1, <2>2, <1>a DEF Reading, InstallersLast, IsInstaller, TargetOf
<1>4. \A q \in Packs : packs'[q] # "packed" => groups'[q].at = "none"
  BY <1>a DEF Reading
<1> QED
  BY <1>1, <1>2, <1>3, <1>4, ReadingAfter

\* When doBuild has seen its tasks end, in a build that goes on, everything was built but what the
\* queues of the writers still do.
LEMMA AllBuilt ==
  ASSUME IInv, GoesOn, IsPastTasks
  PROVE  /\ pending = {} /\ manager.errors = {}
         /\ Quiet
         /\ \A w \in Work : IsArchive(w) \/ IsImage(w) => work[w] = "done"
         /\ \A w \in Work : IsWriter(w) =>
              work[w] \in {"working", "done"} \/ (work[w] = "failed" /\ queues[TargetOf(w)].errors # {})
<1>a. Types /\ Order /\ Reading /\ Listening /\ Tracking /\ Finishing
  BY DEF IInv
<1>1. pending = {} /\ manager.errors = {}
  BY <1>a DEF Listening
<1>2. \A i : HasEnded(i)
  BY DEF IsPastTasks, HasEnded
<1>3. \A p \in Packs : packs[p] = "packed"
  BY <1>a, <1>2, PlatformOfPack DEF Order
<1>4. \A p \in Packs : groups[p].at \notin {"images", "syncs"}
  BY <1>a, <1>1 DEF Tracking, Grouped
<1>5. ASSUME NEW w \in Work, IsArchive(w) PROVE work[w] = "done"
  <2>1. TargetOf(w) \in Archives /\ TargetOf(w) \in Targets
    BY <1>5, Kinds DEF IsArchive
  <2>2. PICK i \in DOMAIN Plan : TargetOf(w) \in Plan[i].asyncTargets
    BY <2>1, PlatformOfTarget, PlanTypes, Kinds
  <2>3. finishing[TargetOf(w)] = NoWait
    BY <1>a, <1>1, <1>2, <2>2 DEF Finishing
  <2>4. IsDone(TargetOf(w))
    BY <1>a, <1>1, <1>2, <2>1, <2>2, <2>3 DEF Finishing
  <2> QED
    BY <2>4 DEF IsDone
<1>6. ASSUME NEW w \in Work, IsImage(w) PROVE work[w] = "done"
  <2>1. w[1] \in Packs /\ work[w] \in {"new", "building", "done", "failed"}
    BY <1>6, <1>a, WorkShape, StatesAre, Kinds DEF IsImage, Types
  <2>2. Imaged(w)
    BY <1>6, <1>a DEF Tracking
  <2> QED
    BY <2>1, <2>2, <1>1, <1>3, <1>4 DEF Imaged
<1>7. ASSUME NEW w \in Work, IsWriter(w)
      PROVE  work[w] \in {"working", "done"} \/ (work[w] = "failed" /\ queues[TargetOf(w)].errors # {})
  <2>1. w[1] \in Packs /\ work[w] \in WorkSteps /\ ~IsInstaller(w)
    BY <1>7, <1>a, WorkShape, StatesAre, Kinds DEF IsWriter, IsInstaller, Types
  <2>2. work[w] \notin {"building", "waiting", "writing"}
    BY <1>7, <2>1, <1>a, <1>4 DEF Reading, OnPack
  <2>3. work[w] # "new"
    <3>1. work[w] = "new" => groups[w[1]].at # "none" /\ TargetOf(w) \in ToSet(groups[w[1]].targets)
      BY <1>7, <1>a, <1>3, <2>1 DEF Tracking, Written
    <3>2. groups[w[1]].at \in {"none", "ended"}
      BY <1>4, <2>1, <1>a DEF Types, GroupStates
    <3>3. groups[w[1]].at = "ended" => groups[w[1]].targets = <<>>
      BY <1>a, <1>1, <2>1 DEF Tracking, Grouped
    <3>4. ToSet(<<>>) = {}
      BY DEF ToSet
    <3> QED
      BY <3>1, <3>2, <3>3, <3>4
  <2>4. work[w] = "failed" => queues[TargetOf(w)].errors # {}
    BY <1>7, <1>a, <1>1 DEF Tracking, Queued
  <2> QED
    BY <2>1, <2>2, <2>3, <2>4 DEF WorkSteps
<1> QED
  BY <1>1, <1>3, <1>4, <1>5, <1>6, <1>7 DEF Quiet

\* Every step keeps readers and writers of a directory apart.
LEMMA NextReading == IInv /\ [Next]_vars => Reading'
<1> SUFFICES ASSUME IInv, [Next]_vars PROVE Reading'
  OBVIOUS
<1> USE DEF tasks, works, packing, ending
<1>a. Types /\ Order /\ Reading /\ Listening /\ Tracking /\ Finishing
  BY DEF IInv
<1>b. main \in MainStates /\ main.platform \in DOMAIN Plan /\ Platform = Plan[main.platform]
  BY <1>a DEF Types, MainStates, Platform
<1>1. CASE StartPack
  <2>1. Platform.packs \in Seq(Packs) /\ main.pack \in DOMAIN Platform.packs /\ main.step = "packing"
    BY <1>1, <1>b, PlanTypes DEF StartPack, MainStates
  <2> DEFINE p == Platform.packs[main.pack]
  <2>2. p \in Packs /\ packs[p] = "new" /\ packs' = [packs EXCEPT ![p] = "packing"]
    BY <1>1, <1>a, <1>b, <2>1 DEF StartPack, Order, MainStates
  <2> HIDE DEF p
  <2>3. \A q \in Packs : packs'[q] = "packed" <=> packs[q] = "packed"
    BY <2>2, <1>a DEF Types
  <2> QED
    BY <1>1, <1>a, <2>3, ReadingStays DEF StartPack
<1>2. ASSUME NEW p \in Packs, FinishPack(p) PROVE Reading'
  BY <1>2, ReadingOfPack
<1>3. ASSUME NEW p \in Packs, PackFails(p) PROVE Reading'
  <2>1. \A q \in Packs : packs'[q] = "packed" <=> packs[q] = "packed"
    BY <1>3, <1>a DEF Types, PackFails
  <2> QED
    BY <1>3, <1>a, <2>1, ReadingStays DEF PackFails
<1>4. ASSUME NEW p \in Packs, EndImages(p) PROVE Reading'
  <2>1. groups[p].at = "images" /\ UNCHANGED <<packs, work, waits>>
    BY <1>4 DEF EndImages
  <2>2. /\ \A q \in Packs : q # p => groups'[q] = groups[q]
        /\ groups'[p].at \in {"syncs", "ended"}
    <3>1. CASE SettleGroup(p, FALSE)
      BY <3>1, <1>a, GroupSettles
    <3>2. CASE groups' = [groups EXCEPT ![p].at = "syncs"]
      BY <3>2, <1>a DEF Types, GroupStates
    <3> QED
      BY <1>4, <3>1, <3>2 DEF EndImages
  <2>3. ASSUME NEW w \in Work, ~IsInstaller(w), w[1] = p
        PROVE  /\ IsWriter(w) => work[w] \notin {"building", "waiting", "writing"}
               /\ IsImage(w) => Settled(w)
    <3>1. OnPack(w) /\ w = <<p, TargetOf(w)>>
      BY <2>3, <1>a, WorkShape DEF Reading, IsInstaller
    <3> QED
      BY <2>1, <2>3, <3>1, <1>4 DEF OnPack, EndImages, IsImage
  <2> QED
    BY <2>1, <2>2, <2>3, ReadingOfGroup
<1>5. ASSUME NEW p \in Packs, BuildSyncTarget(p) PROVE Reading'
  <2>t. PICK t : t = Head(groups[p].targets)
    OBVIOUS
  <2>1. /\ groups[p].at = "syncs" /\ groups[p].targets # <<>> /\ UNCHANGED <<packs, waits>>
        /\ t \in Writers => work[<<p, t>>] = "new"
    BY <1>5, <2>t DEF BuildSyncTarget
  <2>2. CASE groups' = [groups EXCEPT ![p].targets = Tail(@)] /\ UNCHANGED work
    <3>1. ASSUME NEW w \in Work, ~IsInstaller(w), w[1] = p
          PROVE  /\ IsWriter(w) => work[w] \notin {"building", "waiting", "writing"}
                 /\ IsImage(w) => Settled(w)
      <4>1. OnPack(w) /\ w = <<p, TargetOf(w)>>
        BY <3>1, <1>a, WorkShape DEF Reading, IsInstaller
      <4> QED
        BY <2>t, <2>1, <3>1, <4>1 DEF OnPack, IsWriter
    <3> QED
      BY <1>a, <2>1, <2>2, <3>1, GroupGoesOn, ReadingOfGroup
  <2>3. CASE work' = [work EXCEPT ![<<p, t>>] = "building"] /\ UNCHANGED groups /\ t \notin Installers
    <3>1. t \in Writers
      <4>1. groups[p].targets \in Seq(Writers \cup Installers) /\ groups[p].targets # <<>>
        BY <2>1, <1>a DEF Types, GroupStates
      <4> QED
        BY <4>1, <2>3, <2>t, TailOf
    <3>2. TargetOf(<<p, t>>) = t /\ <<p, t>>[1] = p
      BY DEF TargetOf, Last
    <3> DEFINE w == <<p, t>>
    <3>3. IsWriter(w) /\ ~IsInstaller(w) /\ ~IsArchive(w) /\ ~IsImage(w) /\ w[1] = p /\ TargetOf(w) = t
      BY <3>1, <3>2, Kinds DEF IsWriter, IsInstaller, IsArchive, IsImage
    <3> HIDE DEF w
    <3>4. work' = [work EXCEPT ![w] = "building"]
      BY <2>3 DEF w
    <3>5. CASE w \in Work
      <4>1. work'[w] = "building" /\ \A v \in Work : v # w => work'[v] = work[v]
        BY <3>4, <3>5, <1>a DEF Types
      <4>2. packs[p] = "packed"
        BY <2>1, <1>a DEF Reading
      <4>3. OnPack(w)'
        BY <3>3, <4>1, <4>2, <2>1, <2>3, <2>t DEF OnPack, IsWriter, IsImage, TargetOf
      <4>4. Alone(w)'
        BY <4>1 DEF Alone
      <4> QED
        BY <2>1, <2>3, <3>3, <3>5, <4>1, <4>2, <4>3, <4>4, ReadingOfWork
    <3>6. CASE w \notin Work
      <4>1. work' = work
        BY <3>4, <3>6, <1>a DEF Types
      <4> QED
        BY <4>1, <2>1, <2>3, <1>a, ReadingStays
    <3> QED
      BY <3>5, <3>6
  <2> QED
    BY <1>5, <2>t, <2>2, <2>3 DEF BuildSyncTarget
<1>6. ASSUME NEW p \in Packs, EndGroup(p) PROVE Reading'
  <2>1. groups[p].at = "syncs" /\ groups[p].targets = <<>> /\ UNCHANGED <<packs, work, waits>> /\ SettleGroup(p, TRUE)
    BY <1>6 DEF EndGroup
  <2>2. ASSUME NEW w \in Work, ~IsInstaller(w), w[1] = p, IsWriter(w)
        PROVE  work[w] \notin {"building", "waiting", "writing"}
    BY <2>1, <2>2, <1>a DEF Reading, OnPack
  <2> QED
    BY <2>1, <2>2, <1>a, GroupSettles, ReadingOfGroup
<1>7. ASSUME NEW w \in Work, WaitForPackWork(w) \/ StartWriting(w) PROVE Reading'
  <2>1. /\ IsWriter(w) /\ work[w] \in {"building", "waiting"} /\ work'[w] \in {"waiting", "writing"}
        /\ \A v \in Work : v # w => work'[v] = work[v] /\ waits'[v] = waits[v]
        /\ UNCHANGED <<packs, groups>>
    <3>1. CASE WaitForPackWork(w)
      BY <3>1, <1>a DEF WaitForPackWork, Types, IsWriter
    <3>2. CASE StartWriting(w)
      <4>1. IsWriter(w)
        BY <3>2, <1>a, StatesAre DEF StartWriting, Types
      <4> QED
        BY <3>2, <4>1, <1>a DEF StartWriting, Types
    <3> QED
      BY <1>7, <3>1, <3>2
  <2>2. ~IsInstaller(w) /\ ~IsArchive(w) /\ ~IsImage(w) /\ w[1] \in Packs
    BY <2>1, WorkShape, Kinds DEF IsInstaller, IsArchive, IsImage, IsWriter
  <2>3. OnPack(w) /\ Alone(w)
    BY <2>1, <2>2, <1>a DEF Reading
  <2>4. groups[w[1]].at = "syncs" /\ packs[w[1]] = "packed"
    BY <2>1, <2>2, <2>3, <1>a DEF OnPack, Reading
  <2>5. OnPack(w)'
    BY <2>1, <2>2, <2>3, <2>4 DEF OnPack, IsWriter, IsImage, TargetOf
  <2>6. Alone(w)'
    <3>1. CASE WaitForPackWork(w)
      <4>1. waits'[w] = Tracked(w) /\ work'[w] = "waiting"
        BY <3>1, <1>a DEF WaitForPackWork, Types
      <4>2. \A v \in Work : IsArchive(v) /\ work'[v] = "working" => work[v] = "working"
        BY <2>1, <2>2
      <4> QED
        BY <4>1, <4>2 DEF Alone, Tracked, IsArchive, TargetOf
    <3>2. CASE StartWriting(w)
      <4>1. work[w] = "waiting" /\ \A v \in waits[w] : Settled(v)
        BY <3>2 DEF StartWriting
      <4>2. \A v \in Work : IsArchive(v) /\ v[1] = w[1] => work[v] # "working"
        BY <4>1, <2>3 DEF Alone, Settled
      <4>3. \A v \in Work : IsArchive(v) /\ v[1] = w[1] => work'[v] # "working"
        BY <4>2, <2>1, <2>2
      <4> QED
        BY <4>3 DEF Alone, IsArchive, TargetOf
    <3> QED
      BY <1>7, <3>1, <3>2
  <2>7. \A q \in Packs : groups'[q] = groups[q]
    BY <2>1
  <2> QED
    BY <2>1, <2>2, <2>4, <2>5, <2>6, <2>7, ReadingOfWork
<1>8. ASSUME NEW w \in Work, EndWriting(w) PROVE Reading'
  <2>1. UNCHANGED <<packs, waits>> /\ work[w] = "writing"
    BY <1>8 DEF EndWriting
  <2>2. /\ IsWriter(w) /\ w[1] \in Packs /\ groups[w[1]].at = "syncs" /\ groups'[w[1]].at = "syncs"
        /\ work'[w] = "working" /\ \A v \in Work : v # w => work'[v] = work[v]
        /\ \A q \in Packs : q # w[1] => groups'[q] = groups[q]
    BY <1>8, <1>a, WriterQueues
  <2>3. ~IsInstaller(w) /\ ~IsArchive(w) /\ ~IsImage(w)
    BY <2>2, Kinds DEF IsInstaller, IsArchive, IsImage, IsWriter
  <2>4. packs[w[1]] = "packed"
    BY <2>2, <1>a DEF Reading
  <2>5. OnPack(w)' /\ Alone(w)'
    BY <2>1, <2>2, <2>3, <2>4 DEF OnPack, Alone, IsWriter, IsImage, TargetOf
  <2> QED
    BY <2>1, <2>2, <2>3, <2>4, <2>5, ReadingOfWork
<1>9. ASSUME NEW w \in Work, WriterFails(w) PROVE Reading'
  <2>1. IsWriter(w) /\ work[w] \in {"building", "writing"} /\ UNCHANGED <<packs, waits>> /\ SettleGroup(w[1], FALSE)
        /\ work' = [work EXCEPT ![w] = "failed"]
    BY <1>9 DEF WriterFails, IsWriter
  <2>2. ~IsInstaller(w) /\ ~IsArchive(w) /\ ~IsImage(w) /\ w[1] \in Packs
    BY <2>1, WorkShape, Kinds DEF IsInstaller, IsArchive, IsImage, IsWriter
  <2>3. work'[w] = "failed" /\ \A v \in Work : v # w => work'[v] = work[v]
    BY <2>1, <1>a DEF Types
  <2>4. groups[w[1]].at = "syncs" /\ packs[w[1]] = "packed"
    BY <2>1, <2>2, <1>a DEF OnPack, Reading
  <2>5. groups'[w[1]].at = "ended" /\ \A q \in Packs : q # w[1] => groups'[q] = groups[q]
    BY <2>1, <2>2, <1>a, GroupSettles
  <2>6. OnPack(w)'
    BY <2>1, <2>2, <2>3, <2>4, <2>5 DEF OnPack, IsWriter, IsImage, TargetOf
  <2>7. Alone(w)'
    BY <2>3 DEF Alone
  <2> QED
    BY <2>1, <2>2, <2>3, <2>4, <2>5, <2>6, <2>7, ReadingOfWork
<1>10. ASSUME NEW w \in Work, EndWork(w) \/ WorkFails(w) PROVE Reading'
  <2>1. /\ IsReading(w) /\ UNCHANGED <<packs, groups, waits>>
        /\ \E isOk \in BOOLEAN : SettleWork(w, isOk)
    BY <1>10 DEF EndWork, WorkFails
  <2>2. work'[w] \in {"done", "failed"} /\ \A v \in Work : v # w => work'[v] = work[v]
    BY <2>1, <1>a, WorkSettles
  <2>3. work[w] \in {"working", "building"}
    BY <2>1 DEF IsReading
  <2>4. ~IsInstaller(w) => OnPack(w)'
    <3>1. ~IsInstaller(w) => packs[w[1]] = "packed"
      BY <2>3, <1>a DEF Reading, OnPack
    <3>2. IsWriter(w) => groups[w[1]].at \notin {"none", "images"}
      BY <2>3, <1>a, Kinds DEF Reading, OnPack, IsWriter, IsInstaller
    <3> QED
      BY <2>1, <2>2, <3>1, <3>2 DEF OnPack, Settled, IsWriter, TargetOf
  <2>5. Alone(w)'
    BY <2>2 DEF Alone
  <2> QED
    BY <2>1, <2>2, <2>3, <2>4, <2>5, ReadingOfWork
<1>11. ASSUME NEW t \in Targets, EndFinish(t) PROVE Reading'
  BY <1>11, <1>a, ReadingStays DEF EndFinish
<1>12. CASE FinishSyncTarget
  <2> DEFINE t == Head(main.syncTargets)
  <2>1. UNCHANGED <<packs, groups, waits>> /\ GoesOn /\ IsPastTasks
    BY <1>12 DEF FinishSyncTarget, GoesOn, IsPastTasks
  <2>2. CASE work' = work
    BY <2>1, <2>2, <1>a, ReadingStays
  <2>3. CASE t \in Installers /\ work' = [work EXCEPT ![<<t>>] = "working"]
    <3>1. <<t>> \in Work /\ IsInstaller(<<t>>)
      BY <2>3, InstallerWork DEF IsInstaller
    <3> DEFINE w == <<t>>
    <3>2. w \in Work /\ IsInstaller(w) /\ work' = [work EXCEPT ![w] = "working"]
      BY <2>3, <3>1
    <3> HIDE DEF w
    <3>3. \A v \in Work : v # w => work'[v] = work[v]
      BY <3>2, <1>a DEF Types
    <3>4. Quiet /\ Quiet'
      BY <2>1, AllBuilt DEF Quiet
    <3>5. ASSUME NEW v \in Work, ~IsInstaller(v) PROVE OnPack(v)'
      <4>1. v # w /\ OnPack(v)
        BY <3>2, <3>5, <1>a DEF Reading
      <4> QED
        BY <4>1, <2>1, <3>3 DEF OnPack, IsWriter, IsImage, TargetOf, Settled
    <3>6. ASSUME NEW v \in Work, IsWriter(v) PROVE Alone(v)'
      <4>1. v # w /\ \A u \in Work : IsArchive(u) => u # w
        BY <3>2, <3>6, Kinds DEF IsWriter, IsInstaller, IsArchive
      <4>2. Alone(v)
        BY <3>6, <1>a DEF Reading
      <4> QED
        BY <4>1, <4>2, <2>1, <3>3 DEF Alone, IsArchive, TargetOf
    <3>7. \A p \in Packs : packs'[p] # "packed" => groups'[p].at = "none"
      BY <1>a, <2>1 DEF Reading
    <3> QED
      BY <3>4, <3>5, <3>6, <3>7, ReadingAfter DEF InstallersLast
  <2> QED
    BY <1>12, <2>2, <2>3 DEF FinishSyncTarget
<1>13. CASE \/ BuildFails \/ StartPool \/ EndPlatform \/ AwaitTasks \/ EndRound \/ EndInstaller \/ EndSyncTargets
            \/ (\E p \in Packs : Finalize(p)) \/ EndBuild \/ Cancel \/ UNCHANGED vars
  <2>1. UNCHANGED <<packs, groups, work, waits>>
    BY <1>13 DEF BuildFails, Rejects, StartPool, EndPlatform, AwaitTasks, EndRound, ContinueWait, EndInstaller,
                 EndSyncTargets, Finalize, EndBuild, Cancel, vars
  <2> QED
    BY <2>1, <1>a, ReadingStays
<1> QED
  BY <1>1, <1>2, <1>3, <1>4, <1>5, <1>6, <1>7, <1>8, <1>9, <1>10, <1>11, <1>12, <1>13
     DEF Next, Main, PackStep, WorkStep, Ended

-----------------------------------------------------------------------------
(* What packAll's task manager listens to.                                  *)

\* A step in which no promise is added, and none is heard that has settled before.
LEMMA ListeningStays ==
  ASSUME Listening, UNCHANGED <<main, cancelled, round>>,
         pending' \subseteq pending, manager'.tasks = manager.tasks,
         pending = {} => manager'.errors = manager.errors
  PROVE  Listening'
  BY DEF Listening, GoesOn, IsPastTasks, Awaited

\* A step of doBuild that leaves the tasks alone.
LEMMA ListeningLater ==
  ASSUME Listening, UNCHANGED <<manager, pending, round>>, main.step # "awaiting", main'.step # "awaiting",
         GoesOn' => GoesOn /\ (main'.step \in {"finishing", "finalizing", "resolved"} <=> IsPastTasks)
  PROVE  Listening'
  BY DEF Listening, IsPastTasks, Awaited

\* Every step keeps what packAll's task manager was handed awaited.
LEMMA NextListening == IInv /\ [Next]_vars => Listening'
<1> SUFFICES ASSUME IInv, [Next]_vars PROVE Listening'
  OBVIOUS
<1> USE DEF tasks, works, packing, ending
<1>a. Types /\ Order /\ Reading /\ Listening /\ Tracking /\ Finishing
  BY DEF IInv
<1>b. main \in MainStates /\ manager \in Managers(Tasks) /\ pending \in SUBSET Tasks
  BY <1>a DEF Types
<1>c. GoesOn' => GoesOn
  BY GoesOnBefore
<1>1. ASSUME NEW p \in Packs, FinishPack(p) PROVE Listening'
  <2>1. packs[p] = "packing" /\ UNCHANGED <<main, cancelled, round>>
    BY <1>1 DEF FinishPack
  <2>2. ASSUME GoesOn PROVE ~IsPastTasks
    <3>1. PlatformOf(p) \in DOMAIN Plan /\ p \in ToSet(Plan[PlatformOf(p)].packs)
      BY PlatformOfPack
    <3>2. ~HasEnded(PlatformOf(p))
      BY <2>1, <2>2, <3>1, <1>a DEF Order
    <3> QED
      BY <3>2 DEF HasEnded, IsPastTasks
  <2>3. CASE UNCHANGED <<manager, pending>>
    BY <2>1, <2>3, <1>a, ListeningStays
  <2>4. ASSUME NEW S \in SUBSET Tasks, Add(S) PROVE Listening'
    <3>1. /\ pending' \subseteq pending \cup S
          /\ ~cancelled => manager'.tasks = manager.tasks \cup S
      BY <2>4, <1>b, Added
    <3> QED
      BY <2>1, <2>2, <3>1, <1>a DEF Listening, GoesOn, IsPastTasks, Awaited
  <2>5. {<<p, t>> : t \in Plan[PlatformOf(p)].asyncTargets \cap Images} \in SUBSET Tasks /\ {<<"group", p>>} \in SUBSET Tasks
    BY PlatformOfPack, PlanTypes, PackWork, Kinds, TaskKinds
  <2> QED
    BY <1>1, <2>3, <2>4, <2>5 DEF FinishPack
<1>2. ASSUME NEW p \in Packs, EndImages(p) \/ EndGroup(p) PROVE Listening'
  <2>1. UNCHANGED <<main, cancelled, round>>
    BY <1>2 DEF EndImages, EndGroup
  <2>2. UNCHANGED <<manager, pending>> \/ SettleGroup(p, TRUE) \/ SettleGroup(p, FALSE)
    BY <1>2 DEF EndImages, EndGroup
  <2>3. pending' \subseteq pending /\ manager'.tasks = manager.tasks /\ (pending = {} => manager'.errors = manager.errors)
    BY <2>2, <1>a, GroupSettles
  <2> QED
    BY <2>1, <2>3, <1>a, ListeningStays
<1>3. ASSUME NEW w \in Work, WriterFails(w) PROVE Listening'
  <2>1. SettleGroup(w[1], FALSE) /\ UNCHANGED <<main, cancelled, round>> /\ w[1] \in Packs
    BY <1>3, WorkShape, Kinds DEF WriterFails
  <2>2. pending' \subseteq pending /\ manager'.tasks = manager.tasks /\ (pending = {} => manager'.errors = manager.errors)
    BY <2>1, <1>a, GroupSettles
  <2> QED
    BY <2>1, <2>2, <1>a, ListeningStays
<1>4. ASSUME NEW w \in Work, EndWork(w) \/ WorkFails(w) PROVE Listening'
  <2>1. UNCHANGED <<main, cancelled, round>> /\ (SettleWork(w, TRUE) \/ SettleWork(w, FALSE))
    BY <1>4 DEF EndWork, WorkFails
  <2>2. pending' \subseteq pending /\ manager'.tasks = manager.tasks /\ (pending = {} => manager'.errors = manager.errors)
    BY <2>1, <1>a, WorkSettles
  <2> QED
    BY <2>1, <2>2, <1>a, ListeningStays
<1>5. ASSUME NEW t \in Targets, EndFinish(t) PROVE Listening'
  <2>1. UNCHANGED <<cancelled, round>>
    BY <1>5 DEF EndFinish
  <2>2. CASE UNCHANGED <<manager, pending, main>>
    BY <2>1, <2>2, <1>a, ListeningStays
  <2>3. CASE UNCHANGED main /\ Settle(<<"finish", t>>, queues[t].errors = {})
    <3>1. pending' \subseteq pending /\ manager'.tasks = manager.tasks /\ (pending = {} => manager'.errors = manager.errors)
      BY <2>3, <1>b, SettledTask
    <3> QED
      BY <2>1, <2>3, <3>1, <1>a, ListeningStays
  <2>4. CASE /\ UNCHANGED <<manager, pending>> /\ main.step = "finishing" /\ main.syncTargets # <<>>
             /\ \/ main' = [main EXCEPT !.syncTargets = Tail(@)]
                \/ main' = [main EXCEPT !.step = "rejected"]
    <3>1. main'.step = "finishing" \/ (main'.step = "rejected" /\ ~GoesOn')
      BY <2>4, <1>a, <1>b, MainTakesNext DEF MainStates, GoesOn
    <3> QED
      BY <2>1, <2>4, <3>1, <1>a, <1>c, ListeningLater DEF IsPastTasks
  <2> QED
    BY <1>5, <1>a, <2>2, <2>3, <2>4, Finished
<1>6. CASE AwaitTasks \/ EndRound
  <2>1. /\ main.step = "awaiting" /\ manager'.tasks = {} /\ manager'.errors = manager.errors
        /\ UNCHANGED <<cancelled, pending>> /\ Awaited \cap pending = {}
        /\ \/ round' = manager.tasks /\ main' = [main EXCEPT !.step = "awaiting"]
           \/ /\ round' = NoWait
              /\ \/ main' = [main EXCEPT !.step = "rejected"]
                 \/ cancelled /\ main' = [main EXCEPT !.step = "finishing"]
                 \/ /\ main' = [main EXCEPT !.step = "finishing"]
                    /\ manager.errors = {} /\ manager.tasks = {}
    BY <1>6, <1>a, Waits
  <2>2. GoesOn => pending \subseteq manager.tasks
    BY <2>1, <1>a DEF Listening, IsPastTasks
  <2>3. CASE round' = manager.tasks /\ main' = [main EXCEPT !.step = "awaiting"]
    <3>1. main'.step = "awaiting"
      BY <2>3, <1>b DEF MainStates
    <3>2. manager.tasks # NoWait
      BY <1>b, ManagerMethods, NoWaitIsNoSet
    <3>3. Awaited' = manager.tasks
      BY <2>3, <3>2 DEF Awaited
    <3> QED
      BY <2>1, <2>2, <3>1, <3>3, <1>c DEF Listening, IsPastTasks
  <2>4. CASE round' = NoWait /\ main' = [main EXCEPT !.step = "rejected"]
    <3>1. main'.step = "rejected"
      BY <2>4, <1>b DEF MainStates
    <3> QED
      BY <2>4, <3>1 DEF Listening, GoesOn
  <2>5. CASE round' = NoWait /\ cancelled
    BY <2>1, <2>5 DEF Listening, GoesOn
  <2>6. CASE round' = NoWait /\ main' = [main EXCEPT !.step = "finishing"] /\ manager.errors = {} /\ manager.tasks = {}
    <3>1. main'.step = "finishing"
      BY <2>6, <1>b DEF MainStates
    <3> QED
      BY <2>1, <2>2, <2>6, <3>1, <1>c DEF Listening, IsPastTasks
  <2> QED
    BY <2>1, <2>3, <2>4, <2>5, <2>6
<1>7. CASE EndPlatform
  <2>1. main.step \in {"packing", "pooling"} /\ round = NoWait /\ round' = round /\ cancelled' = cancelled
    BY <1>7, <1>a DEF EndPlatform, IsPlatformPacked, Listening
  <2>2. CASE cancelled
    BY <2>1, <2>2 DEF Listening, GoesOn
  <2>3. CASE ~cancelled
    <3>1. main'.step \in {"awaiting", "packing"}
      BY <1>7, <2>3, <1>a, PlatformEnds
    <3>2. FinishAsyncTargets(Platform.asyncTargets) /\ Platform.asyncTargets \subseteq AsyncTargets
      BY <1>7, <2>3, <1>b, PlanTypes DEF EndPlatform, Platform, MainStates
    <3>3. pending' \ pending \subseteq manager'.tasks /\ manager.tasks \subseteq manager'.tasks
      BY <3>2, <1>a, AsyncFinishes
    <3>4. GoesOn => pending \subseteq manager.tasks
      BY <2>1, <1>a DEF Listening, IsPastTasks, Awaited
    <3> QED
      BY <2>1, <3>1, <3>3, <3>4, <1>c DEF Listening, IsPastTasks
  <2> QED
    BY <2>2, <2>3
<1>8. CASE StartPack \/ StartPool \/ BuildFails
  <2>1. UNCHANGED <<manager, pending, round>> /\ main.step \in {"packing", "pooling"}
    BY <1>8 DEF StartPack, StartPool, BuildFails, Rejects
  <2>2. main'.step \in {"packing", "pooling"} \/ (main'.step = "rejected" /\ ~GoesOn')
    BY <1>8, <1>b DEF StartPack, StartPool, BuildFails, Rejects, MainStates, GoesOn
  <2> QED
    BY <2>1, <2>2, <1>a, <1>c, ListeningLater DEF IsPastTasks
<1>9. CASE FinishSyncTarget \/ EndInstaller \/ EndSyncTargets \/ EndBuild
  <2>1. UNCHANGED <<manager, pending, round>> /\ main.step \in {"finishing", "finalizing"}
    BY <1>9 DEF FinishSyncTarget, EndInstaller, EndSyncTargets, EndBuild
  <2>2. \/ main' = main \/ main' = [main EXCEPT !.syncTargets = Tail(@)]
        \/ \E s \in {"rejected", "finalizing", "resolved"} : main' = [main EXCEPT !.step = s]
    BY <1>9 DEF FinishSyncTarget, EndInstaller, EndSyncTargets, EndBuild
  <2>3. main'.step \in {"finishing", "finalizing", "resolved"} \/ (main'.step = "rejected" /\ ~GoesOn')
    BY <2>1, <2>2, <1>b DEF MainStates, GoesOn
  <2> QED
    BY <2>1, <2>3, <1>a, <1>c, ListeningLater DEF IsPastTasks
<1>10. CASE Cancel
  <2>1. UNCHANGED <<main, round>> /\ ~GoesOn'
    BY <1>10 DEF Cancel, GoesOn
  <2> QED
    BY <2>1, <1>a DEF Listening
<1>11. CASE \/ \E p \in Packs : PackFails(p) \/ BuildSyncTarget(p) \/ Finalize(p)
            \/ \E w \in Work : WaitForPackWork(w) \/ StartWriting(w) \/ EndWriting(w)
            \/ UNCHANGED vars
  <2>1. UNCHANGED <<main, cancelled, round, pending, manager>>
    BY <1>11 DEF PackFails, BuildSyncTarget, Finalize, WaitForPackWork, StartWriting, EndWriting, vars
  <2> QED
    BY <2>1, <1>a, ListeningStays
<1> QED
  BY <1>1, <1>2, <1>3, <1>4, <1>5, <1>6, <1>7, <1>8, <1>9, <1>10, <1>11
     DEF Next, Main, PackStep, WorkStep, Ended

-----------------------------------------------------------------------------
(* Which steps change what.                                                 *)

\* A pack is packed when its pack() has finished.
LEMMA PacksMove ==
  ASSUME IInv, [Next]_vars, NEW p \in Packs, packs[p] # "packed", packs'[p] = "packed"
  PROVE  FinishPack(p)
<1>a. packs \in [Packs -> {"new", "packing", "packed", "failed"}] /\ main \in MainStates
  BY DEF IInv, Types
<1> USE DEF tasks, works, packing, ending
<1>1. ASSUME StartPack PROVE FALSE
  <2>1. Platform.packs \in Seq(Packs) /\ main.pack \in DOMAIN Platform.packs
    BY <1>1, <1>a, PlanTypes DEF StartPack, MainStates, Platform
  <2>2. Platform.packs[main.pack] \in Packs
    BY <2>1
  <2> QED
    BY <1>1, <1>a, <2>2 DEF StartPack
<1>2. \A q \in Packs : FinishPack(q) => q = p
  BY <1>a DEF FinishPack
<1>3. \A q \in Packs : ~PackFails(q)
  BY <1>a DEF PackFails
<1>4. \A q \in Packs : ~EndImages(q) /\ ~BuildSyncTarget(q) /\ ~EndGroup(q)
  BY DEF EndImages, BuildSyncTarget, EndGroup
<1>5. \A w \in Work : ~WorkStep(w)
  BY DEF WorkStep, WaitForPackWork, StartWriting, EndWriting, WriterFails, EndWork, WorkFails
<1>6. ~Main
  BY <1>1 DEF Main, BuildFails, Rejects, StartPool, EndPlatform, AwaitTasks, EndRound,
              ContinueWait, FinishSyncTarget, EndInstaller, EndSyncTargets, Finalize, EndBuild
<1>7. ~Cancel /\ ~Ended /\ ~UNCHANGED vars /\ \A t \in Targets : ~EndFinish(t)
  BY DEF Cancel, Ended, vars, EndFinish
<1> QED
  BY <1>2, <1>3, <1>4, <1>5, <1>6, <1>7 DEF Next, PackStep

\* A group moves on with a step of its pack or of the writer it builds.
LEMMA GroupsMove ==
  ASSUME IInv, [Next]_vars, NEW p \in Packs
  PROVE  \/ groups'[p] = groups[p]
         \/ FinishPack(p) \/ EndImages(p) \/ BuildSyncTarget(p) \/ EndGroup(p)
         \/ \E w \in Work : IsWriter(w) /\ w[1] = p /\ (EndWriting(w) \/ WriterFails(w))
<1>a. Types /\ Reading
  BY DEF IInv
<1> USE DEF tasks, works, packing, ending
<1>1. ASSUME NEW q \in Packs, PackStep(q), q # p PROVE groups'[p] = groups[p]
  <2>1. groups' = groups \/ groups' = [groups EXCEPT ![q] = groups'[q]]
    BY <1>1, <1>a DEF PackStep, FinishPack, PackFails, EndImages, BuildSyncTarget, EndGroup, SettleGroup, Types
  <2> QED
    BY <1>1, <1>a, <2>1 DEF Types
<1>2. PackFails(p) => groups'[p] = groups[p]
  BY DEF PackFails
<1>3. ASSUME NEW w \in Work, WorkStep(w)
      PROVE  groups'[p] = groups[p] \/ (IsWriter(w) /\ w[1] = p /\ (EndWriting(w) \/ WriterFails(w)))
  <2>1. CASE EndWriting(w)
    BY <2>1, <1>a, WriterQueues
  <2>2. CASE WriterFails(w)
    <3>1. IsWriter(w) /\ w[1] \in Packs /\ SettleGroup(w[1], FALSE)
      BY <2>2, WorkShape, Kinds DEF WriterFails, IsWriter
    <3> QED
      BY <2>2, <3>1, <1>a, GroupSettles
  <2>3. CASE WaitForPackWork(w) \/ StartWriting(w) \/ EndWork(w) \/ WorkFails(w)
    BY <2>3 DEF WaitForPackWork, StartWriting, EndWork, WorkFails
  <2> QED
    BY <1>3, <2>1, <2>2, <2>3 DEF WorkStep
<1>4. Main => groups' = groups
  BY DEF Main, StartPack, BuildFails, Rejects, StartPool, EndPlatform, AwaitTasks, EndRound,
         ContinueWait, FinishSyncTarget, EndInstaller, EndSyncTargets, Finalize, EndBuild
<1>5. Cancel \/ Ended \/ UNCHANGED vars \/ (\E t \in Targets : EndFinish(t)) => groups' = groups
  BY DEF Cancel, Ended, vars, EndFinish
<1> QED
  BY <1>1, <1>2, <1>3, <1>4, <1>5 DEF Next, PackStep

\* Work on a directory begins when its pack is packed or, that of a writer, in the group, and ends once.
LEMMA WorkMoves ==
  ASSUME IInv, [Next]_vars, NEW w \in Work, ~IsInstaller(w)
  PROVE  \/ work'[w] = work[w]
         \/ FinishPack(w[1]) /\ ~IsWriter(w)
         \/ IsWriter(w) /\ work'[w] \in {"building", "waiting", "writing"}
         \/ EndWriting(w) \/ WriterFails(w) \/ EndWork(w) \/ WorkFails(w)
<1>a. Types
  BY DEF IInv
<1> USE DEF tasks, works, packing, ending
<1>1. ASSUME NEW p \in Packs, FinishPack(p)
      PROVE  work'[w] = work[w] \/ (w[1] = p /\ ~IsWriter(w))
  <2>1. /\ Plan[PlatformOf(p)].asyncTargets = TargetsOf(PlatformOf(p)) \cap AsyncTargets
    BY PlatformOfPack, PlanTypes
  <2>2. BuildAsyncTargets(p, Plan[PlatformOf(p)].asyncTargets) \/ UNCHANGED work
    BY <1>1 DEF FinishPack
  <2>3. work'[w] = work[w] \/ (w[1] = p /\ TargetOf(w) \in Plan[PlatformOf(p)].asyncTargets)
    BY <2>1, <2>2, <1>a, AsyncBuilds
  <2> QED
    BY <2>1, <2>3, Kinds DEF IsWriter
<1>2. ASSUME NEW p \in Packs, BuildSyncTarget(p)
      PROVE  work'[w] = work[w] \/ (IsWriter(w) /\ work'[w] = "building")
  <2>1. PICK t : t = Head(groups[p].targets)
    OBVIOUS
  <2>2. groups[p].targets # <<>> /\ (work' = work \/ (t \notin Installers /\ work' = [work EXCEPT ![<<p, t>>] = "building"]))
    BY <1>2, <2>1 DEF BuildSyncTarget
  <2>3. t \in Writers \cup Installers
    BY <2>1, <2>2, <1>a, TailOf DEF Types, GroupStates
  <2>4. TargetOf(<<p, t>>) = t
    BY DEF TargetOf, Last
  <2> QED
    BY <2>2, <2>3, <2>4, <1>a DEF Types, IsWriter
<1>3. \A p \in Packs : PackFails(p) \/ EndImages(p) \/ EndGroup(p) => work' = work
  BY DEF PackFails, EndImages, EndGroup
<1>4. ASSUME NEW v \in Work, WaitForPackWork(v) \/ StartWriting(v)
      PROVE  work'[w] = work[w] \/ (IsWriter(w) /\ work'[w] \in {"waiting", "writing"})
  <2>1. IsWriter(v) /\ (work' = [work EXCEPT ![v] = "waiting"] \/ work' = [work EXCEPT ![v] = "writing"])
    BY <1>4, <1>a, StatesAre DEF WaitForPackWork, StartWriting, IsWriter, Types
  <2> QED
    BY <2>1, <1>a DEF Types
<1>5. ASSUME NEW v \in Work, EndWriting(v) \/ WriterFails(v) \/ EndWork(v) \/ WorkFails(v)
      PROVE  work'[w] = work[w] \/ w = v
  <2>1. \E s : work' = [work EXCEPT ![v] = s]
    BY <1>5 DEF EndWriting, WriterFails, EndWork, WorkFails, SettleWork
  <2> QED
    BY <2>1, <1>a DEF Types
<1>6. ASSUME FinishSyncTarget PROVE work'[w] = work[w]
  <2>1. PICK t : t = Head(main.syncTargets)
    OBVIOUS
  <2>2. work' = work \/ (t \in Installers /\ work' = [work EXCEPT ![<<t>>] = "working"])
    BY <1>6, <2>1 DEF FinishSyncTarget
  <2>3. t \in Installers => <<t>> # w
    BY InstallerWork DEF IsInstaller
  <2> QED
    BY <2>2, <2>3, <1>a DEF Types
<1>7. Main /\ ~FinishSyncTarget => work' = work
  BY DEF Main, StartPack, BuildFails, Rejects, StartPool, EndPlatform, AwaitTasks, EndRound,
         ContinueWait, EndInstaller, EndSyncTargets, Finalize, EndBuild
<1>8. Cancel \/ Ended \/ UNCHANGED vars \/ (\E t \in Targets : EndFinish(t)) => work' = work
  BY DEF Cancel, Ended, vars, EndFinish
<1> QED
  BY <1>1, <1>2, <1>3, <1>4, <1>5, <1>6, <1>7, <1>8 DEF Next, PackStep, WorkStep

\* An error is kept.
LEMMA ErrorsStay ==
  ASSUME IInv, [Next]_vars
  PROVE  /\ manager.errors \subseteq manager'.errors
         /\ \A t \in Targets : queues[t].errors \subseteq queues'[t].errors
<1>a. Types /\ Reading /\ Listening /\ Tracking /\ Finishing
  BY DEF IInv
<1>b. manager \in Managers(Tasks) /\ pending \in SUBSET Tasks /\ \A t \in Targets : queues[t] \in Managers(Work)
  BY <1>a DEF Types
<1> DEFINE Kept == /\ manager.errors \subseteq manager'.errors
                   /\ \A t \in Targets : queues[t].errors \subseteq queues'[t].errors
<1> USE DEF tasks, works, packing, ending
<1>1. ASSUME NEW p \in Packs, FinishPack(p) PROVE Kept
  <2>1. /\ {<<p, t>> : t \in Plan[PlatformOf(p)].asyncTargets \cap Images} \in SUBSET Tasks /\ {<<"group", p>>} \in SUBSET Tasks
        /\ Plan[PlatformOf(p)].asyncTargets = TargetsOf(PlatformOf(p)) \cap AsyncTargets
    BY PlatformOfPack, PlanTypes, PackWork, Kinds, TaskKinds
  <2>2. UNCHANGED <<manager, pending>> \/ \E S \in SUBSET Tasks : Add(S)
    BY <1>1, <2>1 DEF FinishPack
  <2>3. manager.errors \subseteq manager'.errors
    BY <2>2, <1>b, Added
  <2>4. BuildAsyncTargets(p, Plan[PlatformOf(p)].asyncTargets) \/ UNCHANGED queues
    BY <1>1 DEF FinishPack
  <2>5. \A t \in Targets : queues[t].errors \subseteq queues'[t].errors
    BY <2>1, <2>4, <1>a, AsyncBuilds
  <2> QED
    BY <2>3, <2>5
<1>2. ASSUME NEW p \in Packs, EndImages(p) \/ EndGroup(p) PROVE Kept
  <2>1. UNCHANGED queues /\ (UNCHANGED manager \/ SettleGroup(p, TRUE) \/ SettleGroup(p, FALSE))
    BY <1>2 DEF EndImages, EndGroup
  <2> QED
    BY <2>1, <1>a, GroupSettles
<1>3. ASSUME NEW w \in Work, WriterFails(w) PROVE Kept
  <2>1. SettleGroup(w[1], FALSE) /\ UNCHANGED queues /\ w[1] \in Packs
    BY <1>3, WorkShape, Kinds DEF WriterFails
  <2> QED
    BY <2>1, <1>a, GroupSettles
<1>4. ASSUME NEW w \in Work, EndWork(w) \/ WorkFails(w) PROVE Kept
  <2>1. SettleWork(w, TRUE) \/ SettleWork(w, FALSE)
    BY <1>4 DEF EndWork, WorkFails
  <2> QED
    BY <2>1, <1>a, WorkSettles
<1>5. ASSUME NEW w \in Work, EndWriting(w) PROVE Kept
  <2>1. manager' = manager
    BY <1>5 DEF EndWriting
  <2>2. \A t \in Targets : queues'[t].errors = queues[t].errors
    BY <1>5, <1>a, WriterQueues
  <2> QED
    BY <2>1, <2>2
<1>6. ASSUME NEW t \in Targets, EndFinish(t) PROVE Kept
  <2>1. \A u \in Targets : queues'[u].errors = queues[u].errors
    BY <1>6, <1>a, Finished
  <2>2. manager' = manager \/ Settle(<<"finish", t>>, queues[t].errors = {})
    BY <1>6, <1>a, Finished
  <2>3. manager.errors \subseteq manager'.errors
    BY <2>2, <1>b, SettledTask
  <2> QED
    BY <2>1, <2>3
<1>7. ASSUME EndPlatform PROVE Kept
  <2>1. CASE UNCHANGED <<manager, queues>>
    BY <2>1
  <2>2. CASE FinishAsyncTargets(Platform.asyncTargets)
    <3>1. Platform.asyncTargets \subseteq AsyncTargets
      BY <1>a, PlanTypes DEF Types, MainStates, Platform
    <3>2. manager.errors \subseteq manager'.errors
      BY <2>2, <3>1, <1>a, AsyncFinishes
    <3>3. \A t \in Targets : queues'[t].errors = queues[t].errors
      BY <2>2, <3>1, <1>a, AsyncFinishes
    <3> QED
      BY <3>2, <3>3
  <2> QED
    BY <1>7, <2>1, <2>2 DEF EndPlatform
<1>8. ASSUME AwaitTasks \/ EndRound PROVE Kept
  BY <1>8, <1>a, Waits
<1>9. ASSUME FinishSyncTarget PROVE Kept
  <2>1. PICK t : t = Head(main.syncTargets)
    OBVIOUS
  <2>2. manager' = manager /\ (queues' = queues \/ queues' = [queues EXCEPT ![t] = After(queues[t], FinishCall(t))])
    BY <1>9, <2>1 DEF FinishSyncTarget
  <2>3. t \in Targets => After(queues[t], FinishCall(t)).errors = queues[t].errors
    BY <1>b, ManagerMethods
  <2>4. \A u \in Targets : queues'[u].errors = queues[u].errors
    BY <2>2, <2>3, <1>a DEF Types
  <2> QED
    BY <2>2, <2>4
<1>10. ASSUME \/ StartPack \/ StartPool \/ BuildFails \/ EndInstaller \/ EndSyncTargets \/ EndBuild \/ Cancel
              \/ \E p \in Packs : PackFails(p) \/ BuildSyncTarget(p) \/ Finalize(p)
              \/ \E w \in Work : WaitForPackWork(w) \/ StartWriting(w)
              \/ UNCHANGED vars
       PROVE  Kept
  BY <1>10 DEF StartPack, StartPool, BuildFails, Rejects, EndInstaller, EndSyncTargets, EndBuild, Cancel,
               PackFails, BuildSyncTarget, Finalize, WaitForPackWork, StartWriting, vars
<1> HIDE DEF Kept
<1>11. Kept
  BY <1>1, <1>2, <1>3, <1>4, <1>5, <1>6, <1>7, <1>8, <1>9, <1>10
     DEF Next, Main, PackStep, WorkStep, Ended
<1> QED
  BY <1>11 DEF Kept

\* A promise the task manager listens to is let go when it settles.
LEMMA PendingMoves ==
  ASSUME IInv, [Next]_vars, NEW x \in pending, x \notin pending'
  PROVE  \/ \E p \in Packs : x = <<"group", p>> /\ groups'[p].at = "ended"
         \/ x \in Work /\ (EndWork(x) \/ WorkFails(x))
         \/ \E t \in AsyncTargets : x = <<"finish", t>> /\ EndFinish(t) /\ finishing'[t] = NoWait
<1>a. Types /\ Reading /\ Listening /\ Tracking /\ Finishing
  BY DEF IInv
<1>b. manager \in Managers(Tasks) /\ pending \in SUBSET Tasks
  BY <1>a DEF Types
<1> DEFINE Left == \/ \E p \in Packs : x = <<"group", p>> /\ groups'[p].at = "ended"
                   \/ x \in Work /\ (EndWork(x) \/ WorkFails(x))
                   \/ \E t \in AsyncTargets : x = <<"finish", t>> /\ EndFinish(t) /\ finishing'[t] = NoWait
<1> USE DEF tasks, works, packing, ending
<1>1. ASSUME NEW p \in Packs, FinishPack(p) PROVE FALSE
  <2>1. {<<p, t>> : t \in Plan[PlatformOf(p)].asyncTargets \cap Images} \in SUBSET Tasks /\ {<<"group", p>>} \in SUBSET Tasks
    BY PlatformOfPack, PlanTypes, PackWork, Kinds, TaskKinds
  <2>2. UNCHANGED <<manager, pending>> \/ \E S \in SUBSET Tasks : Add(S)
    BY <1>1, <2>1 DEF FinishPack
  <2>3. pending \subseteq pending'
    BY <2>2, <1>b, Added
  <2> QED
    BY <2>3
<1>2. ASSUME NEW p \in Packs, SettleGroup(p, TRUE) \/ SettleGroup(p, FALSE) PROVE Left
  <2>1. pending' = pending \ {<<"group", p>>} /\ groups'[p].at = "ended"
    BY <1>2, <1>a, GroupSettles
  <2> QED
    BY <2>1
<1>3. ASSUME NEW p \in Packs, EndImages(p) \/ EndGroup(p) PROVE Left
  <2>1. UNCHANGED pending \/ SettleGroup(p, TRUE) \/ SettleGroup(p, FALSE)
    BY <1>3 DEF EndImages, EndGroup
  <2> QED
    BY <2>1, <1>2
<1>4. ASSUME NEW w \in Work, WriterFails(w) PROVE Left
  <2>1. SettleGroup(w[1], FALSE) /\ w[1] \in Packs
    BY <1>4, WorkShape, Kinds DEF WriterFails
  <2> QED
    BY <2>1, <1>2
<1>5. ASSUME NEW w \in Work, EndWork(w) \/ WorkFails(w) PROVE Left
  <2>1. SettleWork(w, TRUE) \/ SettleWork(w, FALSE)
    BY <1>5 DEF EndWork, WorkFails
  <2>2. pending' = pending \ {w}
    BY <2>1, <1>a, WorkSettles
  <2> QED
    BY <2>2, <1>5
<1>6. ASSUME NEW t \in Targets, EndFinish(t) PROVE Left
  <2>1. \/ pending' = pending
        \/ finishing'[t] = NoWait /\ t \in Archives /\ Settle(<<"finish", t>>, queues[t].errors = {})
    BY <1>6, <1>a, Finished
  <2>2. CASE finishing'[t] = NoWait /\ t \in Archives /\ Settle(<<"finish", t>>, queues[t].errors = {})
    <3>1. pending' = pending \ {<<"finish", t>>}
      BY <2>2, <1>b, SettledTask
    <3> QED
      BY <3>1, <2>2, <1>6, Kinds
  <2> QED
    BY <2>1, <2>2
<1>7. ASSUME EndPlatform PROVE FALSE
  <2>1. CASE pending' = pending
    BY <2>1
  <2>2. CASE FinishAsyncTargets(Platform.asyncTargets)
    <3>1. Platform.asyncTargets \subseteq AsyncTargets
      BY <1>a, PlanTypes DEF Types, MainStates, Platform
    <3> QED
      BY <2>2, <3>1, <1>a, AsyncFinishes
  <2> QED
    BY <1>7, <2>1, <2>2 DEF EndPlatform
<1>8. ASSUME \/ StartPack \/ StartPool \/ BuildFails \/ AwaitTasks \/ EndRound \/ FinishSyncTarget
             \/ EndInstaller \/ EndSyncTargets \/ EndBuild \/ Cancel
             \/ \E p \in Packs : PackFails(p) \/ BuildSyncTarget(p) \/ Finalize(p)
             \/ \E w \in Work : WaitForPackWork(w) \/ StartWriting(w) \/ EndWriting(w)
             \/ UNCHANGED vars
      PROVE  FALSE
  BY <1>8 DEF StartPack, StartPool, BuildFails, Rejects, AwaitTasks, EndRound, ContinueWait, FinishSyncTarget,
              EndInstaller, EndSyncTargets, EndBuild, Cancel, PackFails, BuildSyncTarget, Finalize,
              WaitForPackWork, StartWriting, EndWriting, vars
<1> HIDE DEF Left
<1>9. Left
  BY <1>1, <1>3, <1>4, <1>5, <1>6, <1>7, <1>8 DEF Next, Main, PackStep, WorkStep, Ended
<1> QED
  BY <1>9 DEF Left

\* finishBuild of a target with a queue is called with the platform, or as the next sync target.
CallsFinish(t) ==
  /\ finishing[t] = NoWait
  /\ \/ EndPlatform /\ ~cancelled /\ t \in Platform.asyncTargets
     \/ FinishSyncTarget /\ main.syncTargets # <<>> /\ t = Head(main.syncTargets) /\ t \in Writers

\* What a call of finishBuild does to the queue.
LEMMA FinishCalled ==
  ASSUME IInv, NEW t \in Targets, CallsFinish(t)
  PROVE  /\ queues'[t].tasks = {} /\ queues'[t].errors = queues[t].errors
         /\ \/ FinishCall(t) = "waiting" /\ finishing'[t] = queues[t].tasks
            \/ FinishCall(t) = "rejected" /\ finishing'[t] = NoWait /\ queues[t].errors # {}
            \/ FinishCall(t) = "resolved" /\ finishing'[t] = NoWait /\ queues[t].errors = {} /\ queues[t].tasks = {}
<1>a. Types /\ queues[t] \in Managers(Work)
  BY DEF IInv, Types
<1>1. /\ FinishCall(t) \in {"rejected", "resolved", "waiting"}
      /\ FinishCall(t) = "resolved" => queues[t].errors = {} /\ queues[t].tasks = {}
      /\ FinishCall(t) = "rejected" => queues[t].errors # {}
  BY <1>a, Decisions DEF FinishCall
<1>2. CASE EndPlatform /\ ~cancelled /\ t \in Platform.asyncTargets
  <2>1. FinishAsyncTargets(Platform.asyncTargets) /\ Platform.asyncTargets \subseteq AsyncTargets
    BY <1>2, <1>a, PlanTypes DEF EndPlatform, Types, MainStates, Platform
  <2>2. /\ queues'[t].tasks = {} /\ queues'[t].errors = queues[t].errors
        /\ \/ FinishCall(t) = "waiting" /\ finishing'[t] = queues[t].tasks
           \/ FinishCall(t) = "rejected" /\ finishing'[t] = finishing[t]
           \/ FinishCall(t) = "resolved" /\ finishing'[t] = finishing[t]
    BY <2>1, <1>2, <1>a, AsyncFinishes
  <2> QED
    BY <1>1, <2>2 DEF CallsFinish
<1>3. CASE FinishSyncTarget /\ main.syncTargets # <<>> /\ t = Head(main.syncTargets) /\ t \in Writers
  <2>1. t \notin Installers
    BY <1>3, Kinds
  <2>2. /\ queues' = [queues EXCEPT ![t] = After(queues[t], FinishCall(t))]
        /\ FinishCall(t) = "waiting" => finishing' = [finishing EXCEPT ![t] = queues[t].tasks]
        /\ FinishCall(t) # "waiting" => finishing' = finishing
    BY <1>1, <1>3, <2>1 DEF FinishSyncTarget
  <2>3. After(queues[t], FinishCall(t)).tasks = {} /\ After(queues[t], FinishCall(t)).errors = queues[t].errors
    BY <1>a, ManagerMethods
  <2>4. queues'[t] = After(queues[t], FinishCall(t))
    BY <2>2, <1>a DEF Types
  <2>5. FinishCall(t) = "waiting" => finishing'[t] = queues[t].tasks
    BY <2>2, <1>a DEF Types
  <2> QED
    BY <1>1, <2>2, <2>3, <2>4, <2>5 DEF CallsFinish
<1> QED
  BY <1>2, <1>3 DEF CallsFinish

\* The queue of a target grows until its finishBuild takes it.
LEMMA QueuesMove ==
  ASSUME IInv, [Next]_vars, NEW t \in Targets
  PROVE  \/ queues[t].tasks \subseteq queues'[t].tasks /\ finishing'[t] = finishing[t]
         \/ EndFinish(t)
         \/ CallsFinish(t)
<1>a. Types /\ Reading /\ Listening /\ Tracking /\ Finishing
  BY DEF IInv
<1> DEFINE Kept == queues[t].tasks \subseteq queues'[t].tasks /\ finishing'[t] = finishing[t]
           Moved == Kept \/ EndFinish(t) \/ CallsFinish(t)
<1> USE DEF tasks, works, packing, ending
<1>1. ASSUME NEW p \in Packs, FinishPack(p) PROVE Kept
  <2>1. Plan[PlatformOf(p)].asyncTargets = TargetsOf(PlatformOf(p)) \cap AsyncTargets
    BY PlatformOfPack, PlanTypes
  <2>2. BuildAsyncTargets(p, Plan[PlatformOf(p)].asyncTargets) \/ UNCHANGED queues
    BY <1>1 DEF FinishPack
  <2>3. queues[t].tasks \subseteq queues'[t].tasks
    BY <2>1, <2>2, <1>a, AsyncBuilds
  <2> QED
    BY <2>3, <1>1 DEF FinishPack
<1>2. ASSUME NEW w \in Work, EndWork(w) \/ WorkFails(w) PROVE Kept
  <2>1. finishing' = finishing /\ (SettleWork(w, TRUE) \/ SettleWork(w, FALSE))
    BY <1>2 DEF EndWork, WorkFails
  <2> QED
    BY <2>1, <1>a, WorkSettles
<1>3. ASSUME NEW w \in Work, EndWriting(w) PROVE Kept
  <2>1. finishing' = finishing
    BY <1>3 DEF EndWriting
  <2>2. queues[t].tasks \subseteq queues'[t].tasks
    BY <1>3, <1>a, WriterQueues
  <2> QED
    BY <2>1, <2>2
<1>4. ASSUME NEW u \in Targets, EndFinish(u) PROVE Moved
  BY <1>4, <1>a, Finished
<1>5. ASSUME EndPlatform PROVE Moved
  <2>1. CASE cancelled
    BY <1>5, <2>1 DEF EndPlatform
  <2>2. CASE ~cancelled
    <3>1. FinishAsyncTargets(Platform.asyncTargets) /\ Platform.asyncTargets \subseteq AsyncTargets
          /\ main.platform \in DOMAIN Plan /\ Platform = Plan[main.platform] /\ main.step \in {"packing", "pooling"}
      BY <1>5, <2>2, <1>a, PlanTypes DEF EndPlatform, IsPlatformPacked, Types, MainStates, Platform
    <3>2. CASE t \in Platform.asyncTargets
      <4>1. ~HasEnded(main.platform)
        BY <3>1, <1>a, PlanTypes DEF HasEnded, Types, MainStates
      <4>2. finishing[t] = NoWait
        BY <3>1, <3>2, <4>1, <1>a DEF Finishing
      <4> QED
        BY <1>5, <2>2, <3>2, <4>2 DEF CallsFinish
    <3>3. CASE t \notin Platform.asyncTargets
      BY <3>1, <3>3, <1>a, AsyncFinishes
    <3> QED
      BY <3>2, <3>3
  <2> QED
    BY <2>1, <2>2
<1>6. ASSUME FinishSyncTarget PROVE Moved
  <2>1. PICK u : u = Head(main.syncTargets)
    OBVIOUS
  <2>2. main.syncTargets # <<>> /\ finishing[u] = NoWait /\ u \in Writers \cup Installers
    BY <1>6, <2>1, <1>a, TailOf DEF FinishSyncTarget, Types, MainStates
  <2>3. CASE u \in Installers
    BY <1>6, <2>1, <2>3 DEF FinishSyncTarget
  <2>4. CASE u \notin Installers /\ u = t
    BY <1>6, <2>1, <2>2, <2>4 DEF CallsFinish
  <2>5. CASE u \notin Installers /\ u # t
    <3>1. /\ queues' = [queues EXCEPT ![u] = After(queues[u], FinishCall(u))]
          /\ finishing' = finishing \/ finishing' = [finishing EXCEPT ![u] = queues[u].tasks]
      BY <1>6, <2>1, <2>5 DEF FinishSyncTarget
    <3> QED
      BY <3>1, <2>5, <1>a DEF Types
  <2> QED
    BY <2>2, <2>3, <2>4, <2>5
<1>7. ASSUME \/ StartPack \/ StartPool \/ BuildFails \/ AwaitTasks \/ EndRound
             \/ EndInstaller \/ EndSyncTargets \/ EndBuild \/ Cancel
             \/ \E p \in Packs : PackFails(p) \/ EndImages(p) \/ BuildSyncTarget(p) \/ EndGroup(p) \/ Finalize(p)
             \/ \E w \in Work : WaitForPackWork(w) \/ StartWriting(w) \/ WriterFails(w)
             \/ UNCHANGED vars
      PROVE  Kept
  BY <1>7 DEF StartPack, StartPool, BuildFails, Rejects, AwaitTasks, EndRound, ContinueWait,
              EndInstaller, EndSyncTargets, EndBuild, Cancel, PackFails, EndImages, BuildSyncTarget, EndGroup, Finalize,
              WaitForPackWork, StartWriting, WriterFails, vars
<1> HIDE DEF Moved, Kept
<1>8. Kept \/ Moved
  BY <1>1, <1>2, <1>3, <1>4, <1>5, <1>6, <1>7 DEF Next, Main, PackStep, WorkStep, Ended
<1> QED
  BY <1>8 DEF Moved, Kept

-----------------------------------------------------------------------------
(* What was begun is tracked.                                               *)

\* A pack of a build that goes on: its async targets are being built, and its writers will be in
\* the group, all of it as tasks of packAll's manager or in the queues of the targets.
LEMMA PackBuilt ==
  ASSUME IInv, NEW p \in Packs, FinishPack(p), ~cancelled
  PROVE  /\ packs[p] = "packing" /\ groups[p].at = "none"
         /\ groups'[p].at = "none" \/ (groups'[p].at = "images" /\ <<"group", p>> \in pending')
         /\ \A w \in Work : ~IsInstaller(w) /\ w[1] = p =>
              /\ IsArchive(w) => work'[w] = "working" /\ w \in queues'[TargetOf(w)].tasks
              /\ IsImage(w) => work'[w] = "building" /\ (w \in pending' \/ groups'[p].at = "images")
              /\ IsWriter(w) => groups'[p].at = "images" /\ TargetOf(w) \in ToSet(groups'[p].targets)
<1>a. Types /\ Reading /\ manager \in Managers(Tasks) /\ pending \in SUBSET Tasks
  BY DEF IInv, Types
<1>1. packs[p] = "packing" /\ groups[p].at = "none"
  BY <1>a DEF FinishPack, Reading
<1>2. PICK i \in DOMAIN Plan : i = PlatformOf(p)
  BY PlatformOfPack
<1>3. /\ Plan[i].asyncTargets = TargetsOf(i) \cap AsyncTargets
      /\ ToSet(Plan[i].syncTargets) = TargetsOf(i) \ AsyncTargets
  BY PlanTypes
<1>4. /\ BuildAsyncTargets(p, Plan[i].asyncTargets)
      /\ \/ /\ Plan[i].syncTargets = <<>> /\ UNCHANGED groups
            /\ Add({<<p, t>> : t \in Plan[i].asyncTargets \cap Images})
         \/ /\ groups' = [groups EXCEPT ![p] = [at |-> "images", targets |-> Plan[i].syncTargets]]
            /\ Add({<<"group", p>>})
  BY <1>2 DEF FinishPack
<1>5. ASSUME NEW w \in Work, ~IsInstaller(w), w[1] = p
      PROVE  /\ w = <<p, TargetOf(w)>> /\ TargetOf(w) \in TargetsOf(i)
             /\ IsArchive(w) => work'[w] = "working" /\ w \in queues'[TargetOf(w)].tasks
             /\ IsImage(w) => work'[w] = "building"
  <2>1. w = <<p, TargetOf(w)>> /\ TargetOf(w) \in TargetsOf(i)
    BY <1>5, <1>2, WorkShape DEF IsInstaller
  <2>2. IsArchive(w) \/ IsImage(w) => TargetOf(w) \in Plan[i].asyncTargets
    BY <2>1, <1>3, Kinds DEF IsArchive, IsImage
  <2> QED
    BY <1>2, <1>3, <1>4, <1>5, <1>a, <2>1, <2>2, AsyncBuilds
<1>6. CASE Plan[i].syncTargets = <<>> /\ UNCHANGED groups /\ Add({<<p, t>> : t \in Plan[i].asyncTargets \cap Images})
  <2>1. {<<p, t>> : t \in Plan[i].asyncTargets \cap Images} \in SUBSET Tasks
    BY <1>2, <1>3, PackWork, Kinds, TaskKinds
  <2>2. \A t \in Plan[i].asyncTargets \cap Images : <<p, t>> \in pending'
    BY <1>6, <2>1, <1>a, Added
  <2>3. TargetsOf(i) \ AsyncTargets = {}
    BY <1>3, <1>6 DEF ToSet
  <2>4. ASSUME NEW w \in Work, ~IsInstaller(w), w[1] = p
        PROVE  /\ IsImage(w) => w \in pending'
               /\ ~IsWriter(w)
    BY <1>3, <1>5, <2>2, <2>3, <2>4, Kinds DEF IsImage, IsWriter
  <2> QED
    BY <1>1, <1>5, <1>6, <2>4
<1>7. CASE groups' = [groups EXCEPT ![p] = [at |-> "images", targets |-> Plan[i].syncTargets]] /\ Add({<<"group", p>>})
  <2>1. groups'[p].at = "images" /\ groups'[p].targets = Plan[i].syncTargets
    BY <1>7, <1>a DEF Types
  <2>2. <<"group", p>> \in pending'
    <3>1. {<<"group", p>>} \in SUBSET Tasks
      BY TaskKinds
    <3> QED
      BY <1>7, <3>1, <1>a, Added
  <2>3. ASSUME NEW w \in Work, ~IsInstaller(w), w[1] = p, IsWriter(w)
        PROVE  TargetOf(w) \in ToSet(groups'[p].targets)
    BY <1>3, <1>5, <2>1, <2>3, Kinds DEF IsWriter
  <2> QED
    BY <1>1, <1>5, <2>1, <2>2, <2>3
<1> QED
  BY <1>4, <1>6, <1>7

\* A group that is not of this step is as before, and still a task; one that ends early is an error.
LEMMA NextGrouped ==
  ASSUME IInv, [Next]_vars, GoesOn', NEW p \in Packs
  PROVE  Grouped(p)'
<1>a. Types /\ Reading /\ Tracking /\ GoesOn /\ ~cancelled /\ Grouped(p)
  BY GoesOnBefore DEF IInv, Tracking, GoesOn
<1>b. manager.errors # {} => manager'.errors # {}
  BY ErrorsStay
<1>c. ASSUME groups'[p].at # "ended", <<"group", p>> \in pending PROVE <<"group", p>> \in pending'
  <2>1. \A q \in Packs : <<"group", p>> = <<"group", q>> => q = p
    OBVIOUS
  <2>2. <<"group", p>> \notin Work /\ \A t \in AsyncTargets : <<"group", p>> # <<"finish", t>>
    BY TaskKinds
  <2> QED
    BY <1>c, <2>1, <2>2, PendingMoves
<1>1. CASE groups'[p] = groups[p]
  BY <1>1, <1>a, <1>b, <1>c DEF Grouped
<1>2. CASE FinishPack(p)
  BY <1>2, <1>a, PackBuilt DEF Grouped
<1>3. ASSUME SettleGroup(p, FALSE), groups[p].at \in {"images", "syncs"} PROVE Grouped(p)'
  <2>1. groups'[p].at = "ended" /\ manager'.errors # {}
    BY <1>3, <1>a, GroupSettles DEF Grouped
  <2> QED
    BY <2>1 DEF Grouped
<1>4. CASE EndImages(p)
  <2>1. groups[p].at = "images" /\ (SettleGroup(p, FALSE) \/ (groups' = [groups EXCEPT ![p].at = "syncs"] /\ pending' = pending))
    BY <1>4 DEF EndImages
  <2>2. CASE groups' = [groups EXCEPT ![p].at = "syncs"] /\ pending' = pending
    <3>1. groups'[p].at = "syncs"
      BY <2>2, <1>a DEF Types, GroupStates
    <3> QED
      BY <2>1, <2>2, <3>1, <1>a DEF Grouped
  <2> QED
    BY <2>1, <2>2, <1>3
<1>5. CASE BuildSyncTarget(p)
  <2>1. /\ groups[p].at = "syncs" /\ groups[p].targets # <<>> /\ pending' = pending
        /\ groups' = groups \/ groups' = [groups EXCEPT ![p].targets = Tail(@)]
    BY <1>5 DEF BuildSyncTarget, tasks
  <2>2. groups'[p].at = "syncs"
    BY <2>1, <1>a, GroupGoesOn
  <2> QED
    BY <2>1, <2>2, <1>a DEF Grouped
<1>6. CASE EndGroup(p)
  <2>1. groups[p].targets = <<>> /\ SettleGroup(p, TRUE)
    BY <1>6 DEF EndGroup
  <2>2. groups'[p].at = "ended" /\ groups'[p].targets = <<>>
    BY <2>1, <1>a, GroupSettles
  <2> QED
    BY <2>2 DEF Grouped
<1>7. ASSUME NEW w \in Work, IsWriter(w), w[1] = p, EndWriting(w) PROVE Grouped(p)'
  <2>1. groups[p].at = "syncs" /\ groups'[p].at = "syncs"
    BY <1>7, <1>a, WriterQueues
  <2>2. pending' = pending
    BY <1>7 DEF EndWriting, tasks
  <2> QED
    BY <2>1, <2>2, <1>a DEF Grouped
<1>8. ASSUME NEW w \in Work, IsWriter(w), w[1] = p, WriterFails(w) PROVE Grouped(p)'
  <2>1. work[w] \in {"building", "writing"} /\ SettleGroup(p, FALSE) /\ ~IsInstaller(w)
    BY <1>8, Kinds DEF WriterFails, IsWriter, IsInstaller
  <2>2. groups[p].at = "syncs"
    BY <1>8, <2>1, <1>a DEF Reading, OnPack
  <2> QED
    BY <2>1, <2>2, <1>3
<1> QED
  BY <1>1, <1>2, <1>4, <1>5, <1>6, <1>7, <1>8, GroupsMove

\* A writer that has not been built is one its group will build.
LEMMA NextWritten ==
  ASSUME IInv, [Next]_vars, GoesOn', NEW w \in Work, IsWriter(w)
  PROVE  Written(w)'
<1>a. Types /\ Reading /\ Tracking /\ GoesOn /\ ~cancelled /\ Written(w)
  BY GoesOnBefore DEF IInv, Tracking, GoesOn
<1>b. ~IsInstaller(w) /\ w[1] \in Packs /\ TargetOf(w) \in Writers /\ TargetOf(w) \notin Installers
  BY WorkShape, Kinds DEF IsWriter, IsInstaller
<1> SUFFICES ASSUME work'[w] = "new", packs'[w[1]] = "packed"
             PROVE  groups'[w[1]].at # "none" /\ TargetOf(w) \in ToSet(groups'[w[1]].targets)
  BY DEF Written, TargetOf, ToSet
<1>1. CASE FinishPack(w[1])
  BY <1>1, <1>a, <1>b, PackBuilt
<1>2. CASE ~FinishPack(w[1])
  <2>1. packs[w[1]] = "packed"
    BY <1>2, <1>b, PacksMove
  <2>2. work[w] = "new"
    <3>1. ~EndWriting(w) /\ ~WriterFails(w) /\ ~EndWork(w) /\ ~WorkFails(w)
      BY <1>a, WriterQueues, WorkSettles DEF WriterFails, EndWork, WorkFails, Types
    <3> QED
      BY <1>2, <1>b, <3>1, WorkMoves
  <2>3. groups[w[1]].at # "none" /\ TargetOf(w) \in ToSet(groups[w[1]].targets)
    BY <2>1, <2>2, <1>a DEF Written
  <2>4. CASE groups'[w[1]] = groups[w[1]]
    BY <2>3, <2>4
  <2>5. CASE EndImages(w[1])
    <3>1. \/ SettleGroup(w[1], FALSE)
          \/ groups' = [groups EXCEPT ![w[1]].at = "syncs"]
      BY <2>5 DEF EndImages
    <3>2. CASE groups' = [groups EXCEPT ![w[1]].at = "syncs"]
      BY <3>2, <2>3, <1>a, <1>b DEF Types, GroupStates
    <3> QED
      BY <3>1, <3>2, <2>3, <1>a, <1>b, GroupSettles
  <2>6. CASE EndGroup(w[1])
    BY <2>6, <2>3, <1>a, <1>b, GroupSettles DEF EndGroup
  <2>7. CASE BuildSyncTarget(w[1])
    <3>1. PICK t : t = Head(groups[w[1]].targets)
      OBVIOUS
    <3>2. /\ groups[w[1]].at = "syncs" /\ groups[w[1]].targets # <<>>
          /\ groups' = groups \/ (t \in Installers /\ groups' = [groups EXCEPT ![w[1]].targets = Tail(@)])
      BY <2>7, <3>1, <1>a DEF BuildSyncTarget
    <3>3. groups[w[1]].targets \in Seq(Writers \cup Installers)
      BY <1>a, <1>b DEF Types, GroupStates
    <3>4. ToSet(groups[w[1]].targets) \subseteq ToSet(Tail(groups[w[1]].targets)) \cup {t}
      BY <3>1, <3>2, <3>3, TailOf
    <3>5. t \in Installers => TargetOf(w) \in ToSet(Tail(groups[w[1]].targets))
      BY <3>4, <2>3, <1>b
    <3>6. CASE t \in Installers /\ groups' = [groups EXCEPT ![w[1]].targets = Tail(@)]
      <4>1. groups'[w[1]].at = "syncs" /\ groups'[w[1]].targets = Tail(groups[w[1]].targets)
        BY <3>2, <3>6, <1>a, <1>b, GroupGoesOn
      <4> QED
        BY <4>1, <3>5, <3>6
    <3> QED
      BY <3>2, <3>6, <2>3
  <2>8. ASSUME NEW v \in Work, IsWriter(v), v[1] = w[1], EndWriting(v) \/ WriterFails(v) PROVE FALSE
    <3>1. v = w
      BY <2>8, OneWriter
    <3> QED
      BY <3>1, <2>2, <2>8 DEF EndWriting, WriterFails
  <2> QED
    BY <1>2, <1>b, <2>4, <2>5, <2>6, <2>7, <2>8, GroupsMove
<1> QED
  BY <1>1, <1>2

\* An image whose pack was packed before this step: it goes on being built, or settles.
LEMMA ImageMoves ==
  ASSUME IInv, [Next]_vars, NEW w \in Work, IsImage(w), ~FinishPack(w[1])
  PROVE  \/ work'[w] = work[w]
         \/ EndWork(w) /\ work'[w] = "done"
         \/ WorkFails(w) /\ work'[w] = "failed" /\ (w \in pending => manager'.errors # {})
<1>a. Types /\ Reading
  BY DEF IInv
<1>b. ~IsInstaller(w) /\ ~IsWriter(w)
  BY Kinds DEF IsImage, IsInstaller, IsWriter
<1>1. ~EndWriting(w) /\ ~WriterFails(w)
  BY <1>a, <1>b, WriterQueues DEF WriterFails, IsWriter
<1>2. EndWork(w) => work'[w] = "done"
  BY <1>a, WorkSettles DEF EndWork
<1>3. WorkFails(w) => work'[w] = "failed" /\ (w \in pending => manager'.errors # {})
  BY <1>a, WorkSettles DEF WorkFails
<1> QED
  BY <1>b, <1>1, <1>2, <1>3, WorkMoves

\* An image is built when its pack is packed, and its build is a task or one of its group.
LEMMA NextImaged ==
  ASSUME IInv, [Next]_vars, GoesOn', NEW w \in Work, IsImage(w)
  PROVE  Imaged(w)'
<1>a. Types /\ Reading /\ Tracking /\ GoesOn /\ ~cancelled /\ Imaged(w)
  BY GoesOnBefore DEF IInv, Tracking, GoesOn
<1>b. ~IsInstaller(w) /\ ~IsWriter(w) /\ w[1] \in Packs /\ w = <<w[1], TargetOf(w)>> /\ TargetOf(w) \in Images
  BY WorkShape, Kinds DEF IsImage, IsInstaller, IsWriter
<1>c. manager.errors # {} => manager'.errors # {}
  BY ErrorsStay
<1>d. Grouped(w[1])
  BY <1>a, <1>b DEF Tracking
<1>1. CASE FinishPack(w[1])
  BY <1>1, <1>a, <1>b, PackBuilt DEF Imaged
<1>2. CASE ~FinishPack(w[1])
  <2>1. packs'[w[1]] = "packed" => packs[w[1]] = "packed"
    BY <1>2, <1>b, PacksMove
  <2>2. ASSUME groups[w[1]].at = "images", work[w] # "done"
        PROVE  \/ groups'[w[1]].at = "images"
               \/ work[w] = "failed" /\ manager'.errors # {}
    <3>1. CASE groups'[w[1]] = groups[w[1]]
      BY <3>1, <2>2
    <3>2. CASE EndImages(w[1])
      <4>1. Settled(w)
        BY <3>2, <1>b DEF EndImages
      <4>2. work[w] = "failed"
        BY <4>1, <2>2 DEF Settled
      <4>3. SettleGroup(w[1], FALSE)
        BY <3>2, <4>2, <1>b DEF EndImages
      <4> QED
        BY <4>2, <4>3, <2>2, <1>a, <1>b, <1>d, GroupSettles DEF Grouped
    <3>3. ASSUME NEW v \in Work, IsWriter(v), v[1] = w[1], EndWriting(v) \/ WriterFails(v) PROVE FALSE
      <4>1. work[v] \in {"building", "writing"} /\ ~IsInstaller(v)
        BY <3>3, Kinds DEF EndWriting, WriterFails, IsWriter, IsInstaller
      <4> QED
        BY <3>3, <4>1, <2>2, <1>a DEF Reading, OnPack
    <3>4. ~BuildSyncTarget(w[1]) /\ ~EndGroup(w[1])
      BY <2>2 DEF BuildSyncTarget, EndGroup
    <3> QED
      BY <3>1, <3>2, <3>3, <3>4, <1>2, <1>b, GroupsMove
  <2>3. ASSUME work[w] # "new" PROVE work'[w] # "new"
    BY <2>3, <1>2, ImageMoves
  <2>4. ASSUME work'[w] = "building" PROVE w \in pending' \/ groups'[w[1]].at = "images"
    <3>1. work[w] = "building"
      BY <2>4, <1>2, ImageMoves
    <3>2. ASSUME w \in pending, w \notin pending' PROVE FALSE
      <4>1. ~EndWork(w) /\ ~WorkFails(w)
        BY <2>4, <1>a, WorkSettles DEF EndWork, WorkFails
      <4>2. (\A p \in Packs : w # <<"group", p>>) /\ \A t \in AsyncTargets : w # <<"finish", t>>
        BY TaskKinds
      <4> QED
        BY <3>2, <4>1, <4>2, PendingMoves
    <3> QED
      BY <3>1, <3>2, <2>2, <1>a DEF Imaged
  <2>5. ASSUME work'[w] = "failed" PROVE manager'.errors # {} \/ groups'[w[1]].at = "images"
    <3>1. CASE work[w] = "failed"
      BY <3>1, <2>2, <1>a, <1>c DEF Imaged
    <3>2. CASE work[w] # "failed"
      <4>1. WorkFails(w) /\ (w \in pending => manager'.errors # {})
        BY <3>2, <2>5, <1>2, ImageMoves
      <4>2. work[w] = "building"
        BY <4>1, <1>a, <1>b, StatesAre DEF WorkFails, IsReading, Types
      <4>3. groups[w[1]].at = "images" => groups'[w[1]].at = "images"
        BY <4>2, <2>2
      <4> QED
        BY <4>1, <4>2, <4>3, <1>a DEF Imaged
    <3> QED
      BY <3>1, <3>2
  <2> QED
    BY <2>1, <2>3, <2>4, <2>5, <1>a DEF Imaged
<1> QED
  BY <1>1, <1>2

\* An archive is built when its pack is packed.
LEMMA NextArchived ==
  ASSUME IInv, [Next]_vars, GoesOn', NEW w \in Work, IsArchive(w), packs'[w[1]] = "packed"
  PROVE  work'[w] # "new"
<1>a. Types /\ Reading /\ Tracking /\ GoesOn /\ ~cancelled
  BY GoesOnBefore DEF IInv, GoesOn
<1>b. ~IsInstaller(w) /\ ~IsWriter(w) /\ w[1] \in Packs
  BY WorkShape, Kinds DEF IsArchive, IsInstaller, IsWriter
<1>1. CASE FinishPack(w[1])
  BY <1>1, <1>a, <1>b, PackBuilt
<1>2. CASE ~FinishPack(w[1])
  <2>1. work[w] # "new"
    BY <1>2, <1>a, <1>b, PacksMove DEF Tracking
  <2>2. EndWriting(w) => work'[w] = "working"
    BY <1>a, WriterQueues
  <2>3. EndWork(w) \/ WorkFails(w) => work'[w] \in {"done", "failed"}
    BY <1>a, WorkSettles DEF EndWork, WorkFails
  <2>4. ~WriterFails(w)
    BY <1>b DEF WriterFails, IsWriter
  <2> QED
    BY <1>2, <1>b, <2>1, <2>2, <2>3, <2>4, WorkMoves
<1> QED
  BY <1>1, <1>2

\* Queued work that goes on is still in the queue of its target, or its finishBuild waits for it.
LEMMA QueueKeeps ==
  ASSUME IInv, [Next]_vars, NEW w \in Work, IsArchive(w) \/ IsWriter(w), work[w] = "working", work'[w] = "working"
  PROVE  queues'[TargetOf(w)].errors # {} \/ w \in queues'[TargetOf(w)].tasks \cup QueueAwaited(TargetOf(w))'
<1>a. Types /\ Reading /\ Tracking /\ Finishing /\ Queued(w)
  BY DEF IInv, Tracking
<1>1. PICK t \in Targets : t = TargetOf(w)
  BY WorkShape
<1>2. /\ queues[t].errors # {} \/ w \in queues[t].tasks \cup QueueAwaited(t)
      /\ queues[t].errors # {} => queues'[t].errors # {}
  BY <1>1, <1>a, ErrorsStay DEF Queued
<1>3. queues[t].tasks # NoWait
  BY <1>a, ManagerMethods, NoWaitIsNoSet DEF Types
<1>4. CASE queues[t].tasks \subseteq queues'[t].tasks /\ finishing'[t] = finishing[t]
  BY <1>1, <1>2, <1>4 DEF QueueAwaited
<1>5. CASE EndFinish(t)
  <2>1. w \notin QueueAwaited(t)
    BY <1>5 DEF EndFinish, QueueAwaited, Settled
  <2>2. finishing'[t] = queues[t].tasks \/ queues[t].tasks = {} \/ queues[t].errors # {}
    BY <1>5, <1>a, Finished
  <2> QED
    BY <1>1, <1>2, <1>3, <2>1, <2>2 DEF QueueAwaited
<1>6. CASE CallsFinish(t)
  <2>1. w \notin QueueAwaited(t)
    BY <1>6 DEF CallsFinish, QueueAwaited
  <2>2. finishing'[t] = queues[t].tasks \/ queues[t].tasks = {} \/ queues[t].errors # {}
    BY <1>6, FinishCalled
  <2> QED
    BY <1>1, <1>2, <1>3, <2>1, <2>2 DEF QueueAwaited
<1> QED
  BY <1>4, <1>5, <1>6, QueuesMove

\* The queue of a target has what was queued, and the failures.
LEMMA NextQueued ==
  ASSUME IInv, [Next]_vars, NEW w \in Work, IsArchive(w) \/ IsWriter(w)
  PROVE  Queued(w)'
<1>a. Types /\ Reading /\ Tracking /\ Queued(w)
  BY DEF IInv, Tracking
<1>b. ~IsInstaller(w) /\ w[1] \in Packs /\ TargetOf(w) \in Targets
  BY WorkShape, Kinds DEF IsArchive, IsInstaller, IsWriter
<1>c. GoesOn' => GoesOn
  BY GoesOnBefore
<1>d. /\ manager.errors # {} => manager'.errors # {}
      /\ queues[TargetOf(w)].errors # {} => queues'[TargetOf(w)].errors # {}
  BY <1>b, ErrorsStay
<1>1. ASSUME work'[w] = "working"
      PROVE  queues'[TargetOf(w)].errors # {} \/ w \in queues'[TargetOf(w)].tasks \cup QueueAwaited(TargetOf(w))'
  <2>1. CASE work[w] = "working"
    BY <1>1, <2>1, QueueKeeps
  <2>2. CASE EndWriting(w)
    BY <2>2, <1>a, WriterQueues
  <2>3. CASE work[w] # "working" /\ FinishPack(w[1]) /\ ~IsWriter(w)
    <3>1. PICK i \in DOMAIN Plan : i = PlatformOf(w[1])
      BY <1>b, PlatformOfPack
    <3>2. BuildAsyncTargets(w[1], Plan[i].asyncTargets) \/ UNCHANGED work
      BY <2>3, <3>1 DEF FinishPack
    <3>3. Plan[i].asyncTargets = TargetsOf(i) \cap AsyncTargets
      BY PlanTypes
    <3> QED
      BY <1>1, <1>a, <1>b, <2>3, <3>1, <3>2, <3>3, AsyncBuilds
  <2>4. EndWork(w) \/ WorkFails(w) => work'[w] \in {"done", "failed"}
    BY <1>a, WorkSettles DEF EndWork, WorkFails
  <2>5. WriterFails(w) => work'[w] = "failed"
    BY <1>a DEF WriterFails, Types
  <2> QED
    BY <1>1, <1>b, <2>1, <2>2, <2>3, <2>4, <2>5, WorkMoves
<1>2. ASSUME work'[w] = "failed"
      PROVE  queues'[TargetOf(w)].errors # {} \/ (IsWriter(w) /\ (GoesOn' => manager'.errors # {}))
  <2>1. CASE work[w] = "failed"
    BY <2>1, <1>a, <1>c, <1>d DEF Queued
  <2>2. CASE WorkFails(w)
    BY <2>2, <1>a, WorkSettles DEF WorkFails
  <2>3. CASE WriterFails(w)
    <3>1. IsWriter(w) /\ work[w] \in {"building", "writing"} /\ SettleGroup(w[1], FALSE)
      BY <2>3 DEF WriterFails, IsWriter
    <3>2. groups[w[1]].at = "syncs"
      BY <3>1, <1>a, <1>b DEF Reading, OnPack
    <3>3. GoesOn => manager'.errors # {}
      BY <3>1, <3>2, <1>a, <1>b, GroupSettles DEF Tracking, Grouped
    <3> QED
      BY <3>1, <3>3, <1>c
  <2>4. EndWork(w) => work'[w] = "done"
    BY <1>a, WorkSettles DEF EndWork
  <2>5. EndWriting(w) => work'[w] = "working"
    BY <1>a, WriterQueues
  <2>6. FinishPack(w[1]) /\ ~IsWriter(w) => work'[w] \in {work[w], "working"}
    <3>1. ASSUME FinishPack(w[1]), ~IsWriter(w) PROVE work'[w] \in {work[w], "working"}
      <4>1. PICK i \in DOMAIN Plan : i = PlatformOf(w[1])
        BY <1>b, PlatformOfPack
      <4>2. BuildAsyncTargets(w[1], Plan[i].asyncTargets) \/ UNCHANGED work
        BY <3>1, <4>1 DEF FinishPack
      <4>3. Plan[i].asyncTargets = TargetsOf(i) \cap AsyncTargets
        BY PlanTypes
      <4> QED
        BY <1>a, <1>b, <3>1, <4>1, <4>2, <4>3, AsyncBuilds
    <3> QED
      BY <3>1
  <2> QED
    BY <1>2, <1>b, <2>1, <2>2, <2>3, <2>4, <2>5, <2>6, WorkMoves
<1> QED
  BY <1>1, <1>2 DEF Queued, IsWriter, TargetOf

\* finishBuild of an image or an installer has nothing to wait for.
LEMMA NextUnawaited ==
  ASSUME IInv, [Next]_vars, NEW t \in Images \cup Installers
  PROVE  finishing'[t] = NoWait
<1>a. Types /\ Tracking /\ Finishing /\ t \in Targets /\ finishing[t] = NoWait
  BY Kinds DEF IInv, Tracking
<1>1. ~EndFinish(t)
  BY <1>a DEF EndFinish
<1>2. ASSUME CallsFinish(t) PROVE finishing'[t] = NoWait
  <2>1. t \in Images
    <3>1. main.platform \in DOMAIN Plan /\ Platform = Plan[main.platform]
      BY <1>a DEF Types, MainStates, Platform
    <3>2. t \notin Writers /\ (t \in Installers => t \notin AsyncTargets)
      BY Kinds
    <3> QED
      BY <1>2, <3>1, <3>2, PlanTypes DEF CallsFinish
  <2>2. FinishCall(t) = "resolved"
    BY <2>1, <1>a, Decisions DEF FinishCall, Tracking, Types
  <2> QED
    BY <1>2, <1>a, <2>2, FinishCalled
<1> QED
  BY <1>a, <1>1, <1>2, QueuesMove

\* The queue of an image stays empty.
LEMMA NextUnqueued ==
  ASSUME IInv, [Next]_vars, NEW t \in Images
  PROVE  queues'[t].tasks = {} /\ queues'[t].errors = {}
<1>a. Types /\ Reading /\ Tracking /\ Finishing /\ t \in Targets /\ t \notin Archives \cup Writers \cup Installers
  BY Kinds DEF IInv
<1>b. queues[t].tasks = {} /\ queues[t].errors = {}
  BY <1>a DEF Tracking
<1> DEFINE Kept == queues'[t].tasks = {} /\ queues'[t].errors = {}
<1> USE DEF tasks, works, packing, ending
<1>1. ASSUME NEW p \in Packs, FinishPack(p) PROVE Kept
  <2>1. Plan[PlatformOf(p)].asyncTargets = TargetsOf(PlatformOf(p)) \cap AsyncTargets
    BY PlatformOfPack, PlanTypes
  <2>2. BuildAsyncTargets(p, Plan[PlatformOf(p)].asyncTargets) \/ UNCHANGED queues
    BY <1>1 DEF FinishPack
  <2>3. queues'[t] = queues[t]
    BY <2>1, <2>2, <1>a, AsyncBuilds
  <2> QED
    BY <2>3, <1>b
<1>2. ASSUME NEW w \in Work, EndWork(w) \/ WorkFails(w) PROVE Kept
  <2>1. SettleWork(w, TRUE) \/ SettleWork(w, FALSE)
    BY <1>2 DEF EndWork, WorkFails
  <2>2. queues'[t] = queues[t]
    BY <2>1, <1>a, WorkSettles
  <2> QED
    BY <2>2, <1>b
<1>3. ASSUME NEW w \in Work, EndWriting(w) PROVE Kept
  <2>1. queues'[t] = queues[t]
    BY <1>3, <1>a, WriterQueues
  <2> QED
    BY <2>1, <1>b
<1>4. ASSUME NEW u \in Targets, EndFinish(u) PROVE Kept
  <2>1. queues'[t] = queues[t]
    BY <1>4, <1>a, Finished
  <2> QED
    BY <2>1, <1>b
<1>5. ASSUME EndPlatform PROVE Kept
  <2>1. CASE cancelled
    BY <1>5, <2>1, <1>b DEF EndPlatform
  <2>2. CASE ~cancelled
    <3>1. FinishAsyncTargets(Platform.asyncTargets) /\ Platform.asyncTargets \subseteq AsyncTargets
      BY <1>5, <2>2, <1>a, PlanTypes DEF EndPlatform, Types, MainStates, Platform
    <3>2. CASE t \notin Platform.asyncTargets
      <4>1. queues'[t] = queues[t]
        BY <3>1, <3>2, <1>a, AsyncFinishes
      <4> QED
        BY <4>1, <1>b
    <3>3. CASE t \in Platform.asyncTargets
      <4>1. queues'[t].tasks = {} /\ queues'[t].errors = queues[t].errors
        BY <3>1, <3>3, <1>a, AsyncFinishes
      <4> QED
        BY <4>1, <1>b
    <3> QED
      BY <3>2, <3>3
  <2> QED
    BY <2>1, <2>2
<1>6. ASSUME FinishSyncTarget PROVE Kept
  <2>1. PICK u : u = Head(main.syncTargets)
    OBVIOUS
  <2>2. main.syncTargets # <<>> /\ u \in Writers \cup Installers
    BY <1>6, <2>1, <1>a, TailOf DEF FinishSyncTarget, Types, MainStates
  <2>3. queues' = queues \/ queues' = [queues EXCEPT ![u] = After(queues[u], FinishCall(u))]
    BY <1>6, <2>1 DEF FinishSyncTarget
  <2>4. queues'[t] = queues[t]
    BY <2>2, <2>3, <1>a DEF Types
  <2> QED
    BY <2>4, <1>b
<1>7. ASSUME \/ StartPack \/ StartPool \/ BuildFails \/ AwaitTasks \/ EndRound
             \/ EndInstaller \/ EndSyncTargets \/ EndBuild \/ Cancel
             \/ \E p \in Packs : PackFails(p) \/ EndImages(p) \/ BuildSyncTarget(p) \/ EndGroup(p) \/ Finalize(p)
             \/ \E w \in Work : WaitForPackWork(w) \/ StartWriting(w) \/ WriterFails(w)
             \/ UNCHANGED vars
      PROVE  Kept
  <2>1. queues' = queues
    BY <1>7 DEF StartPack, StartPool, BuildFails, Rejects, AwaitTasks, EndRound, ContinueWait,
              EndInstaller, EndSyncTargets, EndBuild, Cancel, PackFails, EndImages, BuildSyncTarget, EndGroup, Finalize,
              WaitForPackWork, StartWriting, WriterFails, vars
  <2> QED
    BY <2>1, <1>b
<1> HIDE DEF Kept
<1>8. Kept
  BY <1>1, <1>2, <1>3, <1>4, <1>5, <1>6, <1>7 DEF Next, Main, PackStep, WorkStep, Ended
<1> QED
  BY <1>8 DEF Kept

\* Every step keeps what was begun in the task manager, a group or a queue.
LEMMA NextTracking == IInv /\ [Next]_vars => Tracking'
<1> SUFFICES ASSUME IInv, [Next]_vars PROVE Tracking'
  OBVIOUS
<1>1. \A p \in Packs : GoesOn' => Grouped(p)'
  BY NextGrouped
<1>2. \A w \in Work : GoesOn' /\ IsWriter(w) => Written(w)'
  BY NextWritten
<1>3. \A w \in Work : GoesOn' /\ IsImage(w) => Imaged(w)'
  BY NextImaged
<1>4. \A w \in Work : GoesOn' /\ IsArchive(w) /\ packs'[w[1]] = "packed" => work'[w] # "new"
  BY NextArchived
<1>5. \A w \in Work : IsArchive(w) \/ IsWriter(w) => Queued(w)'
  BY NextQueued
<1>6. \A t \in Images : queues'[t].tasks = {} /\ queues'[t].errors = {}
  BY NextUnqueued
<1>7. \A t \in Images \cup Installers : finishing'[t] = NoWait
  BY NextUnawaited
<1> QED
  BY <1>1, <1>2, <1>3, <1>4, <1>5, <1>6, <1>7 DEF Tracking, IsArchive, IsWriter, IsImage, TargetOf

-----------------------------------------------------------------------------
(* finishBuild.                                                             *)

\* Work that is done stays so.
LEMMA DoneStays ==
  ASSUME IInv, [Next]_vars, NEW w \in Work, work[w] = "done"
  PROVE  work'[w] = "done"
<1>a. Types /\ Reading
  BY DEF IInv
<1> USE DEF tasks, works, packing, ending
<1>1. ASSUME NEW p \in Packs, FinishPack(p) PROVE work'[w] = work[w]
  <2>1. Plan[PlatformOf(p)].asyncTargets = TargetsOf(PlatformOf(p)) \cap AsyncTargets
    BY PlatformOfPack, PlanTypes
  <2>2. BuildAsyncTargets(p, Plan[PlatformOf(p)].asyncTargets) \/ UNCHANGED work
    BY <1>1 DEF FinishPack
  <2>3. ~(~IsInstaller(w) /\ w[1] = p)
    BY <1>1, <1>a DEF FinishPack, Reading, OnPack
  <2> QED
    BY <2>1, <2>2, <2>3, <1>a, AsyncBuilds
<1>2. ASSUME NEW p \in Packs, BuildSyncTarget(p) PROVE work'[w] = work[w]
  <2>1. PICK t : t = Head(groups[p].targets)
    OBVIOUS
  <2>2. /\ groups[p].targets # <<>> /\ (t \in Writers => work[<<p, t>>] = "new")
        /\ (work' = work \/ (t \notin Installers /\ work' = [work EXCEPT ![<<p, t>>] = "building"]))
    BY <1>2, <2>1 DEF BuildSyncTarget
  <2>3. t \in Writers \cup Installers
    BY <2>1, <2>2, <1>a, TailOf DEF Types, GroupStates
  <2> QED
    BY <2>2, <2>3, <1>a DEF Types
<1>3. ASSUME NEW v \in Work, WorkStep(v) PROVE work'[w] = work[w]
  <2>1. work[v] \in {"building", "waiting", "writing", "working"} /\ \E s : work' = [work EXCEPT ![v] = s]
    BY <1>3 DEF WorkStep, WaitForPackWork, StartWriting, EndWriting, WriterFails, EndWork, WorkFails, SettleWork, IsReading
  <2> QED
    BY <2>1, <1>a DEF Types
<1>4. ASSUME FinishSyncTarget PROVE work'[w] = work[w]
  <2>1. PICK t : t = Head(main.syncTargets)
    OBVIOUS
  <2>2. work' = work \/ (work[<<t>>] = "new" /\ work' = [work EXCEPT ![<<t>>] = "working"])
    BY <1>4, <2>1 DEF FinishSyncTarget
  <2> QED
    BY <2>2, <1>a DEF Types
<1>5. CASE \/ Main /\ ~FinishSyncTarget
           \/ \E p \in Packs : PackFails(p) \/ EndImages(p) \/ EndGroup(p)
           \/ \E t \in Targets : EndFinish(t)
           \/ Cancel \/ UNCHANGED vars
  BY <1>5 DEF Main, StartPack, BuildFails, Rejects, StartPool, EndPlatform, AwaitTasks, EndRound,
              ContinueWait, EndInstaller, EndSyncTargets, Finalize, EndBuild, PackFails, EndImages, EndGroup,
              EndFinish, Cancel, vars
<1> QED
  BY <1>1, <1>2, <1>3, <1>4, <1>5 DEF Next, PackStep, Ended

\* All that a target with a queue has queued is done when its queue is empty and nothing has failed.
LEMMA QueueDone ==
  ASSUME IInv, GoesOn, NEW i \in DOMAIN Plan, NEW t \in TargetsOf(i),
         t \in Archives \/ (t \in Writers /\ IsPastTasks),
         \A p \in ToSet(Plan[i].packs) : packs[p] = "packed",
         queues[t].tasks = {}, queues[t].errors = {}, \A w \in QueueAwaited(t) : Settled(w)
  PROVE  IsDone(t)
<1>a. Types /\ Tracking
  BY DEF IInv
<1> SUFFICES ASSUME NEW w \in Work, TargetOf(w) = t PROVE work[w] = "done"
  BY DEF IsDone
<1>1. (IsArchive(w) \/ IsWriter(w)) /\ ~IsInstaller(w) /\ w[1] \in Packs
  BY WorkShape, Kinds DEF IsArchive, IsWriter, IsInstaller
<1>2. packs[w[1]] = "packed"
  BY <1>1, PackOfTarget
<1>3. work[w] # "working"
  BY <1>1, <1>a DEF Tracking, Queued, QueueAwaited, Settled
<1>4. CASE IsArchive(w)
  <2>1. work[w] \in {"new", "working", "done", "failed"}
    BY <1>4, <1>a, StatesAre DEF Types
  <2>2. work[w] # "new" /\ Queued(w) /\ ~IsWriter(w)
    BY <1>2, <1>4, <1>a, Kinds DEF Tracking, IsArchive, IsWriter
  <2> QED
    BY <1>3, <2>1, <2>2 DEF Queued
<1>5. CASE IsWriter(w)
  <2>1. IsPastTasks
    BY <1>5, Kinds DEF IsWriter
  <2> QED
    BY <1>3, <1>5, <2>1, AllBuilt
<1> QED
  BY <1>1, <1>4, <1>5

\* How doBuild moves on.
TakesNext ==
  /\ main.step = "finishing" /\ main.syncTargets # <<>>
  /\ main' = [main EXCEPT !.syncTargets = Tail(@)]
  /\ GoesOn => IsDone(Head(main.syncTargets))

\* It packs, and it awaits the tasks.
StillPacks ==
  main.step \in {"packing", "pooling"} /\ main'.step \in {"packing", "pooling", "rejected"}
StillWaits ==
  main.step = "awaiting" /\ main'.step \in {"awaiting", "finishing", "rejected"}

\* It takes the next of its sync targets when what that has built is done.
LEMMA MainMoves ==
  ASSUME IInv, [Next]_vars
  PROVE  \/ main' = main
         \/ EndPlatform
         \/ (StillPacks \/ StillWaits) /\ main'.syncTargets = main.syncTargets /\ main'.platform = main.platform
         \/ main.step = "finishing" /\ main'.step = "rejected"
         \/ TakesNext
         \/ EndSyncTargets
         \/ EndBuild
<1>a. Types /\ Order /\ Reading /\ Listening /\ Tracking /\ Finishing /\ main \in MainStates
  BY DEF IInv, Types
<1> USE DEF tasks, works, packing, ending
<1>b. ASSUME main.step = "finishing", GoesOn, NEW t \in Writers, t \in Targets,
             queues[t].tasks = {}, queues[t].errors = {}, \A w \in QueueAwaited(t) : Settled(w)
      PROVE  IsDone(t)
  <2>1. PICK i \in DOMAIN Plan : t \in TargetsOf(i)
    BY <1>b, PlatformOfTarget
  <2>2. \A p \in ToSet(Plan[i].packs) : packs[p] = "packed"
    BY <1>a, <1>b DEF Order, HasEnded
  <2> QED
    BY <1>b, <2>1, <2>2, QueueDone DEF IsPastTasks
<1>1. CASE StartPack \/ StartPool \/ BuildFails
  BY <1>1, <1>a DEF StartPack, StartPool, BuildFails, Rejects, MainStates, StillPacks
<1>2. CASE AwaitTasks \/ EndRound
  <2>1. main.step = "awaiting" /\ \E s \in {"awaiting", "finishing", "rejected"} : main' = [main EXCEPT !.step = s]
    BY <1>2, <1>a, Waits
  <2> QED
    BY <2>1, <1>a DEF MainStates, StillWaits
<1>3. ASSUME NEW t \in Targets, EndFinish(t)
      PROVE  main' = main \/ (main.step = "finishing" /\ main'.step = "rejected") \/ TakesNext
  <2>1. CASE main' # main
    <3>1. /\ t \in Writers /\ main.step = "finishing" /\ main.syncTargets # <<>> /\ Head(main.syncTargets) = t
          /\ \/ queues[t].errors = {} /\ queues[t].tasks = {} /\ main' = [main EXCEPT !.syncTargets = Tail(@)]
             \/ main' = [main EXCEPT !.step = "rejected"]
      BY <1>3, <1>a, <2>1, Finished
    <3>2. \A w \in QueueAwaited(t) : Settled(w)
      BY <1>3 DEF EndFinish, QueueAwaited
    <3>3. queues[t].errors = {} /\ queues[t].tasks = {} /\ GoesOn => IsDone(t)
      BY <1>b, <3>1, <3>2
    <3> QED
      BY <3>1, <3>3, <1>a DEF TakesNext, MainStates
  <2> QED
    BY <2>1
<1>4. CASE FinishSyncTarget
  <2>1. PICK t : t = Head(main.syncTargets)
    OBVIOUS
  <2>2. main.step = "finishing" /\ main.syncTargets # <<>> /\ finishing[t] = NoWait /\ t \in Writers \cup Installers
    BY <1>4, <2>1, <1>a, TailOf DEF FinishSyncTarget, MainStates
  <2>3. \/ main' = main
        \/ main' = [main EXCEPT !.step = "rejected"]
        \/ t \notin Installers /\ FinishCall(t) = "resolved" /\ main' = [main EXCEPT !.syncTargets = Tail(@)]
    BY <1>4, <2>1 DEF FinishSyncTarget
  <2>4. CASE t \notin Installers /\ FinishCall(t) = "resolved" /\ main' = [main EXCEPT !.syncTargets = Tail(@)]
    <3>1. t \in Targets /\ t \in Writers
      BY <2>2, <2>4, Kinds
    <3>2. queues[t].errors = {} /\ queues[t].tasks = {}
      BY <3>1, <2>4, <1>a, Decisions DEF FinishCall, Types
    <3>3. QueueAwaited(t) = {}
      BY <2>2 DEF QueueAwaited
    <3>4. GoesOn => IsDone(t)
      BY <1>b, <2>2, <3>1, <3>2, <3>3
    <3> QED
      BY <2>1, <2>2, <2>4, <3>4 DEF TakesNext
  <2> QED
    BY <2>2, <2>3, <2>4, <1>a DEF MainStates
<1>5. CASE EndInstaller
  <2>1. PICK t : t = Head(main.syncTargets)
    OBVIOUS
  <2>2. /\ main.step = "finishing" /\ main.syncTargets # <<>> /\ t \in Installers
        /\ \/ work[<<t>>] = "done" /\ main' = [main EXCEPT !.syncTargets = Tail(@)]
           \/ main' = [main EXCEPT !.step = "rejected"]
    BY <1>5, <2>1 DEF EndInstaller
  <2>3. work[<<t>>] = "done" => IsDone(t)
    BY <2>2, WorkShape DEF IsDone
  <2> QED
    BY <2>1, <2>2, <2>3, <1>a DEF TakesNext, MainStates
<1>6. CASE \/ \E p \in Packs : PackStep(p) \/ Finalize(p)
           \/ \E w \in Work : WorkStep(w)
           \/ Cancel \/ UNCHANGED vars
  <2>1. main' = main
    BY <1>6 DEF PackStep, FinishPack, PackFails, EndImages, BuildSyncTarget, EndGroup, Finalize, WorkStep, WaitForPackWork,
                StartWriting, EndWriting, WriterFails, EndWork, WorkFails, Cancel, vars
  <2> QED
    BY <2>1
<1> QED
  BY <1>1, <1>2, <1>3, <1>4, <1>5, <1>6 DEF Next, Main, Ended

\* A platform ends once, when finishBuild of its async targets is called.
LEMMA PlatformsEnd ==
  ASSUME IInv, [Next]_vars, NEW i \in DOMAIN Plan
  PROVE  /\ HasEnded(i) => HasEnded(i)'
         /\ GoesOn' /\ HasEnded(i)' => HasEnded(i) \/ (EndPlatform /\ ~cancelled /\ i = main.platform)
         /\ EndPlatform /\ i = main.platform => HasEnded(i)' /\ ~HasEnded(i)
<1>a. Types /\ main \in MainStates /\ DOMAIN Plan = 1..Len(Plan) /\ Len(Plan) \in Nat
      /\ main.platform \in 1..Len(Plan) /\ i \in 1..Len(Plan)
  BY PlanTypes DEF IInv, Types, MainStates
<1>b. GoesOn' => GoesOn
  BY GoesOnBefore
<1>1. CASE EndPlatform
  <2>1. main.step \in {"packing", "pooling"}
    BY <1>1 DEF EndPlatform, IsPlatformPacked
  <2>2. CASE cancelled
    <3>1. main'.step = "awaiting"
      BY <1>1, <2>2, <1>a DEF EndPlatform, MainStates
    <3> QED
      BY <2>1, <2>2, <3>1, <1>a, <1>b DEF HasEnded, GoesOn
  <2>3. CASE ~cancelled
    <3>1. \/ main.platform = Len(Plan) /\ main'.step = "awaiting" /\ main'.platform = main.platform
          \/ main.platform < Len(Plan) /\ main'.step = "packing" /\ main'.platform = main.platform + 1
      BY <1>1, <2>3, <1>a, PlatformEnds
    <3>2. HasEnded(i) <=> i < main.platform
      BY <2>1, <1>a DEF HasEnded
    <3>3. HasEnded(i)' <=> i <= main.platform
      <4>1. CASE main.platform = Len(Plan) /\ main'.step = "awaiting"
        BY <4>1, <1>a DEF HasEnded
      <4>2. CASE main'.step = "packing" /\ main'.platform = main.platform + 1
        BY <4>2, <1>a DEF HasEnded
      <4> QED
        BY <3>1, <4>1, <4>2
    <3> QED
      BY <1>1, <2>3, <3>2, <3>3, <1>a
  <2> QED
    BY <2>2, <2>3
<1>2. CASE ~EndPlatform
  <2>1. CASE main' = main
    BY <2>1, <1>2 DEF HasEnded
  <2>2. CASE (StillPacks \/ StillWaits) /\ main'.platform = main.platform
    BY <2>2, <1>2 DEF HasEnded, StillPacks, StillWaits, GoesOn
  <2>3. CASE TakesNext \/ EndSyncTargets \/ EndBuild \/ (main.step = "finishing" /\ main'.step = "rejected")
    <3>1. main.step \notin {"packing", "pooling"} /\ main'.step \notin {"packing", "pooling"}
      BY <2>3, <1>a, MainTakesNext DEF TakesNext, EndSyncTargets, EndBuild, MainStates
    <3> QED
      BY <3>1, <1>2 DEF HasEnded
  <2> QED
    BY <1>2, <2>1, <2>2, <2>3, MainMoves
<1> QED
  BY <1>1, <1>2

\* An async target that is finished is so by the queue, or has left an error.
LEMMA NextAsyncFinishing ==
  ASSUME IInv, [Next]_vars, NEW i \in DOMAIN Plan, NEW t \in Plan[i].asyncTargets
  PROVE  /\ ~HasEnded(i)' => finishing'[t] = NoWait
         /\ GoesOn' /\ HasEnded(i)' /\ finishing'[t] # NoWait => <<"finish", t>> \in pending'
         /\ GoesOn' /\ HasEnded(i)' /\ finishing'[t] = NoWait /\ t \in Archives => IsDone(t)' \/ manager'.errors # {}
<1>a. Types /\ Order /\ Reading /\ Tracking /\ Finishing
  BY DEF IInv
<1>b. t \in TargetsOf(i) /\ t \in AsyncTargets /\ t \in Targets /\ t \notin Writers
  BY PlanTypes, Kinds
<1>c. GoesOn' => GoesOn
  BY GoesOnBefore
<1>d. queues[t] \in Managers(Work) /\ queues[t].tasks # NoWait
  BY <1>a, <1>b, ManagerMethods, NoWaitIsNoSet DEF Types
<1>e. /\ ~HasEnded(i) => finishing[t] = NoWait
      /\ GoesOn /\ HasEnded(i) /\ finishing[t] # NoWait => <<"finish", t>> \in pending
      /\ GoesOn /\ HasEnded(i) /\ finishing[t] = NoWait /\ t \in Archives => IsDone(t) \/ manager.errors # {}
  BY <1>a DEF Finishing
<1>f. IsDone(t) => IsDone(t)'
  BY DoneStays DEF IsDone, TargetOf
<1>g. manager.errors # {} => manager'.errors # {}
  BY ErrorsStay
<1>h. ASSUME CallsFinish(t) PROVE ~HasEnded(i) /\ HasEnded(i)' /\ EndPlatform /\ ~cancelled /\ i = main.platform
  <2>1. EndPlatform /\ ~cancelled /\ t \in Platform.asyncTargets
    BY <1>h, <1>b DEF CallsFinish
  <2>2. main.platform \in DOMAIN Plan /\ t \in TargetsOf(main.platform)
    BY <2>1, <1>a, PlanTypes DEF Types, MainStates, Platform
  <2>3. i = main.platform
    BY <1>b, <2>2, PlatformOfTarget
  <2> QED
    BY <2>1, <2>3, PlatformsEnd
<1>i. ASSUME GoesOn, NEW w \in Work, HasEnded(i) PROVE \A p \in ToSet(Plan[i].packs) : packs[p] = "packed"
  BY <1>i, <1>a DEF Order
<1>1. ASSUME ~HasEnded(i)' PROVE finishing'[t] = NoWait
  <2>1. ~HasEnded(i) /\ ~CallsFinish(t)
    BY <1>1, <1>h, PlatformsEnd
  <2>2. ~EndFinish(t)
    BY <2>1, <1>e DEF EndFinish
  <2> QED
    BY <2>1, <2>2, <1>b, <1>e, QueuesMove
<1>2. ASSUME GoesOn', HasEnded(i)', finishing'[t] # NoWait PROVE <<"finish", t>> \in pending'
  <2>1. CASE HasEnded(i)
    <3>1. finishing[t] # NoWait
      BY <2>1, <1>2, <1>b, <1>h, QueuesMove DEF EndFinish
    <3>2. <<"finish", t>> \in pending
      BY <2>1, <3>1, <1>2, <1>c, <1>e
    <3>3. <<"finish", t>> \notin Work /\ \A p \in Packs : <<"finish", t>> # <<"group", p>>
      BY <1>b, TaskKinds
    <3>4. \A u : <<"finish", t>> = <<"finish", u>> => u = t
      OBVIOUS
    <3> QED
      BY <1>2, <3>2, <3>3, <3>4, PendingMoves
  <2>2. CASE ~HasEnded(i)
    <3>1. EndPlatform /\ ~cancelled /\ i = main.platform
      BY <2>2, <1>2, PlatformsEnd
    <3>2. FinishAsyncTargets(Platform.asyncTargets) /\ Platform = Plan[i] /\ Platform.asyncTargets \subseteq AsyncTargets
      BY <3>1, PlanTypes DEF EndPlatform, Platform
    <3>3. \/ <<"finish", t>> \in pending'
          \/ finishing'[t] = finishing[t]
      BY <3>2, <1>a, AsyncFinishes
    <3> QED
      BY <3>3, <2>2, <1>2, <1>e
  <2> QED
    BY <2>1, <2>2
<1>3. ASSUME GoesOn', HasEnded(i)', finishing'[t] = NoWait, t \in Archives
      PROVE  IsDone(t)' \/ manager'.errors # {}
  <2>1. CASE HasEnded(i)
    <3>1. CASE finishing[t] = NoWait
      BY <3>1, <2>1, <1>3, <1>c, <1>e, <1>f, <1>g
    <3>2. CASE finishing[t] # NoWait
      <4>1. EndFinish(t)
        BY <3>2, <1>3, <1>b, QueuesMove DEF CallsFinish
      <4>2. <<"finish", t>> \in pending
        BY <2>1, <3>2, <1>3, <1>c, <1>e
      <4>3. /\ queues[t].errors # {} \/ (queues[t].errors = {} /\ queues[t].tasks = {})
            /\ Settle(<<"finish", t>>, queues[t].errors = {})
        BY <4>1, <1>3, <1>a, <1>b, <1>d, Finished
      <4>4. CASE queues[t].errors # {}
        <5>1. manager'.errors # {}
          BY <4>2, <4>3, <4>4, <1>a, SettledTask DEF Types
        <5> QED
          BY <5>1
      <4>5. CASE queues[t].errors = {} /\ queues[t].tasks = {}
        <5>1. \A w \in QueueAwaited(t) : Settled(w)
          BY <4>1 DEF EndFinish, QueueAwaited
        <5>2. \A p \in ToSet(Plan[i].packs) : packs[p] = "packed"
          BY <2>1, <1>3, <1>a, <1>c DEF Order
        <5>3. IsDone(t)
          BY <4>5, <5>1, <5>2, <1>3, <1>b, <1>c, QueueDone
        <5> QED
          BY <5>3, <1>f
      <4> QED
        BY <4>3, <4>4, <4>5
    <3> QED
      BY <3>1, <3>2
  <2>2. CASE ~HasEnded(i)
    <3>1. EndPlatform /\ ~cancelled /\ i = main.platform
      BY <2>2, <1>3, PlatformsEnd
    <3>2. FinishAsyncTargets(Platform.asyncTargets) /\ Platform = Plan[i] /\ Platform.asyncTargets \subseteq AsyncTargets
      BY <3>1, PlanTypes DEF EndPlatform, Platform
    <3>3. CallsFinish(t) /\ QueueAwaited(t) = {}
      BY <2>2, <3>1, <3>2, <1>e DEF CallsFinish, QueueAwaited
    <3>4. \/ FinishCall(t) = "rejected"
          \/ FinishCall(t) = "resolved" /\ queues[t].errors = {} /\ queues[t].tasks = {}
      BY <3>3, <1>3, <1>b, <1>d, FinishCalled
    <3>5. CASE FinishCall(t) = "rejected"
      BY <3>2, <3>5, <1>a, AsyncFinishes
    <3>6. CASE queues[t].errors = {} /\ queues[t].tasks = {}
      <4>1. \A p \in ToSet(Plan[i].packs) : packs[p] = "packed"
        <5>1. packs' = packs
          BY <3>1 DEF EndPlatform, packing
        <5>2. Order'
          BY NextOrder
        <5> QED
          BY <5>1, <5>2, <1>3 DEF Order
      <4>2. IsDone(t)
        BY <3>3, <3>6, <4>1, <1>3, <1>b, <1>c, QueueDone
      <4> QED
        BY <4>2, <1>f
    <3> QED
      BY <3>4, <3>5, <3>6
  <2> QED
    BY <2>1, <2>2
<1> QED
  BY <1>1, <1>2, <1>3

\* What finishBuild of a sync target waits for is the queue of the one doBuild has come to.
LEMMA NextSyncFinishing ==
  ASSUME IInv, [Next]_vars, NEW t \in Writers, t \in Targets, finishing'[t] # NoWait
  PROVE  main'.step = "finishing" /\ main'.syncTargets # <<>> /\ Head(main'.syncTargets) = t
<1>a. Types /\ Reading /\ Listening /\ Tracking /\ Finishing /\ t \notin Installers /\ t \notin AsyncTargets
  BY Kinds DEF IInv
<1>1. CASE finishing[t] = NoWait
  <2>1. CallsFinish(t)
    BY <1>1, QueuesMove DEF EndFinish
  <2>2. FinishSyncTarget /\ main.syncTargets # <<>> /\ t = Head(main.syncTargets)
    <3>1. ~(EndPlatform /\ t \in Platform.asyncTargets)
      BY <1>a, PlanTypes DEF Types, MainStates, Platform
    <3> QED
      BY <2>1, <3>1 DEF CallsFinish
  <2>3. FinishCall(t) = "waiting"
    BY <2>1, FinishCalled
  <2>4. main.step = "finishing" /\ main' = main
    BY <2>2, <2>3, <1>a DEF FinishSyncTarget
  <2> QED
    BY <2>2, <2>4
<1>2. CASE finishing[t] # NoWait
  <2>1. main.step = "finishing" /\ main.syncTargets # <<>> /\ Head(main.syncTargets) = t
    BY <1>2, <1>a DEF Finishing
  <2>2. main' = main
    <3>1. ASSUME NEW u \in Targets, EndFinish(u) PROVE main' = main
      <4>1. CASE u = t
        <5>1. finishing'[u] = NoWait \/ main' = main
          BY <3>1, <1>a, Finished
        <5> QED
          BY <4>1, <5>1
      <4>2. CASE u # t
        <5>1. u \in Archives => main' = main
          BY <3>1, <1>a, Kinds, Finished
        <5>2. u \in Writers => u = t
          BY <3>1, <2>1, <1>a DEF EndFinish, Finishing
        <5> QED
          BY <3>1, <4>2, <5>1, <5>2, <1>a, Finished
      <4> QED
        BY <4>1, <4>2
    <3>2. ~FinishSyncTarget /\ ~EndInstaller /\ ~EndSyncTargets
      BY <2>1, <1>2, <1>a DEF FinishSyncTarget, EndInstaller, EndSyncTargets
    <3>3. ~StartPack /\ ~BuildFails /\ ~StartPool /\ ~EndPlatform /\ ~AwaitTasks /\ ~EndRound /\ ~EndBuild
      BY <2>1 DEF StartPack, BuildFails, StartPool, EndPlatform, IsPlatformPacked, AwaitTasks, EndRound, EndBuild
    <3>4. CASE \/ \E p \in Packs : PackStep(p) \/ Finalize(p)
               \/ \E w \in Work : WorkStep(w)
               \/ Cancel \/ UNCHANGED vars
      BY <3>4 DEF PackStep, FinishPack, PackFails, EndImages, BuildSyncTarget, EndGroup, Finalize, WorkStep, WaitForPackWork,
                  StartWriting, EndWriting, WriterFails, EndWork, WorkFails, Cancel, vars
    <3> QED
      BY <3>1, <3>2, <3>3, <3>4 DEF Next, Main, Ended
  <2> QED
    BY <2>1, <2>2
<1> QED
  BY <1>1, <1>2

\* Every sync target of a platform that has ended is still to finish, or done.
LEMMA NextSyncTargets ==
  ASSUME IInv, [Next]_vars, GoesOn', NEW i \in DOMAIN Plan, HasEnded(i)', NEW t \in ToSet(Plan[i].syncTargets)
  PROVE  t \in ToSet(main'.syncTargets) \/ IsDone(t)'
<1>a. Types /\ Finishing /\ GoesOn /\ main \in MainStates /\ main.syncTargets \in Seq(Writers \cup Installers)
  BY GoesOnBefore DEF IInv, Types, MainStates
<1>f. IsDone(t) => IsDone(t)'
  BY DoneStays DEF IsDone, TargetOf
<1>1. CASE ~HasEnded(i)
  <2>1. EndPlatform /\ ~cancelled /\ i = main.platform
    BY <1>1, PlatformsEnd
  <2>2. ToSet(main'.syncTargets) = ToSet(main.syncTargets) \cup ToSet(Plan[i].syncTargets)
    BY <2>1, <1>a, PlatformEnds DEF Platform
  <2> QED
    BY <2>2
<1>2. CASE HasEnded(i)
  <2>1. t \in ToSet(main.syncTargets) \/ IsDone(t)
    BY <1>2, <1>a DEF Finishing
  <2>2. ASSUME t \in ToSet(main.syncTargets) PROVE t \in ToSet(main'.syncTargets) \/ IsDone(t)
    <3>1. CASE main'.syncTargets = main.syncTargets
      BY <2>2, <3>1
    <3>2. CASE TakesNext
      <4>1. ToSet(main.syncTargets) \subseteq ToSet(main'.syncTargets) \cup {Head(main.syncTargets)}
        BY <3>2, <1>a, MainTakesNext DEF TakesNext
      <4> QED
        BY <2>2, <3>2, <4>1, <1>a DEF TakesNext
    <3>3. CASE EndPlatform
      <4>1. ~cancelled
        BY <1>a DEF GoesOn
      <4> QED
        BY <2>2, <3>3, <4>1, <1>a, PlatformEnds
    <3>4. CASE EndSyncTargets \/ EndBuild
      <4>1. main'.syncTargets = main.syncTargets
        BY <3>4, <1>a DEF EndSyncTargets, EndBuild, MainStates
      <4> QED
        BY <2>2, <4>1
    <3>5. main'.step # "rejected"
      BY DEF GoesOn
    <3> QED
      BY <3>1, <3>2, <3>3, <3>4, <3>5, MainMoves
  <2> QED
    BY <2>1, <2>2, <1>f
<1> QED
  BY <1>1, <1>2

\* Every step keeps the calls of finishBuild in order, and what they cover done.
LEMMA NextFinishing == IInv /\ [Next]_vars => Finishing'
<1> SUFFICES ASSUME IInv, [Next]_vars PROVE Finishing'
  OBVIOUS
<1>a. Types /\ Finishing /\ main \in MainStates
  BY DEF IInv, Types
<1>1. \A i \in DOMAIN Plan : \A t \in Plan[i].asyncTargets :
        /\ ~HasEnded(i)' => finishing'[t] = NoWait
        /\ GoesOn' /\ HasEnded(i)' /\ finishing'[t] # NoWait => <<"finish", t>> \in pending'
        /\ GoesOn' /\ HasEnded(i)' /\ finishing'[t] = NoWait /\ t \in Archives => IsDone(t)' \/ manager'.errors # {}
  BY NextAsyncFinishing
<1>2. \A t \in Writers : finishing'[t] # NoWait =>
        main'.step = "finishing" /\ main'.syncTargets # <<>> /\ Head(main'.syncTargets) = t
  BY Kinds, NextSyncFinishing
<1>3. GoesOn' => \A i \in DOMAIN Plan : HasEnded(i)' => \A t \in ToSet(Plan[i].syncTargets) :
        t \in ToSet(main'.syncTargets) \/ IsDone(t)'
  BY NextSyncTargets
<1>4. GoesOn' /\ main'.step \in {"finalizing", "resolved"} => main'.syncTargets = <<>>
  <2> SUFFICES ASSUME GoesOn', main'.step \in {"finalizing", "resolved"} PROVE main'.syncTargets = <<>>
    OBVIOUS
  <2>1. GoesOn
    BY GoesOnBefore
  <2>2. CASE main' = main
    BY <2>1, <2>2, <1>a DEF Finishing
  <2>3. ~EndPlatform
    <3>1. EndPlatform => main'.step \in {"awaiting", "packing"}
      BY <2>1, <1>a, PlatformEnds DEF GoesOn
    <3> QED
      BY <3>1
  <2>4. ~TakesNext
    BY <1>a, MainTakesNext DEF TakesNext
  <2>5. CASE EndSyncTargets
    BY <2>1, <2>5, <1>a DEF EndSyncTargets, MainStates, GoesOn
  <2>6. CASE EndBuild
    BY <2>1, <2>6, <1>a DEF EndBuild, MainStates, Finishing
  <2> QED
    BY <2>2, <2>3, <2>4, <2>5, <2>6, MainMoves DEF StillPacks, StillWaits, GoesOn
<1> QED
  BY <1>1, <1>2, <1>3, <1>4 DEF Finishing

-----------------------------------------------------------------------------
(* The invariant, and what follows.                                         *)

\* A build begins with nothing started.
LEMMA InitIInv == Init => IInv
<1> SUFFICES ASSUME Init PROVE IInv
  OBVIOUS
<1>1. Types
  BY InitTypes
<1>2. /\ main.step = "packing" /\ main.platform = 1 /\ main.pack = 1 /\ main.syncTargets = <<>>
      /\ (\A p \in Packs : packs[p] = "new" /\ groups[p].at = "none") /\ (\A w \in Work : work[w] = "new")
      /\ manager.tasks = {} /\ manager.errors = {} /\ pending = {} /\ round = NoWait
      /\ \A t \in Targets : finishing[t] = NoWait /\ queues[t].tasks = {} /\ queues[t].errors = {}
  BY DEF Init, NewManager
<1>3. Order
  <2>1. \A i \in DOMAIN Plan : ToSet(Plan[i].packs) \subseteq Packs /\ ~(i < 1)
    BY PlanTypes
  <2>2. 1 \in DOMAIN Plan
    BY PlanAssumption
  <2>3. \A k \in DOMAIN Plan[1].packs : Plan[1].packs[k] \in Packs
    BY <2>2, PlanTypes
  <2> QED
    BY <1>2, <2>1, <2>3 DEF Order, HasEnded, Platform
<1>4. Reading
  BY <1>2, WorkShape DEF Reading, OnPack, Alone, InstallersLast, IsInstaller
<1>5. Listening
  BY <1>2 DEF Listening, IsPastTasks
<1>6. Tracking
  <2>1. \A w \in Work : ~IsInstaller(w) => w[1] \in Packs
    BY WorkShape DEF IsInstaller
  <2>2. \A w \in Work : (IsArchive(w) \/ IsImage(w) \/ IsWriter(w)) => ~IsInstaller(w)
    BY Kinds DEF IsInstaller, IsArchive, IsImage, IsWriter
  <2> QED
    BY <1>2, <2>1, <2>2, Kinds DEF Tracking, Grouped, Written, Imaged, Queued
<1>7. Finishing
  <2>1. \A i \in DOMAIN Plan : ~HasEnded(i) /\ Plan[i].asyncTargets \subseteq Targets
    BY <1>2, PlanTypes, Kinds DEF HasEnded
  <2> QED
    BY <1>2, <2>1, Kinds DEF Finishing
<1> QED
  BY <1>1, <1>3, <1>4, <1>5, <1>6, <1>7 DEF IInv

\* Every build that Packager.doBuild makes keeps the invariant, for every plan of platforms,
\* packs and targets and every number of failures.
THEOREM Invariance == Spec => []IInv
<1>1. IInv /\ [Next]_vars => IInv'
  BY NextTypes, NextOrder, NextReading, NextListening, NextTracking, NextFinishing DEF IInv
<1> QED
  BY InitIInv, <1>1, PTL DEF Spec

\* When doBuild has awaited its task manager and goes on to the sync targets, all that build()
\* of the archives queued (Target.buildQueueManager) is done: finishBuild was called after every
\* build() of its platform and waited for the queue.
THEOREM FinishCovers == Spec => []FinishCoversBuilds
<1>1. IInv => FinishCoversBuilds
  <2> SUFFICES ASSUME IInv PROVE FinishCoversBuilds
    OBVIOUS
  <2>a. Types
    BY DEF IInv
  <2>1. /\ main.step \in MainSteps /\ main.platform \in DOMAIN Plan /\ main.pack \in Nat \ {0}
        /\ main.syncTargets \in Seq(Writers \cup Installers) /\ main.pack <= Len(Plan[main.platform].packs) + 1
    BY <2>a DEF Types, MainStates, Platform
  <2>2. main.pack \in 1..(Len(Plan[main.platform].packs) + 1)
    BY <2>1, PlanTypes
  <2>3. \A s \in Seq(Writers \cup Installers) : ToSet(s) \subseteq Targets \ AsyncTargets
    BY Kinds DEF ToSet
  <2>4. \A p \in Packs : /\ groups[p].at \in {"none", "images", "syncs", "ended"}
                         /\ ToSet(groups[p].targets) \subseteq Targets \ AsyncTargets
    BY <2>a, <2>3 DEF Types, GroupStates
  <2>5. TypeOK
    BY <2>a, <2>1, <2>2, <2>3, <2>4 DEF TypeOK, Types
  <2>6. ASSUME main.step = "finishing", ~cancelled, NEW w \in Work, IsArchive(w) PROVE work[w] = "done"
    BY <2>6, AllBuilt DEF GoesOn, IsPastTasks
  <2> QED
    BY <2>5, <2>6 DEF FinishCoversBuilds, IsArchive
<1> QED
  BY Invariance, <1>1, PTL

\* waitForPackWork keeps readers and writers apart: while Squirrel.Windows writes into the
\* directory of a pack, no archive, image or installer reads it.
THEOREM ReadersDoNotMeetWriter == Spec => []NoReadDuringWrite
<1>1. IInv => NoReadDuringWrite
  <2> SUFFICES ASSUME IInv, NEW w \in Work, work[w] = "writing", NEW v \in Work, IsReading(v)
               PROVE  DirsOf(v) \cap DirsOf(w) = {}
    BY DEF NoReadDuringWrite
  <2>a. Types /\ Reading
    BY DEF IInv
  <2>1. IsWriter(w) /\ ~IsInstaller(w)
    BY <2>a, StatesAre, Kinds DEF Types, IsWriter, IsInstaller
  <2>2. OnPack(w) /\ Alone(w) /\ DirsOf(w) = {w[1]} /\ w[1] \in Packs
    BY <2>1, <2>a, WorkShape DEF Reading, IsInstaller
  <2>3. groups[w[1]].at = "syncs"
    BY <2>1, <2>2 DEF OnPack
  <2>4. ~IsInstaller(v)
    BY <2>2, <2>3, <2>a DEF IsReading, IsInstaller, Reading, InstallersLast, Quiet
  <2>5. DirsOf(v) = {v[1]} /\ OnPack(v)
    BY <2>4, <2>a, WorkShape DEF Reading, IsInstaller
  <2>6. v[1] # w[1]
    <3>1. CASE IsArchive(v)
      BY <3>1, <2>2, <2>a, Kinds DEF IsReading, IsArchive, Alone
    <3>2. CASE IsImage(v)
      <4>1. work[v] = "building"
        BY <3>2, <2>a, StatesAre DEF IsReading, Types
      <4> QED
        BY <3>2, <4>1, <2>3, <2>5 DEF OnPack, Settled
    <3>3. CASE IsWriter(v)
      <4>1. v # w
        BY <3>3, Kinds DEF IsReading, IsWriter
      <4> QED
        BY <3>3, <4>1, <2>1, OneWriter
    <3> QED
      BY <3>1, <3>2, <3>3, <2>4, StatesAre
  <2> QED
    BY <2>2, <2>5, <2>6
<1> QED
  BY Invariance, <1>1, PTL

\* When doBuild has finished the sync targets of a build that goes on, all work is done.
LEMMA AllDone ==
  ASSUME IInv, GoesOn, main.step \in {"finalizing", "resolved"}, NEW w \in Work
  PROVE  work[w] = "done"
<1>1. CASE IsArchive(w) \/ IsImage(w)
  BY <1>1, AllBuilt DEF IsPastTasks
<1>2. CASE IsWriter(w) \/ IsInstaller(w)
  <2>1. TargetOf(w) \in Targets \ AsyncTargets
    BY <1>2, Kinds DEF IsWriter, IsInstaller
  <2>2. PICK i \in DOMAIN Plan : TargetOf(w) \in ToSet(Plan[i].syncTargets)
    BY <2>1, PlatformOfTarget, PlanTypes
  <2>3. HasEnded(i) /\ main.syncTargets = <<>>
    BY DEF HasEnded, IInv, Finishing
  <2>4. ToSet(<<>>) = {}
    BY DEF ToSet
  <2>5. IsDone(TargetOf(w))
    BY <2>2, <2>3, <2>4 DEF IInv, Finishing
  <2> QED
    BY <2>5 DEF IsDone
<1> QED
  BY <1>1, <1>2, StatesAre

\* A task that Packager.doBuild has put off to the end (elevate.exe of the NSIS targets) writes
\* into a directory only when every target has finished with it.
THEOREM DeferredAfterReaders == Spec => FinalizeAfterReaders
<1>1. IInv => \A p \in Packs : Finalize(p) => \A w \in Work : p \in DirsOf(w) => work[w] = "done"
  <2> SUFFICES ASSUME IInv, NEW p \in Packs, Finalize(p), NEW w \in Work PROVE work[w] = "done"
    OBVIOUS
  <2>1. main.step = "finalizing" /\ GoesOn
    BY DEF Finalize, GoesOn
  <2> QED
    BY <2>1, AllDone
<1> QED
  BY Invariance, <1>1, PTL DEF FinalizeAfterReaders

-----------------------------------------------------------------------------
(* What the build promises.                                                 *)

\* What the packager shows of a build: the artifacts announced, and whether it has ended.
Emitted == {w \in Work : work[w] = "done"}
Phase == IF main.step \in {"resolved", "rejected"} THEN main.step ELSE "building"

\* Work is done when its target has announced it.
LEMMA EndIsAnnounced ==
  ASSUME IInv, [Next]_vars, \A w \in Work : ~EndWork(w)
  PROVE  Emitted' = Emitted
<1>a. Types
  BY DEF IInv
<1> USE DEF tasks, works, packing, ending
<1>1. ASSUME NEW w \in Work, work'[w] = "done" PROVE work[w] = "done"
  <2>1. ASSUME NEW p \in Packs, FinishPack(p) PROVE work'[w] = work[w]
    <3>1. Plan[PlatformOf(p)].asyncTargets = TargetsOf(PlatformOf(p)) \cap AsyncTargets
      BY PlatformOfPack, PlanTypes
    <3>2. BuildAsyncTargets(p, Plan[PlatformOf(p)].asyncTargets) \/ UNCHANGED work
      BY <2>1 DEF FinishPack
    <3>3. TargetOf(w) \in AsyncTargets => IsArchive(w) \/ IsImage(w)
      BY Kinds DEF IsArchive, IsImage
    <3> QED
      BY <1>1, <3>1, <3>2, <3>3, <1>a, AsyncBuilds
  <2>2. ASSUME NEW p \in Packs, BuildSyncTarget(p) PROVE work'[w] = work[w]
    <3>1. work' = work \/ \E v : work' = [work EXCEPT ![v] = "building"]
      BY <2>2 DEF BuildSyncTarget
    <3> QED
      BY <3>1, <1>1, <1>a DEF Types
  <2>3. ASSUME NEW v \in Work, WaitForPackWork(v) \/ StartWriting(v) \/ EndWriting(v) \/ WriterFails(v) \/ WorkFails(v)
        PROVE  work'[w] = work[w]
    <3>1. \E s \in {"waiting", "writing", "working", "failed"} : work' = [work EXCEPT ![v] = s]
      BY <2>3 DEF WaitForPackWork, StartWriting, EndWriting, WriterFails, WorkFails, SettleWork
    <3> QED
      BY <3>1, <1>1, <1>a DEF Types
  <2>4. ASSUME FinishSyncTarget PROVE work'[w] = work[w]
    <3>1. work' = work \/ \E v : work' = [work EXCEPT ![v] = "working"]
      BY <2>4 DEF FinishSyncTarget
    <3> QED
      BY <3>1, <1>1, <1>a DEF Types
  <2>5. CASE \/ Main /\ ~FinishSyncTarget
             \/ \E p \in Packs : PackFails(p) \/ EndImages(p) \/ EndGroup(p)
             \/ \E t \in Targets : EndFinish(t)
             \/ Cancel \/ UNCHANGED vars
    <3>1. work' = work
      BY <2>5 DEF Main, StartPack, BuildFails, Rejects, StartPool, EndPlatform, AwaitTasks, EndRound,
                ContinueWait, EndInstaller, EndSyncTargets, Finalize, EndBuild, PackFails, EndImages, EndGroup,
                EndFinish, Cancel, vars
    <3> QED
      BY <3>1, <1>1
  <2> QED
    BY <1>1, <2>1, <2>2, <2>3, <2>4, <2>5 DEF Next, PackStep, WorkStep, Ended
<1> QED
  BY <1>1, DoneStays DEF Emitted

\* The end of a piece of work announces one artifact, of a build that has not resolved or was cancelled.
LEMMA WorkIsEmitted ==
  ASSUME IInv, [Next]_vars, NEW w \in Work, EndWork(w)
  PROVE  Promise!Emit(w)
<1>a. Types
  BY DEF IInv
<1>1. IsReading(w) /\ UNCHANGED <<main, cancelled>> /\ SettleWork(w, TRUE)
  BY DEF EndWork
<1>2. work'[w] = "done" /\ \A v \in Work : v # w => work'[v] = work[v]
  BY <1>1, <1>a, WorkSettles
<1>3. work[w] # "done"
  BY <1>1 DEF IsReading
<1>4. Phase = "resolved" => cancelled
  BY <1>3, AllDone DEF Phase, GoesOn
<1>5. w \in Work \ Emitted /\ Emitted' = Emitted \cup {w} /\ Phase' = Phase
  BY <1>1, <1>2, <1>3 DEF Emitted, Phase
<1> QED
  BY <1>1, <1>4, <1>5 DEF Promise!Emit, Emitted, Phase

\* Every step of a build is a step of what the packager promises, or one that it does not see.
LEMMA StepImplements ==
  ASSUME IInv, [Next]_vars PROVE [Promise!Next]_(Promise!packager)
<1>a. Types /\ main \in MainStates
  BY DEF IInv, Types
<1>1. CASE \E w \in Work : EndWork(w)
  BY <1>1, WorkIsEmitted DEF Promise!Next
<1>2. CASE \A w \in Work : ~EndWork(w)
  <2>1. Emitted' = Emitted
    BY <1>2, EndIsAnnounced
  <2>2. CASE Cancel
    <3>1. cancelled' = TRUE /\ Phase' = Phase
      BY <2>2 DEF Cancel, Phase
    <3> QED
      BY <2>1, <3>1 DEF Promise!Next, Promise!Cancel, Emitted, Phase
  <2>3. CASE ~Cancel
    <3>1. cancelled' = cancelled
      BY <2>3 DEF Next, Main, StartPack, BuildFails, Rejects, StartPool, EndPlatform, AwaitTasks, EndRound,
                ContinueWait, FinishSyncTarget, EndInstaller, EndSyncTargets, Finalize, EndBuild, PackStep,
                FinishPack, PackFails, EndImages, BuildSyncTarget, EndGroup, WorkStep, WaitForPackWork, StartWriting,
                EndWriting, WriterFails, EndWork, WorkFails, EndFinish, Ended, vars
    <3>2. CASE Phase' = Phase
      BY <2>1, <3>1, <3>2 DEF Promise!packager, Emitted, Phase
    <3>3. CASE Phase = "building" /\ Phase' = "rejected"
      BY <2>1, <3>1, <3>3 DEF Promise!Next, Promise!Reject, Emitted, Phase
    <3>4. CASE EndBuild
      <4>1. Phase = "building" /\ Phase' = "resolved"
        BY <3>4, <1>a DEF EndBuild, Phase, MainStates
      <4>2. cancelled \/ Emitted = Work
        <5>1. ~cancelled => GoesOn /\ main.step = "finalizing"
          BY <3>4 DEF EndBuild, GoesOn
        <5> QED
          BY <5>1, AllDone DEF Emitted
      <4> QED
        BY <2>1, <3>1, <4>1, <4>2 DEF Promise!Next, Promise!Resolve, Emitted, Phase
    <3>5. CASE main' = main
      BY <3>2, <3>5 DEF Phase
    <3>6. CASE EndPlatform
      <4>1. main.step \in {"packing", "pooling"}
        BY <3>6 DEF EndPlatform, IsPlatformPacked
      <4>2. main'.step \in {"awaiting", "packing"}
        <5>1. CASE cancelled
          BY <5>1, <3>6, <1>a DEF EndPlatform, MainStates
        <5>2. CASE ~cancelled
          BY <5>2, <3>6, <1>a, PlatformEnds
        <5> QED
          BY <5>1, <5>2
      <4> QED
        BY <3>2, <4>1, <4>2 DEF Phase
    <3>7. CASE StillPacks \/ StillWaits \/ (main.step = "finishing" /\ main'.step = "rejected")
      BY <3>2, <3>3, <3>7 DEF Phase, StillPacks, StillWaits
    <3>8. CASE TakesNext \/ EndSyncTargets
      <4>1. main.step = "finishing" /\ main'.step \in {"finishing", "finalizing"}
        BY <3>8, <1>a, MainTakesNext DEF TakesNext, EndSyncTargets, MainStates
      <4> QED
        BY <3>2, <4>1 DEF Phase
    <3> QED
      BY <3>4, <3>5, <3>6, <3>7, <3>8, MainMoves
  <2> QED
    BY <2>2, <2>3
<1> QED
  BY <1>1, <1>2

\* doBuild promises PublishManager: it resolves without a cancel only when every artifact of the
\* plan was announced, and announces none later.  That it ends is left to the run.
THEOREM PromiseIsKept == Spec => Promise!SafeSpec
<1>1. Init => Promise!Init
  <2>1. Init => Phase = "building" /\ Emitted = {} /\ cancelled = FALSE
    BY DEF Init, Phase, Emitted
  <2> QED
    BY <2>1 DEF Promise!Init, Phase, Emitted
<1>2. IInv /\ [Next]_vars => [Promise!Next]_(Promise!packager)
  BY StepImplements
<1> QED
  BY Invariance, <1>1, <1>2, PTL DEF Spec, Promise!SafeSpec
=============================================================================
