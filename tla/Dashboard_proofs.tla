-------------------------- MODULE Dashboard_proofs --------------------------
(***************************************************************************)
(* The map always has a node for each guest and the page keeps its types   *)
(* (TypeOK), and no migration runs unwatched (RunningIsTracked).  Both     *)
(* rest on what is known of each call in flight by its kind: what its      *)
(* answer may be, which copy of the map it carries, and that a poll that   *)
(* was told its guest does not migrate is about a task that has ended.     *)
(***************************************************************************)
EXTENDS Dashboard, TLAPS

Moves == [guest : Guests, source : Nodes, target : Nodes]
TaskRecords ==
    [guest : Guests, target : Nodes, state : {"running", "moved", "failed", "aborted"}]

\* A migration that is tracked by the number of its task, in the tasks ts.
IsTracked(ts, m) ==
    m.task \in DOMAIN ts /\ m.guest \in Guests /\ ts[m.task].guest = m.guest

HasEnded(ts, m) == ts[m.task].state # "running"

\* What GET /api/analyze answers, and the page keeps.
IsMap(d) ==
    /\ d = [x \in DOMAIN d |-> d[x]]
    /\ {"at", "lists", "tags"} \subseteq DOMAIN d
    /\ d.at \in [Guests -> Nodes]
    /\ d.lists \in [Nodes -> SUBSET Guests]

Answered(c) == c.answer \notin {None, Error}

IsCall(c) ==
    /\ c = [x \in DOMAIN c |-> c[x]]
    /\ {"id", "kind", "answer"} \subseteq DOMAIN c

IsScan(c) ==
    /\ {"at", "lists"} \subseteq DOMAIN c
    /\ DOMAIN c.at \subseteq Guests
    /\ \A g \in DOMAIN c.at : c.at[g] \in Nodes
    /\ DOMAIN c.lists \subseteq Nodes
    /\ c.lists \in [DOMAIN c.lists -> SUBSET Guests]
    /\ c.answer = None => DOMAIN c.lists # Nodes
    /\ Answered(c) => DOMAIN c.lists = Nodes

\* What is known of a call in flight, by its kind.
CallOK(ts, c) ==
    /\ IsCall(c)
    /\ c.kind = "analyze" /\ Answered(c) => IsMap(c.answer)
    /\ c.kind = "locations" => IsScan(c)
    /\ c.kind \in {"addTag", "removeTag", "refreshTags", "stop", "stopLocation"} =>
         "snap" \in DOMAIN c /\ IsMap(c.snap)
    /\ c.kind = "migrate" =>
         /\ "of" \in DOMAIN c /\ c.of \in Moves
         /\ Answered(c) => c.answer \in DOMAIN ts /\ ts[c.answer].guest = c.of.guest
    /\ c.kind \in {"migrating", "task", "location", "stop", "stopLocation"} =>
         "of" \in DOMAIN c /\ IsTracked(ts, c.of)
    /\ c.kind = "migrating" /\ Answered(c) /\ c.answer # "yes" => HasEnded(ts, c.of)
    /\ c.kind = "task" =>
         "migrating" \in DOMAIN c /\ (c.migrating # "yes" => HasEnded(ts, c.of))
    /\ c.kind \in {"location", "stopLocation"} /\ Answered(c) => c.answer \in Nodes

\* The kinds of call of which something is known.
Known == {"analyze", "locations", "addTag", "removeTag", "refreshTags", "stop", "stopLocation",
          "migrate", "migrating", "task", "location"}

-----------------------------------------------------------------------------
(* The inductive invariant.                                                *)

ClusterInv ==
    /\ location \in [Guests -> Nodes]
    /\ IsMap(cache)
    /\ views = [w \in Workers |-> views[w]]
    /\ \A w \in Workers : IsMap(views[w])

TasksInv == tasks \in Seq(TaskRecords)

RunInv == troubles \in Nat /\ started \in Nat /\ (run # None => started # 0)

IsModal(ts, m) ==
    /\ m.kind = "migrate" => m.of \in Moves
    /\ m.kind = "dialog" => m.of \in [guest : Guests, source : Nodes]
    /\ m.kind = "cancel" => IsTracked(ts, m.of) /\ IsMap(m.snap)

\* There may be no data yet, but then no dialog is open.
MapInv ==
    /\ data # None => IsMap(data)
    /\ loading \in BOOLEAN
    /\ modal # None => IsModal(tasks, modal) /\ IsMap(data)

CardsInv ==
    /\ \A m \in trackers : IsTracked(tasks, m)
    /\ \A key \in DOMAIN activeMigrations : IsTracked(tasks, activeMigrations[key])
    /\ guestsMigrating \subseteq Guests
    /\ DOMAIN completedMigrations \subseteq Guests
    /\ \A key \in DOMAIN migrationStatus :
         migrationStatus[key] \in {"running", "failed", "success", "cancelled"}
    /\ cancellingMigration \in BOOLEAN

CallsInv == \A c \in calls : CallOK(tasks, c)

DashInv == ClusterInv /\ TasksInv /\ RunInv /\ MapInv /\ CardsInv /\ CallsInv

-----------------------------------------------------------------------------
(* Records of calls.                                                       *)

LEMMA MadeCall ==
  ASSUME NEW kind, NEW args, NEW c, c = Call(kind, args)
  PROVE  /\ IsCall(c)
         /\ c.kind = kind
         /\ c.answer = None
         /\ \A x \in DOMAIN args \ {"id", "kind", "answer"} : x \in DOMAIN c /\ c[x] = args[x]
BY DEF IsCall, Call, Over

LEMMA CallWithField ==
  ASSUME NEW c, IsCall(c), NEW f \in {"id", "answer", "seen", "computed", "wrote"}, NEW a,
         NEW d, d = [x \in DOMAIN c |-> IF x = f THEN a ELSE c[x]]
  PROVE  /\ IsCall(d)
         /\ DOMAIN d = DOMAIN c
         /\ d.kind = c.kind
         /\ f = "answer" => d.answer = a
         /\ f # "answer" => d.answer = c.answer
         /\ \A x \in DOMAIN c \ {f} : d[x] = c[x]
BY DEF IsCall

\* A call of another kind, however it was made or changed, has nothing to keep.
LEMMA OtherKind ==
  ASSUME NEW ts, NEW c, IsCall(c), c.kind \notin Known
  PROVE  CallOK(ts, c)
BY DEF CallOK, Known

\* A call keeps what is known of it while tasks are added and end.
Grows(ts, us) ==
    /\ DOMAIN ts \subseteq DOMAIN us
    /\ \A t \in DOMAIN ts : /\ us[t].guest = ts[t].guest
                            /\ us[t].state = "running" => ts[t].state = "running"

LEMMA TrackedGrows ==
  ASSUME NEW ts, NEW us, Grows(ts, us), NEW m, IsTracked(ts, m)
  PROVE  IsTracked(us, m) /\ (HasEnded(ts, m) => HasEnded(us, m))
BY DEF Grows, IsTracked, HasEnded

LEMMA CallGrows ==
  ASSUME NEW ts, NEW us, Grows(ts, us), NEW c, CallOK(ts, c)
  PROVE  CallOK(us, c)
<1>1. c.kind = "migrate" /\ Answered(c) => c.answer \in DOMAIN us /\ us[c.answer].guest = c.of.guest
  BY DEF CallOK, Grows
<1>2. c.kind \in {"migrating", "task", "location", "stop", "stopLocation"} =>
        IsTracked(us, c.of) /\ (HasEnded(ts, c.of) => HasEnded(us, c.of))
  BY TrackedGrows DEF CallOK
<1> QED
  BY <1>1, <1>2 DEF CallOK

\* The number of a call is not part of what is known of it.
LEMMA CallNumbered ==
  ASSUME NEW ts, NEW c, CallOK(ts, c), NEW i, NEW d, d = [c EXCEPT !.id = i]
  PROVE  CallOK(ts, d) /\ d.kind = c.kind /\ d.answer = c.answer
<1>1. IsCall(c)
  BY DEF CallOK
<1>2. /\ IsCall(d) /\ DOMAIN d = DOMAIN c /\ d.kind = c.kind /\ d.answer = c.answer
      /\ \A x \in DOMAIN c \ {"id"} : d[x] = c[x]
  BY <1>1 DEF IsCall
<1>3. Answered(d) <=> Answered(c)
  BY <1>2 DEF Answered
<1>4. c.kind = "locations" => IsScan(d)
  BY <1>2, <1>3 DEF CallOK, IsScan
<1> QED
  BY <1>2, <1>3, <1>4 DEF CallOK

\* What the answer of a call must be, by its kind.
Fitting(ts, c, a) ==
    /\ c.kind = "analyze" => IsMap(a)
    /\ c.kind # "locations"
    /\ c.kind = "migrate" => a \in DOMAIN ts /\ ts[a].guest = c.of.guest
    /\ c.kind = "migrating" /\ a # "yes" => HasEnded(ts, c.of)
    /\ c.kind \in {"location", "stopLocation"} => a \in Nodes

LEMMA CallAnswered ==
  ASSUME NEW ts, NEW c, CallOK(ts, c), NEW a, a = Error \/ Fitting(ts, c, a),
         NEW d, d = [c EXCEPT !.answer = a]
  PROVE  CallOK(ts, d) /\ d.kind = c.kind /\ d.answer = a
<1>1. IsCall(c)
  BY DEF CallOK
<1>2. /\ IsCall(d) /\ DOMAIN d = DOMAIN c /\ d.kind = c.kind /\ d.answer = a
      /\ \A x \in DOMAIN c \ {"answer"} : d[x] = c[x]
  BY <1>1 DEF IsCall
<1>3. Answered(d) => Fitting(ts, c, a)
  BY <1>2 DEF Answered
<1>4. c.kind = "locations" => IsScan(d)
  BY <1>2, <1>3, MarkersAssumption DEF CallOK, IsScan, Fitting
<1> QED
  BY <1>2, <1>3, <1>4 DEF CallOK, Fitting

-----------------------------------------------------------------------------
(* New calls.                                                              *)

LEMMA NewOther ==
  ASSUME NEW ts, NEW kind, kind \notin Known, NEW args
  PROVE  CallOK(ts, Call(kind, args))
BY MadeCall, OtherKind

LEMMA NewAnalyze == ASSUME NEW ts PROVE CallOK(ts, AnalyzeCall)
<1>1. IsCall(AnalyzeCall) /\ AnalyzeCall.kind = "analyze" /\ AnalyzeCall.answer = None
  BY MadeCall DEF AnalyzeCall
<1> QED
  BY <1>1 DEF CallOK, Answered

LEMMA NewLocations == ASSUME NEW ts PROVE CallOK(ts, LocationsCall)
<1> DEFINE c == LocationsCall
<1>1. /\ IsCall(c) /\ c.kind = "locations" /\ c.answer = None
      /\ {"at", "lists"} \subseteq DOMAIN c /\ c.at = <<>> /\ c.lists = <<>>
  BY MadeCall DEF LocationsCall
<1>2. DOMAIN c.lists = {} /\ DOMAIN c.at = {}
  BY <1>1
<1>3. c.lists \in [{} -> SUBSET Guests]
  BY <1>1
<1>4. IsScan(c)
  BY <1>1, <1>2, <1>3, ClusterAssumption DEF IsScan, Answered
<1> HIDE DEF c
<1>5. CallOK(ts, c)
  BY <1>1, <1>4 DEF CallOK
<1> QED
  BY <1>5 DEF c

LEMMA NewTag ==
  ASSUME NEW ts, NEW kind \in {"addTag", "removeTag"}, NEW g, NEW tag, IsMap(data)
  PROVE  CallOK(ts, TagCall(kind, g, tag))
<1> DEFINE c == TagCall(kind, g, tag)
<1>1. /\ IsCall(c) /\ c.kind = kind /\ c.answer = None
      /\ "snap" \in DOMAIN c /\ c.snap = data
  BY MadeCall DEF TagCall
<1> HIDE DEF c
<1>2. CallOK(ts, c)
  BY <1>1 DEF CallOK, Answered
<1> QED
  BY <1>2 DEF c

LEMMA NewRefreshTags ==
  ASSUME NEW ts, NEW g, NEW snap, IsMap(snap)
  PROVE  CallOK(ts, Call("refreshTags", [guest |-> g, snap |-> snap]))
<1> DEFINE c == Call("refreshTags", [guest |-> g, snap |-> snap])
<1>1. /\ IsCall(c) /\ c.kind = "refreshTags" /\ c.answer = None
      /\ "snap" \in DOMAIN c /\ c.snap = snap
  BY MadeCall
<1> HIDE DEF c
<1>2. CallOK(ts, c)
  BY <1>1 DEF CallOK, Answered
<1> QED
  BY <1>2 DEF c

LEMMA NewMigrate ==
  ASSUME NEW ts, NEW m \in Moves
  PROVE  CallOK(ts, Call("migrate", [of |-> m]))
<1> DEFINE c == Call("migrate", [of |-> m])
<1>1. /\ IsCall(c) /\ c.kind = "migrate" /\ c.answer = None
      /\ "of" \in DOMAIN c /\ c.of = m
  BY MadeCall
<1> HIDE DEF c
<1>2. CallOK(ts, c)
  BY <1>1 DEF CallOK, Answered
<1> QED
  BY <1>2 DEF c

LEMMA NewPoll ==
  ASSUME NEW ts, NEW kind \in {"migrating", "location"}, NEW m, IsTracked(ts, m)
  PROVE  CallOK(ts, Call(kind, [of |-> m]))
<1> DEFINE c == Call(kind, [of |-> m])
<1>1. /\ IsCall(c) /\ c.kind = kind /\ c.answer = None
      /\ "of" \in DOMAIN c /\ c.of = m
  BY MadeCall
<1> HIDE DEF c
<1>2. CallOK(ts, c)
  BY <1>1 DEF CallOK, Answered
<1> QED
  BY <1>2 DEF c

LEMMA NewTask ==
  ASSUME NEW ts, NEW m, IsTracked(ts, m), NEW a, a # "yes" => HasEnded(ts, m)
  PROVE  CallOK(ts, Call("task", [of |-> m, migrating |-> a]))
<1> DEFINE c == Call("task", [of |-> m, migrating |-> a])
<1>1. /\ IsCall(c) /\ c.kind = "task" /\ c.answer = None
      /\ {"of", "migrating"} \subseteq DOMAIN c /\ c.of = m /\ c.migrating = a
  BY MadeCall
<1> HIDE DEF c
<1>2. CallOK(ts, c)
  BY <1>1 DEF CallOK, Answered
<1> QED
  BY <1>2 DEF c

LEMMA NewStop ==
  ASSUME NEW ts, NEW kind \in {"stop", "stopLocation"}, NEW m, IsTracked(ts, m),
         NEW snap, IsMap(snap)
  PROVE  CallOK(ts, Call(kind, [of |-> m, snap |-> snap]))
<1> DEFINE c == Call(kind, [of |-> m, snap |-> snap])
<1>1. /\ IsCall(c) /\ c.kind = kind /\ c.answer = None
      /\ {"of", "snap"} \subseteq DOMAIN c /\ c.of = m /\ c.snap = snap
  BY MadeCall
<1> HIDE DEF c
<1>2. CallOK(ts, c)
  BY <1>1 DEF CallOK, Answered
<1> QED
  BY <1>2 DEF c

-----------------------------------------------------------------------------
(* What a step does to the calls, and to what is watched.                  *)

\* Every call was in flight, or is as its kind demands.
CallsGoOn == \A c \in calls' : c \in calls \/ CallOK(tasks', c)

\* No start of a migration is forgotten that was answered with its task.
StartsStay ==
    \A c \in calls : c.kind = "migrate" /\ c.answer \in Nat => c \in calls'

LEMMA CallStarts ==
  ASSUME NEW c, Start(c), CallOK(tasks', c)
  PROVE  CallsGoOn /\ StartsStay
<1>1. PICK i : calls' = calls \cup {[c EXCEPT !.id = i]}
  BY DEF Start
<1>2. CallOK(tasks', [c EXCEPT !.id = i])
  BY CallNumbered
<1> QED
  BY <1>1, <1>2 DEF CallsGoOn, StartsStay

LEMMA CallEnds ==
  ASSUME NEW c, End(c)
  PROVE  CallsGoOn /\ (c.kind # "migrate" => StartsStay)
BY DEF End, CallsGoOn, StartsStay

LEMMA CallGoesOn ==
  ASSUME NEW c, NEW d, GoOn(c, d), CallOK(tasks', d)
  PROVE  CallsGoOn /\ (c.kind # "migrate" => StartsStay)
<1>1. CallOK(tasks', [d EXCEPT !.id = c.id])
  BY CallNumbered
<1> QED
  BY <1>1 DEF GoOn, CallsGoOn, StartsStay

LEMMA CallIsAnswered ==
  ASSUME NEW c, CallOK(tasks', c), NEW a, Answer(c, a), a = Error \/ Fitting(tasks', c, a)
  PROVE  CallsGoOn /\ (c.answer = None => StartsStay)
<1>1. CallOK(tasks', [c EXCEPT !.answer = a])
  BY CallAnswered
<1> QED
  BY <1>1, MarkersAssumption DEF Answer, CallsGoOn, StartsStay

-----------------------------------------------------------------------------
(* One step of the invariant.                                              *)

Watched(t) ==
    \/ \E m \in trackers : m.task = t
    \/ \E c \in calls : c.kind = "migrate" /\ c.answer = t

\* A step leaves no migration unwatched, as long as nothing fails and the
\* automation has started no run.
WatchGoesOn ==
    troubles' = 0 /\ started' = 0 =>
      /\ troubles = 0 /\ started = 0
      /\ \A t \in DOMAIN tasks' :
           tasks'[t].state = "running" =>
             \/ Watched(t)'
             \/ t \in DOMAIN tasks /\ tasks[t].state = "running" /\ ~Watched(t)

Progress == DashInv' /\ WatchGoesOn

LEMMA CallsGrow ==
  ASSUME CallsInv, Grows(tasks, tasks'), CallsGoOn
  PROVE  CallsInv'
<1>1. \A c \in calls : CallOK(tasks', c)
  BY CallGrows DEF CallsInv
<1> QED
  BY <1>1 DEF CallsGoOn, CallsInv

\* What the page has of tracked migrations outlives the growth of the tasks.
LEMMA PageGrows ==
  ASSUME MapInv, CardsInv, Grows(tasks, tasks'), UNCHANGED <<mapVars, cardVars>>
  PROVE  MapInv' /\ CardsInv'
<1>1. ASSUME NEW m, IsTracked(tasks, m) PROVE IsTracked(tasks', m)
  BY <1>1, TrackedGrows
<1>2. modal # None => IsModal(tasks', modal)
  BY <1>1 DEF MapInv, IsModal
<1>3. MapInv'
  BY <1>2 DEF MapInv, mapVars
<1>4. /\ \A m \in trackers : IsTracked(tasks', m)
      /\ \A key \in DOMAIN activeMigrations : IsTracked(tasks', activeMigrations[key])
  BY <1>1 DEF CardsInv
<1> QED
  BY <1>3, <1>4 DEF CardsInv, cardVars

LEMMA SameTasksGrow == Grows(tasks, tasks)
BY DEF Grows

\* A step that changes nothing of the page: it starts, answers or ends calls, and
\* tasks are added or end.
LEMMA PageWaits ==
  ASSUME DashInv, CallsGoOn, troubles' = 0 => troubles = 0 /\ StartsStay,
         UNCHANGED <<mapVars, cardVars>>, ClusterInv', TasksInv', Grows(tasks, tasks'),
         started' = 0 => started = 0, RunInv',
         \A t \in DOMAIN tasks' \ DOMAIN tasks : started' = 0 => Watched(t)'
  PROVE  Progress
<1>1. MapInv' /\ CardsInv'
  BY PageGrows DEF DashInv
<1>2. CallsInv'
  BY CallsGrow DEF DashInv
<1>3. DOMAIN tasks \subseteq Nat
  BY DEF DashInv, TasksInv
<1>4. troubles' = 0 => \A t \in DOMAIN tasks : Watched(t) => Watched(t)'
  BY <1>3 DEF Watched, StartsStay, cardVars
<1>5. WatchGoesOn
  BY <1>4 DEF WatchGoesOn, Grows
<1> QED
  BY <1>1, <1>2, <1>5 DEF Progress, DashInv

LEMMA OnlyCalls ==
  ASSUME DashInv, CallsGoOn, troubles' = 0 => troubles = 0 /\ StartsStay,
         UNCHANGED <<location, tasks, cache, views, mapVars, cardVars>>,
         started' = 0 => started = 0, RunInv'
  PROVE  Progress
<1>1. Grows(tasks, tasks')
  BY SameTasksGrow
<1>2. TasksInv' /\ ClusterInv'
  BY DEF DashInv, TasksInv, ClusterInv
<1> QED
  BY <1>1, <1>2, PageWaits

\* A task that ends, if it was not over.
LEMMA TaskEnds ==
  ASSUME TasksInv, NEW t, NEW end \in {"moved", "failed", "aborted"},
         tasks' = [tasks EXCEPT ![t].state = IF @ = "running" THEN end ELSE @]
  PROVE  TasksInv' /\ Grows(tasks, tasks') /\ DOMAIN tasks' = DOMAIN tasks
<1>1. /\ DOMAIN tasks' = DOMAIN tasks
      /\ tasks' = [i \in DOMAIN tasks |-> tasks'[i]]
      /\ \A i \in DOMAIN tasks :
           tasks'[i] = IF i = t THEN [tasks[i] EXCEPT !.state = IF @ = "running" THEN end ELSE @]
                       ELSE tasks[i]
  BY DEF TasksInv
<1>2. \A i \in DOMAIN tasks : tasks[i] \in TaskRecords
  BY DEF TasksInv
<1>3. \A i \in DOMAIN tasks :
        /\ tasks'[i] \in TaskRecords /\ tasks'[i].guest = tasks[i].guest
        /\ tasks'[i].state = "running" => tasks[i].state = "running"
  BY <1>1, <1>2 DEF TaskRecords
<1>4. Len(tasks) \in Nat /\ DOMAIN tasks = 1..Len(tasks)
  BY DEF TasksInv
<1>5. tasks' \in [1..Len(tasks) -> TaskRecords]
  BY <1>1, <1>3, <1>4
<1> QED
  BY <1>1, <1>3, <1>4, <1>5 DEF TasksInv, Grows

\* A task that begins.
LEMMA TaskBegins ==
  ASSUME TasksInv, NEW g \in Guests, NEW n \in Nodes,
         tasks' = Append(tasks, [guest |-> g, target |-> n, state |-> "running"])
  PROVE  /\ TasksInv' /\ Grows(tasks, tasks')
         /\ Len(tasks') \in Nat /\ Len(tasks') \in DOMAIN tasks'
         /\ tasks'[Len(tasks')].guest = g
         /\ DOMAIN tasks' \ DOMAIN tasks = {Len(tasks')}
<1>1. [guest |-> g, target |-> n, state |-> "running"] \in TaskRecords
  BY DEF TaskRecords
<1> QED
  BY <1>1 DEF TasksInv, Grows

-----------------------------------------------------------------------------
(* The service answers.                                                    *)

LEMMA AnswerOneProgress ==
  ASSUME DashInv, NEW c \in calls, AnswerOne(c), UNCHANGED mapVars, OnlyMap
  PROVE  Progress
<1> USE DEF OnlyMap
<1>1. CallOK(tasks, c) /\ IsCall(c)
  BY DEF DashInv, CallsInv, CallOK
<1>2. troubles' \in Nat => RunInv'
  BY DEF DashInv, RunInv, panelVars, serverVars
<1>3. started' = started /\ troubles \in Nat
  BY DEF DashInv, RunInv, panelVars, serverVars
<1>4. ASSUME c.answer = None, NEW a, Answer(c, a), Fitting(tasks, c, a) \/ a = Error,
             UNCHANGED <<location, tasks, cache, views, troubles>>
      PROVE  Progress
  <2>1. CallsGoOn /\ StartsStay
    BY <1>1, <1>4, CallIsAnswered
  <2> QED
    BY <1>2, <1>3, <1>4, <2>1, OnlyCalls
<1>5. CASE Fail(c)
  <2>1. CallsGoOn
    BY <1>1, <1>5, CallIsAnswered DEF Fail
  <2>2. troubles' # 0 /\ troubles' \in Nat
    BY <1>3, <1>5 DEF Fail
  <2> QED
    BY <1>2, <1>3, <1>5, <2>1, <2>2, OnlyCalls DEF Fail
<1>6. ASSUME c.answer = None, AnswerMigrating(c) PROVE Progress
  <2>1. IsTracked(tasks, c.of)
    BY <1>1, <1>6 DEF AnswerMigrating, CallOK
  <2>2. (~ \E g \in Guests : <<c.of.guest, g>> \in Alike /\ Running(g)) => HasEnded(tasks, c.of)
    BY <2>1, ClusterAssumption DEF IsTracked, Running, HasEnded
  <2> DEFINE a == IF \E g \in Guests : <<c.of.guest, g>> \in Alike /\ Running(g)
                  THEN "yes" ELSE "no"
  <2>3. Fitting(tasks, c, a)
    BY <1>6, <2>2 DEF Fitting, AnswerMigrating
  <2> QED
    BY <1>4, <1>6, <2>3 DEF AnswerMigrating, clusterVars
<1>7. ASSUME c.answer = None, AnswerTask(c) PROVE Progress
  BY <1>4, <1>7 DEF AnswerTask, clusterVars, Fitting
<1>8. ASSUME c.answer = None, AnswerLocation(c) PROVE Progress
  <2>1. c.kind = "stopLocation" \/ c.kind = "location"
    BY <1>8 DEF AnswerLocation
  <2>2. c.of.guest \in Guests
    BY <1>1, <2>1 DEF CallOK, IsTracked
  <2>3. Fitting(tasks, c, location[c.of.guest])
    BY <2>1, <2>2 DEF Fitting, DashInv, ClusterInv
  <2> QED
    BY <1>4, <1>8, <2>3 DEF AnswerLocation, clusterVars
<1>9. ASSUME c.answer = None, AnswerAnalyze(c) PROVE Progress
  <2>1. PICK w \in Workers : Answer(c, views[w])
    BY <1>9 DEF AnswerAnalyze
  <2>2. Fitting(tasks, c, views[w])
    BY <1>9 DEF AnswerAnalyze, Fitting, DashInv, ClusterInv
  <2> QED
    BY <1>4, <1>9, <2>1, <2>2 DEF AnswerAnalyze, clusterVars
<1>10. ASSUME c.answer = None, AnswerTagRefresh(c) PROVE Progress
  <2>1. PICK a : Answer(c, a)
    BY <1>10 DEF AnswerTagRefresh
  <2>2. Fitting(tasks, c, a)
    BY <1>10 DEF AnswerTagRefresh, Fitting
  <2> QED
    BY <1>4, <1>10, <2>1, <2>2 DEF AnswerTagRefresh, clusterVars
<1>11. ASSUME c.answer = None, AnswerRefresh(c) PROVE Progress
  BY <1>4, <1>11 DEF AnswerRefresh, clusterVars, Fitting
<1>12. ASSUME c.answer = None, WriteTags(c) PROVE Progress
  <2>1. PICK a : Answer(c, a)
    BY <1>12 DEF WriteTags
  <2>2. Fitting(tasks, c, a)
    BY <1>12 DEF WriteTags, Fitting
  <2> QED
    BY <1>4, <1>12, <2>1, <2>2 DEF WriteTags
<1>13. ASSUME c.answer = None, ReadTags(c) PROVE Progress
  <2>1. CASE Answer(c, Error)
    BY <1>4, <1>13, <2>1 DEF ReadTags, clusterVars
  <2>2. ASSUME NEW a, calls' = (calls \ {c}) \cup {[c EXCEPT !.seen = a]}
        PROVE  Progress
    <3> DEFINE d == [c EXCEPT !.seen = a]
    <3>1. /\ IsCall(d) /\ DOMAIN d = DOMAIN c
          /\ d.kind = c.kind /\ d.answer = None
          /\ "snap" \in DOMAIN c => d.snap = c.snap
      BY <1>1, <1>13 DEF IsCall
    <3>2. CallOK(tasks', d)
      BY <1>1, <1>13, <3>1 DEF ReadTags, CallOK, Answered
    <3>3. CallsGoOn /\ StartsStay
      BY <1>13, <2>2, <3>2 DEF CallsGoOn, StartsStay, ReadTags
    <3> QED
      BY <1>2, <1>3, <1>13, <3>3, OnlyCalls DEF ReadTags, clusterVars
  <2> QED
    BY <1>13, <2>1, <2>2 DEF ReadTags
<1>14. ASSUME c.answer = None, AnswerLocations(c) PROVE Progress
  <2>1. IsScan(c)
    BY <1>1, <1>14 DEF AnswerLocations, CallOK
  <2>2. PICK ok \in {TRUE, ~MayFail} :
          LET n     == CHOOSE n \in Nodes \ DOMAIN c.lists : TRUE
              there == IF ok THEN {g \in Guests : location[g] = n} ELSE {}
              lists == With(c.lists, n, there)
          IN  /\ troubles' = IF ok THEN troubles ELSE troubles + 1
              /\ calls' = (calls \ {c}) \cup
                   {[c EXCEPT !.at = Over([g \in there |-> n], @), !.lists = lists,
                              !.answer = IF DOMAIN lists = Nodes THEN "ok" ELSE None]}
    BY <1>14 DEF AnswerLocations
  <2> DEFINE n     == CHOOSE n \in Nodes \ DOMAIN c.lists : TRUE
             there == IF ok THEN {g \in Guests : location[g] = n} ELSE {}
             lists == With(c.lists, n, there)
             at    == Over([g \in there |-> n], c.at)
             d     == [c EXCEPT !.at = Over([g \in there |-> n], @), !.lists = lists,
                                !.answer = IF DOMAIN lists = Nodes THEN "ok" ELSE None]
  <2>3. n \in Nodes
    BY <1>14, <2>1 DEF IsScan
  <2>4. there \subseteq Guests
    OBVIOUS
  <2> HIDE DEF n, there
  <2>5. /\ DOMAIN at \subseteq Guests
        /\ \A g \in DOMAIN at : at[g] \in Nodes
    BY <2>1, <2>3, <2>4 DEF IsScan, Over
  <2>6. /\ DOMAIN lists \subseteq Nodes
        /\ lists \in [DOMAIN lists -> SUBSET Guests]
    BY <2>1, <2>3, <2>4 DEF IsScan, With, Over
  <2>7. /\ d.kind = c.kind /\ DOMAIN d = DOMAIN c /\ IsCall(d)
        /\ d.at = at /\ d.lists = lists
        /\ d.answer = IF DOMAIN lists = Nodes THEN "ok" ELSE None
    BY <1>1, <2>1 DEF IsCall, IsScan
  <2>8. calls' = (calls \ {c}) \cup {d}
    BY <2>2 DEF n, there
  <2>9. troubles' = IF ok THEN troubles ELSE troubles + 1
    BY <2>2
  <2> HIDE DEF at, lists, d
  <2>10. IsScan(d)
    BY <2>1, <2>5, <2>6, <2>7, MarkersAssumption DEF IsScan, Answered
  <2>11. CallOK(tasks', d)
    BY <1>14, <2>7, <2>10 DEF CallOK, AnswerLocations
  <2>12. CallsGoOn /\ StartsStay
    BY <1>14, <2>8, <2>11 DEF CallsGoOn, StartsStay, AnswerLocations
  <2>13. troubles' = 0 => troubles = 0
    BY <1>3, <2>9
  <2>14. troubles' \in Nat
    BY <1>3, <2>9
  <2> QED
    BY <1>2, <1>3, <1>14, <2>12, <2>13, <2>14, OnlyCalls DEF AnswerLocations
<1>15. ASSUME c.answer = None, AnswerMigrate(c) PROVE Progress
  <2>1. c.of \in Moves /\ "of" \in DOMAIN c
    BY <1>1, <1>15 DEF AnswerMigrate, CallOK
  <2>2. CASE Answer(c, Error) /\ UNCHANGED tasks
    BY <1>4, <1>15, <2>2 DEF AnswerMigrate
  <2>3. CASE /\ tasks' = Append(tasks, [guest |-> c.of.guest, target |-> c.of.target,
                                        state |-> "running"])
             /\ Answer(c, Len(tasks'))
    <3>1. c.of.guest \in Guests /\ c.of.target \in Nodes
      BY <2>1 DEF Moves
    <3>2. /\ TasksInv' /\ Grows(tasks, tasks')
          /\ Len(tasks') \in Nat /\ Len(tasks') \in DOMAIN tasks'
          /\ tasks'[Len(tasks')].guest = c.of.guest
          /\ DOMAIN tasks' \ DOMAIN tasks = {Len(tasks')}
      BY <2>3, <3>1, TaskBegins DEF DashInv
    <3>3. Fitting(tasks', c, Len(tasks'))
      BY <1>15, <3>2 DEF Fitting, AnswerMigrate
    <3>4. CallOK(tasks', c)
      BY <1>1, <3>2, CallGrows
    <3>5. CallsGoOn /\ StartsStay
      BY <1>15, <2>3, <3>3, <3>4, CallIsAnswered
    <3> DEFINE d == [c EXCEPT !.answer = Len(tasks')]
    <3>6. d.kind = "migrate" /\ d.answer = Len(tasks') /\ d \in calls'
      BY <1>1, <1>15, <2>3 DEF IsCall, Answer, AnswerMigrate
    <3>7. \A t \in DOMAIN tasks' \ DOMAIN tasks : Watched(t)'
      BY <3>2, <3>6 DEF Watched
    <3>8. ClusterInv'
      BY <1>15 DEF DashInv, ClusterInv, AnswerMigrate
    <3>9. UNCHANGED cardVars /\ troubles' = troubles
      BY <1>15 DEF AnswerMigrate
    <3> QED
      BY <1>2, <1>3, <3>2, <3>5, <3>7, <3>8, <3>9, PageWaits
  <2> QED
    BY <1>15, <2>2, <2>3 DEF AnswerMigrate
<1>16. ASSUME c.answer = None, AnswerStop(c) PROVE Progress
  <2>1. PICK end \in {"aborted", "failed"} :
          tasks' = [tasks EXCEPT ![c.of.task].state = IF @ = "running" THEN end ELSE @]
    BY <1>16 DEF AnswerStop
  <2>2. TasksInv' /\ Grows(tasks, tasks') /\ DOMAIN tasks' = DOMAIN tasks
    BY <2>1, TaskEnds DEF DashInv
  <2>3. CallOK(tasks', c)
    BY <1>1, <2>2, CallGrows
  <2>4. Fitting(tasks', c, "ok")
    BY <1>16 DEF AnswerStop, Fitting
  <2>5. CallsGoOn /\ StartsStay
    BY <1>16, <2>3, <2>4, CallIsAnswered DEF AnswerStop
  <2>6. ClusterInv' /\ troubles' = troubles
    BY <1>16 DEF DashInv, ClusterInv, AnswerStop
  <2> QED
    BY <1>2, <1>3, <2>2, <2>5, <2>6, PageWaits
<1> QED
  BY <1>5, <1>6, <1>7, <1>8, <1>9, <1>10, <1>11, <1>12, <1>13, <1>14, <1>15, <1>16
  DEF AnswerOne

\* A call of a kind of which nothing is known is changed.
LEMMA OtherChanges ==
  ASSUME NEW c, IsCall(c), c.kind \notin Known, NEW d, IsCall(d), d.kind = c.kind,
         calls' = (calls \ {c}) \cup {d}
  PROVE  CallsGoOn /\ StartsStay
<1>1. CallOK(tasks', d)
  BY OtherKind
<1> QED
  BY <1>1 DEF CallsGoOn, StartsStay, Known

LEMMA OtherIsAnswered ==
  ASSUME NEW c, IsCall(c), c.kind \notin Known, NEW a, Answer(c, a)
  PROVE  CallsGoOn /\ StartsStay
<1>1. IsCall([c EXCEPT !.answer = a]) /\ [c EXCEPT !.answer = a].kind = c.kind
  BY DEF IsCall
<1> QED
  BY <1>1, OtherChanges DEF Answer

LEMMA AnswerOfPanelProgress ==
  ASSUME DashInv, NEW c \in calls, AnswerOfPanel(c), UNCHANGED <<mapVars, cardVars>>
  PROVE  Progress
<1>1. IsCall(c)
  BY DEF DashInv, CallsInv, CallOK
<1>2. ASSUME c.kind \notin Known, NEW a, Answer(c, a), UNCHANGED <<location, tasks, cache, views>>,
             troubles' \in {troubles, troubles + 1}, started' = started, run' \in {run, None}
      PROVE  Progress
  <2>1. CallsGoOn /\ StartsStay
    BY <1>1, <1>2, OtherIsAnswered
  <2>2. RunInv'
    BY <1>2 DEF DashInv, RunInv
  <2>3. troubles' = 0 => troubles = 0
    BY <1>2 DEF DashInv, RunInv
  <2> QED
    BY <1>2, <2>1, <2>2, <2>3, OnlyCalls
<1>3. CASE AnswerStatus(c)
  BY <1>2, <1>3 DEF AnswerStatus, clusterVars, serverVars, Known
<1>4. CASE AnswerRunHistory(c)
  BY <1>2, <1>4 DEF AnswerRunHistory, clusterVars, serverVars, Known
<1>5. CASE AnswerToggle(c)
  BY <1>2, <1>5 DEF AnswerToggle, clusterVars, Known
<1>6. CASE LaunchRun(c)
  <2> DEFINE d == [c EXCEPT !.launched = TRUE, !.answer = IF run = None THEN None ELSE "checked"]
  <2>1. IsCall(d) /\ d.kind = c.kind
    BY <1>1, <1>6 DEF IsCall
  <2>2. CallsGoOn /\ StartsStay
    BY <1>1, <1>6, <2>1, OtherChanges DEF LaunchRun, Known
  <2>3. RunInv' /\ started' # 0
    BY <1>6 DEF LaunchRun, StartRun, DashInv, RunInv, clusterVars
  <2> QED
    BY <1>6, <2>2, <2>3, OnlyCalls DEF LaunchRun, clusterVars
<1>7. CASE AnswerRun(c)
  <2>1. PICK a : Answer(c, a)
    BY <1>7 DEF AnswerRun
  <2> QED
    BY <1>2, <1>7, <2>1 DEF AnswerRun, clusterVars, serverVars, Known
<1>8. CASE KillTest(c)
  BY <1>2, <1>8 DEF KillTest, Known
<1>9. CASE AnswerCancel(c)
  <2>1. TasksInv' /\ Grows(tasks, tasks') /\ DOMAIN tasks' = DOMAIN tasks
    BY <1>9, TaskEnds DEF AnswerCancel, DashInv
  <2>2. CallsGoOn /\ StartsStay
    BY <1>1, <1>9, OtherIsAnswered DEF AnswerCancel, Known
  <2>3. ClusterInv' /\ RunInv' /\ troubles' = troubles /\ started' = started
    BY <1>9 DEF AnswerCancel, DashInv, ClusterInv, RunInv, serverVars
  <2> QED
    BY <2>1, <2>2, <2>3, PageWaits
<1> QED
  BY <1>3, <1>4, <1>5, <1>6, <1>7, <1>8, <1>9 DEF AnswerOfPanel

LEMMA OtherAnswersProgress ==
  ASSUME DashInv, NEW c \in calls, UNCHANGED <<mapVars, cardVars, panelVars>>,
         AnswerOfRecs(c) \/ AnswerEvacuation(c)
  PROVE  Progress
<1>1. IsCall(c)
  BY DEF DashInv, CallsInv, CallOK
<1>2. ASSUME CallsGoOn /\ StartsStay, UNCHANGED clusterVars PROVE Progress
  <2>1. RunInv' /\ started' = started /\ troubles' = troubles
    BY <1>2 DEF DashInv, RunInv, panelVars, serverVars, clusterVars
  <2> QED
    BY <1>2, <2>1, OnlyCalls DEF clusterVars
<1>3. UNCHANGED clusterVars
  BY DEF AnswerOfRecs, Compute, TruncateRecs, WriteRecs, AnswerCached, AnswerEvacuation
<1>4. CASE AnswerEvacuation(c)
  <2>1. c.kind \notin Known /\ \E a : Answer(c, a)
    BY <1>4 DEF AnswerEvacuation, Known
  <2> QED
    BY <1>1, <1>2, <1>3, <2>1, OtherIsAnswered
<1>5. CASE AnswerOfRecs(c)
  <2>1. c.kind \notin Known
    BY <1>5 DEF AnswerOfRecs, Compute, TruncateRecs, WriteRecs, AnswerCached, Known
  <2>2. ASSUME NEW a, Answer(c, a) PROVE Progress
    BY <1>1, <1>2, <1>3, <2>1, <2>2, OtherIsAnswered
  <2>3. CASE Compute(c)
    <3>1. PICK a : calls' = (calls \ {c}) \cup {[c EXCEPT !.computed = a]}
      BY <2>3 DEF Compute
    <3>2. IsCall([c EXCEPT !.computed = a]) /\ [c EXCEPT !.computed = a].kind = c.kind
      BY <1>1 DEF IsCall
    <3> QED
      BY <1>1, <1>2, <1>3, <2>1, <3>1, <3>2, OtherChanges
  <2>4. CASE TruncateRecs(c)
    <3>1. IsCall([c EXCEPT !.wrote = "truncated"]) /\ [c EXCEPT !.wrote = "truncated"].kind = c.kind
      BY <1>1 DEF IsCall
    <3> QED
      BY <1>1, <1>2, <1>3, <2>1, <2>4, <3>1, OtherChanges DEF TruncateRecs
  <2>5. CASE WriteRecs(c) \/ AnswerCached(c)
    BY <2>2, <2>5 DEF WriteRecs, AnswerCached
  <2> QED
    BY <1>5, <2>3, <2>4, <2>5 DEF AnswerOfRecs
<1> QED
  BY <1>4, <1>5

LEMMA AnswerProgress ==
  ASSUME DashInv, NEW c \in calls, AnswerAny(c)
  PROVE  Progress
BY AnswerOneProgress, AnswerOfPanelProgress, OtherAnswersProgress
DEF AnswerAny, OnlyMap, OnlyPanel, OnlyRecs, OnlyEvacuation

-----------------------------------------------------------------------------
(* The cluster, the collector and the automation go on.                    *)

LEMMA LocationsAreLists ==
  ASSUME NEW at \in [Guests -> Nodes], NEW stamp, NEW tagged
  PROVE  IsMap(Snapshot(stamp, at, tagged))
BY DEF IsMap, Snapshot, Lists

\* A step without calls and on the server alone.
LEMMA OnlyServer ==
  ASSUME DashInv, UNCHANGED <<calls, troubles, mapVars, cardVars>>, ClusterInv', TasksInv',
         Grows(tasks, tasks'), RunInv', started' = 0 => started = 0,
         \A t \in DOMAIN tasks' \ DOMAIN tasks : started' # 0
  PROVE  Progress
<1>1. CallsGoOn /\ StartsStay
  BY DEF CallsGoOn, StartsStay
<1> QED
  BY <1>1, PageWaits

LEMMA ServerProgress ==
  ASSUME DashInv, Server
  PROVE  Progress
<1>1. ASSUME UNCHANGED troubles, UNCHANGED panelVars PROVE RunInv' /\ started' = started
  BY <1>1 DEF DashInv, RunInv, panelVars, serverVars
<1>2. TasksInv /\ ClusterInv /\ RunInv
  BY DEF DashInv
<1>3. ASSUME NEW t \in DOMAIN tasks, Ending(t) PROVE Progress
  <2>1. PICK end \in {"moved", "failed"} : tasks' = [tasks EXCEPT ![t].state = end]
    BY <1>3 DEF Ending, EndTask
  <2>2. tasks' = [tasks EXCEPT ![t].state = IF @ = "running" THEN end ELSE @]
    BY <1>2, <1>3, <2>1 DEF Ending, EndTask, TasksInv
  <2>3. TasksInv' /\ Grows(tasks, tasks') /\ DOMAIN tasks' = DOMAIN tasks
    BY <1>2, <2>2, TaskEnds
  <2>4. tasks[t].target \in Nodes
    <3>1. tasks[t] \in TaskRecords
      BY <1>2 DEF TasksInv
    <3> QED
      BY <3>1 DEF TaskRecords
  <2>5. ClusterInv'
    BY <1>2, <1>3, <2>4 DEF Ending, EndTask, ClusterInv
  <2> QED
    BY <1>1, <1>3, <2>3, <2>5, OnlyServer DEF Ending, EndTask, OnlyMap
<1>4. CASE Collecting
  <2>1. IsMap(cache')
    BY <1>2, <1>4, LocationsAreLists DEF Collecting, Collect, ClusterInv
  <2>2. ClusterInv'
    BY <1>2, <1>4, <2>1 DEF Collecting, Collect, ClusterInv
  <2>3. TasksInv' /\ Grows(tasks, tasks')
    BY <1>2, <1>4, SameTasksGrow DEF Collecting, Collect, TasksInv
  <2> QED
    BY <1>1, <1>4, <2>2, <2>3, OnlyServer DEF Collecting, Collect, OnlyMap
<1>5. ASSUME NEW w \in Workers, Rereading(w) PROVE Progress
  <2>1. ClusterInv'
    BY <1>2, <1>5 DEF Rereading, Reread, ClusterInv
  <2>2. TasksInv' /\ Grows(tasks, tasks')
    BY <1>2, <1>5, SameTasksGrow DEF Rereading, Reread, TasksInv
  <2> QED
    BY <1>1, <1>5, <2>1, <2>2, OnlyServer DEF Rereading, Reread, OnlyMap
<1>6. CASE Working
  <2>1. CASE RunEnds
    <3>1. ClusterInv' /\ TasksInv' /\ Grows(tasks, tasks') /\ RunInv'
      BY <1>2, <2>1, SameTasksGrow DEF RunEnds, callVars, ClusterInv, TasksInv, RunInv
    <3> QED
      BY <1>6, <2>1, <3>1, OnlyServer DEF Working, RunEnds, callVars
  <2>2. ASSUME NEW g \in Guests, RunMigrates(g) PROVE Progress
    <3>1. PICK n \in Nodes :
            tasks' = Append(tasks, [guest |-> g, target |-> n, state |-> "running"])
      BY <2>2 DEF RunMigrates
    <3>2. TasksInv' /\ Grows(tasks, tasks')
      BY <1>2, <3>1, TaskBegins
    <3>3. ClusterInv' /\ RunInv' /\ started' # 0
      BY <1>2, <2>2 DEF RunMigrates, ClusterInv, RunInv
    <3> QED
      BY <1>6, <2>2, <3>2, <3>3, OnlyServer DEF Working, RunMigrates
  <2> QED
    BY <1>6, <2>1, <2>2 DEF Working, Process
<1>7. CASE TimerFires /\ UNCHANGED <<mapVars, cardVars, panelPageVars>> /\ OnlyPanel
  <2>1. RunInv' /\ started' # 0
    BY <1>2, <1>7 DEF TimerFires, StartRun, RunInv, callVars
  <2>2. ClusterInv' /\ TasksInv' /\ Grows(tasks, tasks')
    BY <1>2, <1>7, SameTasksGrow DEF TimerFires, callVars, ClusterInv, TasksInv
  <2> QED
    BY <1>7, <2>1, <2>2, OnlyServer DEF TimerFires, callVars
<1>8. CASE GeneratorFires /\ OnlyRecs
  <2>1. CallsGoOn /\ StartsStay
    BY <1>8, CallStarts, NewOther DEF GeneratorFires, GenerateCall, Known
  <2> QED
    BY <1>1, <1>8, <2>1, OnlyCalls DEF GeneratorFires, clusterVars, OnlyRecs
<1>9. ASSUME NEW g \in Guests, MoveElsewhere(g), OnlyRecs PROVE Progress
  <2>1. ClusterInv'
    BY <1>2, <1>9 DEF MoveElsewhere, ClusterInv
  <2>2. TasksInv' /\ Grows(tasks, tasks')
    BY <1>2, <1>9, SameTasksGrow DEF MoveElsewhere, TasksInv
  <2> QED
    BY <1>1, <1>9, <2>1, <2>2, OnlyServer DEF MoveElsewhere, OnlyRecs
<1> QED
  BY <1>3, <1>4, <1>5, <1>6, <1>7, <1>8, <1>9 DEF Server

-----------------------------------------------------------------------------
(* The page hears answers.                                                 *)

LEMMA PageChanges ==
  ASSUME DashInv, CallsGoOn, UNCHANGED <<clusterVars, started, run>>, MapInv', CardsInv',
         \A m \in trackers : m \in trackers' \/ HasEnded(tasks, m),
         \A c \in calls : c.kind = "migrate" /\ c.answer \in Nat =>
           c \in calls' \/ \E m \in trackers' : m.task = c.answer
  PROVE  Progress
<1>1. ClusterInv' /\ TasksInv' /\ RunInv'
  BY DEF DashInv, ClusterInv, TasksInv, RunInv, clusterVars
<1>2. tasks' = tasks /\ troubles' = troubles
  BY DEF clusterVars
<1>3. CallsInv'
  BY <1>2, SameTasksGrow, CallsGrow DEF DashInv
<1>4. DOMAIN tasks \subseteq Nat
  BY DEF DashInv, TasksInv
<1>5. ASSUME NEW t \in DOMAIN tasks, tasks[t].state = "running", Watched(t)
      PROVE  Watched(t)'
  <2>1. CASE \E m \in trackers : m.task = t
    BY <1>5, <2>1 DEF Watched, HasEnded
  <2>2. CASE \E c \in calls : c.kind = "migrate" /\ c.answer = t
    BY <1>4, <1>5, <2>2 DEF Watched
  <2> QED
    BY <1>5, <2>1, <2>2 DEF Watched
<1>6. WatchGoesOn
  BY <1>2, <1>5 DEF WatchGoesOn
<1> QED
  BY <1>1, <1>3, <1>6 DEF Progress, DashInv

\* The usual case: no interval is cleared, no start is heard of.
LEMMA CardsWait ==
  ASSUME DashInv, CallsGoOn, StartsStay, UNCHANGED <<clusterVars, started, run>>, MapInv',
         CardsInv', trackers \subseteq trackers'
  PROVE  Progress
BY PageChanges DEF StartsStay

LEMMA ScanIsMap ==
  ASSUME NEW d, IsMap(d), NEW c, IsScan(c), Answered(c)
  PROVE  IsMap([d EXCEPT !.at = Over(c.at, @), !.lists = c.lists])
<1>1. Over(c.at, d.at) \in [Guests -> Nodes]
  BY DEF IsMap, IsScan, Over
<1>2. c.lists \in [Nodes -> SUBSET Guests]
  BY DEF IsScan
<1> QED
  BY <1>1, <1>2 DEF IsMap

LEMMA TaggedIsMap ==
  ASSUME NEW d, IsMap(d), NEW g, NEW a
  PROVE  IsMap([d EXCEPT !.tags[g] = a])
BY DEF IsMap

LEMMA PlacedIsMap ==
  ASSUME NEW d, IsMap(d), NEW g, NEW n \in Nodes
  PROVE  IsMap([d EXCEPT !.at[g] = n])
BY DEF IsMap

LEMMA MovedIsMap ==
  ASSUME NEW d, IsMap(d), NEW g \in Guests, NEW n \in Nodes
  PROVE  IsMap(Moved(d, g, n))
<1> DEFINE at == [d.at EXCEPT ![g] = n]
           lists == [m \in Nodes |-> (d.lists[m] \ (IF m = d.at[g] THEN {g} ELSE {}))
                                     \cup (IF m = n THEN {g} ELSE {})]
<1>1. Moved(d, g, n) = [d EXCEPT !.at = at, !.lists = lists]
  BY DEF IsMap, Moved
<1>2. at \in [Guests -> Nodes] /\ lists \in [Nodes -> SUBSET Guests]
  BY DEF IsMap
<1> HIDE DEF at, lists
<1> QED
  BY <1>1, <1>2 DEF IsMap

LEMMA SamePage ==
  ASSUME DashInv, UNCHANGED tasks
  PROVE  /\ UNCHANGED mapVars => MapInv'
         /\ UNCHANGED cardVars => CardsInv'
<1>1. DashInv /\ tasks' = tasks
  OBVIOUS
<1> QED
  BY <1>1 DEF DashInv, MapInv, CardsInv, mapVars, cardVars

LEMMA HearOfMapProgress ==
  ASSUME DashInv, NEW c \in calls, HearOfMap(c), OnlyMap
  PROVE  Progress
<1>1. CallOK(tasks, c) /\ MapInv
  BY DEF DashInv, CallsInv
<1>2. UNCHANGED <<clusterVars, started, run, cardVars>>
  BY DEF HearOfMap, HearRefresh, HearWait, HearAnalysis, HearLocations, HearTag, HearTagRefresh,
         OnlyMap, panelVars, serverVars
<1>3. tasks' = tasks
  BY <1>2 DEF clusterVars
<1>4. CardsInv' /\ trackers' = trackers
  BY <1>2, <1>3, SamePage DEF cardVars
<1>5. ASSUME CallsGoOn, StartsStay, MapInv' PROVE Progress
  BY <1>2, <1>4, <1>5, CardsWait
<1>6. CASE HearRefresh(c)
  <2>1. CallOK(tasks', WaitCall(c.old, 0))
    BY NewOther DEF WaitCall, Known
  <2>2. CallsGoOn /\ StartsStay
    BY <1>6, <2>1, CallEnds, CallGoesOn DEF HearRefresh, Heard
  <2>3. MapInv'
    BY <1>1, <1>3, <1>6 DEF HearRefresh, MapInv
  <2> QED
    BY <1>5, <2>2, <2>3
<1>7. CASE HearWait(c)
  <2>1. CallOK(tasks', WaitCall(c.old, c.attempts + 1)) /\ CallOK(tasks', AnalyzeCall)
    BY NewOther, NewAnalyze DEF WaitCall, Known
  <2>2. CallsGoOn /\ StartsStay
    BY <1>7, <2>1, CallEnds, CallGoesOn DEF HearWait, Heard
  <2>3. MapInv'
    BY <1>1, <1>3, <1>7 DEF HearWait, MapInv
  <2> QED
    BY <1>5, <2>2, <2>3
<1>8. CASE HearAnalysis(c)
  <2>1. CallsGoOn /\ StartsStay
    BY <1>8, NewLocations, CallEnds, CallGoesOn DEF HearAnalysis, Heard
  <2>2. data' = data \/ IsMap(data')
    BY <1>1, <1>8 DEF HearAnalysis, Heard, CallOK, Answered
  <2>3. MapInv'
    BY <1>1, <1>3, <1>8, <2>2 DEF HearAnalysis, MapInv
  <2> QED
    BY <1>5, <2>1, <2>3
<1>9. CASE HearLocations(c)
  <2>1. CallsGoOn /\ StartsStay
    BY <1>9, CallEnds DEF HearLocations, Heard
  <2>2. data' = data \/ IsMap(data')
    <3>1. CASE c.answer = Error \/ data = None
      BY <1>9, <3>1 DEF HearLocations
    <3>2. CASE ~(c.answer = Error \/ data = None)
      BY <1>1, <1>9, <3>2, ScanIsMap DEF HearLocations, Heard, CallOK, Answered, MapInv
    <3> QED
      BY <3>1, <3>2
  <2>3. MapInv'
    BY <1>1, <1>3, <1>9, <2>2 DEF HearLocations, MapInv
  <2> QED
    BY <1>5, <2>1, <2>3
<1>10. CASE HearTag(c)
  <2>1. IsMap(c.snap)
    BY <1>1, <1>10 DEF HearTag, Heard, CallOK
  <2>2. CallOK(tasks', Call("refreshTags", [guest |-> c.guest, snap |-> c.snap]))
    BY <2>1, NewRefreshTags
  <2>3. CallsGoOn /\ StartsStay
    BY <1>10, <2>2, CallEnds, CallGoesOn DEF HearTag, Heard
  <2>4. MapInv'
    BY <1>1, <1>3, <1>10 DEF HearTag, MapInv
  <2> QED
    BY <1>5, <2>3, <2>4
<1>11. CASE HearTagRefresh(c)
  <2>1. CallsGoOn /\ StartsStay
    BY <1>11, CallEnds DEF HearTagRefresh, Heard
  <2>2. IsMap(c.snap)
    BY <1>1, <1>11 DEF HearTagRefresh, Heard, CallOK
  <2>3. data' = data \/ IsMap(data')
    BY <1>11, <2>2, TaggedIsMap DEF HearTagRefresh
  <2>4. MapInv'
    BY <1>1, <1>3, <1>11, <2>3 DEF HearTagRefresh, MapInv
  <2> QED
    BY <1>5, <2>1, <2>4
<1> QED
  BY <1>6, <1>7, <1>8, <1>9, <1>10, <1>11 DEF HearOfMap

\* A status that is set or removed leaves those of the other cards.
LEMMA StatusesChange ==
  ASSUME CardsInv, NEW key,
         \/ migrationStatus' = migrationStatus
         \/ migrationStatus' = Without(migrationStatus, key)
         \/ \E s \in {"running", "failed", "success", "cancelled"} :
              migrationStatus' = With(migrationStatus, key, s)
  PROVE  \A k \in DOMAIN migrationStatus' :
           migrationStatus'[k] \in {"running", "failed", "success", "cancelled"}
<1>1. \A k \in DOMAIN migrationStatus :
        migrationStatus[k] \in {"running", "failed", "success", "cancelled"}
  BY DEF CardsInv
<1> QED
  BY <1>1 DEF With, Without, Over

LEMMA ActiveChange ==
  ASSUME CardsInv, UNCHANGED tasks, NEW key, NEW m,
         \/ activeMigrations' = activeMigrations
         \/ activeMigrations' = Without(activeMigrations, key)
         \/ IsTracked(tasks, m) /\ activeMigrations' = With(activeMigrations, key, m)
  PROVE  \A k \in DOMAIN activeMigrations' : IsTracked(tasks', activeMigrations'[k])
<1>1. \A k \in DOMAIN activeMigrations : IsTracked(tasks, activeMigrations[k])
  BY DEF CardsInv
<1>2. \A k \in DOMAIN activeMigrations' :
        \/ k \in DOMAIN activeMigrations /\ activeMigrations'[k] = activeMigrations[k]
        \/ IsTracked(tasks, m) /\ activeMigrations'[k] = m
  BY DEF With, Without, Over
<1> QED
  BY <1>1, <1>2

LEMMA HearMigrateProgress ==
  ASSUME DashInv, NEW c \in calls, HearMigrate(c), OnlyCards
  PROVE  Progress
<1> DEFINE m == Over(c.of, [task |-> c.answer])
<1>1. CallOK(tasks, c) /\ CardsInv
  BY DEF DashInv, CallsInv
<1>2. UNCHANGED <<clusterVars, started, run, mapVars>>
  BY DEF HearMigrate, OnlyCards, panelVars, serverVars
<1>3. tasks' = tasks
  BY <1>2 DEF clusterVars
<1>4. CallsGoOn /\ calls' = calls \ {c}
  BY CallEnds DEF HearMigrate, End
<1>5. MapInv'
  BY <1>2, <1>3, SamePage
<1>6. CASE c.answer = Error
  <2>1. /\ migrationStatus' = With(migrationStatus, Key(c.of), "failed")
        /\ UNCHANGED <<activeMigrations, guestsMigrating, trackers, completedMigrations,
                       cancellingMigration>>
    BY <1>6 DEF HearMigrate
  <2>2. CardsInv'
    BY <1>1, <1>3, <2>1, StatusesChange DEF CardsInv
  <2>3. StartsStay
    BY <1>4, <1>6, MarkersAssumption DEF StartsStay
  <2> QED
    BY <1>2, <1>4, <1>5, <2>1, <2>2, <2>3, CardsWait
<1>7. CASE c.answer # Error
  <2>1. /\ activeMigrations' = With(activeMigrations, Key(m), m)
        /\ guestsMigrating' = guestsMigrating \cup {m.guest}
        /\ trackers' = trackers \cup {m}
        /\ UNCHANGED <<migrationStatus, completedMigrations, cancellingMigration>>
    BY <1>7 DEF HearMigrate
  <2>2. /\ c.of \in Moves
        /\ c.answer \in DOMAIN tasks /\ tasks[c.answer].guest = c.of.guest
    BY <1>1, <1>7 DEF HearMigrate, Heard, CallOK, Answered
  <2>3. m.task = c.answer /\ m.guest = c.of.guest /\ m.guest \in Guests
    BY <2>2 DEF Moves, Over
  <2> HIDE DEF m
  <2>4. IsTracked(tasks, m)
    BY <2>2, <2>3 DEF IsTracked
  <2>5. \A k \in DOMAIN activeMigrations' : IsTracked(tasks', activeMigrations'[k])
    BY <1>1, <1>3, <2>1, <2>4, ActiveChange
  <2>6. CardsInv'
    BY <1>1, <1>3, <2>1, <2>3, <2>4, <2>5 DEF CardsInv
  <2> QED
    BY <1>2, <1>4, <1>5, <2>1, <2>3, <2>6, PageChanges
<1> QED
  BY <1>6, <1>7

LEMMA HearTaskProgress ==
  ASSUME DashInv, NEW c \in calls, HearTask(c), OnlyCards
  PROVE  Progress
<1>1. /\ CallOK(tasks, c) /\ CardsInv
      /\ IsTracked(tasks, c.of) /\ c.of.guest \in Guests /\ c.kind # "migrate"
      /\ c.migrating # "yes" => HasEnded(tasks, c.of)
  BY DEF DashInv, CallsInv, HearTask, TaskHeard, Heard, CallOK, IsTracked
<1>2. UNCHANGED <<clusterVars, started, run, mapVars>>
  BY DEF HearTask, TaskHeard, OnlyCards, panelVars, serverVars
<1>3. tasks' = tasks
  BY <1>2 DEF clusterVars
<1>4. MapInv'
  BY <1>2, <1>3, SamePage
<1>5. UNCHANGED <<completedMigrations, cancellingMigration>>
  BY DEF HearTask, TaskHeard
<1>6. CASE c.migrating = "yes"
  <2>1. /\ End(c) /\ guestsMigrating' = guestsMigrating \cup {c.of.guest}
        /\ UNCHANGED <<migrationStatus, activeMigrations, trackers>>
    BY <1>6 DEF HearTask, TaskHeard
  <2>2. CardsInv'
    BY <1>1, <1>3, <1>5, <2>1 DEF CardsInv
  <2>3. CallsGoOn /\ StartsStay
    BY <1>1, <2>1, CallEnds
  <2> QED
    BY <1>2, <1>4, <2>1, <2>2, <2>3, CardsWait
<1>7. CASE c.migrating # "yes"
  <2>1. /\ guestsMigrating' = guestsMigrating \ {c.of.guest}
        /\ trackers' = trackers \ {c.of}
        /\ \/ /\ End(c)
              /\ migrationStatus' = With(migrationStatus, Key(c.of), "failed")
              /\ activeMigrations' = Without(activeMigrations, Key(c.of))
           \/ /\ GoOn(c, Call("location", [of |-> c.of]))
              /\ UNCHANGED <<migrationStatus, activeMigrations>>
    BY <1>7 DEF HearTask, TaskHeard
  <2>2. CallOK(tasks', Call("location", [of |-> c.of]))
    BY <1>1, <1>3, NewPoll
  <2>3. CallsGoOn /\ StartsStay
    BY <1>1, <2>1, <2>2, CallEnds, CallGoesOn
  <2>4. \A k \in DOMAIN activeMigrations' : IsTracked(tasks', activeMigrations'[k])
    BY <1>1, <1>3, <2>1, ActiveChange
  <2>5. \A k \in DOMAIN migrationStatus' :
          migrationStatus'[k] \in {"running", "failed", "success", "cancelled"}
    BY <1>1, <2>1, StatusesChange
  <2>6. CardsInv'
    BY <1>1, <1>3, <1>5, <2>1, <2>4, <2>5 DEF CardsInv
  <2>7. \A m \in trackers : m \in trackers' \/ HasEnded(tasks, m)
    BY <1>1, <1>7, <2>1
  <2> QED
    BY <1>2, <1>4, <2>3, <2>6, <2>7, PageChanges DEF StartsStay
<1> QED
  BY <1>6, <1>7

LEMMA HearLocationProgress ==
  ASSUME DashInv, NEW c \in calls, HearLocation(c), OnlyCards
  PROVE  Progress
<1>1. /\ CardsInv /\ MapInv
      /\ c.of.guest \in Guests /\ c.answer \in Nodes /\ c.kind # "migrate"
  BY DEF DashInv, CallsInv, HearLocation, Heard, CallOK, IsTracked, Answered
<1>2. /\ data' = IF data = None THEN data ELSE Moved(data, c.of.guest, c.answer)
      /\ completedMigrations' = With(completedMigrations, c.of.guest, c.answer)
      /\ activeMigrations' = Without(activeMigrations, Key(c.of))
      /\ migrationStatus' = With(migrationStatus, Key(c.of), "success")
      /\ UNCHANGED <<clusterVars, started, run, loading, modal, guestsMigrating, trackers,
                     cancellingMigration>>
  BY DEF HearLocation, Relocate, Succeed, OnlyCards, panelVars, serverVars
<1>3. tasks' = tasks
  BY <1>2 DEF clusterVars
<1>4. CallsGoOn /\ StartsStay
  BY <1>1, NewLocations, CallGoesOn DEF HearLocation, Relocate
<1>5. data' = data \/ IsMap(data')
  BY <1>1, <1>2, MovedIsMap DEF MapInv
<1>6. MapInv'
  BY <1>1, <1>2, <1>3, <1>5 DEF MapInv
<1>7. \A k \in DOMAIN activeMigrations' : IsTracked(tasks', activeMigrations'[k])
  BY <1>1, <1>2, <1>3, ActiveChange
<1>8. \A k \in DOMAIN migrationStatus' :
        migrationStatus'[k] \in {"running", "failed", "success", "cancelled"}
  BY <1>1, <1>2, StatusesChange
<1>9. DOMAIN completedMigrations' \subseteq Guests
  BY <1>1, <1>2 DEF CardsInv, With, Over
<1>10. CardsInv'
  BY <1>1, <1>2, <1>3, <1>7, <1>8, <1>9 DEF CardsInv
<1> QED
  BY <1>2, <1>4, <1>6, <1>10, CardsWait

LEMMA HearOfCardsProgress ==
  ASSUME DashInv, NEW c \in calls, HearOfCards(c), OnlyCards
  PROVE  Progress
<1>1. CallOK(tasks, c) /\ CardsInv /\ MapInv
  BY DEF DashInv, CallsInv
<1>2. CASE HearMigrating(c) \/ LosePoll(c)
  <2>1. UNCHANGED <<clusterVars, started, run, mapVars, cardVars>>
    BY <1>2 DEF HearMigrating, LosePoll, OnlyCards, panelVars, serverVars
  <2>2. tasks' = tasks
    BY <2>1 DEF clusterVars
  <2>3. CASE End(c)
    <3>1. c.kind # "migrate"
      BY <1>2 DEF HearMigrating, LosePoll, Heard
    <3>2. CallsGoOn /\ StartsStay
      BY <2>3, <3>1, CallEnds
    <3> QED
      BY <2>1, <2>2, <3>2, SamePage, CardsWait DEF cardVars
  <2>4. CASE /\ HearMigrating(c) /\ c.answer # Error
             /\ GoOn(c, Call("task", [of |-> c.of, migrating |-> c.answer]))
    <3>1. /\ IsTracked(tasks, c.of) /\ c.kind # "migrate"
          /\ c.answer # "yes" => HasEnded(tasks, c.of)
      BY <1>1, <2>4 DEF HearMigrating, Heard, CallOK, Answered
    <3>2. CallOK(tasks', Call("task", [of |-> c.of, migrating |-> c.answer]))
      BY <2>2, <3>1, NewTask
    <3>3. CallsGoOn /\ StartsStay
      BY <2>4, <3>1, <3>2, CallGoesOn
    <3> QED
      BY <2>1, <2>2, <3>3, SamePage, CardsWait DEF cardVars
  <2> QED
    BY <1>2, <2>3, <2>4 DEF HearMigrating, LosePoll
<1>3. CASE HearStop(c)
  <2>1. /\ IsTracked(tasks, c.of) /\ IsMap(c.snap) /\ c.kind # "migrate"
    BY <1>1, <1>3 DEF HearStop, StopHeard, Heard, CallOK
  <2>2. UNCHANGED <<clusterVars, started, run, mapVars, guestsMigrating, completedMigrations,
                    trackers>>
    BY <1>3 DEF HearStop, StopHeard, OnlyCards, panelVars, serverVars
  <2>3. tasks' = tasks
    BY <2>2 DEF clusterVars
  <2>4. CallOK(tasks', Call("stopLocation", [of |-> c.of, snap |-> c.snap]))
    BY <2>1, <2>3, NewStop
  <2>5. CallsGoOn /\ StartsStay
    BY <1>3, <2>1, <2>4, CallEnds, CallGoesOn DEF HearStop, StopHeard
  <2>6. \A k \in DOMAIN activeMigrations' : IsTracked(tasks', activeMigrations'[k])
    BY <1>1, <1>3, <2>3, ActiveChange DEF HearStop, StopHeard
  <2>7. \A k \in DOMAIN migrationStatus' :
          migrationStatus'[k] \in {"running", "failed", "success", "cancelled"}
    BY <1>1, <1>3, StatusesChange DEF HearStop, StopHeard
  <2>8. cancellingMigration' \in BOOLEAN
    BY <1>1, <1>3 DEF HearStop, StopHeard, CardsInv
  <2>9. CardsInv'
    BY <1>1, <2>2, <2>3, <2>6, <2>7, <2>8 DEF CardsInv
  <2>10. MapInv'
    BY <2>2, <2>3, SamePage
  <2> QED
    BY <2>2, <2>5, <2>9, <2>10, CardsWait
<1>4. CASE HearStopLocation(c)
  <2>1. /\ IsMap(c.snap) /\ c.kind # "migrate" /\ (c.answer # Error => c.answer \in Nodes)
    BY <1>1, <1>4 DEF HearStopLocation, Heard, CallOK, Answered
  <2>2. UNCHANGED <<clusterVars, started, run, loading, migrationStatus, activeMigrations,
                    guestsMigrating, completedMigrations, trackers>>
    BY <1>4 DEF HearStopLocation, OnlyCards, panelVars, serverVars
  <2>3. tasks' = tasks
    BY <2>2 DEF clusterVars
  <2>4. CallsGoOn /\ StartsStay
    BY <1>4, <2>1, CallEnds DEF HearStopLocation
  <2>5. (data' = data \/ IsMap(data')) /\ modal' \in {modal, None}
    <3>1. c.answer # Error => IsMap([c.snap EXCEPT !.at[c.of.guest] = c.answer])
      BY <2>1, PlacedIsMap
    <3>2. \/ data' = data
          \/ c.answer # Error /\ data' = [c.snap EXCEPT !.at[c.of.guest] = c.answer]
      BY <1>4 DEF HearStopLocation
    <3>3. modal' \in {modal, None}
      BY <1>4 DEF HearStopLocation
    <3> QED
      BY <3>1, <3>2, <3>3
  <2>6. MapInv'
    BY <1>1, <2>2, <2>3, <2>5 DEF MapInv
  <2>7. CardsInv'
    BY <1>1, <1>4, <2>2, <2>3 DEF HearStopLocation, CardsInv
  <2> QED
    BY <2>2, <2>4, <2>6, <2>7, CardsWait
<1> QED
  BY <1>2, <1>3, <1>4, HearMigrateProgress, HearTaskProgress, HearLocationProgress
  DEF HearOfCards

LEMMA HearOfPanelProgress ==
  ASSUME DashInv, NEW c \in calls, HearOfPanel(c), OnlyPanel
  PROVE  Progress
<1>1. UNCHANGED <<clusterVars, started, run, data, loading, migrationStatus, activeMigrations,
                  guestsMigrating, completedMigrations, trackers>>
  BY DEF HearOfPanel, HearStatus, HearRunHistory, HearToggle, HearRun, HearPeek, HearTest,
         HearCancel, mapVars, cardVars, panelVars, serverVars
<1>2. tasks' = tasks
  BY <1>1 DEF clusterVars
<1>3. c.kind # "migrate"
  BY DEF HearOfPanel, HearStatus, HearRunHistory, HearToggle, HearRun, HearPeek, HearTest,
         HearCancel, Heard
<1>4. /\ CallOK(tasks', StatusCall)
      /\ CallOK(tasks', Call("peek", <<>>)) /\ CallOK(tasks', Call("lastStatus", <<>>))
  BY NewOther DEF StatusCall, Known
<1>5. CallsGoOn /\ StartsStay
  BY <1>3, <1>4, CallEnds, CallGoesOn
  DEF HearOfPanel, HearStatus, HearRunHistory, HearToggle, HearRun, HearPeek, HearTest, HearCancel
<1>6. modal' \in {modal, None} /\ (cancellingMigration' \in BOOLEAN)
  BY DEF DashInv, CardsInv, HearOfPanel, HearStatus, HearRunHistory, HearToggle, HearRun, HearPeek,
         HearTest, HearCancel, mapVars, cardVars
<1>7. MapInv' /\ CardsInv'
  BY <1>1, <1>2, <1>6 DEF DashInv, MapInv, CardsInv
<1> QED
  BY <1>1, <1>5, <1>7, CardsWait

LEMMA HearOthersProgress ==
  ASSUME DashInv, NEW c \in calls,
         \/ HearOfRecs(c) /\ OnlyRecs
         \/ HearOfEvacuation(c) /\ OnlyEvacuation
  PROVE  Progress
<1>1. UNCHANGED <<clusterVars, started, run, data, loading, cardVars>> /\ modal' \in {modal, None}
  BY DEF HearOfRecs, HearCached, HearGenerated, HearOfEvacuation, HearPlan, HearEvacuation,
         OnlyRecs, OnlyEvacuation, mapVars, panelVars, serverVars
<1>2. tasks' = tasks
  BY <1>1 DEF clusterVars
<1>3. c.kind # "migrate"
  BY DEF HearOfRecs, HearCached, HearGenerated, HearOfEvacuation, HearPlan, HearEvacuation, Heard
<1>4. CallOK(tasks', GenerateCall(TRUE)) /\ CallOK(tasks', LocationsCall)
  BY NewOther, NewLocations DEF GenerateCall, Known
<1>5. CallsGoOn /\ StartsStay
  BY <1>3, <1>4, CallEnds, CallGoesOn
  DEF HearOfRecs, HearCached, HearGenerated, HearOfEvacuation, HearPlan, HearEvacuation
<1>6. MapInv' /\ CardsInv'
  BY <1>1, <1>2, SamePage DEF DashInv, MapInv
<1> QED
  BY <1>1, <1>5, <1>6, CardsWait DEF cardVars

LEMMA HearProgress ==
  ASSUME DashInv, NEW c \in calls, Hear(c)
  PROVE  Progress
BY HearOfMapProgress, HearOfCardsProgress, HearOfPanelProgress, HearOthersProgress DEF Hear

-----------------------------------------------------------------------------
(* The user, and the intervals of the page.                                *)

\* A dialog is opened or closed, or calls start, and the cards stay.
LEMMA UserCalls ==
  ASSUME DashInv, UNCHANGED <<clusterVars, started, run, data, trackers>>,
         calls' = calls \/ \E c : Start(c) /\ CallOK(tasks', c),
         MapInv', CardsInv'
  PROVE  Progress
<1>1. CallsGoOn /\ StartsStay
  BY CallStarts DEF CallsGoOn, StartsStay
<1> QED
  BY <1>1, CardsWait

LEMMA OpenKeeps ==
  ASSUME DashInv, NEW m, Open(m), IsModal(tasks, m)
  PROVE  UNCHANGED <<clusterVars, calls, data>> /\ MapInv'
<1>1. /\ UNCHANGED <<clusterVars, calls, data, loading>> /\ tasks' = tasks /\ modal' = m
      /\ data # None
  BY DEF Open, clusterVars, callVars
<1> QED
  BY <1>1 DEF DashInv, MapInv

LEMMA UserOfMapProgress ==
  ASSUME DashInv, UserOfMap \/ CloseModal, OnlyMap
  PROVE  Progress
<1>1. UNCHANGED <<clusterVars, started, run, data, cardVars>>
  BY DEF UserOfMap, AutoRefresh, HandleRefresh, ConfirmAndRemoveTag, HandleAddTag, OpenTagModal,
         HandleRemoveTag, CloseModal, Open, OnlyMap, panelVars, serverVars, mapVars, callVars,
         clusterVars
<1>2. tasks' = tasks
  BY <1>1 DEF clusterVars
<1>3. CardsInv' /\ trackers' = trackers
  BY <1>1, <1>2, SamePage DEF cardVars
<1>4. MapInv /\ (data # None \/ modal # None => IsMap(data))
  BY DEF DashInv, MapInv
<1>5. ASSUME calls' = calls \/ (\E c : Start(c) /\ CallOK(tasks', c)), MapInv' PROVE Progress
  BY <1>1, <1>3, <1>5, UserCalls
<1>6. CASE AutoRefresh \/ HandleRefresh
  <2>1. MapInv'
    BY <1>1, <1>2, <1>4, <1>6 DEF AutoRefresh, HandleRefresh, MapInv
  <2>2. \E c : Start(c) /\ CallOK(tasks', c)
    BY <1>6, NewAnalyze, NewOther DEF AutoRefresh, HandleRefresh, Known
  <2> QED
    BY <1>5, <2>1, <2>2
<1>7. CASE ConfirmAndRemoveTag
  <2>1. MapInv'
    BY <1>1, <1>2, <1>4, <1>7 DEF ConfirmAndRemoveTag, MapInv
  <2>2. \E c : Start(c) /\ CallOK(tasks', c)
    BY <1>4, <1>7, NewTag DEF ConfirmAndRemoveTag
  <2> QED
    BY <1>5, <2>1, <2>2
<1>8. ASSUME NEW t \in Tags, HandleAddTag(t) PROVE Progress
  <2>1. MapInv'
    BY <1>2, <1>8, SamePage DEF HandleAddTag
  <2>2. \E c : Start(c) /\ CallOK(tasks', c)
    BY <1>4, <1>8, NewTag DEF HandleAddTag
  <2> QED
    BY <1>5, <2>1, <2>2
<1>9. ASSUME NEW g \in Guests, OpenTagModal(g) PROVE Progress
  <2>1. PICK m : Open(m) /\ m.kind = "tag"
    BY <1>9 DEF OpenTagModal
  <2>2. IsModal(tasks, m)
    BY <2>1 DEF IsModal
  <2> QED
    BY <1>5, <2>1, <2>2, OpenKeeps
<1>10. ASSUME NEW g \in Guests, NEW t \in Tags, HandleRemoveTag(g, t) PROVE Progress
  <2>1. PICK m : Open(m) /\ m.kind = "remove"
    BY <1>10 DEF HandleRemoveTag
  <2>2. IsModal(tasks, m)
    BY <2>1 DEF IsModal
  <2> QED
    BY <1>5, <2>1, <2>2, OpenKeeps
<1>11. CASE CloseModal
  <2>1. calls' = calls /\ MapInv'
    BY <1>1, <1>2, <1>4, <1>11 DEF CloseModal, callVars, MapInv
  <2> QED
    BY <1>5, <2>1
<1> QED
  BY <1>6, <1>7, <1>8, <1>9, <1>10, <1>11 DEF UserOfMap

LEMMA StartMigrationProgress ==
  ASSUME DashInv, NEW m \in Moves, StartMigration(m), modal' = None, OnlyCards
  PROVE  Progress
<1>1. /\ UNCHANGED <<clusterVars, started, run, data, loading, activeMigrations, guestsMigrating,
                     completedMigrations, trackers, cancellingMigration>>
      /\ migrationStatus' = With(migrationStatus, Key(m), "running")
      /\ Start(Call("migrate", [of |-> m]))
  BY DEF StartMigration, OnlyCards, panelVars, serverVars
<1>2. tasks' = tasks
  BY <1>1 DEF clusterVars
<1>3. CallOK(tasks', Call("migrate", [of |-> m]))
  BY NewMigrate
<1>4. MapInv'
  BY <1>1, <1>2 DEF DashInv, MapInv
<1>5. \A k \in DOMAIN migrationStatus' :
        migrationStatus'[k] \in {"running", "failed", "success", "cancelled"}
  BY <1>1, StatusesChange DEF DashInv
<1>6. CardsInv'
  BY <1>1, <1>2, <1>5 DEF DashInv, CardsInv
<1> QED
  BY <1>1, <1>3, <1>4, <1>6, UserCalls

LEMMA UserOfCardsProgress ==
  ASSUME DashInv, UserOfCards, OnlyCards
  PROVE  Progress
<1>1. MapInv /\ CardsInv /\ (modal # None => IsModal(tasks, modal))
  BY DEF DashInv, MapInv
<1>2. UNCHANGED <<started, run>>
  BY DEF OnlyCards, panelVars, serverVars
<1>3. ASSUME NEW m, Open(m), IsModal(tasks, m), UNCHANGED cardVars PROVE Progress
  <2>1. UNCHANGED <<clusterVars, calls, data>> /\ MapInv'
    BY <1>3, OpenKeeps
  <2>2. CardsInv'
    BY <1>3, <2>1, SamePage DEF clusterVars
  <2> QED
    BY <1>2, <1>3, <2>1, <2>2, UserCalls DEF cardVars
<1>4. CASE ExecuteMigration
  <2>1. CASE modal.kind = "migrate" /\ StartMigration(modal.of)
    BY <1>1, <1>4, <2>1, StartMigrationProgress DEF ExecuteMigration, IsModal
  <2>2. ASSUME modal.kind = "dialog", NEW n \in Nodes,
               StartMigration(Over(modal.of, [target |-> n]))
        PROVE  Progress
    <3>1. modal.of \in [guest : Guests, source : Nodes]
      BY <1>1, <1>4, <2>2 DEF ExecuteMigration, IsModal
    <3> DEFINE m == Over(modal.of, [target |-> n])
    <3>2. /\ m = [x \in {"guest", "source", "target"} |-> m[x]]
          /\ m.guest \in Guests /\ m.source \in Nodes /\ m.target \in Nodes
      BY <3>1 DEF Over
    <3>3. m \in Moves
      BY <3>2 DEF Moves
    <3> QED
      BY <1>4, <2>2, <3>3, StartMigrationProgress DEF ExecuteMigration
  <2> QED
    BY <1>4, <2>1, <2>2 DEF ExecuteMigration
<1>5. CASE ConfirmCancel
  <2>1. UNCHANGED <<clusterVars, mapVars, migrationStatus, activeMigrations, guestsMigrating,
                    completedMigrations, trackers>> /\ cancellingMigration' = TRUE
    BY <1>5 DEF ConfirmCancel
  <2>2. tasks' = tasks
    BY <2>1 DEF clusterVars
  <2>3. IsTracked(tasks, modal.of) /\ IsMap(modal.snap)
    BY <1>1, <1>5 DEF ConfirmCancel, IsModal
  <2>4. CallOK(tasks', Call("stop", [of |-> modal.of, snap |-> modal.snap]))
    BY <2>2, <2>3, NewStop
  <2>5. MapInv' /\ CardsInv'
    BY <1>1, <2>1, <2>2, SamePage DEF CardsInv
  <2> QED
    BY <1>2, <1>5, <2>1, <2>4, <2>5, UserCalls DEF ConfirmCancel, mapVars
<1>6. ASSUME NEW m \in Recs, AskMigration(m) PROVE Progress
  <2>1. IsModal(tasks, [kind |-> "migrate", of |-> m])
    BY RecsAssumption DEF IsModal, Moves
  <2> QED
    BY <1>3, <1>6, <2>1 DEF AskMigration
<1>7. ASSUME NEW m \in Recs, CancelMigration(m) PROVE Progress
  <2>1. IsTracked(tasks, activeMigrations[Key(m)]) /\ IsMap(data)
    BY <1>1, <1>7 DEF CancelMigration, CardsInv, Open, MapInv
  <2>2. IsModal(tasks, [kind |-> "cancel", of |-> activeMigrations[Key(m)], snap |-> data])
    BY <2>1 DEF IsModal
  <2> QED
    BY <1>3, <1>7, <2>2 DEF CancelMigration
<1>8. ASSUME NEW g \in Guests, NEW n \in Nodes, OpenMigrationDialog(g, n) PROVE Progress
  <2>1. IsModal(tasks, [kind |-> "dialog", of |-> [guest |-> g, source |-> n]])
    BY DEF IsModal
  <2> QED
    BY <1>3, <1>8, <2>1 DEF OpenMigrationDialog
<1> QED
  BY <1>4, <1>5, <1>6, <1>7, <1>8 DEF UserOfCards

LEMMA UserOfPanelProgress ==
  ASSUME DashInv, UserOfPanel \/ TimersOfPanel, OnlyPanel
  PROVE  Progress
<1>1. UNCHANGED <<clusterVars, started, run, data, loading, migrationStatus, activeMigrations,
                  guestsMigrating, completedMigrations, trackers>>
  BY DEF UserOfPanel, ToggleTimer, RunAutomationNow, TestAutomation, ConfirmTaskCancel, AskCancel,
         TimersOfPanel, PollStatus, PollRunHistory, StatusIsDue, Open, clusterVars, callVars,
         mapVars, cardVars, panelVars, serverVars
<1>2. tasks' = tasks
  BY <1>1 DEF clusterVars
<1>3. CardsInv'
  <2>1. cancellingMigration' \in BOOLEAN
    BY DEF UserOfPanel, ToggleTimer, RunAutomationNow, TestAutomation, ConfirmTaskCancel,
           AskCancel, TimersOfPanel, PollStatus, PollRunHistory, StatusIsDue, cardVars, DashInv,
           CardsInv
  <2> QED
    BY <1>1, <1>2, <2>1 DEF DashInv, CardsInv
<1>4. ASSUME NEW t, AskCancel(t) PROVE Progress
  <2>1. IsModal(tasks, [kind |-> "cancelTask", task |-> t])
    BY DEF IsModal
  <2>2. MapInv' /\ calls' = calls
    BY <1>4, <2>1, OpenKeeps DEF AskCancel
  <2> QED
    BY <1>1, <1>3, <2>2, UserCalls
<1>5. CASE ~ \E t \in DOMAIN tasks : AskCancel(t)
  <2>1. UNCHANGED mapVars
    BY <1>5 DEF UserOfPanel, ToggleTimer, RunAutomationNow, TestAutomation, ConfirmTaskCancel,
                TimersOfPanel, PollStatus, PollRunHistory, StatusIsDue
  <2>2. MapInv'
    BY <1>2, <2>1, SamePage
  <2>3. PICK kind \in {"toggle", "run", "test", "cancelTask", "status", "runHistory"} :
          \E args : Start(Call(kind, args))
    BY <1>5 DEF UserOfPanel, ToggleTimer, RunAutomationNow, TestAutomation, ConfirmTaskCancel,
                TimersOfPanel, PollStatus, PollRunHistory, StatusIsDue, StatusCall
  <2>4. \E c : Start(c) /\ CallOK(tasks', c)
    BY <2>3, NewOther DEF Known
  <2> QED
    BY <1>1, <1>3, <2>2, <2>4, UserCalls
<1> QED
  BY <1>4, <1>5

LEMMA OtherUsersProgress ==
  ASSUME DashInv,
         \/ (GenerateRecommendations \/ FetchRecommendations) /\ OnlyRecs
         \/ UserOfEvacuation /\ OnlyEvacuation
         \/ TablesNext /\ OnlyTable
  PROVE  Progress
<1>1. UNCHANGED <<clusterVars, started, run, data, cardVars>>
  BY DEF GenerateRecommendations, FetchRecommendations, UserOfEvacuation, PlanEvacuation, ClosePlan,
         ReviewAndConfirm, CloseConfirmation, ConfirmEvacuation, SelectNode, ChooseAction, Open,
         OnlyRecs, OnlyEvacuation, OnlyTable, clusterVars, callVars, mapVars, panelVars, serverVars
<1>2. tasks' = tasks
  BY <1>1 DEF clusterVars
<1>3. CardsInv' /\ trackers' = trackers
  BY <1>1, <1>2, SamePage DEF cardVars
<1>4. ASSUME NEW n, SelectNode(n) PROVE Progress
  <2>1. IsModal(tasks, [kind |-> "node", node |-> n])
    BY DEF IsModal
  <2>2. MapInv' /\ calls' = calls
    BY <1>4, <2>1, OpenKeeps DEF SelectNode
  <2> QED
    BY <1>1, <1>3, <2>2, UserCalls
<1>5. CASE ~ \E n \in Nodes : SelectNode(n)
  <2>1. UNCHANGED mapVars
    BY <1>5 DEF GenerateRecommendations, FetchRecommendations, UserOfEvacuation, PlanEvacuation,
                ClosePlan, ReviewAndConfirm, CloseConfirmation, ConfirmEvacuation, ChooseAction,
                OnlyTable
  <2>2. MapInv'
    BY <1>2, <2>1, SamePage
  <2>3. \/ calls' = calls
        \/ \E kind \in {"generate", "cached", "plan", "evacuate"} :
             \E args : Start(Call(kind, args))
    BY <1>5 DEF GenerateRecommendations, FetchRecommendations, UserOfEvacuation, PlanEvacuation,
                ClosePlan, ReviewAndConfirm, CloseConfirmation, ConfirmEvacuation, ChooseAction,
                OnlyTable, GenerateCall, callVars
  <2>4. calls' = calls \/ \E c : Start(c) /\ CallOK(tasks', c)
    BY <2>3, NewOther DEF Known
  <2> QED
    BY <1>1, <1>3, <2>2, <2>4, UserCalls
<1> QED
  BY <1>4, <1>5

LEMMA TimersProgress ==
  ASSUME DashInv, Timers, OnlyCards
  PROVE  Progress
<1>1. CardsInv /\ TasksInv /\ ClusterInv /\ RunInv /\ CallsInv
  BY DEF DashInv
<1>2. UNCHANGED <<started, run>>
  BY DEF OnlyCards, panelVars, serverVars
<1>3. ASSUME NEW m \in trackers, Poll(m) PROVE Progress
  <2>1. UNCHANGED <<clusterVars, mapVars, cardVars>> /\ Start(Call("migrating", [of |-> m]))
    BY <1>3 DEF Poll
  <2>2. tasks' = tasks /\ IsTracked(tasks, m)
    BY <1>1, <2>1 DEF clusterVars, CardsInv
  <2>3. CallOK(tasks', Call("migrating", [of |-> m]))
    BY <2>2, NewPoll
  <2> QED
    BY <1>2, <2>1, <2>2, <2>3, SamePage, UserCalls DEF mapVars, cardVars
<1>4. ASSUME NEW m \in trackers, StopPolling(m) PROVE Progress
  <2>1. /\ UNCHANGED <<location, tasks, cache, views, calls, mapVars, migrationStatus,
                       activeMigrations, guestsMigrating, completedMigrations,
                       cancellingMigration>>
        /\ troubles' = troubles + 1 /\ trackers' = trackers \ {m}
    BY <1>4 DEF StopPolling
  <2>2. ClusterInv' /\ TasksInv' /\ CallsInv'
    BY <1>1, <2>1 DEF ClusterInv, TasksInv, CallsInv
  <2>3. RunInv' /\ troubles' # 0
    BY <1>1, <1>2, <2>1 DEF RunInv
  <2>4. MapInv' /\ CardsInv'
    BY <1>1, <2>1, SamePage DEF CardsInv
  <2> QED
    BY <2>2, <2>3, <2>4 DEF Progress, DashInv, WatchGoesOn
<1>5. ASSUME NEW key, ClearStatus(key) PROVE Progress
  <2>1. /\ UNCHANGED <<callVars, mapVars, activeMigrations, guestsMigrating, completedMigrations,
                       trackers, cancellingMigration>>
        /\ migrationStatus' = Without(migrationStatus, key)
    BY <1>5 DEF ClearStatus
  <2>2. UNCHANGED <<clusterVars, calls, data>> /\ tasks' = tasks
    BY <2>1 DEF callVars, clusterVars, mapVars
  <2>3. \A k \in DOMAIN migrationStatus' :
          migrationStatus'[k] \in {"running", "failed", "success", "cancelled"}
    BY <1>1, <2>1, StatusesChange
  <2>4. MapInv' /\ CardsInv'
    BY <1>1, <2>1, <2>2, <2>3, SamePage DEF CardsInv
  <2> QED
    BY <1>2, <2>1, <2>2, <2>4, UserCalls
<1> QED
  BY <1>3, <1>4, <1>5 DEF Timers

LEMMA NextProgress ==
  ASSUME DashInv, Next
  PROVE  Progress
<1>1. CASE User
  BY <1>1, UserOfMapProgress, UserOfCardsProgress, UserOfPanelProgress, OtherUsersProgress DEF User
<1>2. CASE Intervals
  BY <1>2, TimersProgress, UserOfPanelProgress, OtherUsersProgress DEF Intervals
<1>3. CASE Server
  BY <1>3, ServerProgress
<1>4. CASE \E i \in 1..MaxCalls : Answering(i) \/ Hearing(i)
  BY <1>4, AnswerProgress, HearProgress DEF Answering, Hearing
<1> QED
  BY <1>1, <1>2, <1>3, <1>4 DEF Next

-----------------------------------------------------------------------------
(* The theorems.                                                           *)

LEMMA InitDash == Init => DashInv /\ RunningIsTracked
<1> SUFFICES ASSUME Init PROVE DashInv /\ RunningIsTracked
  OBVIOUS
<1> USE DEF Init, ClusterInit, MapInit, CardInit, PanelInit
<1>1. IsMap(cache)
  BY ClusterAssumption, LocationsAreLists
<1>2. ClusterInv
  BY <1>1, ClusterAssumption DEF ClusterInv
<1>3. tasks = <<>> /\ DOMAIN tasks = {}
  OBVIOUS
<1>4. TasksInv
  BY <1>3 DEF TasksInv
<1>5. RunInv
  BY DEF RunInv
<1>6. MapInv
  BY <1>1 DEF MapInv
<1>7. /\ DOMAIN activeMigrations = {} /\ DOMAIN completedMigrations = {}
      /\ DOMAIN migrationStatus = {}
  OBVIOUS
<1>8. CardsInv
  BY <1>7 DEF CardsInv
<1>9. CallsInv
  <2>1. CallOK(tasks, [AnalyzeCall EXCEPT !.id = 1])
    BY NewAnalyze, CallNumbered
  <2> QED
    BY <2>1 DEF CallsInv
<1>10. RunningIsTracked
  BY <1>3 DEF RunningIsTracked
<1> QED
  BY <1>2, <1>4, <1>5, <1>6, <1>8, <1>9, <1>10 DEF DashInv

LEMMA DashInvariance == Spec => [](DashInv /\ RunningIsTracked)
<1>1. ASSUME DashInv, RunningIsTracked, Progress PROVE (DashInv /\ RunningIsTracked)'
  <2>1. DashInv' /\ WatchGoesOn
    BY <1>1 DEF Progress
  <2>2. RunningIsTracked'
    BY <1>1, <2>1 DEF RunningIsTracked, WatchGoesOn, Watched
  <2> QED
    BY <2>1, <2>2
<1>2. ASSUME DashInv, RunningIsTracked, UNCHANGED vars PROVE (DashInv /\ RunningIsTracked)'
  BY <1>2 DEF vars, callVars, mapVars, cardVars, panelVars, serverVars, DashInv, ClusterInv,
     TasksInv, RunInv, MapInv, CardsInv, CallsInv, RunningIsTracked
<1>3. DashInv /\ RunningIsTracked /\ [Next]_vars => (DashInv /\ RunningIsTracked)'
  BY <1>1, <1>2, NextProgress
<1> QED
  BY <1>3, InitDash, PTL DEF Spec

\* Whatever the service answers, in whatever order and however stale, the page
\* keeps its types: the map always has one node for each guest, and lists of
\* guests for each node (the handlers of app.jsx that replace or patch the data).
THEOREM PageKeepsItsTypes == Spec => []TypeOK
<1>1. DashInv => TypeOK
  <2> SUFFICES ASSUME DashInv PROVE TypeOK
    OBVIOUS
  <2>1. \A t \in DOMAIN tasks : tasks[t] \in TaskRecords
    BY DEF DashInv, TasksInv
  <2>2. \A t \in DOMAIN tasks : tasks[t].state \in {"running", "moved", "failed", "aborted"}
    BY <2>1 DEF TaskRecords
  <2> QED
    BY <2>2 DEF DashInv, ClusterInv, MapInv, CardsInv, IsMap, TypeOK
<1> QED
  BY <1>1, DashInvariance, PTL

\* As long as nothing fails and the automation has started no run, every
\* migration that runs has its interval, or the answer that will set it is on its
\* way: polls that overlap, starts of the same guest and cancellations never leave
\* one unwatched (trackMigration, app.jsx).
THEOREM NoMigrationRunsUnwatched == Spec => []RunningIsTracked
BY DashInvariance, PTL
=============================================================================
