--------------------------- MODULE DashboardCalls ---------------------------
(***************************************************************************)
(* What the dashboard talks to (app.py): the Proxmox cluster, where guests *)
(* move and carry tags, and the collector's cache of it.  A call of the    *)
(* browser is in `calls` from the fetch() until its answer has been        *)
(* handled; calls are answered, and answers heard, in any order.  A        *)
(* handler that awaits one fetch after another is one call that goes on.   *)
(***************************************************************************)
EXTENDS Naturals, Sequences, FiniteSets, FiniteSetsExt

CONSTANTS
    Guests, Nodes, Tags,
    None,           \* null, undefined, "not answered yet"
    Error,          \* the answer of a call that failed
    Home,           \* where each guest is at first
    Alike,          \* pairs of guests: the number of the first occurs in that
                    \* of the second
    Workers,        \* gunicorn's worker processes
    MaxCalls,       \* bound: calls in flight
    MaxTasks,       \* bound: migrations in a behaviour
    MaxTroubles,    \* bound: calls that fail
    Parts           \* sets of controls, one of which is used in a behaviour; with
                    \* "reliable" nothing fails, with "lag" workers' views differ, with
                    \* "loaded" the page has been loaded before it begins

ASSUME DashboardBounds == MaxCalls \in Nat /\ MaxTasks \in Nat /\ MaxTroubles \in Nat
ASSUME ClusterAssumption ==
    /\ Nodes # {}
    /\ Home \in [Guests -> Nodes]
    /\ \A g \in Guests : <<g, g>> \in Alike
ASSUME MarkersAssumption ==
    None # Error /\ {None, Error} \cap (Nat \cup {"ok"}) = {}

VARIABLES
    location,   \* node of each guest
    tags,       \* tags of each guest
    tasks,      \* migration tasks of the cluster, by number
    cache,      \* cluster_cache.json: as of its collection
    views,      \* the cache as each worker holds it, for up to 60 seconds
    calls,      \* calls in flight
    troubles,   \* how many calls have failed
    part        \* the controls used in this behaviour

callVars == <<location, tags, tasks, cache, views, calls, troubles>>

Lists(at) == [n \in Nodes |-> {g \in Guests : at[g] = n}]

\* What GET /api/analyze answers: the guests, and the lists of them by node.
Snapshot(stamp, at, tagged) ==
    [stamp |-> stamp, at |-> at, lists |-> Lists(at), tags |-> tagged]

ClusterInit ==
    /\ location = Home
    /\ tags = [g \in Guests |-> {}]
    /\ tasks = <<>>
    /\ cache = Snapshot(0, Home, tags)
    /\ views = [w \in Workers |-> cache]
    /\ troubles = 0
    /\ part \in Parts

\* { ...g, ...f }
Over(f, g) == [x \in DOMAIN f \cup DOMAIN g |-> IF x \in DOMAIN f THEN f[x] ELSE g[x]]
With(f, k, v) == Over([x \in {k} |-> v], f)
Without(f, k) == [x \in DOMAIN f \ {k} |-> f[x]]

Call(kind, args) == Over([id |-> 0, kind |-> kind, answer |-> None], args)

LocationsCall == Call("locations", [at |-> <<>>, lists |-> <<>>])

FreeIds == (1..MaxCalls) \ {c.id : c \in calls}

\* fetch()
Start(c) ==
    /\ FreeIds # {}
    /\ calls' = calls \cup {[c EXCEPT !.id = Min(FreeIds)]}

Heard(c, kind) == c.kind = kind /\ c.answer # None

\* The handler of c is done, or goes on to another fetch.
End(c) == calls' = calls \ {c}
GoOn(c, d) == calls' = (calls \ {c}) \cup {[d EXCEPT !.id = c.id]}

clusterVars == <<location, tags, tasks, cache, views, troubles>>

Running(g) == \E t \in DOMAIN tasks : tasks[t].guest = g /\ tasks[t].state = "running"

-----------------------------------------------------------------------------
(* The endpoints.                                                          *)

Answer(c, a) == calls' = (calls \ {c}) \cup {[c EXCEPT !.answer = a]}

MayFail == "reliable" \notin part /\ troubles < MaxTroubles

\* The call fails: an exception in the service or on the way, before the
\* endpoint did its work or after.
Fail(c) ==
    /\ MayFail
    /\ c.answer # Error
    /\ troubles' = troubles + 1
    /\ Answer(c, Error)
    /\ UNCHANGED <<location, tags, tasks, cache, views>>

\* Is a migration task active whose text has the guest's number in it?
AnswerMigrating(c) ==
    /\ c.kind = "migrating"
    /\ Answer(c, IF \E g \in Guests : <<c.of.guest, g>> \in Alike /\ Running(g)
                 THEN "yes" ELSE "no")
    /\ UNCHANGED clusterVars

AnswerTask(c) ==
    /\ c.kind = "task"
    /\ Answer(c, tasks[c.of.task].state)
    /\ UNCHANGED clusterVars

AnswerLocation(c) ==
    /\ c.kind \in {"location", "stopLocation"}
    /\ Answer(c, location[c.of.guest])
    /\ UNCHANGED clusterVars

\* The nodes are asked one after another; a node that does not answer has no
\* guests, and a guest that is found twice is where it was found last.
AnswerLocations(c) ==
    /\ c.kind = "locations"
    /\ \E ok \in {TRUE, ~MayFail} :
         LET n     == CHOOSE n \in Nodes \ DOMAIN c.lists : TRUE
             there == IF ok THEN {g \in Guests : location[g] = n} ELSE {}
             lists == With(c.lists, n, there)
         IN  /\ troubles' = IF ok THEN troubles ELSE troubles + 1
             /\ calls' = (calls \ {c}) \cup
                  {[c EXCEPT !.at = Over([g \in there |-> n], @), !.lists = lists,
                             !.answer = IF DOMAIN lists = Nodes THEN "ok" ELSE None]}
    /\ UNCHANGED <<location, tags, tasks, cache, views>>

AnswerAnalyze(c) ==
    /\ c.kind \in {"analyze", "wait"}
    /\ \E w \in Workers : Answer(c, views[w])
    /\ UNCHANGED clusterVars

\* POST /api/migrate: Proxmox locks a guest for one migration, and knows it
\* only at its node.
AnswerMigrate(c) ==
    /\ c.kind = "migrate"
    /\ IF location[c.of.guest] = c.of.source /\ ~Running(c.of.guest)
       THEN /\ tasks' = Append(tasks, [guest |-> c.of.guest, target |-> c.of.target,
                                       state |-> "running"])
            /\ Answer(c, Len(tasks'))
       ELSE Answer(c, Error) /\ UNCHANGED tasks
    /\ UNCHANGED <<location, tags, cache, views, troubles>>

\* POST /api/tasks/<node>/<taskid>/stop: "aborted" stands for the two exit texts
\* that the page takes for a cancelled migration.
AnswerStop(c) ==
    /\ c.kind = "stop"
    /\ \E end \in {"aborted", "failed"} :
         tasks' = [tasks EXCEPT ![c.of.task].state = IF @ = "running" THEN end ELSE @]
    /\ Answer(c, "ok")
    /\ UNCHANGED <<location, tags, cache, views, troubles>>

\* A worker asks the node that its view of the cache names; Proxmox knows the
\* tags of a guest at its node only.
Reachable(w, g) == views[w].at[g] = location[g]

\* POST and DELETE /api/guests/<vmid>/tags read all tags of the guest ...
ReadTags(c) ==
    /\ c.kind \in {"addTag", "removeTag"}
    /\ c.seen = None
    /\ \E w \in Workers :
         IF Reachable(w, c.guest) /\ (c.tag \in tags[c.guest]) = (c.kind = "removeTag")
         THEN calls' = (calls \ {c}) \cup
                {[c EXCEPT !.seen = [tags |-> tags[c.guest], node |-> location[c.guest]]]}
         ELSE Answer(c, Error)
    /\ UNCHANGED clusterVars

\* ... and write them all, at the same node.
WriteTags(c) ==
    /\ c.kind \in {"addTag", "removeTag"}
    /\ c.seen # None
    /\ IF location[c.guest] = c.seen.node
       THEN /\ tags' = [tags EXCEPT ![c.guest] = IF c.kind = "addTag" THEN c.seen.tags \cup {c.tag}
                                                 ELSE c.seen.tags \ {c.tag}]
            /\ Answer(c, "ok")
       ELSE Answer(c, Error) /\ UNCHANGED tags
    /\ UNCHANGED <<location, tasks, cache, views, troubles>>

AnswerTagRefresh(c) ==
    /\ c.kind = "refreshTags"
    /\ \E w \in Workers :
         Answer(c, IF Reachable(w, c.guest) THEN tags[c.guest] ELSE Error)
    /\ UNCHANGED clusterVars

\* POST /api/refresh only starts a collection.
AnswerRefresh(c) ==
    /\ c.kind = "refresh"
    /\ Answer(c, "ok")
    /\ UNCHANGED clusterVars

AnswerOne(c) ==
    \/ /\ c.answer = None
       /\ \/ AnswerMigrating(c) \/ AnswerTask(c) \/ AnswerLocation(c) \/ AnswerLocations(c)
          \/ AnswerAnalyze(c) \/ AnswerMigrate(c) \/ AnswerStop(c)
          \/ ReadTags(c) \/ WriteTags(c) \/ AnswerTagRefresh(c) \/ AnswerRefresh(c)
    \/ Fail(c)

-----------------------------------------------------------------------------
(* The collector and the cluster.                                          *)

\* Time stamps of collections are counted modulo 3, and only where a refresh
\* looks at them; without a lag, the workers see the new file at once.
Collect(stamped, lag) ==
    /\ cache' = Snapshot((cache.stamp + (IF stamped THEN 1 ELSE 0)) % 3, location, tags)
    /\ views' = IF lag THEN views ELSE [w \in Workers |-> cache']
    /\ UNCHANGED <<location, tags, tasks, calls, troubles>>

\* What a worker holds is 60 seconds old: it reads the file again.
Reread(w) ==
    /\ views[w] # cache
    /\ views' = [views EXCEPT ![w] = cache]
    /\ UNCHANGED <<location, tags, tasks, cache, calls, troubles>>

\* A migration task ends, with the guest moved or with an error.
EndTask(t) ==
    /\ tasks[t].state = "running"
    /\ \/ /\ tasks' = [tasks EXCEPT ![t].state = "moved"]
          /\ location' = [location EXCEPT ![tasks[t].guest] = tasks[t].target]
       \/ tasks' = [tasks EXCEPT ![t].state = "failed"] /\ UNCHANGED location
    /\ UNCHANGED <<tags, cache, views, calls, troubles>>
=============================================================================
