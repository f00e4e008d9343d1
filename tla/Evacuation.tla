----------------------------- MODULE Evacuation -----------------------------
(***************************************************************************)
(* Emptying a node: the plan that POST /api/nodes/evacuate shows, the      *)
(* session a confirmed request starts (_execute_evacuation, a thread of an *)
(* API worker that migrates one guest after the other), the session file   *)
(* it keeps for GET .../evacuate/status, and what the user may do          *)
(* meanwhile, another session for the same node included: the page blocks  *)
(* the button only until the request is answered.                          *)
(*                                                                         *)
(* Nobody else moves guests here, and none moves back onto Src.            *)
(***************************************************************************)
EXTENDS Integers, FiniteSets

CONSTANTS
    Nodes, Src,          \* Src is the node to empty
    Guests,              \* those on Src
    None,                \* nothing
    Place,               \* Place[g]: the place of g in the cached list of guests
    Storages,            \* what may be found: [g |-> nodes that have the storage g needs]
    Loads,               \* what may be collected: [n |-> cpu + mem of node n]
    Rank,                \* Rank[n]: the place of n in the cached list of nodes
    PendingWeight,       \* what one assigned guest adds to its target's load (10)
    Tagged,              \* guests with the 'ignore' tag
    Sessions,            \* confirmed requests
    Actions              \* guest_actions the user picks from

ASSUME EvacuationAssumptions ==
    /\ Src \in Nodes /\ None \notin Nodes \cup Guests \cup Sessions
    /\ None \notin {"OK", "ERR", "migrated", "ignored", "off", "failed"}
    /\ IsFiniteSet(Guests)
    /\ Place \in [Guests -> Nat]
    /\ \A g, h \in Guests : Place[g] = Place[h] => g = h
    /\ Storages \subseteq [Guests -> SUBSET Nodes]
    /\ Loads \subseteq [Nodes -> Nat] /\ PendingWeight \in Nat
    /\ Rank \in [Nodes -> Nat]
    /\ \A m, n \in Nodes : Rank[m] = Rank[n] => m = n
    /\ Tagged \subseteq Guests
    /\ Actions \subseteq {"migrate", "ignore", "poweroff"}

Targets == Nodes \ {Src}
Good == {"migrated", "ignored", "off"}
Result == [Guests -> Good \cup {"failed", None}]
\* The session data.  results[g] is g's entry in the list, if it has one.
Document == [status : {"starting", "running", "completed"}, results : Result,
             successful : Nat, failed : Nat, current : Guests \cup {None}]
\* A request: storage is what the plan found and, once the thread has begun,
\* what the thread found.
Job == [guests : SUBSET Guests, avail : SUBSET Targets,
        load : [Nodes -> Nat], storage : [Guests -> SUBSET Nodes],
        action : [Guests -> {"migrate", "ignore", "poweroff"}],
        promised : [Guests -> Nodes \cup {None}], unchanged : BOOLEAN]

ASSUME MarkersAreNoDocuments ==
    /\ None \notin Document /\ None \notin Job

VARIABLES
    loc, task, owner,  \* where g is; its running migration, and whose it is
    off,               \* guests powered off
    cached, load,      \* guests of Src and loads of the nodes in cluster_cache.json
    avail,             \* online nodes but Src and the maintenance nodes
    shown,             \* the plan on the screen, or None
    pc,                \* pc[s]: where session s is
    job,               \* job[s]: the request it works on, or None
    left,              \* left[s]: guests of its request the loop has not reached
    pending,           \* execution_pending_counts
    exit,              \* exit[s]: how the task it polls ended, or None
    doc                \* doc[s]: its session file, or None

cluster == <<loc, task, owner, off>>
page == <<cached, load, avail, shown>>
vars == <<cluster, page, pc, job, left, pending, exit, doc>>

Live == {"starting", "head", "guest", "polling"}
NoResults == [g \in Guests |-> None]
Fresh == [status |-> "starting", results |-> NoResults,
          successful |-> 0, failed |-> 0, current |-> None]

TypeOK ==
    /\ loc \in [Guests -> Nodes]
    /\ task \in [Guests -> Targets \cup {None}]
    /\ owner \in [Guests -> Sessions \cup {None}]
    /\ off \subseteq Guests /\ cached \subseteq Guests /\ avail \subseteq Targets
    /\ load \in [Nodes -> Nat]
    /\ shown = None \/ shown \in
          [guests : SUBSET Guests, avail : SUBSET Targets, load : [Nodes -> Nat],
           storage : [Guests -> SUBSET Nodes], target : [Guests -> Nodes \cup {None}]]
    /\ pc \in [Sessions -> Live \cup {"new", "done", "dead"}]
    /\ job \in [Sessions -> Job \cup {None}]
    /\ left \in [Sessions -> SUBSET Guests]
    /\ pending \in [Sessions -> [Nodes -> Nat]]
    /\ exit \in [Sessions -> {"OK", "ERR", None}]
    /\ doc \in [Sessions -> Document \cup {None}]

Init ==
    /\ loc = [g \in Guests |-> Src]
    /\ task = [g \in Guests |-> None] /\ owner = [g \in Guests |-> None]
    /\ off = {} /\ cached = Guests /\ load \in Loads /\ avail = Targets
    /\ shown = None
    /\ pc = [s \in Sessions |-> "new"] /\ job = [s \in Sessions |-> None]
    /\ left = [s \in Sessions |-> {}]
    /\ pending = [s \in Sessions |-> [n \in Nodes |-> 0]]
    /\ exit = [s \in Sessions |-> None]
    /\ doc = [s \in Sessions |-> None]
----------------------------------------------------------------------------
(* The plan.                                                               *)

Compatible(g, nodes, storage) == nodes \cap storage[g]

Cost(loads, counts, n) == loads[n] + PendingWeight * counts[n]

\* min() over the compatible nodes: of the cheapest ones the first listed.
Cheapest(loads, counts, nodes) ==
    {n \in nodes : \A m \in nodes :
        \/ Cost(loads, counts, n) < Cost(loads, counts, m)
        \/ Cost(loads, counts, n) = Cost(loads, counts, m) /\ Rank[n] <= Rank[m]}

Count(counts, n) == [counts EXCEPT ![n] = @ + 1]

\* How many of some guests a plan sends to each node.
Sent(target, guests) == [n \in Nodes |-> Cardinality({h \in guests : target[h] = n})]

\* Mutant: the plan forgets the guests it has assigned already.
Earlier_None(guests, g) == {}

Earlier(guests, g) == {h \in guests : Place[h] < Place[g]}

\* The targets of a plan for the cached guests: those with the tag, without
\* storage or gone from Src are skipped, the others spread in their order.
IsPlan(target, storage) ==
    LET assigned == {g \in cached : /\ g \notin Tagged /\ loc[g] = Src
                                    /\ Compatible(g, avail, storage) # {}}
    IN  /\ \A g \in Guests \ assigned : target[g] = None
        /\ \A g \in assigned :
              target[g] \in Cheapest(load, Sent(target, Earlier(assigned, g)),
                                    Compatible(g, avail, storage))

\* 'No guests found' and 'No available target nodes' are refused.
Answerable == cached # {} /\ avail # {}

\* Bound: the page and what it reads rest once every session is confirmed.
Awaited == \E s \in Sessions : pc[s] = "new"

\* POST without confirm; the page opens the plan.  Nodes and loads are those
\* of the cache, storage is what Proxmox answers (a node that does not answer
\* has none).
Plan ==
    /\ shown = None /\ Awaited
    /\ Answerable
    /\ \E storage \in Storages, target \in [Guests -> avail \cup {None}] :
          /\ IsPlan(target, storage)
          /\ shown' = [guests |-> cached, avail |-> avail, load |-> load,
                       storage |-> storage, target |-> target]
    /\ UNCHANGED <<cluster, cached, load, avail, pc, job, left, pending, exit, doc>>

ClosePlan ==
    /\ shown # None
    /\ shown' = None
    /\ UNCHANGED <<cluster, cached, load, avail, pc, job, left, pending, exit, doc>>

\* POST with confirm: the session file is created and the thread started.
\* The guests, the nodes and their loads are read again; the plan is made again
\* and thrown away, guest_targets (own) with it.  promised is what the page
\* showed, unchanged says that the request is for that plan.
Confirm(s) ==
    /\ pc[s] = "new" /\ shown # None
    /\ Answerable
    /\ \E action \in [Guests -> Actions], own \in [Guests -> shown.avail \cup {None}] :
          job' = [job EXCEPT ![s] =
              [guests |-> cached, avail |-> avail, load |-> load,
               storage |-> shown.storage, action |-> action, promised |-> shown.target,
               unchanged |-> /\ shown.guests = cached /\ shown.avail = avail
                             /\ shown.load = load
                             /\ \A g \in Guests : action[g] = "migrate" /\ own[g] = None]]
    /\ shown' = None
    /\ pc' = [pc EXCEPT ![s] = "starting"]
    /\ left' = [left EXCEPT ![s] = cached]
    /\ doc' = [doc EXCEPT ![s] = Fresh]
    /\ UNCHANGED <<cluster, cached, load, avail, pending, exit>>
----------------------------------------------------------------------------
(* The session.                                                            *)

Current(s) == doc[s].current

WriteSession(s, document) == doc' = [doc EXCEPT ![s] = document]

Goto(s, from, to) ==
    /\ pc[s] = from
    /\ pc' = [pc EXCEPT ![s] = to]

\* The request with the storage the thread has found.
Found(request, storage) ==
    [request EXCEPT !.storage = storage,
                    !.unchanged = @ /\ storage = request.storage]

\* The thread asks every node for its storage, once.
StartThread(s) ==
    /\ Goto(s, "starting", "head")
    /\ WriteSession(s, [doc[s] EXCEPT !.status = "running"])
    /\ \E storage \in Storages :
          job' = [job EXCEPT ![s] = Found(job[s], storage)]
    /\ UNCHANGED <<cluster, page, left, pending, exit>>

NextGuest(s) ==
    /\ Goto(s, "head", "guest")
    /\ \E g \in left[s] :
          /\ \A h \in left[s] : Place[g] <= Place[h]
          /\ left' = [left EXCEPT ![s] = @ \ {g}]
          /\ WriteSession(s, [doc[s] EXCEPT !.current = g])
    /\ UNCHANGED <<cluster, page, job, pending, exit>>

\* d with one more result, counted.
Counted(d, g, result) ==
    [status |-> d.status, current |-> d.current,
     results |-> [d.results EXCEPT ![g] = result],
     successful |-> IF result \in Good THEN d.successful + 1 ELSE d.successful,
     failed |-> IF result \in Good THEN d.failed ELSE d.failed + 1]

\* The counters, the result and _update_evacuation_progress.
Record(s, result) ==
    /\ pc' = [pc EXCEPT ![s] = "head"]
    /\ exit' = [exit EXCEPT ![s] = None]
    /\ WriteSession(s, Counted(doc[s], Current(s), result))

\* The guest is not on Src, has the tag, finds no storage, or some call of
\* the Proxmox API fails.
FailGuest(s) ==
    /\ pc[s] = "guest"
    /\ Record(s, "failed")
    /\ UNCHANGED <<cluster, page, job, left, pending>>

Migratable(s) == LET g == Current(s) IN pc[s] = "guest" /\ loc[g] = Src /\ g \notin Tagged

IgnoreGuest(s) ==
    /\ Migratable(s) /\ job[s].action[Current(s)] = "ignore"
    /\ Record(s, "ignored")
    /\ UNCHANGED <<cluster, page, job, left, pending>>

PowerOff(s) ==
    /\ Migratable(s) /\ job[s].action[Current(s)] = "poweroff"
    /\ off' = off \cup {Current(s)}
    /\ Record(s, "off")
    /\ UNCHANGED <<loc, task, owner, page, job, left, pending>>

\* Mutant: min() forgets the guests it has assigned already.
Assign_LoadOnly(s, n) ==
    /\ Migratable(s) /\ job[s].action[Current(s)] = "migrate"
    /\ n \in Cheapest(job[s].load, [m \in Nodes |-> 0],
                     Compatible(Current(s), job[s].avail, job[s].storage))
    /\ pending' = [pending EXCEPT ![s] = Count(@, n)]

Assign(s, n) ==
    /\ Migratable(s) /\ job[s].action[Current(s)] = "migrate"
    /\ n \in Cheapest(job[s].load, pending[s],
                     Compatible(Current(s), job[s].avail, job[s].storage))
    /\ pending' = [pending EXCEPT ![s] = Count(@, n)]

StartMigration(s, n) ==
    /\ Assign(s, n)
    /\ task[Current(s)] = None
    /\ task' = [task EXCEPT ![Current(s)] = n]
    /\ owner' = [owner EXCEPT ![Current(s)] = s]
    /\ pc' = [pc EXCEPT ![s] = "polling"]
    /\ UNCHANGED <<loc, off, page, job, left, exit, doc>>

\* Proxmox refuses: the guest is locked by another migration, or anything.
StartRefused(s, n) ==
    /\ Assign(s, n)
    /\ Record(s, "failed")
    /\ UNCHANGED <<cluster, page, job, left>>

\* migrate.post raises although Proxmox has started the task.
StartLost(s, n) ==
    /\ Assign(s, n)
    /\ task[Current(s)] = None
    /\ task' = [task EXCEPT ![Current(s)] = n]
    /\ owner' = [owner EXCEPT ![Current(s)] = s]
    /\ Record(s, "failed")
    /\ UNCHANGED <<loc, off, page, job, left>>

\* Mutant: a stopped task is a successful one.
ResultOf_Stopped(status) == "migrated"

ResultOf(status) == IF status = "OK" THEN "migrated" ELSE "failed"

\* Mutant: a task that has started is a guest that has been migrated.
SeeTaskStopped_AtOnce(s) ==
    /\ pc[s] = "polling"
    /\ Record(s, "migrated")
    /\ UNCHANGED <<cluster, page, job, left, pending>>

SeeTaskStopped(s) ==
    /\ pc[s] = "polling" /\ exit[s] # None
    /\ Record(s, ResultOf(exit[s]))
    /\ UNCHANGED <<cluster, page, job, left, pending>>

\* Mutant: the thread waits as long as the task takes.
GiveUp_Never(s) ==
    /\ pc[s] = "polling" /\ exit[s] = "ERR"
    /\ Record(s, "failed")
    /\ UNCHANGED <<cluster, page, job, left, pending>>

\* 600 s are over, or the task cannot be found: the task may go on.
GiveUp(s) ==
    /\ pc[s] = "polling"
    /\ Record(s, "failed")
    /\ UNCHANGED <<cluster, page, job, left, pending>>

\* Mutant: the loop stops one guest early.
Complete_Early(s) ==
    /\ Goto(s, "head", "done")
    /\ Cardinality(left[s]) <= 1
    /\ WriteSession(s, [doc[s] EXCEPT !.status = "completed", !.current = None])
    /\ UNCHANGED <<cluster, page, job, left, pending, exit>>

Complete(s) ==
    /\ Goto(s, "head", "done")
    /\ left[s] = {}
    /\ LET d == [doc[s] EXCEPT !.status = "completed"]
       IN  WriteSession(s, [d EXCEPT !.current = None])
    /\ UNCHANGED <<cluster, page, job, left, pending, exit>>

\* The API service is restarted: its threads are gone, their tasks are not.
Restart ==
    /\ \E s \in Sessions : pc[s] \in Live
    /\ pc' = [s \in Sessions |-> IF pc[s] \in Live THEN "dead" ELSE pc[s]]
    /\ UNCHANGED <<cluster, page, job, left, pending, exit, doc>>
----------------------------------------------------------------------------
EndTask(g, status) ==
    /\ task[g] # None
    /\ loc' = IF status = "OK" THEN [loc EXCEPT ![g] = task[g]] ELSE loc
    /\ task' = [task EXCEPT ![g] = None]
    /\ owner' = [owner EXCEPT ![g] = None]
    /\ exit' = [s \in Sessions |->
                   IF owner[g] = s /\ pc[s] = "polling" /\ Current(s) = g
                   THEN status ELSE exit[s]]
    /\ UNCHANGED <<off, page, pc, job, left, pending, doc>>

\* The collector replaces the cache: the guests, and the loads of the moment.
Collect ==
    /\ Awaited
    /\ cached' = {g \in Guests : loc[g] = Src}
    /\ load' \in Loads
    /\ UNCHANGED <<cluster, avail, shown, pc, job, left, pending, exit, doc>>

\* Nodes enter and leave maintenance, fail and return.
ChangeNodes ==
    /\ Awaited
    /\ avail' \in SUBSET Targets
    /\ UNCHANGED <<cluster, cached, load, shown, pc, job, left, pending, exit, doc>>

Step(s) ==
    \/ StartThread(s) \/ NextGuest(s) \/ Complete(s)
    \/ FailGuest(s) \/ IgnoreGuest(s) \/ PowerOff(s)
    \/ \E n \in Targets : StartMigration(s, n) \/ StartRefused(s, n) \/ StartLost(s, n)
    \/ SeeTaskStopped(s) \/ GiveUp(s)

Next ==
    \/ Plan \/ ClosePlan \/ Collect \/ ChangeNodes \/ Restart
    \/ \E s \in Sessions : Confirm(s) \/ Step(s)
    \/ \E g \in Guests, status \in {"OK", "ERR"} : EndTask(g, status)

Spec == Init /\ [][Next]_vars

\* A thread goes on: every call has a timeout, and the wait for a task ends
\* after 600 s.  Nothing is asked of Proxmox.
FairSpec == Spec /\ \A s \in Sessions : WF_vars(Step(s))
----------------------------------------------------------------------------
(* Properties.                                                             *)

Having(d, results) == {g \in Guests : d.results[g] \in results}

\* What the session file says adds up: the counters count the results, one
\* for every guest dealt with and, in the end, for every guest listed.
ProgressAddsUp ==
    \A s \in Sessions : doc[s] # None =>
        /\ doc[s].successful = Cardinality(Having(doc[s], Good))
        /\ doc[s].failed = Cardinality(Having(doc[s], {"failed"}))
        /\ doc[s].status = "completed" =>
              Having(doc[s], Good \cup {"failed"}) = job[s].guests

\* A guest reported as migrated has left the node.  (A guest reported as
\* failed may have left it, too.)
SuccessIsReal ==
    \A s \in Sessions, g \in Guests :
        doc[s] # None /\ doc[s].results[g] = "migrated" => loc[g] # Src

\* An evacuation reported complete without a failure has emptied the node of
\* the guests it listed, but for those the user chose to leave.
CompleteMeansEmpty ==
    \A s \in Sessions :
        doc[s] # None /\ doc[s].status = "completed" /\ doc[s].failed = 0
            => \A g \in job[s].guests :
                  loc[g] = Src => job[s].action[g] \in {"ignore", "poweroff"}

\* No node is given a guest while a node that suits every guest is cheaper.
IsSpread(loads, counts, nodes, storage) ==
    \A n \in Targets, m \in nodes :
        /\ counts[n] > 0
        /\ \A g \in Guests : m \in storage[g]
        => Cost(loads, counts, n) - PendingWeight <= Cost(loads, counts, m)

\* The plan on the page and the choices of every thread are spread, each by the
\* loads and the storage it has read, which need not be those of the other.
AssignmentsAreSpread ==
    /\ shown # None =>
          IsSpread(shown.load, Sent(shown.target, Guests), shown.avail, shown.storage)
    /\ \A s \in Sessions : pc[s] # "new" =>
          IsSpread(job[s].load, pending[s], job[s].avail, job[s].storage)

\* A session has one migration under way, those it gave up on excepted.
OneAtATime ==
    \A s \in Sessions, g \in Guests :
        owner[g] = s /\ pc[s] \in Live =>
            \/ pc[s] = "polling" /\ Current(s) = g
            \/ doc[s].results[g] = "failed"

\* A plan confirmed as it stands, with the nodes, loads and storage it was made
\* for, is carried out as it stands: while nothing has failed, guests go where
\* the page said.  (Where the request finds other loads or the thread other
\* storage, a guest may go elsewhere: the thread follows what it reads, and
\* nobody compares it with what the page said.)
PlanIsFollowed ==
    \A s \in Sessions :
        pc[s] = "polling" /\ job[s].unchanged /\ doc[s].failed = 0
                /\ owner[Current(s)] = s
            => task[Current(s)] = job[s].promised[Current(s)]

\* Every session comes to an end, be Proxmox as slow as it may.
SessionsEnd == \A s \in Sessions : pc[s] = "starting" ~> pc[s] \in {"done", "dead"}
=============================================================================
