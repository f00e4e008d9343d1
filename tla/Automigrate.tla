---------------------------- MODULE Automigrate ----------------------------
(***************************************************************************)
(* One automation run after another (main of automigrate.py) against a     *)
(* cluster that moves under it: the tasks it starts through POST           *)
(* /api/migrate, migrations that others start, collectors that refresh     *)
(* cluster_cache.json late, and kills.  RunLock says when runs exclude     *)
(* each other; here they do.                                               *)
(*                                                                         *)
(* A recommendation is a record: src and tgt, the guest, whether it is a   *)
(* distribution move (dist: its vmid is a string, and it carries no        *)
(* source_node), and whether it is worth it: passes min_confidence_score   *)
(* and validates_resource_improvement.  The scores behind it are abstract. *)
(***************************************************************************)
EXTENDS Naturals, Sequences, FiniteSets, FiniteSetsExt

CONSTANTS
    Guests, Nodes,
    None,                \* no node, no task, no cache
    Timestamp,           \* a bare time where last_run is expected
    MaintenanceNodes,    \* automated_migrations.maintenance_nodes
    Protected,           \* guests can_auto_migrate refuses (ignore tag, ...)
    Apart,               \* guests sharing one exclude_ tag
    MaxPerRun,           \* rules.max_migrations_per_run
    MaxConcurrent,       \* rules.max_concurrent_migrations
    Cooldown,            \* rules.cooldown_minutes, in ticks
    RollbackWindow,      \* rules.rollback_window_hours, in ticks
    AbortOnFailure,      \* safety_checks.abort_on_failure
    DryModes,            \* values automated_migrations.dry_run takes
    DistThreshold,       \* distribution_balancing.guest_count_threshold
    KeepRuns,            \* length of run_history (50 in the code)
    \* What the environment may do, and the bounds of the model:
    Distribution,        \* distribution_balancing.enabled
    TasksApiFails,       \* GET cluster/tasks may fail (both uses fail open)
    HistoryFails,        \* migration_history.json may be unreadable or unwritable
    StartTimesOut,       \* POST /api/migrate may time out after it took effect
    MaxRecords,          \* no run starts with this many records in history
    MaxTime,             \* the clock stops here
    MaxKills,            \* kills of a run
    MaxManual            \* migrations started by others

ASSUME AutomigrateAssumptions ==
    /\ None \notin Nodes /\ None \notin Guests /\ None \notin Nat
    /\ None \notin {"run", "orphan", "other", "OK", "ERR"}
    /\ IsFiniteSet(Guests)
    /\ MaintenanceNodes \subseteq Nodes
    /\ Protected \subseteq Guests /\ Apart \subseteq Guests
    /\ {MaxPerRun, MaxConcurrent, Cooldown, RollbackWindow, DistThreshold,
        KeepRuns, MaxRecords, MaxTime, MaxKills, MaxManual} \subseteq Nat
    /\ DryModes \subseteq BOOLEAN
    /\ {AbortOnFailure, Distribution, TasksApiFails, HistoryFails,
        StartTimesOut} \subseteq BOOLEAN

Placement == [Guests -> Nodes]
Recommendation == [guest : Guests, src : Nodes, tgt : Nodes,
                   dist : BOOLEAN, worth : BOOLEAN]
Record == [guest : Guests, dist : BOOLEAN, src : Nodes, tgt : Nodes,
           status : {"completed", "failed"}, dry : BOOLEAN, at : Nat]
Decision == [guest : Guests, action : {"pending", "executed", "failed"}]
Final == {"success", "partial", "failed", "no_action"}
Status == Final \cup {"running", "skipped", "disabled", "error"}
Summary == [status : Status, decisions : Seq(Decision),
            executed : Nat, successful : Nat]
PC == {"idle", "gates", "slots", "loop", "picked", "starting", "polling",
       "record", "tally", "final"}

VARIABLES
    \* Proxmox
    loc,         \* loc[g]: the node guest g is on
    task,        \* task[g]: target of g's running migration task, or None
    owner,       \* owner[g]: who started it: "run", "orphan", "other", None
    \* the collector
    snapshot,    \* what a running collector has read, or None
    cache,       \* cluster_cache.json, or None before the first collection
    view,        \* the copy in an API worker's CacheManager
    \* migration_history.json
    history,     \* migrations
    lastRun,     \* state.last_run: a summary, a bare Timestamp, or None
    archive,     \* run_history, newest first
    \* the run
    pc,
    run,         \* its last_run_summary
    data,        \* its cache_data
    dry,         \* its dry_run
    left,        \* iterations left of its for loop
    rec,         \* the recommendation it works on
    outcome,     \* exit of its task: "OK", "ERR", or None
    \* the clock, and what only the properties and the bounds read
    now,
    movedAt,     \* when the last automatic migration of g ended well, or None
    kills, manual

cluster == <<loc, task, owner, movedAt>>
files == <<history, lastRun, archive>>
process == <<run, data, dry, left, rec, outcome>>
collector == <<snapshot, cache, view>>
bounds == <<now, kills, manual>>
vars == <<cluster, collector, files, pc, process, bounds>>

EmptyRun == [status |-> "running", decisions |-> <<>>,
             executed |-> 0, successful |-> 0]

ASSUME MarkersAssumption == {None, Timestamp} \cap (Summary \cup Recommendation) = {}

TypeOK ==
    /\ loc \in Placement
    /\ task \in [Guests -> Nodes \cup {None}]
    /\ owner \in [Guests -> {"run", "orphan", "other", None}]
    /\ snapshot \in Placement \cup {None}
    /\ cache \in Placement \cup {None}
    /\ view \in Placement \cup {None}
    /\ history \in Seq(Record)
    /\ lastRun \in Summary \cup {Timestamp, None}
    /\ archive \in Seq(Summary)
    /\ pc \in PC
    /\ run \in Summary
    /\ data \in Placement \cup {None}
    /\ dry \in BOOLEAN
    /\ left \in Nat
    /\ rec \in Recommendation \cup {None}
    /\ outcome \in {"OK", "ERR", None}
    /\ now \in Nat /\ kills \in Nat /\ manual \in Nat
    /\ movedAt \in [Guests -> Nat \cup {None}]

Init ==
    /\ loc \in Placement
    /\ task = [g \in Guests |-> None]
    /\ owner = [g \in Guests |-> None]
    /\ snapshot = None /\ cache = None /\ view = None
    /\ history = <<>> /\ lastRun = None /\ archive = <<>>
    /\ pc = "idle"
    /\ run = EmptyRun /\ data = None /\ dry = TRUE /\ left = 0 /\ rec = None
    /\ outcome = None
    /\ now = 0 /\ kills = 0 /\ manual = 0
    /\ movedAt = [g \in Guests |-> None]
----------------------------------------------------------------------------
(* The filters of the loop.                                                *)

GuestsOn(placement, n) == {g \in Guests : placement[g] = n}

\* Mutant: the oldest record decides (the list is not reversed).
IsVmInCooldown_Oldest(r) ==
    \E i \in DOMAIN history :
        /\ history[i].guest = r.guest /\ history[i].dist = r.dist
        /\ \A j \in DOMAIN history :
              history[j].guest = r.guest /\ history[j].dist = r.dist => i <= j
        /\ history[i].at + Cooldown > now
        /\ Cooldown > 0

\* is_vm_in_cooldown: the newest record whose vmid equals the recommended
\* one, in value and in type, decides.
IsVmInCooldown(r) ==
    \E i \in DOMAIN history :
        /\ history[i].guest = r.guest /\ history[i].dist = r.dist
        /\ \A j \in DOMAIN history :
              history[j].guest = r.guest /\ history[j].dist = r.dist => j <= i
        /\ history[i].at + Cooldown > now
        /\ Cooldown > 0

\* is_rollback_migration looks for the status "success".  Records past the
\* window end the search, and they only grow older.
IsRollbackMigration(r) ==
    /\ RollbackWindow > 0
    /\ \E i \in DOMAIN history :
        /\ history[i].guest = r.guest /\ history[i].dist = r.dist
        /\ history[i].status = "success"
        /\ history[i].at + RollbackWindow >= now
        /\ history[i].src = r.tgt /\ history[i].tgt = r.src

\* check_exclude_group_affinity, against the run's own cache_data.
CheckExcludeGroupAffinity(r) ==
    r.guest \in Apart =>
        LET others == Apart \ {r.guest}
            count(n) == Cardinality(GuestsOn(data, n) \cap others)
            elsewhere == {data[g] : g \in others} \ {r.tgt}
        IN  count(r.tgt) <= IF elsewhere = {} THEN 0
                            ELSE Min({count(n) : n \in elsewhere})

\* A distribution recommendation has no source_node to be in maintenance.
IsMaintenanceEvac(r) == ~r.dist /\ r.src \in MaintenanceNodes

PassesFilters(r) ==
    \/ IsMaintenanceEvac(r)
    \/ /\ ~IsVmInCooldown(r)
       /\ r.dist \/ ~IsRollbackMigration(r)
       /\ r.dist \/ r.worth
       /\ r.guest \notin Protected
       /\ CheckExcludeGroupAffinity(r)
----------------------------------------------------------------------------
(* What generate_recommendations may return for a placement p.             *)

\* Scored moves: never to a maintenance node, never beside a guest of the
\* same exclude group, protected guests only off maintenance nodes.
ScoredMoves(p) ==
    {r \in Recommendation :
        /\ ~r.dist
        /\ r.src = p[r.guest] /\ r.tgt # r.src
        /\ r.tgt \notin MaintenanceNodes
        /\ r.guest \in Protected => r.src \in MaintenanceNodes
        /\ r.guest \in Apart => GuestsOn(p, r.tgt) \cap Apart = {}}

\* find_distribution_candidates: from a fullest node to an emptiest one.
DistributionMoves(p) ==
    LET count == [n \in Nodes |-> Cardinality(GuestsOn(p, n))]
    IN  {r \in Recommendation :
            /\ Distribution
            /\ r.dist /\ r.worth
            /\ r.src = p[r.guest] /\ r.tgt # r.src
            /\ r.guest \notin Protected
            /\ \A n \in Nodes : count[r.tgt] <= count[n] /\ count[n] <= count[r.src]
            /\ count[r.src] - count[r.tgt] >= DistThreshold}

Moves(p) == ScoredMoves(p) \cup DistributionMoves(p)
----------------------------------------------------------------------------
(* The run.                                                                *)

\* load_history, state.last_run, save_history: a failure is only logged.
SaveLastRun(summary) == lastRun' \in {summary} \cup (IF HistoryFails THEN {lastRun} ELSE {})

\* main acquires the lock and saves last_run with status 'running'.
Start ==
    /\ pc = "idle"
    /\ Len(history) < MaxRecords
    /\ pc' = "gates"
    /\ run' = EmptyRun
    /\ SaveLastRun(EmptyRun)
    /\ data' = None /\ dry' = TRUE /\ left' = 0 /\ rec' = None /\ outcome' = None
    /\ UNCHANGED <<cluster, collector, history, archive, bounds>>

Finish(status) ==
    /\ pc' = "final"
    /\ run' = [run EXCEPT !.status = status]

\* Disabled, outside the migration windows or inside a blackout, no quorum;
\* or config.json or the cache is no JSON.
StopAtGate ==
    /\ pc = "gates"
    /\ \E status \in {"disabled", "skipped", "failed", "error"} : Finish(status)
    /\ UNCHANGED <<cluster, collector, files, data, dry, left, rec, outcome, bounds>>

\* read_cache without a cache file: sys.exit(1).  SystemExit passes by
\* 'except Exception', so the status stays 'running' into the finally block.
ExitWithoutCache ==
    /\ pc = "gates"
    /\ cache = None
    /\ pc' = "final"
    /\ UNCHANGED <<cluster, collector, files, process, bounds>>

\* read_cache and dry_run, once for the whole run.
PassGates ==
    /\ pc = "gates"
    /\ cache # None
    /\ data' = cache
    /\ dry' \in DryModes
    /\ pc' = "slots"
    /\ UNCHANGED <<cluster, collector, files, run, left, rec, outcome, bounds>>

\* Mutant: the run counts its own migrations only.
RunningTasks_Own == {g \in Guests : owner[g] = "run"}

RunningTasks == {g \in Guests : task[g] # None}

MaxNewMigrations(running) == Min({MaxPerRun, MaxConcurrent - running})

\* A failing tasks query counts no running migration.
CountRunning ==
    /\ pc = "slots"
    /\ \E running \in {Cardinality(RunningTasks)}
                         \cup (IF TasksApiFails THEN {0} ELSE {}) :
          IF running >= MaxConcurrent
          THEN /\ Finish("skipped")
               /\ UNCHANGED left
          ELSE /\ left' = MaxNewMigrations(running)
               /\ pc' = "loop"
               /\ UNCHANGED run
    /\ UNCHANGED <<cluster, collector, files, data, dry, rec, outcome, bounds>>

\* The loop is over, or get_recommendations failed or returned nothing.
LeaveLoop ==
    /\ pc = "loop"
    /\ pc' = "tally"
    /\ UNCHANGED <<cluster, collector, files, process, bounds>>

\* The placement behind a POST /api/recommendations: a worker's cached copy,
\* or the file when that worker's copy has expired.  The other worker keeps
\* its own copy.
Reads(p) == p \in {view, cache} \ {None} /\ view' \in {view, p}

\* No recommendation passes: the decisions are saved and the loop ends.
AllFiltered ==
    /\ pc = "loop" /\ left > 0
    /\ \E p \in Placement :
          /\ Reads(p)
          /\ \E r \in Moves(p) : ~PassesFilters(r)
    /\ SaveLastRun(run)
    /\ pc' = "tally"
    /\ UNCHANGED <<cluster, snapshot, cache, history, archive, process, bounds>>

\* is_vm_in_cooldown or is_rollback_migration cannot load the history.
FilterFails ==
    /\ pc = "loop" /\ left > 0
    /\ HistoryFails
    /\ Finish("error")
    /\ UNCHANGED <<cluster, collector, files, data, dry, left, rec, outcome, bounds>>

\* filtered[0]: any recommendation that passes may be the first.
Pick ==
    /\ pc = "loop" /\ left > 0
    /\ \E p \in Placement :
          /\ Reads(p)
          /\ \E r \in Moves(p) : PassesFilters(r) /\ rec' = r
    /\ left' = left - 1
    /\ pc' = "picked"
    /\ UNCHANGED <<cluster, snapshot, cache, files, run, data, dry, outcome, bounds>>

\* check_target_node_safety says no (its CPU figures are abstract), or the
\* guest has a running task: 'continue', and the iteration is spent.
SkipPicked ==
    /\ pc = "picked"
    /\ pc' = "loop"
    /\ UNCHANGED <<cluster, collector, files, process, bounds>>

\* The pending decision is saved before the migration starts.
Announce ==
    /\ pc = "picked"
    /\ task[rec.guest] = None \/ TasksApiFails
    /\ run' = [run EXCEPT !.decisions =
                  Append(@, [guest |-> rec.guest, action |-> "pending"])]
    /\ SaveLastRun(run')
    /\ pc' = IF dry THEN "record" ELSE "starting"
    /\ outcome' = IF dry THEN "OK" ELSE None
    /\ UNCHANGED <<cluster, collector, history, archive, data, dry, left, rec, bounds>>

\* Proxmox starts a migration only where the guest is, and locks it.
Accepts(g, src) == loc[g] = src /\ task[g] = None

StartTask(g, tgt, who) ==
    /\ task' = [task EXCEPT ![g] = tgt]
    /\ owner' = [owner EXCEPT ![g] = who]
    /\ UNCHANGED <<loc, movedAt>>

\* POST /api/migrate returns a task.  Its trigger_collection starts a
\* collector, which StartCollection allows at any time anyway.
StartAccepted ==
    /\ pc = "starting"
    /\ Accepts(rec.guest, rec.src)
    /\ StartTask(rec.guest, rec.tgt, "run")
    /\ pc' = "polling"
    /\ UNCHANGED <<collector, files, process, bounds>>

\* HTTP 500: Proxmox refuses, for the guest's place, lock or any reason.
StartRejected ==
    /\ pc = "starting"
    /\ outcome' = "ERR"
    /\ pc' = "record"
    /\ UNCHANGED <<cluster, collector, files, run, data, dry, left, rec, bounds>>

\* requests.post times out although the task has started.
StartTimeout ==
    /\ pc = "starting"
    /\ StartTimesOut
    /\ Accepts(rec.guest, rec.src)
    /\ StartTask(rec.guest, rec.tgt, "orphan")
    /\ outcome' = "ERR"
    /\ pc' = "record"
    /\ UNCHANGED <<collector, files, run, data, dry, left, rec, bounds>>

\* Mutant: the loop gives up on a migration that takes long.
Poll_GivesUp ==
    /\ pc = "polling"
    /\ outcome' = IF outcome = None THEN "ERR" ELSE outcome
    /\ pc' = "record"
    /\ UNCHANGED <<cluster, collector, files, run, data, dry, left, rec, bounds>>

\* Mutant: only a good exit ends the loop.
Poll_OnlyGood ==
    /\ pc = "polling"
    /\ outcome = "OK"
    /\ pc' = "record"
    /\ UNCHANGED <<cluster, collector, files, process, bounds>>

\* GET /api/tasks says 'stopped'; until then the loop polls without limit.
Poll ==
    /\ pc = "polling"
    /\ outcome # None
    /\ pc' = "record"
    /\ UNCHANGED <<cluster, collector, files, process, bounds>>

\* Mutant: pending decisions are not updated.
Resolve_Not(decisions, g, action) == decisions

\* The first pending decision of guest g gets its outcome.
Resolve(decisions, g, action) ==
    LET open == {i \in DOMAIN decisions :
                    decisions[i] = [guest |-> g, action |-> "pending"]}
    IN  IF open = {} THEN decisions
        ELSE [decisions EXCEPT ![Min(open)].action = action]

\* Mutant: the status Proxmox gives the task.
RecordStatus_Task(exit) == IF exit = "OK" THEN "stopped" ELSE "failed"

\* The status of a record: the task's own 'completed', or 'failed'.
RecordStatus(exit) == IF exit = "OK" THEN "completed" ELSE "failed"

\* record_migration, whose save replaces history['state'] and with it the
\* last_run object by a bare timestamp; then the decision is updated, and a
\* failure ends the loop if abort_on_failure is set.
RecordMigration ==
    /\ pc = "record"
    /\ LET good == outcome = "OK"
       IN  /\ history' = Append(history,
                 [guest |-> rec.guest, dist |-> rec.dist,
                  src |-> rec.src, tgt |-> rec.tgt,
                  dry |-> dry, at |-> now,
                  status |-> RecordStatus(outcome)])
           /\ run' = [run EXCEPT
                 !.executed = @ + 1,
                 !.successful = IF good THEN @ + 1 ELSE @,
                 !.decisions = Resolve(@, rec.guest,
                                  IF good THEN "executed" ELSE "failed")]
           /\ pc' = IF good \/ ~AbortOnFailure THEN "loop" ELSE "tally"
    /\ lastRun' = Timestamp
    /\ rec' = None /\ outcome' = None
    /\ UNCHANGED <<cluster, collector, archive, data, dry, left, bounds>>

\* load_history or save_history raises inside record_migration.
RecordFails ==
    /\ pc = "record"
    /\ HistoryFails
    /\ pc' = "final"
    /\ run' = [run EXCEPT !.executed = @ + 1, !.status = "error"]
    /\ UNCHANGED <<cluster, collector, files, data, dry, left, rec, outcome, bounds>>

\* The final status, from the counters.
Tally ==
    /\ pc = "tally"
    /\ Finish(CASE run.executed = 0 -> "no_action"
                [] run.executed > 0 /\ run.successful = run.executed -> "success"
                [] run.successful \in 1 .. (run.executed - 1) -> "partial"
                [] OTHER -> "failed")
    /\ UNCHANGED <<cluster, collector, files, data, dry, left, rec, outcome, bounds>>

\* The finally block: save last_run, archive a run with a final status, keep
\* the newest, release the lock.
FinishRun ==
    /\ pc = "final"
    /\ pc' = "idle"
    /\ \/ /\ lastRun' = run
          /\ archive' = IF run.status \in Final
                        THEN SubSeq(<<run>> \o archive, 1,
                                    Min({KeepRuns, Len(archive) + 1}))
                        ELSE archive
       \/ HistoryFails /\ UNCHANGED <<lastRun, archive>>
    /\ run' = EmptyRun
    /\ data' = None /\ dry' = TRUE /\ left' = 0 /\ rec' = None /\ outcome' = None
    /\ UNCHANGED <<cluster, collector, history, bounds>>

\* SIGKILL (the test endpoint's 60 s timeout, a reboot): no finally block.
\* The task goes on; nobody will record it.
Kill ==
    /\ pc # "idle"
    /\ kills < MaxKills
    /\ kills' = kills + 1
    /\ pc' = "idle"
    /\ owner' = [g \in Guests |-> IF owner[g] = "run" THEN "orphan" ELSE owner[g]]
    /\ run' = EmptyRun
    /\ data' = None /\ dry' = TRUE /\ left' = 0 /\ rec' = None /\ outcome' = None
    /\ UNCHANGED <<loc, task, movedAt, collector, files, now, manual>>
----------------------------------------------------------------------------
(* Proxmox, the other users, the collector, the clock.                     *)

\* A migration task stops, well or not.
EndTask(g, exit) ==
    /\ task[g] # None
    /\ task' = [task EXCEPT ![g] = None]
    /\ owner' = [owner EXCEPT ![g] = None]
    /\ loc' = IF exit = "OK" THEN [loc EXCEPT ![g] = task[g]] ELSE loc
    /\ movedAt' = IF exit = "OK" /\ owner[g] # "other"
                  THEN [movedAt EXCEPT ![g] = now] ELSE movedAt
    /\ outcome' = IF owner[g] = "run" THEN exit ELSE outcome
    /\ UNCHANGED <<collector, files, pc, run, data, dry, left, rec, bounds>>

\* Somebody migrates g by hand, through this program or not.
MigrateByHand(g, tgt) ==
    /\ manual < MaxManual
    /\ manual' = manual + 1
    /\ task[g] = None /\ tgt # loc[g]
    /\ StartTask(g, tgt, "other")
    /\ UNCHANGED <<collector, files, pc, process, now, kills>>

\* A collector (its timer, trigger_collection, the refresh endpoint) reads
\* the cluster, and some time later replaces the cache file.
StartCollection ==
    /\ snapshot = None
    /\ snapshot' = loc
    /\ UNCHANGED <<cluster, cache, view, files, pc, process, bounds>>

EndCollection ==
    /\ snapshot # None
    /\ cache' = snapshot
    /\ snapshot' = None
    /\ UNCHANGED <<cluster, view, files, pc, process, bounds>>

Tick ==
    /\ now < MaxTime
    /\ now' = now + 1
    /\ UNCHANGED <<cluster, collector, files, pc, process, kills, manual>>
----------------------------------------------------------------------------
RunStep ==
    \/ StopAtGate \/ ExitWithoutCache \/ PassGates
    \/ CountRunning \/ LeaveLoop \/ AllFiltered \/ FilterFails \/ Pick
    \/ SkipPicked \/ Announce
    \/ StartAccepted \/ StartRejected \/ StartTimeout \/ Poll
    \/ RecordMigration \/ RecordFails \/ Tally \/ FinishRun

Environment ==
    \/ \E g \in Guests, exit \in {"OK", "ERR"} : EndTask(g, exit)
    \/ \E g \in Guests, tgt \in Nodes : MigrateByHand(g, tgt)
    \/ StartCollection \/ EndCollection
    \/ Tick

Next == Start \/ RunStep \/ Kill \/ Environment

Spec == Init /\ [][Next]_vars

\* A live run takes its next step, and a migration task stops sooner or
\* later.  Nothing forces a run to start, or Proxmox to migrate well.
Fairness ==
    /\ WF_vars(RunStep)
    /\ \A g \in Guests : WF_vars(\E exit \in {"OK", "ERR"} : EndTask(g, exit))

FairSpec == Spec /\ Fairness
----------------------------------------------------------------------------
(* Properties.                                                             *)

\* The run migrates one guest at a time: a task of its own is always the one
\* it is polling for.
OneMigrationAtATime ==
    \A g \in Guests : owner[g] = "run" =>
        /\ pc = "polling" /\ rec.guest = g /\ rec.tgt = task[g]
        /\ outcome = None

\* max_concurrent_migrations bounds the automatic migrations under way,
\* those left over by killed runs included.
ConcurrencyRespected ==
    Cardinality({g \in Guests : owner[g] \in {"run", "orphan"}}) <= MaxConcurrent

\* "Prevents the same VM from being migrated too frequently": no automatic
\* balance migration starts within the cooldown after the last one ended.
CooldownRespected ==
    [][\A g \in Guests :
          /\ owner[g] # "run" /\ owner'[g] = "run"
          /\ ~IsMaintenanceEvac(rec)
          /\ movedAt[g] # None
          => movedAt[g] + Cooldown <= now]_vars

\* The records the cooldown reads are spaced by it: two records of a guest,
\* failed and dry-run ones included, are a cooldown apart unless the later
\* one evacuates a maintenance node or the two differ in the type of vmid.
RecordsAreSpaced ==
    \A i, j \in DOMAIN history :
        /\ i < j
        /\ history[i].guest = history[j].guest
        /\ history[i].dist = history[j].dist
        /\ ~IsMaintenanceEvac(history[j])
        => history[i].at + Cooldown <= history[j].at

\* A summary that claims an end tells the truth about the run's attempts.
Honest(s) ==
    LET with(action) == {i \in DOMAIN s.decisions : s.decisions[i].action = action}
    IN  s.status \in Final =>
            /\ with("pending") = {}
            /\ s.executed = Len(s.decisions)
            /\ s.successful = Cardinality(with("executed"))
            /\ s.status = "success" => s.successful > 0 /\ with("failed") = {}
            /\ s.status = "partial" => s.successful > 0 /\ with("failed") # {}

\* What the status page shows of finished runs is right: no decision is left
\* pending, and the counters and the status agree with the decisions.
SummariesAreHonest ==
    /\ lastRun \in Summary => Honest(lastRun)
    /\ \A i \in DOMAIN archive : Honest(archive[i])

\* The history is neither short of a move nor ahead of one (kills, errors
\* and timeouts aside): the last automatic move of a guest has a live record
\* no older than itself, and a live 'completed' record stands for a move.
RecordsMatchMoves ==
    \A g \in Guests :
        LET live == {i \in DOMAIN history :
                        /\ history[i].guest = g /\ ~history[i].dry
                        /\ history[i].status = "completed"}
        IN  /\ movedAt[g] # None =>
                  \/ \E i \in live : history[i].at >= movedAt[g]
                  \/ rec # None /\ rec.guest = g /\ outcome = "OK"
            /\ live # {} => movedAt[g] # None

\* Every run comes to an end.
RunsEnd == pc # "idle" ~> pc = "idle"
----------------------------------------------------------------------------
(* What documents and comments say and the code does not do.               *)

Starts(g) == owner[g] # "run" /\ owner'[g] = "run"

\* AUTOMATION.md on rollback detection: a balance migration back to the node
\* the guest recently came from is blocked.
RollbacksAreBlocked ==
    [][\A g \in Guests :
          Starts(g) /\ ~IsMaintenanceEvac(rec) =>
              ~ \E i \in DOMAIN history :
                    /\ history[i].guest = g
                    /\ history[i].status = "completed"
                    /\ history[i].at + RollbackWindow >= now
                    /\ history[i].src = rec.tgt /\ history[i].tgt = rec.src]_vars
=============================================================================
