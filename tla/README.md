# ProxBalance in TLA+

ProxBalance watches a Proxmox cluster, recommends migrations, and carries them
out: on a timer, when a user asks for one, or to empty a node. A single-page
interface in the browser starts all of this, follows it, and edits the
configuration. These modules model the parts of it where several processes, a
slow cluster, overlapping requests and files without transactions meet. Paths below are relative to `src/`.

## 1. The system

### Components

| Component | State | Operations | Talks to |
|---|---|---|---|
| Run lock (`automigrate.py:40-66`) | the lock file, its inode, the open descriptors | open, flock, write pid; unlock, close, unlink | every automation run |
| Automation run (`automigrate.py:800-1307`) | the summary of the run, its remaining migrations, the cluster data it read | gates, count of running tasks, pick, filter, announce, start, poll, record, tally, finish | API of `app.py`, history file, lock |
| Migration history (`migration_history.json`) | migrations, `state.last_run`, `run_history` | load the document, empty the file, write it | runs, status and history endpoints |
| API (`app.py`), 2 gunicorn workers | per worker: a copy of the cluster cache (60 s) and of the recommendations; threads | some 60 endpoints | Proxmox, files, subprocesses |
| Recommendation engine (`app.py:440-2184`) | the file of recommendations | score every node and guest, pick targets, balance counts of guests, rewrite the file | API, automation, generator timer |
| Evacuation (`app.py:2576-3249`, `src/app.jsx:8890-9620`) | the plan on the page and the choices; per session a thread and a session file | plan, choose, confirm, migrate in turn, report | Proxmox, page, collector |
| Collector (`collector_api.py`) | `cluster_cache.json` | read the cluster, replace the cache | timer, refresh endpoint, end of an evacuation |
| Configuration (`config.json`) | settings, windows, penalties, tokens | read, change, rewrite by a dozen endpoints and scripts | everything |
| Configuration pages (`src/app.jsx:3600-6900`) | copies of two parts of the configuration, forms, questions asked, the window being edited, maintenance nodes in `localStorage` | about 40 controls that save, most of them at once | configuration endpoints |
| Dashboard (`src/app.jsx:190-2400` and its views) | a copy of the cluster, migrations it tracks, status of each card, the automation's status, tables | refresh, tags, migrate, cancel, run now, pause, test, generate, evacuate; intervals of 3 s to 1 h | most other endpoints |
| Migration and blackout windows (`automigrate.py:104-283`) | none | is this moment inside a window? | automation run |
| Generator service, AI provider, system update | their files and services | HTTP, git, systemd | API |

### What is hard about it

* **Interleaving.** A run of the automation may be started by the timer, by the
  run endpoint and by the test endpoint; two API workers and their threads
  share files; two evacuations of a node may run at once; the page has many
  fetches in flight, whose answers come in any order.
* **Stale reads.** A migration is decided on a cache that a collector wrote some
  time ago, that an API worker has held for up to 60 s, and that a run reads
  once and never again for some of its checks. A handler of the page uses, after
  an `await`, the state it had captured before it; a control of the settings
  sends a whole section built from a copy.
* **Partial failure.** A migration is started, polled, and recorded in three
  separate requests and files. Each can fail, and a start may take effect while
  its answer is lost.
* **Crashes.** The test endpoint kills its run after 60 s. A restart of the
  service takes its threads along, and can cut off a file being written.
  Migration tasks go on in Proxmox.
* **Files without transactions.** `open(..., 'w')` empties a file before it is
  written, and no reader or writer of it takes a lock.

`PROJECT.json` lists each of these hazards at its line.

### What makes each part correct

* Lock: at most one run works; a leftover file keeps nobody out; everybody ends.
* Run: no more migrations than allowed at once, per run, and per guest and
  cooldown; what it reports is what happened; it ends.
* History: what was recorded stays; an unreadable file is not overwritten.
* Evacuation: reports tell the truth and add up; the plan the user saw is the
  plan carried out; guests are spread; the session ends.
* Configuration: what a user edits, and nothing else, is what the file has once
  all calls are answered; nothing dangerous is switched on without a yes.
* Dashboard: once the cluster is quiet the page shows what is there; each
  migration is watched; no button stays disabled; no table hides its rows.
* Planned: a window contains the moments its text says; a recommendation never
  makes things worse.

## 2. The modules

| Module | Models | Checked by | Proofs |
|---|---|---|---|
| `RunLock` | the lock file, one system call per step | `lock`, `lock_mutex` | `RunLock_proofs` |
| `RunExclusion` | what the lock promises, as two sets of runs | refined by `RunLock` | `RunLock_proofs` |
| `Automigrate` | `main()` of the automation with the cluster, tasks, cache and history around it | `automation`, `faults`, `rollback` | `Automigrate_proofs` |
| `HistoryFile` | load, empty and write of the history by concurrent runs | `history` | `HistoryFile_proofs` |
| `Evacuation` | plan, confirmation, sessions | `evacuation`, `evacuation_alone` | `Evacuation_proofs`, `EvacuationPlan_proofs` |
| `ConfigFile` | `config.json` and the calls that read and save it | by the composition | |
| `AutomationPage` | the automation page but its windows | by the composition | |
| `TimeWindows` | the editor of migration and blackout windows | by the composition | |
| `SettingsPage` | the settings page | by the composition | |
| `ConfigPages` | the composition of these four | `settings`, `maintenance` | `ConfigPages_proofs` |
| `DashboardCalls` | cluster, cache, workers, calls of the dashboard | by the composition | |
| `ClusterMap` | the cluster data on the page, tags, refresh | by the composition | |
| `MigrationCards` | migrations started, tracked and cancelled | by the composition | |
| `AutomationPanel` | the panel of the automation, and runs as processes | by the composition | |
| `Recommendations` | computing, storing and showing recommendations | by the composition | |
| `EvacuationDialog` | the dialogs of an evacuation | by the composition | |
| `Tables` | the two paged tables | by the composition | `Tables_proofs` |
| `Dashboard` | the composition of these seven | `map`, `cards` | `Dashboard_proofs` |

`MC*` modules give values to the constants. `RunLock` and `HistoryFile` take
apart what is one step in `Automigrate`: `Automigrate` has runs exclude each
other (RunLock tells when they do) and saves the history in one step
(HistoryFile tells what happens when they do not). `AutomationPanel` sees a run as a
process that starts, works and ends, and `EvacuationDialog` ends where
`Evacuation` begins, at the confirmed request.

### RunLock and RunExclusion

`path` is the inode the lock file's name refers to, `fd[p]` the inode run `p`
has open, `holder[i]` the run with a lock on inode `i`. `Open`, `Lock`, `Refuse` are
`acquire_lock`; `Unlock`, `Close`, `SeeFile`/`SeeNoFile`, `Unlink`,
`UnlinkFails` are `release_lock` with its `exists()` test apart from its
`unlink()`. `Kill` stands for a SIGKILL anywhere; the kernel drops the lock
and the file stays.

The unlink is by name and comes after the unlock. A run that opened the old
inode and one that creates a new file then both hold a lock: `MutualExclusion` fails
(run `lock_mutex`). What does hold is that this takes a third run which has
finished (`OverlapNeedsARetiredRun`), and that promise is `RunExclusion`: a mutex until a
run has retired. `ImplementsExclusion` is the refinement.

### Automigrate

One run after another. `loc`, `task`, `owner` are the cluster: where a guest is,
where its task takes it, and who started that task (the run, a run that was
killed, somebody else). `snapshot`, `cache` and `view` are the collector's reading, the
cache file and a worker's copy of it. `pc` walks through `main()`:

1. `Start`, then a gate: `StopAtGate` (disabled, outside a window, in a
   blackout, unhealthy cluster), `ExitWithoutCache` (`sys.exit` in
   `read_cache`, which no `except Exception` sees) or `PassGates`.
2. `CountRunning`: the number of running migration tasks, asked once.
3. The loop: `LeaveLoop`, `AllFiltered`, `FilterFails` or `Pick` on a fresh set
   of recommendations, `SkipPicked` or `Announce`, then
   `StartAccepted`/`StartRejected`/`StartTimeout`, `Poll`, `RecordMigration`
   (or `RecordFails`).
4. `Tally` and `FinishRun` (the `finally` block).

A recommendation keeps what the filters look at: the guest, source, target,
whether it is a distribution move (its vmid is then a string, and it has no
`source_node`), and whether it passes the score and resource checks. Scores are
abstract: `Moves` is every set of recommendations the engine may return for a
placement.

### HistoryFile

`file` is a document or `Torn` (nothing, or half of it). A save is `Load`,
`Truncate`, `Write`. `LoadFails` tells apart what the three kinds of save do when
`json.load` raises: a summary is skipped, a record ends the run, the final
save is given up. A run that the lock refuses goes through the same `finally`
block and writes without the lock: `Begin` sends it there at once.
Two writers on one inode leave one document, or the tail of the longer one
behind the shorter: `mixed` remembers when that is possible.

### Evacuation

`shown` is the plan on the page, `job[s]` the request of session `s`, each with
the guests, nodes, loads and storage it was made with; `left[s]` the guests its loop
has not reached, `doc[s]` its session file, `pending[s]` its count of assignments.
`Plan` and `Confirm` are the two uses of POST `/api/nodes/evacuate`. A confirmed
request reads guests, nodes and loads again, plans again, throws the plan
away together with the targets the user chose (`own`), and starts a thread that
asks for the storage once more (`StartThread`) and chooses targets by itself. `Collect` replaces the
cached guests and the `load` of the nodes (CPU and memory); storage is whatever
Proxmox answers at the time. Every exit of the loop
body has an action: `FailGuest`, `IgnoreGuest`, `PowerOff`, `StartRefused`,
`StartLost` (the call raises after Proxmox has started the task),
`SeeTaskStopped`, `GiveUp` (600 s are over or the task is not found).
`Restart` ends all threads. Order matters where `min()` breaks ties: `Place` and
`Rank` are positions in the cached lists.

### The configuration pages

`ConfigFile` has a call in `calls` from the `fetch()` until the page has handled the
answer. A saving endpoint loads the file, truncates it and writes what it loaded
with its fields changed, as three steps; at most `Workers` calls are
between their load and their answer. `Crash` is a restart of the service: it can
leave the file `Torn`. A call fails when the file it loads is `Torn` or
what it sends is refused. An import loads the file, too, but goes on over a `Torn`
one, and so is the one call that writes over it; when Proxmox refuses the imported token and
accepts the current one, the current one is kept (`Imported`), and that is also
what `wanted` becomes. Reading the penalties of a `Torn` file answers with the defaults
(`ReadBy`). A save of the settings or of the host may answer with an error
although it has saved, when what comes after the save fails.

`AutomationPage`, `TimeWindows` and `SettingsPage` have one action for each control,
or for each group of controls that differ in a name only, and one `Hear*` for what
the page does with each answer. The page's copies
are `automationConfig` and `config`. A control of the automation page sends a whole
section built from its copy (`SaveAs`), and a number field that was emptied sends `Null`
(`NumberOrNull`). Enabling the automation, leaving dry run and allowing restarts
of containers ask first (`GuardedSwitch`). Windows are edited by their place in
the list, and the list on the page joins two lists of the file: `AllWindows`
maps a row to its list and place. `Reload` is the browser's; `maintenanceNodes`
survives it, being in `localStorage`, and an effect copies it to the configuration.

`wanted`, `confirmed` and `typed` are history variables: the file as it would be had each
edit been saved at once, the questions ever answered yes, and the fields that show what the
user has made of them and not what was read. `wanted` gives up
(`Torn`) once a save is made while another call is in flight, since then no
answer is right; a window's `id` is its identity for `wanted`, unknown to the code.

### The dashboard

`DashboardCalls` has the cluster (`location`, `tags`, `tasks`), the collector's
`cache`, the two workers' `views` of it, and `calls`. A handler that awaits one
fetch after another is one call that goes on: what the handler captured before the
first `await` is kept in the call. Every fetch may fail (`MayFail`), and
some failures come after the effect.

* `ClusterMap`: no data and the first read when the page is loaded, the hourly read
  (`AutoRefresh`), the scan of the nodes that patches guests one by one, the
  refresh that polls until the cache is newer, gives up, or ends at an answer that
  cannot be read, and adding and removing tags, which write back the `data` they started with.
* `MigrationCards`: a migration is started (`migrate`), tracked by an interval
  (`trackers`) whose polls overlap, looked up by its place when its task has
  stopped, given up after five minutes, and cancelled: this writes back the
  `data` of when its dialog was opened.
* `AutomationPanel`: the systemd timer and the run, at 0, checking or at a task;
  status and run history as read every 10 s; Run Now with the peeks before and
  after it; pause, test (killed after its time), cancel.
* `Recommendations`: computing from one worker's view, the file `recsFile` as
  truncated and written, the page's reads, and the generator service.
* `EvacuationDialog`: the plan, the choice of each guest, the confirmation.
* `Tables`: filter, sort, page and size of the two tables. `Before` is what
  `Array.sort` does with the code's comparison.

A behaviour uses one set of controls out of `Parts` (`part`): the controls of two
panels of the page interact only through the parts of the state that one set
has in common, and sets are chosen so that those that share state are together.

## 3. The runs

| Run | States | Result |
|---|---|---|
| `lock` | 2 354 | three runs, kills anywhere: the promises of the lock, its refinement, and that every run ends |
| `lock_mutex` | | violated: two runs work at once |
| `automation` | 1.67 M | two guests, two nodes, clock to 1, cooldown 1, dry and live runs: records agree with moves, are spaced, and the cooldown holds |
| `faults` | 1.07 M | two kills, lost answers, failing history, maintenance and distribution moves: one migration at a time, honest summaries, bounded concurrency, every run ends |
| `rollback` | | violated: a guest goes back where it came from |
| `history` | 157 k | three runs, two moves each, kills: what the file keeps |
| `evacuation` | 3.43 M | two sessions, two guests, three nodes: reports add up and are true, one migration at a time |
| `evacuation_alone` | 220 k | one session, three guests, all choices, loads and storage that change: a clean report means an empty node, guests are spread, a plan confirmed unchanged is followed, the session ends |
| `settings` | 542 k | two saves by any of 20 sets of controls, a crash or a reload: edits are saved, pages show them, nothing risky without a yes, a torn file stays torn |
| `maintenance` | | violated: with all calls answered and none failed, the file has a node in maintenance that the page does not show |
| `map` | 324 k | map, tags, refresh, recommendations, evacuation dialogs: the page catches up with the cluster, buttons come back |
| `cards` | 286 k | migrations, cancel, panel, run history, tables: migrations are watched, end on the page, the panel catches up, rows are shown |

Deadlock is not checked: a lock that all runs are through with, a history with
no runs to come, an evacuation that is complete, a page whose bound of saves is
used up are ends, not deadlocks. That the programs get there is checked by the
liveness properties.

The properties of `settings`: `SettledMeansSaved` says that a user who waits for
each answer gets the edits, all of them and nothing else, although each save
sends sections from copies and windows go by index; `PagesShowTheFile` that then the
copies of both pages (the section of distribution balancing included) agree with the file, and that
the form and the penalty form differ from it only in what the user has typed; `NothingUnconfirmed` has no premise: it holds
with overlapping saves, lost updates and crashes; `SpoiltUntilImported` is the
reverse of the medal, that nothing repairs a torn file by itself; `CallsEnd` that
the pages come to rest.

The properties of `map` and `cards` are of the form "once nothing changes any more,
the page shows what is there": `MapCatchesUp`, `PanelCatchesUp`,
`RecommendationsCatchUp`. Each is false of a page that reads only once, and each
needs the interval that reads again. `RunningIsTracked` and `StartsEnd`
are stated for behaviours in which no call fails, since the code gives a migration up
for good after some failures (section 5), and `RunningIsTracked` until the automation starts
a run, whose migrations the panel shows and no interval tracks. `ButtonsReturn` needs no such premise.

### Bounds, and why they are enough

* `lock`: three runs. The race needs one to retire, one to hold the old inode
  and one to create the new file. A fourth adds no new relation between two
  runs; the theorems hold for any number.
* `automation`, `faults`: two guests let one be in cooldown while the other
  is not. `MaxRecords` bounds the records a run may start with and so the
  number of runs; two full runs are enough to read records of an earlier run.
  `MaxTime` is the cooldown itself, so that it can be both running and over.
  `MaxConcurrent = 1` with two kills allows an orphan and a second one. Each
  kind of failure has a constant to turn it on; `faults` turns on all but a
  failing tasks endpoint, since a count of running tasks that fails open makes
  `ConcurrencyRespected` fail by design (`except: return 0`).
* `history`: a working run, its successor, and one that either keeps out.
  The runs are interchangeable, so symmetry is used (all its properties are
  safety).
* `evacuation`: two nodes to choose from and two sessions for the same guests.
  `Awaited` stops changes of the cache and the nodes once nobody will read them
  any more. All guests start on the node. `Loads` and `Storages` are the loads
  and the storage that a collection or an answer of Proxmox may find, a new one each time.
  `evacuation_alone` has three guests and two of each: either target may be the
  busier one, one guest finds storage on one target only, and the other target may be found
  without storage. So a plan can be confirmed, and a thread begin, when the best
  target is no longer what it was. `evacuation` has one of each, since its
  properties do not speak of targets.
* `settings`: `MaxSaves = 2` is enough for two saves to overlap, or for one to follow
  on the answer of another; the invariant of the proof shows that a third adds
  nothing to `NothingUnconfirmed`. `MaxTroubles = 1` is one crash or one reload. A
  field has two or three values, one of them the file's. `Parts` pairs the controls that
  touch the same section; `"reliable"` leaves the troubles out where the
  part has the most states, the form for a new window.
* `map`, `cards`: one guest and two nodes, so that a guest can be on the wrong
  node, on none or on both. `MaxCalls = 2` lets two calls overlap and their
  answers be heard in either order; a call that ends frees its slot, so that their
  number over a behaviour is not bounded. `MaxTasks = 2` is a migration there and back,
  `MaxPolls = 2` two polls at once, `MaxAttempts = 2` a refresh that
  finds nothing new, then something. `MaxRuns = 2` lets Run Now meet a run of the timer.
  `"loaded"` begins a behaviour with the first read of the map done, where the controls do
  not depend on it. `"reliable"` turns failures off, `"lag"` lets the two workers' copies differ,
  `"slow"` includes the five-minute limit.
* `cards`: three rows and sizes 1 and 2 give up to three pages; the theorem is for all.

### Fairness

* `RunLock!FairSpec`: each started process takes its next step. The calls do
  not block (`LOCK_NB`). No run is forced to start.
* `Automigrate!FairSpec`: a live run takes its next step (it is a sequential
  program, and its HTTP calls have timeouts), and a migration task stops sooner
  or later, well or not. The second is needed: `execute_migration` polls
  without a limit, and a task that never stops keeps its run for ever.
* `Evacuation!FairSpec`: the thread takes its next step. Nothing is asked of
  Proxmox, since the wait for a task is bounded by 600 s.
* `ConfigPages!FairSpec`: the service goes on with the calls it has, and the browser
  hears the answers. No user has to do anything.
* `Dashboard!FairSpec`: the same, call by call; migration tasks and runs end; the
  collector's timer runs and workers read its cache when their 60 s are over;
  the browser's intervals and timers fire. The intervals have strong fairness for
  a reason of the model: with `MaxCalls` calls in flight none can start, and the slots
  may be taken and freed for ever. The timer of the automation, the failsafe of
  five minutes, failures and users owe nothing.

## 4. What is proved

All theorems hold for every value of the constants that satisfies the named
assumptions (`NoneNotARun`, `AutomigrateAssumptions`, `HistoryAssumptions`,
`EvacuationAssumptions`, `WorkersAssumption`, `FilesAssumption`, `PartsAssumption`,
`NamesAndTimes`, `ClusterAssumption`, `RecsAssumption`, `RowsAssumption`,
`SortAssumption`, `SizesAssumption` and the ones on markers): the sets may have any
size; finite where the proof counts. Two are more than types. `FilesAssumption`: the
windows in a file the program starts with, or is made to import, have ids of
their own (ids are the model's, so this names them and restricts no file).
`ClusterAssumption`: a number occurs in itself (`Alike`), so that a guest's own task
counts when the service looks for its number in the texts of tasks.

* **RunLock.** `IInv` adds to the types that an open descriptor names an inode
  in use, that a working run holds the lock of its descriptor (`HolderInv`),
  and that before anybody retires the name refers to the inode everybody has
  open (`PathInv`). The last is what the mutex needs; it is also what the
  unlink destroys. From it follow `OverlapNeedsARetiredRun`,
  `RefusedOnlyByAWorkingRun`, `CrashNeedsARetiredRun` and, action by action, the
  refinement of `RunExclusion`.
* **Automigrate.** `TypeInv` (the types, and that there is a recommendation in
  hand exactly where the program uses one), `OneMigrationAtATime` (with `OutcomeInv`: an exit
  status is known only while polling or recording), and `RecordsAreSpaced`: with the
  times in the history never ahead of the clock (`TimesInv`) and the guest in
  hand still out of cooldown (`PickedInv`), no run writes a record closer than
  a cooldown to the last one with an equal vmid. `ConcurrencyIsBounded`: the
  automatic migrations under way and the slots the run still has are at most
  `max_concurrent` (`RoomInv`), since the run counted all of the former and
  nobody else starts one. Its premise is that the tasks endpoint answers: the
  code takes a failing answer for no tasks. `ReportsAreHonest`: `SummaryInv` says for each
  place in the program what the summary still lacks, at most the outcome of
  its last decision.
  `RecordsFollowMoves` and `CooldownIsKept` share `MatchInv`: a guest whose task is the
  run's is the one in hand (`OwnersInv`), a move is as old as a live record of its
  guest or is about to be recorded, and a live record stands for a move (`MovesInv`). They have the premise
  `RunsAreWhole`: no run is killed, no answer to a start is lost and the history
  can be written. Without it they are false, as the code has it: a migration that goes on after its run
  has ended, or that could not be recorded, is unknown to the next run, which may
  then move the guest again at once. `CooldownIsKept` also excludes distribution
  moves, whose vmid is a string and equals no recorded number.
* **HistoryFile.** `BaseInv` relates role and program counter: at most one
  unrefused run is under way. `CopyInv` says the copy of a run between load and write
  contains all saved records; it fails as soon as a refused run writes, and so
  `LockedRunsKeepRecords` has that premise. `MixedInv` bounds who may have mixed
  a file, `LastMoveInv` says all moves but the last are recorded.
  `TornFilesAreNotReplaced` is an action property and needs the types only.
* **Evacuation.** The invariant of a session (`SessionInv`) has six parts:
  `Begun`, `Partition` (a guest of the request is either left, in hand or dealt
  with), `Tallied` (the counters are cardinalities of sets of results), `Stopped`
  (a task known to have stopped is nobody's any more, and if it ended well its guest
  is gone), `Honest`, `Alone`. One lemma (`Untouched`) covers all that other
  sessions and the cluster do to a session; `RecordStep` covers the exits of the
  loop body. From it follow `ProgressAddsUp`, `SuccessIsReal`, `OneAtATime` and
  `CompleteMeansEmpty`. `EvacuationPlan_proofs` is about targets. `GuestsAreSpread`, for the plan on
  the page and for each thread, by the loads and storage each has read: a
  node is chosen when it is cheapest and only gets dearer, so what it cost
  before its last guest is a bound (`Spread`). `ConfirmedPlansAreFollowed`: the plan and the
  thread choose by the same rule, and the counts of the thread are those the
  plan had when it reached the same guest (`Followed`). The property itself excepts
  a request that found other guests, nodes or loads than the plan, a thread that found other storage, and
  choices of the user; loads and storage may change at any time, and the theorem has no
  premise beyond the assumptions on the constants.
* **ConfigPages.** `NothingUnconfirmed` speaks of the file, but a risky value could
  come from what a call sends, from what a call loaded before another one saved,
  or from the page's copy. `IInv` says of each of these that it is `Confirmed`: no
  risky value without its yes (`ConfirmedGrows`: a yes is never taken back). Of the copy
  only the rules are sent along with another change, so for the copy the
  invariant is about `restarts` alone. One lemma for each kind of step
  (`SaveAsKeepsIInv`, `GuardedSwitchKeepsIInv`, `ServiceKeepsIInv`, ...) gives
  `TypeCorrect` and `NothingActsUnconfirmed`. `OnlyAnImportRepairs` is an action
  property: all steps but the service's only send (`OnlySends`), and of
  the service's steps only a write changes the file.
  `SettledFilesAreWanted` and `PagesAreCurrent` follow a user who waits: as long as
  `wanted` is known, either no save is in flight, the file is `wanted` and every
  call reads it, or exactly one is, whose effect on the file it loads is
  `wanted` (`Tracked`, with `ReadOK` and `SaveOK` for what each kind of call may hold at each stage). Since a
  control sends sections and lists of the page's copy, the invariant also
  says that each copy, and each field of the two forms that the user has not typed into
  (`typed`), agrees with the file or is about to be replaced, and that the windows
  of a list differ in their ids: that is why removing the row at a place is removing
  the window with that id. One lemma for each control shows that what it
  sends is what `wanted` becomes. Their premise `ImportsStandAlone` is that no other control is used beside
  an import: the page reloads two seconds after the import was answered, and an edit made
  in these two seconds sends copies of what the import has replaced.
* **Dashboard.** `DashInv` says what is known of each call in flight by its kind
  (`CallOK`): an answer to `analyze` is a map with a node for each guest (there may be no data yet, but then
  no dialog is open: `MapInv`), a scan that is
  answered has a list for every node (`IsScan`), handlers that write back
  the data of a click carry such a map, and a call about a migration names a task of
  that guest (`IsTracked`). One lemma (`CallGrows`) keeps all this while tasks are added and
  end, another (`CallAnswered`) says which answer fits which kind; then one
  lemma for each group of actions. `PageKeepsItsTypes` is immediate.
  `NoMigrationRunsUnwatched` rests on the part of `CallOK` about polls: one that was told
  that its guest does not migrate is about a task that has ended, however long ago
  it was told and whatever has been started for the guest since, so the interval that it clears
  is not needed (`WatchGoesOn`). It ends with the first failure: the
  failsafe clears intervals of migrations that run, and a start may take effect although its
  answer is lost; and it speaks of the migrations before the
  automation's first run, which tracks its own.
* **Tables.** `ClicksShowRows` needs that a page within the count of pages
  has rows. The place of a row is the number of rows before it, so this is
  a fact about cardinalities: `Before` is a total order
  (`BeforeIsTotalOrder`), distinct rows have distinct places, and an injection
  between finite sets of equal size is onto (`EveryPlaceIsTaken`). `PagesAreCounted`
  does the arithmetic of `Math.ceil`.

Only model-checked: all liveness (`EveryRunEnds`, `RunsEnd`, `SessionsEnd`, `CallsEnd`,
`MapCatchesUp`, `StartsEnd`, `ButtonsReturn`, `PanelCatchesUp`, `RecommendationsCatchUp`),
which is out of this prover's reach. Every invariant and every action property
of a passing run is proved, five of them under the premises named above: for `RecordsMatchMoves`,
`CooldownRespected`, `ConcurrencyRespected`, `SettledMeansSaved` and `PagesShowTheFile`
the premise is stated with the theorem, and the run shows the property for its own constants.

## 5. Where the program departs from its texts

Shown by a run:

* `automigrate.py:66`: the lock is no mutex (`lock_mutex`).
* `automigrate.py:741`: rollback detection compares with `'success'`, a status
  nobody writes; `docs/AUTOMATION.md:358` promises it blocks (`rollback`).
* `src/app.jsx:378`: the effect that is to make the automation respect maintenance
  mode compares the nodes with the page's copy of the configuration, which is
  as old as the last answer. A node put into maintenance and taken out again before its
  save is answered equals that copy, so nothing more is saved, the first save lands,
  and the file has a node in maintenance that the page does not show (`maintenance`). No
  save fails in this run and none is overwritten.

Read in the code while modelling, without a run. The automation and its endpoints:

* `app.py:1679`: distribution balancing does not know the maintenance nodes and
  prefers the emptiest node (against `docs/USAGE.md:133`).
* `automigrate.py:677`: vmids of two types are never equal, so the cooldown
  (`docs/AUTOMATION.md:226`) misses a guest recorded under the other type. The model keeps both types.
* `app.py:2907`: a confirmed evacuation drops `guest_targets`, and its thread chooses again.
* `pause_on_failure` (`docs/AUTOMATION.md:253`) is not read by the automation.
* The test of the exclude group uses the placement at the start of the run, so
  one run can bring two guests of a group together (`automigrate.py:1017`).
* Recommendations regenerated in the loop (`automigrate.py:936`) reflect the
  cache, which lags behind the migration just made.
* A run that ends in `sys.exit` (no cache, or refused by the lock) leaves a
  summary with status `running` (`automigrate.py:812`); one that is refused, skipped
  or broken off is not archived in `run_history` (`automigrate.py:1295`).
* The run endpoint guards against a running migration by a function that does
  not exist; the exception is swallowed (`app.py:6687`).
* A guest an evacuation reported as failed may arrive after all: `SuccessIsReal`
  has no converse. A session whose thread a restart has ended stays `running` in its file.
* The page says evacuations migrate one guest at a time (`src/app.jsx:9474`). A second
  session for the node, or a migration longer than 600 s, gives two at once;
  `OneAtATime` is stated for one session and excepts those it gave up.

The configuration:

* The switch of the distribution balancing saves under `automated_migrations`; the
  engine reads the root section (`app.py:2112`).
* An emptied number field saves `null`, and a stored 0 is shown as the default (`|| 75`).
* Save Settings before the configuration has been read posts an empty token, and a
  `fetchConfig` that comes late wipes what was typed.
* `POST /api/config` answers with an error, though it has saved, when
  `update_timer.py` fails.
* A removal awaits its second click by list and place; after an edit that
  moves the windows it removes another one. A click in the timeline opens the first window of
  the same name and times, not the one clicked.
* With two saves in flight the older section wins: an edit is lost, or restarts of containers,
  once confirmed, come back after they were switched off.

The dashboard:

* A poll that reads "running" and is answered after the one that reads the end leaves the guest
  shown as migrating (`src/app.jsx:1402`); Cancel then answers that nothing is known of it.
* A failed answer to the question where a guest is now, or the failsafe of five minutes,
  leaves the card `running` for ever. This is why `StartsEnd` has its premise.
* Any exit status but two texts counts as a success, shown as a move from a node
  to itself (comment at `src/app.jsx:1444`).
* `completedMigrations` is never cleared, and hides later recommendations of a guest.
* The timer of 5 s that removes a card's success can remove the `running` of a migration
  started again meanwhile; the button then starts a second one.
* Adding and removing tags read and rewrite the list (`app.py:5965-6016`): of two at once
  one is lost. Migration status finds a vmid as a substring (`app.py:5735`): `Alike`.
* Run Now compares `recent_migrations?.[0]`, which is the oldest record (`src/app.jsx:1145`), and so
  can report that no migration was started when one was.
* A second confirmation while the first is in flight starts two sessions; the confirmation
  lists the engine's target and not the one chosen; a late answer of one node closes another node's
  plan, and the next plan opens at its confirmation; a late plan replaces the open one, and an
  open confirmation is then for the other node's plan (`src/app.jsx:8922`); a choice survives the plan
  in which it was made and is carried out for a guest a later plan lists as skipped (`app.py:3012-3045`).
* When rows vanish, a table can stay on a page beyond the last: it is empty, and with one
  page left has no buttons to leave it (`TableShowsRows` is about clicks, and
  excepts this).
* A `GET` of the recommendations after a change of the thresholds answers with the old file.

## 6. What is not modelled

* Automation: the arithmetic of windows and blackouts, tag rules beyond
  protected guests and exclude groups, CPU checks of targets, the order in which
  candidates are sorted, notifications and the activity log. The history's file format.
* Recommendations: scores, penalties and reasons, which are arithmetic on measurements; a set of
  recommendations is known by the placement it was computed for.
* Evacuation: `target_node` for a whole plan (the page sends none); session
  files that cannot be written (`_write_session` swallows the error); API errors while
  a plan is made; the status endpoint.
* Configuration: what endpoints do besides saving (timers, restarts of services);
  the lists of past runs, logs, and the update and restart buttons.
* Dashboard: the panel of AI recommendations, which is hidden; the dialog for batches
  (`src/app.jsx:11096-11270`), which nothing opens; the system and update dialogs; layout,
  colours and tooltips; what only chooses what is shown.
* All of the components marked `not_modelled` in `PROJECT.json`, with reasons:
  `ai_provider.py` only adjusts confidence scores; the scripts of installation and update
  are shell and git; `automation_page.jsx` and `automation_widget.jsx` are not loaded.

## 7. Plan

1. **Proofs.** The refinements of item 4, step by step; the premise `ImportsStandAlone`
   narrowed to the two seconds before the reload.
2. **Recommendations**: penalties as operators on small integers and the choice of
   targets with its pending counts. Properties: no recommended move
   worsens the score it is based on; applying all does not overload a target.
   Theorems: bounds of the penalty, antisymmetry of the comparison of nodes.
3. **Windows** (`automigrate.py:104-283`): windows over midnight, days, blackouts,
   against a reference definition over one week, in place of a run whose
   question is settled by then.
4. **An abstract balancer** that only moves guests that are out of cooldown, refined by
   `Automigrate`; an abstract register refined by `ConfigFile` while calls do not overlap.
