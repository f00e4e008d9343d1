-------------------------- MODULE AutomationPanel --------------------------
(***************************************************************************)
(* The dashboard's panel of the automation (app.jsx): what it shows of     *)
(* the timer, the migrations in progress and the past runs, read every 10  *)
(* seconds, and its buttons to pause the timer, to run the automation now, *)
(* to test it, and to cancel a migration.  On the server (app.py) a run is *)
(* a process that nothing but the lock keeps from working twice.           *)
(***************************************************************************)
EXTENDS MigrationCards

CONSTANT MaxRuns    \* bound: runs of the automation in a behaviour

ASSUME PanelBounds == MaxRuns \in Nat

VARIABLES
    timer,              \* the systemd timer is active
    started,            \* how many runs have been started
    runs,               \* how many of them are in the run_history of the file
    run,                \* the process at work: at 0, checking, or at its task
    automationStatus,   \* the page's copy of GET /api/automigrate/status
    runHistory,         \* the page's copy of the summaries
    runningAutomation,  \* "Run Now" is disabled
    testingAutomation,  \* the test button is disabled
    statusDue           \* the status is read 2 seconds after a run has migrated

serverVars == <<timer, started, runs, run>>
panelPageVars == <<automationStatus, runHistory, runningAutomation, testingAutomation, statusDue>>
panelVars == <<serverVars, panelPageVars>>

\* What GET /api/automigrate/status answers.
Status == [timer_active |-> timer,
           in_progress |-> {t \in DOMAIN tasks : tasks[t].state = "running"}]

PanelInit ==
    /\ timer \in (IF part \cap {"timer", "stop", "history"} # {} THEN BOOLEAN ELSE {FALSE})
    /\ started = 0
    /\ runs = 0
    /\ run = None
    /\ automationStatus = None
    /\ runHistory = 0
    /\ runningAutomation = FALSE
    /\ testingAutomation = FALSE
    /\ statusDue = FALSE

-----------------------------------------------------------------------------
(* The server.                                                             *)

\* Runs so far, and those that are certain to come; bounded by MaxRuns.
Launches == started + Cardinality({c \in calls : c.kind \in {"run", "test"} /\ ~c.launched})

\* A process starts; beside another one it is refused by the lock and ends.
StartRun(by) ==
    /\ started' = started + 1
    /\ run' = IF run = None THEN [at |-> 0, by |-> by] ELSE run
    /\ UNCHANGED runs

TimerFires ==
    /\ timer
    /\ Launches < MaxRuns
    /\ StartRun(0)
    /\ UNCHANGED <<callVars, timer>>

RunMigrates(g) ==
    /\ run # None /\ run.at = 0
    /\ Len(tasks) < MaxTasks /\ ~Running(g)
    /\ \E n \in Nodes \ {location[g]} :
         tasks' = Append(tasks, [guest |-> g, target |-> n, state |-> "running"])
    /\ run' = [run EXCEPT !.at = Len(tasks')]
    /\ UNCHANGED <<location, tags, cache, views, calls, troubles, timer, started, runs>>

\* A run that was skipped or broke off is not archived.  (The archive is kept only
\* in the part that looks at it.)
RunEnds ==
    /\ run # None
    /\ run.at # 0 => tasks[run.at].state # "running"
    /\ run' = None
    /\ runs' \in {runs, runs + (IF "history" \in part THEN 1 ELSE 0)}
    /\ UNCHANGED <<callVars, timer, started>>

AnswerStatus(c) ==
    /\ c.kind \in {"status", "peek", "lastStatus"}
    /\ Answer(c, Status)
    /\ UNCHANGED <<clusterVars, serverVars>>

AnswerRunHistory(c) ==
    /\ c.kind = "runHistory"
    /\ Answer(c, runs)
    /\ UNCHANGED <<clusterVars, serverVars>>

AnswerToggle(c) ==
    /\ c.kind = "toggle"
    /\ timer' = c.active
    /\ Answer(c, "ok")
    /\ UNCHANGED <<clusterVars, started, runs, run>>

\* POST /api/automigrate/run and /test start a process; a refused one ends at
\* once ...
LaunchRun(c) ==
    /\ c.kind \in {"run", "test"} /\ ~c.launched
    /\ StartRun(c.id)
    /\ calls' = (calls \ {c}) \cup
         {[c EXCEPT !.launched = TRUE, !.answer = IF run = None THEN None ELSE "checked"]}
    /\ UNCHANGED <<clusterVars, timer>>

AtWork(c) == run # None /\ run.by = c.id

\* ... the first answers after 12 seconds, whether the log announces a migration
\* by then, the other when the process has ended.
AnswerRun(c) ==
    /\ c.kind \in {"run", "test"} /\ c.launched
    /\ c.kind = "test" => ~AtWork(c)
    /\ \E found \in (IF c.kind = "run" THEN {"checked", "migrated"} ELSE {"checked"}) :
         Answer(c, found)
    /\ UNCHANGED <<clusterVars, serverVars>>

\* A test that takes 60 seconds is killed; one of the troubles.
KillTest(c) ==
    /\ c.kind = "test" /\ c.launched /\ AtWork(c)
    /\ MayFail
    /\ troubles' = troubles + 1
    /\ run' = None
    /\ Answer(c, Error)
    /\ UNCHANGED <<location, tags, tasks, cache, views, timer, started, runs>>

AnswerCancel(c) ==
    /\ c.kind = "cancelTask"
    /\ tasks' = [tasks EXCEPT ![c.task].state = IF @ = "running" THEN "aborted" ELSE @]
    /\ Answer(c, "ok")
    /\ UNCHANGED <<location, tags, cache, views, troubles, serverVars>>

AnswerOfPanel(c) ==
    /\ c.answer = None
    /\ \/ AnswerStatus(c) \/ AnswerRunHistory(c) \/ AnswerToggle(c)
       \/ LaunchRun(c) \/ AnswerRun(c) \/ KillTest(c) \/ AnswerCancel(c)

Process == RunEnds \/ \E g \in Guests : RunMigrates(g)

-----------------------------------------------------------------------------
(* The page.                                                               *)

StatusCall == Call("status", <<>>)

\* PollStatus, did a paused automation not interest.
PollStatus_WhileActive ==
    /\ "panel" \in part
    /\ automationStatus # None => automationStatus.timer_active
    /\ Start(StatusCall)
    /\ UNCHANGED <<clusterVars, mapVars, cardVars, panelVars>>

\* Every 10 seconds; also the refresh button of the history.
PollStatus ==
    /\ "panel" \in part
    /\ Start(StatusCall)
    /\ UNCHANGED <<clusterVars, mapVars, cardVars, panelVars>>

PollRunHistory ==
    /\ "history" \in part
    /\ Start(Call("runHistory", <<>>))
    /\ UNCHANGED <<clusterVars, mapVars, cardVars, panelVars>>

StatusIsDue ==
    /\ statusDue /\ statusDue' = FALSE
    /\ Start(StatusCall)
    /\ UNCHANGED <<clusterVars, mapVars, cardVars, serverVars, automationStatus, runHistory,
                   runningAutomation, testingAutomation>>

\* A failed answer leaves the old one on the page; the last read of "Run Now"
\* enables its button.
HearStatus(c) ==
    /\ Heard(c, "status") \/ Heard(c, "lastStatus")
    /\ automationStatus' = IF c.answer = Error THEN automationStatus ELSE c.answer
    /\ runningAutomation' = (runningAutomation /\ c.kind # "lastStatus")
    /\ End(c)
    /\ UNCHANGED <<clusterVars, mapVars, cardVars, serverVars, runHistory, testingAutomation,
                   statusDue>>

HearRunHistory(c) ==
    /\ Heard(c, "runHistory")
    /\ runHistory' = IF c.answer = Error THEN runHistory ELSE c.answer
    /\ End(c)
    /\ UNCHANGED <<clusterVars, mapVars, cardVars, serverVars, automationStatus,
                   runningAutomation, testingAutomation, statusDue>>

\* The button asks for the opposite of what the page shows.
ToggleTimer ==
    /\ "timer" \in part
    /\ automationStatus # None
    /\ Start(Call("toggle", [active |-> ~automationStatus.timer_active]))
    /\ UNCHANGED <<clusterVars, mapVars, cardVars, panelVars>>

HearToggle(c) ==
    /\ Heard(c, "toggle")
    /\ IF c.answer = Error THEN End(c) ELSE GoOn(c, StatusCall)
    /\ UNCHANGED <<clusterVars, mapVars, cardVars, panelVars>>

RunAutomationNow ==
    /\ "buttons" \in part
    /\ automationStatus # None /\ ~runningAutomation
    /\ Launches < MaxRuns
    /\ runningAutomation' = TRUE
    /\ Start(Call("run", [launched |-> FALSE]))
    /\ UNCHANGED <<clusterVars, mapVars, cardVars, serverVars, automationStatus, runHistory,
                   testingAutomation, statusDue>>

\* With a migration, the button comes back at once; without, after 10 seconds
\* and two reads of the status.
HearRun(c) ==
    /\ Heard(c, "run")
    /\ runningAutomation' = (c.answer = "checked")
    /\ statusDue' = (statusDue \/ c.answer = "migrated")
    /\ IF c.answer = "checked" THEN GoOn(c, Call("peek", <<>>)) ELSE End(c)
    /\ UNCHANGED <<clusterVars, mapVars, cardVars, serverVars, automationStatus, runHistory,
                   testingAutomation>>

HearPeek(c) ==
    /\ Heard(c, "peek")
    /\ runningAutomation' = (c.answer # Error)
    /\ IF c.answer = Error THEN End(c) ELSE GoOn(c, Call("lastStatus", <<>>))
    /\ UNCHANGED <<clusterVars, mapVars, cardVars, serverVars, automationStatus, runHistory,
                   testingAutomation, statusDue>>

TestAutomation ==
    /\ "buttons" \in part /\ ~testingAutomation
    /\ Launches < MaxRuns
    /\ testingAutomation' = TRUE
    /\ Start(Call("test", [launched |-> FALSE]))
    /\ UNCHANGED <<clusterVars, mapVars, cardVars, serverVars, automationStatus, runHistory,
                   runningAutomation, statusDue>>

HearTest(c) ==
    /\ Heard(c, "test")
    /\ testingAutomation' = FALSE
    /\ End(c)
    /\ UNCHANGED <<clusterVars, mapVars, cardVars, serverVars, automationStatus, runHistory,
                   runningAutomation, statusDue>>

\* The list of migrations in progress offers to cancel each ...
AskCancel(t) ==
    /\ "stop" \in part
    /\ automationStatus # None /\ t \in automationStatus.in_progress
    /\ Open([kind |-> "cancelTask", task |-> t])
    /\ UNCHANGED <<cardVars, panelVars>>

ConfirmTaskCancel ==
    /\ modal # None /\ modal.kind = "cancelTask" /\ ~cancellingMigration
    /\ cancellingMigration' = TRUE
    /\ Start(Call("cancelTask", [task |-> modal.task]))
    /\ UNCHANGED <<clusterVars, mapVars, panelVars, migrationStatus, activeMigrations,
                   guestsMigrating, completedMigrations, trackers, clearing>>

\* ... and reads the status again when that is done.
HearCancel(c) ==
    /\ Heard(c, "cancelTask")
    /\ cancellingMigration' = FALSE
    /\ IF c.answer = Error THEN End(c) /\ UNCHANGED modal
       ELSE /\ GoOn(c, StatusCall)
            /\ modal' = IF modal # None /\ modal.kind = "cancelTask" THEN None ELSE modal
    /\ UNCHANGED <<clusterVars, data, loading, part, panelVars, migrationStatus,
                   activeMigrations, guestsMigrating, completedMigrations, trackers, clearing>>

-----------------------------------------------------------------------------
UserOfPanel ==
    \/ ToggleTimer \/ RunAutomationNow \/ TestAutomation \/ ConfirmTaskCancel
    \/ \E t \in DOMAIN tasks : AskCancel(t)

TimersOfPanel == PollStatus \/ PollRunHistory \/ StatusIsDue

HearOfPanel(c) ==
    \/ HearStatus(c) \/ HearRunHistory(c) \/ HearToggle(c)
    \/ HearRun(c) \/ HearPeek(c) \/ HearTest(c) \/ HearCancel(c)
=============================================================================
