--------------------------- MODULE MigrationCards ---------------------------
(***************************************************************************)
(* Migrations started from the dashboard (app.jsx): from a recommendation  *)
(* or from the dialog of a guest.  A migration is tracked by an interval   *)
(* that polls every 3 seconds whether or not the last poll has been        *)
(* answered, so polls overlap; each awaits up to three fetches.            *)
(***************************************************************************)
EXTENDS ClusterMap

CONSTANTS
    Recs,       \* recommended migrations
    MaxPolls    \* bound: unanswered polls of one migration

ASSUME RecsAssumption == Recs \subseteq [guest : Guests, source : Nodes, target : Nodes]

VARIABLES
    migrationStatus,        \* what a card says of its migration
    activeMigrations,       \* migrations that can be cancelled
    guestsMigrating,        \* guests shown as migrating
    completedMigrations,    \* guests shown as migrated
    trackers,               \* migrations whose interval is set
    clearing,               \* statuses that are removed after 5 seconds
    cancellingMigration     \* the cancel button is disabled

cardVars == <<migrationStatus, activeMigrations, guestsMigrating,
              completedMigrations, trackers, clearing, cancellingMigration>>

Key(m) == <<m.guest, m.target>>

StatusOf(key) == IF key \in DOMAIN migrationStatus THEN migrationStatus[key] ELSE None

CardInit ==
    /\ migrationStatus = <<>>
    /\ activeMigrations = <<>>
    /\ guestsMigrating = {}
    /\ completedMigrations = <<>>
    /\ trackers = {}
    /\ clearing = {}
    /\ cancellingMigration = FALSE

-----------------------------------------------------------------------------
(* Starting.                                                               *)

Starting == {c \in calls : c.kind = "migrate" /\ c.answer = None}

\* executeMigration: POST /api/migrate.
StartMigration(m) ==
    /\ Len(tasks) + Cardinality(Starting) < MaxTasks
    /\ migrationStatus' = With(migrationStatus, Key(m), "running")
    /\ Start(Call("migrate", [of |-> m]))
    /\ UNCHANGED <<clusterVars, data, loading, part, activeMigrations, guestsMigrating,
                   completedMigrations, trackers, clearing, cancellingMigration>>

\* The button of a card is there and enabled.
CardIsIdle(m) ==
    /\ m.guest \notin DOMAIN completedMigrations
    /\ m.guest \notin guestsMigrating
    /\ StatusOf(Key(m)) # "running"

AskMigration(m) ==
    /\ "cards" \in part
    /\ CardIsIdle(m)
    /\ Open([kind |-> "migrate", of |-> m])
    /\ UNCHANGED cardVars

OpenMigrationDialog(g, n) ==
    /\ "dialog" \in part
    /\ data # None /\ g \in data.lists[n] /\ g \notin guestsMigrating
    /\ Open([kind |-> "dialog", of |-> [guest |-> g, source |-> n]])
    /\ UNCHANGED cardVars

ExecuteMigration ==
    /\ modal # None /\ modal' = None
    /\ \/ modal.kind = "migrate" /\ StartMigration(modal.of)
       \/ /\ modal.kind = "dialog"
          /\ \E n \in Nodes \ {modal.of.source} :
               LET m == Over(modal.of, [target |-> n]) IN StartMigration(m)

-----------------------------------------------------------------------------
(* Tracking.                                                               *)

\* The start was refused, or trackMigration.
HearMigrate(c) ==
    /\ Heard(c, "migrate")
    /\ End(c)
    /\ IF c.answer = Error
       THEN /\ migrationStatus' = With(migrationStatus, Key(c.of), "failed")
            /\ UNCHANGED <<activeMigrations, guestsMigrating, trackers>>
       ELSE LET m == Over(c.of, [task |-> c.answer])
            IN  /\ activeMigrations' = With(activeMigrations, Key(m), m)
                /\ guestsMigrating' = guestsMigrating \cup {m.guest}
                /\ trackers' = trackers \cup {m}
                /\ UNCHANGED migrationStatus
    /\ UNCHANGED <<clusterVars, mapVars, completedMigrations, clearing, cancellingMigration>>

\* setInterval(..., 3000); only the answers of a "slow" service let polls overlap.
Poll(m) ==
    /\ Cardinality({c \in calls : c.kind \in {"migrating", "task", "location"} /\ c.of = m})
         < (IF "slow" \in part THEN MaxPolls ELSE 1)
    /\ Start(Call("migrating", [of |-> m]))
    /\ UNCHANGED <<clusterVars, mapVars, cardVars>>

HearMigrating(c) ==
    /\ Heard(c, "migrating")
    /\ IF c.answer = Error THEN End(c)
       ELSE GoOn(c, Call("task", [of |-> c.of, migrating |-> c.answer]))
    /\ UNCHANGED <<clusterVars, mapVars, cardVars>>

\* The guest migrates, or intervals are cleared: the migration was aborted, or is
\* taken for completed.  A task whose status the service could not read counts as
\* completed; an exception ends the poll.
TaskHeard(c, cleared) ==
    /\ Heard(c, "task")
    /\ IF c.migrating = "yes" THEN
            /\ End(c)
            /\ guestsMigrating' = guestsMigrating \cup {c.of.guest}
            /\ UNCHANGED <<migrationStatus, activeMigrations, trackers>>
       ELSE /\ guestsMigrating' = guestsMigrating \ {c.of.guest}
            /\ trackers' = trackers \ cleared
            /\ IF c.answer = "aborted"
               THEN /\ End(c)
                    /\ migrationStatus' = With(migrationStatus, Key(c.of), "failed")
                    /\ activeMigrations' = Without(activeMigrations, Key(c.of))
               ELSE /\ GoOn(c, Call("location", [of |-> c.of]))
                    /\ UNCHANGED <<migrationStatus, activeMigrations>>
    /\ UNCHANGED <<clusterVars, mapVars, completedMigrations, clearing, cancellingMigration>>

\* HearTask, did an ended migration clear every interval of its guest.
HearTask_ByGuest(c) == TaskHeard(c, {m \in trackers : m.guest = c.of.guest})

HearTask(c) == TaskHeard(c, {c.of})

LosePoll(c) ==
    /\ c.kind \in {"task", "location"} /\ c.answer = Error
    /\ End(c)
    /\ UNCHANGED <<clusterVars, mapVars, cardVars>>

\* The guest goes from the list of its old node to that of the new one.
Moved(d, g, n) ==
    [d EXCEPT !.at[g] = n,
              !.lists = [m \in Nodes |-> (@[m] \ (IF m = d.at[g] THEN {g} ELSE {}))
                                         \cup (IF m = n THEN {g} ELSE {})]]

Relocate(c) ==
    /\ data' = IF data = None THEN data ELSE Moved(data, c.of.guest, c.answer)
    /\ completedMigrations' = With(completedMigrations, c.of.guest, c.answer)
    /\ activeMigrations' = Without(activeMigrations, Key(c.of))
    /\ GoOn(c, LocationsCall)
    /\ UNCHANGED <<clusterVars, loading, modal, part, guestsMigrating, trackers,
                   cancellingMigration>>

Succeed(key) ==
    /\ migrationStatus' = With(migrationStatus, key, "success")
    /\ clearing' = clearing \cup {key}

\* HearLocation, did the card keep its status.
HearLocation_KeepsStatus(c) ==
    /\ Heard(c, "location") /\ c.answer # Error
    /\ Relocate(c)
    /\ UNCHANGED <<migrationStatus, clearing>>

\* HearLocation, did it take any answer for a node.
HearLocation_Unchecked(c) == Heard(c, "location") /\ Relocate(c) /\ Succeed(Key(c.of))

HearLocation(c) ==
    /\ Heard(c, "location") /\ c.answer # Error
    /\ Relocate(c)
    /\ Succeed(Key(c.of))

\* 5 minutes have gone by; one of the troubles.
StopPolling(m) ==
    /\ MayFail
    /\ troubles' = troubles + 1
    /\ trackers' = trackers \ {m}
    /\ UNCHANGED <<location, tags, tasks, cache, views, calls, mapVars, migrationStatus,
                   activeMigrations, guestsMigrating, completedMigrations, clearing,
                   cancellingMigration>>

ClearStatus(key) ==
    /\ migrationStatus' = Without(migrationStatus, key)
    /\ clearing' = clearing \ {key}
    /\ UNCHANGED <<callVars, mapVars, activeMigrations, guestsMigrating,
                   completedMigrations, trackers, cancellingMigration>>

-----------------------------------------------------------------------------
(* Cancelling.                                                             *)

\* The dialog keeps the data of the moment at which it was opened.
CancelMigration(m) ==
    /\ "cancel" \in part
    /\ m.guest \in guestsMigrating /\ m.guest \notin DOMAIN completedMigrations
    /\ Key(m) \in DOMAIN activeMigrations
    /\ Open([kind |-> "cancel", of |-> activeMigrations[Key(m)], snap |-> data])
    /\ UNCHANGED cardVars

ConfirmCancel ==
    /\ modal # None /\ modal.kind = "cancel" /\ ~cancellingMigration
    /\ cancellingMigration' = TRUE
    /\ Start(Call("stop", [of |-> modal.of, snap |-> modal.snap]))
    /\ UNCHANGED <<clusterVars, mapVars, migrationStatus, activeMigrations, guestsMigrating,
                   completedMigrations, trackers, clearing>>

StopHeard(c, busy) ==
    /\ Heard(c, "stop")
    /\ IF c.answer = Error
       THEN /\ End(c)
            /\ cancellingMigration' = busy
            /\ UNCHANGED <<activeMigrations, migrationStatus>>
       ELSE /\ activeMigrations' = Without(activeMigrations, Key(c.of))
            /\ migrationStatus' = With(migrationStatus, Key(c.of), "cancelled")
            /\ GoOn(c, Call("stopLocation", [of |-> c.of, snap |-> c.snap]))
            /\ UNCHANGED cancellingMigration
    /\ UNCHANGED <<clusterVars, mapVars, guestsMigrating, completedMigrations, trackers, clearing>>

\* HearStop, did a failed stop leave the button disabled.
HearStop_KeepsBusy(c) == StopHeard(c, TRUE)

HearStop(c) == StopHeard(c, FALSE)

\* The guest, but not the lists, of the dialog's data is changed.  After an
\* exception the dialog stays open and the status stays.
HearStopLocation(c) ==
    /\ Heard(c, "stopLocation")
    /\ cancellingMigration' = FALSE
    /\ End(c)
    /\ \/ /\ data' = IF c.answer = Error THEN data ELSE [c.snap EXCEPT !.at[c.of.guest] = c.answer]
          /\ clearing' = clearing \cup {Key(c.of)}
          /\ modal' = IF modal # None /\ modal.kind = "cancel" THEN None ELSE modal
       \/ c.answer = Error /\ UNCHANGED <<data, clearing, modal>>
    /\ UNCHANGED <<clusterVars, loading, part, migrationStatus, activeMigrations,
                   guestsMigrating, completedMigrations, trackers>>

-----------------------------------------------------------------------------
UserOfCards ==
    \/ ExecuteMigration \/ ConfirmCancel
    \/ \E m \in Recs : AskMigration(m) \/ CancelMigration(m)
    \/ \E g \in Guests, n \in Nodes : OpenMigrationDialog(g, n)

HearOfCards(c) ==
    \/ HearMigrate(c) \/ HearMigrating(c) \/ HearTask(c) \/ HearLocation(c) \/ LosePoll(c)
    \/ HearStop(c) \/ HearStopLocation(c)

Timers ==
    \/ \E m \in trackers : Poll(m) \/ StopPolling(m)
    \/ \E key \in clearing : ClearStatus(key)
=============================================================================
