----------------------------- MODULE ConfigFile -----------------------------
(***************************************************************************)
(* config.json, as the endpoints of the web interface keep it (app.py).    *)
(* Every endpoint that saves does the same three things with no lock: it   *)
(* reads the whole file, truncates it, and writes back what it read with   *)
(* its own fields changed.  gunicorn runs two workers, so two overlap.     *)
(* A browser's call is in `calls` from the fetch() until its answer has    *)
(* been handled; calls are taken up, and answers arrive, in any order.     *)
(***************************************************************************)
EXTENDS Naturals, FiniteSets

CONSTANTS
    Torn,           \* what a file that is being written, or was cut off, reads as
    DefaultPenalty, \* DEFAULT_PENALTY_CONFIG
    Workers,        \* gunicorn --workers
    MaxSaves,       \* bound: saves made in a behaviour
    MaxTroubles     \* bound: crashes of the service and reloads by the user

ASSUME WorkersAssumption == Workers \in Nat \ {0}
ASSUME BoundsAssumption == MaxSaves \in Nat /\ MaxTroubles \in Nat

VARIABLES
    file,       \* config.json: its fields and their values, or Torn
    calls,      \* calls in flight
    made,       \* how many saves have been made
    troubles,   \* crashes and reloads so far
    wanted      \* history: the file, had every edit been saved at once; Torn
                \* once a save was made while another call was in flight, a
                \* call failed, or a page was left with calls open

fileVars == <<file, calls, made, troubles, wanted>>

Gets == {"getConfig", "getAutomation", "getPenalty"}

(* A call: what it is for, the fields it sets, whether the endpoint will   *)
(* find them acceptable, the file it read, and how far it is.  `keeps`:    *)
(* Proxmox refuses the token of an import and accepts the one in use;      *)
(* `alone`: nobody else has written to the file since this call has opened *)
(* it; `heard`: the page that made it is still there.                      *)
Call(kind, update, valid) ==
    [no |-> IF kind \in Gets THEN 0 ELSE made + 1, kind |-> kind,
     update |-> update, valid |-> valid, keeps |-> FALSE, seen |-> Torn, stage |-> "sent",
     alone |-> TRUE, ok |-> FALSE, heard |-> TRUE]

Get(kind) == Call(kind, <<>>, TRUE)

\* `config[key] = value`, and `config[section].update(value)` for a section,
\* whose keys are fields of the file here
Merge(update, old) ==
    [f \in DOMAIN old |-> IF f \in DOMAIN update THEN update[f] ELSE old[f]]

\* An import replaces the whole file, but for a token that is refused while the
\* one of the file (if there is one) works: of the two, that one is written.
Imported(new, keeps, old) ==
    IF keeps /\ old # Torn /\ old["token"] # ""
    THEN [new EXCEPT !["token"] = old["token"]]
    ELSE new

\* What a call answers with, or writes.
Result(c) == IF c.kind = "import" THEN Imported(c.update, c.keeps, c.seen)
             ELSE Merge(c.update, c.seen)

Busy == {c \in calls : c.stage \in {"loaded", "truncated"}}

\* `spent`: troubles that this behaviour does not have left.
FileInit(config, gets, spent) ==
    /\ file = config
    /\ made = 0
    /\ calls = gets
    /\ troubles = spent
    /\ wanted = config

-----------------------------------------------------------------------------
(* What a page does: fetch(), and hearing of the answer.                   *)

\* fetch() of a save; the user wants the fields of `wish` to have its values.
Save(c, wish) ==
    /\ made < MaxSaves
    /\ made' = made + 1
    /\ calls' = calls \cup {c}
    /\ wanted' = IF wanted # Torn /\ calls = {} THEN Merge(wish, wanted) ELSE Torn
    /\ UNCHANGED <<file, troubles>>

\* The answer of c is handled, and the handler reads again what `gets` reads.
Hear(c, gets) ==
    /\ c.stage = "answered"
    /\ calls' = (calls \ {c}) \cup gets
    /\ wanted' = IF c.ok THEN wanted ELSE Torn
    /\ UNCHANGED <<file, made, troubles>>

\* The page is loaded again: it reads, and may save, and nobody waits any more
\* for the calls in flight.
Abandon(gets, saves, troubled) ==
    /\ troubles' = troubles + troubled
    /\ troubles' <= MaxTroubles
    /\ made + Cardinality(saves) <= MaxSaves
    /\ made' = made + Cardinality(saves)
    /\ calls' = {[c EXCEPT !.heard = FALSE] : c \in calls} \cup gets \cup saves
    /\ wanted' = IF calls = {} /\ saves = {} THEN wanted ELSE Torn
    /\ UNCHANGED file

-----------------------------------------------------------------------------
(* What a worker does.                                                     *)

\* c is answered as d, if anybody waits for the answer.
Answered(c, d) == IF c.heard THEN {[d EXCEPT !.stage = "answered"]} ELSE {}

\* load_penalty_config() takes an unreadable file for one with the defaults.
ReadBy(c) == IF c.kind = "getPenalty" /\ file = Torn
             THEN [penalty |-> DefaultPenalty] ELSE file

\* Load, were an unreadable file no error.
Load_IgnoresErrors(c) ==
    /\ c.stage = "sent"
    /\ calls' = (calls \ {c}) \cup
         IF ~c.valid THEN Answered(c, c)
         ELSE IF c.kind \in Gets THEN Answered(c, [c EXCEPT !.seen = file])
         ELSE {[c EXCEPT !.seen = file, !.stage = "loaded"]}
    /\ UNCHANGED <<file, made, troubles, wanted>>

\* Load, did the change of the host take an unreadable file for an empty one.
Load_HostAsEmpty(c) ==
    /\ c.stage = "sent"
    /\ calls' = (calls \ {c}) \cup
         IF ~c.valid \/ (file = Torn /\ c.kind \notin {"host", "getPenalty"})
         THEN Answered(c, c)
         ELSE IF c.kind \in Gets THEN Answered(c, [c EXCEPT !.seen = ReadBy(c), !.ok = TRUE])
         ELSE {[c EXCEPT !.seen = IF file = Torn THEN <<>> ELSE file, !.stage = "loaded"]}
    /\ UNCHANGED <<file, made, troubles, wanted>>

\* Load, did it try again until the file can be read.
Load_Retries(c) ==
    /\ c.stage = "sent" /\ file # Torn
    /\ calls' = (calls \ {c}) \cup
         IF ~c.valid THEN Answered(c, c)
         ELSE IF c.kind \in Gets THEN Answered(c, [c EXCEPT !.seen = file, !.ok = TRUE])
         ELSE {[c EXCEPT !.seen = file, !.stage = "loaded"]}
    /\ UNCHANGED <<file, made, troubles, wanted>>

\* load_config(): an unreadable file makes the endpoint answer with an error, as
\* a refusal does.  But an import goes on, and reading the penalties gives the
\* defaults.  A call that only reads is answered with what was read.
Load(c) ==
    /\ c.stage = "sent"
    /\ Cardinality(Busy) < Workers
    /\ calls' = (calls \ {c}) \cup
         IF ~c.valid \/ (file = Torn /\ c.kind \notin {"import", "getPenalty"})
         THEN Answered(c, c)
         ELSE IF c.kind \in Gets THEN Answered(c, [c EXCEPT !.seen = ReadBy(c), !.ok = TRUE])
         ELSE {[c EXCEPT !.seen = file, !.stage = "loaded"]}
    /\ UNCHANGED <<file, made, troubles, wanted>>

\* open(CONFIG_FILE, 'w')
Truncate(c) ==
    /\ c.stage = "loaded"
    /\ file' = Torn
    /\ calls' = (calls \ {c}) \cup {[c EXCEPT !.stage = "truncated"]}
    /\ UNCHANGED <<made, troubles, wanted>>

\* json.dump(config, f).  Over a text that another worker has written since the
\* file was opened, the shorter one leaves the end of the longer behind it.  A
\* save of the settings, or of the host, answers with an error when what comes
\* after it fails (update_timer.py, the restart of the collector).
Dump(c) ==
    /\ c.stage = "truncated"
    /\ \/ file' = Result(c)
       \/ ~c.alone /\ file' = Torn
    /\ \E ok \in IF c.kind \in {"settings", "host"} THEN BOOLEAN ELSE {TRUE} :
         calls' = {[d EXCEPT !.alone = @ /\ d.stage # "truncated"] : d \in calls \ {c}}
                  \cup Answered(c, [c EXCEPT !.ok = ok])
    /\ UNCHANGED <<made, troubles, wanted>>

\* The service dies (power, an out-of-memory kill) and systemd restarts it:
\* calls it had not answered end as connection errors in the browser.
Crash ==
    /\ troubles < MaxTroubles
    /\ \E c \in calls : c.stage # "answered"
    /\ troubles' = troubles + 1
    /\ calls' = UNION {Answered(c, c) : c \in calls}
    /\ UNCHANGED <<file, made, wanted>>

Serve == \E c \in calls : Load(c) \/ Truncate(c) \/ Dump(c)
=============================================================================
