---------------------------- MODULE HistoryFile ----------------------------
(***************************************************************************)
(* migration_history.json under several processes: load_history and        *)
(* save_history of automigrate.py, step by step.                           *)
(*                                                                         *)
(* Every save is a load of the whole document, an open(..., 'w') that      *)
(* empties the file, and a write of the changed copy.  A run saves its     *)
(* summary at the start, in the loop and in the finally block, and a       *)
(* record after each migration.  A run that acquire_lock refuses exits     *)
(* through the same finally block: it saves its summary, too, without the  *)
(* lock.  Runs that hold the lock exclude each other here; RunLock says    *)
(* when they do.                                                           *)
(***************************************************************************)
EXTENDS Naturals

CONSTANTS Runs,       \* processes running automigrate.py, each once
          None,       \* no summary
          Torn,       \* contents that json.load rejects
          MaxMoves    \* migrations a run may make

ASSUME HistoryAssumptions ==
    /\ None \notin Runs
    /\ MaxMoves \in Nat

Record == Runs \X (1 .. MaxMoves)

\* The document: its migrations, and whose summary state.last_run is.  After
\* record_migration it is nobody's, but a bare timestamp.
Document == [migrations : SUBSET Record, last : Runs \cup {None},
             status : {"running", "final"}]

ASSUME TornIsNoDocument == Torn \notin Document

Empty == [migrations |-> {}, last |-> None, status |-> "final"]

PC == {"new", "working", "load", "truncate", "write", "ended", "killed", "cut"}

VARIABLES file,       \* the contents of the file
          pc,         \* where run p is; "cut" is a kill while it writes
          role,       \* "working" (has the lock), "refused", or "none" yet
          save,       \* what p saves: "summary", "record" or "final"
          copy,       \* p's changed copy of the document
          mixed,      \* somebody else has written since the file was emptied
          moves,      \* migrations p has made
          recorded    \* the records whose save is complete

vars == <<file, pc, role, save, copy, mixed, moves, recorded>>

TypeOK ==
    /\ file \in Document \cup {Torn}
    /\ pc \in [Runs -> PC]
    /\ role \in [Runs -> {"none", "working", "refused"}]
    /\ save \in [Runs -> {"summary", "record", "final"}]
    /\ copy \in [Runs -> Document]
    /\ mixed \in [Runs -> BOOLEAN]
    /\ moves \in [Runs -> 0 .. MaxMoves]
    /\ recorded \subseteq Record

\* Without a file, load_history returns the empty document.
Init ==
    /\ file = Empty
    /\ pc = [p \in Runs |-> "new"]
    /\ role = [p \in Runs |-> "none"]
    /\ save = [p \in Runs |-> "summary"]
    /\ copy = [p \in Runs |-> Empty]
    /\ mixed = [p \in Runs |-> FALSE]
    /\ moves = [p \in Runs |-> 0]
    /\ recorded = {}

Ended == {"new", "ended", "killed", "cut"}
Goto(p, to) == pc' = [pc EXCEPT ![p] = to]

BeginSave(p, what) ==
    /\ Goto(p, "load")
    /\ save' = [save EXCEPT ![p] = what]

LockIsFree == \A q \in Runs : role[q] = "working" => pc[q] \in Ended

\* Mutant: no lock.
Begin_NoLock(p) ==
    /\ pc[p] = "new"
    /\ role' = [role EXCEPT ![p] = "working"]
    /\ BeginSave(p, "summary")
    /\ UNCHANGED <<file, copy, mixed, moves, recorded>>

\* acquire_lock, and the finally block at once for a refused run.
Begin(p) ==
    /\ pc[p] = "new"
    /\ IF LockIsFree
       THEN role' = [role EXCEPT ![p] = "working"] /\ BeginSave(p, "summary")
       ELSE role' = [role EXCEPT ![p] = "refused"] /\ BeginSave(p, "final")
    /\ UNCHANGED <<file, copy, mixed, moves, recorded>>

\* The summary of a refused run says what it said at the start.
FinalStatus(p) == IF role[p] = "refused" THEN "running" ELSE "final"

Changed(document, p) ==
    CASE save[p] = "summary" -> [document EXCEPT !.last = p, !.status = "running"]
      [] save[p] = "final" -> [document EXCEPT !.last = p, !.status = FinalStatus(p)]
      [] save[p] = "record" ->
            [document EXCEPT !.migrations = @ \cup {<<p, moves[p]>>},
                             !.last = None, !.status = "final"]

\* load_history, and the change to the document in memory.
Load(p) ==
    /\ pc[p] = "load"
    /\ file # Torn
    /\ copy' = [copy EXCEPT ![p] = Changed(file, p)]
    /\ Goto(p, "truncate")
    /\ UNCHANGED <<file, role, save, mixed, moves, recorded>>

\* Mutant: a file that cannot be read counts as an empty history.
LoadFails_Empty(p) ==
    /\ pc[p] = "load"
    /\ file = Torn
    /\ copy' = [copy EXCEPT ![p] = Changed(Empty, p)]
    /\ Goto(p, "truncate")
    /\ UNCHANGED <<file, role, save, mixed, moves, recorded>>

\* Mutant: a record that cannot be saved is only logged.
LoadFails_Continues(p) ==
    /\ pc[p] = "load"
    /\ file = Torn
    /\ Goto(p, IF save[p] = "final" THEN "ended" ELSE "working")
    /\ UNCHANGED <<file, role, save, copy, mixed, moves, recorded>>

\* json.load raises.  A summary is given up; a record ends the run, whose
\* finally block tries to save the summary.
LoadFails(p) ==
    /\ pc[p] = "load"
    /\ file = Torn
    /\ CASE save[p] = "summary" -> Goto(p, "working") /\ UNCHANGED save
         [] save[p] = "record" -> BeginSave(p, "final")
         [] save[p] = "final" -> Goto(p, "ended") /\ UNCHANGED save
    /\ UNCHANGED <<file, role, copy, mixed, moves, recorded>>

\* save_history: open(HISTORY_FILE, 'w').
Truncate(p) ==
    /\ pc[p] = "truncate"
    /\ file' = Torn
    /\ mixed' = [q \in Runs |-> FALSE]
    /\ Goto(p, "write")
    /\ UNCHANGED <<role, save, copy, moves, recorded>>

\* save_history: json.dump and close.  Over a longer document that another
\* run has written since, the tail of that one remains.
Write(p) ==
    /\ pc[p] = "write"
    /\ file' \in {copy[p]} \cup (IF mixed[p] THEN {Torn} ELSE {})
    /\ mixed' = [q \in Runs |-> mixed[q] \/ (q # p /\ pc[q] = "write")]
    /\ recorded' = IF save[p] = "record"
                   THEN recorded \cup {<<p, moves[p]>>} ELSE recorded
    /\ Goto(p, IF save[p] = "final" THEN "ended" ELSE "working")
    /\ UNCHANGED <<role, save, copy, moves>>

\* The decisions are saved in the loop.
SaveDecisions(p) ==
    /\ pc[p] = "working"
    /\ BeginSave(p, "summary")
    /\ UNCHANGED <<file, role, copy, mixed, moves, recorded>>

\* is_vm_in_cooldown loads the history to filter the recommendations, but
\* not for guests on maintenance nodes.
FilterFails(p) ==
    /\ pc[p] = "working"
    /\ file = Torn
    /\ BeginSave(p, "final")
    /\ UNCHANGED <<file, role, copy, mixed, moves, recorded>>

Migrate(p) ==
    /\ pc[p] = "working"
    /\ moves[p] < MaxMoves
    /\ moves' = [moves EXCEPT ![p] = @ + 1]
    /\ BeginSave(p, "record")
    /\ UNCHANGED <<file, role, copy, mixed, recorded>>

\* The loop is over, or some exception: the finally block.
Finally(p) ==
    /\ pc[p] = "working"
    /\ BeginSave(p, "final")
    /\ UNCHANGED <<file, role, copy, mixed, moves, recorded>>

\* The test endpoint's timeout, or a restart of the services.
Kill(p) ==
    /\ pc[p] \in {"working", "load", "truncate", "write"}
    /\ Goto(p, IF pc[p] = "write" THEN "cut" ELSE "killed")
    /\ UNCHANGED <<file, role, save, copy, mixed, moves, recorded>>

Next ==
    \E p \in Runs :
        \/ Begin(p) \/ SaveDecisions(p) \/ FilterFails(p)
        \/ Migrate(p) \/ Finally(p)
        \/ Load(p) \/ LoadFails(p) \/ Truncate(p) \/ Write(p)
        \/ Kill(p)

Spec == Init /\ [][Next]_vars
----------------------------------------------------------------------------
\* As long as no run has been refused, the file holds every record that was
\* saved: runs one after another, killed or not, lose none.
LockedRunsKeepRecords ==
    (\A p \in Runs : role[p] # "refused") /\ file # Torn
        => recorded \subseteq file.migrations

\* The file is unreadable only while somebody writes, after a kill in the
\* middle of a write, or after a refused run wrote beside the working one.
TornNeedsACause ==
    file = Torn =>
        \E p \in Runs : pc[p] \in {"write", "cut"} \/ role[p] = "refused"

TornForGood ==
    file = Torn /\ \A p \in Runs : pc[p] \notin {"truncate", "write"}

\* A history that cannot be read is never replaced by a fresh one: once it is
\* unreadable and no run has a copy from better times to write, it stays so,
\* and no later run begins to write.
NothingReplacesATornFile == [][TornForGood => TornForGood']_vars

\* A history that cannot be written stops the run: it makes at most one
\* migration that cooldown and rollback detection never hear of.
AtMostOneMoveUnrecorded ==
    \A p \in Runs : moves[p] > 0 => \A n \in 1 .. moves[p] - 1 : <<p, n>> \in recorded
=============================================================================
