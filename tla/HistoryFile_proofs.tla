------------------------- MODULE HistoryFile_proofs -------------------------
(***************************************************************************)
(* Theorems about migration_history.json, for any number of runs and of    *)
(* migrations per run.                                                     *)
(***************************************************************************)
EXTENDS HistoryFile, TLAPS

Saving == {"load", "truncate", "write"}

\* A run that saves a record has made the migration.
RecordInv ==
    \A p \in Runs :
        /\ pc[p] = "new" => moves[p] = 0
        /\ pc[p] \in Saving /\ save[p] = "record" => moves[p] >= 1

\* A run under way knows its role, and one at most has the lock.
RoleInv ==
    /\ \A p \in Runs : pc[p] = "new" <=> role[p] = "none"
    /\ \A p, q \in Runs :
          /\ role[p] = "working" /\ pc[p] \notin Ended
          /\ role[q] = "working" /\ pc[q] \notin Ended
          => p = q

BaseInv == TypeOK /\ RecordInv /\ RoleInv

\* A changed copy is a document.
LEMMA ChangedType ==
  ASSUME TypeOK, NEW d \in Document, NEW p \in Runs,
         save[p] = "record" => moves[p] >= 1
  PROVE  /\ Changed(d, p) \in Document
         /\ d.migrations \subseteq Changed(d, p).migrations
         /\ save[p] = "record" => <<p, moves[p]>> \in Changed(d, p).migrations
<1> USE DEF TypeOK, Document
<1>1. save[p] \in {"summary", "record", "final"}
  OBVIOUS
<1>2. CASE save[p] = "summary"
  BY <1>2 DEF Changed
<1>3. CASE save[p] = "final"
  BY <1>3 DEF Changed, FinalStatus
<1>4. CASE save[p] = "record"
  <2>1. moves[p] \in 0 .. MaxMoves /\ moves[p] >= 1
    BY <1>4
  <2>2. <<p, moves[p]>> \in Record
    BY <2>1, HistoryAssumptions DEF Record
  <2>3. Changed(d, p) = [migrations |-> d.migrations \cup {<<p, moves[p]>>},
                         last |-> None, status |-> "final"]
    BY <1>4 DEF Changed
  <2>4. d.migrations \subseteq Record
    OBVIOUS
  <2> HIDE DEF TypeOK
  <2> QED
    BY <2>2, <2>3, <2>4
<1> QED
  BY <1>1, <1>2, <1>3, <1>4

\* At first no run has a role.
LEMMA InitBase == Init => BaseInv
  BY HistoryAssumptions
     DEF Init, BaseInv, TypeOK, RecordInv, RoleInv, Empty, Document, PC, Ended, Saving

\* One action at a time: types, roles and records.
LEMMA NextBase == BaseInv /\ [Next]_vars => BaseInv'
<1> SUFFICES ASSUME BaseInv, [Next]_vars PROVE BaseInv'
  OBVIOUS
<1> USE DEF BaseInv, TypeOK, RecordInv, RoleInv, PC, Ended, Saving, Goto, BeginSave
<1>1. ASSUME NEW p \in Runs, Begin(p) PROVE BaseInv'
  <2>1. CASE LockIsFree
    BY <1>1, <2>1 DEF Begin, LockIsFree
  <2>2. CASE ~LockIsFree
    BY <1>1, <2>2 DEF Begin
  <2> QED
    BY <2>1, <2>2
<1>2. ASSUME NEW p \in Runs, SaveDecisions(p) \/ FilterFails(p) \/ Finally(p)
      PROVE  BaseInv'
  BY <1>2 DEF SaveDecisions, FilterFails, Finally
<1>3. ASSUME NEW p \in Runs, Migrate(p) PROVE BaseInv'
  <2>1. moves[p] + 1 \in 0 .. MaxMoves /\ moves[p] + 1 >= 1
    BY <1>3, HistoryAssumptions DEF Migrate
  <2>2. TypeOK'
    BY <1>3, <2>1 DEF Migrate
  <2>3. RecordInv'
    BY <1>3, <2>1 DEF Migrate
  <2>4. RoleInv'
    BY <1>3 DEF Migrate
  <2> QED
    BY <2>2, <2>3, <2>4
<1>4. ASSUME NEW p \in Runs, Load(p) PROVE BaseInv'
  <2>1. Changed(file, p) \in Document
    BY <1>4, ChangedType DEF Load
  <2>2. TypeOK'
    BY <1>4, <2>1 DEF Load
  <2> QED
    BY <1>4, <2>2 DEF Load
<1>5. ASSUME NEW p \in Runs, LoadFails(p) PROVE BaseInv'
  <2>1. CASE save[p] = "record"
    BY <1>5, <2>1 DEF LoadFails
  <2>2. CASE save[p] # "record"
    <3>1. save' = save /\ Goto(p, IF save[p] = "summary" THEN "working" ELSE "ended")
      BY <1>5, <2>2 DEF LoadFails
    <3> QED
      BY <1>5, <3>1 DEF LoadFails
  <2> QED
    BY <2>1, <2>2
<1>6. ASSUME NEW p \in Runs, Truncate(p) PROVE BaseInv'
  BY <1>6 DEF Truncate
<1>7. ASSUME NEW p \in Runs, Write(p) PROVE BaseInv'
  <2>1. save[p] = "record" => <<p, moves[p]>> \in Record
    BY <1>7, HistoryAssumptions DEF Write, Record
  <2>2. TypeOK'
    BY <1>7, <2>1 DEF Write
  <2> QED
    BY <1>7, <2>2 DEF Write
<1>8. ASSUME NEW p \in Runs, Kill(p) PROVE BaseInv'
  BY <1>8 DEF Kill
<1>9. CASE UNCHANGED vars
  BY <1>9 DEF vars
<1> QED
  BY <1>1, <1>2, <1>3, <1>4, <1>5, <1>6, <1>7, <1>8, <1>9 DEF Next

\* The file, the copies and the runs keep their types under every
\* interleaving of saves and kills.
THEOREM TypeCorrect == Spec => []TypeOK
<1>1. BaseInv => TypeOK
  BY DEF BaseInv
<1> QED
  BY <1>1, InitBase, NextBase, PTL DEF Spec

----------------------------------------------------------------------------
(* Records.                                                                *)

NoneRefused == \A p \in Runs : role[p] # "refused"

\* The copy a run is about to write has every record, and its own.
CopyInv ==
    NoneRefused =>
        \A p \in Runs : pc[p] \in {"truncate", "write"} =>
            /\ recorded \subseteq copy[p].migrations
            /\ save[p] = "record" => <<p, moves[p]>> \in copy[p].migrations

KeepInv == LockedRunsKeepRecords /\ CopyInv

\* Only a save changes the file, and its copy has all records.
LEMMA NextKeep == BaseInv /\ KeepInv /\ [Next]_vars => KeepInv'
<1> SUFFICES ASSUME BaseInv, KeepInv, [Next]_vars, NoneRefused' PROVE KeepInv'
  BY DEF KeepInv, LockedRunsKeepRecords, CopyInv, NoneRefused
<1> USE DEF BaseInv, TypeOK, KeepInv, LockedRunsKeepRecords, CopyInv, NoneRefused,
            Goto, BeginSave
<1>0. NoneRefused
  <2>1. CASE role' = role
    BY <2>1
  <2>2. ASSUME NEW p \in Runs, Begin(p) PROVE NoneRefused
    BY <2>2 DEF Begin, RoleInv
  <2> QED
    BY <2>1, <2>2 DEF Next, SaveDecisions, FilterFails, Migrate, Finally, Load,
       LoadFails, Truncate, Write, Kill, vars
<1>1. ASSUME NEW p \in Runs,
             Begin(p) \/ SaveDecisions(p) \/ FilterFails(p) \/ Migrate(p) \/ Finally(p)
      PROVE  KeepInv'
  BY <1>0, <1>1 DEF Begin, SaveDecisions, FilterFails, Migrate, Finally
<1>2. ASSUME NEW p \in Runs, Load(p) PROVE KeepInv'
  <2>1. /\ file.migrations \subseteq Changed(file, p).migrations
        /\ save[p] = "record" => <<p, moves[p]>> \in Changed(file, p).migrations
    BY <1>2, ChangedType DEF Load, RecordInv, Saving
  <2> QED
    BY <1>0, <1>2, <2>1 DEF Load
<1>3. ASSUME NEW p \in Runs, LoadFails(p) PROVE KeepInv'
  <2>1. pc'[p] \notin {"truncate", "write"} /\ \A q \in Runs \ {p} : pc'[q] = pc[q]
    BY <1>3 DEF LoadFails
  <2>2. \A q \in Runs \ {p} : save'[q] = save[q]
    BY <1>3 DEF LoadFails
  <2> QED
    BY <1>0, <1>3, <2>1, <2>2 DEF LoadFails
<1>4. ASSUME NEW p \in Runs, Truncate(p) PROVE KeepInv'
  BY <1>0, <1>4 DEF Truncate
<1>5. ASSUME NEW p \in Runs, Write(p) PROVE KeepInv'
  <2>1. recorded' \subseteq copy[p].migrations
    BY <1>0, <1>5 DEF Write
  <2>2. LockedRunsKeepRecords'
    BY <1>5, <2>1 DEF Write
  <2>3. ASSUME NEW q \in Runs, pc'[q] \in {"truncate", "write"} PROVE FALSE
    <3>1. q # p /\ pc[q] \in {"truncate", "write"} /\ pc[p] = "write"
      BY <1>5, <2>3 DEF Write
    <3>2. role[q] = "working" /\ role[p] = "working"
      BY <1>0, <3>1 DEF RoleInv, Ended
    <3> QED
      BY <3>1, <3>2 DEF RoleInv, Ended
  <2> QED
    BY <2>2, <2>3
<1>6. ASSUME NEW p \in Runs, Kill(p) PROVE KeepInv'
  BY <1>0, <1>6 DEF Kill
<1>7. CASE UNCHANGED vars
  BY <1>0, <1>7 DEF vars
<1> QED
  BY <1>1, <1>2, <1>3, <1>4, <1>5, <1>6, <1>7 DEF Next

\* For any number of runs one after another, killed at any point: no saved
\* record is lost from a readable file unless a run was refused.
THEOREM RunsInTurnKeepRecords == Spec => []LockedRunsKeepRecords
<1>1. Init => KeepInv
  BY DEF Init, KeepInv, LockedRunsKeepRecords, CopyInv, Empty
<1>2. KeepInv => LockedRunsKeepRecords
  BY DEF KeepInv
<1> QED
  BY <1>1, <1>2, InitBase, NextBase, NextKeep, PTL DEF Spec

----------------------------------------------------------------------------
(* Torn files.                                                             *)

\* Two runs write at once only if one of them was refused.
MixedInv ==
    \A p \in Runs : pc[p] = "write" /\ mixed[p] => \E q \in Runs : role[q] = "refused"

TornInv == TornNeedsACause /\ MixedInv

\* Only emptying the file and mixing two writes tear it.
LEMMA NextTorn == BaseInv /\ TornInv /\ [Next]_vars => TornInv'
<1> SUFFICES ASSUME BaseInv, TornInv, [Next]_vars PROVE TornInv'
  OBVIOUS
<1> USE DEF BaseInv, TypeOK, TornInv, TornNeedsACause, MixedInv, Goto, BeginSave
<1>1. ASSUME NEW p \in Runs, Begin(p) PROVE TornInv'
  <2>1. /\ pc[p] = "new" /\ role[p] = "none" /\ pc'[p] # "write"
        /\ \A q \in Runs \ {p} : pc'[q] = pc[q] /\ role'[q] = role[q]
        /\ UNCHANGED <<file, mixed>>
    BY <1>1 DEF Begin, RoleInv
  <2> QED
    BY <2>1
<1>2. ASSUME NEW p \in Runs,
             \/ SaveDecisions(p) \/ FilterFails(p) \/ Migrate(p) \/ Finally(p)
             \/ Load(p) \/ Kill(p)
      PROVE  TornInv'
  BY <1>2 DEF SaveDecisions, FilterFails, Migrate, Finally, Load, Kill
<1>3. ASSUME NEW p \in Runs, LoadFails(p) PROVE TornInv'
  <2>1. /\ pc[p] = "load" /\ pc'[p] # "write"
        /\ \A q \in Runs \ {p} : pc'[q] = pc[q]
        /\ UNCHANGED <<file, role, mixed>>
    BY <1>3 DEF LoadFails
  <2> QED
    BY <2>1
<1>4. ASSUME NEW p \in Runs, Truncate(p) PROVE TornInv'
  BY <1>4 DEF Truncate
<1>5. ASSUME NEW p \in Runs, Write(p) PROVE TornInv'
  <2>1. CASE \E q \in Runs : role[q] = "refused"
    BY <1>5, <2>1 DEF Write
  <2>2. CASE ~ \E q \in Runs : role[q] = "refused"
    <3>1. ~mixed[p] /\ file' = copy[p] /\ file' # Torn
      BY <1>5, <2>2, TornIsNoDocument DEF Write
    <3>2. \A q \in Runs : pc[q] = "write" => q = p
      BY <1>5, <2>2 DEF Write, RoleInv, Ended
    <3> QED
      BY <1>5, <3>1, <3>2 DEF Write
  <2> QED
    BY <2>1, <2>2
<1>6. CASE UNCHANGED vars
  BY <1>6 DEF vars
<1> QED
  BY <1>1, <1>2, <1>3, <1>4, <1>5, <1>6 DEF Next

\* The file is unreadable for one of three reasons only: a write under way,
\* a kill in the middle of one, a refused run.
THEOREM TornFilesHaveACause == Spec => []TornNeedsACause
<1>1. Init => TornInv
  BY TornIsNoDocument, HistoryAssumptions
     DEF Init, TornInv, TornNeedsACause, MixedInv, Empty, Document
<1>2. TornInv => TornNeedsACause
  BY DEF TornInv
<1> QED
  BY <1>1, <1>2, InitBase, NextBase, NextTorn, PTL DEF Spec

----------------------------------------------------------------------------
(* Unrecorded migrations.                                                  *)

\* A run that goes on has recorded its last migration.
LastMoveInv ==
    \A p \in Runs :
        /\ moves[p] > 0
        /\ pc[p] = "working" \/ (pc[p] \in Saving /\ save[p] = "summary")
        => <<p, moves[p]>> \in recorded

MovesInv == AtMostOneMoveUnrecorded /\ LastMoveInv

\* A run moves again only after its record is saved.
LEMMA NextMoves == BaseInv /\ MovesInv /\ [Next]_vars => MovesInv'
<1> SUFFICES ASSUME BaseInv, MovesInv, [Next]_vars PROVE MovesInv'
  OBVIOUS
<1> USE DEF BaseInv, TypeOK, MovesInv, AtMostOneMoveUnrecorded, LastMoveInv,
            Saving, Goto, BeginSave
<1>1. ASSUME NEW p \in Runs,
             \/ SaveDecisions(p) \/ FilterFails(p) \/ Finally(p)
             \/ Load(p) \/ Truncate(p) \/ Kill(p)
      PROVE  MovesInv'
  BY <1>1 DEF SaveDecisions, FilterFails, Finally, Load, Truncate, Kill
<1>2. ASSUME NEW p \in Runs, Begin(p) PROVE MovesInv'
  BY <1>2 DEF Begin, RecordInv
<1>3. ASSUME NEW p \in Runs, Migrate(p) PROVE MovesInv'
  <2>1. /\ moves[p] \in Nat /\ moves'[p] = moves[p] + 1
        /\ \A q \in Runs \ {p} : moves'[q] = moves[q]
    BY <1>3, HistoryAssumptions DEF Migrate
  <2>2. ASSUME NEW n \in 1 .. moves'[p] - 1 PROVE <<p, n>> \in recorded
    <3>1. CASE n = moves[p]
      BY <1>3, <3>1, <2>1 DEF Migrate
    <3>2. CASE n # moves[p]
      <4>1. moves[p] > 0 /\ n \in 1 .. moves[p] - 1
        BY <2>1, <3>2
      <4> QED
        BY <4>1
    <3> QED
      BY <3>1, <3>2
  <2>3. AtMostOneMoveUnrecorded'
    BY <1>3, <2>1, <2>2 DEF Migrate
  <2>4. LastMoveInv'
    BY <1>3, <2>1 DEF Migrate
  <2> QED
    BY <2>3, <2>4
<1>4. ASSUME NEW p \in Runs, LoadFails(p) PROVE MovesInv'
  <2>1. CASE save[p] = "record"
    BY <1>4, <2>1 DEF LoadFails
  <2>2. CASE save[p] # "record"
    <3>1. save' = save /\ Goto(p, IF save[p] = "summary" THEN "working" ELSE "ended")
      BY <1>4, <2>2 DEF LoadFails
    <3> QED
      BY <1>4, <3>1 DEF LoadFails
  <2> QED
    BY <2>1, <2>2
<1>5. ASSUME NEW p \in Runs, Write(p) PROVE MovesInv'
  BY <1>5 DEF Write
<1>6. CASE UNCHANGED vars
  BY <1>6 DEF vars
<1> QED
  BY <1>1, <1>2, <1>3, <1>4, <1>5, <1>6 DEF Next

\* Whatever happens to the file, a run makes at most one migration that it
\* does not record.
THEOREM OneMoveUnrecordedAtMost == Spec => []AtMostOneMoveUnrecorded
<1>1. Init => MovesInv
  BY DEF Init, MovesInv, AtMostOneMoveUnrecorded, LastMoveInv
<1>2. MovesInv => AtMostOneMoveUnrecorded
  BY DEF MovesInv
<1> QED
  BY <1>1, <1>2, InitBase, NextBase, NextMoves, PTL DEF Spec

\* No run ever replaces an unreadable history by a fresh one.
THEOREM TornFilesAreNotReplaced == Spec => NothingReplacesATornFile
<1>1. ASSUME TypeOK, [Next]_vars, TornForGood PROVE TornForGood'
  <2> USE <1>1 DEF TypeOK, TornForGood, Goto, BeginSave
  <2>1. ASSUME NEW p \in Runs,
               \/ Begin(p) \/ SaveDecisions(p) \/ FilterFails(p) \/ Migrate(p)
               \/ Finally(p) \/ LoadFails(p) \/ Kill(p)
        PROVE  TornForGood'
    <3>1. file' = Torn
      BY <2>1 DEF Begin, SaveDecisions, FilterFails, Migrate, Finally, LoadFails, Kill
    <3>2. \E to \in {"load", "working", "ended", "killed", "cut"} :
             pc' = [pc EXCEPT ![p] = to]
      BY <2>1 DEF Begin, SaveDecisions, FilterFails, Migrate, Finally, LoadFails, Kill
    <3> QED BY <3>1, <3>2
  <2>2. ASSUME NEW p \in Runs, Load(p) \/ Truncate(p) \/ Write(p) PROVE FALSE
    BY <2>2 DEF Load, Truncate, Write
  <2>3. CASE UNCHANGED vars
    BY <2>3 DEF vars
  <2> QED BY <2>1, <2>2, <2>3 DEF Next
<1> QED
  BY <1>1, TypeCorrect, PTL DEF Spec, NothingReplacesATornFile
=============================================================================
