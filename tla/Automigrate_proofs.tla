------------------------- MODULE Automigrate_proofs -------------------------
(***************************************************************************)
(* Theorems about the automation run, for every set of guests and nodes,   *)
(* every setting of the rules and every environment.                       *)
(***************************************************************************)
EXTENDS Automigrate, FiniteSetTheorems, WellFoundedInduction, TLAPS

\* The smaller of two numbers is one of them.
LEMMA MinOfTwo ==
  ASSUME NEW a \in Nat, NEW b \in Nat
  PROVE  Min({a, b}) \in Nat /\ Min({a, b}) <= a /\ Min({a, b}) <= b
<1>1. CASE a <= b
  <2>1. \A y \in {a, b} : a <= y
    BY <1>1
  <2> QED
    BY <2>1 DEF Min
<1>2. CASE b <= a
  <2>1. \A y \in {a, b} : b <= y
    BY <1>2
  <2> QED
    BY <2>1 DEF Min
<1> QED
  BY <1>1, <1>2

\* The running tasks can be counted.
LEMMA RunningTasksCount == Cardinality(RunningTasks) \in Nat
<1>1. IsFiniteSet(RunningTasks)
  BY FS_Subset, AutomigrateAssumptions DEF RunningTasks
<1> QED
  BY <1>1, FS_CardinalityType

\* A run begins with a summary.
LEMMA EmptyRunType == EmptyRun \in Summary
  BY DEF EmptyRun, Summary, Status, Final

\* What the run changes in its summary keeps its type.
LEMMA SummaryUpdate ==
  ASSUME NEW s \in Summary
  PROVE  /\ \A st \in Status : [s EXCEPT !.status = st] \in Summary
         /\ \A ds \in Seq(Decision) : [s EXCEPT !.decisions = ds] \in Summary
         /\ \A n \in Nat : [s EXCEPT !.executed = n] \in Summary
         /\ \A n \in Nat : [s EXCEPT !.successful = n] \in Summary
         /\ s.status \in Status /\ s.decisions \in Seq(Decision)
         /\ s.executed \in Nat /\ s.successful \in Nat
  BY DEF Summary

\* The finally block keeps the types.
LEMMA FinishType ==
  ASSUME run \in Summary, NEW status \in Status, Finish(status)
  PROVE  run' \in Summary /\ pc' = "final"
<1>1. [run EXCEPT !.status = status] \in Summary
  BY SummaryUpdate
<1> QED
  BY <1>1 DEF Finish

\* Decisions stay decisions when one is resolved.
LEMMA ResolveType ==
  ASSUME NEW ds \in Seq(Decision), NEW g \in Guests,
         NEW action \in {"pending", "executed", "failed"}
  PROVE  /\ Resolve(ds, g, action) \in Seq(Decision)
         /\ Len(Resolve(ds, g, action)) = Len(ds)
<1> DEFINE open == {i \in DOMAIN ds : ds[i] = [guest |-> g, action |-> "pending"]}
           k == Min(open)
           new == [ds EXCEPT ![k].action = action]
<1>1. new \in Seq(Decision) /\ Len(new) = Len(ds)
  <2>1. ASSUME NEW i \in 1 .. Len(ds)
        PROVE  [ds[i] EXCEPT !.action = action] \in Decision
    <3>1. ds[i] \in Decision
      OBVIOUS
    <3> QED
      BY <3>1 DEF Decision
  <2>2. \A i \in 1 .. Len(ds) : new[i] \in Decision
    BY <2>1
  <2>3. DOMAIN new = 1 .. Len(ds)
    OBVIOUS
  <2> HIDE DEF new
  <2>4. new \in [1 .. Len(ds) -> Decision]
    <3>1. new = [i \in 1 .. Len(ds) |-> new[i]]
      BY <2>3 DEF new
    <3> QED
      BY <3>1, <2>2
  <2> QED
    BY <2>4
<1> QED
  BY <1>1 DEF Resolve

----------------------------------------------------------------------------
(* Type correctness.  A run past Pick has a recommendation to work on.     *)

HasRec == pc \in {"picked", "starting", "polling", "record"} => rec \in Recommendation

TypeInv == TypeOK /\ HasRec

\* The types at the start.
LEMMA InitType == Init => TypeInv
  BY EmptyRunType, AutomigrateAssumptions
     DEF Init, TypeInv, HasRec, TypeOK, Placement, PC

\* What Proxmox, users, the collector and the clock do keeps the types.
LEMMA EnvironmentType == TypeInv /\ Environment => TypeInv'
<1> SUFFICES ASSUME TypeInv, Environment PROVE TypeInv'
  OBVIOUS
<1> USE DEF TypeInv, HasRec, TypeOK, Placement, cluster, files, process, collector, bounds
<1>1. ASSUME NEW g \in Guests, NEW exit \in {"OK", "ERR"}, EndTask(g, exit)
      PROVE  TypeInv'
  BY <1>1 DEF EndTask
<1>2. ASSUME NEW g \in Guests, NEW tgt \in Nodes, MigrateByHand(g, tgt)
      PROVE  TypeInv'
  BY <1>2 DEF MigrateByHand, StartTask
<1>3. CASE StartCollection
  BY <1>3 DEF StartCollection
<1>4. CASE EndCollection
  BY <1>4 DEF EndCollection
<1>5. CASE Tick
  BY <1>5 DEF Tick
<1> QED
  BY <1>1, <1>2, <1>3, <1>4, <1>5 DEF Environment

\* Every step of the run keeps the types.
LEMMA RunStepType == TypeInv /\ RunStep => TypeInv'
<1> SUFFICES ASSUME TypeInv, RunStep PROVE TypeInv'
  OBVIOUS
<1> USE DEF TypeInv, HasRec, TypeOK, PC, cluster, files, process, collector, bounds
<1>1. CASE StopAtGate
  <2>1. run' \in Summary
    BY <1>1, FinishType DEF StopAtGate, Status, Final
  <2> QED
    BY <1>1, <2>1 DEF StopAtGate, Finish
<1>2. CASE ExitWithoutCache
  BY <1>2 DEF ExitWithoutCache
<1>3. CASE PassGates
  BY <1>3, AutomigrateAssumptions DEF PassGates
<1>4. CASE CountRunning
  <2>1. PICK n \in Nat :
          IF n >= MaxConcurrent
          THEN Finish("skipped") /\ UNCHANGED left
          ELSE /\ left' = Min({MaxPerRun, MaxConcurrent - n})
               /\ pc' = "loop"
               /\ UNCHANGED run
    BY <1>4, RunningTasksCount DEF CountRunning, MaxNewMigrations
  <2>2. CASE n >= MaxConcurrent
    <3>1. run' \in Summary
      BY <2>1, <2>2, FinishType DEF Status
    <3> QED
      BY <1>4, <2>1, <2>2, <3>1 DEF CountRunning, Finish
  <2>3. CASE ~(n >= MaxConcurrent)
    <3>1. MaxPerRun \in Nat /\ MaxConcurrent - n \in Nat
      BY <2>3, AutomigrateAssumptions
    <3>2. left' \in Nat
      BY <2>1, <2>3, <3>1, MinOfTwo
    <3> QED
      BY <1>4, <2>1, <2>3, <3>2 DEF CountRunning
  <2> QED
    BY <2>2, <2>3
<1>5. CASE LeaveLoop
  BY <1>5 DEF LeaveLoop
<1>6. CASE AllFiltered
  BY <1>6 DEF AllFiltered, SaveLastRun, Reads
<1>18. CASE FilterFails
  <2>1. run' \in Summary
    BY <1>18, FinishType DEF FilterFails, Status
  <2> QED
    BY <1>18, <2>1 DEF FilterFails, Finish
<1>7. CASE Pick
  BY <1>7 DEF Pick, Reads, Moves, ScoredMoves, DistributionMoves
<1>8. CASE SkipPicked
  BY <1>8 DEF SkipPicked
<1>9. CASE Announce
  <2>1. rec \in Recommendation
    BY <1>9 DEF Announce
  <2>2. [guest |-> rec.guest, action |-> "pending"] \in Decision
    BY <2>1 DEF Recommendation, Decision
  <2>3. Append(run.decisions, [guest |-> rec.guest, action |-> "pending"])
          \in Seq(Decision)
    BY <2>2, SummaryUpdate
  <2>4. run' \in Summary
    BY <1>9, <2>3, SummaryUpdate DEF Announce
  <2> QED
    BY <1>9, <2>1, <2>4 DEF Announce, SaveLastRun
<1>10. CASE StartAccepted
  BY <1>10 DEF StartAccepted, StartTask, Accepts, Recommendation
<1>11. CASE StartRejected
  BY <1>11 DEF StartRejected
<1>12. CASE StartTimeout
  BY <1>12 DEF StartTimeout, StartTask, Accepts, Recommendation
<1>13. CASE Poll
  BY <1>13 DEF Poll
<1>14. CASE RecordMigration
  <2>1. rec \in Recommendation
    BY <1>14 DEF RecordMigration
  <2>2. history' \in Seq(Record)
    BY <1>14, <2>1 DEF RecordMigration, RecordStatus, Record, Recommendation
  <2>3. run' \in Summary
    <3> DEFINE good == outcome = "OK"
               n == IF good THEN run.successful + 1 ELSE run.successful
               ds == Resolve(run.decisions, rec.guest,
                             IF good THEN "executed" ELSE "failed")
               r1 == [run EXCEPT !.executed = @ + 1]
               r2 == [r1 EXCEPT !.successful = n]
    <3>1. ds \in Seq(Decision) /\ n \in Nat /\ run.executed + 1 \in Nat
      <4>1. rec.guest \in Guests
        BY <2>1 DEF Recommendation
      <4>2. run.decisions \in Seq(Decision) /\ run.executed + 1 \in Nat
            /\ run.successful + 1 \in Nat /\ run.successful \in Nat
        BY SummaryUpdate
      <4> QED
        BY <4>1, <4>2, ResolveType
    <3>2. r1 \in Summary
      BY <3>1, SummaryUpdate
    <3>3. r2 \in Summary
      BY <3>1, <3>2, SummaryUpdate
    <3>4. [r2 EXCEPT !.decisions = ds] \in Summary
      BY <3>1, <3>3, SummaryUpdate
    <3>5. run' = [r2 EXCEPT !.decisions = ds]
      BY <1>14 DEF RecordMigration, Summary
    <3> QED
      BY <3>4, <3>5
  <2> QED
    BY <1>14, <2>2, <2>3 DEF RecordMigration
<1>15. CASE RecordFails
  <2>1. run' \in Summary
    <3> DEFINE r1 == [run EXCEPT !.executed = @ + 1]
    <3>1. r1 \in Summary
      <4>1. run.executed + 1 \in Nat
        BY SummaryUpdate
      <4> QED
        BY <4>1, SummaryUpdate
    <3>2. [r1 EXCEPT !.status = "error"] \in Summary
      BY <3>1, SummaryUpdate DEF Status
    <3> QED
      BY <1>15, <3>2 DEF RecordFails, Summary
  <2> QED
    BY <1>15, <2>1 DEF RecordFails
<1>16. CASE Tally
  <2>1. PICK status \in Status : Finish(status)
    BY <1>16 DEF Tally, Status, Final
  <2>2. run' \in Summary /\ pc' = "final"
    BY <2>1, FinishType
  <2> QED
    BY <1>16, <2>2 DEF Tally
<1>17. CASE FinishRun
  <2> DEFINE all == <<run>> \o archive
             k == Min({KeepRuns, Len(archive) + 1})
  <2>1. all \in Seq(Summary) /\ Len(all) = Len(archive) + 1
    OBVIOUS
  <2>2. k \in Nat /\ k <= Len(archive) + 1
    <3>1. KeepRuns \in Nat /\ Len(archive) + 1 \in Nat
      BY AutomigrateAssumptions
    <3> QED
      BY <3>1, MinOfTwo
  <2>3. SubSeq(all, 1, k) \in Seq(Summary)
    <3> HIDE DEF all, k
    <3> QED
      BY <2>1, <2>2
  <2>4. archive' \in Seq(Summary) /\ lastRun' \in Summary \cup {Timestamp, None}
    BY <1>17, <2>3 DEF FinishRun
  <2> QED
    BY <1>17, <2>4, EmptyRunType DEF FinishRun
<1> QED
  BY <1>1, <1>2, <1>3, <1>4, <1>5, <1>6, <1>7, <1>8, <1>9, <1>10, <1>11,
     <1>12, <1>13, <1>14, <1>15, <1>16, <1>17, <1>18 DEF RunStep

\* So does every step.
LEMMA NextType == TypeInv /\ [Next]_vars => TypeInv'
<1> SUFFICES ASSUME TypeInv, [Next]_vars PROVE TypeInv'
  OBVIOUS
<1>1. CASE Start
  BY <1>1, EmptyRunType
     DEF Start, SaveLastRun, TypeInv, HasRec, TypeOK, PC, cluster, collector, bounds
<1>2. CASE RunStep
  BY <1>2, RunStepType
<1>3. CASE Kill
  BY <1>3, EmptyRunType
     DEF Kill, TypeInv, HasRec, TypeOK, PC, collector, files
<1>4. CASE Environment
  BY <1>4, EnvironmentType
<1>5. CASE UNCHANGED vars
  BY <1>5 DEF vars, TypeInv, HasRec, TypeOK, cluster, collector, files,
     process, bounds
<1> QED
  BY <1>1, <1>2, <1>3, <1>4, <1>5 DEF Next

\* The variables of the run, its files and the cluster keep their types
\* whatever fails, times out or is killed.
THEOREM TypeCorrect == Spec => []TypeOK
<1>1. TypeInv => TypeOK
  BY DEF TypeInv
<1> QED
  BY <1>1, InitType, NextType, PTL DEF Spec

----------------------------------------------------------------------------
(* One migration at a time.                                                *)

\* Only a run that has started a migration, or is about to end, holds the
\* exit of a task.
OutcomeInv == outcome # None => pc \in {"polling", "record", "final"}

TaskInv == OneMigrationAtATime /\ OutcomeInv

\* A task of the run is started once its last one has stopped.
LEMMA NextTask == TypeInv /\ TaskInv /\ [Next]_vars => TaskInv'
<1> SUFFICES ASSUME TypeInv, TaskInv, [Next]_vars PROVE TaskInv'
  OBVIOUS
<1> USE AutomigrateAssumptions
    DEF TypeInv, TypeOK, HasRec, TaskInv, OneMigrationAtATime, OutcomeInv, PC,
        cluster, files, process, collector, bounds
<1>1. CASE Start
  BY <1>1 DEF Start
<1>2. CASE StopAtGate \/ ExitWithoutCache \/ PassGates \/ CountRunning
  BY <1>2 DEF StopAtGate, Finish, ExitWithoutCache, PassGates, CountRunning
<1>3. CASE LeaveLoop \/ AllFiltered \/ FilterFails \/ Pick \/ SkipPicked \/ Announce
  BY <1>3 DEF LeaveLoop, AllFiltered, FilterFails, Finish, Pick, SkipPicked, Announce
<1>4. CASE StartAccepted
  BY <1>4 DEF StartAccepted, StartTask, Accepts, Recommendation
<1>5. CASE StartRejected
  BY <1>5 DEF StartRejected
<1>6. CASE StartTimeout
  BY <1>6 DEF StartTimeout, StartTask, Accepts, Recommendation
<1>7. CASE Poll \/ RecordMigration \/ RecordFails
  BY <1>7 DEF Poll, RecordMigration, RecordFails
<1>8. CASE Tally \/ FinishRun
  BY <1>8 DEF Tally, Finish, FinishRun
<1>9. CASE Kill
  BY <1>9 DEF Kill
<1>10. ASSUME NEW g \in Guests, NEW exit \in {"OK", "ERR"}, EndTask(g, exit)
       PROVE  TaskInv'
  <2>1. ASSUME NEW h \in Guests, owner'[h] = "run"
        PROVE  h # g /\ owner[h] = "run" /\ rec.guest = h
               /\ task'[h] = task[h] /\ pc = "polling"
    BY <1>10, <2>1 DEF EndTask
  <2>2. ASSUME NEW h \in Guests, owner'[h] = "run"
        PROVE  owner[g] # "run" /\ outcome' = outcome
    BY <1>10, <2>1, <2>2 DEF EndTask
  <2>3. OneMigrationAtATime'
    BY <1>10, <2>1, <2>2 DEF EndTask
  <2>4. OutcomeInv'
    BY <1>10 DEF EndTask
  <2> QED
    BY <2>3, <2>4
<1>11. ASSUME NEW g \in Guests, NEW tgt \in Nodes, MigrateByHand(g, tgt)
       PROVE  TaskInv'
  BY <1>11 DEF MigrateByHand, StartTask
<1>12. CASE StartCollection \/ EndCollection \/ Tick \/ UNCHANGED vars
  BY <1>12 DEF StartCollection, EndCollection, Tick, vars
<1> QED
  BY <1>1, <1>2, <1>3, <1>4, <1>5, <1>6, <1>7, <1>8, <1>9, <1>10, <1>11, <1>12
     DEF Next, RunStep, Environment

\* A run migrates one guest at a time: it polls for the one task it has
\* started, and starts no other before that one has stopped.
THEOREM MigratesOneAtATime == Spec => []OneMigrationAtATime
<1>1. Init => TaskInv
  BY AutomigrateAssumptions
     DEF Init, TaskInv, OneMigrationAtATime, OutcomeInv
<1>2. TaskInv => OneMigrationAtATime
  BY DEF TaskInv
<1> QED
  BY <1>1, <1>2, InitType, NextType, NextTask, PTL DEF Spec

----------------------------------------------------------------------------
(* The cooldown.                                                           *)

\* A nonempty set of indices has a largest one.
LEMMA LargestIndex ==
  ASSUME NEW n \in Nat, NEW S \in SUBSET (1 .. n), S # {}
  PROVE  \E m \in S : \A i \in S : i <= m
<1> DEFINE R == OpToRel(<, Nat)
           T == {n - i : i \in S}
<1>1. T \subseteq Nat /\ T # {}
  <2>1. \A i \in S : n - i \in Nat
    OBVIOUS
  <2> QED
    BY <2>1
<1>2. PICK t \in T : \A y \in T : ~ (<<y, t>> \in R)
  <2> HIDE DEF T
  <2> QED
    BY <1>1, NatLessThanWellFounded, WFMin
<1>3. PICK m \in S : t = n - m
  BY <1>2
<1>4. ASSUME NEW i \in S PROVE i <= m
  <2>1. n - i \in T /\ n - i \in Nat /\ t \in Nat
    BY <1>1, <1>2
  <2>2. ~ (n - i < t)
    BY <1>2, <2>1 DEF OpToRel
  <2> QED
    BY <1>3, <2>2
<1> QED
  BY <1>4

\* The records are in the order of their times, none of which is to come.
TimesInv ==
    /\ \A i, j \in DOMAIN history : i <= j => history[i].at <= history[j].at
    /\ \A i \in DOMAIN history : history[i].at <= now

Same(i, r) == history[i].guest = r.guest /\ history[i].dist = r.dist

\* What the filters saw of a picked recommendation stays true until it is
\* recorded: the run is the only writer of the history.
PickedInv ==
    /\ pc \in {"picked", "starting", "polling", "record"}
    /\ ~IsMaintenanceEvac(rec)
    => \A i \in DOMAIN history : Same(i, rec) => history[i].at + Cooldown <= now

SpacingInv == RecordsAreSpaced /\ TimesInv /\ PickedInv

\* A guest that passes the filter has no record within the cooldown.
LEMMA NotInCooldown ==
  ASSUME TypeInv, TimesInv, NEW r \in Recommendation, ~IsVmInCooldown(r),
         NEW i \in DOMAIN history, Same(i, r)
  PROVE  history[i].at + Cooldown <= now
<1> DEFINE S == {k \in DOMAIN history : Same(k, r)}
<1>1. history \in Seq(Record) /\ now \in Nat /\ Cooldown \in Nat
  BY AutomigrateAssumptions DEF TypeInv, TypeOK
<1>2. PICK m \in S : \A k \in S : k <= m
  <2>1. S \in SUBSET (1 .. Len(history)) /\ S # {} /\ Len(history) \in Nat
    BY <1>1
  <2> HIDE DEF S
  <2> QED
    BY <2>1, LargestIndex
<1>3. history[i].at \in Nat /\ history[m].at \in Nat
  <2>1. history[i] \in Record /\ history[m] \in Record
    BY <1>1, <1>2
  <2> QED
    BY <2>1 DEF Record
<1>4. history[i].at <= history[m].at /\ history[m].at <= now
  BY <1>1, <1>2 DEF TimesInv
<1>5. CASE Cooldown = 0
  BY <1>1, <1>3, <1>4, <1>5
<1>6. CASE Cooldown > 0
  <2>1. ~ (history[m].at + Cooldown > now)
    BY <1>2, <1>6 DEF IsVmInCooldown, Same
  <2> QED
    BY <1>1, <1>3, <1>4, <2>1
<1> QED
  BY <1>1, <1>5, <1>6

\* Only RecordMigration adds a record, of a guest that was picked.
LEMMA NextSpacing == TypeInv /\ SpacingInv /\ [Next]_vars => SpacingInv'
<1> SUFFICES ASSUME TypeInv, SpacingInv, [Next]_vars PROVE SpacingInv'
  OBVIOUS
<1> USE DEF cluster, files, process, collector, bounds
<1>a. /\ history \in Seq(Record) /\ now \in Nat /\ Cooldown \in Nat
      /\ \A i \in DOMAIN history : history[i].at \in Nat
  <2>1. history \in Seq(Record) /\ now \in Nat /\ Cooldown \in Nat
    BY AutomigrateAssumptions DEF TypeInv, TypeOK
  <2>2. \A i \in DOMAIN history : history[i] \in Record
    BY <2>1
  <2> QED
    BY <2>1, <2>2 DEF Record
<1>1. CASE RecordMigration
  <2> DEFINE new == [guest |-> rec.guest, dist |-> rec.dist,
                     src |-> rec.src, tgt |-> rec.tgt,
                     dry |-> dry, at |-> now,
                     status |-> RecordStatus(outcome)]
  <2>1. history' = Append(history, new) /\ now' = now /\ rec \in Recommendation
    BY <1>1 DEF RecordMigration, TypeInv, HasRec
  <2>2. /\ DOMAIN history = 1 .. Len(history)
        /\ DOMAIN history' = 1 .. (Len(history) + 1)
        /\ \A i \in DOMAIN history : history'[i] = history[i]
        /\ history'[Len(history) + 1] = new
    BY <1>a, <2>1
  <2>3. TimesInv'
    BY <1>a, <2>1, <2>2 DEF SpacingInv, TimesInv
  <2>4. RecordsAreSpaced'
    <3> SUFFICES ASSUME NEW i \in DOMAIN history', NEW j \in DOMAIN history',
                        i < j, history'[i].guest = history'[j].guest,
                        history'[i].dist = history'[j].dist,
                        ~IsMaintenanceEvac(history'[j])
                 PROVE  history'[i].at + Cooldown <= history'[j].at
      BY DEF RecordsAreSpaced
    <3>1. i \in DOMAIN history /\ history'[i] = history[i]
      BY <1>a, <2>2
    <3>2. CASE j \in DOMAIN history
      BY <2>2, <3>1, <3>2 DEF SpacingInv, RecordsAreSpaced
    <3>3. CASE j = Len(history) + 1
      <4>1. ~IsMaintenanceEvac(rec) /\ Same(i, rec) /\ history'[j].at = now
        BY <2>2, <3>1, <3>3 DEF IsMaintenanceEvac, Same
      <4>2. history[i].at + Cooldown <= now
        BY <1>1, <3>1, <4>1 DEF SpacingInv, PickedInv, RecordMigration
      <4> QED
        BY <3>1, <4>1, <4>2
    <3> QED
      BY <1>a, <2>2, <3>2, <3>3
  <2>5. PickedInv'
    BY <1>1 DEF RecordMigration, PickedInv
  <2> QED
    BY <2>3, <2>4, <2>5 DEF SpacingInv
<1>2. ASSUME history' = history, now' \in Nat, now <= now'
      PROVE  RecordsAreSpaced' /\ TimesInv'
  <2>1. RecordsAreSpaced'
    BY <1>2 DEF SpacingInv, RecordsAreSpaced
  <2>2. TimesInv'
    BY <1>a, <1>2 DEF SpacingInv, TimesInv
  <2> QED
    BY <2>1, <2>2
<1>3. ASSUME history' = history, now' \in Nat, now <= now', rec' = rec,
             \/ pc \in {"picked", "starting", "polling", "record"}
             \/ pc' \notin {"picked", "starting", "polling", "record"}
      PROVE  PickedInv'
  <2> SUFFICES ASSUME pc \in {"picked", "starting", "polling", "record"},
                      ~IsMaintenanceEvac(rec),
                      NEW i \in DOMAIN history, Same(i, rec)
               PROVE  history[i].at + Cooldown <= now'
    BY <1>3 DEF PickedInv, IsMaintenanceEvac, Same
  <2> QED
    BY <1>a, <1>3 DEF SpacingInv, PickedInv
<1>4. CASE Pick
  <2>1. PICK r : PassesFilters(r) /\ rec' = r /\ r \in Recommendation
    BY <1>4 DEF Pick, Moves, ScoredMoves, DistributionMoves
  <2>2. history' = history /\ now' = now
    BY <1>4 DEF Pick
  <2>3. PickedInv'
    <3> SUFFICES ASSUME ~IsMaintenanceEvac(r),
                        NEW i \in DOMAIN history, Same(i, r)
                 PROVE  history[i].at + Cooldown <= now
      BY <2>1, <2>2 DEF PickedInv, IsMaintenanceEvac, Same
    <3>1. ~IsVmInCooldown(r)
      BY <2>1 DEF PassesFilters
    <3> QED
      BY <2>1, <3>1, NotInCooldown DEF SpacingInv
  <2> QED
    BY <1>a, <1>2, <2>2, <2>3 DEF SpacingInv
<1>5. ASSUME \/ Start \/ Kill \/ FinishRun
             \/ StopAtGate \/ ExitWithoutCache \/ PassGates \/ CountRunning
             \/ LeaveLoop \/ AllFiltered \/ FilterFails \/ SkipPicked
             \/ RecordFails \/ Tally
      PROVE  SpacingInv'
  <2>1. /\ history' = history /\ now' = now
        /\ pc' \notin {"picked", "starting", "polling", "record"}
    BY <1>5 DEF Start, Kill, FinishRun, StopAtGate, Finish, ExitWithoutCache,
       PassGates, CountRunning, LeaveLoop, AllFiltered, FilterFails, SkipPicked,
       RecordFails, Tally
  <2>2. PickedInv'
    BY <2>1 DEF PickedInv
  <2> QED
    BY <1>a, <1>2, <2>1, <2>2 DEF SpacingInv
<1>6. ASSUME \/ Announce \/ StartAccepted \/ StartRejected \/ StartTimeout
             \/ Poll \/ Environment \/ UNCHANGED vars
      PROVE  SpacingInv'
  <2>1. /\ history' = history /\ now' \in Nat /\ now <= now' /\ rec' = rec
        /\ \/ pc \in {"picked", "starting", "polling", "record"}
           \/ pc' = pc
    BY <1>a, <1>6 DEF Announce, StartAccepted, StartRejected, StartTimeout,
       Poll, Environment, EndTask, MigrateByHand, StartTask, StartCollection,
       EndCollection, Tick, vars
  <2> QED
    BY <1>2, <1>3, <2>1 DEF SpacingInv
<1> QED
  BY <1>1, <1>4, <1>5, <1>6 DEF Next, RunStep

\* For every cooldown and every environment, kills, timeouts and dry runs
\* included: two records of a guest whose vmids compare equal are a cooldown
\* apart, evacuations of maintenance nodes excepted.
THEOREM CooldownSpacesRecords == Spec => []RecordsAreSpaced
<1>1. Init => SpacingInv
  BY DEF Init, SpacingInv, RecordsAreSpaced, TimesInv, PickedInv
<1>2. SpacingInv => RecordsAreSpaced
  BY DEF SpacingInv
<1> QED
  BY <1>1, <1>2, InitType, NextType, NextSpacing, PTL DEF Spec

----------------------------------------------------------------------------
(* Bounded concurrency.                                                    *)

\* The guests that automatic migrations are moving.
Automatic == {g \in Guests : owner[g] \in {"run", "orphan"}}

\* What the run may still start, the migration in hand included.
Allowed ==
    CASE pc = "loop" -> left
      [] pc \in {"picked", "starting"} -> left + 1
      [] pc \in {"polling", "record"} -> left
      [] OTHER -> 0

OwnersHaveTasks == \A g \in Guests : owner[g] # None => task[g] # None

\* The count of running tasks left room for all that the run may start, and
\* nobody else starts an automatic migration.
RoomInv == OwnersHaveTasks /\ Cardinality(Automatic) + Allowed <= MaxConcurrent

\* Sets of guests can be counted.
LEMMA GuestsAreCounted ==
  \A S \in SUBSET Guests : IsFiniteSet(S) /\ Cardinality(S) \in Nat
BY FS_Subset, FS_CardinalityType, AutomigrateAssumptions

\* A step by which no automatic migration begins needs no more room.
LEMMA NoMoreRoom ==
  ASSUME TypeInv, RoomInv, Automatic' \subseteq Automatic, OwnersHaveTasks',
         Allowed \in Nat, Allowed' \in Nat, Allowed' <= Allowed
  PROVE  RoomInv'
<1>1. Automatic \in SUBSET Guests /\ Automatic' \in SUBSET Guests
  BY DEF Automatic
<1>2. Cardinality(Automatic)' <= Cardinality(Automatic)
  BY <1>1, GuestsAreCounted, FS_Subset
<1>3. Cardinality(Automatic) \in Nat /\ Cardinality(Automatic') \in Nat
  BY <1>1, GuestsAreCounted
<1>4. MaxConcurrent \in Nat
  BY AutomigrateAssumptions
<1> QED
  BY <1>2, <1>3, <1>4 DEF RoomInv

\* A migration started for a guest takes one place.
LEMMA OneMoreAutomatic ==
  ASSUME TypeInv, RoomInv, NEW g \in Guests, NEW who \in {"run", "orphan"},
         owner' = [owner EXCEPT ![g] = who],
         Allowed \in Nat, Allowed' \in Nat, Allowed = Allowed' + 1, OwnersHaveTasks'
  PROVE  RoomInv'
<1>1. Automatic \in SUBSET Guests
  BY DEF Automatic
<1>2. IsFiniteSet(Automatic) /\ Cardinality(Automatic) \in Nat
  BY <1>1, GuestsAreCounted
<1>3. Automatic' = Automatic \cup {g}
  BY DEF Automatic, TypeInv, TypeOK
<1>4. /\ Cardinality(Automatic') \in Nat
      /\ Cardinality(Automatic') <= Cardinality(Automatic) + 1
  BY <1>2, <1>3, FS_AddElement
<1>5. MaxConcurrent \in Nat
  BY AutomigrateAssumptions
<1> QED
  BY <1>2, <1>4, <1>5 DEF RoomInv

\* A count that was answered has seen every automatic migration.
LEMMA NextRoom == ~TasksApiFails /\ TypeInv /\ RoomInv /\ [Next]_vars => RoomInv'
<1> SUFFICES ASSUME ~TasksApiFails, TypeInv, RoomInv, [Next]_vars PROVE RoomInv'
  OBVIOUS
<1> USE DEF cluster, files, process, collector, bounds
<1>a. left \in Nat /\ pc \in PC
  BY DEF TypeInv, TypeOK
<1>b. Allowed \in Nat /\ (Allowed \in Nat)'
  <2>1. left' \in Nat /\ pc' \in PC
    BY NextType DEF TypeInv, TypeOK
  <2> QED
    BY <1>a, <2>1 DEF Allowed, PC
<1>1. ASSUME owner' = owner, task' = task, Allowed' <= Allowed
      PROVE  RoomInv'
  <2>1. OwnersHaveTasks' /\ Automatic' = Automatic
    BY <1>1 DEF RoomInv, OwnersHaveTasks, Automatic
  <2> QED
    BY <1>1, <1>b, <2>1, NoMoreRoom
<1>2. CASE CountRunning
  <2>1. UNCHANGED <<owner, task>> /\ Allowed = 0
    BY <1>2 DEF CountRunning, Allowed
  <2>2. CASE Cardinality(RunningTasks) >= MaxConcurrent
    <3>1. pc' = "final"
      BY <1>2, <2>2 DEF CountRunning, Finish
    <3>2. Allowed' = 0
      BY <3>1 DEF Allowed
    <3> QED
      BY <1>1, <2>1, <3>2
  <2>3. CASE ~(Cardinality(RunningTasks) >= MaxConcurrent)
    <3>1. left' = Min({MaxPerRun, MaxConcurrent - Cardinality(RunningTasks)}) /\ pc' = "loop"
      BY <1>2, <2>3 DEF CountRunning, MaxNewMigrations
    <3>2. Cardinality(RunningTasks) \in Nat /\ MaxConcurrent \in Nat /\ MaxPerRun \in Nat
      BY RunningTasksCount, AutomigrateAssumptions
    <3>3. MaxConcurrent - Cardinality(RunningTasks) \in Nat
      BY <2>3, <3>2
    <3>4. left' <= MaxConcurrent - Cardinality(RunningTasks) /\ left' \in Nat
      BY <3>1, <3>2, <3>3, MinOfTwo
    <3>5. Automatic \subseteq RunningTasks
      BY AutomigrateAssumptions DEF Automatic, RunningTasks, RoomInv, OwnersHaveTasks
    <3>6. RunningTasks \in SUBSET Guests
      BY DEF RunningTasks
    <3>7. Cardinality(Automatic) <= Cardinality(RunningTasks) /\ Cardinality(Automatic) \in Nat
      BY <3>5, <3>6, GuestsAreCounted, FS_Subset
    <3>8. Automatic' = Automatic /\ OwnersHaveTasks' /\ Allowed' = left'
      BY <2>1, <3>1 DEF Automatic, RoomInv, OwnersHaveTasks, Allowed
    <3> QED
      BY <3>2, <3>4, <3>7, <3>8 DEF RoomInv
  <2> QED
    BY <2>2, <2>3
<1>3. ASSUME \/ Start \/ StopAtGate \/ ExitWithoutCache \/ PassGates
             \/ LeaveLoop \/ AllFiltered \/ FilterFails \/ SkipPicked
             \/ StartRejected \/ Poll \/ RecordMigration \/ RecordFails \/ Tally \/ FinishRun
             \/ StartCollection \/ EndCollection \/ Tick \/ UNCHANGED vars
      PROVE  RoomInv'
  <2>1. owner' = owner /\ task' = task
    BY <1>3 DEF Start, StopAtGate, ExitWithoutCache, PassGates, LeaveLoop, AllFiltered,
       FilterFails, SkipPicked, StartRejected, Poll, RecordMigration, RecordFails, Tally,
       FinishRun, StartCollection, EndCollection, Tick, vars
  <2>2. \/ pc' \in {"idle", "gates", "slots", "tally", "final"}
        \/ pc' = "loop" /\ pc \in {"picked", "record"} /\ left' = left
        \/ pc' = "record" /\ pc \in {"starting", "polling"} /\ left' = left
        \/ pc' = pc /\ left' = left
    BY <1>3 DEF Start, StopAtGate, Finish, ExitWithoutCache, PassGates, LeaveLoop, AllFiltered,
       FilterFails, SkipPicked, StartRejected, Poll, RecordMigration, RecordFails, Tally,
       FinishRun, StartCollection, EndCollection, Tick, vars
  <2>3. Allowed' <= Allowed
    BY <1>a, <1>b, <2>2 DEF Allowed
  <2> QED
    BY <1>1, <2>1, <2>3
<1>4. CASE Pick
  <2>1. Allowed' = Allowed
    BY <1>4, <1>a DEF Pick, Allowed
  <2> QED
    BY <1>1, <1>4, <1>b, <2>1 DEF Pick
<1>5. CASE Announce
  <2>1. Allowed' <= Allowed
    BY <1>5, <1>a DEF Announce, Allowed
  <2> QED
    BY <1>1, <1>5, <2>1 DEF Announce
<1>6. CASE StartAccepted \/ StartTimeout
  <2>1. rec.guest \in Guests /\ rec.tgt \in Nodes
    BY <1>6 DEF StartAccepted, StartTimeout, TypeInv, HasRec, Recommendation
  <2>2. PICK who \in {"run", "orphan"} :
          StartTask(rec.guest, rec.tgt, who) /\ left' = left
          /\ pc = "starting" /\ pc' \in {"polling", "record"}
    BY <1>6 DEF StartAccepted, StartTimeout
  <2>3. OwnersHaveTasks'
    BY <2>1, <2>2, AutomigrateAssumptions
       DEF StartTask, RoomInv, OwnersHaveTasks, TypeInv, TypeOK
  <2>4. Allowed = Allowed' + 1
    BY <1>a, <2>2 DEF Allowed
  <2> QED
    BY <1>b, <2>1, <2>2, <2>3, <2>4, OneMoreAutomatic DEF StartTask
<1>7. CASE Kill
  <2>1. Automatic' = Automatic /\ OwnersHaveTasks' /\ Allowed' = 0
    BY <1>7, AutomigrateAssumptions
       DEF Kill, Automatic, RoomInv, OwnersHaveTasks, Allowed, TypeInv, TypeOK
  <2> QED
    BY <1>b, <2>1, NoMoreRoom
<1>8. ASSUME NEW g \in Guests, NEW exit \in {"OK", "ERR"}, EndTask(g, exit)
      PROVE  RoomInv'
  <2>1. Automatic' \subseteq Automatic /\ OwnersHaveTasks'
    BY <1>8, AutomigrateAssumptions
       DEF EndTask, Automatic, RoomInv, OwnersHaveTasks, TypeInv, TypeOK
  <2>2. Allowed' = Allowed
    BY <1>8 DEF EndTask, Allowed
  <2> QED
    BY <1>b, <2>1, <2>2, NoMoreRoom
<1>9. ASSUME NEW g \in Guests, NEW tgt \in Nodes, MigrateByHand(g, tgt)
      PROVE  RoomInv'
  <2>1. Automatic' \subseteq Automatic /\ OwnersHaveTasks'
    BY <1>9, AutomigrateAssumptions
       DEF MigrateByHand, StartTask, Automatic, RoomInv, OwnersHaveTasks, TypeInv, TypeOK
  <2>2. Allowed' = Allowed
    BY <1>9 DEF MigrateByHand, Allowed
  <2> QED
    BY <1>b, <2>1, <2>2, NoMoreRoom
<1> QED
  BY <1>2, <1>3, <1>4, <1>5, <1>6, <1>7, <1>8, <1>9 DEF Next, RunStep, Environment

\* As long as the tasks endpoint answers, no more automatic migrations are
\* under way than max_concurrent_migrations, those of killed runs and of
\* requests that timed out included.
THEOREM ConcurrencyIsBounded ==
  ASSUME ~TasksApiFails
  PROVE  Spec => []ConcurrencyRespected
<1>1. Init => RoomInv
  <2> SUFFICES ASSUME Init PROVE RoomInv
    OBVIOUS
  <2>1. Automatic = {} /\ OwnersHaveTasks /\ Allowed = 0
    BY AutomigrateAssumptions DEF Init, Automatic, OwnersHaveTasks, Allowed
  <2> QED
    BY <2>1, FS_EmptySet, AutomigrateAssumptions DEF RoomInv
<1>2. TypeInv /\ RoomInv => ConcurrencyRespected
  <2> SUFFICES ASSUME TypeInv, RoomInv PROVE ConcurrencyRespected
    OBVIOUS
  <2>1. Automatic \in SUBSET Guests
    BY DEF Automatic
  <2>2. Cardinality(Automatic) \in Nat /\ MaxConcurrent \in Nat /\ Allowed \in Nat
    BY <2>1, GuestsAreCounted, AutomigrateAssumptions DEF Allowed, TypeInv, TypeOK
  <2>3. Cardinality(Automatic) <= MaxConcurrent
    BY <2>2 DEF RoomInv
  <2> QED
    BY <2>3 DEF ConcurrencyRespected, Automatic
<1>3. TypeInv /\ RoomInv /\ [Next]_vars => RoomInv'
  BY NextRoom
<1> QED
  BY <1>1, <1>2, <1>3, InitType, NextType, PTL DEF Spec

----------------------------------------------------------------------------
(* Honest summaries.                                                       *)

With(ds, action) == {i \in DOMAIN ds : ds[i].action = action}

\* A summary whose migrations are all accounted for, and one whose last
\* migration, of guest g, is still to be recorded.
Settled(s) ==
    /\ With(s.decisions, "pending") = {}
    /\ s.executed = Len(s.decisions)
    /\ s.successful = Cardinality(With(s.decisions, "executed"))

Owing(s, g) ==
    /\ Len(s.decisions) > 0
    /\ With(s.decisions, "pending") = {Len(s.decisions)}
    /\ s.decisions[Len(s.decisions)] = [guest |-> g, action |-> "pending"]
    /\ s.executed + 1 = Len(s.decisions)
    /\ s.successful = Cardinality(With(s.decisions, "executed"))

\* Where the run is tells what its summary lacks.
SummaryInv ==
    /\ pc \in {"idle", "gates", "slots"} => run = EmptyRun
    /\ pc \in {"loop", "picked", "tally"} => run.status = "running" /\ Settled(run)
    /\ pc \in {"starting", "polling", "record"} =>
         run.status = "running" /\ Owing(run, rec.guest)
    /\ pc = "final" => Honest(run)

HonestInv == SummaryInv /\ SummariesAreHonest

\* The decisions with an outcome can be counted.
LEMMA DecisionsAreCounted ==
  ASSUME NEW ds \in Seq(Decision), NEW action
  PROVE  /\ With(ds, action) \in SUBSET (1 .. Len(ds))
         /\ IsFiniteSet(With(ds, action))
         /\ Cardinality(With(ds, action)) \in Nat
         /\ Cardinality(With(ds, action)) <= Len(ds)
         /\ Cardinality(With(ds, action)) = Len(ds) => With(ds, action) = 1 .. Len(ds)
<1>1. With(ds, action) \in SUBSET (1 .. Len(ds)) /\ Len(ds) \in Nat
  BY DEF With
<1>2. IsFiniteSet(1 .. Len(ds)) /\ Cardinality(1 .. Len(ds)) = Len(ds)
  <2>1. 1 \in Int /\ Len(ds) \in Int /\ (1 > Len(ds) => Len(ds) = 0)
    BY <1>1
  <2>2. /\ IsFiniteSet(1 .. Len(ds))
        /\ Cardinality(1 .. Len(ds)) = IF 1 > Len(ds) THEN 0 ELSE Len(ds) - 1 + 1
    BY <2>1, FS_Interval
  <2> QED
    BY <1>1, <2>1, <2>2
<1> QED
  BY <1>1, <1>2, FS_Subset, FS_CardinalityType

\* A summary without a final status claims nothing.
LEMMA UnfinishedIsHonest ==
  ASSUME NEW s, s.status \notin Final
  PROVE  Honest(s)
BY DEF Honest

\* Announcing a migration leaves it owing.
LEMMA AnnouncedIsOwing ==
  ASSUME NEW s \in Summary, NEW g \in Guests, Settled(s)
  PROVE  Owing([s EXCEPT !.decisions = Append(@, [guest |-> g, action |-> "pending"])], g)
<1> DEFINE d == [guest |-> g, action |-> "pending"]
           ds == s.decisions
           new == Append(ds, d)
<1>1. ds \in Seq(Decision) /\ s.executed \in Nat /\ Len(ds) \in Nat
  BY SummaryUpdate
<1>2. /\ DOMAIN ds = 1 .. Len(ds) /\ DOMAIN new = 1 .. (Len(ds) + 1)
      /\ Len(new) = Len(ds) + 1
      /\ \A i \in 1 .. Len(ds) : new[i] = ds[i]
      /\ new[Len(ds) + 1] = d
  BY <1>1
<1>3. With(new, "pending") = {Len(new)}
  BY <1>1, <1>2 DEF With, Settled
<1>4. With(new, "executed") = With(ds, "executed")
  BY <1>1, <1>2 DEF With
<1>5. LET t == [s EXCEPT !.decisions = new]
      IN  t.decisions = new /\ t.executed = s.executed /\ t.successful = s.successful
  BY DEF Summary
<1> HIDE DEF new
<1> QED
  BY <1>1, <1>2, <1>3, <1>4, <1>5 DEF Owing, Settled, new

\* Recording it settles the summary.
LEMMA RecordedIsSettled ==
  ASSUME NEW s \in Summary, NEW t \in Summary, NEW g \in Guests, NEW good \in BOOLEAN,
         Owing(s, g),
         t.executed = s.executed + 1,
         t.successful = IF good THEN s.successful + 1 ELSE s.successful,
         t.decisions = Resolve(s.decisions, g, IF good THEN "executed" ELSE "failed")
  PROVE  Settled(t)
<1> DEFINE ds == s.decisions
           k == Len(ds)
           action == IF good THEN "executed" ELSE "failed"
           open == {i \in DOMAIN ds : ds[i] = [guest |-> g, action |-> "pending"]}
           new == [ds EXCEPT ![k].action = action]
<1>1. ds \in Seq(Decision) /\ s.executed \in Nat /\ s.successful \in Nat
      /\ k \in Nat /\ k > 0 /\ DOMAIN ds = 1 .. k
  BY SummaryUpdate DEF Owing
<1>2. open = {k}
  BY <1>1 DEF Owing, With
<1>3. Min(open) = k
  <2>1. \A y \in {k} : k <= y
    BY <1>1
  <2> QED
    BY <1>2, <2>1 DEF Min
<1>4. t.decisions = new
  <2>1. Resolve(ds, g, action) = IF open = {} THEN ds
                                 ELSE [ds EXCEPT ![Min(open)].action = action]
    BY DEF Resolve
  <2> HIDE DEF open
  <2> QED
    BY <1>2, <1>3, <2>1
<1>5. /\ DOMAIN new = 1 .. k
      /\ new[k].action = action
      /\ \A i \in 1 .. k : i # k => new[i] = ds[i]
  <2>1. ds[k] \in Decision
    BY <1>1
  <2> QED
    BY <1>1, <2>1 DEF Decision
<1>6. Len(new) = k
  BY <1>1, <1>5
<1> HIDE DEF new
<1>7. With(new, "pending") = {}
  BY <1>1, <1>5 DEF With, Owing
<1>8. k \notin With(ds, "executed")
  BY <1>1 DEF With, Owing
<1>9. With(new, "executed") = IF good THEN With(ds, "executed") \cup {k} ELSE With(ds, "executed")
  BY <1>1, <1>5, <1>8 DEF With
<1>10. IsFiniteSet(With(ds, "executed")) /\ Cardinality(With(ds, "executed")) \in Nat
  BY <1>1, DecisionsAreCounted
<1>11. Cardinality(With(new, "executed")) =
         IF good THEN Cardinality(With(ds, "executed")) + 1 ELSE Cardinality(With(ds, "executed"))
  BY <1>8, <1>9, <1>10, FS_AddElement
<1> QED
  BY <1>1, <1>4, <1>6, <1>7, <1>11 DEF Settled, Owing

\* The status that Tally chooses for a settled summary is the true one.
LEMMA TalliedIsHonest ==
  ASSUME NEW s \in Summary, Settled(s), NEW st \in Final,
         st = "success" => s.executed > 0 /\ s.successful = s.executed,
         st = "partial" => s.successful \in 1 .. (s.executed - 1)
  PROVE  Honest([s EXCEPT !.status = st])
<1> DEFINE ds == s.decisions
           r == [s EXCEPT !.status = st]
<1>1. /\ ds \in Seq(Decision) /\ s.executed \in Nat /\ s.successful \in Nat
      /\ Len(ds) \in Nat /\ DOMAIN ds = 1 .. Len(ds)
  BY SummaryUpdate
<1>2. /\ r.decisions = ds /\ r.executed = s.executed /\ r.successful = s.successful
      /\ r.status = st
  BY DEF Summary
<1>3. st = "success" => s.successful > 0 /\ With(ds, "failed") = {}
  <2> SUFFICES ASSUME st = "success"
               PROVE  s.successful > 0 /\ With(ds, "failed") = {}
    OBVIOUS
  <2>1. Cardinality(With(ds, "executed")) = Len(ds)
    BY DEF Settled
  <2>2. With(ds, "executed") = 1 .. Len(ds)
    BY <1>1, <2>1, DecisionsAreCounted
  <2> QED
    BY <1>1, <2>2 DEF With
<1>4. st = "partial" => s.successful > 0 /\ With(ds, "failed") # {}
  <2> SUFFICES ASSUME st = "partial"
               PROVE  s.successful > 0 /\ With(ds, "failed") # {}
    OBVIOUS
  <2>1. s.successful > 0 /\ s.successful < Len(ds)
    BY <1>1 DEF Settled
  <2>2. With(ds, "executed") # 1 .. Len(ds)
    <3>1. Cardinality(1 .. Len(ds)) = Len(ds)
      <4>1. 1 \in Int /\ Len(ds) \in Int /\ ~ (1 > Len(ds))
        BY <1>1, <2>1
      <4>2. Cardinality(1 .. Len(ds)) = Len(ds) - 1 + 1
        BY <4>1, FS_Interval
      <4> QED
        BY <1>1, <4>2
    <3> QED
      BY <1>1, <2>1, <3>1 DEF Settled
  <2>3. PICK i \in 1 .. Len(ds) : ds[i].action # "executed"
    BY <1>1, <2>2 DEF With
  <2>4. ds[i].action \in {"pending", "executed", "failed"}
    <3>1. ds[i] \in Decision
      BY <1>1
    <3> QED
      BY <3>1 DEF Decision
  <2>5. ds[i].action # "pending"
    BY <1>1 DEF Settled, With
  <2> QED
    BY <1>1, <2>1, <2>3, <2>4, <2>5 DEF With
<1> HIDE DEF r
<1> QED
  BY <1>2, <1>3, <1>4 DEF Honest, Settled, With

\* A summary that was saved before it was final is honest for that reason,
\* the final one because it was settled.
LEMMA NextHonest == TypeInv /\ HonestInv /\ [Next]_vars => HonestInv'
<1> SUFFICES ASSUME TypeInv, HonestInv, [Next]_vars PROVE HonestInv'
  OBVIOUS
<1> USE DEF cluster, files, process, collector, bounds
<1>a. run \in Summary /\ archive \in Seq(Summary) /\ pc \in PC
      /\ lastRun \in Summary \cup {Timestamp, None}
  BY DEF TypeInv, TypeOK
<1>b. Honest(EmptyRun) /\ EmptyRun.status = "running" /\ Settled(EmptyRun)
  <2>1. With(<<>>, "pending") = {} /\ With(<<>>, "executed") = {}
    BY DEF With
  <2>2. Settled(EmptyRun)
    BY <2>1, FS_EmptySet DEF Settled, EmptyRun
  <2> QED
    BY <2>2, UnfinishedIsHonest DEF EmptyRun, Final
<1>c. Timestamp \notin Summary /\ None \notin Summary
  BY MarkersAssumption
<1>d. ASSUME UNCHANGED archive, \/ lastRun' = lastRun \/ lastRun' = Timestamp
                                \/ Honest(lastRun')
      PROVE  SummariesAreHonest'
  BY <1>c, <1>d DEF HonestInv, SummariesAreHonest
<1>1. CASE Start
  <2>1. SummaryInv'
    BY <1>1 DEF Start, SummaryInv
  <2>2. SummariesAreHonest'
    BY <1>1, <1>b, <1>d DEF Start, SaveLastRun
  <2> QED
    BY <2>1, <2>2 DEF HonestInv
<1>2. CASE StopAtGate
  <2>1. PICK status \in {"disabled", "skipped", "failed", "error"} :
          run' = [EmptyRun EXCEPT !.status = status] /\ pc' = "final"
    BY <1>2 DEF StopAtGate, Finish, HonestInv, SummaryInv
  <2>2. run' = [status |-> status, decisions |-> <<>>, executed |-> 0, successful |-> 0]
    BY <2>1 DEF EmptyRun
  <2>3. status \notin {"success", "partial"}
    BY <2>1
  <2>4. Honest(run')
    <3>1. \A action : {i \in DOMAIN <<>> : (<<>>)[i].action = action} = {}
      OBVIOUS
    <3> QED
      BY <2>2, <2>3, <3>1, FS_EmptySet DEF Honest
  <2>5. SummaryInv'
    BY <2>1, <2>4 DEF SummaryInv
  <2> QED
    BY <1>2, <1>d, <2>5 DEF StopAtGate, HonestInv
<1>3. CASE ExitWithoutCache
  <2>1. SummaryInv'
    BY <1>3, <1>b DEF ExitWithoutCache, SummaryInv, HonestInv
  <2> QED
    BY <1>3, <1>d, <2>1 DEF ExitWithoutCache, HonestInv
<1>4. CASE PassGates
  <2>1. SummaryInv'
    BY <1>4 DEF PassGates, SummaryInv, HonestInv
  <2> QED
    BY <1>4, <1>d, <2>1 DEF PassGates, HonestInv
<1>5. CASE CountRunning
  <2>1. run = EmptyRun
    BY <1>5 DEF CountRunning, HonestInv, SummaryInv
  <2>2. CASE pc' = "loop" /\ run' = run
    <3>1. SummaryInv'
      BY <2>1, <2>2, <1>b DEF SummaryInv
    <3> QED
      BY <1>5, <1>d, <3>1 DEF CountRunning, HonestInv
  <2>3. CASE Finish("skipped")
    <3>1. run' = [EmptyRun EXCEPT !.status = "skipped"] /\ pc' = "final"
      BY <2>1, <2>3 DEF Finish
    <3>2. run'.status \notin Final
      BY <3>1 DEF EmptyRun, Final
    <3>3. Honest(run')
      BY <3>2, UnfinishedIsHonest
    <3>4. SummaryInv'
      BY <3>1, <3>3 DEF SummaryInv
    <3> QED
      BY <1>5, <1>d, <3>4 DEF CountRunning, HonestInv
  <2> QED
    BY <1>5, <2>2, <2>3 DEF CountRunning
<1>6. CASE LeaveLoop \/ SkipPicked \/ Pick
  <2>1. SummaryInv'
    BY <1>6 DEF LeaveLoop, SkipPicked, Pick, SummaryInv, HonestInv
  <2> QED
    BY <1>6, <1>d, <2>1 DEF LeaveLoop, SkipPicked, Pick, HonestInv
<1>7. CASE AllFiltered
  <2>1. run.status = "running" /\ SummaryInv'
    BY <1>7 DEF AllFiltered, SummaryInv, HonestInv
  <2>2. Honest(run)
    BY <2>1, UnfinishedIsHonest DEF Final
  <2> QED
    BY <1>7, <1>d, <2>1, <2>2 DEF AllFiltered, SaveLastRun, HonestInv
<1>8. CASE FilterFails
  <2>1. run'.status = "error" /\ pc' = "final"
    BY <1>8, <1>a DEF FilterFails, Finish, Summary
  <2>2. Honest(run')
    BY <2>1, UnfinishedIsHonest DEF Final
  <2>3. SummaryInv'
    BY <2>1, <2>2 DEF SummaryInv
  <2> QED
    BY <1>8, <1>d, <2>3 DEF FilterFails, HonestInv
<1>9. CASE Announce
  <2>1. rec.guest \in Guests /\ rec' = rec /\ pc' \in {"record", "starting"}
    BY <1>9 DEF Announce, TypeInv, HasRec, Recommendation
  <2>2. Settled(run) /\ run.status = "running"
    BY <1>9 DEF Announce, HonestInv, SummaryInv
  <2>3. run'.status = "running"
    BY <1>9, <1>a, <2>2 DEF Announce, Summary
  <2>4. Owing(run', rec.guest)
    BY <1>9, <1>a, <2>1, <2>2, AnnouncedIsOwing DEF Announce
  <2>5. SummaryInv'
    BY <2>1, <2>3, <2>4 DEF SummaryInv
  <2>6. Honest(run')
    BY <2>3, UnfinishedIsHonest DEF Final
  <2> QED
    BY <1>9, <1>d, <2>5, <2>6 DEF Announce, SaveLastRun, HonestInv
<1>10. CASE StartAccepted \/ StartRejected \/ StartTimeout \/ Poll
  <2>1. SummaryInv'
    BY <1>10 DEF StartAccepted, StartRejected, StartTimeout, Poll, SummaryInv, HonestInv
  <2> QED
    BY <1>10, <1>d, <2>1 DEF StartAccepted, StartRejected, StartTimeout, Poll, HonestInv
<1>11. CASE RecordMigration
  <2> DEFINE good == outcome = "OK"
  <2>1. rec.guest \in Guests /\ run.status = "running" /\ Owing(run, rec.guest)
    BY <1>11 DEF RecordMigration, TypeInv, HasRec, Recommendation, HonestInv, SummaryInv
  <2>2. /\ run'.executed = run.executed + 1
        /\ run'.successful = IF good THEN run.successful + 1 ELSE run.successful
        /\ run'.decisions = Resolve(run.decisions, rec.guest,
                                    IF good THEN "executed" ELSE "failed")
        /\ run'.status = run.status
    BY <1>11, <1>a DEF RecordMigration, Summary
  <2>3. run' \in Summary
    BY NextType DEF TypeInv, TypeOK
  <2>4. Settled(run')
    <3> HIDE DEF good
    <3>1. good \in BOOLEAN
      BY DEF good
    <3> QED
      BY <1>a, <2>1, <2>2, <2>3, <3>1, RecordedIsSettled
  <2>5. pc' \in {"loop", "tally"}
    BY <1>11 DEF RecordMigration
  <2>6. SummaryInv'
    BY <2>1, <2>2, <2>4, <2>5 DEF SummaryInv
  <2> QED
    BY <1>11, <1>d, <2>6 DEF RecordMigration, HonestInv
<1>12. CASE RecordFails
  <2>1. run'.status = "error" /\ pc' = "final"
    BY <1>12, <1>a DEF RecordFails, Summary
  <2>2. Honest(run')
    BY <2>1, UnfinishedIsHonest DEF Final
  <2>3. SummaryInv'
    BY <2>1, <2>2 DEF SummaryInv
  <2> QED
    BY <1>12, <1>d, <2>3 DEF RecordFails, HonestInv
<1>13. CASE Tally
  <2>1. Settled(run)
    BY <1>13 DEF Tally, HonestInv, SummaryInv
  <2>2. PICK st \in Final :
          /\ Finish(st)
          /\ st = "success" => run.executed > 0 /\ run.successful = run.executed
          /\ st = "partial" => run.successful \in 1 .. (run.executed - 1)
    BY <1>13 DEF Tally, Final
  <2>3. Honest(run') /\ pc' = "final"
    BY <1>a, <2>1, <2>2, TalliedIsHonest DEF Finish
  <2>4. SummaryInv'
    BY <2>3 DEF SummaryInv
  <2> QED
    BY <1>13, <1>d, <2>4 DEF Tally, HonestInv
<1>14. CASE FinishRun
  <2> DEFINE all == <<run>> \o archive
             k == Min({KeepRuns, Len(archive) + 1})
  <2>1. Honest(run) /\ SummaryInv'
    BY <1>14 DEF FinishRun, HonestInv, SummaryInv
  <2>2. /\ all \in Seq(Summary) /\ Len(all) = Len(archive) + 1
        /\ \A i \in 1 .. Len(all) : Honest(all[i])
    BY <1>a, <2>1 DEF HonestInv, SummariesAreHonest
  <2>3. k \in Nat /\ k <= Len(all)
    <3>1. KeepRuns \in Nat /\ Len(archive) + 1 \in Nat
      BY <1>a, AutomigrateAssumptions
    <3> QED
      BY <2>2, <3>1, MinOfTwo
  <2>4. \A i \in DOMAIN SubSeq(all, 1, k) : Honest(SubSeq(all, 1, k)[i])
    <3> HIDE DEF all, k
    <3> QED
      BY <2>2, <2>3
  <2>5. SummariesAreHonest'
    BY <1>14, <2>1, <2>4 DEF FinishRun, HonestInv, SummariesAreHonest
  <2> QED
    BY <2>1, <2>5 DEF HonestInv
<1>15. CASE Kill
  <2>1. SummaryInv'
    BY <1>15 DEF Kill, SummaryInv
  <2> QED
    BY <1>15, <1>d, <2>1 DEF Kill, HonestInv
<1>16. CASE Environment \/ UNCHANGED vars
  <2>1. UNCHANGED <<run, pc, rec, archive, lastRun>>
    BY <1>16 DEF Environment, EndTask, MigrateByHand, StartCollection, EndCollection, Tick, vars
  <2>2. SummaryInv'
    BY <2>1 DEF SummaryInv, HonestInv
  <2> QED
    BY <1>d, <2>1, <2>2 DEF HonestInv
<1> QED
  BY <1>1, <1>2, <1>3, <1>4, <1>5, <1>6, <1>7, <1>8, <1>9, <1>10, <1>11, <1>12, <1>13,
     <1>14, <1>15, <1>16 DEF Next, RunStep

\* The summaries that the status page reads tell the truth about their runs,
\* whatever fails: a run that claims an end has settled all its decisions.
THEOREM ReportsAreHonest == Spec => []SummariesAreHonest
<1>1. Init => HonestInv
  BY MarkersAssumption DEF Init, HonestInv, SummaryInv, SummariesAreHonest
<1>2. HonestInv => SummariesAreHonest
  BY DEF HonestInv
<1> QED
  BY <1>1, <1>2, InitType, NextType, NextHonest, PTL DEF Spec

----------------------------------------------------------------------------
(* The history and the moves.                                              *)

\* Nothing comes between a run and its records: no kill, no answer that is lost
\* on the way, a history that can be read and written.
RunsAreWhole == MaxKills = 0 /\ ~StartTimesOut /\ ~HistoryFails

LiveRecords(g) ==
    {i \in DOMAIN history :
        /\ history[i].guest = g /\ ~history[i].dry
        /\ history[i].status = "completed"}

\* The migration in hand has ended well and is about to be recorded.
EndedWell(g) ==
    pc \in {"polling", "record"} /\ rec.guest = g /\ outcome = "OK" /\ ~dry

Recorded(g) ==
    \/ EndedWell(g)
    \/ \E i \in LiveRecords(g) : history[i].at >= movedAt[g]

\* A dry run starts nothing, and whoever moves a guest is still there.
OwnersInv ==
    /\ pc \in {"starting", "polling"} => ~dry
    /\ \A g \in Guests : task[g] # None => owner[g] \in {"run", "other"}

\* A move is recorded, or about to be, with no earlier time; a record has its move.
MovesInv ==
    \A g \in Guests :
        /\ movedAt[g] # None => movedAt[g] <= now /\ Recorded(g)
        /\ EndedWell(g) \/ LiveRecords(g) # {} => movedAt[g] # None

MatchInv == OwnersInv /\ MovesInv

\* What only lets time pass keeps the moves and their records together.
LEMMA MovesLast ==
  ASSUME TypeInv, MovesInv, UNCHANGED <<history, movedAt>>, now' \in Nat, now <= now',
         \A g \in Guests : EndedWell(g)' <=> EndedWell(g)
  PROVE  MovesInv'
<1> SUFFICES ASSUME NEW g \in Guests
             PROVE  /\ movedAt[g] # None => movedAt[g] <= now' /\ Recorded(g)'
                    /\ EndedWell(g)' \/ LiveRecords(g)' # {} => movedAt[g] # None
  BY DEF MovesInv
<1>1. LiveRecords(g)' = LiveRecords(g)
  BY DEF LiveRecords
<1>2. Recorded(g)' <=> Recorded(g)
  BY <1>1 DEF Recorded
<1>3. movedAt[g] \in Nat \cup {None} /\ now \in Nat
  BY DEF TypeInv, TypeOK
<1>4. movedAt[g] # None => movedAt[g] <= now'
  BY <1>3 DEF MovesInv
<1> QED
  BY <1>1, <1>2, <1>4 DEF MovesInv

\* A record is added for the migration in hand.
LEMMA RecordMatches ==
  ASSUME TypeInv, MovesInv, RecordMigration
  PROVE  MovesInv'
<1> USE DEF cluster, bounds
<1> DEFINE new == [guest |-> rec.guest, dist |-> rec.dist,
                   src |-> rec.src, tgt |-> rec.tgt,
                   dry |-> dry, at |-> now,
                   status |-> RecordStatus(outcome)]
           n == Len(history) + 1
<1>1. /\ pc = "record" /\ outcome' = None
      /\ UNCHANGED <<movedAt, now>> /\ history' = Append(history, new)
  BY DEF RecordMigration
<1>2. /\ history \in Seq(Record) /\ now \in Nat /\ rec \in Recommendation
      /\ \A g \in Guests : movedAt[g] \in Nat \cup {None}
  BY <1>1 DEF TypeInv, TypeOK, HasRec
<1>3. /\ DOMAIN history' = DOMAIN history \cup {n} /\ n \notin DOMAIN history
      /\ \A i \in DOMAIN history : history'[i] = history[i]
      /\ history'[n] = new
  BY <1>1, <1>2
<1> SUFFICES ASSUME NEW g \in Guests
             PROVE  /\ movedAt[g] # None => movedAt[g] <= now /\ Recorded(g)'
                    /\ EndedWell(g)' \/ LiveRecords(g)' # {} => movedAt[g] # None
  BY <1>1 DEF MovesInv
<1>4. ~EndedWell(g)'
  BY <1>1, AutomigrateAssumptions DEF EndedWell
<1>5. movedAt[g] # None => movedAt[g] <= now /\ Recorded(g)
  BY DEF MovesInv
<1>6. CASE EndedWell(g)
  <2>1. new.guest = g /\ ~new.dry /\ new.status = "completed" /\ new.at = now
    BY <1>6 DEF EndedWell, RecordStatus
  <2>2. n \in LiveRecords(g)' /\ history'[n].at = now
    BY <1>3, <2>1 DEF LiveRecords
  <2>3. movedAt[g] # None
    BY <1>6 DEF MovesInv
  <2>4. Recorded(g)'
    BY <1>1, <1>2, <1>5, <2>2, <2>3 DEF Recorded
  <2> QED
    BY <1>5, <2>3, <2>4
<1>7. CASE ~EndedWell(g)
  <2>1. new.guest = rec.guest /\ new.dry = dry /\ new.status = RecordStatus(outcome)
    OBVIOUS
  <2>2. ~(new.guest = g /\ ~new.dry /\ new.status = "completed")
    BY <1>1, <1>7, <2>1 DEF EndedWell, RecordStatus
  <2>3. LiveRecords(g)' = LiveRecords(g)
    BY <1>3, <2>2 DEF LiveRecords
  <2>4. movedAt[g] # None => \E i \in LiveRecords(g) : history[i].at >= movedAt[g]
    BY <1>5, <1>7 DEF Recorded
  <2>5. movedAt[g] # None => Recorded(g)'
    BY <1>1, <1>3, <2>3, <2>4 DEF Recorded, LiveRecords
  <2> QED
    BY <1>4, <1>5, <2>3, <2>5 DEF MovesInv
<1> QED
  BY <1>6, <1>7

\* A migration of the run, or of somebody else, ends.
LEMMA EndMatches ==
  ASSUME TypeInv, TaskInv, MatchInv, NEW g \in Guests, NEW exit \in {"OK", "ERR"},
         EndTask(g, exit)
  PROVE  MovesInv'
<1> USE DEF files, collector, bounds
<1>1. /\ UNCHANGED <<history, now, pc, rec, dry>> /\ now \in Nat
      /\ movedAt \in [Guests -> Nat \cup {None}]
  BY DEF EndTask, TypeInv, TypeOK
<1>2. owner[g] \in {"run", "other"}
  BY DEF EndTask, MatchInv, OwnersInv
<1>3. CASE owner[g] = "other" \/ exit = "ERR"
  <2>1. movedAt' = movedAt
    BY <1>2, <1>3 DEF EndTask
  <2>2. CASE owner[g] = "other"
    <3>1. outcome' = outcome
      BY <2>2 DEF EndTask
    <3> QED
      BY <1>1, <2>1, <3>1, MovesLast DEF MatchInv, EndedWell
  <2>3. CASE owner[g] = "run" /\ exit = "ERR"
    <3>1. outcome' = "ERR" /\ outcome = None
      BY <2>3 DEF EndTask, TaskInv, OneMigrationAtATime
    <3>2. \A h \in Guests : EndedWell(h)' <=> EndedWell(h)
      BY <3>1, AutomigrateAssumptions DEF EndedWell
    <3> QED
      BY <1>1, <2>1, <3>2, MovesLast DEF MatchInv
  <2> QED
    BY <1>2, <1>3, <2>2, <2>3
<1>4. CASE owner[g] = "run" /\ exit = "OK"
  <2>1. /\ outcome' = "OK" /\ movedAt' = [movedAt EXCEPT ![g] = now]
        /\ pc = "polling" /\ rec.guest = g /\ outcome = None /\ ~dry
    BY <1>4 DEF EndTask, TaskInv, OneMigrationAtATime, MatchInv, OwnersInv
  <2> SUFFICES ASSUME NEW h \in Guests
               PROVE  /\ movedAt'[h] # None => movedAt'[h] <= now /\ Recorded(h)'
                      /\ EndedWell(h)' \/ LiveRecords(h)' # {} => movedAt'[h] # None
    BY <1>1 DEF MovesInv
  <2>2. CASE h = g
    <3>1. EndedWell(h)' /\ movedAt'[h] = now
      BY <1>1, <2>1, <2>2 DEF EndedWell
    <3> QED
      BY <1>1, <3>1, AutomigrateAssumptions DEF Recorded
  <2>3. CASE h # g
    <3>1. ~EndedWell(h) /\ ~EndedWell(h)' /\ movedAt'[h] = movedAt[h]
      BY <1>1, <2>1, <2>3 DEF EndedWell
    <3>2. LiveRecords(h)' = LiveRecords(h) /\ history' = history
      BY <1>1 DEF LiveRecords
    <3> QED
      BY <3>1, <3>2 DEF MatchInv, MovesInv, Recorded
  <2> QED
    BY <2>2, <2>3
<1> QED
  BY <1>2, <1>3, <1>4

\* Every step keeps moves and records together.
LEMMA NextMatch ==
  ASSUME RunsAreWhole, TypeInv, TaskInv, MatchInv, [Next]_vars
  PROVE  MatchInv'
<1> USE DEF cluster, files, process, collector, bounds
<1>a. /\ now \in Nat /\ kills \in Nat
      /\ owner \in [Guests -> {"run", "orphan", "other", None}]
      /\ task \in [Guests -> Nodes \cup {None}]
  BY DEF TypeInv, TypeOK
<1>b. ~Kill /\ ~StartTimeout /\ ~RecordFails /\ ~FilterFails
  BY <1>a DEF RunsAreWhole, Kill, StartTimeout, RecordFails, FilterFails
<1>1. OwnersInv'
  <2>1. CASE \/ Start \/ StopAtGate \/ ExitWithoutCache \/ PassGates \/ CountRunning
             \/ LeaveLoop \/ AllFiltered \/ Pick \/ SkipPicked \/ Announce
             \/ StartRejected \/ Poll \/ RecordMigration \/ Tally \/ FinishRun
    <3>1. UNCHANGED <<task, owner>>
      BY <2>1 DEF Start, StopAtGate, ExitWithoutCache, PassGates, CountRunning,
         LeaveLoop, AllFiltered, Pick, SkipPicked, Announce, StartRejected, Poll,
         RecordMigration, Tally, FinishRun
    <3>2. pc' \in {"starting", "polling"} => ~dry'
      BY <2>1 DEF Start, StopAtGate, Finish, ExitWithoutCache, PassGates, CountRunning,
         LeaveLoop, AllFiltered, Pick, SkipPicked, Announce, StartRejected, Poll,
         RecordMigration, Tally, FinishRun
    <3> QED
      BY <3>1, <3>2 DEF MatchInv, OwnersInv
  <2>2. CASE StartAccepted
    BY <1>a, <2>2 DEF StartAccepted, StartTask, MatchInv, OwnersInv
  <2>3. ASSUME NEW g \in Guests, NEW exit \in {"OK", "ERR"}, EndTask(g, exit)
        PROVE  OwnersInv'
    BY <1>a, <2>3 DEF EndTask, MatchInv, OwnersInv
  <2>4. ASSUME NEW g \in Guests, NEW tgt \in Nodes, MigrateByHand(g, tgt)
        PROVE  OwnersInv'
    BY <1>a, <2>4 DEF MigrateByHand, StartTask, MatchInv, OwnersInv
  <2>5. CASE StartCollection \/ EndCollection \/ Tick \/ UNCHANGED vars
    BY <2>5 DEF StartCollection, EndCollection, Tick, vars, MatchInv, OwnersInv
  <2> QED
    BY <1>b, <2>1, <2>2, <2>3, <2>4, <2>5 DEF Next, RunStep, Environment
<1>2. MovesInv'
  <2>1. CASE \/ Start \/ StopAtGate \/ ExitWithoutCache \/ PassGates \/ CountRunning
             \/ LeaveLoop \/ AllFiltered \/ Pick \/ SkipPicked \/ Announce
             \/ StartAccepted \/ StartRejected \/ Tally \/ FinishRun
    <3>1. UNCHANGED <<history, movedAt, now>>
      BY <2>1 DEF Start, StopAtGate, ExitWithoutCache, PassGates, CountRunning,
         LeaveLoop, AllFiltered, Pick, SkipPicked, Announce, StartAccepted, StartTask,
         StartRejected, Tally, FinishRun
    <3>2. pc \notin {"polling", "record"}
      BY <2>1 DEF Start, StopAtGate, ExitWithoutCache, PassGates, CountRunning,
         LeaveLoop, AllFiltered, Pick, SkipPicked, Announce, StartAccepted,
         StartRejected, Tally, FinishRun
    <3>3. ~(pc' \in {"polling", "record"} /\ outcome' = "OK" /\ ~dry')
      <4>1. CASE StartAccepted
        BY <4>1, AutomigrateAssumptions DEF StartAccepted, TaskInv, OutcomeInv
      <4>2. CASE ~StartAccepted
        BY <2>1, <4>2, AutomigrateAssumptions
           DEF Start, StopAtGate, Finish, ExitWithoutCache, PassGates,
           CountRunning, LeaveLoop, AllFiltered, Pick, SkipPicked, Announce,
           StartRejected, Tally, FinishRun
      <4> QED
        BY <4>1, <4>2
    <3>4. \A g \in Guests : ~EndedWell(g) /\ ~EndedWell(g)'
      BY <3>2, <3>3 DEF EndedWell
    <3> QED
      BY <1>a, <3>1, <3>4, MovesLast DEF MatchInv
  <2>2. CASE Poll
    <3>1. \A g \in Guests : EndedWell(g)' <=> EndedWell(g)
      BY <2>2 DEF Poll, EndedWell
    <3> QED
      BY <1>a, <2>2, <3>1, MovesLast DEF Poll, MatchInv
  <2>3. CASE RecordMigration
    BY <2>3, RecordMatches DEF MatchInv
  <2>4. ASSUME NEW g \in Guests, NEW exit \in {"OK", "ERR"}, EndTask(g, exit)
        PROVE  MovesInv'
    BY <2>4, EndMatches
  <2>5. ASSUME \/ \E g \in Guests, tgt \in Nodes : MigrateByHand(g, tgt)
               \/ StartCollection \/ EndCollection \/ Tick \/ UNCHANGED vars
        PROVE  MovesInv'
    <3>1. /\ UNCHANGED <<history, movedAt, pc, rec, outcome, dry>>
          /\ now' \in Nat /\ now <= now'
      BY <1>a, <2>5 DEF MigrateByHand, StartTask, StartCollection, EndCollection, Tick, vars
    <3> QED
      BY <3>1, MovesLast DEF MatchInv, EndedWell
  <2> QED
    BY <1>b, <2>1, <2>2, <2>3, <2>4, <2>5 DEF Next, RunStep, Environment
<1> QED
  BY <1>1, <1>2 DEF MatchInv

\* The inductive invariant behind the next two theorems.
LEMMA RunsMatch ==
  ASSUME RunsAreWhole
  PROVE  Spec => [](TypeInv /\ TaskInv /\ MatchInv)
<1>1. Init => TaskInv
  BY AutomigrateAssumptions DEF Init, TaskInv, OneMigrationAtATime, OutcomeInv
<1>2. Init => MatchInv
  BY DEF Init, MatchInv, OwnersInv, MovesInv, LiveRecords, EndedWell
<1>3. RunsAreWhole
  OBVIOUS
<1>4. TypeInv /\ TaskInv /\ MatchInv /\ [Next]_vars => MatchInv'
  BY <1>3, NextMatch
<1> QED
  BY <1>1, <1>2, <1>4, InitType, NextType, NextTask, PTL DEF Spec

\* With runs that are whole, the history has a record for each automatic move
\* and a move for each live record, whoever else migrates.
THEOREM RecordsFollowMoves ==
  ASSUME RunsAreWhole
  PROVE  Spec => []RecordsMatchMoves
<1>1. TypeInv /\ MatchInv => RecordsMatchMoves
  <2> SUFFICES ASSUME TypeInv, MatchInv, NEW g \in Guests
               PROVE  /\ movedAt[g] # None =>
                           \/ \E i \in LiveRecords(g) : history[i].at >= movedAt[g]
                           \/ rec # None /\ rec.guest = g /\ outcome = "OK"
                      /\ LiveRecords(g) # {} => movedAt[g] # None
    BY DEF RecordsMatchMoves, LiveRecords
  <2>1. EndedWell(g) => rec # None
    BY MarkersAssumption DEF EndedWell, TypeInv, HasRec
  <2> QED
    BY <2>1 DEF MatchInv, MovesInv, Recorded, EndedWell
<1> QED
  BY <1>1, RunsMatch, PTL

\* One type of vmid: then all records of a guest count for its cooldown.
OneTypeInv ==
    /\ pc \in {"picked", "starting", "polling", "record"} => ~rec.dist
    /\ \A i \in DOMAIN history : ~history[i].dist

LEMMA NextOneType ==
  ASSUME ~Distribution, TypeInv, OneTypeInv, [Next]_vars
  PROVE  OneTypeInv'
<1> USE DEF cluster, files, process, collector, bounds
<1>1. CASE RecordMigration
  <2>1. history \in Seq(Record) /\ ~rec.dist /\ pc' \in {"loop", "tally"}
    BY <1>1 DEF RecordMigration, TypeInv, TypeOK, OneTypeInv
  <2> DEFINE new == [guest |-> rec.guest, dist |-> rec.dist,
                     src |-> rec.src, tgt |-> rec.tgt,
                     dry |-> dry, at |-> now,
                     status |-> RecordStatus(outcome)]
  <2>2. ~new.dist /\ history' = Append(history, new)
    BY <1>1, <2>1 DEF RecordMigration
  <2> HIDE DEF new
  <2>3. \A i \in DOMAIN history' : ~history'[i].dist
    BY <2>1, <2>2 DEF OneTypeInv
  <2> QED
    BY <2>1, <2>3 DEF OneTypeInv
<1>2. CASE Pick
  BY <1>2 DEF Pick, Moves, ScoredMoves, DistributionMoves, OneTypeInv
<1>3. CASE \/ Start \/ Kill \/ FinishRun \/ StopAtGate \/ ExitWithoutCache \/ PassGates
           \/ CountRunning \/ LeaveLoop \/ AllFiltered \/ FilterFails \/ SkipPicked
           \/ RecordFails \/ Tally
  <2>1. history' = history /\ pc' \notin {"picked", "starting", "polling", "record"}
    BY <1>3 DEF Start, Kill, FinishRun, StopAtGate, Finish, ExitWithoutCache,
       PassGates, CountRunning, LeaveLoop, AllFiltered, FilterFails, SkipPicked,
       RecordFails, Tally
  <2> QED
    BY <2>1 DEF OneTypeInv
<1>4. CASE \/ Announce \/ StartAccepted \/ StartRejected \/ StartTimeout
           \/ Poll \/ Environment \/ UNCHANGED vars
  <2>1. /\ history' = history /\ rec' = rec
        /\ pc' = pc \/ pc \in {"picked", "starting", "polling", "record"}
    BY <1>4 DEF Announce, StartAccepted, StartRejected, StartTimeout,
       Poll, Environment, EndTask, MigrateByHand, StartCollection,
       EndCollection, Tick, vars
  <2> QED
    BY <2>1 DEF OneTypeInv
<1> QED
  BY <1>1, <1>2, <1>3, <1>4 DEF Next, RunStep

\* Without distribution moves, whose records the filter does not recognise, and
\* with runs that are whole, no guest is balanced again within the cooldown
\* after its last automatic migration ended.
THEOREM CooldownIsKept ==
  ASSUME RunsAreWhole, ~Distribution
  PROVE  Spec => CooldownRespected
<1> DEFINE Step == \A g \in Guests :
                     /\ owner[g] # "run" /\ owner'[g] = "run"
                     /\ ~IsMaintenanceEvac(rec)
                     /\ movedAt[g] # None
                     => movedAt[g] + Cooldown <= now
<1>1. TypeInv /\ SpacingInv /\ TaskInv /\ MatchInv /\ OneTypeInv /\ Next => Step
  <2> SUFFICES ASSUME TypeInv, SpacingInv, TaskInv, MatchInv, OneTypeInv, Next,
                      NEW g \in Guests, owner[g] # "run", owner'[g] = "run",
                      ~IsMaintenanceEvac(rec), movedAt[g] # None
               PROVE  movedAt[g] + Cooldown <= now
    OBVIOUS
  <2>1. pc = "starting" /\ rec.guest = g
    <3> USE DEF cluster, TypeInv, TypeOK
    <3>1. CASE StartAccepted
      BY <3>1 DEF StartAccepted, StartTask
    <3>2. CASE ~StartAccepted
      BY <3>2, AutomigrateAssumptions
         DEF Next, RunStep, Environment, Start, StopAtGate, ExitWithoutCache, PassGates,
         CountRunning, LeaveLoop, AllFiltered, FilterFails, Pick, SkipPicked, Announce,
         StartRejected, StartTimeout, StartTask, Poll, RecordMigration, RecordFails, Tally,
         FinishRun, Kill, EndTask, MigrateByHand, StartCollection, EndCollection, Tick
    <3> QED
      BY <3>1, <3>2
  <2>2. PICK i \in LiveRecords(g) : history[i].at >= movedAt[g]
    BY <2>1 DEF MatchInv, MovesInv, Recorded, EndedWell
  <2>3. /\ i \in DOMAIN history /\ history[i].guest = g
        /\ ~history[i].dist /\ ~rec.dist
    BY <2>1, <2>2 DEF LiveRecords, OneTypeInv
  <2>4. history[i] \in Record /\ rec \in Recommendation
    BY <2>1, <2>3 DEF TypeInv, TypeOK, HasRec
  <2>5. Same(i, rec)
    BY <2>1, <2>3, <2>4 DEF Same, Record, Recommendation
  <2>6. history[i].at + Cooldown <= now
    BY <2>1, <2>3, <2>5 DEF SpacingInv, PickedInv
  <2>7. history[i].at \in Nat
    BY <2>4 DEF Record
  <2>8. movedAt[g] \in Nat
    BY DEF TypeInv, TypeOK
  <2>9. now \in Nat /\ Cooldown \in Nat
    BY AutomigrateAssumptions DEF TypeInv, TypeOK
  <2> QED
    BY <2>2, <2>6, <2>7, <2>8, <2>9
<1>2. Init => SpacingInv /\ OneTypeInv
  BY DEF Init, SpacingInv, RecordsAreSpaced, TimesInv, PickedInv, OneTypeInv
<1>3. ~Distribution
  OBVIOUS
<1>4. TypeInv /\ OneTypeInv /\ [Next]_vars => OneTypeInv'
  BY <1>3, NextOneType
<1> QED
  BY <1>1, <1>2, <1>4, RunsMatch, NextSpacing, PTL DEF Spec, CooldownRespected
=============================================================================
