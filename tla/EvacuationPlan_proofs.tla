----------------------- MODULE EvacuationPlan_proofs ------------------------
(***************************************************************************)
(* Where an evacuation sends its guests, for any number of guests, nodes   *)
(* and sessions: the thread chooses targets by itself, by counts of its    *)
(* own, and yet spreads the guests and follows the plan the user saw.      *)
(***************************************************************************)
EXTENDS Evacuation_proofs, WellFoundedInduction

\* The cost of a node is a number, and grows with the guests it is to get.
LEMMA CostGrows ==
    ASSUME NEW loads \in [Nodes -> Nat], NEW c \in [Nodes -> Nat], NEW n \in Nodes
    PROVE  /\ \A m \in Nodes : Cost(loads, c, m) \in Nat
           /\ Count(c, n) \in [Nodes -> Nat]
           /\ Cost(loads, Count(c, n), n) = Cost(loads, c, n) + PendingWeight
           /\ \A m \in Nodes : m # n => Cost(loads, Count(c, n), m) = Cost(loads, c, m)
<1>1. PendingWeight \in Nat
  BY EvacuationAssumptions
<1>2. \A a \in Nat : PendingWeight * a \in Nat
                     /\ PendingWeight * (a + 1) = PendingWeight * a + PendingWeight
  BY <1>1
<1>3. \A m \in Nodes : Count(c, n)[m] = IF m = n THEN c[m] + 1 ELSE c[m]
  BY DEF Count
<1>4. Count(c, n) \in [Nodes -> Nat]
  BY DEF Count
<1>5. \A m \in Nodes : c[m] \in Nat /\ loads[m] \in Nat
  OBVIOUS
<1> QED BY <1>1, <1>2, <1>3, <1>4, <1>5 DEF Cost

\* Ties are broken by place: min() has one answer.
LEMMA CheapestIsOne ==
    ASSUME NEW loads \in [Nodes -> Nat], NEW c \in [Nodes -> Nat], NEW S \in SUBSET Nodes,
           NEW m \in Cheapest(loads, c, S), NEW n \in Cheapest(loads, c, S)
    PROVE  m = n
<1>1. /\ Cost(loads, c, m) \in Nat /\ Cost(loads, c, n) \in Nat
      /\ m \in Nodes /\ n \in Nodes
  BY CostGrows DEF Cheapest
<1>2. Rank[m] \in Nat /\ Rank[n] \in Nat
  BY <1>1, EvacuationAssumptions
<1>3. /\ Cost(loads, c, m) <= Cost(loads, c, n)
      /\ Cost(loads, c, n) <= Cost(loads, c, m)
  BY <1>1 DEF Cheapest
<1>4. Rank[m] = Rank[n]
  BY <1>1, <1>2, <1>3 DEF Cheapest
<1> QED BY <1>1, <1>4, EvacuationAssumptions

\* What is stored by session is changed for one of them.
LEMMA OneSession ==
    ASSUME Inv, NEW s \in Sessions, NEW t \in Sessions, t # s, Step(t) \/ Confirm(t)
    PROVE  /\ pc'[s] = pc[s] /\ job'[s] = job[s] /\ left'[s] = left[s]
           /\ pending'[s] = pending[s] /\ doc'[s] = doc[s]
<1> USE DEF Inv, TypeOK, Goto, WriteSession, Record, page
<1>1. CASE Confirm(t)
  BY <1>1 DEF Confirm
<1>2. CASE StartThread(t) \/ NextGuest(t) \/ Complete(t)
  BY <1>2 DEF StartThread, NextGuest, Complete
<1>3. CASE FailGuest(t) \/ IgnoreGuest(t) \/ PowerOff(t) \/ SeeTaskStopped(t) \/ GiveUp(t)
  BY <1>3 DEF FailGuest, IgnoreGuest, PowerOff, SeeTaskStopped, GiveUp
<1>4. ASSUME NEW n \in Targets, StartMigration(t, n) \/ StartRefused(t, n) \/ StartLost(t, n)
      PROVE  /\ pc'[s] = pc[s] /\ job'[s] = job[s] /\ left'[s] = left[s]
             /\ pending'[s] = pending[s] /\ doc'[s] = doc[s]
  BY <1>4 DEF StartMigration, StartRefused, StartLost, Assign
<1> QED BY <1>1, <1>2, <1>3, <1>4 DEF Step

-----------------------------------------------------------------------------
(* The guests are spread.                                                  *)

Spread(s) ==
    /\ pc[s] \in {"new", "starting"} => pending[s] = [n \in Nodes |-> 0]
    /\ pc[s] # "new" => IsSpread(job[s].load, pending[s], job[s].avail, job[s].storage)

AllSpread == \A s \in Sessions : Spread(s)

\* Who has no guest to give has not given it to the wrong node.
LEMMA NothingIsSpread ==
    ASSUME NEW loads, NEW nodes, NEW storage
    PROVE  IsSpread(loads, [n \in Nodes |-> 0], nodes, storage)
BY DEF IsSpread, Targets

\* A step of the thread counts the target it chooses, or counts nothing.
LEMMA StepCounts ==
    ASSUME Inv, NEW s \in Sessions, Step(s), ~StartThread(s)
    PROVE  /\ pc[s] \notin {"new", "starting"} /\ pc'[s] \notin {"new", "starting"}
           /\ job' = job
           /\ pending' = pending \/ \E n \in Targets : Assign(s, n)
<1> USE DEF Inv, TypeOK, Goto, Record, Migratable, page
<1>1. CASE NextGuest(s) \/ Complete(s)
  BY <1>1 DEF NextGuest, Complete
<1>2. CASE FailGuest(s) \/ IgnoreGuest(s) \/ PowerOff(s) \/ SeeTaskStopped(s) \/ GiveUp(s)
  BY <1>2 DEF FailGuest, IgnoreGuest, PowerOff, SeeTaskStopped, GiveUp
<1>3. ASSUME NEW n \in Targets, StartMigration(s, n) \/ StartRefused(s, n) \/ StartLost(s, n)
      PROVE  /\ pc[s] \notin {"new", "starting"} /\ pc'[s] \notin {"new", "starting"}
             /\ job' = job /\ Assign(s, n)
  BY <1>3 DEF StartMigration, StartRefused, StartLost, Assign
<1> QED BY <1>1, <1>2, <1>3 DEF Step

\* A target chosen among the cheapest is no dearer than a node that suits every
\* guest, and the others have not become cheaper.
LEMMA CheapestKeepsSpread ==
    ASSUME NEW loads \in [Nodes -> Nat], NEW c \in [Nodes -> Nat], NEW nodes \in SUBSET Nodes,
           NEW storage, NEW g \in Guests, NEW n \in Nodes,
           n \in Cheapest(loads, c, Compatible(g, nodes, storage)),
           IsSpread(loads, c, nodes, storage)
    PROVE  IsSpread(loads, Count(c, n), nodes, storage)
<1> SUFFICES ASSUME NEW k \in Targets, NEW m \in nodes,
                    Count(c, n)[k] > 0, \A h \in Guests : m \in storage[h]
             PROVE  Cost(loads, Count(c, n), k) - PendingWeight <= Cost(loads, Count(c, n), m)
  BY DEF IsSpread
<1>4. /\ m \in Nodes /\ k \in Nodes /\ PendingWeight \in Nat
      /\ Cost(loads, c, n) \in Nat /\ Cost(loads, c, m) \in Nat /\ Cost(loads, c, k) \in Nat
  BY CostGrows, EvacuationAssumptions DEF Targets
<1>5. /\ Cost(loads, c, m) <= Cost(loads, Count(c, n), m)
      /\ Cost(loads, Count(c, n), m) \in Nat
  BY <1>4, CostGrows
<1>6. CASE k = n
  <2>1. Cost(loads, Count(c, n), k) = Cost(loads, c, n) + PendingWeight
    BY <1>6, CostGrows
  <2>2. m \in Compatible(g, nodes, storage)
    BY DEF Compatible
  <2>3. Cost(loads, c, n) <= Cost(loads, c, m)
    BY <1>4, <2>2 DEF Cheapest
  <2> QED BY <1>4, <1>5, <2>1, <2>3
<1>7. CASE k # n
  <2>1. Cost(loads, Count(c, n), k) = Cost(loads, c, k)
    BY <1>4, <1>7, CostGrows
  <2>3. Count(c, n)[k] = c[k]
    BY <1>4, <1>7 DEF Count
  <2>2. Cost(loads, c, k) - PendingWeight <= Cost(loads, c, m)
    BY <2>3 DEF IsSpread
  <2> QED BY <1>4, <1>5, <2>1, <2>2
<1> QED BY <1>6, <1>7

\* The thread chooses among the cheapest.
LEMMA AssignSpreads ==
    ASSUME Inv, NEW s \in Sessions, NEW n \in Targets, Assign(s, n), Spread(s),
           job' = job, pc[s] \notin {"new", "starting"}, pc'[s] \notin {"new", "starting"}
    PROVE  Spread(s)'
<1>1. job[s] \in Job /\ Current(s) \in Guests /\ n \in Nodes
  <2>1. job[s] # None /\ Current(s) \in Guests
    BY SMT DEF Inv, SessionInv, Begun, Partition, Assign, Migratable
  <2> QED BY <2>1 DEF Inv, TypeOK, Targets
<1>2. /\ job[s].load \in [Nodes -> Nat] /\ job[s].avail \in SUBSET Nodes
  BY <1>1 DEF Job, Targets
<1>3. pending[s] \in [Nodes -> Nat] /\ pending'[s] = Count(pending[s], n)
  BY DEF Assign, Inv, TypeOK
<1>4. n \in Cheapest(job[s].load, pending[s],
                    Compatible(Current(s), job[s].avail, job[s].storage))
  BY DEF Assign
<1>5. IsSpread(job[s].load, pending[s], job[s].avail, job[s].storage)
  BY DEF Spread
<1>6. IsSpread(job[s].load, pending'[s], job[s].avail, job[s].storage)
  BY <1>1, <1>2, <1>3, <1>4, <1>5, CheapestKeepsSpread
<1> QED BY <1>6 DEF Spread

\* Everybody else leaves the counts alone, and the storage is read before
\* anything is counted.
LEMMA NextSpread ==
    ASSUME Inv, NEW s \in Sessions, Spread(s), [Next]_vars
    PROVE  Spread(s)'
<1>1. ASSUME pending'[s] = pending[s], job'[s] = job[s], pc'[s] = pc[s]
      PROVE  Spread(s)'
  BY <1>1 DEF Spread
<1>2. CASE Plan \/ ClosePlan \/ Collect \/ ChangeNodes \/ UNCHANGED vars
  BY <1>1, <1>2 DEF Plan, ClosePlan, Collect, ChangeNodes, vars
<1>3. CASE Restart
  <2>1. pc'[s] = pc[s] \/ (pc'[s] = "dead" /\ pc[s] # "new")
    BY <1>3, SMT DEF Restart, Live
  <2> QED BY <1>1, <1>3, <2>1 DEF Restart, Spread
<1>4. ASSUME NEW t \in Sessions, t # s, Confirm(t) \/ Step(t) PROVE Spread(s)'
  BY <1>1, <1>4, OneSession
<1>5. CASE Confirm(s) \/ StartThread(s)
  <2>1. /\ pending' = pending /\ pc[s] \in {"new", "starting"}
    BY <1>5 DEF Confirm, StartThread, Goto
  <2>2. pending'[s] = [n \in Nodes |-> 0]
    BY <2>1 DEF Spread
  <2> QED BY <2>2, NothingIsSpread DEF Spread
<1>6. CASE Step(s) /\ ~StartThread(s)
  <2>1. CASE pending' = pending
    BY <1>6, <2>1, StepCounts DEF Spread
  <2>2. ASSUME NEW n \in Targets, Assign(s, n) PROVE Spread(s)'
    BY <1>6, <2>2, StepCounts, AssignSpreads
  <2> QED BY <1>6, <2>1, <2>2, StepCounts
<1>7. ASSUME NEW g \in Guests, NEW status \in {"OK", "ERR"}, EndTask(g, status)
      PROVE  Spread(s)'
  BY <1>1, <1>7 DEF EndTask
<1> QED BY <1>2, <1>3, <1>4, <1>5, <1>6, <1>7 DEF Next

-----------------------------------------------------------------------------
(* The plan is followed.                                                   *)

Assigned(p) == {g \in Guests : p[g] # None}

\* A plan chooses as the thread does, and has all guests that still can be moved.
PlanOK(p, guests, nodes, loads, storage, at) ==
    /\ p \in [Guests -> Nodes \cup {None}]
    /\ Assigned(p) \subseteq guests
    /\ \A g \in Assigned(p) :
          p[g] \in Cheapest(loads, Sent(p, Earlier(Assigned(p), g)),
                           Compatible(g, nodes, storage))
    /\ \A g \in guests :
          at[g] = Src /\ g \notin Tagged /\ Compatible(g, nodes, storage) # {}
              => g \in Assigned(p)

ShownOK ==
    shown # None =>
        PlanOK(shown.target, shown.guests, shown.avail, shown.load, shown.storage, loc)

PromiseOK(s) ==
    PlanOK(job[s].promised, job[s].guests, job[s].avail, job[s].load, job[s].storage, loc)

\* What the session has counted, and where its guest in hand is going.
OnItsWay(s) ==
    pc[s] = "polling" =>
        /\ Current(s) \in Assigned(job[s].promised)
        /\ owner[Current(s)] = s => task[Current(s)] = job[s].promised[Current(s)]

InOrder(s) == \A h \in Dealt(s) \cup InHand(s), g \in left[s] : Place[h] < Place[g]

Undisturbed(s) == pc[s] \in Live /\ job[s].unchanged /\ doc[s].failed = 0

\* While the session is undisturbed, the guests behind it went by the plan.
Followed(s) ==
    Undisturbed(s) =>
        /\ \A g \in Guests : job[s].action[g] = "migrate"
        /\ PromiseOK(s)
        /\ Dealt(s) \subseteq Assigned(job[s].promised)
        /\ InOrder(s)
        /\ pc[s] \in {"guest", "polling"} =>
              \A h \in Dealt(s) : Place[h] < Place[Current(s)]
        /\ pending[s] = Sent(job[s].promised,
                             IF pc[s] = "polling" THEN Dealt(s) \cup {Current(s)} ELSE Dealt(s))
        /\ OnItsWay(s)

PlanInv == AllSpread /\ ShownOK /\ \A s \in Sessions : Followed(s)

\* A plan stays good while guests leave the node.
LEMMA PlanLasts ==
    ASSUME NEW p, NEW guests \in SUBSET Guests, NEW nodes, NEW loads, NEW storage,
           NEW at, NEW later, PlanOK(p, guests, nodes, loads, storage, at),
           \A g \in Guests : later[g] = Src => at[g] = Src
    PROVE  PlanOK(p, guests, nodes, loads, storage, later)
BY DEF PlanOK

\* No guest returns to the node.
LEMMA NobodyReturns ==
    ASSUME Inv, [Next]_vars, NEW g \in Guests, loc'[g] = Src
    PROVE  loc[g] = Src
<1>1. CASE loc' = loc
  BY <1>1
<1>2. ASSUME NEW h \in Guests, NEW status \in {"OK", "ERR"}, EndTask(h, status)
      PROVE  loc[g] = Src
  <2>1. task[h] \in Targets /\ Src \notin Targets
    BY <1>2 DEF EndTask, Inv, TypeOK, Targets
  <2> QED BY <1>2, <2>1 DEF EndTask, Inv, TypeOK
<1>3. ASSUME NEW s \in Sessions, Confirm(s) \/ Step(s) PROVE loc' = loc
  BY <1>3 DEF Confirm, Step, StartThread, NextGuest, Complete, FailGuest, IgnoreGuest,
     PowerOff, SeeTaskStopped, GiveUp, StartMigration, StartRefused, StartLost, cluster
<1>4. CASE Plan \/ ClosePlan \/ Collect \/ ChangeNodes \/ Restart \/ UNCHANGED vars
  BY <1>1, <1>4 DEF Plan, ClosePlan, Collect, ChangeNodes, Restart, vars, cluster
<1> QED BY <1>1, <1>2, <1>3, <1>4 DEF Next

\* What the page shows is a plan.
LEMMA PlanIsOK ==
    ASSUME Inv, Plan
    PROVE  ShownOK'
<1>1. PICK storage \in Storages, target \in [Guests -> avail \cup {None}] :
        /\ IsPlan(target, storage)
        /\ shown' = [guests |-> cached, avail |-> avail, load |-> load,
                     storage |-> storage, target |-> target]
  BY DEF Plan
<1>2. loc' = loc /\ cached \subseteq Guests /\ avail \subseteq Nodes
  BY DEF Plan, cluster, Inv, TypeOK, Targets
<1> DEFINE assigned == {g \in cached : g \notin Tagged /\ loc[g] = Src
                                       /\ Compatible(g, avail, storage) # {}}
<1>3. /\ \A g \in Guests \ assigned : target[g] = None
      /\ \A g \in assigned :
            target[g] \in Cheapest(load, Sent(target, Earlier(assigned, g)),
                                  Compatible(g, avail, storage))
  BY <1>1 DEF IsPlan
<1>4. assigned = Assigned(target)
  <2>1. None \notin Nodes
    BY EvacuationAssumptions
  <2>2. \A g \in assigned : g \in Guests /\ target[g] \in Nodes
    BY <1>2, <1>3 DEF Cheapest, Compatible
  <2> HIDE DEF assigned
  <2> QED BY <1>3, <2>1, <2>2 DEF Assigned
<1>6. PlanOK(target, cached, avail, load, storage, loc)
  <2>1. target \in [Guests -> Nodes \cup {None}]
    BY <1>2
  <2>2. Assigned(target) \subseteq cached
    BY <1>4
  <2>3. \A g \in Assigned(target) :
          target[g] \in Cheapest(load, Sent(target, Earlier(Assigned(target), g)),
                                Compatible(g, avail, storage))
    <3> HIDE DEF assigned
    <3> QED BY <1>3, <1>4
  <2>4. \A g \in cached :
          loc[g] = Src /\ g \notin Tagged /\ Compatible(g, avail, storage) # {}
              => g \in Assigned(target)
    BY <1>4
  <2> QED BY <2>1, <2>2, <2>3, <2>4 DEF PlanOK
<1> QED BY <1>1, <1>2, <1>6 DEF ShownOK

\* The document a session has begun.
LEMMA BegunDocument ==
    ASSUME Inv, NEW s \in Sessions, pc[s] # "new"
    PROVE  /\ SessionInv(s) /\ doc[s] \in Document /\ job[s] \in Job
           /\ doc[s].failed \in Nat /\ job[s].guests \in SUBSET Guests
<1>1. SessionInv(s) /\ doc[s] # None /\ job[s] # None
  BY DEF Inv, SessionInv, Begun
<1>2. doc[s] \in Document /\ job[s] \in Job
  BY <1>1 DEF Inv, TypeOK
<1> QED BY <1>1, <1>2 DEF Document, Job

\* What does not touch the session leaves it on the plan.
LEMMA PlanUntouched ==
    ASSUME Inv, [Next]_vars, NEW s \in Sessions, Followed(s),
           pc'[s] = pc[s], job'[s] = job[s], left'[s] = left[s],
           pending'[s] = pending[s], doc'[s] = doc[s],
           OnItsWay(s) => OnItsWay(s)'
    PROVE  Followed(s)'
<1> SUFFICES ASSUME Undisturbed(s)' PROVE Followed(s)'
  BY DEF Followed
<1>1. Undisturbed(s)
  BY DEF Undisturbed
<1>2. job[s].guests \in SUBSET Guests
  BY <1>1, BegunDocument DEF Undisturbed, Live
<1>3. PromiseOK(s)'
  BY <1>1, <1>2, PlanLasts, NobodyReturns DEF Followed, PromiseOK
<1>4. Dealt(s)' = Dealt(s) /\ InHand(s)' = InHand(s) /\ Current(s)' = Current(s)
  BY DEF Dealt, Having, InHand, Current
<1>5. InOrder(s)'
  BY <1>1, <1>4 DEF Followed, InOrder
<1> QED BY <1>1, <1>3, <1>4, <1>5 DEF Followed

\* A failure ends what the plan promises.
LEMMA FailureDisturbs ==
    ASSUME Inv, NEW s \in Sessions, pc[s] \in {"guest", "polling"}, Record(s, "failed")
    PROVE  Followed(s)'
<1>1. doc[s].failed \in Nat /\ doc'[s] = Counted(doc[s], Current(s), "failed")
  <2>1. doc[s].failed \in Nat
    BY BegunDocument
  <2> QED BY <2>1 DEF Record, WriteSession, Inv, TypeOK
<1>2. doc'[s].failed = doc[s].failed + 1
  <2>1. "failed" \notin Good
    BY DEF Good
  <2> QED BY <1>1, <2>1 DEF Counted
<1> QED BY <1>1, <1>2 DEF Followed, Undisturbed

\* A guest dealt with joins the others.
LEMMA DealtWith ==
    ASSUME Inv, NEW s \in Sessions, NEW result \in Good,
           pc[s] \in {"guest", "polling"}, Record(s, result)
    PROVE  /\ pc'[s] = "head" /\ doc'[s].failed = doc[s].failed
           /\ Dealt(s)' = Dealt(s) \cup {Current(s)} /\ InHand(s)' = {}
<1>1. /\ pc'[s] = "head" /\ doc'[s] = Counted(doc[s], Current(s), result)
  BY DEF Record, WriteSession, Inv, TypeOK
<1>2. SessionInv(s) /\ doc[s] \in Document
  BY BegunDocument
<1>3. Current(s) \in Guests /\ Current(s) \notin Dealt(s)
  BY <1>2, SMT DEF SessionInv, Partition, InHand, Live
<1>4. Having(doc'[s], Good \cup {"failed"})
        = Having(doc[s], Good \cup {"failed"}) \cup {Current(s)}
  <2> DEFINE g == Current(s)
             d == doc[s]
  <2>1. g \in Guests /\ d \in Document /\ g \notin Having(d, Good \cup {"failed"})
    BY <1>2, <1>3 DEF Dealt
  <2>2. result \in Good \cup {"failed"}
    OBVIOUS
  <2> HIDE DEF g, d
  <2>3. Having(Counted(d, g, result), Good \cup {"failed"})
          = Having(d, Good \cup {"failed"}) \cup {g}
    BY <2>1, <2>2, CountedDocument
  <2> QED BY <1>1, <2>3 DEF g, d
<1> QED BY <1>1, <1>4 DEF Counted, Dealt, InHand

\* A session begins with the plan that was on the page.
LEMMA ConfirmFollows ==
    ASSUME Inv, NEW s \in Sessions, Confirm(s), ShownOK, Spread(s)
    PROVE  Followed(s)'
<1> SUFFICES ASSUME Undisturbed(s)' PROVE Followed(s)'
  BY DEF Followed
<1>1. PICK action \in [Guests -> Actions], own \in [Guests -> shown.avail \cup {None}] :
        job' = [job EXCEPT ![s] =
              [guests |-> cached, avail |-> avail, load |-> load,
               storage |-> shown.storage, action |-> action, promised |-> shown.target,
               unchanged |-> /\ shown.guests = cached /\ shown.avail = avail
                             /\ shown.load = load
                             /\ \A g \in Guests : action[g] = "migrate" /\ own[g] = None]]
  BY DEF Confirm
<1>2. /\ pc[s] = "new" /\ pc'[s] = "starting" /\ doc'[s] = Fresh /\ left'[s] = cached
      /\ shown # None /\ loc' = loc /\ pending' = pending
  BY DEF Confirm, Inv, TypeOK, cluster
<1> DEFINE unchanged == /\ shown.guests = cached /\ shown.avail = avail
                        /\ shown.load = load
                        /\ \A g \in Guests : action[g] = "migrate" /\ own[g] = None
<1>5. /\ job'[s].guests = cached /\ job'[s].avail = avail /\ job'[s].load = load
      /\ job'[s].storage = shown.storage /\ job'[s].action = action
      /\ job'[s].promised = shown.target /\ job'[s].unchanged = unchanged
  <2> HIDE DEF unchanged
  <2>1. job' = [job EXCEPT ![s] = [guests |-> cached, avail |-> avail, load |-> load,
                   storage |-> shown.storage, action |-> action,
                   promised |-> shown.target, unchanged |-> unchanged]]
    BY <1>1 DEF unchanged
  <2> QED BY <2>1 DEF Inv, TypeOK
<1>6. unchanged
  <2> HIDE DEF unchanged
  <2> QED BY <1>5 DEF Undisturbed
<1>7. PromiseOK(s)'
  <2>1. shown.guests = cached /\ shown.avail = avail /\ shown.load = load
    BY <1>6
  <2> HIDE DEF unchanged
  <2> QED BY <1>2, <1>5, <2>1 DEF ShownOK, PromiseOK
<1>8. \A g \in Guests : job'[s].action[g] = "migrate"
  <2>1. \A g \in Guests : action[g] = "migrate"
    BY <1>6
  <2> HIDE DEF unchanged
  <2> QED BY <1>5, <2>1
<1>9. Dealt(s)' = {} /\ InHand(s)' = {}
  BY <1>2, FreshDocument DEF Dealt, InHand
<1> HIDE DEF unchanged
<1>10. InOrder(s)' /\ OnItsWay(s)'
  BY <1>2, <1>9 DEF InOrder, OnItsWay
<1>11. \A p : Sent(p, {}) = [n \in Nodes |-> 0]
  <2>1. \A p, n : {h \in {} : p[h] = n} = {}
    OBVIOUS
  <2> QED BY <2>1, FS_EmptySet DEF Sent
<1>12. pending'[s] = Sent(job'[s].promised, {})
  BY <1>2, <1>11 DEF Spread
<1> QED BY <1>2, <1>7, <1>8, <1>9, <1>10, <1>12 DEF Followed

\* The next guest is the first of those that are left.
LEMMA NextGuestFollows ==
    ASSUME Inv, NEW s \in Sessions, NextGuest(s), Followed(s)
    PROVE  Followed(s)'
<1> SUFFICES ASSUME Undisturbed(s)' PROVE Followed(s)'
  BY DEF Followed
<1>1. /\ pc[s] = "head" /\ pc'[s] = "guest"
      /\ UNCHANGED <<loc, job, pending>>
  BY DEF NextGuest, Goto, cluster, Inv, TypeOK
<1>2. PICK g \in left[s] : /\ \A h \in left[s] : Place[g] <= Place[h]
                           /\ left' = [left EXCEPT ![s] = @ \ {g}]
                           /\ doc' = [doc EXCEPT ![s] = [doc[s] EXCEPT !.current = g]]
  BY DEF NextGuest, WriteSession
<1>3. doc[s] \in Document /\ left[s] \in SUBSET Guests
  BY <1>1, BegunDocument DEF Inv, TypeOK
<1>4. left'[s] = left[s] \ {g} /\ doc'[s] = [doc[s] EXCEPT !.current = g]
  BY <1>2 DEF Inv, TypeOK
<1>5. /\ doc'[s].failed = doc[s].failed /\ doc'[s].results = doc[s].results
      /\ Current(s)' = g
  BY <1>3, <1>4 DEF Document, Current
<1>6. Undisturbed(s)
  BY <1>1, <1>5 DEF Undisturbed, Live
<1>7. Dealt(s)' = Dealt(s) /\ InHand(s) = {} /\ InHand(s)' = {g}
  BY <1>1, <1>5, SameResults DEF Dealt, InHand
<1>8. \A h \in Dealt(s) : Place[h] < Place[g]
  BY <1>6 DEF Followed, InOrder
<1>9. InOrder(s)'
  <2>1. \A h \in left'[s] : Place[g] < Place[h]
    <3> SUFFICES ASSUME NEW h \in left'[s] PROVE Place[g] < Place[h]
      OBVIOUS
    <3>1. h \in left[s] /\ h # g /\ h \in Guests /\ g \in Guests
      BY <1>3, <1>4
    <3>2. Place[g] # Place[h] /\ Place[g] \in Nat /\ Place[h] \in Nat
      BY <3>1, EvacuationAssumptions
    <3> QED BY <1>2, <3>1, <3>2
  <2>2. \A h \in Dealt(s), k \in left'[s] : Place[h] < Place[k]
    BY <1>4, <1>6 DEF Followed, InOrder
  <2> QED BY <1>7, <2>1, <2>2 DEF InOrder
<1>10. PromiseOK(s)'
  BY <1>1, <1>6 DEF Followed, PromiseOK
<1> QED BY <1>1, <1>5, <1>6, <1>7, <1>8, <1>9, <1>10 DEF Followed, OnItsWay

\* One more guest sent to n.
LEMMA SentOneMore ==
    ASSUME NEW p, NEW S \in SUBSET Guests, NEW g \in Guests, g \notin S,
           p[g] \in Nodes
    PROVE  Count(Sent(p, S), p[g]) = Sent(p, S \cup {g})
<1> SUFFICES ASSUME NEW n \in Nodes
             PROVE  (IF n = p[g] THEN Cardinality({h \in S : p[h] = n}) + 1
                     ELSE Cardinality({h \in S : p[h] = n}))
                      = Cardinality({h \in S \cup {g} : p[h] = n})
  BY DEF Count, Sent
<1>1. IsFiniteSet({h \in S : p[h] = n})
  BY FS_Subset, EvacuationAssumptions
<1>2. CASE n = p[g]
  <2>1. {h \in S \cup {g} : p[h] = n} = {h \in S : p[h] = n} \cup {g}
    BY <1>2
  <2>2. g \notin {h \in S : p[h] = n}
    OBVIOUS
  <2> QED BY <1>1, <1>2, <2>1, <2>2, FS_AddElement
<1>3. CASE n # p[g]
  <2>1. {h \in S \cup {g} : p[h] = n} = {h \in S : p[h] = n}
    BY <1>3
  <2> QED BY <1>3, <2>1
<1> QED BY <1>2, <1>3

\* The thread's counts are those of the plan for the guests before this one,
\* and so is its choice.
LEMMA MigrationFollows ==
    ASSUME Inv, NEW s \in Sessions, NEW n \in Targets, StartMigration(s, n), Followed(s)
    PROVE  Followed(s)'
<1> SUFFICES ASSUME Undisturbed(s)' PROVE Followed(s)'
  BY DEF Followed
<1> DEFINE g == Current(s)
           p == job[s].promised
<1>1. /\ pc[s] = "guest" /\ pc'[s] = "polling"
      /\ UNCHANGED <<loc, job, left, doc>>
      /\ loc[g] = Src /\ g \notin Tagged
      /\ n \in Cheapest(job[s].load, pending[s],
                         Compatible(g, job[s].avail, job[s].storage))
  BY DEF StartMigration, Assign, Migratable, page, Inv, TypeOK
<1>2. Undisturbed(s) /\ SessionInv(s)
  BY <1>1, BegunDocument DEF Undisturbed, Live
<1>3. /\ Dealt(s)' = Dealt(s) /\ Current(s)' = g
      /\ InHand(s) = {g} /\ InHand(s)' = {g}
  BY <1>1 DEF Dealt, Having, InHand, Current
<1>4. /\ g \in Guests /\ g \in job[s].guests /\ g \notin Dealt(s)
      /\ Dealt(s) \in SUBSET Guests
      /\ job[s].guests = Dealt(s) \cup left[s] \cup {g}
  <2>1. Dealt(s) \cup left[s] \cup InHand(s) = job[s].guests
        /\ InHand(s) \cap (Dealt(s) \cup left[s]) = {} /\ Current(s) \in Guests
    BY <1>1, <1>2, SMT DEF SessionInv, Partition, Live
  <2> HIDE DEF g
  <2> QED BY <1>3, <2>1 DEF g, Dealt, Having
<1>5. task'[g] = n /\ pending'[s] = Count(pending[s], n)
  BY <1>4 DEF StartMigration, Assign, Inv, TypeOK
<1> HIDE DEF g, p
<1>6. PlanOK(p, job[s].guests, job[s].avail, job[s].load, job[s].storage, loc)
      /\ Dealt(s) \subseteq Assigned(p)
      /\ pending[s] = Sent(p, Dealt(s)) /\ InOrder(s)
      /\ \A h \in Dealt(s) : Place[h] < Place[g]
  BY <1>1, <1>2 DEF Followed, PromiseOK, p, g
<1>7. g \in Assigned(p)
  <2>1. Compatible(g, job[s].avail, job[s].storage) # {}
    BY <1>1 DEF Cheapest
  <2> QED BY <1>1, <1>4, <1>6, <2>1 DEF PlanOK
<1>8. Earlier(Assigned(p), g) = Dealt(s)
  <2>1. \A h \in left[s] : Place[g] < Place[h]
    BY <1>3, <1>6 DEF InOrder
  <2>2. \A h \in Guests : Place[h] \in Nat
    BY EvacuationAssumptions
  <2>3. ASSUME NEW h \in Assigned(p), Place[h] < Place[g] PROVE h \in Dealt(s)
    <3>1. h \in Dealt(s) \cup left[s] \cup {g} /\ h \in Guests
      BY <1>4, <1>6 DEF PlanOK, Assigned
    <3> QED BY <1>4, <2>1, <2>2, <2>3, <3>1
  <2> QED BY <1>6, <2>3 DEF Earlier
<1>9. p[g] = n
  <2>1. p[g] \in Cheapest(job[s].load, pending[s],
                         Compatible(g, job[s].avail, job[s].storage))
    BY <1>6, <1>7, <1>8 DEF PlanOK
  <2>2. pending[s] \in [Nodes -> Nat]
    BY DEF Inv, TypeOK
  <2>3. /\ Compatible(g, job[s].avail, job[s].storage) \in SUBSET Nodes
        /\ job[s].load \in [Nodes -> Nat]
    <3>1. job[s] \in Job
      BY <1>1, BegunDocument
    <3> QED BY <3>1 DEF Job, Targets, Compatible
  <2> QED BY <1>1, <2>1, <2>2, <2>3, CheapestIsOne
<1>10. pending'[s] = Sent(p, Dealt(s) \cup {g})
  BY <1>4, <1>5, <1>6, <1>9, SentOneMore DEF Targets
<1>11. OnItsWay(s)'
  BY <1>1, <1>3, <1>5, <1>7, <1>9 DEF OnItsWay, p
<1>12. InOrder(s)'
  BY <1>1, <1>3, <1>6 DEF InOrder
<1>13. /\ job'[s].promised = p /\ Current(s)' = g
       /\ \A h \in Guests : job'[s].action[h] = "migrate"
       /\ PromiseOK(s)'
       /\ Dealt(s)' \subseteq Assigned(job'[s].promised)
       /\ \A h \in Dealt(s)' : Place[h] < Place[Current(s)']
  BY <1>1, <1>2, <1>3, <1>6 DEF Followed, PromiseOK, p
<1> QED BY <1>1, <1>3, <1>10, <1>11, <1>12, <1>13 DEF Followed

\* The session's own steps.
LEMMA StepFollows ==
    ASSUME Inv, NEW s \in Sessions, Step(s), Followed(s)
    PROVE  Followed(s)'
<1>1. CASE StartThread(s)
  <2> SUFFICES ASSUME Undisturbed(s)' PROVE Followed(s)'
    BY DEF Followed
  <2>1. /\ pc[s] = "starting" /\ pc'[s] = "head" /\ UNCHANGED <<loc, left, pending>>
        /\ doc'[s] = [doc[s] EXCEPT !.status = "running"]
    BY <1>1 DEF StartThread, Goto, WriteSession, cluster, Inv, TypeOK
  <2>2. doc[s] \in Document /\ job[s] \in Job
    BY <2>1, BegunDocument
  <2>3. doc'[s].failed = doc[s].failed /\ doc'[s].results = doc[s].results
    BY <2>1, <2>2 DEF Document
  <2>8. PICK storage \in Storages : job'[s] = Found(job[s], storage)
    BY <1>1 DEF StartThread, Inv, TypeOK
  <2>9. job[s].unchanged /\ storage = job[s].storage
    <3>1. job'[s].unchanged
      BY DEF Undisturbed
    <3>2. Found(job[s], storage).unchanged = (job[s].unchanged /\ storage = job[s].storage)
      BY <2>2, FoundJob
    <3> QED BY <2>8, <3>1, <3>2, Zenon
  <2>10. /\ job'[s].guests = job[s].guests /\ job'[s].avail = job[s].avail
         /\ job'[s].load = job[s].load /\ job'[s].storage = job[s].storage
         /\ job'[s].action = job[s].action /\ job'[s].promised = job[s].promised
    BY <2>2, <2>8, <2>9, FoundJob
  <2>4. Undisturbed(s)
    BY <2>1, <2>3, <2>9 DEF Undisturbed, Live
  <2>5. Dealt(s)' = Dealt(s)
    BY <2>3, SameResults DEF Dealt
  <2>6. InHand(s) = {} /\ InHand(s)' = {}
    BY <2>1 DEF InHand
  <2>7. InOrder(s)'
    BY <2>1, <2>4, <2>5, <2>6 DEF Followed, InOrder
  <2>11. PromiseOK(s)'
    BY <2>1, <2>4, <2>10 DEF Followed, PromiseOK
  <2> QED BY <2>1, <2>4, <2>5, <2>6, <2>7, <2>10, <2>11 DEF Followed, OnItsWay
<1>2. CASE NextGuest(s)
  BY <1>2, NextGuestFollows
<1>3. CASE Complete(s)
  <2>1. pc'[s] = "done"
    BY <1>3 DEF Complete, Goto, Inv, TypeOK
  <2> QED BY <2>1 DEF Followed, Undisturbed, Live
<1>4. CASE IgnoreGuest(s) \/ PowerOff(s)
  <2>1. PICK result \in Good : Record(s, result)
    BY <1>4 DEF IgnoreGuest, PowerOff, Good
  <2>2. /\ pc[s] = "guest" /\ job' = job /\ Current(s) \in Guests
        /\ job[s].action[Current(s)] # "migrate"
    <3>1. /\ pc[s] = "guest" /\ job' = job /\ job[s].action[Current(s)] # "migrate"
      BY <1>4 DEF IgnoreGuest, PowerOff, Migratable
    <3> QED BY <3>1, InHandIsFree
  <2>3. doc'[s].failed = doc[s].failed
    BY <2>1, <2>2, DealtWith
  <2> QED BY <2>2, <2>3 DEF Followed, Undisturbed, Live
<1>5. CASE SeeTaskStopped(s)
  <2>1. pc[s] = "polling" /\ UNCHANGED <<loc, job, left, pending>>
        /\ Record(s, ResultOf(exit[s]))
    BY <1>5 DEF SeeTaskStopped, cluster
  <2>2. CASE ResultOf(exit[s]) = "failed"
    BY <2>1, <2>2, FailureDisturbs
  <2>3. CASE ResultOf(exit[s]) = "migrated"
    <3> SUFFICES ASSUME Undisturbed(s)' PROVE Followed(s)'
      BY DEF Followed
    <3>1. "migrated" \in Good
      BY DEF Good
    <3>2. /\ pc'[s] = "head" /\ doc'[s].failed = doc[s].failed
          /\ Dealt(s)' = Dealt(s) \cup {Current(s)} /\ InHand(s)' = {}
      BY <2>1, <2>3, <3>1, DealtWith
    <3>3. Undisturbed(s) /\ InHand(s) = {Current(s)}
      BY <2>1, <3>2 DEF Undisturbed, Live, InHand
    <3>4. Current(s) \in Assigned(job[s].promised)
      BY <2>1, <3>3 DEF Followed, OnItsWay
    <3>5. InOrder(s)'
      BY <2>1, <3>2, <3>3 DEF Followed, InOrder
    <3>6. PromiseOK(s)'
      BY <2>1, <3>3 DEF Followed, PromiseOK
    <3> QED BY <2>1, <3>2, <3>3, <3>4, <3>5, <3>6 DEF Followed, OnItsWay
  <2> QED BY <2>2, <2>3 DEF ResultOf
<1>6. CASE FailGuest(s) \/ GiveUp(s)
  BY <1>6, FailureDisturbs DEF FailGuest, GiveUp
<1>7. ASSUME NEW n \in Targets, StartRefused(s, n) \/ StartLost(s, n)
      PROVE  Followed(s)'
  BY <1>7, FailureDisturbs DEF StartRefused, StartLost, Assign, Migratable
<1>8. ASSUME NEW n \in Targets, StartMigration(s, n) PROVE Followed(s)'
  BY <1>8, MigrationFollows
<1> QED BY <1>1, <1>2, <1>3, <1>4, <1>5, <1>6, <1>7, <1>8 DEF Step

\* A task taken over by another session is no longer this one's.
LEMMA OthersFollow ==
    ASSUME Inv, NEW s \in Sessions, NEW t \in Sessions, t # s, Step(t) \/ Confirm(t),
           Followed(s)
    PROVE  Followed(s)'
<1>1. /\ pc'[s] = pc[s] /\ job'[s] = job[s] /\ left'[s] = left[s]
      /\ pending'[s] = pending[s] /\ doc'[s] = doc[s]
  BY OneSession
<1>2. \A g \in Guests : owner'[g] = s => owner[g] = s /\ task'[g] = task[g]
  <2>1. CASE UNCHANGED <<task, owner>>
    BY <2>1
  <2>2. ASSUME NEW n \in Targets, StartMigration(t, n) \/ StartLost(t, n)
        PROVE  \A g \in Guests : owner'[g] = s => owner[g] = s /\ task'[g] = task[g]
    BY <2>2 DEF StartMigration, StartLost, Inv, TypeOK
  <2>3. CASE Confirm(t)
    BY <2>1, <2>3 DEF Confirm, cluster
  <2>4. CASE StartThread(t) \/ NextGuest(t) \/ Complete(t) \/ FailGuest(t) \/ IgnoreGuest(t)
             \/ PowerOff(t) \/ SeeTaskStopped(t) \/ GiveUp(t)
             \/ \E n \in Targets : StartRefused(t, n)
    BY <2>1, <2>4 DEF StartThread, NextGuest, Complete, FailGuest, IgnoreGuest, PowerOff,
       SeeTaskStopped, GiveUp, StartRefused, cluster
  <2> QED BY <2>2, <2>3, <2>4 DEF Step
<1>3. OnItsWay(s) => OnItsWay(s)'
  BY <1>1, <1>2 DEF OnItsWay, Current, Assigned
<1>4. [Next]_vars
  BY DEF Next
<1> QED BY <1>1, <1>3, <1>4, PlanUntouched

\* Every step of the system keeps to the plans.
LEMMA NextPlan == Inv /\ PlanInv /\ [Next]_vars => PlanInv'
<1> SUFFICES ASSUME Inv, PlanInv, [Next]_vars PROVE PlanInv'
  OBVIOUS
<1>1. AllSpread'
  BY NextSpread DEF PlanInv, AllSpread
<1>2. ShownOK'
  <2>1. CASE Plan
    BY <2>1, PlanIsOK
  <2>2. CASE shown' = None
    BY <2>2 DEF ShownOK
  <2>3. CASE shown' = shown
    <3> SUFFICES ASSUME shown # None
                 PROVE  PlanOK(shown.target, shown.guests, shown.avail, shown.load,
                                shown.storage, loc')
      BY <2>3 DEF ShownOK
    <3>1. shown.guests \in SUBSET Guests
      BY SMT DEF Inv, TypeOK
    <3>2. PlanOK(shown.target, shown.guests, shown.avail, shown.load, shown.storage, loc)
      BY DEF PlanInv, ShownOK
    <3> QED BY <3>1, <3>2, PlanLasts, NobodyReturns
  <2>4. Plan \/ shown' = None \/ shown' = shown
    <3>1. ASSUME NEW s \in Sessions, Step(s) PROVE shown' = shown
      BY <3>1 DEF Step, StartThread, NextGuest, Complete, FailGuest, IgnoreGuest, PowerOff,
         SeeTaskStopped, GiveUp, StartMigration, StartRefused, StartLost, page
    <3>2. ASSUME NEW s \in Sessions, Confirm(s) PROVE shown' = None
      BY <3>2 DEF Confirm
    <3>3. CASE ClosePlan \/ Collect \/ ChangeNodes \/ Restart \/ UNCHANGED vars
      BY <3>3 DEF ClosePlan, Collect, ChangeNodes, Restart, vars, page
    <3>4. ASSUME NEW g \in Guests, NEW status \in {"OK", "ERR"}, EndTask(g, status)
          PROVE  shown' = shown
      BY <3>4 DEF EndTask, page
    <3> QED BY <3>1, <3>2, <3>3, <3>4 DEF Next
  <2> QED BY <2>1, <2>2, <2>3, <2>4
<1>3. ASSUME NEW s \in Sessions PROVE Followed(s)'
  <2>1. Followed(s) /\ Spread(s)
    BY DEF PlanInv, AllSpread
  <2>2. CASE Confirm(s)
    BY <2>1, <2>2, ConfirmFollows DEF PlanInv
  <2>3. CASE Step(s)
    BY <2>1, <2>3, StepFollows
  <2>4. ASSUME NEW t \in Sessions, t # s, Confirm(t) \/ Step(t) PROVE Followed(s)'
    BY <2>1, <2>4, OthersFollow
  <2>5. CASE Restart
    <3>1. pc'[s] \notin Live
      BY <2>5, SMT DEF Restart, Live
    <3> QED BY <3>1 DEF Followed, Undisturbed
  <2>6. CASE Plan \/ ClosePlan \/ Collect \/ ChangeNodes \/ UNCHANGED vars
    <3>1. UNCHANGED <<task, owner, pc, job, left, pending, doc>>
      BY <2>6 DEF Plan, ClosePlan, Collect, ChangeNodes, vars, cluster
    <3>2. OnItsWay(s) => OnItsWay(s)'
      BY <3>1 DEF OnItsWay, Current
    <3> QED BY <2>1, <3>1, <3>2, PlanUntouched
  <2>7. ASSUME NEW g \in Guests, NEW status \in {"OK", "ERR"}, EndTask(g, status)
        PROVE  Followed(s)'
    <3>1. UNCHANGED <<pc, job, left, pending, doc>>
      BY <2>7 DEF EndTask
    <3>2. \A h \in Guests : owner'[h] = s => owner[h] = s /\ task'[h] = task[h]
      BY <2>7, EvacuationAssumptions DEF EndTask, Inv, TypeOK
    <3>3. OnItsWay(s) => OnItsWay(s)'
      BY <3>1, <3>2 DEF OnItsWay, Current, Assigned
    <3> QED BY <2>1, <3>1, <3>3, PlanUntouched
  <2> QED BY <2>2, <2>3, <2>4, <2>5, <2>6, <2>7 DEF Next
<1> QED BY <1>1, <1>2, <1>3 DEF PlanInv

\* The invariant of the plans holds in every behaviour.
LEMMA PlanInvariance == Spec => []PlanInv
<1>1. Init => PlanInv
  BY SMT DEF Init, PlanInv, AllSpread, Spread, ShownOK, Followed, Undisturbed, Live
<1>2. Inv /\ PlanInv /\ [Next]_vars => PlanInv'
  BY NextPlan
<1> QED BY <1>1, <1>2, Invariance, PTL DEF Spec

\* A plan confirmed as it stands is what happens, until something fails, whenever
\* the request finds the nodes and loads of the plan and the thread its storage:
\* although the thread plans again, guest by guest, while guests leave, loads
\* change and other sessions work.
THEOREM ConfirmedPlansAreFollowed == Spec => []PlanIsFollowed
<1>1. PlanInv => PlanIsFollowed
  BY DEF PlanInv, PlanIsFollowed, Followed, Undisturbed, OnItsWay, Live
<1> QED BY <1>1, PlanInvariance, PTL

-----------------------------------------------------------------------------
(* The plan on the page is spread.                                         *)

\* Of some guests one is the last.
LEMMA LastOfSome ==
    ASSUME NEW S \in SUBSET Guests, S # {}
    PROVE  \E g \in S : \A h \in S : Place[h] <= Place[g]
<1> DEFINE later(g) == {h \in S : Place[h] > Place[g]}
           T == {later(g) : g \in S}
<1>1. /\ IsFiniteSet(S) /\ FiniteSubsetsOf(S) = SUBSET S
      /\ \A g \in S : Place[g] \in Nat
  BY FS_Subset, FS_FiniteSubsetsOfFinite, EvacuationAssumptions
<1>2. T \subseteq FiniteSubsetsOf(S) /\ T # {}
  <2>1. \A g \in S : later(g) \in SUBSET S
    OBVIOUS
  <2> HIDE DEF later
  <2> QED BY <1>1, <2>1
<1>3. PICK x \in T : \A y \in T : <<y, x>> \notin StrictSubsetOrdering(S)
  <2> HIDE DEF T
  <2> QED BY <1>2, FS_StrictSubsetOrderingWellFounded, WFMin
<1>4. PICK g \in S : x = later(g)
  OBVIOUS
<1>5. ASSUME NEW h \in S, Place[h] > Place[g] PROVE FALSE
  <2>1. later(h) \subseteq later(g)
    BY <1>1, <1>5
  <2>2. h \in later(g) /\ h \notin later(h)
    BY <1>1, <1>5
  <2>3. /\ later(h) \in T /\ later(h) \in SUBSET S /\ later(g) \in SUBSET S
    OBVIOUS
  <2> HIDE DEF later, T
  <2>4. <<later(h), later(g)>> \in StrictSubsetOrdering(S)
    BY <2>1, <2>2, <2>3 DEF StrictSubsetOrdering
  <2> QED BY <1>3, <1>4, <2>3, <2>4
<1> QED BY <1>1, <1>5

\* A plan made by greedy choices is spread: its last guest for a node found no
\* cheaper one.
LEMMA PlanIsSpread ==
    ASSUME NEW p, NEW guests \in SUBSET Guests, NEW nodes \in SUBSET Targets,
           NEW loads \in [Nodes -> Nat], NEW storage, NEW at,
           PlanOK(p, guests, nodes, loads, storage, at)
    PROVE  IsSpread(loads, Sent(p, Guests), nodes, storage)
<1> SUFFICES ASSUME NEW n \in Targets, NEW m \in nodes,
                    Sent(p, Guests)[n] > 0, \A g \in Guests : m \in storage[g]
             PROVE  Cost(loads, Sent(p, Guests), n) - PendingWeight
                      <= Cost(loads, Sent(p, Guests), m)
  BY DEF IsSpread
<1> DEFINE S == {h \in Guests : p[h] = n}
<1>1. n \in Nodes /\ m \in Nodes /\ n # None /\ PendingWeight \in Nat
      /\ IsFiniteSet(Guests)
  BY EvacuationAssumptions DEF Targets
<1>2. S # {} /\ IsFiniteSet(S)
  <2>1. Sent(p, Guests)[n] = Cardinality(S)
    BY <1>1 DEF Sent
  <2> QED BY <1>1, <2>1, FS_EmptySet, FS_Subset
<1>3. PICK g \in S : \A h \in S : Place[h] <= Place[g]
  <2>1. S \in SUBSET Guests
    OBVIOUS
  <2> HIDE DEF S
  <2> QED BY <1>2, <2>1, LastOfSome
<1> DEFINE before == Earlier(Assigned(p), g)
           c == Sent(p, before)
           d == Sent(p, Guests)
<1>4. g \in Guests /\ p[g] = n /\ g \in Assigned(p) /\ before \subseteq Guests
  BY <1>1 DEF Assigned, Earlier
<1>5. n \in Cheapest(loads, c, Compatible(g, nodes, storage))
  BY <1>4 DEF PlanOK
<1>6. S = {h \in before : p[h] = n} \cup {g} /\ g \notin {h \in before : p[h] = n}
  <2>1. \A h \in Guests : Place[h] \in Nat
        /\ \A k \in Guests : Place[h] = Place[k] => h = k
    BY EvacuationAssumptions
  <2>2. ASSUME NEW h \in S, h # g PROVE h \in before
    <3>1. h \in Guests /\ p[h] = n /\ Place[h] # Place[g] /\ Place[h] <= Place[g]
      BY <1>3, <1>4, <2>1, <2>2
    <3> QED BY <1>1, <1>4, <2>1, <3>1 DEF Assigned, Earlier
  <2>3. g \notin before
    BY <1>4, <2>1 DEF Earlier
  <2> HIDE DEF before
  <2> QED BY <1>4, <2>2, <2>3
<1>7. d[n] = c[n] + 1 /\ c[n] \in Nat
  <2>1. IsFiniteSet({h \in before : p[h] = n})
    BY <1>1, <1>4, FS_Subset
  <2>2. Cardinality(S) = Cardinality({h \in before : p[h] = n}) + 1
        /\ Cardinality({h \in before : p[h] = n}) \in Nat
    <3> HIDE DEF S, before
    <3> QED BY <1>6, <2>1, FS_AddElement, FS_CardinalityType
  <2> HIDE DEF before
  <2> QED BY <1>1, <2>2 DEF Sent
<1>8. c[m] <= d[m] /\ c[m] \in Nat /\ d[m] \in Nat
  <2>1. {h \in before : p[h] = m} \subseteq {h \in Guests : p[h] = m}
    BY <1>4
  <2>2. IsFiniteSet({h \in Guests : p[h] = m})
    BY <1>1, FS_Subset
  <2>3. /\ Cardinality({h \in before : p[h] = m}) <= Cardinality({h \in Guests : p[h] = m})
        /\ Cardinality({h \in before : p[h] = m}) \in Nat
        /\ Cardinality({h \in Guests : p[h] = m}) \in Nat
    BY <2>1, <2>2, FS_Subset, FS_CardinalityType
  <2> HIDE DEF before
  <2> QED BY <1>1, <2>3 DEF Sent
<1>9. m \in Compatible(g, nodes, storage)
  BY <1>4 DEF Compatible
<1> HIDE DEF S, before, c, d
<1>10. /\ loads[n] \in Nat /\ loads[m] \in Nat
       /\ PendingWeight * c[n] \in Nat /\ PendingWeight * c[m] \in Nat
       /\ PendingWeight * d[m] \in Nat
       /\ PendingWeight * d[n] = PendingWeight * c[n] + PendingWeight
  BY <1>1, <1>7, <1>8
<1>11. PendingWeight * c[m] <= PendingWeight * d[m]
  BY <1>1, <1>8
<1>12. Cost(loads, c, n) <= Cost(loads, c, m)
  BY <1>5, <1>9, <1>10 DEF Cheapest, Cost
<1>13. Cost(loads, d, n) - PendingWeight <= Cost(loads, d, m)
  BY <1>1, <1>10, <1>11, <1>12 DEF Cost
<1> QED BY <1>13 DEF d

\* However loaded the nodes and whatever fails, neither the plan on the page
\* nor a thread gives a node its last guest while one that suits every guest
\* was cheaper.
THEOREM GuestsAreSpread == Spec => []AssignmentsAreSpread
<1>1. Inv /\ PlanInv => AssignmentsAreSpread
  <2> SUFFICES ASSUME Inv, PlanInv PROVE AssignmentsAreSpread
    OBVIOUS
  <2>1. \A s \in Sessions : pc[s] # "new" =>
           IsSpread(job[s].load, pending[s], job[s].avail, job[s].storage)
    BY DEF PlanInv, AllSpread, Spread
  <2>2. ASSUME shown # None
        PROVE  IsSpread(shown.load, Sent(shown.target, Guests), shown.avail, shown.storage)
    <3>1. /\ shown.guests \in SUBSET Guests /\ shown.avail \in SUBSET Targets
          /\ shown.load \in [Nodes -> Nat]
      BY <2>2, SMT DEF Inv, TypeOK
    <3>2. PlanOK(shown.target, shown.guests, shown.avail, shown.load, shown.storage, loc)
      BY <2>2 DEF PlanInv, ShownOK
    <3> QED BY <3>1, <3>2, PlanIsSpread
  <2> QED BY <2>1, <2>2 DEF AssignmentsAreSpread
<1> QED BY <1>1, PlanInvariance, Invariance, PTL
=============================================================================
