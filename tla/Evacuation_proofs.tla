------------------------- MODULE Evacuation_proofs --------------------------
(***************************************************************************)
(* What an evacuation reports, for any number of guests, nodes and         *)
(* sessions.  The invariant of a session relates the guests its loop has   *)
(* not reached, the one in hand and those with a result; what is known of  *)
(* a task that has stopped connects the results to the cluster.            *)
(***************************************************************************)
EXTENDS Evacuation, FiniteSetTheorems, TLAPS

InHand(s) == IF pc[s] \in {"guest", "polling"} THEN {Current(s)} ELSE {}

Dealt(s) == Having(doc[s], Good \cup {"failed"})

\* A session exists from its confirmation on.
Begun(s) ==
    /\ pc[s] = "new" => doc[s] = None /\ \A g \in Guests : owner[g] # s
    /\ pc[s] # "new" => doc[s] # None /\ job[s] # None

\* Every guest of the request is in one place of the loop.
Partition(s) ==
    /\ pc[s] \in {"guest", "polling"} => Current(s) \in Guests
    /\ pc[s] \in Live \cup {"done"} =>
          /\ Dealt(s) \cup left[s] \cup InHand(s) = job[s].guests
          /\ Dealt(s) \cap left[s] = {}
          /\ InHand(s) \cap (Dealt(s) \cup left[s]) = {}
    /\ pc[s] = "done" => left[s] = {}
    /\ doc[s] # None /\ doc[s].status = "completed" => pc[s] = "done"

Tallied(s) ==
    doc[s] # None =>
        /\ doc[s].successful = Cardinality(Having(doc[s], Good))
        /\ doc[s].failed = Cardinality(Having(doc[s], {"failed"}))

\* A stopped task is nobody's; if it ended well its guest has gone.
Stopped(s) ==
    exit[s] # None =>
        /\ pc[s] \in {"polling", "dead"}
        /\ pc[s] = "polling" =>
              /\ owner[Current(s)] # s
              /\ exit[s] = "OK" => loc[Current(s)] # Src

Honest(s) ==
    doc[s] # None => \A g \in Guests :
        /\ doc[s].results[g] = "migrated" => loc[g] # Src
        /\ doc[s].results[g] = "ignored" => job[s].action[g] = "ignore"
        /\ doc[s].results[g] = "off" => job[s].action[g] = "poweroff"

Alone(s) ==
    pc[s] \in Live => \A g \in Guests : owner[g] = s =>
        \/ pc[s] = "polling" /\ Current(s) = g
        \/ doc[s].results[g] = "failed"

SessionInv(s) ==
    /\ Begun(s) /\ Partition(s) /\ Tallied(s)
    /\ Stopped(s) /\ Honest(s) /\ Alone(s)

Inv == TypeOK /\ \A s \in Sessions : SessionInv(s)
-----------------------------------------------------------------------------
\* A new session has no results.
LEMMA FreshDocument ==
    /\ Fresh \in Document
    /\ Having(Fresh, Good \cup {"failed"}) = {}
    /\ Having(Fresh, Good) = {} /\ Having(Fresh, {"failed"}) = {}
BY EvacuationAssumptions, SMT
   DEF Fresh, NoResults, Document, Result, Good, Having

\* One more result: the document keeps its type and its counters their meaning.
LEMMA CountedDocument ==
    ASSUME NEW d \in Document, NEW g \in Guests, NEW result \in Good \cup {"failed"},
           g \notin Having(d, Good \cup {"failed"})
    PROVE  /\ Counted(d, g, result) \in Document
           /\ Counted(d, g, result).status = d.status
           /\ Counted(d, g, result).current = d.current
           /\ Counted(d, g, result).results = [d.results EXCEPT ![g] = result]
           /\ Having(Counted(d, g, result), Good \cup {"failed"})
                = Having(d, Good \cup {"failed"}) \cup {g}
           /\ (/\ d.successful = Cardinality(Having(d, Good))
               /\ d.failed = Cardinality(Having(d, {"failed"})))
              => (/\ Counted(d, g, result).successful
                       = Cardinality(Having(Counted(d, g, result), Good))
                  /\ Counted(d, g, result).failed
                       = Cardinality(Having(Counted(d, g, result), {"failed"})))
<1> DEFINE e == Counted(d, g, result)
<1>1. /\ e \in Document /\ e.status = d.status /\ e.current = d.current
      /\ e.results = [d.results EXCEPT ![g] = result]
      /\ e.successful = IF result \in Good THEN d.successful + 1 ELSE d.successful
      /\ e.failed = IF result \in Good THEN d.failed ELSE d.failed + 1
  <2>1. /\ e.status = d.status /\ e.current = d.current
        /\ e.results = [d.results EXCEPT ![g] = result]
    BY SMT DEF Counted, Document
  <2>2. /\ e.successful = IF result \in Good THEN d.successful + 1 ELSE d.successful
        /\ e.failed = IF result \in Good THEN d.failed ELSE d.failed + 1
    BY SMT DEF Counted, Document
  <2>3. [d.results EXCEPT ![g] = result] \in Result
    BY SMT DEF Document, Result
  <2>4. /\ (IF result \in Good THEN d.successful + 1 ELSE d.successful) \in Nat
        /\ (IF result \in Good THEN d.failed ELSE d.failed + 1) \in Nat
    BY SMT DEF Document
  <2>5. e \in Document
    BY <2>3, <2>4, SMT DEF Counted, Document
  <2> HIDE DEF e
  <2> QED BY <2>1, <2>2, <2>5
<1> HIDE DEF e
<1>2. Having(e, Good \cup {"failed"}) = Having(d, Good \cup {"failed"}) \cup {g}
  BY <1>1, SMT DEF Having, Document, Result, Good
<1>3. /\ IsFiniteSet(Having(d, Good)) /\ IsFiniteSet(Having(d, {"failed"}))
      /\ g \notin Having(d, Good) /\ g \notin Having(d, {"failed"})
  <2>1. Having(d, Good) \subseteq Guests /\ Having(d, {"failed"}) \subseteq Guests
    BY DEF Having
  <2>2. g \notin Having(d, Good) /\ g \notin Having(d, {"failed"})
    BY DEF Having
  <2> QED BY <2>1, <2>2, FS_Subset, EvacuationAssumptions
<1>4. CASE result \in Good
  <2>1. /\ Having(e, Good) = Having(d, Good) \cup {g}
        /\ Having(e, {"failed"}) = Having(d, {"failed"})
    BY <1>1, <1>3, <1>4, SMT DEF Having, Document, Result, Good
  <2>2. Cardinality(Having(e, Good)) = Cardinality(Having(d, Good)) + 1
    BY <1>3, <2>1, FS_AddElement
  <2> QED BY <1>1, <1>2, <1>4, <2>1, <2>2 DEF e
<1>5. CASE result = "failed"
  <2>1. /\ Having(e, {"failed"}) = Having(d, {"failed"}) \cup {g}
        /\ Having(e, Good) = Having(d, Good)
    BY <1>1, <1>3, <1>5, SMT DEF Having, Document, Result, Good
  <2>2. Cardinality(Having(e, {"failed"})) = Cardinality(Having(d, {"failed"})) + 1
    BY <1>3, <2>1, FS_AddElement
  <2>3. result \notin Good
    BY <1>5, SMT DEF Good
  <2> QED BY <1>1, <1>2, <2>1, <2>2, <2>3 DEF e
<1> QED BY <1>1, <1>2, <1>4, <1>5 DEF e

\* What another session or the cluster does to a session is to take guests off
\* its node or out of its hands.
LEMMA Untouched ==
    ASSUME NEW s \in Sessions, SessionInv(s),
           pc'[s] = pc[s], doc'[s] = doc[s], job'[s] = job[s],
           left'[s] = left[s], exit'[s] = exit[s],
           \A g \in Guests : owner'[g] = s => owner[g] = s,
           \A g \in Guests : loc[g] # Src => loc'[g] # Src
    PROVE  SessionInv(s)'
<1>1. Begun(s)'
  BY DEF SessionInv, Begun
<1>2. Partition(s)'
  BY DEF SessionInv, Partition, Dealt, InHand, Current, Having
<1>3. Tallied(s)'
  BY DEF SessionInv, Tallied, Having
<1>4. Stopped(s)'
  BY DEF SessionInv, Stopped, Partition, Current
<1>5. Honest(s)' /\ Alone(s)'
  BY DEF SessionInv, Honest, Alone, Current
<1> QED BY <1>1, <1>2, <1>3, <1>4, <1>5 DEF SessionInv

\* A write that leaves the results alone.
LEMMA SameResults ==
    ASSUME NEW d, NEW e, e.results = d.results, NEW set
    PROVE  Having(e, set) = Having(d, set)
BY DEF Having

\* A session that records a result for the guest in hand.
LEMMA RecordStep ==
    ASSUME Inv, NEW s \in Sessions, NEW result \in Good \cup {"failed"},
           pc[s] \in {"guest", "polling"}, Record(s, result),
           job' = job, left' = left, loc' = loc,
           \/ owner' = owner
           \/ owner' = [owner EXCEPT ![Current(s)] = s] /\ result = "failed",
           result # "failed" => owner[Current(s)] # s,
           result = "migrated" => loc[Current(s)] # Src,
           result = "ignored" => job[s].action[Current(s)] = "ignore",
           result = "off" => job[s].action[Current(s)] = "poweroff"
    PROVE  /\ pc' \in [Sessions -> Live \cup {"new", "done", "dead"}]
           /\ exit' \in [Sessions -> {"OK", "ERR", None}]
           /\ doc' \in [Sessions -> Document \cup {None}]
           /\ \A t \in Sessions : SessionInv(t)'
<1> DEFINE g == Current(s)
           e == Counted(doc[s], g, result)
<1>1. /\ SessionInv(s) /\ TypeOK
      /\ doc[s] \in Document /\ g \in Guests
      /\ g \notin Having(doc[s], Good \cup {"failed"})
  <2>1. doc[s] \in Document
    BY DEF Inv, SessionInv, Begun, TypeOK
  <2>2. g \in Guests /\ g \notin Dealt(s)
    BY SMT DEF Inv, SessionInv, Partition, InHand, Live
  <2> QED BY <2>1, <2>2 DEF Inv, Dealt
<1>2. /\ e \in Document /\ e.status = doc[s].status /\ e.current = doc[s].current
      /\ e.results = [doc[s].results EXCEPT ![g] = result]
      /\ Having(e, Good \cup {"failed"}) = Having(doc[s], Good \cup {"failed"}) \cup {g}
      /\ (/\ doc[s].successful = Cardinality(Having(doc[s], Good))
          /\ doc[s].failed = Cardinality(Having(doc[s], {"failed"})))
         => (/\ e.successful = Cardinality(Having(e, Good))
             /\ e.failed = Cardinality(Having(e, {"failed"})))
  <2> HIDE DEF g
  <2>1. doc[s] \in Document /\ g \in Guests
        /\ g \notin Having(doc[s], Good \cup {"failed"})
    BY <1>1
  <2>2. e \in Document /\ e.status = doc[s].status /\ e.current = doc[s].current
    BY <2>1, CountedDocument
  <2>3. e.results = [doc[s].results EXCEPT ![g] = result]
    BY SMT DEF Counted
  <2>4. Having(e, Good \cup {"failed"}) = Having(doc[s], Good \cup {"failed"}) \cup {g}
    BY <2>1, CountedDocument
  <2>5. (/\ doc[s].successful = Cardinality(Having(doc[s], Good))
         /\ doc[s].failed = Cardinality(Having(doc[s], {"failed"})))
        => (/\ e.successful = Cardinality(Having(e, Good))
            /\ e.failed = Cardinality(Having(e, {"failed"})))
    BY <2>1, CountedDocument
  <2> HIDE DEF e
  <2> QED BY <2>2, <2>3, <2>4, <2>5, Zenon
<1>3. /\ pc' = [pc EXCEPT ![s] = "head"] /\ exit' = [exit EXCEPT ![s] = None]
      /\ doc' = [doc EXCEPT ![s] = e]
  BY DEF Record, WriteSession
<1> HIDE DEF e
<1>4. /\ pc' \in [Sessions -> Live \cup {"new", "done", "dead"}]
      /\ exit' \in [Sessions -> {"OK", "ERR", None}]
      /\ doc' \in [Sessions -> Document \cup {None}]
  BY <1>1, <1>2, <1>3, SMT DEF TypeOK, Live
<1>5. pc'[s] = "head" /\ exit'[s] = None /\ doc'[s] = e
  BY <1>1, <1>3 DEF TypeOK
<1>6. doc'[s] # None /\ None # "migrated" /\ None # "ignored" /\ None # "off"
      /\ None # "failed"
  BY <1>2, <1>5, MarkersAreNoDocuments, EvacuationAssumptions
<1>7. doc[s].results \in Result
  BY <1>1, SMT DEF Document
<1>8. SessionInv(s)'
  <2>1. Begun(s)'
    BY <1>1, <1>5, <1>6, SMT DEF SessionInv, Begun
  <2>2. Partition(s)'
    <3>1. Dealt(s)' = Dealt(s) \cup {g}
      BY <1>2, <1>5 DEF Dealt
    <3>3. InHand(s) = {g} /\ InHand(s)' = {}
      BY <1>5, SMT DEF InHand
    <3>2. e.status # "completed"
      BY <1>1, <1>2, MarkersAreNoDocuments, SMT DEF SessionInv, Partition
    <3> HIDE DEF g
    <3> QED BY <1>1, <1>5, <3>1, <3>2, <3>3, SMT DEF SessionInv, Partition, Live
  <2>3. Tallied(s)'
    <3>1. doc[s] # None
      BY <1>1, MarkersAreNoDocuments
    <3> QED BY <1>1, <1>2, <1>5, <3>1 DEF SessionInv, Tallied
  <2>4. Stopped(s)'
    BY <1>5 DEF Stopped
  <2>5. Honest(s)'
    <3>1. doc[s] # None
      BY <1>1, MarkersAreNoDocuments
    <3>2. \A h \in Guests : e.results[h] = IF h = g THEN result ELSE doc[s].results[h]
      BY <1>1, <1>2, <1>7, SMT DEF Result
    <3> HIDE DEF g
    <3> QED BY <1>1, <1>5, <3>1, <3>2, SMT DEF SessionInv, Honest, g
  <2>6. Alone(s)'
    <3> SUFFICES ASSUME NEW h \in Guests, owner'[h] = s PROVE e.results[h] = "failed"
      BY <1>5 DEF Alone
    <3>1. CASE h = g
      BY <1>1, <1>2, <1>7, <3>1, SMT DEF Result, Good
    <3>2. CASE h # g
      <4>1. owner[h] = s
        BY <1>1, <3>2, SMT DEF TypeOK
      <4>2. doc[s].results[h] = "failed"
        BY <1>1, <3>2, <4>1, SMT DEF SessionInv, Alone, Live
      <4> QED BY <1>1, <1>2, <1>7, <3>2, <4>2, SMT DEF Result
    <3> QED BY <3>1, <3>2
  <2> QED BY <2>1, <2>2, <2>3, <2>4, <2>5, <2>6 DEF SessionInv
<1>9. ASSUME NEW t \in Sessions, t # s PROVE SessionInv(t)'
  <2>1. pc'[t] = pc[t] /\ doc'[t] = doc[t] /\ exit'[t] = exit[t]
    BY <1>1, <1>3, <1>9 DEF TypeOK
  <2>2. \A h \in Guests : owner'[h] = t => owner[h] = t
    BY <1>1, <1>9, SMT DEF TypeOK
  <2>3. SessionInv(t)
    BY <1>9 DEF Inv
  <2> QED BY <2>1, <2>2, <2>3, Untouched
<1> QED BY <1>4, <1>8, <1>9
-----------------------------------------------------------------------------
\* No session, nothing to relate.
LEMMA InitInv == Init => Inv
<1> SUFFICES ASSUME Init PROVE Inv
  OBVIOUS
<1>1. TypeOK
  BY EvacuationAssumptions, SMT DEF Init, TypeOK, Targets, Live
<1>2. ASSUME NEW s \in Sessions PROVE SessionInv(s)
  <2>1. pc[s] = "new" /\ doc[s] = None /\ exit[s] = None
        /\ \A g \in Guests : owner[g] # s
    BY EvacuationAssumptions, SMT DEF Init
  <2> QED BY <2>1, SMT DEF SessionInv, Begun, Partition, Tallied, Stopped,
             Honest, Alone, Live
<1> QED BY <1>1, <1>2 DEF Inv

\* The page and the cache touch no session.
LEMMA PageStep ==
    ASSUME Inv, Plan \/ ClosePlan \/ Collect \/ ChangeNodes
    PROVE  Inv'
<1>1. TypeOK'
  <2> USE DEF Inv, TypeOK, cluster
  <2>1. CASE Plan
    <3>1. PICK storage \in Storages, target \in [Guests -> avail \cup {None}] :
             shown' = [guests |-> cached, avail |-> avail, load |-> load,
                       storage |-> storage, target |-> target]
      BY <2>1 DEF Plan
    <3>2. avail \cup {None} \subseteq Nodes \cup {None}
      BY DEF Targets
    <3>3. target \in [Guests -> Nodes \cup {None}]
      BY <3>2, SMT
    <3>4. storage \in [Guests -> SUBSET Nodes]
      BY EvacuationAssumptions
    <3> QED BY <2>1, <3>1, <3>3, <3>4, SMT DEF Plan
  <2>2. CASE ClosePlan
    BY <2>2, SMT DEF ClosePlan
  <2>3. CASE Collect
    <3>1. load' \in [Nodes -> Nat]
      BY <2>3, EvacuationAssumptions DEF Collect
    <3> QED BY <2>3, <3>1, SMT DEF Collect
  <2>4. CASE ChangeNodes
    BY <2>4, SMT DEF ChangeNodes
  <2> QED BY <2>1, <2>2, <2>3, <2>4
<1>2. UNCHANGED <<loc, owner, pc, job, left, exit, doc>>
  BY DEF Plan, ClosePlan, Collect, ChangeNodes, cluster
<1>3. \A s \in Sessions : SessionInv(s)'
  BY <1>2, Untouched DEF Inv
<1> QED BY <1>1, <1>3 DEF Inv

\* A function keeps its values in a larger range.
LEMMA WiderRange ==
    ASSUME NEW D, NEW A, NEW B, A \subseteq B, NEW f \in [D -> A]
    PROVE  f \in [D -> B]
BY SMT

\* The user picks among the three known actions.
LEMMA ActionsTyped ==
    \A action \in [Guests -> Actions] :
        action \in [Guests -> {"migrate", "ignore", "poweroff"}]
<1> DEFINE Known == {"migrate", "ignore", "poweroff"}
<1>1. Actions \subseteq Known
  BY EvacuationAssumptions
<1> HIDE DEF Known
<1>2. \A action \in [Guests -> Actions] : action \in [Guests -> Known]
  BY <1>1, WiderRange
<1> QED BY <1>2 DEF Known

\* A confirmed request begins with an empty document.
LEMMA ConfirmStep ==
    ASSUME Inv, NEW s \in Sessions, Confirm(s)
    PROVE  Inv'
<1>1. PICK action \in [Guests -> Actions], own \in [Guests -> shown.avail \cup {None}] :
        job' = [job EXCEPT ![s] =
              [guests |-> cached, avail |-> avail, load |-> load,
               storage |-> shown.storage, action |-> action, promised |-> shown.target,
               unchanged |-> /\ shown.guests = cached /\ shown.avail = avail
                             /\ shown.load = load
                             /\ \A g \in Guests : action[g] = "migrate" /\ own[g] = None]]
  BY DEF Confirm
<1>2. /\ shown.target \in [Guests -> Nodes \cup {None}]
      /\ shown.storage \in [Guests -> SUBSET Nodes]
  BY SMT DEF Confirm, Inv, TypeOK
<1>3. job'[s] \in Job /\ job' \in [Sessions -> Job \cup {None}]
  <2> DEFINE promised == shown.target
             storage == shown.storage
             unchanged == /\ shown.guests = cached /\ shown.avail = avail
                          /\ shown.load = load
                          /\ \A g \in Guests : action[g] = "migrate" /\ own[g] = None
  <2>1. /\ promised \in [Guests -> Nodes \cup {None}]
        /\ storage \in [Guests -> SUBSET Nodes]
    BY <1>2
  <2>2. unchanged \in BOOLEAN
    BY Zenon
  <2>3. action \in [Guests -> {"migrate", "ignore", "poweroff"}]
    BY ActionsTyped
  <2>4. job \in [Sessions -> Job \cup {None}] /\ cached \subseteq Guests
        /\ avail \subseteq Targets /\ load \in [Nodes -> Nat]
    BY DEF Inv, TypeOK
  <2>5. job' = [job EXCEPT ![s] = [guests |-> cached, avail |-> avail, load |-> load,
                   storage |-> storage, action |-> action, promised |-> promised,
                   unchanged |-> unchanged]]
    BY <1>1
  <2> HIDE DEF promised, storage, unchanged
  <2>6. [guests |-> cached, avail |-> avail, load |-> load, storage |-> storage,
         action |-> action,
         promised |-> promised, unchanged |-> unchanged] \in Job
    BY <2>1, <2>2, <2>3, <2>4, SMT DEF Job
  <2> QED BY <2>4, <2>5, <2>6, SMT
<1>4. /\ pc' = [pc EXCEPT ![s] = "starting"] /\ left' = [left EXCEPT ![s] = cached]
      /\ doc' = [doc EXCEPT ![s] = Fresh] /\ shown' = None /\ pc[s] = "new"
      /\ UNCHANGED <<loc, task, owner, off, cached, load, avail, pending, exit>>
  BY DEF Confirm, Goto, WriteSession, cluster
<1>5. TypeOK'
  BY <1>3, <1>4, FreshDocument, SMT DEF Inv, TypeOK, Live
<1>6. pc'[s] = "starting" /\ left'[s] = cached /\ doc'[s] = Fresh
      /\ exit'[s] = exit[s] /\ job'[s].guests = cached
  BY <1>1, <1>4, SMT DEF Inv, TypeOK
<1>7. SessionInv(s)'
  <2>1. Begun(s)'
    BY <1>3, <1>6, FreshDocument, MarkersAreNoDocuments, SMT DEF Begun
  <2>2. Partition(s)'
    <3>1. Dealt(s)' = {}
      BY <1>6, FreshDocument DEF Dealt
    <3>2. InHand(s)' = {}
      BY <1>6, SMT DEF InHand
    <3>3. Fresh.status # "completed"
      BY SMT DEF Fresh
    <3> QED BY <1>6, <3>1, <3>2, <3>3, SMT DEF Partition
  <2>3. Tallied(s)'
    <3>1. Fresh.successful = 0 /\ Fresh.failed = 0
      BY DEF Fresh
    <3> QED BY <1>6, <3>1, FreshDocument, FS_EmptySet DEF Tallied
  <2>4. Stopped(s)'
    BY <1>4, <1>6, SMT DEF Inv, SessionInv, Stopped
  <2>5. Honest(s)'
    BY <1>6, EvacuationAssumptions, SMT DEF Honest, Fresh, NoResults
  <2>6. Alone(s)'
    BY <1>4, SMT DEF Inv, SessionInv, Begun, Alone
  <2> QED BY <2>1, <2>2, <2>3, <2>4, <2>5, <2>6 DEF SessionInv
<1>8. ASSUME NEW t \in Sessions, t # s PROVE SessionInv(t)'
  <2>1. pc'[t] = pc[t] /\ doc'[t] = doc[t] /\ exit'[t] = exit[t] /\ job'[t] = job[t]
        /\ left'[t] = left[t]
    BY <1>1, <1>4, <1>8 DEF Inv, TypeOK
  <2> QED BY <1>4, <1>8, <2>1, Untouched DEF Inv
<1> QED BY <1>5, <1>7, <1>8 DEF Inv

\* StartThread, NextGuest and Complete write the document, not its results.
LEMMA Written ==
    ASSUME Inv, NEW s \in Sessions, NEW e \in Document, NEW rest \in SUBSET Guests,
           NEW to \in {"head", "guest", "done"}, pc[s] \in {"starting", "head"},
           e.results = doc[s].results, e.successful = doc[s].successful,
           e.failed = doc[s].failed,
           pc' = [pc EXCEPT ![s] = to], left' = [left EXCEPT ![s] = rest],
           doc' = [doc EXCEPT ![s] = e],
           job' \in [Sessions -> Job \cup {None}],
           job'[s] # None, job'[s].guests = job[s].guests, job'[s].action = job[s].action,
           \A t \in Sessions : t # s => job'[t] = job[t],
           UNCHANGED <<cluster, page, pending, exit>>,
           Partition(s)'
    PROVE  Inv'
<1>1. UNCHANGED <<loc, task, owner, off, cached, load, avail, shown, pending, exit>>
  BY DEF cluster, page
<1>2. TypeOK'
  <2>1. doc' \in [Sessions -> Document \cup {None}] /\ left' \in [Sessions -> SUBSET Guests]
    BY DEF Inv, TypeOK
  <2>2. pc' \in [Sessions -> Live \cup {"new", "done", "dead"}]
    BY SMT DEF Inv, TypeOK, Live
  <2> QED BY <1>1, <2>1, <2>2 DEF Inv, TypeOK
<1>3. /\ pc'[s] = to /\ doc'[s] = e /\ SessionInv(s) /\ doc[s] \in Document
      /\ doc[s] # None
  <2>1. doc[s] # None
    BY SMT DEF Inv, SessionInv, Begun
  <2> QED BY <2>1 DEF Inv, TypeOK
<1>4. SessionInv(s)'
  <2>1. Begun(s)'
    BY <1>1, <1>3, MarkersAreNoDocuments, SMT DEF SessionInv, Begun
  <2>2. Tallied(s)'
    BY <1>3, SameResults DEF SessionInv, Tallied
  <2>3. Stopped(s)'
    BY <1>1, <1>3, SMT DEF SessionInv, Stopped
  <2>4. Honest(s)'
    BY <1>1, <1>3 DEF SessionInv, Honest
  <2>5. Alone(s)'
    BY <1>1, <1>3, SMT DEF SessionInv, Alone, Live
  <2> QED BY <2>1, <2>2, <2>3, <2>4, <2>5 DEF SessionInv
<1>5. ASSUME NEW t \in Sessions, t # s PROVE SessionInv(t)'
  <2>1. pc'[t] = pc[t] /\ doc'[t] = doc[t] /\ left'[t] = left[t] /\ job'[t] = job[t]
    BY <1>5 DEF Inv, TypeOK
  <2> QED BY <1>1, <2>1, Untouched DEF Inv
<1> QED BY <1>2, <1>4, <1>5 DEF Inv

\* What the thread finds leaves the rest of the request alone.
LEMMA FoundJob ==
    ASSUME NEW j \in Job, NEW storage \in Storages
    PROVE  /\ Found(j, storage) \in Job
           /\ Found(j, storage).guests = j.guests /\ Found(j, storage).avail = j.avail
           /\ Found(j, storage).load = j.load /\ Found(j, storage).storage = storage
           /\ Found(j, storage).action = j.action
           /\ Found(j, storage).promised = j.promised
           /\ Found(j, storage).unchanged = (j.unchanged /\ storage = j.storage)
<1>1. storage \in [Guests -> SUBSET Nodes]
  BY EvacuationAssumptions
<1> DEFINE unchanged == j.unchanged /\ storage = j.storage
<1>2. unchanged \in BOOLEAN
  BY Zenon
<1>3. Found(j, storage) = [j EXCEPT !.storage = storage, !.unchanged = unchanged]
  BY DEF Found
<1>4. j = [x \in DOMAIN j |-> j[x]] /\ j \in Job
  BY DEF Job
<1> HIDE DEF unchanged
<1>5. [j EXCEPT !.storage = storage, !.unchanged = unchanged] \in Job
  <2> DEFINE k == [j EXCEPT !.storage = storage]
  <2>1. k \in Job
    BY <1>1, SMT DEF Job
  <2>2. [j EXCEPT !.storage = storage, !.unchanged = unchanged] = [k EXCEPT !.unchanged = unchanged]
    BY <1>4
  <2> HIDE DEF k
  <2>3. [k EXCEPT !.unchanged = unchanged] \in Job
    BY <1>2, <2>1, SMT DEF Job
  <2> QED BY <2>2, <2>3
<1>6. /\ Found(j, storage).guests = j.guests /\ Found(j, storage).avail = j.avail
      /\ Found(j, storage).load = j.load /\ Found(j, storage).storage = storage
      /\ Found(j, storage).action = j.action
      /\ Found(j, storage).promised = j.promised
      /\ Found(j, storage).unchanged = unchanged
  BY <1>3, SMT DEF Job
<1> QED BY <1>3, <1>5, <1>6, Zenon DEF unchanged

\* The thread marks its session as running.
LEMMA StartThreadStep ==
    ASSUME Inv, NEW s \in Sessions, StartThread(s)
    PROVE  Inv'
<1> DEFINE e == [doc[s] EXCEPT !.status = "running"]
<1>1. /\ pc[s] = "starting" /\ pc' = [pc EXCEPT ![s] = "head"] /\ left' = left
      /\ doc' = [doc EXCEPT ![s] = e] /\ UNCHANGED <<cluster, page, pending, exit>>
  BY DEF StartThread, Goto, WriteSession
<1>2. SessionInv(s) /\ doc[s] \in Document /\ job[s] \in Job
  BY <1>1, SMT DEF Inv, SessionInv, Begun, TypeOK
<1>7. PICK storage \in Storages : job' = [job EXCEPT ![s] = Found(job[s], storage)]
  BY DEF StartThread
<1>8. /\ job' \in [Sessions -> Job \cup {None}] /\ job'[s] # None
      /\ job'[s].guests = job[s].guests /\ job'[s].action = job[s].action
      /\ \A t \in Sessions : t # s => job'[t] = job[t]
  <2>1. Found(job[s], storage) \in Job
    BY <1>2, FoundJob
  <2>2. job' \in [Sessions -> Job \cup {None}] /\ job'[s] = Found(job[s], storage)
        /\ \A t \in Sessions : t # s => job'[t] = job[t]
    BY <1>7, <2>1 DEF Inv, TypeOK
  <2> QED BY <1>2, <2>1, <2>2, FoundJob, MarkersAreNoDocuments
<1>3. /\ e \in Document /\ e.results = doc[s].results /\ e.status = "running"
      /\ e.successful = doc[s].successful /\ e.failed = doc[s].failed
  BY <1>2, SMT DEF Document
<1> HIDE DEF e
<1>4. left' = [left EXCEPT ![s] = left[s]] /\ left[s] \in SUBSET Guests
  BY <1>1, SMT DEF Inv, TypeOK
<1>5. pc'[s] = "head" /\ doc'[s] = e
  BY <1>1 DEF Inv, TypeOK
<1>6. Partition(s)'
  <2>1. Dealt(s)' = Dealt(s)
    BY <1>3, <1>5, SameResults DEF Dealt
  <2>2. InHand(s)' = {} /\ InHand(s) = {}
    BY <1>1, <1>5, SMT DEF InHand
  <2> QED BY <1>1, <1>2, <1>3, <1>5, <1>8, <2>1, <2>2, SMT DEF SessionInv, Partition, Live
<1> QED BY <1>1, <1>3, <1>4, <1>6, <1>8, Written

\* A session that has begun has a request.
LEMMA HasJob ==
    ASSUME Inv, NEW s \in Sessions, pc[s] # "new", job' = job
    PROVE  /\ job' \in [Sessions -> Job \cup {None}] /\ job'[s] # None
           /\ job'[s].guests = job[s].guests /\ job'[s].action = job[s].action
           /\ \A t \in Sessions : t # s => job'[t] = job[t]
BY DEF Inv, TypeOK, SessionInv, Begun

\* The next guest moves from the rest to the hand.
LEMMA NextGuestStep ==
    ASSUME Inv, NEW s \in Sessions, NextGuest(s)
    PROVE  Inv'
<1>1. /\ pc[s] = "head" /\ pc' = [pc EXCEPT ![s] = "guest"]
      /\ UNCHANGED <<cluster, page, job, pending, exit>>
  BY DEF NextGuest, Goto
<1>2. SessionInv(s) /\ doc[s] \in Document /\ left[s] \in SUBSET Guests
  BY <1>1, SMT DEF Inv, SessionInv, Begun, TypeOK
<1>3. PICK g \in left[s] : /\ left' = [left EXCEPT ![s] = left[s] \ {g}]
                           /\ doc' = [doc EXCEPT ![s] = [doc[s] EXCEPT !.current = g]]
  BY DEF NextGuest, WriteSession
<1> DEFINE e == [doc[s] EXCEPT !.current = g]
<1>4. /\ e \in Document /\ e.results = doc[s].results /\ e.status = doc[s].status
      /\ e.successful = doc[s].successful /\ e.failed = doc[s].failed /\ e.current = g
  BY <1>2, <1>3, SMT DEF Document
<1>5. doc' = [doc EXCEPT ![s] = e]
  BY <1>3
<1> HIDE DEF e
<1>6. pc'[s] = "guest" /\ doc'[s] = e /\ left'[s] = left[s] \ {g}
  BY <1>1, <1>3, <1>5 DEF Inv, TypeOK
<1>7. Partition(s)'
  <2>1. Dealt(s)' = Dealt(s)
    BY <1>4, <1>6, SameResults DEF Dealt
  <2>2. InHand(s)' = {g} /\ InHand(s) = {} /\ Current(s)' = g
    BY <1>1, <1>4, <1>6, SMT DEF InHand, Current
  <2>3. doc[s] # None
    BY <1>2, MarkersAreNoDocuments
  <2>4. e.status # "completed"
    BY <1>1, <1>2, <1>4, <2>3, SMT DEF SessionInv, Partition
  <2> QED BY <1>1, <1>2, <1>6, <2>1, <2>2, <2>4, SMT DEF SessionInv, Partition, Live
<1> QED BY <1>1, <1>2, <1>3, <1>4, <1>5, <1>7, HasJob, Written

\* The loop ends when no guest is left.
LEMMA CompleteStep ==
    ASSUME Inv, NEW s \in Sessions, Complete(s)
    PROVE  Inv'
<1> DEFINE d == [doc[s] EXCEPT !.status = "completed"]
           e == [d EXCEPT !.current = None]
<1>1. /\ pc[s] = "head" /\ pc' = [pc EXCEPT ![s] = "done"] /\ left' = left
      /\ left[s] = {} /\ doc' = [doc EXCEPT ![s] = e]
      /\ UNCHANGED <<cluster, page, job, pending, exit>>
  BY DEF Complete, Goto, WriteSession
<1>2. SessionInv(s) /\ doc[s] \in Document
  BY <1>1, SMT DEF Inv, SessionInv, Begun, TypeOK
<1>3. /\ e \in Document /\ e.results = doc[s].results /\ e.status = "completed"
      /\ e.successful = doc[s].successful /\ e.failed = doc[s].failed
  <2>1. /\ d \in Document /\ d.status = "completed" /\ d.results = doc[s].results
        /\ d.successful = doc[s].successful /\ d.failed = doc[s].failed
    BY <1>2, SMT DEF Document
  <2> HIDE DEF d
  <2> QED BY <2>1, SMT DEF Document
<1> HIDE DEF e
<1>4. left' = [left EXCEPT ![s] = left[s]] /\ left[s] \in SUBSET Guests
  BY <1>1, SMT DEF Inv, TypeOK
<1>5. pc'[s] = "done" /\ doc'[s] = e
  BY <1>1 DEF Inv, TypeOK
<1>6. Partition(s)'
  <2>1. Dealt(s)' = Dealt(s)
    BY <1>3, <1>5, SameResults DEF Dealt
  <2>2. InHand(s)' = {} /\ InHand(s) = {}
    BY <1>1, <1>5, SMT DEF InHand
  <2> QED BY <1>1, <1>2, <1>3, <1>5, <2>1, <2>2, SMT DEF SessionInv, Partition, Live
<1> QED BY <1>1, <1>3, <1>4, <1>6, HasJob, Written

\* A guest in hand that no task was started for is not the session's.
LEMMA InHandIsFree ==
    ASSUME Inv, NEW s \in Sessions, pc[s] = "guest"
    PROVE  Current(s) \in Guests /\ owner[Current(s)] # s
<1>1. SessionInv(s) /\ doc[s] \in Document /\ doc[s] # None
  <2>1. doc[s] # None
    BY SMT DEF Inv, SessionInv, Begun
  <2> QED BY <2>1 DEF Inv, TypeOK
<1>2. Current(s) \in Guests /\ Current(s) \notin Dealt(s)
  BY <1>1, SMT DEF SessionInv, Partition, InHand, Live
<1>3. doc[s].results[Current(s)] # "failed"
  BY <1>2 DEF Dealt, Having
<1> QED BY <1>1, <1>2, <1>3, SMT DEF SessionInv, Alone, Live

\* Every exit of the loop body records a result for the guest in hand.
LEMMA GuestStep ==
    ASSUME Inv, NEW s \in Sessions,
           \/ FailGuest(s) \/ IgnoreGuest(s) \/ PowerOff(s)
           \/ SeeTaskStopped(s) \/ GiveUp(s)
           \/ \E n \in Targets : StartRefused(s, n) \/ StartLost(s, n)
    PROVE  Inv'
<1> DEFINE Recorded == /\ pc' \in [Sessions -> Live \cup {"new", "done", "dead"}]
                       /\ exit' \in [Sessions -> {"OK", "ERR", None}]
                       /\ doc' \in [Sessions -> Document \cup {None}]
                       /\ \A t \in Sessions : SessionInv(t)'
<1>1. TypeOK
  BY DEF Inv
<1>2. CASE FailGuest(s)
  <2>1. /\ pc[s] = "guest" /\ Record(s, "failed")
        /\ UNCHANGED <<loc, task, owner, off, cached, load, avail, shown, job, left, pending>>
    BY <1>2 DEF FailGuest, cluster, page
  <2>2. Recorded
    BY <2>1, RecordStep, SMT
  <2> QED BY <1>1, <2>1, <2>2 DEF Inv, TypeOK
<1>3. CASE IgnoreGuest(s)
  <2>1. /\ pc[s] = "guest" /\ Record(s, "ignored") /\ job[s].action[Current(s)] = "ignore"
        /\ UNCHANGED <<loc, task, owner, off, cached, load, avail, shown, job, left, pending>>
    BY <1>3 DEF IgnoreGuest, Migratable, cluster, page
  <2>2. Recorded
    BY <2>1, InHandIsFree, RecordStep, SMT DEF Good
  <2> QED BY <1>1, <2>1, <2>2 DEF Inv, TypeOK
<1>4. CASE PowerOff(s)
  <2>1. /\ pc[s] = "guest" /\ Record(s, "off") /\ job[s].action[Current(s)] = "poweroff"
        /\ off' = off \cup {Current(s)}
        /\ UNCHANGED <<loc, task, owner, cached, load, avail, shown, job, left, pending>>
    BY <1>4 DEF PowerOff, Migratable, page
  <2>2. Recorded
    BY <2>1, InHandIsFree, RecordStep, SMT DEF Good
  <2>3. Current(s) \in Guests
    BY <2>1, InHandIsFree
  <2> QED BY <1>1, <2>1, <2>2, <2>3 DEF Inv, TypeOK
<1>5. CASE SeeTaskStopped(s)
  <2>1. /\ pc[s] = "polling" /\ Record(s, ResultOf(exit[s])) /\ exit[s] # None
        /\ UNCHANGED <<loc, task, owner, off, cached, load, avail, shown, job, left, pending>>
    BY <1>5 DEF SeeTaskStopped, cluster, page
  <2>2. owner[Current(s)] # s /\ (exit[s] = "OK" => loc[Current(s)] # Src)
    BY <2>1, SMT DEF Inv, SessionInv, Stopped
  <2>3. CASE exit[s] = "OK"
    <3>1. ResultOf(exit[s]) = "migrated"
      BY <2>3 DEF ResultOf
    <3>2. Recorded
      BY <2>1, <2>2, <2>3, <3>1, RecordStep, SMT DEF Good
    <3> QED BY <1>1, <2>1, <3>2 DEF Inv, TypeOK
  <2>4. CASE exit[s] # "OK"
    <3>1. ResultOf(exit[s]) = "failed"
      BY <2>4 DEF ResultOf
    <3>2. Recorded
      BY <2>1, <2>2, <3>1, RecordStep, SMT
    <3> QED BY <1>1, <2>1, <3>2 DEF Inv, TypeOK
  <2> QED BY <2>3, <2>4
<1>6. CASE GiveUp(s)
  <2>1. /\ pc[s] = "polling" /\ Record(s, "failed")
        /\ UNCHANGED <<loc, task, owner, off, cached, load, avail, shown, job, left, pending>>
    BY <1>6 DEF GiveUp, cluster, page
  <2>2. Recorded
    BY <2>1, RecordStep, SMT
  <2> QED BY <1>1, <2>1, <2>2 DEF Inv, TypeOK
<1>7. ASSUME NEW n \in Targets, StartRefused(s, n) \/ StartLost(s, n) PROVE Inv'
  <2>1. /\ pc[s] = "guest" /\ Record(s, "failed")
        /\ pending' = [pending EXCEPT ![s] = Count(@, n)]
        /\ UNCHANGED <<loc, off, cached, load, avail, shown, job, left>>
        /\ \/ UNCHANGED <<task, owner>>
           \/ /\ task' = [task EXCEPT ![Current(s)] = n]
              /\ owner' = [owner EXCEPT ![Current(s)] = s]
    BY <1>7 DEF StartRefused, StartLost, Assign, Migratable, cluster, page
  <2>2. Recorded
    BY <2>1, RecordStep, SMT
  <2>3. pending' \in [Sessions -> [Nodes -> Nat]]
    <3>1. pending[s] \in [Nodes -> Nat] /\ n \in Nodes
      BY <1>1, <1>7 DEF TypeOK, Targets
    <3>2. Count(pending[s], n) \in [Nodes -> Nat]
      BY <3>1, SMT DEF Count
    <3> QED BY <1>1, <2>1, <3>2 DEF TypeOK
  <2>4. task' \in [Guests -> Targets \cup {None}] /\ owner' \in [Guests -> Sessions \cup {None}]
    <3>1. task \in [Guests -> Targets \cup {None}] /\ owner \in [Guests -> Sessions \cup {None}]
      BY <1>1 DEF TypeOK
    <3>2. /\ [task EXCEPT ![Current(s)] = n] \in [Guests -> Targets \cup {None}]
          /\ [owner EXCEPT ![Current(s)] = s] \in [Guests -> Sessions \cup {None}]
      BY <1>7, <3>1
    <3> QED BY <2>1, <3>1, <3>2
  <2> QED BY <1>1, <2>1, <2>2, <2>3, <2>4 DEF Inv, TypeOK
<1> QED BY <1>2, <1>3, <1>4, <1>5, <1>6, <1>7

\* The guest in hand gets a task of its own.
LEMMA StartMigrationStep ==
    ASSUME Inv, NEW s \in Sessions, NEW n \in Targets, StartMigration(s, n)
    PROVE  Inv'
<1> DEFINE g == Current(s)
<1>1. /\ pc[s] = "guest" /\ pc' = [pc EXCEPT ![s] = "polling"]
      /\ task' = [task EXCEPT ![g] = n] /\ owner' = [owner EXCEPT ![g] = s]
      /\ pending' = [pending EXCEPT ![s] = Count(@, n)]
      /\ UNCHANGED <<loc, off, cached, load, avail, shown, job, left, exit, doc>>
  BY DEF StartMigration, Assign, Migratable, page
<1>2. TypeOK'
  <2>1. pending' \in [Sessions -> [Nodes -> Nat]]
    <3>1. pending[s] \in [Nodes -> Nat] /\ n \in Nodes
      BY DEF Inv, TypeOK, Targets
    <3>2. Count(pending[s], n) \in [Nodes -> Nat]
      BY <3>1, SMT DEF Count
    <3> QED BY <1>1, <3>2 DEF Inv, TypeOK
  <2>2. task' \in [Guests -> Targets \cup {None}] /\ owner' \in [Guests -> Sessions \cup {None}]
    BY <1>1 DEF Inv, TypeOK
  <2>3. pc' \in [Sessions -> Live \cup {"new", "done", "dead"}]
    BY <1>1, SMT DEF Inv, TypeOK, Live
  <2> QED BY <1>1, <2>1, <2>2, <2>3 DEF Inv, TypeOK
<1>3. SessionInv(s) /\ pc'[s] = "polling" /\ Current(s)' = g /\ g \in Guests
  BY <1>1, InHandIsFree DEF Inv, TypeOK, Current
<1>4. SessionInv(s)'
  <2>1. Begun(s)'
    BY <1>1, <1>3, SMT DEF SessionInv, Begun
  <2>2. Partition(s)'
    <3>1. Dealt(s)' = Dealt(s) /\ InHand(s)' = {g} /\ InHand(s) = {g}
      BY <1>1, <1>3, SMT DEF Dealt, Having, InHand
    <3> QED BY <1>1, <1>3, <3>1, SMT DEF SessionInv, Partition, Live
  <2>3. Tallied(s)' /\ Honest(s)'
    BY <1>1, <1>3 DEF SessionInv, Tallied, Honest, Having
  <2>4. Stopped(s)'
    BY <1>1, <1>3, SMT DEF SessionInv, Stopped
  <2>5. Alone(s)'
    BY <1>1, <1>3, SMT DEF SessionInv, Alone, Live, Inv, TypeOK
  <2> QED BY <2>1, <2>2, <2>3, <2>4, <2>5 DEF SessionInv
<1>5. ASSUME NEW t \in Sessions, t # s PROVE SessionInv(t)'
  <2>1. pc'[t] = pc[t] /\ \A h \in Guests : owner'[h] = t => owner[h] = t
    BY <1>1, <1>3, <1>5, SMT DEF Inv, TypeOK
  <2> QED BY <1>1, <2>1, Untouched DEF Inv
<1> QED BY <1>2, <1>4, <1>5 DEF Inv

\* A restart stops threads and changes nothing they reported.
LEMMA RestartStep ==
    ASSUME Inv, Restart
    PROVE  Inv'
<1>1. /\ pc' = [s \in Sessions |-> IF pc[s] \in Live THEN "dead" ELSE pc[s]]
      /\ UNCHANGED <<loc, task, owner, off, cached, load, avail, shown, job, left, pending,
                     exit, doc>>
  BY DEF Restart, cluster, page
<1>2. TypeOK'
  BY <1>1, SMT DEF Inv, TypeOK
<1>3. ASSUME NEW s \in Sessions, pc[s] \in Live PROVE SessionInv(s)'
  <2>1. pc'[s] = "dead" /\ SessionInv(s)
    BY <1>1, <1>3 DEF Inv
  <2>2. Begun(s)' /\ Stopped(s)'
    BY <1>1, <1>3, <2>1, SMT DEF SessionInv, Begun, Stopped, Live
  <2>3. Partition(s)'
    BY <1>1, <1>3, <2>1, SMT DEF SessionInv, Partition, Live
  <2>4. Tallied(s)' /\ Honest(s)'
    BY <1>1, <2>1 DEF SessionInv, Tallied, Honest, Having
  <2>5. Alone(s)'
    BY <2>1, SMT DEF Alone, Live
  <2> QED BY <2>2, <2>3, <2>4, <2>5 DEF SessionInv
<1>4. ASSUME NEW s \in Sessions, pc[s] \notin Live PROVE SessionInv(s)'
  BY <1>1, <1>4, Untouched DEF Inv
<1> QED BY <1>2, <1>3, <1>4 DEF Inv

\* A task that ends is reported to the session that polls it, if any.
LEMMA EndTaskStep ==
    ASSUME Inv, NEW g \in Guests, NEW status \in {"OK", "ERR"}, EndTask(g, status)
    PROVE  Inv'
<1>1. /\ loc' = (IF status = "OK" THEN [loc EXCEPT ![g] = task[g]] ELSE loc)
      /\ task' = [task EXCEPT ![g] = None] /\ owner' = [owner EXCEPT ![g] = None]
      /\ exit' = [s \in Sessions |->
                   IF owner[g] = s /\ pc[s] = "polling" /\ Current(s) = g
                   THEN status ELSE exit[s]]
      /\ UNCHANGED <<off, cached, load, avail, shown, pc, job, left, pending, doc>>
  BY DEF EndTask, page
<1>2. task[g] \in Nodes /\ task[g] # Src
  BY SMT DEF EndTask, Inv, TypeOK, Targets
<1>3. TypeOK'
  BY <1>1, <1>2, SMT DEF Inv, TypeOK
<1>4. /\ \A h \in Guests : loc[h] # Src => loc'[h] # Src
      /\ status = "OK" => loc'[g] # Src
      /\ \A s \in Sessions : owner'[g] # s
      /\ \A h \in Guests, s \in Sessions : owner'[h] = s => owner[h] = s
  BY <1>1, <1>2, EvacuationAssumptions, SMT DEF Inv, TypeOK
<1>5. ASSUME NEW s \in Sessions, ~(owner[g] = s /\ pc[s] = "polling" /\ Current(s) = g)
      PROVE  SessionInv(s)'
  <2>1. exit'[s] = exit[s]
    BY <1>1, <1>5
  <2> QED BY <1>1, <1>4, <2>1, Untouched DEF Inv
<1>6. ASSUME NEW s \in Sessions, owner[g] = s, pc[s] = "polling", Current(s) = g
      PROVE  SessionInv(s)'
  <2>1. exit'[s] = status /\ SessionInv(s)
    BY <1>1, <1>6 DEF Inv
  <2>2. Begun(s)'
    BY <1>1, <1>6, <2>1, SMT DEF SessionInv, Begun
  <2>3. Partition(s)' /\ Tallied(s)'
    BY <1>1, <2>1 DEF SessionInv, Partition, Tallied, Dealt, InHand, Current, Having
  <2>4. Stopped(s)'
    <3>1. Current(s)' = g
      BY <1>1, <1>6 DEF Current
    <3> QED BY <1>1, <1>4, <1>6, <2>1, <3>1, SMT DEF Stopped
  <2>5. Honest(s)'
    BY <1>1, <1>4, <2>1 DEF SessionInv, Honest
  <2>6. Alone(s)'
    BY <1>1, <1>4, <2>1 DEF SessionInv, Alone, Current
  <2> QED BY <2>2, <2>3, <2>4, <2>5, <2>6 DEF SessionInv
<1> QED BY <1>3, <1>5, <1>6 DEF Inv

\* The invariant above holds in every behaviour: the loop of a session and
\* its file, the tasks it started and the cluster stay related.
THEOREM Invariance == Spec => []Inv
<1>1. Inv /\ [Next]_vars => Inv'
  <2> SUFFICES ASSUME Inv, [Next]_vars PROVE Inv'
    OBVIOUS
  <2>1. CASE Plan \/ ClosePlan \/ Collect \/ ChangeNodes
    BY <2>1, PageStep
  <2>2. CASE Restart
    BY <2>2, RestartStep
  <2>3. ASSUME NEW s \in Sessions, Confirm(s) PROVE Inv'
    BY <2>3, ConfirmStep
  <2>4. ASSUME NEW s \in Sessions, Step(s) PROVE Inv'
    BY <2>4, StartThreadStep, NextGuestStep, CompleteStep, GuestStep, StartMigrationStep
       DEF Step
  <2>5. ASSUME NEW g \in Guests, NEW status \in {"OK", "ERR"}, EndTask(g, status)
        PROVE  Inv'
    BY <2>5, EndTaskStep
  <2>6. CASE UNCHANGED vars
    <3>1. UNCHANGED <<loc, task, owner, off, cached, load, avail, shown, pc, job, left,
                      pending, exit, doc>>
      BY <2>6 DEF vars, cluster, page
    <3>2. TypeOK'
      BY <3>1 DEF Inv, TypeOK
    <3>3. \A s \in Sessions : SessionInv(s)'
      BY <3>1, Untouched DEF Inv
    <3> QED BY <3>2, <3>3 DEF Inv
  <2> QED BY <2>1, <2>2, <2>3, <2>4, <2>5, <2>6 DEF Next
<1> QED BY <1>1, InitInv, PTL DEF Spec

\* The session files and the cluster keep their types whatever fails.
THEOREM TypeCorrect == Spec => []TypeOK
BY Invariance, PTL DEF Inv

\* The counters of a session file count its results, a complete one has a
\* result for every guest of the request.
THEOREM ProgressIsExact == Spec => []ProgressAddsUp
<1>1. Inv => ProgressAddsUp
  <2> SUFFICES ASSUME Inv, NEW s \in Sessions, doc[s] # None
      PROVE  /\ doc[s].successful = Cardinality(Having(doc[s], Good))
             /\ doc[s].failed = Cardinality(Having(doc[s], {"failed"}))
             /\ doc[s].status = "completed" =>
                   Having(doc[s], Good \cup {"failed"}) = job[s].guests
    BY DEF ProgressAddsUp
  <2>1. SessionInv(s)
    BY DEF Inv
  <2>2. ASSUME doc[s].status = "completed" PROVE Dealt(s) = job[s].guests
    <3>1. pc[s] = "done" /\ left[s] = {}
      BY <2>1, <2>2 DEF SessionInv, Partition
    <3>2. InHand(s) = {}
      BY <3>1, SMT DEF InHand
    <3> QED BY <2>1, <3>1, <3>2, SMT DEF SessionInv, Partition
  <2> QED BY <2>1, <2>2 DEF SessionInv, Tallied, Dealt
<1> QED BY <1>1, Invariance, PTL

\* A guest reported as migrated is off the node, for as long as the file lasts.
THEOREM ReportedMigrationsHappened == Spec => []SuccessIsReal
<1>1. Inv => SuccessIsReal
  BY DEF Inv, SessionInv, Honest, SuccessIsReal
<1> QED BY <1>1, Invariance, PTL

\* A session that has not given a migration up has no other under way.
THEOREM MigratesInTurn == Spec => []OneAtATime
<1>1. Inv => OneAtATime
  BY DEF Inv, SessionInv, Alone, OneAtATime
<1> QED BY <1>1, Invariance, PTL

\* A session complete without a failure leaves on the node only those of its
\* guests the user chose to leave there.
THEOREM CompletionEmptiesTheNode == Spec => []CompleteMeansEmpty
<1>1. ASSUME Inv, ProgressAddsUp PROVE CompleteMeansEmpty
  <2> SUFFICES ASSUME NEW s \in Sessions, doc[s] # None,
                      doc[s].status = "completed", doc[s].failed = 0,
                      NEW g \in job[s].guests, loc[g] = Src
               PROVE  job[s].action[g] \in {"ignore", "poweroff"}
    BY DEF CompleteMeansEmpty
  <2>1. SessionInv(s)
    BY <1>1 DEF Inv
  <2>2. g \in Guests /\ g \in Having(doc[s], Good \cup {"failed"})
    BY <1>1 DEF ProgressAddsUp, Having
  <2>3. Having(doc[s], {"failed"}) = {}
    <3>1. IsFiniteSet(Having(doc[s], {"failed"}))
      BY EvacuationAssumptions, FS_Subset DEF Having
    <3> QED BY <1>1, <3>1, FS_EmptySet DEF ProgressAddsUp
  <2>4. doc[s].results[g] \in Good
    BY <2>2, <2>3 DEF Having
  <2> QED BY <2>1, <2>2, <2>4 DEF SessionInv, Honest, Good
<1> QED BY <1>1, Invariance, ProgressIsExact, PTL
=============================================================================
