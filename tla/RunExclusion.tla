---------------------------- MODULE RunExclusion ----------------------------
(***************************************************************************)
(* What the lock of automigrate.py promises, and no more.  A run holds the *)
(* lock alone unless an earlier run has already retired, that is, has      *)
(* removed the lock file at the end of its release: from then on a second  *)
(* run may enter beside a first one.  RunLock implements this.             *)
(***************************************************************************)
CONSTANT Runs        \* processes running automigrate.py

VARIABLES holders,   \* runs between acquire_lock and release_lock
          retired    \* runs whose release_lock is complete

vars == <<holders, retired>>

Init == holders = {} /\ retired = {}

Enter(p) ==
    /\ p \notin holders
    /\ holders = {} \/ retired # {}
    /\ holders' = holders \cup {p}
    /\ UNCHANGED retired

Leave(p) ==
    /\ p \in holders
    /\ holders' = holders \ {p}
    /\ UNCHANGED retired

Retire(p) ==
    /\ p \notin holders
    /\ retired' = retired \cup {p}
    /\ UNCHANGED holders

Next == \E p \in Runs : Enter(p) \/ Leave(p) \/ Retire(p)

Spec == Init /\ [][Next]_vars
=============================================================================
