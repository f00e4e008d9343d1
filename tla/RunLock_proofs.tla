--------------------------- MODULE RunLock_proofs ---------------------------
(***************************************************************************)
(* What the lock file of automigrate.py guarantees for any number of runs: *)
(* it is a mutex until a run has retired, it refuses nobody without a      *)
(* reason, and it implements the abstract RunExclusion.                    *)
(***************************************************************************)
EXTENDS RunLock, TLAPS

\* A run has the file open exactly from open() to close().
FdInv ==
    \A p \in Runs :
        (fd[p] # None) <=> (pc[p] \in {"opened", "locked", "unlocked"})

\* The lock table says who is working, on the inode it has open.
HolderInv ==
    /\ \A i \in Runs : holder[i] # None =>
            pc[holder[i]] = "locked" /\ fd[holder[i]] = i
    /\ \A p \in Runs : pc[p] = "locked" => holder[fd[p]] = p

\* Until a run retires, whoever has the file open has the one inode the
\* path names.
PathInv ==
    Retired = {} =>
        /\ \A p \in Runs : fd[p] # None => path = fd[p]
        /\ \A p \in Runs : pc[p] \in {"closed", "unlinking"} => path # None

\* The inductive invariant.
IInv == TypeOK /\ FdInv /\ HolderInv /\ PathInv

\* No run has started.
LEMMA InitIInv == Init => IInv
  BY NoneNotARun
     DEF Init, IInv, TypeOK, FdInv, HolderInv, PathInv, Retired, PC

\* One action at a time.
LEMMA NextIInv == IInv /\ [Next]_vars => IInv'
<1> SUFFICES ASSUME IInv, [Next]_vars PROVE IInv'
  OBVIOUS
<1> USE NoneNotARun DEF IInv, TypeOK, FdInv, HolderInv, PathInv, Retired, PC, Goto
<1>1. ASSUME NEW p \in Runs, Open(p) PROVE IInv'
  BY <1>1 DEF Open
<1>2. ASSUME NEW p \in Runs, Lock(p) PROVE IInv'
  BY <1>2 DEF Lock
<1>3. ASSUME NEW p \in Runs, Refuse(p) PROVE IInv'
  BY <1>3 DEF Refuse
<1>4. ASSUME NEW p \in Runs, Unlock(p) PROVE IInv'
  BY <1>4 DEF Unlock
<1>5. ASSUME NEW p \in Runs, Close(p) PROVE IInv'
  BY <1>5 DEF Close
<1>6. ASSUME NEW p \in Runs, SeeFile(p) PROVE IInv'
  BY <1>6 DEF SeeFile
<1>7. ASSUME NEW p \in Runs, SeeNoFile(p) PROVE IInv'
  BY <1>7 DEF SeeNoFile
<1>8. ASSUME NEW p \in Runs, Unlink(p) PROVE IInv'
  BY <1>8 DEF Unlink
<1>9. ASSUME NEW p \in Runs, UnlinkFails(p) PROVE IInv'
  BY <1>9 DEF UnlinkFails
<1>10. ASSUME NEW p \in Runs, Kill(p) PROVE IInv'
  BY <1>10 DEF Kill
<1>11. CASE UNCHANGED vars
  BY <1>11 DEF vars
<1> QED
  BY <1>1, <1>2, <1>3, <1>4, <1>5, <1>6, <1>7, <1>8, <1>9, <1>10, <1>11
     DEF Next

\* The variables of the lock always have their types.
THEOREM TypeCorrect == Spec => []TypeOK
<1>1. IInv => TypeOK
  BY DEF IInv
<1> QED
  BY <1>1, InitIInv, NextIInv, PTL DEF Spec

\* For any number of runs, and with kills at any moment: two runs work at
\* the same time only after a third run has completed its release_lock.
THEOREM LockIsAMutexUntilARunRetires == Spec => []OverlapNeedsARetiredRun
<1>1. IInv => OverlapNeedsARetiredRun
  BY NoneNotARun DEF IInv, TypeOK, FdInv, HolderInv, PathInv, Retired, PC,
     OverlapNeedsARetiredRun, MutualExclusion, Working
<1> QED
  BY <1>1, InitIInv, NextIInv, PTL DEF Spec

\* Whatever was killed before, a run is refused only while another one works:
\* a stale lock file never blocks the automation.
THEOREM StaleLockFileIsHarmless == Spec => RefusedOnlyByAWorkingRun
<1>1. ASSUME IInv, [Next]_vars, NEW p \in Runs,
             pc[p] = "opened", pc'[p] = "refused"
      PROVE  \E q \in Working : q # p
  <2>1. Refuse(p)
    BY <1>1 DEF Next, vars, IInv, TypeOK, Goto, Open, Lock, Refuse, Unlock,
       Close, SeeFile, SeeNoFile, Unlink, UnlinkFails, Kill
  <2>2. /\ fd[p] \in Runs
        /\ holder[fd[p]] \in Runs
    BY <1>1, <2>1, NoneNotARun DEF Refuse, Goto, IInv, TypeOK, FdInv
  <2>3. pc[holder[fd[p]]] = "locked"
    BY <1>1, <2>2, NoneNotARun DEF IInv, HolderInv
  <2> QED
    BY <1>1, <2>2, <2>3 DEF Working
<1>2. IInv /\ [Next]_vars =>
        [\A p \in Runs :
            pc[p] = "opened" /\ pc'[p] = "refused"
                => \E q \in Working : q # p]_vars
  BY <1>1
<1> QED
  BY <1>2, InitIInv, NextIInv, PTL DEF Spec, RefusedOnlyByAWorkingRun

\* A run can fail in unlink() only after another run's release removed the
\* file under it.
THEOREM UnlinkRaceHasAWinner == Spec => CrashNeedsARetiredRun
<1>1. ASSUME IInv, [Next]_vars, NEW p \in Runs,
             pc[p] # "crashed", pc'[p] = "crashed"
      PROVE  \E q \in Retired : q # p
  <2>1. UnlinkFails(p)
    BY <1>1 DEF Next, vars, IInv, TypeOK, Goto, Open, Lock, Refuse, Unlock,
       Close, SeeFile, SeeNoFile, Unlink, UnlinkFails, Kill
  <2>2. Retired # {}
    BY <1>1, <2>1 DEF IInv, PathInv, UnlinkFails, Goto
  <2> QED
    BY <2>1, <2>2 DEF UnlinkFails, Goto, Retired
<1>2. IInv /\ [Next]_vars =>
        [\A p \in Runs :
            pc[p] # "crashed" /\ pc'[p] = "crashed"
                => \E q \in Retired : q # p]_vars
  BY <1>1
<1> QED
  BY <1>2, InitIInv, NextIInv, PTL DEF Spec, CrashNeedsARetiredRun

----------------------------------------------------------------------------
(* Refinement: every step of the lock is a step of RunExclusion or a        *)
(* stutter.                                                                 *)

\* A step of the lock is a step of RunExclusion or changes nothing there.
LEMMA StepRefines ==
  IInv /\ [Next]_vars => [Exclusion!Next]_(Exclusion!vars)
<1> SUFFICES ASSUME IInv, [Next]_vars
             PROVE  [Exclusion!Next]_(Exclusion!vars)
  OBVIOUS
<1> USE DEF Working, Retired, Exclusion!vars, Goto
<1> TypeOK
  BY DEF IInv
<1>1. ASSUME NEW p \in Runs, Lock(p) PROVE Exclusion!Enter(p)
  <2>1. Working' = Working \cup {p} /\ Retired' = Retired /\ p \notin Working
    BY <1>1 DEF Lock, TypeOK
  <2>2. Working = {} \/ Retired # {}
    BY <1>1, NoneNotARun
       DEF Lock, IInv, TypeOK, FdInv, HolderInv, PathInv
  <2> QED
    BY <2>1, <2>2 DEF Exclusion!Enter
<1>2. ASSUME NEW p \in Runs, Unlock(p) PROVE Exclusion!Leave(p)
  BY <1>2 DEF Unlock, TypeOK, Exclusion!Leave
<1>3. ASSUME NEW p \in Runs, SeeNoFile(p) \/ Unlink(p)
      PROVE  Exclusion!Retire(p)
  <2>1. Working' = Working /\ Retired' = Retired \cup {p} /\ p \notin Working
    BY <1>3 DEF SeeNoFile, Unlink, TypeOK
  <2> QED
    BY <2>1 DEF Exclusion!Retire
<1>4. ASSUME NEW p \in Runs, Kill(p)
      PROVE  Exclusion!Leave(p) \/ UNCHANGED Exclusion!vars
  <2>1. Retired' = Retired /\ Working' = Working \ {p}
    BY <1>4 DEF Kill, TypeOK
  <2> QED
    BY <2>1 DEF Exclusion!Leave
<1>5. ASSUME NEW p \in Runs,
             \/ Open(p) \/ Refuse(p) \/ Close(p) \/ SeeFile(p)
             \/ UnlinkFails(p)
      PROVE  UNCHANGED Exclusion!vars
  BY <1>5 DEF Open, Refuse, Close, SeeFile, UnlinkFails, TypeOK
<1>6. CASE UNCHANGED vars
  BY <1>6 DEF vars
<1> QED
  BY <1>1, <1>2, <1>3, <1>4, <1>5, <1>6 DEF Next, Exclusion!Next

\* The lock file protocol implements its abstract promise, for any set of
\* runs.
THEOREM LockImplementsExclusion == Spec => ImplementsExclusion
<1>1. Init => Exclusion!Init
  BY DEF Init, Exclusion!Init, Working, Retired
<1> QED
  BY <1>1, StepRefines, InitIInv, NextIInv, PTL
     DEF Spec, ImplementsExclusion, Exclusion!Spec
=============================================================================
