------------------------------ MODULE RunLock ------------------------------
(***************************************************************************)
(* The lock file of automigrate.py (acquire_lock, release_lock and the     *)
(* try/finally of main), system call by system call.  The runs come from   *)
(* the systemd timer and from the API's run and test endpoints, so several *)
(* may exist at once.                                                      *)
(*                                                                         *)
(* flock locks an inode, not a path, and release_lock removes the path     *)
(* after it has unlocked the inode.  An inode is named after the run whose *)
(* open() created it: a run opens the file once, so no two share a name.   *)
(***************************************************************************)
CONSTANTS Runs,    \* processes running automigrate.py, each once
          None     \* no inode, no holder

ASSUME NoneNotARun == None \notin Runs

VARIABLES pc,      \* pc[p]: where run p is
          path,    \* the inode LOCK_FILE names, or None
          fd,      \* fd[p]: the inode p has open, or None
          holder   \* holder[i]: the run that has flocked inode i, or None

vars == <<pc, path, fd, holder>>

PC == {"new", "opened", "locked", "unlocked", "closed", "unlinking",
       "retired", "refused", "crashed", "killed"}

TypeOK ==
    /\ pc \in [Runs -> PC]
    /\ path \in Runs \cup {None}
    /\ fd \in [Runs -> Runs \cup {None}]
    /\ holder \in [Runs -> Runs \cup {None}]

Init ==
    /\ pc = [p \in Runs |-> "new"]
    /\ path = None
    /\ fd = [p \in Runs |-> None]
    /\ holder = [i \in Runs |-> None]

Goto(p, from, to) ==
    /\ pc[p] = from
    /\ pc' = [pc EXCEPT ![p] = to]

\* open(LOCK_FILE, 'w'): a new inode when the path names none.
Open(p) ==
    /\ Goto(p, "new", "opened")
    /\ path' = IF path = None THEN p ELSE path
    /\ fd' = [fd EXCEPT ![p] = path']
    /\ UNCHANGED holder

\* Mutant: LOCK_SH in the place of LOCK_EX.
Lock_Shared(p) ==
    /\ Goto(p, "opened", "locked")
    /\ holder' = [holder EXCEPT ![fd[p]] = p]
    /\ UNCHANGED <<path, fd>>

\* flock(LOCK_EX | LOCK_NB) succeeds.
Lock(p) ==
    /\ Goto(p, "opened", "locked")
    /\ holder[fd[p]] = None
    /\ holder' = [holder EXCEPT ![fd[p]] = p]
    /\ UNCHANGED <<path, fd>>

\* Mutant: a refused run enters a state nobody knows.
Refuse_Skips(p) ==
    /\ Goto(p, "opened", "skipped")
    /\ holder[fd[p]] # None
    /\ fd' = [fd EXCEPT ![p] = None]
    /\ UNCHANGED <<path, holder>>

\* flock raises IOError: sys.exit(1).  lock_fd is still None in main, so the
\* finally block does not call release_lock; the exit closes the descriptor.
Refuse(p) ==
    /\ Goto(p, "opened", "refused")
    /\ holder[fd[p]] # None
    /\ fd' = [fd EXCEPT ![p] = None]
    /\ UNCHANGED <<path, holder>>

\* release_lock: flock(LOCK_UN).
Unlock(p) ==
    /\ Goto(p, "locked", "unlocked")
    /\ holder' = [holder EXCEPT ![fd[p]] = None]
    /\ UNCHANGED <<path, fd>>

\* release_lock: lock_fd.close().
Close(p) ==
    /\ Goto(p, "unlocked", "closed")
    /\ fd' = [fd EXCEPT ![p] = None]
    /\ UNCHANGED <<path, holder>>

\* release_lock: LOCK_FILE.exists(), a test of the path and not of the inode.
SeeFile(p) ==
    /\ path # None
    /\ Goto(p, "closed", "unlinking")
    /\ UNCHANGED <<path, fd, holder>>

SeeNoFile(p) ==
    /\ path = None
    /\ Goto(p, "closed", "retired")
    /\ UNCHANGED <<path, fd, holder>>

\* release_lock: LOCK_FILE.unlink() removes whatever the path names now.
Unlink(p) ==
    /\ path # None
    /\ Goto(p, "unlinking", "retired")
    /\ path' = None
    /\ UNCHANGED <<fd, holder>>

\* Mutant: unlink() is tried again until it succeeds.
UnlinkFails_Retries(p) ==
    /\ path = None
    /\ Goto(p, "unlinking", "unlinking")
    /\ UNCHANGED <<path, fd, holder>>

\* Another run has removed the file since exists(): FileNotFoundError.
UnlinkFails(p) ==
    /\ path = None
    /\ Goto(p, "unlinking", "crashed")
    /\ UNCHANGED <<path, fd, holder>>

\* Mutant: the lock outlives its process, as one made of the pid in the
\* file would.
Kill_LeavesLock(p) ==
    /\ pc[p] \in {"opened", "locked", "unlocked", "closed", "unlinking"}
    /\ pc' = [pc EXCEPT ![p] = "killed"]
    /\ fd' = [fd EXCEPT ![p] = None]
    /\ UNCHANGED <<path, holder>>

\* Mutant: a signal handler removes the lock file.
Kill_Unlinks(p) ==
    /\ pc[p] \in {"opened", "locked", "unlocked", "closed", "unlinking"}
    /\ pc' = [pc EXCEPT ![p] = "killed"]
    /\ fd' = [fd EXCEPT ![p] = None]
    /\ holder' = [i \in Runs |-> IF holder[i] = p THEN None ELSE holder[i]]
    /\ path' = None

\* The test endpoint's 60 s timeout, a reboot or an operator kills the
\* process.  The kernel closes its descriptor, which drops its lock; the
\* file stays.
Kill(p) ==
    /\ pc[p] \in {"opened", "locked", "unlocked", "closed", "unlinking"}
    /\ pc' = [pc EXCEPT ![p] = "killed"]
    /\ fd' = [fd EXCEPT ![p] = None]
    /\ holder' = [i \in Runs |-> IF holder[i] = p THEN None ELSE holder[i]]
    /\ UNCHANGED path

Next ==
    \E p \in Runs :
        \/ Open(p) \/ Lock(p) \/ Refuse(p)
        \/ Unlock(p) \/ Close(p) \/ SeeFile(p) \/ SeeNoFile(p)
        \/ Unlink(p) \/ UnlinkFails(p)
        \/ Kill(p)

\* A live process takes its next step: none of these system calls blocks
\* (LOCK_NB).  Nothing forces a run to be started, nor to be killed.
Step(p) ==
    \/ Lock(p) \/ Refuse(p)
    \/ Unlock(p) \/ Close(p) \/ SeeFile(p) \/ SeeNoFile(p)
    \/ Unlink(p) \/ UnlinkFails(p)

Spec == Init /\ [][Next]_vars
FairSpec == Spec /\ \A p \in Runs : WF_vars(Step(p))
----------------------------------------------------------------------------
Working == {p \in Runs : pc[p] = "locked"}
Retired == {p \in Runs : pc[p] = "retired"}

\* "Prevent concurrent runs using file lock" (the docstring of acquire_lock):
\* at most one run is past acquire_lock.
MutualExclusion == \A p, q \in Working : p = q

\* Until some run has retired, the lock is a mutex: two runs work at once
\* only after a third one has finished its release_lock.
OverlapNeedsARetiredRun == MutualExclusion \/ Retired # {}

\* A run gives up only because another run is working at that moment: the
\* lock file a killed run leaves behind never refuses anybody.
RefusedOnlyByAWorkingRun ==
    [][\A p \in Runs :
          pc[p] = "opened" /\ pc'[p] = "refused"
              => \E q \in Working : q # p]_vars

\* A release that fails in unlink() (FileNotFoundError out of the finally
\* block) lost a race against the release of another run, which succeeded.
CrashNeedsARetiredRun ==
    [][\A p \in Runs :
          pc[p] # "crashed" /\ pc'[p] = "crashed"
              => \E q \in Retired : q # p]_vars

\* Every run that has started comes to an end: nothing in the protocol
\* waits.  (The work between acquire and release is Automigrate's business.)
EveryRunEnds ==
    \A p \in Runs :
        pc[p] = "opened" ~>
            pc[p] \in {"retired", "refused", "crashed", "killed"}

\* The refinement mapping to the abstract promise.
Exclusion == INSTANCE RunExclusion WITH holders <- Working, retired <- Retired
ImplementsExclusion == Exclusion!Spec
=============================================================================
