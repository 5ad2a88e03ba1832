------------------------------- MODULE FileLock -------------------------------
(***************************************************************************)
(* The advisory lock file of src/src/licensing/FileLock.ts.  A caller of   *)
(* withFileLock creates the lock file exclusively, runs its operation and  *)
(* removes the file.  A caller that finds the file retries until its       *)
(* timeout; a file older than the stale limit is removed by whoever sees   *)
(* it.  Every await of the function is a point where the other callers,    *)
(* which may live in other operating-system processes, can take steps.     *)
(*                                                                         *)
(* Time is counted in ticks and only ages are kept: how long a caller has  *)
(* waited, how old the lock file is, how long a holder has held it.  Ages  *)
(* stop growing once they have passed every limit they are compared with.  *)
(*                                                                         *)
(* What fs.stat answers is compared with the clock when the caller is      *)
(* continued; the answer and the comparison are one step here.  That       *)
(* leaves out a continuation that waits for a whole tick.                  *)
(***************************************************************************)
EXTENDS Naturals, FiniteSets

CONSTANTS
    Procs,         \* the callers of withFileLock that share one lock path
    NoLock,        \* the lock path does not exist
    TimeoutTicks,  \* options.timeoutMs
    StaleTicks,    \* options.staleLockMs
    MaxHoldTicks,  \* longest time from creating the lock to removing it
    MaxFaults      \* crashes, failing calls and overdue holders to explore

ASSUME LockAssumption ==
    /\ NoLock \notin Procs
    /\ TimeoutTicks \in Nat
    /\ StaleTicks \in Nat
    /\ MaxHoldTicks \in Nat
    /\ MaxFaults \in Nat

VARIABLES
    pc,       \* where each caller is in withFileLock
    lock,     \* the caller that created the existing lock file, or NoLock
    lockAge,  \* Date.now() - stats.mtimeMs of the lock file
    waited,   \* Date.now() - start of each caller
    held,     \* ticks since each holder created its lock file
    faults    \* faults so far: crashes, failed calls, ticks of overdue holders

lockVars == <<pc, lock, lockAge, waited, held, faults>>

\* The caller has created the lock file and not yet asked to remove it, or
\* has asked and not been answered.
Holding == {"closing", "running", "releasing"}

PcValues == {"idle", "open", "exists", "reclaim", "wait"} \union Holding

Older(age, limit) == IF age > limit THEN age ELSE age + 1

LockInit ==
    /\ pc = [p \in Procs |-> "idle"]
    /\ lock = NoLock
    /\ lockAge = 0
    /\ waited = [p \in Procs |-> 0]
    /\ held = [p \in Procs |-> 0]
    /\ faults = 0

Goto(p, from, to) == pc[p] = from /\ pc' = [pc EXCEPT ![p] = to]

Fault == faults < MaxFaults /\ faults' = faults + 1

-----------------------------------------------------------------------------
(* Mutations: what each property would look like broken.  They differ from *)
(* the definition they are named after in one place and are used by no     *)
(* specification.                                                          *)

\* Stale one tick too early: >= instead of >.
StatFindsStale_AtTheLimit(p) ==
    /\ waited[p] <= TimeoutTicks
    /\ lock # NoLock
    /\ lockAge >= StaleTicks
    /\ Goto(p, "exists", "reclaim")
    /\ UNCHANGED <<lock, lockAge, waited, held, faults>>

\* No rm in the finally block.
Release_LeavesTheFile(p) ==
    /\ Goto(p, "releasing", "idle")
    /\ UNCHANGED <<lock, lockAge, waited, held, faults>>

\* start = Date.now() inside the loop.
StatFindsFresh_RestartsTheClock(p) ==
    /\ waited[p] <= TimeoutTicks
    /\ lock = NoLock \/ lockAge <= StaleTicks
    /\ Goto(p, "exists", "wait")
    /\ waited' = [waited EXCEPT ![p] = 0]
    /\ UNCHANGED <<lock, lockAge, held, faults>>

\* continue without rm.
Reclaim_OnlyRetries(p) ==
    /\ Goto(p, "reclaim", "open")
    /\ UNCHANGED <<lock, lockAge, waited, held, faults>>

-----------------------------------------------------------------------------
\* withFileLock(lockPath, operation) is called: start = Date.now().
Call(p) ==
    /\ Goto(p, "idle", "open")
    /\ waited' = [waited EXCEPT ![p] = 0]
    /\ UNCHANGED <<lock, lockAge, held, faults>>

\* fs.open(lockPath, 'wx') creates the file: the loop is left by break.
OpenCreates(p) ==
    /\ lock = NoLock
    /\ Goto(p, "open", "closing")
    /\ lock' = p
    /\ lockAge' = 0
    /\ held' = [held EXCEPT ![p] = 0]
    /\ UNCHANGED <<waited, faults>>

\* fs.open(lockPath, 'wx') fails with EEXIST.
OpenFindsLock(p) ==
    /\ lock # NoLock
    /\ Goto(p, "open", "exists")
    /\ UNCHANGED <<lock, lockAge, waited, held, faults>>

\* The finally block of the loop closes the handle of the created file.
Close(p) ==
    /\ Goto(p, "closing", "running")
    /\ UNCHANGED <<lock, lockAge, waited, held, faults>>

\* The deadline has passed: withFileLock throws without having held the lock.
TimeOut(p) ==
    /\ waited[p] > TimeoutTicks
    /\ Goto(p, "exists", "idle")
    /\ UNCHANGED <<lock, lockAge, waited, held, faults>>

\* The lock file is older than the limit when fs.stat answers.
StatFindsStale(p) ==
    /\ waited[p] <= TimeoutTicks
    /\ lock # NoLock
    /\ lockAge > StaleTicks
    /\ Goto(p, "exists", "reclaim")
    /\ UNCHANGED <<lock, lockAge, waited, held, faults>>

\* The lock file is young, or it is gone and fs.stat throws: both wait.
StatFindsFresh(p) ==
    /\ waited[p] <= TimeoutTicks
    /\ lock = NoLock \/ lockAge <= StaleTicks
    /\ Goto(p, "exists", "wait")
    /\ UNCHANGED <<lock, lockAge, waited, held, faults>>

\* fs.rm(lockPath, { force: true }) on the lock file that was stale when it
\* was looked at, whichever file has that name now; the loop continues.
Reclaim(p) ==
    /\ Goto(p, "reclaim", "open")
    /\ lock' = NoLock
    /\ UNCHANGED <<lockAge, waited, held, faults>>

\* operation() has returned or thrown.
OperationEnds(p) ==
    /\ Goto(p, "running", "releasing")
    /\ UNCHANGED <<lock, lockAge, waited, held, faults>>

\* The finally block: fs.rm(lockPath, { force: true }), whoever created the
\* file that is there now.
Release(p) ==
    /\ Goto(p, "releasing", "idle")
    /\ lock' = NoLock
    /\ UNCHANGED <<lockAge, waited, held, faults>>

-----------------------------------------------------------------------------
\* fs.open fails with another code than EEXIST, handle.close fails or the
\* last fs.rm fails: withFileLock throws and an existing file stays.
CallFails(p) ==
    /\ Fault
    /\ pc[p] \in {"open", "closing", "releasing"}
    /\ pc' = [pc EXCEPT ![p] = "idle"]
    /\ UNCHANGED <<lock, lockAge, waited, held>>

\* fs.rm of the stale file fails: the error is swallowed and the caller waits.
ReclaimFails(p) ==
    /\ Fault
    /\ Goto(p, "reclaim", "wait")
    /\ UNCHANGED <<lock, lockAge, waited, held>>

\* The operating-system process dies; its lock file, if it has one, stays.
Crash(p) ==
    /\ Fault
    /\ pc[p] # "idle"
    /\ pc' = [pc EXCEPT ![p] = "idle"]
    /\ UNCHANGED <<lock, lockAge, waited, held>>

\* A holder that would outlive the stale limit with the next tick.
Overdue == \E p \in Procs : pc[p] \in Holding /\ held[p] >= StaleTicks

\* Time passes, one retryDelayMs at a time: wait(retryDelayMs) is over for
\* every caller that was waiting.  Nothing bounds an operation in the code;
\* holders are taken to finish within MaxHoldTicks, and to take longer than
\* the stale limit is a fault.
Tick ==
    /\ \A p \in Procs : pc[p] \in Holding => held[p] < MaxHoldTicks
    /\ IF Overdue THEN Fault ELSE UNCHANGED faults
    /\ lockAge' = Older(lockAge, StaleTicks)
    /\ waited' = [p \in Procs |-> Older(waited[p], TimeoutTicks)]
    /\ held' = [p \in Procs |->
                  IF pc[p] \in Holding THEN held[p] + 1 ELSE held[p]]
    /\ pc' = [p \in Procs |-> IF pc[p] = "wait" THEN "open" ELSE pc[p]]
    /\ UNCHANGED lock

-----------------------------------------------------------------------------
\* The loop that ends with the operation running, unless it times out.
Acquire(p) ==
    \/ OpenCreates(p) \/ OpenFindsLock(p) \/ Close(p)
    \/ StatFindsStale(p) \/ StatFindsFresh(p) \/ Reclaim(p)

\* The steps of withFileLock itself, without the operation it runs.
LockStep(p) == Acquire(p) \/ TimeOut(p) \/ Release(p)

LockFault(p) == CallFails(p) \/ ReclaimFails(p) \/ Crash(p)

LockNext ==
    \/ \E p \in Procs :
          Call(p) \/ LockStep(p) \/ OperationEnds(p) \/ LockFault(p)
    \/ Tick

LockSpec == LockInit /\ [][LockNext]_lockVars

\* The event loop runs every pending continuation, operations end and time
\* passes.  Nobody is obliged to call.
LockFairness ==
    /\ \A p \in Procs : WF_lockVars(LockStep(p) \/ OperationEnds(p))
    /\ SF_lockVars(Tick)

FairLockSpec == LockSpec /\ LockFairness

-----------------------------------------------------------------------------
LockTypeOK ==
    /\ pc \in [Procs -> PcValues]
    /\ lock \in Procs \union {NoLock}
    /\ lockAge \in 0 .. StaleTicks + 1
    /\ waited \in [Procs -> 0 .. TimeoutTicks + 1]
    /\ held \in [Procs -> 0 .. MaxHoldTicks]
    /\ faults \in 0 .. MaxFaults

\* At most one operation is running.
Exclusive == \A p, q \in Procs : pc[p] = "running" /\ pc[q] = "running" => p = q

\* Two operations under the same lock path never run at the same time, as
\* long as nothing has failed: what the activation store and the audit log
\* rely on for read-modify-write.
MutualExclusion == faults = 0 => Exclusive

\* FileLock.ts:21, "Runs an async operation while holding an advisory lock
\* file": the lock file exists, and is the caller's own, while it runs.
HoldsLockWhileRunning ==
    \A p \in Procs : pc[p] = "running" => lock = p

\* The two limits interact: until something fails no caller ever decides to
\* remove a lock file that is not its own, and every lock file has a live
\* holder of the same age, which is done before the file looks stale.
HoldersAreNeverRobbed ==
    faults = 0 =>
        /\ \A p \in Procs : pc[p] # "reclaim"
        /\ \A p \in Procs :
              pc[p] \in Holding => /\ lock = p
                                  /\ lockAge = held[p]
                                  /\ held[p] <= StaleTicks
        /\ lock # NoLock => pc[lock] \in Holding

\* Nobody is left who will remove the existing lock file on its way out.
Abandoned == lock # NoLock /\ \A p \in Procs : pc[p] \notin Holding

\* A call of withFileLock returns or throws in the end, contention, crashes
\* of others and leftover lock files notwithstanding.
EveryCallEnds == \A p \in Procs : pc[p] # "idle" ~> pc[p] = "idle"

\* A lock file left behind by a crash does not lock the store out for ever:
\* if callers keep getting as far as fs.stat, it is removed in the end.  (A
\* caller whose fs.open takes its whole timeout never looks at the file.)
AbandonedLockIsReclaimed ==
    ([]<><<\E p \in Procs : StatFindsStale(p) \/ StatFindsFresh(p)>>_lockVars)
        => (Abandoned ~> ~Abandoned)
===============================================================================
