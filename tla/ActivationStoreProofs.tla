------------------------- MODULE ActivationStoreProofs -------------------------
(***************************************************************************)
(* Theorems about FileLock and about the ActivationStore over it, for any  *)
(* number of callers, licenses, records and faults.  The lock: its types,  *)
(* and mutual exclusion until a caller crashes, a call fails or a holder   *)
(* outlives the stale limit.  The store: its types; that formats only      *)
(* improve; and, as long as no two operations run at the same time, that   *)
(* the store file is always whole and that the protocol implements         *)
(* AtomicStore, whatever crashes and fails.  That operations exclude each  *)
(* other is what FileLock gives until something fails, and what a single   *)
(* caller has in any case.                                                 *)
(***************************************************************************)
EXTENDS ActivationStore, TLAPS

-----------------------------------------------------------------------------
\* The lock.

\* The saturating age stays within one of the limit it is compared with.
LEMMA OlderBound ==
    ASSUME NEW limit \in Nat, NEW age \in 0 .. limit + 1
    PROVE  Older(age, limit) \in 0 .. limit + 1
BY DEF Older

\* The types of the lock hold at first and are kept by every step.
LEMMA LockTypeInductive ==
    /\ LockInit => LockTypeOK
    /\ LockTypeOK /\ [LockNext]_lockVars => LockTypeOK'
<1>1. LockInit => LockTypeOK
  BY LockAssumption DEF LockInit, LockTypeOK, PcValues, Holding
<1>2. LockTypeOK /\ [LockNext]_lockVars => LockTypeOK'
  <2> SUFFICES ASSUME LockTypeOK, [LockNext]_lockVars
               PROVE  LockTypeOK'
    OBVIOUS
  <2> USE LockAssumption DEF LockTypeOK, PcValues, Holding
  <2>1. ASSUME NEW p \in Procs, Call(p) PROVE LockTypeOK'
    BY <2>1 DEF Call, Goto
  <2>2. ASSUME NEW p \in Procs, LockStep(p) PROVE LockTypeOK'
    <3>1. CASE OpenCreates(p)       BY <3>1 DEF OpenCreates, Goto
    <3>2. CASE OpenFindsLock(p)     BY <3>2 DEF OpenFindsLock, Goto
    <3>3. CASE Close(p)             BY <3>3 DEF Close, Goto
    <3>4. CASE TimeOut(p)           BY <3>4 DEF TimeOut, Goto
    <3>5. CASE StatFindsStale(p)    BY <3>5 DEF StatFindsStale, Goto
    <3>6. CASE StatFindsFresh(p)    BY <3>6 DEF StatFindsFresh, Goto
    <3>7. CASE Reclaim(p)           BY <3>7 DEF Reclaim, Goto
    <3>8. CASE Release(p)           BY <3>8 DEF Release, Goto
    <3> QED BY <2>2, <3>1, <3>2, <3>3, <3>4, <3>5, <3>6, <3>7, <3>8 DEF LockStep, Acquire
  <2>3. ASSUME NEW p \in Procs, OperationEnds(p) PROVE LockTypeOK'
    BY <2>3 DEF OperationEnds, Goto
  <2>4. ASSUME NEW p \in Procs, LockFault(p) PROVE LockTypeOK'
    <3>1. CASE CallFails(p)         BY <3>1 DEF CallFails, Fault
    <3>2. CASE ReclaimFails(p)      BY <3>2 DEF ReclaimFails, Fault, Goto
    <3>3. CASE Crash(p)             BY <3>3 DEF Crash, Fault
    <3> QED BY <2>4, <3>1, <3>2, <3>3 DEF LockFault
  <2>5. ASSUME Tick PROVE LockTypeOK'
    <3>1. lockAge' \in 0 .. StaleTicks + 1
      BY <2>5, OlderBound DEF Tick
    <3>2. waited' \in [Procs -> 0 .. TimeoutTicks + 1]
      <4>1. \A p \in Procs : Older(waited[p], TimeoutTicks) \in 0 .. TimeoutTicks + 1
        BY OlderBound
      <4> QED BY <2>5, <4>1 DEF Tick
    <3>3. held' \in [Procs -> 0 .. MaxHoldTicks]
      BY <2>5 DEF Tick
    <3>4. pc' \in [Procs -> PcValues]
      BY <2>5 DEF Tick
    <3>5. faults' \in 0 .. MaxFaults
      BY <2>5 DEF Tick, Fault
    <3> QED BY <2>5, <3>1, <3>2, <3>3, <3>4, <3>5 DEF Tick
  <2>6. CASE UNCHANGED lockVars
    BY <2>6 DEF lockVars
  <2> QED BY <2>1, <2>2, <2>3, <2>4, <2>5, <2>6 DEF LockNext
<1> QED BY <1>1, <1>2

\* Every reachable state of the lock protocol is well-typed: callers are at a
\* known await, the lock file was created by a caller, ages are bounded.
THEOREM LockTypeCorrect == LockSpec => []LockTypeOK
BY LockTypeInductive, PTL DEF LockSpec

-----------------------------------------------------------------------------
\* Until something fails, a step keeps every lock file with its live holder.
LEMMA NeverRobbedInductive ==
    /\ LockInit => HoldersAreNeverRobbed
    /\ LockTypeOK /\ HoldersAreNeverRobbed /\ [LockNext]_lockVars
          => HoldersAreNeverRobbed'
<1>1. LockInit => HoldersAreNeverRobbed
  BY LockAssumption DEF LockInit, HoldersAreNeverRobbed, Holding
<1>2. LockTypeOK /\ HoldersAreNeverRobbed /\ [LockNext]_lockVars
        => HoldersAreNeverRobbed'
  <2> SUFFICES ASSUME LockTypeOK, HoldersAreNeverRobbed, [LockNext]_lockVars
               PROVE  HoldersAreNeverRobbed'
    OBVIOUS
  <2> USE LockAssumption DEF LockTypeOK, HoldersAreNeverRobbed, PcValues, Holding
  <2>1. ASSUME NEW p \in Procs, Call(p) PROVE HoldersAreNeverRobbed'
    BY <2>1 DEF Call, Goto
  <2>2. ASSUME NEW p \in Procs, LockStep(p) PROVE HoldersAreNeverRobbed'
    <3>1. CASE OpenCreates(p)       BY <3>1 DEF OpenCreates, Goto
    <3>2. CASE OpenFindsLock(p)     BY <3>2 DEF OpenFindsLock, Goto
    <3>3. CASE Close(p)             BY <3>3 DEF Close, Goto
    <3>4. CASE TimeOut(p)           BY <3>4 DEF TimeOut, Goto
    <3>5. CASE StatFindsStale(p)
      \* the file's live holder is as old as the file, hence not stale
      <4>1. faults = 0 => lock \in Procs /\ lockAge <= StaleTicks
        BY <3>5 DEF StatFindsStale
      <4> QED BY <3>5, <4>1 DEF StatFindsStale
    <3>6. CASE StatFindsFresh(p)    BY <3>6 DEF StatFindsFresh, Goto
    <3>7. CASE Reclaim(p)           BY <3>7 DEF Reclaim, Goto
    <3>8. CASE Release(p)           BY <3>8 DEF Release, Goto
    <3> QED BY <2>2, <3>1, <3>2, <3>3, <3>4, <3>5, <3>6, <3>7, <3>8 DEF LockStep, Acquire
  <2>3. ASSUME NEW p \in Procs, OperationEnds(p) PROVE HoldersAreNeverRobbed'
    BY <2>3 DEF OperationEnds, Goto
  <2>4. ASSUME NEW p \in Procs, LockFault(p) PROVE HoldersAreNeverRobbed'
    <3>1. faults' # 0
      BY <2>4 DEF LockFault, CallFails, ReclaimFails, Crash, Fault
    <3> QED BY <3>1
  <2>5. ASSUME Tick PROVE HoldersAreNeverRobbed'
    <3>1. CASE Overdue
      <4>1. faults' # 0
        BY <2>5, <3>1 DEF Tick, Fault
      <4> QED BY <4>1
    <3>2. CASE ~Overdue
      <4>1. \A p \in Procs : /\ pc[p] # "reclaim" => pc'[p] # "reclaim"
                             /\ pc'[p] \in Holding <=> pc[p] \in Holding
        BY <2>5 DEF Tick
      <4>2. ASSUME NEW p \in Procs, pc[p] \in Holding, faults = 0
            PROVE  lockAge' = held'[p] /\ held'[p] <= StaleTicks
        <5>1. lockAge = held[p] /\ held[p] < StaleTicks
          BY <3>2, <4>2 DEF Overdue
        <5> QED BY <2>5, <4>2, <5>1 DEF Tick, Older
      <4>3. faults' = faults /\ lock' = lock
        BY <2>5, <3>2 DEF Tick
      <4> QED BY <4>1, <4>2, <4>3
    <3> QED BY <3>1, <3>2
  <2>6. CASE UNCHANGED lockVars
    BY <2>6 DEF lockVars
  <2> QED BY <2>1, <2>2, <2>3, <2>4, <2>5, <2>6 DEF LockNext
<1> QED BY <1>1, <1>2

\* No caller decides to remove another's lock file and every lock file has a
\* live holder, for every number of callers and all limits, as long as nobody
\* crashes, no file-system call fails and no holder outlives the stale limit
\* (FileLock.ts, the loop around fs.open and fs.stat).
THEOREM NeverRobbed == LockSpec => []HoldersAreNeverRobbed
BY LockTypeInductive, NeverRobbedInductive, PTL DEF LockSpec

\* Operations under one lock path exclude each other, for every number of
\* callers, until something fails.
THEOREM LockMutualExclusion == LockSpec => []MutualExclusion
<1>1. HoldersAreNeverRobbed => MutualExclusion
  BY DEF HoldersAreNeverRobbed, MutualExclusion, Exclusive, Holding
<1> QED BY <1>1, NeverRobbed, PTL

\* While an operation runs the lock file exists and is its caller's own, the
\* promise of FileLock.ts:21, until something fails.
THEOREM OperationsHoldTheLock == LockSpec => [](faults = 0 => HoldsLockWhileRunning)
<1>1. HoldersAreNeverRobbed => (faults = 0 => HoldsLockWhileRunning)
  BY DEF HoldersAreNeverRobbed, HoldsLockWhileRunning, Holding
<1> QED BY <1>1, NeverRobbed, PTL

-----------------------------------------------------------------------------
\* The store.

\* What the stages of an operation say about its local state, whatever the
\* other callers do.
StageOK ==
    \A p \in Procs :
        /\ pc[p] \in {"open", "exists", "reclaim", "wait", "closing"}
              => stage[p] = "load"
        /\ pc[p] = "releasing" => stage[p] \in {"done", "failed"}
        /\ pc[p] # "idle" /\ stage[p] = "load"
              => loaded[p] = NotLoaded /\ answer[p] = NoRecord
        /\ pc[p] # "idle" /\ request[p].op # "get" => answer[p] = NoRecord
        /\ stage[p] \in {"begin", "fill", "rename"} => loaded[p] \in Stores
        /\ pc[p] # "idle" /\ stage[p] = "done" => loaded[p] \in Stores

\* Only stores of the current shape are written, and none over a store that
\* cannot be read.
FormatOK ==
    /\ temp \in Files => temp.format = (IF EncryptionEnabled THEN "secure" ELSE "plain")
    /\ ~EncryptionEnabled /\ file \in Files /\ file.format = "secure"
          => \A p \in Procs : stage[p] \notin {"begin", "fill", "rename"}

\* While operations exclude each other, the one that runs has the file in
\* memory, changed by its request, until its own store is in place.
SectionOK ==
    \A p \in Procs : pc[p] = "running" =>
        /\ stage[p] \in {"begin", "fill", "rename"}
              => loaded[p] = Modified(request[p], Parsed(file))
        /\ stage[p] = "rename" => temp = Serialized(loaded[p])

StoreInv == TypeOK /\ StageOK /\ FormatOK

-----------------------------------------------------------------------------
\* Every step is a step of the lock, or a fault that leaves the lock alone.
LockUntouched == Fault /\ UNCHANGED <<pc, lock, lockAge, waited, held>>

LEMMA StepsOfTheLock == [Next]_vars => [LockNext]_lockVars \/ LockUntouched
<1> SUFFICES ASSUME [Next]_vars
             PROVE  [LockNext]_lockVars \/ LockUntouched
  OBVIOUS
<1>1. ASSUME NEW p \in Procs,
             \/ Invoke(p) \/ WaitForLock(p) \/ GiveUp(p)
             \/ EndSection(p) \/ Return(p) \/ Break(p)
             \/ ReclaimFails(p) /\ UNCHANGED storeVars
      PROVE  LockNext
  BY <1>1 DEF LockNext, LockStep, LockFault, Invoke, WaitForLock, GiveUp,
              EndSection, Return, Break
<1>2. ASSUME NEW p \in Procs,
             \/ Load(p) \/ LoadRejected(p)
             \/ BeginWrite(p) \/ FillTemp(p) \/ Rename(p)
      PROVE  UNCHANGED lockVars
  BY <1>2 DEF Load, LoadRejected, BeginWrite, FillTemp, Rename
<1>3. ASSUME NEW p \in Procs, StoreCallFails(p)
      PROVE  LockUntouched
  BY <1>3 DEF StoreCallFails, LockUntouched
<1>4. ASSUME Tick PROVE LockNext
  BY <1>4 DEF LockNext
<1>5. UNCHANGED vars => UNCHANGED lockVars
  BY DEF vars
<1> QED BY <1>1, <1>2, <1>3, <1>4, <1>5 DEF Next

LEMMA LockTypeKept == LockTypeOK /\ [Next]_vars => LockTypeOK'
<1>1. LockTypeOK /\ LockUntouched => LockTypeOK'
  BY LockAssumption DEF LockTypeOK, LockUntouched, Fault
<1> QED BY <1>1, LockTypeInductive, StepsOfTheLock

\* Under the store, too, no live holder loses its lock file until something
\* fails (HoldersAreNeverRobbed of FileLock).
THEOREM StoreNeverRobbed == Spec => [](LockTypeOK /\ HoldersAreNeverRobbed)
<1>1. Init => LockTypeOK /\ HoldersAreNeverRobbed
  BY LockTypeInductive, NeverRobbedInductive DEF Init
<1>2. LockTypeOK /\ HoldersAreNeverRobbed /\ [Next]_vars => HoldersAreNeverRobbed'
  <2>1. LockTypeOK /\ LockUntouched => HoldersAreNeverRobbed'
    BY LockAssumption DEF LockTypeOK, LockUntouched, Fault, HoldersAreNeverRobbed
  <2> QED BY <2>1, NeverRobbedInductive, StepsOfTheLock
<1> QED BY <1>1, <1>2, LockTypeKept, PTL DEF Spec

-----------------------------------------------------------------------------
\* Reading, changing and writing back give stores and files.
LEMMA ParsedIsStore == ASSUME NEW f \in Files \union {Missing}
                       PROVE  Parsed(f) \in Stores
BY StoreAssumption DEF Parsed, EmptyStore, Files, Stores

LEMMA ModifiedIsStore == ASSUME NEW op \in Requests, NEW recs \in Stores
                         PROVE  Modified(op, recs) \in Stores
<1>1. CASE op.op = "get"    BY <1>1 DEF Modified
<1>2. CASE op.op = "save"
  <2>1. op.record \in Records
    BY <1>2 DEF Requests
  <2> QED BY <1>2, <2>1 DEF Modified, Stores
<1>3. CASE op.op = "delete" BY <1>3 DEF Modified, Stores
<1> QED BY <1>1, <1>2, <1>3 DEF Requests

LEMMA SerializedIsFile == ASSUME NEW recs \in Stores
                          PROVE  /\ Serialized(recs) \in Files
                                 /\ Parsed(Serialized(recs)) = recs
                                 /\ Serialized(recs).format
                                       = (IF EncryptionEnabled THEN "secure" ELSE "plain")
<1>1. Serialized(recs) \in Files
  BY StoreAssumption DEF Serialized, Files, Formats
<1>2. Serialized(recs) # Missing
  BY <1>1, StoreAssumption
<1> QED BY <1>1, <1>2 DEF Serialized, Parsed

\* Types, stages and formats hold at first and are kept by every step.
LEMMA StoreInvInductive ==
    /\ Init => StoreInv
    /\ StoreInv /\ [Next]_vars => StoreInv'
<1>1. Init => StoreInv
  <2> SUFFICES ASSUME Init PROVE StoreInv
    OBVIOUS
  <2> USE DEF Init, LockInit, StoreInit
  <2>1. TypeOK
    <3>1. LockTypeOK
      BY LockTypeInductive
    <3>2. request \in [Procs -> Requests]
      BY DEF Requests
    <3> QED BY <3>1, <3>2 DEF TypeOK
  <2>2. StageOK /\ FormatOK
    BY StoreAssumption DEF StageOK, FormatOK
  <2> QED BY <2>1, <2>2 DEF StoreInv
<1>2. StoreInv /\ [Next]_vars => StoreInv'
  <2> SUFFICES ASSUME StoreInv, [Next]_vars
               PROVE  StoreInv'
    OBVIOUS
  <2>0. LockTypeOK'
    BY LockTypeKept DEF StoreInv, TypeOK
  <2> USE DEF StoreInv, TypeOK, StageOK, FormatOK
  <2>1. ASSUME NEW p \in Procs, Invoke(p) PROVE StoreInv'
    <3>1. PICK op \in Requests : request' = [request EXCEPT ![p] = op]
      BY <2>1 DEF Invoke
    <3>2. /\ \A q \in Procs : pc'[q] = IF q = p THEN "open" ELSE pc[q]
          /\ stage' = [stage EXCEPT ![p] = "load"]
          /\ loaded' = [loaded EXCEPT ![p] = NotLoaded]
          /\ answer' = [answer EXCEPT ![p] = NoRecord]
          /\ outcome' = [outcome EXCEPT ![p] = "none"]
          /\ UNCHANGED <<file, temp>>
      BY <2>1 DEF Invoke, Call, Goto, Proceed, LockTypeOK
    <3>3. TypeOK'
      BY <2>0, <3>1, <3>2
    <3>4. StageOK'
      BY <3>1, <3>2
    <3>5. FormatOK'
      BY <3>2
    <3> QED BY <3>3, <3>4, <3>5
  <2>2. ASSUME NEW p \in Procs, WaitForLock(p) PROVE StoreInv'
    <3> DEFINE loop == {"open", "exists", "reclaim", "wait", "closing"}
    <3>1. /\ pc[p] \in loop /\ pc'[p] \in loop \union {"running"}
          /\ \A q \in Procs : q # p => pc'[q] = pc[q]
      BY <2>2 DEF WaitForLock, Acquire, Goto, OpenCreates, OpenFindsLock, Close,
                  StatFindsStale, StatFindsFresh, Reclaim, LockTypeOK
    <3>2. UNCHANGED storeVars
      BY <2>2 DEF WaitForLock
    <3> QED BY <2>0, <3>1, <3>2 DEF storeVars
  <2>3. ASSUME NEW p \in Procs, GiveUp(p) PROVE StoreInv'
    BY <2>0, <2>3 DEF GiveUp, TimeOut, Goto
  <2>4. ASSUME NEW p \in Procs, Load(p) PROVE StoreInv'
    <3> DEFINE op == request[p]
               recs == Parsed(file)
    <3>1. file \in Files \union {Missing} /\ op \in Requests
      BY <2>4 DEF Load, Unreadable
    <3>2. recs \in Stores /\ Modified(op, recs) \in Stores
      BY <3>1, ParsedIsStore, ModifiedIsStore
    <3>3. recs[op.id] \in Records \union {NoRecord}
      BY <3>1, <3>2 DEF Requests, Stores
    <3>4. ~EncryptionEnabled /\ file \in Files => file.format # "secure"
      BY <2>4, StoreAssumption DEF Load, Unreadable
    <3> HIDE DEF recs
    <3>5. /\ loaded' = [loaded EXCEPT ![p] = Modified(op, recs)]
          /\ answer' = [answer EXCEPT ![p] =
                           IF op.op = "get" THEN recs[op.id] ELSE NoRecord]
          /\ stage' = [stage EXCEPT ![p] =
                          IF op.op = "get" /\ ~Migrated(file) THEN "done" ELSE "begin"]
          /\ pc[p] = "running"
          /\ UNCHANGED <<lockVars, file, temp, request, outcome>>
      BY <2>4 DEF Load, InSection, Proceed, recs
    <3>6. TypeOK'
      BY <2>0, <3>2, <3>3, <3>5
    <3>7. StageOK'
      BY <3>2, <3>5 DEF lockVars
    <3>8. FormatOK'
      BY <3>4, <3>5
    <3> QED BY <3>6, <3>7, <3>8
  <2>5. ASSUME NEW p \in Procs, LoadRejected(p) PROVE StoreInv'
    BY <2>0, <2>5 DEF LoadRejected, InSection, Proceed, lockVars
  <2>6. ASSUME NEW p \in Procs, BeginWrite(p) PROVE StoreInv'
    BY <2>0, <2>6, StoreAssumption DEF BeginWrite, InSection, Proceed, lockVars
  <2>7. ASSUME NEW p \in Procs, FillTemp(p) PROVE StoreInv'
    <3>1. loaded[p] \in Stores
      BY <2>7 DEF FillTemp, InSection
    <3>2. temp' \in Files /\ temp'.format = (IF EncryptionEnabled THEN "secure" ELSE "plain")
      BY <2>7, <3>1, SerializedIsFile DEF FillTemp
    <3> QED BY <2>0, <2>7, <3>2 DEF FillTemp, InSection, Proceed, lockVars
  <2>8. ASSUME NEW p \in Procs, Rename(p) PROVE StoreInv'
    BY <2>0, <2>8, StoreAssumption DEF Rename, InSection, Proceed, lockVars
  <2>9. ASSUME NEW p \in Procs, StoreCallFails(p) PROVE StoreInv'
    BY <2>0, <2>9 DEF StoreCallFails, Proceed
  <2>10. ASSUME NEW p \in Procs, EndSection(p) PROVE StoreInv'
    BY <2>0, <2>10 DEF EndSection, OperationEnds, Goto, storeVars
  <2>11. ASSUME NEW p \in Procs, Return(p) PROVE StoreInv'
    BY <2>0, <2>11 DEF Return, Release, Goto
  <2>12. ASSUME NEW p \in Procs, Break(p) PROVE StoreInv'
    <3>1. /\ \A q \in Procs : pc'[q] = "idle" \/ pc'[q] = pc[q]
          /\ outcome' \in [Procs -> {"none", "ok", "error"}]
          /\ UNCHANGED <<file, temp, stage, loaded, request, answer>>
      BY <2>12 DEF Break, CallFails, Crash, LockTypeOK
    <3> QED BY <2>0, <3>1
  <2>13. ASSUME NEW p \in Procs, ReclaimFails(p) /\ UNCHANGED storeVars PROVE StoreInv'
    BY <2>0, <2>13 DEF ReclaimFails, Goto, storeVars
  <2>14. ASSUME Tick /\ UNCHANGED storeVars PROVE StoreInv'
    <3>1. \A p \in Procs : pc[p] = pc'[p] \/ (pc[p] = "wait" /\ pc'[p] = "open")
      BY <2>14 DEF Tick, LockTypeOK
    <3> QED BY <2>0, <2>14, <3>1 DEF storeVars
  <2>15. CASE UNCHANGED vars
    BY <2>0, <2>15 DEF vars, lockVars, storeVars
  <2> QED BY <2>1, <2>2, <2>3, <2>4, <2>5, <2>6, <2>7, <2>8, <2>9, <2>10, <2>11,
             <2>12, <2>13, <2>14, <2>15 DEF Next
<1> QED BY <1>1, <1>2

\* Every reachable state of the store protocol is well-typed, and operations
\* are in a stage that fits where they are in withFileLock.
THEOREM StoreTypeCorrect == Spec => []StoreInv
BY StoreInvInductive, PTL DEF Spec

-----------------------------------------------------------------------------
\* No step gives up the better format, whatever runs at the same time and
\* whatever fails (readStore and writeStore).
THEOREM FormatsOnlyImprove == Spec => FormatOnlyImproves
<1> DEFINE better == file \notin {Missing, Torn} /\ file' # Torn =>
                        /\ file'.format # "legacy"
                        /\ file.format = "secure" => file'.format = "secure"
<1>1. StoreInv /\ [Next]_vars => [better]_file
  <2> SUFFICES ASSUME StoreInv, [Next]_vars, file' # file,
                      file \notin {Missing, Torn}, file' # Torn
               PROVE  /\ file'.format # "legacy"
                      /\ file.format = "secure" => file'.format = "secure"
    OBVIOUS
  <2>1. PICK p \in Procs : Rename(p)
    BY DEF Next, vars, storeVars, lockVars, Invoke, WaitForLock, GiveUp, Load,
           LoadRejected, BeginWrite, FillTemp, StoreCallFails, EndSection, Return, Break
  <2>2. file' = temp /\ temp \in Files /\ file \in Files /\ stage[p] = "rename"
    BY <2>1 DEF Rename, InSection, StoreInv, TypeOK
  <2> QED BY <2>2 DEF StoreInv, FormatOK
<1> QED BY <1>1, StoreTypeCorrect, PTL DEF Spec, FormatOnlyImproves

-----------------------------------------------------------------------------
\* What one caller does in its section leaves the others', who are in none,
\* as they were.
LEMMA SectionInductive ==
    /\ Init => SectionOK /\ NeverTorn
    /\ StoreInv /\ Exclusive /\ SectionOK /\ NeverTorn /\ [Next]_vars
          => SectionOK' /\ NeverTorn'
<1>1. Init => SectionOK /\ NeverTorn
  BY StoreAssumption DEF Init, LockInit, StoreInit, SectionOK, NeverTorn
<1>2. StoreInv /\ Exclusive /\ SectionOK /\ NeverTorn /\ [Next]_vars
          => SectionOK' /\ NeverTorn'
  <2> SUFFICES ASSUME StoreInv, Exclusive, SectionOK, NeverTorn, [Next]_vars
               PROVE  SectionOK' /\ NeverTorn'
    OBVIOUS
  <2> USE DEF StoreInv, TypeOK, SectionOK, NeverTorn
  <2>1. ASSUME NEW p \in Procs, Invoke(p) PROVE SectionOK' /\ NeverTorn'
    <3>1. /\ \A q \in Procs \ {p} : /\ pc'[q] = pc[q] /\ stage'[q] = stage[q]
                                   /\ loaded'[q] = loaded[q] /\ request'[q] = request[q]
          /\ pc'[p] = "open" /\ UNCHANGED <<file, temp>>
      BY <2>1 DEF Invoke, Call, Goto, Proceed, LockTypeOK
    <3> QED BY <3>1
  <2>2. ASSUME NEW p \in Procs, WaitForLock(p) PROVE SectionOK' /\ NeverTorn'
    <3>1. \A q \in Procs : pc'[q] = "running" => pc[q] = "running" \/ stage[q] = "load"
      BY <2>2 DEF WaitForLock, Acquire, Goto, OpenCreates, OpenFindsLock, Close,
                  StatFindsStale, StatFindsFresh, Reclaim, LockTypeOK, StageOK
    <3> QED BY <2>2, <3>1 DEF WaitForLock, storeVars
  <2>3. ASSUME NEW p \in Procs, InSection(p, stage[p]), UNCHANGED <<pc, request>>,
               \A q \in Procs \ {p} : stage'[q] = stage[q] /\ loaded'[q] = loaded[q],
               /\ stage'[p] \in {"begin", "fill", "rename"}
                     => loaded'[p] = Modified(request[p], Parsed(file'))
               /\ stage'[p] = "rename" => temp' = Serialized(loaded'[p])
        PROVE  SectionOK'
    \* the other callers run nothing
    BY <2>3 DEF Exclusive, InSection
  <2>4. ASSUME NEW p \in Procs, Load(p) PROVE SectionOK' /\ NeverTorn'
    <3>1. /\ InSection(p, "load") /\ UNCHANGED <<pc, request, file, temp>>
          /\ loaded' = [loaded EXCEPT ![p] = Modified(request[p], Parsed(file))]
          /\ \E to \in {"done", "begin"} : stage' = [stage EXCEPT ![p] = to]
      BY <2>4 DEF Load, Proceed, lockVars
    <3> QED BY <2>3, <3>1 DEF InSection
  <2>5. ASSUME NEW p \in Procs, LoadRejected(p) PROVE SectionOK' /\ NeverTorn'
    BY <2>3, <2>5 DEF LoadRejected, InSection, Proceed, lockVars
  <2>6. ASSUME NEW p \in Procs, BeginWrite(p) PROVE SectionOK' /\ NeverTorn'
    BY <2>3, <2>6 DEF BeginWrite, InSection, Proceed, lockVars
  <2>7. ASSUME NEW p \in Procs, FillTemp(p) PROVE SectionOK' /\ NeverTorn'
    BY <2>3, <2>7 DEF FillTemp, InSection, Proceed, lockVars
  <2>8. ASSUME NEW p \in Procs, Rename(p) PROVE SectionOK' /\ NeverTorn'
    <3>1. InSection(p, "rename") /\ temp = Serialized(loaded[p]) /\ loaded[p] \in Stores
      BY <2>8 DEF Rename, InSection, StageOK
    <3>2. file' \in Files
      BY <2>8, <3>1, SerializedIsFile, StoreAssumption DEF Rename
    <3> QED BY <2>3, <2>8, <3>1, <3>2, StoreAssumption
            DEF Rename, InSection, Proceed, lockVars
  <2>9. ASSUME NEW p \in Procs, StoreCallFails(p) PROVE SectionOK' /\ NeverTorn'
    BY <2>3, <2>9 DEF StoreCallFails, InSection, Proceed
  <2>10. ASSUME UNCHANGED <<file, temp, stage, loaded, request>>,
                \A q \in Procs : pc'[q] = "running" => pc[q] = "running"
         PROVE  SectionOK' /\ NeverTorn'
    BY <2>10
  <2>11. ASSUME NEW p \in Procs, GiveUp(p) \/ EndSection(p) \/ Return(p)
         PROVE  SectionOK' /\ NeverTorn'
    BY <2>10, <2>11 DEF GiveUp, TimeOut, EndSection, OperationEnds, Return, Release,
                        Goto, storeVars, LockTypeOK
  <2>12. ASSUME NEW p \in Procs, Break(p) \/ (ReclaimFails(p) /\ UNCHANGED storeVars)
         PROVE  SectionOK' /\ NeverTorn'
    BY <2>10, <2>12 DEF Break, CallFails, Crash, ReclaimFails, Goto, storeVars, LockTypeOK
  <2>13. ASSUME Tick /\ UNCHANGED storeVars PROVE SectionOK' /\ NeverTorn'
    BY <2>10, <2>13 DEF Tick, storeVars, LockTypeOK
  <2>14. CASE UNCHANGED vars
    BY <2>10, <2>14 DEF vars, lockVars, storeVars
  <2> QED BY <2>1, <2>2, <2>4, <2>5, <2>6, <2>7, <2>8, <2>9, <2>11, <2>12, <2>13,
             <2>14 DEF Next
<1> QED BY <1>1, <1>2

\* As long as operations exclude each other the store file is whole, whatever
\* crashes and fails between two steps (writeStore: the store is written to
\* another file and renamed).
THEOREM WholeWhileExclusive == Spec /\ []Exclusive => [](SectionOK /\ NeverTorn)
BY SectionInductive, StoreTypeCorrect, PTL DEF Spec

\* A single caller always finds a whole store, whatever crashed before.
THEOREM OneCallerNeverTorn ==
    ASSUME \A p, q \in Procs : p = q
    PROVE  Spec => []NeverTorn
<1>1. Exclusive
  BY DEF Exclusive
<1> QED BY <1>1, WholeWhileExclusive, PTL

-----------------------------------------------------------------------------
\* The steps of the protocol as steps of AtomicStore.
LEMMA RefinementStep ==
    /\ Init => Atomic!Init
    /\ StoreInv /\ Exclusive /\ SectionOK /\ NeverTorn /\ [Next]_vars
          => [Atomic!Next]_(Atomic!vars)
<1>1. Init => Atomic!Init
  <2> SUFFICES ASSUME Init PROVE Atomic!Init
    OBVIOUS
  <2>1. Parsed(file) \in Stores
    BY ParsedIsStore DEF Init, StoreInit
  <2>2. [p \in Procs |-> Phase(p)] = [p \in Procs |-> "idle"]
    BY DEF Init, LockInit, Phase
  <2> QED BY <2>1, <2>2 DEF Atomic!Init, Atomic!Get, Init, StoreInit, Stores
<1>2. StoreInv /\ Exclusive /\ SectionOK /\ NeverTorn /\ [Next]_vars
          => [Atomic!Next]_(Atomic!vars)
  <2> SUFFICES ASSUME StoreInv, Exclusive, SectionOK, NeverTorn, [Next]_vars
               PROVE  [Atomic!Next]_(Atomic!vars)
    OBVIOUS
  <2> DEFINE phase == [p \in Procs |-> Phase(p)]
  <2> USE DEF StoreInv, TypeOK
  \* stutters: nothing a phase depends on changes, nor the records
  <2>1. ASSUME UNCHANGED <<stage, loaded, request, answer, outcome, file>>,
               \A q \in Procs : (pc'[q] = "idle") <=> (pc[q] = "idle")
        PROVE  UNCHANGED Atomic!vars
    BY <2>1 DEF Atomic!vars, Phase
  <2>2. ASSUME NEW p \in Procs, Invoke(p) PROVE Atomic!Begin(p)
    <3>1. PICK op \in Requests : request' = [request EXCEPT ![p] = op]
      BY <2>2 DEF Invoke
    <3>2. /\ pc[p] = "idle" /\ pc' = [pc EXCEPT ![p] = "open"]
          /\ stage' = [stage EXCEPT ![p] = "load"]
          /\ loaded' = [loaded EXCEPT ![p] = NotLoaded]
          /\ answer' = [answer EXCEPT ![p] = NoRecord]
          /\ outcome' = [outcome EXCEPT ![p] = "none"]
          /\ file' = file
      BY <2>2 DEF Invoke, Call, Goto, Proceed
    <3>3. Phase(p) = "idle" /\ Phase(p)' = "called"
      BY <3>1, <3>2 DEF Phase, LockTypeOK
    <3>4. \A q \in Procs \ {p} : Phase(q)' = Phase(q)
      BY <3>1, <3>2 DEF Phase, LockTypeOK
    <3>5. phase' = [phase EXCEPT ![p] = "called"]
      BY <3>3, <3>4
    <3>6. op \in Atomic!Get \union Atomic!Save \union Atomic!Delete
      BY DEF Atomic!Get, Atomic!Save, Atomic!Delete, Requests
    <3> QED BY <3>1, <3>2, <3>3, <3>5, <3>6 DEF Atomic!Begin
  <2>3. ASSUME NEW p \in Procs, WaitForLock(p) PROVE UNCHANGED Atomic!vars
    <3>1. \A q \in Procs : (pc'[q] = "idle") <=> (pc[q] = "idle")
      BY <2>3 DEF WaitForLock, Acquire, Goto, OpenCreates, OpenFindsLock, Close,
                  StatFindsStale, StatFindsFresh, Reclaim, LockTypeOK
    <3> QED BY <2>1, <2>3, <3>1 DEF WaitForLock, storeVars
  \* the end of an operation
  <2>4. ASSUME NEW p \in Procs, pc[p] # "idle", pc' = [pc EXCEPT ![p] = "idle"],
               UNCHANGED <<file, stage, loaded, request, answer>>
        PROVE  /\ Phase(p) # "idle" /\ phase' = [phase EXCEPT ![p] = "idle"]
               /\ outcome' = [outcome EXCEPT ![p] = "error"] => Atomic!Fail(p)
               /\ Phase(p) = "effected" /\ outcome' = [outcome EXCEPT ![p] = "ok"]
                     => Atomic!Succeed(p)
    <3>1. /\ Phase(p) # "idle" /\ Phase(p)' = "idle"
          /\ \A q \in Procs \ {p} : Phase(q)' = Phase(q)
      BY <2>4 DEF Phase, LockTypeOK
    <3>2. phase' = [phase EXCEPT ![p] = "idle"]
      BY <3>1
    <3> QED BY <2>4, <3>1, <3>2 DEF Atomic!Fail, Atomic!Succeed
  <2>5. ASSUME NEW p \in Procs, GiveUp(p) PROVE Atomic!Fail(p)
    BY <2>4, <2>5 DEF GiveUp, TimeOut, Goto
  <2>6. ASSUME NEW p \in Procs, Break(p) PROVE Atomic!Fail(p)
    BY <2>4, <2>6 DEF Break, CallFails, Crash
  <2>7. ASSUME NEW p \in Procs, Return(p) PROVE Atomic!Fail(p) \/ Atomic!Succeed(p)
    <3>1. pc[p] = "releasing" /\ pc' = [pc EXCEPT ![p] = "idle"]
      BY <2>7 DEF Return, Release, Goto
    <3>2. CASE stage[p] = "done"
      <4>1. Phase(p) = "effected"
        BY <3>1, <3>2, StoreAssumption DEF Phase, StageOK
      <4> QED BY <2>4, <2>7, <3>1, <3>2, <4>1 DEF Return
    <3>3. CASE stage[p] # "done"
      BY <2>4, <2>7, <3>1, <3>3 DEF Return
    <3> QED BY <3>2, <3>3
  \* in the section
  <2>8. ASSUME NEW p \in Procs, Load(p) PROVE Atomic!TakeEffect(p) \/ UNCHANGED Atomic!vars
    <3> DEFINE op == request[p]
               recs == Parsed(file)
    <3>1. /\ pc[p] = "running" /\ stage[p] = "load" /\ op \in Requests
          /\ UNCHANGED <<pc, file, request, outcome>>
          /\ loaded' = [loaded EXCEPT ![p] = Modified(op, recs)]
          /\ answer' = [answer EXCEPT ![p] =
                           IF op.op = "get" THEN recs[op.id] ELSE NoRecord]
          /\ stage' = [stage EXCEPT ![p] =
                          IF op.op = "get" /\ ~Migrated(file) THEN "done" ELSE "begin"]
      BY <2>8 DEF Load, InSection, Proceed, lockVars
    <3>2. recs \in Stores /\ Modified(op, recs) \in Stores
      BY <2>8, <3>1, ParsedIsStore, ModifiedIsStore DEF Load, Unreadable
    <3>3. \A q \in Procs \ {p} : Phase(q)' = Phase(q)
      BY <3>1 DEF Phase
    <3>4. CASE op.op = "get"
      <4>1. Phase(p) = "called" /\ Phase(p)' = "effected"
        BY <3>1, <3>2, <3>4, StoreAssumption DEF Phase, StageOK
      <4>2. phase' = [phase EXCEPT ![p] = "effected"]
        BY <3>3, <4>1
      <4>3. Atomic!Effect(op, recs) = recs /\ Atomic!Answer(op, recs) = recs[op.id]
        BY <3>4 DEF Atomic!Effect, Atomic!Answer
      <4>4. Parsed(file)' = Parsed(file)
        BY <3>1
      <4> QED BY <3>1, <3>4, <4>1, <4>2, <4>3, <4>4 DEF Atomic!TakeEffect
    <3>5. CASE op.op # "get"
      <4>1. Phase(p) = "called" /\ Phase(p)' = "called"
        BY <3>1, <3>5 DEF Phase
      <4>2. phase' = phase
        BY <3>3, <4>1
      <4>3. answer' = answer
        BY <3>1, <3>5 DEF StageOK
      <4>4. Parsed(file)' = Parsed(file)
        BY <3>1
      <4> QED BY <3>1, <4>2, <4>3, <4>4 DEF Atomic!vars
    <3> QED BY <3>4, <3>5
  <2>9. ASSUME NEW p \in Procs, pc[p] = "running", stage[p] # "done",
               \E to \in {"fill", "rename", "failed"} : stage' = [stage EXCEPT ![p] = to],
               UNCHANGED <<pc, file, loaded, request, answer, outcome>>
        PROVE  UNCHANGED Atomic!vars
    <3>1. \A q \in Procs : Phase(q)' = Phase(q)
      BY <2>9 DEF Phase
    <3>2. phase' = phase /\ Parsed(file)' = Parsed(file)
      BY <2>9, <3>1
    <3> QED BY <2>9, <3>2 DEF Atomic!vars
  <2>10. ASSUME NEW p \in Procs,
                LoadRejected(p) \/ BeginWrite(p) \/ FillTemp(p) \/ StoreCallFails(p)
         PROVE  UNCHANGED Atomic!vars
    BY <2>9, <2>10 DEF LoadRejected, BeginWrite, FillTemp, StoreCallFails, InSection,
                       Proceed, lockVars
  <2>11. ASSUME NEW p \in Procs, Rename(p)
         PROVE  Atomic!TakeEffect(p) \/ UNCHANGED Atomic!vars
    <3> DEFINE op == request[p]
               recs == Parsed(file)
    <3>1. /\ pc[p] = "running" /\ stage[p] = "rename" /\ op \in Requests
          /\ temp = Serialized(loaded[p]) /\ loaded[p] \in Stores
          /\ loaded[p] = Modified(op, recs)
      BY <2>11 DEF Rename, InSection, SectionOK, StageOK
    <3>2. temp # Missing /\ Parsed(temp) = Modified(op, recs)
      BY <3>1, SerializedIsFile, StoreAssumption
    <3>3. /\ file' = temp /\ stage' = [stage EXCEPT ![p] = "done"]
          /\ UNCHANGED <<pc, loaded, request, answer, outcome>>
      BY <2>11, <3>2 DEF Rename, Proceed, lockVars
    <3>4. Parsed(file)' = Modified(op, recs)
      BY <3>2, <3>3 DEF Parsed
    <3>5. \A q \in Procs \ {p} : Phase(q)' = Phase(q)
      BY <3>3 DEF Phase
    <3>6. CASE op.op = "get"
      <4>1. Phase(p)' = Phase(p)
        BY <3>1, <3>3, <3>6, StoreAssumption DEF Phase
      <4>2. phase' = phase
        BY <3>5, <4>1
      <4>3. Modified(op, recs) = recs
        BY <3>6 DEF Modified
      <4> QED BY <3>3, <3>4, <4>2, <4>3 DEF Atomic!vars
    <3>7. CASE op.op # "get"
      <4>1. Phase(p) = "called" /\ Phase(p)' = "effected"
        BY <3>1, <3>3, <3>7 DEF Phase
      <4>2. phase' = [phase EXCEPT ![p] = "effected"]
        BY <3>5, <4>1
      <4>3. Modified(op, recs) = Atomic!Effect(op, recs)
        BY DEF Modified, Atomic!Effect
      <4>4. answer[p] = NoRecord /\ Atomic!Answer(op, recs) = NoRecord
        BY <3>1, <3>7 DEF StageOK, Atomic!Answer
      <4>5. answer' = [answer EXCEPT ![p] = Atomic!Answer(op, recs)]
        BY <3>3, <4>4
      <4> QED BY <3>3, <3>4, <4>1, <4>2, <4>3, <4>5 DEF Atomic!TakeEffect
    <3> QED BY <3>6, <3>7
  <2>12. ASSUME NEW p \in Procs, EndSection(p) \/ (ReclaimFails(p) /\ UNCHANGED storeVars)
         PROVE  UNCHANGED Atomic!vars
    BY <2>1, <2>12 DEF EndSection, OperationEnds, ReclaimFails, Goto, storeVars, LockTypeOK
  <2>13. ASSUME Tick /\ UNCHANGED storeVars PROVE UNCHANGED Atomic!vars
    BY <2>1, <2>13 DEF Tick, storeVars, LockTypeOK
  <2>14. CASE UNCHANGED vars
    BY <2>1, <2>14 DEF vars, lockVars, storeVars
  <2> QED BY <2>2, <2>3, <2>5, <2>6, <2>7, <2>8, <2>10, <2>11, <2>12, <2>13, <2>14
          DEF Next, Atomic!Next
<1> QED BY <1>1, <1>2

\* The file protocol implements the atomic store as long as operations exclude
\* each other, with every crash and failing call between two of its steps.
THEOREM AtomicWhileExclusive == Spec /\ []Exclusive => ImplementsAtomicStore
BY RefinementStep, StoreTypeCorrect, WholeWhileExclusive, PTL
   DEF Spec, ImplementsAtomicStore, Atomic!Spec

\* Several callers have an atomic store until something fails.
THEOREM AtomicWithoutFaults == Spec /\ [](faults = 0) => ImplementsAtomicStore
<1>1. HoldersAreNeverRobbed /\ faults = 0 => Exclusive
  BY DEF HoldersAreNeverRobbed, Holding, Exclusive
<1> QED BY <1>1, StoreNeverRobbed, AtomicWhileExclusive, PTL

\* A single caller has one through all crashes and failing calls.
THEOREM OneCallerAtomic ==
    ASSUME \A p, q \in Procs : p = q
    PROVE  Spec => ImplementsAtomicStore
<1>1. Exclusive
  BY DEF Exclusive
<1> QED BY <1>1, AtomicWhileExclusive, PTL
===============================================================================
