--------------------------- MODULE ActivationStore ----------------------------
(***************************************************************************)
(* The JSON activation store of src/src/licensing/FileActivationStore.ts.  *)
(* Each operation runs under the lock of FileLock: it reads the whole      *)
(* file, changes one record in memory, writes the whole store to a         *)
(* temporary file whose name all callers share, and renames it into place. *)
(* Crashes and failing calls can hit between any two of these steps.       *)
(***************************************************************************)
EXTENDS FileLock

CONSTANTS
    Licenses,           \* license ids
    Records,            \* activation records
    NoRecord,           \* null
    EncryptionEnabled,  \* this installation has an encryption secret
    Missing,            \* there is no file of that name
    Torn,               \* a file with part of a store in it
    NotLoaded           \* the operation has not read the store yet

VARIABLES
    file,     \* what filePath holds
    temp,     \* what filePath.tmp holds
    stage,    \* how far each operation has come in its critical section
    loaded,   \* the store as each operation has it in memory
    request, answer, outcome  \* as in AtomicStore

storeVars == <<file, temp, stage, loaded, request, answer, outcome>>
vars == <<lockVars, storeVars>>

Stores == [Licenses -> Records \union {NoRecord}]

\* "legacy": without the records property; "plain" and "secure": current
\* shape, readable and encrypted.
Formats == {"legacy", "plain", "secure"}
Files == [format : Formats, records : Stores]

ASSUME StoreAssumption ==
    /\ EncryptionEnabled \in BOOLEAN
    /\ Missing \notin Files /\ Torn \notin Files /\ Missing # Torn
    /\ NotLoaded \notin Stores

Requests ==
    [op : {"get"}, id : Licenses]
        \union [op : {"save"}, id : Licenses, record : Records]
        \union [op : {"delete"}, id : Licenses]

StoreInit ==
    /\ file \in Files \union {Missing}
    /\ temp = Missing
    /\ stage = [p \in Procs |-> "done"]
    /\ loaded = [p \in Procs |-> NotLoaded]
    /\ request \in [Procs -> [op : {"get"}, id : Licenses]]
    /\ answer = [p \in Procs |-> NoRecord]
    /\ outcome = [p \in Procs |-> "none"]

Init == LockInit /\ StoreInit

-----------------------------------------------------------------------------
EmptyStore == [l \in Licenses |-> NoRecord]

\* Mutation of Unreadable: encrypted content counts as readable without a key.
Unreadable_OnlyTorn(f) == f = Torn

\* readStore throws: the content is no JSON, which includes encrypted content
\* when there is no secret to decrypt it with.
Unreadable(f) ==
    \/ f = Torn
    \/ f # Missing /\ f.format = "secure" /\ ~EncryptionEnabled

\* The store readStore and normalizeParsedStore return.
Parsed(f) == IF f = Missing THEN EmptyStore ELSE f.records

\* readStore reports migrated: an old shape, or plaintext under encryption.
Migrated(f) ==
    f # Missing /\ f.format # (IF EncryptionEnabled THEN "secure" ELSE "plain")

\* What writeStore writes.
Serialized(recs) ==
    [format |-> IF EncryptionEnabled THEN "secure" ELSE "plain", records |-> recs]

\* The store as the operation leaves it in memory after reading it.
Modified(op, recs) ==
    CASE op.op = "get"    -> recs
      [] op.op = "save"   -> [recs EXCEPT ![op.id] = op.record]
      [] op.op = "delete" -> [recs EXCEPT ![op.id] = NoRecord]

InSection(p, at) == pc[p] = "running" /\ stage[p] = at

Proceed(p, to) == stage' = [stage EXCEPT ![p] = to]

\* getByLicenseId, save or deleteByLicenseId is called.
Invoke(p) ==
    /\ Call(p)
    /\ Proceed(p, "load")
    /\ loaded' = [loaded EXCEPT ![p] = NotLoaded]
    /\ \E op \in Requests : request' = [request EXCEPT ![p] = op]
    /\ answer' = [answer EXCEPT ![p] = NoRecord]
    /\ outcome' = [outcome EXCEPT ![p] = "none"]
    /\ UNCHANGED <<file, temp>>

WaitForLock(p) == Acquire(p) /\ UNCHANGED storeVars

GiveUp(p) ==
    /\ TimeOut(p)
    /\ outcome' = [outcome EXCEPT ![p] = "error"]
    /\ UNCHANGED <<file, temp, stage, loaded, request, answer>>

\* Mutation of Load: the store is read while the lock is still awaited.
Load_OutsideTheLock(p) ==
    /\ pc[p] # "idle" /\ stage[p] = "load"
    /\ ~Unreadable(file)
    /\ LET op == request[p] IN
       /\ loaded' = [loaded EXCEPT ![p] = Modified(op, Parsed(file))]
       /\ answer' = [answer EXCEPT ![p] =
                        IF op.op = "get" THEN Parsed(file)[op.id] ELSE NoRecord]
       /\ Proceed(p, IF op.op = "get" /\ ~Migrated(file) THEN "done" ELSE "begin")
    /\ UNCHANGED <<lockVars, file, temp, request, outcome>>

\* readStore, and the change of the one record in memory.  A lookup goes on
\* to write only what it has migrated.
Load(p) ==
    /\ InSection(p, "load")
    /\ ~Unreadable(file)
    /\ LET op == request[p] IN
       /\ loaded' = [loaded EXCEPT ![p] = Modified(op, Parsed(file))]
       /\ answer' = [answer EXCEPT ![p] =
                        IF op.op = "get" THEN Parsed(file)[op.id] ELSE NoRecord]
       /\ Proceed(p, IF op.op = "get" /\ ~Migrated(file) THEN "done" ELSE "begin")
    /\ UNCHANGED <<lockVars, file, temp, request, outcome>>

LoadRejected(p) ==
    /\ InSection(p, "load")
    /\ Unreadable(file)
    /\ Proceed(p, "failed")
    /\ UNCHANGED <<lockVars, file, temp, loaded, request, answer, outcome>>

\* Mutation of BeginWrite: filePath itself is truncated.
BeginWrite_InPlace(p) ==
    /\ InSection(p, "begin")
    /\ file' = Torn
    /\ Proceed(p, "fill")
    /\ UNCHANGED <<lockVars, temp, loaded, request, answer, outcome>>

\* mkdir; fs.writeFile creates or truncates filePath.tmp ...
BeginWrite(p) ==
    /\ InSection(p, "begin")
    /\ temp' = Torn
    /\ Proceed(p, "fill")
    /\ UNCHANGED <<lockVars, file, loaded, request, answer, outcome>>

\* ... and has written all of the content.
FillTemp(p) ==
    /\ InSection(p, "fill")
    /\ temp' = Serialized(loaded[p])
    /\ Proceed(p, "rename")
    /\ UNCHANGED <<lockVars, file, loaded, request, answer, outcome>>

\* fs.rename replaces filePath by whatever filePath.tmp holds; it throws when
\* another caller has renamed the temporary file already.
Rename(p) ==
    /\ InSection(p, "rename")
    /\ file' = IF temp = Missing THEN file ELSE temp
    /\ temp' = Missing
    /\ Proceed(p, IF temp = Missing THEN "failed" ELSE "done")
    /\ UNCHANGED <<lockVars, loaded, request, answer, outcome>>

\* readFile, mkdir, writeFile or rename fails: the operation throws.
StoreCallFails(p) ==
    /\ Fault
    /\ pc[p] = "running"
    /\ stage[p] \in {"load", "begin", "fill", "rename"}
    /\ Proceed(p, "failed")
    /\ UNCHANGED <<pc, lock, lockAge, waited, held>>
    /\ UNCHANGED <<file, temp, loaded, request, answer, outcome>>

EndSection(p) ==
    /\ stage[p] \in {"done", "failed"}
    /\ OperationEnds(p)
    /\ UNCHANGED storeVars

\* The lock is released and the caller gets the result or the error.
Return(p) ==
    /\ Release(p)
    /\ outcome' = [outcome EXCEPT ![p] =
                      IF stage[p] = "done" THEN "ok" ELSE "error"]
    /\ UNCHANGED <<file, temp, stage, loaded, request, answer>>

\* withFileLock throws, or the process dies: nobody gets a result.
Break(p) ==
    /\ CallFails(p) \/ Crash(p)
    /\ outcome' = [outcome EXCEPT ![p] = "error"]
    /\ UNCHANGED <<file, temp, stage, loaded, request, answer>>

Next ==
    \/ \E p \in Procs :
          \/ Invoke(p) \/ WaitForLock(p) \/ GiveUp(p)
          \/ Load(p) \/ LoadRejected(p)
          \/ BeginWrite(p) \/ FillTemp(p) \/ Rename(p)
          \/ StoreCallFails(p) \/ EndSection(p) \/ Return(p) \/ Break(p)
          \/ ReclaimFails(p) /\ UNCHANGED storeVars
    \/ Tick /\ UNCHANGED storeVars

Spec == Init /\ [][Next]_vars

-----------------------------------------------------------------------------
TypeOK ==
    /\ LockTypeOK
    /\ file \in Files \union {Missing, Torn}
    /\ temp \in Files \union {Missing, Torn}
    /\ stage \in [Procs -> {"load", "begin", "fill", "rename", "done", "failed"}]
    /\ loaded \in [Procs -> Stores \union {NotLoaded}]
    /\ request \in [Procs -> Requests]
    /\ answer \in [Procs -> Records \union {NoRecord}]
    /\ outcome \in [Procs -> {"none", "ok", "error"}]

\* The store file is never a part of a store, whatever crashes and fails: the
\* next start of the program can read what the last one left.
NeverTorn == file # Torn

\* No migration step gives up the better format: an encrypted store is never
\* replaced by a readable one, the old shape never comes back.
FormatOnlyImproves ==
    [][file \notin {Missing, Torn} /\ file' # Torn =>
          /\ file'.format # "legacy"
          /\ file.format = "secure" => file'.format = "secure"]_file

\* The phase of an operation in the terms of AtomicStore: a lookup takes
\* effect when it has read the file, a change when its file is in place.
Phase(p) ==
    IF pc[p] = "idle" THEN "idle"
    ELSE IF \/ request[p].op = "get" /\ loaded[p] # NotLoaded
            \/ request[p].op # "get" /\ stage[p] = "done"
         THEN "effected"
         ELSE "called"

Atomic == INSTANCE AtomicStore WITH
    Clients <- Procs,
    records <- Parsed(file),
    phase <- [p \in Procs |-> Phase(p)]

\* The file protocol implements the atomic store.
ImplementsAtomicStore == Atomic!Spec
===============================================================================
