-------------------------- MODULE ActivationService ---------------------------
(***************************************************************************)
(* The activation lifecycle of src/src/licensing/ActivationService.ts over *)
(* an activation store and an audit log that several callers share: other  *)
(* requests of the same server, other processes, other machines that reach *)
(* the same store (ActivationService.test.ts runs two machines on one).    *)
(* Each call awaits the store and the log; every await is a step.  A store *)
(* operation is one step, which is what AtomicStore promises and           *)
(* ActivationStore implements.                                             *)
(***************************************************************************)
EXTENDS Naturals

CONSTANTS
    Callers,     \* calls that can be in progress at the same time
    Machines,    \* machine fingerprints
    Licenses,    \* license ids
    NoRecord,    \* null: the license is not activated
    SharedDir,   \* store and audit log live in one directory, as by default
    MaxCalls,    \* bound on the calls explored
    MaxFaults    \* bound on the failing store and log operations explored

ASSUME ServiceAssumption ==
    /\ NoRecord \notin [activationId : Nat, machine : Machines]
    /\ SharedDir \in BOOLEAN
    /\ MaxCalls \in Nat
    /\ MaxFaults \in Nat

VARIABLES
    records,   \* the activation record of each license, or NoRecord
    audit,     \* the audit events written
    storeDir,  \* the directory of the activation store exists
    expired,   \* licenses whose expiresAt has passed
    pc,        \* where each call is
    license, machine,  \* what each call is about and where it runs
    pending,   \* the record each activation is about to store or report
    result,    \* what each caller was told last
    lastId,    \* randomUUID: activation ids given out so far
    calls,     \* calls begun
    overlapped,  \* whether a call has begun while another was in progress
    faults

callVars == <<pc, license, machine, pending, result>>
counts == <<calls, overlapped>>
vars == <<records, audit, storeDir, expired, callVars, lastId, counts, faults>>

Record == [activationId : Nat, machine : Machines]

Steps == {"idle", "lookup", "save", "logActivated", "logNotActivated",
          "remove", "logRemoved", "logNotRemoved", "read"}

Errors == {"invalid", "elsewhere", "storage", "audit"}

Results == [kind : {"none", "null", "removed"}]
               \union [kind : {"record"}, record : Record]
               \union [kind : {"error"}, error : Errors]

AuditEvents ==
    [type : {"activate"}, success : {TRUE}, license : Licenses, record : Record]
        \union [type : {"deactivate"}, success : {TRUE}, license : Licenses]
        \union [type : {"activate", "deactivate"}, success : {FALSE},
                license : Licenses]

Init ==
    /\ records = [l \in Licenses |-> NoRecord]
    /\ audit = {}
    /\ storeDir \in BOOLEAN
    /\ expired = {}
    /\ pc = [c \in Callers |-> "idle"]
    /\ license \in [Callers -> Licenses]
    /\ machine \in [Callers -> Machines]
    /\ pending = [c \in Callers |-> NoRecord]
    /\ result = [c \in Callers |-> [kind |-> "none"]]
    /\ lastId = 0
    /\ calls = 0
    /\ overlapped = FALSE
    /\ faults = 0

-----------------------------------------------------------------------------
Goto(c, from, to) == pc[c] = from /\ pc' = [pc EXCEPT ![c] = to]

Tell(c, r) == result' = [result EXCEPT ![c] = r]

Refuse(e) == [kind |-> "error", error |-> e]

Fault == faults < MaxFaults /\ faults' = faults + 1

\* Opening the lock file of the store fails while its directory is missing:
\* the directory is only made by writeStore, inside the lock.
StoreFails == (~storeDir /\ UNCHANGED faults) \/ Fault

StoreWorks == storeDir /\ UNCHANGED faults

\* A call starts.  assertValid throws for an expired license, outside of the
\* try block and without an audit event; then the fingerprint is read.
Begin(c, l, m, step) ==
    /\ pc[c] = "idle"
    /\ license' = [license EXCEPT ![c] = l]
    /\ machine' = [machine EXCEPT ![c] = m]
    /\ pc' = [pc EXCEPT ![c] = IF l \in expired THEN "idle" ELSE step]
    /\ Tell(c, IF l \in expired THEN Refuse("invalid") ELSE [kind |-> "none"])
    /\ pending' = [pending EXCEPT ![c] = NoRecord]
    /\ overlapped' = (overlapped \/ \E d \in Callers \ {c} : pc[d] # "idle")
    /\ UNCHANGED <<records, audit, storeDir, expired, lastId, faults>>

Start(c, step) ==
    /\ calls < MaxCalls
    /\ calls' = calls + 1
    /\ \E l \in Licenses, m \in Machines : Begin(c, l, m, step)

StartActivate(c) == Start(c, "lookup")

\* Mutations of Lookup: a new id although this machine has the license;
\* ids that are not unique.
Lookup_AlwaysNewId(c) ==
    LET existing == records[license[c]] IN
    /\ StoreWorks
    /\ IF existing = NoRecord THEN TRUE ELSE existing.machine = machine[c]
    /\ Goto(c, "lookup", "save")
    /\ lastId' = lastId + 1
    /\ pending' = [pending EXCEPT ![c] =
          [activationId |-> lastId + 1, machine |-> machine[c]]]
    /\ UNCHANGED <<records, audit, storeDir, expired, license, machine, result, counts>>

Lookup_ReusesIds(c) ==
    /\ StoreWorks
    /\ Goto(c, "lookup", "save")
    /\ pending' = [pending EXCEPT ![c] = [activationId |-> 1, machine |-> machine[c]]]
    /\ UNCHANGED <<records, audit, storeDir, expired, license, machine, result,
                   lastId, counts>>

\* store.getByLicenseId answers: nobody has the license, or this machine has
\* it and keeps its activation id, or another machine has it.
Lookup(c) ==
    LET existing == records[license[c]] IN
    /\ StoreWorks
    /\ \/ /\ existing = NoRecord
          /\ Goto(c, "lookup", "save")
          /\ lastId' = lastId + 1
          /\ pending' = [pending EXCEPT ![c] =
                [activationId |-> lastId + 1, machine |-> machine[c]]]
          /\ UNCHANGED result
       \/ /\ existing # NoRecord
          /\ existing.machine = machine[c]
          /\ Goto(c, "lookup", "save")
          /\ pending' = [pending EXCEPT ![c] = existing]
          /\ UNCHANGED <<lastId, result>>
       \/ /\ existing # NoRecord
          /\ existing.machine # machine[c]
          /\ Goto(c, "lookup", "logNotActivated")
          /\ Tell(c, Refuse("elsewhere"))
          /\ UNCHANGED <<lastId, pending>>
    /\ UNCHANGED <<records, audit, storeDir, expired, license, machine, counts>>

LookupFails(c) ==
    /\ StoreFails
    /\ Goto(c, "lookup", "logNotActivated")
    /\ Tell(c, Refuse("storage"))
    /\ UNCHANGED <<records, audit, storeDir, expired, license, machine, pending,
                   lastId, counts>>

\* Mutation of SaveRecord: the call returns without the audit event.
SaveRecord_ReturnsAtOnce(c) ==
    /\ StoreWorks
    /\ Goto(c, "save", "idle")
    /\ records' = [records EXCEPT ![license[c]] = pending[c]]
    /\ Tell(c, [kind |-> "record", record |-> pending[c]])
    /\ UNCHANGED <<audit, storeDir, expired, license, machine, pending, lastId, counts>>

\* store.save takes the lock anew and overwrites whatever record is there.
SaveRecord(c) ==
    /\ StoreWorks
    /\ Goto(c, "save", "logActivated")
    /\ records' = [records EXCEPT ![license[c]] = pending[c]]
    /\ UNCHANGED <<audit, storeDir, expired, license, machine, pending, result,
                   lastId, counts>>

SaveFails(c) ==
    /\ StoreFails
    /\ Goto(c, "save", "logNotActivated")
    /\ Tell(c, Refuse("storage"))
    /\ UNCHANGED <<records, audit, storeDir, expired, license, machine, pending,
                   lastId, counts>>

\* FileLicenseAuditLogger.log makes its directory before it appends.
Append(event) ==
    /\ audit' = audit \union {event}
    /\ storeDir' = (storeDir \/ SharedDir)
    /\ UNCHANGED faults

LogActivated(c) ==
    /\ Goto(c, "logActivated", "idle")
    /\ Append([type |-> "activate", success |-> TRUE,
               license |-> license[c], record |-> pending[c]])
    /\ Tell(c, [kind |-> "record", record |-> pending[c]])
    /\ UNCHANGED <<records, expired, license, machine, pending, lastId, counts>>

\* Logging is inside the try block: when it fails after the save the call
\* goes on as if the activation itself had failed.
LogActivatedFails(c) ==
    /\ Fault
    /\ Goto(c, "logActivated", "logNotActivated")
    /\ Tell(c, Refuse("audit"))
    /\ UNCHANGED <<records, audit, storeDir, expired, license, machine, pending,
                   lastId, counts>>

\* The catch block logs the failure and rethrows.
LogFailure(c, step, type) ==
    /\ Goto(c, step, "idle")
    /\ \/ /\ Append([type |-> type, success |-> FALSE, license |-> license[c]])
          /\ UNCHANGED result
       \/ /\ Fault
          /\ Tell(c, Refuse("audit"))
          /\ UNCHANGED <<audit, storeDir>>
    /\ UNCHANGED <<records, expired, license, machine, pending, lastId, counts>>

LogNotActivated(c) == LogFailure(c, "logNotActivated", "activate")

Activate(c) ==
    \/ StartActivate(c) \/ Lookup(c) \/ LookupFails(c)
    \/ SaveRecord(c) \/ SaveFails(c)
    \/ LogActivated(c) \/ LogActivatedFails(c) \/ LogNotActivated(c)

-----------------------------------------------------------------------------
StartDeactivate(c) == Start(c, "remove")

\* store.deleteByLicenseId, whichever machine the record is bound to.
Remove(c) ==
    /\ StoreWorks
    /\ Goto(c, "remove", "logRemoved")
    /\ records' = [records EXCEPT ![license[c]] = NoRecord]
    /\ UNCHANGED <<audit, storeDir, expired, license, machine, pending, result,
                   lastId, counts>>

RemoveFails(c) ==
    /\ StoreFails
    /\ Goto(c, "remove", "logNotRemoved")
    /\ Tell(c, Refuse("storage"))
    /\ UNCHANGED <<records, audit, storeDir, expired, license, machine, pending,
                   lastId, counts>>

LogRemoved(c) ==
    /\ Goto(c, "logRemoved", "idle")
    /\ Append([type |-> "deactivate", success |-> TRUE, license |-> license[c]])
    /\ Tell(c, [kind |-> "removed"])
    /\ UNCHANGED <<records, expired, license, machine, pending, lastId, counts>>

LogRemovedFails(c) ==
    /\ Fault
    /\ Goto(c, "logRemoved", "logNotRemoved")
    /\ Tell(c, Refuse("audit"))
    /\ UNCHANGED <<records, audit, storeDir, expired, license, machine, pending,
                   lastId, counts>>

LogNotRemoved(c) == LogFailure(c, "logNotRemoved", "deactivate")

Deactivate(c) ==
    \/ StartDeactivate(c) \/ Remove(c) \/ RemoveFails(c)
    \/ LogRemoved(c) \/ LogRemovedFails(c) \/ LogNotRemoved(c)

-----------------------------------------------------------------------------
StartGetActivation(c) == Start(c, "read")

\* getActivation: null, the record of this machine, or an error.
Read(c) ==
    LET existing == records[license[c]] IN
    /\ StoreWorks
    /\ Goto(c, "read", "idle")
    /\ Tell(c, IF existing = NoRecord THEN [kind |-> "null"]
               ELSE IF existing.machine # machine[c] THEN Refuse("elsewhere")
               ELSE [kind |-> "record", record |-> existing])
    /\ UNCHANGED <<records, audit, storeDir, expired, license, machine, pending,
                   lastId, counts>>

ReadFails(c) ==
    /\ StoreFails
    /\ Goto(c, "read", "idle")
    /\ Tell(c, Refuse("storage"))
    /\ UNCHANGED <<records, audit, storeDir, expired, license, machine, pending,
                   lastId, counts>>

GetActivation(c) == StartGetActivation(c) \/ Read(c) \/ ReadFails(c)

\* The expiry date of a license passes.
Expire ==
    /\ \E l \in Licenses \ expired : expired' = expired \union {l}
    /\ UNCHANGED <<records, audit, storeDir, callVars, lastId, counts, faults>>

\* Every explored call has been answered and every license has expired.
Done ==
    /\ calls = MaxCalls /\ expired = Licenses
    /\ \A c \in Callers : pc[c] = "idle"
    /\ UNCHANGED vars

Next ==
    \/ \E c \in Callers : Activate(c) \/ Deactivate(c) \/ GetActivation(c)
    \/ Expire
    \/ Done

Spec == Init /\ [][Next]_vars

-----------------------------------------------------------------------------
TypeOK ==
    /\ records \in [Licenses -> Record \union {NoRecord}]
    /\ audit \subseteq AuditEvents
    /\ storeDir \in BOOLEAN
    /\ expired \subseteq Licenses
    /\ pc \in [Callers -> Steps]
    /\ license \in [Callers -> Licenses]
    /\ machine \in [Callers -> Machines]
    /\ pending \in [Callers -> Record \union {NoRecord}]
    /\ result \in [Callers -> Results]
    /\ lastId \in Nat
    /\ calls \in 0 .. MaxCalls
    /\ overlapped \in BOOLEAN
    /\ faults \in 0 .. MaxFaults

SuccessOf(l, r) ==
    [type |-> "activate", success |-> TRUE, license |-> l, record |-> r]

\* Whatever the calls overtake of each other, an activation that is in the
\* store is in the audit log too, or the call that stored it is about to log
\* it, as long as no write of the log fails (activate, lines 98-104).
ActivationsAreAudited ==
    \A l \in Licenses : records[l] # NoRecord =>
        \/ SuccessOf(l, records[l]) \in audit
        \/ faults > 0
        \/ \E c \in Callers : /\ pc[c] = "logActivated"
                              /\ license[c] = l /\ pending[c] = records[l]

\* Activating again never replaces an activation: same machine, same id and
\* date, also after a call that failed half-way and was repeated, until calls
\* overlap: lookup and save lock the store separately.
KeepsActivation ==
    [][\A l \in Licenses :
          ~overlapped /\ records[l] # NoRecord /\ records'[l] # NoRecord
              => records'[l] = records[l]]_records

\* A deactivated activation does not come back: what is stored for a license
\* without activation is a new one.  This too holds until calls overlap.
NewActivationIsFresh ==
    [][\A l \in Licenses :
          ~overlapped /\ records[l] = NoRecord /\ records'[l] # NoRecord
              => SuccessOf(l, records'[l]) \notin audit]_records

\* ActivationService.ts:74, "@throws LicenseError If license is invalid or
\* already activated on another machine": the machine of a license changes
\* only through a deactivation, never because a second machine activates.
ActivatedElsewhereIsRefused ==
    [][\A l \in Licenses :
          records[l] # NoRecord /\ records'[l] # NoRecord
              => records'[l].machine = records[l].machine]_records

===============================================================================
