------------------------ MODULE ActivationServiceProofs ------------------------
(***************************************************************************)
(* Theorems about ActivationService, for every set of callers, machines    *)
(* and licenses, any number of calls and of failing operations: every      *)
(* activation in the store is in the audit log, and calls that do not      *)
(* overlap neither replace an activation nor bring an old one back.        *)
(***************************************************************************)
EXTENDS ActivationService, TLAPS

\* An activation that is about to be stored or logged has a record.
PendingOK ==
    \A c \in Callers : pc[c] \in {"save", "logActivated"} => pending[c] # NoRecord

\* Activation ids are given out in order, so that a new one is in no record.
IdsGiven ==
    /\ \A c \in Callers : pending[c] # NoRecord => pending[c].activationId <= lastId
    /\ \A l \in Licenses : records[l] # NoRecord => records[l].activationId <= lastId
    /\ \A l \in Licenses, r \in Record :
          SuccessOf(l, r) \in audit => r.activationId <= lastId

\* Until calls overlap one of them is in progress at most, and what it has
\* looked up is still so: it stores the record there is, or a new one.
AloneOK ==
    ~overlapped =>
        /\ \A c, d \in Callers : pc[c] # "idle" /\ pc[d] # "idle" => c = d
        /\ \A c \in Callers : pc[c] = "save" =>
              \/ records[license[c]] = pending[c]
              \/ /\ records[license[c]] = NoRecord
                 /\ SuccessOf(license[c], pending[c]) \notin audit

ServiceInv == TypeOK /\ PendingOK /\ IdsGiven /\ AloneOK /\ ActivationsAreAudited

-----------------------------------------------------------------------------
\* What callers are told, and what is logged, is of the declared forms.
LEMMA ResultFacts ==
    /\ \A e \in Errors : Refuse(e) \in Results
    /\ \A r \in Record : [kind |-> "record", record |-> r] \in Results
    /\ \A k \in {"none", "null", "removed"} : [kind |-> k] \in Results
BY DEF Refuse, Results

LEMMA EventFacts ==
    ASSUME NEW l \in Licenses
    PROVE  /\ \A r \in Record : SuccessOf(l, r) \in AuditEvents
           /\ [type |-> "deactivate", success |-> TRUE, license |-> l] \in AuditEvents
           /\ \A t \in {"activate", "deactivate"} :
                 [type |-> t, success |-> FALSE, license |-> l] \in AuditEvents
BY DEF SuccessOf, AuditEvents

\* A call that starts is one more in progress.
LEMMA BeginKeepsType ==
    ASSUME TypeOK, PendingOK, NEW c \in Callers, NEW l \in Licenses, NEW m \in Machines,
           NEW step \in {"lookup", "remove", "read"}, Begin(c, l, m, step),
           calls' \in 0 .. MaxCalls
    PROVE  TypeOK' /\ PendingOK'
<1>1. /\ license' = [license EXCEPT ![c] = l] /\ machine' = [machine EXCEPT ![c] = m]
      /\ pc' = [pc EXCEPT ![c] = IF l \in expired THEN "idle" ELSE step]
      /\ result' = [result EXCEPT ![c] =
            IF l \in expired THEN Refuse("invalid") ELSE [kind |-> "none"]]
      /\ pending' = [pending EXCEPT ![c] = NoRecord]
      /\ overlapped' = (overlapped \/ \E d \in Callers \ {c} : pc[d] # "idle")
      /\ UNCHANGED <<records, audit, storeDir, expired, lastId, faults>>
  BY DEF Begin, Tell
<1>2. Refuse("invalid") \in Results /\ [kind |-> "none"] \in Results
  BY ResultFacts DEF Errors
<1>3. /\ license' \in [Callers -> Licenses] /\ machine' \in [Callers -> Machines]
      /\ pc' \in [Callers -> Steps] /\ pending' \in [Callers -> Record \union {NoRecord}]
  BY <1>1 DEF TypeOK, Steps
<1>4. result' \in [Callers -> Results]
  BY <1>1, <1>2 DEF TypeOK
<1>5. TypeOK'
  BY <1>1, <1>3, <1>4 DEF TypeOK
<1>6. PendingOK'
  BY <1>1 DEF TypeOK, PendingOK
<1> QED BY <1>5, <1>6

\* A store or log operation that fails is counted, or the store is not there.
LEMMA FaultsCounted ==
    ASSUME TypeOK, Fault \/ StoreFails \/ UNCHANGED faults
    PROVE  faults' \in 0 .. MaxFaults
BY ServiceAssumption DEF TypeOK, Fault, StoreFails

\* Every step of a call keeps the types, and a record in an activation's hands.
LEMMA CallsKeepType ==
    ASSUME TypeOK, PendingOK, NEW c \in Callers,
           Activate(c) \/ Deactivate(c) \/ GetActivation(c)
    PROVE  TypeOK' /\ PendingOK'
<1> DEFINE l == license[c]
<1>1. /\ l \in Licenses /\ machine[c] \in Machines /\ lastId \in Nat
      /\ records[l] \in Record \union {NoRecord}
      /\ pending[c] \in Record \union {NoRecord}
  BY DEF TypeOK
<1>2. CASE \E step \in {"lookup", "remove", "read"} : Start(c, step)
  <2>1. calls' \in 0 .. MaxCalls
    BY <1>2, ServiceAssumption DEF Start, TypeOK
  <2> QED BY <1>2, <2>1, BeginKeepsType DEF Start
<1>3. CASE Lookup(c)
  <2>1. CASE Goto(c, "lookup", "save")
    <3> DEFINE new == [activationId |-> lastId + 1, machine |-> machine[c]]
    <3>1. /\ pc' = [pc EXCEPT ![c] = "save"]
          /\ \/ lastId' = lastId + 1 /\ pending' = [pending EXCEPT ![c] = new]
             \/ /\ lastId' = lastId /\ records[l] # NoRecord
                /\ pending' = [pending EXCEPT ![c] = records[l]]
          /\ UNCHANGED <<records, audit, storeDir, expired, license, machine, result,
                         counts, faults>>
      <4>1. pc'[c] = "save"
        BY <2>1 DEF Goto, TypeOK
      <4> QED BY <1>3, <2>1, <4>1 DEF Lookup, Goto, StoreWorks, TypeOK
    <3>2. new \in Record /\ new # NoRecord
      BY <1>1, ServiceAssumption DEF Record
    <3> HIDE DEF new
    <3>3. TypeOK'
      BY <3>1, <3>2, <1>1 DEF TypeOK, Steps, counts
    <3>4. PendingOK'
      BY <3>1, <3>2 DEF PendingOK, TypeOK
    <3> QED BY <3>3, <3>4
  <2>2. CASE Goto(c, "lookup", "logNotActivated")
    <3>1. Refuse("elsewhere") \in Results
      BY ResultFacts DEF Errors
    <3>2. /\ pc' = [pc EXCEPT ![c] = "logNotActivated"]
          /\ result' = [result EXCEPT ![c] = Refuse("elsewhere")]
          /\ UNCHANGED <<records, audit, storeDir, expired, license, machine, pending,
                         lastId, counts, faults>>
      BY <1>3, <2>2 DEF Lookup, Goto, StoreWorks, Tell, TypeOK
    <3> QED BY <3>1, <3>2 DEF TypeOK, PendingOK, Steps, counts
  <2> QED BY <1>3, <2>1, <2>2 DEF Lookup
<1>4. CASE SaveRecord(c)
  <2>1. /\ pc[c] = "save" /\ pc' = [pc EXCEPT ![c] = "logActivated"]
        /\ records' = [records EXCEPT ![l] = pending[c]]
        /\ UNCHANGED <<audit, storeDir, expired, license, machine, pending, result,
                       lastId, counts, faults>>
    BY <1>4 DEF SaveRecord, Goto, StoreWorks
  <2> QED BY <1>1, <2>1 DEF TypeOK, PendingOK, Steps, counts
<1>5. ASSUME NEW s \in {"logNotActivated", "logNotRemoved", "idle"},
             NEW e \in {"storage", "audit"},
             pc' = [pc EXCEPT ![c] = s], Tell(c, Refuse(e)),
             Fault \/ StoreFails,
             UNCHANGED <<records, audit, storeDir, expired, license, machine, pending,
                         lastId, counts>>
      PROVE  TypeOK' /\ PendingOK'
  <2>1. Refuse(e) \in Results
    BY ResultFacts DEF Errors
  <2>2. faults' \in 0 .. MaxFaults
    BY <1>5, FaultsCounted
  <2> QED BY <1>5, <2>1, <2>2 DEF TypeOK, PendingOK, Steps, counts, Tell
<1>6. CASE LookupFails(c) \/ SaveFails(c) \/ LogActivatedFails(c)
           \/ RemoveFails(c) \/ LogRemovedFails(c) \/ ReadFails(c)
  BY <1>5, <1>6 DEF LookupFails, SaveFails, LogActivatedFails, RemoveFails,
                    LogRemovedFails, ReadFails, Goto
<1>7. ASSUME NEW e \in AuditEvents, Append(e), pc' = [pc EXCEPT ![c] = "idle"],
             result' \in [Callers -> Results],
             UNCHANGED <<records, expired, license, machine, pending, lastId, counts>>
      PROVE  TypeOK' /\ PendingOK'
  BY <1>7, ServiceAssumption DEF Append, TypeOK, PendingOK, Steps, counts
<1>8. CASE LogActivated(c)
  <2>1. pending[c] \in Record
    BY <1>1, <1>8 DEF LogActivated, Goto, PendingOK
  <2>2. [kind |-> "record", record |-> pending[c]] \in Results
    BY <2>1, ResultFacts
  <2>3. result' \in [Callers -> Results]
    BY <1>8, <2>2 DEF LogActivated, Tell, TypeOK
  <2>4. SuccessOf(l, pending[c]) \in AuditEvents
    BY <1>1, <2>1, EventFacts
  <2> QED BY <1>7, <1>8, <2>3, <2>4 DEF LogActivated, Goto, SuccessOf
<1>9. CASE LogRemoved(c)
  <2>1. [kind |-> "removed"] \in Results
    BY ResultFacts
  <2>2. result' \in [Callers -> Results]
    BY <1>9, <2>1 DEF LogRemoved, Tell, TypeOK
  <2>3. [type |-> "deactivate", success |-> TRUE, license |-> l] \in AuditEvents
    BY <1>1, EventFacts
  <2> QED BY <1>7, <1>9, <2>2, <2>3 DEF LogRemoved, Goto
<1>10. ASSUME NEW s, NEW type \in {"activate", "deactivate"}, LogFailure(c, s, type)
       PROVE  TypeOK' /\ PendingOK'
  <2> DEFINE e == [type |-> type, success |-> FALSE, license |-> l]
  <2>1. e \in AuditEvents
    BY <1>1, EventFacts
  <2>2. /\ pc' = [pc EXCEPT ![c] = "idle"]
        /\ UNCHANGED <<records, expired, license, machine, pending, lastId, counts>>
    BY <1>10 DEF LogFailure, Goto
  <2>3. CASE Append(e) /\ UNCHANGED result
    <3>1. result' \in [Callers -> Results]
      BY <2>3 DEF TypeOK
    <3> HIDE DEF e
    <3> QED BY <1>7, <2>1, <2>2, <2>3, <3>1
  <2>4. CASE Fault /\ Tell(c, Refuse("audit")) /\ UNCHANGED <<audit, storeDir>>
    BY <1>5, <2>2, <2>4
  <2> QED BY <1>10, <2>3, <2>4 DEF LogFailure
<1>11. CASE Remove(c)
  <2>1. /\ pc' = [pc EXCEPT ![c] = "logRemoved"]
        /\ records' = [records EXCEPT ![l] = NoRecord]
        /\ UNCHANGED <<audit, storeDir, expired, license, machine, pending, result,
                       lastId, counts, faults>>
    BY <1>11 DEF Remove, Goto, StoreWorks
  <2> QED BY <1>1, <2>1 DEF TypeOK, PendingOK, Steps, counts
<1>12. CASE Read(c)
  <2>1. \E r \in Results : Tell(c, r)
    <3>1. Refuse("elsewhere") \in Results
      BY ResultFacts DEF Errors
    <3>2. records[l] # NoRecord =>
             [kind |-> "record", record |-> records[l]] \in Results
      BY <1>1, ResultFacts
    <3>3. [kind |-> "null"] \in Results
      BY ResultFacts
    <3> QED BY <1>12, <3>1, <3>2, <3>3 DEF Read
  <2>2. /\ pc' = [pc EXCEPT ![c] = "idle"]
        /\ UNCHANGED <<records, audit, storeDir, expired, license, machine, pending,
                       lastId, counts, faults>>
    BY <1>12 DEF Read, Goto, StoreWorks
  <2> QED BY <2>1, <2>2 DEF TypeOK, PendingOK, Steps, counts, Tell
<1> QED
  BY <1>2, <1>3, <1>4, <1>6, <1>8, <1>9, <1>10, <1>11, <1>12
  DEF Activate, Deactivate, GetActivation, StartActivate, StartDeactivate,
      StartGetActivation, LogNotActivated, LogNotRemoved

\* While no calls overlap, after a step of one of them no other is about to
\* store anything.
LEMMA AloneKept ==
    ASSUME TypeOK, AloneOK, NEW c \in Callers, pc[c] # "idle",
           NEW s \in Steps \ {"save"}, pc' = [pc EXCEPT ![c] = s],
           UNCHANGED overlapped
    PROVE  AloneOK'
<1> SUFFICES ASSUME ~overlapped
             PROVE  /\ \A d, e \in Callers : pc'[d] # "idle" /\ pc'[e] # "idle" => d = e
                    /\ \A d \in Callers : pc'[d] # "save"
  BY DEF AloneOK
<1>1. \A d \in Callers \ {c} : pc[d] = "idle" /\ pc'[d] = "idle"
  BY DEF AloneOK, TypeOK
<1>2. pc'[c] = s
  BY DEF TypeOK
<1> QED BY <1>1, <1>2

\* Steps that store nothing and log no activation keep the invariant, when the
\* one that gives up logging an activation counts as a fault.
LEMMA QuietStepKeepsInv ==
    ASSUME ServiceInv, TypeOK', PendingOK', NEW c \in Callers, pc[c] # "idle",
           NEW s \in Steps \ {"save", "logActivated"}, pc' = [pc EXCEPT ![c] = s],
           UNCHANGED <<records, license, pending, lastId, overlapped>>,
           audit \subseteq audit',
           \A l \in Licenses, r \in Record : SuccessOf(l, r) \in audit' => SuccessOf(l, r) \in audit,
           pc[c] # "logActivated" \/ faults' > 0,
           faults' = faults \/ faults' > 0
    PROVE  ServiceInv'
<1>1. IdsGiven'
  BY DEF ServiceInv, IdsGiven
<1>2. AloneOK'
  BY AloneKept DEF ServiceInv
<1>3. ActivationsAreAudited'
  <2>1. \A d \in Callers : pc[d] = "logActivated" => pc'[d] = "logActivated" \/ faults' > 0
    BY DEF ServiceInv, TypeOK
  <2>2. faults > 0 => faults' > 0
    OBVIOUS
  <2>3. \A l \in Licenses : SuccessOf(l, records[l]) \in audit => SuccessOf(l, records[l]) \in audit'
    OBVIOUS
  <2> QED BY <2>1, <2>2, <2>3 DEF ServiceInv, ActivationsAreAudited
<1> QED BY <1>1, <1>2, <1>3 DEF ServiceInv

\* A failure event is no activation, and neither is a deactivation.
LEMMA OtherEvents ==
    ASSUME NEW l, NEW r
    PROVE  /\ \A k, t : SuccessOf(l, r) # [type |-> t, success |-> FALSE, license |-> k]
           /\ \A k : SuccessOf(l, r) # [type |-> "deactivate", success |-> TRUE, license |-> k]
<1>1. /\ SuccessOf(l, r).success = TRUE /\ SuccessOf(l, r).type = "activate"
      /\ \A k, t : [type |-> t, success |-> FALSE, license |-> k].success = FALSE
      /\ \A k : [type |-> "deactivate", success |-> TRUE, license |-> k].type = "deactivate"
  BY DEF SuccessOf
<1> QED BY <1>1

\* The invariant holds initially and is kept by every step of every call.
LEMMA ServiceInvInductive ==
    /\ Init => ServiceInv
    /\ ServiceInv /\ [Next]_vars => ServiceInv'
<1>1. Init => ServiceInv
  <2> SUFFICES ASSUME Init
               PROVE  ServiceInv
    OBVIOUS
  <2>1. TypeOK
    <3>1. result \in [Callers -> Results]
      BY ResultFacts DEF Init
    <3>2. /\ records \in [Licenses -> Record \union {NoRecord}]
          /\ pc \in [Callers -> Steps]
          /\ pending \in [Callers -> Record \union {NoRecord}]
      BY DEF Init, Steps
    <3>3. 0 \in 0 .. MaxCalls /\ 0 \in 0 .. MaxFaults
      BY ServiceAssumption
    <3> QED BY <3>1, <3>2, <3>3 DEF Init, TypeOK
  <2>2. PendingOK /\ IdsGiven /\ AloneOK /\ ActivationsAreAudited
    BY DEF Init, PendingOK, IdsGiven, AloneOK, ActivationsAreAudited
  <2> QED BY <2>1, <2>2 DEF ServiceInv
<1>2. ServiceInv /\ [Next]_vars => ServiceInv'
  <2> SUFFICES ASSUME ServiceInv, [Next]_vars
               PROVE  ServiceInv'
    OBVIOUS
  <2>1. ASSUME NEW c \in Callers, Activate(c) \/ Deactivate(c) \/ GetActivation(c)
        PROVE  ServiceInv'
    <3> DEFINE l == license[c]
    <3> USE DEF counts
    <3>1. TypeOK' /\ PendingOK'
      BY <2>1, CallsKeepType DEF ServiceInv
    <3>2. /\ l \in Licenses /\ machine[c] \in Machines /\ lastId \in Nat
          /\ records[l] \in Record \union {NoRecord}
          /\ pending[c] \in Record \union {NoRecord}
          /\ faults \in Nat
      BY DEF ServiceInv, TypeOK
    <3>3. ASSUME NEW k \in Licenses, NEW m \in Machines,
                 NEW step \in {"lookup", "remove", "read"}, Begin(c, k, m, step)
          PROVE  ServiceInv'
      <4>1. /\ pc[c] = "idle"
            /\ pc'[c] # "save" /\ license' = [license EXCEPT ![c] = k]
            /\ pending' = [pending EXCEPT ![c] = NoRecord]
            /\ \A d \in Callers \ {c} : pc'[d] = pc[d]
            /\ overlapped' = (overlapped \/ \E d \in Callers \ {c} : pc[d] # "idle")
            /\ UNCHANGED <<records, audit, lastId, faults>>
        BY <3>3 DEF Begin, ServiceInv, TypeOK
      <4>2. IdsGiven'
        BY <4>1 DEF ServiceInv, IdsGiven, TypeOK
      <4>3. AloneOK'
        BY <4>1 DEF ServiceInv, AloneOK, TypeOK
      <4>4. ActivationsAreAudited'
        BY <4>1 DEF ServiceInv, ActivationsAreAudited, TypeOK
      <4> QED BY <3>1, <4>2, <4>3, <4>4 DEF ServiceInv
    <3>4. CASE Lookup(c) /\ Goto(c, "lookup", "save")
      <4> DEFINE new == [activationId |-> lastId + 1, machine |-> machine[c]]
      <4>1. /\ pc[c] = "lookup" /\ pc' = [pc EXCEPT ![c] = "save"]
            /\ \/ /\ records[l] = NoRecord /\ lastId' = lastId + 1
                  /\ pending' = [pending EXCEPT ![c] = new]
               \/ /\ lastId' = lastId /\ records[l] # NoRecord
                  /\ pending' = [pending EXCEPT ![c] = records[l]]
            /\ UNCHANGED <<records, audit, license, overlapped, faults>>
        <5>1. pc'[c] = "save"
          BY <3>4 DEF Goto, ServiceInv, TypeOK
        <5> QED BY <3>4, <5>1 DEF Lookup, Goto, StoreWorks, ServiceInv, TypeOK
      <4>2. new \in Record /\ new # NoRecord /\ new.activationId = lastId + 1
        BY <3>2, ServiceAssumption DEF Record
      <4> HIDE DEF new
      <4>3. \A r \in Record : r.activationId \in Nat
        BY DEF Record
      <4>4. IdsGiven'
        <5>1. \A d \in Callers : pending'[d] # NoRecord => pending'[d].activationId <= lastId'
          BY <3>2, <4>1, <4>2, <4>3 DEF ServiceInv, IdsGiven, TypeOK
        <5>2. \A k \in Licenses : records[k] # NoRecord => records[k].activationId <= lastId'
          BY <3>2, <4>1, <4>3 DEF ServiceInv, IdsGiven, TypeOK
        <5>3. \A k \in Licenses, r \in Record :
                 SuccessOf(k, r) \in audit => r.activationId <= lastId'
          BY <3>2, <4>1, <4>3 DEF ServiceInv, IdsGiven, TypeOK
        <5> QED BY <4>1, <5>1, <5>2, <5>3 DEF IdsGiven
      <4>5. AloneOK'
        <5> SUFFICES ASSUME ~overlapped
                     PROVE  AloneOK'
          BY <4>1 DEF AloneOK
        <5>1. \A d \in Callers \ {c} : pc[d] = "idle" /\ pc'[d] = "idle"
          BY <4>1 DEF ServiceInv, AloneOK, TypeOK
        <5>2. \/ records[l] = pending'[c]
              \/ records[l] = NoRecord /\ SuccessOf(l, pending'[c]) \notin audit
          <6>1. SuccessOf(l, new) \notin audit
            BY <3>2, <4>2 DEF ServiceInv, IdsGiven
          <6> QED BY <4>1, <6>1 DEF ServiceInv, TypeOK
        <5> QED BY <4>1, <5>1, <5>2 DEF AloneOK
      <4>6. ActivationsAreAudited'
        BY <4>1 DEF ServiceInv, ActivationsAreAudited, TypeOK
      <4> QED BY <3>1, <4>4, <4>5, <4>6 DEF ServiceInv
    <3>5. CASE SaveRecord(c)
      <4>1. /\ pc[c] = "save" /\ pc' = [pc EXCEPT ![c] = "logActivated"]
            /\ records' = [records EXCEPT ![l] = pending[c]]
            /\ UNCHANGED <<audit, license, pending, lastId, overlapped, faults>>
        BY <3>5 DEF SaveRecord, Goto, StoreWorks
      <4>2. IdsGiven'
        BY <3>2, <4>1 DEF ServiceInv, IdsGiven, TypeOK
      <4>3. AloneOK'
        BY <4>1, AloneKept DEF ServiceInv, Steps
      <4>4. ActivationsAreAudited'
        BY <3>2, <4>1 DEF ServiceInv, ActivationsAreAudited, TypeOK
      <4> QED BY <3>1, <4>2, <4>3, <4>4 DEF ServiceInv
    <3>6. CASE Remove(c)
      <4>1. /\ pc[c] = "remove" /\ pc' = [pc EXCEPT ![c] = "logRemoved"]
            /\ records' = [records EXCEPT ![l] = NoRecord]
            /\ UNCHANGED <<audit, license, pending, lastId, overlapped, faults>>
        BY <3>6 DEF Remove, Goto, StoreWorks
      <4>2. IdsGiven'
        BY <3>2, <4>1 DEF ServiceInv, IdsGiven, TypeOK
      <4>3. AloneOK'
        BY <4>1, AloneKept DEF ServiceInv, Steps
      <4>4. ActivationsAreAudited'
        BY <3>2, <4>1 DEF ServiceInv, ActivationsAreAudited, TypeOK
      <4> QED BY <3>1, <4>2, <4>3, <4>4 DEF ServiceInv
    <3>7. CASE LogActivated(c)
      <4>1. /\ pc[c] = "logActivated" /\ pc' = [pc EXCEPT ![c] = "idle"]
            /\ audit' = audit \union {SuccessOf(l, pending[c])}
            /\ UNCHANGED <<records, license, pending, lastId, overlapped, faults>>
        BY <3>7 DEF LogActivated, Goto, Append, SuccessOf
      <4>2. pending[c] \in Record /\ pending[c] # NoRecord
        BY <3>2, <4>1 DEF ServiceInv, PendingOK
      <4>3. IdsGiven'
        <5>1. \A k \in Licenses, r \in Record :
                 SuccessOf(k, r) = SuccessOf(l, pending[c]) => r = pending[c]
          BY DEF SuccessOf
        <5> QED BY <4>1, <4>2, <5>1 DEF ServiceInv, IdsGiven
      <4>4. AloneOK'
        BY <4>1, AloneKept DEF ServiceInv, Steps
      <4>5. ActivationsAreAudited'
        BY <4>1 DEF ServiceInv, ActivationsAreAudited, TypeOK
      <4> QED BY <3>1, <4>3, <4>4, <4>5 DEF ServiceInv
    <3>8. CASE \/ Lookup(c) /\ Goto(c, "lookup", "logNotActivated")
               \/ LookupFails(c) \/ SaveFails(c) \/ RemoveFails(c) \/ LogRemovedFails(c)
               \/ Read(c) \/ ReadFails(c)
      <4>1. PICK s \in {"logNotActivated", "logNotRemoved", "idle"} :
               pc' = [pc EXCEPT ![c] = s]
        BY <3>8 DEF Goto, LookupFails, SaveFails, RemoveFails, LogRemovedFails, Read, ReadFails
      <4>2. /\ pc[c] \notin {"idle", "logActivated"}
            /\ UNCHANGED <<records, audit, license, pending, lastId, overlapped>>
        <5>1. CASE Lookup(c) /\ Goto(c, "lookup", "logNotActivated")
          <6>1. pc'[c] = "logNotActivated"
            BY <5>1 DEF Goto, ServiceInv, TypeOK
          <6> QED BY <5>1, <6>1 DEF Goto, Lookup, ServiceInv, TypeOK
        <5>2. CASE \/ LookupFails(c) \/ SaveFails(c) \/ RemoveFails(c)
                   \/ LogRemovedFails(c) \/ Read(c) \/ ReadFails(c)
          BY <5>2 DEF Goto, LookupFails, SaveFails, RemoveFails, LogRemovedFails,
                      Read, ReadFails
        <5> QED BY <3>8, <5>1, <5>2
      <4>3. faults' = faults \/ faults' > 0
        BY <3>2, <3>8 DEF Lookup, LookupFails, SaveFails, RemoveFails, LogRemovedFails, Read,
                    ReadFails, StoreWorks, StoreFails, Fault
      <4> QED BY <3>1, <4>1, <4>2, <4>3, QuietStepKeepsInv DEF Steps
    <3>9. CASE LogActivatedFails(c)
      <4>1. /\ pc[c] = "logActivated" /\ pc' = [pc EXCEPT ![c] = "logNotActivated"]
            /\ UNCHANGED <<records, audit, license, pending, lastId, overlapped>>
            /\ faults' > 0
        BY <3>2, <3>9 DEF LogActivatedFails, Goto, Fault
      <4> QED BY <3>1, <4>1, QuietStepKeepsInv DEF Steps
    <3>10. CASE LogRemoved(c) \/ LogNotActivated(c) \/ LogNotRemoved(c)
      <4>1. /\ pc[c] \notin {"idle", "logActivated"} /\ pc' = [pc EXCEPT ![c] = "idle"]
            /\ UNCHANGED <<records, license, pending, lastId, overlapped>>
            /\ faults' = faults \/ faults' > 0
        BY <3>2, <3>10 DEF LogRemoved, LogNotActivated, LogNotRemoved, LogFailure, Goto,
                           Append, Fault
      <4>2. \/ audit' = audit
            \/ \E t : audit' = audit \union {[type |-> t, success |-> FALSE, license |-> l]}
            \/ audit' = audit
                  \union {[type |-> "deactivate", success |-> TRUE, license |-> l]}
        BY <3>10 DEF LogRemoved, LogNotActivated, LogNotRemoved, LogFailure, Append
      <4>3. /\ audit \subseteq audit'
            /\ \A k \in Licenses, r \in Record :
                  SuccessOf(k, r) \in audit' => SuccessOf(k, r) \in audit
        BY <4>2, OtherEvents
      <4> QED BY <3>1, <4>1, <4>3, QuietStepKeepsInv DEF Steps
    <3> QED
      BY <2>1, <3>3, <3>4, <3>5, <3>6, <3>7, <3>8, <3>9, <3>10
      DEF Activate, Deactivate, GetActivation, StartActivate, StartDeactivate,
          StartGetActivation, Start, Lookup
  <2>2. CASE Expire
    BY <2>2 DEF Expire, ServiceInv, callVars, counts, TypeOK, PendingOK, IdsGiven,
                AloneOK, ActivationsAreAudited
  <2>3. CASE Done \/ UNCHANGED vars
    BY <2>3 DEF Done, vars, ServiceInv, callVars, counts, TypeOK, PendingOK, IdsGiven,
                AloneOK, ActivationsAreAudited
  <2> QED BY <2>1, <2>2, <2>3 DEF Next
<1> QED BY <1>1, <1>2

\* In every state new ids are unused and, until calls overlap, a call in
\* progress still knows the record there is (activate).
THEOREM ServiceSafety == Spec => []ServiceInv
BY ServiceInvInductive, PTL DEF Spec

\* Every variable keeps its type.
THEOREM ServiceTypeCorrect == Spec => []TypeOK
<1>1. ServiceInv => TypeOK
  BY DEF ServiceInv
<1> QED BY <1>1, ServiceSafety, PTL

\* For every number of overlapping calls, an activation in the store is in the
\* audit log or about to be logged, as long as no store or log operation fails
\* (ActivationService.ts, activate).
THEOREM StoredActivationsAreAudited == Spec => []ActivationsAreAudited
<1>1. ServiceInv => ActivationsAreAudited
  BY DEF ServiceInv
<1> QED BY <1>1, ServiceSafety, PTL

\* The only step that stores a record for a license is the save of a call that
\* activates it.
LEMMA OnlySaveStores ==
    ASSUME ServiceInv, Next, NEW l \in Licenses,
           records'[l] # NoRecord, records'[l] # records[l]
    PROVE  \E c \in Callers : /\ pc[c] = "save" /\ license[c] = l
                              /\ records'[l] = pending[c]
<1>1. PICK c \in Callers : Activate(c) \/ Deactivate(c) \/ GetActivation(c)
  BY DEF Next, Expire, Done, vars
<1>2. CASE SaveRecord(c)
  BY <1>2 DEF SaveRecord, Goto, ServiceInv, TypeOK
<1>3. CASE Remove(c)
  BY <1>3 DEF Remove, ServiceInv, TypeOK
<1>4. CASE (Deactivate(c) /\ ~Remove(c)) \/ GetActivation(c)
  BY <1>4 DEF Deactivate, GetActivation, StartDeactivate, StartGetActivation, Start, Begin,
              RemoveFails, LogRemoved, LogRemovedFails, LogNotRemoved, LogFailure, Read, ReadFails
<1>5. CASE Activate(c) /\ ~SaveRecord(c)
  BY <1>5 DEF Activate, StartActivate, Start, Begin, Lookup, LookupFails, SaveFails,
              LogActivated, LogActivatedFails, LogNotActivated, LogFailure
<1> QED BY <1>1, <1>2, <1>3, <1>4, <1>5

\* Until calls overlap, activating again keeps the activation there is: same
\* machine, same id, also after calls that failed half-way.
THEOREM ActivationsAreKept == Spec => KeepsActivation
<1> DEFINE Kept == \A l \in Licenses :
                      ~overlapped /\ records[l] # NoRecord /\ records'[l] # NoRecord
                          => records'[l] = records[l]
<1>1. ServiceInv /\ [Next]_vars => [Kept]_records
  <2> SUFFICES ASSUME ServiceInv, Next, NEW l \in Licenses, ~overlapped,
                      records[l] # NoRecord, records'[l] # NoRecord,
                      records'[l] # records[l]
               PROVE  FALSE
    BY DEF vars
  <2>1. PICK c \in Callers : pc[c] = "save" /\ license[c] = l /\ records'[l] = pending[c]
    BY OnlySaveStores
  <2> QED BY <2>1 DEF ServiceInv, AloneOK
<1> QED BY <1>1, ServiceSafety, PTL DEF Spec, KeepsActivation

\* Until calls overlap, what is stored for a license without activation was
\* never logged before: a deactivated activation does not come back.
THEOREM NewActivationsAreFresh == Spec => NewActivationIsFresh
<1> DEFINE Fresh == \A l \in Licenses :
                       ~overlapped /\ records[l] = NoRecord /\ records'[l] # NoRecord
                           => SuccessOf(l, records'[l]) \notin audit
<1>1. ServiceInv /\ [Next]_vars => [Fresh]_records
  <2> SUFFICES ASSUME ServiceInv, Next, NEW l \in Licenses, ~overlapped,
                      records[l] = NoRecord, records'[l] # NoRecord
               PROVE  SuccessOf(l, records'[l]) \notin audit
    BY DEF vars
  <2>1. PICK c \in Callers : pc[c] = "save" /\ license[c] = l /\ records'[l] = pending[c]
    BY OnlySaveStores
  <2> QED BY <2>1 DEF ServiceInv, AloneOK
<1> QED BY <1>1, ServiceSafety, PTL DEF Spec, NewActivationIsFresh
===============================================================================
