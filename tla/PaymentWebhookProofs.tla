------------------------- MODULE PaymentWebhookProofs --------------------------
(***************************************************************************)
(* Theorems about PaymentWebhook, for every set of requests, events, users *)
(* and licenses and any number of faults and restarts: an event is marked  *)
(* only when it is applied, and without overlapping deliveries each event  *)
(* is accepted, and revokes, once.                                         *)
(***************************************************************************)
EXTENDS PaymentWebhook, ActivationServiceProofs

webhookAll == <<serviceVars, webhookVars>>

\* A request is about an event while it is in progress, and in a deactivation
\* only while it applies the event.
RequestsOK ==
    \A h \in Handlers :
        /\ step[h] # "idle" => event[h] \in Events
        /\ step[h] = "applying" => event[h] \in Revoking
        /\ step[h] # "applying" => pc[h] = "idle"

\* A deactivation that has removed the record has applied its event, whether
\* or not its audit event could be written.
AppliedOK ==
    \A h \in Handlers : step[h] = "applying" =>
        \/ pc[h] = "remove"
        \/ pc[h] = "logRemoved" /\ event[h] \in applied
        \/ pc[h] = "logNotRemoved" /\ result[h].kind = "error"
        \/ pc[h] = "idle" /\ result[h].kind = "error"
        \/ pc[h] = "idle" /\ event[h] \in applied

\* Until a restart or overlapping deliveries of one event: a request in
\* progress is the only one about its event, which was not accepted before; an
\* event that was accepted is marked.
DeliveredOnce ==
    restarts = 0 /\ ~doubled =>
        /\ \A h, i \in Handlers : step[h] # "idle" /\ step[i] # "idle" /\ event[h] = event[i]
              => h = i
        /\ \A h \in Handlers : step[h] # "idle" => accepted[event[h]] = 0
        /\ \A h \in Handlers : step[h] = "log" => event[h] \in processed
        /\ \A e \in Events : accepted[e] > 0 => accepted[e] = 1 /\ e \in processed

WebhookInv ==
    /\ WebhookTypeOK /\ PendingOK
    /\ RequestsOK /\ AppliedOK
    /\ MarkedMeansApplied
    /\ DeliveredOnce

-----------------------------------------------------------------------------
\* The service's state keeps its types when users and requests interleave and
\* the server restarts.
LEMMA ServicePartKeepsType ==
    ASSUME WebhookInv, [WebhookNext]_webhookAll
    PROVE  TypeOK' /\ PendingOK'
<1> USE DEF WebhookInv, WebhookTypeOK
<1>1. CASE UserStep
  BY <1>1, CallsKeepType DEF UserStep, Users
<1>2. ASSUME NEW h \in Handlers, DeactivationStep(h)
      PROVE  TypeOK' /\ PendingOK'
  BY <1>2, CallsKeepType, WebhookAssumption DEF DeactivationStep, Deactivate
<1>3. ASSUME NEW h \in Handlers, NEW e \in Events, ReceiveRevoking(h, e)
      PROVE  TypeOK' /\ PendingOK'
  <2>1. h \in Callers /\ EventLicense[e] \in Licenses /\ machine[h] \in Machines
    BY WebhookAssumption DEF TypeOK
  <2>2. Begin(h, EventLicense[e], machine[h], "remove") /\ calls' = calls
    BY <1>3 DEF ReceiveRevoking
  <2>3. calls' \in 0 .. MaxCalls
    BY <2>2 DEF TypeOK
  <2> QED BY <2>1, <2>2, <2>3, BeginKeepsType
<1>4. CASE UNCHANGED serviceVars
  BY <1>4 DEF serviceVars, callVars, counts, TypeOK, PendingOK
<1>5. ASSUME NEW h \in Handlers, MarkRevoking(h) \/ RevokingFails(h)
      PROVE  UNCHANGED serviceVars
  BY <1>5 DEF MarkRevoking, RevokingFails
<1>6. ASSUME NEW h \in Handlers, Accept(h) \/ LogFails(h)
      PROVE  TypeOK' /\ PendingOK'
  <2>1. /\ storeDir' \in BOOLEAN /\ faults' \in 0 .. MaxFaults
        /\ UNCHANGED <<records, audit, expired, callVars, lastId, counts>>
    BY <1>6, ServiceAssumption DEF Accept, LogFails, Fault, TypeOK
  <2> QED BY <2>1 DEF callVars, counts, TypeOK, PendingOK
<1>7. CASE ExpireLicense
  BY <1>7 DEF ExpireLicense, Expire, callVars, counts, TypeOK, PendingOK
<1>8. CASE Restart
  BY <1>8 DEF Restart, counts, TypeOK, PendingOK, Steps
<1>9. ASSUME NEW e \in Events,
             Age(e) \/ \E h \in Handlers : Reject(h, e) \/ ReceiveOther(h, e)
      PROVE  UNCHANGED serviceVars
  BY <1>9 DEF Age, Reject, ReceiveOther
<1>10. CASE UNCHANGED webhookAll
  BY <1>4, <1>10 DEF webhookAll
<1> QED
  BY <1>1, <1>2, <1>3, <1>4, <1>5, <1>6, <1>7, <1>8, <1>9, <1>10
  DEF WebhookNext, Deliver, Handle

\* A step of one call leaves where the others are, and what they were told.
LEMMA OthersUntouched ==
    ASSUME TypeOK, NEW c \in Callers, NEW d \in Callers, c # d,
           Activate(c) \/ Deactivate(c) \/ GetActivation(c)
    PROVE  pc'[d] = pc[d] /\ result'[d] = result[d]
<1> USE DEF TypeOK, Goto, Tell
<1>1. CASE Activate(c)
  BY <1>1 DEF Activate, StartActivate, Start, Begin, Lookup, LookupFails, SaveRecord,
              SaveFails, LogActivated, LogActivatedFails, LogNotActivated, LogFailure
<1>2. CASE Deactivate(c)
  BY <1>2 DEF Deactivate, StartDeactivate, Start, Begin, Remove, RemoveFails,
              LogRemoved, LogRemovedFails, LogNotRemoved, LogFailure
<1>3. CASE GetActivation(c)
  BY <1>3 DEF GetActivation, StartGetActivation, Start, Begin, Read, ReadFails
<1> QED BY <1>1, <1>2, <1>3

\* What a step of a deactivation does to its request.
LEMMA DeactivationStepFacts ==
    ASSUME WebhookInv, NEW h \in Handlers, DeactivationStep(h)
    PROVE  /\ step[h] = "applying" /\ event[h] \in Revoking
           /\ applied' = applied \/ applied' = applied \union {event[h]}
           /\ \/ pc'[h] = "logRemoved" /\ event[h] \in applied'
              \/ pc'[h] = "logNotRemoved" /\ result'[h].kind = "error"
              \/ pc'[h] = "idle" /\ result'[h].kind = "error"
              \/ pc'[h] = "idle" /\ event[h] \in applied'
           /\ \A i \in Handlers \ {h} : pc'[i] = pc[i] /\ result'[i] = result[i]
           /\ UNCHANGED <<tooOld, processed, step, event, accepted, doubled, restarts>>
<1> USE DEF WebhookInv, WebhookTypeOK
<1>1. h \in Callers /\ Handlers \subseteq Callers
  BY WebhookAssumption
<1>2. \A i \in Handlers \ {h} : pc'[i] = pc[i] /\ result'[i] = result[i]
  BY <1>1, OthersUntouched DEF DeactivationStep, Deactivate
<1>3. /\ step[h] = "applying" /\ event[h] \in Revoking
      /\ applied' = applied \/ applied' = applied \union {event[h]}
      /\ UNCHANGED <<tooOld, processed, step, event, accepted, doubled, restarts>>
  BY DEF DeactivationStep, RequestsOK
<1>4. \A e : Refuse(e).kind = "error"
  BY DEF Refuse
<1> USE DEF TypeOK, Goto, Tell
<1>5. CASE Remove(h) /\ applied' = applied \union {event[h]}
  <2>1. pc'[h] = "logRemoved" /\ event[h] \in applied'
    BY <1>1, <1>5 DEF Remove
  <2> QED BY <1>2, <1>3, <2>1
<1>6. CASE RemoveFails(h) \/ LogRemovedFails(h)
  <2>1. pc'[h] = "logNotRemoved" /\ result'[h].kind = "error"
    BY <1>1, <1>4, <1>6 DEF RemoveFails, LogRemovedFails
  <2> QED BY <1>2, <1>3, <2>1
<1>7. CASE LogRemoved(h) /\ UNCHANGED applied
  <2>1. pc[h] = "logRemoved" /\ pc'[h] = "idle"
    BY <1>1, <1>7 DEF LogRemoved
  <2>2. event[h] \in applied
    BY <1>3, <2>1 DEF AppliedOK
  <2> QED BY <1>2, <1>3, <1>7, <2>1, <2>2
<1>8. CASE LogNotRemoved(h)
  <2>1. pc[h] = "logNotRemoved" /\ pc'[h] = "idle"
        /\ (result'[h] = result[h] \/ result'[h] = Refuse("audit"))
    BY <1>1, <1>8 DEF LogNotRemoved, LogFailure
  <2>2. result[h].kind = "error"
    BY <1>3, <2>1 DEF AppliedOK
  <2> QED BY <1>2, <1>3, <1>4, <2>1, <2>2
<1> QED BY <1>5, <1>6, <1>7, <1>8 DEF DeactivationStep

\* The invariant holds initially and is kept by deliveries, by what requests
\* and users do, by time that passes and by a restart.
LEMMA WebhookInvInductive ==
    /\ WebhookInit => WebhookInv
    /\ WebhookInv /\ [WebhookNext]_webhookAll => WebhookInv'
<1>1. WebhookInit => WebhookInv
  <2> SUFFICES ASSUME WebhookInit
               PROVE  WebhookInv
    OBVIOUS
  <2>1. TypeOK /\ PendingOK
    BY ServiceInvInductive DEF WebhookInit, ServiceInv
  <2>2. WebhookTypeOK
    <3>1. 0 \in 0 .. MaxRestarts /\ 0 \in 0 .. 2
      BY WebhookAssumption
    <3>2. accepted \in [Events -> 0 .. 2]
      BY <3>1 DEF WebhookInit
    <3> QED BY <2>1, <3>1, <3>2 DEF WebhookInit, WebhookTypeOK
  <2>3. RequestsOK /\ AppliedOK /\ MarkedMeansApplied /\ DeliveredOnce
    <3>1. \A h \in Handlers : pc[h] = "idle"
      BY WebhookAssumption DEF WebhookInit, Init
    <3> QED BY <3>1 DEF WebhookInit, RequestsOK, AppliedOK, MarkedMeansApplied, DeliveredOnce
  <2> QED BY <2>1, <2>2, <2>3 DEF WebhookInv
<1>2. WebhookInv /\ [WebhookNext]_webhookAll => WebhookInv'
  <2> SUFFICES ASSUME WebhookInv, [WebhookNext]_webhookAll
               PROVE  WebhookInv'
    OBVIOUS
  <2>1. TypeOK' /\ PendingOK'
    BY ServicePartKeepsType
  <2>2. Handlers \subseteq Callers /\ Revoking \subseteq Events
    BY WebhookAssumption
  <2>3. ASSUME UNCHANGED <<processed, step, event, accepted, applied, doubled, restarts>>,
               tooOld' \subseteq Events,
               \A h \in Handlers : pc'[h] = pc[h] /\ result'[h] = result[h]
        PROVE  WebhookInv'
    <3>1. WebhookTypeOK'
      BY <2>1, <2>3 DEF WebhookInv, WebhookTypeOK
    <3>2. RequestsOK' /\ AppliedOK'
      BY <2>3 DEF WebhookInv, RequestsOK, AppliedOK
    <3>3. MarkedMeansApplied' /\ DeliveredOnce'
      BY <2>3 DEF WebhookInv, MarkedMeansApplied, DeliveredOnce
    <3> QED BY <2>1, <3>1, <3>2, <3>3 DEF WebhookInv
  <2>4. CASE UserStep
    <3>1. PICK c \in Users : Activate(c) \/ Deactivate(c) \/ GetActivation(c)
      BY <2>4 DEF UserStep
    <3>2. \A h \in Handlers : pc'[h] = pc[h] /\ result'[h] = result[h]
      BY <2>2, <3>1, OthersUntouched DEF Users, WebhookInv, WebhookTypeOK
    <3>3. UNCHANGED webhookVars
      BY <2>4 DEF UserStep
    <3> QED BY <2>3, <3>2, <3>3 DEF webhookVars, WebhookInv, WebhookTypeOK
  <2>5. CASE ExpireLicense \/ UNCHANGED webhookAll
    BY <2>3, <2>5 DEF ExpireLicense, Expire, webhookAll, serviceVars, webhookVars, callVars,
                     WebhookInv, WebhookTypeOK
  <2>6. ASSUME NEW e \in Events, Age(e) \/ \E h \in Handlers : Reject(h, e)
        PROVE  WebhookInv'
    BY <2>3, <2>6 DEF Age, Reject, serviceVars, webhookVars, callVars, WebhookInv,
                      WebhookTypeOK
  <2>7. ASSUME NEW h \in Handlers, DeactivationStep(h)
        PROVE  WebhookInv'
    <3>1. /\ step[h] = "applying" /\ event[h] \in Revoking
          /\ applied' = applied \/ applied' = applied \union {event[h]}
          /\ \/ pc'[h] = "logRemoved" /\ event[h] \in applied'
             \/ pc'[h] = "logNotRemoved" /\ result'[h].kind = "error"
             \/ pc'[h] = "idle" /\ result'[h].kind = "error"
             \/ pc'[h] = "idle" /\ event[h] \in applied'
          /\ \A i \in Handlers \ {h} : pc'[i] = pc[i] /\ result'[i] = result[i]
          /\ UNCHANGED <<tooOld, processed, step, event, accepted, doubled, restarts>>
      BY <2>7, DeactivationStepFacts
    <3>2. WebhookTypeOK'
      BY <2>1, <3>1 DEF WebhookInv, WebhookTypeOK
    <3>3. RequestsOK'
      BY <3>1 DEF WebhookInv, RequestsOK
    <3>4. AppliedOK'
      <4> SUFFICES ASSUME NEW i \in Handlers, step'[i] = "applying"
                   PROVE  \/ pc'[i] = "remove"
                          \/ pc'[i] = "logRemoved" /\ event'[i] \in applied'
                          \/ pc'[i] = "logNotRemoved" /\ result'[i].kind = "error"
                          \/ pc'[i] = "idle" /\ result'[i].kind = "error"
                          \/ pc'[i] = "idle" /\ event'[i] \in applied'
        BY DEF AppliedOK
      <4>1. CASE i = h
        BY <3>1, <4>1
      <4>2. CASE i # h
        <5>1. pc'[i] = pc[i] /\ result'[i] = result[i] /\ step[i] = "applying"
              /\ event'[i] = event[i] /\ applied \subseteq applied'
          BY <3>1, <4>2
        <5> QED BY <5>1 DEF WebhookInv, AppliedOK
      <4> QED BY <4>1, <4>2
    <3>5. MarkedMeansApplied' /\ DeliveredOnce'
      BY <3>1 DEF WebhookInv, MarkedMeansApplied, DeliveredOnce
    <3> QED BY <2>1, <3>2, <3>3, <3>4, <3>5 DEF WebhookInv
  <2>8. ASSUME NEW e \in Events, NEW h \in Handlers, ReceiveRevoking(h, e)
        PROVE  WebhookInv'
    <3>1. /\ step[h] = "idle" /\ e \in Revoking /\ e \notin processed
          /\ event' = [event EXCEPT ![h] = e]
          /\ step' = [step EXCEPT ![h] = "applying"]
          /\ doubled' = (doubled \/ \E i \in Handlers \ {h} : step[i] # "idle" /\ event[i] = e)
          /\ pc'[h] = "remove"
          /\ \A i \in Handlers \ {h} : pc'[i] = pc[i] /\ result'[i] = result[i]
          /\ UNCHANGED <<tooOld, processed, accepted, applied, restarts>>
      BY <2>2, <2>8 DEF ReceiveRevoking, Begin, Rejected, Tell, Note, WebhookInv,
                        WebhookTypeOK, TypeOK
    <3>2. WebhookTypeOK'
      BY <2>1, <2>2, <3>1 DEF WebhookInv, WebhookTypeOK
    <3>3. RequestsOK'
      BY <2>2, <3>1 DEF WebhookInv, WebhookTypeOK, RequestsOK
    <3>4. AppliedOK'
      BY <3>1 DEF WebhookInv, WebhookTypeOK, RequestsOK, AppliedOK
    <3>5. MarkedMeansApplied'
      BY <3>1 DEF WebhookInv, WebhookTypeOK, RequestsOK, AppliedOK, MarkedMeansApplied
    <3>6. DeliveredOnce'
      <4> SUFFICES ASSUME restarts = 0, ~doubled'
                   PROVE  DeliveredOnce'
        BY <3>1 DEF DeliveredOnce
      <4>1. ~doubled /\ \A i \in Handlers \ {h} : step[i] # "idle" => event[i] # e
        BY <3>1 DEF WebhookInv, WebhookTypeOK
      <4>2. /\ step'[h] = "applying" /\ event'[h] = e
            /\ \A i \in Handlers \ {h} : step'[i] = step[i] /\ event'[i] = event[i]
        BY <3>1 DEF WebhookInv, WebhookTypeOK
      <4>3. accepted[e] = 0
        BY <3>1, <4>1 DEF WebhookInv, WebhookTypeOK, DeliveredOnce
      <4> QED BY <3>1, <4>1, <4>2, <4>3 DEF WebhookInv, WebhookTypeOK, DeliveredOnce
    <3> QED BY <2>1, <3>2, <3>3, <3>4, <3>5, <3>6 DEF WebhookInv
  <2>9. ASSUME NEW e \in Events, NEW h \in Handlers, ReceiveOther(h, e)
        PROVE  WebhookInv'
    <3>1. /\ step[h] = "idle" /\ e \notin Revoking /\ e \notin processed
          /\ event' = [event EXCEPT ![h] = e]
          /\ step' = [step EXCEPT ![h] = "log"]
          /\ processed' = processed \union {e}
          /\ doubled' = (doubled \/ \E i \in Handlers \ {h} : step[i] # "idle" /\ event[i] = e)
          /\ UNCHANGED <<pc, result, tooOld, accepted, applied, restarts>>
      BY <2>9 DEF ReceiveOther, Rejected, Note, serviceVars, callVars
    <3>2. WebhookTypeOK'
      BY <2>1, <2>2, <3>1 DEF WebhookInv, WebhookTypeOK
    <3>3. RequestsOK'
      BY <2>2, <3>1 DEF WebhookInv, WebhookTypeOK, RequestsOK
    <3>4. AppliedOK'
      BY <3>1 DEF WebhookInv, WebhookTypeOK, RequestsOK, AppliedOK
    <3>5. MarkedMeansApplied'
      BY <3>1 DEF WebhookInv, WebhookTypeOK, RequestsOK, AppliedOK, MarkedMeansApplied
    <3>6. DeliveredOnce'
      BY <3>1 DEF WebhookInv, WebhookTypeOK, RequestsOK, DeliveredOnce
    <3> QED BY <2>1, <3>2, <3>3, <3>4, <3>5, <3>6 DEF WebhookInv
  <2>10. ASSUME NEW h \in Handlers, MarkRevoking(h)
         PROVE  WebhookInv'
    <3>1. /\ step[h] = "applying" /\ pc[h] = "idle" /\ result[h].kind # "error"
          /\ processed' = processed \union {event[h]}
          /\ step' = [step EXCEPT ![h] = "log"]
          /\ UNCHANGED <<pc, result, tooOld, event, accepted, applied, doubled, restarts>>
      BY <2>10 DEF MarkRevoking, serviceVars, callVars
    <3>2. WebhookTypeOK'
      <4>1. event[h] \in Events
        BY <3>1 DEF WebhookInv, RequestsOK
      <4> QED BY <2>1, <3>1, <4>1 DEF WebhookInv, WebhookTypeOK
    <3>3. RequestsOK'
      BY <2>2, <3>1 DEF WebhookInv, WebhookTypeOK, RequestsOK
    <3>4. AppliedOK'
      BY <3>1 DEF WebhookInv, WebhookTypeOK, RequestsOK, AppliedOK
    <3>5. MarkedMeansApplied'
      BY <3>1 DEF WebhookInv, WebhookTypeOK, RequestsOK, AppliedOK, MarkedMeansApplied
    <3>6. DeliveredOnce'
      BY <3>1 DEF WebhookInv, WebhookTypeOK, RequestsOK, DeliveredOnce
    <3> QED BY <2>1, <3>2, <3>3, <3>4, <3>5, <3>6 DEF WebhookInv
  <2>11. ASSUME NEW h \in Handlers, RevokingFails(h)
         PROVE  WebhookInv'
    <3>1. /\ step[h] = "applying" /\ pc[h] = "idle"
          /\ step' = [step EXCEPT ![h] = "idle"]
          /\ event' = [event EXCEPT ![h] = NoEvent]
          /\ UNCHANGED <<pc, result, tooOld, processed, accepted, applied, doubled, restarts>>
      BY <2>11 DEF RevokingFails, End, serviceVars, callVars
    <3>2. WebhookTypeOK'
      BY <2>1, <2>2, <3>1 DEF WebhookInv, WebhookTypeOK
    <3>3. RequestsOK'
      BY <2>2, <3>1 DEF WebhookInv, WebhookTypeOK, RequestsOK
    <3>4. AppliedOK'
      BY <3>1 DEF WebhookInv, WebhookTypeOK, RequestsOK, AppliedOK
    <3>5. MarkedMeansApplied'
      BY <3>1 DEF WebhookInv, WebhookTypeOK, RequestsOK, AppliedOK, MarkedMeansApplied
    <3>6. DeliveredOnce'
      BY <3>1 DEF WebhookInv, WebhookTypeOK, RequestsOK, DeliveredOnce
    <3> QED BY <2>1, <3>2, <3>3, <3>4, <3>5, <3>6 DEF WebhookInv
  <2>12. ASSUME NEW h \in Handlers, Accept(h)
         PROVE  WebhookInv'
    <3>1. /\ step[h] = "log"
          /\ step' = [step EXCEPT ![h] = "idle"]
          /\ event' = [event EXCEPT ![h] = NoEvent]
          /\ accepted' = [accepted EXCEPT ![event[h]] = IF @ = 2 THEN 2 ELSE @ + 1]
          /\ UNCHANGED <<pc, result, tooOld, processed, applied, doubled, restarts>>
      BY <2>12 DEF Accept, End, callVars
    <3>2. WebhookTypeOK'
      <4>1. event[h] \in Events
        BY <3>1 DEF WebhookInv, RequestsOK
      <4>2. accepted' \in [Events -> 0 .. 2]
        BY <3>1, <4>1 DEF WebhookInv, WebhookTypeOK
      <4> QED BY <2>1, <3>1, <4>2 DEF WebhookInv, WebhookTypeOK
    <3>3. RequestsOK'
      BY <2>2, <3>1 DEF WebhookInv, WebhookTypeOK, RequestsOK
    <3>4. AppliedOK'
      BY <3>1 DEF WebhookInv, WebhookTypeOK, RequestsOK, AppliedOK
    <3>5. MarkedMeansApplied'
      BY <3>1 DEF WebhookInv, WebhookTypeOK, RequestsOK, AppliedOK, MarkedMeansApplied
    <3>6. DeliveredOnce'
      BY <3>1 DEF WebhookInv, WebhookTypeOK, RequestsOK, DeliveredOnce
    <3> QED BY <2>1, <3>2, <3>3, <3>4, <3>5, <3>6 DEF WebhookInv
  <2>13. ASSUME NEW h \in Handlers, LogFails(h)
         PROVE  WebhookInv'
    <3>1. /\ step[h] = "log"
          /\ step' = [step EXCEPT ![h] = "idle"]
          /\ event' = [event EXCEPT ![h] = NoEvent]
          /\ UNCHANGED <<pc, result, tooOld, processed, accepted, applied, doubled, restarts>>
      BY <2>13 DEF LogFails, End, callVars
    <3>2. WebhookTypeOK'
      BY <2>1, <2>2, <3>1 DEF WebhookInv, WebhookTypeOK
    <3>3. RequestsOK'
      BY <2>2, <3>1 DEF WebhookInv, WebhookTypeOK, RequestsOK
    <3>4. AppliedOK'
      BY <3>1 DEF WebhookInv, WebhookTypeOK, RequestsOK, AppliedOK
    <3>5. MarkedMeansApplied'
      BY <3>1 DEF WebhookInv, WebhookTypeOK, RequestsOK, AppliedOK, MarkedMeansApplied
    <3>6. DeliveredOnce'
      BY <3>1 DEF WebhookInv, WebhookTypeOK, RequestsOK, DeliveredOnce
    <3> QED BY <2>1, <3>2, <3>3, <3>4, <3>5, <3>6 DEF WebhookInv
  <2>14. CASE Restart
    <3>1. /\ step' = [h \in Handlers |-> "idle"]
          /\ event' = [h \in Handlers |-> NoEvent]
          /\ processed' = {}
          /\ \A h \in Handlers : pc'[h] = "idle"
          /\ restarts' = restarts + 1 /\ restarts < MaxRestarts
          /\ UNCHANGED <<tooOld, accepted, applied, doubled>>
      BY <2>2, <2>14 DEF Restart
    <3>2. WebhookTypeOK'
      BY <2>1, <2>2, <3>1, WebhookAssumption DEF WebhookInv, WebhookTypeOK
    <3>3. RequestsOK'
      BY <2>2, <3>1 DEF WebhookInv, WebhookTypeOK, RequestsOK
    <3>4. AppliedOK'
      BY <3>1 DEF WebhookInv, WebhookTypeOK, RequestsOK, AppliedOK
    <3>5. MarkedMeansApplied'
      BY <3>1 DEF WebhookInv, WebhookTypeOK, RequestsOK, AppliedOK, MarkedMeansApplied
    <3>6. DeliveredOnce'
      BY <3>1 DEF WebhookInv, WebhookTypeOK, RequestsOK, DeliveredOnce
    <3> QED BY <2>1, <3>2, <3>3, <3>4, <3>5, <3>6 DEF WebhookInv
  <2> QED
    BY <2>4, <2>5, <2>6, <2>7, <2>8, <2>9, <2>10, <2>11, <2>12, <2>13, <2>14
    DEF WebhookNext, Deliver, Handle
<1> QED BY <1>1, <1>2

\* In every state a request knows whether its event has been applied, and which
\* events are accepted is in the replay store (processWebhookEvent).
THEOREM WebhookSafety == WebhookSpec => []WebhookInv
BY WebhookInvInductive, PTL DEF WebhookSpec, webhookAll

\* Every variable keeps its type.
THEOREM WebhookTypeCorrect == WebhookSpec => []WebhookTypeOK
<1>1. WebhookInv => WebhookTypeOK
  BY DEF WebhookInv
<1> QED BY <1>1, WebhookSafety, PTL

\* A revoking event is remembered as processed only when it has removed the
\* activation, whatever failed and however deliveries, users and restarts
\* interleave (PaymentHandler.ts, processWebhookEvent).
THEOREM OnlyAppliedIsMarked == WebhookSpec => []MarkedMeansApplied
<1>1. WebhookInv => MarkedMeansApplied
  BY DEF WebhookInv
<1> QED BY <1>1, WebhookSafety, PTL

\* Without a restart and without overlapping deliveries of the event, it is
\* accepted once however often it is delivered (WebhookReplayStore.ts).
THEOREM EventsAreAcceptedOnce == WebhookSpec => []AcceptedAtMostOnce
<1>1. WebhookInv => AcceptedAtMostOnce
  <2> SUFFICES ASSUME WebhookInv, restarts = 0 /\ ~doubled, NEW e \in Events
               PROVE  accepted[e] <= 1
    BY DEF AcceptedAtMostOnce
  <2>1. accepted[e] \in 0 .. 2
    BY DEF WebhookInv, WebhookTypeOK
  <2> QED BY <2>1 DEF WebhookInv, DeliveredOnce
<1> QED BY <1>1, WebhookSafety, PTL

\* The only step of a call that takes an activation away is the remove of a
\* deactivation of its license.
LEMMA OnlyRemoveTakesAway ==
    ASSUME TypeOK, PendingOK, NEW c \in Callers, NEW l \in Licenses,
           Activate(c) \/ Deactivate(c) \/ GetActivation(c),
           records[l] # NoRecord, records'[l] = NoRecord
    PROVE  Remove(c) /\ pc[c] = "remove" /\ license[c] = l
<1>1. CASE SaveRecord(c)
  BY <1>1 DEF SaveRecord, Goto, TypeOK, PendingOK
<1>2. CASE Activate(c) /\ ~SaveRecord(c)
  BY <1>2 DEF Activate, StartActivate, Start, Begin, Lookup, LookupFails, SaveFails,
              LogActivated, LogActivatedFails, LogNotActivated, LogFailure
<1>3. CASE Remove(c)
  BY <1>3 DEF Remove, Goto, TypeOK
<1>4. CASE (Deactivate(c) /\ ~Remove(c)) \/ GetActivation(c)
  BY <1>4 DEF Deactivate, GetActivation, StartDeactivate, StartGetActivation, Start, Begin,
              RemoveFails, LogRemoved, LogRemovedFails, LogNotRemoved, LogFailure, Read, ReadFails
<1> QED BY <1>1, <1>2, <1>3, <1>4

\* A repeated delivery does not undo an activation made after the first: only a
\* user, or an event that was not accepted before, takes one away.
THEOREM RepeatsAreHarmless == WebhookSpec => RepeatedRevocationIsHarmless
<1> DEFINE Cause(l) == \/ \E c \in Users : pc[c] = "remove" /\ license[c] = l
                       \/ \E h \in Handlers : /\ pc[h] = "remove" /\ license[h] = l
                                              /\ accepted[event[h]] = 0
           Harmless == \A l \in Licenses :
              restarts = 0 /\ ~doubled /\ records[l] # NoRecord /\ records'[l] = NoRecord
                 => Cause(l)
<1>1. WebhookInv /\ [WebhookNext]_webhookAll => [Harmless]_records
  <2> SUFFICES ASSUME WebhookInv, [WebhookNext]_webhookAll, NEW l \in Licenses,
                      restarts = 0, ~doubled, records[l] # NoRecord, records'[l] = NoRecord
               PROVE  Cause(l)
    OBVIOUS
  <2>1. TypeOK /\ PendingOK /\ Handlers \subseteq Callers
    BY WebhookAssumption DEF WebhookInv, WebhookTypeOK
  <2>2. CASE UserStep
    BY <2>1, <2>2, OnlyRemoveTakesAway DEF UserStep, Users
  <2>3. ASSUME NEW h \in Handlers, DeactivationStep(h)
        PROVE  Cause(l)
    <3>1. Deactivate(h) /\ step[h] = "applying"
      BY <2>3 DEF DeactivationStep, Deactivate
    <3>2. pc[h] = "remove" /\ license[h] = l
      BY <2>1, <3>1, OnlyRemoveTakesAway
    <3>3. accepted[event[h]] = 0
      BY <3>1 DEF WebhookInv, DeliveredOnce
    <3> QED BY <3>2, <3>3
  <2>4. ASSUME NEW h \in Handlers,
               \/ MarkRevoking(h) \/ RevokingFails(h) \/ Accept(h) \/ LogFails(h)
               \/ \E e \in Events : Reject(h, e) \/ ReceiveOther(h, e)
                                     \/ ReceiveRevoking(h, e)
        PROVE  UNCHANGED records
    BY <2>4 DEF MarkRevoking, RevokingFails, Accept, LogFails, Reject, ReceiveOther,
                ReceiveRevoking, Begin, serviceVars
  <2>5. ASSUME \/ ExpireLicense \/ Restart \/ UNCHANGED webhookAll
               \/ \E e \in Events : Age(e)
        PROVE  UNCHANGED records
    BY <2>5 DEF ExpireLicense, Expire, Restart, Age, webhookAll, serviceVars
  <2> QED BY <2>2, <2>3, <2>4, <2>5 DEF WebhookNext, Deliver, Handle
<1> QED
  BY <1>1, WebhookSafety, PTL DEF WebhookSpec, webhookAll, RepeatedRevocationIsHarmless
===============================================================================
