---------------------------- MODULE PaymentWebhook ----------------------------
(***************************************************************************)
(* The processing of payment-provider webhooks, src/src/licensing/         *)
(* PaymentHandler.ts with the replay store of WebhookReplayStore.ts, on    *)
(* top of ActivationService, whose deactivation a revoking event calls.    *)
(* The provider delivers an event any number of times, deliveries overlap  *)
(* with each other and with the calls of users, and the server, whose      *)
(* replay store is in memory, can restart.                                 *)
(***************************************************************************)
EXTENDS ActivationService

CONSTANTS
    Handlers,      \* webhook requests in progress at the same time
    Events,        \* ids of provider events
    Revoking,      \* those of type license.revoked or subscription.canceled
    EventLicense,  \* the license each event is about
    MaxRestarts    \* bound on the restarts explored

ASSUME WebhookAssumption ==
    /\ Handlers \subseteq Callers
    /\ Revoking \subseteq Events
    /\ EventLicense \in [Events -> Licenses]
    /\ MaxRestarts \in Nat

VARIABLES
    tooOld,     \* events older than maxEventAgeMs
    processed,  \* the replay store
    step,       \* where each webhook request is
    event,      \* the event each request is about
    accepted,   \* how often each event was answered with 202, at most 2
    applied,    \* revoking events that have deleted the activation record
    doubled,    \* two requests about one event have been in progress at a time
    restarts

webhookVars == <<tooOld, processed, step, event, accepted, applied, doubled, restarts>>
serviceVars == <<records, audit, storeDir, expired, callVars, lastId, counts, faults>>

NoEvent == "none"

Users == Callers \ Handlers

WebhookInit ==
    /\ Init
    /\ tooOld = {}
    /\ processed = {}
    /\ step = [h \in Handlers |-> "idle"]
    /\ event = [h \in Handlers |-> NoEvent]
    /\ accepted = [e \in Events |-> 0]
    /\ applied = {}
    /\ doubled = FALSE
    /\ restarts = 0

-----------------------------------------------------------------------------
\* Mutation of Rejected: the replay store is not asked.
Rejected_NoReplayCheck(e) == e \in tooOld \/ EventLicense[e] \in expired

Rejected(e) ==
    \/ e \in tooOld
    \/ e \in processed
    \/ EventLicense[e] \in expired

\* A delivery is turned down before anything has changed: validateEvent, the
\* replay store or assertValid throws.  Up to here processWebhookEvent waits
\* for nothing but the in-memory replay store.
Reject(h, e) ==
    /\ step[h] = "idle"
    /\ Rejected(e)
    /\ UNCHANGED <<serviceVars, webhookVars>>

\* A request about an event is let in while another one is in progress.
Note(h, e) ==
    doubled' = (doubled \/ \E i \in Handlers \ {h} : step[i] # "idle" /\ event[i] = e)

\* Mutation of ReceiveRevoking: the event is marked before it is applied.
ReceiveRevoking_MarksFirst(h, e) ==
    /\ step[h] = "idle"
    /\ e \in Revoking
    /\ ~Rejected(e)
    /\ event' = [event EXCEPT ![h] = e]
    /\ step' = [step EXCEPT ![h] = "applying"]
    /\ processed' = processed \union {e}
    /\ Begin(h, EventLicense[e], machine[h], "remove")
    /\ UNCHANGED calls
    /\ UNCHANGED <<tooOld, accepted, applied, restarts>>
    /\ Note(h, e)

\* A revoking event: activationService.deactivate starts.
ReceiveRevoking(h, e) ==
    /\ step[h] = "idle"
    /\ e \in Revoking
    /\ ~Rejected(e)
    /\ event' = [event EXCEPT ![h] = e]
    /\ step' = [step EXCEPT ![h] = "applying"]
    /\ Begin(h, EventLicense[e], machine[h], "remove")
    /\ UNCHANGED calls
    /\ UNCHANGED <<tooOld, processed, accepted, applied, restarts>>
    /\ Note(h, e)

\* Any other event has no side effect here but is marked at once.
ReceiveOther(h, e) ==
    /\ step[h] = "idle"
    /\ e \notin Revoking
    /\ ~Rejected(e)
    /\ event' = [event EXCEPT ![h] = e]
    /\ processed' = processed \union {e}
    /\ step' = [step EXCEPT ![h] = "log"]
    /\ UNCHANGED <<tooOld, accepted, applied, restarts>>
    /\ Note(h, e)
    /\ UNCHANGED serviceVars

\* The steps of the deactivation that a request has started.
DeactivationStep(h) ==
    /\ step[h] = "applying"
    /\ \/ Remove(h) /\ applied' = applied \union {event[h]}
       \/ /\ RemoveFails(h) \/ LogRemoved(h) \/ LogRemovedFails(h) \/ LogNotRemoved(h)
          /\ UNCHANGED applied
    /\ UNCHANGED <<tooOld, processed, step, event, accepted, doubled, restarts>>

\* Mutation of MarkRevoking: nothing is marked.
MarkRevoking_Forgets(h) ==
    /\ step[h] = "applying"
    /\ pc[h] = "idle" /\ result[h].kind = "removed"
    /\ step' = [step EXCEPT ![h] = "log"]
    /\ UNCHANGED <<tooOld, processed, event, accepted, applied, doubled, restarts>>
    /\ UNCHANGED serviceVars

\* The deactivation has succeeded: replayStore.mark.
MarkRevoking(h) ==
    /\ step[h] = "applying"
    /\ pc[h] = "idle" /\ result[h].kind = "removed"
    /\ processed' = processed \union {event[h]}
    /\ step' = [step EXCEPT ![h] = "log"]
    /\ UNCHANGED <<tooOld, event, accepted, applied, doubled, restarts>>
    /\ UNCHANGED serviceVars

\* A request is answered.
End(h) ==
    /\ step' = [step EXCEPT ![h] = "idle"]
    /\ event' = [event EXCEPT ![h] = NoEvent]

\* Mutation of RevokingFails: the error is swallowed and 202 is sent.
RevokingFails_Swallowed(h) ==
    /\ step[h] = "applying"
    /\ pc[h] = "idle" /\ result[h].kind = "error"
    /\ step' = [step EXCEPT ![h] = "log"]
    /\ UNCHANGED <<tooOld, processed, event, accepted, applied, doubled, restarts>>
    /\ UNCHANGED serviceVars

\* The deactivation has thrown: the request fails and nothing is marked.
RevokingFails(h) ==
    /\ step[h] = "applying"
    /\ pc[h] = "idle" /\ result[h].kind = "error"
    /\ End(h)
    /\ UNCHANGED <<tooOld, processed, accepted, applied, doubled, restarts>>
    /\ UNCHANGED serviceVars

\* The payment.webhook audit event is written: 202.
Accept(h) ==
    /\ step[h] = "log"
    /\ End(h)
    /\ accepted' = [accepted EXCEPT ![event[h]] = IF @ = 2 THEN 2 ELSE @ + 1]
    /\ storeDir' = (storeDir \/ SharedDir)
    /\ UNCHANGED <<tooOld, processed, applied, doubled, restarts>>
    /\ UNCHANGED <<records, audit, expired, callVars, lastId, counts, faults>>

\* Writing it fails: the provider gets an error for an event that is marked.
LogFails(h) ==
    /\ Fault
    /\ step[h] = "log"
    /\ End(h)
    /\ UNCHANGED <<tooOld, processed, accepted, applied, doubled, restarts>>
    /\ UNCHANGED <<records, audit, storeDir, expired, callVars, lastId, counts>>

Handle(h) ==
    \/ DeactivationStep(h) \/ MarkRevoking(h) \/ RevokingFails(h)
    \/ Accept(h) \/ LogFails(h)

Deliver(e) ==
    \E h \in Handlers : Reject(h, e) \/ ReceiveRevoking(h, e) \/ ReceiveOther(h, e)

-----------------------------------------------------------------------------
\* A user activates, deactivates or asks.
UserStep ==
    /\ \E c \in Users : Activate(c) \/ Deactivate(c) \/ GetActivation(c)
    /\ UNCHANGED webhookVars

ExpireLicense == Expire /\ UNCHANGED webhookVars

\* Ten minutes have passed since the provider created the event.
Age(e) ==
    /\ e \notin tooOld
    /\ tooOld' = tooOld \union {e}
    /\ UNCHANGED <<processed, step, event, accepted, applied, doubled, restarts>>
    /\ UNCHANGED serviceVars

\* The server stops and starts: requests and the replay store are gone, the
\* activation store and the audit log are not.
Restart ==
    /\ restarts < MaxRestarts
    /\ restarts' = restarts + 1
    /\ processed' = {}
    /\ step' = [h \in Handlers |-> "idle"]
    /\ event' = [h \in Handlers |-> NoEvent]
    /\ pc' = [c \in Callers |-> "idle"]
    /\ UNCHANGED <<tooOld, accepted, applied, doubled>>
    /\ UNCHANGED <<records, audit, storeDir, expired, license, machine, pending,
                   result, lastId, counts, faults>>

WebhookNext ==
    \/ \E e \in Events : Deliver(e) \/ Age(e)
    \/ \E h \in Handlers : Handle(h)
    \/ UserStep \/ ExpireLicense \/ Restart

WebhookSpec == WebhookInit /\ [][WebhookNext]_<<serviceVars, webhookVars>>

\* The event loop runs what is pending, and the provider delivers an event
\* again until it is answered with 202.
FairWebhookSpec ==
    /\ WebhookSpec
    /\ \A h \in Handlers : WF_<<serviceVars, webhookVars>>(Handle(h))
    /\ \A e \in Events : SF_<<serviceVars, webhookVars>>(accepted[e] = 0 /\ Deliver(e))

-----------------------------------------------------------------------------
WebhookTypeOK ==
    /\ TypeOK
    /\ tooOld \subseteq Events
    /\ processed \subseteq Events
    /\ step \in [Handlers -> {"idle", "applying", "log"}]
    /\ event \in [Handlers -> Events \union {NoEvent}]
    /\ accepted \in [Events -> 0 .. 2]
    /\ applied \subseteq Revoking
    /\ doubled \in BOOLEAN
    /\ restarts \in 0 .. MaxRestarts

\* An event is only ever remembered as processed when its effect has happened:
\* a delivery that failed can be repeated, whatever failed and whatever other
\* deliveries did meanwhile (processWebhookEvent, lines 138-144).
MarkedMeansApplied == processed \cap Revoking \subseteq applied

\* WebhookReplayStore.ts:1, "processed webhook ids (idempotency/replay
\* protection)": until the server restarts, which empties the store, the
\* provider's event is accepted once.  Check and mark are not one step, so
\* this needs that no two deliveries of one event have overlapped.
AcceptedAtMostOnce == restarts = 0 /\ ~doubled => \A e \in Events : accepted[e] <= 1

\* A user's activation is only taken away by a user's deactivation or by a
\* revoking event that was not accepted before: until a restart, a repeated
\* delivery does not undo an activation made after the first.
RepeatedRevocationIsHarmless ==
    [][\A l \in Licenses : restarts = 0 /\ ~doubled /\ records[l] # NoRecord /\ records'[l] = NoRecord =>
          \/ \E c \in Users : pc[c] = "remove" /\ license[c] = l
          \/ \E h \in Handlers : /\ pc[h] = "remove" /\ license[h] = l
                                 /\ accepted[event[h]] = 0]_records

\* A revoking event that the provider keeps delivering deletes the record of
\* its license in the end, unless the license expires or the event gets too
\* old first, although the store, the log and the server fail in between.
RevocationTakesEffect ==
    \A e \in Revoking :
        <>(e \in applied \/ e \in tooOld \/ EventLicense[e] \in expired)
===============================================================================
