----------------------------- MODULE AtomicStore ------------------------------
(***************************************************************************)
(* What the ActivationStore interface (src/src/licensing/                  *)
(* ActivationService.ts, getByLicenseId, save and deleteByLicenseId)       *)
(* promises its callers: one record per license, and every operation takes *)
(* effect at one instant between its call and its answer, or, when it      *)
(* fails, at most once.                                                    *)
(***************************************************************************)
CONSTANTS
    Clients,   \* callers that can be inside an operation at the same time
    Licenses,  \* license ids
    Records,   \* activation records, as far as the store tells them apart
    NoRecord   \* null

VARIABLES
    records,   \* the record of each license, or NoRecord
    phase,     \* "idle", "called" or "effected", for each client
    request,   \* the latest operation of each client
    answer,    \* the record the latest lookup of each client found
    outcome    \* how the latest operation ended: "none" yet, "ok", "error"

vars == <<records, phase, request, answer, outcome>>

Get    == [op : {"get"}, id : Licenses]
Save   == [op : {"save"}, id : Licenses, record : Records]
Delete == [op : {"delete"}, id : Licenses]

\* The records after an operation.
Effect(op, recs) ==
    CASE op.op = "get"    -> recs
      [] op.op = "save"   -> [recs EXCEPT ![op.id] = op.record]
      [] op.op = "delete" -> [recs EXCEPT ![op.id] = NoRecord]

Answer(op, recs) == IF op.op = "get" THEN recs[op.id] ELSE NoRecord

Init ==
    /\ records \in [Licenses -> Records \union {NoRecord}]
    /\ phase = [c \in Clients |-> "idle"]
    /\ request \in [Clients -> Get]
    /\ answer = [c \in Clients |-> NoRecord]
    /\ outcome = [c \in Clients |-> "none"]

Begin(c) ==
    /\ phase[c] = "idle"
    /\ phase' = [phase EXCEPT ![c] = "called"]
    /\ \E op \in Get \union Save \union Delete :
          request' = [request EXCEPT ![c] = op]
    /\ answer' = [answer EXCEPT ![c] = NoRecord]
    /\ outcome' = [outcome EXCEPT ![c] = "none"]
    /\ UNCHANGED records

TakeEffect(c) ==
    /\ phase[c] = "called"
    /\ phase' = [phase EXCEPT ![c] = "effected"]
    /\ records' = Effect(request[c], records)
    /\ answer' = [answer EXCEPT ![c] = Answer(request[c], records)]
    /\ UNCHANGED <<request, outcome>>

Succeed(c) ==
    /\ phase[c] = "effected"
    /\ phase' = [phase EXCEPT ![c] = "idle"]
    /\ outcome' = [outcome EXCEPT ![c] = "ok"]
    /\ UNCHANGED <<records, request, answer>>

\* An operation that fails may have taken effect: its caller cannot tell.
Fail(c) ==
    /\ phase[c] # "idle"
    /\ phase' = [phase EXCEPT ![c] = "idle"]
    /\ outcome' = [outcome EXCEPT ![c] = "error"]
    /\ UNCHANGED <<records, request, answer>>

Next == \E c \in Clients : Begin(c) \/ TakeEffect(c) \/ Succeed(c) \/ Fail(c)

Spec == Init /\ [][Next]_vars
===============================================================================
