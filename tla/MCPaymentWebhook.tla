--------------------------- MODULE MCPaymentWebhook ---------------------------
(***************************************************************************)
(* Small instances of PaymentWebhook: one revoking and one renewing event  *)
(* for the same license, and a user who activates it.                      *)
(***************************************************************************)
EXTENDS PaymentWebhook

CONSTANTS lic1, revoked, renewed

EventsOfOneLicense == [e \in {revoked, renewed} |-> lic1]
===============================================================================
