------------------------------ MODULE MCWebhook ------------------------------
(***************************************************************************)
(* Instances of the webhook tracks for TLC.                                *)
(***************************************************************************)
EXTENDS WebhookSafety

Pack  == [kind |-> "local_purchase_paid", product |-> "minute_pack"]
State == [kind |-> "entitlement_transitioned", product |-> "subscription"]

OneTrack    == {Pack, State}
Entitlement == {State}
AnyMishap   == {"crash", "query", "handoff", "stall", "lease", "clock"}
NoMishap    == {}
=============================================================================
