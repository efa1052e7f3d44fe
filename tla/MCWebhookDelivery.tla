------------------------- MODULE MCWebhookDelivery -------------------------
(* WebhookDelivery for TLC.                                                *)
EXTENDS WebhookDelivery
=============================================================================
