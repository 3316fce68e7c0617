------------------------- MODULE MCWebhookDelivery -------------------------
EXTENDS WebhookDelivery
Waits == <<1, 2>>
=============================================================================
