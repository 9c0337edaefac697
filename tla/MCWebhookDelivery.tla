------------------------- MODULE MCWebhookDelivery -------------------------
(* One event and two workers: the copies of one event race with each other, *)
(* copies of different events share nothing but the workers' time.  Two of  *)
(* the five countdowns are kept, the second longer than the visibility      *)
(* timeout, which Celery leaves at one hour for a Redis broker.             *)
EXTENDS WebhookDelivery

MCCountdowns == <<60, 7200>>
=============================================================================
