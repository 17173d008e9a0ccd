------------------------- MODULE MCWebhookPipeline -------------------------
(***************************************************************************)
(* Instances of WebhookPipeline for TLC: a user's event, an event that     *)
(* fails validation, a sweep's event and a withdrawal's without a          *)
(* reference, carried by two requests.                                     *)
(***************************************************************************)
EXTENDS WebhookPipeline, TLC

\* Every fault once, and more handler errors than a job has attempts.
EveryBudget == [[f \in PipelineFaults |-> 1] EXCEPT !["handlerError"] = 3]
===========================================================================
