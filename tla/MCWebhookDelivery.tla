-------------------------- MODULE MCWebhookDelivery --------------------------
(***************************************************************************)
(* WebhookDelivery on small instances.                                     *)
(***************************************************************************)
EXTENDS WebhookDelivery

(* Job 1 loses its webhook, or its schema, at some start; the others keep  *)
(* theirs.                                                                 *)
MCRegistries ==
  {r \in [Jobs -> Hooks] : \A j \in Jobs \ {1} : r[j] = "webhook"}

(* The webhook of job 1 comes and goes.                                    *)
MCWebhookToggles ==
  {r \in [Jobs -> {"webhook", "chatonly"}] : \A j \in Jobs \ {1} : r[j] = "webhook"}

(* No configuration change between starts.                                 *)
MCOneRegistry == {[j \in Jobs |-> "webhook"]}
==============================================================================
