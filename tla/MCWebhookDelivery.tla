------------------------- MODULE MCWebhookDelivery -------------------------
(***************************************************************************)
(* Scenarios for model checking WebhookDelivery; each configuration picks  *)
(* the event types, the stored endpoints, the threads and the bounds.      *)
(***************************************************************************)
EXTENDS WebhookDelivery

\* One ordinary event type is enough where scopes do not matter.
BlogOnly == {"blog.published"}

\* One ordinary and one platform-only type.
BlogAndPatch == {"blog.published", "patch.received"}
PatchOnly    == {"patch.received"}
=============================================================================
