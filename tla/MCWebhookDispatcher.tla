------------------------ MODULE MCWebhookDispatcher -------------------------
(***************************************************************************)
(* Three endpoints: one for every type, one for account blocks, one whose  *)
(* URL is not valid.                                                       *)
(***************************************************************************)
EXTENDS WebhookDispatcher

MCFilter == <<{}, {"account_block"}, {"momentum"}>>
=============================================================================
