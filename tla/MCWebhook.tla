------------------------------- MODULE MCWebhook -------------------------------
(* Two endpoints, the first one with retry; amounts beyond the widths of both types. *)
EXTENDS Webhook

MCOrder == <<"e1", "e2">>
MCEndpoint == {"e1", "e2"}
MCPersistent == {"e1"}
MCAmounts == {0, 1, 7, 8, 9, 10, 11, 15, 17, 26, 27, 30, 31, 32, 100}
===============================================================================
