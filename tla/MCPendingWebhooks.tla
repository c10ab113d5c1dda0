-------------------------- MODULE MCPendingWebhooks --------------------------
(* PendingWebhooks with rows that can be delivered, one that nobody         *)
(* wants and one that cannot be read.                                       *)
EXTENDS PendingWebhooks

CONSTANTS w1, w2, w3, d1, d2
=============================================================================
