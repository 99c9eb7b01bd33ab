------------------------- MODULE MCWebhookDelivery -------------------------
(* Small instances of WebhookDelivery for TLC. *)
EXTENDS WebhookDelivery, TLC

CONSTANTS h1, h2, f1, f2, w1, w2, k1

OneKind == [e \in Events |-> k1]

Symmetric == Permutations(Fanouts)
=============================================================================
