------------------------------ MODULE MCWebhooks ------------------------------
(* Values for TLC: a webhook for both events, and one that is disabled. *)
EXTENDS Webhooks, TLC

CONSTANTS h1, h2, s1, q1, q2

Both == {"downloaded", "revoked"}

MCSettings == {[active |-> b, events |-> Both] : b \in BOOLEAN}
=============================================================================
