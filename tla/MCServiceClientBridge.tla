------------------------ MODULE MCServiceClientBridge ------------------------
(* ServiceClientBridge for TLC: with one request more than tokens, two of the *)
(* requests have the same token and the others a token of their own.          *)
EXTENDS ServiceClientBridge

SharedToken == CHOOSE f \in [Requests -> Tokens] : \A t \in Tokens : \E q \in Requests : f[q] = t
=============================================================================
