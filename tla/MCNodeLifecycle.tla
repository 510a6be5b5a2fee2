-------------------------- MODULE MCNodeLifecycle --------------------------
(* NodeLifecycle for TLC: each of Steps may raise in every node. *)
EXTENDS NodeLifecycle

Anything == NodeKinds \X Steps
=============================================================================
