-------------------------- MODULE MCInboundReplies --------------------------
(***************************************************************************)
(* Small instances of InboundReplies for TLC.                              *)
(***************************************************************************)
EXTENDS InboundReplies, TLC

CONSTANTS r1, r2, c1, c2

\* The consumers are interchangeable.
Replicas == Permutations({c1, c2})
=============================================================================
