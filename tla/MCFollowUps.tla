---------------------------- MODULE MCFollowUps ----------------------------
(***************************************************************************)
(* A small instance of FollowUps for TLC.                                  *)
(***************************************************************************)
EXTENDS FollowUps, TLC

CONSTANTS l1, w1, w2

\* The customer may write once.
Once == (l1 :> 1)
=============================================================================
