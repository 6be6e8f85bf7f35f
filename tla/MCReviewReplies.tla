--------------------------- MODULE MCReviewReplies ---------------------------
(***************************************************************************)
(* Small instances of ReviewReplies for TLC.                               *)
(***************************************************************************)
EXTENDS ReviewReplies, TLC

CONSTANTS r1, r2, w1, m1
=============================================================================
