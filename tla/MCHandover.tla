----------------------------- MODULE MCHandover -----------------------------
(***************************************************************************)
(* Small instances of Handover for TLC.                                    *)
(***************************************************************************)
EXTENDS Handover

CONSTANTS o1, s1
=============================================================================
