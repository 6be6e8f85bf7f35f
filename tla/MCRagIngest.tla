---------------------------- MODULE MCRagIngest ----------------------------
(***************************************************************************)
(* A small instance of RagIngest for TLC.                                  *)
(***************************************************************************)
EXTENDS RagIngest, TLC

CONSTANTS d1, j1, j2, l1, s1
============================================================================
