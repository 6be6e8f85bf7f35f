--------------------------- MODULE MCConnectImport ---------------------------
(***************************************************************************)
(* Small instances of ConnectImport for TLC.                               *)
(***************************************************************************)
EXTENDS ConnectImport, TLC

CONSTANTS r1, w1, i1, i2
=============================================================================
