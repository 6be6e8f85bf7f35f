--------------------------- MODULE MCCreditLedger ---------------------------
(***************************************************************************)
(* Small instances of CreditLedger for TLC.                                *)
(***************************************************************************)
EXTENDS CreditLedger, TLC

CONSTANTS c1, c2, p1, p2, r1, r2

\* A stream next to a voice unit that may be charged by two runs of its job.
StreamAndVoice == (c1 :> "stream" @@ c2 :> "voice")

\* Changing to the pro plan brings a cent, to the free plan none.
ProBundle == [p \in {"free", "pro"} |-> IF p = "pro" THEN 1 ELSE 0]
=============================================================================
