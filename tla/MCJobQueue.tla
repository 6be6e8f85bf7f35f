----------------------------- MODULE MCJobQueue -----------------------------
(***************************************************************************)
(* Small instances of JobQueue for TLC.                                    *)
(***************************************************************************)
EXTENDS JobQueue, TLC

CONSTANTS j1, j2, w1, w2

\* A post to Google, next to a document to ingest, a voice job, a review request or the
\* removal of another post.
PostAndAnother ==
    (j1 :> {"refreshing"} @@ j2 :> {"ingest", "committing", "sending", "withdrawing"})
\* One job of any family.
AnyFamily == (j1 :> Kinds)

Slots == Permutations({w1, w2})
=============================================================================
