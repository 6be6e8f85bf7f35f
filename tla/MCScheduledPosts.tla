-------------------------- MODULE MCScheduledPosts --------------------------
(***************************************************************************)
(* Small instances of ScheduledPosts for TLC.                              *)
(***************************************************************************)
EXTENDS ScheduledPosts, TLC

CONSTANTS w1, w2, o1, c1, c2

\* One post in any state create_post leaves it in.
OnePost == <<{"new", "draft", "scheduled"}>>
\* A scheduled post, and a younger one that is scheduled or not there yet.
TwoPosts == <<{"scheduled"}, {"new", "scheduled"}>>

\* Workers are interchangeable, and so are connections.
Slots == Permutations({w1, w2}) \cup Permutations({c1, c2})
=============================================================================
