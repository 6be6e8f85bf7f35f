----------------------------- MODULE JobContract -----------------------------
(***************************************************************************)
(* What the job queue promises to the services that submit to it, without  *)
(* rows, runners, leases or sessions: an effect at its provider before     *)
(* success is reported, unless the terms say what may stand for it, again  *)
(* only after a loss, and one announcement that is the end of the job.     *)
(* JobQueue implements it while leases outlive the work and nobody replays *)
(* jobs.                                                                   *)
(***************************************************************************)
EXTENDS Naturals

CONSTANT Jobs

VARIABLES
    terms,    \* what success means for the job, see Terms
    state,    \* what a reader of the jobs table sees of it
    effects,  \* effects at the provider
    losses,   \* effects nobody will ever know of
    told      \* the jobs whose job.succeeded is in the outbox

vars == <<terms, state, effects, losses, told>>

(***************************************************************************)
(* "proven": the job is reported done only after its effect, and at once   *)
(*   announced (posts);                                                    *)
(* "early": the row may say so before the announcement (rag.ingest);       *)
(* "excused": there may be something else than an effect behind it: a      *)
(*   failure on the domain row (voice, review requests), or nothing that   *)
(*   was left to do (the removal of a post).                               *)
(***************************************************************************)
Terms == {"proven", "early", "excused"}

Init ==
    /\ terms \in [Jobs -> Terms]
    /\ state \in [Jobs -> {"absent", "open"}]
    /\ effects = [j \in Jobs |-> 0]
    /\ losses = [j \in Jobs |-> 0]
    /\ told = {}

\* An effect that is still known of: it must not be repeated.
Standing(j) == effects[j] = losses[j] + 1

Submit(j) ==
    /\ state[j] = "absent"
    /\ state' = [state EXCEPT ![j] = "open"]
    /\ UNCHANGED <<terms, effects, losses, told>>

\* The provider does the work, and its answer may be lost at once.
Work(j) ==
    /\ j \notin told /\ effects[j] = losses[j]
    /\ effects' = [effects EXCEPT ![j] = @ + 1]
    /\ \E l \in {0, 1} : losses' = [losses EXCEPT ![j] = @ + l]
    /\ UNCHANGED <<terms, state, told>>

\* The outcome of the work is lost before anything has recorded it.
Lose(j) ==
    /\ j \notin told /\ Standing(j)
    /\ losses' = [losses EXCEPT ![j] = @ + 1]
    /\ UNCHANGED <<terms, state, effects, told>>

\* The outcome and its announcement; a cancel that came late may hide the outcome.
Report(j) ==
    /\ j \notin told
    /\ terms[j] # "excused" => Standing(j)
    /\ \/ /\ told' = told \cup {j}
          /\ \E s \in {"succeeded", "closed"} : state' = [state EXCEPT ![j] = s]
       \/ /\ terms[j] = "early"
          /\ state' = [state EXCEPT ![j] = "succeeded"]
          /\ UNCHANGED told
    /\ UNCHANGED <<terms, effects, losses>>

\* It failed, was cancelled, or the runner gave it up.
Close(j) ==
    /\ state[j] # "absent"
    /\ state' = [state EXCEPT ![j] = "closed"]
    /\ UNCHANGED <<terms, effects, losses, told>>

\* Another attempt, also over a cancel that came late; never after the announcement.
Resume(j) ==
    /\ j \notin told /\ state[j] # "absent"
    /\ state' = [state EXCEPT ![j] = "open"]
    /\ UNCHANGED <<terms, effects, losses, told>>

Next == \E j \in Jobs :
    Submit(j) \/ Work(j) \/ Lose(j) \/ Report(j) \/ Close(j) \/ Resume(j)

Spec == Init /\ [][Next]_vars
=============================================================================
