---------------------------- MODULE ConnectImport ----------------------------
(***************************************************************************)
(* The import of a location's reviews when Google is connected              *)
(* (channels/connect_import.py), beside the poll and the Outbox of          *)
(* ReviewReplies, with which it shares the reviews and the review_replies:  *)
(* one connect_import_session is fetched, waits for the merchant's scope,   *)
(* has a draft written for each of its items and is ready.                  *)
(*                                                                          *)
(* The publish phase has no action: it takes items that are draft_ready,    *)
(* and no item gets there.  _generate_one writes the status to a row that   *)
(* the engine has detached by closing the session.                          *)
(***************************************************************************)
EXTENDS ReviewReplies

CONSTANTS
    Importers  \* tasks of the import workers

ASSUME ImportersAssumption == IsFiniteSet(Importers)

VARIABLES
    session,    \* its status, and locked_until: free, held, or past
    item,       \* item[r]: the import's row for r, and the version it holds
    ipc,        \* ipc[i]: where importer i is
    found,      \* found[i][r]: what Google listed to i
    task,       \* task[i][r]: what i's tasks have to do about r
    asked,      \* asked[r]: how often r's item was made pending
    raced,      \* raced[r]: how often two tasks had read r's item at once
    drafted,    \* drafted[r]: how many drafts the import has put on file
    orphans     \* items being written when a worker died or failed

import == <<session, item, ipc, found, task, asked, raced, drafted, orphans>>
ivars == <<vars, import>>

SessionStatuses ==
    {"queued", "fetching", "awaiting_scope", "generating", "ready", "completed", "failed"}
ItemStatuses ==
    {"none", "pending", "generating", "already_replied", "outside_scope", "failed"}
Runnable == {"queued", "fetching", "generating"}

ImportTypeOK ==
    /\ session \in [status : SessionStatuses, lease : {"free", "held", "past"}]
    /\ item \in [Reviews -> [status : ItemStatuses, about : Nat]]
    /\ ipc \in [Importers -> {"idle", "claimed", "fetching", "listed", "generating"}]
    /\ found \in [Importers -> [Reviews -> Listed]]
    /\ task \in [Importers -> [Reviews -> {"none", "waiting", "taking", "drafting"}]]
    /\ \A i \in Importers : ipc[i] # "generating" => \A r \in Reviews : task[i][r] = "none"
    /\ \A r \in Reviews : item[r].status = "none" <=> item[r].about = 0
    /\ asked \in [Reviews -> Nat] /\ raced \in [Reviews -> Nat] /\ drafted \in [Reviews -> Nat]
    /\ orphans \subseteq Reviews

\* create_session has just queued it.
Init ==
    /\ RepliesInit
    /\ session = [status |-> "queued", lease |-> "free"]
    /\ item = [r \in Reviews |-> [status |-> "none", about |-> 0]]
    /\ ipc = [i \in Importers |-> "idle"]
    /\ found = [i \in Importers |-> [r \in Reviews |-> Unlisted]]
    /\ task = [i \in Importers |-> [r \in Reviews |-> "none"]]
    /\ asked = [r \in Reviews |-> 0] /\ raced = [r \in Reviews |-> 0]
    /\ drafted = [r \in Reviews |-> 0] /\ orphans = {}

ItemsIn(status) == {r \in Reviews : item[r].status = status}
Becomes(rs, status) ==
    item' = [r \in Reviews |-> IF r \in rs THEN [item[r] EXCEPT !.status = status] ELSE item[r]]
Asked(rs) == asked' = [r \in Reviews |-> asked[r] + IF r \in rs THEN 1 ELSE 0]
Moves(i, to) == ipc' = [ipc EXCEPT ![i] = to]
\* A mutant: an importer leaves its tasks behind.
QuitsInMid(i) ==
    Moves(i, "idle") /\ UNCHANGED task
        /\ found' = [found EXCEPT ![i] = [r \in Reviews |-> Unlisted]]
Quits(i) ==
    /\ Moves(i, "idle")
    /\ found' = [found EXCEPT ![i] = [r \in Reviews |-> Unlisted]]
    /\ task' = [task EXCEPT ![i] = [r \in Reviews |-> "none"]]

-----------------------------------------------------------------------------
(* The worker                                                              *)

MayClaim == session.status \in Runnable /\ session.lease # "held"

ClaimSession(i) ==
    /\ ipc[i] = "idle" /\ MayClaim
    /\ session' = [session EXCEPT !.lease = "held"]
    /\ Moves(i, "claimed")
    /\ UNCHANGED <<vars, item, found, task, asked, raced, drafted, orphans>>

\* process_session reads the status again; another than these is left alone.
NothingToDo(i) ==
    /\ ipc[i] = "claimed" /\ session.status \notin Runnable
    /\ Quits(i)
    /\ UNCHANGED <<vars, session, item, asked, raced, drafted, orphans>>

BeginFetch(i) ==
    /\ ipc[i] = "claimed" /\ session.status \in {"queued", "fetching"}
    /\ session' = [session EXCEPT !.status = "fetching"]
    /\ Moves(i, "fetching")
    /\ UNCHANGED <<vars, item, found, task, asked, raced, drafted, orphans>>

\* The whole history, whatever the poll has seen.
FetchReviews(i) ==
    /\ ipc[i] = "fetching"
    /\ found' = [found EXCEPT ![i] = [r \in Reviews |->
                   IF review[r] = 0 THEN Unlisted
                   ELSE [about |-> review[r], by |-> reply[r].by, n |-> reply[r].n]]]
    /\ Moves(i, "listed")
    /\ UNCHANGED <<vars, session, item, task, asked, raced, drafted, orphans>>

\* A location that cannot be read counts as one without reviews.
FetchFails(i) ==
    /\ ipc[i] = "fetching" /\ Fails
    /\ session' = [status |-> "completed", lease |-> "free"]
    /\ Quits(i)
    /\ UNCHANGED <<google, files, polling, pollers, places, ghosts, changes, orders>>
    /\ UNCHANGED <<item, asked, raced, drafted, orphans>>

\* What the fetch makes of r's item; row is the reply it took for r's, 0 for none.
OnFileAlready(r, row) == row # 0 /\ rows[r][row].status \in {"pending", "posted"}
Fetched(r, l, row) ==
    IF l.about = 0 THEN item[r]
    ELSE IF item[r].status = "none"
         THEN [about |-> l.about,
               status |-> IF l.by # "nobody" \/ OnFileAlready(r, row)
                          THEN "already_replied" ELSE "pending"]
    ELSE [item[r] EXCEPT !.status =
            IF l.by # "nobody" THEN "already_replied"
            ELSE IF @ = "generating" THEN "pending" ELSE @]

\* Answers Google shows are adopted as a poll adopts them.  Of several rows of a review any
\* may stand for it: the replies are read in no order.  The session's status is written over
\* whatever it is by now; the lease stays, unless there is nothing to import.
StoreFetched(i) ==
    LET l == found[i]
        adopts(r) == l[r].by # "nobody" /\ ~Known(r, l[r])
        known == {r \in Reviews : l[r].about # 0}
    IN
    /\ ipc[i] = "listed"
    /\ \E row \in {f \in [Reviews -> 0..Max({Len(rows[r]) : r \in Reviews})] :
                     \A r \in Reviews : IF Indices(r) = {} THEN f[r] = 0
                                        ELSE f[r] \in Indices(r)} :
         item' = [r \in Reviews |-> Fetched(r, l[r], row[r])]
    /\ Asked({r \in Reviews : item'[r].status = "pending" /\ item[r].status # "pending"})
    /\ rows' = [r \in Reviews |-> IF adopts(r) THEN Adopted(r, l[r]) ELSE rows[r]]
    /\ hand' = [s \in Sessions |->
                  IF cur[s] # NoReview /\ hand[s] = "row"
                        /\ adopts(cur[s]) /\ at[s] = Latest(Indices(cur[s]))
                  THEN "draft" ELSE hand[s]]
    /\ insight' = [r \in Reviews |-> IF r \in known /\ item[r].status = "none" /\ insight[r].about = 0
                                     THEN [insight[r] EXCEPT !.about = l[r].about] ELSE insight[r]]
    /\ told' = [r \in Reviews |-> IF r \in known /\ item[r].status = "none" /\ insight[r].about = 0
                                  THEN l[r].about ELSE told[r]]
    /\ session' = IF known = {} THEN [status |-> "completed", lease |-> "free"]
                  ELSE [session EXCEPT !.status = "awaiting_scope"]
    /\ Quits(i)
    /\ UNCHANGED <<google, polling, pollers, pc, cur, at, ghosts, bounds, raced, drafted, orphans>>

\* Items marked over ten minutes ago are taken up again; with none pending the session is
\* complete.
BeginGenerate(i) ==
    /\ ipc[i] = "claimed" /\ session.status = "generating"
    /\ \E stale \in SUBSET ItemsIn("generating") :
         LET pending == ItemsIn("pending") \cup stale IN
         /\ Becomes(stale, "pending") /\ Asked(stale)
         /\ IF pending = {}
            THEN session' = [status |-> "completed", lease |-> "free"] /\ Quits(i)
            ELSE /\ task' = [task EXCEPT ![i] = [r \in Reviews |->
                               IF r \in pending THEN "waiting" ELSE "none"]]
                 /\ Moves(i, "generating")
                 /\ UNCHANGED <<session, found>>
    /\ UNCHANGED <<vars, raced, drafted, orphans>>

\* A mutant: a task does not look at its item again.
Unchecked(r) == TRUE
StillPending(r) == item[r].status = "pending"

\* A task reads its item, and the session and the channel after it...
TakeItem(i, r) ==
    /\ task[i][r] = "waiting"
    /\ task' = [task EXCEPT ![i][r] = IF StillPending(r) THEN "taking" ELSE "none"]
    /\ raced' = [raced EXCEPT ![r] =
                   @ + IF StillPending(r) /\ \E k \in Importers \ {i} : task[k][r] = "taking"
                       THEN 1 ELSE 0]
    /\ UNCHANGED <<vars, session, item, ipc, found, asked, drafted, orphans>>

\* ... and marks it, whatever it is by then.
MarkItem(i, r) ==
    /\ task[i][r] = "taking"
    /\ Becomes({r}, "generating")
    /\ task' = [task EXCEPT ![i][r] = "drafting"]
    /\ UNCHANGED <<vars, session, ipc, found, asked, raced, drafted, orphans>>

\* The draft is put on file; the item's row is detached and stays as it is.
Drafted(i, r) ==
    /\ task[i][r] = "drafting"
    /\ AddRow(r, "pending", item[r].about, "draft")
    /\ drafted' = [drafted EXCEPT ![r] = @ + 1]
    /\ task' = [task EXCEPT ![i][r] = "none"]
    /\ UNCHANGED <<google, insight, told, polling, pollers, places, ghosts, bounds>>
    /\ UNCHANGED <<session, item, ipc, found, asked, raced, orphans>>

DraftBreaks(i, r) ==
    /\ task[i][r] = "drafting" /\ Fails
    /\ Becomes({r}, "failed")
    /\ task' = [task EXCEPT ![i][r] = "none"]
    /\ UNCHANGED <<google, files, polling, pollers, places, ghosts, changes, orders>>
    /\ UNCHANGED <<session, ipc, found, asked, raced, drafted, orphans>>

\* A mutant: what is still being written is left to its task.
Untouched == UNCHANGED item
Interrupted == Becomes(ItemsIn("generating"), "failed")

\* What is left generating is given up, whoever is at work on it.
FinishGenerate(i) ==
    /\ ipc[i] = "generating" /\ \A r \in Reviews : task[i][r] = "none"
    /\ Interrupted
    /\ session' = [status |-> "ready", lease |-> "free"]
    /\ Quits(i)
    /\ UNCHANGED <<vars, asked, raced, drafted, orphans>>

Orphaned(i) ==
    orphans' = IF ipc[i] = "generating" THEN orphans \cup ItemsIn("generating") ELSE orphans

\* Any exception outside of a task.
SessionFails(i) ==
    /\ ipc[i] \in {"fetching", "listed", "generating"} /\ Fails
    /\ \A r \in Reviews : task[i][r] = "none"
    /\ session' = [status |-> "failed", lease |-> "free"]
    /\ Quits(i) /\ Orphaned(i)
    /\ UNCHANGED <<google, files, polling, pollers, places, ghosts, changes, orders>>
    /\ UNCHANGED <<item, asked, raced, drafted>>

ImporterDies(i) ==
    /\ ipc[i] # "idle" /\ Fails
    /\ Quits(i) /\ Orphaned(i)
    /\ UNCHANGED <<google, files, polling, pollers, places, ghosts, changes, orders>>
    /\ UNCHANGED <<session, item, asked, raced, drafted>>

ImportLeaseLapses ==
    /\ session.lease = "held"
    /\ session' = [session EXCEPT !.lease = "past"]
    /\ UNCHANGED <<vars, item, ipc, found, task, asked, raced, drafted, orphans>>

-----------------------------------------------------------------------------
(* The merchant                                                            *)

Orders == orders < MaxOrders /\ orders' = orders + 1
                             /\ UNCHANGED <<google, files, polling, pollers, places, ghosts, changes, faults>>

\* start_generation: pending items before the cutoff are left out.
StartGeneration ==
    /\ Orders /\ session.status = "awaiting_scope"
    /\ \E outside \in SUBSET ItemsIn("pending") : Becomes(outside, "outside_scope")
    /\ session' = [status |-> "generating", lease |-> "free"]
    /\ UNCHANGED <<ipc, found, task, asked, raced, drafted, orphans>>

\* request_item_generation.
GenerateItem(r) ==
    /\ Orders /\ session.status = "ready" /\ item[r].status \in {"outside_scope", "failed"}
    /\ Becomes({r}, "pending") /\ Asked({r})
    /\ session' = [status |-> "generating", lease |-> "free"]
    /\ UNCHANGED <<ipc, found, task, raced, drafted, orphans>>

\* create_session while the session is active: it starts over, unless drafts are written.
Reconnect ==
    /\ Orders /\ session.status \in {"queued", "fetching", "awaiting_scope", "ready"}
    /\ session' = [status |-> "queued", lease |-> "free"]
    /\ UNCHANGED <<item, ipc, found, task, asked, raced, drafted, orphans>>

-----------------------------------------------------------------------------
ImportStep(i) ==
    \/ ClaimSession(i) \/ NothingToDo(i) \/ BeginFetch(i) \/ FetchReviews(i) \/ StoreFetched(i)
    \/ BeginGenerate(i) \/ FinishGenerate(i)
    \/ \E r \in Reviews : TakeItem(i, r) \/ MarkItem(i, r) \/ Drafted(i, r)

ImportMishap(i) ==
    \/ FetchFails(i) \/ SessionFails(i) \/ ImporterDies(i)
    \/ \E r \in Reviews : DraftBreaks(i, r)

MerchantStep == StartGeneration \/ Reconnect \/ \E r \in Reviews : GenerateItem(r)

Next ==
    \/ RepliesNext /\ UNCHANGED import
    \/ \E i \in Importers : ImportStep(i) \/ ImportMishap(i)
    \/ ImportLeaseLapses \/ MerchantStep

ImportSpec == Init /\ [][Next]_ivars

\* The worker's loop goes on and time passes.
FairImportSpec ==
    /\ ImportSpec
    /\ \A i \in Importers : WF_ivars(ImportStep(i))
    /\ WF_ivars(ImportLeaseLapses)

-----------------------------------------------------------------------------
(* What holds                                                              *)

\* create_session: "must not create a second session: both workers would draft the same
\* reviews".  Leases that lapse and reconnections put two workers on one session all the
\* same; even so the import writes a draft of a review that its item was not made pending
\* for only when two tasks had both read the item before either marked it.
DraftsWereAsked == \A r \in Reviews : drafted[r] <= asked[r] + raced[r]

\* A worker that dies, is overtaken or fails leaves no import at work for ever, and no item
\* either, but for those it was writing itself.
EveryImportSettles ==
    <>[](session.status \notin Runnable /\ ItemsIn("generating") \subseteq orphans)

=============================================================================
