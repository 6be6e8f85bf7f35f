---------------------------- MODULE ReviewReplies ----------------------------
(***************************************************************************)
(* Replies to Google reviews: a poll of a location reads what changed      *)
(* since the last one, adopts the replies Google shows, drafts and posts   *)
(* the missing ones (channels/reviews_worker.py); the merchant approves,   *)
(* edits, retries and rejects drafts in the Outbox (channels/router.py).   *)
(*                                                                         *)
(* Statements with no call of a model or of Google between them are one    *)
(* step.  A draft comes from review_engine.process_review, which closes    *)
(* the session it is given: what the caller had not committed is rolled    *)
(* back, and the rows it had loaded are detached: what it writes to them   *)
(* afterwards is not saved.                                                *)
(***************************************************************************)
EXTENDS Integers, Sequences, FiniteSets, FiniteSetsExt

CONSTANTS
    Reviews,     \* reviews of one location
    Pollers,     \* sessions of polls
    Clerks,      \* sessions of Outbox requests
    AutoPilot,   \* approval_mode "auto" and a rating of at least min_rating_auto
    AutoFollow,  \* edited_review_autopost
    MaxChanges,  \* bound on what reviewers and owners do at Google
    MaxOrders,   \* bound on Outbox requests
    MaxFaults    \* bound on failing calls and crashes

Sessions == Pollers \cup Clerks
NoReview == "none"

ASSUME ConstantsAssumption ==
    /\ IsFiniteSet(Reviews) /\ NoReview \notin Reviews
    /\ IsFiniteSet(Pollers) /\ IsFiniteSet(Clerks) /\ Pollers \cap Clerks = {}
    /\ AutoPilot \in BOOLEAN /\ AutoFollow \in BOOLEAN
    /\ MaxChanges \in Nat /\ MaxOrders \in Nat /\ MaxFaults \in Nat

VARIABLES
    review,   \* review[r]: the version of r at Google, 0 before it is written
    reply,    \* reply[r]: the reply Google shows: by whom, and the how-manieth
    rows,     \* rows[r]: r's review_replies, oldest first
    insight,  \* insight[r]: the version analytics has seen, edited, draft_dismissed
    told,     \* told[r]: the version of the last review.discovered
    news,     \* reviews changed, or replied to, since last_polled_at
    lease,    \* polling_locked_until: free, held, or past
    backoff,  \* the channel's health backoff
    pc,       \* pc[s]: where session s is
    cut,      \* cut[w]: news by the last_polled_at that w has read
    listing,  \* listing[s][r]: what Google listed to s, or the client sent it
    todo,     \* todo[w]: listed reviews w has not come to
    cur,      \* cur[s]: the review it is at
    at,       \* at[s]: the row it is at, 0 for none
    hand,     \* hand[s]: the text it is about to post or save
    passed,   \* reviews a poll has passed over
    looked,   \* looked[r]: the version and the reply polls have dealt with
    changes, orders, faults

google == <<review, reply>>
files == <<rows, insight, told>>
polling == <<news, lease, backoff>>
pollers == <<cut, listing, todo>>
places == <<pc, cur, at, hand>>
ghosts == <<passed, looked>>
bounds == <<changes, orders, faults>>
vars == <<google, files, polling, pollers, places, ghosts, bounds>>

Statuses == {"pending", "posted", "failed", "rejected", "deleted"}
Texts == {"empty", "draft", "live"}  \* live: what Google shows

\* about: the version of the review it answers; id: reply_external_id, 0 for none.
Row == [status : Statuses, about : Nat, text : Texts, id : Nat]
Listed == [about : Nat, by : {"nobody", "owner", "us"}, n : Nat]
Unlisted == [about |-> 0, by |-> "nobody", n |-> 0]

Waiting == {"loaded", "claimed", "reading"}
Drafting == {"new", "refresh", "follow", "generate", "regenerate", "retry"}
Posting == {"posting", "refused", "approving", "accepted", "declined"}

TypeOK ==
    /\ review \in [Reviews -> 0..MaxChanges]
    /\ reply \in [Reviews -> [by : {"nobody", "owner", "us"}, n : Nat]]
    /\ \A r \in Reviews : reply[r].n = 0 <=> reply[r].by = "nobody"
    /\ rows \in [Reviews -> Seq(Row)]
    /\ insight \in [Reviews -> [about : 0..MaxChanges, edited : BOOLEAN, dismissed : BOOLEAN]]
    /\ told \in [Reviews -> 0..MaxChanges]
    /\ news \subseteq Reviews /\ lease \in {"free", "held", "past"} /\ backoff \in BOOLEAN
    /\ pc \in [Sessions -> {"idle", "sent"} \cup Waiting \cup Drafting \cup Posting]
    /\ cut \in [Pollers -> SUBSET Reviews] /\ todo \in [Pollers -> SUBSET Reviews]
    /\ listing \in [Sessions -> [Reviews -> Listed]]
    /\ cur \in [Sessions -> Reviews \cup {NoReview}]
    /\ \A s \in Sessions :
          /\ at[s] \in 0..(IF cur[s] = NoReview THEN 0 ELSE Len(rows[cur[s]]))
          /\ hand[s] \in Texts \cup {"row"}
          /\ (cur[s] = NoReview) <=> pc[s] \in {"idle"} \cup Waiting
    /\ \A r \in Reviews : \A i \in 1..Len(rows[r]) :
          rows[r][i].about <= review[r] /\ rows[r][i].id <= reply[r].n
    /\ passed \subseteq Reviews
    /\ looked \in [Reviews -> [about : 0..MaxChanges, n : Nat]]
    /\ changes \in 0..MaxChanges /\ orders \in 0..MaxOrders /\ faults \in 0..MaxFaults

\* A location that was polled before any of these reviews was written.
RepliesInit ==
    /\ review = [r \in Reviews |-> 0]
    /\ reply = [r \in Reviews |-> [by |-> "nobody", n |-> 0]]
    /\ rows = [r \in Reviews |-> <<>>]
    /\ insight = [r \in Reviews |-> [about |-> 0, edited |-> FALSE, dismissed |-> FALSE]]
    /\ told = [r \in Reviews |-> 0]
    /\ news = {} /\ lease = "free" /\ backoff = FALSE
    /\ pc = [s \in Sessions |-> "idle"] /\ cut = [w \in Pollers |-> {}]
    /\ listing = [s \in Sessions |-> [r \in Reviews |-> Unlisted]]
    /\ todo = [w \in Pollers |-> {}]
    /\ cur = [s \in Sessions |-> NoReview] /\ at = [s \in Sessions |-> 0]
    /\ hand = [s \in Sessions |-> "empty"]
    /\ passed = {} /\ looked = [r \in Reviews |-> [about |-> 0, n |-> 0]]
    /\ changes = 0 /\ orders = 0 /\ faults = 0

-----------------------------------------------------------------------------
(* Rows, and what Google shows                                             *)

Indices(r) == {i \in 1..Len(rows[r]) : rows[r][i].status # "deleted"}
With(r, statuses) == {i \in Indices(r) : rows[r][i].status \in statuses}
Latest(is) == IF is = {} THEN 0 ELSE Max(is)

Goto(s, to) == pc' = [pc EXCEPT ![s] = to]
\* A mutant: the session keeps the review it was at.
EndsHolding(s) ==
    /\ Goto(s, "idle") /\ UNCHANGED cur
    /\ at' = [at EXCEPT ![s] = 0] /\ hand' = [hand EXCEPT ![s] = "empty"]
Ends(s) ==
    /\ Goto(s, "idle")
    /\ cur' = [cur EXCEPT ![s] = NoReview] /\ at' = [at EXCEPT ![s] = 0]
    /\ hand' = [hand EXCEPT ![s] = "empty"]
Fails == faults < MaxFaults /\ faults' = faults + 1

AddRow(r, status, about, text) ==
    rows' = [rows EXCEPT ![r] = Append(@, [status |-> status, about |-> about,
                                           text |-> text, id |-> 0])]
SetStatus(r, is, status) ==
    rows' = [rows EXCEPT ![r] = [i \in DOMAIN @ |->
                IF i \in is THEN [@[i] EXCEPT !.status = status] ELSE @[i]]]

\* Once row i's text is written, who has loaded it has a text of his own.
Rewritten(r, i) ==
    hand' = [s \in Sessions |-> IF cur[s] = r /\ at[s] = i /\ hand[s] = "row"
                                THEN "draft" ELSE hand[s]]

\* A reply's updateTime is after last_polled_at, as a changed review's is.
BecomesNews(r) ==
    /\ news' = news \cup {r}
    /\ cut' = [w \in Pollers |-> IF pc[w] \in {"loaded", "claimed"} THEN cut[w] \cup {r}
                                 ELSE cut[w]]

\* Google shows another reply: the text s has, the one of row i if it is that row's.
Shown(r, by, s, i) ==
    /\ reply' = [reply EXCEPT ![r] = [by |-> by, n |-> @.n + 1]]
    /\ rows' = [rows EXCEPT ![r] = [j \in DOMAIN @ |->
                  IF j = i THEN [@[j] EXCEPT !.text = "live"]
                  ELSE IF @[j].text = "live" THEN [@[j] EXCEPT !.text = "draft"]
                  ELSE @[j]]]
    /\ hand' = [t \in Sessions |->
                  IF t = s THEN (IF i = 0 THEN "live" ELSE "row")
                  ELSE IF cur[t] = r /\ hand[t] = "live" THEN "draft" ELSE hand[t]]
    /\ BecomesNews(r)

-----------------------------------------------------------------------------
(* A poll                                                                  *)

\* _poll_one_channel reads last_polled_at with the config, before the claim.
Load(w) ==
    /\ pc[w] = "idle"
    /\ Goto(w, "loaded")
    /\ cut' = [cut EXCEPT ![w] = news]
    /\ UNCHANGED <<google, files, polling, listing, todo, cur, at, hand, ghosts, bounds>>

\* A mutant: the claim stamps last_polled_at, and not the release.
ClaimStamps(w) == lease' = "held" /\ Goto(w, "claimed") /\ news' = {}
Claimed(w) == lease' = "held" /\ Goto(w, "claimed") /\ UNCHANGED news

Claim(w) ==
    /\ pc[w] = "loaded"
    /\ IF lease = "held"
       THEN Goto(w, "idle") /\ UNCHANGED <<lease, news>>
       ELSE Claimed(w)
    /\ cut' = IF lease = "held" THEN [cut EXCEPT ![w] = {}] ELSE cut
    /\ UNCHANGED <<google, files, backoff, listing, todo, cur, at, hand, ghosts, bounds>>

\* _release_channel, whoever holds the lease now: the poll has failed or not.
Unread(r) == looked[r] # [about |-> review[r], n |-> reply[r].n]
Release(w) ==
    /\ Ends(w)
    /\ lease' = "free" /\ news' = {}
    /\ passed' = passed \cup {r \in news : Unread(r)}
    /\ cut' = [cut EXCEPT ![w] = {}] /\ todo' = [todo EXCEPT ![w] = {}]
    /\ listing' = [listing EXCEPT ![w] = [r \in Reviews |-> Unlisted]]

\* A channel in health backoff is released unread.
SkipBackedOff(w) ==
    /\ pc[w] = "claimed" /\ backoff
    /\ Release(w)
    /\ UNCHANGED <<google, files, backoff, looked, bounds>>

\* list_reviews leaves out what is not newer than last_polled_at.
List(w) ==
    /\ pc[w] = "claimed" /\ ~backoff
    /\ Goto(w, "reading")
    /\ listing' = [listing EXCEPT ![w] = [r \in Reviews |->
                     IF r \in cut[w]
                     THEN [about |-> review[r], by |-> reply[r].by, n |-> reply[r].n]
                     ELSE Unlisted]]
    /\ todo' = [todo EXCEPT ![w] = cut[w]]
    /\ cut' = [cut EXCEPT ![w] = {}]
    /\ UNCHANGED <<google, files, polling, cur, at, hand, ghosts, bounds>>

ListFails(w) ==
    /\ pc[w] = "claimed" /\ ~backoff /\ Fails
    /\ Release(w) /\ backoff' = TRUE
    /\ UNCHANGED <<google, files, looked, changes, orders>>

Dealt(r, about, n) ==
    looked' = [looked EXCEPT ![r] = [about |-> Max({@.about, about}), n |-> Max({@.n, n})]]

\* _adopt_existing_reply leaves a posted row with the same reply alone.
Known(r, l) ==
    LET i == Latest(Indices(r)) IN
    i # 0 /\ rows[r][i].status = "posted" /\ rows[r][i].id = l.n
          /\ rows[r][i].text = (IF l.n = reply[r].n THEN "live" ELSE "draft")

\* The listed reply goes on file: the newest row becomes it, older drafts are withdrawn.
Adopted(r, l) ==
    LET i == Latest(Indices(r))
        row == [status |-> "posted", about |-> l.about, id |-> l.n,
                text |-> IF l.n = reply[r].n THEN "live" ELSE "draft"]
    IN IF i = 0 THEN Append(rows[r], row)
       ELSE [j \in DOMAIN rows[r] |->
               IF j = i THEN row
               ELSE IF rows[r][j].status \in {"pending", "failed"}
                    THEN [rows[r][j] EXCEPT !.status = "rejected"]
               ELSE rows[r][j]]

\* A mutant: only a review with nothing on file adopts the answer at Google.
AdoptsFirst(r, l) == l.by # "nobody" /\ Indices(r) = {}
MustAdopt(r, l) == l.by # "nobody" /\ ~Known(r, l)
OnFile(r) == With(r, {"pending", "posted"})
Dismissed(r) == insight[r].dismissed

\* _enqueue_review_discovered.
Tell(r, about) == told' = [told EXCEPT ![r] = about]

Came(w, r) == pc[w] = "reading" /\ r \in todo[w] /\ todo' = [todo EXCEPT ![w] = @ \ {r}]

Adopt(w, r) ==
    LET l == listing[w][r] IN
    /\ Came(w, r) /\ MustAdopt(r, l)
    /\ rows' = [rows EXCEPT ![r] = Adopted(r, l)]
    /\ hand' = [s \in Sessions |-> IF cur[s] = r /\ at[s] = Latest(Indices(r)) /\ hand[s] = "row"
                                   THEN "draft" ELSE hand[s]]
    /\ Dealt(r, l.about, l.n) /\ Tell(r, l.about)
    /\ UNCHANGED <<google, insight, polling, pc, cut, listing, cur, at, passed, bounds>>

\* A draft or reply on file that answers the version listed, or a draft once rejected:
\* nothing to do.
LeaveAlone(w, r) ==
    LET l == listing[w][r]
        i == Latest(OnFile(r)) IN
    /\ Came(w, r) /\ ~MustAdopt(r, l)
    /\ IF i # 0 THEN rows[r][i].about = l.about ELSE Dismissed(r)
    /\ Dealt(r, l.about, l.n) /\ Tell(r, l.about)
    /\ UNCHANGED <<google, rows, insight, polling, cut, listing, places, passed, bounds>>

\* generate_auto_reply is called; the failed row to resume is only remembered.  The event
\* for analytics is rolled back with the rest, unless filing the issue committed it.
Begin(w, r, kind, i) ==
    /\ Came(w, r)
    /\ Goto(w, kind)
    /\ cur' = [cur EXCEPT ![w] = r] /\ at' = [at EXCEPT ![w] = i]
    /\ hand' = [hand EXCEPT ![w] = "draft"]
    /\ Tell(r, listing[w][r].about) \/ UNCHANGED told
    /\ UNCHANGED <<google, rows, insight, polling, cut, listing, ghosts, bounds>>

DraftReply(w, r) ==
    /\ ~MustAdopt(r, listing[w][r]) /\ OnFile(r) = {} /\ ~Dismissed(r)
    /\ Begin(w, r, "new", Latest(With(r, {"failed"})))

\* _refresh_edited_review_reply: what is on file answers another version.
FollowEdit(w, r) ==
    LET i == Latest(OnFile(r)) IN
    /\ ~MustAdopt(r, listing[w][r]) /\ i # 0 /\ rows[r][i].about # listing[w][r].about
    /\ IF rows[r][i].status = "pending" THEN Begin(w, r, "refresh", i)
       ELSE Begin(w, r, "follow", Latest(With(r, {"failed"})))

PollDrafting(w) == pc[w] \in {"new", "refresh", "follow"}

\* _save_reply_row: a row that was resumed is detached by now, only a new one is saved.
Save(w, status) ==
    LET r == cur[w] IN
    IF at[w] = 0
    THEN AddRow(r, status, listing[w][r].about, hand[w])
    ELSE UNCHANGED rows

NextReview(w) ==
    /\ Goto(w, "reading")
    /\ cur' = [cur EXCEPT ![w] = NoReview] /\ at' = [at EXCEPT ![w] = 0]
    /\ hand' = [hand EXCEPT ![w] = "empty"]
    /\ Dealt(cur[w], listing[w][cur[w]].about,
             IF hand[w] = "live" THEN reply[cur[w]].n ELSE listing[w][cur[w]].n)

\* A draft for the Outbox; a pending draft that was to be brought up to date stays as it is.
QueueDraft(w) ==
    /\ PollDrafting(w)
    /\ IF pc[w] = "refresh" THEN UNCHANGED rows ELSE Save(w, "pending")
    /\ NextReview(w)
    /\ UNCHANGED <<google, insight, told, polling, pollers, passed, bounds>>

\* A failed draft is put on file, a failed follow-up is not.  Only after an error before
\* the engine closes the session is it committed that older failed rows are withdrawn and
\* that a new version takes back the dismissal.
DraftFails(w) ==
    LET r == cur[w] IN
    /\ PollDrafting(w) /\ Fails
    /\ \E early \in BOOLEAN :
          /\ IF pc[w] = "refresh" \/ (pc[w] = "follow" /\ at[w] = 0) THEN UNCHANGED rows
             ELSE IF at[w] = 0 THEN AddRow(r, "failed", listing[w][r].about, "empty")
             ELSE SetStatus(r, IF early THEN With(r, {"failed"}) \ {at[w]} ELSE {}, "rejected")
          /\ insight' = [insight EXCEPT ![r].dismissed = @ /\ (pc[w] = "new" \/ ~early)]
    /\ NextReview(w)
    /\ UNCHANGED <<google, told, polling, pollers, passed, changes, orders>>

MayPost(w) == AutoPilot /\ (pc[w] = "new" \/ (pc[w] = "follow" /\ AutoFollow))

\* reply_to_review, and confirm_reply_live after it.
PollPosts(w) ==
    /\ PollDrafting(w) /\ MayPost(w)
    /\ Shown(cur[w], "us", w, 0)
    /\ Goto(w, "sent")
    /\ UNCHANGED <<review, insight, told, lease, backoff, listing, todo, cur, at, ghosts, bounds>>

\* A refusal, a reply Google takes and does not show, or one that it shows and an error of
\* the read that was to confirm it.
PollIsRefused(w) ==
    /\ pc[w] = "sent" \/ (PollDrafting(w) /\ MayPost(w))
    /\ Fails
    /\ Goto(w, "refused")
    /\ UNCHANGED <<google, files, polling, pollers, cur, at, hand, ghosts, changes, orders>>

Outcome(w) == IF pc[w] = "sent" THEN "posted" ELSE "failed"

PollRecords(w) ==
    /\ pc[w] \in {"sent", "refused"} /\ w \in Pollers
    /\ Save(w, Outcome(w))
    /\ NextReview(w)
    /\ UNCHANGED <<google, insight, told, polling, pollers, passed, bounds>>

\* A connection error is not a GoogleReviewsError: it ends the poll, the reply may be live.
PollBreaks(w) ==
    /\ pc[w] = "sent" \/ (PollDrafting(w) /\ MayPost(w))
    /\ Fails /\ Release(w) /\ backoff' = TRUE
    /\ UNCHANGED <<google, files, looked, changes, orders>>

PollEnds(w) ==
    /\ pc[w] = "reading" /\ todo[w] = {}
    /\ Release(w) /\ backoff' = FALSE
    /\ UNCHANGED <<google, files, looked, bounds>>

-----------------------------------------------------------------------------
(* The Outbox                                                              *)

Asks(m) == pc[m] = "idle" /\ orders < MaxOrders /\ orders' = orders + 1
Works(m, r, kind, i, text) ==
    /\ Goto(m, kind)
    /\ cur' = [cur EXCEPT ![m] = r] /\ at' = [at EXCEPT ![m] = i]
    /\ hand' = [hand EXCEPT ![m] = text]

Visible(r) == insight[r].about # 0 \/ rows[r] # <<>>
ShownToClient(r) == IF insight[r].about # 0 THEN insight[r].about ELSE rows[r][Len(rows[r])].about

\* approve_review_reply holds the row it has loaded during its calls of Google.
Approve(m, r, i) ==
    /\ Asks(m) /\ i \in With(r, {"pending"})
    /\ Works(m, r, "approving", i, "row")
    /\ UNCHANGED <<google, files, polling, pollers, ghosts, changes, faults>>

ApprovePosts(m) ==
    /\ pc[m] = "approving"
    /\ Shown(cur[m], "us", m, IF hand[m] = "row" THEN at[m] ELSE 0)
    /\ Goto(m, "accepted")
    /\ UNCHANGED <<review, insight, told, lease, backoff, listing, todo, cur, at, ghosts, bounds>>

\* The row is posted and its siblings are withdrawn; a row deleted meanwhile is an error
\* that leaves everything as it is.
ApproveRecords(m) ==
    LET r == cur[m] IN
    /\ pc[m] = "accepted"
    /\ IF rows[r][at[m]].status = "deleted" THEN UNCHANGED <<rows, insight>>
       ELSE /\ rows' = [rows EXCEPT ![r] = [j \in DOMAIN @ |->
                          IF j = at[m] THEN [@[j] EXCEPT !.status = "posted"]
                          ELSE IF @[j].status \in {"pending", "failed"}
                               THEN [@[j] EXCEPT !.status = "rejected"]
                          ELSE @[j]]]
            /\ insight' = [insight EXCEPT ![r].edited = FALSE]
    /\ Ends(m)
    /\ UNCHANGED <<google, told, polling, pollers, ghosts, bounds>>

ApproveIsRefused(m) ==
    LET r == cur[m] IN
    /\ pc[m] \in {"approving", "accepted"} /\ Fails
    /\ SetStatus(r, {at[m]} \cap Indices(r), "failed")
    /\ Ends(m)
    /\ UNCHANGED <<google, insight, told, polling, pollers, ghosts, changes, orders>>

\* A connection error: nothing is recorded, the reply may be live.
ApproveBreaks(m) ==
    /\ pc[m] \in {"approving", "accepted"} /\ Fails
    /\ Ends(m)
    /\ UNCHANGED <<google, files, polling, pollers, ghosts, changes, orders>>

\* generate_reply_for_review looks at one row of the review, whichever comes first.
MayDraftOver(r, i) ==
    rows[r][i].status \in {"failed", "rejected"}
        \/ (rows[r][i].status = "posted" /\ insight[r].edited)
Existing(r, i) == IF Indices(r) = {} THEN i = 0 ELSE i \in Indices(r) /\ MayDraftOver(r, i)

\* With the merchant's own words the row gives way to a new one.
WriteReply(m, r, i) ==
    /\ Asks(m) /\ Visible(r) /\ Existing(r, i)
    /\ rows' = [rows EXCEPT ![r] =
                  Append([j \in DOMAIN @ |-> IF j = i THEN [@[j] EXCEPT !.status = "deleted"]
                                             ELSE @[j]],
                         [status |-> "pending", about |-> ShownToClient(r), text |-> "draft", id |-> 0])]
    /\ UNCHANGED <<google, insight, told, polling, pollers, places, ghosts, changes, faults>>

\* With a draft of the engine the deletion is rolled back.
AskDraft(m, r, i) ==
    /\ Asks(m) /\ Visible(r) /\ Existing(r, i)
    /\ Works(m, r, "generate", 0, "draft")
    /\ listing' = [listing EXCEPT ![m][r].about = ShownToClient(r)]
    /\ UNCHANGED <<google, files, polling, cut, todo, ghosts, changes, faults>>

AskAnother(m, r, i) ==
    /\ Asks(m) /\ i \in With(r, {"pending"})
    /\ Works(m, r, "regenerate", i, "draft")
    /\ UNCHANGED <<google, files, polling, pollers, ghosts, changes, faults>>

\* retry_failed_reply: an empty draft is written anew, another one is queued as it is.
Retry(m, r, i) ==
    /\ Asks(m) /\ i \in With(r, {"failed"})
    /\ IF rows[r][i].text = "empty"
       THEN Works(m, r, "retry", i, "draft") /\ UNCHANGED rows
       ELSE SetStatus(r, {i}, "pending") /\ UNCHANGED places
    /\ UNCHANGED <<google, insight, told, polling, pollers, ghosts, changes, faults>>

Composing(m) == pc[m] \in {"generate", "regenerate", "retry"}

\* regenerate and retry read their row again and write the text, and retry the status.
Composed(m) ==
    LET r == cur[m]  i == at[m] IN
    /\ Composing(m)
    /\ IF i = 0 THEN AddRow(r, "pending", listing[m][r].about, "draft")
       ELSE IF rows[r][i].status = "deleted" THEN UNCHANGED rows
       ELSE rows' = [rows EXCEPT ![r][i].text = "draft",
                                 ![r][i].status = IF pc[m] = "retry" THEN "pending" ELSE @]
    /\ Goto(m, "idle")
    /\ cur' = [cur EXCEPT ![m] = NoReview] /\ at' = [at EXCEPT ![m] = 0]
    /\ hand' = [s \in Sessions |->
                  IF s = m THEN "empty"
                  ELSE IF i # 0 /\ cur[s] = r /\ at[s] = i /\ hand[s] = "row" THEN "draft"
                  ELSE hand[s]]
    /\ listing' = [listing EXCEPT ![m] = [q \in Reviews |-> Unlisted]]
    /\ UNCHANGED <<google, insight, told, polling, cut, todo, ghosts, bounds>>

ComposingFails(m) ==
    /\ Composing(m) /\ Fails
    /\ Ends(m)
    /\ listing' = [listing EXCEPT ![m] = [q \in Reviews |-> Unlisted]]
    /\ UNCHANGED <<google, files, polling, cut, todo, ghosts, changes, orders>>

\* edit_pending_reply: a posted reply goes back to the queue.
Edit(m, r, i) ==
    /\ Asks(m) /\ i \in With(r, {"pending", "failed", "posted"})
    /\ rows' = [rows EXCEPT ![r][i].text = "draft", ![r][i].status = "pending"]
    /\ Rewritten(r, i)
    /\ UNCHANGED <<google, insight, told, polling, pollers, pc, cur, at, ghosts, changes, faults>>

\* reject_reply; the dismissal is noted if analytics knows the review.
Reject(m, r, i) ==
    /\ Asks(m) /\ i \in With(r, {"pending", "failed"})
    /\ SetStatus(r, {i}, "rejected")
    /\ insight' = [insight EXCEPT ![r].dismissed = @ \/ insight[r].about # 0]
    /\ UNCHANGED <<google, told, polling, pollers, places, ghosts, changes, faults>>

\* dismiss_review_edit (analytics/router.py).
DismissEdit(m, r) ==
    /\ Asks(m) /\ insight[r].about # 0
    /\ SetStatus(r, With(r, {"pending", "failed"}), "rejected")
    /\ insight' = [insight EXCEPT ![r].edited = FALSE, ![r].dismissed = TRUE]
    /\ UNCHANGED <<google, told, polling, pollers, places, ghosts, changes, faults>>

-----------------------------------------------------------------------------
(* Google, analytics, time and faults                                      *)

\* A reviewer writes a review, or writes it anew.
ReviewerWrites(r) ==
    /\ changes < MaxChanges /\ changes' = changes + 1
    /\ review' = [review EXCEPT ![r] = @ + 1]
    /\ BecomesNews(r)
    /\ UNCHANGED <<reply, files, lease, backoff, listing, todo, places, ghosts, orders, faults>>

\* The business answers at Google.
OwnerReplies(r) ==
    /\ review[r] # 0 /\ changes < MaxChanges /\ changes' = changes + 1
    /\ reply' = [reply EXCEPT ![r] = [by |-> "owner", n |-> @.n + 1]]
    /\ rows' = [rows EXCEPT ![r] = [j \in DOMAIN @ |->
                  IF @[j].text = "live" THEN [@[j] EXCEPT !.text = "draft"] ELSE @[j]]]
    /\ hand' = [s \in Sessions |-> IF cur[s] = r /\ hand[s] = "live" THEN "draft" ELSE hand[s]]
    /\ BecomesNews(r)
    /\ UNCHANGED <<review, insight, told, lease, backoff, listing, todo, pc, cur, at, ghosts, orders, faults>>

\* The consumer of review.discovered compares the content with what it has.
Analyse(r) ==
    /\ insight[r].about # told[r]
    /\ insight' = [insight EXCEPT ![r].about = told[r],
                                  ![r].edited = @ \/ insight[r].about # 0]
    /\ UNCHANGED <<google, rows, told, polling, pollers, places, ghosts, bounds>>

LeaseLapses ==
    /\ lease = "held" /\ lease' = "past"
    /\ UNCHANGED <<google, files, news, backoff, pollers, places, ghosts, bounds>>

BackoffEnds ==
    /\ backoff /\ backoff' = FALSE
    /\ UNCHANGED <<google, files, news, lease, pollers, places, ghosts, bounds>>

\* The worker dies; its lease stays.
Crash(w) ==
    /\ pc[w] # "idle" /\ Fails
    /\ Ends(w)
    /\ cut' = [cut EXCEPT ![w] = {}] /\ todo' = [todo EXCEPT ![w] = {}]
    /\ listing' = [listing EXCEPT ![w] = [r \in Reviews |-> Unlisted]]
    /\ UNCHANGED <<google, files, polling, ghosts, changes, orders>>

-----------------------------------------------------------------------------
PollStep(w) ==
    \/ Load(w) \/ Claim(w) \/ SkipBackedOff(w) \/ List(w)
    \/ \E r \in Reviews : Adopt(w, r) \/ LeaveAlone(w, r) \/ DraftReply(w, r) \/ FollowEdit(w, r)
    \/ QueueDraft(w) \/ PollPosts(w) \/ PollRecords(w) \/ PollEnds(w)

RequestStep(m) == ApprovePosts(m) \/ ApproveRecords(m) \/ Composed(m)

Ask(m) ==
    \E r \in Reviews :
        \/ DismissEdit(m, r)
        \/ \E i \in 0..Len(rows[r]) :
              \/ Approve(m, r, i) \/ WriteReply(m, r, i) \/ AskDraft(m, r, i)
              \/ AskAnother(m, r, i) \/ Retry(m, r, i) \/ Edit(m, r, i) \/ Reject(m, r, i)

Mishap ==
    \/ \E w \in Pollers : \/ ListFails(w) \/ DraftFails(w) \/ PollIsRefused(w)
                          \/ PollBreaks(w) \/ Crash(w)
    \/ \E m \in Clerks : ApproveIsRefused(m) \/ ApproveBreaks(m) \/ ComposingFails(m)

Abroad == \E r \in Reviews : ReviewerWrites(r) \/ OwnerReplies(r) \/ Analyse(r)

RepliesNext ==
    \/ \E w \in Pollers : PollStep(w)
    \/ \E m \in Clerks : RequestStep(m) \/ Ask(m)
    \/ Mishap \/ Abroad \/ LeaseLapses \/ BackoffEnds

Spec == RepliesInit /\ [][RepliesNext]_vars

\* The loop polls, requests are served, and time passes.
Fairness ==
    /\ \A w \in Pollers : WF_vars(PollStep(w))
    /\ \A m \in Clerks : WF_vars(RequestStep(m))
    /\ WF_vars(LeaseLapses) /\ WF_vars(BackoffEnds)

FairSpec == Spec /\ Fairness

-----------------------------------------------------------------------------
(* What holds                                                              *)

\* _adopt_existing_reply: "the app must not silently publish over a response that is
\* already public".  A poll posts over an answer of the owner only if that answer came
\* after its listing, or as the follow-up to an edit the merchant opted into.
OwnersAnswerStands ==
    [][\A w \in Pollers :
         PollDrafting(w) /\ pc'[w] = "sent" /\ reply[cur[w]].by = "owner" =>
             \/ listing[w][cur[w]].n # reply[cur[w]].n
             \/ pc[w] = "follow"]_vars

\* The poll loop: whatever Google shows of a review, its text and the answer to it, is dealt
\* with sooner or later, and the review has a draft or an outcome on file or was dismissed,
\* unless a poll passed over it: one that ended without having dealt with what had changed.
\* A crash, a lapsed lease, a failed draft or a race with the Outbox does not lose a review.
OnRecord(r) == review[r] = 0 \/ Dismissed(r) \/ Indices(r) # {}
EveryReviewSettles == <>[](\A r \in Reviews : r \in passed \/ (OnRecord(r) /\ ~Unread(r)))

=============================================================================
