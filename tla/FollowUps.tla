----------------------------- MODULE FollowUps -----------------------------
(***************************************************************************)
(* Follow-up nudges: the lead_actions table is the schedule.  The message  *)
(* consumer arms an attempt when its reply ended with a question, and      *)
(* cancels what is armed when the customer writes again; an operator takes *)
(* a thread over or closes a lead; workers claim due actions in batches,   *)
(* check that the nudge still makes sense, and send it                     *)
(* (channels/meta/lead_engine.py, channels/meta/lead_action_worker.py,     *)
(* channels/conversation_mode.py, whatsapp_templates/service.py).          *)
(*                                                                         *)
(* One action is one transaction or one call to Meta.  A worker's session  *)
(* keeps the rows it claimed as it read them: a later write goes by the    *)
(* row's id and does not look at the row again.  A claim commits with the  *)
(* first action of its batch, and until then holds the rows' locks.        *)
(***************************************************************************)
EXTENDS Naturals, FiniteSets

CONSTANTS
    Leads,        \* leads, each with its own conversation
    Chased,       \* Chased[l]: bound on the messages of l's customer that are
                  \* followed up; one more may arrive
    Workers,      \* processes that run run_lead_action_worker
    Attempts,     \* len(gaps): max_attempts of the tenant's settings
    MaxRetries,   \* MAX_TRANSIENT_RETRIES
    MaxCopies,    \* bound on the copies of one nudge
    MaxOrders,    \* bound on takeovers and changes of stage
    MaxFaults     \* bound on lost batches, leases that end under a live
                  \* worker, messages answered by two consumers, nudges Meta
                  \* accepts without an id, and other errors of an action

ASSUME ConstantsAssumption ==
    /\ Chased \in [Leads -> Nat]
    /\ IsFiniteSet(Workers)
    /\ Attempts \in Nat \ {0}
    /\ MaxRetries \in Nat
    /\ MaxOrders \in Nat
    /\ MaxCopies \in Nat \ {0}
    /\ MaxFaults \in Nat

VARIABLES
    row,       \* row[a]: the lead_actions row of action a
    key,       \* key[a]: status of the template_sends row with its key
    inbound,   \* inbound[l]: the newest message stored for l's thread
    inWindow,  \* leads whose customer wrote in the last 24 hours
    stage,     \* stage[l]: the lead's stage
    optedOut,  \* leads with opt_out set
    mode,      \* mode[l]: who owns the conversation, "ai" or "human"
    talk,      \* talk[l]: where the consumer is with l's message
    read,      \* read[l]: the stage of the lead in the consumer's session
    marked,    \* marked[l]: rows the consumer has read to cancel them
    taking,    \* taking[l]: somebody is taking the thread over
    taken,     \* taken[l]: rows that takeover has read to cancel them
    pc,        \* pc[w]: where worker w is
    batch,     \* batch[w]: the rows it claimed and has not settled, as read
    locked,    \* locked[w]: those whose claim has not committed
    cur,       \* cur[w]: the action it is sending
    copies,    \* copies[a]: nudges the customer got for a
    templates, \* templates[a]: templates the customer got for a
    excused,   \* excused[a]: times the outcome of a was lost, its lease overrun,
               \* or the accepted nudge had no id
    escaped,   \* actions a takeover of their thread did not stop: a worker held
               \* them at its commit, or at its read though they were no longer
               \* live, or they were armed after it
    twice,     \* messages for which two consumers armed a follow-up
    orders,    \* takeovers and changes of stage so far
    faults     \* faults so far

leadVars == <<inbound, inWindow, stage, optedOut>>
consumerVars == <<talk, read, marked>>
operatorVars == <<mode, taking, taken, orders>>
workerVars == <<pc, batch, locked, cur>>
ghosts == <<copies, templates, excused, escaped, twice>>
vars == <<row, key, leadVars, consumerVars, operatorVars, workerVars, ghosts, faults>>

\* Attempt n of the sequence that guards message g of lead l: the columns of
\* uq_lead_actions_step.
Actions == UNION {{l} \X (1..Chased[l]) \X (1..Attempts) : l \in Leads}
LeadOf(a) == a[1]
GuardOf(a) == a[2]
After(a) == <<a[1], a[2], a[3] + 1>>
Of(l) == {a \in Actions : LeadOf(a) = l}

Settled == {"sent", "cancelled", "ineligible", "failed", "ambiguous"}
Live == {"pending", "claimed"}

\* The columns of a row that decide something: due and quiet say of due_at that
\* it has passed and that it falls into the night, lapsed that claimed_until has
\* passed.
Rows == [status : {"none"} \cup Live \cup Settled, due : BOOLEAN, lapsed : BOOLEAN,
         quiet : BOOLEAN, retries : 0..MaxRetries]
NoRow == [status |-> "none", due |-> FALSE, lapsed |-> FALSE, quiet |-> FALSE, retries |-> 0]
Armed == [NoRow EXCEPT !.status = "pending"]
\* The other columns decide nothing once a row is settled.
Ended(status) == [NoRow EXCEPT !.status = status]

NoAction == <<>>
NoBatch == [a \in {} |-> NoRow]

Order == orders < MaxOrders /\ orders' = orders + 1
Fault == faults < MaxFaults /\ faults' = faults + 1

Init ==
    /\ row = [a \in Actions |-> NoRow]
    /\ key = [a \in Actions |-> "none"]
    /\ inbound = [l \in Leads |-> 0]
    /\ inWindow = {}
    /\ stage = [l \in Leads |-> "qualified"]
    /\ optedOut = {}
    /\ mode = [l \in Leads |-> "ai"]
    /\ talk = [l \in Leads |-> "idle"]
    /\ read = [l \in Leads |-> "closed"]
    /\ marked = [l \in Leads |-> {}]
    /\ taking = [l \in Leads |-> FALSE]
    /\ taken = [l \in Leads |-> {}]
    /\ pc = [w \in Workers |-> "idle"]
    /\ batch = [w \in Workers |-> NoBatch]
    /\ locked = [w \in Workers |-> {}]
    /\ cur = [w \in Workers |-> NoAction]
    /\ copies = [a \in Actions |-> 0]
    /\ templates = [a \in Actions |-> 0]
    /\ excused = [a \in Actions |-> 0]
    /\ escaped = {}
    /\ twice = {}
    /\ orders = 0
    /\ faults = 0

\* What workers have in hand, and the threads a person owns or is taking.
Working(a) == \E w \in Workers : a \in DOMAIN batch[w]
InHand(l) == {a \in Of(l) : Working(a)}
Owned(l) == taking[l] \/ mode[l] = "human"
\* The history of what is armed on such a thread.
Arms(S) == escaped' = escaped \cup {a \in S : Owned(LeadOf(a))}
-----------------------------------------------------------------------------
(* The conversation.                                                       *)

\* What cancel_pending_actions reads, and what it writes when the transaction
\* flushes: by then a worker may have settled a row, which is overwritten.
Cancellable(l) == {a \in Of(l) : row[a].status \in Live}
Cancelled(S) == [a \in Actions |-> IF a \in S THEN Ended("cancelled") ELSE row[a]]

\* An UPDATE waits for the lock of a claim that has not committed.
Unlocked(S) == \A w \in Workers : S \cap locked[w] = {}

\* A message arrives: its transaction reads the thread's live actions...
Receive(l) ==
    /\ talk[l] = "idle" /\ inbound[l] <= Chased[l]
    /\ talk' = [talk EXCEPT ![l] = "storing"]
    /\ marked' = [marked EXCEPT ![l] = Cancellable(l)]
    /\ UNCHANGED <<row, key, leadVars, read, operatorVars, workerVars, ghosts, faults>>

\* ... and commits the message with their cancellation.
Store(l) ==
    /\ talk[l] = "storing" /\ Unlocked(marked[l])
    /\ row' = Cancelled(marked[l])
    /\ inbound' = [inbound EXCEPT ![l] = @ + 1]
    /\ inWindow' = inWindow \cup {l}
    /\ talk' = [talk EXCEPT ![l] = "capturing"]
    /\ marked' = [marked EXCEPT ![l] = {}]
    /\ UNCHANGED <<key, stage, optedOut, read, operatorVars, workerVars, ghosts, faults>>

\* lock_timeout: the event fails and is processed again.
StoreTimesOut(l) ==
    /\ talk[l] = "storing" /\ ~Unlocked(marked[l])
    /\ talk' = [talk EXCEPT ![l] = "idle"]
    /\ marked' = [marked EXCEPT ![l] = {}]
    /\ UNCHANGED <<row, key, leadVars, read, operatorVars, workerVars, ghosts, faults>>

\* capture_lead: the customer may opt out, which cancels once more.  The thread's
\* mode then decides whether a reply is generated.
Capture(l) ==
    /\ talk[l] = "capturing"
    /\ \E stop \in BOOLEAN :
          /\ stop => Unlocked(Cancellable(l))
          /\ row' = IF stop THEN Cancelled(Cancellable(l)) ELSE row
          /\ optedOut' = IF stop THEN optedOut \cup {l} ELSE optedOut
    /\ IF mode[l] = "ai"
         THEN talk' = [talk EXCEPT ![l] = "replying"] /\ read' = [read EXCEPT ![l] = stage[l]]
         ELSE talk' = [talk EXCEPT ![l] = "idle"] /\ UNCHANGED read
    /\ UNCHANGED <<key, inbound, inWindow, stage, marked, operatorVars, workerVars, ghosts, faults>>

\* The reply has gone out and ended with a question, or not.  schedule_followup
\* sees the lead as the session read it, and takes the first free attempt for the
\* message: when two consumers answer one message, the second takes the next.
Schedulable(l) == l \notin optedOut /\ read[l] # "closed"
FreeAttempts(l) == {a \in Of(l) : GuardOf(a) = inbound[l] /\ row[a].status = "none"}

EndsTurn(l) ==
    talk' = [talk EXCEPT ![l] = "idle"] /\ read' = [read EXCEPT ![l] = "closed"]

ScheduleFollowup(l, overlapped) ==
    /\ talk[l] = "replying" /\ Schedulable(l)
    /\ \E a \in FreeAttempts(l) :
          /\ \A b \in FreeAttempts(l) : a[3] <= b[3]
          /\ row' = [row EXCEPT ![a] = Armed]
          /\ Arms({a})
    /\ stage' = IF read[l] = "qualified" THEN [stage EXCEPT ![l] = "follow_up"] ELSE stage
    /\ IF overlapped
         THEN /\ Fault
              /\ twice' = twice \cup {<<l, inbound[l]>>}
              /\ read' = [read EXCEPT ![l] = "follow_up"]
              /\ UNCHANGED talk
         ELSE EndsTurn(l) /\ UNCHANGED <<twice, faults>>
    /\ UNCHANGED <<key, inbound, inWindow, optedOut, marked, operatorVars, workerVars,
                   copies, templates, excused>>

\* The reply asked nothing, failed, or the lead has not qualified.
NoFollowup(l) ==
    /\ talk[l] = "replying" /\ EndsTurn(l)
    /\ UNCHANGED <<row, key, leadVars, marked, operatorVars, workerVars, ghosts, faults>>

\* The 24 hours of Meta's window pass, or the delay of an action.
WindowCloses(l) ==
    /\ l \in inWindow
    /\ inWindow' = inWindow \ {l}
    /\ UNCHANGED <<row, key, inbound, stage, optedOut, consumerVars, operatorVars,
                   workerVars, ghosts, faults>>

FallsDue(a) ==
    /\ row[a].status = "pending" /\ ~row[a].due
    /\ row' = [row EXCEPT ![a].due = TRUE]
    /\ UNCHANGED <<key, leadVars, consumerVars, operatorVars, workerVars, ghosts, faults>>
-----------------------------------------------------------------------------
(* The operator.                                                           *)

\* Mutant of TakeOver: the mode is written before the actions are cancelled.
TakesModeFirst(l) ==
    /\ mode[l] = "ai" /\ ~taking[l] /\ Order
    /\ mode' = [mode EXCEPT ![l] = "human"]
    /\ taking' = [taking EXCEPT ![l] = TRUE]
    /\ taken' = [taken EXCEPT ![l] = Cancellable(l)]
    /\ escaped' = escaped \cup (InHand(l) \ Cancellable(l))
    /\ UNCHANGED <<row, key, leadVars, consumerVars, workerVars, copies, templates, excused,
                   twice, faults>>

\* set_mode(human), by the inbox switch, a human reply or an escalation: it
\* reads the actions to cancel, and commits.  A thread that is already human is
\* left alone.
TakeOver(l) ==
    /\ mode[l] = "ai" /\ ~taking[l] /\ Order
    /\ taking' = [taking EXCEPT ![l] = TRUE]
    /\ taken' = [taken EXCEPT ![l] = Cancellable(l)]
    /\ escaped' = escaped \cup (InHand(l) \ Cancellable(l))
    /\ UNCHANGED <<row, key, leadVars, consumerVars, mode, workerVars, copies, templates,
                   excused, twice, faults>>

TakeOverCommits(l) ==
    /\ taking[l] /\ Unlocked(taken[l])
    /\ mode' = [mode EXCEPT ![l] = "human"]
    /\ row' = Cancelled(taken[l])
    /\ taking' = [taking EXCEPT ![l] = FALSE]
    /\ taken' = [taken EXCEPT ![l] = {}]
    /\ escaped' = escaped \cup InHand(l)
    /\ UNCHANGED <<key, leadVars, consumerVars, orders, workerVars, copies, templates,
                   excused, twice, faults>>

\* lock_timeout: nothing changes, the mode included.
TakeOverTimesOut(l) ==
    /\ taking[l] /\ ~Unlocked(taken[l])
    /\ taking' = [taking EXCEPT ![l] = FALSE]
    /\ taken' = [taken EXCEPT ![l] = {}]
    /\ escaped' = escaped \ Of(l)
    /\ UNCHANGED <<row, key, leadVars, consumerVars, mode, orders, workerVars, copies,
                   templates, excused, twice, faults>>

HandBack(l) ==
    /\ mode[l] = "human"
    /\ mode' = [mode EXCEPT ![l] = "ai"]
    /\ escaped' = escaped \ Of(l)
    /\ UNCHANGED <<row, key, leadVars, consumerVars, taking, taken, orders, workerVars, copies,
                   templates, excused, twice, faults>>

\* PATCH /leads/{id}: the lead is converted, lost or reopened; its actions stay.
UpdateStage(l) ==
    /\ Order
    /\ stage' = [stage EXCEPT ![l] = IF @ = "closed" THEN "qualified" ELSE "closed"]
    /\ UNCHANGED <<row, key, inbound, inWindow, optedOut, consumerVars, mode, taking, taken,
                   workerVars, ghosts, faults>>
-----------------------------------------------------------------------------
(* The worker.                                                             *)

\* A row back in the queue.
Pending(r) == [r EXCEPT !.status = "pending", !.due = TRUE, !.lapsed = FALSE]
\* A mutant: the claim does not skip the rows another worker has locked.
LockedByNobody(w) == {}
LockedByOthers(w) == UNION {locked[v] : v \in Workers \ {w}}
\* A mutant: the claims of a dead worker are never released.
NeverExpired == {}
Expired == {a \in Actions : row[a].status = "claimed" /\ row[a].lapsed}
Due == {a \in Actions : row[a].status = "pending" /\ row[a].due}

\* _claim_due_actions.  The release of expired claims waits for the lock of a
\* claim in progress, the claim itself skips locked rows.  Fewer than BATCH rows
\* are due.
Claim(w) ==
    /\ pc[w] = "idle"
    /\ Expired \cap LockedByOthers(w) = {}
    /\ LET claimed == (Expired \cup Due) \ LockedByOthers(w) IN
          /\ claimed # {}
          /\ batch' = [batch EXCEPT ![w] = [a \in claimed |-> Pending(row[a])]]
          /\ locked' = [locked EXCEPT ![w] = claimed]
    /\ pc' = [pc EXCEPT ![w] = "checking"]
    /\ UNCHANGED <<row, key, leadVars, consumerVars, operatorVars, cur, ghosts, faults>>

\* What a commit of w writes: the claims it still owes and, for the action it
\* has settled, the outcome.
Claims(w) ==
    [a \in Actions |-> IF a \in locked[w]
                         THEN [row[a] EXCEPT !.status = "claimed", !.lapsed = FALSE]
                         ELSE row[a]]
Outcome(w, a, status) == [Claims(w) EXCEPT ![a] = Ended(status)]

Remaining(w, a) == DOMAIN batch[w] \ {a}
\* The commit that settles an action waits for a claim in progress that holds
\* its lock.
GoesOn(w, a) ==
    /\ a \notin LockedByOthers(w)
    /\ pc' = [pc EXCEPT ![w] = IF Remaining(w, a) = {} THEN "idle" ELSE "checking"]
    /\ batch' = [batch EXCEPT ![w] = [b \in Remaining(w, a) |-> batch[w][b]]]
    /\ locked' = [locked EXCEPT ![w] = {}]
    /\ cur' = [cur EXCEPT ![w] = NoAction]

\* The end of a batch without commit: the claims it owes never happened.
Drops(w) ==
    /\ pc' = [pc EXCEPT ![w] = "idle"]
    /\ batch' = [batch EXCEPT ![w] = NoBatch]
    /\ locked' = [locked EXCEPT ![w] = {}]
    /\ cur' = [cur EXCEPT ![w] = NoAction]

Loses(w) ==
    /\ excused' = IF cur[w] = NoAction THEN excused ELSE [excused EXCEPT ![cur[w]] = @ + 1]
    /\ Drops(w)
    /\ UNCHANGED <<row, key, leadVars, consumerVars, operatorVars, copies, templates, escaped,
                   twice>>

\* An error of process_due_actions' inner try: the claim is cleared, and the action is
\* due at once.
Releases(w, a) == row' = [Claims(w) EXCEPT ![a] = batch[w][a]] /\ GoesOn(w, a)

Checking(w, a) == pc[w] = "checking" /\ a \in DOMAIN batch[w]
Closed(a) == LeadOf(a) \in optedOut \/ stage[LeadOf(a)] = "closed"
Answered(a) == GuardOf(a) # inbound[LeadOf(a)]
Eligible(w, a) == ~Closed(a) /\ ~batch[w][a].quiet /\ ~Answered(a)

\* The lead opted out or is closed, or the tenant has turned nudges off.
Refuse(w, a) ==
    /\ Checking(w, a)
    /\ row' = Outcome(w, a, "ineligible")
    /\ GoesOn(w, a)
    /\ UNCHANGED <<key, leadVars, consumerVars, operatorVars, ghosts, faults>>

\* Quiet hours move the action to the morning.
Postpone(w, a) ==
    /\ Checking(w, a) /\ ~Closed(a) /\ batch[w][a].quiet
    /\ row' = [Claims(w) EXCEPT ![a] = [batch[w][a] EXCEPT !.quiet = FALSE, !.due = FALSE]]
    /\ GoesOn(w, a)
    /\ UNCHANGED <<key, leadVars, consumerVars, operatorVars, ghosts, faults>>

\* The guard is no longer the thread's newest message.
Retire(w, a) ==
    /\ Checking(w, a) /\ ~Closed(a) /\ ~batch[w][a].quiet /\ Answered(a)
    /\ row' = Outcome(w, a, "cancelled")
    /\ GoesOn(w, a)
    /\ UNCHANGED <<key, leadVars, consumerVars, operatorVars, ghosts, faults>>

Choose(w, a) ==
    /\ Checking(w, a) /\ Eligible(w, a) /\ LeadOf(a) \in inWindow
    /\ pc' = [pc EXCEPT ![w] = "sending"]
    /\ cur' = [cur EXCEPT ![w] = a]
    /\ UNCHANGED <<row, key, leadVars, consumerVars, operatorVars, batch, locked, ghosts, faults>>

\* Outside the window there is a template the customer consented to, or not.
\* Its row is committed under the action's key, with the claims, before the
\* call; a row that is there already is not sent again.
WindowClosed(w, a) == Checking(w, a) /\ Eligible(w, a) /\ LeadOf(a) \notin inWindow

NoTemplate(w, a) ==
    /\ WindowClosed(w, a)
    /\ row' = Outcome(w, a, "ineligible")
    /\ GoesOn(w, a)
    /\ UNCHANGED <<key, leadVars, consumerVars, operatorVars, ghosts, faults>>

KeyTaken(a) == key[a] # "none"

ReserveTemplate(w, a) ==
    /\ WindowClosed(w, a) /\ ~KeyTaken(a)
    /\ key' = [key EXCEPT ![a] = "blocked"]
    /\ row' = Claims(w)
    /\ locked' = [locked EXCEPT ![w] = {}]
    /\ pc' = [pc EXCEPT ![w] = "templating"]
    /\ cur' = [cur EXCEPT ![w] = a]
    /\ UNCHANGED <<leadVars, consumerVars, operatorVars, batch, ghosts, faults>>

SameTemplate(w, a) ==
    /\ WindowClosed(w, a) /\ KeyTaken(a)
    /\ row' = Outcome(w, a, IF key[a] = "sent" THEN "sent" ELSE "ineligible")
    /\ GoesOn(w, a)
    /\ UNCHANGED <<key, leadVars, consumerVars, operatorVars, ghosts, faults>>

\* The template's call, whose answer is lost when it arrived and yet failed.
SendTemplate(w) ==
    /\ pc[w] = "templating"
    /\ \E arrived \in BOOLEAN, verdict \in {"templated", "blocked"} :
          /\ verdict = "templated" => arrived
          /\ templates' = [templates EXCEPT ![cur[w]] = @ + IF arrived THEN 1 ELSE 0]
          /\ pc' = [pc EXCEPT ![w] = verdict]
    /\ UNCHANGED <<row, key, leadVars, consumerVars, operatorVars, batch, locked, cur,
                   copies, excused, escaped, twice, faults>>

\* send_template commits its row before the worker commits the action's.
RecordTemplate(w) ==
    /\ pc[w] \in {"templated", "blocked"} /\ key[cur[w]] = "blocked"
    /\ key' = [key EXCEPT ![cur[w]] = IF pc[w] = "templated" THEN "sent" ELSE "failed"]
    /\ UNCHANGED <<row, leadVars, consumerVars, operatorVars, workerVars, ghosts, faults>>

SettleTemplate(w) ==
    /\ pc[w] \in {"templated", "blocked"} /\ key[cur[w]] # "blocked"
    /\ row' = Outcome(w, cur[w], IF pc[w] = "templated" THEN "sent" ELSE "ineligible")
    /\ GoesOn(w, cur[w])
    /\ UNCHANGED <<key, leadVars, consumerVars, operatorVars, ghosts, faults>>

\* The nudge's call: accepted, accepted by an answer that names no message, lost on the
\* way there or back, refused because the window has closed, throttled, or refused
\* for good.
Verdicts == {"accepted", "unnamed", "ambiguous", "late", "throttled", "failed"}

Send(w) ==
    /\ pc[w] = "sending" /\ copies[cur[w]] < MaxCopies
    /\ \E arrived \in BOOLEAN, verdict \in Verdicts :
          /\ verdict \in {"accepted", "unnamed"} => arrived
          /\ arrived => verdict \in {"accepted", "unnamed", "ambiguous"}
          /\ copies' = [copies EXCEPT ![cur[w]] = @ + IF arrived THEN 1 ELSE 0]
          /\ pc' = [pc EXCEPT ![w] = verdict]
          /\ IF verdict = "unnamed"
               THEN Fault /\ excused' = [excused EXCEPT ![cur[w]] = @ + 1]
               ELSE UNCHANGED <<faults, excused>>
    /\ UNCHANGED <<row, key, leadVars, consumerVars, operatorVars, batch, locked, cur,
                   templates, escaped, twice>>

\* What ends an action that was not sent.
Failed(w) ==
    /\ pc[w] \in {"ambiguous", "late", "failed"}
    /\ row' = Outcome(w, cur[w], IF pc[w] = "late" THEN "ineligible" ELSE pc[w])
    /\ GoesOn(w, cur[w])
    /\ UNCHANGED <<key, leadVars, consumerVars, operatorVars, ghosts, faults>>

\* A mutant: one retry too many.
RetriesAtCap(n) == n > MaxRetries + 1
RetriesExhausted(n) == n > MaxRetries

\* _requeue_transient, on the copy the worker holds.
Requeue(w) ==
    /\ pc[w] = "throttled"
    /\ LET a == cur[w]
           retries == batch[w][a].retries + 1 IN
       IF RetriesExhausted(retries)
         THEN row' = Outcome(w, a, "failed")
         ELSE \E night \in BOOLEAN :
                row' = [Claims(w) EXCEPT ![a] = [Armed EXCEPT !.retries = retries, !.quiet = night]]
    /\ GoesOn(w, cur[w])
    /\ UNCHANGED <<key, leadVars, consumerVars, operatorVars, ghosts, faults>>

\* The accepted nudge is recorded together with the next attempt...
NextExists(a) == After(a) \in Actions /\ row[After(a)].status # "none"

RecordSent(w) ==
    /\ pc[w] = "accepted" /\ ~NextExists(cur[w])
    /\ row' = [a \in Actions |-> IF a = After(cur[w]) THEN Armed
                                                     ELSE Outcome(w, cur[w], "sent")[a]]
    /\ Arms({After(cur[w])} \cap Actions)
    /\ GoesOn(w, cur[w])
    /\ UNCHANGED <<key, leadVars, consumerVars, operatorVars, copies, templates, excused,
                   twice, faults>>

\* ... unless that is there already: uq_lead_actions_step refuses the commit, which
\* is outside the handler of an action's errors, and the batch is lost.
SentIsRefused(w) == pc[w] = "accepted" /\ NextExists(cur[w]) /\ Loses(w) /\ UNCHANGED faults

\* ... and it cannot be recorded at all when it has no id: slicing the absent id raises,
\* and the action is released to be sent again.
ReleaseUnnamed(w) ==
    /\ pc[w] = "unnamed" /\ Releases(w, cur[w])
    /\ UNCHANGED <<key, leadVars, consumerVars, operatorVars, ghosts, faults>>

\* Any other error of _process_action, before the nudge or between the template's key
\* and its call.
ActionBreaks(w, a) ==
    /\ Checking(w, a) \/ (pc[w] = "templating" /\ cur[w] = a)
    /\ Fault /\ Releases(w, a)
    /\ UNCHANGED <<key, leadVars, consumerVars, operatorVars, ghosts>>

\* lock_timeout: the commit is refused in the same way.
Concludes(w, a) ==
    \/ Checking(w, a) /\ ~(Eligible(w, a) /\ LeadOf(a) \in inWindow)
    \/ cur[w] = a /\ pc[w] \notin {"sending", "templating"}

CommitTimesOut(w) ==
    /\ \E a \in DOMAIN batch[w] : a \in LockedByOthers(w) /\ Concludes(w, a)
    /\ Loses(w) /\ UNCHANGED faults

\* The process dies, or its session: Postgres ends one that idles in a
\* transaction, which the batch's first is during the call.
Die(w) == pc[w] # "idle" /\ Fault /\ Loses(w)

\* claimed_until passes: of a row nobody works on, or under its worker, whose
\* batch takes longer than LEASE_SECONDS.
Lapse(a) ==
    /\ row[a].status = "claimed" /\ ~row[a].lapsed
    /\ row' = [row EXCEPT ![a].lapsed = TRUE]
    /\ IF Working(a)
         THEN Fault /\ excused' = [excused EXCEPT ![a] = @ + 1]
         ELSE UNCHANGED <<faults, excused>>
    /\ UNCHANGED <<key, leadVars, consumerVars, operatorVars, workerVars, copies, templates,
                   escaped, twice>>
-----------------------------------------------------------------------------
ConsumerStep(l) ==
    \/ Receive(l) \/ Store(l) \/ StoreTimesOut(l) \/ Capture(l)
    \/ \E overlapped \in BOOLEAN : ScheduleFollowup(l, overlapped)
    \/ NoFollowup(l)

OperatorStep(l) ==
    \/ TakeOver(l) \/ TakeOverCommits(l) \/ TakeOverTimesOut(l) \/ HandBack(l)
    \/ UpdateStage(l)

WorkerStep(w) ==
    \/ Claim(w)
    \/ \E a \in DOMAIN batch[w] :
          \/ Refuse(w, a) \/ Postpone(w, a) \/ Retire(w, a) \/ Choose(w, a)
          \/ NoTemplate(w, a) \/ ReserveTemplate(w, a) \/ SameTemplate(w, a)
    \/ SendTemplate(w) \/ RecordTemplate(w) \/ SettleTemplate(w)
    \/ Send(w) \/ Failed(w) \/ Requeue(w) \/ RecordSent(w) \/ SentIsRefused(w)
    \/ ReleaseUnnamed(w) \/ CommitTimesOut(w)

Next ==
    \/ \E l \in Leads : ConsumerStep(l) \/ OperatorStep(l) \/ WindowCloses(l)
    \/ \E a \in Actions : FallsDue(a) \/ Lapse(a)
    \/ \E w \in Workers : WorkerStep(w) \/ Die(w) \/ \E a \in DOMAIN batch[w] : ActionBreaks(w, a)

Spec == Init /\ [][Next]_vars

\* Workers poll and time passes.  The call to Meta has a timeout.
Fairness ==
    /\ \A w \in Workers : WF_vars(WorkerStep(w))
    /\ WF_vars(\E a \in Actions : FallsDue(a))
    /\ WF_vars(\E a \in Actions : ~Working(a) /\ Lapse(a))

FairSpec == Spec /\ Fairness
-----------------------------------------------------------------------------
(* Properties                                                              *)

TypeOK ==
    /\ row \in [Actions -> Rows]
    /\ key \in [Actions -> {"none", "blocked", "failed", "sent"}]
    /\ inbound \in [Leads -> Nat] /\ inWindow \subseteq Leads
    /\ stage \in [Leads -> {"qualified", "follow_up", "closed"}]
    /\ optedOut \subseteq Leads
    /\ mode \in [Leads -> {"ai", "human"}] /\ orders \in 0..MaxOrders
    /\ talk \in [Leads -> {"idle", "storing", "capturing", "replying"}]
    /\ read \in [Leads -> {"qualified", "follow_up", "closed"}]
    /\ marked \in [Leads -> SUBSET Actions]
    /\ taking \in [Leads -> BOOLEAN] /\ taken \in [Leads -> SUBSET Actions]
    /\ pc \in [Workers -> {"idle", "checking", "sending", "templating", "templated", "blocked"}
                             \cup Verdicts]
    /\ \A w \in Workers : /\ DOMAIN batch[w] \subseteq Actions
                          /\ locked[w] \subseteq DOMAIN batch[w]
                          /\ cur[w] \in {NoAction} \cup DOMAIN batch[w]
    /\ copies \in [Actions -> 0..MaxCopies] /\ templates \in [Actions -> Nat]
    /\ excused \in [Actions -> Nat] /\ escaped \subseteq Actions
    /\ twice \subseteq Leads \X Nat /\ faults \in 0..MaxFaults

\* The customer gets a second copy of a nudge only when a worker was lost with the
\* outcome, or went on after its lease, or Meta accepted the nudge and did not name it:
\* without that, no interleaving of workers, cancellations, errors and retries sends one
\* twice.  A template goes out once whatever happens, as its row is committed before the
\* call.
CopiesAreExcused ==
    \A a \in Actions : copies[a] <= 1 + excused[a] /\ templates[a] <= 1

\* In a thread a person owns, a worker takes up a nudge only if a worker held it while the
\* takeover ran, or a turn or a nudge then under way has armed it since.  Nothing compares
\* the mode before a send: the takeover's own cancellation, the locks of claims and the
\* end of leases have to reach everything else, also what dead workers claimed.
TakenOverIsLeftAlone ==
    \A w \in Workers : cur[w] # NoAction /\ mode[LeadOf(cur[w])] = "human" => cur[w] \in escaped

\* Every armed action comes to an end, whatever becomes of its workers, unless
\* its next attempt was armed by another consumer, and as long as Meta does not leave
\* the id out for ever.
EveryActionSettles ==
    <>[](\A a \in Actions : row[a].status \in Live => twice # {})
=============================================================================
