------------------------------ MODULE Handover ------------------------------
(***************************************************************************)
(* Who answers one conversation: the AI or a person.  The thread's mode    *)
(* and the lead's priority are written by the message consumer, which      *)
(* escalates, by operators, who take the thread over and give it back, and *)
(* by the sweeps, which remind the team and resume the AI                  *)
(* (channels/conversation_mode.py, channels/meta/lead_escalation.py,       *)
(* channels/meta/escalation_worker.py, the two message handlers of         *)
(* channels/meta/consumer.py).                                             *)
(*                                                                         *)
(* Each of them reads rows into a session of its own, decides on what it   *)
(* read, and commits the columns it changed.  Nobody locks what it reads.  *)
(* The messages of one conversation are consumed one after the other.      *)
(***************************************************************************)
EXTENDS Naturals

CONSTANTS
    Platforms,    \* where the conversation may be: "whatsapp", "instagram"
    Operators,    \* people in the inbox
    Sweepers,     \* processes that run run_escalation_sweeps
    Threshold,    \* escalation_threshold of the tenant, 0 for none
    MaxMessages,  \* bound on the customer's messages
    MaxOrders,    \* bound on the operators' requests
    MaxFaults     \* bound on crashes of the consumer and failed commits of sweeps

ASSUME ConstantsAssumption ==
    /\ Platforms \subseteq {"whatsapp", "instagram"}
    /\ Threshold \in Nat /\ MaxMessages \in Nat \ {0} /\ MaxOrders \in Nat /\ MaxFaults \in Nat

VARIABLES
    platform,  \* where the conversation is
    thread,    \* the channel_threads row: its mode and who set it
    lead,      \* the leads row: its escalation columns
    lastOut,   \* who wrote the newest outbound message
    talk,      \* where the consumer is with the message
    copy,      \* the lead as the consumer's session has it
    urgent,    \* the message is urgent or asks for a person
    held,      \* the consumer has written the thread's mode and not committed
    asked,     \* asked[o]: what operator o's request does
    seen,      \* seen[o]: the thread as that request read it
    sweep,     \* sweep[s]: where sweep s is
    found,     \* found[s]: the lead and the thread it read
    owner,     \* the last order of an operator that was committed
    raced,     \* kinds of overlapping transactions so far
    messages,  \* messages so far
    orders,    \* requests of operators so far
    faults     \* crashes so far

rowVars == <<thread, lead, lastOut>>
consumerVars == <<talk, copy, urgent, held>>
operatorVars == <<asked, seen>>
sweepVars == <<sweep, found>>
ghosts == <<owner, raced>>
bounds == <<messages, orders, faults>>
vars == <<platform, rowVars, consumerVars, operatorVars, sweepVars, ghosts, bounds>>

\* by is mode_changed_by; since is priority_since, old when the tenant's resume
\* window has passed; reminder is escalation_reminder_at; handover says that
\* handover_sent_at is set.
Threads == [mode : {"ai", "human"}, by : {"none", "system", "code", "person"}]
LeadRows == [priority : {"normal", "important"}, miss : 0..(MaxMessages + MaxFaults - 1), since : {"none", "fresh", "old"},
             reminder : {"none", "armed", "due"}, handover : BOOLEAN]

\* What resume_lead, a takeover and the end of an escalation leave.
Clean == [priority |-> "normal", miss |-> 0, since |-> "none", reminder |-> "none",
          handover |-> FALSE]
\* A mutant: a resumed lead keeps its count (BUG-1).
KeepsCount(row) == [Clean EXCEPT !.miss = row.miss]
ResumeLead(row) == Clean

Unread == [lead |-> Clean, thread |-> [mode |-> "ai", by |-> "none"]]

\* A commit: the columns that differ from what the session read.
Written(db, old, new) == [c \in DOMAIN db |-> IF new[c] # old[c] THEN new[c] ELSE db[c]]

ShouldAiReply(row) == row.priority # "important"

\* Transactions that overlap, recorded when the later one reads: a message's turn
\* with a resume or a request ("turn"), a request with a resume or another request
\* ("takeover").
InTurn == talk # "idle"
Asking == \E o \in Operators : asked[o] # "nothing"
Resuming == \E s \in Sweepers : sweep[s] = "resuming"
Overlaps(turn, takeover) ==
    raced' = raced \cup (IF turn THEN {"turn"} ELSE {})
                   \cup (IF takeover THEN {"takeover"} ELSE {})
Fault == faults < MaxFaults /\ faults' = faults + 1

Init ==
    /\ platform \in Platforms
    /\ thread = [mode |-> "ai", by |-> "none"]
    /\ lead = Clean
    /\ lastOut = "none"
    /\ talk = "idle" /\ copy = Clean /\ urgent = FALSE /\ held = FALSE
    /\ asked = [o \in Operators |-> "nothing"]
    /\ seen = [o \in Operators |-> [mode |-> "ai", by |-> "none"]]
    /\ sweep = [s \in Sweepers |-> "idle"]
    /\ found = [s \in Sweepers |-> Unread]
    /\ owner = "ai" /\ raced = {}
    /\ messages = 0 /\ orders = 0 /\ faults = 0
-----------------------------------------------------------------------------
(* The consumer.                                                           *)

EndsTurn == talk' = "idle" /\ copy' = Clean /\ urgent' = FALSE /\ held' = FALSE

\* capture_lead reads the lead.
Take ==
    /\ talk = "idle" /\ messages < MaxMessages
    /\ messages' = messages + 1
    /\ talk' = "gating" /\ copy' = lead
    /\ Overlaps(Asking \/ Resuming, FALSE)
    /\ UNCHANGED <<platform, rowVars, urgent, held, operatorVars, sweepVars, owner,
                   orders, faults>>

\* get_mode.  On WhatsApp a message to an escalated thread still owes the holding
\* line.
Gate ==
    /\ talk = "gating"
    /\ \/ thread.mode = "ai" /\ talk' = "judging" /\ UNCHANGED <<copy, urgent, held>>
       \/ thread.mode = "human" /\ platform = "whatsapp" /\ ~ShouldAiReply(copy)
          /\ talk' = "escalating" /\ UNCHANGED <<copy, urgent, held>>
       \/ thread.mode = "human" /\ (platform = "instagram" \/ ShouldAiReply(copy)) /\ EndsTurn
    /\ UNCHANGED <<platform, rowVars, operatorVars, sweepVars, ghosts, bounds>>

\* update_escalation_state: the count, then the priority.  The email of a new
\* escalation may fail, and then no reminder is armed.
\* A mutant: a miss is counted twice.
MissedTwice(row, confused) == IF lastOut = "ai" /\ confused THEN row.miss + 2 ELSE 0
Missed(row, confused) == IF lastOut = "ai" /\ confused THEN row.miss + 1 ELSE 0
CountTriggered(n) == Threshold > 0 /\ n >= Threshold
Escalated(n, told) ==
    [Clean EXCEPT !.priority = "important", !.miss = n, !.since = "fresh",
                  !.reminder = IF told THEN "armed" ELSE "none"]

Updated(row, confused, pressing, told) ==
    LET n == Missed(row, confused) IN
    IF pressing \/ CountTriggered(n)
      THEN IF row.priority = "important" THEN [row EXCEPT !.miss = n] ELSE Escalated(n, told)
      ELSE IF row.priority = "important" THEN Clean ELSE [row EXCEPT !.miss = n]

CommitsLead(new) ==
    /\ lead' = Written(lead, copy, new)
    /\ copy' = new

Judge ==
    /\ talk = "judging" /\ platform = "whatsapp"
    /\ \E confused \in BOOLEAN, pressing \in BOOLEAN, told \in BOOLEAN :
          /\ CommitsLead(Updated(copy, confused, pressing, told))
          /\ urgent' = pressing
    /\ talk' = "judged"
    /\ UNCHANGED <<platform, thread, lastOut, held, operatorVars, sweepVars, owner, raced, bounds>>

\* A quoted handoff code returns the thread to the AI before it replies.
HandoffCode ==
    /\ talk = "judged" /\ ~ShouldAiReply(copy)
    /\ CommitsLead(ResumeLead(copy))
    /\ thread' = IF thread.mode = "ai" THEN thread ELSE [mode |-> "ai", by |-> "code"]
    /\ raced' = IF thread.mode = "human" THEN raced \cup {"code over takeover"} ELSE raced
    /\ talk' = "replying"
    /\ UNCHANGED <<platform, lastOut, urgent, held, operatorVars, sweepVars, owner, bounds>>

Decide ==
    /\ talk = "judged"
    /\ talk' = IF ShouldAiReply(copy) THEN "replying" ELSE "escalating"
    /\ UNCHANGED <<platform, rowVars, copy, urgent, held, operatorVars, sweepVars, ghosts, bounds>>

\* Instagram asks for a person, or urgently, and nobody counts.
DecideOnInstagram ==
    /\ talk = "judging" /\ platform = "instagram"
    /\ \E pressing \in BOOLEAN :
          talk' = IF pressing \/ ~ShouldAiReply(copy) THEN "escalating" ELSE "replying"
    /\ UNCHANGED <<platform, rowVars, copy, urgent, held, operatorVars, sweepVars, ghosts, bounds>>

Told(row) == row.handover

\* escalate_to_human writes the thread's mode, whose row it locks, and sends the
\* holding line unless it has been sent.
EscalateToHuman ==
    /\ talk = "escalating"
    /\ held' = (thread.mode = "ai")
    /\ talk' = IF Told(copy) THEN "handing" ELSE "calling"
    /\ UNCHANGED <<platform, rowVars, copy, urgent, operatorVars, sweepVars, ghosts, bounds>>

SendHandover ==
    /\ talk = "calling"
    /\ talk' \in {"persisting", "handing"}
    /\ UNCHANGED <<platform, rowVars, copy, urgent, held, operatorVars, sweepVars, ghosts, bounds>>

CommitHandover ==
    /\ talk \in {"persisting", "handing"}
    /\ thread' = IF held THEN [mode |-> "human", by |-> "system"] ELSE thread
    /\ IF talk = "persisting"
         THEN /\ lead' = Written(lead, copy, [copy EXCEPT !.handover = TRUE])
              /\ lastOut' = "team"
         ELSE UNCHANGED <<lead, lastOut>>
    /\ EndsTurn
    /\ UNCHANGED <<platform, operatorVars, sweepVars, ghosts, bounds>>

\* The AI answers.  On WhatsApp an urgent message whose lead is not important
\* pages the team after the reply.
Reply ==
    /\ talk = "replying"
    /\ \/ lastOut' = "ai" \/ UNCHANGED lastOut
    /\ IF urgent /\ ShouldAiReply(copy)
         THEN talk' = "paging" /\ UNCHANGED <<copy, urgent, held>>
         ELSE EndsTurn
    /\ UNCHANGED <<platform, thread, lead, operatorVars, sweepVars, ghosts, bounds>>

Page ==
    /\ talk = "paging"
    /\ \E told \in BOOLEAN :
          LET new == Updated(copy, FALSE, TRUE, told) IN
          lead' = Written(lead, copy, new)
    /\ EndsTurn
    /\ UNCHANGED <<platform, thread, lastOut, operatorVars, sweepVars, owner, raced, bounds>>

\* The process dies: what it had not committed is lost, the message is read again.
ConsumerCrash ==
    /\ talk # "idle" /\ Fault
    /\ messages' = messages - 1
    /\ EndsTurn
    /\ UNCHANGED <<platform, rowVars, operatorVars, sweepVars, ghosts, orders>>
-----------------------------------------------------------------------------
(* Operators.                                                              *)

\* A writer of the thread waits for the consumer's lock.
ThreadLocked == held /\ talk \in {"calling", "persisting", "handing"}

\* The inbox switch, a human reply or resolve: set_mode reads the thread.
Ask(o) ==
    /\ asked[o] = "nothing" /\ orders < MaxOrders
    /\ orders' = orders + 1
    /\ \E order \in {"take over", "give back", "resolve"} : asked' = [asked EXCEPT ![o] = order]
    /\ seen' = [seen EXCEPT ![o] = thread]
    /\ Overlaps(InTurn, Asking \/ Resuming)
    /\ UNCHANGED <<platform, rowVars, consumerVars, sweepVars, owner, messages, faults>>

Done(o) ==
    /\ asked' = [asked EXCEPT ![o] = "nothing"]
    /\ seen' = [seen EXCEPT ![o] = [mode |-> "ai", by |-> "none"]]

\* A person takes the thread, from the AI or from the escalation.
Takes(o) == asked[o] = "take over" /\ (seen[o].mode = "ai" \/ seen[o].by = "system")

TakeOver(o) ==
    /\ Takes(o) /\ ~ThreadLocked
    /\ thread' = Written(thread, seen[o], [mode |-> "human", by |-> "person"])
    /\ lead' = Clean
    /\ owner' = "person"
    /\ Done(o)
    /\ UNCHANGED <<platform, lastOut, consumerVars, sweepVars, raced, bounds>>

\* A person gives it back; resolve also clears the lead of a thread the AI has.
Returns(o) == asked[o] \in {"give back", "resolve"} /\ seen[o].mode = "human"

GiveBack(o) ==
    /\ Returns(o) /\ ~ThreadLocked
    /\ thread' = Written(thread, seen[o], [mode |-> "ai", by |-> "person"])
    /\ lead' = Clean
    /\ owner' = "ai"
    /\ Done(o)
    /\ UNCHANGED <<platform, lastOut, consumerVars, sweepVars, raced, bounds>>

ResolveLead(o) ==
    /\ asked[o] = "resolve" /\ seen[o].mode = "ai"
    /\ lead' = Clean
    /\ Done(o)
    /\ UNCHANGED <<platform, thread, lastOut, consumerVars, sweepVars, ghosts, bounds>>

\* set_mode returns early: the thread is already as asked.
AlreadySo(o) ==
    /\ \/ asked[o] = "take over" /\ ~Takes(o)
       \/ asked[o] = "give back" /\ ~Returns(o)
    /\ Done(o)
    /\ UNCHANGED <<platform, rowVars, consumerVars, sweepVars, ghosts, bounds>>

\* lock_timeout, or a deadlock with a sweep: after a human reply it is only logged.
OrderFails(o) ==
    /\ asked[o] # "nothing" /\ (ThreadLocked \/ Resuming)
    /\ Done(o)
    /\ UNCHANGED <<platform, rowVars, consumerVars, sweepVars, ghosts, bounds>>
-----------------------------------------------------------------------------
(* The sweeps, and the time they wait for.                                 *)

WindowPasses ==
    /\ lead.since = "fresh"
    /\ lead' = [lead EXCEPT !.since = "old"]
    /\ UNCHANGED <<platform, thread, lastOut, consumerVars, operatorVars, sweepVars, ghosts, bounds>>

ReminderFallsDue ==
    /\ lead.reminder = "armed"
    /\ lead' = [lead EXCEPT !.reminder = "due"]
    /\ UNCHANGED <<platform, thread, lastOut, consumerVars, operatorVars, sweepVars, ghosts, bounds>>

Moves(s, to) == sweep' = [sweep EXCEPT ![s] = to]

\* run_reminder_sweep: it reads the lead, then sends.  A failed email leaves the
\* reminder armed.
FindReminder(s) ==
    /\ sweep[s] = "idle" /\ lead.priority = "important" /\ lead.reminder = "due"
    /\ Moves(s, "reminding")
    /\ UNCHANGED <<platform, rowVars, consumerVars, operatorVars, found, ghosts, bounds>>

SendReminder(s) ==
    /\ sweep[s] = "reminding"
    /\ Moves(s, "reminded") \/ Moves(s, "looking")
    /\ UNCHANGED <<platform, rowVars, consumerVars, operatorVars, found, ghosts, bounds>>

\* run_resume_sweep, in the same transaction: it reads the lead again, and the
\* thread.  A thread that a person touched last is left alone.
\* A mutant: only an escalation whose holding line went out.
ResumableWhenTold(row, th) ==
    row.priority = "important" /\ row.since = "old" /\ row.handover /\ th.by \in {"none", "system"}
\* A mutant: whoever took the thread.
ResumableFromAnyone(row, th) == row.priority = "important" /\ row.since = "old"
Resumable(row, th) ==
    row.priority = "important" /\ row.since = "old" /\ th.by \in {"none", "system"}

Looks(s) == sweep[s] \in {"idle", "looking", "reminded"}
\* The lead before this transaction, whose reminder it has cleared.
Before(s) == IF sweep[s] = "reminded" THEN [lead EXCEPT !.reminder = "due"] ELSE lead

FindOverdue(s) ==
    /\ Looks(s) /\ Resumable(lead, thread)
    /\ found' = [found EXCEPT ![s] = [lead |-> Before(s), thread |-> thread]]
    /\ Overlaps(InTurn, Asking)
    /\ Moves(s, "resuming")
    /\ UNCHANGED <<platform, rowVars, consumerVars, operatorVars, owner, bounds>>

NothingOverdue(s) ==
    /\ Looks(s) /\ sweep[s] # "idle" /\ ~Resumable(lead, thread)
    /\ lead' = IF sweep[s] = "reminded" THEN [lead EXCEPT !.reminder = "none"] ELSE lead
    /\ Moves(s, "idle")
    /\ UNCHANGED <<platform, thread, lastOut, consumerVars, operatorVars, found, ghosts, bounds>>

Resume(s) ==
    /\ sweep[s] = "resuming"
    /\ LET was == found[s] IN
          /\ was.thread.mode = "human" => ~ThreadLocked
          /\ lead' = Written(lead, was.lead, ResumeLead(was.lead))
          /\ thread' = IF was.thread.mode = "ai" THEN thread
                       ELSE Written(thread, was.thread, [mode |-> "ai", by |-> "system"])
    /\ found' = [found EXCEPT ![s] = Unread]
    /\ Moves(s, "idle")
    /\ UNCHANGED <<platform, lastOut, consumerVars, operatorVars, ghosts, bounds>>

\* The process dies, or the commit fails, which a deadlock with an operator can do.
SweepFails(s) ==
    /\ sweep[s] # "idle" /\ Fault
    /\ found' = [found EXCEPT ![s] = Unread]
    /\ Moves(s, "idle")
    /\ UNCHANGED <<platform, rowVars, consumerVars, operatorVars, ghosts, messages, orders>>
-----------------------------------------------------------------------------
ConsumerStep ==
    \/ Gate \/ Judge \/ HandoffCode \/ Decide \/ DecideOnInstagram
    \/ EscalateToHuman \/ SendHandover \/ CommitHandover \/ Reply \/ Page

OperatorStep(o) ==
    Ask(o) \/ TakeOver(o) \/ GiveBack(o) \/ ResolveLead(o) \/ AlreadySo(o) \/ OrderFails(o)

SweepStep(s) ==
    FindReminder(s) \/ SendReminder(s) \/ FindOverdue(s) \/ NothingOverdue(s) \/ Resume(s)

TimePasses == WindowPasses \/ ReminderFallsDue

Next ==
    \/ Take \/ ConsumerStep \/ ConsumerCrash
    \/ \E o \in Operators : OperatorStep(o)
    \/ \E s \in Sweepers : SweepStep(s) \/ SweepFails(s)
    \/ TimePasses

Spec == Init /\ [][Next]_vars

\* The consumer and the sweeps are loops whose calls time out; windows pass.
Fairness ==
    /\ WF_vars(ConsumerStep)
    /\ \A s \in Sweepers : WF_vars(SweepStep(s))
    /\ WF_vars(TimePasses)

FairSpec == Spec /\ Fairness
-----------------------------------------------------------------------------
(* Properties                                                              *)

TypeOK ==
    /\ platform \in Platforms
    /\ thread \in Threads /\ lead \in LeadRows /\ lastOut \in {"none", "ai", "team"}
    /\ talk \in {"idle", "gating", "judging", "judged", "escalating", "calling", "persisting",
                 "handing", "replying", "paging"}
    /\ copy \in LeadRows /\ urgent \in BOOLEAN /\ held \in BOOLEAN
    /\ asked \in [Operators -> {"nothing", "take over", "give back", "resolve"}]
    /\ seen \in [Operators -> Threads]
    /\ sweep \in [Sweepers -> {"idle", "reminding", "reminded", "looking", "resuming"}]
    /\ found \in [Sweepers -> [lead : LeadRows, thread : Threads]]
    /\ owner \in {"ai", "person"} /\ raced \subseteq {"turn", "takeover", "code over takeover"}
    /\ messages \in 0..MaxMessages /\ orders \in 0..MaxOrders /\ faults \in 0..MaxFaults

Muted == thread = [mode |-> "human", by |-> "system"]

\* A lead that is not important starts a clean miss cycle: its count is below the
\* threshold, or the next question would mute the thread again (BUG-1).
BackToTheAiIsClean ==
    ShouldAiReply(lead) /\ Threshold > 0 /\ "turn" \notin raced => lead.miss < Threshold

\* A person's takeover is not reversed by the system: not by the sweeps, which may
\* find the lead important again, nor by a message whose turn it interrupted, except
\* when a sweep had read the thread, or by a handoff code.
PersonKeepsThread ==
    owner = "person" /\ raced \cap {"takeover", "code over takeover"} = {}
        => thread.mode = "human"

\* No customer of WhatsApp stays muted without a person: the sweep resumes the AI,
\* whether or not the holding line and the emails went out.
EveryMuteEnds == []<>(~(Muted /\ platform = "whatsapp") \/ "turn" \in raced)
=============================================================================
