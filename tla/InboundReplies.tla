--------------------------- MODULE InboundReplies ---------------------------
(***************************************************************************)
(* One conversation's way from Meta's webhook to the AI reply: the outbox  *)
(* rows the webhook writes (modules/outbox), the relays that hand them to  *)
(* Kafka (outbox/worker.py), the consumer group that processes them        *)
(* (channels/meta/meta_events_worker.py) and the WhatsApp handler that     *)
(* stores the message, sends the reply part by part and records each part  *)
(* (channels/meta/consumer.py).                                            *)
(*                                                                         *)
(* The events of a connection share a key, hence a partition: here there   *)
(* is one, an append-only log read from a committed offset.  One action is *)
(* one transaction, one call to Kafka or to Meta, or one decision between  *)
(* two of them.  What is said, to whom and why is left out: the choice     *)
(* between answering and staying silent is nondeterministic.               *)
(***************************************************************************)
EXTENDS Naturals, SequencesExt

CONSTANTS
    NumMsgs,      \* messages of one contact
    Relays,       \* processes that run an OutboxWorker
    Consumers,    \* processes that run run_meta_events_worker
    MaxParts,     \* bound on the parts of a rendered reply
    MaxAttempts,  \* MAX_RETRIES
    MaxFaults     \* bound on crashes, evictions, lost sends and outcomes, and
                  \* records that find the number disconnected

ASSUME ConstantsAssumption ==
    /\ NumMsgs \in Nat \ {0}
    /\ MaxParts \in Nat \ {0}
    /\ MaxAttempts \in Nat \ {0}
    /\ MaxFaults \in Nat

VARIABLES
    event,      \* event[m]: its event_outbox row
    phase,      \* phase[r]: "idle", "sending" or "failing"
    batch,      \* batch[r][m]: the row relay r read and has not marked, or NoRow
    todo,       \* todo[r]: those it has not handed to its producer
    buffer,     \* buffer[r]: records its producer holds, unacknowledged
    log,        \* the partition: the message of each record
    committed,  \* the group's committed offset: records before it are done
    owner,      \* the consumer the partition is assigned to
    pc,         \* pc[c]: where consumer c is
    at,         \* at[c]: the record it works on
    parts,      \* parts[c]: how many parts its reply has
    part,       \* part[c]: the one it sends next
    seen,       \* seen[x]: the row of an event x has loaded to count a failure
    inbound,    \* inbound[m]: ai_reply_status of the stored message
    answered,   \* messages followed by a successful outbound row
    recorded,   \* recorded[m, i]: outbound rows for part i of m's reply
    delivered,  \* delivered[m, i]: copies of that part the customer got
    lost,       \* parts that reached the customer and left no outbound row
    dropped,    \* messages of records a producer lost
    unknown,    \* messages that reached a number nobody owned
    overlapped, \* a consumer was evicted in the middle of a message
    faults      \* faults so far

outboxVars == <<event, phase, batch, todo>>
kafkaVars == <<buffer, log, committed, owner, dropped>>
consumerVars == <<pc, at, parts, part>>
replyVars == <<inbound, answered, recorded, delivered, lost>>
anomalies == <<unknown, overlapped>>
vars == <<outboxVars, kafkaVars, consumerVars, replyVars, seen, anomalies, faults>>

\* In the order of created_at.
Msgs == 1..NumMsgs
Parts == Msgs \X (1..MaxParts)
Outcomes == {"sent", "ambiguous", "dead"}

\* The columns of an outbox row that decide something.  stamp stands for
\* next_retry_at, a new one for each retry; due says that it has passed.
Rows == [status : {"absent", "pending", "published", "failed"} \cup Outcomes,
         attempts : Nat, stamp : Nat, due : BOOLEAN]
NoRow == [status |-> "absent", attempts |-> 0, stamp |-> 0, due |-> FALSE]
NoBatch == [m \in Msgs |-> NoRow]

Labels == {"idle", "lookup", "store", "decide", "voice", "send", "record",
           "close", "sent", "ambiguous", "raised", "failing", "commit"}

Fault == faults < MaxFaults /\ faults' = faults + 1

Init ==
    /\ event = [m \in Msgs |-> NoRow]
    /\ phase = [r \in Relays |-> "idle"]
    /\ batch = [r \in Relays |-> NoBatch]
    /\ todo = [r \in Relays |-> {}]
    /\ buffer = [r \in Relays |-> <<>>]
    /\ log = <<>>
    /\ committed = 0
    /\ owner \in Consumers
    /\ pc = [c \in Consumers |-> "idle"]
    /\ at = [c \in Consumers |-> 0]
    /\ parts = [c \in Consumers |-> 0]
    /\ part = [c \in Consumers |-> 0]
    /\ seen = [x \in Relays \cup Consumers |-> NoRow]
    /\ inbound = [m \in Msgs |-> "absent"]
    /\ answered = {}
    /\ recorded = [p \in Parts |-> 0]
    /\ delivered = [p \in Parts |-> 0]
    /\ lost = {}
    /\ dropped = {}
    /\ unknown = {}
    /\ overlapped = FALSE
    /\ faults = 0
-----------------------------------------------------------------------------
(* The outbox.                                                             *)

\* A webhook delivery.  Later deliveries of the same message hit the unique
\* key of the webhook ledger and write no event.
Receive(m) ==
    /\ event[m].status = "absent"
    /\ \A k \in Msgs : k < m => event[k].status # "absent"
    /\ event' = [event EXCEPT ![m] = [@ EXCEPT !.status = "pending", !.due = TRUE]]
    /\ UNCHANGED <<phase, batch, todo, kafkaVars, consumerVars, replyVars, seen,
                   anomalies, faults>>

BackoffPasses(m) ==
    /\ event[m].status = "failed" /\ ~event[m].due
    /\ event' = [event EXCEPT ![m].due = TRUE]
    /\ UNCHANGED <<phase, batch, todo, kafkaVars, consumerVars, replyVars, seen,
                   anomalies, faults>>

\* Mutant of Eligible: retries are not read again.
EligibleOnce == {m \in Msgs : event[m].status = "pending" /\ event[m].due}
Eligible ==
    {m \in Msgs : /\ event[m].status \in {"pending", "failed"}
                  /\ event[m].due
                  /\ event[m].attempts < MaxAttempts}

\* The row locks end with the reading session: another relay may read the
\* same rows before this one has marked them.
Fetch(r) ==
    /\ phase[r] = "idle" /\ Eligible # {}
    /\ phase' = [phase EXCEPT ![r] = "sending"]
    /\ batch' = [batch EXCEPT ![r] = [m \in Msgs |-> IF m \in Eligible THEN event[m] ELSE NoRow]]
    /\ todo' = [todo EXCEPT ![r] = Eligible]
    /\ UNCHANGED <<event, kafkaVars, consumerVars, replyVars, seen, anomalies, faults>>

\* Rows are read and sent in the order of created_at.
Oldest(m, S) == m \in S /\ \A k \in S : m <= k

\* producer.send returns when the record is in the producer's buffer.
Hand(r) ==
    /\ phase[r] = "sending"
    /\ \E m \in Msgs :
          /\ Oldest(m, todo[r])
          /\ buffer' = [buffer EXCEPT ![r] = Append(@, m)]
          /\ todo' = [todo EXCEPT ![r] = @ \ {m}]
    /\ UNCHANGED <<event, phase, batch, log, committed, owner, dropped,
                   consumerVars, replyVars, seen, anomalies, faults>>

\* It raises instead (a full buffer, no metadata): mark_failed reads the row...
SendRaises(r) ==
    /\ phase[r] = "sending"
    /\ Fault
    /\ phase' = [phase EXCEPT ![r] = "failing"]
    /\ \E m \in Msgs : Oldest(m, todo[r]) /\ seen' = [seen EXCEPT ![r] = event[m]]
    /\ UNCHANGED <<event, batch, todo, kafkaVars, consumerVars, replyVars, anomalies>>

\* An attempt fails: the count read before goes up by one, and at MAX_RETRIES
\* the event is dead.
FailedRow(row, n) ==
    IF n + 1 < MaxAttempts
    THEN [status |-> "failed", attempts |-> n + 1, stamp |-> row.stamp + 1, due |-> FALSE]
    ELSE [row EXCEPT !.status = "dead", !.attempts = n + 1]

\* ...and writes the columns that differ from what it read, whatever became of
\* the row meanwhile: a status that was "failed" already is not written.
Flushed(row, loaded) ==
    LET new == FailedRow(row, loaded.attempts)
    IN  IF new.status = loaded.status THEN [new EXCEPT !.status = row.status] ELSE new

MarkFailed(r) ==
    /\ phase[r] = "failing"
    /\ \E m \in Msgs :
          /\ Oldest(m, todo[r])
          /\ event' = [event EXCEPT ![m] = Flushed(@, seen[r])]
          /\ todo' = [todo EXCEPT ![r] = @ \ {m}]
          /\ batch' = [batch EXCEPT ![r][m] = NoRow]
    /\ phase' = [phase EXCEPT ![r] = "sending"]
    /\ seen' = [seen EXCEPT ![r] = NoRow]
    /\ UNCHANGED <<kafkaVars, consumerVars, replyVars, anomalies, faults>>

\* The compare-and-set of mark_published: the row is as the relay read it.
\*
\* Mutant of Unmoved: the status alone.
UnmovedStatus(row, snapshot) == row.status \in {"pending", "failed"}
Unmoved(row, snapshot) ==
    /\ row.status \in {"pending", "failed"}
    /\ row.attempts = snapshot.attempts
    /\ row.stamp = snapshot.stamp

MarkPublished(r) ==
    /\ phase[r] = "sending" /\ todo[r] = {}
    /\ event' = [m \in Msgs |->
                   IF batch[r][m] # NoRow /\ Unmoved(event[m], batch[r][m])
                   THEN [event[m] EXCEPT !.status = "published"]
                   ELSE event[m]]
    /\ phase' = [phase EXCEPT ![r] = "idle"]
    /\ batch' = [batch EXCEPT ![r] = NoBatch]
    /\ UNCHANGED <<todo, kafkaVars, consumerVars, replyVars, seen, anomalies, faults>>

\* The broker takes the oldest record of a producer.
Flush(r) ==
    /\ buffer[r] # <<>>
    /\ log' = Append(log, Head(buffer[r]))
    /\ buffer' = [buffer EXCEPT ![r] = Tail(@)]
    /\ UNCHANGED <<outboxVars, committed, owner, dropped, consumerVars, replyVars,
                   seen, anomalies, faults>>

\* The producer gives the record up; nobody awaits the future that says so.
RecordExpires(r) ==
    /\ buffer[r] # <<>>
    /\ Fault
    /\ dropped' = dropped \cup {Head(buffer[r])}
    /\ buffer' = [buffer EXCEPT ![r] = Tail(@)]
    /\ UNCHANGED <<outboxVars, log, committed, owner, consumerVars, replyVars,
                   seen, anomalies>>

\* The process of a relay dies, with its batch and its producer's buffer.
RelayCrash(r) ==
    /\ phase[r] # "idle" \/ buffer[r] # <<>>
    /\ Fault
    /\ dropped' = dropped \cup ToSet(buffer[r])
    /\ buffer' = [buffer EXCEPT ![r] = <<>>]
    /\ phase' = [phase EXCEPT ![r] = "idle"]
    /\ batch' = [batch EXCEPT ![r] = NoBatch]
    /\ todo' = [todo EXCEPT ![r] = {}]
    /\ seen' = [seen EXCEPT ![r] = NoRow]
    /\ UNCHANGED <<event, log, committed, owner, consumerVars, replyVars, anomalies>>
-----------------------------------------------------------------------------
(* The consumer of the partition, and the handler of a message.            *)

Goto(c, label) == pc' = [pc EXCEPT ![c] = label]
Msg(c) == log[at[c]]
Part(c) == <<Msg(c), part[c]>>

\* The steps that touch neither the outbox, nor Kafka, nor the fault count.
HandlerOnly == UNCHANGED <<outboxVars, kafkaVars, seen, anomalies>>

\* The next record after the committed offset, one per poll.
Poll(c) ==
    /\ owner = c /\ pc[c] = "idle" /\ committed < Len(log)
    /\ at' = [at EXCEPT ![c] = committed + 1]
    /\ Goto(c, "lookup")
    /\ UNCHANGED <<parts, part, replyVars, faults>> /\ HandlerOnly

\* The number belongs to no connection: the message is not looked at.
Drop(c) ==
    /\ pc[c] = "lookup"
    /\ Fault
    /\ unknown' = unknown \cup {Msg(c)}
    /\ Goto(c, "close")
    /\ UNCHANGED <<outboxVars, kafkaVars, at, parts, part, replyVars, seen, overlapped>>

\* _has_outbound_reply, for a stored message.
\*
\* Mutant of HasOutboundReply: it finds nothing.
FindsNoReply(m) == FALSE
HasOutboundReply(m) == m \in answered

\* A message seen before is done unless its reply is pending; and a pending
\* one is closed if the conversation has been answered since it was stored.
Lookup(c) ==
    /\ pc[c] = "lookup"
    /\ \/ /\ inbound[Msg(c)] = "absent"
          /\ Goto(c, "store")
          /\ UNCHANGED inbound
       \/ /\ inbound[Msg(c)] \notin {"absent", "pending"}
          /\ Goto(c, "close")
          /\ UNCHANGED inbound
       \/ /\ inbound[Msg(c)] = "pending" /\ HasOutboundReply(Msg(c))
          /\ inbound' = [inbound EXCEPT ![Msg(c)] = "sent"]
          /\ Goto(c, "close")
       \/ /\ inbound[Msg(c)] = "pending" /\ ~HasOutboundReply(Msg(c))
          /\ Goto(c, "decide")
          /\ UNCHANGED inbound
    /\ UNCHANGED <<at, parts, part, answered, recorded, delivered, lost, faults>>
    /\ HandlerOnly

\* The row with the platform's message id, which is unique: an insert that
\* comes second raises.
Store(c) ==
    /\ pc[c] = "store"
    /\ \/ /\ inbound[Msg(c)] = "absent"
          /\ inbound' = [inbound EXCEPT ![Msg(c)] = "pending"]
          /\ Goto(c, "decide")
       \/ /\ inbound[Msg(c)] # "absent"
          /\ Goto(c, "raised")
          /\ UNCHANGED inbound
    /\ UNCHANGED <<at, parts, part, answered, recorded, delivered, lost, faults>>
    /\ HandlerOnly

Stored == {m \in Msgs : inbound[m] # "absent"}

\* No reply is owed: a reaction, no quota, no token, a deselected number.
Withhold(c) ==
    /\ pc[c] = "decide"
    /\ \E verdict \in {"skipped", "failed"} :
          inbound' = [inbound EXCEPT ![Msg(c)] = verdict]
    /\ Goto(c, "close")
    /\ UNCHANGED <<at, parts, part, answered, recorded, delivered, lost, faults>>
    /\ HandlerOnly

\* Nor here, but no verdict is written: the switch is off, the message is of
\* a kind the AI does not read, too old, or a person has the thread.
StaySilent(c) ==
    /\ pc[c] = "decide"
    /\ Goto(c, "close")
    /\ UNCHANGED <<at, parts, part, replyVars, faults>> /\ HandlerOnly

\* One line that no model wrote (the language gate, an unreadable attachment,
\* the handover): best effort, and its outbound row answers like any other.
SystemLine(c) ==
    /\ pc[c] = "decide"
    /\ answered' = answered \cup Stored
    /\ Goto(c, "close")
    /\ UNCHANGED <<at, parts, part, inbound, recorded, delivered, lost, faults>>
    /\ HandlerOnly

\* The model is down, or answers nothing: the row stays owed, the event retries.
\* The status assigned is the one that was loaded, so no UPDATE carries it.
GenerationFails(c) ==
    /\ pc[c] = "decide"
    /\ Goto(c, "raised")
    /\ UNCHANGED <<at, parts, part, replyVars, faults>> /\ HandlerOnly

\* The reply is rendered, to go out as text or first as a voice note.
Compose(c) ==
    /\ pc[c] = "decide"
    /\ \E n \in 1..MaxParts : parts' = [parts EXCEPT ![c] = n]
    /\ part' = [part EXCEPT ![c] = 1]
    /\ \E label \in {"voice", "send"} : Goto(c, label)
    /\ UNCHANGED <<at, replyVars, faults>> /\ HandlerOnly

\* A quoted ticket code has its answer without the model, as one text.
ShortCircuit(c) ==
    /\ pc[c] = "decide"
    /\ parts' = [parts EXCEPT ![c] = 1]
    /\ part' = [part EXCEPT ![c] = 1]
    /\ Goto(c, "send")
    /\ UNCHANGED <<at, replyVars, faults>> /\ HandlerOnly

\* A voice note carries the whole reply.
VoiceSent(c) ==
    /\ pc[c] = "voice"
    /\ delivered' = [delivered EXCEPT ![Part(c)] = @ + 1]
    /\ parts' = [parts EXCEPT ![c] = 1]
    /\ Goto(c, "record")
    /\ UNCHANGED <<at, part, inbound, answered, recorded, lost, faults>> /\ HandlerOnly

\* Any failure of the voice note, one with an unknown outcome too, falls back
\* to text.
VoiceFails(c) ==
    /\ pc[c] = "voice"
    /\ Goto(c, "send")
    /\ \/ UNCHANGED <<delivered, lost, faults>>
       \/ /\ Fault
          /\ delivered' = [delivered EXCEPT ![Part(c)] = @ + 1]
          /\ lost' = lost \cup {Part(c)}
    /\ UNCHANGED <<at, parts, part, inbound, answered, recorded>> /\ HandlerOnly

SendPart(c) ==
    /\ pc[c] = "send"
    /\ delivered' = [delivered EXCEPT ![Part(c)] = @ + 1]
    /\ Goto(c, "record")
    /\ UNCHANGED <<at, parts, part, inbound, answered, recorded, lost, faults>>
    /\ HandlerOnly

\* A failure in flight: the part may have landed.  The row stays pending.
SendAmbiguous(c) ==
    /\ pc[c] = "send"
    /\ Fault
    /\ Goto(c, "ambiguous")
    /\ \/ UNCHANGED <<delivered, lost>>
       \/ /\ delivered' = [delivered EXCEPT ![Part(c)] = @ + 1]
          /\ lost' = lost \cup {Part(c)}
    /\ UNCHANGED <<at, parts, part, inbound, answered, recorded>> /\ HandlerOnly

\* 429 or 5xx: owed, and left to the event's retry.
\*
\* Mutant of SendTransient: the exception is swallowed on its way out.
SendSwallowed(c) ==
    /\ pc[c] = "send"
    /\ Goto(c, "sent")
    /\ UNCHANGED <<at, parts, part, replyVars, faults>> /\ HandlerOnly
SendTransient(c) ==
    /\ pc[c] = "send"
    /\ Goto(c, "raised")
    /\ UNCHANGED <<at, parts, part, replyVars, faults>> /\ HandlerOnly

\* Any other refusal: the reply has failed, and so have the parts after it.
SendPermanent(c) ==
    /\ pc[c] = "send"
    /\ inbound' = [inbound EXCEPT ![Msg(c)] = "failed"]
    /\ Goto(c, "close")
    /\ UNCHANGED <<at, parts, part, answered, recorded, delivered, lost, faults>>
    /\ HandlerOnly

\* The outbound row of the part.  It answers every message stored so far.
RecordPart(c) ==
    /\ pc[c] = "record"
    /\ recorded' = [recorded EXCEPT ![Part(c)] = @ + 1]
    /\ answered' = answered \cup Stored
    /\ \/ /\ part[c] < parts[c]
          /\ part' = [part EXCEPT ![c] = @ + 1]
          /\ Goto(c, "send")
       \/ /\ part[c] = parts[c]
          /\ Goto(c, "close")
          /\ UNCHANGED part
    /\ UNCHANGED <<at, parts, inbound, delivered, lost, faults>> /\ HandlerOnly

\* What follows a reply (pictures, leads, summaries) may raise.
AfterReplyFails(c) ==
    /\ pc[c] = "close"
    /\ Fault
    /\ Goto(c, "raised")
    /\ UNCHANGED <<at, parts, part, replyVars>> /\ HandlerOnly

\* A person answers from the inbox.
HumanReplies ==
    /\ Stored \ answered # {}
    /\ answered' = answered \cup Stored
    /\ UNCHANGED <<consumerVars, inbound, recorded, delivered, lost, faults>>
    /\ HandlerOnly

\* What a handler that returned normally leaves in a pending row.
Verdict(m) == IF HasOutboundReply(m) THEN "sent" ELSE "skipped"

CloseReply(c) ==
    /\ pc[c] = "close"
    /\ inbound' = [inbound EXCEPT ![Msg(c)] = IF @ = "pending" THEN Verdict(Msg(c)) ELSE @]
    /\ Goto(c, "sent")
    /\ UNCHANGED <<at, parts, part, answered, recorded, delivered, lost, faults>>
    /\ HandlerOnly
-----------------------------------------------------------------------------
(* The outcome of the event, and its offset.                               *)

MarkSent(c) ==
    /\ pc[c] = "sent"
    /\ event' = [event EXCEPT ![Msg(c)].status = "sent"]
    /\ Goto(c, "commit")
    /\ UNCHANGED <<phase, batch, todo, kafkaVars, at, parts, part, replyVars, seen,
                   anomalies, faults>>

MarkAmbiguous(c) ==
    /\ pc[c] = "ambiguous"
    /\ event' = [event EXCEPT ![Msg(c)].status = "ambiguous"]
    /\ Goto(c, "commit")
    /\ UNCHANGED <<phase, batch, todo, kafkaVars, at, parts, part, replyVars, seen,
                   anomalies, faults>>

\* _mark_event_failed reads the row in one statement...
ReadAttempts(c) ==
    /\ pc[c] = "raised"
    /\ seen' = [seen EXCEPT ![c] = event[Msg(c)]]
    /\ Goto(c, "failing")
    /\ UNCHANGED <<outboxVars, kafkaVars, at, parts, part, replyVars, anomalies, faults>>

\* ...and writes the next state of the row in another.
MarkRetry(c) ==
    /\ pc[c] = "failing"
    /\ event' = [event EXCEPT ![Msg(c)] = FailedRow(@, seen[c].attempts)]
    /\ seen' = [seen EXCEPT ![c] = NoRow]
    /\ Goto(c, "commit")
    /\ UNCHANGED <<phase, batch, todo, kafkaVars, at, parts, part, replyVars,
                   anomalies, faults>>

\* What a consumer keeps of a record it is done with, or dies on.
Forget(c) ==
    /\ Goto(c, "idle")
    /\ at' = [at EXCEPT ![c] = 0]
    /\ parts' = [parts EXCEPT ![c] = 0]
    /\ part' = [part EXCEPT ![c] = 0]

\* The commit of a consumer that lost the partition is refused; it rejoins.
\*
\* Mutant of Commit: the group counts records, whoever reports them.
CommitCounted(c) ==
    /\ pc[c] = "commit"
    /\ committed' = committed + 1
    /\ Forget(c)
    /\ UNCHANGED <<outboxVars, buffer, log, owner, dropped, replyVars, seen,
                   anomalies, faults>>
Commit(c) ==
    /\ pc[c] = "commit"
    /\ committed' = IF owner = c THEN at[c] ELSE committed
    /\ Forget(c)
    /\ UNCHANGED <<outboxVars, buffer, log, owner, dropped, replyVars, seen,
                   anomalies, faults>>

\* A consumer dies, or a statement of its fails: the partition goes to any
\* member, which starts again at the committed offset.
ConsumerCrash(c) ==
    /\ pc[c] # "idle"
    /\ Fault
    /\ lost' = IF pc[c] = "record" THEN lost \cup {Part(c)} ELSE lost
    /\ seen' = [seen EXCEPT ![c] = NoRow]
    /\ IF owner = c THEN owner' \in Consumers ELSE UNCHANGED owner
    /\ Forget(c)
    /\ UNCHANGED <<outboxVars, buffer, log, committed, dropped, inbound, answered,
                   recorded, delivered, anomalies>>

\* A consumer too long over a message loses the partition, and does not know.
Evict(c) ==
    /\ owner = c /\ pc[c] # "idle"
    /\ Fault
    /\ owner' \in {d \in Consumers : pc[d] = "idle"}
    /\ overlapped' = TRUE
    /\ UNCHANGED <<outboxVars, buffer, log, committed, dropped, consumerVars,
                   replyVars, seen, unknown>>
-----------------------------------------------------------------------------
RelayStep(r) == Fetch(r) \/ Hand(r) \/ MarkFailed(r) \/ MarkPublished(r)

ReplyStep(c) ==
    \/ Withhold(c) \/ StaySilent(c) \/ SystemLine(c)
    \/ GenerationFails(c) \/ Compose(c) \/ ShortCircuit(c)
    \/ VoiceSent(c) \/ VoiceFails(c)
    \/ SendPart(c) \/ SendAmbiguous(c) \/ SendTransient(c) \/ SendPermanent(c)
    \/ RecordPart(c) \/ CloseReply(c)

ConsumerStep(c) ==
    \/ Poll(c) \/ Lookup(c) \/ Store(c) \/ ReplyStep(c)
    \/ MarkSent(c) \/ MarkAmbiguous(c) \/ ReadAttempts(c) \/ MarkRetry(c)
    \/ Commit(c)

Next ==
    \/ \E m \in Msgs : Receive(m) \/ BackoffPasses(m)
    \/ \E r \in Relays : RelayStep(r) \/ Flush(r)
    \/ \E r \in Relays : SendRaises(r) \/ RecordExpires(r) \/ RelayCrash(r)
    \/ \E c \in Consumers : ConsumerStep(c)
    \/ \E c \in Consumers : Drop(c) \/ AfterReplyFails(c) \/ ConsumerCrash(c) \/ Evict(c)
    \/ HumanReplies

Spec == Init /\ [][Next]_vars

\* The relay and the consumers are loops that start again after any error,
\* the broker takes what it is given, and the clock goes on.
Fairness ==
    /\ \A r \in Relays : WF_vars(RelayStep(r)) /\ WF_vars(Flush(r))
    /\ \A c \in Consumers : WF_vars(ConsumerStep(c))
    /\ \A m \in Msgs : WF_vars(BackoffPasses(m))

FairSpec == Spec /\ Fairness
-----------------------------------------------------------------------------
(* Properties.                                                             *)

\* The variables keep their types.
TypeOK ==
    /\ event \in [Msgs -> Rows]
    /\ phase \in [Relays -> {"idle", "sending", "failing"}]
    /\ batch \in [Relays -> [Msgs -> Rows]]
    /\ todo \in [Relays -> SUBSET Msgs]
    /\ buffer \in [Relays -> Seq(Msgs)]
    /\ log \in Seq(Msgs)
    /\ committed \in 0..Len(log)
    /\ owner \in Consumers
    /\ pc \in [Consumers -> Labels]
    /\ at \in [Consumers -> 0..Len(log)]
    /\ parts \in [Consumers -> 0..MaxParts]
    /\ part \in [Consumers -> 0..MaxParts]
    /\ seen \in [Relays \cup Consumers -> Rows]
    /\ inbound \in [Msgs -> {"absent", "pending", "sent", "skipped", "failed"}]
    /\ answered \subseteq Msgs /\ dropped \subseteq Msgs
    /\ recorded \in [Parts -> Nat] /\ delivered \in [Parts -> Nat]
    /\ lost \subseteq Parts
    /\ unknown \subseteq Msgs
    /\ overlapped \in BOOLEAN
    /\ faults \in 0..MaxFaults

\* Whatever is redelivered, twin-sent or retried, a part of a reply has one
\* outbound row, and the customer gets it again only if a copy left no row;
\* as long as no consumer was evicted in the middle of a message.
AgainOnlyAfterLoss ==
    ~overlapped => \A p \in Parts : /\ recorded[p] <= 1
                                    /\ delivered[p] > 1 => p \in lost

\* An event shown as published is on its way: a producer holds its record or
\* the group has yet to finish one.  Nobody republishes it, so otherwise its
\* message would wait for ever.  Only a producer that lost a record does that.
PublishedIsInFlight ==
    \A m \in Msgs : event[m].status = "published" =>
        \/ \E r \in Relays : m \in ToSet(buffer[r])
        \/ \E i \in committed + 1 .. Len(log) : log[i] = m
        \/ m \in dropped

\* An event is closed as sent only after its message's reply is settled: a
\* failure is never laundered into success.  A record that found the number
\* disconnected is closed as sent too.
SentIsSettled ==
    \A m \in Msgs : event[m].status = "sent" =>
        inbound[m] \in {"sent", "skipped", "failed"} \/ m \in unknown

\* Every event comes to an outcome and stays there, unless a producer lost it.
EveryEventSettles ==
    \A m \in Msgs : <>[](event[m].status \in {"absent"} \cup Outcomes \/ m \in dropped)

=============================================================================
