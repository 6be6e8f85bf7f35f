------------------------ MODULE InboundRepliesProofs ------------------------
(***************************************************************************)
(* Theorems about InboundReplies, for any number of messages, relays,      *)
(* consumers, parts, attempts and faults.                                  *)
(***************************************************************************)
EXTENDS InboundReplies, TLAPS

Replied == {"sent", "skipped", "failed"}

\* What consumer c, in the middle of a record, relies on.
InHand(c) ==
    /\ pc[c] # "idle" => at[c] # 0
    /\ pc[c] \in {"voice", "send", "record"} => part[c] # 0
    /\ pc[c] \in {"decide", "voice", "send", "record"} => inbound[Msg(c)] # "absent"
    /\ pc[c] = "close" => inbound[Msg(c)] # "absent" \/ Msg(c) \in unknown
    /\ pc[c] = "sent" => inbound[Msg(c)] \in Replied \/ Msg(c) \in unknown

Working == \A c \in Consumers : InHand(c)

Inv == TypeOK /\ Working /\ SentIsSettled

-----------------------------------------------------------------------------
(* Rows                                                                    *)

\* The fields of a row.
LEMMA RowFields ==
    ASSUME NEW row \in Rows
    PROVE  /\ row.status \in {"absent", "pending", "published", "failed"} \cup Outcomes
           /\ row.attempts \in Nat /\ row.stamp \in Nat /\ row.due \in BOOLEAN
  BY DEF Rows

\* An update of a row leaves it a row.
LEMMA RowUpdates ==
    ASSUME NEW row \in Rows
    PROVE  /\ [row EXCEPT !.status = "pending", !.due = TRUE] \in Rows
           /\ [row EXCEPT !.status = "published"] \in Rows
           /\ [row EXCEPT !.status = "sent"] \in Rows
           /\ [row EXCEPT !.status = "ambiguous"] \in Rows
           /\ [row EXCEPT !.due = TRUE] \in Rows
  BY DEF Rows, Outcomes

\* A failure leaves a row, and closes no event as sent.
LEMMA FailedIsRow ==
    ASSUME NEW row \in Rows, NEW n \in Nat
    PROVE  /\ FailedRow(row, n) \in Rows
           /\ FailedRow(row, n).status \in {"failed", "dead"}
  <1>1. row.stamp + 1 \in Nat /\ n + 1 \in Nat
    BY RowFields
  <1>2. CASE n + 1 < MaxAttempts
    BY <1>1, <1>2 DEF FailedRow, Rows
  <1>3. CASE ~(n + 1 < MaxAttempts)
    BY <1>1, <1>3 DEF FailedRow, Rows, Outcomes
  <1>. QED
    BY <1>2, <1>3

\* So does mark_failed's flush, which closes no event either.
LEMMA FlushedIsRow ==
    ASSUME NEW row \in Rows, NEW loaded \in Rows
    PROVE  /\ Flushed(row, loaded) \in Rows
           /\ Flushed(row, loaded).status = "sent" => row.status = "sent"
  <1>. DEFINE new == FailedRow(row, loaded.attempts)
  <1>1. new \in Rows /\ new.status \in {"failed", "dead"}
    BY FailedIsRow, RowFields
  <1>2. CASE new.status = loaded.status
    <2>1. Flushed(row, loaded) = [new EXCEPT !.status = row.status]
      BY <1>2 DEF Flushed
    <2>. QED
      BY <1>1, <2>1, RowFields DEF Rows
  <1>3. CASE new.status # loaded.status
    BY <1>1, <1>3 DEF Flushed
  <1>. QED
    BY <1>2, <1>3

\* Nothing read is a row too.
LEMMA NoRowIsRow == NoRow \in Rows /\ NoBatch \in [Msgs -> Rows]
  BY DEF NoRow, NoBatch, Rows

-----------------------------------------------------------------------------
(* Records                                                                 *)

\* A consumer that works on a record works on one of the log.
LEMMA MessageOf ==
    ASSUME TypeOK, NEW c \in Consumers, at[c] # 0
    PROVE  at[c] \in 1..Len(log) /\ Msg(c) \in Msgs
  BY DEF TypeOK, Msg

\* The log only grows: a consumer's message stays what it is.
LEMMA MessageStays ==
    ASSUME TypeOK, NEW c \in Consumers, at[c] # 0, at'[c] = at[c],
           \/ log' = log
           \/ \E m \in Msgs : log' = Append(log, m)
    PROVE  Msg(c)' = Msg(c)
  <1>1. at[c] \in 1..Len(log)
    BY MessageOf
  <1>2. CASE log' = log
    BY <1>2 DEF Msg
  <1>3. ASSUME NEW m \in Msgs, log' = Append(log, m) PROVE Msg(c)' = Msg(c)
    BY <1>1, <1>3 DEF Msg, TypeOK
  <1>. QED
    BY <1>2, <1>3

\* A stored message stays stored, a settled reply settled, and a message that
\* found its number disconnected is not forgotten.
Forward ==
    \A m \in Msgs : /\ inbound[m] # "absent" => inbound'[m] # "absent"
                    /\ inbound[m] \in Replied => inbound'[m] \in Replied
                    /\ m \in unknown => m \in unknown'

\* What a consumer relies on survives the steps of everyone else.
LEMMA OthersKeepInHand ==
    ASSUME TypeOK, NEW c \in Consumers, InHand(c), Forward,
           pc'[c] = pc[c], at'[c] = at[c], part'[c] = part[c],
           \/ log' = log
           \/ \E m \in Msgs : log' = Append(log, m)
    PROVE  InHand(c)'
  <1>1. CASE pc[c] = "idle"
    BY <1>1 DEF InHand
  <1>2. CASE pc[c] # "idle"
    <2>1. at[c] # 0
      BY <1>2 DEF InHand
    <2>2. Msg(c)' = Msg(c) /\ Msg(c) \in Msgs
      BY <2>1, MessageStays, MessageOf
    <2>3. inbound'[Msg(c)'] = inbound'[Msg(c)]
      BY <2>2
    <2>4. /\ inbound[Msg(c)] # "absent" => inbound'[Msg(c)] # "absent"
          /\ inbound[Msg(c)] \in Replied => inbound'[Msg(c)] \in Replied
          /\ Msg(c) \in unknown => Msg(c) \in unknown'
      BY <2>2 DEF Forward
    <2>. QED
      BY <2>1, <2>2, <2>3, <2>4 DEF InHand
  <1>. QED
    BY <1>1, <1>2

-----------------------------------------------------------------------------
(* Types                                                                   *)

\* The initial state is well typed.
LEMMA InitTypes == Init => TypeOK
  <1>. SUFFICES ASSUME Init PROVE TypeOK
    OBVIOUS
  <1>1. NoRow \in Rows /\ NoBatch \in [Msgs -> Rows]
    BY NoRowIsRow
  <1>2. MaxParts \in Nat /\ MaxFaults \in Nat
    BY ConstantsAssumption
  <1>3. event \in [Msgs -> Rows] /\ batch \in [Relays -> [Msgs -> Rows]]
    BY <1>1 DEF Init
  <1>4. seen \in [Relays \cup Consumers -> Rows]
    BY <1>1 DEF Init
  <1>5. /\ buffer \in [Relays -> Seq(Msgs)] /\ log \in Seq(Msgs)
        /\ committed \in 0..Len(log) /\ at \in [Consumers -> 0..Len(log)]
    BY DEF Init
  <1>6. /\ parts \in [Consumers -> 0..MaxParts] /\ part \in [Consumers -> 0..MaxParts]
        /\ recorded \in [Parts -> Nat] /\ delivered \in [Parts -> Nat]
        /\ faults \in 0..MaxFaults
    BY <1>2 DEF Init
  <1>7. pc \in [Consumers -> Labels]
    BY DEF Init, Labels
  <1>. QED
    BY <1>3, <1>4, <1>5, <1>6, <1>7 DEF Init, TypeOK

\* The outbox and the relays.
LEMMA RelayTypes ==
    ASSUME TypeOK, NEW r \in Relays,
           Fetch(r) \/ Hand(r) \/ SendRaises(r) \/ MarkFailed(r) \/ MarkPublished(r)
    PROVE  TypeOK'
  <1>. USE DEF outboxVars, kafkaVars, consumerVars, replyVars, anomalies
  <1>1. NoRow \in Rows /\ NoBatch \in [Msgs -> Rows]
    BY NoRowIsRow
  <1>2. CASE Fetch(r)
    <2>1. Eligible \subseteq Msgs
      BY DEF Eligible
    <2>2. [m \in Msgs |-> IF m \in Eligible THEN event[m] ELSE NoRow] \in [Msgs -> Rows]
      BY <1>1 DEF TypeOK
    <2>. QED
      BY <1>2, <2>1, <2>2 DEF Fetch, TypeOK
  <1>3. CASE Hand(r)
    <2>1. PICK m \in Msgs : /\ buffer' = [buffer EXCEPT ![r] = Append(@, m)]
                            /\ todo' = [todo EXCEPT ![r] = @ \ {m}]
      BY <1>3 DEF Hand
    <2>2. Append(buffer[r], m) \in Seq(Msgs)
      BY DEF TypeOK
    <2>3. buffer' \in [Relays -> Seq(Msgs)] /\ todo' \in [Relays -> SUBSET Msgs]
      BY <2>1, <2>2 DEF TypeOK
    <2>. QED
      BY <1>3, <2>3 DEF Hand, TypeOK
  <1>4. CASE SendRaises(r)
    <2>1. PICK m \in Msgs : seen' = [seen EXCEPT ![r] = event[m]]
      BY <1>4 DEF SendRaises
    <2>2. seen' \in [Relays \cup Consumers -> Rows]
      BY <2>1 DEF TypeOK
    <2>3. faults' \in 0..MaxFaults
      BY <1>4, ConstantsAssumption DEF SendRaises, Fault, TypeOK
    <2>. QED
      BY <1>4, <2>2, <2>3 DEF SendRaises, TypeOK
  <1>5. CASE MarkFailed(r)
    <2>1. PICK m \in Msgs : /\ event' = [event EXCEPT ![m] = Flushed(@, seen[r])]
                            /\ todo' = [todo EXCEPT ![r] = @ \ {m}]
                            /\ batch' = [batch EXCEPT ![r][m] = NoRow]
      BY <1>5 DEF MarkFailed
    <2>2. Flushed(event[m], seen[r]) \in Rows
      BY FlushedIsRow DEF TypeOK
    <2>3. event' \in [Msgs -> Rows] /\ todo' \in [Relays -> SUBSET Msgs]
      BY <2>1, <2>2 DEF TypeOK
    <2>4. batch' \in [Relays -> [Msgs -> Rows]]
      BY <1>1, <2>1 DEF TypeOK
    <2>5. seen' \in [Relays \cup Consumers -> Rows]
      BY <1>1, <1>5 DEF MarkFailed, TypeOK
    <2>. QED
      BY <1>5, <2>3, <2>4, <2>5 DEF MarkFailed, TypeOK
  <1>6. CASE MarkPublished(r)
    <2>1. \A m \in Msgs : [event[m] EXCEPT !.status = "published"] \in Rows
      BY RowUpdates DEF TypeOK
    <2>2. event' \in [Msgs -> Rows]
      BY <1>6, <2>1 DEF MarkPublished, TypeOK
    <2>. QED
      BY <1>1, <1>6, <2>2 DEF MarkPublished, TypeOK
  <1>. QED
    BY <1>2, <1>3, <1>4, <1>5, <1>6

\* The webhook, the clock, the producers and a person.
LEMMA SurroundingTypes ==
    ASSUME TypeOK,
           \/ \E m \in Msgs : Receive(m) \/ BackoffPasses(m)
           \/ \E r \in Relays : Flush(r) \/ RecordExpires(r) \/ RelayCrash(r)
           \/ HumanReplies
    PROVE  TypeOK'
  <1>. USE DEF outboxVars, kafkaVars, consumerVars, replyVars, anomalies
  <1>1. ASSUME NEW m \in Msgs, Receive(m) PROVE TypeOK'
    <2>1. [event[m] EXCEPT !.status = "pending", !.due = TRUE] \in Rows
      BY RowUpdates DEF TypeOK
    <2>2. event' \in [Msgs -> Rows]
      BY <1>1, <2>1 DEF Receive, TypeOK
    <2>. QED
      BY <1>1, <2>2 DEF Receive, TypeOK
  <1>2. ASSUME NEW m \in Msgs, BackoffPasses(m) PROVE TypeOK'
    <2>1. [event[m] EXCEPT !.due = TRUE] \in Rows
      BY RowUpdates DEF TypeOK
    <2>2. event' = [event EXCEPT ![m] = [event[m] EXCEPT !.due = TRUE]]
      BY <1>2 DEF BackoffPasses
    <2>3. event' \in [Msgs -> Rows]
      BY <2>1, <2>2 DEF TypeOK
    <2>. QED
      BY <1>2, <2>3 DEF BackoffPasses, TypeOK
  <1>3. ASSUME NEW r \in Relays, Flush(r) PROVE TypeOK'
    <2>1. Head(buffer[r]) \in Msgs /\ Tail(buffer[r]) \in Seq(Msgs)
      BY <1>3 DEF Flush, TypeOK
    <2>2. log' \in Seq(Msgs) /\ Len(log') = Len(log) + 1 /\ Len(log) \in Nat
      BY <1>3, <2>1 DEF Flush, TypeOK
    <2>3. committed' \in 0..Len(log') /\ at' \in [Consumers -> 0..Len(log')]
      BY <1>3, <2>2 DEF Flush, TypeOK
    <2>. QED
      BY <1>3, <2>1, <2>2, <2>3 DEF Flush, TypeOK
  <1>4. ASSUME NEW r \in Relays, RecordExpires(r) PROVE TypeOK'
    <2>1. Head(buffer[r]) \in Msgs /\ Tail(buffer[r]) \in Seq(Msgs)
      BY <1>4 DEF RecordExpires, TypeOK
    <2>2. faults' \in 0..MaxFaults
      BY <1>4, ConstantsAssumption DEF RecordExpires, Fault, TypeOK
    <2>. QED
      BY <1>4, <2>1, <2>2 DEF RecordExpires, TypeOK
  <1>5. ASSUME NEW r \in Relays, RelayCrash(r) PROVE TypeOK'
    <2>1. ToSet(buffer[r]) \subseteq Msgs
      BY DEF ToSet, TypeOK
    <2>2. faults' \in 0..MaxFaults
      BY <1>5, ConstantsAssumption DEF RelayCrash, Fault, TypeOK
    <2>3. <<>> \in Seq(Msgs)
      OBVIOUS
    <2>. QED
      BY <1>5, <2>1, <2>2, <2>3, NoRowIsRow DEF RelayCrash, TypeOK
  <1>6. CASE HumanReplies
    BY <1>6 DEF HumanReplies, HandlerOnly, Stored, TypeOK
  <1>. QED
    BY <1>1, <1>2, <1>3, <1>4, <1>5, <1>6
\* The part a consumer sends or records is one of the model's parts.
LEMMA PartOf ==
    ASSUME TypeOK, NEW c \in Consumers, InHand(c),
           pc[c] \in {"voice", "send", "record"}
    PROVE  Part(c) \in Parts
  <1>1. at[c] # 0 /\ part[c] # 0
    BY DEF InHand
  <1>2. part[c] \in 1..MaxParts
    BY <1>1, ConstantsAssumption DEF TypeOK
  <1>. QED
    BY <1>1, <1>2, MessageOf DEF Part, Parts

\* One more copy, or one more row, of a part.
LEMMA CopiesCounted ==
    ASSUME NEW copies \in [Parts -> Nat], NEW p \in Parts
    PROVE  [copies EXCEPT ![p] = @ + 1] \in [Parts -> Nat]
  <1>1. copies[p] + 1 \in Nat
    OBVIOUS
  <1>. QED
    BY <1>1

\* Goto moves one consumer.
LEMMA GotoMoves ==
    ASSUME TypeOK, NEW c \in Consumers, NEW l \in Labels, Goto(c, l)
    PROVE  /\ pc' \in [Consumers -> Labels] /\ pc'[c] = l
           /\ \A d \in Consumers : d # c => pc'[d] = pc[d]
  BY DEF Goto, TypeOK

\* Forget clears one consumer.
LEMMA ForgetMoves ==
    ASSUME TypeOK, NEW c \in Consumers, Forget(c)
    PROVE  /\ pc' \in [Consumers -> Labels] /\ pc'[c] = "idle"
           /\ at' \in [Consumers -> 0..Len(log)]
           /\ parts' \in [Consumers -> 0..MaxParts] /\ part' \in [Consumers -> 0..MaxParts]
           /\ \A d \in Consumers : d # c =>
                pc'[d] = pc[d] /\ at'[d] = at[d] /\ part'[d] = part[d]
  <1>1. "idle" \in Labels /\ MaxParts \in Nat /\ Len(log) \in Nat
    BY ConstantsAssumption DEF Labels, TypeOK
  <1>. QED
    BY <1>1, GotoMoves DEF Forget, TypeOK

\* A consumer's step inside the handler moves it, the reply and the message's
\* status, and nothing else; and it leaves the consumer what it relies on.
Handled(c) ==
    /\ TypeOK' /\ Forward /\ InHand(c)'
    /\ log' = log /\ event' = event
    /\ \A d \in Consumers : d # c =>
          pc'[d] = pc[d] /\ at'[d] = at[d] /\ part'[d] = part[d]

\* Taking a record, looking its message up, storing it.
LEMMA LookupHandled ==
    ASSUME TypeOK, NEW c \in Consumers, InHand(c), Poll(c) \/ Drop(c) \/ Lookup(c) \/ Store(c)
    PROVE  Handled(c)
  <1>. USE DEF outboxVars, kafkaVars, replyVars, anomalies, HandlerOnly
  <1>1. {"lookup", "store", "decide", "close", "raised"} \subseteq Labels
    BY DEF Labels
  <1>2. CASE Poll(c)
    <2>1. committed + 1 \in 1..Len(log)
      BY <1>2 DEF Poll, TypeOK
    <2>2. at' \in [Consumers -> 0..Len(log)] /\ at'[c] # 0
      BY <1>2, <2>1 DEF Poll, TypeOK
    <2>3. pc' \in [Consumers -> Labels] /\ pc'[c] = "lookup"
      BY <1>1, <1>2, GotoMoves DEF Poll
    <2>4. TypeOK'
      BY <1>2, <2>2, <2>3 DEF Poll, TypeOK
    <2>5. InHand(c)'
      BY <2>2, <2>3 DEF InHand
    <2>. QED
      BY <1>1, <1>2, <2>4, <2>5, GotoMoves DEF Poll, Handled, Forward, TypeOK
  <1>3. CASE Lookup(c)
    <2>1. at[c] # 0 /\ Msg(c) \in Msgs
      BY <1>3, MessageOf DEF Lookup, InHand
    <2>2. PICK l \in {"store", "close", "decide"} :
            /\ Goto(c, l)
            /\ l \in {"close", "decide"} => inbound[Msg(c)] # "absent"
      BY <1>3 DEF Lookup
    <2>3. \/ UNCHANGED inbound
          \/ /\ inbound[Msg(c)] = "pending"
             /\ inbound' = [inbound EXCEPT ![Msg(c)] = "sent"]
      BY <1>3 DEF Lookup
    <2>4. /\ inbound' \in [Msgs -> {"absent", "pending", "sent", "skipped", "failed"}]
          /\ Forward
      BY <1>3, <2>1, <2>3 DEF Lookup, Forward, Replied, TypeOK
    <2>5. /\ pc' \in [Consumers -> Labels] /\ pc'[c] = l
          /\ \A d \in Consumers : d # c => pc'[d] = pc[d]
      BY <1>1, <2>2, GotoMoves
    <2>6. UNCHANGED <<at, parts, part, log>> /\ Msg(c)' = Msg(c)
      BY <1>3 DEF Lookup, Msg
    <2>7. TypeOK'
      BY <1>3, <2>4, <2>5 DEF Lookup, TypeOK
    <2>8. InHand(c)'
      BY <2>1, <2>2, <2>4, <2>5, <2>6 DEF InHand, Forward
    <2>. QED
      BY <1>3, <2>4, <2>5, <2>6, <2>7, <2>8 DEF Lookup, Handled
  <1>4. CASE Store(c)
    <2>1. at[c] # 0 /\ Msg(c) \in Msgs
      BY <1>4, MessageOf DEF Store, InHand
    <2>2. PICK l \in {"decide", "raised"} :
            /\ Goto(c, l)
            /\ l = "decide" => inbound' = [inbound EXCEPT ![Msg(c)] = "pending"]
            /\ \/ UNCHANGED inbound
               \/ /\ inbound[Msg(c)] = "absent"
                  /\ inbound' = [inbound EXCEPT ![Msg(c)] = "pending"]
      BY <1>4 DEF Store
    <2>3. /\ inbound' \in [Msgs -> {"absent", "pending", "sent", "skipped", "failed"}]
          /\ Forward
      BY <1>4, <2>1, <2>2 DEF Store, Forward, Replied, TypeOK
    <2>4. /\ pc' \in [Consumers -> Labels] /\ pc'[c] = l
          /\ \A d \in Consumers : d # c => pc'[d] = pc[d]
      BY <1>1, <2>2, GotoMoves
    <2>5. UNCHANGED <<at, parts, part, log>> /\ Msg(c)' = Msg(c)
      BY <1>4 DEF Store, Msg
    <2>6. TypeOK'
      BY <1>4, <2>3, <2>4 DEF Store, TypeOK
    <2>7. l = "decide" => inbound'[Msg(c)] = "pending"
      BY <2>1, <2>2 DEF TypeOK
    <2>8. InHand(c)'
      BY <2>1, <2>4, <2>5, <2>7 DEF InHand
    <2>. QED
      BY <1>4, <2>3, <2>4, <2>5, <2>6, <2>8 DEF Store, Handled
  <1>5. CASE Drop(c)
    <2>1. at[c] # 0 /\ Msg(c) \in Msgs
      BY <1>5, MessageOf DEF Drop, InHand
    <2>2. /\ pc' \in [Consumers -> Labels] /\ pc'[c] = "close"
          /\ \A d \in Consumers : d # c => pc'[d] = pc[d]
      BY <1>1, <1>5, GotoMoves DEF Drop
    <2>3. UNCHANGED <<at, part, log, inbound>> /\ Msg(c)' = Msg(c)
      BY <1>5 DEF Drop, Msg
    <2>4. unknown' \subseteq Msgs /\ faults' \in 0..MaxFaults
      BY <1>5, <2>1, ConstantsAssumption DEF Drop, Fault, TypeOK
    <2>5. TypeOK'
      BY <1>5, <2>2, <2>4 DEF Drop, TypeOK
    <2>6. Msg(c) \in unknown' /\ Forward
      BY <1>5, <2>3 DEF Drop, Forward
    <2>7. InHand(c)'
      BY <2>1, <2>2, <2>3, <2>6 DEF InHand
    <2>. QED
      BY <1>5, <2>2, <2>3, <2>5, <2>6, <2>7 DEF Drop, Handled
  <1>. QED
    BY <1>2, <1>3, <1>4, <1>5

\* The reply, up to the decision how to send it.
LEMMA DecideHandled ==
    ASSUME TypeOK, NEW c \in Consumers, InHand(c),
           \/ Withhold(c) \/ StaySilent(c) \/ SystemLine(c)
           \/ GenerationFails(c) \/ Compose(c) \/ ShortCircuit(c)
    PROVE  Handled(c)
  <1>. USE DEF outboxVars, kafkaVars, replyVars, anomalies, HandlerOnly
  <1>1. {"close", "raised", "voice", "send"} \subseteq Labels
    BY DEF Labels
  <1>2. at[c] # 0 /\ Msg(c) \in Msgs /\ inbound[Msg(c)] # "absent"
    BY MessageOf DEF Withhold, StaySilent, SystemLine, GenerationFails, Compose,
                     ShortCircuit, InHand
  <1>3. CASE Withhold(c)
    <2>1. \E verdict \in {"skipped", "failed"} :
             inbound' = [inbound EXCEPT ![Msg(c)] = verdict]
      BY <1>3 DEF Withhold
    <2>2. /\ inbound' \in [Msgs -> {"absent", "pending", "sent", "skipped", "failed"}]
          /\ Forward
      BY <1>2, <1>3, <2>1 DEF Withhold, Forward, Replied, TypeOK
    <2>3. /\ pc' \in [Consumers -> Labels] /\ pc'[c] = "close"
          /\ \A d \in Consumers : d # c => pc'[d] = pc[d]
      BY <1>1, <1>3, GotoMoves DEF Withhold
    <2>4. UNCHANGED <<at, parts, part, log>> /\ Msg(c)' = Msg(c)
      BY <1>3 DEF Withhold, Msg
    <2>5. TypeOK'
      BY <1>3, <2>2, <2>3 DEF Withhold, TypeOK
    <2>6. InHand(c)'
      BY <1>2, <2>2, <2>3, <2>4 DEF InHand, Forward
    <2>. QED
      BY <1>3, <2>2, <2>3, <2>4, <2>5, <2>6 DEF Withhold, Handled
  <1>4. CASE GenerationFails(c)
    <2>1. /\ pc' \in [Consumers -> Labels] /\ pc'[c] = "raised"
          /\ \A d \in Consumers : d # c => pc'[d] = pc[d]
      BY <1>1, <1>4, GotoMoves DEF GenerationFails
    <2>2. TypeOK'
      BY <1>4, <2>1 DEF GenerationFails, TypeOK
    <2>3. InHand(c)'
      BY <1>2, <1>4, <2>1 DEF GenerationFails, InHand
    <2>. QED
      BY <1>4, <2>1, <2>2, <2>3 DEF GenerationFails, Handled, Forward
  <1>5. CASE Compose(c)
    <2>1. PICK n \in 1..MaxParts : parts' = [parts EXCEPT ![c] = n]
      BY <1>5 DEF Compose
    <2>2. MaxParts \in Nat /\ 1 \in 0..MaxParts
      BY ConstantsAssumption
    <2>3. /\ parts' \in [Consumers -> 0..MaxParts]
          /\ part' \in [Consumers -> 0..MaxParts] /\ part'[c] = 1
          /\ \A d \in Consumers : d # c => part'[d] = part[d]
      BY <1>5, <2>1, <2>2 DEF Compose, TypeOK
    <2>4. PICK l \in {"voice", "send"} : Goto(c, l)
      BY <1>5 DEF Compose
    <2>5. /\ pc' \in [Consumers -> Labels] /\ pc'[c] = l
          /\ \A d \in Consumers : d # c => pc'[d] = pc[d]
      BY <1>1, <2>4, GotoMoves
    <2>6. UNCHANGED <<at, inbound, log>> /\ Msg(c)' = Msg(c)
      BY <1>5 DEF Compose, Msg
    <2>7. TypeOK'
      BY <1>5, <2>3, <2>5 DEF Compose, TypeOK
    <2>8. InHand(c)'
      BY <1>2, <2>3, <2>5, <2>6 DEF InHand
    <2>. QED
      BY <1>5, <2>3, <2>5, <2>6, <2>7, <2>8 DEF Compose, Handled, Forward
  <1>6. CASE ShortCircuit(c)
    <2>1. 1 \in 0..MaxParts
      BY ConstantsAssumption
    <2>2. /\ parts' \in [Consumers -> 0..MaxParts]
          /\ part' \in [Consumers -> 0..MaxParts] /\ part'[c] = 1
          /\ \A d \in Consumers : d # c => part'[d] = part[d]
      BY <1>6, <2>1 DEF ShortCircuit, TypeOK
    <2>3. /\ pc' \in [Consumers -> Labels] /\ pc'[c] = "send"
          /\ \A d \in Consumers : d # c => pc'[d] = pc[d]
      BY <1>1, <1>6, GotoMoves DEF ShortCircuit
    <2>4. UNCHANGED <<at, inbound, log>> /\ Msg(c)' = Msg(c)
      BY <1>6 DEF ShortCircuit, Msg
    <2>5. TypeOK'
      BY <1>6, <2>2, <2>3 DEF ShortCircuit, TypeOK
    <2>6. InHand(c)'
      BY <1>2, <2>2, <2>3, <2>4 DEF InHand
    <2>. QED
      BY <1>6, <2>2, <2>3, <2>4, <2>5, <2>6 DEF ShortCircuit, Handled, Forward
  <1>7. CASE StaySilent(c) \/ SystemLine(c)
    <2>1. /\ pc' \in [Consumers -> Labels] /\ pc'[c] = "close"
          /\ \A d \in Consumers : d # c => pc'[d] = pc[d]
      BY <1>1, <1>7, GotoMoves DEF StaySilent, SystemLine
    <2>2. answered' \subseteq Msgs
      BY <1>7 DEF StaySilent, SystemLine, Stored, TypeOK
    <2>3. UNCHANGED <<at, parts, part, inbound, log>> /\ Msg(c)' = Msg(c)
      BY <1>7 DEF StaySilent, SystemLine, Msg
    <2>4. TypeOK'
      BY <1>7, <2>1, <2>2 DEF StaySilent, SystemLine, TypeOK
    <2>5. InHand(c)'
      BY <1>2, <2>1, <2>3 DEF InHand
    <2>. QED
      BY <1>7, <2>1, <2>3, <2>4, <2>5 DEF StaySilent, SystemLine, Handled, Forward
  <1>. QED
    BY <1>3, <1>4, <1>5, <1>6, <1>7

\* Sending a part, or the voice note.
LEMMA SendHandled ==
    ASSUME TypeOK, NEW c \in Consumers, InHand(c),
           \/ VoiceSent(c) \/ VoiceFails(c) \/ SendPart(c) \/ SendAmbiguous(c)
           \/ SendTransient(c) \/ SendPermanent(c)
    PROVE  Handled(c)
  <1>. USE DEF outboxVars, kafkaVars, replyVars, anomalies, HandlerOnly
  <1>1. {"close", "raised", "record", "send", "ambiguous"} \subseteq Labels
    BY DEF Labels
  <1>2. pc[c] \in {"voice", "send"}
    BY DEF VoiceSent, VoiceFails, SendPart, SendAmbiguous, SendTransient, SendPermanent
  <1>3. /\ at[c] # 0 /\ Msg(c) \in Msgs /\ inbound[Msg(c)] # "absent"
        /\ part[c] # 0 /\ Part(c) \in Parts
    BY <1>2, MessageOf, PartOf DEF InHand
  <1>4. PICK l \in {"close", "raised", "record", "send", "ambiguous"} : Goto(c, l)
    BY DEF VoiceSent, VoiceFails, SendPart, SendAmbiguous, SendTransient, SendPermanent
  <1>5. /\ pc' \in [Consumers -> Labels] /\ pc'[c] = l
        /\ \A d \in Consumers : d # c => pc'[d] = pc[d]
    BY <1>1, <1>4, GotoMoves
  <1>6. \/ delivered' = delivered
        \/ delivered' = [delivered EXCEPT ![Part(c)] = @ + 1]
    BY DEF VoiceSent, VoiceFails, SendPart, SendAmbiguous, SendTransient, SendPermanent
  <1>7. delivered' \in [Parts -> Nat]
    BY <1>3, <1>6, CopiesCounted DEF TypeOK
  <1>8. lost' = lost \/ lost' = lost \cup {Part(c)}
    BY DEF VoiceSent, VoiceFails, SendPart, SendAmbiguous, SendTransient, SendPermanent
  <1>9. faults' = faults \/ (faults < MaxFaults /\ faults' = faults + 1)
    BY DEF VoiceSent, VoiceFails, SendPart, SendAmbiguous, SendTransient, SendPermanent,
           Fault
  <1>10. inbound' = inbound \/ inbound' = [inbound EXCEPT ![Msg(c)] = "failed"]
    BY DEF VoiceSent, VoiceFails, SendPart, SendAmbiguous, SendTransient, SendPermanent
  <1>11. UNCHANGED <<event, phase, batch, todo, buffer, log, committed, owner, dropped,
                     at, part, seen, answered, recorded, unknown, overlapped>>
    BY DEF VoiceSent, VoiceFails, SendPart, SendAmbiguous, SendTransient, SendPermanent
  <1>12. /\ inbound' \in [Msgs -> {"absent", "pending", "sent", "skipped", "failed"}]
         /\ Forward
    BY <1>3, <1>10, <1>11 DEF Forward, Replied, TypeOK
  <1>13. parts' = parts \/ parts' = [parts EXCEPT ![c] = 1]
    BY DEF VoiceSent, VoiceFails, SendPart, SendAmbiguous, SendTransient, SendPermanent
  <1>14. parts' \in [Consumers -> 0..MaxParts] /\ faults' \in 0..MaxFaults
    <2>1. MaxParts \in Nat /\ 1 \in 0..MaxParts /\ MaxFaults \in Nat
      BY ConstantsAssumption
    <2>2. parts' \in [Consumers -> 0..MaxParts]
      BY <1>13, <2>1 DEF TypeOK
    <2>3. faults' \in 0..MaxFaults
      BY <1>9, <2>1 DEF TypeOK
    <2>. QED
      BY <2>2, <2>3
  <1>15. TypeOK'
    BY <1>3, <1>5, <1>7, <1>8, <1>12, <1>14, <1>11 DEF TypeOK
  <1>16. Msg(c)' = Msg(c) /\ inbound'[Msg(c)] # "absent"
    BY <1>3, <1>12, <1>11 DEF Msg, Forward
  <1>17. InHand(c)'
    BY <1>3, <1>5, <1>11, <1>16 DEF InHand
  <1>. QED
    BY <1>5, <1>12, <1>11, <1>15, <1>17 DEF Handled

\* The outbound row, what follows the reply, and the verdict.
LEMMA CloseHandled ==
    ASSUME TypeOK, NEW c \in Consumers, InHand(c),
           RecordPart(c) \/ AfterReplyFails(c) \/ CloseReply(c)
    PROVE  Handled(c)
  <1>. USE DEF outboxVars, kafkaVars, replyVars, anomalies, HandlerOnly
  <1>1. {"send", "close", "raised", "sent"} \subseteq Labels
    BY DEF Labels
  <1>2. /\ at[c] # 0 /\ Msg(c) \in Msgs
        /\ inbound[Msg(c)] # "absent" \/ Msg(c) \in unknown
    BY MessageOf DEF RecordPart, AfterReplyFails, CloseReply, InHand
  <1>3. CASE RecordPart(c)
    <2>1. Part(c) \in Parts /\ part[c] # 0
      BY <1>3, PartOf DEF RecordPart, InHand
    <2>2. recorded' \in [Parts -> Nat] /\ answered' \subseteq Msgs
      BY <1>3, <2>1, CopiesCounted DEF RecordPart, Stored, TypeOK
    <2>3. PICK l \in {"send", "close"} : Goto(c, l)
      BY <1>3 DEF RecordPart
    <2>4. /\ pc' \in [Consumers -> Labels] /\ pc'[c] = l
          /\ \A d \in Consumers : d # c => pc'[d] = pc[d]
      BY <1>1, <2>3, GotoMoves
    <2>5. \/ part' = part
          \/ part[c] < parts[c] /\ part' = [part EXCEPT ![c] = @ + 1]
      BY <1>3 DEF RecordPart
    <2>6. /\ part' \in [Consumers -> 0..MaxParts] /\ part'[c] # 0
          /\ \A d \in Consumers : d # c => part'[d] = part[d]
      <3>1. MaxParts \in Nat /\ part[c] \in 0..MaxParts /\ parts[c] \in 0..MaxParts
        BY ConstantsAssumption DEF TypeOK
      <3>2. CASE part' = part
        BY <2>1, <3>2 DEF TypeOK
      <3>3. CASE part[c] < parts[c] /\ part' = [part EXCEPT ![c] = @ + 1]
        <4>1. part[c] + 1 \in 0..MaxParts /\ part[c] + 1 # 0
          BY <3>1, <3>3
        <4>. QED
          BY <3>3, <4>1 DEF TypeOK
      <3>. QED
        BY <2>5, <3>2, <3>3
    <2>7. UNCHANGED <<at, inbound, log>> /\ Msg(c)' = Msg(c)
      BY <1>3 DEF RecordPart, Msg
    <2>8. TypeOK'
      BY <1>3, <2>2, <2>4, <2>6 DEF RecordPart, TypeOK
    <2>9. InHand(c)'
      BY <1>2, <1>3, <2>4, <2>6, <2>7 DEF RecordPart, InHand
    <2>. QED
      BY <1>3, <2>4, <2>6, <2>7, <2>8, <2>9 DEF RecordPart, Handled, Forward
  <1>4. CASE AfterReplyFails(c)
    <2>1. /\ pc' \in [Consumers -> Labels] /\ pc'[c] = "raised"
          /\ \A d \in Consumers : d # c => pc'[d] = pc[d]
      BY <1>1, <1>4, GotoMoves DEF AfterReplyFails
    <2>2. faults' \in 0..MaxFaults
      BY <1>4, ConstantsAssumption DEF AfterReplyFails, Fault, TypeOK
    <2>3. TypeOK'
      BY <1>4, <2>1, <2>2 DEF AfterReplyFails, TypeOK
    <2>4. InHand(c)'
      BY <1>2, <1>4, <2>1 DEF AfterReplyFails, InHand
    <2>. QED
      BY <1>4, <2>1, <2>3, <2>4 DEF AfterReplyFails, Handled, Forward
  <1>5. CASE CloseReply(c)
    <2>1. \/ UNCHANGED inbound /\ inbound[Msg(c)] # "pending"
          \/ \E verdict \in {"sent", "skipped"} :
                inbound' = [inbound EXCEPT ![Msg(c)] = verdict]
      <3>1. inbound' = [inbound EXCEPT ![Msg(c)] =
                          IF inbound[Msg(c)] = "pending" THEN Verdict(Msg(c))
                          ELSE inbound[Msg(c)]]
        BY <1>5 DEF CloseReply
      <3>2. Verdict(Msg(c)) \in {"sent", "skipped"}
        BY DEF Verdict
      <3>3. CASE inbound[Msg(c)] = "pending"
        BY <3>1, <3>2, <3>3
      <3>4. CASE inbound[Msg(c)] # "pending"
        BY <1>2, <3>1, <3>4 DEF TypeOK
      <3>. QED
        BY <3>3, <3>4
    <2>2. /\ inbound' \in [Msgs -> {"absent", "pending", "sent", "skipped", "failed"}]
          /\ Forward /\ (inbound'[Msg(c)] \in Replied \/ Msg(c) \in unknown')
      BY <1>2, <1>5, <2>1 DEF CloseReply, Forward, Replied, TypeOK
    <2>3. /\ pc' \in [Consumers -> Labels] /\ pc'[c] = "sent"
          /\ \A d \in Consumers : d # c => pc'[d] = pc[d]
      BY <1>1, <1>5, GotoMoves DEF CloseReply
    <2>4. UNCHANGED <<at, parts, part, log>> /\ Msg(c)' = Msg(c)
      BY <1>5 DEF CloseReply, Msg
    <2>5. TypeOK'
      BY <1>5, <2>2, <2>3 DEF CloseReply, TypeOK
    <2>6. InHand(c)'
      BY <1>2, <2>2, <2>3, <2>4 DEF InHand
    <2>. QED
      BY <1>5, <2>2, <2>3, <2>4, <2>5, <2>6 DEF CloseReply, Handled
  <1>. QED
    BY <1>3, <1>4, <1>5

\* The steps that write the outcome of an event or leave the record keep the
\* stored messages as they are, and close an event as sent only when the
\* consumer has seen the reply settled.
Concluded(c) ==
    /\ TypeOK' /\ InHand(c)'
    /\ inbound' = inbound /\ unknown' = unknown /\ log' = log
    /\ \A d \in Consumers : d # c =>
          pc'[d] = pc[d] /\ at'[d] = at[d] /\ part'[d] = part[d]
    /\ \A m \in Msgs : event'[m].status = "sent" =>
          event[m].status = "sent" \/ inbound[m] \in Replied \/ m \in unknown

\* Writing the outcome of the event.
LEMMA OutcomeConcluded ==
    ASSUME TypeOK, NEW c \in Consumers, InHand(c),
           MarkSent(c) \/ MarkAmbiguous(c) \/ ReadAttempts(c) \/ MarkRetry(c)
    PROVE  Concluded(c)
  <1>. USE DEF outboxVars, kafkaVars, replyVars, anomalies
  <1>1. {"commit", "failing"} \subseteq Labels
    BY DEF Labels
  <1>2. at[c] # 0 /\ Msg(c) \in Msgs /\ event[Msg(c)] \in Rows
    BY MessageOf DEF MarkSent, MarkAmbiguous, ReadAttempts, MarkRetry, InHand, TypeOK
  <1>3. PICK l \in {"commit", "failing"} : Goto(c, l)
    BY DEF MarkSent, MarkAmbiguous, ReadAttempts, MarkRetry
  <1>4. /\ pc' \in [Consumers -> Labels] /\ pc'[c] = l
        /\ \A d \in Consumers : d # c => pc'[d] = pc[d]
    BY <1>1, <1>3, GotoMoves
  <1>5. UNCHANGED <<phase, batch, todo, kafkaVars, at, parts, part, replyVars,
                    anomalies, faults>>
    BY DEF MarkSent, MarkAmbiguous, ReadAttempts, MarkRetry
  <1>6. InHand(c)'
    BY <1>2, <1>4, <1>5 DEF InHand
  <1>7. /\ event' \in [Msgs -> Rows]
        /\ \A m \in Msgs : event'[m].status = "sent" =>
              event[m].status = "sent" \/ inbound[m] \in Replied \/ m \in unknown
    <2>1. CASE MarkSent(c)
      <3>1. event' = [event EXCEPT ![Msg(c)] = [event[Msg(c)] EXCEPT !.status = "sent"]]
        BY <2>1 DEF MarkSent
      <3>2. [event[Msg(c)] EXCEPT !.status = "sent"] \in Rows
        BY <1>2, RowUpdates
      <3>3. inbound[Msg(c)] \in Replied \/ Msg(c) \in unknown
        BY <2>1 DEF MarkSent, InHand
      <3>. QED
        BY <1>2, <3>1, <3>2, <3>3 DEF TypeOK
    <2>2. CASE MarkAmbiguous(c)
      <3>1. event' = [event EXCEPT ![Msg(c)] = [event[Msg(c)] EXCEPT !.status = "ambiguous"]]
        BY <2>2 DEF MarkAmbiguous
      <3>2. /\ [event[Msg(c)] EXCEPT !.status = "ambiguous"] \in Rows
            /\ [event[Msg(c)] EXCEPT !.status = "ambiguous"].status = "ambiguous"
        BY <1>2, RowUpdates DEF Rows
      <3>. QED
        BY <1>2, <3>1, <3>2 DEF TypeOK
    <2>3. CASE ReadAttempts(c)
      BY <2>3 DEF ReadAttempts, TypeOK
    <2>4. CASE MarkRetry(c)
      <3>1. event' = [event EXCEPT ![Msg(c)] = FailedRow(event[Msg(c)], seen[c].attempts)]
        BY <2>4 DEF MarkRetry
      <3>2. seen[c].attempts \in Nat
        BY RowFields DEF TypeOK
      <3>3. /\ FailedRow(event[Msg(c)], seen[c].attempts) \in Rows
            /\ FailedRow(event[Msg(c)], seen[c].attempts).status \in {"failed", "dead"}
        BY <1>2, <3>2, FailedIsRow
      <3>. QED
        BY <1>2, <3>1, <3>3 DEF TypeOK
    <2>. QED
      BY <2>1, <2>2, <2>3, <2>4
  <1>8. seen' \in [Relays \cup Consumers -> Rows]
    BY <1>2, NoRowIsRow DEF MarkSent, MarkAmbiguous, ReadAttempts, MarkRetry, TypeOK
  <1>9. TypeOK'
    BY <1>4, <1>5, <1>7, <1>8 DEF TypeOK
  <1>. QED
    BY <1>4, <1>5, <1>6, <1>7, <1>9 DEF Concluded

\* The end of a record: its offset is committed, or its consumer dies or is
\* evicted.
LEMMA RecordConcluded ==
    ASSUME TypeOK, NEW c \in Consumers, InHand(c),
           Commit(c) \/ ConsumerCrash(c) \/ Evict(c)
    PROVE  Concluded(c)
  <1>. USE DEF outboxVars, kafkaVars, replyVars, anomalies
  <1>1. CASE Commit(c)
    <2>1. committed' \in 0..Len(log)
      BY <1>1 DEF Commit, TypeOK
    <2>2. TypeOK'
      BY <1>1, <2>1, ForgetMoves DEF Commit, TypeOK
    <2>3. InHand(c)'
      BY <1>1, ForgetMoves DEF Commit, InHand
    <2>. QED
      BY <1>1, <2>2, <2>3, ForgetMoves DEF Commit, Concluded
  <1>2. CASE ConsumerCrash(c)
    <2>1. pc[c] = "record" => Part(c) \in Parts
      BY PartOf
    <2>2. lost' \subseteq Parts /\ owner' \in Consumers
      BY <1>2, <2>1 DEF ConsumerCrash, TypeOK
    <2>3. faults' \in 0..MaxFaults
      BY <1>2, ConstantsAssumption DEF ConsumerCrash, Fault, TypeOK
    <2>4. seen' \in [Relays \cup Consumers -> Rows]
      BY <1>2, NoRowIsRow DEF ConsumerCrash, TypeOK
    <2>5. TypeOK'
      BY <1>2, <2>2, <2>3, <2>4, ForgetMoves DEF ConsumerCrash, TypeOK
    <2>6. InHand(c)'
      BY <1>2, ForgetMoves DEF ConsumerCrash, InHand
    <2>. QED
      BY <1>2, <2>5, <2>6, ForgetMoves DEF ConsumerCrash, Concluded
  <1>3. CASE Evict(c)
    <2>1. faults' \in 0..MaxFaults
      BY <1>3, ConstantsAssumption DEF Evict, Fault, TypeOK
    <2>2. UNCHANGED <<consumerVars, inbound, unknown, log, event>>
      BY <1>3 DEF Evict
    <2>3. TypeOK'
      BY <1>3, <2>1 DEF Evict, consumerVars, TypeOK
    <2>4. InHand(c)'
      BY <2>2 DEF InHand, Msg, consumerVars
    <2>. QED
      BY <2>2, <2>3, <2>4 DEF Concluded, consumerVars
  <1>. QED
    BY <1>1, <1>2, <1>3

-----------------------------------------------------------------------------
(* The invariant                                                           *)

\* The steps of everything but the consumers.
Outside ==
    \/ \E m \in Msgs : Receive(m) \/ BackoffPasses(m)
    \/ \E r \in Relays : RelayStep(r) \/ Flush(r)
    \/ \E r \in Relays : SendRaises(r) \/ RecordExpires(r) \/ RelayCrash(r)
    \/ HumanReplies

\* They close no event as sent: the failures of the relays count, and the
\* compare-and-set publishes.
LEMMA OutsideClosesNothing ==
    ASSUME TypeOK, Outside
    PROVE  \A m \in Msgs : event'[m].status = "sent" => event[m].status = "sent"
  <1>. USE DEF outboxVars, kafkaVars, consumerVars, replyVars, anomalies, HandlerOnly
  <1>1. ASSUME NEW k \in Msgs, Receive(k)
        PROVE  \A m \in Msgs : event'[m].status = "sent" => event[m].status = "sent"
    <2>1. event' = [event EXCEPT ![k] = [event[k] EXCEPT !.status = "pending", !.due = TRUE]]
      BY <1>1 DEF Receive
    <2>2. [event[k] EXCEPT !.status = "pending", !.due = TRUE].status = "pending"
      BY DEF Rows, TypeOK
    <2>. QED
      BY <2>1, <2>2 DEF TypeOK
  <1>2. ASSUME NEW k \in Msgs, BackoffPasses(k)
        PROVE  \A m \in Msgs : event'[m].status = "sent" => event[m].status = "sent"
    <2>1. event' = [event EXCEPT ![k] = [event[k] EXCEPT !.due = TRUE]]
      BY <1>2 DEF BackoffPasses
    <2>2. [event[k] EXCEPT !.due = TRUE].status = event[k].status
      BY DEF Rows, TypeOK
    <2>. QED
      BY <2>1, <2>2 DEF TypeOK
  <1>3. ASSUME NEW r \in Relays, MarkFailed(r)
        PROVE  \A m \in Msgs : event'[m].status = "sent" => event[m].status = "sent"
    <2>1. PICK k \in Msgs : event' = [event EXCEPT ![k] = Flushed(event[k], seen[r])]
      BY <1>3 DEF MarkFailed
    <2>2. Flushed(event[k], seen[r]).status = "sent" => event[k].status = "sent"
      BY FlushedIsRow DEF TypeOK
    <2>. QED
      BY <2>1, <2>2 DEF TypeOK
  <1>4. ASSUME NEW r \in Relays, MarkPublished(r)
        PROVE  \A m \in Msgs : event'[m].status = "sent" => event[m].status = "sent"
    <2>1. \A m \in Msgs : [event[m] EXCEPT !.status = "published"].status = "published"
      BY DEF Rows, TypeOK
    <2>2. \A m \in Msgs : \/ event'[m] = [event[m] EXCEPT !.status = "published"]
                          \/ event'[m] = event[m]
      BY <1>4 DEF MarkPublished
    <2>. QED
      BY <2>1, <2>2
  <1>5. CASE UNCHANGED event
    BY <1>5
  <1>6. ASSUME NEW r \in Relays, Fetch(r) \/ Hand(r) PROVE UNCHANGED event
    BY <1>6 DEF Fetch, Hand
  <1>7. ASSUME NEW r \in Relays,
               Flush(r) \/ SendRaises(r) \/ RecordExpires(r) \/ RelayCrash(r)
        PROVE  UNCHANGED event
    BY <1>7 DEF Flush, SendRaises, RecordExpires, RelayCrash
  <1>8. HumanReplies => UNCHANGED event
    BY DEF HumanReplies
  <1>. QED
    BY <1>1, <1>2, <1>3, <1>4, <1>5, <1>6, <1>7, <1>8 DEF Outside, RelayStep

\* They touch no consumer and no stored message, and the log only grows.
LEMMA OutsideKeepsWorking ==
    ASSUME TypeOK, Working, Outside
    PROVE  Working' /\ UNCHANGED <<inbound, unknown>>
  <1>. USE DEF outboxVars, kafkaVars, consumerVars, replyVars, anomalies, HandlerOnly
  <1>1. /\ UNCHANGED <<pc, at, part, inbound, unknown>>
        /\ log' = log \/ \E m \in Msgs : log' = Append(log, m)
    <2>1. ASSUME NEW r \in Relays, Flush(r)
          PROVE  /\ UNCHANGED <<pc, at, part, inbound, unknown>>
                 /\ \E m \in Msgs : log' = Append(log, m)
      <3>1. Head(buffer[r]) \in Msgs
        BY <2>1 DEF Flush, TypeOK
      <3>. QED
        BY <2>1, <3>1 DEF Flush
    <2>2. ASSUME NEW m \in Msgs, Receive(m) \/ BackoffPasses(m)
          PROVE  UNCHANGED <<pc, at, part, inbound, unknown, log>>
      BY <2>2 DEF Receive, BackoffPasses
    <2>3. ASSUME NEW r \in Relays, RelayStep(r)
          PROVE  UNCHANGED <<pc, at, part, inbound, unknown, log>>
      BY <2>3 DEF RelayStep, Fetch, Hand, MarkFailed, MarkPublished
    <2>4. ASSUME NEW r \in Relays, SendRaises(r) \/ RecordExpires(r) \/ RelayCrash(r)
          PROVE  UNCHANGED <<pc, at, part, inbound, unknown, log>>
      BY <2>4 DEF SendRaises, RecordExpires, RelayCrash
    <2>5. HumanReplies => UNCHANGED <<pc, at, part, inbound, unknown, log>>
      BY DEF HumanReplies
    <2>. QED
      BY <2>1, <2>2, <2>3, <2>4, <2>5 DEF Outside
  <1>2. Forward
    BY <1>1 DEF Forward
  <1>3. ASSUME NEW c \in Consumers PROVE InHand(c)'
    BY <1>1, <1>2, OthersKeepInHand DEF Working
  <1>. QED
    BY <1>1, <1>3 DEF Working

\* A consumer's step keeps what every consumer relies on.
LEMMA ConsumerKeepsWorking ==
    ASSUME TypeOK, Working, NEW c \in Consumers,
           InHand(c)', Forward, log' = log,
           \A d \in Consumers : d # c =>
              pc'[d] = pc[d] /\ at'[d] = at[d] /\ part'[d] = part[d]
    PROVE  Working'
  <1>1. ASSUME NEW d \in Consumers, d # c PROVE InHand(d)'
    BY <1>1, OthersKeepInHand DEF Working
  <1>. QED
    BY <1>1 DEF Working

\* The two facts of the induction.
LEMMA InitInvariant == Init => Inv
  <1>1. Init => TypeOK
    BY InitTypes
  <1>2. Init => Working
    BY DEF Init, Working, InHand
  <1>3. Init => SentIsSettled
    BY DEF Init, SentIsSettled, NoRow
  <1>. QED
    BY <1>1, <1>2, <1>3 DEF Inv

\* Every step keeps the invariant.
LEMMA StepInvariant == Inv /\ [Next]_vars => Inv'
  <1>. SUFFICES ASSUME Inv, [Next]_vars PROVE Inv'
    OBVIOUS
  <1>1. TypeOK /\ Working /\ SentIsSettled
    BY DEF Inv
  <1>2. CASE Outside
    <2>1. TypeOK'
      BY <1>1, <1>2, RelayTypes, SurroundingTypes DEF Outside, RelayStep
    <2>2. Working' /\ UNCHANGED <<inbound, unknown>>
      BY <1>1, <1>2, OutsideKeepsWorking
    <2>3. SentIsSettled'
      BY <1>1, <1>2, <2>2, OutsideClosesNothing DEF SentIsSettled
    <2>. QED
      BY <2>1, <2>2, <2>3 DEF Inv
  <1>3. ASSUME NEW c \in Consumers, Handled(c) PROVE Inv'
    <2>1. TypeOK' /\ Working'
      BY <1>1, <1>3, ConsumerKeepsWorking DEF Handled
    <2>2. SentIsSettled'
      BY <1>1, <1>3 DEF Handled, Forward, SentIsSettled, Replied
    <2>. QED
      BY <2>1, <2>2 DEF Inv
  <1>4. ASSUME NEW c \in Consumers, Concluded(c) PROVE Inv'
    <2>1. Forward
      BY <1>4 DEF Concluded, Forward
    <2>2. TypeOK' /\ Working'
      BY <1>1, <1>4, <2>1, ConsumerKeepsWorking DEF Concluded
    <2>3. SentIsSettled'
      BY <1>1, <1>4 DEF Concluded, SentIsSettled, Replied
    <2>. QED
      BY <2>2, <2>3 DEF Inv
  <1>5. ASSUME NEW c \in Consumers,
               ConsumerStep(c) \/ Drop(c) \/ AfterReplyFails(c) \/ ConsumerCrash(c) \/ Evict(c)
        PROVE  Handled(c) \/ Concluded(c)
    <2>1. InHand(c)
      BY <1>1 DEF Working
    <2>. QED
      BY <1>1, <1>5, <2>1, LookupHandled, DecideHandled, SendHandled, CloseHandled,
         OutcomeConcluded, RecordConcluded DEF ConsumerStep, ReplyStep
  <1>6. CASE UNCHANGED vars
    <2>1. TypeOK'
      BY <1>1, <1>6
      DEF vars, outboxVars, kafkaVars, consumerVars, replyVars, anomalies, TypeOK
    <2>2. Working' /\ SentIsSettled'
      BY <1>1, <1>6 DEF vars, outboxVars, kafkaVars, consumerVars, replyVars, anomalies,
                        Working, InHand, Msg, SentIsSettled
    <2>. QED
      BY <2>1, <2>2 DEF Inv
  <1>. QED
    BY <1>2, <1>3, <1>4, <1>5, <1>6 DEF Next, Outside

\* The inductive invariant: the types, what each consumer relies on in the
\* middle of its record, and the settled events.
THEOREM InvariantHolds == Spec => []Inv
  BY InitInvariant, StepInvariant, PTL DEF Spec

\* The variables keep their types: no step reads a record past the end of the
\* log, commits one, or numbers a part or an attempt out of its range.
THEOREM RepliesTypeCorrect == Spec => []TypeOK
  <1>1. Inv => TypeOK
    BY DEF Inv
  <1>. QED
    BY <1>1, InvariantHolds, PTL

\* No outbox event is closed as sent before its message has a settled reply
\* status, whatever the interleaving of relays, redeliveries and crashes.
THEOREM SentEventsAreSettled == Spec => []SentIsSettled
  <1>1. Inv => SentIsSettled
    BY DEF Inv
  <1>. QED
    BY <1>1, InvariantHolds, PTL
-----------------------------------------------------------------------------
(* Published events                                                        *)

\* The event of m is published, or a relay that has handed its record over is
\* about to publish it: the row is still the one it read.
Promised(m) ==
    \/ event[m].status = "published"
    \/ /\ event[m].status \in {"pending", "failed"}
       /\ \E r \in Relays : /\ batch[r][m] # NoRow /\ m \notin todo[r]
                            /\ batch[r][m].stamp = event[m].stamp

\* A producer holds a record of m, or has lost one.
Kept(m) == m \in dropped \/ \E r \in Relays : m \in ToSet(buffer[r])

\* The partition has a record of m after the first n.
Ahead(m, records, n) == \E i \in n + 1 .. Len(records) : records[i] = m

\* How far consumer c, in the middle of a record, has settled the partition.
Past(c) == IF pc[c] = "commit" THEN at[c] ELSE at[c] - 1

\* A relay read the row of an event that was there, at this stamp or before.
SnapshotsAreOld ==
    \A r \in Relays, m \in Msgs :
        /\ batch[r][m].stamp <= event[m].stamp
        /\ batch[r][m] # NoRow => event[m].status # "absent"

\* A promise is kept by a record that a producer or the partition still has to
\* bring, for the group and for each consumer in the middle of a record.
PromisesAreKept ==
    \A m \in Msgs : Promised(m) => Kept(m) \/ Ahead(m, log, committed)
PromisesAreAhead ==
    \A c \in Consumers, m \in Msgs :
        pc[c] # "idle" /\ Promised(m) => Kept(m) \/ Ahead(m, log, Past(c))
Promises == SnapshotsAreOld /\ PromisesAreKept /\ PromisesAreAhead

\* What keeps the promises, of the steps that move no consumer: a new promise
\* has its record, and a record leaves a producer for the log or is lost.
NewPromisesKept == \A m \in Msgs : Promised(m)' => Promised(m) \/ Kept(m)'
RecordsKept ==
    \/ log' = log /\ \A m \in Msgs : Kept(m) => Kept(m)'
    \/ \E k \in Msgs : /\ log' = Append(log, k)
                       /\ \A m \in Msgs : Kept(m) => Kept(m)' \/ m = k

\* A record ahead stays ahead when the log grows, and a new one is ahead.
LEMMA AheadGrows ==
    ASSUME NEW m \in Msgs, NEW records \in Seq(Msgs), NEW k \in Msgs, NEW n \in 0..Len(records)
    PROVE  /\ Ahead(m, records, n) => Ahead(m, Append(records, k), n)
           /\ Ahead(k, Append(records, k), n)
  <1>1. /\ Len(Append(records, k)) = Len(records) + 1 /\ Len(records) \in Nat
        /\ \A i \in 1..Len(records) : Append(records, k)[i] = records[i]
        /\ Append(records, k)[Len(records) + 1] = k
    OBVIOUS
  <1>. QED
    BY <1>1 DEF Ahead

\* What a consumer has settled is a length of the log.
LEMMA PastIsOfLog ==
    ASSUME Inv, NEW c \in Consumers, pc[c] # "idle"
    PROVE  Past(c) \in 0..Len(log)
  <1>1. at[c] \in 0..Len(log) /\ at[c] # 0 /\ Len(log) \in Nat
    BY DEF Inv, TypeOK, Working, InHand
  <1>. QED
    BY <1>1 DEF Past

LEMMA PromisesMove ==
    ASSUME Inv, Promises, SnapshotsAreOld', NewPromisesKept, RecordsKept,
           UNCHANGED <<committed, pc, at>>
    PROVE  Promises'
  <1>1. ASSUME NEW m \in Msgs, NEW n \in 0..Len(log), Promised(m)',
               Promised(m) => Kept(m) \/ Ahead(m, log, n)
        PROVE  Kept(m)' \/ Ahead(m, log', n)
    <2>1. CASE Kept(m)'
      BY <2>1
    <2>2. CASE ~Kept(m)'
      <3>1. Kept(m) \/ Ahead(m, log, n)
        BY <1>1, <2>2 DEF NewPromisesKept
      <3>2. CASE log' = log /\ ~Kept(m)
        BY <3>1, <3>2
      <3>3. ASSUME NEW k \in Msgs, log' = Append(log, k), Kept(m) => m = k
            PROVE  Ahead(m, log', n)
        <4>1. log \in Seq(Msgs)
          BY DEF Inv, TypeOK
        <4>2. /\ Ahead(m, log, n) => Ahead(m, Append(log, k), n)
              /\ Ahead(k, Append(log, k), n)
          BY <4>1, AheadGrows
        <4>. QED
          BY <3>1, <3>3, <4>2
      <3>. QED
        BY <2>2, <3>2, <3>3 DEF RecordsKept
    <2>. QED
      BY <2>1, <2>2
  <1>2. PromisesAreKept'
    <2>1. committed \in 0..Len(log)
      BY DEF Inv, TypeOK
    <2>2. ASSUME NEW m \in Msgs, Promised(m)'
          PROVE  Kept(m)' \/ Ahead(m, log', committed)
      BY <1>1, <2>1, <2>2 DEF Promises, PromisesAreKept
    <2>. QED
      BY <2>2 DEF PromisesAreKept
  <1>3. PromisesAreAhead'
    <2>1. ASSUME NEW c \in Consumers, NEW m \in Msgs, pc[c] # "idle", Promised(m)'
          PROVE  Kept(m)' \/ Ahead(m, log', Past(c))
      BY <1>1, <2>1, PastIsOfLog DEF Promises, PromisesAreAhead
    <2>2. \A c \in Consumers : Past(c)' = Past(c)
      BY DEF Past
    <2>. QED
      BY <2>1, <2>2 DEF PromisesAreAhead
  <1>. QED
    BY <1>2, <1>3 DEF Promises

\* The steps of a consumer that touch no promise.
LEMMA PromisesStay ==
    ASSUME Inv, Promises, UNCHANGED <<event, batch, todo, buffer, log, committed, dropped>>,
           \A c \in Consumers :
              pc'[c] # "idle" => \/ pc[c] # "idle" /\ Past(c)' = Past(c)
                                 \/ Past(c)' = committed
    PROVE  Promises'
  <1>1. \A m \in Msgs : (Promised(m)' <=> Promised(m)) /\ (Kept(m)' <=> Kept(m))
    BY DEF Promised, Kept
  <1>2. SnapshotsAreOld'
    BY DEF Promises, SnapshotsAreOld
  <1>3. PromisesAreKept'
    BY <1>1 DEF Promises, PromisesAreKept, Ahead
  <1>4. ASSUME NEW c \in Consumers, NEW m \in Msgs, pc'[c] # "idle", Promised(m)'
        PROVE  Kept(m)' \/ Ahead(m, log', Past(c)')
    BY <1>1, <1>4 DEF Promises, PromisesAreKept, PromisesAreAhead
  <1>5. PromisesAreAhead'
    BY <1>4 DEF PromisesAreAhead
  <1>. QED
    BY <1>2, <1>3, <1>5 DEF Promises

\* The stamps of a row only grow, and a failure that is written as one has a
\* new stamp.
LEMMA FailedStamps ==
    ASSUME NEW row \in Rows, NEW n \in Nat
    PROVE  /\ FailedRow(row, n).stamp \in Nat /\ row.stamp <= FailedRow(row, n).stamp
           /\ FailedRow(row, n).status = "failed" => row.stamp < FailedRow(row, n).stamp
  <1>1. row.stamp + 1 \in Nat /\ n + 1 \in Nat /\ row.stamp \in Nat
    BY RowFields
  <1>2. CASE n + 1 < MaxAttempts
    BY <1>1, <1>2 DEF FailedRow
  <1>3. CASE ~(n + 1 < MaxAttempts)
    <2>1. FailedRow(row, n) = [row EXCEPT !.status = "dead", !.attempts = n + 1]
      BY <1>3 DEF FailedRow
    <2>. QED
      BY <1>1, <2>1 DEF Rows
  <1>. QED
    BY <1>2, <1>3

\* So does a flush; one that leaves the status as it was may leave the stamp.
LEMMA FlushedStamps ==
    ASSUME NEW row \in Rows, NEW loaded \in Rows
    PROVE  /\ Flushed(row, loaded).stamp \in Nat /\ row.stamp <= Flushed(row, loaded).stamp
           /\ \/ Flushed(row, loaded).status = row.status
              \/ Flushed(row, loaded).status = "dead"
              \/ /\ Flushed(row, loaded).status = "failed"
                 /\ row.stamp < Flushed(row, loaded).stamp
  <1>. DEFINE new == FailedRow(row, loaded.attempts)
  <1>1. /\ new \in Rows /\ new.status \in {"failed", "dead"}
        /\ new.stamp \in Nat /\ row.stamp <= new.stamp
        /\ new.status = "failed" => row.stamp < new.stamp
    BY FailedIsRow, FailedStamps, RowFields
  <1>. HIDE DEF new
  <1>2. Flushed(row, loaded) =
          IF new.status = loaded.status THEN [new EXCEPT !.status = row.status] ELSE new
    BY DEF Flushed, new
  <1>3. [new EXCEPT !.status = row.status].stamp = new.stamp
        /\ [new EXCEPT !.status = row.status].status = row.status
    BY <1>1 DEF Rows
  <1>. QED
    BY <1>1, <1>2, <1>3

LEMMA ReceivePromises ==
    ASSUME Inv, Promises, NEW k \in Msgs, Receive(k) \/ BackoffPasses(k)
    PROVE  Promises'
  <1>. USE DEF outboxVars, kafkaVars, consumerVars, replyVars, anomalies
  <1>1. event \in [Msgs -> Rows] /\ event[k] \in Rows
    BY DEF Inv, TypeOK
  <1>2. /\ UNCHANGED <<batch, todo, buffer, log, committed, dropped, pc, at>>
        /\ \A m \in Msgs : /\ event'[m].stamp = event[m].stamp
                           /\ \/ event'[m].status = event[m].status
                              \/ event[m].status = "absent" /\ event'[m].status = "pending"
    <2>1. CASE Receive(k)
      <3>1. event' = [event EXCEPT ![k] = [event[k] EXCEPT !.status = "pending", !.due = TRUE]]
        BY <2>1 DEF Receive
      <3>2. /\ [event[k] EXCEPT !.status = "pending", !.due = TRUE].stamp = event[k].stamp
            /\ [event[k] EXCEPT !.status = "pending", !.due = TRUE].status = "pending"
        BY <1>1 DEF Rows
      <3>. QED
        BY <1>1, <2>1, <3>1, <3>2 DEF Receive
    <2>2. CASE BackoffPasses(k)
      <3>1. event' = [event EXCEPT ![k] = [event[k] EXCEPT !.due = TRUE]]
        BY <2>2 DEF BackoffPasses
      <3>2. /\ [event[k] EXCEPT !.due = TRUE].stamp = event[k].stamp
            /\ [event[k] EXCEPT !.due = TRUE].status = event[k].status
        BY <1>1 DEF Rows
      <3>. QED
        BY <1>1, <2>2, <3>1, <3>2 DEF BackoffPasses
    <2>. QED
      BY <2>1, <2>2
  <1>3. \A r \in Relays, m \in Msgs : event[m].status = "absent" => batch[r][m] = NoRow
    BY DEF Promises, SnapshotsAreOld
  <1>4. SnapshotsAreOld'
    BY <1>2 DEF Promises, SnapshotsAreOld
  <1>5. NewPromisesKept
    BY <1>2, <1>3 DEF NewPromisesKept, Promised
  <1>6. RecordsKept
    BY <1>2 DEF RecordsKept, Kept
  <1>. QED
    BY <1>2, <1>4, <1>5, <1>6, PromisesMove

LEMMA FetchPromises ==
    ASSUME Inv, Promises, NEW r \in Relays, Fetch(r)
    PROVE  Promises'
  <1>. USE DEF outboxVars, kafkaVars, consumerVars, replyVars, anomalies
  <1>1. /\ UNCHANGED <<event, buffer, log, committed, dropped, pc, at>>
        /\ batch' = [batch EXCEPT ![r] = [m \in Msgs |-> IF m \in Eligible THEN event[m] ELSE NoRow]]
        /\ todo' = [todo EXCEPT ![r] = Eligible]
    BY DEF Fetch
  <1>2. /\ \A m \in Msgs : \/ m \in todo'[r] /\ batch'[r][m] = event[m]
                           \/ batch'[r][m] = NoRow
        /\ \A q \in Relays : q # r => batch'[q] = batch[q] /\ todo'[q] = todo[q]
        /\ \A m \in todo'[r] : m \in Msgs /\ event[m].status # "absent"
    BY <1>1 DEF Inv, TypeOK, Eligible
  <1>3. \A m \in Msgs : event[m].stamp \in Nat
    BY RowFields DEF Inv, TypeOK
  <1>4. SnapshotsAreOld'
    BY <1>1, <1>2, <1>3 DEF Promises, SnapshotsAreOld, NoRow
  <1>5. NewPromisesKept
    BY <1>1, <1>2 DEF NewPromisesKept, Promised
  <1>6. RecordsKept
    BY <1>1 DEF RecordsKept, Kept
  <1>. QED
    BY <1>1, <1>4, <1>5, <1>6, PromisesMove

LEMMA HandPromises ==
    ASSUME Inv, Promises, NEW r \in Relays, Hand(r)
    PROVE  Promises'
  <1>. USE DEF outboxVars, kafkaVars, consumerVars, replyVars, anomalies
  <1>1. PICK k \in Msgs : /\ buffer' = [buffer EXCEPT ![r] = Append(@, k)]
                          /\ todo' = [todo EXCEPT ![r] = @ \ {k}]
    BY DEF Hand
  <1>2. UNCHANGED <<event, batch, log, committed, dropped, pc, at>>
    BY DEF Hand
  <1>3. /\ k \in ToSet(buffer'[r])
        /\ \A q \in Relays : \A m \in ToSet(buffer[q]) : m \in ToSet(buffer'[q])
    <2>1. buffer[r] \in Seq(Msgs) /\ buffer'[r] = Append(buffer[r], k)
      BY <1>1 DEF Inv, TypeOK
    <2>2. \A q \in Relays : q # r => buffer'[q] = buffer[q]
      BY <1>1 DEF Inv, TypeOK
    <2>3. /\ Len(buffer'[r]) = Len(buffer[r]) + 1 /\ Len(buffer[r]) \in Nat
          /\ buffer'[r][Len(buffer[r]) + 1] = k
          /\ \A i \in 1..Len(buffer[r]) : buffer'[r][i] = buffer[r][i]
          /\ DOMAIN buffer'[r] = 1..Len(buffer[r]) + 1 /\ DOMAIN buffer[r] = 1..Len(buffer[r])
      BY <2>1
    <2>4. k \in ToSet(buffer'[r])
      BY <2>3 DEF ToSet
    <2>5. \A m \in ToSet(buffer[r]) : m \in ToSet(buffer'[r])
      BY <2>3 DEF ToSet
    <2>. QED
      BY <2>2, <2>4, <2>5
  <1>4. \A q \in Relays, m \in Msgs : m \notin todo'[q] => m \notin todo[q] \/ m = k
    BY <1>1 DEF Inv, TypeOK
  <1>5. SnapshotsAreOld'
    BY <1>2 DEF Promises, SnapshotsAreOld
  <1>6. NewPromisesKept
    BY <1>2, <1>3, <1>4 DEF NewPromisesKept, Promised, Kept
  <1>7. RecordsKept
    BY <1>2, <1>3 DEF RecordsKept, Kept
  <1>. QED
    BY <1>2, <1>5, <1>6, <1>7, PromisesMove

LEMMA MarkFailedPromises ==
    ASSUME Inv, Promises, NEW r \in Relays, MarkFailed(r)
    PROVE  Promises'
  <1>. USE DEF outboxVars, kafkaVars, consumerVars, replyVars, anomalies
  <1>1. PICK k \in Msgs : /\ event' = [event EXCEPT ![k] = Flushed(event[k], seen[r])]
                          /\ todo' = [todo EXCEPT ![r] = @ \ {k}]
                          /\ batch' = [batch EXCEPT ![r][k] = NoRow]
    BY DEF MarkFailed
  <1>2. UNCHANGED <<buffer, log, committed, dropped, pc, at>>
    BY DEF MarkFailed
  <1>3. event[k] \in Rows /\ seen[r] \in Rows /\ event[k].stamp \in Nat
    BY RowFields DEF Inv, TypeOK
  <1>4. /\ event[k].stamp <= event'[k].stamp /\ event'[k].stamp \in Nat
        /\ \/ event'[k].status = event[k].status
           \/ event'[k].status = "dead"
           \/ event'[k].status = "failed" /\ event[k].stamp < event'[k].stamp
    BY <1>1, <1>3, FlushedStamps DEF Inv, TypeOK
  <1>5. \A m \in Msgs : m # k => event'[m] = event[m]
    BY <1>1 DEF Inv, TypeOK
  <1>6. /\ \A q \in Relays, m \in Msgs : batch'[q][m] = NoRow \/ batch'[q][m] = batch[q][m]
        /\ batch'[r][k] = NoRow
        /\ \A q \in Relays, m \in Msgs : m \notin todo'[q] => (m \notin todo[q]) \/ (m = k /\ q = r)
    BY <1>1 DEF Inv, TypeOK
  <1>7. \A q \in Relays, m \in Msgs : batch[q][m].stamp \in Nat /\ event[m].stamp \in Nat
    BY RowFields DEF Inv, TypeOK
  <1>8. SnapshotsAreOld'
    BY <1>3, <1>4, <1>5, <1>6, <1>7 DEF Promises, SnapshotsAreOld, NoRow
  <1>9. ASSUME NEW m \in Msgs, Promised(m)' PROVE Promised(m)
    <2>1. CASE m # k
      BY <1>5, <1>6, <1>9, <2>1 DEF Promised
    <2>2. CASE m = k /\ event'[k].status = "published"
      BY <1>4, <2>2 DEF Promised
    <2>3. CASE m = k /\ event'[k].status # "published"
      <3>1. PICK q \in Relays : /\ batch'[q][k] # NoRow /\ k \notin todo'[q]
                                /\ batch'[q][k].stamp = event'[k].stamp
                                /\ event'[k].status \in {"pending", "failed"}
        BY <1>9, <2>3 DEF Promised
      <3>2. batch'[q][k] = batch[q][k] /\ k \notin todo[q]
        BY <1>6, <3>1
      <3>3. batch[q][k].stamp <= event[k].stamp
        BY DEF Promises, SnapshotsAreOld
      <3>4. event'[k].stamp = event[k].stamp
        BY <1>4, <1>7, <3>1, <3>2, <3>3
      <3>5. event'[k].status = event[k].status
        BY <1>3, <1>4, <3>1, <3>4
      <3>. QED
        BY <2>3, <3>1, <3>2, <3>4, <3>5 DEF Promised
    <2>. QED
      BY <2>1, <2>2, <2>3
  <1>10. NewPromisesKept
    BY <1>9 DEF NewPromisesKept
  <1>11. RecordsKept
    BY <1>2 DEF RecordsKept, Kept
  <1>. QED
    BY <1>2, <1>8, <1>10, <1>11, PromisesMove

\* The compare-and-set publishes only the events that were promised.
LEMMA MarkPublishedPromises ==
    ASSUME Inv, Promises, NEW r \in Relays, MarkPublished(r)
    PROVE  Promises'
  <1>. USE DEF outboxVars, kafkaVars, consumerVars, replyVars, anomalies
  <1>1. /\ UNCHANGED <<buffer, log, committed, dropped, pc, at, todo>>
        /\ todo[r] = {} /\ batch' = [batch EXCEPT ![r] = NoBatch]
    BY DEF MarkPublished
  <1>2. \A m \in Msgs : /\ [event[m] EXCEPT !.status = "published"].stamp = event[m].stamp
                        /\ [event[m] EXCEPT !.status = "published"].status = "published"
    BY DEF Inv, TypeOK, Rows
  <1>3. \A m \in Msgs :
          /\ event'[m].stamp = event[m].stamp
          /\ \/ event'[m] = event[m]
             \/ event'[m].status = "published" /\ Promised(m)
    BY <1>1, <1>2 DEF MarkPublished, Unmoved, Promised
  <1>4. \A q \in Relays, m \in Msgs : batch'[q][m] = NoRow \/ batch'[q][m] = batch[q][m]
    BY <1>1 DEF Inv, TypeOK, NoBatch
  <1>5. \A m \in Msgs : event[m].stamp \in Nat
    BY RowFields DEF Inv, TypeOK
  <1>6. SnapshotsAreOld'
    BY <1>3, <1>4, <1>5 DEF Promises, SnapshotsAreOld, NoRow
  <1>7. NewPromisesKept
    BY <1>1, <1>3, <1>4 DEF NewPromisesKept, Promised
  <1>8. RecordsKept
    BY <1>1 DEF RecordsKept, Kept
  <1>. QED
    BY <1>1, <1>6, <1>7, <1>8, PromisesMove

\* A record leaves its producer for the log, or is given up.
LEMMA ProducerPromises ==
    ASSUME Inv, Promises, NEW r \in Relays, Flush(r) \/ RecordExpires(r) \/ RelayCrash(r)
    PROVE  Promises'
  <1>. USE DEF outboxVars, kafkaVars, consumerVars, replyVars, anomalies
  <1>1. UNCHANGED <<event, committed, pc, at>>
    BY DEF Flush, RecordExpires, RelayCrash
  <1>2. \A q \in Relays, m \in Msgs :
          \/ batch'[q][m] = NoRow
          \/ batch'[q][m] = batch[q][m] /\ todo'[q] = todo[q]
    <2>1. CASE UNCHANGED <<batch, todo>>
      BY <2>1
    <2>2. CASE RelayCrash(r)
      <3>1. /\ batch' = [batch EXCEPT ![r] = NoBatch] /\ todo' = [todo EXCEPT ![r] = {}]
            /\ \A m \in Msgs : NoBatch[m] = NoRow
        BY <2>2 DEF RelayCrash, NoBatch
      <3>. QED
        BY <3>1 DEF Inv, TypeOK
    <2>. QED
      BY <2>1, <2>2 DEF Flush, RecordExpires
  <1>3. \A m \in Msgs : event[m].stamp \in Nat
    BY RowFields DEF Inv, TypeOK
  <1>4. SnapshotsAreOld'
    BY <1>1, <1>2, <1>3 DEF Promises, SnapshotsAreOld, NoRow
  <1>5. NewPromisesKept
    BY <1>1, <1>2 DEF NewPromisesKept, Promised
  <1>6. RecordsKept
    <2>1. \A q \in Relays : buffer[q] \in Seq(Msgs)
      BY DEF Inv, TypeOK
    <2>2. ASSUME buffer[r] # <<>>
          PROVE  /\ Head(buffer[r]) \in Msgs
                 /\ \A m \in ToSet(buffer[r]) : m = Head(buffer[r]) \/ m \in ToSet(Tail(buffer[r]))
      <3>1. Len(buffer[r]) \in Nat /\ Len(buffer[r]) # 0 /\ DOMAIN buffer[r] = 1..Len(buffer[r])
        BY <2>1, <2>2
      <3>2. /\ Head(buffer[r]) = buffer[r][1] /\ Head(buffer[r]) \in Msgs
            /\ DOMAIN Tail(buffer[r]) = 1..(Len(buffer[r]) - 1)
            /\ \A i \in 1..(Len(buffer[r]) - 1) : Tail(buffer[r])[i] = buffer[r][i + 1]
        BY <2>1, <2>2
      <3>3. ASSUME NEW i \in 1..Len(buffer[r]), i # 1
            PROVE  buffer[r][i] \in ToSet(Tail(buffer[r]))
        <4>1. i - 1 \in 1..(Len(buffer[r]) - 1)
          BY <3>1, <3>3
        <4>2. Tail(buffer[r])[i - 1] = buffer[r][i]
          BY <3>2, <4>1
        <4>. QED
          BY <3>2, <4>1, <4>2 DEF ToSet
      <3>. QED
        BY <3>1, <3>2, <3>3 DEF ToSet
    <2>3. CASE Flush(r)
      BY <2>1, <2>2, <2>3 DEF Flush, RecordsKept, Kept, Inv, TypeOK
    <2>4. CASE RecordExpires(r)
      BY <2>1, <2>2, <2>4 DEF RecordExpires, RecordsKept, Kept, Inv, TypeOK
    <2>5. CASE RelayCrash(r)
      BY <2>1, <2>5 DEF RelayCrash, RecordsKept, Kept, Inv, TypeOK
    <2>. QED
      BY <2>3, <2>4, <2>5
  <1>. QED
    BY <1>1, <1>4, <1>5, <1>6, PromisesMove

\* A consumer that writes the outcome of its record breaks off every promise
\* made before: the status is final, or the stamp is new.
LEMMA OutcomePromises ==
    ASSUME Inv, Promises, NEW c \in Consumers, MarkSent(c) \/ MarkAmbiguous(c) \/ MarkRetry(c)
    PROVE  Promises'
  <1>. USE DEF outboxVars, kafkaVars, replyVars, anomalies
  <1>1. pc[c] # "idle" /\ at[c] # 0
    BY DEF MarkSent, MarkAmbiguous, MarkRetry, Inv, Working, InHand
  <1>2. PICK k \in Msgs : k = Msg(c) /\ k = log[at[c]] /\ at[c] \in 1..Len(log) /\ Len(log) \in Nat
    BY <1>1, MessageOf DEF Inv, Msg, TypeOK
  <1>3. event[k] \in Rows /\ event[k].stamp \in Nat
    BY <1>2, RowFields DEF Inv, TypeOK
  <1>4. /\ UNCHANGED <<batch, todo, buffer, log, committed, dropped, at>>
        /\ pc'[c] = "commit" /\ \A d \in Consumers : d # c => pc'[d] = pc[d]
    BY DEF MarkSent, MarkAmbiguous, MarkRetry, Goto, Inv, TypeOK
  <1>5. \A m \in Msgs : m # k => event'[m] = event[m]
    BY <1>2 DEF MarkSent, MarkAmbiguous, MarkRetry, Inv, TypeOK
  <1>6. /\ event'[k].stamp \in Nat /\ event[k].stamp <= event'[k].stamp
        /\ \/ event'[k].status \in {"sent", "ambiguous", "dead"}
           \/ event'[k].status = "failed" /\ event[k].stamp < event'[k].stamp
    <2>1. CASE MarkSent(c)
      <3>1. event' = [event EXCEPT ![k] = [event[k] EXCEPT !.status = "sent"]]
        BY <1>2, <2>1 DEF MarkSent
      <3>2. /\ [event[k] EXCEPT !.status = "sent"].status = "sent"
            /\ [event[k] EXCEPT !.status = "sent"].stamp = event[k].stamp
        BY <1>3 DEF Rows
      <3>. QED
        BY <1>2, <1>3, <3>1, <3>2 DEF Inv, TypeOK
    <2>2. CASE MarkAmbiguous(c)
      <3>1. event' = [event EXCEPT ![k] = [event[k] EXCEPT !.status = "ambiguous"]]
        BY <1>2, <2>2 DEF MarkAmbiguous
      <3>2. /\ [event[k] EXCEPT !.status = "ambiguous"].status = "ambiguous"
            /\ [event[k] EXCEPT !.status = "ambiguous"].stamp = event[k].stamp
        BY <1>3 DEF Rows
      <3>. QED
        BY <1>2, <1>3, <3>1, <3>2 DEF Inv, TypeOK
    <2>3. CASE MarkRetry(c)
      <3>1. event'[k] = FailedRow(event[k], seen[c].attempts)
        BY <1>2, <2>3 DEF MarkRetry, Inv, TypeOK
      <3>2. seen[c].attempts \in Nat
        BY RowFields DEF Inv, TypeOK
      <3>. QED
        BY <1>3, <3>1, <3>2, FailedIsRow, FailedStamps
    <2>. QED
      BY <2>1, <2>2, <2>3
  <1>7. \A r \in Relays, m \in Msgs : batch[r][m].stamp \in Nat /\ event[m].stamp \in Nat
    BY RowFields DEF Inv, TypeOK
  <1>8. SnapshotsAreOld'
    BY <1>2, <1>4, <1>5, <1>6, <1>7 DEF Promises, SnapshotsAreOld
  <1>9. ~Promised(k)'
    BY <1>2, <1>4, <1>6, <1>7 DEF Promises, SnapshotsAreOld, Promised
  <1>10. \A m \in Msgs : /\ Promised(m)' => Promised(m) /\ m # k
                         /\ Kept(m)' <=> Kept(m)
    BY <1>4, <1>5, <1>9 DEF Promised, Kept
  <1>11. PromisesAreKept'
    BY <1>4, <1>10 DEF Promises, PromisesAreKept, Ahead
  <1>12. ASSUME NEW d \in Consumers, NEW m \in Msgs, pc'[d] # "idle", Promised(m)'
         PROVE  Kept(m)' \/ Ahead(m, log, Past(d)')
    <2>1. CASE d # c
      <3>1. Past(d)' = Past(d)
        BY <1>4, <2>1 DEF Past
      <3>. QED
        BY <1>4, <1>10, <1>12, <2>1, <3>1 DEF Promises, PromisesAreAhead
    <2>2. CASE d = c
      <3>1. Past(c)' = at[c] /\ Past(c) = at[c] - 1
        BY <1>4 DEF MarkSent, MarkAmbiguous, MarkRetry, Past
      <3>2. Kept(m) \/ Ahead(m, log, at[c] - 1)
        BY <1>1, <1>10, <1>12, <3>1 DEF Promises, PromisesAreAhead
      <3>3. Ahead(m, log, at[c] - 1) => Ahead(m, log, at[c])
        BY <1>2, <1>10, <1>12 DEF Ahead
      <3>. QED
        BY <1>10, <2>2, <3>1, <3>2, <3>3
    <2>. QED
      BY <2>1, <2>2
  <1>13. PromisesAreAhead'
    BY <1>4, <1>12 DEF PromisesAreAhead
  <1>. QED
    BY <1>8, <1>11, <1>13 DEF Promises

\* A commit leaves behind nothing that was promised.
LEMMA CommitPromises ==
    ASSUME Inv, Promises, NEW c \in Consumers, Commit(c)
    PROVE  Promises'
  <1>. USE DEF outboxVars, kafkaVars, replyVars, anomalies
  <1>1. /\ UNCHANGED <<event, batch, todo, buffer, log, dropped>>
        /\ pc'[c] = "idle"
        /\ \A d \in Consumers : d # c => pc'[d] = pc[d] /\ at'[d] = at[d]
    BY ForgetMoves DEF Commit, Inv
  <1>2. committed' = committed \/ (committed' = Past(c) /\ pc[c] # "idle")
    BY DEF Commit, Past
  <1>3. \A m \in Msgs : (Promised(m)' <=> Promised(m)) /\ (Kept(m)' <=> Kept(m))
    BY <1>1 DEF Promised, Kept
  <1>4. SnapshotsAreOld'
    BY <1>1 DEF Promises, SnapshotsAreOld
  <1>5. ASSUME NEW m \in Msgs, Promised(m)' PROVE Kept(m)' \/ Ahead(m, log, committed')
    BY <1>2, <1>3, <1>5 DEF Promises, PromisesAreKept, PromisesAreAhead
  <1>6. PromisesAreKept'
    BY <1>1, <1>5 DEF PromisesAreKept
  <1>7. ASSUME NEW d \in Consumers, NEW m \in Msgs, pc'[d] # "idle", Promised(m)'
        PROVE  Kept(m)' \/ Ahead(m, log, Past(d)')
    <2>1. pc[d] # "idle" /\ Past(d)' = Past(d)
      BY <1>1, <1>7 DEF Past
    <2>. QED
      BY <1>3, <1>7, <2>1 DEF Promises, PromisesAreAhead
  <1>8. PromisesAreAhead'
    BY <1>1, <1>7 DEF PromisesAreAhead
  <1>. QED
    BY <1>4, <1>6, <1>8 DEF Promises

\* Every other step of a consumer, and a person's.
LEMMA HandlerPromises ==
    ASSUME Inv, Promises, NEW c \in Consumers,
           \/ Poll(c) \/ Drop(c) \/ Lookup(c) \/ Store(c) \/ ReplyStep(c)
           \/ ReadAttempts(c) \/ AfterReplyFails(c) \/ ConsumerCrash(c) \/ Evict(c)
    PROVE  Promises'
  <1>. USE DEF outboxVars, kafkaVars, replyVars, anomalies, HandlerOnly
  <1>1. UNCHANGED <<event, batch, todo, buffer, log, committed, dropped>>
    <2>1. CASE ReplyStep(c)
      BY <2>1 DEF ReplyStep, Withhold, StaySilent, SystemLine, GenerationFails, Compose,
         ShortCircuit, VoiceSent, VoiceFails, SendPart, SendAmbiguous, SendTransient,
         SendPermanent, RecordPart, CloseReply
    <2>. QED
      BY <2>1
      DEF Poll, Drop, Lookup, Store, ReadAttempts, AfterReplyFails, ConsumerCrash, Evict
  <1>2. \/ Poll(c)
        \/ /\ at' = at
           /\ pc' = pc \/ \E l \in Labels \ {"commit"} :
                            Goto(c, l) /\ pc[c] \notin {"idle", "commit"}
        \/ ConsumerCrash(c)
    <2>1. CASE ReplyStep(c)
      BY <2>1 DEF ReplyStep, Withhold, StaySilent, SystemLine, GenerationFails, Compose,
         ShortCircuit, VoiceSent, VoiceFails, SendPart, SendAmbiguous, SendTransient,
         SendPermanent, RecordPart, CloseReply, Labels
    <2>. QED
      BY <2>1
      DEF Drop, Lookup, Store, ReadAttempts, AfterReplyFails, Evict, consumerVars, Labels
  <1>3. ASSUME NEW d \in Consumers, pc'[d] # "idle"
        PROVE  (pc[d] # "idle" /\ Past(d)' = Past(d)) \/ Past(d)' = committed
    <2>1. CASE Poll(c)
      <3>1. /\ at'[c] = committed + 1 /\ pc'[c] = "lookup" /\ committed \in Nat
            /\ \A e \in Consumers : e # c => pc'[e] = pc[e] /\ at'[e] = at[e]
        BY <2>1 DEF Poll, Goto, Inv, TypeOK
      <3>. QED
        BY <1>3, <3>1 DEF Past
    <2>2. CASE at' = at /\ pc' = pc
      BY <1>3, <2>2 DEF Past
    <2>3. ASSUME NEW l \in Labels \ {"commit"}, at' = at, Goto(c, l),
                 pc[c] \notin {"idle", "commit"}
          PROVE  pc[d] # "idle" /\ Past(d)' = Past(d)
      BY <1>3, <2>3, GotoMoves DEF Past, Inv
    <2>4. CASE ConsumerCrash(c)
      BY <1>3, <2>4, ForgetMoves DEF ConsumerCrash, Past, Inv
    <2>. QED
      BY <1>2, <2>1, <2>2, <2>3, <2>4
  <1>. QED
    BY <1>1, <1>3, PromisesStay

LEMMA PromisesInit == Init => Promises
  <1>. SUFFICES ASSUME Init PROVE Promises
    OBVIOUS
  <1>1. /\ \A m \in Msgs : event[m] = NoRow
        /\ \A r \in Relays, m \in Msgs : batch[r][m] = NoRow
        /\ \A c \in Consumers : pc[c] = "idle"
    BY DEF Init, NoBatch
  <1>2. NoRow.status = "absent" /\ NoRow.stamp = 0
    BY DEF NoRow
  <1>. QED
    BY <1>1, <1>2 DEF Promises, SnapshotsAreOld, PromisesAreKept, PromisesAreAhead, Promised

LEMMA PromisesStep == Inv /\ Promises /\ [Next]_vars => Promises'
  <1>. SUFFICES ASSUME Inv, Promises, [Next]_vars PROVE Promises'
    OBVIOUS
  <1>1. CASE UNCHANGED vars
    <2>1. UNCHANGED <<event, batch, todo, buffer, log, committed, dropped, pc, at>>
      BY <1>1 DEF vars, outboxVars, kafkaVars, consumerVars
    <2>. QED
      BY <2>1, PromisesStay DEF Past
  <1>2. CASE HumanReplies
    <2>1. UNCHANGED <<event, batch, todo, buffer, log, committed, dropped, pc, at>>
      BY <1>2 DEF HumanReplies, HandlerOnly, outboxVars, kafkaVars, consumerVars
    <2>. QED
      BY <2>1, PromisesStay DEF Past
  <1>3. ASSUME NEW r \in Relays, SendRaises(r) PROVE Promises'
    <2>1. UNCHANGED <<event, batch, todo, buffer, log, committed, dropped, pc, at>>
      BY <1>3 DEF SendRaises, kafkaVars, consumerVars
    <2>. QED
      BY <2>1, PromisesStay DEF Past
  <1>. QED
    BY <1>1, <1>2, <1>3, ReceivePromises, FetchPromises, HandPromises, MarkFailedPromises,
       MarkPublishedPromises, ProducerPromises, OutcomePromises, CommitPromises,
       HandlerPromises
    DEF Next, RelayStep, ConsumerStep

\* An event shown as published still has a record under way, in a producer or
\* in the part of the partition the group has not settled, unless a producer
\* lost it: the relay's compare-and-set never publishes what a consumer has
\* closed or retried meanwhile.
THEOREM PublishedEventsAreInFlight == Spec => []PublishedIsInFlight
  <1>1. Promises => PublishedIsInFlight
    BY DEF Promises, PromisesAreKept, Promised, Kept, Ahead, PublishedIsInFlight
  <1>. QED
    BY <1>1, InvariantHolds, PromisesInit, PromisesStep, PTL DEF Spec

-----------------------------------------------------------------------------
(* Copies of a part                                                        *)

\* The part's outbound row is the next thing to be written.
UnderWay(p) == pc[owner] = "record" /\ Part(owner) = p

\* As long as nobody was evicted, only the owner of the partition works; from
\* the part it is at there are no rows yet; a part has one row at most; and a
\* copy that left no row, and is not about to, is known as lost.
OwnerAlone == \A c \in Consumers : pc[c] # "idle" => owner = c
PartsAreNew ==
    /\ pc[owner] = "decide" => \A i \in 1..MaxParts : recorded[<<Msg(owner), i>>] = 0
    /\ pc[owner] \in {"voice", "send", "record"} =>
          \A i \in part[owner]..MaxParts : recorded[<<Msg(owner), i>>] = 0
RowsAreSingle == \A p \in Parts : recorded[p] <= 1
CopiesAreCounted ==
    \A p \in Parts : p \notin lost =>
        delivered[p] = recorded[p] + (IF UnderWay(p) THEN 1 ELSE 0)
Single == OwnerAlone /\ PartsAreNew /\ RowsAreSingle /\ CopiesAreCounted

AnsweredIsStored == answered \subseteq Stored
RecordedIsAnswered == \A p \in Parts : recorded[p] > 0 => p[1] \in answered

Counted ==
    /\ AnsweredIsStored /\ RecordedIsAnswered
    /\ ~overlapped => Single

\* A message that was never answered has no part in the outbox.
LEMMA UnansweredHasNoRows ==
    ASSUME Inv, Counted, NEW m \in Msgs, m \notin answered, NEW i \in 1..MaxParts
    PROVE  recorded[<<m, i>>] = 0
  <1>1. <<m, i>> \in Parts /\ <<m, i>>[1] = m
    BY DEF Parts
  <1>2. recorded[<<m, i>>] \in Nat
    BY <1>1 DEF Inv, TypeOK
  <1>. QED
    BY <1>1, <1>2 DEF Counted, RecordedIsAnswered

\* The consumer that takes a step is the owner.
LEMMA ActorIsOwner ==
    ASSUME Inv, Counted, ~overlapped, NEW c \in Consumers, pc[c] # "idle"
    PROVE  owner = c
  BY DEF Counted, Single, OwnerAlone

\* The steps of a consumer that neither send nor record, and that end outside
\* the reply or at its start.
LEMMA QuietCounted ==
    ASSUME Inv, Counted, NEW c \in Consumers, Forward, pc[c] # "idle" \/ owner = c,
           UNCHANGED <<recorded, delivered, lost, overlapped, owner, log>>,
           answered' = answered \/ answered' = answered \cup Stored,
           \A d \in Consumers : d # c => pc'[d] = pc[d],
           pc[c] # "record",
           \/ pc'[c] \notin {"decide", "voice", "send", "record"}
           \/ overlapped
           \/ /\ at'[c] = at[c]
              /\ \/ /\ pc'[c] = "decide"
                    /\ \A i \in 1..MaxParts : recorded[<<Msg(c), i>>] = 0
                 \/ /\ pc'[c] \in {"voice", "send"}
                    /\ \A i \in part'[c]..MaxParts : recorded[<<Msg(c), i>>] = 0
    PROVE  Counted'
  <1>1. AnsweredIsStored' /\ RecordedIsAnswered'
    BY DEF Counted, AnsweredIsStored, RecordedIsAnswered, Stored, Forward, Inv, TypeOK
  <1>2. ASSUME ~overlapped PROVE Single'
    <2>1. owner = c /\ owner' = c
      BY <1>2, ActorIsOwner
    <2>2. OwnerAlone'
      BY <1>2, <2>1 DEF Counted, Single, OwnerAlone
    <2>3. PartsAreNew'
      BY <1>2, <2>1 DEF PartsAreNew, Msg
    <2>4. RowsAreSingle'
      BY <1>2 DEF Counted, Single, RowsAreSingle
    <2>5. \A p \in Parts : ~UnderWay(p) /\ ~UnderWay(p)'
      BY <1>2, <2>1 DEF UnderWay
    <2>6. CopiesAreCounted'
      BY <1>2, <2>5 DEF Counted, Single, CopiesAreCounted
    <2>. QED
      BY <2>2, <2>3, <2>4, <2>6 DEF Single
  <1>. QED
    BY <1>1, <1>2 DEF Counted

LEMMA LookupCounted ==
    ASSUME Inv, Counted, NEW c \in Consumers, Poll(c) \/ Drop(c) \/ Lookup(c) \/ Store(c)
    PROVE  Counted'
  <1>. USE DEF outboxVars, kafkaVars, replyVars, anomalies, HandlerOnly
  <1>1. /\ Forward /\ \A d \in Consumers : d # c => pc'[d] = pc[d]
        /\ pc \in [Consumers -> Labels] /\ TypeOK /\ InHand(c)
    BY LookupHandled DEF Inv, TypeOK, Working, Handled
  <1>2. UNCHANGED <<recorded, delivered, lost, overlapped, owner, log, answered>>
    BY DEF Poll, Drop, Lookup, Store
  <1>3. CASE Poll(c)
    <2>1. pc'[c] = "lookup" /\ owner = c /\ pc[c] = "idle"
      BY <1>1, <1>3 DEF Poll, Goto
    <2>. QED
      BY <1>1, <1>2, <2>1, QuietCounted
  <1>4. CASE Drop(c)
    <2>1. pc'[c] = "close" /\ pc[c] = "lookup"
      BY <1>1, <1>4 DEF Drop, Goto
    <2>. QED
      BY <1>1, <1>2, <2>1, QuietCounted
  <1>5. CASE Lookup(c) \/ Store(c)
    <2>1. /\ pc[c] \in {"lookup", "store"} /\ at' = at
          /\ \/ pc'[c] \in {"store", "close", "raised"}
             \/ pc'[c] = "decide" /\ Msg(c) \notin answered
      BY <1>1, <1>5
      DEF Lookup, Store, Goto, HasOutboundReply, Counted, AnsweredIsStored, Stored
    <2>2. Msg(c) \in Msgs
      BY <1>1, <2>1, MessageOf DEF InHand
    <2>3. Msg(c) \notin answered => \A i \in 1..MaxParts : recorded[<<Msg(c), i>>] = 0
      BY <2>2, UnansweredHasNoRows
    <2>. QED
      BY <1>1, <1>2, <2>1, <2>3, QuietCounted
  <1>. QED
    BY <1>3, <1>4, <1>5

\* The part a consumer is at, when nobody was evicted.
LEMMA PartAtHand ==
    ASSUME Inv, Counted, NEW c \in Consumers, pc[c] \in {"voice", "send", "record"}
    PROVE  /\ part[c] \in 1..MaxParts /\ Msg(c) \in Msgs /\ Part(c) \in Parts
           /\ Part(c) = <<Msg(c), part[c]>>
           /\ ~overlapped => /\ owner = c
                             /\ \A i \in part[c]..MaxParts : recorded[<<Msg(c), i>>] = 0
                             /\ recorded[Part(c)] = 0
  <1>1. at[c] # 0 /\ part[c] # 0 /\ TypeOK /\ InHand(c) /\ part[c] \in 0..MaxParts
    BY DEF Inv, Working, InHand, TypeOK
  <1>2. part[c] \in 1..MaxParts /\ Part(c) = <<Msg(c), part[c]>>
    BY <1>1, ConstantsAssumption DEF Part
  <1>3. Msg(c) \in Msgs /\ Part(c) \in Parts
    BY <1>1, MessageOf, PartOf
  <1>4. ASSUME ~overlapped
        PROVE  owner = c /\ \A i \in part[c]..MaxParts : recorded[<<Msg(c), i>>] = 0
    BY <1>4, ActorIsOwner DEF Counted, Single, PartsAreNew
  <1>5. part[c] \in part[c]..MaxParts
    BY <1>2, ConstantsAssumption
  <1>. QED
    BY <1>2, <1>3, <1>4, <1>5

LEMMA DecideCounted ==
    ASSUME Inv, Counted, NEW c \in Consumers,
           \/ Withhold(c) \/ StaySilent(c) \/ SystemLine(c)
           \/ GenerationFails(c) \/ Compose(c) \/ ShortCircuit(c)
    PROVE  Counted'
  <1>. USE DEF outboxVars, kafkaVars, replyVars, anomalies, HandlerOnly
  <1>1. Forward /\ \A d \in Consumers : d # c => pc'[d] = pc[d]
    BY DecideHandled DEF Inv, Working, Handled
  <1>2. /\ UNCHANGED <<recorded, delivered, lost, overlapped, owner, log, at>>
        /\ answered' = answered \/ answered' = answered \cup Stored
        /\ pc[c] = "decide"
    BY DEF Withhold, StaySilent, SystemLine, GenerationFails, Compose, ShortCircuit
  <1>3. /\ \A l \in Labels : Goto(c, l) => pc'[c] = l
        /\ part' = [part EXCEPT ![c] = 1] => part'[c] = 1
    BY GotoMoves DEF Inv, TypeOK
  <1>4. pc'[c] \in {"close", "raised"} \/ (pc'[c] \in {"voice", "send"} /\ part'[c] = 1)
    <2>1. CASE Compose(c) \/ ShortCircuit(c)
      <3>1. PICK l \in {"voice", "send"} : Goto(c, l) /\ l \in Labels
        BY <2>1 DEF Compose, ShortCircuit, Labels
      <3>2. part' = [part EXCEPT ![c] = 1]
        BY <2>1 DEF Compose, ShortCircuit
      <3>. QED
        BY <1>3, <3>1, <3>2
    <2>2. CASE Withhold(c) \/ StaySilent(c) \/ SystemLine(c) \/ GenerationFails(c)
      <3>1. Goto(c, "close") \/ Goto(c, "raised")
        BY <2>2 DEF Withhold, StaySilent, SystemLine, GenerationFails
      <3>. QED
        BY <1>3, <3>1 DEF Labels
    <2>. QED
      BY <2>1, <2>2
  <1>5. ~overlapped => \A i \in 1..MaxParts : recorded[<<Msg(c), i>>] = 0
    BY <1>2, ActorIsOwner DEF Counted, Single, PartsAreNew
  <1>. QED
    BY <1>1, <1>2, <1>4, <1>5, QuietCounted

\* A copy that nobody will record is known as lost.
LEMMA LostCounted ==
    ASSUME Inv, Counted, NEW c \in Consumers, VoiceFails(c) \/ SendAmbiguous(c)
    PROVE  Counted'
  <1>. USE DEF outboxVars, kafkaVars, replyVars, anomalies, HandlerOnly
  <1>1. Forward /\ \A d \in Consumers : d # c => pc'[d] = pc[d]
    BY SendHandled DEF Inv, Working, Handled
  <1>2. /\ UNCHANGED <<recorded, overlapped, owner, log, at, answered, part>>
        /\ pc[c] \in {"voice", "send"}
    BY DEF VoiceFails, SendAmbiguous
  <1>3. pc'[c] \in {"send", "ambiguous"}
    BY DEF VoiceFails, SendAmbiguous, Goto, Inv, TypeOK
  <1>4. CASE UNCHANGED <<delivered, lost>>
    <2>1. ~overlapped => \A i \in part'[c]..MaxParts : recorded[<<Msg(c), i>>] = 0
      BY <1>2, PartAtHand
    <2>. QED
      BY <1>1, <1>2, <1>3, <1>4, <2>1, QuietCounted
  <1>5. CASE /\ delivered' = [delivered EXCEPT ![Part(c)] = @ + 1]
             /\ lost' = lost \cup {Part(c)}
    <2>1. AnsweredIsStored' /\ RecordedIsAnswered'
      BY <1>1, <1>2 DEF Counted, AnsweredIsStored, RecordedIsAnswered, Stored, Forward
    <2>2. ASSUME ~overlapped PROVE Single'
      <3>1. owner = c /\ owner' = c
        BY <1>2, <2>2, PartAtHand
      <3>2. OwnerAlone'
        BY <1>1, <1>2, <2>2, <3>1 DEF Counted, Single, OwnerAlone
      <3>3. PartsAreNew'
        BY <1>2, <1>3, <2>2, <3>1, PartAtHand DEF PartsAreNew, Msg
      <3>4. RowsAreSingle'
        BY <1>2, <2>2 DEF Counted, Single, RowsAreSingle
      <3>5. \A p \in Parts : ~UnderWay(p) /\ ~UnderWay(p)'
        BY <1>2, <1>3, <3>1 DEF UnderWay
      <3>6. \A p \in Parts : p # Part(c) => delivered'[p] = delivered[p]
        BY <1>5 DEF Inv, TypeOK
      <3>7. CopiesAreCounted'
        BY <1>2, <1>5, <2>2, <3>5, <3>6 DEF Counted, Single, CopiesAreCounted
      <3>. QED
        BY <3>2, <3>3, <3>4, <3>7 DEF Single
    <2>. QED
      BY <1>2, <2>1, <2>2 DEF Counted
  <1>. QED
    BY <1>4, <1>5 DEF VoiceFails, SendAmbiguous

\* A copy goes out: its part had no row, so it had no copy that was not lost.
LEMMA SentCounted ==
    ASSUME Inv, Counted, NEW c \in Consumers, VoiceSent(c) \/ SendPart(c)
    PROVE  Counted'
  <1>. USE DEF outboxVars, kafkaVars, replyVars, anomalies, HandlerOnly
  <1>1. Forward /\ \A d \in Consumers : d # c => pc'[d] = pc[d]
    BY SendHandled DEF Inv, Working, Handled
  <1>2. /\ UNCHANGED <<recorded, lost, overlapped, owner, log, at, answered, part>>
        /\ pc[c] \in {"voice", "send"}
        /\ delivered' = [delivered EXCEPT ![Part(c)] = @ + 1]
    BY DEF VoiceSent, SendPart
  <1>3. pc'[c] = "record"
    BY DEF VoiceSent, SendPart, Goto, Inv, TypeOK
  <1>4. AnsweredIsStored' /\ RecordedIsAnswered'
    BY <1>1, <1>2 DEF Counted, AnsweredIsStored, RecordedIsAnswered, Stored, Forward
  <1>5. ASSUME ~overlapped PROVE Single'
    <2>1. owner = c /\ owner' = c /\ Part(c)' = Part(c) /\ Part(c) \in Parts /\ recorded[Part(c)] = 0
      BY <1>2, <1>5, PartAtHand DEF Part, Msg
    <2>2. OwnerAlone'
      BY <1>1, <1>2, <1>5, <2>1 DEF Counted, Single, OwnerAlone
    <2>3. PartsAreNew'
      BY <1>2, <1>3, <1>5, <2>1, PartAtHand DEF PartsAreNew, Msg
    <2>4. RowsAreSingle'
      BY <1>2, <1>5 DEF Counted, Single, RowsAreSingle
    <2>5. \A p \in Parts : ~UnderWay(p) /\ (UnderWay(p)' <=> p = Part(c))
      BY <1>2, <1>3, <2>1 DEF UnderWay
    <2>6. /\ delivered'[Part(c)] = delivered[Part(c)] + 1
          /\ \A p \in Parts : p # Part(c) => delivered'[p] = delivered[p]
          /\ \A p \in Parts : delivered[p] \in Nat /\ recorded[p] \in Nat
      BY <1>2, <2>1 DEF Inv, TypeOK
    <2>7. CopiesAreCounted'
      BY <1>2, <1>5, <2>5, <2>6 DEF Counted, Single, CopiesAreCounted
    <2>. QED
      BY <2>2, <2>3, <2>4, <2>7 DEF Single
  <1>. QED
    BY <1>2, <1>4, <1>5 DEF Counted

\* Its row is written, and the next part, if any, is one further on.
LEMMA RecordCounted ==
    ASSUME Inv, Counted, NEW c \in Consumers, RecordPart(c)
    PROVE  Counted'
  <1>. USE DEF outboxVars, kafkaVars, replyVars, anomalies, HandlerOnly
  <1>1. Forward /\ \A d \in Consumers : d # c => pc'[d] = pc[d]
    BY CloseHandled DEF Inv, Working, Handled
  <1>2. /\ UNCHANGED <<delivered, lost, overlapped, owner, log, at, inbound>>
        /\ pc[c] = "record"
        /\ recorded' = [recorded EXCEPT ![Part(c)] = @ + 1]
        /\ answered' = answered \cup Stored
    BY DEF RecordPart
  <1>3. pc'[c] = "close" \/ (pc'[c] = "send" /\ part'[c] = part[c] + 1)
    <2>1. \/ Goto(c, "close")
          \/ Goto(c, "send") /\ part' = [part EXCEPT ![c] = part[c] + 1]
      BY DEF RecordPart
    <2>2. Goto(c, "close") => pc'[c] = "close"
      BY DEF Goto, Inv, TypeOK
    <2>3. Goto(c, "send") => pc'[c] = "send"
      BY DEF Goto, Inv, TypeOK
    <2>4. part' = [part EXCEPT ![c] = part[c] + 1] => part'[c] = part[c] + 1
      BY DEF Inv, TypeOK
    <2>. QED
      BY <2>1, <2>2, <2>3, <2>4
  <1>4. /\ part[c] \in 1..MaxParts /\ Msg(c) \in Msgs /\ Part(c) \in Parts
        /\ Part(c) = <<Msg(c), part[c]>>
    BY <1>2, PartAtHand
  <1>5. /\ recorded'[Part(c)] = recorded[Part(c)] + 1
        /\ \A p \in Parts : p # Part(c) => recorded'[p] = recorded[p]
        /\ \A p \in Parts : delivered[p] \in Nat /\ recorded[p] \in Nat
    BY <1>2, <1>4 DEF Inv, TypeOK
  <1>6. Msg(c) \in Stored
    BY <1>2, <1>4 DEF Inv, Working, InHand, Stored
  <1>7. AnsweredIsStored' /\ RecordedIsAnswered'
    BY <1>2, <1>4, <1>5, <1>6 DEF Counted, AnsweredIsStored, RecordedIsAnswered, Stored
  <1>8. ASSUME ~overlapped PROVE Single'
    <2>1. /\ owner = c /\ owner' = c /\ recorded[Part(c)] = 0
          /\ \A i \in part[c]..MaxParts : recorded[<<Msg(c), i>>] = 0
      BY <1>2, <1>8, PartAtHand
    <2>2. OwnerAlone'
      BY <1>1, <1>2, <1>8, <2>1 DEF Counted, Single, OwnerAlone
    <2>3. PartsAreNew'
      <3>1. ASSUME pc'[c] = "send", NEW i \in part'[c]..MaxParts
            PROVE  recorded'[<<Msg(c), i>>] = 0
        <4>1. i \in part[c]..MaxParts /\ i \in 1..MaxParts /\ i # part[c]
          BY <1>3, <1>4, <3>1, ConstantsAssumption
        <4>2. <<Msg(c), i>> \in Parts /\ <<Msg(c), i>> # Part(c)
          BY <1>4, <4>1 DEF Parts
        <4>. QED
          BY <1>5, <2>1, <4>1, <4>2
      <3>. QED
        BY <1>2, <1>3, <2>1, <3>1 DEF PartsAreNew, Msg
    <2>4. RowsAreSingle'
      BY <1>5, <1>8, <2>1 DEF Counted, Single, RowsAreSingle
    <2>5. \A p \in Parts : (UnderWay(p) <=> p = Part(c)) /\ ~UnderWay(p)'
      BY <1>2, <1>3, <2>1 DEF UnderWay
    <2>6. CopiesAreCounted'
      BY <1>2, <1>5, <1>8, <2>5 DEF Counted, Single, CopiesAreCounted
    <2>. QED
      BY <2>2, <2>3, <2>4, <2>6 DEF Single
  <1>. QED
    BY <1>2, <1>7, <1>8 DEF Counted

\* The other steps of the reply, and the outcome of the event.
LEMMA CloseCounted ==
    ASSUME Inv, Counted, NEW c \in Consumers,
           \/ SendTransient(c) \/ SendPermanent(c) \/ CloseReply(c) \/ AfterReplyFails(c)
           \/ MarkSent(c) \/ MarkAmbiguous(c) \/ ReadAttempts(c) \/ MarkRetry(c) \/ Commit(c)
    PROVE  Counted'
  <1>. USE DEF outboxVars, kafkaVars, replyVars, anomalies, HandlerOnly
  <1>1. Forward /\ \A d \in Consumers : d # c => pc'[d] = pc[d]
    <2>1. InHand(c) /\ TypeOK
      BY DEF Inv, Working
    <2>2. Handled(c) \/ Concluded(c)
      BY <2>1, SendHandled, CloseHandled, OutcomeConcluded, RecordConcluded
    <2>. QED
      BY <2>2 DEF Handled, Concluded, Forward
  <1>2. /\ UNCHANGED <<recorded, delivered, lost, overlapped, owner, log, answered>>
        /\ pc[c] \notin {"idle", "record"}
    BY DEF SendTransient, SendPermanent, CloseReply, AfterReplyFails, MarkSent,
           MarkAmbiguous, ReadAttempts, MarkRetry, Commit
  <1>3. pc'[c] \notin {"decide", "voice", "send", "record"}
    BY DEF SendTransient, SendPermanent, CloseReply, AfterReplyFails, MarkSent,
           MarkAmbiguous, ReadAttempts, MarkRetry, Commit, Forget, Goto, Inv, TypeOK
  <1>. QED
    BY <1>1, <1>2, <1>3, QuietCounted

\* A consumer that dies over a copy it has not recorded loses it.
LEMMA CrashCounted ==
    ASSUME Inv, Counted, NEW c \in Consumers, ConsumerCrash(c) \/ Evict(c)
    PROVE  Counted'
  <1>. USE DEF outboxVars, kafkaVars, replyVars, anomalies
  <1>1. UNCHANGED <<recorded, delivered, inbound, answered>> /\ pc[c] # "idle"
    BY DEF ConsumerCrash, Evict
  <1>2. AnsweredIsStored' /\ RecordedIsAnswered'
    BY <1>1 DEF Counted, AnsweredIsStored, RecordedIsAnswered, Stored
  <1>3. CASE Evict(c)
    BY <1>2, <1>3 DEF Evict, Counted
  <1>4. ASSUME ConsumerCrash(c), ~overlapped PROVE Single'
    <2>1. owner = c
      BY <1>1, <1>4, ActorIsOwner
    <2>2. \A d \in Consumers : pc'[d] = "idle"
      BY <1>4, <2>1, ForgetMoves DEF ConsumerCrash, Inv, Counted, Single, OwnerAlone
    <2>3. owner' \in Consumers
      BY <1>4, <2>1 DEF ConsumerCrash
    <2>4. lost' = IF pc[c] = "record" THEN lost \cup {Part(c)} ELSE lost
      BY <1>4 DEF ConsumerCrash
    <2>5. \A p \in Parts : (UnderWay(p) => p \in lost') /\ ~UnderWay(p)' /\ lost \subseteq lost'
      BY <2>1, <2>2, <2>3, <2>4 DEF UnderWay
    <2>6. CopiesAreCounted'
      BY <1>1, <1>4, <2>5 DEF Counted, Single, CopiesAreCounted
    <2>7. OwnerAlone' /\ PartsAreNew' /\ RowsAreSingle'
      BY <1>1, <1>4, <2>2, <2>3 DEF Counted, Single, OwnerAlone, PartsAreNew, RowsAreSingle
    <2>. QED
      BY <2>6, <2>7 DEF Single
  <1>5. CASE ConsumerCrash(c)
    BY <1>2, <1>4, <1>5 DEF ConsumerCrash, Counted
  <1>. QED
    BY <1>3, <1>5

\* The relays, the producers and a person touch no consumer and no copy.
LEMMA OutsideCounted ==
    ASSUME Inv, Counted, Outside
    PROVE  Counted'
  <1>. USE DEF outboxVars, kafkaVars, consumerVars, replyVars, anomalies, HandlerOnly
  <1>1. /\ UNCHANGED <<pc, at, part, owner, inbound, recorded, delivered, lost, overlapped>>
        /\ answered' = answered \/ answered' = answered \cup Stored
        /\ log' = log \/ \E m \in Msgs : log' = Append(log, m)
    <2>1. ASSUME NEW r \in Relays, Flush(r)
          PROVE  /\ UNCHANGED <<pc, at, part, owner, inbound, recorded, delivered, lost, overlapped, answered>>
                 /\ \E m \in Msgs : log' = Append(log, m)
      <3>1. Head(buffer[r]) \in Msgs
        BY <2>1 DEF Flush, Inv, TypeOK
      <3>. QED
        BY <2>1, <3>1 DEF Flush
    <2>2. ASSUME NEW m \in Msgs, Receive(m) \/ BackoffPasses(m)
          PROVE  UNCHANGED <<pc, at, part, owner, inbound, recorded, delivered, lost, overlapped, answered, log>>
      BY <2>2 DEF Receive, BackoffPasses
    <2>3. ASSUME NEW r \in Relays, RelayStep(r)
          PROVE  UNCHANGED <<pc, at, part, owner, inbound, recorded, delivered, lost, overlapped, answered, log>>
      BY <2>3 DEF RelayStep, Fetch, Hand, MarkFailed, MarkPublished
    <2>4. ASSUME NEW r \in Relays, SendRaises(r) \/ RecordExpires(r) \/ RelayCrash(r)
          PROVE  UNCHANGED <<pc, at, part, owner, inbound, recorded, delivered, lost, overlapped, answered, log>>
      BY <2>4 DEF SendRaises, RecordExpires, RelayCrash
    <2>5. CASE HumanReplies
      BY <2>5 DEF HumanReplies
    <2>. QED
      BY <2>1, <2>2, <2>3, <2>4, <2>5 DEF Outside
  <1>2. AnsweredIsStored' /\ RecordedIsAnswered'
    BY <1>1 DEF Counted, AnsweredIsStored, RecordedIsAnswered, Stored
  <1>3. ASSUME ~overlapped PROVE Single'
    <2>1. owner \in Consumers
      BY DEF Inv, TypeOK
    <2>2. pc[owner] # "idle" => Msg(owner)' = Msg(owner) /\ Part(owner)' = Part(owner)
      <3>1. ASSUME NEW c \in Consumers, pc[c] # "idle" PROVE log'[at[c]] = log[at[c]]
        <4>1. at[c] # 0 /\ TypeOK
          BY <3>1 DEF Inv, Working, InHand
        <4>2. at[c] \in 1..Len(log) /\ log \in Seq(Msgs)
          BY <4>1, MessageOf DEF TypeOK
        <4>3. ASSUME NEW m \in Msgs, log' = Append(log, m) PROVE log'[at[c]] = log[at[c]]
          BY <4>2, <4>3
        <4>. QED
          BY <1>1, <4>3
      <3>. QED
        BY <1>1, <2>1, <3>1 DEF Msg, Part
    <2>3. OwnerAlone' /\ RowsAreSingle'
      BY <1>1, <1>3 DEF Counted, Single, OwnerAlone, RowsAreSingle
    <2>4. PartsAreNew'
      BY <1>1, <1>3, <2>2 DEF Counted, Single, PartsAreNew
    <2>5. \A p \in Parts : UnderWay(p)' <=> UnderWay(p)
      BY <1>1, <2>2 DEF UnderWay
    <2>6. CopiesAreCounted'
      BY <1>1, <1>3, <2>5 DEF Counted, Single, CopiesAreCounted
    <2>. QED
      BY <2>3, <2>4, <2>6 DEF Single
  <1>. QED
    BY <1>1, <1>2, <1>3 DEF Counted

LEMMA CountedInit == Init => Counted
  <1>. SUFFICES ASSUME Init PROVE Counted
    OBVIOUS
  <1>1. /\ \A c \in Consumers : pc[c] = "idle" /\ owner \in Consumers
        /\ \A p \in Parts : recorded[p] = 0 /\ delivered[p] = 0
        /\ answered = {} /\ lost = {}
    BY DEF Init
  <1>2. owner \in Consumers
    BY DEF Init
  <1>. QED
    BY <1>1, <1>2 DEF Counted, AnsweredIsStored, RecordedIsAnswered, Single, OwnerAlone,
       PartsAreNew, RowsAreSingle, CopiesAreCounted, UnderWay

LEMMA CountedStep == Inv /\ Counted /\ [Next]_vars => Counted'
  <1>. SUFFICES ASSUME Inv, Counted, [Next]_vars PROVE Counted'
    OBVIOUS
  <1>1. CASE UNCHANGED vars
    BY <1>1
    DEF vars, kafkaVars, consumerVars, replyVars, anomalies, Counted, AnsweredIsStored,
        RecordedIsAnswered, Stored, Single, OwnerAlone, PartsAreNew, RowsAreSingle,
        CopiesAreCounted, UnderWay, Part, Msg
  <1>2. CASE Outside
    BY <1>2, OutsideCounted
  <1>3. ASSUME NEW c \in Consumers,
               ConsumerStep(c) \/ Drop(c) \/ AfterReplyFails(c) \/ ConsumerCrash(c) \/ Evict(c)
        PROVE  Counted'
    BY <1>3, LookupCounted, DecideCounted, LostCounted, SentCounted, RecordCounted,
       CloseCounted, CrashCounted DEF ConsumerStep, ReplyStep
  <1>. QED
    BY <1>1, <1>2, <1>3 DEF Next, Outside

\* Whatever is redelivered, retried or lost, no part of a reply has two
\* outbound rows, and the customer gets it a second time only when a copy was
\* lost without a row; as long as no consumer was evicted over a message.
THEOREM PartsRepeatOnlyAfterLoss == Spec => []AgainOnlyAfterLoss
  <1>1. ASSUME Inv, Counted PROVE AgainOnlyAfterLoss
    <2>1. \A p \in Parts : recorded[p] \in Nat /\ delivered[p] \in Nat
      BY <1>1 DEF Inv, TypeOK
    <2>2. ASSUME ~overlapped, NEW p \in Parts, delivered[p] > 1, p \notin lost PROVE FALSE
      <3>1. CASE UnderWay(p)
        <4>1. owner \in Consumers /\ pc[owner] = "record" /\ p = Part(owner)
          BY <1>1, <3>1 DEF UnderWay, Inv, TypeOK
        <4>2. recorded[p] = 0
          BY <1>1, <2>2, <4>1, PartAtHand
        <4>. QED
          BY <1>1, <2>1, <2>2, <3>1, <4>2 DEF Counted, Single, CopiesAreCounted
      <3>2. CASE ~UnderWay(p)
        BY <1>1, <2>1, <2>2, <3>2 DEF Counted, Single, CopiesAreCounted, RowsAreSingle
      <3>. QED
        BY <3>1, <3>2
    <2>. QED
      BY <1>1, <2>2 DEF AgainOnlyAfterLoss, Counted, Single, RowsAreSingle
  <1>. QED
    BY <1>1, InvariantHolds, CountedInit, CountedStep, PTL DEF Spec
=============================================================================
