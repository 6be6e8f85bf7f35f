--------------------------- MODULE HandoverProofs ---------------------------
(***************************************************************************)
(* Theorems about Handover, for all operators, sweepers, thresholds and    *)
(* bounds.                                                                 *)
(***************************************************************************)
EXTENDS Handover, Integers, TLAPS

-----------------------------------------------------------------------------
(* The inductive invariant                                                 *)

\* TypeOK, with counts of misses of any size.
Leads == [priority : {"normal", "important"}, miss : Nat, since : {"none", "fresh", "old"},
          reminder : {"none", "armed", "due"}, handover : BOOLEAN]
RowsTyped ==
    /\ platform \in Platforms
    /\ thread \in Threads /\ lead \in Leads /\ lastOut \in {"none", "ai", "team"}
ConsumerTyped ==
    /\ talk \in {"idle", "gating", "judging", "judged", "escalating", "calling", "persisting",
                 "handing", "replying", "paging"}
    /\ copy \in Leads /\ urgent \in BOOLEAN /\ held \in BOOLEAN
OperatorsTyped ==
    /\ asked \in [Operators -> {"nothing", "take over", "give back", "resolve"}]
    /\ seen \in [Operators -> Threads]
SweepsTyped ==
    /\ sweep \in [Sweepers -> {"idle", "reminding", "reminded", "looking", "resuming"}]
    /\ found \in [Sweepers -> [lead : Leads, thread : Threads]]
HistoryTyped ==
    /\ owner \in {"ai", "person"} /\ raced \subseteq {"turn", "takeover", "code over takeover"}
BoundsTyped ==
    /\ messages \in 0..MaxMessages /\ orders \in 0..MaxOrders /\ faults \in 0..MaxFaults
Typed == RowsTyped /\ ConsumerTyped /\ OperatorsTyped /\ SweepsTyped /\ HistoryTyped
         /\ BoundsTyped

\* A turn adds one miss at most, and the first one none: before it the AI has said nothing.
\* A turn that a crash ended counts as a fault.
Early == talk \in {"gating", "judging"}
Turns == messages + faults
Past == IF Early THEN Turns - 1 ELSE Turns
Counted(n) == n = 0 \/ n + 1 <= Past
MissesCounted ==
    /\ Counted(lead.miss) /\ Counted(copy.miss)
    /\ \A s \in Sweepers : Counted(found[s].lead.miss)
    /\ InTurn => messages >= 1
    /\ lastOut = "ai" => 1 <= Past

\* The consumer holds the thread's row only while it turns the AI's thread over.
HeldIsAi == held => thread.mode = "ai" /\ talk \in {"calling", "persisting", "handing"}

Inv == Typed /\ MissesCounted /\ HeldIsAi

\* What keeps a person's thread, when no two takeovers and no handoff code race.
NoRace == raced \cap {"takeover", "code over takeover"} = {}
AskersAlone ==
    /\ \A o, p \in Operators : asked[o] # "nothing" /\ asked[p] # "nothing" => o = p
    /\ Asking => ~Resuming
\* Only an escalation changes the thread under a request.
SeenHolds ==
    \A o \in Operators :
        asked[o] # "nothing" => thread = seen[o] \/ (seen[o].mode = "ai" /\ Muted)
\* A turn that meets an escalated thread makes no lead important.
MutedIsCalm ==
    Muted => talk \in {"idle", "gating", "escalating", "calling", "persisting", "handing"}
\* A person's thread that the sweep could take for an escalation has a lead it leaves alone.
PersonHolds ==
    owner = "person" =>
        /\ thread.mode = "human" /\ ~Resuming
        /\ thread.by # "person" => Muted /\ ShouldAiReply(lead)
Takeovers == NoRace => AskersAlone /\ SeenHolds /\ MutedIsCalm /\ PersonHolds

\* What keeps the count of a lead the AI has, when no turn races.
TurnAlone == InTurn => ~Asking /\ ~Resuming
CopyIsLead == InTurn => copy.priority = lead.priority /\ copy.miss = lead.miss
FoundOverdue ==
    \A s \in Sweepers : sweep[s] = "resuming" =>
        found[s].lead.priority = "important" /\ lead.miss \in {found[s].lead.miss, 0}
CountIsLow == ShouldAiReply(lead) /\ Threshold > 0 => lead.miss < Threshold
Cycles == "turn" \notin raced => TurnAlone /\ CopyIsLead /\ FoundOverdue /\ CountIsLow

-----------------------------------------------------------------------------
(* Facts about the definitions                                             *)

LEMMA WrittenThread ==
    ASSUME NEW db \in Threads, NEW old \in Threads, NEW new \in Threads
    PROVE  /\ Written(db, old, new) \in Threads
           /\ Written(db, old, new).mode = IF new.mode # old.mode THEN new.mode ELSE db.mode
           /\ Written(db, old, new).by = IF new.by # old.by THEN new.by ELSE db.by
  BY DEF Written, Threads

LEMMA WrittenLead ==
    ASSUME NEW db \in Leads, NEW old \in Leads, NEW new \in Leads
    PROVE  /\ Written(db, old, new) \in Leads
           /\ Written(db, old, new).priority =
                 IF new.priority # old.priority THEN new.priority ELSE db.priority
           /\ Written(db, old, new).miss = IF new.miss # old.miss THEN new.miss ELSE db.miss
  BY DEF Written, Leads

LEMMA BoundsAreNat ==
    Threshold \in Nat /\ MaxMessages \in Nat \ {0} /\ MaxOrders \in Nat /\ MaxFaults \in Nat
  BY ConstantsAssumption

LEMMA SomeTyped ==
    /\ Clean \in Leads /\ Clean.miss = 0 /\ Clean.priority = "normal"
    /\ [mode |-> "ai", by |-> "none"] \in Threads
    /\ Unread \in [lead : Leads, thread : Threads] /\ Unread.lead.miss = 0
  BY DEF Clean, Leads, Threads, Unread

LEMMA UpdatedLead ==
    ASSUME NEW row \in Leads, NEW confused \in BOOLEAN, NEW pressing \in BOOLEAN,
           NEW told \in BOOLEAN
    PROVE  LET new == Updated(row, confused, pressing, told) IN
           /\ new \in Leads
           /\ new.miss \in {0, Missed(row, confused)}
           /\ new.priority = "normal" => ~pressing /\ ~CountTriggered(new.miss)
  <1>1. Missed(row, confused) \in Nat
    BY DEF Missed, Leads
  <1>2. ASSUME NEW n \in Nat
        PROVE  [row EXCEPT !.miss = n] \in Leads /\ Escalated(n, told) \in Leads
    BY DEF Leads, Escalated, Clean
  <1>3. ASSUME NEW n \in Nat
        PROVE  /\ [row EXCEPT !.miss = n].miss = n
               /\ [row EXCEPT !.miss = n].priority = row.priority
               /\ Escalated(n, told).miss = n /\ Escalated(n, told).priority = "important"
    BY DEF Leads, Escalated, Clean
  <1>4. ~CountTriggered(0)
    BY BoundsAreNat DEF CountTriggered
  <1>. QED
    BY <1>1, <1>2, <1>3, <1>4, SomeTyped DEF Updated

-----------------------------------------------------------------------------
(* Types and counts                                                        *)

USE DEF rowVars, consumerVars, operatorVars, sweepVars, ghosts, bounds

Known == {0, lead.miss, copy.miss} \cup {found[s].lead.miss : s \in Sweepers}

LEMMA PastIsInt ==
    ASSUME Typed
    PROVE  Past \in Int /\ Turns \in Int
  BY DEF Typed, BoundsTyped, Past, Turns

\* Counts that were there before stay counted while the turns go on.
LEMMA CountsStay ==
    ASSUME Inv, Typed', Past <= Past', lead'.miss \in Known, copy'.miss \in Known,
           \A s \in Sweepers : found'[s].lead.miss \in Known,
           InTurn' => messages' >= 1, lastOut' = "ai" => lastOut = "ai"
    PROVE  MissesCounted'
  <1>1. Past \in Int /\ Past' \in Int
    BY DEF Inv, Typed, BoundsTyped, Past, Turns
  <1>2. ASSUME NEW n \in Known
        PROVE  n \in Nat /\ (n = 0 \/ n + 1 <= Past')
    <2>1. n \in Nat
      BY <1>2 DEF Known, Inv, Typed, RowsTyped, ConsumerTyped, SweepsTyped, Leads
    <2>2. Counted(n)
      BY <1>2 DEF Known, Inv, MissesCounted, Counted
    <2>. QED
      BY <1>1, <2>1, <2>2 DEF Counted
  <1>3. Counted(lead.miss)' /\ Counted(copy.miss)'
    BY <1>2 DEF Counted
  <1>4. ASSUME NEW s \in Sweepers PROVE Counted(found[s].lead.miss)'
    BY <1>2 DEF Counted
  <1>5. lastOut' = "ai" => 1 <= Past'
    BY <1>1 DEF Inv, MissesCounted
  <1>. QED
    BY <1>3, <1>4, <1>5 DEF MissesCounted

LEMMA TakeKeeps ==
    ASSUME Inv, Take
    PROVE  Inv'
  <1>1. Typed'
    <2>1. RowsTyped'
      BY DEF Inv, Typed, RowsTyped, Take
    <2>2. ConsumerTyped'
      BY DEF Inv, Typed, ConsumerTyped, RowsTyped, Take
    <2>3. OperatorsTyped'
      BY BoundsAreNat, SomeTyped
      DEF Inv, Typed, MissesCounted, InTurn, BoundsTyped, ConsumerTyped, OperatorsTyped,
          RowsTyped, SweepsTyped, Fault, Take, Overlaps
    <2>4. SweepsTyped'
      BY DEF Inv, Typed, SweepsTyped, Take
    <2>5. HistoryTyped'
      BY BoundsAreNat, SomeTyped
      DEF Inv, Typed, MissesCounted, InTurn, BoundsTyped, ConsumerTyped, HistoryTyped,
          RowsTyped, SweepsTyped, Fault, Take, Overlaps
    <2>6. BoundsTyped'
      BY BoundsAreNat DEF Inv, Typed, BoundsTyped, Take
    <2>. QED
      BY <2>1, <2>2, <2>3, <2>4, <2>5, <2>6 DEF Typed
  <1>2. MissesCounted'
    <2>1. Past <= Past'
      BY <1>1 DEF Inv, Typed, BoundsTyped, Past, Turns, Take
    <2>2. lead'.miss \in Known /\ copy'.miss \in Known
      BY DEF Known, Take, Overlaps
    <2>3. \A t \in Sweepers : found'[t].lead.miss \in Known
      BY DEF Known, Take, Overlaps
    <2>4. (InTurn' => messages' >= 1) /\ (lastOut' = "ai" => lastOut = "ai")
      BY DEF Inv, Typed, BoundsTyped, Take
    <2>. QED
      BY <1>1, <2>1, <2>2, <2>3, <2>4, CountsStay
  <1>3. HeldIsAi'
    BY DEF Inv, HeldIsAi, Take
  <1>. QED
    BY <1>1, <1>2, <1>3 DEF Inv

LEMMA GateKeeps ==
    ASSUME Inv, Gate
    PROVE  Inv'
  <1>1. Typed'
    BY BoundsAreNat, SomeTyped
    DEF Inv, Typed, RowsTyped, ConsumerTyped, OperatorsTyped, SweepsTyped, HistoryTyped,
        BoundsTyped, MissesCounted, InTurn, Fault, Gate, EndsTurn
  <1>2. MissesCounted'
    <2>1. Past <= Past'
      BY <1>1 DEF Typed, BoundsTyped, Past, Turns, Early, Gate
    <2>2. lead'.miss \in Known /\ copy'.miss \in Known
      BY SomeTyped DEF Known, Gate, EndsTurn
    <2>3. \A t \in Sweepers : found'[t].lead.miss \in Known
      BY DEF Known, Gate, EndsTurn
    <2>4. (InTurn' => messages' >= 1) /\ (lastOut' = "ai" => lastOut = "ai")
      BY DEF Inv, MissesCounted, InTurn, Gate
    <2>. QED
      BY <1>1, <2>1, <2>2, <2>3, <2>4, CountsStay
  <1>3. HeldIsAi'
    BY DEF Inv, Typed, RowsTyped, ConsumerTyped, HeldIsAi, ThreadLocked, Gate, EndsTurn
  <1>. QED
    BY <1>1, <1>2, <1>3 DEF Inv

LEMMA JudgeKeeps ==
    ASSUME Inv, Judge
    PROVE  Inv'
  <1>1. Typed'
    <2>1. PICK confused \in BOOLEAN, pressing \in BOOLEAN, told \in BOOLEAN :
             /\ CommitsLead(Updated(copy, confused, pressing, told))
             /\ urgent' = pressing
      BY DEF Judge
    <2>2. Updated(copy, confused, pressing, told) \in Leads
      BY UpdatedLead DEF Inv, Typed, ConsumerTyped
    <2>3. lead' \in Leads /\ copy' \in Leads
      BY <2>1, <2>2, WrittenLead DEF CommitsLead, Inv, Typed, RowsTyped, ConsumerTyped
    <2>4. RowsTyped'
      BY <2>1, <2>3 DEF Inv, Typed, RowsTyped, Judge
    <2>5. ConsumerTyped'
      BY <2>1, <2>3 DEF Inv, Typed, ConsumerTyped, Judge
    <2>6. OperatorsTyped'
      BY <2>1, <2>3, BoundsAreNat, SomeTyped
      DEF Inv, Typed, MissesCounted, InTurn, BoundsTyped, ConsumerTyped, OperatorsTyped,
          RowsTyped, SweepsTyped, Fault, Judge, CommitsLead
    <2>7. SweepsTyped'
      BY <2>1, <2>3 DEF Inv, Typed, SweepsTyped, Judge
    <2>8. HistoryTyped'
      BY <2>1, <2>3, BoundsAreNat, SomeTyped
      DEF Inv, Typed, MissesCounted, InTurn, BoundsTyped, ConsumerTyped, HistoryTyped,
          RowsTyped, SweepsTyped, Fault, Judge, CommitsLead
    <2>9. BoundsTyped'
      BY <2>1, <2>3 DEF Inv, Typed, BoundsTyped, Judge
    <2>. QED
      BY <2>4, <2>5, <2>6, <2>7, <2>8, <2>9 DEF Typed
  <1>2. MissesCounted'
    <2>1. PICK confused \in BOOLEAN, pressing \in BOOLEAN, told \in BOOLEAN :
             CommitsLead(Updated(copy, confused, pressing, told))
      BY DEF Judge
    <2>. DEFINE new == Updated(copy, confused, pressing, told)
    <2>2. new \in Leads /\ new.miss \in {0, Missed(copy, confused)}
      BY UpdatedLead DEF Inv, Typed, ConsumerTyped
    <2>3. lead'.miss \in {new.miss, lead.miss} /\ copy'.miss = new.miss
      BY <2>1, <2>2, WrittenLead DEF CommitsLead, Inv, Typed, RowsTyped, ConsumerTyped
    <2>. HIDE DEF new
    <2>4. Past' = Past + 1 /\ Past \in Int
      BY <1>1, PastIsInt DEF Judge, Past, Turns, Early, Inv
    <2>5. Missed(copy, confused) \in Nat /\ Missed(copy, confused) <= Past
      <3>1. Past >= 0
        BY DEF InTurn, Past, Turns, Early, Inv, MissesCounted, Typed, BoundsTyped
      <3>2. copy.miss \in Nat /\ Counted(copy.miss) /\ (lastOut = "ai" => 1 <= Past)
        BY DEF Leads, Inv, Typed, ConsumerTyped, MissesCounted
      <3>. QED
        BY <2>4, <3>1, <3>2 DEF Missed, Counted
    <2>6. lead.miss \in Nat /\ \A s \in Sweepers : found[s].lead.miss \in Nat
      BY DEF Leads, Inv, Typed, RowsTyped, SweepsTyped
    <2>7. Counted(lead.miss)' /\ Counted(copy.miss)'
      BY <2>2, <2>3, <2>4, <2>5, <2>6 DEF Inv, MissesCounted, Counted
    <2>8. \A s \in Sweepers : Counted(found[s].lead.miss)'
      BY <2>4, <2>6 DEF Inv, MissesCounted, Counted, Judge
    <2>. QED
      BY <2>4, <2>7, <2>8 DEF Inv, MissesCounted, InTurn, Judge
  <1>3. HeldIsAi'
    BY DEF Inv, HeldIsAi, Judge
  <1>. QED
    BY <1>1, <1>2, <1>3 DEF Inv

LEMMA HandoffCodeKeeps ==
    ASSUME Inv, HandoffCode
    PROVE  Inv'
  <1>1. Typed'
    <2>1. lead' \in Leads /\ copy' \in Leads
      BY WrittenLead, SomeTyped
      DEF CommitsLead, ResumeLead, HandoffCode, Inv, Typed, RowsTyped, ConsumerTyped
    <2>2. thread' \in Threads
      BY DEF HandoffCode, Threads, Inv, Typed, RowsTyped
    <2>3. RowsTyped'
      BY <2>1, <2>2, BoundsAreNat, SomeTyped
      DEF Inv, Typed, MissesCounted, InTurn, BoundsTyped, ConsumerTyped, RowsTyped,
          SweepsTyped, Fault, HandoffCode, CommitsLead, ResumeLead
    <2>4. ConsumerTyped'
      BY <2>1, <2>2, BoundsAreNat, SomeTyped
      DEF Inv, Typed, MissesCounted, InTurn, BoundsTyped, ConsumerTyped, RowsTyped,
          SweepsTyped, Fault, HandoffCode, CommitsLead, ResumeLead
    <2>5. OperatorsTyped'
      BY <2>1, <2>2, BoundsAreNat, SomeTyped
      DEF Inv, Typed, MissesCounted, InTurn, BoundsTyped, ConsumerTyped, OperatorsTyped,
          RowsTyped, SweepsTyped, Fault, HandoffCode, CommitsLead, ResumeLead
    <2>6. SweepsTyped'
      BY <2>1, <2>2, BoundsAreNat, SomeTyped
      DEF Inv, Typed, MissesCounted, InTurn, BoundsTyped, ConsumerTyped, RowsTyped,
          SweepsTyped, Fault, HandoffCode, CommitsLead, ResumeLead
    <2>7. HistoryTyped'
      BY <2>1, <2>2, BoundsAreNat, SomeTyped
      DEF Inv, Typed, MissesCounted, InTurn, BoundsTyped, ConsumerTyped, HistoryTyped,
          RowsTyped, SweepsTyped, Fault, HandoffCode, CommitsLead, ResumeLead
    <2>8. BoundsTyped'
      BY <2>1, <2>2, BoundsAreNat, SomeTyped
      DEF Inv, Typed, MissesCounted, InTurn, BoundsTyped, ConsumerTyped, RowsTyped,
          SweepsTyped, Fault, HandoffCode, CommitsLead, ResumeLead
    <2>. QED
      BY <2>3, <2>4, <2>5, <2>6, <2>7, <2>8 DEF Typed
  <1>2. MissesCounted'
    <2>1. Past <= Past'
      <3>1. talk = "judged" /\ talk' = "replying" /\ UNCHANGED <<messages, faults>>
        BY DEF HandoffCode
      <3>. QED
        BY <3>1, PastIsInt DEF Inv, Past, Turns, Early
    <2>2. lead'.miss \in Known /\ copy'.miss \in Known
      <3>1. lead' = Written(lead, copy, Clean) /\ copy' = Clean
        BY DEF HandoffCode, CommitsLead, ResumeLead
      <3>2. Written(lead, copy, Clean).miss \in {Clean.miss, lead.miss}
        BY WrittenLead, SomeTyped DEF Inv, Typed, RowsTyped, ConsumerTyped
      <3>. QED
        BY <3>1, <3>2, SomeTyped DEF Known
    <2>3. \A t \in Sweepers : found'[t].lead.miss \in Known
      BY SomeTyped DEF Known, Inv, Typed, SweepsTyped, HandoffCode, CommitsLead, ResumeLead
    <2>4. (InTurn' => messages' >= 1) /\ (lastOut' = "ai" => lastOut = "ai")
      BY DEF Inv, Typed, BoundsTyped, MissesCounted, InTurn, HandoffCode, CommitsLead,
             ResumeLead
    <2>. QED
      BY <1>1, <2>1, <2>2, <2>3, <2>4, CountsStay
  <1>3. HeldIsAi'
    BY DEF Inv, Typed, RowsTyped, ConsumerTyped, HeldIsAi, ThreadLocked, HandoffCode,
           CommitsLead, ResumeLead
  <1>. QED
    BY <1>1, <1>2, <1>3 DEF Inv

LEMMA DecideKeeps ==
    ASSUME Inv, Decide
    PROVE  Inv'
  <1>1. Typed'
    BY BoundsAreNat, SomeTyped
    DEF Inv, Typed, RowsTyped, ConsumerTyped, OperatorsTyped, SweepsTyped, HistoryTyped,
        BoundsTyped, MissesCounted, InTurn, Fault, Decide
  <1>2. MissesCounted'
    BY DEF Inv, MissesCounted, Counted, Past, Turns, Early, InTurn, Decide
  <1>3. HeldIsAi'
    BY DEF Inv, HeldIsAi, Decide
  <1>. QED
    BY <1>1, <1>2, <1>3 DEF Inv

LEMMA DecideOnInstagramKeeps ==
    ASSUME Inv, DecideOnInstagram
    PROVE  Inv'
  <1>1. Typed'
    BY BoundsAreNat, SomeTyped
    DEF Inv, Typed, RowsTyped, ConsumerTyped, OperatorsTyped, SweepsTyped, HistoryTyped,
        BoundsTyped, MissesCounted, InTurn, Fault, DecideOnInstagram
  <1>2. MissesCounted'
    <2>1. Past <= Past'
      BY <1>1 DEF Typed, BoundsTyped, Past, Turns, Early, DecideOnInstagram
    <2>2. lead'.miss \in Known /\ copy'.miss \in Known
      BY SomeTyped DEF Known, DecideOnInstagram
    <2>3. \A t \in Sweepers : found'[t].lead.miss \in Known
      BY DEF Known, DecideOnInstagram
    <2>4. (InTurn' => messages' >= 1) /\ (lastOut' = "ai" => lastOut = "ai")
      BY DEF Inv, MissesCounted, InTurn, DecideOnInstagram
    <2>. QED
      BY <1>1, <2>1, <2>2, <2>3, <2>4, CountsStay
  <1>3. HeldIsAi'
    BY DEF Inv, HeldIsAi, DecideOnInstagram
  <1>. QED
    BY <1>1, <1>2, <1>3 DEF Inv

LEMMA EscalateToHumanKeeps ==
    ASSUME Inv, EscalateToHuman
    PROVE  Inv'
  <1>1. Typed'
    BY BoundsAreNat, SomeTyped
    DEF Inv, Typed, RowsTyped, ConsumerTyped, OperatorsTyped, SweepsTyped, HistoryTyped,
        BoundsTyped, MissesCounted, InTurn, Fault, EscalateToHuman
  <1>2. MissesCounted'
    BY DEF Inv, MissesCounted, Counted, Past, Turns, Early, InTurn, EscalateToHuman
  <1>3. HeldIsAi'
    BY DEF Inv, Typed, ConsumerTyped, HeldIsAi, EscalateToHuman
  <1>. QED
    BY <1>1, <1>2, <1>3 DEF Inv

LEMMA SendHandoverKeeps ==
    ASSUME Inv, SendHandover
    PROVE  Inv'
  <1>1. Typed'
    BY BoundsAreNat, SomeTyped
    DEF Inv, Typed, RowsTyped, ConsumerTyped, OperatorsTyped, SweepsTyped, HistoryTyped,
        BoundsTyped, MissesCounted, InTurn, Fault, SendHandover
  <1>2. MissesCounted'
    BY DEF Inv, MissesCounted, Counted, Past, Turns, Early, InTurn, SendHandover
  <1>3. HeldIsAi'
    BY DEF Inv, HeldIsAi, SendHandover
  <1>. QED
    BY <1>1, <1>2, <1>3 DEF Inv

LEMMA CommitHandoverKeeps ==
    ASSUME Inv, CommitHandover
    PROVE  Inv'
  <1>1. Typed'
    <2>1. [copy EXCEPT !.handover = TRUE] \in Leads
      BY DEF Leads, Inv, Typed, ConsumerTyped
    <2>2. lead' \in Leads
      BY <2>1, WrittenLead DEF CommitHandover, Inv, Typed, RowsTyped, ConsumerTyped
    <2>3. thread' \in Threads
      BY DEF CommitHandover, Threads, Inv, Typed, RowsTyped
    <2>4. RowsTyped'
      BY <2>2, <2>3 DEF Inv, Typed, RowsTyped, CommitHandover
    <2>5. ConsumerTyped'
      BY <2>2, <2>3, BoundsAreNat, SomeTyped
      DEF Inv, Typed, MissesCounted, InTurn, BoundsTyped, ConsumerTyped, RowsTyped,
          SweepsTyped, Fault, CommitHandover, EndsTurn
    <2>6. OperatorsTyped'
      BY <2>2, <2>3, BoundsAreNat, SomeTyped
      DEF Inv, Typed, MissesCounted, InTurn, BoundsTyped, ConsumerTyped, OperatorsTyped,
          RowsTyped, SweepsTyped, Fault, CommitHandover, EndsTurn
    <2>7. SweepsTyped'
      BY <2>2, <2>3 DEF Inv, Typed, SweepsTyped, CommitHandover
    <2>8. HistoryTyped'
      BY <2>2, <2>3, BoundsAreNat, SomeTyped
      DEF Inv, Typed, MissesCounted, InTurn, BoundsTyped, ConsumerTyped, HistoryTyped,
          RowsTyped, SweepsTyped, Fault, CommitHandover, EndsTurn
    <2>9. BoundsTyped'
      BY <2>2, <2>3 DEF Inv, Typed, BoundsTyped, CommitHandover
    <2>. QED
      BY <2>4, <2>5, <2>6, <2>7, <2>8, <2>9 DEF Typed
  <1>2. MissesCounted'
    <2>1. Past <= Past'
      BY <1>1 DEF Typed, BoundsTyped, Past, Turns, Early, CommitHandover, EndsTurn
    <2>2. lead'.miss \in Known /\ copy'.miss \in Known
      <3>. DEFINE new == [copy EXCEPT !.handover = TRUE]
      <3>1. new \in Leads /\ new.miss = copy.miss
        BY DEF Leads, Inv, Typed, ConsumerTyped
      <3>2. lead' \in {lead, Written(lead, copy, new)} /\ copy' = Clean
        BY DEF CommitHandover, EndsTurn
      <3>. HIDE DEF new
      <3>3. Written(lead, copy, new).miss \in {new.miss, lead.miss}
        BY <3>1, WrittenLead DEF Inv, Typed, RowsTyped, ConsumerTyped
      <3>. QED
        BY <3>1, <3>2, <3>3, SomeTyped DEF Known
    <2>3. \A t \in Sweepers : found'[t].lead.miss \in Known
      BY DEF Known, CommitHandover, EndsTurn
    <2>4. (InTurn' => messages' >= 1) /\ (lastOut' = "ai" => lastOut = "ai")
      BY DEF InTurn, CommitHandover, EndsTurn
    <2>. QED
      BY <1>1, <2>1, <2>2, <2>3, <2>4, CountsStay
  <1>3. HeldIsAi'
    BY DEF HeldIsAi, CommitHandover, EndsTurn
  <1>. QED
    BY <1>1, <1>2, <1>3 DEF Inv

LEMMA ReplyKeeps ==
    ASSUME Inv, Reply
    PROVE  Inv'
  <1>1. Typed'
    BY BoundsAreNat, SomeTyped
    DEF Inv, Typed, RowsTyped, ConsumerTyped, OperatorsTyped, SweepsTyped, HistoryTyped,
        BoundsTyped, MissesCounted, InTurn, Fault, Reply, EndsTurn
  <1>2. MissesCounted'
    <2>1. Past' = Past /\ Past = Turns /\ 1 <= Past
      BY DEF Reply, EndsTurn, Past, Turns, Early, InTurn, Inv, MissesCounted, Typed,
             BoundsTyped
    <2>2. copy' = copy \/ copy'.miss = 0
      BY SomeTyped DEF Reply, EndsTurn
    <2>3. InTurn' => messages' >= 1
      BY DEF Reply, Inv, MissesCounted, InTurn
    <2>. QED
      BY <2>1, <2>2, <2>3 DEF Reply, Inv, MissesCounted, Counted
  <1>3. HeldIsAi'
    BY DEF Inv, Typed, RowsTyped, ConsumerTyped, HeldIsAi, ThreadLocked, Reply, EndsTurn
  <1>. QED
    BY <1>1, <1>2, <1>3 DEF Inv

LEMMA PageKeeps ==
    ASSUME Inv, Page
    PROVE  Inv'
  <1>1. Typed'
    <2>1. PICK told \in BOOLEAN : lead' = Written(lead, copy, Updated(copy, FALSE, TRUE, told))
      BY DEF Page
    <2>2. Updated(copy, FALSE, TRUE, told) \in Leads
      BY UpdatedLead DEF Inv, Typed, ConsumerTyped
    <2>3. lead' \in Leads
      BY <2>1, <2>2, WrittenLead DEF Inv, Typed, RowsTyped, ConsumerTyped
    <2>4. RowsTyped'
      BY <2>3, BoundsAreNat, SomeTyped
      DEF Inv, Typed, MissesCounted, InTurn, BoundsTyped, ConsumerTyped, RowsTyped,
          SweepsTyped, Fault, Page, EndsTurn
    <2>5. ConsumerTyped'
      BY <2>3, BoundsAreNat, SomeTyped
      DEF Inv, Typed, MissesCounted, InTurn, BoundsTyped, ConsumerTyped, RowsTyped,
          SweepsTyped, Fault, Page, EndsTurn
    <2>6. OperatorsTyped'
      BY <2>3, BoundsAreNat, SomeTyped
      DEF Inv, Typed, MissesCounted, InTurn, BoundsTyped, ConsumerTyped, OperatorsTyped,
          RowsTyped, SweepsTyped, Fault, Page, EndsTurn
    <2>7. SweepsTyped'
      BY <2>3 DEF Inv, Typed, SweepsTyped, Page
    <2>8. HistoryTyped'
      BY <2>3, BoundsAreNat, SomeTyped
      DEF Inv, Typed, MissesCounted, InTurn, BoundsTyped, ConsumerTyped, HistoryTyped,
          RowsTyped, SweepsTyped, Fault, Page, EndsTurn
    <2>9. BoundsTyped'
      BY <2>3 DEF Inv, Typed, BoundsTyped, Page
    <2>. QED
      BY <2>4, <2>5, <2>6, <2>7, <2>8, <2>9 DEF Typed
  <1>2. MissesCounted'
    <2>1. PICK told \in BOOLEAN : lead' = Written(lead, copy, Updated(copy, FALSE, TRUE, told))
      BY DEF Page
    <2>2. /\ Updated(copy, FALSE, TRUE, told) \in Leads
          /\ Updated(copy, FALSE, TRUE, told).miss = 0
      BY UpdatedLead DEF Missed, Inv, Typed, ConsumerTyped
    <2>. DEFINE new == Updated(copy, FALSE, TRUE, told)
    <2>. HIDE DEF new
    <2>3. lead'.miss \in Known /\ copy'.miss \in Known
      <3>1. lead' = Written(lead, copy, new) /\ copy' = Clean
        BY <2>1 DEF Page, EndsTurn, new
      <3>2. new \in Leads /\ new.miss = 0
        BY <2>2 DEF new
      <3>3. Written(lead, copy, new).miss \in {new.miss, lead.miss}
        BY <3>2, WrittenLead DEF Inv, Typed, RowsTyped, ConsumerTyped
      <3>. QED
        BY <3>1, <3>2, <3>3, SomeTyped DEF Known
    <2>4. Past' = Past /\ ~InTurn'
      BY DEF Page, EndsTurn, Past, Turns, Early, InTurn
    <2>5. \A s \in Sweepers : found'[s].lead.miss \in Known
      BY DEF Page, Known
    <2>. QED
      <3>1. Past <= Past' /\ lastOut' = lastOut
        BY <2>4, PastIsInt DEF Page, Inv
      <3>. QED
        BY <1>1, <2>3, <2>4, <2>5, <3>1, CountsStay
  <1>3. HeldIsAi'
    BY DEF HeldIsAi, Page, EndsTurn
  <1>. QED
    BY <1>1, <1>2, <1>3 DEF Inv

LEMMA ConsumerCrashKeeps ==
    ASSUME Inv, ConsumerCrash
    PROVE  Inv'
  <1>1. Typed'
    <2>1. RowsTyped'
      BY DEF Inv, Typed, RowsTyped, ConsumerCrash
    <2>2. ConsumerTyped'
      BY BoundsAreNat, SomeTyped
      DEF Inv, Typed, MissesCounted, InTurn, BoundsTyped, ConsumerTyped, RowsTyped,
          SweepsTyped, Fault, ConsumerCrash, EndsTurn
    <2>3. OperatorsTyped'
      BY BoundsAreNat, SomeTyped
      DEF Inv, Typed, MissesCounted, InTurn, BoundsTyped, ConsumerTyped, OperatorsTyped,
          RowsTyped, SweepsTyped, Fault, ConsumerCrash, EndsTurn
    <2>4. SweepsTyped'
      BY DEF Inv, Typed, SweepsTyped, ConsumerCrash
    <2>5. HistoryTyped'
      BY BoundsAreNat, SomeTyped
      DEF Inv, Typed, MissesCounted, InTurn, BoundsTyped, ConsumerTyped, HistoryTyped,
          RowsTyped, SweepsTyped, Fault, ConsumerCrash, EndsTurn
    <2>6. BoundsTyped'
      BY BoundsAreNat
      DEF Inv, Typed, MissesCounted, InTurn, BoundsTyped, Fault, ConsumerCrash
    <2>. QED
      BY <2>1, <2>2, <2>3, <2>4, <2>5, <2>6 DEF Typed
  <1>2. MissesCounted'
    <2>1. Past <= Past'
      BY <1>1
      DEF Inv, Typed, BoundsTyped, Past, Turns, Early, Fault, ConsumerCrash, EndsTurn
    <2>2. lead'.miss \in Known /\ copy'.miss \in Known
      BY SomeTyped DEF Known, ConsumerCrash, EndsTurn
    <2>3. \A t \in Sweepers : found'[t].lead.miss \in Known
      BY DEF Known, ConsumerCrash, EndsTurn
    <2>4. (InTurn' => messages' >= 1) /\ (lastOut' = "ai" => lastOut = "ai")
      BY DEF InTurn, ConsumerCrash, EndsTurn
    <2>. QED
      BY <1>1, <2>1, <2>2, <2>3, <2>4, CountsStay
  <1>3. HeldIsAi'
    BY DEF HeldIsAi, ConsumerCrash, EndsTurn
  <1>. QED
    BY <1>1, <1>2, <1>3 DEF Inv

LEMMA AskKeeps ==
    ASSUME Inv, NEW o \in Operators, Ask(o)
    PROVE  Inv'
  <1>1. Typed'
    <2>1. RowsTyped'
      BY BoundsAreNat, SomeTyped
      DEF Inv, Typed, MissesCounted, InTurn, BoundsTyped, ConsumerTyped, RowsTyped,
          SweepsTyped, Fault, Ask, Overlaps
    <2>2. ConsumerTyped'
      BY BoundsAreNat, SomeTyped
      DEF Inv, Typed, MissesCounted, InTurn, BoundsTyped, ConsumerTyped, RowsTyped,
          SweepsTyped, Fault, Ask, Overlaps
    <2>3. OperatorsTyped'
      BY BoundsAreNat, SomeTyped
      DEF Inv, Typed, MissesCounted, InTurn, BoundsTyped, ConsumerTyped, OperatorsTyped,
          RowsTyped, SweepsTyped, Fault, Ask, Overlaps
    <2>4. SweepsTyped'
      BY BoundsAreNat, SomeTyped
      DEF Inv, Typed, MissesCounted, InTurn, BoundsTyped, ConsumerTyped, RowsTyped,
          SweepsTyped, Fault, Ask, Overlaps
    <2>5. HistoryTyped'
      BY BoundsAreNat, SomeTyped
      DEF Inv, Typed, MissesCounted, InTurn, BoundsTyped, ConsumerTyped, HistoryTyped,
          RowsTyped, SweepsTyped, Fault, Ask, Overlaps
    <2>6. BoundsTyped'
      <3>1. orders' = orders + 1 /\ orders < MaxOrders /\ messages' = messages /\ faults' = faults
        BY DEF Ask
      <3>. QED
        BY <3>1, BoundsAreNat DEF Inv, Typed, BoundsTyped
    <2>. QED
      BY <2>1, <2>2, <2>3, <2>4, <2>5, <2>6 DEF Typed
  <1>2. MissesCounted'
    BY BoundsAreNat, SomeTyped
    DEF Inv, Typed, RowsTyped, ConsumerTyped, SweepsTyped, BoundsTyped, Leads,
        MissesCounted, Counted, Past, Turns, Early, InTurn, Fault, Ask, Overlaps
  <1>3. HeldIsAi'
    BY DEF Inv, Typed, RowsTyped, ConsumerTyped, HeldIsAi, ThreadLocked, Ask, Overlaps
  <1>. QED
    BY <1>1, <1>2, <1>3 DEF Inv

LEMMA TakeOverKeeps ==
    ASSUME Inv, NEW o \in Operators, TakeOver(o)
    PROVE  Inv'
  <1>1. Typed'
    <2>1. [mode |-> "human", by |-> "person"] \in Threads
      BY DEF Threads
    <2>2. thread' \in Threads
      BY <2>1, WrittenThread DEF TakeOver, Inv, Typed, RowsTyped, OperatorsTyped
    <2>3. RowsTyped'
      BY <2>2, SomeTyped DEF Inv, Typed, RowsTyped, TakeOver
    <2>4. ConsumerTyped'
      BY <2>2 DEF Inv, Typed, ConsumerTyped, TakeOver
    <2>5. OperatorsTyped'
      BY <2>2, BoundsAreNat, SomeTyped
      DEF Inv, Typed, MissesCounted, InTurn, BoundsTyped, ConsumerTyped, OperatorsTyped,
          RowsTyped, SweepsTyped, Fault, TakeOver, Done
    <2>6. SweepsTyped'
      BY <2>2 DEF Inv, Typed, SweepsTyped, TakeOver
    <2>7. HistoryTyped'
      BY <2>2, BoundsAreNat, SomeTyped
      DEF Inv, Typed, MissesCounted, InTurn, BoundsTyped, ConsumerTyped, HistoryTyped,
          RowsTyped, SweepsTyped, Fault, TakeOver, Done
    <2>8. BoundsTyped'
      BY <2>2 DEF Inv, Typed, BoundsTyped, TakeOver
    <2>. QED
      BY <2>3, <2>4, <2>5, <2>6, <2>7, <2>8 DEF Typed
  <1>2. MissesCounted'
    BY SomeTyped DEF Inv, MissesCounted, Counted, Past, Turns, Early, InTurn, TakeOver
  <1>3. HeldIsAi'
    BY DEF Inv, HeldIsAi, ThreadLocked, TakeOver
  <1>. QED
    BY <1>1, <1>2, <1>3 DEF Inv

LEMMA GiveBackKeeps ==
    ASSUME Inv, NEW o \in Operators, GiveBack(o)
    PROVE  Inv'
  <1>1. Typed'
    <2>1. [mode |-> "ai", by |-> "person"] \in Threads
      BY DEF Threads
    <2>2. thread' \in Threads
      BY <2>1, WrittenThread DEF GiveBack, Inv, Typed, RowsTyped, OperatorsTyped
    <2>3. RowsTyped'
      BY <2>2, SomeTyped DEF Inv, Typed, RowsTyped, GiveBack
    <2>4. ConsumerTyped'
      BY <2>2 DEF Inv, Typed, ConsumerTyped, GiveBack
    <2>5. OperatorsTyped'
      BY <2>2, BoundsAreNat, SomeTyped
      DEF Inv, Typed, MissesCounted, InTurn, BoundsTyped, ConsumerTyped, OperatorsTyped,
          RowsTyped, SweepsTyped, Fault, GiveBack, Done
    <2>6. SweepsTyped'
      BY <2>2 DEF Inv, Typed, SweepsTyped, GiveBack
    <2>7. HistoryTyped'
      BY <2>2, BoundsAreNat, SomeTyped
      DEF Inv, Typed, MissesCounted, InTurn, BoundsTyped, ConsumerTyped, HistoryTyped,
          RowsTyped, SweepsTyped, Fault, GiveBack, Done
    <2>8. BoundsTyped'
      BY <2>2 DEF Inv, Typed, BoundsTyped, GiveBack
    <2>. QED
      BY <2>3, <2>4, <2>5, <2>6, <2>7, <2>8 DEF Typed
  <1>2. MissesCounted'
    BY SomeTyped DEF Inv, MissesCounted, Counted, Past, Turns, Early, InTurn, GiveBack
  <1>3. HeldIsAi'
    BY DEF Inv, HeldIsAi, ThreadLocked, GiveBack
  <1>. QED
    BY <1>1, <1>2, <1>3 DEF Inv

LEMMA ResolveLeadKeeps ==
    ASSUME Inv, NEW o \in Operators, ResolveLead(o)
    PROVE  Inv'
  <1>1. Typed'
    BY BoundsAreNat, SomeTyped
    DEF Inv, Typed, RowsTyped, ConsumerTyped, OperatorsTyped, SweepsTyped, HistoryTyped,
        BoundsTyped, MissesCounted, InTurn, Fault, ResolveLead, Done
  <1>2. MissesCounted'
    BY SomeTyped DEF Inv, MissesCounted, Counted, Past, Turns, Early, InTurn, ResolveLead
  <1>3. HeldIsAi'
    BY DEF Inv, HeldIsAi, ResolveLead
  <1>. QED
    BY <1>1, <1>2, <1>3 DEF Inv

LEMMA AlreadySoKeeps ==
    ASSUME Inv, NEW o \in Operators, AlreadySo(o)
    PROVE  Inv'
  <1>1. Typed'
    BY BoundsAreNat, SomeTyped
    DEF Inv, Typed, RowsTyped, ConsumerTyped, OperatorsTyped, SweepsTyped, HistoryTyped,
        BoundsTyped, MissesCounted, InTurn, Fault, AlreadySo, Done
  <1>2. MissesCounted'
    BY BoundsAreNat, SomeTyped
    DEF Inv, Typed, RowsTyped, ConsumerTyped, SweepsTyped, BoundsTyped, Leads,
        MissesCounted, Counted, Past, Turns, Early, InTurn, Fault, AlreadySo, Done
  <1>3. HeldIsAi'
    BY DEF Inv, Typed, RowsTyped, ConsumerTyped, HeldIsAi, ThreadLocked, AlreadySo, Done
  <1>. QED
    BY <1>1, <1>2, <1>3 DEF Inv

LEMMA OrderFailsKeeps ==
    ASSUME Inv, NEW o \in Operators, OrderFails(o)
    PROVE  Inv'
  <1>1. Typed'
    BY BoundsAreNat, SomeTyped
    DEF Inv, Typed, RowsTyped, ConsumerTyped, OperatorsTyped, SweepsTyped, HistoryTyped,
        BoundsTyped, MissesCounted, InTurn, Fault, OrderFails, Done
  <1>2. MissesCounted'
    BY DEF Inv, MissesCounted, Counted, Past, Turns, Early, InTurn, OrderFails
  <1>3. HeldIsAi'
    BY DEF Inv, HeldIsAi, OrderFails
  <1>. QED
    BY <1>1, <1>2, <1>3 DEF Inv

LEMMA FindReminderKeeps ==
    ASSUME Inv, NEW s \in Sweepers, FindReminder(s)
    PROVE  Inv'
  <1>1. Typed'
    BY BoundsAreNat, SomeTyped
    DEF Inv, Typed, RowsTyped, ConsumerTyped, OperatorsTyped, SweepsTyped, HistoryTyped,
        BoundsTyped, MissesCounted, InTurn, Fault, FindReminder, Moves
  <1>2. MissesCounted'
    BY DEF Inv, MissesCounted, Counted, Past, Turns, Early, InTurn, FindReminder
  <1>3. HeldIsAi'
    BY DEF Inv, HeldIsAi, FindReminder
  <1>. QED
    BY <1>1, <1>2, <1>3 DEF Inv

LEMMA SendReminderKeeps ==
    ASSUME Inv, NEW s \in Sweepers, SendReminder(s)
    PROVE  Inv'
  <1>1. Typed'
    BY BoundsAreNat, SomeTyped
    DEF Inv, Typed, RowsTyped, ConsumerTyped, OperatorsTyped, SweepsTyped, HistoryTyped,
        BoundsTyped, MissesCounted, InTurn, Fault, SendReminder, Moves
  <1>2. MissesCounted'
    BY DEF Inv, MissesCounted, Counted, Past, Turns, Early, InTurn, SendReminder
  <1>3. HeldIsAi'
    BY DEF Inv, HeldIsAi, SendReminder
  <1>. QED
    BY <1>1, <1>2, <1>3 DEF Inv

LEMMA FindOverdueKeeps ==
    ASSUME Inv, NEW s \in Sweepers, FindOverdue(s)
    PROVE  Inv'
  <1>1. Typed'
    <2>1. Before(s) \in Leads
      BY DEF Before, Leads, Inv, Typed, RowsTyped
    <2>2. RowsTyped'
      BY <2>1 DEF Inv, Typed, RowsTyped, FindOverdue
    <2>3. ConsumerTyped'
      BY <2>1 DEF Inv, Typed, ConsumerTyped, FindOverdue
    <2>4. OperatorsTyped'
      BY <2>1, BoundsAreNat, SomeTyped
      DEF Inv, Typed, MissesCounted, InTurn, BoundsTyped, ConsumerTyped, OperatorsTyped,
          RowsTyped, SweepsTyped, Fault, FindOverdue, Moves, Overlaps, Before
    <2>5. SweepsTyped'
      BY <2>1 DEF Inv, Typed, RowsTyped, SweepsTyped, FindOverdue, Moves
    <2>6. HistoryTyped'
      BY <2>1, BoundsAreNat, SomeTyped
      DEF Inv, Typed, MissesCounted, InTurn, BoundsTyped, ConsumerTyped, HistoryTyped,
          RowsTyped, SweepsTyped, Fault, FindOverdue, Moves, Overlaps, Before
    <2>7. BoundsTyped'
      BY <2>1 DEF Inv, Typed, BoundsTyped, FindOverdue
    <2>. QED
      BY <2>2, <2>3, <2>4, <2>5, <2>6, <2>7 DEF Typed
  <1>2. MissesCounted'
    BY DEF Inv, MissesCounted, Counted, Past, Turns, Early, InTurn, FindOverdue, Before
  <1>3. HeldIsAi'
    BY DEF Inv, HeldIsAi, FindOverdue
  <1>. QED
    BY <1>1, <1>2, <1>3 DEF Inv

LEMMA NothingOverdueKeeps ==
    ASSUME Inv, NEW s \in Sweepers, NothingOverdue(s)
    PROVE  Inv'
  <1>1. Typed'
    <2>1. lead' \in Leads
      BY DEF NothingOverdue, Leads, Inv, Typed, RowsTyped
    <2>2. RowsTyped'
      BY <2>1 DEF Inv, Typed, RowsTyped, NothingOverdue
    <2>3. ConsumerTyped'
      BY <2>1 DEF Inv, Typed, ConsumerTyped, NothingOverdue
    <2>4. OperatorsTyped'
      BY <2>1, BoundsAreNat, SomeTyped
      DEF Inv, Typed, MissesCounted, InTurn, BoundsTyped, ConsumerTyped, OperatorsTyped,
          RowsTyped, SweepsTyped, Fault, NothingOverdue, Moves
    <2>5. SweepsTyped'
      BY <2>1 DEF Inv, Typed, SweepsTyped, NothingOverdue, Moves
    <2>6. HistoryTyped'
      BY <2>1, BoundsAreNat, SomeTyped
      DEF Inv, Typed, MissesCounted, InTurn, BoundsTyped, ConsumerTyped, HistoryTyped,
          RowsTyped, SweepsTyped, Fault, NothingOverdue, Moves
    <2>7. BoundsTyped'
      BY <2>1 DEF Inv, Typed, BoundsTyped, NothingOverdue
    <2>. QED
      BY <2>2, <2>3, <2>4, <2>5, <2>6, <2>7 DEF Typed
  <1>2. MissesCounted'
    BY DEF Inv, MissesCounted, Counted, Past, Turns, Early, InTurn, NothingOverdue
  <1>3. HeldIsAi'
    BY DEF Inv, HeldIsAi, NothingOverdue
  <1>. QED
    BY <1>1, <1>2, <1>3 DEF Inv

LEMMA ResumeKeeps ==
    ASSUME Inv, NEW s \in Sweepers, Resume(s)
    PROVE  Inv'
  <1>1. Typed'
    <2>1. [mode |-> "ai", by |-> "system"] \in Threads
      BY DEF Threads
    <2>2. found[s].lead \in Leads /\ found[s].thread \in Threads
      BY DEF Inv, Typed, SweepsTyped
    <2>3. lead' \in Leads /\ thread' \in Threads
      BY <2>1, <2>2, WrittenLead, WrittenThread, SomeTyped
      DEF Resume, ResumeLead, Inv, Typed, RowsTyped
    <2>4. RowsTyped'
      BY <2>3 DEF Inv, Typed, RowsTyped, Resume
    <2>5. ConsumerTyped'
      BY <2>3 DEF Inv, Typed, ConsumerTyped, Resume
    <2>6. OperatorsTyped'
      BY <2>3, BoundsAreNat, SomeTyped
      DEF Inv, Typed, MissesCounted, InTurn, BoundsTyped, ConsumerTyped, OperatorsTyped,
          RowsTyped, SweepsTyped, Fault, Resume, Moves, ResumeLead
    <2>7. SweepsTyped'
      BY <2>3, SomeTyped DEF Inv, Typed, SweepsTyped, Resume, Moves
    <2>8. HistoryTyped'
      BY <2>3, BoundsAreNat, SomeTyped
      DEF Inv, Typed, MissesCounted, InTurn, BoundsTyped, ConsumerTyped, HistoryTyped,
          RowsTyped, SweepsTyped, Fault, Resume, Moves, ResumeLead
    <2>9. BoundsTyped'
      BY <2>3 DEF Inv, Typed, BoundsTyped, Resume
    <2>. QED
      BY <2>4, <2>5, <2>6, <2>7, <2>8, <2>9 DEF Typed
  <1>2. MissesCounted'
    <2>1. Past <= Past'
      BY <1>1 DEF Typed, BoundsTyped, Past, Turns, Early, Resume
    <2>2. lead'.miss \in Known /\ copy'.miss \in Known
      <3>1. found[s].lead \in Leads
        BY DEF Inv, Typed, SweepsTyped
      <3>. QED
        BY <3>1, WrittenLead, SomeTyped DEF Resume, ResumeLead, Known, Inv, Typed, RowsTyped
    <2>3. \A t \in Sweepers : found'[t].lead.miss \in Known
      BY SomeTyped DEF Known, Resume
    <2>4. (InTurn' => messages' >= 1) /\ (lastOut' = "ai" => lastOut = "ai")
      BY DEF Inv, MissesCounted, InTurn, Resume
    <2>. QED
      BY <1>1, <2>1, <2>2, <2>3, <2>4, CountsStay
  <1>3. HeldIsAi'
    <2>1. CASE held
      <3>1. ThreadLocked
        BY <2>1 DEF Inv, HeldIsAi, ThreadLocked
      <3>2. found[s].thread.mode = "ai"
        BY <3>1 DEF Resume, Inv, Typed, SweepsTyped, Threads
      <3>. QED
        BY <3>2 DEF Resume, Inv, HeldIsAi
    <2>2. CASE ~held
      BY <2>2 DEF Resume, HeldIsAi
    <2>. QED
      BY <2>1, <2>2
  <1>. QED
    BY <1>1, <1>2, <1>3 DEF Inv

LEMMA SweepFailsKeeps ==
    ASSUME Inv, NEW s \in Sweepers, SweepFails(s)
    PROVE  Inv'
  <1>1. Typed'
    <2>1. RowsTyped'
      BY DEF Inv, Typed, RowsTyped, SweepFails
    <2>2. ConsumerTyped'
      BY DEF Inv, Typed, ConsumerTyped, SweepFails
    <2>3. OperatorsTyped'
      BY BoundsAreNat, SomeTyped
      DEF Inv, Typed, MissesCounted, InTurn, BoundsTyped, ConsumerTyped, OperatorsTyped,
          RowsTyped, SweepsTyped, Fault, SweepFails, Moves
    <2>4. SweepsTyped'
      BY SomeTyped DEF Inv, Typed, SweepsTyped, SweepFails, Moves
    <2>5. HistoryTyped'
      BY BoundsAreNat, SomeTyped
      DEF Inv, Typed, MissesCounted, InTurn, BoundsTyped, ConsumerTyped, HistoryTyped,
          RowsTyped, SweepsTyped, Fault, SweepFails, Moves
    <2>6. BoundsTyped'
      BY BoundsAreNat DEF Inv, Typed, BoundsTyped, Fault, SweepFails
    <2>. QED
      BY <2>1, <2>2, <2>3, <2>4, <2>5, <2>6 DEF Typed
  <1>2. MissesCounted'
    <2>1. Past <= Past'
      BY <1>1 DEF Inv, Typed, BoundsTyped, Past, Turns, Fault, SweepFails
    <2>2. lead'.miss \in Known /\ copy'.miss \in Known
      BY DEF Known, SweepFails, Moves
    <2>3. \A t \in Sweepers : found'[t].lead.miss \in Known
      BY SomeTyped DEF Known, SweepFails
    <2>4. (InTurn' => messages' >= 1) /\ (lastOut' = "ai" => lastOut = "ai")
      BY DEF Inv, MissesCounted, InTurn, SweepFails
    <2>. QED
      BY <1>1, <2>1, <2>2, <2>3, <2>4, CountsStay
  <1>3. HeldIsAi'
    BY DEF Inv, HeldIsAi, SweepFails
  <1>. QED
    BY <1>1, <1>2, <1>3 DEF Inv

LEMMA WindowPassesKeeps ==
    ASSUME Inv, WindowPasses
    PROVE  Inv'
  <1>1. Typed'
    <2>1. lead' \in Leads
      BY DEF WindowPasses, Leads, Inv, Typed, RowsTyped
    <2>2. RowsTyped'
      BY <2>1 DEF Inv, Typed, RowsTyped, WindowPasses
    <2>3. ConsumerTyped'
      BY <2>1 DEF Inv, Typed, ConsumerTyped, WindowPasses
    <2>4. OperatorsTyped'
      BY <2>1, BoundsAreNat, SomeTyped
      DEF Inv, Typed, MissesCounted, InTurn, BoundsTyped, ConsumerTyped, OperatorsTyped,
          RowsTyped, SweepsTyped, Fault, WindowPasses
    <2>5. SweepsTyped'
      BY <2>1 DEF Inv, Typed, SweepsTyped, WindowPasses
    <2>6. HistoryTyped'
      BY <2>1, BoundsAreNat, SomeTyped
      DEF Inv, Typed, MissesCounted, InTurn, BoundsTyped, ConsumerTyped, HistoryTyped,
          RowsTyped, SweepsTyped, Fault, WindowPasses
    <2>7. BoundsTyped'
      BY <2>1 DEF Inv, Typed, BoundsTyped, WindowPasses
    <2>. QED
      BY <2>2, <2>3, <2>4, <2>5, <2>6, <2>7 DEF Typed
  <1>2. MissesCounted'
    BY DEF Inv, MissesCounted, Counted, Past, Turns, Early, InTurn, WindowPasses
  <1>3. HeldIsAi'
    BY DEF Inv, HeldIsAi, WindowPasses
  <1>. QED
    BY <1>1, <1>2, <1>3 DEF Inv

LEMMA ReminderFallsDueKeeps ==
    ASSUME Inv, ReminderFallsDue
    PROVE  Inv'
  <1>1. Typed'
    <2>1. lead' \in Leads
      BY DEF ReminderFallsDue, Leads, Inv, Typed, RowsTyped
    <2>2. RowsTyped'
      BY <2>1 DEF Inv, Typed, RowsTyped, ReminderFallsDue
    <2>3. ConsumerTyped'
      BY <2>1 DEF Inv, Typed, ConsumerTyped, ReminderFallsDue
    <2>4. OperatorsTyped'
      BY <2>1, BoundsAreNat, SomeTyped
      DEF Inv, Typed, MissesCounted, InTurn, BoundsTyped, ConsumerTyped, OperatorsTyped,
          RowsTyped, SweepsTyped, Fault, ReminderFallsDue
    <2>5. SweepsTyped'
      BY <2>1 DEF Inv, Typed, SweepsTyped, ReminderFallsDue
    <2>6. HistoryTyped'
      BY <2>1, BoundsAreNat, SomeTyped
      DEF Inv, Typed, MissesCounted, InTurn, BoundsTyped, ConsumerTyped, HistoryTyped,
          RowsTyped, SweepsTyped, Fault, ReminderFallsDue
    <2>7. BoundsTyped'
      BY <2>1 DEF Inv, Typed, BoundsTyped, ReminderFallsDue
    <2>. QED
      BY <2>2, <2>3, <2>4, <2>5, <2>6, <2>7 DEF Typed
  <1>2. MissesCounted'
    BY DEF Inv, MissesCounted, Counted, Past, Turns, Early, InTurn, ReminderFallsDue
  <1>3. HeldIsAi'
    BY DEF Inv, HeldIsAi, ReminderFallsDue
  <1>. QED
    BY <1>1, <1>2, <1>3 DEF Inv

-----------------------------------------------------------------------------
(* Takeovers                                                               *)

LEMMA TakeTakeovers ==
    ASSUME Inv, Takeovers, Take
    PROVE  Takeovers'
  <1>. SUFFICES ASSUME NoRace' PROVE (AskersAlone /\ SeenHolds /\ MutedIsCalm /\ PersonHolds)'
    BY DEF Takeovers
  <1>0. NoRace
    BY DEF NoRace, Take, Overlaps
  <1>1. AskersAlone'
    BY <1>0
    DEF Inv, Typed, OperatorsTyped, SweepsTyped, Takeovers, AskersAlone, NoRace, Asking,
        Resuming, Take, Overlaps
  <1>2. SeenHolds'
    BY <1>0
    DEF Inv, Typed, RowsTyped, OperatorsTyped, SweepsTyped, HeldIsAi, ThreadLocked, Threads,
        Takeovers, AskersAlone, SeenHolds, Muted, NoRace, Asking, Resuming, Take, Overlaps
  <1>3. MutedIsCalm'
    BY <1>0
    DEF Inv, Typed, RowsTyped, OperatorsTyped, SweepsTyped, HeldIsAi, ThreadLocked, Threads,
        Takeovers, AskersAlone, SeenHolds, MutedIsCalm, Muted, NoRace, Asking, Resuming,
        Take, Overlaps
  <1>4. PersonHolds'
    BY <1>0, SomeTyped
    DEF Inv, Typed, RowsTyped, ConsumerTyped, OperatorsTyped, SweepsTyped, HeldIsAi,
        ThreadLocked, Threads, Takeovers, AskersAlone, SeenHolds, MutedIsCalm, PersonHolds,
        Muted, NoRace, Asking, Resuming, ShouldAiReply, Take, Overlaps
  <1>. QED
    BY <1>1, <1>2, <1>3, <1>4

LEMMA GateTakeovers ==
    ASSUME Inv, Takeovers, Gate
    PROVE  Takeovers'
  <1>. SUFFICES ASSUME NoRace' PROVE (AskersAlone /\ SeenHolds /\ MutedIsCalm /\ PersonHolds)'
    BY DEF Takeovers
  <1>0. NoRace
    BY DEF NoRace, Gate, EndsTurn
  <1>1. AskersAlone'
    BY <1>0
    DEF Inv, Typed, OperatorsTyped, SweepsTyped, Takeovers, AskersAlone, NoRace, Asking,
        Resuming, Gate, EndsTurn
  <1>2. SeenHolds'
    BY <1>0
    DEF Inv, Typed, RowsTyped, OperatorsTyped, SweepsTyped, HeldIsAi, ThreadLocked, Threads,
        Takeovers, AskersAlone, SeenHolds, Muted, NoRace, Asking, Resuming, Gate, EndsTurn
  <1>3. MutedIsCalm'
    <2>1. Muted' = Muted /\ talk = "gating"
      BY DEF Gate, Muted
    <2>2. Muted => thread.mode = "human"
      BY DEF Muted
    <2>3. thread.mode = "human" => talk' \in {"escalating", "idle"}
      BY DEF Gate, EndsTurn
    <2>. QED
      BY <2>1, <2>2, <2>3 DEF MutedIsCalm
  <1>4. PersonHolds'
    BY <1>0, SomeTyped
    DEF Inv, Typed, RowsTyped, ConsumerTyped, OperatorsTyped, SweepsTyped, HeldIsAi,
        ThreadLocked, Threads, Takeovers, AskersAlone, SeenHolds, MutedIsCalm, PersonHolds,
        Muted, NoRace, Asking, Resuming, ShouldAiReply, Gate, EndsTurn
  <1>. QED
    BY <1>1, <1>2, <1>3, <1>4

LEMMA JudgeTakeovers ==
    ASSUME Inv, Takeovers, Judge
    PROVE  Takeovers'
  <1>. SUFFICES ASSUME NoRace' PROVE (AskersAlone /\ SeenHolds /\ MutedIsCalm /\ PersonHolds)'
    BY DEF Takeovers
  <1>0. NoRace
    BY DEF NoRace, Judge, CommitsLead
  <1>1. AskersAlone'
    BY <1>0
    DEF Inv, Typed, OperatorsTyped, SweepsTyped, Takeovers, AskersAlone, NoRace, Asking,
        Resuming, Judge, CommitsLead
  <1>2. SeenHolds'
    BY <1>0
    DEF Inv, Typed, RowsTyped, OperatorsTyped, SweepsTyped, HeldIsAi, ThreadLocked, Threads,
        Takeovers, AskersAlone, SeenHolds, Muted, NoRace, Asking, Resuming, Judge,
        CommitsLead
  <1>3. MutedIsCalm'
    BY <1>0
    DEF Inv, Typed, RowsTyped, OperatorsTyped, SweepsTyped, HeldIsAi, ThreadLocked, Threads,
        Takeovers, AskersAlone, SeenHolds, MutedIsCalm, Muted, NoRace, Asking, Resuming,
        Judge, CommitsLead
  <1>4. PersonHolds'
    BY <1>0, SomeTyped
    DEF Inv, Typed, RowsTyped, ConsumerTyped, OperatorsTyped, SweepsTyped, HeldIsAi,
        ThreadLocked, Threads, Takeovers, AskersAlone, SeenHolds, MutedIsCalm, PersonHolds,
        Muted, NoRace, Asking, Resuming, ShouldAiReply, Judge, CommitsLead
  <1>. QED
    BY <1>1, <1>2, <1>3, <1>4

LEMMA HandoffCodeTakeovers ==
    ASSUME Inv, Takeovers, HandoffCode
    PROVE  Takeovers'
  <1>. SUFFICES ASSUME NoRace' PROVE (AskersAlone /\ SeenHolds /\ MutedIsCalm /\ PersonHolds)'
    BY DEF Takeovers
  <1>0. NoRace
    BY DEF NoRace, HandoffCode, CommitsLead, ResumeLead
  <1>1. AskersAlone'
    BY <1>0
    DEF Inv, Typed, OperatorsTyped, SweepsTyped, Takeovers, AskersAlone, NoRace, Asking,
        Resuming, HandoffCode, CommitsLead, ResumeLead
  <1>2. SeenHolds'
    BY <1>0
    DEF Inv, Typed, RowsTyped, OperatorsTyped, SweepsTyped, HeldIsAi, ThreadLocked, Threads,
        Takeovers, AskersAlone, SeenHolds, Muted, NoRace, Asking, Resuming, HandoffCode,
        CommitsLead, ResumeLead
  <1>3. MutedIsCalm'
    BY <1>0
    DEF Inv, Typed, RowsTyped, OperatorsTyped, SweepsTyped, HeldIsAi, ThreadLocked, Threads,
        Takeovers, AskersAlone, SeenHolds, MutedIsCalm, Muted, NoRace, Asking, Resuming,
        HandoffCode, CommitsLead, ResumeLead
  <1>4. PersonHolds'
    BY <1>0, SomeTyped
    DEF Inv, Typed, RowsTyped, ConsumerTyped, OperatorsTyped, SweepsTyped, HeldIsAi,
        ThreadLocked, Threads, Takeovers, AskersAlone, SeenHolds, MutedIsCalm, PersonHolds,
        Muted, NoRace, Asking, Resuming, ShouldAiReply, HandoffCode, CommitsLead, ResumeLead
  <1>. QED
    BY <1>1, <1>2, <1>3, <1>4

LEMMA DecideTakeovers ==
    ASSUME Inv, Takeovers, Decide
    PROVE  Takeovers'
  <1>. SUFFICES ASSUME NoRace' PROVE (AskersAlone /\ SeenHolds /\ MutedIsCalm /\ PersonHolds)'
    BY DEF Takeovers
  <1>0. NoRace
    BY DEF NoRace, Decide
  <1>1. AskersAlone'
    BY <1>0
    DEF Inv, Typed, OperatorsTyped, SweepsTyped, Takeovers, AskersAlone, NoRace, Asking,
        Resuming, Decide
  <1>2. SeenHolds'
    BY <1>0
    DEF Inv, Typed, RowsTyped, OperatorsTyped, SweepsTyped, HeldIsAi, ThreadLocked, Threads,
        Takeovers, AskersAlone, SeenHolds, Muted, NoRace, Asking, Resuming, Decide
  <1>3. MutedIsCalm'
    BY <1>0
    DEF Inv, Typed, RowsTyped, OperatorsTyped, SweepsTyped, HeldIsAi, ThreadLocked, Threads,
        Takeovers, AskersAlone, SeenHolds, MutedIsCalm, Muted, NoRace, Asking, Resuming,
        Decide
  <1>4. PersonHolds'
    BY <1>0, SomeTyped
    DEF Inv, Typed, RowsTyped, ConsumerTyped, OperatorsTyped, SweepsTyped, HeldIsAi,
        ThreadLocked, Threads, Takeovers, AskersAlone, SeenHolds, MutedIsCalm, PersonHolds,
        Muted, NoRace, Asking, Resuming, ShouldAiReply, Decide
  <1>. QED
    BY <1>1, <1>2, <1>3, <1>4

LEMMA DecideOnInstagramTakeovers ==
    ASSUME Inv, Takeovers, DecideOnInstagram
    PROVE  Takeovers'
  <1>. SUFFICES ASSUME NoRace' PROVE (AskersAlone /\ SeenHolds /\ MutedIsCalm /\ PersonHolds)'
    BY DEF Takeovers
  <1>0. NoRace
    BY DEF NoRace, DecideOnInstagram
  <1>1. AskersAlone'
    BY <1>0
    DEF Inv, Typed, OperatorsTyped, SweepsTyped, Takeovers, AskersAlone, NoRace, Asking,
        Resuming, DecideOnInstagram
  <1>2. SeenHolds'
    BY <1>0
    DEF Inv, Typed, RowsTyped, OperatorsTyped, SweepsTyped, HeldIsAi, ThreadLocked, Threads,
        Takeovers, AskersAlone, SeenHolds, Muted, NoRace, Asking, Resuming,
        DecideOnInstagram
  <1>3. MutedIsCalm'
    BY <1>0
    DEF Inv, Typed, RowsTyped, OperatorsTyped, SweepsTyped, HeldIsAi, ThreadLocked, Threads,
        Takeovers, AskersAlone, SeenHolds, MutedIsCalm, Muted, NoRace, Asking, Resuming,
        DecideOnInstagram
  <1>4. PersonHolds'
    BY <1>0, SomeTyped
    DEF Inv, Typed, RowsTyped, ConsumerTyped, OperatorsTyped, SweepsTyped, HeldIsAi,
        ThreadLocked, Threads, Takeovers, AskersAlone, SeenHolds, MutedIsCalm, PersonHolds,
        Muted, NoRace, Asking, Resuming, ShouldAiReply, DecideOnInstagram
  <1>. QED
    BY <1>1, <1>2, <1>3, <1>4

LEMMA EscalateToHumanTakeovers ==
    ASSUME Inv, Takeovers, EscalateToHuman
    PROVE  Takeovers'
  <1>. SUFFICES ASSUME NoRace' PROVE (AskersAlone /\ SeenHolds /\ MutedIsCalm /\ PersonHolds)'
    BY DEF Takeovers
  <1>0. NoRace
    BY DEF NoRace, EscalateToHuman
  <1>1. AskersAlone'
    BY <1>0
    DEF Inv, Typed, OperatorsTyped, SweepsTyped, Takeovers, AskersAlone, NoRace, Asking,
        Resuming, EscalateToHuman
  <1>2. SeenHolds'
    BY <1>0
    DEF Inv, Typed, RowsTyped, OperatorsTyped, SweepsTyped, HeldIsAi, ThreadLocked, Threads,
        Takeovers, AskersAlone, SeenHolds, Muted, NoRace, Asking, Resuming, EscalateToHuman
  <1>3. MutedIsCalm'
    BY <1>0
    DEF Inv, Typed, RowsTyped, OperatorsTyped, SweepsTyped, HeldIsAi, ThreadLocked, Threads,
        Takeovers, AskersAlone, SeenHolds, MutedIsCalm, Muted, NoRace, Asking, Resuming,
        EscalateToHuman
  <1>4. PersonHolds'
    BY <1>0, SomeTyped
    DEF Inv, Typed, RowsTyped, ConsumerTyped, OperatorsTyped, SweepsTyped, HeldIsAi,
        ThreadLocked, Threads, Takeovers, AskersAlone, SeenHolds, MutedIsCalm, PersonHolds,
        Muted, NoRace, Asking, Resuming, ShouldAiReply, EscalateToHuman
  <1>. QED
    BY <1>1, <1>2, <1>3, <1>4

LEMMA SendHandoverTakeovers ==
    ASSUME Inv, Takeovers, SendHandover
    PROVE  Takeovers'
  <1>. SUFFICES ASSUME NoRace' PROVE (AskersAlone /\ SeenHolds /\ MutedIsCalm /\ PersonHolds)'
    BY DEF Takeovers
  <1>0. NoRace
    BY DEF NoRace, SendHandover
  <1>1. AskersAlone'
    BY <1>0
    DEF Inv, Typed, OperatorsTyped, SweepsTyped, Takeovers, AskersAlone, NoRace, Asking,
        Resuming, SendHandover
  <1>2. SeenHolds'
    BY <1>0
    DEF Inv, Typed, RowsTyped, OperatorsTyped, SweepsTyped, HeldIsAi, ThreadLocked, Threads,
        Takeovers, AskersAlone, SeenHolds, Muted, NoRace, Asking, Resuming, SendHandover
  <1>3. MutedIsCalm'
    BY <1>0
    DEF Inv, Typed, RowsTyped, OperatorsTyped, SweepsTyped, HeldIsAi, ThreadLocked, Threads,
        Takeovers, AskersAlone, SeenHolds, MutedIsCalm, Muted, NoRace, Asking, Resuming,
        SendHandover
  <1>4. PersonHolds'
    BY <1>0, SomeTyped
    DEF Inv, Typed, RowsTyped, ConsumerTyped, OperatorsTyped, SweepsTyped, HeldIsAi,
        ThreadLocked, Threads, Takeovers, AskersAlone, SeenHolds, MutedIsCalm, PersonHolds,
        Muted, NoRace, Asking, Resuming, ShouldAiReply, SendHandover
  <1>. QED
    BY <1>1, <1>2, <1>3, <1>4

LEMMA CommitHandoverTakeovers ==
    ASSUME Inv, Takeovers, CommitHandover
    PROVE  Takeovers'
  <1>. SUFFICES ASSUME NoRace' PROVE (AskersAlone /\ SeenHolds /\ MutedIsCalm /\ PersonHolds)'
    BY DEF Takeovers
  <1>0. NoRace
    BY DEF NoRace, CommitHandover, EndsTurn
  <1>1. AskersAlone'
    BY <1>0
    DEF Inv, Typed, OperatorsTyped, SweepsTyped, Takeovers, AskersAlone, NoRace, Asking,
        Resuming, CommitHandover, EndsTurn
  <1>2. SeenHolds'
    BY <1>0
    DEF Inv, Typed, RowsTyped, OperatorsTyped, SweepsTyped, HeldIsAi, ThreadLocked, Threads,
        Takeovers, AskersAlone, SeenHolds, Muted, NoRace, Asking, Resuming, CommitHandover,
        EndsTurn
  <1>3. MutedIsCalm'
    BY <1>0
    DEF Inv, Typed, RowsTyped, OperatorsTyped, SweepsTyped, HeldIsAi, ThreadLocked, Threads,
        Takeovers, AskersAlone, SeenHolds, MutedIsCalm, Muted, NoRace, Asking, Resuming,
        CommitHandover, EndsTurn
  <1>4. PersonHolds'
    <2>. DEFINE new == [copy EXCEPT !.handover = TRUE]
    <2>1. new \in Leads /\ new.priority = copy.priority
      BY DEF Leads, Inv, Typed, ConsumerTyped
    <2>2. lead' \in {lead, Written(lead, copy, new)} /\ owner' = owner /\ sweep' = sweep
      BY DEF CommitHandover
    <2>. HIDE DEF new
    <2>3. lead'.priority = lead.priority
      BY <2>1, <2>2, WrittenLead DEF Inv, Typed, RowsTyped, ConsumerTyped
    <2>4. owner = "person" => thread' = thread
      BY <1>0 DEF CommitHandover, Inv, HeldIsAi, Takeovers, PersonHolds
    <2>. QED
      BY <1>0, <2>2, <2>3, <2>4 DEF Takeovers, PersonHolds, Muted, Resuming, ShouldAiReply
  <1>. QED
    BY <1>1, <1>2, <1>3, <1>4

LEMMA ReplyTakeovers ==
    ASSUME Inv, Takeovers, Reply
    PROVE  Takeovers'
  <1>. SUFFICES ASSUME NoRace' PROVE (AskersAlone /\ SeenHolds /\ MutedIsCalm /\ PersonHolds)'
    BY DEF Takeovers
  <1>0. NoRace
    BY DEF NoRace, Reply, EndsTurn
  <1>1. AskersAlone'
    BY <1>0
    DEF Inv, Typed, OperatorsTyped, SweepsTyped, Takeovers, AskersAlone, NoRace, Asking,
        Resuming, Reply, EndsTurn
  <1>2. SeenHolds'
    BY <1>0
    DEF Inv, Typed, RowsTyped, OperatorsTyped, SweepsTyped, HeldIsAi, ThreadLocked, Threads,
        Takeovers, AskersAlone, SeenHolds, Muted, NoRace, Asking, Resuming, Reply, EndsTurn
  <1>3. MutedIsCalm'
    BY <1>0
    DEF Inv, Typed, RowsTyped, OperatorsTyped, SweepsTyped, HeldIsAi, ThreadLocked, Threads,
        Takeovers, AskersAlone, SeenHolds, MutedIsCalm, Muted, NoRace, Asking, Resuming,
        Reply, EndsTurn
  <1>4. PersonHolds'
    BY <1>0, SomeTyped
    DEF Inv, Typed, RowsTyped, ConsumerTyped, OperatorsTyped, SweepsTyped, HeldIsAi,
        ThreadLocked, Threads, Takeovers, AskersAlone, SeenHolds, MutedIsCalm, PersonHolds,
        Muted, NoRace, Asking, Resuming, ShouldAiReply, Reply, EndsTurn
  <1>. QED
    BY <1>1, <1>2, <1>3, <1>4

LEMMA PageTakeovers ==
    ASSUME Inv, Takeovers, Page
    PROVE  Takeovers'
  <1>. SUFFICES ASSUME NoRace' PROVE (AskersAlone /\ SeenHolds /\ MutedIsCalm /\ PersonHolds)'
    BY DEF Takeovers
  <1>0. NoRace
    BY DEF NoRace, Page, EndsTurn
  <1>1. AskersAlone'
    BY <1>0
    DEF Inv, Typed, OperatorsTyped, SweepsTyped, Takeovers, AskersAlone, NoRace, Asking,
        Resuming, Page, EndsTurn
  <1>2. SeenHolds'
    BY <1>0
    DEF Inv, Typed, RowsTyped, OperatorsTyped, SweepsTyped, HeldIsAi, ThreadLocked, Threads,
        Takeovers, AskersAlone, SeenHolds, Muted, NoRace, Asking, Resuming, Page, EndsTurn
  <1>3. MutedIsCalm'
    BY <1>0
    DEF Inv, Typed, RowsTyped, OperatorsTyped, SweepsTyped, HeldIsAi, ThreadLocked, Threads,
        Takeovers, AskersAlone, SeenHolds, MutedIsCalm, Muted, NoRace, Asking, Resuming,
        Page, EndsTurn
  <1>4. PersonHolds'
    BY <1>0, SomeTyped
    DEF Inv, Typed, RowsTyped, ConsumerTyped, OperatorsTyped, SweepsTyped, HeldIsAi,
        ThreadLocked, Threads, Takeovers, AskersAlone, SeenHolds, MutedIsCalm, PersonHolds,
        Muted, NoRace, Asking, Resuming, ShouldAiReply, Page, EndsTurn
  <1>. QED
    BY <1>1, <1>2, <1>3, <1>4

LEMMA ConsumerCrashTakeovers ==
    ASSUME Inv, Takeovers, ConsumerCrash
    PROVE  Takeovers'
  <1>. SUFFICES ASSUME NoRace' PROVE (AskersAlone /\ SeenHolds /\ MutedIsCalm /\ PersonHolds)'
    BY DEF Takeovers
  <1>0. NoRace
    BY DEF NoRace, ConsumerCrash, EndsTurn
  <1>1. AskersAlone'
    BY <1>0
    DEF Inv, Typed, OperatorsTyped, SweepsTyped, Takeovers, AskersAlone, NoRace, Asking,
        Resuming, ConsumerCrash, EndsTurn
  <1>2. SeenHolds'
    BY <1>0
    DEF Inv, Typed, RowsTyped, OperatorsTyped, SweepsTyped, HeldIsAi, ThreadLocked, Threads,
        Takeovers, AskersAlone, SeenHolds, Muted, NoRace, Asking, Resuming, ConsumerCrash,
        EndsTurn
  <1>3. MutedIsCalm'
    BY <1>0
    DEF Inv, Typed, RowsTyped, OperatorsTyped, SweepsTyped, HeldIsAi, ThreadLocked, Threads,
        Takeovers, AskersAlone, SeenHolds, MutedIsCalm, Muted, NoRace, Asking, Resuming,
        ConsumerCrash, EndsTurn
  <1>4. PersonHolds'
    BY <1>0, SomeTyped
    DEF Inv, Typed, RowsTyped, ConsumerTyped, OperatorsTyped, SweepsTyped, HeldIsAi,
        ThreadLocked, Threads, Takeovers, AskersAlone, SeenHolds, MutedIsCalm, PersonHolds,
        Muted, NoRace, Asking, Resuming, ShouldAiReply, ConsumerCrash, EndsTurn
  <1>. QED
    BY <1>1, <1>2, <1>3, <1>4

LEMMA AskTakeovers ==
    ASSUME Inv, Takeovers, NEW o \in Operators, Ask(o)
    PROVE  Takeovers'
  <1>. SUFFICES ASSUME NoRace' PROVE (AskersAlone /\ SeenHolds /\ MutedIsCalm /\ PersonHolds)'
    BY DEF Takeovers
  <1>0. NoRace
    BY DEF NoRace, Ask, Overlaps
  <1>1. AskersAlone'
    BY <1>0
    DEF Inv, Typed, OperatorsTyped, SweepsTyped, Takeovers, AskersAlone, NoRace, Asking,
        Resuming, Ask, Overlaps
  <1>2. SeenHolds'
    BY <1>0
    DEF Inv, Typed, RowsTyped, OperatorsTyped, SweepsTyped, HeldIsAi, ThreadLocked, Threads,
        Takeovers, AskersAlone, SeenHolds, Muted, NoRace, Asking, Resuming, Ask, Overlaps
  <1>3. MutedIsCalm'
    BY <1>0
    DEF Inv, Typed, RowsTyped, OperatorsTyped, SweepsTyped, HeldIsAi, ThreadLocked, Threads,
        Takeovers, AskersAlone, SeenHolds, MutedIsCalm, Muted, NoRace, Asking, Resuming,
        Ask, Overlaps
  <1>4. PersonHolds'
    BY <1>0, SomeTyped
    DEF Inv, Typed, RowsTyped, ConsumerTyped, OperatorsTyped, SweepsTyped, HeldIsAi,
        ThreadLocked, Threads, Takeovers, AskersAlone, SeenHolds, MutedIsCalm, PersonHolds,
        Muted, NoRace, Asking, Resuming, ShouldAiReply, Ask, Overlaps
  <1>. QED
    BY <1>1, <1>2, <1>3, <1>4

LEMMA TakeOverTakeovers ==
    ASSUME Inv, Takeovers, NEW o \in Operators, TakeOver(o)
    PROVE  Takeovers'
  <1>. SUFFICES ASSUME NoRace' PROVE (AskersAlone /\ SeenHolds /\ MutedIsCalm /\ PersonHolds)'
    BY DEF Takeovers
  <1>0. NoRace
    BY DEF NoRace, TakeOver, Done
  <1>5. thread'.mode = "human" /\ (thread'.by # "person" => Muted /\ Muted')
    <2>1. seen[o] \in Threads /\ thread \in Threads /\ asked[o] # "nothing"
      BY DEF TakeOver, Takes, Inv, Typed, RowsTyped, OperatorsTyped
    <2>2. thread = seen[o] \/ (seen[o].mode = "ai" /\ Muted)
      BY <1>0, <2>1 DEF Takeovers, SeenHolds
    <2>3. [mode |-> "human", by |-> "person"] \in Threads
      BY DEF Threads
    <2>4. /\ thread' \in Threads
          /\ thread'.mode = IF seen[o].mode # "human" THEN "human" ELSE thread.mode
          /\ thread'.by = IF seen[o].by # "person" THEN "person" ELSE thread.by
      BY <2>1, <2>3, WrittenThread DEF TakeOver
    <2>5. CASE thread = seen[o]
      BY <2>1, <2>4, <2>5
    <2>6. CASE seen[o].mode = "ai" /\ Muted
      <3>1. thread'.mode = "human" /\ thread'.by \in {"person", "system"}
        BY <2>4, <2>6 DEF Muted
      <3>2. thread' = [mode |-> thread'.mode, by |-> thread'.by]
        BY <2>4 DEF Threads
      <3>. QED
        BY <2>6, <3>1, <3>2 DEF Muted
    <2>. QED
      BY <2>2, <2>5, <2>6
  <1>1. AskersAlone'
    BY <1>0
    DEF Inv, Typed, OperatorsTyped, SweepsTyped, Takeovers, AskersAlone, NoRace, Asking,
        Resuming, TakeOver, Done
  <1>2. SeenHolds'
    <2>1. asked[o] # "nothing"
      BY DEF TakeOver, Takes
    <2>2. \A p \in Operators : asked'[p] = "nothing"
      BY <1>0, <2>1 DEF TakeOver, Done, Inv, Typed, OperatorsTyped, Takeovers, AskersAlone
    <2>. QED
      BY <2>2 DEF SeenHolds
  <1>3. MutedIsCalm'
    <2>1. Muted' => Muted
      BY <1>5 DEF Muted
    <2>. QED
      BY <1>0, <2>1 DEF TakeOver, Takeovers, MutedIsCalm
  <1>4. PersonHolds'
    <2>1. ~Resuming' /\ lead' = Clean
      BY <1>0 DEF TakeOver, Takes, Takeovers, AskersAlone, Asking, Resuming
    <2>. QED
      BY <1>5, <2>1, SomeTyped DEF PersonHolds, ShouldAiReply
  <1>. QED
    BY <1>1, <1>2, <1>3, <1>4

LEMMA GiveBackTakeovers ==
    ASSUME Inv, Takeovers, NEW o \in Operators, GiveBack(o)
    PROVE  Takeovers'
  <1>. SUFFICES ASSUME NoRace' PROVE (AskersAlone /\ SeenHolds /\ MutedIsCalm /\ PersonHolds)'
    BY DEF Takeovers
  <1>0. NoRace
    BY DEF NoRace, GiveBack, Done
  <1>1. AskersAlone'
    BY <1>0
    DEF Inv, Typed, OperatorsTyped, SweepsTyped, Takeovers, AskersAlone, NoRace, Asking,
        Resuming, GiveBack, Done
  <1>2. SeenHolds'
    <2>1. asked[o] # "nothing"
      BY DEF GiveBack, Returns
    <2>2. \A p \in Operators : asked'[p] = "nothing"
      BY <1>0, <2>1 DEF GiveBack, Done, Inv, Typed, OperatorsTyped, Takeovers, AskersAlone
    <2>. QED
      BY <2>2 DEF SeenHolds
  <1>3. MutedIsCalm'
    <2>1. seen[o] \in Threads /\ thread \in Threads /\ seen[o].mode = "human"
      BY DEF GiveBack, Returns, Inv, Typed, RowsTyped, OperatorsTyped
    <2>2. [mode |-> "ai", by |-> "person"] \in Threads
      BY DEF Threads
    <2>3. thread'.mode = "ai"
      BY <2>1, <2>2, WrittenThread DEF GiveBack
    <2>. QED
      BY <2>3 DEF MutedIsCalm, Muted
  <1>4. PersonHolds'
    BY <1>0, SomeTyped
    DEF Inv, Typed, RowsTyped, ConsumerTyped, OperatorsTyped, SweepsTyped, HeldIsAi,
        ThreadLocked, Threads, Takeovers, AskersAlone, SeenHolds, MutedIsCalm, PersonHolds,
        Muted, NoRace, Asking, Resuming, ShouldAiReply, GiveBack, Done
  <1>. QED
    BY <1>1, <1>2, <1>3, <1>4

LEMMA ResolveLeadTakeovers ==
    ASSUME Inv, Takeovers, NEW o \in Operators, ResolveLead(o)
    PROVE  Takeovers'
  <1>. SUFFICES ASSUME NoRace' PROVE (AskersAlone /\ SeenHolds /\ MutedIsCalm /\ PersonHolds)'
    BY DEF Takeovers
  <1>0. NoRace
    BY DEF NoRace, ResolveLead, Done
  <1>1. AskersAlone'
    BY <1>0
    DEF Inv, Typed, OperatorsTyped, SweepsTyped, Takeovers, AskersAlone, NoRace, Asking,
        Resuming, ResolveLead, Done
  <1>2. SeenHolds'
    BY <1>0
    DEF Inv, Typed, RowsTyped, OperatorsTyped, SweepsTyped, HeldIsAi, ThreadLocked, Threads,
        Takeovers, AskersAlone, SeenHolds, Muted, NoRace, Asking, Resuming, ResolveLead,
        Done
  <1>3. MutedIsCalm'
    BY <1>0
    DEF Inv, Typed, RowsTyped, OperatorsTyped, SweepsTyped, HeldIsAi, ThreadLocked, Threads,
        Takeovers, AskersAlone, SeenHolds, MutedIsCalm, Muted, NoRace, Asking, Resuming,
        ResolveLead, Done
  <1>4. PersonHolds'
    BY <1>0, SomeTyped
    DEF Inv, Typed, RowsTyped, ConsumerTyped, OperatorsTyped, SweepsTyped, HeldIsAi,
        ThreadLocked, Threads, Takeovers, AskersAlone, SeenHolds, MutedIsCalm, PersonHolds,
        Muted, NoRace, Asking, Resuming, ShouldAiReply, ResolveLead, Done
  <1>. QED
    BY <1>1, <1>2, <1>3, <1>4

LEMMA AlreadySoTakeovers ==
    ASSUME Inv, Takeovers, NEW o \in Operators, AlreadySo(o)
    PROVE  Takeovers'
  <1>. SUFFICES ASSUME NoRace' PROVE (AskersAlone /\ SeenHolds /\ MutedIsCalm /\ PersonHolds)'
    BY DEF Takeovers
  <1>0. NoRace
    BY DEF NoRace, AlreadySo, Done
  <1>1. AskersAlone'
    BY <1>0
    DEF Inv, Typed, OperatorsTyped, SweepsTyped, Takeovers, AskersAlone, NoRace, Asking,
        Resuming, AlreadySo, Done
  <1>2. SeenHolds'
    BY <1>0
    DEF Inv, Typed, RowsTyped, OperatorsTyped, SweepsTyped, HeldIsAi, ThreadLocked, Threads,
        Takeovers, AskersAlone, SeenHolds, Muted, NoRace, Asking, Resuming, AlreadySo, Done
  <1>3. MutedIsCalm'
    BY <1>0
    DEF Inv, Typed, RowsTyped, OperatorsTyped, SweepsTyped, HeldIsAi, ThreadLocked, Threads,
        Takeovers, AskersAlone, SeenHolds, MutedIsCalm, Muted, NoRace, Asking, Resuming,
        AlreadySo, Done
  <1>4. PersonHolds'
    BY <1>0, SomeTyped
    DEF Inv, Typed, RowsTyped, ConsumerTyped, OperatorsTyped, SweepsTyped, HeldIsAi,
        ThreadLocked, Threads, Takeovers, AskersAlone, SeenHolds, MutedIsCalm, PersonHolds,
        Muted, NoRace, Asking, Resuming, ShouldAiReply, AlreadySo, Done
  <1>. QED
    BY <1>1, <1>2, <1>3, <1>4

LEMMA OrderFailsTakeovers ==
    ASSUME Inv, Takeovers, NEW o \in Operators, OrderFails(o)
    PROVE  Takeovers'
  <1>. SUFFICES ASSUME NoRace' PROVE (AskersAlone /\ SeenHolds /\ MutedIsCalm /\ PersonHolds)'
    BY DEF Takeovers
  <1>0. NoRace
    BY DEF NoRace, OrderFails, Done
  <1>1. AskersAlone'
    BY <1>0
    DEF Inv, Typed, OperatorsTyped, SweepsTyped, Takeovers, AskersAlone, NoRace, Asking,
        Resuming, OrderFails, Done
  <1>2. SeenHolds'
    BY <1>0
    DEF Inv, Typed, RowsTyped, OperatorsTyped, SweepsTyped, HeldIsAi, ThreadLocked, Threads,
        Takeovers, AskersAlone, SeenHolds, Muted, NoRace, Asking, Resuming, OrderFails, Done
  <1>3. MutedIsCalm'
    BY <1>0
    DEF Inv, Typed, RowsTyped, OperatorsTyped, SweepsTyped, HeldIsAi, ThreadLocked, Threads,
        Takeovers, AskersAlone, SeenHolds, MutedIsCalm, Muted, NoRace, Asking, Resuming,
        OrderFails, Done
  <1>4. PersonHolds'
    BY <1>0, SomeTyped
    DEF Inv, Typed, RowsTyped, ConsumerTyped, OperatorsTyped, SweepsTyped, HeldIsAi,
        ThreadLocked, Threads, Takeovers, AskersAlone, SeenHolds, MutedIsCalm, PersonHolds,
        Muted, NoRace, Asking, Resuming, ShouldAiReply, OrderFails, Done
  <1>. QED
    BY <1>1, <1>2, <1>3, <1>4

LEMMA FindReminderTakeovers ==
    ASSUME Inv, Takeovers, NEW s \in Sweepers, FindReminder(s)
    PROVE  Takeovers'
  <1>. SUFFICES ASSUME NoRace' PROVE (AskersAlone /\ SeenHolds /\ MutedIsCalm /\ PersonHolds)'
    BY DEF Takeovers
  <1>0. NoRace
    BY DEF NoRace, FindReminder, Moves
  <1>1. AskersAlone'
    BY <1>0
    DEF Inv, Typed, OperatorsTyped, SweepsTyped, Takeovers, AskersAlone, NoRace, Asking,
        Resuming, FindReminder, Moves
  <1>2. SeenHolds'
    BY <1>0
    DEF Inv, Typed, RowsTyped, OperatorsTyped, SweepsTyped, HeldIsAi, ThreadLocked, Threads,
        Takeovers, AskersAlone, SeenHolds, Muted, NoRace, Asking, Resuming, FindReminder,
        Moves
  <1>3. MutedIsCalm'
    BY <1>0
    DEF Inv, Typed, RowsTyped, OperatorsTyped, SweepsTyped, HeldIsAi, ThreadLocked, Threads,
        Takeovers, AskersAlone, SeenHolds, MutedIsCalm, Muted, NoRace, Asking, Resuming,
        FindReminder, Moves
  <1>4. PersonHolds'
    BY <1>0, SomeTyped
    DEF Inv, Typed, RowsTyped, ConsumerTyped, OperatorsTyped, SweepsTyped, HeldIsAi,
        ThreadLocked, Threads, Takeovers, AskersAlone, SeenHolds, MutedIsCalm, PersonHolds,
        Muted, NoRace, Asking, Resuming, ShouldAiReply, FindReminder, Moves
  <1>. QED
    BY <1>1, <1>2, <1>3, <1>4

LEMMA SendReminderTakeovers ==
    ASSUME Inv, Takeovers, NEW s \in Sweepers, SendReminder(s)
    PROVE  Takeovers'
  <1>. SUFFICES ASSUME NoRace' PROVE (AskersAlone /\ SeenHolds /\ MutedIsCalm /\ PersonHolds)'
    BY DEF Takeovers
  <1>0. NoRace
    BY DEF NoRace, SendReminder, Moves
  <1>1. AskersAlone'
    BY <1>0
    DEF Inv, Typed, OperatorsTyped, SweepsTyped, Takeovers, AskersAlone, NoRace, Asking,
        Resuming, SendReminder, Moves
  <1>2. SeenHolds'
    BY <1>0
    DEF Inv, Typed, RowsTyped, OperatorsTyped, SweepsTyped, HeldIsAi, ThreadLocked, Threads,
        Takeovers, AskersAlone, SeenHolds, Muted, NoRace, Asking, Resuming, SendReminder,
        Moves
  <1>3. MutedIsCalm'
    BY <1>0
    DEF Inv, Typed, RowsTyped, OperatorsTyped, SweepsTyped, HeldIsAi, ThreadLocked, Threads,
        Takeovers, AskersAlone, SeenHolds, MutedIsCalm, Muted, NoRace, Asking, Resuming,
        SendReminder, Moves
  <1>4. PersonHolds'
    BY <1>0, SomeTyped
    DEF Inv, Typed, RowsTyped, ConsumerTyped, OperatorsTyped, SweepsTyped, HeldIsAi,
        ThreadLocked, Threads, Takeovers, AskersAlone, SeenHolds, MutedIsCalm, PersonHolds,
        Muted, NoRace, Asking, Resuming, ShouldAiReply, SendReminder, Moves
  <1>. QED
    BY <1>1, <1>2, <1>3, <1>4

LEMMA FindOverdueTakeovers ==
    ASSUME Inv, Takeovers, NEW s \in Sweepers, FindOverdue(s)
    PROVE  Takeovers'
  <1>. SUFFICES ASSUME NoRace' PROVE (AskersAlone /\ SeenHolds /\ MutedIsCalm /\ PersonHolds)'
    BY DEF Takeovers
  <1>0. NoRace
    BY DEF NoRace, FindOverdue, Moves, Overlaps, Before
  <1>1. AskersAlone'
    BY <1>0
    DEF Inv, Typed, OperatorsTyped, SweepsTyped, Takeovers, AskersAlone, NoRace, Asking,
        Resuming, FindOverdue, Moves, Overlaps, Before
  <1>2. SeenHolds'
    BY <1>0
    DEF Inv, Typed, RowsTyped, OperatorsTyped, SweepsTyped, HeldIsAi, ThreadLocked, Threads,
        Takeovers, AskersAlone, SeenHolds, Muted, NoRace, Asking, Resuming, FindOverdue,
        Moves, Overlaps, Before
  <1>3. MutedIsCalm'
    BY <1>0
    DEF Inv, Typed, RowsTyped, OperatorsTyped, SweepsTyped, HeldIsAi, ThreadLocked, Threads,
        Takeovers, AskersAlone, SeenHolds, MutedIsCalm, Muted, NoRace, Asking, Resuming,
        FindOverdue, Moves, Overlaps, Before
  <1>4. PersonHolds'
    <2>1. owner # "person"
      BY <1>0 DEF FindOverdue, Resumable, Takeovers, PersonHolds, ShouldAiReply
    <2>. QED
      BY <2>1 DEF FindOverdue, PersonHolds
  <1>. QED
    BY <1>1, <1>2, <1>3, <1>4

LEMMA NothingOverdueTakeovers ==
    ASSUME Inv, Takeovers, NEW s \in Sweepers, NothingOverdue(s)
    PROVE  Takeovers'
  <1>. SUFFICES ASSUME NoRace' PROVE (AskersAlone /\ SeenHolds /\ MutedIsCalm /\ PersonHolds)'
    BY DEF Takeovers
  <1>0. NoRace
    BY DEF NoRace, NothingOverdue, Moves
  <1>1. AskersAlone'
    BY <1>0
    DEF Inv, Typed, OperatorsTyped, SweepsTyped, Takeovers, AskersAlone, NoRace, Asking,
        Resuming, NothingOverdue, Moves
  <1>2. SeenHolds'
    BY <1>0
    DEF Inv, Typed, RowsTyped, OperatorsTyped, SweepsTyped, HeldIsAi, ThreadLocked, Threads,
        Takeovers, AskersAlone, SeenHolds, Muted, NoRace, Asking, Resuming, NothingOverdue,
        Moves
  <1>3. MutedIsCalm'
    BY <1>0
    DEF Inv, Typed, RowsTyped, OperatorsTyped, SweepsTyped, HeldIsAi, ThreadLocked, Threads,
        Takeovers, AskersAlone, SeenHolds, MutedIsCalm, Muted, NoRace, Asking, Resuming,
        NothingOverdue, Moves
  <1>4. PersonHolds'
    <2>1. lead'.priority = lead.priority
      BY DEF NothingOverdue, RowsTyped
    <2>2. thread' = thread /\ owner' = owner /\ (Resuming' => Resuming)
      BY DEF NothingOverdue, Resuming, Moves
    <2>. QED
      BY <1>0, <2>1, <2>2 DEF Takeovers, PersonHolds, Muted, ShouldAiReply
  <1>. QED
    BY <1>1, <1>2, <1>3, <1>4

LEMMA ResumeTakeovers ==
    ASSUME Inv, Takeovers, NEW s \in Sweepers, Resume(s)
    PROVE  Takeovers'
  <1>. SUFFICES ASSUME NoRace' PROVE (AskersAlone /\ SeenHolds /\ MutedIsCalm /\ PersonHolds)'
    BY DEF Takeovers
  <1>0. NoRace
    BY DEF NoRace, Resume, Moves, ResumeLead
  <1>1. AskersAlone'
    BY <1>0
    DEF Inv, Typed, OperatorsTyped, SweepsTyped, Takeovers, AskersAlone, NoRace, Asking,
        Resuming, Resume, Moves, ResumeLead
  <1>2. SeenHolds'
    BY <1>0
    DEF Inv, Typed, RowsTyped, OperatorsTyped, SweepsTyped, HeldIsAi, ThreadLocked, Threads,
        Takeovers, AskersAlone, SeenHolds, Muted, NoRace, Asking, Resuming, Resume, Moves,
        ResumeLead
  <1>3. MutedIsCalm'
    <2>1. found[s].thread \in Threads /\ thread \in Threads
      BY DEF Inv, Typed, RowsTyped, SweepsTyped
    <2>2. [mode |-> "ai", by |-> "system"] \in Threads
      BY DEF Threads
    <2>3. thread' = thread \/ thread'.mode = "ai"
      BY <2>1, <2>2, WrittenThread DEF Resume
    <2>4. Muted' => Muted
      BY <2>3 DEF Muted
    <2>. QED
      BY <1>0, <2>4 DEF Resume, Takeovers, MutedIsCalm
  <1>4. PersonHolds'
    BY <1>0, SomeTyped
    DEF Inv, Typed, RowsTyped, ConsumerTyped, OperatorsTyped, SweepsTyped, HeldIsAi,
        ThreadLocked, Threads, Takeovers, AskersAlone, SeenHolds, MutedIsCalm, PersonHolds,
        Muted, NoRace, Asking, Resuming, ShouldAiReply, Resume, Moves, ResumeLead
  <1>. QED
    BY <1>1, <1>2, <1>3, <1>4

LEMMA SweepFailsTakeovers ==
    ASSUME Inv, Takeovers, NEW s \in Sweepers, SweepFails(s)
    PROVE  Takeovers'
  <1>. SUFFICES ASSUME NoRace' PROVE (AskersAlone /\ SeenHolds /\ MutedIsCalm /\ PersonHolds)'
    BY DEF Takeovers
  <1>0. NoRace
    BY DEF NoRace, SweepFails, Moves
  <1>1. AskersAlone'
    BY <1>0
    DEF Inv, Typed, OperatorsTyped, SweepsTyped, Takeovers, AskersAlone, NoRace, Asking,
        Resuming, SweepFails, Moves
  <1>2. SeenHolds'
    BY <1>0
    DEF Inv, Typed, RowsTyped, OperatorsTyped, SweepsTyped, HeldIsAi, ThreadLocked, Threads,
        Takeovers, AskersAlone, SeenHolds, Muted, NoRace, Asking, Resuming, SweepFails,
        Moves
  <1>3. MutedIsCalm'
    BY <1>0
    DEF Inv, Typed, RowsTyped, OperatorsTyped, SweepsTyped, HeldIsAi, ThreadLocked, Threads,
        Takeovers, AskersAlone, SeenHolds, MutedIsCalm, Muted, NoRace, Asking, Resuming,
        SweepFails, Moves
  <1>4. PersonHolds'
    BY <1>0, SomeTyped
    DEF Inv, Typed, RowsTyped, ConsumerTyped, OperatorsTyped, SweepsTyped, HeldIsAi,
        ThreadLocked, Threads, Takeovers, AskersAlone, SeenHolds, MutedIsCalm, PersonHolds,
        Muted, NoRace, Asking, Resuming, ShouldAiReply, SweepFails, Moves
  <1>. QED
    BY <1>1, <1>2, <1>3, <1>4

LEMMA WindowPassesTakeovers ==
    ASSUME Inv, Takeovers, WindowPasses
    PROVE  Takeovers'
  <1>. SUFFICES ASSUME NoRace' PROVE (AskersAlone /\ SeenHolds /\ MutedIsCalm /\ PersonHolds)'
    BY DEF Takeovers
  <1>0. NoRace
    BY DEF NoRace, WindowPasses
  <1>1. AskersAlone'
    BY <1>0
    DEF Inv, Typed, OperatorsTyped, SweepsTyped, Takeovers, AskersAlone, NoRace, Asking,
        Resuming, WindowPasses
  <1>2. SeenHolds'
    BY <1>0
    DEF Inv, Typed, RowsTyped, OperatorsTyped, SweepsTyped, HeldIsAi, ThreadLocked, Threads,
        Takeovers, AskersAlone, SeenHolds, Muted, NoRace, Asking, Resuming, WindowPasses
  <1>3. MutedIsCalm'
    BY <1>0
    DEF Inv, Typed, RowsTyped, OperatorsTyped, SweepsTyped, HeldIsAi, ThreadLocked, Threads,
        Takeovers, AskersAlone, SeenHolds, MutedIsCalm, Muted, NoRace, Asking, Resuming,
        WindowPasses
  <1>4. PersonHolds'
    <2>1. lead'.priority = lead.priority
      BY DEF WindowPasses, RowsTyped
    <2>2. thread' = thread /\ owner' = owner /\ (Resuming' => Resuming)
      BY DEF WindowPasses, Resuming
    <2>. QED
      BY <1>0, <2>1, <2>2 DEF Takeovers, PersonHolds, Muted, ShouldAiReply
  <1>. QED
    BY <1>1, <1>2, <1>3, <1>4

LEMMA ReminderFallsDueTakeovers ==
    ASSUME Inv, Takeovers, ReminderFallsDue
    PROVE  Takeovers'
  <1>. SUFFICES ASSUME NoRace' PROVE (AskersAlone /\ SeenHolds /\ MutedIsCalm /\ PersonHolds)'
    BY DEF Takeovers
  <1>0. NoRace
    BY DEF NoRace, ReminderFallsDue
  <1>1. AskersAlone'
    BY <1>0
    DEF Inv, Typed, OperatorsTyped, SweepsTyped, Takeovers, AskersAlone, NoRace, Asking,
        Resuming, ReminderFallsDue
  <1>2. SeenHolds'
    BY <1>0
    DEF Inv, Typed, RowsTyped, OperatorsTyped, SweepsTyped, HeldIsAi, ThreadLocked, Threads,
        Takeovers, AskersAlone, SeenHolds, Muted, NoRace, Asking, Resuming, ReminderFallsDue
  <1>3. MutedIsCalm'
    BY <1>0
    DEF Inv, Typed, RowsTyped, OperatorsTyped, SweepsTyped, HeldIsAi, ThreadLocked, Threads,
        Takeovers, AskersAlone, SeenHolds, MutedIsCalm, Muted, NoRace, Asking, Resuming,
        ReminderFallsDue
  <1>4. PersonHolds'
    <2>1. lead'.priority = lead.priority
      BY DEF ReminderFallsDue, RowsTyped
    <2>2. thread' = thread /\ owner' = owner /\ (Resuming' => Resuming)
      BY DEF ReminderFallsDue, Resuming
    <2>. QED
      BY <1>0, <2>1, <2>2 DEF Takeovers, PersonHolds, Muted, ShouldAiReply
  <1>. QED
    BY <1>1, <1>2, <1>3, <1>4

-----------------------------------------------------------------------------
(* Miss cycles                                                             *)

LEMMA TakeCycles ==
    ASSUME Inv, Cycles, Take
    PROVE  Cycles'
  <1>. SUFFICES ASSUME "turn" \notin raced' PROVE (TurnAlone /\ CopyIsLead /\ FoundOverdue /\ CountIsLow)'
    BY DEF Cycles
  <1>0. "turn" \notin raced
    BY DEF Take, Overlaps
  <1>1. TurnAlone'
    BY <1>0 DEF TurnAlone, Asking, Resuming, Take, Overlaps
  <1>2. CopyIsLead'
    BY <1>0 DEF CopyIsLead, Take
  <1>3. FoundOverdue'
    BY <1>0 DEF FoundOverdue, Resuming, Take, Overlaps
  <1>4. CountIsLow'
    BY <1>0 DEF Cycles, CountIsLow, Take
  <1>. QED
    BY <1>1, <1>2, <1>3, <1>4

LEMMA GateCycles ==
    ASSUME Inv, Cycles, Gate
    PROVE  Cycles'
  <1>. SUFFICES ASSUME "turn" \notin raced' PROVE (TurnAlone /\ CopyIsLead /\ FoundOverdue /\ CountIsLow)'
    BY DEF Cycles
  <1>0. "turn" \notin raced
    BY DEF Gate, EndsTurn
  <1>1. TurnAlone'
    BY <1>0 DEF Cycles, TurnAlone, InTurn, Asking, Resuming, Gate
  <1>2. CopyIsLead'
    BY <1>0 DEF Cycles, CopyIsLead, InTurn, Gate, EndsTurn
  <1>3. FoundOverdue'
    BY <1>0 DEF Cycles, FoundOverdue, Gate
  <1>4. CountIsLow'
    BY <1>0 DEF Cycles, CountIsLow, Gate
  <1>. QED
    BY <1>1, <1>2, <1>3, <1>4

LEMMA JudgeCycles ==
    ASSUME Inv, Cycles, Judge
    PROVE  Cycles'
  <1>. SUFFICES ASSUME "turn" \notin raced' PROVE (TurnAlone /\ CopyIsLead /\ FoundOverdue /\ CountIsLow)'
    BY DEF Cycles
  <1>0. "turn" \notin raced
    BY DEF Judge, CommitsLead
  <1>1. TurnAlone'
    BY <1>0 DEF Cycles, TurnAlone, InTurn, Asking, Resuming, Judge
  <1>2. CopyIsLead'
    <2>1. PICK confused \in BOOLEAN, pressing \in BOOLEAN, told \in BOOLEAN :
             CommitsLead(Updated(copy, confused, pressing, told))
      BY DEF Judge
    <2>. DEFINE new == Updated(copy, confused, pressing, told)
    <2>2. new \in Leads
      BY UpdatedLead DEF Inv, Typed, ConsumerTyped
    <2>3. lead' = Written(lead, copy, new) /\ copy' = new
      BY <2>1 DEF CommitsLead
    <2>. HIDE DEF new
    <2>4. copy.priority = lead.priority /\ copy.miss = lead.miss
      BY <1>0 DEF Judge, InTurn, Cycles, CopyIsLead
    <2>. QED
      BY <2>2, <2>3, <2>4, WrittenLead DEF CopyIsLead, Inv, Typed, RowsTyped, ConsumerTyped
  <1>3. FoundOverdue'
    BY <1>0 DEF Cycles, TurnAlone, FoundOverdue, InTurn, Resuming, Judge
  <1>4. CountIsLow'
    <2>1. PICK confused \in BOOLEAN, pressing \in BOOLEAN, told \in BOOLEAN :
             CommitsLead(Updated(copy, confused, pressing, told))
      BY DEF Judge
    <2>. DEFINE new == Updated(copy, confused, pressing, told)
    <2>2. new \in Leads /\ (new.priority = "normal" => ~CountTriggered(new.miss))
      BY UpdatedLead DEF Inv, Typed, ConsumerTyped
    <2>3. lead' = Written(lead, copy, new)
      BY <2>1 DEF CommitsLead
    <2>. HIDE DEF new
    <2>4. copy.priority = lead.priority /\ copy.miss = lead.miss
      BY <1>0 DEF Judge, InTurn, Cycles, CopyIsLead
    <2>5. lead'.priority = new.priority /\ lead'.miss = new.miss
      BY <2>2, <2>3, <2>4, WrittenLead DEF Inv, Typed, RowsTyped, ConsumerTyped
    <2>. QED
      BY <2>2, <2>5, BoundsAreNat DEF CountIsLow, ShouldAiReply, CountTriggered, Leads
  <1>. QED
    BY <1>1, <1>2, <1>3, <1>4

LEMMA HandoffCodeCycles ==
    ASSUME Inv, Cycles, HandoffCode
    PROVE  Cycles'
  <1>. SUFFICES ASSUME "turn" \notin raced' PROVE (TurnAlone /\ CopyIsLead /\ FoundOverdue /\ CountIsLow)'
    BY DEF Cycles
  <1>0. "turn" \notin raced
    BY DEF HandoffCode, CommitsLead, ResumeLead
  <1>1. TurnAlone'
    BY <1>0
    DEF Inv, Typed, OperatorsTyped, SweepsTyped, ConsumerTyped, Cycles, TurnAlone, InTurn,
        Asking, Resuming, HandoffCode, CommitsLead, ResumeLead
  <1>2. CopyIsLead'
    <2>1. lead' = Written(lead, copy, Clean) /\ copy' = Clean
      BY DEF HandoffCode, CommitsLead, ResumeLead
    <2>2. copy.priority = lead.priority /\ copy.miss = lead.miss
      BY <1>0 DEF HandoffCode, InTurn, Cycles, CopyIsLead
    <2>. QED
      BY <2>1, <2>2, WrittenLead, SomeTyped
      DEF CopyIsLead, Inv, Typed, RowsTyped, ConsumerTyped
  <1>3. FoundOverdue'
    BY <1>0, SomeTyped
    DEF Inv, Typed, RowsTyped, ConsumerTyped, OperatorsTyped, SweepsTyped, Leads, Cycles,
        TurnAlone, FoundOverdue, InTurn, Asking, Resuming, HandoffCode, CommitsLead,
        ResumeLead
  <1>4. CountIsLow'
    <2>1. lead' = Written(lead, copy, Clean)
      BY DEF HandoffCode, CommitsLead, ResumeLead
    <2>2. copy.priority = lead.priority /\ copy.miss = lead.miss
      BY <1>0 DEF HandoffCode, InTurn, Cycles, CopyIsLead
    <2>3. lead'.miss = 0
      BY <2>1, <2>2, WrittenLead, SomeTyped DEF Inv, Typed, RowsTyped, ConsumerTyped
    <2>. QED
      BY <2>3, BoundsAreNat DEF CountIsLow
  <1>. QED
    BY <1>1, <1>2, <1>3, <1>4

LEMMA DecideCycles ==
    ASSUME Inv, Cycles, Decide
    PROVE  Cycles'
  <1>. SUFFICES ASSUME "turn" \notin raced' PROVE (TurnAlone /\ CopyIsLead /\ FoundOverdue /\ CountIsLow)'
    BY DEF Cycles
  <1>0. "turn" \notin raced
    BY DEF Decide
  <1>1. TurnAlone'
    BY <1>0 DEF Cycles, TurnAlone, InTurn, Asking, Resuming, Decide
  <1>2. CopyIsLead'
    BY <1>0 DEF Cycles, CopyIsLead, InTurn, Decide
  <1>3. FoundOverdue'
    BY <1>0 DEF Cycles, FoundOverdue, Decide
  <1>4. CountIsLow'
    BY <1>0 DEF Cycles, CountIsLow, Decide
  <1>. QED
    BY <1>1, <1>2, <1>3, <1>4

LEMMA DecideOnInstagramCycles ==
    ASSUME Inv, Cycles, DecideOnInstagram
    PROVE  Cycles'
  <1>. SUFFICES ASSUME "turn" \notin raced' PROVE (TurnAlone /\ CopyIsLead /\ FoundOverdue /\ CountIsLow)'
    BY DEF Cycles
  <1>0. "turn" \notin raced
    BY DEF DecideOnInstagram
  <1>1. TurnAlone'
    BY <1>0 DEF Cycles, TurnAlone, InTurn, Asking, Resuming, DecideOnInstagram
  <1>2. CopyIsLead'
    BY <1>0 DEF Cycles, CopyIsLead, InTurn, DecideOnInstagram
  <1>3. FoundOverdue'
    BY <1>0 DEF Cycles, FoundOverdue, DecideOnInstagram
  <1>4. CountIsLow'
    BY <1>0 DEF Cycles, CountIsLow, DecideOnInstagram
  <1>. QED
    BY <1>1, <1>2, <1>3, <1>4

LEMMA EscalateToHumanCycles ==
    ASSUME Inv, Cycles, EscalateToHuman
    PROVE  Cycles'
  <1>. SUFFICES ASSUME "turn" \notin raced' PROVE (TurnAlone /\ CopyIsLead /\ FoundOverdue /\ CountIsLow)'
    BY DEF Cycles
  <1>0. "turn" \notin raced
    BY DEF EscalateToHuman
  <1>1. TurnAlone'
    BY <1>0 DEF Cycles, TurnAlone, InTurn, Asking, Resuming, EscalateToHuman
  <1>2. CopyIsLead'
    BY <1>0 DEF Cycles, CopyIsLead, InTurn, EscalateToHuman
  <1>3. FoundOverdue'
    BY <1>0 DEF Cycles, FoundOverdue, EscalateToHuman
  <1>4. CountIsLow'
    BY <1>0 DEF Cycles, CountIsLow, EscalateToHuman
  <1>. QED
    BY <1>1, <1>2, <1>3, <1>4

LEMMA SendHandoverCycles ==
    ASSUME Inv, Cycles, SendHandover
    PROVE  Cycles'
  <1>. SUFFICES ASSUME "turn" \notin raced' PROVE (TurnAlone /\ CopyIsLead /\ FoundOverdue /\ CountIsLow)'
    BY DEF Cycles
  <1>0. "turn" \notin raced
    BY DEF SendHandover
  <1>1. TurnAlone'
    BY <1>0 DEF Cycles, TurnAlone, InTurn, Asking, Resuming, SendHandover
  <1>2. CopyIsLead'
    BY <1>0 DEF Cycles, CopyIsLead, InTurn, SendHandover
  <1>3. FoundOverdue'
    BY <1>0 DEF Cycles, FoundOverdue, SendHandover
  <1>4. CountIsLow'
    BY <1>0 DEF Cycles, CountIsLow, SendHandover
  <1>. QED
    BY <1>1, <1>2, <1>3, <1>4

LEMMA CommitHandoverCycles ==
    ASSUME Inv, Cycles, CommitHandover
    PROVE  Cycles'
  <1>. SUFFICES ASSUME "turn" \notin raced' PROVE (TurnAlone /\ CopyIsLead /\ FoundOverdue /\ CountIsLow)'
    BY DEF Cycles
  <1>0. "turn" \notin raced
    BY DEF CommitHandover, EndsTurn
  <1>1. TurnAlone'
    BY <1>0 DEF TurnAlone, InTurn, CommitHandover, EndsTurn
  <1>2. CopyIsLead'
    BY <1>0 DEF CopyIsLead, InTurn, CommitHandover, EndsTurn
  <1>3. FoundOverdue'
    BY <1>0 DEF Cycles, TurnAlone, FoundOverdue, InTurn, Resuming, CommitHandover
  <1>4. CountIsLow'
    <2>. DEFINE new == [copy EXCEPT !.handover = TRUE]
    <2>1. new \in Leads /\ new.priority = copy.priority /\ new.miss = copy.miss
      BY DEF Leads, Inv, Typed, ConsumerTyped
    <2>2. lead' \in {lead, Written(lead, copy, new)}
      BY DEF CommitHandover
    <2>. HIDE DEF new
    <2>3. lead'.priority = lead.priority /\ lead'.miss = lead.miss
      BY <2>1, <2>2, WrittenLead DEF Inv, Typed, RowsTyped, ConsumerTyped
    <2>. QED
      BY <1>0, <2>3 DEF Cycles, CountIsLow, ShouldAiReply
  <1>. QED
    BY <1>1, <1>2, <1>3, <1>4

LEMMA ReplyCycles ==
    ASSUME Inv, Cycles, Reply
    PROVE  Cycles'
  <1>. SUFFICES ASSUME "turn" \notin raced' PROVE (TurnAlone /\ CopyIsLead /\ FoundOverdue /\ CountIsLow)'
    BY DEF Cycles
  <1>0. "turn" \notin raced
    BY DEF Reply, EndsTurn
  <1>1. TurnAlone'
    BY <1>0 DEF Cycles, TurnAlone, InTurn, Asking, Resuming, Reply
  <1>2. CopyIsLead'
    BY <1>0 DEF Cycles, CopyIsLead, InTurn, Reply, EndsTurn
  <1>3. FoundOverdue'
    BY <1>0 DEF Cycles, FoundOverdue, Reply
  <1>4. CountIsLow'
    BY <1>0 DEF Cycles, CountIsLow, Reply
  <1>. QED
    BY <1>1, <1>2, <1>3, <1>4

LEMMA PageCycles ==
    ASSUME Inv, Cycles, Page
    PROVE  Cycles'
  <1>. SUFFICES ASSUME "turn" \notin raced' PROVE (TurnAlone /\ CopyIsLead /\ FoundOverdue /\ CountIsLow)'
    BY DEF Cycles
  <1>0. "turn" \notin raced
    BY DEF Page, EndsTurn
  <1>1. TurnAlone'
    BY <1>0 DEF TurnAlone, InTurn, Page, EndsTurn
  <1>2. CopyIsLead'
    BY <1>0 DEF CopyIsLead, InTurn, Page, EndsTurn
  <1>3. FoundOverdue'
    BY <1>0 DEF Cycles, TurnAlone, FoundOverdue, InTurn, Resuming, Page
  <1>4. CountIsLow'
    <2>1. PICK told \in BOOLEAN : lead' = Written(lead, copy, Updated(copy, FALSE, TRUE, told))
      BY DEF Page
    <2>. DEFINE new == Updated(copy, FALSE, TRUE, told)
    <2>2. new \in Leads /\ new.priority # "normal"
      BY UpdatedLead DEF Inv, Typed, ConsumerTyped
    <2>3. lead' = Written(lead, copy, new)
      BY <2>1
    <2>. HIDE DEF new
    <2>4. copy.priority = lead.priority
      BY <1>0 DEF Page, InTurn, Cycles, CopyIsLead
    <2>5. lead'.priority = "important"
      BY <2>2, <2>3, <2>4, WrittenLead DEF Leads, Inv, Typed, RowsTyped, ConsumerTyped
    <2>. QED
      BY <2>5 DEF CountIsLow, ShouldAiReply
  <1>. QED
    BY <1>1, <1>2, <1>3, <1>4

LEMMA ConsumerCrashCycles ==
    ASSUME Inv, Cycles, ConsumerCrash
    PROVE  Cycles'
  <1>. SUFFICES ASSUME "turn" \notin raced' PROVE (TurnAlone /\ CopyIsLead /\ FoundOverdue /\ CountIsLow)'
    BY DEF Cycles
  <1>0. "turn" \notin raced
    BY DEF ConsumerCrash, EndsTurn
  <1>1. TurnAlone'
    BY <1>0 DEF TurnAlone, InTurn, ConsumerCrash, EndsTurn
  <1>2. CopyIsLead'
    BY <1>0 DEF CopyIsLead, InTurn, ConsumerCrash, EndsTurn
  <1>3. FoundOverdue'
    BY <1>0 DEF Cycles, FoundOverdue, ConsumerCrash
  <1>4. CountIsLow'
    BY <1>0 DEF Cycles, CountIsLow, ConsumerCrash
  <1>. QED
    BY <1>1, <1>2, <1>3, <1>4

LEMMA AskCycles ==
    ASSUME Inv, Cycles, NEW o \in Operators, Ask(o)
    PROVE  Cycles'
  <1>. SUFFICES ASSUME "turn" \notin raced' PROVE (TurnAlone /\ CopyIsLead /\ FoundOverdue /\ CountIsLow)'
    BY DEF Cycles
  <1>0. "turn" \notin raced
    BY DEF Ask, Overlaps
  <1>1. TurnAlone'
    BY <1>0
    DEF Inv, Typed, OperatorsTyped, SweepsTyped, ConsumerTyped, Cycles, TurnAlone, InTurn,
        Asking, Resuming, Ask, Overlaps
  <1>2. CopyIsLead'
    BY <1>0, SomeTyped
    DEF Inv, Typed, RowsTyped, ConsumerTyped, OperatorsTyped, SweepsTyped, Leads, Cycles,
        TurnAlone, CopyIsLead, InTurn, Asking, Resuming, Ask, Overlaps
  <1>3. FoundOverdue'
    BY <1>0, SomeTyped
    DEF Inv, Typed, RowsTyped, ConsumerTyped, OperatorsTyped, SweepsTyped, Leads, Cycles,
        TurnAlone, FoundOverdue, InTurn, Asking, Resuming, Ask, Overlaps
  <1>4. CountIsLow'
    BY <1>0, SomeTyped, BoundsAreNat
    DEF Inv, Typed, RowsTyped, Leads, Cycles, CountIsLow, ShouldAiReply, Ask, Overlaps
  <1>. QED
    BY <1>1, <1>2, <1>3, <1>4

LEMMA TakeOverCycles ==
    ASSUME Inv, Cycles, NEW o \in Operators, TakeOver(o)
    PROVE  Cycles'
  <1>. SUFFICES ASSUME "turn" \notin raced' PROVE (TurnAlone /\ CopyIsLead /\ FoundOverdue /\ CountIsLow)'
    BY DEF Cycles
  <1>0. "turn" \notin raced
    BY DEF TakeOver, Done
  <1>1. TurnAlone'
    BY <1>0 DEF Cycles, TurnAlone, InTurn, Asking, Resuming, TakeOver, Done
  <1>2. CopyIsLead'
    <2>1. Asking
      BY DEF TakeOver, Takes, Asking
    <2>2. ~InTurn'
      BY <1>0, <2>1 DEF TakeOver, InTurn, Cycles, TurnAlone
    <2>. QED
      BY <2>2 DEF CopyIsLead
  <1>3. FoundOverdue'
    BY <1>0, SomeTyped DEF Cycles, FoundOverdue, TakeOver
  <1>4. CountIsLow'
    BY SomeTyped DEF TakeOver, CountIsLow
  <1>. QED
    BY <1>1, <1>2, <1>3, <1>4

LEMMA GiveBackCycles ==
    ASSUME Inv, Cycles, NEW o \in Operators, GiveBack(o)
    PROVE  Cycles'
  <1>. SUFFICES ASSUME "turn" \notin raced' PROVE (TurnAlone /\ CopyIsLead /\ FoundOverdue /\ CountIsLow)'
    BY DEF Cycles
  <1>0. "turn" \notin raced
    BY DEF GiveBack, Done
  <1>1. TurnAlone'
    BY <1>0 DEF Cycles, TurnAlone, InTurn, Asking, Resuming, GiveBack, Done
  <1>2. CopyIsLead'
    <2>1. Asking
      BY DEF GiveBack, Returns, Asking
    <2>2. ~InTurn'
      BY <1>0, <2>1 DEF GiveBack, InTurn, Cycles, TurnAlone
    <2>. QED
      BY <2>2 DEF CopyIsLead
  <1>3. FoundOverdue'
    BY <1>0, SomeTyped DEF Cycles, FoundOverdue, GiveBack
  <1>4. CountIsLow'
    BY SomeTyped DEF GiveBack, CountIsLow
  <1>. QED
    BY <1>1, <1>2, <1>3, <1>4

LEMMA ResolveLeadCycles ==
    ASSUME Inv, Cycles, NEW o \in Operators, ResolveLead(o)
    PROVE  Cycles'
  <1>. SUFFICES ASSUME "turn" \notin raced' PROVE (TurnAlone /\ CopyIsLead /\ FoundOverdue /\ CountIsLow)'
    BY DEF Cycles
  <1>0. "turn" \notin raced
    BY DEF ResolveLead, Done
  <1>1. TurnAlone'
    BY <1>0 DEF Cycles, TurnAlone, InTurn, Asking, ResolveLead
  <1>2. CopyIsLead'
    BY <1>0 DEF Cycles, TurnAlone, CopyIsLead, InTurn, Asking, ResolveLead
  <1>3. FoundOverdue'
    BY <1>0, SomeTyped DEF Cycles, FoundOverdue, ResolveLead
  <1>4. CountIsLow'
    BY SomeTyped DEF ResolveLead, CountIsLow
  <1>. QED
    BY <1>1, <1>2, <1>3, <1>4

LEMMA AlreadySoCycles ==
    ASSUME Inv, Cycles, NEW o \in Operators, AlreadySo(o)
    PROVE  Cycles'
  <1>. SUFFICES ASSUME "turn" \notin raced' PROVE (TurnAlone /\ CopyIsLead /\ FoundOverdue /\ CountIsLow)'
    BY DEF Cycles
  <1>0. "turn" \notin raced
    BY DEF AlreadySo, Done
  <1>1. TurnAlone'
    BY <1>0
    DEF Inv, Typed, OperatorsTyped, SweepsTyped, ConsumerTyped, Cycles, TurnAlone, InTurn,
        Asking, Resuming, AlreadySo, Done
  <1>2. CopyIsLead'
    BY <1>0, SomeTyped
    DEF Inv, Typed, RowsTyped, ConsumerTyped, OperatorsTyped, SweepsTyped, Leads, Cycles,
        TurnAlone, CopyIsLead, InTurn, Asking, Resuming, AlreadySo, Done
  <1>3. FoundOverdue'
    BY <1>0, SomeTyped
    DEF Inv, Typed, RowsTyped, ConsumerTyped, OperatorsTyped, SweepsTyped, Leads, Cycles,
        TurnAlone, FoundOverdue, InTurn, Asking, Resuming, AlreadySo, Done
  <1>4. CountIsLow'
    BY <1>0, SomeTyped, BoundsAreNat
    DEF Inv, Typed, RowsTyped, Leads, Cycles, CountIsLow, ShouldAiReply, AlreadySo, Done
  <1>. QED
    BY <1>1, <1>2, <1>3, <1>4

LEMMA OrderFailsCycles ==
    ASSUME Inv, Cycles, NEW o \in Operators, OrderFails(o)
    PROVE  Cycles'
  <1>. SUFFICES ASSUME "turn" \notin raced' PROVE (TurnAlone /\ CopyIsLead /\ FoundOverdue /\ CountIsLow)'
    BY DEF Cycles
  <1>0. "turn" \notin raced
    BY DEF OrderFails, Done
  <1>1. TurnAlone'
    BY <1>0 DEF Cycles, TurnAlone, InTurn, Asking, OrderFails
  <1>2. CopyIsLead'
    BY <1>0 DEF Cycles, CopyIsLead, InTurn, OrderFails
  <1>3. FoundOverdue'
    BY <1>0 DEF Cycles, FoundOverdue, OrderFails
  <1>4. CountIsLow'
    BY <1>0 DEF Cycles, CountIsLow, OrderFails
  <1>. QED
    BY <1>1, <1>2, <1>3, <1>4

LEMMA FindReminderCycles ==
    ASSUME Inv, Cycles, NEW s \in Sweepers, FindReminder(s)
    PROVE  Cycles'
  <1>. SUFFICES ASSUME "turn" \notin raced' PROVE (TurnAlone /\ CopyIsLead /\ FoundOverdue /\ CountIsLow)'
    BY DEF Cycles
  <1>0. "turn" \notin raced
    BY DEF FindReminder, Moves
  <1>1. TurnAlone'
    BY <1>0 DEF Cycles, TurnAlone, InTurn, Asking, Resuming, FindReminder, Moves
  <1>2. CopyIsLead'
    BY <1>0 DEF Cycles, CopyIsLead, InTurn, FindReminder
  <1>3. FoundOverdue'
    BY <1>0 DEF Cycles, FoundOverdue, FindReminder, Moves
  <1>4. CountIsLow'
    BY <1>0 DEF CountIsLow, ShouldAiReply, FindReminder
  <1>. QED
    BY <1>1, <1>2, <1>3, <1>4

LEMMA SendReminderCycles ==
    ASSUME Inv, Cycles, NEW s \in Sweepers, SendReminder(s)
    PROVE  Cycles'
  <1>. SUFFICES ASSUME "turn" \notin raced' PROVE (TurnAlone /\ CopyIsLead /\ FoundOverdue /\ CountIsLow)'
    BY DEF Cycles
  <1>0. "turn" \notin raced
    BY DEF SendReminder, Moves
  <1>1. TurnAlone'
    BY <1>0
    DEF Inv, Typed, SweepsTyped, Cycles, TurnAlone, InTurn, Asking, Resuming, SendReminder,
        Moves
  <1>2. CopyIsLead'
    BY <1>0 DEF Cycles, CopyIsLead, InTurn, SendReminder
  <1>3. FoundOverdue'
    BY <1>0, SomeTyped
    DEF Inv, Typed, RowsTyped, ConsumerTyped, SweepsTyped, Cycles, FoundOverdue,
        SendReminder, Moves
  <1>4. CountIsLow'
    BY <1>0 DEF Cycles, CountIsLow, SendReminder
  <1>. QED
    BY <1>1, <1>2, <1>3, <1>4

LEMMA FindOverdueCycles ==
    ASSUME Inv, Cycles, NEW s \in Sweepers, FindOverdue(s)
    PROVE  Cycles'
  <1>. SUFFICES ASSUME "turn" \notin raced' PROVE (TurnAlone /\ CopyIsLead /\ FoundOverdue /\ CountIsLow)'
    BY DEF Cycles
  <1>0. "turn" \notin raced
    BY DEF FindOverdue, Overlaps, Before
  <1>1. TurnAlone'
    BY <1>0 DEF TurnAlone, InTurn, FindOverdue, Overlaps
  <1>2. CopyIsLead'
    BY <1>0 DEF CopyIsLead, InTurn, FindOverdue, Overlaps
  <1>3. FoundOverdue'
    <2>1. Before(s).priority = "important" /\ Before(s).miss = lead.miss
      BY DEF FindOverdue, Resumable, Before
    <2>2. lead' = lead /\ found' = [found EXCEPT ![s] = [lead |-> Before(s), thread |-> thread]]
      BY DEF FindOverdue
    <2>3. ASSUME NEW t \in Sweepers, sweep'[t] = "resuming"
          PROVE  found'[t].lead.priority = "important" /\ lead.miss \in {found'[t].lead.miss, 0}
      <3>1. CASE t = s
        BY <2>1, <2>2, <3>1 DEF Inv, Typed, SweepsTyped
      <3>2. CASE t # s
        BY <1>0, <2>2, <2>3, <3>2 DEF FindOverdue, Moves, Cycles, FoundOverdue
      <3>. QED
        BY <3>1, <3>2
    <2>. QED
      BY <2>2, <2>3 DEF FoundOverdue
  <1>4. CountIsLow'
    BY <1>0 DEF Cycles, CountIsLow, FindOverdue
  <1>. QED
    BY <1>1, <1>2, <1>3, <1>4

LEMMA NothingOverdueCycles ==
    ASSUME Inv, Cycles, NEW s \in Sweepers, NothingOverdue(s)
    PROVE  Cycles'
  <1>. SUFFICES ASSUME "turn" \notin raced' PROVE (TurnAlone /\ CopyIsLead /\ FoundOverdue /\ CountIsLow)'
    BY DEF Cycles
  <1>0. "turn" \notin raced
    BY DEF NothingOverdue, Moves
  <1>1. TurnAlone'
    BY <1>0 DEF Cycles, TurnAlone, InTurn, Asking, Resuming, NothingOverdue, Moves
  <1>2. CopyIsLead'
    BY <1>0 DEF Cycles, CopyIsLead, InTurn, NothingOverdue
  <1>3. FoundOverdue'
    BY <1>0 DEF Cycles, FoundOverdue, NothingOverdue, Moves
  <1>4. CountIsLow'
    <2>1. lead'.priority = lead.priority /\ lead'.miss = lead.miss
      BY DEF NothingOverdue, RowsTyped
    <2>. QED
      BY <1>0, <2>1 DEF Cycles, CountIsLow, ShouldAiReply
  <1>. QED
    BY <1>1, <1>2, <1>3, <1>4

LEMMA ResumeCycles ==
    ASSUME Inv, Cycles, NEW s \in Sweepers, Resume(s)
    PROVE  Cycles'
  <1>. SUFFICES ASSUME "turn" \notin raced' PROVE (TurnAlone /\ CopyIsLead /\ FoundOverdue /\ CountIsLow)'
    BY DEF Cycles
  <1>0. "turn" \notin raced
    BY DEF Resume, Moves, ResumeLead
  <1>1. TurnAlone'
    BY <1>0 DEF Cycles, TurnAlone, InTurn, Resuming, Resume
  <1>2. CopyIsLead'
    BY <1>0 DEF Cycles, TurnAlone, CopyIsLead, InTurn, Resuming, Resume
  <1>3. FoundOverdue'
    <2>1. lead' = Written(lead, found[s].lead, Clean) /\ found[s].lead \in Leads
      BY DEF Resume, ResumeLead, Inv, Typed, SweepsTyped
    <2>2. lead'.miss \in {0, lead.miss}
      BY <2>1, WrittenLead, SomeTyped DEF Inv, Typed, RowsTyped
    <2>3. ASSUME NEW t \in Sweepers, sweep'[t] = "resuming"
          PROVE  sweep[t] = "resuming" /\ found'[t] = found[t]
      BY <2>3 DEF Resume, Moves, Inv, Typed, SweepsTyped
    <2>. QED
      BY <1>0, <2>2, <2>3 DEF Cycles, FoundOverdue
  <1>4. CountIsLow'
    <2>1. lead' = Written(lead, found[s].lead, Clean) /\ found[s].lead \in Leads
      BY DEF Resume, ResumeLead, Inv, Typed, SweepsTyped
    <2>2. lead.miss \in {found[s].lead.miss, 0}
      BY <1>0 DEF Resume, Cycles, FoundOverdue
    <2>3. lead'.miss = 0
      BY <2>1, <2>2, WrittenLead, SomeTyped DEF Inv, Typed, RowsTyped
    <2>. QED
      BY <2>3, BoundsAreNat DEF CountIsLow
  <1>. QED
    BY <1>1, <1>2, <1>3, <1>4

LEMMA SweepFailsCycles ==
    ASSUME Inv, Cycles, NEW s \in Sweepers, SweepFails(s)
    PROVE  Cycles'
  <1>. SUFFICES ASSUME "turn" \notin raced' PROVE (TurnAlone /\ CopyIsLead /\ FoundOverdue /\ CountIsLow)'
    BY DEF Cycles
  <1>0. "turn" \notin raced
    BY DEF SweepFails, Moves
  <1>1. TurnAlone'
    BY <1>0 DEF Cycles, TurnAlone, InTurn, Asking, Resuming, SweepFails, Moves
  <1>2. CopyIsLead'
    BY <1>0 DEF Cycles, CopyIsLead, InTurn, SweepFails
  <1>3. FoundOverdue'
    BY <1>0, SomeTyped
    DEF Inv, Typed, RowsTyped, ConsumerTyped, SweepsTyped, Cycles, FoundOverdue, SweepFails,
        Moves
  <1>4. CountIsLow'
    BY <1>0 DEF Cycles, CountIsLow, SweepFails
  <1>. QED
    BY <1>1, <1>2, <1>3, <1>4

LEMMA WindowPassesCycles ==
    ASSUME Inv, Cycles, WindowPasses
    PROVE  Cycles'
  <1>. SUFFICES ASSUME "turn" \notin raced' PROVE (TurnAlone /\ CopyIsLead /\ FoundOverdue /\ CountIsLow)'
    BY DEF Cycles
  <1>0. "turn" \notin raced
    BY DEF WindowPasses
  <1>1. TurnAlone'
    BY <1>0 DEF Cycles, TurnAlone, InTurn, Asking, Resuming, WindowPasses
  <1>2. CopyIsLead'
    BY <1>0 DEF Cycles, CopyIsLead, InTurn, WindowPasses
  <1>3. FoundOverdue'
    BY <1>0 DEF Cycles, FoundOverdue, WindowPasses
  <1>4. CountIsLow'
    <2>1. lead'.priority = lead.priority /\ lead'.miss = lead.miss
      BY DEF WindowPasses, RowsTyped
    <2>. QED
      BY <1>0, <2>1 DEF Cycles, CountIsLow, ShouldAiReply
  <1>. QED
    BY <1>1, <1>2, <1>3, <1>4

LEMMA ReminderFallsDueCycles ==
    ASSUME Inv, Cycles, ReminderFallsDue
    PROVE  Cycles'
  <1>. SUFFICES ASSUME "turn" \notin raced' PROVE (TurnAlone /\ CopyIsLead /\ FoundOverdue /\ CountIsLow)'
    BY DEF Cycles
  <1>0. "turn" \notin raced
    BY DEF ReminderFallsDue
  <1>1. TurnAlone'
    BY <1>0 DEF Cycles, TurnAlone, InTurn, Asking, Resuming, ReminderFallsDue
  <1>2. CopyIsLead'
    BY <1>0 DEF Cycles, CopyIsLead, InTurn, ReminderFallsDue
  <1>3. FoundOverdue'
    BY <1>0 DEF Cycles, FoundOverdue, ReminderFallsDue
  <1>4. CountIsLow'
    <2>1. lead'.priority = lead.priority /\ lead'.miss = lead.miss
      BY DEF ReminderFallsDue, RowsTyped
    <2>. QED
      BY <1>0, <2>1 DEF Cycles, CountIsLow, ShouldAiReply
  <1>. QED
    BY <1>1, <1>2, <1>3, <1>4

-----------------------------------------------------------------------------
(* The specification                                                       *)

LEMMA AllInit == Init => Inv /\ Takeovers /\ Cycles
  <1>. SUFFICES ASSUME Init PROVE Inv /\ Takeovers /\ Cycles
    OBVIOUS
  <1>1. Typed
    <2>1. RowsTyped /\ ConsumerTyped
      BY SomeTyped DEF Init, RowsTyped, ConsumerTyped
    <2>2. OperatorsTyped /\ SweepsTyped /\ HistoryTyped
      BY SomeTyped DEF Init, OperatorsTyped, SweepsTyped, HistoryTyped
    <2>3. BoundsTyped
      BY BoundsAreNat DEF Init, BoundsTyped
    <2>. QED
      BY <2>1, <2>2, <2>3 DEF Typed
  <1>2. MissesCounted /\ HeldIsAi
    BY SomeTyped DEF Init, MissesCounted, Counted, InTurn, HeldIsAi
  <1>3. Takeovers
    BY DEF Init, Takeovers, AskersAlone, SeenHolds, MutedIsCalm, PersonHolds, Asking
  <1>4. Cycles
    BY SomeTyped DEF Init, Cycles, TurnAlone, CopyIsLead, FoundOverdue, CountIsLow, InTurn
  <1>. QED
    BY <1>1, <1>2, <1>3, <1>4 DEF Inv

LEMMA InvNext ==
    ASSUME Inv, [Next]_vars
    PROVE  Inv'
  <1>1. ASSUME ConsumerStep PROVE Inv'
    BY <1>1, GateKeeps, JudgeKeeps, HandoffCodeKeeps, DecideKeeps, DecideOnInstagramKeeps,
       EscalateToHumanKeeps, SendHandoverKeeps, CommitHandoverKeeps, ReplyKeeps, PageKeeps
    DEF ConsumerStep
  <1>2. ASSUME NEW o \in Operators, OperatorStep(o) PROVE Inv'
    BY <1>2, AskKeeps, TakeOverKeeps, GiveBackKeeps, ResolveLeadKeeps, AlreadySoKeeps,
       OrderFailsKeeps
    DEF OperatorStep
  <1>3. ASSUME NEW s \in Sweepers, SweepStep(s) \/ SweepFails(s) PROVE Inv'
    BY <1>3, FindReminderKeeps, SendReminderKeeps, FindOverdueKeeps, NothingOverdueKeeps,
       ResumeKeeps, SweepFailsKeeps
    DEF SweepStep
  <1>4. ASSUME UNCHANGED vars PROVE Inv'
    BY <1>4
    DEF vars, Inv, Typed, RowsTyped, ConsumerTyped, OperatorsTyped, SweepsTyped,
        HistoryTyped, BoundsTyped, MissesCounted, Counted, Past, Turns, Early, InTurn,
        HeldIsAi
  <1>. QED
    BY <1>1, <1>2, <1>3, <1>4, TakeKeeps, ConsumerCrashKeeps, WindowPassesKeeps,
       ReminderFallsDueKeeps
    DEF Next, TimePasses

LEMMA TakeoversNext ==
    ASSUME Inv, Takeovers, [Next]_vars
    PROVE  Takeovers'
  <1>1. ASSUME ConsumerStep PROVE Takeovers'
    BY <1>1, GateTakeovers, JudgeTakeovers, HandoffCodeTakeovers, DecideTakeovers,
       DecideOnInstagramTakeovers, EscalateToHumanTakeovers, SendHandoverTakeovers,
       CommitHandoverTakeovers, ReplyTakeovers, PageTakeovers
    DEF ConsumerStep
  <1>2. ASSUME NEW o \in Operators, OperatorStep(o) PROVE Takeovers'
    BY <1>2, AskTakeovers, TakeOverTakeovers, GiveBackTakeovers, ResolveLeadTakeovers,
       AlreadySoTakeovers, OrderFailsTakeovers
    DEF OperatorStep
  <1>3. ASSUME NEW s \in Sweepers, SweepStep(s) \/ SweepFails(s) PROVE Takeovers'
    BY <1>3, FindReminderTakeovers, SendReminderTakeovers, FindOverdueTakeovers,
       NothingOverdueTakeovers, ResumeTakeovers, SweepFailsTakeovers
    DEF SweepStep
  <1>4. ASSUME UNCHANGED vars PROVE Takeovers'
    BY <1>4
    DEF vars, Takeovers, NoRace, AskersAlone, SeenHolds, MutedIsCalm, PersonHolds, Muted,
        Asking, Resuming, ShouldAiReply
  <1>. QED
    BY <1>1, <1>2, <1>3, <1>4, TakeTakeovers, ConsumerCrashTakeovers, WindowPassesTakeovers,
       ReminderFallsDueTakeovers
    DEF Next, TimePasses

LEMMA CyclesNext ==
    ASSUME Inv, Cycles, [Next]_vars
    PROVE  Cycles'
  <1>1. ASSUME ConsumerStep PROVE Cycles'
    BY <1>1, GateCycles, JudgeCycles, HandoffCodeCycles, DecideCycles,
       DecideOnInstagramCycles, EscalateToHumanCycles, SendHandoverCycles,
       CommitHandoverCycles, ReplyCycles, PageCycles
    DEF ConsumerStep
  <1>2. ASSUME NEW o \in Operators, OperatorStep(o) PROVE Cycles'
    BY <1>2, AskCycles, TakeOverCycles, GiveBackCycles, ResolveLeadCycles, AlreadySoCycles,
       OrderFailsCycles
    DEF OperatorStep
  <1>3. ASSUME NEW s \in Sweepers, SweepStep(s) \/ SweepFails(s) PROVE Cycles'
    BY <1>3, FindReminderCycles, SendReminderCycles, FindOverdueCycles,
       NothingOverdueCycles, ResumeCycles, SweepFailsCycles
    DEF SweepStep
  <1>4. ASSUME UNCHANGED vars PROVE Cycles'
    BY <1>4
    DEF vars, Cycles, TurnAlone, CopyIsLead, FoundOverdue, CountIsLow, InTurn, Asking,
        Resuming
  <1>. QED
    BY <1>1, <1>2, <1>3, <1>4, TakeCycles, ConsumerCrashCycles, WindowPassesCycles,
       ReminderFallsDueCycles
    DEF Next, TimePasses

\* The rows of channels/conversation_mode.py and lead_escalation.py keep their types; a lead's
\* count of misses is one less than the turns at most, because before the AI's first answer
\* nothing counts as a miss.
THEOREM HandoverTyped == Spec => []TypeOK
  <1>1. ASSUME Inv PROVE TypeOK
    <2>1. ASSUME NEW r \in Leads, Counted(r.miss)
          PROVE  r \in LeadRows
      <3>1. Past \in Int /\ Past <= MaxMessages + MaxFaults
        BY <1>1, BoundsAreNat DEF Inv, Typed, BoundsTyped, Past, Turns
      <3>2. r.miss \in Nat
        BY DEF Leads
      <3>3. r.miss \in 0..(MaxMessages + MaxFaults - 1)
        BY <2>1, <3>1, <3>2, BoundsAreNat DEF Counted
      <3>. QED
        BY <3>3 DEF Leads, LeadRows
    <2>2. lead \in LeadRows /\ copy \in LeadRows
      BY <1>1, <2>1 DEF Inv, Typed, RowsTyped, ConsumerTyped, MissesCounted
    <2>3. ASSUME NEW s \in Sweepers
          PROVE  found[s] \in [lead : LeadRows, thread : Threads]
      <3>1. found[s] \in [lead : Leads, thread : Threads] /\ Counted(found[s].lead.miss)
        BY <1>1 DEF Inv, Typed, SweepsTyped, MissesCounted
      <3>2. found[s].lead \in LeadRows
        BY <2>1, <3>1
      <3>. QED
        BY <3>1, <3>2
    <2>4. found \in [Sweepers -> [lead : LeadRows, thread : Threads]]
      BY <1>1, <2>3 DEF Inv, Typed, SweepsTyped
    <2>. QED
      BY <1>1, <2>2, <2>4
      DEF TypeOK, Inv, Typed, RowsTyped, ConsumerTyped, OperatorsTyped, SweepsTyped,
          HistoryTyped, BoundsTyped
  <1>. QED
    BY <1>1, AllInit, InvNext, PTL DEF Spec

\* conversation_mode.py, set_mode and lead_escalation.py: a thread a person has taken over is
\* not returned to the AI by the sweeps, and not by a message whose turn the takeover
\* interrupted, unless transactions overlapped with the takeover or a quoted code did it.
THEOREM PersonKeepsTheThread == Spec => []PersonKeepsThread
  <1>1. Takeovers => PersonKeepsThread
    BY DEF Takeovers, NoRace, PersonHolds, PersonKeepsThread
  <1>2. Inv /\ Takeovers /\ [Next]_vars => (Inv /\ Takeovers)'
    BY InvNext, TakeoversNext
  <1>. QED
    BY <1>1, <1>2, AllInit, PTL DEF Spec

\* lead_escalation.py, resume_lead and update_escalation_state: a lead the AI has starts a
\* clean miss cycle, its count below the threshold, unless a turn overlapped with a resume or
\* a request.
THEOREM BackToTheAiStartsClean == Spec => []BackToTheAiIsClean
  <1>1. Cycles => BackToTheAiIsClean
    BY DEF Cycles, CountIsLow, BackToTheAiIsClean
  <1>2. Inv /\ Cycles /\ [Next]_vars => (Inv /\ Cycles)'
    BY InvNext, CyclesNext
  <1>. QED
    BY <1>1, <1>2, AllInit, PTL DEF Spec
=============================================================================
