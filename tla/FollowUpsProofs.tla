--------------------------- MODULE FollowUpsProofs ---------------------------
(***************************************************************************)
(* Theorems about FollowUps, for all leads, workers, attempts and bounds.  *)
(***************************************************************************)
EXTENDS FollowUps, Integers, FiniteSetTheorems, TLAPS

-----------------------------------------------------------------------------
(* The inductive invariant                                                 *)

Steps == {"sending", "templating", "templated", "blocked"} \cup Verdicts
Batches == UNION {[S -> Rows] : S \in SUBSET Actions}

\* TypeOK, with what a worker holds where.
RowsTyped ==
    row \in [Actions -> Rows] /\ key \in [Actions -> {"none", "blocked", "failed", "sent"}]
LeadsTyped ==
    /\ inbound \in [Leads -> Nat] /\ inWindow \subseteq Leads
    /\ stage \in [Leads -> {"qualified", "follow_up", "closed"}]
    /\ optedOut \subseteq Leads
ConsumerTyped ==
    /\ talk \in [Leads -> {"idle", "storing", "capturing", "replying"}]
    /\ read \in [Leads -> {"qualified", "follow_up", "closed"}]
    /\ marked \in [Leads -> SUBSET Actions]
OperatorTyped ==
    /\ mode \in [Leads -> {"ai", "human"}] /\ orders \in 0..MaxOrders
    /\ taking \in [Leads -> BOOLEAN] /\ taken \in [Leads -> SUBSET Actions]
Holding(w) ==
    /\ locked[w] \subseteq DOMAIN batch[w]
    /\ pc[w] = "idle" => DOMAIN batch[w] = {}
    /\ pc[w] \in {"idle", "checking"} => cur[w] = NoAction
    /\ pc[w] \in Steps => cur[w] \in DOMAIN batch[w]
WorkersTyped ==
    /\ pc \in [Workers -> {"idle", "checking"} \cup Steps]
    /\ batch \in [Workers -> Batches] /\ locked \in [Workers -> SUBSET Actions]
    /\ cur \in [Workers -> {NoAction} \cup Actions]
    /\ \A w \in Workers : Holding(w)
GhostsTyped ==
    /\ copies \in [Actions -> 0..MaxCopies] /\ templates \in [Actions -> Nat]
    /\ excused \in [Actions -> Nat] /\ escaped \subseteq Actions
    /\ twice \subseteq Leads \X Nat
Typed ==
    /\ RowsTyped /\ LeadsTyped /\ ConsumerTyped /\ OperatorTyped /\ WorkersTyped
    /\ GhostsTyped /\ faults \in 0..MaxFaults

\* A worker may still send what it holds, until its call for it is over.
AfterTheCall == {"accepted", "ambiguous", "late", "failed"}
Owes(w, a) == a \in DOMAIN batch[w] /\ ~(cur[w] = a /\ pc[w] \in AfterTheCall)
Owing(a) == {w \in Workers : Owes(w, a)}
\* One worker more may claim it: it is yet to be armed, or nobody has its lock or a
\* lease on it.
Held(a) == \E w \in Workers : a \in locked[w]
Leased(a) == row[a].status = "claimed" /\ ~row[a].lapsed /\ Working(a)
Spare(a) ==
    row[a].status = "none" \/ (row[a].status \in Live /\ ~Held(a) /\ ~Leased(a))
\* What was sent and what may still be sent is paid for.
Left(a) == IF Spare(a) THEN 1 ELSE 0
NudgesArePaid ==
    \A a \in Actions : copies[a] + Cardinality(Owing(a)) + Left(a) <= 1 + excused[a]

\* The row of a template is committed before its call, and by one worker.
Templating(w, a) == cur[w] = a /\ pc[w] \in {"templating", "templated", "blocked"}
TemplatesAreReserved ==
    \A a \in Actions :
        /\ templates[a] <= 1
        /\ key[a] = "none" => templates[a] = 0 /\ \A w \in Workers : ~Templating(w, a)
        /\ \A w \in Workers : cur[w] = a /\ pc[w] = "templating" => templates[a] = 0
        /\ \A v, w \in Workers : Templating(v, a) /\ Templating(w, a) => v = w

\* An action somebody may still send: its row is live, or a worker has it in hand.  One that
\* a person's thread has left, or a takeover has not read to cancel, escaped.
Alive(a) == row[a].status \in Live \/ Working(a)
EscapedAreKnown ==
    /\ \A l \in Leads : taking[l] => mode[l] = "ai"
    /\ \A a \in Actions :
          /\ mode[LeadOf(a)] = "human" /\ Alive(a) => a \in escaped
          /\ taking[LeadOf(a)] /\ a \notin taken[LeadOf(a)] /\ Alive(a) => a \in escaped

Inv == Typed /\ NudgesArePaid /\ TemplatesAreReserved /\ EscapedAreKnown

-----------------------------------------------------------------------------
(* Facts about the definitions                                             *)

LEMMA BoundsAreNat ==
    /\ Chased \in [Leads -> Nat] /\ IsFiniteSet(Workers) /\ Attempts \in Nat
    /\ MaxRetries \in Nat /\ MaxOrders \in Nat /\ MaxCopies \in Nat \ {0} /\ MaxFaults \in Nat
  BY ConstantsAssumption

LEMMA ActionTyped ==
    ASSUME NEW a \in Actions
    PROVE  LeadOf(a) \in Leads /\ a # NoAction
  <1>1. PICK l \in Leads : a \in {l} \X (1..Chased[l]) \X (1..Attempts)
    BY DEF Actions
  <1>2. PICK n \in 1..Chased[l], m \in 1..Attempts : a = <<l, n, m>>
    BY <1>1
  <1>3. <<l, n, m>> # <<>>
    OBVIOUS
  <1>. QED
    BY <1>2, <1>3 DEF LeadOf, NoAction

LEMMA SomeRows ==
    /\ NoRow \in Rows /\ Armed \in Rows /\ NoRow.status = "none" /\ Armed.status = "pending"
    /\ \A status \in Settled : Ended(status) \in Rows /\ Ended(status).status = status
  <1>1. NoRow \in Rows /\ NoRow.status = "none"
    BY BoundsAreNat DEF NoRow, Rows
  <1>2. ASSUME NEW status \in {"pending"} \cup Settled
        PROVE  /\ [NoRow EXCEPT !.status = status] \in Rows
               /\ [NoRow EXCEPT !.status = status].status = status
    BY <1>1 DEF Rows, Live, Settled
  <1>. QED
    BY <1>1, <1>2 DEF Armed, Ended

LEMMA BatchIsTyped ==
    ASSUME NEW b \in Batches
    PROVE  DOMAIN b \subseteq Actions /\ \A a \in DOMAIN b : b[a] \in Rows
  BY DEF Batches

LEMMA TypedBatch ==
    ASSUME NEW S, S \subseteq Actions, NEW b \in [S -> Rows]
    PROVE  b \in Batches /\ DOMAIN b = S
  BY DEF Batches

LEMMA Members ==
    ASSUME NEW S, IsFiniteSet(S), NEW x
    PROVE  /\ Cardinality(S) \in Nat /\ Cardinality(S \ {x}) \in Nat
           /\ Cardinality(S) = Cardinality(S \ {x}) + IF x \in S THEN 1 ELSE 0
  <1>1. CASE x \in S
    BY <1>1, FS_RemoveElement, FS_CardinalityType
  <1>2. CASE x \notin S
    <2>1. S \ {x} = S
      BY <1>2
    <2>2. Cardinality(S) \in Nat
      BY FS_CardinalityType
    <2>. QED
      BY <1>2, <2>1, <2>2
  <1>. QED
    BY <1>1, <1>2

-----------------------------------------------------------------------------
(* Types: what the helpers of the worker write                             *)

USE DEF leadVars, consumerVars, operatorVars, workerVars, ghosts

LEMMA CancelledTyped ==
    ASSUME RowsTyped, NEW S
    PROVE  Cancelled(S) \in [Actions -> Rows]
  <1>1. Ended("cancelled") \in Rows
    BY SomeRows DEF Settled
  <1>. QED
    BY <1>1 DEF Cancelled, RowsTyped

LEMMA ClaimsTyped ==
    ASSUME RowsTyped, NEW w \in Workers
    PROVE  /\ Claims(w) \in [Actions -> Rows]
           /\ \A a \in Actions :
                 IF a \in locked[w] THEN Claims(w)[a].status = "claimed" /\ ~Claims(w)[a].lapsed
                                    ELSE Claims(w)[a] = row[a]
  <1>1. ASSUME NEW r \in Rows
        PROVE  /\ [r EXCEPT !.status = "claimed", !.lapsed = FALSE] \in Rows
               /\ [r EXCEPT !.status = "claimed", !.lapsed = FALSE].status = "claimed"
               /\ ~[r EXCEPT !.status = "claimed", !.lapsed = FALSE].lapsed
    BY DEF Rows, Live
  <1>2. \A a \in Actions : row[a] \in Rows
    BY DEF RowsTyped
  <1>. QED
    BY <1>1, <1>2 DEF Claims

LEMMA OutcomeTyped ==
    ASSUME RowsTyped, NEW w \in Workers, NEW x \in Actions, NEW status \in Settled
    PROVE  /\ Outcome(w, x, status) \in [Actions -> Rows]
           /\ Outcome(w, x, status)[x].status = status
           /\ \A a \in Actions \ {x} : Outcome(w, x, status)[a] = Claims(w)[a]
  <1>1. Ended(status) \in Rows /\ Ended(status).status = status
    BY SomeRows
  <1>. QED
    BY <1>1, ClaimsTyped DEF Outcome

LEMMA GoesOnTyped ==
    ASSUME WorkersTyped, NEW w \in Workers, NEW x, GoesOn(w, x)
    PROVE  WorkersTyped'
  <1>1. /\ Remaining(w, x) \subseteq DOMAIN batch[w] /\ Remaining(w, x) \subseteq Actions
        /\ \A a \in DOMAIN batch[w] : batch[w][a] \in Rows
    BY BatchIsTyped DEF WorkersTyped, Remaining
  <1>2. PICK b \in [Remaining(w, x) -> Rows] : b = [a \in Remaining(w, x) |-> batch[w][a]]
    BY <1>1
  <1>3. b \in Batches /\ DOMAIN b = Remaining(w, x)
    BY <1>1, <1>2, TypedBatch
  <1>4. /\ pc' \in [Workers -> {"idle", "checking"} \cup Steps]
        /\ batch' \in [Workers -> Batches] /\ locked' \in [Workers -> SUBSET Actions]
        /\ cur' \in [Workers -> {NoAction} \cup Actions]
    BY <1>2, <1>3 DEF GoesOn, WorkersTyped
  <1>5. /\ pc'[w] = IF Remaining(w, x) = {} THEN "idle" ELSE "checking"
        /\ batch'[w] = b /\ locked'[w] = {} /\ cur'[w] = NoAction
    BY <1>2 DEF GoesOn, WorkersTyped
  <1>6. ASSUME NEW v \in Workers \ {w}
        PROVE  /\ pc'[v] = pc[v] /\ batch'[v] = batch[v] /\ locked'[v] = locked[v]
               /\ cur'[v] = cur[v]
    BY DEF GoesOn, WorkersTyped
  <1>7. Holding(w)'
    BY <1>3, <1>5 DEF Holding, Steps, Verdicts
  <1>8. ASSUME NEW v \in Workers \ {w}
        PROVE  Holding(v)'
    BY <1>6 DEF Holding, WorkersTyped
  <1>. QED
    BY <1>4, <1>7, <1>8 DEF WorkersTyped

LEMMA DropsTyped ==
    ASSUME WorkersTyped, NEW w \in Workers, Drops(w)
    PROVE  WorkersTyped' /\ DOMAIN batch'[w] = {} /\ locked'[w] = {}
  <1>1. NoBatch \in Batches /\ DOMAIN NoBatch = {}
    <2>1. NoBatch \in [{} -> Rows]
      BY DEF NoBatch
    <2>. QED
      BY <2>1, TypedBatch
  <1>2. /\ pc' \in [Workers -> {"idle", "checking"} \cup Steps]
        /\ batch' \in [Workers -> Batches] /\ locked' \in [Workers -> SUBSET Actions]
        /\ cur' \in [Workers -> {NoAction} \cup Actions]
    BY <1>1 DEF Drops, WorkersTyped
  <1>3. pc'[w] = "idle" /\ batch'[w] = NoBatch /\ locked'[w] = {} /\ cur'[w] = NoAction
    BY DEF Drops, WorkersTyped
  <1>4. ASSUME NEW v \in Workers \ {w}
        PROVE  /\ pc'[v] = pc[v] /\ batch'[v] = batch[v] /\ locked'[v] = locked[v]
               /\ cur'[v] = cur[v]
    BY DEF Drops, WorkersTyped
  <1>5. Holding(w)'
    BY <1>1, <1>3 DEF Holding, Steps, Verdicts
  <1>6. ASSUME NEW v \in Workers \ {w}
        PROVE  Holding(v)'
    BY <1>4 DEF Holding, WorkersTyped
  <1>. QED
    BY <1>1, <1>2, <1>3, <1>5, <1>6 DEF WorkersTyped

LEMMA LosesTyped ==
    ASSUME WorkersTyped, GhostsTyped, NEW w \in Workers, Loses(w)
    PROVE  /\ WorkersTyped' /\ GhostsTyped'
           /\ \A a \in Actions :
                 excused'[a] = IF cur[w] = a THEN excused[a] + 1 ELSE excused[a]
  <1>1. WorkersTyped'
    BY DropsTyped DEF Loses
  <1>2. CASE cur[w] = NoAction
    BY <1>1, <1>2, ActionTyped DEF Loses, GhostsTyped
  <1>3. CASE cur[w] # NoAction
    <2>1. cur[w] \in Actions /\ excused' = [excused EXCEPT ![cur[w]] = @ + 1]
      BY <1>3 DEF WorkersTyped, Loses
    <2>. QED
      BY <1>1, <2>1 DEF Loses, GhostsTyped
  <1>. QED
    BY <1>2, <1>3

\* A worker that goes from one step of its action to the next.
LEMMA MovesTyped ==
    ASSUME WorkersTyped, NEW w \in Workers, NEW x \in DOMAIN batch[w], NEW s \in Steps,
           pc' = [pc EXCEPT ![w] = s], cur' = [cur EXCEPT ![w] = x], UNCHANGED batch,
           locked' = locked \/ locked' = [locked EXCEPT ![w] = {}]
    PROVE  WorkersTyped'
  <1>1. x \in Actions
    BY BatchIsTyped DEF WorkersTyped
  <1>2. /\ pc' \in [Workers -> {"idle", "checking"} \cup Steps]
        /\ batch' \in [Workers -> Batches] /\ locked' \in [Workers -> SUBSET Actions]
        /\ cur' \in [Workers -> {NoAction} \cup Actions]
    BY <1>1 DEF WorkersTyped
  <1>3. pc'[w] = s /\ cur'[w] = x /\ locked'[w] \subseteq locked[w]
    BY DEF WorkersTyped
  <1>4. ASSUME NEW v \in Workers \ {w}
        PROVE  pc'[v] = pc[v] /\ locked'[v] = locked[v] /\ cur'[v] = cur[v]
    BY DEF WorkersTyped
  <1>5. Holding(w)'
    BY <1>3 DEF Holding, WorkersTyped, Steps, Verdicts
  <1>6. ASSUME NEW v \in Workers \ {w}
        PROVE  Holding(v)'
    BY <1>4 DEF Holding, WorkersTyped
  <1>. QED
    BY <1>2, <1>5, <1>6 DEF WorkersTyped

-----------------------------------------------------------------------------
(* Types: the steps                                                        *)

\* A row that becomes another row.
LEMMA RowTyped ==
    ASSUME RowsTyped, NEW a \in Actions, NEW r \in Rows
    PROVE  [row EXCEPT ![a] = r] \in [Actions -> Rows]
  BY DEF RowsTyped

LEMMA ConsumerTypedStep ==
    ASSUME Typed, NEW l \in Leads, ConsumerStep(l)
    PROVE  Typed'
  <1>. USE DEF Typed
  <1>1. Cancellable(l) \subseteq Actions
    BY DEF Cancellable, Of
  <1>2. CASE Receive(l)
    BY <1>1, <1>2 DEF Receive, RowsTyped, LeadsTyped, ConsumerTyped, OperatorTyped,
       WorkersTyped, Holding, GhostsTyped
  <1>3. CASE Store(l)
    <2>1. row' \in [Actions -> Rows]
      BY <1>3, CancelledTyped DEF Store
    <2>2. LeadsTyped' /\ ConsumerTyped'
      BY <1>3 DEF Store, LeadsTyped, ConsumerTyped
    <2>. QED
      BY <1>3, <2>1, <2>2
      DEF Store, RowsTyped, OperatorTyped, WorkersTyped, Holding, GhostsTyped
  <1>4. CASE StoreTimesOut(l)
    BY <1>4 DEF StoreTimesOut, RowsTyped, LeadsTyped, ConsumerTyped, OperatorTyped,
       WorkersTyped, Holding, GhostsTyped
  <1>5. CASE Capture(l)
    <2>1. row' \in [Actions -> Rows]
      BY <1>5, CancelledTyped DEF Capture, RowsTyped
    <2>2. LeadsTyped' /\ ConsumerTyped'
      BY <1>5 DEF Capture, LeadsTyped, ConsumerTyped
    <2>. QED
      BY <1>5, <2>1, <2>2
      DEF Capture, RowsTyped, OperatorTyped, WorkersTyped, Holding, GhostsTyped
  <1>6. ASSUME NEW overlapped \in BOOLEAN, ScheduleFollowup(l, overlapped)
        PROVE  Typed'
    <2>1. PICK a \in FreeAttempts(l) : row' = [row EXCEPT ![a] = Armed]
      BY <1>6 DEF ScheduleFollowup
    <2>2. row' \in [Actions -> Rows]
      BY <2>1, SomeRows, RowTyped DEF FreeAttempts, Of
    <2>4. escaped' \subseteq Actions
      BY <1>6 DEF ScheduleFollowup, FreeAttempts, Of, Arms, GhostsTyped
    <2>3. LeadsTyped' /\ ConsumerTyped' /\ GhostsTyped' /\ faults' \in 0..MaxFaults
      BY <1>6, <2>4, BoundsAreNat
      DEF ScheduleFollowup, LeadsTyped, ConsumerTyped, GhostsTyped, EndsTurn, Fault
    <2>. QED
      BY <1>6, <2>2, <2>3
      DEF ScheduleFollowup, RowsTyped, OperatorTyped, WorkersTyped, Holding
  <1>7. CASE NoFollowup(l)
    BY <1>7 DEF NoFollowup, EndsTurn, RowsTyped, LeadsTyped, ConsumerTyped, OperatorTyped,
       WorkersTyped, Holding, GhostsTyped
  <1>. QED
    BY <1>2, <1>3, <1>4, <1>5, <1>6, <1>7 DEF ConsumerStep

LEMMA OperatorTypedStep ==
    ASSUME Typed, NEW l \in Leads, OperatorStep(l)
    PROVE  Typed'
  <1>. USE DEF Typed
  <1>1. CASE TakeOver(l)
    <2>1. Cancellable(l) \subseteq Actions
      BY DEF Cancellable, Of
    <2>2. OperatorTyped'
      BY <1>1, <2>1, BoundsAreNat DEF TakeOver, OperatorTyped, Order
    <2>3. escaped' \subseteq Actions
      BY <1>1 DEF TakeOver, InHand, Of, GhostsTyped
    <2>. QED
      BY <1>1, <2>2, <2>3
      DEF TakeOver, RowsTyped, LeadsTyped, ConsumerTyped, WorkersTyped, Holding, GhostsTyped
  <1>2. CASE TakeOverCommits(l)
    <2>1. row' \in [Actions -> Rows]
      BY <1>2, CancelledTyped DEF TakeOverCommits
    <2>2. OperatorTyped'
      BY <1>2 DEF TakeOverCommits, OperatorTyped
    <2>3. escaped' \subseteq Actions
      BY <1>2 DEF TakeOverCommits, InHand, Of, GhostsTyped
    <2>. QED
      BY <1>2, <2>1, <2>2, <2>3
      DEF TakeOverCommits, RowsTyped, LeadsTyped, ConsumerTyped, WorkersTyped, Holding,
          GhostsTyped
  <1>3. CASE TakeOverTimesOut(l)
    BY <1>3 DEF TakeOverTimesOut, RowsTyped, LeadsTyped, ConsumerTyped, OperatorTyped,
       WorkersTyped, Holding, GhostsTyped
  <1>4. CASE HandBack(l)
    BY <1>4 DEF HandBack, RowsTyped, LeadsTyped, ConsumerTyped, OperatorTyped,
       WorkersTyped, Holding, GhostsTyped
  <1>5. CASE UpdateStage(l)
    <2>1. LeadsTyped' /\ OperatorTyped'
      BY <1>5, BoundsAreNat DEF UpdateStage, LeadsTyped, OperatorTyped, Order
    <2>. QED
      BY <1>5, <2>1
      DEF UpdateStage, RowsTyped, ConsumerTyped, WorkersTyped, Holding, GhostsTyped
  <1>. QED
    BY <1>1, <1>2, <1>3, <1>4, <1>5 DEF OperatorStep

LEMMA TimeTypedStep ==
    ASSUME Typed, NEW a \in Actions, FallsDue(a) \/ Lapse(a)
    PROVE  Typed'
  <1>. USE DEF Typed
  <1>1. ASSUME NEW r \in Rows
        PROVE  [r EXCEPT !.due = TRUE] \in Rows /\ [r EXCEPT !.lapsed = TRUE] \in Rows
    BY DEF Rows
  <1>2. row[a] \in Rows
    BY DEF RowsTyped
  <1>3. CASE FallsDue(a)
    <2>1. row' \in [Actions -> Rows]
      BY <1>1, <1>2, <1>3, RowTyped DEF FallsDue
    <2>. QED
      BY <1>3, <2>1 DEF FallsDue, RowsTyped, LeadsTyped, ConsumerTyped, OperatorTyped,
         WorkersTyped, Holding, GhostsTyped
  <1>4. CASE Lapse(a)
    <2>1. row' \in [Actions -> Rows]
      BY <1>1, <1>2, <1>4, RowTyped DEF Lapse
    <2>2. GhostsTyped' /\ faults' \in 0..MaxFaults
      BY <1>4, BoundsAreNat DEF Lapse, GhostsTyped, Fault
    <2>. QED
      BY <1>4, <2>1, <2>2 DEF Lapse, RowsTyped, LeadsTyped, ConsumerTyped, OperatorTyped,
         WorkersTyped, Holding
  <1>. QED
    BY <1>3, <1>4

\* Whatever becomes of a worker.
WorkerMoves(w) == WorkerStep(w) \/ Die(w) \/ \E a \in DOMAIN batch[w] : ActionBreaks(w, a)

\* Whatever a worker does, it leaves the threads and the operators alone.
LEMMA WorkerFrame ==
    ASSUME Typed, NEW w \in Workers, WorkerMoves(w)
    PROVE  LeadsTyped' /\ ConsumerTyped' /\ OperatorTyped'
  <1>1. UNCHANGED <<leadVars, consumerVars, operatorVars>>
    BY DEF WorkerMoves, WorkerStep, Claim, Refuse, Postpone, Retire, Choose, NoTemplate,
           ReserveTemplate,
       SameTemplate, SendTemplate, RecordTemplate, SettleTemplate, Send, Failed, Requeue,
       RecordSent, ReleaseUnnamed, SentIsRefused, CommitTimesOut, ActionBreaks, Die, Loses
  <1>. QED
    BY <1>1 DEF Typed, LeadsTyped, ConsumerTyped, OperatorTyped

\* A step that commits what became of x, and goes on with the rest of the batch.
Commits(w, x) ==
    /\ x \in DOMAIN batch[w] /\ cur[w] \in {NoAction, x} /\ GoesOn(w, x)
    /\ row' \in [Actions -> Rows]
    /\ \A a \in Actions \ {x} :
          \/ row'[a] = Claims(w)[a]
          \/ row[a].status = "none" /\ (Owned(LeadOf(a)) => a \in escaped')
    /\ row'[x].status \in Settled \/ Owes(w, x) \/ row[x].status = "none"
    /\ UNCHANGED <<key, copies, templates, excused, twice>>
    /\ escaped \subseteq escaped' /\ escaped' \subseteq Actions /\ faults' \in 0..MaxFaults

LEMMA SettledCommits ==
    ASSUME Typed, NEW w \in Workers, NEW x \in DOMAIN batch[w], NEW status \in Settled,
           cur[w] \in {NoAction, x}, GoesOn(w, x), row' = Outcome(w, x, status),
           UNCHANGED <<key, ghosts, faults>>
    PROVE  Commits(w, x)
  <1>1. x \in Actions
    BY BatchIsTyped DEF Typed, WorkersTyped
  <1>. QED
    BY <1>1, OutcomeTyped DEF Commits, Typed, GhostsTyped

LEMMA ReleaseCommits ==
    ASSUME Typed, NEW w \in Workers, NEW x \in DOMAIN batch[w], Releases(w, x),
           cur[w] \in {NoAction, x}, pc[w] \notin AfterTheCall,
           UNCHANGED <<key, ghosts>>, faults' \in 0..MaxFaults
    PROVE  Commits(w, x)
  <1>1. x \in Actions /\ batch[w][x] \in Rows
    BY BatchIsTyped DEF Typed, WorkersTyped
  <1>2. row' \in [Actions -> Rows] /\ \A b \in Actions \ {x} : row'[b] = Claims(w)[b]
    BY <1>1, ClaimsTyped DEF Releases, Typed
  <1>3. Owes(w, x)
    BY DEF Owes
  <1>. QED
    BY <1>2, <1>3 DEF Commits, Releases, Typed, GhostsTyped

LEMMA CheckedCommits ==
    ASSUME Typed, NEW w \in Workers, NEW a \in DOMAIN batch[w],
           \/ Refuse(w, a) \/ Postpone(w, a) \/ Retire(w, a) \/ NoTemplate(w, a)
           \/ SameTemplate(w, a)
    PROVE  Commits(w, a)
  <1>1. pc[w] = "checking"
    BY DEF Refuse, Postpone, Retire, NoTemplate, SameTemplate, WindowClosed, Checking
  <1>2. a \in Actions /\ cur[w] = NoAction /\ batch[w][a] \in Rows
    BY <1>1, BatchIsTyped DEF Typed, WorkersTyped, Holding
  <1>3. CASE Refuse(w, a)
    BY <1>2, <1>3, SettledCommits DEF Refuse, Settled
  <1>4. CASE Postpone(w, a)
    <2>1. [batch[w][a] EXCEPT !.quiet = FALSE, !.due = FALSE] \in Rows
      BY <1>2 DEF Rows
    <2>2. row' \in [Actions -> Rows] /\ \A b \in Actions \ {a} : row'[b] = Claims(w)[b]
      BY <1>2, <1>4, <2>1, ClaimsTyped DEF Postpone, Typed
    <2>3. Owes(w, a)
      BY <1>1 DEF Owes, AfterTheCall
    <2>. QED
      BY <1>2, <1>4, <2>2, <2>3 DEF Postpone, Commits, Typed, GhostsTyped
  <1>5. CASE Retire(w, a)
    BY <1>2, <1>5, SettledCommits DEF Retire, Settled
  <1>6. CASE NoTemplate(w, a)
    BY <1>2, <1>6, SettledCommits DEF NoTemplate, Settled
  <1>7. CASE SameTemplate(w, a)
    BY <1>2, <1>7, SettledCommits DEF SameTemplate, Settled
  <1>. QED
    BY <1>3, <1>4, <1>5, <1>6, <1>7

LEMMA CalledCommits ==
    ASSUME Typed, NEW w \in Workers,
           \/ SettleTemplate(w) \/ Failed(w) \/ Requeue(w) \/ RecordSent(w)
           \/ ReleaseUnnamed(w)
    PROVE  Commits(w, cur[w])
  <1>1. /\ cur[w] \in DOMAIN batch[w] /\ cur[w] \in Actions
        /\ batch[w][cur[w]] \in Rows
    <2>1. pc[w] \in Steps
      BY DEF SettleTemplate, Failed, Requeue, RecordSent, ReleaseUnnamed, Steps, Verdicts
    <2>. QED
      BY <2>1, BatchIsTyped DEF Typed, WorkersTyped, Holding
  <1>2. CASE SettleTemplate(w)
    BY <1>1, <1>2, SettledCommits DEF SettleTemplate, Settled
  <1>3. CASE Failed(w)
    BY <1>1, <1>3, SettledCommits DEF Failed, Settled
  <1>4. CASE Requeue(w)
    <2>1. CASE RetriesExhausted(batch[w][cur[w]].retries + 1)
      BY <1>1, <1>4, <2>1, SettledCommits DEF Requeue, Settled
    <2>2. CASE ~RetriesExhausted(batch[w][cur[w]].retries + 1)
      <3>1. PICK night \in BOOLEAN :
                row' = [Claims(w) EXCEPT ![cur[w]] =
                           [Armed EXCEPT !.retries = batch[w][cur[w]].retries + 1, !.quiet = night]]
        BY <1>4, <2>2 DEF Requeue
      <3>2. batch[w][cur[w]].retries + 1 \in 0..MaxRetries
        BY <1>1, <2>2, BoundsAreNat DEF Rows, RetriesExhausted
      <3>3. [Armed EXCEPT !.retries = batch[w][cur[w]].retries + 1, !.quiet = night] \in Rows
        BY <3>2, SomeRows DEF Rows
      <3>4. row' \in [Actions -> Rows] /\ \A b \in Actions \ {cur[w]} : row'[b] = Claims(w)[b]
        BY <1>1, <3>1, <3>3, ClaimsTyped DEF Typed
      <3>5. Owes(w, cur[w])
        BY <1>1, <1>4 DEF Requeue, Owes, AfterTheCall
      <3>. QED
        BY <1>1, <1>4, <3>4, <3>5 DEF Requeue, Commits, Typed, GhostsTyped
    <2>. QED
      BY <2>1, <2>2
  <1>5. CASE RecordSent(w)
    <2>1. ASSUME NEW a \in Actions
          PROVE  /\ row'[a] = IF a = After(cur[w]) THEN Armed ELSE Outcome(w, cur[w], "sent")[a]
                 /\ a = After(cur[w]) => row[a].status = "none"
      BY <1>5 DEF RecordSent, NextExists
    <2>2. "sent" \in Settled
      BY DEF Settled
    <2>3. /\ row' \in [Actions -> Rows]
      BY <1>1, <1>5, <2>2, OutcomeTyped, SomeRows DEF RecordSent, Typed
    <2>. QED
      BY <1>1, <1>5, <2>1, <2>2, <2>3, OutcomeTyped
      DEF RecordSent, Arms, Commits, Typed, GhostsTyped
  <1>6. CASE ReleaseUnnamed(w)
    BY <1>1, <1>6, ReleaseCommits DEF ReleaseUnnamed, AfterTheCall, Typed
  <1>. QED
    BY <1>2, <1>3, <1>4, <1>5, <1>6

LEMMA BrokenCommits ==
    ASSUME Typed, NEW w \in Workers, NEW a \in DOMAIN batch[w], ActionBreaks(w, a)
    PROVE  Commits(w, a)
  <1>1. pc[w] \notin AfterTheCall /\ cur[w] \in {NoAction, a}
    BY DEF ActionBreaks, Checking, AfterTheCall, Typed, WorkersTyped, Holding
  <1>2. faults' \in 0..MaxFaults
    BY BoundsAreNat DEF ActionBreaks, Fault, Typed
  <1>. QED
    BY <1>1, <1>2, ReleaseCommits DEF ActionBreaks

LEMMA CommitsTyped ==
    ASSUME Typed, NEW w \in Workers, NEW x, Commits(w, x)
    PROVE  RowsTyped' /\ WorkersTyped' /\ GhostsTyped' /\ faults' \in 0..MaxFaults
  <1>1. WorkersTyped'
    BY GoesOnTyped DEF Commits, Typed
  <1>. QED
    BY <1>1 DEF Commits, Typed, RowsTyped, GhostsTyped

LEMMA WorkerTypedStep ==
    ASSUME Typed, NEW w \in Workers, WorkerMoves(w)
    PROVE  Typed'
  <1>1. LeadsTyped' /\ ConsumerTyped' /\ OperatorTyped'
    BY WorkerFrame
  <1>2. SUFFICES RowsTyped' /\ WorkersTyped' /\ GhostsTyped' /\ faults' \in 0..MaxFaults
    BY <1>1 DEF Typed
  <1>3. CASE Claim(w)
    <2>1. PICK S \in SUBSET Actions : S = (Expired \cup Due) \ LockedByOthers(w)
      BY DEF Expired, Due
    <2>2. \A r \in Rows : Pending(r) \in Rows
      BY DEF Pending, Rows, Live
    <2>3. PICK b \in [S -> Rows] : b = [a \in S |-> Pending(row[a])]
      BY <2>2 DEF Typed, RowsTyped
    <2>4. b \in Batches /\ DOMAIN b = S
      BY TypedBatch
    <2>5. /\ pc' = [pc EXCEPT ![w] = "checking"] /\ batch' = [batch EXCEPT ![w] = b]
          /\ locked' = [locked EXCEPT ![w] = S] /\ cur' = cur /\ pc[w] = "idle"
      BY <1>3, <2>1, <2>3 DEF Claim
    <2>6. /\ pc' \in [Workers -> {"idle", "checking"} \cup Steps]
          /\ batch' \in [Workers -> Batches] /\ locked' \in [Workers -> SUBSET Actions]
          /\ cur' \in [Workers -> {NoAction} \cup Actions]
      BY <2>4, <2>5 DEF Typed, WorkersTyped
    <2>7. Holding(w)'
      BY <2>4, <2>5 DEF Typed, WorkersTyped, Holding, Steps, Verdicts
    <2>8. ASSUME NEW v \in Workers \ {w}
          PROVE  Holding(v)'
      BY <2>5 DEF Typed, WorkersTyped, Holding
    <2>9. WorkersTyped'
      BY <2>6, <2>7, <2>8 DEF WorkersTyped
    <2>. QED
      BY <1>3, <2>9 DEF Claim, Typed, RowsTyped, GhostsTyped
  <1>4. ASSUME NEW a \in DOMAIN batch[w],
               \/ Refuse(w, a) \/ Postpone(w, a) \/ Retire(w, a) \/ NoTemplate(w, a)
               \/ SameTemplate(w, a)
        PROVE  RowsTyped' /\ WorkersTyped' /\ GhostsTyped' /\ faults' \in 0..MaxFaults
    BY <1>4, CheckedCommits, CommitsTyped
  <1>5. ASSUME NEW a \in DOMAIN batch[w], Choose(w, a)
        PROVE  RowsTyped' /\ WorkersTyped' /\ GhostsTyped' /\ faults' \in 0..MaxFaults
    <2>1. WorkersTyped'
      BY <1>5, MovesTyped DEF Choose, Typed, Steps, Verdicts
    <2>. QED
      BY <1>5, <2>1 DEF Choose, Typed, RowsTyped, GhostsTyped
  <1>6. ASSUME NEW a \in DOMAIN batch[w], ReserveTemplate(w, a)
        PROVE  RowsTyped' /\ WorkersTyped' /\ GhostsTyped' /\ faults' \in 0..MaxFaults
    <2>1. WorkersTyped'
      BY <1>6, MovesTyped DEF ReserveTemplate, Typed, Steps, Verdicts
    <2>2. RowsTyped'
      BY <1>6, ClaimsTyped DEF ReserveTemplate, Typed, RowsTyped
    <2>. QED
      BY <1>6, <2>1, <2>2 DEF ReserveTemplate, Typed, GhostsTyped
  <1>7. CASE SendTemplate(w)
    <2>1. PICK arrived \in BOOLEAN, verdict \in {"templated", "blocked"} :
             /\ templates' = [templates EXCEPT ![cur[w]] = @ + IF arrived THEN 1 ELSE 0]
             /\ pc' = [pc EXCEPT ![w] = verdict]
      BY <1>7 DEF SendTemplate
    <2>2. cur[w] \in DOMAIN batch[w] /\ cur' = [cur EXCEPT ![w] = cur[w]]
      BY <1>7 DEF SendTemplate, Typed, WorkersTyped, Holding, Steps, Verdicts
    <2>3. WorkersTyped'
      BY <1>7, <2>1, <2>2, MovesTyped DEF SendTemplate, Typed, Steps, Verdicts
    <2>4. cur[w] \in Actions
      BY <2>2, BatchIsTyped DEF Typed, WorkersTyped
    <2>5. templates' \in [Actions -> Nat]
      BY <2>1, <2>4 DEF Typed, GhostsTyped
    <2>. QED
      BY <1>7, <2>3, <2>5 DEF SendTemplate, Typed, RowsTyped, GhostsTyped
  <1>8. CASE RecordTemplate(w)
    BY <1>8 DEF RecordTemplate, Typed, RowsTyped, WorkersTyped, Holding, GhostsTyped
  <1>9. CASE \/ SettleTemplate(w) \/ Failed(w) \/ Requeue(w) \/ RecordSent(w)
             \/ ReleaseUnnamed(w)
    BY <1>9, CalledCommits, CommitsTyped
  <1>10. CASE Send(w)
    <2>1. PICK arrived \in BOOLEAN, verdict \in Verdicts :
             /\ copies' = [copies EXCEPT ![cur[w]] = @ + IF arrived THEN 1 ELSE 0]
             /\ pc' = [pc EXCEPT ![w] = verdict]
      BY <1>10 DEF Send
    <2>2. cur[w] \in DOMAIN batch[w] /\ cur' = [cur EXCEPT ![w] = cur[w]]
      BY <1>10 DEF Send, Typed, WorkersTyped, Holding, Steps, Verdicts
    <2>3. WorkersTyped'
      BY <1>10, <2>1, <2>2, MovesTyped DEF Send, Typed, Steps, Verdicts
    <2>4. cur[w] \in Actions
      BY <2>2, BatchIsTyped DEF Typed, WorkersTyped
    <2>5. copies' \in [Actions -> 0..MaxCopies]
      BY <1>10, <2>1, <2>4, BoundsAreNat DEF Send, Typed, GhostsTyped
    <2>6. excused' \in [Actions -> Nat] /\ faults' \in 0..MaxFaults
      BY <1>10, <2>4, BoundsAreNat DEF Send, Fault, Typed, GhostsTyped
    <2>. QED
      BY <1>10, <2>3, <2>5, <2>6 DEF Send, Typed, RowsTyped, GhostsTyped
  <1>11. CASE SentIsRefused(w) \/ CommitTimesOut(w) \/ Die(w)
    <2>1. Loses(w) /\ faults' \in 0..MaxFaults
      BY <1>11, BoundsAreNat DEF SentIsRefused, CommitTimesOut, Die, Fault, Typed
    <2>2. WorkersTyped' /\ GhostsTyped'
      BY <2>1, LosesTyped DEF Typed
    <2>. QED
      BY <2>1, <2>2 DEF Loses, Typed, RowsTyped
  <1>12. ASSUME NEW a \in DOMAIN batch[w], ActionBreaks(w, a)
         PROVE  RowsTyped' /\ WorkersTyped' /\ GhostsTyped' /\ faults' \in 0..MaxFaults
    BY <1>12, BrokenCommits, CommitsTyped
  <1>. QED
    BY <1>3, <1>4, <1>5, <1>6, <1>7, <1>8, <1>9, <1>10, <1>11, <1>12
    DEF WorkerMoves, WorkerStep

LEMMA InitTyped ==
    ASSUME Init
    PROVE  Typed
  <1>1. RowsTyped
    BY SomeRows DEF Init, RowsTyped
  <1>2. LeadsTyped /\ ConsumerTyped
    BY DEF Init, LeadsTyped, ConsumerTyped
  <1>3. OperatorTyped /\ faults \in 0..MaxFaults
    BY BoundsAreNat DEF Init, OperatorTyped
  <1>4. WorkersTyped
    <2>1. NoBatch \in [{} -> Rows]
      BY DEF NoBatch
    <2>2. NoBatch \in Batches /\ DOMAIN NoBatch = {}
      BY <2>1, TypedBatch
    <2>. QED
      BY <2>2 DEF Init, WorkersTyped, Holding, Steps, Verdicts
  <1>5. GhostsTyped
    BY BoundsAreNat DEF Init, GhostsTyped
  <1>. QED
    BY <1>1, <1>2, <1>3, <1>4, <1>5 DEF Typed

LEMMA TypedStep ==
    ASSUME Typed, [Next]_vars
    PROVE  Typed'
  <1>1. ASSUME NEW l \in Leads, WindowCloses(l)
        PROVE  Typed'
    BY <1>1 DEF WindowCloses, Typed, RowsTyped, LeadsTyped, ConsumerTyped, OperatorTyped,
       WorkersTyped, Holding, GhostsTyped
  <1>2. CASE UNCHANGED vars
    BY <1>2 DEF vars, Typed, RowsTyped, LeadsTyped, ConsumerTyped, OperatorTyped,
       WorkersTyped, Holding, GhostsTyped
  <1>. QED
    BY <1>1, <1>2, ConsumerTypedStep, OperatorTypedStep, TimeTypedStep, WorkerTypedStep
    DEF Next, WorkerMoves

\* The values of every variable: what a batch holds are rows as they were read, a
\* worker's locks are on rows of its batch, and it sends only what it has claimed.
THEOREM FollowUpsTyped == Spec => []TypeOK
  <1>1. Typed => TypeOK
    <2>1. ASSUME Typed, NEW w \in Workers
          PROVE  /\ DOMAIN batch[w] \subseteq Actions
                 /\ locked[w] \subseteq DOMAIN batch[w]
                 /\ cur[w] \in {NoAction} \cup DOMAIN batch[w]
      BY <2>1, BatchIsTyped DEF Typed, WorkersTyped, Holding
    <2>2. Typed => pc \in [Workers -> {"idle", "checking", "sending", "templating", "templated",
                                       "blocked"} \cup Verdicts]
      BY DEF Typed, WorkersTyped, Steps, Verdicts
    <2>. QED
      BY <2>1, <2>2
      DEF Typed, RowsTyped, LeadsTyped, ConsumerTyped, OperatorTyped, GhostsTyped, TypeOK
  <1>. QED
    BY <1>1, InitTyped, TypedStep, PTL DEF Spec

-----------------------------------------------------------------------------
(* Nudges are paid for                                                     *)

\* What the steps of others leave of a worker's part in the count.
Mine(w, a) == IF Owes(w, a) THEN 1 ELSE 0
Same(v) == pc'[v] = pc[v] /\ batch'[v] = batch[v] /\ locked'[v] = locked[v] /\ cur'[v] = cur[v]
Pays(w, a) ==
    copies'[a] + Mine(w, a)' + Left(a)' + excused[a] <=
    copies[a] + Mine(w, a) + Left(a) + excused'[a]

LEMMA OneWorkerPays ==
    ASSUME Typed, Typed', NudgesArePaid, NEW w \in Workers,
           \A v \in Workers \ {w} : Same(v), \A a \in Actions : Pays(w, a)
    PROVE  NudgesArePaid'
  <1>. SUFFICES ASSUME NEW a \in Actions
                PROVE  copies'[a] + Cardinality(Owing(a)') + Left(a)' <= 1 + excused'[a]
    BY DEF NudgesArePaid
  <1>1. IsFiniteSet(Owing(a)) /\ IsFiniteSet(Owing(a)')
    BY BoundsAreNat, FS_Subset DEF Owing
  <1>2. Owing(a)' \ {w} = Owing(a) \ {w}
    BY DEF Owing, Owes, Same
  <1>3. (w \in Owing(a) <=> Owes(w, a)) /\ (w \in Owing(a)' <=> Owes(w, a)')
    BY DEF Owing
  <1>4. PICK n \in Nat : n = Cardinality(Owing(a) \ {w})
    BY <1>1, Members
  <1>5. Cardinality(Owing(a)) = n + Mine(w, a)
    BY <1>1, <1>3, <1>4, Members DEF Mine
  <1>6. Cardinality(Owing(a)') = n + Mine(w, a)'
    BY <1>1, <1>2, <1>3, <1>4, Members DEF Mine
  <1>7. copies[a] + (n + Mine(w, a)) + Left(a) <= 1 + excused[a]
    BY <1>5 DEF NudgesArePaid
  <1>8. /\ copies[a] \in Nat /\ copies'[a] \in Nat /\ excused[a] \in Nat /\ excused'[a] \in Nat
        /\ Mine(w, a) \in Nat /\ Mine(w, a)' \in Nat /\ Left(a) \in Nat /\ Left(a)' \in Nat
    BY DEF Typed, GhostsTyped, Mine, Left
  <1>9. Pays(w, a)
    OBVIOUS
  <1>. QED
    BY <1>4, <1>6, <1>7, <1>8, <1>9 DEF Pays

\* The same of a step of somebody else.
LEMMA NobodyPays ==
    ASSUME Typed, Typed', NudgesArePaid, UNCHANGED workerVars, UNCHANGED copies,
           \A a \in Actions : Left(a)' + excused[a] <= Left(a) + excused'[a]
    PROVE  NudgesArePaid'
  <1>. SUFFICES ASSUME NEW a \in Actions
                PROVE  copies'[a] + Cardinality(Owing(a)') + Left(a)' <= 1 + excused'[a]
    BY DEF NudgesArePaid
  <1>1. IsFiniteSet(Owing(a)) /\ Owing(a)' = Owing(a)
    BY BoundsAreNat, FS_Subset DEF Owing, Owes
  <1>2. PICK n \in Nat : n = Cardinality(Owing(a))
    BY <1>1, FS_CardinalityType
  <1>3. copies[a] + n + Left(a) <= 1 + excused[a]
    BY <1>2 DEF NudgesArePaid
  <1>4. /\ copies[a] \in Nat /\ excused[a] \in Nat /\ excused'[a] \in Nat
        /\ Left(a) \in Nat /\ Left(a)' \in Nat
    BY DEF Typed, GhostsTyped, Left
  <1>. QED
    BY <1>1, <1>2, <1>3, <1>4

\* A row that is left as it is, by a step that takes no lock on it and no lease.
LEMMA LeftAlone ==
    ASSUME NEW a \in Actions, row'[a] = row[a], Held(a) => Held(a)',
           Working(a) => Working(a)'
    PROVE  Left(a)' <= Left(a)
  <1>1. Spare(a)' => Spare(a)
    BY DEF Spare, Leased
  <1>. QED
    BY <1>1 DEF Left

LEMMA NothingLeft ==
    ASSUME NEW a \in Actions, row'[a].status \in Settled
    PROVE  Left(a)' = 0
  BY DEF Left, Spare, Settled, Live

\* What a commit of w makes of the rows other than the one it is about.
LEMMA ClaimsPay ==
    ASSUME Typed, NEW w \in Workers, \A v \in Workers \ {w} : Same(v),
           NEW a \in Actions, a \in DOMAIN batch[w] <=> a \in DOMAIN batch'[w],
           row'[a] = Claims(w)[a], locked'[w] = {}
    PROVE  Left(a)' <= Left(a)
  <1>1. Working(a)' <=> Working(a)
    BY DEF Working, Same
  <1>2. CASE a \in locked[w]
    <2>1. row'[a].status = "claimed" /\ ~row'[a].lapsed
      BY <1>2, ClaimsTyped DEF Typed
    <2>2. Working(a)'
      BY <1>1, <1>2 DEF Typed, WorkersTyped, Holding, Working
    <2>. QED
      BY <2>1, <2>2 DEF Left, Spare, Leased
  <1>3. CASE a \notin locked[w]
    <2>1. row'[a] = row[a]
      BY <1>3, ClaimsTyped DEF Typed
    <2>2. Held(a) => Held(a)'
      BY <1>3 DEF Held, Same
    <2>. QED
      BY <1>1, <2>1, <2>2, LeftAlone
  <1>. QED
    BY <1>2, <1>3

\* Cancelling a row leaves nothing to send, and arming one leaves one.
LEMMA OthersPay ==
    ASSUME Typed, Typed', NudgesArePaid, UNCHANGED <<workerVars, copies, excused>>,
           \A a \in Actions : \/ row'[a] = row[a] \/ row'[a].status \in Settled
                              \/ row[a].status = "none"
    PROVE  NudgesArePaid'
  <1>1. ASSUME NEW a \in Actions
        PROVE  Left(a)' <= Left(a)
    <2>1. CASE row'[a] = row[a]
      BY <2>1, LeftAlone DEF Held, Working
    <2>2. CASE row'[a].status \in Settled
      BY <2>2, NothingLeft DEF Left
    <2>3. CASE row[a].status = "none"
      BY <2>3 DEF Left, Spare
    <2>. QED
      BY <1>1, <2>1, <2>2, <2>3
  <1>2. ASSUME NEW a \in Actions
        PROVE  Left(a)' + excused[a] <= Left(a) + excused'[a]
    <2>1. /\ Left(a)' <= Left(a) /\ Left(a) \in Nat /\ Left(a)' \in Nat
          /\ excused[a] \in Nat /\ excused'[a] = excused[a]
      BY <1>1 DEF Left, Typed, GhostsTyped
    <2>. QED
      BY <2>1
  <1>. QED
    BY <1>2, NobodyPays

LEMMA CancelledRows ==
    ASSUME NEW S, row' = Cancelled(S)
    PROVE  \A a \in Actions : row'[a] = row[a] \/ row'[a].status \in Settled
  <1>1. Ended("cancelled").status \in Settled
    BY SomeRows DEF Settled
  <1>. QED
    BY <1>1 DEF Cancelled

LEMMA ConsumerPays ==
    ASSUME Typed, Typed', NudgesArePaid, NEW l \in Leads, ConsumerStep(l)
    PROVE  NudgesArePaid'
  <1>1. UNCHANGED <<workerVars, copies, excused>>
    BY DEF ConsumerStep, Receive, Store, StoreTimesOut, Capture, ScheduleFollowup,
           NoFollowup
  <1>2. ASSUME NEW a \in Actions
        PROVE  row'[a] = row[a] \/ row'[a].status \in Settled \/ row[a].status = "none"
    <2>1. CASE Receive(l) \/ StoreTimesOut(l) \/ NoFollowup(l)
      BY <2>1 DEF Receive, StoreTimesOut, NoFollowup
    <2>2. CASE Store(l)
      BY <2>2, CancelledRows DEF Store
    <2>3. CASE Capture(l)
      <3>1. row' = row \/ row' = Cancelled(Cancellable(l))
        BY <2>3 DEF Capture
      <3>. QED
        BY <3>1, CancelledRows
    <2>4. ASSUME NEW overlapped \in BOOLEAN, ScheduleFollowup(l, overlapped)
          PROVE  row'[a] = row[a] \/ row[a].status = "none"
      <3>1. PICK b \in FreeAttempts(l) : row' = [row EXCEPT ![b] = Armed]
        BY <2>4 DEF ScheduleFollowup
      <3>. QED
        BY <3>1 DEF FreeAttempts, Typed, RowsTyped
    <2>. QED
      BY <2>1, <2>2, <2>3, <2>4 DEF ConsumerStep
  <1>. QED
    BY <1>1, <1>2, OthersPay

LEMMA OperatorPays ==
    ASSUME Typed, Typed', NudgesArePaid, NEW l \in Leads, OperatorStep(l) \/ WindowCloses(l)
    PROVE  NudgesArePaid'
  <1>1. UNCHANGED <<workerVars, copies, excused>>
    BY DEF OperatorStep, TakeOver, TakeOverCommits, TakeOverTimesOut, HandBack, UpdateStage,
       WindowCloses
  <1>2. row' = row \/ row' = Cancelled(taken[l])
    BY DEF OperatorStep, TakeOver, TakeOverCommits, TakeOverTimesOut, HandBack, UpdateStage,
       WindowCloses
  <1>3. \A a \in Actions : row'[a] = row[a] \/ row'[a].status \in Settled
    BY <1>2, CancelledRows
  <1>. QED
    BY <1>1, <1>3, OthersPay

\* A lease that ends under its worker is excused; otherwise nobody had one.
LEMMA TimePays ==
    ASSUME Typed, Typed', NudgesArePaid, NEW a \in Actions, FallsDue(a) \/ Lapse(a)
    PROVE  NudgesArePaid'
  <1>1. UNCHANGED <<workerVars, copies>>
    BY DEF FallsDue, Lapse
  <1>2. /\ \A b \in Actions : Held(b)' = Held(b) /\ Working(b)' = Working(b)
        /\ \A b \in Actions : excused[b] \in Nat /\ excused'[b] \in Nat
    BY <1>1 DEF Held, Working, Typed, GhostsTyped
  <1>3. ASSUME NEW b \in Actions, b # a
        PROVE  Left(b)' <= Left(b) /\ excused'[b] = excused[b]
    <2>1. row'[b] = row[b] /\ excused'[b] = excused[b]
      BY <1>3 DEF FallsDue, Lapse, Typed, RowsTyped, GhostsTyped
    <2>. QED
      BY <1>2, <2>1, LeftAlone
  <1>4. row[a] \in Rows
    BY DEF Typed, RowsTyped
  <1>5. Left(a)' + excused[a] <= Left(a) + excused'[a]
    <2>1. CASE FallsDue(a)
      <3>1. row[a].status = "pending" /\ row'[a].status = "pending" /\ excused' = excused
        BY <1>4, <2>1 DEF FallsDue, Rows, Typed, RowsTyped
      <3>2. Left(a)' <= Left(a)
        BY <1>2, <3>1 DEF Left, Spare, Leased, Live
      <3>. QED
        BY <1>2, <3>1, <3>2 DEF Left
    <2>2. CASE Lapse(a) /\ Working(a)
      <3>1. excused'[a] = excused[a] + 1
        BY <2>2 DEF Lapse, Typed, GhostsTyped
      <3>. QED
        BY <1>2, <3>1 DEF Left
    <2>3. CASE Lapse(a) /\ ~Working(a)
      <3>1. row[a].status = "claimed" /\ excused' = excused
        BY <2>3 DEF Lapse
      <3>2. ~Held(a)
        BY <2>3 DEF Held, Working, Typed, WorkersTyped, Holding
      <3>3. Left(a) = 1
        BY <2>3, <3>1, <3>2 DEF Left, Spare, Leased, Live
      <3>. QED
        BY <1>2, <3>1, <3>3 DEF Left
    <2>. QED
      BY <2>1, <2>2, <2>3
  <1>6. ASSUME NEW b \in Actions
        PROVE  Left(b)' + excused[b] <= Left(b) + excused'[b]
    <2>1. CASE b = a
      BY <1>5, <2>1
    <2>2. CASE b # a
      <3>1. Left(b)' <= Left(b) /\ excused'[b] = excused[b]
        BY <1>3, <2>2
      <3>. QED
        BY <1>2, <3>1 DEF Left
    <2>. QED
      BY <2>1, <2>2
  <1>. QED
    BY <1>1, <1>6, NobodyPays

LEMMA CommitsPay ==
    ASSUME Typed, Typed', NudgesArePaid, NEW w \in Workers, NEW x, Commits(w, x)
    PROVE  NudgesArePaid'
  <1>1. x \in DOMAIN batch[w] /\ x \in Actions
    BY BatchIsTyped DEF Commits, Typed, WorkersTyped
  <1>2. \A v \in Workers \ {w} : Same(v)
    BY DEF Commits, GoesOn, Same, Typed, WorkersTyped
  <1>3. DOMAIN batch'[w] = DOMAIN batch[w] \ {x} /\ locked'[w] = {} /\ cur'[w] = NoAction
    BY DEF Commits, GoesOn, Remaining, Typed, WorkersTyped
  <1>4. Mine(w, x)' = 0
    BY <1>3 DEF Mine, Owes
  <1>5. ASSUME NEW a \in Actions
        PROVE  Mine(w, a)' + Left(a)' <= Mine(w, a) + Left(a)
    <2>1. CASE a = x
      <3>1. CASE row'[x].status \in Settled
        BY <1>4, <2>1, <3>1, NothingLeft DEF Mine, Left
      <3>2. CASE Owes(w, x)
        BY <1>4, <2>1, <3>2 DEF Mine, Left
      <3>3. CASE row[x].status = "none"
        BY <1>4, <2>1, <3>3 DEF Mine, Left, Spare
      <3>. QED
        BY <3>1, <3>2, <3>3 DEF Commits
    <2>2. CASE a # x
      <3>1. Owes(w, a)' => Owes(w, a)
        BY <1>3, <2>2, ActionTyped DEF Owes, Commits
      <3>2. Left(a)' <= Left(a)
        <4>1. CASE row'[a] = Claims(w)[a]
          BY <1>2, <1>3, <2>2, <4>1, ClaimsPay
        <4>2. CASE row[a].status = "none"
          BY <4>2 DEF Left, Spare
        <4>. QED
          BY <2>2, <4>1, <4>2 DEF Commits
      <3>. QED
        BY <3>1, <3>2 DEF Mine, Left
    <2>. QED
      BY <2>1, <2>2
  <1>6. ASSUME NEW a \in Actions
        PROVE  Pays(w, a)
    <2>1. /\ copies'[a] = copies[a] /\ excused'[a] = excused[a]
          /\ copies[a] \in Nat /\ excused[a] \in Nat
      BY DEF Commits, Typed, GhostsTyped
    <2>2. /\ Mine(w, a) \in Nat /\ Mine(w, a)' \in Nat /\ Left(a) \in Nat /\ Left(a)' \in Nat
      BY DEF Mine, Left
    <2>. QED
      BY <1>5, <2>1, <2>2 DEF Pays
  <1>. QED
    BY <1>2, <1>6, OneWorkerPays

\* Claiming turns what is left of a row into what the worker may send.
LEMMA ClaimPays ==
    ASSUME Typed, Typed', NudgesArePaid, NEW w \in Workers, Claim(w)
    PROVE  NudgesArePaid'
  <1>1. \A v \in Workers \ {w} : Same(v)
    BY DEF Claim, Same, Typed, WorkersTyped
  <1>2. PICK S \in SUBSET Actions : S = (Expired \cup Due) \ LockedByOthers(w)
    BY DEF Expired, Due
  <1>3. /\ DOMAIN batch'[w] = S /\ locked'[w] = S /\ DOMAIN batch[w] = {} /\ locked[w] = {}
        /\ UNCHANGED <<row, copies, excused>>
    BY <1>2 DEF Claim, Typed, WorkersTyped, Holding
  <1>4. ASSUME NEW a \in Actions
        PROVE  Mine(w, a)' + Left(a)' <= Mine(w, a) + Left(a)
    <2>1. CASE a \in S
      <3>1. row[a].status = "pending" \/ (row[a].status = "claimed" /\ row[a].lapsed)
        BY <1>2, <2>1 DEF Expired, Due
      <3>2. ~Held(a)
        BY <1>2, <1>3, <2>1 DEF Held, LockedByOthers
      <3>3. Left(a) = 1
        BY <3>1, <3>2 DEF Left, Spare, Leased, Live
      <3>4. Held(a)'
        BY <1>3, <2>1 DEF Held
      <3>5. Left(a)' = 0
        BY <1>3, <3>1, <3>4 DEF Left, Spare
      <3>. QED
        BY <3>3, <3>5 DEF Mine
    <2>2. CASE a \notin S
      <3>1. ~Owes(w, a)'
        BY <1>3, <2>2 DEF Owes
      <3>2. (Held(a) => Held(a)') /\ (Working(a) => Working(a)')
        BY <1>1, <1>3, <2>2 DEF Held, Working, Same
      <3>3. Left(a)' <= Left(a)
        BY <1>3, <3>2, LeftAlone
      <3>. QED
        BY <3>1, <3>3 DEF Mine, Left
    <2>. QED
      BY <2>1, <2>2
  <1>5. ASSUME NEW a \in Actions
        PROVE  Pays(w, a)
    <2>1. /\ copies'[a] = copies[a] /\ excused'[a] = excused[a]
          /\ copies[a] \in Nat /\ excused[a] \in Nat
      BY <1>3 DEF Typed, GhostsTyped
    <2>2. /\ Mine(w, a) \in Nat /\ Mine(w, a)' \in Nat /\ Left(a) \in Nat /\ Left(a)' \in Nat
      BY DEF Mine, Left
    <2>. QED
      BY <1>4, <2>1, <2>2 DEF Pays
  <1>. QED
    BY <1>1, <1>5, OneWorkerPays

\* Losing the batch gives back what the worker held, and excuses what it was sending.
LEMMA LossPays ==
    ASSUME Typed, Typed', NudgesArePaid, NEW w \in Workers, Loses(w)
    PROVE  NudgesArePaid'
  <1>1. \A v \in Workers \ {w} : Same(v)
    BY DEF Loses, Drops, Same, Typed, WorkersTyped
  <1>2. DOMAIN batch'[w] = {} /\ locked'[w] = {}
    BY DropsTyped DEF Loses, Typed
  <1>3. ASSUME NEW a \in Actions
        PROVE  /\ excused'[a] = IF cur[w] = a THEN excused[a] + 1 ELSE excused[a]
               /\ copies'[a] = copies[a] /\ row'[a] = row[a]
    BY LosesTyped DEF Loses, Typed
  <1>4. ASSUME NEW a \in Actions
        PROVE  Mine(w, a)' = 0
    BY <1>2 DEF Mine, Owes
  <1>5. ASSUME NEW a \in Actions, cur[w] # a
        PROVE  Left(a)' <= Mine(w, a) + Left(a)
    <2>1. CASE a \in DOMAIN batch[w]
      BY <1>5, <2>1 DEF Mine, Owes, Left
    <2>2. CASE a \notin DOMAIN batch[w]
      <3>1. a \notin locked[w]
        BY <2>2 DEF Typed, WorkersTyped, Holding
      <3>2. (Held(a) => Held(a)') /\ (Working(a) => Working(a)')
        BY <1>1, <2>2, <3>1 DEF Held, Working, Same
      <3>3. Left(a)' <= Left(a)
        BY <1>3, <3>2, LeftAlone
      <3>. QED
        BY <3>3 DEF Mine, Left
    <2>. QED
      BY <2>1, <2>2
  <1>6. ASSUME NEW a \in Actions
        PROVE  Pays(w, a)
    <2>1. copies[a] \in Nat /\ excused[a] \in Nat /\ excused'[a] \in Nat
      BY DEF Typed, GhostsTyped
    <2>2. CASE cur[w] = a
      BY <1>3, <1>4, <2>1, <2>2 DEF Pays, Mine, Left
    <2>3. CASE cur[w] # a
      BY <1>3, <1>4, <1>5, <2>1, <2>3 DEF Pays, Mine, Left
    <2>. QED
      BY <2>2, <2>3
  <1>. QED
    BY <1>1, <1>6, OneWorkerPays

\* A worker that moves on, and may then send no more than before.
LEMMA MovePays ==
    ASSUME Typed, Typed', NudgesArePaid, NEW w \in Workers, UNCHANGED <<batch, excused, copies>>,
           \A v \in Workers \ {w} : Same(v),
           \A a \in Actions : Owes(w, a)' => Owes(w, a),
           \/ row' = row /\ locked' = locked
           \/ row' = Claims(w) /\ locked'[w] = {}
    PROVE  NudgesArePaid'
  <1>1. ASSUME NEW a \in Actions
        PROVE  Left(a)' <= Left(a)
    <2>1. CASE row' = row /\ locked' = locked
      BY <2>1, LeftAlone DEF Held, Working
    <2>2. CASE row' = Claims(w) /\ locked'[w] = {}
      BY <2>2, ClaimsPay
    <2>. QED
      BY <2>1, <2>2
  <1>2. ASSUME NEW a \in Actions
        PROVE  Pays(w, a)
    <2>1. /\ copies'[a] = copies[a] /\ excused'[a] = excused[a]
          /\ copies[a] \in Nat /\ excused[a] \in Nat
      BY DEF Typed, GhostsTyped
    <2>2. /\ Mine(w, a)' <= Mine(w, a)
          /\ Mine(w, a) \in Nat /\ Mine(w, a)' \in Nat /\ Left(a) \in Nat /\ Left(a)' \in Nat
      BY DEF Mine, Left
    <2>. QED
      BY <1>1, <2>1, <2>2 DEF Pays
  <1>. QED
    BY <1>2, OneWorkerPays

LEMMA SendPays ==
    ASSUME Typed, Typed', NudgesArePaid, NEW w \in Workers, Send(w)
    PROVE  NudgesArePaid'
  <1>1. PICK arrived \in BOOLEAN, verdict \in Verdicts :
           /\ arrived => verdict \in {"accepted", "unnamed", "ambiguous"}
           /\ copies' = [copies EXCEPT ![cur[w]] = @ + IF arrived THEN 1 ELSE 0]
           /\ pc' = [pc EXCEPT ![w] = verdict]
           /\ IF verdict = "unnamed"
                THEN excused' = [excused EXCEPT ![cur[w]] = @ + 1]
                ELSE excused' = excused
    BY DEF Send
  <1>2. cur[w] \in DOMAIN batch[w] /\ cur[w] \in Actions
    BY BatchIsTyped DEF Send, Typed, WorkersTyped, Holding, Steps, Verdicts
  <1>3. pc[w] = "sending" /\ pc'[w] = verdict /\ UNCHANGED <<row, batch, locked, cur>>
    BY <1>1 DEF Send, Typed, WorkersTyped
  <1>4. \A v \in Workers \ {w} : Same(v)
    BY <1>1, <1>3 DEF Same, Typed, WorkersTyped
  <1>5. ASSUME NEW a \in Actions
        PROVE  /\ Left(a)' <= Left(a)
               /\ Owes(w, a)' => Owes(w, a)
               /\ cur[w] = a => Owes(w, a) /\ (arrived /\ verdict # "unnamed" => ~Owes(w, a)')
    BY <1>1, <1>2, <1>3, LeftAlone DEF Held, Working, Owes, AfterTheCall
  <1>6. ASSUME NEW a \in Actions
        PROVE  Pays(w, a)
    <2>1. /\ copies[a] \in Nat /\ copies'[a] \in Nat /\ excused[a] \in Nat
          /\ excused'[a] = IF cur[w] = a /\ verdict = "unnamed" THEN excused[a] + 1
                                                              ELSE excused[a]
          /\ copies'[a] = IF cur[w] = a /\ arrived THEN copies[a] + 1 ELSE copies[a]
      BY <1>1, <1>2, <1>3 DEF Typed, GhostsTyped
    <2>2. /\ Left(a) \in Nat /\ Left(a)' \in Nat /\ Mine(w, a) \in Nat /\ Mine(w, a)' \in Nat
          /\ Mine(w, a)' <= Mine(w, a)
          /\ cur[w] = a /\ arrived /\ verdict # "unnamed" => Mine(w, a) = 1 /\ Mine(w, a)' = 0
      BY <1>5 DEF Left, Mine
    <2>. QED
      BY <1>5, <2>1, <2>2 DEF Pays
  <1>. QED
    BY <1>4, <1>6, OneWorkerPays

LEMMA WorkerPays ==
    ASSUME Typed, Typed', NudgesArePaid, NEW w \in Workers, WorkerMoves(w)
    PROVE  NudgesArePaid'
  <1>1. ASSUME NEW a \in DOMAIN batch[w], Choose(w, a) \/ ReserveTemplate(w, a)
        PROVE  NudgesArePaid'
    <2>1. pc[w] = "checking"
      BY <1>1 DEF Choose, ReserveTemplate, WindowClosed, Checking
    <2>2. /\ \A v \in Workers \ {w} : Same(v)
          /\ UNCHANGED <<batch, excused, copies>>
          /\ \/ row' = row /\ locked' = locked
             \/ row' = Claims(w) /\ locked'[w] = {}
      BY <1>1 DEF Choose, ReserveTemplate, Same, Typed, WorkersTyped
    <2>3. \A b \in Actions : Owes(w, b)' => Owes(w, b)
      BY <2>1, <2>2 DEF Owes, AfterTheCall
    <2>. QED
      BY <2>2, <2>3, MovePays
  <1>2. CASE SendTemplate(w) \/ RecordTemplate(w)
    <2>1. /\ \A v \in Workers \ {w} : Same(v)
          /\ UNCHANGED <<batch, excused, copies, row, locked, cur>>
          /\ pc[w] \notin AfterTheCall
      BY <1>2 DEF SendTemplate, RecordTemplate, Same, Typed, WorkersTyped, AfterTheCall
    <2>2. \A b \in Actions : Owes(w, b)' => Owes(w, b)
      BY <2>1 DEF Owes
    <2>. QED
      BY <2>1, <2>2, MovePays
  <1>3. CASE SentIsRefused(w) \/ CommitTimesOut(w) \/ Die(w)
    BY <1>3, LossPays DEF SentIsRefused, CommitTimesOut, Die
  <1>. QED
    BY <1>1, <1>2, <1>3, ClaimPays, CheckedCommits, CalledCommits, BrokenCommits, CommitsPay,
       SendPays
    DEF WorkerMoves, WorkerStep

LEMMA InitPays ==
    ASSUME Init
    PROVE  NudgesArePaid
  <1>. SUFFICES ASSUME NEW a \in Actions
                PROVE  copies[a] + Cardinality(Owing(a)) + Left(a) <= 1 + excused[a]
    BY DEF NudgesArePaid
  <1>1. Owing(a) = {}
    BY DEF Init, Owing, Owes, NoBatch
  <1>2. copies[a] = 0 /\ excused[a] = 0
    BY DEF Init
  <1>. QED
    BY <1>1, <1>2, FS_EmptySet DEF Left

-----------------------------------------------------------------------------
(* Templates are reserved                                                  *)

\* Steps that call no template: no key is freed, and nobody begins with a template.
LEMMA NoneReserved ==
    ASSUME TemplatesAreReserved, UNCHANGED <<key, templates>>,
           \A w \in Workers, a \in Actions :
               cur'[w] = a => Same(w) \/ pc'[w] \notin {"templating", "templated", "blocked"}
    PROVE  TemplatesAreReserved'
  <1>1. ASSUME NEW w \in Workers, NEW a \in Actions, Templating(w, a)'
        PROVE  Templating(w, a) /\ pc[w] = pc'[w] /\ cur[w] = a
    BY <1>1 DEF Templating, Same
  <1>2. ASSUME NEW w \in Workers, NEW a \in Actions, cur'[w] = a, pc'[w] = "templating"
        PROVE  cur[w] = a /\ pc[w] = "templating"
    BY <1>2 DEF Same
  <1>. QED
    BY <1>1, <1>2 DEF TemplatesAreReserved

LEMMA StillReserved ==
    ASSUME TemplatesAreReserved, UNCHANGED <<key, templates, workerVars>>
    PROVE  TemplatesAreReserved'
  BY DEF TemplatesAreReserved, Templating

LEMMA WorkerReserves ==
    ASSUME Typed, Typed', TemplatesAreReserved, NEW w \in Workers, WorkerMoves(w)
    PROVE  TemplatesAreReserved'
  <1>1. ASSUME NEW x, Commits(w, x)
        PROVE  TemplatesAreReserved'
    <2>1. \A v \in Workers : Same(v) \/ cur'[v] = NoAction
      BY <1>1 DEF Commits, GoesOn, Same, Typed, WorkersTyped
    <2>. QED
      BY <1>1, <2>1, ActionTyped, NoneReserved DEF Commits
  <1>2. CASE Claim(w)
    <2>1. \A v \in Workers : Same(v) \/ pc'[v] = "checking"
      BY <1>2 DEF Claim, Same, Typed, WorkersTyped
    <2>. QED
      BY <1>2, <2>1, NoneReserved DEF Claim
  <1>3. ASSUME NEW a \in DOMAIN batch[w], Choose(w, a)
        PROVE  TemplatesAreReserved'
    <2>1. \A v \in Workers : Same(v) \/ pc'[v] = "sending"
      BY <1>3 DEF Choose, Same, Typed, WorkersTyped
    <2>. QED
      BY <1>3, <2>1, NoneReserved DEF Choose
  <1>4. CASE Send(w)
    <2>1. PICK verdict \in Verdicts : pc' = [pc EXCEPT ![w] = verdict]
      BY <1>4 DEF Send
    <2>2. \A v \in Workers : Same(v) \/ pc'[v] = verdict
      BY <1>4, <2>1 DEF Send, Same, Typed, WorkersTyped
    <2>. QED
      BY <1>4, <2>2, NoneReserved DEF Send, Verdicts
  <1>5. CASE SentIsRefused(w) \/ CommitTimesOut(w) \/ Die(w)
    <2>1. Loses(w)
      BY <1>5 DEF SentIsRefused, CommitTimesOut, Die
    <2>2. \A v \in Workers : Same(v) \/ cur'[v] = NoAction
      BY <2>1 DEF Loses, Drops, Same, Typed, WorkersTyped
    <2>. QED
      BY <2>1, <2>2, ActionTyped, NoneReserved DEF Loses
  <1>6. ASSUME NEW a \in DOMAIN batch[w], ReserveTemplate(w, a)
        PROVE  TemplatesAreReserved'
    <2>1. a \in Actions /\ key[a] = "none"
      BY <1>6, BatchIsTyped DEF ReserveTemplate, KeyTaken, Typed, WorkersTyped
    <2>2. /\ \A v \in Workers \ {w} : cur'[v] = cur[v] /\ pc'[v] = pc[v]
          /\ cur'[w] = a /\ pc'[w] = "templating" /\ templates' = templates
          /\ key'[a] # "none" /\ \A b \in Actions \ {a} : key'[b] = key[b]
      BY <1>6, <2>1 DEF ReserveTemplate, Typed, WorkersTyped, RowsTyped
    <2>3. templates[a] = 0 /\ \A v \in Workers : ~Templating(v, a)
      BY <2>1 DEF TemplatesAreReserved
    <2>4. ASSUME NEW v \in Workers, NEW b \in Actions, b # a
          PROVE  Templating(v, b)' => Templating(v, b) /\ pc'[v] = pc[v] /\ cur[v] = b
      BY <2>2, <2>4 DEF Templating
    <2>5. ASSUME NEW v \in Workers, Templating(v, a)'
          PROVE  v = w
      BY <2>2, <2>3, <2>5 DEF Templating
    <2>6. ASSUME NEW v \in Workers, NEW b \in Actions, b # a, cur'[v] = b, pc'[v] = "templating"
          PROVE  cur[v] = b /\ pc[v] = "templating"
      BY <2>2, <2>6
    <2>. QED
      BY <2>1, <2>2, <2>3, <2>4, <2>5, <2>6 DEF TemplatesAreReserved
  <1>7. CASE SendTemplate(w)
    <2>1. PICK verdict \in {"templated", "blocked"} :
             /\ \/ templates' = [templates EXCEPT ![cur[w]] = @ + 1]
                \/ templates' = [templates EXCEPT ![cur[w]] = @ + 0]
             /\ pc' = [pc EXCEPT ![w] = verdict]
      BY <1>7 DEF SendTemplate
    <2>2. PICK a \in Actions : a = cur[w]
      BY <1>7, BatchIsTyped DEF SendTemplate, Typed, WorkersTyped, Holding, Steps, Verdicts
    <2>3. Templating(w, a) /\ templates[a] = 0 /\ key[a] # "none"
      BY <1>7, <2>2 DEF SendTemplate, TemplatesAreReserved, Templating
    <2>4. /\ templates'[a] \in {0, 1}
          /\ \A b \in Actions \ {a} : templates'[b] = templates[b]
          /\ key' = key /\ cur' = cur
          /\ pc'[w] \in {"templated", "blocked"} /\ \A v \in Workers \ {w} : pc'[v] = pc[v]
      BY <1>7, <2>1, <2>2, <2>3 DEF SendTemplate, Typed, WorkersTyped, GhostsTyped
    <2>5. \A v \in Workers, b \in Actions : Templating(v, b)' <=> Templating(v, b)
      BY <1>7, <2>4 DEF SendTemplate, Templating
    <2>6. ASSUME NEW v \in Workers, NEW b \in Actions, cur'[v] = b, pc'[v] = "templating"
          PROVE  cur[v] = b /\ pc[v] = "templating" /\ b # a
      BY <2>2, <2>3, <2>4, <2>6 DEF TemplatesAreReserved, Templating
    <2>7. \A b \in Actions : templates'[b] <= 1
      BY <2>4 DEF TemplatesAreReserved
    <2>8. \A b \in Actions : key'[b] = "none" => templates'[b] = 0
      BY <2>3, <2>4 DEF TemplatesAreReserved
    <2>9. \A v \in Workers, b \in Actions : cur'[v] = b /\ pc'[v] = "templating" => templates'[b] = 0
      BY <2>4, <2>6 DEF TemplatesAreReserved
    <2>. QED
      BY <2>4, <2>5, <2>7, <2>8, <2>9 DEF TemplatesAreReserved
  <1>8. CASE RecordTemplate(w)
    <2>1. /\ \A a \in Actions : key'[a] = "none" => key[a] = "none"
          /\ UNCHANGED <<templates, pc, cur>>
      BY <1>8 DEF RecordTemplate, Typed, RowsTyped
    <2>. QED
      BY <2>1 DEF TemplatesAreReserved, Templating
  <1>. QED
    BY <1>1, <1>2, <1>3, <1>4, <1>5, <1>6, <1>7, <1>8, CheckedCommits, CalledCommits,
       BrokenCommits
    DEF WorkerMoves, WorkerStep

-----------------------------------------------------------------------------
(* What escapes a takeover                                                 *)

\* A step that leaves the operator alone, and makes alive only what it says escaped.
LEMMA NothingEscapes ==
    ASSUME EscapedAreKnown, UNCHANGED <<mode, taking, taken>>, escaped \subseteq escaped',
           \A a \in Actions :
               Alive(a)' => Alive(a) \/ (Owned(LeadOf(a)) => a \in escaped')
    PROVE  EscapedAreKnown'
  BY DEF EscapedAreKnown, Owned

LEMMA ArmedEscapes ==
    ASSUME NEW S, Arms(S)
    PROVE  escaped \subseteq escaped' /\ \A a \in S : Owned(LeadOf(a)) => a \in escaped'
  BY DEF Arms

LEMMA ConsumerEscapes ==
    ASSUME Typed, EscapedAreKnown, NEW l \in Leads, ConsumerStep(l) \/ WindowCloses(l)
    PROVE  EscapedAreKnown'
  <1>1. UNCHANGED <<operatorVars, workerVars>>
    BY DEF ConsumerStep, Receive, Store, StoreTimesOut, Capture, ScheduleFollowup,
           NoFollowup, WindowCloses
  <1>2. \A a \in Actions : Working(a)' <=> Working(a)
    BY <1>1 DEF Working
  <1>3. ASSUME \A a \in Actions : row'[a] = row[a] \/ row'[a].status \in Settled,
               UNCHANGED escaped
        PROVE  EscapedAreKnown'
    BY <1>1, <1>2, <1>3, NothingEscapes DEF Alive, Settled, Live
  <1>4. CASE Receive(l) \/ StoreTimesOut(l) \/ NoFollowup(l) \/ WindowCloses(l)
    BY <1>3, <1>4 DEF Receive, StoreTimesOut, NoFollowup, WindowCloses
  <1>5. CASE Store(l)
    BY <1>3, <1>5, CancelledRows DEF Store
  <1>6. CASE Capture(l)
    <2>1. row' = row \/ row' = Cancelled(Cancellable(l))
      BY <1>6 DEF Capture
    <2>. QED
      BY <1>3, <1>6, <2>1, CancelledRows DEF Capture
  <1>7. ASSUME NEW overlapped \in BOOLEAN, ScheduleFollowup(l, overlapped)
        PROVE  EscapedAreKnown'
    <2>1. PICK b \in FreeAttempts(l) : row' = [row EXCEPT ![b] = Armed] /\ Arms({b})
      BY <1>7 DEF ScheduleFollowup
    <2>2. \A a \in Actions : a # b => row'[a] = row[a]
      BY <2>1 DEF Typed, RowsTyped
    <2>3. escaped \subseteq escaped' /\ (Owned(LeadOf(b)) => b \in escaped')
      BY <2>1, ArmedEscapes
    <2>. QED
      BY <1>1, <1>2, <2>2, <2>3, NothingEscapes DEF Alive
  <1>. QED
    BY <1>4, <1>5, <1>6, <1>7 DEF ConsumerStep

\* A takeover lets go what is in hand when it commits, and what is in hand and no longer
\* live when it reads the rows.
LEMMA OperatorEscapes ==
    ASSUME Typed, EscapedAreKnown, NEW l \in Leads, OperatorStep(l)
    PROVE  EscapedAreKnown'
  <1>1. UNCHANGED workerVars
    BY DEF OperatorStep, TakeOver, TakeOverCommits, TakeOverTimesOut, HandBack, UpdateStage
  <1>2. \A a \in Actions : (Working(a)' <=> Working(a)) /\ (a \in Of(l) <=> LeadOf(a) = l)
    BY <1>1 DEF Working, Of
  <1>3. CASE TakeOver(l)
    <2>1. /\ UNCHANGED <<row, mode>>
          /\ escaped' = escaped \cup (InHand(l) \ Cancellable(l))
          /\ taking' = [taking EXCEPT ![l] = TRUE] /\ mode[l] = "ai"
          /\ taken' = [taken EXCEPT ![l] = Cancellable(l)]
      BY <1>3 DEF TakeOver
    <2>2. ASSUME NEW a \in Actions, LeadOf(a) = l, a \notin Cancellable(l), Alive(a)
          PROVE  a \in InHand(l) \ Cancellable(l)
      BY <1>2, <2>2 DEF Cancellable, InHand, Alive
    <2>3. /\ taking'[l] /\ taken'[l] = Cancellable(l)
          /\ \A m \in Leads \ {l} : taking'[m] = taking[m] /\ taken'[m] = taken[m]
      BY <2>1 DEF Typed, OperatorTyped
    <2>. QED
      BY <1>2, <2>1, <2>2, <2>3, ActionTyped DEF EscapedAreKnown, Alive
  <1>4. CASE TakeOverCommits(l)
    <2>1. /\ mode' = [mode EXCEPT ![l] = "human"] /\ row' = Cancelled(taken[l])
          /\ taking[l] /\ taking' = [taking EXCEPT ![l] = FALSE]
          /\ taken' = [taken EXCEPT ![l] = {}] /\ escaped' = escaped \cup InHand(l)
      BY <1>4 DEF TakeOverCommits
    <2>2. /\ mode'[l] = "human" /\ ~taking'[l]
          /\ \A m \in Leads \ {l} :
                taking'[m] = taking[m] /\ taken'[m] = taken[m] /\ mode'[m] = mode[m]
      BY <2>1 DEF Typed, OperatorTyped
    <2>3. \A a \in Actions : /\ row'[a] = row[a] \/ row'[a].status \in Settled
                             /\ a \in taken[l] => row'[a].status \in Settled
      BY <2>1, CancelledRows, SomeRows DEF Cancelled, Settled
    <2>4. \A a \in Actions : Alive(a)' => Alive(a) /\ (a \in taken[l] => Working(a))
      BY <1>2, <2>3 DEF Alive, Settled, Live
    <2>5. ASSUME NEW a \in Actions, LeadOf(a) = l, Alive(a)'
          PROVE  a \in escaped'
      BY <1>2, <2>1, <2>4, <2>5 DEF EscapedAreKnown, InHand
    <2>. QED
      BY <2>1, <2>2, <2>4, <2>5, ActionTyped DEF EscapedAreKnown
  <1>5. CASE TakeOverTimesOut(l) \/ HandBack(l)
    <2>1. /\ UNCHANGED row /\ escaped' = escaped \ Of(l)
          /\ mode'[l] = "ai" /\ ~taking'[l]
          /\ \A m \in Leads \ {l} :
                taking'[m] = taking[m] /\ taken'[m] = taken[m] /\ mode'[m] = mode[m]
      BY <1>5 DEF TakeOverTimesOut, HandBack, EscapedAreKnown, Typed, OperatorTyped
    <2>. QED
      BY <1>2, <2>1, ActionTyped DEF EscapedAreKnown, Alive
  <1>6. CASE UpdateStage(l)
    BY <1>2, <1>6, NothingEscapes DEF UpdateStage, Alive
  <1>. QED
    BY <1>3, <1>4, <1>5, <1>6 DEF OperatorStep

LEMMA TimeEscapes ==
    ASSUME Typed, EscapedAreKnown, NEW a \in Actions, FallsDue(a) \/ Lapse(a)
    PROVE  EscapedAreKnown'
  <1>1. UNCHANGED <<operatorVars, workerVars, escaped>> /\ row[a].status \in Live
    BY DEF FallsDue, Lapse, Live
  <1>2. \A b \in Actions : b # a => row'[b] = row[b]
    BY DEF FallsDue, Lapse, Typed, RowsTyped
  <1>. QED
    BY <1>1, <1>2, NothingEscapes DEF Alive, Working

\* A worker has in hand only what was due, and what it writes back it had in hand; the
\* next attempt it arms is known to escape.
LEMMA WorkerEscapes ==
    ASSUME Typed, EscapedAreKnown, NEW w \in Workers, WorkerMoves(w)
    PROVE  EscapedAreKnown'
  <1>1. UNCHANGED operatorVars
    BY DEF WorkerMoves, WorkerStep, Claim, Refuse, Postpone, Retire, Choose, NoTemplate,
       ReserveTemplate, SameTemplate, SendTemplate, RecordTemplate, SettleTemplate, Send,
       Failed, Requeue, RecordSent, ReleaseUnnamed, SentIsRefused, CommitTimesOut,
       ActionBreaks, Die, Loses
  <1>2. ASSUME escaped \subseteq escaped',
               \A v \in Workers \ {w} : DOMAIN batch'[v] = DOMAIN batch[v],
               \A a \in DOMAIN batch'[w] : Alive(a),
               \A a \in Actions : row'[a].status \in Live =>
                   Alive(a) \/ (Owned(LeadOf(a)) => a \in escaped')
        PROVE  EscapedAreKnown'
    <2>1. \A a \in Actions : Working(a)' => Alive(a)
      BY <1>2 DEF Working, Alive
    <2>. QED
      BY <1>1, <1>2, <2>1, NothingEscapes DEF Alive
  <1>3. /\ \A a \in DOMAIN batch[w] : Alive(a)
        /\ locked[w] \subseteq DOMAIN batch[w]
    BY DEF Alive, Working, Typed, WorkersTyped, Holding
  <1>4. \A a \in Actions : Claims(w)[a].status \in Live => Alive(a)
    BY <1>3, ClaimsTyped DEF Alive, Typed
  <1>5. ASSUME NEW x, Commits(w, x)
        PROVE  EscapedAreKnown'
    <2>1. /\ \A v \in Workers \ {w} : batch'[v] = batch[v]
          /\ DOMAIN batch'[w] \subseteq DOMAIN batch[w]
      BY <1>5 DEF Commits, GoesOn, Remaining, Typed, WorkersTyped
    <2>2. ASSUME NEW a \in Actions, row'[a].status \in Live
          PROVE  Alive(a) \/ (Owned(LeadOf(a)) => a \in escaped')
      BY <1>3, <1>4, <1>5, <2>2 DEF Commits
    <2>. QED
      BY <1>2, <1>3, <1>5, <2>1, <2>2 DEF Commits
  <1>6. ASSUME UNCHANGED <<row, batch, escaped>>
        PROVE  EscapedAreKnown'
    BY <1>2, <1>3, <1>6 DEF Alive
  <1>7. CASE Claim(w)
    <2>1. PICK S \in SUBSET Actions : S = (Expired \cup Due) \ LockedByOthers(w)
      BY DEF Expired, Due
    <2>2. /\ DOMAIN batch'[w] = S /\ UNCHANGED <<row, escaped>>
          /\ \A v \in Workers \ {w} : batch'[v] = batch[v]
      BY <1>7, <2>1 DEF Claim, Typed, WorkersTyped
    <2>3. \A a \in S : Alive(a)
      BY <2>1 DEF Expired, Due, Alive, Live
    <2>. QED
      BY <1>2, <2>2, <2>3 DEF Alive
  <1>8. ASSUME Loses(w)
        PROVE  EscapedAreKnown'
    <2>1. UNCHANGED <<row, escaped>> /\ \A v \in Workers \ {w} : batch'[v] = batch[v]
      BY <1>8 DEF Loses, Drops, Typed, WorkersTyped
    <2>2. DOMAIN batch'[w] = {}
      BY <1>8, DropsTyped DEF Loses, Typed
    <2>. QED
      BY <1>2, <2>1, <2>2 DEF Alive
  <1>9. ASSUME NEW a \in DOMAIN batch[w], ReserveTemplate(w, a)
        PROVE  EscapedAreKnown'
    <2>1. row' = Claims(w) /\ UNCHANGED <<batch, escaped>>
      BY <1>9 DEF ReserveTemplate
    <2>. QED
      BY <1>2, <1>3, <1>4, <2>1
  <1>10. CASE \/ \E a \in DOMAIN batch[w] : Choose(w, a)
              \/ SendTemplate(w) \/ RecordTemplate(w) \/ Send(w)
    BY <1>6, <1>10 DEF Choose, SendTemplate, RecordTemplate, Send
  <1>. QED
    BY <1>5, <1>7, <1>8, <1>9, <1>10, CheckedCommits, CalledCommits, BrokenCommits
    DEF WorkerMoves, WorkerStep, SentIsRefused, CommitTimesOut, Die

-----------------------------------------------------------------------------
(* The theorems                                                            *)

LEMMA InitInv ==
    ASSUME Init
    PROVE  Inv
  <1>1. TemplatesAreReserved
    BY ActionTyped DEF Init, TemplatesAreReserved, Templating
  <1>2. EscapedAreKnown
    BY ActionTyped DEF Init, EscapedAreKnown
  <1>. QED
    BY <1>1, <1>2, InitTyped, InitPays DEF Inv

LEMMA InvStep ==
    ASSUME Inv, [Next]_vars
    PROVE  Inv'
  <1>1. Typed /\ Typed' /\ NudgesArePaid /\ TemplatesAreReserved /\ EscapedAreKnown
    BY TypedStep DEF Inv
  <1>2. ASSUME NEW l \in Leads, ConsumerStep(l) \/ OperatorStep(l) \/ WindowCloses(l)
        PROVE  Inv'
    <2>1. UNCHANGED <<key, templates, workerVars>>
      BY <1>2 DEF ConsumerStep, Receive, Store, StoreTimesOut, Capture, ScheduleFollowup,
         NoFollowup, OperatorStep, TakeOver, TakeOverCommits, TakeOverTimesOut, HandBack,
         UpdateStage, WindowCloses
    <2>. QED
      BY <1>1, <1>2, <2>1, ConsumerPays, OperatorPays, StillReserved, ConsumerEscapes,
         OperatorEscapes DEF Inv
  <1>3. ASSUME NEW a \in Actions, FallsDue(a) \/ Lapse(a)
        PROVE  Inv'
    <2>1. UNCHANGED <<key, templates, workerVars>>
      BY <1>3 DEF FallsDue, Lapse
    <2>. QED
      BY <1>1, <1>3, <2>1, TimePays, StillReserved, TimeEscapes DEF Inv
  <1>4. ASSUME NEW w \in Workers, WorkerMoves(w)
        PROVE  Inv'
    BY <1>1, <1>4, WorkerPays, WorkerReserves, WorkerEscapes DEF Inv
  <1>5. CASE UNCHANGED vars
    <2>1. UNCHANGED <<row, key, operatorVars, workerVars, copies, excused, escaped, templates>>
      BY <1>5 DEF vars
    <2>. QED
      BY <1>1, <2>1, OthersPay, StillReserved, NothingEscapes DEF Inv, Alive, Working
  <1>. QED
    BY <1>2, <1>3, <1>4, <1>5 DEF Next, WorkerMoves

\* The customer gets a nudge at most once more than its outcome was lost, its lease
\* overrun or its id left out by Meta, and a template at most once: what was sent, what
\* workers may still send and what one more of them may claim are paid for.
THEOREM NudgeCopiesAreExcused == Spec => []CopiesAreExcused
  <1>1. ASSUME Inv
        PROVE  CopiesAreExcused
    <2>. SUFFICES ASSUME NEW a \in Actions
                  PROVE  copies[a] <= 1 + excused[a] /\ templates[a] <= 1
      BY DEF CopiesAreExcused
    <2>1. IsFiniteSet(Owing(a))
      BY BoundsAreNat, FS_Subset DEF Owing
    <2>2. PICK n \in Nat : n = Cardinality(Owing(a))
      BY <2>1, FS_CardinalityType
    <2>3. copies[a] + n + Left(a) <= 1 + excused[a]
      BY <1>1, <2>2 DEF Inv, NudgesArePaid
    <2>4. copies[a] \in Nat /\ excused[a] \in Nat /\ Left(a) \in Nat
      BY <1>1 DEF Inv, Typed, GhostsTyped, Left
    <2>. QED
      BY <1>1, <2>2, <2>3, <2>4 DEF Inv, TemplatesAreReserved
  <1>. QED
    BY <1>1, InitInv, InvStep, PTL DEF Spec

\* In a thread a person owns, a worker has only such nudges in hand as a worker held while
\* the takeover ran, or as were armed since by what was then under way: every other one the
\* takeover has cancelled for good, whatever claims, locks, leases and dead workers did.
THEOREM TakenOverThreadIsLeftAlone == Spec => []TakenOverIsLeftAlone
  <1>1. ASSUME Inv
        PROVE  TakenOverIsLeftAlone
    <2>. SUFFICES ASSUME NEW w \in Workers, cur[w] # NoAction,
                         mode[LeadOf(cur[w])] = "human"
                  PROVE  cur[w] \in escaped
      BY DEF TakenOverIsLeftAlone
    <2>1. cur[w] \in DOMAIN batch[w] /\ cur[w] \in Actions
      BY <1>1, BatchIsTyped DEF Inv, Typed, WorkersTyped, Holding
    <2>2. Alive(cur[w])
      BY <2>1 DEF Alive, Working
    <2>. QED
      BY <1>1, <2>1, <2>2 DEF Inv, EscapedAreKnown
  <1>. QED
    BY <1>1, InitInv, InvStep, PTL DEF Spec
=============================================================================
