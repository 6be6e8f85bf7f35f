------------------------- MODULE CreditLedgerProofs -------------------------
(***************************************************************************)
(* Theorems about CreditLedger, for every set of calls, callers, reapers,  *)
(* operators and keys, every cost and every bound.                         *)
(***************************************************************************)
EXTENDS CreditLedger, FiniteSetTheorems, WellFoundedInduction, TLAPS

-----------------------------------------------------------------------------
(* The inductive invariant                                                 *)

\* Holds exist only in an open ledger.
HoldsAreOpened == \A c \in Calls : hold[c].status # "none" => opened

\* A caller that is not idle works on a call whose hold it made or was given.
CallersHold ==
    \A p \in Callers :
        IF pc[p] = "idle" THEN call[p] = NoCall
        ELSE call[p] \in Calls /\ hold[call[p]].status # "none"

\* A completion or a stream has one caller.
OneCaller ==
    \A p, q \in Callers :
        call[p] \in Calls /\ call[p] = call[q] /\ Kind[call[p]] # "voice" => p = q

\* Before the provider answers there is nothing to charge, no usage row, and nobody has
\* closed the hold; only completions and streams are called, refunded or recorded.
NothingYet ==
    \A p \in Callers :
        /\ pc[p] \in {"calling", "refunding"} =>
              cost[call[p]] = 0 /\ call[p] \notin usage
        /\ pc[p] = "calling" => hold[call[p]].status \in {"pending", "expired"}
        /\ pc[p] \in {"calling", "refunding", "recording"} => Kind[call[p]] # "voice"

\* A voice unit has its price before it has a hold.
VoiceIsPriced ==
    \A c \in Calls : Kind[c] = "voice" /\ hold[c].status # "none" => cost[c] > 0

\* A completion or a stream without a hold has done no work.
FreshIsFree ==
    \A c \in Calls : hold[c].status = "none" =>
        c \notin usage /\ (Kind[c] # "voice" => cost[c] = 0)

\* Usage rows are priced and belong to calls that were answered; the reaper recovers
\* only holds that have one.
UsageIsPriced ==
    /\ \A c \in usage : cost[c] > 0
    /\ \A r \in Reapers : phase[r] = "recovering" => todo[r] \subseteq usage

\* What is released cost nothing.
ReleasedIsFree == \A c \in Calls : hold[c].status = "released" => cost[c] = 0

\* Work that is not charged yet has a caller about to charge it, or was hit by a fault.
WorkIsPursued ==
    \A c \in Calls :
        hold[c].status \in {"pending", "expired"} /\ cost[c] > 0 /\ c \notin hit
            => \E p \in Callers : pc[p] = "settling" /\ call[p] = c

Inv ==
    /\ TypeOK /\ ChargedForWork
    /\ HoldsAreOpened /\ CallersHold /\ OneCaller /\ NothingYet
    /\ VoiceIsPriced /\ FreshIsFree /\ UsageIsPriced /\ ReleasedIsFree /\ WorkIsPursued

-----------------------------------------------------------------------------
(* What the two transactions do                                            *)

LEMMA Amounts ==
    /\ OpeningBalance \in Nat
    /\ TypeOK => Balance \in Int
    /\ ReserveCents \in Nat /\ \A price \in Costs : price \in Nat
    /\ TypeOK => \A c \in Calls : cost[c] \in Nat
  <1>1. OpeningBalance \in Nat
    BY ConstantsAssumption DEF OpeningBalance
  <1>2. \A price \in Costs \cup {0} : price \in Nat
    BY ConstantsAssumption
  <1>3. TypeOK => \A c \in Calls : cost[c] \in Nat
    BY <1>2 DEF TypeOK
  <1>4. TypeOK => Balance \in Int
    BY <1>1 DEF TypeOK, Balance
  <1>. QED
    BY <1>1, <1>2, <1>3, <1>4, ConstantsAssumption

\* Closing a hold leaves it a row.
LEMMA RowOperators ==
    ASSUME NEW row \in Holds, NEW actual \in Nat
    PROVE  /\ Settled(row, actual) \in Holds
           /\ Settled(row, actual).status = (IF actual > 0 THEN "settled" ELSE "released")
           /\ Settled(row, actual).amount = -actual
           /\ Expired(row) \in Holds
           /\ Expired(row).status = "expired" /\ Expired(row).amount = 0
           /\ Taken(Expired(row)) = 0
  <1>1. -actual \in Int /\ 0 \in Int
    OBVIOUS
  <1>2. {"settled", "released", "expired"} \subseteq Statuses
    BY DEF Statuses
  <1>3. Settled(row, actual) \in Holds
    BY <1>1, <1>2 DEF Settled, Holds
  <1>4. /\ Settled(row, actual).status = (IF actual > 0 THEN "settled" ELSE "released")
        /\ Settled(row, actual).amount = -actual
    BY DEF Settled, Holds
  <1>5. /\ Expired(row) \in Holds
        /\ Expired(row).status = "expired" /\ Expired(row).amount = 0
    BY <1>1, <1>2 DEF Expired, Holds
  <1>6. Taken(Expired(row)) = 0
    BY <1>5 DEF Taken
  <1>. QED
    BY <1>3, <1>4, <1>5, <1>6

\* settle: the row is left alone, or closed with the charge, and the wallet pays exactly
\* the difference between what the row took before and what it takes now.
LEMMA SettleEffect ==
    ASSUME TypeOK, ChargedForWork, NEW c \in Calls, NEW actual \in Nat, SettleHold(c, actual)
    PROVE  /\ wallet' \in Int
           /\ hold' \in [Calls -> Holds]
           /\ \A d \in Calls : d # c => hold'[d] = hold[d]
           /\ IF Chargeable(hold[c], actual)
              THEN /\ hold'[c].status = (IF actual > 0 THEN "settled" ELSE "released")
                   /\ hold'[c].amount = -actual
              ELSE hold' = hold
           /\ wallet' - wallet = Taken(hold[c]) - Taken(hold'[c])
  <1>. hold[c] \in Holds /\ wallet \in Int
    BY DEF TypeOK
  <1>1. CASE ~Chargeable(hold[c], actual)
    BY <1>1 DEF SettleHold, TypeOK, Taken, Holds
  <1>2. CASE Chargeable(hold[c], actual)
    <2>. DEFINE new == Settled(hold[c], actual)
    <2>1. /\ new \in Holds
          /\ new.status = (IF actual > 0 THEN "settled" ELSE "released")
          /\ new.amount = -actual
      BY RowOperators
    <2>2. hold' = [hold EXCEPT ![c] = new]
      BY <1>2 DEF SettleHold
    <2>3. hold' \in [Calls -> Holds] /\ hold'[c] = new
      BY <2>1, <2>2 DEF TypeOK
    <2>4. \A d \in Calls : d # c => hold'[d] = hold[d]
      BY <2>2 DEF TypeOK
    <2>5. wallet' = wallet + Refund(hold[c]) - actual
      BY <1>2 DEF SettleHold
    <2>6. Refund(hold[c]) = Taken(hold[c]) /\ Refund(hold[c]) \in Int
      BY <1>2 DEF Refund, Taken, Chargeable, ChargedForWork, Holds
    <2>7. Taken(new) = actual
      BY <2>1 DEF Taken
    <2>8. wallet' \in Int /\ wallet' - wallet = Taken(hold[c]) - Taken(hold'[c])
      BY <2>3, <2>5, <2>6, <2>7
    <2>. HIDE DEF new
    <2>. QED
      BY <1>2, <2>1, <2>3, <2>4, <2>8
  <1>. QED
    BY <1>1, <1>2

\* reserve: the ledger is open afterwards, and either the hold is pending and the wallet
\* has paid for it, or neither has changed.
LEMMA ReserveEffect ==
    ASSUME TypeOK, ChargedForWork, NEW c \in Calls, NEW amt \in Nat, ReserveNew(c, amt)
    PROVE  /\ hold[c].status = "none"
           /\ opened' = TRUE
           /\ wallet' \in Int
           /\ hold' \in [Calls -> Holds]
           /\ \A d \in Calls : d # c => hold'[d] = hold[d]
           /\ \/ hold' = hold
              \/ hold'[c].status = "pending" /\ hold'[c].amount = 0
           /\ wallet' - Balance = Taken(hold[c]) - Taken(hold'[c])
  <1>. hold[c] \in Holds /\ Balance \in Int
    BY Amounts DEF TypeOK
  <1>0. hold[c].status = "none" /\ opened' = TRUE
    BY DEF ReserveNew
  <1>1. CASE Balance < amt
    <2>1. wallet' = Balance /\ hold' = hold
      BY <1>1 DEF ReserveNew
    <2>. QED
      BY <1>0, <2>1 DEF TypeOK, Taken, Holds
  <1>2. CASE ~(Balance < amt)
    <2>1. wallet' = Balance - amt /\ hold' = [hold EXCEPT ![c] = Pending(amt)]
      BY <1>2 DEF ReserveNew
    <2>2. /\ Pending(amt) \in Holds
          /\ Pending(amt).status = "pending" /\ Pending(amt).amount = 0
          /\ Taken(Pending(amt)) = amt
      BY DEF Pending, Holds, Statuses, Taken
    <2>3. hold' \in [Calls -> Holds] /\ hold'[c] = Pending(amt)
      BY <2>1, <2>2 DEF TypeOK
    <2>4. \A d \in Calls : d # c => hold'[d] = hold[d]
      BY <2>1 DEF TypeOK
    <2>5. Taken(hold[c]) = 0
      BY <1>0 DEF Taken, ChargedForWork
    <2>. QED
      BY <1>0, <2>1, <2>2, <2>3, <2>4, <2>5
  <1>. QED
    BY <1>1, <1>2

-----------------------------------------------------------------------------
(* Types                                                                   *)

LEMMA TypeInit == Init => TypeOK
  <1>. SUFFICES ASSUME Init PROVE TypeOK
    OBVIOUS
  <1>1. NoHold \in Holds
    BY DEF NoHold, Holds, Statuses
  <1>2. 0 \in Costs \cup {0} /\ 0 \in Nat /\ 0 \in Int
    OBVIOUS
  <1>. QED
    BY <1>1, <1>2 DEF Init, TypeOK

\* The steps of a caller, its mishaps, the reaper and the grants keep the types.
LEMMA TypeStep ==
    ASSUME TypeOK, ChargedForWork, CallersHold, [Next]_vars
    PROVE  TypeOK'
  <1>. USE DEF caller, reaper, grants
  <1>0. ConstantsAssumption /\ OpeningBalance \in Nat /\ Balance \in Int
    BY ConstantsAssumption, Amounts
  <1>1. CASE Open
    BY <1>0, <1>1 DEF Open, TypeOK
  <1>2. ASSUME NEW p \in Callers, NEW c \in Calls, StartCall(p, c) PROVE TypeOK'
    <2>1. ReserveNew(c, ReserveCents) /\ ReserveCents \in Nat
      BY <1>2, Amounts DEF StartCall
    <2>2. opened' = TRUE /\ wallet' \in Int /\ hold' \in [Calls -> Holds]
      BY <2>1, ReserveEffect
    <2>3. \/ UNCHANGED <<pc, call>>
          \/ pc' = [pc EXCEPT ![p] = "calling"] /\ call' = [call EXCEPT ![p] = c]
      BY <1>2 DEF StartCall, Goto
    <2>4. UNCHANGED <<lapsed, cost, usage, reaper, grants, refunded, hit, faults>>
      BY <1>2 DEF StartCall
    <2>. QED
      BY <2>2, <2>3, <2>4 DEF TypeOK
  <1>3. ASSUME NEW p \in Callers, NEW c \in Calls, NEW price \in Costs, StartVoice(p, c, price)
        PROVE  TypeOK'
    <2>1. opened' \in BOOLEAN /\ wallet' \in Int /\ hold' \in [Calls -> Holds]
      <3>1. CASE ReserveNew(c, price)
        BY <3>1, Amounts, ReserveEffect
      <3>2. CASE UNCHANGED <<opened, wallet, hold>>
        BY <3>2 DEF TypeOK
      <3>. QED
        BY <1>3, <3>1, <3>2 DEF StartVoice
    <2>2. \/ UNCHANGED <<pc, call>>
          \/ pc' = [pc EXCEPT ![p] = "settling"] /\ call' = [call EXCEPT ![p] = c]
      BY <1>3 DEF StartVoice, Goto
    <2>3. /\ cost' = [cost EXCEPT ![c] = price]
          /\ UNCHANGED <<lapsed, usage, reaper, grants, refunded, hit, faults>>
      BY <1>3 DEF StartVoice
    <2>. QED
      BY <2>1, <2>2, <2>3 DEF TypeOK
  <1>4. ASSUME NEW p \in Callers, NEW price \in Costs, ProviderReturns(p, price) PROVE TypeOK'
    BY <1>4 DEF ProviderReturns, Goto, TypeOK
  <1>5. ASSUME NEW p \in Callers, ProviderFails(p) PROVE TypeOK'
    BY <1>5 DEF ProviderFails, Goto, TypeOK
  <1>6. ASSUME NEW p \in Callers, Settle(p) PROVE TypeOK'
    <2>1. call[p] \in Calls /\ cost[call[p]] \in Nat
      BY <1>6, Amounts DEF Settle, CallersHold
    <2>2. wallet' \in Int /\ hold' \in [Calls -> Holds]
      BY <1>6, <2>1, SettleEffect DEF Settle
    <2>3. /\ pc' \in [Callers -> {"idle", "calling", "settling", "refunding", "recording"}]
          /\ call' \in [Callers -> Calls \cup {NoCall}]
      BY <1>6 DEF Settle, AfterSettle, Leave, Goto, TypeOK
    <2>4. UNCHANGED <<opened, lapsed, cost, usage, reaper, grants, refunded, hit, faults>>
      BY <1>6 DEF Settle
    <2>. QED
      BY <2>2, <2>3, <2>4 DEF TypeOK
  <1>7. ASSUME NEW p \in Callers, RecordUsage(p) PROVE TypeOK'
    <2>1. call[p] \in Calls
      BY <1>7 DEF RecordUsage, CallersHold
    <2>. QED
      BY <1>7, <2>1 DEF RecordUsage, Leave, Goto, TypeOK
  <1>8. ASSUME NEW p \in Callers, SettleFails(p) \/ UsageLost(p) \/ Crash(p) PROVE TypeOK'
    <2>1. call[p] \in Calls
      BY <1>8 DEF SettleFails, UsageLost, Crash, CallersHold
    <2>2. /\ pc' \in [Callers -> {"idle", "calling", "settling", "refunding", "recording"}]
          /\ call' \in [Callers -> Calls \cup {NoCall}]
      BY <1>8 DEF SettleFails, UsageLost, Crash, AfterSettle, Leave, Goto, TypeOK
    <2>3. hit' \subseteq Calls /\ faults' \in Nat
      BY <1>8, <2>1 DEF SettleFails, UsageLost, Crash, Hit, Fault, TypeOK
    <2>4. UNCHANGED <<opened, wallet, hold, lapsed, cost, usage, reaper, grants, refunded>>
      BY <1>8 DEF SettleFails, UsageLost, Crash
    <2>. QED
      BY <2>2, <2>3, <2>4 DEF TypeOK
  <1>9. ASSUME NEW r \in Reapers, ScanPriced(r) \/ ScanExpired(r) \/ EndPass(r) PROVE TypeOK'
    BY <1>9 DEF ScanPriced, ScanExpired, EndPass, Move, PricedHolds, StaleHolds, TypeOK
  <1>10. ASSUME NEW r \in Reapers, NEW c \in Calls, Recover(r, c) PROVE TypeOK'
    <2>1. wallet' \in Int /\ hold' \in [Calls -> Holds]
      BY <1>10, Amounts, SettleEffect DEF Recover
    <2>. QED
      BY <1>10, <2>1 DEF Recover, Done, TypeOK
  <1>11. ASSUME NEW r \in Reapers, NEW c \in Calls, Expire(r, c) PROVE TypeOK'
    <2>1. wallet' \in Int /\ hold' \in [Calls -> Holds] /\ refunded' \subseteq Calls
      <3>. hold[c] \in Holds /\ Expired(hold[c]) \in Holds /\ hold[c].reserved \in Int
        BY RowOperators DEF TypeOK, Holds
      <3>. QED
        BY <1>11 DEF Expire, TypeOK
    <2>. QED
      BY <1>11, <2>1 DEF Expire, Done, TypeOK
  <1>12. ASSUME NEW r \in Reapers, ReaperFails(r) \/ \E c \in Calls : ReaperSkips(r, c)
         PROVE  TypeOK'
    BY <1>12 DEF ReaperFails, ReaperSkips, Fault, Move, Done, TypeOK
  <1>13. ASSUME NEW c \in Calls, HoldLapses(c) PROVE TypeOK'
    BY <1>13 DEF HoldLapses, TypeOK
  <1>14. CASE GrantStep
    <2>1. ASSUME NEW o \in Operators, GrantCommits(o) PROVE TypeOK'
      <3>1. ask[o] \in Keys /\ Bonus \in Int
        BY <2>1, ConstantsAssumption DEF GrantCommits, TypeOK
      <3>2. opened' \in BOOLEAN /\ wallet' \in Int /\ granted' \subseteq Keys
        <4>1. CASE ask[o] \in granted
          BY <2>1, <4>1 DEF GrantCommits, TypeOK
        <4>2. CASE ask[o] \notin granted
          <5>1. /\ opened' = TRUE /\ wallet' = Balance + Bonus
                /\ granted' = granted \cup {ask[o]}
            BY <2>1, <4>2 DEF GrantCommits
          <5>. QED
            BY <1>0, <3>1, <5>1 DEF TypeOK
        <4>. QED
          BY <4>1, <4>2
      <3>3. ask' \in [Operators -> Keys \cup {NoKey}]
        BY <2>1 DEF GrantCommits, TypeOK
      <3>. QED
        BY <2>1, <3>2, <3>3 DEF GrantCommits, TypeOK
    <2>2. ASSUME NEW o \in Operators, NEW k \in Keys, AskGrant(o, k) PROVE TypeOK'
      BY <2>2 DEF AskGrant, TypeOK
    <2>3. ASSUME NEW new \in {"free", "pro"}, NEW add \in {0, Bonus}, GrantPlan(new, add)
          PROVE  TypeOK'
      <3>. DEFINE total == add + (IF new = plan THEN 0 ELSE Included[new])
      <3>1. total \in Nat
        <4>1. Included[new] \in Nat /\ add \in Nat
          BY ConstantsAssumption
        <4>. QED
          BY <4>1
      <3>2. /\ opened' = TRUE /\ wallet' = Balance + total
            /\ posted' = posted + total /\ plan' = new
            /\ UNCHANGED <<hold, lapsed, cost, usage, caller, reaper, ask, granted,
                           refunded, hit, faults>>
        BY <2>3 DEF GrantPlan
      <3>. HIDE DEF total
      <3>. QED
        BY <1>0, <3>1, <3>2 DEF TypeOK
    <2>. QED
      BY <1>14, <2>1, <2>2, <2>3 DEF GrantStep
  <1>15. CASE UNCHANGED vars
    BY <1>15 DEF vars, TypeOK
  <1>. QED
    BY <1>1, <1>2, <1>3, <1>4, <1>5, <1>6, <1>7, <1>8, <1>9, <1>10, <1>11, <1>12, <1>13,
       <1>14, <1>15
    DEF Next, CallerStep, ReaperStep, Mishap

-----------------------------------------------------------------------------
(* The invariant is inductive                                              *)

LEMMA InvInit == Init => Inv
  <1>. SUFFICES ASSUME Init PROVE Inv
    OBVIOUS
  <1>1. TypeOK
    BY TypeInit
  <1>2. \A c \in Calls : hold[c] = NoHold /\ NoHold.status = "none" /\ NoHold.amount = 0
    BY DEF Init, NoHold
  <1>3. ChargedForWork /\ HoldsAreOpened /\ ReleasedIsFree /\ VoiceIsPriced /\ WorkIsPursued
    BY <1>2 DEF ChargedForWork, HoldsAreOpened, ReleasedIsFree, VoiceIsPriced, WorkIsPursued
  <1>4. CallersHold /\ OneCaller /\ NothingYet /\ FreshIsFree /\ UsageIsPriced
    BY ConstantsAssumption
    DEF Init, CallersHold, OneCaller, NothingYet, FreshIsFree, UsageIsPriced
  <1>. QED
    BY <1>1, <1>3, <1>4 DEF Inv

\* A step that touches no row and no caller, and keeps what the reapers recover priced.
LEMMA Frame ==
    ASSUME Inv, TypeOK', UNCHANGED <<hold, cost, usage, pc, call, hit>>,
           opened => opened', UsageIsPriced'
    PROVE  Inv'
  <1>1. ChargedForWork' /\ HoldsAreOpened' /\ ReleasedIsFree' /\ VoiceIsPriced'
    BY DEF Inv, ChargedForWork, HoldsAreOpened, ReleasedIsFree, VoiceIsPriced
  <1>2. CallersHold' /\ OneCaller' /\ NothingYet' /\ FreshIsFree' /\ WorkIsPursued'
    BY DEF Inv, CallersHold, OneCaller, NothingYet, FreshIsFree, WorkIsPursued
  <1>. QED
    BY <1>1, <1>2 DEF Inv

\* A caller drops its call, or goes on to record it, and the rows stay: the call was
\* hit, or has nothing left to charge.
LEMMA CallerLeaves ==
    ASSUME Inv, TypeOK', NEW p \in Callers, pc[p] # "idle",
           UNCHANGED <<opened, hold, cost, phase, todo>>,
           \/ Leave(p)
           \/ Goto(p, "recording") /\ UNCHANGED call /\ Kind[call[p]] # "voice",
           \/ usage' = usage
           \/ /\ usage' = usage \cup {call[p]} /\ cost[call[p]] > 0
              /\ Kind[call[p]] # "voice",
           hit \subseteq hit',
           pc[p] = "settling" => call[p] \in hit'
    PROVE  Inv'
  <1>. USE DEF Inv
  <1>0. /\ call[p] \in Calls
        /\ pc \in [Callers -> {"idle", "calling", "settling", "refunding", "recording"}]
        /\ call \in [Callers -> Calls \cup {NoCall}]
    BY DEF CallersHold, TypeOK
  <1>1. \A q \in Callers : q # p => pc'[q] = pc[q] /\ call'[q] = call[q]
    BY <1>0 DEF Leave, Goto
  <1>2. \/ pc'[p] = "idle" /\ call'[p] = NoCall
        \/ pc'[p] = "recording" /\ call'[p] = call[p] /\ Kind[call[p]] # "voice"
    BY <1>0 DEF Leave, Goto
  <1>3. ChargedForWork' /\ HoldsAreOpened' /\ ReleasedIsFree' /\ VoiceIsPriced'
    BY DEF ChargedForWork, HoldsAreOpened, ReleasedIsFree, VoiceIsPriced
  <1>4. CallersHold'
    BY <1>1, <1>2 DEF CallersHold
  <1>5. OneCaller'
    BY <1>1, <1>2, ConstantsAssumption DEF OneCaller
  <1>6. NothingYet'
    <2>. SUFFICES ASSUME NEW q \in Callers PROVE
            /\ pc'[q] \in {"calling", "refunding"} =>
                  cost'[call'[q]] = 0 /\ call'[q] \notin usage'
            /\ pc'[q] = "calling" => hold'[call'[q]].status \in {"pending", "expired"}
            /\ pc'[q] \in {"calling", "refunding", "recording"} => Kind[call'[q]] # "voice"
      BY DEF NothingYet
    <2>1. CASE q = p
      BY <1>2, <2>1
    <2>2. CASE q # p /\ pc[q] \in {"calling", "refunding"}
      <3>1. call[q] # call[p] \/ usage' = usage
        BY <2>2, <1>0 DEF NothingYet
      <3>. QED
        BY <1>1, <2>2, <3>1 DEF NothingYet
    <2>3. CASE q # p /\ pc[q] \notin {"calling", "refunding"}
      BY <1>1, <2>3 DEF NothingYet
    <2>. QED
      BY <2>1, <2>2, <2>3
  <1>7. UsageIsPriced' /\ FreshIsFree'
    BY <1>0 DEF UsageIsPriced, FreshIsFree, CallersHold
  <1>8. WorkIsPursued'
    <2>. SUFFICES ASSUME NEW c \in Calls, hold[c].status \in {"pending", "expired"},
                         cost[c] > 0, c \notin hit'
                  PROVE  \E q \in Callers : pc'[q] = "settling" /\ call'[q] = c
      BY DEF WorkIsPursued
    <2>1. PICK q \in Callers : pc[q] = "settling" /\ call[q] = c
      BY DEF WorkIsPursued
    <2>2. q # p
      BY <2>1
    <2>. QED
      BY <1>1, <2>1, <2>2
  <1>. QED
    BY <1>3, <1>4, <1>5, <1>6, <1>7, <1>8

\* Closing a hold with what its work cost, whoever does it.
LEMMA HoldCloses ==
    ASSUME Inv, NEW c \in Calls, SettleHold(c, cost[c]), UNCHANGED <<opened, cost>>
    PROVE  /\ ChargedForWork' /\ HoldsAreOpened' /\ ReleasedIsFree' /\ VoiceIsPriced'
           /\ \A d \in Calls : hold'[d].status # "none" <=> hold[d].status # "none"
           /\ \A d \in Calls : hold'[d].status \in {"pending", "expired"} =>
                 hold[d].status \in {"pending", "expired"}
           /\ \A d \in Calls : d # c => hold'[d] = hold[d]
           /\ hold'[c].status \in {"pending", "expired"} => cost[c] = 0
           /\ hold[c].status \in {"pending", "expired"} /\ cost[c] = 0 =>
                 hold'[c].status \in {"released", "expired"}
  <1>. USE DEF Inv
  <1>0. cost[c] \in Nat /\ \A d \in Calls : cost[d] \in Nat /\ hold[d] \in Holds
    BY Amounts DEF TypeOK
  <1>1. /\ \A d \in Calls : d # c => hold'[d] = hold[d]
        /\ IF Chargeable(hold[c], cost[c])
           THEN /\ hold'[c].status = (IF cost[c] > 0 THEN "settled" ELSE "released")
                /\ hold'[c].amount = -cost[c]
           ELSE hold' = hold
    BY <1>0, SettleEffect
  <1>2. CASE ~Chargeable(hold[c], cost[c])
    <2>1. hold' = hold /\ hold[c].status # "pending"
      BY <1>1, <1>2 DEF Chargeable
    <2>2. hold[c].status = "expired" => cost[c] = 0
      BY <1>0, <1>2 DEF Chargeable
    <2>. QED
      BY <2>1, <2>2
      DEF ChargedForWork, HoldsAreOpened, ReleasedIsFree, VoiceIsPriced
  <1>3. CASE Chargeable(hold[c], cost[c])
    <2>1. hold[c].status \in {"pending", "expired"}
      BY <1>3 DEF Chargeable
    <2>2. CASE cost[c] > 0
      <3>1. hold'[c].status = "settled" /\ hold'[c].amount = -cost[c]
        BY <1>1, <1>3, <2>2
      <3>. QED
        BY <1>0, <1>1, <2>1, <2>2, <3>1
        DEF ChargedForWork, HoldsAreOpened, ReleasedIsFree, VoiceIsPriced
    <2>3. CASE cost[c] = 0
      <3>1. hold'[c].status = "released" /\ hold'[c].amount = 0
        BY <1>1, <1>3, <2>3
      <3>. QED
        BY <1>0, <1>1, <2>1, <2>3, <3>1
        DEF ChargedForWork, HoldsAreOpened, ReleasedIsFree, VoiceIsPriced
    <2>. QED
      BY <1>0, <2>2, <2>3
  <1>. QED
    BY <1>2, <1>3

LEMMA SettleStep ==
    ASSUME Inv, TypeOK', NEW p \in Callers, Settle(p)
    PROVE  Inv'
  <1>. USE DEF Inv
  <1>. DEFINE c == call[p]
  <1>0. /\ c \in Calls /\ hold[c].status # "none"
        /\ pc \in [Callers -> {"idle", "calling", "settling", "refunding", "recording"}]
        /\ call \in [Callers -> Calls \cup {NoCall}]
        /\ UNCHANGED <<opened, cost, usage, hit, phase, todo>>
    BY DEF Settle, CallersHold, TypeOK, reaper
  <1>1. SettleHold(c, cost[c])
    BY DEF Settle, NothingYet
  <1>2. \A q \in Callers : q # p => pc'[q] = pc[q] /\ call'[q] = call[q]
    BY <1>0 DEF Settle, AfterSettle, Leave, Goto
  <1>3. \/ pc'[p] = "idle" /\ call'[p] = NoCall
        \/ pc'[p] = "recording" /\ call'[p] = c /\ Kind[c] # "voice"
    BY <1>0 DEF Settle, AfterSettle, Leave, Goto
  <1>. HIDE DEF c
  <1>4. /\ ChargedForWork' /\ HoldsAreOpened' /\ ReleasedIsFree' /\ VoiceIsPriced'
        /\ \A d \in Calls : hold'[d].status # "none" <=> hold[d].status # "none"
        /\ \A d \in Calls : hold'[d].status \in {"pending", "expired"} =>
              hold[d].status \in {"pending", "expired"}
        /\ \A d \in Calls : d # c => hold'[d] = hold[d]
        /\ hold'[c].status \in {"pending", "expired"} => cost[c] = 0
    BY <1>0, <1>1, HoldCloses
  <1>5. CallersHold'
    BY <1>0, <1>2, <1>3, <1>4 DEF CallersHold
  <1>6. OneCaller'
    BY <1>2, <1>3, ConstantsAssumption DEF OneCaller, c
  <1>7. NothingYet'
    <2>. SUFFICES ASSUME NEW q \in Callers PROVE
            /\ pc'[q] \in {"calling", "refunding"} =>
                  cost'[call'[q]] = 0 /\ call'[q] \notin usage'
            /\ pc'[q] = "calling" => hold'[call'[q]].status \in {"pending", "expired"}
            /\ pc'[q] \in {"calling", "refunding", "recording"} => Kind[call'[q]] # "voice"
      BY DEF NothingYet
    <2>1. CASE q = p
      BY <1>3, <2>1
    <2>2. CASE q # p /\ pc[q] = "calling"
      <3>1. call[q] # c
        BY <1>0, <2>2 DEF OneCaller, NothingYet, CallersHold, c
      <3>. QED
        BY <1>0, <1>2, <1>4, <2>2, <3>1 DEF NothingYet, CallersHold
    <2>3. CASE q # p /\ pc[q] # "calling"
      BY <1>0, <1>2, <2>3 DEF NothingYet
    <2>. QED
      BY <2>1, <2>2, <2>3
  <1>8. UsageIsPriced' /\ FreshIsFree'
    BY <1>0, <1>4 DEF UsageIsPriced, FreshIsFree
  <1>9. WorkIsPursued'
    <2>. SUFFICES ASSUME NEW d \in Calls, hold'[d].status \in {"pending", "expired"},
                         cost[d] > 0, d \notin hit
                  PROVE  \E q \in Callers : pc'[q] = "settling" /\ call'[q] = d
      BY <1>0 DEF WorkIsPursued
    <2>1. d # c
      BY <1>4
    <2>2. PICK q \in Callers : pc[q] = "settling" /\ call[q] = d
      BY <1>4 DEF WorkIsPursued
    <2>3. q # p
      BY <2>1, <2>2 DEF c
    <2>. QED
      BY <1>2, <2>2, <2>3
  <1>. QED
    BY <1>4, <1>5, <1>6, <1>7, <1>8, <1>9

LEMMA RecoverStep ==
    ASSUME Inv, TypeOK', NEW r \in Reapers, NEW c \in Calls, Recover(r, c)
    PROVE  Inv'
  <1>. USE DEF Inv
  <1>0. /\ SettleHold(c, cost[c]) /\ c \in usage
        /\ UNCHANGED <<opened, cost, usage, pc, call, hit>>
    BY DEF Recover, UsageIsPriced, caller
  <1>1. /\ ChargedForWork' /\ HoldsAreOpened' /\ ReleasedIsFree' /\ VoiceIsPriced'
        /\ \A d \in Calls : hold'[d].status # "none" <=> hold[d].status # "none"
        /\ \A d \in Calls : hold'[d].status \in {"pending", "expired"} =>
              hold[d].status \in {"pending", "expired"}
        /\ \A d \in Calls : d # c => hold'[d] = hold[d]
    BY <1>0, HoldCloses
  <1>2. CallersHold' /\ OneCaller' /\ WorkIsPursued'
    BY <1>0, <1>1 DEF CallersHold, OneCaller, WorkIsPursued
  <1>3. NothingYet'
    BY <1>0, <1>1 DEF NothingYet, CallersHold
  <1>4. UsageIsPriced' /\ FreshIsFree'
    BY <1>0, <1>1 DEF UsageIsPriced, FreshIsFree, Recover, Done, TypeOK
  <1>. QED
    BY <1>1, <1>2, <1>3, <1>4

LEMMA ExpireStep ==
    ASSUME Inv, TypeOK', NEW r \in Reapers, NEW c \in Calls, Expire(r, c)
    PROVE  Inv'
  <1>. USE DEF Inv
  <1>0. /\ phase[r] = "expiring"
        /\ UNCHANGED <<opened, cost, usage, pc, call, hit, phase>>
        /\ todo' = [todo EXCEPT ![r] = @ \ {c}]
    BY DEF Expire, Done, caller
  <1>1. /\ \A d \in Calls : d # c => hold'[d] = hold[d]
        /\ \/ hold' = hold
           \/ /\ hold[c].status = "pending"
              /\ hold'[c].status = "expired" /\ hold'[c].amount = 0
    BY RowOperators DEF Expire, StaleHolds, TypeOK
  <1>2. ChargedForWork' /\ HoldsAreOpened' /\ ReleasedIsFree' /\ VoiceIsPriced'
    BY <1>0, <1>1
    DEF ChargedForWork, HoldsAreOpened, ReleasedIsFree, VoiceIsPriced
  <1>3. CallersHold' /\ OneCaller' /\ WorkIsPursued'
    BY <1>0, <1>1 DEF CallersHold, OneCaller, WorkIsPursued
  <1>4. NothingYet'
    BY <1>0, <1>1 DEF NothingYet, CallersHold
  <1>5. UsageIsPriced' /\ FreshIsFree'
    BY <1>0, <1>1 DEF UsageIsPriced, FreshIsFree, TypeOK
  <1>. QED
    BY <1>2, <1>3, <1>4, <1>5

\* A completion or a stream reserves: nobody else can have made its hold.
LEMMA StartCallStep ==
    ASSUME Inv, TypeOK', NEW p \in Callers, NEW c \in Calls, StartCall(p, c)
    PROVE  Inv'
  <1>. USE DEF Inv
  <1>0. /\ pc[p] = "idle" /\ Kind[c] # "voice" /\ hold[c].status = "none"
        /\ opened' = TRUE
        /\ \A d \in Calls : d # c => hold'[d] = hold[d]
        /\ hold' = hold \/ (hold'[c].status = "pending" /\ hold'[c].amount = 0)
        /\ UNCHANGED <<cost, usage, hit, phase, todo>>
        /\ pc \in [Callers -> {"idle", "calling", "settling", "refunding", "recording"}]
        /\ call \in [Callers -> Calls \cup {NoCall}]
    BY Amounts, ReserveEffect DEF StartCall, TypeOK, reaper
  <1>1. UsageIsPriced'
    BY <1>0 DEF UsageIsPriced
  <1>2. CASE hold' = hold
    <2>1. hold'[c].status # "pending"
      BY <1>0, <1>2
    <2>2. UNCHANGED <<pc, call>>
      BY <2>1 DEF StartCall, caller
    <2>. QED
      BY <1>0, <1>1, <1>2, <2>2, Frame
  <1>3. CASE hold'[c].status = "pending" /\ hold'[c].amount = 0
    <2>1. pc' = [pc EXCEPT ![p] = "calling"] /\ call' = [call EXCEPT ![p] = c]
      BY <1>3 DEF StartCall, Goto
    <2>2. cost[c] = 0 /\ c \notin usage
      BY <1>0 DEF FreshIsFree
    <2>3. \A q \in Callers : q # p =>
             pc'[q] = pc[q] /\ call'[q] = call[q] /\ call[q] # c
      BY <1>0, <2>1, ConstantsAssumption DEF CallersHold
    <2>4. pc'[p] = "calling" /\ call'[p] = c
      BY <1>0, <2>1
    <2>5. ChargedForWork' /\ HoldsAreOpened' /\ ReleasedIsFree' /\ VoiceIsPriced'
      BY <1>0, <1>3 DEF ChargedForWork, HoldsAreOpened, ReleasedIsFree, VoiceIsPriced
    <2>6. CallersHold' /\ OneCaller'
      BY <1>0, <1>3, <2>3, <2>4 DEF CallersHold, OneCaller
    <2>7. NothingYet'
      BY <1>0, <1>3, <2>2, <2>3, <2>4 DEF NothingYet, CallersHold
    <2>8. WorkIsPursued'
      BY <1>0, <1>3, <2>2, <2>3, <2>4 DEF WorkIsPursued
    <2>9. FreshIsFree'
      BY <1>0, <1>3 DEF FreshIsFree
    <2>. QED
      BY <1>1, <2>5, <2>6, <2>7, <2>8, <2>9
  <1>. QED
    BY <1>0, <1>2, <1>3

\* A voice unit is priced, and its hold is made or found: its caller is about to settle.
LEMMA StartVoiceStep ==
    ASSUME Inv, TypeOK', NEW p \in Callers, NEW c \in Calls, NEW price \in Costs,
           StartVoice(p, c, price)
    PROVE  Inv'
  <1>. USE DEF Inv
  <1>0. /\ pc[p] = "idle" /\ Kind[c] = "voice" /\ price \in Nat /\ price > 0
        /\ cost[c] \in {0, price}
        /\ UNCHANGED <<usage, hit, phase, todo>>
        /\ pc \in [Callers -> {"idle", "calling", "settling", "refunding", "recording"}]
        /\ call \in [Callers -> Calls \cup {NoCall}]
    BY Amounts DEF StartVoice, TypeOK, reaper
  <1>1. cost'[c] = price /\ \A d \in Calls : d # c => cost'[d] = cost[d]
    BY DEF StartVoice, TypeOK
  <1>2. /\ \A d \in Calls : d # c => hold'[d] = hold[d]
        /\ opened => opened'
        /\ \/ hold' = hold
           \/ /\ hold[c].status = "none" /\ opened' = TRUE
              /\ hold'[c].status = "pending" /\ hold'[c].amount = 0
    <2>1. CASE hold[c].status = "none"
      <3>1. ReserveNew(c, price)
        BY <2>1 DEF StartVoice
      <3>. QED
        BY <1>0, <3>1, ReserveEffect
    <2>2. CASE hold[c].status # "none"
      BY <2>2 DEF StartVoice
    <2>. QED
      BY <2>1, <2>2
  <1>3. hold[c].status # "none" => cost'[c] = cost[c]
    BY <1>0, <1>1 DEF VoiceIsPriced
  <1>4. /\ \A q \in Callers : q # p => pc'[q] = pc[q] /\ call'[q] = call[q]
        /\ IF hold'[c].status = "pending" THEN pc'[p] = "settling" /\ call'[p] = c
           ELSE UNCHANGED <<pc, call>>
    BY <1>0 DEF StartVoice, Goto, caller
  <1>5. ChargedForWork' /\ HoldsAreOpened' /\ ReleasedIsFree'
    <2>1. HoldsAreOpened'
      BY <1>2 DEF HoldsAreOpened
    <2>2. ReleasedIsFree'
      BY <1>1, <1>2, <1>3 DEF ReleasedIsFree
    <2>3. ChargedForWork'
      BY <1>1, <1>2, <1>3 DEF ChargedForWork
    <2>. QED
      BY <2>1, <2>2, <2>3
  <1>6. VoiceIsPriced' /\ FreshIsFree'
    BY <1>0, <1>1, <1>2 DEF VoiceIsPriced, FreshIsFree
  <1>7. UsageIsPriced'
    BY <1>0, <1>1 DEF UsageIsPriced, TypeOK
  <1>8. CallersHold'
    BY <1>0, <1>2, <1>4 DEF CallersHold
  <1>9. OneCaller'
    BY <1>0, <1>4, ConstantsAssumption DEF OneCaller
  <1>10. NothingYet'
    BY <1>0, <1>1, <1>2, <1>4 DEF NothingYet, CallersHold
  <1>11. WorkIsPursued'
    <2>. SUFFICES ASSUME NEW d \in Calls, hold'[d].status \in {"pending", "expired"},
                         cost'[d] > 0, d \notin hit
                  PROVE  \E q \in Callers : pc'[q] = "settling" /\ call'[q] = d
      BY <1>0 DEF WorkIsPursued
    <2>1. CASE d = c /\ hold'[c].status = "pending"
      BY <1>4, <2>1
    <2>2. CASE d # c \/ hold'[c].status # "pending"
      <3>1. hold'[d] = hold[d] /\ cost'[d] = cost[d]
        BY <1>1, <1>2, <1>3, <2>2
      <3>2. PICK q \in Callers : pc[q] = "settling" /\ call[q] = d
        BY <3>1 DEF WorkIsPursued
      <3>3. q # p
        BY <1>0, <3>2
      <3>. QED
        BY <1>4, <3>2, <3>3
    <2>. QED
      BY <2>1, <2>2
  <1>. QED
    BY <1>5, <1>6, <1>7, <1>8, <1>9, <1>10, <1>11

\* The provider answers: the work has a price, and its caller is about to settle.
LEMMA ProviderReturnsStep ==
    ASSUME Inv, TypeOK', NEW p \in Callers, NEW price \in Costs, ProviderReturns(p, price)
    PROVE  Inv'
  <1>. USE DEF Inv
  <1>. DEFINE c == call[p]
  <1>0. /\ pc[p] = "calling" /\ price \in Nat
        /\ c \in Calls /\ Kind[c] # "voice" /\ c \notin usage
        /\ hold[c].status \in {"pending", "expired"}
        /\ UNCHANGED <<opened, hold, usage, call, hit, phase, todo>>
        /\ pc \in [Callers -> {"idle", "calling", "settling", "refunding", "recording"}]
    BY Amounts DEF ProviderReturns, CallersHold, NothingYet, TypeOK, reaper
  <1>1. cost'[c] = price /\ \A d \in Calls : d # c => cost'[d] = cost[d]
    BY <1>0 DEF ProviderReturns, TypeOK
  <1>2. pc'[p] = "settling" /\ \A q \in Callers : q # p => pc'[q] = pc[q]
    BY <1>0 DEF ProviderReturns, Goto
  <1>3. ChargedForWork' /\ HoldsAreOpened' /\ ReleasedIsFree'
    BY <1>0, <1>1 DEF ChargedForWork, HoldsAreOpened, ReleasedIsFree
  <1>4. VoiceIsPriced' /\ FreshIsFree' /\ UsageIsPriced'
    BY <1>0, <1>1 DEF VoiceIsPriced, FreshIsFree, UsageIsPriced, TypeOK
  <1>5. CallersHold' /\ OneCaller'
    BY <1>0, <1>2 DEF CallersHold, OneCaller
  <1>6. NothingYet'
    <2>1. \A q \in Callers : q # p => call[q] # c
      BY <1>0 DEF OneCaller
    <2>. QED
      BY <1>0, <1>1, <1>2, <2>1 DEF NothingYet, CallersHold
  <1>7. WorkIsPursued'
    <2>. SUFFICES ASSUME NEW d \in Calls, hold[d].status \in {"pending", "expired"},
                         cost'[d] > 0, d \notin hit
                  PROVE  \E q \in Callers : pc'[q] = "settling" /\ call[q] = d
      BY <1>0 DEF WorkIsPursued
    <2>1. CASE d = c
      BY <1>2, <2>1
    <2>2. CASE d # c
      <3>1. PICK q \in Callers : pc[q] = "settling" /\ call[q] = d
        BY <1>1, <2>2 DEF WorkIsPursued
      <3>. QED
        BY <1>0, <1>2, <3>1
    <2>. QED
      BY <2>1, <2>2
  <1>. QED
    BY <1>3, <1>4, <1>5, <1>6, <1>7

LEMMA ProviderFailsStep ==
    ASSUME Inv, TypeOK', NEW p \in Callers, ProviderFails(p)
    PROVE  Inv'
  <1>. USE DEF Inv
  <1>0. /\ pc[p] = "calling"
        /\ UNCHANGED <<opened, hold, cost, usage, call, hit, phase, todo>>
        /\ pc \in [Callers -> {"idle", "calling", "settling", "refunding", "recording"}]
    BY DEF ProviderFails, TypeOK, reaper
  <1>1. pc'[p] = "refunding" /\ \A q \in Callers : q # p => pc'[q] = pc[q]
    BY <1>0 DEF ProviderFails, Goto
  <1>2. ChargedForWork' /\ HoldsAreOpened' /\ ReleasedIsFree' /\ VoiceIsPriced'
    BY <1>0 DEF ChargedForWork, HoldsAreOpened, ReleasedIsFree, VoiceIsPriced
  <1>3. FreshIsFree' /\ UsageIsPriced' /\ CallersHold' /\ OneCaller'
    BY <1>0, <1>1 DEF FreshIsFree, UsageIsPriced, CallersHold, OneCaller
  <1>4. NothingYet'
    BY <1>0, <1>1 DEF NothingYet
  <1>5. WorkIsPursued'
    <2>. SUFFICES ASSUME NEW d \in Calls, hold[d].status \in {"pending", "expired"},
                         cost[d] > 0, d \notin hit
                  PROVE  \E q \in Callers : pc'[q] = "settling" /\ call[q] = d
      BY <1>0 DEF WorkIsPursued
    <2>1. PICK q \in Callers : pc[q] = "settling" /\ call[q] = d
      BY DEF WorkIsPursued
    <2>2. q # p
      BY <1>0, <2>1
    <2>. QED
      BY <1>1, <2>1, <2>2
  <1>. QED
    BY <1>2, <1>3, <1>4, <1>5

LEMMA InvStep == Inv /\ [Next]_vars => Inv'
  <1>. SUFFICES ASSUME Inv, [Next]_vars PROVE Inv'
    OBVIOUS
  <1>. USE DEF caller, reaper, grants
  <1>0. TypeOK'
    BY TypeStep DEF Inv
  <1>1. ASSUME UNCHANGED <<hold, cost, usage, pc, call, hit, phase, todo>>, opened => opened'
        PROVE  Inv'
    <2>1. UsageIsPriced'
      BY <1>1 DEF Inv, UsageIsPriced
    <2>. QED
      BY <1>0, <1>1, <2>1, Frame
  <1>2. CASE Open
    BY <1>1, <1>2 DEF Open
  <1>3. CASE GrantStep
    BY <1>1, <1>3 DEF GrantStep, GrantCommits, AskGrant, GrantPlan
  <1>4. ASSUME NEW c \in Calls, HoldLapses(c) PROVE Inv'
    BY <1>1, <1>4 DEF HoldLapses
  <1>5. ASSUME NEW p \in Callers, CallerStep(p) PROVE Inv'
    <2>1. ASSUME RecordUsage(p) PROVE Inv'
      <3>1. cost[call[p]] \in Nat /\ Kind[call[p]] # "voice"
        BY <2>1, Amounts DEF RecordUsage, Inv, CallersHold, NothingYet
      <3>. QED
        BY <1>0, <2>1, <3>1, CallerLeaves DEF RecordUsage
    <2>. QED
      BY <1>0, <1>5, <2>1, StartCallStep, StartVoiceStep, ProviderReturnsStep,
         ProviderFailsStep, SettleStep
      DEF CallerStep
  <1>6. ASSUME NEW r \in Reapers, ReaperStep(r) PROVE Inv'
    <2>1. ASSUME ScanPriced(r) \/ ScanExpired(r) \/ EndPass(r) PROVE Inv'
      <3>1. UNCHANGED <<opened, hold, cost, usage, pc, call, hit>>
        BY <2>1 DEF ScanPriced, ScanExpired, EndPass
      <3>2. UsageIsPriced'
        BY <2>1, <3>1
        DEF Inv, UsageIsPriced, ScanPriced, ScanExpired, EndPass, Move, PricedHolds, TypeOK
      <3>. QED
        BY <1>0, <3>1, <3>2, Frame
    <2>. QED
      BY <1>0, <1>6, <2>1, RecoverStep, ExpireStep DEF ReaperStep
  <1>7. CASE Mishap
    <2>1. ASSUME NEW p \in Callers, SettleFails(p) \/ UsageLost(p) \/ Crash(p) PROVE Inv'
      <3>1. pc[p] # "idle" /\ UNCHANGED <<opened, hold, cost, usage, phase, todo>>
        BY <2>1 DEF SettleFails, UsageLost, Crash
      <3>2. \/ Leave(p)
            \/ Goto(p, "recording") /\ UNCHANGED call /\ Kind[call[p]] # "voice"
        BY <2>1 DEF SettleFails, UsageLost, Crash, AfterSettle
      <3>3. hit \subseteq hit' /\ (pc[p] = "settling" => call[p] \in hit')
        BY <2>1 DEF SettleFails, UsageLost, Crash, Hit
      <3>. QED
        BY <1>0, <3>1, <3>2, <3>3, CallerLeaves
    <2>2. ASSUME NEW r \in Reapers, ReaperFails(r) \/ \E c \in Calls : ReaperSkips(r, c)
          PROVE  Inv'
      <3>1. UNCHANGED <<opened, hold, cost, usage, pc, call, hit>>
        BY <2>2 DEF ReaperFails, ReaperSkips
      <3>2. UsageIsPriced'
        BY <2>2, <3>1 DEF Inv, UsageIsPriced, ReaperFails, ReaperSkips, Move, Done, TypeOK
      <3>. QED
        BY <1>0, <3>1, <3>2, Frame
    <2>. QED
      BY <1>7, <2>1, <2>2 DEF Mishap
  <1>8. CASE UNCHANGED vars
    BY <1>1, <1>8 DEF vars
  <1>. QED
    BY <1>2, <1>3, <1>4, <1>5, <1>6, <1>7, <1>8 DEF Next

-----------------------------------------------------------------------------
(* Theorems                                                                *)

\* Every reachable state is well typed.
THEOREM LedgerTypeCorrect == Spec => []TypeOK
  <1>1. Inv => TypeOK
    BY DEF Inv
  <1>. QED
    BY <1>1, InvInit, InvStep, PTL DEF Spec

\* Whichever of the callers and reapers closes a hold, the charge is the cost of the
\* work, and a hold that is not settled charges nothing.
THEOREM ChargesAreCosts == Spec => []ChargedForWork
  <1>1. Inv => ChargedForWork
    BY DEF Inv
  <1>. QED
    BY <1>1, InvInit, InvStep, PTL DEF Spec

\* Work is refunded for good only after a crash or a failed settle.
THEOREM OnlyFaultsLosePay == Spec => []UnpaidIsLoss
  <1>1. Inv => UnpaidIsLoss
    <2>. SUFFICES ASSUME Inv, NEW c \in Calls, cost[c] > 0, c \notin hit,
                         hold[c].status \in {"expired", "released"}, Unattended(c)
                  PROVE  FALSE
      BY DEF UnpaidIsLoss
    <2>1. cost[c] # 0
      BY Amounts DEF Inv
    <2>2. hold[c].status = "expired"
      BY <2>1 DEF Inv, ReleasedIsFree
    <2>3. PICK p \in Callers : pc[p] = "settling" /\ call[p] = c
      BY <2>2 DEF Inv, WorkIsPursued
    <2>. QED
      BY <2>3 DEF Unattended, At
  <1>. QED
    BY <1>1, InvInit, InvStep, PTL DEF Spec

-----------------------------------------------------------------------------
(* Double entry                                                            *)

\* A settle, by whomever, is one entry and leaves closed rows alone.
LEMMA SettleIsEntry ==
    ASSUME Inv, NEW c \in Calls, NEW actual \in Nat, SettleHold(c, actual),
           hold[c].status # "none", UNCHANGED <<opened, granted, posted>>
    PROVE  Entry /\ ClosedStays
  <1>1. /\ \A d \in Calls : d # c => hold'[d] = hold[d]
        /\ wallet' - wallet = Taken(hold[c]) - Taken(hold'[c])
    BY SettleEffect DEF Inv
  <1>2. opened
    BY DEF Inv, HoldsAreOpened
  <1>3. Entry
    BY <1>1, <1>2 DEF Entry, Balance
  <1>4. ClosedStays
    BY <1>1 DEF ClosedStays, SettleHold, Chargeable
  <1>. QED
    BY <1>3, <1>4

\* So is a reserve: it pays for the hold it makes.
LEMMA ReserveIsEntry ==
    ASSUME Inv, NEW c \in Calls, NEW amt \in Nat, ReserveNew(c, amt),
           UNCHANGED <<granted, posted>>
    PROVE  Entry /\ ClosedStays
  <1>1. /\ hold[c].status = "none" /\ opened' = TRUE
        /\ \A d \in Calls : d # c => hold'[d] = hold[d]
        /\ wallet' - Balance = Taken(hold[c]) - Taken(hold'[c])
    BY ReserveEffect DEF Inv
  <1>2. Balance' = wallet'
    BY <1>1 DEF Balance
  <1>. QED
    BY <1>1, <1>2 DEF Entry, ClosedStays

LEMMA EntryStep == Inv /\ [Next]_vars => [Entry]_vars /\ [ClosedStays]_vars
  <1>. SUFFICES ASSUME Inv, Next PROVE Entry /\ ClosedStays
    BY DEF vars
  <1>. USE DEF caller, reaper, grants
  <1>1. ASSUME UNCHANGED <<opened, wallet, hold, granted, posted>>
        PROVE  Entry /\ ClosedStays
    BY <1>1 DEF Entry, ClosedStays, Balance
  <1>2. CASE Open
    BY <1>2 DEF Open, Entry, ClosedStays, Balance
  <1>3. CASE GrantStep
    <2>1. ASSUME NEW o \in Operators, GrantCommits(o) PROVE Entry /\ ClosedStays
      <3>1. UNCHANGED <<hold, posted>>
        BY <2>1 DEF GrantCommits
      <3>2. CASE ask[o] \in granted
        BY <1>1, <2>1, <3>1, <3>2 DEF GrantCommits
      <3>3. CASE ask[o] \notin granted
        <4>1. ask[o] \in Keys \ granted
          BY <2>1, <3>3 DEF GrantCommits, Inv, TypeOK
        <4>2. granted' = granted \cup {ask[o]} /\ wallet' = Balance + Bonus /\ opened' = TRUE
          BY <2>1, <3>3 DEF GrantCommits
        <4>3. Balance' = Balance + Bonus
          BY <4>2 DEF Balance
        <4>. QED
          BY <3>1, <4>1, <4>2, <4>3 DEF Entry, ClosedStays
      <3>. QED
        BY <3>2, <3>3
    <2>2. ASSUME NEW new \in {"free", "pro"}, NEW add \in {0, Bonus}, GrantPlan(new, add)
          PROVE  Entry /\ ClosedStays
      <3>. DEFINE total == add + (IF new = plan THEN 0 ELSE Included[new])
      <3>1. total \in Int /\ Balance \in Int /\ posted \in Int
        <4>1. Included[new] \in Nat /\ add \in Nat
          BY ConstantsAssumption
        <4>. QED
          BY <4>1, Amounts DEF Inv, TypeOK
      <3>2. /\ Balance' = Balance + total /\ posted' = posted + total
            /\ UNCHANGED <<hold, granted>>
        BY <2>2 DEF GrantPlan, Balance
      <3>. HIDE DEF total
      <3>3. Balance' - Balance = posted' - posted
        BY <3>1, <3>2
      <3>. QED
        BY <3>2, <3>3 DEF Entry, ClosedStays
    <2>. QED
      BY <1>1, <1>3, <2>1, <2>2 DEF GrantStep, AskGrant
  <1>4. ASSUME NEW c \in Calls, HoldLapses(c) PROVE Entry /\ ClosedStays
    BY <1>1, <1>4 DEF HoldLapses
  <1>5. ASSUME NEW p \in Callers, CallerStep(p) PROVE Entry /\ ClosedStays
    <2>1. ASSUME NEW c \in Calls, StartCall(p, c) PROVE Entry /\ ClosedStays
      BY <2>1, Amounts, ReserveIsEntry DEF StartCall
    <2>2. ASSUME NEW c \in Calls, NEW price \in Costs, StartVoice(p, c, price)
          PROVE  Entry /\ ClosedStays
      <3>1. CASE ReserveNew(c, price)
        BY <2>2, <3>1, Amounts, ReserveIsEntry DEF StartVoice
      <3>2. CASE UNCHANGED <<opened, wallet, hold>>
        BY <1>1, <2>2, <3>2 DEF StartVoice
      <3>. QED
        BY <2>2, <3>1, <3>2 DEF StartVoice
    <2>3. ASSUME Settle(p) PROVE Entry /\ ClosedStays
      <3>1. call[p] \in Calls /\ hold[call[p]].status # "none"
        BY <2>3 DEF Settle, Inv, CallersHold
      <3>2. cost[call[p]] \in Nat
        BY <3>1, Amounts DEF Inv
      <3>3. PICK actual \in Nat : SettleHold(call[p], actual)
        BY <2>3, <3>2 DEF Settle
      <3>. QED
        BY <2>3, <3>1, <3>3, SettleIsEntry DEF Settle
    <2>. QED
      BY <1>1, <1>5, <2>1, <2>2, <2>3
      DEF CallerStep, ProviderReturns, ProviderFails, RecordUsage
  <1>6. ASSUME NEW r \in Reapers, ReaperStep(r) PROVE Entry /\ ClosedStays
    <2>1. ASSUME NEW c \in Calls, Recover(r, c) PROVE Entry /\ ClosedStays
      <3>1. c \in usage /\ cost[c] \in Nat
        BY <2>1, Amounts DEF Recover, Inv, UsageIsPriced
      <3>2. hold[c].status # "none"
        BY <3>1 DEF Inv, FreshIsFree
      <3>. QED
        BY <2>1, <3>1, <3>2, SettleIsEntry DEF Recover
    <2>2. ASSUME NEW c \in Calls, Expire(r, c) PROVE Entry /\ ClosedStays
      <3>1. CASE c \in StaleHolds
        <4>1. hold[c] \in Holds /\ hold[c].status = "pending" /\ wallet \in Int /\ opened
          BY <3>1 DEF StaleHolds, Inv, TypeOK, HoldsAreOpened
        <4>2. /\ wallet' = wallet + hold[c].reserved
              /\ hold' = [hold EXCEPT ![c] = Expired(@)]
              /\ UNCHANGED <<opened, granted, posted>>
          BY <2>2, <3>1 DEF Expire
        <4>3. /\ hold'[c].status = "expired" /\ hold'[c].amount = 0
              /\ \A d \in Calls : d # c => hold'[d] = hold[d]
          BY <4>1, <4>2, RowOperators DEF Inv, TypeOK
        <4>4. Taken(hold[c]) = hold[c].reserved /\ Taken(hold'[c]) = 0
          <5>1. Taken(hold[c]) = hold[c].reserved
            BY <4>1 DEF Taken
          <5>2. hold'[c] = Expired(hold[c])
            BY <4>1, <4>2 DEF Inv, TypeOK
          <5>. QED
            BY <4>1, <5>1, <5>2, RowOperators
        <4>5. Balance' - Balance = Taken(hold[c]) - Taken(hold'[c])
          BY <4>1, <4>2, <4>4 DEF Balance, Holds
        <4>6. ClosedStays
          BY <4>1, <4>3 DEF ClosedStays
        <4>. QED
          BY <4>2, <4>3, <4>5, <4>6 DEF Entry
      <3>2. CASE c \notin StaleHolds
        BY <1>1, <2>2, <3>2 DEF Expire
      <3>. QED
        BY <3>1, <3>2
    <2>. QED
      BY <1>1, <1>6, <2>1, <2>2 DEF ReaperStep, ScanPriced, ScanExpired, EndPass
  <1>7. CASE Mishap
    BY <1>1, <1>7 DEF Mishap, SettleFails, UsageLost, Crash, ReaperFails, ReaperSkips
  <1>. QED
    BY <1>2, <1>3, <1>4, <1>5, <1>6, <1>7 DEF Next

\* Double entry: no step moves the wallet by anything but what it changes in one row.
THEOREM DoubleEntry == Spec => LedgerExplainsWallet
  BY InvInit, InvStep, EntryStep, PTL DEF Spec, LedgerExplainsWallet

\* A hold is finalized once, whoever comes late.
THEOREM FinalizedOnce == Spec => SettledIsFinal
  BY InvInit, InvStep, EntryStep, PTL DEF Spec, SettledIsFinal

-----------------------------------------------------------------------------
(* Sums                                                                    *)

\* Every property of the subsets of a finite set that fails for one fails for a least one.
LEMMA LeastSubset ==
    ASSUME NEW S, IsFiniteSet(S), NEW failing \in SUBSET (SUBSET S), failing # {}
    PROVE  \E s \in failing : \A t \in failing : t \subseteq s => t = s
  <1>1. IsWellFoundedOn(StrictSubsetOrdering(S), SUBSET S)
    BY FS_StrictSubsetOrderingWellFounded, FS_FiniteSubsetsOfFinite
  <1>2. \E s \in failing : \A t \in failing : ~ (<<t, s>> \in StrictSubsetOrdering(S))
    BY <1>1, WFMin, Zenon
  <1>. QED
    BY <1>2 DEF StrictSubsetOrdering

\* Sums[s] adds up g over s, in the order in which the elements are chosen.
Some(s) == CHOOSE x \in s : TRUE
AddsUp(S, g, h) ==
    \A s \in SUBSET S : h[s] = IF s = {} THEN 0 ELSE g[Some(s)] + h[s \ {Some(s)}]
Sums(S, g) == {h \in [SUBSET S -> Int] : AddsUp(S, g, h)}

LEMMA SumsAgree ==
    ASSUME NEW S, IsFiniteSet(S), NEW g, NEW h, NEW k,
           AddsUp(S, g, h), AddsUp(S, g, k)
    PROVE  \A s \in SUBSET S : h[s] = k[s]
  <1>. DEFINE failing == {s \in SUBSET S : h[s] # k[s]}
  <1>. SUFFICES ASSUME failing # {}
                PROVE  FALSE
    OBVIOUS
  <1>0. failing \in SUBSET (SUBSET S)
    OBVIOUS
  <1>. HIDE DEF failing
  <1>1. PICK s \in failing : \A t \in failing : t \subseteq s => t = s
    BY <1>0, LeastSubset
  <1>. USE DEF failing
  <1>2. s # {}
    BY <1>1 DEF AddsUp
  <1>3. Some(s) \in s
    BY <1>2 DEF Some
  <1>4. h[s \ {Some(s)}] = k[s \ {Some(s)}]
    BY <1>1, <1>3
  <1>. QED
    BY <1>1, <1>2, <1>4 DEF AddsUp

LEMMA SumsNest ==
    ASSUME NEW S, IsFiniteSet(S), NEW g, NEW T \in SUBSET S,
           NEW h \in Sums(S, g), NEW k \in Sums(T, g)
    PROVE  h[T] = k[T]
  <1>1. IsFiniteSet(T)
    BY FS_Subset
  <1>2. AddsUp(T, g, h) /\ AddsUp(T, g, k)
    BY DEF Sums, AddsUp
  <1>. QED
    BY <1>1, <1>2, SumsAgree

LEMMA SumsExist ==
    ASSUME NEW S, IsFiniteSet(S), NEW g \in [S -> Int]
    PROVE  Sums(S, g) # {}
  <1>. DEFINE failing == {T \in SUBSET S : Sums(T, g) = {}}
  <1>. SUFFICES ASSUME failing # {}
                PROVE  FALSE
    OBVIOUS
  <1>0. failing \in SUBSET (SUBSET S)
    OBVIOUS
  <1>. HIDE DEF failing
  <1>1. PICK T \in failing : \A U \in failing : U \subseteq T => U = T
    BY <1>0, LeastSubset
  <1>. USE DEF failing
  <1>2. PICK v : v = [U \in SUBSET T |-> (CHOOSE h \in Sums(U, g) : TRUE)[U]]
    OBVIOUS
  <1>3. PICK sum : sum = [s \in SUBSET T |->
                            IF s = {} THEN 0 ELSE g[Some(s)] + v[s \ {Some(s)}]]
    OBVIOUS
  <1>4. \A s \in SUBSET T : s # {} => Some(s) \in s
    BY DEF Some
  <1>5. ASSUME NEW U \in SUBSET T, U # T
        PROVE  \E h \in Sums(U, g) : v[U] = h[U]
    BY <1>1, <1>2, <1>5
  <1>6. ASSUME NEW U \in SUBSET T, U # T
        PROVE  v[U] \in Int /\ v[U] = IF U = {} THEN 0 ELSE g[Some(U)] + v[U \ {Some(U)}]
    <2>1. PICK h \in Sums(U, g) : v[U] = h[U]
      BY <1>5, <1>6
    <2>2. ASSUME U # {}
          PROVE  h[U \ {Some(U)}] = v[U \ {Some(U)}]
      <3>1. PICK W : W = U \ {Some(U)}
        OBVIOUS
      <3>2. W \in SUBSET T /\ W # T /\ W \in SUBSET U
        BY <1>4, <1>6, <2>2, <3>1
      <3>3. PICK k \in Sums(W, g) : v[W] = k[W]
        BY <1>5, <3>2
      <3>4. IsFiniteSet(U)
        BY FS_Subset
      <3>. QED
        BY <3>1, <3>2, <3>3, <3>4, SumsNest
    <2>. QED
      BY <2>1, <2>2 DEF Sums, AddsUp
  <1>7. ASSUME NEW s \in SUBSET T, s # {}
        PROVE  /\ g[Some(s)] \in Int /\ v[s \ {Some(s)}] \in Int
               /\ v[s \ {Some(s)}] = sum[s \ {Some(s)}]
    <2>1. PICK U : U = s \ {Some(s)}
      OBVIOUS
    <2>2. U \in SUBSET T /\ U # T
      BY <1>4, <1>7, <2>1
    <2>3. v[U] \in Int /\ v[U] = sum[U]
      BY <1>3, <1>6, <2>2
    <2>. QED
      BY <1>4, <1>7, <2>1, <2>3
  <1>8. sum \in [SUBSET T -> Int]
    <2>1. ASSUME NEW s \in SUBSET T
          PROVE  (IF s = {} THEN 0 ELSE g[Some(s)] + v[s \ {Some(s)}]) \in Int
      <3>1. CASE s = {}
        BY <3>1
      <3>2. CASE s # {}
        <4>1. g[Some(s)] \in Int /\ v[s \ {Some(s)}] \in Int
          BY <1>7, <3>2
        <4>. QED
          BY <3>2, <4>1
      <3>. QED
        BY <3>1, <3>2
    <2>. QED
      BY <1>3, <2>1
  <1>9. \A s \in SUBSET T : sum[s] = IF s = {} THEN 0 ELSE g[Some(s)] + sum[s \ {Some(s)}]
    BY <1>3, <1>7
  <1>. QED
    BY <1>1, <1>8, <1>9 DEF Sums, AddsUp

\* What one summand contributes.
LEMMA OneSummand ==
    ASSUME NEW S, IsFiniteSet(S), NEW c \in S,
           NEW f \in [S -> Int], NEW g \in [S -> Int], \A d \in S \ {c} : f[d] = g[d],
           NEW h \in Sums(S, f), NEW k \in Sums(S, g)
    PROVE  k[S] = h[S] + g[c] - f[c]
  <1>. DEFINE failing ==
          {s \in SUBSET S : k[s] # h[s] + (IF c \in s THEN g[c] - f[c] ELSE 0)}
  <1>. SUFFICES ASSUME failing # {}
                PROVE  FALSE
    BY DEF Sums, AddsUp
  <1>0. failing \in SUBSET (SUBSET S)
    OBVIOUS
  <1>. HIDE DEF failing
  <1>1. PICK s \in failing : \A t \in failing : t \subseteq s => t = s
    BY <1>0, LeastSubset
  <1>. USE DEF failing
  <1>2. s # {}
    <2>. SUFFICES ASSUME s = {}
                  PROVE  FALSE
      OBVIOUS
    <2>1. h[s] = 0 /\ k[s] = 0
      BY <1>1 DEF Sums, AddsUp
    <2>. QED
      BY <1>1, <2>1
  <1>3. Some(s) \in s
    BY <1>2 DEF Some
  <1>. DEFINE t == s \ {Some(s)}
  <1>4. k[t] = h[t] + (IF c \in t THEN g[c] - f[c] ELSE 0)
    BY <1>1, <1>3
  <1>5. /\ h[s] = f[Some(s)] + h[t] /\ k[s] = g[Some(s)] + k[t]
        /\ h[s] \in Int /\ k[s] \in Int /\ h[t] \in Int /\ k[t] \in Int
    BY <1>2 DEF Sums, AddsUp
  <1>6. CASE Some(s) = c
    BY <1>1, <1>3, <1>4, <1>5, <1>6
  <1>7. CASE Some(s) # c
    BY <1>1, <1>3, <1>4, <1>5, <1>7
  <1>. QED
    BY <1>6, <1>7

LEMMA SumIsNatural ==
    ASSUME NEW S, IsFiniteSet(S), NEW g \in [S -> Nat], NEW h \in Sums(S, g)
    PROVE  h[S] \in Nat
  <1>. DEFINE failing == {s \in SUBSET S : h[s] \notin Nat}
  <1>. SUFFICES ASSUME failing # {}
                PROVE  FALSE
    OBVIOUS
  <1>0. failing \in SUBSET (SUBSET S)
    OBVIOUS
  <1>. HIDE DEF failing
  <1>1. PICK s \in failing : \A t \in failing : t \subseteq s => t = s
    BY <1>0, LeastSubset
  <1>. USE DEF failing
  <1>2. s # {}
    <2>. SUFFICES ASSUME s = {}
                  PROVE  FALSE
      OBVIOUS
    <2>1. h[s] = 0
      BY <1>1 DEF Sums, AddsUp
    <2>. QED
      BY <1>1, <2>1
  <1>3. Some(s) \in s
    BY <1>2 DEF Some
  <1>4. h[s \ {Some(s)}] \in Nat
    BY <1>1, <1>3
  <1>5. h[s] = g[Some(s)] + h[s \ {Some(s)}]
    BY <1>2 DEF Sums, AddsUp
  <1>. QED
    BY <1>1, <1>3, <1>4, <1>5

LEMMA TotalIsSum ==
    ASSUME IsFiniteSet(Calls),
           NEW g \in [Calls -> Int], \A c \in Calls : g[c] = Overage(c),
           NEW h \in Sums(Calls, g)
    PROVE  Total(Overage) = h[Calls]
  <1>. DEFINE Iterates(k) ==
          k = [s \in SUBSET Calls |->
                 IF s = {} THEN 0 ELSE Overage(Some(s)) + k[s \ {Some(s)}]]
  <1>1. Total(Overage) = (CHOOSE k : Iterates(k))[Calls]
    BY Zenon DEF Total, MapThenSumSet, MapThenFoldSet, Some
  <1>2. \A s \in SUBSET Calls : s # {} => Some(s) \in Calls
    BY DEF Some
  <1>3. Iterates(h)
    BY <1>2 DEF Sums, AddsUp
  <1>4. PICK k : Iterates(k) /\ Total(Overage) = k[Calls]
    BY <1>1, <1>3
  <1>5. AddsUp(Calls, g, k) /\ AddsUp(Calls, g, h)
    BY <1>2, <1>4 DEF Sums, AddsUp
  <1>. HIDE DEF Iterates
  <1>. QED
    BY <1>4, <1>5, SumsAgree

-----------------------------------------------------------------------------
(* Overdrafts                                                              *)

\* Before the cutover there is no money; the reaper marks what it refunds.
UnopenedIsEmpty == ~opened => wallet = 0
ExpiredIsRefunded == \A c \in Calls : hold[c].status = "expired" => c \in refunded

OverInv == UnopenedIsEmpty /\ ExpiredIsRefunded /\ OverdraftIsOverage

OveragesAreNatural == \A c \in Calls : Overage(c) \in Nat

LEMMA OverageIsNatural == TypeOK => OveragesAreNatural
  <1>. SUFFICES ASSUME TypeOK, NEW c \in Calls PROVE Overage(c) \in Nat
    BY DEF OveragesAreNatural
  <1>1. hold[c].reserved \in Nat /\ cost[c] \in Nat
    BY Amounts DEF TypeOK, Holds
  <1>. QED
    BY <1>1 DEF Overage

\* The total, before and after a step, in terms of its summands.
SumLaw ==
    \A g \in [Calls -> Int] : (\A c \in Calls : g[c] = Overage(c)) =>
        \A h \in Sums(Calls, g) : Total(Overage) = h[Calls]

LEMMA SumLawHolds == SumLaw
  BY ConstantsAssumption, TotalIsSum DEF SumLaw

LEMMA TotalIsNatural == TypeOK => Total(Overage) \in Nat
  <1>. SUFFICES ASSUME TypeOK PROVE Total(Overage) \in Nat
    OBVIOUS
  <1>1. PICK g : g = [c \in Calls |-> Overage(c)]
    OBVIOUS
  <1>2. g \in [Calls -> Nat] /\ g \in [Calls -> Int]
    BY <1>1, OverageIsNatural DEF OveragesAreNatural
  <1>3. PICK h : h \in Sums(Calls, g)
    BY <1>2, ConstantsAssumption, SumsExist
  <1>4. Total(Overage) = h[Calls]
    BY <1>1, <1>2, <1>3, SumLawHolds DEF SumLaw
  <1>5. h[Calls] \in Nat
    BY <1>2, <1>3, ConstantsAssumption, SumIsNatural
  <1>. QED
    BY <1>4, <1>5

LEMMA TotalStays ==
    ASSUME TypeOK, \A d \in Calls : Overage(d)' = Overage(d)
    PROVE  Total(Overage)' = Total(Overage)
  <1>1. PICK g : g = [c \in Calls |-> Overage(c)]
    OBVIOUS
  <1>2. g \in [Calls -> Int]
    BY <1>1, OverageIsNatural DEF OveragesAreNatural
  <1>3. PICK h : h \in Sums(Calls, g)
    BY <1>2, ConstantsAssumption, SumsExist
  <1>4. SumLaw /\ SumLaw'
    BY SumLawHolds, PTL
  <1>5. Total(Overage) = h[Calls]
    BY <1>1, <1>2, <1>3, <1>4 DEF SumLaw
  <1>6. Total(Overage)' = h[Calls]
    BY <1>1, <1>2, <1>3, <1>4 DEF SumLaw
  <1>. QED
    BY <1>5, <1>6

LEMMA TotalMoves ==
    ASSUME TypeOK, TypeOK', NEW c \in Calls, \A d \in Calls \ {c} : Overage(d)' = Overage(d)
    PROVE  /\ Total(Overage) \in Nat /\ Total(Overage)' \in Nat
           /\ Total(Overage)' = Total(Overage) + Overage(c)' - Overage(c)
  <1>1. PICK f : f = [d \in Calls |-> Overage(d)]
    OBVIOUS
  <1>2. PICK g : g = [d \in Calls |-> Overage(d)']
    OBVIOUS
  <1>3. f \in [Calls -> Nat] /\ f \in [Calls -> Int]
    BY <1>1, OverageIsNatural DEF OveragesAreNatural
  <1>4. OveragesAreNatural'
    BY OverageIsNatural, PTL
  <1>5. g \in [Calls -> Nat] /\ g \in [Calls -> Int]
    BY <1>2, <1>4 DEF OveragesAreNatural
  <1>6. PICK h : h \in Sums(Calls, f)
    BY <1>3, ConstantsAssumption, SumsExist
  <1>7. PICK k : k \in Sums(Calls, g)
    BY <1>5, ConstantsAssumption, SumsExist
  <1>8. SumLaw /\ SumLaw'
    BY SumLawHolds, PTL
  <1>9. Total(Overage) = h[Calls] /\ h[Calls] \in Nat
    BY <1>1, <1>3, <1>6, <1>8, ConstantsAssumption, SumIsNatural DEF SumLaw
  <1>10. Total(Overage)' = k[Calls] /\ k[Calls] \in Nat
    <2>1. k[Calls] \in Nat
      BY <1>5, <1>7, ConstantsAssumption, SumIsNatural
    <2>. QED
      BY <1>2, <1>5, <1>7, <1>8, <2>1 DEF SumLaw
  <1>11. \A d \in Calls \ {c} : f[d] = g[d]
    BY <1>1, <1>2
  <1>12. k[Calls] = h[Calls] + g[c] - f[c]
    BY <1>3, <1>5, <1>6, <1>7, <1>11, ConstantsAssumption, OneSummand
  <1>. QED
    BY <1>1, <1>2, <1>9, <1>10, <1>12

\* A step that changes no overage takes no wallet below zero that was not below before.
LEMMA OverdraftStays ==
    ASSUME TypeOK, TypeOK', OverInv, UnopenedIsEmpty',
           \A d \in Calls : Overage(d)' = Overage(d),
           Balance' >= Balance \/ Balance' >= 0
    PROVE  OverdraftIsOverage'
  <1>1. Total(Overage) \in Nat /\ Total(Overage)' = Total(Overage)
    BY TotalIsNatural, TotalStays
  <1>2. wallet \in Int /\ wallet' \in Int /\ OpeningBalance \in Nat
    BY Amounts DEF TypeOK
  <1>3. wallet + Total(Overage) >= 0
    BY DEF OverInv, OverdraftIsOverage
  <1>4. Balance + Total(Overage) >= 0 /\ Balance \in Int
    BY <1>1, <1>2, <1>3 DEF Balance
  <1>5. Balance' = wallet' \/ wallet' = 0
    BY DEF Balance, UnopenedIsEmpty
  <1>6. wallet' + Total(Overage)' >= 0
    <2>1. CASE wallet' = 0
      BY <1>1, <2>1
    <2>2. CASE Balance' = wallet'
      BY <1>1, <1>2, <1>4, <2>2
    <2>. QED
      BY <1>5, <2>1, <2>2
  <1>. QED
    BY <1>6 DEF OverdraftIsOverage

\* What the wallet comes to if the overage of one call is paid back.
PaidBack(c) == wallet + Overage(c)

\* A step on one call in an open ledger pays for what it takes with an overage.
LEMMA OverdraftMoves ==
    ASSUME TypeOK, TypeOK', OverInv, NEW c \in Calls,
           \A d \in Calls \ {c} : Overage(d)' = Overage(d),
           PaidBack(c)' >= PaidBack(c)
    PROVE  OverdraftIsOverage'
  <1>0. Total(Overage) \in Nat /\ Total(Overage)' \in Nat
    BY TotalMoves, Zenon
  <1>1. Total(Overage)' = Total(Overage) + Overage(c)' - Overage(c)
    BY TotalMoves
  <1>2. wallet \in Int /\ wallet' \in Int
    BY DEF TypeOK
  <1>3. wallet + Total(Overage) >= 0
    BY DEF OverInv, OverdraftIsOverage
  <1>4. Overage(c) \in Int
    BY OverageIsNatural DEF OveragesAreNatural
  <1>5. Overage(c)' \in Int
    <2>1. OveragesAreNatural'
      BY OverageIsNatural, PTL
    <2>. QED
      BY <2>1 DEF OveragesAreNatural
  <1>6. PICK o \in Int, oo \in Int, t \in Int, tt \in Int, w \in Int, ww \in Int :
          /\ o = Overage(c) /\ oo = Overage(c)'
          /\ t = Total(Overage) /\ tt = Total(Overage)'
          /\ w = wallet /\ ww = wallet'
    <2>1. Total(Overage) \in Int /\ Total(Overage)' \in Int
      BY <1>0
    <2>. QED
      BY <1>2, <1>4, <1>5, <2>1, Zenon
  <1>7. w + t >= 0 /\ tt = t + oo - o
    BY <1>1, <1>3, <1>6
  <1>8. ww + oo >= w + o
    BY <1>6 DEF PaidBack
  <1>9. ww + tt >= 0
    BY <1>7, <1>8
  <1>. QED
    BY <1>6, <1>9 DEF OverdraftIsOverage

-----------------------------------------------------------------------------
(* ... and the steps                                                       *)

\* The overage of a call changes only with its row, its refund, or what it has cost by
\* the time it is settled.
LEMMA SameOverage ==
    ASSUME NEW d, hold'[d] = hold[d], d \in refunded' <=> d \in refunded,
           hold[d].status = "settled" => cost'[d] = cost[d]
    PROVE  Overage(d)' = Overage(d)
  BY DEF Overage

\* A step that touches no row: the wallet may only grow.
LEMMA OverQuiet ==
    ASSUME Inv, Inv', OverInv, UnopenedIsEmpty', UNCHANGED <<hold, refunded>>,
           \A d \in Calls : hold[d].status = "settled" => cost'[d] = cost[d],
           Balance' >= Balance
    PROVE  OverInv'
  <1>1. \A d \in Calls : Overage(d)' = Overage(d)
    BY SameOverage
  <1>2. ExpiredIsRefunded'
    BY DEF OverInv, ExpiredIsRefunded
  <1>. QED
    BY <1>1, <1>2, OverdraftStays DEF OverInv, Inv

LEMMA OverReserve ==
    ASSUME Inv, Inv', OverInv, NEW c \in Calls, NEW amt \in Nat, ReserveNew(c, amt),
           UNCHANGED refunded,
           \A d \in Calls : hold[d].status = "settled" => cost'[d] = cost[d]
    PROVE  OverInv'
  <1>1. /\ hold[c].status = "none" /\ opened' = TRUE
        /\ \A d \in Calls : d # c => hold'[d] = hold[d]
        /\ hold' = hold \/ hold'[c].status = "pending"
    BY ReserveEffect DEF Inv
  <1>2. UnopenedIsEmpty'
    BY <1>1 DEF UnopenedIsEmpty
  <1>3. ExpiredIsRefunded'
    BY <1>1 DEF OverInv, ExpiredIsRefunded
  <1>4. ASSUME NEW d \in Calls PROVE Overage(d)' = Overage(d)
    <2>1. CASE d = c
      BY <1>1, <2>1 DEF Overage
    <2>2. CASE d # c
      BY <1>1, <2>2, SameOverage
    <2>. QED
      BY <2>1, <2>2
  <1>5. Balance \in Int /\ Balance' = wallet'
    BY <1>1, Amounts DEF Inv, Balance
  <1>6. Balance' >= Balance \/ Balance' >= 0
    BY <1>5 DEF ReserveNew
  <1>. QED
    BY <1>2, <1>3, <1>4, <1>6, OverdraftStays DEF OverInv, Inv

\* settle pays from the hold, unless the reaper has refunded it, and overdraws the wallet
\* for the rest.
LEMMA OverSettle ==
    ASSUME Inv, Inv', OverInv, NEW c \in Calls, hold[c].status # "none",
           NEW actual \in {0, cost[c]}, SettleHold(c, actual),
           UNCHANGED <<opened, cost, refunded>>
    PROVE  OverInv'
  <1>1. opened /\ actual \in Nat /\ cost[c] \in Nat
    BY Amounts DEF Inv, HoldsAreOpened
  <1>2. UnopenedIsEmpty'
    BY <1>1 DEF UnopenedIsEmpty
  <1>3. CASE ~Chargeable(hold[c], actual)
    BY <1>2, <1>3, OverQuiet, Amounts DEF SettleHold, Balance, Inv
  <1>4. CASE Chargeable(hold[c], actual)
    <2>1. /\ hold[c] \in Holds /\ hold[c].reserved \in Nat
          /\ wallet \in Int /\ wallet' \in Int /\ hold \in [Calls -> Holds]
      BY DEF Inv, TypeOK, Holds
    <2>2. /\ wallet' = wallet + Refund(hold[c]) - actual
          /\ hold' = [hold EXCEPT ![c] = Settled(@, actual)]
      BY <1>4 DEF SettleHold
    <2>3. /\ hold'[c].reserved = hold[c].reserved
          /\ hold'[c].status = (IF actual > 0 THEN "settled" ELSE "released")
          /\ \A d \in Calls : d # c => hold'[d] = hold[d]
      BY <2>1, <2>2 DEF Settled, Holds
    <2>4. ExpiredIsRefunded'
      BY <2>3 DEF OverInv, ExpiredIsRefunded
    <2>5. \A d \in Calls \ {c} : Overage(d)' = Overage(d)
      BY <2>3, SameOverage
    <2>6. Overage(c) = 0
      BY <1>4 DEF Overage, Chargeable
    <2>7. wallet' + Overage(c)' >= wallet
      <3>1. CASE hold[c].status = "pending"
        <4>1. wallet' = wallet + hold[c].reserved - actual
          BY <2>2, <3>1 DEF Refund
        <4>2. PICK held \in Nat :
                 /\ held \in {0, hold[c].reserved}
                 /\ Overage(c)' = IF hold'[c].status = "settled" /\ cost[c] > held
                                  THEN cost[c] - held ELSE 0
          BY <2>1, <2>3 DEF Overage
        <4>3. CASE actual = 0
          BY <1>1, <2>1, <2>3, <4>1, <4>2, <4>3
        <4>4. CASE actual > 0
          <5>1. actual = cost[c] /\ hold'[c].status = "settled"
            BY <2>3, <4>4
          <5>. QED
            BY <1>1, <2>1, <4>1, <4>2, <5>1
        <4>. QED
          BY <1>1, <4>3, <4>4
      <3>2. CASE hold[c].status = "expired" /\ actual > 0
        <4>1. wallet' = wallet - actual /\ actual = cost[c] /\ c \in refunded
          BY <1>1, <2>1, <2>2, <3>2 DEF Refund, OverInv, ExpiredIsRefunded
        <4>2. Overage(c)' = actual
          BY <1>1, <2>3, <3>2, <4>1 DEF Overage
        <4>. QED
          BY <1>1, <2>1, <4>1, <4>2
      <3>. QED
        BY <1>4, <3>1, <3>2 DEF Chargeable
    <2>8. PaidBack(c)' >= PaidBack(c)
      BY <2>1, <2>6, <2>7 DEF PaidBack
    <2>9. OverdraftIsOverage'
      BY <2>5, <2>8, OverdraftMoves DEF Inv
    <2>. QED
      BY <1>2, <2>4, <2>9 DEF OverInv
  <1>. QED
    BY <1>3, <1>4

LEMMA OverExpire ==
    ASSUME Inv, Inv', OverInv, NEW r \in Reapers, NEW c \in Calls, Expire(r, c),
           c \in StaleHolds
    PROVE  OverInv'
  <1>1. /\ hold[c].status = "pending" /\ hold[c] \in Holds /\ hold[c].reserved \in Nat
        /\ wallet \in Int /\ wallet' = wallet + hold[c].reserved
        /\ hold' = [hold EXCEPT ![c] = Expired(@)] /\ hold \in [Calls -> Holds]
        /\ refunded' = refunded \cup {c} /\ UNCHANGED <<opened, cost>>
    BY DEF Expire, StaleHolds, Inv, TypeOK, Holds
  <1>2. hold'[c].status = "expired" /\ \A d \in Calls : d # c => hold'[d] = hold[d]
    BY <1>1, RowOperators
  <1>3. UnopenedIsEmpty' /\ ExpiredIsRefunded'
    BY <1>1, <1>2 DEF Inv, HoldsAreOpened, UnopenedIsEmpty, OverInv, ExpiredIsRefunded
  <1>4. ASSUME NEW d \in Calls PROVE Overage(d)' = Overage(d)
    <2>1. CASE d = c
      BY <1>1, <1>2, <2>1 DEF Overage
    <2>2. CASE d # c
      BY <1>1, <1>2, <2>2, SameOverage
    <2>. QED
      BY <2>1, <2>2
  <1>5. Balance' >= Balance
    BY <1>1 DEF Balance, Inv, HoldsAreOpened
  <1>. QED
    BY <1>3, <1>4, <1>5, OverdraftStays DEF OverInv, Inv

LEMMA OverInvInit == Init => OverInv
  <1>. SUFFICES ASSUME Init PROVE OverInv
    OBVIOUS
  <1>1. wallet = 0 /\ \A c \in Calls : hold[c].status = "none"
    BY DEF Init, NoHold
  <1>2. Total(Overage) \in Nat
    BY TypeInit, TotalIsNatural
  <1>. QED
    BY <1>1, <1>2 DEF OverInv, UnopenedIsEmpty, ExpiredIsRefunded, OverdraftIsOverage

LEMMA OverInvStep == Inv /\ Inv' /\ OverInv /\ [Next]_vars => OverInv'
  <1>. SUFFICES ASSUME Inv, Inv', OverInv, [Next]_vars PROVE OverInv'
    OBVIOUS
  <1>. USE DEF caller, reaper, grants
  <1>0. OpeningBalance \in Nat /\ Balance \in Int /\ wallet \in Int
    BY Amounts DEF Inv, TypeOK
  <1>1. ASSUME UNCHANGED <<opened, wallet, hold, refunded, cost>> PROVE OverInv'
    <2>1. Balance' = Balance /\ UnopenedIsEmpty'
      BY <1>1 DEF Balance, OverInv, UnopenedIsEmpty
    <2>. QED
      BY <1>0, <1>1, <2>1, OverQuiet
  <1>2. ASSUME opened' = TRUE, NEW add \in Nat, wallet' = Balance + add,
               UNCHANGED <<hold, refunded, cost>>
        PROVE  OverInv'
    <2>1. Balance' = Balance + add /\ UnopenedIsEmpty'
      BY <1>2 DEF Balance, UnopenedIsEmpty
    <2>2. Balance' >= Balance
      BY <1>0, <1>2, <2>1
    <2>. QED
      BY <1>2, <2>1, <2>2, OverQuiet
  <1>3. CASE Open
    <2>1. wallet' = Balance + 0
      BY <1>0, <1>3 DEF Open, Balance
    <2>. QED
      BY <1>2, <1>3, <2>1 DEF Open
  <1>4. CASE GrantStep
    <2>1. ASSUME NEW o \in Operators, GrantCommits(o) PROVE OverInv'
      <3>1. UNCHANGED <<hold, refunded, cost>> /\ Bonus \in Nat
        BY <2>1, ConstantsAssumption DEF GrantCommits
      <3>. QED
        BY <1>1, <1>2, <2>1, <3>1 DEF GrantCommits
    <2>2. ASSUME NEW new \in {"free", "pro"}, NEW add \in {0, Bonus}, GrantPlan(new, add)
          PROVE  OverInv'
      <3>. DEFINE total == add + (IF new = plan THEN 0 ELSE Included[new])
      <3>1. total \in Nat
        <4>1. Included[new] \in Nat /\ add \in Nat
          BY ConstantsAssumption
        <4>. QED
          BY <4>1
      <3>2. opened' = TRUE /\ wallet' = Balance + total /\ UNCHANGED <<hold, refunded, cost>>
        BY <2>2 DEF GrantPlan
      <3>. HIDE DEF total
      <3>. QED
        BY <1>2, <3>1, <3>2
    <2>. QED
      BY <1>1, <1>4, <2>1, <2>2 DEF GrantStep, AskGrant
  <1>5. ASSUME NEW p \in Callers, CallerStep(p) PROVE OverInv'
    <2>1. ASSUME NEW c \in Calls, StartCall(p, c) PROVE OverInv'
      BY <2>1, Amounts, OverReserve DEF StartCall
    <2>2. ASSUME NEW c \in Calls, NEW price \in Costs, StartVoice(p, c, price) PROVE OverInv'
      <3>1. \A d \in Calls : hold[d].status = "settled" => cost'[d] = cost[d]
        <4>1. \A d \in Calls : hold[d].status = "settled" => cost[d] # 0
          BY Amounts DEF Inv, ChargedForWork
        <4>. QED
          BY <2>2, <4>1 DEF StartVoice, Inv, TypeOK
      <3>2. CASE ReserveNew(c, price)
        BY <2>2, <3>1, <3>2, Amounts, OverReserve DEF StartVoice
      <3>3. CASE UNCHANGED <<opened, wallet, hold>>
        <4>1. Balance' = Balance /\ UnopenedIsEmpty'
          BY <3>3 DEF Balance, OverInv, UnopenedIsEmpty
        <4>. QED
          BY <1>0, <2>2, <3>1, <3>3, <4>1, OverQuiet DEF StartVoice
      <3>. QED
        BY <2>2, <3>2, <3>3 DEF StartVoice
    <2>3. ASSUME NEW price \in Costs, ProviderReturns(p, price) PROVE OverInv'
      <3>1. \A d \in Calls : hold[d].status = "settled" => cost'[d] = cost[d]
        BY <2>3 DEF ProviderReturns, Inv, TypeOK, NothingYet
      <3>2. Balance' = Balance /\ UnopenedIsEmpty'
        BY <2>3 DEF ProviderReturns, Balance, OverInv, UnopenedIsEmpty
      <3>. QED
        BY <1>0, <2>3, <3>1, <3>2, OverQuiet DEF ProviderReturns
    <2>4. ASSUME Settle(p) PROVE OverInv'
      <3>1. call[p] \in Calls /\ hold[call[p]].status # "none"
        BY <2>4 DEF Settle, Inv, CallersHold
      <3>2. PICK actual \in {0, cost[call[p]]} : SettleHold(call[p], actual)
        BY <2>4 DEF Settle
      <3>. QED
        BY <2>4, <3>1, <3>2, OverSettle DEF Settle
    <2>. QED
      BY <1>1, <1>5, <2>1, <2>2, <2>3, <2>4 DEF CallerStep, ProviderFails, RecordUsage
  <1>6. ASSUME NEW r \in Reapers, ReaperStep(r) PROVE OverInv'
    <2>1. ASSUME NEW c \in Calls, Recover(r, c) PROVE OverInv'
      <3>1. hold[c].status # "none"
        BY <2>1 DEF Recover, Inv, UsageIsPriced, FreshIsFree
      <3>. QED
        BY <2>1, <3>1, OverSettle DEF Recover
    <2>2. ASSUME NEW c \in Calls, Expire(r, c) PROVE OverInv'
      BY <1>1, <2>2, OverExpire DEF Expire
    <2>. QED
      BY <1>1, <1>6, <2>1, <2>2 DEF ReaperStep, ScanPriced, ScanExpired, EndPass
  <1>7. CASE \E c \in Calls : HoldLapses(c)
    BY <1>1, <1>7 DEF HoldLapses
  <1>8. CASE Mishap
    BY <1>1, <1>8 DEF Mishap, SettleFails, UsageLost, Crash, ReaperFails, ReaperSkips
  <1>9. CASE UNCHANGED vars
    BY <1>1, <1>9 DEF vars
  <1>. QED
    BY <1>3, <1>4, <1>5, <1>6, <1>7, <1>8, <1>9 DEF Next

\* However calls, reapers and grants interleave, a wallet is overdrawn by no more than
\* what settled calls cost beyond what was still held for them.
THEOREM OverdraftsAreOverages == Spec => []OverdraftIsOverage
  <1>1. Init => Inv /\ OverInv
    BY InvInit, OverInvInit
  <1>2. Inv /\ OverInv /\ [Next]_vars => (Inv /\ OverInv)'
    BY InvStep, OverInvStep
  <1>3. OverInv => OverdraftIsOverage
    BY DEF OverInv
  <1>. QED
    BY <1>1, <1>2, <1>3, PTL DEF Spec
=============================================================================
