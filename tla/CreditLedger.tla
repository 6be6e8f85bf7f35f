---------------------------- MODULE CreditLedger ----------------------------
(***************************************************************************)
(* The AI credit of one tenant (services/api/app/modules/billing/ledger.py *)
(* and its callers): the wallet column users.ai_credit_cents, the holds in *)
(* billing_events, the calls that reserve before they talk to a provider   *)
(* and settle afterwards, the reaper that recovers or refunds the holds of *)
(* calls that went silent, and the grants of an operator.                  *)
(*                                                                         *)
(* One action is one database transaction, or one step of a process        *)
(* between two transactions.  Every transaction that moves money locks the *)
(* tenant's user row, after the hold's row if it has one, and keeps no     *)
(* lock across a provider call, so the locks need no variable.             *)
(*                                                                         *)
(* A metered unit is a call: one LLM completion or stream, which makes its *)
(* own hold, or one voice unit, whose hold has an idempotency key, so that *)
(* a job that runs again charges the same one.  Tokens, prices per model,  *)
(* notes and the Redis mirror, which decides no charge, are left out.      *)
(***************************************************************************)
EXTENDS Integers, FiniteSets, FiniteSetsExt

CONSTANTS
    Calls,       \* metered units of work
    Kind,        \* Kind[c]: "complete", "stream" or "voice"
    NoCall,      \* what an idle caller works on
    Callers,     \* tasks of the API and worker processes that meter work
    Reapers,     \* replicas of run_hold_reaper
    Operators,   \* requests that grant credit
    Keys,        \* idempotency keys of grants
    NoKey,       \* an operator with no grant in flight
    ReserveCents,  \* RESERVE_CENTS, what an LLM call holds before it runs
    Costs,       \* what a unit may turn out to cost
    Legacy,      \* the balance computed from the grants and usage before the ledger
    Bonus,       \* amount of a keyed grant
    Included,    \* Included[p]: credit bundled with a change to plan p
    MaxPosted,   \* bound on the credit granted with plans
    MaxFaults    \* bound on crashes, failed transactions and lost replies

ASSUME ConstantsAssumption ==
    /\ IsFiniteSet(Calls)
    /\ Kind \in [Calls -> {"complete", "stream", "voice"}]
    /\ NoCall \notin Calls
    /\ NoKey \notin Keys
    /\ ReserveCents \in Nat \ {0}
    /\ Costs \subseteq Nat
    /\ Legacy \in Int
    /\ Bonus \in Nat \ {0}
    /\ Included \in [{"free", "pro"} -> Nat]
    /\ MaxPosted \in Nat
    /\ MaxFaults \in Nat

VARIABLES
    opened,   \* the ledger-opening row exists
    wallet,   \* users.ai_credit_cents
    hold,     \* hold[c]: c's ai_usage row: status, reserved_cents, amount_cents
    lapsed,   \* holds whose expires_at has passed
    cost,     \* cost[c]: price of the work the provider has done for c
    usage,    \* calls with a priced usage row that names their hold
    pc,       \* pc[p]: where caller p is
    call,     \* call[p]: the call it works on
    phase,    \* phase[r]: where reaper r is in its pass
    todo,     \* todo[r]: the holds its scan returned and it has not visited
    ask,      \* ask[o]: the key of the grant o has found new
    granted,  \* keys with a credit_topup row
    posted,   \* sum of the plan_grant rows
    plan,     \* users.plan
    refunded, \* ghost: holds that were ever expired
    hit,      \* ghost: calls hit by a crash or by a failed reserve or settle
    faults    \* faults so far

caller == <<pc, call>>
reaper == <<phase, todo>>
grants == <<ask, granted, posted, plan>>
vars == <<opened, wallet, hold, lapsed, cost, usage, caller, reaper, grants,
          refunded, hit, faults>>

Statuses == {"none", "pending", "settled", "released", "expired"}
Holds == [status: Statuses, reserved: Nat, amount: Int]
NoHold == [status |-> "none", reserved |-> 0, amount |-> 0]

-----------------------------------------------------------------------------
(* Rows                                                                    *)

OpeningBalance == IF Legacy > 0 THEN Legacy ELSE 0

\* What ensure_ledger_initialized returns: the wallet, which it opens first if need be.
Balance == IF opened THEN wallet ELSE OpeningBalance

Pending(amt) == [status |-> "pending", reserved |-> amt, amount |-> 0]

\* Mutants of Chargeable (a late settle is ignored) and of Refund (it is refunded too).
PendingOnly(row, actual) == row.status = "pending"
RefundAnyway(row) == row.reserved

\* Settle changes a pending hold, and an expired one if there is work to charge.
Chargeable(row, actual) ==
    row.status = "pending" \/ (row.status = "expired" /\ actual > 0)
\* What the wallet gets back when the hold is closed: the reaper has already refunded
\* an expired one.
Refund(row) == IF row.status = "pending" THEN row.reserved ELSE 0
Settled(row, actual) ==
    [row EXCEPT !.status = IF actual > 0 THEN "settled" ELSE "released",
                !.amount = -actual]
\* Mutant of Expired: a status the model of the table does not know.
ExpiredOffEnum(row) == [row EXCEPT !.status = "refunded", !.amount = 0]
Expired(row) == [row EXCEPT !.status = "expired", !.amount = 0]

\* The transaction of settle().
SettleHold(c, actual) ==
    IF Chargeable(hold[c], actual)
    THEN /\ wallet' = wallet + Refund(hold[c]) - actual
         /\ hold' = [hold EXCEPT ![c] = Settled(@, actual)]
    ELSE UNCHANGED <<wallet, hold>>

Goto(p, where) == pc' = [pc EXCEPT ![p] = where]
Leave(p) == Goto(p, "idle") /\ call' = [call EXCEPT ![p] = NoCall]
Fault == faults < MaxFaults /\ faults' = faults + 1
Hit(c) == hit' = hit \cup {c}

Init ==
    /\ opened = FALSE /\ wallet = 0
    /\ hold = [c \in Calls |-> NoHold]
    /\ lapsed = {}
    /\ cost = [c \in Calls |-> 0]
    /\ usage = {}
    /\ pc = [p \in Callers |-> "idle"] /\ call = [p \in Callers |-> NoCall]
    /\ phase = [r \in Reapers |-> "idle"] /\ todo = [r \in Reapers |-> {}]
    /\ ask = [o \in Operators |-> NoKey] /\ granted = {}
    /\ posted = 0 /\ plan = "free"
    /\ refunded = {} /\ hit = {} /\ faults = 0

-----------------------------------------------------------------------------
(* Callers                                                                 *)

\* A balance is read before any call was made: the cutover runs.
Open ==
    /\ ~opened /\ opened' = TRUE
    /\ wallet' = OpeningBalance
    /\ UNCHANGED <<hold, lapsed, cost, usage, caller, reaper, grants, refunded, hit, faults>>

\* Mutant of ReserveNew: any balance above zero will do.
ReserveAnyBalance(c, amt) ==
    /\ hold[c].status = "none"
    /\ opened' = TRUE
    /\ IF Balance <= 0
       THEN wallet' = Balance /\ UNCHANGED hold
       ELSE /\ wallet' = Balance - amt
            /\ hold' = [hold EXCEPT ![c] = Pending(amt)]

\* reserve() on a new hold: the wallet pays amt, or is too low and only the opening
\* row is kept.
ReserveNew(c, amt) ==
    /\ hold[c].status = "none"
    /\ opened' = TRUE
    /\ IF Balance < amt
       THEN wallet' = Balance /\ UNCHANGED hold
       ELSE /\ wallet' = Balance - amt
            /\ hold' = [hold EXCEPT ![c] = Pending(amt)]

\* complete() and stream() reserve before the provider is called.
StartCall(p, c) ==
    /\ pc[p] = "idle" /\ Kind[c] # "voice"
    /\ ReserveNew(c, ReserveCents)
    /\ IF hold'[c].status = "pending"
       THEN Goto(p, "calling") /\ call' = [call EXCEPT ![p] = c]
       ELSE UNCHANGED caller
    /\ UNCHANGED <<lapsed, cost, usage, reaper, grants, refunded, hit, faults>>

\* charge_voice: the work is done, price is what it costs; a rerun finds the same price.
\* A key that has a pending hold returns it, a finished one is refused.
StartVoice(p, c, price) ==
    /\ pc[p] = "idle" /\ Kind[c] = "voice"
    /\ price > 0 /\ cost[c] \in {0, price}
    /\ cost' = [cost EXCEPT ![c] = price]
    /\ IF hold[c].status = "none"
       THEN ReserveNew(c, price)
       ELSE UNCHANGED <<opened, wallet, hold>>
    /\ IF hold'[c].status = "pending"
       THEN Goto(p, "settling") /\ call' = [call EXCEPT ![p] = c]
       ELSE UNCHANGED caller
    /\ UNCHANGED <<lapsed, usage, reaper, grants, refunded, hit, faults>>

\* The provider answers, or the client of a stream leaves: the work has a price.
ProviderReturns(p, price) ==
    /\ pc[p] = "calling"
    /\ cost' = [cost EXCEPT ![call[p]] = price]
    /\ Goto(p, "settling")
    /\ UNCHANGED <<opened, wallet, hold, lapsed, usage, call, reaper, grants,
                   refunded, hit, faults>>

ProviderFails(p) ==
    /\ pc[p] = "calling"
    /\ Goto(p, "refunding")
    /\ UNCHANGED <<opened, wallet, hold, lapsed, cost, usage, call, reaper, grants,
                   refunded, hit, faults>>

\* After settle, whatever became of it, complete() inserts a usage row, and so does
\* stream() unless its client left before the first chunk.
AfterSettle(p) ==
    \/ pc[p] = "settling" /\ Kind[call[p]] # "voice" /\ Goto(p, "recording") /\ UNCHANGED call
    \/ (pc[p] = "refunding" \/ Kind[call[p]] # "complete") /\ Leave(p)

Settle(p) ==
    /\ pc[p] \in {"settling", "refunding"}
    /\ SettleHold(call[p], IF pc[p] = "settling" THEN cost[call[p]] ELSE 0)
    /\ AfterSettle(p)
    /\ UNCHANGED <<opened, lapsed, cost, usage, reaper, grants, refunded, hit, faults>>

\* _insert_event commits: the row is priced if it has a cost.
RecordUsage(p) ==
    /\ pc[p] = "recording"
    /\ usage' = IF cost[call[p]] > 0 THEN usage \cup {call[p]} ELSE usage
    /\ Leave(p)
    /\ UNCHANGED <<opened, wallet, hold, lapsed, cost, reaper, grants, refunded, hit, faults>>

-----------------------------------------------------------------------------
(* What can happen to a caller                                             *)

\* settle() cannot reach the database and returns None; the caller goes on.
SettleFails(p) ==
    /\ pc[p] \in {"settling", "refunding"} /\ Fault
    /\ AfterSettle(p) /\ Hit(call[p])
    /\ UNCHANGED <<opened, wallet, hold, lapsed, cost, usage, reaper, grants, refunded>>

\* The insert of the usage row fails and is only logged.
UsageLost(p) ==
    /\ pc[p] = "recording" /\ Fault
    /\ Leave(p)
    /\ UNCHANGED <<opened, wallet, hold, lapsed, cost, usage, reaper, grants, refunded, hit>>

\* The process dies, or the task is cancelled, which complete() does not catch, or the
\* reply to reserve's commit is lost and the caller gives up before it calls.
Crash(p) ==
    /\ pc[p] # "idle" /\ Fault
    /\ Leave(p) /\ Hit(call[p])
    /\ UNCHANGED <<opened, wallet, hold, lapsed, cost, usage, reaper, grants, refunded>>

-----------------------------------------------------------------------------
(* The reaper: recover the holds with a priced usage row, then refund the  *)
(* expired ones                                                            *)

Move(r, to, work) ==
    /\ phase' = [phase EXCEPT ![r] = to]
    /\ todo' = [todo EXCEPT ![r] = work]
Done(r, c) == todo' = [todo EXCEPT ![r] = @ \ {c}] /\ UNCHANGED phase

\* Mutants of StaleHolds: terminal rows too, or only holds no work was done for.
LapsedHolds == lapsed
WorklessHolds == {c \in lapsed : hold[c].status = "pending" /\ cost[c] = 0}

PricedHolds == {c \in usage : hold[c].status = "pending"}
StaleHolds == {c \in lapsed : hold[c].status = "pending"}

ScanPriced(r) ==
    /\ phase[r] = "idle"
    /\ Move(r, "recovering", PricedHolds)
    /\ UNCHANGED <<opened, wallet, hold, lapsed, cost, usage, caller, grants,
                   refunded, hit, faults>>

\* Mutant of Recover: it charges what was held.
RecoverReserved(r, c) ==
    /\ phase[r] = "recovering" /\ c \in todo[r]
    /\ SettleHold(c, hold[c].reserved)
    /\ Done(r, c)
    /\ UNCHANGED <<opened, lapsed, cost, usage, caller, grants, refunded, hit, faults>>

Recover(r, c) ==
    /\ phase[r] = "recovering" /\ c \in todo[r]
    /\ SettleHold(c, cost[c])
    /\ Done(r, c)
    /\ UNCHANGED <<opened, lapsed, cost, usage, caller, grants, refunded, hit, faults>>

ScanExpired(r) ==
    /\ phase[r] = "recovering" /\ todo[r] = {}
    /\ Move(r, "expiring", StaleHolds)
    /\ UNCHANGED <<opened, wallet, hold, lapsed, cost, usage, caller, grants,
                   refunded, hit, faults>>

\* _expire_one looks again at the row it has locked.
Expire(r, c) ==
    /\ phase[r] = "expiring" /\ c \in todo[r]
    /\ IF c \in StaleHolds
       THEN /\ wallet' = wallet + hold[c].reserved
            /\ hold' = [hold EXCEPT ![c] = Expired(@)]
            /\ refunded' = refunded \cup {c}
       ELSE UNCHANGED <<wallet, hold, refunded>>
    /\ Done(r, c)
    /\ UNCHANGED <<opened, lapsed, cost, usage, caller, grants, hit, faults>>

EndPass(r) ==
    /\ phase[r] = "expiring" /\ todo[r] = {}
    /\ Move(r, "idle", {})
    /\ UNCHANGED <<opened, wallet, hold, lapsed, cost, usage, caller, grants,
                   refunded, hit, faults>>

\* One row's transaction fails; the pass goes on with the next.
ReaperSkips(r, c) ==
    /\ c \in todo[r] /\ Fault
    /\ Done(r, c)
    /\ UNCHANGED <<opened, wallet, hold, lapsed, cost, usage, caller, grants, refunded, hit>>

\* The scan for priced holds fails and the pass goes on to the expired ones, or the
\* worker restarts and the pass begins anew.
ReaperFails(r) ==
    /\ Fault
    /\ \/ phase[r] = "idle" /\ Move(r, "recovering", {})
       \/ phase[r] # "idle" /\ Move(r, "idle", {})
    /\ UNCHANGED <<opened, wallet, hold, lapsed, cost, usage, caller, grants, refunded, hit>>

HoldLapses(c) ==
    /\ hold[c].status = "pending" /\ c \notin lapsed
    /\ lapsed' = lapsed \cup {c}
    /\ UNCHANGED <<opened, wallet, hold, cost, usage, caller, reaper, grants,
                   refunded, hit, faults>>

-----------------------------------------------------------------------------
(* Grants                                                                  *)

\* grant_credit looks for the key without a lock; a known one is a duplicate.
AskGrant(o, k) ==
    /\ ask[o] = NoKey /\ k \notin granted
    /\ ask' = [ask EXCEPT ![o] = k]
    /\ UNCHANGED <<opened, wallet, hold, lapsed, cost, usage, caller, reaper,
                   granted, posted, plan, refunded, hit, faults>>

\* The transaction: the unique index on the key rolls the slower of two back.
GrantCommits(o) ==
    /\ ask[o] # NoKey
    /\ ask' = [ask EXCEPT ![o] = NoKey]
    /\ IF ask[o] \in granted
       THEN UNCHANGED <<opened, wallet, granted>>
       ELSE /\ opened' = TRUE
            /\ wallet' = Balance + Bonus
            /\ granted' = granted \cup {ask[o]}
    /\ UNCHANGED <<hold, lapsed, cost, usage, caller, reaper, posted, plan,
                   refunded, hit, faults>>

\* grant_plan, without a key: a change of plan brings the plan's credit.
GrantPlan(new, add) ==
    LET total == add + IF new = plan THEN 0 ELSE Included[new] IN
    /\ posted + total <= MaxPosted
    /\ opened' = TRUE
    /\ wallet' = Balance + total
    /\ posted' = posted + total
    /\ plan' = new
    /\ UNCHANGED <<hold, lapsed, cost, usage, caller, reaper, ask, granted,
                   refunded, hit, faults>>

-----------------------------------------------------------------------------
CallerStep(p) ==
    \/ \E c \in Calls : StartCall(p, c) \/ \E price \in Costs : StartVoice(p, c, price)
    \/ \E price \in Costs : ProviderReturns(p, price)
    \/ ProviderFails(p) \/ Settle(p) \/ RecordUsage(p)

ReaperStep(r) ==
    \/ ScanPriced(r) \/ ScanExpired(r) \/ EndPass(r)
    \/ \E c \in Calls : Recover(r, c) \/ Expire(r, c)

Mishap ==
    \/ \E p \in Callers : SettleFails(p) \/ UsageLost(p) \/ Crash(p)
    \/ \E r \in Reapers : ReaperFails(r) \/ \E c \in Calls : ReaperSkips(r, c)

GrantStep ==
    \/ \E o \in Operators : GrantCommits(o) \/ \E k \in Keys : AskGrant(o, k)
    \/ \E new \in {"free", "pro"}, add \in {0, Bonus} : GrantPlan(new, add)

Next ==
    \/ Open
    \/ \E p \in Callers : CallerStep(p)
    \/ \E r \in Reapers : ReaperStep(r)
    \/ \E c \in Calls : HoldLapses(c)
    \/ GrantStep
    \/ Mishap

Spec == Init /\ [][Next]_vars

\* Every replica of the reaper makes a pass a minute, and time passes.  Callers owe
\* nothing: they may hang or die.
Fairness ==
    /\ \A r \in Reapers : WF_vars(ReaperStep(r))
    /\ \A c \in Calls : WF_vars(HoldLapses(c))

FairSpec == Spec /\ Fairness

-----------------------------------------------------------------------------
(* Properties                                                              *)

TypeOK ==
    /\ opened \in BOOLEAN /\ wallet \in Int
    /\ hold \in [Calls -> Holds]
    /\ lapsed \subseteq Calls
    /\ cost \in [Calls -> Costs \cup {0}]
    /\ usage \subseteq Calls
    /\ pc \in [Callers -> {"idle", "calling", "settling", "refunding", "recording"}]
    /\ call \in [Callers -> Calls \cup {NoCall}]
    /\ phase \in [Reapers -> {"idle", "recovering", "expiring"}]
    /\ todo \in [Reapers -> SUBSET Calls]
    /\ ask \in [Operators -> Keys \cup {NoKey}]
    /\ granted \subseteq Keys
    /\ posted \in Nat /\ plan \in {"free", "pro"}
    /\ refunded \subseteq Calls /\ hit \subseteq Calls
    /\ faults \in Nat

\* What a hold's row says it takes from the wallet.
Taken(row) == IF row.status = "pending" THEN row.reserved ELSE 0 - row.amount
At(p, c) == pc[p] # "idle" /\ call[p] = c
Unattended(c) == \A p \in Callers : ~At(p, c)
Total(f(_)) == MapThenSumSet(f, Calls)

\* Double entry: every step moves the wallet by exactly what it changes in one row.
\* A hold, a keyed grant and a plan grant are never mixed, and nothing moves unrecorded.
Entry ==
    \/ /\ Balance' = Balance
       /\ UNCHANGED <<granted, posted, hold>>
    \/ /\ UNCHANGED <<granted, posted>>
       /\ \E c \in Calls :
            /\ Balance' - Balance = Taken(hold[c]) - Taken(hold'[c])
            /\ \A d \in Calls : d # c => hold'[d] = hold[d]
    \/ /\ UNCHANGED <<hold, posted>>
       /\ \E k \in Keys \ granted : granted' = granted \cup {k}
       /\ Balance' = Balance + Bonus
    \/ /\ UNCHANGED <<hold, granted>>
       /\ Balance' - Balance = posted' - posted
LedgerExplainsWallet == [][Entry]_vars

\* A hold is finalized once: a second settle, a late one, the reaper's recovery and its
\* expiry leave a settled or released row as it is.
ClosedStays ==
    \A c \in Calls : hold[c].status \in {"settled", "released"} => hold'[c] = hold[c]
SettledIsFinal == [][ClosedStays]_vars

\* Whoever settles, the charge is what the work cost, and nothing else is charged.
ChargedForWork ==
    \A c \in Calls :
        IF hold[c].status = "settled"
        THEN cost[c] > 0 /\ hold[c].amount = -cost[c]
        ELSE hold[c].amount = 0

\* A wallet may be overdrawn only by what settled calls cost beyond what was held for
\* them, which is their whole cost if the reaper had refunded the hold.
Overage(c) ==
    LET held == IF c \in refunded THEN 0 ELSE hold[c].reserved IN
    IF hold[c].status = "settled" /\ cost[c] > held THEN cost[c] - held ELSE 0
OverdraftIsOverage == wallet + Total(Overage) >= 0

\* Work that ends up refunded, with nobody left to settle it, was hit by a crash or by
\* a failed settle: expiring a hold under a slow call costs nothing.
UnpaidIsLoss ==
    \A c \in Calls :
        cost[c] > 0 /\ hold[c].status \in {"expired", "released"} /\ Unattended(c)
            => c \in hit

\* Credit is not held for ever: every hold is settled, released or refunded.
EveryHoldSettles ==
    <>[](\A c \in Calls : hold[c].status # "pending")
=============================================================================
