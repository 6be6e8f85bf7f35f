------------------------------ MODULE JobQueue ------------------------------
(***************************************************************************)
(* The unified job queue of the API service                                *)
(* (services/api/app/modules/jobs): rows of the `jobs` table, the lane     *)
(* runners that claim and process them, the reaper that returns expired    *)
(* leases, and the operators (merchants and admins) that cancel and replay *)
(* jobs over HTTP.                                                         *)
(*                                                                         *)
(* One action is one committed transaction, or one step of the process     *)
(* that runs between two transactions.  `lock` is the Postgres row lock of *)
(* a SELECT ... FOR UPDATE that outlives the step that took it: the runner *)
(* holds it while an inline handler talks to its provider.  Every other    *)
(* locking read is inside one transaction and only needs the lock free.    *)
(*                                                                         *)
(* Time is abstract: a row is due or not, a lease is live or expired, a    *)
(* deadline is ahead or passed.  The lane, priority and payload of a job   *)
(* are left out, and so is `external_intent`, which only log lines read.   *)
(***************************************************************************)
EXTENDS Naturals, FiniteSets

CONSTANTS
    Jobs,         \* job ids
    Workers,      \* runner slots: each processes one claimed job at a time
    Operators,    \* HTTP requests in flight that cancel or replay a job
    NoJob,        \* "no job": what an idle slot holds
    Nobody,       \* "no worker": the owner of a free row lock
    KindsOf,      \* the handler families each job may be of, see Kinds
    Paced,        \* jobs whose provider the pacer may report cooled down
    Scheduled,    \* jobs submitted with next_run_at in the future
    Deadlined,    \* jobs submitted with hard_deadline_at
    Legacy,       \* rows an older build left in `accepted`
    MaxAttempts,  \* jobs.max_attempts
    Overrun,      \* TRUE: a lease may expire under a worker that is alive
    MaxFaults,    \* bound on crashes, timeouts, lost replies and overruns
    MaxDefers,    \* bound on deferrals by the per-tenant cap
    MaxReplays    \* bound on operator replays

(***************************************************************************)
(* "inline": the handler writes on the runner's session and leaves the     *)
(*   commit to it (post.publish on Meta);                                  *)
(* "refreshing": the same, but it may commit a refreshed token on that     *)
(*   session before the call (post.publish on Google);                     *)
(* "removing", "withdrawing": the same two, for post.delete on Meta and on *)
(*   Google, which ends well also when there is nothing to take down;      *)
(* "sending": it commits the outcome on a row of its own, failures too,    *)
(*   and returns normally (review_request.send);                           *)
(* "committing": it commits a row of its own before and after the call     *)
(*   (tts, stt);                                                           *)
(* "ingest": it also completes or fails the job row itself (rag.ingest);   *)
(* "unhandled": no handler is registered for the type.                     *)
(* A commit inside the handler gives the row lock of the job up.           *)
(***************************************************************************)
Kinds == {"inline", "refreshing", "removing", "withdrawing", "sending", "committing",
          "ingest", "unhandled"}
Refreshing == {"refreshing", "withdrawing"}
Locking == {"inline", "removing", "sending"} \cup Refreshing  \* call under the row lock
Recording == {"sending", "committing", "ingest"}   \* keep a domain row of their own
\* May end well without an effect.
Waivable == {"removing", "withdrawing", "sending", "committing"}

ASSUME ConstantsAssumption ==
    /\ NoJob \notin Jobs
    /\ IsFiniteSet(Workers) /\ Nobody \notin Workers
    /\ IsFiniteSet(Operators)
    /\ KindsOf \in [Jobs -> SUBSET Kinds]
    /\ Paced \subseteq Jobs
    /\ Scheduled \subseteq Jobs
    /\ Deadlined \subseteq Jobs
    /\ Legacy \subseteq Jobs
    /\ MaxAttempts \in Nat \ {0}
    /\ Overrun \in BOOLEAN
    /\ MaxFaults \in Nat
    /\ MaxDefers \in Nat
    /\ MaxReplays \in Nat

VARIABLES
    kind,     \* the handler family of each job, fixed by its job_type
    row,      \* the jobs table
    lock,     \* the worker whose open transaction holds the row's lock
    pc,       \* where each runner slot is in _process_job
    job,      \* the job it processes
    mem,      \* the row its handler's session loaded
    ask,      \* an operator's request between its SELECT and its UPDATE
    done,     \* the job's own domain row says completed
    calls,    \* history: external calls that took effect
    lost,     \* history: effects whose outcome no transaction recorded
    events,   \* job.* events written to the outbox
    faults, defers, replays   \* the bounds' counters

vars == <<kind, row, lock, pc, job, mem, ask, done, calls, lost, events,
          faults, defers, replays>>

-----------------------------------------------------------------------------
(* Rows                                                                    *)

Terminal == {"succeeded", "failed", "cancelled", "dead"}
Claimable == {"queued", "retrying"}
Cancellable == {"accepted", "queued", "retrying", "blocked"}
Replayable == {"dead", "failed"}
Statuses == {"absent", "accepted", "queued", "running", "retrying", "blocked"}
              \cup Terminal

Rows == [status: Statuses, attempts: Nat, lease: {"none", "live", "expired"},
         due: BOOLEAN, deadline: {"none", "ahead", "passed"}]

Events == {"job.succeeded", "job.failed", "job.dead"}

NoRow == [status |-> "absent", attempts |-> 0, lease |-> "none",
          due |-> FALSE, deadline |-> "none"]

NewRow(j, status) ==
    [status |-> status, attempts |-> 0, lease |-> "none", due |-> j \notin Scheduled,
     deadline |-> IF j \in Deadlined THEN "ahead" ELSE "none"]

\* Mutants of the assignments below.
DeferredOffEnum(r) == [r EXCEPT !.status = "deferred", !.lease = "none", !.due = FALSE]
ReleasedRunning(r) == [r EXCEPT !.attempts = @ + 1, !.lease = "none", !.due = TRUE]

\* What each service function assigns to the columns of a row.
Claimed(r) == [r EXCEPT !.status = "running", !.lease = "live"]
Completed(r) == [r EXCEPT !.status = "succeeded", !.lease = "none"]
Failed(r) == [r EXCEPT !.status = "failed", !.lease = "none"]
Cancelled(r) == [r EXCEPT !.status = "cancelled", !.lease = "none"]
Blocked(r) == [r EXCEPT !.status = "blocked", !.lease = "none", !.due = FALSE]
Deferred(r) == [r EXCEPT !.status = "queued", !.lease = "none", !.due = FALSE]
Released(r) ==
    [r EXCEPT !.status = "queued", !.attempts = @ + 1, !.lease = "none", !.due = TRUE]
Replayed(r) ==
    [r EXCEPT !.status = "queued", !.attempts = 0, !.lease = "none", !.due = TRUE]
Retried(r) ==
    IF r.attempts + 1 >= MaxAttempts
      THEN [r EXCEPT !.status = "dead", !.attempts = @ + 1, !.lease = "none"]
      ELSE [r EXCEPT !.status = "retrying", !.attempts = @ + 1, !.lease = "none",
                     !.due = FALSE]

\* The session's copy of a row; next_run_at and the deadline are not compared.
Loaded(r) == [r EXCEPT !.due = FALSE, !.deadline = "none"]

\* SQLAlchemy's flush: an UPDATE carries only the columns whose value differs
\* from the one the session loaded; the row keeps the others as they are now.
Keep(cur, seen, new) == IF new = seen THEN cur ELSE new
Flush(cur, seen, new) ==
    [cur EXCEPT !.status = Keep(@, seen.status, new.status),
                !.attempts = Keep(@, seen.attempts, new.attempts),
                !.lease = Keep(@, seen.lease, new.lease)]

NoAsk == [op |-> "none", job |-> NoJob, seen |-> NoRow]

-----------------------------------------------------------------------------
(* Workers                                                                 *)

PCs == {"idle", "claimed", "admission", "loading", "calling", "detached",
        "called", "recorded", "completed", "rejected", "failing"}

Active(w) == pc[w] # "idle"
ActiveOn(j) == {w \in Workers : job[w] = j}
Free(j) == lock[j] = Nobody

\* Worker w goes on to label l with its job.
Goto(w, l) == pc' = [pc EXCEPT ![w] = l] /\ UNCHANGED <<job, mem>>

\* Worker w is through with its job and gives up what it held.
Finish(w) ==
    /\ pc' = [pc EXCEPT ![w] = "idle"]
    /\ job' = [job EXCEPT ![w] = NoJob]
    /\ mem' = [mem EXCEPT ![w] = NoRow]

Unlock(w) == lock' = [j \in Jobs |-> IF lock[j] = w THEN Nobody ELSE lock[j]]

Fault == faults < MaxFaults /\ faults' = faults + 1

Init ==
    /\ kind \in {k \in [Jobs -> Kinds] : \A j \in Jobs : k[j] \in KindsOf[j]}
    /\ row = [j \in Jobs |-> IF j \in Legacy THEN NewRow(j, "accepted") ELSE NoRow]
    /\ lock = [j \in Jobs |-> Nobody]
    /\ pc = [w \in Workers |-> "idle"]
    /\ job = [w \in Workers |-> NoJob]
    /\ mem = [w \in Workers |-> NoRow]
    /\ ask = [o \in Operators |-> NoAsk]
    /\ done = [j \in Jobs |-> FALSE]
    /\ calls = [j \in Jobs |-> 0]
    /\ lost = [j \in Jobs |-> 0]
    /\ events = [j \in Jobs |-> {}]
    /\ faults = 0 /\ defers = 0 /\ replays = 0

\* submit_job: the row is claimable the moment it commits.
Submit(j) ==
    /\ row[j].status = "absent"
    /\ row' = [row EXCEPT ![j] = NewRow(j, "queued")]
    /\ UNCHANGED <<kind, lock, pc, job, mem, ask, done, calls, lost, events,
                   faults, defers, replays>>

\* claim_due_jobs and the commit in _tick.  SKIP LOCKED: a locked row is passed over.
Claim(w, j) ==
    /\ ~Active(w)
    /\ row[j].status \in Claimable
    /\ row[j].due \/ row[j].deadline = "passed"
    /\ Free(j)
    /\ row' = [row EXCEPT ![j] = Claimed(@)]
    /\ pc' = [pc EXCEPT ![w] = "claimed"]
    /\ job' = [job EXCEPT ![w] = j]
    /\ UNCHANGED <<kind, lock, mem, ask, done, calls, lost, events, faults, defers, replays>>

\* _process_job, no handler for the type: fail_job, whatever the status.
FailUnhandled(w) ==
    /\ pc[w] = "claimed" /\ kind[job[w]] = "unhandled" /\ Free(job[w])
    /\ row' = [row EXCEPT ![job[w]] = Failed(@)]
    /\ Finish(w)
    /\ UNCHANGED <<kind, lock, ask, done, calls, lost, events, faults, defers, replays>>

\* _process_job, provider cooled down: block_job, whatever the status.
Block(w) ==
    /\ pc[w] = "claimed" /\ kind[job[w]] # "unhandled" /\ job[w] \in Paced
    /\ Free(job[w])
    /\ row' = [row EXCEPT ![job[w]] = Blocked(@)]
    /\ Finish(w)
    /\ UNCHANGED <<kind, lock, ask, done, calls, lost, events, faults, defers, replays>>

\* _process_job step 1: skip a terminal row, cancel one past its deadline, else
\* record the intent and renew the lease.  The lease owner is not compared.
Intend(w) ==
    /\ pc[w] = "claimed" /\ kind[job[w]] # "unhandled" /\ Free(job[w])
    /\ LET r == row[job[w]] IN
         \/ r.status \in Terminal /\ Finish(w) /\ UNCHANGED row
         \/ /\ r.status \notin Terminal /\ r.deadline = "passed"
            /\ row' = [row EXCEPT ![job[w]] = Cancelled(@)]
            /\ Finish(w)
         \/ /\ r.status \notin Terminal /\ r.deadline # "passed"
            /\ row' = [row EXCEPT ![job[w]] = Claimed(@)]
            /\ Goto(w, "admission")
    /\ UNCHANGED <<kind, lock, ask, done, calls, lost, events, faults, defers, replays>>

\* _admit_tenant said no: _defer puts the row back, whatever its status.
Defer(w) ==
    /\ pc[w] = "admission" /\ Free(job[w])
    /\ defers < MaxDefers /\ defers' = defers + 1
    /\ row' = [row EXCEPT ![job[w]] = Deferred(@)]
    /\ Finish(w)
    /\ UNCHANGED <<kind, lock, ask, done, calls, lost, events, faults, replays>>

\* _admit_tenant said yes, or Redis is down and the check fails open.
Admit(w) ==
    /\ pc[w] = "admission"
    /\ Goto(w, "loading")
    /\ UNCHANGED <<kind, row, lock, ask, done, calls, lost, events, faults, defers, replays>>

\* Mutant of StartHandler: the handler does not look for a completed domain row.
StartHandlerAnew(w) ==
    /\ pc[w] = "loading" /\ Free(job[w])
    /\ lock' = IF kind[job[w]] \in Locking THEN [lock EXCEPT ![job[w]] = w] ELSE lock
    /\ pc' = [pc EXCEPT ![w] = "calling"]
    /\ mem' = [mem EXCEPT ![w] = Loaded(row[job[w]])]
    /\ UNCHANGED <<kind, row, job, ask, done, calls, lost, events, faults, defers, replays>>

\* _process_job step 2: load the row FOR UPDATE (its status is not looked at again)
\* and enter the handler.  A handler with a completed domain row returns at once;
\* one that commits before its call has released the lock by then.
StartHandler(w) ==
    /\ pc[w] = "loading" /\ Free(job[w])
    /\ LET j == job[w]
           skips == kind[j] \in Recording /\ done[j]
       IN /\ lock' = IF kind[j] \in Locking \/ skips THEN [lock EXCEPT ![j] = w] ELSE lock
          /\ pc' = [pc EXCEPT ![w] = IF skips THEN "completed" ELSE "calling"]
          /\ mem' = [mem EXCEPT ![w] = Loaded(row[j])]
    /\ UNCHANGED <<kind, row, job, ask, done, calls, lost, events, faults, defers, replays>>

\* The publisher refreshed its access token and _persist commits it: the lock goes.
PersistToken(w) ==
    /\ pc[w] = "calling" /\ kind[job[w]] \in Refreshing /\ lock[job[w]] = w
    /\ Unlock(w)
    /\ UNCHANGED <<kind, row, pc, job, mem, ask, done, calls, lost, events, faults,
                   defers, replays>>

\* The provider did the work and said so.
CallSucceeds(w) ==
    /\ pc[w] = "calling"
    /\ calls' = [calls EXCEPT ![job[w]] = @ + 1]
    /\ Goto(w, "called")
    /\ UNCHANGED <<kind, row, lock, ask, done, lost, events, faults, defers, replays>>

\* Where a handler's exception leads: rag.ingest fails the job row first, unless it
\* finds no ingest row at all; review_request.send records the failure and returns.
OnError(w) ==
    CASE kind[job[w]] = "ingest" -> {"rejected", "failing"}
      [] kind[job[w]] = "sending" -> {"completed"}
      [] OTHER -> {"failing"}

\* The provider (or the handler's own checks) failed without effect.
CallFails(w) ==
    /\ pc[w] = "calling"
    /\ \E l \in OnError(w) : Goto(w, l)
    /\ Unlock(w)
    /\ UNCHANGED <<kind, row, ask, done, calls, lost, events, faults, defers, replays>>

\* The provider did the work and the answer was lost: the handler sees an error.
ReplyLost(w) ==
    /\ pc[w] = "calling" /\ Fault
    /\ calls' = [calls EXCEPT ![job[w]] = @ + 1]
    /\ lost' = [lost EXCEPT ![job[w]] = @ + 1]
    /\ \E l \in OnError(w) : Goto(w, l)
    /\ Unlock(w)
    /\ UNCHANGED <<kind, row, ask, done, events, defers, replays>>

\* The handler returns normally without an effect: a voice engine refused for good and
\* that is on record, the review request is gone, the post to take down never went out,
\* has no id or is not there any more (a 404).
CallRefused(w) ==
    /\ pc[w] = "calling" /\ kind[job[w]] \in Waivable
    /\ Goto(w, "completed")
    /\ UNCHANGED <<kind, row, lock, ask, done, calls, lost, events, faults, defers, replays>>

\* Postgres ends a session idle in a transaction for a minute: the row lock goes
\* while the provider call is still under way.
LoseSession(w) ==
    /\ pc[w] = "calling" /\ lock[job[w]] = w /\ Fault
    /\ Goto(w, "detached")
    /\ Unlock(w)
    /\ UNCHANGED <<kind, row, ask, done, calls, lost, events, defers, replays>>

\* The detached call ends; the handler's next statement raises on the dead session.
DetachedReturns(w) ==
    /\ pc[w] = "detached"
    /\ \E effect \in {0, 1} :
         /\ calls' = [calls EXCEPT ![job[w]] = @ + effect]
         /\ lost' = [lost EXCEPT ![job[w]] = @ + effect]
    /\ Goto(w, "failing")
    /\ UNCHANGED <<kind, row, lock, ask, done, events, faults, defers, replays>>

\* A handler with a domain row records its result there and commits.
Record(w) ==
    /\ pc[w] = "called" /\ kind[job[w]] \in Recording
    /\ done' = [done EXCEPT ![job[w]] = TRUE]
    /\ Goto(w, IF kind[job[w]] = "ingest" THEN "recorded" ELSE "completed")
    /\ Unlock(w)
    /\ UNCHANGED <<kind, row, ask, calls, lost, events, faults, defers, replays>>

\* handle_rag_ingest completes the job row in a transaction of its own.
IngestCompletes(w) ==
    /\ pc[w] = "recorded" /\ Free(job[w])
    /\ row' = [row EXCEPT ![job[w]] = Flush(@, mem[w], Completed(mem[w]))]
    /\ pc' = [pc EXCEPT ![w] = "completed"]
    /\ mem' = [mem EXCEPT ![w] = Completed(@)]
    /\ UNCHANGED <<kind, lock, job, ask, done, calls, lost, events, faults, defers, replays>>

\* handle_rag_ingest fails the job row, commits, and raises.
IngestFails(w) ==
    /\ pc[w] = "rejected" /\ Free(job[w])
    /\ row' = [row EXCEPT ![job[w]] = Flush(@, mem[w], Failed(mem[w]))]
    /\ Goto(w, "failing")
    /\ UNCHANGED <<kind, lock, ask, done, calls, lost, events, faults, defers, replays>>

\* _complete_in: the outcome and its outbox event commit together.
Complete(w) ==
    /\ \/ pc[w] = "completed"
       \/ pc[w] = "called" /\ kind[job[w]] \notin Recording
    /\ lock[job[w]] \in {w, Nobody}
    /\ row' = [row EXCEPT ![job[w]] = Flush(@, mem[w], Completed(mem[w]))]
    /\ events' = [events EXCEPT ![job[w]] = @ \cup {"job.succeeded"}]
    /\ Unlock(w)
    /\ Finish(w)
    /\ UNCHANGED <<kind, ask, done, calls, lost, faults, defers, replays>>

\* _fail: retry_job and its events, whatever the status.
Fail(w) ==
    /\ pc[w] = "failing" /\ Free(job[w])
    /\ LET j == job[w] IN
         /\ row' = [row EXCEPT ![j] = Retried(@)]
         /\ events' = [events EXCEPT ![j] = @ \cup {"job.failed"}
              \cup IF Retried(row[j]).status = "dead" THEN {"job.dead"} ELSE {}]
    /\ Finish(w)
    /\ UNCHANGED <<kind, lock, ask, done, calls, lost, faults, defers, replays>>

\* Another worker's open transaction keeps the row for longer than lock_timeout.
\* Inside the handler's try the error leads to _fail; an error of _process_job's own
\* transactions, or of _fail, is swallowed by gather and leaves the row as it is.
LockTimeout(w) ==
    /\ Active(w) /\ lock[job[w]] \notin {w, Nobody} /\ Fault
    /\ \/ /\ pc[w] \in {"claimed", "failing"}
          /\ Finish(w)
          /\ UNCHANGED lost
       \/ /\ pc[w] \in {"admission", "loading", "recorded", "rejected", "completed"}
          /\ Goto(w, "failing")
          /\ UNCHANGED lost
       \/ /\ pc[w] = "called" /\ kind[job[w]] \notin Recording
          /\ Goto(w, "failing")
          /\ lost' = [lost EXCEPT ![job[w]] = @ + 1]
    /\ UNCHANGED <<kind, row, lock, ask, done, calls, events, defers, replays>>

\* The process dies: the row stays as it is and Postgres drops the open transaction.
Crash(w) ==
    /\ Active(w) /\ Fault
    /\ lost' = IF pc[w] = "called" THEN [lost EXCEPT ![job[w]] = @ + 1] ELSE lost
    /\ Unlock(w)
    /\ Finish(w)
    /\ UNCHANGED <<kind, row, ask, done, calls, events, defers, replays>>

-----------------------------------------------------------------------------
(* The reaper and the clock                                                *)

\* Mutants of ExpiredRows: the reaper takes live leases too, or leaves the rows that
\* have used up their attempts.
RunningRows == {j \in Jobs : row[j].status = "running"}
RetryableExpiredRows ==
    {j \in RunningRows : row[j].lease = "expired" /\ row[j].attempts + 1 < MaxAttempts}

ExpiredRows == {j \in Jobs : row[j].status = "running" /\ row[j].lease = "expired"}
AcceptedRows == {j \in Jobs : row[j].status = "accepted"}

\* reap_in_session: both sweeps in one transaction.  A locked row makes the UPDATE
\* wait, and lock_timeout then ends the whole pass without effect.
Reap ==
    /\ ExpiredRows \cup AcceptedRows # {}
    /\ \A j \in ExpiredRows \cup AcceptedRows : Free(j)
    /\ row' = [j \in Jobs |->
                 IF j \in ExpiredRows THEN Released(row[j])
                 ELSE IF j \in AcceptedRows THEN [row[j] EXCEPT !.status = "queued"]
                 ELSE row[j]]
    /\ UNCHANGED <<kind, lock, pc, job, mem, ask, done, calls, lost, events,
                   faults, defers, replays>>

\* Five minutes pass since a worker that is gone claimed the row or renewed its lease.
LeaseExpires(j) ==
    /\ row[j].lease = "live" /\ ActiveOn(j) = {}
    /\ row' = [row EXCEPT ![j].lease = "expired"]
    /\ UNCHANGED <<kind, lock, pc, job, mem, ask, done, calls, lost, events,
                   faults, defers, replays>>

\* The same, under a worker that is still at work.
LeaseOverrun(j) ==
    /\ Overrun
    /\ row[j].lease = "live" /\ ActiveOn(j) # {}
    /\ Fault
    /\ row' = [row EXCEPT ![j].lease = "expired"]
    /\ UNCHANGED <<kind, lock, pc, job, mem, ask, done, calls, lost, events, defers, replays>>

BecomesDue(j) ==
    /\ row[j].status \in Claimable /\ ~row[j].due
    /\ row' = [row EXCEPT ![j].due = TRUE]
    /\ UNCHANGED <<kind, lock, pc, job, mem, ask, done, calls, lost, events,
                   faults, defers, replays>>

DeadlinePasses(j) ==
    /\ row[j].status \notin Terminal /\ row[j].deadline = "ahead"
    /\ row' = [row EXCEPT ![j].deadline = "passed"]
    /\ UNCHANGED <<kind, lock, pc, job, mem, ask, done, calls, lost, events,
                   faults, defers, replays>>

-----------------------------------------------------------------------------
(* Operators: an unlocked SELECT, a check, then an UPDATE                  *)

AskCancel(o, j) ==
    /\ ask[o] = NoAsk
    /\ row[j].status \in Cancellable
    /\ ask' = [ask EXCEPT ![o] = [op |-> "cancel", job |-> j, seen |-> Loaded(row[j])]]
    /\ UNCHANGED <<kind, row, lock, pc, job, mem, done, calls, lost, events,
                   faults, defers, replays>>

AskReplay(o, j) ==
    /\ ask[o] = NoAsk
    /\ row[j].status \in Replayable
    /\ replays < MaxReplays /\ replays' = replays + 1
    /\ ask' = [ask EXCEPT ![o] = [op |-> "replay", job |-> j, seen |-> Loaded(row[j])]]
    /\ UNCHANGED <<kind, row, lock, pc, job, mem, done, calls, lost, events, faults, defers>>

\* cancel_job's UPDATE.  It waits for the row's lock and does not look again.
CancelCommits(o) ==
    /\ ask[o].op = "cancel" /\ Free(ask[o].job)
    /\ row' = [row EXCEPT ![ask[o].job] =
                 Flush(@, ask[o].seen, Cancelled(ask[o].seen))]
    /\ ask' = [ask EXCEPT ![o] = NoAsk]
    /\ UNCHANGED <<kind, lock, pc, job, mem, done, calls, lost, events, faults, defers, replays>>

\* replay_job's UPDATE, likewise; next_run_at is always written.
ReplayCommits(o) ==
    /\ ask[o].op = "replay" /\ Free(ask[o].job)
    /\ row' = [row EXCEPT ![ask[o].job] =
                 [Flush(@, ask[o].seen, Replayed(ask[o].seen)) EXCEPT !.due = TRUE]]
    /\ ask' = [ask EXCEPT ![o] = NoAsk]
    /\ UNCHANGED <<kind, lock, pc, job, mem, done, calls, lost, events, faults, defers, replays>>

-----------------------------------------------------------------------------
\* What a live worker does next, and what may go wrong meanwhile.
Proceed(w) ==
    \/ \E j \in Jobs : Claim(w, j)
    \/ FailUnhandled(w) \/ Block(w) \/ Intend(w) \/ Defer(w) \/ Admit(w)
    \/ StartHandler(w) \/ PersistToken(w) \/ CallSucceeds(w) \/ CallFails(w)
    \/ CallRefused(w) \/ DetachedReturns(w) \/ Record(w) \/ IngestCompletes(w) \/ IngestFails(w)
    \/ Complete(w) \/ Fail(w)
Mishap(w) == ReplyLost(w) \/ LoseSession(w) \/ LockTimeout(w) \/ Crash(w)

ClockStep(j) == LeaseExpires(j) \/ BecomesDue(j) \/ DeadlinePasses(j)

OperatorStep(o) ==
    \/ \E j \in Jobs : AskCancel(o, j) \/ AskReplay(o, j)
    \/ CancelCommits(o) \/ ReplayCommits(o)

Next ==
    \/ \E j \in Jobs : Submit(j) \/ ClockStep(j) \/ LeaseOverrun(j)
    \/ \E w \in Workers : Proceed(w) \/ Mishap(w)
    \/ Reap
    \/ \E o \in Operators : OperatorStep(o)

Spec == Init /\ [][Next]_vars

\* A runner that is alive polls and works on, the reaper runs every 30 seconds, and
\* time passes.  Nothing obliges a merchant, an operator or a fault to act.
Fairness ==
    /\ \A w \in Workers : WF_vars(Proceed(w))
    /\ \A j \in Jobs : WF_vars(ClockStep(j))
    /\ WF_vars(Reap)

FairSpec == Spec /\ Fairness

-----------------------------------------------------------------------------
(* Properties                                                              *)

TypeOK ==
    /\ kind \in [Jobs -> Kinds]
    /\ row \in [Jobs -> Rows]
    /\ lock \in [Jobs -> Workers \cup {Nobody}]
    /\ pc \in [Workers -> PCs]
    /\ job \in [Workers -> Jobs \cup {NoJob}]
    /\ mem \in [Workers -> Rows]
    /\ ask \in [Operators -> [op: {"none", "cancel", "replay"},
                              job: Jobs \cup {NoJob}, seen: Rows]]
    /\ done \in [Jobs -> BOOLEAN]
    /\ calls \in [Jobs -> Nat]
    /\ lost \in [Jobs -> Nat]
    /\ events \in [Jobs -> SUBSET Events]
    /\ faults \in Nat /\ defers \in Nat /\ replays \in Nat

\* Leases outlive the work and nobody replays jobs.
Orderly == ~Overrun /\ MaxReplays = 0

\* The handler, if any, keeps the row lock until the runner commits the outcome.
KeepsLock(j) == kind[j] \in {"inline", "removing", "unhandled"}

\* While no lease runs out under a live worker and nobody replays jobs, two runners
\* never process the same job at once: the committed claim, the reaper and the lease
\* together are a mutual exclusion, through crashes and late cancels.
Exclusive == Orderly =>
    \A v, w \in Workers : Active(v) /\ Active(w) /\ job[v] = job[w] => v = w

\* A row that says `running` carries a lease, whoever wrote it last, so the reaper can
\* take it back: no interleaving strands a job in `running`.  A handler that gives the
\* row lock up is covered only while leases outlive the work: after an overrun its
\* flush can clear the lease of a later claim.
RunningIsLeased ==
    \A j \in Jobs : row[j].status = "running" /\ (KeepsLock(j) \/ Orderly)
                      => row[j].lease # "none"

\* With overruns and replays as well: each repeated call is paid for by one fault or
\* one replay, so one incident never causes a burst of duplicates.
DuplicatesAreBounded == \A j \in Jobs : calls[j] <= 1 + faults + replays

\* What a submitter knows of a job: its terms and its state in the contract.
TermsOf(k) ==
    CASE k = "ingest" -> "early"
      [] k \in Waivable -> "excused"
      [] OTHER -> "proven"

StateOf(status) ==
    CASE status \in {"absent", "succeeded"} -> status
      [] status \in Terminal \ {"succeeded"} -> "closed"
      [] OTHER -> "open"

Contract == INSTANCE JobContract WITH
    terms <- [j \in Jobs |-> TermsOf(kind[j])],
    state <- [j \in Jobs |-> StateOf(row[j].status)],
    effects <- calls,
    losses <- lost,
    told <- {j \in Jobs : "job.succeeded" \in events[j]}

\* While leases outlive the work and nobody replays jobs, rows, runners, reaper and
\* late cancels together keep the contract: an effect is repeated only after a loss, a
\* post or a document is reported done after its effect (a voice job or a review request
\* may instead have recorded a failure, a removal have found nothing to take down), a job
\* is announced once, and never runs after that.
ContractKept == Contract!Spec

\* A row that says `running`, with no worker on it and no lease to expire: neither a
\* claim nor the reaper will touch it again.
Stranded(j) == row[j].status = "running" /\ row[j].lease = "none" /\ ActiveOn(j) = {}

\* Every submitted job reaches an outcome, or waits for an operator in `blocked`, or is
\* stranded: that takes a handler that gives the row lock up and an overrun lease.
EveryJobSettles ==
    \A j \in Jobs : row[j].status # "absent" ~>
        \/ row[j].status \in Terminal \cup {"blocked"}
        \/ ~KeepsLock(j) /\ ~Orderly /\ Stranded(j)

=============================================================================
