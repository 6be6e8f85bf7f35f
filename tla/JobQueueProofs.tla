--------------------------- MODULE JobQueueProofs ---------------------------
(***************************************************************************)
(* Theorems about JobQueue, for every set of jobs, workers and operators   *)
(* and every bound; the last one is that it implements JobContract.        *)
(***************************************************************************)
EXTENDS JobQueue, FiniteSetTheorems, Integers, TLAPS

-----------------------------------------------------------------------------
(* Rows                                                                    *)

\* Every assignment the service functions make to a row leaves it a row.
LEMMA RowOperators ==
    ASSUME NEW r \in Rows
    PROVE  /\ Claimed(r) \in Rows
           /\ Completed(r) \in Rows
           /\ Failed(r) \in Rows
           /\ Cancelled(r) \in Rows
           /\ Blocked(r) \in Rows
           /\ Deferred(r) \in Rows
           /\ Released(r) \in Rows
           /\ Replayed(r) \in Rows
           /\ Retried(r) \in Rows
           /\ Loaded(r) \in Rows
  <1>1. {"queued", "running", "retrying", "blocked", "succeeded", "failed",
         "cancelled", "dead"} \subseteq Statuses
    BY DEF Statuses, Terminal
  <1>2. r.attempts + 1 \in Nat
    BY DEF Rows
  <1>3. Claimed(r) \in Rows /\ Completed(r) \in Rows
    BY <1>1 DEF Rows, Claimed, Completed
  <1>4. Failed(r) \in Rows /\ Cancelled(r) \in Rows
    BY <1>1 DEF Rows, Failed, Cancelled
  <1>5. Blocked(r) \in Rows
    BY <1>1 DEF Rows, Blocked
  <1>6. Deferred(r) \in Rows
    BY <1>1 DEF Rows, Deferred
  <1>7. Released(r) \in Rows
    BY <1>1, <1>2 DEF Rows, Released
  <1>8. Replayed(r) \in Rows /\ Loaded(r) \in Rows
    BY <1>1 DEF Rows, Replayed, Loaded
  <1>9. Retried(r) \in Rows
    BY <1>1, <1>2 DEF Rows, Retried
  <1>. QED
    BY <1>3, <1>4, <1>5, <1>6, <1>7, <1>8, <1>9

\* What the clock and the reaper change of a row.
LEMMA ColumnUpdates ==
    ASSUME NEW r \in Rows
    PROVE  /\ [r EXCEPT !.due = TRUE] \in Rows
           /\ [r EXCEPT !.lease = "expired"] \in Rows
           /\ [r EXCEPT !.deadline = "passed"] \in Rows
           /\ [r EXCEPT !.status = "queued"] \in Rows
  BY DEF Rows, Statuses

\* A row a submitter inserts, and the row of a job nobody submitted.
LEMMA FreshRows ==
    /\ NoRow \in Rows
    /\ \A j \in Jobs : NewRow(j, "queued") \in Rows /\ NewRow(j, "accepted") \in Rows
  BY DEF Rows, Statuses, NoRow, NewRow

\* A flush of a changed copy over the current row leaves a row.
LEMMA FlushIsRow ==
    ASSUME NEW cur \in Rows, NEW seen \in Rows, NEW new \in Rows
    PROVE  Flush(cur, seen, new) \in Rows
  BY DEF Rows, Flush, Keep

-----------------------------------------------------------------------------
(* Type correctness                                                        *)

\* A slot is at work exactly when it holds a job.
Busy == \A w \in Workers : pc[w] # "idle" <=> job[w] # NoJob

TypedInv == TypeOK /\ Busy

LEMMA TypedInit == Init => TypedInv
  <1>. SUFFICES ASSUME Init PROVE TypedInv
    OBVIOUS
  <1>. USE ConstantsAssumption
  <1>1. row \in [Jobs -> Rows]
    BY FreshRows DEF Init
  <1>2. ask \in [Operators -> [op: {"none", "cancel", "replay"},
                               job: Jobs \cup {NoJob}, seen: Rows]]
    BY FreshRows DEF Init, NoAsk
  <1>3. mem \in [Workers -> Rows]
    BY FreshRows DEF Init
  <1>4. kind \in [Jobs -> Kinds]
    BY DEF Init
  <1>5. /\ lock \in [Jobs -> Workers \cup {Nobody}]
        /\ pc \in [Workers -> PCs]
        /\ job \in [Workers -> Jobs \cup {NoJob}]
        /\ done \in [Jobs -> BOOLEAN]
        /\ calls \in [Jobs -> Nat]
        /\ lost \in [Jobs -> Nat]
        /\ events \in [Jobs -> SUBSET Events]
        /\ faults \in Nat /\ defers \in Nat /\ replays \in Nat
    BY DEF Init, PCs
  <1>6. Busy
    BY DEF Init, Busy
  <1>. QED
    BY <1>1, <1>2, <1>3, <1>4, <1>5, <1>6 DEF TypeOK, TypedInv

\* The helpers of the worker's actions keep the variables they write in their types.
LEMMA HelpersTyped ==
    ASSUME TypeOK, NEW w \in Workers
    PROVE  /\ Finish(w) => /\ pc' \in [Workers -> PCs]
                          /\ job' \in [Workers -> Jobs \cup {NoJob}]
                          /\ mem' \in [Workers -> Rows]
           /\ \A l \in PCs : Goto(w, l) => /\ pc' \in [Workers -> PCs]
                                          /\ job' \in [Workers -> Jobs \cup {NoJob}]
                                          /\ mem' \in [Workers -> Rows]
           /\ Unlock(w) => lock' \in [Jobs -> Workers \cup {Nobody}]
           /\ OnError(w) \subseteq PCs
  <1>1. Finish(w) => /\ pc' \in [Workers -> PCs]
                     /\ job' \in [Workers -> Jobs \cup {NoJob}]
                     /\ mem' \in [Workers -> Rows]
    BY FreshRows DEF TypeOK, Finish, PCs
  <1>2. \A l \in PCs : Goto(w, l) => /\ pc' \in [Workers -> PCs]
                                    /\ job' \in [Workers -> Jobs \cup {NoJob}]
                                    /\ mem' \in [Workers -> Rows]
    BY DEF TypeOK, Goto
  <1>3. Unlock(w) => lock' \in [Jobs -> Workers \cup {Nobody}]
    BY DEF TypeOK, Unlock
  <1>4. OnError(w) \subseteq PCs
    BY DEF OnError, PCs
  <1>. QED
    BY <1>1, <1>2, <1>3, <1>4

\* A step of worker w, whatever happens to it, leaves every variable in its type.
LEMMA TypeProceed ==
    ASSUME TypedInv, NEW w \in Workers, Proceed(w)
    PROVE  TypeOK'
  <1>. TypeOK
    BY DEF TypedInv
  <1>. pc[w] # "idle" => job[w] \in Jobs
    BY DEF TypedInv, TypeOK, Busy
  <1>. USE HelpersTyped
  <1>1. ASSUME NEW j \in Jobs, Claim(w, j) PROVE TypeOK'
    <2>1. row' \in [Jobs -> Rows]
      BY <1>1, RowOperators DEF Claim, TypeOK
    <2>. QED
      BY <1>1, <2>1 DEF Claim, PCs, TypeOK
  <1>2. CASE FailUnhandled(w)
    <2>1. row' \in [Jobs -> Rows]
      BY <1>2, RowOperators DEF FailUnhandled, TypeOK
    <2>. QED
      BY <1>2, <2>1 DEF FailUnhandled, TypeOK
  <1>3. CASE Block(w)
    <2>1. row' \in [Jobs -> Rows]
      BY <1>3, RowOperators DEF Block, TypeOK
    <2>. QED
      BY <1>3, <2>1 DEF Block, TypeOK
  <1>4. CASE Intend(w)
    <2>1. row' \in [Jobs -> Rows]
      BY <1>4, RowOperators DEF Intend, TypeOK
    <2>2. \/ Finish(w) \/ Goto(w, "admission")
      BY <1>4 DEF Intend
    <2>3. UNCHANGED <<kind, lock, ask, done, calls, lost, events, faults, defers, replays>>
      BY <1>4 DEF Intend
    <2>. QED
      BY <2>1, <2>2, <2>3 DEF TypeOK, PCs
  <1>5. CASE Defer(w)
    <2>1. row' \in [Jobs -> Rows]
      BY <1>5, RowOperators DEF Defer, TypeOK
    <2>2. defers' \in Nat
      BY <1>5 DEF Defer, TypeOK
    <2>. QED
      BY <1>5, <2>1, <2>2 DEF Defer, TypeOK
  <1>6. CASE Admit(w)
    BY <1>6 DEF Admit, TypeOK, PCs
  <1>7. CASE StartHandler(w)
    <2>1. mem' \in [Workers -> Rows]
      <3>1. Loaded(row[job[w]]) \in Rows
        BY <1>7, RowOperators DEF StartHandler, TypeOK
      <3>. QED
        BY <1>7, <3>1 DEF StartHandler, TypeOK
    <2>2. lock' \in [Jobs -> Workers \cup {Nobody}]
      BY <1>7 DEF StartHandler, TypeOK
    <2>3. pc' \in [Workers -> PCs]
      BY <1>7 DEF StartHandler, TypeOK, PCs
    <2>. QED
      BY <1>7, <2>1, <2>2, <2>3 DEF StartHandler, TypeOK
  <1>8. CASE CallSucceeds(w)
    <2>1. calls' \in [Jobs -> Nat]
      BY <1>8 DEF CallSucceeds, TypeOK
    <2>. QED
      BY <1>8, <2>1 DEF CallSucceeds, TypeOK, PCs
  <1>9. CASE CallFails(w)
    BY <1>9 DEF CallFails, TypeOK
  <1>10. CASE CallRefused(w)
    BY <1>10 DEF CallRefused, TypeOK, PCs
  <1>11. CASE DetachedReturns(w)
    <2>1. calls' \in [Jobs -> Nat] /\ lost' \in [Jobs -> Nat]
      BY <1>11 DEF DetachedReturns, TypeOK
    <2>. QED
      BY <1>11, <2>1 DEF DetachedReturns, TypeOK, PCs
  <1>12. CASE Record(w)
    <2>1. done' \in [Jobs -> BOOLEAN]
      BY <1>12 DEF Record, TypeOK
    <2>. QED
      BY <1>12, <2>1 DEF Record, TypeOK, PCs
  <1>13. CASE IngestCompletes(w)
    <2>1. mem' \in [Workers -> Rows]
      BY <1>13, RowOperators DEF IngestCompletes, TypeOK
    <2>2. row' \in [Jobs -> Rows]
      BY <1>13, RowOperators, FlushIsRow DEF IngestCompletes, TypeOK
    <2>. QED
      BY <1>13, <2>1, <2>2 DEF IngestCompletes, TypeOK, PCs
  <1>14. CASE IngestFails(w)
    <2>1. row' \in [Jobs -> Rows]
      BY <1>14, RowOperators, FlushIsRow DEF IngestFails, TypeOK
    <2>. QED
      BY <1>14, <2>1 DEF IngestFails, TypeOK, PCs
  <1>15. CASE Complete(w)
    <2>1. row' \in [Jobs -> Rows]
      BY <1>15, RowOperators, FlushIsRow DEF Complete, TypeOK
    <2>2. events' \in [Jobs -> SUBSET Events]
      BY <1>15 DEF Complete, TypeOK, Events
    <2>. QED
      BY <1>15, <2>1, <2>2 DEF Complete, TypeOK
  <1>16. CASE Fail(w)
    <2>1. row' \in [Jobs -> Rows]
      BY <1>16, RowOperators DEF Fail, TypeOK
    <2>2. events' \in [Jobs -> SUBSET Events]
      BY <1>16 DEF Fail, TypeOK, Events
    <2>. QED
      BY <1>16, <2>1, <2>2 DEF Fail, TypeOK
  <1>17. CASE PersistToken(w)
    BY <1>17 DEF PersistToken, TypeOK
  <1>. QED
    BY <1>1, <1>2, <1>3, <1>4, <1>5, <1>6, <1>7, <1>8, <1>9, <1>10, <1>11, <1>12,
       <1>13, <1>14, <1>15, <1>16, <1>17 DEF Proceed

LEMMA TypeMishap ==
    ASSUME TypedInv, NEW w \in Workers, Mishap(w)
    PROVE  TypeOK'
  <1>. TypeOK
    BY DEF TypedInv
  <1>. pc[w] # "idle" => job[w] \in Jobs
    BY DEF TypedInv, TypeOK, Busy
  <1>. USE HelpersTyped
  <1>1. CASE ReplyLost(w)
    <2>1. calls' \in [Jobs -> Nat] /\ lost' \in [Jobs -> Nat]
      BY <1>1 DEF ReplyLost, TypeOK
    <2>2. faults' \in Nat
      BY <1>1 DEF ReplyLost, Fault, TypeOK
    <2>. QED
      BY <1>1, <2>1, <2>2 DEF ReplyLost, TypeOK
  <1>2. CASE LoseSession(w)
    <2>1. faults' \in Nat
      BY <1>2 DEF LoseSession, Fault, TypeOK
    <2>. QED
      BY <1>2, <2>1 DEF LoseSession, TypeOK, PCs
  <1>3. CASE Crash(w)
    <2>1. lost' \in [Jobs -> Nat]
      BY <1>3 DEF Crash, Active, TypeOK
    <2>2. faults' \in Nat
      BY <1>3 DEF Crash, Fault, TypeOK
    <2>. QED
      BY <1>3, <2>1, <2>2 DEF Crash, TypeOK
  <1>4. CASE LockTimeout(w)
    <2>1. lost' \in [Jobs -> Nat]
      BY <1>4 DEF LockTimeout, Active, TypeOK
    <2>2. faults' \in Nat
      BY <1>4 DEF LockTimeout, Fault, TypeOK
    <2>3. Finish(w) \/ Goto(w, "failing")
      BY <1>4 DEF LockTimeout
    <2>. QED
      BY <1>4, <2>1, <2>2, <2>3 DEF LockTimeout, TypeOK, PCs
  <1>. QED
    BY <1>1, <1>2, <1>3, <1>4 DEF Mishap

\* Everything that writes rows without a worker: submitters, the clock, the reaper.
LEMMA TypeSystem ==
    ASSUME TypeOK, \/ \E j \in Jobs : Submit(j) \/ ClockStep(j) \/ LeaseOverrun(j)
                   \/ Reap
    PROVE  TypeOK'
  <1>1. CASE Reap
    <2>1. row' \in [Jobs -> Rows]
      BY <1>1, RowOperators, ColumnUpdates DEF Reap, TypeOK
    <2>. QED
      BY <1>1, <2>1 DEF Reap, TypeOK
  <1>2. ASSUME NEW j \in Jobs, Submit(j) PROVE TypeOK'
    <2>1. row' \in [Jobs -> Rows]
      BY <1>2, FreshRows DEF Submit, TypeOK
    <2>. QED
      BY <1>2, <2>1 DEF Submit, TypeOK
  <1>3. ASSUME NEW j \in Jobs, LeaseExpires(j) PROVE TypeOK'
    <2>1. row' \in [Jobs -> Rows]
      BY <1>3, ColumnUpdates DEF LeaseExpires, TypeOK
    <2>. QED
      BY <1>3, <2>1 DEF LeaseExpires, TypeOK
  <1>4. ASSUME NEW j \in Jobs, BecomesDue(j) PROVE TypeOK'
    <2>1. row' \in [Jobs -> Rows]
      BY <1>4, ColumnUpdates DEF BecomesDue, TypeOK
    <2>. QED
      BY <1>4, <2>1 DEF BecomesDue, TypeOK
  <1>5. ASSUME NEW j \in Jobs, DeadlinePasses(j) PROVE TypeOK'
    <2>1. row' \in [Jobs -> Rows]
      BY <1>5, ColumnUpdates DEF DeadlinePasses, TypeOK
    <2>. QED
      BY <1>5, <2>1 DEF DeadlinePasses, TypeOK
  <1>6. ASSUME NEW j \in Jobs, LeaseOverrun(j) PROVE TypeOK'
    <2>1. row' \in [Jobs -> Rows]
      BY <1>6, ColumnUpdates DEF LeaseOverrun, TypeOK
    <2>2. faults' \in Nat
      BY <1>6 DEF LeaseOverrun, Fault, TypeOK
    <2>. QED
      BY <1>6, <2>1, <2>2 DEF LeaseOverrun, TypeOK
  <1>. QED
    BY <1>1, <1>2, <1>3, <1>4, <1>5, <1>6 DEF ClockStep

LEMMA TypeOperator ==
    ASSUME TypeOK, NEW o \in Operators, OperatorStep(o)
    PROVE  TypeOK'
  <1>1. NoAsk \in [op: {"none", "cancel", "replay"}, job: Jobs \cup {NoJob}, seen: Rows]
    BY FreshRows DEF NoAsk
  <1>2. ASSUME NEW j \in Jobs, AskCancel(o, j) PROVE TypeOK'
    <2>1. Loaded(row[j]) \in Rows
      BY RowOperators DEF TypeOK
    <2>. QED
      BY <1>2, <2>1 DEF AskCancel, TypeOK
  <1>3. ASSUME NEW j \in Jobs, AskReplay(o, j) PROVE TypeOK'
    <2>1. Loaded(row[j]) \in Rows
      BY RowOperators DEF TypeOK
    <2>2. replays' \in Nat
      BY <1>3 DEF AskReplay, TypeOK
    <2>. QED
      BY <1>3, <2>1, <2>2 DEF AskReplay, TypeOK
  <1>4. CASE CancelCommits(o)
    <2>1. ask[o].seen \in Rows
      BY DEF TypeOK
    <2>2. row' \in [Jobs -> Rows]
      BY <1>4, <2>1, RowOperators, FlushIsRow DEF CancelCommits, TypeOK
    <2>. QED
      BY <1>1, <1>4, <2>2 DEF CancelCommits, TypeOK
  <1>5. CASE ReplayCommits(o)
    <2>1. ask[o].seen \in Rows
      BY DEF TypeOK
    <2>2. row' \in [Jobs -> Rows]
      BY <1>5, <2>1, RowOperators, FlushIsRow, ColumnUpdates DEF ReplayCommits, TypeOK
    <2>. QED
      BY <1>1, <1>5, <2>2 DEF ReplayCommits, TypeOK
  <1>. QED
    BY <1>2, <1>3, <1>4, <1>5 DEF OperatorStep

\* A slot changes its job only when it claims one or is through with it.
LEMMA WorkerMoves ==
    ASSUME TypedInv, NEW w \in Workers, Proceed(w) \/ Mishap(w)
    PROVE  \/ pc' = [pc EXCEPT ![w] = "idle"] /\ job' = [job EXCEPT ![w] = NoJob]
           \/ /\ pc[w] = "idle" /\ pc' = [pc EXCEPT ![w] = "claimed"]
              /\ \E j \in Jobs : Free(j) /\ job' = [job EXCEPT ![w] = j]
           \/ /\ pc[w] # "idle" /\ job' = job
              /\ \E l \in PCs \ {"idle", "claimed"} : pc' = [pc EXCEPT ![w] = l]
  <1>. TypeOK
    BY DEF TypedInv
  <1>1. ASSUME NEW j \in Jobs, Claim(w, j)
        PROVE  /\ pc[w] = "idle" /\ pc' = [pc EXCEPT ![w] = "claimed"]
               /\ Free(j) /\ job' = [job EXCEPT ![w] = j]
    BY <1>1 DEF Claim, Active
  <1>2. ASSUME FailUnhandled(w) \/ Block(w) \/ Defer(w) \/ Complete(w) \/ Fail(w)
                \/ Crash(w)
        PROVE  pc' = [pc EXCEPT ![w] = "idle"] /\ job' = [job EXCEPT ![w] = NoJob]
    BY <1>2 DEF FailUnhandled, Block, Defer, Complete, Fail, Crash, Finish
  <1>3. ASSUME Admit(w) \/ CallSucceeds(w) \/ CallFails(w) \/ CallRefused(w)
                \/ DetachedReturns(w) \/ Record(w) \/ IngestFails(w) \/ ReplyLost(w)
                \/ LoseSession(w)
        PROVE  /\ pc[w] # "idle" /\ job' = job
               /\ \E l \in PCs \ {"idle", "claimed"} : pc' = [pc EXCEPT ![w] = l]
    <2>1. \E l \in PCs \ {"idle", "claimed"} : Goto(w, l)
      BY <1>3 DEF Admit, CallSucceeds, CallFails, CallRefused, DetachedReturns, Record,
                  IngestFails, ReplyLost, LoseSession, OnError, PCs
    <2>2. pc[w] # "idle"
      BY <1>3 DEF Admit, CallSucceeds, CallFails, CallRefused, DetachedReturns, Record,
                  IngestFails, ReplyLost, LoseSession
    <2>. QED
      BY <2>1, <2>2 DEF Goto
  <1>4. ASSUME StartHandler(w) \/ IngestCompletes(w)
        PROVE  /\ pc[w] # "idle" /\ job' = job
               /\ \E l \in PCs \ {"idle", "claimed"} : pc' = [pc EXCEPT ![w] = l]
    BY <1>4 DEF StartHandler, IngestCompletes, PCs
  <1>5. CASE Intend(w)
    BY <1>5 DEF Intend, Finish, Goto, PCs
  <1>6. ASSUME PersistToken(w)
        PROVE  /\ pc[w] # "idle" /\ job' = job
               /\ \E l \in PCs \ {"idle", "claimed"} : pc' = [pc EXCEPT ![w] = l]
    <2>1. pc' = [pc EXCEPT ![w] = "calling"]
      BY <1>6 DEF PersistToken, TypeOK
    <2>. QED
      BY <1>6, <2>1 DEF PersistToken, PCs
  <1>7. CASE LockTimeout(w)
    <2>1. pc[w] # "idle" /\ (Finish(w) \/ Goto(w, "failing"))
      BY <1>7 DEF LockTimeout, Active
    <2>. QED
      BY <2>1 DEF Finish, Goto, PCs
  <1>. QED
    BY <1>1, <1>2, <1>3, <1>4, <1>5, <1>6, <1>7 DEF Proceed, Mishap

\* Nobody but the workers touches what the slots hold.
LEMMA OthersLeaveWorkers ==
    ASSUME \/ \E j \in Jobs : Submit(j) \/ ClockStep(j) \/ LeaseOverrun(j)
           \/ Reap
           \/ \E o \in Operators : OperatorStep(o)
           \/ UNCHANGED vars
    PROVE  UNCHANGED <<kind, pc, job, mem, lock, done, calls, lost, events>>
  BY DEF Submit, ClockStep, LeaseExpires, BecomesDue, DeadlinePasses, LeaseOverrun, Reap,
         OperatorStep, AskCancel, AskReplay, CancelCommits, ReplayCommits, vars

LEMMA TypedStep == TypedInv /\ [Next]_vars => TypedInv'
  <1>. SUFFICES ASSUME TypedInv, [Next]_vars PROVE TypedInv'
    OBVIOUS
  <1>. TypeOK /\ Busy
    BY DEF TypedInv
  <1>1. ASSUME NEW w \in Workers, Proceed(w) \/ Mishap(w) PROVE TypedInv'
    <2>1. TypeOK'
      BY <1>1, TypeProceed, TypeMishap
    <2>2. Busy'
      BY <1>1, WorkerMoves, ConstantsAssumption DEF TypeOK, Busy
    <2>. QED
      BY <2>1, <2>2 DEF TypedInv
  <1>2. ASSUME \/ \E j \in Jobs : Submit(j) \/ ClockStep(j) \/ LeaseOverrun(j)
               \/ Reap
               \/ \E o \in Operators : OperatorStep(o)
               \/ UNCHANGED vars
        PROVE  TypedInv'
    <2>1. TypeOK'
      <3>1. CASE UNCHANGED vars
        BY <3>1 DEF vars, TypeOK
      <3>. QED
        BY <1>2, <3>1, TypeSystem, TypeOperator
    <2>2. Busy'
      BY <1>2, OthersLeaveWorkers DEF Busy
    <2>. QED
      BY <2>1, <2>2 DEF TypedInv
  <1>. QED
    BY <1>1, <1>2 DEF Next

\* Every reachable state is well typed: no transaction writes a status outside the
\* enum, and no slot is at work without a job.
THEOREM TypeCorrect == Spec => []TypeOK
  <1>1. TypedInv => TypeOK
    BY DEF TypedInv
  <1>. QED
    BY <1>1, TypedInit, TypedStep, PTL DEF Spec

-----------------------------------------------------------------------------
(* Mutual exclusion                                                        *)

\* An operator decided on a status that allowed what it asked.
AsksAllowed ==
    \A o \in Operators :
        /\ ask[o].op # "none" => ask[o].job \in Jobs
        /\ ask[o].op = "cancel" => ask[o].seen.status \in Cancellable
        /\ ask[o].op = "replay" => ask[o].seen.status \in Replayable /\ MaxReplays > 0

\* A row someone works on is running, or was cancelled under the worker; rag.ingest
\* has settled it itself when it is about to return or to raise.  While it is running its lease
\* is live.
HeldRows ==
    \A w \in Workers : Active(w) =>
        /\ \/ row[job[w]].status \in {"running", "cancelled"}
           \/ pc[w] = "completed" /\ row[job[w]].status = "succeeded"
           \/ pc[w] = "failing" /\ row[job[w]].status \in {"succeeded", "failed"}
        /\ row[job[w]].status = "running" => row[job[w]].lease = "live"

\* What a handler's session loaded is not an outcome yet.
OpenCopies ==
    \A w \in Workers :
        pc[w] \in {"calling", "detached", "called", "recorded", "rejected"} =>
            mem[w].status \in {"running", "cancelled"}

OneWorker ==
    \A v, w \in Workers : Active(v) /\ Active(w) /\ job[v] = job[w] => v = w

\* Exclusive is not inductive: that the reaper never takes a row from under a worker
\* rests on the lease being live, and that nobody else can claim it on its status.
ExclusionInv ==
    /\ TypedInv
    /\ AsksAllowed
    /\ Orderly => HeldRows /\ OpenCopies /\ OneWorker

\* A handler that keeps the row lock works under it, on the row as it loaded it.
Uncommitting == {"inline", "removing"}
LockedCopies ==
    \A w \in Workers :
        pc[w] \in {"calling", "called", "completed"} /\ kind[job[w]] \in Uncommitting =>
        lock[job[w]] = w /\ row[job[w]].status = mem[w].status

Families ==
    \A w \in Workers :
        /\ pc[w] \notin {"idle", "claimed"} => kind[job[w]] # "unhandled"
        /\ pc[w] \in {"recorded", "rejected"} => kind[job[w]] = "ingest"
        /\ pc[w] = "completed" => kind[job[w]] # "inline"

\* Nobody works on a job that was never submitted.
Present == \A w \in Workers : Active(w) => row[job[w]].status # "absent"

\* A copy that already says succeeded has nothing left to flush into the lease.
SettledCopies ==
    \A w \in Workers : pc[w] = "completed" =>
        mem[w].status \in {"running", "cancelled"} \/ mem[w].lease = "none"

\* RunningIsLeased is not inductive either: that a flush never leaves `running` behind
\* without a lease rests on what the session loaded, and that on the row lock (for the
\* handlers that keep it) or on the exclusion (for those that give the lock up).
LeaseInv ==
    /\ ExclusionInv
    /\ LockedCopies /\ Families /\ Present
    /\ Orderly => SettledCopies
    /\ RunningIsLeased

\* What the assignments leave in the columns the invariants read.
LEMMA Outcomes ==
    ASSUME NEW r \in Rows
    PROVE  /\ Claimed(r).status = "running" /\ Claimed(r).lease = "live"
           /\ Completed(r).status = "succeeded"
           /\ Failed(r).status = "failed"
           /\ Cancelled(r).status = "cancelled"
           /\ Blocked(r).status = "blocked"
           /\ Deferred(r).status = "queued"
           /\ Released(r).status = "queued"
           /\ Replayed(r).status = "queued"
           /\ Retried(r).status \in {"retrying", "dead"}
           /\ Loaded(r).status = r.status /\ Loaded(r).lease = r.lease
  BY DEF Rows, Claimed, Completed, Failed, Cancelled, Blocked, Deferred, Released,
         Replayed, Retried, Loaded

LEMMA FlushedStatus ==
    ASSUME NEW cur \in Rows, NEW seen \in Rows, NEW new \in Rows
    PROVE  /\ new.status = seen.status => Flush(cur, seen, new).status = cur.status
           /\ new.status # seen.status => Flush(cur, seen, new).status = new.status
  BY DEF Flush, Keep, Rows

\* A worker's step touches no row but the one it claims or works on, and no other slot.
LEMMA WorkerFrame ==
    ASSUME TypedInv, NEW w \in Workers, Proceed(w) \/ Mishap(w)
    PROVE  /\ \A j \in Jobs : j # job[w] /\ j # job'[w] => row'[j] = row[j]
           /\ \A v \in Workers \ {w} :
                 pc'[v] = pc[v] /\ job'[v] = job[v] /\ mem'[v] = mem[v]
           /\ ask' = ask /\ kind' = kind
  <1>. TypeOK
    BY DEF TypedInv
  <1>1. \A v \in Workers \ {w} : pc'[v] = pc[v] /\ job'[v] = job[v]
    BY WorkerMoves DEF TypeOK
  <1>2. \A v \in Workers \ {w} : mem'[v] = mem[v]
    BY DEF TypeOK, Proceed, Mishap, Claim, FailUnhandled, Block, Intend, Defer, Admit,
         StartHandler, PersistToken, CallSucceeds, CallFails, CallRefused,
         DetachedReturns, Record, IngestCompletes, IngestFails, Complete, Fail,
         ReplyLost, LoseSession, LockTimeout, Crash, Finish, Goto
  <1>3. ask' = ask /\ kind' = kind
    BY DEF Proceed, Mishap, Claim, FailUnhandled, Block, Intend, Defer, Admit,
         StartHandler, PersistToken, CallSucceeds, CallFails, CallRefused,
         DetachedReturns, Record, IngestCompletes, IngestFails, Complete, Fail,
         ReplyLost, LoseSession, LockTimeout, Crash
  <1>4. \A j \in Jobs : j # job[w] /\ j # job'[w] => row'[j] = row[j]
    <2>1. ASSUME NEW j \in Jobs, Claim(w, j)
          PROVE  \A i \in Jobs : i # job'[w] => row'[i] = row[i]
      BY <2>1 DEF Claim, TypeOK
    <2>2. ASSUME ~ \E j \in Jobs : Claim(w, j)
          PROVE  \A j \in Jobs : j # job[w] => row'[j] = row[j]
      BY <2>2 DEF TypeOK, Proceed, Mishap, FailUnhandled, Block, Intend, Defer, Admit,
           StartHandler, PersistToken, CallSucceeds, CallFails, CallRefused,
           DetachedReturns, Record, IngestCompletes, IngestFails, Complete, Fail,
           ReplyLost, LoseSession, LockTimeout, Crash
    <2>. QED
      BY <2>1, <2>2
  <1>. QED
    BY <1>1, <1>2, <1>3, <1>4

LEMMA ExclusionInit == Init => ExclusionInv
  BY TypedInit DEF Init, ExclusionInv, AsksAllowed, HeldRows, OpenCopies, OneWorker,
     Active, NoAsk

LEMMA AsksStep == ExclusionInv /\ [Next]_vars => AsksAllowed'
  <1>. SUFFICES ASSUME ExclusionInv, [Next]_vars PROVE AsksAllowed'
    OBVIOUS
  <1>. AsksAllowed /\ TypeOK
    BY DEF ExclusionInv, TypedInv
  <1>1. CASE UNCHANGED ask
    BY <1>1 DEF AsksAllowed
  <1>2. ASSUME NEW o \in Operators, NEW j \in Jobs, AskCancel(o, j) PROVE AsksAllowed'
    BY <1>2, Outcomes DEF AskCancel, AsksAllowed, TypeOK
  <1>3. ASSUME NEW o \in Operators, NEW j \in Jobs, AskReplay(o, j) PROVE AsksAllowed'
    <2>1. MaxReplays > 0
      BY <1>3, ConstantsAssumption DEF AskReplay, TypeOK
    <2>. QED
      BY <1>3, <2>1, Outcomes DEF AskReplay, AsksAllowed, TypeOK
  <1>4. ASSUME NEW o \in Operators, CancelCommits(o) \/ ReplayCommits(o)
        PROVE  AsksAllowed'
    BY <1>4 DEF CancelCommits, ReplayCommits, NoAsk, AsksAllowed, TypeOK
  <1>5. ASSUME NEW w \in Workers, Proceed(w) \/ Mishap(w) PROVE UNCHANGED ask
    BY <1>5, WorkerFrame DEF ExclusionInv
  <1>6. ASSUME \/ \E j \in Jobs : Submit(j) \/ ClockStep(j) \/ LeaseOverrun(j)
               \/ Reap
               \/ UNCHANGED vars
        PROVE  UNCHANGED ask
    BY <1>6 DEF Submit, ClockStep, LeaseExpires, BecomesDue, DeadlinePasses, LeaseOverrun,
                Reap, vars
  <1>. QED
    BY <1>1, <1>2, <1>3, <1>4, <1>5, <1>6 DEF Next, OperatorStep

\* No claim, and nothing a worker does, puts two workers on a job.
LEMMA OneWorkerStep ==
    ASSUME ExclusionInv, Orderly, NEW w \in Workers, Proceed(w) \/ Mishap(w)
    PROVE  OneWorker'
  <1>. TypedInv /\ TypeOK /\ HeldRows /\ OneWorker
    BY DEF ExclusionInv, TypedInv
  <1>1. ASSUME NEW j \in Jobs, Claim(w, j) PROVE OneWorker'
    <2>1. \A v \in Workers : Active(v) => job[v] # j
      BY <1>1 DEF Claim, HeldRows, Claimable
    <2>. QED
      BY <1>1, <2>1 DEF Claim, OneWorker, Active, TypeOK
  <1>2. ASSUME ~ \E j \in Jobs : Claim(w, j) PROVE OneWorker'
    <2>1. Active(w)
      BY <1>2 DEF Active, Proceed, Mishap, FailUnhandled, Block, Intend, Defer, Admit,
           StartHandler, PersistToken, CallSucceeds, CallFails, CallRefused,
           DetachedReturns, Record, IngestCompletes, IngestFails, Complete, Fail,
           ReplyLost, LoseSession, LockTimeout, Crash
    <2>2. \/ pc'[w] = "idle"
          \/ job'[w] = job[w]
      BY <2>1, WorkerMoves DEF Active, TypeOK
    <2>. QED
      BY <2>1, <2>2, WorkerFrame DEF OneWorker, Active
  <1>. QED
    BY <1>1, <1>2

\* What worker w itself sees after its step: its row is still its own.
LEMMA OwnRowStep ==
    ASSUME ExclusionInv, Orderly, NEW w \in Workers, Proceed(w) \/ Mishap(w), Active(w)'
    PROVE  /\ \/ row'[job'[w]].status \in {"running", "cancelled"}
              \/ pc'[w] = "completed" /\ row'[job'[w]].status = "succeeded"
              \/ pc'[w] = "failing" /\ row'[job'[w]].status \in {"succeeded", "failed"}
           /\ row'[job'[w]].status = "running" => row'[job'[w]].lease = "live"
           /\ pc'[w] \in {"calling", "detached", "called", "recorded", "rejected"} =>
                mem'[w].status \in {"running", "cancelled"}
  <1>. TypedInv /\ TypeOK /\ HeldRows /\ OpenCopies /\ Busy
    BY DEF ExclusionInv, TypedInv
  <1>. DEFINE Goal == /\ \/ row'[job'[w]].status \in {"running", "cancelled"}
                         \/ pc'[w] = "completed" /\ row'[job'[w]].status = "succeeded"
                         \/ pc'[w] = "failing" /\ row'[job'[w]].status \in {"succeeded", "failed"}
                      /\ row'[job'[w]].status = "running" => row'[job'[w]].lease = "live"
                      /\ pc'[w] \in {"calling", "detached", "called", "recorded", "rejected"}
                           => mem'[w].status \in {"running", "cancelled"}
  <1>0. pc[w] # "idle" => job[w] \in Jobs /\ row[job[w]] \in Rows /\ mem[w] \in Rows
    BY DEF Busy, TypeOK
  <1>1. ASSUME NEW j \in Jobs, Claim(w, j) PROVE Goal
    BY <1>1, Outcomes DEF Claim, TypeOK
  <1>2. CASE Intend(w)
    <2>1. row' = [row EXCEPT ![job[w]] = Claimed(@)] /\ Goto(w, "admission")
      BY <1>2 DEF Intend, Active, Finish, TypeOK
    <2>. QED
      BY <1>0, <1>2, <2>1, Outcomes DEF Goto, Intend, TypeOK
  <1>3. CASE StartHandler(w)
    <2>1. row[job[w]].status \in {"running", "cancelled"}
      BY <1>3 DEF StartHandler, HeldRows, Active
    <2>2. mem'[w].status \in {"running", "cancelled"}
      BY <1>0, <1>3, <2>1, Outcomes DEF StartHandler, TypeOK
    <2>. QED
      BY <1>3, <2>1, <2>2 DEF StartHandler, TypeOK, HeldRows, Active
  <1>4. ASSUME Admit(w) \/ PersistToken(w) \/ CallSucceeds(w) \/ CallFails(w)
                \/ CallRefused(w) \/ DetachedReturns(w) \/ Record(w) \/ ReplyLost(w)
                \/ LoseSession(w)
        PROVE  Goal
    <2>1. /\ row' = row /\ job' = job /\ mem' = mem
          /\ pc[w] \in {"admission", "calling", "called", "detached"}
          /\ pc[w] = "admission" => pc'[w] = "loading"
      BY <1>4 DEF Admit, PersistToken, CallSucceeds, CallFails, CallRefused,
                  DetachedReturns, Record, ReplyLost, LoseSession, Goto, TypeOK
    <2>. QED
      BY <2>1 DEF HeldRows, OpenCopies, Active
  <1>5. CASE IngestCompletes(w)
    <2>1. mem[w].status \in {"running", "cancelled"}
      BY <1>5 DEF IngestCompletes, OpenCopies
    <2>2. row'[job[w]] = Flush(row[job[w]], mem[w], Completed(mem[w]))
      BY <1>0, <1>5 DEF IngestCompletes, TypeOK
    <2>3. row'[job[w]].status = "succeeded"
      <3>1. row[job[w]] \in Rows /\ mem[w] \in Rows
        BY <1>0, <1>5 DEF IngestCompletes
      <3>2. Completed(mem[w]) \in Rows
        BY <3>1, RowOperators
      <3>. QED
        BY <2>1, <2>2, <3>1, <3>2, Outcomes, FlushedStatus
    <2>. QED
      BY <1>5, <2>3 DEF IngestCompletes, TypeOK
  <1>6. CASE IngestFails(w)
    <2>1. mem[w].status \in {"running", "cancelled"}
      BY <1>6 DEF IngestFails, OpenCopies
    <2>2. row'[job[w]] = Flush(row[job[w]], mem[w], Failed(mem[w]))
      BY <1>0, <1>6 DEF IngestFails, TypeOK
    <2>3. row'[job[w]].status = "failed"
      <3>1. row[job[w]] \in Rows /\ mem[w] \in Rows
        BY <1>0, <1>6 DEF IngestFails
      <3>2. Failed(mem[w]) \in Rows
        BY <3>1, RowOperators
      <3>. QED
        BY <2>1, <2>2, <3>1, <3>2, Outcomes, FlushedStatus
    <2>. QED
      BY <1>6, <2>3 DEF IngestFails, Goto, TypeOK
  <1>7. ~(FailUnhandled(w) \/ Block(w) \/ Defer(w) \/ Complete(w) \/ Fail(w) \/ Crash(w))
    BY DEF FailUnhandled, Block, Defer, Complete, Fail, Crash, Finish, Active, TypeOK
  <1>8. CASE LockTimeout(w)
    <2>1. Active(w) /\ row' = row /\ Goto(w, "failing")
      BY <1>8 DEF LockTimeout, Active, Finish, TypeOK
    <2>. QED
      BY <2>1 DEF Goto, HeldRows, Active, TypeOK
  <1>. QED
    BY <1>1, <1>2, <1>3, <1>4, <1>5, <1>6, <1>7, <1>8 DEF Proceed, Mishap

LEMMA ExclusionWorkerStep ==
    ASSUME ExclusionInv, Orderly, NEW w \in Workers, Proceed(w) \/ Mishap(w)
    PROVE  (HeldRows /\ OpenCopies /\ OneWorker)'
  <1>. TypedInv /\ TypeOK /\ HeldRows /\ OpenCopies /\ OneWorker /\ Busy
    BY DEF ExclusionInv, TypedInv
  <1>. OneWorker'
    BY OneWorkerStep
  <1>1. ASSUME NEW v \in Workers \ {w}, Active(v)'
        PROVE  /\ pc'[v] = pc[v] /\ job'[v] = job[v] /\ mem'[v] = mem[v]
               /\ row'[job[v]] = row[job[v]]
    <2>1. pc'[v] = pc[v] /\ job'[v] = job[v] /\ mem'[v] = mem[v]
      BY WorkerFrame
    <2>2. job[v] \in Jobs
      BY <1>1, <2>1 DEF Active, Busy, TypeOK
    <2>3. job[v] # job[w]
      BY <1>1, <2>1, <2>2, ConstantsAssumption DEF OneWorker, Active, Busy
    <2>4. job[v] # job'[w]
      <3>1. CASE pc'[w] = "idle"
        BY <2>2, <3>1, TypedStep, ConstantsAssumption DEF TypedInv, Busy, Next
      <3>2. CASE pc'[w] # "idle"
        BY <1>1, <2>1, <3>2 DEF OneWorker, Active
      <3>. QED
        BY <3>1, <3>2
    <2>. QED
      BY <2>1, <2>2, <2>3, <2>4, WorkerFrame
  <1>2. HeldRows'
    BY <1>1, OwnRowStep DEF HeldRows, Active
  <1>3. OpenCopies'
    BY <1>1, OwnRowStep DEF OpenCopies, Active
  <1>. QED
    BY <1>2, <1>3

\* A flush of a cancel is a cancel: the status it read was another one.
LEMMA CancelFlush ==
    ASSUME TypeOK, AsksAllowed, NEW o \in Operators, CancelCommits(o)
    PROVE  /\ row'[ask[o].job].status = "cancelled"
           /\ \A j \in Jobs : j # ask[o].job => row'[j] = row[j]
  <1>1. ask[o].job \in Jobs /\ ask[o].seen \in Rows /\ row[ask[o].job] \in Rows
    BY DEF CancelCommits, AsksAllowed, TypeOK
  <1>2. ask[o].seen.status # "cancelled"
    BY DEF CancelCommits, AsksAllowed, Cancellable
  <1>3. Cancelled(ask[o].seen) \in Rows
    BY <1>1, RowOperators
  <1>4. row'[ask[o].job] = Flush(row[ask[o].job], ask[o].seen, Cancelled(ask[o].seen))
    BY <1>1 DEF CancelCommits, TypeOK
  <1>5. row'[ask[o].job].status = "cancelled"
    BY <1>1, <1>2, <1>3, <1>4, Outcomes, FlushedStatus
  <1>. QED
    BY <1>5 DEF CancelCommits, TypeOK

\* The reaper leaves the rows that are worked on alone, the clock changes nothing in
\* them that matters, and an operator can only cancel them.
LEMMA ExclusionOthersStep ==
    ASSUME ExclusionInv, Orderly,
           \/ \E j \in Jobs : Submit(j) \/ ClockStep(j) \/ LeaseOverrun(j)
           \/ Reap
           \/ \E o \in Operators : OperatorStep(o)
           \/ UNCHANGED vars
    PROVE  (HeldRows /\ OpenCopies /\ OneWorker)'
  <1>. TypeOK /\ Busy /\ AsksAllowed /\ HeldRows /\ OpenCopies /\ OneWorker
    BY DEF ExclusionInv, TypedInv
  <1>1. UNCHANGED <<pc, job, mem>>
    BY OthersLeaveWorkers
  <1>2. (OpenCopies /\ OneWorker)'
    BY <1>1 DEF OpenCopies, OneWorker, Active
  <1>3. ASSUME NEW w \in Workers, Active(w)
        PROVE  \/ row'[job[w]].status = "cancelled"
               \/ /\ row'[job[w]].status = row[job[w]].status
                  /\ row'[job[w]].lease = row[job[w]].lease
    <2>. DEFINE Kept == \/ row'[job[w]].status = "cancelled"
                        \/ /\ row'[job[w]].status = row[job[w]].status
                           /\ row'[job[w]].lease = row[job[w]].lease
    <2>1. /\ job[w] \in Jobs /\ row[job[w]] \in Rows
          /\ row[job[w]].status \in {"running", "cancelled", "succeeded", "failed"}
          /\ row[job[w]].status = "running" => row[job[w]].lease = "live"
      BY <1>3 DEF Active, Busy, TypeOK, HeldRows
    <2>2. ASSUME NEW j \in Jobs, Submit(j) PROVE Kept
      BY <2>1, <2>2 DEF Submit, TypeOK
    <2>3. ASSUME NEW j \in Jobs, LeaseExpires(j) PROVE Kept
      <3>1. j # job[w]
        BY <2>3 DEF LeaseExpires, ActiveOn
      <3>. QED
        BY <2>1, <2>3, <3>1 DEF LeaseExpires, TypeOK
    <2>4. ASSUME NEW j \in Jobs, BecomesDue(j) PROVE Kept
      BY <2>1, <2>4 DEF BecomesDue, Claimable, TypeOK
    <2>5. ASSUME NEW j \in Jobs, DeadlinePasses(j) PROVE Kept
      BY <2>1, <2>5 DEF DeadlinePasses, TypeOK, Rows
    <2>6. ASSUME NEW j \in Jobs, LeaseOverrun(j) PROVE Kept
      BY <2>6 DEF LeaseOverrun, Orderly
    <2>7. CASE Reap
      BY <2>1, <2>7 DEF Reap, ExpiredRows, AcceptedRows, TypeOK
    <2>8. ASSUME NEW o \in Operators, CancelCommits(o) PROVE Kept
      BY <2>1, <2>8, CancelFlush
    <2>9. ASSUME NEW o \in Operators, ReplayCommits(o) PROVE Kept
      BY <2>9, ConstantsAssumption DEF ReplayCommits, AsksAllowed, Orderly
    <2>10. ASSUME NEW o \in Operators, NEW j \in Jobs, AskCancel(o, j) \/ AskReplay(o, j)
           PROVE Kept
      BY <2>10 DEF AskCancel, AskReplay
    <2>11. CASE UNCHANGED vars
      BY <2>11 DEF vars
    <2>. QED
      BY <2>2, <2>3, <2>4, <2>5, <2>6, <2>7, <2>8, <2>9, <2>10, <2>11
         DEF ClockStep, OperatorStep
  <1>4. HeldRows'
    BY <1>1, <1>3 DEF HeldRows, Active
  <1>. QED
    BY <1>2, <1>4

LEMMA ExclusionStep == ExclusionInv /\ [Next]_vars => ExclusionInv'
  <1>. SUFFICES ASSUME ExclusionInv, [Next]_vars PROVE ExclusionInv'
    OBVIOUS
  <1>1. TypedInv' /\ AsksAllowed'
    BY TypedStep, AsksStep DEF ExclusionInv
  <1>2. ASSUME Orderly PROVE (HeldRows /\ OpenCopies /\ OneWorker)'
    BY <1>2, ExclusionWorkerStep, ExclusionOthersStep DEF Next
  <1>. QED
    BY <1>1, <1>2 DEF ExclusionInv, Orderly

\* However many runners, jobs and crashes there are, two runners never process the
\* same job at once while leases outlive the work and nobody replays jobs: the
\* claim's UPDATE, the lease and the reaper make a mutual exclusion.
THEOREM MutualExclusion == Spec => []Exclusive
  <1>1. ExclusionInv => Exclusive
    BY DEF ExclusionInv, OneWorker, Exclusive
  <1>. QED
    BY <1>1, ExclusionInit, ExclusionStep, PTL DEF Spec

-----------------------------------------------------------------------------
(* Leases                                                                  *)

\* A worker writes no row and drops no lock that another one holds.
LEMMA LockFrame ==
    ASSUME TypedInv, NEW w \in Workers, Proceed(w) \/ Mishap(w),
           NEW j \in Jobs, lock[j] \notin {w, Nobody}
    PROVE  row'[j] = row[j] /\ lock'[j] = lock[j]
  <1>. TypeOK
    BY DEF TypedInv
  <1>1. ASSUME NEW i \in Jobs, Claim(w, i) PROVE row'[j] = row[j] /\ lock'[j] = lock[j]
    BY <1>1 DEF Claim, Free, TypeOK
  <1>2. ASSUME FailUnhandled(w) \/ Block(w) \/ Intend(w) \/ Defer(w) \/ IngestCompletes(w)
               \/ IngestFails(w) \/ Fail(w)
        PROVE  row'[j] = row[j] /\ lock'[j] = lock[j]
    BY <1>2 DEF FailUnhandled, Block, Intend, Defer, IngestCompletes, IngestFails, Fail,
         Free, TypeOK
  <1>3. ASSUME Admit(w) \/ CallSucceeds(w) \/ CallRefused(w) \/ DetachedReturns(w)
               \/ LockTimeout(w)
        PROVE  row'[j] = row[j] /\ lock'[j] = lock[j]
    BY <1>3 DEF Admit, CallSucceeds, CallRefused, DetachedReturns, LockTimeout
  <1>4. ASSUME PersistToken(w) \/ CallFails(w) \/ Record(w) \/ ReplyLost(w)
               \/ LoseSession(w) \/ Crash(w)
        PROVE  row'[j] = row[j] /\ lock'[j] = lock[j]
    BY <1>4 DEF PersistToken, CallFails, Record, ReplyLost, LoseSession, LockTimeout,
         Crash, Unlock
  <1>5. CASE StartHandler(w)
    BY <1>5 DEF StartHandler, Free, TypeOK
  <1>6. CASE Complete(w)
    BY <1>6 DEF Complete, Unlock, TypeOK
  <1>. QED
    BY <1>1, <1>2, <1>3, <1>4, <1>5, <1>6 DEF Proceed, Mishap

\* What the others do to a row that is locked: at most its lease, its due date or its
\* deadline runs out.
LEMMA OthersKeepLocked ==
    ASSUME TypeOK, NEW j \in Jobs, lock[j] # Nobody, row[j].status # "absent",
           \/ \E i \in Jobs : Submit(i) \/ ClockStep(i) \/ LeaseOverrun(i)
           \/ Reap
           \/ \E o \in Operators : OperatorStep(o)
           \/ UNCHANGED vars
    PROVE  row'[j].status = row[j].status
  <1>0. row[j] \in Rows
    BY DEF TypeOK
  <1>1. ASSUME NEW i \in Jobs, Submit(i) PROVE row'[j].status = row[j].status
    BY <1>1 DEF Submit, TypeOK
  <1>2. ASSUME NEW i \in Jobs, LeaseExpires(i) \/ LeaseOverrun(i)
        PROVE  row'[j].status = row[j].status
    BY <1>0, <1>2 DEF LeaseExpires, LeaseOverrun, TypeOK, Rows
  <1>3. ASSUME NEW i \in Jobs, BecomesDue(i) PROVE row'[j].status = row[j].status
    BY <1>0, <1>3 DEF BecomesDue, TypeOK, Rows
  <1>4. ASSUME NEW i \in Jobs, DeadlinePasses(i) PROVE row'[j].status = row[j].status
    BY <1>0, <1>4 DEF DeadlinePasses, TypeOK, Rows
  <1>5. CASE Reap
    BY <1>5 DEF Reap, Free
  <1>6. ASSUME NEW o \in Operators, CancelCommits(o) \/ ReplayCommits(o)
        PROVE  row'[j].status = row[j].status
    BY <1>6 DEF CancelCommits, ReplayCommits, Free, TypeOK
  <1>7. ASSUME NEW o \in Operators, NEW i \in Jobs, AskCancel(o, i) \/ AskReplay(o, i)
        PROVE  row'[j].status = row[j].status
    BY <1>7 DEF AskCancel, AskReplay
  <1>8. CASE UNCHANGED vars
    BY <1>8 DEF vars
  <1>. QED
    BY <1>1, <1>2, <1>3, <1>4, <1>5, <1>6, <1>7, <1>8 DEF ClockStep, OperatorStep

\* A replay's flush queues the row: the status it read was another one.
LEMMA ReplayFlush ==
    ASSUME TypeOK, AsksAllowed, NEW o \in Operators, ReplayCommits(o)
    PROVE  /\ row'[ask[o].job].status = "queued"
           /\ \A j \in Jobs : j # ask[o].job => row'[j] = row[j]
  <1>1. ask[o].job \in Jobs /\ ask[o].seen \in Rows /\ row[ask[o].job] \in Rows
    BY DEF ReplayCommits, AsksAllowed, TypeOK
  <1>2. ask[o].seen.status # "queued"
    BY DEF ReplayCommits, AsksAllowed, Replayable
  <1>3. Replayed(ask[o].seen) \in Rows
    BY <1>1, RowOperators
  <1>. DEFINE F == Flush(row[ask[o].job], ask[o].seen, Replayed(ask[o].seen))
  <1>4. F \in Rows /\ F.status = "queued"
    <2>1. Replayed(ask[o].seen).status = "queued"
      BY <1>1, Outcomes
    <2>2. F \in Rows
      BY <1>1, <1>3, FlushIsRow
    <2>3. F.status = Replayed(ask[o].seen).status
      BY <1>1, <1>2, <1>3, <2>1, FlushedStatus
    <2>. QED
      BY <2>1, <2>2, <2>3
  <1>. HIDE DEF F
  <1>5. row'[ask[o].job] = [F EXCEPT !.due = TRUE]
    BY <1>1 DEF ReplayCommits, TypeOK, F
  <1>6. row'[ask[o].job].status = "queued"
    BY <1>4, <1>5 DEF Rows
  <1>. QED
    BY <1>6 DEF ReplayCommits, TypeOK

\* What the others leave of a row: a running row keeps a lease.
LEMMA OthersKeepLeases ==
    ASSUME TypeOK, AsksAllowed, NEW j \in Jobs,
           \/ \E i \in Jobs : Submit(i) \/ ClockStep(i) \/ LeaseOverrun(i)
           \/ Reap
           \/ \E o \in Operators : OperatorStep(o)
           \/ UNCHANGED vars
    PROVE  /\ row[j].status # "absent" => row'[j].status # "absent"
           /\ row'[j].status = "running" =>
                /\ row[j].status = "running"
                /\ row[j].lease # "none" => row'[j].lease # "none"
  <1>. DEFINE Goal == /\ row[j].status # "absent" => row'[j].status # "absent"
                      /\ row'[j].status = "running" =>
                           /\ row[j].status = "running"
                           /\ row[j].lease # "none" => row'[j].lease # "none"
  <1>0. row[j] \in Rows
    BY DEF TypeOK
  <1>1. ASSUME NEW i \in Jobs, Submit(i) PROVE Goal
    BY <1>1 DEF Submit, NewRow, TypeOK
  <1>2. ASSUME NEW i \in Jobs, LeaseExpires(i) \/ LeaseOverrun(i) PROVE Goal
    <2>1. row' = [row EXCEPT ![i].lease = "expired"]
      BY <1>2 DEF LeaseExpires, LeaseOverrun
    <2>2. row'[j] = IF i = j THEN [row[j] EXCEPT !.lease = "expired"] ELSE row[j]
      BY <2>1 DEF TypeOK
    <2>. QED
      BY <1>0, <2>2 DEF Rows
  <1>3. ASSUME NEW i \in Jobs, BecomesDue(i) PROVE Goal
    BY <1>0, <1>3 DEF BecomesDue, TypeOK, Rows
  <1>4. ASSUME NEW i \in Jobs, DeadlinePasses(i) PROVE Goal
    BY <1>0, <1>4 DEF DeadlinePasses, TypeOK, Rows
  <1>5. CASE Reap
    <2>1. Released(row[j]).status = "queued"
      BY <1>0, Outcomes
    <2>2. [row[j] EXCEPT !.status = "queued"].status = "queued"
      BY <1>0 DEF Rows
    <2>. QED
      BY <1>5, <2>1, <2>2 DEF Reap
  <1>6. ASSUME NEW o \in Operators, CancelCommits(o) PROVE Goal
    BY <1>6, CancelFlush
  <1>7. ASSUME NEW o \in Operators, ReplayCommits(o) PROVE Goal
    BY <1>7, ReplayFlush
  <1>8. ASSUME NEW o \in Operators, NEW i \in Jobs, AskCancel(o, i) \/ AskReplay(o, i)
        PROVE  Goal
    BY <1>8 DEF AskCancel, AskReplay
  <1>9. CASE UNCHANGED vars
    BY <1>9 DEF vars
  <1>. QED
    BY <1>1, <1>2, <1>3, <1>4, <1>5, <1>6, <1>7, <1>8, <1>9 DEF ClockStep, OperatorStep

\* What a worker leaves of the row it works on: it is still there, and a running row
\* that must have a lease has one.
LEMMA WorkerKeepsLeases ==
    ASSUME LeaseInv, NEW w \in Workers, Proceed(w) \/ Mishap(w), NEW j \in Jobs
    PROVE  /\ row[j].status # "absent" => row'[j].status # "absent"
           /\ row'[j].status = "running" /\ (KeepsLock(j) \/ Orderly)
                => row'[j].lease # "none"
  <1>. DEFINE Goal == /\ row[j].status # "absent" => row'[j].status # "absent"
                      /\ row'[j].status = "running" /\ (KeepsLock(j) \/ Orderly)
                           => row'[j].lease # "none"
  <1>. /\ TypedInv /\ TypeOK /\ Busy /\ LockedCopies /\ Families /\ RunningIsLeased
       /\ Orderly => HeldRows /\ OpenCopies /\ SettledCopies
    BY DEF LeaseInv, ExclusionInv, TypedInv
  <1>0. row[j] \in Rows /\ mem[w] \in Rows
    BY DEF TypeOK
  <1>1. CASE row'[j] = row[j]
    BY <1>1 DEF RunningIsLeased
  <1>2. ASSUME NEW i \in Jobs, Claim(w, i) PROVE Goal
    <2>1. row'[j] = row[j] \/ row'[j] = Claimed(row[j])
      BY <1>2 DEF Claim, TypeOK
    <2>. QED
      BY <1>0, <1>1, <2>1, Outcomes
  <1>3. CASE Intend(w)
    <2>1. row'[j] = row[j] \/ row'[j] = Claimed(row[j]) \/ row'[j] = Cancelled(row[j])
      BY <1>3 DEF Intend, TypeOK
    <2>. QED
      BY <1>0, <1>1, <2>1, Outcomes
  <1>4. ASSUME FailUnhandled(w) \/ Block(w) \/ Defer(w) \/ Fail(w) PROVE Goal
    <2>1. row'[j] \in {row[j], Failed(row[j]), Blocked(row[j]), Deferred(row[j]),
                      Retried(row[j])}
      BY <1>4 DEF FailUnhandled, Block, Defer, Fail, TypeOK
    <2>. QED
      BY <1>0, <1>1, <2>1, Outcomes
  <1>5. CASE IngestFails(w)
    <2>1. \/ row'[j] = row[j]
          \/ j = job[w] /\ row'[j] = Flush(row[j], mem[w], Failed(mem[w]))
      <3>1. CASE j = job[w]
        BY <1>5, <3>1 DEF IngestFails, TypeOK
      <3>2. CASE j # job[w]
        BY <1>5, <3>2 DEF IngestFails, TypeOK
      <3>. QED
        BY <3>1, <3>2
    <2>2. ~KeepsLock(job[w])
      BY <1>5 DEF IngestFails, Families, KeepsLock
    <2>3. Failed(mem[w]) \in Rows /\ Failed(mem[w]).status = "failed"
      BY <1>0, RowOperators, Outcomes
    <2>4. Orderly => mem[w].status # "failed"
      BY <1>5 DEF IngestFails, OpenCopies
    <2>. QED
      BY <1>0, <1>1, <2>1, <2>2, <2>3, <2>4, FlushedStatus
  <1>6. CASE IngestCompletes(w)
    <2>1. \/ row'[j] = row[j]
          \/ j = job[w] /\ row'[j] = Flush(row[j], mem[w], Completed(mem[w]))
      <3>1. CASE j = job[w]
        BY <1>6, <3>1 DEF IngestCompletes, TypeOK
      <3>2. CASE j # job[w]
        BY <1>6, <3>2 DEF IngestCompletes, TypeOK
      <3>. QED
        BY <3>1, <3>2
    <2>2. ~KeepsLock(job[w])
      BY <1>6 DEF IngestCompletes, Families, KeepsLock
    <2>3. Completed(mem[w]) \in Rows /\ Completed(mem[w]).status = "succeeded"
      BY <1>0, RowOperators, Outcomes
    <2>4. Orderly => mem[w].status # "succeeded"
      BY <1>6 DEF IngestCompletes, OpenCopies
    <2>. QED
      BY <1>0, <1>1, <2>1, <2>2, <2>3, <2>4, FlushedStatus
  <1>7. CASE Complete(w)
    <2>1. \/ row'[j] = row[j]
          \/ j = job[w] /\ row'[j] = Flush(row[j], mem[w], Completed(mem[w]))
      <3>1. CASE j = job[w]
        BY <1>7, <3>1 DEF Complete, TypeOK
      <3>2. CASE j # job[w]
        BY <1>7, <3>2 DEF Complete, TypeOK
      <3>. QED
        BY <3>1, <3>2
    <2>. SUFFICES ASSUME j = job[w], row'[j] = Flush(row[j], mem[w], Completed(mem[w]))
                  PROVE  Goal
      BY <1>1, <2>1
    <2>2. Completed(mem[w]) \in Rows /\ Completed(mem[w]).status = "succeeded"
      BY <1>0, RowOperators, Outcomes
    <2>3. row'[j].status = IF mem[w].status = "succeeded" THEN row[j].status
                           ELSE "succeeded"
      BY <1>0, <2>2, FlushedStatus
    <2>4. CASE kind[j] \in Uncommitting
      BY <1>7, <2>3, <2>4 DEF Complete, LockedCopies
    <2>7. CASE pc[w] = "called" /\ Orderly
      BY <2>3, <2>7 DEF OpenCopies
    <2>8. CASE kind[j] \notin Uncommitting /\ ~Orderly
      BY <1>7, <2>3, <2>8 DEF Complete, Families, KeepsLock, Uncommitting
    <2>5. CASE pc[w] = "completed" /\ Orderly
      <3>1. CASE mem[w].status # "succeeded"
        BY <2>3, <3>1
      <3>2. CASE mem[w].status = "succeeded"
        <4>1. mem[w].lease = "none"
          BY <2>5, <3>2 DEF SettledCopies
        <4>2. Completed(mem[w]).lease = "none"
          BY <1>0 DEF Completed, Rows
        <4>3. row'[j].lease = row[j].lease
          BY <1>0, <4>1, <4>2 DEF Flush, Keep, Rows
        <4>. QED
          BY <2>3, <3>2, <4>3 DEF RunningIsLeased
      <3>. QED
        BY <3>1, <3>2
    <2>. QED
      BY <1>7, <2>4, <2>5, <2>7, <2>8 DEF Complete
  <1>8. ASSUME Admit(w) \/ StartHandler(w) \/ PersistToken(w) \/ CallSucceeds(w) \/ CallFails(w) \/ CallRefused(w)
               \/ DetachedReturns(w) \/ Record(w) \/ Mishap(w)
        PROVE  Goal
    BY <1>1, <1>8 DEF Admit, StartHandler, PersistToken, CallSucceeds, CallFails,
         CallRefused, DetachedReturns, Record, Mishap, ReplyLost, LoseSession,
         LockTimeout, Crash
  <1>. QED
    BY <1>2, <1>3, <1>4, <1>5, <1>6, <1>7, <1>8 DEF Proceed

LEMMA LeaseInit == Init => LeaseInv
  <1>. SUFFICES ASSUME Init PROVE LeaseInv
    OBVIOUS
  <1>1. \A w \in Workers : pc[w] = "idle"
    BY DEF Init
  <1>2. \A j \in Jobs : row[j].status \in {"absent", "accepted"}
    BY DEF Init, NewRow, NoRow
  <1>. QED
    BY <1>1, <1>2, ExclusionInit DEF LeaseInv, LockedCopies, Families, Present,
       SettledCopies, RunningIsLeased, Active

\* Where a worker is in the code says which family its job is of.
LEMMA FamiliesStep ==
    ASSUME LeaseInv, NEW w \in Workers, Proceed(w) \/ Mishap(w)
    PROVE  Families'
  <1>. TypedInv /\ TypeOK /\ Families
    BY DEF LeaseInv, ExclusionInv, TypedInv
  <1>. DEFINE Own == /\ pc'[w] \notin {"idle", "claimed"} => kind[job'[w]] # "unhandled"
                     /\ pc'[w] \in {"recorded", "rejected"} => kind[job'[w]] = "ingest"
                     /\ pc'[w] = "completed" => kind[job'[w]] # "inline"
  <1>1. ASSUME NEW j \in Jobs, Claim(w, j) PROVE Own
    BY <1>1 DEF Claim, TypeOK
  <1>2. ASSUME Intend(w) PROVE Own
    <2>1. pc'[w] = "idle" \/ (pc'[w] = "admission" /\ job' = job)
      BY <1>2 DEF Intend, Finish, Goto, TypeOK
    <2>2. kind[job[w]] # "unhandled"
      BY <1>2 DEF Intend
    <2>. QED
      BY <2>1, <2>2
  <1>3. ASSUME FailUnhandled(w) \/ Block(w) \/ Defer(w) \/ Complete(w) \/ Fail(w) \/ Crash(w)
        PROVE  Own
    BY <1>3 DEF FailUnhandled, Block, Defer, Complete, Fail, Crash, Finish, TypeOK
  <1>4. ASSUME Admit(w) \/ CallSucceeds(w) \/ CallRefused(w) \/ LoseSession(w)
               \/ DetachedReturns(w) \/ IngestFails(w)
        PROVE  Own
    <2>1. /\ pc[w] \notin {"idle", "claimed"} /\ job' = job
          /\ \/ pc'[w] \in {"loading", "called", "detached", "failing"}
             \/ pc'[w] = "completed" /\ kind[job[w]] \in Waivable
      BY <1>4 DEF Admit, CallSucceeds, CallRefused, LoseSession, DetachedReturns,
             IngestFails, Goto, TypeOK
    <2>. QED
      BY <2>1 DEF Families, Waivable
  <1>7. ASSUME CallFails(w) \/ ReplyLost(w) PROVE Own
    <2>1. PICK l \in OnError(w) : Goto(w, l)
      BY <1>7 DEF CallFails, ReplyLost
    <2>2. pc[w] = "calling" /\ pc'[w] = l /\ job' = job
      BY <1>7, <2>1 DEF CallFails, ReplyLost, Goto, TypeOK
    <2>. QED
      BY <2>1, <2>2 DEF OnError, Families
  <1>8. ASSUME PersistToken(w) PROVE Own
    BY <1>8 DEF PersistToken, Families
  <1>5. ASSUME StartHandler(w) \/ Record(w) \/ IngestCompletes(w) PROVE Own
    <2>1. CASE StartHandler(w)
      BY <2>1 DEF StartHandler, Recording, Families, TypeOK
    <2>2. CASE Record(w)
      BY <2>2 DEF Record, Recording, Goto, Families, TypeOK
    <2>3. CASE IngestCompletes(w)
      <3>1. kind[job[w]] = "ingest"
        BY <2>3 DEF IngestCompletes, Families
      <3>. QED
        BY <2>3, <3>1 DEF IngestCompletes, TypeOK
    <2>. QED
      BY <1>5, <2>1, <2>2, <2>3
  <1>9. ASSUME LockTimeout(w) PROVE Own
    <2>1. pc'[w] = "idle" \/ (pc'[w] = "failing" /\ job' = job)
      BY <1>9 DEF LockTimeout, Active, Finish, Goto, TypeOK
    <2>2. pc'[w] = "failing" => pc[w] \notin {"idle", "claimed"}
      BY <1>9 DEF LockTimeout, Active, Finish, TypeOK
    <2>. QED
      BY <2>1, <2>2 DEF Families
  <1>6. Own
    BY <1>1, <1>2, <1>3, <1>4, <1>5, <1>7, <1>8, <1>9 DEF Proceed, Mishap
  <1>. QED
    BY <1>6, WorkerFrame DEF Families

\* A worker inside a handler that does not commit holds its row lock and its copy agrees with the row.
LEMMA LockedCopiesWorkerStep ==
    ASSUME LeaseInv, NEW w \in Workers, Proceed(w) \/ Mishap(w)
    PROVE  LockedCopies'
  <1>. TypedInv /\ TypeOK /\ Busy /\ Families /\ LockedCopies
    BY DEF LeaseInv, ExclusionInv, TypedInv
  <1>1. ASSUME pc'[w] \in {"calling", "called", "completed"}, kind[job'[w]] \in Uncommitting
        PROVE  lock'[job'[w]] = w /\ row'[job'[w]].status = mem'[w].status
    <2>4. \/ pc'[w] \notin {"calling", "called", "completed"}
          \/ StartHandler(w) \/ CallSucceeds(w) \/ CallRefused(w)
          \/ PersistToken(w) \/ CallFails(w) \/ ReplyLost(w) \/ Record(w)
          \/ IngestCompletes(w)
      BY DEF Proceed, Mishap, Claim, FailUnhandled, Block, Intend, Defer, Admit,
           DetachedReturns, IngestFails, Complete, Fail, LoseSession,
           LockTimeout, Crash, Finish, Goto, TypeOK
    <2>5. PersistToken(w) => job' = job /\ kind[job[w]] \in Refreshing
      BY DEF PersistToken
    <2>6. Record(w) \/ IngestCompletes(w) => job' = job /\ kind[job[w]] \in Recording
      BY DEF Record, IngestCompletes, Goto, Families, Recording
    <2>7. CallFails(w) \/ ReplyLost(w) =>
            \/ job' = job /\ kind[job[w]] \in Recording
            \/ pc'[w] = "failing"
      BY DEF CallFails, ReplyLost, OnError, Goto, Recording, TypeOK
    <2>1. StartHandler(w) \/ CallSucceeds(w) \/ CallRefused(w)
      BY <1>1, <2>4, <2>5, <2>6, <2>7 DEF Uncommitting, Refreshing, Recording
    <2>2. CASE StartHandler(w)
      <3>1. job[w] \in Jobs /\ row[job[w]] \in Rows
        BY <2>2 DEF StartHandler, Busy, TypeOK
      <3>2. mem'[w].status = row[job[w]].status
        BY <2>2, <3>1, Outcomes DEF StartHandler, TypeOK
      <3>. QED
        BY <1>1, <2>2, <3>1, <3>2 DEF StartHandler, Locking, Uncommitting, TypeOK
    <2>3. CASE CallSucceeds(w) \/ CallRefused(w)
      BY <1>1, <2>3 DEF CallSucceeds, CallRefused, Goto, LockedCopies, TypeOK
    <2>. QED
      BY <2>1, <2>2, <2>3
  <1>2. ASSUME NEW v \in Workers \ {w}, pc'[v] \in {"calling", "called", "completed"},
               kind[job'[v]] \in Uncommitting
        PROVE  lock'[job'[v]] = v /\ row'[job'[v]].status = mem'[v].status
    <2>1. pc'[v] = pc[v] /\ job'[v] = job[v] /\ mem'[v] = mem[v]
      BY WorkerFrame
    <2>2. lock[job[v]] = v /\ row[job[v]].status = mem[v].status
      BY <1>2, <2>1 DEF LockedCopies
    <2>3. job[v] \in Jobs
      BY <1>2, <2>1 DEF Busy, TypeOK
    <2>4. lock[job[v]] \notin {w, Nobody}
      BY <2>2, ConstantsAssumption
    <2>. QED
      BY <2>1, <2>2, <2>3, <2>4, LockFrame
  <1>. QED
    BY <1>1, <1>2, WorkerFrame DEF LockedCopies

\* The copy a voice job or an ingest is about to flush.
LEMMA SettledCopiesStep ==
    ASSUME LeaseInv, Orderly, NEW w \in Workers, Proceed(w) \/ Mishap(w)
    PROVE  SettledCopies'
  <1>. TypedInv /\ TypeOK /\ HeldRows /\ OpenCopies /\ SettledCopies
    BY DEF LeaseInv, ExclusionInv, TypedInv
  <1>1. ASSUME pc'[w] = "completed"
        PROVE  mem'[w].status \in {"running", "cancelled"} \/ mem'[w].lease = "none"
    <2>1. \/ StartHandler(w) \/ CallRefused(w) \/ Record(w) \/ IngestCompletes(w)
          \/ CallFails(w) \/ ReplyLost(w)
      BY <1>1 DEF Proceed, Mishap, Claim, FailUnhandled, Block, Intend, Defer, Admit,
           PersistToken, CallSucceeds, DetachedReturns, IngestFails, Complete, Fail,
           LoseSession, LockTimeout, Crash, Finish, Goto, TypeOK
    <2>2. CASE StartHandler(w)
      <3>1. job[w] \in Jobs /\ row[job[w]] \in Rows
        BY <2>2 DEF StartHandler, Busy, TypeOK, TypedInv
      <3>2. row[job[w]].status \in {"running", "cancelled"}
        BY <2>2 DEF StartHandler, HeldRows, Active
      <3>. QED
        BY <2>2, <3>1, <3>2, Outcomes DEF StartHandler, TypeOK
    <2>3. CASE CallRefused(w) \/ Record(w) \/ CallFails(w) \/ ReplyLost(w)
      BY <2>3 DEF CallRefused, Record, CallFails, ReplyLost, Goto, OpenCopies
    <2>4. CASE IngestCompletes(w)
      <3>1. Completed(mem[w]).lease = "none"
        BY DEF Completed, TypeOK, Rows
      <3>. QED
        BY <2>4, <3>1 DEF IngestCompletes, TypeOK
    <2>. QED
      BY <2>1, <2>2, <2>3, <2>4
  <1>. QED
    BY <1>1, WorkerFrame DEF SettledCopies

LEMMA LeaseStep == LeaseInv /\ [Next]_vars => LeaseInv'
  <1>. SUFFICES ASSUME LeaseInv, [Next]_vars PROVE LeaseInv'
    OBVIOUS
  <1>. /\ ExclusionInv /\ TypedInv /\ TypeOK /\ Busy /\ AsksAllowed
       /\ LockedCopies /\ Families /\ Present /\ RunningIsLeased
       /\ Orderly => SettledCopies
    BY DEF LeaseInv, ExclusionInv, TypedInv
  <1>1. ExclusionInv'
    BY ExclusionStep
  <1>2. ASSUME NEW w \in Workers, Proceed(w) \/ Mishap(w) PROVE LeaseInv'
    <2>1. Present'
      <3>1. ASSUME NEW v \in Workers, Active(v)' PROVE row'[job'[v]].status # "absent"
        <4>1. CASE Active(v) /\ job'[v] = job[v]
          BY <1>2, <4>1, WorkerKeepsLeases DEF Present, Active, TypeOK, Busy
        <4>2. ASSUME NEW j \in Jobs, Claim(w, j), v = w PROVE row'[job'[v]].status # "absent"
          BY <4>2, Outcomes DEF Claim, TypeOK
        <4>3. \/ Active(v) /\ job'[v] = job[v]
              \/ v = w /\ \E j \in Jobs : Claim(w, j)
          <5>1. CASE v # w
            BY <1>2, <3>1, <5>1, WorkerFrame DEF Active
          <5>2. CASE v = w
            BY <1>2, <3>1, <5>2 DEF Active, Proceed, Mishap, FailUnhandled, Block,
                 Intend, Defer, Admit, StartHandler, PersistToken, CallSucceeds,
                 CallFails, CallRefused, DetachedReturns, Record, IngestCompletes,
                 IngestFails, Complete, Fail, ReplyLost, LoseSession, LockTimeout,
                 Crash, Finish, Goto, TypeOK
          <5>. QED
            BY <5>1, <5>2
        <4>. QED
          BY <4>1, <4>2, <4>3
      <3>. QED
        BY <3>1 DEF Present
    <2>2. RunningIsLeased'
      BY <1>2, WorkerKeepsLeases, WorkerFrame DEF RunningIsLeased, KeepsLock, Orderly
    <2>. QED
      BY <1>1, <1>2, <2>1, <2>2, FamiliesStep, LockedCopiesWorkerStep, SettledCopiesStep
         DEF LeaseInv, Orderly
  <1>3. ASSUME \/ \E j \in Jobs : Submit(j) \/ ClockStep(j) \/ LeaseOverrun(j)
               \/ Reap
               \/ \E o \in Operators : OperatorStep(o)
               \/ UNCHANGED vars
        PROVE  LeaseInv'
    <2>1. UNCHANGED <<kind, pc, job, mem, lock>>
      BY <1>3, OthersLeaveWorkers
    <2>2. Families' /\ (Orderly => SettledCopies)'
      BY <2>1 DEF Families, SettledCopies, Orderly
    <2>3. Present'
      BY <1>3, <2>1, OthersKeepLeases DEF Present, Active, Busy, TypeOK
    <2>4. RunningIsLeased'
      BY <1>3, <2>1, OthersKeepLeases DEF RunningIsLeased, KeepsLock, Orderly
    <2>5. LockedCopies'
      <3>1. ASSUME NEW w \in Workers, pc[w] \in {"calling", "called", "completed"},
                   kind[job[w]] \in Uncommitting
            PROVE  row'[job[w]].status = mem[w].status
        <4>1. job[w] \in Jobs /\ lock[job[w]] # Nobody
          BY <3>1, ConstantsAssumption DEF Busy, TypeOK, LockedCopies
        <4>2. row[job[w]].status # "absent"
          BY <3>1 DEF Present, Active
        <4>3. row'[job[w]].status = row[job[w]].status
          BY <1>3, <4>1, <4>2, OthersKeepLocked
        <4>. QED
          BY <3>1, <4>3 DEF LockedCopies
      <3>. QED
        BY <2>1, <3>1 DEF LockedCopies
    <2>. QED
      BY <1>1, <2>2, <2>3, <2>4, <2>5 DEF LeaseInv
  <1>. QED
    BY <1>2, <1>3 DEF Next

\* No interleaving of runners, reaper, clock and operators strands a job in `running`:
\* a running row always carries a lease the reaper will see expire.  For handlers that
\* keep the row lock this holds whatever happens to leases and replays; for those
\* that give it up, while leases outlive the work.
THEOREM RunningRowsAreLeased == Spec => []RunningIsLeased
  <1>1. LeaseInv => RunningIsLeased
    BY DEF LeaseInv
  <1>. QED
    BY <1>1, LeaseInit, LeaseStep, PTL DEF Spec

-----------------------------------------------------------------------------
(* Calls are paid for                                                      *)

\* A runner that may still call its provider; one that has lost its session may have
\* called and will be tried again.
MayCall == {"claimed", "admission", "loading", "calling", "detached", "rejected", "failing"}
Callers(j) == {w \in Workers : job[w] = j /\ pc[w] \in MayCall}
Detached(j) == {w \in Workers : job[w] = j /\ pc[w] = "detached"}
Replayers(j) == {o \in Operators : ask[o].op = "replay" /\ ask[o].job = j}

\* A runner covers a running row unless its session loaded it as succeeded: then it may
\* go without writing the row.
Unread == {"claimed", "admission", "loading"}
Covers(w, j) == job[w] = j /\ (pc[w] \in Unread \/ mem[w].status # "succeeded")

\* One runner more may take the job up.
Spare(j) ==
    \/ row[j].status \in {"absent", "accepted", "queued", "retrying"}
    \/ row[j].status = "running" /\ row[j].lease = "expired"
    \/ row[j].status = "running" /\ row[j].lease = "live" /\ \A w \in Workers : ~Covers(w, j)
Left(j) == IF Spare(j) THEN 1 ELSE 0

CallsArePaid ==
    \A j \in Jobs :
        calls[j] + Cardinality(Callers(j)) + Cardinality(Detached(j))
          + Cardinality(Replayers(j)) + Left(j) <= 1 + faults + replays

PaidInv == TypedInv /\ CallsArePaid

LEMMA Members ==
    ASSUME NEW S, IsFiniteSet(S), NEW x
    PROVE  /\ Cardinality(S) \in Nat /\ Cardinality(S \ {x}) \in Nat
           /\ Cardinality(S) = Cardinality(S \ {x}) + IF x \in S THEN 1 ELSE 0
  <1>1. CASE x \in S
    BY <1>1, FS_RemoveElement, FS_CardinalityType
  <1>2. CASE x \notin S
    <2>1. S \ {x} = S
      BY <1>2
    <2>2. Cardinality(S) \in Nat
      BY FS_CardinalityType
    <2>. QED
      BY <1>2, <2>1, <2>2
  <1>. QED
    BY <1>1, <1>2

\* What worker w itself adds to the count of its job.
InCallers(w, j) == IF w \in Callers(j) THEN 1 ELSE 0
InDetached(w, j) == IF w \in Detached(j) THEN 1 ELSE 0
Price(w, j) == InCallers(w, j) + InDetached(w, j)

LEMMA SmallNumbers ==
    ASSUME NEW w, NEW j
    PROVE  /\ InCallers(w, j) \in {0, 1} /\ InDetached(w, j) \in {0, 1}
           /\ Price(w, j) \in 0..2 /\ Left(j) \in {0, 1}
  BY DEF InCallers, InDetached, Price, Left

LEMMA WorkerPays ==
    ASSUME TypeOK, TypeOK', CallsArePaid, NEW w \in Workers, ask' = ask,
           \A v \in Workers \ {w} : pc'[v] = pc[v] /\ job'[v] = job[v],
           \A j \in Jobs : calls'[j] + Price(w, j)' + Left(j)' + faults + replays <=
                           calls[j] + Price(w, j) + Left(j) + faults' + replays'
    PROVE  CallsArePaid'
  <1>. SUFFICES ASSUME NEW j \in Jobs
                PROVE  calls'[j] + Cardinality(Callers(j)') + Cardinality(Detached(j)')
                         + Cardinality(Replayers(j)') + Left(j)' <= 1 + faults' + replays'
    BY DEF CallsArePaid
  <1>1. /\ Callers(j)' \ {w} = Callers(j) \ {w} /\ Detached(j)' \ {w} = Detached(j) \ {w}
        /\ Replayers(j)' = Replayers(j)
    BY DEF Callers, Detached, Replayers
  <1>2. /\ IsFiniteSet(Callers(j)) /\ IsFiniteSet(Callers(j)')
        /\ IsFiniteSet(Detached(j)) /\ IsFiniteSet(Detached(j)') /\ IsFiniteSet(Replayers(j))
    BY ConstantsAssumption, FS_Subset DEF Callers, Detached, Replayers
  <1>3. PICK m \in Nat : m = Cardinality(Callers(j) \ {w})
    BY <1>2, Members
  <1>4. PICK n \in Nat : n = Cardinality(Detached(j) \ {w})
    BY <1>2, Members
  <1>5. PICK k \in Nat : k = Cardinality(Replayers(j))
    BY <1>2, Members
  <1>6. /\ Cardinality(Callers(j)) = m + InCallers(w, j)
        /\ Cardinality(Detached(j)) = n + InDetached(w, j)
    BY <1>2, <1>3, <1>4, Members DEF InCallers, InDetached
  <1>7. /\ Cardinality(Callers(j)') = m + InCallers(w, j)'
        /\ Cardinality(Detached(j)') = n + InDetached(w, j)'
    BY <1>1, <1>2, <1>3, <1>4, Members DEF InCallers, InDetached
  <1>8. calls[j] + (m + InCallers(w, j)) + (n + InDetached(w, j)) + k + Left(j)
          <= 1 + faults + replays
    BY <1>5, <1>6 DEF CallsArePaid
  <1>9. /\ calls[j] \in Nat /\ calls'[j] \in Nat /\ faults \in Nat /\ faults' \in Nat
        /\ replays \in Nat /\ replays' \in Nat
    BY DEF TypeOK
  <1>10. /\ InCallers(w, j) \in Nat /\ InDetached(w, j) \in Nat /\ Left(j) \in Nat
         /\ InCallers(w, j)' \in Nat /\ InDetached(w, j)' \in Nat /\ Left(j)' \in Nat
    BY DEF InCallers, InDetached, Left
  <1>11. calls'[j] + (InCallers(w, j)' + InDetached(w, j)') + Left(j)' + faults + replays <=
         calls[j] + (InCallers(w, j) + InDetached(w, j)) + Left(j) + faults' + replays'
    BY DEF Price
  <1>12. calls'[j] + (m + InCallers(w, j)') + (n + InDetached(w, j)') + k + Left(j)'
           <= 1 + faults' + replays'
    BY <1>8, <1>9, <1>10, <1>11
  <1>. QED
    BY <1>1, <1>5, <1>7, <1>12

\* The same of a step that no worker takes, and that serves one operator at most.
LEMMA OthersPay ==
    ASSUME TypeOK, TypeOK', CallsArePaid, UNCHANGED <<pc, job, calls>>,
           \A j \in Jobs :
               Cardinality(Replayers(j)') + Left(j)' + faults + replays <=
               Cardinality(Replayers(j)) + Left(j) + faults' + replays'
    PROVE  CallsArePaid'
  <1>. SUFFICES ASSUME NEW j \in Jobs
                PROVE  calls'[j] + Cardinality(Callers(j)') + Cardinality(Detached(j)')
                         + Cardinality(Replayers(j)') + Left(j)' <= 1 + faults' + replays'
    BY DEF CallsArePaid
  <1>1. Callers(j)' = Callers(j) /\ Detached(j)' = Detached(j) /\ calls'[j] = calls[j]
    BY DEF Callers, Detached
  <1>2. /\ IsFiniteSet(Callers(j)) /\ IsFiniteSet(Detached(j))
        /\ IsFiniteSet(Replayers(j)) /\ IsFiniteSet(Replayers(j)')
    BY ConstantsAssumption, FS_Subset DEF Callers, Detached, Replayers
  <1>3. PICK m \in Nat, n \in Nat, k \in Nat, l \in Nat :
           /\ m = Cardinality(Callers(j)) /\ n = Cardinality(Detached(j))
           /\ k = Cardinality(Replayers(j)) /\ l = Cardinality(Replayers(j)')
    BY <1>2, FS_CardinalityType
  <1>4. calls[j] + m + n + k + Left(j) <= 1 + faults + replays
    BY <1>3 DEF CallsArePaid
  <1>5. l + Left(j)' + faults + replays <= k + Left(j) + faults' + replays'
    BY <1>3
  <1>6. /\ calls[j] \in Nat /\ faults \in Nat /\ faults' \in Nat
        /\ replays \in Nat /\ replays' \in Nat /\ Left(j) \in Nat /\ Left(j)' \in Nat
    BY DEF TypeOK, Left
  <1>7. calls[j] + m + n + l + Left(j)' <= 1 + faults' + replays'
    BY <1>4, <1>5, <1>6
  <1>. QED
    BY <1>1, <1>3, <1>7

\* A flush writes the outcome, unless the session loaded that very outcome: then the row's
\* status stays, and its lease stays or goes.
LEMMA FlushedOutcome ==
    ASSUME NEW cur \in Rows, NEW seen \in Rows, NEW new \in {Completed(seen), Failed(seen)}
    PROVE  LET f == Flush(cur, seen, new) IN
           \/ f.status \in {"succeeded", "failed"}
           \/ f.status = cur.status /\ f.lease \in {cur.lease, "none"}
  BY DEF Flush, Keep, Rows, Completed, Failed

LEMMA CompletedFlush ==
    ASSUME NEW cur \in Rows, NEW seen \in Rows, seen.status # "succeeded"
    PROVE  Flush(cur, seen, Completed(seen)).status = "succeeded"
  BY DEF Flush, Keep, Rows, Completed

\* What is left of a job does not grow while its row keeps its status, its lease does not
\* run out, and nobody stops covering it.
LEMMA LeftStays ==
    ASSUME NEW j \in Jobs, row'[j].status = row[j].status,
           row'[j].lease \in {row[j].lease, "none"},
           \A v \in Workers : Covers(v, j) => Covers(v, j)'
    PROVE  Left(j)' <= Left(j)
  <1>1. Spare(j)' => Spare(j)
    BY DEF Spare
  <1>. QED
    BY <1>1 DEF Left

LEMMA NothingLeft ==
    ASSUME NEW j \in Jobs, row'[j].status \in Terminal \cup {"blocked"}
    PROVE  Left(j)' = 0
  BY DEF Left, Spare, Terminal

\* A worker's step changes the count of its own job only.
Settled(w, j) ==
    calls'[j] + Price(w, j)' + Left(j)' + faults + replays <=
    calls[j] + Price(w, j) + Left(j) + faults' + replays'

LEMMA OwnJobCounts ==
    ASSUME TypedInv, TypedInv', NEW w \in Workers, Proceed(w) \/ Mishap(w),
           NEW j \in Jobs, j # job[w], j # job'[w]
    PROVE  Settled(w, j)
  <1>. TypeOK /\ TypeOK' /\ Busy
    BY DEF TypedInv
  <1>1. row'[j] = row[j]
    BY WorkerFrame
  <1>2. \A v \in Workers : Covers(v, j)' <=> Covers(v, j)
    BY WorkerFrame DEF Covers
  <1>3. Left(j)' <= Left(j)
    BY <1>1, <1>2, LeftStays
  <1>4. calls'[j] = calls[j]
    BY DEF TypeOK, Proceed, Mishap, Claim, FailUnhandled, Block, Intend, Defer, Admit,
       StartHandler, PersistToken, CallSucceeds, CallFails, CallRefused,
       DetachedReturns, Record, IngestCompletes, IngestFails, Complete, Fail,
       ReplyLost, LoseSession, LockTimeout, Crash
  <1>5. faults' \in {faults, faults + 1} /\ replays' = replays
    BY DEF Proceed, Mishap, Claim, FailUnhandled, Block, Intend, Defer, Admit,
       StartHandler, PersistToken, CallSucceeds, CallFails, CallRefused,
       DetachedReturns, Record, IngestCompletes, IngestFails, Complete, Fail,
       ReplyLost, LoseSession, LockTimeout, Crash, Fault
  <1>6. Price(w, j) = 0 /\ Price(w, j)' = 0
    BY DEF Price, InCallers, InDetached, Callers, Detached
  <1>. QED
    BY <1>3, <1>4, <1>5, <1>6 DEF Settled, Left, TypeOK

\* What a worker costs at each step of its job.
LEMMA Prices ==
    ASSUME TypeOK, NEW w \in Workers, NEW j \in Jobs, job[w] = j
    PROVE  Price(w, j) = IF pc[w] = "detached" THEN 2
                         ELSE IF pc[w] \in MayCall THEN 1 ELSE 0
  BY DEF Price, InCallers, InDetached, Callers, Detached, MayCall

LEMMA PricesNext ==
    ASSUME TypeOK', NEW w \in Workers, NEW j \in Jobs
    PROVE  /\ job'[w] = j => Price(w, j)' = IF pc'[w] = "detached" THEN 2
                                            ELSE IF pc'[w] \in MayCall THEN 1 ELSE 0
           /\ job'[w] # j => Price(w, j)' = 0
  BY DEF Price, InCallers, InDetached, Callers, Detached, MayCall

\* A runner that is through with its job, before its call or after it has failed.
LEMMA Leaving ==
    ASSUME TypedInv, TypedInv', NEW w \in Workers, NEW j \in Jobs, job[w] = j,
           FailUnhandled(w) \/ Block(w) \/ (Intend(w) /\ Finish(w)) \/ Defer(w) \/ Fail(w)
    PROVE  Settled(w, j)
  <1>. TypeOK /\ TypeOK'
    BY DEF TypedInv
  <1>1. /\ pc[w] \in {"claimed", "admission", "failing"} /\ Finish(w)
        /\ UNCHANGED <<calls, faults, replays>>
    BY DEF FailUnhandled, Block, Intend, Defer, Fail
  <1>2. job'[w] # j
    BY <1>1, ConstantsAssumption DEF Finish, TypeOK
  <1>3. Price(w, j) = 1 /\ Price(w, j)' = 0
    BY <1>1, <1>2, Prices, PricesNext DEF MayCall
  <1>. QED
    BY <1>1, <1>3 DEF Settled, Left, TypeOK

\* A runner that goes on without writing its row.
LEMMA GoingOn ==
    ASSUME TypedInv, TypedInv', NEW w \in Workers, NEW j \in Jobs, job[w] = j,
           \/ Admit(w) \/ StartHandler(w) \/ PersistToken(w) \/ CallSucceeds(w)
           \/ CallFails(w) \/ CallRefused(w) \/ DetachedReturns(w) \/ Record(w)
           \/ ReplyLost(w) \/ LoseSession(w)
    PROVE  Settled(w, j)
  <1>. TypeOK /\ TypeOK'
    BY DEF TypedInv
  <1>1. row' = row /\ job' = job /\ replays' = replays /\ pc[w] # "idle"
    BY DEF Admit, StartHandler, PersistToken, CallSucceeds, CallFails, CallRefused,
       DetachedReturns, Record, ReplyLost, LoseSession, Goto
  <1>2. Left(j)' <= Left(j)
    <2>1. CASE StartHandler(w)
      <3>1. row[j].status = "succeeded" => Left(j)' = 0
        BY <1>1, NothingLeft DEF Terminal
      <3>2. ASSUME row[j].status # "succeeded", NEW v \in Workers, Covers(v, j)
            PROVE  Covers(v, j)'
        <4>1. CASE v = w
          <5>1. mem'[w] = Loaded(row[j]) /\ row[j] \in Rows
            BY <2>1 DEF StartHandler, TypeOK
          <5>. QED
            BY <1>1, <3>2, <4>1, <5>1, Outcomes DEF Covers
        <4>2. CASE v # w
          BY <2>1, <3>2, <4>2, WorkerFrame DEF Covers, Proceed
        <4>. QED
          BY <4>1, <4>2
      <3>. QED
        BY <1>1, <3>1, <3>2, LeftStays DEF Left
    <2>2. CASE ~StartHandler(w)
      <3>1. mem' = mem /\ \A v \in Workers : Covers(v, j) => Covers(v, j)'
        <4>1. mem' = mem /\ \A v \in Workers : pc'[v] \in Unread \/ pc[v] \notin Unread
          BY <2>2 DEF Admit, PersistToken, CallSucceeds, CallFails, CallRefused,
             DetachedReturns, Record, ReplyLost, LoseSession, Goto, Unread, TypeOK
        <4>. QED
          BY <1>1, <4>1 DEF Covers
      <3>. QED
        BY <1>1, <3>1, LeftStays
    <2>. QED
      BY <2>1, <2>2
  <1>3. calls'[j] + Price(w, j)' + faults <= calls[j] + Price(w, j) + faults'
    <2>1. CASE Admit(w) \/ StartHandler(w) \/ PersistToken(w) \/ CallRefused(w) \/ Record(w)
      <3>1. /\ pc[w] \in {"admission", "loading", "calling", "called"}
            /\ pc[w] = "called" => pc'[w] \in {"recorded", "completed"}
            /\ pc'[w] # "detached" /\ calls' = calls /\ faults' = faults
        BY <2>1 DEF Admit, StartHandler, PersistToken, CallRefused, Record, Goto, TypeOK
      <3>2. Price(w, j)' <= Price(w, j) /\ Price(w, j) \in Nat /\ Price(w, j)' \in Nat
        BY <1>1, <3>1, Prices, PricesNext DEF MayCall
      <3>. QED
        BY <3>1, <3>2 DEF TypeOK
    <2>2. CASE CallSucceeds(w)
      <3>1. /\ pc[w] = "calling" /\ pc'[w] = "called" /\ calls'[j] = calls[j] + 1
            /\ faults' = faults
        BY <2>2 DEF CallSucceeds, Goto, TypeOK
      <3>2. Price(w, j) = 1 /\ Price(w, j)' = 0
        BY <1>1, <3>1, Prices, PricesNext DEF MayCall
      <3>. QED
        BY <3>1, <3>2 DEF TypeOK
    <2>3. CASE CallFails(w) \/ ReplyLost(w)
      <3>1. /\ pc[w] = "calling" /\ pc'[w] \in {"rejected", "failing", "completed"}
            /\ \/ calls' = calls /\ faults' = faults
               \/ calls'[j] = calls[j] + 1 /\ faults' = faults + 1
        BY <2>3 DEF CallFails, ReplyLost, Goto, Fault, OnError, TypeOK
      <3>2. Price(w, j) = 1 /\ Price(w, j)' \in {0, 1}
        BY <1>1, <3>1, Prices, PricesNext DEF MayCall
      <3>. QED
        BY <3>1, <3>2 DEF TypeOK
    <2>4. CASE LoseSession(w)
      <3>1. /\ pc[w] = "calling" /\ pc'[w] = "detached" /\ calls' = calls
            /\ faults' = faults + 1
        BY <2>4 DEF LoseSession, Goto, Fault, TypeOK
      <3>2. Price(w, j) = 1 /\ Price(w, j)' = 2
        BY <1>1, <3>1, Prices, PricesNext DEF MayCall
      <3>. QED
        BY <3>1, <3>2 DEF TypeOK
    <2>5. CASE DetachedReturns(w)
      <3>1. /\ pc[w] = "detached" /\ pc'[w] = "failing" /\ faults' = faults
            /\ calls'[j] \in {calls[j], calls[j] + 1}
        BY <2>5 DEF DetachedReturns, Goto, TypeOK
      <3>2. Price(w, j) = 2 /\ Price(w, j)' = 1
        BY <1>1, <3>1, Prices, PricesNext DEF MayCall
      <3>. QED
        BY <3>1, <3>2 DEF TypeOK
    <2>. QED
      BY <2>1, <2>2, <2>3, <2>4, <2>5
  <1>4. Price(w, j) \in Nat /\ Price(w, j)' \in Nat /\ Left(j) \in Nat /\ Left(j)' \in Nat
    BY DEF Price, InCallers, InDetached, Left
  <1>. QED
    BY <1>1, <1>2, <1>3, <1>4 DEF Settled, TypeOK

\* A runner that writes an outcome to its row.
LEMMA WritingOutcome ==
    ASSUME TypedInv, TypedInv', NEW w \in Workers, NEW j \in Jobs, job[w] = j,
           IngestCompletes(w) \/ IngestFails(w) \/ Complete(w)
    PROVE  Settled(w, j)
  <1>. TypeOK /\ TypeOK'
    BY DEF TypedInv
  <1>1. /\ row[j] \in Rows /\ mem[w] \in Rows
        /\ UNCHANGED <<calls, faults, replays>>
        /\ \A v \in Workers \ {w} : pc'[v] = pc[v] /\ job'[v] = job[v] /\ mem'[v] = mem[v]
    BY WorkerFrame DEF IngestCompletes, IngestFails, Complete, TypeOK, Proceed
  <1>2. PICK new \in {Completed(mem[w]), Failed(mem[w])} : row'[j] = Flush(row[j], mem[w], new)
    BY DEF IngestCompletes, IngestFails, Complete, TypeOK
  <1>3. \/ row'[j].status \in {"succeeded", "failed"}
        \/ row'[j].status = row[j].status /\ row'[j].lease \in {row[j].lease, "none"}
    BY <1>1, <1>2, FlushedOutcome
  <1>4. Left(j)' <= Left(j)
    <2>1. CASE row'[j].status \in {"succeeded", "failed"}
      BY <2>1, NothingLeft DEF Terminal, Left
    <2>2. CASE row'[j].status \notin {"succeeded", "failed"}
      <3>1. Covers(w, j) => Covers(w, j)'
        <4>1. CASE IngestFails(w)
          BY <4>1 DEF IngestFails, Goto, Covers, Unread
        <4>2. CASE IngestCompletes(w) \/ Complete(w)
          <5>1. row'[j] = Flush(row[j], mem[w], Completed(mem[w])) /\ pc[w] \notin Unread
            BY <4>2 DEF IngestCompletes, Complete, TypeOK, Unread
          <5>2. mem[w].status = "succeeded"
            BY <1>1, <2>2, <5>1, CompletedFlush
          <5>. QED
            BY <5>1, <5>2 DEF Covers
        <4>. QED
          BY <4>1, <4>2
      <3>2. \A v \in Workers : Covers(v, j) => Covers(v, j)'
        BY <1>1, <3>1 DEF Covers
      <3>. QED
        BY <1>3, <2>2, <3>2, LeftStays
    <2>. QED
      BY <2>1, <2>2
  <1>5. Price(w, j)' <= Price(w, j)
    <2>1. CASE IngestCompletes(w)
      <3>1. pc'[w] = "completed" /\ job'[w] = j
        BY <2>1 DEF IngestCompletes, TypeOK
      <3>. QED
        BY <3>1, PricesNext DEF MayCall, Price, InCallers, InDetached
    <2>2. CASE IngestFails(w)
      <3>1. pc[w] = "rejected" /\ pc'[w] = "failing" /\ job'[w] = j
        BY <2>2 DEF IngestFails, Goto, TypeOK
      <3>. QED
        BY <3>1, Prices, PricesNext DEF MayCall
    <2>3. CASE Complete(w)
      <3>1. job'[w] # j
        BY <2>3, ConstantsAssumption DEF Complete, Finish, TypeOK
      <3>. QED
        BY <3>1, PricesNext DEF Price, InCallers, InDetached
    <2>. QED
      BY <2>1, <2>2, <2>3
  <1>6. Price(w, j) \in Nat /\ Price(w, j)' \in Nat /\ Left(j) \in Nat /\ Left(j)' \in Nat
    BY DEF Price, InCallers, InDetached, Left
  <1>. QED
    BY <1>1, <1>4, <1>5, <1>6 DEF Settled, TypeOK

\* A row that is claimed, or whose claim is renewed, is covered by its runner.
LEMMA Claiming ==
    ASSUME TypedInv, TypedInv', NEW w \in Workers, NEW j \in Jobs,
           Claim(w, j) \/ (job[w] = j /\ Intend(w) /\ ~Finish(w))
    PROVE  Settled(w, j)
  <1>. TypeOK /\ TypeOK' /\ Busy
    BY DEF TypedInv
  <1>1. /\ row'[j] = Claimed(row[j]) /\ row[j] \in Rows /\ job'[w] = j
        /\ pc'[w] \in {"claimed", "admission"} /\ UNCHANGED <<calls, faults, replays>>
    BY DEF Claim, Intend, Goto, TypeOK
  <1>2. Covers(w, j)'
    BY <1>1 DEF Covers, Unread
  <1>3. Left(j)' = 0
    BY <1>1, <1>2, Outcomes DEF Left, Spare
  <1>4. Price(w, j)' = 1
    BY <1>1, PricesNext DEF MayCall
  <1>5. Price(w, j) + Left(j) >= 1
    <2>1. CASE Claim(w, j)
      BY <2>1 DEF Claim, Claimable, Left, Spare, Price, InCallers, InDetached
    <2>2. CASE job[w] = j /\ Intend(w)
      <3>1. Price(w, j) = 1
        BY <2>2, Prices DEF Intend, MayCall
      <3>. QED
        BY <3>1 DEF Left
    <2>. QED
      BY <2>1, <2>2
  <1>6. Price(w, j) \in Nat /\ Left(j) \in Nat
    BY DEF Price, InCallers, InDetached, Left
  <1>. QED
    BY <1>1, <1>3, <1>4, <1>5, <1>6 DEF Settled, TypeOK

\* A crash or a lock that is not had in time pays for what it gives back.
LEMMA Failing ==
    ASSUME TypedInv, TypedInv', NEW w \in Workers, NEW j \in Jobs, job[w] = j,
           LockTimeout(w) \/ Crash(w)
    PROVE  Settled(w, j)
  <1>. TypeOK /\ TypeOK'
    BY DEF TypedInv
  <1>1. row' = row /\ calls' = calls /\ faults' = faults + 1 /\ replays' = replays
    BY DEF LockTimeout, Crash, Fault
  <1>2. Price(w, j)' + Left(j)' <= Price(w, j) + Left(j) + 1
    <2>1. CASE Finish(w)
      <3>1. Price(w, j)' = 0
        <4>1. job'[w] # j
          BY <2>1, ConstantsAssumption DEF Finish, TypeOK
        <4>. QED
          BY <4>1, PricesNext
      <3>. QED
        BY <3>1 DEF Price, InCallers, InDetached, Left
    <2>2. CASE ~Finish(w)
      <3>1. Goto(w, "failing") /\ pc[w] # "detached"
        BY <2>2 DEF LockTimeout, Crash
      <3>2. job' = job /\ mem' = mem /\ pc'[w] = "failing"
            /\ \A v \in Workers \ {w} : pc'[v] = pc[v]
        BY <3>1 DEF Goto, TypeOK
      <3>3. CASE pc[w] \in MayCall
        <4>1. Price(w, j) = 1 /\ Price(w, j)' = 1
          BY <3>1, <3>2, <3>3, Prices, PricesNext DEF MayCall
        <4>. QED
          BY <4>1 DEF Left
      <3>4. CASE pc[w] \notin MayCall
        <4>1. Price(w, j)' = 1
          BY <3>2, PricesNext DEF MayCall
        <4>2. \A v \in Workers : Covers(v, j) => Covers(v, j)'
          BY <3>2, <3>4 DEF Covers, Unread, MayCall
        <4>3. Left(j)' <= Left(j)
          BY <1>1, <4>2, LeftStays
        <4>. QED
          BY <4>1, <4>3 DEF Price, InCallers, InDetached, Left
      <3>. QED
        BY <3>3, <3>4
    <2>. QED
      BY <2>1, <2>2
  <1>3. Price(w, j) \in Nat /\ Price(w, j)' \in Nat /\ Left(j) \in Nat /\ Left(j)' \in Nat
    BY DEF Price, InCallers, InDetached, Left
  <1>. QED
    BY <1>1, <1>2, <1>3 DEF Settled, TypeOK

LEMMA PaidWorkerStep ==
    ASSUME PaidInv, TypedInv', NEW w \in Workers, Proceed(w) \/ Mishap(w)
    PROVE  CallsArePaid'
  <1>. TypedInv /\ TypeOK /\ TypeOK' /\ Busy /\ Busy' /\ CallsArePaid
    BY DEF PaidInv, TypedInv
  <1>1. ASSUME NEW j \in Jobs, Claim(w, j)
        PROVE  /\ Settled(w, j) /\ job'[w] = j
               /\ job[w] = NoJob
    BY <1>1, Claiming DEF Claim, Active, Busy, TypeOK
  <1>2. ASSUME NEW j \in Jobs, job[w] = j, ~ \E i \in Jobs : Claim(w, i)
        PROVE  Settled(w, j)
    BY <1>2, Leaving, GoingOn, WritingOutcome, Claiming, Failing DEF Proceed, Mishap
  <1>3. ASSUME ~ \E i \in Jobs : Claim(w, i)
        PROVE  job'[w] \in {job[w], NoJob}
    <2>1. pc[w] # "idle"
      BY <1>3 DEF Active, Proceed, Mishap, FailUnhandled, Block, Intend, Defer, Admit,
         StartHandler, PersistToken, CallSucceeds, CallFails, CallRefused,
         DetachedReturns, Record, IngestCompletes, IngestFails, Complete, Fail,
         ReplyLost, LoseSession, LockTimeout, Crash
    <2>. QED
      BY <2>1, WorkerMoves DEF TypeOK
  <1>4. ASSUME NEW j \in Jobs
        PROVE  Settled(w, j)
    <2>1. CASE j = job[w] \/ j = job'[w]
      <3>1. CASE \E i \in Jobs : Claim(w, i)
        BY <1>1, <2>1, <3>1, ConstantsAssumption
      <3>2. CASE ~ \E i \in Jobs : Claim(w, i)
        BY <1>2, <1>3, <2>1, <3>2, ConstantsAssumption
      <3>. QED
        BY <3>1, <3>2
    <2>2. CASE j # job[w] /\ j # job'[w]
      BY <2>2, OwnJobCounts
    <2>. QED
      BY <2>1, <2>2
  <1>5. /\ \A v \in Workers \ {w} : pc'[v] = pc[v] /\ job'[v] = job[v]
        /\ ask' = ask
    BY WorkerFrame
  <1>6. \A j \in Jobs : calls'[j] + Price(w, j)' + Left(j)' + faults + replays <=
                        calls[j] + Price(w, j) + Left(j) + faults' + replays'
    BY <1>4 DEF Settled
  <1>. QED
    BY <1>5, <1>6, WorkerPays

\* The clock and the reaper leave no more of a job than there was, and an overrun pays.
LEMMA PaidSystemStep ==
    ASSUME PaidInv, TypedInv',
           \/ \E j \in Jobs : Submit(j) \/ ClockStep(j) \/ LeaseOverrun(j)
           \/ Reap
           \/ UNCHANGED vars
    PROVE  CallsArePaid'
  <1>. TypedInv /\ TypeOK /\ TypeOK' /\ CallsArePaid
    BY DEF PaidInv, TypedInv
  <1>1. UNCHANGED <<pc, job, mem, calls, ask, replays>>
    BY DEF Submit, ClockStep, LeaseExpires, BecomesDue, DeadlinePasses, LeaseOverrun, Reap,
           vars
  <1>2. \A j \in Jobs : Replayers(j)' = Replayers(j)
    BY <1>1 DEF Replayers
  <1>3. \A j \in Jobs, v \in Workers : Covers(v, j)' <=> Covers(v, j)
    BY <1>1 DEF Covers
  <1>. faults \in Nat /\ faults' \in Nat /\ replays \in Nat
    BY DEF TypeOK
  <1>4. ASSUME NEW j \in Jobs
        PROVE  Left(j)' + faults <= Left(j) + faults'
    <2>0. row[j] \in Rows
      BY DEF TypeOK
    <2>. Left(j) \in {0, 1} /\ Left(j)' \in {0, 1}
      BY DEF Left
    <2>1. CASE row'[j] = row[j] /\ faults' \in {faults, faults + 1}
      <3>1. Left(j)' <= Left(j)
        BY <1>3, <2>1, LeftStays
      <3>. QED
        BY <2>1, <3>1
    <2>2. CASE Submit(j)
      <3>1. row[j].status = "absent" /\ faults' = faults
        BY <2>2 DEF Submit
      <3>. QED
        BY <3>1 DEF Left, Spare, TypeOK
    <2>3. CASE LeaseExpires(j)
      <3>1. /\ row[j].lease = "live" /\ \A v \in Workers : ~Covers(v, j)
            /\ row'[j] = [row[j] EXCEPT !.lease = "expired"] /\ faults' = faults
        BY <2>3 DEF LeaseExpires, ActiveOn, Covers, TypeOK
      <3>2. row'[j].status = row[j].status
        BY <2>0, <3>1 DEF Rows
      <3>3. Spare(j)' => Spare(j)
        BY <3>1, <3>2 DEF Spare
      <3>. QED
        BY <3>1, <3>3 DEF Left, TypeOK
    <2>4. CASE BecomesDue(j) \/ DeadlinePasses(j)
      <3>1. /\ row'[j].status = row[j].status /\ row'[j].lease = row[j].lease
            /\ faults' = faults
        BY <2>0, <2>4 DEF BecomesDue, DeadlinePasses, TypeOK, Rows
      <3>2. Left(j)' <= Left(j)
        BY <1>3, <3>1, LeftStays
      <3>. QED
        BY <3>1, <3>2 DEF Left, TypeOK
    <2>5. CASE LeaseOverrun(j)
      <3>1. faults' = faults + 1
        BY <2>5 DEF LeaseOverrun, Fault
      <3>. QED
        BY <3>1 DEF Left, TypeOK
    <2>6. CASE Reap
      <3>1. faults' = faults
        BY <2>6 DEF Reap
      <3>2. CASE j \in ExpiredRows \cup AcceptedRows
        <4>1. Left(j) = 1
          BY <3>2 DEF ExpiredRows, AcceptedRows, Left, Spare
        <4>. QED
          BY <3>1, <4>1 DEF Left, TypeOK
      <3>3. CASE j \notin ExpiredRows \cup AcceptedRows
        <4>1. row'[j] = row[j]
          BY <2>6, <3>3 DEF Reap
        <4>. QED
          BY <2>1, <3>1, <4>1
      <3>. QED
        BY <3>2, <3>3
    <2>7. ASSUME NEW i \in Jobs, i # j, Submit(i) \/ ClockStep(i) \/ LeaseOverrun(i)
          PROVE  row'[j] = row[j] /\ faults' \in {faults, faults + 1}
      BY <2>7 DEF Submit, ClockStep, LeaseExpires, BecomesDue, DeadlinePasses, LeaseOverrun,
         Fault, TypeOK
    <2>8. CASE UNCHANGED vars
      BY <2>1, <2>8 DEF vars
    <2>. QED
      BY <2>1, <2>2, <2>3, <2>4, <2>5, <2>6, <2>7, <2>8 DEF ClockStep
  <1>5. ASSUME NEW j \in Jobs
        PROVE  Cardinality(Replayers(j)') + Left(j)' + faults + replays <=
               Cardinality(Replayers(j)) + Left(j) + faults' + replays'
    <2>1. IsFiniteSet(Replayers(j))
      BY ConstantsAssumption, FS_Subset DEF Replayers
    <2>2. PICK k \in Nat : k = Cardinality(Replayers(j))
      BY <2>1, FS_CardinalityType
    <2>3. Cardinality(Replayers(j)') = k /\ replays' = replays
      BY <1>1, <1>2, <2>2
    <2>4. Left(j) \in Nat /\ Left(j)' \in Nat
      BY DEF Left
    <2>. QED
      BY <1>4, <2>2, <2>3, <2>4
  <1>. QED
    BY <1>1, <1>5, OthersPay

\* A replay is paid for when it is asked for.
LEMMA PaidOperatorStep ==
    ASSUME PaidInv, TypedInv', AsksAllowed, NEW o \in Operators, OperatorStep(o)
    PROVE  CallsArePaid'
  <1>. TypedInv /\ TypeOK /\ TypeOK' /\ CallsArePaid
    BY DEF PaidInv, TypedInv
  <1>1. UNCHANGED <<pc, job, mem, calls, faults>>
    BY DEF OperatorStep, AskCancel, AskReplay, CancelCommits, ReplayCommits
  <1>2. ASSUME NEW j \in Jobs
        PROVE  /\ \A p \in Operators \ {o} : p \in Replayers(j)' <=> p \in Replayers(j)
               /\ IsFiniteSet(Replayers(j)) /\ IsFiniteSet(Replayers(j)')
    <2>1. \A p \in Operators \ {o} : ask'[p] = ask[p]
      BY DEF OperatorStep, AskCancel, AskReplay, CancelCommits, ReplayCommits, TypeOK
    <2>. QED
      BY <2>1, ConstantsAssumption, FS_Subset DEF Replayers
  <1>. DEFINE In(S) == IF o \in S THEN 1 ELSE 0
  <1>3. ASSUME NEW j \in Jobs
        PROVE  \E k \in Nat : /\ Cardinality(Replayers(j)) = k + In(Replayers(j))
                              /\ Cardinality(Replayers(j)') = k + In(Replayers(j)')
    <2>1. Replayers(j)' \ {o} = Replayers(j) \ {o}
      BY <1>2 DEF Replayers
    <2>2. PICK k \in Nat : k = Cardinality(Replayers(j) \ {o})
      BY <1>2, Members
    <2>3. /\ Cardinality(Replayers(j)) = k + In(Replayers(j))
          /\ Cardinality(Replayers(j)') = k + In(Replayers(j)')
      BY <1>2, <2>1, <2>2, Members
    <2>. QED
      BY <2>3
  <1>4. ASSUME NEW j \in Jobs, row'[j] = row[j]
        PROVE  Left(j)' = Left(j)
    BY <1>1, <1>4 DEF Left, Spare, Covers
  <1>5. ASSUME NEW j \in Jobs
        PROVE  In(Replayers(j)') + Left(j)' + replays <= In(Replayers(j)) + Left(j) + replays'
    <2>1. ASSUME NEW i \in Jobs, AskCancel(o, i)
          PROVE  In(Replayers(j)') = 0 /\ replays' = replays /\ Left(j)' = Left(j)
      BY <1>4, <2>1 DEF AskCancel, Replayers, TypeOK
    <2>2. ASSUME NEW i \in Jobs, AskReplay(o, i)
          PROVE  replays' = replays + 1 /\ Left(j)' = Left(j)
      BY <1>4, <2>2 DEF AskReplay
    <2>3. ASSUME CancelCommits(o)
          PROVE  In(Replayers(j)') = 0 /\ replays' = replays /\ Left(j)' <= Left(j)
      <3>1. CASE j = ask[o].job
        <4>1. Left(j)' = 0
          BY <2>3, <3>1, CancelFlush, NothingLeft DEF Terminal
        <4>. QED
          BY <2>3, <4>1 DEF CancelCommits, Replayers, NoAsk, TypeOK, Left
      <3>2. CASE j # ask[o].job
        <4>1. row'[j] = row[j]
          BY <2>3, <3>2, CancelFlush
        <4>. QED
          BY <1>4, <2>3, <4>1 DEF CancelCommits, Replayers, NoAsk, TypeOK, Left
      <3>. QED
        BY <3>1, <3>2
    <2>4. ASSUME ReplayCommits(o)
          PROVE  /\ In(Replayers(j)') = 0 /\ replays' = replays
                 /\ j = ask[o].job => In(Replayers(j)) = 1
                 /\ j # ask[o].job => Left(j)' = Left(j)
      <3>1. In(Replayers(j)') = 0 /\ replays' = replays
        BY <2>4 DEF ReplayCommits, Replayers, NoAsk, TypeOK
      <3>2. j = ask[o].job => In(Replayers(j)) = 1
        BY <2>4 DEF ReplayCommits, Replayers
      <3>3. j # ask[o].job => row'[j] = row[j]
        BY <2>4 DEF ReplayCommits, TypeOK
      <3>. QED
        BY <1>4, <3>1, <3>2, <3>3
    <2>5. /\ replays \in Nat /\ replays' \in Nat
          /\ Left(j) \in {0, 1} /\ Left(j)' \in {0, 1}
          /\ In(Replayers(j)) \in {0, 1} /\ In(Replayers(j)') \in {0, 1}
      BY DEF Left, TypeOK
    <2>6. CASE \E i \in Jobs : AskCancel(o, i)
      BY <2>1, <2>5, <2>6
    <2>7. CASE \E i \in Jobs : AskReplay(o, i)
      BY <2>2, <2>5, <2>7
    <2>8. CASE CancelCommits(o)
      BY <2>3, <2>5, <2>8
    <2>9. CASE ReplayCommits(o)
      BY <2>4, <2>5, <2>9
    <2>. QED
      BY <2>6, <2>7, <2>8, <2>9 DEF OperatorStep
  <1>6. ASSUME NEW j \in Jobs
        PROVE  Cardinality(Replayers(j)') + Left(j)' + faults + replays <=
               Cardinality(Replayers(j)) + Left(j) + faults' + replays'
    <2>1. PICK k \in Nat : /\ Cardinality(Replayers(j)) = k + In(Replayers(j))
                           /\ Cardinality(Replayers(j)') = k + In(Replayers(j)')
      BY <1>3
    <2>2. /\ faults' = faults /\ faults \in Nat /\ replays \in Nat /\ replays' \in Nat
          /\ Left(j) \in {0, 1} /\ Left(j)' \in {0, 1}
          /\ In(Replayers(j)) \in {0, 1} /\ In(Replayers(j)') \in {0, 1}
      BY <1>1 DEF TypeOK, Left
    <2>. QED
      BY <1>5, <2>1, <2>2
  <1>. QED
    BY <1>1, <1>6, OthersPay

LEMMA PaidInit == Init => CallsArePaid
  <1>. SUFFICES ASSUME Init, NEW j \in Jobs
                PROVE  calls[j] + Cardinality(Callers(j)) + Cardinality(Detached(j))
                         + Cardinality(Replayers(j)) + Left(j) <= 1 + faults + replays
    BY DEF CallsArePaid
  <1>1. Callers(j) = {} /\ Detached(j) = {} /\ Replayers(j) = {}
    BY DEF Init, Callers, Detached, Replayers, MayCall, NoAsk
  <1>2. calls[j] = 0 /\ faults = 0 /\ replays = 0
    BY DEF Init
  <1>. QED
    BY <1>1, <1>2, FS_EmptySet DEF Left

\* However leases run out under their runners, sessions and replies are lost, and
\* operators replay: each call of a provider beyond the first is paid for by one fault or
\* one replay.  What was called, what runners and replays may still call, and what one
\* more runner may take up are counted together.
THEOREM DuplicatesArePaidFor == Spec => []DuplicatesAreBounded
  <1>1. Init => ExclusionInv /\ PaidInv
    BY ExclusionInit, TypedInit, PaidInit DEF PaidInv
  <1>2. ExclusionInv /\ PaidInv /\ [Next]_vars => (ExclusionInv /\ PaidInv)'
    <2>. SUFFICES ASSUME ExclusionInv, PaidInv, [Next]_vars
                  PROVE  (ExclusionInv /\ PaidInv)'
      OBVIOUS
    <2>1. ExclusionInv' /\ TypedInv'
      BY ExclusionStep, TypedStep DEF PaidInv
    <2>2. CallsArePaid'
      BY <2>1, PaidWorkerStep, PaidSystemStep, PaidOperatorStep DEF Next, ExclusionInv
    <2>. QED
      BY <2>1, <2>2 DEF PaidInv
  <1>3. ASSUME PaidInv
        PROVE  DuplicatesAreBounded
    <2>. SUFFICES ASSUME NEW j \in Jobs
                  PROVE  calls[j] <= 1 + faults + replays
      BY DEF DuplicatesAreBounded
    <2>1. IsFiniteSet(Callers(j)) /\ IsFiniteSet(Detached(j)) /\ IsFiniteSet(Replayers(j))
      BY ConstantsAssumption, FS_Subset DEF Callers, Detached, Replayers
    <2>2. PICK m \in Nat, n \in Nat, k \in Nat :
             /\ m = Cardinality(Callers(j)) /\ n = Cardinality(Detached(j))
             /\ k = Cardinality(Replayers(j))
      BY <2>1, FS_CardinalityType
    <2>3. calls[j] + m + n + k + Left(j) <= 1 + faults + replays
      BY <1>3, <2>2 DEF PaidInv, CallsArePaid
    <2>. QED
      BY <1>3, <2>2, <2>3 DEF PaidInv, TypedInv, TypeOK, Left
  <1>. QED
    BY <1>1, <1>2, <1>3, PTL DEF Spec

-----------------------------------------------------------------------------
(* The invariant of the refinement                                         *)

Told(j) == "job.succeeded" \in events[j]

\* Nobody works on a job whose success is announced, and no sweep takes it up again.
ToldIsOver ==
    /\ \A w \in Workers : Active(w) => ~Told(job[w])
    /\ \A j \in Jobs : Told(j) => row[j].status \in {"succeeded", "cancelled"}

\* A domain row that says completed stands for an effect that is not lost.
DoneStands == \A j \in Jobs : done[j] => calls[j] = lost[j] + 1 /\ kind[j] \in Recording

\* What a worker knows of the effect of its own job.
KnownEffects ==
    \A w \in Workers :
        /\ pc[w] \in {"calling", "detached"} => calls[job[w]] = lost[job[w]]
        /\ pc[w] = "called" => calls[job[w]] = lost[job[w]] + 1 /\ ~done[job[w]]
        /\ pc[w] = "recorded" => done[job[w]]
        /\ pc[w] = "completed" =>
             /\ kind[job[w]] \in Waivable \cup {"ingest"}
             /\ kind[job[w]] = "ingest" => done[job[w]]

\* An effect that is not lost is recorded, announced, or in the hands of a worker.
EffectsKept ==
    \A j \in Jobs : \/ calls[j] = lost[j]
                    \/ done[j]
                    \/ Told(j)
                    \/ \E w \in Workers : pc[w] = "called" /\ job[w] = j

\* rag.ingest settles its row itself; from then on only a late cancel writes it.
SettledRows ==
    \A w \in Workers : pc[w] = "completed" /\ mem[w].status = "succeeded" =>
        row[job[w]].status \in {"succeeded", "cancelled"}

\* An operator asks about a job that was submitted.
AsksPresent ==
    \A o \in Operators : ask[o].op # "none" => row[ask[o].job].status # "absent"

ContractInv ==
    /\ LeaseInv
    /\ ToldIsOver /\ DoneStands /\ KnownEffects /\ EffectsKept /\ SettledRows
    /\ AsksPresent

LEMMA ContractInvInit == Init => ContractInv
  <1>. SUFFICES ASSUME Init PROVE ContractInv
    OBVIOUS
  <1>1. LeaseInv
    BY LeaseInit
  <1>2. ToldIsOver /\ DoneStands /\ KnownEffects /\ EffectsKept /\ SettledRows
    BY DEF Init, ToldIsOver, DoneStands, KnownEffects, EffectsKept, SettledRows,
           Active, Told
  <1>3. AsksPresent
    BY DEF Init, AsksPresent, NoAsk
  <1>. QED
    BY <1>1, <1>2, <1>3 DEF ContractInv

\* What the invariants say, in one place, of the job of a worker at work.
LEMMA AtWork ==
    ASSUME ContractInv, Orderly, NEW w \in Workers, Active(w)
    PROVE  /\ job[w] \in Jobs /\ row[job[w]] \in Rows /\ mem[w] \in Rows
           /\ row[job[w]].status \in {"running", "cancelled", "succeeded", "failed"}
           /\ ~Told(job[w])
           /\ \A v \in Workers : Active(v) /\ job[v] = job[w] => v = w
           /\ calls[job[w]] \in Nat /\ lost[job[w]] \in Nat
           /\ pc[w] # "called" => calls[job[w]] = lost[job[w]] \/ done[job[w]]
  <1>1. TypeOK /\ Busy /\ HeldRows /\ OneWorker /\ ToldIsOver /\ EffectsKept
    BY DEF ContractInv, LeaseInv, ExclusionInv, TypedInv
  <1>2. job[w] \in Jobs /\ row[job[w]] \in Rows /\ mem[w] \in Rows
    BY <1>1 DEF Active, Busy, TypeOK
  <1>3. row[job[w]].status \in {"running", "cancelled", "succeeded", "failed"}
    BY <1>1 DEF HeldRows
  <1>4. ~Told(job[w])
    BY <1>1 DEF ToldIsOver
  <1>5. \A v \in Workers : Active(v) /\ job[v] = job[w] => v = w
    BY <1>1 DEF OneWorker
  <1>6. calls[job[w]] \in Nat /\ lost[job[w]] \in Nat
    BY <1>1, <1>2 DEF TypeOK
  <1>7. pc[w] # "called" => calls[job[w]] = lost[job[w]] \/ done[job[w]]
    BY <1>1, <1>2, <1>4, <1>5 DEF EffectsKept, Active
  <1>. QED
    BY <1>2, <1>3, <1>4, <1>5, <1>6, <1>7

-----------------------------------------------------------------------------
(* The invariant is kept                                                   *)

\* A worker's step has effects on its own job only.
LEMMA EffectFrame ==
    ASSUME TypedInv, NEW w \in Workers, Proceed(w) \/ Mishap(w),
           NEW j \in Jobs, j # job[w]
    PROVE  /\ calls'[j] = calls[j] /\ lost'[j] = lost[j]
           /\ done'[j] = done[j] /\ events'[j] = events[j]
  <1>. TypeOK
    BY DEF TypedInv
  <1>1. ASSUME NEW i \in Jobs, Claim(w, i) PROVE UNCHANGED <<calls, lost, done, events>>
    BY <1>1 DEF Claim
  <1>2. CASE Proceed(w) /\ ~ \E i \in Jobs : Claim(w, i)
    BY <1>2 DEF TypeOK, Proceed, FailUnhandled, Block, Intend, Defer, Admit,
         StartHandler, PersistToken, CallSucceeds, CallFails, CallRefused,
         DetachedReturns, Record, IngestCompletes, IngestFails, Complete, Fail
  <1>3. CASE Mishap(w)
    BY <1>3 DEF TypeOK, Mishap, ReplyLost, LoseSession, LockTimeout, Crash
  <1>. QED
    BY <1>1, <1>2, <1>3

\* A worker at work keeps what the invariant says of its own job.
LEMMA OwnJobStep ==
    ASSUME ContractInv, Orderly, NEW w \in Workers, Proceed(w) \/ Mishap(w), Active(w),
           NEW j \in Jobs, j = job[w]
    PROVE  /\ pc'[w] # "idle" => ~Told(j)'
           /\ Told(j)' => row'[j].status \in {"succeeded", "cancelled"}
           /\ done'[j] => calls'[j] = lost'[j] + 1 /\ kind[j] \in Recording
           /\ pc'[w] \in {"calling", "detached"} => calls'[j] = lost'[j]
           /\ pc'[w] = "called" => calls'[j] = lost'[j] + 1 /\ ~done'[j]
           /\ pc'[w] = "recorded" => done'[j]
           /\ pc'[w] = "completed" =>
                /\ kind[j] \in Waivable \cup {"ingest"}
                /\ kind[j] = "ingest" => done'[j]
           /\ calls'[j] = lost'[j] \/ done'[j] \/ Told(j)' \/ pc'[w] = "called"
           /\ pc'[w] = "completed" /\ mem'[w].status = "succeeded" =>
                row'[j].status \in {"succeeded", "cancelled"}
  <1>. DEFINE Goal == /\ pc'[w] # "idle" => ~Told(j)'
                      /\ Told(j)' => row'[j].status \in {"succeeded", "cancelled"}
                      /\ done'[j] => calls'[j] = lost'[j] + 1 /\ kind[j] \in Recording
                      /\ pc'[w] \in {"calling", "detached"} => calls'[j] = lost'[j]
                      /\ pc'[w] = "called" => calls'[j] = lost'[j] + 1 /\ ~done'[j]
                      /\ pc'[w] = "recorded" => done'[j]
                      /\ pc'[w] = "completed" =>
                           /\ kind[j] \in Waivable \cup {"ingest"}
                           /\ kind[j] = "ingest" => done'[j]
                      /\ calls'[j] = lost'[j] \/ done'[j] \/ Told(j)' \/ pc'[w] = "called"
                      /\ pc'[w] = "completed" /\ mem'[w].status = "succeeded" =>
                           row'[j].status \in {"succeeded", "cancelled"}
  <1>. /\ TypeOK /\ Busy /\ HeldRows /\ OpenCopies /\ Families
       /\ DoneStands /\ KnownEffects /\ SettledRows
    BY DEF ContractInv, LeaseInv, ExclusionInv, TypedInv
  <1>0. /\ row[j] \in Rows /\ mem[w] \in Rows /\ ~Told(j)
        /\ calls[j] \in Nat /\ lost[j] \in Nat
        /\ pc[w] # "called" => calls[j] = lost[j] \/ done[j]
    BY AtWork
  <1>1. ASSUME FailUnhandled(w) \/ Block(w) \/ Defer(w) \/ Fail(w)
        PROVE  Goal
    <2>1. UNCHANGED <<calls, lost, done>> /\ pc'[w] = "idle" /\ pc[w] # "called"
      BY <1>1 DEF FailUnhandled, Block, Defer, Fail, Finish, TypeOK
    <2>2. ~Told(j)'
      BY <1>0, <1>1 DEF FailUnhandled, Block, Defer, Fail, Told, TypeOK
    <2>. QED
      BY <1>0, <2>1, <2>2 DEF DoneStands
  <1>2. ASSUME Intend(w) \/ Admit(w) PROVE Goal
    <2>1. /\ UNCHANGED <<calls, lost, done, events>> /\ pc[w] # "called"
          /\ pc'[w] \in {"idle", "admission", "loading"}
      BY <1>2 DEF Intend, Admit, Finish, Goto, TypeOK
    <2>. QED
      BY <1>0, <2>1 DEF DoneStands, Told
  <1>3. CASE StartHandler(w)
    <2>1. /\ UNCHANGED <<calls, lost, done, events, row>> /\ pc[w] = "loading"
          /\ mem'[w] = Loaded(row[j])
          /\ pc'[w] = IF kind[j] \in Recording /\ done[j] THEN "completed" ELSE "calling"
      BY <1>3 DEF StartHandler, TypeOK
    <2>2. mem'[w].status \in {"running", "cancelled"}
      BY <1>0, <2>1, Outcomes DEF HeldRows, Active
    <2>. QED
      BY <1>0, <2>1, <2>2 DEF DoneStands, Told, Recording, Waivable
  <1>4. ASSUME PersistToken(w) \/ LoseSession(w) PROVE Goal
    <2>1. /\ UNCHANGED <<calls, lost, done, events, row>> /\ pc[w] = "calling"
          /\ pc'[w] \in {"calling", "detached"}
      BY <1>4 DEF PersistToken, LoseSession, Goto, TypeOK
    <2>. QED
      BY <1>0, <2>1 DEF DoneStands, KnownEffects, Told
  <1>5. CASE CallSucceeds(w)
    <2>1. /\ UNCHANGED <<lost, done, events, row>> /\ pc[w] = "calling"
          /\ calls'[j] = calls[j] + 1 /\ pc'[w] = "called"
      BY <1>5 DEF CallSucceeds, Goto, TypeOK
    <2>. QED
      BY <1>0, <2>1 DEF DoneStands, KnownEffects, Told
  <1>6. ASSUME CallFails(w) \/ ReplyLost(w) \/ CallRefused(w) PROVE Goal
    <2>1. /\ UNCHANGED <<done, events, row, mem>> /\ pc[w] = "calling"
          /\ \E e \in {0, 1} : calls'[j] = calls[j] + e /\ lost'[j] = lost[j] + e
          /\ pc'[w] \in {"rejected", "failing", "completed"}
          /\ pc'[w] = "completed" => kind[j] \in Waivable
      BY <1>0, <1>6 DEF CallFails, ReplyLost, CallRefused, OnError, Waivable, Goto,
             TypeOK
    <2>2. calls'[j] = lost'[j] /\ ~done[j]
      BY <1>0, <2>1 DEF DoneStands, KnownEffects
    <2>3. mem[w].status \in {"running", "cancelled"}
      BY <2>1 DEF OpenCopies
    <2>. QED
      BY <1>0, <2>1, <2>2, <2>3 DEF Told, Waivable
  <1>7. CASE DetachedReturns(w)
    <2>1. /\ UNCHANGED <<done, events, row>> /\ pc[w] = "detached" /\ pc'[w] = "failing"
          /\ \E e \in {0, 1} : calls'[j] = calls[j] + e /\ lost'[j] = lost[j] + e
      BY <1>7 DEF DetachedReturns, Goto, TypeOK
    <2>2. calls'[j] = lost'[j] /\ ~done[j]
      BY <1>0, <2>1 DEF DoneStands, KnownEffects
    <2>. QED
      BY <1>0, <2>1, <2>2 DEF Told
  <1>8. CASE Record(w)
    <2>1. /\ UNCHANGED <<calls, lost, events, row, mem>> /\ pc[w] = "called"
          /\ done'[j] = TRUE /\ kind[j] \in Recording
          /\ pc'[w] \in {"recorded", "completed"}
      BY <1>8 DEF Record, Goto, TypeOK
    <2>2. mem[w].status \in {"running", "cancelled"}
      BY <2>1 DEF OpenCopies
    <2>. QED
      BY <1>0, <2>1, <2>2 DEF KnownEffects, Told, Recording, Waivable
  <1>9. CASE IngestCompletes(w)
    <2>1. /\ UNCHANGED <<calls, lost, done, events>> /\ pc[w] = "recorded"
          /\ pc'[w] = "completed" /\ kind[j] = "ingest"
          /\ row'[j] = Flush(row[j], mem[w], Completed(mem[w]))
      BY <1>9 DEF IngestCompletes, Families, TypeOK
    <2>2. mem[w].status \in {"running", "cancelled"}
      BY <2>1 DEF OpenCopies
    <2>3. Completed(mem[w]) \in Rows /\ Completed(mem[w]).status = "succeeded"
      BY <1>0, RowOperators, Outcomes
    <2>4. row'[j].status = "succeeded"
      BY <1>0, <2>1, <2>2, <2>3, FlushedStatus
    <2>. QED
      BY <1>0, <2>1, <2>4 DEF KnownEffects, DoneStands, Told, Recording
  <1>10. CASE IngestFails(w)
    <2>1. /\ UNCHANGED <<calls, lost, done, events>> /\ pc[w] = "rejected"
          /\ pc'[w] = "failing"
      BY <1>10 DEF IngestFails, Goto, TypeOK
    <2>. QED
      BY <1>0, <2>1 DEF DoneStands, Told
  <1>11. CASE Complete(w)
    <2>1. /\ UNCHANGED <<calls, lost, done>> /\ pc'[w] = "idle" /\ Told(j)'
          /\ row'[j] = Flush(row[j], mem[w], Completed(mem[w]))
          /\ pc[w] \in {"called", "completed"}
      BY <1>11 DEF Complete, Finish, Told, TypeOK
    <2>2. Completed(mem[w]) \in Rows /\ Completed(mem[w]).status = "succeeded"
      BY <1>0, RowOperators, Outcomes
    <2>3. row'[j].status = IF mem[w].status = "succeeded" THEN row[j].status
                           ELSE "succeeded"
      BY <1>0, <2>1, <2>2, FlushedStatus
    <2>4. row'[j].status \in {"succeeded", "cancelled"}
      BY <2>1, <2>3 DEF OpenCopies, SettledRows
    <2>. QED
      BY <1>0, <2>1, <2>4 DEF DoneStands
  <1>12. CASE LockTimeout(w)
    <2>1. /\ UNCHANGED <<calls, done, events>>
          /\ pc'[w] \in {"idle", "failing"}
          /\ \/ pc[w] # "called" /\ lost' = lost
             \/ /\ pc[w] = "called" /\ kind[j] \notin Recording
                /\ lost'[j] = lost[j] + 1
      BY <1>12 DEF LockTimeout, Finish, Goto, TypeOK
    <2>2. ~Told(j)'
      BY <1>0, <2>1 DEF Told
    <2>3. pc[w] = "called" => calls[j] = lost[j] + 1
      BY DEF KnownEffects
    <2>. QED
      BY <1>0, <2>1, <2>2, <2>3 DEF DoneStands
  <1>13. CASE Crash(w)
    <2>1. /\ UNCHANGED <<calls, done, events>> /\ pc'[w] = "idle"
          /\ lost'[j] = IF pc[w] = "called" THEN lost[j] + 1 ELSE lost[j]
      BY <1>13 DEF Crash, Finish, TypeOK
    <2>2. ~Told(j)'
      BY <1>0, <2>1 DEF Told
    <2>3. pc[w] = "called" => calls[j] = lost[j] + 1 /\ ~done[j]
      BY DEF KnownEffects
    <2>. QED
      BY <1>0, <2>1, <2>2, <2>3 DEF DoneStands
  <1>14. ASSUME NEW i \in Jobs, Claim(w, i) PROVE Goal
    BY <1>14 DEF Claim
  <1>. QED
    BY <1>1, <1>2, <1>3, <1>4, <1>5, <1>6, <1>7, <1>8, <1>9, <1>10, <1>11, <1>12,
       <1>13, <1>14 DEF Proceed, Mishap

\* The others leave a row that is settled as it is, or cancel it late.
LEMMA OthersKeepSettled ==
    ASSUME ContractInv, Orderly, NEW j \in Jobs,
           row[j].status \in {"succeeded", "cancelled"},
           \/ \E i \in Jobs : Submit(i) \/ ClockStep(i) \/ LeaseOverrun(i)
           \/ Reap
           \/ \E o \in Operators : OperatorStep(o)
           \/ UNCHANGED vars
    PROVE  row'[j].status \in {"succeeded", "cancelled"}
  <1>. TypeOK /\ AsksAllowed /\ row[j] \in Rows
    BY DEF ContractInv, LeaseInv, ExclusionInv, TypedInv, TypeOK
  <1>1. ASSUME NEW i \in Jobs, Submit(i) \/ LeaseOverrun(i)
        PROVE  row'[j] = row[j]
    BY <1>1 DEF Submit, LeaseOverrun, Orderly, TypeOK
  <1>2. ASSUME NEW i \in Jobs, LeaseExpires(i)
        PROVE  row'[j].status = row[j].status
    BY <1>2 DEF LeaseExpires, TypeOK, Rows
  <1>3. ASSUME NEW i \in Jobs, BecomesDue(i) \/ DeadlinePasses(i)
        PROVE  row'[j] = row[j]
    BY <1>3 DEF BecomesDue, DeadlinePasses, Claimable, Terminal, TypeOK
  <1>4. CASE Reap
    BY <1>4 DEF Reap, ExpiredRows, AcceptedRows
  <1>5. ASSUME NEW o \in Operators, CancelCommits(o)
        PROVE  row'[j].status \in {row[j].status, "cancelled"}
    BY <1>5, CancelFlush
  <1>6. ASSUME NEW o \in Operators, ReplayCommits(o) PROVE FALSE
    BY <1>6, ConstantsAssumption DEF ReplayCommits, AsksAllowed, Orderly
  <1>7. ASSUME NEW o \in Operators, NEW i \in Jobs, AskCancel(o, i) \/ AskReplay(o, i)
        PROVE  row' = row
    BY <1>7 DEF AskCancel, AskReplay
  <1>8. CASE UNCHANGED vars
    BY <1>8 DEF vars
  <1>. QED
    BY <1>1, <1>2, <1>3, <1>4, <1>5, <1>6, <1>7, <1>8 DEF ClockStep, OperatorStep

LEMMA ContractInvWorkerStep ==
    ASSUME ContractInv, Orderly, NEW w \in Workers, Proceed(w) \/ Mishap(w)
    PROVE  (ToldIsOver /\ DoneStands /\ KnownEffects /\ EffectsKept /\ SettledRows)'
  <1>. /\ TypedInv /\ TypeOK /\ Busy /\ OneWorker /\ HeldRows
       /\ ToldIsOver /\ DoneStands /\ KnownEffects /\ EffectsKept /\ SettledRows
    BY DEF ContractInv, LeaseInv, ExclusionInv, TypedInv
  <1>1. ASSUME NEW i \in Jobs, Claim(w, i)
        PROVE  (ToldIsOver /\ DoneStands /\ KnownEffects /\ EffectsKept /\ SettledRows)'
    <2>1. /\ UNCHANGED <<kind, mem, calls, lost, done, events>>
          /\ pc[w] = "idle" /\ pc' = [pc EXCEPT ![w] = "claimed"]
          /\ job' = [job EXCEPT ![w] = i]
          /\ row[i].status \in Claimable
          /\ \A j \in Jobs : j # i => row'[j] = row[j]
      BY <1>1 DEF Claim, Active, TypeOK
    <2>2. ~Told(i)
      BY <2>1 DEF ToldIsOver, Claimable
    <2>3. \A v \in Workers : Active(v) => job[v] # i /\ job[v] \in Jobs
      BY <2>1 DEF HeldRows, Active, Busy, Claimable, TypeOK
    <2>4. ToldIsOver'
      BY <2>1, <2>2 DEF ToldIsOver, Told, Active, TypeOK
    <2>5. DoneStands'
      BY <2>1 DEF DoneStands
    <2>6. KnownEffects'
      BY <2>1 DEF KnownEffects, TypeOK
    <2>7. EffectsKept'
      BY <2>1 DEF EffectsKept, Told, TypeOK
    <2>8. SettledRows'
      BY <2>1, <2>3 DEF SettledRows, Active, TypeOK
    <2>. QED
      BY <2>4, <2>5, <2>6, <2>7, <2>8
  <1>2. ASSUME ~ \E i \in Jobs : Claim(w, i)
        PROVE  (ToldIsOver /\ DoneStands /\ KnownEffects /\ EffectsKept /\ SettledRows)'
    <2>1. Active(w)
      BY <1>2 DEF Active, Proceed, Mishap, FailUnhandled, Block, Intend, Defer, Admit,
           StartHandler, PersistToken, CallSucceeds, CallFails, CallRefused,
           DetachedReturns, Record, IngestCompletes, IngestFails, Complete, Fail,
           ReplyLost, LoseSession, LockTimeout, Crash
    <2>7. PICK own \in Jobs : job[w] = own
      BY <2>1, AtWork
    <2>2. \A v \in Workers \ {w} : Active(v) => job[v] # own /\ job[v] \in Jobs
      BY <2>1, <2>7, AtWork DEF Active, Busy, TypeOK
    <2>3. /\ \A v \in Workers \ {w} : pc'[v] = pc[v] /\ job'[v] = job[v] /\ mem'[v] = mem[v]
          /\ kind' = kind
      BY WorkerFrame
    <2>4. pc'[w] # "idle" => job'[w] = own
      BY <2>1, <2>7, WorkerMoves DEF Active, TypeOK
    <2>5. \A j \in Jobs : j # own =>
             /\ row'[j] = row[j] /\ calls'[j] = calls[j] /\ lost'[j] = lost[j]
             /\ done'[j] = done[j] /\ events'[j] = events[j]
      <3>1. job'[w] = own \/ job'[w] = NoJob
        BY <2>1, <2>7, WorkerMoves DEF Active, TypeOK
      <3>. QED
        BY <2>7, <3>1, WorkerFrame, EffectFrame, ConstantsAssumption
    <2>6. /\ pc'[w] # "idle" => ~Told(own)'
          /\ Told(own)' => row'[own].status \in {"succeeded", "cancelled"}
          /\ done'[own] => calls'[own] = lost'[own] + 1 /\ kind[own] \in Recording
          /\ pc'[w] \in {"calling", "detached"} => calls'[own] = lost'[own]
          /\ pc'[w] = "called" => calls'[own] = lost'[own] + 1 /\ ~done'[own]
          /\ pc'[w] = "recorded" => done'[own]
          /\ pc'[w] = "completed" =>
               /\ kind[own] \in Waivable \cup {"ingest"}
               /\ kind[own] = "ingest" => done'[own]
          /\ calls'[own] = lost'[own] \/ done'[own] \/ Told(own)' \/ pc'[w] = "called"
          /\ pc'[w] = "completed" /\ mem'[w].status = "succeeded" =>
               row'[own].status \in {"succeeded", "cancelled"}
      BY <2>1, <2>7, OwnJobStep
    <2>8. ToldIsOver'
      BY <2>2, <2>3, <2>4, <2>5, <2>6 DEF ToldIsOver, Told, Active
    <2>9. DoneStands'
      BY <2>2, <2>3, <2>5, <2>6 DEF DoneStands
    <2>10. KnownEffects'
      <3>1. ASSUME NEW v \in Workers \ {w}, Active(v)
            PROVE  /\ job'[v] = job[v] /\ pc'[v] = pc[v] /\ kind' = kind
                   /\ calls'[job[v]] = calls[job[v]] /\ lost'[job[v]] = lost[job[v]]
                   /\ done'[job[v]] = done[job[v]]
        BY <3>1, <2>2, <2>3, <2>5
      <3>2. \A v \in Workers \ {w} : ~Active(v) => pc'[v] = "idle"
        BY <2>3 DEF Active
      <3>. QED
        BY <2>3, <2>4, <2>6, <3>1, <3>2 DEF KnownEffects
    <2>11. EffectsKept'
      <3>1. ASSUME NEW j \in Jobs, j # own
            PROVE  (\E v \in Workers : pc[v] = "called" /\ job[v] = j)
                     => \E v \in Workers : pc'[v] = "called" /\ job'[v] = j
        BY <2>3, <2>7, <3>1
      <3>2. pc'[w] = "called" => job'[w] = own
        BY <2>4
      <3>. QED
        BY <2>2, <2>5, <2>6, <3>1, <3>2 DEF EffectsKept, Told
    <2>12. SettledRows'
      BY <2>2, <2>3, <2>4, <2>5, <2>6 DEF SettledRows, Active
    <2>. QED
      BY <2>8, <2>9, <2>10, <2>11, <2>12
  <1>. QED
    BY <1>1, <1>2

LEMMA ContractInvOthersStep ==
    ASSUME ContractInv, Orderly,
           \/ \E i \in Jobs : Submit(i) \/ ClockStep(i) \/ LeaseOverrun(i)
           \/ Reap
           \/ \E o \in Operators : OperatorStep(o)
           \/ UNCHANGED vars
    PROVE  (ToldIsOver /\ DoneStands /\ KnownEffects /\ EffectsKept /\ SettledRows)'
  <1>. /\ TypeOK /\ Busy
       /\ ToldIsOver /\ DoneStands /\ KnownEffects /\ EffectsKept /\ SettledRows
    BY DEF ContractInv, LeaseInv, ExclusionInv, TypedInv
  <1>1. UNCHANGED <<kind, pc, job, mem, lock, done, calls, lost, events>>
    BY OthersLeaveWorkers
  <1>2. \A j \in Jobs : row[j].status \in {"succeeded", "cancelled"} =>
           row'[j].status \in {"succeeded", "cancelled"}
    BY OthersKeepSettled
  <1>3. ToldIsOver'
    BY <1>1, <1>2 DEF ToldIsOver, Told, Active
  <1>4. (DoneStands /\ KnownEffects /\ EffectsKept)'
    BY <1>1 DEF DoneStands, KnownEffects, EffectsKept, Told
  <1>5. SettledRows'
    BY <1>1, <1>2 DEF SettledRows, Busy, TypeOK
  <1>. QED
    BY <1>3, <1>4, <1>5

\* No transaction takes a row out of the table, so an operator's row stays.
LEMMA AsksPresentStep == ContractInv /\ [Next]_vars => AsksPresent'
  <1>. SUFFICES ASSUME ContractInv, [Next]_vars PROVE AsksPresent'
    OBVIOUS
  <1>. LeaseInv /\ TypedInv /\ TypeOK /\ AsksAllowed /\ AsksPresent
    BY DEF ContractInv, LeaseInv, ExclusionInv, TypedInv
  <1>1. \A j \in Jobs : row[j].status # "absent" => row'[j].status # "absent"
    BY WorkerKeepsLeases, OthersKeepLeases DEF Next
  <1>2. CASE UNCHANGED ask
    BY <1>1, <1>2 DEF AsksPresent, AsksAllowed
  <1>3. ASSUME NEW o \in Operators, NEW j \in Jobs, AskCancel(o, j) \/ AskReplay(o, j)
        PROVE  AsksPresent'
    <2>1. /\ row' = row /\ row[j].status # "absent"
          /\ \A p \in Operators \ {o} : ask'[p] = ask[p]
          /\ ask'[o].job = j
      BY <1>3 DEF AskCancel, AskReplay, Cancellable, Replayable, TypeOK
    <2>. QED
      BY <2>1 DEF AsksPresent
  <1>4. ASSUME NEW o \in Operators, CancelCommits(o) \/ ReplayCommits(o)
        PROVE  AsksPresent'
    <2>1. /\ \A p \in Operators \ {o} : ask'[p] = ask[p]
          /\ ask'[o].op = "none"
      BY <1>4 DEF CancelCommits, ReplayCommits, NoAsk, TypeOK
    <2>. QED
      BY <1>1, <2>1 DEF AsksPresent, AsksAllowed
  <1>5. ASSUME NEW w \in Workers, Proceed(w) \/ Mishap(w) PROVE UNCHANGED ask
    BY <1>5, WorkerFrame
  <1>6. ASSUME \/ \E j \in Jobs : Submit(j) \/ ClockStep(j) \/ LeaseOverrun(j)
               \/ Reap
               \/ UNCHANGED vars
        PROVE  UNCHANGED ask
    BY <1>6 DEF Submit, ClockStep, LeaseExpires, BecomesDue, DeadlinePasses, LeaseOverrun,
                Reap, vars
  <1>. QED
    BY <1>2, <1>3, <1>4, <1>5, <1>6 DEF Next, OperatorStep

LEMMA ContractInvStep == ASSUME Orderly PROVE ContractInv /\ [Next]_vars => ContractInv'
  <1>. SUFFICES ASSUME ContractInv, [Next]_vars PROVE ContractInv'
    OBVIOUS
  <1>1. LeaseInv'
    BY LeaseStep DEF ContractInv
  <1>2. (ToldIsOver /\ DoneStands /\ KnownEffects /\ EffectsKept /\ SettledRows)'
    BY ContractInvWorkerStep, ContractInvOthersStep DEF Next
  <1>. QED
    BY <1>1, <1>2, AsksPresentStep DEF ContractInv

-----------------------------------------------------------------------------
(* Every step of the queue is a step of the contract, or none              *)

\* What the contract sees of a job's row.
Seen(j) == StateOf(row[j].status)

\* The step is about job i alone, and leaves the families as they are.
OnlyOn(i) ==
    /\ kind' = kind
    /\ \A j \in Jobs \ {i} :
          /\ Seen(j)' = Seen(j) /\ Told(j)' = Told(j)
          /\ calls'[j] = calls[j] /\ lost'[j] = lost[j]

SameEffects(i) == calls'[i] = calls[i] /\ lost'[i] = lost[i]

\* The contract's variables, as functions, after a step about job i alone.
LEMMA Views ==
    ASSUME TypeOK, TypeOK', NEW i \in Jobs, OnlyOn(i)
    PROVE  /\ [j \in Jobs |-> Seen(j)]' = [[j \in Jobs |-> Seen(j)] EXCEPT ![i] = Seen(i)']
           /\ Seen(i)' = Seen(i) => [j \in Jobs |-> Seen(j)]' = [j \in Jobs |-> Seen(j)]
           /\ Told(i)' = Told(i) => {j \in Jobs : Told(j)}' = {j \in Jobs : Told(j)}
           /\ Told(i)' => {j \in Jobs : Told(j)}' = {j \in Jobs : Told(j)} \cup {i}
           /\ calls' = [calls EXCEPT ![i] = calls'[i]]
           /\ lost' = [lost EXCEPT ![i] = lost'[i]]
           /\ SameEffects(i) => calls' = calls /\ lost' = lost
  <1>1. [j \in Jobs |-> Seen(j)]' = [[j \in Jobs |-> Seen(j)] EXCEPT ![i] = Seen(i)']
    BY DEF OnlyOn
  <1>2. ASSUME Seen(i)' = Seen(i)
        PROVE  [j \in Jobs |-> Seen(j)]' = [j \in Jobs |-> Seen(j)]
    BY <1>2 DEF OnlyOn
  <1>3. ASSUME Told(i)' = Told(i)
        PROVE  {j \in Jobs : Told(j)}' = {j \in Jobs : Told(j)}
    BY <1>3 DEF OnlyOn, Told
  <1>4. ASSUME Told(i)'
        PROVE  {j \in Jobs : Told(j)}' = {j \in Jobs : Told(j)} \cup {i}
    BY <1>4 DEF OnlyOn, Told
  <1>5. /\ calls' = [calls EXCEPT ![i] = calls'[i]]
        /\ lost' = [lost EXCEPT ![i] = lost'[i]]
        /\ SameEffects(i) => calls' = calls /\ lost' = lost
    BY DEF OnlyOn, SameEffects, TypeOK
  <1>. QED
    BY <1>1, <1>2, <1>3, <1>4, <1>5

LEMMA SubmitMaps ==
    ASSUME TypeOK, TypeOK', NEW i \in Jobs, OnlyOn(i), SameEffects(i),
           Told(i)' = Told(i), Seen(i) = "absent", Seen(i)' = "open"
    PROVE  Contract!Next
  <1>1. [j \in Jobs |-> TermsOf(kind[j])]' = [j \in Jobs |-> TermsOf(kind[j])]
    BY DEF OnlyOn
  <1>2. Contract!Submit(i)
    BY <1>1, Views DEF Contract!Submit, Seen, Told
  <1>. QED
    BY <1>2 DEF Contract!Next

LEMMA WorkMaps ==
    ASSUME TypeOK, TypeOK', NEW i \in Jobs, OnlyOn(i), ~Told(i), Told(i)' = Told(i),
           Seen(i)' = Seen(i), calls[i] = lost[i], calls'[i] = calls[i] + 1,
           NEW l \in {0, 1}, lost'[i] = lost[i] + l
    PROVE  Contract!Next
  <1>1. [j \in Jobs |-> TermsOf(kind[j])]' = [j \in Jobs |-> TermsOf(kind[j])]
    BY DEF OnlyOn
  <1>2. Contract!Work(i)
    <2>1. calls' = [calls EXCEPT ![i] = @ + 1] /\ lost' = [lost EXCEPT ![i] = @ + l]
      BY Views
    <2>2. /\ [j \in Jobs |-> Seen(j)]' = [j \in Jobs |-> Seen(j)]
          /\ {j \in Jobs : Told(j)}' = {j \in Jobs : Told(j)}
      BY Views
    <2>3. \E k \in {0, 1} : lost' = [lost EXCEPT ![i] = @ + k]
      BY <2>1
    <2>4. /\ UNCHANGED [j \in Jobs |-> TermsOf(kind[j])]
          /\ UNCHANGED [j \in Jobs |-> StateOf(row[j].status)]
          /\ UNCHANGED {j \in Jobs : "job.succeeded" \in events[j]}
          /\ i \notin {j \in Jobs : "job.succeeded" \in events[j]}
      BY <1>1, <2>2 DEF Seen, Told
    <2>5. calls' = [calls EXCEPT ![i] = @ + 1]
      BY <2>1
    <2>. QED
      BY <2>3, <2>4, <2>5, Zenon DEF Contract!Work
  <1>. QED
    BY <1>2 DEF Contract!Next

LEMMA LoseMaps ==
    ASSUME TypeOK, TypeOK', NEW i \in Jobs, OnlyOn(i), ~Told(i), Told(i)' = Told(i),
           Seen(i)' = Seen(i), calls[i] = lost[i] + 1, calls'[i] = calls[i],
           lost'[i] = lost[i] + 1
    PROVE  Contract!Next
  <1>1. [j \in Jobs |-> TermsOf(kind[j])]' = [j \in Jobs |-> TermsOf(kind[j])]
    BY DEF OnlyOn
  <1>2. Contract!Lose(i)
    <2>1. calls' = calls /\ lost' = [lost EXCEPT ![i] = @ + 1]
      BY DEF OnlyOn, TypeOK
    <2>2. /\ UNCHANGED [j \in Jobs |-> TermsOf(kind[j])]
          /\ UNCHANGED [j \in Jobs |-> StateOf(row[j].status)]
          /\ UNCHANGED {j \in Jobs : "job.succeeded" \in events[j]}
          /\ i \notin {j \in Jobs : "job.succeeded" \in events[j]}
      BY <1>1, Views DEF Seen, Told
    <2>. QED
      BY <2>1, <2>2, Zenon DEF Contract!Lose, Contract!Standing
  <1>. QED
    BY <1>2 DEF Contract!Next

LEMMA ReportMaps ==
    ASSUME TypeOK, TypeOK', NEW i \in Jobs, OnlyOn(i), SameEffects(i), ~Told(i),
           TermsOf(kind[i]) # "excused" => calls[i] = lost[i] + 1,
           \/ Told(i)' /\ Seen(i)' \in {"succeeded", "closed"}
           \/ TermsOf(kind[i]) = "early" /\ Seen(i)' = "succeeded" /\ Told(i)' = Told(i)
    PROVE  Contract!Next
  <1>1. [j \in Jobs |-> TermsOf(kind[j])]' = [j \in Jobs |-> TermsOf(kind[j])]
    BY DEF OnlyOn
  <1>2. Contract!Report(i)
    BY <1>1, Views DEF Contract!Report, Contract!Standing, Seen, Told
  <1>. QED
    BY <1>2 DEF Contract!Next

LEMMA CloseMaps ==
    ASSUME TypeOK, TypeOK', NEW i \in Jobs, OnlyOn(i), SameEffects(i),
           Told(i)' = Told(i), Seen(i) # "absent", Seen(i)' = "closed"
    PROVE  Contract!Next
  <1>1. [j \in Jobs |-> TermsOf(kind[j])]' = [j \in Jobs |-> TermsOf(kind[j])]
    BY DEF OnlyOn
  <1>2. Contract!Close(i)
    BY <1>1, Views DEF Contract!Close, Seen, Told
  <1>. QED
    BY <1>2 DEF Contract!Next

LEMMA ResumeMaps ==
    ASSUME TypeOK, TypeOK', NEW i \in Jobs, OnlyOn(i), SameEffects(i), ~Told(i),
           Told(i)' = Told(i), Seen(i) # "absent", Seen(i)' = "open"
    PROVE  Contract!Next
  <1>1. [j \in Jobs |-> TermsOf(kind[j])]' = [j \in Jobs |-> TermsOf(kind[j])]
    BY DEF OnlyOn
  <1>2. Contract!Resume(i)
    BY <1>1, Views DEF Contract!Resume, Seen, Told
  <1>. QED
    BY <1>2 DEF Contract!Next

LEMMA StutterMaps ==
    ASSUME TypeOK, TypeOK', kind' = kind,
           \A j \in Jobs : /\ Seen(j)' = Seen(j) /\ Told(j)' = Told(j)
                          /\ calls'[j] = calls[j] /\ lost'[j] = lost[j]
    PROVE  UNCHANGED Contract!vars
  BY DEF Contract!vars, Seen, Told, TypeOK

\* What a row's status is to the contract.
LEMMA StateOfStatus ==
    /\ StateOf("absent") = "absent" /\ StateOf("succeeded") = "succeeded"
    /\ \A s \in {"failed", "cancelled", "dead"} : StateOf(s) = "closed"
    /\ \A s \in {"accepted", "queued", "running", "retrying", "blocked"} :
          StateOf(s) = "open"
  BY DEF StateOf, Terminal

\* A worker's step is a step about its job.
LEMMA WorkerIsOnlyOn ==
    ASSUME TypedInv, NEW w \in Workers, Proceed(w) \/ Mishap(w), NEW i \in Jobs,
           i = job[w] \/ (pc[w] = "idle" /\ job'[w] = i)
    PROVE  OnlyOn(i)
  <1>. TypeOK /\ Busy
    BY DEF TypedInv
  <1>1. \A j \in Jobs \ {i} : j # job[w] /\ j # job'[w]
    <2>1. pc[w] = "idle" => job[w] = NoJob
      BY DEF Busy
    <2>2. pc[w] # "idle" => job'[w] \in {job[w], NoJob}
      BY WorkerMoves DEF TypeOK
    <2>. QED
      BY <2>1, <2>2, ConstantsAssumption
  <1>2. \A j \in Jobs \ {i} : row'[j] = row[j]
    BY <1>1, WorkerFrame
  <1>3. \A j \in Jobs \ {i} :
           calls'[j] = calls[j] /\ lost'[j] = lost[j] /\ events'[j] = events[j]
    BY <1>1, EffectFrame
  <1>4. kind' = kind
    BY WorkerFrame
  <1>. QED
    BY <1>2, <1>3, <1>4 DEF OnlyOn, Seen, Told

\* Claims, admissions, the handler's own commits and what it only remembers are
\* nothing to the contract.
LEMMA QuietSteps ==
    ASSUME ContractInv, ContractInv', Orderly, NEW w \in Workers,
           \/ \E j \in Jobs : Claim(w, j)
           \/ Admit(w) \/ StartHandler(w) \/ PersistToken(w) \/ CallFails(w)
           \/ CallRefused(w) \/ Record(w) \/ LoseSession(w)
    PROVE  UNCHANGED Contract!vars
  <1>. TypeOK /\ TypeOK'
    BY DEF ContractInv, LeaseInv, ExclusionInv, TypedInv
  <1>1. ASSUME NEW i \in Jobs, Claim(w, i) PROVE UNCHANGED Contract!vars
    <2>1. \A j \in Jobs : row'[j] = IF j = i THEN Claimed(row[i]) ELSE row[j]
      BY <1>1 DEF Claim, TypeOK
    <2>2. row[i] \in Rows /\ row[i].status \in Claimable
      BY <1>1 DEF Claim, TypeOK
    <2>3. \A j \in Jobs : Seen(j)' = Seen(j)
      BY <2>1, <2>2, Outcomes, StateOfStatus DEF Seen, Claimable
    <2>4. UNCHANGED <<kind, calls, lost, events>>
      BY <1>1 DEF Claim
    <2>. QED
      BY <2>3, <2>4, StutterMaps DEF Told
  <1>2. ASSUME Admit(w) \/ StartHandler(w) \/ PersistToken(w) \/ CallFails(w)
               \/ CallRefused(w) \/ Record(w) \/ LoseSession(w)
        PROVE  UNCHANGED Contract!vars
    <2>1. UNCHANGED <<kind, row, calls, lost, events>>
      BY <1>2 DEF Admit, StartHandler, PersistToken, CallFails, CallRefused, Record,
                  LoseSession
    <2>. QED
      BY <2>1, StutterMaps DEF Seen, Told
  <1>. QED
    BY <1>1, <1>2

\* A runner's transactions on the row of its job.
LEMMA RowSteps ==
    ASSUME ContractInv, ContractInv', Orderly, NEW w \in Workers,
           FailUnhandled(w) \/ Block(w) \/ Intend(w) \/ Defer(w) \/ Fail(w)
    PROVE  Contract!Next \/ UNCHANGED Contract!vars
  <1>. TypedInv /\ TypeOK /\ TypeOK' /\ Present
    BY DEF ContractInv, LeaseInv, ExclusionInv, TypedInv
  <1>1. Active(w)
    BY DEF Active, FailUnhandled, Block, Intend, Defer, Fail
  <1>2. PICK i \in Jobs : i = job[w]
    BY <1>1, AtWork
  <1>0. Proceed(w) \/ Mishap(w)
    BY DEF Proceed
  <1>3. OnlyOn(i)
    BY <1>0, <1>2, WorkerIsOnlyOn
  <1>4. row[i] \in Rows /\ row[i].status # "absent" /\ ~Told(i) /\ Seen(i) # "absent"
    <2>1. row[i] \in Rows /\ ~Told(i) /\ row[i].status # "absent"
      BY <1>1, <1>2, AtWork DEF Present
    <2>. QED
      BY <2>1, StateOfStatus DEF Seen, Rows, Statuses, Terminal
  <1>5. SameEffects(i) /\ Told(i)' = Told(i)
    BY <1>2, <1>4 DEF FailUnhandled, Block, Intend, Defer, Fail, SameEffects, Told, TypeOK
  <1>6. row'[i] \in {row[i], Failed(row[i]), Blocked(row[i]), Cancelled(row[i]),
                     Claimed(row[i]), Deferred(row[i]), Retried(row[i])}
    BY <1>2 DEF FailUnhandled, Block, Intend, Defer, Fail, TypeOK
  <1>7. Seen(i)' \in {"open", "closed"} \/ row'[i] = row[i]
    <2>1. row'[i] # row[i] => row'[i].status \in {"failed", "blocked", "cancelled",
            "running", "queued", "retrying", "dead"}
      BY <1>4, <1>6, Outcomes
    <2>. QED
      BY <2>1, StateOfStatus DEF Seen
  <1>8. CASE row'[i] = row[i]
    BY <1>3, <1>4, <1>5, <1>8, StutterMaps DEF OnlyOn, SameEffects, Seen
  <1>9. CASE Seen(i)' = "closed"
    BY <1>3, <1>4, <1>5, <1>9, CloseMaps
  <1>10. CASE Seen(i)' = "open"
    BY <1>3, <1>4, <1>5, <1>10, ResumeMaps
  <1>. QED
    BY <1>7, <1>8, <1>9, <1>10

\* The provider does the work, and the outcome may be lost with the worker.
LEMMA EffectSteps ==
    ASSUME ContractInv, ContractInv', Orderly, NEW w \in Workers,
           CallSucceeds(w) \/ DetachedReturns(w) \/ ReplyLost(w) \/ LockTimeout(w) \/ Crash(w)
    PROVE  Contract!Next \/ UNCHANGED Contract!vars
  <1>. TypedInv /\ TypeOK /\ TypeOK' /\ KnownEffects
    BY DEF ContractInv, LeaseInv, ExclusionInv, TypedInv
  <1>1. Active(w)
    BY DEF Active, CallSucceeds, DetachedReturns, ReplyLost, LockTimeout, Crash
  <1>2. PICK i \in Jobs : i = job[w]
    BY <1>1, AtWork
  <1>0. Proceed(w) \/ Mishap(w)
    BY DEF Proceed, Mishap
  <1>3. OnlyOn(i)
    BY <1>0, <1>2, WorkerIsOnlyOn
  <1>4. UNCHANGED <<row, events>>
    BY DEF CallSucceeds, DetachedReturns, ReplyLost, LockTimeout, Crash
  <1>5. ~Told(i) /\ Told(i)' = Told(i) /\ Seen(i)' = Seen(i) /\ calls[i] \in Nat /\ lost[i] \in Nat
    BY <1>1, <1>2, <1>4, AtWork DEF Told, Seen
  <1>6. \/ /\ calls[i] = lost[i] /\ calls'[i] = calls[i] + 1
           /\ \E l \in {0, 1} : lost'[i] = lost[i] + l
        \/ calls[i] = lost[i] + 1 /\ calls'[i] = calls[i] /\ lost'[i] = lost[i] + 1
        \/ calls'[i] = calls[i] /\ lost'[i] = lost[i]
    <2>1. ASSUME CallSucceeds(w) \/ ReplyLost(w)
          PROVE  /\ calls[i] = lost[i] /\ calls'[i] = calls[i] + 1
                 /\ \E l \in {0, 1} : lost'[i] = lost[i] + l
      <3>1. calls[i] = lost[i]
        BY <1>2, <2>1 DEF CallSucceeds, ReplyLost, KnownEffects
      <3>2. calls'[i] = calls[i] + 1 /\ (lost'[i] = lost[i] \/ lost'[i] = lost[i] + 1)
        BY <1>2, <2>1 DEF CallSucceeds, ReplyLost, TypeOK
      <3>. QED
        BY <1>5, <3>1, <3>2
    <2>2. CASE DetachedReturns(w)
      <3>1. calls[i] = lost[i]
        BY <1>2, <2>2 DEF DetachedReturns, KnownEffects
      <3>2. \E e \in {0, 1} : calls'[i] = calls[i] + e /\ lost'[i] = lost[i] + e
        BY <1>2, <2>2 DEF DetachedReturns, TypeOK
      <3>. QED
        BY <1>5, <3>1, <3>2
    <2>3. ASSUME LockTimeout(w) \/ Crash(w)
          PROVE  \/ calls[i] = lost[i] + 1 /\ calls'[i] = calls[i] /\ lost'[i] = lost[i] + 1
                 \/ calls'[i] = calls[i] /\ lost'[i] = lost[i]
      BY <1>2, <2>3 DEF LockTimeout, Crash, KnownEffects, TypeOK
    <2>. QED
      BY <2>1, <2>2, <2>3
  <1>7. CASE /\ calls[i] = lost[i] /\ calls'[i] = calls[i] + 1
             /\ \E l \in {0, 1} : lost'[i] = lost[i] + l
    BY <1>3, <1>5, <1>7, WorkMaps
  <1>8. CASE calls[i] = lost[i] + 1 /\ calls'[i] = calls[i] /\ lost'[i] = lost[i] + 1
    BY <1>3, <1>5, <1>8, LoseMaps
  <1>9. CASE calls'[i] = calls[i] /\ lost'[i] = lost[i]
    BY <1>3, <1>5, <1>9, StutterMaps DEF OnlyOn
  <1>. QED
    BY <1>6, <1>7, <1>8, <1>9

\* A handler that ends the job itself, and the runner that ends it.
LEMMA OutcomeSteps ==
    ASSUME ContractInv, ContractInv', Orderly, NEW w \in Workers,
           IngestCompletes(w) \/ IngestFails(w) \/ Complete(w)
    PROVE  Contract!Next \/ UNCHANGED Contract!vars
  <1>. /\ TypedInv /\ TypeOK /\ TypeOK' /\ Present /\ OpenCopies /\ Families
       /\ KnownEffects /\ DoneStands /\ ToldIsOver' /\ SettledRows
    BY DEF ContractInv, LeaseInv, ExclusionInv, TypedInv
  <1>1. Active(w)
    BY DEF Active, IngestCompletes, IngestFails, Complete
  <1>2. PICK i \in Jobs : i = job[w]
    BY <1>1, AtWork
  <1>0. Proceed(w) \/ Mishap(w)
    BY DEF Proceed
  <1>3. OnlyOn(i)
    BY <1>0, <1>2, WorkerIsOnlyOn
  <1>4. /\ row[i] \in Rows /\ mem[w] \in Rows /\ ~Told(i) /\ Seen(i) # "absent"
        /\ kind[i] \in Kinds
    <2>1. row[i] \in Rows /\ mem[w] \in Rows /\ ~Told(i) /\ row[i].status # "absent"
      BY <1>1, <1>2, AtWork DEF Present
    <2>. QED
      BY <2>1, StateOfStatus DEF Seen, Rows, Statuses, Terminal, TypeOK
  <1>5. SameEffects(i)
    BY DEF IngestCompletes, IngestFails, Complete, SameEffects
  <1>6. /\ Completed(mem[w]) \in Rows /\ Completed(mem[w]).status = "succeeded"
        /\ Failed(mem[w]) \in Rows /\ Failed(mem[w]).status = "failed"
    BY <1>4, RowOperators, Outcomes
  <1>7. CASE IngestCompletes(w)
    <2>1. /\ row'[i] = Flush(row[i], mem[w], Completed(mem[w]))
          /\ pc[w] = "recorded" /\ UNCHANGED events
      BY <1>2, <1>7 DEF IngestCompletes, TypeOK
    <2>2. mem[w].status # "succeeded"
      BY <2>1 DEF OpenCopies
    <2>3. row'[i].status = "succeeded"
      BY <1>4, <1>6, <2>1, <2>2, FlushedStatus
    <2>4. calls[i] = lost[i] + 1 /\ TermsOf(kind[i]) = "early"
      BY <1>2, <2>1 DEF KnownEffects, DoneStands, Families, TermsOf, Waivable
    <2>5. Seen(i)' = "succeeded" /\ Told(i)' = Told(i)
      BY <2>1, <2>3, StateOfStatus DEF Seen, Told
    <2>. QED
      BY <1>3, <1>4, <1>5, <2>4, <2>5, ReportMaps
  <1>8. CASE IngestFails(w)
    <2>1. /\ row'[i] = Flush(row[i], mem[w], Failed(mem[w]))
          /\ pc[w] = "rejected" /\ UNCHANGED events
      BY <1>2, <1>8 DEF IngestFails, TypeOK
    <2>2. mem[w].status # "failed"
      BY <2>1 DEF OpenCopies
    <2>3. row'[i].status = "failed"
      BY <1>4, <1>6, <2>1, <2>2, FlushedStatus
    <2>4. Seen(i)' = "closed" /\ Told(i)' = Told(i)
      BY <2>1, <2>3, StateOfStatus DEF Seen, Told
    <2>. QED
      BY <1>3, <1>4, <1>5, <2>4, CloseMaps
  <1>9. CASE Complete(w)
    <2>1. Told(i)'
      BY <1>2, <1>9 DEF Complete, Told, TypeOK
    <2>2. row'[i].status \in {"succeeded", "cancelled"}
      BY <2>1 DEF ToldIsOver
    <2>3. Seen(i)' \in {"succeeded", "closed"}
      BY <2>2, StateOfStatus DEF Seen
    <2>4. TermsOf(kind[i]) # "excused" => calls[i] = lost[i] + 1
      <3>1. CASE pc[w] = "called"
        BY <1>2, <3>1 DEF KnownEffects
      <3>2. CASE pc[w] = "completed"
        BY <1>2, <1>4, <3>2 DEF KnownEffects, DoneStands, Waivable, TermsOf
      <3>. QED
        BY <1>9, <3>1, <3>2 DEF Complete
    <2>. QED
      BY <1>3, <1>4, <1>5, <2>1, <2>3, <2>4, ReportMaps
  <1>. QED
    BY <1>7, <1>8, <1>9

\* Submitters, the clock, the reaper and the operators.
LEMMA OthersSteps ==
    ASSUME ContractInv, ContractInv', Orderly,
           \/ \E j \in Jobs : Submit(j) \/ ClockStep(j) \/ LeaseOverrun(j)
           \/ Reap
           \/ \E o \in Operators : OperatorStep(o)
           \/ UNCHANGED vars
    PROVE  Contract!Next \/ UNCHANGED Contract!vars
  <1>. TypeOK /\ TypeOK' /\ AsksAllowed /\ AsksPresent
    BY DEF ContractInv, LeaseInv, ExclusionInv, TypedInv
  <1>1. UNCHANGED <<kind, calls, lost, events>>
    BY OthersLeaveWorkers
  <1>2. (\A j \in Jobs : Seen(j)' = Seen(j)) => UNCHANGED Contract!vars
    BY <1>1, StutterMaps DEF Told
  <1>3. \A j \in Jobs : row[j] \in Rows
    BY DEF TypeOK
  <1>4. ASSUME NEW i \in Jobs, Submit(i) PROVE Contract!Next
    <2>1. row[i].status = "absent" /\ row' = [row EXCEPT ![i] = NewRow(i, "queued")]
      BY <1>4 DEF Submit
    <2>2. Seen(i) = "absent" /\ Seen(i)' = "open"
      BY <2>1, StateOfStatus DEF Seen, NewRow, TypeOK
    <2>3. OnlyOn(i) /\ SameEffects(i) /\ Told(i)' = Told(i)
      BY <1>1, <2>1 DEF OnlyOn, SameEffects, Seen, Told, TypeOK
    <2>. QED
      BY <2>2, <2>3, SubmitMaps
  <1>5. ASSUME NEW i \in Jobs, ClockStep(i) PROVE \A j \in Jobs : Seen(j)' = Seen(j)
    <2>1. \A j \in Jobs : row'[j].status = row[j].status
      <3>1. CASE LeaseExpires(i)
        BY <1>3, <3>1 DEF LeaseExpires, TypeOK, Rows
      <3>2. CASE BecomesDue(i)
        BY <1>3, <3>2 DEF BecomesDue, TypeOK, Rows
      <3>3. CASE DeadlinePasses(i)
        BY <1>3, <3>3 DEF DeadlinePasses, TypeOK, Rows
      <3>. QED
        BY <1>5, <3>1, <3>2, <3>3 DEF ClockStep
    <2>. QED
      BY <2>1 DEF Seen
  <1>6. ASSUME NEW i \in Jobs, LeaseOverrun(i) PROVE FALSE
    BY <1>6 DEF LeaseOverrun, Orderly
  <1>7. CASE Reap
    <2>1. \A j \in Jobs : \/ row'[j] = row[j]
                         \/ /\ row[j].status \in {"running", "accepted"}
                            /\ row'[j].status = "queued"
      <3>1. \A j \in Jobs : Released(row[j]).status = "queued"
        BY <1>3, Outcomes
      <3>2. \A j \in Jobs : [row[j] EXCEPT !.status = "queued"].status = "queued"
        BY <1>3 DEF Rows
      <3>. QED
        BY <1>7, <3>1, <3>2 DEF Reap, ExpiredRows, AcceptedRows
    <2>. QED
      BY <1>2, <2>1, StateOfStatus DEF Seen
  <1>8. ASSUME NEW o \in Operators, CancelCommits(o) PROVE Contract!Next
    <2>1. PICK i \in Jobs : i = ask[o].job
      BY <1>8 DEF CancelCommits, AsksAllowed
    <2>2. row'[i].status = "cancelled" /\ \A j \in Jobs : j # i => row'[j] = row[j]
      BY <1>8, <2>1, CancelFlush
    <2>3. row[i].status # "absent" /\ row[i] \in Rows
      BY <1>8, <2>1 DEF CancelCommits, AsksPresent, TypeOK
    <2>4. Seen(i) # "absent"
      BY <2>3, StateOfStatus DEF Seen, Rows, Statuses, Terminal
    <2>5. Seen(i)' = "closed"
      BY <2>2, StateOfStatus DEF Seen
    <2>6. OnlyOn(i) /\ SameEffects(i) /\ Told(i)' = Told(i)
      BY <1>1, <2>2 DEF OnlyOn, SameEffects, Seen, Told
    <2>. QED
      BY <2>4, <2>5, <2>6, CloseMaps
  <1>9. ASSUME NEW o \in Operators, ReplayCommits(o) PROVE FALSE
    BY <1>9, ConstantsAssumption DEF ReplayCommits, AsksAllowed, Orderly
  <1>10. ASSUME NEW o \in Operators, NEW i \in Jobs, AskCancel(o, i) \/ AskReplay(o, i)
         PROVE  \A j \in Jobs : Seen(j)' = Seen(j)
    BY <1>10 DEF AskCancel, AskReplay, Seen
  <1>11. CASE UNCHANGED vars
    BY <1>2, <1>11 DEF vars, Seen
  <1>. QED
    BY <1>2, <1>4, <1>5, <1>6, <1>7, <1>8, <1>9, <1>10, <1>11 DEF OperatorStep

LEMMA ContractInit == Init => Contract!Init
  <1>. SUFFICES ASSUME Init PROVE Contract!Init
    OBVIOUS
  <1>1. \A j \in Jobs : TermsOf(kind[j]) \in {"proven", "early", "excused"}
    BY DEF TermsOf
  <1>2. \A j \in Jobs : StateOf(row[j].status) \in {"absent", "open"}
    BY StateOfStatus DEF Init, NewRow, NoRow
  <1>3. calls = [j \in Jobs |-> 0] /\ lost = [j \in Jobs |-> 0]
    BY DEF Init
  <1>4. {j \in Jobs : Told(j)} = {}
    BY DEF Init, Told
  <1>. QED
    BY <1>1, <1>2, <1>3, <1>4 DEF Contract!Init, Contract!Terms, Told

\* While leases outlive the work and nobody replays jobs, the rows, the runners, the
\* reaper and the late cancels keep the queue's contract: every behaviour of the queue
\* is one of the contract, however many jobs, runners, cancels and faults there are.
THEOREM QueueKeepsContract == ASSUME Orderly PROVE Spec => ContractKept
  <1>1. Init => ContractInv /\ Contract!Init
    BY ContractInvInit, ContractInit
  <1>2. ContractInv /\ [Next]_vars => ContractInv'
    BY ContractInvStep
  <1>3. ContractInv /\ ContractInv' /\ [Next]_vars => [Contract!Next]_(Contract!vars)
    BY QuietSteps, RowSteps, EffectSteps, OutcomeSteps, OthersSteps
       DEF Next, Proceed, Mishap
  <1>. QED
    BY <1>1, <1>2, <1>3, PTL DEF Spec, ContractKept, Contract!Spec

=============================================================================
