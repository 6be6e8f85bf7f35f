# Sayvors in TLA+

TLA+ modules, TLC configurations and TLAPS proofs for the back end of Sayvors
(`services/api`), a multi-tenant service that publishes posts, answers reviews and
messages, ingests documents and meters AI work for small businesses.

The back end is one Python code base run as several asyncio processes: the HTTP API and
one or more worker processes. They share no memory. They meet in Postgres rows, in Redis
counters and lists, and in Kafka topics fed from an outbox table. What is hard about it is
therefore what a unit test on one session never meets: two processes at one row, a commit
in the middle of a handler, a provider call between two transactions, a process that dies
there, a lease that runs out while its owner is still at work. The modules below are about
exactly that.

All source paths are relative to `services/api/app`, and `modules/` is left out of them.

## How to run it

    tlc -workers 2 -config queue_faults.cfg MCJobQueue
    tlapm JobQueueProofs.tla

`PROJECT.json` lists the runs, which module and configuration each uses, what it must show,
and for each property a mutant of the code's model that breaks it. Mutants are operators of the
modules, each marked by a comment; no specification uses them.

## Modules

| module | what it is | code |
|---|---|---|
| `JobQueue` | rows of `jobs`, lane runners, reaper, operators | `jobs/`, `channels/publish/router.py` |
| `JobContract` | what the queue promises those who submit to it: the abstract specification | |
| `JobQueueProofs` | theorems about the queue; that it implements the contract | |
| `CreditLedger` | one tenant's wallet, holds, metered calls, hold reaper, grants | `billing/`, `llm/` |
| `CreditLedgerProofs` | its theorems | |
| `InboundReplies` | a conversation's messages from the webhook over outbox, relays, Kafka partition and consumer group to the AI reply | `outbox/`, `kafka/client.py`, `channels/meta/` |
| `InboundRepliesProofs` | its theorems | |
| `FollowUps` | the `lead_actions` table: nudges armed, cancelled, claimed in batches and sent | `channels/meta/lead_engine.py`, `lead_action_worker.py`, `whatsapp_templates/service.py` |
| `FollowUpsProofs` | its theorems | |
| `Handover` | who answers a conversation, the AI or a person: consumer, operators, sweeps | `channels/conversation_mode.py`, `channels/meta/lead_escalation.py`, `escalation_worker.py`, `consumer.py` |
| `HandoverProofs` | its theorems | |
| `ScheduledPosts` | posts to Google under advisory locks: passes, clicks, edits, deletions | `posts/`, `scheduling/` |
| `ScheduledPostsProofs` | its theorems | |
| `ReviewReplies` | the poll of a location's reviews and the Outbox of drafts | `channels/reviews_worker.py`, `channels/router.py`, `review_engine/service.py` |
| `ConnectImport` | the import of a new location's reviews; EXTENDS `ReviewReplies` and runs beside it | `channels/connect_import.py` |
| `ReviewProofs` | theorems about both | |
| `RagIngest` | documents, ingest rows, the loop over Redis and the table, the queue's handler | `rag/jobs.py`, `rag/service.py`, `jobs/handlers/rag_ingest.py` |
| `RagIngestProofs` | its theorems | |
| `MC...` | one per component: its instances for TLC | |

## Inventory

The worker process (`workers/main.py`) starts: four job runners (lanes realtime, publishing,
media, bulk), the job reaper, the credit hold reaper, the outbox worker, the Kafka consumers
(Meta events, analytics), the lead-action worker, the escalation sweeps, the post
publisher, the connect-import worker, the RAG ingest worker, the review poller, rollups and
digests. The API process (`main.py`) can run the same loops in its lifespan, so *every loop
may have a second copy somewhere*. Only row locks, leases, unique indexes and advisory
locks keep two copies apart.

**Job queue** (`jobs/`). State: `jobs` rows with status, attempts, lease, next_run_at,
hard_deadline_at. Operations: `submit_job`, `claim_due_jobs`, the three transactions of
`JobRunner._process_job`, defer, block, complete, fail, retry, the reaper's release and
promotion, cancel and replay over HTTP. Interacts with the providers through its handlers,
with the outbox (events commit with the outcome) and with Redis (per-tenant cap). Correct
if: one runner at a time on a job; a running row always has a lease to expire; an external
effect is repeated only after a loss; success is recorded, announced, final; every job
reaches an outcome.

**AI credit ledger** (`billing/ledger.py`, `pricing.py`, `service.py`, `llm/providers/base.py`,
`llm/gateway.py`, `llm/usage.py`). State: the wallet column of the user row, `billing_events`
rows (opening, holds, top-ups, plan grants), usage rows. Operations: opening, reserve,
settle, the reaper's recovery and expiry, keyed and plan grants. Correct if: the wallet is
what the rows say; a hold is closed once; a charge is what the work cost; unpaid work has a
fault to explain it; no hold stays open for ever.

**Outbox and Kafka** (`outbox/`, `kafka/client.py`, `channels/meta/meta_events_worker.py`,
`analytics/consumer.py`). State: outbox rows (pending, published, sent, failed, retries),
the producer's buffer, topic offsets, processed-event marks. Operations: enqueue with the
business transaction, drain, mark, retry up to ten times, consume, mark, commit the offset.
`fetch_pending_events` reads with SKIP LOCKED but its session closes, and with it the
locks, before the events are sent. Correct if: a committed event reaches the consumer; what is marked
sent was delivered; an effect of a consumer happens at most as often as its marks allow.

**Message intake and AI reply** (`channels/meta/consumer.py`, called by the Meta events
consumer). State: `channel_messages` rows, the inbound ones with `ai_reply_status`, the outbound ones with what
was sent. Operations: look the message up, store it, decide whether a reply is owed, generate, send a
voice note or one text after the other, record each, close the status. The record may come again,
from a second relay, a retry of the event or a redelivery, and each commit in between is where the
handler may have stopped. Correct if: the customer gets each part once, unless its trace was lost; an event is closed as sent only when the
reply is settled; a message recorded as skipped got no reply; every event comes to an outcome.

**Lead follow-ups** (`channels/meta/lead_engine.py`, `lead_action_worker.py`). State:
`lead_actions` rows with a 120 s lease, the lead's stage, the thread's newest message.
Operations: arm after a reply that asked something, cancel on the next message, an opt-out or a
takeover, claim twenty, check and send one by one, arm the next attempt. Correct if: one nudge is sent once,
a thread that a person has taken over is left alone, and every armed one comes to an end.

**Conversation mode and escalation** (`channels/conversation_mode.py`, `channels/assignment.py`,
`channels/meta/lead_escalation.py`, `escalation_worker.py`). State: a thread's mode and who set it,
the lead's priority, count and clocks. Operations: count and escalate, hand over, take over, give back,
remind, resume. Correct if: a person's takeover holds, a resumed thread starts clean, and no
customer stays muted with nobody there.

**Scheduled posts** (`posts/service.py`, `posts/worker.py`, `scheduling/`; `media/service.py`
repeats the pattern for photos). State: posts, advisory locks that belong to pooled connections.
Operations: create, edit, schedule, publish due, publish now, retry, delete, delete due. Correct if: a post
goes to Google once although a pass and a person may both ask, a row that offers a post for publishing is right that Google does not have it, and a
due one is not forgotten.

**Reviews and review replies** (`channels/reviews_worker.py`, `channels/router.py`). State: reply rows,
`last_polled_at`, a polling lease, the review insights of analytics. Operations: poll, adopt, draft, post, follow an
edited review; approve, write, regenerate, retry, edit, reject, dismiss. Correct if: the owner's own answer is
not overwritten, and every review gets an answer, a draft or a dismissal on file.

**Connect imports** (`channels/connect_import.py`). State: import sessions with a lease
that nothing renews, items. Operations: claim, fetch, scope, generate, publish, reconnect. Correct if: no review
is drafted more often than asked, but for two tasks that read one item at once, and no import stays at work for ever.

**RAG ingestion** (`rag/jobs.py`, `rag/service.py`). State: ingest rows, documents, chunks, a Redis list.
Operations: request, claim from Redis or from the table, parse, replace the chunks, complete, recover stale
rows at start. Correct if: a document that says completed has exactly its chunks, and a request comes to an end.

**Publish hub and removals** (`channels/publish/`, `jobs/handlers/post_delete.py`). State: publish
rows, each with a job. Correct if: a removal does not race with a publication.

**Review requests** (`analytics/review_requests.py`, `analytics/router.py`). State: request
rows, idempotency keys of the jobs that deliver them. Correct if: one delivery per request
and one per retry.

**Billing requests and subscriptions** (`billing/requests.py`, `entitlements.py`, `quotas.py`).
State: requests, one subscription row per tenant. `grant_credit` commits inside the decision
and so gives the request's lock back before its status is written. Correct if: a request is
granted once and two grants to one row add up.

**Wallet mirror** (`billing/budget.py`): a Redis copy written after each commit, in no order.

**Tenant admission** (`jobs/runner.py`, `_admit_tenant`): a Redis counter whose TTL runs
under the jobs it counts. Correct if: the cap holds and a slot is given back.

**Sessions and accounts** (`auth/service.py`, `users/account_deletion.py`). State: refresh
tokens in families, deletion dates. Correct if: a token is rotated once, a stolen family
dies, an account whose owner came back is kept.

**WhatsApp templates, review engine, assistant, admin, team, notifications,
media, email, speech, locations, catalog, profile, onboarding, analytics** are mostly request/response code
over rows one request owns, text generation, or I/O to a provider. They are listed in
`PROJECT.json` with the reason they are left out.

## JobQueue

### State and actions

`row[j]` is the `jobs` row: `status`, `attempts`, and three abstractions of time. `lease` is
none, live or expired (`lease_expires_at` against now); `due` stands for
`next_run_at <= now`; `deadline` is none, ahead or passed. `lock[j]` is the Postgres row lock
when it outlives a step, that is, while an inline handler works in the transaction that
read the row FOR UPDATE. `pc`, `job` and `mem` are the runner slots: where in `_process_job`,
on which job, with which copy of the row in the session. `ask` is an HTTP request between
its SELECT and its UPDATE. `done[j]` is the domain row of a handler that keeps one. `calls`
and `lost` are history variables: external effects, and those whose outcome no transaction
recorded.

| action | code |
|---|---|
| `Submit` | `service.py` `submit_job` |
| `Claim` | `service.py` `claim_due_jobs` and the commit in `runner.py` `_tick` |
| `FailUnhandled`, `Block`, `Intend` | the early exits and the intent transaction of `_process_job` |
| `Defer`, `Admit` | `_admit_tenant`, `_defer` |
| `StartHandler` | the second transaction: FOR UPDATE and the handler's own "already done?" |
| `PersistToken` | a Google publisher that commits a refreshed token on the runner's session |
| `CallSucceeds`, `CallFails`, `CallRefused`, `ReplyLost` | the provider's answer |
| `LoseSession`, `DetachedReturns` | `idle_in_transaction_session_timeout` ends the session under a call |
| `Record`, `IngestCompletes`, `IngestFails` | the commits of handlers that keep a row of their own |
| `Complete`, `Fail` | `_complete_in`, `_fail`: the outcome and its outbox event |
| `LockTimeout`, `Crash` | `lock_timeout`; the process dies |
| `Reap` | `reaper.py` `reap_in_session`: both sweeps in one transaction |
| `LeaseExpires`, `LeaseOverrun`, `BecomesDue`, `DeadlinePasses` | the clock |
| `AskCancel`, `CancelCommits`, `AskReplay`, `ReplayCommits` | `cancel_job`, `replay_job` |

An UPDATE by SQLAlchemy carries only the columns whose value differs from what the session
loaded. `Flush` models that: it is why a cancel that read the row before it was claimed does
not clear the lease of the claim, but why an overtaken ingest handler can.

Handlers differ only in where they commit and in what a normal return may mean, so a job's `kind` is that:
`inline` and `refreshing` (post.publish on Meta and on Google, where the publisher may commit a refreshed token on the
runner's session before the call), `removing` and `withdrawing` (the same two for post.delete), `sending`
(review_request.send), `committing` (tts, stt), `ingest` (rag.ingest), `unhandled`. `Waivable` are the kinds whose handler may
return normally without an effect (`CallRefused`): `post_delete.py` returns `skipped` when the publish job is gone, is not `succeeded`,
has no platform id or is no removable post (43-65), and takes a 404 for a removal (82-87); the runner completes and announces it like
any other.

### The contract

`JobContract` says what a submitter may rely on, without rows, runners or leases: an effect at the
provider only while it is owed (`Work` needs that every earlier one is lost), a report only of work that stands unless the terms excuse it,
one announcement, and nothing after it (`told`). `terms` separates three families: a publication is reported once it is done and
announced at once; an ingest writes its own row before the queue's; behind the success of the third there may be no effect: a voice job
or a review request may hold a failure of its own, a removal may have found nothing to take down. `JobQueue` maps its rows to the contract's states and its history variables
to `effects` and `losses`; the announced jobs are those with a `job.succeeded` in the outbox. `ContractKept` is
the contract's specification under that mapping.

### Runs

| run | instance | what it shows |
|---|---|---|
| `queue_faults` | 2 slots, a post to Google and one other job (ingest, voice, review request or removal; one row starts in `accepted`), 1 operator who cancels, 2 faults, 1 deferral, a deadline, a cooled-down provider, `max_attempts` 2 | `TypeOK`, `Exclusive`, `ContractKept` |
| `queue_overrun` | 1 job of any family, 2 slots, leases that run out under live workers, 1 replay, 2 faults, fairness | `RunningIsLeased`, `DuplicatesAreBounded`, `EveryJobSettles` |

The bounds. Jobs meet only in the reaper's pass, where one locked row makes the pass fail,
and in the slots, so two jobs are enough for every interaction; the properties speak of one
job at a time. Two slots are the smallest number that can overtake each other, and two
faults let a second crash hit the recovery of the first. `max_attempts` 2 reaches `retrying` and `dead`. Deadlock is not checked: a queue whose jobs have all
settled, with all replays used, rightly stops. `SYMMETRY` is used for the slots in the safety
run only.

The fairness. A runner polls every two seconds and a live one works on (`WF(Proceed(w))`);
the reaper runs every thirty seconds (`WF(Reap)`); time passes (`WF(ClockStep(j))`). A merchant,
an operator and a fault owe nothing. Weak fairness on `Proceed(w)` says that a slot does
*something*, so it may defer a job again and again; `MaxDefers` is what stops it in the model,
and the tenant cap draining what stops it in the code.

### What the runs say about the code

* The reaper requeues a job whose worker died; if the provider had already done the work, it
  is done again, although `post_publish.py:3-4` says that the same job never publishes twice. One repetition per
  lost outcome is what the contract allows and what holds. `external_intent`, written before the call, is not
  consulted on the way back.
* A removal that is due while its post is still waiting for a retry finds the publish job not `succeeded`, returns `skipped`, is completed
  and announced as a success, and is over; the post then goes out and stays, although `post_delete.py:31-33` says that a promo that must come
  down on a date should not be lost. The contract can only say `excused` of it.
* `cancel_job` checks an unlocked read. A cancel that read the row before it was claimed turns
  a published job into a cancelled one, which `publish/router.py:838` excludes. The contract's `Close` after an
  announcement is that; the job is never *run* again.
* `handle_rag_ingest` marks the job failed and raises; the runner then retries the failed row,
  although `fail_job` calls itself "operator retry only".
* `RunningIsLeased` excepts for a handler that commits in the middle, once a lease has
  run out under it: its flush may clear the lease of the next claim. While that claim's worker
  lives, its own outcome repairs the row. If the workers die, the row is stranded: `running`,
  no lease, and no query of the claim or of the reaper matches it, although `service.py:100-102`
  says that the reaper returns every job of a dead worker. An ingest of more than five minutes is enough for the
  overrun, because nothing renews a lease, and one restart of the workers is both crashes.
  `EveryJobSettles` names this exception; in `queue_overrun`, with two faults and two attempts, it is not needed.
* `release_expired_leases` counts an attempt and never compares it with `max_attempts`: a job that kills
  its worker comes back each time.
* No code sets the cooldown key the pacer reads, and nothing releases a blocked job.
  `EveryJobSettles` therefore counts `blocked` as an outcome.
* A job that reaches its deadline unclaimed becomes due at the deadline (`models.py`
  clamps next_run_at) and is then cancelled by the claim it made possible.

### Theorems

From `ConstantsAssumption` alone, for all jobs, workers, operators and bounds:

* `TypeCorrect`: `Spec => []TypeOK`, with `TypedInv` (a slot is busy iff it has a job).
* `MutualExclusion`: `Spec => []Exclusive`. The inductive invariant `ExclusionInv` adds that a
  row someone works on is `running` with a live lease, or cancelled under the worker, or
  settled by the ingest handler itself (`HeldRows`); that a handler's copy is not an outcome yet
  (`OpenCopies`); and that a pending cancel was allowed when it was asked (`AsksAllowed`).
  Without `HeldRows` nothing says why the reaper, or a claim, cannot take the job.
* `RunningRowsAreLeased`: `Spec => []RunningIsLeased`. `LeaseInv` adds what a flush depends on: an
  `inline` or `removing` handler holds the row lock on the row as it loaded it until the runner commits (`LockedCopies`), the others rely on the exclusion
  (`SettledCopies`).
* `QueueKeepsContract`: `Spec => ContractKept`, assuming `Orderly` (leases outlive the work, nobody replays): the queue
  implements the contract. The invariant `ContractInv` adds to `LeaseInv` that an announced job is over
  (`ToldIsOver`), that what a domain row or a slot says was done stands at the provider (`DoneStands`), and which effects are
  still known (`KnownEffects`, `EffectsKept`). The proof then maps each action to a step of the contract or to a
  stutter, in groups: those that change a row, those that have an effect, those that announce.

* `DuplicatesArePaidFor`: `Spec => []DuplicatesAreBounded`, with overruns and replays allowed. The inductive invariant
  `CallsArePaid` counts together what was called, the runners that may still call (`Callers`; one whose session is lost,
  `Detached`, counts twice, since it may have called and will be tried again), the replays under way (`Replayers`), and one for a row that
  another runner may still take up (`Spare`): never more than one, plus the faults, plus the replays. A running row with a live lease is
  spare only if no runner covers it. The proof compares, for one worker's step, what
  the step adds to the sum with what it pays (`WorkerPays`), action by action. It needs `Workers` and `Operators` to be finite,
  as processes are.

Model-checked only: `EveryJobSettles` (liveness).

## CreditLedger

### State and actions

The module is one tenant. `wallet` is `users.ai_credit_cents`, `opened` the opening row;
`hold[c]` the `ai_usage` row of a metered unit; `lapsed` says whose `expires_at` has passed;
`usage` the calls with a priced usage row; `pc` and `call` the tasks that meter work; `phase`
and `todo` the replicas of the hold reaper, each with what its scan returned; `ask`,
`granted`, `posted` and `plan` the grants. Every transaction that moves money locks the user row
and keeps no lock across a provider call, so it is one step, and locks need no variable.

| action | code |
|---|---|
| `Open` | `ledger.py` `ensure_ledger_initialized`, on a balance read |
| `StartCall` | `providers/base.py` `complete`, `gateway.py` `stream`: reserve before the call |
| `StartVoice` | `pricing.py` `charge_voice`: reserve with the unit's key, after the work |
| `ProviderReturns`, `ProviderFails` | the answer; a stream's client that leaves counts as one |
| `Settle` | `ledger.py` `settle` |
| `RecordUsage` | `llm/usage.py` `_insert_event` |
| `SettleFails`, `UsageLost`, `Crash` | the errors these functions log and swallow; a dead process |
| `ScanPriced`, `Recover`, `ScanExpired`, `Expire`, `EndPass` | `reap_once`, scan by scan and row by row |
| `ReaperSkips`, `ReaperFails` | its error paths |
| `HoldLapses` | fifteen minutes pass |
| `AskGrant`, `GrantCommits`, `GrantPlan` | `service.py` `grant_credit`, `grant_plan` |

### Runs

| run | instance | what it shows |
|---|---|---|
| `ledger_accounts` | a stream and a voice unit, 2 callers, 2 reapers, 1 operator with one key, a plan change, costs 1 and 3 around a hold of 2, 1 fault, fair reapers and clock | `TypeOK`, `ChargedForWork`, `OverdraftIsOverage`, `UnpaidIsLoss`, `LedgerExplainsWallet`, `SettledIsFinal`, `EveryHoldSettles` |

The bounds. The opening balance 3 and the hold 2 leave credit for one call and not for two, so the
last cents are contended; costs below and above the hold exercise refund and overage, a failed
call its release; a voice unit of cost 1 or 3 is taken whole. Two callers may both be runs of the same
voice job. Two reapers may have scanned before either acts. One fault is enough for each error path
to meet every interleaving; that a second would add is another call hit. `Keys` has one key because
keys do not interact. Deadlock is checked: the reapers always have a next pass.

The fairness. Each replica of the reaper makes a pass a minute (`WF(ReaperStep(r))`), and time
passes (`WF(HoldLapses(c))`). Callers owe nothing: they may hang for ever or die.

### What the runs say about the code

* A charge is always what the work cost: a settle after the reaper's refund charges the full cost,
  one before it refunds the rest of the hold, and a second one changes nothing. The wallet may go below zero
  by that overage and by nothing else.
* The recovery scan looks for usage rows, and those are inserted after settle. A process that dies
  before settle therefore leaves none, and its work is refunded, although `ledger.py:432-434` calls the
  reaper the recovery path for a process that died before settle; what the scan does recover is a
  settle that failed in a process that lived on.
* `_expire_stale_only` does not look at usage rows. A row that lands between the two scans, or
  a recovery that fails in the same pass, ends in a refund, and no later pass sees the hold.
  The model has both steps (`ScanExpired`, `ReaperFails`); no run is spent on them.
* `charge_voice` reports its price even when settle returned nothing. Reports decide nothing
  in the ledger and are not modelled.

### Theorems

From `ConstantsAssumption` alone, for all calls, callers, reapers, operators, keys, costs and bounds:
`LedgerTypeCorrect` (`TypeOK`), `ChargesAreCosts` (`ChargedForWork`), `OnlyFaultsLosePay`
(`UnpaidIsLoss`), `DoubleEntry` (`LedgerExplainsWallet`), `FinalizedOnce` (`SettledIsFinal`) and
`OverdraftsAreOverages` (`OverdraftIsOverage`). The set of calls is finite, as a table is.

All six rest on one inductive invariant, `Inv`. That a charge equals a cost needs to know that the cost
cannot change once somebody may have settled: an LLM call has one caller (`OneCaller`), nothing is
priced or recorded before the provider answers (`NothingYet`), a voice unit is priced before it has a
hold (`VoiceIsPriced`), the reaper recovers only priced holds (`UsageIsPriced`). That only faults lose
pay needs `WorkIsPursued`: uncharged work has a caller about to settle it, or was hit.

`OverdraftsAreOverages` adds that there is no money before the cutover (`UnopenedIsEmpty`) and that the reaper marks what it
refunds (`ExpiredIsRefunded`). Its sum over all calls is reasoned about without an induction scheme: among the subsets of a
finite set on which a claim fails there is a least one (`LeastSubset`), and it is refuted. That gives that sums exist
and are unique (`SumsExist`, `SumsAgree`), that `Total` is one (`TotalIsSum`), and what one summand contributes (`OneSummand`);
so a step on one call is compared with the wallet alone (`OverdraftMoves`), and a step on none moves no sum (`OverdraftStays`).

Model-checked only: `EveryHoldSettles` (liveness under fairness).

### Not modelled

Token counts and price tables (a cost is any member of `Costs`); the price of a voice unit is taken
to be the same in every run of its job, so a price change in between is left out. The trial credit is part of the opening
balance: it is written with a new user before anything else can read it. `reconcile_wallet`
repairs the row by hand and is not called by the service. The reaper's batch of 100 only splits a pass.
The Redis mirror decides no charge.

## InboundReplies

### State and actions

The module is one contact of one connection. Its events share a Kafka key, hence a partition:
`log` is the partition, `committed` the group's offset, `owner` the member that holds it.
`event[m]` is the outbox row of message `m`; its `stamp` stands for `next_retry_at`, which the
compare-and-set of `mark_published` compares, and `due` says that it has passed. `phase`, `batch`
and `todo` are the relays in the middle of `_send_batch`, `buffer` what their producers have not
delivered. `pc`, `at`, `parts`, `part` are the consumers: where in the handler, on which record, with a
reply of how many parts. `seen` is the row somebody loaded to count a failure and has not written yet.
`inbound[m]` is `ai_reply_status`, `answered` the messages that an outbound row follows. `recorded`,
`delivered`, `lost`, `dropped`, `unknown` and `overlapped` are history variables.

| action | code |
|---|---|
| `Receive` | `webhooks/router.py` `_store_event`: ledger row and outbox row in one transaction |
| `Fetch`, `Hand`, `SendRaises`, `MarkFailed`, `MarkPublished` | `outbox/worker.py` `_send_batch` with `outbox/service.py` |
| `Flush`, `RecordExpires`, `RelayCrash` | the producer: the broker has the record, it is given up, its process dies |
| `BackoffPasses` | `next_retry_at` |
| `Poll`, `Commit`, `ConsumerCrash`, `Evict` | `run_meta_events_worker` and the group: one record per poll, one commit per record |
| `Drop` | a record for a number that no connection owns |
| `Lookup`, `Store` | `_process_inbound_message` up to the stored row |
| `Withhold`, `StaySilent`, `SystemLine` | no model is asked: a verdict, an early return, a fixed line |
| `GenerationFails`, `Compose`, `ShortCircuit` | the model's answer and how it is rendered, or the canned answer to a ticket code |
| `VoiceSent`, `VoiceFails`, `SendPart`, `SendAmbiguous`, `SendTransient`, `SendPermanent` | the provider's answer to each send |
| `RecordPart`, `AfterReplyFails`, `CloseReply` | the outbound row; what follows it; `_close_inbound_reply_state` |
| `HumanReplies` | a person answers from the inbox |
| `MarkSent`, `MarkAmbiguous`, `ReadAttempts`, `MarkRetry` | the outcome of the event |

Which messages deserve an answer, and what it says, is nondeterministic. An UPDATE carries only the
columns that differ from what was loaded: `Flushed` is that for `mark_failed`, and it is why
`GenerationFails` writes no status.

### Runs

| run | instance | what it shows |
|---|---|---|
| `replies_conversation` | 2 messages, replies of 1 or 2 parts, 1 relay, 2 consumers, 2 attempts, 1 fault | `TypeOK`, `AgainOnlyAfterLoss`, `SentIsSettled` |
| `replies_relays` | 1 message, 2 relays, 1 consumer, 1 part, 2 attempts, 2 faults, fairness | `PublishedIsInFlight`, `EveryEventSettles` |

The bounds. Messages of a conversation meet in the partition and in `answered`: an outbound row
answers every message stored before it, so two are needed, and a third adds another of the
same. Two parts have a first and a last. Two attempts reach `failed`, its retry, and `dead`. With one message
and two relays each row is sent twice, before and after the consumer's outcome; two consumers are the
smallest group in which one can be evicted. A fault is a crash, an eviction, a lost record, a send
that raises, an answer that does not arrive, or a number found disconnected; one meets every interleaving of two messages,
and two let a relay's failure meet a consumer's. Transient and permanent refusals and failing models
are not faults and are unlimited. Deadlock is not checked: a conversation whose messages are all
answered rests. `SYMMETRY` is used in the safety run only.

The fairness. A relay polls every second and the consumer's loop starts again after any error
(`WF(RelayStep(r))`, `WF(ConsumerStep(c))`); the broker takes what a producer has
(`WF(Flush(r))`); backoffs pass (`WF(BackoffPasses(m))`). Webhooks, people and faults owe nothing.

### What the runs say about the code

* Relays do send an event twice: the lock of `fetch_pending_events` ends with its session, although
  its docstring says that drainers "can run concurrently without twin-sending events". What keeps the
  customer from a second reply is the consumer: one partition, one owner, and the outbound row found by `_has_outbound_reply`.
  `AgainOnlyAfterLoss` is what that gives. Two consumers at one message, after an eviction, are outside it
  (`overlapped`): the second finds a pending message and answers it too.
* `mark_published` compares the row with the one that was read, and so does not hide a retry that the
  consumer has scheduled meanwhile; a comparison of the status alone would (the mutant of
  `PublishedIsInFlight`). `mark_failed` compares nothing: it may move an event the consumer has closed back
  to `failed`. The message is then seen again and closed again.
* The relay awaits `producer.send`, not the future it returns, so *published* means buffered,
  although `outbox/service.py:168` speaks of rows accepted by Kafka: one crash of a relay loses a message for
  good. `PublishedIsInFlight` says that nothing else does.
* An ambiguous send leaves no outbound row and a pending message, which is also what an owed reply looks
  like. The outbox row is not retried, but a crash before the offset is committed brings the record
  back, and the reply is sent again, although `meta_events_worker.py:16` excludes it.
* A record that finds its number disconnected is closed as sent, with no stored message; that is what
  `unknown` excepts in `SentIsSettled`.
* Any outbound row answers every message stored before it, a system line too. An earlier message
  whose reply is still owed is then closed as sent.
* A refusal after the first part leaves the message owed; its retry finds the first part's row and
  closes the message as sent. The customer keeps half an answer.

### Theorems

From `ConstantsAssumption` alone, for all messages, relays, consumers, parts, attempts and faults:
`RepliesTypeCorrect` (`TypeOK`), `SentEventsAreSettled` (`SentIsSettled`), `PublishedEventsAreInFlight` (`PublishedIsInFlight`)
and `PartsRepeatOnlyAfterLoss` (`AgainOnlyAfterLoss`). The inductive invariant `Inv` of the first two
adds `Working`: a consumer past the lookup has a record and a stored message, one that sends or records has a
part, and one that is about to mark the event sent has seen its reply settled, or its number disconnected. The last is what the property
needs, and it survives the steps of all the others because a settled status is never taken back
(`Forward`). The proof has one lemma per group of actions and shows of each step inside the handler
that it leaves the events alone (`Handled`), and of each that ends a record that it leaves
the messages alone (`Concluded`).

`PublishedIsInFlight` is not inductive: a relay that has handed its records over publishes later, from rows it read earlier. `Promises`
adds that case (`Promised`: the row is still at the stamp the relay read), and says that each promise is kept by a record in a
producer, or after the group's offset (`PromisesAreKept`), or after what each consumer in the middle of a record will commit
(`PromisesAreAhead`); `SnapshotsAreOld` is why a row that was closed or sent round again is at a stamp that no relay holds.

`AgainOnlyAfterLoss` rests on `Counted`: while nobody was evicted only the owner of the partition works (`OwnerAlone`), from the part it is at
on there are no rows (`PartsAreNew`), a part has one (`RowsAreSingle`), and a copy without a row is in `lost` or about to be
recorded (`CopiesAreCounted`).

Model-checked only: `EveryEventSettles` (liveness).

### Not modelled

The outbox's other topics, whose rows are marked sent once buffered; the deletion of closed rows; the webhook
ledger's own status; pictures, stickers and cards, which are best effort; Instagram and comments, whose
handlers have the same shape; the availability latches of `kafka/client.py`, which only delay a pass.

## FollowUps

### State and actions

One action of the module is a `lead_actions` row: attempt `n` of the sequence that guards message `g` of
lead `l` (the columns of `uq_lead_actions_step`). `due`, `lapsed` and `quiet` abstract the clock, as in
`JobQueue`. `talk`, `read` and `marked` are the consumer: where it is with a message, the stage its session has, the rows it has
read to cancel. `taking` and `taken` are a takeover between its read and its commit. A worker has
`batch[w]`, the rows it claimed *as it read them*; `locked[w]`, those whose claim has not committed (the claim
commits with the first action of the batch, `_claim_due_actions` does not commit); and `cur[w]`.

| action | code |
|---|---|
| `Receive`, `Store`, `StoreTimesOut`, `Capture` | the consumer: cancel on inbound, opt-out |
| `ScheduleFollowup`, `NoFollowup` | `lead_engine.py` `schedule_followup` after the reply |
| `TakeOver`, `TakeOverCommits`, `TakeOverTimesOut`, `HandBack` | `conversation_mode.py` `set_mode` |
| `UpdateStage` | `PATCH /leads/{id}` |
| `Claim` | `_claim_due_actions`: release of expired claims, then the claim, with SKIP LOCKED |
| `Refuse`, `Postpone`, `Retire`, `Choose`, `NoTemplate` | the checks of `_process_action` |
| `ReserveTemplate`, `SendTemplate`, `RecordTemplate`, `SettleTemplate`, `SameTemplate` | the template outside the 24 hour window, reserved under the action's key before the call |
| `Send`, `Failed`, `Requeue`, `RecordSent`, `SentIsRefused` | Meta's answer and what is written for each |
| `ReleaseUnnamed`, `ActionBreaks` | `process_due_actions`: an error of `_process_action` puts the row back to "pending" and commits |
| `CommitTimesOut` | a commit that waits for a claim in progress longer than `lock_timeout`; its batch is lost |
| `Die`, `Lapse`, `FallsDue`, `WindowCloses` | faults and the clock |

### Run

`followups`: one lead whose customer writes once more, two workers, two attempts, one retry, one order of an operator, one
fault, fair. It shows `TypeOK`, `CopiesAreExcused`, `TakenOverIsLeftAlone`, `EveryActionSettles`. Rows of different leads meet only
in a batch; two attempts of one lead do that already, and the second is also the one that `RecordSent` arms. `excused[a]`
counts, for an action, the deaths with its outcome in hand, the leases that ended under its worker, the commits that were refused or
timed out, and the nudges Meta accepted without naming them: nothing else
gives the customer a second copy. `escaped` holds the actions a takeover did not stop: in a worker's batch at its commit (or, though
no longer live, when it read the rows), or armed on the thread after it had begun. `twice` holds the messages two consumers answered.

Fair are the workers' loop and the clock. The release of a claim needs nobody but another worker's round.

### What the run says about the code

* A cancellation does not reach an action that a worker has claimed: the worker never reads the status again and
  writes its own outcome over it (`lead_engine.py:814-819`). What protects the customer who answered is the guard: the newest
  message is read just before the send. A takeover has no such guard: nothing compares the mode before a send.
  `TakenOverIsLeftAlone` says what is left then. Whatever is not in `escaped` was cancelled, with any expired
  claims of dead workers.
* What is in `escaped` does go out under a person's name: an action a worker had claimed, the attempt that a nudge sent
  during or after the takeover arms (`_process_action` does not look at the mode), and the one a reply under way
  arms; the inbox cancelled only what was there.
* A nudge Meta accepts with an empty id cannot be recorded: `(provider_msg_id or None)[:200]` raises
  (`lead_action_worker.py:333`), the handler puts the row back to "pending" (`:401-407`), and the next poll,
  fifteen seconds later, sends it again. Nothing counts these rounds: the nudge is repeated until Meta names it, and
  `EveryActionSettles` holds because the model takes such answers from its faults. The quick release was made for errors that
  precede the send; after it, it is the opposite of the `ambiguous` that a lost answer gets.
* When two consumers answer one message, the second arms attempt 2. The worker that later sends attempt 1 cannot insert
  attempt 2: the unique index refuses its commit outside the error handler, its batch is lost, and the
  nudge goes out again when the lease has passed. `SentIsRefused` is that step.
* `models.py:740` says that the claim commits before the call to Meta; it does so only from the second action on.
* A quiet-hours check looks at `due_at` and not at the clock: an action claimed late is judged by the hour it was due.
* The consumer writes the stage from the lead it read: a lead closed meanwhile is reopened.

### Theorems

From `ConstantsAssumption` alone, for all leads, attempts, workers, operators and bounds: `FollowUpsTyped` (`TypeOK`),
`NudgeCopiesAreExcused` (`CopiesAreExcused`) and `TakenOverThreadIsLeftAlone` (`TakenOverIsLeftAlone`).

The inductive invariant has `Typed`, which adds what a worker holds where, two parts about copies and one about takeovers. `NudgesArePaid`: the copies sent,
the workers that may still send one (`Owing`: the action is in their batch and its call is not over), and one for an
action somebody may still claim (`Spare`: not armed yet, or live with no lock and no valid lease on it) are never more than one, plus what is
excused. `TemplatesAreReserved`: a template is only sent by the worker that committed its key, once. The commit of a worker *waits* for a
claim in progress on the same row (`GoesOn`): without this the invariant fails, since a retry could be written under
a claim that has read the row before. `EscapedAreKnown`: on a thread a person owns whatever can still be sent (a live row, or one in
a batch) is in `escaped`, and while a takeover is open so is whatever it did not read to cancel. The second half is what makes it inductive.

Model-checked only: `EveryActionSettles` (liveness).

### Not modelled

The texts, the tenant's switch (`Refuse` stands for it too), the delay between attempts, batches larger than
twenty, the lead's capture beyond stage and opt-out.

## Handover

### State and actions

One conversation: `thread` (mode, and by whom it was set), `lead` (priority, count of misses, clocks), `lastOut`.
The consumer keeps `copy`, the lead as its session loaded it, from `capture_lead` to the last commit;
a sweep keeps what it `found`; an operator's request what it has `seen`. `Written(db, old, new)` is a commit: the columns that
differ from what was read are written over what is there.

| action | code |
|---|---|
| `Take`, `Gate`, `Judge`, `Decide`, `HandoffCode`, `DecideOnInstagram` | the two message handlers of `consumer.py` up to the decision; `update_escalation_state` |
| `EscalateToHuman`, `SendHandover`, `CommitHandover` | `escalate_to_human` and the holding line |
| `Reply`, `Page` | the AI's reply, and the page to the team after an urgent one |
| `Ask`, `TakeOver`, `GiveBack`, `ResolveLead`, `AlreadySo`, `OrderFails` | `set_mode`, `resume_lead` and resolve, from the inbox |
| `FindReminder`, `SendReminder` | `run_reminder_sweep` |
| `FindOverdue`, `NothingOverdue`, `Resume` | `run_resume_sweep`, in the reminder's transaction |
| `ConsumerCrash`, `SweepFails`, `WindowPasses`, `ReminderFallsDue` | faults and the clock |

### Run

`handover`: either platform, one operator, one sweeper, threshold 1, two messages, two orders, one fault, fair.
`BackToTheAiIsClean`, `PersonKeepsThread`, `EveryMuteEnds` and `TypeOK`. Two messages let the second be the one that
counts; two orders are a takeover and its return. `raced` records which kinds of transactions overlapped:
"turn", a message's turn with a sweep or a request; "takeover", a request with a sweep or another request; "code over
takeover", a handoff code that reversed a person. Each property excepts the kinds that break it, and only those.

Fair are the consumer, the sweep's loop and the clock; operators owe nothing, so `EveryMuteEnds` is the sweep's own doing.

### What the run says about the code

* The consumer's copy of the lead is as old as the message. A resume or a takeover in between is
  overwritten column by column: a lead may end up with an old count (`"turn"` in `BackToTheAiIsClean`).
* A sweep that has read the thread before a takeover commits `ai` over it (`"takeover"` in `PersonKeepsThread`). With
  the column-wise commit the thread may then be `ai` and `by` a person. A handoff code quoted by the customer reverses a takeover
  made during the turn.
* On Instagram an urgent message mutes the thread (`consumer.py:3608`) without giving the lead a priority, so no clock runs: the resume sweep selects
  `priority = important` only (`lead_escalation.py:645-650`), although `lead_escalation.py:535` and
  `conversation_mode.py:257` name it as the rescue. `EveryMuteEnds` is therefore about WhatsApp.
* The sweep takes fifty candidates a pass and leaves those a person touched; fifty of those in front starve the rest. Its
  first filter is twenty-four hours, so a shorter window of a tenant waits for that.
* With two workers (`--scale worker=N`) both read the same due reminder, and both send it.
* An echo of the business's own app does not mute the thread.

### Theorems

From `ConstantsAssumption` alone, for any operators, sweepers, threshold and bounds: `HandoverTyped` (`TypeOK`), `PersonKeepsTheThread`
(`PersonKeepsThread`) and `BackToTheAiStartsClean` (`BackToTheAiIsClean`).

The bound of the misses in `TypeOK` is itself an invariant (`MissesCounted`): a turn adds one at most, and the
first none. `Takeovers` says what keeps a person's thread while no two requests overlap: one request at a time, and none beside a sweep that is
resuming (`AskersAlone`); only an escalation changes a thread under a request (`SeenHolds`); a turn that meets an escalated
thread makes no lead important (`MutedIsCalm`); and a person's thread that looks escalated has a lead the sweep leaves alone
(`PersonHolds`). `Cycles` says what keeps the count low while no turn overlaps with a sweep or a request: the consumer's copy is the lead
(`CopyIsLead`), and what a sweep has found is still as important (`FoundOverdue`).

Model-checked only: `EveryMuteEnds` (liveness).

### Not modelled

Assignment to a member, notifications, the AI's own text, the wording of a code; more than one conversation (nothing
relates them but the limit of fifty).

## ScheduledPosts

### State and actions

`row[p]` is the post, `seen[s][p]` a session's copy of it. `owner[p]` and `depth[p]` are the advisory lock: *a connection of the
pool* holds it, as often as it has taken it. `conn[s]` is the connection of a session's transaction: after a
commit the session has none, and its next statement runs on any free one. That is the heart of the module:
`pg_advisory_unlock` on another connection does nothing, and the lock stays behind.

| action | code |
|---|---|
| `Scan`, `TryLock`, `Skip`, `PassBreaks`, `DeleteDue` | `posts/worker.py`, `publish_due`, `delete_due` |
| `StartCall`, `Refuse`, `PersistToken`, `GoogleAccepts`, `GoogleRefuses`, `ReplyLost` | `_publish_post_inner` |
| `RecordPublished`, `RecordFailure`, `CommitFails` | its commit |
| `AfterPublished`, `AfterFailed`, `AfterRollback` | the `finally` blocks, on the connection they get |
| `AskPublish`, `AskCreate`, `TakeLock`, `LockTimesOut` | publish at a click |
| `AskEdit`, `EditCommits`, `EditFails`, `Remove`, `SwitchChannel` | the other requests |
| `ComesDue`, `BackoffPasses`, `Outlives`, `Recycle` | time: schedule, retry, `delete_at`, `pool_recycle` |
| `Crash`, `LoseConnection` | a dead process; a session idle in a transaction for a minute |

### Runs

| run | instance | what it shows |
|---|---|---|
| `posts` | 1 post with a `delete_at`, 2 passes, 1 request, 2 connections, 1 attempt, 2 faults | `TypeOK`, `OneCallAtATime`, `CopiesAreExcused`, `UnpublishedIsNotOnGoogle` |
| `posts_queue` | a scheduled post with a `delete_at` before another, 1 pass, 1 change of channel, 2 attempts, 1 fault, fair | `EveryDuePostSettles` |

Three sessions at two connections is the case where a session finds another connection than it left. `midway` holds the
sessions that committed a new token between lock and call, and so gave the lock's connection up. `excused[p]` counts what may
send a post twice: a lost outcome, a call beside another, a stale copy. `SYMMETRY` of passes and connections in the safety run only.
Retries are in `posts_queue` only. There the pass is weakly fair, and `Recycle` strongly: a connection is replaced when it is next
asked for after half an hour, and the pool hands its connections out in turn.

### What the runs say about the code

* A post can go to Google twice: a crash or a lost answer after the call, two sessions on stale copies (the row is read
  again under the lock, but `expire_on_commit=False` without `populate_existing` returns the object the session has), or a lock that was given up.
  `service.py:490` says that this must never happen. `CopiesAreExcused` says that there is no further way, and `UnpublishedIsNotOnGoogle`
  that nothing else leaves a post at Google while its row offers it for publishing again.
* A post deleted between the lock's reading and Google's answer is made at Google all the same; its commit fails and nothing remembers it.
* The unlock after a commit may run on another connection. The post is then skipped by every pass until the pool replaces the connection.
* A post refused for want of a channel is not marked; it is the first of every pass and its rollback
  expires the objects of the rest, so the pass ends there and younger posts starve. `EveryDuePostSettles` excepts those.
* An edit holds its row lock while it waits for the advisory lock; the holder's commit then meets `lock_timeout`.
* An archived draft may be "restored" to published without a call. A `scheduled_on` set on a scheduled post is ignored.
  `POST /{id}/publish` calls `submit_publish_job`, which does not exist.

### Theorems

From `ConstantsAssumption` alone, for all posts, passes, requests, connections and bounds: `PostsTyped` (`TypeOK`), `PublishesOneAtATime`
(`OneCallAtATime`), `PostCopiesAreExcused` (`CopiesAreExcused`) and `UnpublishedPostIsNotOnGoogle` (`UnpublishedIsNotOnGoogle`).

`OneCallAtATime` follows from `LockIsHeld`: a session between taking the lock and giving it back holds it on its
connection, unless it gave the connection up or lost it; and two sessions share no connection. For the copies, `CallInv` adds that a post
inserted and not committed is nobody else's (`FreshIsNew`) and that a call is made for a post its session has as publishable
(`CallIsOfPublishable`), and `CopiesCounted` counts: what Google made and the calls under way are at most one more than
what is excused, and for a post that says neither published nor deleted at most what is excused, plus the outcomes about to be
written. The second half is also `UnpublishedIsNotOnGoogle`.

Model-checked only: `EveryDuePostSettles` (liveness).

### Not modelled

Other destinations than Google (they go through `JobQueue`), texts and pictures, `media/service.py`, which repeats
the pattern for photos.

## ReviewReplies

### State and actions

`review[r]` is the version of a review at Google, `reply[r]` the answer Google shows. `rows[r]` are its `review_replies`, oldest
first; `insight[r]` and `told[r]` what analytics has and was last told. `news` are the reviews changed since
`last_polled_at`; `lease` and `backoff` the channel's. A session has `listing`, what it was shown; `cur` and `at`, the review and the row
it is at; `hand`, the text it is about to post.

One fact of the code shapes the module: `review_engine/service.py:512` closes the session that its caller passes in, before it asks the
model. What the caller had not committed is rolled back, and the rows it had loaded are detached, so what it writes to them
later is not saved. Only rows added afterwards are. The repository's tests replace `generate_auto_reply` and do not meet it
(`tests/test_reviews_worker.py:90`, `tests/test_connect_import.py:269`). `Begin`, `Save`, `QueueDraft` and `DraftFails`
are written for the code as it runs.

| action | code |
|---|---|
| `Load`, `Claim`, `SkipBackedOff`, `List`, `ListFails`, `PollEnds` | `_poll_one_channel`, claim and release |
| `Adopt`, `LeaveAlone` | `_adopt_existing_reply`; a review whose row is up to date |
| `DraftReply`, `FollowEdit`, `QueueDraft`, `DraftFails` | `generate_auto_reply`, `_refresh_edited_review_reply`, `_save_reply_row` |
| `PollPosts`, `PollIsRefused`, `PollRecords`, `PollBreaks` | the post to Google and its record |
| `Approve`, `ApprovePosts`, `ApproveRecords`, `ApproveIsRefused`, `ApproveBreaks` | `approve_review_reply` |
| `WriteReply`, `AskDraft`, `AskAnother`, `Retry`, `Composed`, `ComposingFails` | `generate_reply_for_review`, regenerate, `retry_failed_reply` |
| `Edit`, `Reject`, `DismissEdit` | the rest of the Outbox, and `dismiss_review_edit` of `analytics/router.py` |
| `ReviewerWrites`, `OwnerReplies`, `Analyse` | Google, and the consumer of `review.discovered` |
| `LeaseLapses`, `BackoffEnds`, `Crash` | the clock and a dead worker |

### Run

`reviews`: one review, one poller, one clerk, two changes at Google, two requests, two faults, everything on autopilot, fair.
It shows `TypeOK`, `OwnersAnswerStands`, `EveryReviewSettles`. Reviews share only the poll's loop. Two changes are a review and its edit, or a
review and the owner's answer. `passed` are the reviews that a poll passed over: it ended, and with it
`last_polled_at` moved, without having dealt with them. `looked` is how far polls have come with a review. Fair are the
poll's loop, a request that has begun, the lease and the backoff.

### What the run says about the code

* `last_polled_at` is the *end* of a poll (`reviews_worker.py:194`). A review written during a
  poll, after its listing, is never listed again. A poll that fails moves it too.
* For the reasons above a failed row that is taken up again, a pending draft that is brought up to date, the withdrawal of siblings, the
  clearing of a dismissal and the deletion in `generate_reply_for_review` are not saved.
* Failed rows are not "retried on later polls" (docstring, 231-232) unless the review changes.
* Our own posted rows have no `reply_external_id`; the first edit of a review after our post is swallowed, because the
  poll adopts the answer it finds as if it were new.
* An edit by the reviewer clears a dismissal only when a live row exists (`reviews_worker.py:1244`).
* Regenerate and retry write their text to a row that was approved or adopted meanwhile.
* An approve that loses the answer records nothing; the reply may be live and the row pending.

### Theorems

In `ReviewProofs`, from `ConstantsAssumption` alone, for all reviews, polls, requests and bounds: `RepliesTyped` (`TypeOK`) and
`OwnersAnswersStand` (`OwnersAnswerStands`, an action property).

`TypeOK` bounds what is on file by what is at Google, so its invariant `RInv` bounds what travels between the two: what a poll was
listed (`ListingTyped`), what analytics was told (`InsightTyped`), where a session is (`PcTyped`, `AtTyped`). It rests on `Grows` and `RowsGrow`:
versions, answers and rows are never taken back, a deleted row only changes its status. For the owner's answer,
`NewIsUnanswered` says that whoever writes a first draft was listed no answer: `MustAdopt` turns a listed answer away unless it is
on file, and then `OnFile` is not empty (`DraftedUnanswered`). `OnlyPostsSend` leaves `PollPosts` as the only step that sends, from a first
draft or a follow-up.

Model-checked only: `EveryReviewSettles` (liveness).

### Not modelled

A permanent refusal (`expired`), which stops the polling of a location; the daily sweep, which marks removals only; ratings, languages, texts; issues
filed from a review; token refresh.

## ConnectImport

### State and actions

The module EXTENDS `ReviewReplies`: an import runs beside the poll and the Outbox and writes the same rows. `session` is
the import's row with its lease, `item[r]` its row for a review. `ipc`, `found` and `task` are the worker's tasks. `asked[r]`
counts how often an item was made pending, `drafted[r]` the drafts the import put on file, `raced[r]` how often a task read an item that
another task had read and not marked yet, `orphans` the items that were being written when
a worker died or failed.

| action | code |
|---|---|
| `ClaimSession`, `NothingToDo`, `BeginFetch`, `FetchReviews`, `FetchFails`, `StoreFetched` | claim, `process_session`, the fetch |
| `BeginGenerate`, `TakeItem`, `MarkItem`, `Drafted`, `DraftBreaks`, `FinishGenerate` | the generate phase; `_generate_one` reads the item, then the session and the channel, then marks the item without looking at it again |
| `SessionFails`, `ImporterDies`, `ImportLeaseLapses` | an exception, a dead worker, the lease |
| `StartGeneration`, `GenerateItem`, `Reconnect` | the merchant: scope, one item, `create_session` again |

### Run

`imports`: one review, one poller, two importers, one change, two orders, one fault, fair. `ImportTypeOK`, `DraftsWereAsked`,
`EveryImportSettles`. Two importers are an overtaken one and the one that overtakes; the second order is a reconnection under the first.

### What the run says about the code

* An item never becomes `draft_ready`: the status is written to the detached row. The end of the phase then marks it `failed`
  ("Generation interrupted"), `request_publish` always answers 409, and the publish phase has nothing to do. The draft itself
  is on file, and "retry" puts another one beside it. That is why the module has no publish action.
* Nothing renews the lease, and a reconnection clears it in mid-fetch. Two workers are then on one session, what `create_session` wants to
  exclude ("both workers would draft the same reviews", `connect_import.py:87-88`). `_generate_one` checks `pending`, awaits two
  more reads and writes `generating` with neither a lock nor a compare-and-set (571-579): two tasks that have both read the item
  both draft it. Without `raced` the run refutes `DraftsWereAsked` in seventeen steps; with it, that window is shown to
  be the only way to a draft nobody asked for.
* An overtaken generate phase writes `ready` over what the session has become. An item taken less than ten minutes before its worker's lease
  ends may stay `generating` for ever (708-709): the `orphans` of `EveryImportSettles`.
* A fetch that fails at every location completes the import, although the log says that it will be tried again.

### Theorems

In `ReviewProofs`, from `ConstantsAssumption` and `ImportersAssumption`, for all reviews, importers, polls, requests and bounds: `ImportsTyped`
(`ImportTypeOK`) and `ImportDraftsWereAsked` (`DraftsWereAsked`).

`DraftsWereAsked` is not inductive: it says nothing of the drafts under way. `Covered` counts them: the drafts on file, the tasks that write
or take one (`Drafters`) and a pending item that nobody is taking (`Outstanding`) are together at most what was asked and raced for. Reading
an item moves one from the item to a task or counts a race (`TakenIsCovered`), marking keeps it there (`MarkedIsCovered`), filing moves it
on (`DraftedIsCovered`), and everything else only loses some or asks for more (`DemandsStand`, `OthersStand`): a worker that
dies drops its tasks, which gives a pending item back, and an item that is taken up again is asked for again.

An import writes the rows that polls and requests have in hand. `RepliesTypedBesideImports` and `OwnersAnswersStandBesideImports` state
`TypeOK` and `OwnersAnswerStands` of `ImportSpec`, which does not imply `Spec`: an import makes steps of its own. `JInv` joins both
invariants by what passes from one side to the other: what an importer has listed (`FoundAtGoogle`) and what its items hold (`ItemsAtGoogle`)
was at Google. The import changes no session's place (`ImportKeeps`), only a stored fetch and a filed draft change rows (`ImportWrites`),
and neither takes one away (`ImportKeepsOrder`).

Model-checked only: `EveryImportSettles` (liveness).

## RagIngest

### State and actions

`row[j]` is an `IngestJob`, `unified[j]` the job of the queue that belongs to it (of `JobQueue` only the contract: it is run until a
run ends it, and again when a run is lost), `doc[d]` a document, `copies[d]` its complete sets of chunks, `list` the Redis list. A worker
is a loop of `rag/jobs.py` or a runner slot; `todo`, `on`, `marked`, `dirty` are what its session has loaded and changed.
`adrift`, `raced` and `botched` are history: jobs left in `parsing` with nobody to take them, documents two workers had at
once, documents whose last insertion failed.

| action | code |
|---|---|
| `Process`, `Requeue`, `CommitRequeue`, `RequeueDies`, `DeleteDocument` | the requests of `rag/service.py` |
| `StartWorker`, `Pop`, `ClaimFromTable`, `ReadJob`, `ClaimJob` | `start_worker`, `_dequeue_job`, `_process_job` |
| `Take` | `handle_rag_ingest` |
| `Begin`, `NextDocument`, `ParseFails`, `Chunk`, `ClearChunks`, `Store`, `StoreFails`, `Complete`, `Fail`, `Breaks`, `StageTooLong`, `Abandon` | the pipeline and how it ends |
| `DatabaseFails`, `Dies` | faults |

### Run

`ingest`: one document, two jobs of any kind, a loop and a slot, two runs of a queued job, one fault, fair. `TypeOK`,
`CompletedIsSearchable`, `EveryIngestSettles`. A loop and a slot are the two kinds of workers; two
loops run the same code on the same rows, and a second one adds no kind of step.

### What the run says about the code

* The loop also runs in the API process (`start_worker` is called lazily there), and the queue's handler takes the same rows: one `IngestJob` may be
  worked on twice at once, and its chunks are then there twice, although `jobs.py` says that reprocessing must replace chunks, not duplicate
  them. `raced` are those documents.
* The fallback to the table claims every queued row and works on one; the others wait in `parsing` for the next start.
  An id that was popped and whose row such a claim took is dropped.
* An id is pushed to Redis before its row commits; popped too early it is not found, and dropped.
* A failed insertion of chunks leaves the document `completed` without any (`rag/service.py:614`), and `retry_documents` passes it over.
* Deleting a document while a loop works on it makes the loop's commit fail, and the one in its `except` too: the task ends
  and nothing starts it again before the process does. A statement that fails within a transaction does the same (`DatabaseFails`),
  and so does the name of a file: a run over the databank writes up to 500 characters of it into `stage`, a `String(100)`
  (`rag/jobs.py:246`, `StageTooLong`).

### Theorems

From `RagAssumption` alone, for all documents, jobs, loops, slots and bounds: `IngestTyped` (`TypeOK`) and
`CompletedHasItsChunks` (`CompletedIsSearchable`).

The invariant gives every document one holder unless it was raced for (`OneHolder`) and one place in that session (`Places`). What a session has marked
as processing is not completed behind its back (`MarkedIsNotDone`); while the chunks are replaced the document does not say completed
(`ReplacedIsNotDone`); what a session is about to complete has its chunks (`DirtyIsStored`); and a document that a
request is sending round again cannot be deleted meanwhile (`InsertedLives`).

Model-checked only: `EveryIngestSettles` (liveness).

### Not modelled

Scrape jobs, which have no recovery and can be crawled twice; embeddings, parsers, retrieval. A slot that outlives its lease has no
action of its own: a second session on the same row comes about by a loop, and `raced` is the history of either.

## What the properties except

Where the code does go wrong, the property that would say otherwise names the case, as a history variable or a condition, and holds
of all others. Those cases are found in the model, and no property excludes them:

| exception | property | what the code does |
|---|---|---|
| `KeepsLock`, `Stranded` | `RunningIsLeased`, `EveryJobSettles` | an ingest whose lease ran out clears the lease of the next claim |
| `dropped` | `PublishedIsInFlight`, `EveryEventSettles` | a record is marked published and lost in the producer's buffer |
| `overlapped` | `AgainOnlyAfterLoss` | a consumer evicted in the middle of a message works on beside the next one |
| `unknown` | `SentIsSettled` | a record that finds its number disconnected is closed as sent without a stored message |
| `escaped` | `TakenOverIsLeftAlone` | a nudge that the takeover could not see to cancel is sent |
| `turn` | `EveryMuteEnds`, `BackToTheAiIsClean` | a turn's stale copy of the lead overwrites a reset |
| `takeover`, `code over takeover` | `PersonKeepsThread` | a sweep under way, or a handoff code, gives a taken thread back |
| `excused` | `CopiesAreExcused`, `UnpublishedIsNotOnGoogle` | a lost outcome, an overlapping call or a stale copy costs one copy each |
| `Refused` | `EveryDuePostSettles` | a post that is refused ends every pass, and the younger ones wait |
| `passed` | `EveryReviewSettles` | a change after the listing, or into a failed poll, is not listed again |
| `raced` (imports) | `DraftsWereAsked` | two tasks read one item before either marks it, and both draft it |
| `orphans` | `EveryImportSettles` | an item that is too young to be taken up again stays in `generating` |
| `adrift`, `NoLoop` | `EveryIngestSettles` | a job stays in `parsing` with nobody on it; a loop has ended for good |
| `raced`, `botched` (ingest) | `CompletedIsSearchable` | two sessions add their chunks; a failed insertion is reported as completed |

## Not modelled

* *Publish hub and removals*: the cancel of a publish job is in `JobQueue`; the row of the hub repeats its job's status.
* *Review requests*: their delivery is a kind of job; the row's own life is a few requests on one row.
* *Billing requests and subscriptions*: a decision locks the request, and `grant_credit` commits inside it and gives the
  lock back before the status is written (`billing/requests.py:238`). The grant itself is keyed and in `CreditLedger`.
* *Tenant admission*: a Redis counter whose TTL is set at its first increment and runs under the jobs it
  counts. `JobQueue` leaves its answer open, so every property of the queue holds whatever it says.
* *Wallet mirror*: written after each commit, in no order; it decides no charge.
* *Sessions, accounts and their deletion*: rows read without a lock (`auth/service.py:464`).
* *Analytics and the other outbox topics*: rows that are marked sent once buffered, and a second group
  with marks of its own.
* *The rest*: request and response over rows that one request owns, text generation, aggregates that are
  computed anew, user interfaces, migrations.

The back end has some 110,000 lines. The modules stand for the parts whose correctness is a matter of order: who
commits when, who holds which copy, what a crash leaves. Most of the remaining lines are forms, queries, texts and pages, about
which a state machine says nothing.

## Plan

Modelled: all components whose work is handed from process to process. What is left, in order:

1. `BillingRequests`, composed with the grants of `CreditLedger`, and `TenantAdmission`, composed with `Admit` and `Defer` of
   `JobQueue`.
2. The other topics of the outbox, on the outbox and partition of `InboundReplies`: a committed event is delivered at least once,
   except where the producer's buffer is lost.
3. An abstract account (a balance and a set of entries), refined by `CreditLedger`.

Out of the prover's reach in every module: liveness and ENABLED.
