------------------------------ MODULE RagIngest ------------------------------
(***************************************************************************)
(* The ingestion of documents into a databank                              *)
(* (services/api/app/modules/rag): the IngestJob rows, the loops of        *)
(* rag/jobs.py that take them from a Redis list or, when that yields       *)
(* nothing, from the table, and the handler of the job queue that runs the *)
(* same pipeline on the same rows.                                         *)
(*                                                                         *)
(* One action is one committed transaction, or one step of a process       *)
(* between two.  A worker is a loop or a runner slot; its session keeps    *)
(* the rows it has loaded and writes the columns it has changed.  Of the   *)
(* job queue only what its contract says is modelled here: a submitted job *)
(* is run until a run ends it, and again when a run is lost.  Databank,    *)
(* file, text and vectors are left out: a document has so many complete    *)
(* sets of chunks.                                                         *)
(***************************************************************************)
EXTENDS Naturals, Sequences, FiniteSets

CONSTANTS
    Docs,         \* uploaded documents of one databank
    Jobs,         \* ids of the IngestJob rows to come
    Loops,        \* processes that may run the loop of rag/jobs.py
    Slots,        \* runner slots of the bulk lane
    NoDoc,        \* "no document"
    NoJob,        \* "no job"
    MaxAttempts,  \* jobs.max_attempts
    MaxFaults     \* bound on deaths, lost database calls, outages and overruns

Workers == Loops \cup Slots

ASSUME RagAssumption ==
    /\ NoDoc \notin Docs
    /\ NoJob \notin Jobs
    /\ Loops \cap Slots = {}
    /\ MaxAttempts \in Nat \ {0}
    /\ MaxFaults \in Nat

VARIABLES
    row,      \* the ingest_jobs table
    unified,  \* the row of the job queue that belongs to the job
    doc,      \* the status column of each document
    copies,   \* complete sets of chunks of each document
    list,     \* the Redis list of job ids
    pc,       \* where each worker is
    job,      \* the job it works on
    failed,   \* workers whose session has that job as "failed"
    todo,     \* documents its session has loaded and it has still to ingest
    on,       \* the document it is ingesting
    marked,   \* documents its session has as "processing"
    dirty,    \* documents it has set to "completed" and not committed
    adrift,   \* history: jobs left in "parsing" without anyone to work on them
    raced,    \* history: documents that two workers have had in hand at once
    botched,  \* history: documents whose last insertion of chunks failed
    faults

tables == <<row, unified, doc, copies, list>>
sessions == <<job, failed, todo, on, marked, dirty>>
history == <<adrift, raced, botched>>
vars == <<row, unified, doc, copies, list, pc, job, failed, todo, on, marked, dirty,
          adrift, raced, botched, faults>>

-----------------------------------------------------------------------------
(* Rows                                                                    *)

\* "unseen": inserted by a transaction that has not committed.
JobStatuses == {"absent", "unseen", "queued", "parsing", "completed", "failed", "deleted"}
DocStatuses == {"pending", "processing", "completed", "gone"}

\* "document" and "bank" jobs come with a row of the job queue, "requeue" ones (reindex
\* and retry) with an entry of the Redis list.  `locks`: the transaction that inserts it
\* has updated its document.
Rows == [status: JobStatuses, kind: {"document", "bank", "requeue"},
         doc: Docs \cup {NoDoc}, locks: BOOLEAN]

NoRow == [status |-> "absent", kind |-> "bank", doc |-> NoDoc, locks |-> FALSE]

QueueRows == [state: {"none", "ready", "taken", "over"}, tries: 0..MaxAttempts]
NotQueued == [state |-> "none", tries |-> 0]

Exists(j) == row[j].status \notin {"absent", "unseen", "deleted"}
Inserting(d) == {j \in Jobs : row[j].status = "unseen" /\ row[j].doc = d}
\* No open transaction has updated the document.
Writable(d) == \A j \in Inserting(d) : ~row[j].locks

PCs == {"off", "idle", "popped", "claiming", "begun", "next", "parsing", "chunked",
        "cleared", "failing", "dead"}

\* The workers whose sessions hold document d, and those that hold job j.
Having(d) == {w \in Workers : d \in todo[w] \cup {on[w]} \cup dirty[w]}
HoldersOf(j) == {w \in Workers : job[w] = j}

Fault == faults < MaxFaults /\ faults' = faults + 1

Init ==
    /\ row = [j \in Jobs |-> NoRow]
    /\ unified = [j \in Jobs |-> NotQueued]
    /\ doc = [d \in Docs |-> "pending"]
    /\ copies = [d \in Docs |-> 0]
    /\ list = << >>
    /\ pc \in {f \in [Workers -> {"off", "idle"}] : \A s \in Slots : f[s] = "idle"}
    /\ \E l \in Loops : pc[l] = "idle"
    /\ job = [w \in Workers |-> NoJob]
    /\ failed = {}
    /\ todo = [w \in Workers |-> {}]
    /\ on = [w \in Workers |-> NoDoc]
    /\ marked = [w \in Workers |-> {}]
    /\ dirty = [w \in Workers |-> {}]
    /\ adrift = {} /\ raced = {} /\ botched = {}
    /\ faults = 0

-----------------------------------------------------------------------------
(* Requests                                                                *)

\* Ids are drawn as they are needed; which one comes next is fixed to spare states.
IsNextId(j) ==
    LET unused == {i \in Jobs : row[i].status = "absent"} IN
      j \in unused /\ j = CHOOSE i \in unused : TRUE

\* process_document and process_pending: the row and its job of the queue commit
\* together.  The document keeps its status.
Process(j) ==
    /\ IsNextId(j)
    /\ \/ \E d \in Docs :
            /\ doc[d] # "gone"
            /\ row' = [row EXCEPT ![j] =
                         [@ EXCEPT !.status = "queued", !.kind = "document", !.doc = d]]
       \/ /\ \E d \in Docs : doc[d] = "pending"
          /\ row' = [row EXCEPT ![j] = [@ EXCEPT !.status = "queued", !.kind = "bank"]]
    /\ unified' = [unified EXCEPT ![j].state = "ready"]
    /\ UNCHANGED <<doc, copies, list, pc, sessions, history, faults>>

\* reindex_databank and retry_documents: the row is flushed and its id pushed to Redis
\* (or not, when Redis is down) before the transaction commits.
Requeue(j) ==
    /\ IsNextId(j)
    /\ \E d \in Docs :
         /\ doc[d] # "gone" /\ Writable(d)
         /\ row' = [row EXCEPT ![j] =
                      [@ EXCEPT !.status = "unseen", !.kind = "requeue", !.doc = d,
                                !.locks = doc[d] # "pending"]]
    /\ \/ list' = Append(list, j) /\ UNCHANGED faults
       \/ Fault /\ UNCHANGED list
    /\ UNCHANGED <<unified, doc, copies, pc, sessions, history>>

CommitRequeue(j) ==
    /\ row[j].status = "unseen"
    /\ row' = [row EXCEPT ![j] = [@ EXCEPT !.status = "queued", !.locks = FALSE]]
    /\ doc' = [doc EXCEPT ![row[j].doc] = IF row[j].locks THEN "pending" ELSE @]
    /\ UNCHANGED <<unified, copies, list, pc, sessions, history, faults>>

\* The request dies before it commits; what it pushed stays in the list.
RequeueDies(j) ==
    /\ row[j].status = "unseen" /\ Fault
    /\ row' = [row EXCEPT ![j] = [NoRow EXCEPT !.status = "deleted"]]
    /\ UNCHANGED <<unified, doc, copies, list, pc, sessions, history>>

\* delete_document: its chunks, its jobs and the row, in one transaction.
DeleteDocument(d) ==
    /\ doc[d] # "gone" /\ Inserting(d) = {}
    /\ doc' = [doc EXCEPT ![d] = "gone"]
    /\ copies' = [copies EXCEPT ![d] = 0]
    /\ row' = [j \in Jobs |-> IF row[j].doc = d THEN [NoRow EXCEPT !.status = "deleted"]
                              ELSE row[j]]
    /\ UNCHANGED <<unified, list, pc, sessions, history, faults>>

-----------------------------------------------------------------------------
(* Taking a job                                                            *)

Forget(w) ==
    /\ job' = [job EXCEPT ![w] = NoJob]
    /\ failed' = failed \ {w}
    /\ todo' = [todo EXCEPT ![w] = {}]
    /\ on' = [on EXCEPT ![w] = NoDoc]
    /\ marked' = [marked EXCEPT ![w] = {}]
    /\ dirty' = [dirty EXCEPT ![w] = {}]

Goto(w, l) == pc' = [pc EXCEPT ![w] = l]

\* After this step nobody but worker w will come to job j: it holds no entry of the list
\* and no job of the queue that is still to run.
Unattended(j, w) ==
    /\ HoldersOf(j) \subseteq {w}
    /\ \A i \in DOMAIN list : list[i] # j
    /\ unified'[j].state # "ready"

\* Worker w lets go of its job, which is left to nobody if it is in "parsing".
Parsing == {j \in Jobs : row[j].status = "parsing"}
LetGo(w) == adrift' = adrift \cup {j \in {job[w]} \cap Parsing : Unattended(j, w)}

\* start_worker, in a process that does not run the loop: what nobody has written for
\* ten minutes is taken for abandoned, whether its worker is gone or slow.
StartWorker(l) ==
    /\ pc[l] = "off"
    /\ Goto(l, "idle")
    /\ \E old \in SUBSET Parsing :
         /\ row' = [j \in Jobs |-> IF j \in old THEN [row[j] EXCEPT !.status = "queued"]
                                   ELSE row[j]]
         /\ adrift' = adrift \ old
    /\ UNCHANGED <<unified, doc, copies, list, sessions, raced, botched, faults>>

\* _dequeue_job, the list has an entry.
Pop(l) ==
    /\ pc[l] = "idle" /\ list # << >>
    /\ list' = Tail(list)
    /\ Goto(l, "popped")
    /\ job' = [job EXCEPT ![l] = Head(list)]
    /\ UNCHANGED <<row, unified, doc, copies, failed, todo, on, marked, dirty, history, faults>>

Queued == {j \in Jobs : row[j].status = "queued"}

\* _dequeue_job, nothing in the list for two seconds (unpacking None raises) or Redis is
\* down: the UPDATE claims every queued row, and the first one returned is worked on.
ClaimFromTable(l) ==
    /\ pc[l] = "idle" /\ Queued # {}
    /\ \/ list = << >> /\ UNCHANGED faults
       \/ list # << >> /\ Fault
    /\ row' = [j \in Jobs |-> IF j \in Queued THEN [row[j] EXCEPT !.status = "parsing"]
                              ELSE row[j]]
    /\ UNCHANGED unified
    /\ \E j \in Queued :
         /\ job' = [job EXCEPT ![l] = j]
         /\ adrift' = adrift \cup {i \in Queued \ {j} : Unattended(i, l)}
    /\ Goto(l, "popped")
    /\ UNCHANGED <<doc, copies, list, failed, todo, on, marked, dirty, raced, botched>>

\* _process_job: a row that is not there is skipped, one in "parsing" is taken for the
\* worker's own claim.
ReadJob(l) ==
    /\ pc[l] = "popped"
    /\ \/ ~Exists(job[l]) /\ Goto(l, "idle") /\ Forget(l)
       \/ /\ Exists(job[l])
          /\ Goto(l, IF row[job[l]].status = "parsing" THEN "begun" ELSE "claiming")
          /\ UNCHANGED sessions
    /\ UNCHANGED <<tables, history, faults>>

\* The conditional UPDATE; without a row to its name the loop moves on.
ClaimJob(l) ==
    /\ pc[l] = "claiming"
    /\ UNCHANGED unified
    /\ \/ /\ row[job[l]].status = "queued"
          /\ row' = [row EXCEPT ![job[l]] = [@ EXCEPT !.status = "parsing"]]
          /\ Goto(l, "begun")
          /\ UNCHANGED <<sessions, adrift>>
       \/ /\ row[job[l]].status # "queued"
          /\ Goto(l, "idle") /\ Forget(l) /\ LetGo(l)
          /\ UNCHANGED row
    /\ UNCHANGED <<doc, copies, list, raced, botched, faults>>

\* The job queue hands the job to a slot.  The handler looks only for "completed".
Take(s, j) ==
    /\ pc[s] = "idle" /\ unified[j].state = "ready"
    /\ \/ /\ Exists(j) /\ row[j].status # "completed"
          /\ unified' = [unified EXCEPT ![j].state = "taken"]
          /\ Goto(s, "begun")
          /\ job' = [job EXCEPT ![s] = j]
          /\ failed' = IF row[j].status = "failed" THEN failed \cup {s} ELSE failed
       \/ /\ ~Exists(j) \/ row[j].status = "completed"
          /\ unified' = [unified EXCEPT ![j].state = "over"]
          /\ UNCHANGED <<pc, job, failed>>
    /\ UNCHANGED <<row, doc, copies, list, todo, on, marked, dirty, history, faults>>

-----------------------------------------------------------------------------
(* The pipeline                                                            *)

\* _process_document_job loads the document of its job, _process_databank_job every
\* pending one.
Loads(j) ==
    IF row[j].kind = "bank" THEN {d \in Docs : doc[d] = "pending"}
                            ELSE {row[j].doc} \cap {d \in Docs : doc[d] # "gone"}

Begin(w) ==
    /\ pc[w] = "begun" /\ Exists(job[w])
    /\ LET ds == Loads(job[w]) IN
         /\ todo' = [todo EXCEPT ![w] = ds]
         /\ marked' = [marked EXCEPT ![w] = {d \in ds : doc[d] = "processing"}]
         /\ raced' = raced \cup {d \in ds : Having(d) # {}}
    /\ Goto(w, "next")
    /\ UNCHANGED <<tables, job, failed, on, dirty, adrift, botched, faults>>

\* The session's commit: every row it has changed must still be there and be free.
CanCommit(w, ds) ==
    /\ Exists(job[w])
    /\ \A d \in ds \cup dirty[w] : doc[d] # "gone" /\ Writable(d)
Flushed(w) == [d \in Docs |-> IF d \in dirty[w] THEN "completed" ELSE doc[d]]

\* The first commit of a document: stage and progress, and what became of the last one.
NextDocument(w) ==
    /\ pc[w] = "next" /\ todo[w] # {}
    /\ CanCommit(w, {})
    /\ \E d \in todo[w] :
         /\ on' = [on EXCEPT ![w] = d]
         /\ todo' = [todo EXCEPT ![w] = @ \ {d}]
    /\ doc' = Flushed(w)
    /\ dirty' = [dirty EXCEPT ![w] = {}]
    /\ Goto(w, "parsing")
    /\ UNCHANGED <<row, unified, copies, list, job, failed, marked, history, faults>>

\* The file is missing, or its parser fails.
ParseFails(w) ==
    /\ pc[w] = "parsing"
    /\ Goto(w, "failing")
    /\ on' = [on EXCEPT ![w] = NoDoc]
    /\ UNCHANGED <<tables, job, failed, todo, marked, dirty, history, faults>>

\* Parsed and cut: the stage, then doc.status, which is written if it changes.
Chunk(w) ==
    /\ pc[w] = "parsing"
    /\ CanCommit(w, {on[w]})
    /\ doc' = [doc EXCEPT ![on[w]] = IF on[w] \in marked[w] THEN @ ELSE "processing"]
    /\ marked' = [marked EXCEPT ![w] = @ \cup {on[w]}]
    /\ Goto(w, "chunked")
    /\ UNCHANGED <<row, unified, copies, list, job, failed, todo, on, dirty, history, faults>>

\* Mutant of ClearChunks: reprocessing adds to what is there.
KeepChunks(w) ==
    /\ pc[w] = "chunked"
    /\ Goto(w, "cleared")
    /\ UNCHANGED <<tables, sessions, history, faults>>

\* "Reprocessing must replace chunks, not duplicate them."
ClearChunks(w) ==
    /\ pc[w] = "chunked"
    /\ copies' = [copies EXCEPT ![on[w]] = 0]
    /\ Goto(w, "cleared")
    /\ UNCHANGED <<row, unified, doc, list, sessions, history, faults>>

\* _embed_and_store commits the chunks on a session of its own and sets doc.status on
\* the object of the worker's session.
Store(w) ==
    /\ pc[w] = "cleared" /\ doc[on[w]] # "gone"
    /\ copies' = [copies EXCEPT ![on[w]] = @ + 1]
    /\ dirty' = [dirty EXCEPT ![w] = @ \cup {on[w]}]
    /\ marked' = [marked EXCEPT ![w] = @ \ {on[w]}]
    /\ on' = [on EXCEPT ![w] = NoDoc]
    /\ botched' = botched \ {on[w]}
    /\ Goto(w, "next")
    /\ UNCHANGED <<row, unified, doc, list, job, failed, todo, adrift, raced, faults>>

\* The insertion fails, for want of the document or of the database; doc.status has been
\* set before it.
StoreFails(w) ==
    /\ pc[w] = "cleared"
    /\ \/ doc[on[w]] = "gone" /\ UNCHANGED faults
       \/ Fault
    /\ dirty' = [dirty EXCEPT ![w] = @ \cup {on[w]}]
    /\ on' = [on EXCEPT ![w] = NoDoc]
    /\ botched' = botched \cup {on[w]}
    /\ Goto(w, "failing")
    /\ UNCHANGED <<tables, job, failed, todo, marked, adrift, raced>>

-----------------------------------------------------------------------------
(* The end of a run                                                        *)

\* Mutant of Again: the attempts are counted and not compared.
AgainUncapped(j) == [state |-> "ready", tries |-> unified[j].tries + 1]

\* What a run that does not end the job leaves of its row in the queue.
Again(j) ==
    IF unified[j].tries + 1 >= MaxAttempts
      THEN [state |-> "over", tries |-> MaxAttempts]
      ELSE [state |-> "ready", tries |-> unified[j].tries + 1]

\* job.status = "completed" and the commit; a slot then ends the job of the queue.
Complete(w) ==
    /\ pc[w] = "next" /\ todo[w] = {}
    /\ CanCommit(w, {})
    /\ row' = [row EXCEPT ![job[w]] = [@ EXCEPT !.status = "completed"]]
    /\ doc' = Flushed(w)
    /\ unified' = IF w \in Slots THEN [unified EXCEPT ![job[w]].state = "over"] ELSE unified
    /\ Goto(w, "idle") /\ Forget(w)
    /\ UNCHANGED <<copies, list, history, faults>>

\* Mutant of Fail: the handler leaves the job as it was.
FailQuietly(w) ==
    /\ pc[w] = "failing"
    /\ CanCommit(w, {})
    /\ unified' = IF w \in Slots THEN [unified EXCEPT ![job[w]] = Again(job[w])] ELSE unified
    /\ doc' = Flushed(w)
    /\ Goto(w, "idle") /\ Forget(w)
    /\ UNCHANGED <<row, copies, list, history, faults>>

\* job.status = "failed" and the commit, which takes the document's status along; a
\* session that had the job as failed writes nothing.  A slot then raises.
Fail(w) ==
    /\ pc[w] = "failing"
    /\ CanCommit(w, {})
    /\ row' = [row EXCEPT ![job[w]] = IF w \in failed THEN @ ELSE [@ EXCEPT !.status = "failed"]]
    /\ doc' = Flushed(w)
    /\ unified' = IF w \in Slots THEN [unified EXCEPT ![job[w]] = Again(job[w])] ELSE unified
    /\ Goto(w, "idle") /\ Forget(w)
    /\ UNCHANGED <<copies, list, history, faults>>

\* The except clause raises as well: a slot's run is over, a loop's task ends and is never
\* started again.
Abandon(w) ==
    /\ unified' = IF w \in Slots THEN [unified EXCEPT ![job[w]] = Again(job[w])] ELSE unified
    /\ Goto(w, IF w \in Slots THEN "idle" ELSE "dead")
    /\ Forget(w)
    /\ LetGo(w)

\* A run over the databank writes each file's name, of up to 500 characters, into the
\* stage, of 100: before it is parsed, cut and embedded.
StageTooLong(w) ==
    /\ pc[w] \in {"parsing", "cleared"} \/ (pc[w] = "next" /\ todo[w] # {})
    /\ row[job[w]].kind = "bank"

\* A commit that updates a row which is gone raises, as does one of too long a stage.  The
\* commit in the except clause meets a session that wants a rollback, and raises too.
Breaks(w) ==
    /\ \/ pc[w] \in {"begun", "next", "failing"} /\ ~Exists(job[w])
       \/ pc[w] \in {"next", "failing"} /\ \E d \in dirty[w] : doc[d] = "gone"
       \/ pc[w] = "parsing" /\ (~Exists(job[w]) \/ doc[on[w]] = "gone")
       \/ StageTooLong(w)
    /\ Abandon(w)
    /\ UNCHANGED <<row, doc, copies, list, raced, botched, faults>>

-----------------------------------------------------------------------------
(* What goes wrong                                                         *)

Running == {"begun", "next", "parsing", "chunked", "cleared"}

\* The database fails a worker.  Between two transactions of the pipeline, where it is a
\* connection that is not to be had, that is a failure of the job; within one, or outside
\* the pipeline, nothing handles it.
DatabaseFails(w) ==
    /\ Fault
    /\ \/ /\ pc[w] \in Running
          /\ Goto(w, "failing")
          /\ on' = [on EXCEPT ![w] = NoDoc]
          /\ UNCHANGED <<unified, job, failed, todo, marked, dirty, adrift>>
       \/ /\ \/ pc[w] \in Running \cup {"failing"}
             \/ w \in Loops /\ pc[w] \in {"idle", "popped", "claiming"}
          /\ Abandon(w)
    /\ UNCHANGED <<row, doc, copies, list, raced, botched>>

\* The process ends.  The lease of a slot's job runs out, and the reaper returns it.
Dies(w) ==
    /\ job[w] # NoJob
    /\ Fault
    /\ unified' = IF w \in Slots THEN [unified EXCEPT ![job[w]].state = "ready"] ELSE unified
    /\ Goto(w, IF w \in Slots THEN "idle" ELSE "off")
    /\ Forget(w)
    /\ LetGo(w)
    /\ UNCHANGED <<row, doc, copies, list, raced, botched>>

-----------------------------------------------------------------------------
Pipeline(w) ==
    \/ Begin(w) \/ NextDocument(w) \/ ParseFails(w) \/ Chunk(w) \/ ClearChunks(w)
    \/ Store(w) \/ StoreFails(w) \/ Complete(w) \/ Fail(w) \/ Breaks(w)
Mishap(w) == DatabaseFails(w) \/ Dies(w)
LoopStep(l) == Pop(l) \/ ClaimFromTable(l) \/ ReadJob(l) \/ ClaimJob(l) \/ Pipeline(l)
SlotStep(s) == (\E j \in Jobs : Take(s, j)) \/ Pipeline(s)
Request(j) == Process(j) \/ Requeue(j) \/ RequeueDies(j)

Next ==
    \/ \E j \in Jobs : Request(j) \/ CommitRequeue(j)
    \/ \E d \in Docs : DeleteDocument(d)
    \/ \E l \in Loops : StartWorker(l) \/ LoopStep(l)
    \/ \E s \in Slots : SlotStep(s)
    \/ \E w \in Workers : Mishap(w)

Spec == Init /\ [][Next]_vars

\* A loop and a runner that live work on, and a request that has flushed commits.
\* Nothing obliges a merchant, a restart or the clock.
Fairness ==
    /\ \A l \in Loops : WF_vars(LoopStep(l))
    /\ \A s \in Slots : WF_vars(SlotStep(s))
    /\ \A j \in Jobs : WF_vars(CommitRequeue(j))

FairSpec == Spec /\ Fairness

-----------------------------------------------------------------------------
(* Properties                                                              *)

TypeOK ==
    /\ row \in [Jobs -> Rows]
    /\ unified \in [Jobs -> QueueRows]
    /\ doc \in [Docs -> DocStatuses]
    /\ copies \in [Docs -> Nat]
    /\ list \in Seq(Jobs)
    /\ pc \in [Workers -> PCs]
    /\ job \in [Workers -> Jobs \cup {NoJob}]
    /\ failed \subseteq Workers
    /\ todo \in [Workers -> SUBSET Docs]
    /\ on \in [Workers -> Docs \cup {NoDoc}]
    /\ marked \in [Workers -> SUBSET Docs]
    /\ dirty \in [Workers -> SUBSET Docs]
    /\ adrift \subseteq Jobs /\ raced \subseteq Docs /\ botched \subseteq Docs
    /\ faults \in 0..MaxFaults

\* jobs.py: "Reprocessing must replace chunks, not duplicate them."  A document that says
\* completed has exactly one set of chunks, whatever crashed, was retried or reindexed
\* before, unless two workers have had it in hand at once or its last insertion failed.
CompletedIsSearchable ==
    \A d \in Docs \ (raced \cup botched) : doc[d] = "completed" => copies[d] = 1

\* Every job a merchant has asked for comes to an end, or is in "parsing" with nobody to
\* take it up since a claim of the whole table, a death or a broken session left it so,
\* or has no loop left that could.
Settled(j) == row[j].status \in {"completed", "failed", "deleted"}
NoLoop == \A l \in Loops : pc[l] \in {"off", "dead"}
EveryIngestSettles ==
    \A j \in Jobs : row[j].status = "queued" ~>
        Settled(j) \/ j \in adrift \/ (NoLoop /\ unified[j].state \in {"none", "over"})
=============================================================================
