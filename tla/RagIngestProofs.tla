--------------------------- MODULE RagIngestProofs ---------------------------
(***************************************************************************)
(* Theorems about RagIngest, for all documents, jobs, loops, slots and     *)
(* bounds.                                                                 *)
(***************************************************************************)
EXTENDS RagIngest, TLAPS

-----------------------------------------------------------------------------
(* The inductive invariant                                                 *)

\* TypeOK in parts.
RowTyped == row \in [Jobs -> Rows]
QueueTyped == unified \in [Jobs -> QueueRows]
DocsTyped == doc \in [Docs -> DocStatuses] /\ copies \in [Docs -> Nat]
ListTyped == list \in Seq(Jobs)
SessionsTyped ==
    /\ pc \in [Workers -> PCs]
    /\ job \in [Workers -> Jobs \cup {NoJob}]
    /\ failed \subseteq Workers
    /\ todo \in [Workers -> SUBSET Docs]
    /\ on \in [Workers -> Docs \cup {NoDoc}]
    /\ marked \in [Workers -> SUBSET Docs]
    /\ dirty \in [Workers -> SUBSET Docs]
HistoryTyped ==
    /\ adrift \subseteq Jobs /\ raced \subseteq Docs /\ botched \subseteq Docs
    /\ faults \in 0..MaxFaults
Typed == RowTyped /\ QueueTyped /\ DocsTyped /\ ListTyped /\ SessionsTyped /\ HistoryTyped

\* Who has a job, who has documents, and that a document has one place in a session.
Places ==
    \A w \in Workers :
        /\ job[w] \in Jobs <=> pc[w] \notin {"off", "idle", "dead"}
        /\ on[w] \in Docs <=> pc[w] \in {"parsing", "chunked", "cleared"}
        /\ pc[w] \notin {"next", "parsing", "chunked", "cleared", "failing"} =>
              todo[w] = {} /\ dirty[w] = {} /\ marked[w] = {}
        /\ on[w] \notin todo[w] /\ todo[w] \cap dirty[w] = {} /\ on[w] \notin dirty[w]

Inv == Typed /\ Places

\* A document that has never been raced for is in one session at most.
Has(w, d) == d \in todo[w] \/ d = on[w] \/ d \in dirty[w]
OneHolder ==
    \A d \in Docs \ raced : \A v, w \in Workers : Has(v, d) /\ Has(w, d) => v = w
\* What a session takes for "processing" has not been completed behind its back.
MarkedIsNotDone ==
    \A w \in Workers : \A d \in marked[w] \ raced :
        d \in todo[w] \/ d = on[w] => doc[d] # "completed"
\* While its chunks are replaced a document does not say completed.
ReplacedIsNotDone ==
    \A w \in Workers : on[w] \in Docs \ raced =>
        /\ pc[w] \in {"chunked", "cleared"} => doc[on[w]] # "completed"
        /\ pc[w] = "cleared" => copies[on[w]] = 0
\* What a session is about to complete has its chunks.
DirtyIsStored ==
    \A w \in Workers : \A d \in dirty[w] \ (raced \cup botched) :
        doc[d] # "gone" => copies[d] = 1
\* A document that a request is about to send round again cannot be deleted meanwhile.
InsertedLives ==
    \A j \in Jobs : row[j].status = "unseen" => row[j].doc \in Docs /\ doc[row[j].doc] # "gone"
Stored ==
    /\ OneHolder /\ MarkedIsNotDone /\ ReplacedIsNotDone /\ DirtyIsStored
    /\ InsertedLives /\ CompletedIsSearchable

-----------------------------------------------------------------------------
(* Facts about the definitions                                             *)

USE DEF tables, sessions, history

LEMMA NoRowTyped ==
    NoRow \in Rows /\ [NoRow EXCEPT !.status = "deleted"] \in Rows
  BY DEF NoRow, Rows, JobStatuses

LEMMA RowsChange ==
    ASSUME NEW r \in Rows, NEW status \in JobStatuses
    PROVE  /\ [r EXCEPT !.status = status] \in Rows
           /\ [r EXCEPT !.status = status, !.locks = FALSE] \in Rows
           /\ [r EXCEPT !.status = status, !.kind = "bank"] \in Rows
  BY DEF Rows

LEMMA RowsAreFiled ==
    ASSUME NEW r \in Rows, NEW d \in Docs
    PROVE  [r EXCEPT !.status = "queued", !.kind = "document", !.doc = d] \in Rows
  BY DEF Rows, JobStatuses

LEMMA RowsAreFlushed ==
    ASSUME NEW r \in Rows, NEW d \in Docs, NEW b \in BOOLEAN
    PROVE  [r EXCEPT !.status = "unseen", !.kind = "requeue", !.doc = d, !.locks = b] \in Rows
  BY DEF Rows, JobStatuses

LEMMA QueueRowsChange ==
    ASSUME NEW r \in QueueRows, NEW state \in {"none", "ready", "taken", "over"}
    PROVE  [r EXCEPT !.state = state] \in QueueRows
  BY DEF QueueRows

LEMMA AgainTyped ==
    ASSUME QueueTyped, NEW j \in Jobs
    PROVE  Again(j) \in QueueRows
  <1>1. unified[j].tries \in 0..MaxAttempts /\ MaxAttempts \in Nat \ {0}
    BY RagAssumption DEF QueueTyped, QueueRows
  <1>. QED
    BY <1>1 DEF Again, QueueRows

-----------------------------------------------------------------------------
(* Types and places                                                        *)

LEMMA ProcessKeeps ==
    ASSUME Inv, NEW j \in Jobs, Process(j)
    PROVE  Inv'
  <1>1. RowTyped'
    <2>1. row[j] \in Rows
      BY DEF Inv, Typed, RowTyped
    <2>2. \/ \E d \in Docs :
               row' = [row EXCEPT ![j] = [row[j] EXCEPT !.status = "queued",
                                                        !.kind = "document", !.doc = d]]
          \/ row' = [row EXCEPT ![j] = [row[j] EXCEPT !.status = "queued", !.kind = "bank"]]
      BY DEF Process, Inv, Typed, RowTyped
    <2>3. ASSUME NEW r \in Rows, row' = [row EXCEPT ![j] = r]
          PROVE  RowTyped'
      BY <2>3 DEF Inv, Typed, RowTyped
    <2>4. [row[j] EXCEPT !.status = "queued", !.kind = "bank"] \in Rows
      BY <2>1, RowsChange DEF JobStatuses
    <2>. QED
      BY <2>1, <2>2, <2>3, <2>4, RowsAreFiled
  <1>2. QueueTyped'
    BY QueueRowsChange, AgainTyped
    DEF Inv, Typed, QueueTyped, SessionsTyped, Places, Workers, Process
  <1>3. DocsTyped'
    BY DEF Inv, Typed, DocsTyped, SessionsTyped, DocStatuses, Process
  <1>4. ListTyped'
    BY DEF Inv, Typed, ListTyped, Process
  <1>5. SessionsTyped'
    BY DEF Inv, Typed, ListTyped, SessionsTyped, Workers, PCs, Process
  <1>6. HistoryTyped'
    BY RagAssumption
    DEF Inv, Typed, HistoryTyped, SessionsTyped, Places, Workers, Fault, Process
  <1>7. Places'
    BY RagAssumption DEF Inv, Typed, ListTyped, SessionsTyped, Places, Workers, PCs, Process
  <1>. QED
    BY <1>1, <1>2, <1>3, <1>4, <1>5, <1>6, <1>7 DEF Inv, Typed

LEMMA RequeueKeeps ==
    ASSUME Inv, NEW j \in Jobs, Requeue(j)
    PROVE  Inv'
  <1>1. RowTyped'
    <2>1. row[j] \in Rows
      BY DEF Inv, Typed, RowTyped
    <2>2. PICK d \in Docs :
             row' = [row EXCEPT ![j] = [row[j] EXCEPT !.status = "unseen", !.kind = "requeue",
                                                      !.doc = d, !.locks = (doc[d] # "pending")]]
      BY DEF Requeue, Inv, Typed, RowTyped
    <2>3. ASSUME NEW r \in Rows, row' = [row EXCEPT ![j] = r]
          PROVE  RowTyped'
      BY <2>3 DEF Inv, Typed, RowTyped
    <2>4. (doc[d] # "pending") \in BOOLEAN
      OBVIOUS
    <2>. QED
      BY <2>1, <2>2, <2>3, <2>4, RowsAreFlushed
  <1>2. QueueTyped'
    BY DEF Inv, Typed, QueueTyped, Requeue
  <1>3. DocsTyped'
    BY DEF Inv, Typed, DocsTyped, Requeue
  <1>4. ListTyped'
    BY DEF Inv, Typed, ListTyped, Requeue
  <1>5. SessionsTyped'
    BY DEF Inv, Typed, SessionsTyped, Requeue
  <1>6. HistoryTyped'
    BY RagAssumption DEF Inv, Typed, HistoryTyped, Fault, Requeue
  <1>7. Places'
    BY DEF Inv, Places, Requeue
  <1>. QED
    BY <1>1, <1>2, <1>3, <1>4, <1>5, <1>6, <1>7 DEF Inv, Typed

LEMMA CommitRequeueKeeps ==
    ASSUME Inv, NEW j \in Jobs, CommitRequeue(j)
    PROVE  Inv'
  <1>1. RowTyped'
    BY NoRowTyped, RowsChange
    DEF Inv, Typed, RowTyped, SessionsTyped, Places, JobStatuses, Workers, CommitRequeue
  <1>2. QueueTyped'
    BY DEF Inv, Typed, QueueTyped, CommitRequeue
  <1>3. DocsTyped'
    BY DEF Inv, Typed, DocsTyped, SessionsTyped, DocStatuses, CommitRequeue
  <1>4. ListTyped'
    BY DEF Inv, Typed, ListTyped, CommitRequeue
  <1>5. SessionsTyped'
    BY DEF Inv, Typed, SessionsTyped, CommitRequeue
  <1>6. HistoryTyped'
    BY DEF Inv, Typed, HistoryTyped, CommitRequeue
  <1>7. Places'
    BY DEF Inv, Places, CommitRequeue
  <1>. QED
    BY <1>1, <1>2, <1>3, <1>4, <1>5, <1>6, <1>7 DEF Inv, Typed

LEMMA RequeueDiesKeeps ==
    ASSUME Inv, NEW j \in Jobs, RequeueDies(j)
    PROVE  Inv'
  <1>1. RowTyped'
    BY NoRowTyped DEF Inv, Typed, RowTyped, RequeueDies
  <1>2. QueueTyped'
    BY DEF Inv, Typed, QueueTyped, RequeueDies
  <1>3. DocsTyped'
    BY DEF Inv, Typed, DocsTyped, RequeueDies
  <1>4. ListTyped'
    BY DEF Inv, Typed, ListTyped, RequeueDies
  <1>5. SessionsTyped'
    BY DEF Inv, Typed, SessionsTyped, RequeueDies
  <1>6. HistoryTyped'
    BY RagAssumption DEF Inv, Typed, HistoryTyped, Fault, RequeueDies
  <1>7. Places'
    BY DEF Inv, Places, RequeueDies
  <1>. QED
    BY <1>1, <1>2, <1>3, <1>4, <1>5, <1>6, <1>7 DEF Inv, Typed

LEMMA DeleteDocumentKeeps ==
    ASSUME Inv, NEW d \in Docs, DeleteDocument(d)
    PROVE  Inv'
  <1>1. RowTyped'
    BY NoRowTyped DEF Inv, Typed, RowTyped, DeleteDocument
  <1>2. QueueTyped'
    BY DEF Inv, Typed, QueueTyped, DeleteDocument
  <1>3. DocsTyped'
    BY DEF Inv, Typed, DocsTyped, DocStatuses, DeleteDocument
  <1>4. ListTyped'
    BY DEF Inv, Typed, ListTyped, DeleteDocument
  <1>5. SessionsTyped'
    BY DEF Inv, Typed, SessionsTyped, DeleteDocument
  <1>6. HistoryTyped'
    BY DEF Inv, Typed, HistoryTyped, DeleteDocument
  <1>7. Places'
    BY DEF Inv, Places, DeleteDocument
  <1>. QED
    BY <1>1, <1>2, <1>3, <1>4, <1>5, <1>6, <1>7 DEF Inv, Typed

LEMMA StartWorkerKeeps ==
    ASSUME Inv, NEW l \in Loops, StartWorker(l)
    PROVE  Inv'
  <1>1. RowTyped'
    <2>1. PICK old \in SUBSET Parsing :
             row' = [j \in Jobs |-> IF j \in old THEN [row[j] EXCEPT !.status = "queued"]
                                    ELSE row[j]]
      BY DEF StartWorker
    <2>2. \A j \in Jobs : row[j] \in Rows /\ [row[j] EXCEPT !.status = "queued"] \in Rows
      BY RowsChange DEF Inv, Typed, RowTyped, JobStatuses
    <2>. QED
      BY <2>1, <2>2 DEF RowTyped
  <1>2. QueueTyped'
    BY DEF Inv, Typed, QueueTyped, StartWorker
  <1>3. DocsTyped'
    BY DEF Inv, Typed, DocsTyped, StartWorker
  <1>4. ListTyped'
    BY DEF Inv, Typed, ListTyped, StartWorker
  <1>5. SessionsTyped'
    BY DEF Inv, Typed, SessionsTyped, Workers, PCs, StartWorker, Goto
  <1>6. HistoryTyped'
    BY DEF Inv, Typed, HistoryTyped, StartWorker
  <1>7. Places'
    BY DEF Inv, Places, StartWorker, Goto
  <1>. QED
    BY <1>1, <1>2, <1>3, <1>4, <1>5, <1>6, <1>7 DEF Inv, Typed

LEMMA PopKeeps ==
    ASSUME Inv, NEW l \in Loops, Pop(l)
    PROVE  Inv'
  <1>1. RowTyped'
    BY DEF Inv, Typed, RowTyped, Pop
  <1>2. QueueTyped'
    BY DEF Inv, Typed, QueueTyped, Pop
  <1>3. DocsTyped'
    BY DEF Inv, Typed, DocsTyped, Pop
  <1>4. ListTyped'
    BY DEF Inv, Typed, ListTyped, Pop
  <1>5. SessionsTyped'
    BY DEF Inv, Typed, ListTyped, SessionsTyped, Workers, PCs, Pop, Goto
  <1>6. HistoryTyped'
    BY DEF Inv, Typed, HistoryTyped, Pop
  <1>7. Places'
    BY DEF Inv, Typed, ListTyped, SessionsTyped, Places, Pop, Goto
  <1>. QED
    BY <1>1, <1>2, <1>3, <1>4, <1>5, <1>6, <1>7 DEF Inv, Typed

LEMMA ClaimFromTableKeeps ==
    ASSUME Inv, NEW l \in Loops, ClaimFromTable(l)
    PROVE  Inv'
  <1>1. RowTyped'
    BY NoRowTyped, RowsChange
    DEF Inv, Typed, RowTyped, SessionsTyped, Places, JobStatuses, Workers, ClaimFromTable,
        Goto
  <1>2. QueueTyped'
    BY DEF Inv, Typed, QueueTyped, ClaimFromTable
  <1>3. DocsTyped'
    BY DEF Inv, Typed, DocsTyped, ClaimFromTable
  <1>4. ListTyped'
    BY DEF Inv, Typed, ListTyped, ClaimFromTable
  <1>5. SessionsTyped'
    <2>1. PICK j \in Jobs : job' = [job EXCEPT ![l] = j]
                            /\ adrift' = adrift \cup {i \in Queued \ {j} : Unattended(i, l)}
      BY DEF ClaimFromTable, Queued
    <2>2. pc[l] = "idle" /\ pc' = [pc EXCEPT ![l] = "popped"]
          /\ UNCHANGED <<failed, todo, on, marked, dirty, raced, botched>>
      BY DEF ClaimFromTable, Goto
    <2>. QED
      BY <2>1, <2>2 DEF Inv, Typed, SessionsTyped, PCs
  <1>6. HistoryTyped'
    <2>1. PICK j \in Jobs : job' = [job EXCEPT ![l] = j]
                            /\ adrift' = adrift \cup {i \in Queued \ {j} : Unattended(i, l)}
      BY DEF ClaimFromTable, Queued
    <2>2. pc[l] = "idle" /\ pc' = [pc EXCEPT ![l] = "popped"]
          /\ UNCHANGED <<failed, todo, on, marked, dirty, raced, botched>>
      BY DEF ClaimFromTable, Goto
    <2>3. faults' \in 0..MaxFaults
      BY RagAssumption DEF ClaimFromTable, Fault, Inv, Typed, HistoryTyped
    <2>. QED
      BY <2>1, <2>2, <2>3 DEF Inv, Typed, HistoryTyped, Queued
  <1>7. Places'
    <2>1. PICK j \in Jobs : job' = [job EXCEPT ![l] = j]
                            /\ adrift' = adrift \cup {i \in Queued \ {j} : Unattended(i, l)}
      BY DEF ClaimFromTable, Queued
    <2>2. pc[l] = "idle" /\ pc' = [pc EXCEPT ![l] = "popped"]
          /\ UNCHANGED <<failed, todo, on, marked, dirty, raced, botched>>
      BY DEF ClaimFromTable, Goto
    <2>. QED
      BY <2>1, <2>2 DEF Inv, Typed, SessionsTyped, Places
  <1>. QED
    BY <1>1, <1>2, <1>3, <1>4, <1>5, <1>6, <1>7 DEF Inv, Typed

LEMMA ReadJobKeeps ==
    ASSUME Inv, NEW l \in Loops, ReadJob(l)
    PROVE  Inv'
  <1>1. RowTyped'
    BY DEF Inv, Typed, RowTyped, ReadJob
  <1>2. QueueTyped'
    BY DEF Inv, Typed, QueueTyped, ReadJob
  <1>3. DocsTyped'
    BY DEF Inv, Typed, DocsTyped, ReadJob
  <1>4. ListTyped'
    BY DEF Inv, Typed, ListTyped, ReadJob
  <1>5. SessionsTyped'
    BY DEF Inv, Typed, SessionsTyped, PCs, ReadJob, Goto, Forget
  <1>6. HistoryTyped'
    BY DEF Inv, Typed, HistoryTyped, ReadJob
  <1>7. Places'
    BY RagAssumption DEF Inv, Typed, SessionsTyped, Places, ReadJob, Goto, Forget
  <1>. QED
    BY <1>1, <1>2, <1>3, <1>4, <1>5, <1>6, <1>7 DEF Inv, Typed

LEMMA ClaimJobKeeps ==
    ASSUME Inv, NEW l \in Loops, ClaimJob(l)
    PROVE  Inv'
  <1>1. RowTyped'
    <2>1. row' = row \/ row' = [row EXCEPT ![job[l]] = [row[job[l]] EXCEPT !.status = "parsing"]]
      BY DEF ClaimJob
    <2>2. job[l] \in Jobs
      BY DEF ClaimJob, Inv, Places, Workers
    <2>3. [row[job[l]] EXCEPT !.status = "parsing"] \in Rows
      BY <2>2, RowsChange DEF Inv, Typed, RowTyped, JobStatuses
    <2>. QED
      BY <2>1, <2>3 DEF Inv, Typed, RowTyped
  <1>2. QueueTyped'
    BY DEF Inv, Typed, QueueTyped, ClaimJob
  <1>3. DocsTyped'
    BY DEF Inv, Typed, DocsTyped, ClaimJob
  <1>4. ListTyped'
    BY DEF Inv, Typed, ListTyped, ClaimJob
  <1>5. SessionsTyped'
    BY DEF Inv, Typed, SessionsTyped, PCs, ClaimJob, Goto, Forget
  <1>6. HistoryTyped'
    BY DEF Inv, Typed, HistoryTyped, Places, Workers, ClaimJob, LetGo
  <1>7. Places'
    BY RagAssumption DEF Inv, Typed, SessionsTyped, Places, ClaimJob, Goto, Forget
  <1>. QED
    BY <1>1, <1>2, <1>3, <1>4, <1>5, <1>6, <1>7 DEF Inv, Typed

LEMMA TakeKeeps ==
    ASSUME Inv, NEW s \in Slots, NEW j \in Jobs, Take(s, j)
    PROVE  Inv'
  <1>1. RowTyped'
    BY DEF Inv, Typed, RowTyped, Take
  <1>2. QueueTyped'
    <2>1. \E state \in {"taken", "over"} :
             unified' = [unified EXCEPT ![j] = [unified[j] EXCEPT !.state = state]]
      BY DEF Take, Typed, QueueTyped
    <2>2. \A state \in {"taken", "over"} : [unified[j] EXCEPT !.state = state] \in QueueRows
      BY QueueRowsChange DEF Inv, Typed, QueueTyped
    <2>. QED
      BY <2>1, <2>2 DEF Inv, Typed, QueueTyped
  <1>3. DocsTyped'
    BY DEF Inv, Typed, DocsTyped, Take
  <1>4. ListTyped'
    BY DEF Inv, Typed, ListTyped, Take
  <1>5. SessionsTyped'
    BY DEF Inv, Typed, SessionsTyped, Workers, PCs, Take, Goto
  <1>6. HistoryTyped'
    BY DEF Inv, Typed, HistoryTyped, Take
  <1>7. Places'
    BY DEF Inv, Typed, SessionsTyped, Places, Take, Goto
  <1>. QED
    BY <1>1, <1>2, <1>3, <1>4, <1>5, <1>6, <1>7 DEF Inv, Typed

LEMMA BeginKeeps ==
    ASSUME Inv, NEW w \in Workers, Begin(w)
    PROVE  Inv'
  <1>1. RowTyped'
    BY DEF Inv, Typed, RowTyped, Begin
  <1>2. QueueTyped'
    BY DEF Inv, Typed, QueueTyped, Begin
  <1>3. DocsTyped'
    BY DEF Inv, Typed, DocsTyped, Begin
  <1>4. ListTyped'
    BY DEF Inv, Typed, ListTyped, Begin
  <1>5. SessionsTyped'
    BY DEF Inv, Typed, SessionsTyped, PCs, Begin, Goto, Loads
  <1>6. HistoryTyped'
    BY DEF Inv, Typed, HistoryTyped, Begin, Loads
  <1>7. Places'
    BY DEF Inv, Typed, SessionsTyped, Places, Begin, Goto, Loads
  <1>. QED
    BY <1>1, <1>2, <1>3, <1>4, <1>5, <1>6, <1>7 DEF Inv, Typed

LEMMA NextDocumentKeeps ==
    ASSUME Inv, NEW w \in Workers, NextDocument(w)
    PROVE  Inv'
  <1>1. RowTyped'
    BY DEF Inv, Typed, RowTyped, NextDocument
  <1>2. QueueTyped'
    BY DEF Inv, Typed, QueueTyped, NextDocument
  <1>3. DocsTyped'
    BY DEF Inv, Typed, DocsTyped, DocStatuses, NextDocument, Flushed
  <1>4. ListTyped'
    BY DEF Inv, Typed, ListTyped, NextDocument
  <1>5. SessionsTyped'
    BY DEF Inv, Typed, SessionsTyped, PCs, NextDocument, Goto
  <1>6. HistoryTyped'
    BY DEF Inv, Typed, HistoryTyped, NextDocument
  <1>7. Places'
    BY DEF Inv, Typed, SessionsTyped, Places, NextDocument, Goto
  <1>. QED
    BY <1>1, <1>2, <1>3, <1>4, <1>5, <1>6, <1>7 DEF Inv, Typed

LEMMA ParseFailsKeeps ==
    ASSUME Inv, NEW w \in Workers, ParseFails(w)
    PROVE  Inv'
  <1>1. RowTyped'
    BY DEF Inv, Typed, RowTyped, ParseFails
  <1>2. QueueTyped'
    BY DEF Inv, Typed, QueueTyped, ParseFails
  <1>3. DocsTyped'
    BY DEF Inv, Typed, DocsTyped, ParseFails
  <1>4. ListTyped'
    BY DEF Inv, Typed, ListTyped, ParseFails
  <1>5. SessionsTyped'
    BY DEF Inv, Typed, SessionsTyped, PCs, ParseFails, Goto
  <1>6. HistoryTyped'
    BY DEF Inv, Typed, HistoryTyped, ParseFails
  <1>7. Places'
    BY RagAssumption DEF Inv, Typed, SessionsTyped, Places, ParseFails, Goto
  <1>. QED
    BY <1>1, <1>2, <1>3, <1>4, <1>5, <1>6, <1>7 DEF Inv, Typed

LEMMA ChunkKeeps ==
    ASSUME Inv, NEW w \in Workers, Chunk(w)
    PROVE  Inv'
  <1>1. RowTyped'
    BY DEF Inv, Typed, RowTyped, Chunk
  <1>2. QueueTyped'
    BY DEF Inv, Typed, QueueTyped, Chunk
  <1>3. DocsTyped'
    BY DEF Inv, Typed, DocsTyped, SessionsTyped, DocStatuses, Chunk, Goto, CanCommit
  <1>4. ListTyped'
    BY DEF Inv, Typed, ListTyped, Chunk
  <1>5. SessionsTyped'
    <2>1. on[w] \in Docs
      BY DEF Chunk, Inv, Places
    <2>2. marked' = [marked EXCEPT ![w] = @ \cup {on[w]}]
          /\ pc' = [pc EXCEPT ![w] = "chunked"] /\ UNCHANGED <<job, failed, todo, on, dirty>>
      BY DEF Chunk, Goto
    <2>3. marked' \in [Workers -> SUBSET Docs]
      BY <2>1, <2>2 DEF Inv, Typed, SessionsTyped
    <2>. QED
      BY <2>2, <2>3 DEF Inv, Typed, SessionsTyped, PCs
  <1>6. HistoryTyped'
    BY DEF Inv, Typed, HistoryTyped, Chunk
  <1>7. Places'
    BY DEF Inv, Places, Chunk, Goto
  <1>. QED
    BY <1>1, <1>2, <1>3, <1>4, <1>5, <1>6, <1>7 DEF Inv, Typed

LEMMA ClearChunksKeeps ==
    ASSUME Inv, NEW w \in Workers, ClearChunks(w)
    PROVE  Inv'
  <1>1. RowTyped'
    BY DEF Inv, Typed, RowTyped, ClearChunks
  <1>2. QueueTyped'
    BY DEF Inv, Typed, QueueTyped, ClearChunks
  <1>3. DocsTyped'
    BY DEF Inv, Typed, DocsTyped, SessionsTyped, DocStatuses, ClearChunks, Goto
  <1>4. ListTyped'
    BY DEF Inv, Typed, ListTyped, ClearChunks
  <1>5. SessionsTyped'
    BY DEF Inv, Typed, SessionsTyped, PCs, ClearChunks, Goto
  <1>6. HistoryTyped'
    BY DEF Inv, Typed, HistoryTyped, ClearChunks
  <1>7. Places'
    BY DEF Inv, Places, ClearChunks, Goto
  <1>. QED
    BY <1>1, <1>2, <1>3, <1>4, <1>5, <1>6, <1>7 DEF Inv, Typed

LEMMA StoreKeeps ==
    ASSUME Inv, NEW w \in Workers, Store(w)
    PROVE  Inv'
  <1>1. RowTyped'
    BY DEF Inv, Typed, RowTyped, Store
  <1>2. QueueTyped'
    BY DEF Inv, Typed, QueueTyped, Store
  <1>3. DocsTyped'
    <2>1. on[w] \in Docs /\ doc' = doc /\ copies' = [copies EXCEPT ![on[w]] = @ + 1]
      BY DEF Store, Inv, Places
    <2>. QED
      BY <2>1 DEF Inv, Typed, DocsTyped
  <1>4. ListTyped'
    BY DEF Inv, Typed, ListTyped, Store
  <1>5. SessionsTyped'
    <2>1. on[w] \in Docs
      BY DEF Store, Inv, Places
    <2>2. /\ dirty' = [dirty EXCEPT ![w] = @ \cup {on[w]}]
          /\ marked' = [marked EXCEPT ![w] = @ \ {on[w]}]
          /\ on' = [on EXCEPT ![w] = NoDoc]
          /\ pc' = [pc EXCEPT ![w] = "next"] /\ UNCHANGED <<job, failed, todo>>
      BY DEF Store, Goto
    <2>3. dirty' \in [Workers -> SUBSET Docs] /\ marked' \in [Workers -> SUBSET Docs]
      BY <2>1, <2>2 DEF Inv, Typed, SessionsTyped
    <2>. QED
      BY <2>2, <2>3 DEF Inv, Typed, SessionsTyped, PCs
  <1>6. HistoryTyped'
    BY DEF Inv, Typed, HistoryTyped, Store
  <1>7. Places'
    BY RagAssumption DEF Inv, Typed, SessionsTyped, Places, Store, Goto
  <1>. QED
    BY <1>1, <1>2, <1>3, <1>4, <1>5, <1>6, <1>7 DEF Inv, Typed

LEMMA StoreFailsKeeps ==
    ASSUME Inv, NEW w \in Workers, StoreFails(w)
    PROVE  Inv'
  <1>1. RowTyped'
    BY DEF Inv, Typed, RowTyped, StoreFails
  <1>2. QueueTyped'
    BY DEF Inv, Typed, QueueTyped, StoreFails
  <1>3. DocsTyped'
    BY DEF Inv, Typed, DocsTyped, StoreFails
  <1>4. ListTyped'
    BY DEF Inv, Typed, ListTyped, StoreFails
  <1>5. SessionsTyped'
    <2>1. on[w] \in Docs
      BY DEF StoreFails, Inv, Places
    <2>2. /\ dirty' = [dirty EXCEPT ![w] = @ \cup {on[w]}]
          /\ on' = [on EXCEPT ![w] = NoDoc]
          /\ pc' = [pc EXCEPT ![w] = "failing"] /\ UNCHANGED <<job, failed, todo, marked>>
      BY DEF StoreFails, Goto
    <2>3. dirty' \in [Workers -> SUBSET Docs]
      BY <2>1, <2>2 DEF Inv, Typed, SessionsTyped
    <2>. QED
      BY <2>2, <2>3 DEF Inv, Typed, SessionsTyped, PCs
  <1>6. HistoryTyped'
    BY RagAssumption DEF Inv, Typed, HistoryTyped, Places, Fault, StoreFails
  <1>7. Places'
    BY RagAssumption DEF Inv, Typed, SessionsTyped, Places, StoreFails, Goto
  <1>. QED
    BY <1>1, <1>2, <1>3, <1>4, <1>5, <1>6, <1>7 DEF Inv, Typed

LEMMA CompleteKeeps ==
    ASSUME Inv, NEW w \in Workers, Complete(w)
    PROVE  Inv'
  <1>1. RowTyped'
    BY NoRowTyped, RowsChange
    DEF Inv, Typed, RowTyped, SessionsTyped, Places, JobStatuses, Workers, Complete, Goto,
        Forget, Flushed, CanCommit
  <1>2. QueueTyped'
    BY QueueRowsChange, AgainTyped
    DEF Inv, Typed, QueueTyped, SessionsTyped, Places, Workers, Complete, Goto, Forget,
        Flushed, CanCommit
  <1>3. DocsTyped'
    BY DEF Inv, Typed, DocsTyped, DocStatuses, Complete, Flushed
  <1>4. ListTyped'
    BY DEF Inv, Typed, ListTyped, Complete
  <1>5. SessionsTyped'
    BY DEF Inv, Typed, SessionsTyped, PCs, Complete, Goto, Forget
  <1>6. HistoryTyped'
    BY DEF Inv, Typed, HistoryTyped, Complete
  <1>7. Places'
    BY RagAssumption DEF Inv, Typed, SessionsTyped, Places, Complete, Goto, Forget
  <1>. QED
    BY <1>1, <1>2, <1>3, <1>4, <1>5, <1>6, <1>7 DEF Inv, Typed

LEMMA FailKeeps ==
    ASSUME Inv, NEW w \in Workers, Fail(w)
    PROVE  Inv'
  <1>1. RowTyped'
    BY NoRowTyped, RowsChange
    DEF Inv, Typed, RowTyped, SessionsTyped, Places, JobStatuses, Workers, Fail, Goto,
        Forget, Flushed, CanCommit
  <1>2. QueueTyped'
    BY AgainTyped DEF Inv, Typed, QueueTyped, Places, Fail
  <1>3. DocsTyped'
    BY DEF Inv, Typed, DocsTyped, DocStatuses, Fail, Flushed
  <1>4. ListTyped'
    BY DEF Inv, Typed, ListTyped, Fail
  <1>5. SessionsTyped'
    BY DEF Inv, Typed, SessionsTyped, PCs, Fail, Goto, Forget
  <1>6. HistoryTyped'
    BY DEF Inv, Typed, HistoryTyped, Fail
  <1>7. Places'
    BY RagAssumption DEF Inv, Typed, SessionsTyped, Places, Fail, Goto, Forget
  <1>. QED
    BY <1>1, <1>2, <1>3, <1>4, <1>5, <1>6, <1>7 DEF Inv, Typed

LEMMA BreaksKeeps ==
    ASSUME Inv, NEW w \in Workers, Breaks(w)
    PROVE  Inv'
  <1>1. RowTyped'
    BY DEF Inv, Typed, RowTyped, Breaks
  <1>2. QueueTyped'
    BY AgainTyped DEF Inv, Typed, QueueTyped, Places, Breaks, StageTooLong, Abandon
  <1>3. DocsTyped'
    BY DEF Inv, Typed, DocsTyped, Breaks
  <1>4. ListTyped'
    BY DEF Inv, Typed, ListTyped, Breaks
  <1>5. SessionsTyped'
    BY DEF Inv, Typed, SessionsTyped, PCs, Breaks, Abandon, Goto, Forget
  <1>6. HistoryTyped'
    BY DEF Inv, Typed, HistoryTyped, Breaks, Abandon, LetGo, Parsing
  <1>7. Places'
    BY RagAssumption DEF Inv, Typed, SessionsTyped, Places, Breaks, Abandon, Goto, Forget
  <1>. QED
    BY <1>1, <1>2, <1>3, <1>4, <1>5, <1>6, <1>7 DEF Inv, Typed

LEMMA DatabaseFailsKeeps ==
    ASSUME Inv, NEW w \in Workers, DatabaseFails(w)
    PROVE  Inv'
  <1>1. RowTyped'
    BY DEF Inv, Typed, RowTyped, DatabaseFails
  <1>2. QueueTyped'
    BY AgainTyped DEF Inv, Typed, QueueTyped, Places, DatabaseFails, Running, Abandon
  <1>3. DocsTyped'
    BY DEF Inv, Typed, DocsTyped, DatabaseFails
  <1>4. ListTyped'
    BY DEF Inv, Typed, ListTyped, DatabaseFails
  <1>5. SessionsTyped'
    BY DEF Inv, Typed, SessionsTyped, PCs, DatabaseFails, Running, Abandon, Goto, Forget
  <1>6. HistoryTyped'
    <2>1. faults' \in 0..MaxFaults
      BY RagAssumption DEF DatabaseFails, Fault, Inv, Typed, HistoryTyped
    <2>2. adrift' \subseteq adrift \cup Jobs /\ UNCHANGED <<raced, botched>>
      BY DEF DatabaseFails, Abandon, LetGo, Parsing
    <2>. QED
      BY <2>1, <2>2 DEF Inv, Typed, HistoryTyped
  <1>7. Places'
    BY RagAssumption
    DEF Inv, Typed, SessionsTyped, Places, DatabaseFails, Running, Abandon, Goto, Forget
  <1>. QED
    BY <1>1, <1>2, <1>3, <1>4, <1>5, <1>6, <1>7 DEF Inv, Typed

LEMMA DiesKeeps ==
    ASSUME Inv, NEW w \in Workers, Dies(w)
    PROVE  Inv'
  <1>1. RowTyped'
    BY DEF Inv, Typed, RowTyped, Dies
  <1>2. QueueTyped'
    BY QueueRowsChange, AgainTyped
    DEF Inv, Typed, QueueTyped, SessionsTyped, Places, Workers, Dies, Goto, Forget, LetGo
  <1>3. DocsTyped'
    BY DEF Inv, Typed, DocsTyped, Dies
  <1>4. ListTyped'
    BY DEF Inv, Typed, ListTyped, Dies
  <1>5. SessionsTyped'
    BY DEF Inv, Typed, SessionsTyped, PCs, Dies, Goto, Forget
  <1>6. HistoryTyped'
    BY RagAssumption DEF Inv, Typed, HistoryTyped, SessionsTyped, Fault, Dies, LetGo
  <1>7. Places'
    BY RagAssumption DEF Inv, Typed, SessionsTyped, Places, Dies, Goto, Forget
  <1>. QED
    BY <1>1, <1>2, <1>3, <1>4, <1>5, <1>6, <1>7 DEF Inv, Typed

-----------------------------------------------------------------------------
(* Chunks                                                                  *)

LEMMA ProcessStores ==
    ASSUME Inv, Stored, NEW j \in Jobs, Process(j)
    PROVE  Stored'
  <1>1. OneHolder'
    BY RagAssumption
    DEF Inv, Typed, DocsTyped, SessionsTyped, HistoryTyped, Places, Workers, Stored,
        OneHolder, Has, Process
  <1>2. MarkedIsNotDone'
    BY RagAssumption
    DEF Inv, Typed, DocsTyped, SessionsTyped, HistoryTyped, Places, Workers, Stored,
        OneHolder, Has, MarkedIsNotDone, Process
  <1>3. ReplacedIsNotDone'
    BY RagAssumption
    DEF Inv, Typed, DocsTyped, SessionsTyped, HistoryTyped, Places, Workers, Stored,
        OneHolder, Has, MarkedIsNotDone, ReplacedIsNotDone, Process
  <1>4. DirtyIsStored'
    BY RagAssumption
    DEF Inv, Typed, DocsTyped, SessionsTyped, HistoryTyped, Places, Workers, Stored,
        OneHolder, Has, ReplacedIsNotDone, DirtyIsStored, Process
  <1>5. CompletedIsSearchable'
    BY RagAssumption
    DEF Inv, Typed, DocsTyped, SessionsTyped, HistoryTyped, Places, Workers, Stored,
        OneHolder, Has, ReplacedIsNotDone, DirtyIsStored, CompletedIsSearchable, Process
  <1>6. InsertedLives'
    <2>1. doc' = doc /\ \A i \in Jobs : i # j => row'[i] = row[i]
      BY DEF Process, Inv, Typed, RowTyped
    <2>2. \/ \E d \in Docs :
               row' = [row EXCEPT ![j] = [row[j] EXCEPT !.status = "queued",
                                                        !.kind = "document", !.doc = d]]
          \/ row' = [row EXCEPT ![j] = [row[j] EXCEPT !.status = "queued", !.kind = "bank"]]
      BY DEF Process, Inv, Typed, RowTyped
    <2>3. row[j] \in Rows /\ row \in [Jobs -> Rows]
      BY DEF Inv, Typed, RowTyped
    <2>4. ASSUME NEW r \in Rows
          PROVE  /\ [r EXCEPT !.status = "queued", !.kind = "bank"].status = "queued"
                 /\ \A d \in Docs : [r EXCEPT !.status = "queued",
                                              !.kind = "document", !.doc = d].status = "queued"
      BY DEF Rows
    <2>5. row'[j].status = "queued"
      <3>1. CASE \E d \in Docs :
               row' = [row EXCEPT ![j] = [row[j] EXCEPT !.status = "queued",
                                                        !.kind = "document", !.doc = d]]
        <4>1. PICK d \in Docs :
                row' = [row EXCEPT ![j] = [row[j] EXCEPT !.status = "queued",
                                                         !.kind = "document", !.doc = d]]
          BY <3>1
        <4>2. row'[j] = [row[j] EXCEPT !.status = "queued", !.kind = "document", !.doc = d]
          BY <2>3, <4>1
        <4>. QED
          BY <2>3, <2>4, <4>2
      <3>2. CASE row' = [row EXCEPT ![j] = [row[j] EXCEPT !.status = "queued", !.kind = "bank"]]
        <4>1. row'[j] = [row[j] EXCEPT !.status = "queued", !.kind = "bank"]
          BY <2>3, <3>2
        <4>. QED
          BY <2>3, <2>4, <4>1
      <3>. QED
        BY <2>2, <3>1, <3>2
    <2>. QED
      BY <2>1, <2>5 DEF Stored, InsertedLives, Inserting
  <1>. QED
    BY <1>1, <1>2, <1>3, <1>4, <1>5, <1>6 DEF Stored

LEMMA RequeueStores ==
    ASSUME Inv, Stored, NEW j \in Jobs, Requeue(j)
    PROVE  Stored'
  <1>1. OneHolder'
    BY DEF Stored, OneHolder, Has, Requeue
  <1>2. MarkedIsNotDone'
    BY DEF Stored, MarkedIsNotDone, Requeue
  <1>3. ReplacedIsNotDone'
    BY DEF Stored, ReplacedIsNotDone, Requeue
  <1>4. DirtyIsStored'
    BY DEF Stored, DirtyIsStored, Requeue
  <1>5. CompletedIsSearchable'
    BY DEF Stored, CompletedIsSearchable, Requeue
  <1>6. InsertedLives'
    BY DEF Stored, InsertedLives, Requeue
  <1>. QED
    BY <1>1, <1>2, <1>3, <1>4, <1>5, <1>6 DEF Stored

LEMMA CommitRequeueStores ==
    ASSUME Inv, Stored, NEW j \in Jobs, CommitRequeue(j)
    PROVE  Stored'
  <1>1. OneHolder'
    BY DEF Stored, OneHolder, Has, CommitRequeue
  <1>2. MarkedIsNotDone'
    BY DEF Stored, MarkedIsNotDone, CommitRequeue
  <1>3. ReplacedIsNotDone'
    BY DEF Stored, ReplacedIsNotDone, CommitRequeue
  <1>4. DirtyIsStored'
    <2>1. \A d \in Docs : doc'[d] # "gone" => doc[d] # "gone"
      BY DEF CommitRequeue, Stored, InsertedLives
    <2>2. UNCHANGED <<dirty, raced, botched, copies>>
      BY DEF CommitRequeue
    <2>3. ASSUME NEW w \in Workers, NEW d \in dirty[w] \ (raced \cup botched), doc'[d] # "gone"
          PROVE  copies[d] = 1
      BY <2>1, <2>3 DEF Inv, Typed, SessionsTyped, Stored, DirtyIsStored
    <2>. QED
      BY <2>2, <2>3 DEF DirtyIsStored
  <1>5. CompletedIsSearchable'
    BY DEF Stored, CompletedIsSearchable, CommitRequeue
  <1>6. InsertedLives'
    BY DEF Stored, InsertedLives, CommitRequeue
  <1>. QED
    BY <1>1, <1>2, <1>3, <1>4, <1>5, <1>6 DEF Stored

LEMMA RequeueDiesStores ==
    ASSUME Inv, Stored, NEW j \in Jobs, RequeueDies(j)
    PROVE  Stored'
  <1>1. OneHolder'
    BY DEF Stored, OneHolder, Has, RequeueDies
  <1>2. MarkedIsNotDone'
    BY DEF Stored, MarkedIsNotDone, RequeueDies
  <1>3. ReplacedIsNotDone'
    BY DEF Stored, ReplacedIsNotDone, RequeueDies
  <1>4. DirtyIsStored'
    BY DEF Stored, DirtyIsStored, RequeueDies
  <1>5. CompletedIsSearchable'
    BY DEF Stored, CompletedIsSearchable, RequeueDies
  <1>6. InsertedLives'
    BY DEF Stored, InsertedLives, RequeueDies
  <1>. QED
    BY <1>1, <1>2, <1>3, <1>4, <1>5, <1>6 DEF Stored

LEMMA DeleteDocumentStores ==
    ASSUME Inv, Stored, NEW d \in Docs, DeleteDocument(d)
    PROVE  Stored'
  <1>1. OneHolder'
    BY DEF Stored, OneHolder, Has, DeleteDocument
  <1>2. MarkedIsNotDone'
    BY DEF Stored, MarkedIsNotDone, DeleteDocument
  <1>3. ReplacedIsNotDone'
    BY DEF Stored, ReplacedIsNotDone, DeleteDocument
  <1>4. DirtyIsStored'
    BY DEF Inv, Typed, DocsTyped, Stored, DirtyIsStored, DeleteDocument
  <1>5. CompletedIsSearchable'
    BY DEF Inv, Typed, DocsTyped, Stored, CompletedIsSearchable, DeleteDocument
  <1>6. InsertedLives'
    BY DEF Stored, InsertedLives, DeleteDocument
  <1>. QED
    BY <1>1, <1>2, <1>3, <1>4, <1>5, <1>6 DEF Stored

LEMMA StartWorkerStores ==
    ASSUME Inv, Stored, NEW l \in Loops, StartWorker(l)
    PROVE  Stored'
  <1>1. OneHolder'
    BY DEF Stored, OneHolder, Has, StartWorker
  <1>2. MarkedIsNotDone'
    BY DEF Stored, MarkedIsNotDone, StartWorker
  <1>3. ReplacedIsNotDone'
    BY DEF Stored, ReplacedIsNotDone, StartWorker, Goto
  <1>4. DirtyIsStored'
    BY DEF Stored, DirtyIsStored, StartWorker
  <1>5. CompletedIsSearchable'
    BY DEF Stored, CompletedIsSearchable, StartWorker
  <1>6. InsertedLives'
    BY DEF Stored, InsertedLives, StartWorker
  <1>. QED
    BY <1>1, <1>2, <1>3, <1>4, <1>5, <1>6 DEF Stored

LEMMA PopStores ==
    ASSUME Inv, Stored, NEW l \in Loops, Pop(l)
    PROVE  Stored'
  <1>1. OneHolder'
    BY DEF Stored, OneHolder, Has, Pop
  <1>2. MarkedIsNotDone'
    BY DEF Stored, MarkedIsNotDone, Pop
  <1>3. ReplacedIsNotDone'
    BY DEF Stored, ReplacedIsNotDone, Pop, Goto
  <1>4. DirtyIsStored'
    BY DEF Stored, DirtyIsStored, Pop
  <1>5. CompletedIsSearchable'
    BY DEF Stored, CompletedIsSearchable, Pop
  <1>6. InsertedLives'
    BY DEF Stored, InsertedLives, Pop
  <1>. QED
    BY <1>1, <1>2, <1>3, <1>4, <1>5, <1>6 DEF Stored

LEMMA ClaimFromTableStores ==
    ASSUME Inv, Stored, NEW l \in Loops, ClaimFromTable(l)
    PROVE  Stored'
  <1>1. OneHolder'
    BY DEF Stored, OneHolder, Has, ClaimFromTable
  <1>2. MarkedIsNotDone'
    BY DEF Stored, MarkedIsNotDone, ClaimFromTable
  <1>3. ReplacedIsNotDone'
    BY DEF Stored, ReplacedIsNotDone, ClaimFromTable, Goto
  <1>4. DirtyIsStored'
    BY DEF Stored, DirtyIsStored, ClaimFromTable
  <1>5. CompletedIsSearchable'
    BY DEF Stored, CompletedIsSearchable, ClaimFromTable
  <1>6. InsertedLives'
    BY DEF Stored, InsertedLives, ClaimFromTable
  <1>. QED
    BY <1>1, <1>2, <1>3, <1>4, <1>5, <1>6 DEF Stored

LEMMA ReadJobStores ==
    ASSUME Inv, Stored, NEW l \in Loops, ReadJob(l)
    PROVE  Stored'
  <1>1. OneHolder'
    BY DEF Inv, Typed, SessionsTyped, Places, Stored, OneHolder, Has, ReadJob, Forget
  <1>2. MarkedIsNotDone'
    BY DEF Inv, Typed, SessionsTyped, Stored, MarkedIsNotDone, ReadJob, Forget
  <1>3. ReplacedIsNotDone'
    BY DEF Inv, Typed, SessionsTyped, Stored, ReplacedIsNotDone, ReadJob, Goto, Forget
  <1>4. DirtyIsStored'
    BY DEF Inv, Typed, SessionsTyped, Stored, DirtyIsStored, ReadJob, Forget
  <1>5. CompletedIsSearchable'
    BY DEF Stored, CompletedIsSearchable, ReadJob
  <1>6. InsertedLives'
    BY DEF Stored, InsertedLives, ReadJob
  <1>. QED
    BY <1>1, <1>2, <1>3, <1>4, <1>5, <1>6 DEF Stored

LEMMA ClaimJobStores ==
    ASSUME Inv, Stored, NEW l \in Loops, ClaimJob(l)
    PROVE  Stored'
  <1>1. OneHolder'
    BY DEF Inv, Typed, SessionsTyped, Places, Stored, OneHolder, Has, ClaimJob, Forget
  <1>2. MarkedIsNotDone'
    BY DEF Inv, Typed, SessionsTyped, Stored, MarkedIsNotDone, ClaimJob, Forget
  <1>3. ReplacedIsNotDone'
    BY DEF Inv, Typed, SessionsTyped, Stored, ReplacedIsNotDone, ClaimJob, Goto, Forget
  <1>4. DirtyIsStored'
    BY DEF Inv, Typed, SessionsTyped, Stored, DirtyIsStored, ClaimJob, Forget
  <1>5. CompletedIsSearchable'
    BY DEF Stored, CompletedIsSearchable, ClaimJob
  <1>6. InsertedLives'
    <2>1. job[l] \in Jobs /\ doc' = doc
      BY DEF ClaimJob, Inv, Places, Workers
    <2>2. row' = row \/ row' = [row EXCEPT ![job[l]] = [row[job[l]] EXCEPT !.status = "parsing"]]
      BY DEF ClaimJob
    <2>3. \A i \in Jobs : row'[i] = row[i] \/ row'[i].status = "parsing"
      BY <2>1, <2>2 DEF Inv, Typed, RowTyped, Rows
    <2>. QED
      BY <2>1, <2>3 DEF Stored, InsertedLives
  <1>. QED
    BY <1>1, <1>2, <1>3, <1>4, <1>5, <1>6 DEF Stored

LEMMA TakeStores ==
    ASSUME Inv, Stored, NEW s \in Slots, NEW j \in Jobs, Take(s, j)
    PROVE  Stored'
  <1>1. OneHolder'
    BY DEF Stored, OneHolder, Has, Take
  <1>2. MarkedIsNotDone'
    BY DEF Stored, MarkedIsNotDone, Take
  <1>3. ReplacedIsNotDone'
    BY DEF Inv, Typed, SessionsTyped, Stored, ReplacedIsNotDone, Take, Goto
  <1>4. DirtyIsStored'
    BY DEF Stored, DirtyIsStored, Take
  <1>5. CompletedIsSearchable'
    BY DEF Stored, CompletedIsSearchable, Take
  <1>6. InsertedLives'
    BY DEF Stored, InsertedLives, Take
  <1>. QED
    BY <1>1, <1>2, <1>3, <1>4, <1>5, <1>6 DEF Stored

LEMMA BeginStores ==
    ASSUME Inv, Stored, NEW w \in Workers, Begin(w)
    PROVE  Stored'
  <1>1. OneHolder'
    BY DEF Stored, OneHolder, Has, Begin, Having
  <1>2. MarkedIsNotDone'
    BY DEF Inv, Places, Stored, MarkedIsNotDone, Begin
  <1>3. ReplacedIsNotDone'
    BY DEF Stored, ReplacedIsNotDone, Begin, Goto
  <1>4. DirtyIsStored'
    BY DEF Stored, DirtyIsStored, Begin
  <1>5. CompletedIsSearchable'
    BY DEF Stored, CompletedIsSearchable, Begin
  <1>6. InsertedLives'
    BY DEF Stored, InsertedLives, Begin
  <1>. QED
    BY <1>1, <1>2, <1>3, <1>4, <1>5, <1>6 DEF Stored

LEMMA NextDocumentStores ==
    ASSUME Inv, Stored, NEW w \in Workers, NextDocument(w)
    PROVE  Stored'
  <1>1. OneHolder'
    BY DEF Stored, OneHolder, Has, NextDocument
  <1>2. MarkedIsNotDone'
    BY DEF Inv, Typed, SessionsTyped, Places, Stored, OneHolder, Has, MarkedIsNotDone,
           NextDocument, Flushed
  <1>3. ReplacedIsNotDone'
    BY DEF Stored, OneHolder, Has, ReplacedIsNotDone, NextDocument, Goto, Flushed
  <1>4. DirtyIsStored'
    BY DEF Inv, Typed, SessionsTyped, Stored, DirtyIsStored, NextDocument, Flushed,
           CanCommit
  <1>5. CompletedIsSearchable'
    BY DEF Stored, DirtyIsStored, CompletedIsSearchable, NextDocument, Flushed, CanCommit
  <1>6. InsertedLives'
    BY DEF Stored, InsertedLives, NextDocument, Flushed
  <1>. QED
    BY <1>1, <1>2, <1>3, <1>4, <1>5, <1>6 DEF Stored

LEMMA ParseFailsStores ==
    ASSUME Inv, Stored, NEW w \in Workers, ParseFails(w)
    PROVE  Stored'
  <1>1. OneHolder'
    BY RagAssumption DEF Stored, OneHolder, Has, ParseFails
  <1>2. MarkedIsNotDone'
    BY RagAssumption DEF Inv, Typed, SessionsTyped, Stored, MarkedIsNotDone, ParseFails
  <1>3. ReplacedIsNotDone'
    BY DEF Stored, ReplacedIsNotDone, ParseFails, Goto
  <1>4. DirtyIsStored'
    BY DEF Stored, DirtyIsStored, ParseFails
  <1>5. CompletedIsSearchable'
    BY DEF Stored, CompletedIsSearchable, ParseFails
  <1>6. InsertedLives'
    BY DEF Stored, InsertedLives, ParseFails
  <1>. QED
    BY <1>1, <1>2, <1>3, <1>4, <1>5, <1>6 DEF Stored

LEMMA ChunkStores ==
    ASSUME Inv, Stored, NEW w \in Workers, Chunk(w)
    PROVE  Stored'
  <1>1. OneHolder'
    BY DEF Stored, OneHolder, Has, Chunk
  <1>2. MarkedIsNotDone'
    BY DEF Inv, Typed, DocsTyped, Places, Stored, MarkedIsNotDone, Chunk
  <1>3. ReplacedIsNotDone'
    BY DEF Inv, Typed, DocsTyped, Stored, MarkedIsNotDone, ReplacedIsNotDone, Chunk, Goto
  <1>4. DirtyIsStored'
    BY DEF Stored, DirtyIsStored, Chunk, CanCommit
  <1>5. CompletedIsSearchable'
    BY DEF Stored, CompletedIsSearchable, Chunk
  <1>6. InsertedLives'
    BY DEF Stored, InsertedLives, Chunk
  <1>. QED
    BY <1>1, <1>2, <1>3, <1>4, <1>5, <1>6 DEF Stored

LEMMA ClearChunksStores ==
    ASSUME Inv, Stored, NEW w \in Workers, ClearChunks(w)
    PROVE  Stored'
  <1>1. OneHolder'
    BY DEF Stored, OneHolder, Has, ClearChunks
  <1>2. MarkedIsNotDone'
    BY DEF Stored, MarkedIsNotDone, ClearChunks
  <1>3. ReplacedIsNotDone'
    BY DEF Inv, Typed, DocsTyped, Stored, ReplacedIsNotDone, ClearChunks, Goto
  <1>4. DirtyIsStored'
    BY DEF Inv, Places, Stored, OneHolder, Has, DirtyIsStored, ClearChunks
  <1>5. CompletedIsSearchable'
    BY DEF Stored, ReplacedIsNotDone, CompletedIsSearchable, ClearChunks
  <1>6. InsertedLives'
    BY DEF Stored, InsertedLives, ClearChunks
  <1>. QED
    BY <1>1, <1>2, <1>3, <1>4, <1>5, <1>6 DEF Stored

LEMMA StoreStores ==
    ASSUME Inv, Stored, NEW w \in Workers, Store(w)
    PROVE  Stored'
  <1>1. OneHolder'
    BY RagAssumption DEF Stored, OneHolder, Has, Store
  <1>2. MarkedIsNotDone'
    BY RagAssumption DEF Inv, Typed, SessionsTyped, Stored, MarkedIsNotDone, Store
  <1>3. ReplacedIsNotDone'
    BY DEF Inv, Typed, SessionsTyped, Stored, OneHolder, Has, ReplacedIsNotDone, Store, Goto
  <1>4. DirtyIsStored'
    BY DEF Inv, Typed, DocsTyped, Places, Stored, ReplacedIsNotDone, DirtyIsStored, Store
  <1>5. CompletedIsSearchable'
    BY DEF Stored, ReplacedIsNotDone, CompletedIsSearchable, Store
  <1>6. InsertedLives'
    BY DEF Stored, InsertedLives, Store
  <1>. QED
    BY <1>1, <1>2, <1>3, <1>4, <1>5, <1>6 DEF Stored

LEMMA StoreFailsStores ==
    ASSUME Inv, Stored, NEW w \in Workers, StoreFails(w)
    PROVE  Stored'
  <1>1. OneHolder'
    BY RagAssumption DEF Stored, OneHolder, Has, StoreFails
  <1>2. MarkedIsNotDone'
    BY RagAssumption DEF Inv, Typed, SessionsTyped, Stored, MarkedIsNotDone, StoreFails
  <1>3. ReplacedIsNotDone'
    BY DEF Inv, Typed, SessionsTyped, Stored, ReplacedIsNotDone, StoreFails, Goto
  <1>4. DirtyIsStored'
    BY DEF Stored, DirtyIsStored, StoreFails
  <1>5. CompletedIsSearchable'
    BY DEF Stored, CompletedIsSearchable, StoreFails
  <1>6. InsertedLives'
    BY DEF Stored, InsertedLives, StoreFails
  <1>. QED
    BY <1>1, <1>2, <1>3, <1>4, <1>5, <1>6 DEF Stored

LEMMA CompleteStores ==
    ASSUME Inv, Stored, NEW w \in Workers, Complete(w)
    PROVE  Stored'
  <1>1. OneHolder'
    BY DEF Inv, Typed, SessionsTyped, Places, Stored, OneHolder, Has, Complete, Forget
  <1>2. MarkedIsNotDone'
    BY DEF Inv, Typed, SessionsTyped, Stored, OneHolder, Has, MarkedIsNotDone, Complete,
           Forget, Flushed
  <1>3. ReplacedIsNotDone'
    BY DEF Stored, OneHolder, Has, ReplacedIsNotDone, Complete, Goto, Forget, Flushed
  <1>4. DirtyIsStored'
    BY DEF Inv, Typed, SessionsTyped, Stored, DirtyIsStored, Complete, Forget, Flushed,
           CanCommit
  <1>5. CompletedIsSearchable'
    BY DEF Stored, DirtyIsStored, CompletedIsSearchable, Complete, Flushed, CanCommit
  <1>6. InsertedLives'
    BY DEF Stored, InsertedLives, Complete, Flushed
  <1>. QED
    BY <1>1, <1>2, <1>3, <1>4, <1>5, <1>6 DEF Stored

LEMMA FailStores ==
    ASSUME Inv, Stored, NEW w \in Workers, Fail(w)
    PROVE  Stored'
  <1>1. OneHolder'
    BY DEF Inv, Typed, SessionsTyped, Places, Stored, OneHolder, Has, Fail, Forget
  <1>2. MarkedIsNotDone'
    BY DEF Inv, Typed, SessionsTyped, Stored, OneHolder, Has, MarkedIsNotDone, Fail, Forget,
           Flushed
  <1>3. ReplacedIsNotDone'
    BY DEF Stored, OneHolder, Has, ReplacedIsNotDone, Fail, Goto, Forget, Flushed
  <1>4. DirtyIsStored'
    BY DEF Inv, Typed, SessionsTyped, Stored, DirtyIsStored, Fail, Forget, Flushed,
           CanCommit
  <1>5. CompletedIsSearchable'
    BY DEF Stored, DirtyIsStored, CompletedIsSearchable, Fail, Flushed, CanCommit
  <1>6. InsertedLives'
    BY DEF Stored, InsertedLives, Fail, Flushed
  <1>. QED
    BY <1>1, <1>2, <1>3, <1>4, <1>5, <1>6 DEF Stored

LEMMA BreaksStores ==
    ASSUME Inv, Stored, NEW w \in Workers, Breaks(w)
    PROVE  Stored'
  <1>1. OneHolder'
    BY RagAssumption DEF Stored, OneHolder, Has, Breaks, Abandon, Forget
  <1>2. MarkedIsNotDone'
    BY DEF Inv, Typed, SessionsTyped, Stored, MarkedIsNotDone, Breaks, Abandon, Forget
  <1>3. ReplacedIsNotDone'
    BY DEF Inv, Typed, SessionsTyped, Stored, ReplacedIsNotDone, Breaks, Abandon, Goto, Forget
  <1>4. DirtyIsStored'
    BY DEF Stored, DirtyIsStored, Breaks, Abandon, Forget
  <1>5. CompletedIsSearchable'
    BY DEF Stored, CompletedIsSearchable, Breaks
  <1>6. InsertedLives'
    BY DEF Stored, InsertedLives, Breaks
  <1>. QED
    BY <1>1, <1>2, <1>3, <1>4, <1>5, <1>6 DEF Stored

LEMMA DatabaseFailsStores ==
    ASSUME Inv, Stored, NEW w \in Workers, DatabaseFails(w)
    PROVE  Stored'
  <1>1. OneHolder'
    BY RagAssumption
    DEF Inv, Typed, SessionsTyped, Stored, OneHolder, Has, DatabaseFails, Abandon, Forget
  <1>2. MarkedIsNotDone'
    BY RagAssumption
    DEF Inv, Typed, SessionsTyped, Stored, MarkedIsNotDone, DatabaseFails, Abandon, Forget
  <1>3. ReplacedIsNotDone'
    BY DEF Inv, Typed, SessionsTyped, Stored, ReplacedIsNotDone, DatabaseFails, Running, Abandon, Goto,
           Forget
  <1>4. DirtyIsStored'
    BY DEF Inv, Typed, SessionsTyped, Stored, DirtyIsStored, DatabaseFails, Abandon, Forget
  <1>5. CompletedIsSearchable'
    BY DEF Stored, CompletedIsSearchable, DatabaseFails
  <1>6. InsertedLives'
    BY DEF Stored, InsertedLives, DatabaseFails
  <1>. QED
    BY <1>1, <1>2, <1>3, <1>4, <1>5, <1>6 DEF Stored

LEMMA DiesStores ==
    ASSUME Inv, Stored, NEW w \in Workers, Dies(w)
    PROVE  Stored'
  <1>1. OneHolder'
    BY RagAssumption DEF Stored, OneHolder, Has, Dies, Forget
  <1>2. MarkedIsNotDone'
    BY DEF Inv, Typed, SessionsTyped, Stored, MarkedIsNotDone, Dies, Forget
  <1>3. ReplacedIsNotDone'
    BY DEF Inv, Typed, SessionsTyped, Stored, ReplacedIsNotDone, Dies, Goto, Forget
  <1>4. DirtyIsStored'
    BY DEF Stored, DirtyIsStored, Dies, Forget
  <1>5. CompletedIsSearchable'
    BY DEF Stored, CompletedIsSearchable, Dies
  <1>6. InsertedLives'
    BY DEF Stored, InsertedLives, Dies
  <1>. QED
    BY <1>1, <1>2, <1>3, <1>4, <1>5, <1>6 DEF Stored

-----------------------------------------------------------------------------
(* The specification                                                       *)

LEMMA AllInit == Init => Inv /\ Stored
  <1>. SUFFICES ASSUME Init PROVE Inv /\ Stored
    OBVIOUS
  <1>1. RowTyped /\ QueueTyped
    <2>1. 0 \in 0..MaxAttempts
      BY RagAssumption
    <2>2. NotQueued \in QueueRows
      BY <2>1 DEF NotQueued, QueueRows
    <2>. QED
      BY <2>2, NoRowTyped DEF Init, RowTyped, QueueTyped
  <1>2. DocsTyped /\ ListTyped
    BY DEF Init, DocsTyped, ListTyped, DocStatuses
  <1>3. SessionsTyped
    BY DEF Init, SessionsTyped, PCs
  <1>4. HistoryTyped
    BY RagAssumption DEF Init, HistoryTyped
  <1>5. Places
    BY RagAssumption DEF Init, Places
  <1>6. Stored
    BY RagAssumption
    DEF Init, Stored, OneHolder, Has, MarkedIsNotDone, ReplacedIsNotDone, DirtyIsStored,
        InsertedLives, NoRow, CompletedIsSearchable
  <1>. QED
    BY <1>1, <1>2, <1>3, <1>4, <1>5, <1>6 DEF Inv, Typed

LEMMA InvNext ==
    ASSUME Inv, [Next]_vars
    PROVE  Inv'
  <1>1. ASSUME NEW w \in Workers, Pipeline(w) PROVE Inv'
    BY <1>1, BeginKeeps, NextDocumentKeeps, ParseFailsKeeps, ChunkKeeps, ClearChunksKeeps,
       StoreKeeps, StoreFailsKeeps, CompleteKeeps, FailKeeps, BreaksKeeps
    DEF Pipeline
  <1>2. ASSUME NEW l \in Loops, StartWorker(l) \/ LoopStep(l) PROVE Inv'
    BY <1>1, <1>2, StartWorkerKeeps, PopKeeps, ClaimFromTableKeeps, ReadJobKeeps,
       ClaimJobKeeps
    DEF LoopStep, Workers
  <1>3. ASSUME NEW s \in Slots, SlotStep(s) PROVE Inv'
    BY <1>1, <1>3, TakeKeeps DEF SlotStep, Workers
  <1>4. ASSUME NEW j \in Jobs, Request(j) \/ CommitRequeue(j) PROVE Inv'
    BY <1>4, ProcessKeeps, RequeueKeeps, RequeueDiesKeeps, CommitRequeueKeeps DEF Request
  <1>5. ASSUME NEW w \in Workers, Mishap(w) PROVE Inv'
    BY <1>5, DatabaseFailsKeeps, DiesKeeps DEF Mishap
  <1>6. ASSUME UNCHANGED vars PROVE Inv'
    BY <1>6
    DEF vars, Inv, Typed, RowTyped, QueueTyped, DocsTyped, ListTyped, SessionsTyped,
        HistoryTyped, Places
  <1>. QED
    BY <1>2, <1>3, <1>4, <1>5, <1>6, DeleteDocumentKeeps DEF Next

LEMMA StoredNext ==
    ASSUME Inv, Stored, [Next]_vars
    PROVE  Stored'
  <1>1. ASSUME NEW w \in Workers, Pipeline(w) PROVE Stored'
    BY <1>1, BeginStores, NextDocumentStores, ParseFailsStores, ChunkStores,
       ClearChunksStores, StoreStores, StoreFailsStores, CompleteStores, FailStores,
       BreaksStores
    DEF Pipeline
  <1>2. ASSUME NEW l \in Loops, StartWorker(l) \/ LoopStep(l) PROVE Stored'
    BY <1>1, <1>2, StartWorkerStores, PopStores, ClaimFromTableStores, ReadJobStores,
       ClaimJobStores
    DEF LoopStep, Workers
  <1>3. ASSUME NEW s \in Slots, SlotStep(s) PROVE Stored'
    BY <1>1, <1>3, TakeStores DEF SlotStep, Workers
  <1>4. ASSUME NEW j \in Jobs, Request(j) \/ CommitRequeue(j) PROVE Stored'
    BY <1>4, ProcessStores, RequeueStores, RequeueDiesStores, CommitRequeueStores
    DEF Request
  <1>5. ASSUME NEW w \in Workers, Mishap(w) PROVE Stored'
    BY <1>5, DatabaseFailsStores, DiesStores DEF Mishap
  <1>6. ASSUME UNCHANGED vars PROVE Stored'
    BY <1>6
    DEF vars, Stored, OneHolder, Has, MarkedIsNotDone, ReplacedIsNotDone, DirtyIsStored,
        InsertedLives, CompletedIsSearchable
  <1>. QED
    BY <1>2, <1>3, <1>4, <1>5, <1>6, DeleteDocumentStores DEF Next

\* The rows and the sessions of rag/jobs.py keep their types; a job of the queue is run
\* max_attempts times at most.
THEOREM IngestTyped == Spec => []TypeOK
  <1>1. Inv => TypeOK
    BY DEF Inv, Typed, RowTyped, QueueTyped, DocsTyped, ListTyped, SessionsTyped,
           HistoryTyped, TypeOK
  <1>. QED
    BY <1>1, AllInit, InvNext, PTL DEF Spec

\* rag/jobs.py, "Reprocessing must replace chunks, not duplicate them": whatever was retried,
\* reindexed, deleted or crashed before, a document that says completed has exactly one set of
\* chunks, unless two sessions have had it at once or its last insertion failed.
THEOREM CompletedHasItsChunks == Spec => []CompletedIsSearchable
  <1>1. Stored => CompletedIsSearchable
    BY DEF Stored
  <1>2. Inv /\ Stored /\ [Next]_vars => (Inv /\ Stored)'
    BY InvNext, StoredNext
  <1>. QED
    BY <1>1, <1>2, AllInit, PTL DEF Spec
==============================================================================
