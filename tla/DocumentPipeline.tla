--------------------------- MODULE DocumentPipeline ---------------------------
(***************************************************************************)
(* From an uploaded file to vector rows: ingestion, the RQ queue, parsing  *)
(* and indexing (app/services/document_ingestion_service.py,               *)
(* document_processing_queue.py, document_processing_workflow.py,          *)
(* mineru_parser_adapter.py, vector_index_service.py and                   *)
(* knowledge_metadata_store.py).                                           *)
(*                                                                         *)
(* The API process and the job processes the RQ worker forks run the same  *)
(* code.  Each has its own copy of the metadata store, read from the file  *)
(* once, when the process imports the module; every write changes the copy *)
(* and writes the WHOLE copy over the file.  Vector rows are shared.  A    *)
(* step of a process is the code from one save, queue call or vector call  *)
(* to the next.  A handler of the API runs to its end before the next one. *)
(***************************************************************************)
EXTENDS Naturals, Sequences, FiniteSets

CONSTANTS
  Docs,       \* document ids; the same content uploaded again has the same id
  Plain,      \* documents routed to the plain-text engine, the rest to MinerU
  Blank,      \* documents whose text yields no chunk
  Api,        \* the API process
  Workers,    \* RQ workers; each runs one job process at a time
  Directory,  \* the files a directory batch finds, in order
  BatchJob,   \* a job that indexes the directory
  NoDoc,      \* no document, no job
  Torn,       \* a file that holds a part of a save
  MaxUploads, MaxBatches, MaxFaults  \* bounds

Procs == {Api} \cup Workers
Jobs == Docs \cup {BatchJob}

ASSUME PipelineAssumption ==
  /\ Plain \subseteq Docs /\ Blank \subseteq Docs
  /\ Api \notin Workers
  /\ BatchJob \notin Docs /\ NoDoc \notin Jobs
  /\ Directory \in Seq(Docs)
  /\ {MaxUploads, MaxBatches, MaxFaults} \subseteq Nat

Pending == {"parse_pending", "parsing"}
Indexing == {"index_pending", "indexing"}
Settled == {"indexed", "parse_failed", "index_failed"}
Status == {"none", "uploaded", "enqueue_failed", "parsed"} \cup Pending \cup Indexing \cup Settled

(* What a copy of the store knows of a document. *)
Entry == [status : Status, chunks : BOOLEAN]
Unknown == [status |-> "none", chunks |-> FALSE]
Empty == [d \in Docs |-> Unknown]

ASSUME TornAssumption == Torn \notin [Docs -> Entry]

VARIABLES
  mem,      \* the copy of the metadata store in each process
  file,     \* the store's JSON file
  rows,     \* how many times the rows of a document are in the vector store
  queue,    \* the RQ queue
  stage,    \* what each process does next
  doc,      \* the document it does it to
  job,      \* the job it was started for
  todo,     \* what is left of a directory batch
  verdict,  \* how the last job of a document ended
  uploads, batches, \* counters, for the bounds
  faults, misses    \* crashes and failed deletes; failed deletes of a document

vars == <<mem, file, rows, queue, stage, doc, job, todo, verdict,
          uploads, batches, faults, misses>>
counters == <<uploads, batches, faults, misses>>

ParseStages == {"loaded", "parsing", "parsed"}
WriteStages == {"clearing", "adding", "recording", "confirming"}
IndexStages == {"indexing", "chunking", "writing"} \cup WriteStages
IngestStages == {"plain", "pending", "queueing", "queued"}
Stages == {"idle", "down", "scanning"} \cup IngestStages \cup ParseStages \cup IndexStages

TypeOK ==
  /\ mem \in [Procs -> [Docs -> Entry]]
  /\ file \in [Docs -> Entry] \cup {Torn}
  /\ rows \in [Docs -> Nat]
  /\ queue \in Seq(Jobs)
  /\ stage \in [Procs -> Stages]
  /\ doc \in [Procs -> Docs \cup {NoDoc}]
  /\ job \in [Procs -> Jobs \cup {NoDoc}]
  /\ todo \in [Procs -> Seq(Docs)]
  /\ verdict \in [Docs -> Status \cup {"missing", "unreadable", "crashed"}]
  /\ uploads \in Nat /\ batches \in Nat /\ faults \in Nat
  /\ misses \in [Docs -> Nat]
  /\ \A p \in Procs : stage[p] \notin {"idle", "down", "scanning"} => doc[p] \in Docs

Init ==
  /\ mem = [p \in Procs |-> Empty]
  /\ file = Empty
  /\ rows = [d \in Docs |-> 0]
  /\ queue = <<>>
  /\ stage = [p \in Procs |-> "idle"]
  /\ doc = [p \in Procs |-> NoDoc]
  /\ job = [p \in Procs |-> NoDoc]
  /\ todo = [p \in Procs |-> <<>>]
  /\ verdict = [d \in Docs |-> "none"]
  /\ uploads = 0 /\ batches = 0 /\ faults = 0
  /\ misses = [d \in Docs |-> 0]
-----------------------------------------------------------------------------
(* The metadata store. *)

Knows(p, d) == mem[p][d].status # "none"

(* A write: the copy of p changes and becomes the file. *)
Save(p, d, entry) ==
  /\ file' = [mem[p] EXCEPT ![d] = entry]
  /\ mem' = [mem EXCEPT ![p] = [mem[p] EXCEPT ![d] = entry]]

(* transition_document_status: of a document the copy knows *)
SetStatus(p, status) ==
  /\ Knows(p, doc[p])
  /\ Save(p, doc[p], [mem[p][doc[p]] EXCEPT !.status = status])

Goto(p, next) == /\ stage' = [stage EXCEPT ![p] = next]
                 /\ UNCHANGED <<doc, job, todo, verdict>>

(* The process of w's job is gone, and its copy with it. *)
Exit(w, how) ==
  /\ mem' = [mem EXCEPT ![w] = Empty]
  /\ stage' = [stage EXCEPT ![w] = "idle"]
  /\ doc' = [doc EXCEPT ![w] = NoDoc]
  /\ job' = [job EXCEPT ![w] = NoDoc]
  /\ todo' = [todo EXCEPT ![w] = <<>>]
  /\ verdict' = [d \in Docs |-> IF d = job[w] THEN how ELSE verdict[d]]

(* The last save for a document: the API serves the next request, a batch  *)
(* goes on with the next file, a job of one document ends its process.     *)
Conclude(p, status) ==
  IF job[p] \in Docs
  THEN /\ Knows(p, doc[p])
       /\ file' = [mem[p] EXCEPT ![doc[p]] = [@ EXCEPT !.status = status]]
       /\ Exit(p, status)
  ELSE /\ SetStatus(p, status)
       /\ stage' = [stage EXCEPT ![p] = IF p = Api THEN "idle" ELSE "scanning"]
       /\ doc' = [doc EXCEPT ![p] = NoDoc]
       /\ UNCHANGED <<job, todo, verdict>>
-----------------------------------------------------------------------------
(* Ingestion, by the API or by a directory batch. *)

(* Mutant: every file goes through the queue. *)
IngestUnrouted(p, d) ==
  /\ Save(p, d, [mem[p][d] EXCEPT !.status = "uploaded"])
  /\ stage' = [stage EXCEPT ![p] = "queueing"]
  /\ doc' = [doc EXCEPT ![p] = d]
  /\ UNCHANGED <<job, verdict, rows, queue>>

(* ingest_upload stores the file and the record; the document's chunks stay. *)
Ingest(p, d) ==
  /\ Save(p, d, [mem[p][d] EXCEPT !.status = "uploaded"])
  /\ stage' = [stage EXCEPT ![p] = IF d \in Plain THEN "plain" ELSE "queueing"]
  /\ doc' = [doc EXCEPT ![p] = d]
  /\ UNCHANGED <<job, verdict, rows, queue>>

Upload(d) ==
  /\ stage[Api] = "idle" /\ uploads < MaxUploads
  /\ Ingest(Api, d)
  /\ uploads' = uploads + 1
  /\ UNCHANGED <<todo, batches, faults, misses>>

ScanNext(w) ==
  /\ stage[w] = "scanning" /\ todo[w] # <<>>
  /\ Ingest(w, Head(todo[w]))
  /\ todo' = [todo EXCEPT ![w] = Tail(@)]
  /\ UNCHANGED counters

ScanDone(w) ==
  /\ stage[w] = "scanning" /\ todo[w] = <<>>
  /\ Exit(w, "none")
  /\ UNCHANGED <<file, rows, queue, counters>>

Enqueue(p) ==
  /\ stage[p] = "queueing"
  /\ queue' = Append(queue, doc[p])
  /\ Goto(p, "queued")
  /\ UNCHANGED <<mem, file, rows, counters>>

EnqueueFails(p) ==
  /\ stage[p] = "queueing"
  /\ Conclude(p, "enqueue_failed")
  /\ UNCHANGED <<rows, queue, counters>>

(* The job may have started, and even ended, before this save. *)
ConfirmQueued(p) ==
  /\ stage[p] = "queued"
  /\ Conclude(p, "parse_pending")
  /\ UNCHANGED <<rows, queue, counters>>

ConfirmPlain(p) ==
  /\ stage[p] = "plain"
  /\ SetStatus(p, "parse_pending")
  /\ Goto(p, "pending")
  /\ UNCHANGED <<rows, queue, counters>>

SubmitBatch ==
  /\ stage[Api] = "idle" /\ batches < MaxBatches
  /\ queue' = Append(queue, BatchJob)
  /\ batches' = batches + 1
  /\ UNCHANGED <<mem, file, rows, stage, doc, job, todo, verdict, uploads, faults, misses>>
-----------------------------------------------------------------------------
(* Jobs.  The worker forks a process that imports the store, so it reads   *)
(* the file; when another process is writing it, it may read a part.       *)

Running(p) == IF p = Api THEN stage[p] # "down" ELSE stage[p] # "idle"

StartJob(w) ==
  /\ stage[w] = "idle" /\ queue # <<>> /\ file # Torn
  /\ mem' = [mem EXCEPT ![w] = file]
  /\ queue' = Tail(queue)
  /\ job' = [job EXCEPT ![w] = Head(queue)]
  /\ IF Head(queue) = BatchJob
     THEN /\ stage' = [stage EXCEPT ![w] = "scanning"]
          /\ todo' = [todo EXCEPT ![w] = Directory]
          /\ UNCHANGED <<doc, verdict>>
     ELSE /\ stage' = [stage EXCEPT ![w] = "loaded"]
          /\ doc' = [doc EXCEPT ![w] = Head(queue)]
          /\ verdict' = [verdict EXCEPT ![Head(queue)] = "none"]
          /\ UNCHANGED todo
  /\ UNCHANGED <<file, rows, counters>>

(* The import raises and RQ files the job as failed; it is not tried again. *)
StartFails(w) ==
  /\ stage[w] = "idle" /\ queue # <<>>
  /\ file = Torn \/ \E p \in Procs \ {w} : Running(p)
  /\ queue' = Tail(queue)
  /\ verdict' = [d \in Docs |-> IF d = Head(queue) THEN "unreadable" ELSE verdict[d]]
  /\ UNCHANGED <<mem, file, rows, stage, doc, job, todo, counters>>

(* Mutant: a job that does not find its document is tried again. *)
JobRetries(w) ==
  /\ stage[w] = "loaded" /\ ~Knows(w, doc[w])
  /\ queue' = Append(queue, doc[w])
  /\ Exit(w, "none")
  /\ UNCHANGED <<file, rows, counters>>

(* process_deferred_document raises: the copy does not know the document *)
JobMissesDocument(w) ==
  /\ stage[w] = "loaded" /\ ~Knows(w, doc[w])
  /\ Exit(w, "missing")
  /\ UNCHANGED <<file, rows, queue, counters>>

(* parse_document raises: the source file is gone.  Its status stays.      *)
SourceMissing(w) ==
  /\ stage[w] = "loaded" /\ Knows(w, doc[w])
  /\ Exit(w, "unreadable")
  /\ UNCHANGED <<file, rows, queue, counters>>

(* parse_document saves the record as it is, and then PARSING: one step,   *)
(* as the first of the two saves changes nothing in the copy.              *)
BeginParse(w) ==
  /\ stage[w] = "loaded"
  /\ SetStatus(w, "parsing")
  /\ Goto(w, "parsing")
  /\ UNCHANGED <<rows, queue, counters>>

Parse(w) ==
  /\ stage[w] = "parsing"
  /\ SetStatus(w, "parsed")
  /\ Goto(w, "parsed")
  /\ UNCHANGED <<rows, queue, counters>>

WriteManifest(w) ==
  /\ stage[w] = "parsed"
  /\ SetStatus(w, "index_pending")
  /\ Goto(w, "indexing")
  /\ UNCHANGED <<rows, queue, counters>>

(* The command, the postprocessing or the manifest fails, or the job runs  *)
(* into its timeout while it waits for one of them.                        *)
ParseFails(w) ==
  /\ stage[w] \in {"parsing", "parsed"}
  /\ Conclude(w, "parse_failed")
  /\ UNCHANGED <<rows, queue, counters>>
-----------------------------------------------------------------------------
(* Indexing, by whichever process has the document.                        *)

BeginIndex(p) ==
  /\ stage[p] \in {"pending", "indexing"}
  /\ SetStatus(p, IF doc[p] \in Plain THEN "index_pending" ELSE "indexing")
  /\ Goto(p, "chunking")
  /\ UNCHANGED <<rows, queue, counters>>

Chunk(p) ==
  /\ stage[p] = "chunking"
  /\ SetStatus(p, "indexing")
  /\ Goto(p, "writing")
  /\ UNCHANGED <<rows, queue, counters>>

AfterClearing(p) == IF doc[p] \in Blank THEN "confirming" ELSE "adding"

(* Mutant: rows are only deleted for a document with known chunks. *)
DropKnownChunks(p) ==
  /\ stage[p] = "writing"
  /\ IF mem[p][doc[p]].chunks
     THEN /\ Save(p, doc[p], [mem[p][doc[p]] EXCEPT !.chunks = FALSE])
          /\ Goto(p, "clearing")
     ELSE /\ UNCHANGED <<mem, file>>
          /\ Goto(p, AfterClearing(p))
  /\ UNCHANGED <<rows, queue, counters>>

(* Embeddings first, then delete_chunks_by_doc_id, which saves when there were any. *)
DropChunks(p) ==
  /\ stage[p] = "writing"
  /\ IF mem[p][doc[p]].chunks
     THEN Save(p, doc[p], [mem[p][doc[p]] EXCEPT !.chunks = FALSE])
     ELSE UNCHANGED <<mem, file>>
  /\ Goto(p, "clearing")
  /\ UNCHANGED <<rows, queue, counters>>

DeleteRows(p) ==
  /\ stage[p] = "clearing"
  /\ rows' = [rows EXCEPT ![doc[p]] = 0]
  /\ Goto(p, AfterClearing(p))
  /\ UNCHANGED <<mem, file, queue, counters>>

(* A failing delete is logged and answers 0 rows. *)
DeleteMisses(p) ==
  /\ stage[p] = "clearing" /\ faults < MaxFaults
  /\ faults' = faults + 1
  /\ misses' = [misses EXCEPT ![doc[p]] = @ + 1]
  /\ Goto(p, AfterClearing(p))
  /\ UNCHANGED <<mem, file, rows, queue, uploads, batches>>

(* Mutant: a failing insert is swallowed, as a failing delete is. *)
AddRowsQuietly(p) ==
  /\ stage[p] = "adding"
  /\ rows' \in {rows, [rows EXCEPT ![doc[p]] = @ + 1]}
  /\ Goto(p, "recording")
  /\ UNCHANGED <<mem, file, queue, counters>>

AddRows(p) ==
  /\ stage[p] = "adding"
  /\ rows' = [rows EXCEPT ![doc[p]] = @ + 1]
  /\ Goto(p, "recording")
  /\ UNCHANGED <<mem, file, queue, counters>>

(* Mutant: the chunks are not stored. *)
RecordNothing(p) ==
  /\ stage[p] = "recording"
  /\ Goto(p, "confirming")
  /\ UNCHANGED <<mem, file, rows, queue, counters>>

RecordChunks(p) ==
  /\ stage[p] = "recording"
  /\ Save(p, doc[p], [mem[p][doc[p]] EXCEPT !.chunks = TRUE])
  /\ Goto(p, "confirming")
  /\ UNCHANGED <<rows, queue, counters>>

(* Mutant: INDEXED is confirmed before the chunks are stored. *)
ConfirmEarly(p) ==
  /\ stage[p] \in {"recording", "confirming"}
  /\ Conclude(p, "indexed")
  /\ UNCHANGED <<rows, queue, counters>>

ConfirmIndexed(p) ==
  /\ stage[p] = "confirming"
  /\ Conclude(p, "indexed")
  /\ UNCHANGED <<rows, queue, counters>>

(* index_document_record raises, wherever it is: the file is gone, or      *)
(* reading, splitting, the artifacts, the embeddings, the vector store or  *)
(* a save fails, or the job runs into its timeout.                         *)
IndexFails(p) ==
  /\ stage[p] \in {"pending"} \cup IndexStages
  /\ Conclude(p, "index_failed")
  /\ UNCHANGED <<rows, queue, counters>>
-----------------------------------------------------------------------------
(* Status queries and crashes. *)

(* reconcile_stale_processing, for one document of the API's copy that has *)
(* been in a processing status for too long; the others follow.            *)
Reconcile(d) ==
  /\ stage[Api] = "idle"
  /\ mem[Api][d].status \in Pending \cup Indexing
  /\ Save(Api, d, [mem[Api][d] EXCEPT !.status =
                     IF @ \in Pending THEN "parse_failed" ELSE "index_failed"])
  /\ UNCHANGED <<rows, queue, stage, doc, job, todo, verdict, counters>>

(* A process may be killed while it writes the file. *)
Crash(p) ==
  /\ Running(p) /\ faults < MaxFaults
  /\ faults' = faults + 1
  /\ file' \in {file, Torn}
  /\ IF p = Api
     THEN /\ stage' = [stage EXCEPT ![p] = "down"]
          /\ doc' = [doc EXCEPT ![p] = NoDoc]
          /\ UNCHANGED <<mem, job, todo, verdict>>
     ELSE Exit(p, "crashed")
  /\ UNCHANGED <<rows, queue, uploads, batches, misses>>

(* The API starts and reads the file; it cannot start on a torn one. *)
StartApi ==
  /\ stage[Api] = "down" /\ file # Torn
  /\ mem' = [mem EXCEPT ![Api] = file]
  /\ stage' = [stage EXCEPT ![Api] = "idle"]
  /\ UNCHANGED <<file, rows, queue, doc, job, todo, verdict, counters>>
-----------------------------------------------------------------------------
Ingestion(p) == Enqueue(p) \/ EnqueueFails(p) \/ ConfirmQueued(p) \/ ConfirmPlain(p)

Index(p) ==
  \/ BeginIndex(p) \/ Chunk(p) \/ DropChunks(p) \/ DeleteRows(p) \/ DeleteMisses(p)
  \/ AddRows(p) \/ RecordChunks(p) \/ ConfirmIndexed(p) \/ IndexFails(p)

Work(w) ==
  \/ StartJob(w) \/ StartFails(w) \/ ScanNext(w) \/ ScanDone(w)
  \/ JobMissesDocument(w) \/ SourceMissing(w)
  \/ BeginParse(w) \/ Parse(w) \/ WriteManifest(w) \/ ParseFails(w)

Proceed(p) == Ingestion(p) \/ Index(p) \/ (p \in Workers /\ Work(p))

Next ==
  \/ \E p \in Procs : Ingestion(p) \/ Index(p) \/ Crash(p)
  \/ \E w \in Workers : Work(w)
  \/ \E d \in Docs : Upload(d) \/ Reconcile(d)
  \/ SubmitBatch \/ StartApi

Spec == Init /\ [][Next]_vars

(* A process runs the code it has begun, and an idle worker takes the next *)
(* job.                                                                    *)
FairSpec == Spec /\ \A p \in Procs : WF_vars(Proceed(p))
-----------------------------------------------------------------------------
(* Properties. *)

(* Every copy of the store, in memory or on disk, however stale, that calls *)
(* a document INDEXED also holds its chunks: the record and the chunks are  *)
(* changed by separate saves (index_document_record, replace_chunks,        *)
(* delete_chunks_by_doc_id), and copies overwrite each other as a whole.    *)
HasChunks(copy) ==
  \A d \in Docs \ Blank : copy[d].status = "indexed" => copy[d].chunks

IndexedHasChunks ==
  /\ \A p \in Procs : HasChunks(mem[p])
  /\ file # Torn => HasChunks(file)

(* No copy claims a parse of a plain-text document: it goes from            *)
(* PARSE_PENDING to indexing, "avoiding to write a parse that did not       *)
(* happen as a status" (document_ingestion_service.py:208).                 *)
ParsedStatus == {"parsing", "parsed", "enqueue_failed"}

PlainNeverParsed ==
  /\ \A p \in Procs, d \in Plain : mem[p][d].status \notin ParsedStatus
  /\ file # Torn => \A d \in Plain : file[d].status \notin ParsedStatus

(* With one worker, until the first batch: after a job ended with INDEXED,  *)
(* the rows of its document are in the vector store until another job takes *)
(* it up, whatever uploads, failures and crashes follow.                    *)
VerdictHasRows ==
  batches = 0 => \A d \in Docs \ Blank : verdict[d] = "indexed" => rows[d] > 0

(* With one worker, until the first batch: indexing a document again        *)
(* replaces its rows; each duplicate is a delete that failed                *)
(* (_delete_by_metadata_field answers 0 and the rows are added all the same). *)
RowsBounded == batches = 0 => \A d \in Docs : rows[d] <= 1 + misses[d]

(* The inductive invariant of the copies.  What a process has in its hands  *)
(* decides what its next save may write; nobody else changes its copy.      *)
CopyInv ==
  /\ TypeOK /\ IndexedHasChunks /\ PlainNeverParsed
  /\ \A i \in DOMAIN queue : queue[i] \notin Plain
  /\ \A p \in Procs :
       /\ stage[p] = "writing" => mem[p][doc[p]].status # "indexed"
       /\ stage[p] = "confirming" => doc[p] \in Blank \/ mem[p][doc[p]].chunks
       /\ stage[p] \in {"queueing", "queued"} \cup ParseStages => doc[p] \notin Plain

(* What keeps the rows in order with one worker, until the first batch: the *)
(* API indexes plain documents only and the worker the others only, so the  *)
(* one that deletes and adds the rows of a document is alone with it.       *)
RowsAlone ==
  /\ CopyInv /\ VerdictHasRows /\ RowsBounded
  /\ batches = 0 /\ BatchJob \notin {queue[i] : i \in DOMAIN queue}
  /\ stage[Api] \notin ParseStages \cup {"scanning"}
  /\ stage[Api] \in {"plain", "pending"} \cup IndexStages => doc[Api] \in Plain
  /\ \A d \in Plain : verdict[d] = "none"
  /\ job[Api] = NoDoc
  /\ \A w \in Workers :
       /\ stage[w] \in {"idle"} \cup ParseStages \cup IndexStages
       /\ stage[w] # "idle" => job[w] = doc[w] /\ doc[w] \notin Plain /\ verdict[doc[w]] = "none"
  /\ \A p \in Procs :
       /\ stage[p] = "adding" => rows[doc[p]] <= misses[doc[p]]
       /\ stage[p] \in {"recording", "confirming"} => doc[p] \in Blank \/ rows[doc[p]] > 0

(* It stays so whatever happens, and ends with the first batch.             *)
RowInv == batches = 0 => RowsAlone

(* Every job that is enqueued ends, and so does every upload and batch that *)
(* has begun: no stage waits for another process.                           *)
EveryJobEnds ==
  /\ \A d \in Docs \ Plain : d \in {queue[i] : i \in DOMAIN queue} ~> verdict[d] # "none"
  /\ \A p \in Procs : stage[p] \notin {"idle", "down"} ~> stage[p] \in {"idle", "down"}

(* "Worker entrypoint: parse a deferred document, then index it when ready" *)
(* (document_processing_queue.py:34): the job of an enqueued document finds *)
(* the document, which was stored before it was enqueued.                   *)
JobFindsDocument == \A d \in Docs : verdict[d] # "missing"

(* Why it breaks.  A document is stored that another running process, which *)
(* has read the file before, does not know: the next save of that process   *)
(* writes a file without it.                                                *)
StoresUnknown ==
  \E p \in Procs, d \in Docs :
    /\ \/ p = Api /\ Upload(d)
       \/ p \in Workers /\ ScanNext(p) /\ d = Head(todo[p])
    /\ \E q \in Procs \ {p} : Running(q) /\ ~Knows(q, d)

(* The same pipeline, were this not to happen; uploads of known documents,  *)
(* queries, crashes, torn files and failed starts still do.                 *)
InformedSpec == Init /\ [][Next /\ ~StoresUnknown]_vars

(* Then all copies in use know the same documents, the queued ones among    *)
(* them.                                                                    *)
Listed(d) == file[d].status # "none"

SameKnowledge ==
  \A p \in Procs, d \in Docs : Running(p) =>
    /\ \A q \in Procs : Running(q) => (Knows(p, d) <=> Knows(q, d))
    /\ file # Torn => (Knows(p, d) <=> Listed(d))

KnownToAll(d) ==
  /\ \A p \in Procs : Running(p) => Knows(p, d)
  /\ file # Torn => Listed(d)

QueuedAreKnown == \A i \in DOMAIN queue : queue[i] \in Docs => KnownToAll(queue[i])

InformedInv ==
  /\ SameKnowledge /\ QueuedAreKnown /\ JobFindsDocument
  /\ \A p \in Procs : stage[p] = "loaded" => Knows(p, doc[p])

(* The safety core of EveryJobEnds.  A process past its first look at the   *)
(* document never loses it, so the save it is about to make is possible     *)
(* (transition_document_status raises for an unknown document).  The API is *)
(* never a job's process.                                                   *)
KnowsItsDocument ==
  /\ \A p \in Procs : stage[p] \notin {"idle", "down", "scanning", "loaded"} => Knows(p, doc[p])
  /\ job[Api] = NoDoc

(* And no process repeats or goes back: what a step changes of the stage of *)
(* a running process ends it or leaves it less to do, and nothing else      *)
(* takes a file away from its batch.                                        *)
StagesLeft ==
  [loaded |-> 11, parsing |-> 10, parsed |-> 9, plain |-> 9, pending |-> 8, indexing |-> 8,
   chunking |-> 7, writing |-> 6, clearing |-> 5, adding |-> 4, recording |-> 3,
   confirming |-> 2, queueing |-> 2, queued |-> 1, scanning |-> 0]

Begun(p) == stage[p] \notin {"idle", "down"}
StepsLeft(p) == 10 * Len(todo[p]) + StagesLeft[stage[p]]

OnlyAdvances ==
  \A p \in Procs : Begun(p) =>
    \/ ~Begun(p)' \/ StepsLeft(p)' < StepsLeft(p)
    \/ UNCHANGED <<stage[p], doc[p], job[p], todo[p]>>

ProcessesAdvance == [][OnlyAdvances]_vars
=============================================================================
