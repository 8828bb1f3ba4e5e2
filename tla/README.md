# Verification of RagWithAIOps

TLA+ modules, TLC runs and TLAPS proofs about the Python program under `src/app`:
a FastAPI application that answers questions over a document base, runs AIOps
diagnoses with an agent, and puts an enterprise layer (authentication, grants,
reviews, audited database operations) around both.

Contents: 1 the system, 2 how it is modelled, 3 the modules, 4 the runs,
5 the proofs, 6 disagreements found, 7 what is not modelled, 8 the plan.

## 1. The system

One uvicorn process serves the API. Its handlers are coroutines; code between
two awaits runs without interruption, so the unit of interleaving inside the
process is the stretch between two awaits, and for a handler whose body contains
no await it is the whole request. Around it run:

- one RQ worker (`python -m app.workers.document_processing_worker`), which
  starts a job process per deferred document;
- the threads of the document health queue (a `ThreadPoolExecutor`), and the
  threads in which LangChain runs synchronous tools and Starlette runs
  synchronous dependencies;
- whatever other program writes to the business database, or opens the same
  SQLite files.

State lives in process memory (grants, decision cache, tokens, departments,
permission requests, the LangGraph checkpoints), in SQLite files (confirmations,
audit, contracts, reviews, chat sessions, memory), in JSON files (document
metadata) and in external services (MySQL, Milvus, Redis, MCP servers).

### Inventory

| Component | State | Operations and partners | What is hard | What makes it correct | Module |
|---|---|---|---|---|---|
| Database confirmations, `enterprise/database/confirmations.py` | confirmation rows in SQLite, grants in memory, the target database | prepare, cancel, confirm, direct execution; asks permissions, calls the executor, writes the audit log | several processes on one file, a crash between claim and outcome, a stale permission or row count, a lost answer to COMMIT | an operation takes effect at most once, by its permitted owner, after it was handed to the audit log, and the record tells what happened | `OperationConfirmation` |
| Document health checks, `services/document_health_check_service.py` | pending and running sets, results | enqueue after indexing, check, mark as false positive | threads under two locks, a limit, restarts, failing saves | the limit holds, one check per document, no verdict is replaced by an older one | `HealthCheckQueue` |
| Ingestion and indexing, `services/document_ingestion_service.py`, `vector_index_service.py`, `mineru_parser_adapter.py` | the metadata of a document, its chunks, its vector rows | upload, directory batch, parse, index | deletes and inserts by separate calls, failures at each, re-upload of the same content | the status, the chunks and the rows of a document agree | `DocumentPipeline` |
| Processing queue and worker, `services/document_processing_queue.py`, `document_processing_workflow.py` | the RQ queue, jobs | enqueue, run, retry, reconcile stale jobs | a job overtakes its own upload, crashes, timeouts | an enqueued job ends and finds its document | `DocumentPipeline` |
| Metadata store, `services/knowledge_metadata_store.py` | one copy per process and a JSON file | load once, save the whole copy | processes overwrite each other; a save is not atomic | every copy is consistent in itself | `DocumentPipeline` |
| Grants and checks, `enterprise/permissions/` | grants, decision cache | check, grant, revoke, invalidate; called by tools, adapters and the document list | checks in threads overlap the changes of the event loop | a cached decision is the one the grants give | `PermissionCache` |
| Permission requests, `enterprise/permission_requests/` | requests | create, approve, reject; writes grants | two administrators decide, members move | a decision is final; what is approved is granted | `PermissionRequests` |
| Scoped administration, `enterprise/admin/` | users, departments' manageable resources | grants, revocations, changes of users and resource scopes | the scope was derived from a profile read earlier | a department's administrator stays in the department | `PermissionRequests` (partly) |
| Diagnosis graph, `services/aiops_service.py`, `agent/aiops/` | the LangGraph state and its checkpoint per session | begin, plan, execute, replan, complete event | the state of a session outlives a diagnosis; two diagnoses in one session; failing nodes | an answer rests on the required evidence; a complete event is about its own diagnosis; the loop ends | `DiagnosisGraph` |
| AIOps requests, `enterprise/adapters/aiops_adapter.py`, `tasks/`, `reviews/`, `verifiers/` | contracts, reviews | validate, force a review, approve, reject, resume | decisions in any order, resumption of what already ran, two tables written one after the other, plans changed after their check | a risky or refused contract runs only after an approval, what waits can be decided, a plan stays in the scope of its contract | `DiagnosisRequests` |
| Authentication, `enterprise/auth/` | users, revoked tokens, marks of stale tokens | login, logout, refresh | - | a token from before a change of the user is refused | - |
| Chat and session ownership, `adapters/chat_adapter.py`, `sessions/` | owner and messages of a session | first use, append, list, clear | - | a session has one owner | - |
| MySQL connectors and read-only SQL, `enterprise/database/` | a pool of connections | query, rewrite, limit | slots lost when the factory raises, broken connections given back | no slot leaks | planned (pool) |
| Tool registry and gateway, `enterprise/tools/` | - | look up, check, call | - | - | - |
| MCP client, `agent/mcp_client.py` | a cache of tools | list, call with retries | retries of a call that took effect | - | planned |
| RAG agent and chat tools, `services/rag_agent_service.py`, `tools/` | the LangGraph checkpoint of a session | a run per question | what it calls is a language model's choice | - | - |
| Retrieval and ranking, chunking and artifacts, `services/` | - | functions over texts, embeddings and scores | floating point, text | - | - |
| Session memory, `services/session_memory_store.py` | a snapshot row per session | append, archive, summarise | read and write over two connections | no appended message is lost | planned |
| Long-term memory pipeline, `services/memory_*.py`, `cli/memory_operator.py`, `admin/memory_operator_*.py` | one SQLite table of memories | extract candidates, approve, reject, deprecate all, mark as contradicted, restore, supersede, count accesses | the server and the command line read in one statement and write whole records in another; a marking raises half-way; five lists are read one by one | a memory is active only by an operator's decision, contradicting memories are not both accepted, statuses follow the lifecycle | `MemoryRecords` |
| Audit, gateway, guardrails, errors, routing, storage, profile, operations console, shadow mode | events; otherwise none across requests | per request | - | - | - |
| API start, CLI, web client, MCP servers, laboratory, evaluations, scripts | - | - | - | - | - |

`PROJECT.json` lists the same parts with their files, what is modelled of each,
and the hazards of the code line by line.

## 2. How it is modelled

- **A step** is the code between two points where another actor can change what
  the next statement reads: a call of the confirmation repository or executor, a
  save, a lock that is released, a vector call, a node of the graph. Handlers
  without an await are not split inside one process, but their storage calls
  are, since another process may come in between or the process may die.
- **Faults** are actions: crashes, restarts, storage calls that raise, lost
  answers, failing deletes, clients that disconnect. Counters in the guards
  bound those that could otherwise occur for ever.
- **Data** is abstracted to what the properties tell apart. An SQL operation is
  its type and the number of rows its WHERE clause matches; a document is an id,
  an engine, and whether its text is blank; a plan is a number of steps; a
  resource stands for a type, an id and one action.
- **History variables** (`claimed`, `applied`, `lost`, `raced`, `verdict`,
  `inherited`, `called`, `stale`, `approvedOnce` and so on) are read by no action,
  except that counters among them bound runs.
- A variant of a definition, kept beside it under a name of its own
  (`Mutant of ...`), is a plausible bug of that code; each property is broken by
  one of them in the run that holds the property. No specification uses them.

No module declares a RECURSIVE operator, so all of them can be proved about.

## 3. The modules

### OperationConfirmation, OneShotOperation

| TLA+ | Code |
|---|---|
| `store`, `audit` | the confirmation table, the events about confirmations that a sink stored |
| `rows` | what `COUNT(*)` with the operation's WHERE clause gives |
| `perms`, `cache` | the grants each process holds in memory, and the decisions `PermissionService.check` remembers about them; a restarted process holds the seeds and no decision |
| `Decision`, `Remember`, `Invalidate`, `InvalidationRaises` | a check answers what is remembered, else what the grants say, and remembers it; a change of the grants forgets the decisions about the resource, unless the listing of the keys raises |
| `Emit` | `AuditService.record`: stored by a sink, or lost without a word (`missed`) |
| `stage`, `caller`, `job`, `seen` | how far a process is in its handler, for whom, with which record in hand |
| `Prepare`, `Refuse`, `Create` | `prepare`: classification, permission, row estimate, then the insert; a refusal leaves the decision in the cache |
| `BeginCancel`, `Cancel` | `cancel`: read, then the unconditional update |
| `BeginConfirm`, `Expire`, `Recheck`, `Claim`, `LoseClaim`, `Execute`, `ExecuteRaises`, `MarkFailed`, `Finish`, `RecordAudit` | `confirm`, in the order of its calls; `Claim` is the conditional update of `transition_pending_to_executing` |
| `BeginDirect`, `ExecuteDirect` | the direct execution without a confirmation |
| `ChangeGrants`, `Tick`, `OutsideWrite`, `Abandon`, `Crash` | grants, the clock, another writer of the database, a call that raises, a death of the process |

The two dialects differ in the code: SQLite executes and commits in one
transaction, with MySQL the answer to COMMIT may be lost after it took effect
(`ExecuteRaises`). `OneShotOperation` says what the flow promises: an operation is
offered once, claimed at most once, applied at most once and only when claimed.
`ImplementsOneShot` is the refinement. `ExecutingIsHeld` and `HandlersAdvance` are the
safety core of `ExecutingSettles`; `IdentityIsKept` and `OutcomesAreReplaced` say what
remains of a record when several processes write it.

Two services the flow relies on are weaker than they look, and the properties say so.
`check_sql` answers from the decision cache, so the recheck of `confirm` does not read
the grants. `uncleared` is the set of grants whose last change left a remembered decision behind,
which happens only when the listing of the keys raises because a thread adds one
(`ThreadedChecks`); `PermittedWhenApplied` demands the grant unless it is among these.
With the exception taken away it is false: prepare, revoke with a raising listing, confirm.
The other way to a stale decision, a check overtaken by a change (`PR_race`), is a check in
a tool thread; threads check documents only, operations are checked in handlers without
an await. `ChangesClearWithoutThreads` proves that without threads there is no exception.
And `AuditService.record` swallows what its sinks raise
(`audit_service.py:222-227`), after which `confirm` executes all the same:
`AppliedWasAudited` says that the event was handed over before the operation took effect, and
names the events no sink stored. `check_sql` asks for the operation, its tables and its
columns; the model has one grant and one remembered decision for them together.

### HealthCheckQueue

`pending`, `running` are the queue's two sets, `work` the pool's queue, `results`
the store. `StartIndex`, `FailIndex`, `FinishIndex` are the indexing that precedes
an enqueue; `EnqueueFull`, `EnqueueAgain`, `Accept`, `Skip`, `MarkPending`,
`Submit` are `enqueue` between its locks; `Take`, `ReadDocument`, `Diagnose`,
`Write`, `Finish` are the thread's `_run`; `ReadToFlag`, `Flag` are
`mark_false_positive`; `MarkPendingRaises` and `Restart` are faults. `enqueue` of a
full queue stores its result inside the queue's lock, for which the threads wait
(`Unlocked`). What the diagnostics find
is one of two verdicts, on the version of the document that was read.
`PatientSpec` is the queue that turns no request down while a check that has read the
document is running (`TurnsDownLate`), without faults; `Owed` says that a check which
will see the present version is on its way.

### DocumentPipeline

`mem[p]` is the copy of the metadata store in process `p` and `file` the JSON file;
`Save` writes the whole copy. `stage`, `doc`, `job` say where each process is.
`Upload`, `Enqueue`, `EnqueueFails`, `ConfirmQueued`, `ConfirmPlain` are
`ingest_upload`; `SubmitBatch`, `ScanNext`, `ScanDone` are `ingest_directory`;
`StartJob` to `ParseFails` are a job from the fork to the end of the parse;
`BeginIndex`, `Chunk`, `DropChunks`, `DeleteRows`, `DeleteMisses`, `AddRows`,
`RecordNothing`, `RecordChunks`, `ConfirmIndexed`, `IndexFails` are
`index_document_record`; `Reconcile` is the stale check of a status query; `Crash`
may tear the file (`Torn`), and `StartApi` reads it again.

`SourceMissing` is the job whose source file is gone before the parse
(`mineru_parser_adapter.py:44`; the program itself deletes none): it ends without a save. `IndexFails` is
possible at every stage of `index_document_record`, whose `try` covers all of it.

Choices: in ingestion and parsing a job timeout is the failure of the external call in which it surfaces;
saves with nothing in between are one step, such as the two of `BeginParse`, the first of
which writes the copy unchanged; a save that raises outside of indexing (a full disk) is
not modelled, and one that raises in `replace_chunks` or `delete_chunks_by_doc_id` leaves the copy as
it was; the plain branch of `process_deferred_document` and its missing original file are
unreachable; `reindex_document` and `enqueue_deferred_processing` have no caller.
The health check of a document indexed by a worker runs in the job process, which
ends by `os._exit()` and takes the check with it.

`InformedSpec` is the pipeline in which no document is stored that another running
process does not know (`StoresUnknown`). `KnowsItsDocument` and `ProcessesAdvance` are
the safety core of `EveryJobEnds`.

### PermissionCache, PermissionRequests

`PermissionCache` has the grants and the cache. A change of the grants is followed
by the listing of the cached keys (`ListKeys`, which raises when a thread inserts a
key meanwhile, `ListRaises`) and their deletion (`DeleteKeys`). A check in the event
loop is one step (`CheckInLoop`), one in a tool thread three (`LookUp`, `Evaluate`,
`Store`): `retrieve_knowledge` and `list_knowledge_documents` are synchronous tools
which LangChain runs in an executor (`rag_agent_service.py:687`, `:795`). The
evaluation of the grants is one step.

`PermissionRequests` extends it with users, departments, requests and the sessions
of administrators: `Authenticate` resolves the token to a profile, `ResolveScope` is
the synchronous dependency that derives the scope from it, and the handlers
(`AdminGrants`, `AdminRevokes`, `UpdateUser`, `UpdateResourceScope`, `Approve`,
`Reject`, `Refuse`) then rely on that scope. `CreateRequest` routes a request
to the requester's department if that has an administrator, else to the global queue, and
demands a global review where the department does not manage the resource. An approval adds the grant, lets the
invalidation run (`FinishChange`, or `ChangeRaises` with the request still pending)
and then settles the request. It implements `PermissionCache`. `OrderedCacheSpec`
and `OrderedSpec` are the two when no change overtakes a check that has been evaluated
(`Overtakes`) and no listing raises.

### DiagnosisGraph

`checkpoint[s]` is the state LangGraph's `MemorySaver` holds for session `s`;
`values[d]` the channels of the running diagnosis; `report`, `flagged` what its
complete event carries. `Begin` merges the input into the last checkpoint (lists
with `operator.add` are not cleared by an empty list, fields are overwritten);
`Plan`, `Execute` and the branches of the replanner (`ForceResponse`, `ForceTools`,
`Respond`, `KeepPlan`, `ChangePlan`) are the nodes; `Complete` is the event built
from the last checkpoint after the stream ended; `Abandon` is a diagnosis that ends
without it, because a node raises (`execute` answers with an error event and changes
nothing) or the client disconnects. A request whose tools `diagnose` finds invalid never begins. LangGraph is external: it saves a checkpoint after the input and after
every node, gives a run its own channels, and returns the latest checkpoint. The
limits of the evaluation mode (`eval_*`) are unset, as in production. `Provenance`
says where the state of a session comes from; `Left` is what a diagnosis has still to
do at most.

### DiagnosisRequests, ApprovalGate

| TLA+ | Code |
|---|---|
| `contracts`, `reviews` | the tables `enterprise_task_contracts` and `enterprise_human_reviews` |
| `streams` | the diagnoses that run, each with the plan it follows |
| `RequiresReview`, `Forced`, `Verdict` | `RiskDetector.evaluate_contract`, `force_review_contract`, `ContractValidator.validate` with the status `create_contract` stores |
| `RequestPlain`, `RequestDirect`, `RequestReviewed` | the handler of `AIOpsAdapter`: without a contract, with one that is run or refused at once, with one registered for review |
| `RequestLost` | the same, failing between the contract and the review |
| `Named`, `Approved`, `Resume` | `_resolve_review_resume` by review id or task id |
| `Decide` | `HumanReviewService.approve` and `reject` |
| `Plan`, `Replan` | the "plan" event with `PlanVerifier`; a replanner's status event, which is not verified |
| `End`, `Restart` | any end of the stream, also by the client; the process |

The handler has no await before the first event of the diagnosis, so all it does
until then is one step. A contract's text is abstracted to what the detector and
the validator find in it (`Goal`). `ApprovalGate` states what review promises:
a task runs unasked only if it was admitted as harmless, and then once; every
other run starts while the decision on record is an approval. `ImplementsGate`
is the refinement, with the decision read off the two tables (`GateVerdict`).
The graph a diagnosis runs is `DiagnosisGraph`; the two share no state that
decides a step of the other, and are not composed. `SettledSpec` leaves out revised
decisions (`Revises`) and requests that fail between the tables (`Loses`).

### MemoryRecords

`db` is the table `memory_records` for one owner, `op[p]` what a process (or a
thread of the server) has read and is about to write. `MemoryStore` locks single
statements only, and every service reads in one statement and writes whole records
in another, so a step is a statement. `Access`, `Approve`, `Reject`, `Restore`,
`Supersede`, `ExtractConflict`, `ExtractNew` and `DetectConflicts` are the reads,
with the guards of the code; `Write` is the `upsert` that follows. `StoreAtom` writes
without a read. `MarkStaleSuspect` and `MarkRaises` are the loop of
`apply_conflicts_for_atom`, which reads each memory again; `DeprecateOwner`,
`ListNext`, `Deprecate`, `Answer` are `deprecate_owner_memories` with its five
lists. `Fail` is a process that dies or is told that the database is locked.

`MemoryStore.update_status` (`memory_store.py:153`), which sets any status without a
review, is left out: no service calls it, only tests do. A memory that moves between
two of the five lists while they are read is found twice, and the code writes it twice, with the
same status and review; `Deprecate` writes it once.

Which memories contradict each other (`Clash`) or say the same (`Same`) is given as
two relations, with what `is_conflict` and `dedup_key` imply about them in
`RelationAssumption`: both are symmetric, summaries and atoms contradict nothing,
and atoms are not compared. What is extracted from a session contradicts nothing
either; `ExtractConflict` is `store_candidate`. Candidates that contradict nothing and scenarios of the
aggregator take the same steps. The server routes approve, reject and deprecate,
retrieval counts accesses, the command line extracts and decides; atoms,
scenarios, marks, restoring and superseding have services and tests but no caller
in the program yet. The model lets every process do everything. `SerialSpec` lets an
operation begin only when no other is under way.

## 4. The runs

Between them the passing runs take every action and every branch of it; deadlock
is checked where the system never stops by itself.

| Run | Instance | Shows |
|---|---|---|
| `OC_two` | two processes, MySQL, one user, one confirmation of a DELETE or INSERT, direct INSERTs, an outside writer, one tick of expiry, crashes; the audit log may lose the event of the confirmation | `AtMostOnce`, `ExecutedIsTrue`, `AppliedWasAudited`, the inductive `IInv`, the refinement `ImplementsOneShot`, and `ExecutingSettles`: a claimed confirmation gets an outcome unless a fault hits it |
| `OC_one` | one process, SQLite, two users, two confirmations of UPDATEs, a grant that comes and goes, threads that cut invalidations short, crashes | `PermittedWhenApplied`, and what needs a single process: `TerminalIsFinal`, `UnexecutedIsTrue`, `PreviewHonoured` |
| `HQ_safe` | three documents, two threads, limit two, three indexings, one document may be flagged | `Bounded`, `OneCheckPerDoc`, `VerdictsAdvance`, the inductive `QInv` |
| `HQ_stale` | one document indexed twice, no faults, fair threads | violates `IndexedGetsVerdict` |
| `DP_all` | API and one worker, a plain and a parsed document, two uploads, a directory batch, one crash or failing delete | `CopyInv`, `IndexedHasChunks`, `PlainNeverParsed`; until the first batch `RowInv`, `VerdictHasRows`, `RowsBounded`; and `EveryJobEnds` |
| `DP_missing` | two parsed documents, no fault | violates `JobFindsDocument` |
| `PR_two` | a global and a department administrator with two requests at once, a member, one resource, one permission request, one tool thread | `StaleIsExplained`, `AdminInv`, `DecisionIsFinal`, `ApprovedIsGranted`, `StaysInDepartment` |
| `PR_race` | one administrator, one thread | violates `Coherent` |
| `DG_two` | two diagnoses in one session, two required tools, limit of three steps (four with two missing tools), plans of up to three | `GInv`, `EvidenceOrInherited`, `ReportIsOwn`, `FlagIsExplained`, `LoopBounded` |
| `DG_reuse` | the same | violates `EvidenceBeforeAnswer` |
| `DR_gate` | two requests at once, two contracts out of five kinds (harmless, refused, high risk, asking for approval, refused with a signal), two reviews, two runs of a task | `RanWasCleared`, `PendingIsReviewable`, `StraysOnlyByReplan`, the inductive `DInv`, the refinement `ImplementsGate` |
| `MR_two` | server and command line, two memories that contradict each other, two summaries that say the same, an atom, five operations | `OneVersion`, `DeprecatedAll`, `TransitionsAreLegal`, the inductive `MInv` |

### Bounds, and why they are enough

- **OC.** A confirmation interacts with another only through the grants and the
  rows of the database; two processes give every order of two handlers on one
  confirmation, and two confirmations in one process show that the rows of one
  change under the other. `MaxTime = TTL = 1` lets a confirmation expire before,
  between or after the calls. `MaxRows = 1` tells none from some. The second user of
  `OC_one` must not confirm what is not his, and gains and loses the grant for his own
  confirmations, and with it the decision the cache remembers, between any two
  requests; in `OC_two`, whose subject is the order of two processes, the grants stay. `Losable`
  bounds what the audit log may lose: in `OC_two` the one event that `AppliedWasAudited`
  is about, in `OC_one` none, as no action reads the log. The proofs cover every
  combination.
- **HQ.** Limit two with three documents makes the queue full with a check
  outstanding in each set; three indexings let one document be indexed, checked
  and indexed again while another is under way.
- **DP.** Two uploads and a batch cover the same document indexed again while its
  job is queued, running or finished, with the other document's save in between; one
  fault may hit each save of each process and leave the file torn, or each delete.
- **PR.** One resource and one request, because the cache and the handlers treat
  each key and request by itself; two sessions because two administrators may
  decide the same request; the member may move to the system department and back
  or be disabled between any two steps. Offered grants are an allow for the member
  and a deny for the department, so that a new grant may turn a decision either
  way.
- **DG.** Two diagnoses are all that a session's checkpoint can tell apart: one
  that left it and one that begins from it, or writes it at the same time. Limits
  of 3 and 2 stand for 8 and 5 of the code; both sides of each are reached.

- **DR.** A contract interacts with another only through the requests' slots; two of
  each let decisions and resumptions of one task overlap with themselves and with
  those of another. Two runs of a task tell once from again. The five goals take
  every branch of the validator, the detector and the handler.
- **MR.** A memory meets only those it contradicts or repeats, and memories are
  written one at a time, so one pair of each and one atom suffice. Two processes give every order
  of two operations; five operations reach an extraction, its approval, a
  contradiction and what undoes them, with a race at any point.

The proofs of section 5 hold for every value of these bounds.

### Symmetry and deadlock

Symmetry is used only in runs without liveness properties: over confirmations (`OC_one`),
threads and the documents nobody flags (`HQ_safe`), sessions (`PR_two`), diagnoses and tools
(`DG_two`), requests, tasks and reviews (`DR_gate`), processes, and memories in the
same relations (`MR_two`). Deadlock is not checked where the system stops: `HQ_stale` when the
bounded indexings are over, `DP_*` when uploads are and the queue is
empty, `DG_*` because every diagnosis ends, `MR_two` when the bounded operations are over.

### Fairness

- `OperationConfirmation!FairSpec`: weak fairness of `HandlerStep` per process. A
  handler contains no await and waits for no other handler; it runs to its end
  unless a fault (`Abandon`, `Crash`) ends it. Requests, grants and the clock are
  not fair. `ExecutingSettles` excepts confirmations that a fault hit, since
  `execution_deadline_at` is written and never read.
- `HealthCheckQueue!FairSpec`: without faults, weak fairness of the main thread's
  steps and of each pool thread's. The locks are held for bounded time and the calls
  of a check have timeouts. It is the assumption under which `IndexedGetsVerdict`
  fails, so it is not the lack of scheduling that breaks it.
- `DocumentPipeline!FairSpec`: weak fairness of `Proceed(p)` per process: a process
  runs the code it has begun, and an idle worker takes the next job. External calls
  have timeouts and appear as failures.

`DiagnosisGraph` has no liveness run: its termination is `LoopBounded`, together with
the fact that every node leads to the next. LangGraph's own limit on recursion
lies above that bound for plans of the usual length (planner and two nodes per step) and is not modelled.

## 5. The proofs

All theorems are proved for every value of the constants that satisfies the named
assumptions of the modules, which TLC evaluates in the runs. The assumptions say
that limits are natural numbers, that sets of documents, tools and so on are finite where
they are counted, and that the model values for "none" are none of the values.
Together the seven modules hold 61 theorems and 252 lemmas, 7868 obligations. The specifications
named in the last column (`SerialSpec`, `PatientSpec` and so on) are the module's own with
steps taken away; a theorem about one of them says that those steps are the only
cause of something the full specification allows, and section 6 uses them so.

| Module | Theorem | Says |
|---|---|---|
| `OperationConfirmationProofs` | `Invariance` | `Spec => []IInv` |
| | `ExecutesAtMostOnce`, `RecordsAreTrue`, `EffectsAreAudited` | `AtMostOnce`, `ExecutedIsTrue`, `AppliedWasAudited` (lost events excepted) |
| | `ExecutesOnlyPermitted` | `PermittedWhenApplied`, for any number of processes, through the decision cache (changes that did not clear it excepted) |
| | `ChangesClearWithoutThreads` | without threads every change clears the cache: the exception is empty |
| | `OutcomesAreFinal`, `UnexecutedHasNoEffect` | `TerminalIsFinal` and `UnexecutedIsTrue`, with one process |
| | `PreviewsAreHonoured` | `PreviewHonoured`, with one process and no outside writer |
| | `ExecutingHasAHandler`, `HandlersOnlyAdvance` | `ExecutingIsHeld`, `HandlersAdvance`: all that `ExecutingSettles` needs besides fairness |
| | `ConfirmationsKeepIdentity`, `OutcomesReplacedByLateHandlers` | `IdentityIsKept`, `OutcomesAreReplaced`, for any number of processes |
| | `Implements` | `Spec` implements `OneShotOperation` |
| `HealthCheckQueueProofs` | `QueueInvariance`, `QueueIsBounded`, `ChecksAreSingle` | `QInv`; from it `Bounded` and `OneCheckPerDoc` |
| | `VerdictsOnlyAdvance` | `VerdictsAdvance` |
| | `OnlyLateRefusalsStrand` | `PatientSpec => [](CheckedOrOwed /\ ...)`: the cause of `HQ_stale`; nobody flags documents |
| `DocumentPipelineProofs` | `CopyInvariance`, `CopiesStayConsistent`, `PlainStaysUnparsed` | `CopyInv`, `IndexedHasChunks`, `PlainNeverParsed`, for any number of workers, batches and crashes |
| | `RowInvariance`, `RowsFollowVerdicts`, `RowsAreReplaced` | `RowInv`, `VerdictHasRows`, `RowsBounded`, with one worker (`Alone`) |
| | `HandlersKeepDocuments`, `HandlersFinish` | `KnowsItsDocument`, `ProcessesAdvance`: the safety core of `EveryJobEnds` |
| | `OnlyUnknownDocumentsAreLost` | `InformedSpec => []JobFindsDocument`, with what all copies know: the cause of `DP_missing` |
| `PermissionProofs` | `CacheInvariance`, `StaleDecisionsExplained` | what can be stale in the cache, and why |
| | `CoherentWithoutThreads` | with no worker threads the cache is coherent: they are the only reason for `PR_race` |
| | `OnlyRacesMislead`, `AdministrationStaysCoherent` | with threads: `OrderedCacheSpec => []Coherent`, `OrderedSpec => []Coherent` |
| | `RequestsOnlyGetSettled`, `RequestsAreNotDoubled` | `RequestsOnlySettle`, `OnePending` |
| | `ImplementsCache` | `PermissionRequests` implements `PermissionCache` |
| | `AdminInvariance`, `DecisionsAreFinal`, `ApprovalsAreGranted`, `AdministrationIsConfined` | `AdminInv` and the three action properties |
| `DiagnosisGraphProofs` | `GraphInvariance` | `GInv` |
| | `StepsAreBounded`, `EvidenceHasASource`, `ReportsAreOwn`, `FlagsAreExplained` | the four properties of `DG_two` |
| | `OnlySharedSessionsMislead` | `OnlySessionsShare`: the cause of `DG_reuse` |
| | `PlansAreNeverEmpty`, `DiagnosesOnlyAdvance` | `ExecutorHasAStep`, `DiagnosesAdvance`: why a diagnosis ends |
| `DiagnosisRequestsProofs` | `Invariance` | `DInv` |
| | `RunsAreCleared`, `WaitingIsReviewable`, `PlansAreVerified` | `RanWasCleared`, `PendingIsReviewable`, `StraysOnlyByReplan` |
| | `NothingIsTakenBack` | `RecordsAreKept` |
| | `OnlyRevisionsMislead` | `SettledSpec => []TablesTell` |
| | `Implements` | `Spec` implements `ApprovalGate` |
| `MemoryRecordsProofs` | `Invariance`, `OnlyReviewed` | `MInv`; from it that nothing is active without an operator's approval |
| | `NoTwoVersions`, `DeprecationIsComplete`, `FollowsLifecycle` | `OneVersion`, `DeprecatedAll`, `TransitionsAreLegal` |
| | `OnlyOverlapRaces` | under `SerialSpec` the same three without their exceptions |

### The inductive invariants, and why they are needed

- **`IInv`.** That an operation took effect once does not follow from itself: a
  handler about to execute must be known to be the only one for its confirmation
  (`OneHolder`), for which an unclaimed confirmation must have had no effect
  (`UnclaimedHasNoEffect`), and no blind update may bring a confirmation back to
  pending (`WritesAreFinal`: what a handler is about to write). A confirmation
  being created is known to one handler only (`FreshIds`). For the permission,
  `OwnerRechecked` carries the recheck from `Recheck` to `Execute`; no grant of that process can
  change in between because its handlers run one at a time. The recheck reads the cache, so
  `CacheIsCurrent` says that a remembered decision is the one the grants demand, unless
  their last change could not clear it. All this is `EffectInv`;
  `IInv` adds that an executing confirmation has a handler about to settle it
  (`ExecutingIsHeld`), and only one (`OneSettler`), so that no second one overwrites
  "executed".
- **`AloneInv`.** With one process no handler of another comes in between, so what a
  handler has in hand is what the file says until it writes (`OnTrack`), and the
  rows counted by `Recheck` are the rows `Execute` finds (`CountHolds`, which an outside
  writer would break). The theorems assume `Workers = {w}`, because with two
  processes each of the three is false: see section 6.
- **`VInv`.** A verdict is about a version that existed (`NoneFromTheFuture`); a
  mark made while a thread is about to write was read no later than what the
  thread read (`FlagIsNotNewer`). `VerdictsAdvance` follows with `QInv`'s one check
  per document.
- **`QInv`.** `Take` moves a document from one set to the other. The sum stays the
  same only if the document is pending and not running, which `WorkIsPending`
  says, and `RunningIsHeld` is what makes a document in nobody's hands free.
- **`PatientInv`.** A request that is turned down because the queue is full leaves the
  document skipped; one that is turned down because the document is pending or running
  must leave a check behind that is yet to read it. Pending means submitted
  (`PendingIsSubmitted`); a check that has read an older version may still
  write, but then the main thread is behind it with the next request
  (`StaleWriterIsFollowed`), which `PatientSpec` does not turn down.
- **`CopyInv`.** The chunks and the status are saved apart. What a process is about
  to save decides whether the copy is good, so the invariant speaks of the
  stages `writing` and `confirming`. Any copy may overwrite the file: it is enough that
  every copy is good, whichever wins.
- **`DocInv`, `InformedInv`.** A save cannot take a document from the copy it is made
  from, so a process keeps its own whatever happens to the file. That the next process
  finds it as well needs all running copies and the file to agree on what exists
  (`SameKnowledge`), also when the file is torn and read again, and the queue to hold
  nothing else (`QueuedAreKnown`).
- **`RowInv`.** The delete and the insert of rows are two calls. With one worker
  and no batch the API indexes plain documents only and the worker the others
  only, so nobody comes in between.
- **`CacheInv`.** A decision in a thread's hands is right unless the grants of its
  resource changed since (`ChecksAreTrue`); without threads nothing is left behind
  (`OnlyThreadsRace`). `NothingOvertaken` does the same for threads that are not
  overtaken. `PermissionRequests` inherits it by refinement, and adds
  `ApprovalInv`: an approval under way is of a pending request whose grant is in force.
- **`GInv`.** The state of a diagnosis is what it inherited and what it did
  (`Accumulates`); steps executed and planned stay in the bound (`Bounds`); the
  checkpoint is its state until another diagnosis saves one (`Saved`). `Provenance`
  follows every tool on record to a diagnosis of the session that called it, through the
  checkpoint and what the next one inherits. For termination, `Left` counts three nodes
  for each step that is left, which `Bounds` keeps from running out early.

- **`DInv`.** A review belongs to a contract and is its only one (`Linked`); the
  status of a contract says whether it has run (`Accounted`). The approval an old
  run rested on may have been revised since, hence the history of approvals;
  without revisions the two are one (`SettledInv`). For the
  refinement, a task's review is unique, so the choice in `GateVerdict` is none.
- **`MInv`.** A write that follows a read is judged by what was read. `WritesStillHold`
  says that the read still allows the write as long as nobody else wrote the
  memory, and `ListedIsFound` that a memory of a list already read is among those
  found, unless it was written meanwhile. `RecordsAreReviewed` needs no such
  exception: the records themselves carry the decision, whoever writes them.

Each proof has one step or lemma per action, and below it one per conjunct the
action can disturb.

### Only model-checked

Liveness under fairness (`ExecutingSettles`, `EveryJobEnds`), which is out of the
prover's reach, as is ENABLED. What the two rest on is proved for every instance: there
is a handler or job that owes the outcome (`ExecutingHasAHandler`,
`HandlersKeepDocuments`), nobody else moves it, and each of its steps lowers a measure
(`HandlersOnlyAdvance`, `HandlersFinish`). What is left to TLC is that the next step
is enabled, and that fairness then takes it. Nothing here needs induction over data.
Every other property of a passing run is proved.

Some theorems are about formulas no run lists, because a run would add nothing to the
proof: the conditional ones above, `IdentityIsKept`, `OutcomesAreReplaced`,
`ChangesClearWithoutThreads`, `RequestsOnlySettle`, `OnePending`, `RecordsAreKept`, and the measures. TLC found no
counterexample to them on the instances of section 4 (partly explored where
they have no symmetry) before they were proved.

## 6. Disagreements found

For each, a theorem of section 5 names the cause: with the steps in the last column
taken away, what the run violates holds for every instance (for `HQ_stale`, its safety
core: an indexed document has its verdict or a check on its way).

| Run | What the code does | Cause, by theorem |
|---|---|---|
| `HQ_stale` | `enqueue` drops a request while a check of the document is running (`document_health_check_service.py:441`), though that check may have read the document during its re-indexing. The result stays `waiting_for_indexed_status`. | `TurnsDownLate` (`OnlyLateRefusalsStrand`) |
| `DP_missing` | A running job saves the copy of the metadata it loaded at its start (`knowledge_metadata_store.py:59`) over the file, and erases a document uploaded since; that document's own job then does not find it. | `StoresUnknown` (`OnlyUnknownDocumentsAreLost`) |
| `PR_race` | `check` stores a decision evaluated before a revocation after the cache was invalidated (`permissions/service.py:44`); the stale "allowed" answers later checks. | `Overtakes`, or a listing that raises (`OnlyRacesMislead`) |
| `DG_reuse` | `state.py:70-72` says that the replanner cannot finish before the required tools are covered. `aiops_executed_tools` accumulates in the session's checkpoint, so tools of an earlier diagnosis count (`aiops_service.py:149`). By default all diagnoses of a user share one session. | another diagnosis begun in the session (`OnlySharedSessionsMislead`) |

Three differences have no run of their own.

- `cancel` reads a pending row and overwrites it without a condition
  (`confirmations.py:641`), unlike `confirm`, whose update is conditional. A second
  process on the same file can confirm and execute in between: the row ends
  `cancelled`, and the caller is told so, though the operation ran. With
  `Workers = {w1, w2}` such an overwrite violates `TerminalIsFinal` of `OC_one`;
  one process cannot do it, since its handlers have no await.
  `OutcomesReplacedByLateHandlers` bounds the damage for any number of them: such a
  handler had read the row before it had an outcome, and leaves another outcome.
- A contract the validator denied runs all the same when its risk brought it
  before a reviewer who approved it (`aiops_adapter.py:88`): the denial is tested at line 113
  only for contracts that need no review.
- The comment at `aiops_service.py:70` says that a plan that is empty without a
  response goes back to the replanner, while the code returns END, which yields a
  complete event with an empty report.

Some things that could be wished for are false by what the code openly does, and
are hazards with a note rather than properties: a document accepted for a check
may never be checked (restart, failing save), a contract whose review could not be
stored waits for ever, an approval can be used again and again, an atom extracted
again loses its approval, a status the API
answers may be stale for ever, an upload and a batch at the same time may leave
rows twice, and an executing confirmation whose process died stays so.

## 7. What is not modelled

- **Functions over data**: retrieval and ranking, chunking, SQL validation and
  rewriting, routing, guardrails: no state across calls, and results that depend
  on texts, embeddings or a parser.
- **Choices of a language model** are nondeterministic where a module needs them
  (plans, tool calls, decisions), and the RAG agent consists of little else.
- **Pure I/O and wiring**: audit inserts, file storage, API start, configuration,
  the web client, the MCP servers, the laboratory, evaluations and scripts.
- **Simple state**: tokens and session ownership change in single steps without an
  await; creating users and roles adds nothing to the scopes.
- **Parts of the memory pipeline**: the evidence store appends, guidance and scoring are
  functions; `update_status` has no caller; a runtime context that expires stops contradicting others, which
  `Clash` does not follow; owners do not meet.
- **Not yet**: the connection pool, the session memory store and the MCP client,
  which have real hazards (listed in `PROJECT.json`).

## 8. The plan

Done, in this order: `OperationConfirmation` with its abstract specification,
`HealthCheckQueue`, `DocumentPipeline`, `PermissionCache` and
`PermissionRequests`, `DiagnosisGraph`, `DiagnosisRequests` with `ApprovalGate`,
`MemoryRecords`, each with its proofs; then the causes of the violations and the safety
cores of the liveness properties, as theorems.

Next:

1. `ConnectionPool`: connections taken, returned and broken, the factory that
   raises, waiting with a timeout. Properties: the count covers the open connections;
   a waiter is served or refused.
2. `SessionMemory`: append and archive over two connections. Property: every
   appended message is in the live tail or the archive.
3. `McpClient`: the cached tools and the retries.
4. `DocumentPipeline` with two workers and batches: which of the row properties
   remain, and a bound on duplicates.
5. `MemoryRecords` with several owners and expiring contexts, and the evidence
   store beside it.
