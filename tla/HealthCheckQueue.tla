--------------------------- MODULE HealthCheckQueue ---------------------------
(***************************************************************************)
(* The background queue of post-index health checks                        *)
(* (app/services/document_health_check_service.py).                        *)
(*                                                                         *)
(* The main thread of the API process indexes documents and enqueues a     *)
(* check after each; the threads of a ThreadPoolExecutor run the checks.   *)
(* The threads share the sets of pending and running documents, guarded by *)
(* the queue's lock, and the store of results, guarded by a lock of its    *)
(* own.  A step is the code between two points where another thread can    *)
(* change what the next statement reads.                                   *)
(***************************************************************************)
EXTENDS Naturals, Sequences, FiniteSets

CONSTANTS
  Docs,        \* document ids
  Threads,     \* the threads of the pool (max_concurrent of them)
  MaxQueue,    \* max_queue_size
  Flaggable,   \* documents a user may mark as a false positive
  MaxIndexings,\* bound: how many times documents are indexed
  NoDoc,       \* no document
  NoResult     \* the store holds no result for a document

ASSUME QueueAssumption ==
  /\ IsFiniteSet(Docs) /\ NoDoc \notin Docs
  /\ Flaggable \subseteq Docs
  /\ MaxQueue \in Nat /\ MaxIndexings \in Nat

Verdicts == {"passed", "failed"}

(* A result, the indexing of the document a verdict is about (0: none) and  *)
(* whether a user marked it as a false positive.                            *)
Result == [status : {"pending", "skipped"} \cup Verdicts,
           version : Nat, falsePositive : BOOLEAN]

ASSUME NoResultAssumption == NoResult \notin Result

VARIABLES
  status,     \* "none", "indexing", "indexed" or "index_failed", by document
  indexings,  \* how many indexings have finished
  version,    \* the number of the last one, by document (0: none)
  results,    \* the health store
  pending,    \* _pending_doc_ids
  running,    \* _running_doc_ids
  work,       \* documents submitted to the pool and not yet taken
  main,       \* what the main thread does next, and for which document
  thread      \* the same for each thread of the pool

vars == <<status, indexings, version, results, pending, running, work, main, thread>>

MainStages == {"idle", "index", "enqueue", "skip", "mark", "submit", "flag"}
Stages == {"idle", "read", "diagnose", "write", "rewrite", "finish"}

Idle == [stage |-> "idle", doc |-> NoDoc, seen |-> NoResult]

TypeOK ==
  /\ status \in [Docs -> {"none", "indexing", "indexed", "index_failed"}]
  /\ indexings \in Nat
  /\ version \in [Docs -> Nat]
  /\ results \in [Docs -> Result \cup {NoResult}]
  /\ pending \subseteq Docs /\ running \subseteq Docs
  /\ work \in Seq(Docs)
  /\ main \in [stage : MainStages, doc : Docs \cup {NoDoc}, seen : Result \cup {NoResult}]
  /\ main.stage # "idle" => main.doc \in Docs
  /\ main.stage = "flag" => main.seen \in Result
  /\ thread \in [Threads -> [stage : Stages, doc : Docs \cup {NoDoc},
                             seen : Result \cup {NoResult}]]
  /\ \A t \in Threads :
       /\ thread[t].stage # "idle" => thread[t].doc \in Docs
       /\ thread[t].stage \in {"write", "rewrite"} => thread[t].seen \in Result

Init ==
  /\ status = [d \in Docs |-> "none"]
  /\ indexings = 0
  /\ version = [d \in Docs |-> 0]
  /\ results = [d \in Docs |-> NoResult]
  /\ pending = {} /\ running = {} /\ work = <<>>
  /\ main = Idle
  /\ thread = [t \in Threads |-> Idle]
-----------------------------------------------------------------------------
Fresh(s, v) == [status |-> s, version |-> v, falsePositive |-> FALSE]

Upsert(d, r) == results' = [results EXCEPT ![d] = r]

Outstanding == Cardinality(pending) + Cardinality(running)

(* mark_skipped runs inside the queue's lock when the queue is full.        *)
Unlocked == main.stage # "skip"

Then(stage, d, r) == main' = [stage |-> stage, doc |-> d, seen |-> r]

(* index_document_record, seen from the queue: the document leaves the      *)
(* indexed status, old rows go, new ones come, and it is indexed again; or  *)
(* the indexing fails.                                                      *)
StartIndex(d) ==
  /\ main.stage = "idle" /\ indexings < MaxIndexings
  /\ status' = [status EXCEPT ![d] = "indexing"]
  /\ Then("index", d, NoResult)
  /\ UNCHANGED <<indexings, version, results, pending, running, work, thread>>

FailIndex ==
  /\ main.stage = "index"
  /\ status' = [status EXCEPT ![main.doc] = "index_failed"]
  /\ main' = Idle
  /\ UNCHANGED <<indexings, version, results, pending, running, work, thread>>

FinishIndex ==
  /\ main.stage = "index"
  /\ status' = [status EXCEPT ![main.doc] = "indexed"]
  /\ indexings' = indexings + 1
  /\ version' = [version EXCEPT ![main.doc] = indexings + 1]
  /\ Then("enqueue", main.doc, NoResult)
  /\ UNCHANGED <<results, pending, running, work, thread>>

(* Mutants: only the pending checks count; a running check is forgotten.    *)
IsFullOfPending == Cardinality(pending) >= MaxQueue
IsQueued(d) == d \in pending

(* enqueue, inside the lock.                                                *)
IsFull == Outstanding >= MaxQueue
IsOutstanding(d) == d \in pending \cup running

EnqueueFull ==
  /\ main.stage = "enqueue" /\ IsFull
  /\ Then("skip", main.doc, results[main.doc])
  /\ UNCHANGED <<status, indexings, version, results, pending, running, work, thread>>

EnqueueAgain ==
  /\ main.stage = "enqueue" /\ ~IsFull
  /\ IsOutstanding(main.doc)
  /\ main' = Idle
  /\ UNCHANGED <<status, indexings, version, results, pending, running, work, thread>>

Accept ==
  /\ main.stage = "enqueue" /\ ~IsFull
  /\ ~IsOutstanding(main.doc)
  /\ pending' = pending \cup {main.doc}
  /\ Then("mark", main.doc, NoResult)
  /\ UNCHANGED <<status, indexings, version, results, running, work, thread>>

(* mark_skipped keeps the mark it read; it then leaves the lock.            *)
Skip ==
  /\ main.stage = "skip"
  /\ Upsert(main.doc, [status |-> "skipped", version |-> 0,
                       falsePositive |-> main.seen # NoResult /\ main.seen.falsePositive])
  /\ main' = Idle
  /\ UNCHANGED <<status, indexings, version, pending, running, work, thread>>

(* mark_pending, outside the lock.  If saving the file fails, the result is *)
(* in memory all the same, enqueue returns False and the document stays     *)
(* pending although nothing was submitted.                                  *)
MarkPending ==
  /\ main.stage = "mark"
  /\ Upsert(main.doc, Fresh("pending", 0))
  /\ Then("submit", main.doc, NoResult)
  /\ UNCHANGED <<status, indexings, version, pending, running, work, thread>>

MarkPendingRaises ==
  /\ main.stage = "mark"
  /\ Upsert(main.doc, Fresh("pending", 0))
  /\ main' = Idle
  /\ UNCHANGED <<status, indexings, version, pending, running, work, thread>>

Submit ==
  /\ main.stage = "submit"
  /\ work' = Append(work, main.doc)
  /\ main' = Idle
  /\ UNCHANGED <<status, indexings, version, results, pending, running, thread>>

(* mark_false_positive reads a result and writes it back with the mark.     *)
ReadToFlag(d) ==
  /\ main.stage = "idle" /\ d \in Flaggable /\ status[d] # "none"
  /\ Then("flag", d, IF results[d] = NoResult THEN Fresh("skipped", 0) ELSE results[d])
  /\ UNCHANGED <<status, indexings, version, results, pending, running, work, thread>>

Flag ==
  /\ main.stage = "flag"
  /\ Upsert(main.doc, [main.seen EXCEPT !.falsePositive = TRUE])
  /\ main' = Idle
  /\ UNCHANGED <<status, indexings, version, pending, running, work, thread>>
-----------------------------------------------------------------------------
Go(t, stage, r) ==
  thread' = [thread EXCEPT ![t] = [stage |-> stage, doc |-> @.doc, seen |-> r]]

(* Mutant: the document is not taken out of the pending set.                *)
TakeAndKeep(t) ==
  /\ thread[t].stage = "idle" /\ work # <<>> /\ Unlocked
  /\ work' = Tail(work)
  /\ running' = running \cup {Head(work)}
  /\ thread' = [thread EXCEPT ![t] = [stage |-> "read", doc |-> Head(work), seen |-> NoResult]]
  /\ UNCHANGED <<status, indexings, version, results, pending, main>>

(* _run: a thread takes the next document and moves it to running.          *)
Take(t) ==
  /\ thread[t].stage = "idle" /\ work # <<>> /\ Unlocked
  /\ work' = Tail(work)
  /\ pending' = pending \ {Head(work)}
  /\ running' = running \cup {Head(work)}
  /\ thread' = [thread EXCEPT ![t] = [stage |-> "read", doc |-> Head(work), seen |-> NoResult]]
  /\ UNCHANGED <<status, indexings, version, results, main>>

(* run_check: a document that is not indexed now stays pending.             *)
ReadDocument(t) ==
  /\ thread[t].stage = "read"
  /\ IF status[thread[t].doc] = "indexed"
       THEN Go(t, "diagnose", NoResult)
       ELSE Go(t, "write", Fresh("pending", 0))
  /\ UNCHANGED <<status, indexings, version, results, pending, running, work, main>>

(* The diagnostics read chunks and vector rows as they are by then; raising *)
(* is a failed verdict too.                                                 *)
Diagnose(t) ==
  /\ thread[t].stage = "diagnose"
  /\ \E s \in Verdicts : Go(t, "write", Fresh(s, version[thread[t].doc]))
  /\ UNCHANGED <<status, indexings, version, results, pending, running, work, main>>

(* upsert; if saving the file raises, _run writes a failed result instead,  *)
(* and gives up when that raises too.                                       *)
Write(t) ==
  /\ thread[t].stage \in {"write", "rewrite"}
  /\ Upsert(thread[t].doc, thread[t].seen)
  /\ \/ Go(t, "finish", NoResult)
     \/ /\ thread[t].stage = "write"
        /\ Go(t, "rewrite", [thread[t].seen EXCEPT !.status = "failed"])
  /\ UNCHANGED <<status, indexings, version, pending, running, work, main>>

Finish(t) ==
  /\ thread[t].stage = "finish" /\ Unlocked
  /\ running' = running \ {thread[t].doc}
  /\ thread' = [thread EXCEPT ![t] = Idle]
  /\ UNCHANGED <<status, indexings, version, results, pending, work, main>>

(* The process dies (a worker process does after every job, without waiting *)
(* for its threads); results and documents are on disk, the queue is not.   *)
Restart ==
  /\ pending' = {} /\ running' = {} /\ work' = <<>>
  /\ main' = Idle
  /\ thread' = [t \in Threads |-> Idle]
  /\ UNCHANGED <<status, indexings, version, results>>
-----------------------------------------------------------------------------
MainStep ==
  FailIndex \/ FinishIndex \/ EnqueueFull \/ EnqueueAgain \/ Accept \/ Skip
  \/ MarkPending \/ Submit \/ Flag

ThreadStep(t) == Take(t) \/ ReadDocument(t) \/ Diagnose(t) \/ Write(t) \/ Finish(t)

Request == \E d \in Docs : StartIndex(d) \/ ReadToFlag(d)

NextNoFault == MainStep \/ Request \/ \E t \in Threads : ThreadStep(t)

Next == NextNoFault \/ MarkPendingRaises \/ Restart

Spec == Init /\ [][Next]_vars

(* No thread waits for ever: each lock is held for a bounded time and the   *)
(* calls a check makes have timeouts.                                       *)
FairSpec ==
  Init /\ [][NextNoFault]_vars /\ WF_vars(MainStep) /\ \A t \in Threads : WF_vars(ThreadStep(t))
-----------------------------------------------------------------------------
(* The queue never holds more checks than its limit, whatever enqueues,     *)
(* finishes or raises in between (the limit is tested once, under the       *)
(* lock, and threads move documents from one set to the other).             *)
Bounded == Outstanding <= MaxQueue

(* No document is checked by two threads at once.                           *)
OneCheckPerDoc ==
  \A t, u \in Threads :
    thread[t].stage # "idle" /\ thread[u].stage # "idle" /\ thread[t].doc = thread[u].doc
      => t = u

(* A check never replaces the verdict on a newer version of its document.   *)
VerdictsAdvance ==
  \A t \in Threads :
    LET d == thread[t].doc IN
    thread[t].stage = "write" /\ thread[t].seen.status \in Verdicts /\ results[d] # NoResult
      => results[d].version <= thread[t].seen.version

(* The inductive invariant: what is running is what the threads hold, one   *)
(* document each; what was submitted, or is about to be, is pending, once,  *)
(* and not running.                                                         *)
Submitting == main.stage \in {"mark", "submit"}

RunningIsHeld ==
  /\ \A t \in Threads : thread[t].stage # "idle" => thread[t].doc \in running
  /\ \A d \in running : \E t \in Threads : thread[t].stage # "idle" /\ thread[t].doc = d

WorkIsPending ==
  /\ pending \cap running = {}
  /\ \A i \in 1 .. Len(work) : work[i] \in pending
  /\ \A i, j \in 1 .. Len(work) : work[i] = work[j] => i = j
  /\ Submitting => main.doc \in pending /\ \A i \in 1 .. Len(work) : work[i] # main.doc

QInv == TypeOK /\ Bounded /\ OneCheckPerDoc /\ RunningIsHeld /\ WorkIsPending

(* The invariant VerdictsAdvance rests on: nothing in the store, or on its   *)
(* way there, is about a version that is not indexed yet; and what a thread *)
(* is about to write over a result, or the main thread over a verdict, is   *)
(* not older than what it replaces.                                         *)
NoneFromTheFuture ==
  /\ \A d \in Docs : results[d] # NoResult => results[d].version <= version[d]
  /\ main.stage = "flag" => main.seen.version <= version[main.doc]
  /\ \A t \in Threads :
       thread[t].stage \in {"write", "rewrite"} => thread[t].seen.version <= version[thread[t].doc]

FlagIsNotNewer ==
  \A t \in Threads :
    /\ thread[t].stage = "write" /\ thread[t].seen.status \in Verdicts
    /\ main.stage = "flag" /\ main.doc = thread[t].doc
    => main.seen.version <= thread[t].seen.version

VInv == NoneFromTheFuture /\ FlagIsNotNewer /\ VerdictsAdvance /\ version \in [Docs -> 0 .. indexings]

(* A result that says waiting_for_indexed_status (or that the check is      *)
(* pending) does not stay when the document is indexed.  The code breaks    *)
(* it: enqueue drops the request when a check of the document is running,   *)
(* and that check may have read the document before it was indexed again.   *)
AwaitsVerdict(d) ==
  status[d] = "indexed" /\ results[d] # NoResult /\ results[d].status = "pending"

IndexedGetsVerdict == \A d \in Docs : AwaitsVerdict(d) ~> ~AwaitsVerdict(d)

(* Why it breaks.  The queue turns a request down late when a check of the  *)
(* document is running that has read it already.                            *)
TurnsDownLate ==
  /\ EnqueueFull \/ EnqueueAgain
  /\ \E t \in Threads :
       thread[t].doc = main.doc /\ thread[t].stage \in {"write", "rewrite", "finish"}

(* The same queue without faults, were it to wait for such a check.         *)
PatientSpec == Init /\ [][NextNoFault /\ ~TurnsDownLate]_vars

(* A check that has still to read the document, or has read it as it is.    *)
ChecksNow(t, d) ==
  /\ thread[t].doc = d
  /\ \/ thread[t].stage \in {"read", "diagnose"}
     \/ /\ thread[t].stage \in {"write", "rewrite"}
        /\ thread[t].seen.status \in Verdicts /\ thread[t].seen.version = version[d]

InWork(d) == \E i \in 1 .. Len(work) : work[i] = d

Owed(d) ==
  \/ main.stage \in {"enqueue", "skip", "mark", "submit"} /\ main.doc = d
  \/ InWork(d)
  \/ \E t \in Threads : ChecksNow(t, d)

(* An indexed document for which no check is on its way was skipped, or its *)
(* result is about what was indexed last.                                   *)
CheckedOrOwed ==
  \A d \in Docs :
    status[d] = "indexed" /\ ~Owed(d) =>
      /\ results[d] # NoResult
      /\ \/ results[d].status = "skipped"
         \/ results[d].status \in Verdicts /\ results[d].version = version[d]

(* What is pending will be run, as long as no fault takes it away.          *)
PendingIsSubmitted == \A d \in pending : (Submitting /\ main.doc = d) \/ InWork(d)

(* A check that is about to write what no longer holds has the main thread  *)
(* waiting behind it, with the request for the next one.                    *)
IsStale(t, d) ==
  thread[t].doc = d /\ thread[t].stage \in {"write", "rewrite"} /\ ~ChecksNow(t, d)

StaleWriterIsFollowed ==
  \A t \in Threads, d \in Docs :
    IsStale(t, d) /\ status[d] = "indexed" => main.stage = "enqueue" /\ main.doc = d

PatientInv ==
  /\ main.stage # "flag" /\ PendingIsSubmitted
  /\ StaleWriterIsFollowed /\ CheckedOrOwed
=============================================================================
