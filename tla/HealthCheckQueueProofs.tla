------------------------ MODULE HealthCheckQueueProofs ------------------------
(***************************************************************************)
(* Proofs that the queue of health checks keeps within its limit and never *)
(* checks a document twice at once, for every number of documents and      *)
(* threads.  Take moves a document from one set to the other; the proof    *)
(* needs that a submitted document is pending and not running, which is    *)
(* what QInv adds to the two properties.                                   *)
(***************************************************************************)
EXTENDS HealthCheckQueue, FiniteSetTheorems, TLAPS

LEMMA FiniteSubsets ==
  ASSUME TypeOK
  PROVE  /\ IsFiniteSet(pending) /\ IsFiniteSet(running)
         /\ Cardinality(pending) \in Nat /\ Cardinality(running) \in Nat
<1>1. IsFiniteSet(pending) /\ IsFiniteSet(running)
  BY QueueAssumption, FS_Subset DEF TypeOK
<1> QED
  BY <1>1, FS_CardinalityType

(* Moving an element from one finite set to another that lacks it keeps the *)
(* sum of their sizes.                                                      *)
LEMMA MoveKeepsSum ==
  ASSUME NEW S, NEW T, IsFiniteSet(S), IsFiniteSet(T), NEW x \in S, x \notin T
  PROVE  Cardinality(S \ {x}) + Cardinality(T \cup {x}) = Cardinality(S) + Cardinality(T)
<1>1. Cardinality(S \ {x}) = Cardinality(S) - 1
  BY FS_RemoveElement
<1>2. Cardinality(T \cup {x}) = Cardinality(T) + 1
  BY FS_AddElement
<1>3. Cardinality(S) \in Nat /\ Cardinality(T) \in Nat
  BY FS_CardinalityType
<1> QED
  BY <1>1, <1>2, <1>3

LEMMA RemoveShrinks ==
  ASSUME NEW S, IsFiniteSet(S), NEW x \in S
  PROVE  Cardinality(S) \in Nat /\ Cardinality(S \ {x}) = Cardinality(S) - 1
  BY FS_RemoveElement, FS_CardinalityType

LEMMA FreshIsResult ==
  ASSUME NEW s \in {"pending", "skipped"} \cup Verdicts, NEW v \in Nat
  PROVE  Fresh(s, v) \in Result
  BY DEF Fresh, Result

LEMMA EmptyIsBounded == Cardinality({}) + Cardinality({}) <= MaxQueue
  BY FS_EmptySet, QueueAssumption

LEMMA InitQueue == Init => QInv
<1> SUFFICES ASSUME Init PROVE QInv
  OBVIOUS
<1>1. TypeOK
  BY DEF Init, TypeOK, Idle, MainStages, Stages
<1>2. Bounded
  BY EmptyIsBounded DEF Init, Bounded, Outstanding
<1>3. OneCheckPerDoc /\ RunningIsHeld /\ WorkIsPending
  BY DEF Init, Idle, OneCheckPerDoc, RunningIsHeld, WorkIsPending, Submitting
<1> QED
  BY <1>1, <1>2, <1>3 DEF QInv

(* The steps that touch neither the sets, nor the work, nor which thread    *)
(* holds which document.                                                    *)
LEMMA QuietStep ==
  ASSUME QInv, TypeOK',
         UNCHANGED <<pending, running, work>>,
         \A t \in Threads : /\ thread'[t].doc = thread[t].doc
                            /\ thread'[t].stage = "idle" <=> thread[t].stage = "idle",
         Submitting' => Submitting /\ main'.doc = main.doc
  PROVE  QInv'
<1>1. Bounded'
  BY DEF QInv, Bounded, Outstanding
<1>2. OneCheckPerDoc' /\ RunningIsHeld'
  BY DEF QInv, OneCheckPerDoc, RunningIsHeld
<1>3. WorkIsPending'
  BY DEF QInv, WorkIsPending
<1> QED
  BY <1>1, <1>2, <1>3 DEF QInv

LEMMA MainQuiet ==
  ASSUME QInv,
         \/ \E d \in Docs : StartIndex(d) \/ ReadToFlag(d)
         \/ FailIndex \/ FinishIndex \/ EnqueueFull \/ EnqueueAgain \/ Skip
         \/ MarkPending \/ MarkPendingRaises \/ Flag
  PROVE  QInv'
<1> USE DEF Then, Idle, MainStages
<1>1. TypeOK'
  <2> USE DEF QInv, TypeOK
  <2>1. ASSUME NEW d \in Docs, StartIndex(d) PROVE TypeOK'
    BY <2>1 DEF StartIndex
  <2>2. ASSUME NEW d \in Docs, ReadToFlag(d) PROVE TypeOK'
    BY <2>2, FreshIsResult DEF ReadToFlag
  <2>3. CASE FailIndex
    BY <2>3 DEF FailIndex
  <2>3a. CASE FinishIndex
    <3>1. main.doc \in Docs /\ indexings + 1 \in Nat
      BY <2>3a DEF FinishIndex
    <3> QED
      BY <2>3a, <3>1 DEF FinishIndex
  <2>4. CASE EnqueueFull \/ EnqueueAgain
    BY <2>4 DEF EnqueueFull, EnqueueAgain
  <2>5. CASE Skip
    <3>1. [status |-> "skipped", version |-> 0,
           falsePositive |-> main.seen # NoResult /\ main.seen.falsePositive] \in Result
      BY Zenon DEF Result
    <3> QED
      BY <2>5, <3>1 DEF Skip, Upsert
  <2>6. CASE MarkPending \/ MarkPendingRaises
    <3>1. Fresh("pending", 0) \in Result
      BY FreshIsResult
    <3> QED
      BY <2>6, <3>1 DEF MarkPending, MarkPendingRaises, Upsert
  <2>7. CASE Flag
    <3>1. [main.seen EXCEPT !.falsePositive = TRUE] \in Result
      BY <2>7 DEF Flag, Result
    <3> QED
      BY <2>7, <3>1 DEF Flag, Upsert
  <2> QED
    BY <2>1, <2>2, <2>3, <2>3a, <2>4, <2>5, <2>6, <2>7
<1>2. /\ UNCHANGED <<pending, running, work, thread>>
      /\ Submitting' => Submitting /\ main'.doc = main.doc
  BY DEF QInv, TypeOK, StartIndex, ReadToFlag, FailIndex, FinishIndex, EnqueueFull,
     EnqueueAgain, Skip, MarkPending, MarkPendingRaises, Flag, Submitting
<1> QED
  BY <1>1, <1>2, QuietStep

(* A thread that goes on keeps its document.                                *)
LEMMA GoesOn ==
  ASSUME TypeOK, NEW t \in Threads, thread[t].stage # "idle",
         NEW s \in Stages \ {"idle"}, NEW r \in Result \cup {NoResult},
         s \in {"write", "rewrite"} => r \in Result,
         Go(t, s, r)
  PROVE  /\ thread' \in [Threads -> [stage : Stages, doc : Docs \cup {NoDoc},
                                     seen : Result \cup {NoResult}]]
         /\ \A u \in Threads :
              /\ thread'[u].stage # "idle" => thread'[u].doc \in Docs
              /\ thread'[u].stage \in {"write", "rewrite"} => thread'[u].seen \in Result
              /\ thread'[u].doc = thread[u].doc
              /\ thread'[u].stage = "idle" <=> thread[u].stage = "idle"
<1> DEFINE n == [stage |-> s, doc |-> thread[t].doc, seen |-> r]
<1>1. thread' = [thread EXCEPT ![t] = n]
  BY DEF Go, TypeOK
<1>2. n \in [stage : Stages, doc : Docs \cup {NoDoc}, seen : Result \cup {NoResult}]
  BY DEF TypeOK
<1>3. thread'[t] = n /\ \A u \in Threads \ {t} : thread'[u] = thread[u]
  BY <1>1 DEF TypeOK
<1>4. thread' \in [Threads -> [stage : Stages, doc : Docs \cup {NoDoc},
                              seen : Result \cup {NoResult}]]
  BY <1>1, <1>2 DEF TypeOK
<1>5. n.stage = s /\ n.doc = thread[t].doc /\ n.seen = r /\ thread[t].doc \in Docs
  BY DEF TypeOK
<1> HIDE DEF n
<1>6. \A u \in Threads :
        /\ thread'[u].stage # "idle" => thread'[u].doc \in Docs
        /\ thread'[u].stage \in {"write", "rewrite"} => thread'[u].seen \in Result
        /\ thread'[u].doc = thread[u].doc
        /\ thread'[u].stage = "idle" <=> thread[u].stage = "idle"
  BY <1>3, <1>5 DEF TypeOK
<1> QED
  BY <1>4, <1>6

LEMMA ThreadQuiet ==
  ASSUME QInv, NEW t \in Threads, ReadDocument(t) \/ Diagnose(t) \/ Write(t)
  PROVE  QInv'
<1>1. PICK s \in Stages \ {"idle"}, r \in Result \cup {NoResult} :
        (s \in {"write", "rewrite"} => r \in Result) /\ Go(t, s, r)
  <2>1. CASE ReadDocument(t)
    <3>1. Fresh("pending", 0) \in Result
      BY FreshIsResult
    <3> QED
      BY <2>1, <3>1 DEF ReadDocument, Stages
  <2>2. CASE Diagnose(t)
    <3>1. PICK v \in Verdicts : Go(t, "write", Fresh(v, version[thread[t].doc]))
      BY <2>2 DEF Diagnose
    <3>2. version[thread[t].doc] \in Nat
      BY <2>2 DEF Diagnose, QInv, TypeOK
    <3>3. Fresh(v, version[thread[t].doc]) \in Result
      BY <3>2, FreshIsResult
    <3> QED
      BY <3>1, <3>3 DEF Stages
  <2>3. CASE Write(t)
    <3>1. thread[t].seen \in Result
      BY <2>3 DEF Write, QInv, TypeOK
    <3>2. [thread[t].seen EXCEPT !.status = "failed"] \in Result
      BY <3>1 DEF Result, Verdicts
    <3> QED
      BY <2>3, <3>2 DEF Write, Stages
  <2> QED
    BY <2>1, <2>2, <2>3
<1>2. thread[t].stage # "idle"
  BY DEF ReadDocument, Diagnose, Write
<1>3. /\ thread' \in [Threads -> [stage : Stages, doc : Docs \cup {NoDoc},
                                 seen : Result \cup {NoResult}]]
      /\ \A u \in Threads :
           /\ thread'[u].stage # "idle" => thread'[u].doc \in Docs
           /\ thread'[u].stage \in {"write", "rewrite"} => thread'[u].seen \in Result
           /\ thread'[u].doc = thread[u].doc
           /\ thread'[u].stage = "idle" <=> thread[u].stage = "idle"
  BY <1>1, <1>2, GoesOn DEF QInv
<1>4. /\ UNCHANGED <<status, indexings, version, pending, running, work, main>>
      /\ results' \in [Docs -> Result \cup {NoResult}]
  BY DEF QInv, TypeOK, ReadDocument, Diagnose, Write, Upsert
<1>5. TypeOK'
  BY <1>3, <1>4 DEF QInv, TypeOK
<1> QED
  BY <1>3, <1>4, <1>5, QuietStep DEF Submitting

LEMMA AcceptKeeps ==
  ASSUME QInv, Accept
  PROVE  QInv'
<1> USE DEF QInv, TypeOK, Accept, Then
<1>1. TypeOK'
  BY DEF MainStages
<1>2. Bounded'
  <2>1. Cardinality(pending \cup {main.doc}) = Cardinality(pending) + 1
    BY FiniteSubsets, FS_AddElement DEF IsOutstanding
  <2> QED
    BY <2>1, FiniteSubsets, QueueAssumption DEF Bounded, Outstanding, IsFull
<1>3. OneCheckPerDoc' /\ RunningIsHeld'
  BY DEF OneCheckPerDoc, RunningIsHeld
<1>4. WorkIsPending'
  BY DEF WorkIsPending, IsOutstanding, Submitting
<1> QED
  BY <1>1, <1>2, <1>3, <1>4

LEMMA SubmitKeeps ==
  ASSUME QInv, Submit
  PROVE  QInv'
<1> USE DEF QInv, TypeOK, Submit, Idle
<1>1. TypeOK'
  BY DEF MainStages
<1>2. Bounded' /\ OneCheckPerDoc' /\ RunningIsHeld'
  BY DEF Bounded, Outstanding, OneCheckPerDoc, RunningIsHeld
<1>3. WorkIsPending'
  BY DEF WorkIsPending, Submitting
<1> QED
  BY <1>1, <1>2, <1>3

LEMMA TakeKeeps ==
  ASSUME QInv, NEW t \in Threads, Take(t)
  PROVE  QInv'
<1> DEFINE d == Head(work)
<1> USE DEF QInv, TypeOK, Take
<1>1. /\ d \in pending /\ d \notin running /\ d \in Docs
      /\ Len(work) \in Nat /\ Len(work) > 0 /\ d = work[1]
      /\ Len(Tail(work)) = Len(work) - 1
      /\ \A i \in 1 .. Len(Tail(work)) : Tail(work)[i] = work[i + 1]
  BY DEF WorkIsPending
<1>2. TypeOK'
  BY <1>1 DEF Stages
<1>3. Bounded'
  BY <1>1, FiniteSubsets, MoveKeepsSum DEF Bounded, Outstanding
<1>4. \A u \in Threads : thread[u].stage # "idle" => thread[u].doc # d
  BY <1>1 DEF RunningIsHeld
<1>5. OneCheckPerDoc'
  BY <1>4 DEF OneCheckPerDoc
<1>6. RunningIsHeld'
  BY <1>1 DEF RunningIsHeld
<1>7. WorkIsPending'
  <2>1. \A i \in 1 .. Len(work') : work'[i] \in pending'
    BY <1>1 DEF WorkIsPending
  <2>2. \A i, j \in 1 .. Len(work') : work'[i] = work'[j] => i = j
    BY <1>1 DEF WorkIsPending
  <2>3. Submitting' => main'.doc \in pending' /\ \A i \in 1 .. Len(work') : work'[i] # main'.doc
    BY <1>1 DEF WorkIsPending, Submitting
  <2>4. pending' \cap running' = {}
    BY <1>1 DEF WorkIsPending
  <2> QED
    BY <2>1, <2>2, <2>3, <2>4 DEF WorkIsPending
<1> QED
  BY <1>2, <1>3, <1>5, <1>6, <1>7

LEMMA FinishKeeps ==
  ASSUME QInv, NEW t \in Threads, Finish(t)
  PROVE  QInv'
<1> DEFINE d == thread[t].doc
<1> USE DEF QInv, TypeOK, Finish, Idle
<1>1. d \in running
  BY DEF RunningIsHeld
<1>2. TypeOK'
  BY DEF Stages
<1>3. Bounded'
  <2>1. Cardinality(running \ {d}) = Cardinality(running) - 1
    BY <1>1, FiniteSubsets, RemoveShrinks
  <2> QED
    BY <2>1, FiniteSubsets, QueueAssumption DEF Bounded, Outstanding
<1>4. OneCheckPerDoc'
  BY DEF OneCheckPerDoc
<1>5. RunningIsHeld'
  BY DEF RunningIsHeld, OneCheckPerDoc
<1>6. WorkIsPending'
  BY DEF WorkIsPending, Submitting
<1> QED
  BY <1>2, <1>3, <1>4, <1>5, <1>6

LEMMA RestartKeeps ==
  ASSUME QInv, Restart
  PROVE  QInv'
<1> USE DEF QInv, TypeOK, Restart, Idle
<1>1. TypeOK'
  BY DEF MainStages, Stages
<1>2. Bounded'
  BY EmptyIsBounded DEF Bounded, Outstanding
<1>3. OneCheckPerDoc' /\ RunningIsHeld' /\ WorkIsPending'
  BY DEF OneCheckPerDoc, RunningIsHeld, WorkIsPending, Submitting
<1> QED
  BY <1>1, <1>2, <1>3

LEMMA NextQueue == QInv /\ [Next]_vars => QInv'
<1> SUFFICES ASSUME QInv, [Next]_vars PROVE QInv'
  OBVIOUS
<1>1. CASE MainStep \/ Request \/ MarkPendingRaises
  BY <1>1, MainQuiet, AcceptKeeps, SubmitKeeps DEF MainStep, Request
<1>2. ASSUME NEW t \in Threads, ThreadStep(t) PROVE QInv'
  BY <1>2, ThreadQuiet, TakeKeeps, FinishKeeps DEF ThreadStep
<1>3. CASE UNCHANGED vars
  BY <1>3 DEF vars, QInv, TypeOK, Bounded, Outstanding, OneCheckPerDoc, RunningIsHeld,
              WorkIsPending, Submitting
<1> QED
  BY <1>1, <1>2, <1>3, RestartKeeps DEF Next, NextNoFault

THEOREM QueueInvariance == Spec => []QInv
  BY InitQueue, NextQueue, PTL DEF Spec

(* The queue of health checks never exceeds max_queue_size, whatever is     *)
(* indexed, checked, flagged or restarted meanwhile.                        *)
THEOREM QueueIsBounded == Spec => []Bounded
<1>1. QInv => Bounded
  BY DEF QInv
<1> QED
  BY <1>1, QueueInvariance, PTL

(* No document is checked by two threads at once.                           *)
THEOREM ChecksAreSingle == Spec => []OneCheckPerDoc
<1>1. QInv => OneCheckPerDoc
  BY DEF QInv
<1> QED
  BY <1>1, QueueInvariance, PTL
-----------------------------------------------------------------------------
(* The steps that store nothing and start or end no check's write: versions *)
(* only grow, and the main thread takes up nothing to flag.                 *)
LEMMA VersionsGrow ==
  ASSUME QInv, QInv', VInv, results' = results, version' \in [Docs -> 0 .. indexings'],
         \A d \in Docs : version[d] <= version'[d],
         \A t \in Threads : thread'[t].stage \in {"write", "rewrite"} => thread'[t] = thread[t],
         main'.stage = "flag" => main' = main
  PROVE  VInv'
<1>1. \A d \in Docs : version[d] \in Nat /\ version'[d] \in Nat
                     /\ (results[d] # NoResult => results[d].version \in Nat)
  BY DEF QInv, TypeOK, Result
<1>2. main.stage = "flag" => main.doc \in Docs /\ main.seen.version \in Nat
  BY DEF QInv, TypeOK, Result
<1>3. \A t \in Threads : thread[t].stage \in {"write", "rewrite"} =>
        thread[t].doc \in Docs /\ thread[t].seen.version \in Nat
  BY DEF QInv, TypeOK, Result
<1>4. NoneFromTheFuture'
  BY <1>1, <1>2, <1>3 DEF VInv, NoneFromTheFuture
<1>5. FlagIsNotNewer' /\ VerdictsAdvance'
  BY DEF VInv, FlagIsNotNewer, VerdictsAdvance
<1> QED
  BY <1>4, <1>5 DEF VInv

(* The main thread stores a result no newer than the verdicts on their way. *)
LEMMA MainStores ==
  ASSUME QInv, QInv', VInv, NEW r \in Result, Upsert(main.doc, r), main.doc \in Docs,
         UNCHANGED <<version, indexings, thread>>, main'.stage # "flag",
         r.version <= version[main.doc],
         \A t \in Threads :
           thread[t].stage = "write" /\ thread[t].seen.status \in Verdicts /\ thread[t].doc = main.doc
             => r.version <= thread[t].seen.version
  PROVE  VInv'
<1>1. \A d \in Docs : results'[d] = IF d = main.doc THEN r ELSE results[d]
  BY DEF Upsert, QInv, TypeOK
<1>2. NoneFromTheFuture'
  BY <1>1 DEF VInv, NoneFromTheFuture
<1>3. FlagIsNotNewer'
  BY DEF FlagIsNotNewer
<1>4. VerdictsAdvance'
  <2>1. \A t \in Threads : thread[t].stage = "write" => thread[t].doc \in Docs
    BY DEF QInv, TypeOK
  <2> QED
    BY <2>1, <1>1 DEF VInv, VerdictsAdvance
<1> QED
  BY <1>2, <1>3, <1>4 DEF VInv

LEMMA MainKeepsVersions ==
  ASSUME QInv, QInv', VInv,
         \/ \E d \in Docs : StartIndex(d) \/ ReadToFlag(d)
         \/ FailIndex \/ FinishIndex \/ EnqueueFull \/ EnqueueAgain \/ Accept \/ Skip
         \/ MarkPending \/ MarkPendingRaises \/ Submit \/ Flag
  PROVE  VInv'
<1>1. \A d \in Docs : version[d] \in Nat /\ version[d] <= indexings /\ indexings \in Nat
  BY DEF VInv, QInv, TypeOK
<1>2. ASSUME NEW d \in Docs, ReadToFlag(d) PROVE VInv'
  <2>1. /\ UNCHANGED <<results, version, indexings, thread>> /\ main'.stage = "flag" /\ main'.doc = d
        /\ main'.seen = IF results[d] = NoResult THEN Fresh("skipped", 0) ELSE results[d]
    BY <1>2 DEF ReadToFlag, Then
  <2>2. Fresh("skipped", 0).version = 0
    BY DEF Fresh
  <2>3. NoneFromTheFuture'
    BY <2>1, <2>2, <1>1 DEF VInv, NoneFromTheFuture
  <2>4. \A t \in Threads : thread[t].stage = "write" => thread[t].seen.version \in Nat
    BY DEF QInv, TypeOK, Result
  <2>5. FlagIsNotNewer'
    BY <2>1, <2>2, <2>4 DEF VInv, FlagIsNotNewer, VerdictsAdvance
  <2>6. VerdictsAdvance'
    BY <2>1 DEF VInv, VerdictsAdvance
  <2> QED
    BY <2>1, <2>3, <2>5, <2>6 DEF VInv
<1>3. CASE FinishIndex
  <2>1. /\ results' = results /\ thread' = thread /\ indexings' = indexings + 1
        /\ version' = [version EXCEPT ![main.doc] = indexings + 1] /\ main'.stage = "enqueue"
    BY <1>3 DEF FinishIndex, Then
  <2>2. version' \in [Docs -> 0 .. indexings'] /\ \A d \in Docs : version[d] <= version'[d]
    BY <2>1, <1>1 DEF VInv, QInv, TypeOK
  <2> QED
    BY <2>1, <2>2, VersionsGrow
<1>4. \A t \in Threads : thread[t].stage = "write" => thread[t].seen.version \in Nat
  BY DEF QInv, TypeOK, Result
<1>5. CASE Skip
  <2> DEFINE r == [status |-> "skipped", version |-> 0,
                   falsePositive |-> main.seen # NoResult /\ main.seen.falsePositive]
  <2>1. r \in Result /\ r.version = 0
    BY Zenon DEF Result
  <2>2. /\ Upsert(main.doc, r) /\ main.doc \in Docs /\ main'.stage # "flag"
        /\ UNCHANGED <<version, indexings, thread>>
    BY <1>5 DEF Skip, Idle, QInv, TypeOK
  <2> HIDE DEF r
  <2> QED
    BY <2>1, <2>2, <1>1, <1>4, MainStores
<1>6. CASE MarkPending \/ MarkPendingRaises
  <2>1. Fresh("pending", 0) \in Result /\ Fresh("pending", 0).version = 0
    BY FreshIsResult DEF Fresh
  <2>2. /\ Upsert(main.doc, Fresh("pending", 0)) /\ main.doc \in Docs /\ main'.stage # "flag"
        /\ UNCHANGED <<version, indexings, thread>>
    BY <1>6 DEF MarkPending, MarkPendingRaises, Then, Idle, QInv, TypeOK
  <2> QED
    BY <2>1, <2>2, <1>1, <1>4, MainStores
<1>7. CASE Flag
  <2> DEFINE r == [main.seen EXCEPT !.falsePositive = TRUE]
  <2>1. r \in Result /\ r.version = main.seen.version
    BY <1>7 DEF Flag, QInv, TypeOK, Result
  <2>2. /\ Upsert(main.doc, r) /\ main.doc \in Docs /\ main'.stage # "flag" /\ main.stage = "flag"
        /\ UNCHANGED <<version, indexings, thread>>
    BY <1>7 DEF Flag, Idle, QInv, TypeOK
  <2> HIDE DEF r
  <2>3. r.version <= version[main.doc]
    BY <2>1, <2>2 DEF VInv, NoneFromTheFuture
  <2>4. \A t \in Threads :
          thread[t].stage = "write" /\ thread[t].seen.status \in Verdicts /\ thread[t].doc = main.doc
            => r.version <= thread[t].seen.version
    BY <2>1, <2>2 DEF VInv, FlagIsNotNewer
  <2> QED
    BY <2>1, <2>2, <2>3, <2>4, MainStores
<1>8. CASE (\E d \in Docs : StartIndex(d)) \/ FailIndex \/ EnqueueFull \/ EnqueueAgain \/ Accept \/ Submit
  <2>1. /\ UNCHANGED <<results, version, indexings, thread>> /\ main'.stage # "flag"
    BY <1>8 DEF StartIndex, FailIndex, EnqueueFull, EnqueueAgain, Accept, Submit, Then, Idle
  <2> QED
    BY <2>1, <1>1, VersionsGrow DEF VInv
<1> QED
  BY <1>2, <1>3, <1>5, <1>6, <1>7, <1>8

(* A thread takes a document, reads it, diagnoses it or is done with it.    *)
LEMMA ThreadKeepsVersions ==
  ASSUME QInv, QInv', VInv, NEW t \in Threads, ThreadStep(t)
  PROVE  VInv'
<1>1. \A d \in Docs : version[d] \in Nat
  BY DEF QInv, TypeOK
<1>2. CASE Take(t) \/ Finish(t) \/ (ReadDocument(t) /\ status[thread[t].doc] = "indexed")
  <2>1. /\ UNCHANGED <<results, version, indexings, main>>
        /\ thread'[t].stage \notin {"write", "rewrite"}
        /\ \A u \in Threads \ {t} : thread'[u] = thread[u]
    BY <1>2 DEF Take, Finish, ReadDocument, Go, Idle, QInv, TypeOK
  <2> QED
    BY <2>1, <1>1, VersionsGrow DEF VInv
<1>3. ASSUME NEW r \in Result, thread[t].stage \in {"read", "diagnose"}, Go(t, "write", r),
             UNCHANGED <<results, version, indexings, main>>,
             r.version \in {0, version[thread[t].doc]},
             r.status \in Verdicts => r.version = version[thread[t].doc]
      PROVE  VInv'
  <2>1. /\ thread'[t].stage = "write" /\ thread'[t].seen = r /\ thread'[t].doc = thread[t].doc
        /\ \A u \in Threads \ {t} : thread'[u] = thread[u]
        /\ thread[t].doc \in Docs
    BY <1>3 DEF Go, QInv, TypeOK
  <2>2. NoneFromTheFuture'
    BY <2>1, <1>1, <1>3 DEF VInv, NoneFromTheFuture
  <2>3. FlagIsNotNewer'
    BY <2>1, <1>3 DEF VInv, FlagIsNotNewer, NoneFromTheFuture
  <2>4. VerdictsAdvance'
    BY <2>1, <1>3 DEF VInv, VerdictsAdvance, NoneFromTheFuture
  <2> QED
    BY <2>2, <2>3, <2>4, <1>3 DEF VInv
<1>4. CASE ReadDocument(t) /\ status[thread[t].doc] # "indexed"
  <2>1. Fresh("pending", 0) \in Result /\ Fresh("pending", 0).version = 0
        /\ Fresh("pending", 0).status \notin Verdicts
    BY FreshIsResult DEF Fresh, Verdicts
  <2> QED
    BY <1>3, <1>4, <2>1 DEF ReadDocument
<1>5. CASE Diagnose(t)
  <2>1. PICK v \in Verdicts : Go(t, "write", Fresh(v, version[thread[t].doc]))
    BY <1>5 DEF Diagnose
  <2>2. /\ Fresh(v, version[thread[t].doc]) \in Result
        /\ Fresh(v, version[thread[t].doc]).version = version[thread[t].doc]
    <3>1. version[thread[t].doc] \in Nat
      BY <1>5, <1>1 DEF Diagnose, QInv, TypeOK
    <3> QED
      BY <3>1, FreshIsResult DEF Fresh
  <2> QED
    BY <1>3, <1>5, <2>1, <2>2 DEF Diagnose
<1>6. CASE Write(t)
  <2> DEFINE d == thread[t].doc
             r == thread[t].seen
  <2>1. /\ d \in Docs /\ r \in Result /\ results' = [results EXCEPT ![d] = r]
        /\ UNCHANGED <<version, indexings, main>>
        /\ thread'[t].doc = d /\ thread'[t].stage \in {"finish", "rewrite"}
        /\ thread'[t].stage = "rewrite" => thread'[t].seen = [r EXCEPT !.status = "failed"]
        /\ \A u \in Threads \ {t} : thread'[u] = thread[u]
        /\ thread[t].stage \in {"write", "rewrite"}
    <3>1. /\ thread[t].stage \in {"write", "rewrite"} /\ UNCHANGED <<version, indexings, main>>
          /\ results' = [results EXCEPT ![d] = r]
          /\ Go(t, "finish", NoResult) \/ Go(t, "rewrite", [r EXCEPT !.status = "failed"])
      BY <1>6 DEF Write, Upsert
    <3>2. d \in Docs /\ r \in Result
      BY <3>1 DEF QInv, TypeOK
    <3>3. ASSUME NEW stage, NEW seen, Go(t, stage, seen)
          PROVE  /\ thread'[t].doc = d /\ thread'[t].stage = stage /\ thread'[t].seen = seen
                 /\ \A u \in Threads \ {t} : thread'[u] = thread[u]
      BY <3>3 DEF Go, QInv, TypeOK
    <3> QED
      BY <3>1, <3>2, <3>3
  <2>2. thread'[t].stage = "rewrite" => thread'[t].seen.version = r.version
    BY <2>1 DEF Result
  <2> HIDE DEF d, r
  <2>3. results'[d] = r /\ \A e \in Docs \ {d} : results'[e] = results[e]
    BY <2>1 DEF QInv, TypeOK
  <2>4. r.version <= version[d]
    BY <2>1 DEF VInv, NoneFromTheFuture, d, r
  <2>5. NoneFromTheFuture'
    <3>1. \A e \in Docs : results'[e] # NoResult => results'[e].version <= version'[e]
      BY <2>1, <2>3, <2>4 DEF VInv, NoneFromTheFuture
    <3>2. ASSUME NEW u \in Threads, thread'[u].stage \in {"write", "rewrite"}
          PROVE  thread'[u].seen.version <= version'[thread'[u].doc]
      BY <3>2, <2>1, <2>2, <2>4 DEF VInv, NoneFromTheFuture
    <3> QED
      BY <3>1, <3>2, <2>1 DEF VInv, NoneFromTheFuture
  <2>6. FlagIsNotNewer'
    <3>1. \A u \in Threads : thread'[u].stage = "write" => thread'[u] = thread[u] /\ main' = main
      BY <2>1
    <3> QED
      BY <3>1 DEF VInv, FlagIsNotNewer
  <2>7. VerdictsAdvance'
    <3>1. SUFFICES ASSUME NEW u \in Threads, thread'[u].stage = "write",
                          thread'[u].seen.status \in Verdicts, results'[thread'[u].doc] # NoResult
                   PROVE  results'[thread'[u].doc].version <= thread'[u].seen.version
      BY DEF VerdictsAdvance
    <3>2. u # t /\ thread'[u] = thread[u]
      BY <3>1, <2>1
    <3>3. thread[u].doc \in Docs \ {d}
      BY <3>1, <3>2, <2>1 DEF QInv, TypeOK, OneCheckPerDoc, d
    <3> QED
      BY <3>1, <3>2, <3>3, <2>3 DEF VInv, VerdictsAdvance
  <2> QED
    BY <2>1, <2>5, <2>6, <2>7 DEF VInv
<1> QED
  BY <1>2, <1>4, <1>5, <1>6 DEF ThreadStep

LEMMA NextVersions == QInv /\ QInv' /\ VInv /\ [Next]_vars => VInv'
<1> SUFFICES ASSUME QInv, QInv', VInv, [Next]_vars PROVE VInv'
  OBVIOUS
<1>1. CASE MainStep \/ Request \/ MarkPendingRaises
  BY <1>1, MainKeepsVersions DEF MainStep, Request
<1>2. CASE Restart
  <2>1. \A d \in Docs : version[d] <= version[d]
    BY DEF QInv, TypeOK
  <2> QED
    BY <1>2, <2>1, VersionsGrow DEF Restart, Idle, VInv
<1>3. CASE UNCHANGED vars
  BY <1>3 DEF vars, VInv, NoneFromTheFuture, FlagIsNotNewer, VerdictsAdvance
<1> QED
  BY <1>1, <1>2, <1>3, ThreadKeepsVersions DEF Next, NextNoFault

(* A check never replaces the verdict on a newer version of its document.   *)
THEOREM VerdictsOnlyAdvance == Spec => []VerdictsAdvance
<1>1. Init => VInv
  BY DEF Init, VInv, NoneFromTheFuture, FlagIsNotNewer, VerdictsAdvance, Idle
<1>2. VInv => VerdictsAdvance
  BY DEF VInv
<1> QED
  BY <1>1, <1>2, NextVersions, QueueInvariance, PTL DEF Spec
-----------------------------------------------------------------------------
(* Why a result can stay pending (HQ_stale).  The proofs below are about    *)
(* the queue without faults that does not turn a request down late.         *)

(* What is in the pool's queue after a submission, and before a thread has  *)
(* taken the first.                                                         *)
LEMMA AppendedWork ==
  ASSUME NEW q \in Seq(Docs), NEW x \in Docs, NEW d
  PROVE  (\E i \in 1 .. Len(Append(q, x)) : Append(q, x)[i] = d)
           <=> d = x \/ \E i \in 1 .. Len(q) : q[i] = d
<1>1. /\ Len(q) \in Nat /\ Len(Append(q, x)) = Len(q) + 1
      /\ Append(q, x)[Len(q) + 1] = x
      /\ \A i \in 1 .. Len(q) : Append(q, x)[i] = q[i]
  OBVIOUS
<1>2. \A i \in 1 .. Len(q) + 1 : i \in 1 .. Len(q) \/ i = Len(q) + 1
  BY <1>1
<1> QED
  BY <1>1, <1>2

LEMMA TailOfWork ==
  ASSUME NEW q \in Seq(Docs), q # <<>>, NEW d
  PROVE  (\E i \in 1 .. Len(q) : q[i] = d)
           => d = Head(q) \/ \E i \in 1 .. Len(Tail(q)) : Tail(q)[i] = d
<1>1. /\ Len(q) \in Nat /\ Len(q) > 0 /\ Len(Tail(q)) = Len(q) - 1 /\ Head(q) = q[1]
      /\ \A i \in 1 .. Len(Tail(q)) : Tail(q)[i] = q[i + 1]
  OBVIOUS
<1> SUFFICES ASSUME NEW i \in 1 .. Len(q), q[i] = d, i # 1
             PROVE  \E j \in 1 .. Len(Tail(q)) : Tail(q)[j] = d
  BY <1>1
<1>2. i - 1 \in 1 .. Len(Tail(q)) /\ Tail(q)[i - 1] = q[i]
  BY <1>1
<1> QED
  BY <1>2

(* The types of what the threads hold.                                      *)
LEMMA Holding ==
  ASSUME QInv
  PROVE  /\ \A t \in Threads :
              /\ thread[t].stage \in Stages
              /\ thread[t].stage # "idle" => thread[t].doc \in Docs
              /\ thread[t].stage \in {"write", "rewrite"} => thread[t].seen \in Result
         /\ main.stage # "idle" => main.doc \in Docs
  BY DEF QInv, TypeOK

(* What a check is for a document stays while the thread and the document's *)
(* version do.                                                              *)
LEMMA SameCheck ==
  ASSUME NEW t, NEW d, thread'[t] = thread[t], version'[d] = version[d]
  PROVE  (ChecksNow(t, d)' <=> ChecksNow(t, d)) /\ (IsStale(t, d)' <=> IsStale(t, d))
<1>1. ChecksNow(t, d)' <=> ChecksNow(t, d)
  BY DEF ChecksNow
<1> QED
  BY <1>1 DEF IsStale

(* The main thread begins an indexing.                                      *)
LEMMA PatientStart ==
  ASSUME QInv, PatientInv, NEW d \in Docs, StartIndex(d)
  PROVE  PatientInv'
<1>1. /\ main.stage = "idle" /\ main'.stage = "index"
      /\ UNCHANGED <<version, results, pending, work, thread>>
  BY DEF StartIndex, Then
<1>2. status'[d] = "indexing" /\ \A e \in Docs \ {d} : status'[e] = status[e]
  BY DEF StartIndex, QInv, TypeOK
<1>3. \A t \in Threads, e \in Docs :
        (ChecksNow(t, e)' <=> ChecksNow(t, e)) /\ (IsStale(t, e)' <=> IsStale(t, e))
  BY <1>1, SameCheck
<1>4. \A e \in Docs : InWork(e)' <=> InWork(e)
  BY <1>1 DEF InWork
<1>5. PendingIsSubmitted'
  <2>1. pending \subseteq Docs /\ ~Submitting
    BY <1>1 DEF QInv, TypeOK, Submitting
  <2> QED
    BY <1>1, <1>4, <2>1 DEF PatientInv, PendingIsSubmitted
<1>6. StaleWriterIsFollowed'
  BY <1>1, <1>2, <1>3 DEF PatientInv, StaleWriterIsFollowed
<1>7. \A e \in Docs : Owed(e) => Owed(e)'
  BY <1>1, <1>3, <1>4 DEF Owed
<1>8. CheckedOrOwed'
  BY <1>1, <1>2, <1>7 DEF PatientInv, CheckedOrOwed
<1> QED
  BY <1>1, <1>5, <1>6, <1>8 DEF PatientInv

(* It ends: an indexed document is owed a check by the main thread itself.  *)
LEMMA PatientIndexed ==
  ASSUME QInv, PatientInv, FailIndex \/ FinishIndex
  PROVE  PatientInv'
<1> DEFINE d == main.doc
<1>1. /\ main.stage = "index" /\ main'.stage # "flag" /\ d \in Docs
      /\ UNCHANGED <<results, pending, work, thread>>
  BY Holding DEF FailIndex, FinishIndex, Then, Idle
<1>2. /\ \A e \in Docs \ {d} : status'[e] = status[e] /\ version'[e] = version[e]
      /\ status'[d] = "indexed" => main'.stage = "enqueue" /\ main'.doc = d
  BY <1>1 DEF FailIndex, FinishIndex, Then, QInv, TypeOK
<1> HIDE DEF d
<1>3. \A t \in Threads : \A e \in Docs \ {d} :
        (ChecksNow(t, e)' <=> ChecksNow(t, e)) /\ (IsStale(t, e)' <=> IsStale(t, e))
  BY <1>1, <1>2, SameCheck
<1>4. \A e \in Docs : InWork(e)' <=> InWork(e)
  BY <1>1 DEF InWork
<1>5. PendingIsSubmitted'
  <2>1. pending \subseteq Docs /\ ~Submitting
    BY <1>1 DEF QInv, TypeOK, Submitting
  <2> QED
    BY <1>1, <1>4, <2>1 DEF PatientInv, PendingIsSubmitted
<1>6. StaleWriterIsFollowed'
  <2> SUFFICES ASSUME NEW t \in Threads, NEW e \in Docs, IsStale(t, e)', status'[e] = "indexed"
               PROVE  main'.stage = "enqueue" /\ main'.doc = e
    BY DEF StaleWriterIsFollowed
  <2>1. CASE e = d
    BY <1>2, <2>1
  <2>2. CASE e # d
    BY <1>1, <1>2, <1>3, <2>2 DEF PatientInv, StaleWriterIsFollowed
  <2> QED
    BY <2>1, <2>2
<1>7. \A e \in Docs : status'[e] = "indexed" /\ (e = d \/ Owed(e)) => Owed(e)'
  BY <1>1, <1>2, <1>3, <1>4 DEF Owed
<1>8. CheckedOrOwed'
  <2> SUFFICES ASSUME NEW e \in Docs, status'[e] = "indexed", ~Owed(e)'
               PROVE  /\ results'[e] # NoResult
                      /\ \/ results'[e].status = "skipped"
                         \/ results'[e].status \in Verdicts /\ results'[e].version = version'[e]
    BY DEF CheckedOrOwed
  <2>1. e # d /\ ~Owed(e)
    BY <1>7
  <2> QED
    BY <1>1, <1>2, <2>1 DEF PatientInv, CheckedOrOwed
<1> QED
  BY <1>1, <1>5, <1>6, <1>8 DEF PatientInv

(* The queue turns a request down, because it is full or because a check of *)
(* the document that has not read it yet is on its way.                     *)
LEMMA PatientRefusal ==
  ASSUME QInv, PatientInv, EnqueueFull \/ EnqueueAgain, ~TurnsDownLate
  PROVE  PatientInv'
<1>0. PICK d \in Docs : d = main.doc
  BY Holding DEF EnqueueFull, EnqueueAgain
<1>1. /\ main.stage = "enqueue" /\ main'.stage # "flag" /\ d \in Docs
      /\ UNCHANGED <<status, version, results, pending, work, thread>>
      /\ EnqueueFull => main'.stage = "skip" /\ main'.doc = d
      /\ EnqueueAgain => IsOutstanding(d)
  BY <1>0, Holding DEF EnqueueFull, EnqueueAgain, Then, Idle
<1>2. \A t \in Threads : thread[t].doc = d => thread[t].stage \notin {"write", "rewrite", "finish"}
  BY <1>0 DEF TurnsDownLate
<1>3. \A t \in Threads, e \in Docs :
        (ChecksNow(t, e)' <=> ChecksNow(t, e)) /\ (IsStale(t, e)' <=> IsStale(t, e))
  BY <1>1, SameCheck
<1>4. \A e \in Docs : InWork(e)' <=> InWork(e)
  BY <1>1 DEF InWork
<1>5. ~Submitting /\ pending \subseteq Docs
  BY <1>1 DEF Submitting, QInv, TypeOK
<1>6. PendingIsSubmitted'
  BY <1>1, <1>4, <1>5 DEF PatientInv, PendingIsSubmitted
<1>7. StaleWriterIsFollowed'
  <2> SUFFICES ASSUME NEW t \in Threads, NEW e \in Docs, IsStale(t, e), status[e] = "indexed"
               PROVE  FALSE
    BY <1>1, <1>3 DEF StaleWriterIsFollowed
  <2>1. e # d
    BY <1>2 DEF IsStale
  <2> QED
    BY <1>0, <2>1 DEF PatientInv, StaleWriterIsFollowed
<1>8. EnqueueAgain => InWork(d) \/ \E t \in Threads : ChecksNow(t, d)
  <2>1. CASE d \in pending
    BY <1>5, <2>1 DEF PatientInv, PendingIsSubmitted
  <2>2. CASE d \in running
    <3>1. PICK t \in Threads : thread[t].stage # "idle" /\ thread[t].doc = d
      BY <2>2 DEF QInv, RunningIsHeld
    <3>2. thread[t].stage \in {"read", "diagnose"}
      BY <3>1, <1>2, Holding DEF Stages
    <3> QED
      BY <3>1, <3>2 DEF ChecksNow
  <2> QED
    BY <1>1, <2>1, <2>2 DEF IsOutstanding
<1>9. \A e \in Docs : e = d \/ Owed(e) => Owed(e)'
  <2>1. Owed(d)'
    <3>1. EnqueueFull => Owed(d)'
      BY <1>1 DEF Owed
    <3>2. EnqueueAgain => Owed(d)'
      BY <1>1, <1>3, <1>4, <1>8 DEF Owed
    <3> QED
      BY <3>1, <3>2
  <2>2. ASSUME NEW e \in Docs, e # d, Owed(e) PROVE Owed(e)'
    <3>1. InWork(e) \/ \E t \in Threads : ChecksNow(t, e)
      BY <1>0, <2>2 DEF Owed
    <3> QED
      BY <1>3, <1>4, <3>1 DEF Owed
  <2> QED
    BY <2>1, <2>2
<1>10. CheckedOrOwed'
  <2> SUFFICES ASSUME NEW e \in Docs, status[e] = "indexed", ~Owed(e)'
               PROVE  /\ results[e] # NoResult
                      /\ \/ results[e].status = "skipped"
                         \/ results[e].status \in Verdicts /\ results[e].version = version[e]
    BY <1>1 DEF CheckedOrOwed
  <2> QED
    BY <1>9 DEF PatientInv, CheckedOrOwed
<1> QED
  BY <1>1, <1>6, <1>7, <1>10 DEF PatientInv

(* The main thread accepts a document, stores what it must and submits it.  *)
LEMMA PatientAccept ==
  ASSUME QInv, QInv', PatientInv, Accept \/ Skip \/ MarkPending \/ Submit
  PROVE  PatientInv'
<1>0. PICK d \in Docs : d = main.doc
  BY Holding DEF Accept, Skip, MarkPending, Submit
<1>1. /\ UNCHANGED <<status, version, thread>> /\ main'.stage # "flag"
      /\ main.stage \in {"enqueue", "skip", "mark", "submit"} /\ d \in Docs
      /\ (main'.stage = "idle" /\ (Skip \/ Submit))
         \/ (main'.stage \in {"mark", "submit"} /\ main'.doc = d /\ (Accept \/ MarkPending))
  BY <1>0, Holding DEF Accept, Skip, MarkPending, Submit, Then, Idle
<1>2. \A e \in Docs \ {d} : results'[e] = results[e]
  BY <1>0 DEF Accept, Skip, MarkPending, Submit, Upsert, QInv, TypeOK
<1>3. /\ Accept => pending' = pending \cup {d} /\ ~IsOutstanding(d) /\ main'.stage = "mark"
      /\ ~Accept => pending' = pending /\ main.stage # "enqueue"
  BY <1>0 DEF Accept, Skip, MarkPending, Submit, Then
<1>4. pending \subseteq Docs /\ work \in Seq(Docs)
  BY DEF QInv, TypeOK
<1>5. \A e \in Docs : InWork(e)' <=> InWork(e) \/ (Submit /\ e = d)
  <2>1. CASE Submit
    <3>1. work' = Append(work, d)
      BY <1>0, <2>1 DEF Submit
    <3>2. \A e \in Docs : (\E i \in 1 .. Len(work') : work'[i] = e)
                            <=> e = d \/ \E i \in 1 .. Len(work) : work[i] = e
      BY <1>1, <1>4, <3>1, AppendedWork
    <3> QED
      BY <2>1, <3>2 DEF InWork
  <2>2. CASE ~Submit
    <3>1. work' = work
      BY <2>2 DEF Accept, Skip, MarkPending
    <3> QED
      BY <2>2, <3>1 DEF InWork
  <2> QED
    BY <2>1, <2>2
<1>6. Skip => results'[d] # NoResult /\ results'[d].status = "skipped"
  <2> DEFINE r == [status |-> "skipped", version |-> 0,
                   falsePositive |-> main.seen # NoResult /\ main.seen.falsePositive]
  <2>1. Skip => results'[d] = r
    BY <1>0, <1>1 DEF Skip, Upsert, QInv, TypeOK
  <2>2. Skip => results'[d] # NoResult
    <3>1. r \in Result
      BY Zenon DEF Result
    <3> QED
      BY <2>1, <3>1, NoResultAssumption
  <2> QED
    BY <2>1, <2>2
<1>7. \A t \in Threads, e \in Docs :
        (ChecksNow(t, e)' <=> ChecksNow(t, e)) /\ (IsStale(t, e)' <=> IsStale(t, e))
  BY <1>1, SameCheck
<1>8. PendingIsSubmitted'
  <2> SUFFICES ASSUME NEW e \in pending' PROVE (Submitting' /\ main'.doc = e) \/ InWork(e)'
    BY DEF PendingIsSubmitted
  <2>1. CASE e = d
    <3>1. e \in Docs
      BY <1>1, <2>1
    <3>2. CASE Accept \/ MarkPending
      <4>1. main'.stage \in {"mark", "submit"} /\ main'.doc = d
        BY <1>1, <3>2 DEF Accept, MarkPending, Then
      <4> QED
        BY <2>1, <4>1 DEF Submitting
    <3>3. CASE Submit
      BY <1>5, <2>1, <3>1, <3>3
    <3>4. CASE Skip
      <4>1. ~Submitting /\ e \in pending
        BY <1>3, <3>4 DEF Skip, Accept, Submitting
      <4> QED
        BY <1>5, <3>1, <4>1 DEF PatientInv, PendingIsSubmitted
    <3> QED
      BY <3>2, <3>3, <3>4
  <2>2. CASE e # d
    <3>1. e \in pending /\ e \in Docs
      BY <1>3, <1>4, <2>2
    <3>2. InWork(e)
      BY <1>0, <2>2, <3>1 DEF PatientInv, PendingIsSubmitted
    <3> QED
      BY <1>5, <3>1, <3>2
  <2> QED
    BY <2>1, <2>2
<1>9. StaleWriterIsFollowed'
  <2> SUFFICES ASSUME NEW t \in Threads, NEW e \in Docs, IsStale(t, e), status[e] = "indexed"
               PROVE  FALSE
    BY <1>1, <1>7 DEF StaleWriterIsFollowed
  <2>1. main.stage = "enqueue" /\ e = d
    BY <1>0 DEF PatientInv, StaleWriterIsFollowed
  <2>2. d \in running
    BY <2>1 DEF IsStale, QInv, RunningIsHeld
  <2> QED
    BY <1>3, <2>1, <2>2 DEF IsOutstanding
<1>10. \A e \in Docs \ {d} : Owed(e) => Owed(e)'
  <2> SUFFICES ASSUME NEW e \in Docs \ {d}, Owed(e) PROVE Owed(e)'
    OBVIOUS
  <2>1. InWork(e) \/ \E t \in Threads : ChecksNow(t, e)
    BY <1>0 DEF Owed
  <2> QED
    BY <1>5, <1>7, <2>1 DEF Owed
<1>11. ~Skip => Owed(d)'
  <2>1. CASE Accept \/ MarkPending
    <3>1. main'.stage \in {"mark", "submit"} /\ main'.doc = d
      BY <1>1, <2>1 DEF Accept, MarkPending, Then
    <3> QED
      BY <3>1 DEF Owed
  <2>2. CASE Submit
    BY <1>1, <1>5, <2>2 DEF Owed
  <2> QED
    BY <2>1, <2>2
<1>12. CheckedOrOwed'
  <2> SUFFICES ASSUME NEW e \in Docs, status[e] = "indexed", ~Owed(e)'
               PROVE  /\ results'[e] # NoResult
                      /\ \/ results'[e].status = "skipped"
                         \/ results'[e].status \in Verdicts /\ results'[e].version = version[e]
    BY <1>1 DEF CheckedOrOwed
  <2>1. CASE e = d
    BY <1>6, <1>11, <2>1
  <2>2. CASE e # d
    BY <1>2, <1>10, <2>2 DEF PatientInv, CheckedOrOwed
  <2> QED
    BY <2>1, <2>2
<1> QED
  BY <1>1, <1>8, <1>9, <1>12 DEF PatientInv

(* A thread takes the first document of the queue.                          *)
LEMMA PatientTake ==
  ASSUME QInv, PatientInv, NEW t \in Threads, Take(t)
  PROVE  PatientInv'
<1>0. PICK d \in Docs : d = Head(work)
  BY DEF Take, QInv, TypeOK
<1>1. /\ UNCHANGED <<status, version, results, main>> /\ pending' = pending \ {d}
      /\ thread[t].stage = "idle" /\ work # <<>> /\ work' = Tail(work)
      /\ \A u \in Threads \ {t} : thread'[u] = thread[u]
      /\ thread'[t].stage = "read" /\ thread'[t].doc = d
  BY <1>0 DEF Take, QInv, TypeOK
<1>2. \A u \in Threads \ {t}, e \in Docs :
        (ChecksNow(u, e)' <=> ChecksNow(u, e)) /\ (IsStale(u, e)' <=> IsStale(u, e))
  BY <1>1, SameCheck
<1>3. /\ ChecksNow(t, d)'
      /\ \A e \in Docs : ~ChecksNow(t, e) /\ ~IsStale(t, e)'
  BY <1>1 DEF ChecksNow, IsStale
<1>4. \A e \in Docs : InWork(e) => e = d \/ InWork(e)'
  <2>1. work \in Seq(Docs)
    BY DEF QInv, TypeOK
  <2>2. \A e \in Docs : (\E i \in 1 .. Len(work) : work[i] = e)
                          => e = d \/ \E i \in 1 .. Len(work') : work'[i] = e
    BY <1>0, <1>1, <2>1, TailOfWork
  <2> QED
    BY <2>2 DEF InWork
<1>5. PendingIsSubmitted'
  <2> SUFFICES ASSUME NEW e \in pending' PROVE (Submitting' /\ main'.doc = e) \/ InWork(e)'
    BY DEF PendingIsSubmitted
  <2>1. e \in pending /\ e # d /\ e \in Docs
    BY <1>1 DEF QInv, TypeOK
  <2>2. (Submitting /\ main.doc = e) \/ InWork(e)
    BY <2>1 DEF PatientInv, PendingIsSubmitted
  <2> QED
    BY <1>1, <1>4, <2>1, <2>2 DEF Submitting
<1>6. StaleWriterIsFollowed'
  BY <1>1, <1>2, <1>3 DEF PatientInv, StaleWriterIsFollowed
<1>7. \A e \in Docs : Owed(e) => Owed(e)'
  BY <1>1, <1>2, <1>3, <1>4 DEF Owed
<1>8. CheckedOrOwed'
  BY <1>1, <1>7 DEF PatientInv, CheckedOrOwed
<1> QED
  BY <1>1, <1>5, <1>6, <1>8 DEF PatientInv

(* A thread reads its document, diagnoses it or is done with it: what it    *)
(* then checks or writes about an indexed document holds.                   *)
LEMMA PatientCheck ==
  ASSUME QInv, PatientInv, NEW t \in Threads,
         ReadDocument(t) \/ Diagnose(t) \/ Finish(t)
  PROVE  PatientInv'
<1> DEFINE d == thread[t].doc
<1>1. /\ UNCHANGED <<status, version, results, pending, work, main>> /\ d \in Docs
      /\ \A u \in Threads \ {t} : thread'[u] = thread[u]
      /\ thread[t].stage \in {"read", "diagnose", "finish"}
  BY Holding DEF ReadDocument, Diagnose, Finish, Go, QInv, TypeOK
<1>2. \/ thread'[t].stage = "idle" /\ thread[t].stage = "finish"
      \/ thread'[t].stage = "diagnose" /\ thread'[t].doc = d
      \/ thread'[t].stage = "write" /\ thread'[t].doc = d /\ status[d] # "indexed"
      \/ /\ thread'[t].stage = "write" /\ thread'[t].doc = d
         /\ thread'[t].seen.status \in Verdicts /\ thread'[t].seen.version = version[d]
  <2>1. thread \in [Threads -> [stage : Stages, doc : Docs \cup {NoDoc},
                                seen : Result \cup {NoResult}]]
    BY DEF QInv, TypeOK
  <2>2. CASE ReadDocument(t)
    BY <2>1, <2>2 DEF ReadDocument, Go
  <2>3. CASE Diagnose(t)
    BY <2>1, <2>3 DEF Diagnose, Go, Fresh
  <2>4. CASE Finish(t)
    BY <2>1, <2>4 DEF Finish, Idle
  <2> QED
    BY <2>2, <2>3, <2>4
<1> HIDE DEF d
<1>3. \A u \in Threads \ {t}, e \in Docs :
        (ChecksNow(u, e)' <=> ChecksNow(u, e)) /\ (IsStale(u, e)' <=> IsStale(u, e))
  BY <1>1, SameCheck
<1>4. \A e \in Docs : status[e] = "indexed" => ~IsStale(t, e)'
  BY <1>1, <1>2 DEF IsStale, ChecksNow
<1>5. \A e \in Docs : status[e] = "indexed" /\ ChecksNow(t, e) => ChecksNow(t, e)'
  BY <1>1, <1>2 DEF ChecksNow, d
<1>6. \A e \in Docs : InWork(e)' <=> InWork(e)
  BY <1>1 DEF InWork
<1>7. PendingIsSubmitted'
  <2>1. pending \subseteq Docs
    BY DEF QInv, TypeOK
  <2> QED
    BY <1>1, <1>6, <2>1 DEF PatientInv, PendingIsSubmitted, Submitting
<1>8. StaleWriterIsFollowed'
  BY <1>1, <1>3, <1>4 DEF PatientInv, StaleWriterIsFollowed
<1>9. \A e \in Docs : status[e] = "indexed" /\ Owed(e) => Owed(e)'
  BY <1>1, <1>3, <1>5, <1>6 DEF Owed
<1>10. CheckedOrOwed'
  BY <1>1, <1>9 DEF PatientInv, CheckedOrOwed
<1> QED
  BY <1>1, <1>7, <1>8, <1>10 DEF PatientInv

(* A thread stores a result: the verdict on what was indexed last, or one   *)
(* behind which the main thread waits with the next request.                *)
LEMMA PatientWrite ==
  ASSUME QInv, PatientInv, NEW t \in Threads, Write(t)
  PROVE  PatientInv'
<1> DEFINE d == thread[t].doc
           r == thread[t].seen
<1>1. /\ UNCHANGED <<status, version, pending, work, main>> /\ d \in Docs /\ r \in Result
      /\ results'[d] = r /\ \A e \in Docs \ {d} : results'[e] = results[e]
      /\ \A u \in Threads \ {t} : thread'[u] = thread[u]
      /\ thread[t].stage \in {"write", "rewrite"}
  BY Holding DEF Write, Upsert, Go, QInv, TypeOK
<1>2. /\ thread'[t].doc = d
      /\ \/ thread'[t].stage = "finish"
         \/ thread'[t].stage = "rewrite" /\ thread'[t].seen = [r EXCEPT !.status = "failed"]
  <2>1. thread \in [Threads -> [stage : Stages, doc : Docs \cup {NoDoc},
                                seen : Result \cup {NoResult}]]
    BY DEF QInv, TypeOK
  <2> QED
    BY <2>1 DEF Write, Go
<1>3. thread'[t].stage = "rewrite" =>
        thread'[t].seen.status \in Verdicts /\ thread'[t].seen.version = r.version
  BY <1>1, <1>2 DEF Result, Verdicts
<1>4. ChecksNow(t, d) => r # NoResult /\ r.status \in Verdicts /\ r.version = version[d]
  BY <1>1, NoResultAssumption DEF ChecksNow
<1>5. ~ChecksNow(t, d) => IsStale(t, d)
  BY <1>1 DEF IsStale
<1>6. \A e \in Docs : IsStale(t, e)' => e = d /\ IsStale(t, d)
  BY <1>1, <1>2, <1>3 DEF IsStale, ChecksNow
<1>7. \A e \in Docs \ {d} : ~ChecksNow(t, e)
  BY DEF ChecksNow
<1> HIDE DEF d, r
<1>8. \A u \in Threads \ {t}, e \in Docs :
        (ChecksNow(u, e)' <=> ChecksNow(u, e)) /\ (IsStale(u, e)' <=> IsStale(u, e))
  BY <1>1, SameCheck
<1>9. \A e \in Docs : InWork(e)' <=> InWork(e)
  BY <1>1 DEF InWork
<1>10. PendingIsSubmitted'
  <2>1. pending \subseteq Docs
    BY DEF QInv, TypeOK
  <2> QED
    BY <1>1, <1>9, <2>1 DEF PatientInv, PendingIsSubmitted, Submitting
<1>11. StaleWriterIsFollowed'
  BY <1>1, <1>6, <1>8 DEF PatientInv, StaleWriterIsFollowed
<1>12. \A e \in Docs \ {d} : Owed(e) => Owed(e)'
  BY <1>1, <1>7, <1>8, <1>9 DEF Owed
<1>13. CheckedOrOwed'
  <2> SUFFICES ASSUME NEW e \in Docs, status[e] = "indexed", ~Owed(e)'
               PROVE  /\ results'[e] # NoResult
                      /\ \/ results'[e].status = "skipped"
                         \/ results'[e].status \in Verdicts /\ results'[e].version = version[e]
    BY <1>1 DEF CheckedOrOwed
  <2>1. CASE e # d
    BY <1>1, <1>12, <2>1 DEF PatientInv, CheckedOrOwed
  <2>2. CASE e = d /\ ChecksNow(t, d)
    BY <1>1, <1>4, <2>2
  <2>3. CASE e = d /\ ~ChecksNow(t, d)
    <3>1. main.stage = "enqueue" /\ main.doc = d
      BY <1>1, <1>5, <2>3 DEF PatientInv, StaleWriterIsFollowed
    <3> QED
      BY <1>1, <2>3, <3>1 DEF Owed
  <2> QED
    BY <2>1, <2>2, <2>3
<1> QED
  BY <1>1, <1>10, <1>11, <1>13 DEF PatientInv

LEMMA PatientInvariance ==
  ASSUME Flaggable = {}
  PROVE  PatientSpec => [](QInv /\ PatientInv)
<1>1. Init => PatientInv
  BY DEF Init, Idle, PatientInv, PendingIsSubmitted, StaleWriterIsFollowed, IsStale, CheckedOrOwed
<1>2. QInv /\ PatientInv /\ [NextNoFault /\ ~TurnsDownLate]_vars => QInv' /\ PatientInv'
  <2> SUFFICES ASSUME QInv, PatientInv, [NextNoFault /\ ~TurnsDownLate]_vars
               PROVE  QInv' /\ PatientInv'
    OBVIOUS
  <2>1. QInv'
    BY NextQueue DEF Next
  <2>2. CASE UNCHANGED vars
    BY <2>1, <2>2 DEF vars, PatientInv, PendingIsSubmitted, StaleWriterIsFollowed, IsStale,
       CheckedOrOwed, Owed, ChecksNow, InWork, Submitting
  <2>3. CASE NextNoFault /\ ~TurnsDownLate
    <3>1. ~Flag /\ \A d \in Docs : ~ReadToFlag(d)
      BY DEF Flag, ReadToFlag, PatientInv
    <3> QED
      BY <2>1, <2>3, <3>1, PatientStart, PatientIndexed, PatientRefusal, PatientAccept,
         PatientTake, PatientCheck, PatientWrite
         DEF NextNoFault, MainStep, Request, ThreadStep
  <2> QED
    BY <2>1, <2>2, <2>3
<1> QED
  BY <1>1, <1>2, InitQueue, PTL DEF PatientSpec

(* Without faults and marks of users, a document is indexed without a check *)
(* on its way, a skip, or a verdict about what was indexed last, only where *)
(* the queue has turned a request down while a check was running that had   *)
(* read the document before: this is the one cause of HQ_stale.             *)
THEOREM OnlyLateRefusalsStrand ==
  ASSUME Flaggable = {}
  PROVE  PatientSpec => [](CheckedOrOwed /\ \A d \in Docs : AwaitsVerdict(d) => Owed(d))
<1>1. PatientInv => CheckedOrOwed
  BY DEF PatientInv
<1>2. CheckedOrOwed => \A d \in Docs : AwaitsVerdict(d) => Owed(d)
  BY DEF CheckedOrOwed, AwaitsVerdict, Verdicts
<1> QED
  BY <1>1, <1>2, PatientInvariance, PTL
=============================================================================
