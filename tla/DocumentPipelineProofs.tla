------------------------ MODULE DocumentPipelineProofs ------------------------
(* Theorems of DocumentPipeline, for any set of documents, any number of     *)
(* workers (one, for the rows) and any number of uploads, batches, crashes   *)
(* and failing deletes.                                                      *)
EXTENDS DocumentPipeline, TLAPS

(* What IndexedHasChunks and PlainNeverParsed say of one copy. *)
GoodEntry(d, e) ==
  /\ e.status = "indexed" /\ d \notin Blank => e.chunks
  /\ d \in Plain => e.status \notin ParsedStatus

GoodCopy(copy) == \A d \in Docs : GoodEntry(d, copy[d])

Copies ==
  /\ \A p \in Procs : GoodCopy(mem[p])
  /\ file # Torn => GoodCopy(file)

LEMMA CopiesAreGood ==
  /\ Copies <=> IndexedHasChunks /\ PlainNeverParsed
  /\ Copies' <=> IndexedHasChunks' /\ PlainNeverParsed'
<1>1. \A c : GoodCopy(c) <=> HasChunks(c) /\ \A d \in Plain : c[d].status \notin ParsedStatus
  BY PipelineAssumption DEF GoodCopy, GoodEntry, HasChunks
<1> QED BY <1>1, Zenon DEF Copies, IndexedHasChunks, PlainNeverParsed

LEMMA EntryFacts ==
  /\ Unknown \in Entry /\ Empty \in [Docs -> Entry] /\ GoodCopy(Empty)
  /\ \A e \in Entry, s \in Status :
       LET f == [e EXCEPT !.status = s]
       IN  f \in Entry /\ f.status = s /\ f.chunks = e.chunks
  /\ \A e \in Entry, b \in BOOLEAN :
       LET f == [e EXCEPT !.chunks = b]
       IN  f \in Entry /\ f.status = e.status /\ f.chunks = b
BY DEF Unknown, Empty, Entry, Status, Pending, Indexing, Settled, GoodCopy, GoodEntry, ParsedStatus

(* A good entry keeps a copy good. *)
LEMMA GoodUpdate ==
  ASSUME NEW c \in [Docs -> Entry], NEW d \in Docs, NEW e \in Entry, GoodCopy(c), GoodEntry(d, e)
  PROVE  /\ [c EXCEPT ![d] = e] \in [Docs -> Entry]
         /\ GoodCopy([c EXCEPT ![d] = e])
         /\ [c EXCEPT ![d] = e] # Torn
<1>1. [c EXCEPT ![d] = e] \in [Docs -> Entry] OBVIOUS
<1> QED BY <1>1, TornAssumption DEF GoodCopy

(* What a save does to the copies. *)
LEMMA SaveKeepsCopies ==
  ASSUME TypeOK, Copies, NEW p \in Procs, NEW d \in Docs, NEW e \in Entry,
         GoodEntry(d, e), Save(p, d, e)
  PROVE  /\ mem' \in [Procs -> [Docs -> Entry]] /\ file' \in [Docs -> Entry] \cup {Torn}
         /\ Copies'
         /\ mem'[p][d] = e
         /\ \A q \in Procs : q # p => mem'[q] = mem[q]
<1> DEFINE new == [mem[p] EXCEPT ![d] = e]
<1>1. mem[p] \in [Docs -> Entry] /\ GoodCopy(mem[p]) BY DEF TypeOK, Copies
<1>2. new \in [Docs -> Entry] /\ GoodCopy(new) /\ new # Torn BY <1>1, GoodUpdate
<1>3. file' = new /\ mem' = [mem EXCEPT ![p] = new] BY DEF Save
<1> HIDE DEF new
<1>4. mem' \in [Procs -> [Docs -> Entry]] BY <1>2, <1>3 DEF TypeOK
<1>5. /\ mem'[p] = new
      /\ \A q \in Procs : q # p => mem'[q] = mem[q]
  BY <1>3 DEF TypeOK
<1>6. Copies' BY <1>2, <1>3, <1>5, Zenon DEF Copies
<1>7. new[d] = e BY <1>1 DEF new
<1> QED BY <1>2, <1>3, <1>4, <1>5, <1>6, <1>7

(* What the end of a job process does to the copies. *)
LEMMA ExitKeepsCopies ==
  ASSUME TypeOK, Copies, NEW p \in Procs, NEW how \in Status \cup {"missing", "unreadable", "crashed"},
         Exit(p, how),
         file' \in [Docs -> Entry] \cup {Torn}, file' # Torn => GoodCopy(file')
  PROVE  /\ TypeOK /\ rows' = rows /\ queue' = queue /\ counters' = counters => TypeOK'
         /\ Copies'
<1>1. mem' \in [Procs -> [Docs -> Entry]] BY EntryFacts DEF TypeOK, Exit
<1>2. \A q \in Procs : mem'[q] = mem[q] \/ mem'[q] = Empty BY DEF TypeOK, Exit
<1>3. Copies' BY <1>2, EntryFacts, Zenon DEF Copies
<1>4. ASSUME rows' = rows, queue' = queue, counters' = counters PROVE TypeOK'
  <2>1. stage' \in [Procs -> Stages] /\ stage'[p] = "idle" BY DEF TypeOK, Exit, Stages
  <2>2. doc' \in [Procs -> Docs \cup {NoDoc}] BY DEF TypeOK, Exit
  <2>3. job' \in [Procs -> Jobs \cup {NoDoc}] BY DEF TypeOK, Exit
  <2>4. todo' \in [Procs -> Seq(Docs)] BY DEF TypeOK, Exit
  <2>5. verdict' \in [Docs -> Status \cup {"missing", "unreadable", "crashed"}] BY DEF TypeOK, Exit
  <2>6. \A q \in Procs : stage'[q] \notin {"idle", "down", "scanning"} => doc'[q] \in Docs
    BY DEF TypeOK, Exit
  <2> QED BY <1>1, <1>4, <2>1, <2>2, <2>3, <2>4, <2>5, <2>6 DEF TypeOK, counters
<1> QED BY <1>3, <1>4
-----------------------------------------------------------------------------
(* The invariant of the copies, in the terms of this module. *)
QueueInv == \A i \in DOMAIN queue : queue[i] \notin Plain

HandInv(p) ==
  /\ stage[p] = "writing" => mem[p][doc[p]].status # "indexed"
  /\ stage[p] = "confirming" => doc[p] \in Blank \/ mem[p][doc[p]].chunks
  /\ stage[p] \in {"queueing", "queued"} \cup ParseStages => doc[p] \notin Plain

LEMMA CopyInvParts ==
  /\ CopyInv <=> TypeOK /\ Copies /\ QueueInv /\ \A p \in Procs : HandInv(p)
  /\ CopyInv' <=> TypeOK' /\ Copies' /\ QueueInv' /\ \A p \in Procs : HandInv(p)'
BY CopiesAreGood, Zenon DEF CopyInv, QueueInv, HandInv

Active == Stages \ {"idle", "down", "scanning"}

LEMMA DocInHand ==
  ASSUME TypeOK, NEW p \in Procs, stage[p] \in Active PROVE doc[p] \in Docs /\ mem[p][doc[p]] \in Entry
BY DEF TypeOK, Active

(* A step of p that changes its copy of its document and goes to next. *)
LEMMA StoreStep ==
  ASSUME CopyInv, NEW p \in Procs, stage[p] \in Active, NEW e \in Entry,
         GoodEntry(doc[p], e), Save(p, doc[p], e),
         NEW next \in Active, Goto(p, next),
         rows' = rows, queue' = queue, counters' = counters,
         next = "writing" => e.status # "indexed",
         next = "confirming" => doc[p] \in Blank \/ e.chunks,
         next \in {"queueing", "queued"} \cup ParseStages => doc[p] \notin Plain
  PROVE  CopyInv'
<1>1. TypeOK /\ Copies /\ QueueInv /\ \A q \in Procs : HandInv(q) BY CopyInvParts
<1>2. doc[p] \in Docs BY <1>1, DocInHand
<1>3. /\ mem' \in [Procs -> [Docs -> Entry]] /\ file' \in [Docs -> Entry] \cup {Torn} /\ Copies'
      /\ mem'[p][doc[p]] = e
      /\ \A q \in Procs : q # p => mem'[q] = mem[q]
  BY <1>1, <1>2, SaveKeepsCopies
<1>4. /\ stage' = [stage EXCEPT ![p] = next]
      /\ doc' = doc /\ job' = job /\ todo' = todo /\ verdict' = verdict
  BY DEF Goto
<1>5. stage' \in [Procs -> Stages] /\ stage'[p] = next /\ \A q \in Procs : q # p => stage'[q] = stage[q]
  BY <1>1, <1>4 DEF TypeOK, Active
<1>6. TypeOK' BY <1>1, <1>2, <1>3, <1>4, <1>5 DEF TypeOK, counters
<1>7. QueueInv' BY <1>1 DEF QueueInv
<1>8. ASSUME NEW q \in Procs PROVE HandInv(q)'
  <2>1. CASE q = p BY <1>3, <1>4, <1>5, <2>1 DEF HandInv
  <2>2. CASE q # p BY <1>1, <1>3, <1>4, <1>5, <2>2 DEF HandInv
  <2> QED BY <2>1, <2>2
<1> QED BY <1>3, <1>6, <1>7, <1>8, CopyInvParts

LEMMA StatusStep ==
  ASSUME CopyInv, NEW p \in Procs, stage[p] \in Active, NEW s \in Status, SetStatus(p, s),
         NEW next \in Active, Goto(p, next),
         rows' = rows, queue' = queue, counters' = counters,
         s # "indexed", next # "confirming",
         s \in ParsedStatus => doc[p] \notin Plain,
         next \in {"queueing", "queued"} \cup ParseStages => doc[p] \notin Plain
  PROVE  CopyInv'
<1> DEFINE e == [mem[p][doc[p]] EXCEPT !.status = s]
<1>1. mem[p][doc[p]] \in Entry BY CopyInvParts, DocInHand
<1>2. e \in Entry /\ e.status = s BY <1>1, EntryFacts
<1>3. Save(p, doc[p], e) BY DEF SetStatus
<1>4. GoodEntry(doc[p], e) BY <1>2 DEF GoodEntry
<1> HIDE DEF e
<1> QED BY <1>2, <1>3, <1>4, StoreStep

(* The last save for a document. *)
LEMMA ConcludeStep ==
  ASSUME CopyInv, NEW p \in Procs, stage[p] \in Active, NEW s \in Status, Conclude(p, s),
         rows' = rows, queue' = queue, counters' = counters,
         s = "indexed" => doc[p] \in Blank \/ mem[p][doc[p]].chunks,
         s \in ParsedStatus => doc[p] \notin Plain
  PROVE  CopyInv'
<1>1. TypeOK /\ Copies /\ QueueInv /\ \A q \in Procs : HandInv(q) BY CopyInvParts
<1> DEFINE e == [mem[p][doc[p]] EXCEPT !.status = s]
<1>2. doc[p] \in Docs /\ mem[p][doc[p]] \in Entry BY <1>1, DocInHand
<1>3. e \in Entry /\ e.status = s /\ e.chunks = mem[p][doc[p]].chunks BY <1>2, EntryFacts
<1>4. GoodEntry(doc[p], e) BY <1>3 DEF GoodEntry
<1>5. QueueInv' BY <1>1 DEF QueueInv
<1>6. CASE job[p] \in Docs
  <2>1. file' = [mem[p] EXCEPT ![doc[p]] = e] /\ Exit(p, s) BY <1>6 DEF Conclude
  <2>2. file' \in [Docs -> Entry] /\ GoodCopy(file')
    BY <1>1, <1>2, <1>3, <1>4, <2>1, GoodUpdate DEF TypeOK, Copies
  <2>3. TypeOK' /\ Copies' BY <1>1, <2>1, <2>2, ExitKeepsCopies
  <2>4. ASSUME NEW q \in Procs PROVE HandInv(q)'
    BY <1>1, <2>1 DEF HandInv, TypeOK, Exit, ParseStages
  <2> QED BY <1>5, <2>3, <2>4, CopyInvParts
<1>7. CASE job[p] \notin Docs
  <2>1. /\ Save(p, doc[p], e)
        /\ stage' = [stage EXCEPT ![p] = IF p = Api THEN "idle" ELSE "scanning"]
        /\ doc' = [doc EXCEPT ![p] = NoDoc]
        /\ job' = job /\ todo' = todo /\ verdict' = verdict
    BY <1>7 DEF Conclude, SetStatus
  <2> HIDE DEF e
  <2>2. /\ mem' \in [Procs -> [Docs -> Entry]] /\ file' \in [Docs -> Entry] \cup {Torn} /\ Copies'
        /\ \A q \in Procs : q # p => mem'[q] = mem[q]
    BY <1>1, <1>2, <1>3, <1>4, <2>1, SaveKeepsCopies
  <2>3. /\ stage' \in [Procs -> Stages] /\ stage'[p] \in {"idle", "scanning"}
        /\ \A q \in Procs : q # p => stage'[q] = stage[q] /\ doc'[q] = doc[q]
    BY <1>1, <2>1 DEF TypeOK, Stages
  <2>4. doc' \in [Procs -> Docs \cup {NoDoc}] BY <1>1, <2>1 DEF TypeOK
  <2>5. TypeOK' BY <1>1, <2>1, <2>2, <2>3, <2>4 DEF TypeOK, counters
  <2>6. ASSUME NEW q \in Procs PROVE HandInv(q)'
    BY <1>1, <2>2, <2>3 DEF HandInv, ParseStages
  <2> QED BY <1>5, <2>2, <2>5, <2>6, CopyInvParts
<1> QED BY <1>6, <1>7

(* A job process that ends without a save of its own. *)
LEMMA ExitStep ==
  ASSUME CopyInv, NEW p \in Procs, NEW how \in Status \cup {"missing", "unreadable", "crashed"},
         Exit(p, how), file' \in {file, Torn},
         rows' = rows, queue' = queue, misses' = misses,
         uploads' = uploads, batches' = batches, faults' \in Nat
  PROVE  CopyInv'
<1>1. TypeOK /\ Copies /\ QueueInv /\ \A q \in Procs : HandInv(q) BY CopyInvParts
<1>2. file' \in [Docs -> Entry] \cup {Torn} /\ (file' # Torn => GoodCopy(file'))
  BY <1>1 DEF TypeOK, Copies
<1>3. Copies' BY <1>1, <1>2, ExitKeepsCopies
<1>4. mem' \in [Procs -> [Docs -> Entry]] BY <1>1, EntryFacts DEF TypeOK, Exit
<1>5. /\ stage' \in [Procs -> Stages] /\ doc' \in [Procs -> Docs \cup {NoDoc}]
      /\ job' \in [Procs -> Jobs \cup {NoDoc}] /\ todo' \in [Procs -> Seq(Docs)]
      /\ verdict' \in [Docs -> Status \cup {"missing", "unreadable", "crashed"}]
      /\ \A q \in Procs : stage'[q] \notin {"idle", "down", "scanning"} => doc'[q] \in Docs
  BY <1>1 DEF TypeOK, Exit, Stages
<1>6. TypeOK' BY <1>1, <1>2, <1>4, <1>5 DEF TypeOK
<1>7. QueueInv' BY <1>1 DEF QueueInv
<1>8. ASSUME NEW q \in Procs PROVE HandInv(q)'
  BY <1>1 DEF HandInv, TypeOK, Exit, ParseStages
<1> QED BY <1>3, <1>6, <1>7, <1>8, CopyInvParts
-----------------------------------------------------------------------------
(* Steps that leave the copies alone. *)
LEMMA HandOver ==
  ASSUME CopyInv, NEW p \in Procs, stage[p] \in Active, NEW next \in Active, Goto(p, next),
         mem' = mem, file' = file, rows' \in [Docs -> Nat], misses' \in [Docs -> Nat],
         UNCHANGED <<uploads, batches>>, faults' \in Nat,
         queue' \in Seq(Jobs), \A i \in DOMAIN queue' : queue'[i] \notin Plain,
         next # "writing",
         next = "confirming" => doc[p] \in Blank \/ mem[p][doc[p]].chunks,
         next \in {"queueing", "queued"} \cup ParseStages => doc[p] \notin Plain
  PROVE  CopyInv'
<1>1. TypeOK /\ Copies /\ QueueInv /\ \A q \in Procs : HandInv(q) BY CopyInvParts
<1>2. /\ stage' \in [Procs -> Stages] /\ stage'[p] = next /\ doc' = doc
      /\ \A q \in Procs : q # p => stage'[q] = stage[q]
  BY <1>1 DEF TypeOK, Active, Goto
<1>3. TypeOK'
  <2>1. doc[p] \in Docs BY <1>1, DocInHand
  <2> QED BY <1>1, <1>2, <2>1 DEF TypeOK, Goto
<1>4. Copies' BY <1>1 DEF Copies
<1>5. QueueInv' BY DEF QueueInv
<1>6. ASSUME NEW q \in Procs PROVE HandInv(q)'
  BY <1>1, <1>2 DEF HandInv
<1> QED BY <1>3, <1>4, <1>5, <1>6, CopyInvParts

LEMMA AppendFacts ==
  ASSUME NEW S, NEW s \in Seq(S), NEW x \in S
  PROVE  /\ Append(s, x) \in Seq(S)
         /\ \A i \in DOMAIN Append(s, x) : Append(s, x)[i] = x \/ (i \in DOMAIN s /\ Append(s, x)[i] = s[i])
OBVIOUS

LEMMA TailFacts ==
  ASSUME NEW S, NEW s \in Seq(S), s # <<>>
  PROVE  /\ Tail(s) \in Seq(S) /\ Head(s) \in S
         /\ 1 \in DOMAIN s /\ Head(s) = s[1]
         /\ \A i \in DOMAIN Tail(s) : i + 1 \in DOMAIN s /\ Tail(s)[i] = s[i + 1]
OBVIOUS

LEMMA CopyIngest ==
  ASSUME CopyInv, NEW p \in Procs, stage[p] \in {"idle", "scanning"}, NEW d \in Docs, Ingest(p, d),
         todo' \in [Procs -> Seq(Docs)], uploads' \in Nat, UNCHANGED <<batches, faults, misses>>
  PROVE  CopyInv'
<1> DEFINE e == [mem[p][d] EXCEPT !.status = "uploaded"]
<1>1. TypeOK /\ Copies /\ QueueInv /\ \A q \in Procs : HandInv(q) BY CopyInvParts
<1>2. mem[p][d] \in Entry BY <1>1 DEF TypeOK
<1>3. e \in Entry /\ e.status = "uploaded"
  <2>1. "uploaded" \in Status BY DEF Status
  <2> QED BY <1>2, <2>1, EntryFacts
<1>4. GoodEntry(d, e) BY <1>3 DEF GoodEntry, ParsedStatus
<1>5. Save(p, d, e) BY DEF Ingest
<1> HIDE DEF e
<1>6. /\ mem' \in [Procs -> [Docs -> Entry]] /\ file' \in [Docs -> Entry] \cup {Torn} /\ Copies'
      /\ \A q \in Procs : q # p => mem'[q] = mem[q]
  BY <1>1, <1>3, <1>4, <1>5, SaveKeepsCopies
<1>7. /\ stage' \in [Procs -> Stages]
      /\ stage'[p] = IF d \in Plain THEN "plain" ELSE "queueing"
      /\ doc' \in [Procs -> Docs \cup {NoDoc}] /\ doc'[p] = d
      /\ \A q \in Procs : q # p => stage'[q] = stage[q] /\ doc'[q] = doc[q]
  BY <1>1 DEF TypeOK, Ingest, Stages, IngestStages
<1>8. TypeOK' BY <1>1, <1>6, <1>7 DEF TypeOK, Ingest
<1>9. QueueInv' BY <1>1 DEF QueueInv, Ingest
<1>10. ASSUME NEW q \in Procs PROVE HandInv(q)'
  <2>1. CASE q = p BY <1>7, <2>1 DEF HandInv, ParseStages
  <2>2. CASE q # p BY <1>1, <1>6, <1>7, <2>2 DEF HandInv
  <2> QED BY <2>1, <2>2
<1> QED BY <1>6, <1>8, <1>9, <1>10, CopyInvParts

LEMMA CopyIngestion ==
  ASSUME CopyInv, NEW p \in Procs, Ingestion(p) PROVE CopyInv'
<1> USE DEF Active, Stages, IngestStages, IndexStages, ParseStages, WriteStages, Status, Pending,
            Indexing, Settled, ParsedStatus
<1>1. TypeOK /\ Copies /\ QueueInv /\ \A q \in Procs : HandInv(q) BY CopyInvParts
<1>2. CASE Enqueue(p)
  <2>1. doc[p] \in Docs /\ doc[p] \notin Plain BY <1>1, <1>2, DocInHand DEF Enqueue, HandInv
  <2>2. queue \in Seq(Jobs) /\ doc[p] \in Jobs BY <1>1, <2>1 DEF TypeOK, Jobs
  <2>3. queue' \in Seq(Jobs) /\ \A i \in DOMAIN queue' : queue'[i] \notin Plain
    BY <1>1, <1>2, <2>1, <2>2, AppendFacts DEF Enqueue, QueueInv
  <2>4. rows' \in [Docs -> Nat] /\ misses' \in [Docs -> Nat] /\ UNCHANGED <<uploads, batches>> /\ faults' \in Nat
    BY <1>1, <1>2 DEF TypeOK, Enqueue, counters
  <2> QED BY <1>2, <2>1, <2>3, <2>4, HandOver DEF Enqueue
<1>3. CASE EnqueueFails(p)
  <2>1. doc[p] \notin Plain BY <1>1, <1>3 DEF EnqueueFails, HandInv
  <2> QED BY <1>3, <2>1, ConcludeStep DEF EnqueueFails, counters
<1>4. CASE ConfirmQueued(p) BY <1>4, ConcludeStep DEF ConfirmQueued, counters
<1>5. CASE ConfirmPlain(p) BY <1>5, StatusStep DEF ConfirmPlain, counters
<1> QED BY <1>2, <1>3, <1>4, <1>5 DEF Ingestion

LEMMA CopyIndex ==
  ASSUME CopyInv, NEW p \in Procs, Index(p) PROVE CopyInv'
<1> USE DEF Active, Stages, IngestStages, IndexStages, ParseStages, WriteStages, Status, Pending,
            Indexing, Settled, ParsedStatus
<1>1. TypeOK /\ Copies /\ QueueInv /\ \A q \in Procs : HandInv(q) BY CopyInvParts
<1>2. CASE BeginIndex(p) BY <1>2, StatusStep DEF BeginIndex, counters
<1>3. CASE Chunk(p)
  BY <1>3, StatusStep DEF Chunk, counters
<1>4. CASE DropChunks(p)
  <2> DEFINE e == [mem[p][doc[p]] EXCEPT !.chunks = FALSE]
  <2>1. doc[p] \in Docs /\ mem[p][doc[p]] \in Entry BY <1>1, <1>4, DocInHand DEF DropChunks
  <2>2. mem[p][doc[p]].status # "indexed" BY <1>1, <1>4 DEF DropChunks, HandInv
  <2>3. e \in Entry /\ e.status = mem[p][doc[p]].status /\ e.chunks = FALSE
    BY <2>1, EntryFacts
  <2>4. GoodEntry(doc[p], mem[p][doc[p]]) BY <1>1, <2>1 DEF Copies, GoodCopy
  <2>5. GoodEntry(doc[p], e) BY <2>2, <2>3, <2>4 DEF GoodEntry
  <2>6. CASE mem[p][doc[p]].chunks
    <3>1. Save(p, doc[p], e) BY <1>4, <2>6 DEF DropChunks
    <3> HIDE DEF e
    <3> QED BY <1>4, <2>3, <2>5, <3>1, StoreStep DEF DropChunks, counters
  <2>7. CASE ~mem[p][doc[p]].chunks
    <3>1. mem' = mem /\ file' = file BY <1>4, <2>7 DEF DropChunks
    <3>2. /\ rows' \in [Docs -> Nat] /\ misses' \in [Docs -> Nat]
          /\ UNCHANGED <<uploads, batches>> /\ faults' \in Nat
          /\ queue' \in Seq(Jobs) /\ \A i \in DOMAIN queue' : queue'[i] \notin Plain
      BY <1>1, <1>4 DEF DropChunks, counters, TypeOK, QueueInv
    <3> QED BY <1>4, <3>1, <3>2, HandOver DEF DropChunks
  <2> QED BY <2>6, <2>7
<1>5. CASE DeleteRows(p) \/ DeleteMisses(p)
  <2>1. doc[p] \in Docs BY <1>1, <1>5, DocInHand DEF DeleteRows, DeleteMisses
  <2>2. /\ rows' \in [Docs -> Nat] /\ misses' \in [Docs -> Nat]
        /\ UNCHANGED <<uploads, batches>> /\ faults' \in Nat
        /\ queue' \in Seq(Jobs) /\ \A i \in DOMAIN queue' : queue'[i] \notin Plain
    <3>1. /\ rows \in [Docs -> Nat] /\ misses \in [Docs -> Nat]
          /\ queue \in Seq(Jobs) /\ \A i \in DOMAIN queue : queue[i] \notin Plain
          /\ faults \in Nat
      BY <1>1 DEF TypeOK, QueueInv
    <3>2. CASE DeleteRows(p) BY <2>1, <3>1, <3>2 DEF DeleteRows, counters
    <3>3. CASE DeleteMisses(p) BY <2>1, <3>1, <3>3 DEF DeleteMisses
    <3> QED BY <1>5, <3>2, <3>3
  <2>3. AfterClearing(p) \in {"confirming", "adding"} /\ (AfterClearing(p) = "confirming" => doc[p] \in Blank)
    BY DEF AfterClearing
  <2>4. /\ stage[p] = "clearing" /\ Goto(p, AfterClearing(p)) /\ mem' = mem /\ file' = file
    BY <1>5 DEF DeleteRows, DeleteMisses
  <2> QED BY <2>2, <2>3, <2>4, HandOver
<1>6. CASE AddRows(p)
  <2>1. doc[p] \in Docs BY <1>1, <1>6, DocInHand DEF AddRows
  <2>2. /\ rows' \in [Docs -> Nat] /\ misses' \in [Docs -> Nat]
        /\ UNCHANGED <<uploads, batches>> /\ faults' \in Nat
        /\ queue' \in Seq(Jobs) /\ \A i \in DOMAIN queue' : queue'[i] \notin Plain
    BY <1>1, <1>6, <2>1 DEF AddRows, counters, TypeOK, QueueInv
  <2> QED BY <1>6, <2>2, HandOver DEF AddRows
<1>7. CASE RecordChunks(p)
  <2> DEFINE e == [mem[p][doc[p]] EXCEPT !.chunks = TRUE]
  <2>1. doc[p] \in Docs /\ mem[p][doc[p]] \in Entry BY <1>1, <1>7, DocInHand DEF RecordChunks
  <2>2. e \in Entry /\ e.status = mem[p][doc[p]].status /\ e.chunks = TRUE
    BY <2>1, EntryFacts
  <2>3. GoodEntry(doc[p], mem[p][doc[p]]) BY <1>1, <2>1 DEF Copies, GoodCopy
  <2>4. GoodEntry(doc[p], e) BY <2>2, <2>3 DEF GoodEntry
  <2>5. Save(p, doc[p], e) BY <1>7 DEF RecordChunks
  <2> HIDE DEF e
  <2> QED BY <1>7, <2>2, <2>4, <2>5, StoreStep DEF RecordChunks, counters
<1>8. CASE ConfirmIndexed(p)
  <2>1. doc[p] \in Blank \/ mem[p][doc[p]].chunks BY <1>1, <1>8 DEF ConfirmIndexed, HandInv
  <2> QED BY <1>8, <2>1, ConcludeStep DEF ConfirmIndexed, counters
<1>9. CASE IndexFails(p) BY <1>9, ConcludeStep DEF IndexFails, counters
<1> QED BY <1>2, <1>3, <1>4, <1>5, <1>6, <1>7, <1>8, <1>9 DEF Index

LEMMA CopyWork ==
  ASSUME CopyInv, NEW w \in Workers, Work(w) PROVE CopyInv'
<1> USE DEF Active, Stages, IngestStages, IndexStages, ParseStages, WriteStages, Status, Pending,
            Indexing, Settled, ParsedStatus
<1>1. TypeOK /\ Copies /\ QueueInv /\ \A q \in Procs : HandInv(q) BY CopyInvParts
<1>2. w \in Procs BY DEF Procs
<1>3. CASE StartJob(w)
  <2>1. queue \in Seq(Jobs) /\ queue # <<>> BY <1>1, <1>3 DEF TypeOK, StartJob
  <2>2. /\ queue' \in Seq(Jobs) /\ Head(queue) \in Jobs
        /\ Head(queue) \notin Plain /\ \A i \in DOMAIN queue' : queue'[i] \notin Plain
    BY <1>1, <1>3, <2>1, TailFacts DEF StartJob, QueueInv
  <2>3. file \in [Docs -> Entry] /\ GoodCopy(file) BY <1>1, <1>3 DEF TypeOK, Copies, StartJob
  <2>4. /\ mem' \in [Procs -> [Docs -> Entry]] /\ mem'[w] = file
        /\ \A q \in Procs : q # w => mem'[q] = mem[q]
    BY <1>1, <1>2, <1>3, <2>3 DEF TypeOK, StartJob
  <2>5. Copies' BY <1>1, <1>3, <2>3, <2>4, Zenon DEF Copies, StartJob
  <2>6. QueueInv' BY <2>2 DEF QueueInv
  <2>7. UNCHANGED <<file, rows, uploads, batches, faults, misses>>
        /\ job' \in [Procs -> Jobs \cup {NoDoc}]
    BY <1>1, <1>3, <2>2 DEF StartJob, counters, TypeOK
  <2>8. CASE Head(queue) = BatchJob
    <3>1. /\ stage' = [stage EXCEPT ![w] = "scanning"] /\ todo' = [todo EXCEPT ![w] = Directory]
          /\ doc' = doc /\ verdict' = verdict
      BY <1>3, <2>8 DEF StartJob
    <3>2. todo' \in [Procs -> Seq(Docs)] BY <1>1, <3>1, PipelineAssumption DEF TypeOK
    <3>3. stage' \in [Procs -> Stages] /\ stage'[w] = "scanning"
          /\ \A q \in Procs : q # w => stage'[q] = stage[q]
      BY <1>1, <1>2, <3>1 DEF TypeOK
    <3>4. TypeOK' BY <1>1, <2>2, <2>4, <2>7, <3>1, <3>2, <3>3 DEF TypeOK
    <3>5. ASSUME NEW q \in Procs PROVE HandInv(q)' BY <1>1, <2>4, <3>1, <3>3 DEF HandInv
    <3> QED BY <2>5, <2>6, <3>4, <3>5, CopyInvParts
  <2>9. CASE Head(queue) # BatchJob
    <3>1. /\ stage' = [stage EXCEPT ![w] = "loaded"] /\ doc' = [doc EXCEPT ![w] = Head(queue)]
          /\ verdict' = [verdict EXCEPT ![Head(queue)] = "none"] /\ todo' = todo
      BY <1>3, <2>9 DEF StartJob
    <3>2. Head(queue) \in Docs BY <2>2, <2>9 DEF Jobs
    <3>3. /\ stage' \in [Procs -> Stages] /\ stage'[w] = "loaded"
          /\ doc' \in [Procs -> Docs \cup {NoDoc}] /\ doc'[w] = Head(queue)
          /\ \A q \in Procs : q # w => stage'[q] = stage[q] /\ doc'[q] = doc[q]
      BY <1>1, <1>2, <3>1, <3>2 DEF TypeOK
    <3>4. verdict' \in [Docs -> Status \cup {"missing", "unreadable", "crashed"}]
      BY <1>1, <3>1 DEF TypeOK
    <3>5. TypeOK' BY <1>1, <2>2, <2>4, <2>7, <3>1, <3>2, <3>3, <3>4 DEF TypeOK
    <3>6. ASSUME NEW q \in Procs PROVE HandInv(q)'
      <4>1. CASE q = w BY <2>2, <3>3, <4>1 DEF HandInv
      <4>2. CASE q # w BY <1>1, <2>4, <3>3, <4>2 DEF HandInv
      <4> QED BY <4>1, <4>2
    <3> QED BY <2>5, <2>6, <3>5, <3>6, CopyInvParts
  <2> QED BY <2>8, <2>9
<1>4. CASE StartFails(w)
  <2>1. queue \in Seq(Jobs) /\ queue # <<>> BY <1>1, <1>4 DEF TypeOK, StartFails
  <2>2. queue' \in Seq(Jobs) /\ \A i \in DOMAIN queue' : queue'[i] \notin Plain
    BY <1>1, <1>4, <2>1, TailFacts DEF StartFails, QueueInv
  <2>3. UNCHANGED <<mem, file, rows, stage, doc, job, todo, uploads, batches, faults, misses>>
    BY <1>4 DEF StartFails, counters
  <2>4. verdict' \in [Docs -> Status \cup {"missing", "unreadable", "crashed"}]
    BY <1>1, <1>4 DEF StartFails, TypeOK
  <2>5. TypeOK' BY <1>1, <2>2, <2>3, <2>4 DEF TypeOK
  <2>6. Copies' BY <1>1, <2>3 DEF Copies
  <2>7. QueueInv' BY <2>2 DEF QueueInv
  <2>8. \A q \in Procs : HandInv(q)' BY <1>1, <2>3 DEF HandInv
  <2> QED BY <2>5, <2>6, <2>7, <2>8, CopyInvParts
<1>5. CASE ScanNext(w)
  <2>1. todo[w] \in Seq(Docs) /\ todo[w] # <<>> BY <1>1, <1>2, <1>5 DEF TypeOK, ScanNext
  <2>2. Head(todo[w]) \in Docs /\ Tail(todo[w]) \in Seq(Docs) BY <2>1
  <2>3. todo' \in [Procs -> Seq(Docs)] BY <1>1, <1>5, <2>2 DEF ScanNext, TypeOK
  <2>4. uploads' \in Nat /\ UNCHANGED <<batches, faults, misses>>
    BY <1>1, <1>5 DEF ScanNext, counters, TypeOK
  <2> QED BY <1>2, <1>5, <2>2, <2>3, <2>4, CopyIngest DEF ScanNext
<1>6. CASE ScanDone(w)
  <2>1. faults \in Nat BY <1>1 DEF TypeOK
  <2> QED BY <1>2, <1>6, <2>1, ExitStep DEF ScanDone, counters
<1>7. CASE JobMissesDocument(w) \/ SourceMissing(w)
  <2>1. faults \in Nat BY <1>1 DEF TypeOK
  <2>2. CASE JobMissesDocument(w) BY <1>2, <2>1, <2>2, ExitStep DEF JobMissesDocument, counters
  <2>3. CASE SourceMissing(w) BY <1>2, <2>1, <2>3, ExitStep DEF SourceMissing, counters
  <2> QED BY <1>7, <2>2, <2>3
<1>8. CASE BeginParse(w) \/ Parse(w) \/ WriteManifest(w)
  <2>1. doc[w] \notin Plain
    BY <1>1, <1>2, <1>8 DEF HandInv, BeginParse, Parse, WriteManifest
  <2>2. CASE BeginParse(w) BY <1>2, <2>1, <2>2, StatusStep DEF BeginParse, counters
  <2>3. CASE Parse(w) BY <1>2, <2>1, <2>3, StatusStep DEF Parse, counters
  <2>4. CASE WriteManifest(w) BY <1>2, <2>1, <2>4, StatusStep DEF WriteManifest, counters
  <2> QED BY <1>8, <2>2, <2>3, <2>4
<1>9. CASE ParseFails(w) BY <1>2, <1>9, ConcludeStep DEF ParseFails, counters
<1> QED BY <1>3, <1>4, <1>5, <1>6, <1>7, <1>8, <1>9 DEF Work

LEMMA CopyOther ==
  ASSUME CopyInv,
         \/ \E p \in Procs : Crash(p)
         \/ \E d \in Docs : Upload(d) \/ Reconcile(d)
         \/ SubmitBatch \/ StartApi
  PROVE  CopyInv'
<1> USE DEF Active, Stages, IngestStages, IndexStages, ParseStages, WriteStages
<1>1. TypeOK /\ Copies /\ QueueInv /\ \A q \in Procs : HandInv(q) BY CopyInvParts
<1>2. Api \in Procs BY DEF Procs
<1>3. ASSUME NEW p \in Procs, Crash(p) PROVE CopyInv'
  <2>1. file' \in {file, Torn} /\ faults' \in Nat /\ UNCHANGED <<rows, queue, uploads, batches, misses>>
    BY <1>1, <1>3 DEF Crash, TypeOK
  <2>2. CASE p = Api
    <3>1. /\ stage' = [stage EXCEPT ![p] = "down"] /\ doc' = [doc EXCEPT ![p] = NoDoc]
          /\ UNCHANGED <<mem, job, todo, verdict>>
      BY <1>3, <2>2 DEF Crash
    <3>2. TypeOK' BY <1>1, <2>1, <3>1 DEF TypeOK
    <3>3. Copies' BY <1>1, <2>1, <3>1 DEF Copies
    <3>4. QueueInv' BY <1>1, <2>1 DEF QueueInv
    <3>5. \A q \in Procs : HandInv(q)' BY <1>1, <3>1 DEF HandInv, TypeOK
    <3> QED BY <3>2, <3>3, <3>4, <3>5, CopyInvParts
  <2>3. CASE p # Api
    <3>1. Exit(p, "crashed") BY <1>3, <2>3 DEF Crash
    <3> QED BY <2>1, <3>1, ExitStep
  <2> QED BY <2>2, <2>3
<1>4. ASSUME NEW d \in Docs, Upload(d) PROVE CopyInv'
  <2>1. todo' \in [Procs -> Seq(Docs)] /\ uploads' \in Nat /\ UNCHANGED <<batches, faults, misses>>
    BY <1>1, <1>4 DEF Upload, TypeOK
  <2> QED BY <1>2, <1>4, <2>1, CopyIngest DEF Upload
<1>5. ASSUME NEW d \in Docs, Reconcile(d) PROVE CopyInv'
  <2> DEFINE s == IF mem[Api][d].status \in Pending THEN "parse_failed" ELSE "index_failed"
             e == [mem[Api][d] EXCEPT !.status = s]
  <2>1. mem[Api][d] \in Entry BY <1>1, <1>2 DEF TypeOK
  <2>2. s \in Status BY DEF Status, Settled
  <2>3. e \in Entry /\ e.status = s
    <3> HIDE DEF s
    <3> QED BY <2>1, <2>2, EntryFacts
  <2>4. GoodEntry(d, e) BY <2>3 DEF GoodEntry, ParsedStatus
  <2>5. Save(Api, d, e) BY <1>5 DEF Reconcile
  <2> HIDE DEF e
  <2>6. /\ mem' \in [Procs -> [Docs -> Entry]] /\ file' \in [Docs -> Entry] \cup {Torn} /\ Copies'
        /\ \A q \in Procs : q # Api => mem'[q] = mem[q]
    BY <1>1, <1>2, <2>3, <2>4, <2>5, SaveKeepsCopies
  <2>7. /\ stage[Api] = "idle"
        /\ UNCHANGED <<rows, queue, stage, doc, job, todo, verdict, uploads, batches, faults, misses>>
    BY <1>5 DEF Reconcile, counters
  <2>8. TypeOK' BY <1>1, <2>6, <2>7 DEF TypeOK
  <2>9. QueueInv' BY <1>1, <2>7 DEF QueueInv
  <2>10. \A q \in Procs : HandInv(q)' BY <1>1, <2>6, <2>7 DEF HandInv
  <2> QED BY <2>6, <2>8, <2>9, <2>10, CopyInvParts
<1>6. CASE SubmitBatch
  <2>1. BatchJob \notin Plain /\ BatchJob \in Jobs BY PipelineAssumption DEF Jobs
  <2>2. queue \in Seq(Jobs) BY <1>1 DEF TypeOK
  <2>3. queue' \in Seq(Jobs) /\ \A i \in DOMAIN queue' : queue'[i] \notin Plain
    BY <1>1, <1>6, <2>1, <2>2, AppendFacts DEF SubmitBatch, QueueInv
  <2>4. TypeOK' BY <1>1, <1>6, <2>3 DEF TypeOK, SubmitBatch
  <2>5. Copies' BY <1>1, <1>6 DEF Copies, SubmitBatch
  <2>6. QueueInv' BY <2>3 DEF QueueInv
  <2>7. \A q \in Procs : HandInv(q)' BY <1>1, <1>6 DEF HandInv, SubmitBatch
  <2> QED BY <2>4, <2>5, <2>6, <2>7, CopyInvParts
<1>7. CASE StartApi
  <2>1. file \in [Docs -> Entry] /\ GoodCopy(file) BY <1>1, <1>7 DEF TypeOK, Copies, StartApi
  <2>2. /\ mem' \in [Procs -> [Docs -> Entry]] /\ mem'[Api] = file
        /\ \A q \in Procs : q # Api => mem'[q] = mem[q]
    BY <1>1, <1>2, <1>7, <2>1 DEF TypeOK, StartApi
  <2>3. /\ stage' = [stage EXCEPT ![Api] = "idle"]
        /\ UNCHANGED <<file, rows, queue, doc, job, todo, verdict, uploads, batches, faults, misses>>
    BY <1>7 DEF StartApi, counters
  <2>4. Copies' BY <1>1, <2>1, <2>2, <2>3, Zenon DEF Copies
  <2>5. TypeOK' BY <1>1, <2>2, <2>3 DEF TypeOK
  <2>6. QueueInv' BY <1>1, <2>3 DEF QueueInv
  <2>7. \A q \in Procs : HandInv(q)' BY <1>1, <2>2, <2>3 DEF HandInv, TypeOK
  <2> QED BY <2>4, <2>5, <2>6, <2>7, CopyInvParts
<1> QED BY <1>3, <1>4, <1>5, <1>6, <1>7

LEMMA CopyInit == Init => CopyInv
<1> SUFFICES ASSUME Init PROVE CopyInv OBVIOUS
<1>1. TypeOK BY EntryFacts DEF Init, TypeOK, Stages, Status
<1>2. Copies BY EntryFacts DEF Init, Copies
<1>3. QueueInv BY DEF Init, QueueInv
<1>4. \A p \in Procs : HandInv(p) BY DEF Init, HandInv, ParseStages
<1> QED BY <1>1, <1>2, <1>3, <1>4, CopyInvParts

LEMMA CopyNext == CopyInv /\ [Next]_vars => CopyInv'
<1> SUFFICES ASSUME CopyInv, [Next]_vars PROVE CopyInv' OBVIOUS
<1>1. CASE vars' = vars
  <2>1. TypeOK' <=> TypeOK BY <1>1 DEF vars, TypeOK
  <2>2. Copies' <=> Copies BY <1>1 DEF vars, Copies
  <2>3. QueueInv' <=> QueueInv BY <1>1 DEF vars, QueueInv
  <2>4. \A p \in Procs : HandInv(p)' <=> HandInv(p) BY <1>1 DEF vars, HandInv
  <2> QED BY <2>1, <2>2, <2>3, <2>4, CopyInvParts
<1>2. CASE Next
  <2>1. \/ \E p \in Procs : Ingestion(p) \/ Index(p)
        \/ \E w \in Workers : Work(w)
        \/ \E p \in Procs : Crash(p)
        \/ \E d \in Docs : Upload(d) \/ Reconcile(d)
        \/ SubmitBatch \/ StartApi
    BY <1>2, Zenon DEF Next
  <2> QED BY <2>1, CopyIngestion, CopyIndex, CopyWork, CopyOther, Zenon
<1> QED BY <1>1, <1>2

(* The invariant of the copies is inductive. *)
THEOREM CopyInvariance == Spec => []CopyInv
BY CopyInit, CopyNext, PTL DEF Spec

(* The copies stay consistent: in every copy of the metadata store, on disk   *)
(* or in a process, INDEXED documents have their chunks, with any number of   *)
(* workers and batches.                                                       *)
THEOREM CopiesStayConsistent == Spec => []IndexedHasChunks
<1>1. CopyInv => IndexedHasChunks BY DEF CopyInv
<1> QED BY <1>1, CopyInvariance, PTL

(* No copy of the store ever calls a plain-text document parsed.              *)
THEOREM PlainStaysUnparsed == Spec => []PlainNeverParsed
<1>1. CopyInv => PlainNeverParsed BY DEF CopyInv
<1> QED BY <1>1, CopyInvariance, PTL
-----------------------------------------------------------------------------
(* The rows.  One worker and no batches yet: who indexes a document is alone *)
(* with its rows.                                                            *)
Alone == \A v, w \in Workers : v = w

QueuePlain == batches = 0 /\ BatchJob \notin {queue[i] : i \in DOMAIN queue}

ApiHand ==
  /\ stage[Api] \notin ParseStages \cup {"scanning"}
  /\ stage[Api] \in {"plain", "pending"} \cup IndexStages => doc[Api] \in Plain
  /\ job[Api] = NoDoc

WorkerHand(w) ==
  /\ stage[w] \in {"idle"} \cup ParseStages \cup IndexStages
  /\ stage[w] # "idle" => job[w] = doc[w] /\ doc[w] \notin Plain /\ verdict[doc[w]] = "none"

RowHand(p) ==
  /\ stage[p] = "adding" => rows[doc[p]] <= misses[doc[p]]
  /\ stage[p] \in {"recording", "confirming"} => doc[p] \in Blank \/ rows[doc[p]] > 0

PlainVerdict == \A d \in Plain : verdict[d] = "none"

LEMMA RowsAloneParts ==
  /\ RowsAlone <=> /\ CopyInv /\ VerdictHasRows /\ RowsBounded /\ QueuePlain /\ ApiHand /\ PlainVerdict
                   /\ \A w \in Workers : WorkerHand(w)
                   /\ \A p \in Procs : RowHand(p)
  /\ RowsAlone' <=> /\ CopyInv' /\ VerdictHasRows' /\ RowsBounded' /\ QueuePlain' /\ ApiHand' /\ PlainVerdict'
                    /\ \A w \in Workers : WorkerHand(w)'
                    /\ \A p \in Procs : RowHand(p)'
BY Zenon DEF RowsAlone, QueuePlain, ApiHand, WorkerHand, RowHand, PlainVerdict

(* Two processes never index the same document. *)
LEMMA Ownership ==
  ASSUME Alone, RowsAlone, NEW p \in Procs, NEW q \in Procs, p # q,
         stage[p] \in IndexStages, stage[q] \in IndexStages
  PROVE  doc[p] # doc[q]
<1>1. ApiHand /\ \A w \in Workers : WorkerHand(w) BY RowsAloneParts
<1>2. CASE p = Api
  <2>1. q \in Workers BY <1>2 DEF Procs
  <2>2. stage[q] # "idle" BY DEF IndexStages, WriteStages
  <2> QED BY <1>1, <1>2, <2>1, <2>2 DEF ApiHand, WorkerHand
<1>3. CASE q = Api
  <2>1. p \in Workers BY <1>3 DEF Procs
  <2>2. stage[p] # "idle" BY DEF IndexStages, WriteStages
  <2> QED BY <1>1, <1>3, <2>1, <2>2 DEF ApiHand, WorkerHand
<1>4. CASE p # Api /\ q # Api BY <1>4 DEF Alone, Procs
<1> QED BY <1>2, <1>3, <1>4

(* A step of p to another stage that leaves the rows alone. *)
LEMMA RowGoto ==
  ASSUME RowsAlone, CopyInv', NEW p \in Procs, stage[p] \in Active, NEW next \in Active, Goto(p, next),
         rows' = rows, misses' = misses, batches' = batches, QueuePlain',
         p = Api => /\ next \notin ParseStages
                    /\ next \in {"plain", "pending"} \cup IndexStages => doc[p] \in Plain,
         p \in Workers => next \in ParseStages \cup IndexStages,
         next # "adding",
         next \in {"recording", "confirming"} => doc[p] \in Blank \/ rows[doc[p]] > 0
  PROVE  RowsAlone'
<1>1. /\ CopyInv /\ VerdictHasRows /\ RowsBounded /\ QueuePlain /\ ApiHand /\ PlainVerdict
      /\ \A w \in Workers : WorkerHand(w)
      /\ \A q \in Procs : RowHand(q)
  BY RowsAloneParts
<1>2. /\ stage'[p] = next /\ doc' = doc /\ job' = job /\ verdict' = verdict
      /\ \A q \in Procs : q # p => stage'[q] = stage[q]
  BY <1>1 DEF Goto, CopyInv, TypeOK
<1>3. VerdictHasRows' /\ RowsBounded' /\ PlainVerdict'
  BY <1>1, <1>2 DEF VerdictHasRows, RowsBounded, PlainVerdict
<1>4. ApiHand'
  <2>1. CASE p = Api BY <1>1, <1>2, <2>1 DEF ApiHand, Active
  <2>2. CASE p # Api BY <1>1, <1>2, <2>2 DEF ApiHand, Procs
  <2> QED BY <2>1, <2>2
<1>5. ASSUME NEW w \in Workers PROVE WorkerHand(w)'
  <2>1. CASE w = p
    <3>1. stage[p] # "idle" BY DEF Active
    <3> QED BY <1>1, <1>2, <2>1, <3>1 DEF WorkerHand
  <2>2. CASE w # p BY <1>1, <1>2, <2>2 DEF WorkerHand, Procs
  <2> QED BY <2>1, <2>2
<1>6. ASSUME NEW q \in Procs PROVE RowHand(q)'
  <2>1. CASE q = p BY <1>1, <1>2, <2>1 DEF RowHand
  <2>2. CASE q # p BY <1>1, <1>2, <2>2 DEF RowHand
  <2> QED BY <2>1, <2>2
<1> QED BY <1>3, <1>4, <1>5, <1>6, RowsAloneParts

(* The end of a job process. *)
LEMMA RowExit ==
  ASSUME Alone, RowsAlone, CopyInv', NEW w \in Workers, NEW how, Exit(w, how),
         rows' = rows, misses' = misses, batches' = batches, queue' = queue,
         stage[w] # "idle",
         how = "indexed" => doc[w] \in Blank \/ rows[doc[w]] > 0
  PROVE  RowsAlone'
<1>1. /\ CopyInv /\ VerdictHasRows /\ RowsBounded /\ QueuePlain /\ ApiHand /\ PlainVerdict
      /\ \A v \in Workers : WorkerHand(v)
      /\ \A q \in Procs : RowHand(q)
  BY RowsAloneParts
<1>2. /\ stage'[w] = "idle"
      /\ \A q \in Procs : q # w => stage'[q] = stage[q] /\ doc'[q] = doc[q] /\ job'[q] = job[q]
      /\ \A d \in Docs : verdict'[d] = IF d = doc[w] THEN how ELSE verdict[d]
  BY <1>1 DEF Exit, CopyInv, TypeOK, WorkerHand, Procs
<1>3. doc[w] \notin Plain BY <1>1 DEF WorkerHand
<1>4. VerdictHasRows' BY <1>1, <1>2 DEF VerdictHasRows
<1>5. RowsBounded' /\ QueuePlain' BY <1>1 DEF RowsBounded, QueuePlain
<1>6. PlainVerdict' BY <1>1, <1>2, <1>3, PipelineAssumption DEF PlainVerdict
<1>7. ApiHand' BY <1>1, <1>2, PipelineAssumption DEF ApiHand, Procs
<1>8. ASSUME NEW v \in Workers PROVE WorkerHand(v)'
  <2>1. v = w BY DEF Alone
  <2> QED BY <1>2, <2>1 DEF WorkerHand
<1>9. ASSUME NEW q \in Procs PROVE RowHand(q)'
  <2>1. CASE q = w BY <1>2, <2>1 DEF RowHand
  <2>2. CASE q # w BY <1>1, <1>2, <2>2 DEF RowHand
  <2> QED BY <2>1, <2>2
<1> QED BY <1>4, <1>5, <1>6, <1>7, <1>8, <1>9, RowsAloneParts

LEMMA RowConclude ==
  ASSUME Alone, RowsAlone, CopyInv', NEW p \in Procs, NEW s, Conclude(p, s),
         rows' = rows, misses' = misses, batches' = batches, queue' = queue,
         stage[p] \in Active,
         s = "indexed" => doc[p] \in Blank \/ rows[doc[p]] > 0
  PROVE  RowsAlone'
<1>1. /\ CopyInv /\ VerdictHasRows /\ RowsBounded /\ QueuePlain /\ ApiHand /\ PlainVerdict
      /\ \A w \in Workers : WorkerHand(w)
      /\ \A q \in Procs : RowHand(q)
  BY RowsAloneParts
<1>2. CASE p = Api
  <2>1. job[p] \notin Docs BY <1>1, <1>2, PipelineAssumption DEF ApiHand, Jobs
  <2>2. /\ stage'[p] = "idle" /\ job' = job /\ verdict' = verdict
        /\ \A q \in Procs : q # p => stage'[q] = stage[q] /\ doc'[q] = doc[q]
    BY <1>1, <1>2, <2>1 DEF Conclude, CopyInv, TypeOK
  <2>3. VerdictHasRows' /\ RowsBounded' /\ PlainVerdict' /\ QueuePlain'
    BY <1>1, <2>2 DEF VerdictHasRows, RowsBounded, PlainVerdict, QueuePlain
  <2>4. ApiHand' BY <1>1, <1>2, <2>2 DEF ApiHand, ParseStages, IndexStages, WriteStages
  <2>5. ASSUME NEW w \in Workers PROVE WorkerHand(w)'
    <3>1. w # Api /\ w \in Procs BY PipelineAssumption DEF Procs
    <3> QED BY <1>1, <1>2, <2>2, <3>1 DEF WorkerHand
  <2>6. ASSUME NEW q \in Procs PROVE RowHand(q)'
    BY <1>1, <2>2 DEF RowHand
  <2> QED BY <2>3, <2>4, <2>5, <2>6, RowsAloneParts
<1>3. CASE p # Api
  <2>1. p \in Workers BY <1>3 DEF Procs
  <2>2. stage[p] # "idle" BY DEF Active
  <2>3. job[p] \in Docs BY <1>1, <2>1, <2>2, DocInHand DEF WorkerHand, CopyInv
  <2>4. Exit(p, s) BY <2>3 DEF Conclude
  <2> QED BY <2>1, <2>2, <2>4, RowExit
<1> QED BY <1>2, <1>3

LEMMA RowIngestion ==
  ASSUME Alone, RowsAlone, CopyInv', NEW p \in Procs, Ingestion(p) PROVE RowsAlone'
<1> USE DEF Active, Stages, IngestStages, IndexStages, ParseStages, WriteStages
<1>1. CopyInv /\ QueuePlain /\ ApiHand /\ \A w \in Workers : WorkerHand(w) BY RowsAloneParts
<1>2. stage[p] \in IngestStages BY DEF Ingestion, Enqueue, EnqueueFails, ConfirmQueued, ConfirmPlain
<1>3. p = Api BY <1>1, <1>2 DEF WorkerHand, Procs
<1>4. doc[p] \in Docs BY <1>1, <1>2, DocInHand DEF CopyInv
<1>5. CASE Enqueue(p)
  <2>1. doc[p] # BatchJob BY <1>4, PipelineAssumption
  <2>2. queue \in Seq(Jobs) /\ doc[p] \in Jobs BY <1>1, <1>4 DEF CopyInv, TypeOK, Jobs
  <2>3. QueuePlain'
    BY <1>1, <1>5, <2>1, <2>2, AppendFacts DEF QueuePlain, Enqueue, counters
  <2> QED BY <1>3, <1>5, <2>3, PipelineAssumption, RowGoto DEF Enqueue, counters
<1>6. CASE EnqueueFails(p) BY <1>6, RowConclude DEF EnqueueFails, counters
<1>7. CASE ConfirmQueued(p) BY <1>7, RowConclude DEF ConfirmQueued, counters
<1>8. CASE ConfirmPlain(p)
  <2>1. QueuePlain' BY <1>1, <1>8 DEF QueuePlain, ConfirmPlain, counters
  <2>2. doc[p] \in Plain BY <1>1, <1>3, <1>8 DEF ApiHand, ConfirmPlain
  <2> QED BY <1>3, <1>8, <2>1, <2>2, PipelineAssumption, RowGoto DEF ConfirmPlain, counters
<1> QED BY <1>5, <1>6, <1>7, <1>8 DEF Ingestion

(* The two steps of an indexing process that change the rows. *)
LEMMA RowDelete ==
  ASSUME Alone, RowsAlone, CopyInv', NEW p \in Procs, DeleteRows(p) \/ DeleteMisses(p) PROVE RowsAlone'
<1> USE DEF Active, Stages, IngestStages, IndexStages, ParseStages, WriteStages
<1>1. /\ CopyInv /\ VerdictHasRows /\ RowsBounded /\ QueuePlain /\ ApiHand /\ PlainVerdict
      /\ \A w \in Workers : WorkerHand(w)
      /\ \A q \in Procs : RowHand(q)
  BY RowsAloneParts
<1>2. stage[p] = "clearing" /\ Goto(p, AfterClearing(p)) /\ queue' = queue /\ batches' = batches
  BY DEF DeleteRows, DeleteMisses, counters
<1>3. /\ stage'[p] = AfterClearing(p) /\ doc' = doc /\ job' = job /\ verdict' = verdict
      /\ \A q \in Procs : q # p => stage'[q] = stage[q]
  BY <1>1, <1>2 DEF Goto, CopyInv, TypeOK
<1>4. AfterClearing(p) \in {"confirming", "adding"} /\ (AfterClearing(p) = "confirming" => doc[p] \in Blank)
  BY DEF AfterClearing
<1>5. doc[p] \in Docs /\ rows \in [Docs -> Nat] /\ misses \in [Docs -> Nat]
  BY <1>1, <1>2, DocInHand DEF CopyInv, TypeOK
<1>6. /\ rows'[doc[p]] <= misses'[doc[p]] /\ rows'[doc[p]] \in Nat /\ misses'[doc[p]] \in Nat
      /\ \A d \in Docs : d # doc[p] => rows'[d] = rows[d] /\ misses'[d] = misses[d]
  <2>1. CASE DeleteRows(p) BY <1>5, <2>1 DEF DeleteRows, counters
  <2>2. CASE DeleteMisses(p) BY <1>1, <1>5, <2>2 DEF DeleteMisses, RowsBounded, QueuePlain
  <2> QED BY <2>1, <2>2
<1>7. verdict[doc[p]] = "none"
  <2>1. CASE p = Api BY <1>1, <1>2, <2>1 DEF ApiHand, PlainVerdict
  <2>2. CASE p # Api BY <1>1, <1>2, <2>2 DEF WorkerHand, Procs
  <2> QED BY <2>1, <2>2
<1>8. VerdictHasRows' /\ RowsBounded' /\ PlainVerdict' /\ QueuePlain'
  BY <1>1, <1>2, <1>3, <1>5, <1>6, <1>7 DEF VerdictHasRows, RowsBounded, PlainVerdict, QueuePlain
<1>9. ApiHand'
  <2>1. CASE p = Api BY <1>1, <1>2, <1>3, <1>4, <2>1 DEF ApiHand
  <2>2. CASE p # Api BY <1>1, <1>3, <2>2 DEF ApiHand, Procs
  <2> QED BY <2>1, <2>2
<1>10. ASSUME NEW w \in Workers PROVE WorkerHand(w)'
  <2>1. CASE w = p BY <1>1, <1>2, <1>3, <1>4, <2>1 DEF WorkerHand
  <2>2. CASE w # p BY <1>1, <1>3, <2>2 DEF WorkerHand, Procs
  <2> QED BY <2>1, <2>2
<1>11. ASSUME NEW q \in Procs PROVE RowHand(q)'
  <2>1. CASE q = p BY <1>3, <1>4, <1>6, <2>1 DEF RowHand
  <2>2. CASE q # p
    <3>1. CASE stage[q] \in IndexStages
      <4>1. doc[q] # doc[p] BY <1>2, <2>2, <3>1, Ownership
      <4>2. doc[q] \in Docs BY <1>1, <3>1, DocInHand DEF CopyInv
      <4> QED BY <1>1, <1>3, <1>6, <2>2, <4>1, <4>2 DEF RowHand
    <3>2. CASE stage[q] \notin IndexStages BY <1>3, <2>2, <3>2 DEF RowHand
    <3> QED BY <3>1, <3>2
  <2> QED BY <2>1, <2>2
<1> QED BY <1>8, <1>9, <1>10, <1>11, RowsAloneParts

LEMMA RowAdd ==
  ASSUME Alone, RowsAlone, CopyInv', NEW p \in Procs, AddRows(p) PROVE RowsAlone'
<1> USE DEF Active, Stages, IngestStages, IndexStages, ParseStages, WriteStages
<1>1. /\ CopyInv /\ VerdictHasRows /\ RowsBounded /\ QueuePlain /\ ApiHand /\ PlainVerdict
      /\ \A w \in Workers : WorkerHand(w)
      /\ \A q \in Procs : RowHand(q)
  BY RowsAloneParts
<1>2. stage[p] = "adding" /\ Goto(p, "recording") /\ UNCHANGED <<queue, batches, misses>>
  BY DEF AddRows, counters
<1>3. /\ stage'[p] = "recording" /\ doc' = doc /\ job' = job /\ verdict' = verdict
      /\ \A q \in Procs : q # p => stage'[q] = stage[q]
  BY <1>1, <1>2 DEF Goto, CopyInv, TypeOK
<1>4. doc[p] \in Docs /\ rows \in [Docs -> Nat] /\ misses \in [Docs -> Nat]
  BY <1>1, <1>2, DocInHand DEF CopyInv, TypeOK
<1>5. /\ rows'[doc[p]] = rows[doc[p]] + 1
      /\ \A d \in Docs : d # doc[p] => rows'[d] = rows[d]
  BY <1>4 DEF AddRows
<1>6. rows[doc[p]] <= misses[doc[p]] BY <1>1, <1>2 DEF RowHand
<1>7. VerdictHasRows' BY <1>1, <1>3, <1>4, <1>5 DEF VerdictHasRows, QueuePlain
<1>8. RowsBounded' BY <1>1, <1>2, <1>4, <1>5, <1>6 DEF RowsBounded
<1>9. PlainVerdict' /\ QueuePlain' BY <1>1, <1>2, <1>3 DEF PlainVerdict, QueuePlain
<1>10. ApiHand'
  <2>1. CASE p = Api BY <1>1, <1>2, <1>3, <2>1 DEF ApiHand
  <2>2. CASE p # Api BY <1>1, <1>3, <2>2 DEF ApiHand, Procs
  <2> QED BY <2>1, <2>2
<1>11. ASSUME NEW w \in Workers PROVE WorkerHand(w)'
  <2>1. CASE w = p BY <1>1, <1>2, <1>3, <2>1 DEF WorkerHand
  <2>2. CASE w # p BY <1>1, <1>3, <2>2 DEF WorkerHand, Procs
  <2> QED BY <2>1, <2>2
<1>12. ASSUME NEW q \in Procs PROVE RowHand(q)'
  <2>1. CASE q = p BY <1>3, <1>4, <1>5, <2>1 DEF RowHand
  <2>2. CASE q # p
    <3>1. CASE stage[q] \in IndexStages
      <4>1. doc[q] # doc[p] BY <1>2, <2>2, <3>1, Ownership
      <4>2. doc[q] \in Docs BY <1>1, <3>1, DocInHand DEF CopyInv
      <4> QED BY <1>1, <1>2, <1>3, <1>5, <2>2, <4>1, <4>2 DEF RowHand
    <3>2. CASE stage[q] \notin IndexStages BY <1>3, <2>2, <3>2 DEF RowHand
    <3> QED BY <3>1, <3>2
  <2> QED BY <2>1, <2>2
<1> QED BY <1>7, <1>8, <1>9, <1>10, <1>11, <1>12, RowsAloneParts

LEMMA RowIndex ==
  ASSUME Alone, RowsAlone, CopyInv', NEW p \in Procs, Index(p) PROVE RowsAlone'
<1> USE DEF Active, Stages, IngestStages, IndexStages, ParseStages, WriteStages
<1>1. CopyInv /\ QueuePlain /\ ApiHand /\ RowHand(p) BY RowsAloneParts
<1>2. stage[p] \in {"pending"} \cup IndexStages
  BY DEF Index, BeginIndex, Chunk, DropChunks, DeleteRows, DeleteMisses, AddRows, RecordChunks,
         ConfirmIndexed, IndexFails
<1>3. p = Api => doc[p] \in Plain BY <1>1, <1>2 DEF ApiHand
<1>4. CASE BeginIndex(p)
  <2>1. QueuePlain' BY <1>1, <1>4 DEF QueuePlain, BeginIndex, counters
  <2> QED BY <1>3, <1>4, <2>1, RowGoto DEF BeginIndex, counters
<1>5. CASE Chunk(p)
  <2>1. QueuePlain' BY <1>1, <1>5 DEF QueuePlain, Chunk, counters
  <2> QED BY <1>3, <1>5, <2>1, RowGoto DEF Chunk, counters
<1>6. CASE DropChunks(p)
  <2>1. QueuePlain' BY <1>1, <1>6 DEF QueuePlain, DropChunks, counters
  <2> QED BY <1>3, <1>6, <2>1, RowGoto DEF DropChunks, counters
<1>7. CASE RecordChunks(p)
  <2>1. QueuePlain' BY <1>1, <1>7 DEF QueuePlain, RecordChunks, counters
  <2>2. doc[p] \in Blank \/ rows[doc[p]] > 0 BY <1>1, <1>7 DEF RowHand, RecordChunks
  <2> QED BY <1>3, <1>7, <2>1, <2>2, RowGoto DEF RecordChunks, counters
<1>8. CASE ConfirmIndexed(p)
  <2>1. doc[p] \in Blank \/ rows[doc[p]] > 0 BY <1>1, <1>8 DEF RowHand, ConfirmIndexed
  <2> QED BY <1>8, <2>1, RowConclude DEF ConfirmIndexed, counters
<1>9. CASE IndexFails(p) BY <1>9, RowConclude DEF IndexFails, counters
<1> QED BY <1>4, <1>5, <1>6, <1>7, <1>8, <1>9, RowDelete, RowAdd DEF Index

LEMMA RowWork ==
  ASSUME Alone, RowsAlone, CopyInv', NEW w \in Workers, Work(w) PROVE RowsAlone'
<1> USE DEF Active, Stages, IngestStages, IndexStages, ParseStages, WriteStages
<1>1. /\ CopyInv /\ VerdictHasRows /\ RowsBounded /\ QueuePlain /\ ApiHand /\ PlainVerdict
      /\ \A v \in Workers : WorkerHand(v)
      /\ \A q \in Procs : RowHand(q)
  BY RowsAloneParts
<1>2. w \in Procs /\ w # Api BY PipelineAssumption DEF Procs
<1>3. stage[w] # "scanning" BY <1>1 DEF WorkerHand
<1>4. ASSUME queue # <<>>
      PROVE  /\ queue \in Seq(Jobs) /\ Head(queue) \in Docs \ Plain
             /\ queue' = Tail(queue) /\ batches' = batches => QueuePlain'
  <2>1. queue \in Seq(Jobs) BY <1>1 DEF CopyInv, TypeOK
  <2>2. Head(queue) \in Docs \ Plain
    BY <1>1, <1>4, <2>1, TailFacts DEF QueuePlain, CopyInv, Jobs
  <2>3. ASSUME queue' = Tail(queue), batches' = batches PROVE QueuePlain'
    BY <1>1, <1>4, <2>1, <2>3, TailFacts DEF QueuePlain
  <2> QED BY <2>1, <2>2, <2>3
<1>5. CASE StartJob(w)
  <2>1. Head(queue) \in Docs \ Plain /\ QueuePlain' BY <1>4, <1>5 DEF StartJob, counters
  <2>2. Head(queue) # BatchJob BY <2>1, PipelineAssumption
  <2>3. /\ stage'[w] = "loaded" /\ doc'[w] = Head(queue) /\ job'[w] = Head(queue)
        /\ verdict' = [verdict EXCEPT ![Head(queue)] = "none"]
        /\ \A q \in Procs : q # w => stage'[q] = stage[q] /\ doc'[q] = doc[q] /\ job'[q] = job[q]
        /\ rows' = rows /\ misses' = misses
    BY <1>1, <1>2, <1>5, <2>2 DEF StartJob, CopyInv, TypeOK, counters
  <2>4. \A d \in Docs : verdict'[d] = IF d = Head(queue) THEN "none" ELSE verdict[d]
    BY <1>1, <2>3 DEF CopyInv, TypeOK
  <2>5. VerdictHasRows' /\ RowsBounded' BY <1>1, <2>3, <2>4 DEF VerdictHasRows, RowsBounded, QueuePlain
  <2>6. PlainVerdict' BY <1>1, <2>4, PipelineAssumption DEF PlainVerdict
  <2>7. ApiHand' BY <1>1, <1>2, <2>3 DEF ApiHand, Procs
  <2>8. ASSUME NEW v \in Workers PROVE WorkerHand(v)'
    <3>1. v = w BY DEF Alone
    <3> QED BY <2>1, <2>3, <2>4, <3>1 DEF WorkerHand
  <2>9. ASSUME NEW q \in Procs PROVE RowHand(q)'
    <3>1. CASE q = w BY <2>3, <3>1 DEF RowHand
    <3>2. CASE q # w BY <1>1, <2>3, <3>2 DEF RowHand
    <3> QED BY <3>1, <3>2
  <2> QED BY <2>1, <2>5, <2>6, <2>7, <2>8, <2>9, RowsAloneParts
<1>6. CASE StartFails(w)
  <2>1. Head(queue) \in Docs \ Plain /\ QueuePlain' BY <1>4, <1>6 DEF StartFails, counters
  <2>2. UNCHANGED <<stage, doc, job, rows, misses>> BY <1>6 DEF StartFails, counters
  <2>3. \A d \in Docs : verdict'[d] = IF d = Head(queue) THEN "unreadable" ELSE verdict[d]
    BY <1>6 DEF StartFails
  <2>4. VerdictHasRows' /\ RowsBounded' BY <1>1, <2>2, <2>3 DEF VerdictHasRows, RowsBounded, QueuePlain
  <2>5. PlainVerdict' BY <1>1, <2>1, <2>3, PipelineAssumption DEF PlainVerdict
  <2>6. ApiHand' BY <1>1, <2>2 DEF ApiHand
  <2>7. ASSUME NEW v \in Workers PROVE WorkerHand(v)'
    <3>1. v = w BY DEF Alone
    <3>2. stage[w] = "idle" BY <1>6 DEF StartFails
    <3> QED BY <2>2, <3>1, <3>2 DEF WorkerHand
  <2>8. \A q \in Procs : RowHand(q)' BY <1>1, <2>2 DEF RowHand
  <2> QED BY <2>1, <2>4, <2>5, <2>6, <2>7, <2>8, RowsAloneParts
<1>7. CASE ScanNext(w) \/ ScanDone(w) BY <1>3, <1>7 DEF ScanNext, ScanDone
<1>8. CASE JobMissesDocument(w) \/ SourceMissing(w)
  BY <1>8, RowExit DEF JobMissesDocument, SourceMissing, counters
<1>9. CASE BeginParse(w)
  <2>1. QueuePlain' BY <1>1, <1>9 DEF QueuePlain, BeginParse, counters
  <2> QED BY <1>2, <1>9, <2>1, RowGoto DEF BeginParse, counters
<1>10. CASE Parse(w)
  <2>1. QueuePlain' BY <1>1, <1>10 DEF QueuePlain, Parse, counters
  <2> QED BY <1>2, <1>10, <2>1, RowGoto DEF Parse, counters
<1>11. CASE WriteManifest(w)
  <2>1. QueuePlain' BY <1>1, <1>11 DEF QueuePlain, WriteManifest, counters
  <2> QED BY <1>2, <1>11, <2>1, RowGoto DEF WriteManifest, counters
<1>12. CASE ParseFails(w) BY <1>2, <1>12, RowConclude DEF ParseFails, counters
<1> QED BY <1>5, <1>6, <1>7, <1>8, <1>9, <1>10, <1>11, <1>12 DEF Work

(* A step of the API that leaves the worker, the rows and the queue alone. *)
LEMMA RowApi ==
  ASSUME RowsAlone, CopyInv', UNCHANGED <<rows, queue, job, verdict, batches, misses>>,
         \A q \in Procs : q # Api => stage'[q] = stage[q] /\ doc'[q] = doc[q],
         stage'[Api] \in {"idle", "down", "plain", "queueing"},
         stage'[Api] = "plain" => doc'[Api] \in Plain
  PROVE  RowsAlone'
<1> USE DEF IndexStages, ParseStages, WriteStages
<1>1. /\ CopyInv /\ VerdictHasRows /\ RowsBounded /\ QueuePlain /\ ApiHand /\ PlainVerdict
      /\ \A v \in Workers : WorkerHand(v)
      /\ \A q \in Procs : RowHand(q)
  BY RowsAloneParts
<1>2. VerdictHasRows' /\ RowsBounded' /\ PlainVerdict' /\ QueuePlain'
  BY <1>1 DEF VerdictHasRows, RowsBounded, PlainVerdict, QueuePlain
<1>3. ApiHand' BY <1>1 DEF ApiHand
<1>4. ASSUME NEW w \in Workers PROVE WorkerHand(w)'
  <2>1. w \in Procs /\ w # Api BY PipelineAssumption DEF Procs
  <2> QED BY <1>1, <2>1 DEF WorkerHand
<1>5. ASSUME NEW q \in Procs PROVE RowHand(q)'
  <2>1. CASE q = Api BY <2>1 DEF RowHand
  <2>2. CASE q # Api BY <1>1, <2>2 DEF RowHand
  <2> QED BY <2>1, <2>2
<1> QED BY <1>2, <1>3, <1>4, <1>5, RowsAloneParts

LEMMA RowOther ==
  ASSUME Alone, RowsAlone, CopyInv',
         \/ \E p \in Procs : Crash(p)
         \/ \E d \in Docs : Upload(d) \/ Reconcile(d)
         \/ StartApi
  PROVE  RowsAlone'
<1>1. CopyInv /\ QueuePlain BY RowsAloneParts
<1>2. Api \in Procs BY DEF Procs
<1>3. stage \in [Procs -> Stages] /\ doc \in [Procs -> Docs \cup {NoDoc}] BY <1>1 DEF CopyInv, TypeOK
<1>4. ASSUME NEW p \in Procs, Crash(p) PROVE RowsAlone'
  <2>1. CASE p = Api
    <3>1. /\ stage' = [stage EXCEPT ![Api] = "down"] /\ doc' = [doc EXCEPT ![Api] = NoDoc]
          /\ UNCHANGED <<rows, queue, job, verdict, batches, misses>>
      BY <1>4, <2>1 DEF Crash
    <3> QED BY <1>2, <1>3, <3>1, RowApi
  <2>2. CASE p # Api
    <3>1. p \in Workers /\ Exit(p, "crashed") /\ stage[p] # "idle"
          /\ UNCHANGED <<rows, queue, batches, misses>>
      BY <1>4, <2>2 DEF Crash, Running, Procs
    <3> QED BY <3>1, RowExit
  <2> QED BY <2>1, <2>2
<1>5. ASSUME NEW d \in Docs, Upload(d) PROVE RowsAlone'
  <2>1. /\ stage' = [stage EXCEPT ![Api] = IF d \in Plain THEN "plain" ELSE "queueing"]
        /\ doc' = [doc EXCEPT ![Api] = d]
        /\ UNCHANGED <<rows, queue, job, verdict, batches, misses>>
    BY <1>5 DEF Upload, Ingest
  <2> QED BY <1>2, <1>3, <2>1, RowApi
<1>6. ASSUME NEW d \in Docs, Reconcile(d) PROVE RowsAlone'
  <2>1. stage[Api] = "idle" /\ UNCHANGED <<stage, doc, rows, queue, job, verdict, batches, misses>>
    BY <1>6 DEF Reconcile, counters
  <2> QED BY <2>1, RowApi
<1>7. CASE StartApi
  <2>1. /\ stage' = [stage EXCEPT ![Api] = "idle"]
        /\ UNCHANGED <<doc, rows, queue, job, verdict, batches, misses>>
    BY <1>7 DEF StartApi, counters
  <2> QED BY <1>2, <1>3, <2>1, RowApi
<1> QED BY <1>4, <1>5, <1>6, <1>7

LEMMA RowInit == Init => RowsAlone
<1> SUFFICES ASSUME Init PROVE RowsAlone OBVIOUS
<1>1. CopyInv BY CopyInit
<1>2. VerdictHasRows /\ RowsBounded /\ PlainVerdict
  BY PipelineAssumption DEF Init, VerdictHasRows, RowsBounded, PlainVerdict
<1>3. QueuePlain BY DEF Init, QueuePlain
<1>4. ApiHand BY DEF Init, ApiHand, Procs, ParseStages, IndexStages, WriteStages
<1>5. \A w \in Workers : WorkerHand(w) BY DEF Init, WorkerHand, Procs
<1>6. \A p \in Procs : RowHand(p) BY DEF Init, RowHand
<1> QED BY <1>1, <1>2, <1>3, <1>4, <1>5, <1>6, RowsAloneParts

(* The number of batches grows, so what has held until the first one is kept *)
(* by every step but the one that submits it.                                *)
LEMMA RowNext == ASSUME Alone PROVE CopyInv /\ RowInv /\ [Next]_vars => RowInv'
<1> SUFFICES ASSUME CopyInv, RowInv, [Next]_vars, batches' = 0 PROVE RowsAlone'
  BY DEF RowInv
<1>1. batches = 0 /\ ~SubmitBatch
  <2>1. batches \in Nat BY DEF CopyInv, TypeOK
  <2>2. ~SubmitBatch BY <2>1 DEF SubmitBatch
  <2>3. batches' = batches
    <3>1. CASE vars' = vars BY <3>1 DEF vars
    <3>2. CASE Next
      BY <2>2, <3>2 DEF Next, Ingestion, Index, Work, Crash, Upload, Reconcile, StartApi, counters,
         Enqueue, EnqueueFails, ConfirmQueued, ConfirmPlain, BeginIndex, Chunk, DropChunks,
         DeleteRows, DeleteMisses, AddRows, RecordChunks, ConfirmIndexed, IndexFails, StartJob,
         StartFails, ScanNext, ScanDone, JobMissesDocument, SourceMissing, BeginParse, Parse, WriteManifest, ParseFails
    <3> QED BY <3>1, <3>2
  <2> QED BY <2>2, <2>3
<1>2. RowsAlone /\ CopyInv' BY <1>1, CopyNext DEF RowInv
<1>3. CASE vars' = vars
  <2>1. VerdictHasRows' <=> VerdictHasRows BY <1>3 DEF vars, VerdictHasRows
  <2>2. RowsBounded' <=> RowsBounded BY <1>3 DEF vars, RowsBounded
  <2>3. QueuePlain' <=> QueuePlain BY <1>3 DEF vars, QueuePlain
  <2>4. ApiHand' <=> ApiHand BY <1>3 DEF vars, ApiHand
  <2>5. PlainVerdict' <=> PlainVerdict BY <1>3 DEF vars, PlainVerdict
  <2>6. \A w \in Workers : WorkerHand(w)' <=> WorkerHand(w) BY <1>3 DEF vars, WorkerHand
  <2>7. \A p \in Procs : RowHand(p)' <=> RowHand(p) BY <1>3 DEF vars, RowHand
  <2> QED BY <1>2, <2>1, <2>2, <2>3, <2>4, <2>5, <2>6, <2>7, RowsAloneParts
<1>4. CASE Next
  <2>1. \/ \E p \in Procs : Ingestion(p) \/ Index(p)
        \/ \E w \in Workers : Work(w)
        \/ \E p \in Procs : Crash(p)
        \/ \E d \in Docs : Upload(d) \/ Reconcile(d)
        \/ StartApi
    BY <1>1, <1>4, Zenon DEF Next
  <2> QED BY <1>2, <2>1, RowIngestion, RowIndex, RowWork, RowOther, Zenon
<1> QED BY <1>3, <1>4

(* With one worker, what keeps the rows in order until the first directory    *)
(* batch holds in every reachable state.                                      *)
THEOREM RowInvariance == ASSUME Alone PROVE Spec => []RowInv
<1>1. Init => RowInv BY RowInit DEF RowInv
<1> QED BY <1>1, CopyInvariance, RowNext, PTL DEF Spec

(* With one worker, until the first directory batch, a document whose job     *)
(* ended with INDEXED has its rows in the vector store, whatever else happens. *)
THEOREM RowsFollowVerdicts == ASSUME Alone PROVE Spec => []VerdictHasRows
<1>1. RowInv => VerdictHasRows BY DEF RowInv, RowsAlone, VerdictHasRows
<1> QED BY <1>1, RowInvariance, PTL

(* With one worker, until the first directory batch, a document is in the     *)
(* vector store more than once only when a delete failed.                     *)
THEOREM RowsAreReplaced == ASSUME Alone PROVE Spec => []RowsBounded
<1>1. RowInv => RowsBounded BY DEF RowInv, RowsAlone, RowsBounded
<1> QED BY <1>1, RowInvariance, PTL
-----------------------------------------------------------------------------
(* What the copies know, and that processes advance.  A step of p, seen     *)
(* from the copies, is one of three: p's copy, with d in it, becomes the    *)
(* file; p reads the file; or the copies stay, though p may end.            *)
OthersStay(p) == \A q \in Procs \ {p} : mem'[q] = mem[q] /\ stage'[q] = stage[q]

Spreads(p, d) ==
  /\ Running(p) /\ OthersStay(p) /\ file' # Torn
  /\ \A e \in Docs : Listed(e)' <=> Knows(p, e) \/ e = d
  /\ Running(p)' => \A e \in Docs : Knows(p, e)' <=> Knows(p, e) \/ e = d

Loads(p) ==
  /\ ~Running(p) /\ OthersStay(p) /\ file # Torn /\ file' = file
  /\ mem'[p] = file

KeepsCopies(p) ==
  /\ OthersStay(p) /\ file' \in {file, Torn}
  /\ Running(p)' => Running(p) /\ mem'[p] = mem[p]

(* What all copies in use know, they go on knowing, and they still agree,   *)
(* when the document p stores is known to the other running processes.      *)
LEMMA KnowledgeSpreads ==
  ASSUME SameKnowledge, NEW p \in Procs, NEW d \in Docs, Spreads(p, d),
         \A q \in Procs \ {p} : Running(q) => Knows(q, d)
  PROVE  SameKnowledge' /\ \A e \in Docs : KnownToAll(e) => KnownToAll(e)'
<1>1. ASSUME NEW q \in Procs, Running(q)', NEW e \in Docs
      PROVE  Knows(q, e)' <=> Knows(p, e) \/ e = d
  <2>1. CASE q = p BY <1>1, <2>1 DEF Spreads
  <2>2. CASE q # p
    <3>1. Running(q) /\ (Knows(q, e)' <=> Knows(q, e))
      BY <1>1, <2>2 DEF Spreads, OthersStay, Running, Knows
    <3>2. Knows(q, e) <=> Knows(p, e) BY <3>1 DEF SameKnowledge, Spreads
    <3> QED BY <2>2, <3>1, <3>2
  <2> QED BY <2>1, <2>2
<1>2. \A e \in Docs : Listed(e)' <=> Knows(p, e) \/ e = d BY DEF Spreads
<1>3. \A e \in Docs : KnownToAll(e) => Knows(p, e) BY DEF KnownToAll, Spreads
<1> QED BY <1>1, <1>2, <1>3 DEF SameKnowledge, KnownToAll

LEMMA KnowledgeLoads ==
  ASSUME SameKnowledge, NEW p \in Procs, Loads(p)
  PROVE  SameKnowledge' /\ \A e \in Docs : KnownToAll(e) => KnownToAll(e)'
<1>1. ASSUME NEW q \in Procs, Running(q)', NEW e \in Docs
      PROVE  Knows(q, e)' <=> Listed(e)
  <2>1. CASE q = p BY <1>1, <2>1 DEF Loads, Knows, Listed
  <2>2. CASE q # p
    <3>1. Running(q) /\ (Knows(q, e)' <=> Knows(q, e))
      BY <1>1, <2>2 DEF Loads, OthersStay, Running, Knows
    <3> QED BY <3>1 DEF SameKnowledge, Loads
  <2> QED BY <2>1, <2>2
<1>2. \A e \in Docs : (Listed(e)' <=> Listed(e)) /\ (KnownToAll(e) => Listed(e))
  BY DEF Loads, Listed, KnownToAll
<1> QED BY <1>1, <1>2 DEF SameKnowledge, KnownToAll

LEMMA KnowledgeStays ==
  ASSUME SameKnowledge, NEW p \in Procs, KeepsCopies(p)
  PROVE  SameKnowledge' /\ \A e \in Docs : KnownToAll(e) => KnownToAll(e)'
<1>1. ASSUME NEW q \in Procs, Running(q)'
      PROVE  Running(q) /\ \A e \in Docs : Knows(q, e)' <=> Knows(q, e)
  <2>1. CASE q = p BY <1>1, <2>1 DEF KeepsCopies, Knows
  <2>2. CASE q # p BY <1>1, <2>2 DEF KeepsCopies, OthersStay, Running, Knows
  <2> QED BY <2>1, <2>2
<1>2. file' # Torn => file # Torn /\ \A e \in Docs : Listed(e)' <=> Listed(e)
  BY DEF KeepsCopies, Listed
<1> QED BY <1>1, <1>2 DEF SameKnowledge, KnownToAll

(* The saves of this module.                                                *)
LEMMA SaveSpreads ==
  ASSUME TypeOK, NEW p \in Procs, NEW d \in Docs, NEW e \in Entry, e.status # "none",
         file' = [mem[p] EXCEPT ![d] = e], Running(p), OthersStay(p),
         ~Running(p)' \/ mem'[p] = file'
  PROVE  Spreads(p, d)
<1>1. mem[p] \in [Docs -> Entry] BY DEF TypeOK
<1>2. file' \in [Docs -> Entry] /\ file'[d] = e /\ \A f \in Docs \ {d} : file'[f] = mem[p][f]
  BY <1>1
<1>3. \A f \in Docs : Listed(f)' <=> Knows(p, f) \/ f = d BY <1>2 DEF Listed, Knows
<1>4. Running(p)' => \A f \in Docs : Knows(p, f)' <=> Listed(f)' BY DEF Knows, Listed
<1> QED BY <1>2, <1>3, <1>4, TornAssumption DEF Spreads

LEMMA StoreSpreads ==
  ASSUME TypeOK, NEW p \in Procs, NEW d \in Docs, NEW e \in Entry, e.status # "none",
         Save(p, d, e), Running(p), \A q \in Procs \ {p} : stage'[q] = stage[q]
  PROVE  Spreads(p, d)
<1>1. mem'[p] = file' /\ file' = [mem[p] EXCEPT ![d] = e] /\ \A q \in Procs \ {p} : mem'[q] = mem[q]
  BY DEF Save, TypeOK
<1> QED BY <1>1, SaveSpreads DEF OthersStay

(* What a step of p does to its document in hand: the handler ends, or goes *)
(* on with the same document and less left to do.                           *)
GoesOn(p, next) ==
  /\ stage'[p] = next /\ StagesLeft[next] < StagesLeft[stage[p]]
  /\ doc'[p] = doc[p] /\ todo'[p] = todo[p]

Ends(p) == stage'[p] = "idle" \/ (stage'[p] = "scanning" /\ p # Api /\ todo'[p] = todo[p])

NoneGoesMissing == \A d \in Docs : verdict'[d] = "missing" => verdict[d] = "missing"

HandsOn(p) ==
  /\ OthersStay(p) /\ job'[Api] = job[Api] /\ NoneGoesMissing
  /\ \A q \in Procs \ {p} : doc'[q] = doc[q] /\ job'[q] = job[q] /\ todo'[q] = todo[q]
  /\ (Spreads(p, doc[p]) /\ Knows(p, doc[p])) \/ KeepsCopies(p)
  /\ Ends(p) \/ \E next \in Active \ {"loaded"} : GoesOn(p, next) /\ Knows(p, doc[p])

LEMMA StageFacts ==
  /\ \A x \in Active \cup {"scanning"} : StagesLeft[x] \in 0 .. 11
  /\ \A x \in Active : StagesLeft[x] > 0 /\ x \in Stages
BY DEF Active, Stages, IngestStages, ParseStages, IndexStages, WriteStages, StagesLeft

LEMMA GotoFacts ==
  ASSUME TypeOK, NEW p \in Procs, NEW next, Goto(p, next)
  PROVE  /\ stage'[p] = next /\ doc'[p] = doc[p] /\ todo'[p] = todo[p] /\ job' = job
         /\ \A q \in Procs \ {p} : stage'[q] = stage[q] /\ doc'[q] = doc[q] /\ todo'[q] = todo[q]
         /\ NoneGoesMissing
BY DEF TypeOK, Goto, NoneGoesMissing

LEMMA StatusHandsOn ==
  ASSUME TypeOK, NEW p \in Procs, stage[p] \in Active, NEW s \in Status \ {"none"}, SetStatus(p, s),
         NEW next \in Active \ {"loaded"}, Goto(p, next), StagesLeft[next] < StagesLeft[stage[p]]
  PROVE  HandsOn(p)
<1> DEFINE e == [mem[p][doc[p]] EXCEPT !.status = s]
<1>1. doc[p] \in Docs /\ e \in Entry /\ e.status = s BY DocInHand, EntryFacts
<1>2. Save(p, doc[p], e) /\ Knows(p, doc[p]) BY DEF SetStatus
<1> HIDE DEF e
<1>3. Running(p) BY DEF Running, Active
<1>4. Spreads(p, doc[p]) BY <1>1, <1>2, <1>3, GotoFacts, StoreSpreads
<1> QED BY <1>2, <1>4, GotoFacts DEF HandsOn, GoesOn, Spreads

(* A save that leaves the status of the document, or no save at all.        *)
LEMMA ChunksHandOn ==
  ASSUME TypeOK, NEW p \in Procs, stage[p] \in Active, Knows(p, doc[p]), NEW b \in BOOLEAN,
         \/ Save(p, doc[p], [mem[p][doc[p]] EXCEPT !.chunks = b])
         \/ UNCHANGED <<mem, file>>,
         NEW next \in Active \ {"loaded"}, Goto(p, next), StagesLeft[next] < StagesLeft[stage[p]]
  PROVE  HandsOn(p)
<1> DEFINE e == [mem[p][doc[p]] EXCEPT !.chunks = b]
<1>1. doc[p] \in Docs /\ e \in Entry /\ e.status = mem[p][doc[p]].status BY DocInHand, EntryFacts
<1>2. e.status # "none" BY <1>1 DEF Knows
<1>3. Running(p) BY DEF Running, Active
<1>4. CASE UNCHANGED <<mem, file>>
  <2>1. OthersStay(p) /\ KeepsCopies(p) BY <1>3, <1>4, GotoFacts DEF OthersStay, KeepsCopies
  <2> QED BY <2>1, GotoFacts DEF HandsOn, GoesOn
<1>5. CASE Save(p, doc[p], e)
  <2> HIDE DEF e
  <2>1. Spreads(p, doc[p]) BY <1>1, <1>2, <1>3, <1>5, GotoFacts, StoreSpreads
  <2> QED BY <2>1, GotoFacts DEF HandsOn, GoesOn, Spreads
<1> QED BY <1>4, <1>5

LEMMA ExitFacts ==
  ASSUME TypeOK, NEW p \in Workers, NEW how, how # "missing", Exit(p, how)
  PROVE  /\ stage'[p] = "idle" /\ ~Running(p)' /\ OthersStay(p) /\ job'[Api] = job[Api]
         /\ \A q \in Procs \ {p} : doc'[q] = doc[q] /\ job'[q] = job[q] /\ todo'[q] = todo[q]
         /\ NoneGoesMissing
<1>1. p # Api /\ p \in Procs /\ Api \in Procs BY PipelineAssumption DEF Procs
<1>2. stage'[p] = "idle" /\ OthersStay(p) BY <1>1 DEF TypeOK, Exit, OthersStay
<1>3. job'[Api] = job[Api] BY <1>1 DEF TypeOK, Exit
<1>4. \A q \in Procs \ {p} : doc'[q] = doc[q] /\ job'[q] = job[q] /\ todo'[q] = todo[q]
  BY <1>1 DEF TypeOK, Exit
<1>5. NoneGoesMissing BY DEF Exit, NoneGoesMissing
<1> QED BY <1>1, <1>2, <1>3, <1>4, <1>5 DEF Running

LEMMA ConcludeHandsOn ==
  ASSUME TypeOK, job[Api] = NoDoc, NEW p \in Procs, stage[p] \in Active,
         NEW s \in Status \ {"none"}, Conclude(p, s)
  PROVE  HandsOn(p)
<1> DEFINE e == [mem[p][doc[p]] EXCEPT !.status = s]
<1>1. doc[p] \in Docs /\ e \in Entry /\ e.status = s BY DocInHand, EntryFacts
<1>2. Knows(p, doc[p]) BY DEF Conclude, SetStatus
<1>3. Running(p) BY DEF Running, Active
<1>4. s # "missing" BY DEF Status, Pending, Indexing, Settled
<1>5. CASE job[p] \in Docs
  <2>1. p \in Workers BY <1>5, PipelineAssumption DEF Procs, Jobs
  <2>2. file' = [mem[p] EXCEPT ![doc[p]] = e] /\ Exit(p, s) BY <1>5 DEF Conclude
  <2> HIDE DEF e
  <2>3. Spreads(p, doc[p]) BY <1>1, <1>3, <1>4, <2>1, <2>2, ExitFacts, SaveSpreads
  <2> QED BY <1>2, <1>4, <2>1, <2>2, <2>3, ExitFacts DEF HandsOn, Ends
<1>6. CASE job[p] \notin Docs
  <2>1. /\ Save(p, doc[p], e)
        /\ stage' = [stage EXCEPT ![p] = IF p = Api THEN "idle" ELSE "scanning"]
        /\ doc' = [doc EXCEPT ![p] = NoDoc]
        /\ job' = job /\ todo' = todo /\ verdict' = verdict
    BY <1>6 DEF Conclude, SetStatus
  <2> HIDE DEF e
  <2>2. /\ stage'[p] = IF p = Api THEN "idle" ELSE "scanning"
        /\ \A q \in Procs \ {p} : stage'[q] = stage[q] /\ doc'[q] = doc[q]
    BY <2>1 DEF TypeOK
  <2>3. Spreads(p, doc[p]) BY <1>1, <1>3, <2>1, <2>2, StoreSpreads
  <2> QED BY <1>2, <2>1, <2>2, <2>3 DEF HandsOn, Ends, Spreads, NoneGoesMissing
<1> QED BY <1>5, <1>6

(* What the steps of the handlers rest on, with the types.                  *)
DocInv == TypeOK /\ KnowsItsDocument

LEMMA HandSteps ==
  ASSUME DocInv, NEW p \in Procs,
         \/ Ingestion(p) \/ Index(p)
         \/ BeginParse(p) \/ Parse(p) \/ WriteManifest(p) \/ ParseFails(p)
  PROVE  /\ stage[p] \in Active /\ HandsOn(p)
         /\ queue' = queue \/ (queue' = Append(queue, doc[p]) /\ Knows(p, doc[p]))
<1> USE DEF DocInv
<1>1. \A x \in {"none", "uploaded", "enqueue_failed", "parsed", "parse_pending", "parsing",
                "index_pending", "indexing", "indexed", "parse_failed", "index_failed"} : x \in Status
  BY DEF Status, Pending, Indexing, Settled
<1>2. \A x \in IngestStages \cup ParseStages \cup IndexStages : x \in Active
  BY DEF Active, Stages, IngestStages, ParseStages, IndexStages, WriteStages
<1> USE DEF IngestStages, ParseStages, IndexStages, WriteStages
<1>3. \A q \in Procs : stage[q] \in Active \ {"loaded"} => Knows(q, doc[q])
  BY DEF KnowsItsDocument, Active
<1>4. job[Api] = NoDoc BY DEF KnowsItsDocument
<1>5. CASE Enqueue(p)
  <2>1. stage[p] = "queueing" /\ Goto(p, "queued") /\ UNCHANGED <<mem, file>> BY <1>5 DEF Enqueue
  <2>2. StagesLeft["queued"] < StagesLeft[stage[p]] BY <2>1 DEF StagesLeft
  <2>3. Knows(p, doc[p]) BY <1>2, <1>3, <2>1
  <2> QED BY <1>2, <1>5, <2>1, <2>2, <2>3, ChunksHandOn DEF Enqueue
<1>6. CASE EnqueueFails(p) BY <1>1, <1>2, <1>4, <1>6, ConcludeHandsOn DEF EnqueueFails
<1>7. CASE ConfirmQueued(p) BY <1>1, <1>2, <1>4, <1>7, ConcludeHandsOn DEF ConfirmQueued
<1>8. CASE ConfirmPlain(p)
  <2>1. StagesLeft["pending"] < StagesLeft[stage[p]] BY <1>8 DEF ConfirmPlain, StagesLeft
  <2> QED BY <1>1, <1>2, <1>8, <2>1, StatusHandsOn DEF ConfirmPlain
<1>9. CASE BeginIndex(p)
  <2>1. StagesLeft["chunking"] < StagesLeft[stage[p]] BY <1>9 DEF BeginIndex, StagesLeft
  <2> QED BY <1>1, <1>2, <1>9, <2>1, StatusHandsOn DEF BeginIndex
<1>10. CASE Chunk(p)
  <2>1. StagesLeft["writing"] < StagesLeft[stage[p]] BY <1>10 DEF Chunk, StagesLeft
  <2> QED BY <1>1, <1>2, <1>10, <2>1, StatusHandsOn DEF Chunk
<1>11. CASE DropChunks(p)
  <2>1. stage[p] = "writing" /\ Goto(p, "clearing") BY <1>11 DEF DropChunks
  <2>2. StagesLeft["clearing"] < StagesLeft[stage[p]] BY <2>1 DEF StagesLeft
  <2>3. Knows(p, doc[p]) BY <1>2, <1>3, <2>1
  <2> QED BY <1>2, <1>11, <2>1, <2>2, <2>3, ChunksHandOn DEF DropChunks
<1>12. CASE DeleteRows(p) \/ DeleteMisses(p)
  <2>1. stage[p] = "clearing" /\ Goto(p, AfterClearing(p)) /\ UNCHANGED <<mem, file, queue>>
    BY <1>12 DEF DeleteRows, DeleteMisses
  <2>2. AfterClearing(p) \in {"confirming", "adding"} BY DEF AfterClearing
  <2>3. StagesLeft[AfterClearing(p)] < StagesLeft[stage[p]] BY <2>1, <2>2 DEF StagesLeft
  <2>4. Knows(p, doc[p]) BY <1>2, <1>3, <2>1
  <2>5. AfterClearing(p) \in Active \ {"loaded"} BY <1>2, <2>2
  <2> QED BY <1>2, <2>1, <2>3, <2>4, <2>5, ChunksHandOn
<1>13. CASE AddRows(p)
  <2>1. stage[p] = "adding" /\ Goto(p, "recording") /\ UNCHANGED <<mem, file, queue>>
    BY <1>13 DEF AddRows
  <2>2. StagesLeft["recording"] < StagesLeft[stage[p]] BY <2>1 DEF StagesLeft
  <2>3. Knows(p, doc[p]) BY <1>2, <1>3, <2>1
  <2> QED BY <1>2, <2>1, <2>2, <2>3, ChunksHandOn
<1>14. CASE RecordChunks(p)
  <2>1. stage[p] = "recording" /\ Goto(p, "confirming") BY <1>14 DEF RecordChunks
  <2>2. StagesLeft["confirming"] < StagesLeft[stage[p]] BY <2>1 DEF StagesLeft
  <2>3. Knows(p, doc[p]) BY <1>2, <1>3, <2>1
  <2> QED BY <1>2, <1>14, <2>1, <2>2, <2>3, ChunksHandOn DEF RecordChunks
<1>15. CASE ConfirmIndexed(p) BY <1>1, <1>2, <1>4, <1>15, ConcludeHandsOn DEF ConfirmIndexed
<1>16. CASE IndexFails(p) BY <1>1, <1>2, <1>4, <1>16, ConcludeHandsOn DEF IndexFails
<1>17. CASE BeginParse(p)
  <2>1. StagesLeft["parsing"] < StagesLeft[stage[p]] BY <1>17 DEF BeginParse, StagesLeft
  <2> QED BY <1>1, <1>2, <1>17, <2>1, StatusHandsOn DEF BeginParse
<1>18. CASE Parse(p)
  <2>1. StagesLeft["parsed"] < StagesLeft[stage[p]] BY <1>18 DEF Parse, StagesLeft
  <2> QED BY <1>1, <1>2, <1>18, <2>1, StatusHandsOn DEF Parse
<1>19. CASE WriteManifest(p)
  <2>1. StagesLeft["indexing"] < StagesLeft[stage[p]] BY <1>19 DEF WriteManifest, StagesLeft
  <2> QED BY <1>1, <1>2, <1>19, <2>1, StatusHandsOn DEF WriteManifest
<1>20. CASE ParseFails(p) BY <1>1, <1>2, <1>4, <1>20, ConcludeHandsOn DEF ParseFails
<1> QED BY <1>5, <1>6, <1>7, <1>8, <1>9, <1>10, <1>11, <1>12, <1>13, <1>14, <1>15, <1>16, <1>17,
           <1>18, <1>19, <1>20 DEF Ingestion, Index

(* The document in hand stays known, and only the process that steps        *)
(* changes what it has left to do.                                          *)
OthersKeepAll(p) ==
  OthersStay(p) /\ \A q \in Procs \ {p} : doc'[q] = doc[q] /\ job'[q] = job[q] /\ todo'[q] = todo[q]

LEMMA KnownInHand ==
  ASSUME DocInv, NEW p \in Procs, OthersKeepAll(p), job'[Api] = job[Api],
         stage'[p] \notin {"idle", "down", "scanning", "loaded"} => Knows(p, doc[p])'
  PROVE  KnowsItsDocument'
<1>1. ASSUME NEW q \in Procs, q # p, stage'[q] \notin {"idle", "down", "scanning", "loaded"}
      PROVE  Knows(q, doc[q])'
  <2>1. stage'[q] = stage[q] /\ mem'[q] = mem[q] /\ doc'[q] = doc[q]
    BY <1>1 DEF OthersKeepAll, OthersStay
  <2>2. Knows(q, doc[q]) BY <1>1, <2>1 DEF DocInv, KnowsItsDocument
  <2> QED BY <2>1, <2>2 DEF Knows
<1>2. job'[Api] = NoDoc BY DEF DocInv, KnowsItsDocument
<1> QED BY <1>1, <1>2 DEF KnowsItsDocument

LEMMA AdvanceOfOne ==
  ASSUME NEW p \in Procs, OthersKeepAll(p),
         Begun(p) => ~Begun(p)' \/ StepsLeft(p)' < StepsLeft(p)
  PROVE  OnlyAdvances
BY DEF OthersKeepAll, OthersStay, OnlyAdvances

LEMMA HandsOnAdvances ==
  ASSUME DocInv, NEW p \in Procs, stage[p] \in Active, HandsOn(p)
  PROVE  KnowsItsDocument' /\ OnlyAdvances
<1>1. OthersKeepAll(p) /\ job'[Api] = job[Api] BY DEF HandsOn, OthersKeepAll
<1>2. ASSUME NEW next \in Active, GoesOn(p, next), Knows(p, doc[p])
      PROVE  Knows(p, doc[p])' /\ StepsLeft(p)' < StepsLeft(p)
  <2>1. doc[p] \in Docs /\ doc'[p] = doc[p] BY <1>2, DocInHand DEF DocInv, GoesOn
  <2>2. Running(p)' BY <1>2 DEF GoesOn, Running, Active
  <2>3. \A d \in Docs : Knows(p, d) => Knows(p, d)'
    BY <2>2 DEF HandsOn, Spreads, KeepsCopies, Knows
  <2>4. Knows(p, doc[p])' BY <1>2, <2>1, <2>3 DEF Knows
  <2>5. Len(todo[p]) \in Nat BY DEF DocInv, TypeOK
  <2>6. StagesLeft[next] \in 0 .. 11 /\ StagesLeft[stage[p]] \in 0 .. 11 BY StageFacts
  <2>7. todo'[p] = todo[p] /\ stage'[p] = next /\ StagesLeft[next] < StagesLeft[stage[p]]
    BY <1>2 DEF GoesOn
  <2>8. StepsLeft(p)' < StepsLeft(p)
    <3>1. \A n \in Nat, x, y \in 0 .. 11 : x < y => 10 * n + x < 10 * n + y OBVIOUS
    <3>2. StepsLeft(p) = 10 * Len(todo[p]) + StagesLeft[stage[p]] BY DEF StepsLeft
    <3>3. StepsLeft(p)' = 10 * Len(todo[p]) + StagesLeft[next] BY <2>7 DEF StepsLeft
    <3> QED BY <2>5, <2>6, <2>7, <3>1, <3>2, <3>3
  <2> QED BY <2>4, <2>8
<1>3. ASSUME stage'[p] = "scanning", todo'[p] = todo[p] PROVE StepsLeft(p)' < StepsLeft(p)
  <2>1. Len(todo[p]) \in Nat BY DEF DocInv, TypeOK
  <2>2. StagesLeft[stage[p]] \in 0 .. 11 /\ StagesLeft[stage[p]] > 0 /\ StagesLeft["scanning"] = 0
    BY StageFacts DEF StagesLeft
  <2> QED BY <1>3, <2>1, <2>2 DEF StepsLeft
<1>4. stage'[p] \notin {"idle", "down", "scanning", "loaded"} => Knows(p, doc[p])'
  BY <1>2 DEF HandsOn, Ends
<1>5. Begun(p) => ~Begun(p)' \/ StepsLeft(p)' < StepsLeft(p)
  BY <1>2, <1>3 DEF HandsOn, Ends, Begun
<1> QED BY <1>1, <1>4, <1>5, KnownInHand, AdvanceOfOne

(* A process begins: it takes up a document, or a job.                      *)
LEMMA IngestSpreads ==
  ASSUME TypeOK, NEW p \in Procs, Running(p), NEW d \in Docs, Ingest(p, d)
  PROVE  /\ Spreads(p, d) /\ OthersStay(p)
         /\ \A q \in Procs \ {p} : doc'[q] = doc[q]
         /\ stage'[p] \in {"plain", "queueing"} /\ doc'[p] = d /\ job' = job /\ queue' = queue
         /\ Knows(p, doc[p])' /\ NoneGoesMissing
<1> DEFINE e == [mem[p][d] EXCEPT !.status = "uploaded"]
<1>1. "uploaded" \in Status /\ mem[p][d] \in Entry BY DEF TypeOK, Status
<1>2. e \in Entry /\ e.status = "uploaded" BY <1>1, EntryFacts
<1>3. Save(p, d, e) BY DEF Ingest
<1> HIDE DEF e
<1>4. /\ \A q \in Procs \ {p} : stage'[q] = stage[q] /\ doc'[q] = doc[q]
      /\ stage'[p] \in {"plain", "queueing"} /\ doc'[p] = d
      /\ job' = job /\ queue' = queue /\ verdict' = verdict
  BY DEF Ingest, TypeOK
<1>5. Spreads(p, d) BY <1>2, <1>3, <1>4, StoreSpreads
<1>6. Running(p)' BY <1>4 DEF Running
<1>7. Knows(p, doc[p])' BY <1>4, <1>5, <1>6 DEF Spreads, Knows
<1> QED BY <1>4, <1>5, <1>7 DEF Spreads, NoneGoesMissing

LEMMA UploadFacts ==
  ASSUME DocInv, NEW d \in Docs, Upload(d)
  PROVE  KnowsItsDocument' /\ OnlyAdvances
<1>1. Api \in Procs /\ Running(Api) /\ ~Begun(Api) BY DEF Procs, Upload, Running, Begun
<1>2. Ingest(Api, d) /\ todo' = todo BY DEF Upload
<1>3. OthersKeepAll(Api) /\ job' = job /\ Knows(Api, doc[Api])'
  BY <1>1, <1>2, IngestSpreads DEF DocInv, OthersKeepAll
<1> QED BY <1>1, <1>3, KnownInHand, AdvanceOfOne

LEMMA ScanFacts ==
  ASSUME DocInv, NEW w \in Workers, ScanNext(w) \/ ScanDone(w)
  PROVE  KnowsItsDocument' /\ OnlyAdvances
<1>1. w \in Procs BY DEF Procs
<1>2. todo[w] \in Seq(Docs) BY <1>1 DEF DocInv, TypeOK
<1>3. CASE ScanNext(w)
  <2>1. /\ stage[w] = "scanning" /\ todo[w] # <<>> /\ Ingest(w, Head(todo[w]))
        /\ todo' = [todo EXCEPT ![w] = Tail(@)]
    BY <1>3 DEF ScanNext
  <2>2. Head(todo[w]) \in Docs /\ Len(Tail(todo[w])) = Len(todo[w]) - 1 /\ Len(todo[w]) \in Nat
    BY <1>2, <2>1
  <2>3. Running(w) BY <1>1, <2>1 DEF Running
  <2>4. /\ OthersStay(w) /\ \A q \in Procs \ {w} : doc'[q] = doc[q]
        /\ stage'[w] \in {"plain", "queueing"} /\ job' = job /\ Knows(w, doc[w])'
    BY <1>1, <2>1, <2>2, <2>3, IngestSpreads DEF DocInv
  <2>5. todo'[w] = Tail(todo[w]) /\ \A q \in Procs \ {w} : todo'[q] = todo[q]
    BY <1>1, <2>1 DEF DocInv, TypeOK
  <2>6. OthersKeepAll(w) BY <2>4, <2>5 DEF OthersKeepAll
  <2>7. StagesLeft[stage'[w]] \in 0 .. 9 /\ StagesLeft[stage[w]] = 0
    BY <2>1, <2>4 DEF StagesLeft
  <2>8. StepsLeft(w)' < StepsLeft(w) BY <2>2, <2>5, <2>7 DEF StepsLeft
  <2> QED BY <1>1, <2>4, <2>6, <2>8, KnownInHand, AdvanceOfOne
<1>4. CASE ScanDone(w)
  <2>1. /\ stage'[w] = "idle" /\ OthersKeepAll(w) /\ job'[Api] = job[Api]
    BY <1>4, ExitFacts DEF ScanDone, DocInv, OthersKeepAll
  <2> QED BY <1>1, <2>1, KnownInHand, AdvanceOfOne DEF Begun
<1> QED BY <1>3, <1>4

LEMMA StartFacts ==
  ASSUME DocInv, NEW w \in Workers, StartJob(w)
  PROVE  /\ Loads(w) /\ OthersKeepAll(w) /\ job'[Api] = job[Api] /\ NoneGoesMissing
         /\ stage'[w] \in {"scanning", "loaded"}
         /\ stage'[w] = "loaded" => doc'[w] = Head(queue) /\ Head(queue) \in Docs
         /\ KnowsItsDocument' /\ OnlyAdvances
<1>1. w \in Procs /\ w # Api /\ Api \in Procs BY PipelineAssumption DEF Procs
<1>2. stage[w] = "idle" /\ queue # <<>> /\ file # Torn /\ file' = file BY DEF StartJob
<1>3. /\ mem'[w] = file /\ job'[Api] = job[Api]
      /\ \A q \in Procs \ {w} : mem'[q] = mem[q] /\ job'[q] = job[q]
  BY <1>1 DEF StartJob, DocInv, TypeOK
<1>4. Head(queue) \in Jobs
  <2>1. queue \in Seq(Jobs) BY DEF DocInv, TypeOK
  <2> QED BY <1>2, <2>1, TailFacts
<1>5. /\ \A q \in Procs \ {w} : stage'[q] = stage[q] /\ doc'[q] = doc[q] /\ todo'[q] = todo[q]
      /\ stage'[w] \in {"scanning", "loaded"}
      /\ stage'[w] = "loaded" => doc'[w] = Head(queue) /\ Head(queue) # BatchJob
  <2>1. CASE Head(queue) = BatchJob BY <1>1, <2>1 DEF StartJob, DocInv, TypeOK
  <2>2. CASE Head(queue) # BatchJob BY <1>1, <2>2 DEF StartJob, DocInv, TypeOK
  <2> QED BY <2>1, <2>2
<1>6. OthersKeepAll(w) /\ Loads(w)
  BY <1>1, <1>2, <1>3, <1>5 DEF OthersKeepAll, OthersStay, Loads, Running
<1>7. NoneGoesMissing
  <2>1. CASE Head(queue) = BatchJob BY <2>1 DEF StartJob, NoneGoesMissing
  <2>2. CASE Head(queue) # BatchJob BY <2>2 DEF StartJob, NoneGoesMissing, DocInv, TypeOK
  <2> QED BY <2>1, <2>2
<1>8. stage'[w] = "loaded" => doc'[w] = Head(queue) /\ Head(queue) \in Docs
  BY <1>4, <1>5 DEF Jobs
<1>9. KnowsItsDocument' BY <1>1, <1>3, <1>5, <1>6, KnownInHand
<1>10. OnlyAdvances BY <1>1, <1>2, <1>6, AdvanceOfOne DEF Begun
<1> QED BY <1>3, <1>5, <1>6, <1>7, <1>8, <1>9, <1>10

LEMMA EndFacts ==
  ASSUME DocInv, NEW p \in Procs,
         Crash(p) \/ (p \in Workers /\ (JobMissesDocument(p) \/ SourceMissing(p)))
  PROVE  /\ KnowsItsDocument' /\ OnlyAdvances
         /\ KeepsCopies(p) /\ OthersKeepAll(p) /\ stage'[p] \in {"idle", "down"} /\ queue' = queue
         /\ ~JobMissesDocument(p) => NoneGoesMissing
<1>1. file' \in {file, Torn} /\ queue' = queue BY DEF Crash, JobMissesDocument, SourceMissing
<1>2. CASE Crash(p) /\ p = Api
  <2>1. /\ stage'[p] = "down" /\ \A q \in Procs \ {p} : stage'[q] = stage[q] /\ doc'[q] = doc[q]
        /\ UNCHANGED <<mem, job, todo, verdict>>
    BY <1>2 DEF Crash, DocInv, TypeOK
  <2>2. OthersKeepAll(p) /\ KeepsCopies(p)
    BY <1>1, <1>2, <2>1 DEF OthersKeepAll, OthersStay, KeepsCopies, Running
  <2>3. KnowsItsDocument' BY <2>1, <2>2, KnownInHand
  <2>4. OnlyAdvances BY <2>1, <2>2, AdvanceOfOne DEF Begun
  <2> QED BY <1>1, <2>1, <2>2, <2>3, <2>4 DEF NoneGoesMissing
<1>3. ASSUME p \in Workers, NEW how, Exit(p, how), how # "missing" \/ JobMissesDocument(p)
      PROVE  /\ KnowsItsDocument' /\ OnlyAdvances
             /\ KeepsCopies(p) /\ OthersKeepAll(p) /\ stage'[p] \in {"idle", "down"}
             /\ ~JobMissesDocument(p) => NoneGoesMissing
  <2>1. p # Api /\ Api \in Procs BY <1>3, PipelineAssumption DEF Procs
  <2>2. /\ stage'[p] = "idle" /\ job'[Api] = job[Api]
        /\ \A q \in Procs \ {p} : stage'[q] = stage[q] /\ mem'[q] = mem[q] /\ doc'[q] = doc[q]
                                    /\ job'[q] = job[q] /\ todo'[q] = todo[q]
    BY <1>3, <2>1 DEF Exit, DocInv, TypeOK
  <2>3. OthersKeepAll(p) /\ KeepsCopies(p)
    BY <1>1, <2>1, <2>2 DEF OthersKeepAll, OthersStay, KeepsCopies, Running
  <2>4. KnowsItsDocument' BY <2>2, <2>3, KnownInHand
  <2>5. OnlyAdvances BY <2>2, <2>3, AdvanceOfOne DEF Begun
  <2>6. how # "missing" => NoneGoesMissing BY <1>3 DEF Exit, NoneGoesMissing
  <2> QED BY <1>3, <2>2, <2>3, <2>4, <2>5, <2>6
<1>4. CASE Crash(p) /\ p # Api
  <2>1. Exit(p, "crashed") /\ p \in Workers BY <1>4 DEF Crash, Procs
  <2> QED BY <1>1, <1>3, <2>1
<1>5. CASE p \in Workers /\ JobMissesDocument(p)
  <2>1. Exit(p, "missing") BY <1>5 DEF JobMissesDocument
  <2> QED BY <1>1, <1>3, <1>5, <2>1
<1>6. CASE p \in Workers /\ SourceMissing(p)
  <2>1. Exit(p, "unreadable") BY <1>6 DEF SourceMissing
  <2> QED BY <1>1, <1>3, <1>6, <2>1
<1> QED BY <1>2, <1>4, <1>5, <1>6

(* The API's reconciliation and start, and steps that touch the queue only. *)
LEMMA ReconcileFacts ==
  ASSUME DocInv, NEW d \in Docs, Reconcile(d)
  PROVE  Spreads(Api, d) /\ Knows(Api, d) /\ UNCHANGED <<stage, doc, job, todo, verdict, queue>>
<1> DEFINE s == IF mem[Api][d].status \in Pending THEN "parse_failed" ELSE "index_failed"
           e == [mem[Api][d] EXCEPT !.status = s]
<1>1. Api \in Procs /\ Running(Api) BY DEF Procs, Reconcile, Running
<1>2. mem[Api][d] \in Entry /\ s \in Status /\ s # "none"
  BY <1>1 DEF DocInv, TypeOK, Status, Settled
<1>3. Knows(Api, d) BY DEF Reconcile, Knows, Pending, Indexing
<1>4. Save(Api, d, e) /\ UNCHANGED <<stage, doc, job, todo, verdict, queue>> BY DEF Reconcile
<1> HIDE DEF s
<1>5. e \in Entry /\ e.status = s BY <1>2, EntryFacts
<1> HIDE DEF e
<1> QED BY <1>1, <1>2, <1>3, <1>4, <1>5, StoreSpreads DEF DocInv

LEMMA StartApiFacts ==
  ASSUME DocInv, StartApi
  PROVE  /\ Loads(Api) /\ OthersKeepAll(Api) /\ stage'[Api] = "idle" /\ ~Begun(Api)
         /\ UNCHANGED <<queue, doc, job, todo, verdict>>
<1>1. Api \in Procs BY DEF Procs
<1> QED BY <1>1 DEF StartApi, DocInv, TypeOK, Loads, OthersKeepAll, OthersStay, Running, Begun

LEMMA DocNext ==
  ASSUME DocInv, [Next]_vars PROVE KnowsItsDocument' /\ OnlyAdvances
<1>1. Api \in Procs /\ Workers \subseteq Procs BY DEF Procs
<1>2. ASSUME UNCHANGED <<stage, doc, job, todo>>, mem' = mem
      PROVE  KnowsItsDocument' /\ OnlyAdvances
  BY <1>2 DEF DocInv, KnowsItsDocument, Knows, OnlyAdvances
<1>3. ASSUME NEW d \in Docs, Reconcile(d) PROVE KnowsItsDocument' /\ OnlyAdvances
  <2>1. /\ UNCHANGED <<stage, doc, job, todo>> /\ stage[Api] = "idle" /\ OthersStay(Api)
    BY <1>3, ReconcileFacts DEF Spreads, Reconcile
  <2>2. OthersKeepAll(Api) /\ ~Begun(Api) BY <2>1 DEF OthersKeepAll, Begun
  <2> QED BY <1>1, <2>1, <2>2, KnownInHand, AdvanceOfOne
<1>4. CASE StartApi BY <1>1, <1>4, StartApiFacts, KnownInHand, AdvanceOfOne
<1>5. CASE SubmitBatch \/ (\E w \in Workers : StartFails(w)) \/ UNCHANGED vars
  BY <1>2, <1>5 DEF SubmitBatch, StartFails, vars
<1>6. ASSUME NEW p \in Procs,
             \/ Ingestion(p) \/ Index(p)
             \/ BeginParse(p) \/ Parse(p) \/ WriteManifest(p) \/ ParseFails(p)
      PROVE  KnowsItsDocument' /\ OnlyAdvances
  BY <1>6, HandSteps, HandsOnAdvances
<1>7. ASSUME NEW p \in Procs,
             Crash(p) \/ (p \in Workers /\ (JobMissesDocument(p) \/ SourceMissing(p)))
      PROVE  KnowsItsDocument' /\ OnlyAdvances
  BY <1>7, EndFacts
<1>8. ASSUME NEW w \in Workers, Work(w) PROVE KnowsItsDocument' /\ OnlyAdvances
  BY <1>1, <1>5, <1>6, <1>7, <1>8, StartFacts, ScanFacts DEF Work
<1> QED
  BY <1>3, <1>4, <1>5, <1>6, <1>7, <1>8, UploadFacts DEF Next

LEMMA DocInvariance == Spec => []DocInv
<1>1. Init => KnowsItsDocument
  <2>1. Api \in Procs BY DEF Procs
  <2> QED BY <2>1 DEF Init, KnowsItsDocument
<1>2. CopyInv => TypeOK BY DEF CopyInv
<1>3. KnowsItsDocument /\ TypeOK /\ [Next]_vars => KnowsItsDocument' BY DocNext DEF DocInv
<1> QED BY <1>1, <1>2, <1>3, CopyInvariance, PTL DEF Spec, DocInv

(* No save of a handler is impossible: what a process works on is in its own  *)
(* copy of the store, whatever other processes have written over the file.    *)
THEOREM HandlersKeepDocuments == Spec => []KnowsItsDocument
BY DocInvariance, PTL DEF DocInv

(* No process goes in circles: each step of a handler, a job or a batch       *)
(* leaves it less to do.  With the fairness of FairSpec this is why           *)
(* EveryJobEnds holds.                                                        *)
THEOREM HandlersFinish == Spec => ProcessesAdvance
<1>1. DocInv /\ [Next]_vars => [OnlyAdvances]_vars BY DocNext
<1> QED BY <1>1, DocInvariance, PTL DEF Spec, ProcessesAdvance
-----------------------------------------------------------------------------
(* Why a job can miss its document (DP_missing).                            *)
LEMMA InformedStep ==
  ASSUME InformedInv, NEW p \in Procs, OthersKeepAll(p), NoneGoesMissing,
         \/ KeepsCopies(p) \/ Loads(p)
         \/ \E d \in Docs : Spreads(p, d) /\ \A q \in Procs \ {p} : Running(q) => Knows(q, d),
         \A i \in DOMAIN queue' : queue'[i] \in Docs => KnownToAll(queue'[i]),
         stage'[p] = "loaded" => Knows(p, doc[p])'
  PROVE  InformedInv'
<1>1. SameKnowledge' /\ \A e \in Docs : KnownToAll(e) => KnownToAll(e)'
  BY KnowledgeStays, KnowledgeLoads, KnowledgeSpreads DEF InformedInv
<1>2. QueuedAreKnown'
  <2> SUFFICES ASSUME NEW i \in DOMAIN queue', queue'[i] \in Docs PROVE KnownToAll(queue[i])'
    BY DEF QueuedAreKnown
  <2>1. \A e \in Docs : e = queue'[i] => KnownToAll(e)' BY <1>1
  <2> QED BY <2>1 DEF KnownToAll
<1>3. JobFindsDocument' BY DEF InformedInv, JobFindsDocument, NoneGoesMissing
<1>4. ASSUME NEW q \in Procs, q # p, stage'[q] = "loaded" PROVE Knows(q, doc[q])'
  <2>1. stage'[q] = stage[q] /\ mem'[q] = mem[q] /\ doc'[q] = doc[q]
    BY <1>4 DEF OthersKeepAll, OthersStay
  <2>2. Knows(q, doc[q]) BY <1>4, <2>1 DEF InformedInv
  <2> QED BY <2>1, <2>2 DEF Knows
<1> QED BY <1>1, <1>2, <1>3, <1>4 DEF InformedInv

(* What a running process knows, they all know.                             *)
LEMMA AllKnow ==
  ASSUME InformedInv, NEW p \in Procs, Running(p), NEW d \in Docs, Knows(p, d)
  PROVE  KnownToAll(d) /\ \A q \in Procs \ {p} : Running(q) => Knows(q, d)
BY DEF InformedInv, SameKnowledge, KnownToAll

LEMMA InformedHands ==
  ASSUME DocInv, InformedInv, NEW p \in Procs,
         \/ Ingestion(p) \/ Index(p)
         \/ BeginParse(p) \/ Parse(p) \/ WriteManifest(p) \/ ParseFails(p)
  PROVE  InformedInv'
<1>1. /\ stage[p] \in Active /\ HandsOn(p)
      /\ queue' = queue \/ (queue' = Append(queue, doc[p]) /\ Knows(p, doc[p]))
  BY HandSteps
<1>2. doc[p] \in Docs /\ Running(p) /\ queue \in Seq(Jobs)
  BY <1>1, DocInHand DEF DocInv, Running, Active, TypeOK
<1>3. OthersKeepAll(p) /\ NoneGoesMissing BY <1>1 DEF HandsOn, OthersKeepAll
<1>4. \/ KeepsCopies(p)
      \/ \E d \in Docs : Spreads(p, d) /\ \A q \in Procs \ {p} : Running(q) => Knows(q, d)
  BY <1>1, <1>2, AllKnow DEF HandsOn
<1>5. \A i \in DOMAIN queue' : queue'[i] \in Docs => KnownToAll(queue'[i])
  <2>1. \A i \in DOMAIN queue : queue[i] \in Docs => KnownToAll(queue[i])
    BY DEF InformedInv, QueuedAreKnown
  <2>2. CASE queue' = Append(queue, doc[p]) /\ Knows(p, doc[p])
    <3>1. doc[p] \in Jobs /\ KnownToAll(doc[p]) BY <1>2, <2>2, AllKnow DEF Jobs
    <3> QED BY <1>2, <2>1, <2>2, <3>1, AppendFacts
  <2> QED BY <1>1, <2>1, <2>2
<1>6. stage'[p] # "loaded" BY <1>1 DEF HandsOn, Ends, GoesOn
<1> QED BY <1>3, <1>4, <1>5, <1>6, InformedStep

LEMMA InformedJobs ==
  ASSUME DocInv, InformedInv, NEW w \in Workers, StartJob(w) \/ StartFails(w) \/ ScanDone(w)
  PROVE  InformedInv'
<1>1. w \in Procs /\ queue \in Seq(Jobs) BY DEF Procs, DocInv, TypeOK
<1>2. \A i \in DOMAIN queue : queue[i] \in Docs => KnownToAll(queue[i])
  BY DEF InformedInv, QueuedAreKnown
<1>3. queue # <<>> /\ queue' = Tail(queue) =>
        \A i \in DOMAIN queue' : queue'[i] \in Docs => KnownToAll(queue'[i])
  BY <1>1, <1>2, TailFacts
<1>4. CASE StartJob(w)
  <2>1. stage'[w] = "loaded" => Knows(w, doc[w])'
    <3> SUFFICES ASSUME stage'[w] = "loaded" PROVE Knows(w, doc[w])' OBVIOUS
    <3>1. doc'[w] = Head(queue) /\ Head(queue) \in Docs /\ mem'[w] = file /\ file # Torn
      BY <1>4, StartFacts DEF Loads
    <3>2. 1 \in DOMAIN queue /\ queue[1] = Head(queue) BY <1>1, <1>4, TailFacts DEF StartJob
    <3>3. Listed(Head(queue)) BY <1>2, <3>1, <3>2 DEF KnownToAll
    <3> QED BY <3>1, <3>3 DEF Knows, Listed
  <2>2. queue # <<>> /\ queue' = Tail(queue) BY <1>4 DEF StartJob
  <2> QED BY <1>1, <1>3, <1>4, <2>1, <2>2, StartFacts, InformedStep
<1>5. CASE StartFails(w)
  <2>1. /\ queue # <<>> /\ queue' = Tail(queue)
        /\ UNCHANGED <<mem, file, stage, doc, job, todo>>
    BY <1>5 DEF StartFails
  <2>2. OthersKeepAll(w) /\ KeepsCopies(w)
    BY <2>1 DEF OthersKeepAll, OthersStay, KeepsCopies, Running
  <2>3. NoneGoesMissing BY <1>5 DEF StartFails, NoneGoesMissing
  <2>4. stage'[w] = "loaded" => Knows(w, doc[w])' BY <1>1, <2>1 DEF InformedInv, Knows
  <2> QED BY <1>1, <1>3, <2>1, <2>2, <2>3, <2>4, InformedStep
<1>6. CASE ScanDone(w)
  <2>1. Exit(w, "none") /\ UNCHANGED <<file, queue>> BY <1>6 DEF ScanDone
  <2>2. OthersKeepAll(w) /\ KeepsCopies(w) /\ NoneGoesMissing /\ stage'[w] = "idle"
    BY <2>1, ExitFacts DEF DocInv, OthersKeepAll, KeepsCopies
  <2> QED BY <1>1, <1>2, <2>1, <2>2, InformedStep
<1> QED BY <1>4, <1>5, <1>6

(* A document is stored: every other running process knows it already.      *)
LEMMA InformedIngest ==
  ASSUME DocInv, InformedInv, NEW p \in Procs, NEW d \in Docs, ~StoresUnknown,
         \/ p = Api /\ Upload(d)
         \/ p \in Workers /\ ScanNext(p) /\ d = Head(todo[p])
  PROVE  InformedInv'
<1>1. Running(p) /\ Ingest(p, d) BY PipelineAssumption DEF Upload, ScanNext, Running
<1>2. \A q \in Procs \ {p} : Running(q) => Knows(q, d) BY Zenon DEF StoresUnknown
<1>3. /\ Spreads(p, d) /\ OthersStay(p) /\ \A q \in Procs \ {p} : doc'[q] = doc[q]
      /\ stage'[p] \in {"plain", "queueing"} /\ job' = job /\ queue' = queue /\ NoneGoesMissing
  BY <1>1, IngestSpreads DEF DocInv
<1>4. \A q \in Procs \ {p} : todo'[q] = todo[q] BY DEF Upload, ScanNext, DocInv, TypeOK
<1>5. OthersKeepAll(p) BY <1>3, <1>4 DEF OthersKeepAll
<1>6. \A i \in DOMAIN queue' : queue'[i] \in Docs => KnownToAll(queue'[i])
  BY <1>3 DEF InformedInv, QueuedAreKnown
<1> QED BY <1>2, <1>3, <1>5, <1>6, InformedStep

LEMMA InformedOther ==
  ASSUME DocInv, InformedInv,
         \/ \E p \in Procs : Crash(p) \/ (p \in Workers /\ SourceMissing(p))
         \/ \E d \in Docs : Reconcile(d)
         \/ SubmitBatch \/ StartApi
  PROVE  InformedInv'
<1>1. Api \in Procs /\ queue \in Seq(Jobs) BY DEF Procs, DocInv, TypeOK
<1>2. \A i \in DOMAIN queue : queue[i] \in Docs => KnownToAll(queue[i])
  BY DEF InformedInv, QueuedAreKnown
<1>3. ASSUME NEW p \in Procs, Crash(p) \/ (p \in Workers /\ SourceMissing(p)) PROVE InformedInv'
  <2>1. ~JobMissesDocument(p) BY DEF JobMissesDocument, InformedInv
  <2> QED BY <1>2, <1>3, <2>1, EndFacts, InformedStep
<1>4. ASSUME NEW d \in Docs, Reconcile(d) PROVE InformedInv'
  <2>1. Spreads(Api, d) /\ Knows(Api, d) /\ UNCHANGED <<stage, doc, job, todo, verdict, queue>>
    BY <1>4, ReconcileFacts
  <2>2. OthersKeepAll(Api) /\ NoneGoesMissing /\ stage'[Api] # "loaded"
    BY <1>4, <2>1 DEF OthersKeepAll, Spreads, NoneGoesMissing, Reconcile
  <2>3. \A q \in Procs \ {Api} : Running(q) => Knows(q, d)
    BY <1>1, <2>1, AllKnow DEF Spreads
  <2> QED BY <1>1, <1>2, <2>1, <2>2, <2>3, InformedStep
<1>5. CASE SubmitBatch
  <2>1. queue' = Append(queue, BatchJob) /\ UNCHANGED <<mem, file, stage, doc, job, todo, verdict>>
    BY <1>5 DEF SubmitBatch
  <2>2. BatchJob \in Jobs /\ BatchJob \notin Docs BY PipelineAssumption DEF Jobs
  <2>3. \A i \in DOMAIN queue' : queue'[i] \in Docs => KnownToAll(queue'[i])
    BY <1>1, <1>2, <2>1, <2>2, AppendFacts
  <2>4. OthersKeepAll(Api) /\ KeepsCopies(Api) /\ NoneGoesMissing
    BY <2>1 DEF OthersKeepAll, OthersStay, KeepsCopies, Running, NoneGoesMissing
  <2>5. stage'[Api] # "loaded" BY <1>5, <2>1 DEF SubmitBatch
  <2> QED BY <1>1, <2>3, <2>4, <2>5, InformedStep
<1>6. CASE StartApi
  <2>1. NoneGoesMissing BY <1>6, StartApiFacts DEF NoneGoesMissing
  <2> QED BY <1>1, <1>2, <1>6, <2>1, StartApiFacts, InformedStep
<1> QED BY <1>3, <1>4, <1>5, <1>6

LEMMA InformedNext ==
  ASSUME DocInv, InformedInv, [Next /\ ~StoresUnknown]_vars PROVE InformedInv'
<1>1. Workers \subseteq Procs /\ Api \in Procs BY DEF Procs
<1>2. CASE UNCHANGED vars
  <2>1. OthersKeepAll(Api) /\ KeepsCopies(Api) /\ NoneGoesMissing /\ queue' = queue
        /\ stage' = stage /\ doc' = doc /\ mem' = mem
    BY <1>2 DEF vars, OthersKeepAll, OthersStay, KeepsCopies, Running, NoneGoesMissing
  <2>2. \A i \in DOMAIN queue' : queue'[i] \in Docs => KnownToAll(queue'[i])
    BY <2>1 DEF InformedInv, QueuedAreKnown
  <2>3. stage'[Api] = "loaded" => Knows(Api, doc[Api])' BY <1>1, <2>1 DEF InformedInv, Knows
  <2> QED BY <1>1, <2>1, <2>2, <2>3, InformedStep
<1>3. ASSUME NEW w \in Workers, Work(w), ~StoresUnknown PROVE InformedInv'
  <2>1. ~JobMissesDocument(w) BY <1>1 DEF JobMissesDocument, InformedInv
  <2>2. CASE ScanNext(w)
    <3>1. Head(todo[w]) \in Docs
      <4>1. todo[w] \in Seq(Docs) BY <1>1 DEF DocInv, TypeOK
      <4> QED BY <2>2, <4>1 DEF ScanNext
    <3> QED BY <1>1, <1>3, <2>2, <3>1, InformedIngest
  <2>3. CASE SourceMissing(w) BY <1>1, <2>3, InformedOther
  <2> QED BY <1>1, <1>3, <2>1, <2>2, <2>3, InformedHands, InformedJobs DEF Work
<1>4. ASSUME NEW d \in Docs, Upload(d), ~StoresUnknown PROVE InformedInv'
  BY <1>1, <1>4, InformedIngest
<1>5. ASSUME NEW p \in Procs, Ingestion(p) \/ Index(p) PROVE InformedInv'
  BY <1>5, InformedHands
<1> QED BY <1>2, <1>3, <1>4, <1>5, InformedOther DEF Next

(* A job misses its document only because a document was stored that another  *)
(* running process did not know: without such a store, all copies in use and  *)
(* the file know the same documents, through crashes, torn files, restarts,   *)
(* failed starts, stale statuses and any number of workers.                   *)
THEOREM OnlyUnknownDocumentsAreLost ==
  InformedSpec => [](JobFindsDocument /\ SameKnowledge /\ QueuedAreKnown)
<1>1. InformedSpec => Spec
  <2>1. [Next /\ ~StoresUnknown]_vars => [Next]_vars OBVIOUS
  <2> QED BY <2>1, PTL DEF InformedSpec, Spec
<1>2. Init => InformedInv
  <2> SUFFICES ASSUME Init PROVE InformedInv OBVIOUS
  <2>1. \A p \in Procs, d \in Docs : ~Knows(p, d) /\ ~Listed(d)
    BY DEF Init, Knows, Listed, Empty, Unknown
  <2>2. /\ queue = <<>> /\ \A d \in Docs : verdict[d] = "none"
        /\ \A p \in Procs : stage[p] = "idle"
    BY DEF Init
  <2> QED BY <2>1, <2>2 DEF InformedInv, SameKnowledge, QueuedAreKnown, JobFindsDocument
<1>3. DocInv /\ InformedInv /\ [Next /\ ~StoresUnknown]_vars => InformedInv' BY InformedNext
<1>4. InformedInv => JobFindsDocument /\ SameKnowledge /\ QueuedAreKnown BY DEF InformedInv
<1> QED BY <1>1, <1>2, <1>3, <1>4, DocInvariance, PTL DEF InformedSpec
=============================================================================
