------------------------- MODULE MemoryRecordsProofs -------------------------
(* Proofs about MemoryRecords, for any memories, relations and processes. *)
EXTENDS MemoryRecords, TLAPS

(* What the table of constants says.                                        *)
LEMMA Constants ==
  /\ {Fresh, Disputed, Approved, Rejected, Superseded, Deprecated} \subseteq Record
  /\ Idle \in Operation
  /\ \A m \in Ids : Near(m) \in SUBSET Ids /\ m \in Near(m) /\ Clash[m] \in SUBSET Ids
  /\ \A m \in Ids : \A n \in Near(m) : m \in Near(n)
  /\ \A m \in Atoms : Near(m) = {m}
<1>1. {Fresh, Disputed, Approved, Rejected, Superseded, Deprecated} \subseteq Record
  BY DEF Fresh, Disputed, Approved, Rejected, Superseded, Deprecated, Record
<1>2. Idle \in Operation BY <1>1 DEF Idle, Work, Operation
<1>3. QED BY <1>1, <1>2, RelationAssumption DEF Near

(* An operation before its first list is one.                               *)
LEMMA WorkTyped ==
  ASSUME NEW does \in {"idle", "write", "extract", "mark", "list", "deprecate"},
         NEW ids \in SUBSET Ids, NEW rec \in Record, NEW rest \in SUBSET Ids
  PROVE  /\ Work(does, ids, rec, rest) \in Operation
         /\ Work(does, ids, rec, rest).does = does /\ Work(does, ids, rec, rest).ids = ids
         /\ Work(does, ids, rec, rest).rec = rec /\ Work(does, ids, rec, rest).rest = rest
         /\ Work(does, ids, rec, rest).lists = 0
BY DEF Work, Operation

(* What an operation must bring along when it begins.                       *)
Sound(w) ==
  /\ w \in Operation /\ Shape(w) /\ w.lists = 0
  /\ w.does = "list" => w.ids = {}
  /\ \A m \in w.ids : Reviewed(m, w.rec)
  /\ \A m \in w.ids :
       /\ w.does = "write" =>
            /\ MayBecome(m, StatusIn(db, m), w.rec.status)
            /\ w.rec.status \in {"candidate", "active", "stale_suspect", "superseded"} => Accepted(m)
       /\ w.does = "extract" =>
            /\ w.rec = Disputed => Clash[m] # {}
            /\ w.rec = Fresh => \A n \in Near(m) : ~Live(n)

(* An operation that begins reads only.                                     *)
LEMMA BeginStep ==
  ASSUME MInv, NEW p \in Procs, NEW w, Sound(w), Begin(p, w)
  PROVE  MInv'
<1>1. UNCHANGED <<db, stale, raced>> /\ op' = [op EXCEPT ![p] = w] /\ begun' = begun + 1
  BY DEF Begin
<1>2. op'[p] = w /\ \A q \in Procs \ {p} : op'[q] = op[q]
  BY <1>1 DEF MInv, TypeOK
<1>3. TypeOK' BY <1>1 DEF MInv, TypeOK, Sound
<1>4. ASSUME NEW q \in Procs
      PROVE  (Shape(op[q]) /\ WritesStillHold(q) /\ ListedIsFound(q))'
  <2>1. CASE q = p
    <3>1. Shape(op[q])' BY <2>1, <1>2 DEF Sound
    <3>2. WritesStillHold(q)'
      BY <2>1, <1>2, <1>1 DEF Sound, WritesStillHold, MayBecome, StatusIn, Accepted, Is, Live
    <3>3. ListedIsFound(q)'
      <4>1. w.does # "deprecate" /\ w.lists = 0 /\ (w.does = "list" => w.ids = {})
        BY DEF Sound, Shape
      <4>2. 1 .. w.lists = {} BY <4>1
      <4>3. QED BY <4>1, <4>2, <2>1, <1>2 DEF ListedIsFound
    <3>4. QED BY <3>1, <3>2, <3>3
  <2>2. CASE q # p
    <3>1. op'[q] = op[q] /\ stale'[q] = stale[q] BY <2>2, <1>1, <1>2
    <3>2. QED BY <3>1, <1>1
          DEF MInv, Shape, WritesStillHold, ListedIsFound, MayBecome, StatusIn, Accepted, Is, Live
  <2>3. QED BY <2>1, <2>2
<1>5. RecordsAreReviewed'
  BY <1>1, <1>2 DEF MInv, RecordsAreReviewed, Sound
<1>6. OneVersion' BY <1>1 DEF MInv, OneVersion, Accepted, Is
<1>7. QED BY <1>3, <1>4, <1>5, <1>6 DEF MInv

LEMMA ListedStatuses ==
  /\ \A k \in 1 .. 5 : Listed(k) # "deprecated"
  /\ \A rec \in Record : rec.status # "deprecated" => \E k \in 1 .. 5 : rec.status = Listed(k)
<1>1. /\ Listed(1) = "active" /\ Listed(2) = "candidate" /\ Listed(3) = "conflict"
      /\ Listed(4) = "stale_suspect" /\ Listed(5) = "superseded"
  BY DEF Listed
<1>2. \A k \in 1 .. 5 : k = 1 \/ k = 2 \/ k = 3 \/ k = 4 \/ k = 5 OBVIOUS
<1>3. \A k \in 1 .. 5 : Listed(k) # "deprecated" BY <1>1, <1>2
<1>4. ASSUME NEW rec \in Record, rec.status # "deprecated"
      PROVE  \E k \in 1 .. 5 : rec.status = Listed(k)
  BY <1>1, <1>4 DEF Record
<1>5. QED BY <1>3, <1>4

(* A record is written: the reads of the others about it become stale, and  *)
(* two accepted memories stay compatible if the write was not a first       *)
(* acceptance on stale ground.                                              *)
LEMMA UpsertStep ==
  ASSUME MInv, NEW p \in Procs, NEW m \in Ids, NEW rec \in Record, NEW w \in Operation,
         Upsert(p, m, rec, w), begun' \in Nat, raced \subseteq raced', raced' \subseteq Ids,
         Reviewed(m, rec), Shape(w),
         \/ w.does \in {"idle", "mark"}
         \/ /\ op[p].does = "deprecate" /\ rec = Deprecated
            /\ w = [op[p] EXCEPT !.ids = @ \ {m}],
         rec.status \in {"candidate", "active", "stale_suspect", "superseded"} =>
           m \in raced' \/ Accepted(m) \/ \A n \in Near(m) \ {m} : ~Accepted(n)
  PROVE  MInv'
<1>1. /\ db' = [db EXCEPT ![m] = rec] /\ op' = [op EXCEPT ![p] = w]
      /\ stale' = [q \in Procs |-> IF q = p
                                   THEN IF w = Idle THEN {} ELSE stale[q]
                                   ELSE IF op[q] = Idle THEN {} ELSE stale[q] \cup {m}]
  BY DEF Upsert
<1>2. /\ db'[m] = rec /\ \A n \in Ids \ {m} : db'[n] = db[n]
      /\ op'[p] = w /\ \A q \in Procs \ {p} : op'[q] = op[q]
      /\ rec # None
  BY <1>1, NoneAssumption DEF MInv, TypeOK
<1>3. TypeOK' BY <1>1 DEF MInv, TypeOK
<1>4. w.does \in {"idle", "mark"} => w.ids = {}
  BY DEF Shape, Idle, Work
<1>5. ASSUME NEW q \in Procs
      PROVE  (Shape(op[q]) /\ WritesStillHold(q) /\ ListedIsFound(q))'
  <2>1. CASE q = p
    <3>1. Shape(op[q])' BY <2>1, <1>2 DEF Shape
    <3>2. CASE w.does \in {"idle", "mark"}
      BY <2>1, <1>2, <1>4, <3>1, <3>2 DEF WritesStillHold, ListedIsFound
    <3>3. CASE /\ op[p].does = "deprecate" /\ rec = Deprecated
               /\ w = [op[p] EXCEPT !.ids = @ \ {m}]
      <4>1. op[p] \in Operation BY DEF MInv, TypeOK
      <4>2. w.does = "deprecate" /\ w.ids = op[p].ids \ {m} /\ w.lists = op[p].lists /\ w # Idle
        BY <3>3, <4>1 DEF Operation, Idle, Work
      <4>3. stale'[p] = stale[p] BY <1>1, <4>2
      <4>4. op[p].lists \in 0 .. 5 BY <4>1 DEF Operation
      <4>5. ~ \E k \in 1 .. op[p].lists : rec.status = Listed(k)
        BY <3>3, <4>4, ListedStatuses DEF Deprecated
      <4>9. \A n \in w.ids : db'[n] # None
        <5>1. \A n \in w.ids : n \in Ids \ {m} /\ n \in op[p].ids BY <4>1, <4>2 DEF Operation
        <5>2. \A n \in op[p].ids : db[n] # None BY <3>3 DEF MInv, ListedIsFound
        <5>3. QED BY <5>1, <5>2, <1>2
      <4>6. ListedIsFound(p)'
        <5>1. SUFFICES ASSUME NEW n \in Ids \ stale[p], NEW k \in 1 .. op[p].lists,
                              Is(n, {Listed(k)})'
                       PROVE  n \in w.ids
          BY <1>2, <4>2, <4>3, <4>9 DEF ListedIsFound
        <5>2. n # m BY <5>1, <1>2, <4>5 DEF Is
        <5>3. Is(n, {Listed(k)}) BY <5>1, <5>2, <1>2 DEF Is
        <5>4. n \in op[p].ids BY <5>3, <3>3 DEF MInv, ListedIsFound
        <5>5. QED BY <5>2, <5>4, <4>2
      <4>7. WritesStillHold(p)' BY <1>2, <4>2 DEF WritesStillHold
      <4>8. QED BY <2>1, <3>1, <4>6, <4>7
    <3>4. QED BY <3>2, <3>3
  <2>2. CASE q # p
    <3>1. op'[q] = op[q] BY <2>2, <1>2
    <3>2. CASE op[q] = Idle
      BY <3>1, <3>2 DEF MInv, Shape, WritesStillHold, ListedIsFound, Idle, Work
    <3>3. CASE op[q] # Idle
      <4>1. stale'[q] = stale[q] \cup {m} BY <3>3, <2>2, <1>1
      <4>2. \A n \in Ids \ stale'[q] : n \notin stale[q] /\ db'[n] = db[n] BY <4>1, <1>2
      <4>3. op[q].ids \in SUBSET Ids BY DEF MInv, TypeOK, Operation
      <4>4. WritesStillHold(q) /\ ListedIsFound(q) /\ Shape(op[q]) BY DEF MInv
      <4>5. WritesStillHold(q)'
        <5>1. SUFFICES ASSUME NEW n \in op[q].ids
              PROVE /\ op[q].does = "write" /\ n \notin stale'[q] =>
                         /\ MayBecome(n, StatusIn(db', n), op[q].rec.status)
                         /\ op[q].rec.status \in {"candidate", "active", "stale_suspect", "superseded"}
                              => Accepted(n)'
                    /\ op[q].does = "extract" =>
                         /\ op[q].rec = Disputed => Clash[n] # {}
                         /\ op[q].rec = Fresh => \A k \in Near(n) \ stale'[q] : ~Live(k)'
          BY <3>1 DEF WritesStillHold
        <5>2. n \in Ids /\ Near(n) \in SUBSET Ids BY <4>3, Constants
        <5>3. ASSUME op[q].does = "write", n \notin stale'[q]
              PROVE  /\ MayBecome(n, StatusIn(db', n), op[q].rec.status)
                     /\ op[q].rec.status \in {"candidate", "active", "stale_suspect", "superseded"}
                          => Accepted(n)'
          <6>1. n \notin stale[q] /\ db'[n] = db[n] BY <5>2, <5>3, <4>2
          <6>2. StatusIn(db', n) = StatusIn(db, n) /\ (Accepted(n) => Accepted(n)')
            BY <6>1 DEF StatusIn, Accepted, Is
          <6>3. QED BY <6>1, <6>2, <4>4, <5>3 DEF WritesStillHold
        <5>4. ASSUME op[q].does = "extract", op[q].rec = Fresh, NEW k \in Near(n) \ stale'[q]
              PROVE  ~Live(k)'
          <6>1. k \in Ids /\ k \notin stale[q] /\ db'[k] = db[k] BY <5>2, <4>2
          <6>2. ~Live(k) BY <6>1, <4>4, <5>4 DEF WritesStillHold
          <6>3. QED BY <6>1, <6>2 DEF Live
        <5>5. op[q].does = "extract" => (op[q].rec = Disputed => Clash[n] # {})
          BY <4>4 DEF WritesStillHold
        <5>6. QED BY <5>3, <5>4, <5>5
      <4>6. ListedIsFound(q)'
        <5>1. ASSUME op[q].does \in {"list", "deprecate"}, NEW n \in op[q].ids
              PROVE  db'[n] # None
          BY <5>1, <1>2, <4>3, <4>4 DEF ListedIsFound
        <5>2. QED BY <3>1, <4>2, <4>4, <5>1 DEF ListedIsFound, Is
      <4>7. QED BY <3>1, <4>4, <4>5, <4>6
    <3>4. QED BY <3>2, <3>3
  <2>3. QED BY <2>1, <2>2
<1>6. RecordsAreReviewed'
  <2>1. \A n \in Ids : db'[n] # None => Reviewed(n, db'[n])
    BY <1>2 DEF MInv, RecordsAreReviewed
  <2>2. ASSUME NEW q \in Procs, NEW n \in op'[q].ids PROVE Reviewed(n, op'[q].rec)
    <3>1. CASE q # p BY <3>1, <2>2, <1>2 DEF MInv, RecordsAreReviewed
    <3>2. CASE q = p
      <4>1. w.ids \subseteq op[p].ids /\ (w.ids # {} => w.rec = op[p].rec)
        BY <1>4 DEF MInv, TypeOK, Operation
      <4>2. QED BY <3>2, <4>1, <2>2, <1>2 DEF MInv, RecordsAreReviewed
    <3>3. QED BY <3>1, <3>2
  <2>3. QED BY <2>1, <2>2 DEF RecordsAreReviewed
<1>7. OneVersion'
  <2>1. SUFFICES ASSUME NEW a \in Ids, NEW b \in Near(a) \ {a}, Accepted(a)', Accepted(b)'
                 PROVE  a \in raced' \/ b \in raced'
    BY DEF OneVersion
  <2>2. b \in Ids /\ a \in Near(b) \ {b} BY Constants
  <2>3. \A n \in Ids \ {m} : Accepted(n)' => Accepted(n) BY <1>2 DEF Accepted, Is
  <2>4. OneVersion BY DEF MInv
  <2>5. CASE a # m /\ b # m BY <2>1, <2>2, <2>3, <2>4, <2>5 DEF OneVersion
  <2>6. ASSUME NEW c \in Near(m) \ {m}, Accepted(m)', Accepted(c)'
        PROVE  m \in raced' \/ c \in raced'
    <3>1. c \in Ids BY Constants
    <3>2. Accepted(c) BY <2>3, <2>6, <3>1
    <3>3. rec.status \in {"candidate", "active", "stale_suspect", "superseded"}
      BY <2>6, <1>2 DEF Accepted, Is
    <3>4. m \in raced' \/ Accepted(m) BY <3>2, <3>3
    <3>5. QED BY <3>2, <3>4, <2>4 DEF OneVersion
  <2>7. QED BY <2>1, <2>2, <2>5, <2>6
<1>8. QED BY <1>3, <1>5, <1>6, <1>7 DEF MInv

(* An operation ends, with or without an answer.                            *)
LEMMA LeaveStep ==
  ASSUME MInv, NEW p \in Procs, Leave(p)
  PROVE  MInv'
<1>1. UNCHANGED <<db, begun, raced>> /\ op' = [op EXCEPT ![p] = Idle]
  BY DEF Leave
<1>2. op'[p] = Idle /\ \A q \in Procs \ {p} : op'[q] = op[q] /\ stale'[q] = stale[q]
  BY DEF MInv, TypeOK, Leave
<1>3. TypeOK' BY <1>1, Constants DEF MInv, TypeOK, Leave
<1>4. Idle.does = "idle" /\ Idle.ids = {} BY DEF Idle, Work
<1>5. ASSUME NEW q \in Procs
      PROVE  (Shape(op[q]) /\ WritesStillHold(q) /\ ListedIsFound(q))'
  <2>1. CASE q = p
    BY <2>1, <1>2, <1>4 DEF Shape, WritesStillHold, ListedIsFound
  <2>2. CASE q # p
    BY <2>2, <1>1, <1>2
       DEF MInv, Shape, WritesStillHold, ListedIsFound, MayBecome, StatusIn, Accepted, Is, Live
  <2>3. QED BY <2>1, <2>2
<1>6. RecordsAreReviewed' BY <1>1, <1>2, <1>4 DEF MInv, RecordsAreReviewed
<1>7. OneVersion' BY <1>1 DEF MInv, OneVersion, Accepted, Is
<1>8. QED BY <1>3, <1>5, <1>6, <1>7 DEF MInv

(* What an operator, a retrieval or an extraction is about to write is      *)
(* allowed by what it has just read.                                        *)
LEMMA WritingIsSound ==
  ASSUME MInv, NEW m \in Ids, NEW rec \in Record, Reviewed(m, rec),
         MayBecome(m, StatusIn(db, m), rec.status),
         rec.status \in {"candidate", "active", "stale_suspect", "superseded"} => Accepted(m)
  PROVE  Sound(Writing(m, rec))
<1>1. /\ Writing(m, rec) \in Operation
      /\ Writing(m, rec).does = "write" /\ Writing(m, rec).ids = {m}
      /\ Writing(m, rec).rec = rec /\ Writing(m, rec).lists = 0
  BY WorkTyped DEF Writing
<1>2. QED BY <1>1 DEF Sound, Shape

LEMMA ExtractingIsSound ==
  ASSUME MInv, NEW m \in Ids, NEW rec \in {Fresh, Disputed},
         rec = Disputed => Clash[m] # {},
         rec = Fresh => \A n \in Near(m) : ~Live(n)
  PROVE  Sound(Extracting(m, rec))
<1>1. rec \in Record BY Constants
<1>2. /\ Extracting(m, rec) \in Operation
      /\ Extracting(m, rec).does = "extract" /\ Extracting(m, rec).ids = {m}
      /\ Extracting(m, rec).rec = rec /\ Extracting(m, rec).lists = 0
      /\ Extracting(m, rec).rest = {}
  BY <1>1, WorkTyped DEF Extracting
<1>3. Reviewed(m, rec) BY DEF Reviewed, Fresh, Disputed
<1>4. QED BY <1>2, <1>3 DEF Sound, Shape

LEMMA OperatorStep ==
  ASSUME MInv, NEW p \in Procs, NEW m \in Ids,
         \/ Access(p, m) \/ Approve(p, m) \/ Reject(p, m) \/ Restore(p, m) \/ Supersede(p, m)
         \/ ExtractConflict(p, m) \/ ExtractNew(p, m)
  PROVE  MInv'
<1>1. {Approved, Rejected, Superseded} \subseteq Record BY Constants
<1>2. CASE Access(p, m)
  <2>1. db[m] \in Record /\ Reviewed(m, db[m]) BY <1>2 DEF Access, MInv, TypeOK, RecordsAreReviewed
  <2>2. MayBecome(m, StatusIn(db, m), db[m].status) BY <1>2 DEF Access, MayBecome, StatusIn
  <2>3. db[m].status \in {"candidate", "active", "stale_suspect", "superseded"} => Accepted(m)
    BY <1>2 DEF Access, Accepted, Is
  <2>4. QED BY <1>2, <2>1, <2>2, <2>3, WritingIsSound, BeginStep DEF Access
<1>3. CASE Approve(p, m) \/ Restore(p, m)
  <2>1. /\ Is(m, {"candidate", "stale_suspect"}) /\ m \notin Summaries
        /\ Begin(p, Writing(m, Approved))
    BY <1>3 DEF Approve, Restore, Is, MInv, RecordsAreReviewed, Reviewed
  <2>2. Reviewed(m, Approved) BY <2>1 DEF Reviewed, Approved
  <2>3. MayBecome(m, StatusIn(db, m), Approved.status)
    BY <2>1 DEF Approved, MayBecome, StatusIn, Is, Lifecycle
  <2>4. Accepted(m) BY <2>1 DEF Accepted, Is
  <2>5. QED BY <1>1, <2>1, <2>2, <2>3, <2>4, WritingIsSound, BeginStep
<1>4. CASE Reject(p, m)
  <2>1. Reviewed(m, Rejected) BY DEF Reviewed, Rejected
  <2>2. MayBecome(m, StatusIn(db, m), Rejected.status)
    BY <1>4 DEF Reject, Rejected, MayBecome, StatusIn, Is, Lifecycle
  <2>3. Rejected.status = "deprecated" BY DEF Rejected
  <2>4. QED BY <1>1, <1>4, <2>1, <2>2, <2>3, WritingIsSound, BeginStep DEF Reject
<1>5. CASE Supersede(p, m)
  <2>1. Reviewed(m, Superseded) BY DEF Reviewed, Superseded
  <2>2. MayBecome(m, StatusIn(db, m), Superseded.status)
    BY <1>5 DEF Supersede, Superseded, MayBecome, StatusIn, Is, Lifecycle
  <2>3. Accepted(m) BY <1>5 DEF Supersede, Accepted, Is
  <2>4. QED BY <1>1, <1>5, <2>1, <2>2, <2>3, WritingIsSound, BeginStep DEF Supersede
<1>6. Fresh # Disputed BY DEF Fresh, Disputed
<1>7. CASE ExtractConflict(p, m)
  BY <1>6, <1>7, ExtractingIsSound, BeginStep DEF ExtractConflict
<1>8. CASE ExtractNew(p, m)
  BY <1>6, <1>8, ExtractingIsSound, BeginStep DEF ExtractNew
<1>9. QED BY <1>2, <1>3, <1>4, <1>5, <1>7, <1>8

LEMMA StoreAtomStep ==
  ASSUME MInv, NEW p \in Procs, NEW m \in Ids, StoreAtom(p, m)
  PROVE  MInv'
<1>1. Upsert(p, m, Fresh, Idle) /\ raced' = raced /\ begun' = begun + 1 /\ m \in Atoms
  BY DEF StoreAtom
<1>2. Fresh \in Record /\ Idle \in Operation /\ Near(m) \ {m} = {} BY <1>1, Constants
<1>3. Shape(Idle) /\ Idle.does = "idle" BY DEF Shape, Idle, Work
<1>4. Reviewed(m, Fresh) BY DEF Reviewed, Fresh
<1>5. raced \subseteq raced' /\ raced' \subseteq Ids /\ begun' \in Nat BY <1>1 DEF MInv, TypeOK
<1>6. \A n \in Near(m) \ {m} : ~Accepted(n) BY <1>2
<1>7. QED BY <1>1, <1>2, <1>3, <1>4, <1>5, <1>6, UpsertStep

(* A write on fresh ground keeps accepted memories compatible.              *)
LEMMA WriteStep ==
  ASSUME MInv, NEW p \in Procs, NEW m \in Ids, Write(p, m)
  PROVE  MInv'
<1> DEFINE w == IF op[p].rest = {} THEN Idle ELSE Work("mark", {}, Fresh, op[p].rest)
           rec == op[p].rec
<1>1. /\ op[p].does \in {"write", "extract"} /\ m \in op[p].ids /\ Upsert(p, m, rec, w)
      /\ raced' = IF RestsOnStale(p, m) THEN raced \cup {m} ELSE raced
      /\ begun' = begun
  BY DEF Write
<1>2. op[p] \in Operation /\ Shape(op[p]) /\ WritesStillHold(p) BY DEF MInv, TypeOK
<1>3. rec \in Record /\ op[p].rest \in SUBSET Ids BY <1>2 DEF Operation
<1>4. w \in Operation /\ w.does \in {"idle", "mark"} /\ Shape(w)
  <2>1. CASE op[p].rest = {} BY <2>1, Constants DEF Shape, Idle, Work
  <2>2. CASE op[p].rest # {} BY <2>2, <1>3, Constants, WorkTyped DEF Shape
  <2>3. QED BY <2>1, <2>2
<1>5. Reviewed(m, rec) BY <1>1 DEF MInv, RecordsAreReviewed
<1>6. raced \subseteq raced' /\ raced' \subseteq Ids /\ begun' \in Nat BY <1>1 DEF MInv, TypeOK
<1>7. ASSUME rec.status \in {"candidate", "active", "stale_suspect", "superseded"}, m \notin raced'
      PROVE  Accepted(m) \/ \A n \in Near(m) \ {m} : ~Accepted(n)
  <2>1. ~RestsOnStale(p, m) BY <1>1, <1>7
  <2>2. CASE op[p].does = "write"
    <3>1. m \notin stale[p] BY <2>1, <2>2 DEF RestsOnStale
    <3>2. QED BY <3>1, <2>2, <1>1, <1>2, <1>7 DEF WritesStillHold
  <2>3. CASE op[p].does = "extract"
    <3>1. stale[p] \cap Near(m) = {} BY <2>1, <2>3 DEF RestsOnStale
    <3>2. rec = Fresh BY <1>2, <1>7, <2>3 DEF Shape, Disputed
    <3>3. \A n \in Near(m) : ~Live(n) BY <3>1, <3>2, <2>3, <1>1, <1>2 DEF WritesStillHold
    <3>4. QED BY <3>3 DEF Live, Accepted, Is
  <2>4. QED BY <1>1, <2>2, <2>3
<1> HIDE DEF w, rec
<1>8. QED BY <1>1, <1>3, <1>4, <1>5, <1>6, <1>7, UpsertStep

LEMMA DeprecateStep ==
  ASSUME MInv, NEW p \in Procs, NEW m \in Ids, Deprecate(p, m)
  PROVE  MInv'
<1> DEFINE w == [op[p] EXCEPT !.ids = @ \ {m}]
<1>1. /\ op[p].does = "deprecate" /\ m \in op[p].ids /\ Upsert(p, m, op[p].rec, w)
      /\ raced' = raced /\ begun' = begun
  BY DEF Deprecate
<1>2. op[p] \in Operation /\ Shape(op[p]) BY DEF MInv, TypeOK
<1>3. op[p].rec = Deprecated /\ Deprecated \in Record BY <1>1, <1>2, Constants DEF Shape
<1>4. w \in Operation BY <1>2 DEF Operation
<1>5. Shape(w)
  <2>1. w.does = "deprecate" /\ w.rec = op[p].rec /\ w.lists = op[p].lists
    BY <1>1, <1>2 DEF Operation
  <2>2. QED BY <2>1, <1>1, <1>2, <1>3 DEF Shape
<1>6. Reviewed(m, Deprecated) BY DEF Reviewed, Deprecated
<1>7. raced \subseteq raced' /\ raced' \subseteq Ids /\ begun' \in Nat BY <1>1 DEF MInv, TypeOK
<1>8. Deprecated.status = "deprecated" BY DEF Deprecated
<1> HIDE DEF w
<1>9. Upsert(p, m, Deprecated, w) BY <1>1, <1>3
<1>10. \/ w.does \in {"idle", "mark"}
       \/ op[p].does = "deprecate" /\ Deprecated = Deprecated /\ w = [op[p] EXCEPT !.ids = @ \ {m}]
  BY <1>1 DEF w
<1>11. QED BY <1>3, <1>4, <1>5, <1>6, <1>7, <1>8, <1>9, <1>10, UpsertStep

(* One memory is read again to be marked.                                   *)
LEMMA MarkStep ==
  ASSUME MInv, NEW p \in Procs, NEW m \in Ids, MarkStaleSuspect(p, m)
  PROVE  MInv'
<1> DEFINE rec == [db[m] EXCEPT !.status = "stale_suspect"]
           w == Work("write", {m}, rec, op[p].rest \ {m})
<1>1. /\ Is(m, {"active"}) /\ op' = [op EXCEPT ![p] = w] /\ stale' = [stale EXCEPT ![p] = @ \ {m}]
      /\ UNCHANGED <<db, begun, raced>>
  BY DEF MarkStaleSuspect
<1>2. /\ db[m] \in Record /\ db[m].status = "active" /\ Reviewed(m, db[m])
      /\ op[p].rest \in SUBSET Ids
  BY <1>1 DEF Is, MInv, TypeOK, Operation, RecordsAreReviewed
<1>3. rec \in Record /\ rec.status = "stale_suspect" /\ rec.review = db[m].review
  BY <1>2 DEF Record
<1>4. Reviewed(m, rec) BY <1>2, <1>3 DEF Reviewed
<1> HIDE DEF rec
<1>5. /\ w \in Operation /\ w.does = "write" /\ w.ids = {m} /\ w.rec = rec
  BY <1>2, <1>3, WorkTyped
<1> HIDE DEF w
<1>6. op'[p] = w /\ \A q \in Procs \ {p} : op'[q] = op[q] /\ stale'[q] = stale[q]
  BY <1>1 DEF MInv, TypeOK
<1>7. TypeOK' BY <1>1, <1>5 DEF MInv, TypeOK
<1>8. ASSUME NEW q \in Procs
      PROVE  (Shape(op[q]) /\ WritesStillHold(q) /\ ListedIsFound(q))'
  <2>1. CASE q = p
    <3>1. Shape(w) BY <1>5 DEF Shape
    <3>2. MayBecome(m, StatusIn(db', m), "stale_suspect")
      BY <1>1 DEF MayBecome, StatusIn, Is, Lifecycle
    <3>3. Accepted(m)' BY <1>1 DEF Accepted, Is
    <3>4. QED BY <2>1, <3>1, <3>2, <3>3, <1>3, <1>5, <1>6 DEF WritesStillHold, ListedIsFound
  <2>2. CASE q # p
    BY <2>2, <1>1, <1>6
       DEF MInv, Shape, WritesStillHold, ListedIsFound, MayBecome, StatusIn, Accepted, Is, Live
  <2>3. QED BY <2>1, <2>2
<1>9. RecordsAreReviewed'
  BY <1>1, <1>4, <1>5, <1>6 DEF MInv, RecordsAreReviewed
<1>10. OneVersion' BY <1>1 DEF MInv, OneVersion, Accepted, Is
<1>11. QED BY <1>7, <1>8, <1>9, <1>10 DEF MInv

LEMMA ListStep ==
  ASSUME MInv, NEW p \in Procs, ListNext(p)
  PROVE  MInv'
<1> DEFINE k == op[p].lists + 1
           found == {m \in Ids : Is(m, {Listed(k)})}
           w == op'[p]
<1>1. op[p] \in Operation /\ Shape(op[p]) /\ op[p].does = "list" /\ UNCHANGED <<db, begun, stale, raced>>
  BY DEF ListNext, MInv, TypeOK
<1>2. k \in 1 .. 5 /\ op[p].lists \in Nat BY <1>1 DEF Operation, Shape
<1>3. /\ w = [does |-> IF k = 5 THEN "deprecate" ELSE "list", ids |-> op[p].ids \cup found,
              rec |-> Deprecated, rest |-> {}, lists |-> k]
      /\ op' = [op EXCEPT ![p] = w]
      /\ \A q \in Procs \ {p} : op'[q] = op[q]
  BY DEF ListNext, MInv, TypeOK
<1>4. w \in Operation BY <1>1, <1>2, <1>3, Constants DEF Operation
<1> HIDE DEF found, k
<1>5. TypeOK'
  BY <1>1, <1>3, <1>4 DEF MInv, TypeOK
<1>6. ASSUME NEW q \in Procs
      PROVE  (Shape(op[q]) /\ WritesStillHold(q) /\ ListedIsFound(q))'
  <2>1. CASE q = p
    <3>1. Shape(w) BY <1>2, <1>3 DEF Shape, k
    <3>2. WritesStillHold(p)' BY <1>3 DEF WritesStillHold
    <3>3. ASSUME NEW m \in Ids \ stale[p], NEW j \in 1 .. k, Is(m, {Listed(j)})
          PROVE  m \in w.ids
      <4>1. CASE j = k BY <4>1, <3>3, <1>3 DEF found
      <4>2. CASE j # k
        <5>1. j \in 1 .. op[p].lists BY <4>2, <1>2, <3>3 DEF k
        <5>2. ListedIsFound(p) BY DEF MInv
        <5>3. m \in op[p].ids BY <5>1, <5>2, <3>3, <1>1 DEF ListedIsFound
        <5>4. QED BY <5>3, <1>3
      <4>3. QED BY <4>1, <4>2
    <3>4. ListedIsFound(p)'
      <4>1. stale'[p] = stale[p] /\ w.lists = k BY <1>1, <1>3
      <4>2. \A m, j : Is(m, {Listed(j)})' <=> Is(m, {Listed(j)}) BY <1>1 DEF Is
      <4>3. \A m \in w.ids : db[m] # None
        BY <1>1, <1>3 DEF found, Is, MInv, ListedIsFound
      <4>4. QED BY <4>1, <4>2, <4>3, <3>3, <1>1 DEF ListedIsFound
    <3>5. QED BY <2>1, <3>1, <3>2, <3>4
  <2>2. CASE q # p
    BY <2>2, <1>1, <1>3
       DEF MInv, Shape, WritesStillHold, ListedIsFound, MayBecome, StatusIn, Accepted, Is, Live
  <2>3. QED BY <2>1, <2>2
<1>7. RecordsAreReviewed'
  <2>1. \A m \in Ids : Reviewed(m, Deprecated) BY DEF Reviewed, Deprecated
  <2>2. w.rec = Deprecated /\ w.ids \in SUBSET Ids BY <1>3, <1>4 DEF Operation
  <2>3. QED BY <2>1, <2>2, <1>1, <1>3 DEF MInv, RecordsAreReviewed
<1>8. OneVersion' BY <1>1 DEF MInv, OneVersion, Accepted, Is
<1>9. QED BY <1>5, <1>6, <1>7, <1>8 DEF MInv

(* The operations that begin with nothing to write.                         *)
LEMMA BeginEmpty ==
  ASSUME MInv, NEW p \in Procs, DetectConflicts(p) \/ DeprecateOwner(p)
  PROVE  MInv'
<1>1. CASE DetectConflicts(p)
  <2>1. PICK found \in SUBSET Ids : Begin(p, Work("mark", {}, Fresh, found))
    BY <1>1 DEF DetectConflicts
  <2>2. Sound(Work("mark", {}, Fresh, found)) BY Constants, WorkTyped DEF Sound, Shape
  <2>3. QED BY <2>1, <2>2, BeginStep
<1>2. CASE DeprecateOwner(p)
  <2>1. Sound(Work("list", {}, Deprecated, {})) BY Constants, WorkTyped DEF Sound, Shape
  <2>2. QED BY <1>2, <2>1, BeginStep DEF DeprecateOwner
<1>3. QED BY <1>1, <1>2

LEMMA Initially == Init => MInv
<1> SUFFICES ASSUME Init PROVE MInv OBVIOUS
<1>1. TypeOK BY Constants DEF Init, TypeOK
<1>2. Idle.does = "idle" /\ Idle.ids = {} BY DEF Idle, Work
<1>3. \A p \in Procs : Shape(op[p]) /\ WritesStillHold(p) /\ ListedIsFound(p)
  BY <1>2 DEF Init, Shape, WritesStillHold, ListedIsFound
<1>4. RecordsAreReviewed BY <1>2 DEF Init, RecordsAreReviewed
<1>5. \A m \in Ids : ~Accepted(m) BY DEF Init, Accepted, Is
<1>6. OneVersion BY <1>5 DEF OneVersion
<1>7. QED BY <1>1, <1>3, <1>4, <1>6 DEF MInv

LEMMA Stutter == MInv /\ UNCHANGED vars => MInv'
<1> SUFFICES ASSUME MInv, UNCHANGED vars PROVE MInv' OBVIOUS
<1>1. UNCHANGED <<db, op, begun, stale, raced>> BY DEF vars
<1>2. TypeOK' BY <1>1 DEF MInv, TypeOK
<1>3. \A p \in Procs : (Shape(op[p]) /\ WritesStillHold(p) /\ ListedIsFound(p))'
  BY <1>1 DEF MInv, Shape, WritesStillHold, ListedIsFound, MayBecome, StatusIn, Accepted, Is, Live
<1>4. RecordsAreReviewed' BY <1>1 DEF MInv, RecordsAreReviewed
<1>5. OneVersion' BY <1>1 DEF MInv, OneVersion, Accepted, Is
<1>6. QED BY <1>2, <1>3, <1>4, <1>5 DEF MInv

LEMMA Steps == MInv /\ [Next]_vars => MInv'
<1> SUFFICES ASSUME MInv, [Next]_vars PROVE MInv' OBVIOUS
<1>1. CASE UNCHANGED vars BY <1>1, Stutter
<1>2. ASSUME NEW p \in Procs, NEW m \in Ids, Operate(p, m) PROVE MInv'
  BY <1>2, OperatorStep, StoreAtomStep, MarkStep, WriteStep, DeprecateStep DEF Operate
<1>3. ASSUME NEW p \in Procs, Answer(p) \/ MarkRaises(p) \/ Fail(p) PROVE MInv'
  BY <1>3, LeaveStep DEF Answer, MarkRaises, Fail
<1>4. QED BY <1>1, <1>2, <1>3, BeginEmpty, ListStep DEF Next, Step

(* The invariant holds: among others every stored record has the decision   *)
(* its status needs, whatever the processes do to each other's rows.        *)
THEOREM Invariance == Spec => []MInv
BY Initially, Steps, PTL DEF Spec

(* No active memory without an operator's approval.                         *)
THEOREM OnlyReviewed == Spec => []RecordsAreReviewed
<1>1. MInv => RecordsAreReviewed BY DEF MInv
<1>2. QED BY <1>1, Invariance, PTL

(* Memories that contradict or repeat each other are not accepted together, *)
(* unless one was written on the ground of a stale read.                    *)
THEOREM NoTwoVersions == Spec => []OneVersion
<1>1. MInv => OneVersion BY DEF MInv
<1>2. QED BY <1>1, Invariance, PTL

(* What a deprecation has not found is not live, or was written meanwhile.  *)
LEMMA FoundAll == MInv => DeprecatedAll
<1> SUFFICES ASSUME MInv, NEW p \in Procs, op[p].does = "deprecate", op[p].ids = {},
                    NEW m \in Ids \ stale[p], Live(m)
             PROVE  FALSE
  BY DEF DeprecatedAll
<1>1. db[m] \in Record /\ db[m] # None /\ db[m].status # "deprecated"
  BY DEF Live, MInv, TypeOK
<1>2. PICK k \in 1 .. 5 : db[m].status = Listed(k) BY <1>1, ListedStatuses
<1>3. op[p].lists = 5 /\ ListedIsFound(p) BY DEF MInv, Shape
<1>4. Is(m, {Listed(k)}) BY <1>1, <1>2 DEF Is
<1>5. QED BY <1>3, <1>4 DEF ListedIsFound

(* A deprecation that answers has left out only what was written meanwhile. *)
THEOREM DeprecationIsComplete == Spec => []DeprecatedAll
BY FoundAll, Invariance, PTL

(* The steps that write, one by one: who writes over a row it has read last *)
(* follows the lifecycle.                                                   *)
LEMMA LegalStep ==
  ASSUME MInv, [Next]_vars, NEW m \in Ids
  PROVE  \/ MayBecome(m, StatusIn(db, m), StatusIn(db', m))
         \/ \E p \in Procs : m \in op[p].ids \cap stale[p] /\ op'[p] # op[p]
<1>1. db'[m] = db[m] => MayBecome(m, StatusIn(db, m), StatusIn(db', m))
  BY DEF MayBecome, StatusIn
<1>2. ASSUME NEW p \in Procs, NEW n \in Ids, NEW rec \in Record, NEW w, Upsert(p, n, rec, w)
      PROVE  /\ n # m => db'[m] = db[m]
             /\ n = m => StatusIn(db', m) = rec.status
             /\ op'[p] = w
  BY <1>2, NoneAssumption DEF Upsert, MInv, TypeOK, StatusIn
<1>3. ASSUME NEW p \in Procs, StoreAtom(p, m)
      PROVE  MayBecome(m, StatusIn(db, m), StatusIn(db', m))
  BY <1>2, <1>3, Constants DEF StoreAtom, MayBecome, Fresh
<1>4. ASSUME NEW p \in Procs, Write(p, m), m \notin stale[p]
      PROVE  MayBecome(m, StatusIn(db, m), StatusIn(db', m))
  <2>1. /\ op[p].does \in {"write", "extract"} /\ m \in op[p].ids /\ op[p] \in Operation
        /\ Shape(op[p]) /\ WritesStillHold(p)
    BY <1>4 DEF Write, MInv, TypeOK
  <2>2. StatusIn(db', m) = op[p].rec.status BY <1>2, <1>4, <2>1 DEF Write, Operation
  <2>3. CASE op[p].does = "write" BY <2>1, <2>2, <2>3, <1>4 DEF WritesStillHold
  <2>4. CASE op[p].does = "extract" /\ op[p].rec = Disputed
    BY <2>1, <2>2, <2>4 DEF WritesStillHold, MayBecome, Disputed
  <2>5. CASE op[p].does = "extract" /\ op[p].rec = Fresh
    <3>1. ~Live(m) BY <2>1, <2>5, <1>4, Constants DEF WritesStillHold
    <3>2. StatusIn(db, m) \in {"absent", "deprecated"} BY <3>1 DEF Live, StatusIn
    <3>3. QED BY <3>2, <2>2, <2>5 DEF MayBecome, Lifecycle, Fresh
  <2>6. QED BY <2>1, <2>3, <2>4, <2>5 DEF Shape
<1>5. ASSUME NEW p \in Procs, Deprecate(p, m)
      PROVE  MayBecome(m, StatusIn(db, m), StatusIn(db', m))
  <2>1. /\ op[p].does = "deprecate" /\ m \in op[p].ids /\ Shape(op[p]) /\ ListedIsFound(p)
    BY <1>5 DEF Deprecate, MInv
  <2>2. op[p].rec = Deprecated /\ Deprecated \in Record BY <2>1, Constants DEF Shape
  <2>3. StatusIn(db', m) = "deprecated" BY <1>2, <1>5, <2>2 DEF Deprecate, Deprecated
  <2>4. db[m] # None /\ db[m] \in Record BY <2>1 DEF ListedIsFound, MInv, TypeOK
  <2>5. QED BY <2>3, <2>4 DEF MayBecome, StatusIn, Lifecycle, Record
<1>6. ASSUME NEW p \in Procs, Write(p, m), m \in stale[p]
      PROVE  m \in op[p].ids \cap stale[p] /\ op'[p] # op[p]
  <2>1. op[p] \in Operation /\ op[p].does \in {"write", "extract"} /\ m \in op[p].ids
    BY <1>6 DEF Write, MInv, TypeOK
  <2>2. op'[p].does \in {"idle", "mark"}
    BY <1>2, <1>6, <2>1 DEF Write, Operation, Idle, Work
  <2>3. QED BY <1>6, <2>1, <2>2
<1>7. ASSUME NEW p \in Procs, NEW n \in Ids, n # m, Operate(p, n) PROVE db'[m] = db[m]
  <2>1. op[p].rec \in Record /\ Fresh \in Record BY Constants DEF MInv, TypeOK, Operation
  <2>2. CASE StoreAtom(p, n) \/ Write(p, n) \/ Deprecate(p, n)
    BY <1>2, <1>7, <2>1, <2>2 DEF StoreAtom, Write, Deprecate
  <2>3. CASE ~(StoreAtom(p, n) \/ Write(p, n) \/ Deprecate(p, n))
    BY <1>7, <2>3 DEF Operate, Access, Approve, Reject, Restore, Supersede, ExtractConflict,
                      ExtractNew, MarkStaleSuspect, Begin
  <2>4. QED BY <2>2, <2>3
<1>8. ASSUME NEW p \in Procs, Operate(p, m), ~StoreAtom(p, m), ~Write(p, m), ~Deprecate(p, m)
      PROVE  db'[m] = db[m]
  BY <1>8 DEF Operate, Access, Approve, Reject, Restore, Supersede, ExtractConflict,
              ExtractNew, MarkStaleSuspect, Begin
<1>9. ASSUME NEW p \in Procs,
             DetectConflicts(p) \/ DeprecateOwner(p) \/ ListNext(p)
               \/ Answer(p) \/ MarkRaises(p) \/ Fail(p)
      PROVE  db' = db
  BY <1>9 DEF DetectConflicts, DeprecateOwner, ListNext, Answer, MarkRaises, Fail, Leave, Begin
<1>10. UNCHANGED vars => db' = db BY DEF vars
<1>11. QED BY <1>1, <1>3, <1>4, <1>5, <1>6, <1>7, <1>8, <1>9, <1>10 DEF Next, Step

(* Statuses change along the lifecycle, except where a process writes over  *)
(* a row that another has written since it read it.                         *)
THEOREM FollowsLifecycle == Spec => TransitionsAreLegal
<1>1. MInv /\ [Next]_vars =>
        [\A m \in Ids :
           \/ MayBecome(m, StatusIn(db, m), StatusIn(db', m))
           \/ \E p \in Procs : m \in op[p].ids \cap stale[p] /\ op'[p] # op[p]]_vars
  BY LegalStep
<1>2. QED BY <1>1, Invariance, PTL DEF Spec, TransitionsAreLegal
-----------------------------------------------------------------------------
(* The operations that do not overlap.                                      *)
SerialStep == \E p \in Procs : OthersIdle(p) /\ Step(p)

(* Nothing an operation has read is written by another meanwhile.           *)
LEMMA NothingRacedStep ==
  ASSUME MInv, NothingRaced, NEW p \in Procs, OthersIdle(p), Step(p)
  PROVE  NothingRaced'
<1>1. stale[p] = {} /\ raced = {} /\ \A q \in Procs \ {p} : op[q] = Idle /\ stale[q] = {}
  BY DEF NothingRaced, OthersIdle
<1>2. /\ DOMAIN op = Procs /\ DOMAIN stale = Procs
      /\ op = [q \in Procs |-> op[q]] /\ stale = [q \in Procs |-> stale[q]]
  BY DEF MInv, TypeOK
<1>3. ASSUME NEW w, op' = [op EXCEPT ![p] = w], UNCHANGED raced,
             \A q \in Procs : stale'[q] \subseteq stale[q]
      PROVE  NothingRaced'
  <2>1. \A q \in Procs \ {p} : op'[q] = Idle
    BY <1>1, <1>2, <1>3
  <2>2. \A q \in Procs : stale'[q] = {}
    BY <1>1, <1>3
  <2> QED
    BY <2>1, <2>2, <1>1, <1>3 DEF NothingRaced
<1>4. ASSUME NEW w, Begin(p, w) PROVE NothingRaced'
  BY <1>3, <1>4 DEF Begin
<1>5. ASSUME NEW m, NEW rec, NEW w, Upsert(p, m, rec, w), raced' = {}
      PROVE  NothingRaced'
  <2>1. op' = [op EXCEPT ![p] = w]
    BY <1>5 DEF Upsert
  <2>2. \A q \in Procs : stale'[q] = {}
    BY <1>1, <1>5 DEF Upsert
  <2> QED
    BY <1>1, <1>3, <1>5, <2>1, <2>2
<1>6. ASSUME Leave(p) PROVE NothingRaced'
  <2>1. \A q \in Procs : stale'[q] \subseteq stale[q]
    BY <1>2, <1>6 DEF Leave
  <2> QED
    BY <1>3, <1>6, <2>1 DEF Leave
<1>7. ASSUME NEW m \in Ids, Operate(p, m) PROVE NothingRaced'
  <2>1. CASE \/ Access(p, m) \/ Approve(p, m) \/ Reject(p, m) \/ Restore(p, m)
             \/ Supersede(p, m) \/ ExtractConflict(p, m) \/ ExtractNew(p, m)
    BY <2>1, <1>4 DEF Access, Approve, Reject, Restore, Supersede, ExtractConflict, ExtractNew
  <2>2. CASE StoreAtom(p, m) \/ Deprecate(p, m)
    BY <2>2, <1>1, <1>5 DEF StoreAtom, Deprecate
  <2>3. CASE Write(p, m)
    <3>1. ~RestsOnStale(p, m)
      BY <1>1 DEF RestsOnStale
    <3> QED
      BY <2>3, <3>1, <1>1, <1>5 DEF Write
  <2>4. CASE MarkStaleSuspect(p, m)
    <3>1. \A q \in Procs : stale'[q] \subseteq stale[q]
      BY <2>4, <1>2 DEF MarkStaleSuspect
    <3> QED
      BY <2>4, <3>1, <1>3 DEF MarkStaleSuspect
  <2> QED
    BY <1>7, <2>1, <2>2, <2>3, <2>4 DEF Operate
<1>8. CASE DetectConflicts(p) \/ DeprecateOwner(p)
  BY <1>4, <1>8 DEF DetectConflicts, DeprecateOwner
<1>9. CASE ListNext(p)
  BY <1>3, <1>9 DEF ListNext
<1>10. CASE Answer(p) \/ MarkRaises(p) \/ Fail(p)
  BY <1>6, <1>10 DEF Answer, MarkRaises, Fail
<1> QED
  BY <1>7, <1>8, <1>9, <1>10 DEF Step

LEMMA SerialInvariance == SerialSpec => [](MInv /\ NothingRaced)
<1>1. Init => NothingRaced
  BY DEF Init, NothingRaced
<1>2. MInv /\ NothingRaced /\ [SerialStep]_vars => MInv' /\ NothingRaced'
  <2> SUFFICES ASSUME MInv, NothingRaced, [SerialStep]_vars PROVE MInv' /\ NothingRaced'
    OBVIOUS
  <2>1. MInv'
    BY Steps DEF SerialStep, Next
  <2>2. CASE UNCHANGED vars
    BY <2>1, <2>2 DEF vars, NothingRaced
  <2> QED
    BY <2>1, <2>2, NothingRacedStep DEF SerialStep
<1> QED
  BY <1>1, <1>2, Initially, PTL DEF SerialSpec, SerialStep

(* Operations that do not overlap never accept two versions of a memory,    *)
(* deprecate all there is, and keep to the lifecycle: the exceptions that   *)
(* OneVersion, DeprecatedAll and TransitionsAreLegal make are those of      *)
(* operations that read and write across each other.                        *)
THEOREM OnlyOverlapRaces == SerialSpec => [](NoTwoAccepted /\ NoneIsLeft) /\ LifecycleIsKept
<1> DEFINE Kept == \A m \in Ids : MayBecome(m, StatusIn(db, m), StatusIn(db', m))
<1>1. MInv /\ NothingRaced => NoTwoAccepted
  BY DEF MInv, NothingRaced, OneVersion, NoTwoAccepted
<1>2. MInv /\ NothingRaced => NoneIsLeft
  BY FoundAll DEF NothingRaced, DeprecatedAll, NoneIsLeft
<1>3. MInv /\ NothingRaced /\ [SerialStep]_vars => [Kept]_vars
  <2> SUFFICES ASSUME MInv, NothingRaced, [SerialStep]_vars, NEW m \in Ids
               PROVE  MayBecome(m, StatusIn(db, m), StatusIn(db', m))
    OBVIOUS
  <2>1. [Next]_vars
    BY DEF SerialStep, Next
  <2> QED
    BY <2>1, LegalStep DEF NothingRaced
<1> QED
  BY <1>1, <1>2, <1>3, SerialInvariance, PTL DEF SerialSpec, SerialStep, LifecycleIsKept

=============================================================================
