---------------------------- MODULE MemoryRecords ----------------------------
(***************************************************************************)
(* The review and the lifecycle of the durable memories of one owner       *)
(* (app/services/memory_*_service.py over memory_store.py).                *)
(*                                                                         *)
(* A session or a piece of evidence yields candidates, an operator         *)
(* approves or rejects them, fresh evidence puts approved ones in doubt,   *)
(* and an operator restores, supersedes or deprecates them.  The API       *)
(* (admin/memory_operator_routes.py) and the command line                  *)
(* (cli/memory_operator.py) do so from two processes on one SQLite file.   *)
(* Every operation reads in one or more statements and then writes whole   *)
(* records over the rows, in statements of their own: a step is one        *)
(* statement.                                                              *)
(***************************************************************************)
EXTENDS Naturals

CONSTANTS
  Procs,       \* processes that use the store
  Ids,         \* memory ids: hashes of what a memory says
  Summaries,   \* the memories of type candidate_summary
  Atoms,       \* the memories of type l1_atom
  Clash,       \* is_conflict: the memories that contradict each memory
  Same,        \* dedup_key: the memories that say the same as each memory
  None,        \* the store has no such row
  MaxOps       \* bound: operations begun

Near(m) == Clash[m] \cup Same[m]

(* Only memories of one type are compared, and summaries and atoms never    *)
(* contradict each other (is_conflict); atoms are not compared at all.      *)
ASSUME RelationAssumption ==
  /\ Summaries \subseteq Ids /\ Atoms \subseteq Ids \ Summaries
  /\ Clash \in [Ids -> SUBSET Ids] /\ Same \in [Ids -> SUBSET Ids]
  /\ \A m \in Ids :
       /\ m \in Same[m] /\ m \notin Clash[m]
       /\ \A n \in Clash[m] : m \in Clash[n]
       /\ \A n \in Same[m] : m \in Same[n]
  /\ \A m \in Summaries \cup Atoms : Clash[m] = {}
  /\ \A m \in Atoms : Same[m] = {m}
  /\ MaxOps \in Nat

Record == [status : {"active", "candidate", "conflict", "stale_suspect", "superseded",
                     "deprecated"},
           review : {"none", "approved", "rejected", "superseded", "deprecated"}]

ASSUME NoneAssumption == None \notin Record

VARIABLES
  db,      \* the table memory_records
  op,      \* what each process is in the middle of
  begun,   \* how many operations have begun
  \* history variables, read by no action
  stale,   \* memories others have written since that operation read them
  raced    \* memories written on the ground of a stale read

vars == <<db, op, begun, stale, raced>>

(* An operation in progress: the memories it has still to write, the record *)
(* it writes over each, the memories it goes on with afterwards, and how    *)
(* many of its lists it has read.                                           *)
Operation == [does : {"idle", "write", "extract", "mark", "list", "deprecate"},
              ids : SUBSET Ids, rec : Record, rest : SUBSET Ids, lists : 0 .. 5]

Fresh == [status |-> "candidate", review |-> "none"]
Disputed == [status |-> "conflict", review |-> "none"]
Approved == [status |-> "active", review |-> "approved"]
Rejected == [status |-> "deprecated", review |-> "rejected"]
Superseded == [status |-> "superseded", review |-> "superseded"]
Deprecated == [status |-> "deprecated", review |-> "deprecated"]

Work(does, ids, rec, rest) ==
  [does |-> does, ids |-> ids, rec |-> rec, rest |-> rest, lists |-> 0]

Idle == Work("idle", {}, Fresh, {})

Init ==
  /\ db = [m \in Ids |-> None]
  /\ op = [p \in Procs |-> Idle]
  /\ stale = [p \in Procs |-> {}]
  /\ raced = {} /\ begun = 0
-----------------------------------------------------------------------------
Is(m, statuses) == db[m] # None /\ db[m].status \in statuses

(* Records the store lists as not deprecated.                               *)
Live(m) == db[m] # None /\ db[m].status # "deprecated"

Begin(p, work) ==
  /\ op[p] = Idle /\ begun < MaxOps
  /\ begun' = begun + 1
  /\ op' = [op EXCEPT ![p] = work]
  /\ UNCHANGED <<db, stale, raced>>

(* MemoryStore.upsert: the row becomes the record, whatever it was.  The    *)
(* process goes on with the given work.                                     *)
Upsert(p, m, rec, work) ==
  /\ db' = [db EXCEPT ![m] = rec]
  /\ op' = [op EXCEPT ![p] = work]
  /\ stale' = [q \in Procs |-> IF q = p
                                THEN IF work = Idle THEN {} ELSE stale[q]
                                ELSE IF op[q] = Idle THEN {} ELSE stale[q] \cup {m}]

Writing(m, rec) == Work("write", {m}, rec, {})

(* record_access, for each memory that retrieval returns: the access count  *)
(* is raised in the copy that was read.                                     *)
Access(p, m) == db[m] # None /\ Begin(p, Writing(m, db[m]))

(* The decisions of an operator.  Restoring and superseding look the memory *)
(* up twice; the second look decides.                                       *)
ApproveReviewable(p, m) == Is(m, {"candidate", "conflict"}) /\ Begin(p, Writing(m, Approved))
Approve(p, m) == Is(m, {"candidate"}) /\ m \notin Summaries /\ Begin(p, Writing(m, Approved))
Reject(p, m) == Is(m, {"candidate", "conflict"}) /\ Begin(p, Writing(m, Rejected))
Restore(p, m) == Is(m, {"stale_suspect"}) /\ Begin(p, Writing(m, Approved))
Supersede(p, m) == Is(m, {"active", "stale_suspect"}) /\ Begin(p, Writing(m, Superseded))

(* _store_candidate_with_action, and the scenarios of the aggregator: a     *)
(* candidate that contradicts a memory which is not deprecated is stored as *)
(* a conflict, over its own row if it has one; one that says the same as    *)
(* such a memory is not stored, and nothing is written.                     *)
Extracting(m, rec) == Work("extract", {m}, rec, {})

ExtractConflict(p, m) ==
  /\ m \notin Atoms
  /\ \E n \in Clash[m] : Live(n)
  /\ Begin(p, Extracting(m, Disputed))

ExtractUnlessActive(p, m) ==
  /\ m \notin Atoms
  /\ \A n \in Near(m) : ~Is(n, {"active"})
  /\ Begin(p, Extracting(m, Fresh))

ExtractNew(p, m) ==
  /\ m \notin Atoms
  /\ \A n \in Near(m) : ~Live(n)
  /\ Begin(p, Extracting(m, Fresh))

(* _store_atoms: an atom extracted again overwrites the row it had.         *)
StoreAtom(p, m) ==
  /\ m \in Atoms
  /\ op[p] = Idle /\ begun < MaxOps
  /\ begun' = begun + 1
  /\ Upsert(p, m, Fresh, Idle)
  /\ UNCHANGED raced

(* apply_conflicts_for_atom: the active memories the detector finds are     *)
(* read again one after the other; one that is no longer active raises.     *)
DetectConflicts(p) ==
  \E found \in SUBSET {m \in Ids : Is(m, {"active"})} :
    found # {} /\ Begin(p, Work("mark", {}, Fresh, found))

MarkAsDetected(p, m) ==
  /\ op[p].does = "mark" /\ m \in op[p].rest
  /\ op' = [op EXCEPT ![p] = Work("write", {m}, [db[m] EXCEPT !.status = "stale_suspect"],
                                  op[p].rest \ {m})]
  /\ stale' = [stale EXCEPT ![p] = @ \ {m}]
  /\ UNCHANGED <<db, begun, raced>>

MarkStaleSuspect(p, m) ==
  /\ op[p].does = "mark" /\ m \in op[p].rest /\ Is(m, {"active"})
  /\ op' = [op EXCEPT ![p] = Work("write", {m}, [db[m] EXCEPT !.status = "stale_suspect"],
                                  op[p].rest \ {m})]
  /\ stale' = [stale EXCEPT ![p] = @ \ {m}]
  /\ UNCHANGED <<db, begun, raced>>

(* deprecate_owner_memories: five lists, one status each, and then a write  *)
(* for each memory found.                                                   *)
ListedInUse(k) == <<"active", "candidate", "conflict", "stale_suspect", "stale_suspect">>[k]
Listed(k) == <<"active", "candidate", "conflict", "stale_suspect", "superseded">>[k]

DeprecateOwner(p) == Begin(p, Work("list", {}, Deprecated, {}))

ListNext(p) ==
  /\ op[p].does = "list"
  /\ LET k == op[p].lists + 1 IN
       op' = [op EXCEPT ![p] = [does |-> IF k = 5 THEN "deprecate" ELSE "list",
                                ids |-> op[p].ids \cup {m \in Ids : Is(m, {Listed(k)})},
                                rec |-> Deprecated, rest |-> {}, lists |-> k]]
  /\ UNCHANGED <<db, begun, stale, raced>>
-----------------------------------------------------------------------------
(* The reads that a write rests on, no longer true?                         *)
RestsOnStale(p, m) ==
  stale[p] \cap (IF op[p].does = "extract" THEN Near(m) ELSE {m}) # {}

(* The record is written, and the marking goes on with the next memory.     *)
Write(p, m) ==
  /\ op[p].does \in {"write", "extract"} /\ m \in op[p].ids
  /\ Upsert(p, m, op[p].rec,
            IF op[p].rest = {} THEN Idle ELSE Work("mark", {}, Fresh, op[p].rest))
  /\ raced' = IF RestsOnStale(p, m) THEN raced \cup {m} ELSE raced
  /\ UNCHANGED begun

(* One of the records found is deprecated; after the last the operation     *)
(* answers.  (The code writes a memory it has found in two of the lists     *)
(* twice, with the same status and review; here the second write is left    *)
(* out.)                                                                    *)
Deprecate(p, m) ==
  /\ op[p].does = "deprecate" /\ m \in op[p].ids
  /\ Upsert(p, m, op[p].rec, [op[p] EXCEPT !.ids = @ \ {m}])
  /\ UNCHANGED <<begun, raced>>

Leave(p) ==
  /\ op' = [op EXCEPT ![p] = Idle]
  /\ stale' = [stale EXCEPT ![p] = {}]
  /\ UNCHANGED <<db, begun, raced>>

Answer(p) == op[p].does = "deprecate" /\ op[p].ids = {} /\ Leave(p)

MarkRaises(p) ==
  /\ op[p].does = "mark" /\ \E m \in op[p].rest : ~Is(m, {"active"})
  /\ Leave(p)

(* The process dies, or SQLite answers that the database is locked: what    *)
(* has been written stays.                                                  *)
Fail(p) == op[p] # Idle /\ Leave(p)

(* What is done to one memory.  MemoryStore.update_status, which sets any   *)
(* status without a review, is left out: no service calls it.  A memory     *)
(* clashes with others (ExtractConflict) only if it comes from              *)
(* store_candidate; what is extracted from a session never does.            *)
Operate(p, m) ==
  \/ Access(p, m) \/ Approve(p, m) \/ Reject(p, m) \/ Restore(p, m) \/ Supersede(p, m)
  \/ ExtractConflict(p, m) \/ ExtractNew(p, m) \/ StoreAtom(p, m)
  \/ MarkStaleSuspect(p, m) \/ Write(p, m) \/ Deprecate(p, m)

Step(p) ==
  \/ \E m \in Ids : Operate(p, m)
  \/ DetectConflicts(p) \/ DeprecateOwner(p) \/ ListNext(p)
  \/ Answer(p) \/ MarkRaises(p) \/ Fail(p)

Next == \E p \in Procs : Step(p)

Spec == Init /\ [][Next]_vars

(* The same, were every operation to end before another begins.             *)
OthersIdle(p) == \A q \in Procs \ {p} : op[q] = Idle

SerialSpec == Init /\ [][\E p \in Procs : OthersIdle(p) /\ Step(p)]_vars
-----------------------------------------------------------------------------
(* A memory is active only with the approval of an operator, whatever race  *)
(* put the record there, and a summary never is ("Promote or reject memory  *)
(* candidates only after explicit operator review"); in the same way every  *)
(* status goes with the decision it needs, in the store and in the copies   *)
(* about to be written.                                                     *)
Reviewed(m, rec) ==
  /\ rec.status \in {"active", "stale_suspect"} => rec.review = "approved" /\ m \notin Summaries
  /\ rec.status \in {"candidate", "conflict"} => rec.review = "none"
  /\ rec.status = "deprecated" => rec.review \in {"rejected", "deprecated"}
  /\ rec.status = "superseded" => rec.review = "superseded"

RecordsAreReviewed ==
  /\ \A m \in Ids : db[m] # None => Reviewed(m, db[m])
  /\ \A p \in Procs : \A m \in op[p].ids : Reviewed(m, op[p].rec)

(* Two memories that contradict each other, or say the same, are not both   *)
(* on the way to prompts, however they got there: extracted in any order,   *)
(* rejected, deprecated and extracted again.  The check and the write of    *)
(* store_candidate are two statements, so a memory written on the ground of *)
(* a read that another process made stale is excepted.                      *)
Accepted(m) == Is(m, {"candidate", "active", "stale_suspect", "superseded"})

OneVersion ==
  \A m \in Ids : \A n \in Near(m) \ {m} :
    Accepted(m) /\ Accepted(n) => m \in raced \/ n \in raced

(* When the deprecation of an owner's memories answers, none is left but    *)
(* those another process has written since it began ("Mark all              *)
(* non-deprecated owner records as deprecated"): it reads five lists, and a *)
(* memory changes from one to another.                                      *)
DeprecatedAll ==
  \A p \in Procs :
    op[p].does = "deprecate" /\ op[p].ids = {} => \A m \in Ids \ stale[p] : ~Live(m)

(* A memory goes from one status to another only along the lifecycle,       *)
(* unless the process that writes it has read it before another wrote it:   *)
(* what has been rejected, deprecated or superseded comes back only as a    *)
(* candidate or a conflict, and an approval is lost to a new extraction     *)
(* only where the memory is contradicted, or is an atom.                    *)
Lifecycle ==
  {<<"absent", "candidate">>, <<"candidate", "active">>, <<"candidate", "deprecated">>,
   <<"conflict", "deprecated">>, <<"active", "stale_suspect">>, <<"active", "superseded">>,
   <<"active", "deprecated">>, <<"stale_suspect", "active">>, <<"stale_suspect", "superseded">>,
   <<"stale_suspect", "deprecated">>, <<"superseded", "deprecated">>,
   <<"deprecated", "candidate">>}

StatusIn(table, m) == IF table[m] = None THEN "absent" ELSE table[m].status

MayBecome(m, old, new) ==
  \/ old = new \/ <<old, new>> \in Lifecycle
  \/ new = "conflict" /\ Clash[m] # {}
  \/ new = "candidate" /\ m \in Atoms

TransitionsAreLegal ==
  [][\A m \in Ids :
       \/ MayBecome(m, StatusIn(db, m), StatusIn(db', m))
       \/ \E p \in Procs : m \in op[p].ids \cap stale[p] /\ op'[p] # op[p]]_vars

(* The exceptions of those three come from operations that overlap, and     *)
(* from nothing else: operations that do not, contradict none of them.      *)
NoTwoAccepted == \A m \in Ids : \A n \in Near(m) \ {m} : ~(Accepted(m) /\ Accepted(n))

NoneIsLeft ==
  \A p \in Procs :
    op[p].does = "deprecate" /\ op[p].ids = {} => \A m \in Ids : ~Live(m)

LifecycleIsKept == [][\A m \in Ids : MayBecome(m, StatusIn(db, m), StatusIn(db', m))]_vars

NothingRaced ==
  /\ raced = {} /\ \A p \in Procs : stale[p] = {}
  /\ \A p, q \in Procs : op[p] # Idle /\ op[q] # Idle => p = q

(* The invariant these rest on: what a process has read of a memory nobody  *)
(* has written since still allows what it is about to write over it, and    *)
(* what a deprecation has listed is on its way.                             *)
TypeOK ==
  /\ db \in [Ids -> Record \cup {None}]
  /\ op \in [Procs -> Operation]
  /\ begun \in Nat
  /\ stale \in [Procs -> SUBSET Ids]
  /\ raced \subseteq Ids

Shape(w) ==
  /\ w.does = "idle" => w = Idle
  /\ w.does = "extract" => w.rec \in {Fresh, Disputed} /\ w.rest = {}
  /\ w.does = "mark" => w.ids = {}
  /\ w.does \in {"list", "deprecate"} => w.rec = Deprecated
  /\ w.does = "deprecate" => w.lists = 5
  /\ w.does = "list" => w.lists < 5

WritesStillHold(p) ==
  \A m \in op[p].ids :
    /\ op[p].does = "write" /\ m \notin stale[p] =>
         /\ MayBecome(m, StatusIn(db, m), op[p].rec.status)
         /\ op[p].rec.status \in {"candidate", "active", "stale_suspect", "superseded"} => Accepted(m)
    /\ op[p].does = "extract" =>
         /\ op[p].rec = Disputed => Clash[m] # {}
         /\ op[p].rec = Fresh => \A n \in Near(m) \ stale[p] : ~Live(n)

ListedIsFound(p) ==
  op[p].does \in {"list", "deprecate"} =>
    /\ \A m \in Ids \ stale[p] :
         (\E k \in 1 .. op[p].lists : Is(m, {Listed(k)})) => m \in op[p].ids
    /\ \A m \in op[p].ids : db[m] # None

MInv ==
  /\ TypeOK
  /\ \A p \in Procs : Shape(op[p]) /\ WritesStillHold(p) /\ ListedIsFound(p)
  /\ RecordsAreReviewed /\ OneVersion
=============================================================================
