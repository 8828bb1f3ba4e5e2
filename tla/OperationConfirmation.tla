------------------------ MODULE OperationConfirmation ------------------------
(***************************************************************************)
(* The confirmation flow of database operations                            *)
(* (app/enterprise/database/confirmations.py).                             *)
(*                                                                         *)
(* A user prepares an SQL operation, which stores a PENDING confirmation   *)
(* in a SQLite file, and later cancels or confirms it.  Every repository   *)
(* call and every call of the executor is one step: that is where another  *)
(* process that uses the same file can come in between, and where a        *)
(* process can die.  The FastAPI handlers contain no await, so one process *)
(* runs one handler at a time; Workers is the set of processes that share  *)
(* the confirmation file.                                                  *)
(*                                                                         *)
(* Permissions are asked from PermissionService.check, which answers from  *)
(* a cache of decisions; audit events go to AuditService.record, which     *)
(* drops an event no sink stores.  Both are part of the model: what a      *)
(* confirmation executes is as permitted, and as audited, as they allow.   *)
(***************************************************************************)
EXTENDS Naturals, FiniteSets

CONSTANTS
  Workers,          \* processes serving requests on the same confirmation file
  Users,            \* user ids
  Ids,              \* confirmation ids (uuid4 in the code: never reused)
  Ops,              \* the operation types users ask for
  Dialect,          \* "sqlite" or "mysql": which executor is configured
  SeedPerms,        \* grants a freshly started process holds
  Grantable,        \* grants that administrators add and revoke
  MaxRows,          \* bound: rows the WHERE clause of an operation can match
  TTL,              \* PENDING_TTL_MINUTES, in clock ticks
  MaxTime,          \* bound: last value of the clock
  OutsideWriters,   \* does another program write to the target database?
  ThreadedChecks,   \* do tool threads add to the decision cache meanwhile?
  Losable,          \* bound: the audit events that may be stored by no sink
  NoRecord,         \* the confirmation file has no such row
  NoRows            \* no row count (None)

PermissionTypes == {"update", "delete", "ddl"}
Grants == Users \X PermissionTypes
Statuses == {"pending", "cancelled", "expired", "executing", "executed", "failed"}
Terminal == {"cancelled", "expired", "executed", "failed"}

ASSUME ConfirmationAssumption ==
  /\ Dialect \in {"sqlite", "mysql"}
  /\ SeedPerms \cup Grantable \subseteq Grants
  /\ MaxRows \in Nat /\ MaxTime \in Nat /\ TTL \in Nat \ {0}
  /\ OutsideWriters \in BOOLEAN /\ ThreadedChecks \in BOOLEAN
  /\ NoRows \notin Nat

VARIABLES
  store,     \* the SQLite confirmation table
  rows,      \* what COUNT(*) with an operation's WHERE clause returns now
  perms,     \* the in-memory grants of each process
  cache,     \* the decisions each process remembers about them
  clock,
  stage,     \* how far the handler of each process is
  caller,    \* the authenticated user of the request it serves
  job,       \* the confirmation that handler works on
  seen,      \* the record it has read (or built), and writes back
  audit,     \* audit events about confirmations that a sink stored
  \* history variables, read by no action
  missed,    \* audit events recorded, but stored by no sink
  uncleared, \* grants changed while their remembered decision stayed
  claimed,   \* confirmations whose pending -> executing update succeeded
  applied,   \* how often the SQL of a confirmation took effect
  lost       \* confirmations a handler left because it died or its storage failed

handler == <<stage, caller, job, seen>>
authority == <<perms, cache, uncleared>>
log == <<audit, missed>>
history == <<claimed, applied, lost>>
vars == <<store, rows, authority, clock, handler, log, history>>
-----------------------------------------------------------------------------
(* classify_sql_operation: the class of a statement, by its type.  A DROP of *)
(* whatever kind is delete-like, except that of an index.                   *)
Drops == {"drop_table", "drop_view", "drop_database", "drop"}

DeleteLike(op) == op \in {"delete", "truncate", "alter_table_drop_column"} \cup Drops

OperationPermissionType(op) ==
  IF op \in {"insert", "update"} THEN "update"
  ELSE IF DeleteLike(op) THEN "delete"
  ELSE "ddl"

SupportsOperation(op) ==
  op \in IF Dialect = "sqlite"
         THEN {"insert", "update", "delete", "truncate", "drop_table", "ddl"}
         ELSE {"delete", "truncate", "drop_table", "alter_table_drop_column"}

SupportsDirectOperation(op) ==
  /\ Dialect = "mysql"
  /\ op \in {"insert", "update", "create_table", "create_index", "drop_index",
             "alter_table", "rename_table"}

(* check_sql asks for operation, table and column grants; here, one grant.  *)
Right(u, op) == <<u, OperationPermissionType(op)>>

(* PermissionService.check: the remembered decision if there is one, else   *)
(* what the grants say, which is then remembered.                           *)
Decision(w, g) ==
  CASE cache[w][g] # "none" -> cache[w][g]
    [] cache[w][g] = "none" /\ g \in perms[w] -> "allowed"
    [] cache[w][g] = "none" /\ g \notin perms[w] -> "denied"

Remember(w, g) ==
  /\ cache' = [cache EXCEPT ![w][g] = Decision(w, g)]
  /\ UNCHANGED <<perms, uncleared>>

CheckSql(w, u, op) == Decision(w, Right(u, op)) = "allowed"

(* _build_summary: only an UPDATE or DELETE has a row count that can change *)
Estimate(op) == IF op \in {"update", "delete"} THEN rows ELSE NoRows

Estimates == (0 .. MaxRows) \cup {NoRows}

Record == [user : Users, op : Ops, status : Statuses, estimate : Estimates,
           expires : Nat, result : Estimates]

ASSUME NoRecordAssumption == NoRecord \notin Ids /\ NoRecord \notin Users /\ NoRecord \notin Record

(* An event is also the stage of the handler that is about to record it.    *)
Events == {"prepare_created", "confirmation_cancelled", "confirmation_expired",
           "execution_failed", "confirmation_confirmed", "operation_executed"}
Stages == {"idle", "create", "cancel", "expire", "recheck", "reject", "claim",
           "execute", "fail", "finish", "direct"} \cup Events

AuthorityTypeOK ==
  /\ perms \in [Workers -> SUBSET Grants]
  /\ cache \in [Workers -> [Grants -> {"none", "allowed", "denied"}]]
  /\ uncleared \in [Workers -> SUBSET Grants]

TypeOK ==
  /\ AuthorityTypeOK
  /\ store \in [Ids -> Record \cup {NoRecord}]
  /\ rows \in 0 .. MaxRows
  /\ clock \in Nat
  /\ stage \in [Workers -> Stages]
  /\ caller \in [Workers -> Users \cup {NoRecord}]
  /\ job \in [Workers -> Ids \cup {NoRecord}]
  /\ seen \in [Workers -> Record \cup {NoRecord}]
  /\ \A w \in Workers : stage[w] \notin {"idle", "direct"} =>
       caller[w] # NoRecord /\ job[w] # NoRecord /\ seen[w] # NoRecord
  /\ audit \subseteq Events \X Ids
  /\ missed \subseteq Events \X Ids
  /\ claimed \subseteq Ids
  /\ applied \in [Ids -> Nat]
  /\ lost \subseteq Ids

Init ==
  /\ store = [id \in Ids |-> NoRecord]
  /\ rows \in 0 .. MaxRows
  /\ perms = [w \in Workers |-> SeedPerms]
  /\ cache = [w \in Workers |-> [g \in Grants |-> "none"]]
  /\ uncleared = [w \in Workers |-> {}]
  /\ clock = 0
  /\ stage = [w \in Workers |-> "idle"]
  /\ caller = [w \in Workers |-> NoRecord]
  /\ job = [w \in Workers |-> NoRecord]
  /\ seen = [w \in Workers |-> NoRecord]
  /\ audit = {}
  /\ missed = {}
  /\ claimed = {}
  /\ applied = [id \in Ids |-> 0]
  /\ lost = {}
-----------------------------------------------------------------------------
(* A handler begins to serve u, on record r of confirmation id; goes on to  *)
(* its next stage; returns its response.                                    *)
Begin(w, first, u, id, r) ==
  /\ stage[w] = "idle"
  /\ stage' = [stage EXCEPT ![w] = first]
  /\ caller' = [caller EXCEPT ![w] = u]
  /\ job' = [job EXCEPT ![w] = id]
  /\ seen' = [seen EXCEPT ![w] = r]

Go(w, from, to, r) ==
  /\ stage[w] = from
  /\ stage' = [stage EXCEPT ![w] = to]
  /\ seen' = [seen EXCEPT ![w] = r]
  /\ UNCHANGED <<caller, job>>

Done(w) ==
  /\ stage' = [stage EXCEPT ![w] = "idle"]
  /\ caller' = [caller EXCEPT ![w] = NoRecord]
  /\ job' = [job EXCEPT ![w] = NoRecord]
  /\ seen' = [seen EXCEPT ![w] = NoRecord]

(* Repository.update: overwrites the row whatever its status is now.       *)
Update(id, r) == store' = [store EXCEPT ![id] = r]

(* Mutants: the status test, or the owner test, is forgotten.              *)
ReadAnyStatus(u, id) == store[id] # NoRecord /\ store[id].user = u
ReadAnyOwner(u, id) == store[id] # NoRecord /\ store[id].status = "pending"

(* get_confirmation: only the owner finds a confirmation; cancel and       *)
(* confirm both go on only from a pending record.                          *)
ReadPending(u, id) ==
  /\ store[id] # NoRecord
  /\ store[id].user = u
  /\ store[id].status = "pending"
-----------------------------------------------------------------------------
(* prepare: checks the statement and reads its row count ...               *)
Prepare(w, u, op, id) ==
  /\ store[id] = NoRecord /\ \A v \in Workers : job[v] # id
  /\ CheckSql(w, u, op)
  /\ SupportsOperation(op)
  /\ Begin(w, "create", u, id,
           [user |-> u, op |-> op, status |-> "pending", estimate |-> Estimate(op),
            expires |-> clock + TTL, result |-> NoRows])
  /\ Remember(w, Right(u, op))
  /\ UNCHANGED <<store, rows, clock, log, history>>

(* ... or refuses: denied, unsupported, or the row count cannot be read.    *)
(* The decision is remembered all the same.                                 *)
Refuse(w, u, op) ==
  /\ stage[w] = "idle"
  /\ Remember(w, Right(u, op))
  /\ UNCHANGED <<store, rows, clock, handler, log, history>>

(* ... and inserts the pending confirmation.                               *)
Create(w) ==
  /\ Go(w, "create", "prepare_created", seen[w])
  /\ store' = [store EXCEPT ![job[w]] = seen[w]]
  /\ UNCHANGED <<rows, authority, clock, log, history>>

(* cancel: reads the confirmation; then writes what it read as cancelled.  *)
BeginCancel(w, u, id) ==
  /\ ReadPending(u, id)
  /\ Begin(w, "cancel", u, id, [store[id] EXCEPT !.status = "cancelled"])
  /\ UNCHANGED <<store, rows, authority, clock, log, history>>

Cancel(w) ==
  /\ Go(w, "cancel", "confirmation_cancelled", seen[w])
  /\ Update(job[w], seen[w])
  /\ UNCHANGED <<rows, authority, clock, log, history>>

(* confirm: reads the confirmation and compares its expiry with the clock. *)
BeginConfirm(w, u, id) ==
  /\ ReadPending(u, id)
  /\ IF store[id].expires <= clock
       THEN Begin(w, "expire", u, id, [store[id] EXCEPT !.status = "expired"])
       ELSE Begin(w, "recheck", u, id, store[id])
  /\ UNCHANGED <<store, rows, authority, clock, log, history>>

Expire(w) ==
  /\ Go(w, "expire", "confirmation_expired", seen[w])
  /\ Update(job[w], seen[w])
  /\ UNCHANGED <<rows, authority, clock, log, history>>

(* Mutants: the recheck forgets the permissions, or the row count.         *)
RecheckCountOnly(w) ==
  SupportsOperation(seen[w].op) /\ Estimate(seen[w].op) = seen[w].estimate
RecheckPermissionOnly(w) ==
  SupportsOperation(seen[w].op) /\ CheckSql(w, caller[w], seen[w].op)

(* _confirmation_recheck_reason is None *)
RecheckPasses(w) ==
  /\ SupportsOperation(seen[w].op)
  /\ CheckSql(w, caller[w], seen[w].op)
  /\ Estimate(seen[w].op) = seen[w].estimate

Recheck(w) ==
  /\ stage[w] = "recheck"
  /\ \/ RecheckPasses(w) /\ Go(w, "recheck", "claim", seen[w])
     \/ /\ ~RecheckPasses(w)
        /\ Go(w, "recheck", "reject", [seen[w] EXCEPT !.status = "failed"])
  /\ IF SupportsOperation(seen[w].op)
       THEN Remember(w, Right(caller[w], seen[w].op))
       ELSE UNCHANGED authority
  /\ UNCHANGED <<store, rows, clock, log, history>>

(* _mark_failed after a failed recheck or a failed execution               *)
MarkFailed(w) ==
  /\ \E from \in {"reject", "fail"} : Go(w, from, "execution_failed", seen[w])
  /\ Update(job[w], seen[w])
  /\ UNCHANGED <<rows, authority, clock, log, history>>

(* Mutant: the update is not conditional on the status.                    *)
CanClaimAny(w) == store[job[w]] # NoRecord /\ store[job[w]].user = seen[w].user

(* transition_pending_to_executing: UPDATE ... WHERE status = 'pending'    *)
CanClaim(w) ==
  /\ store[job[w]] # NoRecord
  /\ store[job[w]].user = seen[w].user
  /\ store[job[w]].status = "pending"

Claim(w) ==
  LET executing == [seen[w] EXCEPT !.status = "executing"] IN
  /\ stage[w] = "claim" /\ CanClaim(w)
  /\ Go(w, "claim", "confirmation_confirmed", executing)
  /\ store' = [store EXCEPT ![job[w]] = executing]
  /\ claimed' = claimed \cup {job[w]}
  /\ UNCHANGED <<rows, authority, clock, log, applied, lost>>

LoseClaim(w) ==
  /\ stage[w] = "claim" /\ ~CanClaim(w)
  /\ Done(w)
  /\ UNCHANGED <<store, rows, authority, clock, log, history>>

(* The statement takes effect on the target database, and may change how    *)
(* many rows the WHERE clause matches.                                      *)
TakeEffect(w) ==
  /\ rows' \in 0 .. MaxRows
  /\ applied' = [applied EXCEPT ![job[w]] = @ + 1]

Execute(w) ==
  /\ Go(w, "execute", "finish", [seen[w] EXCEPT !.status = "executed", !.result = Estimate(seen[w].op)])
  /\ TakeEffect(w)
  /\ UNCHANGED <<store, authority, clock, log, claimed, lost>>

(* Mutants: the exception is swallowed; the rollback is missing; the        *)
(* exception is not caught.                                                 *)
ExecuteRaisesSwallowed(w) ==
  /\ Go(w, "execute", "finish", [seen[w] EXCEPT !.status = "executed"])
  /\ UNCHANGED <<store, rows, authority, clock, log, history>>

ExecuteRaisesKept(w) ==
  /\ Go(w, "execute", "fail", [seen[w] EXCEPT !.status = "failed"])
  /\ TakeEffect(w)
  /\ UNCHANGED <<store, authority, clock, log, claimed, lost>>

ExecuteRaisesUncaught(w) ==
  /\ stage[w] = "execute"
  /\ Done(w)
  /\ UNCHANGED <<store, rows, authority, clock, log, history>>

(* execute raises: the transaction is rolled back, except that a MySQL      *)
(* COMMIT whose answer is lost may have taken effect.                       *)
ExecuteRaises(w) ==
  /\ Go(w, "execute", "fail", [seen[w] EXCEPT !.status = "failed"])
  /\ \/ UNCHANGED <<rows, applied>>
     \/ Dialect = "mysql" /\ TakeEffect(w)
  /\ UNCHANGED <<store, authority, clock, log, claimed, lost>>

Finish(w) ==
  /\ Go(w, "finish", "operation_executed", seen[w])
  /\ Update(job[w], seen[w])
  /\ UNCHANGED <<rows, authority, clock, log, history>>

(* AuditService.record hands the event to every sink and swallows their     *)
(* exceptions: the event is lost, unnoticed, if every sink fails.           *)
Emit(e) ==
  \/ audit' = audit \cup {e} /\ UNCHANGED missed
  \/ e[1] \in Losable /\ missed' = missed \cup {e} /\ UNCHANGED audit

(* Mutant: the confirmation is audited after the execution only.           *)
RecordAuditLate(w) ==
  /\ stage[w] \in Events
  /\ IF stage[w] = "confirmation_confirmed"
       THEN Go(w, stage[w], "execute", seen[w]) /\ UNCHANGED log
       ELSE Done(w) /\ Emit(<<stage[w], job[w]>>)
  /\ UNCHANGED <<store, rows, authority, clock, history>>

(* _record_audit: the last step of every handler but confirm's, which goes  *)
(* on to execute the operation once it has recorded the confirmation,       *)
(* whether or not the event was stored.                                     *)
RecordAudit(w) ==
  /\ stage[w] \in Events
  /\ Emit(<<stage[w], job[w]>>)
  /\ IF stage[w] = "confirmation_confirmed"
       THEN Go(w, stage[w], "execute", seen[w])
       ELSE Done(w)
  /\ UNCHANGED <<store, rows, authority, clock, history>>
-----------------------------------------------------------------------------
(* DatabaseOperationDirectExecuteService.execute: no confirmation, and only *)
(* for statements that are not delete-like; it may fail without effect.     *)
BeginDirect(w, u, op) ==
  /\ CheckSql(w, u, op)
  /\ ~DeleteLike(op)
  /\ SupportsDirectOperation(op)
  /\ Begin(w, "direct", u, NoRecord, NoRecord)
  /\ Remember(w, Right(u, op))
  /\ UNCHANGED <<store, rows, clock, log, history>>

ExecuteDirect(w) ==
  /\ stage[w] = "direct"
  /\ rows' \in 0 .. MaxRows
  /\ Done(w)
  /\ UNCHANGED <<store, authority, clock, log, history>>

(* invalidate_cache forgets the decisions about a resource, for all users.  *)
(* It raises, and forgets none, when a tool thread adds a decision while    *)
(* the keys are listed; what was remembered then outlives the change.       *)
(* Threads check documents only, never an operation: a check of an          *)
(* operation is not overtaken by a change, as PermissionCache has it for    *)
(* the keys they do check.                                                  *)
Invalidate(w, g) ==
  LET others == {h \in Grants : h[2] # g[2]} IN
  /\ cache' = [cache EXCEPT ![w] = [h \in Grants |-> IF h \in others THEN @[h] ELSE "none"]]
  /\ uncleared' = [uncleared EXCEPT ![w] = @ \cap others]

InvalidationRaises(w, g) ==
  /\ ThreadedChecks
  /\ uncleared' = [uncleared EXCEPT ![w] = IF cache[w][g] = "none" THEN @ ELSE @ \cup {g}]
  /\ UNCHANGED cache

(* Between two requests a process handles a grant or a revocation, which    *)
(* changes the grants in its own memory only, and then its cache.           *)
ChangeGrants(w) ==
  /\ stage[w] = "idle"
  /\ \E g \in Grantable :
       /\ perms' = [perms EXCEPT ![w] = IF g \in @ THEN @ \ {g} ELSE @ \cup {g}]
       /\ Invalidate(w, g) \/ InvalidationRaises(w, g)
  /\ UNCHANGED <<store, rows, clock, handler, log, history>>

(* A call on a database raises (the file is locked, the table is gone): the *)
(* handler ends there, and the route, which catches refusals only, answers  *)
(* with a server error.  Within confirm only the executor's exceptions are  *)
(* caught.                                                                  *)
Abandon(w) ==
  /\ stage[w] \notin {"idle", "execute", "direct"} \cup Events
  /\ Done(w)
  /\ lost' = lost \cup {job[w]}
  /\ UNCHANGED <<store, rows, authority, clock, log, claimed, applied>>

(* A process dies at any point, and its successor starts with the seed      *)
(* grants and an empty cache.  Nothing looks for confirmations it left      *)
(* executing.                                                               *)
Crash(w) ==
  /\ Done(w)
  /\ perms' = [perms EXCEPT ![w] = SeedPerms]
  /\ cache' = [cache EXCEPT ![w] = [g \in Grants |-> "none"]]
  /\ uncleared' = [uncleared EXCEPT ![w] = {}]
  /\ lost' = (lost \cup {job[w]}) \cap Ids
  /\ UNCHANGED <<store, rows, clock, log, claimed, applied>>

Tick ==
  /\ clock < MaxTime
  /\ clock' = clock + 1
  /\ UNCHANGED <<store, rows, authority, handler, log, history>>

OutsideWrite ==
  /\ OutsideWriters
  /\ rows' \in (0 .. MaxRows) \ {rows}
  /\ UNCHANGED <<store, authority, clock, handler, log, history>>
-----------------------------------------------------------------------------
(* The steps a handler takes by itself once a request has started it.       *)
HandlerStep(w) ==
  \/ Create(w) \/ Cancel(w) \/ Expire(w) \/ Recheck(w) \/ MarkFailed(w)
  \/ Claim(w) \/ LoseClaim(w) \/ Execute(w) \/ ExecuteRaises(w) \/ Finish(w)
  \/ RecordAudit(w) \/ ExecuteDirect(w)

Request(w) ==
  \/ \E u \in Users, op \in Ops, id \in Ids : Prepare(w, u, op, id)
  \/ \E u \in Users, id \in Ids : BeginCancel(w, u, id) \/ BeginConfirm(w, u, id)
  \/ \E u \in Users, op \in Ops : BeginDirect(w, u, op) \/ Refuse(w, u, op)
  \/ ChangeGrants(w)

Environment == Tick \/ OutsideWrite

Fault(w) == Abandon(w) \/ Crash(w)

Next == (\E w \in Workers : HandlerStep(w) \/ Request(w) \/ Fault(w)) \/ Environment

Spec == Init /\ [][Next]_vars

(* A handler runs to its end, or to a fault: the code between two requests  *)
(* never blocks.  Requests are never certain.                               *)
FairSpec == Spec /\ \A w \in Workers : WF_vars(HandlerStep(w))
-----------------------------------------------------------------------------
(* An operation takes effect at most once, whoever confirms it, however     *)
(* often, from however many processes, and whatever crashes in between: the *)
(* conditional update in transition_pending_to_executing must let only one  *)
(* handler through, and no blind update may make a confirmation pending     *)
(* again.                                                                   *)
AtMostOnce == \A id \in Ids : applied[id] <= 1

(* No confirmation is shown or audited as executed unless its SQL took      *)
(* effect exactly once: the record is written from a copy read earlier.     *)
ExecutedIsTrue ==
  \A id \in Ids :
    \/ store[id] # NoRecord /\ store[id].status = "executed"
    \/ <<"operation_executed", id>> \in audit
    => applied[id] = 1

(* By the time an operation takes effect the owner's confirmation has been  *)
(* handed to the audit log (confirm records it between the claim and the    *)
(* execution): it is there, unless every sink failed to store it, which     *)
(* confirm is not told.                                                     *)
AppliedWasAudited ==
  \A id \in Ids :
    applied[id] > 0 => <<"confirmation_confirmed", id>> \in audit \cup missed

(* An operation takes effect only at the request of its owner, and while    *)
(* the owner holds the grant in the process that executes: prepare's check  *)
(* may be long past, so this is the work of confirm's recheck, through the  *)
(* cache.  The one exception is a grant whose change did not clear the      *)
(* cache, because a thread was adding to it, and which has not been changed *)
(* again nor the process restarted since.                                   *)
Authorised(w, u, op) == Right(u, op) \in perms[w] \cup uncleared[w]

PermittedWhenApplied ==
  [][\A id \in Ids : applied'[id] > applied[id] =>
       \E w \in Workers :
         /\ stage[w] = "execute" /\ job[w] = id /\ caller[w] = store[id].user
         /\ Authorised(w, store[id].user, store[id].op)]_vars

(* Whatever handlers write over a confirmation, from whatever copies and    *)
(* processes: it stays the operation its owner was shown, and what has left *)
(* pending never returns to it.                                             *)
SameOperation(r, s) ==
  r.user = s.user /\ r.op = s.op /\ r.estimate = s.estimate /\ r.expires = s.expires

IdentityIsKept ==
  [][\A id \in Ids : store[id] # NoRecord =>
       /\ store'[id] # NoRecord /\ SameOperation(store'[id], store[id])
       /\ store[id].status # "pending" => store'[id].status # "pending"]_vars

(* The invariant those rest on: an unclaimed confirmation has had no        *)
(* effect; a handler between its claim and the execution is the only one    *)
(* for that confirmation, which has had no effect yet; a handler that is    *)
(* creating a confirmation is the only one to know its id; what a handler   *)
(* is about to write is never pending, and is executed only if it is; a     *)
(* remembered decision is the one the grants demand, unless their change    *)
(* could not clear it; and a handler that passed the recheck still serves   *)
(* the permitted owner.                                                     *)
Holds(w) == stage[w] \in {"confirmation_confirmed", "execute"}

UnclaimedHasNoEffect ==
  \A id \in Ids :
    /\ applied[id] \in {0, 1}
    /\ id \notin claimed => applied[id] = 0
    /\ store[id] = NoRecord => id \notin claimed
    /\ store[id] # NoRecord /\ store[id].status = "pending" => id \notin claimed

OneHolder ==
  \A w \in Workers :
    Holds(w) => /\ job[w] \in claimed /\ applied[job[w]] = 0
                /\ \A v \in Workers : Holds(v) /\ job[v] = job[w] => v = w

FreshIds ==
  \A w \in Workers :
    /\ stage[w] = "create" =>
         /\ store[job[w]] = NoRecord
         /\ \A v \in Workers : job[v] = job[w] => v = w
    /\ stage[w] \notin {"idle", "direct", "create"} =>
         store[job[w]] # NoRecord /\ SameOperation(store[job[w]], seen[w])

WritesAreFinal ==
  \A w \in Workers :
    /\ stage[w] = "create" => seen[w].status = "pending"
    /\ stage[w] = "cancel" => seen[w].status = "cancelled"
    /\ stage[w] = "expire" => seen[w].status = "expired"
    /\ stage[w] \in {"reject", "fail"} => seen[w].status = "failed"
    /\ stage[w] = "finish" => seen[w].status = "executed"
    /\ stage[w] \in {"finish", "operation_executed"} => applied[job[w]] = 1
    /\ stage[w] = "execute" => <<"confirmation_confirmed", job[w]>> \in audit \cup missed

(* A confirmation that is executing is in the hands of the process that     *)
(* claimed it, unless a fault hit it there: nobody else settles it, and     *)
(* nobody is about to once it is executed.                                  *)
Settles(w, id) ==
  job[w] = id /\ stage[w] \in {"confirmation_confirmed", "execute", "fail", "finish"}

ExecutingIsHeld ==
  \A id \in Ids :
    store[id] # NoRecord /\ store[id].status = "executing"
      => id \in lost \/ \E w \in Workers : Settles(w, id)

OneSettler ==
  \A w \in Workers, id \in Ids :
    Settles(w, id) => /\ id \in claimed /\ store[id].status # "executed"
                      /\ \A v \in Workers : Settles(v, id) => v = w

OwnerRechecked ==
  \A w \in Workers :
    /\ stage[w] \notin {"idle", "direct"} => caller[w] = seen[w].user
    /\ stage[w] \in {"claim", "confirmation_confirmed", "execute"} =>
         Authorised(w, caller[w], seen[w].op)

CacheIsCurrent ==
  \A w \in Workers : \A g \in Grants \ uncleared[w] :
    /\ cache[w][g] = "allowed" => g \in perms[w]
    /\ cache[w][g] = "denied" => g \notin perms[w]

EffectInv ==
  /\ TypeOK
  /\ UnclaimedHasNoEffect /\ OneHolder /\ FreshIds
  /\ WritesAreFinal /\ CacheIsCurrent /\ OwnerRechecked
  /\ ExecutedIsTrue /\ AppliedWasAudited

IInv == EffectInv /\ ExecutingIsHeld /\ OneSettler

(* A confirmation that was cancelled, expired, executed or failed stays so. *)
(* Holds for one process; cancel, expire and fail overwrite blindly.        *)
TerminalIsFinal ==
  [][\A id \in Ids :
       store[id] # NoRecord /\ store[id].status \in Terminal => store'[id] = store[id]]_vars

(* A confirmation that reads pending, cancelled, expired (or, where a       *)
(* failed execution is certain to be rolled back, failed) has had no effect *)
(* on the target database.  Holds for one process.                          *)
UnexecutedIsTrue ==
  \A id \in Ids :
    /\ store[id] # NoRecord
    /\ store[id].status \in {"pending", "cancelled", "expired"}
                            \cup (IF Dialect = "sqlite" THEN {"failed"} ELSE {})
    => applied[id] = 0

(* The user is shown how many rows an operation will touch; if it executes, *)
(* it touches that many, although other operations may have run in the      *)
(* meantime.  Holds when this process alone writes to the target database:  *)
(* nothing isolates the recheck's COUNT from the statement.                 *)
PreviewHonoured ==
  \A id \in Ids :
    store[id] # NoRecord /\ store[id].status = "executed" => store[id].result = store[id].estimate

(* The invariant these rest on, for one process: what a handler has read of *)
(* its confirmation is still so when it writes, since no other handler runs *)
(* in between; and the row count it rechecked is the one it executes with.  *)
OnTrack(w) ==
  /\ stage[w] \in {"cancel", "expire", "recheck", "reject", "claim"} =>
       store[job[w]].status = "pending"
  /\ stage[w] \in {"confirmation_confirmed", "execute", "fail", "finish"} =>
       store[job[w]].status = "executing"
  /\ stage[w] = "fail" /\ Dialect = "sqlite" => applied[job[w]] = 0

CountHolds(w) ==
  /\ stage[w] \in {"claim", "confirmation_confirmed", "execute"} =>
       Estimate(seen[w].op) = seen[w].estimate
  /\ stage[w] = "finish" => seen[w].result = seen[w].estimate

AloneInv ==
  /\ \A w \in Workers : OnTrack(w) /\ (OutsideWriters \/ CountHolds(w))
  /\ UnexecutedIsTrue
  /\ OutsideWriters \/ PreviewHonoured

(* A confirmation that is executing gets an outcome, unless a process dies  *)
(* or a storage call fails over it (execution_deadline_at is never read).   *)
ExecutingSettles ==
  \A id \in Ids :
    (store[id] # NoRecord /\ store[id].status = "executing")
      ~> (id \in lost \/ (store[id] # NoRecord /\ store[id].status \in Terminal))

(* A handler goes through its stages in one direction, so that it takes at  *)
(* most six steps to its end, and only its own process moves it.            *)
StepsLeft(at) ==
  CASE at = "idle" -> 0
    [] at \in {"direct", "prepare_created", "confirmation_cancelled", "confirmation_expired",
               "execution_failed", "operation_executed"} -> 1
    [] at \in {"create", "cancel", "expire", "reject", "fail", "finish"} -> 2
    [] at = "execute" -> 3
    [] at = "confirmation_confirmed" -> 4
    [] at = "claim" -> 5
    [] at = "recheck" -> 6

HandlersAdvance ==
  [][\A w \in Workers :
       \/ stage[w] = "idle"
       \/ UNCHANGED <<stage[w], caller[w], job[w]>> /\ ~HandlerStep(w)
       \/ StepsLeft(stage'[w]) < StepsLeft(stage[w])]_vars

(* However many processes there are, an outcome is replaced only by another *)
(* outcome, and only by a handler that had read the confirmation before it  *)
(* had one: cancel, expire and reject read it pending, fail and finish      *)
(* claimed it.  That it was executed is overwritten by the former only.     *)
OutcomesAreReplaced ==
  [][\A id \in Ids :
       store[id] # NoRecord /\ store[id].status \in Terminal /\ store'[id] # store[id] =>
         /\ store'[id].status \in Terminal
         /\ \E w \in Workers :
              /\ job[w] = id
              /\ stage[w] \in {"cancel", "expire", "reject"}
                              \cup (IF store[id].status = "executed" THEN {} ELSE {"fail", "finish"})]_vars

(* The flow implements the one-shot operation.                              *)
OneShot == INSTANCE OneShotOperation WITH
             offered <- {id \in Ids : store[id] # NoRecord}
ImplementsOneShot == OneShot!Spec
=============================================================================
