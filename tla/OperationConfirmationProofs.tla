--------------------- MODULE OperationConfirmationProofs ---------------------
(***************************************************************************)
(* Proofs that the confirmation flow executes an operation at most once,   *)
(* truthfully recorded, handed to the audit log and as permitted to its    *)
(* owner as the decision cache allows, for every number of processes,      *)
(* users, confirmations, crashes and lost audit events, and that it        *)
(* implements OneShotOperation.                                            *)
(*                                                                         *)
(* One lemma per action shows that the action keeps EffectInv; under it, one    *)
(* step per conjunct of EffectInv that the action can disturb, and one for the  *)
(* conjuncts it leaves alone.                                              *)
(***************************************************************************)
EXTENDS OperationConfirmation, TLAPS

(* A handler that has begun holds a record of a confirmation.               *)
LEMMA SeenIsRecord ==
  ASSUME EffectInv, NEW w \in Workers, stage[w] \notin {"idle", "direct"}
  PROVE  seen[w] \in Record /\ job[w] \in Ids
  BY DEF EffectInv, TypeOK

(* The records that handlers build from the ones they hold.                 *)
LEMMA UpdatedRecords ==
  ASSUME NEW r \in Record, NEW s \in Statuses, NEW e \in Estimates
  PROVE  /\ [r EXCEPT !.status = s] \in Record
         /\ [r EXCEPT !.status = s, !.result = e] \in Record
  BY DEF Record

(* Going on with a record keeps the type of the handlers.                   *)
LEMMA GoIsTyped ==
  ASSUME EffectInv, NEW w \in Workers, NEW from \in Stages \ {"idle", "direct"},
         NEW to \in Stages, NEW r \in Record, Go(w, from, to, r)
  PROVE  /\ stage' \in [Workers -> Stages] /\ caller' \in [Workers -> Users \cup {NoRecord}]
         /\ job' \in [Workers -> Ids \cup {NoRecord}]
         /\ seen' \in [Workers -> Record \cup {NoRecord}]
         /\ \A v \in Workers : stage'[v] \notin {"idle", "direct"} =>
              caller'[v] # NoRecord /\ job'[v] # NoRecord /\ seen'[v] # NoRecord
  BY NoRecordAssumption DEF Go, EffectInv, TypeOK

(* Steps that leave grants and cache alone keep what is said about them.    *)
LEMMA AuthorityStays ==
  ASSUME EffectInv, UNCHANGED authority
  PROVE  AuthorityTypeOK' /\ CacheIsCurrent'
  BY DEF authority, EffectInv, TypeOK, AuthorityTypeOK, CacheIsCurrent

(* What check answers is what the grants say, unless their change left the  *)
(* remembered decision in place; and remembering it keeps the cache so.     *)
LEMMA AllowedIsAuthorised ==
  ASSUME EffectInv, NEW w \in Workers, NEW u \in Users, NEW op, CheckSql(w, u, op)
  PROVE  Authorised(w, u, op)
<1>1. Right(u, op) \in Grants
  BY DEF Right, Grants, PermissionTypes, OperationPermissionType
<1> QED
  BY <1>1 DEF CheckSql, Decision, Authorised, EffectInv, CacheIsCurrent, TypeOK, AuthorityTypeOK

LEMMA RememberKeeps ==
  ASSUME EffectInv, NEW w \in Workers, NEW u \in Users, NEW op, Remember(w, Right(u, op))
  PROVE  /\ perms' = perms /\ uncleared' = uncleared
         /\ AuthorityTypeOK' /\ CacheIsCurrent'
<1> DEFINE g == Right(u, op)
<1>1. g \in Grants
  BY DEF Right, Grants, PermissionTypes, OperationPermissionType
<1>2. /\ Decision(w, g) \in {"allowed", "denied"}
      /\ g \notin uncleared[w] => (Decision(w, g) = "allowed" <=> g \in perms[w])
  BY <1>1 DEF Decision, EffectInv, CacheIsCurrent, TypeOK, AuthorityTypeOK
<1>3. cache' = [cache EXCEPT ![w][g] = Decision(w, g)] /\ perms' = perms /\ uncleared' = uncleared
  BY DEF Remember
<1> HIDE DEF g
<1>4. /\ cache' \in [Workers -> [Grants -> {"none", "allowed", "denied"}]]
      /\ cache'[w][g] = Decision(w, g)
      /\ \A v \in Workers, h \in Grants : v # w \/ h # g => cache'[v][h] = cache[v][h]
  BY <1>1, <1>2, <1>3 DEF EffectInv, TypeOK, AuthorityTypeOK
<1> QED
  BY <1>1, <1>2, <1>3, <1>4 DEF EffectInv, TypeOK, AuthorityTypeOK, CacheIsCurrent

LEMMA PrepareKeeps ==
  ASSUME EffectInv, NEW w \in Workers, NEW u \in Users, NEW op \in Ops, NEW id \in Ids, Prepare(w, u, op, id)
  PROVE  EffectInv'
<1>0. /\ perms' = perms /\ uncleared' = uncleared /\ CacheIsCurrent'
      /\ AuthorityTypeOK'
  BY RememberKeeps DEF Prepare
<1> USE <1>0, ConfirmationAssumption, NoRecordAssumption
    DEF Prepare, Begin, SupportsOperation, Estimate, EffectInv, TypeOK, Stages, Events, handler, history, authority, log
<1>1. TypeOK'
  <2>1. [user |-> u, op |-> op, status |-> "pending", estimate |-> Estimate(op),
         expires |-> clock + TTL, result |-> NoRows] \in Record
    BY DEF Estimate, Record, Estimates, Statuses
  <2> QED
    BY <2>1
<1>2. FreshIds'
  BY DEF FreshIds, SameOperation
<1>3. WritesAreFinal'
  BY DEF WritesAreFinal, OneHolder, Holds
<1>4. OwnerRechecked'
  BY DEF OwnerRechecked, Authorised, FreshIds
<1>5. /\ UnclaimedHasNoEffect'
      /\ OneHolder'
      /\ ExecutedIsTrue'
      /\ AppliedWasAudited' /\ CacheIsCurrent'
  BY DEF UnclaimedHasNoEffect, OneHolder, Holds, ExecutedIsTrue,
      AppliedWasAudited, CacheIsCurrent
<1> QED
  BY <1>1, <1>2, <1>3, <1>4, <1>5

LEMMA CreateKeeps ==
  ASSUME EffectInv, NEW w \in Workers, Create(w)
  PROVE  EffectInv'
<1> USE ConfirmationAssumption, NoRecordAssumption
    DEF Create, Go, EffectInv, TypeOK, Stages, Events, handler, history, authority, log
<1>1. TypeOK'
  BY AuthorityStays DEF Record, Statuses
<1>2. UnclaimedHasNoEffect'
  BY DEF UnclaimedHasNoEffect, OneHolder, Holds, FreshIds, WritesAreFinal
<1>3. FreshIds'
  BY DEF FreshIds, SameOperation
<1>4. ExecutedIsTrue'
  BY DEF ExecutedIsTrue, WritesAreFinal, OneHolder, Holds, FreshIds
<1>5. /\ OneHolder'
      /\ WritesAreFinal'
      /\ OwnerRechecked'
      /\ AppliedWasAudited' /\ CacheIsCurrent'
  BY AuthorityStays DEF OneHolder, Holds, WritesAreFinal, OwnerRechecked, Authorised,
      AppliedWasAudited
<1> QED
  BY <1>1, <1>2, <1>3, <1>4, <1>5

LEMMA BeginCancelKeeps ==
  ASSUME EffectInv, NEW w \in Workers, NEW u \in Users, NEW id \in Ids, BeginCancel(w, u, id)
  PROVE  EffectInv'
<1> USE ConfirmationAssumption, NoRecordAssumption
    DEF BeginCancel, Begin, ReadPending, EffectInv, TypeOK, Stages, Events, handler, history, authority, log
<1>1. TypeOK'
  <2>1. [store[id] EXCEPT !.status = "cancelled"] \in Record
    BY DEF Record, Statuses
  <2> QED
    BY AuthorityStays, <2>1
<1>2. FreshIds'
  BY DEF FreshIds, SameOperation
<1>3. WritesAreFinal'
  BY DEF WritesAreFinal, OneHolder, Holds
<1>4. OwnerRechecked'
  BY DEF OwnerRechecked, Authorised, FreshIds
<1>5. /\ UnclaimedHasNoEffect'
      /\ OneHolder'
      /\ ExecutedIsTrue'
      /\ AppliedWasAudited' /\ CacheIsCurrent'
  BY AuthorityStays DEF UnclaimedHasNoEffect, OneHolder, Holds, ExecutedIsTrue,
      AppliedWasAudited
<1> QED
  BY <1>1, <1>2, <1>3, <1>4, <1>5

LEMMA CancelKeeps ==
  ASSUME EffectInv, NEW w \in Workers, Cancel(w)
  PROVE  EffectInv'
<1> USE ConfirmationAssumption, NoRecordAssumption
    DEF Cancel, Go, Update, EffectInv, TypeOK, Stages, Events, handler, history, authority, log
<1>1. TypeOK'
  BY AuthorityStays DEF Record, Statuses
<1>2. UnclaimedHasNoEffect'
  BY DEF UnclaimedHasNoEffect, OneHolder, Holds, FreshIds, WritesAreFinal
<1>3. FreshIds'
  BY DEF FreshIds, SameOperation
<1>4. ExecutedIsTrue'
  BY DEF ExecutedIsTrue, WritesAreFinal, OneHolder, Holds, FreshIds
<1>5. /\ OneHolder'
      /\ WritesAreFinal'
      /\ OwnerRechecked'
      /\ AppliedWasAudited' /\ CacheIsCurrent'
  BY AuthorityStays DEF OneHolder, Holds, WritesAreFinal, OwnerRechecked, Authorised,
      AppliedWasAudited
<1> QED
  BY <1>1, <1>2, <1>3, <1>4, <1>5

LEMMA BeginConfirmKeeps ==
  ASSUME EffectInv, NEW w \in Workers, NEW u \in Users, NEW id \in Ids, BeginConfirm(w, u, id)
  PROVE  EffectInv'
<1> USE ConfirmationAssumption, NoRecordAssumption
    DEF BeginConfirm, Begin, ReadPending, EffectInv, TypeOK, Stages, Events, handler, history, authority, log
<1>1. TypeOK'
  <2>1. store[id] \in Record /\ [store[id] EXCEPT !.status = "expired"] \in Record
    BY DEF Record, Statuses
  <2> QED
    BY AuthorityStays, <2>1
<1>2. FreshIds'
  BY DEF FreshIds, SameOperation, Record, Estimates, Statuses
<1>3. WritesAreFinal'
  BY DEF WritesAreFinal, OneHolder, Holds, Record, Estimates, Statuses
<1>4. OwnerRechecked'
  BY DEF OwnerRechecked, Authorised, FreshIds, Record, Estimates, Statuses
<1>5. /\ UnclaimedHasNoEffect'
      /\ OneHolder'
      /\ ExecutedIsTrue'
      /\ AppliedWasAudited' /\ CacheIsCurrent'
  BY AuthorityStays DEF UnclaimedHasNoEffect, OneHolder, Holds, ExecutedIsTrue,
      AppliedWasAudited
<1> QED
  BY <1>1, <1>2, <1>3, <1>4, <1>5

LEMMA ExpireKeeps ==
  ASSUME EffectInv, NEW w \in Workers, Expire(w)
  PROVE  EffectInv'
<1> USE ConfirmationAssumption, NoRecordAssumption
    DEF Expire, Go, Update, EffectInv, TypeOK, Stages, Events, handler, history, authority, log
<1>1. TypeOK'
  BY AuthorityStays DEF Record, Statuses
<1>2. UnclaimedHasNoEffect'
  BY DEF UnclaimedHasNoEffect, OneHolder, Holds, FreshIds, WritesAreFinal
<1>3. FreshIds'
  BY DEF FreshIds, SameOperation
<1>4. ExecutedIsTrue'
  BY DEF ExecutedIsTrue, WritesAreFinal, OneHolder, Holds, FreshIds
<1>5. /\ OneHolder'
      /\ WritesAreFinal'
      /\ OwnerRechecked'
      /\ AppliedWasAudited' /\ CacheIsCurrent'
  BY AuthorityStays DEF OneHolder, Holds, WritesAreFinal, OwnerRechecked, Authorised,
      AppliedWasAudited
<1> QED
  BY <1>1, <1>2, <1>3, <1>4, <1>5

LEMMA RecheckKeeps ==
  ASSUME EffectInv, NEW w \in Workers, Recheck(w)
  PROVE  EffectInv'
<1>0. /\ perms' = perms /\ uncleared' = uncleared /\ CacheIsCurrent'
      /\ AuthorityTypeOK'
  <2>1. caller[w] \in Users
    BY DEF Recheck, EffectInv, TypeOK
  <2>2. CASE Remember(w, Right(caller[w], seen[w].op))
    BY <2>1, <2>2, RememberKeeps
  <2>3. CASE UNCHANGED authority
    BY <2>3, AuthorityStays DEF authority
  <2> QED
    BY <2>2, <2>3 DEF Recheck
<1>1. TypeOK'
  <2>1. PICK to \in {"claim", "reject"}, r \in Record : Go(w, "recheck", to, r)
    BY SeenIsRecord, UpdatedRecords DEF Recheck, Go, Statuses, Estimates
  <2>2. /\ stage' \in [Workers -> Stages] /\ caller' \in [Workers -> Users \cup {NoRecord}]
        /\ job' \in [Workers -> Ids \cup {NoRecord}]
        /\ seen' \in [Workers -> Record \cup {NoRecord}]
        /\ \A v \in Workers : stage'[v] \notin {"idle", "direct"} =>
             caller'[v] # NoRecord /\ job'[v] # NoRecord /\ seen'[v] # NoRecord
    BY <2>1, GoIsTyped DEF Stages
  <2> QED
    BY <1>0, <2>2 DEF Recheck, EffectInv, TypeOK, history, log
<1> USE <1>0, ConfirmationAssumption, NoRecordAssumption
    DEF Recheck, Go, RecheckPasses, EffectInv, TypeOK, Stages, Events, handler, history, log
<1>2. FreshIds'
  BY DEF FreshIds, SameOperation, Record, Estimates, Statuses
<1>3. WritesAreFinal'
  BY DEF WritesAreFinal, OneHolder, Holds, Record, Estimates, Statuses
<1>4. OwnerRechecked'
  <2>1. caller[w] = seen[w].user /\ caller' = caller
    BY DEF OwnerRechecked
  <2>2. seen'[w].user = seen[w].user /\ seen'[w].op = seen[w].op
    BY DEF Record
  <2>3. stage'[w] = "claim" => Authorised(w, caller[w], seen[w].op)
    <3>1. caller[w] \in Users
      OBVIOUS
    <3>2. stage'[w] = "claim" => CheckSql(w, caller[w], seen[w].op)
      OBVIOUS
    <3> QED
      BY <3>1, <3>2, AllowedIsAuthorised
  <2>4. stage'[w] \in {"claim", "reject"}
    OBVIOUS
  <2>5. \A v \in Workers \ {w} : stage'[v] = stage[v] /\ seen'[v] = seen[v]
    OBVIOUS
  <2> QED
    BY <2>1, <2>2, <2>3, <2>4, <2>5 DEF OwnerRechecked, Authorised
<1>5. /\ UnclaimedHasNoEffect'
      /\ OneHolder'
      /\ ExecutedIsTrue'
      /\ AppliedWasAudited' /\ CacheIsCurrent'
  BY DEF UnclaimedHasNoEffect, OneHolder, Holds, ExecutedIsTrue,
      AppliedWasAudited, CacheIsCurrent
<1> QED
  BY <1>1, <1>2, <1>3, <1>4, <1>5

LEMMA MarkFailedKeeps ==
  ASSUME EffectInv, NEW w \in Workers, MarkFailed(w)
  PROVE  EffectInv'
<1> USE ConfirmationAssumption, NoRecordAssumption
    DEF MarkFailed, Go, Update, EffectInv, TypeOK, Stages, Events, handler, history, authority, log
<1>1. TypeOK'
  BY AuthorityStays DEF Record, Statuses
<1>2. UnclaimedHasNoEffect'
  BY DEF UnclaimedHasNoEffect, OneHolder, Holds, FreshIds, WritesAreFinal
<1>3. FreshIds'
  BY DEF FreshIds, SameOperation
<1>4. ExecutedIsTrue'
  BY DEF ExecutedIsTrue, WritesAreFinal, OneHolder, Holds, FreshIds
<1>5. /\ OneHolder'
      /\ WritesAreFinal'
      /\ OwnerRechecked'
      /\ AppliedWasAudited' /\ CacheIsCurrent'
  BY AuthorityStays DEF OneHolder, Holds, WritesAreFinal, OwnerRechecked, Authorised,
      AppliedWasAudited
<1> QED
  BY <1>1, <1>2, <1>3, <1>4, <1>5

LEMMA ClaimKeeps ==
  ASSUME EffectInv, NEW w \in Workers, Claim(w)
  PROVE  EffectInv'
<1>1. TypeOK'
  <2>1. PICK r \in Record : /\ Go(w, "claim", "confirmation_confirmed", r)
                            /\ store' = [store EXCEPT ![job[w]] = r]
    BY SeenIsRecord, UpdatedRecords DEF Claim, Go, Statuses, Estimates
  <2>2. /\ stage' \in [Workers -> Stages] /\ caller' \in [Workers -> Users \cup {NoRecord}]
        /\ job' \in [Workers -> Ids \cup {NoRecord}]
        /\ seen' \in [Workers -> Record \cup {NoRecord}]
        /\ \A v \in Workers : stage'[v] \notin {"idle", "direct"} =>
             caller'[v] # NoRecord /\ job'[v] # NoRecord /\ seen'[v] # NoRecord
    BY <2>1, GoIsTyped DEF Stages, Events
  <2>3. claimed' \subseteq Ids
    BY SeenIsRecord DEF Claim, EffectInv, TypeOK
  <2> QED
    BY AuthorityStays, <2>1, <2>2, <2>3 DEF Claim, EffectInv, TypeOK, authority, log
<1> USE ConfirmationAssumption, NoRecordAssumption
    DEF Claim, Go, CanClaim, EffectInv, TypeOK, Stages, Events, handler, history, authority, log
<1>2. UnclaimedHasNoEffect'
  <2> HIDE DEF Claim, Go, CanClaim, EffectInv, TypeOK, Stages, Events, handler, history, authority, log
  <2> USE DEF UnclaimedHasNoEffect
  <2>1. PICK r \in Record : r.status = "executing" /\ store' = [store EXCEPT ![job[w]] = r]
    <3>1. seen[w] \in Record
      BY SeenIsRecord DEF Claim
    <3>2. [seen[w] EXCEPT !.status = "executing"] \in Record
      BY <3>1 DEF Record, Statuses
    <3>3. [seen[w] EXCEPT !.status = "executing"].status = "executing"
      BY <3>1 DEF Record
    <3> QED
      BY <3>2, <3>3 DEF Claim
  <2>2. claimed' = claimed \cup {job[w]} /\ applied' = applied /\ job[w] \notin claimed
    BY SeenIsRecord DEF Claim, CanClaim, EffectInv
  <2> QED
    BY <2>1, <2>2, SeenIsRecord DEF Claim, EffectInv, TypeOK
<1>3. OneHolder'
  BY DEF OneHolder, Holds, UnclaimedHasNoEffect, FreshIds
<1>4. FreshIds'
  BY DEF FreshIds, SameOperation, Record, Estimates, Statuses
<1>5. OwnerRechecked'
  BY DEF OwnerRechecked, Authorised, FreshIds, Record, Estimates, Statuses
<1>6. ExecutedIsTrue'
  BY DEF ExecutedIsTrue, WritesAreFinal, OneHolder, Holds, FreshIds
<1>7. /\ WritesAreFinal'
      /\ AppliedWasAudited' /\ CacheIsCurrent'
  BY AuthorityStays DEF WritesAreFinal, AppliedWasAudited
<1> QED
  BY <1>1, <1>2, <1>3, <1>4, <1>5, <1>6, <1>7

LEMMA LoseClaimKeeps ==
  ASSUME EffectInv, NEW w \in Workers, LoseClaim(w)
  PROVE  EffectInv'
<1> USE ConfirmationAssumption, NoRecordAssumption
    DEF LoseClaim, Done, EffectInv, TypeOK, Stages, Events, handler, history, authority, log
<1>1. TypeOK'
  BY AuthorityStays DEF Record, Statuses
<1>2. FreshIds'
  BY DEF FreshIds, SameOperation
<1>3. /\ UnclaimedHasNoEffect'
      /\ OneHolder'
      /\ WritesAreFinal'
      /\ OwnerRechecked'
      /\ ExecutedIsTrue'
      /\ AppliedWasAudited' /\ CacheIsCurrent'
  BY AuthorityStays DEF UnclaimedHasNoEffect, OneHolder, Holds, WritesAreFinal,
      OwnerRechecked, Authorised, ExecutedIsTrue, AppliedWasAudited
<1> QED
  BY <1>1, <1>2, <1>3

LEMMA ExecuteKeeps ==
  ASSUME EffectInv, NEW w \in Workers, Execute(w)
  PROVE  EffectInv'
<1>1. TypeOK'
  <2>1. PICK r \in Record : Go(w, "execute", "finish", r)
    BY SeenIsRecord, UpdatedRecords DEF Execute, Go, Estimate, Statuses, Estimates, EffectInv, TypeOK
  <2>2. /\ stage' \in [Workers -> Stages] /\ caller' \in [Workers -> Users \cup {NoRecord}]
        /\ job' \in [Workers -> Ids \cup {NoRecord}]
        /\ seen' \in [Workers -> Record \cup {NoRecord}]
        /\ \A v \in Workers : stage'[v] \notin {"idle", "direct"} =>
             caller'[v] # NoRecord /\ job'[v] # NoRecord /\ seen'[v] # NoRecord
    BY <2>1, GoIsTyped DEF Stages
  <2>3. applied' \in [Ids -> Nat] /\ rows' \in 0 .. MaxRows
    BY SeenIsRecord DEF Execute, Go, TakeEffect, EffectInv, TypeOK
  <2> QED
    BY AuthorityStays, <2>2, <2>3 DEF Execute, EffectInv, TypeOK, authority, log
<1> USE ConfirmationAssumption, NoRecordAssumption
    DEF Execute, Go, TakeEffect, Estimate, EffectInv, TypeOK, Stages, Events, handler, history, authority, log
<1>2. UnclaimedHasNoEffect'
  BY DEF UnclaimedHasNoEffect, OneHolder, Holds, FreshIds, WritesAreFinal
<1>3. OneHolder'
  BY DEF OneHolder, Holds, UnclaimedHasNoEffect, FreshIds
<1>4. FreshIds'
  BY DEF FreshIds, SameOperation
<1>5. WritesAreFinal'
  BY DEF WritesAreFinal, OneHolder, Holds
<1>6. ExecutedIsTrue'
  BY DEF ExecutedIsTrue, WritesAreFinal, OneHolder, Holds, FreshIds
<1>7. AppliedWasAudited' /\ CacheIsCurrent'
  BY AuthorityStays DEF AppliedWasAudited, WritesAreFinal
<1>8. OwnerRechecked'
  BY DEF OwnerRechecked, Authorised
<1> QED
  BY <1>1, <1>2, <1>3, <1>4, <1>5, <1>6, <1>7, <1>8

LEMMA ExecuteRaisesKeeps ==
  ASSUME EffectInv, NEW w \in Workers, ExecuteRaises(w)
  PROVE  EffectInv'
<1> USE ConfirmationAssumption, NoRecordAssumption
    DEF ExecuteRaises, Go, TakeEffect, EffectInv, TypeOK, Stages, Events, handler, history, authority, log
<1>1. TypeOK'
  <2>1. [seen[w] EXCEPT !.status = "failed"] \in Record
    BY DEF Record, Statuses
  <2>2. applied' \in [Ids -> Nat] /\ rows' \in 0 .. MaxRows
    OBVIOUS
  <2> QED
    BY AuthorityStays, <2>1, <2>2
<1>2. UnclaimedHasNoEffect'
  BY DEF UnclaimedHasNoEffect, OneHolder, Holds, FreshIds, WritesAreFinal
<1>3. OneHolder'
  BY DEF OneHolder, Holds, UnclaimedHasNoEffect, FreshIds
<1>4. FreshIds'
  BY DEF FreshIds, SameOperation
<1>5. WritesAreFinal'
  BY DEF WritesAreFinal, OneHolder, Holds
<1>6. ExecutedIsTrue'
  BY DEF ExecutedIsTrue, WritesAreFinal, OneHolder, Holds, FreshIds
<1>7. AppliedWasAudited' /\ CacheIsCurrent'
  BY AuthorityStays DEF AppliedWasAudited, WritesAreFinal
<1>8. OwnerRechecked'
  BY DEF OwnerRechecked, Authorised
<1> QED
  BY <1>1, <1>2, <1>3, <1>4, <1>5, <1>6, <1>7, <1>8

LEMMA FinishKeeps ==
  ASSUME EffectInv, NEW w \in Workers, Finish(w)
  PROVE  EffectInv'
<1> USE ConfirmationAssumption, NoRecordAssumption
    DEF Finish, Go, Update, EffectInv, TypeOK, Stages, Events, handler, history, authority, log
<1>1. TypeOK'
  BY AuthorityStays DEF Record, Statuses
<1>2. UnclaimedHasNoEffect'
  BY DEF UnclaimedHasNoEffect, OneHolder, Holds, FreshIds, WritesAreFinal
<1>3. FreshIds'
  BY DEF FreshIds, SameOperation
<1>4. ExecutedIsTrue'
  BY DEF ExecutedIsTrue, WritesAreFinal, OneHolder, Holds, FreshIds
<1>5. /\ OneHolder'
      /\ WritesAreFinal'
      /\ OwnerRechecked'
      /\ AppliedWasAudited' /\ CacheIsCurrent'
  BY AuthorityStays DEF OneHolder, Holds, WritesAreFinal, OwnerRechecked, Authorised,
      AppliedWasAudited
<1> QED
  BY <1>1, <1>2, <1>3, <1>4, <1>5

LEMMA RecordAuditKeeps ==
  ASSUME EffectInv, NEW w \in Workers, RecordAudit(w)
  PROVE  EffectInv'
<1> USE ConfirmationAssumption, NoRecordAssumption
    DEF RecordAudit, Emit, Go, Done, EffectInv, TypeOK, Stages, Events, handler, history, authority, log
<1>1. TypeOK'
  BY AuthorityStays DEF Record, Statuses
<1>2. OneHolder'
  BY DEF OneHolder, Holds, UnclaimedHasNoEffect, FreshIds
<1>3. FreshIds'
  BY DEF FreshIds, SameOperation
<1>4. WritesAreFinal'
  BY DEF WritesAreFinal, OneHolder, Holds
<1>5. OwnerRechecked'
  BY DEF OwnerRechecked, Authorised, FreshIds
<1>6. ExecutedIsTrue'
  <2>1. UNCHANGED <<store, applied>> /\ audit' \subseteq audit \cup {<<stage[w], job[w]>>}
    OBVIOUS
  <2>2. stage[w] = "operation_executed" => applied[job[w]] = 1
    BY DEF WritesAreFinal
  <2> QED
    BY <2>1, <2>2 DEF ExecutedIsTrue
<1>7. AppliedWasAudited' /\ CacheIsCurrent'
  BY AuthorityStays DEF AppliedWasAudited, WritesAreFinal
<1>8. UnclaimedHasNoEffect'
  BY DEF UnclaimedHasNoEffect
<1> QED
  BY <1>1, <1>2, <1>3, <1>4, <1>5, <1>6, <1>7, <1>8

LEMMA RefuseKeeps ==
  ASSUME EffectInv, NEW w \in Workers, NEW u \in Users, NEW op \in Ops, Refuse(w, u, op)
  PROVE  EffectInv'
<1>1. /\ perms' = perms /\ uncleared' = uncleared /\ CacheIsCurrent'
      /\ AuthorityTypeOK'
  BY RememberKeeps DEF Refuse
<1> USE <1>1 DEF Refuse, EffectInv, handler, history, log
<1>2. TypeOK'
  BY DEF TypeOK
<1>3. /\ UnclaimedHasNoEffect'
      /\ OneHolder'
      /\ FreshIds'
      /\ WritesAreFinal'
      /\ OwnerRechecked'
      /\ ExecutedIsTrue'
      /\ AppliedWasAudited'
  BY DEF UnclaimedHasNoEffect, OneHolder, Holds, FreshIds, WritesAreFinal, OwnerRechecked,
      Authorised, ExecutedIsTrue, AppliedWasAudited
<1> QED
  BY <1>2, <1>3

LEMMA BeginDirectKeeps ==
  ASSUME EffectInv, NEW w \in Workers, NEW u \in Users, NEW op \in Ops, BeginDirect(w, u, op)
  PROVE  EffectInv'
<1>0. /\ perms' = perms /\ uncleared' = uncleared /\ CacheIsCurrent'
      /\ AuthorityTypeOK'
  BY RememberKeeps DEF BeginDirect
<1> USE <1>0, ConfirmationAssumption, NoRecordAssumption
    DEF BeginDirect, Begin, EffectInv, TypeOK, Stages, Events, handler, history, authority, log
<1>1. TypeOK'
  BY DEF Record, Statuses
<1>2. FreshIds'
  BY DEF FreshIds, SameOperation
<1>3. /\ UnclaimedHasNoEffect'
      /\ OneHolder'
      /\ WritesAreFinal'
      /\ OwnerRechecked'
      /\ ExecutedIsTrue'
      /\ AppliedWasAudited' /\ CacheIsCurrent'
  BY DEF UnclaimedHasNoEffect, OneHolder, Holds, WritesAreFinal,
      OwnerRechecked, Authorised, ExecutedIsTrue, AppliedWasAudited, CacheIsCurrent
<1> QED
  BY <1>1, <1>2, <1>3

LEMMA ExecuteDirectKeeps ==
  ASSUME EffectInv, NEW w \in Workers, ExecuteDirect(w)
  PROVE  EffectInv'
<1> USE ConfirmationAssumption, NoRecordAssumption
    DEF ExecuteDirect, Done, EffectInv, TypeOK, Stages, Events, handler, history, authority, log
<1>1. TypeOK'
  BY AuthorityStays DEF Record, Statuses
<1>2. FreshIds'
  BY DEF FreshIds, SameOperation
<1>3. /\ UnclaimedHasNoEffect'
      /\ OneHolder'
      /\ WritesAreFinal'
      /\ OwnerRechecked'
      /\ ExecutedIsTrue'
      /\ AppliedWasAudited' /\ CacheIsCurrent'
  BY AuthorityStays DEF UnclaimedHasNoEffect, OneHolder, Holds, WritesAreFinal,
      OwnerRechecked, Authorised, ExecutedIsTrue, AppliedWasAudited
<1> QED
  BY <1>1, <1>2, <1>3

(* A change of a grant clears what was remembered about it, or lists it as   *)
(* uncleared; what was remembered about another grant stays right.          *)
LEMMA InvalidateKeeps ==
  ASSUME EffectInv, NEW w \in Workers, NEW g \in Grants,
         perms' = [perms EXCEPT ![w] = IF g \in @ THEN @ \ {g} ELSE @ \cup {g}],
         Invalidate(w, g) \/ InvalidationRaises(w, g)
  PROVE  AuthorityTypeOK' /\ CacheIsCurrent'
<1> USE DEF EffectInv, TypeOK, AuthorityTypeOK
<1>1. /\ perms' \in [Workers -> SUBSET Grants]
      /\ \A v \in Workers \ {w} : perms'[v] = perms[v]
      /\ \A h \in Grants \ {g} : h \in perms'[w] <=> h \in perms[w]
  OBVIOUS
<1>2. CASE Invalidate(w, g)
  <2> DEFINE others == {h \in Grants : h[2] # g[2]}
  <2>1. /\ cache' = [cache EXCEPT ![w] = [h \in Grants |-> IF h \in others THEN @[h] ELSE "none"]]
        /\ uncleared' = [uncleared EXCEPT ![w] = @ \cap others]
        /\ others \subseteq Grants /\ g \notin others
    BY <1>2 DEF Invalidate
  <2> HIDE DEF others
  <2>2. /\ cache' \in [Workers -> [Grants -> {"none", "allowed", "denied"}]]
        /\ uncleared' \in [Workers -> SUBSET Grants]
    BY <2>1
  <2>3. ASSUME NEW v \in Workers, NEW h \in Grants \ uncleared'[v]
        PROVE  /\ cache'[v][h] = "allowed" => h \in perms'[v]
               /\ cache'[v][h] = "denied" => h \notin perms'[v]
    <3>1. CASE v # w
      BY <1>1, <2>1, <2>3, <3>1 DEF CacheIsCurrent
    <3>2. CASE v = w /\ h \in others
      BY <1>1, <2>1, <2>3, <3>2 DEF CacheIsCurrent
    <3>3. CASE v = w /\ h \notin others
      BY <2>1, <3>3
    <3> QED
      BY <3>1, <3>2, <3>3
  <2> QED
    BY <1>1, <2>2, <2>3 DEF CacheIsCurrent
<1>3. CASE InvalidationRaises(w, g)
  <2>1. /\ cache' = cache
        /\ uncleared' = [uncleared EXCEPT ![w] = IF cache[w][g] = "none" THEN @ ELSE @ \cup {g}]
    BY <1>3 DEF InvalidationRaises
  <2>2. ASSUME NEW v \in Workers, NEW h \in Grants \ uncleared'[v]
        PROVE  /\ cache'[v][h] = "allowed" => h \in perms'[v]
               /\ cache'[v][h] = "denied" => h \notin perms'[v]
    <3>1. CASE v = w /\ h = g
      BY <2>1, <2>2, <3>1
    <3>2. CASE v # w \/ h # g
      BY <1>1, <2>1, <2>2, <3>2 DEF CacheIsCurrent
    <3> QED
      BY <3>1, <3>2
  <2> QED
    BY <1>1, <2>1, <2>2 DEF CacheIsCurrent
<1> QED
  BY <1>2, <1>3

LEMMA ChangeGrantsKeeps ==
  ASSUME EffectInv, NEW w \in Workers, ChangeGrants(w)
  PROVE  EffectInv'
<1>1. AuthorityTypeOK' /\ CacheIsCurrent'
  BY InvalidateKeeps, ConfirmationAssumption DEF ChangeGrants
<1>2. \A v \in Workers \ {w} : perms'[v] = perms[v] /\ uncleared'[v] = uncleared[v]
  BY DEF ChangeGrants, Invalidate, InvalidationRaises, EffectInv, TypeOK, AuthorityTypeOK
<1>3. UNCHANGED <<store, rows, clock, stage, caller, job, seen, audit, missed,
                  claimed, applied, lost>> /\ stage[w] = "idle"
  BY DEF ChangeGrants, handler, log, history
<1> USE DEF EffectInv
<1>4. TypeOK'
  BY <1>1, <1>3 DEF TypeOK
<1>5. OwnerRechecked'
  BY <1>2, <1>3 DEF OwnerRechecked, Authorised
<1>6. /\ UnclaimedHasNoEffect'
      /\ OneHolder'
      /\ FreshIds'
      /\ WritesAreFinal'
      /\ ExecutedIsTrue'
      /\ AppliedWasAudited'
  BY <1>3 DEF UnclaimedHasNoEffect, OneHolder, Holds, FreshIds, WritesAreFinal,
      ExecutedIsTrue, AppliedWasAudited
<1> QED
  BY <1>1, <1>4, <1>5, <1>6

LEMMA AbandonKeeps ==
  ASSUME EffectInv, NEW w \in Workers, Abandon(w)
  PROVE  EffectInv'
<1> USE ConfirmationAssumption, NoRecordAssumption
    DEF Abandon, Done, EffectInv, TypeOK, Stages, Events, handler, history, authority, log
<1>1. TypeOK'
  BY AuthorityStays DEF Record, Statuses
<1>2. FreshIds'
  BY DEF FreshIds, SameOperation
<1>3. /\ UnclaimedHasNoEffect'
      /\ OneHolder'
      /\ WritesAreFinal'
      /\ OwnerRechecked'
      /\ ExecutedIsTrue'
      /\ AppliedWasAudited' /\ CacheIsCurrent'
  BY AuthorityStays DEF UnclaimedHasNoEffect, OneHolder, Holds, WritesAreFinal,
      OwnerRechecked, Authorised, ExecutedIsTrue, AppliedWasAudited
<1> QED
  BY <1>1, <1>2, <1>3

LEMMA CrashKeeps ==
  ASSUME EffectInv, NEW w \in Workers, Crash(w)
  PROVE  EffectInv'
<1>0. /\ AuthorityTypeOK' /\ CacheIsCurrent'
      /\ \A v \in Workers \ {w} : perms'[v] = perms[v] /\ uncleared'[v] = uncleared[v]
  <2>1. /\ AuthorityTypeOK'
        /\ \A v \in Workers \ {w} :
             perms'[v] = perms[v] /\ uncleared'[v] = uncleared[v] /\ cache'[v] = cache[v]
        /\ \A g \in Grants : cache'[w][g] = "none"
    BY ConfirmationAssumption DEF Crash, EffectInv, TypeOK, AuthorityTypeOK
  <2> QED
    BY <2>1 DEF EffectInv, CacheIsCurrent
<1>1. /\ Done(w) /\ UNCHANGED <<store, rows, clock, audit, missed, claimed, applied>>
      /\ lost' \subseteq Ids
  BY DEF Crash, log, EffectInv, TypeOK
<1> USE <1>1, NoRecordAssumption DEF Done, EffectInv, TypeOK, Stages, Events
<1>2. TypeOK'
  BY <1>0
<1>3. FreshIds'
  BY DEF FreshIds, SameOperation
<1>4. OwnerRechecked'
  BY <1>0 DEF OwnerRechecked, Authorised
<1>5. /\ UnclaimedHasNoEffect'
      /\ OneHolder'
      /\ WritesAreFinal'
      /\ ExecutedIsTrue'
      /\ AppliedWasAudited'
  BY DEF UnclaimedHasNoEffect, OneHolder, Holds, WritesAreFinal,
      ExecutedIsTrue, AppliedWasAudited
<1> QED
  BY <1>0, <1>2, <1>3, <1>4, <1>5

LEMMA EnvironmentKeeps == EffectInv /\ Environment => EffectInv'
<1> USE ConfirmationAssumption DEF EffectInv, TypeOK, handler, history, authority, log
<1>1. ASSUME EffectInv, Tick PROVE EffectInv'
  BY <1>1, AuthorityStays DEF Tick, UnclaimedHasNoEffect, OneHolder, Holds, FreshIds, WritesAreFinal,
              OwnerRechecked, Authorised, ExecutedIsTrue, AppliedWasAudited
<1>2. ASSUME EffectInv, OutsideWrite PROVE EffectInv'
  BY <1>2, AuthorityStays DEF OutsideWrite, UnclaimedHasNoEffect, OneHolder, Holds, FreshIds,
              WritesAreFinal, OwnerRechecked, Authorised, ExecutedIsTrue, AppliedWasAudited
<1> QED
  BY <1>1, <1>2 DEF Environment
-----------------------------------------------------------------------------
LEMMA InitInv == Init => EffectInv
  BY ConfirmationAssumption, NoRecordAssumption
     DEF Init, EffectInv, TypeOK, AuthorityTypeOK, Stages, Holds, UnclaimedHasNoEffect, OneHolder, FreshIds,
         WritesAreFinal, OwnerRechecked, CacheIsCurrent, ExecutedIsTrue, AppliedWasAudited

LEMMA NextInv == EffectInv /\ [Next]_vars => EffectInv'
<1> SUFFICES ASSUME EffectInv, [Next]_vars PROVE EffectInv'
  OBVIOUS
<1>1. ASSUME NEW w \in Workers, HandlerStep(w) PROVE EffectInv'
  BY <1>1, CreateKeeps, CancelKeeps, ExpireKeeps, RecheckKeeps, MarkFailedKeeps, ClaimKeeps,
     LoseClaimKeeps, ExecuteKeeps, ExecuteRaisesKeeps, FinishKeeps, RecordAuditKeeps,
     ExecuteDirectKeeps DEF HandlerStep
<1>2. ASSUME NEW w \in Workers, Request(w) PROVE EffectInv'
  BY <1>2, PrepareKeeps, RefuseKeeps, BeginCancelKeeps, BeginConfirmKeeps, BeginDirectKeeps,
     ChangeGrantsKeeps DEF Request
<1>3. ASSUME NEW w \in Workers, Fault(w) PROVE EffectInv'
  BY <1>3, AbandonKeeps, CrashKeeps DEF Fault
<1>4. CASE UNCHANGED vars
  BY <1>4, AuthorityStays DEF vars, handler, history, authority, log, EffectInv, TypeOK, UnclaimedHasNoEffect, OneHolder, Holds,
              FreshIds, WritesAreFinal, OwnerRechecked, Authorised, ExecutedIsTrue,
              AppliedWasAudited
<1> QED
  BY <1>1, <1>2, <1>3, <1>4, EnvironmentKeeps DEF Next

LEMMA EffectInvariance == Spec => []EffectInv
  BY InitInv, NextInv, PTL DEF Spec
-----------------------------------------------------------------------------
(* Who writes a confirmation: the handler that holds it, and over the row   *)
(* it has read, created or claimed.                                         *)
LEMMA WriterOf ==
  ASSUME EffectInv, [Next]_vars, NEW id \in Ids, store'[id] # store[id]
  PROVE  \E w \in Workers :
           /\ job[w] = id
           /\ \/ Create(w) \/ Cancel(w) \/ Expire(w) \/ MarkFailed(w) \/ Claim(w) \/ Finish(w)
           /\ store'[id] # NoRecord /\ SameOperation(store'[id], seen[w])
           /\ store'[id].status = IF stage[w] = "claim" THEN "executing" ELSE seen[w].status
<1>1. PICK w \in Workers :
        Create(w) \/ Cancel(w) \/ Expire(w) \/ MarkFailed(w) \/ Claim(w) \/ Finish(w)
  BY DEF Next, Fault, HandlerStep, Request, Environment, Recheck, LoseClaim, Execute,
     ExecuteRaises, RecordAudit, ExecuteDirect, Prepare, Refuse, BeginCancel, BeginConfirm, BeginDirect,
     ChangeGrants, Tick, OutsideWrite, Abandon, Crash, vars
<1>2. job[w] = id
  BY <1>1 DEF Create, Cancel, Expire, MarkFailed, Claim, Finish, Update, Go, EffectInv, TypeOK
<1>3. stage[w] \notin {"idle", "direct"}
  BY <1>1 DEF Create, Cancel, Expire, MarkFailed, Claim, Finish, Go
<1>4. seen[w] \in Record /\ seen[w] # NoRecord
  BY <1>3, SeenIsRecord, NoRecordAssumption
<1>5. CASE Claim(w)
  <2> DEFINE r == [seen[w] EXCEPT !.status = "executing"]
  <2>1. r \in Record /\ r.status = "executing" /\ SameOperation(r, seen[w])
    BY <1>4 DEF Record, Statuses, SameOperation
  <2>2. store'[id] = r /\ stage[w] = "claim"
    BY <1>2, <1>5 DEF Claim, EffectInv, TypeOK
  <2> QED
    BY <1>1, <1>2, <2>1, <2>2, NoRecordAssumption
<1>6. CASE ~Claim(w)
  <2>1. store'[id] = seen[w] /\ stage[w] # "claim"
    BY <1>1, <1>2, <1>6 DEF Create, Cancel, Expire, MarkFailed, Finish, Update, Go, EffectInv, TypeOK
  <2> QED
    BY <1>1, <1>2, <1>4, <2>1 DEF SameOperation
<1> QED
  BY <1>5, <1>6

(* Only the claim writes a confirmation as executing.                       *)
LEMMA StatusWritten ==
  ASSUME EffectInv, [Next]_vars, NEW id \in Ids,
         store'[id] # NoRecord, store'[id].status = "executing"
  PROVE  \/ store'[id] = store[id]
         \/ \E w \in Workers : Claim(w) /\ job[w] = id
<1> SUFFICES ASSUME store'[id] # store[id]
             PROVE  \E w \in Workers : Claim(w) /\ job[w] = id
  OBVIOUS
<1>1. PICK w \in Workers :
        /\ job[w] = id
        /\ Create(w) \/ Cancel(w) \/ Expire(w) \/ MarkFailed(w) \/ Claim(w) \/ Finish(w)
        /\ store'[id].status = IF stage[w] = "claim" THEN "executing" ELSE seen[w].status
  BY WriterOf
<1>2. ~Claim(w) => stage[w] \in {"create", "cancel", "expire", "reject", "fail", "finish"}
  BY <1>1 DEF Create, Cancel, Expire, MarkFailed, Finish, Go
<1>3. ~Claim(w) => seen[w].status # "executing"
  BY <1>2 DEF EffectInv, WritesAreFinal
<1> QED
  BY <1>1, <1>2, <1>3

(* Only its own process moves a handler.                                    *)
LEMMA OthersStay ==
  ASSUME EffectInv, [Next]_vars, NEW w \in Workers
  PROVE  \/ HandlerStep(w) \/ Request(w) \/ Fault(w)
         \/ UNCHANGED <<stage[w], caller[w], job[w]>>
<1>1. ASSUME NEW v \in Workers, v # w, HandlerStep(v) \/ Request(v) \/ Fault(v)
      PROVE  UNCHANGED <<stage[w], caller[w], job[w]>>
  BY <1>1 DEF HandlerStep, Request, Fault, Create, Cancel, Expire, Recheck, MarkFailed, Claim,
     LoseClaim, Execute, ExecuteRaises, Finish, RecordAudit, ExecuteDirect, Prepare, Refuse,
     BeginCancel, BeginConfirm, BeginDirect, ChangeGrants, Abandon, Crash, Begin, Go, Done,
     handler, EffectInv, TypeOK
<1>2. (Environment \/ UNCHANGED vars) => UNCHANGED <<stage[w], caller[w], job[w]>>
  BY DEF Environment, Tick, OutsideWrite, vars, handler
<1> QED
  BY <1>1, <1>2 DEF Next

(* The process that holds an executing confirmation keeps it until it has   *)
(* written the outcome, or leaves it to a fault.                            *)
LEMMA HolderKeeps ==
  ASSUME EffectInv, [Next]_vars, NEW id \in Ids, NEW w \in Workers, Settles(w, id),
         store'[id] # NoRecord, store'[id].status = "executing"
  PROVE  id \in lost' \/ Settles(w, id)'
<1>1. CASE UNCHANGED <<stage[w], job[w]>>
  BY <1>1 DEF Settles
<1>2. CASE ~UNCHANGED <<stage[w], job[w]>>
  <2>1. HandlerStep(w) \/ Fault(w)
    <3>1. ~Request(w)
      BY DEF Request, Prepare, Refuse, BeginCancel, BeginConfirm, BeginDirect, ChangeGrants, Begin, Settles
    <3> QED
      BY <1>2, <3>1, OthersStay
  <2>2. CASE Fault(w)
    BY <2>2 DEF Fault, Abandon, Crash, Settles
  <2>3. CASE RecordAudit(w) \/ Execute(w) \/ ExecuteRaises(w)
    BY <2>3 DEF RecordAudit, Execute, ExecuteRaises, Go, Done, Settles, Events, EffectInv, TypeOK
  <2>4. CASE MarkFailed(w) \/ Finish(w)
    <3>1. store'[id] = seen[w] /\ seen[w].status # "executing"
      BY <2>4 DEF MarkFailed, Finish, Update, Go, Settles, EffectInv, TypeOK, WritesAreFinal
    <3> QED
      BY <3>1
  <2> QED
    BY <2>1, <2>2, <2>3, <2>4 DEF HandlerStep, Settles, Create, Cancel, Expire, Recheck, Claim,
       LoseClaim, ExecuteDirect, Go
<1> QED
  BY <1>1, <1>2

(* Who settles a confirmation did so before, or claims it now.              *)
LEMMA SettlerWas ==
  ASSUME EffectInv, [Next]_vars, NEW id \in Ids, NEW w \in Workers, Settles(w, id)'
  PROVE  Settles(w, id) \/ (Claim(w) /\ job[w] = id)
<1>1. CASE UNCHANGED <<stage[w], job[w]>>
  BY <1>1 DEF Settles
<1>2. CASE ~UNCHANGED <<stage[w], job[w]>>
  <2>1. HandlerStep(w) \/ Request(w) \/ Fault(w)
    BY <1>2, OthersStay
  <2>2. ~Request(w)
    BY <1>2 DEF Request, Prepare, Refuse, BeginCancel, BeginConfirm, BeginDirect, ChangeGrants, Begin, Settles,
       handler, EffectInv, TypeOK
  <2>3. ~Fault(w)
    BY DEF Fault, Abandon, Crash, Done, Settles, EffectInv, TypeOK
  <2>4. CASE HandlerStep(w)
    BY <2>4 DEF HandlerStep, Create, Cancel, Expire, Recheck, MarkFailed, Claim, LoseClaim,
       Execute, ExecuteRaises, Finish, RecordAudit, ExecuteDirect, Go, Done, Settles, Events,
       EffectInv, TypeOK
  <2> QED
    BY <2>1, <2>2, <2>3, <2>4
<1> QED
  BY <1>1, <1>2

(* What a request begins with changes neither records nor effects.          *)
LEMMA RequestsOnlyRead ==
  ASSUME NEW w \in Workers, Request(w)
  PROVE  UNCHANGED <<store, claimed, applied, lost>>
  BY DEF Request, Prepare, Refuse, BeginCancel, BeginConfirm, BeginDirect, ChangeGrants, history

LEMMA ClaimsStay == EffectInv /\ [Next]_vars => claimed \subseteq claimed' /\ lost \subseteq lost'
<1> SUFFICES ASSUME EffectInv, [Next]_vars
             PROVE  claimed \subseteq claimed' /\ lost \subseteq lost'
  OBVIOUS
<1>1. lost \subseteq Ids
  BY DEF EffectInv, TypeOK
<1>2. ASSUME NEW w \in Workers, Crash(w)
      PROVE  claimed \subseteq claimed' /\ lost \subseteq lost'
  BY <1>1, <1>2 DEF Crash
<1> QED
  BY <1>2, RequestsOnlyRead DEF Next, HandlerStep, Fault, Environment, Create, Cancel, Expire,
     Recheck, MarkFailed, Claim, LoseClaim, Execute, ExecuteRaises, Finish, RecordAudit,
     ExecuteDirect, Abandon, Tick, OutsideWrite, vars, history

LEMMA HeldKeeps == EffectInv /\ ExecutingIsHeld /\ [Next]_vars => ExecutingIsHeld'
<1> SUFFICES ASSUME EffectInv, ExecutingIsHeld, [Next]_vars, NEW id \in Ids,
                    store'[id] # NoRecord, store'[id].status = "executing"
             PROVE  id \in lost' \/ \E w \in Workers : Settles(w, id)'
  BY DEF ExecutingIsHeld
<1>1. lost \subseteq lost'
  BY ClaimsStay
<1>2. ASSUME NEW w \in Workers, Claim(w), job[w] = id
      PROVE  Settles(w, id)'
  BY <1>2 DEF Claim, Go, Settles, EffectInv, TypeOK
<1>3. CASE store'[id] = store[id]
  BY <1>1, <1>3, HolderKeeps DEF ExecutingIsHeld
<1> QED
  BY <1>2, <1>3, StatusWritten

LEMMA SettlerKeeps == EffectInv /\ OneSettler /\ [Next]_vars => OneSettler'
<1> SUFFICES ASSUME EffectInv, OneSettler, [Next]_vars, NEW w \in Workers, NEW id \in Ids,
                    Settles(w, id)'
             PROVE  /\ id \in claimed' /\ store'[id].status # "executed"
                    /\ \A v \in Workers : Settles(v, id)' => v = w
  BY DEF OneSettler
<1>1. ASSUME NEW v \in Workers, Settles(v, id)'
      PROVE  Settles(v, id) \/ (Claim(v) /\ job[v] = id)
  BY <1>1, SettlerWas
<1>2. ASSUME NEW v \in Workers, Claim(v), job[v] = id
      PROVE  /\ \A u \in Workers : ~Settles(u, id)
             /\ id \in claimed' /\ store'[id].status # "executed"
             /\ \A u \in Workers : Claim(u) => u = v
  <2>1. id \notin claimed
    BY <1>2 DEF Claim, CanClaim, EffectInv, UnclaimedHasNoEffect
  <2>2. id \in claimed' /\ stage[v] = "claim" /\ stage'[v] # "claim"
    BY <1>2 DEF Claim, Go, EffectInv, TypeOK
  <2>3. \A u \in Workers : Claim(u) => u = v
    <3>1. ASSUME NEW u \in Workers, u # v, Claim(u) PROVE FALSE
      BY <3>1, <2>2, <1>2 DEF Claim, Go, EffectInv, TypeOK
    <3> QED
      BY <3>1
  <2>4. store'[id].status # "executed"
    <3>1. seen[v] \in Record
      BY <1>2, SeenIsRecord DEF Claim
    <3>2. [seen[v] EXCEPT !.status = "executing"].status = "executing"
      BY <3>1 DEF Record
    <3> QED
      BY <1>2, <3>2 DEF Claim, EffectInv, TypeOK
  <2> QED
    BY <2>1, <2>2, <2>3, <2>4 DEF OneSettler
<1>3. CASE \E v \in Workers : Claim(v) /\ job[v] = id
  BY <1>1, <1>2, <1>3
<1>4. CASE ~ \E v \in Workers : Claim(v) /\ job[v] = id
  <2>1. Settles(w, id) /\ \A v \in Workers : Settles(v, id)' => v = w
    BY <1>1, <1>4 DEF OneSettler
  <2>2. claimed \subseteq claimed'
    BY ClaimsStay
  <2>3. store'[id].status # "executed"
    <3>1. CASE store'[id] = store[id]
      BY <3>1, <2>1 DEF OneSettler
    <3>2. CASE store'[id] # store[id]
      <4>1. PICK v \in Workers :
              /\ job[v] = id
              /\ Create(v) \/ Cancel(v) \/ Expire(v) \/ MarkFailed(v) \/ Claim(v) \/ Finish(v)
              /\ store'[id].status = IF stage[v] = "claim" THEN "executing" ELSE seen[v].status
        BY <3>2, WriterOf
      <4>2. CASE stage[v] = "finish"
        <5>1. v = w /\ Finish(v)
          BY <2>1, <4>1, <4>2 DEF OneSettler, Settles, Create, Cancel, Expire, MarkFailed, Claim, Go
        <5>2. ~Settles(w, id)'
          BY <5>1 DEF Finish, Go, Settles, EffectInv, TypeOK
        <5> QED
          BY <5>2
      <4>3. CASE stage[v] # "finish"
        <5>1. stage[v] \in {"create", "cancel", "expire", "reject", "fail", "claim"}
          BY <4>1, <4>3 DEF Create, Cancel, Expire, MarkFailed, Claim, Finish, Go
        <5> QED
          BY <4>1, <5>1 DEF EffectInv, WritesAreFinal
      <4> QED
        BY <4>2, <4>3
    <3> QED
      BY <3>1, <3>2
  <2> QED
    BY <2>1, <2>2, <2>3 DEF OneSettler
<1> QED
  BY <1>3, <1>4

(* The inductive invariant holds in every reachable state: among others, a  *)
(* confirmation that is executing is in the hands of the process that is to *)
(* settle it, unless a fault hit it.                                        *)
THEOREM Invariance == Spec => []IInv
<1>1. Init => ExecutingIsHeld /\ OneSettler
  BY DEF Init, ExecutingIsHeld, OneSettler, Settles
<1>2. IInv <=> EffectInv /\ ExecutingIsHeld /\ OneSettler
  BY DEF IInv
<1> QED
  BY <1>1, <1>2, HeldKeeps, SettlerKeeps, EffectInvariance, PTL DEF Spec

(* What ExecutingSettles rests on, for any number of processes and faults.  *)
THEOREM ExecutingHasAHandler == Spec => []ExecutingIsHeld
<1>1. IInv => ExecutingIsHeld
  BY DEF IInv
<1> QED
  BY <1>1, Invariance, PTL

-----------------------------------------------------------------------------
(* confirmations.py executes the SQL of a confirmation at most once: no     *)
(* interleaving of confirm, cancel and expiry in several processes, and no  *)
(* crash between their steps, makes it take effect twice.                   *)
THEOREM ExecutesAtMostOnce == Spec => []AtMostOnce
<1>1. EffectInv => AtMostOnce
  BY DEF EffectInv, UnclaimedHasNoEffect, AtMostOnce
<1> QED
  BY <1>1, EffectInvariance, PTL

(* A confirmation recorded or audited as executed has taken effect, once.   *)
THEOREM RecordsAreTrue == Spec => []ExecutedIsTrue
<1>1. EffectInv => ExecutedIsTrue
  BY DEF EffectInv
<1> QED
  BY <1>1, EffectInvariance, PTL

(* Whatever took effect was handed to the audit log before as confirmed by  *)
(* its owner: the event is there, unless no sink could store it.            *)
THEOREM EffectsAreAudited == Spec => []AppliedWasAudited
<1>1. EffectInv => AppliedWasAudited
  BY DEF EffectInv
<1> QED
  BY <1>1, EffectInvariance, PTL

(* Confirm executes an operation only for its owner, and only while the     *)
(* owner holds the grant in the executing process, although the recheck is  *)
(* answered from the cache: a remembered decision outlives a revocation in  *)
(* no other way than by an invalidation that a thread's insertion cut       *)
(* short, of that very grant in that very process.                          *)
THEOREM ExecutesOnlyPermitted == Spec => PermittedWhenApplied
<1> DEFINE Permitted ==
      \A id \in Ids : applied'[id] > applied[id] =>
        \E w \in Workers :
          /\ stage[w] = "execute" /\ job[w] = id /\ caller[w] = store[id].user
          /\ Authorised(w, store[id].user, store[id].op)
<1>1. EffectInv /\ [Next]_vars => [Permitted]_vars
  <2> SUFFICES ASSUME EffectInv, Next, NEW id \in Ids, applied'[id] > applied[id]
               PROVE  \E w \in Workers :
                        /\ stage[w] = "execute" /\ job[w] = id /\ caller[w] = store[id].user
                        /\ Authorised(w, store[id].user, store[id].op)
    OBVIOUS
  <2>1. applied[id] \in Nat
    BY DEF EffectInv, TypeOK
  <2>2. applied' # applied
    BY <2>1
  <2>3. PICK w \in Workers : Execute(w) \/ ExecuteRaises(w)
    BY <2>2, RequestsOnlyRead DEF Next, Fault, HandlerStep, Environment, Create, Cancel, Expire,
       Recheck, MarkFailed, Claim, LoseClaim, Finish, RecordAudit, ExecuteDirect, Tick,
       OutsideWrite, Abandon, Crash, history
  <2>4. stage[w] = "execute" /\ job[w] = id
    BY <2>1, <2>2, <2>3 DEF Execute, ExecuteRaises, TakeEffect, Go, EffectInv, TypeOK
  <2> QED
    BY <2>4 DEF EffectInv, FreshIds, SameOperation, OwnerRechecked, Authorised
<1> QED
  BY <1>1, EffectInvariance, PTL DEF Spec, PermittedWhenApplied

(* Where no thread adds to the cache, every change clears it, and there is  *)
(* no such exception: the grant is then always in force.                    *)
THEOREM ChangesClearWithoutThreads ==
  ASSUME ~ThreadedChecks
  PROVE  Spec => [](\A w \in Workers : uncleared[w] = {})
<1> DEFINE Cleared == \A w \in Workers : uncleared[w] = {}
<1>1. Init => Cleared
  BY DEF Init
<1>2. EffectInv /\ Cleared /\ [Next]_vars => Cleared'
  <2> SUFFICES ASSUME EffectInv, Cleared, [Next]_vars PROVE Cleared'
    OBVIOUS
  <2>1. uncleared \in [Workers -> SUBSET Grants]
    BY DEF EffectInv, TypeOK, AuthorityTypeOK
  <2>2. ASSUME NEW w \in Workers, Request(w) PROVE Cleared'
    <3>1. CASE ChangeGrants(w)
      BY <2>1, <3>1 DEF ChangeGrants, Invalidate, InvalidationRaises
    <3>2. CASE ~ChangeGrants(w)
      BY <2>2, <3>2 DEF Request, Prepare, Refuse, BeginCancel, BeginConfirm, BeginDirect,
         Remember, authority
    <3> QED
      BY <3>1, <3>2
  <2>3. ASSUME NEW w \in Workers, Fault(w) PROVE Cleared'
    BY <2>1, <2>3 DEF Fault, Abandon, Crash, authority
  <2>4. ASSUME NEW w \in Workers, HandlerStep(w) PROVE Cleared'
    BY <2>4 DEF HandlerStep, Create, Cancel, Expire, Recheck, MarkFailed, Claim, LoseClaim,
       Execute, ExecuteRaises, Finish, RecordAudit, ExecuteDirect, Remember, authority
  <2>5. CASE Environment \/ UNCHANGED vars
    BY <2>5 DEF Environment, Tick, OutsideWrite, vars, authority
  <2> QED
    BY <2>2, <2>3, <2>4, <2>5 DEF Next
<1> QED
  BY <1>1, <1>2, EffectInvariance, PTL DEF Spec
-----------------------------------------------------------------------------
(* A confirmation stays the operation its owner was shown, whichever stale  *)
(* copies of it are written back, and never becomes pending again.          *)
THEOREM ConfirmationsKeepIdentity == Spec => IdentityIsKept
<1> DEFINE Kept == \A id \in Ids : store[id] # NoRecord =>
      /\ store'[id] # NoRecord /\ SameOperation(store'[id], store[id])
      /\ store[id].status # "pending" => store'[id].status # "pending"
<1>1. EffectInv /\ [Next]_vars => [Kept]_vars
  <2> SUFFICES ASSUME EffectInv, [Next]_vars, NEW id \in Ids, store[id] # NoRecord
               PROVE  /\ store'[id] # NoRecord /\ SameOperation(store'[id], store[id])
                      /\ store[id].status # "pending" => store'[id].status # "pending"
    OBVIOUS
  <2>1. CASE store'[id] = store[id]
    BY <2>1 DEF SameOperation
  <2>2. CASE store'[id] # store[id]
    <3>1. PICK w \in Workers :
            /\ job[w] = id
            /\ \/ Create(w) \/ Cancel(w) \/ Expire(w) \/ MarkFailed(w) \/ Claim(w) \/ Finish(w)
            /\ store'[id] # NoRecord /\ SameOperation(store'[id], seen[w])
            /\ store'[id].status = IF stage[w] = "claim" THEN "executing" ELSE seen[w].status
      BY <2>2, WriterOf
    <3>2. stage[w] \in {"create", "cancel", "expire", "reject", "fail", "claim", "finish"}
      BY <3>1 DEF Create, Cancel, Expire, MarkFailed, Claim, Finish, Go
    <3>3. stage[w] # "create" /\ SameOperation(store[id], seen[w])
      BY <3>1, <3>2 DEF EffectInv, FreshIds
    <3>4. store'[id].status # "pending"
      BY <3>1, <3>2, <3>3 DEF EffectInv, WritesAreFinal
    <3> QED
      BY <3>1, <3>3, <3>4 DEF SameOperation
  <2> QED
    BY <2>1, <2>2
<1> QED
  BY <1>1, EffectInvariance, PTL DEF Spec, IdentityIsKept

(* An outcome is replaced by another outcome only, and by a handler that    *)
(* had read or claimed the confirmation before it had one; "executed"  *)
(* never by the handler of a claim.                                         *)
THEOREM OutcomesReplacedByLateHandlers == Spec => OutcomesAreReplaced
<1> DEFINE Replaced == \A id \in Ids :
      store[id] # NoRecord /\ store[id].status \in Terminal /\ store'[id] # store[id] =>
        /\ store'[id].status \in Terminal
        /\ \E w \in Workers :
             /\ job[w] = id
             /\ stage[w] \in {"cancel", "expire", "reject"}
                             \cup (IF store[id].status = "executed" THEN {} ELSE {"fail", "finish"})
<1>1. IInv /\ [Next]_vars => [Replaced]_vars
  <2> SUFFICES ASSUME IInv, [Next]_vars, NEW id \in Ids,
                      store[id] # NoRecord, store[id].status \in Terminal, store'[id] # store[id]
               PROVE  /\ store'[id].status \in Terminal
                      /\ \E w \in Workers :
                           /\ job[w] = id
                           /\ stage[w] \in {"cancel", "expire", "reject"}
                                \cup (IF store[id].status = "executed" THEN {} ELSE {"fail", "finish"})
    OBVIOUS
  <2>1. EffectInv /\ OneSettler
    BY DEF IInv
  <2>2. PICK w \in Workers :
          /\ job[w] = id
          /\ \/ Create(w) \/ Cancel(w) \/ Expire(w) \/ MarkFailed(w) \/ Claim(w) \/ Finish(w)
          /\ store'[id].status = IF stage[w] = "claim" THEN "executing" ELSE seen[w].status
    BY <2>1, WriterOf
  <2>3. stage[w] \in {"create", "cancel", "expire", "reject", "fail", "claim", "finish"}
    BY <2>2 DEF Create, Cancel, Expire, MarkFailed, Claim, Finish, Go
  <2>4. stage[w] # "create"
    BY <2>1, <2>2 DEF EffectInv, FreshIds
  <2>5. stage[w] # "claim"
    BY <2>2 DEF Claim, CanClaim, Terminal, Create, Cancel, Expire, MarkFailed, Finish, Go
  <2>6. store'[id].status \in Terminal
    BY <2>1, <2>2, <2>3, <2>4, <2>5 DEF EffectInv, WritesAreFinal, Terminal
  <2>7. store[id].status = "executed" => stage[w] \notin {"fail", "finish"}
    BY <2>1, <2>2 DEF OneSettler, Settles
  <2> QED
    BY <2>2, <2>3, <2>4, <2>5, <2>6, <2>7
<1> QED
  BY <1>1, Invariance, PTL DEF Spec, OutcomesAreReplaced

(* Every step of a handler brings it nearer to its end, and nobody but its  *)
(* own process moves it.  With ExecutingHasAHandler: an executing           *)
(* confirmation has its outcome after at most four steps of its handler.    *)
THEOREM HandlersOnlyAdvance == Spec => HandlersAdvance
<1> DEFINE Advance == \A w \in Workers :
      \/ stage[w] = "idle"
      \/ UNCHANGED <<stage[w], caller[w], job[w]>> /\ ~HandlerStep(w)
      \/ StepsLeft(stage'[w]) < StepsLeft(stage[w])
<1>1. EffectInv /\ [Next]_vars => [Advance]_vars
  <2> SUFFICES ASSUME EffectInv, [Next]_vars, NEW w \in Workers, stage[w] # "idle"
               PROVE  \/ UNCHANGED <<stage[w], caller[w], job[w]>> /\ ~HandlerStep(w)
                      \/ StepsLeft(stage'[w]) < StepsLeft(stage[w])
    OBVIOUS
  <2>1. ~Request(w)
    BY DEF Request, Prepare, Refuse, BeginCancel, BeginConfirm, BeginDirect, ChangeGrants, Begin
  <2>2. ASSUME HandlerStep(w) PROVE StepsLeft(stage'[w]) < StepsLeft(stage[w])
    <3>1. CASE Recheck(w) \/ Claim(w) \/ LoseClaim(w) \/ Execute(w) \/ ExecuteRaises(w)
      BY <3>1 DEF Recheck, Claim, LoseClaim, Execute, ExecuteRaises, Go, Done, StepsLeft,
         EffectInv, TypeOK
    <3>2. CASE Create(w) \/ Cancel(w) \/ Expire(w) \/ MarkFailed(w) \/ Finish(w)
      BY <3>2 DEF Create, Cancel, Expire, MarkFailed, Finish, Go, StepsLeft, EffectInv, TypeOK
    <3>3. CASE RecordAudit(w) \/ ExecuteDirect(w)
      BY <3>3 DEF RecordAudit, ExecuteDirect, Go, Done, Events, StepsLeft, EffectInv, TypeOK
    <3> QED
      BY <2>2, <3>1, <3>2, <3>3 DEF HandlerStep
  <2>3. ASSUME Fault(w) PROVE StepsLeft(stage'[w]) < StepsLeft(stage[w])
    <3>1. stage'[w] = "idle" /\ stage[w] \in Stages
      BY <2>3 DEF Fault, Abandon, Crash, Done, EffectInv, TypeOK
    <3>2. StepsLeft(stage'[w]) = 0
      BY <3>1 DEF StepsLeft
    <3>3. StepsLeft(stage[w]) > 0
      BY <3>1 DEF Stages, Events, StepsLeft
    <3> QED
      BY <3>2, <3>3
  <2> QED
    BY <2>1, <2>2, <2>3, OthersStay
<1> QED
  BY <1>1, EffectInvariance, PTL DEF Spec, HandlersAdvance

-----------------------------------------------------------------------------
(* The confirmation flow implements the one-shot operation: creating the    *)
(* row offers it, the conditional update claims it, the executor's          *)
(* transaction applies it, and every other step leaves it alone.            *)
THEOREM Implements == Spec => ImplementsOneShot
<1> DEFINE offered == {id \in Ids : store[id] # NoRecord}
<1>1. Init => OneShot!Init
  BY DEF Init, OneShot!Init
<1>2. EffectInv /\ [Next]_vars => [OneShot!Next]_<<offered, claimed, applied>>
  <2> SUFFICES ASSUME EffectInv, [Next]_vars
               PROVE  OneShot!Next \/ UNCHANGED <<offered, claimed, applied>>
    OBVIOUS
  <2> USE NoRecordAssumption DEF EffectInv, TypeOK, history, handler
  <2>1. ASSUME NEW w \in Workers, Create(w) PROVE OneShot!Next
    <3>1. job[w] \in Ids /\ job[w] \notin offered /\ seen[w] # NoRecord
      BY <2>1 DEF Create, Go, FreshIds
    <3>2. offered' = offered \cup {job[w]} /\ UNCHANGED <<claimed, applied>>
      BY <2>1, <3>1 DEF Create
    <3> QED
      BY <3>1, <3>2 DEF OneShot!Next, OneShot!Offer
  <2>2. ASSUME NEW w \in Workers, Claim(w) PROVE OneShot!Next
    <3>1. job[w] \in offered \ claimed
      BY <2>2 DEF Claim, CanClaim, UnclaimedHasNoEffect
    <3>2. offered' = offered /\ claimed' = claimed \cup {job[w]} /\ UNCHANGED applied
      <4>1. [seen[w] EXCEPT !.status = "executing"] \in Record
        BY <2>2 DEF Claim, Record, Statuses
      <4> QED
        BY <2>2, <3>1, <4>1 DEF Claim
    <3> QED
      BY <3>1, <3>2 DEF OneShot!Next, OneShot!Claim
  <2>3. ASSUME NEW w \in Workers, Execute(w) \/ ExecuteRaises(w)
        PROVE  OneShot!Next \/ UNCHANGED <<offered, claimed, applied>>
    <3>1. job[w] \in Ids /\ job[w] \in claimed /\ applied[job[w]] = 0
      BY <2>3 DEF Execute, ExecuteRaises, Go, OneHolder, Holds
    <3>2. UNCHANGED <<offered, claimed>>
      BY <2>3 DEF Execute, ExecuteRaises
    <3>3. UNCHANGED applied \/ applied' = [applied EXCEPT ![job[w]] = 1]
      BY <2>3, <3>1 DEF Execute, ExecuteRaises, TakeEffect
    <3> QED
      BY <3>1, <3>2, <3>3 DEF OneShot!Next, OneShot!Apply
  <2>4. ASSUME NEW w \in Workers, Cancel(w) \/ Expire(w) \/ MarkFailed(w) \/ Finish(w)
        PROVE  UNCHANGED <<offered, claimed, applied>>
    BY <2>4 DEF Cancel, Expire, MarkFailed, Finish, Go, Update, FreshIds
  <2>5. ASSUME NEW w \in Workers,
               \/ Recheck(w) \/ LoseClaim(w) \/ RecordAudit(w) \/ ExecuteDirect(w)
               \/ Request(w) \/ Abandon(w) \/ Crash(w)
        PROVE  UNCHANGED <<offered, claimed, applied>>
    BY <2>5 DEF Recheck, LoseClaim, RecordAudit, ExecuteDirect, Request, Prepare, Refuse,
       BeginCancel, BeginConfirm, BeginDirect, ChangeGrants, Abandon, Crash
  <2>6. CASE Environment \/ UNCHANGED vars
    BY <2>6 DEF Environment, Tick, OutsideWrite, vars
  <2> QED
    BY <2>1, <2>2, <2>3, <2>4, <2>5, <2>6 DEF Next, Fault, HandlerStep
<1> QED
  BY <1>1, <1>2, EffectInvariance, PTL DEF Spec, ImplementsOneShot, OneShot!Spec
-----------------------------------------------------------------------------
(* What one process alone keeps to.  It runs one handler at a time, so what *)
(* a handler has read of its confirmation is still so when it writes.       *)

(* A step in which neither the handler nor the file nor the effects change, *)
(* nor the row count unless another program writes to the database.         *)
LEMMA AloneQuiet ==
  ASSUME AloneInv, UNCHANGED <<store, applied, stage, job, seen>>,
         OutsideWriters \/ UNCHANGED rows
  PROVE  AloneInv'
  BY DEF AloneInv, OnTrack, CountHolds, Estimate, UnexecutedIsTrue, PreviewHonoured

(* The handler begins, or goes on, without a write.                         *)
LEMMA AloneReads ==
  ASSUME NEW w, Workers = {w}, EffectInv, AloneInv,
         \/ \E u \in Users, op \in Ops, id \in Ids : Prepare(w, u, op, id)
         \/ \E u \in Users, id \in Ids : BeginCancel(w, u, id) \/ BeginConfirm(w, u, id)
         \/ Recheck(w) \/ RecordAudit(w)
  PROVE  AloneInv'
<1>1. w \in Workers /\ UNCHANGED <<store, applied, rows>>
  BY DEF Prepare, Refuse, BeginCancel, BeginConfirm, Recheck, RecordAudit, history
<1>2. UnexecutedIsTrue' /\ (OutsideWriters \/ PreviewHonoured')
  BY <1>1 DEF AloneInv, UnexecutedIsTrue, PreviewHonoured
<1>3. OnTrack(w)' /\ (OutsideWriters \/ CountHolds(w)')
  <2> USE DEF EffectInv, TypeOK
  <2>1. ASSUME NEW u \in Users, NEW op \in Ops, NEW id \in Ids, Prepare(w, u, op, id)
        PROVE  OnTrack(w)' /\ CountHolds(w)'
    BY <1>1, <2>1 DEF Prepare, Begin, OnTrack, CountHolds
  <2>2. ASSUME NEW u \in Users, NEW id \in Ids, BeginCancel(w, u, id) \/ BeginConfirm(w, u, id)
        PROVE  OnTrack(w)' /\ CountHolds(w)'
    BY <1>1, <2>2 DEF BeginCancel, BeginConfirm, Begin, ReadPending, OnTrack, CountHolds
  <2>3. CASE Recheck(w)
    <3>1. /\ stage[w] = "recheck" /\ stage'[w] \in {"claim", "reject"} /\ job' = job
          /\ stage'[w] = "claim" => seen' = seen /\ Estimate(seen[w].op) = seen[w].estimate
      BY <1>1, <2>3 DEF Recheck, Go, RecheckPasses
    <3> QED
      BY <3>1, <1>1 DEF AloneInv, OnTrack, CountHolds, Estimate
  <2>4. CASE RecordAudit(w)
    <3>1. \/ /\ stage[w] = "confirmation_confirmed" /\ stage'[w] = "execute"
             /\ UNCHANGED job /\ seen'[w] = seen[w]
          \/ stage'[w] = "idle"
      BY <1>1, <2>4 DEF RecordAudit, Go, Done
    <3> QED
      BY <3>1, <1>1 DEF AloneInv, OnTrack, CountHolds, Estimate
  <2> QED
    BY <2>1, <2>2, <2>3, <2>4
<1> QED
  BY <1>2, <1>3 DEF AloneInv

(* The handler writes its confirmation.                                     *)
LEMMA AloneWrites ==
  ASSUME NEW w, Workers = {w}, EffectInv, AloneInv,
         Create(w) \/ Cancel(w) \/ Expire(w) \/ MarkFailed(w) \/ Claim(w) \/ Finish(w)
  PROVE  AloneInv'
<1> DEFINE r == store'[job[w]]
<1>1. /\ w \in Workers /\ UNCHANGED <<job, applied, rows>> /\ job[w] \in Ids
      /\ seen[w] \in Record /\ seen'[w] = r /\ store' = [store EXCEPT ![job[w]] = r]
      /\ r.estimate = seen[w].estimate /\ r.op = seen[w].op /\ r.result = seen[w].result
      /\ \/ stage[w] \in {"create", "cancel", "expire", "reject", "fail", "finish"}
            /\ stage'[w] \in Events \ {"confirmation_confirmed"} /\ r.status = seen[w].status
         \/ stage[w] = "claim" /\ stage'[w] = "confirmation_confirmed" /\ r.status = "executing"
  BY SeenIsRecord DEF Create, Cancel, Expire, MarkFailed, Claim, Finish, Go, Update, EffectInv, TypeOK,
     Events, Record, history
<1>2. \A id \in Ids \ {job[w]} : store'[id] = store[id]
  BY <1>1 DEF EffectInv, TypeOK
<1>3. OnTrack(w)' /\ (OutsideWriters \/ CountHolds(w)')
  BY <1>1 DEF AloneInv, OnTrack, CountHolds, Estimate, Events
<1>4. r.status \in {"pending", "cancelled", "expired"}
                  \cup (IF Dialect = "sqlite" THEN {"failed"} ELSE {})
        => applied[job[w]] = 0
  <2>1. CASE stage[w] = "create"
    BY <2>1, <1>1 DEF EffectInv, FreshIds, UnclaimedHasNoEffect
  <2>2. CASE stage[w] \in {"cancel", "expire", "reject"}
    <3>1. store[job[w]].status = "pending" /\ store[job[w]] # NoRecord
      BY <2>2, <1>1 DEF AloneInv, OnTrack, EffectInv, FreshIds
    <3> QED
      BY <3>1, <1>1 DEF EffectInv, UnclaimedHasNoEffect
  <2>3. CASE stage[w] = "fail"
    BY <2>3, <1>1 DEF AloneInv, OnTrack, EffectInv, WritesAreFinal
  <2>4. CASE stage[w] \in {"claim", "finish"}
    BY <2>4, <1>1 DEF EffectInv, WritesAreFinal
  <2> QED
    BY <1>1, <2>1, <2>2, <2>3, <2>4
<1>5. UnexecutedIsTrue'
  BY <1>1, <1>2, <1>4 DEF AloneInv, UnexecutedIsTrue
<1>6. OutsideWriters \/ PreviewHonoured'
  <2>1. r.status = "executed" => stage[w] = "finish"
    BY <1>1 DEF EffectInv, WritesAreFinal
  <2>2. OutsideWriters \/ (r.status = "executed" => r.result = r.estimate)
    BY <2>1, <1>1 DEF AloneInv, CountHolds
  <2> QED
    BY <2>2, <1>1, <1>2 DEF AloneInv, PreviewHonoured
<1> QED
  BY <1>3, <1>5, <1>6 DEF AloneInv

(* The operation takes effect, or is rolled back.                           *)
LEMMA AloneExecutes ==
  ASSUME NEW w, Workers = {w}, EffectInv, AloneInv, Execute(w) \/ ExecuteRaises(w)
  PROVE  AloneInv'
<1>1. /\ w \in Workers /\ stage[w] = "execute" /\ job[w] \in Ids /\ UNCHANGED <<store, job>>
      /\ stage'[w] \in {"finish", "fail"}
      /\ \A id \in Ids \ {job[w]} : applied'[id] = applied[id]
  BY SeenIsRecord DEF Execute, ExecuteRaises, Go, TakeEffect, EffectInv, TypeOK, history
<1>2. store[job[w]].status = "executing" /\ applied[job[w]] = 0
  BY <1>1 DEF AloneInv, OnTrack, EffectInv, OneHolder, Holds
<1>3. OnTrack(w)'
  BY <1>1, <1>2 DEF OnTrack, Execute, ExecuteRaises, Go, EffectInv, TypeOK
<1>4. OutsideWriters \/ CountHolds(w)'
  <2>1. stage'[w] = "finish" =>
          seen'[w] = [seen[w] EXCEPT !.status = "executed", !.result = Estimate(seen[w].op)]
    BY <1>1 DEF Execute, ExecuteRaises, Go, EffectInv, TypeOK
  <2>2. seen[w] \in Record
    BY <1>1, SeenIsRecord
  <2>3. stage'[w] = "finish" =>
          seen'[w].result = Estimate(seen[w].op) /\ seen'[w].estimate = seen[w].estimate
    BY <2>1, <2>2 DEF Record
  <2> QED
    BY <2>3, <1>1 DEF AloneInv, CountHolds
<1>5. UnexecutedIsTrue'
  BY <1>1, <1>2 DEF AloneInv, UnexecutedIsTrue
<1>6. OutsideWriters \/ PreviewHonoured'
  BY <1>1 DEF AloneInv, PreviewHonoured
<1> QED
  BY <1>3, <1>4, <1>5, <1>6 DEF AloneInv

(* The handler returns, or serves something else.                           *)
LEMMA AloneLeaves ==
  ASSUME NEW w, Workers = {w}, EffectInv, AloneInv,
         \/ LoseClaim(w) \/ ExecuteDirect(w) \/ Abandon(w) \/ Crash(w)
         \/ \E u \in Users, op \in Ops : BeginDirect(w, u, op)
  PROVE  AloneInv'
<1>1. w \in Workers /\ UNCHANGED <<store, applied>> /\ stage'[w] \in {"idle", "direct"}
  BY DEF LoseClaim, ExecuteDirect, Abandon, Crash, BeginDirect, Begin, Done, EffectInv, TypeOK, history
<1> QED
  BY <1>1 DEF AloneInv, OnTrack, CountHolds, UnexecutedIsTrue, PreviewHonoured

LEMMA AloneNext ==
  ASSUME NEW w, Workers = {w}, EffectInv, AloneInv, [Next]_vars
  PROVE  AloneInv'
<1>1. CASE HandlerStep(w)
  BY <1>1, AloneReads, AloneWrites, AloneExecutes, AloneLeaves DEF HandlerStep
<1>2. CASE Request(w)
  <2>1. CASE ChangeGrants(w)
    BY <2>1, AloneQuiet DEF ChangeGrants, handler, history
  <2>2. ASSUME NEW u \in Users, NEW op \in Ops, Refuse(w, u, op) PROVE AloneInv'
    BY <2>2, AloneQuiet DEF Refuse, handler, history
  <2> QED
    BY <1>2, <2>1, <2>2, AloneReads, AloneLeaves DEF Request
<1>3. CASE Fault(w)
  BY <1>3, AloneLeaves DEF Fault
<1>4. CASE Environment \/ UNCHANGED vars
  BY <1>4, AloneQuiet DEF Environment, Tick, OutsideWrite, vars, handler, history, authority, log
<1> QED
  BY <1>1, <1>2, <1>3, <1>4 DEF Next

LEMMA AloneInit == Init => AloneInv
  BY DEF Init, AloneInv, OnTrack, CountHolds, UnexecutedIsTrue, PreviewHonoured

LEMMA AloneInvariance ==
  ASSUME NEW w, Workers = {w}
  PROVE  Spec => []AloneInv
<1>1. EffectInv /\ AloneInv /\ [Next]_vars => AloneInv'
  BY AloneNext
<1> QED
  BY <1>1, AloneInit, EffectInvariance, PTL DEF Spec

(* One process: what reads pending, cancelled, expired or (on SQLite)       *)
(* failed has had no effect.                                                *)
THEOREM UnexecutedHasNoEffect ==
  ASSUME NEW w, Workers = {w}
  PROVE  Spec => []UnexecutedIsTrue
<1>1. AloneInv => UnexecutedIsTrue
  BY DEF AloneInv
<1> QED
  BY <1>1, AloneInvariance, PTL

(* One process that alone writes to the target database: an operation that  *)
(* executes touches the rows its owner was shown.                           *)
THEOREM PreviewsAreHonoured ==
  ASSUME NEW w, Workers = {w}, ~OutsideWriters
  PROVE  Spec => []PreviewHonoured
<1>1. AloneInv => PreviewHonoured
  BY DEF AloneInv
<1> QED
  BY <1>1, AloneInvariance, PTL

(* One process: an outcome is never overwritten.                            *)
THEOREM OutcomesAreFinal ==
  ASSUME NEW w, Workers = {w}
  PROVE  Spec => TerminalIsFinal
<1> DEFINE Final == \A id \in Ids :
      store[id] # NoRecord /\ store[id].status \in Terminal => store'[id] = store[id]
<1>1. EffectInv /\ AloneInv /\ [Next]_vars => [Final]_vars
  <2> SUFFICES ASSUME EffectInv, AloneInv, Next, NEW id \in Ids,
                      store[id] # NoRecord, store[id].status \in Terminal, store'[id] # store[id]
               PROVE  FALSE
    OBVIOUS
  <2>1. \/ Create(w) \/ Cancel(w) \/ Expire(w) \/ MarkFailed(w) \/ Claim(w) \/ Finish(w)
    BY DEF Next, Fault, HandlerStep, Request, Environment, Recheck, LoseClaim, Execute,
       ExecuteRaises, RecordAudit, ExecuteDirect, Prepare, Refuse, BeginCancel, BeginConfirm, BeginDirect,
       ChangeGrants, Tick, OutsideWrite, Abandon, Crash
  <2>2. job[w] = id
    BY <2>1 DEF Create, Cancel, Expire, MarkFailed, Claim, Finish, Update, Go, EffectInv, TypeOK
  <2>3. store[id] = NoRecord \/ store[id].status \in {"pending", "executing"}
    BY <2>1, <2>2 DEF Create, Cancel, Expire, MarkFailed, Claim, Finish, Go, EffectInv, FreshIds,
       AloneInv, OnTrack
  <2> QED
    BY <2>3 DEF Terminal
<1> QED
  BY <1>1, EffectInvariance, AloneInvariance, PTL DEF Spec, TerminalIsFinal
=============================================================================
