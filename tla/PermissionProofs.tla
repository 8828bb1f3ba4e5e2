-------------------------- MODULE PermissionProofs --------------------------
(***************************************************************************)
(* Proofs about PermissionCache and PermissionRequests, for any number of  *)
(* threads, administrators, users, departments, resources and requests.    *)
(* The cache is proved on its own first; PermissionRequests implements it  *)
(* (every administrator's step is a step of the cache or leaves it alone), *)
(* and so inherits its invariant.                                          *)
(***************************************************************************)
EXTENDS PermissionRequests, TLAPS

LEMMA DecideIsDecision ==
  ASSUME NEW gs, NEW k PROVE Decide(gs, k) \in Decisions /\ Decide(gs, k) # "none"
BY DEF Decide, Decisions

(* A decision depends on the grants of its resource only.                  *)
LEMMA OtherResource ==
  ASSUME NEW gs, NEW hs, NEW r, NEW k,
         \A g : g.resource # r => (g \in gs <=> g \in hs),
         k.resource # r
  PROVE  Decide(gs, k) = Decide(hs, k)
<1>1. \A e : Matching(gs, k, e) = Matching(hs, k, e)
  BY DEF Matching
<1> QED BY <1>1 DEF Decide

(* A field of a pending check, once it is known to be one.                 *)
LEMMA CheckIsRecord ==
  ASSUME CacheTypeOK, NEW t \in Threads, check[t] # NoCheck
  PROVE  /\ check[t] \in Checks /\ check[t].key \in Keys
         /\ check[t].decision \in Decisions \cup {"none"}
         /\ check[t].overtaken \in BOOLEAN
BY DEF CacheTypeOK, Checks

-----------------------------------------------------------------------------
(* The steps of the cache, one lemma each.                                  *)
LEMMA ChangeStep ==
  ASSUME CacheInv, NEW gs \in SUBSET (Offers \cup SeedGrants), NEW r \in Resources,
         BeginChange(gs, r),
         \A g : g.resource # r => (g \in gs <=> g \in grants)
  PROVE  CacheInv'
<1> USE NoCheckAssumption
<1>0. PICK raising \in SUBSET {t \in Threads : check[t] # NoCheck /\ check[t].decision = "none"} :
        check' = [t \in Threads |->
                   IF t \in raising THEN NoCheck
                   ELSE IF check[t] # NoCheck /\ check[t].decision # "none" /\ check[t].key.resource = r
                     THEN [check[t] EXCEPT !.overtaken = TRUE]
                     ELSE check[t]]
  BY DEF BeginChange
<1>a. ASSUME NEW k \in Keys, k.resource # r
       PROVE  Decide(grants', k) = Decide(grants, k)
  BY <1>a, OtherResource DEF BeginChange
<1>1. CacheTypeOK'
  <2>1. ASSUME NEW t \in Threads PROVE check'[t] \in Checks \cup {NoCheck}
    BY <1>0, CheckIsRecord DEF CacheInv, CacheTypeOK, Checks
  <2>2. check' \in [Threads -> Checks \cup {NoCheck}]
    BY <1>0, <2>1
  <2> QED BY <2>2 DEF CacheInv, CacheTypeOK, BeginChange
<1>2. StaleIsExplained'
  <2> SUFFICES ASSUME NEW k \in Keys, k.resource # r
               PROVE  cache'[k] \in {"none", Decide(grants', k)} \/ k \in raced'
    BY DEF StaleIsExplained, BeginChange
  <2> QED BY <1>a DEF CacheInv, StaleIsExplained, BeginChange
<1>3. ChecksAreTrue'
  <2> SUFFICES ASSUME NEW t \in Threads, check'[t] # NoCheck, check'[t].decision # "none",
                      ~check'[t].overtaken
               PROVE  check'[t].decision = Decide(grants', check'[t].key)
    BY DEF ChecksAreTrue
  <2>1. check'[t] = check[t] /\ check[t].key.resource # r
    BY <1>0, CheckIsRecord DEF CacheInv, Checks
  <2>2. Decide(grants', check[t].key) = Decide(grants, check[t].key)
    BY <1>a, <2>1, CheckIsRecord DEF CacheInv
  <2> QED BY <2>1, <2>2 DEF CacheInv, ChecksAreTrue
<1>4. OnlyThreadsRace'
  BY DEF CacheInv, OnlyThreadsRace, BeginChange
<1> QED BY <1>1, <1>2, <1>3, <1>4 DEF CacheInv

LEMMA GrantStep ==
  ASSUME CacheInv, NEW g \in Offers, GrantAccess(g) PROVE CacheInv'
<1>1. g.resource \in Resources /\ grants \cup {g} \in SUBSET (Offers \cup SeedGrants)
  BY OffersAssumption DEF CacheInv, CacheTypeOK
<1> QED BY <1>1, ChangeStep DEF GrantAccess

LEMMA RevokeStep ==
  ASSUME CacheInv, NEW g \in grants, RevokeGrant(g) PROVE CacheInv'
<1>1. g.resource \in Resources /\ grants \ {g} \in SUBSET (Offers \cup SeedGrants)
  BY OffersAssumption DEF CacheInv, CacheTypeOK
<1> QED BY <1>1, ChangeStep DEF RevokeGrant

LEMMA ListStep ==
  ASSUME CacheInv, ListKeys PROVE CacheInv'
<1>1. CacheTypeOK'
  BY DEF CacheInv, CacheTypeOK, ListKeys, CachedFor
<1>2. StaleIsExplained'
  BY DEF CacheInv, StaleIsExplained, ListKeys, CachedFor
<1>3. ChecksAreTrue' /\ OnlyThreadsRace'
  BY DEF CacheInv, ChecksAreTrue, OnlyThreadsRace, ListKeys
<1> QED BY <1>1, <1>2, <1>3 DEF CacheInv

LEMMA RaiseStep ==
  ASSUME CacheInv, ListRaises PROVE CacheInv'
<1>1. CacheTypeOK'
  BY DEF CacheInv, CacheTypeOK, ListRaises, CachedFor
<1>2. StaleIsExplained'
  BY DEF CacheInv, CacheTypeOK, StaleIsExplained, ListRaises, CachedFor
<1>3. ChecksAreTrue' /\ OnlyThreadsRace'
  BY DEF CacheInv, ChecksAreTrue, OnlyThreadsRace, ListRaises
<1> QED BY <1>1, <1>2, <1>3 DEF CacheInv

LEMMA DeleteStep ==
  ASSUME CacheInv, DeleteKeys PROVE CacheInv'
<1>1. CacheTypeOK'
  BY DEF CacheInv, CacheTypeOK, DeleteKeys
<1>2. StaleIsExplained'
  BY DEF CacheInv, CacheTypeOK, StaleIsExplained, DeleteKeys
<1>3. ChecksAreTrue' /\ OnlyThreadsRace'
  BY DEF CacheInv, ChecksAreTrue, OnlyThreadsRace, DeleteKeys
<1> QED BY <1>1, <1>2, <1>3 DEF CacheInv

LEMMA LoopStep ==
  ASSUME CacheInv, NEW k \in Keys, CheckInLoop(k) PROVE CacheInv'
<1>1. CacheTypeOK'
  BY DecideIsDecision DEF CacheInv, CacheTypeOK, CheckInLoop
<1>2. StaleIsExplained'
  BY DEF CacheInv, CacheTypeOK, StaleIsExplained, CheckInLoop
<1>3. ChecksAreTrue' /\ OnlyThreadsRace'
  BY DEF CacheInv, ChecksAreTrue, OnlyThreadsRace, CheckInLoop
<1> QED BY <1>1, <1>2, <1>3 DEF CacheInv

LEMMA LookUpStep ==
  ASSUME CacheInv, NEW t \in Threads, NEW k \in Keys, LookUp(t, k) PROVE CacheInv'
<1>1. CacheTypeOK'
  BY DEF CacheInv, CacheTypeOK, LookUp, Checks
<1>2. ChecksAreTrue'
  BY DEF CacheInv, CacheTypeOK, ChecksAreTrue, LookUp
<1>3. StaleIsExplained' /\ OnlyThreadsRace'
  BY DEF CacheInv, StaleIsExplained, OnlyThreadsRace, LookUp
<1> QED BY <1>1, <1>2, <1>3 DEF CacheInv

LEMMA EvaluateStep ==
  ASSUME CacheInv, NEW t \in Threads, Evaluate(t) PROVE CacheInv'
<1> DEFINE d == Decide(grants, check[t].key)
<1>0. /\ check[t] \in Checks /\ d \in Decisions
      /\ check' = [check EXCEPT ![t] = [check[t] EXCEPT !.decision = d]]
  BY CheckIsRecord, DecideIsDecision DEF CacheInv, Evaluate
<1> HIDE DEF d
<1>1. CacheTypeOK'
  BY <1>0 DEF CacheInv, CacheTypeOK, Evaluate, Checks
<1>2. ChecksAreTrue'
  <2> SUFFICES ASSUME NEW v \in Threads, check'[v] # NoCheck, check'[v].decision # "none",
                      ~check'[v].overtaken
               PROVE  check'[v].decision = Decide(grants, check'[v].key)
    BY DEF ChecksAreTrue, Evaluate
  <2>1. CASE v = t
    <3>1. check'[t].decision = d /\ check'[t].key = check[t].key
      BY <1>0 DEF CacheInv, CacheTypeOK, Checks
    <3> QED BY <2>1, <3>1 DEF d
  <2>2. CASE v # t
    BY <1>0, <2>2 DEF CacheInv, CacheTypeOK, ChecksAreTrue
  <2> QED BY <2>1, <2>2
<1>3. StaleIsExplained' /\ OnlyThreadsRace'
  BY DEF CacheInv, StaleIsExplained, OnlyThreadsRace, Evaluate
<1> QED BY <1>1, <1>2, <1>3 DEF CacheInv

LEMMA StoreStep ==
  ASSUME CacheInv, NEW t \in Threads, Store(t) PROVE CacheInv'
<1>0. /\ check[t] \in Checks /\ check[t].key \in Keys /\ check[t].decision \in Decisions
      /\ ~check[t].overtaken => check[t].decision = Decide(grants, check[t].key)
  BY CheckIsRecord DEF CacheInv, ChecksAreTrue, Store
<1>1. CacheTypeOK'
  BY <1>0 DEF CacheInv, CacheTypeOK, Store
<1>2. StaleIsExplained'
  BY <1>0 DEF CacheInv, CacheTypeOK, StaleIsExplained, Store
<1>3. ChecksAreTrue'
  BY DEF CacheInv, CacheTypeOK, ChecksAreTrue, Store
<1>4. OnlyThreadsRace'
  BY DEF OnlyThreadsRace
<1> QED BY <1>1, <1>2, <1>3, <1>4 DEF CacheInv

LEMMA CacheStep ==
  ASSUME CacheInv, [CacheNext]_cacheVars PROVE CacheInv'
<1>1. CASE UNCHANGED cacheVars
  BY <1>1 DEF CacheInv, CacheTypeOK, StaleIsExplained, ChecksAreTrue, OnlyThreadsRace, cacheVars
<1>2. CASE CacheNext
  BY <1>2, GrantStep, RevokeStep, ListStep, RaiseStep, DeleteStep, LoopStep, LookUpStep,
     EvaluateStep, StoreStep DEF CacheNext, CheckStep
<1> QED BY <1>1, <1>2

LEMMA CacheStart == CacheInit => CacheInv
BY NoCheckAssumption DEF CacheInit, CacheInv, CacheTypeOK, StaleIsExplained, ChecksAreTrue, OnlyThreadsRace

(* A stale decision is about to be deleted, or a check in a thread and a    *)
(* change of the same resource overlapped on it.                            *)
THEOREM CacheInvariance == CacheSpec => []CacheInv
<1>1. CacheInv /\ [CacheNext]_cacheVars => CacheInv'
  BY CacheStep
<1> QED BY <1>1, CacheStart, PTL DEF CacheSpec

(* Without checks in worker threads the cache always agrees with the grants *)
(* between two changes.                                                     *)
THEOREM CoherentWithoutThreads ==
  ASSUME Threads = {} PROVE CacheSpec => []Coherent
<1>1. CacheInv => Coherent
  BY DEF CacheInv, StaleIsExplained, OnlyThreadsRace, Coherent
<1> QED BY <1>1, CacheInvariance, PTL

LEMMA OrderedStep ==
  ASSUME CacheInv, NothingOvertaken, [CacheNext /\ Ordered]_cacheVars PROVE NothingOvertaken'
<1> USE NoCheckAssumption
<1>1. CASE UNCHANGED cacheVars
  BY <1>1 DEF NothingOvertaken, cacheVars
<1>2. ASSUME ~Overtakes, NEW gs, NEW r, BeginChange(gs, r) PROVE NothingOvertaken'
  <2>1. raced' = raced
    BY <1>2 DEF BeginChange
  <2>2. \A t \in Threads : check'[t] # NoCheck => check[t] # NoCheck
    BY <1>2 DEF BeginChange
  <2> QED BY <1>2, <2>1, <2>2 DEF NothingOvertaken, Overtakes
<1>3. CASE ListKeys \/ DeleteKeys \/ \E k \in Keys : CheckInLoop(k)
  BY <1>3 DEF NothingOvertaken, ListKeys, DeleteKeys, CheckInLoop
<1>4. ASSUME NEW t \in Threads, NEW k \in Keys, LookUp(t, k) PROVE NothingOvertaken'
  BY <1>4 DEF NothingOvertaken, CacheInv, CacheTypeOK, LookUp
<1>5. ASSUME NEW t \in Threads, Evaluate(t) PROVE NothingOvertaken'
  <2>1. /\ check[t] \in Checks /\ ~check[t].overtaken
        /\ check' = [check EXCEPT ![t] = [check[t] EXCEPT !.decision = Decide(grants, check[t].key)]]
    BY <1>5, CheckIsRecord DEF NothingOvertaken, CacheInv, Evaluate
  <2>2. ~[check[t] EXCEPT !.decision = Decide(grants, check[t].key)].overtaken
    BY <2>1 DEF Checks
  <2> QED BY <1>5, <2>1, <2>2 DEF NothingOvertaken, CacheInv, CacheTypeOK, Evaluate
<1>6. ASSUME NEW t \in Threads, Store(t) PROVE NothingOvertaken'
  BY <1>6 DEF NothingOvertaken, CacheInv, CacheTypeOK, Store
<1>7. ASSUME ~Overtakes, \E g \in Offers : GrantAccess(g) PROVE NothingOvertaken'
  BY <1>2, <1>7 DEF GrantAccess
<1>8. ASSUME ~Overtakes, \E g \in grants : RevokeGrant(g) PROVE NothingOvertaken'
  BY <1>2, <1>8 DEF RevokeGrant
<1> QED
  BY <1>1, <1>3, <1>4, <1>5, <1>6, <1>7, <1>8 DEF CacheNext, CheckStep, Ordered

(* The cache agrees with the grants between two changes, with any number of *)
(* threads, as long as no change overtakes a check and no listing raises:   *)
(* these two races, and nothing else, make revoked grants allow something.  *)
THEOREM OnlyRacesMislead == OrderedCacheSpec => []Coherent
<1>1. CacheInit => CacheInv /\ NothingOvertaken
  BY CacheStart DEF CacheInit, NothingOvertaken
<1>2. CacheInv /\ NothingOvertaken /\ [CacheNext /\ Ordered]_cacheVars
        => (CacheInv /\ NothingOvertaken)'
  BY CacheStep, OrderedStep
<1>3. CacheInv /\ NothingOvertaken => Coherent
  BY DEF CacheInv, StaleIsExplained, NothingOvertaken, Coherent
<1> QED BY <1>1, <1>2, <1>3, PTL DEF OrderedCacheSpec
-----------------------------------------------------------------------------
(* Every step of an administrator, a requester or an upload is a step of    *)
(* the cache, or leaves it alone.                                           *)
LEMMA StepIsCacheStep == ASSUME [Next]_vars PROVE [CacheNext]_cacheVars
<1>1. CASE UNCHANGED vars
  BY <1>1 DEF vars
<1>2. ASSUME NEW s \in Sessions, Handlers(s) PROVE [CacheNext]_cacheVars
  <2>1. ASSUME NEW g \in Offers, AdminGrants(s, g) PROVE CacheNext
    BY <2>1 DEF AdminGrants, CacheNext
  <2>2. ASSUME NEW g \in grants, AdminRevokes(s, g) PROVE CacheNext
    BY <2>2 DEF AdminRevokes, CacheNext
  <2>3. ASSUME NEW id \in RequestIds, Approve(s, id) PROVE CacheNext
    BY <2>3 DEF Approve, CanSubmit, CacheNext
  <2>4. CASE \/ \E u \in Users : Authenticate(s, u)
             \/ ResolveScope(s)
             \/ Refuse(s)
             \/ \E u \in Users : \E p \in Profiles[u] : UpdateUser(s, u, p)
             \/ \E d \in Departments, rs \in SUBSET Resources : UpdateResourceScope(s, d, rs)
             \/ \E id \in RequestIds : Reject(s, id)
    BY <2>4 DEF Authenticate, ResolveScope, Refuse, UpdateUser, UpdateResourceScope, Reject
  <2> QED BY <1>2, <2>1, <2>2, <2>3, <2>4 DEF Handlers
<1>3. ASSUME NEW u \in Users, NEW r \in Resources, UploadGrants(u, r) PROVE CacheNext
  BY <1>3 DEF UploadGrants, CacheNext
<1>4. ASSUME NEW id \in RequestIds, NEW u \in Users, NEW r \in Resources, CreateRequest(id, u, r)
      PROVE  [CacheNext]_cacheVars
  BY <1>4 DEF CreateRequest, CacheNext
<1>5. CASE ListKeys \/ FinishChange \/ ChangeRaises \/ CheckStep \/ \E k \in Keys : CheckInLoop(k)
  BY <1>5 DEF FinishChange, ChangeRaises, CacheNext
<1> QED BY <1>1, <1>2, <1>3, <1>4, <1>5 DEF Next

(* The administration implements the cache: what is proved of the cache     *)
(* holds of the whole.                                                      *)
THEOREM ImplementsCache == Spec => CacheSpec
<1>1. Init => CacheInit
  BY DEF Init
<1> QED BY <1>1, StepIsCacheStep, PTL DEF Spec, CacheSpec

(* In the whole, too, a cached decision can be stale only where a check in  *)
(* a thread and a change overlapped.                                        *)
THEOREM StaleDecisionsExplained == Spec => []StaleIsExplained
<1>1. CacheInv => StaleIsExplained
  BY DEF CacheInv
<1> QED BY <1>1, CacheInvariance, ImplementsCache, PTL

(* And with administrators, requests and uploads at work the same races are *)
(* all that stands between the cache and the grants.                        *)
THEOREM AdministrationStaysCoherent == OrderedSpec => []Coherent
<1>1. Init => CacheInit
  BY DEF Init
<1>2. [Next /\ Ordered]_vars => [CacheNext /\ Ordered]_cacheVars
  BY StepIsCacheStep DEF vars
<1> QED BY <1>1, <1>2, OnlyRacesMislead, PTL DEF OrderedSpec, OrderedCacheSpec
-----------------------------------------------------------------------------
LEMMA RequestIsRecord ==
  ASSUME AdminTypeOK, NEW id \in RequestIds, requests[id] # None
  PROVE  requests[id] \in Requests
BY DEF AdminTypeOK

LEMMA StatusIsTyped ==
  ASSUME AdminTypeOK, NEW id \in RequestIds, requests[id] # None,
         NEW status \in Statuses, SetStatus(id, status)
  PROVE  /\ requests' \in [RequestIds -> Requests \cup {None}]
         /\ requests'[id] = [requests[id] EXCEPT !.status = status]
         /\ \A i \in RequestIds \ {id} : requests'[i] = requests[i]
<1>1. requests[id] \in Requests
  BY RequestIsRecord
<1>2. [requests[id] EXCEPT !.status = status] \in Requests
  BY <1>1 DEF Requests
<1>3. requests' = [requests EXCEPT ![id] = [requests[id] EXCEPT !.status = status]]
  BY DEF SetStatus
<1> QED BY <1>2, <1>3 DEF AdminTypeOK

LEMMA ScopeIsTyped ==
  ASSUME AdminTypeOK, NEW p \in Profile PROVE Resolve(p) \in Scopes \cup {None}
BY DEF Resolve, Scopes, DepartmentScopes, Profile, AdminTypeOK

LEMMA SessionsTyped ==
  ASSUME AdminTypeOK, NEW s \in Sessions, Handlers(s)
  PROVE  session' \in [Sessions -> Session \cup {None}]
<1>1. ASSUME NEW u \in Users, Authenticate(s, u) PROVE session' \in [Sessions -> Session \cup {None}]
  BY <1>1 DEF Authenticate, AdminTypeOK, Session
<1>2. CASE ResolveScope(s)
  <2>1. session[s] \in Session /\ session[s].profile \in Profile
    BY <1>2 DEF ResolveScope, AdminTypeOK, Session
  <2>2. [session[s] EXCEPT !.scope = Resolve(session[s].profile)] \in Session
    BY <2>1, ScopeIsTyped DEF Session
  <2>3. \/ session' = [session EXCEPT ![s] = None]
        \/ session' = [session EXCEPT ![s] = [session[s] EXCEPT !.scope = Resolve(session[s].profile)]]
    BY <1>2 DEF ResolveScope
  <2> QED BY <2>2, <2>3 DEF AdminTypeOK
<1>3. CASE Handle(s)
  BY <1>3 DEF Handle, AdminTypeOK
<1> QED BY <1>1, <1>2, <1>3 DEF Handlers, Refuse, AdminGrants, AdminRevokes, UpdateUser,
                                UpdateResourceScope, Approve, Reject

LEMMA TypeStep ==
  ASSUME AdminInv, [Next]_vars PROVE AdminTypeOK'
<1> USE RequestsAssumption DEF AdminInv, TypeOK
<1>1. CASE UNCHANGED adminVars
  BY <1>1 DEF adminVars, AdminTypeOK
<1>2. ASSUME NEW s \in Sessions, Handlers(s) PROVE AdminTypeOK'
  <2>0. session' \in [Sessions -> Session \cup {None}]
    BY <1>2, SessionsTyped
  <2>1. ASSUME NEW u \in Users, NEW p \in Profiles[u], UpdateUser(s, u, p) PROVE AdminTypeOK'
    BY <2>0, <2>1 DEF UpdateUser, AdminTypeOK
  <2>2. ASSUME NEW d \in Departments, NEW rs \in SUBSET Resources, UpdateResourceScope(s, d, rs)
        PROVE  AdminTypeOK'
    BY <2>0, <2>2 DEF UpdateResourceScope, AdminTypeOK
  <2>3. ASSUME NEW id \in RequestIds, Approve(s, id) PROVE AdminTypeOK'
    BY <2>0, <2>3 DEF Approve, AdminTypeOK
  <2>4. ASSUME NEW id \in RequestIds, Reject(s, id) PROVE AdminTypeOK'
    BY <2>0, <2>4, StatusIsTyped DEF Reject, Reviewable, Pending, Statuses, AdminTypeOK
  <2>5. CASE \/ \E u \in Users : Authenticate(s, u)
             \/ ResolveScope(s) \/ Refuse(s)
             \/ \E g \in Offers : AdminGrants(s, g)
             \/ \E g \in grants : AdminRevokes(s, g)
    BY <2>0, <2>5 DEF Authenticate, ResolveScope, Refuse, AdminGrants, AdminRevokes, AdminTypeOK
  <2> QED BY <1>2, <2>1, <2>2, <2>3, <2>4, <2>5 DEF Handlers
<1>3. ASSUME NEW id \in RequestIds, NEW u \in Users, NEW r \in Resources, CreateRequest(id, u, r)
      PROVE  AdminTypeOK'
  <2>1. Queue(u) \in Departments \cup {GlobalQueue} /\ RequiresGlobalReview(u, r) \in BOOLEAN
    BY DEF Queue, RequiresGlobalReview, AdminTypeOK, Profile
  <2>2. [user |-> u, resource |-> r, queue |-> Queue(u),
         global |-> RequiresGlobalReview(u, r), status |-> "pending"] \in Requests
    BY <2>1 DEF Requests, Statuses
  <2> QED BY <1>3, <2>2 DEF CreateRequest, AdminTypeOK
<1>4. CASE FinishChange
  <2>1. CASE approving = None
    BY <1>4, <2>1 DEF FinishChange, AdminTypeOK
  <2>2. CASE approving # None
    <3>1. approving \in RequestIds /\ requests[approving] # None /\ SetStatus(approving, "approved")
      BY <1>4, <2>2 DEF FinishChange, AdminTypeOK, ApprovalInv, Pending
    <3> QED BY <1>4, <3>1, StatusIsTyped DEF FinishChange, Statuses, AdminTypeOK
  <2> QED BY <2>1, <2>2
<1>5. CASE ChangeRaises
  BY <1>5 DEF ChangeRaises, AdminTypeOK
<1> QED BY <1>1, <1>2, <1>3, <1>4, <1>5 DEF Next, vars, adminVars, UploadGrants

LEMMA ApprovalStep ==
  ASSUME AdminInv, [Next]_vars PROVE ApprovalInv'
<1> USE RequestsAssumption DEF AdminInv, TypeOK
<1>1. CASE UNCHANGED vars
  BY <1>1 DEF vars, cacheVars, adminVars, ApprovalInv, Pending, RequestedGrant
<1>2. ASSUME NEW s \in Sessions, NEW id \in RequestIds, Approve(s, id) PROVE ApprovalInv'
  <2>1. /\ approving' = id /\ change' = "list" /\ requests' = requests
        /\ Pending(id) /\ grants' = grants \cup {RequestedGrant(id)}
    BY <1>2 DEF Approve, Reviewable, GrantAccess, BeginChange
  <2> QED BY <2>1 DEF ApprovalInv, Pending, RequestedGrant
<1>3. ASSUME change = "idle", approving' = approving PROVE ApprovalInv'
  BY <1>3 DEF ApprovalInv
<1>4. CASE FinishChange \/ ChangeRaises
  BY <1>4 DEF FinishChange, ChangeRaises, DeleteKeys, ListRaises, ApprovalInv
<1>5. CASE (ListKeys \/ CheckStep) /\ UNCHANGED adminVars
  <2>1. grants' = grants /\ (change' = "idle" => change = "idle")
    BY <1>5 DEF ListKeys, CheckStep, LookUp, Evaluate, Store
  <2> QED BY <1>5, <2>1 DEF adminVars, ApprovalInv, Pending, RequestedGrant
<1>6. ASSUME NEW s \in Sessions, ResolveScope(s) PROVE ApprovalInv'
  BY <1>6 DEF ResolveScope, cacheVars, ApprovalInv, Pending, RequestedGrant
<1>7. ASSUME NEW s \in Sessions, Handlers(s) PROVE ApprovalInv'
  BY <1>2, <1>3, <1>6, <1>7
     DEF Handlers, Handle, Authenticate, Refuse, AdminGrants, AdminRevokes, UpdateUser,
         UpdateResourceScope, Reject
<1>8. ASSUME NEW u \in Users, NEW r \in Resources,
             UploadGrants(u, r) \/ \E id \in RequestIds : CreateRequest(id, u, r)
      PROVE  ApprovalInv'
  BY <1>3, <1>8 DEF UploadGrants, CreateRequest, GrantAccess, BeginChange, adminVars
<1>9. CASE (\E k \in Keys : CheckInLoop(k)) /\ UNCHANGED adminVars
  BY <1>3, <1>9 DEF CheckInLoop, adminVars
<1> QED BY <1>1, <1>4, <1>5, <1>7, <1>8, <1>9 DEF Next

LEMMA AdminStart == Init => AdminInv
BY CacheStart, RequestsAssumption
   DEF Init, AdminInv, TypeOK, AdminTypeOK, ApprovalInv, CacheInv, CacheInit

(* The invariant of the administration: the types, the cache's invariant,   *)
(* and that an approval under way is of a pending, granted request.         *)
THEOREM AdminInvariance == Spec => []AdminInv
<1>1. AdminInv /\ [Next]_vars => AdminInv'
  BY StepIsCacheStep, CacheStep, TypeStep, ApprovalStep DEF AdminInv, TypeOK, CacheInv
<1> QED BY <1>1, AdminStart, PTL DEF Spec
-----------------------------------------------------------------------------
(* The steps that change a request: it is created, decided by Reject, or    *)
(* decided once the grant of its approval is in force.                      *)
LEMMA RequestSteps ==
  ASSUME AdminInv, [Next]_vars, NEW id \in RequestIds, requests'[id] # requests[id]
  PROVE  \/ requests[id] = None /\ requests'[id] # None /\ requests'[id].status = "pending"
         \/ Pending(id) /\ requests'[id] = [requests[id] EXCEPT !.status = "rejected"]
         \/ /\ Pending(id) /\ requests'[id] = [requests[id] EXCEPT !.status = "approved"]
            /\ RequestedGrant(id) \in grants'
<1> USE RequestsAssumption DEF AdminInv, TypeOK
<1>1. ASSUME NEW i \in RequestIds, NEW u \in Users, NEW r \in Resources, CreateRequest(i, u, r)
      PROVE  requests[id] = None /\ requests'[id] # None /\ requests'[id].status = "pending"
  <2>1. AdminTypeOK'
    BY TypeStep
  <2>2. i = id /\ requests[id] = None
    BY <1>1 DEF CreateRequest, AdminTypeOK
  <2>3. requests'[id] # None
    BY <2>2
  <2>4. requests'[id].status = "pending"
    BY <1>1, <2>2 DEF CreateRequest, AdminTypeOK
  <2> QED BY <2>2, <2>3, <2>4
<1>2. ASSUME NEW s \in Sessions, NEW i \in RequestIds, Reject(s, i)
      PROVE  Pending(id) /\ requests'[id] = [requests[id] EXCEPT !.status = "rejected"]
  BY <1>2, StatusIsTyped DEF Reject, Reviewable, Pending, Statuses
<1>3. CASE FinishChange
  <2>1. /\ approving # None /\ approving \in RequestIds /\ Pending(approving)
        /\ SetStatus(approving, "approved")
        /\ RequestedGrant(approving) \in grants /\ grants' = grants
    BY <1>3 DEF FinishChange, DeleteKeys, ApprovalInv, AdminTypeOK
  <2>2. id = approving
    BY <2>1, StatusIsTyped DEF Pending, Statuses
  <2> QED BY <2>1, <2>2, StatusIsTyped DEF Pending, Statuses
<1>4. ASSUME NEW s \in Sessions, Handlers(s), \A i \in RequestIds : ~Reject(s, i) PROVE FALSE
  BY <1>4 DEF Handlers, Authenticate, ResolveScope, Refuse, AdminGrants, AdminRevokes,
              UpdateUser, UpdateResourceScope, Approve
<1>5. requests' # requests
  OBVIOUS
<1>6. ASSUME NEW s \in Sessions, Handlers(s)
      PROVE  \E i \in RequestIds : Reject(s, i)
  BY <1>4, <1>6
<1>7. ASSUME NEW u \in Users, NEW r \in Resources, UploadGrants(u, r) PROVE FALSE
  BY <1>5, <1>7 DEF UploadGrants, adminVars
<1>8. ~ChangeRaises
  BY <1>5 DEF ChangeRaises
<1>9. ~(UNCHANGED adminVars) /\ ~(UNCHANGED vars)
  BY <1>5 DEF adminVars, vars
<1>10. CASE \E s \in Sessions : Handlers(s)
  BY <1>10, <1>6, <1>2
<1>11. CASE \E i \in RequestIds, u \in Users, r \in Resources : CreateRequest(i, u, r)
  BY <1>11, <1>1
<1>12. \/ \E s \in Sessions : Handlers(s)
       \/ \E u \in Users, r \in Resources : UploadGrants(u, r)
       \/ \E i \in RequestIds, u \in Users, r \in Resources : CreateRequest(i, u, r)
       \/ FinishChange \/ ChangeRaises \/ UNCHANGED adminVars \/ UNCHANGED vars
  BY DEF Next
<1>13. ~(\E u \in Users, r \in Resources : UploadGrants(u, r))
  BY <1>7
<1> QED
  BY <1>3, <1>8, <1>9, <1>10, <1>11, <1>12, <1>13

LEMMA OnlyCreateAdds ==
  ASSUME AdminInv, [Next]_vars, NEW id \in RequestIds, requests[id] = None, requests'[id] # None
  PROVE  \E u \in Users, r \in Resources : CreateRequest(id, u, r)
<1> USE DEF AdminInv, TypeOK
<1>1. ASSUME NEW i \in RequestIds, NEW u \in Users, NEW r \in Resources, CreateRequest(i, u, r)
      PROVE  i = id
  BY <1>1 DEF CreateRequest, AdminTypeOK
<1>2. ASSUME NEW i \in RequestIds, requests[i] # None, NEW status \in Statuses, SetStatus(i, status)
      PROVE  FALSE
  BY <1>2, StatusIsTyped
<1>3. \A s \in Sessions, i \in RequestIds : ~Reject(s, i)
  BY <1>2 DEF Reject, Reviewable, Pending, Statuses
<1>4. ~FinishChange
  BY <1>2, RequestsAssumption DEF FinishChange, ApprovalInv, AdminTypeOK, Pending, Statuses
<1>5. ~(UNCHANGED vars) /\ ~(UNCHANGED adminVars) /\ ~ChangeRaises
  BY DEF vars, adminVars, ChangeRaises
<1>6. \A s \in Sessions : ~Handlers(s)
  BY <1>3 DEF Handlers, Authenticate, ResolveScope, Refuse, AdminGrants, AdminRevokes,
              UpdateUser, UpdateResourceScope, Approve
<1>7. \A u \in Users, r \in Resources : ~UploadGrants(u, r)
  BY DEF UploadGrants, adminVars
<1>8. PICK i \in RequestIds, u \in Users, r \in Resources : CreateRequest(i, u, r)
  BY <1>4, <1>5, <1>6, <1>7 DEF Next
<1> QED BY <1>1, <1>8

LEMMA FinalStep == AdminInv /\ [Next]_vars =>
  (\A id \in RequestIds : requests[id] # None /\ ~Pending(id) => requests'[id] = requests[id])
BY RequestSteps

(* Decisions on permission requests are final.                              *)
THEOREM DecisionsAreFinal == Spec => DecisionIsFinal
BY FinalStep, AdminInvariance, PTL DEF Spec, DecisionIsFinal

LEMMA SettleStep == AdminInv /\ [Next]_vars =>
  (\A id \in RequestIds :
     requests'[id] # requests[id] =>
       /\ requests'[id] # None
       /\ IF requests[id] = None THEN requests'[id].status = "pending"
          ELSE /\ requests[id].status = "pending"
               /\ requests'[id] \in {[requests[id] EXCEPT !.status = status] :
                                        status \in {"approved", "rejected"}})
<1> SUFFICES ASSUME AdminInv, [Next]_vars, NEW id \in RequestIds, requests'[id] # requests[id]
             PROVE  /\ requests'[id] # None
                    /\ IF requests[id] = None THEN requests'[id].status = "pending"
                       ELSE /\ requests[id].status = "pending"
                            /\ requests'[id] \in {[requests[id] EXCEPT !.status = status] :
                                                     status \in {"approved", "rejected"}}
  OBVIOUS
<1>1. ASSUME Pending(id), NEW status \in {"approved", "rejected"},
             requests'[id] = [requests[id] EXCEPT !.status = status]
      PROVE  requests'[id] # None
  <2>1. requests[id] \in Requests
    BY <1>1, RequestIsRecord DEF AdminInv, TypeOK, Pending
  <2>2. requests'[id] \in Requests
    BY <1>1, <2>1 DEF Requests, Statuses
  <2> QED BY <2>2, RequestsAssumption
<1> QED BY <1>1, RequestSteps DEF Pending

(* A request is created once, and then only decided.                        *)
THEOREM RequestsOnlyGetSettled == Spec => RequestsOnlySettle
BY SettleStep, AdminInvariance, PTL DEF Spec, RequestsOnlySettle

LEMMA OnePendingStep ==
  ASSUME AdminInv, OnePending, [Next]_vars PROVE OnePending'
<1> USE DEF AdminInv, TypeOK
<1>1. ASSUME NEW id \in RequestIds, NEW u \in Users, NEW r \in Resources, CreateRequest(id, u, r)
      PROVE  OnePending'
  <2>1. /\ requests[id] = None
        /\ requests' = [requests EXCEPT ![id] = requests'[id]]
        /\ requests'[id].user = u /\ requests'[id].resource = r
        /\ ~DuplicatePending(u, r)
    BY <1>1 DEF CreateRequest, AdminTypeOK
  <2>2. \A i \in RequestIds \ {id} : requests'[i] = requests[i]
    BY <2>1 DEF AdminTypeOK
  <2> QED BY <2>1, <2>2 DEF OnePending, Pending, DuplicatePending
<1>2. ASSUME \A id \in RequestIds, u \in Users, r \in Resources : ~CreateRequest(id, u, r)
      PROVE  OnePending'
  <2>1. ASSUME NEW i \in RequestIds, Pending(i)'
        PROVE  requests'[i] = requests[i]
    <3>1. CASE Pending(i)
      <4>1. requests[i] \in Requests
        BY <3>1, RequestIsRecord DEF Pending
      <4>2. /\ [requests[i] EXCEPT !.status = "rejected"].status = "rejected"
            /\ [requests[i] EXCEPT !.status = "approved"].status = "approved"
        BY <4>1 DEF Requests
      <4> QED BY <2>1, <4>2, <3>1, RequestSteps DEF Pending
    <3>2. CASE requests[i] = None
      BY <1>2, <2>1, <3>2, OnlyCreateAdds DEF Pending
    <3>3. CASE requests[i] # None /\ ~Pending(i)
      BY <3>3, RequestSteps
    <3> QED BY <3>1, <3>2, <3>3
  <2> QED BY <2>1 DEF OnePending, Pending
<1> QED BY <1>1, <1>2

(* A user has at most one pending request for a resource.                   *)
THEOREM RequestsAreNotDoubled == Spec => []OnePending
<1>1. Init => OnePending
  BY DEF Init, OnePending, Pending
<1>2. AdminInv /\ OnePending /\ [Next]_vars => OnePending'
  BY OnePendingStep
<1> QED BY <1>1, <1>2, AdminInvariance, PTL DEF Spec

LEMMA GrantedStep == AdminInv /\ [Next]_vars =>
  (\A id \in RequestIds :
     /\ requests[id] # requests'[id]
     /\ requests'[id].status = "approved"
     => RequestedGrant(id) \in grants')
<1> SUFFICES ASSUME AdminInv, [Next]_vars, NEW id \in RequestIds,
                    requests[id] # requests'[id], requests'[id].status = "approved"
             PROVE  RequestedGrant(id) \in grants'
  OBVIOUS
<1>1. Pending(id) => requests[id] \in Requests
  BY RequestIsRecord DEF AdminInv, TypeOK, Pending
<1>2. Pending(id) => [requests[id] EXCEPT !.status = "rejected"].status = "rejected"
  BY <1>1 DEF Requests
<1> QED BY <1>2, RequestSteps

(* A request becomes approved only when its grant is in force.              *)
THEOREM ApprovalsAreGranted == Spec => ApprovedIsGranted
BY GrantedStep, AdminInvariance, PTL DEF Spec, ApprovedIsGranted
-----------------------------------------------------------------------------
(* What the step may do when it ends a department administrator's request.  *)
Confined(s) ==
  LET d == session[s].scope.department IN
  /\ \A g \in grants' \ grants :
       /\ g.resource \in session[s].scope.resources
       /\ g.principal \in {<<"department", d>>}
                          \cup {<<"user", u>> : u \in {v \in Users : profile[v].department = d}}
  /\ grants \subseteq grants'
  /\ manageable' = manageable
  /\ \A u \in Users : profile'[u] # profile[u] =>
       \A p \in {profile[u], profile'[u]} : p.department = d /\ p.roles = {}

LEMMA GrantIsConfined ==
  ASSUME NEW s \in Sessions, session[s].scope \in DepartmentScopes,
         NEW g, CanSubmit(session[s].scope, g), grants' = grants \cup {g},
         manageable' = manageable, profile' = profile
  PROVE  Confined(s)
<1>1. ~session[s].scope.global
  BY DEF DepartmentScopes
<1>2. /\ \/ \E u \in Users : g.principal = <<"user", u>> /\ profile[u].department = session[s].scope.department
         \/ g.principal = <<"department", session[s].scope.department>>
      /\ g.resource \in session[s].scope.resources
  BY <1>1 DEF CanSubmit, ScopeAllows
<1> QED BY <1>2 DEF Confined

LEMMA ConfinedStep == AdminInv /\ [Next]_vars =>
  (\A s \in Sessions :
     session[s] # None /\ session[s].scope \in DepartmentScopes /\ session'[s] = None => Confined(s))
<1> SUFFICES ASSUME AdminInv, [Next]_vars, NEW s \in Sessions, session[s] # None,
                    session[s].scope \in DepartmentScopes, session'[s] = None
             PROVE  Confined(s)
  OBVIOUS
<1>1. session \in [Sessions -> Session \cup {None}] /\ session'[s] # session[s]
  BY DEF AdminInv, TypeOK, AdminTypeOK
<1>2. session[s].scope # None /\ ~session[s].scope.global
  BY RequestsAssumption DEF DepartmentScopes, Scopes
<1>3. PICK h \in Sessions : Handlers(h)
  BY <1>1 DEF Next, vars, adminVars, UploadGrants, CreateRequest, FinishChange, ChangeRaises
<1>4. h = s
  BY <1>1, <1>3 DEF Handlers, Authenticate, ResolveScope, Refuse, AdminGrants, AdminRevokes,
                    UpdateUser, UpdateResourceScope, Approve, Reject, Handle
<1>5. ~ResolveScope(s) /\ (\A u \in Users : ~Authenticate(s, u))
  BY <1>2 DEF ResolveScope, Authenticate
<1>6. \A g \in grants : ~AdminRevokes(s, g)
  BY <1>2 DEF AdminRevokes
<1>7. \A d \in Departments, rs \in SUBSET Resources : ~UpdateResourceScope(s, d, rs)
  BY <1>2 DEF UpdateResourceScope
<1>8. ASSUME Refuse(s) \/ \E id \in RequestIds : Reject(s, id)
      PROVE  Confined(s)
  BY <1>8 DEF Refuse, Reject, cacheVars, Confined
<1>9. ASSUME NEW g \in Offers, AdminGrants(s, g) PROVE Confined(s)
  BY <1>9, GrantIsConfined DEF AdminGrants, GrantAccess, BeginChange
<1>10. ASSUME NEW id \in RequestIds, Approve(s, id) PROVE Confined(s)
  BY <1>10, GrantIsConfined DEF Approve, GrantAccess, BeginChange
<1>11. ASSUME NEW u \in Users, NEW p \in Profiles[u], UpdateUser(s, u, p) PROVE Confined(s)
  <2>1. /\ profile[u].department = session[s].scope.department /\ profile[u].roles = {}
        /\ p.department = session[s].scope.department /\ p.roles = {}
    BY <1>11, <1>2 DEF UpdateUser, MayUpdate
  <2>2. grants' = grants /\ manageable' = manageable
    BY <1>11 DEF UpdateUser, cacheVars
  <2>3. profile' = [profile EXCEPT ![u] = p] /\ profile \in [Users -> Profile]
    BY <1>11 DEF UpdateUser, AdminInv, TypeOK, AdminTypeOK
  <2> QED BY <2>1, <2>2, <2>3 DEF Confined
<1> QED
  BY <1>3, <1>4, <1>5, <1>6, <1>7, <1>8, <1>9, <1>10, <1>11 DEF Handlers

(* What a department's administrator does stays in the department.          *)
THEOREM AdministrationIsConfined == Spec => StaysInDepartment
BY ConfinedStep, AdminInvariance, PTL DEF Spec, StaysInDepartment, Confined
=============================================================================
