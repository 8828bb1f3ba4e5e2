--------------------------- MODULE PermissionCache ---------------------------
(***************************************************************************)
(* Grants and the decision cache (app/enterprise/permissions/service.py).  *)
(*                                                                         *)
(* Grants change only in handlers of the event loop, which add or remove a *)
(* grant and then delete the cached decisions about its resource.  Checks  *)
(* also run in worker threads: retrieve_knowledge and                      *)
(* list_knowledge_documents are synchronous tools, which LangChain runs in *)
(* an executor.  A check looks its key up, evaluates the grants, and       *)
(* stores the decision: a change of the grants may come in between.        *)
(* A resource stands for a resource type, its id and one action.           *)
(***************************************************************************)
CONSTANTS
  Contexts,     \* identities under which requests check: [user, department, roles]
  Resources,
  Threads,      \* worker threads that run checks
  Offers,       \* the grants administrators and uploads may add
  SeedGrants,
  NoCheck       \* the thread runs no check

Effects == {"allow", "deny"}

(* _principal_keys *)
PrincipalKeys(context) ==
  {<<"user", context.user>>, <<"department", context.department>>, <<"public", "*">>}
    \cup {<<"role", role>> : role \in context.roles}

(* _cache_key *)
Keys == [context : Contexts, resource : Resources]

Decisions == {"allowed", "denied"}
Checks == [key : Keys, decision : Decisions \cup {"none"}, overtaken : BOOLEAN]

ASSUME OffersAssumption ==
  \A g \in Offers \cup SeedGrants : g.resource \in Resources /\ g.effect \in Effects
ASSUME NoCheckAssumption == NoCheck \notin Checks

VARIABLES
  grants,     \* the grants in force
  cache,      \* the cached decisions; "none" when there is none
  check,      \* the check each thread runs, with its decision once evaluated
  change,     \* what the event loop does to the cache: "idle", "list" or "delete"
  resource,   \* the resource whose grant it has changed
  listed,     \* the keys it is going to delete
  disturbed,  \* has a thread inserted a key since the change began?
  \* history variable, read by no action
  raced       \* cached keys that a check and a change left behind between them

cacheVars == <<grants, cache, check, change, resource, listed, disturbed, raced>>

CacheTypeOK ==
  /\ grants \subseteq Offers \cup SeedGrants
  /\ cache \in [Keys -> Decisions \cup {"none"}]
  /\ check \in [Threads -> Checks \cup {NoCheck}]
  /\ change \in {"idle", "list", "delete"}
  /\ resource \in Resources
  /\ listed \subseteq Keys
  /\ disturbed \in BOOLEAN
  /\ raced \subseteq Keys

CacheInit ==
  /\ grants = SeedGrants
  /\ cache = [k \in Keys |-> "none"]
  /\ check = [t \in Threads |-> NoCheck]
  /\ change = "idle"
  /\ resource \in Resources
  /\ listed = {}
  /\ disturbed = FALSE
  /\ raced = {}
-----------------------------------------------------------------------------
Matching(gs, k, effect) ==
  {g \in gs : g.resource = k.resource /\ g.effect = effect
              /\ g.principal \in PrincipalKeys(k.context)}

(* _evaluate: a deny precedes every allow, and the default is to deny.     *)
Decide(gs, k) ==
  IF Matching(gs, k, "deny") = {} /\ Matching(gs, k, "allow") # {}
    THEN "allowed" ELSE "denied"
-----------------------------------------------------------------------------
(* The loop has changed the grants of r.  A check that is iterating over    *)
(* the grants at that moment may raise, and ends; one that has evaluated    *)
(* them already holds a decision that may be out of date.                   *)
BeginChange(gs, r) ==
  /\ change = "idle"
  /\ grants' = gs
  /\ change' = "list"
  /\ resource' = r
  /\ disturbed' = FALSE
  /\ \E raising \in SUBSET {t \in Threads : check[t] # NoCheck /\ check[t].decision = "none"} :
       check' = [t \in Threads |->
                   IF t \in raising THEN NoCheck
                   ELSE IF check[t] # NoCheck /\ check[t].decision # "none" /\ check[t].key.resource = r
                     THEN [check[t] EXCEPT !.overtaken = TRUE]
                     ELSE check[t]]
  /\ UNCHANGED <<cache, listed, raced>>

GrantAccess(g) == BeginChange(grants \cup {g}, g.resource)

(* Mutant: revoking a grant leaves the cache alone.                        *)
RevokeGrantQuietly(g) ==
  /\ change = "idle"
  /\ g \in grants
  /\ grants' = grants \ {g}
  /\ UNCHANGED <<cache, check, change, resource, listed, disturbed, raced>>

RevokeGrant(g) == g \in grants /\ BeginChange(grants \ {g}, g.resource)

CachedFor(r) == {k \in Keys : k.resource = r /\ cache[k] # "none"}

(* Mutant: only the keys of users who hold a grant of their own are listed. *)
ListKeysOfUsers ==
  /\ change = "list"
  /\ listed' = {k \in CachedFor(resource) :
                 \E g \in grants : g.resource = resource /\ g.principal = <<"user", k.context.user>>}
  /\ change' = "delete"
  /\ UNCHANGED <<grants, cache, check, resource, disturbed, raced>>

(* invalidate_cache lists the keys of the resource ...                     *)
ListKeys ==
  /\ change = "list"
  /\ listed' = CachedFor(resource)
  /\ change' = "delete"
  /\ UNCHANGED <<grants, cache, check, resource, disturbed, raced>>

(* ... and raises if a thread inserts a key meanwhile (the dictionary has   *)
(* changed its size during the iteration), which deletes nothing ...        *)
ListRaises ==
  /\ change = "list" /\ disturbed
  /\ change' = "idle"
  /\ raced' = raced \cup CachedFor(resource)
  /\ UNCHANGED <<grants, cache, check, resource, listed, disturbed>>

(* ... and deletes the keys it has listed.                                 *)
DeleteKeys ==
  /\ change = "delete"
  /\ cache' = [k \in Keys |-> IF k \in listed THEN "none" ELSE cache[k]]
  /\ raced' = raced \ listed
  /\ listed' = {}
  /\ change' = "idle"
  /\ UNCHANGED <<grants, check, resource, disturbed>>
-----------------------------------------------------------------------------
(* A check in the event loop runs between two changes.  When the decision  *)
(* is cached it changes nothing.                                           *)
CheckInLoop(k) ==
  /\ change = "idle" /\ cache[k] = "none"
  /\ cache' = [cache EXCEPT ![k] = Decide(grants, k)]
  /\ UNCHANGED <<grants, check, change, resource, listed, disturbed, raced>>

(* A check in a thread misses the cache, ...                               *)
LookUp(t, k) ==
  /\ check[t] = NoCheck /\ cache[k] = "none"
  /\ check' = [check EXCEPT ![t] = [key |-> k, decision |-> "none", overtaken |-> FALSE]]
  /\ UNCHANGED <<grants, cache, change, resource, listed, disturbed, raced>>

(* ... evaluates the grants, ...                                           *)
Evaluate(t) ==
  /\ check[t] # NoCheck /\ check[t].decision = "none"
  /\ check' = [check EXCEPT ![t].decision = Decide(grants, check[t].key)]
  /\ UNCHANGED <<grants, cache, change, resource, listed, disturbed, raced>>

(* ... and stores its decision.                                            *)
Store(t) ==
  LET k == check[t].key IN
  /\ check[t] # NoCheck /\ check[t].decision # "none"
  /\ cache' = [cache EXCEPT ![k] = check[t].decision]
  /\ raced' = IF check[t].overtaken THEN raced \cup {k} ELSE raced \ {k}
  /\ disturbed' = (disturbed \/ (change = "list" /\ cache[k] = "none"))
  /\ check' = [check EXCEPT ![t] = NoCheck]
  /\ UNCHANGED <<grants, change, resource, listed>>
-----------------------------------------------------------------------------
CheckStep ==
  \E t \in Threads : (\E k \in Keys : LookUp(t, k)) \/ Evaluate(t) \/ Store(t)

CacheNext ==
  \/ \E g \in Offers : GrantAccess(g)
  \/ \E g \in grants : RevokeGrant(g)
  \/ ListKeys \/ ListRaises \/ DeleteKeys
  \/ \E k \in Keys : CheckInLoop(k)
  \/ CheckStep

CacheSpec == CacheInit /\ [][CacheNext]_cacheVars
-----------------------------------------------------------------------------
(* Between two changes of the grants every cached decision is the one that  *)
(* the grants in force give: a revoked grant no longer allows anything      *)
(* (test_cache_invalidation_after_revoke), a new deny is obeyed.  Holds     *)
(* when no check runs in a worker thread.                                   *)
Coherent ==
  change = "idle" => \A k \in Keys : cache[k] \in {"none", Decide(grants, k)}

(* With worker threads: a cached decision that the grants no longer give is *)
(* about to be deleted, or a check and a change of the same resource        *)
(* overlapped on it.  Nothing else can make the cache stale.                *)
StaleIsExplained ==
  \A k \in Keys :
    \/ cache[k] \in {"none", Decide(grants, k)}
    \/ k \in raced
    \/ change = "list" /\ k.resource = resource
    \/ change = "delete" /\ k \in listed

(* What a thread is about to store is the decision of the grants in force,  *)
(* unless they have changed since it evaluated them; and without threads    *)
(* nothing can be left behind.                                              *)
ChecksAreTrue ==
  \A t \in Threads :
    check[t] # NoCheck /\ check[t].decision # "none" /\ ~check[t].overtaken
      => check[t].decision = Decide(grants, check[t].key)

OnlyThreadsRace == Threads = {} => raced = {} /\ ~disturbed

(* A step overtakes a check: the grants of its resource change between its  *)
(* evaluation and its store.                                                *)
Overtakes ==
  \E t \in Threads : check'[t] # NoCheck /\ check'[t].overtaken
                       /\ check[t] # NoCheck /\ ~check[t].overtaken

(* The cache when neither of the two races happens: no check is overtaken,  *)
(* and no listing of the keys raises.  Threads may check meanwhile.         *)
Ordered == ~Overtakes /\ ~ListRaises
OrderedCacheSpec == CacheInit /\ [][CacheNext /\ Ordered]_cacheVars

NothingOvertaken ==
  raced = {} /\ \A t \in Threads : check[t] # NoCheck => ~check[t].overtaken

CacheInv == CacheTypeOK /\ StaleIsExplained /\ ChecksAreTrue /\ OnlyThreadsRace
=============================================================================
