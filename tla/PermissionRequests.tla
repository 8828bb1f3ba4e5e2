------------------------- MODULE PermissionRequests -------------------------
(***************************************************************************)
(* Permission requests and scoped administration, on top of the grants     *)
(* (app/enterprise/permission_requests/service.py and app/enterprise/      *)
(* admin/: service.py, grant_validator.py, scopes.py, departments.py).     *)
(*                                                                         *)
(* A handler runs to its end on the event loop, but what it may do was     *)
(* settled before: the token is resolved to a profile, and the synchronous *)
(* dependency that derives the admin scope from that profile runs in a     *)
(* thread, so that other handlers come in between.                         *)
(***************************************************************************)
EXTENDS PermissionCache

CONSTANTS
  Users, Departments, System,   \* System is the department "system"
  Sessions,        \* administrators' requests being served
  RequestIds,      \* permission requests (uuid4: never reused)
  Profiles,        \* bound: the profiles a user may be given
  SeedProfile, SeedManageable,
  GlobalQueue,     \* the review queue "global"
  None             \* no session, no scope, no such request

Privileged == {"admin", "department_admin"}
Profile == [department : Departments, roles : SUBSET Privileged, active : BOOLEAN]

GlobalScope == [global |-> TRUE, department |-> None, resources |-> {}]
DepartmentScopes == [global : {FALSE}, department : Departments, resources : SUBSET Resources]
Scopes == DepartmentScopes \cup {GlobalScope}

Session == [user : Users, profile : Profile, scope : Scopes \cup {None}]
Statuses == {"pending", "approved", "rejected"}
Requests == [user : Users, resource : Resources, queue : Departments \cup {GlobalQueue},
             global : BOOLEAN, status : Statuses]

ASSUME RequestsAssumption ==
  /\ System \in Departments
  /\ Profiles \in [Users -> SUBSET Profile]
  /\ SeedProfile \in [Users -> Profile]
  /\ SeedManageable \in [Departments -> SUBSET Resources]
  /\ SeedManageable[System] = {}
  /\ Contexts \subseteq [user : Users, department : Departments, roles : SUBSET Privileged]
  /\ None \notin Session \cup Scopes \cup Requests \cup RequestIds

VARIABLES
  profile,      \* AuthService: the users
  manageable,   \* DepartmentService: what a department's administrator may grant
  session,      \* what each administrator's request has found out so far
  requests,     \* PermissionRequestService
  approving     \* the request whose approval is changing the grants

adminVars == <<profile, manageable, session, requests, approving>>
vars == <<cacheVars, adminVars>>

AdminTypeOK ==
  /\ profile \in [Users -> Profile]
  /\ manageable \in [Departments -> SUBSET Resources]
  /\ session \in [Sessions -> Session \cup {None}]
  /\ requests \in [RequestIds -> Requests \cup {None}]
  /\ approving \in RequestIds \cup {None}

TypeOK == CacheTypeOK /\ AdminTypeOK

Init ==
  /\ CacheInit
  /\ profile = SeedProfile
  /\ manageable = SeedManageable
  /\ session = [s \in Sessions |-> None]
  /\ requests = [id \in RequestIds |-> None]
  /\ approving = None
-----------------------------------------------------------------------------
Context(u) == [user |-> u, department |-> profile[u].department, roles |-> profile[u].roles]

(* get_current_user: an active user's request has its token resolved.       *)
Authenticate(s, u) ==
  /\ change = "idle"
  /\ session[s] = None
  /\ profile[u].active
  /\ session' = [session EXCEPT ![s] = [user |-> u, profile |-> profile[u], scope |-> None]]
  /\ UNCHANGED <<cacheVars, profile, manageable, requests, approving>>

(* resolve_scope: "admin" precedes "department_admin".                      *)
Resolve(p) ==
  IF "admin" \in p.roles THEN GlobalScope
  ELSE IF "department_admin" \in p.roles /\ p.department # System
    THEN [global |-> FALSE, department |-> p.department, resources |-> manageable[p.department]]
  ELSE None

(* require_admin_actor, in a thread; without a scope the answer is 403.     *)
ResolveScope(s) ==
  /\ session[s] # None /\ session[s].scope = None
  /\ session' = IF Resolve(session[s].profile) = None
                  THEN [session EXCEPT ![s] = None]
                  ELSE [session EXCEPT ![s].scope = Resolve(session[s].profile)]
  /\ UNCHANGED <<cacheVars, profile, manageable, requests, approving>>

(* The handler of s runs, to its end: no change of the grants is under way. *)
Handle(s) ==
  /\ change = "idle"
  /\ session[s] # None /\ session[s].scope # None
  /\ session' = [session EXCEPT ![s] = None]

(* It refuses (the resource, user or request named does not exist, the scope *)
(* does not allow it, the grant is a duplicate) or only reads.               *)
Refuse(s) == Handle(s) /\ UNCHANGED <<cacheVars, profile, manageable, requests, approving>>
-----------------------------------------------------------------------------
(* GrantValidator._scope_allowed: a department's administrator grants to    *)
(* its members, or to the department, what the department manages.          *)
ScopeAllows(scope, g) ==
  \/ scope.global
  \/ /\ \/ \E u \in Users : g.principal = <<"user", u>> /\ profile[u].department = scope.department
        \/ g.principal = <<"department", scope.department>>
     /\ g.resource \in scope.resources

(* GrantValidator._principal_exists: a department exists if it has users.   *)
PrincipalExists(principal) ==
  \/ principal = <<"public", "*">>
  \/ \E role \in Privileged : principal = <<"role", role>>
  \/ \E u \in Users : principal \in {<<"user", u>>, <<"department", profile[u].department>>}

(* GrantValidator.preview: the principal, the scope, and no equal grant; an *)
(* opposite grant is a warning only.  (Offers bounds the grants that can be *)
(* asked for.)                                                              *)
CanSubmit(scope, g) ==
  PrincipalExists(g.principal) /\ ScopeAllows(scope, g) /\ g \in Offers \ grants

AdminGrants(s, g) ==
  /\ Handle(s)
  /\ CanSubmit(session[s].scope, g)
  /\ GrantAccess(g)
  /\ UNCHANGED <<profile, manageable, requests, approving>>

AdminRevokes(s, g) ==
  /\ Handle(s)
  /\ session[s].scope.global
  /\ RevokeGrant(g)
  /\ UNCHANGED <<profile, manageable, requests, approving>>

(* _ensure_uploader_read_grant, at the end of an upload                     *)
UploadGrants(u, r) ==
  LET g == [principal |-> <<"user", u>>, resource |-> r, effect |-> "allow"] IN
  /\ g \in Offers \ grants
  /\ GrantAccess(g)
  /\ UNCHANGED adminVars
-----------------------------------------------------------------------------
(* update_user and disable_user: a department's administrator changes only  *)
(* members without privileges, and gives them neither another department    *)
(* nor privileges.                                                          *)
MayUpdate(scope, u, p) ==
  \/ scope.global
  \/ /\ profile[u].department = scope.department /\ profile[u].roles = {}
     /\ p.department = scope.department /\ p.roles = {}

UpdateUser(s, u, p) ==
  /\ Handle(s)
  /\ MayUpdate(session[s].scope, u, p)
  /\ p # profile[u]
  /\ profile' = [profile EXCEPT ![u] = p]
  /\ UNCHANGED <<cacheVars, manageable, requests, approving>>

UpdateResourceScope(s, d, rs) ==
  /\ Handle(s)
  /\ session[s].scope.global
  /\ d # System /\ rs # manageable[d]
  /\ manageable' = [manageable EXCEPT ![d] = rs]
  /\ UNCHANGED <<cacheVars, profile, requests, approving>>
-----------------------------------------------------------------------------
HasAdmin(d) == \E u \in Users : profile[u].department = d /\ "department_admin" \in profile[u].roles

(* _route_request: to the requester's department, if it has someone to      *)
(* review; only globally, if the department does not manage the resource.   *)
Queue(u) ==
  IF profile[u].department = System \/ ~HasAdmin(profile[u].department)
    THEN GlobalQueue ELSE profile[u].department
RequiresGlobalReview(u, r) == Queue(u) = GlobalQueue \/ r \notin manageable[Queue(u)]

Pending(id) == requests[id] # None /\ requests[id].status = "pending"

DuplicatePending(u, r) ==
  \E id \in RequestIds : Pending(id) /\ requests[id].user = u /\ requests[id].resource = r

(* create_request; the check it begins with answers from the cache or fills *)
(* it.                                                                      *)
CreateRequest(id, u, r) ==
  LET k == [context |-> Context(u), resource |-> r] IN
  /\ requests[id] = None
  /\ profile[u].active /\ k \in Keys
  /\ change = "idle"
  /\ \/ cache[k] = "denied" /\ UNCHANGED cacheVars
     \/ Decide(grants, k) = "denied" /\ CheckInLoop(k)
  /\ ~DuplicatePending(u, r)
  /\ requests' = [requests EXCEPT ![id] =
                    [user |-> u, resource |-> r, queue |-> Queue(u),
                     global |-> RequiresGlobalReview(u, r), status |-> "pending"]]
  /\ UNCHANGED <<profile, manageable, session, approving>>

(* Mutant: whether the request is still pending is not asked.              *)
ReviewableAnyStatus(scope, id) ==
  /\ requests[id] # None
  /\ scope.global \/ requests[id].queue = scope.department

(* _require_pending_reviewable_request                                     *)
Reviewable(scope, id) ==
  /\ Pending(id)
  /\ scope.global \/ requests[id].queue = scope.department

RequestedGrant(id) ==
  [principal |-> <<"user", requests[id].user>>, resource |-> requests[id].resource, effect |-> "allow"]

SetStatus(id, status) == requests' = [requests EXCEPT ![id].status = status]

(* Mutant: the decision is written whether or not the grant was accepted.  *)
ApproveAnyway(s, id) ==
  /\ Handle(s)
  /\ Reviewable(session[s].scope, id)
  /\ session[s].scope.global \/ ~requests[id].global
  /\ IF CanSubmit(session[s].scope, RequestedGrant(id))
       THEN GrantAccess(RequestedGrant(id)) ELSE UNCHANGED cacheVars
  /\ SetStatus(id, "approved")
  /\ UNCHANGED <<profile, manageable, approving>>

(* Mutant: approving does not go through the validator.                    *)
ApproveUnvalidated(s, id) ==
  /\ Handle(s)
  /\ Reviewable(session[s].scope, id)
  /\ session[s].scope.global \/ ~requests[id].global
  /\ RequestedGrant(id) \notin grants
  /\ GrantAccess(RequestedGrant(id))
  /\ approving' = id
  /\ UNCHANGED <<profile, manageable, requests>>

(* approve_request grants first; if the validator refuses, the request      *)
(* stays pending.                                                           *)
Approve(s, id) ==
  /\ Handle(s)
  /\ Reviewable(session[s].scope, id)
  /\ session[s].scope.global \/ ~requests[id].global
  /\ CanSubmit(session[s].scope, RequestedGrant(id))
  /\ GrantAccess(RequestedGrant(id))
  /\ approving' = id
  /\ UNCHANGED <<profile, manageable, requests>>

(* reject_request                                                           *)
Reject(s, id) ==
  /\ Handle(s)
  /\ Reviewable(session[s].scope, id)
  /\ SetStatus(id, "rejected")
  /\ UNCHANGED <<cacheVars, profile, manageable, approving>>

(* The handler goes on once the cache is invalidated; approve_request then  *)
(* writes its decision.                                                     *)
FinishChange ==
  /\ DeleteKeys
  /\ IF approving # None THEN SetStatus(approving, "approved") ELSE UNCHANGED requests
  /\ approving' = None
  /\ UNCHANGED <<profile, manageable, session>>

(* The invalidation raises, and the handler with it.                       *)
ChangeRaises ==
  /\ ListRaises
  /\ approving' = None
  /\ UNCHANGED <<profile, manageable, session, requests>>
-----------------------------------------------------------------------------
Handlers(s) ==
  \/ \E u \in Users : Authenticate(s, u)
  \/ ResolveScope(s)
  \/ Refuse(s)
  \/ \E g \in Offers : AdminGrants(s, g)
  \/ \E g \in grants : AdminRevokes(s, g)
  \/ \E u \in Users : \E p \in Profiles[u] : UpdateUser(s, u, p)
  \/ \E d \in Departments, rs \in SUBSET Resources : UpdateResourceScope(s, d, rs)
  \/ \E id \in RequestIds : Approve(s, id) \/ Reject(s, id)

Next ==
  \/ \E s \in Sessions : Handlers(s)
  \/ \E u \in Users, r \in Resources : UploadGrants(u, r)
  \/ \E id \in RequestIds, u \in Users, r \in Resources : CreateRequest(id, u, r)
  \/ ListKeys /\ UNCHANGED adminVars
  \/ FinishChange \/ ChangeRaises
  \/ (CheckStep \/ \E k \in Keys : CheckInLoop(k)) /\ UNCHANGED adminVars

Spec == Init /\ [][Next]_vars

(* The administration when neither race of the cache happens.              *)
OrderedSpec == Init /\ [][Next /\ Ordered]_vars
-----------------------------------------------------------------------------
(* A decision on a permission request is final, although several            *)
(* administrators may have it open and approve, reject or see their         *)
(* invalidation raise in any order.                                         *)
DecisionIsFinal ==
  [][\A id \in RequestIds :
       requests[id] # None /\ ~Pending(id) => requests'[id] = requests[id]]_vars

(* When a request becomes approved its grant is in force: the grant comes   *)
(* first, may be refused, and takes several steps.                          *)
ApprovedIsGranted ==
  [][\A id \in RequestIds :
       /\ requests[id] # requests'[id]
       /\ requests'[id].status = "approved"
       => RequestedGrant(id) \in grants']_vars

(* What a department's administrator does stays in the department, whether  *)
(* done directly or by approving a request, and although members move and   *)
(* the scope was resolved some time ago: grants go to its present members,  *)
(* for what it managed, and nobody enters, leaves, or gains privileges.     *)
StaysInDepartment ==
  [][\A s \in Sessions :
       session[s] # None /\ session[s].scope \in DepartmentScopes /\ session'[s] = None =>
         LET d == session[s].scope.department IN
         /\ \A g \in grants' \ grants :
              /\ g.resource \in session[s].scope.resources
              /\ g.principal \in {<<"department", d>>}
                                 \cup {<<"user", u>> : u \in {v \in Users : profile[v].department = d}}
         /\ grants \subseteq grants'
         /\ manageable' = manageable
         /\ \A u \in Users : profile'[u] # profile[u] =>
              \A p \in {profile[u], profile'[u]} : p.department = d /\ p.roles = {}]_vars

(* A request is created once, pending, by an id that was free, and after    *)
(* that only its status changes, from pending to a decision: who asked, for *)
(* what, and in whose queue it is stay, though users and departments move.  *)
RequestsOnlySettle ==
  [][\A id \in RequestIds :
       requests'[id] # requests[id] =>
         /\ requests'[id] # None
         /\ IF requests[id] = None THEN requests'[id].status = "pending"
            ELSE /\ requests[id].status = "pending"
                 /\ requests'[id] \in {[requests[id] EXCEPT !.status = status] :
                                          status \in {"approved", "rejected"}}]_vars

(* A user has at most one pending request for a resource, in however many   *)
(* requests it was asked for: create_request looks for a duplicate in the   *)
(* step that stores the request.                                            *)
OnePending ==
  \A i, j \in RequestIds :
    Pending(i) /\ Pending(j) /\ requests[i].user = requests[j].user
      /\ requests[i].resource = requests[j].resource => i = j

(* The approval under way is of a pending request whose grant is in force.  *)
ApprovalInv ==
  /\ change = "idle" => approving = None
  /\ approving # None => Pending(approving) /\ RequestedGrant(approving) \in grants

AdminInv == TypeOK /\ CacheInv /\ ApprovalInv
=============================================================================
