------------------------- MODULE DiagnosisRequests --------------------------
(***************************************************************************)
(* Requests for a diagnosis (app/enterprise/adapters/aiops_adapter.py)     *)
(* and what lets one run: the task contract it brings along, the risk      *)
(* detector, the contract validator and the human review of a contract     *)
(* (app/enterprise/tasks/, reviews/, verifiers/).                          *)
(*                                                                         *)
(* A handler contains no await between its first statement and the first   *)
(* event of the diagnosis, and neither do the decisions of reviewers: each *)
(* is one step.  Contracts and reviews are rows of two SQLite files, and   *)
(* outlive the process; a diagnosis does not.  The graph a diagnosis runs  *)
(* is the module DiagnosisGraph: here it is the plan it is following.      *)
(*                                                                         *)
(* The catalog's audit service, which a diagnosis replaces while it runs,  *)
(* writes to the same sinks as the one it is replaced by and is left out.  *)
(***************************************************************************)
EXTENDS Integers

CONSTANTS
  Requests,    \* requests being handled at a time
  Tasks,       \* task ids, fresh for every contract
  Reviews,     \* review ids, fresh for every review
  Goals,       \* what contracts ask for: records, see ReviewAssumption
  MaxRuns,     \* bound: how often an approved task is run
  None

(* A contract's risk level is high or critical; it asks for approval       *)
(* itself; another signal is found in its text, sources or tools; a source *)
(* or tool is not permitted to the user, or allowed and forbidden at once. *)
Goal == [high : BOOLEAN, explicit : BOOLEAN, signal : BOOLEAN, refusable : BOOLEAN]

Contract == [goal : Goal, status : {"pending", "running", "rejected"}]
Review == [task : Tasks, status : {"pending", "approved", "rejected"}]
Stream == [task : Tasks \cup {None}, at : {"idle", "planning", "working"},
           plan : {"none", "inScope", "outOfScope"}, replanned : BOOLEAN]

ASSUME ReviewAssumption ==
  /\ None \notin Tasks \cup Reviews \cup Contract \cup Review
  /\ Goals \subseteq Goal
  /\ MaxRuns \in Nat

Idle == [task |-> None, at |-> "idle", plan |-> "none", replanned |-> FALSE]
Started(t) == [task |-> t, at |-> "planning", plan |-> "none", replanned |-> FALSE]

VARIABLES
  contracts, reviews,   \* the two tables
  streams,              \* the diagnoses that run, by request
  \* history variables, read only to bound a run
  runs,                 \* how often each task was run
  approvedOnce,         \* reviews that were approved at some time
  lost                  \* tasks whose request failed between two writes

vars == <<contracts, reviews, streams, runs, approvedOnce, lost>>

TypeOK ==
  /\ contracts \in [Tasks -> Contract \cup {None}]
  /\ reviews \in [Reviews -> Review \cup {None}]
  /\ streams \in [Requests -> Stream]
  /\ runs \in [Tasks -> Nat]
  /\ approvedOnce \in SUBSET Reviews
  /\ lost \in SUBSET Tasks

Init ==
  /\ contracts = [t \in Tasks |-> None]
  /\ reviews = [r \in Reviews |-> None]
  /\ streams = [q \in Requests |-> Idle]
  /\ runs = [t \in Tasks |-> 0]
  /\ approvedOnce = {}
  /\ lost = {}
-----------------------------------------------------------------------------
(* RiskDetector.evaluate_contract: some signal was found.                  *)
RequiresReview(g) == g.explicit \/ g.high \/ g.signal

(* Mutant of Forced: the detection does not reach the contract.            *)
Unforced(g) == g

(* force_review_contract: what is risky requires approval.                 *)
Forced(g) == IF RequiresReview(g) THEN [g EXCEPT !.explicit = TRUE] ELSE g

(* ContractValidator.validate and TaskContractService.create_contract: the *)
(* status a contract is stored with.                                       *)
Verdict(g) ==
  IF g.refusable \/ (g.high /\ ~g.explicit) THEN "rejected"
  ELSE IF g.explicit \/ g.high THEN "pending"
  ELSE "running"

Run(q, t) == streams' = [streams EXCEPT ![q] = Started(t)]

(* A request without a contract is neither validated nor reviewed.         *)
RequestPlain(q) ==
  /\ streams[q] = Idle
  /\ Run(q, None)
  /\ UNCHANGED <<contracts, reviews, runs, approvedOnce, lost>>

Create(t, g) ==
  contracts' = [contracts EXCEPT ![t] = [goal |-> g, status |-> Verdict(g)]]

(* A new contract that needs no review is run, or refused.                 *)
RequestDirect(q, t, g) ==
  /\ streams[q] = Idle /\ contracts[t] = None
  /\ ~RequiresReview(g) /\ Verdict(Forced(g)) # "pending"
  /\ Create(t, Forced(g))
  /\ IF Verdict(Forced(g)) = "running"
     THEN Run(q, t) /\ runs' = [runs EXCEPT ![t] = @ + 1]
     ELSE UNCHANGED <<streams, runs>>
  /\ UNCHANGED <<reviews, approvedOnce, lost>>

(* Mutant of RequestReviewed: a pending contract is answered at once, and  *)
(* only a denied one registered.                                           *)
RequestAnswered(q, t, g, r) ==
  /\ streams[q] = Idle /\ contracts[t] = None /\ reviews[r] = None
  /\ RequiresReview(g) \/ Verdict(Forced(g)) = "pending"
  /\ Create(t, Forced(g))
  /\ reviews' = IF Verdict(Forced(g)) = "pending" THEN reviews
                ELSE [reviews EXCEPT ![r] = [task |-> t, status |-> "pending"]]
  /\ UNCHANGED <<streams, runs, approvedOnce, lost>>

(* A new contract that needs review is registered for one, denied or not.  *)
RequestReviewed(q, t, g, r) ==
  /\ streams[q] = Idle /\ contracts[t] = None /\ reviews[r] = None
  /\ RequiresReview(g) \/ Verdict(Forced(g)) = "pending"
  /\ Create(t, Forced(g))
  /\ reviews' = [reviews EXCEPT ![r] = [task |-> t, status |-> "pending"]]
  /\ UNCHANGED <<streams, runs, approvedOnce, lost>>

(* The contract is stored, and then storing the review fails or the        *)
(* process ends.                                                           *)
RequestLost(q, t, g) ==
  /\ streams[q] = Idle /\ contracts[t] = None
  /\ Create(t, Forced(g))
  /\ lost' = lost \cup {t}
  /\ UNCHANGED <<reviews, streams, runs, approvedOnce>>
-----------------------------------------------------------------------------
(* get_by_task: the review of a task.                                      *)
ReviewsOf(t) == {r \in Reviews : reviews[r] # None /\ reviews[r].task = t}

(* The review a request to resume names, by review id or by task id.       *)
Named(rid, tid) ==
  IF rid # None /\ reviews[rid] # None THEN {rid} ELSE ReviewsOf(tid)

(* Mutant of Approved: a review is looked up, and its status is not.       *)
Found(r) == TRUE

(* Mutant of Approved: only reviews still to be decided are refused.       *)
Decided(r) == reviews[r].status # "pending"

Approved(r) == reviews[r].status = "approved"

(* _resolve_review_resume: the contract of an approved review is run,      *)
(* whoever asks, however often, and with the query of the new request.     *)
Resume(q, rid, tid) ==
  /\ streams[q] = Idle
  /\ \E r \in Named(rid, tid) :
       LET t == reviews[r].task IN
       /\ tid \in {None, t}
       /\ Approved(r)
       /\ contracts[t] # None
       /\ runs[t] < MaxRuns
       /\ contracts' = [contracts EXCEPT ![t].status = "running"]
       /\ runs' = [runs EXCEPT ![t] = @ + 1]
       /\ Run(q, t)
  /\ UNCHANGED <<reviews, approvedOnce, lost>>

(* approve and reject look at no status: a decision can be revised.        *)
Decide(r, status) ==
  /\ reviews[r] # None
  /\ reviews' = [reviews EXCEPT ![r].status = status]
  /\ approvedOnce' = IF status = "approved" THEN approvedOnce \cup {r} ELSE approvedOnce
  /\ UNCHANGED <<contracts, streams, runs, lost>>
-----------------------------------------------------------------------------
unchangedByPlans == <<contracts, reviews, runs, approvedOnce, lost>>

(* Mutant of Plan: the plan is passed on before it is verified.            *)
PlanUnverified(q, p) ==
  /\ streams[q].at = "planning"
  /\ streams' = [streams EXCEPT ![q].at = "working", ![q].plan = p]
  /\ UNCHANGED unchangedByPlans

(* A "plan" event: the plan of a contract is verified, and one out of its  *)
(* scope ends the diagnosis.                                               *)
Plan(q, p) ==
  /\ streams[q].at = "planning"
  /\ streams' = IF streams[q].task # None /\ p = "outOfScope"
                THEN [streams EXCEPT ![q] = Idle]
                ELSE [streams EXCEPT ![q].at = "working", ![q].plan = p]
  /\ UNCHANGED unchangedByPlans

(* The replanner changes the plan.  Its events are not plan events, and    *)
(* nothing is verified.                                                    *)
Replan(q, p) ==
  /\ streams[q].at = "working"
  /\ streams' = [streams EXCEPT ![q].plan = p, ![q].replanned = TRUE]
  /\ UNCHANGED unchangedByPlans

(* The diagnosis is complete, its tools are missing, a node raises, or the *)
(* client goes away; the status of the contract stays.                     *)
End(q) ==
  /\ streams[q] # Idle
  /\ streams' = [streams EXCEPT ![q] = Idle]
  /\ UNCHANGED unchangedByPlans

(* The process is started again: the diagnoses are gone.                   *)
Restart ==
  /\ streams' = [q \in Requests |-> Idle]
  /\ UNCHANGED unchangedByPlans
-----------------------------------------------------------------------------
Next ==
  \/ \E q \in Requests : RequestPlain(q) \/ End(q)
  \/ \E q \in Requests, t \in Tasks, g \in Goals :
       \/ RequestDirect(q, t, g) \/ RequestLost(q, t, g)
       \/ \E r \in Reviews : RequestReviewed(q, t, g, r)
  \/ \E q \in Requests, rid \in Reviews \cup {None}, tid \in Tasks \cup {None} :
       Resume(q, rid, tid)
  \/ \E r \in Reviews, status \in {"approved", "rejected"} : Decide(r, status)
  \/ \E q \in Requests, p \in {"inScope", "outOfScope"} : Plan(q, p) \/ Replan(q, p)
  \/ Restart

Spec == Init /\ [][Next]_vars
-----------------------------------------------------------------------------
(* A task that ran was either harmless and permitted, so that nobody had   *)
(* to look at it, or its review was approved before.  In particular no     *)
(* sequence of requests, decisions and restarts runs a high-risk or a      *)
(* refused contract that no reviewer has approved.                         *)
RanWasCleared ==
  \A t \in Tasks : runs[t] > 0 =>
    \/ ~RequiresReview(contracts[t].goal) /\ ~contracts[t].goal.refusable
    \/ \E r \in ReviewsOf(t) \cap approvedOnce : TRUE

(* A contract that waits for approval can get it: it has a review, unless  *)
(* the request that brought it failed between the two tables.              *)
PendingIsReviewable ==
  \A t \in Tasks \ lost :
    contracts[t] # None /\ contracts[t].status = "pending" => ReviewsOf(t) # {}

(* A diagnosis under a contract leaves the scope of the contract only by   *)
(* way of the replanner, whose plans nobody verifies.                      *)
StraysOnlyByReplan ==
  \A q \in Requests :
    streams[q].task # None /\ streams[q].plan = "outOfScope" => streams[q].replanned

(* What keeps them: a task has one review at most, and a contract with it; *)
(* the approval on record is one of those that were given.                 *)
Linked(r) ==
  reviews[r] # None =>
    /\ contracts[reviews[r].task] # None
    /\ ReviewsOf(reviews[r].task) = {r}
    /\ RequiresReview(contracts[reviews[r].task].goal)
    /\ Approved(r) => r \in approvedOnce

(* A contract's status says whether it has been run, except that one whose *)
(* request failed may be on record as running.                             *)
Accounted(t) ==
  IF contracts[t] = None THEN runs[t] = 0 /\ t \notin lost
  ELSE /\ runs[t] > 0 => contracts[t].status = "running"
       /\ contracts[t].status = "running" => runs[t] > 0 \/ t \in lost
       /\ contracts[t].goal.refusable /\ ReviewsOf(t) = {} => contracts[t].status = "rejected"
       /\ RequiresReview(contracts[t].goal) /\ ReviewsOf(t) = {} => runs[t] = 0
       /\ RequiresReview(contracts[t].goal) => contracts[t].goal.explicit

(* Types, the three promises, and what keeps them.                         *)
DInv ==
  /\ TypeOK
  /\ RanWasCleared /\ PendingIsReviewable /\ StraysOnlyByReplan
  /\ \A r \in Reviews : Linked(r)
  /\ \A t \in Tasks : Accounted(t)
  /\ \A q \in Requests : streams[q].task # None => runs[streams[q].task] > 0

(* Contracts and reviews are kept: a contract keeps its goal, a review its  *)
(* task, nobody takes a run back, and a refusal that no reviewer has before *)
(* them is for good, through every request, resumption and restart.         *)
RecordsAreKept ==
  [][/\ \A t \in Tasks : contracts[t] # None =>
          /\ contracts'[t] # None /\ contracts'[t].goal = contracts[t].goal
          /\ runs'[t] >= runs[t]
          /\ contracts[t].status = "rejected" /\ ReviewsOf(t) = {} =>
               contracts'[t] = contracts[t] /\ ReviewsOf(t)' = {}
     /\ \A r \in Reviews : reviews[r] # None =>
          reviews'[r] # None /\ reviews'[r].task = reviews[r].task]_vars

(* A reviewer changes a decision that was made; a request fails between     *)
(* storing its contract and storing the review.                             *)
Revises == \E r \in Reviews :
  reviews[r] # None /\ reviews[r].status # "pending" /\ reviews'[r] # reviews[r]
Loses == lost' # lost

(* The same requests when no decision is revised and none fails half-way.   *)
SettledSpec == Init /\ [][Next /\ ~Revises /\ ~Loses]_vars

(* Under these the tables tell the whole: a contract is on record as        *)
(* running exactly if it has run, every contract that needed a review has   *)
(* one, and it has run only if the decision on record is an approval.       *)
TablesTell ==
  \A t \in Tasks : contracts[t] # None =>
    /\ contracts[t].status = "running" <=> runs[t] > 0
    /\ contracts[t].status = "pending" => ReviewsOf(t) # {}
    /\ RequiresReview(contracts[t].goal) /\ runs[t] > 0 =>
         \A r \in ReviewsOf(t) : Approved(r)

SettledInv ==
  lost = {} /\ \A r \in approvedOnce : reviews[r] # None /\ Approved(r)

(* What review promises, ApprovalGate, with the verdict on a task read off *)
(* the two tables.                                                         *)
GateVerdict(t) ==
  IF contracts[t] = None THEN "none"
  ELSE IF ReviewsOf(t) # {}
  THEN LET s == reviews[CHOOSE r \in ReviewsOf(t) : TRUE].status
       IN IF s = "approved" THEN "granted" ELSE IF s = "rejected" THEN "refused" ELSE "waiting"
  ELSE IF contracts[t].status = "running" THEN "free"
  ELSE "blocked"

Gate == INSTANCE ApprovalGate WITH verdict <- [t \in Tasks |-> GateVerdict(t)]

(* The adapter, the contracts and the reviews together keep the gate:      *)
(* every run starts while the decision on record is an approval, or is the *)
(* first and only one of a task that needs none.                           *)
ImplementsGate == Gate!Spec
=============================================================================
