---------------------- MODULE DiagnosisRequestsProofs -----------------------
(***************************************************************************)
(* Proofs about DiagnosisRequests, for any number of requests, contracts,  *)
(* reviews and goals, and any number of runs of an approved contract.      *)
(***************************************************************************)
EXTENDS DiagnosisRequests, TLAPS

(* What detection and validation make of a goal together.                  *)
LEMMA ForcedGoal ==
  ASSUME NEW g \in Goals
  PROVE  /\ Forced(g) \in Goal
         /\ RequiresReview(Forced(g)) <=> RequiresReview(g)
         /\ RequiresReview(g) => Forced(g).explicit
         /\ Verdict(Forced(g)) \in {"pending", "running", "rejected"}
         /\ Verdict(Forced(g)) = "running" => ~Forced(g).refusable /\ ~RequiresReview(g)
         /\ Verdict(Forced(g)) = "pending" => RequiresReview(g)
         /\ Forced(g).refusable => Verdict(Forced(g)) = "rejected"
<1>1. g \in Goal
  BY ReviewAssumption
<1> QED
  BY <1>1 DEF Goal, Forced, RequiresReview, Verdict

(* A task nobody has created has no review, no run and no stream.          *)
LEMMA FreshTask ==
  ASSUME DInv, NEW t \in Tasks, contracts[t] = None
  PROVE  /\ ReviewsOf(t) = {} /\ runs[t] = 0 /\ t \notin lost
         /\ \A q \in Requests : streams[q].task # t
<1>1. ReviewsOf(t) = {}
  BY DEF DInv, Linked, ReviewsOf
<1>2. runs[t] = 0 /\ t \notin lost
  BY DEF DInv, Accounted
<1>3. ASSUME NEW q \in Requests, streams[q].task = t
       PROVE  FALSE
  <2>1. t # None
    BY ReviewAssumption
  <2>2. runs[t] > 0
    BY <1>3, <2>1 DEF DInv
  <2> QED
    BY <1>2, <2>2
<1> QED
  BY <1>1, <1>2, <1>3

LEMMA CreateTyped ==
  ASSUME TypeOK, NEW t \in Tasks, NEW g \in Goals, Create(t, Forced(g))
  PROVE  /\ contracts' \in [Tasks -> Contract \cup {None}]
         /\ contracts'[t] = [goal |-> Forced(g), status |-> Verdict(Forced(g))]
         /\ contracts'[t] # None
         /\ \A u \in Tasks : u # t => contracts'[u] = contracts[u]
<1>1. [goal |-> Forced(g), status |-> Verdict(Forced(g))] \in Contract
  BY ForcedGoal DEF Contract
<1> QED
  BY <1>1, ReviewAssumption DEF Create, TypeOK

-----------------------------------------------------------------------------
LEMMA InitInv == Init => DInv
BY ReviewAssumption
   DEF Init, DInv, TypeOK, RanWasCleared, PendingIsReviewable, StraysOnlyByReplan,
       Linked, Accounted, ReviewsOf, Idle, Stream

(* A step that changes the streams alone, to streams of tasks that have    *)
(* been run and have strayed by a replanner at most.                       *)
LEMMA StreamStep ==
  ASSUME DInv, UNCHANGED unchangedByPlans, streams' \in [Requests -> Stream],
         \A q \in Requests :
           streams'[q].task # None =>
             /\ runs[streams'[q].task] > 0
             /\ streams'[q].plan = "outOfScope" => streams'[q].replanned
  PROVE  DInv'
<1>1. TypeOK'
  BY DEF DInv, TypeOK, unchangedByPlans
<1>2. \A t : ReviewsOf(t)' = ReviewsOf(t)
  BY DEF ReviewsOf, unchangedByPlans
<1>3. RanWasCleared' /\ PendingIsReviewable'
  BY <1>2 DEF DInv, RanWasCleared, PendingIsReviewable, unchangedByPlans
<1>4. (\A r \in Reviews : Linked(r))' /\ (\A t \in Tasks : Accounted(t))'
  BY <1>2 DEF DInv, Linked, Accounted, Approved, unchangedByPlans
<1>5. StraysOnlyByReplan' /\ (\A q \in Requests : streams[q].task # None => runs[streams[q].task] > 0)'
  BY DEF StraysOnlyByReplan, unchangedByPlans
<1> QED
  BY <1>1, <1>3, <1>4, <1>5 DEF DInv

LEMMA PlainStep ==
  ASSUME DInv, NEW q \in Requests, RequestPlain(q) PROVE DInv'
BY StreamStep DEF DInv, TypeOK, StraysOnlyByReplan, RequestPlain, Run, Started, Stream, unchangedByPlans

LEMMA PlanStep ==
  ASSUME DInv, NEW q \in Requests, NEW p \in {"inScope", "outOfScope"},
         Plan(q, p) \/ Replan(q, p)
  PROVE  DInv'
<1>1. streams[q] \in Stream
  BY DEF DInv, TypeOK
<1>2. CASE Plan(q, p)
  BY <1>1, <1>2, StreamStep DEF DInv, TypeOK, StraysOnlyByReplan, Plan, Idle, Stream
<1>3. CASE Replan(q, p)
  BY <1>1, <1>3, StreamStep DEF DInv, TypeOK, StraysOnlyByReplan, Replan, Stream
<1> QED
  BY <1>2, <1>3

LEMMA EndStep ==
  ASSUME DInv, NEW q \in Requests, End(q) PROVE DInv'
BY StreamStep DEF DInv, TypeOK, StraysOnlyByReplan, End, Idle, Stream

LEMMA RestartStep ==
  ASSUME DInv, Restart PROVE DInv'
BY StreamStep DEF Restart, Idle, Stream

-----------------------------------------------------------------------------
(* The steps that create a contract: the others' parts stay, and of the    *)
(* new task only what the step itself establishes is left to show.         *)
LEMMA CreateKeeps ==
  ASSUME DInv, NEW t \in Tasks, NEW g \in Goals, contracts[t] = None, Create(t, Forced(g)),
         runs' \in [Tasks -> Nat], \A u \in Tasks : u # t => runs'[u] = runs[u],
         lost' \in SUBSET Tasks, \A u \in Tasks : u # t => (u \in lost' <=> u \in lost),
         approvedOnce' = approvedOnce, reviews' = reviews,
         streams' \in [Requests -> Stream],
         \A q \in Requests : streams'[q] \in {streams[q], Started(t)},
         \A q \in Requests : streams'[q].task = t => runs'[t] > 0,
         runs'[t] > 0 => Verdict(Forced(g)) = "running",
         Verdict(Forced(g)) = "running" => runs'[t] > 0 \/ t \in lost',
         Verdict(Forced(g)) = "pending" => t \in lost'
  PROVE  DInv'
<1>c. /\ contracts' \in [Tasks -> Contract \cup {None}]
      /\ contracts'[t] = [goal |-> Forced(g), status |-> Verdict(Forced(g))]
      /\ contracts'[t] # None
      /\ \A u \in Tasks : u # t => contracts'[u] = contracts[u]
  BY CreateTyped DEF DInv
<1>f. /\ ReviewsOf(t) = {} /\ runs[t] = 0 /\ t \notin lost
      /\ \A q \in Requests : streams[q].task # t
  BY FreshTask
<1>g. /\ RequiresReview(Forced(g)) <=> RequiresReview(g)
      /\ RequiresReview(g) => Forced(g).explicit
      /\ Verdict(Forced(g)) = "running" => ~Forced(g).refusable /\ ~RequiresReview(g)
      /\ Forced(g).refusable => Verdict(Forced(g)) = "rejected"
  BY ForcedGoal
<1>r. \A u : ReviewsOf(u)' = ReviewsOf(u)
  BY DEF ReviewsOf
<1>1. TypeOK'
  BY <1>c DEF DInv, TypeOK
<1>2. RanWasCleared'
  <2> SUFFICES ASSUME NEW u \in Tasks, runs'[u] > 0
               PROVE  \/ ~RequiresReview(contracts'[u].goal) /\ ~contracts'[u].goal.refusable
                      \/ \E r \in ReviewsOf(u)' \cap approvedOnce' : TRUE
    BY DEF RanWasCleared
  <2>1. CASE u = t
    BY <2>1, <1>c, <1>g
  <2>2. CASE u # t
    BY <2>2, <1>c, <1>r DEF DInv, RanWasCleared
  <2> QED
    BY <2>1, <2>2
<1>3. PendingIsReviewable'
  BY <1>c, <1>f, <1>r DEF DInv, PendingIsReviewable
<1>4. StraysOnlyByReplan'
  BY DEF DInv, StraysOnlyByReplan, Started
<1>5. ASSUME NEW r \in Reviews PROVE Linked(r)'
  <2> SUFFICES ASSUME reviews[r] # None
               PROVE  /\ contracts'[reviews[r].task] # None
                      /\ ReviewsOf(reviews[r].task) = {r}
                      /\ RequiresReview(contracts'[reviews[r].task].goal)
                      /\ Approved(r) => r \in approvedOnce
    BY <1>r DEF Linked, Approved
  <2>1. reviews[r].task \in Tasks
    BY DEF DInv, TypeOK, Review
  <2>2. reviews[r].task # t
    BY <1>f DEF ReviewsOf
  <2> QED
    BY <2>1, <2>2, <1>c DEF DInv, Linked
<1>6. ASSUME NEW u \in Tasks PROVE Accounted(u)'
  <2>1. CASE u = t
    BY <2>1, <1>c, <1>f, <1>g, <1>r DEF Accounted
  <2>2. CASE u # t
    BY <2>2, <1>c, <1>r DEF DInv, Accounted
  <2> QED
    BY <2>1, <2>2
<1>7. (\A q \in Requests : streams[q].task # None => runs[streams[q].task] > 0)'
  <2> SUFFICES ASSUME NEW q \in Requests, streams'[q].task # None
               PROVE  runs'[streams'[q].task] > 0
    OBVIOUS
  <2>1. CASE streams'[q].task = t
    BY <2>1
  <2>2. CASE streams'[q].task # t
    BY <2>2 DEF DInv, TypeOK, Stream, Started
  <2> QED
    BY <2>1, <2>2
<1> QED
  BY <1>1, <1>2, <1>3, <1>4, <1>5, <1>6, <1>7 DEF DInv

LEMMA DirectStep ==
  ASSUME DInv, NEW q \in Requests, NEW t \in Tasks, NEW g \in Goals, RequestDirect(q, t, g)
  PROVE  DInv'
<1>1. runs[t] = 0 /\ \A p \in Requests : streams[p].task # t
  BY FreshTask DEF RequestDirect
<1>2. Verdict(Forced(g)) \in {"running", "rejected"}
  BY ForcedGoal DEF RequestDirect
<1>3. CASE Verdict(Forced(g)) = "running"
  <2>1. streams' = [streams EXCEPT ![q] = Started(t)]
    BY <1>3 DEF RequestDirect, Run
  <2>2. runs' = [runs EXCEPT ![t] = 1]
    BY <1>1, <1>3 DEF RequestDirect
  <2>3. streams' \in [Requests -> Stream]
    BY <2>1 DEF DInv, TypeOK, Stream, Started
  <2> QED
    BY <1>3, <2>1, <2>2, <2>3, CreateKeeps DEF RequestDirect, DInv, TypeOK
<1>4. CASE Verdict(Forced(g)) = "rejected"
  BY <1>1, <1>4, CreateKeeps DEF RequestDirect, DInv, TypeOK
<1> QED
  BY <1>2, <1>3, <1>4

LEMMA LostStep ==
  ASSUME DInv, NEW q \in Requests, NEW t \in Tasks, NEW g \in Goals, RequestLost(q, t, g)
  PROVE  DInv'
<1>1. runs[t] = 0 /\ \A p \in Requests : streams[p].task # t
  BY FreshTask DEF RequestLost
<1> QED
  BY <1>1, CreateKeeps DEF RequestLost, DInv, TypeOK

LEMMA ReviewedStep ==
  ASSUME DInv, NEW q \in Requests, NEW t \in Tasks, NEW g \in Goals, NEW r \in Reviews,
         RequestReviewed(q, t, g, r)
  PROVE  DInv'
<1>c. /\ contracts' \in [Tasks -> Contract \cup {None}]
      /\ contracts'[t] = [goal |-> Forced(g), status |-> Verdict(Forced(g))]
      /\ contracts'[t] # None
      /\ \A u \in Tasks : u # t => contracts'[u] = contracts[u]
  BY CreateTyped DEF DInv, RequestReviewed
<1>f. /\ ReviewsOf(t) = {} /\ runs[t] = 0 /\ t \notin lost
      /\ \A p \in Requests : streams[p].task # t
  BY FreshTask DEF RequestReviewed
<1>g. /\ RequiresReview(g) /\ RequiresReview(Forced(g)) /\ Forced(g).explicit
      /\ Verdict(Forced(g)) # "running"
  BY ForcedGoal DEF RequestReviewed
<1>n. [task |-> t, status |-> "pending"] \in Review /\ [task |-> t, status |-> "pending"] # None
  BY ReviewAssumption DEF Review
<1>v. /\ reviews' \in [Reviews -> Review \cup {None}]
      /\ reviews'[r] = [task |-> t, status |-> "pending"]
      /\ \A s \in Reviews : s # r => reviews'[s] = reviews[s]
  BY <1>n DEF RequestReviewed, DInv, TypeOK
<1>r. ReviewsOf(t)' = {r} /\ \A u \in Tasks : u # t => ReviewsOf(u)' = ReviewsOf(u)
  BY <1>f, <1>n, <1>v DEF ReviewsOf, RequestReviewed
<1> USE DEF RequestReviewed
<1>1. TypeOK'
  BY <1>c, <1>v DEF DInv, TypeOK
<1>2. RanWasCleared'
  <2> SUFFICES ASSUME NEW u \in Tasks, runs[u] > 0
               PROVE  \/ ~RequiresReview(contracts'[u].goal) /\ ~contracts'[u].goal.refusable
                      \/ \E s \in ReviewsOf(u)' \cap approvedOnce : TRUE
    BY DEF RanWasCleared
  <2>1. u # t
    BY <1>f
  <2> QED
    BY <2>1, <1>c, <1>r DEF DInv, RanWasCleared
<1>3. PendingIsReviewable'
  BY <1>c, <1>r DEF DInv, PendingIsReviewable
<1>4. StraysOnlyByReplan'
  BY DEF DInv, StraysOnlyByReplan
<1>5. ASSUME NEW s \in Reviews PROVE Linked(s)'
  <2>1. CASE s = r
    BY <2>1, <1>c, <1>g, <1>r, <1>v DEF Linked, Approved
  <2>2. ASSUME s # r, reviews[s] # None
        PROVE  Linked(s)'
    <3>1. reviews[s].task \in Tasks /\ reviews[s].task # t
      BY <2>2, <1>f DEF DInv, TypeOK, Review, ReviewsOf
    <3> QED
      BY <2>2, <3>1, <1>c, <1>r, <1>v DEF DInv, Linked, Approved
  <2> QED
    BY <2>1, <2>2, <1>v DEF Linked
<1>6. ASSUME NEW u \in Tasks PROVE Accounted(u)'
  <2>1. CASE u = t
    BY <2>1, <1>c, <1>f, <1>g, <1>r DEF Accounted
  <2>2. CASE u # t
    BY <2>2, <1>c, <1>r DEF DInv, Accounted
  <2> QED
    BY <2>1, <2>2
<1>7. (\A p \in Requests : streams[p].task # None => runs[streams[p].task] > 0)'
  BY DEF DInv
<1> QED
  BY <1>1, <1>2, <1>3, <1>4, <1>5, <1>6, <1>7 DEF DInv

-----------------------------------------------------------------------------
LEMMA ResumeStep ==
  ASSUME DInv, NEW q \in Requests, NEW rid \in Reviews \cup {None},
         NEW tid \in Tasks \cup {None}, Resume(q, rid, tid)
  PROVE  DInv'
<1>0. PICK r \in Named(rid, tid) :
        LET t == reviews[r].task IN
        /\ Approved(r)
        /\ contracts[t] # None
        /\ contracts' = [contracts EXCEPT ![t].status = "running"]
        /\ runs' = [runs EXCEPT ![t] = @ + 1]
        /\ Run(q, t)
  BY DEF Resume
<1> DEFINE t == reviews[r].task
<1>1. r \in Reviews /\ reviews[r] # None
  BY <1>0, ReviewAssumption DEF Named, ReviewsOf
<1>2. t \in Tasks /\ contracts[t] # None /\ contracts[t] \in Contract /\ runs[t] \in Nat
  BY <1>0, <1>1 DEF DInv, TypeOK, Review
<1>3. /\ ReviewsOf(t) = {r} /\ r \in approvedOnce
      /\ RequiresReview(contracts[t].goal)
  BY <1>0, <1>1 DEF DInv, Linked
<1>u. UNCHANGED <<reviews, approvedOnce, lost>>
  BY DEF Resume
<1>c. /\ contracts'[t] = [contracts[t] EXCEPT !.status = "running"]
      /\ contracts'[t] \in Contract /\ contracts'[t] # None
      /\ contracts'[t].goal = contracts[t].goal /\ contracts'[t].status = "running"
      /\ \A u \in Tasks : u # t => contracts'[u] = contracts[u]
      /\ contracts' \in [Tasks -> Contract \cup {None}]
  <2>1. [contracts[t] EXCEPT !.status = "running"] \in Contract
    BY <1>2 DEF Contract
  <2>2. contracts'[t] = [contracts[t] EXCEPT !.status = "running"]
    BY <1>0, <1>2 DEF DInv, TypeOK
  <2>3. \A u \in Tasks : u # t => contracts'[u] = contracts[u]
    BY <1>0 DEF DInv, TypeOK
  <2>4. contracts' \in [Tasks -> Contract \cup {None}]
    BY <1>0, <1>2, <2>1 DEF DInv, TypeOK
  <2>5. contracts'[t].goal = contracts[t].goal /\ contracts'[t].status = "running"
    BY <1>2, <2>2 DEF Contract
  <2> QED
    BY <2>1, <2>2, <2>3, <2>4, <2>5, ReviewAssumption
<1>n. /\ runs'[t] = runs[t] + 1 /\ runs'[t] > 0
      /\ \A u \in Tasks : u # t => runs'[u] = runs[u]
      /\ runs' \in [Tasks -> Nat]
  BY <1>0, <1>2 DEF DInv, TypeOK
<1>s. /\ streams' \in [Requests -> Stream]
      /\ \A p \in Requests : streams'[p] \in {streams[p], Started(t)}
  BY <1>0, <1>2 DEF DInv, TypeOK, Run, Started, Stream
<1>r. \A u : ReviewsOf(u)' = ReviewsOf(u)
  BY <1>u DEF ReviewsOf
<1> HIDE DEF t
<1>4. TypeOK'
  BY <1>c, <1>n, <1>s, <1>u DEF DInv, TypeOK
<1>5. RanWasCleared'
  <2> SUFFICES ASSUME NEW u \in Tasks, runs'[u] > 0
               PROVE  \/ ~RequiresReview(contracts'[u].goal) /\ ~contracts'[u].goal.refusable
                      \/ \E s \in ReviewsOf(u)' \cap approvedOnce' : TRUE
    BY DEF RanWasCleared
  <2>1. CASE u = t
    BY <2>1, <1>3, <1>r, <1>u
  <2>2. CASE u # t
    BY <2>2, <1>c, <1>n, <1>r, <1>u DEF DInv, RanWasCleared
  <2> QED
    BY <2>1, <2>2
<1>6. PendingIsReviewable'
  BY <1>c, <1>r, <1>u DEF DInv, PendingIsReviewable
<1>7. StraysOnlyByReplan'
  BY <1>s DEF DInv, StraysOnlyByReplan, Started
<1>8. ASSUME NEW s \in Reviews PROVE Linked(s)'
  <2> SUFFICES ASSUME reviews[s] # None
               PROVE  /\ contracts'[reviews[s].task] # None
                      /\ ReviewsOf(reviews[s].task) = {s}
                      /\ RequiresReview(contracts'[reviews[s].task].goal)
                      /\ Approved(s) => s \in approvedOnce
    BY <1>r, <1>u DEF Linked, Approved
  <2>1. reviews[s].task \in Tasks
    BY DEF DInv, TypeOK, Review
  <2>2. CASE reviews[s].task = t
    BY <2>2, <1>c DEF DInv, Linked
  <2>3. CASE reviews[s].task # t
    BY <2>1, <2>3, <1>c DEF DInv, Linked
  <2> QED
    BY <2>2, <2>3
<1>9. ASSUME NEW u \in Tasks PROVE Accounted(u)'
  <2>1. CASE u = t
    BY <2>1, <1>2, <1>3, <1>c, <1>n, <1>r, <1>u DEF DInv, Accounted
  <2>2. CASE u # t
    BY <2>2, <1>c, <1>n, <1>r, <1>u DEF DInv, Accounted
  <2> QED
    BY <2>1, <2>2
<1>10. ASSUME NEW p \in Requests, streams'[p].task # None
       PROVE  runs'[streams'[p].task] > 0
  <2>1. CASE streams'[p].task = t
    BY <2>1, <1>n
  <2>2. CASE streams'[p].task # t
    <3>1. streams'[p] = streams[p] /\ streams[p].task \in Tasks
      BY <2>2, <1>s, <1>10 DEF DInv, TypeOK, Stream, Started
    <3> QED
      BY <2>2, <3>1, <1>n, <1>10 DEF DInv
  <2> QED
    BY <2>1, <2>2
<1> QED
  BY <1>4, <1>5, <1>6, <1>7, <1>8, <1>9, <1>10 DEF DInv

LEMMA DecideStep ==
  ASSUME DInv, NEW r \in Reviews, NEW status \in {"approved", "rejected"}, Decide(r, status)
  PROVE  DInv'
<1>1. reviews[r] # None /\ reviews[r] \in Review
  BY DEF Decide, DInv, TypeOK
<1>2. /\ reviews'[r] = [reviews[r] EXCEPT !.status = status]
      /\ \A s \in Reviews : s # r => reviews'[s] = reviews[s]
  BY DEF Decide, DInv, TypeOK
<1>3. /\ reviews'[r] \in Review /\ reviews'[r] # None
      /\ reviews'[r].task = reviews[r].task /\ reviews'[r].status = status
  BY <1>1, <1>2, ReviewAssumption DEF Review
<1>u. UNCHANGED <<contracts, streams, runs, lost>>
  BY DEF Decide
<1>a. /\ approvedOnce \subseteq approvedOnce' /\ approvedOnce' \subseteq Reviews
      /\ status = "approved" => r \in approvedOnce'
  BY DEF Decide, DInv, TypeOK
<1>r. \A u : ReviewsOf(u)' = ReviewsOf(u)
  BY <1>1, <1>2, <1>3 DEF ReviewsOf
<1>4. TypeOK'
  BY <1>1, <1>3, <1>u, <1>a DEF DInv, TypeOK, Decide
<1>5. RanWasCleared' /\ PendingIsReviewable' /\ StraysOnlyByReplan'
  BY <1>r, <1>a, <1>u DEF DInv, RanWasCleared, PendingIsReviewable, StraysOnlyByReplan
<1>6. ASSUME NEW s \in Reviews PROVE Linked(s)'
  <2>1. CASE s = r
    BY <2>1, <1>1, <1>3, <1>a, <1>r, <1>u DEF DInv, Linked, Approved
  <2>2. CASE s # r
    BY <2>2, <1>2, <1>a, <1>r, <1>u DEF DInv, Linked, Approved
  <2> QED
    BY <2>1, <2>2
<1>7. (\A u \in Tasks : Accounted(u))'
  BY <1>r, <1>u DEF DInv, Accounted
<1>8. (\A p \in Requests : streams[p].task # None => runs[streams[p].task] > 0)'
  BY <1>u DEF DInv
<1> QED
  BY <1>4, <1>5, <1>6, <1>7, <1>8 DEF DInv

LEMMA NextInv == DInv /\ [Next]_vars => DInv'
<1> SUFFICES ASSUME DInv, [Next]_vars PROVE DInv'
  OBVIOUS
<1>1. CASE UNCHANGED vars
  BY <1>1, StreamStep DEF vars, unchangedByPlans, DInv, TypeOK, StraysOnlyByReplan
<1>2. CASE Next
  BY <1>2, PlainStep, EndStep, DirectStep, LostStep, ReviewedStep, ResumeStep, DecideStep,
     PlanStep, RestartStep DEF Next
<1> QED
  BY <1>1, <1>2

(* The types, the promises and what keeps them hold in every reachable     *)
(* state.                                                                  *)
THEOREM Invariance == Spec => []DInv
  BY InitInv, NextInv, PTL DEF Spec

(* No sequence of requests, decisions and restarts runs a risky or refused *)
(* contract that no reviewer has approved.                                 *)
THEOREM RunsAreCleared == Spec => []RanWasCleared
<1>1. DInv => RanWasCleared
  BY DEF DInv
<1> QED
  BY <1>1, Invariance, PTL

(* A contract that waits for approval has a review, unless its request     *)
(* failed between the two tables.                                          *)
THEOREM WaitingIsReviewable == Spec => []PendingIsReviewable
<1>1. DInv => PendingIsReviewable
  BY DEF DInv
<1> QED
  BY <1>1, Invariance, PTL

(* Only the replanner takes a diagnosis out of the scope of its contract.  *)
THEOREM PlansAreVerified == Spec => []StraysOnlyByReplan
<1>1. DInv => StraysOnlyByReplan
  BY DEF DInv
<1> QED
  BY <1>1, Invariance, PTL

-----------------------------------------------------------------------------
(* The verdict on a task, as the tables show it.                           *)
VerdictRead(t) ==
  /\ contracts[t] = None => GateVerdict(t) = "none"
  /\ contracts[t] # None /\ ReviewsOf(t) = {} =>
       GateVerdict(t) = IF contracts[t].status = "running" THEN "free" ELSE "blocked"
  /\ \A r \in ReviewsOf(t) :
       GateVerdict(t) = IF reviews[r].status = "approved" THEN "granted"
                        ELSE IF reviews[r].status = "rejected" THEN "refused" ELSE "waiting"

LEMMA VerdictIs == DInv => \A t \in Tasks : VerdictRead(t)
<1> SUFFICES ASSUME DInv, NEW t \in Tasks PROVE VerdictRead(t)
  OBVIOUS
<1>1. ASSUME NEW r \in ReviewsOf(t)
      PROVE  contracts[t] # None /\ (CHOOSE s \in ReviewsOf(t) : TRUE) = r
  <2>1. contracts[t] # None /\ ReviewsOf(t) = {r}
    BY <1>1 DEF DInv, Linked, ReviewsOf
  <2> QED
    BY <2>1
<1> QED
  BY <1>1 DEF VerdictRead, GateVerdict

LEMMA VerdictIsNext == DInv' => (\A t \in Tasks : VerdictRead(t))'
BY VerdictIs, PTL

(* A step that leaves a task's contract and reviews alone leaves its       *)
(* verdict alone.                                                          *)
LEMMA VerdictStays ==
  ASSUME DInv, DInv', NEW u \in Tasks, contracts'[u] = contracts[u],
         ReviewsOf(u)' = ReviewsOf(u), \A r \in ReviewsOf(u) : reviews'[r].status = reviews[r].status
  PROVE  GateVerdict(u)' = GateVerdict(u)
<1>1. VerdictRead(u) /\ VerdictRead(u)'
  BY VerdictIs, VerdictIsNext
<1> QED
  BY <1>1 DEF VerdictRead

(* The adapter, the contracts and the reviews implement the gate.          *)
THEOREM Implements == Spec => ImplementsGate
<1> DEFINE verdict == [t \in Tasks |-> GateVerdict(t)]
<1>1. Init => Gate!Init
  BY DEF Init, Gate!Init, GateVerdict
<1>2. DInv /\ DInv' /\ [Next]_vars => [Gate!Next]_<<verdict, runs>>
  <2> SUFFICES ASSUME DInv, DInv', [Next]_vars
               PROVE  Gate!Next \/ UNCHANGED <<verdict, runs>>
    OBVIOUS
  <2>1. ASSUME UNCHANGED unchangedByPlans
        PROVE  UNCHANGED <<verdict, runs>>
    BY <2>1 DEF unchangedByPlans, GateVerdict, ReviewsOf
  <2>2. ASSUME NEW t \in Tasks, NEW g \in Goals, NEW q \in Requests,
               RequestDirect(q, t, g) \/ RequestLost(q, t, g)
        PROVE  Gate!Next
    <3>1. /\ contracts[t] = None /\ Create(t, Forced(g)) /\ UNCHANGED reviews
          /\ runs' \in {runs, [runs EXCEPT ![t] = @ + 1]}
          /\ runs' = runs \/ Verdict(Forced(g)) = "running"
      BY <2>2 DEF RequestDirect, RequestLost
    <3>2. ReviewsOf(t) = {} /\ \A u : ReviewsOf(u)' = ReviewsOf(u)
      BY <3>1, FreshTask DEF ReviewsOf
    <3>3. /\ contracts'[t] # None /\ contracts'[t].status = Verdict(Forced(g))
          /\ \A u \in Tasks : u # t => contracts'[u] = contracts[u]
      <4>1. TypeOK
        BY DEF DInv
      <4>2. contracts'[t] = [goal |-> Forced(g), status |-> Verdict(Forced(g))]
        BY <3>1, <4>1, CreateTyped
      <4>3. contracts'[t] # None /\ \A u \in Tasks : u # t => contracts'[u] = contracts[u]
        BY <3>1, <4>1, CreateTyped
      <4> QED
        BY <4>2, <4>3
    <3>4. GateVerdict(t) = "none"
      BY <3>1, VerdictIs DEF VerdictRead
    <3>5. GateVerdict(t)' = IF Verdict(Forced(g)) = "running" THEN "free" ELSE "blocked"
      BY <3>2, <3>3, VerdictIsNext DEF VerdictRead
    <3>6. \A u \in Tasks : u # t => GateVerdict(u)' = GateVerdict(u)
      BY <3>1, <3>2, <3>3, VerdictStays
    <3>7. verdict' = [verdict EXCEPT ![t] = GateVerdict(t)']
      BY <3>6
    <3>8. CASE Verdict(Forced(g)) = "running"
      BY <3>1, <3>4, <3>5, <3>7, <3>8 DEF Gate!Next, Gate!Admit
    <3>9. CASE Verdict(Forced(g)) # "running"
      BY <3>1, <3>4, <3>5, <3>7, <3>9 DEF Gate!Next, Gate!Hold
    <3> QED
      BY <3>8, <3>9
  <2>3. ASSUME NEW t \in Tasks, NEW g \in Goals, NEW q \in Requests, NEW r \in Reviews,
               RequestReviewed(q, t, g, r)
        PROVE  Gate!Next
    <3>1. [task |-> t, status |-> "pending"] # None
      BY ReviewAssumption DEF Review
    <3>2. reviews'[r] = [task |-> t, status |-> "pending"] /\ reviews[r] = None
      BY <2>3 DEF RequestReviewed, DInv, TypeOK
    <3>3. \A s \in Reviews : s # r => reviews'[s] = reviews[s]
      BY <2>3 DEF RequestReviewed, DInv, TypeOK
    <3>4. ReviewsOf(t) = {}
      BY <2>3, FreshTask DEF RequestReviewed
    <3>5. r \in ReviewsOf(t)'
      BY <3>1, <3>2 DEF ReviewsOf
    <3>6. \A u \in Tasks : u # t => ReviewsOf(u)' = ReviewsOf(u) /\ r \notin ReviewsOf(u)
      BY <3>1, <3>2, <3>3 DEF ReviewsOf
    <3>7. \A u \in Tasks : u # t => contracts'[u] = contracts[u]
      BY <2>3, CreateTyped DEF DInv, RequestReviewed
    <3>8. GateVerdict(t) = "none"
      BY <2>3, VerdictIs DEF VerdictRead, RequestReviewed
    <3>9. GateVerdict(t)' = "waiting"
      <4>1. GateVerdict(t)' = IF reviews'[r].status = "approved" THEN "granted"
                              ELSE IF reviews'[r].status = "rejected" THEN "refused" ELSE "waiting"
        BY <3>5, VerdictIsNext DEF VerdictRead
      <4> QED
        BY <4>1, <3>2
    <3>10. \A u \in Tasks : u # t => GateVerdict(u)' = GateVerdict(u)
      BY <3>3, <3>6, <3>7, VerdictStays DEF ReviewsOf
    <3>11. verdict' = [verdict EXCEPT ![t] = "waiting"] /\ verdict[t] = "none"
      BY <3>8, <3>9, <3>10
    <3> QED
      BY <2>3, <3>11 DEF Gate!Next, Gate!Hold, RequestReviewed
  <2>4. ASSUME NEW q \in Requests, NEW rid \in Reviews \cup {None},
               NEW tid \in Tasks \cup {None}, Resume(q, rid, tid)
        PROVE  Gate!Next
    <3>1. PICK r \in Named(rid, tid) :
            /\ Approved(r)
            /\ contracts[reviews[r].task] # None
            /\ contracts' = [contracts EXCEPT ![reviews[r].task].status = "running"]
            /\ runs' = [runs EXCEPT ![reviews[r].task] = @ + 1]
      BY <2>4 DEF Resume
    <3>2. r \in Reviews /\ reviews[r] # None
      BY <3>1, ReviewAssumption DEF Named, ReviewsOf
    <3>3. PICK t \in Tasks : t = reviews[r].task
      BY <3>2 DEF DInv, TypeOK, Review
    <3>4. reviews' = reviews /\ \A u : ReviewsOf(u)' = ReviewsOf(u)
      BY <2>4 DEF Resume, ReviewsOf
    <3>5. r \in ReviewsOf(t) /\ r \in ReviewsOf(t)'
      BY <3>2, <3>3, <3>4 DEF ReviewsOf
    <3>6. GateVerdict(t) = "granted" /\ GateVerdict(t)' = "granted"
      <4>1. reviews[r].status = "approved" /\ reviews'[r].status = "approved"
        BY <3>1, <3>4 DEF Approved
      <4> QED
        BY <4>1, <3>5, VerdictIs, VerdictIsNext DEF VerdictRead
    <3>7. \A u \in Tasks : u # t => contracts'[u] = contracts[u]
      BY <3>1, <3>3 DEF DInv, TypeOK
    <3>8. \A u \in Tasks : u # t => GateVerdict(u)' = GateVerdict(u)
      BY <3>4, <3>7, VerdictStays
    <3>9. verdict' = verdict /\ verdict[t] = "granted"
      BY <3>6, <3>8
    <3> QED
      BY <3>1, <3>3, <3>9 DEF Gate!Next, Gate!Start
  <2>5. ASSUME NEW r \in Reviews, NEW status \in {"approved", "rejected"}, Decide(r, status)
        PROVE  Gate!Next
    <3>1. reviews[r] # None /\ reviews[r] \in Review
      BY <2>5 DEF Decide, DInv, TypeOK
    <3>2. PICK t \in Tasks : t = reviews[r].task
      BY <3>1 DEF Review
    <3>3. /\ reviews'[r] \in Review /\ reviews'[r] # None
          /\ reviews'[r].task = t /\ reviews'[r].status = status
          /\ \A s \in Reviews : s # r => reviews'[s] = reviews[s]
      <4>1. reviews'[r] = [reviews[r] EXCEPT !.status = status]
        BY <2>5 DEF Decide, DInv, TypeOK
      <4>2. \A s \in Reviews : s # r => reviews'[s] = reviews[s]
        BY <2>5 DEF Decide, DInv, TypeOK
      <4> QED
        BY <3>1, <3>2, <4>1, <4>2, ReviewAssumption DEF Review
    <3>4. \A u : ReviewsOf(u)' = ReviewsOf(u)
      BY <3>1, <3>2, <3>3 DEF ReviewsOf
    <3>5. r \in ReviewsOf(t) /\ r \in ReviewsOf(t)'
      BY <3>1, <3>2, <3>3 DEF ReviewsOf
    <3>6. GateVerdict(t) \in {"waiting", "granted", "refused"}
      BY <3>5, VerdictIs DEF VerdictRead
    <3>7. GateVerdict(t)' \in {"granted", "refused"}
      <4>1. GateVerdict(t)' = IF reviews'[r].status = "approved" THEN "granted"
                              ELSE IF reviews'[r].status = "rejected" THEN "refused" ELSE "waiting"
        BY <3>5, VerdictIsNext DEF VerdictRead
      <4> QED
        BY <3>3, <4>1
    <3>8. \A u \in Tasks : u # t => r \notin ReviewsOf(u)
      BY <3>2 DEF ReviewsOf
    <3>9. UNCHANGED <<contracts, runs>>
      BY <2>5 DEF Decide
    <3>10. \A u \in Tasks : u # t => GateVerdict(u)' = GateVerdict(u)
      BY <3>3, <3>4, <3>8, <3>9, VerdictStays DEF ReviewsOf
    <3>11. verdict' = [verdict EXCEPT ![t] = GateVerdict(t)'] /\ verdict[t] = GateVerdict(t)
      BY <3>10
    <3> QED
      BY <3>6, <3>7, <3>9, <3>11 DEF Gate!Next, Gate!Decide
  <2>6. ASSUME NEW q \in Requests, RequestPlain(q) \/ End(q)
        PROVE  UNCHANGED unchangedByPlans
    BY <2>6 DEF RequestPlain, End, unchangedByPlans
  <2>7. ASSUME NEW q \in Requests, NEW p \in {"inScope", "outOfScope"}, Plan(q, p) \/ Replan(q, p)
        PROVE  UNCHANGED unchangedByPlans
    BY <2>7 DEF Plan, Replan
  <2>8. CASE Restart \/ UNCHANGED vars
    BY <2>1, <2>8 DEF Restart, vars, unchangedByPlans
  <2> QED
    BY <2>1, <2>2, <2>3, <2>4, <2>5, <2>6, <2>7, <2>8 DEF Next
<1> QED
  BY <1>1, <1>2, Invariance, PTL DEF Spec, ImplementsGate, Gate!Spec
-----------------------------------------------------------------------------
(* What a step may do to the contracts, the reviews and the runs.           *)
Keeps(t) ==
  /\ contracts'[t] # None /\ contracts'[t].goal = contracts[t].goal
  /\ runs'[t] >= runs[t]
  /\ contracts[t].status = "rejected" /\ ReviewsOf(t) = {} =>
       contracts'[t] = contracts[t] /\ ReviewsOf(t)' = {}
KeepsReview(r) == reviews'[r] # None /\ reviews'[r].task = reviews[r].task
Kept ==
  /\ \A t \in Tasks : contracts[t] # None => Keeps(t)
  /\ \A r \in Reviews : reviews[r] # None => KeepsReview(r)

LEMMA KeptByCreation ==
  ASSUME DInv, NEW q \in Requests, NEW t \in Tasks, NEW g \in Goals,
         RequestDirect(q, t, g) \/ RequestLost(q, t, g) \/ \E r \in Reviews : RequestReviewed(q, t, g, r)
  PROVE  Kept
<1>1. contracts[t] = None /\ \A u \in Tasks : u # t => contracts'[u] = contracts[u]
  BY CreateTyped DEF DInv, RequestDirect, RequestLost, RequestReviewed
<1>2. \A u \in Tasks : u # t => runs'[u] = runs[u] /\ runs[u] \in Nat
  BY DEF DInv, TypeOK, RequestDirect, RequestLost, RequestReviewed
<1>3. CASE reviews' = reviews
  BY <1>1, <1>2, <1>3 DEF Kept, Keeps, KeepsReview, ReviewsOf
<1>4. ASSUME NEW r \in Reviews, RequestReviewed(q, t, g, r) PROVE Kept
  <2>1. /\ reviews[r] = None /\ reviews'[r] = [task |-> t, status |-> "pending"]
        /\ \A s \in Reviews : s # r => reviews'[s] = reviews[s]
    BY <1>4 DEF RequestReviewed, DInv, TypeOK
  <2>2. \A u \in Tasks : u # t => ReviewsOf(u)' = ReviewsOf(u)
    BY <2>1 DEF ReviewsOf
  <2> QED BY <1>1, <1>2, <2>1, <2>2 DEF Kept, Keeps, KeepsReview
<1> QED BY <1>3, <1>4 DEF RequestDirect, RequestLost

LEMMA KeptByResume ==
  ASSUME DInv, NEW q \in Requests, NEW rid \in Reviews \cup {None},
         NEW tid \in Tasks \cup {None}, Resume(q, rid, tid)
  PROVE  Kept
<1>0. PICK r \in Named(rid, tid) :
        LET t == reviews[r].task IN
        /\ contracts[t] # None
        /\ contracts' = [contracts EXCEPT ![t].status = "running"]
        /\ runs' = [runs EXCEPT ![t] = @ + 1]
  BY DEF Resume
<1> DEFINE t == reviews[r].task
<1>1. r \in Reviews /\ reviews[r] # None
  BY <1>0, ReviewAssumption DEF Named, ReviewsOf
<1>2. t \in Tasks /\ contracts[t] \in Contract /\ r \in ReviewsOf(t)
  BY <1>0, <1>1 DEF DInv, TypeOK, Review, ReviewsOf
<1>3. contracts' = [contracts EXCEPT ![t] = [contracts[t] EXCEPT !.status = "running"]]
  BY <1>0
<1>4. [contracts[t] EXCEPT !.status = "running"] \in Contract
  BY <1>2 DEF Contract
<1>5. contracts'[t] # None /\ contracts'[t].goal = contracts[t].goal
  BY <1>2, <1>3, <1>4, ReviewAssumption DEF DInv, TypeOK, Contract
<1>6. \A u \in Tasks : runs'[u] >= runs[u] /\ (u # t => contracts'[u] = contracts[u])
  BY <1>0, <1>2 DEF DInv, TypeOK
<1>7. reviews' = reviews
  BY DEF Resume
<1>8. ReviewsOf(t) # {}
  BY <1>2
<1>9. Keeps(t)
  BY <1>2, <1>5, <1>6, <1>8 DEF Keeps
<1>10. ASSUME NEW u \in Tasks, u # t, contracts[u] # None PROVE Keeps(u)
  BY <1>6, <1>7, <1>10 DEF Keeps, ReviewsOf
<1> QED BY <1>7, <1>9, <1>10 DEF Kept, KeepsReview

LEMMA KeptByDecision ==
  ASSUME DInv, NEW r \in Reviews, NEW status \in {"approved", "rejected"}, Decide(r, status)
  PROVE  Kept
<1>1. reviews[r] # None /\ reviews[r] \in Review /\ UNCHANGED <<contracts, runs>>
  BY DEF Decide, DInv, TypeOK
<1>2. /\ reviews'[r] = [reviews[r] EXCEPT !.status = status]
      /\ \A s \in Reviews : s # r => reviews'[s] = reviews[s]
  BY <1>1 DEF Decide, DInv, TypeOK
<1>3. reviews'[r] \in Review /\ reviews'[r].task = reviews[r].task
  BY <1>1, <1>2 DEF Review
<1>4. \A s \in Reviews : reviews[s] # None => KeepsReview(s)
  BY <1>2, <1>3, ReviewAssumption DEF KeepsReview
<1>5. \A t \in Tasks : ReviewsOf(t)' = ReviewsOf(t)
  <2>1. \A s \in Reviews : /\ reviews'[s] # None <=> reviews[s] # None
                           /\ reviews[s] # None => reviews'[s].task = reviews[s].task
    BY <1>1, <1>2, <1>3, ReviewAssumption
  <2> QED BY <2>1 DEF ReviewsOf
<1> QED BY <1>1, <1>4, <1>5 DEF Kept, Keeps, DInv, TypeOK

LEMMA KeptStep == DInv /\ [Next]_vars => Kept
<1> SUFFICES ASSUME DInv, [Next]_vars PROVE Kept
  OBVIOUS
<1>1. ASSUME UNCHANGED <<contracts, reviews, runs>> PROVE Kept
  BY <1>1 DEF Kept, Keeps, KeepsReview, ReviewsOf, DInv, TypeOK
<1> QED
  BY <1>1, KeptByCreation, KeptByResume, KeptByDecision
     DEF Next, vars, RequestPlain, End, Plan, Replan, Restart, unchangedByPlans

(* Contracts, reviews and refusals are kept.                                *)
THEOREM NothingIsTakenBack == Spec => RecordsAreKept
BY KeptStep, Invariance, PTL DEF Spec, RecordsAreKept, Kept, Keeps, KeepsReview
-----------------------------------------------------------------------------
LEMMA SettledByDecision ==
  ASSUME DInv, SettledInv, NEW r \in Reviews, NEW status \in {"approved", "rejected"},
         Decide(r, status), ~Revises
  PROVE  SettledInv'
<1>1. reviews[r] # None /\ reviews[r] \in Review /\ lost' = lost
  BY DEF Decide, DInv, TypeOK
<1>2. /\ reviews'[r] = [reviews[r] EXCEPT !.status = status]
      /\ \A s \in Reviews : s # r => reviews'[s] = reviews[s]
  BY <1>1 DEF Decide, DInv, TypeOK
<1>3. reviews'[r] # None /\ reviews'[r].status = status
  <2>1. reviews'[r] \in Review
    BY <1>1, <1>2 DEF Review
  <2> QED BY <1>1, <1>2, <2>1, ReviewAssumption DEF Review
<1>4. r \in approvedOnce => status = "approved"
  <2>1. CASE reviews'[r] = reviews[r]
    BY <1>3, <2>1 DEF SettledInv, Approved
  <2>2. CASE reviews[r].status = "pending"
    BY <2>2 DEF SettledInv, Approved
  <2> QED BY <1>1, <2>1, <2>2 DEF Revises
<1>5. status = "rejected" => approvedOnce' = approvedOnce
  BY DEF Decide
<1>6. approvedOnce' \subseteq approvedOnce \cup {r} /\ approvedOnce \subseteq Reviews
  BY DEF Decide, DInv, TypeOK
<1>7. r \in approvedOnce' => status = "approved"
  BY <1>4, <1>5
<1> QED BY <1>1, <1>2, <1>3, <1>6, <1>7 DEF SettledInv, Approved

LEMMA SettledStep ==
  ASSUME DInv, SettledInv, [Next /\ ~Revises /\ ~Loses]_vars PROVE SettledInv'
<1>1. ASSUME UNCHANGED <<reviews, approvedOnce, lost>> PROVE SettledInv'
  BY <1>1 DEF SettledInv, Approved
<1>2. ASSUME NEW q \in Requests, NEW t \in Tasks, NEW g \in Goals, RequestLost(q, t, g), ~Loses
      PROVE  FALSE
  <2>1. t \notin lost
    BY <1>2, FreshTask DEF RequestLost
  <2> QED BY <1>2, <2>1 DEF RequestLost, Loses
<1>3. ASSUME NEW q \in Requests, NEW t \in Tasks, NEW g \in Goals, NEW r \in Reviews,
             RequestReviewed(q, t, g, r)
      PROVE  SettledInv'
  BY <1>3 DEF RequestReviewed, SettledInv, Approved, DInv, TypeOK
<1> QED
  BY <1>1, <1>2, <1>3, SettledByDecision
     DEF Next, vars, RequestPlain, RequestDirect, Resume, End, Plan, Replan, Restart, unchangedByPlans

LEMMA TablesTellIt == DInv /\ SettledInv => TablesTell
<1> SUFFICES ASSUME DInv, SettledInv, NEW t \in Tasks, contracts[t] # None
             PROVE  /\ contracts[t].status = "running" <=> runs[t] > 0
                    /\ contracts[t].status = "pending" => ReviewsOf(t) # {}
                    /\ RequiresReview(contracts[t].goal) /\ runs[t] > 0 =>
                         \A r \in ReviewsOf(t) : Approved(r)
  BY DEF TablesTell
<1>1. contracts[t].status = "running" <=> runs[t] > 0
  BY DEF DInv, SettledInv, Accounted
<1>2. contracts[t].status = "pending" => ReviewsOf(t) # {}
  BY DEF DInv, SettledInv, PendingIsReviewable
<1>3. ASSUME RequiresReview(contracts[t].goal), runs[t] > 0, NEW r \in ReviewsOf(t)
      PROVE  Approved(r)
  <2>1. PICK s \in ReviewsOf(t) \cap approvedOnce : TRUE
    BY <1>3 DEF DInv, RanWasCleared
  <2>2. ReviewsOf(t) = {r}
    BY <1>3 DEF DInv, Linked, ReviewsOf
  <2> QED BY <2>1, <2>2 DEF SettledInv
<1> QED BY <1>1, <1>2, <1>3

(* When reviewers do not revise decisions and no request fails between the  *)
(* two tables, the tables tell which contracts have run and by whose leave: *)
(* these two are all that separates the record from what happened.          *)
THEOREM OnlyRevisionsMislead == SettledSpec => []TablesTell
<1>1. Init => DInv /\ SettledInv
  BY InitInv DEF Init, SettledInv
<1>2. DInv /\ SettledInv /\ [Next /\ ~Revises /\ ~Loses]_vars => (DInv /\ SettledInv)'
  <2>1. [Next /\ ~Revises /\ ~Loses]_vars => [Next]_vars
    OBVIOUS
  <2> QED BY <2>1, NextInv, SettledStep
<1> QED BY <1>1, <1>2, TablesTellIt, PTL DEF SettledSpec
=============================================================================
