------------------------ MODULE DiagnosisGraphProofs ------------------------
(***************************************************************************)
(* What holds of the graph of a diagnosis for any number of diagnoses,     *)
(* sessions and tools and for every limit: its inductive invariant GInv,   *)
(* and from it the bound on the steps, the provenance of an answer's       *)
(* evidence, and what a complete event carries.                            *)
(***************************************************************************)
EXTENDS DiagnosisGraph, FiniteSetTheorems, TLAPS

(* The limit on the steps is a number.                                     *)
LEMMA LimitIsNat ==
  ASSUME GraphAssumption, TypeOK, NEW d \in Diagnoses
  PROVE  MaxSteps(d) \in Nat
<1>1. required[d] \in {{}, Required}
  BY DEF TypeOK
<1>2. IsFiniteSet(required[d])
  BY <1>1, FS_EmptySet DEF GraphAssumption
<1>3. Cardinality(required[d]) \in Nat
  BY <1>2, FS_CardinalityType
<1> QED
  BY <1>3 DEF MaxSteps, GraphAssumption

(* Forced steps are no longer than the longest plan.                       *)
LEMMA ForcedPlanFits ==
  ASSUME GraphAssumption, TypeOK, NEW d \in Diagnoses
  PROVE  Cardinality(Missing(d)) \in 0..LongestPlan
<1>1. Missing(d) \subseteq Required
  BY DEF TypeOK, Missing
<1>2. IsFiniteSet(Required) /\ Cardinality(Required) \in Nat
  BY FS_CardinalityType DEF GraphAssumption
<1>3. Cardinality(Missing(d)) \in Nat /\ Cardinality(Missing(d)) <= Cardinality(Required)
  BY <1>1, <1>2, FS_Subset, FS_CardinalityType
<1> QED
  BY <1>2, <1>3 DEF GraphAssumption

(* Fresh diagnoses satisfy the invariant.                                   *)
LEMMA InitGInv == GraphAssumption /\ Init => GInv
<1> SUFFICES ASSUME GraphAssumption, Init PROVE GInv
  OBVIOUS
<1>1. Fresh \in State
  BY DEF Fresh, State, GraphAssumption, DefaultPlan
<1>2. TypeOK
  BY <1>1 DEF Init, TypeOK, Nodes
<1>3. ASSUME NEW d \in Diagnoses PROVE Accumulates(d) /\ Bounds(d) /\ Saved(d)
  <2>1. MaxSteps(d) \in Nat
    BY <1>2, LimitIsNat
  <2>2. values[d] = Fresh /\ inherited[d] = Fresh /\ steps[d] = 0 /\ called[d] = {}
        /\ broke[d] = FALSE /\ node[d] = "waiting"
    BY DEF Init
  <2>3. Accumulates(d)
    BY <2>2 DEF Accumulates, Fresh, GraphAssumption
  <2>4. Bounds(d)
    BY <2>1, <2>2 DEF Bounds, Fresh, GraphAssumption, MaxSteps
  <2>5. Saved(d)
    BY <2>2 DEF Saved
  <2> QED
    BY <2>3, <2>4, <2>5
<1> QED
  BY <1>2, <1>3 DEF GInv
-----------------------------------------------------------------------------
(* What a node does to the diagnosis d: it takes its state from values[d]   *)
(* to v, having executed k steps and called the tools c.  If v accounts for *)
(* all of that, the invariant is preserved.                                 *)
LEMMA NodePreserves ==
  ASSUME GraphAssumption, GInv, NEW d \in Diagnoses,
         NEW n \in {"executor", "replanner", "done"}, NEW v \in State,
         NEW k \in {0, 1}, NEW c \in SUBSET Tools,
         node[d] # "waiting",
         Goto(d, n, v), UNCHANGED unchangedByNodes,
         steps' = [steps EXCEPT ![d] = @ + k],
         called' = [called EXCEPT ![d] = @ \cup c],
         v.past = values[d].past + k,
         v.executed = values[d].executed \cup c,
         values[d].failed => v.failed,
         v.answer \in {values[d].answer, d},
         v.answer = d => Missing(d) = {} \/ values[d].past >= MaxSteps(d),
         steps[d] + k + v.plan <= MaxSteps(d) + LongestPlan
  PROVE  GInv'
<1>t. TypeOK
  BY DEF GInv
<1>u. node[d] \in Nodes /\ steps[d] \in Nat /\ values[d] \in State /\ inherited[d] \in State
  BY <1>t DEF TypeOK
<1>1. TypeOK'
  <2>1. node' \in [Diagnoses -> Nodes] /\ values' \in [Diagnoses -> State]
        /\ steps' \in [Diagnoses -> Nat] /\ called' \in [Diagnoses -> SUBSET Tools]
    BY <1>t DEF TypeOK, Goto, Nodes
  <2>2. v.failed \in BOOLEAN /\ values[d].failed \in BOOLEAN
    BY <1>u DEF State
  <2>3. broke' \in [Diagnoses -> BOOLEAN]
    <3>1. (broke[d] \/ (v.failed /\ ~values[d].failed)) \in BOOLEAN
      OBVIOUS
    <3> QED
      BY <1>t, <3>1 DEF TypeOK, Goto
  <2>4. overlapped' \in [Diagnoses -> BOOLEAN]
    BY <1>t DEF TypeOK, Goto
  <2>5. checkpoint' \in [Sessions -> State]
    BY <1>t DEF TypeOK, Goto
  <2> QED
    BY <1>t, <2>1, <2>3, <2>4, <2>5 DEF TypeOK, unchangedByNodes
<1>2. ASSUME NEW e \in Diagnoses, e # d PROVE (Accumulates(e) /\ Bounds(e) /\ Saved(e))'
  <2>1. Accumulates(e) /\ Bounds(e) /\ Saved(e)
    BY DEF GInv
  <2>2. node'[e] = node[e] /\ values'[e] = values[e] /\ steps'[e] = steps[e]
        /\ called'[e] = called[e] /\ broke'[e] = broke[e]
    BY <1>2, <1>t DEF Goto, TypeOK
  <2>3. overlapped'[e] = (overlapped[e] \/ (session[e] = session[d] /\ node[e] # "waiting"))
    BY <1>2 DEF Goto
  <2>4. Accumulates(e)' /\ Bounds(e)'
    BY <2>1, <2>2 DEF Accumulates, Bounds, Missing, MaxSteps, unchangedByNodes
  <2>5. Saved(e)'
    <3> SUFFICES ASSUME ~overlapped'[e]
                 PROVE  /\ node'[e] # "waiting" => checkpoint'[session'[e]] = values'[e]
                        /\ node'[e] = "completed" => report'[e] = values'[e].answer /\ flagged'[e] = values'[e].failed
      BY DEF Saved
    <3>1. ~overlapped[e] /\ (node[e] = "waiting" \/ session[e] # session[d])
      BY <2>3
    <3>2. session[e] # session[d] => checkpoint'[session[e]] = checkpoint[session[e]]
      BY <1>t DEF Goto, TypeOK
    <3> QED
      BY <2>1, <2>2, <3>1, <3>2 DEF Saved, unchangedByNodes
  <2> QED
    BY <2>4, <2>5
<1>3. Accumulates(d)' /\ Bounds(d)' /\ Saved(d)'
  <2>1. Accumulates(d) /\ Bounds(d) /\ Saved(d)
    BY DEF GInv
  <2>2. node'[d] = n /\ values'[d] = v /\ steps'[d] = steps[d] + k /\ called'[d] = called[d] \cup c
        /\ checkpoint'[session[d]] = v
    BY <1>t DEF Goto, TypeOK
  <2>3. broke'[d] = (broke[d] \/ (v.failed /\ ~values[d].failed))
    BY <1>t DEF Goto, TypeOK
  <2>4. v.failed \in BOOLEAN /\ values[d].failed \in BOOLEAN
    BY <1>u DEF State
  <2>5. v.failed <=> broke'[d] \/ inherited[d].failed
    BY <2>1, <2>3, <2>4, Zenon DEF Accumulates
  <2>6. v.past \in Nat /\ values[d].past \in Nat /\ MaxSteps(d) \in Nat
    BY <1>t, <1>u, LimitIsNat DEF State
  <2>7. MaxSteps(d)' = MaxSteps(d)
    BY DEF MaxSteps, unchangedByNodes
  <2>8. Missing(d)' \subseteq Missing(d)
    BY <2>2 DEF Missing, unchangedByNodes
  <2>9. v.answer = d => Missing(d)' = {} \/ v.past >= MaxSteps(d)
    BY <2>6, <2>8
  <2>10. v.past = steps'[d] + inherited[d].past
    BY <2>1, <2>2, <2>6, <1>u DEF Accumulates, State
  <2>11. v.executed = called'[d] \cup inherited[d].executed
    BY <2>1, <2>2 DEF Accumulates
  <2>12. Accumulates(d)'
    BY <2>1, <2>2, <2>5, <2>7, <2>9, <2>10, <2>11 DEF Accumulates, unchangedByNodes
  <2>13. Bounds(d)'
    BY <2>2, <2>7 DEF Bounds
  <2>14. Saved(d)'
    BY <2>2 DEF Saved, unchangedByNodes
  <2> QED
    BY <2>12, <2>13, <2>14
<1> QED
  BY <1>1, <1>2, <1>3 DEF GInv
-----------------------------------------------------------------------------
LEMMA RestartedState ==
  ASSUME GraphAssumption, NEW c \in State
  PROVE  Restart(c) \in State /\ Restart(c).plan = 0 /\ Restart(c).answer = None
  BY DEF Restart, State, GraphAssumption

LEMMA BeginPreserves ==
  ASSUME GraphAssumption, GInv, NEW d \in Diagnoses,
         NEW tools \in {{}, Required}, Begin(d, tools)
  PROVE  GInv'
<1> DEFINE v == Restart(checkpoint[session[d]])
<1>t. TypeOK
  BY DEF GInv
<1>s. session[d] \in Sessions /\ checkpoint[session[d]] \in State
  BY <1>t DEF TypeOK
<1>v. v \in State /\ v.plan = 0 /\ v.answer = None
  BY <1>s, RestartedState
<1>b. /\ node[d] = "waiting"
      /\ node' = [node EXCEPT ![d] = "planner"]
      /\ values' = [values EXCEPT ![d] = v]
      /\ inherited' = [inherited EXCEPT ![d] = v]
      /\ checkpoint' = [checkpoint EXCEPT ![session[d]] = v]
      /\ UNCHANGED <<session, report, flagged, steps, called, broke>>
  BY DEF Begin
<1> HIDE DEF v
<1>1. TypeOK'
  <2>1. node' \in [Diagnoses -> Nodes] /\ required' \in [Diagnoses -> {{}, Required}]
        /\ overlapped' \in [Diagnoses -> BOOLEAN]
    BY <1>t DEF TypeOK, Begin, Nodes
  <2>2. values' \in [Diagnoses -> State] /\ inherited' \in [Diagnoses -> State]
        /\ checkpoint' \in [Sessions -> State]
    BY <1>t, <1>v, <1>b, <1>s DEF TypeOK
  <2> QED
    BY <1>t, <2>1, <2>2 DEF TypeOK, Begin
<1>2. ASSUME NEW e \in Diagnoses, e # d PROVE (Accumulates(e) /\ Bounds(e) /\ Saved(e))'
  <2>1. Accumulates(e) /\ Bounds(e) /\ Saved(e)
    BY DEF GInv
  <2>2. node'[e] = node[e] /\ values'[e] = values[e] /\ required'[e] = required[e]
        /\ inherited'[e] = inherited[e]
    BY <1>2, <1>t DEF Begin, TypeOK
  <2>3. overlapped'[e] = (overlapped[e] \/ (session[e] = session[d] /\ node[e] # "waiting"))
    BY <1>2 DEF Begin
  <2>4. Accumulates(e)' /\ Bounds(e)'
    BY <2>1, <2>2 DEF Accumulates, Bounds, Missing, MaxSteps, Begin
  <2>5. Saved(e)'
    <3> SUFFICES ASSUME ~overlapped'[e]
                 PROVE  /\ node'[e] # "waiting" => checkpoint'[session'[e]] = values'[e]
                        /\ node'[e] = "completed" => report'[e] = values'[e].answer /\ flagged'[e] = values'[e].failed
      BY DEF Saved
    <3>1. ~overlapped[e] /\ (node[e] = "waiting" \/ session[e] # session[d])
      BY <2>3
    <3>2. session[e] # session[d] => checkpoint'[session[e]] = checkpoint[session[e]]
      BY <1>t DEF Begin, TypeOK
    <3> QED
      BY <2>1, <2>2, <3>1, <3>2 DEF Saved, Begin
  <2> QED
    BY <2>4, <2>5
<1>3. Accumulates(d)' /\ Bounds(d)' /\ Saved(d)'
  <2>1. Accumulates(d) /\ Bounds(d) /\ node[d] = "waiting"
    BY DEF GInv, Begin
  <2>2. steps[d] = 0 /\ values[d].answer = None /\ called[d] = {} /\ broke[d] = FALSE
    BY <2>1 DEF Bounds
  <2>3. node'[d] = "planner" /\ values'[d] = v /\ inherited'[d] = v /\ checkpoint'[session[d]] = v
    BY <1>t, <1>b, <1>s DEF TypeOK
  <2>4. v.past \in Nat
    BY <1>v DEF State
  <2>5. Accumulates(d)'
    <3>1. v.failed \in BOOLEAN /\ broke'[d] = FALSE
      BY <1>v, <2>2 DEF State, Begin
    <3>2. (values'[d].failed <=> broke'[d] \/ inherited'[d].failed)
      BY <2>3, <3>1
    <3>3. values'[d].executed = called'[d] \cup inherited'[d].executed
      BY <2>2, <2>3 DEF Begin
    <3>4. values'[d].past = steps'[d] + inherited'[d].past
      BY <2>2, <2>3, <2>4 DEF Begin
    <3>5. values'[d].answer = None /\ None # d
      BY <1>v, <2>3 DEF GraphAssumption
    <3> QED
      BY <3>2, <3>3, <3>4, <3>5 DEF Accumulates
  <2>6. MaxSteps(d)' \in Nat
    <3>1. MaxSteps(d)' = IF Cardinality(tools) + 2 > StepLimit THEN Cardinality(tools) + 2 ELSE StepLimit
      BY <1>t DEF MaxSteps, Begin, TypeOK
    <3>2. IsFiniteSet(tools)
      BY FS_EmptySet DEF GraphAssumption
    <3>3. Cardinality(tools) \in Nat
      BY <3>2, FS_CardinalityType
    <3> QED
      BY <3>1, <3>3 DEF GraphAssumption
  <2>7. Bounds(d)'
    BY <1>v, <2>2, <2>3, <2>6 DEF Bounds, Begin, GraphAssumption
  <2>8. Saved(d)'
    BY <2>3 DEF Saved, Begin
  <2> QED
    BY <2>5, <2>7, <2>8
<1> QED
  BY <1>1, <1>2, <1>3 DEF GInv
-----------------------------------------------------------------------------
LEMMA Failing ==
  ASSUME NEW v \in State
  PROVE  /\ Fail(v) \in State /\ Fail(v).failed = TRUE
         /\ Fail(v).plan = v.plan /\ Fail(v).past = v.past
         /\ Fail(v).executed = v.executed /\ Fail(v).answer = v.answer
  BY DEF Fail, State

LEMMA Advancing ==
  ASSUME NEW v \in State, v.plan > 0, NEW tools \in SUBSET Tools, GraphAssumption
  PROVE  /\ Advance(v, tools) \in State
         /\ Advance(v, tools).plan = v.plan - 1 /\ Advance(v, tools).past = v.past + 1
         /\ Advance(v, tools).executed = v.executed \cup tools
         /\ Advance(v, tools).answer = v.answer /\ Advance(v, tools).failed = v.failed
  BY DEF Advance, State, GraphAssumption

(* A node other than the executor: it executes and calls nothing.          *)
LEMMA ThinkingPreserves ==
  ASSUME GraphAssumption, GInv, NEW d \in Diagnoses,
         NEW n \in {"executor", "replanner", "done"}, NEW v \in State,
         node[d] # "waiting",
         Goto(d, n, v), UNCHANGED <<unchangedByNodes, steps, called>>,
         v.past = values[d].past, v.executed = values[d].executed,
         values[d].failed => v.failed,
         v.answer \in {values[d].answer, d},
         v.answer = d => Missing(d) = {} \/ values[d].past >= MaxSteps(d),
         steps[d] + v.plan <= MaxSteps(d) + LongestPlan
  PROVE  GInv'
<1>1. steps[d] \in Nat /\ steps' = [steps EXCEPT ![d] = @ + 0]
        /\ called' = [called EXCEPT ![d] = @ \cup {}]
  BY DEF GInv, TypeOK
<1>2. v.past = values[d].past + 0
  BY DEF GInv, TypeOK, State
<1>3. v.executed = values[d].executed \cup {} /\ {} \in SUBSET Tools /\ 0 \in {0, 1}
  OBVIOUS
<1>4. steps[d] + 0 + v.plan <= MaxSteps(d) + LongestPlan
  BY <1>1 DEF State
<1> QED
  BY <1>1, <1>2, <1>3, <1>4, NodePreserves

LEMMA PlanPreserves ==
  ASSUME GraphAssumption, GInv, NEW d \in Diagnoses, Plan(d)
  PROVE  GInv'
<1>1. values[d] \in State /\ MaxSteps(d) \in Nat /\ steps[d] = 0 /\ values[d].answer = None
      /\ node[d] = "planner"
  BY LimitIsNat DEF GInv, TypeOK, Bounds, Plan
<1>2. ASSUME NEW m \in 1..LongestPlan
      PROVE  LET v == [values[d] EXCEPT !.plan = m] IN
             /\ v \in State /\ v.plan = m /\ v.past = values[d].past
             /\ v.executed = values[d].executed /\ v.failed = values[d].failed /\ v.answer = None
  BY <1>1 DEF State, GraphAssumption
<1>3. DefaultPlan \in 1..LongestPlan
  BY DEF DefaultPlan, GraphAssumption
<1>4. ASSUME NEW m \in 1..LongestPlan, NEW v \in State, v.plan = m, v.past = values[d].past,
             v.executed = values[d].executed, values[d].failed => v.failed, v.answer = None,
             Goto(d, "executor", v), UNCHANGED <<unchangedByNodes, steps, called>>
      PROVE  GInv'
  <2>1. steps[d] + v.plan <= MaxSteps(d) + LongestPlan
    BY <1>1, <1>4 DEF GraphAssumption
  <2>2. v.answer # d /\ v.answer \in {values[d].answer, d}
    BY <1>1, <1>4 DEF GraphAssumption
  <2> QED
    BY <1>1, <1>4, <2>1, <2>2, ThinkingPreserves
<1>5. CASE \E m \in 1..LongestPlan : Goto(d, "executor", [values[d] EXCEPT !.plan = m])
  <2>1. PICK m \in 1..LongestPlan : Goto(d, "executor", [values[d] EXCEPT !.plan = m])
    BY <1>5
  <2> QED
    BY <1>2, <1>4, <2>1 DEF Plan
<1>6. CASE Goto(d, "executor", Fail([values[d] EXCEPT !.plan = DefaultPlan]))
  <2> DEFINE w == [values[d] EXCEPT !.plan = DefaultPlan]
  <2>1. /\ w \in State /\ w.plan = DefaultPlan /\ w.past = values[d].past
        /\ w.executed = values[d].executed /\ w.answer = None
    BY <1>2, <1>3
  <2>2. Goto(d, "executor", Fail(w)) /\ UNCHANGED <<unchangedByNodes, steps, called>>
    BY <1>6 DEF Plan
  <2> HIDE DEF w
  <2>3. Fail(w) \in State /\ Fail(w).failed = TRUE /\ Fail(w).plan = DefaultPlan
        /\ Fail(w).past = values[d].past /\ Fail(w).executed = values[d].executed
        /\ Fail(w).answer = None
    BY <2>1, Failing
  <2> QED
    BY <1>3, <1>4, <2>2, <2>3
<1> QED
  BY <1>5, <1>6 DEF Plan

LEMMA ExecutePreserves ==
  ASSUME GraphAssumption, GInv, NEW d \in Diagnoses, Execute(d)
  PROVE  GInv'
<1>1. /\ values[d] \in State /\ values[d].plan > 0 /\ node[d] = "executor"
      /\ steps[d] \in Nat /\ MaxSteps(d) \in Nat
      /\ steps[d] + values[d].plan <= MaxSteps(d) + LongestPlan
      /\ values[d].answer = d => Missing(d) = {} \/ values[d].past >= MaxSteps(d)
  BY LimitIsNat DEF GInv, TypeOK, Bounds, Accumulates, Execute
<1>2. ASSUME NEW tools \in SUBSET Tools, NEW v \in State,
             v.plan = values[d].plan - 1, v.past = values[d].past + 1,
             v.executed = values[d].executed \cup tools, v.answer = values[d].answer,
             values[d].failed => v.failed,
             Goto(d, "replanner", v), called' = [called EXCEPT ![d] = @ \cup tools]
      PROVE  GInv'
  <2>1. steps' = [steps EXCEPT ![d] = @ + 1] /\ UNCHANGED unchangedByNodes
    BY DEF Execute
  <2>2. steps[d] + 1 + v.plan <= MaxSteps(d) + LongestPlan
    BY <1>1, <1>2 DEF State, GraphAssumption
  <2> QED
    BY <1>1, <1>2, <2>1, <2>2, NodePreserves
<1>3. CASE \E tools \in SUBSET Tools :
             /\ Goto(d, "replanner", Advance(values[d], tools))
             /\ called' = [called EXCEPT ![d] = @ \cup tools]
  <2>1. PICK tools \in SUBSET Tools :
          /\ Goto(d, "replanner", Advance(values[d], tools))
          /\ called' = [called EXCEPT ![d] = @ \cup tools]
    BY <1>3
  <2>2. /\ Advance(values[d], tools) \in State
        /\ Advance(values[d], tools).plan = values[d].plan - 1
        /\ Advance(values[d], tools).past = values[d].past + 1
        /\ Advance(values[d], tools).executed = values[d].executed \cup tools
        /\ Advance(values[d], tools).answer = values[d].answer
        /\ Advance(values[d], tools).failed = values[d].failed
    BY <1>1, Advancing
  <2> QED
    BY <1>2, <2>1, <2>2
<1>4. CASE Goto(d, "replanner", Fail(Advance(values[d], {}))) /\ UNCHANGED called
  <2> DEFINE w == Advance(values[d], {})
  <2>1. /\ w \in State /\ w.plan = values[d].plan - 1 /\ w.past = values[d].past + 1
        /\ w.executed = values[d].executed \cup {} /\ w.answer = values[d].answer
    BY <1>1, Advancing
  <2>2. Goto(d, "replanner", Fail(w)) /\ called' = [called EXCEPT ![d] = @ \cup {}]
    BY <1>4 DEF GInv, TypeOK
  <2> HIDE DEF w
  <2>3. /\ Fail(w) \in State /\ Fail(w).plan = values[d].plan - 1 /\ Fail(w).past = values[d].past + 1
        /\ Fail(w).executed = values[d].executed \cup {} /\ Fail(w).answer = values[d].answer
        /\ Fail(w).failed = TRUE
    BY <2>1, Failing
  <2>4. {} \in SUBSET Tools
    OBVIOUS
  <2> QED
    BY <1>2, <2>2, <2>3, <2>4
<1> QED
  BY <1>3, <1>4 DEF Execute
-----------------------------------------------------------------------------
(* What the replanner may go on with: the state it has, but for its plan,   *)
(* a mark of failure and an answer that is justified.                       *)
LEMMA ContinuePreserves ==
  ASSUME GraphAssumption, GInv, NEW d \in Diagnoses, node[d] = "replanner",
         NEW v \in State, Continue(d, v), UNCHANGED <<unchangedByNodes, steps, called>>,
         v.past = values[d].past, v.executed = values[d].executed,
         values[d].failed => v.failed,
         v.answer \in {values[d].answer, d},
         v.answer = d => Missing(d) = {} \/ values[d].past >= MaxSteps(d),
         steps[d] + v.plan <= MaxSteps(d) + LongestPlan
  PROVE  GInv'
<1>1. PICK n \in {"executor", "replanner", "done"} : Goto(d, n, v)
  BY DEF Continue
<1> QED
  BY <1>1, ThinkingPreserves

(* The states after the list of tools has been asked for.                  *)
LEMMA GettingTools ==
  ASSUME GInv, NEW d \in Diagnoses, NEW v \in AfterGetTools(d)
  PROVE  /\ v \in State /\ v.plan = values[d].plan /\ v.past = values[d].past
         /\ v.executed = values[d].executed /\ v.answer = values[d].answer
         /\ values[d].failed => v.failed
<1>1. values[d] \in State
  BY DEF GInv, TypeOK
<1>2. CASE v = values[d]
  BY <1>1, <1>2
<1>3. CASE v = Fail(values[d])
  BY <1>1, <1>3, Failing
<1> QED
  BY <1>2, <1>3 DEF AfterGetTools

(* What the invariant says of a diagnosis at the replanner.                *)
LEMMA AtReplanner ==
  ASSUME GraphAssumption, GInv, NEW d \in Diagnoses
  PROVE  /\ values[d] \in State /\ steps[d] \in Nat /\ MaxSteps(d) \in Nat
         /\ values[d].plan \in Nat /\ values[d].past \in Nat /\ values[d].past >= steps[d]
         /\ steps[d] + values[d].plan <= MaxSteps(d) + LongestPlan
         /\ values[d].answer = d => Missing(d) = {} \/ values[d].past >= MaxSteps(d)
<1>1. values[d] \in State /\ inherited[d] \in State /\ steps[d] \in Nat /\ MaxSteps(d) \in Nat
  BY LimitIsNat DEF GInv, TypeOK
<1>2. Accumulates(d) /\ Bounds(d)
  BY DEF GInv
<1> QED
  BY <1>1, <1>2 DEF Accumulates, Bounds, State, GraphAssumption

LEMMA GenerateResponsePreserves ==
  ASSUME GraphAssumption, GInv, NEW d \in Diagnoses, node[d] = "replanner",
         NEW v \in AfterGetTools(d), GenerateResponse(d, v),
         UNCHANGED <<unchangedByNodes, steps, called>>,
         Missing(d) = {} \/ values[d].past >= MaxSteps(d)
  PROVE  GInv'
<1>1. /\ v \in State /\ v.plan = values[d].plan /\ v.past = values[d].past
      /\ v.executed = values[d].executed /\ v.answer = values[d].answer
      /\ values[d].failed => v.failed
  BY GettingTools
<1>2. steps[d] + v.plan <= MaxSteps(d) + LongestPlan
  BY <1>1, AtReplanner
<1> DEFINE w == [v EXCEPT !.answer = d]
<1>3. /\ w \in State /\ w.plan = v.plan /\ w.past = v.past /\ w.executed = v.executed
      /\ w.failed = v.failed /\ w.answer = d
  BY <1>1 DEF State
<1>4. Continue(d, w) \/ Continue(d, Fail(w)) \/ Continue(d, v)
  BY DEF GenerateResponse
<1> HIDE DEF w
<1>5. CASE Continue(d, w)
  BY <1>1, <1>2, <1>3, <1>5, ContinuePreserves
<1>6. CASE Continue(d, Fail(w))
  <2>1. /\ Fail(w) \in State /\ Fail(w).plan = v.plan /\ Fail(w).past = v.past
        /\ Fail(w).executed = v.executed /\ Fail(w).failed = TRUE /\ Fail(w).answer = d
    BY <1>3, Failing
  <2> QED
    BY <1>1, <1>2, <1>6, <2>1, ContinuePreserves
<1>7. CASE Continue(d, v)
  BY <1>1, <1>2, <1>7, ContinuePreserves
<1> QED
  BY <1>4, <1>5, <1>6, <1>7

LEMMA ReplanPreserves ==
  ASSUME GraphAssumption, GInv, NEW d \in Diagnoses, Replan(d)
  PROVE  GInv'
<1>1. node[d] = "replanner" /\ UNCHANGED <<unchangedByNodes, steps, called>>
  BY DEF Replan
<1>2. values[d] \in AfterGetTools(d)
  BY DEF AfterGetTools
<1>3. CASE ForceResponse(d)
  BY <1>1, <1>2, <1>3, GenerateResponsePreserves DEF ForceResponse
<1>4. CASE ForceTools(d)
  <2> DEFINE m == Cardinality(Missing(d))
             w == [values[d] EXCEPT !.plan = m]
  <2>1. m \in 0..LongestPlan
    BY ForcedPlanFits DEF GInv
  <2>2. Continue(d, w) /\ values[d].past < MaxSteps(d)
    BY <1>4 DEF ForceTools
  <2> HIDE DEF m
  <2>3. /\ w \in State /\ w.plan = m /\ w.past = values[d].past
        /\ w.executed = values[d].executed /\ w.failed = values[d].failed
        /\ w.answer = values[d].answer
    BY <2>1, AtReplanner DEF State
  <2>4. steps[d] + m <= MaxSteps(d) + LongestPlan
    BY <2>1, <2>2, AtReplanner DEF GraphAssumption
  <2>5. values[d].answer = d => Missing(d) = {} \/ values[d].past >= MaxSteps(d)
    BY AtReplanner
  <2> HIDE DEF w
  <2> QED
    BY <1>1, <2>2, <2>3, <2>4, <2>5, ContinuePreserves
<1>5. CASE Respond(d)
  BY <1>1, <1>5, GenerateResponsePreserves DEF Respond
<1>6. CASE KeepPlan(d)
  <2>1. PICK v \in AfterGetTools(d) : Continue(d, v)
    BY <1>6 DEF KeepPlan
  <2>2. Missing(d) = {}
    BY <1>6 DEF KeepPlan
  <2> QED
    BY <1>1, <2>1, <2>2, GettingTools, AtReplanner, ContinuePreserves
<1>7. CASE ChangePlan(d)
  <2>1. PICK v \in AfterGetTools(d), n \in 1..values[d].plan : Continue(d, [v EXCEPT !.plan = n])
    BY <1>7 DEF ChangePlan
  <2>2. Missing(d) = {}
    BY <1>7 DEF ChangePlan
  <2>3. /\ v \in State /\ v.plan = values[d].plan /\ v.past = values[d].past
        /\ v.executed = values[d].executed /\ v.answer = values[d].answer
        /\ values[d].failed => v.failed
    BY GettingTools
  <2> DEFINE w == [v EXCEPT !.plan = n]
  <2>4. /\ w \in State /\ w.plan = n /\ w.past = v.past /\ w.executed = v.executed
        /\ w.answer = v.answer /\ w.failed = v.failed
    BY <2>3, AtReplanner DEF State
  <2>5. Continue(d, w)
    BY <2>1
  <2>6. steps[d] + n <= MaxSteps(d) + LongestPlan
    BY AtReplanner DEF GraphAssumption
  <2> HIDE DEF w
  <2> QED
    BY <1>1, <2>2, <2>3, <2>4, <2>5, <2>6, ContinuePreserves
<1> QED
  BY <1>3, <1>4, <1>5, <1>6, <1>7 DEF Replan
-----------------------------------------------------------------------------
(* The steps that leave the state of every diagnosis alone.                *)
LEMMA EndPreserves ==
  ASSUME GraphAssumption, GInv, NEW d \in Diagnoses, Complete(d) \/ Abandon(d)
  PROVE  GInv'
<1>t. TypeOK
  BY DEF GInv
<1>1. /\ UNCHANGED <<checkpoint, session, required, values, inherited, steps, called, broke, overlapped>>
      /\ node[d] \in {"planner", "executor", "replanner", "done"}
  BY DEF Complete, Abandon
<1>2. \A e \in Diagnoses : /\ e # d => node'[e] = node[e] /\ report'[e] = report[e] /\ flagged'[e] = flagged[e]
                           /\ e = d => node'[e] \in {"completed", "abandoned"}
  BY <1>t DEF Complete, Abandon, TypeOK
<1>3. TypeOK'
  <2>1. session[d] \in Sessions /\ checkpoint[session[d]] \in State
    BY <1>t DEF TypeOK
  <2>2. checkpoint[session[d]].answer \in Diagnoses \cup {None} /\ checkpoint[session[d]].failed \in BOOLEAN
    BY <2>1 DEF State
  <2> QED
    BY <1>t, <1>1, <2>2 DEF TypeOK, Complete, Abandon, Nodes
<1>4. ASSUME NEW e \in Diagnoses PROVE (Accumulates(e) /\ Bounds(e) /\ Saved(e))'
  <2>1. Accumulates(e) /\ Bounds(e) /\ Saved(e)
    BY DEF GInv
  <2>2. Accumulates(e)'
    BY <1>1, <2>1 DEF Accumulates, Missing, MaxSteps
  <2>3. Bounds(e)'
    BY <1>1, <1>2, <2>1 DEF Bounds, MaxSteps
  <2>4. CASE e # d
    BY <1>1, <1>2, <2>1, <2>2, <2>3, <2>4 DEF Saved
  <2>5. CASE e = d
    <3>1. CASE Complete(d)
      <4>1. report'[d] = checkpoint[session[d]].answer /\ flagged'[d] = checkpoint[session[d]].failed
        BY <1>t, <3>1 DEF Complete, TypeOK
      <4>2. Saved(d)'
        BY <1>1, <2>1, <2>5, <4>1 DEF Saved
      <4> QED
        BY <2>2, <2>3, <2>5, <4>2
    <3>2. CASE Abandon(d)
      <4>1. node'[d] = "abandoned"
        BY <1>t, <3>2 DEF Abandon, TypeOK
      <4>2. Saved(d)'
        BY <1>1, <2>1, <2>5, <4>1 DEF Saved
      <4> QED
        BY <2>2, <2>3, <2>5, <4>2
    <3> QED
      BY <3>1, <3>2
  <2> QED
    BY <2>4, <2>5
<1> QED
  BY <1>3, <1>4 DEF GInv

(* Every step preserves it.                                                 *)
LEMMA NextPreserves == GraphAssumption /\ GInv /\ [Next]_vars => GInv'
<1> SUFFICES ASSUME GraphAssumption, GInv, [Next]_vars PROVE GInv'
  OBVIOUS
<1>1. ASSUME NEW d \in Diagnoses, NEW tools \in {{}, Required}, Begin(d, tools) PROVE GInv'
  BY <1>1, BeginPreserves
<1>2. ASSUME NEW d \in Diagnoses, Plan(d) PROVE GInv'
  BY <1>2, PlanPreserves
<1>3. ASSUME NEW d \in Diagnoses, Execute(d) PROVE GInv'
  BY <1>3, ExecutePreserves
<1>4. ASSUME NEW d \in Diagnoses, Replan(d) PROVE GInv'
  BY <1>4, ReplanPreserves
<1>5. ASSUME NEW d \in Diagnoses, Complete(d) \/ Abandon(d) PROVE GInv'
  BY <1>5, EndPreserves
<1>6. CASE UNCHANGED vars
  BY <1>6 DEF vars, GInv, TypeOK, Accumulates, Bounds, Saved, Missing, MaxSteps
<1> QED
  BY <1>1, <1>2, <1>3, <1>4, <1>5, <1>6 DEF Next, Step

(* The inductive invariant of the graph.                                    *)
THEOREM GraphInvariance == Spec => []GInv
<1>1. GraphAssumption
  BY GraphAssumption
<1>2. Init => GInv
  BY <1>1, InitGInv
<1>3. GInv /\ [Next]_vars => GInv'
  BY <1>1, NextPreserves
<1> QED
  BY <1>2, <1>3, PTL DEF Spec

(* Whatever the language model answers and however long the session is, a   *)
(* diagnosis executes at most its limit and one plan begun below it.        *)
THEOREM StepsAreBounded == Spec => []LoopBounded
<1>1. GInv => LoopBounded
  BY AtReplanner, GraphAssumption DEF LoopBounded
<1> QED
  BY <1>1, GraphInvariance, PTL

(* Every answer rests on the required tools, called by the diagnosis or     *)
(* before it in the session, or on a spent limit.                           *)
THEOREM EvidenceHasASource == Spec => []EvidenceOrInherited
<1>1. GInv => EvidenceOrInherited
  <2> SUFFICES ASSUME GInv, NEW d \in Diagnoses, values[d].answer = d
               PROVE  \/ required[d] \subseteq called[d] \cup inherited[d].executed
                      \/ steps[d] + inherited[d].past >= MaxSteps(d)
    BY DEF EvidenceOrInherited
  <2>1. Accumulates(d)
    BY DEF GInv
  <2> QED
    BY <2>1 DEF Accumulates, Missing
<1> QED
  BY <1>1, GraphInvariance, PTL

(* Alone in its session while it runs, a diagnosis completes with its own   *)
(* report, or an empty one.                                                 *)
THEOREM ReportsAreOwn == Spec => []ReportIsOwn
<1>1. GInv => ReportIsOwn
  BY DEF GInv, Saved, Accumulates, ReportIsOwn
<1> QED
  BY <1>1, GraphInvariance, PTL

(* Alone in its session while it runs, a diagnosis reports exactly its own  *)
(* failures and the one it inherited.                                       *)
THEOREM FlagsAreExplained == Spec => []FlagIsExplained
<1>1. GInv => FlagIsExplained
  BY DEF GInv, Saved, Accumulates, FlagIsExplained
<1> QED
  BY <1>1, GraphInvariance, PTL
-----------------------------------------------------------------------------
(* Where what a session has executed comes from.                            *)

(* A node of a diagnosis that has begun, or its end.                        *)
LEMMA NodeKeepsProvenance ==
  ASSUME GInv, GInv', Provenance, NEW d \in Diagnoses, Begun(d), Begun(d)',
         UNCHANGED <<session, inherited>>,
         \A e \in Diagnoses : called[e] \subseteq called'[e],
         \A e \in Diagnoses \ {d} : node'[e] = node[e],
         \/ checkpoint' = checkpoint
         \/ checkpoint' = [checkpoint EXCEPT ![session[d]] = values'[d]],
         \A e \in Diagnoses : overlapped'[e] => overlapped[e] \/ d \in Others(e)
  PROVE  Provenance'
<1>1. \A s : In(s)' = In(s)
  BY DEF In
<1>2. \A e \in Diagnoses : Begun(e)' <=> Begun(e)
  BY DEF Begun
<1>3. ASSUME NEW v \in State, NEW s, Sourced(v, s) PROVE \A t \in v.executed : \E e \in In(s) : t \in called'[e]
  BY <1>3 DEF Sourced, In
<1>4. ASSUME NEW s \in Sessions PROVE Sourced(checkpoint[s], s)'
  <2>1. checkpoint[s] \in State /\ Sourced(checkpoint[s], s)
    BY DEF GInv, TypeOK, Provenance
  <2>2. CASE checkpoint'[s] = checkpoint[s]
    BY <1>1, <1>3, <2>1, <2>2 DEF Sourced
  <2>3. CASE checkpoint'[s] # checkpoint[s]
    <3>1. s = session[d] /\ checkpoint'[s] = values'[d]
      BY <2>3 DEF GInv, TypeOK
    <3>2. values'[d].executed = called'[d] \cup inherited[d].executed
      BY DEF GInv, Accumulates
    <3>3. inherited[d] \in State /\ Sourced(inherited[d], s)
      BY <3>1 DEF GInv, TypeOK, Provenance
    <3>4. d \in In(s)
      BY <3>1 DEF In
    <3> QED
      BY <1>1, <1>3, <3>1, <3>2, <3>3, <3>4 DEF Sourced
  <2> QED
    BY <2>2, <2>3
<1>5. ASSUME NEW s \in Sessions, \A e \in In(s)' : ~Begun(e)' PROVE Clean(checkpoint[s])'
  <2>1. session[d] # s
    BY <1>1, <1>5 DEF In
  <2>2. checkpoint'[s] = checkpoint[s]
    BY <2>1 DEF GInv, TypeOK
  <2>3. \A e \in In(s) : ~Begun(e)
    BY <1>1, <1>2, <1>5 DEF In
  <2> QED
    BY <2>2, <2>3 DEF Provenance, Clean
<1>6. ASSUME NEW e \in Diagnoses PROVE Sourced(inherited[e], session[e])'
  <2>1. inherited[e] \in State /\ Sourced(inherited[e], session[e])
    BY DEF GInv, TypeOK, Provenance
  <2> QED
    BY <1>1, <1>3, <2>1 DEF Sourced
<1>7. ASSUME NEW e \in Diagnoses, \A f \in Others(e)' : ~Begun(f)'
      PROVE  Clean(inherited[e])' /\ ~overlapped'[e]
  <2>1. Others(e)' = Others(e) /\ \A f \in Others(e) : f \in Diagnoses
    BY <1>1 DEF Others, In
  <2>2. \A f \in Others(e) : ~Begun(f)
    BY <1>2, <1>7, <2>1
  <2> QED
    BY <2>2 DEF Provenance, Clean
<1> QED
  BY <1>4, <1>5, <1>6, <1>7 DEF Provenance

(* A diagnosis begins from what its session has saved.                      *)
LEMMA BeginKeepsProvenance ==
  ASSUME GInv, Provenance, NEW d \in Diagnoses, NEW tools \in {{}, Required}, Begin(d, tools)
  PROVE  Provenance'
<1> DEFINE c == checkpoint[session[d]]
<1>1. /\ ~Begun(d) /\ Begun(d)' /\ UNCHANGED <<session, called>>
      /\ \A e \in Diagnoses \ {d} : inherited'[e] = inherited[e] /\ (Begun(e)' <=> Begun(e))
      /\ inherited'[d] = Restart(c) /\ checkpoint'[session[d]] = Restart(c)
      /\ \A s \in Sessions \ {session[d]} : checkpoint'[s] = checkpoint[s]
  BY DEF Begin, Begun, GInv, TypeOK
<1>2. /\ Restart(c).executed = c.executed /\ Restart(c).past = c.past
      /\ Restart(c).failed = c.failed
  BY DEF Restart
<1>3. session[d] \in Sessions
  BY DEF GInv, TypeOK
<1> HIDE DEF c
<1>4. \A s : In(s)' = In(s)
  BY <1>1 DEF In
<1>5. Sourced(c, session[d]) /\ ((\A e \in In(session[d]) : ~Begun(e)) => Clean(c))
  BY <1>3 DEF Provenance, c
<1>6. \A t \in Restart(c).executed : \E e \in In(session[d]) : t \in called[e]
  BY <1>2, <1>5 DEF Sourced
<1>7. (\A e \in In(session[d]) : ~Begun(e)) => Clean(Restart(c))
  BY <1>2, <1>5 DEF Clean
<1>8. ASSUME NEW s \in Sessions PROVE Sourced(checkpoint[s], s)'
  <2>1. CASE s = session[d]
    BY <1>1, <1>4, <1>6, <2>1 DEF Sourced
  <2>2. CASE s # session[d]
    BY <1>1, <1>4, <2>2 DEF Provenance, Sourced
  <2> QED
    BY <2>1, <2>2
<1>9. ASSUME NEW s \in Sessions, \A e \in In(s)' : ~Begun(e)' PROVE Clean(checkpoint[s])'
  <2>1. s # session[d]
    BY <1>1, <1>4, <1>9 DEF In
  <2>2. \A e \in In(s) : e # d /\ e \in Diagnoses
    BY <2>1 DEF In
  <2>3. \A e \in In(s) : ~Begun(e)
    BY <1>1, <1>4, <1>9, <2>2
  <2> QED
    BY <1>1, <2>1, <2>3 DEF Provenance, Clean
<1>10. ASSUME NEW e \in Diagnoses PROVE Sourced(inherited[e], session[e])'
  <2>1. CASE e = d
    BY <1>1, <1>4, <1>6, <2>1 DEF Sourced
  <2>2. CASE e # d
    BY <1>1, <1>4, <2>2 DEF Provenance, Sourced
  <2> QED
    BY <2>1, <2>2
<1>11. ASSUME NEW e \in Diagnoses, \A f \in Others(e)' : ~Begun(f)'
       PROVE  Clean(inherited[e])' /\ ~overlapped'[e]
  <2>1. Others(e)' = Others(e) /\ \A f \in Others(e) : f \in Diagnoses
    BY <1>1, <1>4 DEF Others, In
  <2>2. d \notin Others(e)
    BY <1>1, <1>11, <2>1
  <2>3. \A f \in Others(e) : ~Begun(f)
    BY <1>1, <1>11, <2>1, <2>2
  <2>4. ~overlapped[e]
    BY <2>3 DEF Provenance
  <2>5. ~overlapped'[e]
    BY <2>2, <2>4 DEF Begin, Others, In
  <2>6. CASE e = d
    <3>1. \A f \in In(session[d]) : ~Begun(f)
      BY <1>1, <2>3, <2>6 DEF Others
    <3> QED
      BY <1>1, <1>7, <2>5, <2>6, <3>1 DEF Clean
  <2>7. CASE e # d
    BY <1>1, <2>3, <2>5, <2>7 DEF Provenance, Clean
  <2> QED
    BY <2>6, <2>7
<1> QED
  BY <1>8, <1>9, <1>10, <1>11 DEF Provenance

(* What a node does.                                                        *)
LEMMA NodeSteps ==
  ASSUME GInv, NEW d \in Diagnoses, Plan(d) \/ Execute(d) \/ Replan(d)
  PROVE  /\ \E n, v : Goto(d, n, v) /\ (n = "executor" => v.plan > 0)
         /\ \/ node[d] = "planner" /\ node'[d] = "executor" /\ steps' = steps
            \/ node[d] = "executor" /\ node'[d] = "replanner" /\ steps' = [steps EXCEPT ![d] = @ + 1]
            \/ node[d] = "replanner" /\ node'[d] \in {"executor", "done"} /\ steps' = steps
         /\ UNCHANGED unchangedByNodes
         /\ called' = called \/ \E c : called' = [called EXCEPT ![d] = @ \cup c]
<1>1. node \in [Diagnoses -> Nodes] /\ values[d] \in State
  BY DEF GInv, TypeOK
<1>2. \A n, v : Goto(d, n, v) => node'[d] = n
  BY <1>1 DEF Goto
<1>3. CASE Plan(d)
  <2>1. \A n : [values[d] EXCEPT !.plan = n].plan = n
    BY <1>1 DEF State
  <2>2. Fail([values[d] EXCEPT !.plan = DefaultPlan]).plan = 3
    BY <1>1 DEF State, Fail, DefaultPlan
  <2>3. \E v : Goto(d, "executor", v) /\ v.plan > 0
    <3>1. CASE Goto(d, "executor", Fail([values[d] EXCEPT !.plan = DefaultPlan]))
      BY <2>2, <3>1
    <3>2. ASSUME NEW n \in 1..LongestPlan, Goto(d, "executor", [values[d] EXCEPT !.plan = n])
          PROVE  \E v : Goto(d, "executor", v) /\ v.plan > 0
      <4>1. [values[d] EXCEPT !.plan = n].plan > 0
        BY <2>1, GraphAssumption
      <4> QED
        BY <3>2, <4>1
    <3> QED
      BY <1>3, <3>1, <3>2 DEF Plan
  <2> QED
    BY <1>2, <1>3, <2>3 DEF Plan
<1>4. CASE Execute(d)
  <2>1. \E v : Goto(d, "replanner", v)
    BY <1>4 DEF Execute
  <2> QED
    BY <1>2, <1>4, <2>1 DEF Execute
<1>5. CASE Replan(d)
  <2>1. \E v : Continue(d, v)
    BY <1>5 DEF Replan, ForceResponse, ForceTools, Respond, KeepPlan, ChangePlan, GenerateResponse
  <2>2. \E n \in {"executor", "done"} : \E v : Goto(d, n, v) /\ (n = "executor" => v.plan > 0)
    BY <2>1 DEF Continue
  <2> QED
    BY <1>2, <1>5, <2>2 DEF Replan
<1> QED
  BY <1>3, <1>4, <1>5

LEMMA NextProvenance == GInv /\ GInv' /\ Provenance /\ [Next]_vars => Provenance'
<1> SUFFICES ASSUME GInv, GInv', Provenance, [Next]_vars PROVE Provenance'
  OBVIOUS
<1>1. ASSUME NEW d \in Diagnoses, Plan(d) \/ Execute(d) \/ Replan(d) PROVE Provenance'
  <2>1. PICK n, v : Goto(d, n, v)
    BY <1>1, NodeSteps
  <2>2. /\ Begun(d) /\ Begun(d)' /\ UNCHANGED <<session, inherited>>
        /\ \A e \in Diagnoses : called[e] \subseteq called'[e]
    BY <1>1, NodeSteps DEF Begun, unchangedByNodes, GInv, TypeOK
  <2>3. /\ values'[d] = v /\ checkpoint' = [checkpoint EXCEPT ![session[d]] = v]
        /\ \A e \in Diagnoses \ {d} : node'[e] = node[e]
        /\ \A e \in Diagnoses : overlapped'[e] => overlapped[e] \/ (e # d /\ session[e] = session[d])
    BY <2>1 DEF Goto, GInv, TypeOK
  <2>4. \A e \in Diagnoses : e # d /\ session[e] = session[d] => d \in Others(e)
    BY DEF Others, In
  <2> QED
    BY <2>2, <2>3, <2>4, NodeKeepsProvenance
<1>2. ASSUME NEW d \in Diagnoses, Complete(d) \/ Abandon(d) PROVE Provenance'
  <2>1. /\ Begun(d) /\ Begun(d)' /\ \A e \in Diagnoses \ {d} : node'[e] = node[e]
        /\ UNCHANGED <<session, inherited, called, checkpoint, overlapped>>
    BY <1>2 DEF Complete, Abandon, Begun, GInv, TypeOK
  <2> QED
    BY <2>1, NodeKeepsProvenance
<1>3. CASE UNCHANGED vars
  BY <1>3 DEF vars, Provenance, Sourced, Clean, In, Others, Begun
<1> QED
  BY <1>1, <1>2, <1>3, BeginKeepsProvenance DEF Next, Step

LEMMA ProvenanceInvariance == Spec => []Provenance
<1>1. Init => Provenance
  BY DEF Init, Provenance, Sourced, Clean, Fresh
<1> QED
  BY <1>1, NextProvenance, GraphInvariance, PTL DEF Spec

(* What the guard counts as called was called in the session, so only another *)
(* diagnosis of the session can stand in for a tool that was not called, use  *)
(* up the limit, or leave a mark of failure: this is the one cause of         *)
(* DG_reuse.                                                                  *)
THEOREM OnlySharedSessionsMislead == Spec => []OnlySessionsShare
<1>1. GInv /\ Provenance => OnlySessionsShare
  <2> SUFFICES ASSUME GInv, Provenance, NEW d \in Diagnoses
               PROVE  /\ values[d].answer = d =>
                           \/ \A t \in required[d] : \E e \in In(session[d]) : t \in called[e]
                           \/ steps[d] + inherited[d].past >= MaxSteps(d)
                      /\ (\A e \in Others(d) : ~Begun(e)) =>
                           /\ values[d].answer = d =>
                                required[d] \subseteq called[d] \/ steps[d] >= MaxSteps(d)
                           /\ node[d] = "completed" => (flagged[d] <=> broke[d])
    BY DEF OnlySessionsShare
  <2>1. Accumulates(d) /\ Saved(d) /\ steps[d] \in Nat
    BY DEF GInv, TypeOK
  <2>2. values[d].answer = d =>
          required[d] \subseteq called[d] \cup inherited[d].executed
          \/ steps[d] + inherited[d].past >= MaxSteps(d)
    BY <2>1 DEF Accumulates, Missing
  <2>3. \A t \in called[d] \cup inherited[d].executed : \E e \in In(session[d]) : t \in called[e]
    <3>1. d \in In(session[d])
      BY DEF In
    <3> QED
      BY <3>1 DEF Provenance, Sourced
  <2>4. (\A e \in Others(d) : ~Begun(e)) => Clean(inherited[d]) /\ ~overlapped[d]
    BY DEF Provenance
  <2>5. ASSUME Clean(inherited[d]), ~overlapped[d]
        PROVE  /\ values[d].answer = d => required[d] \subseteq called[d] \/ steps[d] >= MaxSteps(d)
               /\ node[d] = "completed" => (flagged[d] <=> broke[d])
    BY <2>1, <2>2, <2>5 DEF Clean, Accumulates, Saved
  <2> QED
    BY <2>2, <2>3, <2>4, <2>5
<1> QED
  BY <1>1, GraphInvariance, ProvenanceInvariance, PTL
-----------------------------------------------------------------------------
(* Why a diagnosis ends.                                                    *)
LEMMA NextHasAStep == GInv /\ ExecutorHasAStep /\ [Next]_vars => ExecutorHasAStep'
<1> SUFFICES ASSUME GInv, ExecutorHasAStep, [Next]_vars PROVE ExecutorHasAStep'
  OBVIOUS
<1> USE DEF GInv, TypeOK
<1>1. ASSUME NEW d \in Diagnoses, Plan(d) \/ Execute(d) \/ Replan(d) PROVE ExecutorHasAStep'
  <2>1. PICK n, v : Goto(d, n, v) /\ (n = "executor" => v.plan > 0)
    BY <1>1, NodeSteps
  <2> QED
    BY <2>1 DEF Goto, ExecutorHasAStep
<1>2. ASSUME NEW d \in Diagnoses, \/ Complete(d) \/ Abandon(d)
                                  \/ \E tools \in {{}, Required} : Begin(d, tools)
      PROVE  ExecutorHasAStep'
  BY <1>2 DEF Complete, Abandon, Begin, ExecutorHasAStep
<1>3. CASE UNCHANGED vars
  BY <1>3 DEF vars, ExecutorHasAStep
<1> QED
  BY <1>1, <1>2, <1>3 DEF Next, Step

(* executor never finds the plan empty: should_continue, the planner and the  *)
(* forced tools only ever send it a plan with a step.                         *)
THEOREM PlansAreNeverEmpty == Spec => []ExecutorHasAStep
<1>1. Init => ExecutorHasAStep
  BY DEF Init, ExecutorHasAStep
<1> QED
  BY <1>1, NextHasAStep, GraphInvariance, PTL DEF Spec

LEMMA NextAdvances ==
  ASSUME GraphAssumption, GInv, GInv', [Next]_vars PROVE OnlyAdvances
<1>1. ASSUME NEW d \in Diagnoses, NEW e \in Diagnoses \ {d},
             Step(d) \/ Abandon(d) \/ \E tools \in {{}, Required} : Begin(d, tools)
      PROVE  UNCHANGED <<node[e], values[e], steps[e], required[e]>>
  <2>1. CASE Plan(d) \/ Execute(d) \/ Replan(d)
    <3>1. PICK n, v : Goto(d, n, v)
      BY <2>1, NodeSteps
    <3> QED
      BY <2>1, <3>1, NodeSteps DEF Goto, unchangedByNodes, GInv, TypeOK
  <2>2. CASE Complete(d) \/ Abandon(d) \/ \E tools \in {{}, Required} : Begin(d, tools)
    BY <2>2 DEF Complete, Abandon, Begin, GInv, TypeOK
  <2> QED
    BY <1>1, <2>1, <2>2 DEF Step
<1>2. ASSUME NEW d \in Diagnoses, Plan(d) \/ Execute(d) \/ Replan(d)
      PROVE  Left(d)' < Left(d) /\ Left(d)' >= 0
  <2>1. required' = required
    BY <1>2, NodeSteps DEF unchangedByNodes
  <2>2. MaxSteps(d)' = MaxSteps(d) /\ MaxSteps(d) \in Nat /\ steps[d] \in Nat /\ steps'[d] \in Nat
        /\ LongestPlan \in Nat
    BY <2>1, LimitIsNat DEF MaxSteps, GInv, TypeOK, GraphAssumption
  <2>3. steps'[d] <= MaxSteps(d) + LongestPlan
    <3>1. steps'[d] + values'[d].plan <= MaxSteps(d)' + LongestPlan /\ values'[d].plan \in Nat
      BY DEF GInv, TypeOK, Bounds, State, GraphAssumption
    <3> QED
      BY <2>2, <3>1
  <2>4. \/ Rank[node[d]] = 4 /\ Rank[node'[d]] = 1 /\ steps'[d] = steps[d]
        \/ Rank[node[d]] = 1 /\ Rank[node'[d]] = 3 /\ steps'[d] = steps[d] + 1
        \/ Rank[node[d]] = 3 /\ Rank[node'[d]] \in {0, 1} /\ steps'[d] = steps[d]
    BY <1>2, NodeSteps DEF Rank, GInv, TypeOK
  <2>5. Left(d) = 3 * (MaxSteps(d) + LongestPlan - steps[d]) + Rank[node[d]]
    BY DEF Left
  <2>6. Left(d)' = 3 * (MaxSteps(d) + LongestPlan - steps'[d]) + Rank[node'[d]]
    BY <2>2 DEF Left
  <2>7. Left(d)' < Left(d)
    BY <2>2, <2>4, <2>5, <2>6
  <2>8. Left(d)' >= 0
    BY <2>2, <2>3, <2>4, <2>6
  <2> QED
    BY <2>7, <2>8
<1>3. ASSUME NEW d \in Diagnoses, Complete(d) \/ Abandon(d) PROVE ~Runs(d)'
  BY <1>3 DEF Complete, Abandon, Runs, GInv, TypeOK
<1>4. ASSUME NEW d \in Diagnoses, \E tools \in {{}, Required} : Begin(d, tools) PROVE ~Runs(d)
  BY <1>4 DEF Begin, Runs
<1>5. CASE UNCHANGED vars
  BY <1>5 DEF vars, OnlyAdvances
<1>6. ASSUME NEW d \in Diagnoses,
             Step(d) \/ Abandon(d) \/ \E tools \in {{}, Required} : Begin(d, tools)
      PROVE  OnlyAdvances
  <2>1. \A e \in Diagnoses \ {d} : UNCHANGED <<node[e], values[e], steps[e], required[e]>>
    BY <1>1, <1>6
  <2>2. Runs(d) => ~Runs(d)' \/ (Left(d)' < Left(d) /\ Left(d)' >= 0)
    BY <1>2, <1>3, <1>4, <1>6 DEF Step
  <2> QED
    BY <2>1, <2>2 DEF OnlyAdvances
<1> QED
  BY <1>5, <1>6 DEF Next

(* Every node of a diagnosis leaves it less to do, down to nothing, whatever  *)
(* the language model answers and whatever other diagnoses save in the        *)
(* session: forced tools, changed plans and empty reports do not keep it      *)
(* going.                                                                     *)
THEOREM DiagnosesOnlyAdvance == Spec => DiagnosesAdvance
<1>1. GInv /\ GInv' /\ [Next]_vars => [OnlyAdvances]_vars
  BY NextAdvances, GraphAssumption
<1> QED
  BY <1>1, GraphInvariance, PTL DEF Spec, DiagnosesAdvance
=============================================================================
