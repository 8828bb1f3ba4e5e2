--------------------------- MODULE DiagnosisGraph ---------------------------
(***************************************************************************)
(* The plan-execute-replan graph of an AIOps diagnosis (app/services/      *)
(* aiops_service.py and app/agent/aiops/: planner, executor, replanner).   *)
(*                                                                         *)
(* A diagnosis runs in the session its request names, by default the one   *)
(* "default" session of its user.  It begins from the last state that was  *)
(* checkpointed in the session, whichever diagnosis left it there, and     *)
(* nothing keeps two diagnoses from running in a session at once: each     *)
(* goes on with its own copy of the state and checkpoints it after every   *)
(* node.                                                                   *)
(*                                                                         *)
(* A plan is a number of steps: what the model does in a step is up to the *)
(* language model, which may call any tools whatever the step asks for.    *)
(***************************************************************************)
EXTENDS Integers, FiniteSets

CONSTANTS
  Diagnoses, Sessions, Tools,
  Required,      \* the tools a recognised scenario requires
  StepLimit,     \* 8: executed steps that force a report
  ReplanLimit,   \* 5: executed steps from which a changed plan is refused
  LongestPlan,   \* bound: the longest plan a language model writes
  None

DefaultPlan == 3   \* steps of the plan used when planning fails

ASSUME GraphAssumption ==
  /\ IsFiniteSet(Required) /\ Required \subseteq Tools
  /\ StepLimit \in Nat /\ ReplanLimit \in Nat
  /\ LongestPlan \in Nat /\ LongestPlan >= DefaultPlan
  /\ Cardinality(Required) <= LongestPlan
  /\ None \notin Diagnoses

(* PlanExecuteState; past_steps and aiops_executed_tools only accumulate,   *)
(* and answer is the diagnosis whose response the state holds.              *)
State == [plan : 0..LongestPlan, past : Nat, executed : SUBSET Tools,
          answer : Diagnoses \cup {None}, failed : BOOLEAN]

Fresh == [plan |-> 0, past |-> 0, executed |-> {}, answer |-> None, failed |-> FALSE]

Nodes == {"waiting", "planner", "executor", "replanner", "done", "completed", "abandoned"}

VARIABLES
  checkpoint,   \* the state saved last in each session (MemorySaver)
  node,         \* the node each diagnosis is at
  session, required, values,   \* its session, required tools and state
  report, flagged,             \* what its complete event says: response, infra_error
  \* history variables, read by no action
  inherited,    \* the state it began from
  steps,        \* the steps it has executed itself
  called,       \* the tools it has called itself, in steps that did not fail
  broke,        \* has one of its nodes set the mark of failure?
  overlapped    \* has another diagnosis saved a state in its session since it began?

vars == <<checkpoint, node, session, required, values, report, flagged,
          inherited, steps, called, broke, overlapped>>

TypeOK ==
  /\ checkpoint \in [Sessions -> State]
  /\ node \in [Diagnoses -> Nodes]
  /\ session \in [Diagnoses -> Sessions]
  /\ required \in [Diagnoses -> {{}, Required}]
  /\ values \in [Diagnoses -> State]
  /\ report \in [Diagnoses -> Diagnoses \cup {None}]
  /\ flagged \in [Diagnoses -> BOOLEAN]
  /\ inherited \in [Diagnoses -> State]
  /\ steps \in [Diagnoses -> Nat]
  /\ called \in [Diagnoses -> SUBSET Tools]
  /\ broke \in [Diagnoses -> BOOLEAN]
  /\ overlapped \in [Diagnoses -> BOOLEAN]

Init ==
  /\ checkpoint = [s \in Sessions |-> Fresh]
  /\ node = [d \in Diagnoses |-> "waiting"]
  /\ session \in [Diagnoses -> Sessions]
  /\ required = [d \in Diagnoses |-> {}]
  /\ values = [d \in Diagnoses |-> Fresh]
  /\ report = [d \in Diagnoses |-> None]
  /\ flagged = [d \in Diagnoses |-> FALSE]
  /\ inherited = [d \in Diagnoses |-> Fresh]
  /\ steps = [d \in Diagnoses |-> 0]
  /\ called = [d \in Diagnoses |-> {}]
  /\ broke = [d \in Diagnoses |-> FALSE]
  /\ overlapped = [d \in Diagnoses |-> FALSE]
-----------------------------------------------------------------------------
(* The diagnosis d goes on to node n with the state v, which is saved.     *)
Goto(d, n, v) ==
  /\ node' = [node EXCEPT ![d] = n]
  /\ values' = [values EXCEPT ![d] = v]
  /\ checkpoint' = [checkpoint EXCEPT ![session[d]] = v]
  /\ broke' = [broke EXCEPT ![d] = @ \/ (v.failed /\ ~values[d].failed)]
  /\ overlapped' = [e \in Diagnoses |->
       overlapped[e] \/ (e # d /\ session[e] = session[d] /\ node[e] # "waiting")]

(* A node that fails goes on, and marks the state.                         *)
Fail(v) == [v EXCEPT !.failed = TRUE]

(* Mutant of Restart: the response of the last diagnosis is kept.          *)
RestartKeepingAnswer(v) == [v EXCEPT !.plan = 0]

(* The fields of a new request over the state left in the session: what the *)
(* lists have accumulated stays, and so does a mark of failure.             *)
Restart(v) ==
  [plan |-> 0, past |-> v.past, executed |-> v.executed, answer |-> None, failed |-> v.failed]

(* execute: a diagnosis begins from the state of its session.  One that     *)
(* diagnose refuses, its tools being invalid, never begins.                 *)
Begin(d, tools) ==
  LET v == Restart(checkpoint[session[d]]) IN
  /\ node[d] = "waiting"
  /\ node' = [node EXCEPT ![d] = "planner"]
  /\ required' = [required EXCEPT ![d] = tools]
  /\ values' = [values EXCEPT ![d] = v]
  /\ inherited' = [inherited EXCEPT ![d] = v]
  /\ checkpoint' = [checkpoint EXCEPT ![session[d]] = v]
  /\ overlapped' = [e \in Diagnoses |->
       overlapped[e] \/ (e # d /\ session[e] = session[d] /\ node[e] # "waiting")]
  /\ UNCHANGED <<session, report, flagged, steps, called, broke>>

unchangedByNodes == <<session, required, report, flagged, inherited>>

(* planner: a plan with at least one step, or the default one.             *)
Plan(d) ==
  /\ node[d] = "planner"
  /\ \/ \E n \in 1..LongestPlan : Goto(d, "executor", [values[d] EXCEPT !.plan = n])
     \/ Goto(d, "executor", Fail([values[d] EXCEPT !.plan = DefaultPlan]))
  /\ UNCHANGED <<unchangedByNodes, steps, called>>

(* The first step of the plan is done, having called the tools.            *)
Advance(v, tools) ==
  [plan |-> v.plan - 1, past |-> v.past + 1, executed |-> v.executed \cup tools,
   answer |-> v.answer, failed |-> v.failed]

(* Mutant of Execute: a step that succeeds clears the mark of failure.     *)
ExecuteClearing(d) ==
  /\ node[d] = "executor" /\ values[d].plan > 0
  /\ \/ \E tools \in SUBSET Tools :
          /\ Goto(d, "replanner", [Advance(values[d], tools) EXCEPT !.failed = FALSE])
          /\ called' = [called EXCEPT ![d] = @ \cup tools]
     \/ Goto(d, "replanner", Fail(Advance(values[d], {}))) /\ UNCHANGED called
  /\ steps' = [steps EXCEPT ![d] = @ + 1]
  /\ UNCHANGED unchangedByNodes

(* executor: a step with the tools the language model calls, or one that    *)
(* fails.  (It never finds the plan empty.)                                 *)
Execute(d) ==
  /\ node[d] = "executor" /\ values[d].plan > 0
  /\ \/ \E tools \in SUBSET Tools :
          /\ Goto(d, "replanner", Advance(values[d], tools))
          /\ called' = [called EXCEPT ![d] = @ \cup tools]
     \/ Goto(d, "replanner", Fail(Advance(values[d], {}))) /\ UNCHANGED called
  /\ steps' = [steps EXCEPT ![d] = @ + 1]
  /\ UNCHANGED unchangedByNodes
-----------------------------------------------------------------------------
MaxSteps(d) ==
  IF Cardinality(required[d]) + 2 > StepLimit THEN Cardinality(required[d]) + 2 ELSE StepLimit

(* Mutant of Missing: one required tool is enough.                         *)
MissingUnlessSome(d) == IF values[d].executed = {} THEN required[d] ELSE {}

Missing(d) == required[d] \ values[d].executed

(* should_continue                                                         *)
Continue(d, v) ==
  Goto(d, IF v.answer = None /\ v.plan > 0 THEN "executor" ELSE "done", v)

(* _generate_response: a report, the simple one because the language model  *)
(* failed, or an empty one.                                                 *)
GenerateResponse(d, v) ==
  \/ Continue(d, [v EXCEPT !.answer = d])
  \/ Continue(d, Fail([v EXCEPT !.answer = d]))
  \/ Continue(d, v)

(* The state after the list of tools has been asked for, which may fail.   *)
AfterGetTools(d) == {values[d], Fail(values[d])}

ForceResponse(d) ==
  /\ values[d].past >= MaxSteps(d)
  /\ GenerateResponse(d, values[d])

(* Mutant of ForceTools: the tools come before the limit.                  *)
ForceToolsFirst(d) ==
  /\ Missing(d) # {}
  /\ Continue(d, [values[d] EXCEPT !.plan = Cardinality(Missing(d))])

ForceTools(d) ==
  /\ values[d].past < MaxSteps(d)
  /\ Missing(d) # {}
  /\ Continue(d, [values[d] EXCEPT !.plan = Cardinality(Missing(d))])

(* With nothing left to decide, or told to, it responds.                   *)
Respond(d) ==
  /\ values[d].past < MaxSteps(d) /\ Missing(d) = {}
  /\ \E v \in AfterGetTools(d) : GenerateResponse(d, v)

(* continue; also when the decision cannot be had, or names no new steps.  *)
KeepPlan(d) ==
  /\ values[d].past < MaxSteps(d) /\ Missing(d) = {}
  /\ values[d].plan > 0
  /\ \E v \in AfterGetTools(d) : Continue(d, v)

(* Mutant of ChangePlan: the new steps are added to those that are left.   *)
ChangePlanAdding(d) ==
  /\ values[d].past < MaxSteps(d) /\ Missing(d) = {}
  /\ values[d].plan > 0 /\ values[d].past < ReplanLimit
  /\ \E v \in AfterGetTools(d), n \in 1..values[d].plan : Continue(d, [v EXCEPT !.plan = @ + n])

(* replan: at most as many steps as are left.                              *)
ChangePlan(d) ==
  /\ values[d].past < MaxSteps(d) /\ Missing(d) = {}
  /\ values[d].plan > 0 /\ values[d].past < ReplanLimit
  /\ \E v \in AfterGetTools(d), n \in 1..values[d].plan : Continue(d, [v EXCEPT !.plan = n])

Replan(d) ==
  /\ node[d] = "replanner"
  /\ \/ ForceResponse(d) \/ ForceTools(d) \/ Respond(d)
     \/ KeepPlan(d) \/ ChangePlan(d)
  /\ UNCHANGED <<unchangedByNodes, steps, called>>
-----------------------------------------------------------------------------
(* The stream has ended; the complete event is made from the state saved    *)
(* last in the session.                                                     *)
Complete(d) ==
  /\ node[d] = "done"
  /\ node' = [node EXCEPT ![d] = "completed"]
  /\ report' = [report EXCEPT ![d] = checkpoint[session[d]].answer]
  /\ flagged' = [flagged EXCEPT ![d] = checkpoint[session[d]].failed]
  /\ UNCHANGED <<checkpoint, session, required, values, inherited, steps, called, broke, overlapped>>

(* The diagnosis ends without a report, and what its running node has done  *)
(* is lost: the node raises, which execute answers with an error event, or  *)
(* the client disconnects and the stream is cancelled.                      *)
Abandon(d) ==
  /\ node[d] \in {"planner", "executor", "replanner", "done"}
  /\ node' = [node EXCEPT ![d] = "abandoned"]
  /\ UNCHANGED <<checkpoint, session, required, values, report, flagged,
                 inherited, steps, called, broke, overlapped>>
-----------------------------------------------------------------------------
Step(d) == Plan(d) \/ Execute(d) \/ Replan(d) \/ Complete(d)

Next ==
  \E d \in Diagnoses :
    \/ \E tools \in {{}, Required} : Begin(d, tools)
    \/ Step(d)
    \/ Abandon(d)

Spec == Init /\ [][Next]_vars
-----------------------------------------------------------------------------
(* A diagnosis answers only after it has called every tool its scenario     *)
(* requires: the guard of executor and replanner as state.py describes it.  *)
(* (Unless the limit on the steps of a diagnosis forces the report.)        *)
EvidenceBeforeAnswer ==
  \A d \in Diagnoses : values[d].answer = d =>
    required[d] \subseteq called[d] \/ steps[d] >= MaxSteps(d)

(* What the guard does ensure: the tools were called by it or by diagnoses  *)
(* before it in the session, and the steps of those count for the limit.    *)
EvidenceOrInherited ==
  \A d \in Diagnoses : values[d].answer = d =>
    \/ required[d] \subseteq called[d] \cup inherited[d].executed
    \/ steps[d] + inherited[d].past >= MaxSteps(d)

(* A complete event never carries the report of an earlier diagnosis of the *)
(* session, as long as no other one runs in the session at the same time.   *)
ReportIsOwn ==
  \A d \in Diagnoses : node[d] = "completed" /\ ~overlapped[d] => report[d] \in {d, None}

(* A complete event tells of a failure that a node went on from, whatever   *)
(* succeeded after it; what else it tells of comes from the session.        *)
FlagIsExplained ==
  \A d \in Diagnoses : node[d] = "completed" /\ ~overlapped[d] =>
    (flagged[d] <=> broke[d] \/ inherited[d].failed)

(* However the language model answers, a diagnosis executes no more steps   *)
(* than the limit and one plan begun below it: forced tools, changed plans  *)
(* and empty reports do not keep it going.                                  *)
LoopBounded ==
  \A d \in Diagnoses : steps[d] <= MaxSteps(d) + LongestPlan

(* The strengthening of the above: the state of a diagnosis is what it      *)
(* inherited and what it did itself, what it has executed and still plans   *)
(* stays within the bound, and what is saved in its session is its state    *)
(* until another diagnosis saves one.                                       *)
Accumulates(d) ==
  /\ values[d].past = steps[d] + inherited[d].past
  /\ values[d].executed = called[d] \cup inherited[d].executed
  /\ values[d].failed <=> broke[d] \/ inherited[d].failed
  /\ values[d].answer \in {d, None}
  /\ values[d].answer = d => Missing(d) = {} \/ values[d].past >= MaxSteps(d)

Bounds(d) ==
  /\ steps[d] + values[d].plan <= MaxSteps(d) + LongestPlan
  /\ node[d] \in {"waiting", "planner"} => steps[d] = 0 /\ values[d].answer = None
  /\ node[d] = "waiting" => called[d] = {} /\ ~broke[d]

Saved(d) ==
  ~overlapped[d] =>
    /\ node[d] # "waiting" => checkpoint[session[d]] = values[d]
    /\ node[d] = "completed" => report[d] = values[d].answer /\ flagged[d] = values[d].failed

GInv == TypeOK /\ \A d \in Diagnoses : Accumulates(d) /\ Bounds(d) /\ Saved(d)

(* Where what is inherited comes from: what a session has saved was called  *)
(* by its diagnoses, and is nothing until the first of them begins.         *)
Begun(d) == node[d] # "waiting"
In(s) == {d \in Diagnoses : session[d] = s}
Others(d) == In(session[d]) \ {d}

Sourced(v, s) == \A t \in v.executed : \E e \in In(s) : t \in called[e]
Clean(v) == v.past = 0 /\ v.executed = {} /\ ~v.failed

Provenance ==
  /\ \A s \in Sessions :
       /\ Sourced(checkpoint[s], s)
       /\ (\A e \in In(s) : ~Begun(e)) => Clean(checkpoint[s])
  /\ \A d \in Diagnoses :
       /\ Sourced(inherited[d], session[d])
       /\ (\A e \in Others(d) : ~Begun(e)) => Clean(inherited[d]) /\ ~overlapped[d]

(* EvidenceBeforeAnswer breaks only by way of the other diagnoses of the    *)
(* session: what the guard counts was called in the session, and where no   *)
(* other one has begun, the guard and the event say what they should.       *)
OnlySessionsShare ==
  \A d \in Diagnoses :
    /\ values[d].answer = d =>
         \/ \A t \in required[d] : \E e \in In(session[d]) : t \in called[e]
         \/ steps[d] + inherited[d].past >= MaxSteps(d)
    /\ (\A e \in Others(d) : ~Begun(e)) =>
         /\ values[d].answer = d => required[d] \subseteq called[d] \/ steps[d] >= MaxSteps(d)
         /\ node[d] = "completed" => (flagged[d] <=> broke[d])

(* Why a diagnosis ends.  executor never finds the plan empty (for which    *)
(* its code has a branch), and every node leaves less to do.                *)
ExecutorHasAStep == \A d \in Diagnoses : node[d] = "executor" => values[d].plan > 0

Rank == [planner |-> 4, executor |-> 1, replanner |-> 3, done |-> 0]
Left(d) == 3 * (MaxSteps(d) + LongestPlan - steps[d]) + Rank[node[d]]
Runs(d) == node[d] \in {"planner", "executor", "replanner", "done"}

OnlyAdvances ==
  \A d \in Diagnoses : Runs(d) =>
    \/ ~Runs(d)' \/ (Left(d)' < Left(d) /\ Left(d)' >= 0)
    \/ UNCHANGED <<node[d], values[d], steps[d], required[d]>>

DiagnosesAdvance == [][OnlyAdvances]_vars
=============================================================================
