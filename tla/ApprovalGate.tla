---------------------------- MODULE ApprovalGate ----------------------------
(***************************************************************************)
(* What human review promises about a task: it is run without a decision   *)
(* only if it was admitted as free of risk, and then once; any other run   *)
(* starts while the latest decision on it is an approval.                  *)
(***************************************************************************)
EXTENDS Naturals

CONSTANT Tasks

VARIABLES verdict, runs

Init ==
  /\ verdict = [t \in Tasks |-> "none"]
  /\ runs = [t \in Tasks |-> 0]

(* A task without risk is admitted, and run unless the system fails.       *)
Admit(t) ==
  /\ verdict[t] = "none"
  /\ verdict' = [verdict EXCEPT ![t] = "free"]
  /\ runs' = [runs EXCEPT ![t] = @ + 1] \/ runs' = runs

(* Any other task is refused for good, or waits for a decision.            *)
Hold(t) ==
  /\ verdict[t] = "none"
  /\ \E v \in {"blocked", "waiting"} : verdict' = [verdict EXCEPT ![t] = v]
  /\ UNCHANGED runs

(* Decisions may be revised.                                               *)
Decide(t) ==
  /\ verdict[t] \in {"waiting", "granted", "refused"}
  /\ \E v \in {"granted", "refused"} : verdict' = [verdict EXCEPT ![t] = v]
  /\ UNCHANGED runs

Start(t) ==
  /\ verdict[t] = "granted"
  /\ runs' = [runs EXCEPT ![t] = @ + 1]
  /\ UNCHANGED verdict

Next == \E t \in Tasks : Admit(t) \/ Hold(t) \/ Decide(t) \/ Start(t)

Spec == Init /\ [][Next]_<<verdict, runs>>
=============================================================================
