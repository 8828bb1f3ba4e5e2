-------------------------- MODULE MCDiagnosisGraph --------------------------
(* Finite instances of DiagnosisGraph. *)
EXTENDS DiagnosisGraph, TLC

CONSTANTS log, metric

MCRequired == {log, metric}
MCSymmetry == Permutations(Diagnoses) \cup Permutations(Tools)
=============================================================================
