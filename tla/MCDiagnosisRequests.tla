------------------------ MODULE MCDiagnosisRequests -------------------------
(* Finite instances of DiagnosisRequests. *)
EXTENDS DiagnosisRequests, TLC

Harmless == [high |-> FALSE, explicit |-> FALSE, signal |-> FALSE, refusable |-> FALSE]

(* Harmless or refused outright; risky by level without asking for         *)
(* approval, by request, or by a signal, and refused besides.              *)
MCGoals == {Harmless, [Harmless EXCEPT !.refusable = TRUE],
            [Harmless EXCEPT !.high = TRUE], [Harmless EXCEPT !.explicit = TRUE],
            [Harmless EXCEPT !.signal = TRUE, !.refusable = TRUE]}
MCSymmetry == Permutations(Requests) \cup Permutations(Tasks) \cup Permutations(Reviews)
=============================================================================
