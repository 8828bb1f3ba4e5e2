--------------------------- MODULE MCMemoryRecords ---------------------------
(* Finite instances of MemoryRecords. *)
EXTENDS MemoryRecords, TLC

CONSTANTS p, q, s, t, a, server, cli

(* p and q contradict each other, s and t are summaries that say the same,  *)
(* and a is an atom.                                                        *)
MCClash == (p :> {q} @@ q :> {p} @@ s :> {} @@ t :> {} @@ a :> {})
MCSame == (p :> {p} @@ q :> {q} @@ s :> {s, t} @@ t :> {s, t} @@ a :> {a})
Symmetry == Permutations({server, cli}) \cup Permutations({p, q}) \cup Permutations({s, t})
=============================================================================
