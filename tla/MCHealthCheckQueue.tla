------------------------- MODULE MCHealthCheckQueue -------------------------
(* Finite instances of HealthCheckQueue. *)
EXTENDS HealthCheckQueue, TLC

(* Threads are interchangeable, and so are the documents nobody flags. *)
Symmetry == Permutations(Docs \ Flaggable) \cup Permutations(Threads)
=============================================================================
