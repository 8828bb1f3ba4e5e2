-------------------------- MODULE MCDocumentPipeline --------------------------
(* Finite instances of DocumentPipeline. *)
EXTENDS DocumentPipeline

CONSTANTS p1, m1, m2

NoDirectory == <<>>
OneFile == <<p1>>
=============================================================================
