--------------------------- MODULE MCBatchPipeline --------------------------
(* Instances of BatchPipeline for TLC. *)
EXTENDS BatchPipeline, TLC

\* Worker slots are interchangeable.
Symmetry == Permutations(Workers)
=============================================================================
