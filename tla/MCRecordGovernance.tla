------------------------- MODULE MCRecordGovernance -------------------------
(* Instances of RecordGovernance for TLC. *)
EXTENDS RecordGovernance, TLC

\* Requests, records and accounts are interchangeable.
Symmetry == Permutations(Requests) \cup Permutations(Records) \cup Permutations(Users)

=============================================================================
