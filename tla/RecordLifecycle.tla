--------------------------- MODULE RecordLifecycle ---------------------------
(***************************************************************************)
(* What the approval workflow and soft deletion promise for each record,   *)
(* as if every request were a single step: a visible record moves along    *)
(* the workflow, deletion hides it at its status, and an approved record   *)
(* is never anything else again.                                           *)
(***************************************************************************)
CONSTANT Records

VARIABLES status, hidden

lifecycleVars == <<status, hidden>>

Move(r, from, to) ==
    /\ ~hidden[r]
    /\ status[r] \in from
    /\ status' = [status EXCEPT ![r] = to]
    /\ UNCHANGED hidden

Submit(r)  == Move(r, {"DRAFT", "SUSPICIOUS", "VALIDATED", "REJECTED"}, "SUBMITTED")
Approve(r) == Move(r, {"SUBMITTED"}, "APPROVED")
Reject(r)  == Move(r, {"SUBMITTED"}, "REJECTED")
Hide(r)    == ~hidden[r] /\ hidden' = [hidden EXCEPT ![r] = TRUE] /\ UNCHANGED status
Restore(r) == hidden[r] /\ hidden' = [hidden EXCEPT ![r] = FALSE] /\ UNCHANGED status

RInit ==
    /\ status \in [Records -> {"DRAFT", "SUSPICIOUS", "FAILED"}]
    /\ hidden = [r \in Records |-> FALSE]

RNext == \E r \in Records :
    Submit(r) \/ Approve(r) \/ Reject(r) \/ Hide(r) \/ Restore(r)

RSpec == RInit /\ [][RNext]_lifecycleVars
=============================================================================
