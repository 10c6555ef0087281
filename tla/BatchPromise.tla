---------------------------- MODULE BatchPromise ----------------------------
(***************************************************************************)
(* What the upload pipeline promises of one batch, however often its tasks *)
(* are retried, redelivered, swept or replayed: the rows of the file are   *)
(* stored at once and once, each gets one calculation, and no mail claims  *)
(* more than what is stored.                                               *)
(***************************************************************************)
EXTENDS Naturals

VARIABLES
    stored,      \* how often the rows of the file are in the database
    calculated,  \* how many current calculations each has
    told         \* the outcomes mailed to the uploader

promiseVars == <<stored, calculated, told>>

Store ==
    /\ stored = 0 /\ stored' = 1
    /\ UNCHANGED <<calculated, told>>

Calculate ==
    /\ stored = 1 /\ calculated = 0 /\ calculated' = 1
    /\ UNCHANGED <<stored, told>>

Tell(outcome) ==
    /\ outcome \in {"processed", "calculation_failed"} => stored = 1
    /\ told' = told \cup {outcome}
    /\ UNCHANGED <<stored, calculated>>

PInit == stored = 0 /\ calculated = 0 /\ told = {}

PNext ==
    \/ Store
    \/ Calculate
    \/ \E outcome \in {"failed", "processed", "calculation_failed"} : Tell(outcome)

PSpec == PInit /\ [][PNext]_promiseVars
=============================================================================
