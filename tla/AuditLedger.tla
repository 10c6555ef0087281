----------------------------- MODULE AuditLedger -----------------------------
(***************************************************************************)
(* What the audit chain promises, whoever writes to it: a ledger of seals. *)
(* A seal, once in the ledger, stays where it is and as it is; the next    *)
(* one carries the next number and commits to the hash of the last.        *)
(***************************************************************************)
EXTENDS Integers, Sequences

CONSTANT Genesis

VARIABLE ledger   \* a sequence of [sequence, prevHash, entryHash]

LastHash == IF ledger = << >> THEN Genesis ELSE ledger[Len(ledger)].entryHash

Seal(hash) ==
    ledger' = Append(ledger, [sequence  |-> Len(ledger) + 1,
                              prevHash  |-> LastHash,
                              entryHash |-> hash])

LInit == ledger = << >>

\* The new hash covers something not sealed before: it differs from them all.
LNext == 
    /\ Len(ledger') > 0
    /\ LET hash == ledger'[Len(ledger')].entryHash IN
       /\ \A i \in DOMAIN ledger : ledger[i].entryHash # hash
       /\ Seal(hash)

LSpec == LInit /\ [][LNext]_ledger
=============================================================================
