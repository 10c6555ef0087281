------------------------------ MODULE AuditChain ------------------------------
(***************************************************************************)
(* The hash chain of apps/audit: what append_entry() writes for one entry  *)
(* and what verify_chain() recomputes from the rows it finds.  One         *)
(* organisation's chain is modelled; chains of different organisations     *)
(* share neither rows nor locks.                                           *)
(*                                                                         *)
(* SHA-256 is modelled as collision free: the hash of a payload chained to *)
(* a previous hash is the whole prefix of payloads it commits to, so two   *)
(* hashes are equal exactly when every payload below them is.              *)
(***************************************************************************)
EXTENDS Integers, Sequences

\* audit/models.py GENESIS_HASH: what the first entry of a chain links to.
GENESIS_HASH == << >>

\* _canonical_payload: the columns of a row that its hash commits to.  The
\* acting user is one of them; organisation and timestamp are left out, the
\* first being fixed and the second stored exactly as hashed.
CanonicalPayload(entry) ==
    [sequence  |-> entry.sequence,
     record    |-> entry.record,
     action    |-> entry.action,
     changedBy |-> entry.changedBy,
     changes   |-> entry.changes]

\* compute_entry_hash, for a payload chained to prevHash.
ComputeEntryHash(payload, prevHash) == Append(prevHash, payload)

\* The row append_entry() builds on top of the chain state `state` it locked.
NewEntry(state, record, action, changedBy, changes) ==
    LET row == [sequence  |-> state.lastSequence + 1,
                record    |-> record,
                action    |-> action,
                changedBy |-> changedBy,
                changes   |-> changes,
                prevHash  |-> state.lastHash,
                entryHash |-> GENESIS_HASH]
    IN  [row EXCEPT !.entryHash =
            ComputeEntryHash(CanonicalPayload(row), state.lastHash)]

\* (mutant) The hash is not carried over.
TipAfterStale(entry) == [lastSequence |-> entry.sequence, lastHash |-> entry.prevHash]

\* The chain state append_entry() saves after writing `entry`.
TipAfter(entry) == [lastSequence |-> entry.sequence, lastHash |-> entry.entryHash]

EmptyTip == [lastSequence |-> 0, lastHash |-> GENESIS_HASH]

-----------------------------------------------------------------------------
\* verify_chain walks the rows in sequence order and stops at the first one
\* whose prev_hash is not the stored hash of the row before it, or whose
\* recomputed hash is not the stored one.

ExpectedPrev(rows, i) == IF i = 1 THEN GENESIS_HASH ELSE rows[i - 1].entryHash

LinkBroken(rows, i) == rows[i].prevHash # ExpectedPrev(rows, i)

ContentAltered(rows, i) ==
    rows[i].entryHash # ComputeEntryHash(CanonicalPayload(rows[i]), rows[i].prevHash)

ChainValid(rows) ==
    \A i \in DOMAIN rows : ~LinkBroken(rows, i) /\ ~ContentAltered(rows, i)

=============================================================================
