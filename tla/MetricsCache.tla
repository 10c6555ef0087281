---------------------------- MODULE MetricsCache ----------------------------
(***************************************************************************)
(* The cached metrics of one organisation: readers that look a payload up  *)
(* under the current calc_version and compute it when it is missing, and   *)
(* writers that bump the version once their transaction has committed.     *)
(*                                                                         *)
(* The database and the cache are two systems and every call to either is  *)
(* a step of its own.  A payload is the number of calculation writes and   *)
(* of approvals it has taken into account.                                 *)
(***************************************************************************)
EXTENDS Integers

CONSTANTS
    Readers,      \* requests to /api/metrics/, each again and again
    MaxWrites,    \* recalculations, deletions, batches: writes that bump
    MaxApprovals, \* workflow transitions that change pending_approval
    MaxFaults     \* bumps lost after their commit, evictions of the version

VARIABLES
    db,        \* [writes, approvals] committed
    version,   \* metrics:calcver:<org>; 0 when the cache has no such key
    payload,   \* metrics:<endpoint>:<org>:v<n>, by n
    announced, \* the last write whose bump is done
    cold,      \* the version key has been missing
    reader,    \* what each reader is doing
    served,    \* what each reader was served last; fresh: all announced before it asked
    due,       \* the bumps owed: [write, step], step "incr" or "create"
    faults     \* faults so far

vars == <<db, version, payload, announced, cold, reader, served, due, faults>>

ASSUME BoundAssumption == {MaxWrites, MaxApprovals, MaxFaults} \subseteq Nat

-----------------------------------------------------------------------------
Snapshot == [writes : 0..MaxWrites, approvals : 0..MaxApprovals]
Versions == 1..MaxWrites + 1
None     == [writes |-> -1, approvals |-> -1]
IdleReader == [at |-> "idle", version |-> 0, value |-> None, since |-> 0]
Bumps    == [write : 1..MaxWrites, step : {"incr", "create"}]

Larger(a, b) == IF a > b THEN a ELSE b

\* The reader r goes on to `step`, with the version it uses.
Goes(r, step, v) == reader' = [reader EXCEPT ![r].at = step, ![r].version = v]

\* r answers its request with `value`.
Serve(r, value) ==
    /\ served' = [served EXCEPT ![r] =
                    [value |-> value, fresh |-> value.writes >= reader[r].since]]
    /\ reader' = [reader EXCEPT ![r] = IdleReader]

-----------------------------------------------------------------------------
(***************************************************************************)
(* cached() and get_calc_version()                                         *)
(***************************************************************************)

ReadVersion(r) ==
    /\ reader[r].at = "idle"
    /\ reader' = [reader EXCEPT ![r] =
                    [@ EXCEPT !.at = IF version = 0 THEN "init" ELSE "lookup",
                              !.version = version, !.since = announced]]
    /\ UNCHANGED <<db, version, payload, announced, cold, served, due, faults>>

\* The key was missing: it is 1 from now on, whatever happened since.
InitVersion(r) ==
    /\ reader[r].at = "init"
    /\ version' = 1
    /\ Goes(r, "lookup", 1)
    /\ UNCHANGED <<db, payload, announced, cold, served, due, faults>>

Hit(r) ==
    /\ reader[r].at = "lookup" /\ payload[reader[r].version] # None
    /\ Serve(r, payload[reader[r].version])
    /\ UNCHANGED <<db, version, payload, announced, cold, due, faults>>

Miss(r) ==
    /\ reader[r].at = "lookup" /\ payload[reader[r].version] = None
    /\ Goes(r, "compute", reader[r].version)
    /\ UNCHANGED <<db, version, payload, announced, cold, served, due, faults>>

\* producer()
Compute(r) ==
    /\ reader[r].at = "compute"
    /\ reader' = [reader EXCEPT ![r].at = "store", ![r].value = db]
    /\ UNCHANGED <<db, version, payload, announced, cold, served, due, faults>>

Store(r) ==
    /\ reader[r].at = "store"
    /\ payload' = [payload EXCEPT ![reader[r].version] = reader[r].value]
    /\ Serve(r, reader[r].value)
    /\ UNCHANGED <<db, version, announced, cold, due, faults>>

-----------------------------------------------------------------------------
(***************************************************************************)
(* Writers and bump_calc_version()                                         *)
(***************************************************************************)

\* A write to the calculations commits; its on_commit callback is due.
CommitWrite ==
    /\ db.writes < MaxWrites
    /\ db' = [db EXCEPT !.writes = @ + 1]
    /\ due' = due \cup {[write |-> db.writes + 1, step |-> "incr"]}
    /\ UNCHANGED <<version, payload, announced, cold, reader, served, faults>>

\* The bump b is done.
Announce(b) ==
    /\ announced' = Larger(announced, b.write)
    /\ due' = due \ {b}

\* (mutant) The key set to what get() found it to be.
IncrementLost(b) ==
    /\ b.step = "incr" /\ version # 0
    /\ version' = version
    /\ Announce(b)
    /\ UNCHANGED <<db, payload, cold, reader, served, faults>>

\* cache.incr()
Increment(b) ==
    /\ b.step = "incr" /\ version # 0
    /\ version' = version + 1
    /\ Announce(b)
    /\ UNCHANGED <<db, payload, cold, reader, served, faults>>

\* cache.incr() raises ValueError: the key is missing.
IncrementMissing(b) ==
    /\ b.step = "incr" /\ version = 0
    /\ due' = (due \ {b}) \cup {[b EXCEPT !.step = "create"]}
    /\ UNCHANGED <<db, version, payload, announced, cold, reader, served, faults>>

CreateVersion(b) ==
    /\ b.step = "create"
    /\ version' = 1
    /\ Announce(b)
    /\ UNCHANGED <<db, payload, cold, reader, served, faults>>

\* The process dies, or the cache is out of reach, between commit and bump.
LoseBump(b) ==
    /\ faults < MaxFaults
    /\ faults' = faults + 1
    /\ due' = due \ {b}
    /\ UNCHANGED <<db, version, payload, announced, cold, reader, served>>

\* submit, approve, reject: pending_approval changes and nothing is bumped.
CommitApproval ==
    /\ db.approvals < MaxApprovals
    /\ db' = [db EXCEPT !.approvals = @ + 1]
    /\ UNCHANGED <<version, payload, announced, cold, reader, served, due, faults>>

-----------------------------------------------------------------------------
(***************************************************************************)
(* The cache itself                                                        *)
(***************************************************************************)

\* The version key is evicted or the cache restarted without its data.
EvictVersion ==
    /\ version # 0 /\ faults < MaxFaults
    /\ faults' = faults + 1
    /\ version' = 0 /\ cold' = TRUE
    /\ UNCHANGED <<db, payload, announced, reader, served, due>>

\* (mutant) Payloads stored without a timeout.
ExpireNever(v) == FALSE /\ UNCHANGED vars

\* DEFAULT_TTL is over.
Expire(v) ==
    /\ payload[v] # None
    /\ payload' = [payload EXCEPT ![v] = None]
    /\ UNCHANGED <<db, version, announced, cold, reader, served, due, faults>>

-----------------------------------------------------------------------------
\* The first request of an organisation finds no version; cold says so.
Init ==
    /\ db = [writes |-> 0, approvals |-> 0]
    /\ version \in {0, 1} /\ cold = (version = 0)
    /\ payload = [v \in Versions |-> None]
    /\ announced = 0
    /\ reader = [r \in Readers |-> IdleReader]
    /\ served = [r \in Readers |-> [value |-> db, fresh |-> TRUE]]
    /\ due = {}
    /\ faults = 0

Read(r) ==
    \/ ReadVersion(r) \/ InitVersion(r)
    \/ Hit(r) \/ Miss(r) \/ Compute(r) \/ Store(r)

Bump == \E b \in due : Increment(b) \/ IncrementMissing(b) \/ CreateVersion(b)

Next ==
    \/ \E r \in Readers : Read(r)
    \/ CommitWrite \/ CommitApproval
    \/ Bump \/ \E b \in due : LoseBump(b)
    \/ EvictVersion
    \/ \E v \in Versions : Expire(v)

Spec == Init /\ [][Next]_vars

\* The dashboard polls, callbacks run, payloads expire; nothing makes anyone write.
FairSpec ==
    /\ Spec
    /\ \A r \in Readers : WF_vars(Read(r))
    /\ WF_vars(Bump)
    /\ \A v \in Versions : WF_vars(Expire(v))

-----------------------------------------------------------------------------
(***************************************************************************)
(* Properties                                                              *)
(***************************************************************************)

\* As long as the version key has never been missing, a response holds every
\* write whose bump was done when its request came in, though readers that
\* computed before the write may still be about to store what they found.
FreshWhileWarm == ~cold => \A r \in Readers : served[r].fresh

\* A lost bump, a lost version key and a write that bumps nothing are all
\* forgotten in the end: once nothing is written any more, everyone is served
\* what the database holds.
StalenessEnds == <>[](\A r \in Readers : served[r].value = db)
=============================================================================
