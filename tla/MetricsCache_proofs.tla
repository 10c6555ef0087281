-------------------------- MODULE MetricsCache_proofs --------------------------
(***************************************************************************)
(* Freshness of the cached metrics for any number of readers, writes,      *)
(* approvals and faults.                                                   *)
(***************************************************************************)
EXTENDS MetricsCache, FiniteSetTheorems, TLAPS

-----------------------------------------------------------------------------
(***************************************************************************)
(* Types, and how far the version can get                                  *)
(***************************************************************************)

Payloads == Snapshot \cup {None}

Reading == [at : {"idle", "init", "lookup", "compute", "store"}, version : Versions \cup {0},
            value : Payloads, since : 0..MaxWrites]

\* A reader that has a version to look up.
Active(r) == reader[r].at \in {"lookup", "compute", "store"}

TypeInv ==
    /\ db \in Snapshot
    /\ version \in Versions \cup {0}
    /\ payload \in [Versions -> Payloads]
    /\ announced \in 0..db.writes
    /\ cold \in BOOLEAN
    /\ reader \in [Readers -> Reading]
    /\ \A r \in Readers : /\ Active(r) => reader[r].version \in Versions
                          /\ reader[r].at = "store" => reader[r].value \in Snapshot
    /\ due \subseteq Bumps
    /\ \A b \in due : b.write <= db.writes
    /\ faults \in 0..MaxFaults

\* Each write raises the version once at most: a version number is left for
\* each bump that is due.
VersionInv ==
    /\ IsFiniteSet(due)
    /\ Cardinality(due) <= db.writes
    /\ version + Cardinality(due) <= db.writes + 1

CountInv == TypeInv /\ VersionInv

\* A step of a reader that changes its own record only, or the payloads too.
LEMMA ReaderType ==
    ASSUME TypeInv, NEW r \in Readers, NEW q \in Reading,
           reader' = [reader EXCEPT ![r] = q],
           q.at \in {"lookup", "compute", "store"} => q.version \in Versions,
           q.at = "store" => q.value \in Snapshot,
           version' \in Versions \cup {0}, payload' \in [Versions -> Payloads],
           UNCHANGED <<db, announced, cold, due, faults>>
    PROVE  TypeInv'
BY DEF TypeInv, Active

LEMMA ReadCount ==
    ASSUME CountInv, NEW r \in Readers, Read(r)
    PROVE  CountInv'
<1>1. TypeInv /\ reader[r] \in Reading
  BY DEF CountInv, TypeInv
<1>2. UNCHANGED <<db, announced, cold, due, faults>>
  BY DEF Read, ReadVersion, InitVersion, Hit, Miss, Compute, Store, Goes, Serve
<1>3. 0 \in Versions \cup {0} /\ 1 \in Versions /\ MaxWrites \in Nat
  BY BoundAssumption DEF Versions
<1>4. TypeInv'
  <2>1. CASE ReadVersion(r)
    <3> DEFINE q == [reader[r] EXCEPT !.at = IF version = 0 THEN "init" ELSE "lookup",
                                      !.version = version, !.since = announced]
    <3>0. announced \in 0..MaxWrites
      BY <1>1, <1>3 DEF TypeInv, Snapshot
    <3>1. q \in Reading /\ q.at \in {"init", "lookup"} /\ (q.at = "lookup" => q.version \in Versions)
      BY <1>1, <3>0 DEF TypeInv, Reading
    <3>2. reader' = [reader EXCEPT ![r] = q]
      BY <2>1 DEF ReadVersion
    <3> HIDE DEF q
    <3> QED
      BY <1>1, <1>2, <2>1, <3>1, <3>2, ReaderType DEF ReadVersion, TypeInv
  <2>2. CASE InitVersion(r)
    <3> DEFINE q == [reader[r] EXCEPT !.at = "lookup", !.version = 1]
    <3>1. q \in Reading /\ q.at = "lookup" /\ q.version \in Versions
      BY <1>1, <1>3 DEF Reading
    <3>2. reader' = [reader EXCEPT ![r] = q]
      BY <1>1, <2>2 DEF InitVersion, Goes, TypeInv
    <3> HIDE DEF q
    <3> QED
      BY <1>1, <1>2, <1>3, <2>2, <3>1, <3>2, ReaderType DEF InitVersion, TypeInv
  <2>3. CASE Hit(r) \/ Store(r)
    <3>1. IdleReader \in Reading /\ IdleReader.at = "idle"
      BY <1>3 DEF IdleReader, Reading, Payloads
    <3>2. reader' = [reader EXCEPT ![r] = IdleReader]
      BY <2>3 DEF Hit, Store, Serve
    <3>3. payload' \in [Versions -> Payloads]
      BY <1>1, <2>3 DEF Hit, Store, TypeInv, Payloads
    <3>4. version' = version
      BY <2>3 DEF Hit, Store
    <3> QED
      BY <1>1, <1>2, <3>1, <3>2, <3>3, <3>4, ReaderType DEF TypeInv
  <2>4. CASE Miss(r)
    <3> DEFINE q == [reader[r] EXCEPT !.at = "compute"]
    <3>1. q \in Reading /\ q.at = "compute" /\ q.version \in Versions
      BY <1>1, <2>4 DEF Reading, Miss, TypeInv, Active
    <3>2. reader' = [reader EXCEPT ![r] = q]
      BY <1>1, <2>4 DEF Miss, Goes, TypeInv, Reading
    <3> HIDE DEF q
    <3> QED
      BY <1>1, <1>2, <2>4, <3>1, <3>2, ReaderType DEF Miss, TypeInv
  <2>5. CASE Compute(r)
    <3> DEFINE q == [reader[r] EXCEPT !.at = "store", !.value = db]
    <3>1. q \in Reading /\ q.version \in Versions /\ q.value \in Snapshot
      BY <1>1, <2>5 DEF Reading, Compute, TypeInv, Active, Payloads
    <3>2. reader' = [reader EXCEPT ![r] = q]
      BY <1>1, <2>5 DEF Compute, TypeInv
    <3> HIDE DEF q
    <3> QED
      BY <1>1, <1>2, <2>5, <3>1, <3>2, ReaderType DEF Compute, TypeInv
  <2> QED
    BY <2>1, <2>2, <2>3, <2>4, <2>5 DEF Read
<1>5. VersionInv'
  <2>1. version' = version \/ version' = 1
    BY DEF Read, ReadVersion, InitVersion, Hit, Miss, Compute, Store
  <2>2. Cardinality(due) \in Nat /\ db.writes \in Nat
    BY <1>1, FS_CardinalityType DEF CountInv, VersionInv, TypeInv, Snapshot
  <2> QED
    BY <1>2, <2>1, <2>2 DEF CountInv, VersionInv
<1> QED
  BY <1>4, <1>5 DEF CountInv

LEMMA WriteCount ==
    ASSUME CountInv, CommitWrite
    PROVE  CountInv'
<1> DEFINE b == [write |-> db.writes + 1, step |-> "incr"]
<1>1. db \in Snapshot /\ db.writes \in Nat /\ db.writes < MaxWrites /\ MaxWrites \in Nat
  BY BoundAssumption DEF CountInv, TypeInv, Snapshot, CommitWrite
<1>2. db' \in Snapshot /\ db'.writes = db.writes + 1
  BY <1>1 DEF CommitWrite, Snapshot
<1>3. b \in Bumps /\ due' = due \cup {b}
  BY <1>1 DEF CommitWrite, Bumps
<1>4. b \notin due
  BY <1>1 DEF CountInv, TypeInv
<1>5. IsFiniteSet(due') /\ Cardinality(due') = Cardinality(due) + 1 /\ Cardinality(due) \in Nat
  BY <1>3, <1>4, FS_AddElement, FS_CardinalityType DEF CountInv, VersionInv
<1>6. UNCHANGED <<version, payload, announced, cold, reader, faults>>
  BY DEF CommitWrite
<1>7. version \in Nat
  BY <1>1 DEF CountInv, TypeInv, Versions
<1>8. VersionInv'
  BY <1>1, <1>2, <1>5, <1>6, <1>7 DEF CountInv, VersionInv
<1>9. \A c \in due' : c.write <= db'.writes
  <2>1. \A c \in due : c.write <= db.writes /\ c.write \in Nat
    BY DEF CountInv, TypeInv, Bumps
  <2> QED
    BY <1>1, <1>2, <1>3, <2>1
<1>10. announced' \in 0..db'.writes
  BY <1>1, <1>2, <1>6 DEF CountInv, TypeInv
<1> HIDE DEF b
<1>11. TypeInv'
  BY <1>2, <1>3, <1>6, <1>9, <1>10 DEF CountInv, TypeInv, Active
<1> QED
  BY <1>8, <1>11 DEF CountInv

LEMMA BumpCount ==
    ASSUME CountInv, NEW b \in due,
           Increment(b) \/ IncrementMissing(b) \/ CreateVersion(b) \/ LoseBump(b)
    PROVE  CountInv'
<1>1. TypeInv /\ VersionInv /\ b \in Bumps /\ b.write \in Nat /\ b.write <= db.writes
  BY DEF CountInv, TypeInv, Bumps
<1>2. db.writes \in Nat /\ db.writes <= MaxWrites /\ MaxWrites \in Nat /\ version \in Nat
  BY <1>1, BoundAssumption DEF TypeInv, Snapshot, Versions
<1>3. /\ IsFiniteSet(due \ {b}) /\ Cardinality(due \ {b}) = Cardinality(due) - 1
      /\ Cardinality(due) \in Nat /\ Cardinality(due \ {b}) \in Nat
  BY <1>1, FS_RemoveElement, FS_CardinalityType DEF VersionInv
<1>4. UNCHANGED <<db, payload, cold, reader>>
  BY DEF Increment, IncrementMissing, CreateVersion, LoseBump
<1>5. announced' \in 0..db.writes
  BY <1>1, <1>2 DEF Increment, IncrementMissing, CreateVersion, LoseBump, Announce, Larger, TypeInv
<1>6. faults' \in 0..MaxFaults
  BY <1>1, BoundAssumption DEF Increment, IncrementMissing, CreateVersion, LoseBump, TypeInv
<1>7. CASE Increment(b) \/ CreateVersion(b) \/ LoseBump(b)
  <2>1. due' = due \ {b} /\ version' \in {version, version + 1, 1}
    BY <1>7 DEF Increment, CreateVersion, LoseBump, Announce
  <2>2. VersionInv'
    BY <1>1, <1>2, <1>3, <1>4, <2>1 DEF VersionInv
  <2>3. version' \in Versions \cup {0}
    <3>1. version + 1 <= MaxWrites + 1
      BY <1>1, <1>2, <1>3 DEF VersionInv
    <3>2. version' \in Nat /\ version' <= MaxWrites + 1
      BY <1>2, <2>1, <3>1
    <3> QED
      BY <1>2, <3>2 DEF Versions
  <2> QED
    BY <1>1, <1>4, <1>5, <1>6, <2>1, <2>2, <2>3 DEF CountInv, TypeInv, Active
<1>8. CASE IncrementMissing(b)
  <2> DEFINE c == [b EXCEPT !.step = "create"]
  <2>1. due' = (due \ {b}) \cup {c} /\ c \in Bumps /\ c.write = b.write /\ version' = version
    BY <1>1, <1>8 DEF IncrementMissing, Bumps
  <2> HIDE DEF c
  <2>2. IsFiniteSet(due') /\ Cardinality(due') <= Cardinality(due) /\ Cardinality(due') \in Nat
    <3> DEFINE rest == due \ {b}
    <3>1. IsFiniteSet(rest) /\ Cardinality(rest) = Cardinality(due) - 1 /\ Cardinality(due) \in Nat
      BY <1>3
    <3>2. due' = rest \cup {c}
      BY <2>1
    <3> HIDE DEF rest
    <3>3. IsFiniteSet(due') /\ Cardinality(due') \in {Cardinality(rest), Cardinality(rest) + 1}
      BY <3>1, <3>2, FS_AddElement
    <3> QED
      BY <3>1, <3>3, FS_CardinalityType
  <2>3. VersionInv'
    BY <1>1, <1>2, <1>3, <1>4, <2>1, <2>2 DEF VersionInv
  <2>4. due' \subseteq Bumps /\ \A d \in due' : d.write <= db.writes
    BY <1>1, <2>1 DEF TypeInv
  <2> QED
    BY <1>1, <1>4, <1>5, <1>6, <2>1, <2>3, <2>4 DEF CountInv, TypeInv, Active
<1> QED
  BY <1>7, <1>8

LEMMA OtherCount ==
    ASSUME CountInv, CommitApproval \/ EvictVersion \/ \E v \in Versions : Expire(v)
    PROVE  CountInv'
<1>1. CASE CommitApproval
  <2>1. db' \in Snapshot /\ db'.writes = db.writes
    BY <1>1, BoundAssumption DEF CommitApproval, CountInv, TypeInv, Snapshot
  <2> QED
    BY <1>1, <2>1 DEF CommitApproval, CountInv, TypeInv, VersionInv, Active
<1>2. CASE EvictVersion
  <2>1. Cardinality(due) \in Nat /\ db.writes \in Nat /\ version \in Nat
    BY FS_CardinalityType, BoundAssumption DEF CountInv, VersionInv, TypeInv, Snapshot, Versions
  <2>2. VersionInv'
    BY <1>2, <2>1 DEF EvictVersion, CountInv, VersionInv
  <2>3. faults' \in 0..MaxFaults
    BY <1>2, BoundAssumption DEF EvictVersion, CountInv, TypeInv
  <2> QED
    BY <1>2, <2>2, <2>3 DEF EvictVersion, CountInv, TypeInv, Active
<1>3. ASSUME NEW v \in Versions, Expire(v) PROVE CountInv'
  BY <1>3 DEF Expire, CountInv, TypeInv, VersionInv, Active, Payloads
<1> QED
  BY <1>1, <1>2, <1>3

LEMMA NextCount == CountInv /\ [Next]_vars => CountInv'
<1>1. CountInv /\ UNCHANGED vars => CountInv'
  BY DEF vars, CountInv, TypeInv, VersionInv, Active
<1> QED
  BY <1>1, ReadCount, WriteCount, BumpCount, OtherCount DEF Next, Bump

LEMMA InitCount == Init => CountInv
<1> SUFFICES ASSUME Init PROVE CountInv
  OBVIOUS
<1>1. 0 \in 0..MaxWrites /\ 0 \in 0..MaxApprovals /\ 0 \in 0..MaxFaults /\ 1 \in Versions
  BY BoundAssumption DEF Versions
<1>2. db \in Snapshot /\ db.writes = 0
  BY <1>1 DEF Init, Snapshot
<1>3. IdleReader \in Reading
  BY <1>1 DEF IdleReader, Reading, Payloads
<1>4. TypeInv
  BY <1>1, <1>2, <1>3 DEF Init, TypeInv, Payloads, Active, IdleReader
<1>5. IsFiniteSet(due) /\ Cardinality(due) = 0
  BY FS_EmptySet DEF Init
<1>6. VersionInv
  BY <1>2, <1>5 DEF Init, VersionInv
<1> QED
  BY <1>4, <1>6 DEF CountInv

-----------------------------------------------------------------------------
(***************************************************************************)
(* Freshness                                                               *)
(***************************************************************************)

\* What is under the current version, or is about to be stored there, holds all
\* that was announced; what is under an older one holds all that had been
\* announced when a reader read that version, for the version moves with it.
WarmInv ==
    /\ version >= 1
    /\ \A b \in due : b.step = "incr"
    /\ \A v \in Versions : v > version => payload[v] = None
    /\ payload[version] # None => payload[version].writes >= announced
    /\ \A r \in Readers : reader[r].at # "init"
    /\ \A r \in Readers : Active(r) =>
          /\ reader[r].version <= version /\ reader[r].since <= announced
          /\ reader[r].version = version => reader[r].since = announced
          /\ payload[reader[r].version] # None => payload[reader[r].version].writes >= reader[r].since
    /\ \A q \in Readers : reader[q].at = "store" =>
          /\ reader[q].version = version => reader[q].value.writes >= announced
          /\ \A r \in Readers : Active(r) /\ reader[r].version = reader[q].version
                                  => reader[q].value.writes >= reader[r].since
    /\ \A r \in Readers : served[r].fresh

FreshInv == CountInv /\ served \in [Readers -> [value : Payloads, fresh : BOOLEAN]]
                     /\ (~cold => WarmInv)

LEMMA ReadWarm ==
    ASSUME CountInv, WarmInv, NEW r \in Readers, Read(r),
           served \in [Readers -> [value : Payloads, fresh : BOOLEAN]]
    PROVE  WarmInv'
<1>1. TypeInv /\ reader[r] \in Reading /\ db.writes \in Nat /\ announced \in Nat /\ announced <= db.writes
      /\ version \in Versions
  BY BoundAssumption DEF CountInv, TypeInv, Snapshot, WarmInv, Versions
<1>2. ~InitVersion(r)
  BY DEF WarmInv, InitVersion
<1>3. UNCHANGED <<db, version, announced, due>>
  BY <1>2 DEF Read, ReadVersion, Hit, Miss, Compute, Store
<1>4. \A v \in Readers \ {r} : reader'[v] = reader[v]
  BY <1>1 DEF TypeInv, Read, ReadVersion, InitVersion, Hit, Miss, Compute, Store, Goes, Serve
<1>5. CASE ReadVersion(r)
  <2>1. /\ reader'[r].at = "lookup" /\ reader'[r].version = version /\ reader'[r].since = announced
        /\ UNCHANGED <<payload, served>>
    BY <1>1, <1>5 DEF ReadVersion, TypeInv, Reading, WarmInv
  <2>2. \A v \in Readers : Active(v)' =>
          /\ reader'[v].version <= version /\ reader'[v].since <= announced
          /\ reader'[v].version = version => reader'[v].since = announced
          /\ payload[reader'[v].version] # None => payload[reader'[v].version].writes >= reader'[v].since
    <3>1. version <= version /\ announced <= announced
      BY <1>1, BoundAssumption DEF Versions
    <3> QED
      BY <1>4, <2>1, <3>1 DEF WarmInv, Active
  <2>3. \A q \in Readers : reader'[q].at = "store" =>
          /\ reader'[q].version = version => reader'[q].value.writes >= announced
          /\ \A v \in Readers : Active(v)' /\ reader'[v].version = reader'[q].version
                                  => reader'[q].value.writes >= reader'[v].since
    BY <1>4, <2>1 DEF WarmInv, Active
  <2>4. \A v \in Readers : reader'[v].at # "init"
    BY <1>4, <2>1 DEF WarmInv
  <2> QED
    BY <1>3, <2>1, <2>2, <2>3, <2>4 DEF WarmInv
<1>6. CASE Hit(r)
  <2>1. reader'[r].at = "idle" /\ payload' = payload
    BY <1>1, <1>6 DEF Hit, Serve, IdleReader, TypeInv
  <2>2. payload[reader[r].version].writes >= reader[r].since
    BY <1>6 DEF Hit, WarmInv, Active
  <2>3. \A v \in Readers : served'[v].fresh
    BY <1>6, <2>2 DEF Hit, Serve, WarmInv
  <2> QED
    BY <1>3, <1>4, <2>1, <2>3 DEF WarmInv, Active
<1>7. CASE Miss(r)
  <2>1. /\ reader'[r].at = "compute" /\ reader'[r].version = reader[r].version
        /\ reader'[r].since = reader[r].since /\ reader[r].at = "lookup" /\ UNCHANGED <<payload, served>>
    BY <1>1, <1>7 DEF Miss, Goes, TypeInv, Reading
  <2> QED
    BY <1>3, <1>4, <2>1 DEF WarmInv, Active
<1>8. CASE Compute(r)
  <2>1. /\ reader'[r].at = "store" /\ reader'[r].version = reader[r].version
        /\ reader'[r].since = reader[r].since /\ reader'[r].value = db
        /\ reader[r].at = "compute" /\ UNCHANGED <<payload, served>>
    BY <1>1, <1>8 DEF Compute, TypeInv, Reading
  <2>2. \A v \in Readers : Active(v) => reader[v].since <= db.writes
    <3> SUFFICES ASSUME NEW v \in Readers, Active(v) PROVE reader[v].since <= db.writes
      OBVIOUS
    <3>1. reader[v].since \in Nat /\ reader[v].since <= announced
      BY <1>1 DEF WarmInv, TypeInv, Reading
    <3> QED
      BY <1>1, <3>1
  <2> QED
    BY <1>1, <1>3, <1>4, <2>1, <2>2 DEF WarmInv, Active
<1>9. CASE Store(r)
  <2>1. reader'[r].at = "idle" /\ reader[r].at = "store" /\ reader[r].version \in Versions
    BY <1>1, <1>9 DEF Store, Serve, IdleReader, TypeInv, Active
  <2>2. /\ payload'[reader[r].version] = reader[r].value
        /\ \A v \in Versions \ {reader[r].version} : payload'[v] = payload[v]
    BY <1>1, <1>9, <2>1 DEF Store, TypeInv
  <2>3. reader[r].value.writes >= reader[r].since
    BY <2>1 DEF WarmInv, Active
  <2>4. \A v \in Readers : served'[v].fresh
    BY <1>9, <2>3 DEF Store, Serve, WarmInv
  <2>5. \A v \in Readers : Active(v)' => v # r /\ Active(v) /\ reader'[v] = reader[v]
                                        /\ reader[v].version \in Versions
    BY <1>1, <1>4, <2>1 DEF Active, TypeInv
  <2>6. /\ reader[r].version <= version /\ reader[r].version \in Nat /\ version \in Nat
        /\ reader[r].version = version => reader[r].value.writes >= announced
        /\ \A v \in Readers : Active(v) /\ reader[v].version = reader[r].version
                                => reader[r].value.writes >= reader[v].since
    BY <1>1, <2>1, BoundAssumption DEF WarmInv, Active, Versions
  <2>7. \A v \in Versions : v > version => payload'[v] = None
    BY <2>2, <2>6 DEF WarmInv
  <2>8. payload'[version] # None => payload'[version].writes >= announced
    BY <1>1, <2>2, <2>6 DEF WarmInv
  <2>9. \A v \in Readers : Active(v)' =>
          /\ reader'[v].version <= version /\ reader'[v].since <= announced
          /\ reader'[v].version = version => reader'[v].since = announced
          /\ payload'[reader'[v].version] # None => payload'[reader'[v].version].writes >= reader'[v].since
    BY <2>2, <2>5, <2>6 DEF WarmInv
  <2>10. \A q \in Readers : reader'[q].at = "store" => reader'[q] = reader[q]
    BY <1>4, <2>1
  <2>11. \A q \in Readers : reader'[q].at = "store" =>
          /\ reader'[q].version = version => reader'[q].value.writes >= announced
          /\ \A v \in Readers : Active(v)' /\ reader'[v].version = reader'[q].version
                                  => reader'[q].value.writes >= reader'[v].since
    BY <2>5, <2>10 DEF WarmInv
  <2>12. \A v \in Readers : reader'[v].at # "init"
    BY <1>4, <2>1 DEF WarmInv
  <2> QED
    BY <1>3, <2>4, <2>7, <2>8, <2>9, <2>11, <2>12 DEF WarmInv
<1> QED
  BY <1>2, <1>5, <1>6, <1>7, <1>8, <1>9 DEF Read

LEMMA BumpWarm ==
    ASSUME CountInv, CountInv', WarmInv, NEW b \in due, Increment(b)
    PROVE  WarmInv'
<1>1. TypeInv /\ TypeInv' /\ version \in Nat /\ version' = version + 1 /\ version' \in Versions
  BY BoundAssumption DEF CountInv, TypeInv, WarmInv, Increment, Versions
<1>2. announced <= announced' /\ announced \in Nat /\ announced' \in Nat
  BY BoundAssumption DEF CountInv, TypeInv, Snapshot, Bumps, Increment, Announce, Larger
<1>3. due' \subseteq due /\ UNCHANGED <<payload, reader, served>>
  BY DEF Increment, Announce
<1>4. payload[version'] = None
  BY <1>1 DEF WarmInv
<1>5. \A r \in Readers : Active(r) => /\ reader[r].version < version' /\ reader[r].version \in Nat
                                      /\ reader[r].since <= announced' /\ reader[r].since \in Nat
  <2> SUFFICES ASSUME NEW r \in Readers, Active(r)
               PROVE  /\ reader[r].version < version' /\ reader[r].version \in Nat
                      /\ reader[r].since <= announced' /\ reader[r].since \in Nat
    OBVIOUS
  <2>1. reader[r].version \in Nat /\ reader[r].since \in Nat
    BY <1>1, BoundAssumption DEF TypeInv, Reading, Versions
  <2> QED
    BY <1>1, <1>2, <2>1 DEF WarmInv
<1>6. \A v \in Versions : v > version' => payload'[v] = None
  BY <1>1, <1>3, BoundAssumption DEF WarmInv, Versions
<1>7. \A q \in Readers : reader[q].at = "store" => Active(q) /\ reader[q].version # version'
  BY <1>1, <1>5 DEF Active
<1> QED
  BY <1>1, <1>3, <1>4, <1>5, <1>6, <1>7 DEF WarmInv, Active

LEMMA OtherWarm ==
    ASSUME CountInv, WarmInv,
           \/ CommitWrite \/ CommitApproval
           \/ \E b \in due : LoseBump(b)
           \/ \E v \in Versions : Expire(v)
    PROVE  WarmInv'
<1>1. UNCHANGED <<version, announced, reader, served>>
  BY DEF CommitWrite, CommitApproval, LoseBump, Expire
<1>2. \A b \in due' : b.step = "incr"
  BY DEF WarmInv, CommitWrite, CommitApproval, LoseBump, Expire
<1>3. version \in Versions
  BY BoundAssumption DEF CountInv, TypeInv, WarmInv, Versions
<1>4. \A v \in Versions : payload'[v] \in {payload[v], None}
  BY DEF CommitWrite, CommitApproval, LoseBump, Expire, CountInv, TypeInv
<1>5. \A r \in Readers : Active(r) => reader[r].version \in Versions
  BY DEF CountInv, TypeInv
<1> QED
  BY <1>1, <1>2, <1>3, <1>4, <1>5 DEF WarmInv, Active

\* Without a missing version key, nobody is served less than what was announced
\* when it asked, however slowly readers compute and store.
THEOREM FreshTheorem == Spec => []FreshWhileWarm
<1>1. Init => FreshInv
  <2> SUFFICES ASSUME Init PROVE FreshInv
    OBVIOUS
  <2>1. CountInv
    BY InitCount
  <2>2. served \in [Readers -> [value : Payloads, fresh : BOOLEAN]]
    BY <2>1 DEF Init, CountInv, TypeInv, Payloads
  <2>3. ~cold => WarmInv
    <3> SUFFICES ASSUME ~cold PROVE WarmInv
      OBVIOUS
    <3>1. 1 \in Versions
      BY BoundAssumption DEF Versions
    <3>2. version \in {0, 1} /\ cold = (version = 0)
      BY DEF Init
    <3>3. version # 0
      BY <3>2, Zenon
    <3> QED
      BY <3>1, <3>2, <3>3 DEF Init, WarmInv, Active, IdleReader
  <2> QED
    BY <2>1, <2>2, <2>3 DEF FreshInv
<1>2. FreshInv /\ [Next]_vars => FreshInv'
  <2> SUFFICES ASSUME FreshInv, [Next]_vars PROVE FreshInv'
    OBVIOUS
  <2>1. CountInv /\ CountInv'
    BY NextCount DEF FreshInv
  <2>2. served' \in [Readers -> [value : Payloads, fresh : BOOLEAN]]
    <3>1. served' = served \/ \E r \in Readers, p \in Payloads : Serve(r, p)
      <4>1. ASSUME NEW r \in Readers, Hit(r) \/ Store(r) PROVE \E p \in Payloads : Serve(r, p)
        BY <2>1, <4>1 DEF Hit, Store, CountInv, TypeInv, Active, Payloads
      <4> QED
        BY <4>1 DEF Next, vars, Read, ReadVersion, InitVersion, Miss, Compute, CommitWrite,
           CommitApproval, Bump, Increment, IncrementMissing, CreateVersion, LoseBump, EvictVersion, Expire
    <3>2. ASSUME NEW r \in Readers, NEW p \in Payloads, Serve(r, p)
          PROVE  served' \in [Readers -> [value : Payloads, fresh : BOOLEAN]]
      <4> DEFINE answer == [value |-> p, fresh |-> p.writes >= reader[r].since]
      <4>1. answer \in [value : Payloads, fresh : BOOLEAN]
        OBVIOUS
      <4>2. served' = [served EXCEPT ![r] = answer]
        BY <3>2 DEF Serve
      <4> HIDE DEF answer
      <4> QED
        BY <4>1, <4>2 DEF FreshInv
    <3> QED
      BY <3>1, <3>2 DEF FreshInv
  <2>3. ASSUME ~cold' PROVE WarmInv'
    <3>1. WarmInv /\ ~EvictVersion
      BY <2>3 DEF FreshInv, vars, Next, Read, ReadVersion, InitVersion, Hit, Miss, Compute, Store,
         CommitWrite, CommitApproval, Bump, Increment, IncrementMissing, CreateVersion, LoseBump,
         EvictVersion, Expire
    <3>2. CASE UNCHANGED vars
      BY <3>1, <3>2 DEF vars, WarmInv, Active
    <3>3. ASSUME NEW b \in due, IncrementMissing(b) \/ CreateVersion(b) PROVE FALSE
      BY <3>1, <3>3 DEF WarmInv, IncrementMissing, CreateVersion
    <3>4. CASE Next
      BY <2>1, <3>1, <3>3, <3>4, ReadWarm, BumpWarm, OtherWarm DEF Next, Bump, FreshInv
    <3> QED
      BY <3>2, <3>4
  <2> QED
    BY <2>1, <2>2, <2>3 DEF FreshInv
<1>3. FreshInv => FreshWhileWarm
  BY DEF FreshInv, WarmInv, FreshWhileWarm
<1> QED
  BY <1>1, <1>2, <1>3, PTL DEF Spec
=============================================================================
