----------------------- MODULE RecordGovernance_proofs -----------------------
(***************************************************************************)
(* Theorems about RecordGovernance, for every set of requests, records,    *)
(* accounts and values, and whatever operations are issued.                *)
(***************************************************************************)
EXTENDS RecordGovernance, SequenceTheorems, TLAPS

-----------------------------------------------------------------------------
(***************************************************************************)
(* What a single action does to requests and tables                        *)
(***************************************************************************)

\* A function on 1..n is a sequence; a sequence mapped pointwise stays one.
LEMMA FunctionIsSeq ==
    ASSUME NEW S, NEW n \in Nat, NEW f \in [1..n -> S]
    PROVE  f \in Seq(S) /\ Len(f) = n
<1>1. f \in Seq(S)
  BY SeqDef
<1> QED
  BY <1>1

\* A request is active between its arrival and its answer.
Active(p) == pc[p] \notin {"idle", "answered"}

LEMMA CurrentCalculationNat ==
    ASSUME NEW r \in Records, calcs \in [Records -> Seq(Calculation)]
    PROVE  CurrentCalculation(r) \in Nat
<1>1. calcs[r] \in Seq(Calculation)
  OBVIOUS
<1>2. DOMAIN calcs[r] \subseteq Nat
  BY <1>1
<1>3. CASE \E i \in DOMAIN calcs[r] : calcs[r][i].current
  BY <1>2, <1>3, Zenon DEF CurrentCalculation
<1>4. CASE ~ \E i \in DOMAIN calcs[r] : calcs[r][i].current
  BY <1>4 DEF CurrentCalculation
<1> QED
  BY <1>3, <1>4

LEMMA ProceedType ==
    ASSUME TypeOK, NEW p \in Requests, NEW next \in Phases \ {"idle", "answered"},
           NEW t \in Txn, Proceed(p, next, t)
    PROVE  TypeOK'
<1>1. pc' \in [Requests -> Phases] /\ DOMAIN txn' = Requests
  BY DEF TypeOK, Proceed
<1>2. ASSUME NEW q \in Requests
      PROVE  IF pc'[q] \in {"idle", "answered"} THEN txn'[q] = NoTxn ELSE txn'[q] \in Txn
  BY DEF TypeOK, Proceed
<1> QED
  BY <1>1, <1>2 DEF TypeOK, Proceed, dbVars, Tip, Txn, Hash, Entry, Row, VersionRow, Calculation

LEMMA AnswerType ==
    ASSUME TypeOK, NEW p \in Requests, AnswerUnchanged(p)
    PROVE  TypeOK'
<1>1. pc' \in [Requests -> Phases] /\ DOMAIN txn' = Requests
  BY DEF TypeOK, AnswerUnchanged, Phases
<1>2. ASSUME NEW q \in Requests
      PROVE  IF pc'[q] \in {"idle", "answered"} THEN txn'[q] = NoTxn ELSE txn'[q] \in Txn
  BY DEF TypeOK, AnswerUnchanged
<1> QED
  BY <1>1, <1>2 DEF TypeOK, AnswerUnchanged, dbVars

\* What the locking save of a well-formed row leads to.
LEMMA SaveRecordType ==
    ASSUME TypeOK, NEW p \in Requests, NEW op \in RequestOps, NEW r \in Records,
           NEW u \in Users, NEW row \in Row, SaveRecord(p, op, r, u, row)
    PROVE  TypeOK'
<1>1. rec[r] \in Row /\ versions[r] \in Seq(VersionRow)
  BY DEF TypeOK
<1>2. NextVersionNumber(r) \in Nat
  BY <1>1 DEF NextVersionNumber
<1>3. CurrentCalculation(r) \in Nat
  BY CurrentCalculationNat DEF TypeOK
<1> DEFINE t == [NewTxn(op, r, u, rec[r], row) EXCEPT
                    !.number = NextVersionNumber(r), !.base = CurrentCalculation(r)]
<1>4. EmptyTip \in Tip
  BY DEF EmptyTip, Tip, Hash, GENESIS_HASH
<1>5. t \in Txn
  BY <1>1, <1>2, <1>3, <1>4 DEF NewTxn, Txn
<1>6. Proceed(p, "insert", t)
  BY DEF SaveRecord
<1> HIDE DEF t
<1> QED
  BY <1>5, <1>6, ProceedType DEF Phases

LEMMA ArriveType ==
    ASSUME TypeOK, NEW p \in Requests, Arrive(p)
    PROVE  TypeOK'
<1>1. PICK r \in Records, u \in users :
        \/ \E op \in Ops : \/ BeginTransition(p, op, r, u)
                          \/ RefuseTransition(p, op, r)
                          \/ BeginLifecycle(p, op, r, u)
                          \/ RefuseLifecycle(p, op, r)
        \/ ReadForRecalculation(p, r, u) \/ RefuseRecalculation(p, r)
        \/ OpenAdminForm(p, r, u)
  BY DEF Arrive
<1>2. u \in Users /\ rec[r] \in Row
  BY <1>1 DEF TypeOK
<1>3. ASSUME NEW op \in Ops, BeginTransition(p, op, r, u)
      PROVE  TypeOK'
  <2>1. op \in RequestOps /\ op \in TransitionOps
    BY <1>3 DEF BeginTransition, RequestOps, LockingOps
  <2>2. TargetStatus(op) \in Status
    BY <2>1 DEF TransitionOps, TargetStatus, Status
  <2>3. Transitioned(rec[r], op, u) \in Row
    BY <1>2, <2>2 DEF Transitioned, Row
  <2> QED
    BY <1>2, <1>3, <2>1, <2>3, SaveRecordType DEF BeginTransition
<1>4. ASSUME NEW op \in Ops, BeginLifecycle(p, op, r, u)
      PROVE  TypeOK'
  <2>1. op \in RequestOps
    BY <1>4 DEF BeginLifecycle, RequestOps, LockingOps
  <2>2. [rec[r] EXCEPT !.deleted = (op = "delete")] \in Row
    BY <1>2 DEF Row
  <2> QED
    BY <1>2, <1>4, <2>1, <2>2, SaveRecordType DEF BeginLifecycle
<1>5. CASE ReadForRecalculation(p, r, u)
  <2> DEFINE t == [NewTxn("recalculate", r, u, rec[r], rec[r]) EXCEPT !.factor = activeFactor]
  <2>1. activeFactor \in Nat
    BY FactorAssumption DEF TypeOK
  <2>2. EmptyTip \in Tip
    BY DEF EmptyTip, Tip, Hash, GENESIS_HASH
  <2>3. t \in Txn
    BY <1>2, <2>1, <2>2 DEF NewTxn, Txn, RequestOps
  <2>4. Proceed(p, "computed", t)
    BY <1>5 DEF ReadForRecalculation
  <2> HIDE DEF t
  <2> QED
    BY <2>3, <2>4, ProceedType DEF Phases
<1>6. CASE OpenAdminForm(p, r, u)
  <2>1. PICK s \in Status, v \in Values, d \in BOOLEAN :
          Proceed(p, "form",
                  NewTxn("admin_edit", r, u, rec[r],
                         [rec[r] EXCEPT !.status = s, !.value = v, !.deleted = d]))
    BY <1>6 DEF OpenAdminForm
  <2> DEFINE row == [rec[r] EXCEPT !.status = s, !.value = v, !.deleted = d]
  <2>2. row \in Row
    BY <1>2, <2>1 DEF Row
  <2> HIDE DEF row
  <2>3. EmptyTip \in Tip
    BY DEF EmptyTip, Tip, Hash, GENESIS_HASH
  <2>4. NewTxn("admin_edit", r, u, rec[r], row) \in Txn
    BY <1>2, <2>2, <2>3 DEF NewTxn, Txn, RequestOps
  <2> QED
    BY <2>1, <2>4, ProceedType DEF Phases, row
<1>7. CASE AnswerUnchanged(p)
  BY <1>7, AnswerType
<1> QED
  BY <1>1, <1>3, <1>4, <1>5, <1>6, <1>7
     DEF RefuseTransition, RefuseLifecycle, RefuseRecalculation

LEMMA ActiveTxn ==
    ASSUME TypeOK, NEW p \in Requests, Active(p)
    PROVE  txn[p] \in Txn
  BY DEF TypeOK, Active

\* The requests' own steps before the commit change one field of txn[p].
LEMMA StepType ==
    ASSUME TypeOK, NEW p \in Requests,
           \/ SupersedeCurrent(p) \/ InsertCalculation(p) \/ LoseCalculation(p)
           \/ InsertVersion(p) \/ LoseVersionNumber(p)
           \/ AppendEntry(p) \/ LoseActor(p) \/ AbortDeadlocked(p)
           \/ Post(p) \/ Crash(p)
    PROVE  TypeOK'
<1>1. ASSUME Active(p)
      PROVE  txn[p] \in Txn /\ txn[p].rec \in Records
  BY <1>1, ActiveTxn DEF Txn
<1>2. CASE SupersedeCurrent(p)
  <2>1. txn[p] \in Txn /\ CurrentCalculation(txn[p].rec) \in Nat
    BY <1>1, <1>2, CurrentCalculationNat DEF SupersedeCurrent, Active, TypeOK
  <2>2. [txn[p] EXCEPT !.base = CurrentCalculation(txn[p].rec)] \in Txn
    BY <2>1 DEF Txn
  <2> QED
    BY <1>2, <2>2, ProceedType DEF SupersedeCurrent, Phases
<1>3. CASE InsertCalculation(p)
  <2>1. txn[p] \in Txn /\ versions[txn[p].rec] \in Seq(VersionRow)
    BY <1>1, <1>3 DEF InsertCalculation, Active, TypeOK
  <2>2. NextVersionNumber(txn[p].rec) \in Nat
    BY <2>1 DEF NextVersionNumber
  <2>3. [txn[p] EXCEPT !.number = NextVersionNumber(txn[p].rec)] \in Txn
    BY <2>1, <2>2 DEF Txn
  <2> QED
    BY <1>3, <2>3, ProceedType DEF InsertCalculation, Phases
<1>4. CASE InsertVersion(p)
  <2>1. txn[p] \in Txn
    BY <1>1, <1>4 DEF InsertVersion, Active
  <2>2. CASE txn[p].op = "admin_edit"
    BY <1>4, <2>1, <2>2, ProceedType DEF InsertVersion, Phases
  <2>3. CASE txn[p].op # "admin_edit"
    BY <1>4, <2>1, <2>3, ProceedType DEF InsertVersion, Phases
  <2> QED
    BY <2>2, <2>3
<1>5. CASE AppendEntry(p)
  <2>1. txn[p] \in Txn /\ tip \in Tip
    BY <1>1, <1>5 DEF AppendEntry, Active, TypeOK
  <2>2. [txn[p] EXCEPT !.seen = tip] \in Txn
    BY <2>1 DEF Txn
  <2> QED
    BY <1>5, <2>2, ProceedType DEF AppendEntry, Phases
<1>6. CASE PostAdminForm(p)
  <2>1. txn[p] \in Txn
    BY <1>1, <1>6 DEF PostAdminForm, Active
  <2>2. txn[p].rec \in Records /\ txn[p].actor \in Users /\ txn[p].row \in Row
    BY <2>1 DEF Txn
  <2>3. SaveRecord(p, "admin_edit", txn[p].rec, txn[p].actor, txn[p].row)
    BY <1>6 DEF PostAdminForm
  <2> QED
    BY <2>2, <2>3, SaveRecordType DEF RequestOps
<1>7. CASE AnswerUnchanged(p)
  BY <1>7, AnswerType
<1> QED
  BY <1>2, <1>3, <1>4, <1>5, <1>6, <1>7
     DEF LoseCalculation, LoseVersionNumber, LoseActor, AbortDeadlocked, Post,
         PostAdminFormUnchanged, Crash

-----------------------------------------------------------------------------
(***************************************************************************)
(* The commit                                                              *)
(***************************************************************************)

\* The entry of an audited request is well formed, and so is the chain state
\* saved after it.
LEMMA EntryType ==
    ASSUME NEW t \in Txn, t.op \in AuditedOps
    PROVE  EntryOf(t) \in Entry /\ TipAfter(EntryOf(t)) \in Tip
<1>1. /\ t.seen.lastSequence + 1 \in Nat /\ t.seen.lastHash \in Hash
      /\ t.rec \in Records /\ t.actor \in Users \cup {NoUser} /\ t.number \in Nat
      /\ t.old.status \in Status /\ t.row.status \in Status
  BY DEF Txn, Tip, Row
<1>2. AuditAction(t.op) \in Actions
  BY DEF Actions
<1>3. Changes(t) \in ChangeSet
  <2>1. CASE t.op \in TransitionOps
    BY <1>1, <2>1 DEF Changes, ChangeSet
  <2>2. CASE t.op = "delete"
    BY <1>1, <2>2 DEF Changes, ChangeSet, TransitionOps
  <2>3. CASE t.op = "restore"
    BY <1>1, <2>3 DEF Changes, ChangeSet, TransitionOps
  <2>4. CASE t.op = "recalculate"
    BY <1>1, <2>4 DEF Changes, ChangeSet, TransitionOps, NoChange
  <2> QED
    BY <2>1, <2>2, <2>3, <2>4 DEF AuditedOps, LockingOps, LifecycleOps
<1> DEFINE payload == [sequence  |-> t.seen.lastSequence + 1,
                       record    |-> t.rec,
                       action    |-> AuditAction(t.op),
                       changedBy |-> t.actor,
                       changes   |-> Changes(t)]
<1>4. payload \in [sequence : Nat, record : Records, action : Actions,
                   changedBy : Users \cup {NoUser}, changes : ChangeSet]
  BY <1>1, <1>2, <1>3
<1>5. Append(t.seen.lastHash, payload) \in Hash
  BY <1>1, <1>4 DEF Hash
<1>6. EntryOf(t) = [sequence  |-> t.seen.lastSequence + 1,
                    record    |-> t.rec,
                    action    |-> AuditAction(t.op),
                    changedBy |-> t.actor,
                    changes   |-> Changes(t),
                    prevHash  |-> t.seen.lastHash,
                    entryHash |-> Append(t.seen.lastHash, payload)]
  BY DEF EntryOf, NewEntry, CanonicalPayload, ComputeEntryHash
<1> HIDE DEF payload
<1>7. EntryOf(t) \in Entry
  BY <1>1, <1>2, <1>3, <1>5, <1>6 DEF Entry
<1> QED
  BY <1>7 DEF TipAfter, Tip, Entry

\* Which requests can be at their commit, and how many entries they write.
LEMMA CommitType ==
    ASSUME TypeOK, NEW p \in Requests, Commit(p)
    PROVE  TypeOK'
<1> DEFINE t == txn[p]
<1>1. t \in Txn
  BY ActiveTxn DEF Commit, Active
<1>2. /\ t.rec \in Records /\ t.row \in Row /\ t.number \in Nat /\ t.base \in Nat
      /\ t.factor \in Nat /\ t.row.value \in Values /\ t.op \in RequestOps
  BY <1>1 DEF Txn, Row
<1>3. calcs[t.rec] \in Seq(Calculation) /\ versions[t.rec] \in Seq(VersionRow)
  BY <1>2 DEF TypeOK
<1>4. rec' \in [Records -> Row]
  BY <1>2 DEF TypeOK, Commit
<1>5. versions' \in [Records -> Seq(VersionRow)]
  <2>1. VersionOf(t) \in VersionRow
    BY <1>2, <1>3 DEF VersionOf, VersionRow
  <2>2. Append(versions[t.rec], VersionOf(t)) \in Seq(VersionRow)
    BY <1>3, <2>1
  <2>3. versions' = [versions EXCEPT ![t.rec] = Append(versions[t.rec], VersionOf(t))]
    BY DEF Commit
  <2> QED
    BY <2>2, <2>3 DEF TypeOK
<1>6. calcs' \in [Records -> Seq(Calculation)]
  <2> DEFINE old == [i \in DOMAIN calcs[t.rec] |->
                        IF i = t.base THEN [calcs[t.rec][i] EXCEPT !.current = FALSE]
                                      ELSE calcs[t.rec][i]]
             new == [factor |-> t.factor, value |-> t.row.value, current |-> TRUE]
  <2>1. ASSUME NEW i \in DOMAIN calcs[t.rec]
        PROVE  old[i] \in Calculation
    <3>1. calcs[t.rec][i] \in Calculation
      BY <1>3, <2>1
    <3>2. [calcs[t.rec][i] EXCEPT !.current = FALSE] \in Calculation
      BY <3>1 DEF Calculation
    <3> QED
      BY <3>1, <3>2
  <2>2. Len(calcs[t.rec]) \in Nat /\ DOMAIN calcs[t.rec] = 1..Len(calcs[t.rec])
    BY <1>3
  <2>3. old \in Seq(Calculation)
    <3>1. old \in [1..Len(calcs[t.rec]) -> Calculation]
      BY <2>1, <2>2
    <3> HIDE DEF old
    <3> QED
      BY <2>2, <3>1, FunctionIsSeq
  <2>4. new \in Calculation
    BY <1>2 DEF Calculation
  <2>5. Append(old, new) \in Seq(Calculation)
    BY <2>3, <2>4
  <2>6. calcs' = calcs \/ calcs' = [calcs EXCEPT ![t.rec] = Append(old, new)]
    BY DEF Commit, Recalculated
  <2> HIDE DEF old, new
  <2> QED
    BY <2>5, <2>6 DEF TypeOK
<1>7. chain' \in Seq(Entry) /\ tip' \in Tip
  <2>1. CASE t.op = "admin_edit"
    BY <2>1 DEF Commit, TypeOK
  <2>2. CASE t.op # "admin_edit"
    <3>1. EntryOf(t) \in Entry /\ TipAfter(EntryOf(t)) \in Tip
      BY <1>1, <1>2, <2>2, EntryType DEF RequestOps, AuditedOps
    <3>2. chain' = Append(chain, EntryOf(t)) /\ tip' = TipAfter(EntryOf(t))
      BY <2>2 DEF Commit
    <3> QED
      BY <3>1, <3>2 DEF TypeOK
  <2> QED
    BY <2>1, <2>2
<1>8. pc' \in [Requests -> Phases] /\ DOMAIN txn' = Requests
  BY DEF TypeOK, Commit, Phases
<1>9. ASSUME NEW q \in Requests
      PROVE  IF pc'[q] \in {"idle", "answered"} THEN txn'[q] = NoTxn ELSE txn'[q] \in Txn
  BY DEF TypeOK, Commit
<1>10. users' \subseteq Users /\ activeFactor' \in 1..MaxFactor
  BY DEF TypeOK, Commit
<1> QED
  BY <1>4, <1>5, <1>6, <1>7, <1>8, <1>9, <1>10 DEF TypeOK

-----------------------------------------------------------------------------
(***************************************************************************)
(* Type correctness                                                        *)
(***************************************************************************)

LEMMA DeleteUserType ==
    ASSUME TypeOK, NEW u \in Users, DeleteUser(u)
    PROVE  TypeOK'
<1>1. ASSUME NEW row \in Row
      PROVE  WithoutUser(row, u) \in Row
  BY DEF WithoutUser, Row
<1>2. rec' \in [Records -> Row]
  BY <1>1 DEF DeleteUser, TypeOK
<1>3. versions' \in [Records -> Seq(VersionRow)]
  <2> DEFINE new(r) == [i \in DOMAIN versions[r] |->
                          [versions[r][i] EXCEPT !.row = WithoutUser(versions[r][i].row, u)]]
  <2>1. ASSUME NEW r \in Records
        PROVE  new(r) \in Seq(VersionRow)
    <3>1. versions[r] \in Seq(VersionRow)
      BY DEF TypeOK
    <3>2. Len(versions[r]) \in Nat /\ DOMAIN versions[r] = 1..Len(versions[r])
      BY <3>1
    <3>3. ASSUME NEW i \in DOMAIN versions[r]
          PROVE  [versions[r][i] EXCEPT !.row = WithoutUser(versions[r][i].row, u)] \in VersionRow
      <4>1. versions[r][i] \in VersionRow
        BY <3>1, <3>2, <3>3, ElementOfSeq
      <4>2. versions[r][i].row \in Row
        BY <4>1 DEF VersionRow
      <4>3. WithoutUser(versions[r][i].row, u) \in Row
        BY <1>1, <4>2
      <4> QED
        BY <4>1, <4>3 DEF VersionRow
    <3>4. new(r) \in [1..Len(versions[r]) -> VersionRow]
      BY <3>2, <3>3
    <3> HIDE DEF new
    <3> QED
      BY <3>2, <3>4, FunctionIsSeq
  <2>2. versions' = [r \in Records |-> new(r)]
    BY DEF DeleteUser
  <2> HIDE DEF new
  <2> QED
    BY <2>1, <2>2
<1>4. chain' \in Seq(Entry)
  <2> DEFINE new == [i \in DOMAIN chain |->
                       IF chain[i].changedBy = u THEN [chain[i] EXCEPT !.changedBy = NoUser]
                                                 ELSE chain[i]]
  <2>1. chain \in Seq(Entry) /\ Len(chain) \in Nat /\ DOMAIN chain = 1..Len(chain)
    BY DEF TypeOK
  <2>2. ASSUME NEW i \in DOMAIN chain
        PROVE  new[i] \in Entry
    <3>1. chain[i] \in Entry
      BY <2>1, <2>2
    <3>2. [chain[i] EXCEPT !.changedBy = NoUser] \in Entry
      BY <3>1 DEF Entry
    <3> QED
      BY <3>1, <3>2
  <2>3. new \in [1..Len(chain) -> Entry]
    BY <2>1, <2>2
  <2>4. chain' = new
    BY DEF DeleteUser
  <2> HIDE DEF new
  <2> QED
    BY <2>1, <2>3, <2>4, FunctionIsSeq
<1> QED
  BY <1>2, <1>3, <1>4 DEF DeleteUser, TypeOK

LEMMA InitType == Init => TypeOK
<1> SUFFICES ASSUME Init PROVE TypeOK
  OBVIOUS
<1>1. rec \in [Records -> Row]
  BY DEF Init
<1>2. versions \in [Records -> Seq(VersionRow)]
  <2>1. ASSUME NEW r \in Records
        PROVE  << [number |-> 1, row |-> rec[r], calc |-> 0] >> \in Seq(VersionRow)
    BY <1>1 DEF VersionRow
  <2> QED
    BY <2>1 DEF Init
<1>3. calcs \in [Records -> Seq(Calculation)]
  <2>1. PICK calculated \in SUBSET Records :
         calcs = [r \in Records |->
                    IF r \in calculated
                    THEN << [factor |-> 1, value |-> rec[r].value, current |-> TRUE] >>
                    ELSE << >>]
    BY DEF Init
  <2>2. ASSUME NEW r \in Records
        PROVE  << [factor |-> 1, value |-> rec[r].value, current |-> TRUE] >> \in Seq(Calculation)
    <3>1. rec[r].value \in Values
      BY <1>1 DEF Row
    <3> QED
      BY <3>1 DEF Calculation
  <2> QED
    BY <2>1, <2>2
<1>4. chain \in Seq(Entry) /\ tip \in Tip
  BY DEF Init, EmptyTip, Tip, Hash, GENESIS_HASH
<1>5. activeFactor \in 1..MaxFactor
  BY FactorAssumption DEF Init
<1> QED
  BY <1>1, <1>2, <1>3, <1>4, <1>5 DEF Init, TypeOK, Phases

LEMMA NextType == TypeOK /\ [Next]_vars => TypeOK'
<1> SUFFICES ASSUME TypeOK, [Next]_vars PROVE TypeOK'
  OBVIOUS
<1>1. ASSUME NEW p \in Requests, Arrive(p)
      PROVE  TypeOK'
  BY <1>1, ArriveType
<1>2. ASSUME NEW p \in Requests, Serve(p)
      PROVE  TypeOK'
  BY <1>2, StepType, CommitType DEF Serve
<1>3. ASSUME NEW p \in Requests, Post(p) \/ Crash(p)
      PROVE  TypeOK'
  BY <1>3, StepType
<1>4. ASSUME NEW u \in Users, DeleteUser(u)
      PROVE  TypeOK'
  BY <1>4, DeleteUserType
<1>5. CASE ActivateFactor
  <2>1. activeFactor' \in 1..MaxFactor
    BY <1>5, FactorAssumption DEF ActivateFactor, TypeOK
  <2> QED
    BY <1>5, <2>1 DEF ActivateFactor, TypeOK
<1>6. CASE UNCHANGED vars
  BY <1>6 DEF vars, TypeOK
<1> QED
  BY <1>1, <1>2, <1>3, <1>4, <1>5, <1>6 DEF Next

\* Every table and every request keeps its shape in every behaviour.
THEOREM TypeCorrect == Spec => []TypeOK
<1> QED
  BY InitType, NextType, PTL DEF Spec

-----------------------------------------------------------------------------
(***************************************************************************)
(* The inductive invariant: locks exclude, and what was read under them    *)
(* stays true.                                                             *)
(***************************************************************************)

\* The operation of a request fits how far it has come.
PhaseOps ==
    \A p \in Requests :
        /\ pc[p] \in {"computed", "superseding"} => txn[p].op = "recalculate"
        /\ pc[p] = "append" => txn[p].op # "admin_edit"

\* At most one request holds the chain state, and at most one each record.
LocksExclusive ==
    \A p, q \in Requests :
        /\ HoldsChain(p) /\ HoldsChain(q) => p = q
        /\ \A r \in Records : HoldsRecord(p, r) /\ HoldsRecord(q, r) => p = q

GovernanceInv ==
    TypeOK /\ PhaseOps /\ LocksExclusive /\ HeldReadingsCurrent /\ ChainLinked

LEMMA InitInv == Init => GovernanceInv
<1> SUFFICES ASSUME Init PROVE GovernanceInv
  OBVIOUS
<1>1. TypeOK
  BY InitType
<1>2. PhaseOps /\ LocksExclusive /\ HeldReadingsCurrent
  BY DEF Init, PhaseOps, LocksExclusive, HeldReadingsCurrent, HoldsChain, HoldsRecord
<1>3. ChainLinked
  BY DEF Init, ChainLinked
<1> QED
  BY <1>1, <1>2, <1>3 DEF GovernanceInv

\* A step of one request leaves the others where they are.
LEMMA OthersStay ==
    ASSUME TypeOK, NEW p \in Requests, NEW q \in Requests, q # p,
           \/ \E next, t : Proceed(p, next, t)
           \/ AnswerUnchanged(p)
           \/ Commit(p)
    PROVE  /\ pc'[q] = pc[q] /\ txn'[q] = txn[q]
           /\ HoldsChain(q)' <=> HoldsChain(q)
           /\ \A r \in Records : HoldsRecord(q, r)' <=> HoldsRecord(q, r)
<1>1. pc'[q] = pc[q] /\ txn'[q] = txn[q]
  BY DEF TypeOK, Proceed, AnswerUnchanged, Commit
<1> QED
  BY <1>1 DEF HoldsChain, HoldsRecord

\* An answer without effect releases p's locks and changes no table.
LEMMA AnswerInv ==
    ASSUME GovernanceInv, NEW p \in Requests, AnswerUnchanged(p)
    PROVE  GovernanceInv'
<1>1. TypeOK'
  BY AnswerType DEF GovernanceInv
<1>2. pc'[p] = "answered"
  BY DEF GovernanceInv, TypeOK, AnswerUnchanged
<1>3. ~HoldsChain(p)' /\ \A r \in Records : ~HoldsRecord(p, r)'
  BY <1>2 DEF HoldsChain, HoldsRecord
<1>4. \A q \in Requests : q # p =>
         /\ pc'[q] = pc[q] /\ txn'[q] = txn[q]
         /\ HoldsChain(q)' <=> HoldsChain(q)
         /\ \A r \in Records : HoldsRecord(q, r)' <=> HoldsRecord(q, r)
  BY OthersStay DEF GovernanceInv
<1>5. PhaseOps'
  BY <1>2, <1>4 DEF GovernanceInv, PhaseOps
<1>6. LocksExclusive'
  BY <1>3, <1>4 DEF GovernanceInv, LocksExclusive
<1>7. UNCHANGED <<rec, chain, tip>>
  BY DEF AnswerUnchanged, dbVars
<1>8. HeldReadingsCurrent'
  BY <1>3, <1>4, <1>7 DEF GovernanceInv, HeldReadingsCurrent, CleanAccepts
<1>9. ChainLinked'
  BY <1>7 DEF GovernanceInv, ChainLinked, LinkBroken, ExpectedPrev
<1> QED
  BY <1>1, <1>5, <1>6, <1>8, <1>9 DEF GovernanceInv

\* A step within the transaction: it suffices to look at p's own locks.
LEMMA ProceedInv ==
    ASSUME GovernanceInv, TypeOK', NEW p \in Requests, NEW next \in Phases,
           NEW t, Proceed(p, next, t),
           next \in {"computed", "superseding"} => t.op = "recalculate",
           next = "append" => t.op # "admin_edit",
           HoldsChain(p)' => ChainFree /\ t.seen = tip,
           \A r \in Records : HoldsRecord(p, r)' =>
               /\ HoldsRecord(p, r) \/ RecordFree(r)
               /\ t.old = rec[r] /\ CleanAccepts(rec[r], t.row)
    PROVE  GovernanceInv'
<1>1. pc'[p] = next /\ txn'[p] = t
  BY DEF GovernanceInv, TypeOK, Proceed
<1>2. \A q \in Requests : q # p =>
         /\ pc'[q] = pc[q] /\ txn'[q] = txn[q]
         /\ HoldsChain(q)' <=> HoldsChain(q)
         /\ \A r \in Records : HoldsRecord(q, r)' <=> HoldsRecord(q, r)
  BY OthersStay DEF GovernanceInv
<1>3. PhaseOps'
  BY <1>1, <1>2 DEF GovernanceInv, PhaseOps
<1>4. LocksExclusive'
  <2>1. \A q \in Requests : q # p => ~(HoldsChain(p)' /\ HoldsChain(q)')
    BY <1>2 DEF ChainFree
  <2>2. ASSUME NEW r \in Records, NEW q \in Requests, q # p
        PROVE  ~(HoldsRecord(p, r)' /\ HoldsRecord(q, r)')
    BY <1>2, <2>2 DEF RecordFree, GovernanceInv, LocksExclusive
  <2> QED
    BY <1>2, <2>1, <2>2 DEF GovernanceInv, LocksExclusive
<1>5. UNCHANGED <<rec, chain, tip>>
  BY DEF Proceed, dbVars
<1>6. HeldReadingsCurrent'
  BY <1>1, <1>2, <1>5 DEF GovernanceInv, HeldReadingsCurrent, CleanAccepts
<1>7. ChainLinked'
  BY <1>5 DEF GovernanceInv, ChainLinked, LinkBroken, ExpectedPrev
<1> QED
  BY <1>3, <1>4, <1>6, <1>7 DEF GovernanceInv

\* Taking the lock of a free record, and saving a row that clean() accepts.
LEMMA SaveRecordInv ==
    ASSUME GovernanceInv, TypeOK', NEW p \in Requests, NEW op, NEW r \in Records,
           NEW u, NEW row, RecordFree(r), SaveRecord(p, op, r, u, row)
    PROVE  GovernanceInv'
<1> DEFINE t == [NewTxn(op, r, u, rec[r], row) EXCEPT
                    !.number = NextVersionNumber(r), !.base = CurrentCalculation(r)]
<1>1. Proceed(p, "insert", t) /\ CleanAccepts(rec[r], row)
  BY DEF SaveRecord
<1>2. t.rec = r /\ t.old = rec[r] /\ t.row = row
  BY DEF NewTxn
<1> HIDE DEF t
<1>3. pc'[p] = "insert" /\ txn'[p] = t
  BY <1>1 DEF GovernanceInv, TypeOK, Proceed
<1>4. ~HoldsChain(p)'
  BY <1>3 DEF HoldsChain
<1>5. \A s \in Records : HoldsRecord(p, s)' => s = r
  BY <1>2, <1>3 DEF HoldsRecord
<1> QED
  BY <1>1, <1>2, <1>4, <1>5, ProceedInv DEF Phases

LEMMA ArriveInv ==
    ASSUME GovernanceInv, NEW p \in Requests, Arrive(p)
    PROVE  GovernanceInv'
<1>1. TypeOK'
  BY ArriveType DEF GovernanceInv
<1>2. PICK r \in Records, u \in users :
        \/ \E op \in Ops : \/ BeginTransition(p, op, r, u)
                          \/ RefuseTransition(p, op, r)
                          \/ BeginLifecycle(p, op, r, u)
                          \/ RefuseLifecycle(p, op, r)
        \/ ReadForRecalculation(p, r, u) \/ RefuseRecalculation(p, r)
        \/ OpenAdminForm(p, r, u)
  BY DEF Arrive
<1>3. CASE \E op \in Ops : BeginTransition(p, op, r, u) \/ BeginLifecycle(p, op, r, u)
  BY <1>1, <1>3, SaveRecordInv DEF BeginTransition, BeginLifecycle
<1>4. CASE ReadForRecalculation(p, r, u)
  <2> DEFINE t == [NewTxn("recalculate", r, u, rec[r], rec[r]) EXCEPT !.factor = activeFactor]
  <2>1. Proceed(p, "computed", t)
    BY <1>4 DEF ReadForRecalculation
  <2>2. t.op = "recalculate"
    BY DEF NewTxn
  <2> HIDE DEF t
  <2>3. pc'[p] = "computed"
    BY <2>1 DEF GovernanceInv, TypeOK, Proceed
  <2>4. ~HoldsChain(p)' /\ \A s \in Records : ~HoldsRecord(p, s)'
    BY <2>3 DEF HoldsChain, HoldsRecord
  <2> QED
    BY <1>1, <2>1, <2>2, <2>4, ProceedInv DEF Phases
<1>5. CASE OpenAdminForm(p, r, u)
  <2>1. PICK t : Proceed(p, "form", t)
    BY <1>5 DEF OpenAdminForm
  <2>2. pc'[p] = "form"
    BY <2>1 DEF GovernanceInv, TypeOK, Proceed
  <2>3. ~HoldsChain(p)' /\ \A s \in Records : ~HoldsRecord(p, s)'
    BY <2>2 DEF HoldsChain, HoldsRecord
  <2> QED
    BY <1>1, <2>1, <2>3, ProceedInv DEF Phases
<1>6. CASE AnswerUnchanged(p)
  BY <1>6, AnswerInv
<1> QED
  BY <1>2, <1>3, <1>4, <1>5, <1>6
     DEF RefuseTransition, RefuseLifecycle, RefuseRecalculation

LEMMA StepInv ==
    ASSUME GovernanceInv, NEW p \in Requests,
           \/ SupersedeCurrent(p) \/ InsertCalculation(p) \/ LoseCalculation(p)
           \/ InsertVersion(p) \/ LoseVersionNumber(p)
           \/ AppendEntry(p) \/ LoseActor(p) \/ AbortDeadlocked(p)
           \/ Post(p) \/ Crash(p)
    PROVE  GovernanceInv'
<1>1. TypeOK'
  BY StepType DEF GovernanceInv
<1>2. CASE SupersedeCurrent(p)
  <2> DEFINE t == [txn[p] EXCEPT !.base = CurrentCalculation(txn[p].rec)]
  <2>1. Proceed(p, "superseding", t) /\ pc[p] = "computed"
    BY <1>2 DEF SupersedeCurrent
  <2>2. txn[p] \in Txn /\ txn[p].op = "recalculate"
    BY <2>1, ActiveTxn DEF GovernanceInv, PhaseOps, Active
  <2>3. t.op = "recalculate"
    BY <2>2 DEF Txn
  <2> HIDE DEF t
  <2>4. pc'[p] = "superseding"
    BY <2>1 DEF GovernanceInv, TypeOK, Proceed
  <2>5. ~HoldsChain(p)' /\ \A s \in Records : ~HoldsRecord(p, s)'
    BY <2>4 DEF HoldsChain, HoldsRecord
  <2> QED
    BY <1>1, <2>1, <2>3, <2>5, ProceedInv DEF Phases
<1>3. CASE InsertCalculation(p)
  <2> DEFINE t == [txn[p] EXCEPT !.number = NextVersionNumber(txn[p].rec)]
  <2>1. Proceed(p, "insert", t) /\ pc[p] = "superseding"
    BY <1>3 DEF InsertCalculation
  <2>2. txn[p] \in Txn /\ txn[p].op = "recalculate"
    BY <2>1, ActiveTxn DEF GovernanceInv, PhaseOps, Active
  <2>3. t.op = "recalculate"
    BY <2>2 DEF Txn
  <2> HIDE DEF t
  <2>4. pc'[p] = "insert" /\ txn'[p] = t
    BY <2>1 DEF GovernanceInv, TypeOK, Proceed
  <2>5. ~HoldsChain(p)' /\ \A s \in Records : ~HoldsRecord(p, s)'
    BY <2>3, <2>4 DEF HoldsChain, HoldsRecord
  <2> QED
    BY <1>1, <2>1, <2>5, ProceedInv DEF Phases
<1>4. CASE InsertVersion(p)
  <2>1. /\ Proceed(p, IF txn[p].op = "admin_edit" THEN "commit" ELSE "append", txn[p])
        /\ pc[p] = "insert"
    BY <1>4 DEF InsertVersion
  <2>2. /\ pc'[p] = IF txn[p].op = "admin_edit" THEN "commit" ELSE "append"
        /\ txn'[p] = txn[p]
    BY <2>1 DEF GovernanceInv, TypeOK, Proceed
  <2>3. ~HoldsChain(p)'
    BY <2>2 DEF HoldsChain
  <2>4. \A s \in Records : HoldsRecord(p, s)' =>
          /\ HoldsRecord(p, s)
          /\ txn[p].old = rec[s] /\ CleanAccepts(rec[s], txn[p].row)
    BY <2>1, <2>2 DEF HoldsRecord, GovernanceInv, HeldReadingsCurrent
  <2>5. CASE txn[p].op = "admin_edit"
    BY <1>1, <2>1, <2>3, <2>4, <2>5, ProceedInv DEF Phases
  <2>6. CASE txn[p].op # "admin_edit"
    BY <1>1, <2>1, <2>3, <2>4, <2>6, ProceedInv DEF Phases
  <2> QED
    BY <2>5, <2>6
<1>5. CASE AppendEntry(p)
  <2> DEFINE t == [txn[p] EXCEPT !.seen = tip]
  <2>1. Proceed(p, "commit", t) /\ pc[p] = "append" /\ ChainFree
    BY <1>5 DEF AppendEntry
  <2>2. txn[p] \in Txn
    BY <2>1, ActiveTxn DEF GovernanceInv, Active
  <2>3. /\ t.seen = tip /\ t.op = txn[p].op /\ t.rec = txn[p].rec
        /\ t.old = txn[p].old /\ t.row = txn[p].row
    BY <2>2 DEF Txn
  <2> HIDE DEF t
  <2>4. pc'[p] = "commit" /\ txn'[p] = t
    BY <2>1 DEF GovernanceInv, TypeOK, Proceed
  <2>5. \A s \in Records : HoldsRecord(p, s)' =>
          HoldsRecord(p, s) /\ t.old = rec[s] /\ CleanAccepts(rec[s], t.row)
    BY <2>1, <2>3, <2>4 DEF HoldsRecord, GovernanceInv, HeldReadingsCurrent
  <2> QED
    BY <1>1, <2>1, <2>3, <2>5, ProceedInv DEF Phases
<1>6. CASE PostAdminForm(p)
  <2>1. txn[p] \in Txn
    BY <1>6, ActiveTxn DEF PostAdminForm, Active, GovernanceInv
  <2>2. txn[p].rec \in Records /\ RecordFree(txn[p].rec)
    BY <1>6, <2>1 DEF PostAdminForm, Txn
  <2> QED
    BY <1>1, <1>6, <2>2, SaveRecordInv DEF PostAdminForm
<1>7. CASE AnswerUnchanged(p)
  BY <1>7, AnswerInv
<1> QED
  BY <1>2, <1>3, <1>4, <1>5, <1>6, <1>7
     DEF LoseCalculation, LoseVersionNumber, LoseActor, AbortDeadlocked, Post,
         PostAdminFormUnchanged, Crash

\* The commit writes under the locks that p held since it read.
LEMMA CommitInv ==
    ASSUME GovernanceInv, NEW p \in Requests, Commit(p)
    PROVE  GovernanceInv'
<1> DEFINE t == txn[p]
<1>1. TypeOK'
  BY CommitType DEF GovernanceInv
<1>2. t \in Txn /\ t.rec \in Records
  BY ActiveTxn DEF Commit, Active, GovernanceInv, Txn
<1>3. pc[p] = "commit" /\ pc'[p] = "answered"
  BY DEF GovernanceInv, TypeOK, Commit
<1>4. ~HoldsChain(p)' /\ \A r \in Records : ~HoldsRecord(p, r)'
  BY <1>3 DEF HoldsChain, HoldsRecord
<1>5. \A q \in Requests : q # p =>
         /\ pc'[q] = pc[q] /\ txn'[q] = txn[q]
         /\ HoldsChain(q)' <=> HoldsChain(q)
         /\ \A r \in Records : HoldsRecord(q, r)' <=> HoldsRecord(q, r)
  BY OthersStay DEF GovernanceInv
<1>6. PhaseOps'
  BY <1>3, <1>5 DEF GovernanceInv, PhaseOps
<1>7. LocksExclusive'
  BY <1>4, <1>5 DEF GovernanceInv, LocksExclusive
<1>8. ASSUME NEW q \in Requests, HoldsChain(q)'
      PROVE  txn'[q].seen = tip'
  <2>1. q # p /\ HoldsChain(q) /\ txn'[q] = txn[q]
    BY <1>4, <1>5, <1>8
  <2>2. ~HoldsChain(p)
    BY <2>1 DEF GovernanceInv, LocksExclusive
  <2>3. UNCHANGED tip
    BY <1>3, <2>2 DEF Commit, HoldsChain
  <2> QED
    BY <2>1, <2>3 DEF GovernanceInv, HeldReadingsCurrent
<1>9. ASSUME NEW q \in Requests, NEW r \in Records, HoldsRecord(q, r)'
      PROVE  txn'[q].old = rec'[r] /\ CleanAccepts(rec'[r], txn'[q].row)
  <2>1. q # p /\ HoldsRecord(q, r) /\ txn'[q] = txn[q]
    BY <1>4, <1>5, <1>9
  <2>2. ~HoldsRecord(p, r)
    BY <2>1 DEF GovernanceInv, LocksExclusive
  <2>3. rec'[r] = rec[r]
    BY <1>2, <1>3, <2>2 DEF Commit, HoldsRecord, GovernanceInv, TypeOK
  <2> QED
    BY <2>1, <2>3 DEF GovernanceInv, HeldReadingsCurrent
<1>10. HeldReadingsCurrent'
  <2>1. \A q \in Requests : HoldsChain(q)' => txn'[q].seen = tip'
    BY <1>8
  <2>2. \A q \in Requests : \A r \in Records : HoldsRecord(q, r)' =>
            txn'[q].old = rec'[r] /\ CleanAccepts(rec'[r], txn'[q].row)
    BY <1>9
  <2> QED
    BY <2>1, <2>2 DEF HeldReadingsCurrent, CleanAccepts
<1>11. ChainLinked'
  <2>1. CASE t.op = "admin_edit"
    BY <2>1 DEF Commit, GovernanceInv, ChainLinked, LinkBroken, ExpectedPrev
  <2>2. CASE t.op # "admin_edit"
    <3> DEFINE e == EntryOf(t)
    <3>1. chain' = Append(chain, e) /\ tip' = TipAfter(e)
      BY <2>2 DEF Commit
    <3>2. t.seen = tip
      BY <1>3, <2>2 DEF HoldsChain, GovernanceInv, HeldReadingsCurrent
    <3>3. e.sequence = tip.lastSequence + 1 /\ e.prevHash = tip.lastHash
      BY <3>2 DEF EntryOf, NewEntry
    <3> HIDE DEF e
    <3>4. chain \in Seq(Entry) /\ Len(chain) \in Nat /\ DOMAIN chain = 1..Len(chain)
      BY DEF GovernanceInv, TypeOK
    <3>5. /\ \A i \in 1..Len(chain) : chain[i].sequence = i /\ ~LinkBroken(chain, i)
          /\ tip = IF chain = << >> THEN EmptyTip ELSE TipAfter(chain[Len(chain)])
      BY <3>4 DEF GovernanceInv, ChainLinked
    <3>6. /\ tip.lastSequence = Len(chain)
          /\ tip.lastHash = ExpectedPrev(Append(chain, e), Len(chain) + 1)
      <4>1. CASE chain = << >>
        BY <3>5, <4>1 DEF EmptyTip, ExpectedPrev
      <4>2. CASE chain # << >>
        <5>1. Len(chain) \in 1..Len(chain) /\ Len(chain) + 1 # 1
          BY <3>4, <4>2
        <5>2. Append(chain, e)[Len(chain)] = chain[Len(chain)]
          BY <3>4, <5>1
        <5> QED
          BY <3>4, <3>5, <4>2, <5>1, <5>2 DEF TipAfter, ExpectedPrev
      <4> QED
        BY <4>1, <4>2
    <3>7. /\ DOMAIN chain' = 1..(Len(chain) + 1) /\ Len(chain') = Len(chain) + 1
          /\ chain'[Len(chain) + 1] = e
          /\ \A i \in 1..Len(chain) : chain'[i] = chain[i]
      BY <3>1, <3>4
    <3>8. ASSUME NEW i \in 1..Len(chain)
          PROVE  chain'[i].sequence = i /\ ~LinkBroken(chain', i)
      <4>1. ExpectedPrev(chain', i) = ExpectedPrev(chain, i)
        BY <3>4, <3>7 DEF ExpectedPrev
      <4> QED
        BY <3>5, <3>7, <4>1 DEF LinkBroken
    <3>9. e.sequence = Len(chain) + 1 /\ ~LinkBroken(chain', Len(chain) + 1)
      BY <3>1, <3>3, <3>6, <3>7 DEF LinkBroken
    <3>10. tip' = TipAfter(chain'[Len(chain')]) /\ chain' # << >>
      BY <3>1, <3>4, <3>7
    <3> QED
      BY <3>4, <3>7, <3>8, <3>9, <3>10 DEF ChainLinked
  <2> QED
    BY <2>1, <2>2
<1> QED
  BY <1>1, <1>6, <1>7, <1>10, <1>11 DEF GovernanceInv

\* The SET_NULL cascade touches no locked record, and no seal of the chain.
LEMMA DeleteUserInv ==
    ASSUME GovernanceInv, NEW u \in Users, DeleteUser(u)
    PROVE  GovernanceInv'
<1>1. TypeOK'
  BY DeleteUserType DEF GovernanceInv
<1>2. UNCHANGED <<tip, pc, txn>>
  BY DEF DeleteUser
<1>3. PhaseOps' /\ LocksExclusive'
  BY <1>2 DEF GovernanceInv, PhaseOps, LocksExclusive, HoldsChain, HoldsRecord
<1>4. ASSUME NEW q \in Requests, NEW r \in Records, HoldsRecord(q, r)
      PROVE  rec'[r] = rec[r]
  BY <1>4 DEF DeleteUser, RecordFree, WithoutUser
<1>5. HeldReadingsCurrent'
  BY <1>2, <1>4 DEF GovernanceInv, HeldReadingsCurrent, HoldsChain, HoldsRecord, CleanAccepts
<1>6. ChainLinked'
  <2>1. chain \in Seq(Entry) /\ Len(chain) \in Nat /\ DOMAIN chain = 1..Len(chain)
    BY DEF GovernanceInv, TypeOK
  <2>2. chain' \in Seq(Entry) /\ DOMAIN chain' = 1..Len(chain) /\ Len(chain') = Len(chain)
    BY <1>1, <2>1 DEF DeleteUser, TypeOK
  <2>3. ASSUME NEW i \in 1..Len(chain)
        PROVE  /\ chain'[i].sequence = chain[i].sequence
               /\ chain'[i].prevHash = chain[i].prevHash
               /\ chain'[i].entryHash = chain[i].entryHash
    <3>1. chain[i] \in Entry
      BY <2>1
    <3> QED
      BY <2>1, <3>1 DEF DeleteUser, Entry
  <2>4. ASSUME NEW i \in 1..Len(chain)
        PROVE  chain'[i].sequence = i /\ ~LinkBroken(chain', i)
    <3>1. chain[i].sequence = i /\ ~LinkBroken(chain, i)
      BY <2>1 DEF GovernanceInv, ChainLinked
    <3>2. i = 1 \/ i - 1 \in 1..Len(chain)
      BY <2>1
    <3>3. ExpectedPrev(chain', i) = ExpectedPrev(chain, i)
      BY <2>3, <3>2 DEF ExpectedPrev
    <3> QED
      BY <2>3, <3>1, <3>3 DEF LinkBroken
  <2>5. tip' = IF chain' = << >> THEN EmptyTip ELSE TipAfter(chain'[Len(chain')])
    <3>1. CASE chain = << >>
      BY <1>2, <2>1, <2>2, <3>1 DEF GovernanceInv, ChainLinked
    <3>2. CASE chain # << >>
      <4>1. Len(chain) \in 1..Len(chain) /\ chain' # << >>
        BY <2>1, <2>2, <3>2
      <4> QED
        BY <1>2, <2>2, <2>3, <3>2, <4>1 DEF GovernanceInv, ChainLinked, TipAfter
    <3> QED
      BY <3>1, <3>2
  <2> QED
    BY <2>2, <2>4, <2>5 DEF ChainLinked
<1> QED
  BY <1>1, <1>3, <1>5, <1>6 DEF GovernanceInv

LEMMA NextInv == GovernanceInv /\ [Next]_vars => GovernanceInv'
<1> SUFFICES ASSUME GovernanceInv, [Next]_vars PROVE GovernanceInv'
  OBVIOUS
<1>1. ASSUME NEW p \in Requests, Arrive(p)
      PROVE  GovernanceInv'
  BY <1>1, ArriveInv
<1>2. ASSUME NEW p \in Requests, Serve(p)
      PROVE  GovernanceInv'
  BY <1>2, StepInv, CommitInv DEF Serve
<1>3. ASSUME NEW p \in Requests, Post(p) \/ Crash(p)
      PROVE  GovernanceInv'
  BY <1>3, StepInv
<1>4. ASSUME NEW u \in Users, DeleteUser(u)
      PROVE  GovernanceInv'
  BY <1>4, DeleteUserInv
<1>5. CASE ActivateFactor \/ UNCHANGED vars
  <2>1. UNCHANGED <<rec, chain, tip, pc, txn>>
    BY <1>5 DEF ActivateFactor, vars
  <2>2. TypeOK'
    BY <1>5, NextType DEF GovernanceInv, Next
  <2>3. PhaseOps' /\ LocksExclusive' /\ HeldReadingsCurrent'
    BY <2>1 DEF GovernanceInv, PhaseOps, LocksExclusive, HeldReadingsCurrent,
                HoldsChain, HoldsRecord, CleanAccepts
  <2>4. ChainLinked'
    BY <2>1 DEF GovernanceInv, ChainLinked, LinkBroken, ExpectedPrev
  <2> QED
    BY <2>2, <2>3, <2>4 DEF GovernanceInv
<1> QED
  BY <1>1, <1>2, <1>3, <1>4, <1>5 DEF Next

\* The inductive invariant holds in every behaviour.
THEOREM GovernanceCorrect == Spec => []GovernanceInv
<1> QED
  BY InitInv, NextInv, PTL DEF Spec

\* append_entry() under the chain state's lock: no gap, no repeat, no broken
\* link, whatever requests interleave, crash or lose an actor.
THEOREM ChainLinkedTheorem == Spec => []ChainLinked
<1>1. GovernanceInv => ChainLinked
  BY DEF GovernanceInv
<1> QED
  BY <1>1, GovernanceCorrect, PTL

\* select_for_update() in the views and in save(): what was checked under a
\* lock is still so when the transaction commits.
THEOREM HeldReadingsTheorem == Spec => []HeldReadingsCurrent
<1>1. GovernanceInv => HeldReadingsCurrent
  BY DEF GovernanceInv
<1> QED
  BY <1>1, GovernanceCorrect, PTL

-----------------------------------------------------------------------------
(***************************************************************************)
(* What a step may do to a record                                          *)
(***************************************************************************)

\* The action of WorkflowRespected, for one record.
RowChangeAllowed(r) ==
    /\ rec[r].status # rec'[r].status =>
          rec'[r].status \in WorkflowTransitions[rec[r].status]
    /\ rec[r].status = "APPROVED" =>
          /\ rec'[r].value = rec[r].value
          /\ rec'[r].approver # rec[r].approver =>
                rec'[r].approver = NoUser /\ rec[r].approver \notin users'

\* Only a commit, and the deletion of an account, change records and chain.
LEMMA TablesChangeOnlyBy ==
    ASSUME [Next]_vars
    PROVE  \/ UNCHANGED <<rec, chain, users>>
           \/ \E p \in Requests : Commit(p)
           \/ \E u \in Users : DeleteUser(u)
<1>1. ASSUME NEW p, NEW next, NEW t, Proceed(p, next, t)
      PROVE  UNCHANGED <<rec, chain, users>>
  BY <1>1 DEF Proceed, dbVars
<1>2. ASSUME NEW p, AnswerUnchanged(p)
      PROVE  UNCHANGED <<rec, chain, users>>
  BY <1>2 DEF AnswerUnchanged, dbVars
<1>3. ASSUME NEW p \in Requests, Arrive(p)
      PROVE  UNCHANGED <<rec, chain, users>>
  <2>1. PICK r \in Records, u \in users :
          \/ \E op \in Ops : \/ BeginTransition(p, op, r, u)
                            \/ RefuseTransition(p, op, r)
                            \/ BeginLifecycle(p, op, r, u)
                            \/ RefuseLifecycle(p, op, r)
          \/ ReadForRecalculation(p, r, u) \/ RefuseRecalculation(p, r)
          \/ OpenAdminForm(p, r, u)
    BY <1>3 DEF Arrive
  <2>2. CASE \E op \in Ops : BeginTransition(p, op, r, u) \/ BeginLifecycle(p, op, r, u)
    BY <1>1, <2>2 DEF BeginTransition, BeginLifecycle, SaveRecord
  <2>3. CASE ReadForRecalculation(p, r, u)
    BY <1>1, <2>3 DEF ReadForRecalculation
  <2>4. CASE OpenAdminForm(p, r, u)
    <3>1. PICK s \in Status, v \in Values, d \in BOOLEAN :
            Proceed(p, "form",
                    NewTxn("admin_edit", r, u, rec[r],
                           [rec[r] EXCEPT !.status = s, !.value = v, !.deleted = d]))
      BY <2>4 DEF OpenAdminForm
    <3> QED
      BY <1>1, <3>1
  <2>5. CASE AnswerUnchanged(p)
    BY <1>2, <2>5
  <2> QED
    BY <2>1, <2>2, <2>3, <2>4, <2>5
       DEF RefuseTransition, RefuseLifecycle, RefuseRecalculation
<1>4. ASSUME NEW p \in Requests, Serve(p) \/ Post(p) \/ Crash(p)
      PROVE  UNCHANGED <<rec, chain, users>> \/ Commit(p)
  BY <1>1, <1>2, <1>4
     DEF Serve, Post, Crash, SupersedeCurrent, InsertCalculation, LoseCalculation,
         InsertVersion, LoseVersionNumber, AppendEntry, LoseActor, AbortDeadlocked,
         PostAdminForm, PostAdminFormUnchanged, SaveRecord
<1>5. CASE ActivateFactor \/ UNCHANGED vars
  BY <1>5 DEF ActivateFactor, vars
<1> QED
  BY <1>3, <1>4, <1>5 DEF Next

LEMMA StepRespectsWorkflow ==
    ASSUME GovernanceInv, [Next]_vars, NEW r \in Records
    PROVE  RowChangeAllowed(r)
<1>1. rec[r] \in Row
  BY DEF GovernanceInv, TypeOK
<1>2. CASE UNCHANGED rec
  BY <1>2 DEF RowChangeAllowed
<1>3. ASSUME NEW p \in Requests, Commit(p)
      PROVE  RowChangeAllowed(r)
  <2>1. CASE txn[p].op = "recalculate" \/ txn[p].rec # r
    BY <1>3, <2>1, <1>1 DEF Commit, RowChangeAllowed, GovernanceInv, TypeOK
  <2>2. CASE txn[p].op # "recalculate" /\ txn[p].rec = r
    <3>1. HoldsRecord(p, r)
      BY <1>3, <2>2 DEF Commit, HoldsRecord
    <3>2. CleanAccepts(rec[r], txn[p].row)
      BY <3>1 DEF GovernanceInv, HeldReadingsCurrent
    <3>3. rec'[r] = txn[p].row
      BY <1>3, <2>2 DEF Commit, GovernanceInv, TypeOK
    <3>4. txn[p].row \in Row
      BY <1>3, ActiveTxn DEF Commit, Active, GovernanceInv, Txn
    <3>5. rec[r].status = "APPROVED" =>
            rec'[r].value = rec[r].value /\ rec'[r].approver = rec[r].approver
      BY <1>1, <3>2, <3>3, <3>4 DEF CleanAccepts, Row
    <3>6. rec[r].status # rec'[r].status =>
            rec'[r].status \in WorkflowTransitions[rec[r].status]
      BY <3>2, <3>3 DEF CleanAccepts
    <3> QED
      BY <3>5, <3>6 DEF RowChangeAllowed
  <2> QED
    BY <2>1, <2>2
<1>4. ASSUME NEW u \in Users, DeleteUser(u)
      PROVE  RowChangeAllowed(r)
  <2>1. rec'[r] = WithoutUser(rec[r], u) /\ u \notin users'
    BY <1>4 DEF DeleteUser
  <2>2. /\ rec'[r].status = rec[r].status /\ rec'[r].value = rec[r].value
        /\ rec'[r].approver = IF rec[r].approver = u THEN NoUser ELSE rec[r].approver
    BY <1>1, <2>1 DEF WithoutUser, Row
  <2> QED
    BY <2>1, <2>2 DEF RowChangeAllowed
<1> QED
  BY <1>2, <1>3, <1>4, TablesChangeOnlyBy

\* EmissionRecord.clean(), called by every save under the row lock: no race of
\* API requests and Admin forms takes a record off the workflow's edges, and
\* nothing but the deletion of its approver touches an approved record's
\* business fields.
THEOREM WorkflowTheorem == Spec => WorkflowRespected
<1>1. GovernanceInv /\ [Next]_vars => [\A r \in Records : RowChangeAllowed(r)]_vars
  BY StepRespectsWorkflow
<1>2. (\A r \in Records : RowChangeAllowed(r)) <=>
      (\A r \in Records :
        /\ rec[r].status # rec'[r].status =>
              rec'[r].status \in WorkflowTransitions[rec[r].status]
        /\ rec[r].status = "APPROVED" =>
              /\ rec'[r].value = rec[r].value
              /\ rec'[r].approver # rec[r].approver =>
                    rec'[r].approver = NoUser /\ rec[r].approver \notin users')
  BY DEF RowChangeAllowed
<1> QED
  BY <1>1, <1>2, GovernanceCorrect, PTL DEF Spec, WorkflowRespected

-----------------------------------------------------------------------------
(***************************************************************************)
(* What makes a chain look tampered with                                   *)
(***************************************************************************)

\* A stored hash commits to the row it is stored in, up to the actor: the row
\* still names the hashed one, or NULL because that account is gone.
Sealed(entry, existing) ==
    \E h \in Users :
        /\ entry.entryHash = ComputeEntryHash(
               [CanonicalPayload(entry) EXCEPT !.changedBy = h], entry.prevHash)
        /\ entry.changedBy = h \/ (entry.changedBy = NoUser /\ h \notin existing)

EntriesSealed == \A i \in DOMAIN chain : Sealed(chain[i], users)

SealedInv == TypeOK /\ EntriesSealed

LEMMA SealedEntry ==
    ASSUME NEW t \in Txn, NEW existing
    PROVE  Sealed(EntryOf(t), existing)
<1>1. t.actor \in Users
  BY DEF Txn
<1> DEFINE e == EntryOf(t)
<1>2. /\ e.changedBy = t.actor
      /\ e.entryHash = ComputeEntryHash(CanonicalPayload(e), e.prevHash)
  BY DEF EntryOf, NewEntry, CanonicalPayload, ComputeEntryHash
<1>3. [CanonicalPayload(e) EXCEPT !.changedBy = e.changedBy] = CanonicalPayload(e)
  BY DEF CanonicalPayload
<1> QED
  BY <1>1, <1>2, <1>3 DEF Sealed

LEMMA DeleteUserSealed ==
    ASSUME SealedInv, NEW u \in Users, DeleteUser(u)
    PROVE  EntriesSealed'
<1>1. chain \in Seq(Entry) /\ DOMAIN chain' = DOMAIN chain
  BY DEF SealedInv, TypeOK, DeleteUser
<1>2. users' = users \ {u}
  BY DEF DeleteUser
<1>3. ASSUME NEW i \in DOMAIN chain
      PROVE  Sealed(chain'[i], users')
  <2>1. chain[i] \in Entry
    BY <1>1, ElementOfSeq
  <2>2. PICK h \in Users :
          /\ chain[i].entryHash = ComputeEntryHash(
                [CanonicalPayload(chain[i]) EXCEPT !.changedBy = h], chain[i].prevHash)
          /\ chain[i].changedBy = h \/ (chain[i].changedBy = NoUser /\ h \notin users)
    BY DEF SealedInv, EntriesSealed, Sealed
  <2>3. chain'[i] = IF chain[i].changedBy = u THEN [chain[i] EXCEPT !.changedBy = NoUser]
                                              ELSE chain[i]
    BY DEF DeleteUser
  <2>4. /\ chain'[i].entryHash = chain[i].entryHash /\ chain'[i].prevHash = chain[i].prevHash
        /\ chain'[i].sequence = chain[i].sequence /\ chain'[i].record = chain[i].record
        /\ chain'[i].action = chain[i].action /\ chain'[i].changes = chain[i].changes
        /\ chain'[i].changedBy = IF chain[i].changedBy = u THEN NoUser ELSE chain[i].changedBy
    BY <2>1, <2>3 DEF Entry
  <2>5. [CanonicalPayload(chain'[i]) EXCEPT !.changedBy = h]
          = [CanonicalPayload(chain[i]) EXCEPT !.changedBy = h]
    BY <2>4 DEF CanonicalPayload
  <2>6. chain'[i].changedBy = h \/ (chain'[i].changedBy = NoUser /\ h \notin users')
    BY <1>2, <2>2, <2>4, NoUserAssumption
  <2> QED
    BY <2>2, <2>4, <2>5, <2>6 DEF Sealed
<1> QED
  BY <1>1, <1>3 DEF EntriesSealed

LEMMA CommitSealed ==
    ASSUME SealedInv, NEW p \in Requests, Commit(p)
    PROVE  EntriesSealed'
<1>1. txn[p] \in Txn /\ chain \in Seq(Entry)
  BY ActiveTxn DEF Commit, Active, SealedInv, TypeOK
<1>2. Sealed(EntryOf(txn[p]), users)
  BY <1>1, SealedEntry
<1>3. UNCHANGED users /\ (UNCHANGED chain \/ chain' = Append(chain, EntryOf(txn[p])))
  BY DEF Commit
<1>4. CASE UNCHANGED chain
  BY <1>3, <1>4 DEF SealedInv, EntriesSealed
<1>5. CASE chain' = Append(chain, EntryOf(txn[p]))
  <2>1. \A i \in DOMAIN chain' :
          \/ i \in DOMAIN chain /\ chain'[i] = chain[i]
          \/ chain'[i] = EntryOf(txn[p])
    BY <1>1, <1>5
  <2> QED
    BY <1>2, <1>3, <2>1 DEF SealedInv, EntriesSealed
<1> QED
  BY <1>3, <1>4, <1>5

LEMMA SealedCorrect == Spec => []SealedInv
<1>1. Init => SealedInv
  <2>1. Init => \A i \in DOMAIN chain : FALSE
    BY DEF Init
  <2> QED
    BY <2>1, InitType DEF SealedInv, EntriesSealed
<1>2. SealedInv /\ [Next]_vars => SealedInv'
  <2> SUFFICES ASSUME SealedInv, [Next]_vars PROVE SealedInv'
    OBVIOUS
  <2>1. TypeOK'
    BY NextType DEF SealedInv
  <2>2. ASSUME UNCHANGED <<rec, chain, users>>
        PROVE  EntriesSealed'
    BY <2>2 DEF SealedInv, EntriesSealed
  <2>3. EntriesSealed'
    BY <2>2, CommitSealed, DeleteUserSealed, TablesChangeOnlyBy
  <2> QED
    BY <2>1, <2>3 DEF SealedInv
<1> QED
  BY <1>1, <1>2, PTL DEF Spec

\* verify_chain() recomputes another hash than the stored one only for entries
\* whose account user.delete() removed: no interleaving of requests, crash or
\* lost race makes a chain look tampered with.
THEOREM AlteredTheorem == Spec => []AlteredOnlyByUserDeletion
<1>1. ASSUME SealedInv, NEW i \in DOMAIN chain, ContentAltered(chain, i)
      PROVE  chain[i].changedBy = NoUser /\ HashedActor(chain[i]) \in Users \ users
  <2>1. chain[i] \in Entry
    BY <1>1, ElementOfSeq DEF SealedInv, TypeOK
  <2>2. PICK h \in Users :
          /\ chain[i].entryHash = ComputeEntryHash(
                [CanonicalPayload(chain[i]) EXCEPT !.changedBy = h], chain[i].prevHash)
          /\ chain[i].changedBy = h \/ (chain[i].changedBy = NoUser /\ h \notin users)
    BY <1>1 DEF SealedInv, EntriesSealed, Sealed
  <2> DEFINE payload == [CanonicalPayload(chain[i]) EXCEPT !.changedBy = h]
  <2>3. payload.changedBy = h
    BY DEF CanonicalPayload
  <2>4. chain[i].changedBy # h
    <3>1. SUFFICES ASSUME chain[i].changedBy = h PROVE FALSE
      OBVIOUS
    <3>2. payload = CanonicalPayload(chain[i])
      BY <3>1 DEF CanonicalPayload
    <3> QED
      BY <1>1, <2>2, <3>2 DEF ContentAltered
  <2>5. HashedActor(chain[i]) = h
    <3>1. /\ chain[i].prevHash \in Hash
          /\ payload \in [sequence : Nat, record : Records, action : Actions,
                          changedBy : Users \cup {NoUser}, changes : ChangeSet]
      BY <2>1 DEF Entry, CanonicalPayload
    <3>2. chain[i].entryHash = Append(chain[i].prevHash, payload)
      BY <2>2 DEF ComputeEntryHash
    <3> HIDE DEF payload
    <3>3. chain[i].entryHash[Len(chain[i].entryHash)] = payload
      BY <3>1, <3>2 DEF Hash
    <3> QED
      BY <2>3, <3>3 DEF HashedActor
  <2> QED
    BY <2>2, <2>4, <2>5
<1>2. SealedInv => AlteredOnlyByUserDeletion
  BY <1>1 DEF AlteredOnlyByUserDeletion
<1> QED
  BY <1>2, SealedCorrect, PTL

=============================================================================
