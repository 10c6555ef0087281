------------------------ MODULE RecordHistory_proofs ------------------------
(***************************************************************************)
(* Theorems about the histories RecordGovernance keeps -- versions,        *)
(* calculations, audit entries -- and about the two specifications it      *)
(* implements, for every set of requests, records, accounts and values.    *)
(*                                                                         *)
(* What holds whatever operations are issued is stated of Spec alone; what *)
(* an operation breaks is stated of the systems that do not issue it, as   *)
(* an assumption on Ops.                                                   *)
(***************************************************************************)
EXTENDS RecordGovernance_proofs, FiniteSetTheorems

-----------------------------------------------------------------------------
(***************************************************************************)
(* The steps of the system, by what they write                             *)
(***************************************************************************)

\* p takes the free record r and saves `row`: a workflow transition, a soft
\* delete or restore, or a posted Admin form.
Saves(p, op, r, u, row) ==
    /\ RecordFree(r)
    /\ SaveRecord(p, op, r, u, row)
    /\ \/ /\ op \in TransitionOps /\ op \in Ops /\ pc[p] = "idle"
          /\ ~rec[r].deleted
          /\ row = Transitioned(rec[r], op, u)
       \/ /\ op \in LifecycleOps /\ op \in Ops /\ pc[p] = "idle"
          /\ rec[r].deleted = (op = "restore")
          /\ row = [rec[r] EXCEPT !.deleted = (op = "delete")]
       \/ op = "admin_edit" /\ pc[p] = "form"

\* p reads a record without a lock: to recalculate it, or to edit it in Admin.
Reads(p, next, t) ==
    /\ \/ next = "computed" /\ t.op = "recalculate"
       \/ next = "form" /\ t.op = "admin_edit"
    /\ t.op \in Ops
    /\ Proceed(p, next, t)

Saving(p) ==
    \E op \in RequestOps, r \in Records, u \in Users, row \in Row : Saves(p, op, r, u, row)

Reading(p) == \E next, t : Reads(p, next, t)

LEMMA ArriveCases ==
    ASSUME TypeOK, NEW p \in Requests, Arrive(p)
    PROVE  \/ AnswerUnchanged(p)
           \/ Saving(p)
           \/ Reading(p)
<1>1. PICK r \in Records, u \in users :
        \/ \E op \in Ops : \/ BeginTransition(p, op, r, u)
                          \/ RefuseTransition(p, op, r)
                          \/ BeginLifecycle(p, op, r, u)
                          \/ RefuseLifecycle(p, op, r)
        \/ "recalculate" \in Ops /\ (ReadForRecalculation(p, r, u) \/ RefuseRecalculation(p, r))
        \/ "admin_edit" \in Ops /\ OpenAdminForm(p, r, u)
  BY DEF Arrive
<1>2. u \in Users /\ rec[r] \in Row
  BY <1>1 DEF TypeOK
<1>3. ASSUME NEW op \in Ops, BeginTransition(p, op, r, u)
      PROVE  Saving(p)
  <2>1. op \in RequestOps /\ op \in TransitionOps
    BY <1>3 DEF BeginTransition, RequestOps, LockingOps
  <2>2. TargetStatus(op) \in Status
    BY <2>1 DEF TransitionOps, TargetStatus, Status
  <2>3. Transitioned(rec[r], op, u) \in Row
    BY <1>2, <2>2 DEF Transitioned, Row
  <2>4. Saves(p, op, r, u, Transitioned(rec[r], op, u))
    BY <1>3, <2>1 DEF BeginTransition, Saves
  <2> QED
    BY <1>2, <2>1, <2>3, <2>4 DEF Saving
<1>4. ASSUME NEW op \in Ops, BeginLifecycle(p, op, r, u)
      PROVE  Saving(p)
  <2>1. op \in RequestOps /\ op \in LifecycleOps
    BY <1>4 DEF BeginLifecycle, RequestOps, LockingOps
  <2> DEFINE row == [rec[r] EXCEPT !.deleted = (op = "delete")]
  <2>2. row \in Row
    BY <1>2 DEF Row
  <2>3. Saves(p, op, r, u, row)
    BY <1>4, <2>1 DEF BeginLifecycle, Saves
  <2> HIDE DEF row
  <2> QED
    BY <1>2, <2>1, <2>2, <2>3 DEF Saving
<1>5. CASE "recalculate" \in Ops /\ ReadForRecalculation(p, r, u)
  <2> DEFINE t == [NewTxn("recalculate", r, u, rec[r], rec[r]) EXCEPT !.factor = activeFactor]
  <2>1. Proceed(p, "computed", t) /\ t.op = "recalculate"
    BY <1>5 DEF ReadForRecalculation, NewTxn
  <2> HIDE DEF t
  <2> QED
    BY <1>5, <2>1 DEF Reads, Reading
<1>6. CASE "admin_edit" \in Ops /\ OpenAdminForm(p, r, u)
  <2>1. PICK s \in Status, v \in Values, d \in BOOLEAN :
          Proceed(p, "form",
                  NewTxn("admin_edit", r, u, rec[r],
                         [rec[r] EXCEPT !.status = s, !.value = v, !.deleted = d]))
    BY <1>6 DEF OpenAdminForm
  <2> DEFINE t == NewTxn("admin_edit", r, u, rec[r],
                         [rec[r] EXCEPT !.status = s, !.value = v, !.deleted = d])
  <2>2. Proceed(p, "form", t) /\ t.op = "admin_edit"
    BY <2>1 DEF NewTxn
  <2> HIDE DEF t
  <2> QED
    BY <1>6, <2>2 DEF Reads, Reading
<1> QED
  BY <1>1, <1>3, <1>4, <1>5, <1>6
     DEF RefuseTransition, RefuseLifecycle, RefuseRecalculation

LEMMA StepCases ==
    ASSUME TypeOK, [Next]_vars
    PROVE  \/ \E p \in Requests :
               \/ AnswerUnchanged(p)
               \/ Saving(p)
               \/ Reading(p)
               \/ SupersedeCurrent(p) \/ InsertCalculation(p)
               \/ InsertVersion(p) \/ AppendEntry(p) \/ Commit(p)
           \/ "delete_user" \in Ops /\ \E u \in Users : DeleteUser(u)
           \/ UNCHANGED <<rec, versions, calcs, chain, tip, users, pc, txn>>
<1>1. ASSUME NEW p \in Requests, PostAdminForm(p)
      PROVE  Saving(p)
  <2>1. txn[p] \in Txn /\ pc[p] = "form"
    BY <1>1, ActiveTxn DEF PostAdminForm, Active
  <2>2. txn[p].rec \in Records /\ txn[p].actor \in Users /\ txn[p].row \in Row
    BY <2>1 DEF Txn
  <2>3. Saves(p, "admin_edit", txn[p].rec, txn[p].actor, txn[p].row)
    BY <1>1, <2>1 DEF PostAdminForm, Saves
  <2>4. "admin_edit" \in RequestOps
    BY DEF RequestOps
  <2> QED
    BY <2>2, <2>3, <2>4 DEF Saving
<1>2. ASSUME NEW p \in Requests, Serve(p) \/ Post(p) \/ Crash(p)
      PROVE  \/ AnswerUnchanged(p) \/ PostAdminForm(p)
             \/ SupersedeCurrent(p) \/ InsertCalculation(p)
             \/ InsertVersion(p) \/ AppendEntry(p) \/ Commit(p)
  BY <1>2 DEF Serve, Post, Crash, LoseCalculation, LoseVersionNumber, LoseActor,
              AbortDeadlocked, PostAdminFormUnchanged
<1>3. CASE ActivateFactor \/ UNCHANGED vars
  BY <1>3 DEF ActivateFactor, vars
<1>4. ASSUME NEW p \in Requests, Arrive(p)
      PROVE  \/ AnswerUnchanged(p)
             \/ Saving(p)
             \/ Reading(p)
  BY <1>4, ArriveCases
<1> QED
  BY <1>1, <1>2, <1>3, <1>4 DEF Next

\* What Proceed and AnswerUnchanged write.
LEMMA ProceedEffect ==
    ASSUME TypeOK, NEW p \in Requests, NEW next, NEW t, Proceed(p, next, t)
    PROVE  /\ pc'[p] = next /\ txn'[p] = t
           /\ \A q \in Requests : q # p => pc'[q] = pc[q] /\ txn'[q] = txn[q]
           /\ UNCHANGED <<rec, versions, calcs, chain, tip, users, activeFactor>>
  BY DEF TypeOK, Proceed, dbVars

LEMMA AnswerEffect ==
    ASSUME TypeOK, NEW p \in Requests, AnswerUnchanged(p)
    PROVE  /\ pc'[p] = "answered"
           /\ \A q \in Requests : q # p => pc'[q] = pc[q] /\ txn'[q] = txn[q]
           /\ UNCHANGED <<rec, versions, calcs, chain, tip, users, activeFactor>>
  BY DEF TypeOK, AnswerUnchanged, dbVars

\* The transaction a locking save starts.
SavedTxn(op, r, u, row) ==
    [NewTxn(op, r, u, rec[r], row) EXCEPT
        !.number = NextVersionNumber(r), !.base = CurrentCalculation(r)]

LEMMA SavesEffect ==
    ASSUME TypeOK, NEW p \in Requests, NEW op, NEW r \in Records, NEW u, NEW row,
           Saves(p, op, r, u, row)
    PROVE  /\ pc'[p] = "insert" /\ txn'[p] = SavedTxn(op, r, u, row)
           /\ \A q \in Requests : q # p => pc'[q] = pc[q] /\ txn'[q] = txn[q]
           /\ UNCHANGED <<rec, versions, calcs, chain, tip, users, activeFactor>>
           /\ SavedTxn(op, r, u, row).op = op /\ SavedTxn(op, r, u, row).rec = r
           /\ SavedTxn(op, r, u, row).actor = u
           /\ SavedTxn(op, r, u, row).old = rec[r] /\ SavedTxn(op, r, u, row).row = row
           /\ SavedTxn(op, r, u, row).number = Len(versions[r]) + 1
<1>1. Proceed(p, "insert", SavedTxn(op, r, u, row))
  BY DEF Saves, SaveRecord, SavedTxn
<1> DEFINE t == SavedTxn(op, r, u, row)
<1>2. /\ t.op = op /\ t.rec = r /\ t.actor = u /\ t.old = rec[r] /\ t.row = row
      /\ t.number = Len(versions[r]) + 1
  BY DEF SavedTxn, NewTxn, NextVersionNumber
<1> QED
  BY <1>1, <1>2, ProceedEffect

\* What a commit writes, table by table.
LEMMA CommitEffect ==
    ASSUME TypeOK, NEW p \in Requests, Commit(p)
    PROVE  /\ pc[p] = "commit" /\ pc'[p] = "answered"
           /\ txn[p] \in Txn /\ txn[p].rec \in Records
           /\ \A q \in Requests : q # p => pc'[q] = pc[q] /\ txn'[q] = txn[q]
           /\ \A r \in Records : r # txn[p].rec =>
                rec'[r] = rec[r] /\ versions'[r] = versions[r] /\ calcs'[r] = calcs[r]
           /\ rec'[txn[p].rec] =
                IF txn[p].op = "recalculate" THEN rec[txn[p].rec] ELSE txn[p].row
           /\ versions'[txn[p].rec] = Append(versions[txn[p].rec], VersionOf(txn[p]))
           /\ calcs'[txn[p].rec] =
                IF txn[p].op = "recalculate" THEN Recalculated(txn[p]) ELSE calcs[txn[p].rec]
           /\ users' = users
<1>1. txn[p] \in Txn /\ txn[p].rec \in Records /\ pc[p] = "commit"
  BY ActiveTxn DEF Commit, Active, Txn
<1> QED
  BY <1>1 DEF TypeOK, Commit

-----------------------------------------------------------------------------
(***************************************************************************)
(* Numbers read without a lock: versions and current calculations          *)
(***************************************************************************)

\* A request past its INSERT owns its key; the number it computed before can
\* be late, but is never ahead of the rows committed.
KeysClaimed ==
    /\ \A p \in Requests :
         /\ pc[p] \in {"insert", "append", "commit"} =>
               txn[p].number <= Len(versions[txn[p].rec]) + 1
         /\ HasInserted(p) => txn[p].number = Len(versions[txn[p].rec]) + 1
    /\ \A p, q \in Requests :
         HasInserted(p) /\ HasInserted(q) /\ txn[p].rec = txn[q].rec => p = q

\* An uncommitted calculation is the only one of its record, and what it will
\* demote is still the newest.
CalculationsClaimed ==
    /\ \A p \in Requests : \A r \in Records :
         PendingCalculation(p, r) => txn[p].base = Len(calcs[r])
    /\ \A p, q \in Requests : \A r \in Records :
         PendingCalculation(p, r) /\ PendingCalculation(q, r) => p = q

\* Every record has the version it was ingested with.
FirstVersionKept == \A r \in Records : Len(versions[r]) >= 1

CountersInv ==
    /\ GovernanceInv
    /\ KeysClaimed /\ FirstVersionKept /\ VersionsContiguous
    /\ CalculationsClaimed /\ OneCurrentCalculation

\* What _current_calculation finds when there is one current row, the newest.
LEMMA CurrentIsNewest ==
    ASSUME NEW r \in Records, calcs \in [Records -> Seq(Calculation)], OneCurrentCalculation
    PROVE  CurrentCalculation(r) = Len(calcs[r])
<1>1. calcs[r] \in Seq(Calculation) /\ Len(calcs[r]) \in Nat /\ DOMAIN calcs[r] = 1..Len(calcs[r])
  OBVIOUS
<1>2. \A i \in DOMAIN calcs[r] : calcs[r][i].current <=> i = Len(calcs[r])
  BY DEF OneCurrentCalculation
<1>3. CASE Len(calcs[r]) = 0
  BY <1>1, <1>3 DEF CurrentCalculation
<1>4. CASE Len(calcs[r]) # 0
  <2>1. Len(calcs[r]) \in DOMAIN calcs[r] /\ calcs[r][Len(calcs[r])].current
    BY <1>1, <1>2, <1>4
  <2>2. \A i \in DOMAIN calcs[r] : calcs[r][i].current => i = Len(calcs[r])
    BY <1>2
  <2> QED
    BY <2>1, <2>2 DEF CurrentCalculation
<1> QED
  BY <1>3, <1>4

LEMMA InitCounters == Init => CountersInv
<1> SUFFICES ASSUME Init PROVE CountersInv
  OBVIOUS
<1>1. GovernanceInv
  BY InitInv
<1>2. KeysClaimed /\ CalculationsClaimed
  BY DEF Init, KeysClaimed, CalculationsClaimed, HasInserted, PendingCalculation
<1>3. VersionsContiguous /\ FirstVersionKept
  <2>1. \A r \in Records : versions[r] = << [number |-> 1, row |-> rec[r], calc |-> 0] >>
    BY DEF Init
  <2>2. ASSUME NEW r \in Records
        PROVE  Len(versions[r]) = 1 /\ DOMAIN versions[r] = {1} /\ versions[r][1].number = 1
    <3> DEFINE v == [number |-> 1, row |-> rec[r], calc |-> 0]
    <3>1. versions[r] = << v >> /\ v.number = 1
      BY <2>1
    <3> HIDE DEF v
    <3> QED
      BY <3>1
  <2> QED
    BY <2>2 DEF VersionsContiguous, FirstVersionKept
<1>4. OneCurrentCalculation
  <2>1. \A r \in Records :
          \/ \E c : calcs[r] = << c >> /\ c.current
          \/ calcs[r] = << >>
    BY DEF Init
  <2>2. ASSUME NEW r \in Records, NEW i \in DOMAIN calcs[r]
        PROVE  calcs[r][i].current <=> i = Len(calcs[r])
    <3>1. PICK c : calcs[r] = << c >> /\ c.current
      BY <2>1, <2>2
    <3>2. DOMAIN calcs[r] = {1} /\ Len(calcs[r]) = 1 /\ calcs[r][1] = c
      BY <3>1
    <3> QED
      BY <3>1, <3>2
  <2> QED
    BY <2>2 DEF OneCurrentCalculation
<1> QED
  BY <1>1, <1>2, <1>3, <1>4 DEF CountersInv

\* A step that moves p and leaves the tables: it suffices to look at p.
LEMMA ClaimsKept ==
    ASSUME CountersInv, GovernanceInv', NEW p \in Requests,
           UNCHANGED <<versions, calcs>>,
           \A q \in Requests : q # p => pc'[q] = pc[q] /\ txn'[q] = txn[q],
           pc'[p] \in {"insert", "append", "commit"} =>
               txn'[p].number <= Len(versions[txn'[p].rec]) + 1,
           HasInserted(p)' =>
               /\ txn'[p].number = Len(versions[txn'[p].rec]) + 1
               /\ \A q \in Requests : q # p /\ HasInserted(q) => txn[q].rec # txn'[p].rec,
           \A r \in Records : PendingCalculation(p, r)' =>
               /\ txn'[p].base = Len(calcs[r])
               /\ \A q \in Requests : q # p => ~PendingCalculation(q, r)
    PROVE  CountersInv'
<1>1. \A q \in Requests : q # p =>
        /\ HasInserted(q)' <=> HasInserted(q)
        /\ \A r \in Records : PendingCalculation(q, r)' <=> PendingCalculation(q, r)
  BY DEF HasInserted, PendingCalculation
<1>2. KeysClaimed'
  BY <1>1 DEF CountersInv, KeysClaimed
<1>3. CalculationsClaimed'
  BY <1>1 DEF CountersInv, CalculationsClaimed
<1>4. VersionsContiguous' /\ FirstVersionKept' /\ OneCurrentCalculation'
  BY DEF CountersInv, VersionsContiguous, FirstVersionKept, OneCurrentCalculation
<1> QED
  BY <1>2, <1>3, <1>4 DEF CountersInv

LEMMA ServeCounters ==
    ASSUME CountersInv, GovernanceInv', NEW p \in Requests,
           \/ AnswerUnchanged(p)
           \/ Saving(p)
           \/ Reading(p)
           \/ SupersedeCurrent(p) \/ InsertCalculation(p)
           \/ InsertVersion(p) \/ AppendEntry(p)
    PROVE  CountersInv'
<1> TypeOK
  BY DEF CountersInv, GovernanceInv
<1>1. CASE AnswerUnchanged(p)
  <2>1. ~HasInserted(p)' /\ \A r \in Records : ~PendingCalculation(p, r)'
    BY <1>1, AnswerEffect DEF HasInserted, PendingCalculation
  <2> QED
    BY <1>1, <2>1, AnswerEffect, ClaimsKept
<1>2. ASSUME NEW op \in RequestOps, NEW r \in Records, NEW u, NEW row, Saves(p, op, r, u, row)
      PROVE  CountersInv'
  <2>1. /\ pc'[p] = "insert" /\ txn'[p].op = op /\ txn'[p].rec = r
        /\ txn'[p].number = Len(versions[r]) + 1
        /\ \A q \in Requests : q # p => pc'[q] = pc[q] /\ txn'[q] = txn[q]
        /\ UNCHANGED <<versions, calcs>>
    <3>1. /\ txn'[p] = SavedTxn(op, r, u, row)
          /\ pc'[p] = "insert"
          /\ \A q \in Requests : q # p => pc'[q] = pc[q] /\ txn'[q] = txn[q]
          /\ UNCHANGED <<versions, calcs>>
      BY <1>2, SavesEffect
    <3>2. /\ SavedTxn(op, r, u, row).op = op /\ SavedTxn(op, r, u, row).rec = r
          /\ SavedTxn(op, r, u, row).number = Len(versions[r]) + 1
      BY <1>2, SavesEffect
    <3> QED
      BY <3>1, <3>2
  <2>2. Len(versions[r]) + 1 <= Len(versions[r]) + 1
    <3>1. Len(versions[r]) \in Nat
      BY DEF TypeOK
    <3> QED
      BY <3>1
  <2>3. op # "recalculate"
    BY <1>2 DEF Saves, TransitionOps, LifecycleOps
  <2>4. ~HasInserted(p)' /\ \A s \in Records : ~PendingCalculation(p, s)'
    BY <2>1, <2>3 DEF HasInserted, PendingCalculation
  <2> QED
    BY <2>1, <2>2, <2>4, ClaimsKept
<1>3. ASSUME NEW next, NEW t, Reads(p, next, t)
      PROVE  CountersInv'
  <2>1. /\ pc'[p] \in {"computed", "form"}
        /\ \A q \in Requests : q # p => pc'[q] = pc[q] /\ txn'[q] = txn[q]
        /\ UNCHANGED <<versions, calcs>>
    BY <1>3, ProceedEffect DEF Reads
  <2>2. ~HasInserted(p)' /\ \A r \in Records : ~PendingCalculation(p, r)'
    BY <2>1 DEF HasInserted, PendingCalculation
  <2> QED
    BY <2>1, <2>2, ClaimsKept
<1>4. CASE SupersedeCurrent(p)
  <2>1. /\ pc'[p] = "superseding"
        /\ \A q \in Requests : q # p => pc'[q] = pc[q] /\ txn'[q] = txn[q]
        /\ UNCHANGED <<versions, calcs>>
    BY <1>4, ProceedEffect DEF SupersedeCurrent
  <2>2. ~HasInserted(p)' /\ \A r \in Records : ~PendingCalculation(p, r)'
    BY <2>1 DEF HasInserted, PendingCalculation
  <2> QED
    BY <2>1, <2>2, ClaimsKept
<1>5. CASE InsertCalculation(p)
  <2> DEFINE t == [txn[p] EXCEPT !.number = NextVersionNumber(txn[p].rec)]
  <2>1. /\ pc'[p] = "insert" /\ txn'[p] = t
        /\ \A q \in Requests : q # p => pc'[q] = pc[q] /\ txn'[q] = txn[q]
        /\ UNCHANGED <<versions, calcs>>
    BY <1>5, ProceedEffect DEF InsertCalculation
  <2>2. txn[p] \in Txn
    BY <1>5, ActiveTxn DEF InsertCalculation, Active
  <2>3. /\ t.rec = txn[p].rec /\ t.base = txn[p].base
        /\ t.number = Len(versions[t.rec]) + 1 /\ t.rec \in Records
    BY <2>2 DEF Txn, NextVersionNumber
  <2> HIDE DEF t
  <2>4. t.number <= Len(versions[t.rec]) + 1
    <3>1. Len(versions[t.rec]) \in Nat
      BY <2>3 DEF TypeOK
    <3> QED
      BY <2>3, <3>1
  <2>5. CurrentCalculation(t.rec) = Len(calcs[t.rec])
    BY <2>3, CurrentIsNewest DEF CountersInv, TypeOK
  <2>6. /\ t.base = Len(calcs[t.rec])
        /\ \A q \in Requests : ~PendingCalculation(q, t.rec)
    BY <1>5, <2>3, <2>5 DEF InsertCalculation
  <2>7. ~HasInserted(p)' /\ \A s \in Records : PendingCalculation(p, s)' => s = t.rec
    BY <2>1 DEF HasInserted, PendingCalculation
  <2> QED
    BY <2>1, <2>4, <2>6, <2>7, ClaimsKept
<1>6. CASE InsertVersion(p)
  <2>1. /\ pc[p] = "insert" /\ pc'[p] \in {"append", "commit"} /\ txn'[p] = txn[p]
        /\ \A q \in Requests : q # p => pc'[q] = pc[q] /\ txn'[q] = txn[q]
        /\ UNCHANGED <<versions, calcs>>
    BY <1>6, ProceedEffect DEF InsertVersion
  <2>2. txn[p] \in Txn /\ txn[p].rec \in Records /\ txn[p].number \in Nat
    BY <2>1, ActiveTxn DEF Active, Txn
  <2>3. Len(versions[txn[p].rec]) \in Nat
    BY <2>2 DEF TypeOK
  <2>4. txn[p].number = Len(versions[txn[p].rec]) + 1
    BY <1>6, <2>1, <2>2, <2>3 DEF InsertVersion, CountersInv, KeysClaimed
  <2>5. ASSUME NEW q \in Requests, q # p, HasInserted(q)
        PROVE  txn[q].rec # txn[p].rec
    <3>1. txn[q].number = Len(versions[txn[q].rec]) + 1
      BY <2>5 DEF CountersInv, KeysClaimed
    <3> QED
      BY <1>6, <2>4, <2>5, <3>1 DEF InsertVersion, VersionKeyTakenBy
  <2>6. \A r \in Records : PendingCalculation(p, r)' => PendingCalculation(p, r)
    BY <2>1 DEF PendingCalculation
  <2>7. \A r \in Records : PendingCalculation(p, r) =>
          /\ txn[p].base = Len(calcs[r])
          /\ \A q \in Requests : q # p => ~PendingCalculation(q, r)
    BY DEF CountersInv, CalculationsClaimed
  <2>8. txn[p].number <= Len(versions[txn[p].rec]) + 1
    BY <2>2, <2>3, <2>4
  <2> QED
    BY <2>1, <2>4, <2>5, <2>6, <2>7, <2>8, ClaimsKept
<1>7. CASE AppendEntry(p)
  <2> DEFINE t == [txn[p] EXCEPT !.seen = tip]
  <2>1. /\ pc[p] = "append" /\ pc'[p] = "commit" /\ txn'[p] = t
        /\ \A q \in Requests : q # p => pc'[q] = pc[q] /\ txn'[q] = txn[q]
        /\ UNCHANGED <<versions, calcs>>
    BY <1>7, ProceedEffect DEF AppendEntry
  <2>2. txn[p] \in Txn
    BY <2>1, ActiveTxn DEF Active
  <2>3. t.rec = txn[p].rec /\ t.base = txn[p].base /\ t.number = txn[p].number /\ t.op = txn[p].op
    BY <2>2 DEF Txn
  <2> HIDE DEF t
  <2>4. HasInserted(p)
    BY <2>1 DEF HasInserted
  <2>5. /\ txn[p].number = Len(versions[txn[p].rec]) + 1
        /\ txn[p].number <= Len(versions[txn[p].rec]) + 1
        /\ \A q \in Requests : q # p /\ HasInserted(q) => txn[q].rec # txn[p].rec
    BY <2>1, <2>4 DEF CountersInv, KeysClaimed
  <2>6. \A r \in Records : PendingCalculation(p, r)' => PendingCalculation(p, r)
    BY <2>1, <2>3 DEF PendingCalculation
  <2>7. \A r \in Records : PendingCalculation(p, r) =>
          /\ txn[p].base = Len(calcs[r])
          /\ \A q \in Requests : q # p => ~PendingCalculation(q, r)
    BY DEF CountersInv, CalculationsClaimed
  <2> QED
    BY <2>1, <2>3, <2>5, <2>6, <2>7, ClaimsKept
<1> QED
  BY <1>1, <1>2, <1>3, <1>4, <1>5, <1>6, <1>7 DEF Saving, Reading

\* What Recalculated writes when the calculation it demotes is the newest.
LEMMA RecalculatedCurrent ==
    ASSUME NEW t \in Txn, calcs \in [Records -> Seq(Calculation)], OneCurrentCalculation,
           t.base = Len(calcs[t.rec])
    PROVE  LET n == Len(calcs[t.rec]) IN
           /\ DOMAIN Recalculated(t) = 1..(n + 1) /\ Len(Recalculated(t)) = n + 1
           /\ \A i \in DOMAIN Recalculated(t) : Recalculated(t)[i].current <=> i = n + 1
<1> DEFINE n == Len(calcs[t.rec])
           old == [i \in DOMAIN calcs[t.rec] |->
                      IF i = t.base THEN [calcs[t.rec][i] EXCEPT !.current = FALSE]
                                    ELSE calcs[t.rec][i]]
           new == [factor |-> t.factor, value |-> t.row.value, current |-> TRUE]
<1>1. t.rec \in Records /\ calcs[t.rec] \in Seq(Calculation) /\ n \in Nat
      /\ DOMAIN calcs[t.rec] = 1..n
  BY DEF Txn
<1>2. ASSUME NEW i \in 1..n
      PROVE  old[i].current = FALSE
  <2>1. calcs[t.rec][i] \in Calculation
    BY <1>1
  <2>2. calcs[t.rec][i].current <=> i = n
    BY <1>1 DEF OneCurrentCalculation
  <2>3. CASE i = n
    BY <1>1, <2>1, <2>3 DEF Calculation
  <2>4. CASE i # n
    BY <1>1, <2>1, <2>2, <2>4 DEF Calculation
  <2> QED
    BY <2>3, <2>4
<1>3. ASSUME NEW i \in 1..n
      PROVE  old[i] \in Calculation
  <2>1. calcs[t.rec][i] \in Calculation
    BY <1>1
  <2>2. [calcs[t.rec][i] EXCEPT !.current = FALSE] \in Calculation
    BY <2>1 DEF Calculation
  <2> QED
    BY <1>1, <2>1, <2>2
<1>4. old \in [1..n -> Calculation]
  BY <1>1, <1>3
<1>5. new.current = TRUE /\ Recalculated(t) = Append(old, new)
  BY DEF Recalculated
<1> HIDE DEF old, new, n
<1>6. old \in Seq(Calculation) /\ Len(old) = n
  BY <1>1, <1>4, FunctionIsSeq
<1>7. /\ DOMAIN Append(old, new) = 1..(n + 1) /\ Len(Append(old, new)) = n + 1
      /\ \A i \in 1..n : Append(old, new)[i] = old[i]
      /\ Append(old, new)[n + 1] = new
  BY <1>1, <1>6
<1>8. ASSUME NEW i \in 1..(n + 1)
      PROVE  Append(old, new)[i].current <=> i = n + 1
  <2>1. CASE i = n + 1
    BY <1>5, <1>7, <2>1
  <2>2. CASE i # n + 1
    <3>1. i \in 1..n
      BY <1>1, <2>2
    <3>2. old[i].current = FALSE /\ Append(old, new)[i] = old[i]
      BY <1>2, <1>7, <3>1
    <3> QED
      BY <2>2, <3>2
  <2> QED
    BY <2>1, <2>2
<1> QED
  BY <1>5, <1>7, <1>8 DEF n

LEMMA CommitCounters ==
    ASSUME CountersInv, GovernanceInv', NEW p \in Requests, Commit(p)
    PROVE  CountersInv'
<1> DEFINE t == txn[p]
           n == Len(versions[t.rec])
<1>1. TypeOK /\ TypeOK'
  BY DEF CountersInv, GovernanceInv
<1>2. /\ pc[p] = "commit" /\ pc'[p] = "answered"
      /\ t \in Txn /\ t.rec \in Records
      /\ \A q \in Requests : q # p => pc'[q] = pc[q] /\ txn'[q] = txn[q]
      /\ \A r \in Records : r # t.rec =>
            versions'[r] = versions[r] /\ calcs'[r] = calcs[r]
      /\ versions'[t.rec] = Append(versions[t.rec], VersionOf(t))
      /\ calcs'[t.rec] = IF t.op = "recalculate" THEN Recalculated(t) ELSE calcs[t.rec]
  BY <1>1, CommitEffect
<1>3. HasInserted(p) /\ ~HasInserted(p)' /\ \A r \in Records : ~PendingCalculation(p, r)'
  BY <1>2 DEF HasInserted, PendingCalculation
<1>4. \A q \in Requests : q # p =>
        /\ HasInserted(q)' <=> HasInserted(q)
        /\ \A r \in Records : PendingCalculation(q, r)' <=> PendingCalculation(q, r)
  BY <1>2 DEF HasInserted, PendingCalculation
<1>5. VersionOf(t).number = t.number /\ t.number = n + 1 /\ n \in Nat
      /\ versions[t.rec] \in Seq(VersionRow) /\ DOMAIN versions[t.rec] = 1..n
  BY <1>1, <1>2, <1>3 DEF VersionOf, CountersInv, KeysClaimed, TypeOK
<1>6. /\ Len(versions'[t.rec]) = n + 1 /\ DOMAIN versions'[t.rec] = 1..(n + 1)
      /\ versions'[t.rec][n + 1] = VersionOf(t)
      /\ \A i \in 1..n : versions'[t.rec][i] = versions[t.rec][i]
  BY <1>2, <1>5
<1>7. \A r \in Records : Len(versions[r]) <= Len(versions'[r]) /\ Len(versions[r]) \in Nat
  <2>1. \A r \in Records : Len(versions[r]) \in Nat
    BY <1>1 DEF TypeOK
  <2> QED
    BY <1>2, <1>5, <1>6, <2>1
<1>8. KeysClaimed'
  <2>1. ASSUME NEW q \in Requests, pc'[q] \in {"insert", "append", "commit"}
        PROVE  txn'[q].number <= Len(versions'[txn'[q].rec]) + 1
    <3>1. q # p /\ pc[q] \in {"insert", "append", "commit"} /\ txn'[q] = txn[q]
      BY <1>2, <2>1
    <3>2. txn[q] \in Txn /\ txn[q].rec \in Records /\ txn[q].number \in Nat
      BY <1>1, <3>1, ActiveTxn DEF Active, Txn
    <3>3. txn[q].number <= Len(versions[txn[q].rec]) + 1
      BY <3>1 DEF CountersInv, KeysClaimed
    <3>4. Len(versions[txn[q].rec]) <= Len(versions'[txn[q].rec]) /\ Len(versions[txn[q].rec]) \in Nat
      BY <1>7, <3>2
    <3>5. Len(versions'[txn[q].rec]) \in Nat
      BY <1>1, <3>2 DEF TypeOK
    <3> QED
      BY <3>1, <3>2, <3>3, <3>4, <3>5
  <2>2. ASSUME NEW q \in Requests, HasInserted(q)'
        PROVE  txn'[q].number = Len(versions'[txn'[q].rec]) + 1
    <3>1. q # p /\ HasInserted(q) /\ txn'[q] = txn[q]
      BY <1>2, <1>3, <1>4, <2>2
    <3>2. txn[q].rec # t.rec /\ txn[q].number = Len(versions[txn[q].rec]) + 1
      BY <1>3, <3>1 DEF CountersInv, KeysClaimed
    <3>3. txn[q].rec \in Records
      BY <1>1, <3>1, ActiveTxn DEF HasInserted, Active, Txn
    <3> QED
      BY <1>2, <3>1, <3>2, <3>3
  <2>3. ASSUME NEW q1 \in Requests, NEW q2 \in Requests,
               HasInserted(q1)', HasInserted(q2)', txn'[q1].rec = txn'[q2].rec
        PROVE  q1 = q2
    BY <1>2, <1>3, <1>4, <2>3 DEF CountersInv, KeysClaimed
  <2> QED
    BY <2>1, <2>2, <2>3 DEF KeysClaimed
<1>9. VersionsContiguous' /\ FirstVersionKept'
  <2>1. ASSUME NEW r \in Records, NEW i \in DOMAIN versions'[r]
        PROVE  versions'[r][i].number = i
    <3>1. CASE r # t.rec
      BY <1>2, <2>1, <3>1 DEF CountersInv, VersionsContiguous
    <3>2. CASE r = t.rec /\ i = n + 1
      BY <1>5, <1>6, <3>2
    <3>3. CASE r = t.rec /\ i # n + 1
      <4>1. i \in 1..n
        BY <1>5, <1>6, <2>1, <3>3
      <4> QED
        BY <1>5, <1>6, <3>3, <4>1 DEF CountersInv, VersionsContiguous
    <3> QED
      BY <3>1, <3>2, <3>3
  <2>2. ASSUME NEW r \in Records
        PROVE  Len(versions'[r]) >= 1
    <3>1. Len(versions[r]) >= 1 /\ Len(versions'[r]) \in Nat
      BY <1>1 DEF CountersInv, FirstVersionKept, TypeOK
    <3> QED
      BY <1>7, <3>1
  <2> QED
    BY <2>1, <2>2 DEF VersionsContiguous, FirstVersionKept
<1>10. CalculationsClaimed'
  <2>1. ASSUME NEW q \in Requests, NEW r \in Records, PendingCalculation(q, r)'
        PROVE  txn'[q].base = Len(calcs'[r])
    <3>1. q # p /\ PendingCalculation(q, r) /\ txn'[q] = txn[q]
      BY <1>2, <1>3, <1>4, <2>1
    <3>2. txn[q].base = Len(calcs[r])
      BY <3>1 DEF CountersInv, CalculationsClaimed
    <3>3. t.op = "recalculate" => t.rec # r
      BY <1>2, <3>1 DEF PendingCalculation, CountersInv, CalculationsClaimed
    <3> QED
      BY <1>2, <3>1, <3>2, <3>3
  <2>2. ASSUME NEW q1 \in Requests, NEW q2 \in Requests, NEW r \in Records,
               PendingCalculation(q1, r)', PendingCalculation(q2, r)'
        PROVE  q1 = q2
    BY <1>3, <1>4, <2>2 DEF CountersInv, CalculationsClaimed
  <2> QED
    BY <2>1, <2>2 DEF CalculationsClaimed
<1>11. OneCurrentCalculation'
  <2>1. ASSUME NEW r \in Records, NEW i \in DOMAIN calcs'[r]
        PROVE  calcs'[r][i].current <=> i = Len(calcs'[r])
    <3>1. CASE r # t.rec \/ t.op # "recalculate"
      BY <1>2, <2>1, <3>1 DEF CountersInv, OneCurrentCalculation
    <3>2. CASE r = t.rec /\ t.op = "recalculate"
      <4>1. t.base = Len(calcs[t.rec])
        BY <1>2, <3>2 DEF PendingCalculation, CountersInv, CalculationsClaimed
      <4>2. /\ Len(Recalculated(t)) = Len(calcs[t.rec]) + 1
            /\ \A j \in DOMAIN Recalculated(t) :
                  Recalculated(t)[j].current <=> j = Len(calcs[t.rec]) + 1
        BY <1>1, <1>2, <4>1, RecalculatedCurrent DEF CountersInv, TypeOK
      <4>3. calcs'[r] = Recalculated(t)
        BY <1>2, <3>2
      <4> QED
        BY <2>1, <4>2, <4>3
    <3> QED
      BY <3>1, <3>2
  <2> QED
    BY <2>1 DEF OneCurrentCalculation
<1> QED
  BY <1>8, <1>9, <1>10, <1>11 DEF CountersInv

\* The SET_NULL cascade rewrites versions in place.
LEMMA DeleteUserVersions ==
    ASSUME TypeOK, NEW u \in Users, DeleteUser(u), NEW r \in Records
    PROVE  /\ rec'[r].status = rec[r].status /\ rec'[r].deleted = rec[r].deleted
           /\ Len(versions'[r]) = Len(versions[r]) /\ DOMAIN versions'[r] = DOMAIN versions[r]
           /\ \A i \in DOMAIN versions[r] :
                /\ versions'[r][i].number = versions[r][i].number
                /\ versions'[r][i].row = WithoutUser(versions[r][i].row, u)
                /\ versions'[r][i].row.status = versions[r][i].row.status
                /\ versions'[r][i].row.deleted = versions[r][i].row.deleted
<1>1. ASSUME NEW row \in Row
      PROVE  WithoutUser(row, u).status = row.status /\ WithoutUser(row, u).deleted = row.deleted
  BY DEF WithoutUser, Row
<1>2. rec[r] \in Row /\ rec'[r] = WithoutUser(rec[r], u)
  BY DEF TypeOK, DeleteUser
<1>3. versions[r] \in Seq(VersionRow) /\ Len(versions[r]) \in Nat
      /\ DOMAIN versions[r] = 1..Len(versions[r])
  BY DEF TypeOK
<1>4. versions'[r] =
        [i \in DOMAIN versions[r] |->
            [versions[r][i] EXCEPT !.row = WithoutUser(versions[r][i].row, u)]]
  BY DEF DeleteUser
<1>5. DOMAIN versions'[r] = 1..Len(versions[r])
  BY <1>3, <1>4
<1>6. versions' \in [Records -> Seq(VersionRow)]
  BY DeleteUserType DEF TypeOK
<1>7. Len(versions'[r]) = Len(versions[r])
  BY <1>3, <1>5, <1>6
<1>8. ASSUME NEW i \in DOMAIN versions[r]
      PROVE  /\ versions'[r][i].number = versions[r][i].number
             /\ versions'[r][i].row = WithoutUser(versions[r][i].row, u)
             /\ versions'[r][i].row.status = versions[r][i].row.status
             /\ versions'[r][i].row.deleted = versions[r][i].row.deleted
  <2>1. versions[r][i] \in VersionRow
    BY <1>3, <1>8
  <2>2. versions[r][i].row \in Row
    BY <2>1 DEF VersionRow
  <2>3. versions'[r][i] = [versions[r][i] EXCEPT !.row = WithoutUser(versions[r][i].row, u)]
    BY <1>4, <1>8
  <2>4. /\ versions'[r][i].number = versions[r][i].number
        /\ versions'[r][i].row = WithoutUser(versions[r][i].row, u)
    BY <2>1, <2>3 DEF VersionRow
  <2> QED
    BY <1>1, <2>2, <2>4
<1> QED
  BY <1>1, <1>2, <1>3, <1>5, <1>7, <1>8

LEMMA DeleteUserCounters ==
    ASSUME CountersInv, GovernanceInv', NEW u \in Users, DeleteUser(u)
    PROVE  CountersInv'
<1>1. TypeOK /\ TypeOK'
  BY DEF CountersInv, GovernanceInv
<1>2. UNCHANGED <<calcs, pc, txn>>
  BY DEF DeleteUser
<1>3. \A r \in Records :
        /\ Len(versions'[r]) = Len(versions[r]) /\ DOMAIN versions'[r] = DOMAIN versions[r]
        /\ \A i \in DOMAIN versions[r] : versions'[r][i].number = versions[r][i].number
  BY <1>1, DeleteUserVersions
<1>4. \A p \in Requests : pc[p] \in {"insert", "append", "commit"} => txn[p].rec \in Records
  BY <1>1, ActiveTxn DEF Active, Txn
<1>5. KeysClaimed'
  BY <1>2, <1>3, <1>4 DEF CountersInv, KeysClaimed, HasInserted
<1>6. VersionsContiguous' /\ FirstVersionKept'
  BY <1>3 DEF CountersInv, VersionsContiguous, FirstVersionKept
<1>7. CalculationsClaimed' /\ OneCurrentCalculation'
  BY <1>2 DEF CountersInv, CalculationsClaimed, OneCurrentCalculation, PendingCalculation
<1> QED
  BY <1>5, <1>6, <1>7 DEF CountersInv

LEMMA NextCounters == CountersInv /\ [Next]_vars => CountersInv'
<1> SUFFICES ASSUME CountersInv, [Next]_vars PROVE CountersInv'
  OBVIOUS
<1>1. TypeOK /\ GovernanceInv'
  BY NextInv DEF CountersInv, GovernanceInv
<1>2. CASE UNCHANGED <<rec, versions, calcs, chain, tip, users, pc, txn>>
  BY <1>1, <1>2 DEF CountersInv, KeysClaimed, FirstVersionKept, VersionsContiguous,
     CalculationsClaimed, OneCurrentCalculation, HasInserted, PendingCalculation
<1> QED
  BY <1>1, <1>2, StepCases, ServeCounters, CommitCounters, DeleteUserCounters

\* Versions and calculations stay in step with the requests under way.
THEOREM CountersCorrect == Spec => []CountersInv
<1> QED
  BY InitCounters, NextCounters, PTL DEF Spec

\* _next_version_number() counts without a lock, and unique_record_version
\* catches what that lets through: the history has no gap and no repeat, in
\* whatever order requests read, insert, commit, crash or are refused.
THEOREM VersionsTheorem == Spec => []VersionsContiguous
<1>1. CountersInv => VersionsContiguous
  BY DEF CountersInv
<1> QED
  BY <1>1, CountersCorrect, PTL

\* The UPDATE that demotes and unique_current_calc_per_record together leave
\* one current calculation, the newest, however many recalculations race.
THEOREM CurrentTheorem == Spec => []OneCurrentCalculation
<1>1. CountersInv => OneCurrentCalculation
  BY DEF CountersInv
<1> QED
  BY <1>1, CountersCorrect, PTL

-----------------------------------------------------------------------------
(***************************************************************************)
(* What is never issued never runs                                         *)
(***************************************************************************)

\* A request under way carries out an operation that was issued; what is
\* posted from an Admin form is an edit, and only a recalculation computes.
OpsIssued ==
    \A p \in Requests :
        /\ Active(p) => txn[p].op \in Ops
        /\ pc[p] = "form" => txn[p].op = "admin_edit"

OpsInv == GovernanceInv /\ OpsIssued

LEMMA NextOps == OpsInv /\ [Next]_vars => OpsInv'
<1> SUFFICES ASSUME OpsInv, [Next]_vars PROVE OpsInv'
  OBVIOUS
<1>1. TypeOK /\ GovernanceInv'
  BY NextInv DEF OpsInv, GovernanceInv
<1>2. ASSUME NEW p \in Requests, AnswerUnchanged(p)
      PROVE  OpsIssued'
  <2>1. /\ pc'[p] = "answered"
        /\ \A q \in Requests : q # p => pc'[q] = pc[q] /\ txn'[q] = txn[q]
    BY <1>1, <1>2, AnswerEffect
  <2> QED
    BY <2>1 DEF OpsInv, OpsIssued, Active
<1>3. ASSUME NEW p \in Requests, NEW op \in RequestOps, NEW r \in Records,
             NEW u \in Users, NEW row \in Row, Saves(p, op, r, u, row)
      PROVE  OpsIssued'
  <2>1. /\ pc'[p] = "insert" /\ txn'[p].op = op
        /\ \A q \in Requests : q # p => pc'[q] = pc[q] /\ txn'[q] = txn[q]
    <3>1. /\ pc'[p] = "insert" /\ txn'[p] = SavedTxn(op, r, u, row)
          /\ \A q \in Requests : q # p => pc'[q] = pc[q] /\ txn'[q] = txn[q]
      BY <1>1, <1>3, SavesEffect
    <3>2. SavedTxn(op, r, u, row).op = op
      BY <1>1, <1>3, SavesEffect
    <3> QED
      BY <3>1, <3>2
  <2>2. op \in Ops
    BY <1>3 DEF Saves, OpsInv, OpsIssued, Active
  <2> QED
    BY <2>1, <2>2 DEF OpsInv, OpsIssued, Active
<1>4. ASSUME NEW p \in Requests, NEW next, NEW t, Reads(p, next, t)
      PROVE  OpsIssued'
  <2>1. /\ pc'[p] = next /\ txn'[p] = t
        /\ \A q \in Requests : q # p => pc'[q] = pc[q] /\ txn'[q] = txn[q]
    BY <1>1, <1>4, ProceedEffect DEF Reads
  <2>2. t.op \in Ops /\ (next = "form" => t.op = "admin_edit")
    BY <1>4 DEF Reads
  <2> QED
    BY <2>1, <2>2 DEF OpsInv, OpsIssued, Active
<1>5. ASSUME NEW p \in Requests,
             SupersedeCurrent(p) \/ InsertCalculation(p) \/ InsertVersion(p) \/ AppendEntry(p)
      PROVE  OpsIssued'
  <2>1. Active(p)
    BY <1>5 DEF Active, SupersedeCurrent, InsertCalculation, InsertVersion, AppendEntry
  <2>2. txn[p] \in Txn /\ txn[p].op \in Ops
    BY <1>1, <2>1, ActiveTxn DEF OpsInv, OpsIssued
  <2>3. PICK next, t : Proceed(p, next, t) /\ next # "form" /\ t.op = txn[p].op
    <3>1. \A x : [txn[p] EXCEPT !.base = x].op = txn[p].op
      BY <2>2 DEF Txn
    <3>2. \A x : [txn[p] EXCEPT !.number = x].op = txn[p].op
      BY <2>2 DEF Txn
    <3>3. \A x : [txn[p] EXCEPT !.seen = x].op = txn[p].op
      BY <2>2 DEF Txn
    <3>4. CASE SupersedeCurrent(p)
      BY <3>1, <3>4 DEF SupersedeCurrent
    <3>5. CASE InsertCalculation(p)
      BY <3>2, <3>5 DEF InsertCalculation
    <3>6. CASE InsertVersion(p)
      <4>1. \E next : Proceed(p, next, txn[p]) /\ next # "form"
        BY <3>6 DEF InsertVersion
      <4> QED
        BY <4>1
    <3>7. CASE AppendEntry(p)
      BY <3>3, <3>7 DEF AppendEntry
    <3> QED
      BY <1>5, <3>4, <3>5, <3>6, <3>7
  <2>4. /\ pc'[p] = next /\ txn'[p] = t
        /\ \A q \in Requests : q # p => pc'[q] = pc[q] /\ txn'[q] = txn[q]
    BY <1>1, <2>3, ProceedEffect
  <2> QED
    BY <2>2, <2>3, <2>4 DEF OpsInv, OpsIssued, Active
<1>6. ASSUME NEW p \in Requests, Commit(p)
      PROVE  OpsIssued'
  <2>1. /\ pc'[p] = "answered"
        /\ \A q \in Requests : q # p => pc'[q] = pc[q] /\ txn'[q] = txn[q]
    BY <1>1, <1>6, CommitEffect
  <2> QED
    BY <2>1 DEF OpsInv, OpsIssued, Active
<1>7. ASSUME UNCHANGED <<pc, txn>>
      PROVE  OpsIssued'
  BY <1>7 DEF OpsInv, OpsIssued, Active
<1>8. OpsIssued'
  <2>1. ASSUME NEW u \in Users, DeleteUser(u)
        PROVE  UNCHANGED <<pc, txn>>
    BY <2>1 DEF DeleteUser
  <2> QED
    BY <1>1, <1>2, <1>3, <1>4, <1>5, <1>6, <1>7, <2>1, StepCases DEF Saving, Reading
<1> QED
  BY <1>1, <1>8 DEF OpsInv

LEMMA OpsCorrect == Spec => []OpsInv
<1>1. Init => OpsInv
  <2>1. Init => OpsIssued
    BY DEF Init, OpsIssued, Active
  <2> QED
    BY <2>1, InitInv DEF OpsInv
<1> QED
  BY <1>1, NextOps, PTL DEF Spec

-----------------------------------------------------------------------------
(***************************************************************************)
(* Deadlocks                                                               *)
(***************************************************************************)

\* Every cycle of waiting requests has a recalculation in it: it alone gets
\* to the chain state without the record's lock, and asks for the record at
\* its commit.  Workflow transitions, soft deletion and Admin edits lock the
\* record first and can never block one another for good.
DeadlocksNeedRecalculation ==
    \A D \in (SUBSET Requests) \ {{}} :
        (\A a \in D : (\E b \in D : WaitsFor(a, b)) /\ (\E b \in D : WaitsFor(b, a)))
            => \E a \in D : Active(a) /\ txn[a].op = "recalculate"

LEMMA LockOrder == GovernanceInv => DeadlocksNeedRecalculation
<1> SUFFICES ASSUME GovernanceInv, NEW D \in SUBSET Requests, NEW p \in D,
                    \A a \in D : \E b \in D : WaitsFor(a, b),
                    \A a \in D : ~(Active(a) /\ txn[a].op = "recalculate")
             PROVE  FALSE
  BY DEF DeadlocksNeedRecalculation
<1>1. ASSUME NEW a \in D, pc[a] \in {"insert", "append", "commit"}
      PROVE  txn[a].rec \in Records /\ HoldsRecord(a, txn[a].rec)
  <2>1. Active(a) /\ txn[a] \in Txn
    BY <1>1, ActiveTxn DEF Active, GovernanceInv
  <2> QED
    BY <1>1, <2>1 DEF HoldsRecord, Txn
<1>2. ASSUME NEW a \in D
      PROVE  pc[a] = "append" /\ \E b \in D : pc[b] = "commit"
  <2>1. PICK b \in D : WaitsFor(a, b)
    OBVIOUS
  <2>2. pc[a] # "superseding"
    BY DEF GovernanceInv, PhaseOps, Active
  <2>3. ~(pc[a] = "insert" /\ VersionKeyTakenBy(a, b))
    <3> SUFFICES ASSUME pc[a] = "insert", VersionKeyTakenBy(a, b) PROVE FALSE
      OBVIOUS
    <3>1. b # a /\ HasInserted(b) /\ txn[b].rec = txn[a].rec
      BY DEF VersionKeyTakenBy
    <3>2. HoldsRecord(a, txn[a].rec) /\ HoldsRecord(b, txn[a].rec) /\ txn[a].rec \in Records
      BY <1>1, <3>1 DEF HasInserted
    <3> QED
      BY <3>1, <3>2 DEF GovernanceInv, LocksExclusive
  <2>4. ~(pc[a] = "commit" /\ HoldsRecord(b, txn[a].rec))
    <3> SUFFICES ASSUME pc[a] = "commit", HoldsRecord(b, txn[a].rec) PROVE FALSE
      OBVIOUS
    <3>1. HoldsRecord(a, txn[a].rec) /\ txn[a].rec \in Records /\ a # b
      BY <1>1, <2>1 DEF WaitsFor
    <3> QED
      BY <3>1 DEF GovernanceInv, LocksExclusive
  <2>5. pc[a] = "append" /\ HoldsChain(b)
    BY <2>1, <2>2, <2>3, <2>4 DEF WaitsFor
  <2> QED
    BY <2>5 DEF HoldsChain
<1>3. PICK b \in D : pc[b] = "commit"
  BY <1>2
<1> QED
  BY <1>2, <1>3

\* The lock order of views, save() and append_entry(): record, then chain.
THEOREM DeadlockTheorem == Spec => []DeadlocksNeedRecalculation
<1> QED
  BY LockOrder, GovernanceCorrect, PTL

\* Where nobody recalculates, no request ever waits in a cycle.
THEOREM NoDeadlockTheorem ==
    ASSUME "recalculate" \notin Ops
    PROVE  Spec => []NoDeadlock
<1>1. OpsInv => NoDeadlock
  <2> SUFFICES ASSUME OpsInv, NEW p \in Requests, Deadlocked(p) PROVE FALSE
    BY DEF NoDeadlock
  <2>1. PICK D \in SUBSET Requests :
          /\ p \in D
          /\ \A a \in D : (\E b \in D : WaitsFor(a, b)) /\ (\E b \in D : WaitsFor(b, a))
    BY DEF Deadlocked
  <2>2. DeadlocksNeedRecalculation
    BY LockOrder DEF OpsInv
  <2>3. PICK a \in D : Active(a) /\ txn[a].op = "recalculate"
    BY <2>1, <2>2 DEF DeadlocksNeedRecalculation
  <2> QED
    BY <2>3 DEF OpsInv, OpsIssued
<1> QED
  BY <1>1, OpsCorrect, PTL

-----------------------------------------------------------------------------
(***************************************************************************)
(* The newest version is the record                                        *)
(***************************************************************************)

LatestInv == OpsInv /\ FirstVersionKept /\ LatestVersionIsRecord

LEMMA CommitLatest ==
    ASSUME LatestInv, NEW p \in Requests, Commit(p), txn[p].op # "recalculate"
    PROVE  FirstVersionKept' /\ LatestVersionIsRecord'
<1> DEFINE t == txn[p]
           n == Len(versions[t.rec])
<1>1. TypeOK
  BY DEF LatestInv, OpsInv, GovernanceInv
<1>2. /\ t.rec \in Records /\ rec'[t.rec] = t.row
      /\ versions'[t.rec] = Append(versions[t.rec], VersionOf(t))
      /\ \A r \in Records : r # t.rec => rec'[r] = rec[r] /\ versions'[r] = versions[r]
  BY <1>1, CommitEffect
<1>3. versions[t.rec] \in Seq(VersionRow) /\ n \in Nat
  BY <1>1, <1>2 DEF TypeOK
<1>4. Len(versions'[t.rec]) = n + 1 /\ versions'[t.rec][n + 1] = VersionOf(t)
  BY <1>2, <1>3
<1>5. VersionOf(t).row = t.row
  BY DEF VersionOf
<1>6. ASSUME NEW r \in Records
      PROVE  Len(versions'[r]) >= 1 /\ versions'[r][Len(versions'[r])].row = rec'[r]
  <2>1. CASE r = t.rec
    BY <1>2, <1>3, <1>4, <1>5, <2>1
  <2>2. CASE r # t.rec
    BY <1>2, <2>2 DEF LatestInv, FirstVersionKept, LatestVersionIsRecord
  <2> QED
    BY <2>1, <2>2
<1> QED
  BY <1>6 DEF FirstVersionKept, LatestVersionIsRecord

\* A save and the version of it commit together, and user.delete() nulls the
\* approver in both: the history ends in the row the table holds.  (A manual
\* recalculation writes the row it read without a lock, and breaks this.)
THEOREM LatestTheorem ==
    ASSUME "recalculate" \notin Ops
    PROVE  Spec => []LatestVersionIsRecord
<1>1. Init => LatestInv
  <2> SUFFICES ASSUME Init PROVE LatestInv
    OBVIOUS
  <2>1. OpsInv
    BY InitInv DEF OpsInv, Init, OpsIssued, Active
  <2>2. ASSUME NEW r \in Records
        PROVE  Len(versions[r]) >= 1 /\ versions[r][Len(versions[r])].row = rec[r]
    <3> DEFINE v == [number |-> 1, row |-> rec[r], calc |-> 0]
    <3>1. versions[r] = << v >> /\ v.row = rec[r]
      BY DEF Init
    <3> HIDE DEF v
    <3> QED
      BY <3>1
  <2> QED
    BY <2>1, <2>2 DEF LatestInv, FirstVersionKept, LatestVersionIsRecord
<1>2. LatestInv /\ [Next]_vars => LatestInv'
  <2> SUFFICES ASSUME LatestInv, [Next]_vars PROVE LatestInv'
    OBVIOUS
  <2>1. TypeOK /\ OpsInv'
    BY NextOps DEF LatestInv, OpsInv, GovernanceInv
  <2>2. ASSUME NEW p \in Requests, Commit(p)
        PROVE  FirstVersionKept' /\ LatestVersionIsRecord'
    <3>1. txn[p].op # "recalculate"
      BY <2>2 DEF Commit, LatestInv, OpsInv, OpsIssued, Active
    <3> QED
      BY <2>2, <3>1, CommitLatest
  <2>3. ASSUME NEW u \in Users, DeleteUser(u)
        PROVE  FirstVersionKept' /\ LatestVersionIsRecord'
    <3>1. ASSUME NEW r \in Records
          PROVE  Len(versions'[r]) >= 1 /\ versions'[r][Len(versions'[r])].row = rec'[r]
      <4>1. Len(versions[r]) >= 1 /\ versions[r][Len(versions[r])].row = rec[r]
        BY DEF LatestInv, FirstVersionKept, LatestVersionIsRecord
      <4>2. Len(versions[r]) \in DOMAIN versions[r]
        BY <2>1, <4>1 DEF TypeOK
      <4>3. /\ Len(versions'[r]) = Len(versions[r])
            /\ versions'[r][Len(versions[r])].row = WithoutUser(versions[r][Len(versions[r])].row, u)
        BY <2>1, <2>3, <4>2, DeleteUserVersions
      <4>4. rec'[r] = WithoutUser(rec[r], u)
        BY <2>3 DEF DeleteUser
      <4> QED
        BY <4>1, <4>3, <4>4
    <3> QED
      BY <3>1 DEF FirstVersionKept, LatestVersionIsRecord
  <2>4. ASSUME UNCHANGED <<rec, versions>>
        PROVE  FirstVersionKept' /\ LatestVersionIsRecord'
    BY <2>4 DEF LatestInv, FirstVersionKept, LatestVersionIsRecord
  <2>5. ASSUME NEW p \in Requests,
               \/ AnswerUnchanged(p) \/ Saving(p) \/ Reading(p)
               \/ SupersedeCurrent(p) \/ InsertCalculation(p)
               \/ InsertVersion(p) \/ AppendEntry(p)
        PROVE  UNCHANGED <<rec, versions>>
    BY <2>5 DEF AnswerUnchanged, Saving, Saves, SaveRecord, Reading, Reads, SupersedeCurrent,
                InsertCalculation, InsertVersion, AppendEntry, Proceed, dbVars
  <2>6. FirstVersionKept' /\ LatestVersionIsRecord'
    BY <2>1, <2>2, <2>3, <2>4, <2>5, StepCases
  <2> QED
    BY <2>1, <2>6 DEF LatestInv
<1>3. LatestInv => LatestVersionIsRecord
  BY DEF LatestInv
<1> QED
  BY <1>1, <1>2, <1>3, PTL DEF Spec

-----------------------------------------------------------------------------
(***************************************************************************)
(* The chain verifies, and is a ledger                                     *)
(***************************************************************************)

\* As long as no account has been deleted, verify_chain() finds every chain
\* intact: what AlteredOnlyByUserDeletion allows is the only exception.
LEMMA SealedVerifies ==
    ASSUME GovernanceInv, SealedInv, users = Users
    PROVE  ChainVerifies
<1>1. ASSUME NEW i \in DOMAIN chain
      PROVE  ~ContentAltered(chain, i)
  <2>1. PICK h \in Users :
          /\ chain[i].entryHash = ComputeEntryHash(
                [CanonicalPayload(chain[i]) EXCEPT !.changedBy = h], chain[i].prevHash)
          /\ chain[i].changedBy = h \/ (chain[i].changedBy = NoUser /\ h \notin users)
    BY DEF SealedInv, EntriesSealed, Sealed
  <2>2. chain[i].changedBy = h
    BY <2>1
  <2>3. [CanonicalPayload(chain[i]) EXCEPT !.changedBy = h] = CanonicalPayload(chain[i])
    BY <2>2 DEF CanonicalPayload
  <2> QED
    BY <2>1, <2>3 DEF ContentAltered
<1>2. \A i \in DOMAIN chain : ~LinkBroken(chain, i)
  BY DEF GovernanceInv, ChainLinked
<1> QED
  BY <1>1, <1>2 DEF ChainVerifies, ChainValid

\* Concurrent append_entry() calls, aborts and crashes leave a chain that
\* verify_chain() accepts, where accounts are kept.
THEOREM ChainVerifiesTheorem ==
    ASSUME "delete_user" \notin Ops
    PROVE  Spec => []ChainVerifies
<1>1. Init => users = Users
  BY DEF Init
<1>2. GovernanceInv /\ users = Users /\ [Next]_vars => (users = Users)'
  <2> SUFFICES ASSUME GovernanceInv, users = Users, [Next]_vars PROVE users' = users
    OBVIOUS
  <2>1. ASSUME NEW p \in Requests,
               \/ AnswerUnchanged(p) \/ Saving(p) \/ Reading(p)
               \/ SupersedeCurrent(p) \/ InsertCalculation(p)
               \/ InsertVersion(p) \/ AppendEntry(p) \/ Commit(p)
        PROVE  UNCHANGED users
    BY <2>1 DEF AnswerUnchanged, Saving, Saves, SaveRecord, Reading, Reads, SupersedeCurrent,
                InsertCalculation, InsertVersion, AppendEntry, Commit, Proceed, dbVars
  <2> QED
    BY <2>1, StepCases DEF GovernanceInv
<1>3. GovernanceInv /\ SealedInv /\ users = Users => ChainVerifies
  BY SealedVerifies
<1> QED
  BY <1>1, <1>2, <1>3, GovernanceCorrect, SealedCorrect, PTL DEF Spec

\* The hash of the i-th entry commits to i payloads.
HashesGrow == \A i \in DOMAIN chain : Len(chain[i].entryHash) = i

LedgerInv == GovernanceInv /\ HashesGrow

\* What the chain state says about the length of the chain.
LEMMA TipNamesLast ==
    ASSUME LedgerInv
    PROVE  /\ Len(tip.lastHash) = Len(chain) /\ tip.lastSequence = Len(chain)
           /\ tip.lastHash = IF chain = << >> THEN GENESIS_HASH ELSE chain[Len(chain)].entryHash
<1>1. chain \in Seq(Entry) /\ Len(chain) \in Nat /\ DOMAIN chain = 1..Len(chain)
  BY DEF LedgerInv, GovernanceInv, TypeOK
<1>2. CASE chain = << >>
  BY <1>2 DEF LedgerInv, GovernanceInv, ChainLinked, EmptyTip, GENESIS_HASH
<1>3. CASE chain # << >>
  <2>1. Len(chain) \in DOMAIN chain
    BY <1>1, <1>3
  <2> QED
    BY <1>3, <2>1 DEF LedgerInv, GovernanceInv, ChainLinked, TipAfter, HashesGrow
<1> QED
  BY <1>2, <1>3

\* The commit of an audited request appends one seal; its hash is new.
LEMMA CommitSeals ==
    ASSUME LedgerInv, NEW p \in Requests, Commit(p), txn[p].op # "admin_edit"
    PROVE  LET e == EntryOf(txn[p])
               n == Len(chain)
           IN  /\ chain' = Append(chain, e)
               /\ e.sequence = n + 1 /\ Len(e.entryHash) = n + 1
               /\ e.prevHash = IF chain = << >> THEN GENESIS_HASH ELSE chain[n].entryHash
<1> DEFINE e == EntryOf(txn[p])
<1>1. pc[p] = "commit" /\ chain' = Append(chain, e)
  BY DEF Commit
<1>2. txn[p].seen = tip
  BY <1>1 DEF HoldsChain, LedgerInv, GovernanceInv, HeldReadingsCurrent
<1>3. /\ e.sequence = tip.lastSequence + 1 /\ e.prevHash = tip.lastHash
      /\ \E payload : e.entryHash = Append(tip.lastHash, payload)
  BY <1>2 DEF EntryOf, NewEntry, ComputeEntryHash
<1>4. tip.lastHash \in Hash
  BY DEF LedgerInv, GovernanceInv, TypeOK, Tip
<1> HIDE DEF e
<1>5. Len(e.entryHash) = Len(tip.lastHash) + 1
  BY <1>3, <1>4 DEF Hash
<1> QED
  BY <1>1, <1>3, <1>5, TipNamesLast DEF e

LEMMA NextLedger == LedgerInv /\ [Next]_vars => LedgerInv'
<1> SUFFICES ASSUME LedgerInv, [Next]_vars PROVE LedgerInv'
  OBVIOUS
<1>1. GovernanceInv'
  BY NextInv DEF LedgerInv
<1>2. chain \in Seq(Entry) /\ Len(chain) \in Nat /\ DOMAIN chain = 1..Len(chain)
  BY DEF LedgerInv, GovernanceInv, TypeOK
<1>3. ASSUME UNCHANGED chain
      PROVE  HashesGrow'
  BY <1>3 DEF LedgerInv, HashesGrow
<1>4. ASSUME NEW p \in Requests, Commit(p)
      PROVE  HashesGrow'
  <2>1. CASE txn[p].op = "admin_edit"
    BY <1>3, <1>4, <2>1 DEF Commit
  <2>2. CASE txn[p].op # "admin_edit"
    <3> DEFINE e == EntryOf(txn[p])
    <3>1. chain' = Append(chain, e) /\ Len(e.entryHash) = Len(chain) + 1
      BY <1>4, <2>2, CommitSeals
    <3> HIDE DEF e
    <3>2. \A i \in DOMAIN chain' :
            \/ i \in DOMAIN chain /\ chain'[i] = chain[i]
            \/ i = Len(chain) + 1 /\ chain'[i] = e
      BY <1>2, <3>1
    <3> QED
      BY <3>1, <3>2 DEF LedgerInv, HashesGrow
  <2> QED
    BY <2>1, <2>2
<1>5. ASSUME NEW u \in Users, DeleteUser(u)
      PROVE  HashesGrow'
  <2>1. ASSUME NEW i \in DOMAIN chain
        PROVE  chain'[i].entryHash = chain[i].entryHash
    <3>1. chain[i] \in Entry
      BY <1>2
    <3> QED
      BY <1>5, <3>1 DEF DeleteUser, Entry
  <2>2. DOMAIN chain' = DOMAIN chain
    BY <1>5 DEF DeleteUser
  <2> QED
    BY <2>1, <2>2 DEF LedgerInv, HashesGrow
<1>6. HashesGrow'
  BY <1>3, <1>4, <1>5, TablesChangeOnlyBy
<1> QED
  BY <1>1, <1>6 DEF LedgerInv

\* A seal is what an entry keeps for good.
SealOf(entry) == [sequence  |-> entry.sequence,
                  prevHash  |-> entry.prevHash,
                  entryHash |-> entry.entryHash]

SealType == [sequence : Nat, prevHash : Hash, entryHash : Hash]

SealsShaped ==
    /\ Seals \in Seq(SealType)
    /\ Len(Seals) = Len(chain) /\ DOMAIN Seals = 1..Len(chain)
    /\ \A i \in 1..Len(chain) : Seals[i] = SealOf(chain[i])

LEMMA SealsOfChain == TypeOK => SealsShaped
<1> SUFFICES ASSUME TypeOK PROVE SealsShaped
  OBVIOUS
<1>1. chain \in Seq(Entry) /\ Len(chain) \in Nat /\ DOMAIN chain = 1..Len(chain)
  BY DEF TypeOK
<1>2. ASSUME NEW i \in 1..Len(chain)
      PROVE  SealOf(chain[i]) \in SealType
  <2>1. chain[i] \in Entry
    BY <1>1
  <2> QED
    BY <2>1 DEF SealOf, SealType, Entry
<1>3. Seals = [i \in 1..Len(chain) |-> SealOf(chain[i])]
  BY <1>1 DEF Seals, SealOf
<1>4. Seals \in [1..Len(chain) -> SealType]
  BY <1>2, <1>3
<1>5. Seals \in Seq(SealType) /\ Len(Seals) = Len(chain)
  BY <1>1, <1>4, FunctionIsSeq
<1> QED
  BY <1>1, <1>3, <1>5 DEF SealsShaped

\* The step an audited commit is in the ledger.
LEMMA CommitIsASeal ==
    ASSUME LedgerInv, LedgerInv', NEW p \in Requests, Commit(p), txn[p].op # "admin_edit"
    PROVE  Ledger!LNext
<1> DEFINE e == EntryOf(txn[p])
           n == Len(chain)
           hash == e.entryHash
<1>1. chain' = Append(chain, e) /\ e.sequence = n + 1 /\ Len(hash) = n + 1
      /\ e.prevHash = IF chain = << >> THEN GENESIS_HASH ELSE chain[n].entryHash
  BY CommitSeals
<1> HIDE DEF e
<1>2. chain \in Seq(Entry) /\ n \in Nat /\ DOMAIN chain = 1..n
  BY DEF LedgerInv, GovernanceInv, TypeOK
<1>3. Len(chain') = n + 1 /\ chain'[n + 1] = e /\ \A i \in 1..n : chain'[i] = chain[i]
  BY <1>1, <1>2
<1>4. /\ Seals \in Seq(SealType)
      /\ Len(Seals) = n /\ DOMAIN Seals = 1..n
      /\ \A i \in 1..n : Seals[i] = SealOf(chain[i])
  BY SealsOfChain DEF LedgerInv, GovernanceInv, SealsShaped
<1>5. /\ Seals' \in Seq(SealType)
      /\ Len(Seals') = n + 1 /\ DOMAIN Seals' = 1..(n + 1)
      /\ \A i \in 1..(n + 1) : Seals'[i] = SealOf(chain'[i])
  <2>1. TypeOK'
    BY DEF LedgerInv, GovernanceInv
  <2>2. SealsShaped'
    BY <2>1, SealsOfChain, PTL
  <2> QED
    BY <1>3, <2>2 DEF SealsShaped
<1>6. Seals'[n + 1] = SealOf(e) /\ n + 1 \in 1..(n + 1)
  BY <1>2, <1>3, <1>5
<1>7. SealOf(e) = [sequence |-> Len(Seals) + 1, prevHash |-> Ledger!LastHash, entryHash |-> hash]
  <2>1. Ledger!LastHash = e.prevHash
    <3>1. CASE n = 0
      BY <1>1, <1>2, <1>4, <3>1 DEF Ledger!LastHash
    <3>2. CASE n # 0
      <4>1. n \in 1..n /\ Seals # << >> /\ chain # << >>
        BY <1>2, <1>4, <3>2
      <4>2. Seals[n].entryHash = chain[n].entryHash
        BY <1>4, <4>1 DEF SealOf
      <4> QED
        BY <1>1, <1>4, <4>1, <4>2 DEF Ledger!LastHash
    <3> QED
      BY <3>1, <3>2
  <2> QED
    BY <1>1, <1>4, <2>1 DEF SealOf
<1>8. Seals' = Append(Seals, SealOf(e))
  <2>1. \A i \in 1..n : Seals'[i] = Seals[i]
    BY <1>2, <1>3, <1>4, <1>5
  <2>2. SealOf(e) \in SealType
    BY <1>2, <1>5, <1>6
  <2> HIDE DEF n
  <2> QED
    BY <1>2, <1>4, <1>5, <1>6, <2>1, <2>2
<1>9. Ledger!Seal(hash)
  BY <1>7, <1>8 DEF Ledger!Seal
<1>10. Len(Seals') > 0 /\ Seals'[Len(Seals')].entryHash = hash
  BY <1>2, <1>5, <1>6 DEF SealOf
<1>11. \A i \in DOMAIN Seals : Seals[i].entryHash # hash
  <2>1. ASSUME NEW i \in 1..n
        PROVE  Seals[i].entryHash # hash
    <3>1. Len(chain[i].entryHash) = i /\ i # n + 1
      BY <1>2 DEF LedgerInv, HashesGrow
    <3>2. Seals[i].entryHash = chain[i].entryHash
      BY <1>4 DEF SealOf
    <3> QED
      BY <1>1, <3>1, <3>2
  <2> QED
    BY <1>4, <2>1
<1> QED
  BY <1>9, <1>10, <1>11 DEF Ledger!LNext

\* The audit chain implements AuditLedger: every commit of an audited request
\* appends one seal, with the next number, the last hash and a hash not sealed
\* before; no other step touches a seal, the deletion of an account included.
THEOREM LedgerTheorem == Spec => ChainIsALedger
<1>1. Init => LedgerInv /\ Ledger!LInit
  <2> SUFFICES ASSUME Init PROVE LedgerInv /\ Ledger!LInit
    OBVIOUS
  <2>1. chain = << >>
    BY DEF Init
  <2>2. LedgerInv
    BY <2>1, InitInv DEF LedgerInv, HashesGrow
  <2>3. Seals = << >>
    BY <2>1, <2>2, SealsOfChain DEF LedgerInv, GovernanceInv, SealsShaped
  <2> QED
    BY <2>2, <2>3 DEF Ledger!LInit
<1>2. LedgerInv /\ LedgerInv' /\ [Next]_vars => [Ledger!LNext]_Seals
  <2> SUFFICES ASSUME LedgerInv, LedgerInv', [Next]_vars PROVE Ledger!LNext \/ UNCHANGED Seals
    OBVIOUS
  <2>1. ASSUME UNCHANGED chain
        PROVE  UNCHANGED Seals
    BY <2>1 DEF Seals
  <2>2. ASSUME NEW p \in Requests, Commit(p)
        PROVE  Ledger!LNext \/ UNCHANGED Seals
    <3>1. CASE txn[p].op = "admin_edit"
      BY <2>1, <2>2, <3>1 DEF Commit
    <3>2. CASE txn[p].op # "admin_edit"
      BY <2>2, <3>2, CommitIsASeal
    <3> QED
      BY <3>1, <3>2
  <2>3. ASSUME NEW u \in Users, DeleteUser(u)
        PROVE  UNCHANGED Seals
    <3>1. chain \in Seq(Entry) /\ DOMAIN chain' = DOMAIN chain
      BY <2>3 DEF LedgerInv, GovernanceInv, TypeOK, DeleteUser
    <3>2. ASSUME NEW i \in DOMAIN chain
          PROVE  /\ chain'[i].sequence = chain[i].sequence
                 /\ chain'[i].prevHash = chain[i].prevHash
                 /\ chain'[i].entryHash = chain[i].entryHash
      <4>1. chain[i] \in Entry
        BY <3>1
      <4> QED
        BY <2>3, <4>1 DEF DeleteUser, Entry
    <3> QED
      BY <3>1, <3>2 DEF Seals
  <2> QED
    BY <2>1, <2>2, <2>3, TablesChangeOnlyBy
<1> QED
  BY <1>1, <1>2, NextLedger, PTL DEF Spec, ChainIsALedger, Ledger!LSpec

-----------------------------------------------------------------------------
(***************************************************************************)
(* What a locking request is about to write                                *)
(***************************************************************************)

\* The row a request will save is the row it read, moved by its operation.
RowsFit ==
    \A p \in Requests : pc[p] \in {"insert", "append", "commit"} =>
        /\ txn[p].op \in TransitionOps =>
              /\ ~txn[p].old.deleted
              /\ txn[p].row = Transitioned(txn[p].old, txn[p].op, txn[p].actor)
        /\ txn[p].op \in LifecycleOps =>
              /\ txn[p].old.deleted = (txn[p].op = "restore")
              /\ txn[p].row = [txn[p].old EXCEPT !.deleted = (txn[p].op = "delete")]

RowsInv == CountersInv /\ OpsInv /\ RowsFit

LEMMA NextRows == RowsInv /\ [Next]_vars => RowsInv'
<1> SUFFICES ASSUME RowsInv, [Next]_vars PROVE RowsInv'
  OBVIOUS
<1>1. TypeOK /\ CountersInv' /\ OpsInv'
  BY NextCounters, NextOps DEF RowsInv, CountersInv, GovernanceInv
<1>2. ASSUME NEW p \in Requests,
             AnswerUnchanged(p) \/ Reading(p) \/ SupersedeCurrent(p) \/ Commit(p)
      PROVE  RowsFit'
  <2>1. /\ pc'[p] \notin {"insert", "append", "commit"}
        /\ \A q \in Requests : q # p => pc'[q] = pc[q] /\ txn'[q] = txn[q]
    <3>1. CASE AnswerUnchanged(p)
      BY <1>1, <3>1, AnswerEffect
    <3>2. CASE Commit(p)
      BY <1>1, <3>2, CommitEffect
    <3>3. CASE SupersedeCurrent(p)
      BY <1>1, <3>3, ProceedEffect DEF SupersedeCurrent
    <3>4. CASE Reading(p)
      BY <1>1, <3>4, ProceedEffect DEF Reading, Reads
    <3> QED
      BY <1>2, <3>1, <3>2, <3>3, <3>4
  <2> QED
    BY <2>1 DEF RowsInv, RowsFit
<1>3. ASSUME NEW p \in Requests, NEW op \in RequestOps, NEW r \in Records,
             NEW u \in Users, NEW row \in Row, Saves(p, op, r, u, row)
      PROVE  RowsFit'
  <2>1. /\ txn'[p] = SavedTxn(op, r, u, row)
        /\ \A q \in Requests : q # p => pc'[q] = pc[q] /\ txn'[q] = txn[q]
    BY <1>1, <1>3, SavesEffect
  <2>2. /\ SavedTxn(op, r, u, row).op = op /\ SavedTxn(op, r, u, row).actor = u
        /\ SavedTxn(op, r, u, row).old = rec[r] /\ SavedTxn(op, r, u, row).row = row
    BY <1>1, <1>3, SavesEffect
  <2>3. /\ op \in TransitionOps => ~rec[r].deleted /\ row = Transitioned(rec[r], op, u)
        /\ op \in LifecycleOps =>
              /\ rec[r].deleted = (op = "restore")
              /\ row = [rec[r] EXCEPT !.deleted = (op = "delete")]
    BY <1>3 DEF Saves, TransitionOps, LifecycleOps
  <2>4. /\ txn'[p].op = op /\ txn'[p].actor = u /\ txn'[p].old = rec[r] /\ txn'[p].row = row
    BY <2>1, <2>2
  <2> QED
    BY <2>1, <2>3, <2>4 DEF RowsInv, RowsFit
<1>4. ASSUME NEW p \in Requests, InsertCalculation(p)
      PROVE  RowsFit'
  <2>1. pc[p] = "superseding" /\ txn[p].op = "recalculate" /\ txn[p] \in Txn
    BY <1>1, <1>4, ActiveTxn DEF InsertCalculation, Active, RowsInv, CountersInv, GovernanceInv, PhaseOps
  <2>2. /\ txn'[p] = [txn[p] EXCEPT !.number = NextVersionNumber(txn[p].rec)]
        /\ \A q \in Requests : q # p => pc'[q] = pc[q] /\ txn'[q] = txn[q]
    BY <1>1, <1>4, ProceedEffect DEF InsertCalculation
  <2>3. txn'[p].op = "recalculate"
    BY <2>1, <2>2 DEF Txn
  <2>4. txn'[p].op \notin TransitionOps /\ txn'[p].op \notin LifecycleOps
    BY <2>3 DEF TransitionOps, LifecycleOps
  <2> QED
    BY <2>2, <2>4 DEF RowsInv, RowsFit
<1>5. ASSUME NEW p \in Requests, InsertVersion(p) \/ AppendEntry(p)
      PROVE  RowsFit'
  <2>1. pc[p] \in {"insert", "append"} /\ txn[p] \in Txn
    BY <1>1, <1>5, ActiveTxn DEF InsertVersion, AppendEntry, Active
  <2>2. /\ txn'[p] = txn[p] \/ txn'[p] = [txn[p] EXCEPT !.seen = tip]
        /\ \A q \in Requests : q # p => pc'[q] = pc[q] /\ txn'[q] = txn[q]
    BY <1>1, <1>5, ProceedEffect DEF InsertVersion, AppendEntry
  <2>3. /\ txn'[p].op = txn[p].op /\ txn'[p].actor = txn[p].actor
        /\ txn'[p].old = txn[p].old /\ txn'[p].row = txn[p].row
    BY <2>1, <2>2 DEF Txn
  <2> QED
    BY <2>1, <2>2, <2>3 DEF RowsInv, RowsFit
<1>6. ASSUME UNCHANGED <<pc, txn>>
      PROVE  RowsFit'
  BY <1>6 DEF RowsInv, RowsFit
<1>7. RowsFit'
  <2>1. ASSUME NEW u \in Users, DeleteUser(u)
        PROVE  UNCHANGED <<pc, txn>>
    BY <2>1 DEF DeleteUser
  <2> QED
    BY <1>1, <1>2, <1>3, <1>4, <1>5, <1>6, <2>1, StepCases DEF Saving
<1> QED
  BY <1>1, <1>7 DEF RowsInv

LEMMA InitRows == Init => RowsInv
<1> SUFFICES ASSUME Init PROVE RowsInv
  OBVIOUS
<1>1. CountersInv
  BY InitCounters
<1>2. OpsIssued /\ RowsFit
  BY DEF Init, OpsIssued, RowsFit, Active
<1> QED
  BY <1>1, <1>2 DEF RowsInv, OpsInv, CountersInv

LEMMA RowsCorrect == Spec => []RowsInv
<1> QED
  BY InitRows, NextRows, PTL DEF Spec

\* What the commit of a transition, a soft delete or a restore does to its
\* record, in terms of the row found there.
LEMMA CommitRow ==
    ASSUME RowsInv, NEW p \in Requests, Commit(p)
    PROVE  LET t == txn[p]
               r == txn[p].rec
           IN  /\ t.op \in TransitionOps =>
                     /\ t.old = rec[r] /\ ~rec[r].deleted /\ ~rec'[r].deleted
                     /\ rec'[r].status = TargetStatus(t.op)
                     /\ rec[r].status # rec'[r].status =>
                           rec'[r].status \in WorkflowTransitions[rec[r].status]
               /\ t.op \in LifecycleOps =>
                     /\ rec[r].deleted = (t.op = "restore")
                     /\ rec'[r].deleted = (t.op = "delete")
                     /\ rec'[r].status = rec[r].status
               /\ t.op = "recalculate" => rec'[r] = rec[r]
               /\ \A s \in Records : s # r => rec'[s] = rec[s]
<1> DEFINE t == txn[p]
           r == txn[p].rec
<1>1. TypeOK
  BY DEF RowsInv, CountersInv, GovernanceInv
<1>2. /\ t \in Txn /\ r \in Records /\ pc[p] = "commit" /\ rec[r] \in Row
      /\ rec'[r] = IF t.op = "recalculate" THEN rec[r] ELSE t.row
      /\ \A s \in Records : s # r => rec'[s] = rec[s]
  BY <1>1, CommitEffect DEF TypeOK
<1>3. t.op # "recalculate" => t.old = rec[r] /\ CleanAccepts(rec[r], t.row)
  BY <1>2 DEF HoldsRecord, RowsInv, CountersInv, GovernanceInv, HeldReadingsCurrent
<1>4. ASSUME t.op \in TransitionOps
      PROVE  /\ t.old = rec[r] /\ ~rec[r].deleted /\ ~rec'[r].deleted
             /\ rec'[r].status = TargetStatus(t.op)
             /\ rec[r].status # rec'[r].status =>
                   rec'[r].status \in WorkflowTransitions[rec[r].status]
  <2>1. t.op # "recalculate"
    BY <1>4 DEF TransitionOps
  <2>2. rec'[r] = Transitioned(rec[r], t.op, t.actor) /\ ~rec[r].deleted
    BY <1>2, <1>3, <1>4, <2>1 DEF RowsInv, RowsFit
  <2>3. Transitioned(rec[r], t.op, t.actor).status = TargetStatus(t.op)
        /\ Transitioned(rec[r], t.op, t.actor).deleted = rec[r].deleted
    BY <1>2 DEF Transitioned, Row
  <2>4. rec[r].status # rec'[r].status =>
           rec'[r].status \in WorkflowTransitions[rec[r].status]
    BY <1>2, <1>3, <2>1 DEF CleanAccepts
  <2> QED
    BY <1>3, <2>1, <2>2, <2>3, <2>4
<1>5. ASSUME t.op \in LifecycleOps
      PROVE  /\ rec[r].deleted = (t.op = "restore")
             /\ rec'[r].deleted = (t.op = "delete")
             /\ rec'[r].status = rec[r].status
  <2>1. t.op # "recalculate"
    BY <1>5 DEF LifecycleOps
  <2>2. /\ rec'[r] = [rec[r] EXCEPT !.deleted = (t.op = "delete")]
        /\ rec[r].deleted = (t.op = "restore")
    BY <1>2, <1>3, <1>5, <2>1 DEF RowsInv, RowsFit
  <2> QED
    BY <1>2, <2>2 DEF Row
<1> QED
  BY <1>2, <1>4, <1>5

-----------------------------------------------------------------------------
(***************************************************************************)
(* Each record follows its lifecycle                                       *)
(***************************************************************************)

\* What an atomic step of RecordLifecycle does to record r.
LEMMA LifecycleStep ==
    ASSUME TypeOK, NEW r \in Records,
           \A s \in Records : s # r => rec'[s].status = rec[s].status /\ rec'[s].deleted = rec[s].deleted,
           \/ /\ ~rec[r].deleted /\ rec'[r].deleted = rec[r].deleted
              /\ rec'[r].status \in WorkflowTransitions[rec[r].status]
           \/ /\ rec'[r].status = rec[r].status
              /\ rec[r].deleted \in BOOLEAN /\ rec'[r].deleted = ~rec[r].deleted
    PROVE  Lifecycle!RNext
<1> DEFINE status == [s \in Records |-> rec[s].status]
           hidden == [s \in Records |-> rec[s].deleted]
<1>1. rec[r].status \in Status
  BY DEF TypeOK, Row
<1>2. /\ status' = [status EXCEPT ![r] = rec'[r].status]
      /\ hidden' = [hidden EXCEPT ![r] = rec'[r].deleted]
  OBVIOUS
<1>3. CASE /\ ~rec[r].deleted /\ rec'[r].deleted = rec[r].deleted
           /\ rec'[r].status \in WorkflowTransitions[rec[r].status]
  <2>1. hidden' = hidden
    BY <1>2, <1>3
  <2>2. \/ rec'[r].status = "SUBMITTED" /\ rec[r].status \in {"DRAFT", "SUSPICIOUS", "VALIDATED", "REJECTED"}
        \/ rec'[r].status = "APPROVED" /\ rec[r].status \in {"SUBMITTED"}
        \/ rec'[r].status = "REJECTED" /\ rec[r].status \in {"SUBMITTED"}
    BY <1>1, <1>3 DEF WorkflowTransitions
  <2>3. Lifecycle!Submit(r) \/ Lifecycle!Approve(r) \/ Lifecycle!Reject(r)
    BY <1>2, <1>3, <2>1, <2>2
       DEF Lifecycle!Submit, Lifecycle!Approve, Lifecycle!Reject, Lifecycle!Move
  <2> QED
    BY <2>3 DEF Lifecycle!RNext
<1>4. CASE /\ rec'[r].status = rec[r].status
           /\ rec[r].deleted \in BOOLEAN /\ rec'[r].deleted = ~rec[r].deleted
  <2>1. status' = status
    BY <1>2, <1>4
  <2>2. CASE rec[r].deleted = TRUE
    <3>1. rec'[r].deleted = FALSE
      BY <1>4, <2>2
    <3>2. Lifecycle!Restore(r)
      BY <1>2, <2>1, <2>2, <3>1 DEF Lifecycle!Restore
    <3> QED
      BY <3>2 DEF Lifecycle!RNext
  <2>3. CASE rec[r].deleted = FALSE
    <3>1. rec'[r].deleted = TRUE
      BY <1>4, <2>3
    <3>2. Lifecycle!Hide(r)
      BY <1>2, <2>1, <2>3, <3>1 DEF Lifecycle!Hide
    <3> QED
      BY <3>2 DEF Lifecycle!RNext
  <2> QED
    BY <1>4, <2>2, <2>3
<1> QED
  BY <1>3, <1>4

\* Through the API the records implement RecordLifecycle: the commit of a
\* transition, a soft delete or a restore is one atomic step of one record,
\* taken from the row that is there; nothing else moves a record.
THEOREM LifecycleTheorem ==
    ASSUME "admin_edit" \notin Ops
    PROVE  Spec => RecordsFollowLifecycle
<1>1. Init => Lifecycle!RInit
  <2> SUFFICES ASSUME Init PROVE Lifecycle!RInit
    OBVIOUS
  <2>1. ASSUME NEW r \in Records
        PROVE  rec[r].status \in {"DRAFT", "SUSPICIOUS", "FAILED"} /\ rec[r].deleted = FALSE
    <3>1. rec[r] \in Row /\ rec[r].status \in Ingested /\ ~rec[r].deleted
      BY DEF Init
    <3>2. rec[r].deleted \in BOOLEAN
      BY <3>1 DEF Row
    <3> QED
      BY <3>1, <3>2, IngestedAssumption
  <2> QED
    BY <2>1 DEF Lifecycle!RInit
<1>2. RowsInv /\ [Next]_vars => [Lifecycle!RNext]_(Lifecycle!lifecycleVars)
  <2> SUFFICES ASSUME RowsInv, [Next]_vars
               PROVE  Lifecycle!RNext \/ UNCHANGED Lifecycle!lifecycleVars
    OBVIOUS
  <2>1. TypeOK
    BY DEF RowsInv, CountersInv, GovernanceInv
  <2>2. ASSUME \A r \in Records :
                 rec'[r].status = rec[r].status /\ rec'[r].deleted = rec[r].deleted
        PROVE  UNCHANGED Lifecycle!lifecycleVars
    BY <2>2 DEF Lifecycle!lifecycleVars
  <2>3. ASSUME NEW p \in Requests, Commit(p)
        PROVE  Lifecycle!RNext \/ UNCHANGED Lifecycle!lifecycleVars
    <3> DEFINE t == txn[p]
               r == txn[p].rec
    <3>1. /\ r \in Records /\ t.op \in TransitionOps \cup LifecycleOps \cup {"recalculate"}
          /\ rec[r].deleted \in BOOLEAN
      <4>1. t \in Txn /\ r \in Records /\ Active(p)
        BY <2>1, <2>3, CommitEffect DEF Active
      <4>2. t.op # "admin_edit"
        BY <4>1 DEF RowsInv, OpsInv, OpsIssued
      <4> QED
        BY <2>1, <4>1, <4>2 DEF Txn, RequestOps, LockingOps, TypeOK, Row
    <3>2. \A s \in Records : s # r => rec'[s] = rec[s]
      BY <2>3, CommitRow
    <3>3. CASE t.op \in TransitionOps
      <4>1. /\ ~rec[r].deleted /\ ~rec'[r].deleted
            /\ rec[r].status # rec'[r].status =>
                  rec'[r].status \in WorkflowTransitions[rec[r].status]
        BY <2>3, <3>3, CommitRow
      <4>2. rec'[r].deleted = rec[r].deleted
        <5>1. rec'[r].deleted \in BOOLEAN
          BY <2>1, <3>1, NextType DEF TypeOK, Row
        <5> QED
          BY <3>1, <4>1, <5>1
      <4>3. CASE rec[r].status # rec'[r].status
        BY <2>1, <3>1, <3>2, <4>1, <4>2, <4>3, LifecycleStep
      <4>4. CASE rec[r].status = rec'[r].status
        BY <2>2, <3>2, <4>2, <4>4
      <4> QED
        BY <4>3, <4>4
    <3>4. CASE t.op \in LifecycleOps
      <4>1. /\ rec[r].deleted = (t.op = "restore") /\ rec'[r].deleted = (t.op = "delete")
            /\ rec'[r].status = rec[r].status
        BY <2>3, <3>4, CommitRow
      <4>2. rec'[r].deleted = ~rec[r].deleted
        BY <3>4, <4>1 DEF LifecycleOps
      <4> QED
        BY <2>1, <3>1, <3>2, <4>1, <4>2, LifecycleStep
    <3>5. CASE t.op = "recalculate"
      <4>1. rec'[r] = rec[r]
        BY <2>3, <3>5, CommitRow
      <4> QED
        BY <2>2, <3>2, <4>1
    <3> QED
      BY <3>1, <3>3, <3>4, <3>5
  <2>4. ASSUME NEW u \in Users, DeleteUser(u)
        PROVE  UNCHANGED Lifecycle!lifecycleVars
    BY <2>1, <2>2, <2>4, DeleteUserVersions
  <2>5. ASSUME UNCHANGED rec
        PROVE  UNCHANGED Lifecycle!lifecycleVars
    BY <2>2, <2>5
  <2> QED
    BY <2>3, <2>4, <2>5, TablesChangeOnlyBy
<1> QED
  BY <1>1, <1>2, RowsCorrect, PTL DEF Spec, RecordsFollowLifecycle, Lifecycle!RSpec

-----------------------------------------------------------------------------
(***************************************************************************)
(* The audit log replays the record                                        *)
(***************************************************************************)

\* Replays, of the entries E of any log.
ReplaysIn(log, E, first, last) ==
    /\ \A i \in E :
          LET before == {j \in E : j < i}
              after  == {j \in E : j > i}
          IN  /\ before = {} => log[i].changes.old = first
              /\ after = {} => log[i].changes.new = last
              /\ \A j \in after : (\A k \in after : j <= k) =>
                    log[j].changes.old = log[i].changes.new
    /\ E = {} => first = last

\* A log replays what its changes say, wherever they are kept.
LEMMA ReplaysSame ==
    ASSUME NEW log, NEW other, NEW E, NEW first, NEW last,
           \A i \in E : other[i].changes = log[i].changes,
           ReplaysIn(log, E, first, last)
    PROVE  ReplaysIn(other, E, first, last)
  BY DEF ReplaysIn

\* One more entry, that starts where the log ended, ends where it ends.
LEMMA ReplaysExtended ==
    ASSUME NEW log, NEW longer, NEW n \in Nat, NEW E \in SUBSET (1..n),
           NEW first, NEW last,
           \A i \in E : longer[i].changes = log[i].changes,
           ReplaysIn(log, E, first, last),
           longer[n + 1].changes.old = last
    PROVE  ReplaysIn(longer, E \cup {n + 1}, first, longer[n + 1].changes.new)
<1> DEFINE F == E \cup {n + 1}
           before(i) == {j \in F : j < i}
           after(i)  == {j \in F : j > i}
<1>1. ASSUME NEW i \in E
      PROVE  /\ before(i) = {j \in E : j < i} /\ after(i) = {j \in E : j > i} \cup {n + 1}
             /\ \A j \in E : j < n + 1 /\ ~(n + 1 <= j)
  <2>1. \A j \in E : j \in Nat /\ j < n + 1 /\ ~(n + 1 <= j) /\ ~(n + 1 < j)
    OBVIOUS
  <2> QED
    BY <2>1
<1>2. before(n + 1) = E /\ after(n + 1) = {}
  <2>1. \A j \in E : j \in Nat /\ j < n + 1 /\ ~(j > n + 1)
    OBVIOUS
  <2>2. ~(n + 1 < n + 1) /\ ~(n + 1 > n + 1)
    OBVIOUS
  <2> QED
    BY <2>1, <2>2
<1>3. ASSUME NEW i \in E
      PROVE  /\ before(i) = {} => longer[i].changes.old = first
             /\ after(i) = {} => longer[i].changes.new = longer[n + 1].changes.new
             /\ \A j \in after(i) : (\A k \in after(i) : j <= k) =>
                   longer[j].changes.old = longer[i].changes.new
  <2>1. before(i) = {} => longer[i].changes.old = first
    BY <1>1 DEF ReplaysIn
  <2>2. after(i) # {}
    BY <1>1
  <2>3. ASSUME NEW j \in after(i), \A k \in after(i) : j <= k
        PROVE  longer[j].changes.old = longer[i].changes.new
    <3> DEFINE old == {k \in E : k > i}
    <3>1. after(i) = old \cup {n + 1}
      BY <1>1
    <3> HIDE DEF after, old
    <3>2. CASE old = {}
      <4>1. log[i].changes.new = last
        BY <3>2 DEF ReplaysIn, old
      <4>2. j = n + 1
        BY <2>3, <3>1, <3>2
      <4> QED
        BY <4>1, <4>2
    <3>3. CASE old # {}
      <4>1. PICK k \in old : TRUE
        BY <3>3
      <4>2. k \in E /\ k \in after(i)
        BY <3>1, <4>1 DEF old
      <4>3. j # n + 1
        BY <1>1, <2>3, <4>2
      <4>4. j \in old /\ j \in E /\ \A m \in old : j <= m
        BY <2>3, <3>1, <4>3 DEF old
      <4>5. log[j].changes.old = log[i].changes.new
        BY <4>4 DEF ReplaysIn, old
      <4> QED
        BY <4>4, <4>5
    <3> QED
      BY <3>2, <3>3
  <2> QED
    BY <2>1, <2>2, <2>3
<1>4. /\ before(n + 1) = {} => longer[n + 1].changes.old = first
      /\ after(n + 1) = {} => longer[n + 1].changes.new = longer[n + 1].changes.new
      /\ \A j \in after(n + 1) : (\A k \in after(n + 1) : j <= k) =>
            longer[j].changes.old = longer[n + 1].changes.new
  <2>1. E = {} => first = last
    BY DEF ReplaysIn
  <2> QED
    BY <1>2, <2>1
<1>5. \A i \in F : i \in E \/ i = n + 1
  OBVIOUS
<1> QED
  BY <1>3, <1>4, <1>5 DEF ReplaysIn

\* The entries about record r that name version k.
NamedBy(r, k) == {i \in DOMAIN chain : chain[i].record = r /\ chain[i].changes.version = k}

\* Entries name versions that exist, and not the one of the ingestion.
EntriesNameVersions ==
    \A i \in DOMAIN chain : chain[i].changes.version \in 2..Len(versions[chain[i].record])

VersionsNamedOnce ==
    \A r \in Records : \A k \in 2..Len(versions[r]) : \E i : NamedBy(r, k) = {i}

StatusShown ==
    \A r \in Records : \A i \in StatusEntries(r) :
        LET named == versions[r][chain[i].changes.version].row IN
        named.status = chain[i].changes.new /\ ~named.deleted

Visibility(r) == IF rec[r].deleted THEN "deleted" ELSE "active"

LogReplays ==
    \A r \in Records :
        /\ ReplaysIn(chain, StatusEntries(r), versions[r][1].row.status, rec[r].status)
        /\ ReplaysIn(chain, VisibilityEntries(r), "active", Visibility(r))

AuditInv == RowsInv /\ EntriesNameVersions /\ VersionsNamedOnce /\ StatusShown /\ LogReplays

\* What one entry says of the status, and of the visibility, of its record.
LEMMA EntryChanges ==
    ASSUME NEW t \in Txn, t.op \in AuditedOps
    PROVE  /\ EntryOf(t).record = t.rec /\ EntryOf(t).changes.version = t.number
           /\ t.op \in TransitionOps =>
                 /\ EntryOf(t).changes.old = t.old.status
                 /\ EntryOf(t).changes.new = t.row.status
                 /\ EntryOf(t).changes.new \in Status
           /\ t.op \notin TransitionOps => EntryOf(t).changes.new \notin Status
           /\ t.op \in LifecycleOps =>
                 /\ EntryOf(t).changes.old = IF t.op = "restore" THEN "deleted" ELSE "active"
                 /\ EntryOf(t).changes.new = IF t.op = "delete" THEN "deleted" ELSE "active"
           /\ t.op \notin LifecycleOps => EntryOf(t).changes.new \notin {"active", "deleted"}
<1>1. EntryOf(t).record = t.rec /\ EntryOf(t).changes = Changes(t)
  BY DEF EntryOf, NewEntry
<1>2. t.row.status \in Status
  BY DEF Txn, Row
<1>3. CASE t.op \in TransitionOps
  <2>1. /\ Changes(t).old = t.old.status /\ Changes(t).new = t.row.status
        /\ Changes(t).version = t.number /\ t.op \notin LifecycleOps
    BY <1>3 DEF Changes, TransitionOps, LifecycleOps
  <2>2. t.row.status \notin {"active", "deleted"}
    BY <1>2 DEF Status
  <2> QED
    BY <1>1, <1>2, <1>3, <2>1, <2>2
<1>4. CASE t.op = "delete"
  <2>1. /\ Changes(t).old = "active" /\ Changes(t).new = "deleted"
        /\ Changes(t).version = t.number /\ t.op \notin TransitionOps
    BY <1>4 DEF Changes, TransitionOps
  <2> QED
    BY <1>1, <1>4, <2>1 DEF Status, LifecycleOps
<1>5. CASE t.op = "restore"
  <2>1. /\ Changes(t).old = "deleted" /\ Changes(t).new = "active"
        /\ Changes(t).version = t.number /\ t.op \notin TransitionOps
    BY <1>5 DEF Changes, TransitionOps
  <2> QED
    BY <1>1, <1>5, <2>1 DEF Status, LifecycleOps
<1>6. CASE t.op = "recalculate"
  <2>1. /\ Changes(t).new = "-" /\ Changes(t).version = t.number
        /\ t.op \notin TransitionOps /\ t.op \notin LifecycleOps
    BY <1>6 DEF Changes, TransitionOps, LifecycleOps, NoChange
  <2> QED
    BY <1>1, <2>1 DEF Status
<1> QED
  BY <1>3, <1>4, <1>5, <1>6 DEF AuditedOps, LockingOps, LifecycleOps

\* What the commit of an audited request adds to the log and to the history.
LEMMA CommitWrites ==
    ASSUME RowsInv, NEW p \in Requests, Commit(p), txn[p].op # "admin_edit"
    PROVE  /\ txn[p] \in Txn /\ txn[p].rec \in Records /\ txn[p].op \in AuditedOps
           /\ Len(chain) \in Nat /\ DOMAIN chain = 1..Len(chain)
           /\ DOMAIN chain' = 1..(Len(chain) + 1) /\ chain'[Len(chain) + 1] = EntryOf(txn[p])
           /\ \A i \in DOMAIN chain : chain'[i] = chain[i]
           /\ Len(versions[txn[p].rec]) \in Nat /\ Len(versions[txn[p].rec]) >= 1
           /\ txn[p].number = Len(versions[txn[p].rec]) + 1
           /\ Len(versions'[txn[p].rec]) = Len(versions[txn[p].rec]) + 1
           /\ versions'[txn[p].rec][Len(versions[txn[p].rec]) + 1] = VersionOf(txn[p])
           /\ \A i \in 1..Len(versions[txn[p].rec]) :
                 versions'[txn[p].rec][i] = versions[txn[p].rec][i]
           /\ \A r \in Records : r # txn[p].rec => versions'[r] = versions[r]
<1> DEFINE t == txn[p]
           e == EntryOf(txn[p])
           v == VersionOf(txn[p])
<1>1. TypeOK
  BY DEF RowsInv, CountersInv, GovernanceInv
<1>2. /\ t \in Txn /\ t.rec \in Records /\ pc[p] = "commit"
      /\ versions'[t.rec] = Append(versions[t.rec], v)
      /\ \A r \in Records : r # t.rec => versions'[r] = versions[r]
  BY <1>1, CommitEffect
<1>3. t.op \in AuditedOps
  BY <1>2 DEF Txn, RequestOps, AuditedOps
<1>4. chain' = Append(chain, e) /\ chain \in Seq(Entry) /\ versions[t.rec] \in Seq(VersionRow)
  BY <1>1, <1>2 DEF Commit, TypeOK
<1>5. t.number = Len(versions[t.rec]) + 1 /\ Len(versions[t.rec]) >= 1
  BY <1>2 DEF HasInserted, RowsInv, CountersInv, KeysClaimed, FirstVersionKept
<1> HIDE DEF e, v
<1>6. /\ Len(chain) \in Nat /\ DOMAIN chain = 1..Len(chain)
      /\ DOMAIN chain' = 1..(Len(chain) + 1) /\ chain'[Len(chain) + 1] = e
      /\ \A i \in DOMAIN chain : chain'[i] = chain[i]
  BY <1>4
<1>7. /\ Len(versions[t.rec]) \in Nat
      /\ Len(versions'[t.rec]) = Len(versions[t.rec]) + 1
      /\ versions'[t.rec][Len(versions[t.rec]) + 1] = v
      /\ \A i \in 1..Len(versions[t.rec]) : versions'[t.rec][i] = versions[t.rec][i]
  BY <1>2, <1>4
<1> QED
  BY <1>2, <1>3, <1>5, <1>6, <1>7 DEF e, v

LEMMA CommitNames ==
    ASSUME AuditInv, NEW p \in Requests, Commit(p), txn[p].op # "admin_edit"
    PROVE  EntriesNameVersions' /\ VersionsNamedOnce' /\ StatusShown'
<1> DEFINE t == txn[p]
           e == EntryOf(txn[p])
           n == Len(chain)
           k == Len(versions[txn[p].rec])
<1>1. /\ t \in Txn /\ t.rec \in Records /\ t.op \in AuditedOps
      /\ n \in Nat /\ DOMAIN chain = 1..n
      /\ DOMAIN chain' = 1..(n + 1) /\ chain'[n + 1] = e
      /\ \A i \in DOMAIN chain : chain'[i] = chain[i]
      /\ k \in Nat /\ k >= 1 /\ t.number = k + 1
      /\ Len(versions'[t.rec]) = k + 1 /\ versions'[t.rec][k + 1] = VersionOf(t)
      /\ \A i \in 1..k : versions'[t.rec][i] = versions[t.rec][i]
      /\ \A r \in Records : r # t.rec => versions'[r] = versions[r]
  BY CommitWrites DEF AuditInv
<1>2. /\ e.record = t.rec /\ e.changes.version = k + 1
      /\ t.op \in TransitionOps => e.changes.new = t.row.status
      /\ t.op \notin TransitionOps => e.changes.new \notin Status
  BY <1>1, EntryChanges
<1>3. TypeOK /\ chain \in Seq(Entry) /\ \A i \in 1..n : chain[i].record \in Records
  <2>1. TypeOK /\ chain \in Seq(Entry)
    BY DEF AuditInv, RowsInv, CountersInv, GovernanceInv, TypeOK
  <2>2. ASSUME NEW i \in 1..n
        PROVE  chain[i].record \in Records
    <3>1. chain[i] \in Entry
      BY <1>1, <2>1
    <3> QED
      BY <3>1 DEF Entry
  <2> QED
    BY <2>1, <2>2
<1> HIDE DEF e, n, k
<1>4. \A i \in 1..n : chain[i].changes.version \in 2..Len(versions[chain[i].record])
  BY <1>1 DEF AuditInv, EntriesNameVersions
<1>5. EntriesNameVersions'
  <2>1. ASSUME NEW i \in DOMAIN chain'
        PROVE  chain'[i].changes.version \in 2..Len(versions'[chain'[i].record])
    <3>1. CASE i = n + 1
      <4>1. k + 1 \in 2..(k + 1)
        BY <1>1
      <4> QED
        BY <1>1, <1>2, <3>1, <4>1
    <3>2. CASE i # n + 1
      <4>1. i \in 1..n /\ chain'[i] = chain[i]
        BY <1>1, <2>1, <3>2
      <4>2. CASE chain[i].record = t.rec
        <5>1. chain[i].changes.version \in 2..k
          BY <1>4, <4>1, <4>2 DEF k
        <5>2. chain[i].changes.version \in 2..(k + 1)
          BY <1>1, <5>1
        <5> QED
          BY <1>1, <4>1, <4>2, <5>2
      <4>3. CASE chain[i].record # t.rec
        BY <1>1, <1>3, <1>4, <4>1, <4>3
      <4> QED
        BY <4>2, <4>3
    <3> QED
      BY <3>1, <3>2
  <2> QED
    BY <2>1 DEF EntriesNameVersions
<1>6. VersionsNamedOnce'
  <2>1. ASSUME NEW r \in Records, NEW m \in 2..Len(versions'[r])
        PROVE  \E i : NamedBy(r, m)' = {i}
    <3>1. NamedBy(r, m)' = {i \in 1..(n + 1) : chain'[i].record = r /\ chain'[i].changes.version = m}
      BY <1>1 DEF NamedBy
    <3>2. NamedBy(r, m) = {i \in 1..n : chain[i].record = r /\ chain[i].changes.version = m}
      BY <1>1 DEF NamedBy
    <3>3. CASE r = t.rec /\ m = k + 1
      <4>1. \A i \in 1..n : ~(chain'[i].record = r /\ chain'[i].changes.version = m)
        <5>1. ASSUME NEW i \in 1..n, chain[i].record = r
              PROVE  chain[i].changes.version # m
          <6>1. chain[i].changes.version \in 2..k
            BY <1>4, <3>3, <5>1 DEF k
          <6> QED
            BY <1>1, <3>3, <6>1
        <5> QED
          BY <1>1, <5>1
      <4>2. n + 1 \in NamedBy(r, m)'
        BY <1>1, <1>2, <3>1, <3>3
      <4>3. \A i \in NamedBy(r, m)' : i = n + 1
        BY <1>1, <3>1, <4>1
      <4> QED
        BY <4>2, <4>3
    <3>4. CASE ~(r = t.rec /\ m = k + 1)
      <4>1. NamedBy(r, m)' = NamedBy(r, m)
        <5>1. ~(chain'[n + 1].record = r /\ chain'[n + 1].changes.version = m)
          BY <1>1, <1>2, <3>4
        <5> QED
          BY <1>1, <3>1, <3>2, <5>1
      <4>2. m \in 2..Len(versions[r])
        <5>1. CASE r = t.rec
          <6>1. m \in 2..(k + 1) /\ m # k + 1
            BY <1>1, <2>1, <3>4, <5>1
          <6>2. m \in 2..k
            BY <1>1, <6>1
          <6> QED
            BY <5>1, <6>2 DEF k
        <5>2. CASE r # t.rec
          BY <1>1, <2>1, <5>2
        <5> QED
          BY <5>1, <5>2
      <4> QED
        BY <4>1, <4>2 DEF AuditInv, VersionsNamedOnce
    <3> QED
      BY <3>3, <3>4
  <2> QED
    BY <2>1 DEF VersionsNamedOnce
<1>7. StatusShown'
  <2>1. ASSUME NEW r \in Records, NEW i \in StatusEntries(r)'
        PROVE  /\ versions'[r][chain'[i].changes.version].row.status = chain'[i].changes.new
               /\ ~versions'[r][chain'[i].changes.version].row.deleted
    <3>1. i \in 1..(n + 1) /\ chain'[i].record = r /\ chain'[i].changes.new \in Status
      BY <1>1, <2>1 DEF StatusEntries, Status
    <3>2. CASE i = n + 1
      <4>1. t.op \in TransitionOps /\ r = t.rec /\ e.changes.new = t.row.status
        BY <1>1, <1>2, <3>1, <3>2
      <4>2. versions'[r][chain'[i].changes.version] = VersionOf(t)
        BY <1>1, <1>2, <3>2, <4>1
      <4>3. VersionOf(t).row = t.row
        BY DEF VersionOf
      <4>4. ~t.row.deleted
        <5>1. ~rec'[t.rec].deleted
          BY <4>1, CommitRow DEF AuditInv
        <5>2. rec'[t.rec] = t.row
          <6>1. t.op # "recalculate"
            BY <4>1 DEF TransitionOps
          <6> QED
            BY <1>3, <6>1, CommitEffect
        <5> QED
          BY <5>1, <5>2
      <4> QED
        BY <1>1, <3>2, <4>1, <4>2, <4>3, <4>4
    <3>3. CASE i # n + 1
      <4>1. i \in 1..n /\ chain'[i] = chain[i] /\ i \in StatusEntries(r)
        BY <1>1, <3>1, <3>3 DEF StatusEntries
      <4>2. /\ versions[r][chain[i].changes.version].row.status = chain[i].changes.new
            /\ ~versions[r][chain[i].changes.version].row.deleted
        BY <4>1 DEF AuditInv, StatusShown
      <4>3. chain[i].changes.version \in 1..Len(versions[r])
        <5>1. chain[i].changes.version \in 2..Len(versions[r])
          BY <1>4, <3>1, <4>1
        <5>2. Len(versions[r]) \in Nat
          BY <1>3 DEF TypeOK
        <5> QED
          BY <5>1, <5>2
      <4>4. versions'[r][chain[i].changes.version] = versions[r][chain[i].changes.version]
        BY <1>1, <4>3 DEF k
      <4> QED
        BY <4>1, <4>2, <4>4
    <3> QED
      BY <3>2, <3>3
  <2> QED
    BY <2>1 DEF StatusShown
<1> QED
  BY <1>5, <1>6, <1>7

LEMMA CommitReplays ==
    ASSUME AuditInv, NEW p \in Requests, Commit(p), txn[p].op # "admin_edit"
    PROVE  LogReplays'
<1> DEFINE t == txn[p]
           e == EntryOf(txn[p])
           n == Len(chain)
<1>1. /\ t \in Txn /\ t.rec \in Records /\ t.op \in AuditedOps
      /\ n \in Nat /\ DOMAIN chain = 1..n
      /\ DOMAIN chain' = 1..(n + 1) /\ chain'[n + 1] = e
      /\ \A i \in DOMAIN chain : chain'[i] = chain[i]
      /\ \A r \in Records : r # t.rec => versions'[r] = versions[r]
      /\ Len(versions[t.rec]) \in Nat /\ Len(versions[t.rec]) >= 1
      /\ \A i \in 1..Len(versions[t.rec]) : versions'[t.rec][i] = versions[t.rec][i]
  BY CommitWrites DEF AuditInv
<1>2. /\ e.record = t.rec
      /\ t.op \in TransitionOps =>
            /\ e.changes.old = t.old.status /\ e.changes.new = t.row.status
            /\ e.changes.new \in Status
      /\ t.op \notin TransitionOps => e.changes.new \notin Status
      /\ t.op \in LifecycleOps =>
            /\ e.changes.old = IF t.op = "restore" THEN "deleted" ELSE "active"
            /\ e.changes.new = IF t.op = "delete" THEN "deleted" ELSE "active"
      /\ t.op \notin LifecycleOps => e.changes.new \notin {"active", "deleted"}
  BY <1>1, EntryChanges
<1>3. TypeOK
  BY DEF AuditInv, RowsInv, CountersInv, GovernanceInv
<1>4. /\ t.op \in TransitionOps \/ t.op \in LifecycleOps \/ t.op = "recalculate"
      /\ ~(t.op \in TransitionOps /\ t.op \in LifecycleOps)
      /\ t.op = "recalculate" => t.op \notin TransitionOps /\ t.op \notin LifecycleOps
  BY <1>1 DEF AuditedOps, LockingOps, TransitionOps, LifecycleOps
<1> HIDE DEF e, n
<1>5. \A r \in Records : versions'[r][1] = versions[r][1]
  <2>1. 1 \in 1..Len(versions[t.rec])
    BY <1>1
  <2> QED
    BY <1>1, <2>1
<1>6. ASSUME NEW r \in Records
      PROVE  ReplaysIn(chain', StatusEntries(r)', versions[r][1].row.status, rec'[r].status)
  <2> DEFINE first == versions[r][1].row.status
             E == StatusEntries(r)
  <2>1. E \in SUBSET (1..n) /\ ReplaysIn(chain, E, first, rec[r].status)
    BY <1>1 DEF StatusEntries, AuditInv, LogReplays
  <2>2. \A i \in E : chain'[i].changes = chain[i].changes
    BY <1>1, <2>1
  <2>3. StatusEntries(r)' = {i \in 1..(n + 1) : chain'[i].record = r /\ chain'[i].changes.new \in Status}
    BY <1>1 DEF StatusEntries, Status
  <2>4. E = {i \in 1..n : chain[i].record = r /\ chain[i].changes.new \in Status}
    BY <1>1 DEF StatusEntries
  <2>5. CASE r = t.rec /\ t.op \in TransitionOps
    <3>1. StatusEntries(r)' = E \cup {n + 1}
      BY <1>1, <1>2, <2>3, <2>4, <2>5
    <3>2. e.changes.old = rec[r].status /\ e.changes.new = rec'[r].status
      <4>1. t.old = rec[r]
        BY <2>5, CommitRow DEF AuditInv
      <4>2. rec'[r] = t.row
        <5>1. t.op # "recalculate"
          BY <2>5 DEF TransitionOps
        <5> QED
          BY <1>3, <2>5, <5>1, CommitEffect
      <4> QED
        BY <1>2, <2>5, <4>1, <4>2
    <3> HIDE DEF E, first
    <3>3. ReplaysIn(chain', E \cup {n + 1}, first, chain'[n + 1].changes.new)
      BY <1>1, <2>1, <2>2, <3>2, ReplaysExtended
    <3> QED
      BY <1>1, <3>1, <3>2, <3>3 DEF first
  <2>6. CASE ~(r = t.rec /\ t.op \in TransitionOps)
    <3>1. StatusEntries(r)' = E
      <4>1. ~(chain'[n + 1].record = r /\ chain'[n + 1].changes.new \in Status)
        BY <1>1, <1>2, <2>6
      <4> QED
        BY <1>1, <2>3, <2>4, <4>1
    <3>2. rec'[r].status = rec[r].status
      BY <1>4, <2>6, CommitRow DEF AuditInv
    <3> HIDE DEF E, first
    <3>3. ReplaysIn(chain', E, first, rec[r].status)
      BY <2>1, <2>2, ReplaysSame
    <3> QED
      BY <3>1, <3>2, <3>3 DEF first
  <2> QED
    BY <2>5, <2>6
<1>7. ASSUME NEW r \in Records
      PROVE  ReplaysIn(chain', VisibilityEntries(r)', "active", Visibility(r)')
  <2> DEFINE E == VisibilityEntries(r)
  <2>1. E \in SUBSET (1..n) /\ ReplaysIn(chain, E, "active", Visibility(r))
    BY <1>1 DEF VisibilityEntries, AuditInv, LogReplays
  <2>2. \A i \in E : chain'[i].changes = chain[i].changes
    BY <1>1, <2>1
  <2>3. VisibilityEntries(r)' = {i \in 1..(n + 1) :
            chain'[i].record = r /\ chain'[i].changes.new \in {"active", "deleted"}}
    BY <1>1 DEF VisibilityEntries
  <2>4. E = {i \in 1..n : chain[i].record = r /\ chain[i].changes.new \in {"active", "deleted"}}
    BY <1>1 DEF VisibilityEntries
  <2>5. CASE r = t.rec /\ t.op \in LifecycleOps
    <3>1. e.changes.new \in {"active", "deleted"}
      BY <1>2, <2>5
    <3>2. VisibilityEntries(r)' = E \cup {n + 1}
      BY <1>1, <1>2, <2>3, <2>4, <2>5, <3>1
    <3>3. e.changes.old = Visibility(r) /\ e.changes.new = Visibility(r)'
      <4>1. rec[r].deleted = (t.op = "restore") /\ rec'[r].deleted = (t.op = "delete")
        BY <2>5, CommitRow DEF AuditInv
      <4> QED
        BY <1>2, <2>5, <4>1 DEF Visibility
    <3> HIDE DEF E
    <3>4. ReplaysIn(chain', E \cup {n + 1}, "active", chain'[n + 1].changes.new)
      BY <1>1, <2>1, <2>2, <3>3, ReplaysExtended
    <3> QED
      BY <1>1, <3>2, <3>3, <3>4
  <2>6. CASE ~(r = t.rec /\ t.op \in LifecycleOps)
    <3>1. VisibilityEntries(r)' = E
      <4>1. ~(chain'[n + 1].record = r /\ chain'[n + 1].changes.new \in {"active", "deleted"})
        BY <1>1, <1>2, <2>6
      <4> QED
        BY <1>1, <2>3, <2>4, <4>1
    <3>2. Visibility(r)' = Visibility(r)
      <4>1. CASE r = t.rec /\ t.op \in TransitionOps
        <5>1. ~rec[r].deleted /\ ~rec'[r].deleted
          BY <4>1, CommitRow DEF AuditInv
        <5> QED
          BY <5>1 DEF Visibility
      <4>2. CASE r # t.rec \/ t.op = "recalculate"
        <5>1. rec'[r] = rec[r]
          BY <4>2, CommitRow DEF AuditInv
        <5> QED
          BY <5>1 DEF Visibility
      <4> QED
        BY <1>4, <2>6, <4>1, <4>2
    <3> HIDE DEF E
    <3>3. ReplaysIn(chain', E, "active", Visibility(r))
      BY <2>1, <2>2, ReplaysSame
    <3> QED
      BY <3>1, <3>2, <3>3
  <2> QED
    BY <2>5, <2>6
<1> QED
  BY <1>5, <1>6, <1>7 DEF LogReplays

\* The SET_NULL cascade leaves what entries say of records, and versions of
\* status and visibility.
LEMMA DeleteUserAudit ==
    ASSUME AuditInv, NEW u \in Users, DeleteUser(u)
    PROVE  EntriesNameVersions' /\ VersionsNamedOnce' /\ StatusShown' /\ LogReplays'
<1>1. TypeOK /\ FirstVersionKept
  BY DEF AuditInv, RowsInv, CountersInv, GovernanceInv
<1>2. DOMAIN chain' = DOMAIN chain
  BY DEF DeleteUser
<1>3. \A i \in DOMAIN chain :
        /\ chain[i].record \in Records
        /\ chain'[i].record = chain[i].record /\ chain'[i].changes = chain[i].changes
  <2>1. ASSUME NEW i \in DOMAIN chain
        PROVE  /\ chain[i].record \in Records
               /\ chain'[i].record = chain[i].record /\ chain'[i].changes = chain[i].changes
    <3>1. chain[i] \in Entry
      BY <1>1, ElementOfSeq DEF TypeOK
    <3> QED
      BY <3>1 DEF DeleteUser, Entry
  <2> QED
    BY <2>1
<1>4. \A r \in Records :
        /\ rec'[r].status = rec[r].status /\ rec'[r].deleted = rec[r].deleted
        /\ Len(versions'[r]) = Len(versions[r]) /\ DOMAIN versions'[r] = DOMAIN versions[r]
        /\ \A i \in DOMAIN versions[r] :
              /\ versions'[r][i].row.status = versions[r][i].row.status
              /\ versions'[r][i].row.deleted = versions[r][i].row.deleted
  BY <1>1, DeleteUserVersions
<1>5. \A r \in Records : \A k : NamedBy(r, k)' = NamedBy(r, k)
  BY <1>2, <1>3 DEF NamedBy
<1>6. \A r \in Records : StatusEntries(r)' = StatusEntries(r)
  BY <1>2, <1>3 DEF StatusEntries, Status
<1>7. \A r \in Records : VisibilityEntries(r)' = VisibilityEntries(r)
  BY <1>2, <1>3 DEF VisibilityEntries
<1>8. EntriesNameVersions'
  BY <1>2, <1>3, <1>4 DEF AuditInv, EntriesNameVersions
<1>9. VersionsNamedOnce'
  <2>1. ASSUME NEW r \in Records, NEW k \in 2..Len(versions'[r])
        PROVE  \E i : NamedBy(r, k)' = {i}
    <3>1. k \in 2..Len(versions[r])
      BY <1>4
    <3>2. PICK i : NamedBy(r, k) = {i}
      BY <3>1 DEF AuditInv, VersionsNamedOnce
    <3>3. NamedBy(r, k)' = {i}
      BY <1>5, <3>2
    <3> QED
      BY <3>3
  <2> QED
    BY <2>1 DEF VersionsNamedOnce
<1>10. StatusShown'
  <2>1. ASSUME NEW r \in Records, NEW i \in StatusEntries(r)
        PROVE  /\ versions'[r][chain'[i].changes.version].row.status = chain'[i].changes.new
               /\ ~versions'[r][chain'[i].changes.version].row.deleted
    <3>1. i \in DOMAIN chain /\ chain[i].record = r
      BY <2>1 DEF StatusEntries
    <3>2. chain[i].changes.version \in 2..Len(versions[r])
      BY <3>1 DEF AuditInv, EntriesNameVersions
    <3>3. chain[i].changes.version \in DOMAIN versions[r]
      <4>1. versions[r] \in Seq(VersionRow)
        BY <1>1 DEF TypeOK
      <4> QED
        BY <3>2, <4>1
    <3>4. /\ versions[r][chain[i].changes.version].row.status = chain[i].changes.new
          /\ ~versions[r][chain[i].changes.version].row.deleted
      BY DEF AuditInv, StatusShown
    <3>5. chain'[i].changes = chain[i].changes
      BY <1>3, <3>1
    <3>6. /\ versions'[r][chain[i].changes.version].row.status
                = versions[r][chain[i].changes.version].row.status
          /\ versions'[r][chain[i].changes.version].row.deleted
                = versions[r][chain[i].changes.version].row.deleted
      BY <1>4, <3>3
    <3> QED
      BY <3>4, <3>5, <3>6
  <2> QED
    BY <1>6, <2>1 DEF StatusShown
<1>11. LogReplays'
  <2>1. ASSUME NEW r \in Records
        PROVE  /\ ReplaysIn(chain', StatusEntries(r), versions'[r][1].row.status, rec'[r].status)
               /\ ReplaysIn(chain', VisibilityEntries(r), "active", Visibility(r)')
    <3>1. /\ ReplaysIn(chain, StatusEntries(r), versions[r][1].row.status, rec[r].status)
          /\ ReplaysIn(chain, VisibilityEntries(r), "active", Visibility(r))
      BY DEF AuditInv, LogReplays
    <3>2. /\ \A i \in StatusEntries(r) : chain'[i].changes = chain[i].changes
          /\ \A i \in VisibilityEntries(r) : chain'[i].changes = chain[i].changes
      BY <1>3 DEF StatusEntries, VisibilityEntries
    <3>3. 1 \in DOMAIN versions[r]
      BY <1>1 DEF TypeOK, FirstVersionKept
    <3>4. versions'[r][1].row.status = versions[r][1].row.status /\ rec'[r].status = rec[r].status
      BY <1>4, <3>3
    <3>5. Visibility(r)' = Visibility(r)
      BY <1>4 DEF Visibility
    <3>6. /\ ReplaysIn(chain', StatusEntries(r), versions[r][1].row.status, rec[r].status)
          /\ ReplaysIn(chain', VisibilityEntries(r), "active", Visibility(r))
      BY <3>1, <3>2, ReplaysSame
    <3> QED
      BY <3>4, <3>5, <3>6
  <2> QED
    BY <1>6, <1>7, <2>1 DEF LogReplays
<1> QED
  BY <1>8, <1>9, <1>10, <1>11

LEMMA InitAudit == Init => AuditInv
<1> SUFFICES ASSUME Init PROVE AuditInv
  OBVIOUS
<1>1. RowsInv
  BY InitRows
<1>2. chain = << >> /\ DOMAIN chain = {}
  BY DEF Init
<1>3. ASSUME NEW r \in Records
      PROVE  Len(versions[r]) = 1 /\ versions[r][1].row = rec[r] /\ ~rec[r].deleted
  <2> DEFINE v == [number |-> 1, row |-> rec[r], calc |-> 0]
  <2>1. versions[r] = << v >> /\ v.row = rec[r] /\ ~rec[r].deleted
    BY DEF Init
  <2> HIDE DEF v
  <2> QED
    BY <2>1
<1>4. \A r \in Records : StatusEntries(r) = {} /\ VisibilityEntries(r) = {}
  BY <1>2 DEF StatusEntries, VisibilityEntries
<1>5. EntriesNameVersions /\ StatusShown
  BY <1>2, <1>4 DEF EntriesNameVersions, StatusShown
<1>6. VersionsNamedOnce
  <2>1. ASSUME NEW r \in Records
        PROVE  2..Len(versions[r]) = {}
    <3>1. Len(versions[r]) = 1
      BY <1>3
    <3>2. 2..1 = {}
      OBVIOUS
    <3> QED
      BY <3>1, <3>2
  <2> QED
    BY <2>1 DEF VersionsNamedOnce
<1>7. LogReplays
  <2>1. ASSUME NEW first, NEW last, first = last
        PROVE  ReplaysIn(chain, {}, first, last)
    BY <2>1 DEF ReplaysIn
  <2> QED
    BY <1>3, <1>4, <2>1 DEF LogReplays, Visibility
<1> QED
  BY <1>1, <1>5, <1>6, <1>7 DEF AuditInv

\* Through the API, the audit log and the version history stay in step.
LEMMA AuditCorrect ==
    ASSUME "admin_edit" \notin Ops
    PROVE  Spec => []AuditInv
<1>1. AuditInv /\ [Next]_vars => AuditInv'
  <2> SUFFICES ASSUME AuditInv, [Next]_vars PROVE AuditInv'
    OBVIOUS
  <2>1. TypeOK /\ RowsInv'
    BY NextRows DEF AuditInv, RowsInv, CountersInv, GovernanceInv
  <2>2. ASSUME NEW p \in Requests, Commit(p)
        PROVE  EntriesNameVersions' /\ VersionsNamedOnce' /\ StatusShown' /\ LogReplays'
    <3>1. txn[p].op # "admin_edit"
      BY <2>2 DEF Commit, Active, AuditInv, RowsInv, OpsInv, OpsIssued
    <3> QED
      BY <2>2, <3>1, CommitNames, CommitReplays
  <2>3. ASSUME UNCHANGED <<rec, versions, chain>>
        PROVE  EntriesNameVersions' /\ VersionsNamedOnce' /\ StatusShown' /\ LogReplays'
    <3>1. \A r \in Records :
            /\ StatusEntries(r)' = StatusEntries(r) /\ VisibilityEntries(r)' = VisibilityEntries(r)
            /\ Visibility(r)' = Visibility(r) /\ \A k : NamedBy(r, k)' = NamedBy(r, k)
      BY <2>3 DEF StatusEntries, VisibilityEntries, Visibility, NamedBy, Status
    <3>2. VersionsNamedOnce'
      <4>1. ASSUME NEW r \in Records, NEW k \in 2..Len(versions[r])
            PROVE  \E i : NamedBy(r, k)' = {i}
        <5>1. PICK i : NamedBy(r, k) = {i}
          BY DEF AuditInv, VersionsNamedOnce
        <5>2. NamedBy(r, k)' = {i}
          BY <3>1, <5>1
        <5> QED
          BY <5>2
      <4> QED
        BY <2>3, <4>1 DEF VersionsNamedOnce
    <3>3. EntriesNameVersions' /\ StatusShown'
      BY <2>3, <3>1 DEF AuditInv, EntriesNameVersions, StatusShown
    <3>4. LogReplays'
      BY <2>3, <3>1 DEF AuditInv, LogReplays
    <3> QED
      BY <3>2, <3>3, <3>4
  <2>4. ASSUME NEW p \in Requests,
               \/ AnswerUnchanged(p) \/ Saving(p) \/ Reading(p)
               \/ SupersedeCurrent(p) \/ InsertCalculation(p)
               \/ InsertVersion(p) \/ AppendEntry(p)
        PROVE  UNCHANGED <<rec, versions, chain>>
    BY <2>4 DEF AnswerUnchanged, Saving, Saves, SaveRecord, Reading, Reads, SupersedeCurrent,
                InsertCalculation, InsertVersion, AppendEntry, Proceed, dbVars
  <2>5. EntriesNameVersions' /\ VersionsNamedOnce' /\ StatusShown' /\ LogReplays'
    BY <2>1, <2>2, <2>3, <2>4, DeleteUserAudit, StepCases
  <2> QED
    BY <2>1, <2>5 DEF AuditInv
<1> QED
  BY <1>1, InitAudit, PTL DEF Spec

\* No change of status or visibility is missing from the audit log, entered
\* twice or entered wrongly, whatever requests race, crash or lose an actor.
THEOREM ReplayTheorem ==
    ASSUME "admin_edit" \notin Ops
    PROVE  Spec => []AuditReplaysRecord
<1>1. AuditInv => AuditReplaysRecord
  BY DEF AuditInv, LogReplays, Visibility, ReplaysIn, AuditReplaysRecord, Replays
<1> QED
  BY <1>1, AuditCorrect, PTL

\* Each version after the first is named by exactly one entry, and the version
\* an approval, submission or rejection names shows the record as it left it.
THEOREM NamesTheorem ==
    ASSUME "admin_edit" \notin Ops
    PROVE  Spec => []AuditNamesVersions
<1>1. ASSUME AuditInv
      PROVE  AuditNamesVersions
  <2>1. ASSUME NEW r \in Records, NEW k \in 2..Len(versions[r])
        PROVE  Cardinality({i \in DOMAIN chain :
                  chain[i].record = r /\ chain[i].changes.version = k}) = 1
    <3>1. PICK i : NamedBy(r, k) = {i}
      BY <1>1 DEF AuditInv, VersionsNamedOnce
    <3> QED
      BY <3>1, FS_Singleton DEF NamedBy
  <2>2. StatusShown
    BY <1>1 DEF AuditInv
  <2> QED
    BY <2>1, <2>2 DEF AuditNamesVersions, StatusShown
<1> QED
  BY <1>1, AuditCorrect, PTL

=============================================================================
