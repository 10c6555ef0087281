-------------------------- MODULE RecordGovernance --------------------------
(***************************************************************************)
(* The governed life of emission records: the approval workflow, soft      *)
(* delete and restore, manual recalculation, edits through Django Admin,   *)
(* the version history and the audit chain they write, and the deletion of *)
(* user accounts underneath them.                                          *)
(*                                                                         *)
(* Every HTTP request is a process.  The database is PostgreSQL at READ    *)
(* COMMITTED: a request's writes are kept in txn[p] and reach the shared   *)
(* tables when Commit(p) runs.  What a request holds until then --         *)
(* the record row (SELECT ... FOR UPDATE), the AuditChainState row, the    *)
(* uncommitted keys of its inserts -- is read off pc and txn.  A request   *)
(* that has to wait is one whose next action is not enabled.               *)
(***************************************************************************)
EXTENDS AuditChain, FiniteSets

CONSTANTS
    Requests,   \* the HTTP requests that may arrive; each runs once
    Records,    \* the emission records of the organisation
    Users,      \* the user accounts
    Values,     \* normalized_value, as far as it can be told apart
    MaxFactor,  \* factor datasets are activated at most this many times
    Ops,        \* the operations issued; a subset of AllOps
    Ingested,   \* the statuses ingestion gave the records
    NoUser      \* NULL in a foreign key to a user

VARIABLES
    rec,           \* ingestion_emissionrecord: the row of each record
    versions,      \* ingestion_emissionrecordversion, in the order committed
    calcs,         \* carbon_emissioncalculation, in the order committed
    chain,         \* audit_audittrail, in the order committed
    tip,           \* audit_auditchainstate
    users,         \* the accounts that still exist
    activeFactor,  \* the factor dataset calculations resolve against
    pc,            \* how far each request has come
    txn            \* what each request has read and not yet committed

dbVars  == <<rec, versions, calcs, chain, tip, users, activeFactor>>
reqVars == <<pc, txn>>
vars    == <<rec, versions, calcs, chain, tip, users, activeFactor, pc, txn>>

-----------------------------------------------------------------------------
\* EmissionRecord.RecordStatus
Status == {"DRAFT", "FAILED", "SUSPICIOUS", "VALIDATED",
           "SUBMITTED", "APPROVED", "REJECTED"}

TransitionOps == {"submit", "approve", "reject"}
LifecycleOps  == {"delete", "restore"}
LockingOps    == TransitionOps \cup LifecycleOps
RequestOps    == LockingOps \cup {"recalculate", "admin_edit"}
AllOps        == RequestOps \cup {"delete_user", "activate_factor"}

ASSUME OpsAssumption    == Ops \subseteq AllOps
ASSUME IngestedAssumption == Ingested \subseteq {"DRAFT", "SUSPICIOUS", "FAILED"}
ASSUME NoUserAssumption == NoUser \notin Users
ASSUME FactorAssumption == MaxFactor \in Nat \ {0}

Row == [status : Status, deleted : BOOLEAN, value : Values,
        approver : Users \cup {NoUser}]

\* What one request keeps between its statements.
\*   old, row   the record as read, and as it will be saved
\*   number     the version_number it computed
\*   base       the current calculation it saw (0: none)
\*   factor     the dataset its new calculation used
\*   seen       the chain state it locked
NoTxn == [op |-> "none"]

NewTxn(op, r, u, old, row) ==
    [op |-> op, rec |-> r, actor |-> u, old |-> old, row |-> row,
     number |-> 0, base |-> 0, factor |-> 0, seen |-> EmptyTip]

-----------------------------------------------------------------------------
(***************************************************************************)
(* Locks and uncommitted keys                                              *)
(***************************************************************************)

\* Requests inside transaction.atomic() with a version row inserted.
HasInserted(p) == pc[p] \in {"append", "commit"}

\* p holds record r: select_for_update() until the transaction ends.
HoldsRecord(p, r) ==
    /\ pc[p] \in {"insert", "append", "commit"}
    /\ txn[p].op # "recalculate"
    /\ txn[p].rec = r

\* (mutant) append_entry() without select_for_update().
HoldsChainUnlocked(p) == FALSE

\* p holds the AuditChainState row, between append_entry() and its commit.
HoldsChain(p) == pc[p] = "commit" /\ txn[p].op # "admin_edit"

\* (mutant) The record fetched without select_for_update().
RecordFreeUnlocked(r) == TRUE

\* Nobody holds record r: select_for_update() returns at once.
RecordFree(r) == \A q \in Requests : ~HoldsRecord(q, r)

\* (mutant) append_entry() reads the chain state without waiting for it.
ChainFreeUnlocked == TRUE

\* Nobody holds the chain state: append_entry() gets it at once.
ChainFree == \A q \in Requests : ~HoldsChain(q)

\* p has an uncommitted current calculation for record r.
PendingCalculation(p, r) ==
    /\ pc[p] \in {"insert", "append", "commit"}
    /\ txn[p].op = "recalculate"
    /\ txn[p].rec = r

\* q's uncommitted version row has the key p is about to insert: p waits for
\* q to end before the unique index can answer.
VersionKeyTakenBy(p, q) ==
    /\ q # p
    /\ HasInserted(q)
    /\ txn[q].rec = txn[p].rec
    /\ txn[q].number = txn[p].number

-----------------------------------------------------------------------------
(***************************************************************************)
(* Queries                                                                 *)
(***************************************************************************)

\* EmissionRecord.WORKFLOW_TRANSITIONS; FAILED and APPROVED have no entry.
WorkflowTransitions ==
    [s \in Status |->
        CASE s \in {"DRAFT", "SUSPICIOUS", "VALIDATED", "REJECTED"} -> {"SUBMITTED"}
          [] s = "SUBMITTED" -> {"APPROVED", "REJECTED"}
          [] OTHER -> {}]

TargetStatus(op) ==
    CASE op = "submit"  -> "SUBMITTED"
      [] op = "approve" -> "APPROVED"
      [] op = "reject"  -> "REJECTED"

\* _current_calculation: its position in calcs[r], 0 when there is none.
CurrentCalculation(r) ==
    IF \E i \in DOMAIN calcs[r] : calcs[r][i].current
    THEN CHOOSE i \in DOMAIN calcs[r] : calcs[r][i].current
    ELSE 0

\* _next_version_number counts the committed rows of the record.
NextVersionNumber(r) == Len(versions[r]) + 1

\* (mutant) clean() without the check that freezes an approved record.
CleanAcceptsUnfrozen(original, row) ==
    original.status # row.status => row.status \in WorkflowTransitions[original.status]

\* EmissionRecord.clean(), for a row that replaces the committed row `original`.
CleanAccepts(original, row) ==
    /\ original.status = "APPROVED" => [row EXCEPT !.deleted = original.deleted] = original
    /\ original.status # row.status => row.status \in WorkflowTransitions[original.status]

-----------------------------------------------------------------------------
(***************************************************************************)
(* The end of a request                                                    *)
(***************************************************************************)

\* The response is sent and nothing was written, or what was is rolled back:
\* a 4xx answer, an exception out of transaction.atomic(), a lost connection.
AnswerUnchanged(p) ==
    /\ pc' = [pc EXCEPT ![p] = "answered"]
    /\ txn' = [txn EXCEPT ![p] = NoTxn]
    /\ UNCHANGED dbVars

Proceed(p, next, t) ==
    /\ pc' = [pc EXCEPT ![p] = next]
    /\ txn' = [txn EXCEPT ![p] = t]
    /\ UNCHANGED dbVars

\* EmissionRecord.save() of `row` by a request that holds r's row lock: the
\* old row is re-read under the lock, clean() judges the change against it,
\* and a change of a business field calls for a version.
SaveRecord(p, op, r, u, row) ==
    /\ CleanAccepts(rec[r], row)
    /\ row # rec[r]
    /\ Proceed(p, "insert",
               [NewTxn(op, r, u, rec[r], row) EXCEPT
                    !.number = NextVersionNumber(r),
                    !.base   = CurrentCalculation(r)])

-----------------------------------------------------------------------------
(***************************************************************************)
(* Workflow transitions and soft deletion: lock, check, save               *)
(***************************************************************************)

\* transition_record: the row it will save.
Transitioned(row, op, u) ==
    [row EXCEPT !.status   = TargetStatus(op),
                !.approver = IF op = "approve" THEN u ELSE @]

\* (mutant) The record fetched through all_objects.
BeginTransitionOnHidden(p, op, r, u) ==
    /\ op \in TransitionOps /\ pc[p] = "idle"
    /\ RecordFree(r)
    /\ TargetStatus(op) \in WorkflowTransitions[rec[r].status]
    /\ SaveRecord(p, op, r, u, Transitioned(rec[r], op, u))

\* submit / approve / reject: the row is fetched FOR UPDATE through the
\* default manager, which hides soft-deleted records.
BeginTransition(p, op, r, u) ==
    /\ op \in TransitionOps /\ pc[p] = "idle"
    /\ RecordFree(r)
    /\ ~rec[r].deleted
    /\ TargetStatus(op) \in WorkflowTransitions[rec[r].status]
    /\ SaveRecord(p, op, r, u, Transitioned(rec[r], op, u))

\* 404 for a hidden record, 400 for a transition that is not an edge.
RefuseTransition(p, op, r) ==
    /\ op \in TransitionOps /\ pc[p] = "idle"
    /\ RecordFree(r)
    /\ rec[r].deleted \/ TargetStatus(op) \notin WorkflowTransitions[rec[r].status]
    /\ AnswerUnchanged(p)

\* destroy / restore: fetched through all_objects, at any status.
BeginLifecycle(p, op, r, u) ==
    /\ op \in LifecycleOps /\ pc[p] = "idle"
    /\ RecordFree(r)
    /\ rec[r].deleted = (op = "restore")
    /\ SaveRecord(p, op, r, u, [rec[r] EXCEPT !.deleted = (op = "delete")])

\* AlreadyDeletedError, NotDeletedError.
RefuseLifecycle(p, op, r) ==
    /\ op \in LifecycleOps /\ pc[p] = "idle"
    /\ RecordFree(r)
    /\ rec[r].deleted # (op = "restore")
    /\ AnswerUnchanged(p)

-----------------------------------------------------------------------------
(***************************************************************************)
(* Manual recalculation                                                    *)
(***************************************************************************)

\* recalculate: the record is read without a lock, the approval freeze is
\* checked on that reading, and the new calculation is computed from it.
ReadForRecalculation(p, r, u) ==
    /\ pc[p] = "idle"
    /\ ~rec[r].deleted /\ rec[r].status # "APPROVED"
    /\ Proceed(p, "computed",
               [NewTxn("recalculate", r, u, rec[r], rec[r]) EXCEPT !.factor = activeFactor])

RefuseRecalculation(p, r) ==
    /\ pc[p] = "idle"
    /\ rec[r].deleted \/ rec[r].status = "APPROVED"
    /\ AnswerUnchanged(p)

\* transaction.atomic() begins: the UPDATE that demotes the current
\* calculation finds it among the committed rows.
SupersedeCurrent(p) ==
    /\ pc[p] = "computed"
    /\ Proceed(p, "superseding", [txn[p] EXCEPT !.base = CurrentCalculation(txn[p].rec)])

\* (mutant) No unique_current_calc_per_record.
InsertCalculationUnchecked(p) ==
    /\ pc[p] = "superseding"
    /\ Proceed(p, "insert", [txn[p] EXCEPT !.number = NextVersionNumber(txn[p].rec)])

\* calc.save() and the version number.  Another uncommitted calculation of
\* the record is waited for.  If it was committed, the row the UPDATE found is
\* no longer current, the UPDATE changed nothing, and
\* unique_current_calc_per_record refuses the insert.
InsertCalculation(p) ==
    /\ pc[p] = "superseding"
    /\ \A q \in Requests : ~PendingCalculation(q, txn[p].rec)
    /\ CurrentCalculation(txn[p].rec) = txn[p].base
    /\ Proceed(p, "insert", [txn[p] EXCEPT !.number = NextVersionNumber(txn[p].rec)])

LoseCalculation(p) ==
    /\ pc[p] = "superseding"
    /\ \A q \in Requests : ~PendingCalculation(q, txn[p].rec)
    /\ CurrentCalculation(txn[p].rec) # txn[p].base
    /\ AnswerUnchanged(p)

-----------------------------------------------------------------------------
(***************************************************************************)
(* An edit through Django Admin                                            *)
(***************************************************************************)

\* The change form is rendered from an unlocked read; every field of the
\* model but its id and timestamps is in it.  The user changes some; the
\* approver stays as shown.
OpenAdminForm(p, r, u) ==
    /\ pc[p] = "idle"
    /\ \E s \in Status, v \in Values, d \in BOOLEAN :
          Proceed(p, "form",
                  NewTxn("admin_edit", r, u, rec[r],
                         [rec[r] EXCEPT !.status = s, !.value = v, !.deleted = d]))

\* The posted form is saved whole: what it holds replaces whatever the row
\* became since, when clean() lets it.
PostAdminForm(p) ==
    LET t == txn[p] IN
    /\ pc[p] = "form"
    /\ RecordFree(t.rec)
    /\ t.row.approver \in users \cup {NoUser}
    /\ SaveRecord(p, "admin_edit", t.rec, t.actor, t.row)

\* The form is refused, or changes no business field.
PostAdminFormUnchanged(p) ==
    LET t == txn[p] IN
    /\ pc[p] = "form"
    /\ RecordFree(t.rec)
    /\ \/ t.row.approver \notin users \cup {NoUser}
       \/ ~CleanAccepts(rec[t.rec], t.row)
       \/ t.row = rec[t.rec]
    /\ AnswerUnchanged(p)

-----------------------------------------------------------------------------
(***************************************************************************)
(* Version, audit entry, commit: common to every writing request           *)
(***************************************************************************)

\* (mutant) No unique_record_version.
InsertVersionUnchecked(p) ==
    /\ pc[p] = "insert"
    /\ Proceed(p, IF txn[p].op = "admin_edit" THEN "commit" ELSE "append", txn[p])

\* _build_version: INSERT with the number computed before.  A number that has
\* been committed meanwhile is refused by unique_record_version.
InsertVersion(p) ==
    /\ pc[p] = "insert"
    /\ \A q \in Requests : ~VersionKeyTakenBy(p, q)
    /\ txn[p].number > Len(versions[txn[p].rec])
    /\ Proceed(p, IF txn[p].op = "admin_edit" THEN "commit" ELSE "append", txn[p])

\* (mutant) The refused number is tried again and again.
RetryVersionNumber(p) ==
    /\ pc[p] = "insert"
    /\ txn[p].number <= Len(versions[txn[p].rec])
    /\ UNCHANGED vars

\* The number was committed by another request: the whole request is undone.
LoseVersionNumber(p) ==
    /\ pc[p] = "insert"
    /\ \A q \in Requests : ~VersionKeyTakenBy(p, q)
    /\ txn[p].number <= Len(versions[txn[p].rec])
    /\ AnswerUnchanged(p)

\* append_entry: the chain state is locked and read; the entry built on it is
\* written by the same transaction.
AppendEntry(p) ==
    /\ pc[p] = "append"
    /\ ChainFree
    /\ Proceed(p, "commit", [txn[p] EXCEPT !.seen = tip])

AuditAction(op) ==
    CASE op = "submit"      -> "RECORD_SUBMISSION"
      [] op = "approve"     -> "RECORD_APPROVAL"
      [] op = "reject"      -> "RECORD_REJECTION"
      [] op = "delete"      -> "RECORD_SOFT_DELETE"
      [] op = "restore"     -> "RECORD_RESTORE"
      [] op = "recalculate" -> "RECORD_RECALCULATION"

\* A field an entry says nothing about.
NoChange == "-"

\* (mutant) No version is named.
ChangesWithoutVersion(t) == [old |-> t.old.status, new |-> t.row.status]

\* (mutant) The version read before the save is named.
ChangesNamingTheVersionBefore(t) ==
    [old |-> t.old.status, new |-> t.row.status, version |-> t.number - 1]

\* The `changes` of the entry: old and new status or is_deleted, and the
\* number of the version written with it.
Changes(t) ==
    [old     |-> CASE t.op \in TransitionOps -> t.old.status
                   [] t.op = "delete"        -> "active"
                   [] t.op = "restore"       -> "deleted"
                   [] OTHER                  -> NoChange,
     new     |-> CASE t.op \in TransitionOps -> t.row.status
                   [] t.op = "delete"        -> "deleted"
                   [] t.op = "restore"       -> "active"
                   [] OTHER                  -> NoChange,
     version |-> t.number]

\* The entry of the audited request t.
EntryOf(t) == NewEntry(t.seen, t.rec, AuditAction(t.op), t.actor, Changes(t))

\* (mutant) The snapshot of the row before the save.
VersionOfOldRow(t) == [number |-> t.number, row |-> t.old, calc |-> t.base]

\* The version t writes: the row as saved, and the calculation it saw current.
VersionOf(t) ==
    [number |-> t.number,
     row    |-> t.row,
     calc   |-> IF t.op = "recalculate" THEN Len(calcs[t.rec]) + 1 ELSE t.base]

\* calcs[r] after the recalculation t: what it found current is demoted.
Recalculated(t) ==
    Append([i \in DOMAIN calcs[t.rec] |->
                IF i = t.base THEN [calcs[t.rec][i] EXCEPT !.current = FALSE]
                              ELSE calcs[t.rec][i]],
           [factor |-> t.factor, value |-> t.row.value, current |-> TRUE])

\* The foreign keys are deferred: at COMMIT the rows that p inserted take a
\* key-share lock on the record, which waits for another request's FOR UPDATE,
\* and the acting user, named by the entry or by Admin's own log, must exist.
CanCheckForeignKeys(p) ==
    \A q \in Requests \ {p} : ~HoldsRecord(q, txn[p].rec)

Commit(p) ==
    LET t == txn[p] IN
    /\ pc[p] = "commit"
    /\ CanCheckForeignKeys(p)
    /\ t.actor \in users
    /\ rec' = IF t.op = "recalculate" THEN rec ELSE [rec EXCEPT ![t.rec] = t.row]
    /\ versions' = [versions EXCEPT ![t.rec] = Append(@, VersionOf(t))]
    /\ calcs' = IF t.op = "recalculate" THEN [calcs EXCEPT ![t.rec] = Recalculated(t)]
                                       ELSE calcs
    /\ IF t.op = "admin_edit"
          THEN UNCHANGED <<chain, tip>>
          ELSE chain' = Append(chain, EntryOf(t)) /\ tip' = TipAfter(EntryOf(t))
    /\ pc' = [pc EXCEPT ![p] = "answered"]
    /\ txn' = [txn EXCEPT ![p] = NoTxn]
    /\ UNCHANGED <<users, activeFactor>>

LoseActor(p) ==
    /\ pc[p] = "commit"
    /\ CanCheckForeignKeys(p)
    /\ txn[p].actor \notin users
    /\ AnswerUnchanged(p)

-----------------------------------------------------------------------------
(***************************************************************************)
(* Failures                                                                *)
(***************************************************************************)

\* A request that waits, and the requests it waits for.
WaitsFor(p, q) ==
    /\ p # q
    /\ \/ pc[p] = "superseding" /\ PendingCalculation(q, txn[p].rec)
       \/ pc[p] = "insert" /\ VersionKeyTakenBy(p, q)
       \/ pc[p] = "append" /\ HoldsChain(q)
       \/ pc[p] = "commit" /\ HoldsRecord(q, txn[p].rec)

\* Every request waits for one other at a time, so a set in which each waits
\* for a member and is waited for by a member consists of cycles.
Deadlocked(p) ==
    \E D \in SUBSET Requests :
        /\ p \in D
        /\ \A a \in D : (\E b \in D : WaitsFor(a, b)) /\ (\E b \in D : WaitsFor(b, a))

\* PostgreSQL's deadlock detector picks a victim.
AbortDeadlocked(p) == Deadlocked(p) /\ AnswerUnchanged(p)

InTransaction(p) == pc[p] \in {"superseding", "insert", "append", "commit"}

\* (mutant) The entry is written outside the transaction of the change.
CrashOutsideAtomic(p) ==
    /\ pc[p] = "commit"
    /\ chain' = Append(chain, EntryOf(txn[p])) /\ tip' = TipAfter(EntryOf(txn[p]))
    /\ pc' = [pc EXCEPT ![p] = "answered"]
    /\ txn' = [txn EXCEPT ![p] = NoTxn]
    /\ UNCHANGED <<rec, versions, calcs, users, activeFactor>>

\* The worker or its connection dies inside transaction.atomic().
Crash(p) == InTransaction(p) /\ AnswerUnchanged(p)

-----------------------------------------------------------------------------
(***************************************************************************)
(* What happens around the requests                                        *)
(***************************************************************************)

\* The row once account u is gone.
WithoutUser(row, u) == IF row.approver = u THEN [row EXCEPT !.approver = NoUser] ELSE row

\* (mutant) The UPDATE reaches the entries of every user.
DeleteUserUnfiltered(u) ==
    /\ u \in users
    /\ users' = users \ {u}
    /\ chain' = [i \in DOMAIN chain |-> [chain[i] EXCEPT !.changedBy = NoUser]]
    /\ UNCHANGED <<rec, versions, calcs, tip, activeFactor, pc, txn>>

\* user.delete(): the SET_NULL cascade reaches the records, their versions and
\* the audit entries of the user (SetNullCascadeSafeQuerySet lets exactly that
\* UPDATE pass), and no version or entry is written for it.
DeleteUser(u) ==
    /\ u \in users
    /\ \A r \in Records : rec[r].approver = u => RecordFree(r)
    /\ users' = users \ {u}
    /\ rec' = [r \in Records |-> WithoutUser(rec[r], u)]
    /\ versions' = [r \in Records |->
          [i \in DOMAIN versions[r] |-> [versions[r][i] EXCEPT !.row = WithoutUser(@, u)]]]
    /\ chain' = [i \in DOMAIN chain |->
          IF chain[i].changedBy = u THEN [chain[i] EXCEPT !.changedBy = NoUser] ELSE chain[i]]
    /\ UNCHANGED <<calcs, tip, activeFactor, pc, txn>>

\* import_emission_factors --activate: later calculations use the new dataset.
ActivateFactor ==
    /\ activeFactor < MaxFactor
    /\ activeFactor' = activeFactor + 1
    /\ UNCHANGED <<rec, versions, calcs, chain, tip, users, pc, txn>>

-----------------------------------------------------------------------------
\* A batch has been ingested: bulk_create gave every record its first version,
\* and calculate_task has calculated it or has not run yet.
Init ==
    /\ rec \in [Records -> {row \in Row : /\ row.status \in Ingested
                                         /\ ~row.deleted
                                         /\ row.approver = NoUser}]
    /\ versions = [r \in Records |-> << [number |-> 1, row |-> rec[r], calc |-> 0] >>]
    /\ \E calculated \in SUBSET Records :
         calcs = [r \in Records |->
                    IF r \in calculated
                    THEN << [factor |-> 1, value |-> rec[r].value, current |-> TRUE] >>
                    ELSE << >>]
    /\ chain = << >>
    /\ tip = EmptyTip
    /\ users = Users
    /\ activeFactor = 1
    /\ pc = [p \in Requests |-> "idle"]
    /\ txn = [p \in Requests |-> NoTxn]

\* A client's request arrives.
Arrive(p) ==
    \E r \in Records, u \in users :
        \/ \E op \in Ops : \/ BeginTransition(p, op, r, u)
                          \/ RefuseTransition(p, op, r)
                          \/ BeginLifecycle(p, op, r, u)
                          \/ RefuseLifecycle(p, op, r)
        \/ "recalculate" \in Ops /\ (ReadForRecalculation(p, r, u) \/ RefuseRecalculation(p, r))
        \/ "admin_edit" \in Ops /\ OpenAdminForm(p, r, u)

\* The server goes on with a request it has started.
Serve(p) ==
    \/ SupersedeCurrent(p) \/ InsertCalculation(p) \/ LoseCalculation(p)
    \/ InsertVersion(p) \/ LoseVersionNumber(p)
    \/ AppendEntry(p)
    \/ Commit(p) \/ LoseActor(p)
    \/ AbortDeadlocked(p)

Post(p) == PostAdminForm(p) \/ PostAdminFormUnchanged(p)

Next ==
    \/ \E p \in Requests : Arrive(p) \/ Serve(p) \/ Post(p) \/ Crash(p)
    \/ "delete_user" \in Ops /\ \E u \in Users : DeleteUser(u)
    \/ "activate_factor" \in Ops /\ ActivateFactor

\* A started request is served to its end; nobody has to send one, to post an
\* open form, to crash, or to delete an account.
Spec == Init /\ [][Next]_vars /\ \A p \in Requests : WF_vars(Serve(p))

-----------------------------------------------------------------------------
(***************************************************************************)
(* Types                                                                   *)
(***************************************************************************)

AuditedOps == LockingOps \cup {"recalculate"}
Actions    == {AuditAction(op) : op \in AuditedOps}
ChangeSet  == [old : Status \cup {"active", "deleted", NoChange},
               new : Status \cup {"active", "deleted", NoChange},
               version : Nat]

Hash == Seq([sequence : Nat, record : Records, action : Actions,
             changedBy : Users \cup {NoUser}, changes : ChangeSet])

Entry == [sequence : Nat, record : Records, action : Actions,
          changedBy : Users \cup {NoUser}, changes : ChangeSet,
          prevHash : Hash, entryHash : Hash]

VersionRow  == [number : Nat, row : Row, calc : Nat]
Calculation == [factor : Nat, value : Values, current : BOOLEAN]

Tip == [lastSequence : Nat, lastHash : Hash]

Txn == [op : RequestOps, rec : Records, actor : Users, old : Row, row : Row,
        number : Nat, base : Nat, factor : Nat, seen : Tip]

Phases == {"idle", "form", "computed", "superseding", "insert", "append", "commit", "answered"}

\* Every table and every request keeps its shape; a request has a transaction
\* exactly while it is being served.
TypeOK ==
    /\ rec \in [Records -> Row]
    /\ versions \in [Records -> Seq(VersionRow)]
    /\ calcs \in [Records -> Seq(Calculation)]
    /\ chain \in Seq(Entry)
    /\ tip \in Tip
    /\ users \subseteq Users
    /\ activeFactor \in 1..MaxFactor
    /\ pc \in [Requests -> Phases]
    /\ DOMAIN txn = Requests
    /\ \A p \in Requests : IF pc[p] \in {"idle", "answered"} THEN txn[p] = NoTxn
                                                            ELSE txn[p] \in Txn

-----------------------------------------------------------------------------
(***************************************************************************)
(* Safety                                                                  *)
(***************************************************************************)

\* Whatever interleaving of requests wrote it, the chain numbers its entries
\* 1, 2, 3, ... without gap or repeat, each links to the one before, and the
\* chain state names the last (append_entry under AuditChainState's lock).
ChainLinked ==
    /\ \A i \in DOMAIN chain : chain[i].sequence = i /\ ~LinkBroken(chain, i)
    /\ tip = IF chain = << >> THEN EmptyTip ELSE TipAfter(chain[Len(chain)])

\* What a request read under a lock still holds when it commits: nobody moves
\* the chain state under append_entry(), nor the record between the check of a
\* transition and its save (SELECT ... FOR UPDATE in the views and in save()).
HeldReadingsCurrent ==
    \A p \in Requests :
        /\ HoldsChain(p) => txn[p].seen = tip
        /\ \A r \in Records : HoldsRecord(p, r) =>
              txn[p].old = rec[r] /\ CleanAccepts(rec[r], txn[p].row)

\* verify_chain reports an intact chain.
ChainVerifies == ChainValid(chain)

\* The actor a stored hash commits to.
HashedActor(entry) == entry.entryHash[Len(entry.entryHash)].changedBy

\* When verify_chain recomputes another hash than the stored one, the entry
\* was written by an account that has been deleted since: no other step of
\* the system, however interleaved, makes a chain look tampered with.
AlteredOnlyByUserDeletion ==
    \A i \in DOMAIN chain :
        ContentAltered(chain, i) => /\ chain[i].changedBy = NoUser
                                    /\ HashedActor(chain[i]) \in Users \ users

\* A record's versions are numbered 1, 2, 3, ... in the order they commit,
\* although the number is a count taken without a lock.
VersionsContiguous ==
    \A r \in Records : \A i \in DOMAIN versions[r] : versions[r][i].number = i

\* Racing recalculations leave exactly one current calculation, the newest.
OneCurrentCalculation ==
    \A r \in Records : \A i \in DOMAIN calcs[r] :
        calcs[r][i].current <=> i = Len(calcs[r])

\* The newest version of a record is the record: what the history endpoints
\* reconstruct is what the table holds.
LatestVersionIsRecord ==
    \A r \in Records : versions[r][Len(versions[r])].row = rec[r]

\* The entries about record r that change its status (or its visibility).
StatusEntries(r) == {i \in DOMAIN chain : chain[i].record = r /\ chain[i].changes.new \in Status}
VisibilityEntries(r) ==
    {i \in DOMAIN chain : chain[i].record = r /\ chain[i].changes.new \in {"active", "deleted"}}

\* The changes of the entries E, read in order, lead from `first` to `last`.
Replays(E, first, last) ==
    /\ \A i \in E :
          LET before == {j \in E : j < i}
              after  == {j \in E : j > i}
          IN  /\ before = {} => chain[i].changes.old = first
              /\ after = {} => chain[i].changes.new = last
              /\ \A j \in after : (\A k \in after : j <= k) =>
                    chain[j].changes.old = chain[i].changes.new
    /\ E = {} => first = last

\* The audit log of a record, replayed from the status it was ingested with,
\* gives its status and its visibility: no change is missing from the log, no
\* entry describes a change that did not happen, and none is entered twice.
AuditReplaysRecord ==
    \A r \in Records :
        /\ Replays(StatusEntries(r), versions[r][1].row.status, rec[r].status)
        /\ Replays(VisibilityEntries(r), "active",
                   IF rec[r].deleted THEN "deleted" ELSE "active")

\* Audit log and version history tell one story: each version but the first
\* is named by exactly one entry, and an entry about a status change names a
\* version that shows the record visible at the new status.
AuditNamesVersions ==
    \A r \in Records :
        /\ \A k \in 2..Len(versions[r]) :
              Cardinality({i \in DOMAIN chain :
                  chain[i].record = r /\ chain[i].changes.version = k}) = 1
        /\ \A i \in StatusEntries(r) :
              LET named == versions[r][chain[i].changes.version].row IN
              named.status = chain[i].changes.new /\ ~named.deleted

\* A status changes along an edge of the workflow only, and the business
\* fields of an approved record never change again -- the approver's account
\* may be deleted, and then reads NULL.
WorkflowRespected ==
    [][\A r \in Records :
        /\ rec[r].status # rec'[r].status =>
              rec'[r].status \in WorkflowTransitions[rec[r].status]
        /\ rec[r].status = "APPROVED" =>
              /\ rec'[r].value = rec[r].value
              /\ rec'[r].approver # rec[r].approver =>
                    rec'[r].approver = NoUser /\ rec[r].approver \notin users']_vars

\* An approved record keeps the calculation, and so the factor dataset, it was
\* approved with.
ApprovedCalculationFrozen ==
    [][\A r \in Records :
        rec[r].status = "APPROVED" => CurrentCalculation(r)' = CurrentCalculation(r)]_vars

\* The requests never wait for each other in a cycle: each locks its record
\* before the chain state.
NoDeadlock == \A p \in Requests : ~Deadlocked(p)

-----------------------------------------------------------------------------
(***************************************************************************)
(* Liveness                                                                *)
(***************************************************************************)

\* Every request the server has started is answered: no wait for a row, a key
\* or the chain state lasts for ever, deadlocks included.
EveryRequestAnswered ==
    \A p \in Requests :
        pc[p] \notin {"idle", "form", "answered"} ~> pc[p] = "answered"

-----------------------------------------------------------------------------
(***************************************************************************)
(* Refinement                                                              *)
(***************************************************************************)

\* The seals of the chain form an append-only ledger (deleting an account
\* rewrites a row, but no seal).
Seals == [i \in DOMAIN chain |->
            [sequence  |-> chain[i].sequence,
             prevHash  |-> chain[i].prevHash,
             entryHash |-> chain[i].entryHash]]
Ledger == INSTANCE AuditLedger WITH ledger <- Seals, Genesis <- GENESIS_HASH
ChainIsALedger == Ledger!LSpec

\* Through the API alone, each record goes through its lifecycle one atomic
\* step at a time.
Lifecycle == INSTANCE RecordLifecycle WITH
    status <- [r \in Records |-> rec[r].status],
    hidden <- [r \in Records |-> rec[r].deleted]
RecordsFollowLifecycle == Lifecycle!RSpec

=============================================================================
