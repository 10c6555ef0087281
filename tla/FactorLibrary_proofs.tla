------------------------- MODULE FactorLibrary_proofs -------------------------
(***************************************************************************)
(* The three invariants of the factor library, for any number of importers *)
(* and any files, regions and policies.                                    *)
(*                                                                         *)
(* ActiveBounded: each active dataset is matched with the process that     *)
(* activated it.  A process that imports for the same publisher and region *)
(* again finds all the active ones, its own last one among them, and so    *)
(* replaces it.                                                            *)
(*                                                                         *)
(* ActivatedStaysResolved: only a commit that activates a dataset          *)
(* supersedes others, those of its publisher and region, so that one of    *)
(* them is always active; and a finite set of candidates has a first.      *)
(*                                                                         *)
(* RunsAgree: two candidates of one index differ in their sort keys.       *)
(***************************************************************************)
EXTENDS FactorLibrary, FunctionTheorems, FiniteSetTheorems, TLAPS

-----------------------------------------------------------------------------
(***************************************************************************)
(* The rows                                                                *)
(***************************************************************************)

Rows == [publisher : {c.publisher : c \in Commands}, version : {c.version : c \in Commands},
         region : {c.region : c \in Commands}, file : {c.file : c \in Commands},
         status : Statuses, priority : Priorities, time : Nat \ {0}]

\* A command has imported that file for this publisher and region.
Imported(d) == \E c \in Commands : Key(c) = Key(d) /\ c.file = d.file

Sound(datasets) ==
    /\ datasets \subseteq Rows
    /\ IsFiniteSet(datasets)
    /\ \A d \in datasets : Imported(d)
    /\ \A d, e \in datasets : d.time = e.time => d = e

DatasetInv ==
    /\ clock \in Nat
    /\ Sound(dataset)
    /\ \A d \in dataset : d.time <= clock

-----------------------------------------------------------------------------
(***************************************************************************)
(* The importers                                                           *)
(***************************************************************************)

Stages == {"inserted", "scanned", "superseded"}

Importing == [at : {"idle"}] \cup [at : {"checked"}, cmd : Commands]
             \cup [at : Stages, cmd : Commands, found : SUBSET Rows, new : Rows]

Opened(i) == importer[i].at \in Stages

\* The row that an open transaction is to add.
NewRow(i) ==
    LET new == importer[i].new
    IN  /\ Imported(new) /\ Key(new) = Key(importer[i].cmd)
        /\ new.status = "DRAFT"
        /\ new.time <= clock
        /\ \A d \in dataset : d.time # new.time
        /\ \A j \in Others(i) : importer[j].new.time # new.time

\* The rows that it replaces: what it has locked is as it found it.
FoundRows(i) ==
    /\ importer[i].at = "inserted" => importer[i].found = {}
    /\ importer[i].at # "inserted" => importer[i].cmd.activate
    /\ \A d \in importer[i].found : Key(d) = Key(importer[i].cmd)
    /\ importer[i].at = "superseded" =>
         /\ importer[i].found \subseteq Active
         /\ \A j \in Others(i) : importer[j].at = "superseded"
                                   => importer[i].found \cap importer[j].found = {}

ImporterInv ==
    /\ importer \in [Importers -> Importing]
    /\ \A i \in Importers : Opened(i) => NewRow(i) /\ FoundRows(i)

-----------------------------------------------------------------------------
(***************************************************************************)
(* The active datasets, as long as Admin saves nothing                     *)
(***************************************************************************)

\* Process i is about to supersede the active datasets of that key that it found.
Supersedes(i, key) == importer[i].at \in {"scanned", "superseded"} /\ Key(importer[i].cmd) = key

\* The process that activated each dataset: one has activated no other of the
\* same key, and finds it when it imports again.
Activators(m) ==
    /\ \A d, e \in Active : Key(d) = Key(e) /\ m[d] = m[e] => d = e
    /\ \A d \in Active : Supersedes(m[d], Key(d)) => d \in importer[m[d]].found

ActivatorsInv == edits = 0 => \E m \in [Active -> Importers] : Activators(m)

\* What was ever activated has an active successor.
Succeeded(datasets) ==
    \A d \in datasets : d.status # "DRAFT" =>
        \E e \in datasets : e.status = "ACTIVE" /\ Key(e) = Key(d)

SucceededInv == edits = 0 => Succeeded(dataset)

-----------------------------------------------------------------------------
(***************************************************************************)
(* The run                                                                 *)
(***************************************************************************)

RunInv ==
    run.at = "running" =>
        /\ run \in [at : {"running"}, library : SUBSET Rows, policy : Policies, date : Dates,
                    results : Seq(Results(RunIndex, run.policy, run.date))]
        /\ Sound(run.library)
        /\ edits = 0 => Succeeded(run.library)

FactorInv ==
    edits \in Nat /\ DatasetInv /\ ImporterInv /\ ActivatorsInv /\ SucceededInv /\ RunInv

-----------------------------------------------------------------------------
(***************************************************************************)
(* Rows and importers, step by step                                        *)
(***************************************************************************)

\* Rows that are told apart by their times are finitely many.
LEMMA TimesFinite ==
    ASSUME NEW D, D \subseteq Rows, NEW n \in Nat, \A d \in D : d.time <= n,
           \A d, e \in D : d.time = e.time => d = e
    PROVE  IsFiniteSet(D)
<1> DEFINE f == [d \in D |-> d.time]
<1>1. \A d \in D : d.time \in 1..n
  BY DEF Rows
<1>2. f \in [D -> 1..n] /\ \A d, e \in D : f[d] = f[e] => d = e
  BY <1>1
<1> HIDE DEF f
<1>3. f \in Injection(D, 1..n)
  BY <1>2, Fun_IsInj
<1>4. IsFiniteSet(1..n)
  BY FS_Interval
<1> QED
  BY <1>3, <1>4, FS_Injection

\* Only importer i moves; what the others have found and are to add stays good.
LEMMA ImporterStep ==
    ASSUME ImporterInv, clock \in Nat, clock' \in Nat, clock <= clock',
           NEW i \in Importers, NEW q \in Importing, importer' = [importer EXCEPT ![i] = q],
           \A j \in Importers \ {i} : Opened(j) =>
               /\ \A d \in dataset' : d.time # importer[j].new.time
               /\ importer[j].at = "superseded" => importer[j].found \subseteq Active',
           q.at \in Stages => NewRow(i)' /\ FoundRows(i)'
    PROVE  ImporterInv'
<1>1. importer \in [Importers -> Importing] /\ importer' \in [Importers -> Importing]
  BY DEF ImporterInv
<1>2. importer'[i] = q /\ \A j \in Importers \ {i} : importer'[j] = importer[j]
  BY <1>1
<1> SUFFICES ASSUME NEW j \in Importers, Opened(j)'
             PROVE  NewRow(j)' /\ FoundRows(j)'
  BY <1>1 DEF ImporterInv
<1>3. CASE j = i
  BY <1>2, <1>3 DEF Opened
<1>4. CASE j # i
  <2>1. Opened(j) /\ NewRow(j) /\ FoundRows(j) /\ importer'[j] = importer[j]
    BY <1>2, <1>4 DEF ImporterInv, Opened
  <2>2. importer[j].new \in Rows /\ importer[j].new.time \in Nat
    BY <1>1, <2>1 DEF Opened, Stages, Importing, Rows
  <2>3. ASSUME NEW k \in Others(j)'
        PROVE  /\ importer'[k].new.time # importer[j].new.time
               /\ importer[j].at = "superseded" /\ importer'[k].at = "superseded"
                    => importer[j].found \cap importer'[k].found = {}
    <3>1. CASE k = i
      <4>1. q.at \in Stages
        BY <1>2, <2>3, <3>1 DEF Others, Stages
      <4>2. j \in Others(i)'
        BY <1>4, <2>1 DEF Others, Opened, Stages
      <4>3. NewRow(i)' /\ FoundRows(i)'
        BY <4>1
      <4> QED
        BY <1>2, <2>1, <3>1, <4>2, <4>3 DEF NewRow, FoundRows
    <3>2. CASE k # i
      <4>1. k \in Others(j) /\ importer'[k] = importer[k]
        BY <1>2, <2>3, <3>2 DEF Others
      <4> QED
        BY <2>1, <4>1 DEF NewRow, FoundRows
    <3> QED
      BY <3>1, <3>2
  <2>4. NewRow(j)'
    <3>1. /\ Imported(importer[j].new) /\ Key(importer[j].new) = Key(importer[j].cmd)
          /\ importer[j].new.status = "DRAFT" /\ importer[j].new.time <= clock
      BY <2>1 DEF NewRow
    <3>2. importer[j].new.time <= clock'
      BY <2>2, <3>1
    <3> QED
      BY <1>4, <2>1, <2>3, <3>1, <3>2 DEF NewRow
  <2>5. FoundRows(j)'
    BY <1>4, <2>1, <2>3 DEF FoundRows
  <2> QED
    BY <2>4, <2>5
<1> QED
  BY <1>3, <1>4

\* The same, of a step that leaves the table alone.
LEMMA QuietStep ==
    ASSUME DatasetInv, ImporterInv, UNCHANGED <<dataset, clock>>,
           NEW i \in Importers, NEW q \in Importing, importer' = [importer EXCEPT ![i] = q],
           q.at \in Stages => NewRow(i)' /\ FoundRows(i)'
    PROVE  DatasetInv' /\ ImporterInv'
<1>1. clock \in Nat /\ clock' \in Nat /\ clock <= clock'
  BY DEF DatasetInv
<1>2. Active' = Active
  BY DEF Active
<1>3. \A j \in Importers \ {i} : Opened(j) =>
          /\ \A d \in dataset' : d.time # importer[j].new.time
          /\ importer[j].at = "superseded" => importer[j].found \subseteq Active'
  BY <1>2 DEF ImporterInv, NewRow, FoundRows
<1>4. DatasetInv'
  BY DEF DatasetInv
<1> QED
  BY <1>1, <1>3, <1>4, ImporterStep

LEMMA IdleImporting == IdleImporter \in Importing /\ IdleImporter.at \notin Stages
BY DEF IdleImporter, Importing, Stages

LEMMA CheckRows ==
    ASSUME DatasetInv, ImporterInv, NEW i \in Importers, NEW c \in Commands, Check(i, c)
    PROVE  DatasetInv' /\ ImporterInv'
<1> DEFINE q == [at |-> "checked", cmd |-> c]
<1>1. q \in Importing /\ q.at \notin Stages
  BY DEF Importing, Stages
<1>2. UNCHANGED <<dataset, clock>> /\ (UNCHANGED importer \/ importer' = [importer EXCEPT ![i] = q])
  BY DEF Check
<1>3. CASE UNCHANGED importer
  BY <1>2, <1>3 DEF DatasetInv, ImporterInv, NewRow, FoundRows, Opened, Others, Active
<1>4. CASE importer' = [importer EXCEPT ![i] = q]
  <2> HIDE DEF q
  <2> QED
    BY <1>1, <1>2, <1>4, QuietStep
<1> QED
  BY <1>2, <1>3, <1>4

\* The row that a command is to add, at that time.
NewOf(c, time) == [publisher |-> c.publisher, version |-> c.version, region |-> c.region,
                   file |-> c.file, status |-> "DRAFT", priority |-> 100, time |-> time]

LEMMA NewOfCommand ==
    ASSUME NEW c \in Commands, NEW time \in Nat \ {0}
    PROVE  /\ NewOf(c, time) \in Rows /\ Imported(NewOf(c, time))
           /\ Key(NewOf(c, time)) = Key(c)
           /\ NewOf(c, time).status = "DRAFT" /\ NewOf(c, time).time = time
BY DEF NewOf, Rows, Imported, Key, Statuses, Priorities

LEMMA InsertRows ==
    ASSUME DatasetInv, ImporterInv, NEW i \in Importers, Insert(i)
    PROVE  DatasetInv' /\ ImporterInv'
<1> DEFINE c == importer[i].cmd
           q == [at |-> "inserted", cmd |-> c, found |-> {}, new |-> NewOf(c, clock + 1)]
<1>0. importer \in [Importers -> Importing] /\ importer[i].at = "checked" /\ clock \in Nat
  BY DEF ImporterInv, DatasetInv, Insert
<1>1. c \in Commands
  BY <1>0 DEF Importing, Stages
<1>2. CASE importer' = [importer EXCEPT ![i] = IdleImporter] /\ UNCHANGED <<dataset, clock>>
  BY <1>2, IdleImporting, QuietStep
<1>3. CASE importer' = [importer EXCEPT ![i] = q] /\ clock' = clock + 1 /\ UNCHANGED dataset
  <2>1. clock + 1 \in Nat \ {0}
    BY <1>0
  <2>2. /\ q.new \in Rows /\ Imported(q.new) /\ Key(q.new) = Key(c)
        /\ q.new.status = "DRAFT" /\ q.new.time = clock + 1
    BY <1>1, <2>1, NewOfCommand
  <2>3. q \in Importing
    BY <1>1, <2>2 DEF Importing, Stages
  <2>4. /\ importer'[i] = q /\ q.at = "inserted" /\ q.found = {} /\ q.cmd = c
        /\ \A j \in Importers \ {i} : importer'[j] = importer[j]
    BY <1>0, <1>3
  <2>5. \A d \in dataset' : d.time \in Nat /\ d.time <= clock
    BY <1>3 DEF DatasetInv, Sound, Rows
  <2>6. \A j \in Others(i)' : importer'[j].new.time \in Nat /\ importer'[j].new.time <= clock
    <3> SUFFICES ASSUME NEW j \in Others(i)'
                 PROVE  importer'[j].new.time \in Nat /\ importer'[j].new.time <= clock
      OBVIOUS
    <3>1. j \in Importers /\ Opened(j) /\ importer'[j] = importer[j]
      BY <2>4 DEF Others, Opened, Stages
    <3>2. importer[j].new \in Rows
      BY <1>0, <3>1 DEF Importing, Opened, Stages
    <3> QED
      BY <3>1, <3>2 DEF ImporterInv, NewRow, Rows
  <2> HIDE DEF q
  <2>7. NewRow(i)'
    <3>1. \A d \in dataset' : d.time # q.new.time
      BY <1>0, <2>2, <2>5
    <3>2. \A j \in Others(i)' : importer'[j].new.time # q.new.time
      BY <1>0, <2>2, <2>6
    <3>3. q.new.time <= clock'
      BY <1>0, <1>3, <2>2
    <3> QED
      BY <2>2, <2>4, <3>1, <3>2, <3>3 DEF NewRow
  <2>8. FoundRows(i)'
    BY <2>4 DEF FoundRows
  <2>9. \A j \in Importers \ {i} : Opened(j) =>
            /\ \A d \in dataset' : d.time # importer[j].new.time
            /\ importer[j].at = "superseded" => importer[j].found \subseteq Active'
    BY <1>3 DEF ImporterInv, NewRow, FoundRows, Active
  <2>10. clock' \in Nat /\ clock <= clock'
    BY <1>0, <1>3
  <2>11. DatasetInv'
    BY <1>0, <1>3, <2>5, <2>10 DEF DatasetInv, Sound
  <2> QED
    BY <1>0, <1>3, <2>3, <2>7, <2>8, <2>9, <2>10, <2>11, ImporterStep
<1>4. \/ importer' = [importer EXCEPT ![i] = IdleImporter] /\ UNCHANGED <<dataset, clock>>
      \/ importer' = [importer EXCEPT ![i] = q] /\ clock' = clock + 1 /\ UNCHANGED dataset
  BY DEF Insert, NewOf
<1> QED
  BY <1>2, <1>3, <1>4

\* An importer that is open goes on with what it has, but for its rows found.
LEMMA FindRows ==
    ASSUME DatasetInv, ImporterInv, NEW i \in Importers, Opened(i),
           NEW at \in {"scanned", "superseded"}, NEW found \in SUBSET Active,
           importer[i].cmd.activate, \A d \in found : Key(d) = Key(importer[i].cmd),
           at = "superseded" => \A j \in Others(i) : Locked(j) \cap found = {},
           importer' = [importer EXCEPT ![i].at = at, ![i].found = found],
           UNCHANGED <<dataset, clock>>
    PROVE  DatasetInv' /\ ImporterInv'
<1> DEFINE q == [importer[i] EXCEPT !.at = at, !.found = found]
<1>1. importer \in [Importers -> Importing]
  BY DEF ImporterInv
<1>2. importer[i] \in [at : Stages, cmd : Commands, found : SUBSET Rows, new : Rows]
  BY <1>1 DEF Opened, Importing, Stages
<1>3. found \subseteq Rows
  BY DEF DatasetInv, Sound, Active
<1>4. /\ q \in Importing /\ q.at = at /\ q.found = found
      /\ q.cmd = importer[i].cmd /\ q.new = importer[i].new
  BY <1>2, <1>3 DEF Importing, Stages
<1>5. importer' = [importer EXCEPT ![i] = q]
  OBVIOUS
<1> HIDE DEF q
<1>6. importer'[i] = q /\ \A j \in Importers \ {i} : importer'[j] = importer[j]
  BY <1>1, <1>5
<1>7. Others(i)' = Others(i) /\ Active' = Active
  BY <1>6 DEF Others, Active
<1>8. NewRow(i)'
  <2>1. \A j \in Others(i) : importer'[j] = importer[j]
    BY <1>6 DEF Others
  <2>2. NewRow(i)
    BY DEF ImporterInv
  <2>3. importer'[i].new = importer[i].new /\ importer'[i].cmd = importer[i].cmd
    BY <1>4, <1>6
  <2> QED
    BY <1>7, <2>1, <2>2, <2>3 DEF NewRow
<1>9. FoundRows(i)'
  <2>1. \A j \in Others(i) : importer'[j] = importer[j]
    BY <1>6 DEF Others
  <2>2. /\ importer'[i].at = at /\ importer'[i].found = found
        /\ importer'[i].cmd = importer[i].cmd /\ at # "inserted"
    BY <1>4, <1>6
  <2>3. at = "superseded" => \A j \in Others(i) : importer[j].at = "superseded"
                                                    => found \cap importer[j].found = {}
    BY DEF Locked
  <2> QED
    BY <1>7, <2>1, <2>2, <2>3 DEF FoundRows
<1> QED
  BY <1>4, <1>5, <1>8, <1>9, QuietStep

LEMMA ScanRows ==
    ASSUME DatasetInv, ImporterInv, NEW i \in Importers, Scan(i) \/ Supersede(i)
    PROVE  DatasetInv' /\ ImporterInv'
<1>1. CASE Scan(i)
  <2>1. /\ Opened(i) /\ importer[i].cmd.activate /\ UNCHANGED <<dataset, clock>>
        /\ importer' = [importer EXCEPT ![i].at = "scanned", ![i].found = Found(importer[i].cmd)]
    BY <1>1 DEF Scan, Opened, Stages
  <2>2. /\ Found(importer[i].cmd) \in SUBSET Active
        /\ \A d \in Found(importer[i].cmd) : Key(d) = Key(importer[i].cmd)
    BY DEF Found
  <2> QED
    BY <2>1, <2>2, FindRows
<1>2. CASE Supersede(i)
  <2> DEFINE found == importer[i].found \cap Active
  <2>1. /\ importer[i].at = "scanned" /\ UNCHANGED <<dataset, clock>>
        /\ \A j \in Others(i) : Locked(j) \cap importer[i].found = {}
        /\ importer' = [importer EXCEPT ![i].at = "superseded", ![i].found = found]
    BY <1>2 DEF Supersede
  <2>2. Opened(i) /\ FoundRows(i)
    BY <2>1 DEF ImporterInv, Opened, Stages
  <2>3. /\ found \in SUBSET Active /\ importer[i].cmd.activate
        /\ \A d \in found : Key(d) = Key(importer[i].cmd)
        /\ \A j \in Others(i) : Locked(j) \cap found = {}
    BY <2>1, <2>2 DEF FoundRows
  <2> HIDE DEF found
  <2> QED
    BY <2>1, <2>2, <2>3, FindRows
<1> QED
  BY <1>1, <1>2

-----------------------------------------------------------------------------
(***************************************************************************)
(* A commit                                                                *)
(***************************************************************************)

AsSuperseded(d) == [d EXCEPT !.status = "SUPERSEDED"]

Committed(i) == [importer[i].new EXCEPT !.status = IF importer[i].cmd.activate THEN "ACTIVE" ELSE @]

\* What a commit takes away, changes and adds.
Commits(i) ==
    /\ dataset' = (dataset \ importer[i].found)
                  \cup {AsSuperseded(d) : d \in importer[i].found} \cup {Committed(i)}
    /\ importer[i].cmd.activate \/ importer[i].found = {}

LEMMA CommitCases ==
    ASSUME ImporterInv, NEW i \in Importers, Commit(i)
    PROVE  /\ UNCHANGED dataset \/ Commits(i)
           /\ UNCHANGED <<clock, edits, run>> /\ importer' = [importer EXCEPT ![i] = IdleImporter]
           /\ Opened(i) /\ NewRow(i) /\ FoundRows(i) /\ importer[i].found \subseteq Active
<1>1. /\ \/ importer[i].at = "superseded"
         \/ importer[i].at = "inserted" /\ ~importer[i].cmd.activate
      /\ UNCHANGED <<clock, edits, run>> /\ importer' = [importer EXCEPT ![i] = IdleImporter]
  BY DEF Commit
<1>2. Opened(i)
  BY <1>1 DEF Opened, Stages
<1>3. NewRow(i) /\ FoundRows(i)
  BY <1>2 DEF ImporterInv
<1>4. importer[i].found \subseteq Active /\ (importer[i].cmd.activate \/ importer[i].found = {})
  BY <1>1, <1>3 DEF FoundRows
<1>5. CASE importer[i].cmd.dryRun
  <2>1. UNCHANGED dataset
    BY <1>5 DEF Commit
  <2> QED
    BY <1>1, <1>2, <1>3, <1>4, <2>1
<1>6. CASE ~importer[i].cmd.dryRun
  <2>1. dataset' = (dataset \ importer[i].found)
                   \cup {AsSuperseded(d) : d \in importer[i].found} \cup {Committed(i)}
    BY <1>6, Zenon DEF Commit, AsSuperseded, Committed
  <2> QED
    BY <1>1, <1>2, <1>3, <1>4, <2>1 DEF Commits
<1> QED
  BY <1>5, <1>6

LEMMA OpenedImporter ==
    ASSUME ImporterInv, NEW i \in Importers, Opened(i)
    PROVE  importer[i] \in [at : Stages, cmd : Commands, found : SUBSET Rows, new : Rows]
BY DEF ImporterInv, Opened, Importing, Stages

LEMMA SupersededRow ==
    ASSUME NEW d \in Rows
    PROVE  /\ AsSuperseded(d) \in Rows /\ Key(AsSuperseded(d)) = Key(d)
           /\ AsSuperseded(d).time = d.time /\ AsSuperseded(d).file = d.file
           /\ AsSuperseded(d).status = "SUPERSEDED"
BY DEF AsSuperseded, Rows, Key, Statuses

LEMMA CommittedRow ==
    ASSUME ImporterInv, NEW i \in Importers, Opened(i), NewRow(i)
    PROVE  /\ Committed(i) \in Rows /\ Key(Committed(i)) = Key(importer[i].cmd)
           /\ Committed(i).time = importer[i].new.time /\ Committed(i).file = importer[i].new.file
           /\ Imported(Committed(i))
           /\ Committed(i).status = IF importer[i].cmd.activate THEN "ACTIVE" ELSE "DRAFT"
<1>1. importer[i].new \in Rows
  BY OpenedImporter
<1>2. importer[i].new.status = "DRAFT" /\ Imported(importer[i].new)
      /\ Key(importer[i].new) = Key(importer[i].cmd)
  BY DEF NewRow
<1>3. /\ Committed(i) \in Rows /\ Key(Committed(i)) = Key(importer[i].new)
      /\ Committed(i).time = importer[i].new.time /\ Committed(i).file = importer[i].new.file
      /\ Committed(i).status = IF importer[i].cmd.activate THEN "ACTIVE" ELSE "DRAFT"
  BY <1>1, <1>2 DEF Committed, Rows, Key, Statuses
<1> QED
  BY <1>2, <1>3 DEF Imported

\* Where each row of the table comes from.
LEMMA CommitOrigin ==
    ASSUME DatasetInv, ImporterInv, NEW i \in Importers, Commit(i), Commits(i), NEW r \in dataset'
    PROVE  \/ r \in dataset /\ r \notin importer[i].found
           \/ \E d \in importer[i].found : r = AsSuperseded(d) /\ d \in dataset /\ d \in Rows
           \/ r = Committed(i)
<1>1. importer[i].found \subseteq dataset /\ dataset \subseteq Rows
  BY CommitCases DEF Active, DatasetInv, Sound
<1> QED
  BY <1>1 DEF Commits

LEMMA CommitActive ==
    ASSUME DatasetInv, ImporterInv, NEW i \in Importers, Commit(i), Commits(i)
    PROVE  Active' = (Active \ importer[i].found)
                     \cup (IF importer[i].cmd.activate THEN {Committed(i)} ELSE {})
<1>1. importer[i].found \subseteq Active /\ Opened(i) /\ NewRow(i)
  BY CommitCases
<1>2. Committed(i).status = IF importer[i].cmd.activate THEN "ACTIVE" ELSE "DRAFT"
  BY <1>1, CommittedRow
<1>3. Active' = {d \in dataset' : d.status = "ACTIVE"}
  BY DEF Active
<1>4. ASSUME NEW r \in Active'
      PROVE  r \in (Active \ importer[i].found)
                   \cup (IF importer[i].cmd.activate THEN {Committed(i)} ELSE {})
  <2>1. r \in dataset' /\ r.status = "ACTIVE"
    BY <1>3, <1>4
  <2>2. CASE r \in dataset /\ r \notin importer[i].found
    BY <2>1, <2>2 DEF Active
  <2>3. CASE \E d \in importer[i].found : r = AsSuperseded(d) /\ d \in dataset /\ d \in Rows
    BY <2>1, <2>3, SupersededRow
  <2>4. CASE r = Committed(i)
    BY <1>2, <2>1, <2>4
  <2> QED
    BY <2>1, <2>2, <2>3, <2>4, CommitOrigin
<1>5. ASSUME NEW r \in Active \ importer[i].found
      PROVE  r \in Active'
  BY <1>5 DEF Active, Commits
<1>6. importer[i].cmd.activate => Committed(i) \in Active'
  BY <1>2, <1>3 DEF Commits
<1> QED
  BY <1>4, <1>5, <1>6

LEMMA CommitRows ==
    ASSUME DatasetInv, ImporterInv, NEW i \in Importers, Commit(i)
    PROVE  DatasetInv' /\ ImporterInv'
<1>1. /\ UNCHANGED clock /\ importer' = [importer EXCEPT ![i] = IdleImporter]
      /\ Opened(i) /\ NewRow(i) /\ FoundRows(i) /\ importer[i].found \subseteq Active
  BY CommitCases
<1>2. CASE UNCHANGED dataset
  BY <1>1, <1>2, IdleImporting, QuietStep
<1>3. CASE Commits(i)
  <2> DEFINE new == Committed(i)
  <2>0. clock \in Nat /\ dataset \subseteq Rows /\ importer[i].found \subseteq dataset
    BY <1>1 DEF DatasetInv, Sound, Active
  <2>1. /\ new \in Rows /\ new.time = importer[i].new.time /\ Imported(new)
        /\ new.time <= clock /\ \A d \in dataset : d.time # new.time
    BY <1>1, CommittedRow DEF NewRow
  <2> HIDE DEF new
  <2>2. ASSUME NEW r \in dataset'
        PROVE  /\ r \in Rows /\ Imported(r) /\ r.time <= clock
               /\ r = new \/ \E d \in dataset : r.time = d.time
    <3>1. CASE r \in dataset
      BY <3>1 DEF DatasetInv, Sound
    <3>2. ASSUME NEW d \in importer[i].found, r = AsSuperseded(d), d \in dataset, d \in Rows
          PROVE  /\ r \in Rows /\ Imported(r) /\ r.time <= clock
                 /\ \E e \in dataset : r.time = e.time
      <4>1. r \in Rows /\ Key(r) = Key(d) /\ r.time = d.time /\ r.file = d.file
        BY <3>2, SupersededRow
      <4>2. Imported(d) /\ d.time <= clock
        BY <3>2 DEF DatasetInv, Sound
      <4> QED
        BY <3>2, <4>1, <4>2 DEF Imported
    <3>3. CASE r = new
      BY <2>1, <3>3
    <3> QED
      BY <1>3, <3>1, <3>2, <3>3, CommitOrigin DEF new
  <2>3. ASSUME NEW r \in dataset', NEW s \in dataset', r.time = s.time
        PROVE  r = s
    <3>1. CASE r = new \/ s = new
      BY <2>1, <2>2, <2>3, <3>1
    <3>2. CASE r # new /\ s # new
      <4>1. PICK d \in dataset : IF d \in importer[i].found THEN r = AsSuperseded(d)
                                                           ELSE r = d
        <5>1. \/ r \in dataset /\ r \notin importer[i].found
              \/ \E d \in importer[i].found : r = AsSuperseded(d) /\ d \in dataset
          BY <1>3, <3>2, CommitOrigin DEF new
        <5> QED
          BY <5>1
      <4>2. PICK e \in dataset : IF e \in importer[i].found THEN s = AsSuperseded(e)
                                                           ELSE s = e
        <5>1. \/ s \in dataset /\ s \notin importer[i].found
              \/ \E e \in importer[i].found : s = AsSuperseded(e) /\ e \in dataset
          BY <1>3, <3>2, CommitOrigin DEF new
        <5> QED
          BY <5>1
      <4>3. r.time = d.time /\ s.time = e.time
        BY <2>0, <4>1, <4>2, SupersededRow
      <4>4. d = e
        BY <2>3, <4>3 DEF DatasetInv, Sound
      <4> QED
        BY <4>1, <4>2, <4>4
    <3> QED
      BY <3>1, <3>2
  <2>4. IsFiniteSet(dataset')
    <3>1. dataset' \subseteq Rows
      BY <2>2
    <3> QED
      BY <2>0, <2>2, <2>3, <3>1, TimesFinite
  <2>5. DatasetInv'
    BY <1>1, <2>0, <2>2, <2>3, <2>4 DEF DatasetInv, Sound
  <2>6. ASSUME NEW j \in Importers \ {i}, Opened(j)
        PROVE  /\ \A d \in dataset' : d.time # importer[j].new.time
               /\ importer[j].at = "superseded" => importer[j].found \subseteq Active'
    <3>1. NewRow(j) /\ FoundRows(j) /\ i \in Others(j)
      BY <1>1, <2>6 DEF ImporterInv, Others, Opened, Stages
    <3>2. new.time # importer[j].new.time /\ \A d \in dataset : d.time # importer[j].new.time
      BY <2>1, <3>1 DEF NewRow
    <3>3. \A d \in dataset' : d.time # importer[j].new.time
      BY <2>2, <3>2
    <3>4. ASSUME importer[j].at = "superseded"
          PROVE  importer[j].found \subseteq Active'
      <4>1. importer[j].found \subseteq Active
        BY <3>1, <3>4 DEF FoundRows
      <4>2. importer[j].found \cap importer[i].found = {}
        <5>1. CASE importer[i].at = "superseded"
          BY <3>1, <3>4, <5>1 DEF FoundRows
        <5>2. CASE importer[i].at # "superseded"
          BY <1>1, <5>2 DEF Commit, FoundRows
        <5> QED
          BY <5>1, <5>2
      <4>3. Active \ importer[i].found \subseteq Active'
        BY <1>3, CommitActive
      <4> QED
        BY <4>1, <4>2, <4>3
    <3> QED
      BY <3>3, <3>4
  <2>7. clock' \in Nat /\ clock <= clock'
    BY <1>1, <2>0
  <2>8. ImporterInv'
    BY <1>1, <2>0, <2>6, <2>7, IdleImporting, ImporterStep
  <2> QED
    BY <2>5, <2>8
<1> QED
  BY <1>2, <1>3, CommitCases

-----------------------------------------------------------------------------
(***************************************************************************)
(* Admin                                                                   *)
(***************************************************************************)

LEMMA AdminRows ==
    ASSUME DatasetInv, ImporterInv, NEW d \in dataset, NEW status \in Statuses,
           NEW priority \in Priorities, AdminSave(d, status, priority)
    PROVE  DatasetInv' /\ ImporterInv'
<1> DEFINE saved == [d EXCEPT !.status = status, !.priority = priority]
<1>1. /\ dataset' = (dataset \ {d}) \cup {saved} /\ UNCHANGED <<clock, importer>>
      /\ \A j \in Importers : d \notin Locked(j)
  BY DEF AdminSave
<1>2. clock \in Nat /\ dataset \subseteq Rows
  BY DEF DatasetInv, Sound
<1>3. saved \in Rows /\ Key(saved) = Key(d) /\ saved.time = d.time /\ saved.file = d.file
  BY <1>2 DEF Rows, Key
<1> HIDE DEF saved
<1>4. ASSUME NEW r \in dataset'
      PROVE  /\ r \in Rows /\ Imported(r) /\ r.time <= clock
             /\ \E e \in dataset : r.time = e.time /\ (e # d => r = e) /\ (e = d => r = saved)
  <2>1. CASE r \in dataset /\ r # d
    BY <2>1 DEF DatasetInv, Sound
  <2>2. CASE r = saved
    <3>1. Imported(d) /\ d.time <= clock
      BY DEF DatasetInv, Sound
    <3> QED
      BY <1>3, <2>2, <3>1 DEF Imported
  <2> QED
    BY <1>1, <2>1, <2>2
<1>5. ASSUME NEW r \in dataset', NEW s \in dataset', r.time = s.time
      PROVE  r = s
  <2>1. PICK e \in dataset : r.time = e.time /\ (e # d => r = e) /\ (e = d => r = saved)
    BY <1>4
  <2>2. PICK f \in dataset : s.time = f.time /\ (f # d => s = f) /\ (f = d => s = saved)
    BY <1>4
  <2>3. e = f
    BY <1>5, <2>1, <2>2 DEF DatasetInv, Sound
  <2> QED
    BY <2>1, <2>2, <2>3
<1>6. IsFiniteSet(dataset')
  <2>1. dataset' \subseteq Rows
    BY <1>4
  <2> QED
    BY <1>2, <1>4, <1>5, <2>1, TimesFinite
<1>7. DatasetInv'
  BY <1>1, <1>2, <1>4, <1>5, <1>6 DEF DatasetInv, Sound
<1>8. Active \ {d} \subseteq Active'
  BY <1>1 DEF Active
<1>9. ASSUME NEW i \in Importers, Opened(i)
      PROVE  NewRow(i)' /\ FoundRows(i)'
  <2>1. NewRow(i) /\ FoundRows(i) /\ Others(i)' = Others(i)
    BY <1>1, <1>9 DEF ImporterInv, Others
  <2>2. NewRow(i)'
    BY <1>1, <1>4, <2>1 DEF NewRow
  <2>3. importer[i].at = "superseded" => d \notin importer[i].found
    BY <1>1 DEF Locked
  <2>4. FoundRows(i)'
    BY <1>1, <1>8, <2>1, <2>3 DEF FoundRows
  <2> QED
    BY <2>2, <2>4
<1>10. ImporterInv'
  BY <1>1, <1>9 DEF ImporterInv, Opened
<1> QED
  BY <1>7, <1>10

LEMMA StepRows ==
    DatasetInv /\ ImporterInv /\ [Next]_vars => DatasetInv' /\ ImporterInv'
<1> SUFFICES ASSUME DatasetInv, ImporterInv, [Next]_vars
             PROVE  DatasetInv' /\ ImporterInv'
  OBVIOUS
<1>1. CASE UNCHANGED <<dataset, clock, importer>>
  BY <1>1 DEF DatasetInv, ImporterInv, NewRow, FoundRows, Opened, Others, Active
<1>2. ASSUME NEW i \in Importers, Import(i)
      PROVE  DatasetInv' /\ ImporterInv'
  <2>1. CASE Abort(i)
    <3>1. importer' = [importer EXCEPT ![i] = IdleImporter] /\ UNCHANGED <<dataset, clock>>
      BY <2>1 DEF Abort
    <3> QED
      BY <3>1, IdleImporting, QuietStep
  <2> QED
    BY <1>2, <2>1, CheckRows, InsertRows, ScanRows, CommitRows DEF Import
<1>3. ASSUME NEW d \in dataset, NEW s \in Statuses, NEW p \in Priorities, AdminSave(d, s, p)
      PROVE  DatasetInv' /\ ImporterInv'
  BY <1>3, AdminRows
<1>4. CASE UNCHANGED vars \/ CalculateChunk \/ EndRun \/ \E p \in Policies, t \in Dates : BeginRun(p, t)
  BY <1>1, <1>4 DEF vars, CalculateChunk, EndRun, BeginRun
<1> QED
  BY <1>2, <1>3, <1>4 DEF Next

-----------------------------------------------------------------------------
(***************************************************************************)
(* The active datasets                                                     *)
(***************************************************************************)

\* What a process has found it still has, and one that begins to supersede
\* finds all.
LEMMA ActivatorsKept ==
    ASSUME UNCHANGED dataset, NEW m \in [Active -> Importers], Activators(m),
           \A i \in Importers, d \in Active :
               Supersedes(i, Key(d))' =>
                   \/ d \in importer'[i].found
                   \/ Supersedes(i, Key(d)) /\ d \notin importer[i].found
    PROVE  m \in [Active' -> Importers] /\ Activators(m)'
<1>1. Active' = Active
  BY DEF Active
<1>2. ASSUME NEW d \in Active, Supersedes(m[d], Key(d))'
      PROVE  d \in importer'[m[d]].found
  <2>1. m[d] \in Importers
    OBVIOUS
  <2>2. Supersedes(m[d], Key(d)) => d \in importer[m[d]].found
    BY DEF Activators
  <2> QED
    BY <1>2, <2>1, <2>2
<1> QED
  BY <1>1, <1>2 DEF Activators

LEMMA ImportActivators ==
    ASSUME ImporterInv, NEW i \in Importers, Import(i), ~Commit(i),
           NEW m \in [Active -> Importers], Activators(m)
    PROVE  m \in [Active' -> Importers] /\ Activators(m)'
<1>1. importer \in [Importers -> Importing]
  BY DEF ImporterInv
<1>2. UNCHANGED dataset
  BY DEF Import, Check, Insert, Scan, Supersede, Abort
<1>3. \A j \in Importers \ {i} : importer'[j] = importer[j]
  BY <1>1 DEF Import, Check, Insert, Scan, Supersede, Abort
<1>4. CASE UNCHANGED importer \/ importer'[i].at \notin {"scanned", "superseded"}
  BY <1>2, <1>3, <1>4, ActivatorsKept DEF Supersedes
<1>5. CASE Scan(i)
  <2>1. /\ importer[i].at = "inserted"
        /\ importer' = [importer EXCEPT ![i].at = "scanned", ![i].found = Found(importer[i].cmd)]
    BY <1>5 DEF Scan
  <2>2. importer[i] \in [at : Stages, cmd : Commands, found : SUBSET Rows, new : Rows]
    BY <2>1, OpenedImporter DEF Opened, Stages
  <2>3. importer'[i].cmd = importer[i].cmd /\ importer'[i].found = Found(importer[i].cmd)
    BY <1>1, <2>1, <2>2
  <2>4. \A d \in Active : Supersedes(i, Key(d))' => d \in importer'[i].found
    BY <2>3 DEF Supersedes, Found
  <2> QED
    BY <1>2, <1>3, <2>4, ActivatorsKept DEF Supersedes
<1>6. CASE Supersede(i)
  <2>1. /\ importer[i].at = "scanned"
        /\ importer' = [importer EXCEPT ![i].at = "superseded",
                                        ![i].found = importer[i].found \cap Active]
    BY <1>6 DEF Supersede
  <2>2. importer[i] \in [at : Stages, cmd : Commands, found : SUBSET Rows, new : Rows]
    BY <2>1, OpenedImporter DEF Opened, Stages
  <2>3. /\ importer'[i].cmd = importer[i].cmd
        /\ importer'[i].found = importer[i].found \cap Active
    BY <1>1, <2>1, <2>2
  <2>4. \A d \in Active : Supersedes(i, Key(d))' =>
            d \in importer'[i].found \/ (Supersedes(i, Key(d)) /\ d \notin importer[i].found)
    BY <2>1, <2>3 DEF Supersedes
  <2> QED
    BY <1>2, <1>3, <2>4, ActivatorsKept DEF Supersedes
<1>7. CASE Abort(i) \/ Insert(i) \/ \E c \in Commands : Check(i, c)
  BY <1>1, <1>4, <1>7 DEF Abort, Insert, Check, IdleImporter
<1> QED
  BY <1>5, <1>6, <1>7 DEF Import

\* The process that commits becomes the activator of the new dataset. It was
\* that of no other that stays: one of its own it had found.
LEMMA CommitActivators ==
    ASSUME DatasetInv, ImporterInv, NEW i \in Importers, Commit(i),
           NEW m \in [Active -> Importers], Activators(m)
    PROVE  \E n \in [Active' -> Importers] : Activators(n)'
<1>1. /\ importer' = [importer EXCEPT ![i] = IdleImporter] /\ Opened(i) /\ NewRow(i) /\ FoundRows(i)
      /\ importer[i].found \subseteq Active
  BY CommitCases
<1>2. importer \in [Importers -> Importing]
  BY DEF ImporterInv
<1>3. /\ \A j \in Importers \ {i} : importer'[j] = importer[j]
      /\ importer'[i].at = "idle"
  BY <1>1, <1>2 DEF IdleImporter
<1>4. \A j \in Importers : \A key : Supersedes(j, key)' =>
          Supersedes(j, key) /\ importer'[j].found = importer[j].found
  BY <1>3 DEF Supersedes
<1>5. CASE UNCHANGED dataset
  <2>1. \A j \in Importers, d \in Active : Supersedes(j, Key(d))' =>
            d \in importer'[j].found \/ (Supersedes(j, Key(d)) /\ d \notin importer[j].found)
    BY <1>4
  <2> QED
    BY <1>5, <2>1, ActivatorsKept
<1>6. CASE Commits(i) /\ ~importer[i].cmd.activate
  <2>1. Active' = Active
    BY <1>6, CommitActive DEF Commits
  <2>2. Activators(m)'
    <3>1. ASSUME NEW d \in Active, Supersedes(m[d], Key(d))'
          PROVE  d \in importer'[m[d]].found
      BY <1>4, <3>1 DEF Activators
    <3> QED
      BY <2>1, <3>1 DEF Activators
  <2> QED
    BY <2>1, <2>2
<1>7. CASE Commits(i) /\ importer[i].cmd.activate
  <2>0. PICK new : new = Committed(i)
    OBVIOUS
  <2>1. Active' = (Active \ importer[i].found) \cup {new}
    BY <1>7, <2>0, CommitActive
  <2>2. Key(new) = Key(importer[i].cmd) /\ new \notin Active
    <3>1. Key(new) = Key(importer[i].cmd) /\ new.time = importer[i].new.time
      BY <1>1, <2>0, CommittedRow
    <3> QED
      BY <1>1, <3>1 DEF NewRow, Active
  <2>3. \A d \in Active \ importer[i].found : Key(d) = Key(new) => m[d] # i
    <3> SUFFICES ASSUME NEW d \in Active \ importer[i].found, Key(d) = Key(new), m[d] = i
                 PROVE  FALSE
      OBVIOUS
    <3>1. importer[i].at \in {"scanned", "superseded"}
      BY <1>7 DEF Commit
    <3>2. Supersedes(m[d], Key(d))
      BY <2>2, <3>1 DEF Supersedes
    <3> QED
      BY <3>2 DEF Activators
  <2>4. PICK n \in [Active' -> Importers] : n = [d \in Active' |-> IF d = new THEN i ELSE m[d]]
    BY <2>1
  <2>5. n[new] = i /\ \A d \in Active \ importer[i].found : d # new /\ n[d] = m[d]
    BY <2>1, <2>2, <2>4
  <2>6. ASSUME NEW d \in Active', NEW e \in Active', Key(d) = Key(e), n[d] = n[e]
        PROVE  d = e
    <3>1. CASE d = new \/ e = new
      BY <2>1, <2>3, <2>5, <2>6, <3>1
    <3>2. CASE d # new /\ e # new
      BY <2>1, <2>5, <2>6, <3>2 DEF Activators
    <3> QED
      BY <3>1, <3>2
  <2>7. ASSUME NEW d \in Active', Supersedes(n[d], Key(d))'
        PROVE  d \in importer'[n[d]].found
    <3>1. CASE d = new
      BY <1>3, <2>5, <2>7, <3>1 DEF Supersedes
    <3>2. CASE d # new
      <4>1. d \in Active /\ n[d] = m[d] /\ m[d] \in Importers
        BY <2>1, <2>5, <3>2
      <4>2. Supersedes(m[d], Key(d)) /\ importer'[m[d]].found = importer[m[d]].found
        BY <1>4, <2>7, <4>1
      <4> QED
        BY <4>1, <4>2 DEF Activators
    <3> QED
      BY <3>1, <3>2
  <2>8. Activators(n)'
    BY <2>6, <2>7 DEF Activators
  <2> QED
    BY <2>8
<1> QED
  BY <1>5, <1>6, <1>7, CommitCases

LEMMA CommitSucceeded ==
    ASSUME DatasetInv, ImporterInv, NEW i \in Importers, Commit(i), Succeeded(dataset)
    PROVE  Succeeded(dataset')
<1>1. /\ Opened(i) /\ NewRow(i) /\ FoundRows(i)
      /\ importer[i].found \subseteq Active
  BY CommitCases
<1>2. CASE UNCHANGED dataset
  BY <1>2
<1>3. CASE Commits(i)
  <2> SUFFICES ASSUME NEW r \in dataset', r.status # "DRAFT"
               PROVE  \E e \in Active' : Key(e) = Key(r)
    BY DEF Succeeded, Active
  <2>0. /\ Key(Committed(i)) = Key(importer[i].cmd)
        /\ Committed(i).status = IF importer[i].cmd.activate THEN "ACTIVE" ELSE "DRAFT"
    BY <1>1, CommittedRow
  <2>1. Active' = (Active \ importer[i].found)
                  \cup (IF importer[i].cmd.activate THEN {Committed(i)} ELSE {})
    BY <1>3, CommitActive
  <2>2. ASSUME NEW e \in Active
        PROVE  \E d \in Active' : Key(d) = Key(e)
    <3>1. CASE e \in importer[i].found
      <4>1. importer[i].cmd.activate /\ Key(e) = Key(importer[i].cmd)
        BY <1>1, <1>3, <3>1 DEF Commits, FoundRows
      <4> QED
        BY <2>0, <2>1, <4>1
    <3>2. CASE e \notin importer[i].found
      BY <2>1, <3>2
    <3> QED
      BY <3>1, <3>2
  <2>3. CASE r \in dataset
    <3>1. PICK e \in Active : Key(e) = Key(r)
      BY <2>3 DEF Succeeded, Active
    <3> QED
      BY <2>2, <3>1
  <2>4. ASSUME NEW d \in importer[i].found, r = AsSuperseded(d), d \in Rows
        PROVE  \E e \in Active' : Key(e) = Key(r)
    BY <1>1, <2>2, <2>4, SupersededRow
  <2>5. CASE r = Committed(i)
    BY <2>0, <2>1, <2>5
  <2> QED
    BY <1>3, <2>3, <2>4, <2>5, CommitOrigin
<1> QED
  BY <1>2, <1>3, CommitCases

LEMMA EditsCount == edits \in Nat /\ [Next]_vars => edits' \in Nat /\ (edits' = 0 => edits = 0)
<1>1. [Next]_vars => edits' = edits \/ edits' = edits + 1
  BY DEF Next, vars, Import, Check, Insert, Scan, Supersede, Commit, Abort, AdminSave, BeginRun,
         CalculateChunk, EndRun
<1> QED
  BY <1>1

LEMMA StepActive ==
    edits \in Nat /\ DatasetInv /\ ImporterInv /\ ActivatorsInv /\ SucceededInv /\ [Next]_vars
      => ActivatorsInv' /\ SucceededInv'
<1> SUFFICES ASSUME edits \in Nat, DatasetInv, ImporterInv, ActivatorsInv, SucceededInv,
                    [Next]_vars, edits' = 0
             PROVE  (\E n \in [Active' -> Importers] : Activators(n)') /\ Succeeded(dataset')
  BY DEF ActivatorsInv, SucceededInv
<1>1. edits = 0
  BY EditsCount
<1>2. Succeeded(dataset)
  BY <1>1 DEF SucceededInv
<1>3. PICK m \in [Active -> Importers] : Activators(m)
  BY <1>1 DEF ActivatorsInv
<1>4. ASSUME NEW i \in Importers, Import(i)
      PROVE  (\E n \in [Active' -> Importers] : Activators(n)') /\ Succeeded(dataset')
  <2>1. CASE Commit(i)
    BY <1>2, <1>3, <2>1, CommitActivators, CommitSucceeded
  <2>2. CASE ~Commit(i)
    <3>1. UNCHANGED dataset
      BY <1>4, <2>2 DEF Import, Check, Insert, Scan, Supersede, Abort
    <3>2. Succeeded(dataset')
      BY <1>2, <3>1
    <3> QED
      BY <1>3, <1>4, <2>2, <3>2, ImportActivators
  <2> QED
    BY <2>1, <2>2
<1>5. ASSUME NEW d \in dataset, NEW s \in Statuses, NEW p \in Priorities, AdminSave(d, s, p)
      PROVE  FALSE
  BY <1>1, <1>5 DEF AdminSave
<1>6. CASE UNCHANGED <<dataset, importer>>
  <2>1. Active' = Active /\ Activators(m)'
    BY <1>3, <1>6 DEF Active, Activators, Supersedes
  <2> QED
    BY <1>2, <1>3, <1>6, <2>1
<1>7. CASE UNCHANGED vars \/ CalculateChunk \/ EndRun \/ \E p \in Policies, t \in Dates : BeginRun(p, t)
  BY <1>6, <1>7 DEF vars, CalculateChunk, EndRun, BeginRun
<1> QED
  BY <1>4, <1>5, <1>7 DEF Next

-----------------------------------------------------------------------------
(***************************************************************************)
(* Induction                                                               *)
(***************************************************************************)

\* A set of finite sets has an element that is minimal.
LEMMA MinimalSet ==
    ASSUME NEW S, NEW T, T \subseteq FiniteSubsetsOf(S), T # {}
    PROVE  \E X \in T : \A Y \in T : Y \subseteq X => Y = X
<1>1. PICK X \in T : \A Y \in T : <<Y, X>> \notin StrictSubsetOrdering(S)
  BY FS_StrictSubsetOrderingWellFounded, WFMin
<1>2. \A Y \in T : Y \in SUBSET S
  BY DEF FiniteSubsetsOf
<1>3. ASSUME NEW Y \in T, Y \subseteq X, Y # X
      PROVE  FALSE
  <2>1. <<Y, X>> \in StrictSubsetOrdering(S)
    BY <1>2, <1>3 DEF StrictSubsetOrdering
  <2> QED
    BY <1>1, <2>1
<1> QED
  BY <1>3

\* Induction over the numbers, for a set of them: the first that is not in it
\* would be the largest of the smallest interval that is not.
LEMMA NumbersIn ==
    ASSUME NEW I, 0 \in I, \A n \in Nat : n \in I => n + 1 \in I
    PROVE  Nat \subseteq I
<1> SUFFICES ASSUME NEW k \in Nat, k \notin I
             PROVE  FALSE
  OBVIOUS
<1> DEFINE T == {0..n : n \in {m \in Nat : m \notin I}}
<1>1. T \subseteq FiniteSubsetsOf(Nat)
  <2>1. ASSUME NEW n \in Nat
        PROVE  0..n \in FiniteSubsetsOf(Nat)
    <3>1. IsFiniteSet(0..n) /\ 0..n \subseteq Nat
      BY FS_Interval
    <3> QED
      BY <3>1 DEF FiniteSubsetsOf
  <2> QED
    BY <2>1
<1>2. T # {}
  <2>1. 0..k \in T
    OBVIOUS
  <2> QED
    BY <2>1
<1>3. PICK X \in T : \A Y \in T : Y \subseteq X => Y = X
  <2> HIDE DEF T
  <2> QED
    BY <1>1, <1>2, MinimalSet
<1>4. PICK n \in Nat : n \notin I /\ X = 0..n
  OBVIOUS
<1>5. n # 0 /\ n - 1 \in Nat /\ (n - 1) + 1 = n
  BY <1>4
<1>6. n - 1 \notin I
  BY <1>4, <1>5
<1>7. 0..(n - 1) \in T /\ 0..(n - 1) \subseteq X
  BY <1>4, <1>5, <1>6
<1>8. n \in 0..n /\ n \notin 0..(n - 1)
  BY <1>5
<1> QED
  BY <1>3, <1>4, <1>7, <1>8

\* The image of a finite set.
LEMMA ImageFinite ==
    ASSUME NEW S, IsFiniteSet(S), NEW f
    PROVE  IsFiniteSet({f[x] : x \in S})
<1> DEFINE T == {f[x] : x \in S}
           g == [x \in S |-> f[x]]
<1>1. g \in [S -> T] /\ \A t \in T : \E x \in S : g[x] = t
  OBVIOUS
<1> HIDE DEF g, T
<1>2. g \in Surjection(S, T)
  BY <1>1, Fun_IsSurj
<1>3. IsFiniteSet(T)
  BY <1>2, FS_Surjection
<1> QED
  BY <1>3 DEF T

-----------------------------------------------------------------------------
(***************************************************************************)
(* The sort keys                                                           *)
(***************************************************************************)

IntKey(k) == \A n \in 1..5 : k[n] \in Int

\* A comparison by the first place where two keys differ.
LEMMA SmallerPlaces ==
    ASSUME NEW k, NEW m
    PROVE  Smaller(k, m) <=>
             \/ k[1] < m[1]
             \/ k[1] = m[1] /\ k[2] < m[2]
             \/ k[1] = m[1] /\ k[2] = m[2] /\ k[3] < m[3]
             \/ k[1] = m[1] /\ k[2] = m[2] /\ k[3] = m[3] /\ k[4] < m[4]
             \/ k[1] = m[1] /\ k[2] = m[2] /\ k[3] = m[3] /\ k[4] = m[4] /\ k[5] < m[5]
<1> DEFINE At(n) == k[n] < m[n] /\ \A p \in 1..n - 1 : k[p] = m[p]
<1>1. 1..5 = {1, 2, 3, 4, 5}
  OBVIOUS
<1>2. /\ 1..1 - 1 = {} /\ 1..2 - 1 = {1} /\ 1..3 - 1 = {1, 2}
      /\ 1..4 - 1 = {1, 2, 3} /\ 1..5 - 1 = {1, 2, 3, 4}
  OBVIOUS
<1>3. Smaller(k, m) <=> At(1) \/ At(2) \/ At(3) \/ At(4) \/ At(5)
  BY <1>1 DEF Smaller
<1>4. /\ At(1) <=> k[1] < m[1]
      /\ At(2) <=> k[2] < m[2] /\ k[1] = m[1]
  BY <1>2
<1>5. At(3) <=> k[3] < m[3] /\ k[1] = m[1] /\ k[2] = m[2]
  BY <1>2
<1>6. At(4) <=> k[4] < m[4] /\ k[1] = m[1] /\ k[2] = m[2] /\ k[3] = m[3]
  BY <1>2
<1>7. At(5) <=> k[5] < m[5] /\ k[1] = m[1] /\ k[2] = m[2] /\ k[3] = m[3] /\ k[4] = m[4]
  BY <1>2
<1> HIDE DEF At
<1> QED
  BY <1>3, <1>4, <1>5, <1>6, <1>7

LEMMA IntPlaces ==
    ASSUME NEW k, IntKey(k)
    PROVE  k[1] \in Int /\ k[2] \in Int /\ k[3] \in Int /\ k[4] \in Int /\ k[5] \in Int
BY DEF IntKey

\* It is a strict total order of keys.
LEMMA SmallerTransitive ==
    ASSUME NEW k, NEW l, NEW m, IntKey(k), IntKey(l), IntKey(m), Smaller(k, l), Smaller(l, m)
    PROVE  Smaller(k, m)
BY IntPlaces, SmallerPlaces

LEMMA SmallerIrreflexive ==
    ASSUME NEW k, IntKey(k)
    PROVE  ~Smaller(k, k)
BY IntPlaces, SmallerPlaces

LEMMA SmallerTotal ==
    ASSUME NEW k, NEW m, IntKey(k), IntKey(m), ~Smaller(k, m), ~Smaller(m, k)
    PROVE  k[1] = m[1] /\ k[2] = m[2] /\ k[3] = m[3] /\ k[4] = m[4] /\ k[5] = m[5]
BY IntPlaces, SmallerPlaces

\* Of finitely many there is one that none is smaller than.
LEMMA LeastKey ==
    ASSUME NEW S, IsFiniteSet(S), S # {}, NEW key, \A x \in S : IntKey(key[x])
    PROVE  \E x \in S : \A y \in S : ~Smaller(key[y], key[x])
<1> DEFINE Least(X) == \E x \in X : \A y \in X : ~Smaller(key[y], key[x])
           T == {X \in SUBSET S : X # {} /\ ~Least(X)}
<1> SUFFICES ASSUME T # {}
             PROVE  FALSE
  OBVIOUS
<1>1. T \subseteq FiniteSubsetsOf(S)
  BY FS_Subset DEF FiniteSubsetsOf
<1>2. PICK X \in T : \A Y \in T : Y \subseteq X => Y = X
  <2> HIDE DEF T
  <2> QED
    BY <1>1, MinimalSet
<1>3. PICK x \in X : TRUE
  OBVIOUS
<1>4. X \ {x} \notin T
  BY <1>2, <1>3
<1>5. CASE X \ {x} = {}
  <2>1. \A y \in X : y = x
    BY <1>5
  <2> QED
    BY <1>2, <1>3, <2>1, SmallerIrreflexive
<1>6. CASE X \ {x} # {}
  <2>1. PICK y \in X \ {x} : \A z \in X \ {x} : ~Smaller(key[z], key[y])
    BY <1>4, <1>6
  <2>2. IntKey(key[x]) /\ \A z \in X : IntKey(key[z])
    OBVIOUS
  <2>3. CASE Smaller(key[x], key[y])
    <3>1. ASSUME NEW z \in X, Smaller(key[z], key[x])
          PROVE  FALSE
      <4>1. z # x
        BY <2>2, <3>1, SmallerIrreflexive
      <4>2. Smaller(key[z], key[y])
        BY <2>2, <2>3, <3>1, SmallerTransitive
      <4> QED
        BY <2>1, <4>1, <4>2
    <3> QED
      BY <1>2, <1>3, <3>1
  <2>4. CASE ~Smaller(key[x], key[y])
    <3>1. \A z \in X : ~Smaller(key[z], key[y])
      BY <2>1, <2>4
    <3> QED
      BY <1>2, <2>1, <3>1
  <2> QED
    BY <2>3, <2>4
<1> QED
  BY <1>5, <1>6

-----------------------------------------------------------------------------
(***************************************************************************)
(* The chain of regions                                                    *)
(***************************************************************************)

Regions == Cardinality(DOMAIN Parent)

Places(region) == {region} \cup DOMAIN Parent

IsWalk(f, region, n) == f = [k \in 0..n |-> IF k = 0 THEN <<region>> ELSE Climb(f[k - 1])]

LEMMA WalkExists ==
    ASSUME NEW region, NEW n \in Nat
    PROVE  \E f : IsWalk(f, region, n)
<1> DEFINE I == {k \in Nat : \E f : IsWalk(f, region, k)}
<1>1. 0 \in I
  <2> DEFINE f == [k \in 0..0 |-> <<region>>]
  <2>1. IsWalk(f, region, 0)
    BY DEF IsWalk
  <2> QED
    BY <2>1
<1>2. ASSUME NEW k \in Nat, k \in I
      PROVE  k + 1 \in I
  <2>1. PICK f : IsWalk(f, region, k)
    BY <1>2
  <2> DEFINE g == [j \in 0..(k + 1) |-> IF j = k + 1 THEN Climb(f[k]) ELSE f[j]]
  <2>2. \A j \in 0..k : f[j] = IF j = 0 THEN <<region>> ELSE Climb(f[j - 1])
    BY <2>1 DEF IsWalk
  <2>3. ASSUME NEW j \in 0..(k + 1)
        PROVE  g[j] = IF j = 0 THEN <<region>> ELSE Climb(g[j - 1])
    <3>1. CASE j = k + 1
      <4>1. j # 0 /\ j - 1 = k /\ k \in 0..(k + 1) /\ k # k + 1
        BY <3>1
      <4> QED
        BY <3>1, <4>1
    <3>2. CASE j # k + 1
      <4>1. j \in 0..k /\ g[j] = f[j]
        BY <3>2
      <4>2. j # 0 => j - 1 \in 0..k /\ j - 1 \in 0..(k + 1) /\ j - 1 # k + 1
        BY <4>1
      <4>3. j # 0 => g[j - 1] = f[j - 1]
        BY <4>2
      <4> HIDE DEF g
      <4> QED
        BY <2>2, <4>1, <4>3
    <3> QED
      BY <3>1, <3>2
  <2>4. g = [j \in 0..(k + 1) |-> g[j]]
    OBVIOUS
  <2> HIDE DEF g
  <2>5. IsWalk(g, region, k + 1)
    BY <2>3, <2>4 DEF IsWalk
  <2> QED
    BY <2>5
<1> HIDE DEF I
<1>3. n \in I
  BY <1>1, <1>2, NumbersIn
<1> QED
  BY <1>3 DEF I

LEMMA ChainWalk ==
    ASSUME NEW region
    PROVE  \E f : /\ IsWalk(f, region, Regions)
                  /\ RankChain(region) = IF Global \in ToSet(f[Regions]) THEN f[Regions]
                                         ELSE Append(f[Regions], Global)
<1> DEFINE w == CHOOSE f : IsWalk(f, region, Regions)
<1>1. Regions \in Nat
  BY ParentAssumption, FS_CardinalityType DEF Regions
<1>2. IsWalk(w, region, Regions)
  BY <1>1, WalkExists
<1>3. RankChain(region) = IF Global \in ToSet(w[Regions]) THEN w[Regions]
                          ELSE Append(w[Regions], Global)
  BY DEF RankChain, IsWalk, Regions
<1> QED
  BY <1>2, <1>3

\* A sequence of regions that occur once each, from this one up.
Ascent(s, region) ==
    /\ s \in Seq(Places(region)) /\ s # <<>> /\ s[1] = region
    /\ \A m, n \in 1..Len(s) : s[m] = s[n] => m = n
    /\ \A n \in 1..Len(s) - 1 : s[n] \in DOMAIN Parent /\ s[n + 1] = Parent[s[n]]

LEMMA ClimbAscends ==
    ASSUME NEW region, NEW s, Ascent(s, region)
    PROVE  /\ Ascent(Climb(s), region)
           /\ Climb(s) = s \/ Len(Climb(s)) = Len(s) + 1
<1>1. /\ s \in Seq(Places(region)) /\ Len(s) \in Nat /\ Len(s) > 0 /\ Last(s) = s[Len(s)]
      /\ DOMAIN s = 1..Len(s)
  BY DEF Ascent, Last
<1>2. CASE Climb(s) = s
  BY <1>2
<1>3. CASE Climb(s) # s
  <2> DEFINE up == Parent[Last(s)]
             t  == Append(s, up)
  <2>1. Last(s) \in DOMAIN Parent /\ up # None /\ up \notin ToSet(s) /\ Climb(s) = t
    BY <1>3 DEF Climb
  <2>2. up \in DOMAIN Parent /\ up \in Places(region)
    BY <2>1, ParentAssumption DEF Places
  <2>3. /\ t \in Seq(Places(region)) /\ Len(t) = Len(s) + 1 /\ t[Len(s) + 1] = up
        /\ \A n \in 1..Len(s) : t[n] = s[n]
    BY <1>1, <2>2
  <2>4. \A n \in 1..Len(s) : s[n] # up
    BY <1>1, <2>1 DEF ToSet
  <2> HIDE DEF t
  <2>5. \A m, n \in 1..Len(t) : t[m] = t[n] => m = n
    <3> SUFFICES ASSUME NEW m \in 1..Len(t), NEW n \in 1..Len(t), t[m] = t[n]
                 PROVE  m = n
      OBVIOUS
    <3>1. m \in 1..Len(s) \/ m = Len(s) + 1
      BY <1>1, <2>3
    <3>2. n \in 1..Len(s) \/ n = Len(s) + 1
      BY <1>1, <2>3
    <3> HIDE DEF up
    <3> QED
      BY <2>3, <2>4, <3>1, <3>2 DEF Ascent
  <2>6. \A n \in 1..Len(t) - 1 : t[n] \in DOMAIN Parent /\ t[n + 1] = Parent[t[n]]
    <3> SUFFICES ASSUME NEW n \in 1..Len(t) - 1
                 PROVE  t[n] \in DOMAIN Parent /\ t[n + 1] = Parent[t[n]]
      OBVIOUS
    <3>1. n \in 1..Len(s) /\ n \in Nat /\ n >= 1 /\ n <= Len(s)
      BY <1>1, <2>3
    <3>2. CASE n = Len(s)
      BY <1>1, <2>1, <2>3, <3>1, <3>2
    <3>3. CASE n # Len(s)
      <4>0. Len(s) \in Nat
        BY <1>1
      <4>1. n <= Len(s) - 1
        BY <3>1, <3>3, <4>0
      <4>2. n \in 1..Len(s) - 1 /\ n + 1 \in 1..Len(s)
        BY <3>1, <4>0, <4>1
      <4> QED
        BY <2>3, <3>1, <4>2 DEF Ascent
    <3> QED
      BY <3>2, <3>3
  <2>7. t # <<>> /\ t[1] = region
    BY <1>1, <2>3 DEF Ascent
  <2> QED
    BY <2>1, <2>3, <2>5, <2>6, <2>7 DEF Ascent
<1> QED
  BY <1>2, <1>3

\* Each step of the walk goes up, or the walk has ended.
LEMMA WalkAscends ==
    ASSUME NEW region, NEW f, NEW N \in Nat, IsWalk(f, region, N)
    PROVE  \A n \in 0..N : Ascent(f[n], region) /\ (Climb(f[n]) = f[n] \/ Len(f[n]) = n + 1)
<1> DEFINE Good(n) == Ascent(f[n], region) /\ (Climb(f[n]) = f[n] \/ Len(f[n]) = n + 1)
           I == {n \in Nat : n <= N => Good(n)}
<1>1. \A n \in 0..N : f[n] = IF n = 0 THEN <<region>> ELSE Climb(f[n - 1])
  BY DEF IsWalk
<1>2. 0 \in I
  <2>1. f[0] = <<region>>
    BY <1>1
  <2>2. <<region>> \in Seq(Places(region)) /\ Len(<<region>>) = 1 /\ <<region>>[1] = region
    BY DEF Places
  <2>3. Ascent(<<region>>, region)
    BY <2>2 DEF Ascent
  <2> QED
    BY <2>1, <2>2, <2>3
<1>3. ASSUME NEW n \in Nat, n \in I
      PROVE  n + 1 \in I
  <2> SUFFICES ASSUME n + 1 <= N
               PROVE  Good(n + 1)
    OBVIOUS
  <2>1. Good(n)
    BY <1>3
  <2>2. f[n + 1] = Climb(f[n])
    <3>1. n + 1 \in 0..N /\ n + 1 # 0 /\ (n + 1) - 1 = n
      OBVIOUS
    <3> QED
      BY <1>1, <3>1
  <2>3. Ascent(f[n + 1], region) /\ (Climb(f[n]) = f[n] \/ Len(f[n + 1]) = Len(f[n]) + 1)
    BY <2>1, <2>2, ClimbAscends
  <2>4. CASE Climb(f[n]) = f[n]
    BY <2>2, <2>3, <2>4
  <2>5. CASE Climb(f[n]) # f[n]
    BY <2>1, <2>3, <2>5
  <2> QED
    BY <2>4, <2>5
<1> HIDE DEF I
<1>4. Nat \subseteq I
  BY <1>2, <1>3, NumbersIn
<1> QED
  BY <1>4 DEF I

\* Places are no more than the regions, so that the walk has ended in time.
LEMMA WalkEnds ==
    ASSUME NEW region, NEW f, IsWalk(f, region, Regions)
    PROVE  Ascent(f[Regions], region) /\ Climb(f[Regions]) = f[Regions]
<1> DEFINE s == f[Regions]
<1>1. Regions \in Nat /\ IsFiniteSet(DOMAIN Parent)
  BY ParentAssumption, FS_CardinalityType DEF Regions
<1>2. Ascent(s, region) /\ (Climb(s) = s \/ Len(s) = Regions + 1)
  BY <1>1, WalkAscends
<1> HIDE DEF s
<1> SUFFICES ASSUME Len(s) = Regions + 1, Climb(s) # s
             PROVE  FALSE
  BY <1>2 DEF s
<1>3. /\ s \in Seq(Places(region)) /\ DOMAIN s = 1..Len(s)
      /\ \A m, n \in 1..Len(s) : s[m] = s[n] => m = n
  BY <1>2 DEF Ascent
<1>4. \A n \in 1..Len(s) : s[n] \in DOMAIN Parent
  <2>1. \A n \in 1..Len(s) - 1 : s[n] \in DOMAIN Parent
    BY <1>2 DEF Ascent
  <2>2. s[Len(s)] \in DOMAIN Parent
    BY DEF Climb, Last
  <2> QED
    BY <1>1, <2>1, <2>2
<1> DEFINE g == [n \in 1..Len(s) |-> s[n]]
<1>5. g \in [1..Len(s) -> DOMAIN Parent] /\ \A m, n \in 1..Len(s) : g[m] = g[n] => m = n
  BY <1>3, <1>4
<1> HIDE DEF g
<1>6. g \in Injection(1..Len(s), DOMAIN Parent)
  BY <1>5, Fun_IsInj
<1>7. Cardinality(1..Len(s)) <= Regions
  BY <1>1, <1>6, FS_Injection DEF Regions
<1>8. Cardinality(1..Len(s)) = Regions + 1
  BY <1>1, FS_Interval
<1> QED
  BY <1>1, <1>7, <1>8

\* _region_rank_chain(): the chain begins with the region, has no region twice,
\* so that a rank is well defined, and all the ancestors of the ones it has,
\* whether or not the parents form a cycle; GLOBAL is in it.
THEOREM RankChainTheorem ==
    ASSUME NEW region
    PROVE  LET chain == RankChain(region)
           IN  /\ chain \in Seq(Places(region) \cup {Global}) /\ chain[1] = region
               /\ \A m, n \in 1..Len(chain) : chain[m] = chain[n] => m = n
               /\ \A r \in ToSet(chain) \cap DOMAIN Parent :
                      (Parent[r] # None /\ r # Global) => Parent[r] \in ToSet(chain)
               /\ Global \in ToSet(chain)
<1>1. PICK f : /\ IsWalk(f, region, Regions)
               /\ RankChain(region) = IF Global \in ToSet(f[Regions]) THEN f[Regions]
                                      ELSE Append(f[Regions], Global)
  BY ChainWalk
<1> DEFINE s == f[Regions]
           chain == RankChain(region)
<1>2. Ascent(s, region) /\ Climb(s) = s
  BY <1>1, WalkEnds
<1>3. chain = IF Global \in ToSet(s) THEN s ELSE Append(s, Global)
  BY <1>1
<1> HIDE DEF s, chain
<1>4. /\ s \in Seq(Places(region)) /\ Len(s) \in Nat /\ Len(s) > 0 /\ DOMAIN s = 1..Len(s)
      /\ s[1] = region /\ \A m, n \in 1..Len(s) : s[m] = s[n] => m = n
  BY <1>2 DEF Ascent
<1>5. ASSUME NEW n \in 1..Len(s), s[n] \in DOMAIN Parent, Parent[s[n]] # None
      PROVE  Parent[s[n]] \in ToSet(s)
  <2>1. CASE n = Len(s)
    <3>1. Climb(s) = IF Parent[s[n]] = None \/ Parent[s[n]] \in ToSet(s) THEN s
                     ELSE Append(s, Parent[s[n]])
      BY <1>5, <2>1 DEF Climb, Last
    <3>2. CASE Parent[s[n]] \notin ToSet(s)
      <4>1. s = Append(s, Parent[s[n]])
        BY <1>2, <1>5, <3>1, <3>2
      <4>2. Parent[s[n]] \in Places(region)
        BY <1>5, ParentAssumption DEF Places
      <4>3. Len(Append(s, Parent[s[n]])) = Len(s) + 1
        BY <1>4, <4>2
      <4> QED
        BY <1>4, <4>1, <4>3
    <3> QED
      BY <3>2
  <2>2. CASE n # Len(s)
    <3>0. Len(s) \in Nat /\ n \in 1..Len(s)
      BY <1>4
    <3>1. n \in 1..Len(s) - 1 /\ n + 1 \in 1..Len(s)
      BY <2>2, <3>0
    <3>2. s[n + 1] = Parent[s[n]]
      BY <1>2, <3>1 DEF Ascent
    <3>3. s[n + 1] \in ToSet(s)
      BY <1>4, <3>1 DEF ToSet
    <3> QED
      BY <3>2, <3>3
  <2> QED
    BY <2>1, <2>2
<1>6. CASE Global \in ToSet(s)
  <2>1. chain = s /\ chain \in Seq(Places(region) \cup {Global})
    BY <1>3, <1>4, <1>6
  <2>2. \A r \in ToSet(s) : \E n \in 1..Len(s) : r = s[n]
    BY <1>4 DEF ToSet
  <2> QED
    BY <1>4, <1>5, <1>6, <2>1, <2>2 DEF chain
<1>7. CASE Global \notin ToSet(s)
  <2>1. chain = Append(s, Global)
    BY <1>3, <1>7
  <2>2. /\ chain \in Seq(Places(region) \cup {Global}) /\ Len(chain) = Len(s) + 1
        /\ chain[Len(s) + 1] = Global /\ \A n \in 1..Len(s) : chain[n] = s[n]
        /\ DOMAIN chain = 1..(Len(s) + 1)
    <3>1. s \in Seq(Places(region) \cup {Global})
      BY <1>4
    <3> QED
      BY <1>4, <2>1, <3>1
  <2>3. ToSet(chain) = ToSet(s) \cup {Global}
    <3>1. 1..(Len(s) + 1) = 1..Len(s) \cup {Len(s) + 1}
      BY <1>4
    <3> QED
      BY <1>4, <2>2, <3>1 DEF ToSet
  <2>4. \A n \in 1..Len(s) : s[n] # Global
    BY <1>4, <1>7 DEF ToSet
  <2>5. ASSUME NEW m \in 1..Len(chain), NEW n \in 1..Len(chain), chain[m] = chain[n]
        PROVE  m = n
    <3>1. m \in 1..Len(s) \/ m = Len(s) + 1
      BY <1>4, <2>2
    <3>2. n \in 1..Len(s) \/ n = Len(s) + 1
      BY <1>4, <2>2
    <3> QED
      BY <1>4, <2>2, <2>4, <2>5, <3>1, <3>2
  <2>6. ASSUME NEW r \in ToSet(chain) \cap DOMAIN Parent, Parent[r] # None, r # Global
        PROVE  Parent[r] \in ToSet(chain)
    <3>1. PICK n \in 1..Len(s) : r = s[n]
      BY <1>4, <2>3, <2>6 DEF ToSet
    <3> QED
      BY <1>5, <2>3, <2>6, <3>1
  <2>7. chain[1] = region
    BY <1>4, <2>2
  <2> QED
    BY <2>2, <2>3, <2>5, <2>6, <2>7 DEF chain
<1> QED
  BY <1>6, <1>7

-----------------------------------------------------------------------------
(***************************************************************************)
(* Resolution against one index                                            *)
(***************************************************************************)

LEMMA IndexEntry ==
    ASSUME NEW datasets, Sound(datasets), NEW e \in Index(datasets)
    PROVE  /\ e.set \in datasets /\ e.set \in Rows /\ e.set.status = "ACTIVE"
           /\ e.set.file \in DOMAIN Contents
           /\ e.factor \in Contents[e.set.file] /\ e.factor.id \in Nat
           /\ e = [set |-> e.set, factor |-> e.factor]
<1>0. PICK d \in datasets :
          d.status = "ACTIVE" /\ \E f \in Contents[d.file] : e = [set |-> d, factor |-> f]
  BY DEF Index
<1>1. PICK f \in Contents[d.file] : d.status = "ACTIVE" /\ e = [set |-> d, factor |-> f]
  BY <1>0
<1>2. d \in Rows /\ e.set = d /\ e.factor = f
  BY <1>1 DEF Sound
<1>3. d.file \in DOMAIN Contents
  BY <1>2, CommandsAssumption DEF Rows
<1> QED
  BY <1>1, <1>2, <1>3, ContentsAssumption

LEMMA IndexFinite ==
    ASSUME NEW datasets, Sound(datasets)
    PROVE  IsFiniteSet(Index(datasets))
<1> DEFINE A    == {d \in datasets : d.status = "ACTIVE"}
           F(d) == {[set |-> d, factor |-> f] : f \in Contents[d.file]}
           f    == [d \in A |-> F(d)]
           S    == {f[d] : d \in A}
<1>1. IsFiniteSet(A)
  BY FS_Subset DEF Sound
<1>2. IsFiniteSet(S)
  <2> HIDE DEF A, f
  <2> QED
    BY <1>1, ImageFinite
<1>3. ASSUME NEW d \in A
      PROVE  IsFiniteSet(F(d))
  <2>1. IsFiniteSet(Contents[d.file])
    BY CommandsAssumption, ContentsAssumption DEF Sound, Rows
  <2> DEFINE g == [x \in Contents[d.file] |-> [set |-> d, factor |-> x]]
  <2>2. F(d) = {g[x] : x \in Contents[d.file]}
    OBVIOUS
  <2> HIDE DEF F, g
  <2> QED
    BY <2>1, <2>2, ImageFinite
<1>4. \A T \in S : IsFiniteSet(T)
  <2> HIDE DEF A, F
  <2> QED
    BY <1>3
<1>5. Index(datasets) = UNION S
  <2>1. \A d \in A : f[d] = F(d)
    OBVIOUS
  <2>2. S = {F(d) : d \in A}
    BY <2>1
  <2>3. Index(datasets) = UNION {F(d) : d \in A}
    BY DEF Index
  <2> QED
    BY <2>2, <2>3
<1> HIDE DEF S
<1> QED
  BY <1>2, <1>4, <1>5, FS_UNION

\* What matches has a rank, and so a key of five numbers.
LEMMA MatchKey ==
    ASSUME NEW datasets, Sound(datasets), NEW policy, NEW date,
           NEW e \in Matches(Index(datasets), policy, date)
    PROVE  IntKey(SortKey(e, policy))
<1>1. e \in Index(datasets) /\ (policy.region # None => RegionCode(e) \in ToSet(RankChain(policy.region)))
  BY DEF Matches
<1>2. e.set.priority \in Int /\ e.set.time \in Int /\ e.factor.id \in Int
  BY <1>1, IndexEntry DEF Rows, Priorities
<1>3. RegionRank(e, policy.region) \in Int
  <2>1. CASE policy.region = None
    BY <2>1 DEF RegionRank
  <2>2. CASE policy.region # None
    <3> DEFINE chain == RankChain(policy.region)
    <3>1. chain \in Seq(Places(policy.region) \cup {Global})
      BY RankChainTheorem
    <3>2. RegionRank(e, policy.region) = CHOOSE n \in 1..Len(chain) : chain[n] = RegionCode(e)
      BY <2>2 DEF RegionRank
    <3> HIDE DEF chain
    <3>3. \E n \in 1..Len(chain) : chain[n] = RegionCode(e)
      BY <1>1, <2>2, <3>1 DEF ToSet, chain
    <3>4. RegionRank(e, policy.region) \in 1..Len(chain)
      BY <3>2, <3>3
    <3> QED
      BY <3>4
  <2> QED
    BY <2>1, <2>2
<1>4. PublisherRank(e, policy) \in Int
  BY DEF PublisherRank
<1>5. -e.set.priority \in Int /\ -e.set.time \in Int
  BY <1>2
<1> DEFINE k == SortKey(e, policy)
<1>6. k[1] \in Int /\ k[2] \in Int /\ k[3] \in Int /\ k[4] \in Int /\ k[5] \in Int
  BY <1>2, <1>3, <1>4, <1>5 DEF SortKey
<1>7. 1..5 = {1, 2, 3, 4, 5}
  OBVIOUS
<1> HIDE DEF k
<1>8. IntKey(k)
  BY <1>6, <1>7 DEF IntKey
<1> QED
  BY <1>8 DEF k

\* matches.sort() has one way to put a factor first ...
LEMMA BestIsOne ==
    ASSUME NEW datasets, Sound(datasets), NEW policy, NEW date,
           NEW a \in Best(Index(datasets), policy, date),
           NEW b \in Best(Index(datasets), policy, date)
    PROVE  a = b
<1> DEFINE k == SortKey(a, policy)
           m == SortKey(b, policy)
<1>1. /\ a \in Matches(Index(datasets), policy, date) /\ b \in Matches(Index(datasets), policy, date)
      /\ ~Smaller(k, m) /\ ~Smaller(m, k)
  BY DEF Best
<1>2. a \in Index(datasets) /\ b \in Index(datasets)
  BY <1>1 DEF Matches
<1>3. IntKey(k) /\ IntKey(m)
  BY <1>1, MatchKey
<1>4. k[4] = -a.set.time /\ m[4] = -b.set.time /\ k[5] = a.factor.id /\ m[5] = b.factor.id
  BY DEF SortKey
<1> HIDE DEF k, m
<1>5. k[4] = m[4] /\ k[5] = m[5]
  BY <1>1, <1>3, SmallerTotal
<1>6. a.set \in datasets /\ b.set \in datasets /\ a.set.time \in Nat /\ b.set.time \in Nat
  BY <1>2, IndexEntry DEF Rows
<1>7. a.set = b.set
  <2>1. a.set.time = b.set.time
    BY <1>4, <1>5, <1>6
  <2> QED
    BY <1>6, <2>1 DEF Sound
<1>8. a.factor = b.factor
  <2> DEFINE file == a.set.file
  <2>1. /\ file \in DOMAIN Contents
        /\ a.factor \in Contents[file] /\ b.factor \in Contents[file]
    BY <1>2, <1>7, IndexEntry
  <2>2. a.factor.id = b.factor.id
    BY <1>4, <1>5
  <2> QED
    BY <2>1, <2>2, ContentsAssumption
<1> QED
  BY <1>2, <1>7, <1>8, IndexEntry

\* ... if there is any.
LEMMA BestExists ==
    ASSUME NEW datasets, Sound(datasets), NEW policy, NEW date,
           Matches(Index(datasets), policy, date) # {}
    PROVE  Best(Index(datasets), policy, date) # {}
<1> DEFINE M   == Matches(Index(datasets), policy, date)
           key == [e \in M |-> SortKey(e, policy)]
<1>1. IsFiniteSet(M)
  BY IndexFinite, FS_Subset DEF Matches
<1>2. \A e \in M : key[e] = SortKey(e, policy) /\ IntKey(SortKey(e, policy))
  BY MatchKey
<1> HIDE DEF M, key
<1>3. \E x \in M : \A y \in M : ~Smaller(key[y], key[x])
  BY <1>1, <1>2, LeastKey DEF M
<1>4. PICK x \in M : \A y \in M : ~Smaller(SortKey(y, policy), SortKey(x, policy))
  BY <1>2, <1>3
<1> QED
  BY <1>4 DEF Best, M

LEMMA ResultsAgree ==
    ASSUME NEW datasets, Sound(datasets), NEW policy, NEW date,
           NEW r \in Results(Index(datasets), policy, date),
           NEW s \in Results(Index(datasets), policy, date)
    PROVE  r = s
<1> DEFINE best == Best(Index(datasets), policy, date)
           Result(e) == [status |-> IF Convertible(e.factor.unit) THEN "CALCULATED"
                                                                  ELSE "UNRESOLVED_NO_FACTOR",
                         set |-> e.set.time, factor |-> e.factor.id]
<1>1. Results(Index(datasets), policy, date) =
         IF best = {} THEN {[status |-> "UNRESOLVED_NO_FACTOR", set |-> 0, factor |-> 0]}
         ELSE {Result(e) : e \in best}
  BY DEF Results
<1>2. \A a, b \in best : a = b
  BY BestIsOne
<1> HIDE DEF best, Result
<1> QED
  BY <1>1, <1>2

\* A file that serves the activity by itself serves it as part of the library.
LEMMA ServedByRow ==
    ASSUME NEW datasets, Sound(datasets), NEW policy, NEW date,
           NEW e \in datasets, e.status = "ACTIVE", AlwaysServed(Key(e), policy, date)
    PROVE  Matches(Index(datasets), policy, date) # {}
<1>1. PICK c \in Commands : Key(c) = Key(e) /\ c.file = e.file
  BY DEF Sound, Imported
<1> DEFINE row == [publisher |-> c.publisher, version |-> c.version, region |-> c.region,
                   file |-> c.file, status |-> "ACTIVE", priority |-> 100, time |-> 1]
<1>2. PICK x : x \in Matches(Index({[publisher |-> c.publisher, region |-> c.region,
                                     file |-> c.file, status |-> "ACTIVE", priority |-> 100,
                                     time |-> 1]}), policy, date)
  BY <1>1 DEF AlwaysServed
<1>3. PICK f \in Contents[c.file] :
          /\ x.factor = f /\ x.set.region = c.region
          /\ x \in Matches(Index({[publisher |-> c.publisher, region |-> c.region,
                                     file |-> c.file, status |-> "ACTIVE", priority |-> 100,
                                     time |-> 1]}), policy, date)
  BY <1>2 DEF Matches, Index
<1> DEFINE y == [set |-> e, factor |-> f]
<1>4. y \in Index(datasets)
  BY <1>1 DEF Index
<1>5. y.factor = x.factor /\ y.set.region = x.set.region
  BY <1>1, <1>3 DEF Key
<1>6. RegionCode(y) = RegionCode(x)
  BY <1>5 DEF RegionCode
<1> HIDE DEF y
<1>7. y \in Matches(Index(datasets), policy, date)
  BY <1>3, <1>4, <1>5, <1>6 DEF Matches
<1> QED
  BY <1>7

LEMMA ServedResults ==
    ASSUME NEW datasets, Sound(datasets), NEW policy, NEW date,
           Matches(Index(datasets), policy, date) # {},
           NEW r \in Results(Index(datasets), policy, date)
    PROVE  r.set # 0
<1>1. PICK e \in Best(Index(datasets), policy, date) : r.set = e.set.time
  BY BestExists DEF Results
<1>2. e \in Index(datasets)
  BY <1>1 DEF Best, Matches
<1> QED
  BY <1>1, <1>2, IndexEntry DEF Rows

-----------------------------------------------------------------------------
(***************************************************************************)
(* The run, and the theorems                                               *)
(***************************************************************************)

\* The library that a run has loaded, and its results, do not change under it.
RunOf(library, policy, date, results) ==
    [at |-> "running", library |-> library, policy |-> policy, date |-> date, results |-> results]

LEMMA StepRun ==
    edits \in Nat /\ DatasetInv /\ SucceededInv /\ RunInv /\ [Next]_vars => RunInv'
<1> SUFFICES ASSUME edits \in Nat, DatasetInv, SucceededInv, RunInv, [Next]_vars
             PROVE  RunInv'
  OBVIOUS
<1>1. edits' \in Nat /\ (edits' = 0 => edits = 0)
  BY EditsCount
<1>2. CASE UNCHANGED run
  BY <1>1, <1>2 DEF RunInv, RunIndex
<1>3. ASSUME NEW p \in Policies, NEW t \in Dates, BeginRun(p, t)
      PROVE  RunInv'
  <2>1. /\ run' = [at |-> "running", library |-> dataset, policy |-> p, date |-> t, results |-> <<>>]
        /\ UNCHANGED edits
    BY <1>3 DEF BeginRun
  <2>2. Sound(dataset) /\ dataset \subseteq Rows
    BY DEF DatasetInv, Sound
  <2>3. <<>> \in Seq(Results(RunIndex', p, t))
    OBVIOUS
  <2>4. /\ run'.library = dataset /\ run'.policy = p /\ run'.date = t
        /\ run' \in [at : {"running"}, library : SUBSET Rows, policy : Policies, date : Dates,
                     results : Seq(Results(RunIndex', p, t))]
    BY <2>1, <2>2, <2>3
  <2>5. edits = 0 => Succeeded(dataset)
    BY DEF SucceededInv
  <2> QED
    BY <2>1, <2>2, <2>4, <2>5 DEF RunInv
<1>4. CASE CalculateChunk
  <2>1. PICK r \in Results(RunIndex, run.policy, run.date) :
            run' = [run EXCEPT !.results = Append(run.results, r)]
    BY <1>4 DEF CalculateChunk
  <2>2. run.at = "running" /\ UNCHANGED edits
    BY <1>4 DEF CalculateChunk
  <2> DEFINE R == Results(RunIndex, run.policy, run.date)
  <2>3. run \in [at : {"running"}, library : SUBSET Rows, policy : Policies, date : Dates,
                 results : Seq(R)]
    BY <2>2 DEF RunInv
  <2> HIDE DEF R
  <2>4. Append(run.results, r) \in Seq(R)
    BY <2>1, <2>3 DEF R
  <2>5. /\ run'.library = run.library /\ run'.policy = run.policy /\ run'.date = run.date
        /\ run' \in [at : {"running"}, library : SUBSET Rows, policy : Policies, date : Dates,
                     results : Seq(R)]
    BY <2>1, <2>3, <2>4
  <2>6. RunIndex' = RunIndex
    BY <2>5 DEF RunIndex
  <2> QED
    BY <2>2, <2>5, <2>6 DEF RunInv, R
<1>5. CASE EndRun
  BY <1>5 DEF EndRun, NoRun, RunInv
<1>6. CASE UNCHANGED vars
  BY <1>2, <1>6 DEF vars
<1>7. ASSUME NEW i \in Importers, Import(i)
      PROVE  RunInv'
  BY <1>2, <1>7 DEF Import, Check, Insert, Scan, Supersede, Commit, Abort
<1>8. ASSUME NEW d \in dataset, NEW s \in Statuses, NEW p \in Priorities, AdminSave(d, s, p)
      PROVE  RunInv'
  BY <1>2, <1>8 DEF AdminSave
<1> QED
  BY <1>3, <1>4, <1>5, <1>6, <1>7, <1>8 DEF Next

LEMMA FactorInit == Init => FactorInv
<1> SUFFICES ASSUME Init
             PROVE  FactorInv
  OBVIOUS
<1>1. dataset = {} /\ clock = 0 /\ edits = 0 /\ run.at = "idle"
  BY DEF Init, NoRun
<1>2. DatasetInv
  BY <1>1, FS_EmptySet DEF DatasetInv, Sound
<1>3. importer \in [Importers -> Importing] /\ \A i \in Importers : ~Opened(i)
  BY IdleImporting DEF Init, Opened
<1>4. ImporterInv
  BY <1>3 DEF ImporterInv
<1>5. Active = {}
  BY <1>1 DEF Active
<1>6. \E m \in [Active -> Importers] : Activators(m)
  <2>1. PICK m : m \in [Active -> Importers]
    <3>1. [d \in {} |-> d] \in [{} -> Importers]
      OBVIOUS
    <3> QED
      BY <1>5, <3>1
  <2> QED
    BY <1>5, <2>1 DEF Activators
<1>7. ActivatorsInv /\ SucceededInv /\ RunInv
  BY <1>1, <1>6 DEF ActivatorsInv, SucceededInv, Succeeded, RunInv
<1> QED
  BY <1>1, <1>2, <1>4, <1>7 DEF FactorInv

LEMMA FactorCorrect == Spec => []FactorInv
<1>1. FactorInv /\ [Next]_vars => FactorInv'
  BY StepRows, StepActive, StepRun, EditsCount DEF FactorInv
<1> QED
  BY <1>1, FactorInit, PTL DEF Spec

\* Imports that overlap leave at most as many active datasets for one publisher
\* and region as there are processes, however many commands they run.
THEOREM ActiveTheorem == Spec => []ActiveBounded
<1>1. FactorInv => ActiveBounded
  <2> SUFFICES ASSUME FactorInv, edits = 0, NEW k
               PROVE  Cardinality({d \in Active : Key(d) = k}) <= Cardinality(Importers)
    BY DEF ActiveBounded
  <2>1. PICK m \in [Active -> Importers] : Activators(m)
    BY DEF FactorInv, ActivatorsInv
  <2> DEFINE S == {d \in Active : Key(d) = k}
             n == [d \in S |-> m[d]]
  <2>2. n \in [S -> Importers] /\ \A d, e \in S : n[d] = n[e] => d = e
    BY <2>1 DEF Activators
  <2> HIDE DEF S, n
  <2>3. n \in Injection(S, Importers)
    BY <2>2, Fun_IsInj
  <2>4. Cardinality(S) <= Cardinality(Importers)
    BY <2>3, ImportersAssumption, FS_Injection
  <2> QED
    BY <2>4 DEF S
<1> QED
  BY <1>1, FactorCorrect, PTL

\* What a dataset that was once activated serves, and each of its successors,
\* every later run finds a factor for.
THEOREM ResolvedTheorem == Spec => []ActivatedStaysResolved
<1>1. FactorInv => ActivatedStaysResolved
  <2> SUFFICES ASSUME FactorInv, edits = 0, run.at = "running", NEW d \in run.library,
                      d.status # "DRAFT", AlwaysServed(Key(d), run.policy, run.date),
                      NEW n \in 1..Len(run.results)
               PROVE  run.results[n].set # 0
    BY DEF ActivatedStaysResolved
  <2>1. /\ Sound(run.library) /\ Succeeded(run.library)
        /\ run.results \in Seq(Results(RunIndex, run.policy, run.date))
    BY DEF FactorInv, RunInv
  <2>2. PICK e \in run.library : e.status = "ACTIVE" /\ Key(e) = Key(d)
    BY <2>1 DEF Succeeded
  <2>3. Matches(Index(run.library), run.policy, run.date) # {}
    BY <2>1, <2>2, ServedByRow
  <2>4. run.results[n] \in Results(Index(run.library), run.policy, run.date)
    BY <2>1 DEF RunIndex
  <2> QED
    BY <2>1, <2>3, <2>4, ServedResults
<1> QED
  BY <1>1, FactorCorrect, PTL

\* One run resolves like activities alike, whatever imports and Admin do meanwhile
\* and however many datasets may serve them, for any files, regions and policies.
THEOREM RunsTheorem == Spec => []RunsAgree
<1>1. FactorInv => RunsAgree
  <2> SUFFICES ASSUME FactorInv, run.at = "running",
                      NEW m \in 1..Len(run.results), NEW n \in 1..Len(run.results)
               PROVE  run.results[m] = run.results[n]
    BY DEF RunsAgree
  <2>1. /\ Sound(run.library)
        /\ run.results \in Seq(Results(RunIndex, run.policy, run.date))
    BY DEF FactorInv, RunInv
  <2>2. /\ run.results[m] \in Results(Index(run.library), run.policy, run.date)
        /\ run.results[n] \in Results(Index(run.library), run.policy, run.date)
    BY <2>1 DEF RunIndex
  <2> QED
    BY <2>1, <2>2, ResultsAgree
<1> QED
  BY <1>1, FactorCorrect, PTL
=============================================================================
