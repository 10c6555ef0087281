---------------------------- MODULE FactorLibrary ----------------------------
(***************************************************************************)
(* The library of emission factors: import_emission_factors commands that  *)
(* import and activate datasets, possibly at the same time, an Admin who   *)
(* edits them, and the calculation runs that load an index of the active   *)
(* factors and then resolve record after record against it.                *)
(*                                                                         *)
(* The database is PostgreSQL at READ COMMITTED: a statement sees what was *)
(* committed when it began; an UPDATE waits for rows that are locked and   *)
(* looks at them again.  There is one activity type; the regions and the   *)
(* unit conversions are reference data that no step changes.               *)
(***************************************************************************)
EXTENDS Integers, FiniteSets, Sequences, SequencesExt

CONSTANTS
    Importers,    \* processes that run the command
    Commands,     \* [publisher, version, region, file, activate, dryRun]
    Contents,     \* the factors in each file: [id, region, from, to, unit]
    Parent,       \* Region.parent: a region code, or None
    Conversions,  \* <<from, to>> of each UnitConversion
    Policies,     \* [region, publisher, strict] of each OrgFactorPolicy
    Dates,        \* when activities take place
    MaxImports,   \* commands run in all
    MaxEdits      \* Admin saves in all

VARIABLES
    dataset,   \* carbon_emissionfactordataset: the committed rows
    clock,     \* import_timestamp of the last row inserted
    importer,  \* what each process is doing
    imports,   \* commands run so far
    edits,     \* Admin saves so far
    run        \* the calculation run: its index, its policy, its results

vars == <<dataset, clock, importer, imports, edits, run>>

None     == "none"
Global   == "GLOBAL"
BaseUnit == "L"

ASSUME BoundAssumption     == MaxImports \in Nat /\ MaxEdits \in Nat
ASSUME ImportersAssumption == IsFiniteSet(Importers)
ASSUME CommandsAssumption  == \A c \in Commands : c.file \in DOMAIN Contents

\* A row of the file becomes one factor, with an id of its own.
ASSUME ContentsAssumption ==
    \A file \in DOMAIN Contents :
        /\ IsFiniteSet(Contents[file])
        /\ \A f, g \in Contents[file] : f.id \in Nat /\ (f.id = g.id => f = g)

ASSUME ParentAssumption ==
    /\ IsFiniteSet(DOMAIN Parent)
    /\ Parent \in [DOMAIN Parent -> DOMAIN Parent \cup {None}]

-----------------------------------------------------------------------------
Statuses == {"DRAFT", "ACTIVE", "SUPERSEDED", "ARCHIVED"}
Priorities == {100, 200}

IdleImporter == [at |-> "idle"]
NoRun == [at |-> "idle"]

Key(x) == <<x.publisher, x.region>>
Active == {d \in dataset : d.status = "ACTIVE"}

\* The importers that have an open transaction, but i.
Others(i) == {j \in Importers \ {i} : importer[j].at \in {"inserted", "scanned", "superseded"}}

-----------------------------------------------------------------------------
(***************************************************************************)
(* import_emission_factors                                                 *)
(***************************************************************************)

Same(d, c) == Key(d) = Key(c) /\ d.version = c.version

\* The file is read and the dataset looked up: one that is there already is
\* skipped if its checksum is the same, an error if not.
Check(i, c) ==
    /\ importer[i].at = "idle" /\ imports < MaxImports
    /\ imports' = imports + 1
    /\ importer' = IF \E d \in dataset : Same(d, c)
                   THEN importer
                   ELSE [importer EXCEPT ![i] = [at |-> "checked", cmd |-> c]]
    /\ UNCHANGED <<dataset, clock, edits, run>>

\* unique_dataset_publisher_version_region, which a NULL region escapes.
Collides(d, c) == c.region # None /\ Same(d, c)

\* The transaction begins: the DRAFT row and its factors are inserted, once no
\* other transaction is about to insert the same.
Insert(i) ==
    LET c == importer[i].cmd
    IN  /\ importer[i].at = "checked"
        /\ \A j \in Others(i) : ~Collides(importer[j].new, c)
        /\ IF \E d \in dataset : Collides(d, c)
           THEN importer' = [importer EXCEPT ![i] = IdleImporter] /\ UNCHANGED clock
           ELSE /\ clock' = clock + 1
                /\ importer' = [importer EXCEPT ![i] =
                     [at |-> "inserted", cmd |-> c, found |-> {},
                      new |-> [publisher |-> c.publisher, version |-> c.version,
                               region |-> c.region, file |-> c.file,
                               status |-> "DRAFT", priority |-> 100, time |-> clock + 1]]]
        /\ UNCHANGED <<dataset, imports, edits, run>>

\* (mutant) version=... in the filter as well: the old versions stay.
FoundSameVersion(c) == {d \in Active : Key(d) = Key(c) /\ d.version = c.version}

\* The active rows that the new one replaces.
Found(c) == {d \in Active : Key(d) = Key(c)}

\* UPDATE ... SET status = SUPERSEDED: its snapshot ...
Scan(i) ==
    /\ importer[i].at = "inserted" /\ importer[i].cmd.activate
    /\ importer' = [importer EXCEPT ![i].at = "scanned", ![i].found = Found(importer[i].cmd)]
    /\ UNCHANGED <<dataset, clock, imports, edits, run>>

Locked(j) == IF importer[j].at = "superseded" THEN importer[j].found ELSE {}

\* (mutant) Autocommit: the UPDATE is there for all to see before the new row is.
SupersedeAtOnce(i) ==
    /\ importer[i].at = "scanned"
    /\ \A j \in Others(i) : Locked(j) \cap importer[i].found = {}
    /\ dataset' = (dataset \ importer[i].found)
                  \cup {[d EXCEPT !.status = "SUPERSEDED"] : d \in importer[i].found \cap Active}
    /\ importer' = [importer EXCEPT ![i].at = "superseded", ![i].found = {}]
    /\ UNCHANGED <<clock, imports, edits, run>>

\* ... and its effect, uncommitted, on those of them that are still active and
\* whose locks are free.
Supersede(i) ==
    /\ importer[i].at = "scanned"
    /\ \A j \in Others(i) : Locked(j) \cap importer[i].found = {}
    /\ importer' = [importer EXCEPT ![i].at = "superseded", ![i].found = @ \cap Active]
    /\ UNCHANGED <<dataset, clock, imports, edits, run>>

\* The new row is ACTIVE if asked for, and all is committed; --dry-run rolls back.
Commit(i) ==
    LET c == importer[i].cmd
    IN  /\ \/ importer[i].at = "superseded"
           \/ importer[i].at = "inserted" /\ ~c.activate
        /\ dataset' =
             IF c.dryRun THEN dataset
             ELSE (dataset \ importer[i].found)
                  \cup {[d EXCEPT !.status = "SUPERSEDED"] : d \in importer[i].found}
                  \cup {[importer[i].new EXCEPT !.status = IF c.activate THEN "ACTIVE" ELSE @]}
        /\ importer' = [importer EXCEPT ![i] = IdleImporter]
        /\ UNCHANGED <<clock, imports, edits, run>>

\* No rows, an unknown activity type, a deadlock, a crash: rolled back.
Abort(i) ==
    /\ importer[i].at # "idle"
    /\ importer' = [importer EXCEPT ![i] = IdleImporter]
    /\ UNCHANGED <<dataset, clock, imports, edits, run>>

-----------------------------------------------------------------------------
(***************************************************************************)
(* EmissionFactorDatasetAdmin                                              *)
(***************************************************************************)

\* A form is saved.  _assert_active_immutability() lets the status of an active
\* row be changed, and nothing else of it.
AdminSave(d, status, priority) ==
    /\ edits < MaxEdits /\ edits' = edits + 1
    /\ \A j \in Importers : d \notin Locked(j)
    /\ d.status = "ACTIVE" => priority = d.priority
    /\ dataset' = (dataset \ {d}) \cup {[d EXCEPT !.status = status, !.priority = priority]}
    /\ UNCHANGED <<clock, importer, imports, run>>

-----------------------------------------------------------------------------
(***************************************************************************)
(* FactorIndex and UnitConverter                                           *)
(***************************************************************************)

\* What FactorIndex() loads: the factors of the active datasets, by dataset.
Index(datasets) ==
    UNION {{[set |-> d, factor |-> f] : f \in Contents[d.file]}
             : d \in {x \in datasets : x.status = "ACTIVE"}}

\* The importer has given a factor without a region that of its dataset.
RegionCode(e) ==
    CASE e.factor.region # None -> e.factor.region
      [] e.set.region # None    -> e.set.region
      [] OTHER                  -> Global

\* One region up; a cycle of parents ends the walk.
Climb(chain) ==
    LET last == Last(chain)
        up   == IF last \in DOMAIN Parent THEN Parent[last] ELSE None
    IN  IF up = None \/ up \in ToSet(chain) THEN chain ELSE Append(chain, up)

\* The region, its ancestors, GLOBAL.
RankChain(region) ==
    LET walk[n \in 0..Cardinality(DOMAIN Parent)] ==
            IF n = 0 THEN <<region>> ELSE Climb(walk[n - 1])
        chain == walk[Cardinality(DOMAIN Parent)]
    IN  IF Global \in ToSet(chain) THEN chain ELSE Append(chain, Global)

RegionRank(e, region) ==
    IF region = None THEN IF RegionCode(e) = Global THEN 1 ELSE 0
    ELSE CHOOSE n \in 1..Len(RankChain(region)) : RankChain(region)[n] = RegionCode(e)

\* The factors that may serve an activity of this date under this policy.
Matches(index, policy, date) ==
    {e \in index :
        /\ date \in e.factor.from..e.factor.to
        /\ policy.region # None => RegionCode(e) \in ToSet(RankChain(policy.region))
        /\ ~(policy.strict /\ policy.region # None /\ RegionCode(e) = Global)}

PublisherRank(e, policy) ==
    IF policy.publisher # None /\ e.set.publisher = policy.publisher THEN 0 ELSE 1

SortKey(e, policy) == <<PublisherRank(e, policy), RegionRank(e, policy.region),
                        -e.set.priority, -e.set.time, e.factor.id>>

\* (mutant) Neither import_timestamp nor id in the key.
SmallerUpToPriority(k, m) == \E n \in 1..3 : k[n] < m[n] /\ \A p \in 1..n-1 : k[p] = m[p]

\* The order of tuples.
Smaller(k, m) == \E n \in 1..5 : k[n] < m[n] /\ \A p \in 1..n-1 : k[p] = m[p]

\* The factors that matches.sort() may put first.
Best(index, policy, date) ==
    LET found == Matches(index, policy, date)
    IN  {e \in found : \A o \in found : ~Smaller(SortKey(o, policy), SortKey(e, policy))}

Convertible(unit) ==
    unit = BaseUnit \/ <<BaseUnit, unit>> \in Conversions \/ <<unit, BaseUnit>> \in Conversions

-----------------------------------------------------------------------------
(***************************************************************************)
(* backfill_calculations and calculate_for_batch()                         *)
(***************************************************************************)

\* calculate_one(), to_calculation(): a failed conversion is unresolved and has
\* its factor all the same.
Results(index, policy, date) ==
    LET best == Best(index, policy, date)
    IN  IF best = {} THEN {[status |-> "UNRESOLVED_NO_FACTOR", set |-> 0, factor |-> 0]}
        ELSE {[status |-> IF Convertible(e.factor.unit) THEN "CALCULATED"
                                                        ELSE "UNRESOLVED_NO_FACTOR",
               set |-> e.set.time, factor |-> e.factor.id] : e \in best}

\* build_resources(): the index and the policy that the whole run uses.
BeginRun(policy, date) ==
    /\ run.at = "idle"
    /\ run' = [at |-> "running", library |-> dataset, policy |-> policy, date |-> date,
               results |-> <<>>]
    /\ UNCHANGED <<dataset, clock, importer, imports, edits>>

RunIndex == Index(run.library)

\* One chunk of records is resolved and committed; their activities are alike.
CalculateChunk ==
    /\ run.at = "running" /\ Len(run.results) < 2
    /\ \E r \in Results(RunIndex, run.policy, run.date) :
          run' = [run EXCEPT !.results = Append(@, r)]
    /\ UNCHANGED <<dataset, clock, importer, imports, edits>>

EndRun ==
    /\ run.at = "running" /\ Len(run.results) = 2
    /\ run' = NoRun
    /\ UNCHANGED <<dataset, clock, importer, imports, edits>>

-----------------------------------------------------------------------------
Init ==
    /\ dataset = {} /\ clock = 0
    /\ importer = [i \in Importers |-> IdleImporter]
    /\ imports = 0 /\ edits = 0
    /\ run = NoRun

Import(i) ==
    \/ \E c \in Commands : Check(i, c)
    \/ Insert(i) \/ Scan(i) \/ Supersede(i) \/ Commit(i) \/ Abort(i)

Next ==
    \/ \E i \in Importers : Import(i)
    \/ \E d \in dataset, s \in Statuses, p \in Priorities : AdminSave(d, s, p)
    \/ \E p \in Policies, t \in Dates : BeginRun(p, t)
    \/ CalculateChunk \/ EndRun

Spec == Init /\ [][Next]_vars

-----------------------------------------------------------------------------
(***************************************************************************)
(* Properties                                                              *)
(***************************************************************************)

\* Commands that overlap may leave several active datasets for one publisher and
\* region, for none sees the row the other is about to activate, but never more
\* than there are processes: whoever imports next supersedes them all.
ActiveBounded ==
    edits = 0 => \A k \in {Key(d) : d \in Active} :
                    Cardinality({d \in Active : Key(d) = k}) <= Cardinality(Importers)

\* Every file that a command may import for this key has a factor for the activity.
AlwaysServed(key, policy, date) ==
    \A c \in Commands : Key(c) = key =>
        Matches(Index({[publisher |-> c.publisher, region |-> c.region, file |-> c.file,
                        status |-> "ACTIVE", priority |-> 100, time |-> 1]}), policy, date) # {}

\* Once a dataset has been activated, an activity that it and all its successors
\* have factors for finds one in every run: no crash, dry run or race of imports
\* leaves a moment without an active dataset.
ActivatedStaysResolved ==
    (edits = 0 /\ run.at = "running") =>
        \A d \in run.library :
            (d.status # "DRAFT" /\ AlwaysServed(Key(d), run.policy, run.date))
              => \A n \in 1..Len(run.results) : run.results[n].set # 0

\* The records of one run are resolved alike, though imports and Admin change the
\* library between its chunks, and though several active datasets may serve them.
RunsAgree ==
    run.at = "running" =>
        \A m, n \in 1..Len(run.results) : run.results[m] = run.results[n]
=============================================================================
