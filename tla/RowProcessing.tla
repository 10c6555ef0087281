---------------------------- MODULE RowProcessing ----------------------------
(***************************************************************************)
(* What becomes of the rows of one file: parser, RowValidator and          *)
(* NormalizationService row by row, the insert of them all, and the        *)
(* calculation that reads the stored payloads again.                       *)
(*                                                                         *)
(* A cell is what the parser makes of its text.  Dates are days from today *)
(* on, values are in thousandths of the base unit.                         *)
(***************************************************************************)
EXTENDS Integers, FiniteSets, Sequences, Functions, FiniteSetsExt

CONSTANTS
    Sources,    \* the source types in use, a subset of AllSources
    Rows,       \* by source, the rows that a file may hold
    MaxRows,    \* rows per file
    ValueLimit, \* the first value that does not fit normalized_value
    Mappings,   \* ActivityMapping: [source, key, type]
    Factors     \* by activity type, the factor: [from, to, rate]

VARIABLES
    source,  \* DataSource.source_type
    file,    \* the rows
    at,      \* "parsing", "rows", "aborted", "stored", "calculated" or "uncalculated"
    done,    \* the last row with a record
    errors,  \* parse_errors: how many rows the parser could not represent
    records, \* the EmissionRecords made of those it could
    calcs    \* the EmissionCalculations of the records

vars == <<source, file, at, done, errors, records, calcs>>

AllSources == {"SAP_FUEL", "UTILITY_ELECTRICITY", "CORP_TRAVEL"}
None == "none"
\* No date: later than any day.
NoDate == 100000

ASSUME SourcesAssumption == Sources \subseteq AllSources /\ DOMAIN Rows = Sources
ASSUME BoundAssumption   == {MaxRows, ValueLimit} \subseteq Nat \ {0}
ASSUME FactorsAssumption == \A type \in DOMAIN Factors : Factors[type].rate \in Int

-----------------------------------------------------------------------------
(***************************************************************************)
(* Quantities: what float() may return, or nothing                         *)
(***************************************************************************)
NoQuantity  == [is |-> "none", n |-> 0]
NaN         == [is |-> "nan", n |-> 0]
Number(n)   == [is |-> "number", n |-> n]
\* Larger than five times the mean of whatever a file may hold.
Infinity    == [is |-> "infinite", n |-> 100000000]

\* Comparisons with NaN are false.
Ordered(q)     == q.is \in {"number", "infinite"}
IsPositive(q)  == Ordered(q) /\ q.n > 0
IsNegative(q)  == Ordered(q) /\ q.n < 0
IsZero(q)      == q = Number(0)

IsQuantity(q) == q \in [is : {"number", "infinite"}, n : Int] \cup {NoQuantity, NaN}

\* What parse() does with a row: a ParsedRow, an entry of parse_errors, nothing,
\* or an exception (a surplus cell after blank ones, an integer float() cannot
\* hold, a byte that is not UTF-8).
Reads == {"row", "error", "blank", "raises"}

\* payload: jsonb takes the row as it is, with no NaN, Infinity or NUL in any cell.
ASSUME RowsAssumption ==
    \A src \in Sources : \A row \in Rows[src] :
        row.read \in Reads /\ row.payload \in BOOLEAN /\ IsQuantity(row.quantity)

-----------------------------------------------------------------------------
(***************************************************************************)
(* The parsers: a row is [read, payload, quantity, unit, date, end, site,  *)
(* mode, class, airports, dateHeader, modeHeader]                          *)
(***************************************************************************)

\* _resolve_distance(): a distance that is no use is derived from the airports.
Distance(row) ==
    CASE IsPositive(row.quantity) -> row.quantity
      [] ~IsPositive(row.quantity) /\ row.mode = "FLIGHT" /\ row.airports -> Number(5500)
      [] OTHER -> NoQuantity

Quantity(src, row) == IF src = "CORP_TRAVEL" THEN Distance(row) ELSE row.quantity

\* _resolve_energy(): the unit of the column that holds a number.
Unit(src, row) ==
    CASE src = "SAP_FUEL" -> row.unit
      [] src = "UTILITY_ELECTRICITY" -> IF row.quantity = NoQuantity THEN None ELSE row.unit
      [] OTHER -> "km"

Derived(src, row) == src = "CORP_TRAVEL" /\ ~IsPositive(row.quantity) /\ Distance(row) # NoQuantity

-----------------------------------------------------------------------------
(***************************************************************************)
(* RowValidator                                                            *)
(***************************************************************************)
VALID_SAP_UNITS    == {"L", "LTR", "M3", "KG", "T", "GAL", "MMBTU", "MJ", "GJ"}
VALID_TRAVEL_MODES == {"FLIGHT", "RAIL", "CAR_RENTAL", "TAXI", "HOTEL", "FERRY", "BUS"}
SUSPICIOUS_DATE_AGE_DAYS == 400

\* The period of a bill, if both of its ends are there.
Dated(row)  == row.date # NoDate /\ row.end # NoDate

FailedSap(row) ==
    \/ row.quantity = NoQuantity \/ IsZero(row.quantity) \/ IsNegative(row.quantity)
    \/ row.unit \notin VALID_SAP_UNITS

FailedUtility(row) ==
    \/ row.quantity = NoQuantity \/ IsNegative(row.quantity)
    \/ Dated(row) /\ row.end < row.date

FailedTravel(row) == row.mode \notin VALID_TRAVEL_MODES \/ Distance(row) = NoQuantity

SuspectSap(row) ==
    \/ row.date = NoDate
    \/ row.date # NoDate /\ (row.date > 0 \/ -row.date > SUSPICIOUS_DATE_AGE_DAYS)
    \/ ~row.site \/ row.mode = None

SuspectUtility(row) ==
    \/ IsZero(row.quantity) \/ row.date = NoDate \/ ~row.site
    \/ Dated(row) /\ row.end - row.date > 35

SuspectTravel(row) ==
    \/ row.mode = "FLIGHT" /\ Ordered(Distance(row)) /\ Distance(row).n > 20000
    \/ Derived("CORP_TRAVEL", row) \/ row.date = NoDate \/ ~row.site

\* parsed_rows
Parsed(rows) == {n \in DOMAIN rows : rows[n].read = "row"}

\* The rows with a positive quantity, in the order of their quantities.
Positive(src, rows) == {n \in Parsed(rows) : Quantity(src, rows[n]).n > 0}
InOrder(src, rows, places) ==
    \A i, j \in DOMAIN places :
        i < j => Quantity(src, rows[places[i]]).n <= Quantity(src, rows[places[j]]).n

\* The positive quantities of the file, in order.
Baseline(src, rows) ==
    LET size   == Cardinality(Positive(src, rows))
        places == CHOOSE p \in Bijection(1..size, Positive(src, rows)) : InOrder(src, rows, p)
    IN  [i \in 1..size |-> Quantity(src, rows[places[i]]).n]

\* (mutant) The smallest quantity instead of the median.
TwiceMinimum(src, rows) == 2 * Baseline(src, rows)[1]

\* statistics.median(), doubled.
TwiceMedian(src, rows) ==
    LET b == Baseline(src, rows)
        h == Len(b) \div 2
    IN  IF Len(b) % 2 = 1 THEN 2 * b[h + 1] ELSE b[h] + b[h + 1]

IsOutlier(src, rows, q) ==
    /\ Ordered(q) /\ Len(Baseline(src, rows)) > 0
    /\ 2 * q.n > 5 * TwiceMedian(src, rows)

IsFailed(src, row) ==
    CASE src = "SAP_FUEL"            -> FailedSap(row)
      [] src = "UTILITY_ELECTRICITY" -> FailedUtility(row)
      [] src = "CORP_TRAVEL"         -> FailedTravel(row)

IsSuspicious(src, rows, row) ==
    \/ src = "SAP_FUEL" /\ SuspectSap(row)
    \/ src = "UTILITY_ELECTRICITY" /\ SuspectUtility(row)
    \/ src = "CORP_TRAVEL" /\ SuspectTravel(row)
    \/ IsOutlier(src, rows, Quantity(src, row))

-----------------------------------------------------------------------------
(***************************************************************************)
(* NormalizationService                                                    *)
(***************************************************************************)

\* In thousandths; units that are all alike here are left out.
SAP_TO_LITERS  == [L |-> 1000, LTR |-> 1000, M3 |-> 1000000, KG |-> 1163, T |-> 1163000,
                   GAL |-> 3785, MMBTU |-> 28317, GJ |-> 26137, MJ |-> 26]
UTILITY_TO_KWH == [kWh |-> 1000, MWh |-> 1000000]
FLIGHT_CLASS_MULTIPLIERS == [ECONOMY |-> 1000, PREMIUM |-> 1600, BUSINESS |-> 2900, FIRST |-> 4000]

\* A bill has its energy in one of two columns.
ASSUME UnitsAssumption ==
    "UTILITY_ELECTRICITY" \in Sources =>
        \A row \in Rows["UTILITY_ELECTRICITY"] : row.unit \in DOMAIN UTILITY_TO_KWH

\* (mutant) The table keyed by lower-case units.
ConversionByLowerCase(src, row) ==
    CASE src = "SAP_FUEL" /\ row.unit \in DOMAIN SAP_TO_LITERS -> SAP_TO_LITERS[row.unit]
      [] src = "UTILITY_ELECTRICITY" /\ row.unit = "kWh" -> 1000
      [] src = "CORP_TRAVEL" -> 1000
      [] OTHER -> 0

\* What the quantity is multiplied by; 0 if the unit is not known.
Conversion(src, row) ==
    CASE src = "SAP_FUEL" /\ row.unit \in DOMAIN SAP_TO_LITERS -> SAP_TO_LITERS[row.unit]
      [] src = "UTILITY_ELECTRICITY" /\ Unit(src, row) \in DOMAIN UTILITY_TO_KWH
           -> UTILITY_TO_KWH[Unit(src, row)]
      [] src = "CORP_TRAVEL" ->
           IF row.mode = "FLIGHT" /\ row.class \in DOMAIN FLIGHT_CLASS_MULTIPLIERS
           THEN FLIGHT_CLASS_MULTIPLIERS[row.class] ELSE 1000
      [] OTHER -> 0

Normalizes(src, row) == Quantity(src, row) # NoQuantity /\ Conversion(src, row) # 0

Scope(src) == CASE src = "SAP_FUEL" -> 1 [] src = "UTILITY_ELECTRICITY" -> 2 [] OTHER -> 3

-----------------------------------------------------------------------------
(***************************************************************************)
(* IngestionService.ingest_batch, step 4 to 6                              *)
(***************************************************************************)
\* The loop over parsed_rows has these before it.
Left == {n \in Parsed(file) : n > done}
Row  == file[Min(Left)]

\* parser.parse() goes through the whole file first; what it raises ends the batch.
Parse ==
    /\ at = "parsing"
    /\ IF \E n \in DOMAIN file : file[n].read = "raises"
       THEN at' = "aborted" /\ UNCHANGED errors
       ELSE at' = "rows" /\ errors' = Cardinality({n \in DOMAIN file : file[n].read = "error"})
    /\ UNCHANGED <<source, file, done, records, calcs>>

\* (mutant) Normalized before it is validated, whatever it is.
QuantizesAll == Quantity(source, Row).is \notin {"infinite", "none"}

\* quantize() of an infinite value raises; a number, or NaN, does not.
Quantizes == IsFailed(source, Row) \/ Quantity(source, Row).is # "infinite"

\* norm_value
Value(row) ==
    LET q == Quantity(source, row)
    IN  IF q.is = "nan" THEN NaN ELSE Number(q.n * Conversion(source, row))

\* The record made of row n.
RecordOf(n) ==
    LET passes == ~IsFailed(source, file[n]) /\ Normalizes(source, file[n])
    IN  [row    |-> n,
         status |-> CASE ~passes -> "FAILED"
                      [] passes /\ IsSuspicious(source, file, file[n]) -> "SUSPICIOUS"
                      [] OTHER -> "DRAFT",
         value  |-> IF passes THEN Value(file[n]) ELSE NoQuantity,
         scope  |-> IF passes THEN Scope(source) ELSE 0]

MakeRecord ==
    /\ at = "rows" /\ Left # {} /\ Quantizes
    /\ records' = Append(records, RecordOf(Min(Left)))
    /\ done' = Min(Left)
    /\ UNCHANGED <<source, file, at, errors, calcs>>

\* The exception ends the loop and the whole batch.
NormalizeRaises ==
    /\ at = "rows" /\ Left # {} /\ ~Quantizes
    /\ at' = "aborted" /\ records' = <<>>
    /\ UNCHANGED <<source, file, done, errors, calcs>>

\* A payload that jsonb takes, and a finite value of at most 20 digits.
Storable(r) ==
    /\ file[r.row].payload
    /\ r.value.is # "nan" /\ r.value.n < ValueLimit

\* bulk_create(): one row that the database refuses, and none is stored.
StoreRecords ==
    /\ at = "rows" /\ Left = {}
    /\ IF \A n \in DOMAIN records : Storable(records[n])
       THEN at' = "stored" /\ UNCHANGED records
       ELSE at' = "aborted" /\ records' = <<>>
    /\ UNCHANGED <<source, file, done, errors, calcs>>

FailedRows == errors + Cardinality({n \in DOMAIN records : records[n].status = "FAILED"})

BatchStatus == CASE at = "aborted" -> "FAILED"
                 [] at # "aborted" /\ FailedRows > 0 -> "PARTIALLY_COMPLETED"
                 [] OTHER -> "COMPLETED"

-----------------------------------------------------------------------------
(***************************************************************************)
(* activity_input_from_record() and the stages of the calculation          *)
(***************************************************************************)
DateKeys  == {"buchungsdatum", "posting_date", "travel_date", "billing period start",
              "billing_period_start", "period_start", "start date", "date"}
MatchKeys == {"material", "material_code", "travel_mode", "mode"}

\* extract_activity_date(), extract_match_keys()
ActivityDate(row) == IF row.dateHeader \in DateKeys THEN row.date ELSE NoDate
KeyOf(row)        == IF row.modeHeader \in MatchKeys THEN row.mode ELSE None

Mapped(key) == {m \in Mappings : m.source = source /\ m.key = key}

\* ActivityTypeResolver.resolve(): the key, then the default of the source.
ActivityType(row) ==
    CASE Mapped(KeyOf(row)) # {} -> (CHOOSE m \in Mapped(KeyOf(row)) : TRUE).type
      [] Mapped(KeyOf(row)) = {} /\ Mapped(None) # {} -> (CHOOSE m \in Mapped(None) : TRUE).type
      [] OTHER -> None

\* A record without a date is served by the factor of any time.
HasFactor(type, date) ==
    type \in DOMAIN Factors /\ (date # NoDate => date \in Factors[type].from..Factors[type].to)

Calculation(r) ==
    LET type == ActivityType(file[r.row])
        date == ActivityDate(file[r.row])
        status == CASE r.status = "FAILED" -> "EXCLUDED_FAILED"
                    [] r.status # "FAILED" /\ type = None -> "UNRESOLVED_NO_ACTIVITY_TYPE"
                    [] r.status # "FAILED" /\ type # None /\ ~HasFactor(type, date)
                         -> "UNRESOLVED_NO_FACTOR"
                    [] OTHER -> "CALCULATED"
    IN  [row |-> r.row, date |-> date, scope |-> r.scope, status |-> status,
         co2e |-> IF status = "CALCULATED" THEN r.value.n * Factors[type].rate ELSE 0]

\* bulk_create(): all or none.
Calculate ==
    LET made == [n \in DOMAIN records |-> Calculation(records[n])]
    IN  /\ at = "stored"
        /\ IF \A n \in DOMAIN made : made[n].co2e < ValueLimit
           THEN at' = "calculated" /\ calcs' = made
           ELSE at' = "uncalculated" /\ UNCHANGED calcs
        /\ UNCHANGED <<source, file, done, errors, records>>

-----------------------------------------------------------------------------
(***************************************************************************)
(* MetricsService                                                          *)
(***************************************************************************)
SumOf(ns) == MapThenSumSet(LAMBDA n : calcs[n].co2e, ns)

Calculated == {n \in DOMAIN calcs : calcs[n].status = "CALCULATED"}

\* summary(): the total, and by scope.
Total          == SumOf(Calculated)
TotalBy(scope) == SumOf({n \in Calculated : calcs[n].scope = scope})

\* timeseries(): reporting_date__isnull=False.
Series == SumOf({n \in Calculated : calcs[n].date # NoDate})

-----------------------------------------------------------------------------
Init ==
    /\ source \in Sources
    /\ file \in UNION {[1..n -> Rows[source]] : n \in 1..MaxRows}
    /\ at = "parsing" /\ done = 0 /\ errors = 0
    /\ records = <<>> /\ calcs = <<>>

Next == Parse \/ MakeRecord \/ NormalizeRaises \/ StoreRecords \/ Calculate

Spec == Init /\ [][Next]_vars

-----------------------------------------------------------------------------
(***************************************************************************)
(* Properties                                                              *)
(***************************************************************************)

\* Its value is a number that the column holds.
Fits(row) ==
    LET q == Quantity(source, row)
    IN  q.is = "number" /\ q.n * Conversion(source, row) < ValueLimit

\* A row the parser raises on, one that jsonb refuses, valid or not, and one whose
\* value passes validation and does not fit.
Spoils(row) ==
    \/ row.read = "raises"
    \/ row.read = "row" /\ (~row.payload \/ (~IsFailed(source, row) /\ ~Fits(row)))

\* The rows go in together: a row that spoils the file takes all of them with it,
\* wherever it stands, and nothing else does; rows the parser reports or passes
\* over, and rows that fail validation, leave the others alone.  README.md:41 says
\* that no bad row whatever aborts a batch.
BadRowIsolated ==
    /\ BatchStatus = "FAILED" => \E n \in DOMAIN file : Spoils(file[n])
    /\ at \in {"stored", "calculated", "uncalculated"} => \A n \in DOMAIN file : ~Spoils(file[n])

\* Whatever the quantities, the rows flagged as outliers are at most half of those
\* with a positive quantity: the median cannot be dragged along by them.
OutliersAreFew ==
    at # "parsing" =>
        2 * Cardinality({n \in Parsed(file) : IsOutlier(source, file, Quantity(source, file[n]))})
          <= Len(Baseline(source, file))

\* Validator, normalizer, calculation and metrics agree on every row: what passes
\* validation is normalized, what does not is excluded and adds nothing, no row is
\* lost between file and dashboard, and total, scopes and months say the same but
\* for the rows whose date the calculation does not find.
RowsAccountedFor ==
    /\ at \in {"stored", "calculated", "uncalculated"} =>
          Len(records) + errors = Cardinality({n \in DOMAIN file : file[n].read # "blank"})
    /\ \A n \in DOMAIN records :
          records[n].status = "FAILED" <=> IsFailed(source, file[records[n].row])
    /\ at = "calculated" =>
          /\ \A n \in DOMAIN calcs :
                calcs[n].status = "EXCLUDED_FAILED" <=> records[n].value = NoQuantity
          /\ Total = TotalBy(1) + TotalBy(2) + TotalBy(3)
          /\ Total # Series => \E n \in DOMAIN calcs : calcs[n].date = NoDate
=============================================================================
