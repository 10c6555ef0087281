--------------------------- MODULE MCRowProcessing ---------------------------
\* Rows that differ from a good one in a few cells each, for each source.
EXTENDS RowProcessing

Good(src) ==
    [read |-> "row", payload |-> TRUE, quantity |-> Number(2), date |-> -30, end |-> NoDate, site |-> TRUE,
     class |-> "ECONOMY", airports |-> FALSE,
     unit       |-> CASE src = "SAP_FUEL" -> "L" [] src = "UTILITY_ELECTRICITY" -> "kWh" [] OTHER -> "km",
     mode       |-> CASE src = "SAP_FUEL" -> "GAS" [] src = "UTILITY_ELECTRICITY" -> "ELECTRICITY" [] OTHER -> "RAIL",
     dateHeader |-> CASE src = "SAP_FUEL" -> "buchungsdatum" [] src = "UTILITY_ELECTRICITY" -> "start date" [] OTHER -> "travel_date",
     modeHeader |-> CASE src = "SAP_FUEL" -> "material" [] src = "UTILITY_ELECTRICITY" -> None [] OTHER -> "travel_mode"]

Amounts == {NoQuantity, NaN, Infinity, Number(-3), Number(0), Number(1), Number(4), Number(30), Number(25000)}

\* Any source: the quantity, the date, the site, what the parser and jsonb refuse.
Common(src) ==
    {[Good(src) EXCEPT !.quantity = q] : q \in Amounts}
    \cup {[Good(src) EXCEPT !.date = d] : d \in {NoDate, -500, 5}}
    \cup {[Good(src) EXCEPT !.site = FALSE]}
    \cup {[Good(src) EXCEPT !.read = r] :
             r \in {"error", "raises"} \cup (IF src = "CORP_TRAVEL" THEN {} ELSE {"blank"})}
    \cup {[Good(src) EXCEPT !.payload = FALSE, !.quantity = q] : q \in {Number(2), NoQuantity}}
    \cup {[Good(src) EXCEPT !.payload = FALSE, !.read = "error"]}

MCRows ==
    LET G(src) == Good(src) IN
    [SAP_FUEL |-> Common("SAP_FUEL")
        \cup {[G("SAP_FUEL") EXCEPT !.unit = u] : u \in {"M3", "T", "barrel", ""}}
        \cup {[G("SAP_FUEL") EXCEPT !.dateHeader = "posting date"],
              [G("SAP_FUEL") EXCEPT !.modeHeader = "material code"],
              [G("SAP_FUEL") EXCEPT !.mode = None],
              [G("SAP_FUEL") EXCEPT !.unit = "T", !.quantity = Number(1000)]},
     UTILITY_ELECTRICITY |-> Common("UTILITY_ELECTRICITY")
        \cup {[G("UTILITY_ELECTRICITY") EXCEPT !.end = e] : e \in {-31, -1, 20}}
        \cup {[G("UTILITY_ELECTRICITY") EXCEPT !.unit = "MWh"],
              [G("UTILITY_ELECTRICITY") EXCEPT !.dateHeader = "period start"]},
     CORP_TRAVEL |-> Common("CORP_TRAVEL")
        \cup {[G("CORP_TRAVEL") EXCEPT !.mode = m] : m \in {"HOTEL", "ROCKET", None}}
        \cup {[G("CORP_TRAVEL") EXCEPT !.mode = "FLIGHT", !.class = "BUSINESS", !.airports = a, !.quantity = q] :
                 a \in BOOLEAN, q \in {NoQuantity, NaN, Number(300), Number(25000)}}
        \cup {[G("CORP_TRAVEL") EXCEPT !.mode = "FLIGHT", !.class = "COACH", !.quantity = Number(300)]}]

MCMappings ==
    {[source |-> "SAP_FUEL", key |-> None, type |-> "DIESEL"],
     [source |-> "SAP_FUEL", key |-> "GAS", type |-> "NATURAL_GAS"],
     [source |-> "UTILITY_ELECTRICITY", key |-> None, type |-> "GRID"],
     [source |-> "CORP_TRAVEL", key |-> "FLIGHT", type |-> "FLIGHT"],
     [source |-> "CORP_TRAVEL", key |-> "RAIL", type |-> "RAIL_NATIONAL"]}

MCFactors ==
    [DIESEL      |-> [from |-> -400, to |-> 0, rate |-> 3],
     NATURAL_GAS |-> [from |-> -400, to |-> 0, rate |-> 1],
     GRID        |-> [from |-> -20, to |-> 0, rate |-> 1],
     FLIGHT      |-> [from |-> -400, to |-> 0, rate |-> 2]]
=============================================================================
