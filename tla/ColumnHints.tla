----------------------------- MODULE ColumnHints -----------------------------
(***************************************************************************)
(* What a catalog read says of a column beyond its type: the epoch unit of *)
(* an integer column that holds a moment, and the shape of a text column   *)
(* that holds JSON (core's column-hints.ts, shared by every connector).    *)
(* A column is the bag of cells its probe reads; the hint is a pure        *)
(* function of them, checked for every column of the bounded contents.     *)
(* A moment's cells are magnitudes, one per power-of-ten bucket of         *)
(* bucketOf; a text's cells are parsed JSON values.                        *)
(***************************************************************************)
EXTENDS Naturals, Sequences, FiniteSets, FiniteSetsExt

CONSTANTS Keys,      \* the field-shaped keys of the JSON objects
          MaxCells,  \* the cells a probe reads (JSON_SAMPLE_ROWS)
          MaxKeys    \* JSON_MAX_KEYS

VARIABLES cells,     \* what the probe reads of the column
          nameKeys,  \* sampleColumnValues: cell values may be shown
          hint       \* the comment the catalog gets, NotProbed until the probe ran
hintVars == <<cells, nameKeys, hint>>

None == [none |-> TRUE]
NotProbed == [unread |-> TRUE]

(* Magnitudes in the order of their values; 0 stands for zero and below, 1 for a number too small  *)
(* to be a modern timestamp, 2..5 for seconds..nanoseconds, 6 for the "never expires" sentinel.    *)
Magnitudes == 0..6
Sentinel == 6
bucketOf(v) == IF v = 6 THEN 5 ELSE IF v >= 2 THEN v ELSE 0
\* Mutant: the unit read off the largest row alone, as the comment says it once was.
epochUnitOfMax(lo, hi) == IF lo = 0 THEN 0 ELSE bucketOf(hi)

epochUnitOf(lo, hi) ==
  LET top == IF hi = Sentinel THEN lo ELSE hi
  IN IF lo = 0 \/ bucketOf(lo) = 0 \/ bucketOf(lo) # bucketOf(top) THEN 0 ELSE bucketOf(lo)

(* The probe's aggregate: MIN and MAX, and no row is a column without a hint. *)
MomentHint(rows) ==
  IF rows = {} \/ epochUnitOf(Min(rows), Max(rows)) = 0 THEN None
  ELSE [unit |-> epochUnitOf(Min(rows), Max(rows))]

(* JSON cells: an object's key set, an array's element types, or text that does not parse (cut at  *)
(* HINT_VALUE_CAP included). A key that is no field name makes its object a map keyed by data.     *)
OddKey == "odd key"
JsonObjects == [keys : SUBSET (Keys \cup {OddKey})]
JsonArrays == [elements : SUBSET {"number", "string", "other"}]
RawText == [raw |-> TRUE]
IsObject(v) == v \in JsonObjects
IsArray(v) == v \in JsonArrays
Seen(vals, k) == Cardinality({i \in DOMAIN vals : k \in vals[i].keys})

(* needed = max(2, 40% of the parsed rows); fewer than three rows name nothing. *)
Recurs(vals, k) == Seen(vals, k) >= 2 /\ 10 * Seen(vals, k) >= 4 * Len(vals)
jsonShapeOf(vals) ==
  IF vals = <<>> \/ \E i \in DOMAIN vals : ~IsObject(vals[i]) \/ OddKey \in vals[i].keys THEN None
  ELSE LET stable == {k \in Keys : Recurs(vals, k)}
       IN [keys |-> IF Len(vals) >= 3 /\ Cardinality(stable) \in 2..MaxKeys THEN stable ELSE {}]

jsonArrayElementOf(vals) ==
  LET types == UNION {vals[i].elements : i \in DOMAIN vals}
  IN IF vals = <<>> \/ \E i \in DOMAIN vals : ~IsArray(vals[i]) THEN None
     ELSE IF \E t \in {"number", "string"} : types = {t} THEN [element |-> CHOOSE t \in types : TRUE]
     ELSE None

(* The key names ride the opt-in; without it the hint only counts them. *)
jsonHint(keys, named) == IF named THEN [names |-> keys] ELSE [count |-> Cardinality(keys)]

TextHint(vals, named) ==
  IF jsonShapeOf(vals) # None THEN jsonHint(jsonShapeOf(vals).keys, named)
  ELSE jsonArrayElementOf(vals)

ColumnCells == [moment : SUBSET Magnitudes] \cup [text : UNION {[1..n -> JsonObjects \cup JsonArrays \cup {RawText}] : n \in 0..MaxCells}]

HintInit == cells \in ColumnCells /\ nameKeys \in BOOLEAN /\ hint = NotProbed

(* One probe of one column; a probe that fails leaves the column as it was. *)
Describe ==
  /\ hint = NotProbed
  /\ hint' \in {None, IF "moment" \in DOMAIN cells THEN MomentHint(cells.moment) ELSE TextHint(cells.text, nameKeys)}
  /\ UNCHANGED <<cells, nameKeys>>

HintNext == Describe
HintSpec == HintInit /\ [][HintNext]_hintVars

-----------------------------------------------------------------------------
(* A hint tells the truth about every row the probe stood for, and gives no cell value away.       *)
(* A stated unit is the unit of every row (of a column without the sentinel); a named key recurs   *)
(* in the rows and is named under the opt-in only; a stated element type is that of every element. *)
HintsTrue ==
  /\ ("unit" \in DOMAIN hint /\ Sentinel \notin cells.moment)
       => \A v \in cells.moment : v = hint.unit
  /\ ("names" \in DOMAIN hint)
       => nameKeys /\ \A k \in hint.names : Cardinality({i \in DOMAIN cells.text : k \in cells.text[i].keys}) >= 2
  /\ ("element" \in DOMAIN hint)
       => \A i \in DOMAIN cells.text : cells.text[i].elements \subseteq {hint.element}

(* "A sentinel is not a moment; ignore it and judge by the rest of the range": the unit stated for *)
(* a column with sentinel rows is the unit of every other row.                                     *)
UnitOfTheRest ==
  ("unit" \in DOMAIN hint)
    => \A v \in cells.moment \ {Sentinel} : v = hint.unit
=============================================================================
