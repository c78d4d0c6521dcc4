------------------------------ MODULE Calibration ------------------------------
(***************************************************************************)
(* common/calibration.py: the functions a calibration config can name.     *)
(* Numbers are integers in a unit that is fine enough for the              *)
(* interpolations of the tables in use; a table is a sequence of points    *)
(* [raw, cal], in the order its author wrote them.                         *)
(***************************************************************************)
EXTENDS Integers, Sequences, FiniteSets

Identity(value) == value

OffsetScale(value, params) == value * params.scale + params.offset

\* Points sort by raw and, where raw is the same, by calibrated.
Before(p, q) == p.raw < q.raw \/ (p.raw = q.raw /\ p.cal < q.cal)

Interpolate(value, low, high) ==
    IF low.raw = high.raw THEN low.cal
    ELSE low.cal + ((value - low.raw) * (high.cal - low.cal)) \div (high.raw - low.raw)

\* Level outside the first and the last point; else the first two neighbours the
\* value lies between.
Scan(value, table) ==
    LET last == Len(table)
        holds(i) == table[i].raw <= value /\ value <= table[i + 1].raw
        pairs == {i \in 1 .. last - 1 : holds(i)}
        first == CHOOSE i \in pairs : \A j \in pairs : i <= j
    IN
    IF last = 1 \/ value <= table[1].raw THEN table[1].cal
    ELSE IF value >= table[last].raw \/ pairs = {} THEN table[last].cal
    ELSE Interpolate(value, table[first], table[first + 1])

\* sorted(), which is stable: a point's place is the number of those that go before it.
GoesBefore(points, i, j) ==
    Before(points[i], points[j]) \/ (~ Before(points[j], points[i]) /\ i < j)

Rank(points, i) == Cardinality({j \in DOMAIN points : GoesBefore(points, j, i)}) + 1

Sorted(points) ==
    [k \in DOMAIN points |-> points[CHOOSE i \in DOMAIN points : Rank(points, i) = k]]

LookupTable(value, points) == Scan(value, Sorted(points))

\* An unknown name means identity; a function that raises leaves the value.
ApplyCalibration(config, value) ==
    CASE config.function = "offset_scale" -> OffsetScale(value, config.params)
      [] config.function = "lookup_table" /\ config.params # <<>> ->
             LookupTable(value, config.params)
      [] OTHER -> Identity(value)

\* The params a config has that its function does not raise on.
WellFormed(config) ==
    /\ config.function = "offset_scale" => config.params \in [scale : Int, offset : Int]
    /\ config.function = "lookup_table" => config.params \in Seq([raw : Int, cal : Int])

\* The unit is fine enough for what is interpolated at a value: the curve between the
\* two neighbours of the value goes through a whole number there.
Exact(value, points) ==
    LET all == {points[i] : i \in DOMAIN points} IN
    \A p, q \in all :
       p.raw < value /\ value < q.raw /\ (\A r \in all : r.raw <= p.raw \/ q.raw <= r.raw)
          => ((value - p.raw) * (q.cal - p.cal)) % (q.raw - p.raw) = 0

-----------------------------------------------------------------------------
(* Reference: what a curve through points is, without sorting or scanning. *)

OnCurve(points, value, result) ==
    LET all == {points[i] : i \in DOMAIN points}
        low == {p \in all : p.raw <= value}
        high == {p \in all : p.raw >= value}
        lowest(ps) == {p \in ps : \A q \in ps : p.raw <= q.raw}
        highest(ps) == {p \in ps : \A q \in ps : q.raw <= p.raw}
    IN
    \/ low = {} /\ \E p \in lowest(all) : result = p.cal
    \/ high = {} /\ \E p \in highest(all) : result = p.cal
    \/ \E p \in highest(low), q \in lowest(high) :
          IF p.raw = value THEN result = p.cal
          ELSE (result - p.cal) * (q.raw - p.raw) = (value - p.raw) * (q.cal - p.cal)
================================================================================
