----------------------------- MODULE MCStreamJobs -----------------------------
(***************************************************************************)
(* StreamJobs on short topics: runs of equal values, broken or not, by a   *)
(* copy, a message without the number, the other payload kind or a config  *)
(* that arrives in the middle; and every value around a few tables.        *)
(***************************************************************************)
EXTENDS StreamJobs

CONSTANTS k1, k2

Heard(reading, kind, value) == [reading |-> reading, kind |-> kind, value |-> value]

Put(kind, function, params) ==
    [op |-> "put", kind |-> kind, config |-> [function |-> function, params |-> params]]
Delete(kind) == [op |-> "delete", kind |-> kind]

Range(min, max) ==
    [op |-> "put", rule |-> [detector |-> "range_check", min |-> min, max |-> max]]

Point(raw, cal) == [raw |-> raw, cal |-> cal]
Doubled == [scale |-> 2, offset |-> -6]

\* Not in order, and with two points of one raw value.
Tables == {<<>>, <<Point(2, 5)>>, <<Point(4, 0), Point(0, 2), Point(2, 8)>>,
           <<Point(2, 6), Point(4, 2), Point(2, 4), Point(0, 0)>>}

AroundTables ==
    {[decoded |-> <<Heard(1, k1, v)>>, calibrations |-> <<Put(k1, "lookup_table", table)>>,
      rules |-> <<Range(1, 5)>>] : v \in -1 .. 5, table \in Tables}

Reconfigured ==
    {[decoded |-> <<Heard(1, k1, 6), Heard(2, k2, 6), Heard(3, k1, 6)>>,
      calibrations |-> <<Put(k1, "offset_scale", Doubled), Put(k2, "retired", Doubled), Delete(k1)>>,
      rules |-> <<>>],
     [decoded |-> <<Heard(1, k1, 5), Heard(2, k1, 6)>>,
      calibrations |-> <<Put(k1, "offset_scale", Doubled)>>,
      rules |-> <<Range(5, NoLimit), [op |-> "delete"]>>]}

Runs ==
    {[decoded |-> d, calibrations |-> c, rules |-> <<>>] :
        d \in {<<Heard(1, k1, 3), Heard(2, k1, 3), Heard(3, k1, NoNumber), Heard(4, k2, 3)>>,
               <<Heard(1, k1, 7), Heard(2, k1, 3), Heard(3, k1, 3), Heard(4, k1, 3)>>,
               <<Heard(1, k1, 6), Heard(1, k1, 6), Heard(2, k1, 6)>>},
        c \in {<<>>, <<Put(k1, "lookup_table", <<Point(3, 4), Point(7, 4)>>)>>}}

MCScenario == AroundTables \cup Reconfigured \cup Runs
===============================================================================
