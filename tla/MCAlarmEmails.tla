---------------------------- MODULE MCAlarmEmails ----------------------------
(***************************************************************************)
(* AlarmEmails for a device with two channels, a reading every two seconds *)
(* and a window of eight, so that three readings, or a gap of seven, are   *)
(* patchy.  Its blueprint derives one channel from both and another one    *)
(* from that.                                                              *)
(***************************************************************************)
EXTENDS AlarmEmails

Increasing(times, sizes) ==
    {SetToSortSeq(T, <) : T \in {S \in SUBSET times : Cardinality(S) \in sizes}}

MCAlignSample == Increasing(0 .. 6, 0 .. 3)
MCGapSample == Increasing(0 .. 9, 0 .. 5)

MCChannels == <<"humidity", "temperature">>

MCSteps == <<[inputs |-> {"humidity", "temperature"}, output |-> "dew"],
             [inputs |-> {"dew"}, output |-> "comfort"]>>

\* Humidity is complete and temperature has a gap; or both are patchy, with a row in
\* common; or a second gateway heard both, and humidity misses two readings of four.
MCSeries ==
    {[humidity |-> <<1, 3, 5, 7>>, temperature |-> <<0, 1, 2, 9>>],
     [humidity |-> <<3>>, temperature |-> <<1, 2, 5>>],
     [humidity |-> <<1, 3, 1, 3>>, temperature |-> <<2, 1, 5>>]}

\* No step raises, or the second one does on every row.
MCFailures == {{}, {2} \X (0 .. 9)}
=============================================================================
