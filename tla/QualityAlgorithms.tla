--------------------------- MODULE QualityAlgorithms ---------------------------
(***************************************************************************)
(* quality_worker/executor.py: how the batch joins the series of several   *)
(* channels into rows, runs the steps of a blueprint over the rows, and    *)
(* judges how complete a series is.                                        *)
(*                                                                         *)
(* A series is the sequence of its readings' times; a value is the place   *)
(* of its reading in the series.  Times are whole numbers, and so are the  *)
(* interval and the window.  A query gives a table for each gateway that   *)
(* heard the device, in the order of time, and read_channel puts the       *)
(* tables one after the other: a series may go back in time and name one   *)
(* time twice.  The algorithms of the steps are not part of the            *)
(* repository: a step fails on a row or has a result.                      *)
(***************************************************************************)
EXTENDS Integers, Sequences, FiniteSetsExt, SequencesExt

CONSTANTS
    Interval,   \* seconds between two readings of the device
    Window,     \* seconds of history the completeness check looks at
    Channels,   \* the measured channels of the device, as sorted() orders them
    AlignSample, GapSample  \* bounds: the series the functions are checked on

ASSUME IntervalAssumption == Interval \in Nat \ {0} /\ Window \in Nat \ {0}
ASSUME SampleAssumption == AlignSample \cup GapSample \subseteq Seq(Int)

Channel == Range(Channels)

ASSUME ChannelsAssumption == Channels \in Seq(Channel)

-----------------------------------------------------------------------------
(* align_series *)

Distance(s, t) == IF s < t THEN t - s ELSE s - t

\* Within interval * DEFAULT_ALIGNMENT_TOLERANCE.
InRange(s, t) == 2 * Distance(s, t) <= Interval

\* The fault: the cursor moves on by one reading at most.
AdvanceOnce(readings, i, t) ==
    IF i < Len(readings) /\ Distance(readings[i + 1], t) <= Distance(readings[i], t)
    THEN i + 1 ELSE i

\* Where the cursor at i stops for a base reading at t.
Advance(readings, i, t) ==
    Min({j \in i .. Len(readings) :
            j = Len(readings) \/ Distance(readings[j + 1], t) > Distance(readings[j], t)})

\* Where the cursors of all channels are for a base reading at t, and the channels
\* that have a reading in range there.
Moved(cursors, others, t) ==
    [c \in DOMAIN others |-> IF others[c] = <<>> THEN 1 ELSE Advance(others[c], cursors[c], t)]

Found(cursors, others, t) ==
    {c \in DOMAIN others : others[c] # <<>> /\ InRange(others[c][cursors[c]], t)}

\* What becomes of the cursors and the rows with one more base reading.  The channels
\* after the first that has no reading in range keep their cursors.
Joined(sofar, others, t) ==
    LET new == Moved(sofar.cursors, others, t)
        found == Found(new, others, t)
    IN [cursors |-> [c \in DOMAIN others |->
                       IF 1 .. c - 1 \subseteq found THEN new[c] ELSE sofar.cursors[c]],
        rows |-> IF found = DOMAIN others THEN Append(sofar.rows, [time |-> t, picks |-> new])
                 ELSE sofar.rows]

NothingJoined(others) == [cursors |-> [c \in DOMAIN others |-> 1], rows |-> <<>>]

\* The rows of a base channel and a sequence of others.
AlignSeries(base, others) ==
    LET after[k \in 0 .. Len(base)] ==
            IF k = 0 THEN NothingJoined(others) ELSE Joined(after[k - 1], others, base[k])
    IN after[Len(base)].rows

-----------------------------------------------------------------------------
(* run_steps.  steps are in their order. *)

Produced(steps) == {steps[i].output : i \in DOMAIN steps}
Required(steps) == UNION {steps[i].inputs : i \in DOMAIN steps} \ Produced(steps)

\* The channels the steps give a value for in one row, failing the steps that raise.
RunSteps(steps, failing) ==
    LET after[i \in 0 .. Len(steps)] ==
            IF i = 0 THEN Required(steps)
            ELSE IF steps[i].inputs \subseteq after[i - 1] /\ i \notin failing
            THEN after[i - 1] \cup {steps[i].output}
            ELSE after[i - 1]
    IN after[Len(steps)] \ Required(steps)

\* run_blueprint up to its writes: the channels with any output.
Outputs(steps, series, failing) ==
    LET needed == SelectSeq(Channels, LAMBDA c : c \in Required(steps))
        named == [i \in DOMAIN needed |-> series[needed[i]]]
    IN
    IF named = <<>> \/ \E i \in DOMAIN named : named[i] = <<>> THEN {}
    ELSE LET rows == AlignSeries(Head(named), Tail(named)) IN
         UNION {RunSteps(steps, {i \in DOMAIN steps : <<i, rows[r].time>> \in failing}) :
                   r \in DOMAIN rows}

-----------------------------------------------------------------------------
(* analyse_completeness, and what check_completeness makes of it. *)

Expected == Max({1, Window \div Max({1, Interval})})

\* The fault: every other reading is skipped.
LargestGapOfPairs(readings) ==
    Max({0} \cup {readings[k + 1] - readings[k] :
                     k \in {i \in 1 .. Len(readings) - 1 : i % 2 = 1}})

LargestGap(readings) ==
    Max({0} \cup {readings[k + 1] - readings[k] : k \in 1 .. Len(readings) - 1})

\* COMPLETENESS_THRESHOLD is 0.8, GAP_INTERVALS_THRESHOLD 3.
Patchy(readings) ==
    \/ 10 * Len(readings) < 8 * Expected
    \/ LargestGap(readings) > 3 * Interval

-----------------------------------------------------------------------------
(* Reference definitions. *)

\* What one gateway heard of the device.
InOrder(readings) == \A i, j \in DOMAIN readings : i < j => readings[i] < readings[j]
Sampled(readings) == readings \in Seq(Int) /\ InOrder(readings)

\* "for each of its timestamps, takes the nearest sample from every other channel
\* within [tolerance].  Rows where any channel has no sample in range are dropped."
\* (executor.py:32-35)
NearestRows(rows, base, others) ==
    /\ {rows[r].time : r \in DOMAIN rows} =
          {t \in Range(base) : \A c \in DOMAIN others : \E s \in Range(others[c]) : InRange(s, t)}
    /\ InOrder([r \in DOMAIN rows |-> rows[r].time])
    /\ \A r \in DOMAIN rows : \A c \in DOMAIN others :
          /\ rows[r].picks[c] \in DOMAIN others[c]
          /\ \A s \in Range(others[c]) :
                Distance(others[c][rows[r].picks[c]], rows[r].time) <= Distance(s, rows[r].time)

\* More than a fifth of the readings is missing, or nothing was read for more than three
\* intervals between two readings.
HasGaps(readings) ==
    \/ 5 * Cardinality(Range(readings)) < 4 * Expected
    \/ \E s, t \in Range(readings) :
          /\ t - s > 3 * Interval
          /\ \A u \in Range(readings) : u <= s \/ u >= t
=============================================================================
