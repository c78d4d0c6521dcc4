----------------------------- MODULE AtLeastOnce -----------------------------
(***************************************************************************)
(* What every sink of the pipeline promises about one topic partition: a   *)
(* record worth keeping is stored before the offset behind it is           *)
(* committed, so that a restart, which resumes at the committed offset,    *)
(* skips nothing.  Storing a record more than once is allowed.             *)
(***************************************************************************)
EXTENDS Integers, Sequences

CONSTANTS
    Storable,   \* the records the sink has to keep
    Dropped     \* the records the sink rightly discards (malformed, not a metric)

VARIABLES
    log,        \* the topic partition: the records by offset
    stored,     \* the offsets the sink has stored
    committed   \* the committed offset: records 1..committed are not re-read

vars == <<log, stored, committed>>

\* The offsets up to n that the sink owes its readers.
Due(n) == {i \in 1..n : log[i] \in Storable}

Init ==
    /\ log = <<>>
    /\ stored = {}
    /\ committed = 0

Produce ==
    /\ \E r \in Storable \cup Dropped : log' = Append(log, r)
    /\ UNCHANGED <<stored, committed>>

Store ==
    /\ \E new \in SUBSET Due(Len(log)) : stored' = stored \cup new
    /\ UNCHANGED <<log, committed>>

Commit ==
    /\ \E n \in committed .. Len(log) :
          /\ Due(n) \subseteq stored
          /\ committed' = n
    /\ UNCHANGED <<log, stored>>

Next == Produce \/ Store \/ Commit

Spec == Init /\ [][Next]_vars

-----------------------------------------------------------------------------
\* No record behind the committed offset is missing from the sink.
Kept == Due(committed) \subseteq stored
=============================================================================
