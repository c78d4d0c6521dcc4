---------------------------- MODULE S3WriterProofs ----------------------------
(***************************************************************************)
(* Proofs about S3Writer, for every set of devices, batch size, length of  *)
(* the topic and number of faults.                                         *)
(***************************************************************************)
EXTENDS S3Writer, FiniteSetTheorems, TLAPS

USE BadIsNoDevice, BoundsAssumption

\* Facts about a topic that grows: the records it already holds stay put.
LEMMA AppendFacts ==
    ASSUME NEW S, NEW s \in Seq(S), NEW r \in S
    PROVE  /\ Append(s, r) \in Seq(S)
           /\ Len(Append(s, r)) = Len(s) + 1
           /\ \A i \in 1..Len(s) : Append(s, r)[i] = s[i]
  OBVIOUS

\* Putting a group adds one copy to each of its records and changes no other.
LEMMA CopiesFacts ==
    ASSUME copies \in [1..MaxLog -> Nat], NEW d
    PROVE  /\ WithCopiesOf(d) \in [1..MaxLog -> Nat]
           /\ \A j \in 1..MaxLog :
                 /\ j \in buffer /\ log[j] = d => WithCopiesOf(d)[j] = copies[j] + 1
                 /\ ~(j \in buffer /\ log[j] = d) => WithCopiesOf(d)[j] = copies[j]
                 /\ j \in buffer /\ log[j] = d => WithCopiesOf(d)[j] > 0
                 /\ copies[j] > 0 => WithCopiesOf(d)[j] > 0
  BY DEF WithCopiesOf

-----------------------------------------------------------------------------
\* The offsets the writer refers to are within the bound on the topic.
LEMMA OffsetFacts ==
    ASSUME TypeOK
    PROVE  /\ (1..taken) \subseteq (1..MaxLog)
           /\ (1..committed) \subseteq (1..MaxLog)
           /\ buffer \subseteq (1..MaxLog)
  BY DEF TypeOK

\* A writer that has just started has values of the right types.
LEMMA InitTypeOK == Init => TypeOK
<1> SUFFICES ASSUME Init PROVE TypeOK
  OBVIOUS
<1>1. log \in Seq(Device \cup {Bad}) /\ Len(log) = 0
  BY DEF Init
<1>2. copies \in [1..MaxLog -> Nat]
  BY DEF Init
<1>3. elapsed \in BOOLEAN
  BY DEF Init
<1> QED
  BY <1>1, <1>2, <1>3 DEF Init, TypeOK

\* No step of the writer, of its environment or of a failure leaves the types.
LEMMA StepTypeOK ==
    ASSUME TypeOK, [Next]_vars
    PROVE  TypeOK'
<1> USE DEF TypeOK, consumer, writer
<1>1. CASE Produce
  <2>1. PICK r \in Device \cup {Bad} : log' = Append(log, r)
    BY <1>1 DEF Produce
  <2>2. /\ log' \in Seq(Device \cup {Bad})
        /\ Len(log') = Len(log) + 1
        /\ \A i \in 1..Len(log) : log'[i] = log[i]
    BY <2>1, AppendFacts
  <2>3. UNCHANGED <<committed, position, taken, buffer, elapsed, pc, written, copies, faults>>
    BY <1>1 DEF Produce
  <2>4. Len(log') <= MaxLog
    BY <1>1, <2>2 DEF Produce
  <2>5. \A i \in buffer' : log'[i] \in Device
    <3> TAKE i \in buffer'
    <3>1. i \in buffer
      BY <2>3
    <3>2. i \in 1..Len(log)
      BY <3>1
    <3>3. log'[i] = log[i]
      BY <2>2, <3>2
    <3> QED
      BY <3>1, <3>3
  <2> QED
    BY <2>2, <2>3, <2>4, <2>5
<1>2. CASE IntervalElapses
  BY <1>2 DEF IntervalElapses
<1>3. CASE PollSome
  BY <1>3 DEF PollSome
<1>4. CASE PollEmpty
  BY <1>4 DEF PollEmpty
<1>5. CASE Buffer
  BY <1>5 DEF Buffer
<1>6. CASE PutObject
  <2>1. PICK i \in buffer : /\ copies' = WithCopiesOf(log[i])
                           /\ written' = written \cup {log[i]}
    BY <1>6 DEF PutObject
  <2>2. written' \in SUBSET Device
    BY <2>1
  <2>3. copies' \in [1..MaxLog -> Nat]
    BY <2>1, CopiesFacts
  <2>4. UNCHANGED <<log, committed, position, taken, buffer, elapsed, pc, faults>>
    BY <1>6 DEF PutObject
  <2> QED
    BY <2>2, <2>3, <2>4
<1>7. CASE PutFails
  <2>1. written' \in SUBSET Device /\ elapsed' \in BOOLEAN
    BY <1>7 DEF PutFails
  <2>2. copies' \in [1..MaxLog -> Nat]
    <3>1. PICK i \in buffer : copies' \in {copies, WithCopiesOf(log[i])}
      BY <1>7 DEF PutFails
    <3> QED
      BY <3>1, CopiesFacts
  <2>3. faults' \in 0..MaxFaults /\ pc' \in {"poll", "buffer", "flush"}
    BY <1>7 DEF PutFails
  <2> QED
    BY <2>1, <2>2, <2>3, <1>7 DEF PutFails
<1>8. CASE CommitOffsets
  <2>1. written' \in SUBSET Device /\ elapsed' \in BOOLEAN
    BY <1>8 DEF CommitOffsets
  <2>2. copies' \in [1..MaxLog -> Nat]
    BY <1>8 DEF CommitOffsets
  <2>3. faults' \in 0..MaxFaults /\ pc' \in {"poll", "buffer", "flush"}
    BY <1>8 DEF CommitOffsets
  <2> QED
    BY <2>1, <2>2, <2>3, <1>8 DEF CommitOffsets
<1>9. CASE CommitFails
  BY <1>9 DEF CommitFails
<1>10. CASE Restart
  <2>1. written' \in SUBSET Device /\ elapsed' \in BOOLEAN
    BY <1>10 DEF Restart
  <2>2. copies' \in [1..MaxLog -> Nat]
    BY <1>10 DEF Restart
  <2>3. faults' \in 0..MaxFaults /\ pc' \in {"poll", "buffer", "flush"}
    BY <1>10 DEF Restart
  <2> QED
    BY <2>1, <2>2, <2>3, <1>10 DEF Restart
<1>11. CASE UNCHANGED vars
  BY <1>11 DEF vars
<1> QED
  BY <1>1, <1>2, <1>3, <1>4, <1>5, <1>6, <1>7, <1>8, <1>9, <1>10, <1>11 DEF Next

\* The values of the variables stay in their types: in particular a consumer
\* never has a position past the end of the topic, and the buffer only holds
\* events it has polled.
THEOREM TypeCorrect == Spec => []TypeOK
<1>1. Init => TypeOK
  BY InitTypeOK
<1>2. TypeOK /\ [Next]_vars => TypeOK'
  BY StepTypeOK
<1> QED
  BY <1>1, <1>2, PTL DEF Spec

-----------------------------------------------------------------------------
(***************************************************************************)
(* No event behind the committed offset is missing from the bucket.  The   *)
(* property alone is not inductive: a commit covers every record up to the *)
(* position, so the proof needs that whatever was read and is not in the   *)
(* bucket still waits in the buffer, and that a flush which reaches its    *)
(* commit has put every group of that buffer.                              *)
(***************************************************************************)
NothingSkipped ==
    \A i \in 1..taken : log[i] \in Device => i \in buffer \/ copies[i] > 0
AllTaken == pc # "buffer" => taken = position
WrittenInFlush == pc # "flush" => written = {}
WrittenArePut ==
    pc = "flush" => \A i \in buffer : log[i] \in written => copies[i] > 0

IInv ==
    /\ TypeOK
    /\ committed <= taken
    /\ NothingSkipped
    /\ AllTaken
    /\ WrittenInFlush
    /\ WrittenArePut
    /\ CommittedAreArchived

\* When flush has returned, everything read is in the bucket.
LEMMA FlushedAreArchived ==
    ASSUME IInv, pc = "flush", Groups \subseteq written
    PROVE  /\ taken = position
           /\ \A i \in 1..position : log[i] \in Device => copies[i] > 0
<1> USE DEF IInv
<1>1. taken = position
  BY DEF AllTaken
<1>2. ASSUME NEW i \in 1..position, log[i] \in Device PROVE copies[i] > 0
  <2>1. CASE i \in buffer
    BY <2>1 DEF Groups, WrittenArePut
  <2>2. CASE i \notin buffer
    BY <1>1, <1>2, <2>2 DEF NothingSkipped
  <2> QED
    BY <2>1, <2>2
<1> QED
  BY <1>1, <1>2

\* Copies only accumulate.
LEMMA CopiesGrow ==
    ASSUME TypeOK, [Next]_vars
    PROVE  \A i \in 1..MaxLog : copies[i] > 0 => copies'[i] > 0
<1> USE DEF TypeOK
<1>1. CASE PutObject
  <2>1. PICK i \in buffer : copies' = WithCopiesOf(log[i])
    BY <1>1 DEF PutObject
  <2> QED
    BY <2>1, CopiesFacts
<1>2. CASE PutFails
  <2>1. PICK i \in buffer : copies' \in {copies, WithCopiesOf(log[i])}
    BY <1>2 DEF PutFails
  <2> QED
    BY <2>1, CopiesFacts
<1>3. CASE ~PutObject /\ ~PutFails
  <2>1. copies' = copies
    BY <1>3 DEF Next, vars, Produce, IntervalElapses, PollSome, PollEmpty, Buffer,
                CommitOffsets, CommitFails, Restart
  <2> QED
    BY <2>1
<1> QED
  BY <1>1, <1>2, <1>3

\* The parts of IInv hold initially and every step keeps them.
LEMMA InductiveInvariant == Spec => []IInv
<1>1. Init => IInv
  <2> SUFFICES ASSUME Init PROVE IInv
    OBVIOUS
  <2>1. TypeOK
    BY InitTypeOK
  <2> QED
    BY <2>1 DEF Init, IInv, NothingSkipped, AllTaken, WrittenInFlush, WrittenArePut, CommittedAreArchived
<1>2. IInv /\ [Next]_vars => IInv'
  <2> SUFFICES ASSUME IInv, [Next]_vars PROVE IInv'
    OBVIOUS
  <2>t. TypeOK /\ TypeOK'
    BY StepTypeOK DEF IInv
  <2>g. \A i \in 1..MaxLog : copies[i] > 0 => copies'[i] > 0
    BY <2>t, CopiesGrow
  <2>1. CASE Produce
    <3>1. PICK r \in Device \cup {Bad} : log' = Append(log, r)
      BY <2>1 DEF Produce
    <3>2. \A i \in 1..Len(log) : log'[i] = log[i]
      BY <3>1, <2>t, AppendFacts DEF TypeOK
    <3>3. UNCHANGED <<committed, position, taken, buffer, elapsed, pc, written, copies, faults>>
      BY <2>1 DEF Produce, consumer, writer
    <3>4. \A i \in 1..taken : i \in 1..Len(log)
      BY <2>t DEF TypeOK
    <3>5. NothingSkipped'
      BY <3>2, <3>3, <3>4 DEF NothingSkipped, IInv
    <3>6. WrittenArePut'
      <4>1. \A i \in buffer : i \in 1..taken
        BY <2>t DEF TypeOK
      <4> QED
        BY <3>2, <3>3, <3>4, <4>1 DEF WrittenArePut, IInv
    <3>7. CommittedAreArchived'
      <4>1. \A i \in 1..committed : i \in 1..taken
        BY <2>t DEF TypeOK, IInv
      <4> QED
        BY <3>2, <3>3, <3>4, <4>1 DEF CommittedAreArchived, IInv
    <3> QED
      BY <2>t, <3>3, <3>5, <3>6, <3>7 DEF IInv, AllTaken, WrittenInFlush
  <2>2. CASE IntervalElapses
    BY <2>2, <2>t DEF IntervalElapses, consumer, IInv, NothingSkipped, AllTaken,
                      WrittenInFlush, WrittenArePut, CommittedAreArchived
  <2>3. CASE PollSome
    BY <2>3, <2>t DEF PollSome, IInv, NothingSkipped, AllTaken, WrittenInFlush,
                      WrittenArePut, CommittedAreArchived
  <2>4. CASE PollEmpty
    BY <2>4, <2>t DEF PollEmpty, consumer, IInv, NothingSkipped, AllTaken, WrittenInFlush,
                      WrittenArePut, CommittedAreArchived
  <2>5. CASE Buffer
    <3>1. /\ buffer' = buffer \cup {i \in taken + 1 .. position : log[i] \in Device}
          /\ taken' = position
          /\ UNCHANGED <<log, committed, position, written, copies>>
      BY <2>5 DEF Buffer
    <3>2. NothingSkipped'
      <4> SUFFICES ASSUME NEW i \in 1..position, log[i] \in Device
                   PROVE  i \in buffer' \/ copies[i] > 0
        BY <3>1 DEF NothingSkipped
      <4>1. CASE i \in 1..taken
        BY <4>1, <3>1 DEF IInv, NothingSkipped
      <4>2. CASE i \in taken + 1 .. position
        BY <4>2, <3>1
      <4> QED
        BY <4>1, <4>2, <2>t DEF TypeOK
    <3>3. WrittenArePut'
      BY <2>5, <3>1 DEF Buffer, IInv, WrittenInFlush, WrittenArePut
    <3> QED
      BY <2>5, <2>t, <3>1, <3>2, <3>3
         DEF Buffer, IInv, AllTaken, WrittenInFlush, CommittedAreArchived, TypeOK
  <2>6. CASE PutObject
    <3>1. PICK i \in buffer : copies' = WithCopiesOf(log[i]) /\ written' = written \cup {log[i]}
      BY <2>6 DEF PutObject
    <3>2. UNCHANGED <<log, committed, position, taken, buffer, pc>>
      BY <2>6 DEF PutObject, consumer
    <3>3. \A j \in buffer : j \in 1..MaxLog
      BY <2>t, OffsetFacts
    <3>4. WrittenArePut'
      <4> SUFFICES ASSUME NEW j \in buffer, log[j] \in written', pc = "flush"
                   PROVE  copies'[j] > 0
        BY <3>2 DEF WrittenArePut
      <4>1. CASE log[j] \in written
        BY <4>1, <2>g, <3>3 DEF IInv, WrittenArePut
      <4>2. CASE log[j] = log[i]
        BY <4>2, <3>1, <3>3, <2>t, CopiesFacts DEF TypeOK
      <4> QED
        BY <4>1, <4>2, <3>1
    <3>5. NothingSkipped' /\ CommittedAreArchived'
      <4>1. (1..taken) \subseteq 1..MaxLog /\ (1..committed) \subseteq 1..MaxLog
        BY <2>t, OffsetFacts
      <4> QED
        BY <4>1, <2>g, <3>2 DEF IInv, NothingSkipped, CommittedAreArchived
    <3> QED
      BY <2>6, <2>t, <3>2, <3>4, <3>5 DEF PutObject, IInv, AllTaken, WrittenInFlush
  <2>7. CASE PutFails
    <3>1. UNCHANGED <<log, committed, position, taken, buffer>> /\ written' = {}
      BY <2>7 DEF PutFails, consumer
    <3>2. pc = "flush" /\ pc' = "poll"
      BY <2>7 DEF PutFails
    <3>3. (1..taken) \subseteq 1..MaxLog /\ (1..committed) \subseteq 1..MaxLog
      BY <2>t, OffsetFacts
    <3> QED
      BY <2>t, <2>g, <3>1, <3>2, <3>3
         DEF IInv, NothingSkipped, AllTaken, WrittenInFlush, WrittenArePut, CommittedAreArchived
  <2>8. CASE CommitOffsets
    <3>1. taken = position /\ \A i \in 1..position : log[i] \in Device => copies[i] > 0
      BY <2>8, FlushedAreArchived DEF CommitOffsets
    <3> QED
      BY <2>8, <2>t, <3>1
         DEF CommitOffsets, IInv, NothingSkipped, AllTaken, WrittenInFlush, WrittenArePut,
             CommittedAreArchived, TypeOK
  <2>9. CASE CommitFails
    <3>1. taken = position /\ \A i \in 1..position : log[i] \in Device => copies[i] > 0
      BY <2>9, FlushedAreArchived DEF CommitFails
    <3> QED
      BY <2>9, <2>t, <3>1
         DEF CommitFails, IInv, NothingSkipped, AllTaken, WrittenInFlush, WrittenArePut,
             CommittedAreArchived, TypeOK
  <2>10. CASE Restart
    BY <2>10, <2>t
       DEF Restart, IInv, NothingSkipped, AllTaken, WrittenInFlush, WrittenArePut,
           CommittedAreArchived, TypeOK
  <2>11. CASE UNCHANGED vars
    BY <2>11, <2>t
       DEF vars, consumer, writer, IInv, NothingSkipped, AllTaken, WrittenInFlush,
           WrittenArePut, CommittedAreArchived
  <2> QED
    BY <2>1, <2>2, <2>3, <2>4, <2>5, <2>6, <2>7, <2>8, <2>9, <2>10, <2>11 DEF Next
<1> QED
  BY <1>1, <1>2, PTL DEF Spec

\* Whatever fails and whenever the process dies, an event behind the committed
\* offset is in the bucket.
THEOREM NoEventLost == Spec => []CommittedAreArchived
<1>1. IInv => CommittedAreArchived
  BY DEF IInv
<1> QED
  BY <1>1, InductiveInvariant, PTL

-----------------------------------------------------------------------------
(***************************************************************************)
(* Duplicates.  A record that may still be put has at most as many copies  *)
(* as there were faults; only a settled one (put by the flush under way,   *)
(* or out of the buffer) may have one more.  Every fault unsettles records *)
(* and pays for the copy they may get again.                               *)
(***************************************************************************)
Settled(i) ==
    \/ i <= taken /\ i \notin buffer
    \/ pc = "flush" /\ i \in buffer /\ log[i] \in written

CopiesPaidFor ==
    \A i \in 1..MaxLog : /\ copies[i] <= faults + 1
                         /\ ~Settled(i) => copies[i] <= faults

\* No step gives a record a copy that no fault has paid for.
LEMMA CopiesPaidForInvariant == Spec => []CopiesPaidFor
<1>1. Init => CopiesPaidFor
  BY DEF Init, CopiesPaidFor
<1>2. IInv /\ CopiesPaidFor /\ [Next]_vars => CopiesPaidFor'
  <2> SUFFICES ASSUME IInv, CopiesPaidFor, [Next]_vars PROVE CopiesPaidFor'
    OBVIOUS
  <2>t. TypeOK /\ TypeOK'
    BY StepTypeOK DEF IInv
  <2>n. \A i \in 1..MaxLog : copies[i] \in Nat /\ faults \in Nat
    BY <2>t DEF TypeOK
  <2>1. CASE Produce
    <3>1. PICK r \in Device \cup {Bad} : log' = Append(log, r)
      BY <2>1 DEF Produce
    <3>2. \A i \in buffer : log'[i] = log[i]
      <4>1. \A i \in buffer : i \in 1..Len(log)
        BY <2>t DEF TypeOK
      <4> QED
        BY <3>1, <4>1, <2>t, AppendFacts DEF TypeOK
    <3> QED
      BY <2>1, <3>2 DEF Produce, consumer, writer, CopiesPaidFor, Settled
  <2>2. CASE IntervalElapses
    BY <2>2 DEF IntervalElapses, consumer, CopiesPaidFor, Settled
  <2>3. CASE PollSome
    BY <2>3, <2>t DEF PollSome, CopiesPaidFor, Settled
  <2>4. CASE PollEmpty
    BY <2>4 DEF PollEmpty, consumer, CopiesPaidFor, Settled
  <2>5. CASE Buffer
    <3>1. /\ buffer \subseteq buffer'
          /\ buffer' \subseteq buffer \cup (taken + 1 .. position)
          /\ taken' = position
          /\ UNCHANGED <<log, written, copies, faults>>
      BY <2>5 DEF Buffer
    <3>2. ASSUME NEW i \in 1..MaxLog, ~Settled(i)' PROVE ~Settled(i)
      BY <2>5, <2>t, <3>1, <3>2 DEF Buffer, Settled, TypeOK
    <3> QED
      BY <3>1, <3>2 DEF CopiesPaidFor
  <2>6. CASE PutObject
    <3>1. PICK i \in buffer : /\ copies' = WithCopiesOf(log[i])
                              /\ written' = written \cup {log[i]}
                              /\ NextGroup(i)
      BY <2>6 DEF PutObject
    <3>2. pc = "flush" /\ UNCHANGED <<log, taken, buffer, pc, faults>>
      BY <2>6 DEF PutObject, consumer
    <3>3. ASSUME NEW j \in 1..MaxLog
          PROVE  copies'[j] <= faults + 1 /\ (~Settled(j)' => copies'[j] <= faults)
      <4>1. CASE j \in buffer /\ log[j] = log[i]
        <5>1. ~Settled(j)
          BY <4>1, <3>1, <2>t DEF Settled, NextGroup, TypeOK
        <5>2. copies'[j] = copies[j] + 1 /\ copies[j] <= faults
          BY <5>1, <4>1, <3>1, <2>t, CopiesFacts DEF TypeOK, CopiesPaidFor
        <5>3. Settled(j)'
          BY <4>1, <3>1, <3>2 DEF Settled
        <5> QED
          BY <5>2, <5>3, <2>n
      <4>2. CASE ~(j \in buffer /\ log[j] = log[i])
        <5>1. copies'[j] = copies[j]
          BY <4>2, <3>1, <2>t, CopiesFacts DEF TypeOK
        <5>2. Settled(j) => Settled(j)'
          BY <3>1, <3>2 DEF Settled
        <5> QED
          BY <5>1, <5>2 DEF CopiesPaidFor
      <4> QED
        BY <4>1, <4>2
    <3> QED
      BY <3>2, <3>3 DEF CopiesPaidFor
  <2>7. CASE PutFails
    <3>1. PICK i \in buffer : NextGroup(i) /\ copies' \in {copies, WithCopiesOf(log[i])}
      BY <2>7 DEF PutFails
    <3>2. faults' = faults + 1
      BY <2>7 DEF PutFails
    <3>3. ASSUME NEW j \in 1..MaxLog PROVE copies'[j] <= faults + 1
      <4>1. CASE copies' = WithCopiesOf(log[i]) /\ j \in buffer /\ log[j] = log[i]
        <5>1. ~Settled(j)
          BY <4>1, <3>1, <2>t DEF Settled, NextGroup, TypeOK
        <5>2. copies'[j] = copies[j] + 1 /\ copies[j] <= faults
          BY <5>1, <4>1, <2>t, CopiesFacts DEF TypeOK, CopiesPaidFor
        <5> QED
          BY <5>2, <2>n
      <4>2. CASE ~(copies' = WithCopiesOf(log[i]) /\ j \in buffer /\ log[j] = log[i])
        <5>1. copies'[j] = copies[j]
          BY <4>2, <3>1, <2>t, CopiesFacts DEF TypeOK
        <5> QED
          BY <5>1 DEF CopiesPaidFor
      <4> QED
        BY <4>1, <4>2
    <3>4. \A j \in 1..MaxLog : copies'[j] \in Nat
      BY <2>t DEF TypeOK
    <3> QED
      BY <3>2, <3>3, <3>4, <2>n DEF CopiesPaidFor
  <2>8. CASE CommitOffsets
    <3>1. ASSUME NEW i \in 1..MaxLog, ~Settled(i)' PROVE ~Settled(i)
      BY <2>8, <3>1, <2>t DEF CommitOffsets, Settled, TypeOK
    <3>2. UNCHANGED <<copies, faults>>
      BY <2>8 DEF CommitOffsets
    <3> QED
      BY <3>1, <3>2 DEF CopiesPaidFor
  <2>9. CASE CommitFails \/ Restart
    <3>1. copies' = copies /\ faults' = faults + 1
      BY <2>9 DEF CommitFails, Restart
    <3> QED
      BY <3>1, <2>n DEF CopiesPaidFor
  <2>10. CASE UNCHANGED vars
    BY <2>10 DEF vars, consumer, writer, CopiesPaidFor, Settled
  <2> QED
    BY <2>1, <2>2, <2>3, <2>4, <2>5, <2>6, <2>7, <2>8, <2>9, <2>10 DEF Next
<1> QED
  BY <1>1, <1>2, InductiveInvariant, PTL DEF Spec

\* An event is in at most one object more than there were crashes and failed
\* calls: without any, the archive holds no event twice.
THEOREM DuplicatesBounded == Spec => []DuplicatesNeedFaults
<1>1. IInv /\ CopiesPaidFor => DuplicatesNeedFaults
  BY DEF IInv, TypeOK, CopiesPaidFor, DuplicatesNeedFaults
<1> QED
  BY <1>1, InductiveInvariant, CopiesPaidForInvariant, PTL

-----------------------------------------------------------------------------
(***************************************************************************)
(* The buffer is bounded while S3 is down.  A flush that fails keeps the   *)
(* buffer and the loop polls a batch on top of it, but the next flush      *)
(* follows at once: outside a flush the buffer is smaller by a batch.      *)
(***************************************************************************)
RoomForABatch ==
    /\ BufferIsBounded
    /\ pc # "flush" => Cardinality(buffer) < BatchSize * (1 + faults)
    /\ position <= taken + BatchSize

\* One more failure is worth one more batch.
LEMMA BatchPerFault ==
    ASSUME NEW n \in Nat
    PROVE  /\ BatchSize * (2 + n) = BatchSize * (1 + n) + BatchSize
           /\ BatchSize * (1 + (n + 1)) = BatchSize * (2 + n)
           /\ BatchSize <= BatchSize * (1 + n)
           /\ BatchSize * (1 + n) \in Nat
<1>1. BatchSize * n \in Nat
  OBVIOUS
<1>2. BatchSize * (1 + n) = BatchSize + BatchSize * n
  OBVIOUS
<1>3. BatchSize * (2 + n) = BatchSize + BatchSize + BatchSize * n
  OBVIOUS
<1>4. 1 + (n + 1) = 2 + n
  OBVIOUS
<1> QED BY <1>1, <1>2, <1>3, <1>4

\* What one pass of the loop body buffers is at most what was polled.
LEMMA FilledIsBounded ==
    ASSUME TypeOK
    PROVE  LET filled == buffer \cup {i \in taken + 1 .. position : log[i] \in Device}
           IN  /\ Cardinality(buffer) \in Nat /\ Cardinality(filled) \in Nat
               /\ Cardinality(filled) <= Cardinality(buffer) + (position - taken)
<1> DEFINE polled == {i \in taken + 1 .. position : log[i] \in Device}
<1>1. taken \in Nat /\ position \in Nat /\ taken <= position
  BY DEF TypeOK
<1>2. /\ IsFiniteSet(taken + 1 .. position)
      /\ Cardinality(taken + 1 .. position) = position - taken
  <2>1. taken + 1 \in Int /\ position \in Int
    BY <1>1
  <2>2. /\ IsFiniteSet(taken + 1 .. position)
        /\ Cardinality(taken + 1 .. position) =
              IF taken + 1 > position THEN 0 ELSE position - (taken + 1) + 1
    BY <2>1, FS_Interval
  <2> QED BY <1>1, <2>2
<1>3. IsFiniteSet(buffer)
  <2>1. buffer \subseteq 1 .. MaxLog
    BY OffsetFacts
  <2>2. IsFiniteSet(1 .. MaxLog)
    BY FS_Interval
  <2> QED BY <2>1, <2>2, FS_Subset
<1>4. IsFiniteSet(polled) /\ Cardinality(polled) <= position - taken
  BY <1>2, FS_Subset
<1>5. /\ Cardinality(buffer) \in Nat /\ Cardinality(polled) \in Nat
      /\ Cardinality(buffer \cap polled) \in Nat
  BY <1>3, <1>4, FS_CardinalityType, FS_Subset
<1>6. /\ IsFiniteSet(buffer \cup polled)
      /\ Cardinality(buffer \cup polled) =
            Cardinality(buffer) + Cardinality(polled) - Cardinality(buffer \cap polled)
  BY <1>3, <1>4, FS_Union
<1>7. Cardinality(buffer \cup polled) \in Nat
  BY <1>6, FS_CardinalityType
<1> QED BY <1>1, <1>4, <1>5, <1>6, <1>7

\* Every step leaves room for the batch that may be polled next.
LEMMA StepRoom ==
    ASSUME IInv, RoomForABatch, [Next]_vars
    PROVE  RoomForABatch'
<1> USE DEF RoomForABatch, BufferIsBounded, consumer, writer
<1>1. /\ TypeOK /\ faults \in Nat /\ taken \in Nat /\ position \in Nat /\ committed \in Nat
      /\ pc # "buffer" => taken = position
  BY DEF IInv, TypeOK, AllTaken
<1>2. /\ BatchSize * (2 + faults) = BatchSize * (1 + faults) + BatchSize
      /\ BatchSize <= BatchSize * (1 + faults) /\ BatchSize * (1 + faults) \in Nat
      /\ BatchSize * (1 + (faults + 1)) = BatchSize * (2 + faults)
      /\ BatchSize * (2 + (faults + 1)) = BatchSize * (2 + faults) + BatchSize
  BY <1>1, BatchPerFault
<1>3. Cardinality(buffer) \in Nat
  BY <1>1, FilledIsBounded
<1>4. Cardinality({}) = 0
  BY FS_EmptySet
<1>5. CASE Produce \/ IntervalElapses \/ UNCHANGED vars
  BY <1>5 DEF Produce, IntervalElapses, vars
<1>6. CASE PollSome
  BY <1>1, <1>6 DEF PollSome
<1>7. CASE PollEmpty
  BY <1>7 DEF PollEmpty
<1>8. CASE Buffer
  <2> DEFINE filled == buffer \cup {i \in taken + 1 .. position : log[i] \in Device}
  <2>1. buffer' = filled /\ taken' = position /\ UNCHANGED <<position, faults>>
    BY <1>8 DEF Buffer
  <2>2. pc' # "flush" => ~(Cardinality(filled) >= BatchSize)
    BY <1>8 DEF Buffer
  <2>3. /\ Cardinality(filled) \in Nat
        /\ Cardinality(filled) <= Cardinality(buffer) + (position - taken)
    BY <1>1, FilledIsBounded
  <2>4. Cardinality(buffer) < BatchSize * (1 + faults)
    BY <1>8 DEF Buffer
  <2> HIDE DEF filled
  <2>5. Cardinality(filled) < BatchSize * (2 + faults)
    BY <1>1, <1>2, <1>3, <2>3, <2>4
  <2>6. pc' # "flush" => Cardinality(filled) < BatchSize * (1 + faults)
    BY <1>2, <2>2, <2>3
  <2> QED BY <1>1, <2>1, <2>5, <2>6
<1>9. CASE PutObject
  BY <1>9 DEF PutObject
<1>10. CASE PutFails \/ CommitFails
  <2>1. UNCHANGED <<buffer, position, taken>> /\ faults' = faults + 1 /\ pc' = "poll"
    BY <1>10 DEF PutFails, CommitFails
  <2> QED BY <1>2, <1>3, <2>1
<1>11. CASE CommitOffsets
  <2>1. UNCHANGED <<position, taken, faults>> /\ buffer' = {}
    BY <1>11 DEF CommitOffsets
  <2> QED BY <1>1, <1>2, <1>4, <2>1
<1>12. CASE Restart
  <2>1. position' = committed /\ taken' = committed /\ faults' = faults + 1 /\ buffer' = {}
    BY <1>12 DEF Restart
  <2> QED BY <1>1, <1>2, <1>4, <2>1
<1> QED
  BY <1>5, <1>6, <1>7, <1>8, <1>9, <1>10, <1>11, <1>12 DEF Next

\* The memory of write_kafka_s3 stays bounded although it goes on polling while S3 is
\* down: two batches, and one more for every flush that failed.
THEOREM BufferBounded == Spec => []BufferIsBounded
<1>1. Init => RoomForABatch
  BY FS_EmptySet DEF Init, RoomForABatch, BufferIsBounded
<1>2. IInv /\ RoomForABatch /\ [Next]_vars => RoomForABatch'
  BY StepRoom
<1>3. RoomForABatch => BufferIsBounded
  BY DEF RoomForABatch
<1> QED
  BY <1>1, <1>2, <1>3, InductiveInvariant, PTL DEF Spec

-----------------------------------------------------------------------------
(***************************************************************************)
(* S3Writer implements AtLeastOnce: producing, putting a group and         *)
(* committing are the abstract steps, everything else stutters.            *)
(***************************************************************************)
\* An empty bucket is an empty sink.
LEMMA SinkInit == Init => Sink!Init
  BY DEF Init, Sink!Init, Archived

\* What is in the bucket was produced, and is an event of some device.
ArchivedAreEvents ==
    \A i \in 1..MaxLog : copies[i] > 0 => i <= Len(log) /\ log[i] \in Device

\* put_object is only ever called with records that were produced.
LEMMA ArchivedAreEventsInvariant == Spec => []ArchivedAreEvents
<1>1. Init => ArchivedAreEvents
  BY DEF Init, ArchivedAreEvents
<1>2. IInv /\ ArchivedAreEvents /\ [Next]_vars => ArchivedAreEvents'
  <2> SUFFICES ASSUME IInv, ArchivedAreEvents, [Next]_vars, NEW i \in 1..MaxLog, copies'[i] > 0
               PROVE  i <= Len(log') /\ log'[i] \in Device
    BY DEF ArchivedAreEvents
  <2>t. TypeOK /\ TypeOK'
    BY StepTypeOK DEF IInv
  <2>1. i <= Len(log) /\ log[i] \in Device
    <3>1. CASE copies' = copies
      BY <3>1 DEF ArchivedAreEvents
    <3>2. CASE PutObject \/ PutFails
      <4>1. PICK j \in buffer : copies' \in {copies, WithCopiesOf(log[j])}
        BY <3>2 DEF PutObject, PutFails
      <4>2. CASE i \in buffer
        BY <4>2, <2>t DEF TypeOK
      <4>3. CASE i \notin buffer
        <5>1. copies'[i] = copies[i]
          BY <4>1, <4>3, <2>t, CopiesFacts DEF TypeOK
        <5> QED
          BY <5>1 DEF ArchivedAreEvents
      <4> QED
        BY <4>2, <4>3
    <3>3. copies' = copies \/ PutObject \/ PutFails
      BY DEF Next, vars, Produce, IntervalElapses, PollSome, PollEmpty, Buffer,
             CommitOffsets, CommitFails, Restart
    <3> QED
      BY <3>1, <3>2, <3>3
  <2>2. i <= Len(log') /\ log'[i] = log[i]
    <3>1. CASE log' = log
      BY <3>1, <2>1
    <3>2. CASE Produce
      <4>1. PICK r \in Device \cup {Bad} : log' = Append(log, r)
        BY <3>2 DEF Produce
      <4>2. Len(log) \in Nat /\ i \in 1..Len(log)
        BY <2>1, <2>t DEF TypeOK
      <4> QED
        BY <4>1, <4>2, <2>t, AppendFacts DEF TypeOK
    <3>3. log' = log \/ Produce
      BY DEF Next, vars, IntervalElapses, PollSome, PollEmpty, Buffer, PutObject, PutFails,
             CommitOffsets, CommitFails, Restart
    <3> QED
      BY <3>1, <3>2, <3>3
  <2> QED
    BY <2>1, <2>2
<1> QED
  BY <1>1, <1>2, InductiveInvariant, PTL DEF Spec

\* Each step of the writer is Produce, Store or Commit of the sink, or a stutter.
LEMMA SinkStep ==
    ASSUME IInv, IInv', ArchivedAreEvents, ArchivedAreEvents', [Next]_vars
    PROVE  [Sink!Next]_(Sink!vars)
<1> USE DEF Sink!vars
<1>t. TypeOK /\ TypeOK'
  BY DEF IInv
<1>1. CASE Produce
  <2>1. PICK r \in Device \cup {Bad} : log' = Append(log, r)
    BY <1>1 DEF Produce
  <2>2. UNCHANGED <<Archived, committed>>
    BY <1>1 DEF Produce, consumer, Archived
  <2> QED
    BY <2>1, <2>2 DEF Sink!Next, Sink!Produce
<1>2. CASE PutObject \/ PutFails
  <2>1. UNCHANGED <<log, committed>>
    BY <1>2 DEF PutObject, PutFails, consumer
  <2>2. Archived \subseteq Archived'
    BY <1>t, CopiesGrow DEF Archived
  <2>3. Archived' \subseteq Sink!Due(Len(log))
    <3>1. Len(log) \in Nat
      BY <1>t DEF TypeOK
    <3> QED
      BY <2>1, <3>1 DEF Archived, ArchivedAreEvents, Sink!Due
  <2>4. Archived' \in SUBSET Sink!Due(Len(log)) /\ Archived' = Archived \cup Archived'
    BY <2>2, <2>3
  <2>5. Sink!Store
    BY <2>1, <2>4 DEF Sink!Store
  <2> QED
    BY <2>5 DEF Sink!Next
<1>3. CASE CommitOffsets \/ CommitFails
  <2>1. UNCHANGED <<log, copies>> /\ committed' \in {committed, position}
    BY <1>3 DEF CommitOffsets, CommitFails
  <2>2. UNCHANGED Archived
    BY <2>1 DEF Archived
  <2>3. committed' \in committed .. Len(log)
    BY <1>t, <2>1 DEF TypeOK
  <2>4. Sink!Due(committed') \subseteq Archived
    <3>1. taken = position /\ \A i \in 1..position : log[i] \in Device => copies[i] > 0
      BY <1>3, FlushedAreArchived DEF CommitOffsets, CommitFails
    <3>2. (1..committed') \subseteq (1..position) /\ (1..position) \subseteq (1..MaxLog)
      BY <1>t, <2>1 DEF TypeOK
    <3> QED
      BY <3>1, <3>2 DEF Sink!Due, Archived
  <2>5. Sink!Commit
    BY <2>1, <2>2, <2>3, <2>4 DEF Sink!Commit
  <2> QED
    BY <2>5 DEF Sink!Next
<1>4. CASE ~Produce /\ ~PutObject /\ ~PutFails /\ ~CommitOffsets /\ ~CommitFails
  <2>1. UNCHANGED <<log, copies, committed>>
    BY <1>4 DEF Next, vars, IntervalElapses, PollSome, PollEmpty, Buffer, Restart, consumer
  <2> QED
    BY <2>1 DEF Archived
<1> QED
  BY <1>1, <1>2, <1>3, <1>4

\* The S3 writer is an at-least-once sink of the decoded topic.
THEOREM ImplementsAtLeastOnce == Spec => SinkSpec
<1>1. IInv /\ IInv' /\ ArchivedAreEvents /\ ArchivedAreEvents' /\ [Next]_vars
      => [Sink!Next]_(Sink!vars)
  BY SinkStep
<1> QED
  BY <1>1, SinkInit, InductiveInvariant, ArchivedAreEventsInvariant, PTL
     DEF Spec, SinkSpec, Sink!Spec
=============================================================================
