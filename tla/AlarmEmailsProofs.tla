--------------------------- MODULE AlarmEmailsProofs ---------------------------
(***************************************************************************)
(* Proofs about AlarmEmails, for any channels, blueprint, number of        *)
(* processes and bounds: an owner gets one email per cooldown and channel, *)
(* and a channel is silent only while its owner was told of it, is being   *)
(* told, or would have been, had the sending not failed.  And proofs that  *)
(* the two algorithms of the quality worker do what they should on any     *)
(* series in the order of time.                                            *)
(***************************************************************************)
EXTENDS AlarmEmails, FiniteSetTheorems, TLAPS

\* The email that is being sent is the first one since its channel cools down.
FirstEmail ==
    /\ told \subseteq cooled
    /\ sending # Idle => sending \in cooled \ told

IInv == SilenceExplained /\ FirstEmail

-----------------------------------------------------------------------------
\* An alarm the consumer has polled names a channel, or no route.
LEMMA AlarmFacts ==
    ASSUME TypeOK, handled < polled
    PROVE  Alarm \in Channel \cup {NoRoute} /\ handled + 1 \in 0 .. polled
<1>1. handled \in Nat /\ polled \in Nat /\ Len(alarms) \in Nat /\ handled + 1 \in 1 .. Len(alarms)
  BY DEF TypeOK
<1>2. alarms[handled + 1] \in Channel \cup {NoRoute}
  BY <1>1 DEF TypeOK
<1> QED BY <1>1, <1>2 DEF Alarm

\* A process that works has a job, whose change leaves the others as they are.
LEMMA JobFacts ==
    ASSUME TypeOK, NEW w \in Worker
    PROVE  /\ job[w] # Idle => job[w] \in Job
           /\ \A j \in {Idle} \cup Job : [job EXCEPT ![w] = j] \in [Worker -> {Idle} \cup Job]
  BY DEF TypeOK

\* The channel a check has come to is one of the device's.
LEMMA ReachedFacts ==
    ASSUME TypeOK, NEW w \in Worker, job[w] # Idle, job[w].checked < Len(Channels)
    PROVE  Reached(w) \in Channel /\ job[w].checked + 1 \in 0 .. Len(Channels)
<1>1. job[w].checked \in 0 .. Len(Channels) /\ Len(Channels) \in Nat
  BY JobFacts, ChannelsAssumption DEF Job
<1>2. job[w].checked + 1 \in 1 .. Len(Channels)
  BY <1>1
<1>3. Channels[job[w].checked + 1] \in Channel
  BY <1>2, ChannelsAssumption
<1> QED BY <1>2, <1>3 DEF Reached

\* An alarm that is appended is a channel or has no route, and moves none of the others.
LEMMA AppendedAlarm ==
    ASSUME TypeOK, NEW a \in Channel \cup {NoRoute}
    PROVE  /\ Append(alarms, a) \in Seq(Channel \cup {NoRoute})
           /\ polled \in 0 .. Len(Append(alarms, a))
<1>1. Append(alarms, a) \in Seq(Channel \cup {NoRoute}) /\ Len(Append(alarms, a)) = Len(alarms) + 1
  BY DEF TypeOK
<1> QED BY <1>1 DEF TypeOK

-----------------------------------------------------------------------------
(* Types. *)

\* The types hold at first.
LEMMA InitTypeOK == Init => TypeOK
<1> SUFFICES ASSUME Init PROVE TypeOK
  OBVIOUS
<1>1. queue = <<>> /\ queue \in Seq(Task) /\ alarms = <<>> /\ alarms \in Seq(Channel \cup {NoRoute})
  BY DEF Init, QualityInit
<1>2. polled \in 0 .. Len(alarms) /\ handled \in 0 .. polled
  BY <1>1 DEF Init
<1>3. job \in [Worker -> {Idle} \cup Job] /\ faults \in 0 .. MaxFaults
  BY QualityBounds DEF Init, QualityInit
<1> QED BY <1>1, <1>2, <1>3 DEF Init, QualityInit, TypeOK

\* What a process does keeps the types of the worker, and leaves the consumer alone.
LEMMA WorkerTypeOK ==
    ASSUME TypeOK, NEW w \in Worker, UNCHANGED <<reachable, consumer, emails>>,
           Take(w) \/ Run(w) \/ TaskFails(w) \/ WorkerLost(w)
    PROVE  TypeOK'
<1> USE DEF consumer, emails
<1>1. Idle \in {Idle} \cup Job /\ (job[w] # Idle => job[w] \in Job)
  BY JobFacts
<1>2. ASSUME Done(w) PROVE job' \in [Worker -> {Idle} \cup Job]
  BY <1>1, <1>2, JobFacts DEF Done
<1>3. ASSUME NEW t \in Task PROVE Append(queue, t) \in Seq(Task)
  BY DEF TypeOK
<1>4. ASSUME faults < MaxFaults PROVE faults + 1 \in 0 .. MaxFaults
  BY <1>4, QualityBounds DEF TypeOK
<1>5. CASE Take(w)
  <2>1. queue # <<>> /\ Head(queue) \in Task /\ Tail(queue) \in Seq(Task)
    BY <1>5 DEF Take, TypeOK
  <2>2. 0 \in 0 .. Len(Channels)
    BY ChannelsAssumption
  <2>3. [task |-> Head(queue), checked |-> 0, outputs |-> {}, todo |-> {}] \in Job
    BY <2>1, <2>2 DEF Job
  <2>4. job' \in [Worker -> {Idle} \cup Job]
    BY <1>5, <2>3, JobFacts DEF Take
  <2> QED BY <1>5, <2>1, <2>4 DEF Take, TypeOK, data, Job
<1>6. CASE ScanDevices(w)
  <2>1. queue \o <<"blueprint", "check">> \in Seq(Task)
    BY DEF TypeOK, Task
  <2> QED BY <1>2, <1>6, <2>1 DEF ScanDevices, TypeOK, data, Job
<1>7. CASE ComputeOutputs(w)
  <2>1. [job[w] EXCEPT !.outputs = computed, !.todo = computed] \in Job
    BY <1>1, <1>7 DEF ComputeOutputs, Doing, Job
  <2>2. job' \in [Worker -> {Idle} \cup Job]
    BY <1>1, <1>7, <2>1, JobFacts DEF ComputeOutputs
  <2> QED BY <1>7, <2>2 DEF ComputeOutputs, TypeOK, data, Job
<1>8. CASE WriteDerived(w)
  <2>1. PICK c \in job[w].todo : /\ derived' = derived \cup {c}
                                 /\ job' = [job EXCEPT ![w].todo = @ \ {c}]
    BY <1>8 DEF WriteDerived
  <2>2. job[w] \in Job /\ c \in computed
    BY <1>1, <1>8, <2>1 DEF WriteDerived, Doing, Job
  <2>3. [job[w] EXCEPT !.todo = @ \ {c}] \in Job
    BY <2>2 DEF Job
  <2>4. job' = [job EXCEPT ![w] = [job[w] EXCEPT !.todo = @ \ {c}]]
    BY <2>1, <1>1, <2>2 DEF TypeOK
  <2>5. job' \in [Worker -> {Idle} \cup Job]
    BY <2>3, <2>4, JobFacts
  <2> QED BY <1>8, <2>1, <2>2, <2>5 DEF WriteDerived, TypeOK, data, Job
<1>9. CASE PublishDiscovery(w)
  <2>1. job[w].outputs \subseteq computed
    BY <1>1, <1>9 DEF PublishDiscovery, Doing, Job
  <2> QED BY <1>2, <1>9, <2>1 DEF PublishDiscovery, TypeOK, data, Job
<1>10. CASE CheckChannel(w)
  <2>1. job[w] \in Job /\ Reached(w) \in Channel /\ job[w].checked + 1 \in 0 .. Len(Channels)
    BY <1>1, <1>10, ReachedFacts DEF CheckChannel, Doing
  <2>2. [job[w] EXCEPT !.checked = @ + 1] \in Job
    BY <2>1 DEF Job
  <2>3. job' = [job EXCEPT ![w] = [job[w] EXCEPT !.checked = @ + 1]]
    BY <1>10 DEF CheckChannel
  <2>4. job' \in [Worker -> {Idle} \cup Job]
    BY <2>2, <2>3, JobFacts
  <2>5. /\ alarms' \in Seq(Channel \cup {NoRoute}) /\ polled \in 0 .. Len(alarms')
    BY <1>10, <2>1, AppendedAlarm DEF CheckChannel, TypeOK
  <2> QED BY <1>10, <2>4, <2>5 DEF CheckChannel, TypeOK, data, Job
<1>11. CASE FinishCheck(w)
  BY <1>2, <1>11 DEF FinishCheck, TypeOK, data, Job
<1>12. CASE TaskFails(w)
  <2>1. job[w] \in Job /\ job' \in [Worker -> {Idle} \cup Job] /\ faults' \in 0 .. MaxFaults
    BY <1>1, <1>2, <1>4, <1>12 DEF TaskFails
  <2>2. job[w].todo \subseteq computed /\ job[w].outputs \subseteq computed
    BY <2>1 DEF Job
  <2>3. /\ queue' \in Seq(Task)
        /\ derived' \subseteq computed /\ announced' \subseteq computed /\ registered' = registered
    BY <1>3, <1>12, <2>2 DEF TaskFails, TypeOK, Task
  <2>4. alarms' \in Seq(Channel \cup {NoRoute}) /\ polled \in 0 .. Len(alarms')
    <3>1. CASE alarms' = alarms
      BY <3>1 DEF TypeOK
    <3>2. CASE job[w].checked < Len(Channels) /\ alarms' = Append(alarms, Reached(w))
      BY <1>12, <3>2, ReachedFacts, AppendedAlarm DEF TaskFails
    <3> QED BY <1>12, <3>1, <3>2 DEF TaskFails
  <2> QED BY <1>12, <2>1, <2>3, <2>4 DEF TaskFails, TypeOK, data, Job
<1>13. CASE WorkerLost(w)
  <2>1. job[w].task \in Task
    BY <1>1, <1>13 DEF WorkerLost, Job
  <2>2. queue' \in Seq(Task) /\ job' \in [Worker -> {Idle} \cup Job] /\ faults' \in 0 .. MaxFaults
    BY <1>2, <1>3, <1>4, <1>13, <2>1 DEF WorkerLost, TypeOK
  <2> QED BY <1>13, <2>2 DEF WorkerLost, TypeOK, data, Job
<1> QED BY <1>5, <1>6, <1>7, <1>8, <1>9, <1>10, <1>11, <1>12, <1>13 DEF Run

\* So does everything else that happens outside the consumer.
LEMMA QualityTypeOK ==
    ASSUME TypeOK, QualityNext, UNCHANGED <<reachable, consumer, emails>>
    PROVE  TypeOK'
<1> USE DEF consumer, emails
<1>1. CASE Beat
  <2>1. Append(queue, "scan") \in Seq(Task)
    BY DEF TypeOK, Task
  <2> QED BY <1>1, <2>1 DEF Beat, TypeOK, data, Job
<1>2. CASE \E w \in Worker : Take(w) \/ Run(w) \/ TaskFails(w) \/ WorkerLost(w)
  BY <1>2, WorkerTypeOK
<1>3. CASE Register
  BY <1>3 DEF Register, TypeOK, data, Job
<1>4. CASE RegisterFails
  <2>1. faults' \in 0 .. MaxFaults
    BY <1>4, QualityBounds DEF RegisterFails, TypeOK
  <2> QED BY <1>4, <2>1 DEF RegisterFails, TypeOK, data, Job
<1> QED BY <1>1, <1>2, <1>3, <1>4 DEF QualityNext

\* The steps of the consumer and of its surroundings keep the types.
LEMMA ConsumerTypeOK ==
    ASSUME TypeOK,
           \/ ReachableChanges \/ StreamAlarm \/ Consume \/ EmailFails \/ Restart
           \/ \E c \in Channel : Expire(c)
    PROVE  TypeOK'
<1> USE DEF qualityVars, data, consumer, emails, Job
<1>1. ASSUME faults < MaxFaults PROVE faults + 1 \in 0 .. MaxFaults
  BY <1>1, QualityBounds DEF TypeOK
<1>2. CASE ReachableChanges
  BY <1>2 DEF ReachableChanges, TypeOK
<1>3. CASE StreamAlarm
  <2>1. alarms' \in Seq(Channel \cup {NoRoute}) /\ polled \in 0 .. Len(alarms')
    BY <1>3, AppendedAlarm DEF StreamAlarm
  <2> QED BY <1>3, <2>1 DEF StreamAlarm, TypeOK
<1>4. CASE Poll
  BY <1>4 DEF Poll, TypeOK
<1>5. CASE Skip
  BY <1>5, AlarmFacts DEF Skip, TypeOK
<1>6. CASE StartCooldown
  <2>1. Alarm \in Channel
    BY <1>6, AlarmFacts DEF StartCooldown
  <2> QED BY <1>6, <2>1 DEF StartCooldown, TypeOK
<1>7. CASE SendEmail
  BY <1>7, AlarmFacts DEF SendEmail, TypeOK
<1>8. CASE EmailFails
  BY <1>1, <1>8, AlarmFacts DEF EmailFails, TypeOK
<1>9. CASE Commit
  <2>1. polled \in Nat /\ polled + 1 \in Nat /\ polled <= Len(alarms) /\ Len(alarms) \in Nat
    BY DEF TypeOK
  <2>2. \A i \in polled + 1 .. Len(alarms) : alarms[i] \in Channel \cup {NoRoute}
    BY <2>1 DEF TypeOK
  <2>3. alarms' \in Seq(Channel \cup {NoRoute})
    BY <1>9, <2>1, <2>2 DEF Commit
  <2>4. sending = Idle
    BY <1>9, <2>1 DEF Commit, TypeOK
  <2>5. 0 \in 0 .. Len(alarms') /\ 0 \in 0 .. 0
    BY <2>3
  <2> QED BY <1>9, <2>3, <2>4, <2>5 DEF Commit, TypeOK
<1>10. CASE Restart
  <2>1. alarms' \in Seq(Channel \cup {NoRoute})
    BY <1>10 DEF Restart, TypeOK
  <2>2. 0 \in 0 .. Len(alarms') /\ 0 \in 0 .. 0
    BY <2>1
  <2>3. missed' \subseteq Channel
    BY <1>10 DEF Restart, TypeOK
  <2> QED BY <1>1, <1>10, <2>1, <2>2, <2>3 DEF Restart, TypeOK
<1>11. CASE \E c \in Channel : Expire(c)
  BY <1>11 DEF Expire, TypeOK
<1> QED BY <1>2, <1>3, <1>4, <1>5, <1>6, <1>7, <1>8, <1>9, <1>10, <1>11 DEF Consume

\* Every step keeps the types.
LEMMA StepTypeOK == TypeOK /\ [Next]_vars => TypeOK'
<1> SUFFICES ASSUME TypeOK, [Next]_vars PROVE TypeOK'
  OBVIOUS
<1>1. CASE QualityNext /\ UNCHANGED <<reachable, consumer, emails>>
  BY <1>1, QualityTypeOK
<1>2. CASE UNCHANGED vars
  BY <1>2 DEF vars, qualityVars, data, consumer, emails, TypeOK, Job
<1> QED BY <1>1, <1>2, ConsumerTypeOK DEF Next

-----------------------------------------------------------------------------
(* Emails and cooldowns. *)

\* Nothing cools down at first.
LEMMA InitIInv == Init => IInv
  BY InitTypeOK DEF Init, IInv, SilenceExplained, FirstEmail

\* A step of the worker, or of the consumer between two emails, moves no cooldown.
LEMMA NoEmail ==
    ASSUME IInv, TypeOK', UNCHANGED <<sending, emails>>
    PROVE  IInv'
  BY DEF IInv, SilenceExplained, FirstEmail, emails

\* Every step keeps the reasons of the silent channels and the emails of this cooldown.
LEMMA StepIInv == IInv /\ [Next]_vars => IInv'
<1> SUFFICES ASSUME IInv, [Next]_vars PROVE IInv'
  OBVIOUS
<1>1. TypeOK /\ TypeOK'
  BY StepTypeOK DEF IInv, SilenceExplained
<1> USE DEF IInv, SilenceExplained, FirstEmail
<1>2. CASE \/ QualityNext /\ UNCHANGED <<reachable, consumer, emails>>
           \/ ReachableChanges \/ StreamAlarm \/ Poll \/ Skip \/ Commit
           \/ UNCHANGED vars
  BY <1>1, <1>2, NoEmail
     DEF ReachableChanges, StreamAlarm, Poll, Skip, Commit, consumer, emails, vars
<1>3. CASE StartCooldown
  <2>1. Alarm \in Channel /\ Alarm # Idle /\ Alarm \notin cooled
    BY <1>1, <1>3, AlarmFacts, IdleAssumption DEF StartCooldown
  <2>2. sending = Idle /\ \A c \in cooled : c # Idle
    BY <1>1, <1>3, IdleAssumption DEF StartCooldown, TypeOK
  <2> QED BY <1>1, <1>3, <2>1, <2>2 DEF StartCooldown
<1>4. CASE SendEmail
  BY <1>1, <1>4 DEF SendEmail
<1>5. CASE EmailFails
  BY <1>1, <1>5 DEF EmailFails
<1>6. CASE Restart
  BY <1>1, <1>6 DEF Restart, emails
<1>7. CASE \E c \in Channel : Expire(c)
  BY <1>1, <1>7 DEF Expire, qualityVars, consumer
<1> QED BY <1>2, <1>3, <1>4, <1>5, <1>6, <1>7 DEF Next, Consume

\* The invariant holds in every state.
LEMMA Inductive == Spec => []IInv
  BY InitIInv, StepIInv, PTL DEF Spec

\* No channel is silent without a reason: one that cools down was told of, is being
\* told of, or its email failed (cache.add in consume_quality_alarms.py).
THEOREM SilenceHasReason == Spec => []SilenceExplained
<1>1. IInv => SilenceExplained
  BY DEF IInv
<1> QED BY <1>1, Inductive, PTL

\* When the sending of an email about a channel ends and its owner was emailed, by this
\* one or an earlier one, then not by an earlier one: the key that cache.add finds in
\* consume_quality_alarms.py outlives every death of the consumer.
THEOREM OneEmail == Spec => OneEmailPerCooldown
<1>1. IInv => \A c \in Channel : sending = c => c \notin told
  BY IdleAssumption DEF IInv, FirstEmail
<1>2. IInv => [\A c \in Channel : sending = c /\ sending' # c /\ c \in told' => c \notin told]_vars
  BY <1>1
<1> QED BY <1>2, Inductive, PTL DEF OneEmailPerCooldown
-----------------------------------------------------------------------------
(* Induction, by the least counterexample. *)

\* Of the finite sets in a collection, one is least.
LEMMA LeastSet ==
    ASSUME NEW F, F # {}, \A T \in F : IsFiniteSet(T)
    PROVE  \E T \in F : \A U \in F : ~(U \subseteq T /\ U # T)
<1> DEFINE S == UNION F
<1>1. F \subseteq FiniteSubsetsOf(S) /\ IsWellFoundedOn(StrictSubsetOrdering(S), FiniteSubsetsOf(S))
  BY FS_StrictSubsetOrderingWellFounded DEF FiniteSubsetsOf
<1>2. \E T \in F : \A U \in F : <<U, T>> \notin StrictSubsetOrdering(S)
  BY <1>1, WFMin
<1> QED BY <1>2 DEF StrictSubsetOrdering

\* A set of natural numbers has a least one.
LEMMA LeastNumber ==
    ASSUME NEW S, S \subseteq Nat, S # {}
    PROVE  \E n \in S : \A m \in S : n <= m
<1> DEFINE F == {0 .. n : n \in S}
<1>1. \A T \in F : IsFiniteSet(T)
  <2> TAKE T \in F
  <2>1. PICK n \in S : T = 0 .. n
    OBVIOUS
  <2> QED BY <2>1, FS_Interval
<1>2. F # {}
  OBVIOUS
<1>3. \E T \in F : \A U \in F : ~(U \subseteq T /\ U # T)
  <2> HIDE DEF F
  <2> QED BY <1>1, <1>2, LeastSet
<1>4. PICK n \in S : \A U \in F : ~(U \subseteq 0 .. n /\ U # 0 .. n)
  BY <1>3
<1>5. \A m \in S : 0 .. m \in F
  OBVIOUS
<1>6. ASSUME NEW m \in S, m < n PROVE FALSE
  <2>1. 0 .. m \subseteq 0 .. n /\ n \in 0 .. n /\ n \notin 0 .. m
    BY <1>6
  <2> QED BY <2>1, <1>4, <1>5
<1> QED BY <1>6

\* A finite set of integers has a greatest one.
LEMMA GreatestExists ==
    ASSUME NEW S, S \subseteq Int, IsFiniteSet(S), S # {}
    PROVE  \E m \in S : \A y \in S : m >= y
<1> DEFINE F == {T \in SUBSET S : T # {} /\ ~ \E m \in T : \A y \in T : m >= y}
<1> SUFFICES ASSUME F # {} PROVE FALSE
  OBVIOUS
<1>1. \A T \in F : IsFiniteSet(T)
  BY FS_Subset
<1>2. \E T \in F : \A U \in F : ~(U \subseteq T /\ U # T)
  <2> HIDE DEF F
  <2> QED BY <1>1, LeastSet
<1>3. PICK T \in F : \A U \in F : ~(U \subseteq T /\ U # T)
  BY <1>2
<1>4. PICK x \in T : TRUE
  OBVIOUS
<1>5. T \ {x} \in SUBSET S /\ T \ {x} \subseteq T /\ T \ {x} # T /\ x \in Int
  BY <1>4
<1>6. T \ {x} \notin F
  BY <1>3, <1>5
<1>7. CASE T = {x}
  BY <1>7, <1>5
<1>8. CASE T # {x}
  <2>1. PICK m \in T \ {x} : \A y \in T \ {x} : m >= y
    BY <1>8, <1>5, <1>6, <1>4
  <2>2. m \in Int /\ \A y \in T : y \in Int
    OBVIOUS
  <2>3. CASE m >= x
    BY <2>1, <2>3
  <2>4. CASE m < x
    BY <2>1, <2>2, <2>4, <1>4, <1>5
  <2> QED BY <2>2, <2>3, <2>4, <1>5
<1> QED BY <1>7, <1>8

\* The greatest of a finite set is what Max chooses.
LEMMA MaxIs ==
    ASSUME NEW S, S \subseteq Int, IsFiniteSet(S), S # {}
    PROVE  Max(S) \in S /\ \A y \in S : Max(S) >= y
  BY GreatestExists DEF Max

\* The least of a set of natural numbers is what Min chooses.
LEMMA MinIs ==
    ASSUME NEW S, S \subseteq Nat, S # {}
    PROVE  Min(S) \in S /\ \A y \in S : Min(S) <= y
  BY LeastNumber DEF Min

-----------------------------------------------------------------------------
(* The completeness check. *)

\* A series in order has as many readings as entries, all of them numbers.
LEMMA SampledFacts ==
    ASSUME NEW readings, Sampled(readings)
    PROVE  /\ Len(readings) \in Nat /\ DOMAIN readings = 1 .. Len(readings)
           /\ \A i \in 1 .. Len(readings) : readings[i] \in Int /\ readings[i] \in Range(readings)
           /\ \A i, j \in 1 .. Len(readings) : i < j => readings[i] < readings[j]
           /\ \A s \in Range(readings) : \E i \in 1 .. Len(readings) : s = readings[i]
  BY DEF Sampled, InOrder, Range

\* No two readings have the same time.
LEMMA AsManyReadings ==
    ASSUME NEW readings, Sampled(readings)
    PROVE  Cardinality(Range(readings)) = Len(readings)
<1> DEFINE n == Len(readings)
<1>1. n \in Nat /\ IsFiniteSet(1 .. n) /\ Cardinality(1 .. n) = n
  BY SampledFacts, FS_Interval
<1>2. \A i, j \in 1 .. n : readings[i] = readings[j] => i = j
  <2> TAKE i, j \in 1 .. n
  <2>1. readings[i] \in Int /\ readings[j] \in Int /\ (i < j => readings[i] < readings[j]) /\ (j < i => readings[j] < readings[i])
    BY SampledFacts
  <2>2. i \in Int /\ j \in Int
    OBVIOUS
  <2> QED BY <2>1, <2>2
<1>3. readings \in [1 .. n -> Range(readings)]
  BY SampledFacts DEF Sampled
<1>4. readings \in Bijection(1 .. n, Range(readings))
  BY <1>2, <1>3, SampledFacts DEF Bijection, Injection, Surjection, IsInjective
<1> QED BY <1>1, <1>4, FS_Bijection DEF ExistsBijection

\* Of two numbers, one is the greater.
LEMMA GreaterOfTwo ==
    ASSUME NEW a \in Int, NEW b \in Int
    PROVE  Max({a, b}) \in {a, b} /\ Max({a, b}) >= a /\ Max({a, b}) >= b
<1>1. \E m \in {a, b} : \A y \in {a, b} : m >= y
  <2>1. CASE a >= b
    BY <2>1
  <2>2. CASE b >= a
    BY <2>2
  <2> QED BY <2>1, <2>2
<1> QED BY <1>1 DEF Max

\* The number of readings that are expected is a number.
LEMMA ExpectedIs == Expected \in Int
<1>1. Max({1, Interval}) \in Int /\ Max({1, Interval}) >= 1
  BY GreaterOfTwo, IntervalAssumption
<1>2. Window \div Max({1, Interval}) \in Int
  BY <1>1, IntervalAssumption
<1> DEFINE expected == Window \div Max({1, Interval})
<1>3. \A w \in Int : Max({1, w}) \in {1, w}
  BY GreaterOfTwo
<1>4. Max({1, expected}) \in {1, expected}
  BY <1>2, <1>3
<1> QED BY <1>2, <1>4 DEF Expected

\* The differences between neighbours, of which LargestGap is the greatest.
LEMMA LargestGapIs ==
    ASSUME NEW readings, Sampled(readings)
    PROVE  /\ LargestGap(readings) \in Int
           /\ \A k \in 1 .. Len(readings) - 1 : readings[k + 1] - readings[k] <= LargestGap(readings)
           /\ LargestGap(readings) = 0
                 \/ \E k \in 1 .. Len(readings) - 1 : LargestGap(readings) = readings[k + 1] - readings[k]
<1> DEFINE gap(k) == readings[k + 1] - readings[k]
           gaps == {gap(k) : k \in 1 .. Len(readings) - 1}
<1>1. \A k \in 1 .. Len(readings) - 1 : k \in 1 .. Len(readings) /\ k + 1 \in 1 .. Len(readings)
  BY SampledFacts
<1>2. \A k \in 1 .. Len(readings) - 1 : gap(k) \in Int
  BY <1>1, SampledFacts
<1>3. gaps \subseteq Int
  BY <1>2
<1>4. IsFiniteSet(gaps)
  <2> DEFINE f == [k \in 1 .. Len(readings) - 1 |-> gap(k)]
  <2>1. f \in Surjection(1 .. Len(readings) - 1, gaps)
    BY DEF Surjection
  <2>2. IsFiniteSet(1 .. Len(readings) - 1)
    BY FS_Interval, SampledFacts
  <2> HIDE DEF f, gaps
  <2> QED BY <2>1, <2>2, FS_Surjection
<1>5. IsFiniteSet({0} \cup gaps) /\ {0} \cup gaps \subseteq Int /\ {0} \cup gaps # {}
  <2> HIDE DEF gaps
  <2>1. IsFiniteSet({0}) /\ 0 \in {0} \cup gaps /\ {0} \subseteq Int
    BY FS_Singleton
  <2>2. IsFiniteSet({0} \cup gaps)
    BY <1>4, <2>1, FS_Union
  <2> QED BY <1>3, <2>1, <2>2
<1>6. Max({0} \cup gaps) \in {0} \cup gaps /\ \A y \in {0} \cup gaps : Max({0} \cup gaps) >= y
  <2> HIDE DEF gaps
  <2> QED BY <1>5, MaxIs
<1>7. LargestGap(readings) = Max({0} \cup gaps)
  BY DEF LargestGap
<1>8. LargestGap(readings) \in {0} \cup gaps /\ LargestGap(readings) \in Int
  BY <1>5, <1>6, <1>7
<1>9. \A k \in 1 .. Len(readings) - 1 : gap(k) <= LargestGap(readings)
  <2> TAKE k \in 1 .. Len(readings) - 1
  <2>1. gap(k) \in {0} \cup gaps
    OBVIOUS
  <2>2. LargestGap(readings) >= gap(k)
    BY <2>1, <1>6, <1>7
  <2> QED BY <2>2, <1>2, <1>8
<1> QED BY <1>8, <1>9

\* Two neighbours that are far apart, and the readings with none between them.
LEMMA GapBetween ==
    ASSUME NEW readings, Sampled(readings), NEW d \in Nat
    PROVE  (LargestGap(readings) > d) <=>
              \E s, t \in Range(readings) :
                 /\ t - s > d
                 /\ \A u \in Range(readings) : u <= s \/ u >= t
<1> DEFINE n == Len(readings)
<1>1. ASSUME LargestGap(readings) > d
      PROVE  \E s, t \in Range(readings) : t - s > d /\ \A u \in Range(readings) : u <= s \/ u >= t
  <2>1. PICK k \in 1 .. n - 1 : LargestGap(readings) = readings[k + 1] - readings[k]
    BY <1>1, LargestGapIs
  <2>2. k \in 1 .. n /\ k + 1 \in 1 .. n
    BY SampledFacts
  <2>3. ASSUME NEW u \in Range(readings) PROVE u <= readings[k] \/ u >= readings[k + 1]
    <3>1. PICK i \in 1 .. n : u = readings[i]
      BY SampledFacts
    <3>2. i <= k \/ k + 1 <= i
      BY <2>2
    <3> QED BY <3>1, <3>2, <2>2, SampledFacts
  <2>4. readings[k] \in Range(readings) /\ readings[k + 1] \in Range(readings)
    BY <2>2, SampledFacts
  <2> QED BY <1>1, <2>1, <2>3, <2>4
<1>2. ASSUME NEW s \in Range(readings), NEW t \in Range(readings), t - s > d,
             \A u \in Range(readings) : u <= s \/ u >= t
      PROVE  LargestGap(readings) > d
  <2>1. PICK i \in 1 .. n : s = readings[i]
    BY SampledFacts
  <2>2. PICK j \in 1 .. n : t = readings[j]
    BY SampledFacts
  <2>3. s \in Int /\ t \in Int /\ s < t
    BY <1>2, <2>1, <2>2, SampledFacts
  <2>4. i < j
    BY <2>1, <2>2, <2>3, SampledFacts
  <2>5. i \in 1 .. n - 1 /\ i + 1 \in 1 .. n
    BY <2>4, SampledFacts
  <2>6. readings[i + 1] \in Int /\ readings[i + 1] > s /\ readings[i + 1] \in Range(readings)
    BY <2>1, <2>5, SampledFacts
  <2>7. readings[i + 1] >= t
    BY <1>2, <2>3, <2>6
  <2> QED BY <2>1, <2>3, <2>5, <2>6, <2>7, <1>2, LargestGapIs
<1> QED BY <1>1, <1>2

\* check_completeness alarms about a series in the order of time just when it has gaps:
\* more than a fifth of the readings is missing, or more than three intervals lie
\* between two of them with none in between.
THEOREM PatchyIsGaps ==
    ASSUME NEW readings, Sampled(readings)
    PROVE  Patchy(readings) <=> HasGaps(readings)
<1>1. 3 * Interval \in Nat
  BY IntervalAssumption
<1>2. (10 * Len(readings) < 8 * Expected) <=> (5 * Cardinality(Range(readings)) < 4 * Expected)
  BY AsManyReadings, ExpectedIs, SampledFacts
<1> QED BY <1>1, <1>2, GapBetween DEF Patchy, HasGaps

-----------------------------------------------------------------------------
(* Aligning series. *)

\* No earlier reading than that at the cursor is nearer to a time.
Leads(readings, i, t) ==
    \A l \in 1 .. i - 1 : Distance(readings[i], t) <= Distance(readings[l], t)

\* Where a cursor that leads stops, no reading is nearer.
LEMMA AdvanceFinds ==
    ASSUME NEW readings, Sampled(readings), NEW i \in 1 .. Len(readings), NEW t \in Int,
           Leads(readings, i, t)
    PROVE  /\ Advance(readings, i, t) \in 1 .. Len(readings)
           /\ \A l \in 1 .. Len(readings) :
                 Distance(readings[Advance(readings, i, t)], t) <= Distance(readings[l], t)
<1> DEFINE n == Len(readings)
           far(j) == j = n \/ Distance(readings[j + 1], t) > Distance(readings[j], t)
           stops == {j \in i .. n : far(j)}
           j0 == Advance(readings, i, t)
<1>1. n \in Nat /\ i \in Nat /\ i <= n
  BY SampledFacts
<1>2. stops \subseteq Nat /\ n \in stops
  BY <1>1
<1>3. j0 \in stops /\ \A j \in stops : j0 <= j
  <2> HIDE DEF stops
  <2>1. Min(stops) \in stops /\ \A j \in stops : Min(stops) <= j
    BY <1>2, MinIs
  <2> QED BY <2>1 DEF Advance, stops
<1>4. j0 \in i .. n /\ far(j0)
  BY <1>3
<1>5. ASSUME NEW l \in 1 .. n, j0 < l PROVE Distance(readings[j0], t) <= Distance(readings[l], t)
  <2>1. j0 \in 1 .. n /\ j0 + 1 \in 1 .. n /\ Distance(readings[j0 + 1], t) > Distance(readings[j0], t)
    BY <1>1, <1>4, <1>5
  <2>2. readings[j0] \in Int /\ readings[j0 + 1] \in Int /\ readings[l] \in Int
        /\ readings[j0] < readings[j0 + 1] /\ readings[j0 + 1] <= readings[l]
    <3>1. j0 + 1 = l \/ j0 + 1 < l
      BY <1>5, <2>1
    <3> QED BY <2>1, <3>1, <1>5, SampledFacts
  <2> HIDE DEF j0
  <2> QED BY <2>1, <2>2 DEF Distance
<1>6. ASSUME NEW l \in 1 .. n, l < j0 PROVE Distance(readings[j0], t) <= Distance(readings[l], t)
  <2>1. CASE j0 = i
    BY <2>1, <1>6, <1>1 DEF Leads
  <2>2. CASE j0 # i
    <3>1. j0 - 1 \in i .. n /\ j0 - 1 \in 1 .. n /\ j0 \in 1 .. n /\ j0 - 1 # n /\ ~(j0 <= j0 - 1)
      BY <2>2, <1>1, <1>4
    <3>2. j0 - 1 \notin stops
      BY <1>3, <3>1
    <3>3. ~ (Distance(readings[j0 - 1 + 1], t) > Distance(readings[j0 - 1], t))
      BY <3>1, <3>2
    <3>4. j0 - 1 + 1 = j0
      BY <3>1
    <3>5. ~ (Distance(readings[j0], t) > Distance(readings[j0 - 1], t))
      BY <3>3, <3>4
    <3>6. readings[j0] \in Int /\ readings[j0 - 1] \in Int /\ readings[l] \in Int
          /\ readings[j0 - 1] < readings[j0] /\ readings[l] <= readings[j0 - 1]
      <4>1. l = j0 - 1 \/ l < j0 - 1
        BY <1>6, <3>1
      <4> QED BY <3>1, <4>1, <1>6, SampledFacts
    <3> HIDE DEF j0
    <3> QED BY <3>5, <3>6 DEF Distance
  <2> QED BY <2>1, <2>2
<1>7. j0 \in 1 .. n /\ readings[j0] \in Int
  BY <1>1, <1>4, SampledFacts
<1>8. ASSUME NEW l \in 1 .. n PROVE Distance(readings[j0], t) <= Distance(readings[l], t)
  <2>1. CASE l = j0
    <3>1. Distance(readings[j0], t) \in Int
      BY <1>7 DEF Distance
    <3> QED BY <2>1, <3>1
  <2>2. CASE l < j0
    BY <2>2, <1>6
  <2>3. CASE j0 < l
    BY <2>3, <1>5
  <2> HIDE DEF j0
  <2> QED BY <1>7, <2>1, <2>2, <2>3
<1> QED BY <1>7, <1>8

\* A cursor that leads for a time leads for all later ones.
LEMMA LeadsLater ==
    ASSUME NEW readings, Sampled(readings), NEW i \in 1 .. Len(readings),
           NEW t \in Int, NEW u \in Int, t <= u, Leads(readings, i, t)
    PROVE  Leads(readings, i, u)
<1> SUFFICES ASSUME NEW l \in 1 .. i - 1
             PROVE  Distance(readings[i], u) <= Distance(readings[l], u)
  BY DEF Leads
<1>1. l \in 1 .. Len(readings) /\ l < i
  BY SampledFacts
<1>2. readings[l] \in Int /\ readings[i] \in Int /\ readings[l] < readings[i]
  BY <1>1, SampledFacts
<1>3. Distance(readings[i], t) <= Distance(readings[l], t)
  BY DEF Leads
<1> QED BY <1>2, <1>3 DEF Distance

\* The series a base is joined with.
AllSampled(others) == others \in Seq(Seq(Int)) /\ \A c \in DOMAIN others : Sampled(others[c])

\* What NearestRows says of a time, and of what is picked for one.
Covered(others, t) == \A c \in DOMAIN others : \E s \in Range(others[c]) : InRange(s, t)
NearestIn(others, picks, t) ==
    \A c \in DOMAIN others :
       /\ picks[c] \in DOMAIN others[c]
       /\ \A s \in Range(others[c]) : Distance(others[c][picks[c]], t) <= Distance(s, t)

\* The cursors, after the first k base readings, lead for all times to come.
CursorsLead(base, others, k, cursors) ==
    /\ cursors \in [DOMAIN others -> Nat]
    /\ \A c \in DOMAIN others : others[c] # <<>> =>
          /\ cursors[c] \in 1 .. Len(others[c])
          /\ \A t \in Int : (\A l \in 1 .. k : base[l] <= t) => Leads(others[c], cursors[c], t)

\* The rows, after the first k base readings, are those they should be.
RowsNearest(base, others, k, rows) ==
    /\ rows \in Seq([time : Int, picks : [DOMAIN others -> Nat]])
    /\ \A r \in DOMAIN rows : /\ \E l \in 1 .. k : rows[r].time = base[l]
                              /\ Covered(others, rows[r].time)
                              /\ NearestIn(others, rows[r].picks, rows[r].time)
    /\ \A l \in 1 .. k : Covered(others, base[l]) => \E r \in DOMAIN rows : rows[r].time = base[l]
    /\ \A q, r \in DOMAIN rows : q < r => rows[q].time < rows[r].time

\* Where the cursors of the channels move to, the nearest readings are.
LEMMA MovedFinds ==
    ASSUME NEW base, Sampled(base), NEW others, AllSampled(others), NEW k \in Nat, k + 1 <= Len(base),
           NEW cursors, CursorsLead(base, others, k, cursors)
    PROVE  LET new == Moved(cursors, others, base[k + 1]) IN
           /\ new \in [DOMAIN others -> Nat]
           /\ \A c \in DOMAIN others : others[c] # <<>> =>
                 /\ new[c] \in 1 .. Len(others[c])
                 /\ \A l \in 1 .. Len(others[c]) :
                       Distance(others[c][new[c]], base[k + 1]) <= Distance(others[c][l], base[k + 1])
<1> DEFINE t == base[k + 1]
           new == Moved(cursors, others, t)
<1>1. k + 1 \in 1 .. Len(base) /\ t \in Int /\ \A l \in 1 .. k : base[l] <= t
  <2>1. k + 1 \in 1 .. Len(base)
    BY SampledFacts
  <2>2. \A l \in 1 .. k : l \in 1 .. Len(base) /\ l < k + 1
    BY SampledFacts
  <2> QED BY <2>1, <2>2, SampledFacts
<1>2. ASSUME NEW c \in DOMAIN others, others[c] # <<>>
      PROVE  /\ new[c] \in 1 .. Len(others[c])
             /\ \A l \in 1 .. Len(others[c]) : Distance(others[c][new[c]], t) <= Distance(others[c][l], t)
  <2>1. Sampled(others[c]) /\ cursors[c] \in 1 .. Len(others[c]) /\ Leads(others[c], cursors[c], t)
    BY <1>1, <1>2 DEF AllSampled, CursorsLead
  <2>2. new[c] = Advance(others[c], cursors[c], t)
    BY <1>2 DEF Moved
  <2> HIDE DEF t, new
  <2> QED BY <2>1, <2>2, <1>1, AdvanceFinds
<1>3. ASSUME NEW c \in DOMAIN others PROVE new[c] \in Nat
  <2>1. CASE others[c] = <<>>
    BY <2>1 DEF Moved
  <2>2. CASE others[c] # <<>>
    BY <1>2, <2>2, SampledFacts DEF AllSampled
  <2> QED BY <2>1, <2>2
<1>4. new \in [DOMAIN others -> Nat]
  BY <1>3 DEF Moved
<1> QED BY <1>2, <1>4

\* A channel whose nearest reading is in range has one, and the other way round.
LEMMA FoundIsCovered ==
    ASSUME NEW others, AllSampled(others), NEW t \in Int, NEW new,
           \A c \in DOMAIN others : others[c] # <<>> =>
                 /\ new[c] \in 1 .. Len(others[c])
                 /\ \A l \in 1 .. Len(others[c]) : Distance(others[c][new[c]], t) <= Distance(others[c][l], t)
    PROVE  Found(new, others, t) = DOMAIN others <=> Covered(others, t)
<1>1. ASSUME NEW c \in DOMAIN others
      PROVE  c \in Found(new, others, t) <=> \E s \in Range(others[c]) : InRange(s, t)
  <2>1. Sampled(others[c])
    BY DEF AllSampled
  <2>2. CASE others[c] = <<>>
    BY <2>2 DEF Found, Range
  <2>3. CASE others[c] # <<>>
    <3>1. new[c] \in 1 .. Len(others[c]) /\ others[c][new[c]] \in Int /\ others[c][new[c]] \in Range(others[c])
      BY <2>1, <2>3, SampledFacts
    <3>2. ASSUME NEW s \in Range(others[c]), InRange(s, t) PROVE InRange(others[c][new[c]], t)
      <4>1. PICK l \in 1 .. Len(others[c]) : s = others[c][l]
        BY <2>1, SampledFacts
      <4>2. s \in Int /\ Distance(others[c][new[c]], t) <= Distance(s, t)
        BY <2>1, <2>3, <4>1, SampledFacts
      <4>3. Distance(s, t) \in Int /\ Distance(others[c][new[c]], t) \in Int
        BY <3>1, <4>2 DEF Distance
      <4> QED BY <3>2, <4>2, <4>3, IntervalAssumption DEF InRange
    <3> QED BY <2>3, <3>1, <3>2 DEF Found
  <2> QED BY <2>2, <2>3
<1>2. Found(new, others, t) \subseteq DOMAIN others
  BY DEF Found
<1> QED BY <1>1, <1>2 DEF Covered

\* One more base reading keeps the cursors leading.
LEMMA JoinedLeads ==
    ASSUME NEW base, Sampled(base), NEW others, AllSampled(others), NEW k \in Nat, k + 1 <= Len(base),
           NEW sofar, CursorsLead(base, others, k, sofar.cursors)
    PROVE  CursorsLead(base, others, k + 1, Joined(sofar, others, base[k + 1]).cursors)
<1> DEFINE t == base[k + 1]
           new == Moved(sofar.cursors, others, t)
           found == Found(new, others, t)
           next == Joined(sofar, others, t).cursors
<1>1. t \in Int /\ k + 1 \in 1 .. k + 1 /\ \A l \in 1 .. k : l \in 1 .. k + 1
  BY SampledFacts
<1>2. next = [c \in DOMAIN others |-> IF 1 .. c - 1 \subseteq found THEN new[c] ELSE sofar.cursors[c]]
  BY DEF Joined
<1> HIDE DEF found, next
<1>3. next \in [DOMAIN others -> Nat]
  BY <1>2, MovedFinds DEF CursorsLead
<1>4. ASSUME NEW c \in DOMAIN others, others[c] # <<>>
      PROVE  /\ next[c] \in 1 .. Len(others[c])
             /\ \A u \in Int : (\A l \in 1 .. k + 1 : base[l] <= u) => Leads(others[c], next[c], u)
  <2>1. Sampled(others[c])
    BY DEF AllSampled
  <2>2. CASE next[c] = sofar.cursors[c]
    BY <2>2, <1>1, <1>4 DEF CursorsLead
  <2>3. CASE next[c] = new[c]
    <3>1. new[c] \in 1 .. Len(others[c])
      BY <1>4, MovedFinds
    <3>2. \A l \in 1 .. Len(others[c]) : Distance(others[c][new[c]], t) <= Distance(others[c][l], t)
      BY <1>4, MovedFinds
    <3> HIDE DEF new, t
    <3>3. Leads(others[c], new[c], t)
      <4>1. \A l \in 1 .. new[c] - 1 : l \in 1 .. Len(others[c])
        BY <2>1, <3>1, SampledFacts
      <4> QED BY <3>2, <4>1 DEF Leads
    <3>4. ASSUME NEW u \in Int, \A l \in 1 .. k + 1 : base[l] <= u PROVE Leads(others[c], new[c], u)
      <4>1. t <= u
        BY <1>1, <3>4 DEF t
      <4> QED BY <2>1, <3>1, <3>3, <4>1, <1>1, LeadsLater
    <3> QED BY <2>3, <3>1, <3>4
  <2> QED BY <1>2, <2>2, <2>3
<1> HIDE DEF t, new
<1>5. CursorsLead(base, others, k + 1, next)
  BY <1>3, <1>4 DEF CursorsLead
<1> QED BY <1>5 DEF next, t

\* One more base reading, and the rows are those they should be.
LEMMA JoinedRows ==
    ASSUME NEW base, Sampled(base), NEW others, AllSampled(others), NEW k \in Nat, k + 1 <= Len(base),
           NEW sofar, CursorsLead(base, others, k, sofar.cursors), RowsNearest(base, others, k, sofar.rows)
    PROVE  RowsNearest(base, others, k + 1, Joined(sofar, others, base[k + 1]).rows)
<1> DEFINE t == base[k + 1]
           new == Moved(sofar.cursors, others, t)
           row == [time |-> t, picks |-> new]
           rows == sofar.rows
           next == Joined(sofar, others, t).rows
<1>1. /\ t \in Int /\ k + 1 \in 1 .. k + 1
      /\ \A l \in 1 .. k : l \in 1 .. k + 1 /\ base[l] < t
      /\ \A l \in 1 .. k + 1 : l \in 1 .. k \/ l = k + 1
  <2>1. k + 1 \in 1 .. Len(base) /\ \A l \in 1 .. k : l \in 1 .. Len(base) /\ l < k + 1
    BY SampledFacts
  <2> QED BY <2>1, SampledFacts
<1>2. new \in [DOMAIN others -> Nat]
  BY MovedFinds
<1>3. \A c \in DOMAIN others : others[c] # <<>> =>
         /\ new[c] \in 1 .. Len(others[c])
         /\ \A l \in 1 .. Len(others[c]) : Distance(others[c][new[c]], t) <= Distance(others[c][l], t)
  BY MovedFinds
<1>4. next = IF Found(new, others, t) = DOMAIN others THEN Append(rows, row) ELSE rows
  BY DEF Joined
<1> HIDE DEF new, next, t
<1>5. Found(new, others, t) = DOMAIN others <=> Covered(others, t)
  BY <1>1, <1>3, FoundIsCovered
<1>6. CASE ~ Covered(others, t)
  <2>1. next = rows
    BY <1>4, <1>5, <1>6
  <2>2. base[k + 1] = t
    BY DEF t
  <2>3. RowsNearest(base, others, k + 1, next)
    BY <1>1, <1>6, <2>1, <2>2 DEF RowsNearest
  <2> QED BY <2>3 DEF next, t
<1>7. CASE Covered(others, t)
  <2> DEFINE R == [time : Int, picks : [DOMAIN others -> Nat]]
  <2>1. next = Append(rows, row)
    BY <1>4, <1>5, <1>7
  <2>2. rows \in Seq(R) /\ row \in R
    BY <1>1, <1>2 DEF RowsNearest
  <2>3. /\ next \in Seq(R) /\ Len(next) = Len(rows) + 1 /\ Len(rows) \in Nat
        /\ DOMAIN next = 1 .. Len(rows) + 1 /\ DOMAIN rows = 1 .. Len(rows)
        /\ next[Len(rows) + 1] = row
        /\ \A r \in 1 .. Len(rows) : next[r] = rows[r]
    <3> HIDE DEF R, row
    <3> QED BY <2>1, <2>2
  <2>4. row.time = t /\ row.picks = new /\ t = base[k + 1]
    BY DEF t
  <2>5. NearestIn(others, new, t)
    <3>1. ASSUME NEW c \in DOMAIN others PROVE others[c] # <<>>
      <4>1. PICK s \in Range(others[c]) : TRUE
        BY <1>7 DEF Covered
      <4> QED BY <4>1 DEF Range
    <3>2. ASSUME NEW c \in DOMAIN others
          PROVE  /\ new[c] \in DOMAIN others[c]
                 /\ \A s \in Range(others[c]) : Distance(others[c][new[c]], t) <= Distance(s, t)
      <4>1. Sampled(others[c])
        BY DEF AllSampled
      <4>2. new[c] \in 1 .. Len(others[c]) /\ \A l \in 1 .. Len(others[c]) : Distance(others[c][new[c]], t) <= Distance(others[c][l], t)
        BY <3>1, <1>3
      <4> QED BY <4>1, <4>2, SampledFacts
    <3> QED BY <3>2 DEF NearestIn
  <2> HIDE DEF R, row
  <2>6. \A r \in DOMAIN next : r \in DOMAIN rows \/ r = Len(rows) + 1
    BY <2>3
  <2>7. \A r \in DOMAIN next : /\ \E l \in 1 .. k + 1 : next[r].time = base[l]
                               /\ Covered(others, next[r].time)
                               /\ NearestIn(others, next[r].picks, next[r].time)
    <3> TAKE r \in DOMAIN next
    <3>1. CASE r \in DOMAIN rows
      BY <3>1, <2>3, <1>1 DEF RowsNearest
    <3>2. CASE r = Len(rows) + 1
      BY <3>2, <2>3, <2>4, <2>5, <1>1, <1>7
    <3> QED BY <3>1, <3>2, <2>6
  <2>8. \A l \in 1 .. k + 1 : Covered(others, base[l]) => \E r \in DOMAIN next : next[r].time = base[l]
    <3> TAKE l \in 1 .. k + 1
    <3>1. ASSUME l \in 1 .. k, Covered(others, base[l])
          PROVE  \E r \in DOMAIN next : next[r].time = base[l]
      <4>1. PICK r \in DOMAIN rows : rows[r].time = base[l]
        BY <3>1 DEF RowsNearest
      <4>2. r \in DOMAIN next /\ next[r] = rows[r]
        BY <2>3
      <4> QED BY <4>1, <4>2
    <3>2. CASE l = k + 1
      <4>1. Len(rows) + 1 \in DOMAIN next /\ next[Len(rows) + 1].time = base[l]
        BY <3>2, <2>3, <2>4
      <4> QED BY <4>1
    <3> QED BY <3>1, <3>2, <1>1
  <2>9. \A q, r \in DOMAIN next : q < r => next[q].time < next[r].time
    <3> TAKE q, r \in DOMAIN next
    <3> SUFFICES ASSUME q < r PROVE next[q].time < next[r].time
      OBVIOUS
    <3>1. q \in DOMAIN rows /\ next[q] = rows[q]
      BY <2>3
    <3>2. CASE r \in DOMAIN rows
      BY <3>1, <3>2, <2>3 DEF RowsNearest
    <3>3. CASE r = Len(rows) + 1
      <4>1. PICK l \in 1 .. k : rows[q].time = base[l]
        BY <3>1 DEF RowsNearest
      <4> QED BY <4>1, <3>1, <3>3, <2>3, <2>4, <1>1
    <3> QED BY <3>2, <3>3, <2>6
  <2>10. RowsNearest(base, others, k + 1, next)
    BY <2>3, <2>7, <2>8, <2>9 DEF RowsNearest, R
  <2> QED BY <2>10 DEF next, t
<1> QED BY <1>6, <1>7

\* What AlignSeries has after each of the first n base readings.
After(base, others, n, f) ==
    f = [k \in 0 .. n |-> IF k = 0 THEN NothingJoined(others)
                          ELSE Joined(f[k - 1], others, base[k])]

\* The recursion has a solution: there is no least length without one.
LEMMA AfterExists ==
    ASSUME NEW base, NEW others, NEW n \in Nat
    PROVE  \E f : After(base, others, n, f)
<1> DEFINE without == {m \in Nat : ~ \E f : After(base, others, m, f)}
<1> SUFFICES ASSUME without # {} PROVE FALSE
  OBVIOUS
<1>1. PICK m \in without : \A j \in without : m <= j
  <2> HIDE DEF without
  <2>1. without \subseteq Nat
    BY DEF without
  <2> QED BY <2>1, LeastNumber
<1>2. m \in Nat /\ ~ \E f : After(base, others, m, f)
  BY <1>1
<1> HIDE DEF without
<1>3. CASE m = 0
  <2> DEFINE g == [k \in 0 .. 0 |-> NothingJoined(others)]
  <2>1. \A k \in 0 .. 0 : k = 0
    OBVIOUS
  <2>2. g = [k \in 0 .. 0 |-> IF k = 0 THEN NothingJoined(others) ELSE Joined(g[k - 1], others, base[k])]
    BY <2>1
  <2>3. After(base, others, m, g)
    BY <1>3, <2>2 DEF After
  <2> QED BY <1>2, <2>3
<1>4. CASE m # 0
  <2>1. m - 1 \in Nat /\ ~(m <= m - 1)
    BY <1>2, <1>4
  <2>2. PICK f : After(base, others, m - 1, f)
    BY <1>1, <2>1 DEF without
  <2> DEFINE g == [k \in 0 .. m |-> IF k <= m - 1 THEN f[k] ELSE Joined(f[m - 1], others, base[m])]
  <2>3. ASSUME NEW k \in 0 .. m
        PROVE  g[k] = IF k = 0 THEN NothingJoined(others) ELSE Joined(g[k - 1], others, base[k])
    <3>1. CASE k = 0
      BY <3>1, <2>1, <2>2 DEF After
    <3>2. CASE k # 0 /\ k <= m - 1
      <4>1. k \in 0 .. m - 1 /\ k - 1 \in 0 .. m /\ k - 1 <= m - 1
        BY <3>2, <2>1, <1>2
      <4>2. g[k] = f[k] /\ g[k - 1] = f[k - 1]
        BY <3>2, <4>1
      <4>3. f[k] = Joined(f[k - 1], others, base[k])
        BY <2>2, <3>2, <4>1 DEF After
      <4> QED BY <3>2, <4>2, <4>3
    <3>3. CASE k = m
      <4>1. m - 1 \in 0 .. m /\ m \in 0 .. m /\ m - 1 <= m - 1
        BY <2>1, <1>2
      <4>2. g[m - 1] = f[m - 1] /\ g[m] = Joined(f[m - 1], others, base[m])
        BY <4>1, <2>1
      <4> QED BY <3>3, <1>4, <4>2
    <3>4. k = m \/ k <= m - 1
      BY <2>1, <1>2
    <3> QED BY <3>1, <3>2, <3>3, <3>4
  <2>4. g = [k \in 0 .. m |-> IF k = 0 THEN NothingJoined(others) ELSE Joined(g[k - 1], others, base[k])]
    <3>1. g = [k \in 0 .. m |-> g[k]]
      OBVIOUS
    <3> HIDE DEF g
    <3> QED BY <2>3, <3>1
  <2>5. After(base, others, m, g)
    BY <2>4 DEF After
  <2> QED BY <1>2, <2>5
<1> QED BY <1>3, <1>4

\* After every base reading the cursors lead and the rows are those they should be.
LEMMA AfterEach ==
    ASSUME NEW base, Sampled(base), NEW others, AllSampled(others), NEW f,
           After(base, others, Len(base), f)
    PROVE  \A k \in 0 .. Len(base) :
              CursorsLead(base, others, k, f[k].cursors) /\ RowsNearest(base, others, k, f[k].rows)
<1> DEFINE holds(k) == CursorsLead(base, others, k, f[k].cursors) /\ RowsNearest(base, others, k, f[k].rows)
           failing == {k \in 0 .. Len(base) : ~holds(k)}
<1>1. Len(base) \in Nat
  BY SampledFacts
<1>2. holds(0)
  <2>1. f[0] = NothingJoined(others)
    BY <1>1 DEF After
  <2>2. f[0].cursors = [c \in DOMAIN others |-> 1] /\ f[0].rows = <<>>
    BY <2>1 DEF NothingJoined
  <2>3. CursorsLead(base, others, 0, [c \in DOMAIN others |-> 1])
    <3>1. ASSUME NEW c \in DOMAIN others, others[c] # <<>>
          PROVE  1 \in 1 .. Len(others[c]) /\ \A t \in Int : Leads(others[c], 1, t)
      BY <3>1 DEF AllSampled, Sampled, Leads
    <3> QED BY <3>1 DEF CursorsLead
  <2>4. RowsNearest(base, others, 0, <<>>)
    BY DEF RowsNearest
  <2> QED BY <2>2, <2>3, <2>4
<1>3. ASSUME NEW k \in Nat, k + 1 <= Len(base), holds(k) PROVE holds(k + 1)
  <2>1. f[k + 1] = Joined(f[k], others, base[k + 1])
    <3>1. k + 1 \in 0 .. Len(base) /\ k + 1 # 0 /\ k + 1 - 1 = k
      BY <1>1, <1>3
    <3> QED BY <3>1 DEF After
  <2> QED BY <1>3, <2>1, JoinedLeads, JoinedRows
<1> SUFFICES ASSUME failing # {} PROVE FALSE
  OBVIOUS
<1>4. PICK m \in failing : \A j \in failing : m <= j
  <2>1. failing \subseteq Nat
    OBVIOUS
  <2> HIDE DEF failing
  <2> QED BY <2>1, LeastNumber
<1>5. m \in Nat /\ m <= Len(base) /\ ~holds(m) /\ m # 0
  BY <1>1, <1>2, <1>4
<1>6. m - 1 \in Nat /\ m - 1 + 1 = m /\ m - 1 \in 0 .. Len(base) /\ ~(m <= m - 1)
  BY <1>1, <1>5
<1>7. holds(m - 1)
  <2>1. m - 1 \notin failing
    BY <1>4, <1>6
  <2> QED BY <1>6, <2>1
<1> HIDE DEF holds
<1> QED BY <1>3, <1>5, <1>6, <1>7

\* align_series joins any series in the order of time with any others as it should: one
\* row for each base reading that all the others have a reading in range of, and no
\* reading nearer to it than the one that is picked.
THEOREM AlignedIsNearest ==
    ASSUME NEW base, Sampled(base), NEW others, AllSampled(others)
    PROVE  NearestRows(AlignSeries(base, others), base, others)
<1> DEFINE f == CHOOSE f : After(base, others, Len(base), f)
           rows == f[Len(base)].rows
<1>1. Len(base) \in Nat /\ Len(base) \in 0 .. Len(base)
  BY SampledFacts
<1>2. After(base, others, Len(base), f)
  BY <1>1, AfterExists
<1>3. AlignSeries(base, others) = rows
  BY DEF AlignSeries, After
<1> HIDE DEF f
<1>4. RowsNearest(base, others, Len(base), rows)
  BY <1>1, <1>2, AfterEach
<1> HIDE DEF rows
<1>5. {rows[r].time : r \in DOMAIN rows}
        = {t \in Range(base) : \A c \in DOMAIN others : \E s \in Range(others[c]) : InRange(s, t)}
  <2>1. ASSUME NEW r \in DOMAIN rows PROVE rows[r].time \in Range(base) /\ Covered(others, rows[r].time)
    BY <1>4, SampledFacts DEF RowsNearest
  <2>2. ASSUME NEW t \in Range(base), Covered(others, t) PROVE \E r \in DOMAIN rows : t = rows[r].time
    BY <1>4, <2>2, SampledFacts DEF RowsNearest
  <2> QED BY <2>1, <2>2 DEF Covered
<1>6. InOrder([r \in DOMAIN rows |-> rows[r].time])
  BY <1>4 DEF RowsNearest, InOrder
<1>7. \A r \in DOMAIN rows : NearestIn(others, rows[r].picks, rows[r].time)
  BY <1>4 DEF RowsNearest
<1> QED BY <1>3, <1>5, <1>6, <1>7 DEF NearestRows, NearestIn

-----------------------------------------------------------------------------
(* What the worker reads is a series, at any time. *)

\* The readings are among those InfluxDB may hold.
SeriesKnown == series \in SeriesCases

\* No step changes the readings.
LEMMA SeriesStay == [Next]_vars => UNCHANGED series
<1> USE DEF data, qualityVars
<1>1. QualityNext => UNCHANGED series
  BY DEF QualityNext, Beat, Take, Run, ScanDevices, ComputeOutputs, WriteDerived, PublishDiscovery,
         CheckChannel, FinishCheck, TaskFails, WorkerLost, Register, RegisterFails
<1>2. Consume => UNCHANGED series
  BY DEF Consume, Poll, Skip, StartCooldown, SendEmail, Commit
<1>3. ReachableChanges \/ StreamAlarm \/ EmailFails \/ Restart \/ (\E c \in Channel : Expire(c))
         => UNCHANGED series
  BY DEF ReachableChanges, StreamAlarm, EmailFails, Restart, Expire
<1> QED BY <1>1, <1>2, <1>3 DEF Next, vars

\* So they are known in every state.
LEMMA AlwaysKnown == Spec => []SeriesKnown
<1>1. Init => SeriesKnown
  BY DEF Init, QualityInit, SeriesKnown
<1>2. SeriesKnown /\ [Next]_vars => SeriesKnown'
  BY SeriesStay DEF SeriesKnown
<1> QED BY <1>1, <1>2, PTL DEF Spec

\* align_series in executor.py joins a channel that one gateway heard with one or two
\* others, each heard by one gateway too, as its docstring says, among whatever series
\* InfluxDB holds.
THEOREM SeriesAreAligned == Spec => []AlignmentIsNearest
<1>1. SeriesKnown => AlignmentIsNearest
  <2> SUFFICES ASSUME SeriesKnown, NEW c \in Channel, NEW s1 \in AlignSample, NEW s2 \in AlignSample,
                      InOrder(series[c]), InOrder(s1), InOrder(s2),
                      NEW others \in {<<s1>>, <<s1, s2>>}
               PROVE  NearestRows(AlignSeries(series[c], others), series[c], others)
    BY DEF AlignmentIsNearest
  <2>1. Sampled(series[c]) /\ Sampled(s1) /\ Sampled(s2)
    BY SeriesAssumption, SampleAssumption DEF SeriesKnown, Sampled
  <2>2. s1 \in Seq(Int) /\ s2 \in Seq(Int)
    BY <2>1 DEF Sampled
  <2>3. AllSampled(others)
    <3>1. CASE others = <<s1>>
      BY <2>1, <2>2, <3>1 DEF AllSampled
    <3>2. CASE others = <<s1, s2>>
      BY <2>1, <2>2, <3>2 DEF AllSampled
    <3> QED BY <3>1, <3>2
  <2> QED BY <2>1, <2>3, AlignedIsNearest
<1> QED BY <1>1, AlwaysKnown, PTL

\* Of the series InfluxDB holds, and any others, those that one gateway heard are alarmed
\* about just when they have gaps.
THEOREM GapsFound == Spec => []GapsAreFound
<1>1. SeriesKnown => GapsAreFound
  <2> SUFFICES ASSUME SeriesKnown, NEW readings \in GapSample \cup Range(series),
                      InOrder(readings)
               PROVE  Patchy(readings) <=> HasGaps(readings)
    BY DEF GapsAreFound
  <2>1. Sampled(readings)
    BY SeriesAssumption, SampleAssumption DEF SeriesKnown, Range, Sampled
  <2> QED BY <2>1, PatchyIsGaps
<1> QED BY <1>1, AlwaysKnown, PTL
=============================================================================
