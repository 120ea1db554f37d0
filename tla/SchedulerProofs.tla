--------------------------- MODULE SchedulerProofs ---------------------------
(***************************************************************************)
(* Two parts: the safety properties of Scheduler, for any number of        *)
(* schedules, any clock, any number of faults and any capacity of the      *)
(* queue, and those of the other component that lives by a timer, the      *)
(* polling ThreadsPage of the console, for any threads, runs, routes,      *)
(* calls in flight and troubles.                                           *)
(***************************************************************************)
EXTENDS Scheduler, ThreadsView, SequenceTheorems, FiniteSetTheorems, TLAPS

(* A popped message has the id and the interval of a row that was inserted. *)
Known == {m \in Pending : m.id \in 1 .. Len(asked) /\ m.every = asked[m.id]}

OriginsAreKept ==
    /\ queue \in Seq(Known)
    /\ worker.batch \in Seq(Known)
    /\ \A i \in DOMAIN pending : pending[i].every = asked[i]

(* A pending schedule is not deleted, and a one-shot message is delivered  *)
(* or deleted only when it is no longer pending, once; one that the        *)
(* receiver has acknowledged and not handed over yet is neither.           *)
Settled(i) ==
    /\ delivered[i] = 0 \/ (delivered[i] = 1 /\ i \notin deleted)
    /\ i \in DOMAIN pending => delivered[i] = 0
    /\ receiver.at = "take" /\ receiver.active /\ Head(queue).id = i
         => i \notin DOMAIN pending /\ i \notin deleted /\ delivered[i] = 0

SettlementIsFinal ==
    /\ DOMAIN pending \cap deleted = {}
    /\ \A i \in Id : i > Len(asked) => delivered[i] = 0
    /\ \A i \in DOMAIN asked : asked[i] = 0 => Settled(i)

(* Between reading the index and going to sleep, what is added is told. *)
Covered == \A d \in dues : \E t \in worker.alarm : t <= d.due

SleepersAreCovered ==
    worker.at = "sleep" => wake \/ unsignalled > 0 \/ abandoned \/ Covered

SInv ==
    /\ TypeOK
    /\ MemoryIsStorage
    /\ OriginsAreKept
    /\ SettlementIsFinal
    /\ SleepersAreCovered
    /\ NoWakeupIsLost

(* Where the occurrences of a schedule are, from the index to the receiver. *)
Held(u, i)   == \E k \in DOMAIN u : u[k].id = i
Single(u, i) == \E k \in DOMAIN u : \A l \in DOMAIN u : u[l].id = i <=> l = k

Placed ==
    \A i \in DOMAIN pending :
        IF pending[i].every > 0 THEN DueOf(pending, i) \in dues
        ELSE IF DueOf(pending, i) \in dues THEN ~Held(Underway, i) ELSE Single(Underway, i)

(* What is popped was due, and the next occurrence is an interval later.   *)
Spaced ==
    /\ \A k \in DOMAIN Underway : Underway[k].due <= clock
    /\ \A i \in DOMAIN asked : asked[i] > 0 => \A k \in DOMAIN Underway : Underway[k].id = i =>
         /\ \A l \in DOMAIN Underway :
                k < l /\ Underway[l].id = i => Underway[l].due >= Underway[k].due + asked[i]
         /\ i \in DOMAIN pending => pending[i].due >= Underway[k].due + asked[i]

(* The worker has a batch only while it fills the queue, and the receiver  *)
(* hands over a one-shot message only when its schedule is gone.           *)
HandsAreEmpty ==
    /\ worker.now <= clock
    /\ worker.at # "enqueue" => worker.batch = <<>>
    /\ receiver.at = "take" /\ asked[Head(queue).id] = 0 => Head(queue).id \notin DOMAIN pending

PInv == Placed /\ Spaced /\ HandsAreEmpty

----------------------------------------------------------------------------
(* Facts about data. *)

(* Appending to a nonempty queue leaves its head where it is. *)
LEMMA AppendKeepsHead ==
    ASSUME NEW S, NEW s \in Seq(S), s # <<>>, NEW e \in S
    PROVE  Head(Append(s, e)) = Head(s)
  BY AppendProperties, EmptySeq

(* A nonempty set of due times has a least one. *)
LEMMA LeastDue ==
    ASSUME NEW D, D # {}, \A d \in D : d.due \in Nat
    PROVE  \E d \in D : \A e \in D : d.due <= e.due
  <1> DEFINE T == {0 .. d.due : d \in D}
  <1>1. IsWellFoundedOn(StrictSubsetOrdering(Nat), FiniteSubsetsOf(Nat))
    BY FS_StrictSubsetOrderingWellFounded
  <1>2. T \subseteq FiniteSubsetsOf(Nat)
    <2> SUFFICES ASSUME NEW d \in D PROVE 0 .. d.due \in FiniteSubsetsOf(Nat)
      OBVIOUS
    <2>1. d.due \in Nat
      OBVIOUS
    <2>2. IsFiniteSet(0 .. d.due)
      BY <2>1, FS_Interval
    <2> QED
      BY <2>1, <2>2 DEF FiniteSubsetsOf
  <1>3. PICK I \in T : \A J \in T : ~ (<<J, I>> \in StrictSubsetOrdering(Nat))
    <2>1. T # {}
      OBVIOUS
    <2> HIDE DEF T
    <2> QED
      BY <1>1, <1>2, <2>1, WFMin
  <1>4. PICK d \in D : I = 0 .. d.due
    OBVIOUS
  <1>5. ASSUME NEW e \in D PROVE d.due <= e.due
    <2>1. d.due \in Nat /\ e.due \in Nat
      OBVIOUS
    <2>2. SUFFICES ASSUME e.due < d.due PROVE FALSE
      BY <2>1
    <2>3. 0 .. e.due \subseteq I /\ 0 .. e.due # I /\ I \subseteq Nat
      BY <1>4, <2>1, <2>2
    <2> QED
      BY <1>3, <2>3 DEF StrictSubsetOrdering
  <1> QED
    BY <1>5

(* The place of a schedule in the order of a set of them. *)
RankIn(S, i) == Cardinality({j \in S : Before(j, i)}) + 1

(* What expires together has an order without gaps or ties. *)
LEMMA RanksAreAnOrder ==
    ASSUME NEW S, S \subseteq DOMAIN pending, IsFiniteSet(S),
           \A i \in S : i \in Nat /\ pending[i].due \in Nat
    PROVE  /\ Cardinality(S) \in Nat
           /\ \A i \in S : RankIn(S, i) \in 1 .. Cardinality(S)
           /\ \A i, j \in S : RankIn(S, i) = RankIn(S, j) => i = j
           /\ \A k \in 1 .. Cardinality(S) : \E i \in S : RankIn(S, i) = k
  <1> DEFINE P(i)    == {j \in S : Before(j, i)}
             Rank(i) == Cardinality(P(i)) + 1
             n       == Cardinality(S)
             r       == [i \in S |-> Rank(i)]
  <1>1. n \in Nat
    BY FS_CardinalityType
  <1>2. ASSUME NEW i \in S PROVE IsFiniteSet(P(i)) /\ Cardinality(P(i)) \in Nat
    BY FS_Subset, FS_CardinalityType
  <1>3. ASSUME NEW i \in S PROVE Rank(i) \in 1 .. n
    <2>1. P(i) \subseteq S \ {i}
      BY DEF Before
    <2>2. IsFiniteSet(S \ {i}) /\ Cardinality(S \ {i}) = n - 1
      BY FS_RemoveElement
    <2>3. Cardinality(P(i)) <= n - 1
      BY <2>1, <2>2, FS_Subset
    <2> HIDE DEF P
    <2> QED
      BY <1>1, <1>2, <2>3
  <1>4. ASSUME NEW i \in S, NEW j \in S, Before(i, j) PROVE Rank(i) < Rank(j)
    <2>1. P(i) \cup {i} \subseteq P(j) /\ i \notin P(i)
      BY <1>4 DEF Before
    <2>2. /\ IsFiniteSet(P(i) \cup {i})
          /\ Cardinality(P(i) \cup {i}) = Cardinality(P(i)) + 1
      BY <1>2, <2>1, FS_AddElement
    <2>3. Cardinality(P(i) \cup {i}) <= Cardinality(P(j))
      BY <1>2, <2>1, FS_Subset
    <2> HIDE DEF P
    <2> QED
      BY <1>2, <2>2, <2>3
  <1>5. r \in Injection(S, 1 .. n)
    <2>1. r \in [S -> 1 .. n]
      BY <1>3
    <2>2. ASSUME NEW i \in S, NEW j \in S, r[i] = r[j] PROVE i = j
      <3>1. Before(i, j) \/ Before(j, i) \/ i = j
        BY DEF Before
      <3>2. Rank(i) \in Nat /\ Rank(j) \in Nat /\ Rank(i) = Rank(j)
        BY <1>2, <2>2
      <3> HIDE DEF Rank
      <3> QED
        BY <1>4, <3>1, <3>2
    <2> QED
      BY <2>1, <2>2 DEF Injection, IsInjective
  <1>6. r \in Surjection(S, 1 .. n)
    <2>1. IsFiniteSet(1 .. n) /\ Cardinality(1 .. n) = n
      BY <1>1, FS_Interval
    <2> HIDE DEF r
    <2> QED
      BY <1>5, <2>1, FS_Injection
  <1>7. \A k \in 1 .. n : \E i \in S : r[i] = k
    BY <1>6 DEF Surjection
  <1>8. \A i, j \in S : r[i] = r[j] => i = j
    BY <1>5 DEF Injection, IsInjective
  <1>9. \A i \in S : RankIn(S, i) = r[i] /\ r[i] \in 1 .. n
    BY <1>3 DEF RankIn
  <1> HIDE DEF r
  <1> QED
    BY <1>1, <1>7, <1>8, <1>9

(* The batch is a sequence of them. *)
LEMMA InOrderIsASequence ==
    ASSUME NEW S, S \subseteq DOMAIN pending, IsFiniteSet(S),
           \A i \in S : i \in Nat /\ pending[i].due \in Nat
    PROVE  /\ InOrder(S) \in Seq({Message(i) : i \in S})
           /\ Len(InOrder(S)) = Cardinality(S)
  <1> DEFINE n     == Cardinality(S)
             At(k) == CHOOSE i \in S : RankIn(S, i) = k
  <1>1. n \in Nat /\ \A k \in 1 .. n : At(k) \in S
    BY RanksAreAnOrder
  <1>2. InOrder(S) = [k \in 1 .. n |-> Message(At(k))]
    BY DEF InOrder, RankIn
  <1> HIDE DEF At
  <1>3. InOrder(S) \in [1 .. n -> {Message(i) : i \in S}]
    BY <1>1, <1>2
  <1> QED
    BY <1>1, <1>3, SeqDef, LenProperties

(* It holds each of them once. *)
LEMMA InOrderHoldsEach ==
    ASSUME NEW S, S \subseteq DOMAIN pending, IsFiniteSet(S),
           \A i \in S : i \in Nat /\ pending[i].due \in Nat
    PROVE  /\ \A k \in DOMAIN InOrder(S) :
                /\ InOrder(S)[k].id \in S
                /\ InOrder(S)[k].due = pending[InOrder(S)[k].id].due
           /\ \A i \in S : Single(InOrder(S), i)
  <1> DEFINE n     == Cardinality(S)
             At(k) == CHOOSE i \in S : RankIn(S, i) = k
             b     == [k \in 1 .. n |-> Message(At(k))]
  <1>1. /\ n \in Nat
        /\ \A i \in S : RankIn(S, i) \in 1 .. n
        /\ \A i, j \in S : RankIn(S, i) = RankIn(S, j) => i = j
        /\ \A k \in 1 .. n : \E i \in S : RankIn(S, i) = k
    BY RanksAreAnOrder
  <1>2. \A k \in 1 .. n : At(k) \in S /\ RankIn(S, At(k)) = k
    BY <1>1
  <1>3. InOrder(S) = b
    BY DEF InOrder, RankIn
  <1>4. \A i : Message(i).id = i /\ Message(i).due = pending[i].due
    BY DEF Message
  <1> HIDE DEF At
  <1>5. DOMAIN b = 1 .. n /\ \A k \in 1 .. n : b[k].id = At(k) /\ b[k].due = pending[At(k)].due
    BY <1>4
  <1> HIDE DEF b
  <1>6. ASSUME NEW i \in S PROVE Single(b, i)
    <2>1. \A l \in DOMAIN b : b[l].id = i <=> l = RankIn(S, i)
      BY <1>1, <1>2, <1>5
    <2> QED
      BY <1>1, <1>5, <2>1 DEF Single
  <1> QED
    BY <1>2, <1>3, <1>5, <1>6

----------------------------------------------------------------------------
(* The inductive invariant. *)

(* The empty scheduler satisfies the invariant. *)
LEMMA InitIsSound == Init => SInv
  <1> SUFFICES ASSUME Init PROVE SInv
    OBVIOUS
  <1>1. TypeOK
    <2>1. <<>> \in Seq(Pending) /\ <<>> \in Seq(Nat) /\ Len(<<>>) = 0
      BY EmptySeq
    <2>2. DOMAIN <<>> = {}
      OBVIOUS
    <2>3. worker \in [at : Phase, now : Nat, batch : Seq(Pending), slept : Nat,
                      alarm : SUBSET Nat]
      BY <2>1 DEF Init, Asleep, Phase
    <2>4. receiver \in [at : Stage, active : BOOLEAN] /\ receiver.at = "peek"
      BY DEF Init, Idle, Stage
    <2>5. wake \in BOOLEAN /\ abandoned \in BOOLEAN
      BY DEF Init
    <2>6. delivered \in [Id -> Nat]
      BY DEF Init
    <2>7. /\ asked \in Seq(Nat) /\ Len(asked) <= MaxId
          /\ queue \in Seq(Pending) /\ Len(queue) <= Capacity
      BY <2>1, BoundsAssumption DEF Init
    <2>8. /\ DOMAIN rows = {} /\ DOMAIN pending = {} /\ dues = {} /\ deleted = {}
          /\ clock = 0 /\ unsignalled = 0 /\ faults = 0
      BY <2>2 DEF Init
    <2> QED
      BY <2>3, <2>4, <2>5, <2>6, <2>7, <2>8, BoundsAssumption DEF TypeOK
  <1>2. MemoryIsStorage
    BY DEF Init, MemoryIsStorage
  <1>3. OriginsAreKept
    BY EmptySeq DEF Init, OriginsAreKept, Asleep
  <1>4. SettlementIsFinal
    BY DEF Init, SettlementIsFinal
  <1>5. SleepersAreCovered /\ NoWakeupIsLost
    BY DEF Init, Asleep, SleepersAreCovered, NoWakeupIsLost
  <1> QED
    BY <1>1, <1>2, <1>3, <1>4, <1>5 DEF SInv

(* The parts of the invariant a step does not touch. *)
LEMMA StutteringIsSound == SInv /\ UNCHANGED vars => SInv'
  BY DEF SInv, vars, memory, TypeOK, MemoryIsStorage, IndexOf, DueOf, OriginsAreKept,
         Known, SettlementIsFinal, Settled, SleepersAreCovered, Covered, NoWakeupIsLost

(* The ids of the pending schedules are finitely many. *)
LEMMA IdsAreFinite ==
    ASSUME SInv
    PROVE  /\ Len(asked) \in Nat /\ 1 .. Len(asked) \subseteq Id
           /\ DOMAIN pending \subseteq 1 .. Len(asked)
           /\ IsFiniteSet(DOMAIN pending)
  <1>1. /\ Len(asked) \in Nat /\ Len(asked) <= MaxId
        /\ DOMAIN pending \subseteq 1 .. Len(asked)
    BY LenProperties DEF SInv, TypeOK
  <1>2. 1 .. Len(asked) \subseteq Id
    BY <1>1, BoundsAssumption DEF Id
  <1>3. IsFiniteSet(1 .. Len(asked))
    BY <1>1, FS_Interval
  <1> QED
    BY <1>1, <1>2, <1>3, FS_Subset

(* Steps that leave the schedules, the queue and the deliveries alone. *)
LEMMA SchedulesAreKept ==
    ASSUME SInv, UNCHANGED <<rows, pending, dues, asked, queue, delivered, deleted>>,
           worker'.batch \in Seq(Known),
           receiver' = receiver \/ receiver'.at # "take"
    PROVE  MemoryIsStorage' /\ OriginsAreKept' /\ SettlementIsFinal'
  <1>1. MemoryIsStorage'
    BY DEF SInv, MemoryIsStorage, IndexOf, DueOf
  <1>2. Known' = Known
    BY DEF Known
  <1>3. OriginsAreKept'
    BY <1>2 DEF SInv, OriginsAreKept
  <1>4. SettlementIsFinal'
    BY DEF SInv, SettlementIsFinal, Settled
  <1> QED
    BY <1>1, <1>3, <1>4

(* A worker that stays where it is is not told less than before. *)
LEMMA SleepersAreKept ==
    ASSUME SInv, worker' = worker, dues' \subseteq dues,
           \/ UNCHANGED <<wake, unsignalled, abandoned>>
           \/ wake' \/ unsignalled' > 0 \/ abandoned'
    PROVE  SleepersAreCovered' /\ NoWakeupIsLost'
  BY DEF SInv, SleepersAreCovered, Covered, NoWakeupIsLost

(* A worker that is up needs no wake-up. *)
LEMMA AwakeIsCovered ==
    ASSUME worker'.at \notin {"sleep", "wait"}
    PROVE  SleepersAreCovered' /\ NoWakeupIsLost'
  BY DEF SleepersAreCovered, NoWakeupIsLost

(* A new row gets a fresh id, so nothing that is settled is touched. *)
LEMMA AddScheduleIsSound ==
    ASSUME SInv, NEW now \in Nat, NEW delay \in Nat, NEW every \in Nat,
           AddSchedule(now, delay, every)
    PROVE  SInv'
  <1> PICK i \in Id : i = Len(asked) + 1
    BY DEF AddSchedule
  <1> DEFINE s == [due |-> now + delay, every |-> every]
  <1>1. /\ asked' = Append(asked, every)
        /\ rows' = Put(rows, i, s) /\ pending' = Put(pending, i, s)
        /\ dues' = dues \cup {[due |-> s.due, id |-> i]}
        /\ unsignalled' = unsignalled + 1
        /\ UNCHANGED <<clock, wake, abandoned, queue, worker, receiver,
                       delivered, deleted, faults>>
    BY DEF AddSchedule
  <1>2. /\ asked' \in Seq(Nat) /\ Len(asked') = i /\ asked'[i] = every
        /\ Len(asked) \in Nat /\ i = Len(asked) + 1
        /\ \A j \in 1 .. Len(asked) : asked'[j] = asked[j]
    BY <1>1, AppendProperties, LenProperties DEF SInv, TypeOK
  <1>3. s \in Schedule /\ s.every = every
    BY DEF Schedule
  <1> HIDE DEF s
  <1>4. i \notin DOMAIN pending /\ i \notin DOMAIN rows
    BY <1>2 DEF SInv, TypeOK
  <1>5. /\ DOMAIN pending' = DOMAIN pending \cup {i} /\ pending'[i] = s
        /\ \A j \in DOMAIN pending : pending'[j] = pending[j]
    BY <1>1, <1>4 DEF Put
  <1>6. /\ DOMAIN rows' = DOMAIN rows \cup {i} /\ rows'[i] = s
        /\ \A j \in DOMAIN rows : rows'[j] = rows[j]
    BY <1>1, <1>4 DEF Put
  <1>7. TypeOK'
    <2>1. Len(asked') <= MaxId
      BY <1>1, <1>2 DEF Id
    <2>2. /\ DOMAIN rows' \subseteq 1 .. Len(asked')
          /\ \A j \in DOMAIN rows' : rows'[j] \in Schedule
      <3>1. DOMAIN rows \subseteq 1 .. Len(asked) /\ \A j \in DOMAIN rows : rows[j] \in Schedule
        BY DEF SInv, TypeOK
      <3> QED
        BY <1>2, <1>3, <1>6, <3>1
    <2>3. /\ DOMAIN pending' \subseteq 1 .. Len(asked')
          /\ \A j \in DOMAIN pending' : pending'[j] \in Schedule
      <3>1. DOMAIN pending \subseteq 1 .. Len(asked) /\ \A j \in DOMAIN pending : pending[j] \in Schedule
        BY DEF SInv, TypeOK
      <3> QED
        BY <1>2, <1>3, <1>5, <3>1
    <2>4. dues' \subseteq [due : Nat, id : Id]
      BY <1>1, <1>3 DEF SInv, TypeOK, Schedule
    <2>5. unsignalled' \in Nat /\ deleted' \subseteq 1 .. Len(asked')
      BY <1>1, <1>2 DEF SInv, TypeOK
    <2> QED
      BY <1>1, <1>2, <2>1, <2>2, <2>3, <2>4, <2>5 DEF SInv, TypeOK
  <1>8. MemoryIsStorage'
    <2>1. pending' = rows'
      BY <1>1 DEF SInv, MemoryIsStorage
    <2>2. \A d \in dues : d \in IndexOf(pending')
      BY <1>5 DEF SInv, MemoryIsStorage, IndexOf, DueOf
    <2>3. [due |-> s.due, id |-> i] \in IndexOf(pending')
      BY <1>5 DEF IndexOf, DueOf
    <2> QED
      BY <1>1, <2>1, <2>2, <2>3 DEF MemoryIsStorage
  <1>9. OriginsAreKept'
    <2>1. Known \subseteq Known'
      BY <1>2 DEF Known
    <2>2. queue' \in Seq(Known') /\ worker'.batch \in Seq(Known')
      BY <1>1, <2>1, SeqMonotonic DEF SInv, OriginsAreKept
    <2>3. \A j \in DOMAIN pending' : pending'[j].every = asked'[j]
      BY <1>2, <1>3, <1>5 DEF SInv, OriginsAreKept, TypeOK
    <2> QED
      BY <2>2, <2>3 DEF OriginsAreKept
  <1>10. SettlementIsFinal'
    <2>1. DOMAIN asked' = DOMAIN asked \cup {i} /\ DOMAIN asked = 1 .. Len(asked)
      BY <1>1, <1>2, LenProperties DEF SInv, TypeOK
    <2>2. i \notin deleted /\ delivered[i] = 0
      BY <1>1, <1>2 DEF SInv, TypeOK, SettlementIsFinal
    <2>3. \A j \in Id : j > Len(asked') => delivered'[j] = 0
      BY <1>1, <1>2 DEF SInv, SettlementIsFinal, Id
    <2>4. ASSUME receiver.at = "take" PROVE Head(queue).id # i
      <3>1. Head(queue) \in Known
        BY <2>4, HeadTailProperties DEF SInv, TypeOK, OriginsAreKept
      <3> QED
        BY <1>2, <3>1 DEF Known
    <2>5. Settled(i)'
      BY <1>1, <2>2, <2>4 DEF Settled
    <2>6. ASSUME NEW j \in DOMAIN asked, asked'[j] = 0 PROVE Settled(j)'
      <3>1. j # i /\ asked[j] = 0
        BY <1>2, <2>1, <2>6
      <3>2. Settled(j)
        BY <3>1 DEF SInv, SettlementIsFinal
      <3> QED
        BY <1>1, <1>5, <3>1, <3>2 DEF Settled
    <2>7. DOMAIN pending' \cap deleted' = {}
      BY <1>1, <1>5, <2>2 DEF SInv, SettlementIsFinal
    <2> QED
      BY <2>1, <2>3, <2>5, <2>6, <2>7 DEF SettlementIsFinal
  <1>11. SleepersAreCovered' /\ NoWakeupIsLost'
    BY <1>1 DEF SInv, TypeOK, SleepersAreCovered, NoWakeupIsLost
  <1> QED
    BY <1>7, <1>8, <1>9, <1>10, <1>11 DEF SInv

(* Erasing a schedule removes it from the table, the map and the index. *)
LEMMA EraseRemoves ==
    ASSUME SInv, NEW i \in DOMAIN pending, Erase(i)
    PROVE  /\ DOMAIN pending' = DOMAIN pending \ {i}
           /\ \A j \in DOMAIN pending \ {i} : pending'[j] = pending[j]
           /\ dues' \subseteq dues
           /\ MemoryIsStorage'
  <1>1. pending' = rows' /\ dues' = dues \ {DueOf(pending, i)}
    BY DEF SInv, MemoryIsStorage, Erase, EraseFromMemory
  <1>2. /\ DOMAIN pending' = DOMAIN pending \ {i}
        /\ \A j \in DOMAIN pending \ {i} : pending'[j] = pending[j]
    BY DEF Erase, EraseFromMemory, Without
  <1>3. ASSUME NEW d \in dues' PROVE d \in IndexOf(pending')
    <2>1. PICK j \in DOMAIN pending : d = DueOf(pending, j)
      BY <1>1 DEF SInv, MemoryIsStorage, IndexOf
    <2>2. j # i
      BY <1>1, <1>3, <2>1
    <2> QED
      BY <1>2, <2>1, <2>2 DEF IndexOf, DueOf
  <1> QED
    BY <1>1, <1>2, <1>3 DEF MemoryIsStorage

(* Erasing keeps the types of what it changes. *)
LEMMA ErasedIsTyped ==
    ASSUME SInv, NEW i \in DOMAIN pending, Erase(i), asked' = asked
    PROVE  /\ DOMAIN rows' \subseteq 1 .. Len(asked')
           /\ \A j \in DOMAIN rows' : rows'[j] \in Schedule
           /\ DOMAIN pending' \subseteq 1 .. Len(asked')
           /\ \A j \in DOMAIN pending' : pending'[j] \in Schedule
           /\ dues' \subseteq [due : Nat, id : Id]
  <1>1. pending' = rows'
    BY EraseRemoves DEF MemoryIsStorage
  <1> QED
    BY <1>1, EraseRemoves DEF SInv, TypeOK

(* A deletion that answers True settles a one-shot message for good. *)
LEMMA DeleteIsSound ==
    ASSUME SInv, NEW i \in Id, DeleteScheduledMessage(i)
    PROVE  SInv'
  <1>1. /\ i \in DOMAIN pending /\ Erase(i)
        /\ deleted' = deleted \cup {i} /\ unsignalled' = unsignalled + 1
        /\ UNCHANGED <<clock, asked, wake, abandoned, queue, worker, receiver,
                       delivered, faults>>
    BY DEF DeleteScheduledMessage
  <1>2. /\ DOMAIN pending' = DOMAIN pending \ {i}
        /\ \A j \in DOMAIN pending \ {i} : pending'[j] = pending[j]
        /\ dues' \subseteq dues
        /\ MemoryIsStorage'
    BY <1>1, EraseRemoves
  <1>3. TypeOK'
    <2>1. i \in 1 .. Len(asked)
      BY <1>1 DEF SInv, TypeOK
    <2>2. deleted \subseteq 1 .. Len(asked) /\ unsignalled \in Nat
      BY DEF SInv, TypeOK
    <2>3. deleted' \subseteq 1 .. Len(asked')
      <3>1. deleted' \subseteq 1 .. Len(asked)
        BY <1>1, <2>1, <2>2
      <3> QED
        BY <1>1, <3>1
    <2>4. unsignalled' \in Nat
      BY <1>1, <2>2
    <2>5. /\ DOMAIN rows' \subseteq 1 .. Len(asked')
          /\ \A j \in DOMAIN rows' : rows'[j] \in Schedule
          /\ DOMAIN pending' \subseteq 1 .. Len(asked')
          /\ \A j \in DOMAIN pending' : pending'[j] \in Schedule
          /\ dues' \subseteq [due : Nat, id : Id]
      BY <1>1, ErasedIsTyped
    <2> QED
      BY <1>1, <2>3, <2>4, <2>5 DEF SInv, TypeOK
  <1>4. OriginsAreKept'
    BY <1>1, <1>2 DEF SInv, OriginsAreKept, Known
  <1>5. SettlementIsFinal'
    BY <1>1, <1>2 DEF SInv, SettlementIsFinal, Settled
  <1>6. SleepersAreCovered' /\ NoWakeupIsLost'
    BY <1>1 DEF SInv, TypeOK, SleepersAreCovered, NoWakeupIsLost
  <1> QED
    BY <1>2, <1>3, <1>4, <1>5, <1>6 DEF SInv

(* The wake-up arrives, and covers what its caller has committed. *)
LEMMA SignalWakeIsSound ==
    ASSUME SInv, SignalWake
    PROVE  SInv'
  <1>1. wake' /\ wake' \in BOOLEAN /\ abandoned' \in BOOLEAN
    BY DEF SignalWake, TryPut
  <1>2. TypeOK'
    BY <1>1 DEF SInv, TypeOK, SignalWake, memory
  <1>3. MemoryIsStorage' /\ OriginsAreKept' /\ SettlementIsFinal'
    BY SchedulesAreKept DEF SInv, OriginsAreKept, SignalWake, memory
  <1>4. SleepersAreCovered' /\ NoWakeupIsLost'
    BY <1>1, SleepersAreKept DEF SignalWake, memory
  <1> QED
    BY <1>2, <1>3, <1>4 DEF SInv

(* A cancelled caller leaves its wake-up abandoned. *)
LEMMA CancelCallerIsSound ==
    ASSUME SInv, CancelCaller
    PROVE  SInv'
  <1>1. abandoned' /\ abandoned' \in BOOLEAN
    BY DEF CancelCaller
  <1>2. TypeOK'
    BY <1>1, BoundsAssumption DEF SInv, TypeOK, CancelCaller, Fault, memory
  <1>3. MemoryIsStorage' /\ OriginsAreKept' /\ SettlementIsFinal'
    BY SchedulesAreKept DEF SInv, OriginsAreKept, CancelCaller, memory
  <1>4. SleepersAreCovered' /\ NoWakeupIsLost'
    BY <1>1, SleepersAreKept DEF CancelCaller, memory
  <1> QED
    BY <1>2, <1>3, <1>4 DEF SInv

(* A worker that starts a pass is awake. *)
LEMMA DrainIsSound ==
    ASSUME SInv, Drain
    PROVE  SInv'
  <1>1. worker'.at = "pop" /\ worker'.batch = worker.batch /\ clock \in Nat
    BY DEF SInv, TypeOK, Drain
  <1>2. TypeOK'
    <2>1. worker' \in [at : Phase, now : Nat, batch : Seq(Pending), slept : Nat,
                       alarm : SUBSET Nat]
      BY <1>1 DEF SInv, TypeOK, Drain, Phase
    <2>2. wake' \in BOOLEAN
      BY DEF Drain
    <2> QED
      BY <2>1, <2>2 DEF SInv, TypeOK, Drain, memory
  <1>3. MemoryIsStorage' /\ OriginsAreKept' /\ SettlementIsFinal'
    BY <1>1, SchedulesAreKept DEF SInv, OriginsAreKept, Drain, memory
  <1>4. SleepersAreCovered' /\ NoWakeupIsLost'
    BY <1>1, AwakeIsCovered
  <1> QED
    BY <1>2, <1>3, <1>4 DEF SInv

(* A failed pop rolls back, and the worker is dead. *)
LEMMA PopFailsIsSound ==
    ASSUME SInv, PopFails
    PROVE  SInv'
  <1>1. worker'.at = "dead" /\ worker'.batch = worker.batch
    BY DEF SInv, TypeOK, PopFails
  <1>2. TypeOK'
    <2>1. worker' \in [at : Phase, now : Nat, batch : Seq(Pending), slept : Nat,
                       alarm : SUBSET Nat]
      BY DEF SInv, TypeOK, PopFails, Phase
    <2>2. faults' \in 0 .. MaxFault
      BY BoundsAssumption DEF SInv, TypeOK, PopFails, Fault
    <2> QED
      BY <2>1, <2>2 DEF SInv, TypeOK, PopFails, memory
  <1>3. MemoryIsStorage' /\ OriginsAreKept' /\ SettlementIsFinal'
    BY <1>1, SchedulesAreKept DEF SInv, OriginsAreKept, PopFails, memory
  <1>4. SleepersAreCovered' /\ NoWakeupIsLost'
    BY <1>1, AwakeIsCovered
  <1> QED
    BY <1>2, <1>3, <1>4 DEF SInv

(* The alarm is the least due time of the index the worker reads. *)
LEMMA NextDueAtIsSound ==
    ASSUME SInv, NextDueAt
    PROVE  SInv'
  <1> DEFINE least == {d.due : d \in {e \in dues : \A f \in dues : e.due <= f.due}}
  <1>1. /\ worker'.at = "sleep" /\ worker'.batch = worker.batch
        /\ worker'.alarm = least
    BY DEF SInv, TypeOK, NextDueAt
  <1>2. TypeOK'
    <2>1. least \subseteq Nat
      BY DEF SInv, TypeOK
    <2>2. worker' \in [at : Phase, now : Nat, batch : Seq(Pending), slept : Nat,
                       alarm : SUBSET Nat]
      BY <2>1 DEF SInv, TypeOK, NextDueAt, Phase
    <2>3. abandoned' \in BOOLEAN
      BY DEF NextDueAt
    <2> QED
      BY <2>2, <2>3 DEF SInv, TypeOK, NextDueAt, memory
  <1>3. MemoryIsStorage' /\ OriginsAreKept' /\ SettlementIsFinal'
    BY <1>1, SchedulesAreKept DEF SInv, OriginsAreKept, NextDueAt, memory
  <1>4. SleepersAreCovered'
    <2>1. ASSUME NEW d \in dues PROVE \E t \in least : t <= d.due
      <3>1. PICK e \in dues : \A f \in dues : e.due <= f.due
        BY LeastDue DEF SInv, TypeOK
      <3> QED
        BY <3>1
    <2>2. Covered'
      BY <1>1, <2>1 DEF Covered, NextDueAt, memory
    <2> QED
      BY <2>2 DEF SleepersAreCovered
  <1>5. NoWakeupIsLost'
    BY <1>1 DEF NoWakeupIsLost
  <1> QED
    BY <1>2, <1>3, <1>4, <1>5 DEF SInv

(* A worker goes to sleep covered, and late by its own pass only. *)
LEMMA SleepIsSound ==
    ASSUME SInv, Sleep
    PROVE  SInv'
  <1> DEFINE alarm == {clock + Greatest(0, due - worker.now) : due \in worker.alarm}
  <1>1. /\ worker.at = "sleep" /\ worker'.at = "wait"
        /\ worker'.batch = worker.batch /\ worker'.now = worker.now
        /\ worker'.alarm = alarm /\ worker'.slept = clock
        /\ worker.now \in Nat /\ clock \in Nat /\ worker.alarm \subseteq Nat
    BY DEF SInv, TypeOK, Sleep
  <1>2. TypeOK'
    <2>1. alarm \subseteq Nat
      BY <1>1 DEF Greatest
    <2>2. worker' \in [at : Phase, now : Nat, batch : Seq(Pending), slept : Nat,
                       alarm : SUBSET Nat]
      BY <1>1, <2>1 DEF SInv, TypeOK, Sleep, Phase
    <2> QED
      BY <2>2 DEF SInv, TypeOK, Sleep, memory
  <1>3. MemoryIsStorage' /\ OriginsAreKept' /\ SettlementIsFinal'
    BY <1>1, SchedulesAreKept DEF SInv, OriginsAreKept, Sleep, memory
  <1>4. SleepersAreCovered'
    BY <1>1 DEF SleepersAreCovered
  <1>5. NoWakeupIsLost'
    <2>1. CASE wake \/ unsignalled > 0 \/ abandoned
      BY <2>1 DEF NoWakeupIsLost, Sleep
    <2>2. CASE Covered
      <3>1. ASSUME NEW d \in dues
            PROVE  \E t \in alarm : t <= Greatest(d.due, worker.now) + (clock - worker.now)
        <4>1. d.due \in Nat
          BY DEF SInv, TypeOK
        <4>2. PICK t \in worker.alarm : t <= d.due
          BY <2>2 DEF Covered
        <4>3. clock + Greatest(0, t - worker.now)
                <= Greatest(d.due, worker.now) + (clock - worker.now)
          BY <1>1, <4>1, <4>2 DEF Greatest
        <4> QED
          BY <4>2, <4>3
      <3> QED
        BY <1>1, <3>1 DEF NoWakeupIsLost, Sleep, memory
    <2> QED
      BY <1>1, <2>1, <2>2 DEF SInv, SleepersAreCovered
  <1> QED
    BY <1>2, <1>3, <1>4, <1>5 DEF SInv

(* A woken worker needs no further wake-up. *)
LEMMA WakeIsSound ==
    ASSUME SInv, Wake
    PROVE  SInv'
  <1>1. worker' = Asleep /\ worker'.at = "drain" /\ worker'.batch = <<>>
    BY DEF Wake, Asleep
  <1>2. TypeOK'
    <2>1. worker' \in [at : Phase, now : Nat, batch : Seq(Pending), slept : Nat,
                       alarm : SUBSET Nat]
      BY <1>1, EmptySeq DEF Asleep, Phase
    <2>2. wake' \in BOOLEAN
      BY DEF Wake
    <2> QED
      BY <2>1, <2>2 DEF SInv, TypeOK, Wake, memory
  <1>3. MemoryIsStorage' /\ OriginsAreKept' /\ SettlementIsFinal'
    BY <1>1, EmptySeq, SchedulesAreKept DEF Wake, memory
  <1>4. SleepersAreCovered' /\ NoWakeupIsLost'
    BY <1>1, AwakeIsCovered
  <1> QED
    BY <1>2, <1>3, <1>4 DEF SInv

(* A pop takes the due occurrences and keeps what they came from. *)
LEMMA PopIsSound ==
    ASSUME SInv, Pop
    PROVE  SInv'
  <1> DEFINE now  == worker.now
             due  == Expired(now)
             next == Rescheduled(pending, Recurring(due), now)
  <1>1. /\ worker.at = "pop"
        /\ worker' = [worker EXCEPT !.at = "enqueue", !.batch = InOrder(due)]
        /\ rows' = Rescheduled(rows, Recurring(due), now) /\ pending' = next
        /\ dues' = Remaining(now) \cup {DueOf(next, i) : i \in Recurring(due)}
        /\ UNCHANGED <<clock, asked, wake, unsignalled, abandoned, queue,
                       receiver, delivered, deleted, faults>>
    BY DEF Pop
  <1>2. now \in Nat /\ rows = pending
    BY DEF SInv, TypeOK, MemoryIsStorage
  <1>3. due \subseteq DOMAIN pending /\ Recurring(due) \subseteq due
    BY DEF Expired, Recurring
  <1>4. /\ DOMAIN pending' = DOMAIN pending
        /\ \A i \in DOMAIN pending \ Recurring(due) : pending'[i] = pending[i]
        /\ \A i \in Recurring(due) :
              pending'[i] = [pending[i] EXCEPT !.due = NextDue(pending[i], now)]
    BY <1>1, <1>3 DEF Rescheduled
  <1>5. \A i \in DOMAIN pending : pending'[i] \in Schedule /\ pending'[i].every = pending[i].every
    <2> SUFFICES ASSUME NEW i \in DOMAIN pending
                 PROVE  pending'[i] \in Schedule /\ pending'[i].every = pending[i].every
      OBVIOUS
    <2>1. pending[i] \in Schedule
      BY DEF SInv, TypeOK
    <2>2. NextDue(pending[i], now) \in Nat
      BY <1>2, <2>1 DEF NextDue, Greatest, Schedule
    <2> QED
      BY <1>4, <2>1, <2>2 DEF Schedule
  <1> HIDE DEF due, next
  <1>6. {Message(i) : i \in due} \subseteq Known /\ Known \subseteq Pending
    <2>1. ASSUME NEW i \in due PROVE Message(i) \in Known
      <3>1. /\ i \in Id /\ i \in 1 .. Len(asked)
            /\ pending[i] \in Schedule /\ pending[i].every = asked[i]
        BY <1>3, IdsAreFinite DEF SInv, TypeOK, OriginsAreKept
      <3> QED
        BY <3>1 DEF Message, Known, Pending, Schedule
    <2> QED
      BY <2>1 DEF Known
  <1>7. worker'.batch \in Seq(Known)
    <2>1. IsFiniteSet(due)
      BY <1>3, IdsAreFinite, FS_Subset
    <2>2. \A i \in due : i \in Nat /\ pending[i].due \in Nat
      BY <1>3 DEF SInv, TypeOK, Schedule
    <2>3. InOrder(due) \in Seq({Message(i) : i \in due})
      BY <1>3, <2>1, <2>2, InOrderIsASequence
    <2>4. InOrder(due) \in Seq(Known)
      BY <1>6, <2>3, SeqMonotonic
    <2> QED
      BY <1>1, <2>4 DEF SInv, TypeOK
  <1>8. MemoryIsStorage'
    <2>1. pending' = rows'
      BY <1>1, <1>2 DEF next
    <2>2. ASSUME NEW d \in Remaining(now) PROVE d \in IndexOf(pending')
      <3>1. d \in dues /\ d.due > now
        BY DEF Remaining
      <3>2. PICK j \in DOMAIN pending : d = DueOf(pending, j)
        BY <3>1 DEF SInv, MemoryIsStorage, IndexOf
      <3>3. j \notin due
        <4> SUFFICES ASSUME j \in due PROVE FALSE
          OBVIOUS
        <4>1. PICK e \in dues : e.id = j /\ e.due <= now
          BY DEF due, Expired
        <4>2. PICK k \in DOMAIN pending : e = DueOf(pending, k)
          BY DEF SInv, MemoryIsStorage, IndexOf
        <4>3. e.due = pending[j].due /\ d.due = pending[j].due
          BY <3>2, <4>1, <4>2 DEF DueOf
        <4>4. pending[j].due \in Nat
          BY DEF SInv, TypeOK, Schedule
        <4> QED
          BY <1>2, <3>1, <4>1, <4>3, <4>4
      <3>4. pending'[j] = pending[j]
        BY <1>3, <1>4, <3>3
      <3> QED
        BY <1>4, <3>2, <3>4 DEF IndexOf, DueOf
    <2>3. ASSUME NEW i \in Recurring(due) PROVE DueOf(next, i) \in IndexOf(pending')
      BY <1>1, <1>3, <1>4 DEF IndexOf, DueOf
    <2> QED
      BY <1>1, <2>1, <2>2, <2>3 DEF MemoryIsStorage
  <1>9. TypeOK'
    <2>1. worker' \in [at : Phase, now : Nat, batch : Seq(Pending), slept : Nat,
                       alarm : SUBSET Nat]
      <3>1. worker'.batch \in Seq(Pending)
        BY <1>6, <1>7, SeqMonotonic
      <3>2. worker' = [worker EXCEPT !.at = "enqueue", !.batch = worker'.batch]
        BY <1>1 DEF SInv, TypeOK
      <3> QED
        BY <3>1, <3>2 DEF SInv, TypeOK, Phase
    <2>2. \A i \in DOMAIN pending' : pending'[i] \in Schedule
      BY <1>4, <1>5
    <2>3. \A i \in DOMAIN rows' : rows'[i] \in Schedule
      BY <1>8, <2>2 DEF MemoryIsStorage
    <2>4. /\ DOMAIN pending' \subseteq 1 .. Len(asked')
          /\ DOMAIN rows' \subseteq 1 .. Len(asked')
      BY <1>1, <1>4, <1>8 DEF SInv, TypeOK, MemoryIsStorage
    <2>5. dues' \subseteq [due : Nat, id : Id]
      <3>1. \A i \in DOMAIN pending' : i \in Id
        BY <1>1, <2>4, IdsAreFinite
      <3> QED
        BY <1>8, <2>2, <3>1 DEF MemoryIsStorage, IndexOf, DueOf, Schedule
    <2> QED
      BY <1>1, <2>1, <2>2, <2>3, <2>4, <2>5 DEF SInv, TypeOK
  <1>10. OriginsAreKept'
    BY <1>1, <1>4, <1>5, <1>7 DEF SInv, OriginsAreKept, Known
  <1>11. SettlementIsFinal'
    BY <1>1, <1>4 DEF SInv, SettlementIsFinal, Settled
  <1>12. SleepersAreCovered' /\ NoWakeupIsLost'
    <2>1. worker'.at = "enqueue"
      BY <1>1 DEF SInv, TypeOK
    <2> QED
      BY <2>1, AwakeIsCovered
  <1> QED
    BY <1>8, <1>9, <1>10, <1>11, <1>12 DEF SInv

(* A popped message moves to the queue with its origin. *)
LEMMA EnqueueIsSound ==
    ASSUME SInv, Enqueue
    PROVE  SInv'
  <1> DEFINE m == Head(worker.batch)
  <1>1. /\ worker.at = "enqueue" /\ worker.batch # <<>> /\ Len(queue) < Capacity
        /\ queue' = Append(queue, m)
        /\ worker' = [worker EXCEPT !.batch = Tail(worker.batch)]
        /\ UNCHANGED <<clock, rows, pending, dues, asked, wake, unsignalled,
                       abandoned, receiver, delivered, deleted, faults>>
    BY DEF Enqueue, Room, memory
  <1>2. worker'.at = "enqueue" /\ worker'.batch = Tail(worker.batch)
    BY <1>1 DEF SInv, TypeOK
  <1>3. m \in Known /\ worker'.batch \in Seq(Known)
    BY <1>1, <1>2, HeadTailProperties DEF SInv, OriginsAreKept
  <1>4. queue' \in Seq(Known) /\ Len(queue') = Len(queue) + 1 /\ queue' # <<>>
    BY <1>1, <1>3, AppendProperties DEF SInv, OriginsAreKept
  <1>5. queue # <<>> => Head(queue') = Head(queue)
    BY <1>1, <1>3, AppendKeepsHead DEF SInv, OriginsAreKept
  <1>6. Known \subseteq Pending
    BY DEF Known
  <1>7. TypeOK'
    <2>1. queue' \in Seq(Pending) /\ worker'.batch \in Seq(Pending)
      BY <1>3, <1>4, <1>6, SeqMonotonic
    <2>2. Len(queue') <= Capacity
      BY <1>1, <1>4, LenProperties, BoundsAssumption DEF SInv, TypeOK
    <2>3. worker' = [worker EXCEPT !.batch = worker'.batch]
      BY <1>1, <1>2
    <2>4. worker' \in [at : Phase, now : Nat, batch : Seq(Pending), slept : Nat,
                       alarm : SUBSET Nat]
      BY <2>1, <2>3 DEF SInv, TypeOK
    <2> QED
      BY <1>1, <1>4, <2>1, <2>2, <2>4 DEF SInv, TypeOK
  <1>8. MemoryIsStorage'
    BY <1>1 DEF SInv, MemoryIsStorage, IndexOf, DueOf
  <1>9. OriginsAreKept'
    BY <1>1, <1>3, <1>4 DEF SInv, OriginsAreKept, Known
  <1>10. SettlementIsFinal'
    <2>1. receiver.at = "take" => Head(queue') = Head(queue)
      BY <1>5 DEF SInv, TypeOK
    <2> QED
      BY <1>1, <2>1 DEF SInv, SettlementIsFinal, Settled
  <1>11. SleepersAreCovered' /\ NoWakeupIsLost'
    BY <1>2, AwakeIsCovered
  <1> QED
    BY <1>7, <1>8, <1>9, <1>10, <1>11 DEF SInv

(* Taking the head of the queue keeps its type. *)
LEMMA TailIsTyped ==
    ASSUME SInv, queue # <<>>
    PROVE  /\ Tail(queue) \in Seq(Known) /\ Tail(queue) \in Seq(Pending)
           /\ Len(Tail(queue)) <= Capacity
           /\ Head(queue) \in Known
  <1>1. /\ Tail(queue) \in Seq(Known) /\ Head(queue) \in Known
        /\ Len(Tail(queue)) = Len(queue) - 1
    BY HeadTailProperties DEF SInv, OriginsAreKept
  <1>2. Tail(queue) \in Seq(Pending)
    BY HeadTailProperties DEF SInv, TypeOK
  <1>3. Len(queue) \in Nat /\ Len(queue) <= Capacity
    BY LenProperties DEF SInv, TypeOK
  <1> QED
    BY <1>1, <1>2, <1>3, BoundsAssumption

(* Peeking leaves the head of the queue in place. *)
LEMMA PeekIsSound ==
    ASSUME SInv, Peek
    PROVE  SInv'
  <1>1. /\ receiver.at = "peek" /\ queue # <<>>
        /\ UNCHANGED <<clock, rows, pending, dues, asked, wake, unsignalled,
                       abandoned, worker, delivered, deleted, faults>>
        /\ \/ receiver' = [receiver EXCEPT !.at = "prepare"] /\ queue' = queue
           \/ receiver' = receiver /\ queue' = Tail(queue)
    BY DEF Peek, memory
  <1>2. /\ receiver' \in [at : Stage, active : BOOLEAN]
        /\ (receiver'.at = "prepare" /\ queue' = queue) \/ receiver'.at = "peek"
    BY <1>1 DEF SInv, TypeOK, Stage
  <1>3. queue' \in Seq(Known) /\ queue' \in Seq(Pending) /\ Len(queue') <= Capacity
    BY <1>1, TailIsTyped DEF SInv, TypeOK, OriginsAreKept
  <1>4. TypeOK'
    <2>1. receiver'.at \notin {"peek", "stopped"} => queue' # <<>>
      BY <1>1, <1>2
    <2> QED
      BY <1>1, <1>2, <1>3, <2>1 DEF SInv, TypeOK
  <1>5. MemoryIsStorage'
    BY <1>1 DEF SInv, MemoryIsStorage, IndexOf, DueOf
  <1>6. OriginsAreKept'
    BY <1>1, <1>3 DEF SInv, OriginsAreKept, Known
  <1>7. SettlementIsFinal'
    BY <1>1, <1>2 DEF SInv, SettlementIsFinal, Settled
  <1>8. SleepersAreCovered' /\ NoWakeupIsLost'
    BY <1>1, SleepersAreKept
  <1> QED
    BY <1>4, <1>5, <1>6, <1>7, <1>8 DEF SInv

(* So does the preparation of the message. *)
LEMMA PrepareIsSound ==
    ASSUME SInv, Prepare
    PROVE  SInv'
  <1>1. /\ receiver' \in [at : Stage, active : BOOLEAN]
        /\ receiver'.at = "acknowledge" /\ queue # <<>>
    BY DEF SInv, TypeOK, Stage, Prepare
  <1>2. TypeOK'
    BY <1>1 DEF SInv, TypeOK, Prepare, memory
  <1>3. MemoryIsStorage' /\ OriginsAreKept' /\ SettlementIsFinal'
    BY <1>1, SchedulesAreKept DEF SInv, OriginsAreKept, Prepare, memory
  <1>4. SleepersAreCovered' /\ NoWakeupIsLost'
    BY SleepersAreKept DEF Prepare, memory
  <1> QED
    BY <1>2, <1>3, <1>4 DEF SInv

(* A failed receive stops the receiver and changes nothing else. *)
LEMMA ReceiveFailsIsSound ==
    ASSUME SInv, ReceiveFails
    PROVE  SInv'
  <1>1. /\ receiver' \in [at : Stage, active : BOOLEAN]
        /\ receiver'.at = "stopped"
    BY DEF SInv, TypeOK, Stage, ReceiveFails
  <1>2. TypeOK'
    <2>1. faults' \in 0 .. MaxFault
      BY BoundsAssumption DEF SInv, TypeOK, ReceiveFails, Fault
    <2> QED
      BY <1>1, <2>1 DEF SInv, TypeOK, ReceiveFails, memory
  <1>3. MemoryIsStorage' /\ OriginsAreKept' /\ SettlementIsFinal'
    BY <1>1, SchedulesAreKept DEF SInv, OriginsAreKept, ReceiveFails, memory
  <1>4. SleepersAreCovered' /\ NoWakeupIsLost'
    BY SleepersAreKept DEF ReceiveFails, memory
  <1> QED
    BY <1>2, <1>3, <1>4 DEF SInv

(* A failed membership test is the value FALSE. *)
LEMMA OutsiderIsFalse ==
    ASSUME NEW x, NEW S, x \notin S
    PROVE  (x \in S) = FALSE
  OBVIOUS

(* An accepted one-shot message is no longer pending nor deleted. *)
LEMMA AcknowledgeIsSound ==
    ASSUME SInv, Acknowledge
    PROVE  SInv'
  <1> PICK m : m = Head(queue)
    OBVIOUS
  <1>1. /\ receiver.at = "acknowledge" /\ queue # <<>>
        /\ receiver' = [at |-> "take", active |-> m.id \in DOMAIN pending]
        /\ IF m.every = 0 /\ m.id \in DOMAIN pending THEN Erase(m.id)
                                                     ELSE UNCHANGED <<rows, pending, dues>>
        /\ UNCHANGED <<clock, asked, wake, unsignalled, abandoned, queue,
                       worker, delivered, deleted, faults>>
    BY DEF SInv, TypeOK, Acknowledge, Accepted, Active, memory
  <1>2. m.id \in 1 .. Len(asked) /\ m.every = asked[m.id]
    BY <1>1, TailIsTyped DEF Known
  <1>3. /\ receiver' \in [at : Stage, active : BOOLEAN] /\ receiver'.at = "take"
        /\ receiver'.active <=> m.id \in DOMAIN pending
    <2> PICK d : d = DOMAIN pending
      OBVIOUS
    <2>1. CASE m.id \in d
      <3>1. receiver' = [at |-> "take", active |-> TRUE]
        BY <1>1, <2>1
      <3> QED
        BY <2>1, <3>1 DEF Stage
    <2>2. CASE m.id \notin d
      <3>1. receiver' = [at |-> "take", active |-> FALSE]
        BY <1>1, <2>2, OutsiderIsFalse
      <3> QED
        BY <2>2, <3>1 DEF Stage
    <2> QED
      BY <2>1, <2>2
  <1>4. CASE m.every = 0 /\ m.id \in DOMAIN pending
    <2>1. Erase(m.id)
      BY <1>1, <1>4
    <2>2. /\ DOMAIN pending' = DOMAIN pending \ {m.id}
          /\ \A j \in DOMAIN pending \ {m.id} : pending'[j] = pending[j]
          /\ dues' \subseteq dues
          /\ MemoryIsStorage'
      BY <1>4, <2>1, EraseRemoves
    <2>3. TypeOK'
      <3>1. /\ DOMAIN rows' \subseteq 1 .. Len(asked')
            /\ \A j \in DOMAIN rows' : rows'[j] \in Schedule
            /\ DOMAIN pending' \subseteq 1 .. Len(asked')
            /\ \A j \in DOMAIN pending' : pending'[j] \in Schedule
            /\ dues' \subseteq [due : Nat, id : Id]
        BY <1>1, <1>4, <2>1, ErasedIsTyped
      <3> QED
        BY <1>1, <1>3, <3>1 DEF SInv, TypeOK
    <2>4. OriginsAreKept'
      BY <1>1, <2>2 DEF SInv, OriginsAreKept, Known
    <2>5. SettlementIsFinal'
      <3>1. m.id \notin deleted
        BY <1>4 DEF SInv, SettlementIsFinal
      <3>2. Head(queue') = m
        BY <1>1
      <3>3. ASSUME NEW i \in DOMAIN asked, asked[i] = 0 PROVE Settled(i)'
        <4>1. Settled(i)
          BY <3>3 DEF SInv, SettlementIsFinal
        <4>2. CASE i = m.id
          <5>1. delivered[i] = 0
            BY <1>4, <4>1, <4>2 DEF Settled
          <5> QED
            BY <1>1, <2>2, <3>1, <4>2, <5>1 DEF Settled
        <4>3. CASE i # m.id
          BY <1>1, <2>2, <3>2, <4>1, <4>3 DEF Settled
        <4> QED
          BY <4>2, <4>3
      <3> QED
        BY <1>1, <2>2, <3>3 DEF SInv, SettlementIsFinal
    <2>6. SleepersAreCovered' /\ NoWakeupIsLost'
      BY <1>1, <2>2, SleepersAreKept
    <2> QED
      BY <2>2, <2>3, <2>4, <2>5, <2>6 DEF SInv
  <1>5. CASE ~ (m.every = 0 /\ m.id \in DOMAIN pending)
    <2>1. UNCHANGED <<rows, pending, dues>>
      BY <1>1, <1>5
    <2>2. TypeOK'
      BY <1>1, <1>3, <2>1 DEF SInv, TypeOK
    <2>3. MemoryIsStorage' /\ OriginsAreKept'
      BY <1>1, <2>1
      DEF SInv, MemoryIsStorage, IndexOf, DueOf, OriginsAreKept, Known
    <2>4. SettlementIsFinal'
      <3>1. ASSUME NEW i \in DOMAIN asked, asked[i] = 0 PROVE Settled(i)'
        <4>1. Settled(i)
          BY <3>1 DEF SInv, SettlementIsFinal
        <4>2. receiver'.active => Head(queue').id # i
          BY <1>1, <1>2, <1>3, <1>5, <3>1
        <4> QED
          BY <1>1, <2>1, <4>1, <4>2 DEF Settled
      <3> QED
        BY <1>1, <2>1, <3>1 DEF SInv, SettlementIsFinal
    <2>5. SleepersAreCovered' /\ NoWakeupIsLost'
      BY <1>1, <2>1, SleepersAreKept
    <2> QED
      BY <2>2, <2>3, <2>4, <2>5 DEF SInv
  <1> QED
    BY <1>4, <1>5

(* Handing over delivers an accepted one-shot message once. *)
LEMMA TakeIsSound ==
    ASSUME SInv, Take
    PROVE  SInv'
  <1> PICK i : i = Head(queue).id
    OBVIOUS
  <1>1. /\ receiver.at = "take" /\ queue # <<>> /\ queue' = Tail(queue)
        /\ receiver' = Idle
        /\ delivered' = IF receiver.active THEN [delivered EXCEPT ![i] = @ + 1]
                                           ELSE delivered
        /\ UNCHANGED <<clock, rows, pending, dues, asked, wake, unsignalled,
                       abandoned, worker, deleted, faults>>
    BY DEF SInv, TypeOK, Take, memory
  <1>2. i \in 1 .. Len(asked) /\ i \in Id
    BY <1>1, TailIsTyped DEF Known, Pending
  <1>3. receiver' \in [at : Stage, active : BOOLEAN] /\ receiver'.at = "peek"
    BY <1>1 DEF Idle, Stage
  <1>4. /\ delivered' \in [Id -> Nat]
        /\ \A j \in Id : j # i => delivered'[j] = delivered[j]
        /\ delivered'[i] = IF receiver.active THEN delivered[i] + 1 ELSE delivered[i]
    <2>1. delivered \in [Id -> Nat]
      BY DEF SInv, TypeOK
    <2>2. CASE receiver.active
      BY <1>1, <1>2, <2>1, <2>2
    <2>3. CASE ~receiver.active
      BY <1>1, <1>2, <2>1, <2>3
    <2> QED
      BY <2>2, <2>3
  <1>5. TypeOK'
    BY <1>1, <1>3, <1>4, TailIsTyped DEF SInv, TypeOK
  <1>6. MemoryIsStorage' /\ OriginsAreKept'
    BY <1>1, TailIsTyped
    DEF SInv, MemoryIsStorage, IndexOf, DueOf, OriginsAreKept, Known
  <1>7. SettlementIsFinal'
    <2>1. ASSUME NEW j \in DOMAIN asked, asked[j] = 0 PROVE Settled(j)'
      <3>1. Settled(j) /\ j \in Id
        BY <2>1, IdsAreFinite, LenProperties DEF SInv, SettlementIsFinal, TypeOK
      <3>2. CASE j = i /\ receiver.active
        BY <1>1, <1>3, <1>4, <3>1, <3>2 DEF Settled
      <3>3. CASE ~ (j = i /\ receiver.active)
        BY <1>1, <1>3, <1>4, <3>1, <3>3 DEF Settled
      <3> QED
        BY <3>2, <3>3
    <2>2. \A j \in Id : j > Len(asked) => delivered'[j] = 0
      BY <1>2, <1>4, IdsAreFinite DEF SInv, SettlementIsFinal
    <2> QED
      BY <1>1, <2>1, <2>2 DEF SInv, SettlementIsFinal
  <1>8. SleepersAreCovered' /\ NoWakeupIsLost'
    BY <1>1, SleepersAreKept
  <1> QED
    BY <1>5, <1>6, <1>7, <1>8 DEF SInv

(* Time passes. *)
LEMMA TickIsSound ==
    ASSUME SInv, Tick
    PROVE  SInv'
  <1>1. TypeOK'
    BY BoundsAssumption DEF SInv, TypeOK, Tick, memory
  <1>2. MemoryIsStorage' /\ OriginsAreKept' /\ SettlementIsFinal'
    BY SchedulesAreKept DEF SInv, OriginsAreKept, Tick, memory
  <1>3. SleepersAreCovered' /\ NoWakeupIsLost'
    BY SleepersAreKept DEF Tick, memory
  <1> QED
    BY <1>1, <1>2, <1>3 DEF SInv

(* What is reloaded is the table, which the invariant speaks of. *)
LEMMA CrashIsSound ==
    ASSUME SInv, Crash
    PROVE  SInv'
  <1>1. /\ pending' = pending /\ rows' = rows /\ rows = pending
        /\ dues' = IndexOf(pending)
        /\ unsignalled' = 0 /\ queue' = <<>> /\ worker' = Asleep /\ receiver' = Idle
        /\ UNCHANGED <<clock, asked, delivered, deleted>>
    BY DEF SInv, MemoryIsStorage, Crash
  <1>2. /\ worker'.at = "drain" /\ worker'.batch = <<>> /\ receiver'.at = "peek"
        /\ \A S : <<>> \in Seq(S)
    BY <1>1, EmptySeq DEF Asleep, Idle
  <1>3. TypeOK'
    <2>1. worker' \in [at : Phase, now : Nat, batch : Seq(Pending), slept : Nat,
                       alarm : SUBSET Nat]
      BY <1>1, <1>2 DEF Asleep, Phase
    <2>2. receiver' \in [at : Stage, active : BOOLEAN]
      BY <1>1 DEF Idle, Stage
    <2>3. wake' \in BOOLEAN /\ abandoned' \in BOOLEAN
      BY DEF Crash
    <2>4. faults' \in 0 .. MaxFault
      BY BoundsAssumption DEF SInv, TypeOK, Crash, Fault
    <2>5. dues' \subseteq [due : Nat, id : Id]
      <3>1. \A i \in DOMAIN pending : i \in Id /\ pending[i].due \in Nat
        BY IdsAreFinite DEF SInv, TypeOK, Schedule
      <3> QED
        BY <1>1, <3>1 DEF IndexOf, DueOf
    <2>6. queue' \in Seq(Pending) /\ Len(queue') <= Capacity
      BY <1>1, EmptySeq, BoundsAssumption
    <2> QED
      BY <1>1, <1>2, <2>1, <2>2, <2>3, <2>4, <2>5, <2>6 DEF SInv, TypeOK
  <1>4. MemoryIsStorage' /\ OriginsAreKept'
    BY <1>1, <1>2 DEF SInv, MemoryIsStorage, IndexOf, DueOf, OriginsAreKept, Known
  <1>5. SettlementIsFinal'
    BY <1>1, <1>2 DEF SInv, SettlementIsFinal, Settled
  <1>6. SleepersAreCovered' /\ NoWakeupIsLost'
    BY <1>2, AwakeIsCovered
  <1> QED
    BY <1>3, <1>4, <1>5, <1>6 DEF SInv

(* A call is an addition or a deletion. *)
LEMMA CallIsSound ==
    ASSUME SInv, Call
    PROVE  SInv'
  <1>1. CASE ScheduleMessage
    <2>1. PICK delay \in Delays, now \in Greatest(0, clock - LockWait) .. clock :
              \/ AddSchedule(now, delay, 0)
              \/ AddSchedule(now, delay, Greatest(1, delay))
      BY <1>1 DEF ScheduleMessage
    <2>2. /\ now \in Nat /\ delay \in Nat /\ 0 \in Nat
          /\ Greatest(1, delay) \in Nat
      BY BoundsAssumption DEF SInv, TypeOK, Greatest
    <2> QED
      BY <2>1, <2>2, AddScheduleIsSound
  <1>2. CASE \E i \in Id : DeleteScheduledMessage(i)
    BY <1>2, DeleteIsSound
  <1> QED
    BY <1>1, <1>2 DEF Call

(* Every step preserves the invariant. *)
LEMMA NextIsSound == SInv /\ [Next]_vars => SInv'
  <1> SUFFICES ASSUME SInv, [Next]_vars PROVE SInv'
    OBVIOUS
  <1>1. CASE Call
    BY <1>1, CallIsSound
  <1>2. CASE SignalWake
    BY <1>2, SignalWakeIsSound
  <1>3. CASE CancelCaller
    BY <1>3, CancelCallerIsSound
  <1>4. CASE Work
    BY <1>4, DrainIsSound, PopIsSound, EnqueueIsSound, NextDueAtIsSound,
       SleepIsSound, WakeIsSound DEF Work
  <1>5. CASE PopFails
    BY <1>5, PopFailsIsSound
  <1>6. CASE Receive
    BY <1>6, PeekIsSound, PrepareIsSound, AcknowledgeIsSound, TakeIsSound
    DEF Receive
  <1>7. CASE ReceiveFails
    BY <1>7, ReceiveFailsIsSound
  <1>8. CASE Tick
    BY <1>8, TickIsSound
  <1>9. CASE Crash
    BY <1>9, CrashIsSound
  <1>10. CASE UNCHANGED vars
    BY <1>10, StutteringIsSound
  <1> QED
    BY <1>1, <1>2, <1>3, <1>4, <1>5, <1>6, <1>7, <1>8, <1>9, <1>10 DEF Next

----------------------------------------------------------------------------
(* The queue and the batch as one sequence. *)

(* What is under way are occurrences of schedules that were asked for. *)
LEMMA UnderwayIsTyped ==
    ASSUME SInv
    PROVE  /\ Underway \in Seq(Known)
           /\ \A k \in DOMAIN Underway :
                /\ Underway[k].id \in 1 .. Len(asked) /\ Underway[k].id \in DOMAIN asked
                /\ Underway[k].due \in Nat /\ Underway[k].every = asked[Underway[k].id]
  <1> PICK u : u = Underway
    OBVIOUS
  <1>1. u \in Seq(Known)
    BY ConcatProperties DEF SInv, OriginsAreKept, Underway
  <1>2. ASSUME NEW k \in DOMAIN u PROVE u[k] \in Known
    BY <1>1, ElementOfSeq, LenProperties
  <1>3. DOMAIN asked = 1 .. Len(asked)
    BY LenProperties DEF SInv, TypeOK
  <1> QED
    BY <1>1, <1>2, <1>3 DEF Known, Pending

(* Without its head a sequence keeps the rest, a place earlier. *)
LEMMA TailMoves ==
    ASSUME NEW S, NEW u \in Seq(S), u # <<>>
    PROVE  /\ Len(u) \in Nat /\ 1 \in DOMAIN u /\ Head(u) = u[1] /\ DOMAIN u = 1 .. Len(u)
           /\ DOMAIN Tail(u) = 1 .. Len(u) - 1
           /\ \A k \in DOMAIN Tail(u) : k + 1 \in DOMAIN u /\ Tail(u)[k] = u[k + 1]
           /\ \A k \in DOMAIN u : k = 1 \/ (k - 1 \in DOMAIN Tail(u) /\ Tail(u)[k - 1] = u[k])
  <1>1. /\ Len(u) \in Nat /\ Len(u) > 0 /\ DOMAIN u = 1 .. Len(u) /\ Head(u) = u[1]
        /\ Len(Tail(u)) = Len(u) - 1 /\ Tail(u) \in Seq(S)
    BY LenProperties, EmptySeq, HeadTailProperties
  <1>2. DOMAIN Tail(u) = 1 .. Len(u) - 1
    BY <1>1, LenProperties
  <1>3. ASSUME NEW k \in DOMAIN Tail(u) PROVE k + 1 \in DOMAIN u /\ Tail(u)[k] = u[k + 1]
    <2>1. k \in 1 .. Len(u) - 1
      BY <1>2
    <2>2. Tail(u)[k] = u[k + 1]
      BY <1>1, <1>2, HeadTailProperties
    <2> QED
      BY <1>1, <2>1, <2>2
  <1>4. ASSUME NEW k \in DOMAIN u, k # 1 PROVE k - 1 \in DOMAIN Tail(u) /\ Tail(u)[k - 1] = u[k]
    <2>1. k \in Nat /\ k - 1 \in 1 .. Len(u) - 1
      BY <1>1, <1>4
    <2>2. Tail(u)[k - 1] = u[(k - 1) + 1] /\ (k - 1) + 1 = k
      BY <1>2, <1>3, <2>1
    <2> QED
      BY <1>2, <2>1, <2>2
  <1> QED
    BY <1>1, <1>2, <1>3, <1>4

(* The head of a nonempty queue leads what is underway. *)
LEMMA HeadLeads ==
    ASSUME SInv, queue # <<>>
    PROVE  /\ Underway # <<>> /\ Head(Underway) = Head(queue)
           /\ Tail(queue) \o worker.batch = Tail(Underway)
  <1> PICK b \in Seq(Known) : b = worker.batch
    BY DEF SInv, OriginsAreKept
  <1>1. queue \in Seq(Known)
    BY DEF SInv, OriginsAreKept
  <1> QED
    BY <1>1 DEF Underway

(* Moving the head of one sequence to the end of the other moves nothing in both. *)
LEMMA HeadMoves ==
    ASSUME NEW S, NEW q \in Seq(S), NEW b \in Seq(S), b # <<>>
    PROVE  Append(q, Head(b)) \o Tail(b) = q \o b
  <1> DEFINE v == Append(q, Head(b)) \o Tail(b)
             w == q \o b
  <1>1. /\ Head(b) \in S /\ Head(b) = b[1] /\ Tail(b) \in Seq(S) /\ Len(Tail(b)) = Len(b) - 1
        /\ Len(b) \in Nat /\ Len(b) > 0 /\ Len(q) \in Nat
        /\ \A i \in 1 .. Len(b) - 1 : Tail(b)[i] = b[i + 1]
    BY HeadTailProperties, LenProperties, EmptySeq
  <1>2. /\ Append(q, Head(b)) \in Seq(S) /\ Len(Append(q, Head(b))) = Len(q) + 1
        /\ \A i \in 1 .. Len(q) : Append(q, Head(b))[i] = q[i]
        /\ Append(q, Head(b))[Len(q) + 1] = b[1]
    BY <1>1, AppendProperties
  <1>3. v \in Seq(S) /\ w \in Seq(S) /\ Len(v) = Len(q) + Len(b) /\ Len(w) = Len(q) + Len(b)
    BY <1>1, <1>2, ConcatProperties
  <1>4. ASSUME NEW i \in 1 .. Len(q) + Len(b) PROVE v[i] = w[i]
    <2>1. w[i] = IF i <= Len(q) THEN q[i] ELSE b[i - Len(q)]
      BY <1>1, ConcatProperties
    <2>2. v[i] = IF i <= Len(q) + 1 THEN Append(q, Head(b))[i] ELSE Tail(b)[i - (Len(q) + 1)]
      BY <1>1, <1>2, ConcatProperties
    <2>3. CASE i <= Len(q)
      BY <1>1, <1>2, <2>1, <2>2, <2>3
    <2>4. CASE i = Len(q) + 1
      BY <1>1, <1>2, <2>1, <2>2, <2>4
    <2>5. CASE i > Len(q) + 1
      <3>1. i - (Len(q) + 1) \in 1 .. Len(b) - 1 /\ (i - (Len(q) + 1)) + 1 = i - Len(q)
        BY <1>1, <2>5
      <3> QED
        BY <1>1, <2>1, <2>2, <2>5, <3>1
    <2> QED
      BY <1>1, <2>3, <2>4, <2>5
  <1> HIDE DEF v, w
  <1> QED
    BY <1>3, <1>4, SeqEqual DEF v, w

(* An occurrence that is queued is still under way. *)
LEMMA EnqueueKeepsUnderway ==
    ASSUME SInv, Enqueue
    PROVE  Underway' = Underway
  <1> PICK q \in Seq(Known), b \in Seq(Known) : q = queue /\ b = worker.batch
    BY DEF SInv, OriginsAreKept
  <1>1. b # <<>> /\ queue' = Append(q, Head(b)) /\ worker'.batch = Tail(b)
    BY DEF SInv, TypeOK, Enqueue
  <1>2. Append(q, Head(b)) \o Tail(b) = q \o b
    BY <1>1, HeadMoves
  <1> QED
    BY <1>1, <1>2 DEF Underway

----------------------------------------------------------------------------
(* Where the schedules are. *)

(* A pending schedule is as it was asked for. *)
LEMMA ScheduleIsTyped ==
    ASSUME SInv, NEW i \in DOMAIN pending
    PROVE  /\ i \in DOMAIN asked /\ i \in Nat /\ pending[i].every = asked[i] /\ asked[i] \in Nat
           /\ pending[i].due \in Nat
  <1>1. DOMAIN asked = 1 .. Len(asked) /\ Len(asked) \in Nat
    BY LenProperties DEF SInv, TypeOK
  <1>2. pending[i].every = asked[i] /\ pending[i].due \in Nat /\ pending[i].every \in Nat
    BY DEF SInv, OriginsAreKept, TypeOK, Schedule
  <1> QED
    BY <1>1, <1>2 DEF SInv, TypeOK

(* Nothing that is underway, indexed or pending changes; time may pass. *)
LEMMA PlacesStay ==
    ASSUME SInv, PInv, UNCHANGED <<pending, dues, asked>>, Underway' = Underway,
           clock' \in Nat, clock <= clock'
    PROVE  Placed' /\ Spaced'
  <1> PICK u \in Seq(Known) : u = Underway
    BY UnderwayIsTyped
  <1>1. u = Underway' /\ clock \in Nat
    BY DEF SInv, TypeOK
  <1>2. Placed'
    BY <1>1 DEF PInv, Placed, DueOf
  <1>3. \A k \in DOMAIN u : u[k].due \in Nat
    BY UnderwayIsTyped
  <1>4. \A k \in DOMAIN u : u[k].due <= clock
    BY DEF PInv, Spaced
  <1>5. \A k \in DOMAIN u : u[k].due <= clock'
    BY <1>1, <1>3, <1>4
  <1> QED
    BY <1>1, <1>2, <1>5 DEF PInv, Spaced

(* The head leaves, which is no pending one-shot message. *)
LEMMA PlacesAdvance ==
    ASSUME SInv, PInv, UNCHANGED <<pending, dues, asked, clock>>, queue # <<>>,
           Underway' = Tail(Underway),
           asked[Head(queue).id] = 0 => Head(queue).id \notin DOMAIN pending
    PROVE  Placed' /\ Spaced'
  <1> PICK u \in Seq(Known) : u = Underway
    BY UnderwayIsTyped
  <1> PICK v : v = Underway'
    OBVIOUS
  <1>1. u # <<>> /\ v = Tail(u) /\ Head(u) = Head(queue)
    BY HeadLeads
  <1>2. /\ DOMAIN u = 1 .. Len(u) /\ Len(u) \in Nat /\ 1 \in DOMAIN u /\ Head(u) = u[1]
        /\ DOMAIN v = 1 .. Len(u) - 1
        /\ \A k \in DOMAIN v : k + 1 \in DOMAIN u /\ v[k] = u[k + 1]
        /\ \A k \in DOMAIN u : k = 1 \/ (k - 1 \in DOMAIN v /\ v[k - 1] = u[k])
    BY <1>1, TailMoves
  <1>3. ASSUME NEW i \in DOMAIN pending, pending[i].every = 0
        PROVE  /\ ~Held(u, i) => ~Held(v, i)
               /\ Single(u, i) => Single(v, i)
    <2>1. u[1].id # i
      BY <1>1, <1>2, <1>3, ScheduleIsTyped
    <2>2. ASSUME Held(v, i) PROVE Held(u, i)
      BY <1>2, <2>2 DEF Held
    <2>3. ASSUME Single(u, i) PROVE Single(v, i)
      <3>1. PICK k \in DOMAIN u : \A l \in DOMAIN u : u[l].id = i <=> l = k
        BY <2>3 DEF Single
      <3>2. k # 1 /\ k - 1 \in DOMAIN v
        BY <1>2, <2>1, <3>1
      <3>3. ASSUME NEW l \in DOMAIN v PROVE v[l].id = i <=> l = k - 1
        <4>1. v[l].id = i <=> l + 1 = k
          BY <1>2, <3>1
        <4>2. l \in Int /\ k \in Int
          BY <1>2
        <4> QED
          BY <4>1, <4>2
      <3> QED
        BY <3>2, <3>3 DEF Single
    <2> QED
      BY <2>2, <2>3
  <1>4. Placed'
    BY <1>3, ScheduleIsTyped DEF PInv, Placed, DueOf
  <1>5. \A k \in DOMAIN v : v[k].due <= clock
    BY <1>2 DEF PInv, Spaced
  <1>6. ASSUME NEW i \in DOMAIN asked, asked[i] > 0, NEW k \in DOMAIN v, v[k].id = i
        PROVE  /\ \A l \in DOMAIN v : k < l /\ v[l].id = i => v[l].due >= v[k].due + asked[i]
               /\ i \in DOMAIN pending => pending[i].due >= v[k].due + asked[i]
    <2>1. k + 1 \in DOMAIN u /\ v[k] = u[k + 1] /\ k \in Int
      BY <1>2
    <2>2. ASSUME NEW l \in DOMAIN v, k < l, v[l].id = i PROVE v[l].due >= v[k].due + asked[i]
      <3>1. l + 1 \in DOMAIN u /\ v[l] = u[l + 1] /\ k + 1 < l + 1
        BY <1>2, <2>1, <2>2
      <3> QED
        BY <1>6, <2>1, <2>2, <3>1 DEF PInv, Spaced
    <2> QED
      BY <1>6, <2>1, <2>2 DEF PInv, Spaced
  <1> QED
    BY <1>4, <1>5, <1>6 DEF Spaced

(* A schedule is erased, and the others stay where they are. *)
LEMMA PlacesAreErased ==
    ASSUME SInv, PInv, NEW i \in DOMAIN pending, Erase(i), UNCHANGED <<asked, clock>>,
           Underway' = Underway
    PROVE  Placed' /\ Spaced'
  <1> PICK u \in Seq(Known) : u = Underway
    BY UnderwayIsTyped
  <1>1. /\ u = Underway' /\ dues' = dues \ {DueOf(pending, i)}
        /\ DOMAIN pending' = DOMAIN pending \ {i}
        /\ \A j \in DOMAIN pending \ {i} : pending'[j] = pending[j]
    BY EraseRemoves DEF Erase, EraseFromMemory
  <1>2. ASSUME NEW j \in DOMAIN pending'
        PROVE  /\ j \in DOMAIN pending /\ pending'[j] = pending[j]
               /\ DueOf(pending', j) \in dues' <=> DueOf(pending, j) \in dues
    BY <1>1 DEF DueOf
  <1>3. Placed'
    BY <1>1, <1>2 DEF PInv, Placed
  <1> QED
    BY <1>1, <1>2, <1>3 DEF PInv, Spaced

(* A new schedule is indexed under an id that nothing underway has. *)
LEMMA PlacesAreAdded ==
    ASSUME SInv, PInv, NEW now \in Nat, NEW delay \in Nat, NEW every \in Nat,
           AddSchedule(now, delay, every)
    PROVE  Placed' /\ Spaced'
  <1> PICK u \in Seq(Known) : u = Underway
    BY UnderwayIsTyped
  <1> PICK i \in Id : i = Len(asked) + 1
    BY DEF AddSchedule
  <1> PICK s : s = [due |-> now + delay, every |-> every]
    OBVIOUS
  <1>1. /\ asked' = Append(asked, every) /\ pending' = Put(pending, i, s)
        /\ dues' = dues \cup {[due |-> s.due, id |-> i]}
        /\ UNCHANGED clock /\ u = Underway'
    BY DEF AddSchedule, Underway
  <1>2. /\ DOMAIN asked = 1 .. Len(asked) /\ Len(asked) \in Nat
        /\ DOMAIN asked' = 1 .. Len(asked) + 1
        /\ \A j \in DOMAIN asked : asked'[j] = asked[j]
    <2>1. asked \in Seq(Nat)
      BY DEF SInv, TypeOK
    <2> QED
      BY <1>1, <2>1, AppendProperties, LenProperties
  <1>3. i \notin DOMAIN pending /\ DOMAIN pending' = DOMAIN pending \cup {i} /\ i \notin DOMAIN asked
    BY <1>1, <1>2 DEF SInv, TypeOK, Put
  <1>4. pending'[i] = s /\ \A j \in DOMAIN pending : pending'[j] = pending[j]
    BY <1>1, <1>3 DEF Put
  <1>5. \A k \in DOMAIN u : u[k].id # i /\ u[k].id \in DOMAIN asked
    BY <1>3, UnderwayIsTyped
  <1>6. ASSUME NEW j \in DOMAIN pending
        PROVE  DueOf(pending', j) \in dues' <=> DueOf(pending, j) \in dues
    <2>1. j # i /\ DueOf(pending', j) = DueOf(pending, j)
      BY <1>3, <1>4 DEF DueOf
    <2> QED
      BY <1>1, <2>1 DEF DueOf
  <1>7. DueOf(pending', i) \in dues' /\ ~Held(u, i)
    BY <1>1, <1>4, <1>5 DEF DueOf, Held
  <1>8. Placed'
    BY <1>1, <1>3, <1>4, <1>6, <1>7 DEF PInv, Placed
  <1>9. ASSUME NEW k \in DOMAIN u, asked'[u[k].id] > 0
        PROVE  /\ \A l \in DOMAIN u : k < l /\ u[l].id = u[k].id => u[l].due >= u[k].due + asked'[u[k].id]
               /\ u[k].id \in DOMAIN pending' => pending'[u[k].id].due >= u[k].due + asked'[u[k].id]
    BY <1>2, <1>3, <1>4, <1>5, <1>9 DEF PInv, Spaced
  <1>10. \A k \in DOMAIN u : u[k].due <= clock'
    BY <1>1 DEF PInv, Spaced
  <1> QED
    BY <1>1, <1>8, <1>9, <1>10 DEF Spaced

(* The places of a concatenation. *)
LEMMA ConcatPlaces ==
    ASSUME NEW S, NEW u \in Seq(S), NEW b \in Seq(S), NEW v, v = u \o b
    PROVE  /\ Len(u) \in Nat /\ DOMAIN u = 1 .. Len(u)
           /\ \A k \in DOMAIN u : k \in DOMAIN v /\ v[k] = u[k]
           /\ \A k \in DOMAIN b : Len(u) + k \in DOMAIN v /\ v[Len(u) + k] = b[k]
           /\ \A k \in DOMAIN v :
                \/ k \in DOMAIN u
                \/ k > Len(u) /\ k \in Nat /\ k - Len(u) \in DOMAIN b /\ v[k] = b[k - Len(u)]
  <1>1. /\ Len(u) \in Nat /\ Len(b) \in Nat /\ DOMAIN u = 1 .. Len(u) /\ DOMAIN b = 1 .. Len(b)
        /\ Len(v) = Len(u) + Len(b) /\ v \in Seq(S)
        /\ \A k \in 1 .. Len(u) + Len(b) : v[k] = IF k <= Len(u) THEN u[k] ELSE b[k - Len(u)]
    BY ConcatProperties, LenProperties
  <1>2. DOMAIN v = 1 .. Len(u) + Len(b)
    BY <1>1, LenProperties
  <1>3. \A k \in DOMAIN u : k \in DOMAIN v /\ v[k] = u[k]
    BY <1>1, <1>2
  <1>4. ASSUME NEW k \in DOMAIN b PROVE Len(u) + k \in DOMAIN v /\ v[Len(u) + k] = b[k]
    <2>1. k \in Nat /\ Len(u) + k \in 1 .. Len(u) + Len(b) /\ ~(Len(u) + k <= Len(u))
      BY <1>1
    <2>2. (Len(u) + k) - Len(u) = k
      BY <1>1, <2>1
    <2> QED
      BY <1>1, <1>2, <2>1, <2>2
  <1>5. ASSUME NEW k \in DOMAIN v, k \notin DOMAIN u
        PROVE  k > Len(u) /\ k \in Nat /\ k - Len(u) \in DOMAIN b /\ v[k] = b[k - Len(u)]
    BY <1>1, <1>2, <1>5
  <1> QED
    BY <1>1, <1>3, <1>4, <1>5

(* What is popped goes behind what is queued. *)
LEMMA PlacesArePopped ==
    ASSUME SInv, PInv, Pop
    PROVE  Placed' /\ Spaced'
  <1> PICK now : now = worker.now
    OBVIOUS
  <1> PICK due : due = Expired(now)
    OBVIOUS
  <1> PICK again : again = Recurring(due)
    OBVIOUS
  <1> PICK u \in Seq(Known) : u = queue
    BY DEF SInv, OriginsAreKept
  <1> PICK b : b = InOrder(due)
    OBVIOUS
  <1> PICK v : v = Underway'
    OBVIOUS
  <1>1. /\ worker.at = "pop" /\ worker.batch = <<>> /\ worker'.batch = b
        /\ pending' = Rescheduled(pending, again, now)
        /\ dues' = Remaining(now) \cup {DueOf(pending', i) : i \in again}
        /\ UNCHANGED <<clock, asked, queue>>
    BY DEF Pop, SInv, TypeOK, PInv, HandsAreEmpty
  <1>2. now \in Nat /\ clock \in Nat /\ now <= clock
    BY DEF SInv, TypeOK, PInv, HandsAreEmpty
  <1>3. due \subseteq DOMAIN pending /\ again = {i \in due : pending[i].every > 0}
    BY DEF Expired, Recurring
  <1>4. /\ b \in Seq(Known) /\ \A k \in DOMAIN b : b[k].id \in due /\ b[k].due = pending[b[k].id].due
        /\ \A i \in due : Single(b, i)
    <2>1. IsFiniteSet(due) /\ \A i \in due : i \in Nat /\ pending[i].due \in Nat
      BY <1>3, IdsAreFinite, FS_Subset, ScheduleIsTyped
    <2>2. SInv'
      BY PopIsSound
    <2>3. b \in Seq(Known)
      BY <1>1, <2>2 DEF SInv, OriginsAreKept, Known
    <2> QED
      BY <1>3, <2>1, <2>3, InOrderHoldsEach
  <1>5. u = Underway /\ v = u \o b
    BY <1>1 DEF Underway
  <1>6. /\ Len(u) \in Nat /\ DOMAIN u = 1 .. Len(u)
        /\ \A k \in DOMAIN u : k \in DOMAIN v /\ v[k] = u[k]
        /\ \A k \in DOMAIN b : Len(u) + k \in DOMAIN v /\ v[Len(u) + k] = b[k]
        /\ \A k \in DOMAIN v :
             \/ k \in DOMAIN u
             \/ k > Len(u) /\ k \in Nat /\ k - Len(u) \in DOMAIN b /\ v[k] = b[k - Len(u)]
    BY <1>4, <1>5, ConcatPlaces
  <1>7. ASSUME NEW i \in due PROVE DueOf(pending, i) \in dues /\ pending[i].due <= now
    <2>1. PICK d \in dues : d.id = i /\ d.due <= now
      BY DEF Expired
    <2>2. PICK j \in DOMAIN pending : d = DueOf(pending, j)
      BY DEF SInv, MemoryIsStorage, IndexOf
    <2> QED
      BY <2>1, <2>2 DEF DueOf
  <1>8. /\ DOMAIN pending' = DOMAIN pending
        /\ \A i \in DOMAIN pending \ again : pending'[i] = pending[i]
        /\ \A i \in again : pending'[i] = [pending[i] EXCEPT !.due = NextDue(pending[i], now)]
    BY <1>1, <1>3 DEF Rescheduled
  <1>9. ASSUME NEW i \in again
        PROVE  /\ pending'[i].every = pending[i].every /\ pending[i].every = asked[i]
               /\ pending'[i].due >= pending[i].due
               /\ pending'[i].due >= pending[i].due + asked[i]
    <2>1. /\ i \in due /\ pending[i] \in Schedule /\ pending[i].every = asked[i]
      BY <1>3 DEF SInv, TypeOK, OriginsAreKept
    <2>2. pending[i].due <= now /\ pending[i].due \in Nat /\ pending[i].every \in Nat
      BY <1>7, <2>1 DEF Schedule
    <2>3. pending'[i].every = pending[i].every /\ pending'[i].due = now + Greatest(1, pending[i].every)
      BY <1>8, <2>1 DEF Schedule, NextDue
    <2> QED
      BY <1>2, <2>1, <2>2, <2>3 DEF Greatest
  <1>10. Placed'
    <2>1. ASSUME NEW i \in DOMAIN pending, pending[i].every > 0 PROVE DueOf(pending', i) \in dues'
      <3>1. CASE i \in again
        BY <1>1, <3>1
      <3>2. CASE i \notin again
        <4>1. i \notin due /\ DueOf(pending, i) \in dues /\ pending'[i] = pending[i]
          BY <1>3, <1>8, <2>1, <3>2 DEF PInv, Placed
        <4>2. ~(pending[i].due <= now)
          BY <4>1 DEF Expired, DueOf
        <4>3. DueOf(pending, i) \in Remaining(now)
          BY <1>2, <4>1, <4>2, ScheduleIsTyped DEF Remaining, DueOf
        <4> QED
          BY <1>1, <4>1, <4>3 DEF DueOf
      <3> QED
        BY <3>1, <3>2
    <2>2. ASSUME NEW i \in DOMAIN pending, ~(pending[i].every > 0)
          PROVE  IF DueOf(pending', i) \in dues' THEN ~Held(v, i) ELSE Single(v, i)
      <3>1. i \notin again /\ pending'[i] = pending[i] /\ DueOf(pending', i) = DueOf(pending, i)
        BY <1>3, <1>8, <2>2 DEF DueOf
      <3>2. DueOf(pending', i) \in dues' <=> DueOf(pending, i) \in dues /\ pending[i].due > now
        <4>1. \A j \in again : DueOf(pending', j) # DueOf(pending, i)
          BY <3>1 DEF DueOf
        <4> QED
          BY <1>1, <3>1, <4>1 DEF Remaining, DueOf
      <3>3. CASE i \in due
        <4>1. ~(DueOf(pending', i) \in dues') /\ DueOf(pending, i) \in dues
          BY <1>2, <1>7, <3>2, <3>3, ScheduleIsTyped
        <4>2. ~Held(u, i) /\ Single(b, i)
          BY <1>4, <1>5, <2>2, <3>3, <4>1 DEF PInv, Placed
        <4>3. PICK k \in DOMAIN b : \A l \in DOMAIN b : b[l].id = i <=> l = k
          BY <4>2 DEF Single
        <4>4. Len(u) + k \in DOMAIN v
          BY <1>6
        <4>5. ASSUME NEW l \in DOMAIN v PROVE v[l].id = i <=> l = Len(u) + k
          <5>1. CASE l \in DOMAIN u
            <6>1. v[l].id # i /\ l <= Len(u)
              BY <1>6, <4>2, <5>1 DEF Held
            <6>2. k \in Nat /\ k > 0
              BY <1>4, LenProperties
            <6> QED
              BY <1>6, <5>1, <6>1, <6>2
          <5>2. CASE l \in Nat /\ l - Len(u) \in DOMAIN b /\ v[l] = b[l - Len(u)]
            <6>1. k \in Nat
              BY <1>4, LenProperties
            <6>2. v[l].id = i <=> l - Len(u) = k
              BY <4>3, <5>2
            <6> QED
              BY <1>6, <5>2, <6>1, <6>2
          <5> QED
            BY <1>6, <5>1, <5>2
        <4>6. Single(v, i)
          BY <4>4, <4>5 DEF Single
        <4> QED
          BY <4>1, <4>6
      <3>4. CASE i \notin due
        <4>1. DueOf(pending', i) \in dues' <=> DueOf(pending, i) \in dues
          <5>1. DueOf(pending, i) \in dues => ~(pending[i].due <= now)
            BY <3>4 DEF Expired, DueOf
          <5> QED
            BY <1>2, <3>2, <5>1, ScheduleIsTyped
        <4>2. \A l \in DOMAIN v : v[l].id = i => l \in DOMAIN u
          BY <1>4, <1>6, <3>4
        <4>3. ~Held(u, i) => ~Held(v, i)
          BY <1>6, <4>2 DEF Held
        <4>4. ASSUME Single(u, i) PROVE Single(v, i)
          <5>1. PICK k \in DOMAIN u : \A l \in DOMAIN u : u[l].id = i <=> l = k
            BY <4>4 DEF Single
          <5>2. k \in DOMAIN v /\ \A l \in DOMAIN v : v[l].id = i <=> l = k
            BY <1>6, <4>2, <5>1
          <5> QED
            BY <5>2 DEF Single
        <4>5. IF DueOf(pending, i) \in dues THEN ~Held(u, i) ELSE Single(u, i)
          BY <1>5, <2>2 DEF PInv, Placed
        <4> QED
          BY <4>1, <4>3, <4>4, <4>5
      <3> QED
        BY <3>3, <3>4
    <2>3. ASSUME NEW i \in DOMAIN pending PROVE pending'[i].every = pending[i].every
      BY <1>8, <1>9
    <2>4. ASSUME NEW i \in DOMAIN pending'
          PROVE  IF pending'[i].every > 0 THEN DueOf(pending', i) \in dues'
                 ELSE IF DueOf(pending', i) \in dues' THEN ~Held(v, i) ELSE Single(v, i)
      BY <1>8, <2>1, <2>2, <2>3
    <2> QED
      BY <2>4 DEF Placed
  <1>11. ASSUME NEW k \in DOMAIN v PROVE v[k].due <= clock
    <2>1. CASE k \in DOMAIN u
      BY <1>5, <1>6, <2>1 DEF PInv, Spaced
    <2>2. CASE k - Len(u) \in DOMAIN b /\ v[k] = b[k - Len(u)]
      <3>1. v[k].id \in due /\ v[k].due = pending[v[k].id].due
        BY <1>4, <2>2
      <3> QED
        BY <1>2, <1>3, <1>7, <3>1, ScheduleIsTyped
    <2> QED
      BY <1>6, <2>1, <2>2
  <1>12. ASSUME NEW i \in DOMAIN asked, asked[i] > 0, NEW k \in DOMAIN v, v[k].id = i
         PROVE  /\ \A l \in DOMAIN v : k < l /\ v[l].id = i => v[l].due >= v[k].due + asked[i]
                /\ i \in DOMAIN pending => pending'[i].due >= v[k].due + asked[i]
    <2>1. i \in due => i \in again
      BY <1>3, <1>12 DEF SInv, OriginsAreKept
    <2>2. CASE k \in DOMAIN u
      <3>1. /\ v[k] = u[k] /\ u[k].id = i
            /\ i \in DOMAIN pending => pending[i].due >= u[k].due + asked[i]
            /\ \A l \in DOMAIN u : k < l /\ u[l].id = i => u[l].due >= u[k].due + asked[i]
        BY <1>5, <1>6, <1>12, <2>2 DEF PInv, Spaced
      <3>2. ASSUME NEW l \in DOMAIN v, k < l, v[l].id = i PROVE v[l].due >= v[k].due + asked[i]
        <4>1. CASE l \in DOMAIN u
          BY <1>6, <3>1, <3>2, <4>1
        <4>2. CASE l - Len(u) \in DOMAIN b /\ v[l] = b[l - Len(u)]
          <5>1. i \in due /\ v[l].due = pending[i].due
            BY <1>4, <3>2, <4>2
          <5> QED
            BY <1>3, <3>1, <5>1
        <4> QED
          BY <1>6, <4>1, <4>2
      <3>3. ASSUME i \in DOMAIN pending PROVE pending'[i].due >= v[k].due + asked[i]
        <4>1. CASE i \in again
          <5>1. pending[i].due \in Nat /\ asked[i] \in Nat /\ u[k].due \in Nat /\ pending'[i].due >= pending[i].due
            BY <1>5, <1>9, <2>2, <3>3, <4>1, ScheduleIsTyped, UnderwayIsTyped
          <5>2. pending'[i].due \in Nat
            <6>1. SInv'
              BY PopIsSound
            <6> QED
              BY <1>8, <3>3, <6>1 DEF SInv, TypeOK, Schedule
          <5> QED
            BY <3>1, <3>3, <5>1, <5>2
        <4>2. CASE i \notin again
          BY <1>8, <3>1, <3>3, <4>2
        <4> QED
          BY <4>1, <4>2
      <3> QED
        BY <3>2, <3>3
    <2>3. CASE k > Len(u) /\ k \in Nat /\ k - Len(u) \in DOMAIN b /\ v[k] = b[k - Len(u)]
      <3>1. i \in due /\ v[k].due = pending[i].due /\ Single(b, i)
        BY <1>4, <1>12, <2>3
      <3>2. ASSUME NEW l \in DOMAIN v, k < l, v[l].id = i PROVE FALSE
        <4>1. l \in Nat /\ l - Len(u) \in DOMAIN b /\ v[l] = b[l - Len(u)]
          BY <1>6, <2>3, <3>2
        <4>2. l - Len(u) = k - Len(u)
          <5>1. PICK c \in DOMAIN b : \A j \in DOMAIN b : b[j].id = i <=> j = c
            BY <3>1 DEF Single
          <5> QED
            BY <1>12, <2>3, <3>2, <4>1, <5>1
        <4> QED
          BY <1>6, <2>3, <3>2, <4>1, <4>2
      <3>3. pending'[i].due >= v[k].due + asked[i]
        BY <1>9, <2>1, <3>1
      <3> QED
        BY <3>2, <3>3
    <2> QED
      BY <1>6, <2>2, <2>3
  <1> QED
    BY <1>1, <1>8, <1>10, <1>11, <1>12 DEF Spaced

(* After a restart nothing is underway, and all that is stored is indexed. *)
LEMMA PlacesAreReloaded ==
    ASSUME SInv, Crash
    PROVE  Placed' /\ Spaced'
  <1>1. Underway' = <<>>
    BY DEF Crash, Asleep, Underway
  <1>2. pending' = pending /\ dues' = IndexOf(pending)
    BY DEF Crash, SInv, MemoryIsStorage
  <1>3. \A i : ~Held(<<>>, i)
    BY DEF Held
  <1> PICK v : v = Underway'
    OBVIOUS
  <1>4. \A i \in DOMAIN pending : DueOf(pending', i) \in dues' /\ ~Held(v, i)
    BY <1>1, <1>2, <1>3 DEF IndexOf, DueOf
  <1>5. \A k \in DOMAIN v : FALSE
    BY <1>1
  <1> QED
    BY <1>2, <1>4, <1>5 DEF Placed, Spaced

----------------------------------------------------------------------------
(* Every step keeps every schedule in its place. *)

(* The steps of the worker. *)
LEMMA WorkKeepsPlaces ==
    ASSUME SInv, PInv, Work \/ PopFails
    PROVE  PInv'
  <1>1. /\ worker.now \in Nat /\ clock \in Nat /\ worker.now <= clock
        /\ worker.at # "enqueue" => worker.batch = <<>>
    BY DEF SInv, TypeOK, PInv, HandsAreEmpty
  <1>2. CASE Drain \/ PopFails \/ NextDueAt \/ Sleep \/ Wake
    <2>1. /\ worker'.batch = worker.batch /\ worker'.now <= clock
          /\ worker'.batch = <<>>
          /\ UNCHANGED <<clock, pending, dues, asked, queue, receiver>>
      <3>1. CASE Drain
        BY <1>1, <3>1 DEF Drain, memory, SInv, TypeOK
      <3>2. CASE PopFails
        BY <1>1, <3>2 DEF PopFails, memory, SInv, TypeOK
      <3>3. CASE NextDueAt
        BY <1>1, <3>3 DEF NextDueAt, memory, SInv, TypeOK
      <3>4. CASE Sleep
        BY <1>1, <3>4 DEF Sleep, memory, SInv, TypeOK
      <3>5. CASE Wake
        BY <1>1, <3>5 DEF Wake, Asleep, memory
      <3> QED
        BY <1>2, <3>1, <3>2, <3>3, <3>4, <3>5
    <2>2. Placed' /\ Spaced'
      BY <1>1, <2>1, PlacesStay DEF Underway
    <2> QED
      BY <2>1, <2>2 DEF PInv, HandsAreEmpty
  <1>3. CASE Enqueue
    <2>1. /\ worker'.at = "enqueue" /\ worker'.now = worker.now
          /\ UNCHANGED <<clock, pending, dues, asked, receiver>>
          /\ receiver.at = "take" => Head(queue') = Head(queue)
      <3>1. worker.batch # <<>> /\ Head(worker.batch) \in Pending /\ queue \in Seq(Pending)
        BY <1>3, HeadTailProperties DEF Enqueue, SInv, TypeOK
      <3> QED
        BY <1>3, <3>1, AppendKeepsHead DEF Enqueue, memory, SInv, TypeOK
    <2>2. Placed' /\ Spaced'
      BY <1>1, <1>3, <2>1, EnqueueKeepsUnderway, PlacesStay
    <2> QED
      BY <1>1, <2>1, <2>2 DEF PInv, HandsAreEmpty
  <1>4. CASE Pop
    <2>1. /\ worker'.at = "enqueue" /\ worker'.now = worker.now
          /\ DOMAIN pending' = DOMAIN pending
          /\ UNCHANGED <<clock, asked, queue, receiver>>
      BY <1>4 DEF Pop, Rescheduled, SInv, TypeOK
    <2>2. Placed' /\ Spaced'
      BY <1>4, PlacesArePopped
    <2> QED
      BY <1>1, <2>1, <2>2 DEF PInv, HandsAreEmpty
  <1> QED
    BY <1>2, <1>3, <1>4 DEF Work

(* The steps of the receiver. *)
LEMMA ReceiveKeepsPlaces ==
    ASSUME SInv, PInv, Receive \/ ReceiveFails
    PROVE  PInv'
  <1>1. worker' = worker /\ UNCHANGED <<clock, asked>> /\ clock \in Nat
    BY DEF Receive, Peek, Prepare, Acknowledge, Take, ReceiveFails, SInv, TypeOK
  <1>2. CASE Prepare \/ ReceiveFails \/ (Peek /\ UNCHANGED queue)
    <2>1. /\ UNCHANGED <<pending, dues, queue>> /\ receiver'.at # "take"
      <3>1. CASE Prepare
        BY <3>1 DEF Prepare, memory, SInv, TypeOK
      <3>2. CASE ReceiveFails
        BY <3>2 DEF ReceiveFails, memory, SInv, TypeOK
      <3>3. CASE Peek /\ UNCHANGED queue
        BY <3>3 DEF Peek, memory, SInv, TypeOK
      <3> QED
        BY <1>2, <3>1, <3>2, <3>3
    <2>2. Placed' /\ Spaced'
      BY <1>1, <2>1, PlacesStay DEF Underway
    <2> QED
      BY <1>1, <2>1, <2>2 DEF PInv, HandsAreEmpty
  <1>3. CASE (Peek /\ queue' = Tail(queue) /\ ~Active(Head(queue).id)) \/ Take
    <2>1. /\ UNCHANGED <<pending, dues>> /\ queue # <<>> /\ queue' = Tail(queue) /\ receiver'.at # "take"
          /\ asked[Head(queue).id] = 0 => Head(queue).id \notin DOMAIN pending
      <3>1. CASE Peek /\ queue' = Tail(queue) /\ ~Active(Head(queue).id)
        BY <3>1 DEF Peek, Active, memory, SInv, TypeOK
      <3>2. CASE Take
        BY <3>2 DEF Take, memory, Idle, SInv, TypeOK, PInv, HandsAreEmpty
      <3> QED
        BY <1>3, <3>1, <3>2
    <2>2. Underway' = Tail(Underway)
      BY <1>1, <2>1, HeadLeads DEF Underway
    <2>3. Placed' /\ Spaced'
      BY <1>1, <2>1, <2>2, PlacesAdvance
    <2> QED
      BY <1>1, <2>1, <2>3 DEF PInv, HandsAreEmpty
  <1>4. CASE Acknowledge
    <2> PICK m : m = Head(queue)
      OBVIOUS
    <2>1. /\ UNCHANGED queue /\ queue # <<>>
          /\ IF m.every = 0 /\ m.id \in DOMAIN pending THEN Erase(m.id)
                                                       ELSE UNCHANGED <<rows, pending, dues>>
      BY <1>4 DEF Acknowledge, Accepted, Active, memory, SInv, TypeOK
    <2>2. m.every = asked[m.id]
      BY <2>1, TailIsTyped DEF Known
    <2>3. Underway' = Underway
      BY <1>1, <2>1 DEF Underway
    <2>4. CASE m.every = 0 /\ m.id \in DOMAIN pending
      <3>1. Erase(m.id)
        BY <2>1, <2>4
      <3>2. Placed' /\ Spaced'
        BY <1>1, <2>3, <2>4, <3>1, PlacesAreErased
      <3>3. m.id \notin DOMAIN pending'
        BY <2>4, <3>1, EraseRemoves
      <3> QED
        BY <1>1, <2>1, <3>2, <3>3 DEF PInv, HandsAreEmpty
    <2>5. CASE ~(m.every = 0 /\ m.id \in DOMAIN pending)
      <3>1. UNCHANGED <<pending, dues>>
        BY <2>1, <2>5
      <3>2. Placed' /\ Spaced'
        BY <1>1, <2>3, <3>1, PlacesStay
      <3> QED
        BY <1>1, <2>1, <2>2, <2>5, <3>1, <3>2 DEF PInv, HandsAreEmpty
    <2> QED
      BY <2>4, <2>5
  <1> QED
    BY <1>2, <1>3, <1>4 DEF Receive, Peek

(* The steps of the callers and of the environment. *)
LEMMA CallKeepsPlaces ==
    ASSUME SInv, PInv, Call
    PROVE  PInv'
  <1>1. UNCHANGED <<clock, worker, queue, receiver>>
    BY DEF Call, ScheduleMessage, AddSchedule, DeleteScheduledMessage
  <1>2. CASE ScheduleMessage
    <2>1. PICK delay \in Nat, now \in Nat, every \in Nat : AddSchedule(now, delay, every)
      <3>1. PICK delay \in Delays, now \in Greatest(0, clock - LockWait) .. clock :
                \/ AddSchedule(now, delay, 0)
                \/ AddSchedule(now, delay, Greatest(1, delay))
        BY <1>2 DEF ScheduleMessage
      <3>2. now \in Nat /\ delay \in Nat /\ 0 \in Nat /\ Greatest(1, delay) \in Nat
        BY BoundsAssumption DEF SInv, TypeOK, Greatest
      <3> QED
        BY <3>1, <3>2
    <2>2. Placed' /\ Spaced'
      BY <2>1, PlacesAreAdded
    <2>3. ASSUME receiver.at = "take"
          PROVE  /\ Head(queue).id \in 1 .. Len(asked)
                 /\ asked'[Head(queue).id] = asked[Head(queue).id]
                 /\ Head(queue).id \in DOMAIN pending' => Head(queue).id \in DOMAIN pending
      <3> PICK i : i = Head(queue).id
        OBVIOUS
      <3>1. i \in 1 .. Len(asked)
        BY <2>3, TailIsTyped DEF SInv, TypeOK, Known
      <3>2. Len(asked) \in Nat /\ asked'[i] = asked[i]
        <4>1. asked \in Seq(Nat) /\ asked' = Append(asked, every)
          BY <2>1 DEF SInv, TypeOK, AddSchedule
        <4> QED
          BY <3>1, <4>1, AppendProperties, LenProperties
      <3>3. DOMAIN pending' = DOMAIN pending \cup {Len(asked) + 1}
        BY <2>1 DEF AddSchedule, Put
      <3> QED
        BY <3>1, <3>2, <3>3
    <2> QED
      BY <1>1, <2>2, <2>3 DEF PInv, HandsAreEmpty
  <1>3. CASE \E i \in Id : DeleteScheduledMessage(i)
    <2>1. PICK i \in DOMAIN pending : Erase(i) /\ UNCHANGED asked
      BY <1>3 DEF DeleteScheduledMessage
    <2>2. Placed' /\ Spaced'
      BY <1>1, <2>1, PlacesAreErased DEF Underway
    <2> QED
      BY <1>1, <2>1, <2>2, EraseRemoves DEF PInv, HandsAreEmpty
  <1> QED
    BY <1>2, <1>3 DEF Call

(* Every step keeps each occurrence in its place and the distances between them. *)
LEMMA PlacesAreKept == SInv /\ PInv /\ [Next]_vars => PInv'
  <1> SUFFICES ASSUME SInv, PInv, [Next]_vars PROVE PInv'
    OBVIOUS
  <1>1. clock \in Nat
    BY DEF SInv, TypeOK
  <1>2. CASE SignalWake \/ CancelCaller \/ Tick \/ UNCHANGED vars
    <2>1. /\ UNCHANGED <<pending, dues, asked, queue, worker, receiver>>
          /\ clock' \in Nat /\ clock <= clock'
      BY <1>1, <1>2 DEF SignalWake, CancelCaller, Tick, memory, vars
    <2>2. Placed' /\ Spaced'
      BY <2>1, PlacesStay DEF Underway
    <2>3. worker.now <= clock'
      BY <1>1, <2>1 DEF SInv, TypeOK, PInv, HandsAreEmpty
    <2> QED
      BY <2>1, <2>2, <2>3 DEF PInv, HandsAreEmpty
  <1>3. CASE Crash
    <2>1. worker'.at = "drain" /\ worker'.now = 0 /\ worker'.batch = <<>> /\ receiver'.at = "peek" /\ clock' = clock
      BY <1>3 DEF Crash, Asleep, Idle
    <2> QED
      BY <1>1, <1>3, <2>1, PlacesAreReloaded DEF PInv, HandsAreEmpty
  <1> QED
    BY <1>2, <1>3, CallKeepsPlaces, WorkKeepsPlaces, ReceiveKeepsPlaces DEF Next

(* At the start nothing is due. *)
LEMMA InitHasPlaces == Init => PInv
  <1> SUFFICES ASSUME Init PROVE PInv
    OBVIOUS
  <1>1. DOMAIN pending = {} /\ Underway = <<>> /\ DOMAIN Underway = {}
    BY DEF Init, Asleep, Underway
  <1>2. worker.now = 0 /\ clock = 0 /\ worker.batch = <<>> /\ receiver.at = "peek"
    BY DEF Init, Asleep, Idle
  <1> QED
    BY <1>1, <1>2 DEF PInv, Placed, Spaced, HandsAreEmpty

----------------------------------------------------------------------------
(* The theorems. *)

(* The inductive invariant of the scheduler holds in every reachable state. *)
THEOREM Invariance == Spec => []SInv
  BY InitIsSound, NextIsSound, PTL DEF Spec

(* The scheduler's state is well typed, and its queue never holds more than *)
(* its capacity (schedulerWorker, scheduledMessageQueueCapacity).           *)
THEOREM TypeCorrect == Spec => []TypeOK
  <1>1. SInv => TypeOK
    BY DEF SInv
  <1> QED
    BY <1>1, Invariance, PTL

(* Memory and table agree after every call, failure and restart             *)
(* (modifyMVar around each transaction, loadScheduledMessages).             *)
THEOREM MemoryAgrees == Spec => []MemoryIsStorage
  <1>1. SInv => MemoryIsStorage
    BY DEF SInv
  <1> QED
    BY <1>1, Invariance, PTL

(* A one-shot message is delivered at most once, and not when it was        *)
(* deleted (ReceiveScheduledMessage deletes the row before it hands over).  *)
THEOREM AtMostOnce == Spec => []OneShotsAreSettledOnce
  <1>1. SInv => OneShotsAreSettledOnce
    <2> SUFFICES ASSUME SInv, NEW i \in DOMAIN asked, asked[i] = 0
                 PROVE  delivered[i] + (IF i \in deleted THEN 1 ELSE 0) <= 1
      BY DEF OneShotsAreSettledOnce
    <2>1. /\ delivered[i] = 0 \/ (delivered[i] = 1 /\ i \notin deleted)
      BY DEF SInv, SettlementIsFinal, Settled
    <2> QED
      BY <2>1
  <1> QED
    BY <1>1, Invariance, PTL

(* No wake-up of the worker is lost (schedulerWorker drains the MVar before *)
(* it reads the clock, callers fill it after they committed).               *)
THEOREM WakeupsArrive == Spec => []NoWakeupIsLost
  <1>1. SInv => NoWakeupIsLost
    BY DEF SInv
  <1> QED
    BY <1>1, Invariance, PTL

(* A deleted schedule is not accepted for delivery, however long ago it was *)
(* popped or peeked (ReceiveScheduledMessage looks it up again).            *)
THEOREM DeletionIsRespected == Spec => DeletedIsNotAccepted
  <1>1. SInv /\ [Next]_vars
          => [(receiver.at = "acknowledge" /\ receiver'.at = "take" /\ receiver'.active)
               => Head(queue).id \notin deleted]_vars
    <2> SUFFICES ASSUME SInv, Next, receiver.at = "acknowledge",
                        receiver'.at = "take", receiver'.active
                 PROVE  Head(queue).id \notin deleted
      OBVIOUS
    <2>1. CASE Acknowledge
      <3>1. Head(queue).id \in DOMAIN pending
        BY <2>1 DEF Acknowledge, Accepted, Active
      <3> QED
        BY <3>1 DEF SInv, SettlementIsFinal
    <2>2. CASE ~Acknowledge
      <3>1. CASE Call \/ SignalWake \/ CancelCaller \/ PopFails \/ Tick
        <4>1. receiver' = receiver
          BY <3>1 DEF Call, ScheduleMessage, AddSchedule, DeleteScheduledMessage,
             SignalWake, CancelCaller, PopFails, Tick
        <4> QED
          BY <4>1
      <3>2. CASE Work
        <4>1. receiver' = receiver
          BY <3>2 DEF Work, Drain, Pop, Enqueue, NextDueAt, Sleep, Wake
        <4> QED
          BY <4>1
      <3>3. CASE Peek \/ Prepare \/ Take
        BY <3>3 DEF Peek, Prepare, Take
      <3>4. CASE ReceiveFails \/ Crash
        BY <3>4 DEF ReceiveFails, Crash, Idle, SInv, TypeOK
      <3> QED
        BY <2>2, <3>1, <3>2, <3>3, <3>4 DEF Next, Receive
    <2> QED
      BY <2>1, <2>2
  <1> QED
    BY <1>1, Invariance, PTL DEF Spec, DeletedIsNotAccepted

(* The places of the schedules, and their occurrences underway, fit together *)
(* in every reachable state.                                                 *)
THEOREM PlacesFit == Spec => [](SInv /\ PInv)
  <1>1. Init => SInv /\ PInv
    BY InitIsSound, InitHasPlaces
  <1>2. SInv /\ PInv /\ [Next]_vars => SInv' /\ PInv'
    BY NextIsSound, PlacesAreKept
  <1> QED
    BY <1>1, <1>2, PTL DEF Spec

(* A pending schedule is never forgotten, by the index (popDueMessages,      *)
(* schedulerStateFromStoredMessages), the batch or the queue.                *)
THEOREM NothingIsForgotten == Spec => []NoScheduleIsForgotten
  <1>1. ASSUME SInv, PInv PROVE NoScheduleIsForgotten
    <2> SUFFICES ASSUME NEW i \in DOMAIN pending, ~(pending[i].every > 0)
                 PROVE  Cardinality(Copies(i)) = IF DueOf(pending, i) \in dues THEN 0 ELSE 1
      BY <1>1 DEF NoScheduleIsForgotten, PInv, Placed
    <2>1. CASE DueOf(pending, i) \in dues
      <3>1. Copies(i) = {}
        BY <1>1, <2>1 DEF PInv, Placed, Held, Copies
      <3> QED
        BY <2>1, <3>1, FS_EmptySet
    <2>2. CASE DueOf(pending, i) \notin dues
      <3>1. PICK k \in DOMAIN Underway : \A l \in DOMAIN Underway : Underway[l].id = i <=> l = k
        BY <1>1, <2>2 DEF PInv, Placed, Single
      <3>2. Copies(i) = {k}
        BY <3>1 DEF Copies
      <3> QED
        BY <2>2, <3>2, FS_Singleton
    <2> QED
      BY <2>1, <2>2
  <1> QED
    BY <1>1, PlacesFit, PTL

(* No occurrence is popped before it is due, and those of a recurring        *)
(* schedule are an interval apart (popDueMessages, nextOccurrence), however  *)
(* late the worker, the receiver or the process is.                          *)
THEOREM OccurrencesKeepTheirDistance == Spec => []OccurrencesAreTimely
  <1>1. ASSUME SInv, PInv PROVE OccurrencesAreTimely
    <2>1. \A i : \A k \in Copies(i) : k \in DOMAIN Underway /\ Underway[k].id = i
      BY DEF Copies
    <2> QED
      BY <1>1, <2>1 DEF PInv, Spaced, OccurrencesAreTimely
  <1> QED
    BY <1>1, PlacesFit, PTL

-----------------------------------------------------------------------------
(* The threads page.  What is proved is about a page, p, that the handlers *)
(* turn into another, q.                                                   *)
CONSTANTS Thread, Run, Followed, MaxCall, MaxTrouble
VARIABLES run, troubles
T == INSTANCE ThreadsPage

PageFields == {"conn", "route", "hidden", "timer", "threads", "listing", "running", "visible", "detail", "node", "stats",
               "loading", "failed", "monitored", "held", "audited", "streaming", "finalizing", "halting", "calls"}
CallFields == {"what", "to", "id", "got", "list", "opens", "monitored", "same", "poll", "latest"}
Asked      == {"list", "active", "thread", "stats", "resolve", "final", "subscribe", "audit", "media", "halt"}

(* The fields that a handler changes at most. *)
Alters(p, q, fields) ==
    DOMAIN q = PageFields /\ \A f \in PageFields : f \notin fields => q[f] = p[f]

(* A call whose answer brings something into the drawer. *)
Brings(c) == c.what \in {"thread", "stats", "resolve"} \/ c.opens # None
Coming(p) == {c \in p.calls : Brings(c)}

(* A call fits the page that made it: the thread that is awaited, or its   *)
(* statistics, are for the drawer as it is, and with them the run that is  *)
(* to be followed.                                                         *)
CallShaped(c) ==
    /\ DOMAIN c = CallFields /\ c.what \in Asked /\ c.poll \in BOOLEAN
    /\ c.what = "active" => c.list \subseteq Run
    /\ c.poll => c.what \in {"active", "final", "audit", "media"}
    /\ c.opens # None => c.what \in {"thread", "stats", "active", "final", "audit", "media"}
CallFits(p, c) ==
    /\ c.what \in {"thread", "stats"} =>
         p.visible /\ p.monitored = None /\ (c.opens # None => c.opens \notin Starting /\ ThreadOf[c.opens] = c.to)
    /\ c.what = "thread" => p.detail = None /\ p.stats = None
    /\ c.what = "stats" => p.detail = c.to

PageShaped(p) ==
    /\ DOMAIN p = PageFields /\ p.conn \in {"authenticated", "reconnecting", "offline"} /\ p.running \subseteq Run
    /\ p.visible \in BOOLEAN /\ p.node \in BOOLEAN /\ p.held \in BOOLEAN
    /\ p.hidden \in BOOLEAN /\ p.timer \in BOOLEAN /\ p.listing \in BOOLEAN
    /\ \A c \in p.calls : CallShaped(c)

(* One thing at most is on its way to the drawer, and none while the token *)
(* of the run that is followed is the latest.                              *)
OneThing(p) ==
    /\ \A c, d \in p.calls : Brings(c) /\ Brings(d) => c = d
    /\ p.held => \A c \in p.calls : ~Brings(c)
DrawerAgrees(p) ==
    /\ p.audited \subseteq {p.monitored}
    /\ p.monitored # None =>
         ~p.node /\ p.visible /\ (p.detail = None \/ p.detail = T!ParentThread(p.monitored))
    /\ p.detail # None => p.visible
    /\ p.detail = None \/ p.stats = None \/ p.stats = p.detail
Fits(p) == PageShaped(p) /\ OneThing(p) /\ (\A c \in p.calls : CallFits(p, c)) /\ DrawerAgrees(p)

(* What the controls wait for is on its way, and so is the next poll. *)
ListWaits(p)  == p.listing /\ p.conn # "reconnecting" => \E c \in p.calls : c.what = "list"
OthersWait(p) ==
    /\ p.halting # None => \E c \in p.calls : c.what = "halt"
    /\ p.finalizing # None => \E c \in p.calls : c.what = "final" /\ c.to = p.finalizing
Waiting(p) == ListWaits(p) /\ OthersWait(p)
Polls(p)   == T!Live(p) /\ ~p.hidden => p.timer \/ \E c \in p.calls : c.poll

(* Nothing that is waited for is forgotten. *)
Keeps(p, q) ==
    /\ Alters(p, q, PageFields \ {"conn", "hidden", "timer", "listing", "halting", "finalizing"})
    /\ \A c \in p.calls : c.what \in {"list", "halt", "final"} \/ c.poll =>
         \E d \in q.calls : d.what = c.what /\ d.to = c.to /\ d.poll = c.poll

Orderly(p) == Fits(p) /\ Waiting(p) /\ Polls(p)
ThreadsInv == Orderly(page)

-----------------------------------------------------------------------------
(* Nothing that waits is disappointed by a handler that forgets nothing.   *)
LEMMA KeepsWaiting ==
    ASSUME NEW p, NEW q, Keeps(p, q)
    PROVE  /\ Waiting(p) => Waiting(q)
           /\ OthersWait(p) => OthersWait(q)
           /\ Polls(p) => Polls(q)
           /\ (\E c \in p.calls : c.poll = TRUE) => \E c \in q.calls : c.poll = TRUE
  <1>1. /\ q.conn = p.conn /\ q.hidden = p.hidden /\ q.timer = p.timer
        /\ q.listing = p.listing /\ q.halting = p.halting /\ q.finalizing = p.finalizing
    BY DEF Keeps, Alters, PageFields
  <1>2. \A c \in p.calls : c.what \in {"list", "halt", "final"} \/ c.poll =>
          \E d \in q.calls : d.what = c.what /\ d.to = c.to /\ d.poll = c.poll
    BY DEF Keeps
  <1>3. Polls(p) => Polls(q)
    BY <1>1, <1>2 DEF Polls, T!Live
  <1>4. (ListWaits(p) => ListWaits(q)) /\ (OthersWait(p) => OthersWait(q))
    BY <1>1, <1>2 DEF ListWaits, OthersWait
  <1> QED
    BY <1>2, <1>3, <1>4 DEF Waiting

LEMMA KeepsOn ==
    ASSUME NEW p, NEW q, NEW s, Keeps(p, q), Keeps(q, s)
    PROVE  Keeps(p, s)
  <1>1. Alters(p, s, PageFields \ {"conn", "hidden", "timer", "listing", "halting", "finalizing"})
    BY DEF Keeps, Alters
  <1>2. ASSUME NEW c \in p.calls, c.what \in {"list", "halt", "final"} \/ c.poll
        PROVE  \E e \in s.calls : e.what = c.what /\ e.to = c.to /\ e.poll = c.poll
    <2>1. PICK d \in q.calls : d.what = c.what /\ d.to = c.to /\ d.poll = c.poll
      BY <1>2 DEF Keeps
    <2> QED
      BY <1>2, <2>1 DEF Keeps
  <1> QED
    BY <1>1, <1>2 DEF Keeps

(* A call is added to those under way. *)
Adds(p, q, c) ==
    /\ Alters(p, q, {"calls"})
    /\ \E d : /\ q.calls = p.calls \cup {d} /\ DOMAIN d = CallFields
              /\ \A f \in CallFields \ {"id", "got"} : d[f] = c[f]

LEMMA CallDoes ==
    ASSUME NEW p, DOMAIN p = PageFields, NEW c, DOMAIN c = CallFields
    PROVE  Adds(p, T!Call(p, c), c)
  <1> DEFINE id == T!FreeId(p, c)
             got == IF T!Live(p) THEN "none" ELSE "rejected"
             e == [c EXCEPT !.id = id, !.got = got]
  <1>1. T!Call(p, c) = [p EXCEPT !.calls = @ \cup {e}]
    BY DEF T!Call
  <1> HIDE DEF id, got
  <1>2. DOMAIN e = CallFields /\ \A f \in CallFields \ {"id", "got"} : e[f] = c[f]
    BY DEF CallFields
  <1> HIDE DEF e
  <1>3. Alters(p, T!Call(p, c), {"calls"}) /\ T!Call(p, c).calls = p.calls \cup {e}
    BY <1>1 DEF Alters, PageFields
  <1> QED
    BY <1>2, <1>3 DEF Adds

(* It may be if it fits, and if it does not bring a second thing.          *)
LEMMA AddsFit ==
    ASSUME NEW p, Fits(p), NEW q, NEW c, Adds(p, q, c), CallShaped(c), CallFits(p, c),
           Brings(c) => Coming(p) = {} /\ ~p.held
    PROVE  Fits(q) /\ Keeps(p, q) /\ (~Brings(c) => Coming(q) = Coming(p))
  <1>1. PICK d : /\ q.calls = p.calls \cup {d} /\ DOMAIN d = CallFields
                 /\ \A f \in CallFields \ {"id", "got"} : d[f] = c[f]
    BY DEF Adds
  <1>2. /\ d.what = c.what /\ d.to = c.to /\ d.list = c.list /\ d.opens = c.opens /\ d.poll = c.poll
    BY <1>1 DEF CallFields
  <1>3. Alters(p, q, {"calls"})
    BY DEF Adds
  <1>4. \A f \in PageFields \ {"calls"} : q[f] = p[f]
    BY <1>3 DEF Alters
  <1>5. CallShaped(d) /\ (Brings(d) <=> Brings(c))
    BY <1>1, <1>2 DEF CallShaped, Brings
  <1>6. PageShaped(q)
    BY <1>1, <1>3, <1>5 DEF Fits, PageShaped, Alters, PageFields
  <1>7. OneThing(q)
    BY <1>1, <1>4, <1>5 DEF Fits, OneThing, Coming, PageFields
  <1>8. \A x \in q.calls : CallFits(q, x)
    BY <1>1, <1>2, <1>4 DEF Fits, CallFits, PageFields
  <1>9. DrawerAgrees(q)
    BY <1>4 DEF Fits, DrawerAgrees, PageFields
  <1>10. Keeps(p, q)
    BY <1>1, <1>3 DEF Keeps, Alters, PageFields
  <1> QED
    BY <1>1, <1>5, <1>6, <1>7, <1>8, <1>9, <1>10 DEF Fits, Coming

(* Calls are forgotten, or their notes are altered.                        *)
Maps(p, q, S, f) ==
    /\ Alters(p, q, {"calls", "held", "audited", "streaming"})
    /\ q.held \in {p.held, FALSE} /\ q.audited \subseteq p.audited
    /\ S \subseteq p.calls
    /\ \A d \in q.calls : \E c \in S : d = f[c]
    /\ \A c \in S : /\ f[c] \in q.calls /\ CallShaped(f[c])
                    /\ f[c].what = c.what /\ f[c].to = c.to /\ f[c].poll = c.poll
                    /\ f[c].opens \in {c.opens, None}
Lasting(p, S) == \A c \in p.calls : c.what \in {"list", "halt", "final"} \/ c.poll => c \in S

LEMMA MappedFit ==
    ASSUME NEW p, Fits(p), NEW q, NEW S, NEW f, Maps(p, q, S, f)
    PROVE  /\ Fits(q)
           /\ Coming(p) = {} => Coming(q) = {}
           /\ Lasting(p, S) => Keeps(p, q)
  <1>0. /\ Alters(p, q, {"calls", "held", "audited", "streaming"})
        /\ q.held \in {p.held, FALSE} /\ q.audited \subseteq p.audited
        /\ S \subseteq p.calls
        /\ \A d \in q.calls : \E c \in S : d = f[c]
        /\ \A c \in S : /\ f[c] \in q.calls /\ CallShaped(f[c])
                        /\ f[c].what = c.what /\ f[c].to = c.to /\ f[c].poll = c.poll
                        /\ f[c].opens \in {c.opens, None}
    BY DEF Maps
  <1>1. \A k \in PageFields \ {"calls", "held", "audited", "streaming"} : q[k] = p[k]
    BY <1>0 DEF Alters
  <1>2. \A c \in S : Brings(f[c]) => Brings(c)
    BY <1>0 DEF Brings
  <1>3. PageShaped(q)
    <2>1. \A d \in q.calls : CallShaped(d)
      BY <1>0
    <2>2. q.held \in BOOLEAN
      BY <1>0 DEF Fits, PageShaped
    <2> QED
      BY <1>0, <1>1, <2>1, <2>2 DEF Fits, PageShaped, Alters, PageFields
  <1>4. ASSUME NEW d \in q.calls, NEW e \in q.calls, Brings(d), Brings(e)
        PROVE  d = e
    <2>1. PICK x \in S : d = f[x]
      BY <1>0
    <2>2. PICK y \in S : e = f[y]
      BY <1>0
    <2>3. x = y
      BY <1>0, <1>2, <1>4, <2>1, <2>2 DEF Fits, OneThing
    <2> QED
      BY <2>1, <2>2, <2>3
  <1>5. (\A c \in p.calls : ~Brings(c)) => \A d \in q.calls : ~Brings(d)
    BY <1>0, <1>2
  <1>6. OneThing(q)
    BY <1>0, <1>4, <1>5 DEF Fits, OneThing, PageShaped
  <1>7. \A d \in q.calls : CallFits(q, d)
    BY <1>0, <1>1 DEF Fits, CallFits, PageFields
  <1>8. DrawerAgrees(q)
    BY <1>0, <1>1 DEF Fits, DrawerAgrees, PageFields
  <1>9. Coming(p) = {} => Coming(q) = {}
    BY <1>5 DEF Coming
  <1>10. Lasting(p, S) => Keeps(p, q)
    BY <1>0, <1>1 DEF Lasting, Keeps, Alters, PageFields
  <1> QED
    BY <1>3, <1>6, <1>7, <1>8, <1>9, <1>10 DEF Fits

(* The kinds of calls whose answers neither control nor poll waits for.    *)
Passing == {"subscribe", "thread", "stats", "resolve"}

LEMMA ForgetDoes ==
    ASSUME NEW p, Fits(p), NEW whats
    PROVE  LET q == T!Forget(p, whats)
           IN /\ Fits(q) /\ Alters(p, q, {"calls"}) /\ q.calls = {c \in p.calls : c.what \notin whats}
              /\ Coming(p) = {} => Coming(q) = {}
              /\ whats \subseteq Passing => Keeps(p, q)
  <1> DEFINE q == T!Forget(p, whats)
             S == {c \in p.calls : c.what \notin whats}
             f == [c \in S |-> c]
  <1>1. q = [p EXCEPT !.calls = S]
    BY DEF T!Forget
  <1> HIDE DEF q
  <1>2. Alters(p, q, {"calls"}) /\ q.calls = S
    BY <1>1 DEF Fits, PageShaped, Alters, PageFields
  <1>3. (\A d \in q.calls : \E c \in S : d = f[c]) /\ \A c \in S : f[c] \in q.calls /\ f[c] = c
    BY <1>2
  <1> HIDE DEF f
  <1>4. q.held = p.held /\ q.audited = p.audited /\ Alters(p, q, {"calls", "held", "audited", "streaming"})
    BY <1>2 DEF Alters, PageFields
  <1>5. Maps(p, q, S, f)
    BY <1>3, <1>4 DEF Maps, Fits, PageShaped
  <1>6. Fits(q) /\ (Coming(p) = {} => Coming(q) = {}) /\ (Lasting(p, S) => Keeps(p, q))
    BY <1>5, MappedFit
  <1>7. whats \subseteq Passing => Lasting(p, S)
    BY DEF Passing, Lasting, Fits, PageShaped, CallShaped
  <1> QED
    BY <1>2, <1>6, <1>7 DEF q

LEMMA ReselectDoes ==
    ASSUME NEW p, Fits(p)
    PROVE  LET q == T!Reselect(p)
           IN /\ Fits(q) /\ Alters(p, q, {"calls", "audited", "streaming"}) /\ q.audited = {}
              /\ Coming(p) = {} => Coming(q) = {}
              /\ Keeps(p, q)
  <1> DEFINE q == T!Reselect(p)
             f == [c \in p.calls |-> [c EXCEPT !.same = FALSE]]
             S == {f[c] : c \in p.calls}
  <1>1. q = [p EXCEPT !.calls = S, !.audited = {}, !.streaming = FALSE]
    BY DEF T!Reselect
  <1>2. \A c \in p.calls : /\ CallShaped(f[c]) /\ f[c].what = c.what /\ f[c].to = c.to /\ f[c].poll = c.poll
                           /\ f[c].opens = c.opens
    BY DEF Fits, PageShaped, CallShaped, CallFields
  <1> HIDE DEF q, f
  <1>3. Alters(p, q, {"calls", "audited", "streaming"}) /\ q.audited = {} /\ q.calls = S
    BY <1>1 DEF Fits, PageShaped, Alters, PageFields
  <1>4. q.held = p.held /\ Alters(p, q, {"calls", "held", "audited", "streaming"})
    BY <1>3 DEF Alters, PageFields
  <1>5. Maps(p, q, p.calls, f) /\ Lasting(p, p.calls)
    BY <1>2, <1>3, <1>4 DEF Maps, Lasting
  <1>6. Fits(q) /\ (Coming(p) = {} => Coming(q) = {}) /\ Keeps(p, q)
    BY <1>5, MappedFit
  <1> QED
    BY <1>3, <1>6 DEF q

(* The drawer is free after it has begun anew. *)
LEMMA BeginDoes ==
    ASSUME NEW p, Fits(p)
    PROVE  LET q == T!Begin(p)
           IN /\ Fits(q) /\ Alters(p, q, {"calls", "held"}) /\ q.held = FALSE /\ Coming(q) = {} /\ Keeps(p, q)
  <1> DEFINE q == T!Begin(p)
             S == {d \in p.calls : d.what \notin {"thread", "stats", "resolve"}}
             f == [c \in S |-> [c EXCEPT !.opens = None]]
             C == {f[c] : c \in S}
  <1>1. q = [p EXCEPT !.held = FALSE, !.calls = C]
    BY DEF T!Begin
  <1>2. \A c \in S : /\ CallShaped(f[c]) /\ f[c].what = c.what /\ f[c].to = c.to /\ f[c].poll = c.poll
                     /\ f[c].opens = None
    BY DEF Fits, PageShaped, CallShaped, CallFields
  <1>3. \A c \in S : ~Brings(f[c])
    BY <1>2 DEF Brings
  <1>4. Lasting(p, S)
    BY DEF Lasting, Fits, PageShaped, CallShaped
  <1> HIDE DEF q, f
  <1>5. Alters(p, q, {"calls", "held"}) /\ q.held = FALSE /\ q.calls = C
    BY <1>1 DEF Fits, PageShaped, Alters, PageFields
  <1>6. q.audited = p.audited /\ Alters(p, q, {"calls", "held", "audited", "streaming"}) /\ S \subseteq p.calls
    BY <1>5 DEF Alters, PageFields
  <1>7. Coming(q) = {}
    BY <1>3, <1>5 DEF Coming
  <1>8. Maps(p, q, S, f)
    BY <1>2, <1>5, <1>6 DEF Maps
  <1> HIDE DEF S
  <1>9. Fits(q) /\ Keeps(p, q)
    BY <1>4, <1>8, MappedFit
  <1> QED
    BY <1>5, <1>7, <1>9 DEF q

(* Earlier calls of a kind are stale, and forgotten unless something awaits them. *)
LEMMA SupersedeDoes ==
    ASSUME NEW p, Fits(p), NEW what, what \notin {"list", "halt", "final"}
    PROVE  LET q == T!Supersede(p, what)
           IN Fits(q) /\ Alters(p, q, {"calls"}) /\ (Coming(p) = {} => Coming(q) = {}) /\ Keeps(p, q)
  <1> DEFINE q == T!Supersede(p, what)
             S == {d \in p.calls : d.what = what => T!Awaited(d)}
             f == [c \in S |-> IF c.what = what THEN [c EXCEPT !.latest = FALSE] ELSE c]
             C == {f[c] : c \in S}
  <1>1. q = [p EXCEPT !.calls = C]
    BY DEF T!Supersede
  <1>2. \A c \in S : /\ CallShaped(f[c]) /\ f[c].what = c.what /\ f[c].to = c.to /\ f[c].poll = c.poll
                     /\ f[c].opens = c.opens
    BY DEF Fits, PageShaped, CallShaped, CallFields
  <1>3. Lasting(p, S)
    BY DEF Lasting, Fits, PageShaped, CallShaped, T!Awaited, T!Carries
  <1> HIDE DEF q, f
  <1>4. Alters(p, q, {"calls"}) /\ q.calls = C
    BY <1>1 DEF Fits, PageShaped, Alters, PageFields
  <1>5. q.held = p.held /\ q.audited = p.audited /\ Alters(p, q, {"calls", "held", "audited", "streaming"}) /\ S \subseteq p.calls
    BY <1>4 DEF Alters, PageFields
  <1>6. Maps(p, q, S, f)
    BY <1>2, <1>4, <1>5 DEF Maps
  <1> HIDE DEF S
  <1>7. Fits(q) /\ Keeps(p, q) /\ (Coming(p) = {} => Coming(q) = {})
    BY <1>3, <1>6, MappedFit
  <1> QED
    BY <1>4, <1>7 DEF q

(* The run is followed no longer.                                          *)
LEMMA ClearDoes ==
    ASSUME NEW p, Fits(p)
    PROVE  LET q == T!Clear(p)
           IN /\ Fits(q) /\ Alters(p, q, {"calls", "held", "audited", "streaming", "monitored"})
              /\ q.held = FALSE /\ q.monitored = None /\ q.audited = {}
              /\ Coming(p) = {} => Coming(q) = {}
              /\ Keeps(p, q)
  <1> DEFINE q == T!Clear(p)
             u == T!Forget(p, {"subscribe"})
             t == T!Reselect(u)
             v == T!Supersede(t, "audit")
  <1>1. Fits(u) /\ Alters(p, u, {"calls"}) /\ (Coming(p) = {} => Coming(u) = {}) /\ Keeps(p, u)
    BY ForgetDoes DEF Passing
  <1>9. Fits(t) /\ Alters(u, t, {"calls", "audited", "streaming"}) /\ t.audited = {} /\ (Coming(u) = {} => Coming(t) = {}) /\ Keeps(u, t)
    BY <1>1, ReselectDoes
  <1>10. Fits(v) /\ Alters(t, v, {"calls"}) /\ (Coming(t) = {} => Coming(v) = {}) /\ Keeps(t, v)
    BY <1>9, SupersedeDoes
  <1>3. q = [v EXCEPT !.monitored = None, !.held = FALSE]
    BY DEF T!Clear
  <1> HIDE DEF q, u, t, v
  <1>2. Fits(v) /\ Alters(u, v, {"calls", "audited", "streaming"}) /\ v.audited = {} /\ (Coming(u) = {} => Coming(v) = {}) /\ Keeps(u, v)
    BY <1>9, <1>10, KeepsOn DEF Alters, PageFields
  <1>4. Alters(v, q, {"monitored", "held"}) /\ q.monitored = None /\ q.held = FALSE
    BY <1>2, <1>3 DEF Fits, PageShaped, Alters, PageFields
  <1>5. Alters(p, q, {"calls", "held", "audited", "streaming", "monitored"}) /\ q.audited = {}
    BY <1>1, <1>2, <1>4 DEF Alters, PageFields
  <1>6. q.calls = v.calls /\ q.audited = v.audited
    BY <1>4 DEF Alters, PageFields
  <1>7. Fits(q)
    <2>1. \A k \in PageFields \ {"monitored", "held"} : q[k] = v[k]
      BY <1>4 DEF Alters
    <2>2. PageShaped(q) /\ OneThing(q)
      BY <1>2, <1>4, <1>6, <2>1 DEF Fits, PageShaped, OneThing, Alters, PageFields
    <2>3. \A c \in q.calls : CallFits(q, c)
      BY <1>2, <1>4, <1>6, <2>1 DEF Fits, CallFits, PageFields
    <2>4. DrawerAgrees(q)
      BY <1>2, <1>4, <1>6, <2>1 DEF Fits, DrawerAgrees, PageFields
    <2> QED
      BY <2>2, <2>3, <2>4 DEF Fits
  <1>8. Keeps(v, q)
    BY <1>4, <1>6 DEF Keeps, Alters
  <1> QED
    BY <1>1, <1>2, <1>4, <1>5, <1>6, <1>7, <1>8, KeepsOn DEF q, Coming

-----------------------------------------------------------------------------
(* The drawer.                                                             *)
IsRequest(c, what, to) ==
    /\ DOMAIN c = CallFields /\ c.what = what /\ c.to = to
    /\ c.list = {} /\ c.opens = None /\ c.poll = FALSE

LEMMA RequestDoes ==
    ASSUME NEW what, NEW to
    PROVE  IsRequest(T!Request(what, to), what, to)
  BY DEF IsRequest, T!Request, CallFields

(* A request for nothing that the drawer shows.                            *)
LEMMA AskDoes ==
    ASSUME NEW p, Fits(p), NEW what \in Asked \ {"thread", "stats", "resolve"}, NEW to
    PROVE  LET q == T!Call(p, T!Request(what, to))
           IN /\ Fits(q) /\ Keeps(p, q) /\ Alters(p, q, {"calls"}) /\ Coming(q) = Coming(p)
              /\ \E c \in q.calls : c.what = what /\ c.to = to
  <1> DEFINE c == T!Request(what, to)
             q == T!Call(p, c)
  <1>0. IsRequest(c, what, to)
    BY RequestDoes
  <1> HIDE DEF c
  <1>1. /\ DOMAIN c = CallFields /\ c.what = what /\ c.to = to /\ c.opens = None /\ CallShaped(c)
    BY <1>0 DEF IsRequest, CallShaped
  <1>2. Adds(p, q, c)
    BY <1>1, CallDoes DEF Fits, PageShaped
  <1> HIDE DEF q
  <1>3. CallFits(p, c) /\ ~Brings(c)
    BY <1>1 DEF CallFits, Brings
  <1>4. Fits(q) /\ Keeps(p, q) /\ Coming(q) = Coming(p)
    BY <1>1, <1>2, <1>3, AddsFit
  <1>5. Alters(p, q, {"calls"}) /\ \E d \in q.calls : d.what = what /\ d.to = to
    BY <1>1, <1>2 DEF Adds, CallFields
  <1> QED
    BY <1>4, <1>5 DEF c, q

LEMMA SubscribeDoes ==
    ASSUME NEW p, Fits(p)
    PROVE  LET q == T!Subscribe(p)
           IN Fits(q) /\ Keeps(p, q) /\ Alters(p, q, {"calls"}) /\ Coming(q) = Coming(p)
  <1>1. CASE T!Live(p)
    BY <1>1, AskDoes DEF T!Subscribe, Asked
  <1>2. CASE ~T!Live(p)
    BY <1>2 DEF T!Subscribe, Keeps, Alters, Fits, PageShaped
  <1> QED
    BY <1>1, <1>2

(* A run is followed when nothing else is to be shown and the drawer shows *)
(* its thread, or none.                                                    *)
LEMMA SelectRunDoes ==
    ASSUME NEW p, Fits(p), Coming(p) = {}, NEW r, p.visible, p.detail = None \/ p.detail = T!ParentThread(r)
    PROVE  Fits(T!Select(p, r)) /\ Keeps(p, T!Select(p, r))
  <1> DEFINE u == T!Forget(p, {"subscribe"})
             v == T!Reselect(u)
             w == [v EXCEPT !.monitored = r, !.held = TRUE, !.node = FALSE]
  <1>1. Fits(u) /\ Alters(p, u, {"calls"}) /\ Coming(u) = {} /\ Keeps(p, u)
    BY ForgetDoes DEF Passing
  <1>2. T!Select(p, r) = T!Subscribe(w)
    BY DEF T!Select
  <1> HIDE DEF u
  <1>3. Fits(v) /\ Alters(u, v, {"calls", "audited", "streaming"}) /\ v.audited = {} /\ Coming(v) = {} /\ Keeps(u, v)
    BY <1>1, ReselectDoes
  <1> HIDE DEF v
  <1>4. /\ Alters(v, w, {"monitored", "held", "node"}) /\ w.monitored = r /\ w.held = TRUE /\ w.node = FALSE
        /\ w.calls = v.calls /\ w.audited = v.audited
    BY <1>3 DEF Fits, PageShaped, Alters, PageFields
  <1> HIDE DEF w
  <1>5. v.visible = p.visible /\ v.detail = p.detail
    BY <1>1, <1>3 DEF Alters, PageFields
  <1>6. \A k \in PageFields \ {"monitored", "held", "node"} : w[k] = v[k]
    BY <1>4 DEF Alters
  <1>7. \A c \in w.calls : ~Brings(c)
    BY <1>3, <1>4 DEF Coming
  <1>8. PageShaped(w) /\ OneThing(w)
    BY <1>3, <1>4, <1>6, <1>7 DEF Fits, PageShaped, OneThing, Alters, PageFields
  <1>9. \A c \in w.calls : CallFits(w, c)
    BY <1>7 DEF CallFits, Brings
  <1>10. DrawerAgrees(w)
    BY <1>3, <1>4, <1>5, <1>6 DEF Fits, DrawerAgrees, PageFields
  <1>11. Keeps(v, w)
    BY <1>4 DEF Keeps, Alters
  <1>12. Fits(w) /\ Keeps(p, w)
    BY <1>1, <1>3, <1>8, <1>9, <1>10, <1>11, KeepsOn DEF Fits
  <1> QED
    BY <1>2, <1>12, SubscribeDoes, KeepsOn

(* The drawer opens on a thread, and perhaps on a run of it afterwards.    *)
LEMMA InspectThreadDoes ==
    ASSUME NEW p, Fits(p), Coming(p) = {}, NEW t, NEW r, r # None => r \notin Starting /\ ThreadOf[r] = t
    PROVE  Fits(T!InspectThread(p, t, r)) /\ Keeps(p, T!InspectThread(p, t, r))
  <1> DEFINE u == T!Clear(p)
             v == [u EXCEPT !.visible = TRUE, !.loading = TRUE, !.failed = FALSE, !.detail = None, !.stats = None, !.node = FALSE]
             b == T!Request("thread", t)
             c == [b EXCEPT !.opens = r]
             q == T!InspectThread(p, t, r)
  <1>1. q = T!Call(v, c)
    BY DEF T!InspectThread
  <1>2. Fits(u) /\ Keeps(p, u) /\ u.monitored = None /\ u.held = FALSE /\ Coming(u) = {}
    BY ClearDoes
  <1>3. DOMAIN b = CallFields /\ b.what = "thread" /\ b.to = t /\ b.poll = FALSE
    <2>1. IsRequest(b, "thread", t)
      BY RequestDoes
    <2> QED
      BY <2>1 DEF IsRequest
  <1> HIDE DEF u, b, q
  <1>4. /\ Alters(u, v, {"visible", "loading", "failed", "detail", "stats", "node"})
        /\ v.visible = TRUE /\ v.detail = None /\ v.stats = None /\ v.node = FALSE
        /\ v.calls = u.calls /\ v.held = u.held /\ v.monitored = u.monitored /\ v.audited = u.audited
    BY <1>2 DEF Fits, PageShaped, Alters, PageFields
  <1>5. DOMAIN c = CallFields /\ c.what = "thread" /\ c.to = t /\ c.poll = FALSE /\ c.opens = r
    BY <1>3 DEF CallFields
  <1> HIDE DEF v, c
  <1>6. \A k \in PageFields \ {"visible", "loading", "failed", "detail", "stats", "node"} : v[k] = u[k]
    BY <1>4 DEF Alters
  <1>7. PageShaped(v) /\ OneThing(v)
    BY <1>2, <1>4, <1>6 DEF Fits, PageShaped, OneThing, Alters, PageFields
  <1>8. Coming(v) = {} /\ \A d \in v.calls : CallFits(v, d)
    BY <1>2, <1>4 DEF CallFits, Coming, Brings
  <1>9. DrawerAgrees(v)
    BY <1>2, <1>4 DEF Fits, DrawerAgrees
  <1>10. Fits(v) /\ Keeps(u, v)
    BY <1>4, <1>7, <1>8, <1>9 DEF Fits, Keeps, Alters
  <1>11. CallShaped(c) /\ CallFits(v, c)
    BY <1>2, <1>4, <1>5 DEF CallShaped, CallFits, Asked
  <1>12. Adds(v, q, c)
    BY <1>1, <1>5, <1>10, CallDoes DEF Fits, PageShaped
  <1>13. Fits(q) /\ Keeps(v, q)
    BY <1>2, <1>4, <1>8, <1>10, <1>11, <1>12, AddsFit
  <1> QED
    BY <1>2, <1>10, <1>13, KeepsOn DEF q

LEMMA MonitorDoes ==
    ASSUME T!Parameters, NEW p, Fits(p), Coming(p) = {}, NEW r \in Run
    PROVE  Fits(T!Monitor(p, r)) /\ Keeps(p, T!Monitor(p, r))
  <1>1. CASE r \in Starting
    <2> DEFINE u == T!Clear(p)
               v == [u EXCEPT !.detail = None, !.failed = FALSE, !.loading = FALSE, !.visible = TRUE]
    <2>1. T!Monitor(p, r) = T!Select(v, r)
      BY <1>1 DEF T!Monitor
    <2>2. Fits(u) /\ Keeps(p, u) /\ u.monitored = None /\ u.held = FALSE /\ Coming(u) = {}
      BY ClearDoes
    <2> HIDE DEF u
    <2>3. /\ Alters(u, v, {"detail", "failed", "loading", "visible"}) /\ v.detail = None /\ v.visible = TRUE
          /\ v.calls = u.calls /\ v.held = u.held /\ v.monitored = u.monitored /\ v.audited = u.audited
      BY <2>2 DEF Fits, PageShaped, Alters, PageFields
    <2> HIDE DEF v
    <2>4. \A k \in PageFields \ {"detail", "failed", "loading", "visible"} : v[k] = u[k]
      BY <2>3 DEF Alters
    <2>5. PageShaped(v) /\ OneThing(v)
      BY <2>2, <2>3, <2>4 DEF Fits, PageShaped, OneThing, Alters, PageFields
    <2>6. Coming(v) = {} /\ \A d \in v.calls : CallFits(v, d)
      BY <2>2, <2>3 DEF CallFits, Coming, Brings
    <2>7. DrawerAgrees(v)
      BY <2>2, <2>3 DEF Fits, DrawerAgrees
    <2>8. Fits(v) /\ Keeps(u, v)
      BY <2>3, <2>5, <2>6, <2>7 DEF Fits, Keeps, Alters
    <2>9. Fits(T!Select(v, r)) /\ Keeps(v, T!Select(v, r))
      BY <2>3, <2>6, <2>8, SelectRunDoes
    <2> QED
      BY <2>1, <2>2, <2>8, <2>9, KeepsOn
  <1>2. CASE r \notin Starting /\ p.detail # ThreadOf[r]
    <2>1. T!Monitor(p, r) = T!InspectThread(p, ThreadOf[r], r)
      BY <1>2 DEF T!Monitor
    <2> QED
      BY <1>2, <2>1, InspectThreadDoes
  <1>3. CASE r \notin Starting /\ p.detail = ThreadOf[r]
    <2>1. T!Monitor(p, r) = T!Select(p, r)
      BY <1>3 DEF T!Monitor
    <2>2. p.detail # None
      BY <1>3 DEF T!Parameters
    <2>3. p.visible /\ p.detail = T!ParentThread(r)
      BY <1>3, <2>2 DEF Fits, DrawerAgrees, T!ParentThread
    <2> QED
      BY <2>1, <2>3, SelectRunDoes
  <1> QED
    BY <1>1, <1>2, <1>3

LEMMA ThenDoes ==
    ASSUME NEW p, Fits(p), NEW r,
           r # None => Coming(p) = {} /\ p.visible /\ (p.detail = None \/ p.detail = T!ParentThread(r))
    PROVE  Fits(T!Then(p, r)) /\ Keeps(p, T!Then(p, r))
  <1>1. CASE r = None
    BY <1>1 DEF T!Then, Keeps, Alters, Fits, PageShaped
  <1>2. CASE r # None
    BY <1>2, SelectRunDoes DEF T!Then
  <1> QED
    BY <1>1, <1>2

(* An answer reaches the page that c was taken from. *)
Arrived(p, c) == Fits(p) /\ CallShaped(c) /\ CallFits(p, c) /\ (Brings(c) => Coming(p) = {} /\ p.held = FALSE)

LEMMA ThreadArrivesDoes ==
    ASSUME NEW p, NEW c, Arrived(p, c), c.what = "thread"
    PROVE  Fits(T!ThreadArrives(p, c)) /\ Keeps(p, T!ThreadArrives(p, c))
  <1> DEFINE u == [p EXCEPT !.loading = FALSE]
             v == [u EXCEPT !.failed = TRUE]
             w == [u EXCEPT !.detail = c.to, !.node = TRUE]
             b == T!Request("stats", c.to)
             e == [b EXCEPT !.opens = c.opens]
  <1>0. Fits(p) /\ Coming(p) = {} /\ p.held = FALSE
    BY DEF Arrived, Brings
  <1>1. /\ p.visible /\ p.monitored = None /\ p.detail = None /\ p.stats = None
        /\ c.opens # None => c.opens \notin Starting /\ ThreadOf[c.opens] = c.to
    BY DEF Arrived, CallFits
  <1>2. CASE T!Failed(c) \/ c.list = {}
    <2>1. T!ThreadArrives(p, c) = T!Then(v, c.opens)
      BY <1>2 DEF T!ThreadArrives
    <2>2. Alters(p, v, {"loading", "failed"})
      BY <1>0 DEF Fits, PageShaped, Alters, PageFields
    <2> HIDE DEF v
    <2>3. \A k \in PageFields \ {"loading", "failed"} : v[k] = p[k]
      BY <2>2 DEF Alters
    <2>4. Fits(v)
      BY <1>0, <2>2, <2>3 DEF Fits, PageShaped, OneThing, CallFits, DrawerAgrees, Alters, PageFields
    <2>5. Keeps(p, v) /\ Coming(v) = {} /\ v.visible /\ v.detail = None
      BY <1>0, <1>1, <2>2, <2>3 DEF Keeps, Alters, Coming, PageFields
    <2> QED
      BY <2>1, <2>4, <2>5, ThenDoes, KeepsOn
  <1>3. CASE ~(T!Failed(c) \/ c.list = {})
    <2> DEFINE q == T!ThreadArrives(p, c)
    <2>1. q = T!Call(w, e)
      BY <1>3 DEF T!ThreadArrives
    <2>2. IsRequest(b, "stats", c.to)
      BY RequestDoes
    <2> HIDE DEF b, q
    <2>3. DOMAIN e = CallFields /\ e.what = "stats" /\ e.to = c.to /\ e.poll = FALSE /\ e.opens = c.opens
      BY <2>2 DEF IsRequest, CallFields
    <2>4. Alters(p, w, {"loading", "detail", "node"}) /\ w.detail = c.to /\ w.node = TRUE
      BY <1>0 DEF Fits, PageShaped, Alters, PageFields
    <2> HIDE DEF w, e
    <2>5. \A k \in PageFields \ {"loading", "detail", "node"} : w[k] = p[k]
      BY <2>4 DEF Alters
    <2>6. w.calls = p.calls /\ w.held = p.held /\ w.visible = p.visible /\ w.monitored = p.monitored /\ w.stats = p.stats /\ w.audited = p.audited
      BY <2>5 DEF PageFields
    <2>7. PageShaped(w) /\ OneThing(w)
      BY <1>0, <2>4, <2>5 DEF Fits, PageShaped, OneThing, Alters, PageFields
    <2>8. Coming(w) = {} /\ \A d \in w.calls : CallFits(w, d)
      BY <1>0, <2>6 DEF CallFits, Coming, Brings
    <2>9. DrawerAgrees(w)
      BY <1>0, <1>1, <2>4, <2>6 DEF Fits, DrawerAgrees
    <2>10. Fits(w) /\ Keeps(p, w)
      BY <2>4, <2>6, <2>7, <2>8, <2>9 DEF Fits, Keeps, Alters
    <2>11. CallShaped(e) /\ CallFits(w, e)
      BY <1>1, <2>3, <2>4, <2>6 DEF CallShaped, CallFits, Asked
    <2>12. Adds(w, q, e)
      BY <2>1, <2>3, <2>10, CallDoes DEF Fits, PageShaped
    <2>13. Fits(q) /\ Keeps(w, q)
      BY <1>0, <2>6, <2>8, <2>10, <2>11, <2>12, AddsFit
    <2> QED
      BY <2>10, <2>13, KeepsOn DEF q
  <1> QED
    BY <1>2, <1>3

LEMMA StatsArrivesDoes ==
    ASSUME NEW p, NEW c, Arrived(p, c), c.what = "stats"
    PROVE  Fits(T!StatsArrives(p, c)) /\ Keeps(p, T!StatsArrives(p, c))
  <1> DEFINE v == IF T!Failed(c) THEN p ELSE [p EXCEPT !.stats = c.to]
  <1>0. Fits(p) /\ Coming(p) = {} /\ p.held = FALSE
    BY DEF Arrived, Brings
  <1>1. /\ p.visible /\ p.monitored = None /\ p.detail = c.to
        /\ c.opens # None => c.opens \notin Starting /\ ThreadOf[c.opens] = c.to
    BY DEF Arrived, CallFits
  <1>2. T!StatsArrives(p, c) = T!Then(v, c.opens)
    BY DEF T!StatsArrives
  <1>3. Alters(p, v, {"stats"}) /\ v.stats \in {p.stats, c.to}
    BY <1>0 DEF Fits, PageShaped, Alters, PageFields
  <1> HIDE DEF v
  <1>4. \A k \in PageFields \ {"stats"} : v[k] = p[k]
    BY <1>3 DEF Alters
  <1>5. /\ v.calls = p.calls /\ v.held = p.held /\ v.visible = p.visible /\ v.monitored = p.monitored
        /\ v.detail = p.detail /\ v.audited = p.audited
    BY <1>4 DEF PageFields
  <1>6. PageShaped(v) /\ OneThing(v)
    BY <1>0, <1>3, <1>4 DEF Fits, PageShaped, OneThing, Alters, PageFields
  <1>7. Coming(v) = {} /\ \A d \in v.calls : CallFits(v, d)
    BY <1>0, <1>5 DEF CallFits, Coming, Brings
  <1>8. DrawerAgrees(v)
    BY <1>0, <1>1, <1>3, <1>5 DEF Fits, DrawerAgrees
  <1>9. Fits(v) /\ Keeps(p, v)
    BY <1>3, <1>5, <1>6, <1>7, <1>8 DEF Fits, Keeps, Alters
  <1>10. c.opens # None => v.detail = T!ParentThread(c.opens)
    BY <1>1, <1>5 DEF T!ParentThread
  <1> QED
    BY <1>1, <1>2, <1>5, <1>7, <1>9, <1>10, ThenDoes, KeepsOn

(* What the route names is asked for, whatever was.                        *)
LEMMA InspectRunDoes ==
    ASSUME NEW p, Fits(p), NEW r
    PROVE  Fits(T!InspectRun(p, r)) /\ Keeps(p, T!InspectRun(p, r))
  <1> DEFINE u == T!Begin(p)
             c == T!Request("resolve", r)
             q == T!InspectRun(p, r)
  <1>1. q = T!Call(u, c)
    BY DEF T!InspectRun
  <1>2. Fits(u) /\ u.held = FALSE /\ Coming(u) = {} /\ Keeps(p, u)
    BY BeginDoes
  <1>3. IsRequest(c, "resolve", r)
    BY RequestDoes
  <1> HIDE DEF u, c, q
  <1>4. CallShaped(c) /\ CallFits(u, c)
    BY <1>3 DEF IsRequest, CallShaped, CallFits, Asked
  <1>5. Adds(u, q, c)
    BY <1>1, <1>2, <1>3, CallDoes DEF Fits, PageShaped, IsRequest
  <1>6. Fits(q) /\ Keeps(u, q)
    BY <1>2, <1>4, <1>5, AddsFit
  <1> QED
    BY <1>2, <1>6, KeepsOn DEF q

LEMMA SelectFromRouteDoes ==
    ASSUME NEW p, Fits(p)
    PROVE  Fits(T!SelectFromRoute(p)) /\ Keeps(p, T!SelectFromRoute(p))
  <1>1. CASE p.route[1] = "thread"
    <2> DEFINE u == T!Begin(p)
    <2>1. T!SelectFromRoute(p) = T!InspectThread(u, p.route[2], None)
      BY <1>1 DEF T!SelectFromRoute
    <2>2. Fits(u) /\ Coming(u) = {} /\ Keeps(p, u)
      BY BeginDoes
    <2> HIDE DEF u
    <2> QED
      BY <2>1, <2>2, InspectThreadDoes, KeepsOn
  <1>2. CASE p.route[1] = "run"
    <2>1. T!SelectFromRoute(p) = T!InspectRun(p, p.route[2])
      BY <1>2 DEF T!SelectFromRoute
    <2> QED
      BY <2>1, InspectRunDoes
  <1>3. CASE p.route[1] \notin {"thread", "run"}
    BY <1>3 DEF T!SelectFromRoute, Keeps, Alters, Fits, PageShaped
  <1> QED
    BY <1>1, <1>2, <1>3

LEMMA GoDoes ==
    ASSUME NEW p, Fits(p), NEW route
    PROVE  Fits(T!Go(p, route)) /\ Keeps(p, T!Go(p, route))
  <1>1. CASE p.route = route
    BY <1>1 DEF T!Go, Keeps, Alters, Fits, PageShaped
  <1>2. CASE p.route # route
    <2> DEFINE u == [p EXCEPT !.route = route]
    <2>1. T!Go(p, route) = T!SelectFromRoute(u)
      BY <1>2 DEF T!Go
    <2>2. Alters(p, u, {"route"})
      BY DEF Fits, PageShaped, Alters, PageFields
    <2> HIDE DEF u
    <2>3. \A k \in PageFields \ {"route"} : u[k] = p[k]
      BY <2>2 DEF Alters
    <2>4. Fits(u) /\ Keeps(p, u)
      BY <2>2, <2>3 DEF Fits, PageShaped, OneThing, CallFits, DrawerAgrees, Keeps, Alters, PageFields
    <2> QED
      BY <2>1, <2>4, SelectFromRouteDoes, KeepsOn
  <1> QED
    BY <1>1, <1>2

-----------------------------------------------------------------------------
(* The active runs, and what waits.                                        *)

(* A handler keeps the page in order and what waits waiting; if it is one  *)
(* that polls, the next poll is ahead.                                     *)
Moves(p, q, polls) ==
    /\ Fits(q)
    /\ (ListWaits(p) => ListWaits(q)) /\ (OthersWait(p) => OthersWait(q))
    /\ polls \/ Polls(p) => Polls(q)

LEMMA KeepsMoves ==
    ASSUME NEW p, NEW q, Fits(q), Keeps(p, q)
    PROVE  Moves(p, q, FALSE)
  <1>1. /\ q.conn = p.conn /\ q.hidden = p.hidden /\ q.timer = p.timer
        /\ q.listing = p.listing /\ q.halting = p.halting /\ q.finalizing = p.finalizing
    BY DEF Keeps, Alters, PageFields
  <1>2. ListWaits(p) => ListWaits(q)
    BY <1>1 DEF Keeps, ListWaits
  <1> QED
    BY <1>2, KeepsWaiting DEF Moves

LEMMA ScheduleDoes ==
    ASSUME NEW p, Fits(p)
    PROVE  Moves(p, T!Schedule(p), TRUE)
  <1> DEFINE q == T!Schedule(p)
             timer == ~p.hidden /\ T!Live(p)
  <1>1. q = [p EXCEPT !.timer = timer]
    BY DEF T!Schedule
  <1>2. p.hidden \in BOOLEAN /\ DOMAIN p = PageFields
    BY DEF Fits, PageShaped
  <1>3. timer \in BOOLEAN
    OBVIOUS
  <1> HIDE DEF q, timer
  <1>4. Alters(p, q, {"timer"}) /\ q.timer = timer
    BY <1>1, <1>2 DEF Alters, PageFields
  <1>5. \A k \in PageFields \ {"timer"} : q[k] = p[k]
    BY <1>4 DEF Alters
  <1>6. Fits(q)
    BY <1>3, <1>4, <1>5 DEF Fits, PageShaped, OneThing, CallFits, DrawerAgrees, Alters, PageFields
  <1>7. (ListWaits(p) => ListWaits(q)) /\ (OthersWait(p) => OthersWait(q))
    BY <1>5 DEF ListWaits, OthersWait, PageFields
  <1>8. Polls(q)
    BY <1>4, <1>5 DEF Polls, T!Live, timer, PageFields
  <1> QED
    BY <1>6, <1>7, <1>8 DEF Moves, q

(* What awaited a refresh goes on. *)
LEMMA ResumeDoes ==
    ASSUME T!Parameters, NEW p, Fits(p), NEW c, c.poll \in BOOLEAN, c.opens # None => Coming(p) = {}
    PROVE  Moves(p, T!Resume(p, c), c.poll)
  <1>1. CASE c.poll
    BY <1>1, ScheduleDoes DEF T!Resume
  <1>2. CASE ~c.poll /\ c.opens # None /\ c.opens \in p.running
    <2>1. T!Resume(p, c) = T!Monitor(p, c.opens)
      BY <1>2 DEF T!Resume, T!Found
    <2>2. c.opens \in Run
      BY <1>2 DEF Fits, PageShaped
    <2>3. Moves(p, T!Resume(p, c), FALSE)
      BY <1>2, <2>1, <2>2, MonitorDoes, KeepsMoves
    <2> QED
      BY <1>2, <2>3
  <1>3. CASE ~c.poll /\ (c.opens = None \/ c.opens \notin p.running)
    BY <1>3 DEF T!Resume, T!Found, Moves
  <1> QED
    BY <1>1, <1>2, <1>3

(* The runs are asked for, by a poll, for a run that is to be followed, or *)
(* for neither.                                                            *)
LEMMA RefreshRunsDoes ==
    ASSUME T!Parameters, NEW p, Fits(p), NEW poll \in BOOLEAN, NEW r, r # None => Coming(p) = {} /\ p.held = FALSE
    PROVE  Moves(p, T!Refresh(p, poll, r), poll)
  <1> DEFINE u == T!Supersede(p, "active")
             v == [u EXCEPT !.running = {}]
             b == T!Request("active", None)
             same == p.monitored # None
             c == [b EXCEPT !.poll = poll, !.opens = r, !.monitored = p.monitored, !.same = same]
             q == T!Refresh(p, poll, r)
  <1>1. Fits(u) /\ Alters(p, u, {"calls"}) /\ (Coming(p) = {} => Coming(u) = {}) /\ Keeps(p, u)
    BY SupersedeDoes
  <1>2. q = IF T!Live(p) THEN T!Call(u, c) ELSE T!Resume(v, c)
    BY DEF T!Refresh
  <1>3. IsRequest(b, "active", None)
    BY RequestDoes
  <1> HIDE DEF u, b, q, same
  <1>4. DOMAIN c = CallFields /\ c.what = "active" /\ c.list = {} /\ c.poll = poll /\ c.opens = r
    BY <1>3 DEF IsRequest, CallFields
  <1>5. DOMAIN v = PageFields /\ Alters(u, v, {"running"}) /\ v.running = {}
    BY <1>1 DEF Fits, PageShaped, Alters, PageFields
  <1> HIDE DEF c, v
  <1>6. u.held = p.held
    BY <1>1 DEF Alters, PageFields
  <1>7. Moves(p, u, FALSE)
    BY <1>1, KeepsMoves
  <1>8. CASE T!Live(p)
    <2>1. CallShaped(c) /\ CallFits(u, c) /\ (Brings(c) <=> r # None)
      BY <1>4 DEF CallShaped, CallFits, Asked, Brings
    <2>2. Adds(u, q, c)
      BY <1>1, <1>2, <1>4, <1>8, CallDoes DEF Fits, PageShaped
    <2>3. Fits(q) /\ Keeps(u, q)
      BY <1>1, <1>6, <2>1, <2>2, AddsFit
    <2>4. Moves(u, q, FALSE)
      BY <2>3, KeepsMoves
    <2>5. poll => \E d \in q.calls : d.poll
      BY <1>4, <2>2 DEF Adds, CallFields
    <2>6. poll => Polls(q)
      BY <2>5 DEF Polls
    <2>7. Moves(p, q, FALSE)
      BY <1>7, <2>4 DEF Moves
    <2> QED
      BY <2>6, <2>7 DEF Moves, q
  <1>9. CASE ~T!Live(p)
    <2>1. \A k \in PageFields \ {"running"} : v[k] = u[k]
      BY <1>5 DEF Alters
    <2>2. Fits(v) /\ Keeps(u, v) /\ Coming(v) = Coming(u)
      BY <1>1, <1>5, <2>1 DEF Fits, PageShaped, OneThing, CallFits, DrawerAgrees, Keeps, Alters, PageFields, Coming
    <2>3. Moves(u, v, FALSE)
      BY <2>2, KeepsMoves
    <2>4. Moves(v, T!Resume(v, c), poll)
      BY <1>1, <1>4, <2>2, ResumeDoes
    <2> QED
      BY <1>2, <1>7, <1>9, <2>3, <2>4 DEF Moves, q
  <1> QED
    BY <1>8, <1>9

(* The thread of a run that has ended is asked for, unless it is already.  *)
LEMMA FinalizeDoes ==
    ASSUME T!Parameters, NEW p, NEW c, Arrived(p, c), c.what = "active"
    PROVE  Moves(p, T!Finalize(p, c), c.poll)
  <1>0. Fits(p) /\ c.poll \in BOOLEAN /\ (c.opens # None => Coming(p) = {} /\ p.held = FALSE)
    BY DEF Arrived, CallShaped, Brings
  <1>1. CASE p.finalizing = c.monitored
    BY <1>0, <1>1, ResumeDoes DEF T!Finalize
  <1>2. CASE p.finalizing # c.monitored
    <2> DEFINE u == [p EXCEPT !.finalizing = c.monitored]
               b == T!Request("final", c.monitored)
               e == [b EXCEPT !.same = c.same, !.poll = c.poll, !.opens = c.opens]
               q == T!Finalize(p, c)
    <2>1. q = T!Call(u, e)
      BY <1>2 DEF T!Finalize
    <2>2. IsRequest(b, "final", c.monitored)
      BY RequestDoes
    <2> HIDE DEF b, q
    <2>3. DOMAIN e = CallFields /\ e.what = "final" /\ e.to = c.monitored /\ e.poll = c.poll /\ e.opens = c.opens
      BY <2>2 DEF IsRequest, CallFields
    <2>4. Alters(p, u, {"finalizing"}) /\ u.finalizing = c.monitored
      BY <1>0 DEF Fits, PageShaped, Alters, PageFields
    <2> HIDE DEF u, e
    <2>5. \A k \in PageFields \ {"finalizing"} : u[k] = p[k]
      BY <2>4 DEF Alters
    <2>6. Fits(u) /\ u.held = p.held /\ Coming(u) = Coming(p)
      BY <1>0, <2>4, <2>5 DEF Fits, PageShaped, OneThing, CallFits, DrawerAgrees, Alters, PageFields, Coming
    <2>7. CallShaped(e) /\ CallFits(u, e) /\ (Brings(e) <=> c.opens # None)
      BY <1>0, <2>3 DEF CallShaped, CallFits, Asked, Brings
    <2>8. Adds(u, q, e)
      BY <2>1, <2>3, <2>6, CallDoes DEF Fits, PageShaped
    <2>9. Fits(q) /\ Keeps(u, q)
      BY <1>0, <2>6, <2>7, <2>8, AddsFit
    <2>10. /\ \E d \in q.calls : d.what = "final" /\ d.to = c.monitored
           /\ c.poll => \E d \in q.calls : d.poll
           /\ q.finalizing = c.monitored
      BY <2>3, <2>4, <2>8 DEF Adds, CallFields, Alters, PageFields
    <2>11. Moves(u, q, FALSE)
      BY <2>9, KeepsMoves
    <2>12. (ListWaits(p) => ListWaits(u)) /\ (Polls(p) => Polls(u))
      BY <2>5 DEF ListWaits, Polls, T!Live, PageFields
    <2>13. OthersWait(p) => OthersWait(q)
      <3>1. q.halting = p.halting /\ u.calls = p.calls
        BY <2>5, <2>9 DEF Keeps, Alters, PageFields
      <3> QED
        BY <2>9, <2>10, <3>1 DEF OthersWait, Keeps
    <2>14. c.poll => Polls(q)
      BY <2>10 DEF Polls
    <2> QED
      BY <2>9, <2>11, <2>12, <2>13, <2>14 DEF Moves, q
  <1> QED
    BY <1>1, <1>2

(* What awaits the refresh c may go on. *)
Welcome(p, c) == Fits(p) /\ c.poll \in BOOLEAN /\ (c.opens # None => Coming(p) = {} /\ p.held = FALSE)

(* A call that carries what awaits the refresh c is added to those under way. *)
LEMMA CarriedDoes ==
    ASSUME NEW p, NEW c, Welcome(p, c),
           NEW e, DOMAIN e = CallFields, e.what \in {"audit", "media"}, e.poll = c.poll, e.opens = c.opens
    PROVE  Moves(p, T!Call(p, e), c.poll)
  <1> DEFINE q == T!Call(p, e)
  <1>1. CallShaped(e) /\ CallFits(p, e) /\ (Brings(e) <=> c.opens # None)
    BY DEF Welcome, CallShaped, CallFits, Asked, Brings
  <1>2. Adds(p, q, e)
    BY CallDoes DEF Welcome, Fits, PageShaped
  <1> HIDE DEF q
  <1>3. Fits(q) /\ Keeps(p, q)
    BY <1>1, <1>2, AddsFit DEF Welcome
  <1>4. Moves(p, q, FALSE)
    BY <1>3, KeepsMoves
  <1>5. c.poll => Polls(q)
    BY <1>2 DEF Adds, CallFields, Polls
  <1> QED
    BY <1>4, <1>5 DEF Moves, q

LEMMA RefreshAuditDoes ==
    ASSUME NEW p, NEW c, Welcome(p, c),
           NEW r, NEW same
    PROVE  Moves(p, T!RefreshAudit(p, r, same, c), c.poll)
  <1> DEFINE u == T!Supersede(p, "audit")
             b == T!Request("audit", r)
             e == [b EXCEPT !.same = same, !.poll = c.poll, !.opens = c.opens]
  <1>1. Fits(u) /\ Alters(p, u, {"calls"}) /\ (Coming(p) = {} => Coming(u) = {}) /\ Keeps(p, u)
    BY SupersedeDoes DEF Welcome
  <1>2. IsRequest(b, "audit", r)
    BY RequestDoes
  <1> HIDE DEF b, u
  <1>3. DOMAIN e = CallFields /\ e.what = "audit" /\ e.poll = c.poll /\ e.opens = c.opens
    BY <1>2 DEF IsRequest, CallFields
  <1>4. T!RefreshAudit(p, r, same, c) = T!Call(u, e)
    BY DEF T!RefreshAudit, u, b
  <1> HIDE DEF e
  <1>5. Welcome(u, c)
    BY <1>1 DEF Welcome, Alters, PageFields
  <1>6. Moves(u, T!Call(u, e), c.poll)
    BY <1>3, <1>5, CarriedDoes
  <1>7. Moves(p, u, FALSE)
    BY <1>1, KeepsMoves
  <1> QED
    BY <1>4, <1>6, <1>7 DEF Moves

LEMMA LoadMediaDoes ==
    ASSUME NEW p, NEW c, Welcome(p, c)
    PROVE  Moves(p, T!LoadMedia(p, c), c.poll)
  <1> DEFINE b == T!Request("media", None)
             e == [b EXCEPT !.poll = c.poll, !.opens = c.opens]
  <1>1. CASE ~T!Carries(c)
    BY <1>1 DEF T!LoadMedia, T!Carries, Moves, Welcome
  <1>2. CASE T!Carries(c)
    <2>1. IsRequest(b, "media", None)
      BY RequestDoes
    <2>2. T!LoadMedia(p, c) = T!Call(p, e)
      BY <1>2 DEF T!LoadMedia
    <2> HIDE DEF b
    <2>3. DOMAIN e = CallFields /\ e.what = "media" /\ e.poll = c.poll /\ e.opens = c.opens
      BY <2>1 DEF IsRequest, CallFields
    <2> HIDE DEF e
    <2> QED
      BY <2>2, <2>3, CarriedDoes
  <1> QED
    BY <1>1, <1>2

(* What a refresh still awaits keeps the next poll ahead. *)
LEMMA GoOnDoes ==
    ASSUME T!Parameters, NEW p, NEW c, Welcome(p, c), NEW rest \in T!Rest
    PROVE  Moves(p, T!GoOn(p, c, rest), c.poll)
  <1>1. Moves(p, T!RefreshAudit(p, p.monitored, FALSE, c), c.poll)
    BY RefreshAuditDoes
  <1>2. Moves(p, T!LoadMedia(p, c), c.poll)
    BY LoadMediaDoes
  <1>3. Moves(p, T!Resume(p, c), c.poll)
    BY ResumeDoes DEF Welcome
  <1> QED
    BY <1>1, <1>2, <1>3 DEF T!GoOn, T!Rest

LEMMA ActiveArrivesDoes ==
    ASSUME T!Parameters, NEW p, NEW c, Arrived(p, c), c.what = "active", NEW rest \in T!Rest
    PROVE  Moves(p, T!ActiveArrives(p, c, rest), c.poll)
  <1> DEFINE u == [p EXCEPT !.running = c.list]
  <1>0. Fits(p) /\ c.poll \in BOOLEAN /\ c.list \subseteq Run /\ (c.opens # None => Coming(p) = {} /\ p.held = FALSE)
    BY DEF Arrived, CallShaped, Brings
  <1>1. Alters(p, u, {"running"}) /\ u.running = c.list
    BY <1>0 DEF Fits, PageShaped, Alters, PageFields
  <1>2. /\ T!ActiveArrives(p, c, rest) \in {T!Resume(p, c), T!Resume(u, c), T!Finalize(u, c), T!GoOn(u, c, rest)}
    BY DEF T!ActiveArrives
  <1> HIDE DEF u
  <1>3. \A k \in PageFields \ {"running"} : u[k] = p[k]
    BY <1>1 DEF Alters
  <1>4. Fits(u) /\ Keeps(p, u) /\ Coming(u) = Coming(p) /\ u.held = p.held
    BY <1>0, <1>1, <1>3 DEF Fits, PageShaped, OneThing, CallFits, DrawerAgrees, Keeps, Alters, PageFields, Coming
  <1>5. Arrived(u, c)
    BY <1>3, <1>4 DEF Arrived, CallFits, PageFields
  <1>6. Moves(p, u, FALSE)
    BY <1>4, KeepsMoves
  <1>7. Moves(p, T!Resume(p, c), c.poll)
    BY <1>0, ResumeDoes
  <1>8. Moves(u, T!Resume(u, c), c.poll)
    BY <1>0, <1>4, ResumeDoes
  <1>9. Moves(u, T!Finalize(u, c), c.poll)
    BY <1>5, FinalizeDoes
  <1>11. Welcome(u, c)
    BY <1>0, <1>4 DEF Welcome
  <1>10. Moves(u, T!GoOn(u, c, rest), c.poll)
    BY <1>11, GoOnDoes
  <1> QED
    BY <1>2, <1>6, <1>7, <1>8, <1>9, <1>10 DEF Moves

LEMMA ResolveArrivesDoes ==
    ASSUME T!Parameters, NEW p, NEW c, Arrived(p, c), c.what = "resolve"
    PROVE  Moves(p, T!ResolveArrives(p, c), FALSE)
  <1>1. Fits(p) /\ Coming(p) = {} /\ p.held = FALSE
    BY DEF Arrived, Brings
  <1>2. Moves(p, p, FALSE)
    BY <1>1 DEF Moves
  <1>3. Moves(p, T!Refresh(p, FALSE, c.to), FALSE)
    BY <1>1, RefreshRunsDoes
  <1>4. Moves(p, T!Go(p, T!ToThread(ThreadOf[c.to])), FALSE)
    BY <1>1, GoDoes, KeepsMoves
  <1> QED
    BY <1>2, <1>3, <1>4 DEF T!ResolveArrives

(* The thread of a run that has ended arrives: the run is no longer        *)
(* waited for, and what awaited the refresh goes on.                       *)
LEMMA FinalArrivesDoes ==
    ASSUME T!Parameters, NEW p, NEW c, Arrived(p, c), c.what = "final", ListWaits(p),
           p.halting # None => \E d \in p.calls : d.what = "halt",
           p.finalizing \notin {None, c.to} => \E d \in p.calls : d.what = "final" /\ d.to = p.finalizing,
           c.poll \/ Polls(p)
    PROVE  LET q == T!FinalArrives(p, c)
           IN Fits(q) /\ Waiting(q) /\ Polls(q)
  <1> DEFINE other == IF p.finalizing = c.to THEN None ELSE p.finalizing
             u == [p EXCEPT !.finalizing = other]
             v == T!Clear(u)
             route == T!ToThread(ThreadOf[c.to])
             w == T!Go(v, route)
             q == T!FinalArrives(p, c)
  <1>0. Fits(p) /\ c.poll \in BOOLEAN /\ (c.opens # None => Coming(p) = {} /\ p.held = FALSE)
    BY DEF Arrived, CallShaped, Brings
  <1>1. /\ q \in {T!Resume(w, c), T!Resume(u, c)}
        /\ ~p.held => q = T!Resume(u, c)
    BY DEF T!FinalArrives
  <1>2. Alters(p, u, {"finalizing"}) /\ u.finalizing = other
    BY <1>0 DEF Fits, PageShaped, Alters, PageFields
  <1> HIDE DEF q, w, v, u
  <1>3. \A k \in PageFields \ {"finalizing"} : u[k] = p[k]
    BY <1>2 DEF Alters
  <1>4. Fits(u) /\ Coming(u) = Coming(p)
    BY <1>0, <1>2, <1>3 DEF Fits, PageShaped, OneThing, CallFits, DrawerAgrees, Alters, PageFields, Coming
  <1>5. ListWaits(u) /\ OthersWait(u) /\ (c.poll \/ Polls(u))
    BY <1>2, <1>3 DEF ListWaits, OthersWait, Polls, T!Live, PageFields
  <1>6. Fits(v) /\ Keeps(u, v)
    BY <1>4, ClearDoes DEF v
  <1>7. Fits(w) /\ Keeps(v, w)
    BY <1>6, GoDoes DEF w
  <1>8. Moves(u, w, FALSE)
    BY <1>6, <1>7, KeepsOn, KeepsMoves
  <1>9. CASE q = T!Resume(u, c)
    <2>1. Moves(u, q, c.poll)
      BY <1>0, <1>4, <1>9, ResumeDoes
    <2> QED
      BY <1>5, <2>1 DEF Moves, Waiting, q
  <1>10. CASE q = T!Resume(w, c) /\ p.held
    <2>1. Moves(w, q, c.poll)
      BY <1>0, <1>7, <1>10, ResumeDoes
    <2> QED
      BY <1>5, <1>8, <2>1 DEF Moves, Waiting, q
  <1>11. p.held \in BOOLEAN
    BY <1>0 DEF Fits, PageShaped
  <1> QED
    BY <1>1, <1>9, <1>10, <1>11

(* The list is asked for, or spins until the connection is back.           *)
LEMMA RefreshListDoes ==
    ASSUME NEW p, Fits(p)
    PROVE  LET q == T!RefreshList(p)
           IN Fits(q) /\ ListWaits(q) /\ (OthersWait(p) => OthersWait(q)) /\ (Polls(p) => Polls(q))
  <1> DEFINE u == T!Forget(p, {"list"})
             v(b) == [u EXCEPT !.listing = b]
             q == T!RefreshList(p)
  <1>1. Fits(u) /\ Alters(p, u, {"calls"}) /\ u.calls = {c \in p.calls : c.what \notin {"list"}}
    BY ForgetDoes
  <1>2. /\ p.conn = "authenticated" => q = T!Call(v(TRUE), T!Request("list", None))
        /\ p.conn = "reconnecting" => q = v(TRUE)
        /\ p.conn = "offline" => q = v(FALSE)
    BY DEF T!RefreshList
  <1> HIDE DEF u, q
  <1>3. \A k \in PageFields \ {"calls"} : u[k] = p[k]
    BY <1>1 DEF Alters
  <1>4. (OthersWait(p) => OthersWait(u)) /\ (Polls(p) => Polls(u)) /\ p.conn = u.conn
    BY <1>1, <1>3 DEF OthersWait, Polls, T!Live, Fits, PageShaped, CallShaped, PageFields
  <1>5. ASSUME NEW b \in BOOLEAN
        PROVE  /\ Fits(v(b)) /\ v(b).conn = p.conn /\ v(b).listing = b
               /\ (OthersWait(p) => OthersWait(v(b))) /\ (Polls(p) => Polls(v(b)))
    <2> DEFINE w == v(b)
    <2>1. Alters(u, w, {"listing"}) /\ w.listing = b
      BY <1>1 DEF Fits, PageShaped, Alters, PageFields
    <2> HIDE DEF w
    <2>2. \A k \in PageFields \ {"listing"} : w[k] = u[k]
      BY <2>1 DEF Alters
    <2>3. Fits(w)
      BY <1>1, <2>1, <2>2 DEF Fits, PageShaped, OneThing, CallFits, DrawerAgrees, Alters, PageFields
    <2>4. (OthersWait(u) => OthersWait(w)) /\ (Polls(u) => Polls(w)) /\ w.conn = u.conn
      BY <2>2 DEF OthersWait, Polls, T!Live, PageFields
    <2> QED
      BY <1>4, <2>1, <2>3, <2>4 DEF w
  <1> HIDE DEF v
  <1>6. CASE p.conn = "authenticated"
    <2> DEFINE w == v(TRUE)
    <2>1. Fits(w) /\ (OthersWait(p) => OthersWait(w)) /\ (Polls(p) => Polls(w))
      BY <1>5
    <2>2. q = T!Call(w, T!Request("list", None))
      BY <1>2, <1>6
    <2> HIDE DEF w
    <2>3. Fits(q) /\ Keeps(w, q) /\ \E c \in q.calls : c.what = "list"
      BY <2>1, <2>2, AskDoes DEF Asked
    <2>4. Moves(w, q, FALSE)
      BY <2>3, KeepsMoves
    <2> QED
      BY <2>1, <2>3, <2>4 DEF Moves, ListWaits, q
  <1>7. CASE p.conn = "reconnecting"
    BY <1>2, <1>5, <1>7 DEF ListWaits, q
  <1>8. CASE p.conn = "offline"
    BY <1>2, <1>5, <1>8 DEF ListWaits, q
  <1> QED
    BY <1>6, <1>7, <1>8 DEF Fits, PageShaped

LEMMA ListArrivesDoes ==
    ASSUME NEW p, Fits(p), NEW c
    PROVE  LET q == T!ListArrives(p, c)
           IN Fits(q) /\ ListWaits(q) /\ (OthersWait(p) => OthersWait(q)) /\ (Polls(p) => Polls(q))
  <1> DEFINE u == [p EXCEPT !.listing = FALSE]
             v == [u EXCEPT !.threads = c.list]
             q == T!ListArrives(p, c)
  <1>1. q \in {u, T!SelectFromRoute(v)}
    BY DEF T!ListArrives
  <1>2. Alters(p, u, {"listing", "threads"}) /\ u.listing = FALSE /\ Alters(p, v, {"listing", "threads"}) /\ v.listing = FALSE
    BY DEF Fits, PageShaped, Alters, PageFields
  <1> HIDE DEF u, v, q
  <1>3. ASSUME NEW w, Alters(p, w, {"listing", "threads"}), w.listing = FALSE
        PROVE  Fits(w) /\ ListWaits(w) /\ (OthersWait(p) => OthersWait(w)) /\ (Polls(p) => Polls(w))
    <2>1. \A k \in PageFields \ {"listing", "threads"} : w[k] = p[k]
      BY <1>3 DEF Alters
    <2>2. Fits(w)
      <3>1. PageShaped(w)
        BY <1>3, <2>1 DEF Fits, PageShaped, Alters, PageFields
      <3>2. OneThing(w) /\ DrawerAgrees(w)
        BY <2>1 DEF Fits, OneThing, DrawerAgrees, PageFields
      <3>3. \A d \in w.calls : CallFits(w, d)
        BY <2>1 DEF Fits, CallFits, PageFields
      <3> QED
        BY <3>1, <3>2, <3>3 DEF Fits
    <2>3. (OthersWait(p) => OthersWait(w)) /\ (Polls(p) => Polls(w))
      BY <2>1 DEF OthersWait, Polls, T!Live, PageFields
    <2> QED
      BY <1>3, <2>2, <2>3 DEF ListWaits
  <1>4. Fits(v) /\ ListWaits(v) /\ (OthersWait(p) => OthersWait(v)) /\ (Polls(p) => Polls(v))
    BY <1>2, <1>3
  <1>5. Moves(v, T!SelectFromRoute(v), FALSE)
    BY <1>4, SelectFromRouteDoes, KeepsMoves
  <1> QED
    BY <1>1, <1>2, <1>3, <1>4, <1>5 DEF Moves, q

LEMMA HaltArrivesDoes ==
    ASSUME T!Parameters, NEW p, Fits(p), NEW c, ListWaits(p), Polls(p),
           p.finalizing # None => \E d \in p.calls : d.what = "final" /\ d.to = p.finalizing
    PROVE  LET q == T!HaltArrives(p, c)
           IN Fits(q) /\ Waiting(q) /\ Polls(q)
  <1> DEFINE u == [p EXCEPT !.halting = None]
             v == T!Refresh(u, FALSE, None)
             q == T!HaltArrives(p, c)
  <1>1. q \in {u, T!RefreshList(v)}
    BY DEF T!HaltArrives
  <1>2. Alters(p, u, {"halting"}) /\ u.halting = None
    BY DEF Fits, PageShaped, Alters, PageFields
  <1> HIDE DEF u, v, q
  <1>3. \A k \in PageFields \ {"halting"} : u[k] = p[k]
    BY <1>2 DEF Alters
  <1>4. Fits(u)
    BY <1>2, <1>3 DEF Fits, PageShaped, OneThing, CallFits, DrawerAgrees, Alters, PageFields
  <1>5. ListWaits(u) /\ OthersWait(u) /\ Polls(u)
    BY <1>2, <1>3 DEF ListWaits, OthersWait, Polls, T!Live, PageFields
  <1>6. Moves(u, v, FALSE)
    BY <1>4, RefreshRunsDoes DEF v
  <1>7. Fits(v) /\ OthersWait(v) /\ Polls(v)
    BY <1>5, <1>6 DEF Moves
  <1> QED
    BY <1>1, <1>4, <1>5, <1>7, RefreshListDoes DEF Waiting, q

LEMMA AuditArrivesDoes ==
    ASSUME T!Parameters, NEW p, NEW c, Arrived(p, c), c.what = "audit", NEW rest \in T!Rest
    PROVE  Moves(p, T!AuditArrives(p, c, rest), c.poll)
  <1> DEFINE u == T!Restored(p, c)
             v == T!Audited(u, c)
  <1>0. Fits(p) /\ c.poll \in BOOLEAN /\ (c.opens # None => Coming(p) = {} /\ p.held = FALSE)
    BY DEF Arrived, CallShaped, Brings
  <1>1. Alters(p, u, {"streaming"})
    BY <1>0 DEF T!Restored, Fits, PageShaped, Alters, PageFields
  <1> HIDE DEF u
  <1>2. Alters(u, v, {"audited"}) /\ (v.audited = u.audited \/ (v.audited = {c.to} /\ c.to = u.monitored))
    BY <1>1 DEF T!Audited, Alters, PageFields
  <1> HIDE DEF v
  <1>3. \A k \in PageFields \ {"streaming", "audited"} : v[k] = p[k]
    BY <1>1, <1>2 DEF Alters
  <1>4. v.audited \subseteq {p.monitored}
    BY <1>0, <1>1, <1>2 DEF Fits, DrawerAgrees, Alters, PageFields
  <1>5. Fits(v) /\ Keeps(p, v) /\ Coming(v) = Coming(p) /\ v.held = p.held
    BY <1>0, <1>2, <1>3, <1>4 DEF Fits, PageShaped, OneThing, CallFits, DrawerAgrees, Keeps, Alters, PageFields, Coming
  <1>8. Welcome(v, c)
    BY <1>0, <1>5 DEF Welcome
  <1>6. Moves(v, T!GoOn(v, c, rest), c.poll)
    BY <1>8, GoOnDoes
  <1>7. Moves(p, v, FALSE)
    BY <1>5, KeepsMoves
  <1> QED
    BY <1>6, <1>7 DEF T!AuditArrives, Moves, u, v

LEMMA SubscribeArrivesDoes ==
    ASSUME NEW p, NEW c, Arrived(p, c), c.what = "subscribe"
    PROVE  Moves(p, T!SubscribeArrives(p, c), FALSE)
  <1>1. Welcome(p, c) /\ ~c.poll
    BY DEF Arrived, CallShaped, Welcome
  <1>2. Moves(p, T!RefreshAudit(p, c.to, TRUE, c), c.poll)
    BY <1>1, RefreshAuditDoes
  <1> QED
    BY <1>1, <1>2 DEF T!SubscribeArrives, Moves

-----------------------------------------------------------------------------
(* The steps.                                                              *)

(* The connection and the visibility of the page, and what is halted, are  *)
(* not what its calls fit.                                                 *)
LEMMA ApartDoes ==
    ASSUME NEW p, Fits(p), NEW q, Alters(p, q, {"conn", "streaming", "hidden", "timer", "halting"}),
           q.conn \in {"authenticated", "reconnecting", "offline"}, q.hidden \in BOOLEAN, q.timer \in BOOLEAN
    PROVE  Fits(q) /\ ((q.halting = p.halting) => (OthersWait(p) => OthersWait(q)))
  <1>1. \A k \in PageFields \ {"conn", "streaming", "hidden", "timer", "halting"} : q[k] = p[k]
    BY DEF Alters
  <1>2. Fits(q)
    BY <1>1 DEF Fits, PageShaped, OneThing, CallFits, DrawerAgrees, Alters, PageFields
  <1>3. q.finalizing = p.finalizing /\ q.calls = p.calls
    BY <1>1 DEF PageFields
  <1> QED
    BY <1>2, <1>3 DEF OthersWait

LEMMA MovedInOrder ==
    ASSUME NEW p, NEW q, NEW polls \in BOOLEAN, Waiting(p), polls \/ Polls(p), Moves(p, q, polls)
    PROVE  Orderly(q)
  BY DEF Moves, Orderly, Waiting

LEMMA PollDoes ==
    ASSUME T!Parameters, NEW p, Fits(p), Waiting(p)
    PROVE  Orderly(T!Poll(p))
  <1>1. Moves(p, T!Refresh(p, TRUE, None), TRUE)
    BY RefreshRunsDoes
  <1> QED
    BY <1>1, MovedInOrder DEF T!Poll

(* The watchers of the connection.                                         *)
LEMMA WatchedDoes ==
    ASSUME T!Parameters, NEW p, Fits(p), OthersWait(p)
    PROVE  Orderly(T!Watched(p))
  <1> DEFINE q == T!RefreshList(p)
  <1>1. Fits(q) /\ ListWaits(q) /\ OthersWait(q)
    BY RefreshListDoes
  <1> HIDE DEF q
  <1>2. Orderly(T!Poll(q))
    BY <1>1, PollDoes DEF Waiting
  <1> QED
    BY <1>2 DEF T!Watched, q

(* A call leaves the page.                                                 *)
LEMMA TakenDoes ==
    ASSUME NEW p, Fits(p), NEW c \in p.calls
    PROVE  LET u == [p EXCEPT !.calls = @ \ {c}]
           IN Arrived(u, c) /\ Alters(p, u, {"calls"}) /\ u.calls = p.calls \ {c}
  <1> DEFINE u == [p EXCEPT !.calls = @ \ {c}]
  <1>1. Alters(p, u, {"calls"}) /\ u.calls = p.calls \ {c}
    BY DEF Fits, PageShaped, Alters, PageFields
  <1> HIDE DEF u
  <1>2. \A k \in PageFields \ {"calls"} : u[k] = p[k]
    BY <1>1 DEF Alters
  <1>3. PageShaped(u) /\ OneThing(u)
    BY <1>1, <1>2 DEF Fits, PageShaped, OneThing, Alters, PageFields
  <1>4. \A d \in p.calls : CallFits(u, d)
    BY <1>2 DEF Fits, CallFits, PageFields
  <1>5. DrawerAgrees(u)
    BY <1>2 DEF Fits, DrawerAgrees, PageFields
  <1>6. Brings(c) => Coming(u) = {}
    BY <1>1 DEF Fits, OneThing, Coming
  <1>7. Brings(c) => u.held = FALSE
    BY <1>2 DEF Fits, OneThing, PageShaped, PageFields
  <1> QED
    BY <1>1, <1>3, <1>4, <1>5, <1>6, <1>7 DEF Fits, PageShaped, Arrived, u

LEMMA LeftWaits ==
    ASSUME NEW p, Orderly(p), NEW c \in p.calls, NEW u, Alters(p, u, {"calls"}), u.calls = p.calls \ {c}
    PROVE  /\ c.what # "list" => ListWaits(u)
           /\ c.what \notin {"halt", "final"} => OthersWait(u)
           /\ c.what # "halt" /\ u.halting # None => \E d \in u.calls : d.what = "halt"
           /\ u.finalizing # None /\ (c.what = "final" => u.finalizing # c.to) =>
                \E d \in u.calls : d.what = "final" /\ d.to = u.finalizing
           /\ c.poll \/ Polls(u)
  <1>1. \A k \in PageFields \ {"calls"} : u[k] = p[k]
    BY DEF Alters
  <1>2. ListWaits(p) /\ OthersWait(p) /\ Polls(p)
    BY DEF Orderly, Waiting
  <1>3. c.what # "list" => ListWaits(u)
    BY <1>1, <1>2 DEF ListWaits, PageFields
  <1>4. c.what \notin {"halt", "final"} => OthersWait(u)
    BY <1>1, <1>2 DEF OthersWait, PageFields
  <1>5. c.what # "halt" /\ u.halting # None => \E d \in u.calls : d.what = "halt"
    BY <1>1, <1>2 DEF OthersWait, PageFields
  <1>6. u.finalizing # None /\ (c.what = "final" => u.finalizing # c.to) =>
          \E d \in u.calls : d.what = "final" /\ d.to = u.finalizing
    BY <1>1, <1>2 DEF OthersWait, PageFields
  <1>7. c.poll \/ Polls(u)
    BY <1>1, <1>2 DEF Polls, T!Live, PageFields
  <1> QED
    BY <1>3, <1>4, <1>5, <1>6, <1>7

(* An answer, whichever it is. *)
LEMMA AnswerDoes ==
    ASSUME T!Parameters, NEW p, Orderly(p), NEW c \in p.calls, NEW rest \in T!Rest
    PROVE  Orderly(T!Arrives([p EXCEPT !.calls = @ \ {c}], c, rest))
  <1> DEFINE u == [p EXCEPT !.calls = @ \ {c}]
             q == T!Arrives(u, c, rest)
  <1>1. Arrived(u, c) /\ Alters(p, u, {"calls"}) /\ u.calls = p.calls \ {c}
    BY TakenDoes DEF Orderly
  <1> HIDE DEF u
  <1>2. /\ c.what # "list" => ListWaits(u)
        /\ c.what \notin {"halt", "final"} => OthersWait(u)
        /\ c.what # "halt" /\ u.halting # None => \E d \in u.calls : d.what = "halt"
        /\ u.finalizing # None /\ (c.what = "final" => u.finalizing # c.to) =>
             \E d \in u.calls : d.what = "final" /\ d.to = u.finalizing
        /\ c.poll \/ Polls(u)
    BY <1>1, LeftWaits
  <1>3. Fits(u) /\ c.what \in Asked /\ c.poll \in BOOLEAN /\ (c.poll => c.what \in {"active", "final", "audit", "media"})
    BY <1>1 DEF Arrived, CallShaped
  <1>4. CASE c.what = "list"
    <2>1. q = T!ListArrives(u, c)
      BY <1>4 DEF T!Arrives
    <2>2. OthersWait(u) /\ Polls(u)
      BY <1>2, <1>3, <1>4
    <2> HIDE DEF q
    <2> QED
      BY <1>3, <2>1, <2>2, ListArrivesDoes DEF Orderly, Waiting, q, u
  <1>5. CASE c.what = "active"
    <2>1. q = T!ActiveArrives(u, c, rest)
      BY <1>5 DEF T!Arrives
    <2>2. Waiting(u)
      BY <1>2, <1>5 DEF Waiting
    <2> HIDE DEF q
    <2>3. Moves(u, q, c.poll)
      BY <1>1, <1>5, <2>1, ActiveArrivesDoes
    <2> QED
      BY <1>2, <1>3, <2>2, <2>3, MovedInOrder DEF q, u
  <1>6. CASE c.what = "final"
    <2>1. q = T!FinalArrives(u, c)
      BY <1>6 DEF T!Arrives
    <2> HIDE DEF q
    <2>2. ListWaits(u) /\ (u.halting # None => \E d \in u.calls : d.what = "halt")
      BY <1>2, <1>6
    <2>3. u.finalizing \notin {None, c.to} => \E d \in u.calls : d.what = "final" /\ d.to = u.finalizing
      BY <1>2
    <2>4. Fits(q) /\ Waiting(q) /\ Polls(q)
      BY <1>1, <1>2, <1>6, <2>1, <2>2, <2>3, FinalArrivesDoes
    <2> QED
      BY <2>4 DEF Orderly, q, u
  <1>7. CASE c.what = "halt"
    <2>1. q = T!HaltArrives(u, c)
      BY <1>7 DEF T!Arrives
    <2> HIDE DEF q
    <2>2. ListWaits(u) /\ Polls(u) /\ (u.finalizing # None => \E d \in u.calls : d.what = "final" /\ d.to = u.finalizing)
      BY <1>2, <1>3, <1>7
    <2>3. Fits(q) /\ Waiting(q) /\ Polls(q)
      BY <1>3, <2>1, <2>2, HaltArrivesDoes
    <2> QED
      BY <2>3 DEF Orderly, q, u
  <1>8. CASE c.what \in Passing
    <2> HIDE DEF q
    <2>1. Moves(u, q, FALSE)
      <3>1. c.what = "subscribe" => Moves(u, T!SubscribeArrives(u, c), FALSE)
        BY <1>1, SubscribeArrivesDoes
      <3>3. c.what = "thread" => Moves(u, T!ThreadArrives(u, c), FALSE)
        BY <1>1, ThreadArrivesDoes, KeepsMoves
      <3>4. c.what = "stats" => Moves(u, T!StatsArrives(u, c), FALSE)
        BY <1>1, StatsArrivesDoes, KeepsMoves
      <3>5. c.what = "resolve" => Moves(u, T!ResolveArrives(u, c), FALSE)
        BY <1>1, ResolveArrivesDoes
      <3> QED
        BY <1>8, <3>1, <3>3, <3>4, <3>5 DEF Passing, T!Arrives, q
    <2>2. Waiting(u) /\ Polls(u)
      BY <1>2, <1>3, <1>8 DEF Waiting, Passing
    <2> QED
      BY <2>1, <2>2, MovedInOrder DEF q, u
  <1>9. CASE c.what \in {"audit", "media"}
    <2>1. q = IF c.what = "audit" THEN T!AuditArrives(u, c, rest) ELSE T!Resume(u, c)
      BY <1>9 DEF T!Arrives
    <2>2. Waiting(u)
      BY <1>2, <1>9 DEF Waiting
    <2> HIDE DEF q
    <2>3. c.opens # None => Coming(u) = {}
      BY <1>1 DEF Arrived, Brings
    <2>4. Moves(u, q, c.poll)
      BY <1>1, <1>3, <1>9, <2>1, <2>3, AuditArrivesDoes, ResumeDoes
    <2> QED
      BY <1>2, <1>3, <2>2, <2>4, MovedInOrder DEF q, u
  <1> QED
    BY <1>3, <1>4, <1>5, <1>6, <1>7, <1>8, <1>9 DEF Asked, Passing

(* The server has answered a call, or has refused it. *)
LEMMA ReplacedDoes ==
    ASSUME NEW p, Orderly(p), NEW c \in p.calls, NEW e, CallShaped(e),
           e.what = c.what, e.to = c.to, e.poll = c.poll, e.opens = c.opens
    PROVE  Orderly([p EXCEPT !.calls = (@ \ {c}) \cup {e}])
  <1> DEFINE q == [p EXCEPT !.calls = (@ \ {c}) \cup {e}]
             f == [d \in p.calls |-> IF d = c THEN e ELSE d]
  <1>1. Fits(p) /\ Waiting(p) /\ Polls(p)
    BY DEF Orderly
  <1>2. Alters(p, q, {"calls"}) /\ q.calls = (p.calls \ {c}) \cup {e}
    BY <1>1 DEF Fits, PageShaped, Alters, PageFields
  <1> HIDE DEF q
  <1>3. \A d \in p.calls : /\ f[d] \in q.calls /\ CallShaped(f[d])
                           /\ f[d].what = d.what /\ f[d].to = d.to /\ f[d].poll = d.poll /\ f[d].opens = d.opens
    BY <1>1, <1>2 DEF Fits, PageShaped
  <1>4. \A d \in q.calls : \E x \in p.calls : d = f[x]
    BY <1>2
  <1> HIDE DEF f
  <1>5. q.held = p.held /\ q.audited = p.audited /\ Alters(p, q, {"calls", "held", "audited", "streaming"})
    BY <1>2 DEF Alters, PageFields
  <1>6. Maps(p, q, p.calls, f) /\ Lasting(p, p.calls)
    BY <1>3, <1>4, <1>5 DEF Maps, Lasting
  <1>7. Fits(q) /\ Keeps(p, q)
    BY <1>1, <1>6, MappedFit
  <1>8. Moves(p, q, FALSE)
    BY <1>7, KeepsMoves
  <1> QED
    BY <1>1, <1>8, MovedInOrder DEF q

LEMMA ServeOnPage ==
    ASSUME T!Parameters, ThreadsInv, NEW c \in page.calls, T!Serve(c)
    PROVE  Orderly(page')
  <1>1. Orderly(page) /\ CallShaped(c)
    BY DEF ThreadsInv, Orderly, Fits, PageShaped
  <1>2. ASSUME NEW e, e = [c EXCEPT !.got = "error"] \/ (e = [c EXCEPT !.got = "ok", !.list = T!Reads(c)])
        PROVE  /\ CallShaped(e) /\ e.what = c.what /\ e.to = c.to /\ e.poll = c.poll /\ e.opens = c.opens
    <2>1. DOMAIN e = CallFields /\ e.what = c.what /\ e.to = c.to /\ e.poll = c.poll /\ e.opens = c.opens
          /\ e.list \in {c.list, T!Reads(c)}
      BY <1>1, <1>2 DEF CallShaped, CallFields
    <2>2. c.what = "active" => T!Reads(c) \subseteq Run
      BY DEF T!Reads
    <2> QED
      BY <1>1, <2>1, <2>2 DEF CallShaped
  <1>3. \/ page' = [page EXCEPT !.calls = (@ \ {c}) \cup {[c EXCEPT !.got = "error"]}]
        \/ page' = [page EXCEPT !.calls = (@ \ {c}) \cup {[c EXCEPT !.got = "ok", !.list = T!Reads(c)]}]
    BY DEF T!Serve
  <1>4. PICK e : /\ e = [c EXCEPT !.got = "error"] \/ (e = [c EXCEPT !.got = "ok", !.list = T!Reads(c)])
                 /\ page' = [page EXCEPT !.calls = (@ \ {c}) \cup {e}]
    BY <1>3
  <1>5. CallShaped(e) /\ e.what = c.what /\ e.to = c.to /\ e.poll = c.poll /\ e.opens = c.opens
    BY <1>2, <1>4
  <1>6. Orderly([page EXCEPT !.calls = (@ \ {c}) \cup {e}])
    BY <1>1, <1>5, ReplacedDoes
  <1> QED
    BY <1>4, <1>6

LEMMA DropOnPage ==
    ASSUME T!Parameters, ThreadsInv, T!Drop
    PROVE  Orderly(page')
  <1> DEFINE S == {d \in page.calls : d.what # "subscribe"}
             f == [c \in S |-> [c EXCEPT !.got = "rejected", !.list = {}]]
             C == {f[c] : c \in S}
             u == [page EXCEPT !.calls = C]
             w == [page EXCEPT !.conn = "reconnecting", !.streaming = FALSE, !.calls = C]
  <1>1. Fits(page) /\ OthersWait(page) /\ DOMAIN page = PageFields /\ page.hidden \in BOOLEAN /\ page.timer \in BOOLEAN
    BY DEF ThreadsInv, Orderly, Waiting, Fits, PageShaped
  <1>2. page' = T!Watched(w)
    BY DEF T!Drop
  <1>3. \A c \in S : /\ CallShaped(f[c]) /\ f[c].what = c.what /\ f[c].to = c.to /\ f[c].poll = c.poll
                     /\ f[c].opens = c.opens
    BY <1>1 DEF Fits, PageShaped, CallShaped, CallFields
  <1>4. Lasting(page, S)
    BY <1>1 DEF Lasting, Fits, PageShaped, CallShaped
  <1> HIDE DEF f
  <1>5. Alters(page, u, {"calls"}) /\ u.calls = C
    BY <1>1 DEF Alters, PageFields
  <1>6. Alters(u, w, {"conn", "streaming"}) /\ w.conn = "reconnecting" /\ w.hidden = page.hidden /\ w.timer = page.timer
        /\ w.halting = u.halting
    BY <1>1 DEF Alters, PageFields
  <1> HIDE DEF u, w
  <1>7. u.held = page.held /\ u.audited = page.audited /\ Alters(page, u, {"calls", "held", "audited", "streaming"}) /\ S \subseteq page.calls
    BY <1>5 DEF Alters, PageFields
  <1>8. Maps(page, u, S, f)
    BY <1>3, <1>5, <1>7 DEF Maps
  <1> HIDE DEF S
  <1>9. Fits(u) /\ OthersWait(u)
    BY <1>1, <1>4, <1>8, MappedFit, KeepsWaiting
  <1>10. Alters(u, w, {"conn", "streaming", "hidden", "timer", "halting"})
    BY <1>6 DEF Alters
  <1>11. Fits(w) /\ OthersWait(w)
    BY <1>1, <1>6, <1>9, <1>10, ApartDoes
  <1> QED
    BY <1>2, <1>11, WatchedDoes

LEMMA ConnectionOnPage ==
    ASSUME T!Parameters, ThreadsInv, T!Reconnect \/ T!GiveUp
    PROVE  Orderly(page')
  <1>1. Fits(page) /\ OthersWait(page) /\ DOMAIN page = PageFields /\ page.hidden \in BOOLEAN /\ page.timer \in BOOLEAN
    BY DEF ThreadsInv, Orderly, Waiting, Fits, PageShaped
  <1>2. ASSUME NEW conn \in {"authenticated", "offline"}, NEW u, u = [page EXCEPT !.conn = conn]
        PROVE  Fits(u) /\ OthersWait(u)
    <2>1. /\ Alters(page, u, {"conn", "streaming", "hidden", "timer", "halting"})
          /\ u.conn = conn /\ u.hidden = page.hidden /\ u.timer = page.timer /\ u.halting = page.halting
      BY <1>1, <1>2 DEF Alters, PageFields
    <2> QED
      BY <1>1, <2>1, ApartDoes
  <1>3. CASE T!GiveUp
    <2> DEFINE u == [page EXCEPT !.conn = "offline"]
    <2>1. page' = T!Watched(u)
      BY <1>3 DEF T!GiveUp, T!Changes
    <2>2. Fits(u) /\ OthersWait(u)
      BY <1>2
    <2> HIDE DEF u
    <2> QED
      BY <2>1, <2>2, WatchedDoes
  <1>4. CASE T!Reconnect
    <2> DEFINE u == [page EXCEPT !.conn = "authenticated"]
               v == T!Subscribe(u)
    <2>1. page' \in {T!Watched(u), T!Watched(v)}
      BY <1>4 DEF T!Reconnect, T!Changes
    <2>2. Fits(u) /\ OthersWait(u)
      BY <1>2
    <2> HIDE DEF u
    <2>3. Fits(v) /\ OthersWait(v)
      BY <2>2, SubscribeDoes, KeepsWaiting
    <2> HIDE DEF v
    <2> QED
      BY <2>1, <2>2, <2>3, WatchedDoes
  <1> QED
    BY <1>3, <1>4

(* Handlers that open the drawer, or go where the route leads.             *)
LEMMA OpeningOnPage ==
    ASSUME T!Parameters, ThreadsInv,
           \/ T!ListAgain
           \/ \E r \in Run : T!Open(r) \/ T!SelectRun(r)
           \/ \E t \in Thread : T!Inspect(t)
           \/ \E route \in Followed : T!Follow(route)
    PROVE  Orderly(page')
  <1> DEFINE u == T!Begin(page)
  <1>1. Fits(page) /\ Waiting(page) /\ OthersWait(page) /\ Polls(page)
    BY DEF ThreadsInv, Orderly, Waiting
  <1>2. Fits(u) /\ Coming(u) = {} /\ Keeps(page, u)
    BY <1>1, BeginDoes
  <1> HIDE DEF u
  <1>3. ASSUME NEW q, Fits(q), Keeps(page, q)
        PROVE  Orderly(q)
    BY <1>1, <1>3, KeepsMoves, MovedInOrder
  <1>4. CASE T!ListAgain
    <2>1. page' = T!RefreshList(page)
      BY <1>4 DEF T!ListAgain, T!Changes
    <2> QED
      BY <1>1, <2>1, RefreshListDoes DEF Orderly, Waiting
  <1>5. ASSUME NEW r \in Run, T!Open(r) \/ T!SelectRun(r)
        PROVE  Orderly(page')
    <2>1. page' = T!Monitor(u, r)
      BY <1>5 DEF T!Open, T!SelectRun, T!Changes, u
    <2>2. Fits(T!Monitor(u, r)) /\ Keeps(page, T!Monitor(u, r))
      BY <1>2, MonitorDoes, KeepsOn
    <2> QED
      BY <1>3, <2>1, <2>2
  <1>6. ASSUME NEW t \in Thread, T!Inspect(t)
        PROVE  Orderly(page')
    <2>1. page' = T!Go(u, T!ToThread(t))
      BY <1>6 DEF T!Inspect, T!Changes, u
    <2>2. Fits(T!Go(u, T!ToThread(t))) /\ Keeps(page, T!Go(u, T!ToThread(t)))
      BY <1>2, GoDoes, KeepsOn
    <2> QED
      BY <1>3, <2>1, <2>2
  <1>7. ASSUME NEW route \in Followed, T!Follow(route)
        PROVE  Orderly(page')
    <2>1. page' = T!Go(page, route)
      BY <1>7 DEF T!Follow, T!Changes
    <2>2. Fits(T!Go(page, route)) /\ Keeps(page, T!Go(page, route))
      BY <1>1, GoDoes
    <2> QED
      BY <1>3, <2>1, <2>2
  <1> QED
    BY <1>4, <1>5, <1>6, <1>7

(* The drawer closes, or shows a node of its thread. *)
LEMMA ClosingOnPage ==
    ASSUME T!Parameters, ThreadsInv, T!SelectNode \/ T!CloseDrawer
    PROVE  Orderly(page')
  <1>1. Fits(page) /\ Waiting(page) /\ Polls(page)
    BY DEF ThreadsInv, Orderly
  <1>2. ASSUME NEW q, Fits(q), Keeps(page, q)
        PROVE  Orderly(q)
    BY <1>1, <1>2, KeepsMoves, MovedInOrder
  <1>3. Fits(T!Begin(page)) /\ Coming(T!Begin(page)) = {} /\ Keeps(page, T!Begin(page))
    BY <1>1, BeginDoes
  <1>4. CASE T!SelectNode
    <2>1. PICK b : b \in {page, T!Begin(page)} /\ page' = [T!Clear(b) EXCEPT !.node = TRUE]
      BY <1>4 DEF T!SelectNode, T!Changes
    <2> DEFINE u == T!Clear(b)
               q == [u EXCEPT !.node = TRUE]
    <2>2. Fits(b) /\ Keeps(page, b)
      BY <1>1, <1>3, <2>1 DEF Keeps, Alters, Fits, PageShaped
    <2>3. Fits(u) /\ Keeps(page, u) /\ u.monitored = None
      BY <2>2, ClearDoes, KeepsOn
    <2> HIDE DEF u
    <2>4. Alters(u, q, {"node"}) /\ q.node = TRUE
      BY <2>3 DEF Fits, PageShaped, Alters, PageFields
    <2> HIDE DEF q
    <2>5. \A k \in PageFields \ {"node"} : q[k] = u[k]
      BY <2>4 DEF Alters
    <2>6. PageShaped(q) /\ OneThing(q)
      BY <2>3, <2>4, <2>5 DEF Fits, PageShaped, OneThing, Alters, PageFields
    <2>7. \A c \in q.calls : CallFits(q, c)
      BY <2>3, <2>5 DEF Fits, CallFits, PageFields
    <2>8. DrawerAgrees(q)
      BY <2>3, <2>5 DEF Fits, DrawerAgrees, PageFields
    <2>9. Fits(q) /\ Keeps(u, q)
      BY <2>4, <2>5, <2>6, <2>7, <2>8 DEF Fits, Keeps, Alters, PageFields
    <2> QED
      BY <1>2, <2>1, <2>3, <2>9, KeepsOn DEF q, u
  <1>5. CASE T!CloseDrawer
    <2> DEFINE u == T!Clear(T!Begin(page))
               q == [u EXCEPT !.visible = FALSE, !.detail = None, !.node = FALSE]
    <2>1. page' \in {q, T!Go(q, T!Home)}
      BY <1>5 DEF T!CloseDrawer, T!Changes
    <2>2. Fits(u) /\ Keeps(page, u) /\ u.monitored = None /\ Coming(u) = {}
      BY <1>3, ClearDoes, KeepsOn
    <2> HIDE DEF u
    <2>3. Alters(u, q, {"visible", "detail", "node"}) /\ q.visible = FALSE /\ q.detail = None /\ q.node = FALSE
      BY <2>2 DEF Fits, PageShaped, Alters, PageFields
    <2> HIDE DEF q
    <2>4. \A k \in PageFields \ {"visible", "detail", "node"} : q[k] = u[k]
      BY <2>3 DEF Alters
    <2>5. PageShaped(q) /\ OneThing(q)
      BY <2>2, <2>3, <2>4 DEF Fits, PageShaped, OneThing, Alters, PageFields
    <2>6. \A c \in q.calls : CallFits(q, c)
      BY <2>2, <2>4 DEF CallFits, Coming, Brings, PageFields
    <2>7. DrawerAgrees(q)
      BY <2>2, <2>3, <2>4 DEF Fits, DrawerAgrees, PageFields
    <2>8. Fits(q) /\ Keeps(u, q)
      BY <2>3, <2>4, <2>5, <2>6, <2>7 DEF Fits, Keeps, Alters, PageFields
    <2>9. Fits(q) /\ Keeps(page, q)
      BY <2>2, <2>8, KeepsOn
    <2>10. Fits(T!Go(q, T!Home)) /\ Keeps(page, T!Go(q, T!Home))
      BY <2>9, GoDoes, KeepsOn
    <2> QED
      BY <1>2, <2>1, <2>9, <2>10
  <1> QED
    BY <1>4, <1>5

LEMMA HaltOnPage ==
    ASSUME T!Parameters, ThreadsInv, NEW r, T!Halt(r)
    PROVE  Orderly(page')
  <1> DEFINE u == [page EXCEPT !.halting = r]
             q == T!Call(u, T!Request("halt", r))
  <1>1. Fits(page) /\ ListWaits(page) /\ OthersWait(page) /\ Polls(page)
        /\ DOMAIN page = PageFields /\ page.conn \in {"authenticated", "reconnecting", "offline"}
        /\ page.hidden \in BOOLEAN /\ page.timer \in BOOLEAN
    BY DEF ThreadsInv, Orderly, Waiting, Fits, PageShaped
  <1>2. page' = q
    BY DEF T!Halt, T!Changes
  <1>3. Alters(page, u, {"halting"}) /\ u.conn = page.conn /\ u.hidden = page.hidden /\ u.timer = page.timer
    BY <1>1 DEF Alters, PageFields
  <1> HIDE DEF u
  <1>4. Fits(u)
    <2>1. Alters(page, u, {"conn", "streaming", "hidden", "timer", "halting"})
      BY <1>3 DEF Alters
    <2> QED
      BY <1>1, <1>3, <2>1, ApartDoes
  <1>5. \A k \in PageFields \ {"halting"} : u[k] = page[k]
    BY <1>3 DEF Alters
  <1>6. ListWaits(u) /\ Polls(u) /\ (u.finalizing # None => \E c \in u.calls : c.what = "final" /\ c.to = u.finalizing)
    BY <1>1, <1>5 DEF ListWaits, OthersWait, Polls, T!Live, PageFields
  <1>7. Fits(q) /\ Keeps(u, q) /\ \E c \in q.calls : c.what = "halt"
    BY <1>4, AskDoes DEF Asked
  <1> HIDE DEF q
  <1>8. Moves(u, q, FALSE)
    BY <1>7, KeepsMoves
  <1>9. OthersWait(q)
    <2>1. q.finalizing = u.finalizing
      BY <1>7 DEF Keeps, Alters, PageFields
    <2>2. \A c \in u.calls : c.what = "final" => \E d \in q.calls : d.what = c.what /\ d.to = c.to
      BY <1>7 DEF Keeps
    <2> QED
      BY <1>6, <1>7, <2>1, <2>2 DEF OthersWait
  <1> QED
    BY <1>2, <1>6, <1>8, <1>9 DEF Orderly, Moves, Waiting

(* The page is hidden or shown, and polls when its timer fires.            *)
LEMMA PollingOnPage ==
    ASSUME T!Parameters, ThreadsInv, T!HidePage \/ T!ShowPage \/ T!TimerFires
    PROVE  Orderly(page')
  <1>1. Fits(page) /\ ListWaits(page) /\ OthersWait(page)
        /\ DOMAIN page = PageFields /\ page.conn \in {"authenticated", "reconnecting", "offline"}
        /\ page.hidden \in BOOLEAN /\ page.timer \in BOOLEAN
    BY DEF ThreadsInv, Orderly, Waiting, Fits, PageShaped
  <1>2. ASSUME NEW u, Alters(page, u, {"hidden", "timer"}), u.hidden \in BOOLEAN, u.timer \in BOOLEAN
        PROVE  Fits(u) /\ Waiting(u)
    <2>1. /\ Alters(page, u, {"conn", "streaming", "hidden", "timer", "halting"})
          /\ u.conn = page.conn /\ u.halting = page.halting /\ u.listing = page.listing /\ u.calls = page.calls
      BY <1>2 DEF Alters, PageFields
    <2>2. Fits(u) /\ OthersWait(u)
      BY <1>1, <1>2, <2>1, ApartDoes
    <2> QED
      BY <1>1, <2>1, <2>2 DEF Waiting, ListWaits
  <1>3. CASE T!HidePage
    <2>1. page' = [page EXCEPT !.hidden = TRUE, !.timer = FALSE]
      BY <1>3 DEF T!HidePage
    <2>2. Alters(page, page', {"hidden", "timer"}) /\ page'.hidden = TRUE /\ page'.timer = FALSE
      BY <1>1, <2>1 DEF Alters, PageFields
    <2>3. Fits(page') /\ Waiting(page')
      BY <1>2, <2>2
    <2> QED
      BY <2>2, <2>3 DEF Orderly, Polls
  <1>4. CASE T!ShowPage
    <2> DEFINE u == [page EXCEPT !.hidden = FALSE]
    <2>1. page' = T!Poll(u)
      BY <1>4 DEF T!ShowPage, T!Changes
    <2>2. Alters(page, u, {"hidden", "timer"}) /\ u.hidden = FALSE /\ u.timer = page.timer
      BY <1>1 DEF Alters, PageFields
    <2> HIDE DEF u
    <2> QED
      BY <1>1, <1>2, <2>1, <2>2, PollDoes
  <1>5. CASE T!TimerFires
    <2> DEFINE u == [page EXCEPT !.timer = FALSE]
    <2>1. page' = T!Poll(u)
      BY <1>5 DEF T!TimerFires, T!Changes
    <2>2. Alters(page, u, {"hidden", "timer"}) /\ u.timer = FALSE /\ u.hidden = page.hidden
      BY <1>1 DEF Alters, PageFields
    <2> HIDE DEF u
    <2> QED
      BY <1>1, <1>2, <2>1, <2>2, PollDoes
  <1> QED
    BY <1>3, <1>4, <1>5

LEMMA RecordOnPage ==
    ASSUME ThreadsInv, NEW r, T!Record(r)
    PROVE  Orderly(page')
  <1>1. Orderly(page) /\ Fits(page) /\ Waiting(page) /\ Polls(page)
    BY DEF ThreadsInv, Orderly
  <1>2. CASE r = page.monitored
    <2> DEFINE q == [page EXCEPT !.audited = @ \cup {r}]
    <2>1. page' = q
      BY <1>2 DEF T!Record, T!Changes
    <2>2. Alters(page, q, {"audited"}) /\ q.audited = page.audited \cup {r}
      BY <1>1 DEF Fits, PageShaped, Alters, PageFields
    <2> HIDE DEF q
    <2>3. \A k \in PageFields \ {"audited"} : q[k] = page[k]
      BY <2>2 DEF Alters
    <2>4. Fits(q) /\ Keeps(page, q)
      BY <1>1, <1>2, <2>2, <2>3 DEF Fits, PageShaped, OneThing, CallFits, DrawerAgrees, Keeps, Alters, PageFields
    <2> QED
      BY <1>1, <2>1, <2>4, KeepsMoves, MovedInOrder
  <1>3. CASE r # page.monitored
    BY <1>1, <1>3 DEF T!Record, T!Changes
  <1> QED
    BY <1>2, <1>3

(* The page opens on any of the routes. *)
LEMMA OpenedInOrder ==
    ASSUME T!Parameters, T!Init
    PROVE  ThreadsInv
  <1>1. PICK route \in Followed : page = T!Watched(T!Opened(route))
    BY DEF T!Init, T!Watched
  <1> DEFINE u == T!Opened(route)
  <1>2. /\ DOMAIN u = PageFields /\ u.conn = "authenticated" /\ u.running = {} /\ u.visible = FALSE /\ u.node = FALSE
        /\ u.held = FALSE /\ u.hidden = FALSE /\ u.timer = FALSE /\ u.listing = TRUE /\ u.calls = {}
        /\ u.audited = {} /\ u.monitored = None /\ u.detail = None /\ u.halting = None /\ u.finalizing = None
    BY DEF T!Opened, PageFields
  <1> HIDE DEF u
  <1>3. Fits(u) /\ OthersWait(u)
    BY <1>2 DEF Fits, PageShaped, OneThing, DrawerAgrees, OthersWait
  <1> QED
    BY <1>1, <1>3, WatchedDoes DEF ThreadsInv, u

LEMMA NextInOrder ==
    ASSUME T!Parameters, ThreadsInv, [T!Next]_(T!vars)
    PROVE  ThreadsInv'
  <1>1. ThreadsInv' <=> Orderly(page')
    BY DEF ThreadsInv, Orderly, Fits, PageShaped, OneThing, CallFits, DrawerAgrees, Waiting, ListWaits, OthersWait, Polls
  <1>2. CASE T!User \/ T!TimerFires
    BY <1>1, <1>2, OpeningOnPage, ClosingOnPage, HaltOnPage, PollingOnPage DEF T!User
  <1>3. CASE T!Drop \/ T!Reconnect \/ T!GiveUp
    BY <1>1, <1>3, DropOnPage, ConnectionOnPage
  <1>4. ASSUME NEW c \in page.calls, T!Serve(c)
        PROVE  Orderly(page')
    BY <1>4, ServeOnPage
  <1>5. ASSUME NEW c \in page.calls, T!Answer(c)
        PROVE  Orderly(page')
    <2>1. \E rest \in T!RestOf(c) : page' = T!Arrives([page EXCEPT !.calls = @ \ {c}], c, rest)
      BY <1>5 DEF T!Answer, T!Changes
    <2>2. T!RestOf(c) \subseteq T!Rest
      BY DEF T!RestOf, T!Rest
    <2> QED
      BY <2>1, <2>2, AnswerDoes DEF ThreadsInv
  <1>6. ASSUME NEW r \in Run, T!Record(r)
        PROVE  Orderly(page')
    BY <1>6, RecordOnPage
  <1>7. CASE page' = page
    BY <1>7 DEF ThreadsInv
  <1>8. (\E r \in Run : T!Starts(r) \/ T!Ends(r)) \/ UNCHANGED T!vars => page' = page
    BY DEF T!Starts, T!Ends, T!vars
  <1> QED
    BY <1>1, <1>2, <1>3, <1>4, <1>5, <1>6, <1>7, <1>8 DEF T!Next

(* The threads page is in order in every state: the calls under way fit    *)
(* the drawer that awaits them, one thing at most is on its way to it, and *)
(* every control that waits, and the next poll, has a call to wait for.    *)
THEOREM ThreadsInvariance ==
    ASSUME T!Parameters
    PROVE  T!Spec => []ThreadsInv
  <1>1. T!Init => ThreadsInv
    BY OpenedInOrder
  <1>2. ThreadsInv /\ [T!Next]_(T!vars) => ThreadsInv'
    BY NextInOrder
  <1> QED
    BY <1>1, <1>2, PTL DEF T!Spec

(* A run is followed with its own records, in its own thread, and without  *)
(* a node selected; statistics are those of the thread shown, whatever     *)
(* order the answers came in (useLatest and selectionToken of              *)
(* useThreadInspector.ts and useActiveThreads.ts).                         *)
THEOREM DrawersShowOneThing ==
    ASSUME T!Parameters
    PROVE  T!Spec => []DrawerShowsOneThing
  <1>1. ThreadsInv => DrawerShowsOneThing
    BY DEF ThreadsInv, Orderly, Fits, DrawerAgrees, DrawerShowsOneThing, ParentThread, T!ParentThread
  <1> QED
    BY <1>1, ThreadsInvariance, PTL

(* However refreshes overtake each other, and fail, a visible page that is *)
(* connected has its next poll ahead (poll of useActiveThreads.ts).        *)
THEOREM PollingGoesOn ==
    ASSUME T!Parameters
    PROVE  T!Spec => []PollingContinues
  <1>1. ThreadsInv => PollingContinues
    BY DEF ThreadsInv, Orderly, Polls, PollingContinues, Live, T!Live
  <1> QED
    BY <1>1, ThreadsInvariance, PTL

(* The list, the halt button and the page itself, for the thread of a run  *)
(* that has ended, wait only for calls that are under way, also after the  *)
(* connection was lost (useThreadList.ts, useActiveThreads.ts).            *)
THEOREM ControlsAreSettled ==
    ASSUME T!Parameters
    PROVE  T!Spec => []ControlsSettle
  <1>1. ThreadsInv => ControlsSettle
    BY DEF ThreadsInv, Orderly, Waiting, ListWaits, OthersWait, ControlsSettle
  <1> QED
    BY <1>1, ThreadsInvariance, PTL
=============================================================================
