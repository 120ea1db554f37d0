----------------------------- MODULE Scheduler -----------------------------
(***************************************************************************)
(* The message scheduler (Bot.Scheduler.Interpreter, Bot.Scheduler.State   *)
(* and Bot.Storage.Scheduler): a table of scheduled messages, the map and  *)
(* the due-time index that mirror it in memory under one MVar, the worker  *)
(* that moves what is due into a bounded queue and sleeps until the next   *)
(* due time or a wake-up, and the receiver that links the head of the      *)
(* queue to its source thread and hands it to the dispatcher.              *)
(*                                                                         *)
(* Critical sections of schedulerStateVar are single steps: they write the *)
(* table and then the memory, and a crash between the two loses only the   *)
(* memory.  What happens outside them (the wake-up after a commit, the     *)
(* writes to the queue, the sleep, the preparation) interleaves freely.    *)
(*                                                                         *)
(* Messages are identified by their schedule id; owners are left out, so   *)
(* Delete stands for the owner's and for the administrator's call alike.   *)
(***************************************************************************)
EXTENDS Integers, Sequences, FiniteSets

CONSTANTS MaxId,      \* bound: calls that schedule a message
          MaxTime,    \* bound: the last second of the clock
          MaxFault,   \* bound: crashes, storage failures and cancelled callers
          Delays,     \* the delays callers ask for, in seconds
          LockWait,   \* bound: seconds a caller waits for the lock
          Capacity    \* scheduledMessageQueueCapacity (1024 in the code)

ASSUME BoundsAssumption ==
    /\ MaxId \in Nat /\ MaxTime \in Nat /\ MaxFault \in Nat /\ LockWait \in Nat
    /\ Delays \subseteq Nat
    /\ Capacity \in Nat \ {0}

VARIABLES
    clock,      \* Unix time in seconds
    rows,       \* table scheduled_messages: id -> [due, every]
    asked,      \* the interval each row was inserted with, in the order of the
                \* ids; its length is the table's AUTOINCREMENT counter
    pending,    \* SchedulerState.pendingById
    dues,       \* SchedulerState.pendingByDue
    wake,       \* schedulerWake holds a ()
    unsignalled,\* calls that committed and have not signalled yet
    abandoned,  \* such a call was cancelled, and the worker has not looked since
    queue,      \* the TBQueue of pending messages
    worker,     \* schedulerWorker
    receiver,   \* the thread inside ReceiveScheduledMessage
    delivered,  \* how often each message was handed to the dispatcher
    deleted,    \* schedules whose deletion answered True
    faults

vars == <<clock, rows, asked, pending, dues, wake, unsignalled, abandoned,
          queue, worker, receiver, delivered, deleted, faults>>

memory == <<rows, pending, dues>>

Id == 1 .. MaxId

(* every = 0 is a one-shot message (recurringIntervalSeconds = Nothing). *)
Schedule == [due : Nat, every : Nat]
Pending  == [id : Id, due : Nat, every : Nat]

Greatest(a, b) == IF a >= b THEN a ELSE b

Put(f, i, v)  == [j \in DOMAIN f \cup {i} |-> IF j = i THEN v ELSE f[j]]
Without(f, S) == [j \in DOMAIN f \ S |-> f[j]]

(* schedulerStateFromStoredMessages: the index of what the table holds. *)
DueOf(table, i) == [due |-> table[i].due, id |-> i]
IndexAhead(table) == \* mutant: what elapsed meanwhile is not indexed
    {DueOf(table, i) : i \in {j \in DOMAIN table : table[j].due > clock}}
IndexOf(table) == {DueOf(table, i) : i \in DOMAIN table}

Message(i) == [id |-> i, due |-> pending[i].due, every |-> pending[i].every]

----------------------------------------------------------------------------
(* A process that starts over what the table holds. *)

Asleep == [at |-> "drain", now |-> 0, batch |-> <<>>, slept |-> 0, alarm |-> {}]
Idle   == [at |-> "peek", active |-> FALSE]

Init ==
    /\ clock = 0
    /\ rows = <<>> /\ pending = <<>> /\ dues = {}
    /\ asked = <<>>
    /\ wake = FALSE /\ unsignalled = 0 /\ abandoned = FALSE
    /\ queue = <<>>
    /\ worker = Asleep
    /\ receiver = Idle
    /\ delivered = [i \in Id |-> 0]
    /\ deleted = {}
    /\ faults = 0

Fault == faults < MaxFault /\ faults' = faults + 1

----------------------------------------------------------------------------
(* Callers: an agent's schedule tool, the RPC handlers. *)

(* scheduleOneShotMessage and scheduleRecurringMessage: the row is         *)
(* inserted and remembered; the worker is woken in a later step.  The      *)
(* clock was read before the lock was waited for.                          *)
AddSchedule(now, delay, every) ==
    LET i == Len(asked) + 1
        s == [due |-> now + delay, every |-> every]
    IN  /\ i \in Id
        /\ asked' = Append(asked, every)
        /\ rows' = Put(rows, i, s)
        /\ pending' = Put(pending, i, s)
        /\ dues' = dues \cup {[due |-> s.due, id |-> i]}
        /\ unsignalled' = unsignalled + 1
        /\ UNCHANGED <<clock, wake, abandoned, queue, worker, receiver,
                       delivered, deleted, faults>>

ScheduleMessage ==
    \E delay \in Delays, now \in Greatest(0, clock - LockWait) .. clock :
        \/ AddSchedule(now, delay, 0)
        \/ AddSchedule(now, delay, Greatest(1, delay))

(* deletePendingMessageByIdFromState with the row, under the lock. *)
EraseFromMemory(i) ==
    /\ pending' = Without(pending, {i})
    /\ dues' = dues \ {DueOf(pending, i)}

\* mutant: the row is kept
EraseMemoryOnly(i) == EraseFromMemory(i) /\ UNCHANGED rows

Erase(i) == EraseFromMemory(i) /\ rows' = Without(rows, {i})

DeleteScheduledMessage(i) ==
    /\ i \in DOMAIN pending
    /\ Erase(i)
    /\ deleted' = deleted \cup {i}
    /\ unsignalled' = unsignalled + 1
    /\ UNCHANGED <<clock, asked, wake, abandoned, queue, worker, receiver,
                   delivered, faults>>

(* signalSchedulerWake: tryPutMVar leaves a () whoever waits for it. *)
TryPut == TRUE

SignalWake ==
    /\ unsignalled > 0
    /\ unsignalled' = unsignalled - 1
    /\ wake' = TryPut
    /\ abandoned' = FALSE
    /\ UNCHANGED <<clock, memory, asked, queue, worker, receiver, delivered,
                   deleted, faults>>

(* The caller is cancelled as it leaves the masked critical section: the   *)
(* message stays scheduled, the worker is not told.                        *)
CancelCaller ==
    /\ unsignalled > 0
    /\ Fault
    /\ unsignalled' = unsignalled - 1
    /\ abandoned' = TRUE
    /\ UNCHANGED <<clock, memory, asked, wake, queue, worker, receiver,
                   delivered, deleted>>

----------------------------------------------------------------------------
(* schedulerWorker: one pass of the loop is Drain, Pop, Enqueue for each   *)
(* popped message, NextDueAt, Sleep and Wake.                              *)

(* drainSchedulerWake, then the next pass reads the clock. *)
Drain ==
    /\ worker.at = "drain"
    /\ wake' = FALSE
    /\ worker' = [worker EXCEPT !.at = "pop", !.now = clock]
    /\ UNCHANGED <<clock, memory, asked, unsignalled, abandoned, queue,
                   receiver, delivered, deleted, faults>>

(* nextOccurrence: counted from now, so a missed one is not made up for. *)
NextDue(s, now) == now + Greatest(1, s.every)

Expired(now) ==
    {i \in DOMAIN pending : \E d \in dues : d.id = i /\ d.due <= now}

Recurring(S) == {i \in S : pending[i].every > 0}

Rescheduled(table, S, now) ==
    [i \in DOMAIN table |->
        IF i \in S THEN [table[i] EXCEPT !.due = NextDue(table[i], now)] ELSE table[i]]

(* The order of Set.minView: by due time, then by id. *)
Before(i, j) == \/ pending[i].due < pending[j].due
                \/ pending[i].due = pending[j].due /\ i < j

InOrder(S) ==
    LET Rank(i) == Cardinality({j \in S : Before(j, i)}) + 1
    IN  [k \in 1 .. Cardinality(S) |-> Message(CHOOSE i \in S : Rank(i) = k)]

(* Set.minView goes on while the least due time is not after now. *)
RemainingAtNow(now) == {d \in dues : d.due >= now} \* mutant: off by one
Remaining(now) == {d \in dues : d.due > now}

(* popDueMessages: recurring rows are rescheduled in one transaction, then *)
(* the memory; one-shot messages stay pending until they are acknowledged. *)
Pop ==
    LET due  == Expired(worker.now)
        next == Rescheduled(pending, Recurring(due), worker.now)
    IN  /\ worker.at = "pop"
        /\ worker' = [worker EXCEPT !.at = "enqueue", !.batch = InOrder(due)]
        /\ rows' = Rescheduled(rows, Recurring(due), worker.now)
        /\ pending' = next
        /\ dues' = Remaining(worker.now)
                     \cup {DueOf(next, i) : i \in Recurring(due)}
        /\ UNCHANGED <<clock, asked, wake, unsignalled, abandoned, queue,
                       receiver, delivered, deleted, faults>>

(* The transaction throws: the state is kept, the worker's thread ends. *)
PopFails ==
    /\ worker.at = "pop"
    /\ Recurring(Expired(worker.now)) # {}
    /\ Fault
    /\ worker' = [worker EXCEPT !.at = "dead"]
    /\ UNCHANGED <<clock, memory, asked, wake, unsignalled, abandoned, queue,
                   receiver, delivered, deleted>>

(* writeTBQueue blocks while the queue is full. *)
Room == Len(queue) < Capacity

Enqueue ==
    /\ worker.at = "enqueue"
    /\ worker.batch # <<>>
    /\ Room
    /\ queue' = Append(queue, Head(worker.batch))
    /\ worker' = [worker EXCEPT !.batch = Tail(@)]
    /\ UNCHANGED <<clock, memory, asked, wake, unsignalled, abandoned,
                   receiver, delivered, deleted, faults>>

(* nextDueAt: no due time, no alarm. *)
NextDueAt ==
    /\ worker.at = "enqueue"
    /\ worker.batch = <<>>
    /\ worker' = [worker EXCEPT !.at = "sleep",
            !.alarm = {d.due : d \in {e \in dues : \A f \in dues : e.due <= f.due}}]
    /\ abandoned' = FALSE
    /\ UNCHANGED <<clock, memory, asked, wake, unsignalled, queue, receiver,
                   delivered, deleted, faults>>

(* waitMicrosecondsUntil: measured from the clock the pass began with. *)
Sleep ==
    /\ worker.at = "sleep"
    /\ worker' = [worker EXCEPT !.at = "wait", !.slept = clock,
            !.alarm = {clock + Greatest(0, due - worker.now) : due \in worker.alarm}]
    /\ UNCHANGED <<clock, memory, asked, wake, unsignalled, abandoned, queue,
                   receiver, delivered, deleted, faults>>

(* takeMVar returns, or the timeout expires (at the end of the bounded     *)
(* clock every alarm has: later seconds are not told apart).               *)
Wake ==
    /\ worker.at = "wait"
    /\ wake \/ \E t \in worker.alarm : t <= clock \/ clock = MaxTime
    /\ wake' = FALSE
    /\ worker' = Asleep
    /\ UNCHANGED <<clock, memory, asked, unsignalled, abandoned, queue,
                   receiver, delivered, deleted, faults>>

----------------------------------------------------------------------------
(* ReceiveScheduledMessage, called again and again by the pump that merges *)
(* scheduled messages into the dispatcher's input.                         *)

Active(i) == i \in DOMAIN pending

Accepted(m) == Active(m.id)

(* receivePendingMessage: a head that was deleted is dropped. *)
Peek ==
    /\ receiver.at = "peek"
    /\ queue # <<>>
    /\ IF Active(Head(queue).id)
       THEN receiver' = [receiver EXCEPT !.at = "prepare"] /\ UNCHANGED queue
       ELSE queue' = Tail(queue) /\ UNCHANGED receiver
    /\ UNCHANGED <<clock, memory, asked, wake, unsignalled, abandoned, worker,
                   delivered, deleted, faults>>

(* linkToSourceThread waits for the run that scheduled the message. *)
Prepare ==
    /\ receiver.at = "prepare"
    /\ receiver' = [receiver EXCEPT !.at = "acknowledge"]
    /\ UNCHANGED <<clock, memory, asked, wake, unsignalled, abandoned, queue,
                   worker, delivered, deleted, faults>>

(* The preparation or the deletion of the row throws (or the wait for the  *)
(* run never ends): head and row are kept, and the pump stops for good.    *)
ReceiveFails ==
    /\ receiver.at \in {"prepare", "acknowledge"}
    /\ Fault
    /\ receiver' = [receiver EXCEPT !.at = "stopped"]
    /\ UNCHANGED <<clock, memory, asked, wake, unsignalled, abandoned, queue,
                   worker, delivered, deleted>>

(* Under mask_: a one-shot message is deleted, which tells whether it was  *)
(* still there; a recurring one is looked up.                              *)
Acknowledge ==
    LET m == Head(queue)
    IN  /\ receiver.at = "acknowledge"
        /\ receiver' = [at |-> "take", active |-> Accepted(m)]
        /\ IF m.every = 0 /\ Accepted(m) THEN Erase(m.id) ELSE UNCHANGED memory
        /\ UNCHANGED <<clock, asked, wake, unsignalled, abandoned, queue,
                       worker, delivered, deleted, faults>>

Take ==
    LET i == Head(queue).id
    IN  /\ receiver.at = "take"
        /\ queue' = Tail(queue)
        /\ receiver' = Idle
        /\ delivered' = IF receiver.active THEN [delivered EXCEPT ![i] = @ + 1]
                                           ELSE delivered
        /\ UNCHANGED <<clock, memory, asked, wake, unsignalled, abandoned,
                       worker, deleted, faults>>

----------------------------------------------------------------------------
(* The environment. *)

Tick ==
    /\ clock < MaxTime
    /\ clock' = clock + 1
    /\ UNCHANGED <<memory, asked, wake, unsignalled, abandoned, queue, worker,
                   receiver, delivered, deleted, faults>>

(* The process dies and starts again: loadScheduledMessages. *)
Crash ==
    /\ Fault
    /\ pending' = rows
    /\ dues' = IndexOf(rows)
    /\ wake' = FALSE /\ unsignalled' = 0 /\ abandoned' = FALSE
    /\ queue' = <<>>
    /\ worker' = Asleep
    /\ receiver' = Idle
    /\ UNCHANGED <<clock, rows, asked, delivered, deleted>>

Call     == ScheduleMessage \/ (\E i \in Id : DeleteScheduledMessage(i))
Work     == Drain \/ Pop \/ Enqueue \/ NextDueAt \/ Sleep \/ Wake
Receive  == Peek \/ Prepare \/ Acknowledge \/ Take

Next == Call \/ SignalWake \/ CancelCaller \/ Work \/ PopFails
        \/ Receive \/ ReceiveFails \/ Tick \/ Crash

(* The threads run, a caller that committed goes on to signal unless it is *)
(* cancelled, time passes, and the run a message waits for ends (where it  *)
(* does not, the receiver fails); nobody has to call, nothing has to fail. *)
Spec == Init /\ [][Next]_vars
             /\ WF_vars(Work) /\ WF_vars(Receive)
             /\ WF_vars(SignalWake) /\ WF_vars(Tick)

----------------------------------------------------------------------------
(* Properties. *)

Phase == {"drain", "pop", "enqueue", "sleep", "wait", "dead"}
Stage == {"peek", "prepare", "acknowledge", "take", "stopped"}

(* Type correctness of the table, the memory, the threads and the queue,   *)
(* which never holds more than its capacity.                               *)
TypeOK ==
    /\ clock \in 0 .. MaxTime
    /\ asked \in Seq(Nat) /\ Len(asked) <= MaxId
    /\ DOMAIN rows \subseteq 1 .. Len(asked)
    /\ \A i \in DOMAIN rows : rows[i] \in Schedule
    /\ DOMAIN pending \subseteq 1 .. Len(asked)
    /\ \A i \in DOMAIN pending : pending[i] \in Schedule
    /\ dues \subseteq [due : Nat, id : Id]
    /\ wake \in BOOLEAN /\ unsignalled \in Nat /\ abandoned \in BOOLEAN
    /\ queue \in Seq(Pending) /\ Len(queue) <= Capacity
    /\ worker \in [at : Phase, now : Nat, batch : Seq(Pending), slept : Nat,
                   alarm : SUBSET Nat]
    /\ receiver \in [at : Stage, active : BOOLEAN]
    /\ receiver.at \notin {"peek", "stopped"} => queue # <<>>
    /\ delivered \in [Id -> Nat]
    /\ deleted \subseteq 1 .. Len(asked)
    /\ faults \in 0 .. MaxFault

(* What the worker has popped and the receiver has not taken yet. *)
Underway == queue \o worker.batch

Copies(i) == {k \in DOMAIN Underway : Underway[k].id = i}

(* "storage failures do not commit scheduler memory state"                 *)
(* (SchedulerSpec): memory and table tell the same schedules and due times *)
(* whatever was rescheduled, deleted, acknowledged, reloaded or failed,    *)
(* and no stale due time is left in the index.                             *)
MemoryIsStorage ==
    /\ pending = rows
    /\ dues \subseteq IndexOf(pending)

(* A pending schedule is never forgotten: a recurring one is in the due    *)
(* index, a one-shot message is in exactly one of the index, the worker's  *)
(* batch and the queue until it is acknowledged or deleted.                *)
NoScheduleIsForgotten ==
    \A i \in DOMAIN pending :
        LET indexed == DueOf(pending, i) \in dues
        IN  IF pending[i].every > 0 THEN indexed
            ELSE Cardinality(Copies(i)) = IF indexed THEN 0 ELSE 1

(* A one-shot message is delivered at most once, across crashes and failed *)
(* preparations, and never when a deletion of it answered True.            *)
OneShotsAreSettledOnce ==
    \A i \in DOMAIN asked :
        asked[i] = 0 => delivered[i] + (IF i \in deleted THEN 1 ELSE 0) <= 1

(* Nothing is popped before it is due, and occurrences of a recurring      *)
(* schedule are at least its interval apart: those waiting for a slow      *)
(* receiver, and the next one the table promises, even when the worker or  *)
(* the process was late.                                                   *)
OccurrencesAreTimely ==
    /\ \A k \in DOMAIN Underway : Underway[k].due <= clock
    /\ \A i \in DOMAIN asked : asked[i] > 0 =>
         /\ \A k, l \in Copies(i) :
                k < l => Underway[l].due >= Underway[k].due + asked[i]
         /\ i \in DOMAIN pending =>
                \A k \in Copies(i) : pending[i].due >= Underway[k].due + asked[i]

(* No wake-up is lost: the worker sleeps past a due time only by as much   *)
(* as its own pass was late, unless a wake-up is there, or on its way, or  *)
(* the caller that owed it was cancelled.                                  *)
NoWakeupIsLost ==
    worker.at = "wait" =>
        \/ wake \/ unsignalled > 0 \/ abandoned
        \/ \A d \in dues : \E t \in worker.alarm :
               t <= Greatest(d.due, worker.now) + (worker.slept - worker.now)

(* "deletion during preparation prevents delivery" (SchedulerSpec): a      *)
(* message is accepted for delivery only while its schedule is not         *)
(* deleted, however long ago it was popped or peeked.                      *)
DeletedIsNotAccepted ==
    [][(receiver.at = "acknowledge" /\ receiver'.at = "take" /\ receiver'.active)
         => Head(queue).id \notin deleted]_vars

(* The scheduler has stopped delivering until it is restarted (or, for a   *)
(* lost wake-up, until the next call).                                     *)
Stalled ==
    \/ worker.at = "dead"
    \/ receiver.at = "stopped"
    \/ worker.at = "wait" /\ abandoned

(* A one-shot message that falls due is eventually acknowledged or         *)
(* deleted: no crash loses it while its row is there, unless the scheduler *)
(* is stalled by a failed transaction, a failed preparation or a cancelled *)
(* caller.                                                                 *)
OneShotsAreSettled ==
    \A i \in Id :
        (i \in DOMAIN rows /\ asked[i] = 0 /\ rows[i].due <= MaxTime)
            ~> (i \notin DOMAIN rows \/ Stalled)

=============================================================================
