------------------------- MODULE ConcurrencyManager -------------------------
(***************************************************************************)
(* The worker manager of Bot.Concurrency.Manager together with the         *)
(* structured scopes of Bot.Effect.Concurrency (withWorkerHandle).         *)
(*                                                                         *)
(* Thread 0 is the action runConcurrencyManager runs; threads 1..MaxId are *)
(* the workers it manages.  User code is the environment: it forks, takes  *)
(* scopes, cancels, awaits, returns or fails in any order.  The manager's  *)
(* operations are split at every point where another thread can run, and   *)
(* asynchronous exceptions follow GHC: throwTo blocks until its target is  *)
(* interruptible, is withdrawn when the thrower is itself interrupted, and *)
(* masked code takes an exception only where it blocks.                    *)
(***************************************************************************)
EXTENDS Naturals

CONSTANT MaxId       \* bound on the number of workers ever forked

ASSUME MaxIdAssumption == MaxId \in Nat \ {0}

Main   == 0
Worker == 1 .. MaxId
Thread == 0 .. MaxId

VARIABLES
  nextId,      \* the next handle to allocate
  closing,     \* has closingReason been set?
  runtimes,    \* ids of the registered workers
  history,     \* ids of the retired workers still remembered
  status,      \* status of a registered or remembered worker, else "none"
  pc,          \* what each thread is doing
  call,        \* the manager operation a thread is inside of, and on whom
  scope,       \* workers a thread holds open with withWorkerHandle
  kids,        \* every worker a thread ever held that way   (history variable)
  leaked,      \* workers whose scope exit was interrupted   (history variable)
  snap,        \* shutdown: the workers registered when the manager closed
  toKill       \* shutdown: those of them still to be thrown the exception

entries  == <<closing, runtimes, history, status>>
scopes   == <<scope, kids, leaked>>
shutdown == <<snap, toKill>>
vars     == <<nextId, entries, pc, call, scopes, shutdown>>

Finals == {"Completed", "Failed", "Cancelled"}
Phases == {"unborn", "gate", "body", "cleanup", "ended", "exiting", "dead",
           "close", "mark", "sweep", "done"}
Stages == {"none", "insert", "open", "reject", "rejectWait",
           "mark", "throw", "cancelWait", "await"}
Idle   == [at |-> "none", on |-> {}]

TypeOK ==
  /\ nextId \in 1 .. MaxId + 1
  /\ closing \in BOOLEAN
  /\ runtimes \subseteq Worker
  /\ history \subseteq Worker
  /\ status \in [Worker -> Finals \cup {"none", "Running"}]
  /\ \A w \in Worker : status[w] = "none" <=> w \notin runtimes \cup history
  /\ \A w \in history : status[w] \in Finals
  /\ pc \in [Thread -> Phases]
  /\ call \in [Thread -> [at : Stages, on : SUBSET Worker]]
  /\ scope \in [Thread -> SUBSET Worker]
  /\ kids \in [Thread -> SUBSET Worker]
  /\ leaked \subseteq Worker
  /\ snap \subseteq Worker
  /\ toKill \subseteq Worker

Init ==
  /\ nextId = 1
  /\ closing = FALSE
  /\ runtimes = {} /\ history = {}
  /\ status = [w \in Worker |-> "none"]
  /\ pc = [t \in Thread |-> IF t = Main THEN "body" ELSE "unborn"]
  /\ call = [t \in Thread |-> Idle]
  /\ scope = [t \in Thread |-> {}] /\ kids = [t \in Thread |-> {}]
  /\ leaked = {}
  /\ snap = {} /\ toKill = {}

-----------------------------------------------------------------------------
Finished(w) == status[w] \in Finals
Free(t)     == call[t].at = "none"
Leave(t)    == call' = [call EXCEPT ![t] = Idle]
Enter(t, stage, ws) == call' = [call EXCEPT ![t] = [at |-> stage, on |-> ws]]

\* The first terminal status wins; a worker that left the registry keeps its own.
FinishEntry(w, s) ==
  status' = IF w \in runtimes /\ ~Finished(w)
            THEN [status EXCEPT ![w] = s] ELSE status

\* waitCatch returns when the thread is gone, its cleanup included.
Over(w) == pc[w] = "dead"

-----------------------------------------------------------------------------
(* Forking.                                                                *)

\* The thread of an allocated id starts at its gate.
Fork(t) ==
  /\ nextId <= MaxId
  /\ pc[t] \in {"body", "cleanup"} /\ Free(t)
  /\ nextId' = nextId + 1
  /\ pc' = [pc EXCEPT ![nextId] = "gate"]
  /\ Enter(t, "insert", {nextId})
  /\ UNCHANGED <<entries, scopes, shutdown>>

AdmittingAlways == TRUE      \* mutant: registration ignores closingReason
Admitting == ~closing

InsertRuntime(t) ==
  /\ call[t].at = "insert"
  /\ IF Admitting
     THEN /\ Enter(t, "open", call[t].on)
          /\ runtimes' = runtimes \cup call[t].on
          /\ status' = [w \in Worker |-> IF w \in call[t].on
                                         THEN "Running" ELSE status[w]]
     ELSE Enter(t, "reject", call[t].on) /\ UNCHANGED <<runtimes, status>>
  /\ UNCHANGED <<nextId, closing, history, pc, scopes, shutdown>>

\* The gate opens unless the worker was cancelled while it waited there.  The
\* caller either keeps the bare handle or holds the worker in a scope.
OpenGate(t) ==
  /\ call[t].at = "open"
  /\ pc' = [u \in Thread |-> IF u \in call[t].on /\ pc[u] = "gate"
                             THEN "body" ELSE pc[u]]
  /\ Leave(t)
  /\ \/ UNCHANGED <<scope, kids>>
     \/ /\ pc[t] = "body"
        /\ scope' = [scope EXCEPT ![t] = @ \cup call[t].on]
        /\ kids' = [kids EXCEPT ![t] = @ \cup call[t].on]
  /\ UNCHANGED <<nextId, entries, leaked, shutdown>>

\* A rejected fork rethrows the closing reason once its thread is gone.
RejectReturn(t) ==
  /\ call[t].at \in {"reject", "rejectWait"}
  /\ \A w \in call[t].on : Over(w)
  /\ pc' = [pc EXCEPT ![t] = "cleanup"]
  /\ Leave(t)
  /\ UNCHANGED <<nextId, entries, scopes, shutdown>>

-----------------------------------------------------------------------------
(* Cancelling and awaiting.                                                *)

\* cancelIn reads the registry; an absent or finished worker needs no cancel.
Cancel(t, w) ==
  /\ pc[t] = "body" /\ Free(t)
  /\ w \in runtimes /\ ~Finished(w)
  /\ Enter(t, "mark", {w})
  /\ UNCHANGED <<nextId, entries, pc, scopes, shutdown>>

MarkCancelled(t) ==
  /\ call[t].at = "mark"
  /\ \E w \in call[t].on : FinishEntry(w, "Cancelled")
  /\ Enter(t, "throw", call[t].on)
  /\ UNCHANGED <<nextId, closing, runtimes, history, pc, scopes, shutdown>>

\* In a cleanup these are the release of a scope: its cancel and its await.
WaitReturn(t) ==
  /\ \/ call[t].at \in {"throw", "cancelWait"} /\ \A w \in call[t].on : Over(w)
     \/ call[t].at = "await" /\ \E w \in call[t].on : Over(w)
  /\ Leave(t)
  /\ scope' = IF pc[t] = "cleanup"
              THEN [scope EXCEPT ![t] = @ \ call[t].on] ELSE scope
  /\ UNCHANGED <<nextId, entries, pc, kids, leaked, shutdown>>

\* User code awaits workers younger than itself, so that waits form no cycle.
\* A handle the registry no longer holds makes await and awaitAny return at once.
AwaitAny(t, W) ==
  /\ pc[t] = "body" /\ Free(t)
  /\ W # {} /\ W \subseteq runtimes
  /\ \A w \in W : t < w
  /\ Enter(t, "await", W)
  /\ UNCHANGED <<nextId, entries, pc, scopes, shutdown>>

-----------------------------------------------------------------------------
(* Asynchronous exceptions.                                                *)

Blocking == {"throw", "cancelWait", "reject", "rejectWait", "await"}

\* mutant: a body that waits inside the manager cannot be interrupted.
InterruptibleIdle(t) ==
  \/ pc[t] \in {"gate", "ended"}
  \/ pc[t] = "body" /\ Free(t)
  \/ pc[t] = "cleanup" /\ call[t].at \in Blocking

Interruptible(t) ==
  \/ pc[t] \in {"gate", "ended"}
  \/ pc[t] = "body" /\ call[t].at \notin {"insert", "open"}
  \/ pc[t] = "cleanup" /\ call[t].at \in Blocking

\* Thread t takes an exception: its body unwinds, the scope exit it was in is
\* abandoned, and a worker at its gate or past its body just ends.
Interrupted(t) ==
  /\ Interruptible(t)
  /\ pc' = [pc EXCEPT ![t] = IF pc[t] \in {"gate", "ended"} THEN "exiting"
                                                            ELSE "cleanup"]
  /\ IF pc[t] = "cleanup"
     THEN /\ scope' = [scope EXCEPT ![t] = @ \ call[t].on]
          /\ leaked' = leaked \cup (scope[t] \cap call[t].on)
     ELSE UNCHANGED <<scope, leaked>>
  /\ UNCHANGED <<nextId, entries, kids, snap>>

\* throwTo from canceller c reaches w; a worker that cancels itself only dies.
Deliver(c, w) ==
  /\ call[c].at \in {"throw", "reject"}
  /\ w \in call[c].on
  /\ Interrupted(w)
  /\ call' = [[call EXCEPT ![c].at = IF @ = "throw" THEN "cancelWait"
                                                    ELSE "rejectWait"]
              EXCEPT ![w] = Idle]
  /\ UNCHANGED toKill

\* A signal to the main thread, which leads to shutdown.
InterruptMain ==
  /\ pc[Main] = "body"
  /\ Interrupted(Main)
  /\ Leave(Main)
  /\ UNCHANGED toKill

-----------------------------------------------------------------------------
(* The end of a thread.                                                    *)

BodyEnds(t) ==
  /\ pc[t] = "body" /\ Free(t)
  /\ pc' = [pc EXCEPT ![t] = "cleanup"]
  /\ UNCHANGED <<nextId, entries, call, scopes, shutdown>>

\* withWorkerHandle's release, innermost scope first: cancel, then await.
CloseScope(t) ==
  /\ pc[t] = "cleanup" /\ Free(t)
  /\ \E w \in scope[t] :
       /\ \A v \in scope[t] : v <= w
       /\ IF w \in runtimes
          THEN /\ Enter(t, IF Finished(w) THEN "await" ELSE "mark", {w})
               /\ UNCHANGED scope
          ELSE scope' = [scope EXCEPT ![t] = @ \ {w}] /\ UNCHANGED call
  /\ UNCHANGED <<nextId, entries, pc, kids, leaked, shutdown>>

\* runAction's trySync stops a synchronous exception or a plain return; an
\* asynchronous one, whoever threw it, flies past finishEntry.
Unwound(t) ==
  /\ pc[t] = "cleanup" /\ Free(t) /\ scope[t] = {}
  /\ \E next \in IF t = Main THEN {"close"} ELSE {"ended", "exiting"} :
       pc' = [pc EXCEPT ![t] = next]
  /\ UNCHANGED <<nextId, entries, call, scopes, shutdown>>

RecordOutcome(w) ==
  /\ pc[w] = "ended"
  /\ \E s \in {"Completed", "Failed"} : FinishEntry(w, s)
  /\ pc' = [pc EXCEPT ![w] = "exiting"]
  /\ UNCHANGED <<nextId, closing, runtimes, history, call, scopes, shutdown>>

RetiredStatus(w) == IF Finished(w) THEN status[w] ELSE "Cancelled"

\* Forgetting the history entries S, those past the retention.
Pruned(S, st) == [v \in Worker |-> IF v \in S THEN "none" ELSE st[v]]

\* retireEntry moves the worker to the history and prunes it in the same step.
RetireEntry(w) ==
  /\ pc[w] = "exiting"
  /\ pc' = [pc EXCEPT ![w] = "dead"]
  /\ runtimes' = runtimes \ {w}
  /\ IF w \in runtimes
     THEN \E S \in SUBSET (history \cup {w}) :
            /\ history' = (history \cup {w}) \ S
            /\ status' = Pruned(S, [status EXCEPT ![w] = RetiredStatus(w)])
     ELSE UNCHANGED <<history, status>>
  /\ UNCHANGED <<nextId, closing, call, scopes, shutdown>>

\* list and lookup prune before they read.
PruneHistory ==
  /\ \E S \in SUBSET history \ {{}} :
       history' = history \ S /\ status' = Pruned(S, status)
  /\ UNCHANGED <<nextId, closing, runtimes, pc, call, scopes, shutdown>>

-----------------------------------------------------------------------------
(* Shutdown: cancelAndAwaitAllWith.                                        *)

CloseManager ==
  /\ pc[Main] = "close"
  /\ closing' = TRUE
  /\ snap' = runtimes
  /\ toKill' = {w \in runtimes : ~Finished(w)}
  /\ pc' = [pc EXCEPT ![Main] = "mark"]
  /\ UNCHANGED <<nextId, runtimes, history, status, call, scopes>>

Unmarked(w) == w \in toKill /\ w \in runtimes /\ ~Finished(w)

MarkNext(w) ==
  /\ pc[Main] = "mark"
  /\ Unmarked(w)
  /\ FinishEntry(w, "Cancelled")
  /\ UNCHANGED <<nextId, closing, runtimes, history, pc, call, scopes, shutdown>>

BeginSweep ==
  /\ pc[Main] = "mark"
  /\ \A w \in Worker : ~Unmarked(w)
  /\ pc' = [pc EXCEPT ![Main] = "sweep"]
  /\ UNCHANGED <<nextId, entries, call, scopes, shutdown>>

\* mutant: workers are cancelled and awaited one after the other.
InTurn(w) == w \in toKill /\ \A v \in snap : v < w => Over(v)

Due(w) == w \in toKill

\* mapConcurrently: every worker of the snapshot has its own canceller.
SweepDeliver(w) ==
  /\ pc[Main] = "sweep"
  /\ Due(w)
  /\ Interrupted(w)
  /\ Leave(w)
  /\ toKill' = toKill \ {w}

ShutdownDone ==
  /\ pc[Main] = "sweep"
  /\ \A w \in snap : Over(w)
  /\ pc' = [pc EXCEPT ![Main] = "done"]
  /\ UNCHANGED <<nextId, entries, call, scopes, shutdown>>

-----------------------------------------------------------------------------
\* The steps a thread takes inside the manager, without waiting on user code.
ManagerStep(t) ==
  \/ InsertRuntime(t) \/ OpenGate(t) \/ RejectReturn(t)
  \/ MarkCancelled(t) \/ WaitReturn(t) \/ CloseScope(t) \/ Unwound(t)

WorkerExit(w) == RecordOutcome(w) \/ RetireEntry(w)

UserStep(t) ==
  \/ Fork(t) \/ BodyEnds(t)
  \/ \E w \in Worker : Cancel(t, w)
  \/ \E W \in SUBSET Worker : AwaitAny(t, W)

Exception(w) == (\E c \in Thread : Deliver(c, w)) \/ SweepDeliver(w)

Shutdown ==
  \/ CloseManager \/ BeginSweep \/ ShutdownDone
  \/ \E w \in Worker : MarkNext(w)

Next ==
  \/ \E t \in Thread : ManagerStep(t) \/ UserStep(t)
  \/ \E w \in Worker : WorkerExit(w) \/ Exception(w)
  \/ InterruptMain
  \/ PruneHistory
  \/ Shutdown

\* The run-time schedules every runnable thread and delivers exceptions;
\* nothing forces user code to fork, cancel, await or end.
Fairness ==
  /\ \A t \in Thread : WF_vars(ManagerStep(t))
  /\ \A w \in Worker : WF_vars(WorkerExit(w)) /\ WF_vars(Exception(w))
  /\ WF_vars(Shutdown)

Spec == Init /\ [][Next]_vars /\ Fairness

-----------------------------------------------------------------------------
(* Properties.                                                             *)

\* A worker runs no instruction of user code, cleanup included, unless the
\* registry holds it: insertRuntime precedes the gate and retireEntry comes
\* last.  So a handle absent from the registry is a worker that is over, which
\* is what await and awaitAny take it for.
RunsOnlyRegistered ==
  \A w \in Worker : pc[w] \in {"body", "cleanup", "ended"} => w \in runtimes

\* When runConcurrencyManager returns, no worker it ever admitted is alive and
\* none can start: a fork that raced with the shutdown was refused.
NothingOutlivesShutdown ==
  pc[Main] = "done" =>
    /\ runtimes = {}
    /\ \A w \in Worker : pc[w] \in {"unborn", "gate", "exiting", "dead"}

\* A thread past its cleanup has no scoped worker alive, unless an exception
\* interrupted the very release that was waiting for that worker.
ScopedWorkersEndFirst ==
  \A t \in Thread : \A w \in kids[t] :
    pc[t] \in {"ended", "exiting", "dead", "close", "mark", "sweep", "done"}
      => pc[w] = "dead" \/ w \in leaked

\* Cancellation racing with completion: the first terminal status of a worker
\* stands until its history entry is pruned.
FirstStatusWins ==
  [][\A w \in Worker : Finished(w) => status'[w] \in {status[w], "none"}]_vars

\* A worker marked Cancelled whose canceller went away before throwTo reached
\* it.  Every later cancel reads it as finished and throws nothing.
Stranded(w) ==
  /\ pc[w] = "body" /\ status[w] = "Cancelled" /\ w \notin toKill
  /\ \A t \in Thread : w \in call[t].on => call[t].at \notin {"mark", "throw"}

\* Shutdown ends although workers wait for each other in their cleanups, as
\* long as no worker was stranded by an interrupted cancel.
ShutdownCompletesUnlessStranded ==
  closing ~> (pc[Main] = "done" \/ \E w \in Worker : Stranded(w))

\* A cancel returns, likewise.
Cancelling(t) == call[t].at \in {"throw", "cancelWait"}
CancelReturnsUnlessStranded ==
  \A t \in Thread : Cancelling(t) ~> (~Cancelling(t) \/ \E w \in Worker : Stranded(w))

\* The manager is a task owner: its registry is the set of live tasks, and it
\* has returned only when that is empty for good.
Ownership ==
  INSTANCE TaskOwnership WITH
    Task  <- Worker,
    live  <- runtimes,
    ended <- {w \in Worker : pc[w] = "dead"},
    door  <- IF ~closing THEN "open"
             ELSE IF pc[Main] = "done" THEN "drained" ELSE "closed"
OwnsItsTasks == Ownership!Spec
=============================================================================
