---------------------------- MODULE ManagerProofs ----------------------------
(***************************************************************************)
(* Two parts: the safety properties of ConcurrencyManager, for any number  *)
(* of workers, and those of the console's ManagerPages, for any pages,     *)
(* items, calls in flight and troubles.                                    *)
(***************************************************************************)
EXTENDS ConcurrencyManager, ManagerView, TLAPS

Holding == {"insert", "reject", "rejectWait"}

\* Workers are numbered in the order they are born, and only the main thread
\* goes through the shutdown.
ThreadPhases ==
  /\ pc[Main] \in {"body", "cleanup", "close", "mark", "sweep", "done"}
  /\ \A w \in Worker :
       /\ pc[w] \in {"unborn", "gate", "body", "cleanup", "ended", "exiting", "dead"}
       /\ pc[w] = "unborn" <=> w >= nextId

IsOne(W) == \E w \in Worker : W = {w}

\* A thread inside an operation is in its body or its cleanup, where it waits
\* for one worker at a time, as a fork is of one; only a closing manager
\* refuses a fork.
CallersAreActive ==
  \A t \in Thread :
    /\ call[t].at # "none" => pc[t] \in {"body", "cleanup"}
    /\ call[t].at \in {"reject", "rejectWait"} => closing
    /\ call[t].at = "insert" \/ (pc[t] = "cleanup" /\ call[t].at = "await")
         => IsOne(call[t].on)

\* An operation is on workers that are registered or over, except that a
\* worker its forker has not registered is still at its gate.
TargetsAreKnown ==
  \A t \in Thread : \A w \in call[t].on :
    /\ w < nextId
    /\ call[t].at \in Holding \/ w \in runtimes \/ pc[w] = "dead"
    /\ call[t].at = "insert" => pc[w] = "gate" /\ w \notin runtimes

\* An unregistered worker is known to its forker alone.
ForkersAreAlone ==
  \A t, u \in Thread : \A w \in call[t].on \cap call[u].on :
    call[t].at \in Holding /\ call[u].at \in Holding => t = u

RegistryIsSound ==
  /\ \A w \in runtimes : pc[w] \notin {"unborn", "dead"}
  /\ \A w \in history : pc[w] = "dead"
  /\ \A w \in Worker : pc[w] = "exiting" /\ w \notin runtimes => closing

ShutdownIsSound ==
  /\ closing <=> pc[Main] \in {"mark", "sweep", "done"}
  /\ closing => runtimes \subseteq snap
  /\ toKill \subseteq snap
  /\ ~closing => snap = {}
  /\ \A w \in snap : w \in runtimes \/ pc[w] = "dead"
  /\ pc[Main] = "done" => \A w \in snap : pc[w] = "dead"

ScopesAreSound ==
  \A t \in Thread :
    /\ \A w \in scope[t] : w \in runtimes \/ pc[w] = "dead"
    /\ \A w \in kids[t] : w \in scope[t] \/ pc[w] = "dead" \/ w \in leaked
    /\ pc[t] \notin {"body", "cleanup"} => scope[t] = {}

IInv ==
  /\ TypeOK
  /\ ThreadPhases
  /\ CallersAreActive
  /\ TargetsAreKnown
  /\ ForkersAreAlone
  /\ RegistryIsSound
  /\ ShutdownIsSound
  /\ ScopesAreSound
  /\ RunsOnlyRegistered

-----------------------------------------------------------------------------
USE MaxIdAssumption DEF Main, Worker, Thread, entries, scopes, shutdown

\* Entering an operation changes the entry of the caller only.
LEMMA EnterCall ==
  ASSUME TypeOK, NEW t \in Thread, NEW s \in Stages, NEW W \in SUBSET Worker, Enter(t, s, W)
  PROVE  /\ call' \in [Thread -> [at : Stages, on : SUBSET Worker]]
         /\ call'[t].at = s /\ call'[t].on = W
         /\ \A u \in Thread \ {t} : call'[u] = call[u]
BY DEF TypeOK, Enter

\* So does leaving it.
LEMMA LeaveCall ==
  ASSUME TypeOK, NEW t \in Thread, Leave(t)
  PROVE  /\ call' \in [Thread -> [at : Stages, on : SUBSET Worker]]
         /\ call'[t].at = "none" /\ call'[t].on = {}
         /\ \A u \in Thread \ {t} : call'[u] = call[u]
BY DEF TypeOK, Leave, Idle, Stages

\* A fork allocates an unborn worker, which nobody knows but the caller.
LEMMA ForkInv ==
  ASSUME IInv, NEW t \in Thread, Fork(t)
  PROVE  IInv'
<1>1. TypeOK'
  BY DEF IInv, TypeOK, Finals, Phases, Stages, Idle, Fork, Enter, Free
<1>2. ThreadPhases'
  BY DEF IInv, TypeOK, ThreadPhases, Fork, Enter, Free
<1>3. CallersAreActive'
  <2>1. nextId \in Worker
    BY DEF IInv, TypeOK, Fork
  <2>2. /\ call'[t].at = "insert" /\ call'[t].on = {nextId}
        /\ \A u \in Thread \ {t} : call'[u] = call[u]
    BY <2>1, EnterCall DEF IInv, Fork, Stages
  <2>3. \A u \in Thread : call[u].at # "none" => pc'[u] = pc[u]
    BY DEF IInv, TypeOK, ThreadPhases, CallersAreActive, Fork
  <2>4. t \in Thread => pc'[t] = pc[t]
    BY DEF IInv, TypeOK, ThreadPhases, Fork
  <2>5. IsOne({nextId})
    BY <2>1 DEF IsOne
  <2>6. QED
    BY <2>2, <2>3, <2>4, <2>5 DEF IInv, CallersAreActive, Fork
<1>4. TargetsAreKnown'
  BY DEF IInv, TypeOK, ThreadPhases, CallersAreActive, RegistryIsSound, Idle, Holding,
     TargetsAreKnown, Fork, Enter, Free
<1>5. ForkersAreAlone'
  BY DEF IInv, TypeOK, ThreadPhases, CallersAreActive, RegistryIsSound, TargetsAreKnown,
     Idle, Holding, Finals, ForkersAreAlone, Fork, Enter, Free
<1>6. RegistryIsSound'
  BY DEF IInv, TypeOK, ThreadPhases, RegistryIsSound, Idle, Fork, Enter, Free
<1>7. ShutdownIsSound'
  BY DEF IInv, TypeOK, ThreadPhases, ShutdownIsSound, Idle, Fork, Enter, Free
<1>8. ScopesAreSound'
  BY DEF IInv, TypeOK, ThreadPhases, ScopesAreSound, Idle, Fork, Enter, Free
<1>9. RunsOnlyRegistered'
  BY DEF IInv, TypeOK, RunsOnlyRegistered, Fork, Enter, Free
<1>10. QED
  BY <1>1, <1>2, <1>3, <1>4, <1>5, <1>6, <1>7, <1>8, <1>9 DEF IInv

\* Registration admits the worker of the fork, or refuses it when closing.
LEMMA InsertRuntimeInv ==
  ASSUME IInv, NEW t \in Thread, InsertRuntime(t)
  PROVE  IInv'
<1> DEFINE on == call[t].on
<1>a. on \subseteq Worker /\ TypeOK
  BY DEF IInv, TypeOK
<1>b. \A w \in on : pc[w] = "gate" /\ w \notin runtimes /\ w \notin history
  BY DEF IInv, TargetsAreKnown, RegistryIsSound, InsertRuntime
<1>c. CASE closing
  <2>1. Enter(t, "reject", on) /\ UNCHANGED <<nextId, entries, pc, scopes, shutdown>>
    BY <1>c DEF InsertRuntime, Admitting
  <2>2. /\ call' \in [Thread -> [at : Stages, on : SUBSET Worker]]
        /\ call'[t].at = "reject" /\ call'[t].on = on
        /\ \A u \in Thread \ {t} : call'[u] = call[u]
    BY <1>a, <2>1, EnterCall DEF Stages
  <2>3. TypeOK'
    BY <1>a, <2>1, <2>2 DEF TypeOK
  <2>4. CallersAreActive'
    BY <1>c, <2>1, <2>2 DEF IInv, CallersAreActive, InsertRuntime
  <2>5. TargetsAreKnown'
    BY <2>1, <2>2 DEF IInv, TargetsAreKnown, Holding
  <2>6. ForkersAreAlone'
    BY <2>1, <2>2 DEF IInv, ForkersAreAlone, Holding, InsertRuntime
  <2>7. QED
    BY <2>1, <2>3, <2>4, <2>5, <2>6
    DEF IInv, ThreadPhases, RegistryIsSound, ShutdownIsSound, ScopesAreSound,
       RunsOnlyRegistered
<1>d. CASE ~closing
  <2>1. /\ Enter(t, "open", on)
        /\ runtimes' = runtimes \cup on
        /\ status' = [w \in Worker |-> IF w \in on THEN "Running" ELSE status[w]]
        /\ UNCHANGED <<nextId, closing, history, pc, scopes, shutdown>>
    BY <1>d DEF InsertRuntime, Admitting
  <2>2. /\ call' \in [Thread -> [at : Stages, on : SUBSET Worker]]
        /\ call'[t].at = "open" /\ call'[t].on = on
        /\ \A u \in Thread \ {t} : call'[u] = call[u]
    BY <1>a, <2>1, EnterCall DEF Stages
  <2>3. TypeOK'
    <3>1. status' \in [Worker -> Finals \cup {"none", "Running"}]
      BY <1>a, <2>1 DEF TypeOK
    <3>2. \A w \in Worker : status'[w] = "none" <=> w \notin runtimes' \cup history
      BY <1>a, <2>1 DEF TypeOK
    <3>3. \A w \in history : status'[w] \in Finals
      BY <1>a, <1>b, <2>1 DEF TypeOK
    <3>4. QED
      BY <3>1, <3>2, <3>3, <1>a, <2>1, <2>2 DEF TypeOK
  <2>4. CallersAreActive'
    BY <1>d, <2>1, <2>2 DEF IInv, CallersAreActive, InsertRuntime
  <2>5. TargetsAreKnown'
    <3>1. \A u \in Thread \ {t} : call[u].at = "insert" => call[u].on \cap on = {}
      BY DEF IInv, ForkersAreAlone, Holding, InsertRuntime
    <3>2. QED
      BY <2>1, <2>2, <3>1 DEF IInv, TargetsAreKnown, Holding
  <2>6. ForkersAreAlone'
    BY <2>1, <2>2 DEF IInv, ForkersAreAlone, Holding
  <2>7. RegistryIsSound'
    BY <1>b, <2>1 DEF IInv, RegistryIsSound
  <2>8. QED
    BY <1>d, <2>1, <2>3, <2>4, <2>5, <2>6, <2>7
    DEF IInv, ThreadPhases, ShutdownIsSound, ScopesAreSound, RunsOnlyRegistered
<1>e. QED  BY <1>c, <1>d

\* Opening the gate lets a registered worker run, and may scope it.
LEMMA OpenGateInv ==
  ASSUME IInv, NEW t \in Thread, OpenGate(t)
  PROVE  IInv'
<1> DEFINE on == call[t].on
<1>a. /\ on \subseteq Worker /\ TypeOK
      /\ \A w \in on : w \in runtimes \/ pc[w] = "dead"
  BY DEF IInv, TypeOK, TargetsAreKnown, Holding, OpenGate
<1>b. /\ call' \in [Thread -> [at : Stages, on : SUBSET Worker]]
      /\ call'[t].at = "none" /\ call'[t].on = {}
      /\ \A u \in Thread \ {t} : call'[u] = call[u]
  BY <1>a, LeaveCall DEF OpenGate
<1>c. /\ pc' \in [Thread -> Phases]
      /\ \A u \in Thread : pc'[u] = IF u \in on /\ pc[u] = "gate" THEN "body" ELSE pc[u]
  BY DEF IInv, TypeOK, OpenGate, Phases
<1>d. UNCHANGED <<nextId, closing, runtimes, history, status, leaked, snap, toKill>>
  BY DEF OpenGate
<1>1. TypeOK' /\ ScopesAreSound'
  <2>1. CASE UNCHANGED <<scope, kids>>
    BY <1>a, <1>b, <1>c, <1>d, <2>1 DEF IInv, TypeOK, ScopesAreSound
  <2>2. CASE /\ pc[t] = "body"
             /\ scope' = [scope EXCEPT ![t] = @ \cup on]
             /\ kids' = [kids EXCEPT ![t] = @ \cup on]
    <3>1. scope' \in [Thread -> SUBSET Worker] /\ kids' \in [Thread -> SUBSET Worker]
      BY <1>a, <2>2 DEF TypeOK
    <3>2. TypeOK'
      BY <1>a, <1>b, <1>c, <1>d, <3>1 DEF TypeOK
    <3>3. /\ scope'[t] = scope[t] \cup on /\ kids'[t] = kids[t] \cup on
          /\ \A u \in Thread \ {t} : scope'[u] = scope[u] /\ kids'[u] = kids[u]
      BY <1>a, <2>2 DEF TypeOK
    <3> HIDE DEF on
    <3>4. ASSUME NEW u \in Thread
          PROVE  /\ \A w \in scope'[u] : w \in runtimes \/ pc'[w] = "dead"
                 /\ \A w \in kids'[u] : w \in scope'[u] \/ pc'[w] = "dead" \/ w \in leaked
                 /\ pc'[u] \notin {"body", "cleanup"} => scope'[u] = {}
      <4>1. scope[u] \subseteq Worker /\ kids[u] \subseteq Worker
        BY <1>a DEF TypeOK
      <4>2. \A w \in Worker : pc[w] = "dead" => pc'[w] = "dead"
        BY <1>c DEF Thread
      <4> QED
        BY <1>a, <1>c, <2>2, <3>3, <4>1, <4>2 DEF IInv, ScopesAreSound
    <3>5. ScopesAreSound'
      BY <1>d, <3>4 DEF ScopesAreSound
    <3>6. QED  BY <3>2, <3>5
  <2>3. QED
    BY <2>1, <2>2 DEF OpenGate
<1>2. CallersAreActive'
  BY <1>b, <1>c, <1>d DEF IInv, CallersAreActive
<1>3. TargetsAreKnown'
  <2>1. \A u \in Thread : call[u].at = "insert" => call[u].on \cap on = {}
    BY <1>a DEF IInv, TargetsAreKnown
  <2>2. \A u \in Thread \ {t} : \A w \in call[u].on :
          /\ w \in Thread
          /\ pc[w] = "dead" => pc'[w] = "dead"
          /\ call[u].at = "insert" => pc'[w] = pc[w]
    BY <1>a, <1>c, <2>1 DEF TypeOK
  <2>3. QED
    BY <1>b, <1>d, <2>2 DEF IInv, TargetsAreKnown
<1>4. ForkersAreAlone'
  BY <1>b DEF IInv, ForkersAreAlone, Holding
<1>5. ThreadPhases' /\ ShutdownIsSound'
  BY <1>c, <1>d DEF IInv, TypeOK, ThreadPhases, ShutdownIsSound
<1>6. RegistryIsSound' /\ RunsOnlyRegistered'
  BY <1>a, <1>c, <1>d DEF IInv, TypeOK, RegistryIsSound, RunsOnlyRegistered
<1>7. QED
  BY <1>1, <1>2, <1>3, <1>4, <1>5, <1>6 DEF IInv

\* A refused fork returns to a caller that unwinds.
LEMMA RejectReturnInv ==
  ASSUME IInv, NEW t \in Thread, RejectReturn(t)
  PROVE  IInv'
<1>1. TypeOK /\ pc[t] \in {"body", "cleanup"}
  BY DEF IInv, CallersAreActive, RejectReturn
<1>2. /\ pc' \in [Thread -> Phases] /\ pc'[t] = "cleanup"
      /\ \A u \in Thread \ {t} : pc'[u] = pc[u]
      /\ \A w \in Worker : pc'[w] = "dead" <=> pc[w] = "dead"
  BY <1>1 DEF TypeOK, Phases, RejectReturn
<1>3. /\ call' \in [Thread -> [at : Stages, on : SUBSET Worker]]
      /\ call'[t].at = "none" /\ call'[t].on = {}
      /\ \A u \in Thread \ {t} : call'[u] = call[u]
  BY <1>1, LeaveCall DEF RejectReturn
<1>4. UNCHANGED <<nextId, entries, scopes, shutdown>>
  BY DEF RejectReturn
<1>5. \A u \in Thread : call[u].at = "insert" => t \notin call[u].on
  BY <1>1 DEF IInv, TargetsAreKnown
<1>6. TypeOK'
  BY <1>1, <1>2, <1>3, <1>4 DEF TypeOK
<1>7. ThreadPhases'
  BY <1>1, <1>2, <1>4 DEF IInv, ThreadPhases
<1>8. CallersAreActive'
  BY <1>2, <1>3, <1>4 DEF IInv, CallersAreActive
<1>9. TargetsAreKnown'
  BY <1>1, <1>2, <1>3, <1>4, <1>5 DEF IInv, TypeOK, TargetsAreKnown
<1>10. ForkersAreAlone'
  BY <1>3 DEF IInv, ForkersAreAlone
<1>11. RegistryIsSound' /\ RunsOnlyRegistered'
  <2>1. \A w \in Worker : w # t => pc'[w] = pc[w]
    BY <1>2
  <2>2. runtimes \subseteq Worker /\ history \subseteq Worker
    BY <1>1 DEF TypeOK
  <2>3. RegistryIsSound'
    BY <1>1, <1>2, <1>4, <2>1, <2>2 DEF IInv, RegistryIsSound
  <2>4. RunsOnlyRegistered'
    BY <1>1, <1>2, <1>4, <2>1 DEF IInv, RunsOnlyRegistered
  <2>5. QED  BY <2>3, <2>4
<1>12. ShutdownIsSound'
  BY <1>1, <1>2, <1>4 DEF IInv, TypeOK, ThreadPhases, ShutdownIsSound
<1>13. ScopesAreSound'
  BY <1>1, <1>2, <1>4 DEF IInv, TypeOK, ScopesAreSound
<1>14. QED
  BY <1>6, <1>7, <1>8, <1>9, <1>10, <1>11, <1>12, <1>13 DEF IInv

\* A cancel starts on a registered worker.
LEMMA CancelInv ==
  ASSUME IInv, NEW t \in Thread, NEW w \in Worker, Cancel(t, w)
  PROVE  IInv'
<1>1. TypeOK'
  BY DEF IInv, TypeOK, Finals, Phases, Stages, Idle, Cancel, Free, Finished, Enter
<1>2. ThreadPhases'
  BY DEF IInv, TypeOK, ThreadPhases, Cancel, Free, Finished, Enter
<1>3. CallersAreActive'
  BY DEF IInv, TypeOK, CallersAreActive, Cancel, Free, Finished, Enter
<1>4. TargetsAreKnown'
  BY DEF IInv, TypeOK, ThreadPhases, CallersAreActive, RegistryIsSound, Idle, Holding,
     TargetsAreKnown, Cancel, Free, Finished, Enter
<1>5. ForkersAreAlone'
  BY DEF IInv, TypeOK, Holding, ForkersAreAlone, Cancel, Free, Finished, Enter
<1>6. RegistryIsSound'
  BY DEF IInv, TypeOK, RegistryIsSound, Cancel, Free, Finished, Enter
<1>7. ShutdownIsSound'
  BY DEF IInv, TypeOK, ShutdownIsSound, Cancel, Free, Finished, Enter
<1>8. ScopesAreSound'
  BY DEF IInv, TypeOK, ScopesAreSound, Cancel, Free, Finished, Enter
<1>9. RunsOnlyRegistered'
  BY DEF IInv, TypeOK, RunsOnlyRegistered, Cancel, Free, Finished, Enter
<1>10. QED
  BY <1>1, <1>2, <1>3, <1>4, <1>5, <1>6, <1>7, <1>8, <1>9 DEF IInv

\* Marking changes a status and nothing a thread relies on.
LEMMA MarkCancelledInv ==
  ASSUME IInv, NEW t \in Thread, MarkCancelled(t)
  PROVE  IInv'
<1>1. TypeOK'
  BY DEF IInv, TypeOK, Finals, Phases, Stages, Idle, MarkCancelled, FinishEntry,
     Finished, Enter
<1>2. ThreadPhases'
  BY DEF IInv, TypeOK, ThreadPhases, MarkCancelled, FinishEntry, Finished, Enter
<1>3. CallersAreActive'
  BY DEF IInv, TypeOK, CallersAreActive, MarkCancelled, FinishEntry, Finished, Enter
<1>4. TargetsAreKnown'
  BY DEF IInv, TypeOK, Holding, TargetsAreKnown, MarkCancelled, FinishEntry, Finished, Enter
<1>5. ForkersAreAlone'
  BY DEF IInv, TypeOK, Holding, ForkersAreAlone, MarkCancelled, FinishEntry, Finished, Enter
<1>6. RegistryIsSound'
  BY DEF IInv, TypeOK, RegistryIsSound, MarkCancelled, FinishEntry, Finished, Enter
<1>7. ShutdownIsSound'
  BY DEF IInv, TypeOK, ShutdownIsSound, MarkCancelled, FinishEntry, Finished, Enter
<1>8. ScopesAreSound'
  BY DEF IInv, TypeOK, ScopesAreSound, MarkCancelled, FinishEntry, Finished, Enter
<1>9. RunsOnlyRegistered'
  BY DEF IInv, TypeOK, RunsOnlyRegistered, MarkCancelled, FinishEntry, Finished, Enter
<1>10. QED
  BY <1>1, <1>2, <1>3, <1>4, <1>5, <1>6, <1>7, <1>8, <1>9 DEF IInv

\* A wait ends once its worker is dead, in a cleanup the scoped one.
LEMMA WaitReturnInv ==
  ASSUME IInv, NEW t \in Thread, WaitReturn(t)
  PROVE  IInv'
<1>1. TypeOK'
  BY DEF IInv, TypeOK, Finals, Phases, Stages, Idle, WaitReturn, Over, Leave
<1>2. ThreadPhases'
  BY DEF IInv, TypeOK, ThreadPhases, WaitReturn, Over, Leave
<1>3. CallersAreActive'
  BY DEF IInv, TypeOK, ThreadPhases, CallersAreActive, Idle, WaitReturn, Over, Leave
<1>4. TargetsAreKnown'
  BY DEF IInv, TypeOK, ThreadPhases, Holding, TargetsAreKnown, Idle, WaitReturn, Over, Leave
<1>5. ForkersAreAlone'
  BY DEF IInv, TypeOK, ThreadPhases, Holding, ForkersAreAlone, Idle, WaitReturn, Over, Leave
<1>6. RegistryIsSound'
  BY DEF IInv, TypeOK, RegistryIsSound, WaitReturn, Over, Leave
<1>7. ShutdownIsSound'
  BY DEF IInv, TypeOK, ShutdownIsSound, WaitReturn, Over, Leave
<1>8. ScopesAreSound'
  BY DEF IInv, TypeOK, ThreadPhases, CallersAreActive, IsOne, RegistryIsSound, Idle,
     Holding, ScopesAreSound, WaitReturn, Over, Leave
<1>9. RunsOnlyRegistered'
  BY DEF IInv, TypeOK, RunsOnlyRegistered, WaitReturn, Over, Leave
<1>10. QED
  BY <1>1, <1>2, <1>3, <1>4, <1>5, <1>6, <1>7, <1>8, <1>9 DEF IInv

\* Awaited workers are registered.
LEMMA AwaitAnyInv ==
  ASSUME IInv, NEW t \in Thread, NEW W \in SUBSET Worker, AwaitAny(t, W)
  PROVE  IInv'
<1>1. TypeOK'
  BY DEF IInv, TypeOK, Finals, Phases, Stages, Idle, AwaitAny, Free, Enter
<1>2. ThreadPhases'
  BY DEF IInv, TypeOK, ThreadPhases, AwaitAny, Free, Enter
<1>3. CallersAreActive'
  BY DEF IInv, TypeOK, CallersAreActive, AwaitAny, Free, Enter
<1>4. TargetsAreKnown'
  BY DEF IInv, TypeOK, ThreadPhases, CallersAreActive, RegistryIsSound, Idle, Holding,
     TargetsAreKnown, AwaitAny, Free, Enter
<1>5. ForkersAreAlone'
  BY DEF IInv, TypeOK, Holding, ForkersAreAlone, AwaitAny, Free, Enter
<1>6. RegistryIsSound'
  BY DEF IInv, TypeOK, RegistryIsSound, AwaitAny, Free, Enter
<1>7. ShutdownIsSound'
  BY DEF IInv, TypeOK, ShutdownIsSound, AwaitAny, Free, Enter
<1>8. ScopesAreSound'
  BY DEF IInv, TypeOK, ScopesAreSound, AwaitAny, Free, Enter
<1>9. RunsOnlyRegistered'
  BY DEF IInv, TypeOK, RunsOnlyRegistered, AwaitAny, Free, Enter
<1>10. QED
  BY <1>1, <1>2, <1>3, <1>4, <1>5, <1>6, <1>7, <1>8, <1>9 DEF IInv

\* Whoever throws it, an exception that thread t takes keeps the invariant: t
\* leaves its call, and a throw that reached t becomes a wait.
LEMMA ExceptionInv ==
  ASSUME IInv, NEW t \in Thread, Interrupted(t),
         pc[t] = "gate" => t \in runtimes \/ closing,
         toKill' \subseteq toKill,
         call' \in [Thread -> [at : Stages, on : SUBSET Worker]],
         call'[t].at = "none", call'[t].on = {},
         \A u \in Thread : call[u].at = "insert" => t \notin call[u].on,
         \A u \in Thread \ {t} :
           /\ call'[u].on = call[u].on
           /\ \/ call'[u].at = call[u].at
              \/ call[u].at = "throw" /\ call'[u].at = "cancelWait"
              \/ call[u].at = "reject" /\ call'[u].at = "rejectWait"
  PROVE  IInv'
<1>1. /\ pc[t] \in {"gate", "ended", "body", "cleanup"}
      /\ call[t].at \notin {"insert", "open"}
  BY DEF IInv, CallersAreActive, Interrupted, Interruptible, Blocking
<1>2. /\ pc' \in [Thread -> Phases]
      /\ \A u \in Thread \ {t} : pc'[u] = pc[u]
      /\ pc[t] \in {"gate", "ended"} => pc'[t] = "exiting"
      /\ pc[t] \in {"body", "cleanup"} => pc'[t] = "cleanup"
  BY <1>1 DEF IInv, TypeOK, Interrupted, Phases
<1>3. UNCHANGED <<nextId, closing, runtimes, history, status, kids, snap>>
  BY DEF Interrupted
<1>4. TypeOK'
  <2>1. scope' \in [Thread -> SUBSET Worker]
    <3>1. CASE pc[t] = "cleanup"
      BY <3>1 DEF IInv, TypeOK, Interrupted
    <3>2. CASE pc[t] # "cleanup"
      BY <3>2 DEF IInv, TypeOK, Interrupted
    <3>3. QED  BY <3>1, <3>2
  <2>2. leaked' \subseteq Worker
    BY DEF IInv, TypeOK, Interrupted
  <2>3. QED
    BY <1>2, <1>3, <2>1, <2>2 DEF IInv, TypeOK
<1>5. ThreadPhases'
  BY <1>1, <1>2, <1>3 DEF IInv, TypeOK, ThreadPhases
<1>6. RunsOnlyRegistered' /\ RegistryIsSound'
  BY <1>1, <1>2, <1>3 DEF IInv, TypeOK, RunsOnlyRegistered, RegistryIsSound
<1>7. ShutdownIsSound'
  BY <1>1, <1>2, <1>3 DEF IInv, TypeOK, ThreadPhases, ShutdownIsSound
<1>8. ScopesAreSound'
  <2>1. CASE pc[t] = "cleanup"
    BY <1>2, <1>3, <2>1 DEF IInv, TypeOK, ScopesAreSound, Interrupted
  <2>2. CASE pc[t] # "cleanup"
    BY <1>1, <1>2, <1>3, <2>2 DEF IInv, TypeOK, ScopesAreSound, Interrupted
  <2>3. QED  BY <2>1, <2>2
<1>9. CallersAreActive'
  BY <1>1, <1>2, <1>3 DEF IInv, CallersAreActive
<1>10. TargetsAreKnown'
  <2>1. SUFFICES ASSUME NEW u \in Thread, u # t, NEW w \in call[u].on
                 PROVE  /\ w < nextId
                        /\ call'[u].at \in Holding \/ w \in runtimes \/ pc'[w] = "dead"
                        /\ call'[u].at = "insert" => pc'[w] = "gate" /\ w \notin runtimes
    BY <1>3 DEF TargetsAreKnown
  <2>2. w \in Worker
    BY DEF IInv, TypeOK
  <2>3. /\ w < nextId
        /\ call[u].at \in Holding \/ w \in runtimes \/ pc[w] = "dead"
        /\ call[u].at = "insert" => pc[w] = "gate" /\ w \notin runtimes /\ w # t
    BY <2>1 DEF IInv, TargetsAreKnown
  <2>4. pc[w] = "dead" => pc'[w] = "dead"
    BY <1>1, <1>2, <2>2
  <2>5. call[u].at \in Holding => call'[u].at \in Holding
    BY <2>1 DEF Holding
  <2>6. call'[u].at = "insert" => call[u].at = "insert"
    BY <2>1
  <2>7. w # t => pc'[w] = pc[w]
    BY <1>2, <2>2
  <2>8. QED
    BY <2>3, <2>4, <2>5, <2>6, <2>7
<1>11. ForkersAreAlone'
  BY DEF IInv, ForkersAreAlone, Holding
<1>12. QED
  BY <1>4, <1>5, <1>6, <1>7, <1>8, <1>9, <1>10, <1>11 DEF IInv

\* A canceller reaches a registered or dead worker, or the one it forked.
LEMMA DeliverInv ==
  ASSUME IInv, NEW c \in Thread, NEW w \in Worker, Deliver(c, w)
  PROVE  IInv'
<1>1. /\ TypeOK /\ Interrupted(w) /\ w \in Thread
      /\ call[c].at \in {"throw", "reject"} /\ w \in call[c].on
      /\ UNCHANGED toKill
  BY DEF IInv, Deliver
<1>2. pc[w] = "gate" => w \in runtimes \/ closing
  BY <1>1 DEF IInv, CallersAreActive, TargetsAreKnown, Holding
<1>3. \A u \in Thread : call[u].at = "insert" => w \notin call[u].on
  <2>1. SUFFICES ASSUME NEW u \in Thread, call[u].at = "insert", w \in call[u].on
                 PROVE  FALSE
    OBVIOUS
  <2>2. pc[w] = "gate" /\ w \notin runtimes
    BY <2>1 DEF IInv, TargetsAreKnown
  <2>3. CASE call[c].at = "throw"
    BY <1>1, <2>2, <2>3 DEF IInv, TargetsAreKnown, Holding
  <2>4. CASE call[c].at = "reject"
    BY <1>1, <2>1, <2>4 DEF IInv, ForkersAreAlone, Holding
  <2>5. QED  BY <1>1, <2>3, <2>4
<1>4. /\ call' \in [Thread -> [at : Stages, on : SUBSET Worker]]
      /\ call'[w].at = "none" /\ call'[w].on = {}
  <2>1. PICK s \in {"cancelWait", "rejectWait"} :
          call' = [[call EXCEPT ![c].at = s] EXCEPT ![w] = Idle]
    BY DEF Deliver
  <2>2. Idle \in [at : Stages, on : SUBSET Worker] /\ s \in Stages
    BY DEF Idle, Stages
  <2>3. QED
    BY <1>1, <2>1, <2>2 DEF TypeOK, Idle
<1>5. \A u \in Thread \ {w} :
        /\ call'[u].on = call[u].on
        /\ \/ call'[u].at = call[u].at
           \/ call[u].at = "throw" /\ call'[u].at = "cancelWait"
           \/ call[u].at = "reject" /\ call'[u].at = "rejectWait"
  BY <1>1 DEF TypeOK, Deliver
<1>6. toKill' \subseteq toKill
  BY <1>1
<1>7. QED
  BY <1>1, <1>2, <1>3, <1>4, <1>5, <1>6, ExceptionInv

\* The shutdown reaches workers of its snapshot.
LEMMA SweepDeliverInv ==
  ASSUME IInv, NEW w \in Worker, SweepDeliver(w)
  PROVE  IInv'
<1>1. TypeOK /\ Interrupted(w) /\ w \in Thread /\ Leave(w) /\ toKill' \subseteq toKill
  BY DEF IInv, SweepDeliver
<1>2. w \in runtimes \/ pc[w] = "dead"
  BY DEF IInv, ShutdownIsSound, SweepDeliver, Due
<1>3. pc[w] = "gate" => w \in runtimes \/ closing
  BY <1>2
<1>4. \A u \in Thread : call[u].at = "insert" => w \notin call[u].on
  BY <1>2 DEF IInv, TargetsAreKnown
<1>5. /\ call' \in [Thread -> [at : Stages, on : SUBSET Worker]]
      /\ call'[w].at = "none" /\ call'[w].on = {}
      /\ \A u \in Thread \ {w} : call'[u] = call[u]
  BY <1>1, LeaveCall
<1>6. QED
  BY <1>1, <1>3, <1>4, <1>5, ExceptionInv

\* A signal reaches the main thread, which nobody forked.
LEMMA InterruptMainInv ==
  ASSUME IInv, InterruptMain
  PROVE  IInv'
<1>1. /\ TypeOK /\ Interrupted(Main) /\ Main \in Thread /\ Leave(Main)
      /\ toKill' \subseteq toKill /\ pc[Main] = "body"
  BY DEF IInv, InterruptMain
<1>2. \A u \in Thread : call[u].at = "insert" => Main \notin call[u].on
  BY DEF IInv, TypeOK
<1>3. /\ call' \in [Thread -> [at : Stages, on : SUBSET Worker]]
      /\ call'[Main].at = "none" /\ call'[Main].on = {}
      /\ \A u \in Thread \ {Main} : call'[u] = call[u]
  BY <1>1, LeaveCall
<1>4. pc[Main] # "gate"
  BY <1>1
<1>5. QED
  BY <1>1, <1>2, <1>3, <1>4, ExceptionInv

\* A body ends outside every operation.
LEMMA BodyEndsInv ==
  ASSUME IInv, NEW t \in Thread, BodyEnds(t)
  PROVE  IInv'
<1>1. TypeOK'
  BY DEF IInv, TypeOK, Finals, Phases, Stages, Idle, BodyEnds, Free
<1>2. ThreadPhases'
  BY DEF IInv, TypeOK, ThreadPhases, BodyEnds, Free
<1>3. CallersAreActive'
  BY DEF IInv, TypeOK, CallersAreActive, BodyEnds, Free
<1>4. TargetsAreKnown'
  BY DEF IInv, TypeOK, Holding, TargetsAreKnown, BodyEnds, Free
<1>5. ForkersAreAlone'
  BY DEF IInv, TypeOK, Holding, ForkersAreAlone, BodyEnds, Free
<1>6. RegistryIsSound'
  BY DEF IInv, TypeOK, RegistryIsSound, BodyEnds, Free
<1>7. ShutdownIsSound'
  BY DEF IInv, TypeOK, ShutdownIsSound, BodyEnds, Free
<1>8. ScopesAreSound'
  BY DEF IInv, TypeOK, ScopesAreSound, BodyEnds, Free
<1>9. RunsOnlyRegistered'
  BY DEF IInv, TypeOK, RunsOnlyRegistered, BodyEnds, Free
<1>10. QED
  BY <1>1, <1>2, <1>3, <1>4, <1>5, <1>6, <1>7, <1>8, <1>9 DEF IInv

\* A scope exit cancels or awaits its worker, or drops one that is over.
LEMMA CloseScopeInv ==
  ASSUME IInv, NEW t \in Thread, CloseScope(t)
  PROVE  IInv'
<1>1. PICK w \in scope[t] :
        IF w \in runtimes
        THEN /\ Enter(t, IF Finished(w) THEN "await" ELSE "mark", {w})
             /\ UNCHANGED scope
        ELSE scope' = [scope EXCEPT ![t] = @ \ {w}] /\ UNCHANGED call
  BY DEF CloseScope
<1>2. w \in Worker /\ w < nextId
  BY DEF IInv, TypeOK, ScopesAreSound, ThreadPhases, RegistryIsSound
<1>3. CASE w \in runtimes
  <2>1. /\ call' \in [Thread -> [at : Stages, on : SUBSET Worker]]
        /\ call'[t].on = {w} /\ call'[t].at \in {"await", "mark"}
        /\ \A u \in Thread \ {t} : call'[u] = call[u]
    BY <1>1, <1>2, <1>3 DEF IInv, TypeOK, Enter, Stages
  <2>2. TypeOK'
    BY <1>1, <1>3, <2>1 DEF IInv, TypeOK, CloseScope
  <2>3. CallersAreActive' /\ TargetsAreKnown' /\ ForkersAreAlone'
    <3>1. CallersAreActive'
      BY <1>2, <2>1 DEF IInv, CloseScope, CallersAreActive, IsOne
    <3>2. TargetsAreKnown'
      BY <1>2, <1>3, <2>1
      DEF IInv, TypeOK, Holding, CloseScope, Free, TargetsAreKnown, CallersAreActive
    <3>3. ForkersAreAlone'
      BY <1>2, <1>3, <2>1
      DEF IInv, TypeOK, Holding, CloseScope, Free, ForkersAreAlone, TargetsAreKnown
    <3>4. QED  BY <3>1, <3>2, <3>3
  <2>4. QED
    BY <1>1, <1>3, <2>2, <2>3
    DEF IInv, ThreadPhases, RegistryIsSound, ShutdownIsSound, ScopesAreSound,
       RunsOnlyRegistered, CloseScope
<1>4. CASE w \notin runtimes
  <2>1. scope' \in [Thread -> SUBSET Worker]
    BY <1>1, <1>4 DEF IInv, TypeOK
  <2>2. TypeOK'
    BY <1>1, <1>4, <2>1 DEF IInv, TypeOK, CloseScope
  <2>3. ScopesAreSound'
    BY <1>1, <1>2, <1>4 DEF IInv, TypeOK, ScopesAreSound, CloseScope
  <2>4. QED
    BY <1>1, <1>4, <2>2, <2>3
    DEF IInv, ThreadPhases, CallersAreActive, TargetsAreKnown, ForkersAreAlone,
       RegistryIsSound, ShutdownIsSound, RunsOnlyRegistered, CloseScope
<1>5. QED  BY <1>3, <1>4

\* A thread leaves its cleanup with no scope open.
LEMMA UnwoundInv ==
  ASSUME IInv, NEW t \in Thread, Unwound(t)
  PROVE  IInv'
<1>1. TypeOK'
  BY DEF IInv, TypeOK, Finals, Phases, Stages, Idle, Unwound, Free
<1>2. ThreadPhases'
  BY DEF IInv, TypeOK, ThreadPhases, Unwound, Free
<1>3. CallersAreActive'
  BY DEF IInv, TypeOK, CallersAreActive, Unwound, Free
<1>4. TargetsAreKnown'
  BY DEF IInv, TypeOK, Holding, TargetsAreKnown, Unwound, Free
<1>5. ForkersAreAlone'
  BY DEF IInv, TypeOK, Holding, ForkersAreAlone, Unwound, Free
<1>6. RegistryIsSound'
  BY DEF IInv, Finals, Phases, Stages, Idle, Holding, TypeOK, ThreadPhases,
     CallersAreActive, TargetsAreKnown, ForkersAreAlone, ShutdownIsSound,
     ScopesAreSound, RunsOnlyRegistered, RegistryIsSound, Unwound, Free
<1>7. ShutdownIsSound'
  BY DEF IInv, TypeOK, ShutdownIsSound, Unwound, Free
<1>8. ScopesAreSound'
  BY DEF IInv, TypeOK, ScopesAreSound, Unwound, Free
<1>9. RunsOnlyRegistered'
  BY DEF IInv, TypeOK, RunsOnlyRegistered, Unwound, Free
<1>10. QED
  BY <1>1, <1>2, <1>3, <1>4, <1>5, <1>6, <1>7, <1>8, <1>9 DEF IInv

\* An ended worker records its outcome while still registered.
LEMMA RecordOutcomeInv ==
  ASSUME IInv, NEW w \in Worker, RecordOutcome(w)
  PROVE  IInv'
<1>1. TypeOK'
  BY DEF IInv, TypeOK, Finals, Phases, Stages, Idle, RecordOutcome, FinishEntry, Finished
<1>2. ThreadPhases'
  BY DEF IInv, TypeOK, ThreadPhases, RecordOutcome, FinishEntry, Finished
<1>3. CallersAreActive'
  BY DEF IInv, TypeOK, CallersAreActive, RecordOutcome, FinishEntry, Finished
<1>4. TargetsAreKnown'
  BY DEF IInv, TypeOK, Holding, TargetsAreKnown, RecordOutcome, FinishEntry, Finished
<1>5. ForkersAreAlone'
  BY DEF IInv, TypeOK, Holding, ForkersAreAlone, RecordOutcome, FinishEntry, Finished
<1>6. RegistryIsSound'
  BY DEF IInv, Finals, Phases, Stages, Idle, Holding, TypeOK, ThreadPhases,
     CallersAreActive, TargetsAreKnown, ForkersAreAlone, ShutdownIsSound,
     ScopesAreSound, RunsOnlyRegistered, RegistryIsSound, RecordOutcome, FinishEntry,
     Finished
<1>7. ShutdownIsSound'
  BY DEF IInv, TypeOK, ShutdownIsSound, RecordOutcome, FinishEntry, Finished
<1>8. ScopesAreSound'
  BY DEF IInv, TypeOK, ScopesAreSound, RecordOutcome, FinishEntry, Finished
<1>9. RunsOnlyRegistered'
  BY DEF IInv, TypeOK, RunsOnlyRegistered, RecordOutcome, FinishEntry, Finished
<1>10. QED
  BY <1>1, <1>2, <1>3, <1>4, <1>5, <1>6, <1>7, <1>8, <1>9 DEF IInv

\* Retirement moves a worker from the registry to the history.
LEMMA RetireEntryInv ==
  ASSUME IInv, NEW w \in Worker, RetireEntry(w)
  PROVE  IInv'
<1>a. /\ pc[w] = "exiting"
      /\ pc' = [pc EXCEPT ![w] = "dead"]
      /\ pc' \in [Thread -> Phases]
      /\ runtimes' = runtimes \ {w}
  BY DEF IInv, TypeOK, RetireEntry, Phases
<1>1. TypeOK' /\ RegistryIsSound'
  <2>1. CASE w \in runtimes
    <3>1. PICK S \in SUBSET (history \cup {w}) :
            /\ history' = (history \cup {w}) \ S
            /\ status' = Pruned(S, [status EXCEPT ![w] = RetiredStatus(w)])
      BY <2>1 DEF RetireEntry
    <3>2. \A v \in Worker : status'[v] = IF v \in S THEN "none"
                                         ELSE IF v = w THEN RetiredStatus(w) ELSE status[v]
      BY <3>1 DEF IInv, TypeOK, Pruned
    <3>3. RetiredStatus(w) \in Finals
      BY DEF RetiredStatus, Finished, Finals
    <3>4. status' \in [Worker -> Finals \cup {"none", "Running"}]
      BY <3>1, <3>2, <3>3 DEF IInv, TypeOK, Pruned
    <3>5. \A v \in Worker : status'[v] = "none" <=> v \notin runtimes' \cup history'
      <4>1. w \notin history
        BY <1>a DEF IInv, RegistryIsSound
      <4>2. \A v \in history : v \notin runtimes
        BY DEF IInv, RegistryIsSound
      <4>3. QED
        BY <3>1, <3>2, <3>3, <1>a, <4>1, <4>2, <2>1 DEF IInv, TypeOK, Finals
    <3>6. \A v \in history' : status'[v] \in Finals
      BY <3>1, <3>2, <3>3 DEF IInv, TypeOK
    <3>7. TypeOK'
      BY <1>a, <3>1, <3>4, <3>5, <3>6 DEF IInv, TypeOK, RetireEntry
    <3>8. RegistryIsSound'
      BY <1>a, <3>1 DEF IInv, TypeOK, RegistryIsSound, RetireEntry
    <3>9. QED  BY <3>7, <3>8
  <2>2. CASE w \notin runtimes
    <3>1. runtimes' = runtimes /\ UNCHANGED <<history, status>>
      BY <1>a, <2>2 DEF RetireEntry
    <3>2. TypeOK'
      BY <1>a, <3>1 DEF IInv, TypeOK, RetireEntry
    <3>3. RegistryIsSound'
      BY <1>a, <3>1 DEF IInv, TypeOK, RegistryIsSound, RetireEntry
    <3>4. QED  BY <3>2, <3>3
  <2>3. QED  BY <2>1, <2>2
<1>2. CallersAreActive' /\ TargetsAreKnown' /\ ForkersAreAlone'
  <2>1. CallersAreActive'
    BY <1>a DEF IInv, TypeOK, Holding, RetireEntry, CallersAreActive
  <2>2. TargetsAreKnown'
    BY <1>a DEF IInv, TypeOK, Holding, RetireEntry, TargetsAreKnown, CallersAreActive
  <2>3. ForkersAreAlone'
    BY <1>a DEF IInv, TypeOK, Holding, RetireEntry, ForkersAreAlone, TargetsAreKnown
  <2>4. QED  BY <2>1, <2>2, <2>3
<1>3. QED
  BY <1>1, <1>2, <1>a
  DEF IInv, TypeOK, ThreadPhases, ShutdownIsSound, ScopesAreSound, RunsOnlyRegistered,
     RetireEntry

\* Pruning forgets dead workers only.
LEMMA PruneHistoryInv ==
  ASSUME IInv, PruneHistory
  PROVE  IInv'
<1>1. TypeOK'
  BY DEF IInv, TypeOK, ThreadPhases, CallersAreActive, RegistryIsSound, Idle, Holding,
     Finals, Phases, Stages, PruneHistory, Pruned
<1>2. ThreadPhases'
  BY DEF IInv, TypeOK, ThreadPhases, PruneHistory, Pruned
<1>3. CallersAreActive'
  BY DEF IInv, TypeOK, CallersAreActive, PruneHistory, Pruned
<1>4. TargetsAreKnown'
  BY DEF IInv, TypeOK, Holding, TargetsAreKnown, PruneHistory, Pruned
<1>5. ForkersAreAlone'
  BY DEF IInv, TypeOK, Holding, ForkersAreAlone, PruneHistory, Pruned
<1>6. RegistryIsSound'
  BY DEF IInv, TypeOK, RegistryIsSound, PruneHistory, Pruned
<1>7. ShutdownIsSound'
  BY DEF IInv, TypeOK, ShutdownIsSound, PruneHistory, Pruned
<1>8. ScopesAreSound'
  BY DEF IInv, TypeOK, ScopesAreSound, PruneHistory, Pruned
<1>9. RunsOnlyRegistered'
  BY DEF IInv, TypeOK, RunsOnlyRegistered, PruneHistory, Pruned
<1>10. QED
  BY <1>1, <1>2, <1>3, <1>4, <1>5, <1>6, <1>7, <1>8, <1>9 DEF IInv

\* Closing the manager snapshots the registry.
LEMMA CloseManagerInv ==
  ASSUME IInv, CloseManager
  PROVE  IInv'
<1>1. TypeOK'
  BY DEF IInv, TypeOK, Finals, Phases, Stages, Idle, CloseManager, Finished
<1>2. ThreadPhases'
  BY DEF IInv, TypeOK, ThreadPhases, CloseManager, Finished
<1>3. CallersAreActive'
  BY DEF IInv, TypeOK, CallersAreActive, CloseManager, Finished
<1>4. TargetsAreKnown'
  BY DEF IInv, TypeOK, Holding, TargetsAreKnown, CloseManager, Finished
<1>5. ForkersAreAlone'
  BY DEF IInv, TypeOK, Holding, ForkersAreAlone, CloseManager, Finished
<1>6. RegistryIsSound'
  BY DEF IInv, TypeOK, RegistryIsSound, CloseManager, Finished
<1>7. ShutdownIsSound'
  BY DEF IInv, TypeOK, ShutdownIsSound, CloseManager, Finished
<1>8. ScopesAreSound'
  BY DEF IInv, TypeOK, ScopesAreSound, CloseManager, Finished
<1>9. RunsOnlyRegistered'
  BY DEF IInv, TypeOK, RunsOnlyRegistered, CloseManager, Finished
<1>10. QED
  BY <1>1, <1>2, <1>3, <1>4, <1>5, <1>6, <1>7, <1>8, <1>9 DEF IInv

\* The shutdown marks unfinished workers.
LEMMA MarkNextInv ==
  ASSUME IInv, NEW w \in Worker, MarkNext(w)
  PROVE  IInv'
<1>1. TypeOK'
  BY DEF IInv, TypeOK, Finals, Phases, Stages, Idle, MarkNext, Unmarked, FinishEntry,
     Finished
<1>2. ThreadPhases'
  BY DEF IInv, TypeOK, ThreadPhases, MarkNext, Unmarked, FinishEntry, Finished
<1>3. CallersAreActive'
  BY DEF IInv, TypeOK, CallersAreActive, MarkNext, Unmarked, FinishEntry, Finished
<1>4. TargetsAreKnown'
  BY DEF IInv, TypeOK, Holding, TargetsAreKnown, MarkNext, Unmarked, FinishEntry, Finished
<1>5. ForkersAreAlone'
  BY DEF IInv, TypeOK, Holding, ForkersAreAlone, MarkNext, Unmarked, FinishEntry, Finished
<1>6. RegistryIsSound'
  BY DEF IInv, TypeOK, RegistryIsSound, MarkNext, Unmarked, FinishEntry, Finished
<1>7. ShutdownIsSound'
  BY DEF IInv, TypeOK, ShutdownIsSound, MarkNext, Unmarked, FinishEntry, Finished
<1>8. ScopesAreSound'
  BY DEF IInv, TypeOK, ScopesAreSound, MarkNext, Unmarked, FinishEntry, Finished
<1>9. RunsOnlyRegistered'
  BY DEF IInv, TypeOK, RunsOnlyRegistered, MarkNext, Unmarked, FinishEntry, Finished
<1>10. QED
  BY <1>1, <1>2, <1>3, <1>4, <1>5, <1>6, <1>7, <1>8, <1>9 DEF IInv

\* Marking over, the sweep begins.
LEMMA BeginSweepInv ==
  ASSUME IInv, BeginSweep
  PROVE  IInv'
<1>1. TypeOK'
  BY DEF IInv, TypeOK, Finals, Phases, Stages, Idle, BeginSweep, Unmarked, Finished
<1>2. ThreadPhases'
  BY DEF IInv, TypeOK, ThreadPhases, BeginSweep, Unmarked, Finished
<1>3. CallersAreActive'
  BY DEF IInv, TypeOK, CallersAreActive, BeginSweep, Unmarked, Finished
<1>4. TargetsAreKnown'
  BY DEF IInv, TypeOK, Holding, TargetsAreKnown, BeginSweep, Unmarked, Finished
<1>5. ForkersAreAlone'
  BY DEF IInv, TypeOK, Holding, ForkersAreAlone, BeginSweep, Unmarked, Finished
<1>6. RegistryIsSound'
  BY DEF IInv, TypeOK, RegistryIsSound, BeginSweep, Unmarked, Finished
<1>7. ShutdownIsSound'
  BY DEF IInv, TypeOK, ShutdownIsSound, BeginSweep, Unmarked, Finished
<1>8. ScopesAreSound'
  BY DEF IInv, TypeOK, ScopesAreSound, BeginSweep, Unmarked, Finished
<1>9. RunsOnlyRegistered'
  BY DEF IInv, TypeOK, RunsOnlyRegistered, BeginSweep, Unmarked, Finished
<1>10. QED
  BY <1>1, <1>2, <1>3, <1>4, <1>5, <1>6, <1>7, <1>8, <1>9 DEF IInv

\* The sweep ends when the whole snapshot is dead.
LEMMA ShutdownDoneInv ==
  ASSUME IInv, ShutdownDone
  PROVE  IInv'
<1>1. TypeOK'
  BY DEF IInv, TypeOK, Finals, Phases, Stages, Idle, ShutdownDone, Over
<1>2. ThreadPhases'
  BY DEF IInv, TypeOK, ThreadPhases, ShutdownDone, Over
<1>3. CallersAreActive'
  BY DEF IInv, TypeOK, CallersAreActive, ShutdownDone, Over
<1>4. TargetsAreKnown'
  BY DEF IInv, TypeOK, Holding, TargetsAreKnown, ShutdownDone, Over
<1>5. ForkersAreAlone'
  BY DEF IInv, TypeOK, Holding, ForkersAreAlone, ShutdownDone, Over
<1>6. RegistryIsSound'
  BY DEF IInv, TypeOK, RegistryIsSound, ShutdownDone, Over
<1>7. ShutdownIsSound'
  BY DEF IInv, TypeOK, ShutdownIsSound, ShutdownDone, Over
<1>8. ScopesAreSound'
  BY DEF IInv, TypeOK, ScopesAreSound, ShutdownDone, Over
<1>9. RunsOnlyRegistered'
  BY DEF IInv, TypeOK, RunsOnlyRegistered, ShutdownDone, Over
<1>10. QED
  BY <1>1, <1>2, <1>3, <1>4, <1>5, <1>6, <1>7, <1>8, <1>9 DEF IInv

\* Every step of the manager and of its users keeps the invariant.
LEMMA NextInv ==
  ASSUME IInv, [Next]_vars
  PROVE  IInv'
<1>1. CASE Next
  <2>1. ASSUME NEW t \in Thread, ManagerStep(t)
        PROVE  IInv'
    BY <2>1, InsertRuntimeInv, OpenGateInv, RejectReturnInv, MarkCancelledInv,
       WaitReturnInv, CloseScopeInv, UnwoundInv DEF ManagerStep
  <2>2. ASSUME NEW t \in Thread, UserStep(t)
        PROVE  IInv'
    BY <2>2, ForkInv, BodyEndsInv, CancelInv, AwaitAnyInv DEF UserStep
  <2>3. ASSUME NEW w \in Worker, WorkerExit(w) \/ Exception(w)
        PROVE  IInv'
    BY <2>3, RecordOutcomeInv, RetireEntryInv, DeliverInv, SweepDeliverInv
    DEF WorkerExit, Exception
  <2>4. CASE Shutdown
    BY <2>4, CloseManagerInv, BeginSweepInv, ShutdownDoneInv, MarkNextInv DEF Shutdown
  <2>5. QED
    BY <1>1, <2>1, <2>2, <2>3, <2>4, InterruptMainInv, PruneHistoryInv DEF Next
<1>2. CASE UNCHANGED vars
  BY <1>2 DEF IInv, TypeOK, ThreadPhases, CallersAreActive, TargetsAreKnown,
     ForkersAreAlone, RegistryIsSound, ShutdownIsSound, ScopesAreSound,
     RunsOnlyRegistered, vars
<1>3. QED  BY <1>1, <1>2

\* The inductive invariant holds in every reachable state.
THEOREM Invariance == Spec => []IInv
<1>1. Init => IInv
  <2>1. SUFFICES ASSUME Init  PROVE  IInv
    OBVIOUS
  <2>2. pc = [t \in Thread |-> IF t = 0 THEN "body" ELSE "unborn"]
    BY <2>1 DEF Init
  <2>3. pc[Main] = "body" /\ \A w \in Worker : pc[w] = "unborn"
    <3>1. Main \in Thread /\ \A w \in Worker : w \in Thread /\ w # 0
      OBVIOUS
    <3>2. QED
      BY <2>2, <3>1 DEF Main
  <2>4. /\ \A t \in Thread : call[t].at = "none" /\ call[t].on = {}
        /\ \A t \in Thread : scope[t] = {} /\ kids[t] = {}
        /\ ~closing /\ runtimes = {} /\ history = {} /\ snap = {} /\ toKill = {}
        /\ nextId = 1
    BY <2>1 DEF Init, Idle
  <2>5. TypeOK
    <3>1. pc \in [Thread -> Phases]
      BY <2>2 DEF Phases
    <3>2. call \in [Thread -> [at : Stages, on : SUBSET Worker]]
      BY <2>1 DEF Init, Stages, Idle
    <3>3. scope \in [Thread -> SUBSET Worker] /\ kids \in [Thread -> SUBSET Worker]
      BY <2>1 DEF Init
    <3>4. status \in [Worker -> Finals \cup {"none", "Running"}]
      BY <2>1 DEF Init
    <3>5. \A w \in Worker : status[w] = "none"
      BY <2>1 DEF Init
    <3>6. nextId \in 1 .. MaxId + 1 /\ leaked = {}
      BY <2>1 DEF Init
    <3>7. closing \in BOOLEAN
      BY <2>1, Zenon DEF Init
    <3>8. QED
      BY <2>4, <3>1, <3>2, <3>3, <3>4, <3>5, <3>6, <3>7 DEF TypeOK
  <2>6. ThreadPhases
    BY <2>3, <2>4 DEF ThreadPhases
  <2>7. CallersAreActive /\ TargetsAreKnown /\ ForkersAreAlone
    BY <2>4 DEF CallersAreActive, TargetsAreKnown, ForkersAreAlone, Holding
  <2>8. RegistryIsSound /\ ShutdownIsSound /\ ScopesAreSound /\ RunsOnlyRegistered
    BY <2>3, <2>4 DEF RegistryIsSound, ShutdownIsSound, ScopesAreSound, RunsOnlyRegistered
  <2>9. QED
    BY <2>5, <2>6, <2>7, <2>8 DEF IInv
<1>2. IInv /\ [Next]_vars => IInv'
  BY NextInv
<1>3. QED
  BY <1>1, <1>2, PTL DEF Spec

\* The state of the manager is well typed: a worker has a status exactly while
\* it is registered or remembered, and a remembered one has ended.
THEOREM TypeCorrect == Spec => []TypeOK
<1>1. IInv => TypeOK
  BY DEF IInv
<1>2. QED  BY <1>1, Invariance, PTL

\* No worker runs user code unless the registry holds it.
THEOREM RegisteredWorkers == Spec => []RunsOnlyRegistered
<1>1. IInv => RunsOnlyRegistered
  BY DEF IInv
<1>2. QED  BY <1>1, Invariance, PTL

\* What was registered when the manager closed is all there is: with it dead,
\* nothing is registered any more.
LEMMA DoneMeansEmpty ==
  ASSUME IInv, \A w \in snap : pc[w] = "dead", closing
  PROVE  runtimes = {}
BY DEF IInv, RegistryIsSound, ShutdownIsSound

\* When the manager has shut down no worker is alive in it.
THEOREM ShutdownLeavesNothing == Spec => []NothingOutlivesShutdown
<1>1. IInv => NothingOutlivesShutdown
  <2>1. SUFFICES ASSUME IInv, pc[Main] = "done"
                 PROVE  /\ runtimes = {}
                        /\ \A w \in Worker : pc[w] \in {"unborn", "gate", "exiting", "dead"}
    BY DEF NothingOutlivesShutdown
  <2>2. runtimes = {}
    BY <2>1, DoneMeansEmpty DEF IInv, ShutdownIsSound
  <2>3. \A w \in Worker : pc[w] \notin {"body", "cleanup", "ended"}
    BY <2>1, <2>2 DEF IInv, RunsOnlyRegistered
  <2>4. QED
    BY <2>1, <2>2, <2>3 DEF IInv, ThreadPhases
<1>2. QED  BY <1>1, Invariance, PTL

\* A thread outlives no worker it scoped, but for interrupted releases.
THEOREM ScopesAreStructured == Spec => []ScopedWorkersEndFirst
<1>1. IInv => ScopedWorkersEndFirst
  BY DEF IInv, ScopesAreSound, ScopedWorkersEndFirst
<1>2. QED  BY <1>1, Invariance, PTL

-----------------------------------------------------------------------------
\* Recording a status leaves a finished one as it is.
LEMMA FinishEntryKeeps ==
  ASSUME TypeOK, NEW w \in Worker, NEW s \in Finals, FinishEntry(w, s), NEW v \in Worker, Finished(v)
  PROVE  status'[v] = status[v]
BY DEF TypeOK, FinishEntry, Finished

\* The first terminal status of a worker stands until it is forgotten.
THEOREM StatusIsFinal == Spec => FirstStatusWins
<1>1. IInv /\ [Next]_vars
        => [\A w \in Worker : Finished(w) => status'[w] \in {status[w], "none"}]_vars
  <2>1. SUFFICES ASSUME IInv, Next, NEW v \in Worker, Finished(v)
                 PROVE  status'[v] \in {status[v], "none"}
    OBVIOUS
  <2>2. ASSUME NEW t \in Thread, InsertRuntime(t)
        PROVE  status'[v] = status[v]
    <3>1. v \notin call[t].on
      BY <2>1, <2>2
      DEF IInv, TypeOK, TargetsAreKnown, RegistryIsSound, InsertRuntime, Finished, Finals
    <3>2. QED
      BY <2>1, <2>2, <3>1 DEF IInv, TypeOK, InsertRuntime
  <2>3. ASSUME NEW t \in Thread, MarkCancelled(t)
        PROVE  status'[v] = status[v]
    <3>1. PICK w \in call[t].on : FinishEntry(w, "Cancelled")
      BY <2>3 DEF MarkCancelled
    <3>2. w \in Worker /\ TypeOK /\ "Cancelled" \in Finals
      BY <2>1 DEF IInv, TypeOK, Finals
    <3>3. QED
      BY <2>1, <3>1, <3>2, FinishEntryKeeps
  <2>4. ASSUME NEW w \in Worker, RecordOutcome(w)
        PROVE  status'[v] = status[v]
    BY <2>1, <2>4, FinishEntryKeeps DEF IInv, RecordOutcome, Finals
  <2>5. ASSUME NEW w \in Worker, MarkNext(w)
        PROVE  status'[v] = status[v]
    BY <2>1, <2>5, FinishEntryKeeps DEF IInv, MarkNext, Finals
  <2>6. ASSUME NEW w \in Worker, RetireEntry(w)
        PROVE  status'[v] \in {status[v], "none"}
    BY <2>1, <2>6 DEF IInv, TypeOK, RetireEntry, Pruned, RetiredStatus, Finished
  <2>7. ASSUME PruneHistory
        PROVE  status'[v] \in {status[v], "none"}
    BY <2>1, <2>7 DEF IInv, TypeOK, PruneHistory, Pruned
  <2>8. ASSUME NEW t \in Thread,
               OpenGate(t) \/ RejectReturn(t) \/ WaitReturn(t) \/ CloseScope(t)
                 \/ Unwound(t) \/ UserStep(t)
        PROVE  status' = status
    BY <2>8 DEF OpenGate, RejectReturn, WaitReturn, CloseScope, Unwound, UserStep,
       Fork, BodyEnds, Cancel, AwaitAny
  <2>9. ASSUME NEW w \in Worker, Exception(w)
        PROVE  status' = status
    BY <2>9 DEF Exception, Deliver, SweepDeliver, Interrupted
  <2>10. ASSUME InterruptMain \/ CloseManager \/ BeginSweep \/ ShutdownDone
         PROVE  status' = status
    BY <2>10 DEF InterruptMain, Interrupted, CloseManager, BeginSweep, ShutdownDone
  <2>11. QED
    BY <2>1, <2>2, <2>3, <2>4, <2>5, <2>6, <2>7, <2>8, <2>9, <2>10
    DEF Next, ManagerStep, WorkerExit, Shutdown
<1>2. QED
  BY <1>1, Invariance, PTL DEF Spec, FirstStatusWins

-----------------------------------------------------------------------------
\* What the abstract owner does not see of a step.
Unseen ==
  /\ runtimes' = runtimes /\ closing' = closing
  /\ \A w \in Worker : pc'[w] = "dead" <=> pc[w] = "dead"
  /\ pc'[Main] = "done" <=> pc[Main] = "done"

\* Such a step is a stutter of the abstract owner.
LEMMA UnseenStutters ==
  ASSUME Unseen
  PROVE  UNCHANGED Ownership!vars
<1>1. {w \in Worker : pc'[w] = "dead"} = {w \in Worker : pc[w] = "dead"}
  BY DEF Unseen
<1>2. QED
  BY <1>1 DEF Unseen, Ownership!vars

\* Registration admits one task; a refused one is not seen yet.
LEMMA InsertRuntimeAdmits ==
  ASSUME IInv, NEW t \in Thread, InsertRuntime(t)
  PROVE  Unseen \/ \E w \in Worker : Ownership!Admit(w)
<1>1. PICK w \in Worker : call[t].on = {w}
  BY DEF IInv, CallersAreActive, IsOne, InsertRuntime
<1>2. pc[w] = "gate" /\ w \notin runtimes
  BY <1>1 DEF IInv, TargetsAreKnown, InsertRuntime
<1>3. CASE closing
  BY <1>3 DEF Unseen, InsertRuntime, Admitting
<1>4. CASE ~closing
  <2>1. /\ runtimes' = runtimes \cup {w}
        /\ UNCHANGED <<closing, pc>>
    BY <1>1, <1>4 DEF InsertRuntime, Admitting
  <2>2. QED
    BY <1>2, <1>4, <2>1 DEF Ownership!Admit
<1>5. QED  BY <1>3, <1>4

\* Retirement ends a registered task; an unregistered one was refused, which
\* only a closing manager does.
LEMMA RetireEntryEnds ==
  ASSUME IInv, NEW w \in Worker, RetireEntry(w)
  PROVE  Ownership!End(w) \/ Ownership!Refuse(w)
<1>1. /\ pc[w] = "exiting" /\ runtimes' = runtimes \ {w} /\ closing' = closing
      /\ pc' = [pc EXCEPT ![w] = "dead"] /\ pc \in [Thread -> Phases]
  BY DEF IInv, TypeOK, RetireEntry
<1>2. /\ {v \in Worker : pc'[v] = "dead"} = {v \in Worker : pc[v] = "dead"} \cup {w}
      /\ pc'[Main] = pc[Main]
  BY <1>1
<1>3. CASE w \in runtimes
  BY <1>1, <1>2, <1>3 DEF Ownership!End
<1>4. CASE w \notin runtimes
  <2>1. closing /\ runtimes' = runtimes
    BY <1>1, <1>4 DEF IInv, RegistryIsSound
  <2>2. QED
    BY <1>1, <1>2, <1>4, <2>1 DEF Ownership!Refuse
<1>5. QED  BY <1>3, <1>4

\* Closing the manager closes the door.
LEMMA CloseManagerCloses ==
  ASSUME IInv, CloseManager
  PROVE  Ownership!Close
<1>1. /\ ~closing /\ closing' = TRUE /\ runtimes' = runtimes
      /\ pc[Main] = "close" /\ pc' = [pc EXCEPT ![Main] = "mark"]
      /\ pc \in [Thread -> Phases]
  BY DEF IInv, TypeOK, ShutdownIsSound, CloseManager
<1>2. /\ {v \in Worker : pc'[v] = "dead"} = {v \in Worker : pc[v] = "dead"}
      /\ pc'[Main] # "done"
  BY <1>1
<1>3. QED
  BY <1>1, <1>2 DEF Ownership!Close

\* The manager calls itself done with nothing registered.
LEMMA ShutdownDoneDrains ==
  ASSUME IInv, ShutdownDone
  PROVE  Ownership!Drain
<1>1. /\ closing /\ closing' = closing /\ runtimes' = runtimes
      /\ pc[Main] = "sweep" /\ pc' = [pc EXCEPT ![Main] = "done"]
      /\ pc \in [Thread -> Phases] /\ \A w \in snap : pc[w] = "dead"
  BY DEF IInv, TypeOK, ShutdownIsSound, ShutdownDone, Over
<1>2. runtimes = {}
  BY <1>1, DoneMeansEmpty
<1>3. /\ {v \in Worker : pc'[v] = "dead"} = {v \in Worker : pc[v] = "dead"}
      /\ pc'[Main] = "done"
  BY <1>1
<1>4. QED
  BY <1>1, <1>2, <1>3 DEF Ownership!Drain

\* An exception ends no worker by itself.
LEMMA InterruptedUnseen ==
  ASSUME IInv, NEW t \in Thread, Interrupted(t)
  PROVE  Unseen
<1>1. /\ pc[t] \in {"gate", "ended", "body", "cleanup"}
      /\ \E p \in {"exiting", "cleanup"} : pc' = [pc EXCEPT ![t] = p]
      /\ pc \in [Thread -> Phases] /\ UNCHANGED <<runtimes, closing>>
  BY DEF IInv, TypeOK, Interrupted, Interruptible
<1>2. QED
  BY <1>1 DEF Unseen

\* The manager implements the abstract task owner.
THEOREM Refinement == Spec => OwnsItsTasks
<1>1. Init => Ownership!Init
  <2>1. Init => \A w \in Worker : pc[w] = "unborn"
    BY DEF Init
  <2>2. Init => {w \in Worker : pc[w] = "dead"} = {}
    BY <2>1
  <2>3. QED
    BY <2>2 DEF Init, Ownership!Init
<1>2. IInv /\ [Next]_vars => [Ownership!Next]_(Ownership!vars)
  <2>1. SUFFICES ASSUME IInv, [Next]_vars
                 PROVE  Unseen \/ Ownership!Next
    BY UnseenStutters
  <2>2. CASE UNCHANGED vars
    BY <2>2 DEF vars, Unseen
  <2>3. ASSUME NEW t \in Thread,
               OpenGate(t) \/ RejectReturn(t) \/ Fork(t) \/ BodyEnds(t) \/ Unwound(t)
        PROVE  Unseen
    <3>1. TypeOK /\ ThreadPhases /\ CallersAreActive
      BY <2>1 DEF IInv
    <3>2. CASE OpenGate(t)
      BY <3>1, <3>2 DEF TypeOK, ThreadPhases, OpenGate, Unseen
    <3>3. CASE RejectReturn(t)
      BY <3>1, <3>3 DEF TypeOK, CallersAreActive, RejectReturn, Unseen
    <3>4. CASE Fork(t)
      BY <3>1, <3>4 DEF TypeOK, ThreadPhases, Fork, Unseen
    <3>5. CASE BodyEnds(t) \/ Unwound(t)
      BY <3>1, <3>5 DEF TypeOK, BodyEnds, Unwound, Unseen
    <3>6. QED  BY <2>3, <3>2, <3>3, <3>4, <3>5
  <2>4. ASSUME NEW t \in Thread,
               MarkCancelled(t) \/ WaitReturn(t) \/ CloseScope(t)
                 \/ (\E w \in Worker : Cancel(t, w)) \/ (\E W \in SUBSET Worker : AwaitAny(t, W))
        PROVE  Unseen
    BY <2>4 DEF MarkCancelled, WaitReturn, CloseScope, Cancel, AwaitAny, Unseen
  <2>5. ASSUME NEW w \in Worker, RecordOutcome(w)
        PROVE  Unseen
    BY <2>1, <2>5 DEF IInv, TypeOK, RecordOutcome, Unseen
  <2>6. ASSUME NEW w \in Worker, Exception(w)
        PROVE  Unseen
    BY <2>1, <2>6, InterruptedUnseen DEF Exception, Deliver, SweepDeliver
  <2>7. ASSUME InterruptMain
        PROVE  Unseen
    BY <2>1, <2>7, InterruptedUnseen DEF InterruptMain
  <2>8. ASSUME PruneHistory \/ BeginSweep \/ \E w \in Worker : MarkNext(w)
        PROVE  Unseen
    <3>1. pc \in [Thread -> Phases]
      BY <2>1 DEF IInv, TypeOK
    <3>2. CASE PruneHistory \/ \E w \in Worker : MarkNext(w)
      BY <3>2 DEF PruneHistory, MarkNext, Unseen
    <3>3. CASE BeginSweep
      BY <3>1, <3>3 DEF BeginSweep, Unseen
    <3>4. QED  BY <2>8, <3>2, <3>3
  <2>9. ASSUME NEW t \in Thread, InsertRuntime(t)
        PROVE  Unseen \/ Ownership!Next
    BY <2>1, <2>9, InsertRuntimeAdmits DEF Ownership!Next
  <2>10. ASSUME NEW w \in Worker, RetireEntry(w)
         PROVE  Ownership!Next
    BY <2>1, <2>10, RetireEntryEnds DEF Ownership!Next
  <2>11. CASE CloseManager
    BY <2>1, <2>11, CloseManagerCloses DEF Ownership!Next
  <2>12. CASE ShutdownDone
    BY <2>1, <2>12, ShutdownDoneDrains DEF Ownership!Next
  <2>13. QED
    BY <2>1, <2>2, <2>3, <2>4, <2>5, <2>6, <2>7, <2>8, <2>9, <2>10, <2>11, <2>12
    DEF Next, ManagerStep, UserStep, WorkerExit, Shutdown
<1>3. QED
  BY <1>1, <1>2, Invariance, PTL DEF Spec, OwnsItsTasks, Ownership!Spec

-----------------------------------------------------------------------------
(* The manager pages.  What is proved is about a page's view, v, that the  *)
(* handlers turn into another, w.  A view is in order (ViewFits) when what *)
(* its drawer shows, its route, its dialog and the calls it waits for      *)
(* agree; each handler keeps that, whatever has happened while its answer  *)
(* was under way.                                                          *)
CONSTANTS Visited, Item, NoItem, MaxCall, MaxTrouble
M == INSTANCE ManagerPages

ViewFields == {"page", "conn", "calls", "route", "listed", "loading", "loaded", "error", "selected", "detail",
               "busy", "visible", "hiding", "pending", "dialog"}
CallFields == {"id", "what", "item", "act", "to", "page", "got", "list"}
What       == {"list", "detail", "act"}
Of(v, what) == {c \in v.calls : c.what = what}

(* The actions that a page's buttons begin; only those of Resources differ *)
(* in what is done when they are answered.                                 *)
ActOf(p) == IF p = "resources" THEN {"rename", "keep", "destroy"} ELSE M!Act

CallShaped(p, c) ==
    /\ DOMAIN c = CallFields /\ c.what \in What
    /\ c.what = "act" => c.act \in ActOf(p)
Shaped(v) ==
    /\ DOMAIN v = ViewFields /\ v.page \in Visited
    /\ \A c \in v.calls : CallShaped(v.page, c)
    /\ v.busy \in BOOLEAN /\ v.visible \in BOOLEAN /\ v.hiding \in BOOLEAN /\ v.error \in BOOLEAN
    /\ v.hiding => v.page \in M!Routed

(* One detail is awaited, of the item the page is about. *)
DetailsFit(v) ==
    /\ v.page \in {"schedules", "plugins"} => Of(v, "detail") = {}
    /\ v.page # "tasks" => \A c, d \in Of(v, "detail") : c = d
    /\ \A c \in Of(v, "detail") :
         /\ v.page \in {"resources", "media"} => c.item = v.route
         /\ v.page = "resources" => c.item = v.selected
         /\ v.page = "memory" => v.busy

(* An open drawer shows what the route names, or will; a detail is that of *)
(* what is selected, or the page reports an error or waits.                *)
DrawerFits(v) ==
    /\ v.page \in {"resources", "schedules"} => (v.visible => v.selected = v.route)
    /\ v.page = "media" => (v.visible => v.selected = v.route \/ Of(v, "detail") # {})
    /\ v.page \in {"schedules", "skills", "plugins", "media"} => v.detail = None
    /\ v.page = "resources" => v.detail \in {None, v.selected} \/ v.error \/ Of(v, "detail") # {}
    /\ v.page = "memory" => v.detail \in {None, v.selected} \/ v.selected = None \/ v.error \/ Of(v, "list") # {}

(* While a dialog is open the item it is about stays, or nothing is chosen. *)
DialogFits(v) ==
    v.dialog # None =>
      /\ v.dialog.items # {} /\ v.dialog.act \in ActOf(v.page)
      /\ v.page = "schedules" => \E i \in v.dialog.items : {v.selected, v.route} \subseteq {i, None}
      /\ v.page = "memory" => /\ v.selected \in v.dialog.items \cup {None} /\ Of(v, "act") = {}
                              /\ \A c \in Of(v, "detail") : c.item \in v.dialog.items

(* Memory, which begins an action without asking whether one is pending,   *)
(* has one in flight at most: its button waits for it.                     *)
PendingFits(v) ==
    v.page = "memory" =>
      /\ v.pending = None => Of(v, "act") = {}
      /\ \A c, d \in Of(v, "act") : c = d
      /\ Of(v, "act") # {} => v.dialog = None

ViewFits(v) == Shaped(v) /\ DetailsFit(v) /\ DrawerFits(v) /\ DialogFits(v) /\ PendingFits(v)
PageInv == ViewFits(view)

(* Once an action has been answered the media page asks for a listing that *)
(* replaces the earlier ones; until then there is one that will do.        *)
Up(c) == c.got = "none" \/ (c.got = "ok" /\ c.list = server)
MediaFits ==
    view.page = "media" /\ troubles = 0 =>
      /\ M!Live(view) /\ \A c \in view.calls : M!Failed(c) => c.what = "act" /\ c.act # "gc"
      /\ \/ Of(view, "act") # {}
         \/ /\ \A c \in Of(view, "list") : Up(c)
            /\ view.listed = server \/ Of(view, "list") # {}

-----------------------------------------------------------------------------
(* w differs from v in these fields alone; c is a call just made in v.     *)
Changes(v, w, fields) == DOMAIN w = ViewFields /\ \A f \in ViewFields \ fields : w[f] = v[f]
Fresh(v, c) == c.list = {} /\ c.got = IF M!Live(v) THEN "none" ELSE "rejected"

(* A call adds itself to those in flight and changes nothing else.         *)
LEMMA CallDoes ==
    ASSUME NEW v, Shaped(v), NEW what \in What, NEW item, NEW act, NEW to, what = "act" => act \in ActOf(v.page)
    PROVE  \E c : LET w == M!Call(v, what, item, act, to)
                  IN /\ Shaped(w) /\ Changes(v, w, {"calls"}) /\ w.calls = v.calls \cup {c}
                     /\ Fresh(v, c) /\ c.what = what /\ c.item = item /\ c.act = act /\ c.to = to
                     /\ Of(w, what) = Of(v, what) \cup {c} /\ \A k : k # what => Of(w, k) = Of(v, k)
  <1> DEFINE c == [id |-> M!FreeId(v, what, item), what |-> what, item |-> item, act |-> act, to |-> to, page |-> v.page,
                   got |-> IF M!Live(v) THEN "none" ELSE "rejected", list |-> {}]
             w == M!Call(v, what, item, act, to)
  <1>1. w = [v EXCEPT !.calls = v.calls \cup {c}]
    BY DEF M!Call
  <1>2. /\ DOMAIN c = CallFields /\ c.what = what /\ c.item = item /\ c.act = act /\ c.to = to
        /\ c.list = {} /\ c.got = IF M!Live(v) THEN "none" ELSE "rejected"
    BY DEF CallFields
  <1> HIDE DEF c, w
  <1>3. Changes(v, w, {"calls"}) /\ w.calls = v.calls \cup {c}
    BY <1>1 DEF Changes, Shaped, ViewFields
  <1>4. Shaped(w)
    BY <1>2, <1>3 DEF Changes, Shaped, CallShaped, ViewFields
  <1>5. Of(w, what) = Of(v, what) \cup {c} /\ \A k : k # what => Of(w, k) = Of(v, k)
    BY <1>2, <1>3 DEF Of
  <1> QED
    BY <1>2, <1>3, <1>4, <1>5 DEF Fresh, w

(* What is superseded of a kind is forgotten, and nothing else changes.    *)
LEMMA SupersedeDoes ==
    ASSUME NEW v, Shaped(v), NEW what
    PROVE  LET w == M!Supersede(v, what)
           IN /\ Shaped(w) /\ Changes(v, w, {"calls"}) /\ w.calls \subseteq v.calls
              /\ Of(w, what) = {} /\ \A k : k # what => Of(w, k) = Of(v, k)
  <1> DEFINE w == M!Supersede(v, what)
  <1>1. Changes(v, w, {"calls"}) /\ w.calls = {c \in v.calls : c.what # what}
    BY DEF M!Supersede, Changes, Shaped, ViewFields
  <1> HIDE DEF w
  <1>2. Shaped(w)
    BY <1>1 DEF Changes, Shaped, ViewFields
  <1>3. Of(w, what) = {} /\ \A k : k # what => Of(w, k) = Of(v, k)
    BY <1>1 DEF Of
  <1> QED
    BY <1>1, <1>2, <1>3 DEF w

(* Showing or hiding the drawer changes no more than the drawer.           *)
LEMMA VisibleDoes ==
    ASSUME NEW v, Shaped(v), NEW b \in BOOLEAN, v.page \in M!Routed
    PROVE  LET w == M!Visible(v, b)
           IN Shaped(w) /\ Changes(v, w, {"visible", "hiding"}) /\ w.visible = b
  <1>1. Changes(v, M!Visible(v, b), {"visible", "hiding"}) /\ M!Visible(v, b).visible = b /\ M!Visible(v, b).hiding \in BOOLEAN
    BY DEF M!Visible, Shaped, Changes, ViewFields
  <1> QED
    BY <1>1 DEF Shaped, Changes, ViewFields

(* What no longer waits for a detail differs in nothing else.              *)
LEMMA IdleDoes ==
    ASSUME NEW v, Shaped(v)
    PROVE  Shaped(M!Idle(v)) /\ Changes(v, M!Idle(v), {"pending"})
  BY DEF M!Idle, Shaped, Changes, ViewFields

(* The calls of each kind are determined by the calls in flight.           *)
LEMMA OfSame ==
    ASSUME NEW v, NEW w, w.calls = v.calls
    PROVE  \A k : Of(w, k) = Of(v, k)
  BY DEF Of

(* Two handlers in a row change what either of them may.                   *)
LEMMA ChangesThrough ==
    ASSUME NEW u, NEW v, NEW w, NEW F, NEW G, Changes(u, v, F), Changes(v, w, G)
    PROVE  Changes(u, w, F \cup G)
  BY DEF Changes

-----------------------------------------------------------------------------
(* What a page does when it shows what its route names depends on little   *)
(* of what it shows.                                                       *)
Selectable(v) ==
    /\ Shaped(v) /\ DialogFits(v) /\ PendingFits(v)
    /\ v.page = "schedules" => Of(v, "detail") = {}
    /\ v.page \in {"schedules", "media"} => v.detail = None

Selecting == {"calls", "selected", "detail", "visible", "hiding", "error", "pending"}

(* A handler that asks for nothing but details. *)
Selects(v, w) ==
    /\ Shaped(w) /\ Changes(v, w, Selecting)
    /\ Of(w, "list") = Of(v, "list") /\ Of(w, "act") = Of(v, "act")
    /\ \A c \in w.calls : c \in v.calls \/ Fresh(v, c)

(* What Tasks does for its route: it asks for a detail, or shows what it   *)
(* has.                                                                    *)
LEMMA SelectTaskDoes ==
    ASSUME NEW v, Shaped(v), v.page = "tasks"
    PROVE  Selects(v, M!SelectTask(v))
  <1> v.page \in M!Routed
    BY DEF M!Routed
  <1>1. CASE v.route = None
    BY <1>1 DEF M!SelectTask, Selects, Changes, Selecting, Shaped
  <1>2. CASE v.route # None /\ M!Live(v)
    <2>1. M!SelectTask(v) = M!Call(v, "detail", v.route, None, None)
      BY <1>2 DEF M!SelectTask
    <2> QED
      BY <2>1, CallDoes DEF Selects, Changes, Selecting, What
  <1>3. CASE v.route # None /\ ~M!Live(v) /\ v.route \in v.listed
    <2> DEFINE x == [v EXCEPT !.selected = v.route]
    <2>1. Shaped(x) /\ Changes(v, x, {"selected"})
      BY DEF Shaped, Changes, ViewFields
    <2>2. M!SelectTask(v) = M!Visible(x, TRUE)
      BY <1>3 DEF M!SelectTask
    <2> HIDE DEF x
    <2>3. Shaped(M!Visible(x, TRUE)) /\ Changes(x, M!Visible(x, TRUE), {"visible", "hiding"})
      BY <2>1, VisibleDoes DEF Changes, ViewFields
    <2> QED
      BY <2>1, <2>2, <2>3, OfSame DEF Selects, Changes, Selecting, ViewFields
  <1>4. CASE v.route # None /\ ~M!Live(v) /\ v.route \notin v.listed
    <2> DEFINE x == [v EXCEPT !.selected = None]
    <2>1. Shaped(x) /\ Changes(v, x, {"selected"})
      BY DEF Shaped, Changes, ViewFields
    <2>2. M!SelectTask(v) = M!Visible(x, FALSE)
      BY <1>4 DEF M!SelectTask
    <2> HIDE DEF x
    <2>3. Shaped(M!Visible(x, FALSE)) /\ Changes(x, M!Visible(x, FALSE), {"visible", "hiding"})
      BY <2>1, VisibleDoes DEF Changes, ViewFields
    <2> QED
      BY <2>1, <2>2, <2>3, OfSame DEF Selects, Changes, Selecting, ViewFields
  <1> QED
    BY <1>1, <1>2, <1>3, <1>4

(* What Schedules does for its route: it asks for nothing, and an open     *)
(* drawer shows what the route names.                                      *)
LEMMA SelectScheduleDoes ==
    ASSUME NEW v, Shaped(v), v.page = "schedules"
    PROVE  LET w == M!SelectSchedule(v)
           IN /\ Selects(v, w) /\ w.calls = v.calls /\ w.detail = v.detail
              /\ w.visible => w.selected = v.route
              /\ w.selected \in {None, v.selected, v.route}
  <1> DEFINE w == M!SelectSchedule(v)
  <1> v.page \in M!Routed
    BY DEF M!Routed
  <1>1. /\ Changes(v, w, {"selected", "visible", "hiding", "error"}) /\ w.calls = v.calls
        /\ w.visible \in BOOLEAN /\ w.hiding \in BOOLEAN /\ w.error \in BOOLEAN
        /\ w.visible => w.selected = v.route
        /\ w.selected \in {None, v.selected, v.route}
    BY DEF M!SelectSchedule, M!Visible, Shaped, Changes, ViewFields
  <1> HIDE DEF w
  <1>2. Shaped(w) /\ w.detail = v.detail
    BY <1>1 DEF Shaped, Changes, ViewFields
  <1>3. Selects(v, w)
    BY <1>1, <1>2, OfSame DEF Selects, Changes, Selecting
  <1> QED
    BY <1>1, <1>2, <1>3 DEF w

(* What Resources does for its route: it waits for at most the detail of   *)
(* what the route names, and an open drawer shows that.                    *)
LEMMA SelectResourceDoes ==
    ASSUME NEW u, Shaped(u), u.page = "resources"
    PROVE  LET w == M!SelectResource(u)
           IN /\ Selects(u, w)
              /\ \A c, d \in Of(w, "detail") : c = d /\ c.item = u.route /\ w.selected = u.route
              /\ w.visible => w.selected = u.route
              /\ w.detail \in {None, w.selected} \/ w.error \/ Of(w, "detail") # {}
  <1> DEFINE v == M!Supersede(u, "detail")
             x == [v EXCEPT !.selected = v.route]
             shown == M!Visible(x, TRUE)
             w == M!SelectResource(u)
  <1> u.page \in M!Routed
    BY DEF M!Routed
  <1>1. /\ Shaped(v) /\ Changes(u, v, {"calls"}) /\ v.calls \subseteq u.calls /\ Of(v, "detail") = {}
        /\ Of(v, "list") = Of(u, "list") /\ Of(v, "act") = Of(u, "act") /\ v.page = u.page /\ v.route = u.route
    BY SupersedeDoes DEF Changes, ViewFields
  <1>2. w = IF v.route = None THEN M!Idle(M!Visible([v EXCEPT !.selected = None, !.detail = None], FALSE))
            ELSE IF v.route \notin v.listed THEN M!Visible([v EXCEPT !.error = TRUE], FALSE)
            ELSE IF M!Live(v) THEN M!Call([shown EXCEPT !.pending = "detail"], "detail", v.route, None, None)
            ELSE [shown EXCEPT !.detail = v.route]
    BY DEF M!SelectResource
  <1> HIDE DEF v, w
  <1>3. CASE v.route = None
    <2> DEFINE y == [v EXCEPT !.selected = None, !.detail = None]
    <2>1. Shaped(y) /\ Changes(v, y, {"selected", "detail"}) /\ y.detail = None /\ y.selected = None
      BY <1>1 DEF Shaped, Changes, ViewFields
    <2> DEFINE z == M!Visible(y, FALSE)
    <2> HIDE DEF y
    <2>2. Shaped(z) /\ Changes(y, z, {"visible", "hiding"}) /\ z.visible = FALSE
      BY <1>1, <2>1, VisibleDoes DEF Changes, ViewFields
    <2> HIDE DEF z
    <2>3. w = M!Idle(z) /\ Shaped(w) /\ Changes(z, w, {"pending"})
      BY <1>2, <1>3, <2>2, IdleDoes DEF z, y
    <2>4. Changes(u, w, Selecting) /\ w.calls = v.calls /\ w.detail = None /\ w.selected = None /\ w.visible = FALSE
      BY <1>1, <2>1, <2>2, <2>3 DEF Changes, Selecting, ViewFields
    <2>5. \A k : Of(w, k) = Of(v, k)
      BY <2>4, OfSame
    <2> QED
      BY <1>1, <2>3, <2>4, <2>5 DEF Selects, w
  <1>4. CASE v.route # None /\ v.route \notin v.listed
    <2> DEFINE y == [v EXCEPT !.error = TRUE]
    <2>1. Shaped(y) /\ Changes(v, y, {"error"}) /\ y.error = TRUE
      BY <1>1 DEF Shaped, Changes, ViewFields
    <2> HIDE DEF y
    <2>2. w = M!Visible(y, FALSE)
      BY <1>2, <1>4 DEF y
    <2>3. Shaped(w) /\ Changes(y, w, {"visible", "hiding"}) /\ w.visible = FALSE
      <3>1. LET z == M!Visible(y, FALSE) IN Shaped(z) /\ Changes(y, z, {"visible", "hiding"}) /\ z.visible = FALSE
        BY <1>1, <2>1, VisibleDoes DEF Changes, ViewFields
      <3> QED
        BY <2>2, <3>1
    <2>4. Changes(u, w, Selecting) /\ w.calls = v.calls /\ w.error
      BY <1>1, <2>1, <2>2, <2>3 DEF Changes, Selecting, ViewFields
    <2>5. \A k : Of(w, k) = Of(v, k)
      BY <2>4, OfSame
    <2> QED
      BY <1>1, <2>3, <2>4, <2>5 DEF Selects, w
  <1>5. CASE v.route # None /\ v.route \in v.listed
    <2>1. Shaped(x) /\ Changes(v, x, {"selected"}) /\ x.selected = v.route
      BY <1>1 DEF Shaped, Changes, ViewFields
    <2> HIDE DEF x
    <2>2. Shaped(shown) /\ Changes(x, shown, {"visible", "hiding"}) /\ shown.visible = TRUE
      BY <1>1, <2>1, VisibleDoes DEF Changes, ViewFields
    <2> HIDE DEF shown
    <2>3. CASE M!Live(v)
      <3> DEFINE y == [shown EXCEPT !.pending = "detail"]
      <3>1. Shaped(y) /\ Changes(shown, y, {"pending"})
        BY <2>2 DEF Shaped, Changes, ViewFields
      <3> HIDE DEF y
      <3>2. w = M!Call(y, "detail", v.route, None, None)
        BY <1>2, <1>5, <2>3 DEF y, shown
      <3>3. PICK c : /\ Shaped(w) /\ Changes(y, w, {"calls"}) /\ w.calls = y.calls \cup {c}
                     /\ Fresh(y, c) /\ c.item = v.route
                     /\ Of(w, "detail") = Of(y, "detail") \cup {c} /\ \A k : k # "detail" => Of(w, k) = Of(y, k)
        BY <3>1, <3>2, CallDoes DEF What
      <3>4. /\ Changes(u, w, Selecting) /\ y.calls = v.calls /\ w.selected = v.route /\ y.conn = u.conn
        BY <1>1, <2>1, <2>2, <3>1, <3>3 DEF Changes, Selecting, ViewFields
      <3>5. \A k : Of(y, k) = Of(v, k)
        BY <3>4, OfSame
      <3> QED
        BY <1>1, <3>3, <3>4, <3>5 DEF Selects, Fresh, M!Live, w
    <2>4. CASE ~M!Live(v)
      <3>1. w = [shown EXCEPT !.detail = v.route]
        BY <1>2, <1>5, <2>4 DEF shown
      <3>2. Shaped(w) /\ Changes(shown, w, {"detail"}) /\ w.detail = v.route
        BY <2>2, <3>1 DEF Shaped, Changes, ViewFields
      <3>3. Changes(u, w, Selecting) /\ w.calls = v.calls /\ w.selected = v.route
        BY <1>1, <2>1, <2>2, <3>2 DEF Changes, Selecting, ViewFields
      <3>4. \A k : Of(w, k) = Of(v, k)
        BY <3>3, OfSame
      <3> QED
        BY <1>1, <3>2, <3>3, <3>4 DEF Selects, w
    <2> QED
      BY <2>3, <2>4
  <1> QED
    BY <1>3, <1>4, <1>5

(* What Media does for its route: it waits for the detail of what the      *)
(* route names before the drawer shows it.                                 *)
LEMMA SelectMediaDoes ==
    ASSUME NEW u, Shaped(u), u.page = "media"
    PROVE  LET w == M!SelectMedia(u)
           IN /\ Selects(u, w) /\ w.detail = u.detail
              /\ \A c, d \in Of(w, "detail") : c = d /\ c.item = u.route
              /\ w.visible => Of(w, "detail") # {}
  <1> DEFINE v == M!Supersede(u, "detail")
             w == M!SelectMedia(u)
  <1> u.page \in M!Routed
    BY DEF M!Routed
  <1>1. /\ Shaped(v) /\ Changes(u, v, {"calls"}) /\ v.calls \subseteq u.calls /\ Of(v, "detail") = {}
        /\ Of(v, "list") = Of(u, "list") /\ Of(v, "act") = Of(u, "act") /\ v.page = u.page /\ v.route = u.route
    BY SupersedeDoes DEF Changes, ViewFields
  <1>2. w = IF v.route = None THEN M!Idle(M!Visible([v EXCEPT !.selected = None], FALSE))
            ELSE M!Call([v EXCEPT !.pending = "detail"], "detail", v.route, None, None)
    BY DEF M!SelectMedia
  <1> HIDE DEF v, w
  <1>3. CASE v.route = None
    <2> DEFINE y == [v EXCEPT !.selected = None]
    <2>1. Shaped(y) /\ Changes(v, y, {"selected"})
      BY <1>1 DEF Shaped, Changes, ViewFields
    <2> DEFINE z == M!Visible(y, FALSE)
    <2> HIDE DEF y
    <2>2. Shaped(z) /\ Changes(y, z, {"visible", "hiding"}) /\ z.visible = FALSE
      BY <1>1, <2>1, VisibleDoes DEF Changes, ViewFields
    <2> HIDE DEF z
    <2>3. w = M!Idle(z) /\ Shaped(w) /\ Changes(z, w, {"pending"})
      BY <1>2, <1>3, <2>2, IdleDoes DEF z, y
    <2>4. Changes(u, w, Selecting) /\ w.calls = v.calls /\ w.detail = u.detail /\ w.visible = FALSE
      BY <1>1, <2>1, <2>2, <2>3 DEF Changes, Selecting, ViewFields
    <2>5. \A k : Of(w, k) = Of(v, k)
      BY <2>4, OfSame
    <2> QED
      BY <1>1, <2>3, <2>4, <2>5 DEF Selects, w
  <1>4. CASE v.route # None
    <2> DEFINE y == [v EXCEPT !.pending = "detail"]
    <2>1. Shaped(y) /\ Changes(v, y, {"pending"})
      BY <1>1 DEF Shaped, Changes, ViewFields
    <2> HIDE DEF y
    <2>2. w = M!Call(y, "detail", v.route, None, None)
      BY <1>2, <1>4 DEF y
    <2>3. PICK c : /\ Shaped(w) /\ Changes(y, w, {"calls"}) /\ w.calls = y.calls \cup {c}
                   /\ Fresh(y, c) /\ c.item = v.route
                   /\ Of(w, "detail") = Of(y, "detail") \cup {c} /\ \A k : k # "detail" => Of(w, k) = Of(y, k)
      BY <2>1, <2>2, CallDoes DEF What
    <2>4. Changes(u, w, Selecting) /\ y.calls = v.calls /\ w.detail = u.detail /\ y.conn = u.conn
      BY <1>1, <2>1, <2>3 DEF Changes, Selecting, ViewFields
    <2>5. \A k : Of(y, k) = Of(v, k)
      BY <2>4, OfSame
    <2> QED
      BY <1>1, <2>3, <2>4, <2>5 DEF Selects, Fresh, M!Live, w
  <1> QED
    BY <1>3, <1>4

(* Whatever the route is, a page that follows it is left in order.         *)
LEMMA SelectDoes ==
    ASSUME NEW v, Selectable(v)
    PROVE  Selects(v, M!Select(v)) /\ (v.page \in M!Routed => ViewFits(M!Select(v)))
  <1> DEFINE w == M!Select(v)
  <1>0. v.page \in Visited /\ Shaped(v)
    BY DEF Selectable, Shaped
  <1>1. ASSUME Selects(v, w), v.page \in M!Routed, DetailsFit(w), DrawerFits(w),
               v.page = "schedules" => w.selected \in {None, v.selected, v.route}
        PROVE  ViewFits(w)
    <2>1. w.page = v.page /\ w.route = v.route /\ w.dialog = v.dialog /\ Shaped(w)
      BY <1>1 DEF Selects, Changes, Selecting, ViewFields
    <2> HIDE DEF w
    <2>2. DialogFits(w) /\ PendingFits(w)
      BY <1>1, <2>1 DEF Selectable, DialogFits, PendingFits, M!Routed
    <2> QED
      BY <1>1, <2>1, <2>2 DEF ViewFits
  <1>2. CASE v.page = "tasks"
    <2>1. w = M!SelectTask(v)
      BY <1>2 DEF M!Select
    <2> HIDE DEF w
    <2>2. Selects(v, w) /\ w.page = v.page
      BY <1>0, <1>2, <2>1, SelectTaskDoes DEF Selects, Changes, Selecting, ViewFields
    <2>3. DetailsFit(w) /\ DrawerFits(w)
      BY <1>2, <2>2 DEF DetailsFit, DrawerFits
    <2> QED
      BY <1>1, <1>2, <2>2, <2>3 DEF w
  <1>3. CASE v.page = "resources"
    <2>1. w = M!SelectResource(v)
      BY <1>3 DEF M!Select
    <2> HIDE DEF w
    <2>2. /\ Selects(v, w)
          /\ \A c, d \in Of(w, "detail") : c = d /\ c.item = v.route /\ w.selected = v.route
          /\ w.visible => w.selected = v.route
          /\ w.detail \in {None, w.selected} \/ w.error \/ Of(w, "detail") # {}
      BY <1>0, <1>3, <2>1, SelectResourceDoes
    <2>3. w.page = v.page /\ w.route = v.route
      BY <2>2 DEF Selects, Changes, Selecting, ViewFields
    <2>4. DetailsFit(w) /\ DrawerFits(w)
      BY <1>3, <2>2, <2>3 DEF DetailsFit, DrawerFits
    <2> QED
      BY <1>1, <1>3, <2>2, <2>4 DEF w
  <1>4. CASE v.page = "schedules"
    <2>1. w = M!SelectSchedule(v)
      BY <1>4 DEF M!Select
    <2> HIDE DEF w
    <2>2. /\ Selects(v, w) /\ w.calls = v.calls /\ w.detail = v.detail
          /\ w.visible => w.selected = v.route
          /\ w.selected \in {None, v.selected, v.route}
      BY <1>0, <1>4, <2>1, SelectScheduleDoes
    <2>3. w.page = v.page /\ w.route = v.route /\ Of(w, "detail") = {}
      BY <1>4, <2>2, OfSame DEF Selects, Changes, Selecting, ViewFields, Selectable
    <2>4. DetailsFit(w) /\ DrawerFits(w)
      BY <1>4, <2>2, <2>3 DEF DetailsFit, DrawerFits, Selectable
    <2> QED
      BY <1>1, <1>4, <2>2, <2>4 DEF w
  <1>5. CASE v.page = "media"
    <2>1. w = M!SelectMedia(v)
      BY <1>5 DEF M!Select
    <2> HIDE DEF w
    <2>2. /\ Selects(v, w) /\ w.detail = v.detail
          /\ \A c, d \in Of(w, "detail") : c = d /\ c.item = v.route
          /\ w.visible => Of(w, "detail") # {}
      BY <1>0, <1>5, <2>1, SelectMediaDoes
    <2>3. w.page = v.page /\ w.route = v.route
      BY <2>2 DEF Selects, Changes, Selecting, ViewFields
    <2>4. DetailsFit(w) /\ DrawerFits(w)
      BY <1>5, <2>2, <2>3 DEF DetailsFit, DrawerFits, Selectable
    <2> QED
      BY <1>1, <1>5, <2>2, <2>4 DEF w
  <1>6. CASE v.page \notin M!Routed
    <2>1. w = v
      BY <1>6 DEF M!Select, M!Routed
    <2> QED
      BY <1>0, <1>6, <2>1 DEF Selects, Changes, Shaped
  <1> QED
    BY <1>1, <1>2, <1>3, <1>4, <1>5, <1>6 DEF M!Routed

(* The route changes within the page, or is what it was.                   *)
LEMMA ReplaceDoes ==
    ASSUME NEW v, Selectable(v), NEW r, v.page \in M!Routed, v.route = r => ViewFits(v),
           v.page = "schedules" /\ v.dialog # None => r = None
    PROVE  /\ ViewFits(M!Replace(v, r)) /\ Changes(v, M!Replace(v, r), Selecting \cup {"route"})
           /\ Of(M!Replace(v, r), "list") = Of(v, "list") /\ Of(M!Replace(v, r), "act") = Of(v, "act")
           /\ \A c \in M!Replace(v, r).calls : c \in v.calls \/ Fresh(v, c)
  <1>1. CASE v.route = r
    BY <1>1 DEF M!Replace, Changes, Selectable, Shaped
  <1>2. CASE v.route # r
    <2> DEFINE x == [v EXCEPT !.route = r]
    <2>1. Shaped(x) /\ Changes(v, x, {"route"}) /\ x.calls = v.calls /\ x.page = v.page /\ x.route = r
      BY DEF Selectable, Shaped, Changes, ViewFields
    <2> HIDE DEF x
    <2>2. \A k : Of(x, k) = Of(v, k)
      BY <2>1, OfSame
    <2>3. /\ x.dialog = v.dialog /\ x.selected = v.selected /\ x.pending = v.pending /\ x.detail = v.detail
          /\ x.conn = v.conn
      BY <2>1 DEF Changes, ViewFields
    <2>4. DialogFits(x) /\ PendingFits(x)
      BY <2>1, <2>2, <2>3 DEF Selectable, DialogFits, PendingFits, M!Routed
    <2>5. Selectable(x)
      BY <2>1, <2>2, <2>3, <2>4 DEF Selectable
    <2>6. M!Replace(v, r) = M!Select(x)
      BY <1>2 DEF M!Replace, x
    <2>7. Selects(x, M!Select(x)) /\ ViewFits(M!Select(x))
      BY <2>1, <2>5, SelectDoes
    <2>8. Changes(v, M!Select(x), Selecting \cup {"route"})
      BY <2>1, <2>7 DEF Selects, Changes
    <2> QED
      BY <2>1, <2>2, <2>3, <2>6, <2>7, <2>8 DEF Selects, Fresh, M!Live
  <1> QED
    BY <1>1, <1>2

-----------------------------------------------------------------------------
(* What a refresh needs: the memory page's drawer may be behind.           *)
Refreshable(v) == Shaped(v) /\ DetailsFit(v) /\ DialogFits(v) /\ PendingFits(v) /\ (v.page # "memory" => DrawerFits(v))

(* A refresh asks for a listing or reports that it cannot, and leaves what *)
(* is shown; that of Media is the only one in flight.                      *)
LEMMA RefreshDoes ==
    ASSUME NEW v, Refreshable(v)
    PROVE  LET w == M!Refresh(v)
           IN /\ ViewFits(w) /\ Changes(v, w, {"calls", "loading", "error"})
              /\ Of(w, "act") = Of(v, "act") /\ Of(w, "detail") = Of(v, "detail")
              /\ \A c \in w.calls : c \in v.calls \/ Fresh(v, c)
              /\ v.page = "media" /\ M!Live(v) => Of(w, "list") # {} /\ \A c \in Of(w, "list") : Fresh(v, c)
  <1> DEFINE u == IF v.page = "media" THEN M!Supersede(v, "list") ELSE v
             w == M!Refresh(v)
  <1>1. Shaped(v) /\ v.page \in Visited
    BY DEF Refreshable, Shaped
  <1>2. /\ Shaped(u) /\ Changes(v, u, {"calls"}) /\ u.calls \subseteq v.calls
        /\ \A k : k # "list" => Of(u, k) = Of(v, k)
        /\ v.page = "media" => Of(u, "list") = {}
    BY <1>1, SupersedeDoes DEF Changes, Shaped
  <1>3. w = IF M!Live(u) THEN M!Call([u EXCEPT !.loading = TRUE], "list", None, None, None)
            ELSE IF u.conn = "reconnecting" /\ u.page \in M!Waits THEN [u EXCEPT !.loading = TRUE]
            ELSE [u EXCEPT !.loading = FALSE, !.error = TRUE]
    BY DEF M!Refresh
  <1> HIDE DEF u, w
  <1>4. u.page = v.page /\ u.conn = v.conn /\ (M!Live(u) <=> M!Live(v))
    BY <1>2 DEF Changes, ViewFields, M!Live
  <1>5. /\ Shaped(w) /\ Changes(v, w, {"calls", "loading", "error"}) /\ (v.error => w.error)
        /\ \A k : k # "list" => Of(w, k) = Of(v, k)
        /\ \A c \in w.calls : c \in v.calls \/ Fresh(v, c)
        /\ v.page = "memory" => w.error \/ Of(w, "list") # {}
        /\ v.page = "media" /\ M!Live(v) => Of(w, "list") # {} /\ \A c \in Of(w, "list") : Fresh(v, c)
    <2>1. CASE M!Live(u)
      <3> DEFINE y == [u EXCEPT !.loading = TRUE]
      <3>1. Shaped(y) /\ Changes(u, y, {"loading"})
        BY <1>2 DEF Shaped, Changes, ViewFields
      <3> HIDE DEF y
      <3>2. w = M!Call(y, "list", None, None, None)
        BY <1>3, <2>1 DEF y
      <3>3. PICK c : /\ Shaped(w) /\ Changes(y, w, {"calls"}) /\ w.calls = y.calls \cup {c} /\ Fresh(y, c)
                     /\ Of(w, "list") = Of(y, "list") \cup {c} /\ \A k : k # "list" => Of(w, k) = Of(y, k)
        BY <3>1, <3>2, CallDoes DEF What
      <3>4. Changes(v, w, {"calls", "loading", "error"}) /\ y.calls = u.calls /\ y.conn = v.conn /\ w.error = v.error
        BY <1>2, <3>1, <3>3 DEF Changes, ViewFields
      <3>5. \A k : Of(y, k) = Of(u, k)
        BY <3>4, OfSame
      <3> QED
        BY <1>2, <1>4, <2>1, <3>3, <3>4, <3>5 DEF Fresh, M!Live
    <2>2. CASE ~M!Live(u) /\ u.conn = "reconnecting" /\ u.page \in M!Waits
      <3>1. w = [u EXCEPT !.loading = TRUE]
        BY <1>3, <2>2
      <3>2. Shaped(w) /\ Changes(u, w, {"loading"})
        BY <1>2, <3>1 DEF Shaped, Changes, ViewFields
      <3>3. Changes(v, w, {"calls", "loading", "error"}) /\ w.calls = u.calls /\ w.error = v.error
        BY <1>2, <3>2 DEF Changes, ViewFields
      <3>4. \A k : Of(w, k) = Of(u, k)
        BY <3>3, OfSame
      <3> QED
        BY <1>2, <1>4, <2>2, <3>2, <3>3, <3>4 DEF M!Waits
    <2>3. CASE ~M!Live(u) /\ ~(u.conn = "reconnecting" /\ u.page \in M!Waits)
      <3>1. w = [u EXCEPT !.loading = FALSE, !.error = TRUE]
        BY <1>3, <2>3
      <3>2. Shaped(w) /\ Changes(u, w, {"loading", "error"}) /\ w.error = TRUE
        BY <1>2, <3>1 DEF Shaped, Changes, ViewFields
      <3>3. Changes(v, w, {"calls", "loading", "error"}) /\ w.calls = u.calls
        BY <1>2, <3>2 DEF Changes, ViewFields
      <3>4. \A k : Of(w, k) = Of(u, k)
        BY <3>3, OfSame
      <3> QED
        BY <1>2, <1>4, <2>3, <3>2, <3>3, <3>4
    <2> QED
      BY <2>1, <2>2, <2>3
  <1>6. /\ w.page = v.page /\ w.route = v.route /\ w.selected = v.selected /\ w.detail = v.detail /\ w.busy = v.busy
        /\ w.visible = v.visible /\ w.pending = v.pending /\ w.dialog = v.dialog
    BY <1>5 DEF Changes, ViewFields
  <1>7. DetailsFit(w)
    BY <1>5, <1>6 DEF Refreshable, DetailsFit
  <1>8. DrawerFits(w)
    BY <1>5, <1>6 DEF Refreshable, DrawerFits
  <1>9. DialogFits(w) /\ PendingFits(w)
    BY <1>5, <1>6 DEF Refreshable, DialogFits, PendingFits
  <1> QED
    BY <1>5, <1>7, <1>8, <1>9 DEF ViewFits, w

-----------------------------------------------------------------------------
(* The call whose answer has come is forgotten. *)
Taken(u, c) == [u EXCEPT !.calls = @ \ {c}]

(* A call that is forgotten leaves everything but the calls.               *)
LEMMA TakenDoes ==
    ASSUME NEW u, Shaped(u), NEW c
    PROVE  LET v == Taken(u, c)
           IN Shaped(v) /\ Changes(u, v, {"calls"}) /\ v.calls = u.calls \ {c} /\ \A k : Of(v, k) = Of(u, k) \ {c}
  <1> DEFINE v == Taken(u, c)
  <1>1. Changes(u, v, {"calls"}) /\ v.calls = u.calls \ {c}
    BY DEF Taken, Changes, Shaped, ViewFields
  <1> HIDE DEF v
  <1>2. Shaped(v)
    BY <1>1 DEF Changes, Shaped, ViewFields
  <1>3. \A k : Of(v, k) = Of(u, k) \ {c}
    BY <1>1 DEF Of
  <1> QED
    BY <1>1, <1>2, <1>3 DEF v

(* A page whose call has been answered is in order but for the drawer that *)
(* the call was to fill.                                                   *)
LEMMA TakenFits ==
    ASSUME NEW u, ViewFits(u), NEW c
    PROVE  LET v == Taken(u, c)
           IN /\ Shaped(v) /\ DetailsFit(v) /\ DialogFits(v) /\ PendingFits(v)
              /\ c.what = "list" \/ c.what = "act" => (v.page # "memory" => DrawerFits(v))
              /\ c.what = "act" => ViewFits(v)
  <1> DEFINE v == Taken(u, c)
  <1>1. Shaped(v) /\ Changes(u, v, {"calls"}) /\ v.calls = u.calls \ {c} /\ \A k : Of(v, k) = Of(u, k) \ {c}
    BY TakenDoes DEF ViewFits
  <1> HIDE DEF v
  <1>2. /\ v.page = u.page /\ v.route = u.route /\ v.selected = u.selected /\ v.detail = u.detail /\ v.busy = u.busy
        /\ v.visible = u.visible /\ v.pending = u.pending /\ v.dialog = u.dialog /\ v.error = u.error
    BY <1>1 DEF Changes, ViewFields
  <1>3. DetailsFit(v)
    BY <1>1, <1>2 DEF ViewFits, DetailsFit
  <1>4. DialogFits(v) /\ PendingFits(v)
    BY <1>1, <1>2 DEF ViewFits, DialogFits, PendingFits
  <1>5. c.what \in {"list", "act"} => Of(v, "detail") = Of(u, "detail")
    BY <1>1 DEF Of
  <1>6. c.what = "act" => Of(v, "list") = Of(u, "list")
    BY <1>1 DEF Of
  <1>7. c.what \in {"list", "act"} => (v.page # "memory" => DrawerFits(v))
    BY <1>2, <1>5 DEF ViewFits, DrawerFits
  <1>8. c.what = "act" => DrawerFits(v)
    BY <1>2, <1>5, <1>6 DEF ViewFits, DrawerFits
  <1> QED
    BY <1>1, <1>3, <1>4, <1>7, <1>8 DEF ViewFits, v

(* A memory that is inspected is the one whose revisions are awaited.      *)
LEMMA InspectMemoryFits ==
    ASSUME NEW v, Shaped(v), DialogFits(v), PendingFits(v), v.page = "memory", NEW i,
           v.dialog # None => i \in v.dialog.items
    PROVE  ViewFits(M!InspectMemory(v, i))
  <1> DEFINE u == M!Supersede(v, "detail")
             x == [u EXCEPT !.selected = i, !.detail = None, !.busy = TRUE]
             w == M!InspectMemory(v, i)
  <1>1. Shaped(u) /\ Changes(v, u, {"calls"}) /\ Of(u, "detail") = {} /\ \A k : k # "detail" => Of(u, k) = Of(v, k)
    BY SupersedeDoes
  <1>2. w = M!Call(x, "detail", i, None, None)
    BY DEF M!InspectMemory
  <1> HIDE DEF u, w
  <1>3. /\ Shaped(x) /\ Changes(u, x, {"selected", "detail", "busy"}) /\ x.calls = u.calls
        /\ x.selected = i /\ x.detail = None /\ x.busy = TRUE
    BY <1>1 DEF Shaped, Changes, ViewFields
  <1> HIDE DEF x
  <1>4. \A k : Of(x, k) = Of(u, k)
    BY <1>3, OfSame
  <1>5. PICK c : /\ Shaped(w) /\ Changes(x, w, {"calls"}) /\ c.item = i
                 /\ Of(w, "detail") = Of(x, "detail") \cup {c} /\ \A k : k # "detail" => Of(w, k) = Of(x, k)
    BY <1>2, <1>3, CallDoes DEF What
  <1>6. /\ w.page = "memory" /\ w.selected = i /\ w.detail = None /\ w.busy = TRUE
        /\ w.pending = v.pending /\ w.dialog = v.dialog
    BY <1>1, <1>3, <1>5 DEF Changes, ViewFields
  <1>7. Of(w, "detail") = {c} /\ Of(w, "act") = Of(v, "act")
    BY <1>1, <1>4, <1>5
  <1>8. DetailsFit(w) /\ DrawerFits(w)
    BY <1>5, <1>6, <1>7 DEF DetailsFit, DrawerFits
  <1>9. DialogFits(w) /\ PendingFits(w)
    BY <1>5, <1>6, <1>7 DEF DialogFits, PendingFits
  <1> QED
    BY <1>5, <1>8, <1>9 DEF ViewFits, w

(* A skill that is inspected is the one whose contents are awaited.        *)
LEMMA InspectSkillFits ==
    ASSUME NEW v, ViewFits(v), v.page = "skills", NEW i
    PROVE  ViewFits(M!InspectSkill(v, i))
  <1> DEFINE u == M!Supersede(v, "detail")
             x == [u EXCEPT !.selected = i, !.busy = TRUE]
             w == M!InspectSkill(v, i)
  <1>1. Shaped(u) /\ Changes(v, u, {"calls"}) /\ Of(u, "detail") = {}
    BY SupersedeDoes DEF ViewFits
  <1>2. w = M!Call(x, "detail", i, None, None)
    BY DEF M!InspectSkill
  <1> HIDE DEF u, w
  <1>3. Shaped(x) /\ Changes(u, x, {"selected", "busy"}) /\ x.calls = u.calls
    BY <1>1 DEF Shaped, Changes, ViewFields
  <1> HIDE DEF x
  <1>4. Of(x, "detail") = {}
    BY <1>1, <1>3, OfSame
  <1>5. PICK c : /\ Shaped(w) /\ Changes(x, w, {"calls"}) /\ c.item = i
                 /\ Of(w, "detail") = Of(x, "detail") \cup {c} /\ \A k : k # "detail" => Of(w, k) = Of(x, k)
    BY <1>2, <1>3, CallDoes DEF What
  <1>6. w.page = "skills" /\ w.detail = v.detail /\ w.dialog = v.dialog
    BY <1>1, <1>3, <1>5 DEF Changes, ViewFields
  <1>7. DetailsFit(w) /\ DrawerFits(w) /\ DialogFits(w) /\ PendingFits(w)
    BY <1>4, <1>5, <1>6 DEF ViewFits, DetailsFit, DrawerFits, DialogFits, PendingFits
  <1> QED
    BY <1>5, <1>7 DEF ViewFits, w

(* Memory and Skills may forget what is selected.                          *)
LEMMA DeselectFits ==
    ASSUME NEW v, Shaped(v), DialogFits(v), PendingFits(v), v.page \in {"memory", "skills"},
           v.page = "skills" => v.detail = None
    PROVE  ViewFits(M!Deselect(v)) /\ Of(M!Deselect(v), "act") = Of(v, "act")
  <1> DEFINE u == M!Supersede(v, "detail")
             w == M!Deselect(v)
  <1>1. Shaped(u) /\ Changes(v, u, {"calls"}) /\ Of(u, "detail") = {} /\ \A k : k # "detail" => Of(u, k) = Of(v, k)
    BY SupersedeDoes
  <1>2. w = [u EXCEPT !.selected = None]
    BY DEF M!Deselect
  <1> HIDE DEF u, w
  <1>3. Shaped(w) /\ Changes(u, w, {"selected"}) /\ w.calls = u.calls /\ w.selected = None
    BY <1>1, <1>2 DEF Shaped, Changes, ViewFields
  <1>4. \A k : Of(w, k) = Of(u, k)
    BY <1>3, OfSame
  <1>5. w.page = v.page /\ w.detail = v.detail /\ w.pending = v.pending /\ w.dialog = v.dialog
    BY <1>1, <1>3 DEF Changes, ViewFields
  <1>6. DetailsFit(w) /\ DrawerFits(w)
    BY <1>1, <1>3, <1>4, <1>5 DEF DetailsFit, DrawerFits
  <1>7. DialogFits(w) /\ PendingFits(w)
    BY <1>1, <1>3, <1>4, <1>5 DEF DialogFits, PendingFits
  <1> QED
    BY <1>1, <1>3, <1>4, <1>6, <1>7 DEF ViewFits, w

-----------------------------------------------------------------------------
(* The answer of a listing leaves a page in order with the dialog it had,  *)
(* and Media shows what it lists.                                          *)
LEMMA ListedFits ==
    ASSUME NEW u, ViewFits(u), NEW c \in u.calls, c.what = "list"
    PROVE  LET v == Taken(u, c)
               w == M!Listed(v, c)
           IN /\ ViewFits(w) /\ w.page = u.page /\ w.dialog = u.dialog
              /\ u.page = "media" /\ ~M!Failed(c) =>
                   /\ w.listed = c.list /\ w.conn = u.conn
                   /\ Of(w, "list") = Of(v, "list") /\ Of(w, "act") = Of(v, "act")
                   /\ \A d \in w.calls : d \in u.calls \/ Fresh(u, d)
  <1> DEFINE v == Taken(u, c)
             z == [v EXCEPT !.loading = FALSE]
             x == [z EXCEPT !.error = FALSE, !.listed = c.list, !.loaded = TRUE]
             w == M!Listed(v, c)
  <1>1. /\ Shaped(v) /\ DetailsFit(v) /\ DialogFits(v) /\ PendingFits(v)
        /\ v.page # "memory" => DrawerFits(v)
    BY TakenFits
  <1>2. v.page = u.page /\ v.dialog = u.dialog /\ v.conn = u.conn /\ v.calls = u.calls \ {c}
    BY TakenDoes DEF Changes, ViewFields, ViewFits
  <1>3. w = IF M!Failed(c) THEN [z EXCEPT !.error = TRUE]
            ELSE IF v.page = "memory" THEN M!ListMemory(x)
            ELSE IF v.page = "media" THEN M!SelectMedia(x)
            ELSE M!Select(x)
    BY DEF M!Listed, M!ListMedia
  <1> HIDE DEF v, w
  <1>4. /\ Shaped(x) /\ Changes(v, x, {"loading", "error", "listed", "loaded"}) /\ x.calls = v.calls
        /\ x.listed = c.list /\ x.error = FALSE
    BY <1>1 DEF Shaped, Changes, ViewFields
  <1>5. /\ Shaped([z EXCEPT !.error = TRUE]) /\ Changes(v, [z EXCEPT !.error = TRUE], {"loading", "error"})
        /\ [z EXCEPT !.error = TRUE].calls = v.calls /\ [z EXCEPT !.error = TRUE].error = TRUE
    BY <1>1 DEF Shaped, Changes, ViewFields
  <1> HIDE DEF x
  <1>6. /\ x.page = v.page /\ x.route = v.route /\ x.selected = v.selected /\ x.detail = v.detail /\ x.busy = v.busy
        /\ x.visible = v.visible /\ x.pending = v.pending /\ x.dialog = v.dialog /\ x.conn = v.conn
    BY <1>4 DEF Changes, ViewFields
  <1>7. \A k : Of(x, k) = Of(v, k)
    BY <1>4, OfSame
  <1>8. DialogFits(x) /\ PendingFits(x) /\ DetailsFit(x)
    BY <1>1, <1>6, <1>7 DEF DialogFits, PendingFits, DetailsFit
  <1>9. CASE M!Failed(c)
    <2>1. Shaped(w) /\ Changes(v, w, {"loading", "error"}) /\ w.calls = v.calls /\ w.error = TRUE
      BY <1>3, <1>5, <1>9
    <2>2. /\ w.page = v.page /\ w.route = v.route /\ w.selected = v.selected /\ w.detail = v.detail /\ w.busy = v.busy
          /\ w.visible = v.visible /\ w.pending = v.pending /\ w.dialog = v.dialog
      BY <2>1 DEF Changes, ViewFields
    <2>3. \A k : Of(w, k) = Of(v, k)
      BY <2>1, OfSame
    <2>4. DetailsFit(w) /\ DrawerFits(w)
      BY <1>1, <2>1, <2>2, <2>3 DEF DetailsFit, DrawerFits
    <2>5. DialogFits(w) /\ PendingFits(w)
      BY <1>1, <2>2, <2>3 DEF DialogFits, PendingFits
    <2> QED
      BY <1>2, <1>9, <2>1, <2>2, <2>4, <2>5 DEF ViewFits, w, v
  <1>10. CASE ~M!Failed(c) /\ v.page = "memory"
    <2>1. w = M!ListMemory(x)
      BY <1>3, <1>10
    <2>2. CASE x.selected = None
      <3>1. w = x
        BY <2>1, <2>2 DEF M!ListMemory
      <3>2. DrawerFits(x)
        BY <1>6, <1>10, <2>2 DEF DrawerFits
      <3> QED
        BY <1>2, <1>4, <1>6, <1>8, <1>10, <3>1, <3>2 DEF ViewFits, w, v
    <2>3. CASE x.selected # None /\ x.selected \in x.listed
      <3>1. w = M!InspectMemory(x, x.selected)
        BY <2>1, <2>3 DEF M!ListMemory
      <3>2. x.dialog # None => x.selected \in x.dialog.items
        BY <1>6, <1>8, <1>10, <2>3 DEF DialogFits
      <3>3. ViewFits(w)
        BY <1>4, <1>6, <1>8, <1>10, <3>1, <3>2, InspectMemoryFits
      <3>4. w.page = x.page /\ w.dialog = x.dialog
        BY <1>4, <3>1 DEF M!InspectMemory, M!Call, M!Supersede, Shaped, ViewFields
      <3> QED
        BY <1>2, <1>6, <1>10, <3>3, <3>4 DEF w, v
    <2>4. CASE x.selected # None /\ x.selected \notin x.listed
      <3>1. w = M!Deselect(x)
        BY <2>1, <2>4 DEF M!ListMemory
      <3>2. ViewFits(w)
        BY <1>4, <1>6, <1>8, <1>10, <3>1, DeselectFits
      <3>3. w.page = x.page /\ w.dialog = x.dialog
        BY <1>4, <3>1 DEF M!Deselect, M!Supersede, Shaped, ViewFields
      <3> QED
        BY <1>2, <1>6, <1>10, <3>2, <3>3 DEF w, v
    <2> QED
      BY <2>2, <2>3, <2>4
  <1>11. CASE ~M!Failed(c) /\ v.page # "memory"
    <2>1. w = M!Select(x)
      BY <1>3, <1>6, <1>11 DEF M!Select
    <2>2. Selectable(x)
      BY <1>1, <1>4, <1>6, <1>7, <1>8, <1>11 DEF Selectable, DetailsFit, DrawerFits
    <2>3. Selects(x, w) /\ (x.page \in M!Routed => ViewFits(w))
      BY <2>1, <2>2, SelectDoes
    <2>4. x.page \notin M!Routed => ViewFits(w)
      <3>1. SUFFICES ASSUME x.page \notin M!Routed PROVE w = x /\ DrawerFits(x)
        BY <1>4, <1>8 DEF ViewFits
      <3>2. w = x
        BY <2>1, <3>1 DEF M!Select, M!Routed
      <3>3. x.page # "resources" /\ x.page # "schedules" /\ x.page # "media"
        BY <3>1 DEF M!Routed
      <3> QED
        BY <1>1, <1>6, <1>11, <3>2, <3>3 DEF DrawerFits
    <2>5. w.page = x.page /\ w.dialog = x.dialog /\ w.conn = x.conn /\ w.listed = c.list
      BY <1>4, <2>3 DEF Selects, Changes, Selecting, ViewFields
    <2>6. \A d \in w.calls : d \in u.calls \/ Fresh(u, d)
      BY <1>2, <1>4, <1>6, <2>3 DEF Selects, Fresh, M!Live
    <2> QED
      BY <1>2, <1>6, <1>7, <2>3, <2>4, <2>5, <2>6 DEF Selects, w, v
  <1> QED
    BY <1>9, <1>10, <1>11

-----------------------------------------------------------------------------
(* The answer of a detail leaves a page in order: it is of what the page   *)
(* is about, but for Tasks.                                                *)
LEMMA DetailedFits ==
    ASSUME M!Parameters, NEW u, ViewFits(u), NEW c \in u.calls, c.what = "detail"
    PROVE  LET v == Taken(u, c)
               w == M!Detailed(v, c)
           IN ViewFits(w) /\ Changes(v, w, {"pending", "error", "selected", "detail", "busy", "visible", "hiding"})
  <1> DEFINE v == Taken(u, c)
             w == M!Detailed(v, c)
  <1>1. Shaped(v) /\ DetailsFit(v) /\ DialogFits(v) /\ PendingFits(v)
    BY TakenFits
  <1>2. /\ Changes(u, v, {"calls"}) /\ \A k : Of(v, k) = Of(u, k) \ {c}
        /\ v.page = u.page /\ v.route = u.route /\ v.selected = u.selected /\ v.detail = u.detail /\ v.visible = u.visible
        /\ v.dialog = u.dialog /\ v.hiding = u.hiding /\ u.page \in Visited
    BY TakenDoes DEF Changes, ViewFields, ViewFits, Shaped
  <1>3. c \in Of(u, "detail")
    BY DEF Of
  <1>4. /\ u.page \notin {"schedules", "plugins"}
        /\ u.page # "tasks" => Of(v, "detail") = {}
        /\ u.page \in {"resources", "media"} => c.item = u.route
        /\ u.page = "resources" => c.item = u.selected
    BY <1>2, <1>3 DEF ViewFits, DetailsFit
  <1>5. SUFFICES /\ Shaped(w) /\ Changes(v, w, {"pending", "error", "selected", "detail", "busy", "visible", "hiding"})
                 /\ u.page # "tasks" => DrawerFits(w)
                 /\ u.page = "memory" => w.selected \in {None, c.item} /\ w.pending = v.pending
                 /\ u.page = "schedules" => w.selected = v.selected
    <2>1. w.page = v.page /\ w.route = v.route /\ w.dialog = v.dialog /\ w.calls = v.calls
      BY <1>5 DEF Changes, ViewFields
    <2>2. \A k : Of(w, k) = Of(v, k)
      BY <2>1, OfSame
    <2> HIDE DEF v, w
    <2>3. DetailsFit(w)
      BY <1>1, <1>2, <1>4, <2>1, <2>2 DEF DetailsFit
    <2>4. u.page = "memory" /\ u.dialog # None => c.item \in u.dialog.items
      BY <1>3 DEF ViewFits, DialogFits
    <2>5. DialogFits(w) /\ PendingFits(w)
      BY <1>1, <1>2, <1>4, <1>5, <2>1, <2>2, <2>4 DEF DialogFits, PendingFits
    <2>6. u.page = "tasks" => DrawerFits(w)
      BY <1>2, <2>1 DEF DrawerFits
    <2> QED
      BY <1>5, <2>3, <2>5, <2>6 DEF ViewFits, v, w
  <1> HIDE DEF v
  <1>6. CASE u.page = "tasks"
    <2>1. w = M!TaskDetail(v, c)
      BY <1>2, <1>6 DEF M!Detailed
    <2> HIDE DEF w
    <2>2. /\ Changes(v, w, {"error", "selected", "visible", "hiding"})
          /\ w.error \in BOOLEAN /\ w.visible \in BOOLEAN /\ w.hiding \in BOOLEAN
      BY <1>1, <2>1 DEF M!TaskDetail, M!Visible, Changes, Shaped, ViewFields
    <2>3. Shaped(w)
      BY <1>1, <1>2, <1>6, <2>2 DEF Changes, Shaped, ViewFields, M!Routed
    <2> QED
      BY <1>6, <2>2, <2>3 DEF Changes, w
  <1>7. CASE u.page = "resources"
    <2>1. w = M!ResourceDetail(v, c)
      BY <1>2, <1>7 DEF M!Detailed
    <2> HIDE DEF w
    <2>2. /\ Changes(v, w, {"pending", "error", "detail"}) /\ w.error \in BOOLEAN
          /\ w.error = TRUE \/ w.detail = c.item
      BY <1>1, <2>1 DEF M!ResourceDetail, Changes, Shaped, ViewFields
    <2>3. Shaped(w) /\ w.page = u.page /\ w.route = u.route /\ w.selected = u.selected /\ w.visible = u.visible
      BY <1>1, <1>2, <2>2 DEF Changes, Shaped, ViewFields
    <2>4. DrawerFits(w)
      BY <1>4, <1>7, <2>2, <2>3 DEF ViewFits, DrawerFits
    <2> QED
      BY <1>7, <2>2, <2>3, <2>4 DEF Changes, w
  <1>8. CASE u.page = "media"
    <2>1. w = M!MediaDetail(v, c)
      BY <1>2, <1>8 DEF M!Detailed
    <2> HIDE DEF w
    <2>2. /\ Changes(v, w, {"pending", "error", "selected", "visible", "hiding"})
          /\ w.error \in BOOLEAN /\ w.visible \in BOOLEAN /\ w.hiding \in BOOLEAN
          /\ w.visible = FALSE \/ w.selected = c.item
      BY <1>1, <2>1 DEF M!MediaDetail, M!Visible, Changes, Shaped, ViewFields
    <2>3. Shaped(w) /\ w.page = u.page /\ w.route = u.route /\ w.detail = u.detail
      BY <1>1, <1>2, <1>8, <2>2 DEF Changes, Shaped, ViewFields, M!Routed
    <2>4. DrawerFits(w)
      BY <1>4, <1>8, <2>2, <2>3 DEF ViewFits, DrawerFits
    <2> QED
      BY <1>8, <2>2, <2>3, <2>4 DEF Changes, w
  <1>9. CASE u.page = "memory"
    <2>1. w = M!MemoryDetail(v, c)
      BY <1>2, <1>9 DEF M!Detailed
    <2> HIDE DEF w
    <2>2. /\ Changes(v, w, {"busy", "error", "selected", "detail"}) /\ w.error \in BOOLEAN /\ w.busy \in BOOLEAN
          /\ w.selected = None \/ (w.selected = c.item /\ w.detail = c.item)
      BY <1>1, <2>1 DEF M!MemoryDetail, Changes, Shaped, ViewFields
    <2>3. Shaped(w) /\ w.page = u.page /\ w.pending = v.pending
      BY <1>1, <1>2, <2>2 DEF Changes, Shaped, ViewFields
    <2>4. DrawerFits(w)
      BY <1>9, <2>2, <2>3 DEF DrawerFits
    <2> QED
      BY <1>9, <2>2, <2>3, <2>4 DEF Changes, w
  <1>10. CASE u.page = "skills"
    <2>1. w = M!SkillDetail(v, c)
      BY <1>2, <1>10 DEF M!Detailed
    <2> HIDE DEF w
    <2>2. Changes(v, w, {"busy", "error", "selected"}) /\ w.error \in BOOLEAN /\ w.busy \in BOOLEAN
      BY <1>1, <2>1 DEF M!SkillDetail, Changes, Shaped, ViewFields
    <2>3. Shaped(w) /\ w.page = u.page /\ w.detail = u.detail
      BY <1>1, <1>2, <2>2 DEF Changes, Shaped, ViewFields
    <2>4. DrawerFits(w)
      BY <1>10, <2>3 DEF ViewFits, DrawerFits
    <2> QED
      BY <1>10, <2>2, <2>3, <2>4 DEF Changes, w
  <1> QED
    BY <1>2, <1>4, <1>6, <1>7, <1>8, <1>9, <1>10 DEF M!Parameters

-----------------------------------------------------------------------------
(* What an action asks the server for. *)
LEMMA ActAsks ==
    ASSUME M!Parameters, NEW v, ViewFits(v), NEW act \in ActOf(v.page), NEW i, NEW to,
           v.page = "memory" => v.dialog = None /\ Of(v, "act") = {}
    PROVE  LET w == M!Call([v EXCEPT !.pending = "act"], "act", i, act, to)
           IN /\ ViewFits(w) /\ Changes(v, w, {"calls", "pending"})
              /\ \A c \in w.calls : c \in v.calls \/ (c.what = "act" /\ c.item = i /\ Fresh(v, c))
              /\ Of(w, "list") = Of(v, "list") /\ Of(v, "act") \subseteq Of(w, "act") /\ Of(w, "act") # {}
  <1> DEFINE x == [v EXCEPT !.pending = "act"]
             w == M!Call(x, "act", i, act, to)
  <1>1. Shaped(x) /\ Changes(v, x, {"pending"}) /\ x.calls = v.calls /\ x.page = v.page /\ x.pending = "act" /\ x.conn = v.conn
    BY DEF ViewFits, Shaped, Changes, ViewFields
  <1> HIDE DEF x
  <1>2. \A k : Of(x, k) = Of(v, k)
    BY <1>1, OfSame
  <1>3. "act" \in What /\ act \in ActOf(x.page)
    BY <1>1 DEF What
  <1>4. PICK c : /\ Shaped(w) /\ Changes(x, w, {"calls"}) /\ w.calls = x.calls \cup {c}
                 /\ Fresh(x, c) /\ c.what = "act" /\ c.item = i /\ c.act = act /\ c.to = to
                 /\ Of(w, "act") = Of(x, "act") \cup {c} /\ \A k : k # "act" => Of(w, k) = Of(x, k)
    BY <1>1, <1>3, CallDoes
  <1> HIDE DEF w
  <1>5. /\ Changes(v, w, {"calls", "pending"}) /\ w.pending = "act"
        /\ w.page = v.page /\ w.route = v.route /\ w.selected = v.selected /\ w.detail = v.detail /\ w.busy = v.busy
        /\ w.visible = v.visible /\ w.dialog = v.dialog /\ w.error = v.error
    BY <1>1, <1>4 DEF Changes, ViewFields
  <1>6. DetailsFit(w) /\ DrawerFits(w)
    BY <1>2, <1>4, <1>5 DEF ViewFits, DetailsFit, DrawerFits
  <1>7. DialogFits(w)
    BY <1>2, <1>4, <1>5 DEF ViewFits, DialogFits
  <1>8. w.pending # None \/ w.page # "memory"
    BY <1>5 DEF M!Parameters
  <1>9. PendingFits(w)
    BY <1>2, <1>4, <1>5, <1>8 DEF PendingFits
  <1>10. Fresh(v, c)
    BY <1>1, <1>4 DEF Fresh, M!Live
  <1> QED
    BY <1>1, <1>2, <1>4, <1>5, <1>6, <1>7, <1>9, <1>10 DEF ViewFits, w, x

(* An action that is begun leaves a page in order, and is for the item it  *)
(* was begun for.                                                          *)
LEMMA DoFits ==
    ASSUME M!Parameters, NEW v, ViewFits(v), NEW act \in ActOf(v.page), NEW i, NEW to,
           v.page = "memory" => v.dialog = None /\ Of(v, "act") = {}
    PROVE  LET w == M!Do(v, act, i, to)
           IN /\ ViewFits(w) /\ Changes(v, w, {"calls", "pending"})
              /\ \A c \in w.calls : c \in v.calls \/ (c.what = "act" /\ c.item = i /\ i # None /\ Fresh(v, c))
              /\ Of(w, "list") = Of(v, "list") /\ Of(v, "act") \subseteq Of(w, "act")
  <1>1. CASE i = None \/ (v.pending # None /\ v.page # "memory")
    BY <1>1 DEF M!Do, Changes, ViewFits, Shaped
  <1>2. CASE ~(i = None \/ (v.pending # None /\ v.page # "memory"))
    <2>1. M!Do(v, act, i, to) = M!Call([v EXCEPT !.pending = "act"], "act", i, act, to)
      BY <1>2 DEF M!Do
    <2>2. i # None
      BY <1>2
    <2> QED
      BY <2>1, <2>2, ActAsks
  <1> QED
    BY <1>1, <1>2

(* A refresh leaves a page in order, with the dialog it had.               *)
LEMMA RefreshFits ==
    ASSUME NEW v, ViewFits(v)
    PROVE  ViewFits(M!Refresh(v)) /\ M!Refresh(v).page = v.page /\ M!Refresh(v).dialog = v.dialog
  <1>1. Refreshable(v)
    BY DEF Refreshable, ViewFits
  <1> QED
    BY <1>1, RefreshDoes DEF Changes, ViewFields

(* A drawer that closes leaves its page in order.                          *)
LEMMA HidesFits ==
    ASSUME NEW v, ViewFits(v), v.page \in M!Routed
    PROVE  ViewFits(M!Visible(v, FALSE)) /\ M!Visible(v, FALSE).page = v.page /\ M!Visible(v, FALSE).dialog = v.dialog
  <1> DEFINE w == M!Visible(v, FALSE)
  <1>1. Shaped(w) /\ Changes(v, w, {"visible", "hiding"}) /\ w.visible = FALSE
    BY VisibleDoes DEF ViewFits
  <1> HIDE DEF w
  <1>2. /\ w.page = v.page /\ w.route = v.route /\ w.selected = v.selected /\ w.detail = v.detail /\ w.busy = v.busy
        /\ w.pending = v.pending /\ w.dialog = v.dialog /\ w.error = v.error /\ w.calls = v.calls
    BY <1>1 DEF Changes, ViewFields
  <1>3. \A k : Of(w, k) = Of(v, k)
    BY <1>2, OfSame
  <1>4. DetailsFit(w) /\ DrawerFits(w)
    BY <1>1, <1>2, <1>3 DEF ViewFits, DetailsFit, DrawerFits
  <1>5. DialogFits(w) /\ PendingFits(w)
    BY <1>2, <1>3 DEF ViewFits, DialogFits, PendingFits
  <1> QED
    BY <1>1, <1>2, <1>4, <1>5 DEF ViewFits, w

(* A page that goes to another of its routes is in order there; Schedules  *)
(* with a dialog over it only leaves its route.                            *)
LEMMA LeavesFits ==
    ASSUME NEW v, ViewFits(v), v.page \in M!Routed, NEW r, v.page = "schedules" /\ v.dialog # None => r = None
    PROVE  LET w == M!Replace(v, r)
           IN /\ ViewFits(w) /\ w.page = v.page /\ w.dialog = v.dialog
              /\ Changes(v, w, Selecting \cup {"route"})
              /\ Of(w, "list") = Of(v, "list") /\ Of(w, "act") = Of(v, "act")
              /\ \A c \in w.calls : c \in v.calls \/ Fresh(v, c)
  <1>1. Selectable(v)
    BY DEF Selectable, ViewFits, DetailsFit, DrawerFits
  <1> QED
    BY <1>1, ReplaceDoes DEF Changes, Selecting, ViewFields

(* The answer of an action leaves a page in order with the dialog it had;  *)
(* Media asks for a listing or has another action in flight, but for a     *)
(* collection that failed.                                                 *)
LEMMA ActedFits ==
    ASSUME M!Parameters, NEW u, ViewFits(u), NEW c \in u.calls, c.what = "act"
    PROVE  LET v == Taken(u, c)
               w == M!Acted(v, c)
           IN /\ ViewFits(w) /\ w.page = u.page /\ w.dialog = u.dialog
              /\ u.page = "media" /\ ~(c.act = "gc" /\ M!Failed(c)) =>
                   /\ w.conn = u.conn /\ \A d \in w.calls : d \in u.calls \/ Fresh(u, d)
                   /\ M!Live(u) => \/ Of(w, "act") # {}
                                   \/ Of(w, "list") # {} /\ \A d \in Of(w, "list") : Fresh(u, d)
  <1> DEFINE t == Taken(u, c)
             v == [t EXCEPT !.pending = None]
             w == M!Acted(t, c)
  <1>1. /\ ViewFits(t) /\ Changes(u, t, {"calls"}) /\ t.calls = u.calls \ {c} /\ \A k : Of(t, k) = Of(u, k) \ {c}
    BY TakenFits, TakenDoes DEF ViewFits
  <1>2. c \in Of(u, "act") /\ CallShaped(u.page, c)
    BY DEF Of, ViewFits, Shaped
  <1>3. u.page = "memory" => Of(t, "act") = {} /\ u.dialog = None
    BY <1>1, <1>2 DEF ViewFits, PendingFits
  <1>4. w = CASE v.page = "tasks" -> M!TaskActed(v, c)
              [] v.page = "resources" -> M!ResourceActed(v, c)
              [] v.page = "schedules" -> M!ScheduleActed(v, c)
              [] v.page = "memory" -> M!MemoryActed(v, c)
              [] v.page = "skills" -> M!SkillActed(v, c)
              [] v.page = "plugins" -> M!PluginActed(v, c)
              [] v.page = "media" -> M!MediaActed(v, c)
    BY DEF M!Acted
  <1> HIDE DEF t, w
  <1>5. Shaped(v) /\ Changes(t, v, {"pending"}) /\ v.calls = t.calls /\ v.pending = None
    BY <1>1 DEF ViewFits, Shaped, Changes, ViewFields
  <1> HIDE DEF v
  <1>6. \A k : Of(v, k) = Of(t, k)
    BY <1>5, OfSame
  <1>7. /\ v.page = u.page /\ v.route = t.route /\ v.selected = t.selected /\ v.detail = t.detail /\ v.busy = t.busy
        /\ v.visible = t.visible /\ v.dialog = u.dialog /\ v.error = t.error /\ v.page = t.page /\ v.dialog = t.dialog
        /\ v.conn = u.conn /\ u.page \in Visited
    BY <1>1, <1>5 DEF Changes, ViewFields, ViewFits, Shaped
  <1>8. ViewFits(v)
    <2>1. DetailsFit(v) /\ DrawerFits(v)
      BY <1>1, <1>6, <1>7 DEF ViewFits, DetailsFit, DrawerFits
    <2>2. DialogFits(v) /\ PendingFits(v)
      BY <1>1, <1>3, <1>6, <1>7 DEF ViewFits, DialogFits, PendingFits
    <2> QED
      BY <1>5, <2>1, <2>2 DEF ViewFits
  <1>9. Refreshable(v)
    BY <1>8 DEF ViewFits, Refreshable
  <1>10. v.page \in {"schedules", "resources"} =>
           /\ ViewFits(M!Visible(v, FALSE)) /\ M!Visible(v, FALSE).page = v.page
           /\ M!Visible(v, FALSE).dialog = v.dialog
    BY <1>8, HidesFits DEF M!Routed
  <1>11. SUFFICES
           /\ ViewFits(w) /\ w.page = v.page /\ w.dialog = v.dialog
           /\ v.page = "media" /\ ~(c.act = "gc" /\ M!Failed(c)) =>
                 /\ w.conn = v.conn /\ \A d \in w.calls : d \in v.calls \/ Fresh(v, d)
                 /\ M!Live(v) => \/ Of(w, "act") # {}
                                 \/ Of(w, "list") # {} /\ \A d \in Of(w, "list") : Fresh(v, d)
    <2>1. v.calls \subseteq u.calls /\ (M!Live(v) <=> M!Live(u)) /\ \A d : Fresh(v, d) <=> Fresh(u, d)
      BY <1>1, <1>5, <1>7 DEF Fresh, M!Live
    <2>2. /\ ViewFits(w) /\ w.page = u.page /\ w.dialog = u.dialog
          /\ u.page = "media" /\ ~(c.act = "gc" /\ M!Failed(c)) =>
               /\ w.conn = u.conn /\ \A d \in w.calls : d \in u.calls \/ Fresh(u, d)
               /\ M!Live(u) => \/ Of(w, "act") # {}
                               \/ Of(w, "list") # {} /\ \A d \in Of(w, "list") : Fresh(u, d)
      <3>1. ViewFits(w) /\ w.page = u.page /\ w.dialog = u.dialog
        BY <1>7, <1>11
      <3> SUFFICES ASSUME u.page = "media", ~(c.act = "gc" /\ M!Failed(c))
                   PROVE  /\ w.conn = u.conn /\ \A d \in w.calls : d \in u.calls \/ Fresh(u, d)
                          /\ M!Live(u) => \/ Of(w, "act") # {}
                                          \/ Of(w, "list") # {} /\ \A d \in Of(w, "list") : Fresh(u, d)
        BY <3>1
      <3>2. /\ w.conn = v.conn /\ \A d \in w.calls : d \in v.calls \/ Fresh(v, d)
            /\ M!Live(v) => Of(w, "act") # {} \/ (Of(w, "list") # {} /\ \A d \in Of(w, "list") : Fresh(v, d))
        BY <1>7, <1>11
      <3> HIDE DEF Fresh
      <3> QED
        BY <1>7, <2>1, <3>2
    <2> QED
      BY <2>2 DEF w, t
  <1>12. CASE u.page = "tasks"
    <2>1. w = IF M!Failed(c) THEN v ELSE M!Refresh(v)
      BY <1>4, <1>7, <1>12 DEF M!TaskActed
    <2> QED
      BY <1>7, <1>8, <1>12, <2>1, RefreshFits
  <1>13. CASE u.page = "resources"
    <2> DEFINE h == M!Visible(v, FALSE)
               x == M!Replace(v, c.to)
               y == M!Replace(h, None)
    <2>1. w = v \/ w = M!Refresh(v) \/ w = M!Refresh(x) \/ w = M!Refresh(y)
      BY <1>4, <1>7, <1>13 DEF M!ResourceActed
    <2>2. ViewFits(h) /\ h.page = v.page /\ h.dialog = v.dialog
      BY <1>7, <1>10, <1>13
    <2> HIDE DEF h
    <2>3. ViewFits(x) /\ x.page = v.page /\ x.dialog = v.dialog
      <3>1. v.page \in M!Routed /\ v.page # "schedules"
        BY <1>7, <1>13 DEF M!Routed
      <3> QED
        BY <1>8, <3>1, LeavesFits
    <2>4. ViewFits(y) /\ y.page = v.page /\ y.dialog = v.dialog
      <3>1. h.page \in M!Routed
        BY <1>7, <1>13, <2>2 DEF M!Routed
      <3> QED
        BY <2>2, <3>1, LeavesFits
    <2> HIDE DEF x, y
    <2>5. \A z \in {v, x, y} : /\ ViewFits(z) /\ z.page = v.page /\ z.dialog = v.dialog
                              /\ ViewFits(M!Refresh(z)) /\ M!Refresh(z).page = v.page /\ M!Refresh(z).dialog = v.dialog
      <3>1. \A z \in {v, x, y} : ViewFits(z) /\ z.page = v.page /\ z.dialog = v.dialog
        BY <1>8, <2>3, <2>4
      <3> QED
        BY <3>1, RefreshFits
    <2>6. v.page # "media"
      BY <1>7, <1>13
    <2> QED
      BY <2>1, <2>5, <2>6
  <1>14. CASE u.page = "schedules"
    <2> DEFINE h == M!Visible(v, FALSE)
               y == M!Replace(h, None)
    <2>1. w = v \/ w = M!Refresh(y)
      BY <1>4, <1>7, <1>14 DEF M!ScheduleActed
    <2>2. ViewFits(h) /\ h.page = v.page /\ h.dialog = v.dialog
      BY <1>7, <1>10, <1>14
    <2> HIDE DEF h
    <2>3. ViewFits(y) /\ y.page = v.page /\ y.dialog = v.dialog
      <3>1. h.page \in M!Routed
        BY <1>7, <1>14, <2>2 DEF M!Routed
      <3> QED
        BY <2>2, <3>1, LeavesFits
    <2> HIDE DEF y
    <2> QED
      BY <1>7, <1>8, <1>14, <2>1, <2>3, RefreshFits
  <1>15. CASE u.page = "memory"
    <2> DEFINE e == [v EXCEPT !.error = TRUE]
               x == [v EXCEPT !.selected = c.item]
    <2>1. w = IF M!Failed(c) \/ c.got = "absent" THEN e ELSE M!Refresh(x)
      BY <1>4, <1>7, <1>15 DEF M!MemoryActed
    <2>2. Shaped(e) /\ Changes(v, e, {"error"}) /\ e.calls = v.calls /\ e.error = TRUE
      BY <1>5 DEF Shaped, Changes, ViewFields
    <2>3. Shaped(x) /\ Changes(v, x, {"selected"}) /\ x.calls = v.calls
      BY <1>5 DEF Shaped, Changes, ViewFields
    <2> HIDE DEF e, x
    <2>4. \A k : Of(e, k) = Of(v, k) /\ Of(x, k) = Of(v, k)
      BY <2>2, <2>3, OfSame
    <2>5. /\ e.page = v.page /\ x.page = v.page /\ e.busy = v.busy /\ x.busy = v.busy /\ e.dialog = v.dialog /\ x.dialog = v.dialog
          /\ e.pending = v.pending /\ x.pending = v.pending
      BY <2>2, <2>3 DEF Changes, ViewFields
    <2>6. ViewFits(e)
      <3>1. DetailsFit(e) /\ DrawerFits(e)
        <4>1. DetailsFit(e)
          BY <1>7, <1>8, <1>15, <2>4, <2>5 DEF ViewFits, DetailsFit
        <4>2. DrawerFits(e)
          BY <1>7, <1>15, <2>2, <2>5 DEF DrawerFits
        <4> QED
          BY <4>1, <4>2
      <3>2. DialogFits(e) /\ PendingFits(e)
        BY <1>3, <1>7, <1>8, <1>15, <2>4, <2>5 DEF ViewFits, DialogFits, PendingFits
      <3> QED
        BY <2>2, <3>1, <3>2 DEF ViewFits
    <2>7. Refreshable(x)
      <3>1. DetailsFit(x)
        BY <1>7, <1>8, <1>15, <2>4, <2>5 DEF ViewFits, DetailsFit
      <3>2. DialogFits(x) /\ PendingFits(x)
        BY <1>3, <1>7, <1>8, <1>15, <2>4, <2>5 DEF ViewFits, DialogFits, PendingFits
      <3> QED
        BY <1>7, <1>15, <2>3, <2>5, <3>1, <3>2 DEF Refreshable
    <2>8. ViewFits(M!Refresh(x)) /\ M!Refresh(x).page = x.page /\ M!Refresh(x).dialog = x.dialog
      BY <2>7, RefreshDoes DEF Changes, ViewFields
    <2> QED
      BY <1>7, <1>15, <2>1, <2>5, <2>6, <2>8
  <1>16. CASE u.page \in {"skills", "plugins"}
    <2> DEFINE e == [v EXCEPT !.error = TRUE]
               h == [v EXCEPT !.visible = FALSE]
    <2>1. \/ w = e \/ w = M!Refresh(e) \/ w = M!Refresh(v) \/ w = M!Refresh(h)
          \/ u.page = "skills" /\ w = M!Refresh(M!Deselect(v))
      BY <1>4, <1>7, <1>16 DEF M!SkillActed, M!PluginActed
    <2>2. Shaped(e) /\ Changes(v, e, {"error"}) /\ e.calls = v.calls
      BY <1>5 DEF Shaped, Changes, ViewFields
    <2>3. Shaped(h) /\ Changes(v, h, {"visible"}) /\ h.calls = v.calls
      BY <1>5 DEF Shaped, Changes, ViewFields
    <2> HIDE DEF e, h
    <2>4. \A k : Of(e, k) = Of(v, k) /\ Of(h, k) = Of(v, k)
      BY <2>2, <2>3, OfSame
    <2>5. /\ e.page = v.page /\ h.page = v.page /\ e.dialog = v.dialog /\ h.dialog = v.dialog
          /\ e.detail = v.detail /\ h.detail = v.detail
      BY <2>2, <2>3 DEF Changes, ViewFields
    <2>6. ViewFits(e) /\ ViewFits(h)
      BY <1>7, <1>8, <1>16, <2>2, <2>3, <2>4, <2>5 DEF ViewFits, DetailsFit, DrawerFits, DialogFits, PendingFits
    <2>7. u.page = "skills" => ViewFits(M!Deselect(v)) /\ M!Deselect(v).page = v.page /\ M!Deselect(v).dialog = v.dialog
      <3>1. M!Deselect(v).page = v.page /\ M!Deselect(v).dialog = v.dialog
        BY <1>5 DEF M!Deselect, M!Supersede, Shaped, ViewFields
      <3> QED
        BY <1>7, <1>8, <3>1, DeselectFits DEF ViewFits, DrawerFits
    <2> QED
      BY <1>7, <1>8, <1>16, <2>1, <2>5, <2>6, <2>7, RefreshFits
  <1>17. CASE u.page = "media"
    <2>1. /\ Changes(v, M!Refresh(v), {"calls", "loading", "error"}) /\ \A d \in M!Refresh(v).calls : d \in v.calls \/ Fresh(v, d)
          /\ M!Live(v) => Of(M!Refresh(v), "list") # {} /\ \A d \in Of(M!Refresh(v), "list") : Fresh(v, d)
      BY <1>7, <1>9, <1>17, RefreshDoes
    <2>2. M!Refresh(v).conn = v.conn /\ M!Refresh(v).page = v.page /\ M!Refresh(v).dialog = v.dialog /\ ViewFits(M!Refresh(v))
      BY <1>8, <2>1, RefreshFits DEF Changes, ViewFields
    <2>3. CASE c.act = "gc"
      BY <1>4, <1>7, <1>8, <1>17, <2>1, <2>2, <2>3 DEF M!MediaActed
    <2>4. CASE c.act # "gc" /\ c.to = {}
      <3> DEFINE r == M!Replace(v, None)
      <3>1. w = M!Refresh(r)
        BY <1>4, <1>7, <1>17, <2>4 DEF M!MediaActed
      <3>2. /\ ViewFits(r) /\ Changes(v, r, Selecting \cup {"route"}) /\ \A d \in r.calls : d \in v.calls \/ Fresh(v, d)
        BY <1>7, <1>8, <1>17, LeavesFits DEF M!Routed
      <3> HIDE DEF r
      <3>3. r.page = v.page /\ r.dialog = v.dialog /\ r.conn = v.conn /\ Refreshable(r)
        BY <3>2 DEF Changes, Selecting, ViewFields, ViewFits, Refreshable
      <3>4. /\ ViewFits(w) /\ Changes(r, w, {"calls", "loading", "error"}) /\ \A d \in w.calls : d \in r.calls \/ Fresh(r, d)
            /\ M!Live(r) => Of(w, "list") # {} /\ \A d \in Of(w, "list") : Fresh(r, d)
        BY <1>7, <1>17, <3>1, <3>3, RefreshDoes
      <3>5. w.conn = v.conn /\ w.page = v.page /\ w.dialog = v.dialog
        BY <3>3, <3>4 DEF Changes, ViewFields
      <3> QED
        BY <3>2, <3>3, <3>4, <3>5 DEF Fresh, M!Live
    <2>5. CASE c.act # "gc" /\ c.to # {}
      <3> DEFINE i == CHOOSE j \in c.to : TRUE
      <3>1. w = M!Call([v EXCEPT !.pending = "act"], "act", i, "delete", c.to \ {i})
        BY <1>4, <1>7, <1>17, <2>5 DEF M!MediaActed
      <3>2. "delete" \in ActOf(v.page)
        BY <1>7, <1>17 DEF ActOf, M!Act
      <3> HIDE DEF i
      <3>3. /\ ViewFits(w) /\ Changes(v, w, {"calls", "pending"})
            /\ Of(w, "act") # {} /\ \A d \in w.calls : d \in v.calls \/ Fresh(v, d)
        BY <1>7, <1>8, <1>17, <3>1, <3>2, ActAsks
      <3>4. w.conn = v.conn /\ w.page = v.page /\ w.dialog = v.dialog
        BY <3>3 DEF Changes, ViewFields
      <3> QED
        BY <3>3, <3>4
    <2> QED
      BY <2>3, <2>4, <2>5
  <1> QED
    BY <1>7, <1>12, <1>13, <1>14, <1>15, <1>16, <1>17 DEF M!Parameters

-----------------------------------------------------------------------------
(* Calls that are served or lost are the same calls. *)
LEMMA CallsFit ==
    ASSUME NEW u, ViewFits(u), NEW w, Changes(u, w, {"calls"}),
           \A d \in w.calls : \E c \in u.calls : DOMAIN d = CallFields /\ d.what = c.what /\ d.item = c.item /\ d.act = c.act,
           \A k \in What : Of(w, k) = {} <=> Of(u, k) = {},
           \A k \in What : (\A c, d \in Of(u, k) : c = d) => (\A c, d \in Of(w, k) : c = d)
    PROVE  ViewFits(w)
  <1>1. /\ w.page = u.page /\ w.route = u.route /\ w.selected = u.selected /\ w.detail = u.detail /\ w.busy = u.busy
        /\ w.visible = u.visible /\ w.pending = u.pending /\ w.dialog = u.dialog /\ w.error = u.error /\ w.hiding = u.hiding
    BY DEF Changes, ViewFields
  <1>2. \A k, d : d \in Of(w, k) => \E c \in Of(u, k) : d.item = c.item
    BY DEF Of
  <1>3. Shaped(w)
    BY <1>1 DEF ViewFits, Shaped, CallShaped, Changes
  <1>4. DetailsFit(w)
    BY <1>1, <1>2 DEF ViewFits, DetailsFit, What
  <1>5. DrawerFits(w)
    BY <1>1 DEF ViewFits, DrawerFits, What
  <1>6. DialogFits(w) /\ PendingFits(w)
    BY <1>1, <1>2 DEF ViewFits, DialogFits, PendingFits, What
  <1> QED
    BY <1>3, <1>4, <1>5, <1>6 DEF ViewFits

(* The server answers one call by another that is for the same; without    *)
(* trouble it fails none but actions, and a listing is what there is.      *)
LEMMA ServeStep ==
    ASSUME PageInv, troubles \in Nat, NEW c \in view.calls, M!Serve(c)
    PROVE  \E d : /\ view' = [view EXCEPT !.calls = (@ \ {c}) \cup {d}]
                  /\ DOMAIN d = CallFields /\ d.what = c.what /\ d.item = c.item /\ d.act = c.act
                  /\ M!Failed(d) /\ troubles' = 0 => d.what = "act" /\ d.act # "gc"
                  /\ troubles' = 0 /\ d.what = "list" => d.got = "ok" /\ d.list = server'
                  /\ server' = server \/ d.what = "act"
  <1>1. DOMAIN c = CallFields
    BY DEF PageInv, ViewFits, Shaped, CallShaped
  <1>2. CASE c.what = "list" /\ UNCHANGED <<server, troubles>>
             /\ view' = [view EXCEPT !.calls = (@ \ {c}) \cup {[c EXCEPT !.got = "ok", !.list = server]}]
    <2> DEFINE d == [c EXCEPT !.got = "ok", !.list = server]
    <2>1. DOMAIN d = CallFields /\ d.what = c.what /\ d.item = c.item /\ d.act = c.act /\ d.got = "ok" /\ d.list = server
      BY <1>1 DEF CallFields
    <2> HIDE DEF d
    <2>2. view' = [view EXCEPT !.calls = (@ \ {c}) \cup {d}]
      BY <1>2 DEF d
    <2> QED
      BY <1>2, <2>1, <2>2 DEF M!Failed
  <1>3. \A got : M!Gives(c, got) => \E d : /\ view' = [view EXCEPT !.calls = (@ \ {c}) \cup {d}]
                                          /\ DOMAIN d = CallFields /\ d.what = c.what /\ d.item = c.item /\ d.act = c.act
                                          /\ d.got = got
    <2> TAKE got
    <2> DEFINE d == [c EXCEPT !.got = got]
    <2>1. DOMAIN d = CallFields /\ d.what = c.what /\ d.item = c.item /\ d.act = c.act /\ d.got = got
      BY <1>1 DEF CallFields
    <2> HAVE M!Gives(c, got)
    <2> HIDE DEF d
    <2>2. view' = [view EXCEPT !.calls = (@ \ {c}) \cup {d}]
      BY DEF M!Gives, d
    <2> QED
      BY <2>1, <2>2
  <1>4. CASE c.what = "detail" /\ M!Gives(c, IF c.item \in server THEN "ok" ELSE "absent") /\ UNCHANGED <<server, troubles>>
    <2>1. PICK got \in {"ok", "absent"} : M!Gives(c, got)
      BY <1>4
    <2> QED
      BY <1>3, <1>4, <2>1 DEF M!Failed
  <1>5. CASE c.what = "act" /\ M!Performs(c) /\ UNCHANGED troubles
    <2>1. PICK got \in {"ok", "absent", "error"} : M!Gives(c, got) /\ (c.act = "gc" => got = "ok")
      BY <1>5 DEF M!Performs, M!Removes, M!Collects, M!Renames, M!Loads, M!Keeps
    <2> QED
      BY <1>3, <1>5, <2>1 DEF M!Failed
  <1>6. CASE M!Refuses(c)
    <2>1. troubles' # 0 /\ M!Gives(c, "error") /\ server' = server
      BY <1>6 DEF M!Refuses
    <2> QED
      BY <1>3, <2>1
  <1>7. CASE M!RefusesHistory(c)
    <2>1. troubles' # 0 /\ M!Gives(c, "incomplete") /\ server' = server
      BY <1>7 DEF M!RefusesHistory
    <2> QED
      BY <1>3, <2>1
  <1> QED
    BY <1>2, <1>4, <1>5, <1>6, <1>7 DEF M!Serve

(* A call that is served leaves the page in order.                         *)
LEMMA ServeFits ==
    ASSUME PageInv, troubles \in Nat, NEW c \in view.calls, M!Serve(c)
    PROVE  PageInv'
  <1>1. PICK d : /\ view' = [view EXCEPT !.calls = (@ \ {c}) \cup {d}]
                 /\ DOMAIN d = CallFields /\ d.what = c.what /\ d.item = c.item /\ d.act = c.act
    BY ServeStep
  <1>2. Changes(view, view', {"calls"}) /\ view'.calls = (view.calls \ {c}) \cup {d}
    BY <1>1 DEF PageInv, ViewFits, Shaped, Changes, ViewFields
  <1>3. \A k \in What : Of(view', k) = IF k = c.what THEN (Of(view, k) \ {c}) \cup {d} ELSE Of(view, k)
    BY <1>1, <1>2 DEF Of
  <1>4. c \in Of(view, c.what) /\ \A e \in view.calls : DOMAIN e = CallFields
    BY DEF Of, PageInv, ViewFits, Shaped, CallShaped
  <1>5. ViewFits(view')
    <2>1. \A e \in view'.calls : \E b \in view.calls : DOMAIN e = CallFields /\ e.what = b.what /\ e.item = b.item /\ e.act = b.act
      BY <1>1, <1>2, <1>4
    <2>2. \A k \in What : Of(view', k) = {} <=> Of(view, k) = {}
      BY <1>3, <1>4
    <2>3. \A k \in What : (\A a, b \in Of(view, k) : a = b) => (\A a, b \in Of(view', k) : a = b)
      BY <1>3, <1>4
    <2> QED
      BY <1>2, <2>1, <2>2, <2>3, CallsFit DEF PageInv
  <1> QED
    BY <1>5 DEF PageInv

-----------------------------------------------------------------------------
(* How a handler that is no answer may leave the page, and the media page  *)
(* in particular: it asks for a new listing or keeps the ones asked for.   *)
Goes(v, w) ==
    /\ ViewFits(w) /\ w.page = v.page
    /\ v.page = "media" =>
         /\ w.conn = v.conn /\ w.listed = v.listed
         /\ \A c \in w.calls : c \in v.calls \/ Fresh(v, c)
         /\ M!Live(v) => \/ Of(w, "list") = Of(v, "list") /\ Of(v, "act") \subseteq Of(w, "act")
                         \/ Of(w, "list") # {} /\ \A c \in Of(w, "list") : Fresh(v, c)

(* A handler that asks for nothing. *)
LEMMA QuietGoes ==
    ASSUME NEW v, NEW w, ViewFits(w), Changes(v, w, {"selected", "visible", "hiding", "dialog"}), w.page = v.page
    PROVE  Goes(v, w)
  <1>1. w.calls = v.calls /\ w.conn = v.conn /\ w.listed = v.listed
    BY DEF Changes, ViewFields
  <1>2. \A k : Of(w, k) = Of(v, k)
    BY <1>1, OfSame
  <1> QED
    BY <1>1, <1>2 DEF Goes

(* The button that refreshes leaves the page in order.                     *)
LEMMA ClickRefreshGoes ==
    ASSUME PageInv, M!ClickRefresh
    PROVE  Goes(view, view') /\ view'.dialog = view.dialog
  <1>1. view' = M!Refresh(view) /\ Refreshable(view)
    BY DEF M!ClickRefresh, PageInv, ViewFits, Refreshable
  <1>2. /\ ViewFits(view') /\ Changes(view, view', {"calls", "loading", "error"})
        /\ \A c \in view'.calls : c \in view.calls \/ Fresh(view, c)
        /\ view.page = "media" /\ M!Live(view) => Of(view', "list") # {} /\ \A c \in Of(view', "list") : Fresh(view, c)
    BY <1>1, RefreshDoes
  <1>3. /\ view'.page = view.page /\ view'.conn = view.conn /\ view'.listed = view.listed /\ view'.dialog = view.dialog
    BY <1>2 DEF Changes, ViewFields
  <1> QED
    BY <1>2, <1>3 DEF Goes

(* So does another route of the page.                                      *)
LEMMA LeavesGoes ==
    ASSUME NEW v, ViewFits(v), v.page \in M!Routed, NEW r, v.page = "schedules" /\ v.dialog # None => r = None
    PROVE  Goes(v, M!Replace(v, r)) /\ M!Replace(v, r).dialog = v.dialog
  <1> DEFINE w == M!Replace(v, r)
  <1>1. /\ ViewFits(w) /\ w.page = v.page /\ w.dialog = v.dialog
        /\ Changes(v, w, Selecting \cup {"route"})
        /\ Of(w, "list") = Of(v, "list") /\ Of(w, "act") = Of(v, "act")
        /\ \A c \in w.calls : c \in v.calls \/ Fresh(v, c)
    BY LeavesFits
  <1> HIDE DEF w
  <1>2. w.conn = v.conn /\ w.listed = v.listed
    BY <1>1 DEF Changes, Selecting, ViewFields
  <1> QED
    BY <1>1, <1>2 DEF Goes, w

(* A row is only clicked with no dialog open, and its item is shown.       *)
LEMMA ClickRowGoes ==
    ASSUME M!Parameters, PageInv, NEW i \in Item, M!ClickRow(i)
    PROVE  Goes(view, view') /\ view.dialog = None
  <1>1. view.dialog = None /\ ViewFits(view) /\ view.page \in Visited
    BY DEF M!ClickRow, M!Modal, PageInv, ViewFits, Shaped
  <1>2. CASE view.page \in M!Routed
    <2>1. view' = M!Replace(view, i)
      BY <1>2 DEF M!ClickRow, M!Routed
    <2> QED
      BY <1>1, <1>2, <2>1, LeavesGoes
  <1>3. CASE view.page = "memory"
    <2>1. view' = M!InspectMemory(view, i)
      BY <1>3 DEF M!ClickRow, M!Routed
    <2>2. view'.page = view.page
      BY <1>1, <2>1 DEF M!InspectMemory, M!Call, M!Supersede, ViewFits, Shaped, ViewFields
    <2> QED
      BY <1>1, <1>3, <2>1, <2>2, InspectMemoryFits DEF Goes, ViewFits
  <1>4. CASE view.page = "skills"
    <2>1. view' = M!InspectSkill(view, i)
      BY <1>4 DEF M!ClickRow, M!Routed
    <2>2. view'.page = view.page
      BY <1>1, <2>1 DEF M!InspectSkill, M!Call, M!Supersede, ViewFits, Shaped, ViewFields
    <2> QED
      BY <1>1, <1>4, <2>1, <2>2, InspectSkillFits DEF Goes
  <1>5. CASE view.page = "plugins"
    BY <1>5 DEF M!ClickRow, M!Step, M!Routed
  <1> QED
    BY <1>1, <1>2, <1>3, <1>4, <1>5 DEF M!Parameters, M!Routed

(* A drawer is only closed with no dialog open.                            *)
LEMMA CloseDrawerGoes ==
    ASSUME M!Parameters, PageInv, M!CloseDrawer
    PROVE  Goes(view, view') /\ view.dialog = None
  <1>1. view.dialog = None /\ ViewFits(view) /\ view.page \in Visited
    BY DEF M!CloseDrawer, PageInv, ViewFits, Shaped
  <1>2. CASE view.page \in {"memory", "skills"}
    <2>1. view' = M!Deselect(view)
      BY <1>2 DEF M!CloseDrawer
    <2>2. view'.page = view.page
      BY <1>1, <2>1 DEF M!Deselect, M!Supersede, ViewFits, Shaped, ViewFields
    <2> QED
      BY <1>1, <1>2, <2>1, <2>2, DeselectFits DEF Goes, ViewFits, DrawerFits
  <1>3. CASE view.page = "plugins"
    <2>1. view' = [view EXCEPT !.visible = FALSE]
      BY <1>3 DEF M!CloseDrawer
    <2>2. Shaped(view') /\ Changes(view, view', {"visible"}) /\ view'.calls = view.calls
      BY <1>1, <2>1 DEF ViewFits, Shaped, Changes, ViewFields
    <2>3. \A k : Of(view', k) = Of(view, k)
      BY <2>2, OfSame
    <2>4. view'.page = view.page /\ view'.dialog = view.dialog /\ view'.detail = view.detail
      BY <2>2 DEF Changes, ViewFields
    <2> QED
      BY <1>1, <1>3, <2>2, <2>3, <2>4 DEF Goes, ViewFits, DetailsFit, DrawerFits, DialogFits, PendingFits
  <1>4. CASE view.page \in M!Routed
    <2>1. view' = M!Visible(view, FALSE)
      BY <1>4 DEF M!CloseDrawer, M!Routed
    <2>2. ViewFits(view') /\ view'.page = view.page
      BY <1>1, <1>4, <2>1, HidesFits
    <2>3. Changes(view, view', {"selected", "visible", "hiding", "dialog"})
      BY <1>1, <2>1 DEF M!Visible, Changes, ViewFits, Shaped, ViewFields
    <2> QED
      BY <1>1, <2>2, <2>3, QuietGoes
  <1> QED
    BY <1>1, <1>2, <1>3, <1>4 DEF M!Parameters, M!Routed

(* A dialog that fits may be opened or closed.                             *)
LEMMA DialogGoes ==
    ASSUME NEW v, ViewFits(v), NEW w, Changes(v, w, {"dialog"}), DialogFits(w)
    PROVE  Goes(v, w)
  <1>1. /\ w.page = v.page /\ w.route = v.route /\ w.selected = v.selected /\ w.detail = v.detail /\ w.busy = v.busy
        /\ w.visible = v.visible /\ w.pending = v.pending /\ w.error = v.error /\ w.hiding = v.hiding /\ w.calls = v.calls
    BY DEF Changes, ViewFields
  <1>2. \A k : Of(w, k) = Of(v, k)
    BY <1>1, OfSame
  <1>3. Shaped(w)
    BY <1>1 DEF ViewFits, Shaped, Changes
  <1>4. DetailsFit(w) /\ DrawerFits(w)
    BY <1>1, <1>2 DEF ViewFits, DetailsFit, DrawerFits
  <1>5. PendingFits(w)
    BY <1>1, <1>2 DEF ViewFits, PendingFits, DialogFits
  <1>6. ViewFits(w)
    BY <1>3, <1>4, <1>5 DEF ViewFits
  <1> QED
    BY <1>1, <1>6, QuietGoes DEF Changes

(* An action that is begun keeps the listings asked for.                   *)
LEMMA DoGoes ==
    ASSUME M!Parameters, NEW v, ViewFits(v), NEW act \in ActOf(v.page), NEW i, NEW to,
           v.page = "memory" => v.dialog = None /\ Of(v, "act") = {}
    PROVE  LET w == M!Do(v, act, i, to)
           IN /\ Goes(v, w) /\ w.dialog = v.dialog
              /\ \A c \in w.calls : c \in v.calls \/ (c.what = "act" /\ c.item = i /\ i # None)
  <1> DEFINE w == M!Do(v, act, i, to)
  <1>1. /\ ViewFits(w) /\ Changes(v, w, {"calls", "pending"})
        /\ \A c \in w.calls : c \in v.calls \/ (c.what = "act" /\ c.item = i /\ i # None /\ Fresh(v, c))
        /\ Of(w, "list") = Of(v, "list") /\ Of(v, "act") \subseteq Of(w, "act")
    BY DoFits
  <1> HIDE DEF w
  <1>2. w.page = v.page /\ w.conn = v.conn /\ w.listed = v.listed /\ w.dialog = v.dialog
    BY <1>1 DEF Changes, ViewFields
  <1> QED
    BY <1>1, <1>2 DEF Goes, w

(* The drawer that has closed lets its page leave the route.               *)
LEMMA HideGoes ==
    ASSUME PageInv, M!Hide
    PROVE  Goes(view, view') /\ view'.dialog = view.dialog
  <1> DEFINE v == [view EXCEPT !.hiding = FALSE]
             u == M!Supersede(v, "detail")
             x == [u EXCEPT !.selected = None, !.detail = None]
             y == [u EXCEPT !.selected = None]
             z == [v EXCEPT !.selected = None]
             k == CASE v.page = "resources" -> M!Idle(x) [] v.page = "media" -> M!Idle(y) [] OTHER -> z
  <1>1. ViewFits(view) /\ view.page \in M!Routed
    BY DEF M!Hide, PageInv, ViewFits, Shaped
  <1>2. Shaped(v) /\ Changes(view, v, {"hiding"}) /\ v.calls = view.calls /\ v.page = view.page
    BY <1>1 DEF ViewFits, Shaped, Changes, ViewFields
  <1>3. view' = M!Replace(k, None)
    BY <1>1, <1>2 DEF M!Hide, M!CloseTask, M!CloseResource, M!CloseSchedule, M!CloseMedia, M!Routed
  <1> HIDE DEF v
  <1>4. /\ Shaped(u) /\ Changes(v, u, {"calls"}) /\ u.calls \subseteq v.calls /\ Of(u, "detail") = {}
        /\ Of(u, "list") = Of(v, "list") /\ Of(u, "act") = Of(v, "act")
    BY <1>2, SupersedeDoes
  <1> HIDE DEF u
  <1>5. /\ Shaped(x) /\ Changes(u, x, {"selected", "detail"}) /\ x.selected = None /\ x.detail = None
        /\ Shaped(y) /\ Changes(u, y, {"selected"}) /\ y.selected = None
        /\ Shaped(z) /\ Changes(v, z, {"selected"}) /\ z.selected = None
    BY <1>2, <1>4 DEF Shaped, Changes, ViewFields
  <1> HIDE DEF x, y, z
  <1>6. Shaped(M!Idle(x)) /\ Changes(x, M!Idle(x), {"pending"}) /\ Shaped(M!Idle(y)) /\ Changes(y, M!Idle(y), {"pending"})
    BY <1>5, IdleDoes
  <1>7. \/ view.page = "resources" /\ k = M!Idle(x)
        \/ view.page = "media" /\ k = M!Idle(y)
        \/ view.page \in {"tasks", "schedules"} /\ k = z
    <2>1. view.page = "resources" => k = M!Idle(x)
      BY <1>2
    <2>2. view.page = "media" => k = M!Idle(y)
      BY <1>2
    <2>3. view.page \in {"tasks", "schedules"} => k = z
      BY <1>2
    <2> QED
      BY <1>1, <2>1, <2>2, <2>3 DEF M!Routed
  <1> HIDE DEF k
  <1>8. /\ Shaped(k) /\ k.selected = None /\ (view.page = "resources" => k.detail = None)
        /\ Changes(view, k, {"hiding", "calls", "selected", "detail", "pending"}) /\ k.calls \subseteq view.calls
        /\ view.page \notin {"resources"} => k.detail = view.detail
    BY <1>2, <1>4, <1>5, <1>6, <1>7 DEF Changes, ViewFields
  <1>9. /\ view.page \in {"resources", "media"} => k.calls = u.calls
        /\ view.page \in {"tasks", "schedules"} => k.calls = view.calls
    BY <1>2, <1>5, <1>6, <1>7 DEF Changes, ViewFields
  <1>10. /\ Of(k, "list") = Of(view, "list") /\ Of(k, "act") = Of(view, "act")
         /\ view.page \in {"resources", "media"} => Of(k, "detail") = {}
         /\ view.page \in {"tasks", "schedules"} => Of(k, "detail") = Of(view, "detail")
    BY <1>1, <1>2, <1>4, <1>9, OfSame DEF M!Routed
  <1>11. k.page = view.page /\ k.route = view.route /\ k.dialog = view.dialog /\ k.conn = view.conn /\ k.listed = view.listed
    BY <1>8 DEF Changes, ViewFields
  <1>12. DialogFits(k) /\ PendingFits(k)
    BY <1>1, <1>8, <1>10, <1>11 DEF ViewFits, DialogFits, PendingFits, M!Routed
  <1>13. DetailsFit(k)
    BY <1>1, <1>10, <1>11 DEF ViewFits, DetailsFit, M!Routed
  <1>14. k.route = None => ViewFits(k)
    <2>1. k.route = None => DrawerFits(k)
      BY <1>1, <1>8, <1>10, <1>11 DEF ViewFits, DrawerFits, M!Routed
    <2> QED
      BY <1>8, <1>12, <1>13, <2>1 DEF ViewFits
  <1>15. Selectable(k)
    BY <1>1, <1>8, <1>11, <1>12, <1>13 DEF Selectable, DetailsFit, ViewFits, DrawerFits
  <1>16. /\ ViewFits(view') /\ Changes(k, view', Selecting \cup {"route"})
         /\ Of(view', "list") = Of(k, "list") /\ Of(view', "act") = Of(k, "act")
         /\ \A c \in view'.calls : c \in k.calls \/ Fresh(k, c)
    BY <1>1, <1>3, <1>11, <1>14, <1>15, ReplaceDoes
  <1>17. /\ view'.page = view.page /\ view'.dialog = view.dialog /\ view'.conn = view.conn /\ view'.listed = view.listed
    BY <1>11, <1>16 DEF Changes, Selecting, ViewFields
  <1>18. \A c \in view'.calls : c \in view.calls \/ Fresh(view, c)
    BY <1>8, <1>11, <1>16 DEF Fresh, M!Live
  <1> QED
    BY <1>10, <1>16, <1>17, <1>18 DEF Goes

(* Buttons stand for actions. *)
LEMMA ButtonsAct ==
    ASSUME NEW v
    PROVE  M!Buttons(v) \subseteq M!Act /\ M!RowActs(v) \subseteq M!Act
  <1>1. M!RowActs(v) \subseteq M!Act
    BY DEF M!RowActs, M!Act
  <1>2. /\ M!TaskButtons(v) \subseteq M!Act /\ M!ResourceButtons(v) \subseteq M!Act /\ M!ScheduleButtons(v) \subseteq M!Act
        /\ M!MemoryButtons(v) \subseteq M!Act /\ M!MediaButtons(v) \subseteq M!Act
    BY DEF M!TaskButtons, M!ResourceButtons, M!ScheduleButtons, M!MemoryButtons, M!MediaButtons, M!Act
  <1> QED
    BY <1>1, <1>2 DEF M!Buttons

(* A button of a drawer begins its action or opens the dialog that         *)
(* confirms it.                                                            *)
LEMMA PressGoes ==
    ASSUME M!Parameters, PageInv, NEW act \in M!Act, M!Press(act)
    PROVE  Goes(view, view') /\ view.dialog = None
  <1> DEFINE i == view.selected
  <1>1. /\ ViewFits(view) /\ view.page \in Visited /\ view.dialog = None /\ i # None /\ DOMAIN view = ViewFields
        /\ view.page \in M!Routed => view.visible
        /\ act \in (CASE view.page = "tasks" -> M!TaskButtons(view)
                      [] view.page = "resources" -> M!ResourceButtons(view)
                      [] view.page = "schedules" -> M!ScheduleButtons(view)
                      [] view.page = "memory" -> M!MemoryButtons(view)
                      [] view.page = "media" -> M!MediaButtons(view)
                      [] OTHER -> {})
    BY DEF M!Press, M!Buttons, PageInv, ViewFits, Shaped
  <1>2. act \in ActOf(view.page)
    BY <1>1 DEF ActOf, M!ResourceButtons
  <1>3. view.page = "memory" => act = "revert" /\ ~view.busy /\ view.pending = None
    BY <1>1 DEF M!MemoryButtons
  <1>4. CASE act \in M!Confirmed
    <2>1. view' = [view EXCEPT !.dialog = [act |-> act, items |-> {i}]]
      BY <1>4 DEF M!Press
    <2>2. /\ Changes(view, view', {"dialog"}) /\ view'.dialog.act = act /\ view'.dialog.items = {i}
          /\ view'.page = view.page /\ view'.selected = i /\ view'.route = view.route /\ view'.calls = view.calls
      BY <1>1, <2>1 DEF Changes, ViewFields
    <2>3. \A k : Of(view', k) = Of(view, k)
      BY <2>2, OfSame
    <2>4. view.page = "schedules" => view.route = i
      BY <1>1 DEF ViewFits, DrawerFits, M!Routed
    <2>5. view.page = "memory" => Of(view, "act") = {} /\ Of(view, "detail") = {}
      BY <1>1, <1>3 DEF ViewFits, PendingFits, DetailsFit
    <2>6. DialogFits(view')
      BY <1>2, <2>2, <2>3, <2>4, <2>5 DEF DialogFits
    <2> QED
      BY <1>1, <2>2, <2>6, DialogGoes
  <1>5. CASE act \notin M!Confirmed
    <2>1. view' = M!Do(view, act, i, IF act = "rename" THEN CHOOSE j \in Item : j # i ELSE None)
      BY <1>5 DEF M!Press
    <2>2. view.page # "memory"
      BY <1>3, <1>5 DEF M!Confirmed
    <2> QED
      BY <1>1, <1>2, <2>1, <2>2, DoGoes
  <1> QED
    BY <1>4, <1>5

(* So does a button of a row.                                              *)
LEMMA PressInRowGoes ==
    ASSUME M!Parameters, PageInv, NEW act \in M!Act, NEW i \in Item, M!PressInRow(act, i)
    PROVE  Goes(view, view') /\ view.dialog = None
  <1>1. /\ ViewFits(view) /\ view.dialog = None /\ DOMAIN view = ViewFields /\ view.page \in {"skills", "plugins"}
    BY DEF M!PressInRow, M!RowActs, M!Modal, PageInv, ViewFits, Shaped
  <1>2. act \in ActOf(view.page)
    BY <1>1 DEF ActOf
  <1>3. CASE act \in M!Confirmed
    <2>1. view' = [view EXCEPT !.dialog = [act |-> act, items |-> {i}]]
      BY <1>3 DEF M!PressInRow
    <2>2. /\ Changes(view, view', {"dialog"}) /\ view'.dialog.act = act /\ view'.dialog.items = {i} /\ view'.page = view.page
      BY <1>1, <2>1 DEF Changes, ViewFields
    <2>3. DialogFits(view')
      BY <1>1, <1>2, <2>2 DEF DialogFits
    <2> QED
      BY <1>1, <2>2, <2>3, DialogGoes
  <1>4. CASE act \notin M!Confirmed
    <2>1. view' = M!Do(view, act, i, None)
      BY <1>4 DEF M!PressInRow
    <2> QED
      BY <1>1, <1>2, <2>1, DoGoes
  <1> QED
    BY <1>3, <1>4

(* The dialog that loads a plugin opens, or begins the action.             *)
LEMMA LoadPluginGoes ==
    ASSUME M!Parameters, PageInv, NEW i \in Item, M!LoadPlugin(i)
    PROVE  Goes(view, view') /\ view.dialog = None
  <1>1. /\ ViewFits(view) /\ view.dialog = None /\ Shaped(view) /\ view.page = "plugins"
    BY DEF M!LoadPlugin, PageInv, ViewFits
  <1>2. CASE view' = [view EXCEPT !.visible = TRUE]
    <2>1. Shaped(view') /\ Changes(view, view', {"visible"}) /\ view'.calls = view.calls
      BY <1>1, <1>2 DEF Shaped, Changes, ViewFields
    <2>2. \A k : Of(view', k) = Of(view, k)
      BY <2>1, OfSame
    <2>3. view'.page = view.page /\ view'.dialog = view.dialog /\ view'.detail = view.detail
      BY <2>1 DEF Changes, ViewFields
    <2> QED
      BY <1>1, <2>1, <2>2, <2>3 DEF Goes, ViewFits, DetailsFit, DrawerFits, DialogFits, PendingFits
  <1>3. CASE view' = M!Do(view, "load", i, None)
    <2>1. "load" \in ActOf(view.page)
      BY <1>1 DEF ActOf, M!Act
    <2> QED
      BY <1>1, <1>3, <2>1, DoGoes
  <1> QED
    BY <1>2, <1>3 DEF M!LoadPlugin

(* The dialog for a batch of media is about at least one of them.          *)
LEMMA DeleteChosenGoes ==
    ASSUME PageInv, M!DeleteChosen
    PROVE  Goes(view, view') /\ view.dialog = None
  <1>1. /\ ViewFits(view) /\ view.dialog = None /\ DOMAIN view = ViewFields /\ view.page = "media"
    BY DEF M!DeleteChosen, M!Modal, PageInv, ViewFits, Shaped
  <1>2. PICK chosen \in (SUBSET view.listed) \ {{}} : view' = [view EXCEPT !.dialog = [act |-> "delete", items |-> chosen]]
    BY DEF M!DeleteChosen
  <1>3. /\ Changes(view, view', {"dialog"}) /\ view'.dialog.act = "delete" /\ view'.dialog.items = chosen /\ view'.page = "media"
    BY <1>1, <1>2 DEF Changes, ViewFields
  <1>4. DialogFits(view')
    <2>1. chosen # {} /\ "delete" \in ActOf(view'.page)
      BY <1>2, <1>3 DEF ActOf, M!Act
    <2> QED
      BY <1>3, <2>1 DEF DialogFits
  <1> QED
    BY <1>1, <1>3, <1>4, DialogGoes

(* A collection of garbage begins with no dialog open.                     *)
LEMMA CollectGarbageGoes ==
    ASSUME M!Parameters, PageInv, M!CollectGarbage
    PROVE  Goes(view, view') /\ view.dialog = None
  <1>1. /\ ViewFits(view) /\ view.dialog = None /\ view.page = "media" /\ view' = M!Do(view, "gc", NoItem, {})
    BY DEF M!CollectGarbage, M!Modal, PageInv
  <1>2. "gc" \in ActOf(view.page)
    BY <1>1 DEF ActOf, M!Act
  <1> QED
    BY <1>1, <1>2, DoGoes

(* What is done when the user accepts is for an item he was asked about.   *)
LEMMA AcceptGoes ==
    ASSUME M!Parameters, PageInv, M!Accept
    PROVE  /\ Goes(view, view')
           /\ view.page \notin {"tasks", "resources"} =>
                \A c \in view'.calls : c \in view.calls \/ c.item \in view.dialog.items
  <1> DEFINE v == [view EXCEPT !.dialog = None]
             i == CHOOSE j \in M!Target(view) : TRUE
             to == IF view.page = "media" THEN M!Target(view) \ {i} ELSE None
  <1>1. ViewFits(view) /\ view.dialog # None /\ DOMAIN view = ViewFields
    BY DEF M!Accept, PageInv, ViewFits, Shaped
  <1>2. view' = M!Do(v, view.dialog.act, i, to)
    BY DEF M!Accept
  <1>3. Changes(view, v, {"dialog"}) /\ v.dialog = None /\ v.page = view.page /\ v.calls = view.calls
    BY <1>1 DEF Changes, ViewFields
  <1> HIDE DEF v, to
  <1>4. Goes(view, v) /\ ViewFits(v)
    BY <1>1, <1>3, DialogGoes DEF DialogFits, Goes
  <1>5. view.dialog.act \in ActOf(v.page) /\ view.dialog.items # {}
    BY <1>1, <1>3 DEF ViewFits, DialogFits
  <1>6. v.page = "memory" => Of(v, "act") = {}
    BY <1>1, <1>3, OfSame DEF ViewFits, DialogFits
  <1>7. view.page \notin {"tasks", "resources"} => i \in view.dialog.items \/ i = None
    <2>1. CASE view.page \in {"skills", "plugins", "media"}
      BY <1>5, <2>1 DEF M!Target
    <2>2. CASE view.page \in {"schedules", "memory"}
      <3>1. i = view.selected
        BY <2>2 DEF M!Target
      <3> HIDE DEF i
      <3>2. view.selected \in view.dialog.items \cup {None}
        BY <1>1, <2>2 DEF ViewFits, DialogFits
      <3> QED
        BY <3>1, <3>2
    <2> QED
      BY <1>1, <2>1, <2>2 DEF M!Parameters, ViewFits, Shaped
  <1> HIDE DEF i
  <1>8. /\ Goes(v, view') /\ \A c \in view'.calls : c \in v.calls \/ (c.what = "act" /\ c.item = i /\ i # None)
    BY <1>2, <1>3, <1>4, <1>5, <1>6, DoGoes
  <1>9. Goes(view, view')
    <2>1. v.conn = view.conn /\ v.listed = view.listed /\ \A k : Of(v, k) = Of(view, k)
      BY <1>3, OfSame DEF Changes, ViewFields
    <2> QED
      BY <1>3, <1>8, <2>1 DEF Goes, Fresh, M!Live
  <1> QED
    BY <1>3, <1>7, <1>8, <1>9

(* A dialog that is rejected begins nothing.                               *)
LEMMA RejectGoes ==
    ASSUME PageInv, M!Reject
    PROVE  Goes(view, view') /\ view'.calls = view.calls
  <1>1. ViewFits(view) /\ DOMAIN view = ViewFields /\ view' = [view EXCEPT !.dialog = None]
    BY DEF M!Reject, PageInv, ViewFits, Shaped
  <1>2. Changes(view, view', {"dialog"}) /\ view'.dialog = None /\ view'.calls = view.calls
    BY <1>1 DEF Changes, ViewFields
  <1> QED
    BY <1>1, <1>2, DialogGoes DEF DialogFits

-----------------------------------------------------------------------------
(* Every step. *)
LEMMA MediaGoes ==
    ASSUME Goes(view, view'), MediaFits, server' = server, troubles' = troubles
    PROVE  MediaFits'
  <1> SUFFICES ASSUME view'.page = "media", troubles' = 0
               PROVE  /\ M!Live(view') /\ \A c \in view'.calls : M!Failed(c) => c.what = "act" /\ c.act # "gc"
                      /\ \/ Of(view', "act") # {}
                         \/ /\ \A c \in Of(view', "list") : Up(c)
                            /\ view'.listed = server \/ Of(view', "list") # {}
    BY DEF MediaFits, Up
  <1>1. /\ view.page = "media" /\ view'.conn = view.conn /\ view'.listed = view.listed
        /\ \A c \in view'.calls : c \in view.calls \/ Fresh(view, c)
    BY DEF Goes
  <1>2. /\ M!Live(view) /\ \A c \in view.calls : M!Failed(c) => c.what = "act" /\ c.act # "gc"
        /\ \/ Of(view, "act") # {}
           \/ /\ \A c \in Of(view, "list") : Up(c)
              /\ view.listed = server \/ Of(view, "list") # {}
    BY <1>1 DEF MediaFits
  <1>3. M!Live(view')
    BY <1>1, <1>2 DEF M!Live
  <1>4. \A c : Fresh(view, c) => Up(c) /\ ~M!Failed(c)
    BY <1>2 DEF Fresh, Up, M!Failed
  <1>5. \/ Of(view', "list") = Of(view, "list") /\ Of(view, "act") \subseteq Of(view', "act")
        \/ Of(view', "list") # {} /\ \A c \in Of(view', "list") : Fresh(view, c)
    BY <1>1, <1>2 DEF Goes
  <1>6. \/ Of(view', "act") # {}
        \/ /\ \A c \in Of(view', "list") : Up(c)
           /\ view'.listed = server \/ Of(view', "list") # {}
    BY <1>1, <1>2, <1>4, <1>5
  <1> QED
    BY <1>1, <1>2, <1>3, <1>4, <1>6

(* Whatever the user does, and a drawer that has closed, keeps the         *)
(* invariant.                                                              *)
LEMMA GoesOn ==
    ASSUME M!Parameters, PageInv, MediaFits, M!User \/ M!Hide
    PROVE  PageInv' /\ MediaFits'
  <1>1. UNCHANGED <<server, troubles>>
    BY DEF M!User, M!Hide, M!ClickRefresh, M!CloseDrawer, M!Accept, M!Reject, M!DeleteChosen, M!CollectGarbage,
       M!ClickRow, M!LoadPlugin, M!Press, M!PressInRow, M!Step
  <1>2. Goes(view, view')
    BY ClickRefreshGoes, CloseDrawerGoes, AcceptGoes, RejectGoes, DeleteChosenGoes, CollectGarbageGoes, ClickRowGoes,
       LoadPluginGoes, PressGoes, PressInRowGoes, ButtonsAct, HideGoes DEF M!User
  <1>3. PageInv'
    BY <1>2 DEF Goes, PageInv
  <1> QED
    BY <1>1, <1>2, <1>3, MediaGoes

(* A call that is served keeps it: what an action changes on the server    *)
(* will be listed again.                                                   *)
LEMMA ServeOn ==
    ASSUME PageInv, MediaFits, troubles \in Nat, NEW c \in view.calls, M!Serve(c)
    PROVE  PageInv' /\ MediaFits'
  <1>1. PICK d : /\ view' = [view EXCEPT !.calls = (@ \ {c}) \cup {d}]
                 /\ DOMAIN d = CallFields /\ d.what = c.what /\ d.item = c.item /\ d.act = c.act
                 /\ M!Failed(d) /\ troubles' = 0 => d.what = "act" /\ d.act # "gc"
                 /\ troubles' = 0 /\ d.what = "list" => d.got = "ok" /\ d.list = server'
                 /\ server' = server \/ d.what = "act"
    BY ServeStep
  <1>2. Changes(view, view', {"calls"}) /\ view'.calls = (view.calls \ {c}) \cup {d}
    BY <1>1 DEF PageInv, ViewFits, Shaped, Changes, ViewFields
  <1>3. view'.page = view.page /\ view'.conn = view.conn /\ view'.listed = view.listed
    BY <1>2 DEF Changes, ViewFields
  <1>4. \A k : Of(view', k) = IF k = c.what THEN (Of(view, k) \ {c}) \cup {d} ELSE Of(view, k)
    BY <1>1, <1>2 DEF Of
  <1>5. c \in Of(view, c.what)
    BY DEF Of
  <1>6. troubles' = 0 => troubles = 0
    BY DEF M!Serve, M!Refuses, M!RefusesHistory
  <1>7. ASSUME view.page = "media", troubles' = 0
        PROVE  /\ M!Live(view') /\ \A e \in view'.calls : M!Failed(e) => e.what = "act" /\ e.act # "gc"
               /\ \/ Of(view', "act") # {}
                  \/ /\ \A e \in Of(view', "list") : e.got = "none" \/ (e.got = "ok" /\ e.list = server')
                     /\ view'.listed = server' \/ Of(view', "list") # {}
    <2>1. /\ M!Live(view) /\ \A e \in view.calls : M!Failed(e) => e.what = "act" /\ e.act # "gc"
          /\ \/ Of(view, "act") # {}
             \/ /\ \A e \in Of(view, "list") : e.got = "none" \/ (e.got = "ok" /\ e.list = server)
                /\ view.listed = server \/ Of(view, "list") # {}
      BY <1>6, <1>7 DEF MediaFits, Up
    <2>2. M!Live(view') /\ \A e \in view'.calls : M!Failed(e) => e.what = "act" /\ e.act # "gc"
      BY <1>1, <1>2, <1>3, <1>7, <2>1 DEF M!Live
    <2>3. CASE c.what = "act"
      BY <1>4, <2>2, <2>3
    <2>4. CASE c.what # "act"
      <3>1. server' = server /\ Of(view', "act") = Of(view, "act")
        BY <1>1, <1>4, <2>4
      <3>2. CASE c.what = "list"
        BY <1>1, <1>3, <1>4, <1>7, <2>1, <2>2, <3>1, <3>2
      <3>3. CASE c.what # "list"
        BY <1>1, <1>3, <1>4, <2>1, <2>2, <3>1, <3>3
      <3> QED
        BY <3>2, <3>3
    <2> QED
      BY <2>3, <2>4
  <1>8. MediaFits'
    BY <1>3, <1>7 DEF MediaFits, Up
  <1> QED
    BY <1>8, ServeFits

(* An answer that arrives keeps it.                                        *)
LEMMA AnswerOn ==
    ASSUME M!Parameters, PageInv, MediaFits, NEW c \in view.calls, M!Answer(c)
    PROVE  PageInv' /\ MediaFits'
  <1> DEFINE v == Taken(view, c)
  <1>1. ViewFits(view) /\ c.what \in What /\ UNCHANGED <<server, troubles>> /\ c.got # "none"
    BY DEF PageInv, ViewFits, Shaped, CallShaped, M!Answer
  <1>2. /\ Changes(view, v, {"calls"}) /\ v.calls = view.calls \ {c} /\ \A k : Of(v, k) = Of(view, k) \ {c}
        /\ v.page = view.page /\ v.conn = view.conn /\ v.listed = view.listed
    BY <1>1, TakenDoes DEF ViewFits, Changes, ViewFields
  <1>3. view' = CASE c.what = "list" -> M!Listed(v, c)
                  [] c.what = "detail" -> M!Detailed(v, c)
                  [] c.what = "act" -> M!Acted(v, c)
    BY DEF M!Answer, Taken
  <1>4. c \in Of(view, c.what)
    BY DEF Of
  <1>5. CASE c.what = "list"
    <2>1. view' = M!Listed(v, c)
      BY <1>3, <1>5
    <2>2. /\ ViewFits(view') /\ view'.page = view.page
          /\ view.page = "media" /\ ~M!Failed(c) =>
               /\ view'.listed = c.list /\ view'.conn = view.conn
               /\ Of(view', "list") = Of(v, "list") /\ Of(view', "act") = Of(v, "act")
               /\ \A d \in view'.calls : d \in view.calls \/ Fresh(view, d)
      BY <1>1, <1>5, <2>1, ListedFits
    <2> HIDE DEF v
    <2>3. ASSUME view.page = "media", troubles = 0
          PROVE  /\ M!Live(view') /\ \A e \in view'.calls : M!Failed(e) => e.what = "act" /\ e.act # "gc"
                 /\ \/ Of(view', "act") # {}
                    \/ /\ \A e \in Of(view', "list") : Up(e)
                       /\ view'.listed = server \/ Of(view', "list") # {}
      <3>1. /\ M!Live(view) /\ \A e \in view.calls : M!Failed(e) => e.what = "act" /\ e.act # "gc"
            /\ \/ Of(view, "act") # {}
               \/ /\ \A e \in Of(view, "list") : Up(e)
                  /\ view.listed = server \/ Of(view, "list") # {}
        BY <2>3 DEF MediaFits
      <3>2. ~M!Failed(c) /\ Of(v, "act") = Of(view, "act")
        BY <1>2, <1>5, <3>1 DEF Of
      <3>3. M!Live(view') /\ \A e \in view'.calls : M!Failed(e) => e.what = "act" /\ e.act # "gc"
        BY <2>2, <2>3, <3>1, <3>2 DEF M!Live, Fresh, M!Failed
      <3>4. Up(c) => c.list = server
        BY <1>1 DEF Up
      <3> QED
        BY <1>2, <1>4, <1>5, <2>2, <2>3, <3>1, <3>2, <3>3, <3>4
    <2>4. MediaFits'
      BY <1>1, <2>2, <2>3 DEF MediaFits, Up
    <2> QED
      BY <2>2, <2>4 DEF PageInv
  <1>6. CASE c.what = "detail"
    <2>1. view' = M!Detailed(v, c)
      BY <1>3, <1>6
    <2>2. ViewFits(view') /\ Changes(v, view', {"pending", "error", "selected", "detail", "busy", "visible", "hiding"})
      BY <1>1, <1>6, <2>1, DetailedFits
    <2> HIDE DEF v
    <2>3. view'.page = view.page /\ view'.conn = view.conn /\ view'.listed = view.listed /\ view'.calls = view.calls \ {c}
      BY <1>2, <2>2 DEF Changes, ViewFields
    <2>4. Of(view', "list") = Of(view, "list") /\ Of(view', "act") = Of(view, "act")
      BY <1>6, <2>3 DEF Of
    <2>5. MediaFits'
      BY <1>1, <2>3, <2>4 DEF MediaFits, Up, M!Live
    <2> QED
      BY <2>2, <2>5 DEF PageInv
  <1>7. CASE c.what = "act"
    <2>1. view' = M!Acted(v, c)
      BY <1>3, <1>7
    <2>2. /\ ViewFits(view') /\ view'.page = view.page
          /\ view.page = "media" /\ ~(c.act = "gc" /\ M!Failed(c)) =>
               /\ view'.conn = view.conn /\ \A d \in view'.calls : d \in view.calls \/ Fresh(view, d)
               /\ M!Live(view) => \/ Of(view', "act") # {}
                                  \/ Of(view', "list") # {} /\ \A d \in Of(view', "list") : Fresh(view, d)
      BY <1>1, <1>7, <2>1, ActedFits
    <2> HIDE DEF v
    <2>3. ASSUME view.page = "media", troubles = 0
          PROVE  /\ M!Live(view') /\ \A e \in view'.calls : M!Failed(e) => e.what = "act" /\ e.act # "gc"
                 /\ \/ Of(view', "act") # {}
                    \/ /\ \A e \in Of(view', "list") : Up(e)
                       /\ view'.listed = server \/ Of(view', "list") # {}
      <3>1. M!Live(view) /\ \A e \in view.calls : M!Failed(e) => e.what = "act" /\ e.act # "gc"
        BY <2>3 DEF MediaFits
      <3>2. ~(c.act = "gc" /\ M!Failed(c))
        BY <3>1
      <3>3. \A d : Fresh(view, d) => Up(d) /\ ~M!Failed(d)
        BY <3>1 DEF Fresh, Up, M!Failed
      <3>4. M!Live(view')
        BY <2>2, <2>3, <3>1, <3>2 DEF M!Live
      <3> QED
        BY <2>2, <2>3, <3>1, <3>2, <3>3, <3>4
    <2>4. MediaFits'
      BY <1>1, <2>2, <2>3 DEF MediaFits, Up
    <2> QED
      BY <2>2, <2>4 DEF PageInv
  <1> QED
    BY <1>1, <1>5, <1>6, <1>7 DEF What

(* So do others who create and remove items.                               *)
LEMMA ElsewhereOn ==
    ASSUME PageInv, troubles \in Nat, NEW i \in Item, M!Elsewhere(i)
    PROVE  PageInv' /\ MediaFits' /\ view' = view
  <1>1. view' = view /\ troubles' # 0
    BY DEF M!Elsewhere
  <1> QED
    BY <1>1 DEF PageInv, MediaFits

(* The connection's state is no part of what is in order.                  *)
LEMMA ConnFits ==
    ASSUME NEW v, ViewFits(v), NEW conn
    PROVE  ViewFits([v EXCEPT !.conn = conn]) /\ Changes(v, [v EXCEPT !.conn = conn], {"conn"})
  <1> DEFINE w == [v EXCEPT !.conn = conn]
  <1>1. Changes(v, w, {"conn"})
    BY DEF ViewFits, Shaped, Changes, ViewFields
  <1> HIDE DEF w
  <1>2. /\ w.page = v.page /\ w.route = v.route /\ w.selected = v.selected /\ w.detail = v.detail /\ w.busy = v.busy
        /\ w.visible = v.visible /\ w.pending = v.pending /\ w.dialog = v.dialog /\ w.error = v.error /\ w.hiding = v.hiding
        /\ w.calls = v.calls
    BY <1>1 DEF Changes, ViewFields
  <1>3. \A k : Of(w, k) = Of(v, k)
    BY <1>2, OfSame
  <1>4. Shaped(w)
    BY <1>1, <1>2 DEF ViewFits, Shaped, Changes
  <1>5. DetailsFit(w) /\ DrawerFits(w)
    BY <1>2, <1>3 DEF ViewFits, DetailsFit, DrawerFits
  <1>6. DialogFits(w) /\ PendingFits(w)
    BY <1>2, <1>3 DEF ViewFits, DialogFits, PendingFits
  <1> QED
    BY <1>1, <1>4, <1>5, <1>6 DEF ViewFits, w

(* Calls that are lost are still for what they were for.                   *)
LEMMA LostFits ==
    ASSUME NEW v, ViewFits(v)
    PROVE  ViewFits(M!Lost(v)) /\ M!Lost(v).dialog = v.dialog
  <1> DEFINE w == M!Lost(v)
             gone(c) == [c EXCEPT !.got = "rejected", !.list = {}]
  <1>1. Changes(v, w, {"calls"}) /\ w.calls = {gone(c) : c \in v.calls}
    <2> DEFINE lost == {gone(c) : c \in v.calls}
    <2>1. w = [v EXCEPT !.calls = lost]
      BY DEF M!Lost
    <2> HIDE DEF w, lost
    <2>2. Changes(v, w, {"calls"}) /\ w.calls = lost
      BY <2>1 DEF ViewFits, Shaped, Changes, ViewFields
    <2> HIDE DEF gone
    <2> QED
      BY <2>2 DEF lost
  <1>2. \A c \in v.calls : /\ DOMAIN gone(c) = CallFields /\ gone(c).what = c.what
                           /\ gone(c).item = c.item /\ gone(c).act = c.act
    BY DEF ViewFits, Shaped, CallShaped, CallFields
  <1> HIDE DEF w, gone
  <1>3. \A k : Of(w, k) = {gone(c) : c \in Of(v, k)}
    BY <1>1, <1>2 DEF Of
  <1>4. \A d \in w.calls : \E c \in v.calls : DOMAIN d = CallFields /\ d.what = c.what /\ d.item = c.item /\ d.act = c.act
    BY <1>1, <1>2
  <1>5. ASSUME NEW k \in What PROVE Of(w, k) = {} <=> Of(v, k) = {}
    <2> DEFINE S == Of(v, k)
    <2>1. Of(w, k) = {gone(c) : c \in S}
      BY <1>3
    <2> HIDE DEF S
    <2>2. {gone(c) : c \in S} = {} <=> S = {}
      OBVIOUS
    <2> QED
      BY <2>1, <2>2 DEF S
  <1>6. \A k \in What : (\A c, d \in Of(v, k) : c = d) => (\A c, d \in Of(w, k) : c = d)
    BY <1>3
  <1>7. ViewFits(w)
    BY <1>1, <1>4, <1>5, <1>6, CallsFit
  <1> QED
    BY <1>1, <1>7 DEF Changes, ViewFields, w

(* A connection that drops keeps the invariant, and the dialog.            *)
LEMMA DropOn ==
    ASSUME PageInv, troubles \in Nat, M!Drop
    PROVE  PageInv' /\ MediaFits' /\ view'.dialog = view.dialog
  <1> DEFINE u == [view EXCEPT !.conn = "reconnecting"]
  <1>1. ViewFits(u) /\ u.dialog = view.dialog
    BY ConnFits DEF PageInv, Changes, ViewFields
  <1>2. view' = M!Refresh(M!Lost(u)) /\ troubles' # 0
    BY DEF M!Drop
  <1> HIDE DEF u
  <1>3. ViewFits(view') /\ view'.dialog = view.dialog
    BY <1>1, <1>2, LostFits, RefreshFits
  <1> QED
    BY <1>2, <1>3 DEF PageInv, MediaFits

(* So does one that is restored or given up.                               *)
LEMMA ReconnectOn ==
    ASSUME PageInv, MediaFits, M!Reconnect
    PROVE  PageInv' /\ MediaFits' /\ view'.dialog = view.dialog
  <1>1. PICK s \in {"authenticated", "failed"} : view' = M!Refresh([view EXCEPT !.conn = s])
    BY DEF M!Reconnect
  <1> DEFINE u == [view EXCEPT !.conn = s]
  <1>2. ViewFits(u) /\ u.dialog = view.dialog /\ u.page = view.page
    BY ConnFits DEF PageInv, Changes, ViewFields
  <1>3. view' = M!Refresh(u)
    BY <1>1
  <1> HIDE DEF u
  <1>4. ViewFits(view') /\ view'.dialog = view.dialog /\ view'.page = view.page
    BY <1>2, <1>3, RefreshFits
  <1>5. troubles' = troubles /\ ~M!Live(view)
    BY DEF M!Reconnect, M!Live
  <1> QED
    BY <1>4, <1>5 DEF PageInv, MediaFits

(* A page that is opened is in order.                                      *)
LEMMA MountedFits ==
    ASSUME NEW p \in Visited, NEW r
    PROVE  ViewFits(M!Mounted(p, r)) /\ M!Mounted(p, r).page = p /\ M!Live(M!Mounted(p, r)) /\ M!Mounted(p, r).calls = {}
  <1> DEFINE v == M!Mounted(p, r)
  <1>1. /\ DOMAIN v = ViewFields /\ v.page = p /\ v.calls = {} /\ v.selected = None /\ v.detail = None /\ v.busy = FALSE
        /\ v.visible = FALSE /\ v.hiding = FALSE /\ v.pending = None /\ v.dialog = None /\ v.error = FALSE /\ M!Live(v)
    BY DEF M!Mounted, ViewFields, M!Live
  <1> HIDE DEF v
  <1>2. \A k : Of(v, k) = {}
    BY <1>1 DEF Of
  <1>3. Shaped(v)
    BY <1>1 DEF Shaped
  <1>4. DetailsFit(v) /\ DrawerFits(v)
    BY <1>1, <1>2 DEF DetailsFit, DrawerFits
  <1>5. DialogFits(v) /\ PendingFits(v)
    BY <1>1, <1>2 DEF DialogFits, PendingFits
  <1> QED
    BY <1>1, <1>3, <1>4, <1>5 DEF ViewFits, v

PagesInv == PageInv /\ troubles \in Nat /\ MediaFits

(* The invariant holds when a page is opened.                              *)
LEMMA PagesInitFit ==
    ASSUME M!Init
    PROVE  PagesInv
  <1>1. PICK p \in Visited : \E r : view = M!Refresh(M!Mounted(p, r))
    BY DEF M!Init
  <1>0. PICK r : view = M!Refresh(M!Mounted(p, r))
    BY <1>1
  <1> DEFINE v == M!Mounted(p, r)
  <1>2. ViewFits(v) /\ v.page = p /\ M!Live(v) /\ v.calls = {}
    BY MountedFits
  <1>3. view = M!Refresh(v)
    BY <1>0
  <1> HIDE DEF v
  <1>4. /\ ViewFits(view) /\ Changes(v, view, {"calls", "loading", "error"})
        /\ \A c \in view.calls : c \in v.calls \/ Fresh(v, c)
        /\ v.page = "media" /\ M!Live(v) => Of(view, "list") # {} /\ \A c \in Of(view, "list") : Fresh(v, c)
    BY <1>2, <1>3, RefreshDoes DEF ViewFits, Refreshable
  <1>5. view.page = v.page /\ view.conn = v.conn
    BY <1>4 DEF Changes, ViewFields
  <1>6. \A c : Fresh(v, c) => Up(c) /\ ~M!Failed(c)
    BY <1>2 DEF Fresh, Up, M!Failed
  <1>7. MediaFits
    BY <1>2, <1>4, <1>5, <1>6 DEF MediaFits, M!Live
  <1> QED
    BY <1>4, <1>7 DEF PagesInv, PageInv, M!Init

(* Every step keeps the invariant.                                         *)
LEMMA PagesNextFit ==
    ASSUME M!Parameters, PagesInv, [M!Next]_(M!vars)
    PROVE  PagesInv'
  <1>1. PageInv /\ troubles \in Nat /\ MediaFits
    BY DEF PagesInv
  <1>2. troubles' \in Nat
    <2>1. M!User \/ M!Hide => troubles' = troubles
      BY DEF M!User, M!Hide, M!ClickRefresh, M!CloseDrawer, M!Accept, M!Reject, M!DeleteChosen, M!CollectGarbage,
         M!ClickRow, M!LoadPlugin, M!Press, M!PressInRow, M!Step
    <2>2. \A c \in view.calls : M!Serve(c) \/ M!Answer(c) => troubles' \in {troubles, troubles + 1}
      BY DEF M!Serve, M!Answer, M!Refuses, M!RefusesHistory
    <2>3. (\E i \in Item : M!Elsewhere(i)) \/ M!Drop \/ M!Reconnect => troubles' \in {troubles, troubles + 1}
      BY DEF M!Elsewhere, M!Drop, M!Reconnect
    <2> QED
      BY <1>1, <2>1, <2>2, <2>3 DEF M!Next, M!vars
  <1>3. CASE M!User \/ M!Hide
    BY <1>1, <1>2, <1>3, GoesOn DEF PagesInv
  <1>4. ASSUME NEW c \in view.calls, M!Serve(c) PROVE PagesInv'
    BY <1>1, <1>2, <1>4, ServeOn DEF PagesInv
  <1>5. ASSUME NEW c \in view.calls, M!Answer(c) PROVE PagesInv'
    BY <1>1, <1>2, <1>5, AnswerOn DEF PagesInv
  <1>6. ASSUME NEW i \in Item, M!Elsewhere(i) PROVE PagesInv'
    BY <1>1, <1>2, <1>6, ElsewhereOn DEF PagesInv
  <1>7. CASE M!Drop
    BY <1>1, <1>2, <1>7, DropOn DEF PagesInv
  <1>8. CASE M!Reconnect
    BY <1>1, <1>2, <1>8, ReconnectOn DEF PagesInv
  <1>9. CASE UNCHANGED M!vars
    BY <1>1, <1>2, <1>9 DEF PagesInv, PageInv, MediaFits, Up, M!vars
  <1> QED
    BY <1>3, <1>4, <1>5, <1>6, <1>7, <1>8, <1>9 DEF M!Next

(* A page is in order in every state: what its drawer shows, its route,    *)
(* its dialog and the calls it waits for agree.                            *)
THEOREM PagesInvariance ==
    ASSUME M!Parameters
    PROVE  M!Spec => []PagesInv
  <1>1. M!Init => PagesInv
    BY PagesInitFit
  <1>2. PagesInv /\ [M!Next]_(M!vars) => PagesInv'
    BY PagesNextFit
  <1> QED
    BY <1>1, <1>2, PTL DEF M!Spec

(* At rest and without an error, a drawer shows the item that the address  *)
(* names, with that item's own detail, whatever order the answers came in  *)
(* (useLatest, the generation counters and the checks of MemoryPage.vue).  *)
(* Tasks is left out, as in the property.                                  *)
THEOREM DrawersShowOneItem ==
    ASSUME M!Parameters
    PROVE  M!Spec => []DrawerShowsOneItem
  <1>1. PagesInv => DrawerShowsOneItem
    <2> SUFFICES ASSUME PageInv, AtRest, view.page # "tasks"
                 PROVE  /\ view.page \in Routed /\ view.visible => view.route = view.selected
                        /\ view.detail # None => view.detail = view.selected
      BY DEF PagesInv, DrawerShowsOneItem
    <2>1. \A k : Of(view, k) = {}
      BY DEF AtRest, Of
    <2> QED
      BY <2>1 DEF M!Parameters, PageInv, ViewFits, Shaped, DrawerFits, AtRest, Routed, M!Routed
  <1> QED
    BY <1>1, PagesInvariance, PTL

(* Unless others change something or a request fails, Media at rest lists  *)
(* what the server has, whatever was refreshed or deleted in between       *)
(* (useMediaOperations.ts).                                                *)
THEOREM ListingsAreCurrent ==
    ASSUME M!Parameters
    PROVE  M!Spec => []ListingIsCurrent
  <1>1. PagesInv => ListingIsCurrent
    BY DEF PagesInv, MediaFits, ListingIsCurrent, Of
  <1> QED
    BY <1>1, PagesInvariance, PTL

(* A dialog that is open closes only when the user accepts or rejects it.  *)
LEMMA DialogStays ==
    ASSUME M!Parameters, PagesInv, M!Next
    PROVE  view.dialog = None \/ view'.dialog = view.dialog \/ M!Accept \/ M!Reject
  <1>1. PageInv /\ troubles \in Nat /\ MediaFits
    BY DEF PagesInv
  <1>2. CASE M!User \/ M!Hide
    BY <1>1, <1>2, ClickRefreshGoes, CloseDrawerGoes, DeleteChosenGoes, CollectGarbageGoes, ClickRowGoes,
       LoadPluginGoes, PressGoes, PressInRowGoes, ButtonsAct, HideGoes DEF M!User
  <1>3. ASSUME NEW c \in view.calls, M!Serve(c) PROVE view'.dialog = view.dialog
    <2>1. PICK d : view' = [view EXCEPT !.calls = (@ \ {c}) \cup {d}]
      BY <1>1, <1>3, ServeStep
    <2> QED
      BY <2>1
  <1>4. ASSUME NEW c \in view.calls, M!Answer(c) PROVE view'.dialog = view.dialog
    <2> DEFINE v == Taken(view, c)
    <2>1. ViewFits(view) /\ c.what \in What
      BY <1>1 DEF PageInv, ViewFits, Shaped, CallShaped
    <2>2. v.dialog = view.dialog
      BY <2>1, TakenDoes DEF ViewFits, Changes, ViewFields
    <2>3. view' = CASE c.what = "list" -> M!Listed(v, c)
                    [] c.what = "detail" -> M!Detailed(v, c)
                    [] c.what = "act" -> M!Acted(v, c)
      BY <1>4 DEF M!Answer, Taken
    <2>4. CASE c.what = "list"
      BY <2>1, <2>3, <2>4, ListedFits
    <2>5. CASE c.what = "detail"
      <3>1. Changes(v, view', {"pending", "error", "selected", "detail", "busy", "visible", "hiding"})
        BY <2>1, <2>3, <2>5, DetailedFits
      <3> QED
        BY <2>2, <3>1 DEF Changes, ViewFields
    <2>6. CASE c.what = "act"
      BY <2>1, <2>3, <2>6, ActedFits
    <2> QED
      BY <2>1, <2>4, <2>5, <2>6 DEF What
  <1> QED
    BY <1>1, <1>2, <1>3, <1>4, ElsewhereOn, DropOn, ReconnectOn DEF M!Next

(* What a dialog asked about is what is acted on when the user accepts,    *)
(* though answers may change the selection while it is open. Tasks and     *)
(* Resources are left out, as in the property.                             *)
THEOREM ActionsAreAskedFor ==
    ASSUME M!Parameters
    PROVE  M!Spec => ActsOnWhatWasAsked
  <1>1. PagesInv /\ [M!Next]_(M!vars) =>
          [view.dialog # None /\ view'.dialog = None /\ view.page \notin {"tasks", "resources"}
             => \A c \in Begun : c.item \in view.dialog.items]_<<view, server, troubles>>
    <2> SUFFICES ASSUME PagesInv, M!Next, view.dialog # None, view'.dialog = None, view.page \notin {"tasks", "resources"},
                        NEW c \in Begun
                 PROVE  c.item \in view.dialog.items
      BY DEF M!vars
    <2>1. PageInv /\ c \in view'.calls /\ c \notin view.calls
      BY DEF PagesInv, Begun
    <2>2. M!Accept \/ M!Reject
      BY DialogStays
    <2> QED
      BY <2>1, <2>2, AcceptGoes, RejectGoes
  <1> QED
    BY <1>1, PagesInvariance, PTL DEF M!Spec, M!vars, ActsOnWhatWasAsked
=============================================================================
