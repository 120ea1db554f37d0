---------------------------- MODULE ActiveThreads ----------------------------
(***************************************************************************)
(* Running agent threads and the messages that steer, continue and halt    *)
(* them: Bot.Storage.Thread with its callers Bot.Handler.Console and       *)
(* Bot.Handler.Ask, and the steering of Bot.Agent.Middleware.Steering.     *)
(*                                                                         *)
(* One dispatcher routes messages in order.  A message of a console        *)
(* session steers the session's run or starts one; a reply steers the run  *)
(* that owns the message replied to or continues its transcript.  Each run *)
(* is a worker, and a halter stops one on behalf of a user.  Every access  *)
(* to the active map, to a thread's steering MVar and to storage is an     *)
(* action.  A transcript is the sequence of the user messages in it.       *)
(***************************************************************************)
EXTENDS Naturals, Sequences, FiniteSetsExt

CONSTANTS
  MaxMsg,   \* bound on the messages received
  MaxTurns, \* the agent's turn limit
  MaxFault, \* bound on the requests and storage calls that fail
  Sender,   \* who sends each message
  Route,    \* the ways messages come: "session", "fresh", "reply"
  Halter    \* requests to halt a run, each at most once

Msg  == 1 .. MaxMsg
None == 0

ASSUME ConstantsAssumption ==
  /\ MaxMsg \in Nat /\ MaxTurns \in Nat \ {0} /\ MaxFault \in Nat /\ DOMAIN Sender = Msg
  /\ Halter \cap Msg = {} /\ Route \subseteq {"session", "fresh", "reply"}

Key       == {"user", "bot"} \X Msg     \* messages: the user's, and the bot's reply to it
Session   == <<"session", None>>        \* the console session
Fresh     == <<"fresh", None>>          \* a message that replies to nothing the bot knows
ActiveKey == Key \cup ({"id"} \X Msg) \cup {Session}
Actor     == Msg \cup Halter

VARIABLES
  arrived, \* number of messages the dispatcher has taken
  target,  \* what each message is addressed to
  sent,    \* replies the bot has sent
  log,     \* the console session's stored messages, in order
  hand,    \* the dispatcher: where it is with message number `arrived`
  act,     \* the worker started for each message, and the halters
  marked,  \* workers that were cancelled
  thread,  \* the ActiveThread of each run
  active,  \* the active map: the run of each key
  rows,    \* storage: the transcript of each message key
  faults,  \* failures so far
  taken,   \* the run that accepted each message as a steer      (history variable)
  known,   \* replies whose target was known as they arrived      (history variable)
  unsaved, \* runs whose transcript could not be written          (history variable)
  torn     \* runs whose finisher was stopped half-way           (history variable)

inbox   == <<arrived, target>>
outbox  == <<sent, log>>
storage == <<rows, faults>>
history == <<taken, known, unsaved, torn>>
vars    == <<inbox, outbox, hand, act, marked, thread, active, storage, history>>

IdleHand == [at |-> "idle", thread |-> None, refused |-> FALSE]
Idle     == [at |-> "idle", thread |-> None, base |-> <<>>, text |-> <<>>,
             keys |-> {}, turns |-> 0, how |-> "running", unwinding |-> FALSE]
NoThread == [phase |-> "none", queue |-> <<>>, wake |-> FALSE, current |-> <<>>,
             done |-> <<>>, keys |-> {}]

Phases == {"none", "open", "completed", "finishing"}
Unregistered == {"base", "register", "relook", "resteer"}
Running      == {"adding", "turn", "model", "update", "commit"}
Finishing    == {"persist", "done", "remove"}
Stages       == Unregistered \cup Running \cup Finishing
                \cup {"idle", "over", "mark", "cancel", "join", "read"}

TypeOK ==
  /\ arrived \in 0 .. MaxMsg
  /\ target \in [Msg -> Key \cup {Session, Fresh}]
  /\ sent \subseteq Key /\ log \in Seq(Key)
  /\ hand \in [at : {"idle", "look", "stored", "again", "await", "steer"},
               thread : Msg \cup {None}, refused : BOOLEAN]
  /\ act \in [Actor -> [at : Stages, thread : Msg \cup {None}, base : Seq(Msg), text : Seq(Msg),
                        keys : SUBSET Key, turns : 0 .. MaxTurns + MaxMsg, how : {"running", "answered", "cut"},
                        unwinding : BOOLEAN]]
  /\ marked \subseteq Msg
  /\ thread \in [Msg -> [phase : Phases, queue : Seq(Msg), wake : BOOLEAN,
                         current : Seq(Msg), done : Seq(Msg), keys : SUBSET Key]]
  /\ active \in [ActiveKey -> Msg \cup {None}]
  /\ rows \in [Key -> Seq(Msg)] /\ faults \in 0 .. MaxFault
  /\ taken \in [Msg -> Msg \cup {None}]
  /\ known \subseteq Msg /\ unsaved \subseteq Msg
  /\ torn \subseteq Msg

Init ==
  /\ arrived = 0 /\ target = [m \in Msg |-> Fresh] /\ sent = {} /\ log = <<>>
  /\ hand = IdleHand /\ act = [a \in Actor |-> Idle] /\ marked = {}
  /\ thread = [m \in Msg |-> NoThread] /\ active = [k \in ActiveKey |-> None]
  /\ rows = [k \in Key |-> <<>>] /\ faults = 0
  /\ taken = [m \in Msg |-> None]
  /\ known = {} /\ unsaved = {} /\ torn = {}

-----------------------------------------------------------------------------
OfSession(m) == target[m] = Session
Listed(t)    == active[<<"id", t>>] = t
Stored(k)    == rows[k] # <<>>

\* The newest stored transcript of the session: latestConsoleTranscript.
Latest ==
  LET kept == {i \in DOMAIN log : Stored(log[i])} IN IF kept = {} THEN <<>> ELSE rows[log[Max(kept)]]

OpenUntilFinishing(t) == thread[t].phase \in {"open", "completed"} \* mutant: completion is no barrier
Open(t) == thread[t].phase = "open"

\* A steer is queued, its message becomes an alias, and waits are woken.
Accept(t, m) ==
  /\ thread' = [thread EXCEPT ![t].queue = Append(@, m), ![t].wake = TRUE]
  /\ active' = [active EXCEPT ![<<"user", m>>] = t]
  /\ taken' = [taken EXCEPT ![m] = t]

\* A drain takes every queued steer and the wake-up with them.
Drained(t) == [thread EXCEPT ![t].queue = <<>>, ![t].wake = FALSE]

\* mutant: the alias is not remembered as a place to store the transcript at
AddAlias(t, k) ==
  IF thread[t].phase = "finishing" THEN UNCHANGED <<thread, active>>
  ELSE active' = [active EXCEPT ![k] = t] /\ UNCHANGED thread

\* A message of the run becomes an alias and a key to store its transcript at.
AddMessage(t, k) ==
  IF thread[t].phase = "finishing" THEN UNCHANGED <<thread, active>>
  ELSE /\ thread' = [thread EXCEPT ![t].keys = @ \cup {k}]
       /\ active' = [active EXCEPT ![k] = t]

-----------------------------------------------------------------------------
(* The dispatcher.                                                         *)

\* What a message can be addressed to when it is the next to come.
Addressees(m) ==
  LET told == {<<"user", j>> : j \in 1 .. m - 1} \cup sent IN
    (IF "session" \in Route THEN {Session} ELSE {}) \cup (IF "fresh" \in Route THEN {Fresh} ELSE {})
      \cup (IF "reply" \in Route THEN {k \in told : ~OfSession(k[2])} ELSE {})

Arrive ==
  /\ hand.at = "idle" /\ arrived < MaxMsg
  /\ arrived' = arrived + 1
  /\ \E k \in Addressees(arrived') :
       /\ target' = [target EXCEPT ![arrived'] = k]
       /\ log' = IF k = Session THEN Append(log, <<"user", arrived'>>) ELSE log
       /\ known' = IF k \in sent /\ (active[k] # None \/ Stored(k))
                   THEN known \cup {arrived'} ELSE known
  /\ hand' = [IdleHand EXCEPT !.at = "look"]
  /\ UNCHANGED <<sent, act, marked, thread, active, storage, taken, unsaved, torn>>

\* A worker is forked for the message; base is the transcript it continues.
Fire(m, base) ==
  /\ hand' = IdleHand
  /\ act' = [act EXCEPT ![m] = [Idle EXCEPT !.at = IF OfSession(m) THEN "base" ELSE "register",
                                            !.thread = m, !.base = base]]

\* A run that refused the steer, or belongs to someone else, is continued
\* from the transcript it shows at the moment.
Look(m) ==
  /\ hand.at = "look"
  /\ IF target[m] = Fresh THEN Fire(m, <<>>)
     ELSE LET t == active[target[m]] IN
       CASE t = None /\ OfSession(m) -> Fire(m, <<>>)
         [] t = None /\ ~OfSession(m) -> hand' = [hand EXCEPT !.at = "stored"] /\ UNCHANGED act
         [] t # None /\ (OfSession(m) \/ (Sender[m] = Sender[t] /\ ~hand.refused)) ->
              hand' = [hand EXCEPT !.at = "steer", !.thread = t] /\ UNCHANGED act
         [] OTHER -> Fire(m, thread[t].current)
  /\ UNCHANGED <<inbox, outbox, marked, thread, active, storage, history>>

\* lookupThreadTranscript: storage first, the active map next.
LookStored(m) ==
  /\ hand.at = "stored"
  /\ IF Stored(target[m]) THEN Fire(m, rows[target[m]])
     ELSE hand' = [hand EXCEPT !.at = "again"] /\ UNCHANGED act
  /\ UNCHANGED <<inbox, outbox, marked, thread, active, storage, history>>

LookAgain(m) ==
  /\ hand.at = "again"
  /\ IF active[target[m]] = None THEN Fire(m, <<>>)
     ELSE hand' = [hand EXCEPT !.at = "await", !.thread = active[target[m]]] /\ UNCHANGED act
  /\ UNCHANGED <<inbox, outbox, marked, thread, active, storage, history>>

AwaitDone(m) ==
  /\ hand.at = "await" /\ thread[hand.thread].done # <<>>
  /\ Fire(m, thread[hand.thread].done)
  /\ UNCHANGED <<inbox, outbox, marked, thread, active, storage, history>>

Steer(m) ==
  /\ hand.at = "steer"
  /\ IF Open(hand.thread)
     THEN Accept(hand.thread, m) /\ hand' = IdleHand /\ UNCHANGED act
     ELSE /\ IF OfSession(m) THEN Fire(m, <<>>)
             ELSE hand' = [IdleHand EXCEPT !.at = "look", !.refused = TRUE] /\ UNCHANGED act
          /\ UNCHANGED <<thread, active, taken>>
  /\ UNCHANGED <<inbox, outbox, marked, storage, known, unsaved, torn>>

Dispatch == \E m \in Msg :
  /\ m = arrived
  /\ Look(m) \/ LookStored(m) \/ LookAgain(m) \/ AwaitDone(m) \/ Steer(m)

-----------------------------------------------------------------------------
(* The worker of a message, up to the end of its agent run.                *)

Go(a, stage) == act' = [act EXCEPT ![a].at = stage]

\* The base is read before the run is registered.
ReadBase(m) ==
  /\ act[m].at = "base"
  /\ act' = [act EXCEPT ![m].at = "register", ![m].base = Latest]
  /\ UNCHANGED <<inbox, outbox, hand, marked, thread, active, storage, history>>

RefusedNever(m) == FALSE      \* mutant: the session key is overwritten

\* A session has one run: the second to register is refused.
Refused(m) == OfSession(m) /\ active[Session] # None

Register(m) ==
  /\ act[m].at = "register"
  /\ IF Refused(m)
     THEN Go(m, "relook") /\ UNCHANGED <<thread, active>>
     ELSE LET text == Append(act[m].base, m)
              own  == {<<"id", m>>, <<"user", m>>} \cup (IF OfSession(m) THEN {Session} ELSE {})
          IN
            /\ act' = [act EXCEPT ![m].text = text,
                                  ![m].at = IF OfSession(m) THEN "adding" ELSE "turn"]
            /\ thread' = [thread EXCEPT ![m] = [NoThread EXCEPT !.phase = "open", !.current = text]]
            /\ active' = [k \in ActiveKey |-> IF k \in own THEN m ELSE active[k]]
  /\ UNCHANGED <<inbox, outbox, hand, marked, storage, history>>

\* The refused worker offers its message to the session's run once more, and
\* ignores the answer.
Relook(m) ==
  /\ act[m].at = "relook"
  /\ LET t == active[Session] IN
       act' = [act EXCEPT ![m].at = IF t = None THEN "over" ELSE "resteer", ![m].thread = t]
  /\ UNCHANGED <<inbox, outbox, hand, marked, thread, active, storage, history>>

Resteer(m) ==
  /\ act[m].at = "resteer"
  /\ Go(m, "over")
  /\ IF Open(act[m].thread) THEN Accept(act[m].thread, m)
     ELSE UNCHANGED <<thread, active, taken>>
  /\ UNCHANGED <<inbox, outbox, hand, marked, storage, known, unsaved, torn>>

AddOwn(m) ==
  /\ act[m].at = "adding"
  /\ Go(m, "turn")
  /\ AddMessage(m, <<"user", m>>)
  /\ UNCHANGED <<inbox, outbox, hand, marked, storage, history>>

\* Before each model turn the queued steers join the transcript.
Turn(m) ==
  /\ act[m].at = "turn"
  /\ act' = [act EXCEPT ![m].at = "model", ![m].turns = @ + 1,
                        ![m].text = IF Open(m) THEN @ \o thread[m].queue ELSE @]
  /\ thread' = IF Open(m) THEN Drained(m) ELSE thread
  /\ UNCHANGED <<inbox, outbox, hand, marked, active, storage, history>>

Send(m) ==
  /\ <<"bot", m>> \notin sent
  /\ sent' = sent \cup {<<"bot", m>>}
  /\ log' = IF OfSession(m) THEN Append(log, <<"bot", m>>) ELSE log

\* The reply is out before its message becomes an alias.
SendReply(m) ==
  /\ act[m].at = "model"
  /\ Send(m) /\ Go(m, "update")
  /\ UNCHANGED <<inbox, hand, marked, thread, active, storage, history>>

RecordUpdate(m) ==
  /\ act[m].at = "update"
  /\ Go(m, "model")
  /\ AddMessage(m, <<"bot", m>>)
  /\ UNCHANGED <<inbox, outbox, hand, marked, storage, history>>

Fault == faults < MaxFault /\ faults' = faults + 1

AtLimit(m)      == act[m].turns >= MaxTurns

\* The model asks for tools within the turn limit, or beyond it.
AskForTools(m) ==
  /\ act[m].at = "model"
  /\ IF AtLimit(m) THEN act' = [act EXCEPT ![m].at = "commit", ![m].how = "cut"]
     ELSE Go(m, "turn")
  /\ UNCHANGED <<inbox, outbox, hand, marked, thread, active, storage, history>>

\* The request fails, and the reply says so.
ModelFails(m) ==
  /\ act[m].at = "model" /\ Fault
  /\ act' = [act EXCEPT ![m].at = "commit", ![m].how = "cut",
                        ![m].text = Append(act[m].base, m)]
  /\ Send(m) \/ UNCHANGED outbox
  /\ UNCHANGED <<inbox, hand, marked, thread, active, rows, history>>

\* The model answers.  The run is over only if no steer is waiting, and from
\* then on none is accepted.
Complete(m) ==
  /\ act[m].at = "model"
  /\ CASE Open(m) /\ thread[m].queue = <<>> ->
            /\ thread' = [thread EXCEPT ![m].phase = "completed"]
            /\ act' = [act EXCEPT ![m].at = "commit", ![m].how = "answered"]
       [] Open(m) /\ thread[m].queue # <<>> ->
            /\ thread' = Drained(m)
            /\ act' = [act EXCEPT ![m].at = "turn", ![m].text = @ \o thread[m].queue]
       [] OTHER ->
            /\ act' = [act EXCEPT ![m].at = "commit", ![m].how = "cut"]
            /\ UNCHANGED thread
  /\ UNCHANGED <<inbox, outbox, hand, marked, active, storage, history>>

-----------------------------------------------------------------------------
(* The end of a thread.                                                    *)

\* An exception in a registered run finishes it with what it shows so far.
Unwind(m) ==
  act' = [act EXCEPT ![m].at = "mark", ![m].text = thread[m].current,
                     ![m].how = "cut", ![m].unwinding = TRUE]

\* commitAgentReply, commitConsoleReply: recording the answer may fail.
Commit(m) ==
  /\ act[m].at = "commit"
  /\ \/ /\ Go(m, "mark") /\ UNCHANGED faults
        /\ IF <<"bot", m>> \in sent THEN AddMessage(m, <<"bot", m>>) ELSE UNCHANGED <<thread, active>>
     \/ Fault /\ Unwind(m) /\ UNCHANGED <<thread, active>>
  /\ UNCHANGED <<inbox, outbox, hand, marked, rows, history>>

\* finishActiveThread: the first to get here finishes the thread.
Mark(a) ==
  LET t == act[a].thread IN
  /\ act[a].at = "mark"
  /\ IF thread[t].phase = "finishing" THEN Go(a, "over") /\ UNCHANGED thread
     ELSE /\ act' = [act EXCEPT ![a].at = "persist", ![a].keys = thread[t].keys]
          /\ thread' = [thread EXCEPT ![t].phase = "finishing"]
  /\ UNCHANGED <<inbox, outbox, hand, marked, active, storage, history>>

\* An exception in finishActiveThread: a worker's own handler tries again, and
\* finds the thread marked; nothing else is behind a handler or a halter.
Thrown(a) ==
  IF a \in Msg /\ ~act[a].unwinding
  THEN act' = [act EXCEPT ![a].at = "mark", ![a].unwinding = TRUE] ELSE Go(a, "over")

\* A transcript is written for every message of the run in one transaction,
\* whose failure is logged; a failing lookup before it is not caught.
Persist(a) ==
  LET t == act[a].thread IN
  /\ act[a].at = "persist"
  /\ thread' = [thread EXCEPT ![t].current = act[a].text]
  /\ \/ /\ Go(a, "done")
        /\ rows' = [k \in Key |-> IF k \in act[a].keys THEN act[a].text ELSE rows[k]]
        /\ UNCHANGED <<unsaved, torn, faults>>
     \/ /\ act[a].keys # {} /\ Fault /\ UNCHANGED rows
        /\ \/ Go(a, "done") /\ unsaved' = unsaved \cup {t} /\ UNCHANGED torn
           \/ Thrown(a) /\ torn' = torn \cup {t} /\ UNCHANGED unsaved
  /\ UNCHANGED <<inbox, outbox, hand, marked, active, taken, known>>

PutDone(a) ==
  LET t == act[a].thread IN
  /\ act[a].at = "done"
  /\ Go(a, "remove")
  /\ thread' = [thread EXCEPT ![t].done = IF @ = <<>> THEN act[a].text ELSE @]
  /\ UNCHANGED <<inbox, outbox, hand, marked, active, storage, history>>

\* mutant: the message keys are removed, the handle's own key is not
RemoveAliases(a) ==
  /\ act[a].at = "remove"
  /\ Go(a, "over")
  /\ active' = [k \in ActiveKey |-> IF k \in Key /\ active[k] = act[a].thread THEN None ELSE active[k]]
  /\ UNCHANGED <<inbox, outbox, hand, marked, thread, storage, history>>

Remove(a) ==
  /\ act[a].at = "remove"
  /\ Go(a, "over")
  /\ active' = [k \in ActiveKey |-> IF active[k] = act[a].thread THEN None ELSE active[k]]
  /\ UNCHANGED <<inbox, outbox, hand, marked, thread, storage, history>>

Finish(a) == Mark(a) \/ Persist(a) \/ PutDone(a) \/ Remove(a)

-----------------------------------------------------------------------------
(* Halting.                                                                *)

\* haltThreadById, thread.halt: a listed run is picked.
HaltBegin(h) ==
  /\ act[h].at = "idle"
  /\ \E t \in Msg : Listed(t) /\ act' = [act EXCEPT ![h].at = "cancel", ![h].thread = t]
  /\ UNCHANGED <<inbox, outbox, hand, marked, thread, active, storage, history>>

\* Cancelling waits for the worker, unless it is over or already cancelled.
HaltCancel(h) ==
  LET t == act[h].thread IN
  /\ act[h].at = "cancel"
  /\ IF t \in marked \/ act[t].at = "over" THEN Go(h, "read") /\ UNCHANGED marked
     ELSE Go(h, "join") /\ marked' = marked \cup {t}
  /\ UNCHANGED <<inbox, outbox, hand, thread, active, storage, history>>

HaltJoin(h) ==
  /\ act[h].at = "join" /\ act[act[h].thread].at = "over"
  /\ Go(h, "read")
  /\ UNCHANGED <<inbox, outbox, hand, marked, thread, active, storage, history>>

HaltRead(h) ==
  /\ act[h].at = "read"
  /\ act' = [act EXCEPT ![h].at = "mark", ![h].text = thread[act[h].thread].current]
  /\ UNCHANGED <<inbox, outbox, hand, marked, thread, active, storage, history>>

\* The exception reaches the worker anywhere outside its own handler.
Interrupt(m) ==
  /\ m \in marked /\ ~act[m].unwinding
  /\ \/ act[m].at \in Unregistered /\ Go(m, "over") /\ UNCHANGED torn
     \/ act[m].at \in Running \cup {"mark"} /\ Unwind(m) /\ UNCHANGED torn
     \/ act[m].at \in Finishing /\ Unwind(m) /\ torn' = torn \cup {m}
  /\ UNCHANGED <<inbox, outbox, hand, marked, thread, active, storage,
                 taken, known, unsaved>>

-----------------------------------------------------------------------------
Work(m) ==
  \/ ReadBase(m) \/ Register(m) \/ Relook(m) \/ Resteer(m) \/ AddOwn(m)
  \/ Turn(m) \/ SendReply(m) \/ RecordUpdate(m) \/ AskForTools(m) \/ ModelFails(m)
  \/ Complete(m)
  \/ Commit(m) \/ Finish(m) \/ Interrupt(m)

Halt(h) == HaltCancel(h) \/ HaltJoin(h) \/ HaltRead(h) \/ Finish(h)

Next ==
  \/ Arrive \/ Dispatch
  \/ \E m \in Msg : Work(m)
  \/ \E h \in Halter : HaltBegin(h) \/ Halt(h)

\* Threads of the runtime are scheduled fairly, and a model turn ends.
Fairness ==
  /\ WF_vars(Dispatch)
  /\ \A m \in Msg : WF_vars(Work(m))
  /\ \A h \in Halter : WF_vars(Halt(h))

Spec == Init /\ [][Next]_vars /\ Fairness

-----------------------------------------------------------------------------
(* Properties.                                                             *)

\* A run that ends with an answer has put every steer it accepted into its
\* transcript, once: acceptance and completion cannot both win
\* (completeActiveThreadSteering against enqueueActiveThreadSteer).
Occurrences(m, text) == {i \in DOMAIN text : text[i] = m}
AnswersReadEverySteer == \A t, m \in Msg :
  act[t].how = "answered" /\ taken[m] = t => \E i \in DOMAIN act[t].text : Occurrences(m, act[t].text) = {i}

\* One console session owns one active run.
SessionHasOneRun == \A t, u \in Msg :
  OfSession(t) /\ OfSession(u) /\ Listed(t) /\ Listed(u) => t = u

\* A reply to a message the bot knew to belong to a run either steers it or
\* continues its transcript, whatever the run does while the reply is routed:
\* a thread leaves the active map only after it can be found in storage.
RepliesContinueTheirThread == \A m \in known :
  act[m].at # "idle" => \/ \E i \in DOMAIN act[m].base : act[m].base[i] = target[m][2]
                        \/ target[m][2] \in unsaved

\* Every run leaves the active map, so that its session takes messages again,
\* unless it is torn: whoever marked it as finishing was stopped by an
\* exception before it removed the thread, and nobody else will.
ThreadsEndUnlessTorn == \A t \in Msg : Listed(t) ~> (~Listed(t) \/ t \in torn)

\* doc/RPC.md of thread.halt: "It returns `halted: false` when that task is no
\* longer active": a run that was halted is not listed as active any more.
HaltedIsInactive == \A h \in Halter : act[h].at = "over" => ~Listed(act[h].thread)

=============================================================================
