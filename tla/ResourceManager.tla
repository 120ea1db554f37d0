--------------------------- MODULE ResourceManager ---------------------------
(***************************************************************************)
(* The registry of long-lived resources, Bot.Resource, with the rows it    *)
(* keeps through Bot.Storage.Resource.                                     *)
(*                                                                         *)
(* Callers are threads of workers; they create, lease, destroy, rename and *)
(* prolong resources in any order.  The monitor expires idle resources.    *)
(* The registry is one IORef, so each modification of it is one action; a  *)
(* storage transaction, an object's constructor and its cleanup are        *)
(* actions of their own.  A cancelled worker takes its exception once, at  *)
(* any point the masking state of the code leaves open; a masked           *)
(* transaction, a failure handler's too, is interrupted only while it      *)
(* waits for one of the few connections, hence before it has an effect.    *)
(***************************************************************************)
EXTENDS Naturals, FiniteSetsExt

CONSTANTS
  Name,        \* resource names
  NoName,      \* none of them
  MaxObject,   \* bound on the objects ever made
  Durable,     \* the objects whose type is persistent
  Caller,      \* threads that use resources
  Monitor,     \* the thread of the worker resource.monitor
  WorkerOf,    \* the worker each thread runs in
  May          \* the operations each caller calls

Object == 1 .. MaxObject
None   == 0
Actor  == Caller \cup {Monitor}
Worker == {WorkerOf[a] : a \in Actor}
Operations == {"create", "with", "destroy", "rename", "lifetime", "cancel"}

ASSUME ConstantsAssumption ==
  /\ NoName \notin Name /\ MaxObject \in Nat /\ Durable \subseteq Object
  /\ IsFiniteSet(Caller) /\ Monitor \notin Caller /\ May \in [Caller -> SUBSET Operations]
  /\ DOMAIN WorkerOf = Actor /\ \A c \in Caller : WorkerOf[c] # WorkerOf[Monitor]

VARIABLES
  accepting,   \* are new reservations granted?
  resources,   \* the entry of each name
  reserved,    \* the name an actor's creation or rename reserves
  rows,        \* storage: the object of each resource row
  lifeRows,    \* storage: the lifetime row of each name
  op,          \* the operation each actor is inside of
  doomed,      \* workers that were cancelled
  main,        \* where runResourceManager stands
  left,        \* shutdown: entries still to be swept
  used,        \* objects ever made                          (history variable)
  gone,        \* objects whose cleanup has been run to keep (history variable)
  abandoned,   \* objects whose discard was interrupted       (history variable)
  overruled    \* has a destroyer's second restoration undone
               \* what others did since its first?           (history variable)

registry == <<accepting, resources, reserved>>
storage  == <<rows, lifeRows>>
stopping == <<main, left>>
history  == <<used, gone, abandoned, overruled>>
vars     == <<registry, storage, op, doomed, stopping, history>>

Lives   == {"permanent", "finite"}
NoUsers == [w \in Worker |-> 0]
NoEntry == [obj |-> None, open |-> FALSE, users |-> NoUsers, uses |-> 0,
            life |-> "permanent"]
Idle    == [at |-> "idle", name |-> NoName, to |-> NoName, obj |-> None,
            life |-> "permanent", was |-> "permanent", tracked |-> FALSE,
            evict |-> {}, hit |-> FALSE]
Dead    == [Idle EXCEPT !.at = "dead"]

Stages ==
  {"idle", "dead",
   "reserved", "making", "saving", "setting", "undo", "discard", "register",
   "leaving", "refreshing", "using", "releasing", "evicting",
   "cleaning", "erasing", "removing", "restoring", "resetting", "again",
   "renaming", "renamed", "unrenaming", "unnaming", "updating", "rollback"}

TypeOK ==
  /\ accepting \in BOOLEAN
  /\ resources \in [Name -> [obj : Object \cup {None}, open : BOOLEAN,
                             users : [Worker -> 0 .. Cardinality(Caller)],
                             uses : 0 .. Cardinality(Caller), life : Lives]]
  /\ reserved \in [Actor -> Name \cup {NoName}]
  /\ rows \in [Name -> Object \cup {None}] /\ lifeRows \in [Name -> Lives]
  /\ op \in [Actor -> [at : Stages, name : Name \cup {NoName}, to : Name \cup {NoName},
                       obj : Object \cup {None}, life : Lives, was : Lives,
                       tracked : BOOLEAN, evict : SUBSET Worker, hit : BOOLEAN]]
  /\ doomed \subseteq Worker
  /\ main \in {"inner", "join", "gates", "sweep", "down"}
  /\ left \subseteq [obj : Object, users : SUBSET Worker]
  /\ used \subseteq Object /\ gone \subseteq used /\ abandoned \subseteq used
  /\ overruled \in BOOLEAN

\* The registry starts as what the rows of the previous run restore.
Restored(n) ==
  IF rows[n] = None THEN NoEntry
  ELSE [NoEntry EXCEPT !.obj = rows[n], !.open = TRUE, !.life = lifeRows[n]]

Init ==
  /\ rows \in [Name -> Durable \cup {None}]
  /\ \A n, m \in Name : rows[n] = rows[m] => n = m \/ rows[n] = None
  /\ lifeRows \in [Name -> Lives]
  /\ \A n \in Name : rows[n] = None => lifeRows[n] = "permanent"
  /\ accepting = TRUE
  /\ resources = [n \in Name |-> Restored(n)]
  /\ reserved = [a \in Actor |-> NoName]
  /\ op = [a \in Actor |-> Idle]
  /\ doomed = {} /\ main = "inner" /\ left = {}
  /\ used = {rows[n] : n \in Name} \ {None} /\ gone = {} /\ abandoned = {} /\ overruled = FALSE

-----------------------------------------------------------------------------
\* An exception already thrown to an idle thread comes before its next call.
MayStart(a)   == op[a] = Idle /\ WorkerOf[a] \notin doomed
Start(a, new) == MayStart(a) /\ op' = [op EXCEPT ![a] = new]
Go(a, stage)  == op' = [op EXCEPT ![a].at = stage]
\* An operation that returns leaves its thread idle; one that was hit ends it.
After(a)      == IF op[a].hit THEN Dead ELSE Idle
Return(a)     == op' = [op EXCEPT ![a] = After(a)]
Over(w)       == \A a \in Actor : WorkerOf[a] = w => op[a].at = "dead"

Present(n)  == resources[n].obj # None
OccupiedByEntry(n) == Present(n)     \* mutant: reservations do not occupy a name
Occupied(n) == Present(n) \/ \E a \in Actor : reserved[a] = n
Change(n, entry) == resources' = [resources EXCEPT ![n] = entry]

\* A transaction either commits or fails without effect.
DeleteRow(n) ==
  /\ rows' = [rows EXCEPT ![n] = None]
  /\ lifeRows' = [lifeRows EXCEPT ![n] = "permanent"]

-----------------------------------------------------------------------------
(* Creation: createIn.                                                     *)

\* The reservation is made outside the mask whose finally gives it back.
Reserve(c, n, life) ==
  /\ accepting /\ ~Occupied(n)
  /\ Start(c, [Idle EXCEPT !.at = "reserved", !.name = n, !.life = life])
  /\ reserved' = [reserved EXCEPT ![c] = n]
  /\ UNCHANGED <<accepting, resources, storage, doomed, stopping, history>>

EnterMask(c) ==
  /\ op[c].at = "reserved"
  /\ Go(c, "making")
  /\ UNCHANGED <<registry, storage, doomed, stopping, history>>

CreateObject(c) ==
  /\ op[c].at = "making"
  /\ \/ \E o \in Object \ used :
          /\ used' = used \cup {o}
          /\ op' = [op EXCEPT ![c].obj = o,
                              ![c].at = IF o \in Durable THEN "saving" ELSE "register"]
     \/ Go(c, "leaving") /\ UNCHANGED used
  /\ UNCHANGED <<registry, storage, doomed, stopping, gone, abandoned, overruled>>

SaveResource(c) ==
  /\ op[c].at = "saving"
  /\ \/ rows' = [rows EXCEPT ![op[c].name] = op[c].obj] /\ Go(c, "setting")
     \/ UNCHANGED rows /\ Go(c, "undo")
  /\ UNCHANGED <<registry, lifeRows, doomed, stopping, history>>

SetLifetime(c) ==
  /\ op[c].at = "setting"
  /\ \/ lifeRows' = [lifeRows EXCEPT ![op[c].name] = op[c].life] /\ Go(c, "register")
     \/ UNCHANGED lifeRows /\ Go(c, "undo")
  /\ UNCHANGED <<registry, rows, doomed, stopping, history>>

\* discard: delete the row if that succeeds, then destroy the object.
Undo(c) ==
  /\ op[c].at = "undo"
  /\ DeleteRow(op[c].name) \/ UNCHANGED storage
  /\ Go(c, "discard")
  /\ UNCHANGED <<registry, doomed, stopping, history>>

Discard(c) ==
  /\ op[c].at = "discard"
  /\ gone' = gone \cup {op[c].obj}
  /\ Go(c, "leaving")
  /\ UNCHANGED <<registry, storage, doomed, stopping, used, abandoned, overruled>>

Register(c) ==
  /\ op[c].at = "register"
  /\ Change(op[c].name, [NoEntry EXCEPT !.obj = op[c].obj, !.open = TRUE,
                                        !.life = op[c].life])
  /\ Go(c, "leaving")
  /\ UNCHANGED <<accepting, reserved, storage, doomed, stopping, history>>

GiveBack(c) == reserved' = [reserved EXCEPT ![c] = NoName]

FinishReservation(c) ==
  /\ op[c].at = "leaving"
  /\ GiveBack(c)
  /\ Return(c)
  /\ UNCHANGED <<accepting, resources, storage, doomed, stopping, history>>

-----------------------------------------------------------------------------
(* Leases: withIn.                                                         *)

\* A tracked lease counts under its worker, an untracked one only in uses.
Acquire(c, n, tracked) ==
  /\ Present(n) /\ resources[n].open
  /\ LET e == resources[n]
         w == WorkerOf[c]
     IN /\ Change(n, [e EXCEPT !.uses = @ + 1,
                               !.users[w] = IF tracked THEN @ + 1 ELSE @])
        /\ Start(c, [Idle EXCEPT
             !.at = IF e.obj \in Durable /\ e.life = "finite"
                    THEN "refreshing" ELSE "using",
             !.name = n, !.obj = e.obj, !.life = e.life, !.tracked = tracked])
  /\ UNCHANGED <<accepting, reserved, storage, doomed, stopping, history>>

\* The refreshed lifetime is written as acquire read it.
Refresh(c) ==
  /\ op[c].at = "refreshing"
  /\ \/ lifeRows' = [lifeRows EXCEPT ![op[c].name] = op[c].life] /\ Go(c, "using")
     \/ UNCHANGED lifeRows /\ Go(c, "releasing")
  /\ UNCHANGED <<registry, rows, doomed, stopping, history>>

UseEnds(c) ==
  /\ op[c].at = "using"
  /\ Go(c, "releasing")
  /\ UNCHANGED <<registry, storage, doomed, stopping, history>>

Less(k) == IF k = 0 THEN 0 ELSE k - 1

ReleaseUser(c) ==
  /\ op[c].at = "releasing"
  /\ LET n == op[c].name
         e == resources[n]
         w == WorkerOf[c]
     IN IF Present(n) /\ e.open
        THEN Change(n, [e EXCEPT !.uses = Less(@),
                                 !.users[w] = IF op[c].tracked THEN Less(@) ELSE @])
        ELSE UNCHANGED resources
  /\ Return(c)
  /\ UNCHANGED <<accepting, reserved, storage, doomed, stopping, history>>

-----------------------------------------------------------------------------
(* Destruction: destroyIn, finishDestroy and the monitor's beginExpire.    *)

Users(e) == {w \in Worker : e.users[w] > 0}

AllTrackedAlways(e) == TRUE     \* mutant: untracked leases do not block a destroy
\* activeUses == sum (Map.elems users)
AllTracked(e) == e.uses = MapThenSumSet(LAMBDA w : e.users[w], Worker)

BeginDestroy(c, n) ==
  /\ Present(n) /\ resources[n].open /\ AllTracked(resources[n])
  /\ Change(n, [resources[n] EXCEPT !.open = FALSE])
  /\ Start(c, [Idle EXCEPT !.at = "evicting", !.name = n, !.obj = resources[n].obj,
                           !.evict = Users(resources[n])])
  /\ UNCHANGED <<accepting, reserved, storage, doomed, stopping, history>>

Throw(w) == doomed' = doomed \cup {w}

\* cancelAndAwait, one user after the other, outside any mask.
EvictUser(c) ==
  /\ op[c].at = "evicting"
  /\ \E w \in op[c].evict :
       IF Over(w)
       THEN op' = [op EXCEPT ![c].evict = @ \ {w}] /\ UNCHANGED doomed
       ELSE op[c].evict \cap doomed = {} /\ Throw(w) /\ UNCHANGED op
  /\ UNCHANGED <<registry, storage, stopping, history>>

Evicted(c) ==
  /\ op[c].at = "evicting" /\ op[c].evict = {}
  /\ Go(c, "cleaning")
  /\ UNCHANGED <<registry, storage, doomed, stopping, history>>

Unleased(e) == e.uses = 0

\* The monitor destroys what has expired and is idle.
BeginExpire(n) ==
  /\ Present(n) /\ resources[n].open /\ Unleased(resources[n])
  /\ resources[n].life = "finite"
  /\ Change(n, [resources[n] EXCEPT !.open = FALSE])
  /\ Start(Monitor, [Idle EXCEPT !.at = "cleaning", !.name = n,
                                 !.obj = resources[n].obj])
  /\ UNCHANGED <<accepting, reserved, storage, doomed, stopping, history>>

EraseFirst(a) ==    \* mutant: the row goes before the cleanup is known to succeed
  /\ op[a].at = "cleaning"
  /\ IF op[a].obj \in Durable THEN DeleteRow(op[a].name) ELSE UNCHANGED storage
  /\ Go(a, "removing") \/ Go(a, "restoring")
  /\ UNCHANGED <<registry, doomed, stopping, history>>

Cleanup(a) ==
  /\ op[a].at = "cleaning"
  /\ \/ Go(a, IF op[a].obj \in Durable THEN "erasing" ELSE "removing")
     \/ Go(a, "restoring")
  /\ UNCHANGED <<registry, storage, doomed, stopping, history>>

DeleteResource(a) ==
  /\ op[a].at = "erasing"
  /\ \/ DeleteRow(op[a].name) /\ Go(a, "removing")
     \/ UNCHANGED storage /\ Go(a, "restoring")
  /\ UNCHANGED <<registry, doomed, stopping, history>>

RemoveDestroyed(a) ==
  /\ op[a].at = "removing"
  /\ Change(op[a].name, NoEntry)
  /\ gone' = gone \cup {op[a].obj}
  /\ Return(a)
  /\ UNCHANGED <<accepting, reserved, storage, doomed, stopping, used, abandoned, overruled>>

Reopened(e) == [e EXCEPT !.open = TRUE, !.users = NoUsers, !.uses = 0]

\* restoreDestroyed reopens the entry without users, then renews its lifetime.
\* Interrupted there, finishDestroy's handler restores what has the name a
\* second time: it may have been leased, closed or replaced in between.
RestoreDestroyed(a) ==
  /\ op[a].at \in {"restoring", "again"}
  /\ LET n == op[a].name
         e == resources[n]
     IN IF Present(n)
        THEN /\ Change(n, Reopened(e))
             /\ op' = [op EXCEPT ![a] = IF e.obj \in Durable
                         THEN [@ EXCEPT !.at = "resetting", !.life = e.life]
                         ELSE After(a)]
             /\ overruled' = (overruled \/ (op[a].at = "again" /\ Reopened(e) # e))
        ELSE Return(a) /\ UNCHANGED <<resources, overruled>>
  /\ UNCHANGED <<accepting, reserved, storage, doomed, stopping, used, gone, abandoned>>

ResetLifetime(a) ==
  /\ op[a].at = "resetting"
  /\ UNCHANGED lifeRows \/ lifeRows' = [lifeRows EXCEPT ![op[a].name] = op[a].life]
  /\ Return(a)
  /\ UNCHANGED <<registry, rows, doomed, stopping, history>>

-----------------------------------------------------------------------------
(* Renaming: renameIn, masked throughout.                                  *)

BeginRename(c, n, m) ==
  /\ Present(n) /\ accepting /\ resources[n].open /\ Unleased(resources[n])
  /\ ~Occupied(m)
  /\ resources' = [resources EXCEPT ![m] = [resources[n] EXCEPT !.open = FALSE],
                                    ![n] = NoEntry]
  /\ reserved' = [reserved EXCEPT ![c] = n]
  /\ Start(c, [Idle EXCEPT !.name = n, !.to = m, !.obj = resources[n].obj,
       !.at = IF resources[n].obj \in Durable THEN "renaming" ELSE "renamed"])
  /\ UNCHANGED <<accepting, storage, doomed, stopping, history>>

\* The primary keys refuse a name that another row of the same table has; a
\* name without a row moves nothing.
MoveRow(n, m) ==
  /\ rows[n] # None => rows[m] = None
  /\ lifeRows[n] = "finite" => lifeRows[m] = "permanent"
  /\ rows' = IF rows[n] = None THEN rows
             ELSE [rows EXCEPT ![m] = rows[n], ![n] = None]
  /\ lifeRows' = IF lifeRows[n] = "permanent" THEN lifeRows
                 ELSE [lifeRows EXCEPT ![m] = "finite", ![n] = "permanent"]

RenameResource(c) ==
  /\ op[c].at = "renaming"
  /\ \/ MoveRow(op[c].name, op[c].to) /\ Go(c, "renamed")
     \/ UNCHANGED storage /\ Go(c, "unrenaming")
  /\ UNCHANGED <<registry, doomed, stopping, history>>

FinishRename(c) ==
  /\ op[c].at = "renamed"
  /\ LET m == op[c].to
     IN Change(m, IF Present(m) THEN Reopened(resources[m]) ELSE NoEntry)
  /\ Go(c, "leaving")
  /\ UNCHANGED <<accepting, reserved, storage, doomed, stopping, history>>

\* The rollback renames the row back, best effort, ...
UnrenameResource(c) ==
  /\ op[c].at = "unrenaming"
  /\ MoveRow(op[c].to, op[c].name) \/ UNCHANGED storage
  /\ Go(c, "unnaming")
  /\ UNCHANGED <<registry, doomed, stopping, history>>

\* ... then gives the entry its old name.
RollbackRename(c) ==
  /\ op[c].at = "unnaming"
  /\ LET n == op[c].name
         m == op[c].to
     IN resources' = IF Present(m)
          THEN [resources EXCEPT ![m] = NoEntry, ![n] = Reopened(resources[m])]
          ELSE resources
  /\ Go(c, "leaving")
  /\ UNCHANGED <<accepting, reserved, storage, doomed, stopping, history>>

-----------------------------------------------------------------------------
(* Lifetimes: updateLifetimeIn, unmasked.                                  *)

UpdateLifetime(c, n, permanent) ==
  /\ Present(n) /\ resources[n].open
  /\ LET e == resources[n]
         new == IF permanent THEN "permanent" ELSE e.life
     IN /\ Change(n, [e EXCEPT !.life = new])
        /\ IF e.obj \in Durable
           THEN Start(c, [Idle EXCEPT !.at = "updating", !.name = n, !.obj = e.obj,
                                      !.life = new, !.was = e.life])
           ELSE MayStart(c) /\ UNCHANGED op
  /\ UNCHANGED <<accepting, reserved, storage, doomed, stopping, history>>

PersistLifetime(c) ==
  /\ op[c].at = "updating"
  /\ \/ lifeRows' = [lifeRows EXCEPT ![op[c].name] = op[c].life] /\ Return(c)
     \/ UNCHANGED lifeRows /\ Go(c, "rollback")
  /\ UNCHANGED <<registry, rows, doomed, stopping, history>>

\* The rollback applies only while the entry still has the lifetime it set.
RollbackLifetime(c) ==
  /\ op[c].at = "rollback"
  /\ LET n == op[c].name
     IN IF Present(n) /\ resources[n].life = op[c].life
        THEN Change(n, [resources[n] EXCEPT !.life = op[c].was])
        ELSE UNCHANGED resources
  /\ Return(c)
  /\ UNCHANGED <<accepting, reserved, storage, doomed, stopping, history>>

-----------------------------------------------------------------------------
(* Cancellation.                                                           *)

Cancel(c, w) ==
  /\ MayStart(c) /\ w # WorkerOf[Monitor]
  /\ doomed' = doomed \cup {w}
  /\ UNCHANGED <<registry, storage, op, stopping, history>>

\* Where an exception leads from each stage that can take one.
Aftermath(at) ==
  CASE at \in {"idle", "reserved", "evicting", "updating", "rollback"} -> "dead"
    [] at \in {"making", "undo", "discard", "unrenaming"} -> "leaving"
    [] at \in {"saving", "setting"} -> "undo"
    [] at \in {"refreshing", "using"} -> "releasing"
    [] at \in {"cleaning", "erasing"} -> "restoring"
    [] at = "resetting" -> "again"
    [] at = "renaming" -> "unrenaming"
    [] OTHER -> at

Interrupt(a) ==
  /\ WorkerOf[a] \in doomed /\ ~op[a].hit
  /\ Aftermath(op[a].at) # op[a].at
  /\ LET next == Aftermath(op[a].at)
     IN op' = [op EXCEPT ![a] = IF next = "dead" THEN Dead
                                ELSE [@ EXCEPT !.at = next, !.hit = TRUE]]
  /\ gone' = IF op[a].at = "discard" THEN gone \cup {op[a].obj} ELSE gone
  /\ abandoned' = IF op[a].at = "undo" THEN abandoned \cup {op[a].obj} ELSE abandoned
  /\ UNCHANGED <<registry, storage, doomed, stopping, used, overruled>>

-----------------------------------------------------------------------------
(* Shutdown: withWorker ends the monitor, then shutdown runs.              *)

InnerEnds ==
  /\ main = "inner"
  /\ main' = "join"
  /\ doomed' = doomed \cup {WorkerOf[Monitor]}
  /\ UNCHANGED <<registry, storage, op, left, history>>

StopAccepting ==
  /\ main = "join" /\ Over(WorkerOf[Monitor])
  /\ main' = "gates"
  /\ accepting' = FALSE
  /\ UNCHANGED <<resources, reserved, storage, op, doomed, left, history>>

GatesIgnored == TRUE         \* mutant: shutdown does not wait for creations
\* Every gate collected is put when its reservation is finished.
GatesPut == \A a \in Actor : reserved[a] = NoName

MarkAll ==
  /\ main = "gates" /\ GatesPut
  /\ main' = "sweep"
  /\ left' = {[obj |-> resources[n].obj,
               users |-> IF resources[n].open THEN Users(resources[n]) ELSE {}]
              : n \in {m \in Name : Present(m)}}
  /\ resources' = [n \in Name |-> [resources[n] EXCEPT !.open = FALSE]]
  /\ UNCHANGED <<accepting, reserved, storage, op, doomed, history>>

\* An entry's users are evicted, then it is destroyed; entries in any order.
SweepUser(r) ==
  /\ main = "sweep"
  /\ \E w \in r.users :
       IF Over(w)
       THEN /\ left' = (left \ {r}) \cup {[r EXCEPT !.users = @ \ {w}]}
            /\ UNCHANGED doomed
       ELSE r.users \cap doomed = {} /\ Throw(w) /\ UNCHANGED left
  /\ UNCHANGED <<registry, storage, op, main, history>>

SweepEntry(r) ==
  /\ main = "sweep" /\ r.users = {}
  /\ left' = left \ {r}
  /\ gone' = IF r.obj \in Durable THEN gone ELSE gone \cup {r.obj}
  /\ UNCHANGED <<registry, storage, op, doomed, main, used, abandoned, overruled>>

ShutdownDone ==
  /\ main = "sweep" /\ left = {}
  /\ main' = "down"
  /\ UNCHANGED <<registry, storage, op, doomed, left, history>>

-----------------------------------------------------------------------------
\* What a caller asks for.
Request(c) ==
  \/ "create" \in May[c] /\ \E n \in Name, life \in Lives : Reserve(c, n, life)
  \/ "with" \in May[c] /\ \E n \in Name, tracked \in BOOLEAN : Acquire(c, n, tracked)
  \/ "destroy" \in May[c] /\ \E n \in Name : BeginDestroy(c, n)
  \/ "rename" \in May[c] /\ \E n, m \in Name : BeginRename(c, n, m)
  \/ "lifetime" \in May[c] /\ \E n \in Name, p \in BOOLEAN : UpdateLifetime(c, n, p)
  \/ "cancel" \in May[c] /\ \E w \in Worker : Cancel(c, w)

\* How its operation goes on.
Continue(a) ==
  \/ EnterMask(a) \/ CreateObject(a) \/ SaveResource(a) \/ SetLifetime(a)
  \/ Undo(a) \/ Discard(a) \/ Register(a) \/ FinishReservation(a)
  \/ Refresh(a) \/ ReleaseUser(a)
  \/ EvictUser(a) \/ Evicted(a) \/ Cleanup(a) \/ DeleteResource(a)
  \/ RemoveDestroyed(a) \/ RestoreDestroyed(a) \/ ResetLifetime(a)
  \/ RenameResource(a) \/ FinishRename(a)
  \/ UnrenameResource(a) \/ RollbackRename(a)
  \/ PersistLifetime(a) \/ RollbackLifetime(a)

Expire == \E n \in Name : BeginExpire(n)

Shutdown ==
  \/ StopAccepting \/ MarkAll \/ ShutdownDone
  \/ \E r \in left : SweepUser(r) \/ SweepEntry(r)

Next ==
  \/ \E c \in Caller : Request(c) \/ UseEnds(c)
  \/ \E a \in Actor : Continue(a) \/ Interrupt(a)
  \/ Expire \/ InnerEnds \/ Shutdown

\* Constructors, cleanups and transactions end; a callback need not, unless
\* its worker is cancelled.
Fairness ==
  /\ \A a \in Actor : WF_vars(Continue(a)) /\ WF_vars(Interrupt(a))
  /\ WF_vars(Shutdown)

Spec == Init /\ [][Next]_vars /\ Fairness

-----------------------------------------------------------------------------
(* Properties.                                                             *)

Registered(o) == {n \in Name : resources[n].obj = o}
Creating(o) == {a \in Actor : op[a].obj = o /\ op[a].at \in
                  {"saving", "setting", "undo", "discard", "register"}}
Leasing(o)  == {a \in Actor : op[a].obj = o /\ op[a].at \in
                  {"refreshing", "using", "releasing"}}
Destroying(o) == {a \in Actor : op[a].obj = o /\ op[a].at \in
                  {"cleaning", "erasing", "removing"}}
Swept == main \in {"sweep", "down"}

\* No object is lost and none has two names: whatever creations, renames and
\* rollbacks race for a name, an object is registered under exactly one, or is
\* still its creator's, or has been destroyed.  Excepted are an object whose
\* discard was interrupted, and what follows a second restoration that undid
\* the work of others.
EveryObjectHasOnePlace ==
  ~overruled => \A o \in used :
    /\ Cardinality(Registered(o)) + Cardinality(Creating(o)) <= 1
    /\ o \notin gone \cup abandoned => Registered(o) \cup Creating(o) # {}

\* While a destroyer runs an object's cleanup, nobody leases the object and no
\* other destroyer cleans it up: until a second restoration undoes the work of
\* others, which is the one way to reopen an entry under a running destroyer.
CleanupsAreAlone ==
  ~overruled => \A o \in used : Destroying(o) # {} =>
    Leasing(o) = {} /\ Cardinality(Destroying(o)) = 1

\* A persistent resource that can be leased survives a crash under the name it
\* has: its row is written before and deleted after.  The exception is the same.
LeasableIsDurable ==
  ~overruled => \A n \in Name :
    resources[n].open /\ resources[n].obj \in Durable
      => rows[n] = resources[n].obj

\* runResourceManager returns only after every ephemeral object it made or is
\* still making has been destroyed.  The exception is the same: a second
\* destroyer may take the entry of an object made meanwhile.
ExitDestroysEphemerals ==
  ~overruled /\ main = "down" => used \ Durable \subseteq gone
=============================================================================
