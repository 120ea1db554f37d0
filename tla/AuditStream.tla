----------------------------- MODULE AuditStream -----------------------------
(***************************************************************************)
(* The console's audit timeline (cosmoscope: composables/useAuditStream.ts,*)
(* composables/useAuditScopeRoute.ts, backend/audit.ts, AuditPage.vue and  *)
(* components/audit).  The page streams the records of one scope (all, a   *)
(* run, a thread, a text that is searched for), can be paused, and shows   *)
(* one record with the records related to it.                              *)
(*                                                                         *)
(* A connection delivers records and answers in the order the server       *)
(* queued them, but an answer may have been read before records that were  *)
(* queued ahead of it.  What the subscription does on a connection is what *)
(* RpcClient shows of it: subscribe, refresh, then release what was held   *)
(* back.  page is the state of the mounted page; the handlers are          *)
(* operators on it.                                                        *)
(***************************************************************************)
EXTENDS Integers, Sequences, FiniteSets, FiniteSetsExt

CONSTANTS RunOf,         \* the run of each record, in the order they are stored
          Scope,         \* the scopes in use, of "all", "run", "thread" and "text"
          LoadedLimit,   \* records the timeline keeps (200 in the code)
          BufferedLimit, \* records a paused timeline keeps apart (100)
          Stored,        \* records stored before the page is opened
          MaxCall,       \* bound: calls in flight when the user asks for more
          MaxTrouble     \* bound: lost connections and refused requests

Record == DOMAIN RunOf

ASSUME AuditAssumption ==
    /\ RunOf \in Seq({"a", "b", "c"})
    /\ Scope \subseteq {"all", "run", "thread", "text"}
    /\ LoadedLimit \in Nat \ {0} /\ BufferedLimit \in Nat \ {0} /\ Stored \in 0 .. Len(RunOf) /\ MaxCall \in Nat /\ MaxTrouble \in Nat

VARIABLES page,      \* the page
          wire,      \* what the server queued for the connection: records, answers
          streaming, \* the server streams records to the connection
          happened,  \* the records stored so far are 1 .. happened
          gap,      \* the timeline may have one, for a known reason (no state of the code)
          troubles
vars == <<page, wire, streaming, happened, gap, troubles>>

(* Runs a and b belong to one thread; the text searched for is in b and c. *)
Matches(scope, n) ==
    CASE scope = "all" -> TRUE
      [] scope = "run" -> RunOf[n] = "a"
      [] scope = "thread" -> RunOf[n] \in {"a", "b"}
      [] scope = "text" -> RunOf[n] \in {"b", "c"}

InScope(scope, upto) == {n \in 1 .. upto : Matches(scope, n)}

(* mergeAuditRecords: the newest of the union.                             *)
Merge(records, incoming, limit) ==
    LET all == records \cup incoming
    IN {n \in all : Cardinality({m \in all : m > n}) < limit}

Live(p) == p.conn = "authenticated"

(* filteredEvents *)
Shown(p) == {n \in p.events : p.scope = "text" => Matches("text", n)}

----------------------------------------------------------------------------
(* Calls.  A call that restores is awaited by the subscription, so it is   *)
(* remembered when a later one makes it stale; others are forgotten.  So   *)
(* there are at most four, told apart by kind and restores.                *)

Detail == {"get", "resolve", "thread"}
Kind(c) == <<IF c.what \in Detail THEN "detail" ELSE c.what, c.restores>>

BeginBeside(p, whats) == p \* mutant: earlier calls stay the latest
Begin(p, whats) ==
    [p EXCEPT !.calls = {[c EXCEPT !.latest = @ /\ c.what \notin whats]
                           : c \in {d \in @ : d.what \notin whats \/ d.restores}}]

Call(p, what, item, restores) ==
    [p EXCEPT !.calls = @ \cup {[what |-> what, item |-> item, since |-> IF what = "snapshot" THEN happened ELSE 0,
                                 latest |-> TRUE, restores |-> restores, got |-> "none", list |-> {}]}]

(* The answers in the queue that somebody still waits for.                 *)
Awaited(queue, p) ==
    LET kinds == {Kind(c) : c \in {d \in p.calls : d.got # "none"}}
        at    == {i \in DOMAIN queue : queue[i][1] = "record" \/ queue[i] \in kinds}
    IN [k \in 1 .. Cardinality(at) |-> queue[CHOOSE i \in at : Cardinality({j \in at : j < i}) = k - 1]]

(* loadSelection *)
LoadSelection(p, n, restores) ==
    LET q == [Begin(p, Detail) EXCEPT !.chosen = n, !.detail = 0, !.related = 0,
                                      !.detailError = FALSE, !.threadError = FALSE]
    IN IF Live(p) THEN Call(q, "get", n, restores) ELSE [q EXCEPT !.detailError = TRUE]

(* AuditPage's select.                                                     *)
Select(p, n) == IF n = p.chosen THEN p ELSE LoadSelection(p, n, FALSE)

NotLoaded(p) == [p EXCEPT !.error = TRUE, !.state = IF @ = "ready" THEN @ ELSE "error"]

(* loadSnapshot, for the subscription or because the scope changed.        *)
LoadSnapshot(p, restores) ==
    LET q == Begin(p, {"snapshot"})
    IN IF Live(p) THEN Call(q, "snapshot", 0, restores) ELSE NotLoaded(q)

(* selectAuditId puts the record into the address, and nothing else: a run *)
(* or a thread that stood there goes, and the watcher of the address takes *)
(* up the scope without it.                                                *)
Key(scope)          == IF scope \in {"all", "text"} THEN "" ELSE scope
SyncFromRoute(p)    == IF Key(p.scope) = "" THEN p ELSE LoadSnapshot([p EXCEPT !.scope = "all"], FALSE)
Address(p, n)       == [Select(p, n) EXCEPT !.asked = n]
SelectAuditId(p, n) == SyncFromRoute(Address(p, n))

----------------------------------------------------------------------------
(* Records. *)

ReceivesAny(p, n) == TRUE \* mutant: the scope is not asked for
Receives(p, n) ==
    \/ p.scope \in {"all", "text"}
    \/ p.scope = "run" /\ RunOf[n] = "a"
    \/ p.scope = "thread" /\ \E e \in p.events : RunOf[e] = RunOf[n]

ReceiveAll(p, ns) == \* in a run or a thread, one record does not let in another run
    LET in == {n \in ns : Receives(p, n)}
    IN IF p.paused THEN [p EXCEPT !.buffered = Merge(@, in, BufferedLimit)]
                   ELSE [p EXCEPT !.events = Merge(@, in, LoadedLimit)]

(* The subscription is restored: what it held back is released.            *)
ReleaseNothing(p) == [p EXCEPT !.stream = "live", !.held = {}] \* mutant: what was held is dropped
Release(p) == [ReceiveAll(p, p.held) EXCEPT !.stream = "live", !.held = {}]

Restored(p, c) == IF c.restores THEN Release(p) ELSE p

(* The snapshot.                                                           *)
Show(p, list) ==
    IF p.paused THEN [p EXCEPT !.buffered = Merge(@, list \ p.events, BufferedLimit)]
    ELSE [p EXCEPT !.events = IF p.scope = "all" THEN Merge({}, list, LoadedLimit) ELSE list]

SnapshotArrives(p, c) ==
    LET q == [Show(p, c.list) EXCEPT !.error = FALSE, !.state = "ready"]
    IN IF ~c.latest THEN Restored(p, c)
       ELSE IF c.got = "error" THEN Restored(NotLoaded(p), c)
       ELSE IF q.asked # 0 THEN LoadSelection(q, q.asked, c.restores)
       ELSE IF q.chosen = 0 /\ q.events # {}
            THEN SyncFromRoute(Restored(Address(q, Max(q.events)), c)) \* the route is resolved after that
            ELSE Restored(q, c)

(* The record, the thread of its run, that thread's records.               *)
DetailArrives(p, c) ==
    IF ~c.latest THEN Restored(p, c)
    ELSE CASE c.what = "get" /\ c.got = "ok" ->
                Call([p EXCEPT !.detail = c.item], "resolve", c.item, c.restores)
           [] c.what = "get" /\ c.got # "ok" -> Restored([p EXCEPT !.detailError = TRUE], c)
           [] c.what = "resolve" /\ c.got = "ok" -> Call(p, "thread", c.item, c.restores)
           [] c.what = "resolve" /\ c.got # "ok" -> Restored([p EXCEPT !.related = c.item], c)
           [] c.what = "thread" /\ c.got = "ok" -> Restored([p EXCEPT !.related = c.item], c)
           [] c.what = "thread" /\ c.got # "ok" -> Restored([p EXCEPT !.threadError = TRUE], c)

Arrives(p, c) ==
    IF c.what = "subscribe" THEN LoadSnapshot([p EXCEPT !.stream = "restoring"], TRUE)
    ELSE IF c.what = "snapshot" THEN SnapshotArrives(p, c)
    ELSE DetailArrives(p, c)

(* What may leave the timeline incomplete: another scope, more than the    *)
(* buffer takes, a reload read before a record delivered ahead of it.  A   *)
(* snapshot that is shown makes up for what was skipped before.            *)
Overflows(p, q, ns) ==
    p.paused /\ \E n \in ns \cup p.buffered : Receives(p, n) /\ n \notin q.events \cup q.buffered

Passed(p, c) ==
    {n \in InScope(p.scope, happened) : n > Max(c.list \cup {0}) /\ \A i \in DOMAIN wire : wire[i] # <<"record", n>>}

Skips(p, c, q) ==
    LET shown == c.what = "snapshot" /\ c.latest /\ c.got = "ok"
    IN \/ (gap /\ ~(shown /\ ~p.paused)) \/ q.scope # p.scope
       \/ shown /\ ~p.paused /\ ~c.restores /\ Passed(p, c) # {}
       \/ Overflows(p, q, c.list \cup (p.held \ q.held))

(* installSubscription: the earlier subscription is released, its calls    *)
(* are stale.                                                              *)
Install(p) ==
    LET old == Begin(p, {"snapshot"})
        q == [old EXCEPT !.stream = "off", !.held = {},
                         !.calls = {[c EXCEPT !.restores = FALSE] : c \in {d \in @ : d.what \in Detail /\ d.latest}}]
    IN CASE p.conn = "reconnecting" -> [q EXCEPT !.state = IF p.events = {} THEN "loading" ELSE "ready"]
         [] p.conn = "failed" -> [q EXCEPT !.error = TRUE, !.state = IF p.events = {} THEN "unavailable" ELSE "ready"]
         [] p.conn = "authenticated" ->
              Call([q EXCEPT !.stream = "asking", !.state = IF p.events = {} THEN "loading" ELSE "ready"],
                   "subscribe", 0, TRUE)

----------------------------------------------------------------------------
(* The user. *)

Uses(q) == page' = q /\ wire' = Awaited(wire, q) /\ UNCHANGED <<happened, troubles>>

Ready == page.state = "ready"
Asks  == Cardinality(page.calls) < MaxCall

Pause ==
    /\ Ready /\ ~page.paused
    /\ Uses([page EXCEPT !.paused = TRUE])
    /\ UNCHANGED <<streaming, gap>>

Resume ==
    /\ Ready /\ page.paused
    /\ Uses([page EXCEPT !.events = Merge(@, page.buffered, LoadedLimit), !.buffered = {}, !.paused = FALSE])
    /\ UNCHANGED <<streaming, gap>>

Discard ==
    /\ Ready /\ page.paused
    /\ Uses([page EXCEPT !.buffered = {}, !.paused = FALSE])
    /\ gap' = (gap \/ page.buffered # {})
    /\ UNCHANGED streaming

(* submitSearch: the address names the run or the thread, not the text;    *)
(* the timeline is loaded again.                                           *)
Submit(scope) ==
    /\ Ready /\ Asks
    /\ Uses(LoadSnapshot([page EXCEPT !.scope = scope,
                                      !.asked = IF Key(scope) = Key(page.scope) THEN @ ELSE 0], FALSE))
    /\ gap' = (gap \/ scope # page.scope)
    /\ UNCHANGED streaming

(* A row is clicked.  The address follows; its watcher finds it chosen.    *)
Choose(n) ==
    /\ Ready /\ Asks /\ n \in Shown(page)
    /\ Uses(SelectAuditId(page, n)) /\ page' # page
    /\ gap' = (gap \/ page.scope # page'.scope)
    /\ UNCHANGED streaming

Retry ==
    /\ page.state = "error"
    /\ Uses(Install(page))
    /\ streaming' = FALSE /\ UNCHANGED gap

----------------------------------------------------------------------------
(* The connection and the server. *)

(* The watcher installs the subscription anew; a selection under way fails. *)
Drop ==
    /\ Live(page) /\ troubles < MaxTrouble /\ troubles' = troubles + 1
    /\ LET q == Install([page EXCEPT !.conn = "reconnecting"])
           failed(what) == {c.item : c \in {d \in q.calls : d.what = what}}
       IN page' = [q EXCEPT !.calls = {}, !.detailError = @ \/ failed("get") # {},
                            !.related = IF failed("resolve") = {} THEN @ ELSE Max(failed("resolve")),
                            !.threadError = @ \/ failed("thread") # {}]
    /\ wire' = <<>> /\ streaming' = FALSE
    /\ UNCHANGED <<happened, gap>>

Reconnect ==
    /\ page.conn = "reconnecting"
    /\ \E s \in {"authenticated", "failed"} : page' = Install([page EXCEPT !.conn = s])
    /\ UNCHANGED <<wire, streaming, happened, gap, troubles>>

(* A worker's answer is queued; a snapshot shows what was stored at some   *)
(* time since it was asked for.                                            *)
Answers(c) ==
    CASE ~c.latest -> {<<"ok", {}>>} \* whatever it is
      [] c.what = "snapshot" /\ c.latest ->
           {<<"ok", IF page.scope = "all" THEN Merge({}, 1 .. k, LoadedLimit) ELSE InScope(page.scope, k)>>
              : k \in c.since .. happened}
      [] c.what = "get" /\ c.latest -> {<<IF c.item > happened THEN "absent" ELSE "ok", {}>>}
      [] c.what = "resolve" /\ c.latest -> {<<IF RunOf[c.item] = "c" THEN "absent" ELSE "ok", {}>>}
      [] OTHER -> {<<"ok", {}>>}

Queue(c, got, list) ==
    LET d == [c EXCEPT !.got = got, !.list = list, !.since = 0]
    IN page' = [page EXCEPT !.calls = (@ \ {c}) \cup {d}] /\ wire' = Append(wire, Kind(d))

Serve(c) ==
    /\ c.got = "none"
    /\ \E answer \in Answers(c) : Queue(c, answer[1], answer[2])
    /\ streaming' = (streaming \/ c.what = "subscribe")
    /\ UNCHANGED <<happened, gap, troubles>>

Refuses(c) ==
    /\ c.got = "none" /\ c.what # "subscribe" \* which would end the connection: Drop
    /\ troubles < MaxTrouble /\ troubles' = troubles + 1
    /\ Queue(c, "error", {})
    /\ UNCHANGED <<streaming, happened, gap>>

Happens ==
    /\ happened + 1 \in Record /\ happened' = happened + 1
    /\ wire' = IF streaming THEN Append(wire, <<"record", happened'>>) ELSE wire
    /\ UNCHANGED <<page, streaming, gap, troubles>>

(* The client's message handler.                                           *)
ReceiveRecord ==
    /\ wire # <<>> /\ Head(wire)[1] = "record"
    /\ LET n == Head(wire)[2]
           q == CASE page.stream = "live" -> ReceiveAll(page, {n})
                  [] page.stream \in {"asking", "restoring"} -> [page EXCEPT !.held = @ \cup {n}]
                  [] page.stream = "off" -> page
       IN /\ page' = q
          /\ gap' = (gap \/ (page.stream = "live" /\ Overflows(page, q, {n})))
    /\ wire' = Tail(wire)
    /\ UNCHANGED <<streaming, happened, troubles>>

ReceiveAnswer ==
    /\ wire # <<>> /\ Head(wire)[1] # "record"
    /\ \E c \in page.calls :
         /\ c.got # "none" /\ Kind(c) = Head(wire)
         /\ LET p == [page EXCEPT !.calls = @ \ {c}]
                q == Arrives(p, c)
            IN page' = q /\ wire' = Awaited(Tail(wire), q) /\ gap' = Skips(p, c, q)
    /\ UNCHANGED <<streaming, happened, troubles>>

----------------------------------------------------------------------------
Mounted(conn, scope, asked) ==
    [conn |-> conn, scope |-> scope, asked |-> asked, state |-> "loading", error |-> FALSE,
     events |-> {}, buffered |-> {}, paused |-> FALSE, chosen |-> 0, detail |-> 0, related |-> 0,
     detailError |-> FALSE, threadError |-> FALSE, stream |-> "off", held |-> {}, calls |-> {}]

(* The page is opened, perhaps by a link to a record, a run or a thread.   *)
Init ==
    /\ happened = Stored
    /\ \E conn \in {"authenticated", "reconnecting"}, scope \in Scope \ {"text"}, asked \in {0} \cup Record :
         page = Install(Mounted(conn, scope, asked))
    /\ wire = <<>> /\ streaming = FALSE /\ gap = FALSE /\ troubles = 0

User ==
    \/ Pause \/ Resume \/ Discard \/ Retry
    \/ \E scope \in Scope : Submit(scope)
    \/ \E n \in Record : Choose(n)

Next ==
    \/ User \/ Drop \/ Reconnect \/ Happens
    \/ \E c \in page.calls : Serve(c) \/ Refuses(c)
    \/ ReceiveRecord \/ ReceiveAnswer

Spec == Init /\ [][Next]_vars

----------------------------------------------------------------------------
(* Every timeline that loaded without error and was not told to skip       *)
(* anything shows, with what it holds apart, the newest records of its     *)
(* scope, once nothing is on its way.                                      *)
AtRest(p) == p.stream = "live" /\ wire = <<>> /\ p.calls = {} /\ ~p.error
TimelineIsComplete ==
    AtRest(page) /\ ~gap /\ page.scope \in {"all", "run"} =>
      Merge({}, InScope(page.scope, happened), LoadedLimit) \subseteq page.events \cup page.buffered

(* It shows nothing of another scope.                                      *)
ShownIsOfTheScope ==
    ~gap => Shown(page) \subseteq InScope(page.scope, happened)

(* The detail is that of the chosen record, which is the address's, and    *)
(* the related records are those of the detail.                            *)
DetailIsOfTheChosen ==
    /\ page.detail # 0 => page.detail = page.chosen
    /\ page.related # 0 => page.related = page.chosen
    /\ page.asked # 0 /\ page.chosen # 0 => page.asked = page.chosen
=============================================================================
