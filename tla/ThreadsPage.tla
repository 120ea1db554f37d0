----------------------------- MODULE ThreadsPage -----------------------------
(***************************************************************************)
(* The console's threads page (cosmoscope: ThreadsPage.vue with            *)
(* composables/useThreadList.ts, useThreadInspector.ts and                 *)
(* useActiveThreads.ts).  It lists the threads that are stored and, asked  *)
(* every second, the runs that are active; a drawer inspects one of either *)
(* kind.  A run that is inspected is followed until the server no longer   *)
(* lists it; its thread then takes its place.                              *)
(*                                                                         *)
(* The route names what the drawer opens: a thread, or a run, of which the *)
(* server tells whether it is active or which thread it is linked to.      *)
(*                                                                         *)
(* page is the state of the page, the handlers are operators on it.  A     *)
(* thread stands for its nodes, whether one of them is selected is kept;   *)
(* scrolling and the texts of errors are left out, and of media all but    *)
(* that a refresh of the active runs waits for them.  The dialog that asks *)
(* before a run is halted remembers the run, and is left out.              *)
(***************************************************************************)
EXTENDS ThreadsView, Integers, FiniteSets

CONSTANTS Thread, Run,  \* identifiers
          Followed,     \* the routes by which the page is opened, or that are followed in it
          MaxCall,      \* bound: calls in flight when the user does something
          MaxTrouble    \* bound: runs after the first, lost connections, refused requests,
                        \* and times the page is hidden

VARIABLES run,      \* the server's runs: "waiting", "active", "linked" or "unlinked"
          troubles
vars == <<page, run, troubles>>

Home        == <<"threads", None>>
ToThread(t) == <<"thread", t>>
ToRun(r)    == <<"run", r>>

Parameters ==
    /\ ThreadOf \in [Run -> Thread] /\ Starting \subseteq Run
    /\ None \notin Thread \cup Run
    /\ Followed \subseteq {Home} \cup {ToThread(t) : t \in Thread} \cup {ToRun(r) : r \in Run}
    /\ MaxCall \in Nat /\ MaxTrouble \in Nat
ASSUME ThreadsPageAssumption == Parameters

----------------------------------------------------------------------------
(* Calls.  Those whose answer the page will ignore are forgotten, unless   *)
(* something goes on when they are answered: of a poll, the next one, of   *)
(* inspectRun, the run it opens, of a subscription, its records.           *)

Request(what, to) ==
    [what |-> what, to |-> to, id |-> 1, got |-> "none", list |-> {},
     opens |-> None, monitored |-> None, same |-> FALSE, poll |-> FALSE, latest |-> TRUE]

Alike(p, c) == {d \in p.calls : d.what = c.what /\ d.to = c.to}
FreeId(p, c) ==
    CHOOSE n \in 1 .. Cardinality(Alike(p, c)) + 1 :
      /\ \A d \in Alike(p, c) : d.id # n
      /\ \A m \in 1 .. n - 1 : \E d \in Alike(p, c) : d.id = m
Call(p, c) ==
    [p EXCEPT !.calls = @ \cup {[c EXCEPT !.id = FreeId(p, c), !.got = IF Live(p) THEN "none" ELSE "rejected"]}]

Failed(c) == c.got \in {"error", "rejected"}
Settled   == \A c \in page.calls : c.got # "rejected"
Forget(p, whats) == [p EXCEPT !.calls = {c \in @ : c.what \notin whats}]

Carries(c) == c.poll \/ c.opens # None
Awaited(c) == Carries(c) \/ (c.what = "audit" /\ c.same)
SupersedeForGood(p, what) == Forget(p, {what}) \* mutant: the poll that was under way is dropped
(* latest and auditLatest: a call of the kind makes the earlier ones stale. *)
Supersede(p, what) ==
    [p EXCEPT !.calls = {IF c.what = what THEN [c EXCEPT !.latest = FALSE] ELSE c :
                           c \in {d \in @ : d.what = what => Awaited(d)}}]

(* inspector.latest.begin and invalidate: what was to be shown in the      *)
(* drawer is not, and the selected run's token is no longer the latest.    *)
Begin(p) ==
    [p EXCEPT !.held = FALSE,
              !.calls = {[c EXCEPT !.opens = None] : c \in {d \in @ : d.what \notin {"thread", "stats", "resolve"}}}]

----------------------------------------------------------------------------
(* The run that is followed: select, clear, and its audit records. *)

(* selectionToken changes. *)
Reselect(p) == [p EXCEPT !.calls = {[c EXCEPT !.same = FALSE] : c \in @}, !.audited = {}, !.streaming = FALSE]

(* installAuditSubscription: the client subscribes when it is connected.   *)
Subscribe(p) ==
    IF Live(p) THEN Call(p, Request("subscribe", p.monitored)) ELSE p

Select(p, r) ==
    Subscribe([Reselect(Forget(p, {"subscribe"})) EXCEPT !.monitored = r, !.held = TRUE, !.node = FALSE])

Clear(p) == [Supersede(Reselect(Forget(p, {"subscribe"})), "audit") EXCEPT !.monitored = None, !.held = FALSE]

(* refreshAudit: for the subscription, same, or for the refresh c.         *)
RefreshAudit(p, r, same, c) ==
    Call(Supersede(p, "audit"), [Request("audit", r) EXCEPT !.same = same, !.poll = c.poll, !.opens = c.opens])
SubscribeArrives(p, c) == RefreshAudit(p, c.to, TRUE, c)

AuditedAnyway(p, c) == IF Failed(c) THEN p ELSE [p EXCEPT !.audited = {c.to}] \* mutant: the run may have changed
Audited(p, c) == IF Failed(c) \/ ~c.latest \/ p.monitored # c.to THEN p ELSE [p EXCEPT !.audited = {c.to}]

(* Once restored, the subscription passes records on. *)
Restored(p, c) == IF c.same /\ Live(p) THEN [p EXCEPT !.streaming = TRUE] ELSE p

----------------------------------------------------------------------------
(* The drawer. *)

InspectThread(p, t, r) ==
    Call([Clear(p) EXCEPT !.visible = TRUE, !.loading = TRUE, !.failed = FALSE, !.detail = None,
                          !.stats = None, !.node = FALSE],
         [Request("thread", t) EXCEPT !.opens = r])

Monitor(p, r) ==
    IF r \in Starting
    THEN Select([Clear(p) EXCEPT !.detail = None, !.failed = FALSE, !.loading = FALSE, !.visible = TRUE], r)
    ELSE IF p.detail # ThreadOf[r] THEN InspectThread(p, ThreadOf[r], r)
    ELSE Select(p, r)

(* The rest of monitor, once inspectThread has returned.                   *)
Then(p, r) == IF r = None THEN p ELSE Select(p, r)

ThreadArrives(p, c) ==
    LET q == [p EXCEPT !.loading = FALSE]
    IN IF Failed(c) \/ c.list = {} THEN Then([q EXCEPT !.failed = TRUE], c.opens)
       ELSE Call([q EXCEPT !.detail = c.to, !.node = TRUE], [Request("stats", c.to) EXCEPT !.opens = c.opens])

StatsArrives(p, c) == Then(IF Failed(c) THEN p ELSE [p EXCEPT !.stats = c.to], c.opens)

InspectRun(p, r) == Call(Begin(p), Request("resolve", r))

SelectFromRoute(p) ==
    CASE p.route[1] = "thread" -> InspectThread(Begin(p), p.route[2], None)
      [] p.route[1] = "run"    -> InspectRun(p, p.route[2])
      [] OTHER -> p

(* router.replace and router.push: the watcher of the route follows.       *)
Go(p, route) == IF p.route = route THEN p ELSE SelectFromRoute([p EXCEPT !.route = route])

----------------------------------------------------------------------------
(* The active runs: refresh and poll. *)

Schedule(p) == [p EXCEPT !.timer = ~p.hidden /\ Live(p)]

(* What awaits a refresh: poll, or the rest of inspectRun.                 *)
Found(p, r) == IF r \in p.running THEN Monitor(p, r) ELSE p
Resume(p, c) ==
    IF c.poll THEN Schedule(p) ELSE IF c.opens # None THEN Found(p, c.opens) ELSE p

(* The media of the run that is followed, or of its records, if any are    *)
(* missing; the page ignores whether they are found.                       *)
LoadMedia(p, c) ==
    IF Carries(c) THEN Call(p, [Request("media", None) EXCEPT !.poll = c.poll, !.opens = c.opens]) ELSE p

(* What the refresh c of the followed run awaits before it returns: its    *)
(* records, if the page does not own a subscription, and media.            *)
Rest == {"audit", "media", "nothing"}
GoOn(p, c, rest) ==
    CASE rest = "audit"   -> RefreshAudit(p, p.monitored, FALSE, c)
      [] rest = "media"   -> LoadMedia(p, c)
      [] rest = "nothing" -> Resume(p, c)

AuditArrives(p, c, rest) == GoOn(Audited(Restored(p, c), c), c, rest)

Refresh(p, poll, r) ==
    LET q == Supersede(p, "active")
        c == [Request("active", None) EXCEPT !.poll = poll, !.opens = r,
                                             !.monitored = p.monitored, !.same = p.monitored # None]
    IN IF Live(p) THEN Call(q, c) ELSE Resume([q EXCEPT !.running = {}], c)
Poll(p) == Refresh(p, TRUE, None)

(* openFinalizedThread *)
Finalize(p, c) ==
    IF p.finalizing = c.monitored THEN Resume(p, c)
    ELSE Call([p EXCEPT !.finalizing = c.monitored],
              [Request("final", c.monitored) EXCEPT !.same = c.same, !.poll = c.poll, !.opens = c.opens])

ActiveArrives(p, c, rest) ==
    LET q == [p EXCEPT !.running = c.list]
    IN IF ~c.latest \/ Failed(c) THEN Resume(p, c)
       ELSE IF p.monitored \in c.list THEN GoOn(q, c, rest)
       ELSE IF c.monitored # None /\ p.visible THEN Finalize(q, c)
       ELSE Resume(q, c)

FinalArrivesInVain(p, c) == \* mutant: finalizingRunId is only reset for the run that is followed
    LET q == [p EXCEPT !.finalizing = None]
        current == p.held /\ c.same /\ p.visible /\ p.monitored = c.to
    IN IF ~current THEN Resume(p, c)
       ELSE Resume(IF ~Failed(c) /\ "linked" \in c.list THEN Go(Clear(q), ToThread(ThreadOf[c.to])) ELSE q, c)
FinalArrives(p, c) ==
    LET q == [p EXCEPT !.finalizing = IF @ = c.to THEN None ELSE @]
        current == p.held /\ c.same /\ p.visible /\ p.monitored = c.to
    IN Resume(IF current /\ ~Failed(c) /\ "linked" \in c.list
              THEN Go(Clear(q), ToThread(ThreadOf[c.to])) ELSE q, c)

ResolveArrives(p, c) ==
    IF Failed(c) THEN p
    ELSE IF "active" \in c.list THEN Refresh(p, FALSE, c.to)
    ELSE IF "linked" \in c.list THEN Go(p, ToThread(ThreadOf[c.to]))
    ELSE p

----------------------------------------------------------------------------
(* The list of threads. *)

RefreshList(p) ==
    LET q == Forget(p, {"list"})
    IN CASE p.conn = "authenticated" -> Call([q EXCEPT !.listing = TRUE], Request("list", None))
         [] p.conn = "reconnecting"  -> [q EXCEPT !.listing = TRUE]
         [] p.conn = "offline"       -> [q EXCEPT !.listing = FALSE]

ListArrives(p, c) ==
    LET q == [p EXCEPT !.listing = FALSE]
    IN IF Failed(c) THEN q ELSE SelectFromRoute([q EXCEPT !.threads = c.list])

HaltArrives(p, c) ==
    LET q == [p EXCEPT !.halting = None]
    IN IF Failed(c) THEN q ELSE RefreshList(Refresh(q, FALSE, None))

----------------------------------------------------------------------------
(* What the user does.  The open drawer covers the lists.                  *)

Changes(q) == page' = q /\ UNCHANGED <<run, troubles>>
Asks       == Cardinality(page.calls) < MaxCall /\ Settled
Content    == page.visible /\ ~page.loading /\ ~page.failed

Listed(r) == r \in page.running /\ page.threads # {}

Open(r)    == ~page.visible /\ Listed(r) /\ Asks /\ Changes(Monitor(Begin(page), r))
Inspect(t) == ~page.visible /\ t \in page.threads /\ Asks /\ Changes(Go(Begin(page), ToThread(t)))
ListAgain  == ~page.visible /\ Asks /\ Changes(RefreshList(page))

(* A link to a run, or the browser's history. *)
Follow(route) == route # page.route /\ Asks /\ Changes(Go(page, route))

(* selectTreeNode: of the runs, those of the thread are in its tree.       *)
SelectRun(r) ==
    /\ r \in page.running /\ Content /\ Asks
    /\ IF page.detail = None THEN r = page.monitored ELSE ParentThread(r) = page.detail
    /\ Changes(Monitor(Begin(page), r))
SelectNode ==
    /\ page.detail # None /\ Content /\ Asks
    /\ Changes([Clear(IF page.monitored # None THEN Begin(page) ELSE page) EXCEPT !.node = TRUE])

CloseDrawer ==
    /\ page.visible /\ Asks
    /\ LET q == [Clear(Begin(page)) EXCEPT !.visible = FALSE, !.detail = None, !.node = FALSE]
       IN Changes(IF page.route[1] = "thread" THEN Go(q, Home) ELSE q)

Halt(r) ==
    /\ IF page.visible THEN r = page.monitored /\ Content ELSE Listed(r)
    /\ Asks
    /\ Changes(Call([page EXCEPT !.halting = r], Request("halt", r)))

(* visibilityChanged *)
HidePage ==
    /\ ~page.hidden /\ Settled
    /\ troubles < MaxTrouble /\ troubles' = troubles + 1
    /\ page' = [page EXCEPT !.hidden = TRUE, !.timer = FALSE]
    /\ UNCHANGED run
ShowPage == page.hidden /\ Asks /\ Changes(Poll([page EXCEPT !.hidden = FALSE]))

TimerFires == page.timer /\ Asks /\ Changes(Poll([page EXCEPT !.timer = FALSE]))

----------------------------------------------------------------------------
(* The connection.  The watchers of its state run before the handlers of   *)
(* the calls that fail with it; the client restores the subscription.      *)

Watched(p) == Poll(RefreshList(p))

Drop ==
    /\ troubles < MaxTrouble /\ troubles' = troubles + 1
    /\ Live(page) /\ Settled
    /\ page' = Watched([page EXCEPT !.conn = "reconnecting", !.streaming = FALSE,
                 !.calls = {[c EXCEPT !.got = "rejected", !.list = {}] : c \in {d \in @ : d.what # "subscribe"}}])
    /\ UNCHANGED run

Reconnect ==
    /\ ~Live(page) /\ Settled
    /\ LET p == [page EXCEPT !.conn = "authenticated"]
       IN Changes(Watched(IF p.monitored = None THEN p ELSE Subscribe(p)))
GiveUp == page.conn = "reconnecting" /\ Settled /\ Changes(Watched([page EXCEPT !.conn = "offline"]))

----------------------------------------------------------------------------
(* The server. *)

Stored == (Thread \ {ThreadOf[r] : r \in Starting}) \cup {ThreadOf[r] : r \in {s \in Run : run[s] = "linked"}}

Reads(c) ==
    CASE c.what = "list"   -> Stored
      [] c.what = "active" -> {r \in Run : run[r] = "active"}
      [] c.what \in {"thread", "stats"}  -> Stored \cap {c.to}
      [] c.what \in {"resolve", "final"} -> {run[c.to]}

(* Of these only that they are answered matters.                           *)
Plain == {"subscribe", "audit", "media", "halt"}

Serve(c) ==
    /\ c.got = "none"
    /\ \/ c.what \notin Plain /\ page' = [page EXCEPT !.calls = (@ \ {c}) \cup {[c EXCEPT !.got = "ok", !.list = Reads(c)]}] /\ UNCHANGED troubles
       \/ /\ troubles < MaxTrouble /\ troubles' = troubles + 1
          /\ c.what \notin {"subscribe", "media"}
          /\ page' = [page EXCEPT !.calls = (@ \ {c}) \cup {[c EXCEPT !.got = "error"]}]
    /\ UNCHANGED run

Starts(r) ==
    /\ run[r] = "waiting" /\ run' = [run EXCEPT ![r] = "active"]
    /\ troubles' = IF \A s \in Run : run[s] = "waiting" THEN troubles ELSE troubles + 1
    /\ troubles' <= MaxTrouble
    /\ UNCHANGED page

(* A run ends, by itself or because it is halted; it need not have answered. *)
Ends(r) ==
    /\ run[r] = "active"
    /\ \E end \in {"linked", "unlinked"} : run' = [run EXCEPT ![r] = end]
    /\ UNCHANGED <<page, troubles>>

----------------------------------------------------------------------------
(* What reaches the page. *)

Arrives(p, c, rest) ==
    CASE c.what = "list"      -> ListArrives(p, c)
      [] c.what = "active"    -> ActiveArrives(p, c, rest)
      [] c.what = "thread"    -> ThreadArrives(p, c)
      [] c.what = "stats"     -> StatsArrives(p, c)
      [] c.what = "resolve"   -> ResolveArrives(p, c)
      [] c.what = "final"     -> FinalArrives(p, c)
      [] c.what = "subscribe" -> SubscribeArrives(p, c)
      [] c.what = "audit"     -> AuditArrives(p, c, rest)
      [] c.what = "media"     -> Resume(p, c)
      [] c.what = "halt"      -> HaltArrives(p, c)

(* What a refresh still has to await is left open, but for records that a  *)
(* subscription already streams.                                           *)
RestOf(c) ==
    CASE c.what = "active" /\ page.monitored \in c.list -> IF page.streaming THEN Rest \ {"audit"} ELSE Rest
      [] c.what = "audit" /\ Carries(c)                 -> Rest \ {"audit"}
      [] OTHER                                          -> {"nothing"}

Answer(c) ==
    /\ c.got # "none" \/ c.what \in Plain
    /\ c.got = "rejected" \/ Settled
    /\ \E rest \in RestOf(c) : Changes(Arrives([page EXCEPT !.calls = @ \ {c}], c, rest))

(* A record of an active run is published to the page's subscription. *)
Record(r) ==
    /\ page.streaming /\ run[r] = "active" /\ Settled
    /\ Changes(IF r = page.monitored THEN [page EXCEPT !.audited = @ \cup {r}] ELSE page)

----------------------------------------------------------------------------
Opened(route) ==
    [conn |-> "authenticated", route |-> route, hidden |-> FALSE, timer |-> FALSE, threads |-> {}, listing |-> TRUE,
     running |-> {}, visible |-> FALSE, detail |-> None, node |-> FALSE, stats |-> None, loading |-> FALSE,
     failed |-> FALSE, monitored |-> None, held |-> FALSE, audited |-> {}, streaming |-> FALSE,
     finalizing |-> None, halting |-> None, calls |-> {}]

Init ==
    /\ \E route \in Followed : page = Poll(RefreshList(Opened(route)))
    /\ run = [r \in Run |-> "waiting"] /\ troubles = 0

User ==
    \/ ListAgain \/ SelectNode \/ CloseDrawer \/ HidePage \/ ShowPage
    \/ \E r \in Run : Open(r) \/ SelectRun(r) \/ Halt(r)
    \/ \E t \in Thread : Inspect(t)
    \/ \E route \in Followed : Follow(route)

Next ==
    \/ User \/ TimerFires \/ Drop \/ Reconnect \/ GiveUp
    \/ \E c \in page.calls : Serve(c) \/ Answer(c)
    \/ \E r \in Run : Starts(r) \/ Ends(r) \/ Record(r)

Spec == Init /\ [][Next]_vars
=============================================================================
