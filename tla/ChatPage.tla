------------------------------ MODULE ChatPage ------------------------------
(***************************************************************************)
(* The console's chat page (cosmoscope: composables/useChatSession.ts,     *)
(* composables/useChatComposer.ts, ChatPage.vue and components/chat): the  *)
(* list of sessions, the transcript of the selected one, which is streamed *)
(* to the page and read backwards page by page, and the composer with the  *)
(* attachments that were uploaded for the next message.                    *)
(*                                                                         *)
(* A session that is selected first has the attachments of the previous    *)
(* one discarded on the server, which takes time and may be refused; an    *)
(* upload or a message under way then belongs to a session that is no      *)
(* longer shown.  What a subscription does on a connection is what         *)
(* RpcClient shows of it: subscribe, refresh, then release what was held   *)
(* back.  A notification does not say for which subscription it is, and    *)
(* the page does not look at the session of a message.                     *)
(*                                                                         *)
(* page is the state of the page; the handlers are operators on it.  The   *)
(* drafts, names, error messages and the marks of messages being written   *)
(* are left out.                                                           *)
(***************************************************************************)
EXTENDS Integers, Sequences, FiniteSets, FiniteSetsExt, TLC

CONSTANTS Session,    \* identifiers of sessions, numbered in the order of the list
          PageSize,   \* messages per page of the transcript (100 in the code)
          Trial,      \* bound: the situations checked, see below
          MaxMessage, \* bound: messages written meanwhile, no more than a page
          MaxCall,    \* bound: calls in flight when the user does something
          MaxTrouble  \* bound: lost connections and refused requests

(* When the page is opened there are the existing sessions with the stored *)
(* messages in each.  The user uploads at most so many files, and goes back *)
(* in the browser's history or does not.                                   *)
Situation == [existing : SUBSET Session, stored : Nat, files : Nat, back : BOOLEAN]

ASSUME ChatAssumption ==
    /\ Session \subseteq Nat \ {0} /\ PageSize \in Nat \ {0} /\ Trial \subseteq Situation
    /\ MaxMessage \in 0 .. PageSize /\ MaxCall \in Nat /\ MaxTrouble \in Nat

VARIABLES page,     \* the page
          server,   \* the sessions and attachments of the server, and what it streams
          wire,     \* the notifications queued for the connection
          gap,      \* the transcript may have one, for a known reason (no state of the code)
          astray,   \* attachments whose upload or discard failed (no state of the code)
          troubles
vars == <<page, server, wire, gap, astray, troubles>>

None    == 0
Logs    == -1  \* as a route: the platform logs are shown
Nothing == -2  \* as what is switched to: no session

(* A message is <<s, n>>, the n-th of session s; an attachment is <<s, k>>,*)
(* the k-th upload, for session s.                                         *)
Upto(s, n)   == {<<s, m>> : m \in 1 .. n}
Newest(ms)   == {m \in ms : Cardinality({x \in ms : x[2] > m[2]}) < PageSize}
Own(p)       == {m \in p.messages : m[1] = p.selected}
Live(p)      == p.conn = "authenticated"

----------------------------------------------------------------------------
(* Calls. *)

Call(p, c) ==
    LET alike == {d \in p.calls : d.what = c.what}
        id    == CHOOSE n \in 1 .. Cardinality(alike) + 1 :
                   /\ \A d \in alike : d.id # n
                   /\ \A m \in 1 .. n - 1 : \E d \in alike : d.id = m
        rest  == [id |-> id, got |-> IF Live(p) THEN "none" ELSE "rejected", list |-> {}, files |-> {},
                  to |-> None, more |-> 0, current |-> TRUE, latest |-> TRUE]
    IN [p EXCEPT !.calls = @ \cup {c @@ rest}]

Failed(c) == c.got \in {"error", "rejected"}
Settled   == \A c \in page.calls : c.got # "rejected"

Forget(p, whats) == [p EXCEPT !.calls = {c \in @ : c.what \notin whats}]
Mark(p, whats, field) ==
    [p EXCEPT !.calls = {IF c.what \in whats THEN [c EXCEPT ![field] = FALSE] ELSE c : c \in @}]

DiscardEach(p, files, what) ==
    FoldSet(LAMBDA f, q : Call(q, [what |-> what, files |-> {f}]), p, files)

----------------------------------------------------------------------------
(* Selecting a session. *)

(* The subscription and the reads of the transcript that it makes stale.   *)
Release(p) == [Forget(p, {"subscribe", "history", "older"}) EXCEPT !.stream = "off", !.held = {}]

(* selectionChanged: a message under way no longer disables the button.    *)
SelectionChangedOnly(p) == Mark(p, {"send"}, "latest") \* mutant: the button is not reset
SelectionChanged(p) == [Mark(p, {"send"}, "latest") EXCEPT !.sending = FALSE]

(* subscribeChat, which waits for the connection when there is none.       *)
Subscribe(p) ==
    IF Live(p) THEN Call([p EXCEPT !.stream = "asking"], [what |-> "subscribe", to |-> p.selected]) ELSE p

Switch(p, to) ==
    LET q == Release(SelectionChanged(p))
        r == [q EXCEPT !.messages = {}, !.hasOlder = FALSE, !.loadingOlder = FALSE]
    IN IF to = Nothing THEN [r EXCEPT !.selected = None, !.route = None]
       ELSE Subscribe([r EXCEPT !.selected = to, !.route = to, !.loading = TRUE])

(* Once every discard is answered: what the server kept is put back and    *)
(* the selection stays.                                                    *)
Prepared(p) ==
    LET q == [p EXCEPT !.tray = @ \cup p.retained, !.retained = {}, !.uploading = FALSE, !.switching = None]
    IN IF p.retained # {} THEN q ELSE Switch(q, p.switching)

(* composerGeneration is increased: uploads, discards and messages under   *)
(* way are of an earlier generation, as is a preparation that is not done. *)
NextGeneration(p) ==
    [Mark(p, {"upload", "remove", "send", "switch"}, "current") EXCEPT !.retained = {}, !.switching = None]

(* prepareSelectionChange *)
Prepare(p, to) ==
    LET q == [NextGeneration(p) EXCEPT !.uploading = TRUE, !.switching = to, !.tray = {}]
    IN IF p.tray = {} THEN Prepared(q) ELSE DiscardEach(q, p.tray, "switch")

SelectSession(p, s) == IF p.selected = s THEN p ELSE Prepare(p, s)

(* loadSessions: a list that was asked for before is ignored.              *)
LoadSessions(p, preferred) ==
    LET q == Forget(p, {"list"})
    IN IF p.route = Logs \/ ~Live(p) THEN q ELSE Call(q, [what |-> "list", to |-> preferred])

ListArrives(p, c) ==
    LET q    == [p EXCEPT !.sessions = c.list]
        want == IF c.to = None THEN p.route ELSE c.to
    IN IF Failed(c) THEN p
       ELSE IF want \in c.list THEN SelectSession(q, want)
       ELSE IF c.list # {} THEN SelectSession(q, Min(c.list))
       ELSE Prepare(q, Nothing)

----------------------------------------------------------------------------
(* The transcript. *)

(* refreshHistory *)
RefreshHistory(p) ==
    Call([Mark(p, {"older"}, "latest") EXCEPT !.stream = "restoring"], [what |-> "history", to |-> p.selected])

(* The subscription is restored: what was held is merged.                  *)
Restored(p) == [p EXCEPT !.stream = "live", !.messages = @ \cup p.held, !.held = {}]

HasOlder(s, ms) == ms # {} /\ <<s, 1>> \notin ms

HistoryArrives(p, c) ==
    LET q == [p EXCEPT !.loading = FALSE]
    IN IF ~c.latest THEN Restored(p)
       ELSE IF Failed(c) THEN Restored(q)
       ELSE Restored([q EXCEPT !.messages = c.list, !.hasOlder = HasOlder(c.to, c.list)])

(* loadOlder *)
OlderArrivesAnyway(p, c) == \* mutant: a refresh does not make it stale
    LET q == [p EXCEPT !.loadingOlder = FALSE]
    IN IF Failed(c) THEN q
       ELSE [q EXCEPT !.messages = @ \cup c.list, !.hasOlder = HasOlder(c.to, c.list)]
OlderArrives(p, c) ==
    LET q == [p EXCEPT !.loadingOlder = FALSE]
    IN IF ~c.latest \/ Failed(c) THEN q
       ELSE [q EXCEPT !.messages = @ \cup c.list, !.hasOlder = HasOlder(c.to, c.list)]

----------------------------------------------------------------------------
(* The composer. *)

(* attachFiles, one file after the other.                                  *)
Upload(p, files) == Call(p, [what |-> "upload", to |-> p.selected, more |-> files - 1])

UploadArrivesLate(p, c) == p \* mutant: a late upload is dropped
UploadArrives(p, c) ==
    LET late == ~c.current \/ p.selected # c.to
        done == [p EXCEPT !.uploading = @ /\ ~c.current]
        kept == [p EXCEPT !.tray = @ \cup c.files]
    IN IF late THEN IF Failed(c) THEN done ELSE Call(p, [what |-> "late", files |-> c.files, current |-> c.current])
       ELSE IF Failed(c) THEN done
       ELSE IF c.more > 0
            THEN Call(kept, [what |-> "upload", to |-> c.to, more |-> c.more - 1, current |-> c.current])
            ELSE [kept EXCEPT !.uploading = @ /\ ~c.current]

(* The upload that came too late is discarded. *)
LateArrives(p, c) == [p EXCEPT !.uploading = @ /\ ~c.current]

(* discardAttachment *)
RemoveArrives(p, c) ==
    IF Failed(c) /\ c.current /\ p.selected = c.to THEN [p EXCEPT !.tray = @ \cup c.files] ELSE p

SwitchArrives(p, c) ==
    LET q == IF Failed(c) THEN [p EXCEPT !.retained = @ \cup c.files] ELSE p
    IN IF ~c.current THEN p
       ELSE IF \E d \in p.calls : d.what = "switch" /\ d.current THEN q ELSE Prepared(q)

(* send: the message was stored, or its attachments are to be kept.        *)
SendArrives(p, c) ==
    LET q       == IF c.latest THEN [p EXCEPT !.sending = FALSE] ELSE p
        current == c.current /\ p.selected = c.to
    IN IF ~Failed(c) THEN IF current THEN [q EXCEPT !.messages = @ \cup c.list] ELSE q
       ELSE IF current THEN [q EXCEPT !.tray = @ \cup c.files]
       ELSE DiscardEach(q, c.files, "discard")

----------------------------------------------------------------------------
(* The user. *)

Uses(q) == page' = q
Quiet   == UNCHANGED <<server, astray, troubles>>
Asks    == Settled /\ page.open /\ ~page.choosing /\ Cardinality(page.calls) < MaxCall

(* The session list, the transcript and the composer can be reached.       *)
Shown(p) == p.route # Logs
Selected == page.selected \in page.sessions

(* What a preparation could not discard, when another one begins.          *)
Left(q) == page.retained \ (q.tray \cup q.retained)

Changes(q) == \* the subscription of another session ends, or the list is asked for
    /\ page' = q
    /\ server' = IF q.selected # page.selected THEN [server EXCEPT !.stream = None] ELSE server
    /\ gap' = (gap /\ q.selected = page.selected)
    /\ astray' = astray \cup Left(q)
    /\ UNCHANGED <<wire, troubles>>

Click(s) ==
    /\ Asks /\ Shown(page) /\ s \in page.sessions \ {page.selected}
    /\ Changes(SelectSession(page, s))

(* The browser's history: the watcher selects a session that is listed.    *)
Navigate(s) ==
    /\ server.trial.back /\ Asks /\ s \in Session \ {page.route}
    /\ LET q == [page EXCEPT !.route = s]
       IN Changes(IF s \in page.sessions THEN SelectSession(q, s) ELSE q)

ShowLogs ==
    /\ Asks /\ page.route # Logs
    /\ Changes([page EXCEPT !.route = Logs])
ShowSessions ==
    /\ Asks
    /\ Changes(LoadSessions([page EXCEPT !.route = page.selected], page.selected))

(* A new session, or a fork of the transcript up to one of its messages.   *)
Fresh(p) == {c \in p.calls : c.what = "create"} = {} /\ server.made # Session
CreateSession ==
    /\ Asks /\ page.route # Logs /\ Live(page) /\ Fresh(page)
    /\ Changes(Call(page, [what |-> "create"]))
ForkSession(m) ==
    /\ Asks /\ Shown(page) /\ Fresh(page) /\ m \in page.messages
    /\ Changes(Call(page, [what |-> "create", to |-> m[1], list |-> {m}]))

(* The dialog that asks first is left out.                                 *)
RemoveSession ==
    /\ Asks /\ Shown(page) /\ Selected
    /\ Changes(Call(page, [what |-> "delete", to |-> page.selected]))

LoadOlder ==
    /\ Asks /\ Shown(page) /\ Own(page) # {} /\ page.hasOlder /\ ~page.loadingOlder
    /\ Changes(Call([Mark(page, {"history"}, "latest") EXCEPT !.loadingOlder = TRUE],
                    [what |-> "older", to |-> page.selected, list |-> {CHOOSE m \in Own(page) : \A x \in Own(page) : m[2] <= x[2]}]))

(* While the browser lets the user choose files, he does nothing else.     *)
ChooseFiles ==
    /\ Asks /\ Shown(page) /\ Selected /\ ~page.uploading /\ server.used < server.trial.files
    /\ Changes([page EXCEPT !.choosing = TRUE])

AttachFiles(n) ==
    /\ Settled /\ page.choosing
    /\ server.used + n + Cardinality({c \in page.calls : c.what = "upload"}) <= server.trial.files
    /\ LET p == [page EXCEPT !.choosing = FALSE]
       IN Changes(IF n = 0 \/ p.selected = None THEN p ELSE Upload([p EXCEPT !.uploading = TRUE], n))

DiscardAttachment(f) ==
    /\ Asks /\ Shown(page) /\ page.selected # None /\ f \in page.tray
    /\ Changes(Call([page EXCEPT !.tray = @ \ {f}], [what |-> "remove", to |-> page.selected, files |-> {f}]))

(* By ctrl+Enter, which does not wait for uploads.                         *)
Send ==
    /\ Asks /\ Shown(page) /\ Selected /\ ~page.sending
    /\ Changes(Call([page EXCEPT !.tray = {}, !.sending = TRUE],
                    [what |-> "send", to |-> page.selected, files |-> page.tray]))

Closed(p) ==
    [p EXCEPT !.open = FALSE, !.selected = None, !.route = None, !.sessions = {}, !.messages = {},
              !.hasOlder = FALSE, !.loading = FALSE, !.loadingOlder = FALSE, !.sending = FALSE, !.uploading = FALSE,
              !.tray = {}]

(* The page is left: what is attached is discarded, whatever comes of it.  *)
Leave ==
    /\ Settled /\ page.open /\ ~page.choosing
    /\ LET q == NextGeneration(Release(Forget(page, {"list", "create", "delete"})))
       IN Changes(DiscardEach(Closed(q), page.tray, "discard"))

----------------------------------------------------------------------------
(* The connection. *)

(* On a change of its state the list is loaded, then calls fail: a refresh *)
(* too, after which what was held back is shown all the same.  A client    *)
(* that has given up clears the page, but for its attachments.             *)
Lost(p) ==
    LET refreshes == \E c \in p.calls : c.what = "history"
        q == [p EXCEPT !.conn = "reconnecting", !.held = IF refreshes THEN @ ELSE {}, !.stream = "off",
                       !.calls = {[c EXCEPT !.got = "rejected", !.list = {}] : c \in {d \in @ : d.what # "subscribe"}}]
    IN LoadSessions(q, None)

GivesUp(p) ==
    LET q == SelectionChanged(NextGeneration(Release(p)))
    IN [LoadSessions(q, None) EXCEPT !.selected = None, !.sessions = {}, !.messages = {}, !.hasOlder = FALSE,
                                     !.loadingOlder = FALSE, !.uploading = FALSE]

(* What was uploaded without the page's hearing of it.                     *)
Unheard == UNION {c.files : c \in {d \in page.calls : d.what = "upload"}}

Closes ==
    /\ page' = Lost(page)
    /\ wire' = <<>> /\ server' = [server EXCEPT !.stream = None]
    /\ astray' = astray \cup Unheard
    /\ UNCHANGED gap

Drop ==
    /\ Settled /\ Live(page) /\ page.open
    /\ troubles < MaxTrouble /\ troubles' = troubles + 1
    /\ Closes

(* The client is connected again: it restores the subscription.            *)
Reconnect ==
    /\ Settled /\ page.open /\ ~Live(page)
    /\ LET p == [page EXCEPT !.conn = "authenticated"]
       IN \/ page' = LoadSessions(IF p.selected = None THEN p ELSE Subscribe(p), None)
          \/ page.conn = "reconnecting" /\ page' = GivesUp([page EXCEPT !.conn = "failed"])
    /\ UNCHANGED <<server, wire, gap, astray, troubles>>

----------------------------------------------------------------------------
(* The server. *)

Gives(c, got, list) ==
    page' = [page EXCEPT !.calls = (@ \ {c}) \cup {[c EXCEPT !.got = got, !.list = list]}]

(* A message is stored and published. *)
Written(s, files) ==
    /\ server.written < MaxMessage
    /\ server' = [server EXCEPT !.last[s] = @ + 1, !.written = @ + 1, !.files = @ \ files]
    /\ wire' = IF server.stream = s THEN Append(wire, <<s, server.last[s] + 1>>) ELSE wire

Reads(c) ==
    CASE c.what = "list"    -> server.sessions
      [] c.what = "history" -> Newest(Upto(c.to, server.last[c.to]))
      [] c.what = "older"   -> Newest(Upto(c.to, (CHOOSE m \in c.list : TRUE)[2] - 1))

ServeRead(c) ==
    /\ c.what \in {"list", "history", "older"}
    /\ IF c.to \in server.sessions \cup {None} \/ c.what = "list"
       THEN Gives(c, "ok", Reads(c)) ELSE Gives(c, "error", {})
    /\ UNCHANGED <<server, wire>>

ServeSubscribe(c) ==
    /\ c.what = "subscribe"
    /\ IF c.to \in server.sessions
       THEN Gives(c, "ok", {}) /\ server' = [server EXCEPT !.stream = c.to]
       ELSE Gives(c, "error", {}) /\ UNCHANGED server
    /\ UNCHANGED wire

ServeCreate(c) ==
    /\ c.what = "create"
    /\ IF c.to \in server.sessions \cup {None}
       THEN \E s \in Session \ server.made :
              /\ \A r \in Session \ server.made : s <= r
              /\ Gives(c, "ok", {s})
              /\ server' = [server EXCEPT !.sessions = @ \cup {s}, !.made = @ \cup {s},
                                          !.last[s] = IF c.to = None THEN 0 ELSE (CHOOSE m \in c.list : TRUE)[2]]
       ELSE Gives(c, "error", {}) /\ UNCHANGED server
    /\ UNCHANGED wire

ServeDelete(c) ==
    /\ c.what = "delete"
    /\ Gives(c, IF c.to \in server.sessions THEN "ok" ELSE "error", {})
    /\ server' = [server EXCEPT !.sessions = @ \ {c.to}]
    /\ UNCHANGED wire

ServeUpload(c) ==
    /\ c.what = "upload"
    /\ LET f == <<c.to, server.used + 1>>
       IN /\ page' = [page EXCEPT !.calls = (@ \ {c}) \cup {[c EXCEPT !.got = "ok", !.files = {f}]}]
          /\ server' = [server EXCEPT !.files = @ \cup {f}, !.used = @ + 1]
    /\ UNCHANGED wire

Discards == {"switch", "remove", "discard", "late"}
ServeDiscard(c) ==
    /\ c.what \in Discards
    /\ Gives(c, "ok", {})
    /\ server' = [server EXCEPT !.files = @ \ c.files]
    /\ UNCHANGED wire

ServeSend(c) ==
    /\ c.what = "send"
    /\ IF c.to \in server.sessions /\ c.files \subseteq server.files
       THEN Gives(c, "ok", {<<c.to, server.last[c.to] + 1>>}) /\ Written(c.to, c.files)
       ELSE Gives(c, "error", {}) /\ UNCHANGED <<server, wire>>

Refuse(c) ==
    /\ c.what \in {"history", "older", "switch", "remove", "discard", "late", "send", "upload"}
    /\ troubles < MaxTrouble /\ troubles' = troubles + 1
    /\ Gives(c, "error", {})
    /\ UNCHANGED <<server, wire>>

Serve(c) ==
    /\ c.got = "none"
    /\ \/ /\ ServeRead(c) \/ ServeSubscribe(c) \/ ServeCreate(c) \/ ServeDelete(c)
             \/ ServeUpload(c) \/ ServeDiscard(c) \/ ServeSend(c)
          /\ UNCHANGED troubles
       \/ Refuse(c)
    /\ UNCHANGED <<gap, astray>>

(* The bot, or another client, writes a message. *)
Post(s) ==
    /\ s \in server.sessions /\ Written(s, {})
    /\ UNCHANGED <<page, gap, astray, troubles>>

----------------------------------------------------------------------------
(* What reaches the page. *)

Arrives(p, c) ==
    CASE c.what = "list"      -> ListArrives(p, c)
      [] c.what = "subscribe" -> RefreshHistory(p)
      [] c.what = "history"   -> HistoryArrives(p, c)
      [] c.what = "older"     -> OlderArrives(p, c)
      [] c.what = "create"    -> IF Failed(c) THEN p ELSE LoadSessions(p, CHOOSE s \in c.list : TRUE)
      [] c.what = "delete"    -> IF Failed(c) THEN p ELSE LoadSessions(p, None)
      [] c.what = "upload"    -> UploadArrives(p, c)
      [] c.what = "remove"    -> RemoveArrives(p, c)
      [] c.what = "switch"    -> SwitchArrives(p, c)
      [] c.what = "late"      -> LateArrives(p, c)
      [] c.what = "discard"   -> p
      [] c.what = "send"      -> SendArrives(p, c)

(* A transcript is whole again when a refresh is shown.                    *)
GapAfter(c, q) ==
    IF q.selected # page.selected THEN FALSE
    ELSE IF c.what = "history" THEN ~c.latest \/ Failed(c) ELSE gap

Answer(c) ==
    /\ c.got # "none" /\ (Settled \/ c.got = "rejected")
    /\ IF c.what = "subscribe" /\ c.got = "error" THEN Closes /\ UNCHANGED troubles
       ELSE LET q == Arrives([page EXCEPT !.calls = @ \ {c}], c)
            IN /\ page' = q
               /\ server' = IF q.selected # page.selected THEN [server EXCEPT !.stream = None] ELSE server
               /\ gap' = GapAfter(c, q)
               /\ astray' = astray \cup Left(q) \cup (IF Failed(c) /\ c.what \in Discards THEN c.files \ (q.tray \cup q.retained) ELSE {})
               /\ UNCHANGED <<wire, troubles>>

(* The handler of whatever chat subscription there is.                     *)
Notify ==
    /\ Settled /\ wire # <<>>
    /\ page' = CASE page.stream = "live" -> [page EXCEPT !.messages = @ \cup {Head(wire)}]
                 [] page.stream \in {"asking", "restoring"} -> [page EXCEPT !.held = @ \cup {Head(wire)}]
                 [] page.stream = "off" -> page
    /\ wire' = Tail(wire)
    /\ UNCHANGED <<server, gap, astray, troubles>>

----------------------------------------------------------------------------
Opened(route) ==
    [open |-> TRUE, conn |-> "authenticated", route |-> route, sessions |-> {}, selected |-> None, messages |-> {},
     hasOlder |-> FALSE, loading |-> FALSE, loadingOlder |-> FALSE, stream |-> "off", held |-> {}, tray |-> {},
     sending |-> FALSE, uploading |-> FALSE, choosing |-> FALSE, switching |-> None, retained |-> {}, calls |-> {}]

(* The page is opened, perhaps by a link to a session. *)
Init ==
    /\ \E route \in Session \cup {None} : page = LoadSessions(Opened(route), None)
    /\ \E t \in Trial :
         server = [sessions |-> t.existing, made |-> t.existing,
                   last |-> [s \in Session |-> IF s \in t.existing THEN t.stored ELSE 0],
                   files |-> {}, used |-> 0, written |-> 0, stream |-> None, trial |-> t]
    /\ wire = <<>> /\ gap = FALSE /\ astray = {} /\ troubles = 0

User ==
    \/ ShowLogs \/ ShowSessions \/ CreateSession \/ RemoveSession
    \/ LoadOlder \/ ChooseFiles \/ Send \/ Leave
    \/ \E s \in Session : Click(s) \/ Navigate(s)
    \/ \E m \in page.messages : ForkSession(m)
    \/ \E n \in 0 .. 2 : AttachFiles(n)
    \/ \E f \in page.tray : DiscardAttachment(f)

Next ==
    \/ User \/ Drop \/ Reconnect \/ Notify
    \/ \E c \in page.calls : Serve(c) \/ Answer(c)
    \/ \E s \in Session : Post(s)

Spec == Init /\ [][Next]_vars

----------------------------------------------------------------------------
(* Every attachment the server holds for no message is in the tray, or a   *)
(* call on its way names it, unless the server refused to discard it or    *)
(* the answer to its upload was lost.                                      *)
AttachmentsAreAccountedFor ==
    server.files \subseteq page.tray \cup page.retained \cup astray \cup UNION {c.files : c \in page.calls}

(* The transcript of a connected page at rest runs without a gap to the    *)
(* newest message and is marked when it does not begin with the first,     *)
(* unless a refresh failed or gave way to reading older messages.          *)
TranscriptIsWhole ==
    page.stream = "live" /\ wire = <<>> /\ page.calls = {} /\ ~gap =>
      \E n \in 1 .. server.last[page.selected] + 1 :
        /\ Own(page) = {m \in Upto(page.selected, server.last[page.selected]) : m[2] >= n}
        /\ n > 1 /\ Own(page) # {} => page.hasOlder

(* No control waits for a call that is no longer on its way. *)
ControlsComeBack ==
    LET busy(whats) == \E c \in page.calls : c.what \in whats
    IN /\ page.sending => busy({"send"})
       /\ page.uploading => busy({"upload", "late", "switch"})
       /\ page.loadingOlder => busy({"older"})
       /\ page.loading /\ page.selected # None /\ Live(page) => busy({"subscribe", "history"})
=============================================================================
