----------------------------- MODULE RpcClient -----------------------------
(***************************************************************************)
(* The web console's RPC client (cosmoscope: rpc/client.ts, the store      *)
(* stores/connection.ts and the subscriptions of backend/rpcBackend.ts):   *)
(* one WebSocket at a time, requests matched to responses by number,       *)
(* reconnection after a delay, and subscriptions that are restored on      *)
(* every connection: subscribe, refresh the view, then release the         *)
(* notifications held back meanwhile.                                      *)
(*                                                                         *)
(* The browser runs one task at a time and drains its microtasks before    *)
(* the next one.  jobs is that microtask queue: the continuations of the   *)
(* promises a task settled, run in order, each a step of its own.          *)
(*                                                                         *)
(* The server serves the requests of a connection in eight workers, so in  *)
(* any order; its answers and notifications share one queue.  A subscriber *)
(* is a page that shows the events of a topic: its refresh asks for a      *)
(* snapshot that replaces the view, its handler adds one event to it.      *)
(***************************************************************************)
EXTENDS Integers, Sequences, FiniteSets

CONSTANTS Topic,       \* the keys of subscriptions
          Tokens,      \* the tokens users log in with: "right", "wrong"
          MaxSocket,   \* bound: sockets that are still of consequence
          MaxLogin,    \* bound: logins and uses of the retry button
          MaxSub,      \* bound: calls of subscribe
          MaxEvent,    \* bound: events on each topic
          MaxFault     \* bound: lost connections, slow answers, bad messages, full buffers, no socket

ASSUME RpcAssumption ==
    /\ Tokens \subseteq {"right", "wrong"}
    /\ MaxSocket \in Nat /\ MaxLogin \in Nat /\ MaxSub \in Nat /\ MaxEvent \in Nat /\ MaxFault \in Nat

VARIABLES
    state,       \* what the console shows
    credential,  \* the token: "none", or whether the server accepts it
    intentional, \* intentionalClose
    timer,       \* reconnectTimer is armed
    generation,  \* the socket whose generation is the client's, or 0
    socket,      \* this.socket, or 0
    sockets,     \* sockets in the order of their numbers: [ready, initial, authed]
    known,       \* methods is not empty: a login has succeeded
    nextId,
    pending,     \* request number -> the socket it was sent on
    requests,    \* sent, neither settled nor timed out
    jobs,        \* the microtask queue
    subs,        \* subscriptions: [topic, restoring, buffered, view, failed]
    map,         \* the Map of subscriptions in insertion order: {[sub, pos]}
    inbox,       \* requests the server has not served
    answers,     \* answers its workers have not queued yet
    outbox,      \* what the server has queued for the open connection
    topics,      \* what that connection is subscribed to
    happened,    \* topic -> the number of its events so far
    logins,
    faults,
    overtaken,   \* history of the newest connection: the topics about which a worker was overtaken,
    joined,      \* the pages that subscribed while a loop was still restoring the others,
    cut          \* and the socket itself if it was lost while a reconnection authenticated, or 0

login  == <<credential, intentional, known>>
link   == <<state, timer, generation, socket, sockets>>
wire   == <<nextId, pending, requests>>
table  == <<subs, map>>
session == <<inbox, answers, outbox, topics>>
history == <<overtaken, joined, cut>>
vars   == <<login, link, wire, jobs, table, session, happened, logins, faults, history>>

Socket == 1 .. MaxSocket
Sub    == 1 .. MaxSub
State  == {"offline", "opening", "authenticated", "reconnecting", "failed"}
Ready  == {"connecting", "aborting", "open", "closing", "closed"}
Token  == {"none", "wrong", "right"}

(* What a request is for.  loop is the socket whose restoreSubscriptions   *)
(* awaits it at entry pos, 0 when subscribe itself does; latest tells a    *)
(* refresh that no later refresh of the same page has superseded.          *)
Purpose ==
    [what : {"authenticate"}, token : Token] \cup [what : {"capabilities"}]
    \cup [what : {"subscribe", "refresh"}, sub : Sub, loop : {0} \cup Socket, pos : {0} \cup Sub, latest : BOOLEAN]
    \cup [what : {"unsubscribe"}, sub : Sub]

Live(s)   == sockets[s].ready \in {"connecting", "open"}
Online    == socket # 0 /\ sockets[socket].ready = "open"
Current(o) == \E e \in map : e.sub = o
TopicOf(p) == subs[p.sub].topic

----------------------------------------------------------------------------
(* Requests and what settles them. *)

Settles(r, how, shows) == [sock |-> r.sock, for |-> r.for, how |-> how, shows |-> shows]

InOrder(rs) == [k \in 1 .. Cardinality(rs) |-> CHOOSE r \in rs : Cardinality({q \in rs : q.id < r.id}) = k - 1]

(* rejectPending: every request the table knows, and the table is empty.   *)
Listed == {r \in requests : r.id \in DOMAIN pending /\ pending[r.id] = r.sock}
Rejections(how) ==
    LET listed == InOrder(Listed)
    IN [i \in DOMAIN listed |-> Settles(listed[i], how, 0)]
RejectPending(how) ==
    /\ requests' = requests \ Listed
    /\ pending' = <<>>
    /\ jobs' = Rejections(how)

WithoutId(id) == [i \in DOMAIN pending \ {id} |-> pending[i]]

(* A page that refreshes again ignores the answer to its earlier refresh.  *)
Superseded(r, p) ==
    IF p.what = "refresh" /\ r.for.what = "refresh" /\ r.for.sub = p.sub
    THEN [r EXCEPT !.for.latest = FALSE] ELSE r

(* sendRequest: number and send it, or reject it at once.                  *)
SendRequest(p, authenticated, rest) ==
    IF Online /\ authenticated
    THEN LET r == [sock |-> socket, id |-> nextId, for |-> p]
         IN /\ requests' = {Superseded(q, p) : q \in requests} \cup {r}
            /\ pending' = [i \in DOMAIN pending \cup {nextId} |-> IF i = nextId THEN socket ELSE pending[i]]
            /\ nextId' = nextId + 1
            /\ inbox' = inbox \cup {r}
            /\ jobs' = [i \in DOMAIN rest |-> Superseded(rest[i], p)]
    ELSE /\ jobs' = Append(rest, Settles([sock |-> socket, for |-> p], "offline", 0))
         /\ UNCHANGED <<wire, inbox>>

----------------------------------------------------------------------------
(* Opening and closing. *)

(* close(): the browser fails a socket that is still connecting, and takes *)
(* no message from one that was open.                                      *)
Closed(ss, s) ==
    IF s = 0 \/ ss[s].ready \notin {"connecting", "open"} THEN ss
    ELSE [ss EXCEPT ![s].ready = IF @ = "open" THEN "closing" ELSE "aborting"]
Open(ss) == {s \in Socket : ss[s].ready = "open"}
Hangup == \* the server ends what it does for a connection that is gone
    IF Open(sockets') = Open(sockets) THEN UNCHANGED session
    ELSE inbox' = {} /\ answers' = {} /\ outbox' = <<>> /\ topics' = {}

Gone == [ready |-> "closed", initial |-> FALSE, authed |-> FALSE]

(* openSocket after the old socket was dealt with (ss).  The number of a   *)
(* socket is used again once it is closed and nothing that was asked on it *)
(* is still to be settled or heard of.                                     *)
Unused(ss, s) ==
    /\ ss[s] = Gone
    /\ ~\E r \in requests' : r.sock = s
    /\ ~\E i \in DOMAIN jobs' : jobs'[i].sock = s
OpenSocket(ss, initial) ==
    /\ \E s \in Socket :
         /\ Unused(ss, s) /\ \A t \in 1 .. s - 1 : ~Unused(ss, t)
         /\ sockets' = [ss EXCEPT ![s] = [ready |-> "connecting", initial |-> initial, authed |-> FALSE]]
         /\ generation' = s /\ socket' = s
    /\ state' = IF initial THEN "opening" ELSE "reconnecting"
    /\ nextId' = 1
    /\ overtaken' = {} /\ joined' = {} /\ cut' = 0

(* Creating the WebSocket throws: no socket has the generation's handlers, *)
(* and this.socket, closed (ss), is as good as none.                       *)
CannotOpen(ss) ==
    /\ faults < MaxFault /\ faults' = faults + 1
    /\ sockets' = ss /\ generation' = 0 /\ socket' = 0
    /\ UNCHANGED <<nextId, history>>

(* disconnect: every subscription is dropped. *)
Fresh(t) == [topic |-> t, restoring |-> FALSE, buffered |-> {}, view |-> {}, failed |-> FALSE]

Disconnected ==
    /\ map' = {} /\ subs' = [o \in DOMAIN subs |-> Fresh(subs[o].topic)]
    /\ timer' = FALSE
    /\ RejectPending("closed")

(* connect: disconnect, then open; new WebSocket may throw. *)
Connect(token) ==
    /\ jobs = <<>>
    /\ logins < MaxLogin /\ logins' = logins + 1
    /\ Disconnected
    /\ \/ /\ OpenSocket(Closed(sockets, socket), TRUE)
          /\ credential' = token /\ intentional' = FALSE
          /\ UNCHANGED faults
       \/ /\ CannotOpen(Closed(sockets, socket))
          /\ credential' = "none" /\ intentional' = FALSE /\ state' = "failed"
    /\ Hangup
    /\ UNCHANGED <<known, happened>>

(* The page is hidden for good: dispose. *)
Dispose ==
    /\ jobs = <<>> /\ state # "offline"
    /\ Disconnected
    /\ sockets' = Closed(sockets, socket) /\ generation' = 0 /\ socket' = 0
    /\ credential' = "none" /\ intentional' = TRUE /\ state' = "offline" /\ known' = FALSE
    /\ Hangup
    /\ UNCHANGED <<nextId, happened, logins, faults, history>>

(* The retry button, shown while the page's data is stale: the requests of *)
(* the old socket stay in the table.                                       *)
Retry ==
    /\ jobs = <<>>
    /\ logins < MaxLogin /\ logins' = logins + 1
    /\ known /\ state # "authenticated" /\ credential # "none"
    /\ UNCHANGED <<requests, jobs>>
    /\ \/ OpenSocket(Closed(sockets, socket), FALSE) /\ timer' = FALSE /\ UNCHANGED faults
       \/ CannotOpen(Closed(sockets, socket)) /\ timer' = TRUE /\ state' = "reconnecting"
    /\ intentional' = FALSE
    /\ Hangup
    /\ UNCHANGED <<credential, known, pending, table, happened>>

TimerFires ==
    /\ jobs = <<>> /\ timer
    /\ UNCHANGED <<requests, jobs>>
    /\ \/ OpenSocket(sockets, FALSE) /\ timer' = FALSE /\ UNCHANGED faults
       \/ CannotOpen(sockets) /\ timer' = ~intentional /\ state' = "reconnecting"
    /\ UNCHANGED <<login, pending, table, session, happened, logins>>

(* onopen: authenticate with the token held now. *)
Opens(s) ==
    /\ jobs = <<>> /\ sockets[s].ready = "connecting"
    /\ \A t \in 1 .. s : sockets[t].ready # "aborting" \* the browser reports those first
    /\ sockets' = [sockets EXCEPT ![s].ready = "open"]
    /\ LET r == [sock |-> s, id |-> nextId, for |-> [what |-> "authenticate", token |-> credential]]
       IN /\ requests' = requests \cup {r} /\ inbox' = inbox \cup {r}
          /\ pending' = [i \in DOMAIN pending \cup {nextId} |-> IF i = nextId THEN s ELSE pending[i]]
    /\ nextId' = nextId + 1
    /\ UNCHANGED <<state, timer, generation, socket, login, jobs, table, answers, outbox, topics, happened, logins, faults, history>>

GiveUp ==
    /\ intentional' = TRUE /\ credential' = "none" /\ state' = "failed"

(* onclose of socket s, after onerror gave up (dead) or without it. *)
OnClose(s, dead) ==
    /\ sockets' = [sockets EXCEPT ![s] = Gone]
    /\ Hangup
    /\ IF s # generation
       THEN IF dead THEN GiveUp /\ UNCHANGED <<timer, pending, requests, jobs>>
                    ELSE UNCHANGED <<state, timer, credential, intentional, pending, requests, jobs>>
       ELSE /\ RejectPending("closed")
            /\ IF dead \/ (~sockets[s].authed /\ sockets[s].initial)
               THEN GiveUp /\ UNCHANGED timer
               ELSE /\ IF intentional THEN UNCHANGED <<state, timer>>
                                      ELSE state' = "reconnecting" /\ timer' = TRUE
                    /\ UNCHANGED <<credential, intentional>>
    /\ UNCHANGED <<generation, socket, known, nextId, table, happened, logins, overtaken, joined>>

(* mutant: onerror gives up on any attempt *)
FailsForGood(s) ==
    /\ jobs = <<>>
    /\ \/ sockets[s].ready = "aborting" /\ UNCHANGED faults
       \/ sockets[s].ready = "connecting" /\ faults < MaxFault /\ faults' = faults + 1
    /\ OnClose(s, TRUE) /\ UNCHANGED cut

(* The handshake fails: onerror, which asks for no generation, and onclose. *)
Fails(s) ==
    /\ jobs = <<>>
    /\ \/ sockets[s].ready = "aborting" /\ UNCHANGED faults
       \/ sockets[s].ready = "connecting" /\ faults < MaxFault /\ faults' = faults + 1
    /\ OnClose(s, sockets[s].initial) /\ UNCHANGED cut

(* The closing handshake ends. *)
Closes(s) ==
    /\ jobs = <<>> /\ sockets[s].ready = "closing"
    /\ OnClose(s, FALSE) /\ UNCHANGED <<faults, cut>>

(* The connection is lost. *)
Drops(s) ==
    /\ jobs = <<>> /\ sockets[s].ready = "open" /\ faults < MaxFault
    /\ OnClose(s, FALSE) /\ faults' = faults + 1
    /\ cut' = IF sockets[s].authed \/ sockets[s].initial THEN cut ELSE s

----------------------------------------------------------------------------
(* Responses and notifications. *)

(* mutant: notifications that come before the refresh are dropped *)
NotifiedIfShown(o, n) == IF subs[o].restoring THEN subs[o] ELSE [subs[o] EXCEPT !.view = @ \cup {n}]

(* One notification, for the subscription of its topic: shown, or held     *)
(* back while that is restoring.  Notifications of events that are left    *)
(* out may have filled the buffer: then the connection starts afresh.      *)
Notified(o, n) == IF subs[o].restoring THEN [subs[o] EXCEPT !.buffered = @ \cup {n}]
                                       ELSE [subs[o] EXCEPT !.view = @ \cup {n}]

(* handleMessage: an answer nobody waits for is dropped. *)
Receive(s) ==
    /\ jobs = <<>> /\ sockets[s].ready = "open" /\ outbox # <<>>
    /\ LET m == Head(outbox)
       IN \/ /\ m.kind = "answer" /\ m.id \in DOMAIN pending
             /\ LET r == CHOOSE q \in requests : q.id = m.id /\ q.sock = pending[m.id]
                IN /\ requests' = requests \ {r} /\ pending' = WithoutId(m.id)
                   /\ jobs' = <<Settles(r, m.how, m.shows)>>
             /\ UNCHANGED <<subs, sockets, faults>>
          \/ /\ m.kind = "answer" /\ m.id \notin DOMAIN pending
             /\ UNCHANGED <<requests, pending, jobs, subs, sockets, faults>>
          \/ /\ m.kind = "event"
             /\ LET to == {e.sub : e \in {f \in map : subs[f.sub].topic = m.topic}}
                IN \/ /\ subs' = [o \in DOMAIN subs |-> IF o \in to THEN Notified(o, m.n) ELSE subs[o]]
                      /\ UNCHANGED <<sockets, faults>>
                   \/ /\ \E o \in to : subs[o].restoring
                      /\ faults < MaxFault /\ faults' = faults + 1
                      /\ sockets' = Closed(sockets, socket)
                      /\ UNCHANGED subs
             /\ UNCHANGED <<requests, pending, jobs>>
    /\ IF Open(sockets') = Open(sockets) THEN outbox' = Tail(outbox) /\ UNCHANGED <<inbox, answers, topics>>
                                        ELSE Hangup
    /\ UNCHANGED <<login, state, timer, generation, socket, nextId, map, happened, logins, history>>

(* A message that cannot be read: every request fails, the socket closes. *)
Malformed(s) ==
    /\ jobs = <<>> /\ sockets[s].ready = "open" /\ faults < MaxFault
    /\ faults' = faults + 1
    /\ RejectPending("malformed")
    /\ sockets' = Closed(sockets, socket)
    /\ Hangup
    /\ UNCHANGED <<login, state, timer, generation, socket, nextId, table, happened, logins, history>>

(* No answer can reach the request any more. *)
Hopeless(r) ==
    \/ sockets[r.sock].ready # "open"
    \/ r \notin Listed

(* mutant: the timer forgets to reject the promise *)
TimesOutSilently(r) ==
    /\ jobs = <<>> /\ r \in requests
    /\ \/ Hopeless(r) /\ UNCHANGED faults
       \/ ~Hopeless(r) /\ faults < MaxFault /\ faults' = faults + 1
    /\ requests' = requests \ {r} /\ pending' = WithoutId(r.id)
    /\ UNCHANGED <<login, link, nextId, jobs, table, session, happened, logins, history>>

(* The timer of a request deletes whatever the table has at its number.    *)
TimesOut(r) ==
    /\ jobs = <<>> /\ r \in requests
    /\ \/ Hopeless(r) /\ UNCHANGED faults
       \/ ~Hopeless(r) /\ faults < MaxFault /\ faults' = faults + 1
    /\ requests' = requests \ {r} /\ pending' = WithoutId(r.id)
    /\ jobs' = <<Settles(r, "timeout", 0)>>
    /\ UNCHANGED <<login, link, nextId, table, session, happened, logins, history>>

----------------------------------------------------------------------------
(* Continuations. *)

Job  == Head(jobs)
Rest == Tail(jobs)
Next_(s, pos) == [sock |-> s, for |-> [what |-> "next", pos |-> pos]]

Runs(what) == jobs # <<>> /\ Job.for.what = what

AuthenticationFails(s) == \* the catch of onopen
    /\ jobs' = Rest
    /\ IF s # generation THEN UNCHANGED <<state, credential, intentional, sockets>>
       ELSE GiveUp /\ sockets' = Closed(sockets, s)
    /\ Hangup
    /\ UNCHANGED <<known, timer, generation, socket, wire, table>>

Authenticates ==
    /\ Runs("authenticate")
    /\ IF Job.how = "ok" THEN /\ SendRequest([what |-> "capabilities"], TRUE, Rest)
                              /\ UNCHANGED <<login, link, table, answers, outbox, topics>>
                         ELSE AuthenticationFails(Job.sock)
    /\ UNCHANGED <<happened, logins, faults, history>>

(* The login is complete: restoreSubscriptions starts, the store notes the *)
(* methods (an automatic reconnection keeps the old ones).                 *)
Capabilities ==
    /\ Runs("capabilities")
    /\ IF Job.how # "ok" THEN AuthenticationFails(Job.sock)
       ELSE IF Job.sock # generation
            THEN jobs' = Rest /\ UNCHANGED <<login, link, wire, table, session>>
            ELSE /\ sockets' = [sockets EXCEPT ![Job.sock].authed = TRUE]
                 /\ state' = "authenticated"
                 /\ known' = (known \/ sockets[Job.sock].initial)
                 /\ jobs' = Append(Rest, Next_(Job.sock, 0))
                 /\ UNCHANGED <<credential, intentional, timer, generation, socket, wire, table, session>>
    /\ UNCHANGED <<happened, logins, faults, history>>

Ask(what, o, loop, pos, rest) ==
    SendRequest([what |-> what, sub |-> o, loop |-> loop, pos |-> pos, latest |-> TRUE],
                state = "authenticated", rest)

(* restoreSubscriptions: the next entry the iterator has not passed.       *)
RestoreNext ==
    /\ Runs("next")
    /\ LET later == {e \in map : e.pos > Job.for.pos}
           e == CHOOSE f \in later : \A g \in later : f.pos <= g.pos
       IN IF later = {} THEN jobs' = Rest /\ UNCHANGED <<subs, wire, inbox>>
          ELSE /\ subs' = [subs EXCEPT ![e.sub].restoring = TRUE, ![e.sub].buffered = {}]
               /\ Ask("subscribe", e.sub, Job.sock, e.pos, Rest)
    /\ UNCHANGED <<login, link, map, answers, outbox, topics, happened, logins, faults, history>>

Return == IF Job.for.loop = 0 THEN Rest ELSE Append(Rest, Next_(Job.for.loop, Job.for.pos))

Subscribed ==
    /\ Runs("subscribe")
    /\ LET o == Job.for.sub
       IN \/ /\ Job.how = "ok" /\ Current(o)
             /\ Ask("refresh", o, Job.for.loop, Job.for.pos, Rest)
             /\ UNCHANGED <<subs, sockets, answers, outbox, topics>>
          \/ /\ Job.how = "ok" /\ ~Current(o) \* replaced or removed meanwhile
             /\ jobs' = Return
             /\ UNCHANGED <<wire, sockets, subs, session>>
          \/ /\ Job.how # "ok" \* the connection is closed and made again
             /\ subs' = [subs EXCEPT ![o].restoring = FALSE]
             /\ sockets' = Closed(sockets, IF Job.for.loop = 0 THEN socket ELSE Job.for.loop)
             /\ jobs' = Rest /\ Hangup
             /\ UNCHANGED wire
    /\ UNCHANGED <<login, state, timer, generation, socket, map, happened, logins, faults, history>>

(* The page has its snapshot, or shows an error: release what was buffered. *)
Refreshed ==
    /\ Runs("refresh")
    /\ LET o == Job.for.sub
           loaded == IF ~Job.for.latest THEN subs[o]
                     ELSE IF Job.how = "ok" THEN [subs[o] EXCEPT !.view = 1 .. Job.shows, !.failed = FALSE]
                     ELSE [subs[o] EXCEPT !.failed = TRUE]
       IN subs' = IF ~Current(o) THEN subs
                  ELSE [subs EXCEPT ![o] = [loaded EXCEPT !.restoring = FALSE, !.buffered = {},
                                                          !.view = @ \cup subs[o].buffered]]
    /\ jobs' = Return
    /\ UNCHANGED <<login, link, wire, map, session, happened, logins, faults, history>>

Unsubscribed == \* nobody looks at the answer
    /\ Runs("unsubscribe") /\ jobs' = Rest
    /\ UNCHANGED <<login, link, wire, table, session, happened, logins, faults, history>>

----------------------------------------------------------------------------
(* Pages. *)

(* A page subscribes once there was a login; what it replaces is forgotten. *)
Subscribe(t) ==
    /\ jobs = <<>> /\ Len(subs) < MaxSub /\ known
    /\ LET o == Len(subs) + 1
           old == {e \in map : subs[e.sub].topic = t}
           authenticated == state = "authenticated"
       IN /\ map' = (map \ old) \cup {[sub |-> o, pos |-> IF old = {} THEN o ELSE (CHOOSE e \in old : TRUE).pos]}
          /\ subs' = Append([p \in DOMAIN subs |-> IF \E e \in old : e.sub = p THEN Fresh(t) ELSE subs[p]],
                            [Fresh(t) EXCEPT !.restoring = authenticated])
          /\ IF authenticated
             THEN Ask("subscribe", o, 0, 0, <<>>)
             ELSE UNCHANGED <<wire, jobs, inbox>>
          /\ joined' = IF \E r \in requests : r.for.what \in {"subscribe", "refresh"} /\ r.for.loop # 0
                       THEN joined \cup {o} ELSE joined
    /\ UNCHANGED <<login, link, answers, outbox, topics, happened, logins, faults, overtaken, cut>>

(* mutant: the server is not told *)
UnsubscribeLocally(o) ==
    /\ jobs = <<>> /\ Current(o)
    /\ map' = {e \in map : e.sub # o}
    /\ subs' = [subs EXCEPT ![o] = Fresh(@.topic)]
    /\ UNCHANGED <<login, link, wire, jobs, session, happened, logins, faults, history>>

(* The function subscribe returned: a subscription that was replaced is left. *)
Unsubscribe(o) ==
    /\ jobs = <<>> /\ Current(o)
    /\ map' = {e \in map : e.sub # o}
    /\ subs' = [subs EXCEPT ![o] = Fresh(@.topic)]
    /\ IF state = "authenticated" THEN SendRequest([what |-> "unsubscribe", sub |-> o], TRUE, <<>>)
                                  ELSE UNCHANGED <<wire, jobs, inbox>>
    /\ UNCHANGED <<login, link, answers, outbox, topics, happened, logins, faults, history>>

----------------------------------------------------------------------------
(* The server. *)

About(r) == IF r.for.what \in {"authenticate", "capabilities"} THEN {} ELSE {TopicOf(r.for)}

(* A worker acts on a request and reads what it answers ... *)
Serve(r) ==
    /\ jobs = <<>>
    /\ inbox' = inbox \ {r}
    /\ overtaken' = IF \E q \in inbox : About(q) = About(r) /\ q.id < r.id
                    THEN overtaken \cup About(r) ELSE overtaken
    /\ LET how == IF r.for.what = "authenticate" /\ r.for.token # "right" THEN "refused" ELSE "ok"
           shows == IF r.for.what = "refresh" THEN happened[TopicOf(r.for)] ELSE 0
       IN answers' = answers \cup {[kind |-> "answer", id |-> r.id, how |-> how, shows |-> shows]}
    /\ topics' = CASE r.for.what = "subscribe" -> topics \cup About(r)
                   [] r.for.what = "unsubscribe" -> topics \ About(r)
                   [] OTHER -> topics
    /\ UNCHANGED <<login, link, wire, jobs, table, outbox, happened, logins, faults, joined, cut>>

(* ... and queues its answer, perhaps behind events that came meanwhile.  *)
Reply(m) ==
    /\ jobs = <<>>
    /\ answers' = answers \ {m} /\ outbox' = Append(outbox, m)
    /\ UNCHANGED <<login, link, wire, jobs, table, inbox, topics, happened, logins, faults, history>>

(* An event is stored and published to the connections subscribed to it.  *)
Happens(t) ==
    /\ jobs = <<>> /\ happened[t] < MaxEvent
    /\ happened' = [happened EXCEPT ![t] = @ + 1]
    /\ outbox' = IF t \in topics THEN Append(outbox, [kind |-> "event", topic |-> t, n |-> happened'[t]]) ELSE outbox
    /\ UNCHANGED <<login, link, wire, jobs, table, inbox, answers, topics, logins, faults, history>>

----------------------------------------------------------------------------
Init ==
    /\ state = "offline" /\ credential = "none" /\ intentional = TRUE /\ known = FALSE
    /\ timer = FALSE /\ generation = 0 /\ socket = 0 /\ sockets = [s \in Socket |-> Gone]
    /\ nextId = 1 /\ pending = <<>> /\ requests = {} /\ jobs = <<>>
    /\ subs = <<>> /\ map = {}
    /\ inbox = {} /\ answers = {} /\ outbox = <<>> /\ topics = {}
    /\ happened = [t \in Topic |-> 0] /\ logins = 0 /\ faults = 0
    /\ overtaken = {} /\ joined = {} /\ cut = 0

User ==
    \/ \E token \in Tokens : Connect(token)
    \/ Dispose \/ Retry
    \/ \E t \in Topic : Subscribe(t)
    \/ \E o \in 1 .. Len(subs) : Unsubscribe(o)

Microtask ==
    \/ Authenticates \/ Capabilities \/ RestoreNext
    \/ Subscribed \/ Refreshed \/ Unsubscribed

Network ==
    \E s \in Socket :
      Opens(s) \/ Fails(s) \/ Closes(s) \/ Drops(s) \/ Receive(s) \/ Malformed(s)

Next ==
    \/ User \/ Microtask \/ Network \/ TimerFires
    \/ \E r \in requests : TimesOut(r)
    \/ \E r \in inbox : Serve(r)
    \/ \E m \in answers : Reply(m)
    \/ \E t \in Topic : Happens(t)

(* The browser runs its tasks, the network delivers or fails, the server   *)
(* serves what reached it; users, faults and events need not happen.       *)
Fairness ==
    /\ WF_vars(Microtask) /\ WF_vars(TimerFires)
    /\ \A s \in Socket : WF_vars(Opens(s) \/ Fails(s) \/ Closes(s) \/ Receive(s))
    /\ WF_vars(\E r \in inbox : Serve(r)) /\ WF_vars(\E m \in answers : Reply(m))
    /\ WF_vars(\E r \in requests : Hopeless(r) /\ TimesOut(r))

Spec == Init /\ [][Next]_vars /\ Fairness

----------------------------------------------------------------------------
(* Once nothing is under way on a connection, every page that is           *)
(* subscribed shows all that has happened on its topic, or an error.       *)
(* Until the next connection two kinds of page are excepted: one that      *)
(* subscribed while restoreSubscriptions was awaiting another's answer,    *)
(* which the iteration of the Map reaches and restores a second time       *)
(* (client.ts:272), and those about whose topic one of the server's eight  *)
(* workers carried out a request before an earlier one (Server.hs:328).    *)
Quiet ==
    /\ state = "authenticated" /\ Online /\ jobs = <<>>
    /\ requests = {} /\ inbox = {} /\ answers = {} /\ outbox = <<>>
ViewsAreComplete ==
    Quiet => \A e \in map :
      \/ e.sub \in joined \/ subs[e.sub].topic \in overtaken
      \/ subs[e.sub].failed \/ subs[e.sub].view = 1 .. happened[subs[e.sub].topic]

(* and the server streams to the connection what the pages subscribe to,   *)
(* topics about which a worker was overtaken excepted.                     *)
StreamsAreSubscribed ==
    Quiet => \A t \in Topic \ overtaken : t \in topics <=> \E e \in map : subs[e.sub].topic = t

(* A token the server accepts is not forgotten because a connection was    *)
(* lost: once logged in, only a refusal, a timeout or a bad message ends   *)
(* what the user did not end. Two losses are excepted, which do forget it: *)
(* that of a reconnection while it authenticates, whose rejected promise   *)
(* gives up (client.ts:172), and that of a login's socket that connect()   *)
(* closed while it was opening, whose onerror asks for no generation and   *)
(* forgets whichever token is kept by then (client.ts:176).                *)
LossKeepsTheToken ==
    [][credential = "right" /\ credential' = "none"
         /\ generation' = generation /\ generation # 0 /\ ~sockets[generation].initial
         /\ ~(\E s \in Socket : sockets[s].initial /\ sockets[s].ready = "aborting")
         /\ cut = 0
       => jobs # <<>> /\ Job.how # "closed"]_vars

(* A lost connection comes back, or the console says that it gave up.      *)
Reconnects == state = "reconnecting" ~> state # "reconnecting"
=============================================================================
