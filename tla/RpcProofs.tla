----------------------------- MODULE RpcProofs -----------------------------
(***************************************************************************)
(* The console's RPC client, for any topics, tokens, sockets, logins,      *)
(* subscriptions, events and faults.                                       *)
(*                                                                         *)
(* The proof has four parts.  RpcInv says that one socket is alive and     *)
(* that numbers are unambiguous, in the client's table as in what the      *)
(* server has got: numbers begin anew with each socket, the table is one   *)
(* for all of them.  TokenFits adds what a login that failed may still do. *)
(* StreamsFit follows the orders the server was given about a topic and    *)
(* has not carried out; ViewsFit follows each page from its order over its *)
(* snapshot to rest, and accounts for every event on the way: shown, held  *)
(* back, or still carried.                                                 *)
(***************************************************************************)
EXTENDS RpcClient, FiniteSetTheorems, SequenceTheorems, WellFoundedInduction, TLAPS

Paged(p)     == p.what \in {"subscribe", "refresh", "unsubscribe"}
Busy(p)      == p.what \in {"subscribe", "refresh"}
Proving(p)   == p.what \in {"authenticate", "capabilities"}
Authed       == generation # 0 /\ sockets[generation].authed
Stage(ready) == generation # 0 /\ sockets[generation].ready \in ready

How     == {"ok", "refused", "closed", "offline", "malformed", "timeout"}
Request == [sock : Socket, id : Nat \ {0}, for : Purpose]
Result  == [sock : {0} \cup Socket, for : Purpose, how : How, shows : Nat]
Loop    == [sock : {0} \cup Socket, for : [what : {"next"}, pos : {0} \cup Sub]]
Answer  == [kind : {"answer"}, id : Nat \ {0}, how : {"ok", "refused"}, shows : Nat]
Event   == [kind : {"event"}, topic : Topic, n : Nat]
Page    == [topic : Topic, restoring : BOOLEAN, buffered : SUBSET Nat, view : SUBSET Nat, failed : BOOLEAN]

LinkTyped ==
    /\ state \in State /\ credential \in Token /\ intentional \in BOOLEAN /\ timer \in BOOLEAN /\ known \in BOOLEAN
    /\ generation \in {0} \cup Socket /\ socket = generation
    /\ sockets \in [Socket -> [ready : Ready, initial : BOOLEAN, authed : BOOLEAN]]
WireTyped ==
    /\ nextId \in Nat \ {0} /\ pending \in [DOMAIN pending -> Socket]
    /\ requests \subseteq Request /\ IsFiniteSet(requests)
JobsTyped == jobs \in Seq(Result \cup Loop)
TableTyped ==
    /\ subs \in Seq(Page) /\ Len(subs) <= MaxSub
    /\ map \subseteq [sub : DOMAIN subs, pos : DOMAIN subs]
    /\ happened \in [Topic -> Nat] /\ logins \in Nat /\ faults \in Nat
SessionTyped ==
    /\ inbox \subseteq Request /\ answers \subseteq Answer
    /\ outbox \in Seq(Answer \cup Event) /\ topics \subseteq Topic
TypeOK == LinkTyped /\ WireTyped /\ JobsTyped /\ TableTyped /\ SessionTyped

MapFits == \A e, f \in map : e # f => e.sub # f.sub /\ e.pos # f.pos /\ subs[e.sub].topic # subs[f.sub].topic

(* Only the newest socket is alive, and its stage goes with what the       *)
(* console shows, the timer and the token it keeps.                        *)
SocketsFit ==
    /\ \A s \in Socket : Live(s) => s = generation
    /\ timer => generation = 0 \/ Stage({"closed"})
    /\ intentional => credential = "none"
    /\ state = "authenticated" => credential = "none" \/ Authed
    /\ state = "authenticated" /\ Stage({"connecting", "open"}) => Authed
    /\ Stage({"connecting"}) => nextId = 1 /\ ~Authed
    /\ Authed => nextId >= 3

(* A number and a socket name one request, and what the table knows by a   *)
(* number that was given out on this socket belongs to this socket.        *)
NumbersFit ==
    /\ \A r, q \in requests : r.sock = q.sock /\ r.id = q.id => r = q
    /\ \A r \in requests : r.sock = generation => r.id < nextId
    /\ \A i \in DOMAIN pending : /\ \E r \in requests : r.id = i /\ r.sock = pending[i]
                                 /\ i < nextId => generation \in {0, pending[i]}

(* The server knows this connection's numbers only.                        *)
ServerFits ==
    /\ ~Online => inbox = {} /\ answers = {} /\ outbox = <<>> /\ topics = {}
    /\ \A q \in inbox : q.sock = generation /\ q.id < nextId
    /\ \A p, q \in inbox : p.id = q.id => p = q
    /\ \A q \in inbox, r \in requests :
         r.sock = generation /\ q.id = r.id =>
           q.for.what = r.for.what /\ (Paged(r.for) => q.for.sub = r.for.sub)
    /\ \A m \in answers : m.id < nextId /\ \A q \in inbox : q.id # m.id
    /\ \A i \in DOMAIN outbox : outbox[i].kind = "answer" =>
         outbox[i].id < nextId /\ \A q \in inbox : q.id # outbox[i].id

(* What pages ask for is asked on a connection that was accepted, and is   *)
(* in the table.                                                           *)
PagesFit ==
    \A r \in requests : Paged(r.for) =>
      /\ r.for.sub \in DOMAIN subs
      /\ r.sock = generation /\ Authed /\ Stage({"open", "closing"})
      /\ r.id >= 3 /\ r.id \in DOMAIN pending /\ pending[r.id] = generation
      /\ state = "authenticated" \/ credential = "none"

(* A login asks two things, one after the other, and first of all.         *)
LoginsFit ==
    \A r \in requests : Proving(r.for) =>
      /\ r.id = IF r.for.what = "authenticate" THEN 1 ELSE 2
      /\ r.sock = generation => ~Authed /\ Stage({"open", "closing", "closed"}) /\ nextId = r.id + 1

StreamFits ==
    /\ \A q \in inbox : Paged(q.for) => Authed /\ q.for.sub \in DOMAIN subs
    /\ topics # {} => Authed
    /\ \A i \in DOMAIN outbox : outbox[i].kind = "event" => Authed

(* On an open connection one continuation runs at a time.                  *)
JobsFit ==
    /\ Online => Len(jobs) <= 1
    /\ \A i \in DOMAIN jobs : Paged(jobs[i].for) => jobs[i].for.sub \in DOMAIN subs
    /\ \A i \in DOMAIN jobs : jobs[i].for.what # "next" /\ jobs[i].how = "ok" =>
         /\ jobs[i].sock = generation /\ Online
         /\ Proving(jobs[i].for) =>
              /\ ~Authed /\ nextId = (IF jobs[i].for.what = "authenticate" THEN 2 ELSE 3)
              /\ ~\E r \in requests : Proving(r.for) /\ r.sock = generation

RpcInv ==
    /\ LinkTyped /\ WireTyped /\ JobsTyped /\ TableTyped /\ SessionTyped
    /\ MapFits /\ SocketsFit /\ NumbersFit /\ ServerFits /\ PagesFit /\ LoginsFit /\ StreamFits /\ JobsFit

-----------------------------------------------------------------------------
(* What the records are. *)

(* Which fields the purpose of a request has: the login's two, or what a   *)
(* page asks.                                                              *)
LEMMA PurposeFields ==
    ASSUME NEW p \in Purpose
    PROVE  /\ Proving(p) \/ Paged(p)
           /\ ~(Proving(p) /\ Paged(p)) /\ p.what # "next"
           /\ Paged(p) => p.sub \in Sub
           /\ Busy(p) => p.loop \in {0} \cup Socket /\ p.pos \in {0} \cup Sub /\ p.latest \in BOOLEAN
  BY DEF Purpose, Proving, Paged, Busy

(* A continuation is of a settled request, or the next turn of the loop in *)
(* restoreSubscriptions.                                                   *)
LEMMA ResultFields ==
    ASSUME NEW j \in Result \cup Loop
    PROVE  /\ j.sock \in {0} \cup Socket
           /\ j.for.what # "next" => j \in Result
           /\ j.for.what = "next" => j \in Loop
  <1>1. ASSUME j \in Result PROVE j.for.what # "next" /\ j.sock \in {0} \cup Socket
    BY <1>1, PurposeFields DEF Result
  <1>2. ASSUME j \in Loop PROVE j.for.what = "next" /\ j.sock \in {0} \cup Socket
    BY <1>2 DEF Loop
  <1> QED
    BY <1>1, <1>2

(* What the client asks for is a purpose.                                  *)
LEMMA PurposesAsked ==
    /\ [what |-> "capabilities"] \in Purpose
    /\ \A token \in Token : [what |-> "authenticate", token |-> token] \in Purpose
    /\ \A o \in Sub : [what |-> "unsubscribe", sub |-> o] \in Purpose
    /\ \A what \in {"subscribe", "refresh"}, o \in Sub, loop \in {0} \cup Socket, pos \in {0} \cup Sub :
         [what |-> what, sub |-> o, loop |-> loop, pos |-> pos, latest |-> TRUE] \in Purpose
  BY DEF Purpose

(* A request that is superseded is the same but for that. *)
LEMMA SupersededFits ==
    ASSUME NEW r \in Request, NEW p \in Purpose
    PROVE  /\ Superseded(r, p) \in Request
           /\ Superseded(r, p).sock = r.sock /\ Superseded(r, p).id = r.id
           /\ Superseded(r, p).for.what = r.for.what
           /\ Paged(r.for) => Superseded(r, p).for.sub = r.for.sub
           /\ Busy(r.for) => Superseded(r, p).for.loop = r.for.loop /\ Superseded(r, p).for.pos = r.for.pos
           /\ ~(p.what = "refresh" /\ r.for.what = "refresh" /\ r.for.sub = p.sub) => Superseded(r, p) = r
  <1>1. CASE ~(p.what = "refresh" /\ r.for.what = "refresh" /\ r.for.sub = p.sub)
    BY <1>1 DEF Superseded
  <1>2. CASE p.what = "refresh" /\ r.for.what = "refresh" /\ r.for.sub = p.sub
    <2> DEFINE f == [r.for EXCEPT !.latest = FALSE]
    <2>1. r.for \in [what : {"subscribe", "refresh"}, sub : Sub, loop : {0} \cup Socket, pos : {0} \cup Sub, latest : BOOLEAN]
      BY <1>2 DEF Request, Purpose
    <2>2. /\ f \in [what : {"subscribe", "refresh"}, sub : Sub, loop : {0} \cup Socket, pos : {0} \cup Sub, latest : BOOLEAN]
          /\ f.what = r.for.what /\ f.sub = r.for.sub /\ f.loop = r.for.loop /\ f.pos = r.for.pos
      BY <2>1
    <2>3. f \in Purpose
      BY <2>2 DEF Purpose
    <2> HIDE DEF f
    <2>4. Superseded(r, p) = [r EXCEPT !.for = f]
      BY <1>2 DEF Superseded, f
    <2>5. /\ Superseded(r, p) \in Request /\ Superseded(r, p).for = f
          /\ Superseded(r, p).sock = r.sock /\ Superseded(r, p).id = r.id
      BY <2>3, <2>4 DEF Request
    <2> QED
      BY <1>2, <2>2, <2>5 DEF Paged, Busy
  <1> QED
    BY <1>1, <1>2

(* As many places as there are requests each have one of them. *)
LEMMA InOrderFits ==
    ASSUME NEW rs, IsFiniteSet(rs), \A r \in rs : r.id \in Nat,
           \A r, q \in rs : r.id = q.id => r = q
    PROVE  InOrder(rs) \in Seq(rs)
  <1> DEFINE P(r) == {q \in rs : q.id < r.id}
             c    == Cardinality(rs)
             rank == [r \in rs |-> Cardinality(P(r)) + 1]
  <1>1. c \in Nat
    BY FS_CardinalityType
  <1>2. ASSUME NEW r \in rs PROVE IsFiniteSet(P(r)) /\ Cardinality(P(r)) \in Nat
    BY FS_Subset, FS_CardinalityType
  <1>3. ASSUME NEW r \in rs PROVE Cardinality(P(r)) + 1 \in 1 .. c
    <2>1. P(r) \subseteq rs \ {r}
      OBVIOUS
    <2>2. IsFiniteSet(rs \ {r}) /\ Cardinality(rs \ {r}) = c - 1
      BY FS_RemoveElement
    <2>3. Cardinality(P(r)) <= c - 1
      BY <2>1, <2>2, FS_Subset
    <2> HIDE DEF P
    <2> QED
      BY <1>1, <1>2, <2>3
  <1>4. ASSUME NEW r \in rs, NEW q \in rs, r.id < q.id PROVE Cardinality(P(r)) < Cardinality(P(q))
    <2>1. P(r) \cup {r} \subseteq P(q) /\ r \notin P(r)
      <3>1. r \in P(q) /\ r \notin P(r)
        BY <1>4
      <3>2. ASSUME NEW x \in P(r) PROVE x \in P(q)
        BY <1>4
      <3> HIDE DEF P
      <3> QED
        BY <3>1, <3>2
    <2>2. /\ IsFiniteSet(P(r) \cup {r})
          /\ Cardinality(P(r) \cup {r}) = Cardinality(P(r)) + 1
      BY <1>2, <2>1, FS_AddElement
    <2>3. Cardinality(P(r) \cup {r}) <= Cardinality(P(q))
      BY <1>2, <2>1, FS_Subset
    <2> HIDE DEF P
    <2> QED
      BY <1>2, <2>2, <2>3
  <1>5. rank \in Injection(rs, 1 .. c)
    <2>1. rank \in [rs -> 1 .. c]
      BY <1>3
    <2>2. ASSUME NEW r \in rs, NEW q \in rs, rank[r] = rank[q] PROVE r = q
      <3>1. r.id < q.id \/ q.id < r.id \/ r = q
        OBVIOUS
      <3>2. Cardinality(P(r)) \in Nat /\ Cardinality(P(q)) \in Nat
        BY <1>2
      <3>3. Cardinality(P(r)) + 1 = Cardinality(P(q)) + 1
        BY <2>2
      <3> HIDE DEF P
      <3> QED
        BY <1>4, <3>1, <3>2, <3>3
    <2> QED
      BY <2>1, <2>2 DEF Injection, IsInjective
  <1>6. rank \in Surjection(rs, 1 .. c)
    <2>1. IsFiniteSet(1 .. c) /\ Cardinality(1 .. c) = c
      BY <1>1, FS_Interval
    <2> HIDE DEF rank
    <2> QED
      BY <1>5, <2>1, FS_Injection
  <1>7. \A k \in 1 .. c : \E r \in rs : rank[r] = k
    BY <1>6 DEF Surjection
  <1>8. \A r \in rs : rank[r] = Cardinality(P(r)) + 1 /\ Cardinality(P(r)) \in Nat
    BY <1>2
  <1> HIDE DEF rank
  <1>9. ASSUME NEW k \in 1 .. c PROVE (CHOOSE r \in rs : Cardinality({q \in rs : q.id < r.id}) = k - 1) \in rs
    <2>1. PICK r \in rs : rank[r] = k
      BY <1>7
    <2>2. Cardinality(P(r)) = k - 1
      <3> HIDE DEF P
      <3> QED
        BY <1>8, <2>1
    <2> QED
      BY <2>2
  <1> DEFINE Of(k) == CHOOSE r \in rs : Cardinality({q \in rs : q.id < r.id}) = k - 1
  <1>10. InOrder(rs) = [k \in 1 .. c |-> Of(k)]
    BY DEF InOrder
  <1>11. \A k \in 1 .. c : Of(k) \in rs
    BY <1>9
  <1> HIDE DEF Of, c
  <1> QED
    BY ONLY <1>1, <1>10, <1>11

(* rejectPending leaves no page's request, and what it settles has failed. *)
LEMMA Rejected ==
    ASSUME RpcInv, NEW how \in How, RejectPending(how)
    PROVE  /\ requests' \subseteq requests /\ IsFiniteSet(requests')
           /\ \A r \in requests' : ~Paged(r.for)
           /\ DOMAIN pending' = {} /\ pending' \in [DOMAIN pending' -> Socket]
           /\ jobs' \in Seq(Result \cup Loop)
           /\ \A i \in DOMAIN jobs' : \E r \in Listed : jobs'[i] = Settles(r, how, 0)
           /\ \A i \in DOMAIN jobs' :
                /\ jobs'[i] \in Result /\ jobs'[i].how = how
                /\ Paged(jobs'[i].for) => jobs'[i].for.sub \in DOMAIN subs
  <1>1. requests \subseteq Request /\ IsFiniteSet(requests)
    BY DEF RpcInv, WireTyped
  <1>2. Listed \subseteq requests /\ \A r \in Listed : r \in Request /\ pending[r.id] = r.sock
    BY <1>1 DEF Listed
  <1>3. InOrder(Listed) \in Seq(Listed)
    <2>1. IsFiniteSet(Listed)
      BY <1>1, <1>2, FS_Subset
    <2>2. \A r \in Listed : r.id \in Nat
      BY <1>2 DEF Request
    <2>3. \A r, q \in Listed : r.id = q.id => r = q
      BY <1>2 DEF RpcInv, NumbersFit
    <2> QED
      BY ONLY <2>1, <2>2, <2>3, InOrderFits
  <1>4. requests' \subseteq requests /\ IsFiniteSet(requests')
    <2>1. requests' = requests \ Listed
      BY DEF RejectPending
    <2> QED
      BY <1>1, <2>1, FS_Subset
  <1>5. \A r \in requests' : ~Paged(r.for)
    <2> SUFFICES ASSUME NEW r \in requests, r \notin Listed, Paged(r.for) PROVE FALSE
      BY DEF RejectPending
    <2> QED
      BY DEF RpcInv, PagesFit, Listed
  <1>6. DOMAIN pending' = {} /\ pending' \in [DOMAIN pending' -> Socket]
    <2>1. pending' = <<>>
      BY DEF RejectPending
    <2> QED
      BY <2>1
  <1>7. DOMAIN jobs' = DOMAIN InOrder(Listed) /\ \A i \in DOMAIN jobs' : jobs'[i] = Settles(InOrder(Listed)[i], how, 0)
    BY DEF RejectPending, Rejections
  <1>8. \A i \in DOMAIN jobs' : InOrder(Listed)[i] \in Listed
    BY <1>3, <1>7, ElementOfSeq
  <1>9. ASSUME NEW r \in Listed
        PROVE  /\ Settles(r, how, 0) \in Result /\ Settles(r, how, 0).how = how
               /\ Paged(Settles(r, how, 0).for) => Settles(r, how, 0).for.sub \in DOMAIN subs
    <2>1. r \in Request /\ r \in requests
      BY <1>2
    <2>2. Settles(r, how, 0) = [sock |-> r.sock, for |-> r.for, how |-> how, shows |-> 0]
      BY DEF Settles
    <2>3. r.sock \in Socket /\ r.for \in Purpose
      BY <2>1 DEF Request
    <2>4. Paged(r.for) => r.for.sub \in DOMAIN subs
      BY <2>1 DEF RpcInv, PagesFit
    <2> QED
      BY <2>2, <2>3, <2>4 DEF Result
  <1>10. jobs' \in Seq(Result \cup Loop)
    <2>1. jobs' = [i \in DOMAIN InOrder(Listed) |-> Settles(InOrder(Listed)[i], how, 0)]
      BY DEF RejectPending, Rejections
    <2>2. \A i \in DOMAIN InOrder(Listed) : Settles(InOrder(Listed)[i], how, 0) \in Result \cup Loop
      BY <1>7, <1>8, <1>9
    <2>3. Len(InOrder(Listed)) \in Nat /\ DOMAIN InOrder(Listed) = 1 .. Len(InOrder(Listed))
      BY <1>3
    <2> HIDE DEF InOrder
    <2> QED
      BY <2>1, <2>2, <2>3
  <1> QED
    BY <1>4, <1>5, <1>6, <1>7, <1>8, <1>9, <1>10

(* The server forgets a connection that is no longer open. *)
LEMMA HungUp ==
    ASSUME RpcInv, Hangup, sockets' \in [Socket -> [ready : Ready, initial : BOOLEAN, authed : BOOLEAN]]
    PROVE  /\ SessionTyped'
           /\ Open(sockets') = Open(sockets) => UNCHANGED session
           /\ (\A s \in Socket : sockets'[s].ready # "open") =>
                inbox' = {} /\ answers' = {} /\ outbox' = <<>> /\ topics' = {}
  <1>1. Open(sockets) = {} => ~Online
    BY DEF Open, Online, RpcInv, LinkTyped
  <1>2. CASE Open(sockets') = Open(sockets)
    <2>1. UNCHANGED session
      BY <1>2 DEF Hangup
    <2>2. (\A s \in Socket : sockets'[s].ready # "open") => Open(sockets) = {}
      BY <1>2 DEF Open
    <2> QED
      BY <1>1, <2>1, <2>2 DEF RpcInv, ServerFits, SessionTyped, session
  <1>3. CASE Open(sockets') # Open(sockets)
    <2>1. inbox' = {} /\ answers' = {} /\ outbox' = <<>> /\ topics' = {}
      BY <1>3 DEF Hangup
    <2> QED
      BY <1>3, <2>1 DEF SessionTyped
  <1> QED
    BY <1>2, <1>3

(* At most one socket is open, the one of the client's generation.         *)
LEMMA OnlyNewestIsOpen ==
    ASSUME RpcInv
    PROVE  /\ Online => generation \in Socket /\ Open(sockets) = {generation}
           /\ ~Online => Open(sockets) = {}
           /\ \A s \in Open(sockets) : s = generation /\ Online
  <1>1. generation \in {0} \cup Socket /\ socket = generation /\ 0 \notin Socket
    BY DEF RpcInv, LinkTyped, Socket
  <1>2. ASSUME NEW s \in Open(sockets) PROVE s = generation /\ Online
    <2>1. s \in Socket /\ sockets[s].ready = "open"
      BY DEF Open
    <2>2. s = generation
      BY <2>1 DEF RpcInv, SocketsFit, Live
    <2> QED
      BY <1>1, <2>1, <2>2 DEF Online
  <1>3. Online => generation \in Socket /\ generation \in Open(sockets)
    BY <1>1 DEF Online, Open
  <1> QED
    BY <1>2, <1>3

(* close() changes the stage of one socket and nothing else of it.         *)
LEMMA ClosedFits ==
    ASSUME NEW ss \in [Socket -> [ready : Ready, initial : BOOLEAN, authed : BOOLEAN]], NEW s \in {0} \cup Socket
    PROVE  /\ Closed(ss, s) \in [Socket -> [ready : Ready, initial : BOOLEAN, authed : BOOLEAN]]
           /\ \A u \in Socket : /\ u # s => Closed(ss, s)[u] = ss[u]
                                /\ Closed(ss, s)[u].initial = ss[u].initial
                                /\ Closed(ss, s)[u].authed = ss[u].authed
           /\ s # 0 => Closed(ss, s)[s].ready = CASE ss[s].ready = "open" -> "closing"
                                                   [] ss[s].ready = "connecting" -> "aborting"
                                                   [] OTHER -> ss[s].ready
  <1>1. CASE s = 0 \/ ss[s].ready \notin {"connecting", "open"}
    BY <1>1 DEF Closed
  <1>2. CASE s # 0 /\ ss[s].ready \in {"connecting", "open"}
    <2>1. Closed(ss, s) = [ss EXCEPT ![s] = [ss[s] EXCEPT !.ready = IF ss[s].ready = "open" THEN "closing" ELSE "aborting"]]
      BY <1>2 DEF Closed
    <2>2. ss[s] \in [ready : Ready, initial : BOOLEAN, authed : BOOLEAN]
      BY <1>2
    <2> DEFINE w == [ss[s] EXCEPT !.ready = IF ss[s].ready = "open" THEN "closing" ELSE "aborting"]
    <2>3. /\ w \in [ready : Ready, initial : BOOLEAN, authed : BOOLEAN]
          /\ w.initial = ss[s].initial /\ w.authed = ss[s].authed
          /\ w.ready = IF ss[s].ready = "open" THEN "closing" ELSE "aborting"
      BY <2>2 DEF Ready
    <2> HIDE DEF w
    <2>4. Closed(ss, s) = [ss EXCEPT ![s] = w]
      BY <2>1 DEF w
    <2> QED
      BY <1>2, <2>3, <2>4
  <1> QED
    BY <1>1, <1>2

(* A new socket, of which nothing is asked or settled yet. *)
LEMMA Opened ==
    ASSUME RpcInv, NEW initial \in BOOLEAN,
           NEW ss \in [Socket -> [ready : Ready, initial : BOOLEAN, authed : BOOLEAN]],
           \A s \in Socket : ss[s].ready \notin {"connecting", "open"},
           OpenSocket(ss, initial), timer' = FALSE, intentional' \in BOOLEAN,
           intentional' => credential' = "none", credential' \in Token, known' \in BOOLEAN,
           requests' \subseteq requests, IsFiniteSet(requests'), \A r \in requests' : ~Paged(r.for),
           pending' \in [DOMAIN pending' -> Socket],
           \A i \in DOMAIN pending' : \E r \in requests' : r.id = i /\ r.sock = pending'[i],
           \A i \in DOMAIN pending' : i \in Nat \ {0},
           \A i \in DOMAIN jobs' : Paged(jobs'[i].for) => jobs'[i].for.sub \in DOMAIN subs',
           \A i \in DOMAIN jobs' : jobs'[i].for.what # "next" => jobs'[i].how # "ok",
           (Open(sockets') = Open(sockets) /\ UNCHANGED session) \/ Hangup
    PROVE  /\ LinkTyped' /\ WireTyped' /\ SessionTyped' /\ SocketsFit' /\ NumbersFit'
           /\ ServerFits' /\ PagesFit' /\ LoginsFit' /\ StreamFits' /\ JobsFit'
           /\ generation' \in Socket /\ sockets'[generation'] = [ready |-> "connecting", initial |-> initial, authed |-> FALSE]
           /\ state' \in {"opening", "reconnecting"}
           /\ \A r \in requests' : r.sock # generation'
           /\ \A i \in DOMAIN jobs' : jobs'[i].sock # generation'
           /\ inbox' = {} /\ answers' = {} /\ outbox' = <<>> /\ topics' = {}
  <1>1. PICK s \in Socket :
           /\ Unused(ss, s)
           /\ sockets' = [ss EXCEPT ![s] = [ready |-> "connecting", initial |-> initial, authed |-> FALSE]]
           /\ generation' = s /\ socket' = s
    BY DEF OpenSocket
  <1>2. /\ state' \in {"opening", "reconnecting"} /\ nextId' = 1
    BY DEF OpenSocket
  <1>3. /\ \A r \in requests' : r.sock # s
        /\ \A i \in DOMAIN jobs' : jobs'[i].sock # s
    BY <1>1 DEF Unused
  <1>4. s # 0 /\ generation' \in Socket
    BY <1>1 DEF Socket
  <1>5. /\ sockets' \in [Socket -> [ready : Ready, initial : BOOLEAN, authed : BOOLEAN]]
        /\ sockets'[s] = [ready |-> "connecting", initial |-> initial, authed |-> FALSE]
        /\ \A u \in Socket : u # s => sockets'[u].ready \notin {"connecting", "open"}
    BY <1>1 DEF Ready
  <1>6. \A u \in Socket : sockets'[u].ready # "open"
    BY <1>5
  <1>7. inbox' = {} /\ answers' = {} /\ outbox' = <<>> /\ topics' = {}
    <2>1. CASE Open(sockets') = Open(sockets) /\ UNCHANGED session
      BY <1>6, <2>1, OnlyNewestIsOpen DEF Open, RpcInv, ServerFits, session
    <2>2. CASE Hangup
      BY <1>5, <1>6, <2>2, HungUp
    <2> QED
      BY <2>1, <2>2
  <1>8. LinkTyped'
    BY <1>1, <1>2, <1>5, <1>4 DEF LinkTyped, State
  <1>9. WireTyped'
    BY <1>2 DEF WireTyped, RpcInv
  <1>10. ~Online'
    BY <1>1, <1>5 DEF Online
  <1>11. SocketsFit'
    BY <1>1, <1>2, <1>4, <1>5 DEF SocketsFit, Live, Stage, Authed
  <1>12. NumbersFit'
    <2>1. \A r, q \in requests' : r.sock = q.sock /\ r.id = q.id => r = q
      BY DEF RpcInv, NumbersFit
    <2>2. \A i \in DOMAIN pending' : ~(i < nextId')
      BY <1>2
    <2> QED
      BY <1>1, <1>3, <2>1, <2>2 DEF NumbersFit
  <1>13. ServerFits' /\ SessionTyped' /\ StreamFits'
    BY <1>7, <1>10 DEF ServerFits, SessionTyped, StreamFits
  <1>14. PagesFit'
    BY DEF PagesFit
  <1>15. LoginsFit'
    BY <1>1, <1>3 DEF LoginsFit, RpcInv
  <1>16. JobsFit'
    BY <1>10 DEF JobsFit
  <1> QED
    BY <1>1, <1>2, <1>3, <1>5, <1>7, <1>8, <1>9, <1>11, <1>12, <1>13, <1>14, <1>15, <1>16

(* A socket that is closed for good, with all that was asked rejected. *)
LEMMA Ended ==
    ASSUME RpcInv, LinkTyped', Hangup, NEW how \in How \ {"ok"}, RejectPending(how), nextId' = nextId,
           \A s \in Socket : sockets'[s].ready \notin {"connecting", "open"},
           timer' => generation' = 0 \/ Stage({"closed"})', intentional' => credential' = "none",
           state' = "authenticated" => credential' = "none" \/ Authed', Authed' => Authed,
           generation' \in {0, generation}, DOMAIN subs' = DOMAIN subs,
           \/ generation' = generation /\ Stage({"closing", "closed"})' /\ ~Stage({"connecting", "aborting"})
           \/ generation' = 0
           \/ generation' = generation /\ Stage({"connecting", "aborting"}) /\ Stage({"closed"})'
    PROVE  /\ WireTyped' /\ JobsTyped' /\ SessionTyped' /\ SocketsFit' /\ NumbersFit'
           /\ ServerFits' /\ PagesFit' /\ LoginsFit' /\ StreamFits' /\ JobsFit'
           /\ ~Online'
           /\ inbox' = {} /\ answers' = {} /\ outbox' = <<>> /\ topics' = {}
  <1>1. /\ requests' \subseteq requests /\ IsFiniteSet(requests')
        /\ \A r \in requests' : ~Paged(r.for)
        /\ DOMAIN pending' = {} /\ pending' \in [DOMAIN pending' -> Socket]
        /\ jobs' \in Seq(Result \cup Loop)
        /\ \A i \in DOMAIN jobs' :
             /\ jobs'[i] \in Result /\ jobs'[i].how = how
             /\ Paged(jobs'[i].for) => jobs'[i].for.sub \in DOMAIN subs
    BY Rejected
  <1>2. generation' \in {0} \cup Socket /\ socket' = generation' /\ 0 \notin Socket
        /\ sockets' \in [Socket -> [ready : Ready, initial : BOOLEAN, authed : BOOLEAN]]
    BY DEF LinkTyped, Socket
  <1>3. inbox' = {} /\ answers' = {} /\ outbox' = <<>> /\ topics' = {}
    BY <1>2, HungUp
  <1>4. ~Online' /\ ~Stage({"connecting", "open"})' /\ ~Stage({"connecting"})'
    BY <1>2 DEF Online, Stage
  <1>5. WireTyped' /\ JobsTyped'
    BY <1>1 DEF WireTyped, JobsTyped, RpcInv
  <1>6. SocketsFit'
    <2>1. Authed' => nextId' >= 3
      BY DEF RpcInv, SocketsFit
    <2>2. \A s \in Socket : ~Live(s)'
      BY DEF Live
    <2> QED
      BY <1>4, <2>1, <2>2 DEF SocketsFit
  <1>7. NumbersFit'
    <2>1. \A r, q \in requests' : r.sock = q.sock /\ r.id = q.id => r = q
      BY <1>1 DEF RpcInv, NumbersFit
    <2>2. \A r \in requests' : r.sock = generation' => r.id < nextId'
      <3>1. \A r \in requests' : r.sock \in Socket
        BY <1>1 DEF RpcInv, WireTyped, Request
      <3> QED
        BY <1>1, <1>2, <3>1 DEF RpcInv, NumbersFit
    <2> QED
      BY <1>1, <2>1, <2>2 DEF NumbersFit
  <1>8. ServerFits' /\ SessionTyped' /\ StreamFits'
    BY <1>3, <1>4 DEF ServerFits, SessionTyped, StreamFits
  <1>9. PagesFit'
    BY <1>1 DEF PagesFit
  <1>10. LoginsFit'
    <2> SUFFICES ASSUME NEW r \in requests', Proving(r.for)
                 PROVE  /\ r.id = IF r.for.what = "authenticate" THEN 1 ELSE 2
                        /\ r.sock = generation' => ~Authed' /\ Stage({"open", "closing", "closed"})' /\ nextId' = r.id + 1
      BY DEF LoginsFit
    <2>1. /\ r \in requests /\ r.sock \in Socket
          /\ r.id = IF r.for.what = "authenticate" THEN 1 ELSE 2
          /\ r.sock = generation => ~Authed /\ Stage({"open", "closing", "closed"}) /\ nextId = r.id + 1
      BY <1>1 DEF RpcInv, LoginsFit, WireTyped, Request
    <2>2. ASSUME r.sock = generation' PROVE ~Authed' /\ Stage({"open", "closing", "closed"})' /\ nextId' = r.id + 1
      <3>1. generation' = generation /\ generation # 0
        BY <1>2, <2>1, <2>2
      <3>2. Stage({"closing", "closed"})' \/ Stage({"closed"})'
        BY <1>2, <2>1, <2>2 
      <3> QED
        BY <2>1, <2>2, <3>1, <3>2 DEF Stage
    <2> QED
      BY <2>1, <2>2
  <1>11. JobsFit'
    BY <1>1, <1>4 DEF JobsFit
  <1> QED
    BY <1>3, <1>4, <1>5, <1>6, <1>7, <1>8, <1>9, <1>10, <1>11

(* When the client has closed its socket no other one is connecting or     *)
(* open: openSocket and disconnect give up the old one first.              *)
LEMMA NoneAliveClosed ==
    ASSUME RpcInv
    PROVE  /\ Closed(sockets, socket) \in [Socket -> [ready : Ready, initial : BOOLEAN, authed : BOOLEAN]]
           /\ \A s \in Socket : Closed(sockets, socket)[s].ready \notin {"connecting", "open"}
  <1>1. socket \in {0} \cup Socket /\ sockets \in [Socket -> [ready : Ready, initial : BOOLEAN, authed : BOOLEAN]]
    BY DEF RpcInv, LinkTyped
  <1>2. \A s \in Socket : s # socket => sockets[s].ready \notin {"connecting", "open"}
    BY DEF RpcInv, LinkTyped, SocketsFit, Live
  <1>3. 0 \notin Socket
    BY DEF Socket
  <1>4. ASSUME NEW s \in Socket PROVE Closed(sockets, socket)[s].ready \notin {"connecting", "open"}
    <2>1. CASE s # socket
      BY <1>1, <1>2, <2>1, ClosedFits
    <2>2. CASE s = socket
      <3>1. socket # 0 /\ Closed(sockets, socket)[socket].ready = CASE sockets[socket].ready = "open" -> "closing"
                                                   [] sockets[socket].ready = "connecting" -> "aborting"
                                                   [] OTHER -> sockets[socket].ready
        BY <1>1, <1>3, <2>2, ClosedFits
      <3> QED
        BY <2>2, <3>1
    <2> QED
      BY <2>1, <2>2
  <1> QED
    BY <1>1, <1>4, ClosedFits

(* rejectPending empties the table, so that no number names a request any  *)
(* more.                                                                   *)
LEMMA TableIsCleared ==
    ASSUME RpcInv, Disconnected, happened' = happened, logins' \in Nat, faults' \in Nat
    PROVE  TableTyped' /\ MapFits' /\ DOMAIN subs' = DOMAIN subs /\ map' = {} /\ timer' = FALSE /\ RejectPending("closed")
  <1>1. subs \in Seq(Page) /\ Len(subs) <= MaxSub
    BY DEF RpcInv, TableTyped
  <1>2. \A o \in DOMAIN subs : Fresh(subs[o].topic) \in Page
    <2> SUFFICES ASSUME NEW o \in DOMAIN subs PROVE Fresh(subs[o].topic) \in Page
      OBVIOUS
    <2>1. subs[o] \in Page
      BY <1>1, ElementOfSeq
    <2> QED
      BY <2>1 DEF Fresh, Page
  <1>3. subs' = [o \in DOMAIN subs |-> Fresh(subs[o].topic)] /\ map' = {} /\ timer' = FALSE /\ RejectPending("closed")
    BY DEF Disconnected
  <1>4. DOMAIN subs = 1 .. Len(subs) /\ Len(subs) \in Nat
    BY <1>1
  <1>5. subs' \in Seq(Page) /\ Len(subs') = Len(subs) /\ DOMAIN subs' = DOMAIN subs
    BY <1>2, <1>3, <1>4
  <1> QED
    BY <1>1, <1>3, <1>5 DEF RpcInv, TableTyped, MapFits

(* What the table knows was asked on a socket.                             *)
LEMMA PendingIsAsked ==
    ASSUME RpcInv
    PROVE  /\ \A i \in DOMAIN pending : \E r \in requests : r.id = i /\ r.sock = pending[i]
           /\ \A i \in DOMAIN pending : i \in Nat \ {0}
  BY DEF RpcInv, NumbersFit, WireTyped, Request

(* What Ended says of the parts holds of the whole invariant, when         *)
(* subscriptions and counters are left alone or forgotten.                 *)
LEMMA EndedFully ==
    ASSUME RpcInv, LinkTyped', Hangup, RejectPending("closed"), nextId' = nextId,
           \A s \in Socket : sockets'[s].ready \notin {"connecting", "open"},
           timer' = FALSE, credential' = "none", ~Authed', generation' = 0,
           DOMAIN subs' = DOMAIN subs, TableTyped', MapFits'
    PROVE  RpcInv'
  <1>1. "closed" \in How \ {"ok"}
    BY DEF How
  <1>2. timer' => generation' = 0 \/ Stage({"closed"})'
    OBVIOUS
  <1>3. generation' \in {0, generation}
    OBVIOUS
  <1>4. \/ generation' = generation /\ Stage({"closing", "closed"})' /\ ~Stage({"connecting", "aborting"})
        \/ generation' = 0
        \/ generation' = generation /\ Stage({"connecting", "aborting"}) /\ Stage({"closed"})'
    OBVIOUS
  <1>5. /\ WireTyped' /\ JobsTyped' /\ SessionTyped' /\ SocketsFit' /\ NumbersFit'
        /\ ServerFits' /\ PagesFit' /\ LoginsFit' /\ StreamFits' /\ JobsFit'
    BY <1>1, <1>2, <1>3, <1>4, Ended
  <1> QED
    BY <1>5 DEF RpcInv

(* A login drops what was before: connect disconnects and opens, or fails  *)
(* to construct the socket.                                                *)
LEMMA ConnectKeeps ==
    ASSUME RpcInv, NEW token \in Tokens, Connect(token)
    PROVE  RpcInv'
  <1>1. /\ jobs = <<>> /\ logins' = logins + 1 /\ Disconnected /\ Hangup /\ UNCHANGED <<known, happened>>
        /\ faults' = faults \/ faults' = faults + 1
    BY DEF Connect, CannotOpen
  <1>2. TableTyped' /\ MapFits' /\ DOMAIN subs' = DOMAIN subs /\ timer' = FALSE /\ RejectPending("closed")
    <2>1. logins' \in Nat /\ faults' \in Nat
      BY <1>1 DEF RpcInv, TableTyped
    <2> QED
      BY <1>1, <2>1, TableIsCleared
  <1>3. /\ requests' \subseteq requests /\ IsFiniteSet(requests')
        /\ \A r \in requests' : ~Paged(r.for)
        /\ DOMAIN pending' = {} /\ pending' \in [DOMAIN pending' -> Socket]
        /\ jobs' \in Seq(Result \cup Loop)
        /\ \A i \in DOMAIN jobs' :
             /\ jobs'[i] \in Result /\ jobs'[i].how = "closed"
             /\ Paged(jobs'[i].for) => jobs'[i].for.sub \in DOMAIN subs
    BY <1>2, Rejected DEF How
  <1>4. known' \in BOOLEAN /\ token \in Token
    BY <1>1, RpcAssumption DEF RpcInv, LinkTyped, Token
  <1> DEFINE ss == Closed(sockets, socket)
  <1>5. /\ ss \in [Socket -> [ready : Ready, initial : BOOLEAN, authed : BOOLEAN]]
        /\ \A s \in Socket : ss[s].ready \notin {"connecting", "open"}
    BY NoneAliveClosed
  <1>6. CASE OpenSocket(ss, TRUE) /\ credential' = token /\ intentional' = FALSE
    <2> HIDE DEF ss
    <2> QED
      BY <1>1, <1>2, <1>3, <1>4, <1>5, <1>6, Opened DEF RpcInv, JobsTyped
  <1>7. CASE /\ sockets' = ss /\ generation' = 0 /\ socket' = 0
             /\ credential' = "none" /\ intentional' = FALSE /\ state' = "failed" /\ nextId' = nextId
    <2> HIDE DEF ss
    <2>1. LinkTyped'
      BY <1>2, <1>4, <1>5, <1>7 DEF LinkTyped, State, Token
    <2>2. ~Authed'
      BY <1>7 DEF Authed
    <2> QED
      BY <1>1, <1>2, <1>5, <1>7, <2>1, <2>2, EndedFully
  <1> QED
    BY <1>6, <1>7 DEF Connect, CannotOpen

(* The page that is left for good closes its socket and forgets its        *)
(* subscriptions.                                                          *)
LEMMA DisposeKeeps ==
    ASSUME RpcInv, Dispose
    PROVE  RpcInv'
  <1>1. /\ Disconnected /\ Hangup /\ UNCHANGED <<nextId, happened, logins, faults>>
        /\ sockets' = Closed(sockets, socket) /\ generation' = 0 /\ socket' = 0
        /\ credential' = "none" /\ intentional' = TRUE /\ state' = "offline" /\ known' = FALSE
    BY DEF Dispose
  <1>2. TableTyped' /\ MapFits' /\ DOMAIN subs' = DOMAIN subs /\ timer' = FALSE /\ RejectPending("closed")
    <2>1. logins' \in Nat /\ faults' \in Nat
      BY <1>1 DEF RpcInv, TableTyped
    <2> QED
      BY <1>1, <2>1, TableIsCleared
  <1>3. /\ sockets' \in [Socket -> [ready : Ready, initial : BOOLEAN, authed : BOOLEAN]]
        /\ \A s \in Socket : sockets'[s].ready \notin {"connecting", "open"}
    BY <1>1, NoneAliveClosed
  <1>4. LinkTyped'
    BY <1>1, <1>2, <1>3 DEF LinkTyped, State, Token
  <1>5. ~Authed'
    BY <1>1 DEF Authed
  <1> QED
    BY <1>1, <1>2, <1>3, <1>4, <1>5, EndedFully

(* A socket that replaces another when nothing is rejected. *)
LEMMA ReopenedKeeps ==
    ASSUME RpcInv, NEW ss \in [Socket -> [ready : Ready, initial : BOOLEAN, authed : BOOLEAN]],
           \A s \in Socket : ss[s].ready \notin {"connecting", "open"},
           OpenSocket(ss, FALSE), timer' = FALSE, intentional' \in BOOLEAN, intentional' => credential' = "none",
           UNCHANGED <<credential, known, pending, requests, jobs, table, happened, faults>>, logins' \in Nat,
           jobs = <<>>, \A r \in requests : ~Paged(r.for),
           (Open(sockets') = Open(sockets) /\ UNCHANGED session) \/ Hangup
    PROVE  RpcInv'
  <1>1. /\ credential' \in Token /\ known' \in BOOLEAN
        /\ requests' \subseteq requests /\ IsFiniteSet(requests') /\ \A r \in requests' : ~Paged(r.for)
        /\ pending' \in [DOMAIN pending' -> Socket]
    BY DEF RpcInv, LinkTyped, WireTyped
  <1>2. /\ \A i \in DOMAIN pending' : \E r \in requests' : r.id = i /\ r.sock = pending'[i]
        /\ \A i \in DOMAIN pending' : i \in Nat \ {0}
    BY PendingIsAsked
  <1>3. DOMAIN jobs' = {}
    OBVIOUS
  <1>4. TableTyped' /\ MapFits' /\ JobsTyped'
    BY DEF RpcInv, TableTyped, MapFits, JobsTyped, table
  <1> QED
    BY <1>1, <1>2, <1>3, <1>4, Opened DEF RpcInv

(* The WebSocket cannot be created: what the old one asked stays in the    *)
(* table, and the client has no socket.                                    *)
LEMMA CannotOpenKeeps ==
    ASSUME RpcInv, NEW ss \in [Socket -> [ready : Ready, initial : BOOLEAN, authed : BOOLEAN]],
           \A s \in Socket : ss[s].ready \notin {"connecting", "open"},
           CannotOpen(ss), timer' \in BOOLEAN, state' = "reconnecting",
           intentional' \in BOOLEAN, intentional' => credential' = "none",
           UNCHANGED <<credential, known, pending, requests, jobs, table, happened>>, logins' \in Nat,
           jobs = <<>>, \A r \in requests : ~Paged(r.for),
           (Open(sockets') = Open(sockets) /\ UNCHANGED session) \/ Hangup
    PROVE  RpcInv'
  <1>1. sockets' = ss /\ generation' = 0 /\ socket' = 0 /\ nextId' = nextId /\ faults' = faults + 1
    BY DEF CannotOpen
  <1>2. ~Online' /\ ~Authed' /\ \A ready : ~Stage(ready)'
    BY <1>1 DEF Online, Authed, Stage
  <1>3. 0 \notin Socket /\ \A r \in requests : r.sock \in Socket
    BY DEF Socket, RpcInv, WireTyped, Request
  <1>4. inbox' = {} /\ answers' = {} /\ outbox' = <<>> /\ topics' = {}
    <2>1. CASE Open(sockets') = Open(sockets) /\ UNCHANGED session
      BY <1>1, <2>1, OnlyNewestIsOpen DEF Open, RpcInv, ServerFits, session
    <2>2. CASE Hangup
      BY <1>1, <2>2, HungUp
    <2> QED
      BY <2>1, <2>2
  <1>5. LinkTyped'
    BY <1>1 DEF RpcInv, LinkTyped, State
  <1>6. WireTyped' /\ JobsTyped' /\ TableTyped' /\ MapFits'
    BY <1>1 DEF RpcInv, WireTyped, JobsTyped, TableTyped, MapFits, table
  <1>7. SessionTyped' /\ ServerFits' /\ StreamFits'
    BY <1>2, <1>4 DEF SessionTyped, ServerFits, StreamFits
  <1>8. SocketsFit'
    BY <1>1, <1>2 DEF SocketsFit, Live
  <1>9. NumbersFit'
    BY <1>1, <1>3 DEF RpcInv, NumbersFit
  <1>10. PagesFit' /\ LoginsFit' /\ JobsFit'
    BY <1>1, <1>2, <1>3 DEF RpcInv, PagesFit, LoginsFit, JobsFit
  <1> QED
    BY <1>5, <1>6, <1>7, <1>8, <1>9, <1>10 DEF RpcInv

(* The retry button opens a new socket; requests of the old one stay in    *)
(* the table.                                                              *)
LEMMA RetryKeeps ==
    ASSUME RpcInv, Retry
    PROVE  RpcInv'
  <1> DEFINE ss == Closed(sockets, socket)
  <1>1. /\ ss \in [Socket -> [ready : Ready, initial : BOOLEAN, authed : BOOLEAN]]
        /\ \A s \in Socket : ss[s].ready \notin {"connecting", "open"}
    BY NoneAliveClosed
  <1>2. \A r \in requests : ~Paged(r.for)
    BY DEF RpcInv, PagesFit, Retry
  <1>3. logins' \in Nat
    BY DEF RpcInv, TableTyped, Retry
  <1>4. \/ OpenSocket(ss, FALSE) /\ timer' = FALSE /\ faults' = faults
        \/ CannotOpen(ss) /\ timer' = TRUE /\ state' = "reconnecting"
    BY DEF Retry
  <1>5. /\ UNCHANGED <<credential, known, pending, requests, jobs, table, happened>> /\ jobs = <<>> /\ Hangup
        /\ intentional' = FALSE
    BY DEF Retry
  <1> HIDE DEF ss
  <1>6. CASE OpenSocket(ss, FALSE) /\ timer' = FALSE /\ faults' = faults
    BY <1>1, <1>2, <1>3, <1>5, <1>6, ReopenedKeeps
  <1>7. CASE CannotOpen(ss) /\ timer' = TRUE /\ state' = "reconnecting"
    BY <1>1, <1>2, <1>3, <1>5, <1>7, CannotOpenKeeps
  <1> QED
    BY <1>4, <1>6, <1>7

(* The reconnect timer opens a socket, as the old one is closed by then.   *)
LEMMA TimerKeeps ==
    ASSUME RpcInv, TimerFires
    PROVE  RpcInv'
  <1>1. (generation = 0 \/ Stage({"closed"})) /\ intentional' = intentional
    BY DEF RpcInv, SocketsFit, TimerFires, login
  <1>2. /\ sockets \in [Socket -> [ready : Ready, initial : BOOLEAN, authed : BOOLEAN]]
        /\ \A s \in Socket : sockets[s].ready \notin {"connecting", "open"}
    BY <1>1 DEF RpcInv, SocketsFit, Stage, Live, LinkTyped, Socket
  <1>3. \A r \in requests : ~Paged(r.for)
    BY <1>1 DEF RpcInv, PagesFit, Stage
  <1>4. /\ intentional' \in BOOLEAN /\ (intentional' => credential' = "none")
        /\ logins' \in Nat /\ UNCHANGED <<credential, known>>
    BY DEF RpcInv, SocketsFit, LinkTyped, TableTyped, TimerFires, login
  <1>5. UNCHANGED <<requests, jobs, pending, table, session, happened>> /\ jobs = <<>>
    BY DEF TimerFires
  <1>6. CASE OpenSocket(sockets, FALSE) /\ timer' = FALSE /\ UNCHANGED faults
    <2>1. Open(sockets') = Open(sockets)
      BY <1>2, <1>6 DEF OpenSocket, Open
    <2>2. UNCHANGED <<credential, known, pending, requests, jobs, table, happened, faults>>
      BY <1>4, <1>5, <1>6
    <2> QED
      BY ONLY RpcInv, <1>2, <1>3, <1>4, <1>5, <1>6, <2>1, <2>2, ReopenedKeeps
  <1>7. CASE CannotOpen(sockets) /\ timer' = ~intentional /\ state' = "reconnecting"
    <2>1. Open(sockets') = Open(sockets)
      BY <1>7 DEF CannotOpen
    <2>2. UNCHANGED <<credential, known, pending, requests, jobs, table, happened>> /\ timer' \in BOOLEAN
      BY <1>4, <1>5, <1>7
    <2> QED
      BY ONLY RpcInv, <1>2, <1>3, <1>4, <1>5, <1>7, <2>1, <2>2, CannotOpenKeeps
  <1> QED
    BY <1>6, <1>7 DEF TimerFires

(* onopen sends the first request of a socket.                             *)
LEMMA OpensKeeps ==
    ASSUME RpcInv, NEW s \in Socket, Opens(s)
    PROVE  RpcInv'
  <1> DEFINE r == [sock |-> s, id |-> 1, for |-> [what |-> "authenticate", token |-> credential]]
  <1>1. s = generation /\ s # 0 /\ Stage({"connecting"}) /\ nextId = 1 /\ ~Authed /\ state # "authenticated" /\ ~Online
    <2>1. sockets[s].ready = "connecting" /\ s # 0
      BY DEF Opens, Socket
    <2>2. s = generation
      BY <2>1 DEF RpcInv, SocketsFit, Live
    <2> QED
      BY <2>1, <2>2 DEF RpcInv, SocketsFit, Stage, Online, LinkTyped
  <1>2. /\ jobs = <<>> /\ sockets' = [sockets EXCEPT ![s].ready = "open"] /\ nextId' = 2
        /\ requests' = requests \cup {r} /\ inbox' = inbox \cup {r}
        /\ pending' = [i \in DOMAIN pending \cup {1} |-> IF i = 1 THEN s ELSE pending[i]]
        /\ UNCHANGED <<state, timer, generation, socket, login, jobs, table, answers, outbox, topics, happened, logins, faults>>
    BY <1>1 DEF Opens
  <1>3. /\ r \in Request /\ r.sock = s /\ r.id = 1 /\ r.for.what = "authenticate" /\ Proving(r.for) /\ ~Paged(r.for)
    <2>1. [what |-> "authenticate", token |-> credential] \in Purpose
      BY PurposesAsked DEF RpcInv, LinkTyped
    <2> QED
      BY <2>1 DEF Request, Proving, Paged
  <1> HIDE DEF r
  <1>4. \A q \in requests : q \in Request /\ q.sock # s /\ ~Paged(q.for)
    <2> SUFFICES ASSUME NEW q \in requests PROVE q \in Request /\ q.sock # s /\ ~Paged(q.for)
      OBVIOUS
    <2>1. q \in Request /\ q.id \in Nat \ {0}
      BY DEF RpcInv, WireTyped, Request
    <2>2. q.sock = s => q.id < 1
      BY <1>1 DEF RpcInv, NumbersFit
    <2>3. ~Paged(q.for)
      BY <1>1 DEF RpcInv, PagesFit
    <2> QED
      BY <2>1, <2>2, <2>3
  <1>5. inbox = {} /\ answers = {} /\ outbox = <<>> /\ topics = {}
    BY <1>1 DEF RpcInv, ServerFits
  <1>6. /\ sockets' \in [Socket -> [ready : Ready, initial : BOOLEAN, authed : BOOLEAN]]
        /\ \A u \in Socket : u # s => sockets'[u] = sockets[u]
        /\ sockets'[s].ready = "open" /\ sockets'[s].authed = sockets[s].authed
    BY <1>2 DEF RpcInv, LinkTyped, Ready
  <1>7. LinkTyped' /\ JobsTyped' /\ TableTyped' /\ MapFits'
    BY <1>2, <1>6 DEF RpcInv, LinkTyped, JobsTyped, TableTyped, MapFits, login, table
  <1>8. WireTyped'
    <2>1. IsFiniteSet(requests')
      BY <1>2, FS_AddElement DEF RpcInv, WireTyped
    <2>2. requests' \subseteq Request
      BY <1>2, <1>3, <1>4
    <2>3. pending' \in [DOMAIN pending' -> Socket]
      BY <1>2 DEF RpcInv, WireTyped
    <2> QED
      BY <1>2, <2>1, <2>2, <2>3 DEF WireTyped
  <1>9. SessionTyped' /\ ServerFits' /\ StreamFits'
    <2>1. inbox' = {r} /\ answers' = {} /\ outbox' = <<>> /\ topics' = {}
      BY <1>2, <1>5
    <2>2. SessionTyped'
      BY <1>3, <2>1 DEF SessionTyped
    <2>3. Online'
      BY <1>1, <1>2, <1>6 DEF Online, RpcInv, LinkTyped
    <2>4. \A q \in requests' : q.sock = generation' => q = r
      BY <1>1, <1>2, <1>4
    <2> QED
      BY <1>1, <1>2, <1>3, <2>1, <2>2, <2>3, <2>4 DEF ServerFits, StreamFits
  <1>10. SocketsFit'
    BY <1>1, <1>2, <1>6 DEF RpcInv, SocketsFit, Stage, Authed, Live, login
  <1>11. NumbersFit'
    <2>1. \A q, p \in requests' : q.sock = p.sock /\ q.id = p.id => q = p
      BY <1>2, <1>3, <1>4 DEF RpcInv, NumbersFit
    <2>2. \A q \in requests' : q.sock = generation' => q.id < nextId'
      BY <1>1, <1>2, <1>3, <1>4
    <2>3. \A i \in DOMAIN pending' : /\ \E q \in requests' : q.id = i /\ q.sock = pending'[i]
                                     /\ i < nextId' => pending'[i] = generation'
      <3> SUFFICES ASSUME NEW i \in DOMAIN pending'
                   PROVE  /\ \E q \in requests' : q.id = i /\ q.sock = pending'[i]
                          /\ i < nextId' => pending'[i] = generation'
        OBVIOUS
      <3>1. CASE i = 1
        BY <1>1, <1>2, <1>3, <3>1
      <3>2. CASE i # 1
        <4>1. i \in DOMAIN pending /\ pending'[i] = pending[i]
          BY <1>2, <3>2
        <4>2. i \in Nat \ {0} /\ \E q \in requests : q.id = i /\ q.sock = pending[i]
          BY <4>1, PendingIsAsked
        <4> QED
          BY <1>2, <3>2, <4>1, <4>2
      <3> QED
        BY <3>1, <3>2
    <2> QED
      BY <2>1, <2>2, <2>3 DEF NumbersFit
  <1>12. PagesFit'
    BY <1>2, <1>3, <1>4 DEF PagesFit
  <1>13. LoginsFit'
    <2> SUFFICES ASSUME NEW q \in requests', Proving(q.for)
                 PROVE  /\ q.id = IF q.for.what = "authenticate" THEN 1 ELSE 2
                        /\ q.sock = generation' => ~Authed' /\ Stage({"open", "closing", "closed"})' /\ nextId' = q.id + 1
      BY DEF LoginsFit
    <2>1. CASE q = r
      BY <1>1, <1>2, <1>3, <1>6, <2>1 DEF Authed, Stage
    <2>2. CASE q # r
      BY <1>1, <1>2, <1>4, <2>2 DEF RpcInv, LoginsFit
    <2> QED
      BY <2>1, <2>2
  <1>14. JobsFit'
    BY <1>2 DEF JobsFit
  <1> QED
    BY <1>7, <1>8, <1>9, <1>10, <1>11, <1>12, <1>13, <1>14 DEF RpcInv

(* onclose of the newest socket rejects what is pending and gives up or    *)
(* arms the timer; of an older one it does nothing but close.              *)
LEMMA OnCloseKeeps ==
    ASSUME RpcInv, NEW s \in Socket, NEW dead \in BOOLEAN, jobs = <<>>, OnClose(s, dead), faults' \in Nat
    PROVE  RpcInv'
  <1>1. /\ sockets' = [sockets EXCEPT ![s] = Gone] /\ Hangup
        /\ UNCHANGED <<generation, socket, known, nextId, table, happened, logins>>
    BY DEF OnClose
  <1>2. /\ sockets' \in [Socket -> [ready : Ready, initial : BOOLEAN, authed : BOOLEAN]]
        /\ \A u \in Socket : u # s => sockets'[u] = sockets[u]
        /\ sockets'[s] = Gone
    BY <1>1 DEF RpcInv, LinkTyped, Gone, Ready
  <1>3. TableTyped' /\ MapFits'
    BY <1>1 DEF RpcInv, TableTyped, MapFits, table
  <1>4. CASE s # generation
    <2>1. /\ UNCHANGED <<timer, pending, requests, jobs>>
          /\ \/ GiveUp
             \/ UNCHANGED <<state, credential, intentional>>
      BY <1>4 DEF OnClose
    <2>2. Open(sockets') = Open(sockets)
      <3>1. sockets[s].ready # "open"
        BY <1>4 DEF RpcInv, SocketsFit, Live
      <3> QED
        BY <1>2, <3>1 DEF Open, Gone
    <2>3. UNCHANGED session
      BY <2>2, <1>1 DEF Hangup
    <2>4. LinkTyped'
      BY <1>1, <1>2, <2>1 DEF RpcInv, LinkTyped, GiveUp, State, Token
    <2>5. /\ \A ready : Stage(ready)' <=> Stage(ready)
          /\ Authed' <=> Authed
          /\ Online' <=> Online
      BY <1>1, <1>2, <1>4 DEF Stage, Authed, Online, RpcInv, LinkTyped
    <2>6. SocketsFit'
      <3>1. \A u \in Socket : Live(u)' => u = generation'
        BY <1>1, <1>2, <1>4 DEF Live, RpcInv, SocketsFit, Gone
      <3> QED
        BY <1>1, <2>1, <2>5, <3>1 DEF RpcInv, SocketsFit, GiveUp
    <2>7. WireTyped' /\ JobsTyped' /\ SessionTyped' /\ NumbersFit'
      BY <1>1, <2>1, <2>3 DEF RpcInv, WireTyped, JobsTyped, SessionTyped, NumbersFit, session
    <2>8. ServerFits' /\ StreamFits' /\ JobsFit'
      BY <1>1, <2>1, <2>3, <2>5 DEF RpcInv, ServerFits, StreamFits, JobsFit, session, table
    <2>9. PagesFit'
      BY <1>1, <2>1, <2>5 DEF RpcInv, PagesFit, GiveUp, table
    <2>10. LoginsFit'
      BY <1>1, <2>1, <2>5 DEF RpcInv, LoginsFit
    <2> QED
      BY <1>3, <2>4, <2>6, <2>7, <2>8, <2>9, <2>10 DEF RpcInv
  <1>5. CASE s = generation
    <2>1. /\ RejectPending("closed")
          /\ \/ GiveUp /\ UNCHANGED timer
             \/ intentional /\ UNCHANGED <<state, timer, credential, intentional>>
             \/ ~intentional /\ state' = "reconnecting" /\ timer' = TRUE /\ UNCHANGED <<credential, intentional>>
      BY <1>5 DEF OnClose
    <2>2. s # 0
      BY DEF Socket
    <2>3. /\ Stage({"closed"})' /\ Stage({"closing", "closed"})' /\ ~Authed'
      BY <1>1, <1>2, <1>5, <2>2 DEF Stage, Authed, Gone
    <2>4. LinkTyped'
      BY <1>1, <1>2, <2>1 DEF RpcInv, LinkTyped, GiveUp, State, Token
    <2>5. \A u \in Socket : sockets'[u].ready \notin {"connecting", "open"}
      BY <1>2, <1>5 DEF RpcInv, SocketsFit, Live, Gone
    <2>6. /\ intentional' => credential' = "none"
          /\ state' = "authenticated" => credential' = "none"
      BY <2>1 DEF RpcInv, SocketsFit, GiveUp
    <2>7. DOMAIN subs' = DOMAIN subs /\ generation' \in {0, generation} /\ nextId' = nextId
      BY <1>1 DEF table
    <2>8. \/ generation' = generation /\ Stage({"closing", "closed"})' /\ ~Stage({"connecting", "aborting"})
          \/ generation' = 0
          \/ generation' = generation /\ Stage({"connecting", "aborting"}) /\ Stage({"closed"})'
      BY <1>1, <2>3
    <2>9. "closed" \in How \ {"ok"}
      BY DEF How
    <2>10. /\ WireTyped' /\ JobsTyped' /\ SessionTyped' /\ SocketsFit' /\ NumbersFit'
           /\ ServerFits' /\ PagesFit' /\ LoginsFit' /\ StreamFits' /\ JobsFit'
      BY <1>1, <2>1, <2>3, <2>4, <2>5, <2>6, <2>7, <2>8, <2>9, Ended
    <2> QED
      BY <1>3, <2>4, <2>10 DEF RpcInv
  <1> QED
    BY <1>4, <1>5

(* The three ways a socket ends: the handshake fails, the closing ends,    *)
(* the connection is lost.                                                 *)
LEMMA LossKeeps ==
    ASSUME RpcInv, NEW s \in Socket, Fails(s) \/ Closes(s) \/ Drops(s)
    PROVE  RpcInv'
  <1>1. \E dead \in BOOLEAN : OnClose(s, dead)
    <2>1. sockets[s].initial \in BOOLEAN
      BY DEF RpcInv, LinkTyped
    <2> QED
      BY <2>1 DEF Fails, Closes, Drops
  <1>2. jobs = <<>> /\ (faults' = faults \/ faults' = faults + 1)
    BY DEF Fails, Closes, Drops
  <1>3. faults' \in Nat
    BY <1>2 DEF RpcInv, TableTyped
  <1> QED
    BY <1>1, <1>2, <1>3, OnCloseKeeps

(* A message that cannot be read rejects everything and closes the socket. *)
LEMMA MalformedKeeps ==
    ASSUME RpcInv, NEW s \in Socket, Malformed(s)
    PROVE  RpcInv'
  <1>1. /\ RejectPending("malformed") /\ Hangup /\ sockets' = Closed(sockets, socket) /\ faults' = faults + 1
        /\ UNCHANGED <<login, state, timer, generation, socket, nextId, table, happened, logins>>
        /\ sockets[s].ready = "open"
    BY DEF Malformed
  <1>2. s = generation /\ s # 0 /\ socket = generation /\ Stage({"open"}) /\ ~Stage({"connecting", "aborting"}) /\ ~Stage({"closed"})
    BY <1>1 DEF RpcInv, SocketsFit, Live, LinkTyped, Stage, Socket
  <1>3. /\ sockets' \in [Socket -> [ready : Ready, initial : BOOLEAN, authed : BOOLEAN]]
        /\ \A u \in Socket : sockets'[u].ready \notin {"connecting", "open"}
    BY <1>1, NoneAliveClosed
  <1>4. sockets'[s].ready = "closing" /\ sockets'[s].authed = sockets[s].authed
    BY <1>1, <1>2, ClosedFits DEF RpcInv, LinkTyped
  <1>5. Stage({"closing", "closed"})' /\ (Authed' <=> Authed)
    BY <1>1, <1>2, <1>4 DEF Stage, Authed
  <1>6. LinkTyped' /\ TableTyped' /\ MapFits'
    BY <1>1, <1>3 DEF RpcInv, LinkTyped, TableTyped, MapFits, login, table
  <1>7. /\ ~timer' /\ (intentional' => credential' = "none") /\ (state' = "authenticated" => credential' = "none" \/ Authed')
    BY <1>1, <1>2, <1>5 DEF RpcInv, SocketsFit, login
  <1>8. /\ generation' \in {0, generation} /\ DOMAIN subs' = DOMAIN subs /\ "malformed" \in How \ {"ok"}
        /\ \/ generation' = generation /\ Stage({"closing", "closed"})' /\ ~Stage({"connecting", "aborting"})
           \/ generation' = 0
           \/ generation' = generation /\ Stage({"connecting", "aborting"}) /\ Stage({"closed"})'
    BY <1>1, <1>2, <1>5 DEF How, table
  <1>9. /\ WireTyped' /\ JobsTyped' /\ SessionTyped' /\ SocketsFit' /\ NumbersFit'
        /\ ServerFits' /\ PagesFit' /\ LoginsFit' /\ StreamFits' /\ JobsFit'
    BY <1>1, <1>3, <1>5, <1>6, <1>7, <1>8, Ended
  <1> QED
    BY <1>6, <1>9 DEF RpcInv

(* The server and the events. *)

(* A worker of the server acts on a request and holds its answer.          *)
LEMMA ServeKeeps ==
    ASSUME RpcInv, NEW r \in inbox, Serve(r)
    PROVE  RpcInv'
  <1>1. /\ inbox' = inbox \ {r}
        /\ UNCHANGED <<login, link, wire, jobs, table, outbox, happened, logins, faults>>
        /\ topics' = topics \/ topics' = topics \cup About(r) \/ topics' = topics \ About(r)
    BY DEF Serve
  <1>2. PICK how \in {"ok", "refused"}, shows \in Nat :
           answers' = answers \cup {[kind |-> "answer", id |-> r.id, how |-> how, shows |-> shows]}
    <2> DEFINE how == IF r.for.what = "authenticate" /\ r.for.token # "right" THEN "refused" ELSE "ok"
               shows == IF r.for.what = "refresh" THEN happened[TopicOf(r.for)] ELSE 0
    <2>1. answers' = answers \cup {[kind |-> "answer", id |-> r.id, how |-> how, shows |-> shows]}
      BY DEF Serve
    <2>2. shows \in Nat
      <3>1. CASE r.for.what = "refresh"
        <4>1. r.for.sub \in DOMAIN subs
          BY <3>1 DEF RpcInv, StreamFits, Paged
        <4>2. subs[r.for.sub] \in Page
          BY <4>1, ElementOfSeq DEF RpcInv, TableTyped
        <4>3. TopicOf(r.for) \in Topic
          BY <4>2 DEF TopicOf, Page
        <4> QED
          BY <3>1, <4>3 DEF RpcInv, TableTyped
      <3> QED
        BY <3>1
    <2>3. how \in {"ok", "refused"}
      OBVIOUS
    <2> HIDE DEF how, shows
    <2> QED
      BY <2>1, <2>2, <2>3
  <1>3. r \in Request /\ r.id \in Nat \ {0} /\ r.id < nextId /\ inbox # {}
    BY DEF RpcInv, SessionTyped, Request, ServerFits
  <1>4. Online
    BY <1>3 DEF RpcInv, ServerFits
  <1>5. topics' \subseteq Topic /\ (topics' # {} => Authed)
    <2>1. CASE About(r) = {}
      BY <1>1, <2>1 DEF RpcInv, SessionTyped, StreamFits
    <2>2. CASE About(r) # {}
      <3>1. Paged(r.for)
        <4>1. r.for.what \notin {"authenticate", "capabilities"} /\ r.for \in Purpose
          BY <1>3, <2>2 DEF About, Request
        <4> QED
          BY <4>1, PurposeFields DEF Proving
      <3>2. Authed /\ r.for.sub \in DOMAIN subs
        BY <3>1 DEF RpcInv, StreamFits
      <3>3. subs[r.for.sub] \in Page
        BY <3>2, ElementOfSeq DEF RpcInv, TableTyped
      <3>4. About(r) \subseteq Topic
        BY <3>3 DEF About, TopicOf, Page
      <3> QED
        BY <1>1, <3>2, <3>4 DEF RpcInv, SessionTyped
    <2> QED
      BY <2>1, <2>2
  <1>6. LinkTyped' /\ WireTyped' /\ JobsTyped' /\ TableTyped' /\ MapFits' /\ (Online' <=> Online) /\ (Authed' <=> Authed)
    BY <1>1 DEF RpcInv, LinkTyped, WireTyped, JobsTyped, TableTyped, MapFits, Online, Authed, login, link, wire, table
  <1>7. SocketsFit' /\ NumbersFit' /\ PagesFit' /\ LoginsFit' /\ JobsFit'
    BY <1>1 DEF RpcInv, SocketsFit, NumbersFit, PagesFit, LoginsFit, JobsFit, Live, Stage, Authed, Online, login, link, wire, table
  <1>8. SessionTyped'
    <2>1. answers' \subseteq Answer
      BY <1>2, <1>3 DEF RpcInv, SessionTyped, Answer
    <2> QED
      BY <1>1, <1>5, <2>1 DEF RpcInv, SessionTyped
  <1>9. ServerFits'
    <2>1. \A q \in inbox' : q \in inbox /\ q.id # r.id
      BY <1>1 DEF RpcInv, ServerFits
    <2>2. \A a \in answers' : a \in answers \/ a.id = r.id
      BY <1>2
    <2>3. \A a \in answers' : a.id < nextId' /\ \A q \in inbox' : q.id # a.id
      BY <1>1, <1>3, <2>1, <2>2 DEF RpcInv, ServerFits, wire
    <2> QED
      BY <1>1, <1>4, <1>6, <2>1, <2>3 DEF RpcInv, ServerFits, wire, link
  <1>10. StreamFits'
    BY <1>1, <1>5, <1>6 DEF RpcInv, StreamFits, table
  <1> QED
    BY <1>6, <1>7, <1>8, <1>9, <1>10 DEF RpcInv

(* The answer is queued behind what is there.                              *)
LEMMA ReplyKeeps ==
    ASSUME RpcInv, NEW m \in answers, Reply(m)
    PROVE  RpcInv'
  <1>1. /\ answers' = answers \ {m} /\ outbox' = Append(outbox, m)
        /\ UNCHANGED <<login, link, wire, jobs, table, inbox, topics, happened, logins, faults>>
    BY DEF Reply
  <1>2. m \in Answer /\ m.kind = "answer"
    BY DEF RpcInv, SessionTyped, Answer
  <1>3. outbox \in Seq(Answer \cup Event) /\ Len(outbox) \in Nat
    BY DEF RpcInv, SessionTyped
  <1>4. /\ outbox' \in Seq(Answer \cup Event)
        /\ \A i \in DOMAIN outbox' : (i \in DOMAIN outbox /\ outbox'[i] = outbox[i]) \/ outbox'[i] = m
    BY <1>1, <1>2, <1>3
  <1>5. LinkTyped' /\ WireTyped' /\ JobsTyped' /\ TableTyped' /\ MapFits' /\ (Online' <=> Online) /\ (Authed' <=> Authed)
    BY <1>1 DEF RpcInv, LinkTyped, WireTyped, JobsTyped, TableTyped, MapFits, Online, Authed, login, link, wire, table
  <1>6. SocketsFit' /\ NumbersFit' /\ PagesFit' /\ LoginsFit' /\ JobsFit'
    BY <1>1 DEF RpcInv, SocketsFit, NumbersFit, PagesFit, LoginsFit, JobsFit, Live, Stage, Authed, Online, login, link, wire, table
  <1>7. SessionTyped'
    BY <1>1, <1>4 DEF RpcInv, SessionTyped
  <1>8. Online
    BY DEF RpcInv, ServerFits
  <1>9. ServerFits'
    <2>1. \A i \in DOMAIN outbox' : outbox'[i].kind = "answer" =>
             outbox'[i].id < nextId' /\ \A q \in inbox' : q.id # outbox'[i].id
      BY <1>1, <1>4 DEF RpcInv, ServerFits, wire
    <2> QED
      BY <1>1, <1>5, <1>8, <2>1 DEF RpcInv, ServerFits, wire, link
  <1>10. StreamFits'
    BY <1>1, <1>2, <1>4, <1>5 DEF RpcInv, StreamFits, table
  <1> QED
    BY <1>5, <1>6, <1>7, <1>9, <1>10 DEF RpcInv

(* An event is queued only for a connection that is subscribed to its      *)
(* topic.                                                                  *)
LEMMA HappensKeeps ==
    ASSUME RpcInv, NEW t \in Topic, Happens(t)
    PROVE  RpcInv'
  <1> DEFINE n == happened'[t]
             e == [kind |-> "event", topic |-> t, n |-> n]
  <1>1. /\ happened' = [happened EXCEPT ![t] = @ + 1]
        /\ outbox' = IF t \in topics THEN Append(outbox, e) ELSE outbox
        /\ UNCHANGED <<login, link, wire, jobs, table, inbox, answers, topics, logins, faults>>
    BY DEF Happens
  <1>2. happened' \in [Topic -> Nat]
    BY <1>1 DEF RpcInv, TableTyped
  <1>3. e \in Event /\ e.kind = "event"
    BY <1>2 DEF Event
  <1> HIDE DEF e
  <1>4. outbox \in Seq(Answer \cup Event) /\ Len(outbox) \in Nat
    BY DEF RpcInv, SessionTyped
  <1>5. /\ outbox' \in Seq(Answer \cup Event)
        /\ \A i \in DOMAIN outbox' : (i \in DOMAIN outbox /\ outbox'[i] = outbox[i]) \/ (outbox'[i] = e /\ t \in topics)
    BY <1>1, <1>3, <1>4
  <1>6. LinkTyped' /\ WireTyped' /\ JobsTyped' /\ MapFits' /\ (Online' <=> Online) /\ (Authed' <=> Authed)
    BY <1>1 DEF RpcInv, LinkTyped, WireTyped, JobsTyped, MapFits, Online, Authed, login, link, wire, table
  <1>7. TableTyped'
    BY <1>1, <1>2 DEF RpcInv, TableTyped, table
  <1>8. SocketsFit' /\ NumbersFit' /\ PagesFit' /\ LoginsFit' /\ JobsFit'
    BY <1>1 DEF RpcInv, SocketsFit, NumbersFit, PagesFit, LoginsFit, JobsFit, Live, Stage, Authed, Online, login, link, wire, table
  <1>9. SessionTyped'
    BY <1>1, <1>5 DEF RpcInv, SessionTyped
  <1>10. ServerFits'
    <2>1. \A i \in DOMAIN outbox' : outbox'[i].kind = "answer" =>
             outbox'[i].id < nextId' /\ \A q \in inbox' : q.id # outbox'[i].id
      BY <1>1, <1>3, <1>5 DEF RpcInv, ServerFits, wire
    <2>2. ~Online => outbox' = outbox
      BY <1>1 DEF RpcInv, ServerFits
    <2> QED
      BY <1>1, <1>6, <2>1, <2>2 DEF RpcInv, ServerFits, wire, link
  <1>11. StreamFits'
    BY <1>1, <1>5, <1>6 DEF RpcInv, StreamFits, table
  <1> QED
    BY <1>6, <1>7, <1>8, <1>9, <1>10, <1>11 DEF RpcInv

(* A request that is settled leaves the others as they were. *)
LEMMA SettledFits ==
    ASSUME RpcInv, NEW r \in requests, requests' = requests \ {r}, pending' = WithoutId(r.id),
           UNCHANGED <<state, credential, generation, sockets, nextId>>, DOMAIN subs' = DOMAIN subs
    PROVE  WireTyped' /\ NumbersFit' /\ PagesFit' /\ LoginsFit'
  <1>1. WireTyped'
    <2>1. IsFiniteSet(requests')
      BY FS_RemoveElement DEF RpcInv, WireTyped
    <2> QED
      BY <2>1 DEF RpcInv, WireTyped, WithoutId
  <1>2. NumbersFit'
    <2>1. \A q, p \in requests' : q.sock = p.sock /\ q.id = p.id => q = p
      BY DEF RpcInv, NumbersFit
    <2>2. \A q \in requests' : q.sock = generation' => q.id < nextId'
      BY DEF RpcInv, NumbersFit
    <2>3. ASSUME NEW i \in DOMAIN pending'
          PROVE  /\ \E q \in requests' : q.id = i /\ q.sock = pending'[i]
                 /\ i < nextId' => generation' \in {0, pending'[i]}
      <3>1. i \in DOMAIN pending /\ i # r.id /\ pending'[i] = pending[i]
        BY DEF WithoutId
      <3>2. PICK q \in requests : q.id = i /\ q.sock = pending[i]
        BY <3>1 DEF RpcInv, NumbersFit
      <3>3. q \in requests'
        BY <3>1, <3>2
      <3> QED
        BY <3>1, <3>2, <3>3 DEF RpcInv, NumbersFit
    <2> QED
      BY <2>1, <2>2, <2>3 DEF NumbersFit
  <1>3. PagesFit'
    <2> SUFFICES ASSUME NEW q \in requests', Paged(q.for)
                 PROVE  /\ q.for.sub \in DOMAIN subs'
                        /\ q.sock = generation' /\ Authed' /\ Stage({"open", "closing"})'
                        /\ q.id >= 3 /\ q.id \in DOMAIN pending' /\ pending'[q.id] = generation'
                        /\ state' = "authenticated" \/ credential' = "none"
      BY DEF PagesFit
    <2>1. /\ q \in requests /\ q # r /\ q.for.sub \in DOMAIN subs
          /\ q.sock = generation /\ Authed /\ Stage({"open", "closing"})
          /\ q.id >= 3 /\ q.id \in DOMAIN pending /\ pending[q.id] = generation
          /\ state = "authenticated" \/ credential = "none"
      BY DEF RpcInv, PagesFit
    <2>2. q.id # r.id
      <3>1. r.for \in Purpose
        BY DEF RpcInv, WireTyped, Request
      <3>2. CASE Proving(r.for)
        BY <2>1, <3>2 DEF RpcInv, LoginsFit
      <3>3. CASE Paged(r.for)
        BY <2>1, <3>3 DEF RpcInv, PagesFit, NumbersFit
      <3> QED
        BY <3>1, <3>2, <3>3, PurposeFields
    <2> QED
      BY <2>1, <2>2 DEF WithoutId, Authed, Stage
  <1>4. LoginsFit'
    BY DEF RpcInv, LoginsFit, Authed, Stage
  <1> QED
    BY <1>1, <1>2, <1>3, <1>4

(* A promise that is settled queues one continuation, with the purpose of  *)
(* its request.                                                            *)
LEMMA SettlesFits ==
    ASSUME RpcInv, NEW r \in requests, NEW how \in How, NEW shows \in Nat, jobs' = <<Settles(r, how, shows)>>
    PROVE  /\ JobsTyped' /\ Len(jobs') = 1 /\ DOMAIN jobs' = {1}
           /\ jobs'[1] = [sock |-> r.sock, for |-> r.for, how |-> how, shows |-> shows]
           /\ jobs'[1].sock = r.sock /\ jobs'[1].for = r.for /\ jobs'[1].how = how /\ jobs'[1].shows = shows
           /\ Paged(r.for) => r.for.sub \in DOMAIN subs
  <1> DEFINE j == [sock |-> r.sock, for |-> r.for, how |-> how, shows |-> shows]
  <1>1. r \in Request
    BY DEF RpcInv, WireTyped
  <1>2. j \in Result \cup Loop /\ j.sock = r.sock /\ j.for = r.for /\ j.how = how /\ j.shows = shows
    BY <1>1 DEF Request, Result
  <1>3. jobs' = <<j>>
    BY DEF Settles
  <1> HIDE DEF j
  <1>4. JobsTyped' /\ Len(jobs') = 1 /\ DOMAIN jobs' = {1} /\ jobs'[1] = j
    BY <1>2, <1>3 DEF JobsTyped
  <1>5. Paged(r.for) => r.for.sub \in DOMAIN subs
    BY DEF RpcInv, PagesFit
  <1> QED
    BY <1>2, <1>4, <1>5 DEF j

(* The timer of a request deletes the entry of the table at its number and *)
(* rejects its promise.                                                    *)
LEMMA TimesOutKeeps ==
    ASSUME RpcInv, NEW r \in requests, TimesOut(r)
    PROVE  RpcInv'
  <1>1. /\ requests' = requests \ {r} /\ pending' = WithoutId(r.id) /\ jobs' = <<Settles(r, "timeout", 0)>>
        /\ UNCHANGED <<login, link, nextId, table, session, happened, logins>>
        /\ faults' = faults \/ faults' = faults + 1
    BY DEF TimesOut
  <1>2. UNCHANGED <<state, credential, intentional, known, timer, generation, socket, sockets, nextId, subs, map,
                    inbox, answers, outbox, topics, happened, logins>>
    BY <1>1 DEF login, link, table, session
  <1>3. WireTyped' /\ NumbersFit' /\ PagesFit' /\ LoginsFit'
    BY <1>1, <1>2, SettledFits
  <1>4. /\ JobsTyped' /\ Len(jobs') = 1 /\ DOMAIN jobs' = {1}
        /\ jobs'[1].for = r.for /\ jobs'[1].how = "timeout"
        /\ Paged(r.for) => r.for.sub \in DOMAIN subs
    BY <1>1, SettlesFits DEF How
  <1>5. JobsFit'
    BY <1>2, <1>4 DEF JobsFit
  <1>6. LinkTyped' /\ TableTyped' /\ MapFits' /\ SessionTyped' /\ SocketsFit' /\ StreamFits'
    BY <1>1, <1>2 DEF RpcInv, LinkTyped, TableTyped, MapFits, SessionTyped, SocketsFit, StreamFits, Live, Stage, Authed
  <1>7. ServerFits'
    BY <1>1, <1>2 DEF RpcInv, ServerFits, Online
  <1> QED
    BY <1>3, <1>4, <1>5, <1>6, <1>7 DEF RpcInv

(* A socket is closed, and nothing is settled by that. *)
LEMMA Shut ==
    ASSUME RpcInv, NEW s \in {0} \cup Socket, sockets' = Closed(sockets, s), Hangup,
           UNCHANGED <<generation, socket, timer, known, nextId, pending, requests>>, DOMAIN subs' = DOMAIN subs,
           UNCHANGED <<state, credential, intentional>> \/ GiveUp,
           jobs' \in Seq(Result \cup Loop), Len(jobs') <= Len(jobs),
           \A i \in DOMAIN jobs' : \E k \in DOMAIN jobs : jobs'[i] = jobs[k],
           \A i \in DOMAIN jobs' : jobs'[i].for.what = "next" \/ jobs'[i].how # "ok"
    PROVE  /\ LinkTyped' /\ WireTyped' /\ JobsTyped' /\ SessionTyped' /\ SocketsFit' /\ NumbersFit'
           /\ ServerFits' /\ PagesFit' /\ LoginsFit' /\ StreamFits' /\ JobsFit'
           /\ Online' => Online /\ UNCHANGED session
  <1>1. /\ generation \in {0} \cup Socket /\ socket = generation /\ 0 \notin Socket
        /\ sockets \in [Socket -> [ready : Ready, initial : BOOLEAN, authed : BOOLEAN]]
    BY DEF RpcInv, LinkTyped, Socket
  <1>2. /\ sockets' \in [Socket -> [ready : Ready, initial : BOOLEAN, authed : BOOLEAN]]
        /\ \A u \in Socket : /\ u # s => sockets'[u] = sockets[u]
                             /\ sockets'[u].authed = sockets[u].authed
        /\ s # 0 => sockets'[s].ready = CASE sockets[s].ready = "open" -> "closing"
                                          [] sockets[s].ready = "connecting" -> "aborting"
                                          [] OTHER -> sockets[s].ready
    <2> DEFINE to == Closed(sockets, s)
    <2>1. /\ to \in [Socket -> [ready : Ready, initial : BOOLEAN, authed : BOOLEAN]]
          /\ \A u \in Socket : /\ u # s => to[u] = sockets[u]
                               /\ to[u].authed = sockets[u].authed
          /\ s # 0 => to[s].ready = CASE sockets[s].ready = "open" -> "closing"
                                       [] sockets[s].ready = "connecting" -> "aborting"
                                       [] OTHER -> sockets[s].ready
      BY ONLY <1>1, s \in {0} \cup Socket, ClosedFits
    <2>2. sockets' = to
      OBVIOUS
    <2> HIDE DEF to
    <2> QED
      BY ONLY <2>1, <2>2
  <1>3. \A u \in Socket : /\ sockets'[u].ready \in {"connecting", "open"} => sockets'[u].ready = sockets[u].ready
                          /\ sockets[u].ready \in {"closing", "closed"} => sockets'[u].ready = sockets[u].ready
                          /\ sockets[u].ready = "open" => sockets'[u].ready \in {"open", "closing"}
                          /\ sockets'[u].authed = sockets[u].authed
    <2> SUFFICES ASSUME NEW u \in Socket
                 PROVE  /\ sockets'[u].ready \in {"connecting", "open"} => sockets'[u].ready = sockets[u].ready
                        /\ sockets[u].ready \in {"closing", "closed"} => sockets'[u].ready = sockets[u].ready
                        /\ sockets[u].ready = "open" => sockets'[u].ready \in {"open", "closing"}
      BY <1>2
    <2>1. CASE u # s
      BY <1>2, <2>1
    <2>2. CASE u = s
      BY <1>1, <1>2, <2>2
    <2> QED
      BY <2>1, <2>2
  <1>4. /\ Authed' <=> Authed
        /\ Stage({"open", "closing"}) => Stage({"open", "closing"})'
        /\ Stage({"open", "closing", "closed"}) => Stage({"open", "closing", "closed"})'
        /\ Stage({"closed"}) => Stage({"closed"})'
        /\ Stage({"connecting"})' => Stage({"connecting"})
        /\ Stage({"connecting", "open"})' => Stage({"connecting", "open"})
        /\ Online' => Online
    BY <1>1, <1>2, <1>3 DEF Authed, Stage, Online
  <1>5. LinkTyped'
    BY <1>2 DEF RpcInv, LinkTyped, GiveUp, State, Token
  <1>6. SocketsFit'
    <2>1. \A u \in Socket : Live(u)' => u = generation'
      BY <1>3 DEF Live, RpcInv, SocketsFit
    <2>2. CASE GiveUp
      BY <1>4, <2>1, <2>2 DEF RpcInv, SocketsFit, GiveUp
    <2>3. CASE UNCHANGED <<state, credential, intentional>>
      BY <1>4, <2>1, <2>3 DEF RpcInv, SocketsFit
    <2> QED
      BY <2>2, <2>3
  <1>7. WireTyped' /\ NumbersFit' /\ JobsTyped' 
    BY DEF RpcInv, WireTyped, NumbersFit, JobsTyped
  <1>8. /\ SessionTyped' /\ (Online' => UNCHANGED session)
        /\ ~Online' => inbox' = {} /\ answers' = {} /\ outbox' = <<>> /\ topics' = {}
    <2>1. CASE Online'
      <3>1. Open(sockets') = Open(sockets)
        <4>1. Online /\ generation \in Socket /\ Open(sockets) = {generation}
          BY <1>4, <2>1, OnlyNewestIsOpen
        <4>2. generation \in Open(sockets')
          BY <1>1, <2>1, <4>1 DEF Online, Open
        <4>3. Open(sockets') \subseteq Open(sockets)
          BY <1>3 DEF Open
        <4> QED
          BY <4>1, <4>2, <4>3
      <3> QED
        BY <1>2, <2>1, <3>1, HungUp
    <2>2. CASE ~Online'
      <3>1. \A u \in Socket : sockets'[u].ready # "open"
        <4> SUFFICES ASSUME NEW u \in Socket, sockets'[u].ready = "open" PROVE FALSE
          OBVIOUS
        <4>1. u \in Open(sockets)
          BY <1>3 DEF Open
        <4>2. u = generation
          BY <4>1, OnlyNewestIsOpen
        <4> QED
          BY <1>1, <2>2, <4>2 DEF Online
      <3> QED
        BY <1>2, <2>2, <3>1, HungUp
    <2> QED
      BY <2>1, <2>2
  <1>9. ServerFits' /\ StreamFits'
    <2>1. CASE Online'
      <3>1. UNCHANGED <<inbox, answers, outbox, topics>> /\ Online
        BY <1>4, <1>8, <2>1 DEF session
      <3> QED
        BY <1>4, <2>1, <3>1 DEF RpcInv, ServerFits, StreamFits
    <2>2. CASE ~Online'
      BY <1>8, <2>2 DEF ServerFits, StreamFits
    <2> QED
      BY <2>1, <2>2
  <1>10. PagesFit'
    BY <1>4 DEF RpcInv, PagesFit, GiveUp
  <1>11. LoginsFit'
    BY <1>4 DEF RpcInv, LoginsFit
  <1>12. JobsFit'
    <2>1. Len(jobs) \in Nat /\ Len(jobs') \in Nat
      BY DEF RpcInv, JobsTyped
    <2>2. Online' => Len(jobs') <= 1
      BY <1>4, <2>1 DEF RpcInv, JobsFit
    <2>3. \A i \in DOMAIN jobs' : Paged(jobs'[i].for) => jobs'[i].for.sub \in DOMAIN subs'
      BY DEF RpcInv, JobsFit
    <2> QED
      BY <2>2, <2>3 DEF JobsFit
  <1> QED
    BY <1>4, <1>5, <1>6, <1>7, <1>8, <1>9, <1>10, <1>11, <1>12

(* The first of a queue, and what is left when it was taken.               *)
LEMMA TailFits ==
    ASSUME NEW S, NEW q \in Seq(S), q # <<>>
    PROVE  /\ Head(q) \in S /\ 1 \in DOMAIN q /\ Head(q) = q[1]
           /\ Tail(q) \in Seq(S) /\ Len(Tail(q)) = Len(q) - 1
           /\ \A i \in DOMAIN Tail(q) : i + 1 \in DOMAIN q /\ Tail(q)[i] = q[i + 1]
           /\ \A i \in DOMAIN q : i = 1 \/ (i - 1 \in DOMAIN Tail(q) /\ Tail(q)[i - 1] = q[i])
  OBVIOUS

(* handleMessage: what one message changes. *)
Answered(r, m) ==
    /\ m.kind = "answer" /\ m.id = r.id /\ r.sock = generation
    /\ requests' = requests \ {r} /\ pending' = WithoutId(r.id) /\ jobs' = <<Settles(r, m.how, m.shows)>>
    /\ UNCHANGED <<subs, sockets, faults>> /\ outbox' = Tail(outbox) /\ UNCHANGED <<inbox, answers, topics>>
Dropped(m) ==
    /\ m.kind = "answer" /\ m.id \notin DOMAIN pending
    /\ UNCHANGED <<requests, pending, jobs, subs, sockets, faults>>
    /\ outbox' = Tail(outbox) /\ UNCHANGED <<inbox, answers, topics>>
Told(m) ==
    /\ m.kind = "event"
    /\ subs' = [o \in DOMAIN subs |-> IF \E e \in map : e.sub = o /\ subs[o].topic = m.topic THEN Notified(o, m.n) ELSE subs[o]]
    /\ UNCHANGED <<requests, pending, jobs, sockets, faults>>
    /\ outbox' = Tail(outbox) /\ UNCHANGED <<inbox, answers, topics>>
Overflows(m) ==
    /\ m.kind = "event" /\ faults < MaxFault /\ faults' = faults + 1
    /\ sockets' = Closed(sockets, socket) /\ Hangup
    /\ UNCHANGED <<requests, pending, jobs, subs>>

(* handleMessage, case by case: an answer that is waited for, one that is  *)
(* not, an event that is delivered, a buffer that overflows.               *)
LEMMA ReceiveCases ==
    ASSUME RpcInv, NEW s \in Socket, Receive(s)
    PROVE  /\ jobs = <<>> /\ s = generation /\ Online /\ outbox # <<>> /\ Head(outbox) \in Answer \cup Event
           /\ UNCHANGED <<login, state, timer, generation, socket, nextId, map, happened, logins, history>>
           /\ \/ \E r \in requests : Answered(r, Head(outbox))
              \/ Dropped(Head(outbox))
              \/ Told(Head(outbox))
              \/ Overflows(Head(outbox))
  <1> DEFINE m == Head(outbox)
  <1>1. /\ jobs = <<>> /\ sockets[s].ready = "open" /\ outbox # <<>>
        /\ UNCHANGED <<login, state, timer, generation, socket, nextId, map, happened, logins, history>>
        /\ IF Open(sockets') = Open(sockets) THEN outbox' = Tail(outbox) /\ UNCHANGED <<inbox, answers, topics>>
                                             ELSE Hangup
    BY DEF Receive
  <1>2. s = generation /\ socket = generation /\ s # 0 /\ Online
    BY <1>1 DEF RpcInv, LinkTyped, SocketsFit, Live, Online, Socket
  <1>3. m \in Answer \cup Event /\ 1 \in DOMAIN outbox /\ m = outbox[1]
    BY <1>1, TailFits DEF RpcInv, SessionTyped
  <1>4. UNCHANGED sockets => outbox' = Tail(outbox) /\ UNCHANGED <<inbox, answers, topics>>
    BY <1>1
  <1>5. CASE /\ m.kind = "answer" /\ m.id \in DOMAIN pending
             /\ LET r == CHOOSE q \in requests : q.id = m.id /\ q.sock = pending[m.id]
                IN /\ requests' = requests \ {r} /\ pending' = WithoutId(m.id)
                   /\ jobs' = <<Settles(r, m.how, m.shows)>>
             /\ UNCHANGED <<subs, sockets, faults>>
    <2> DEFINE r == CHOOSE q \in requests : q.id = m.id /\ q.sock = pending[m.id]
    <2>1. m.id < nextId
      BY <1>3, <1>5 DEF RpcInv, ServerFits
    <2>2. pending[m.id] = generation /\ \E q \in requests : q.id = m.id /\ q.sock = pending[m.id]
      BY <1>2, <1>5, <2>1 DEF RpcInv, NumbersFit
    <2>3. r \in requests /\ r.id = m.id /\ r.sock = pending[m.id]
      BY <2>2
    <2>4. requests' = requests \ {r} /\ pending' = WithoutId(m.id) /\ jobs' = <<Settles(r, m.how, m.shows)>>
      BY <1>5
    <2> HIDE DEF r, m
    <2>5. Answered(r, m)
      BY <1>4, <1>5, <2>2, <2>3, <2>4 DEF Answered
    <2> QED
      BY <1>1, <1>2, <1>3, <2>3, <2>5 DEF m
  <1>6. CASE /\ m.kind = "answer" /\ m.id \notin DOMAIN pending
             /\ UNCHANGED <<requests, pending, jobs, subs, sockets, faults>>
    <2>1. Dropped(m)
      BY <1>4, <1>6 DEF Dropped
    <2> QED
      BY <1>1, <1>2, <1>3, <2>1
  <1>7. ASSUME m.kind = "event",
               subs' = [o \in DOMAIN subs |->
                          IF o \in {e.sub : e \in {f \in map : subs[f.sub].topic = m.topic}} THEN Notified(o, m.n) ELSE subs[o]],
               UNCHANGED <<sockets, faults>>, UNCHANGED <<requests, pending, jobs>>
        PROVE  Told(m)
    <2> HIDE DEF m
    <2>1. \A o : o \in {e.sub : e \in {f \in map : subs[f.sub].topic = m.topic}} <=>
                   \E e \in map : e.sub = o /\ subs[o].topic = m.topic
      OBVIOUS
    <2>2. subs' = [o \in DOMAIN subs |-> IF \E e \in map : e.sub = o /\ subs[o].topic = m.topic THEN Notified(o, m.n) ELSE subs[o]]
      BY ONLY <1>7, <2>1
    <2> QED
      BY <1>4, <1>7, <2>2 DEF Told
  <1>8. ASSUME m.kind = "event", faults < MaxFault, faults' = faults + 1, sockets' = Closed(sockets, socket),
               UNCHANGED subs, UNCHANGED <<requests, pending, jobs>>
        PROVE  Overflows(m)
    <2>1. sockets'[s].ready = "closing"
      BY <1>1, <1>2, <1>8, ClosedFits DEF RpcInv, LinkTyped
    <2>2. Open(sockets') # Open(sockets)
      BY <1>1, <2>1 DEF Open
    <2> QED
      BY <1>1, <1>8, <2>2 DEF Overflows
  <1> QED
    BY <1>1, <1>2, <1>3, <1>5, <1>6, <1>7, <1>8 DEF Receive

(* One message less in the server's queue. *)
LEMMA ConsumedFits ==
    ASSUME RpcInv, outbox # <<>>, outbox' = Tail(outbox), UNCHANGED <<inbox, answers, topics>>,
           requests' \subseteq requests, UNCHANGED <<generation, socket, sockets, nextId>>, DOMAIN subs' = DOMAIN subs
    PROVE  SessionTyped' /\ ServerFits' /\ StreamFits'
  <1>1. /\ outbox' \in Seq(Answer \cup Event)
        /\ \A i \in DOMAIN outbox' : \E k \in DOMAIN outbox : outbox'[i] = outbox[k]
    BY TailFits DEF RpcInv, SessionTyped
  <1>2. Online
    BY DEF RpcInv, ServerFits
  <1>3. Online' /\ (Authed' <=> Authed)
    BY <1>2 DEF Online, Authed
  <1>4. SessionTyped'
    BY <1>1 DEF RpcInv, SessionTyped
  <1>5. ServerFits'
    BY <1>1, <1>3 DEF RpcInv, ServerFits
  <1>6. StreamFits'
    BY <1>1, <1>3 DEF RpcInv, StreamFits
  <1> QED
    BY <1>4, <1>5, <1>6

(* No message mixes up two requests: the table finds the request of this   *)
(* socket that has the answer's number.                                    *)
LEMMA ReceiveKeeps ==
    ASSUME RpcInv, NEW s \in Socket, Receive(s)
    PROVE  RpcInv'
  <1> DEFINE m == Head(outbox)
  <1>1. /\ jobs = <<>> /\ s = generation /\ Online /\ outbox # <<>> /\ m \in Answer \cup Event
        /\ UNCHANGED <<login, state, timer, generation, socket, nextId, map, happened, logins>>
        /\ \/ \E r \in requests : Answered(r, m)
           \/ Dropped(m)
           \/ Told(m)
           \/ Overflows(m)
    BY ReceiveCases
  <1>2. UNCHANGED <<credential, intentional, known, state, timer, generation, socket, nextId, map, happened, logins>>
    BY <1>1 DEF login
  <1> HIDE DEF m
  <1>3. ASSUME NEW r \in requests, Answered(r, m) PROVE RpcInv'
    <2>1. /\ m.kind = "answer" /\ m.id = r.id /\ r.sock = generation
          /\ requests' = requests \ {r} /\ pending' = WithoutId(r.id) /\ jobs' = <<Settles(r, m.how, m.shows)>>
          /\ UNCHANGED <<subs, sockets, faults>> /\ outbox' = Tail(outbox) /\ UNCHANGED <<inbox, answers, topics>>
      BY <1>3 DEF Answered
    <2>2. m.how \in How /\ m.shows \in Nat
      BY <1>1, <2>1 DEF Answer, Event, How
    <2>3. WireTyped' /\ NumbersFit' /\ PagesFit' /\ LoginsFit'
      BY <1>2, <2>1, SettledFits
    <2>4. /\ JobsTyped' /\ Len(jobs') = 1 /\ DOMAIN jobs' = {1}
          /\ jobs'[1].sock = r.sock /\ jobs'[1].for = r.for
          /\ Paged(r.for) => r.for.sub \in DOMAIN subs
      BY <2>1, <2>2, SettlesFits
    <2>5. SessionTyped' /\ ServerFits' /\ StreamFits'
      BY <1>1, <1>2, <2>1, ConsumedFits
    <2>6. LinkTyped' /\ TableTyped' /\ MapFits' /\ SocketsFit'
      BY <1>2, <2>1 DEF RpcInv, LinkTyped, TableTyped, MapFits, SocketsFit, Live, Stage, Authed
    <2>7. JobsFit'
      <3>1. Online' /\ (Authed' <=> Authed)
        BY <1>1, <1>2, <2>1 DEF Online, Authed
      <3>2. ASSUME Proving(r.for)
            PROVE  /\ ~Authed' /\ nextId' = (IF r.for.what = "authenticate" THEN 2 ELSE 3)
                   /\ ~\E q \in requests' : Proving(q.for) /\ q.sock = generation'
        <4>1. /\ r.id = IF r.for.what = "authenticate" THEN 1 ELSE 2
              /\ ~Authed /\ nextId = r.id + 1
          BY <2>1, <3>2 DEF RpcInv, LoginsFit
        <4>2. ASSUME NEW q \in requests, Proving(q.for), q.sock = generation PROVE q = r
          <5>1. q.id \in Nat /\ r.id \in Nat
            BY DEF RpcInv, WireTyped, Request
          <5>2. nextId = q.id + 1
            BY <4>2 DEF RpcInv, LoginsFit
          <5> QED
            BY <2>1, <4>1, <4>2, <5>1, <5>2 DEF RpcInv, NumbersFit
        <4> QED
          BY <1>2, <2>1, <3>1, <4>1, <4>2
      <3> QED
        BY <1>2, <2>1, <2>4, <3>1, <3>2 DEF JobsFit
    <2> QED
      BY <2>3, <2>4, <2>5, <2>6, <2>7 DEF RpcInv
  <1>4. CASE Dropped(m)
    <2>1. /\ UNCHANGED <<requests, pending, jobs, subs, sockets, faults>>
          /\ outbox' = Tail(outbox) /\ UNCHANGED <<inbox, answers, topics>>
      BY <1>4 DEF Dropped
    <2>2. SessionTyped' /\ ServerFits' /\ StreamFits'
      BY <1>1, <1>2, <2>1, ConsumedFits
    <2>3. LinkTyped' /\ WireTyped' /\ JobsTyped' /\ TableTyped' /\ MapFits' /\ SocketsFit'
      BY <1>2, <2>1 DEF RpcInv, LinkTyped, WireTyped, JobsTyped, TableTyped, MapFits, SocketsFit, Live, Stage, Authed
    <2>4. NumbersFit' /\ PagesFit' /\ LoginsFit' /\ JobsFit'
      BY <1>2, <2>1 DEF RpcInv, NumbersFit, PagesFit, LoginsFit, JobsFit, Stage, Authed, Online
    <2> QED
      BY <2>2, <2>3, <2>4 DEF RpcInv
  <1>5. CASE Told(m)
    <2>1. /\ subs' = [o \in DOMAIN subs |-> IF \E e \in map : e.sub = o /\ subs[o].topic = m.topic THEN Notified(o, m.n) ELSE subs[o]]
          /\ UNCHANGED <<requests, pending, jobs, sockets, faults>>
          /\ outbox' = Tail(outbox) /\ UNCHANGED <<inbox, answers, topics>> /\ m.kind = "event"
      BY <1>5 DEF Told
    <2>2. subs \in Seq(Page) /\ Len(subs) \in Nat /\ DOMAIN subs = 1 .. Len(subs)
      BY DEF RpcInv, TableTyped
    <2>3. m.n \in Nat
      BY <1>1, <2>1 DEF Answer, Event
    <2>4. \A o \in DOMAIN subs : Notified(o, m.n) \in Page /\ Notified(o, m.n).topic = subs[o].topic
      <3> SUFFICES ASSUME NEW o \in DOMAIN subs PROVE Notified(o, m.n) \in Page /\ Notified(o, m.n).topic = subs[o].topic
        OBVIOUS
      <3>1. subs[o] \in Page
        BY <2>2, ElementOfSeq
      <3> QED
        BY <2>3, <3>1 DEF Notified, Page
    <2>5. /\ DOMAIN subs' = DOMAIN subs /\ subs' \in Seq(Page) /\ Len(subs') = Len(subs)
          /\ \A o \in DOMAIN subs : subs'[o].topic = subs[o].topic
      <3> DEFINE f(o) == IF \E e \in map : e.sub = o /\ subs[o].topic = m.topic THEN Notified(o, m.n) ELSE subs[o]
      <3>1. \A o \in DOMAIN subs : f(o) \in Page /\ f(o).topic = subs[o].topic
        BY <2>2, <2>4, ElementOfSeq
      <3>2. subs' = [o \in DOMAIN subs |-> f(o)]
        BY <2>1
      <3> HIDE DEF f
      <3> QED
        BY ONLY <2>2, <3>1, <3>2
    <2>6. TableTyped' /\ MapFits'
      BY <1>2, <2>1, <2>5 DEF RpcInv, TableTyped, MapFits
    <2>7. SessionTyped' /\ ServerFits' /\ StreamFits'
      BY <1>1, <1>2, <2>1, <2>5, ConsumedFits
    <2>8. LinkTyped' /\ WireTyped' /\ JobsTyped' /\ SocketsFit'
      BY <1>2, <2>1 DEF RpcInv, LinkTyped, WireTyped, JobsTyped, SocketsFit, Live, Stage, Authed
    <2>9. NumbersFit' /\ PagesFit' /\ LoginsFit' /\ JobsFit'
      BY <1>2, <2>1, <2>5 DEF RpcInv, NumbersFit, PagesFit, LoginsFit, JobsFit, Stage, Authed, Online
    <2> QED
      BY <2>6, <2>7, <2>8, <2>9 DEF RpcInv
  <1>6. CASE Overflows(m)
    <2>1. /\ faults' = faults + 1 /\ sockets' = Closed(sockets, socket) /\ Hangup
          /\ UNCHANGED <<requests, pending, jobs, subs>>
      BY <1>6 DEF Overflows
    <2>2. socket \in {0} \cup Socket /\ jobs' \in Seq(Result \cup Loop) /\ DOMAIN jobs' = {} /\ DOMAIN subs' = DOMAIN subs
      BY <1>1, <2>1 DEF RpcInv, LinkTyped, JobsTyped
    <2>3. Len(jobs') <= Len(jobs)
      BY <1>1, <2>1
    <2>4. /\ LinkTyped' /\ WireTyped' /\ JobsTyped' /\ SessionTyped' /\ SocketsFit' /\ NumbersFit'
          /\ ServerFits' /\ PagesFit' /\ LoginsFit' /\ StreamFits' /\ JobsFit'
      BY <1>2, <2>1, <2>2, <2>3, Shut
    <2>5. TableTyped' /\ MapFits'
      BY <1>2, <2>1 DEF RpcInv, TableTyped, MapFits
    <2> QED
      BY <2>4, <2>5 DEF RpcInv
  <1> QED
    BY <1>1, <1>3, <1>4, <1>5, <1>6

(* sendRequest on an open connection. *)
Asked(p) == [sock |-> generation, id |-> nextId, for |-> p]
Sends(p) ==
    /\ requests' = {Superseded(q, p) : q \in requests} \cup {Asked(p)}
    /\ pending' = [i \in DOMAIN pending \cup {nextId} |-> IF i = nextId THEN generation ELSE pending[i]]
    /\ nextId' = nextId + 1
    /\ inbox' = inbox \cup {Asked(p)}
    /\ jobs' = <<>>

(* sendRequest sends on an open socket that is authenticated, and          *)
(* otherwise rejects at once.                                              *)
LEMMA SendCases ==
    ASSUME RpcInv, NEW p, NEW authenticated \in BOOLEAN, NEW rest, SendRequest(p, authenticated, rest)
    PROVE  /\ Online /\ authenticated /\ rest = <<>> => Sends(p)
           /\ ~(Online /\ authenticated) =>
                jobs' = Append(rest, Settles([sock |-> socket, for |-> p], "offline", 0)) /\ UNCHANGED <<wire, inbox>>
  <1>1. socket = generation
    BY DEF RpcInv, LinkTyped
  <1>2. ASSUME Online, authenticated, rest = <<>> PROVE Sends(p)
    <2>1. /\ requests' = {Superseded(q, p) : q \in requests} \cup {Asked(p)}
          /\ pending' = [i \in DOMAIN pending \cup {nextId} |-> IF i = nextId THEN generation ELSE pending[i]]
          /\ nextId' = nextId + 1
          /\ inbox' = inbox \cup {Asked(p)}
          /\ jobs' = [i \in DOMAIN rest |-> Superseded(rest[i], p)]
      BY <1>1, <1>2 DEF SendRequest, Asked
    <2>2. jobs' = <<>>
      BY <1>2, <2>1
    <2> QED
      BY <2>1, <2>2 DEF Sends
  <1> QED
    BY <1>2 DEF SendRequest

(* The request that is sent is new; the others stay, superseded at most.   *)
LEMMA SentRequests ==
    ASSUME RpcInv, NEW p \in Purpose, Sends(p), Online
    PROVE  /\ Asked(p) \in Request /\ Asked(p).sock = generation /\ Asked(p).id = nextId /\ Asked(p).for = p
           /\ Asked(p) \in requests'
           /\ \A q \in requests : Superseded(q, p) \in requests'
           /\ \A r \in requests' : r # Asked(p) => \E q \in requests : r = Superseded(q, p) /\ r \in Request
                 /\ r.sock = q.sock /\ r.id = q.id /\ r.for.what = q.for.what /\ (Paged(q.for) => r.for.sub = q.for.sub)
           /\ generation \in Socket /\ nextId \in Nat \ {0}
  <1>1. generation \in Socket /\ nextId \in Nat \ {0} /\ requests \subseteq Request
    BY OnlyNewestIsOpen DEF RpcInv, WireTyped
  <1>2. Asked(p) \in Request /\ Asked(p).sock = generation /\ Asked(p).id = nextId /\ Asked(p).for = p
    BY <1>1 DEF Asked, Request
  <1>3. \A q \in requests : /\ Superseded(q, p) \in Request
                            /\ Superseded(q, p).sock = q.sock /\ Superseded(q, p).id = q.id
                            /\ Superseded(q, p).for.what = q.for.what
                            /\ Paged(q.for) => Superseded(q, p).for.sub = q.for.sub
    BY <1>1, SupersededFits
  <1> QED
    BY <1>1, <1>2, <1>3 DEF Sends

(* A request that is sent has the next number, which neither the table nor *)
(* the server has seen.                                                    *)
LEMMA SentFits ==
    ASSUME RpcInv, NEW p \in Purpose, Online, Sends(p),
           UNCHANGED <<state, credential, intentional, timer, generation, socket, sockets, answers, outbox, topics>>,
           DOMAIN subs \subseteq DOMAIN subs',
           Paged(p) => p.sub \in DOMAIN subs' /\ Authed /\ state = "authenticated",
           Proving(p) => /\ p.what = "capabilities" /\ nextId = 2 /\ ~Authed
                         /\ ~\E r \in requests : Proving(r.for) /\ r.sock = generation
    PROVE  /\ WireTyped' /\ JobsTyped' /\ SessionTyped' /\ SocketsFit' /\ NumbersFit'
           /\ ServerFits' /\ PagesFit' /\ LoginsFit' /\ StreamFits' /\ JobsFit'
  <1> DEFINE a == Asked(p)
  <1>1. /\ a \in Request /\ a.sock = generation /\ a.id = nextId /\ a.for = p
        /\ a \in requests'
        /\ \A q \in requests : Superseded(q, p) \in requests'
        /\ \A r \in requests' : r # a => \E q \in requests : r = Superseded(q, p) /\ r \in Request
              /\ r.sock = q.sock /\ r.id = q.id /\ r.for.what = q.for.what /\ (Paged(q.for) => r.for.sub = q.for.sub)
        /\ generation \in Socket /\ nextId \in Nat \ {0}
    BY SentRequests
  <1>2. /\ requests' = {Superseded(q, p) : q \in requests} \cup {a}
        /\ pending' = [i \in DOMAIN pending \cup {nextId} |-> IF i = nextId THEN generation ELSE pending[i]]
        /\ nextId' = nextId + 1 /\ inbox' = inbox \cup {a} /\ jobs' = <<>>
    BY DEF Sends
  <1> HIDE DEF a
  <1>3. (Online' <=> Online) /\ (Authed' <=> Authed) /\ \A ready : Stage(ready)' <=> Stage(ready)
    BY DEF Online, Authed, Stage
  <1>4. WireTyped'
    <2>1. IsFiniteSet(requests')
      <3>1. IsFiniteSet(requests)
        BY DEF RpcInv, WireTyped
      <3>2. IsFiniteSet({Superseded(q, p) : q \in requests})
        <4> DEFINE T == {Superseded(q, p) : q \in requests}
                   f == [q \in requests |-> Superseded(q, p)]
        <4>1. f \in Surjection(requests, T)
          BY DEF Surjection
        <4> HIDE DEF f
        <4> QED
          BY <3>1, <4>1, FS_Surjection
      <3> QED
        BY <1>2, <3>2, FS_AddElement
    <2>2. requests' \subseteq Request
      BY <1>1
    <2>3. pending' \in [DOMAIN pending' -> Socket]
      BY <1>1, <1>2 DEF RpcInv, WireTyped
    <2> QED
      BY <1>1, <1>2, <2>1, <2>2, <2>3 DEF WireTyped
  <1>5. NumbersFit'
    <2>1. \A q \in requests : q.id \in Nat /\ (q.sock = generation => q.id < nextId)
      BY DEF RpcInv, NumbersFit, WireTyped, Request
    <2>2. ASSUME NEW r \in requests', NEW q \in requests', r.sock = q.sock, r.id = q.id PROVE r = q
      <3>1. CASE r = a /\ q = a
        BY <3>1
      <3>2. CASE r = a /\ q # a
        BY <1>1, <2>1, <2>2, <3>2
      <3>3. CASE r # a /\ q = a
        BY <1>1, <2>1, <2>2, <3>3
      <3>4. CASE r # a /\ q # a
        <4>1. PICK x \in requests : r = Superseded(x, p) /\ r.sock = x.sock /\ r.id = x.id
          BY <1>1, <3>4
        <4>2. PICK y \in requests : q = Superseded(y, p) /\ q.sock = y.sock /\ q.id = y.id
          BY <1>1, <3>4
        <4>3. x = y
          BY <2>2, <4>1, <4>2 DEF RpcInv, NumbersFit
        <4> QED
          BY <4>1, <4>2, <4>3
      <3> QED
        BY <3>1, <3>2, <3>3, <3>4
    <2>3. ASSUME NEW r \in requests', r.sock = generation' PROVE r.id < nextId'
      <3>1. CASE r = a
        BY <1>1, <1>2, <3>1
      <3>2. CASE r # a
        <4>1. PICK q \in requests : r.sock = q.sock /\ r.id = q.id
          BY <1>1, <3>2
        <4> QED
          BY <1>1, <1>2, <2>1, <2>3, <4>1
      <3> QED
        BY <3>1, <3>2
    <2>4. ASSUME NEW i \in DOMAIN pending'
          PROVE  /\ \E r \in requests' : r.id = i /\ r.sock = pending'[i]
                 /\ i < nextId' => generation' \in {0, pending'[i]}
      <3>1. CASE i = nextId
        BY <1>1, <1>2, <3>1
      <3>2. CASE i # nextId
        <4>1. i \in DOMAIN pending /\ pending'[i] = pending[i] /\ i \in Nat
          BY <1>2, <3>2, PendingIsAsked
        <4>2. PICK q \in requests : q.id = i /\ q.sock = pending[i]
          BY <4>1, PendingIsAsked
        <4>3. Superseded(q, p) \in requests' /\ Superseded(q, p).id = i /\ Superseded(q, p).sock = pending[i]
          <5>1. q \in Request
            BY DEF RpcInv, WireTyped
          <5> QED
            BY <1>1, <4>2, <5>1, SupersededFits
        <4>4. i < nextId => generation \in {0, pending[i]}
          BY <4>1 DEF RpcInv, NumbersFit
        <4>5. i < nextId' => i < nextId
          BY <1>1, <1>2, <3>2, <4>1
        <4> QED
          BY <4>1, <4>3, <4>4, <4>5
      <3> QED
        BY <3>1, <3>2
    <2> QED
      BY <2>2, <2>3, <2>4 DEF NumbersFit
  <1>6. SessionTyped' /\ JobsTyped'
    BY <1>1, <1>2 DEF RpcInv, SessionTyped, JobsTyped
  <1>7. SocketsFit'
    <2>1. ~Stage({"connecting"})
      BY DEF Online, Stage, RpcInv, LinkTyped
    <2>2. nextId' > nextId
      BY <1>1, <1>2
    <2> QED
      BY <1>1, <1>2, <1>3, <2>1, <2>2 DEF RpcInv, SocketsFit, Live
  <1>8. ServerFits'
    <2>1. \A q \in inbox : q.id \in Nat /\ q.id < nextId /\ q.sock = generation
      BY DEF RpcInv, ServerFits, SessionTyped, Request
    <2>2. \A q \in inbox' : q.sock = generation' /\ q.id < nextId'
      BY <1>1, <1>2, <2>1
    <2>3. \A q, r \in inbox' : q.id = r.id => q = r
      BY <1>1, <1>2, <2>1 DEF RpcInv, ServerFits
    <2>4. ASSUME NEW q \in inbox', NEW r \in requests', r.sock = generation', q.id = r.id
          PROVE  q.for.what = r.for.what /\ (Paged(r.for) => q.for.sub = r.for.sub)
      <3>1. CASE r = a
        BY <1>1, <1>2, <2>1, <2>4, <3>1
      <3>2. CASE r # a
        <4>1. PICK x \in requests : /\ r.sock = x.sock /\ r.id = x.id /\ r.for.what = x.for.what
                                    /\ Paged(x.for) => r.for.sub = x.for.sub
          BY <1>1, <3>2
        <4>2. x.id < nextId /\ x.id \in Nat
          BY <2>4, <4>1 DEF RpcInv, NumbersFit, WireTyped, Request
        <4>3. q \in inbox
          BY <1>1, <1>2, <2>4, <4>1, <4>2
        <4> QED
          BY <2>4, <4>1, <4>3 DEF RpcInv, ServerFits, Paged
      <3> QED
        BY <3>1, <3>2
    <2>5. \A m \in answers : m.id \in Nat /\ m.id < nextId
      BY DEF RpcInv, ServerFits, SessionTyped, Answer
    <2>6. \A m \in answers' : m.id < nextId' /\ \A q \in inbox' : q.id # m.id
      BY <1>1, <1>2, <2>5 DEF RpcInv, ServerFits
    <2>7. ASSUME NEW i \in DOMAIN outbox', outbox'[i].kind = "answer"
          PROVE  outbox'[i].id < nextId' /\ \A q \in inbox' : q.id # outbox'[i].id
      <3>1. outbox[i] \in Answer \cup Event
        BY ElementOfSeq DEF RpcInv, SessionTyped
      <3>2. outbox[i].id \in Nat /\ outbox[i].id < nextId
        BY <2>7, <3>1 DEF RpcInv, ServerFits, Answer, Event
      <3> QED
        BY <1>1, <1>2, <2>7, <3>2 DEF RpcInv, ServerFits
    <2> QED
      BY <1>3, <2>2, <2>3, <2>4, <2>6, <2>7 DEF ServerFits
  <1>9. PagesFit'
    <2> SUFFICES ASSUME NEW r \in requests', Paged(r.for)
                 PROVE  /\ r.for.sub \in DOMAIN subs'
                        /\ r.sock = generation' /\ Authed' /\ Stage({"open", "closing"})'
                        /\ r.id >= 3 /\ r.id \in DOMAIN pending' /\ pending'[r.id] = generation'
                        /\ state' = "authenticated" \/ credential' = "none"
      BY DEF PagesFit
    <2>1. CASE r = a
      <3>1. Paged(p)
        BY <1>1, <2>1
      <3>2. Stage({"open", "closing"})
        BY DEF Online, Stage, RpcInv, LinkTyped
      <3>3. nextId >= 3
        BY <3>1 DEF RpcInv, SocketsFit
      <3> QED
        BY <1>1, <1>2, <1>3, <2>1, <3>1, <3>2, <3>3
    <2>2. CASE r # a
      <3>1. PICK q \in requests : r.sock = q.sock /\ r.id = q.id /\ r.for.what = q.for.what /\ (Paged(q.for) => r.for.sub = q.for.sub)
        BY <1>1, <2>2
      <3>2. Paged(q.for)
        BY <3>1 DEF Paged
      <3>3. /\ q.for.sub \in DOMAIN subs
            /\ q.sock = generation /\ Authed /\ Stage({"open", "closing"})
            /\ q.id >= 3 /\ q.id \in DOMAIN pending /\ pending[q.id] = generation
            /\ state = "authenticated" \/ credential = "none"
        BY <3>2 DEF RpcInv, PagesFit
      <3> QED
        BY <1>2, <1>3, <3>1, <3>2, <3>3
    <2> QED
      BY <2>1, <2>2
  <1>10. LoginsFit'
    <2> SUFFICES ASSUME NEW r \in requests', Proving(r.for)
                 PROVE  /\ r.id = IF r.for.what = "authenticate" THEN 1 ELSE 2
                        /\ r.sock = generation' => ~Authed' /\ Stage({"open", "closing", "closed"})' /\ nextId' = r.id + 1
      BY DEF LoginsFit
    <2>1. CASE r = a
      <3>1. Proving(p) /\ Stage({"open", "closing", "closed"})
        BY <1>1, <2>1 DEF Online, Stage, RpcInv, LinkTyped
      <3> QED
        BY <1>1, <1>2, <1>3, <2>1, <3>1
    <2>2. CASE r # a
      <3>1. PICK q \in requests : r.sock = q.sock /\ r.id = q.id /\ r.for.what = q.for.what
        BY <1>1, <2>2
      <3>2. Proving(q.for)
        BY <3>1 DEF Proving
      <3>3. q.sock # generation
        BY <3>2, PurposeFields DEF RpcInv, LoginsFit
      <3> QED
        BY <3>1, <3>2, <3>3 DEF RpcInv, LoginsFit
    <2> QED
      BY <2>1, <2>2
  <1>11. StreamFits'
    BY <1>1, <1>2, <1>3 DEF RpcInv, StreamFits
  <1>12. JobsFit'
    BY <1>2 DEF JobsFit
  <1> QED
    BY <1>4, <1>5, <1>6, <1>7, <1>8, <1>9, <1>10, <1>11, <1>12

(* The continuations. *)

(* The continuation that runs, and those behind it, are what the queue     *)
(* holds.                                                                  *)
LEMMA JobFits ==
    ASSUME RpcInv, jobs # <<>>
    PROVE  /\ Job \in Result \cup Loop /\ 1 \in DOMAIN jobs /\ Job = jobs[1]
           /\ Rest \in Seq(Result \cup Loop) /\ Len(Rest) = Len(jobs) - 1 /\ Len(jobs) \in Nat
           /\ \A i \in DOMAIN Rest : i + 1 \in DOMAIN jobs /\ Rest[i] = jobs[i + 1]
           /\ \A i \in DOMAIN jobs : i = 1 \/ (i - 1 \in DOMAIN Rest /\ Rest[i - 1] = jobs[i])
           /\ Online => Rest = <<>>
           /\ \A i \in DOMAIN Rest : Rest[i].for.what = "next" \/ Rest[i].how # "ok"
           /\ Paged(Job.for) => Job.for.sub \in DOMAIN subs
  <1>1. jobs \in Seq(Result \cup Loop)
    BY DEF RpcInv, JobsTyped
  <1>2. /\ Job \in Result \cup Loop /\ 1 \in DOMAIN jobs /\ Job = jobs[1]
        /\ Rest \in Seq(Result \cup Loop) /\ Len(Rest) = Len(jobs) - 1 /\ Len(jobs) \in Nat
        /\ \A i \in DOMAIN Rest : i + 1 \in DOMAIN jobs /\ Rest[i] = jobs[i + 1]
        /\ \A i \in DOMAIN jobs : i = 1 \/ (i - 1 \in DOMAIN Rest /\ Rest[i - 1] = jobs[i])
    BY <1>1, TailFits DEF Job, Rest
  <1>3. Online => Rest = <<>>
    <2>1. Online => Len(Rest) = 0
      <3>1. Online => Len(jobs) <= 1
        BY DEF RpcInv, JobsFit
      <3>2. Len(Rest) \in Nat
        BY <1>2
      <3> QED
        BY <1>2, <3>1, <3>2
    <2>2. Rest \in Seq(Result \cup Loop)
      BY <1>2
    <2> DEFINE rest == Rest
    <2>3. rest \in Seq(Result \cup Loop) /\ (Len(rest) = 0 => rest = <<>>)
      <3> HIDE DEF rest
      <3>1. ASSUME NEW S, NEW q \in Seq(S), Len(q) = 0 PROVE q = <<>>
        BY <3>1, EmptySeq
      <3>2. rest \in Seq(Result \cup Loop)
        BY <2>2 DEF rest
      <3> QED
        BY <3>1, <3>2
    <2> QED
      BY <2>1, <2>3
  <1>4. ASSUME NEW i \in DOMAIN Rest PROVE Rest[i].for.what = "next" \/ Rest[i].how # "ok"
    <2>1. Len(Rest) # 0 /\ i + 1 \in DOMAIN jobs /\ Rest[i] = jobs[i + 1]
      BY <1>2
    <2>2. ~Online
      <3>1. Online => Len(Rest) = 0
        BY <1>3
      <3> QED
        BY <2>1, <3>1
    <2>3. jobs[i + 1].for.what # "next" /\ jobs[i + 1].how = "ok" => Online
      BY <2>1 DEF RpcInv, JobsFit
    <2> QED
      BY <2>1, <2>2, <2>3
  <1> QED
    BY <1>2, <1>3, <1>4 DEF RpcInv, JobsFit

(* A continuation that changes no more than the queue and the pages.       *)
LEMMA QueuedFits ==
    ASSUME RpcInv,
           UNCHANGED <<state, credential, intentional, timer, known, generation, socket, sockets, nextId, pending, requests,
                       inbox, answers, outbox, topics>>, DOMAIN subs \subseteq DOMAIN subs',
           jobs' \in Seq(Result \cup Loop), Online => Len(jobs') <= 1,
           \A i \in DOMAIN jobs' : Paged(jobs'[i].for) => jobs'[i].for.sub \in DOMAIN subs',
           \A i \in DOMAIN jobs' : jobs'[i].for.what = "next" \/ jobs'[i].how # "ok"
    PROVE  /\ LinkTyped' /\ WireTyped' /\ JobsTyped' /\ SessionTyped' /\ SocketsFit' /\ NumbersFit'
           /\ ServerFits' /\ PagesFit' /\ LoginsFit' /\ StreamFits' /\ JobsFit'
  <1>1. (Online' <=> Online) /\ (Authed' <=> Authed) /\ \A ready : Stage(ready)' <=> Stage(ready)
    BY DEF Online, Authed, Stage
  <1>2. LinkTyped' /\ WireTyped' /\ JobsTyped' /\ SessionTyped' /\ SocketsFit' /\ NumbersFit'
    BY <1>1 DEF RpcInv, LinkTyped, WireTyped, JobsTyped, SessionTyped, SocketsFit, NumbersFit, Live
  <1>3. ServerFits' /\ LoginsFit'
    BY <1>1 DEF RpcInv, ServerFits, LoginsFit
  <1>4. PagesFit' /\ StreamFits'
    BY <1>1 DEF RpcInv, PagesFit, StreamFits
  <1>5. JobsFit'
    BY <1>1 DEF JobsFit
  <1> QED
    BY <1>2, <1>3, <1>4, <1>5

(* A continuation that adds one more to the queue. *)
LEMMA AppendedFits ==
    ASSUME RpcInv, NEW rest \in Seq(Result \cup Loop), NEW j \in Result \cup Loop, jobs' = Append(rest, j),
           Online => rest = <<>>,
           \A i \in DOMAIN rest : (Paged(rest[i].for) => rest[i].for.sub \in DOMAIN subs')
                                  /\ (rest[i].for.what = "next" \/ rest[i].how # "ok"),
           Paged(j.for) => j.for.sub \in DOMAIN subs', j.for.what = "next" \/ j.how # "ok"
    PROVE  /\ jobs' \in Seq(Result \cup Loop) /\ (Online => Len(jobs') <= 1)
           /\ \A i \in DOMAIN jobs' : Paged(jobs'[i].for) => jobs'[i].for.sub \in DOMAIN subs'
           /\ \A i \in DOMAIN jobs' : jobs'[i].for.what = "next" \/ jobs'[i].how # "ok"
           /\ \A i \in DOMAIN jobs' : (i \in DOMAIN rest /\ jobs'[i] = rest[i]) \/ jobs'[i] = j
  <1>1. /\ jobs' \in Seq(Result \cup Loop) /\ Len(jobs') = Len(rest) + 1
        /\ \A i \in DOMAIN jobs' : (i \in DOMAIN rest /\ jobs'[i] = rest[i]) \/ jobs'[i] = j
    OBVIOUS
  <1>2. rest = <<>> => Len(jobs') = 1
    BY <1>1
  <1> QED
    BY <1>1, <1>2

(* What is left to run when a continuation has run is as before: about     *)
(* pages that exist, and on an open connection nothing more.               *)
LEMMA RestFits ==
    ASSUME RpcInv, jobs # <<>>, jobs' = Rest, DOMAIN subs \subseteq DOMAIN subs'
    PROVE  /\ jobs' \in Seq(Result \cup Loop) /\ (Online => Len(jobs') <= 1) /\ Len(jobs') <= Len(jobs)
           /\ \A i \in DOMAIN jobs' : Paged(jobs'[i].for) => jobs'[i].for.sub \in DOMAIN subs'
           /\ \A i \in DOMAIN jobs' : jobs'[i].for.what = "next" \/ jobs'[i].how # "ok"
           /\ \A i \in DOMAIN jobs' : \E k \in DOMAIN jobs : jobs'[i] = jobs[k]
  <1>1. /\ Rest \in Seq(Result \cup Loop) /\ Len(Rest) = Len(jobs) - 1 /\ Len(jobs) \in Nat
        /\ \A i \in DOMAIN Rest : i + 1 \in DOMAIN jobs /\ Rest[i] = jobs[i + 1]
        /\ \A i \in DOMAIN Rest : Rest[i].for.what = "next" \/ Rest[i].how # "ok"
    BY JobFits
  <1>2. Online => Len(jobs) <= 1
    BY DEF RpcInv, JobsFit
  <1> QED
    BY <1>1, <1>2 DEF RpcInv, JobsFit

(* A request that is rejected at once is settled as offline.               *)
LEMMA OfflineFits ==
    ASSUME RpcInv, NEW p \in Purpose
    PROVE  /\ Settles([sock |-> socket, for |-> p], "offline", 0) \in Result
           /\ Settles([sock |-> socket, for |-> p], "offline", 0).for = p
           /\ Settles([sock |-> socket, for |-> p], "offline", 0).how = "offline"
           /\ Settles([sock |-> socket, for |-> p], "offline", 0).sock = socket
  BY DEF Settles, Result, How, RpcInv, LinkTyped

(* The catch of onopen gives up and closes the socket if it is still the   *)
(* newest.                                                                 *)
LEMMA AuthenticationFailsKeeps ==
    ASSUME RpcInv, jobs # <<>>, Proving(Job.for), AuthenticationFails(Job.sock), UNCHANGED <<happened, logins, faults>>
    PROVE  RpcInv'
  <1> DEFINE s == IF Job.sock = generation THEN Job.sock ELSE 0
  <1>1. /\ jobs' = Rest /\ Hangup /\ UNCHANGED <<known, timer, generation, socket, wire, table>>
        /\ IF Job.sock # generation THEN UNCHANGED <<state, credential, intentional, sockets>>
           ELSE GiveUp /\ sockets' = Closed(sockets, Job.sock)
    BY DEF AuthenticationFails
  <1>2. s \in {0} \cup Socket
    BY JobFits, ResultFields
  <1>3. sockets' = Closed(sockets, s)
    BY <1>1 DEF Closed
  <1>4. GiveUp \/ UNCHANGED <<state, credential, intentional>>
    BY <1>1
  <1>5. UNCHANGED <<subs, map, nextId, pending, requests>>
    BY <1>1 DEF wire, table
  <1>6. /\ jobs' \in Seq(Result \cup Loop) /\ Len(jobs') <= Len(jobs)
        /\ \A i \in DOMAIN jobs' : jobs'[i].for.what = "next" \/ jobs'[i].how # "ok"
        /\ \A i \in DOMAIN jobs' : \E k \in DOMAIN jobs : jobs'[i] = jobs[k]
    BY <1>1, <1>5, RestFits
  <1> HIDE DEF s
  <1>7. /\ LinkTyped' /\ WireTyped' /\ JobsTyped' /\ SessionTyped' /\ SocketsFit' /\ NumbersFit'
        /\ ServerFits' /\ PagesFit' /\ LoginsFit' /\ StreamFits' /\ JobsFit'
    BY <1>1, <1>2, <1>3, <1>4, <1>5, <1>6, Shut
  <1>8. TableTyped' /\ MapFits'
    BY <1>5 DEF RpcInv, TableTyped, MapFits
  <1> QED
    BY <1>7, <1>8 DEF RpcInv

(* A login's answer that is good is the only thing under way. *)
LEMMA LoginIsAnswered ==
    ASSUME RpcInv, jobs # <<>>, Proving(Job.for), Job.how = "ok"
    PROVE  /\ Job.sock = generation /\ Online /\ Rest = <<>> /\ generation \in Socket
           /\ ~Authed /\ nextId = (IF Job.for.what = "authenticate" THEN 2 ELSE 3)
           /\ ~\E r \in requests : Proving(r.for) /\ r.sock = generation
  <1>1. 1 \in DOMAIN jobs /\ Job = jobs[1] /\ (Online => Rest = <<>>)
    BY JobFits
  <1>2. Job.for.what # "next"
    BY DEF Proving
  <1> QED
    BY <1>1, <1>2, OnlyNewestIsOpen DEF RpcInv, JobsFit

(* After the token was accepted the client asks for the server's           *)
(* capabilities.                                                           *)
LEMMA AuthenticatesKeeps ==
    ASSUME RpcInv, Authenticates
    PROVE  RpcInv'
  <1>1. jobs # <<>> /\ Job.for.what = "authenticate" /\ Proving(Job.for) /\ UNCHANGED <<happened, logins, faults>>
    BY DEF Authenticates, Runs, Proving
  <1>2. CASE Job.how = "ok"
    <2> DEFINE p == [what |-> "capabilities"]
    <2>1. SendRequest(p, TRUE, Rest) /\ UNCHANGED <<login, link, table, answers, outbox, topics>>
      BY <1>2 DEF Authenticates
    <2>2. p \in Purpose /\ p.what = "capabilities" /\ ~Paged(p)
      BY PurposesAsked DEF Paged
    <2> HIDE DEF p
    <2>3. /\ Online /\ Rest = <<>> /\ ~Authed /\ nextId = 2
          /\ ~\E r \in requests : Proving(r.for) /\ r.sock = generation
      BY <1>1, <1>2, LoginIsAnswered
    <2>4. Sends(p)
      BY <2>1, <2>3, SendCases
    <2>5. UNCHANGED <<state, credential, intentional, known, timer, generation, socket, sockets, subs, map, answers, outbox, topics>>
      BY <2>1 DEF login, link, table
    <2>6. /\ WireTyped' /\ JobsTyped' /\ SessionTyped' /\ SocketsFit' /\ NumbersFit'
          /\ ServerFits' /\ PagesFit' /\ LoginsFit' /\ StreamFits' /\ JobsFit'
      BY <2>2, <2>3, <2>4, <2>5, SentFits
    <2>7. LinkTyped' /\ TableTyped' /\ MapFits'
      BY <1>1, <2>5 DEF RpcInv, LinkTyped, TableTyped, MapFits
    <2> QED
      BY <2>6, <2>7 DEF RpcInv
  <1>3. CASE Job.how # "ok"
    <2>1. AuthenticationFails(Job.sock)
      BY <1>3 DEF Authenticates
    <2> QED
      BY <1>1, <2>1, AuthenticationFailsKeeps
  <1> QED
    BY <1>2, <1>3

(* After the second answer the connection counts as authenticated, and the *)
(* restoration begins.                                                     *)
LEMMA CapabilitiesKeeps ==
    ASSUME RpcInv, Capabilities
    PROVE  RpcInv'
  <1>1. jobs # <<>> /\ Job.for.what = "capabilities" /\ Proving(Job.for) /\ UNCHANGED <<happened, logins, faults>>
    BY DEF Capabilities, Runs, Proving
  <1>2. CASE Job.how = "ok"
    <2>1. /\ Job.sock = generation /\ Online /\ Rest = <<>> /\ generation \in Socket
          /\ ~Authed /\ nextId = 3
          /\ ~\E r \in requests : Proving(r.for) /\ r.sock = generation
      BY <1>1, <1>2, LoginIsAnswered
    <2>2. /\ sockets' = [sockets EXCEPT ![generation].authed = TRUE]
          /\ state' = "authenticated"
          /\ known' = (known \/ sockets[generation].initial)
          /\ jobs' = Append(<<>>, Next_(generation, 0))
          /\ UNCHANGED <<credential, intentional, timer, generation, socket, wire, table, session>>
      BY <1>2, <2>1 DEF Capabilities
    <2>3. UNCHANGED <<credential, intentional, timer, generation, socket, nextId, pending, requests, subs, map,
                      inbox, answers, outbox, topics>>
      BY <2>2 DEF wire, table, session
    <2>4. /\ sockets' \in [Socket -> [ready : Ready, initial : BOOLEAN, authed : BOOLEAN]]
          /\ \A u \in Socket : u # generation => sockets'[u] = sockets[u]
          /\ \A u \in Socket : sockets'[u].ready = sockets[u].ready /\ sockets'[u].initial = sockets[u].initial
          /\ sockets'[generation].authed = TRUE
      BY <2>1, <2>2 DEF RpcInv, LinkTyped
    <2>5. generation # 0 /\ socket = generation
      BY <2>1 DEF Socket, RpcInv, LinkTyped
    <2>6. /\ Online' /\ Authed' /\ \A ready : Stage(ready)' <=> Stage(ready)
      BY <2>1, <2>3, <2>4, <2>5 DEF Online, Authed, Stage
    <2>7. LinkTyped'
      BY <2>2, <2>3, <2>4 DEF RpcInv, LinkTyped, State
    <2>8. jobs' = <<Next_(generation, 0)>> /\ Next_(generation, 0) \in Loop /\ Next_(generation, 0).for.what = "next"
      BY <2>1, <2>2 DEF Next_, Loop
    <2>9. JobsTyped' /\ Len(jobs') = 1 /\ DOMAIN jobs' = {1} /\ jobs'[1].for.what = "next"
      <3> DEFINE j == Next_(generation, 0)
      <3>1. j \in Result \cup Loop /\ jobs' = <<j>> /\ j.for.what = "next"
        BY <2>8
      <3> HIDE DEF j
      <3> QED
        BY <3>1 DEF JobsTyped
    <2>10. SocketsFit'
      <3>1. \A u \in Socket : Live(u)' <=> Live(u)
        BY <2>4 DEF Live
      <3> QED
        BY <2>1, <2>2, <2>3, <2>6, <3>1 DEF RpcInv, SocketsFit, Stage, Online
    <2>11. WireTyped' /\ SessionTyped' /\ NumbersFit' /\ TableTyped' /\ MapFits'
      BY <1>1, <2>3 DEF RpcInv, WireTyped, SessionTyped, NumbersFit, TableTyped, MapFits
    <2>12. ServerFits' /\ StreamFits'
      BY <2>1, <2>3, <2>6 DEF RpcInv, ServerFits, StreamFits
    <2>13. PagesFit'
      BY <2>1 , <2>3 DEF RpcInv, PagesFit
    <2>14. LoginsFit'
      BY <2>1, <2>3 DEF RpcInv, LoginsFit
    <2>15. JobsFit'
      BY <2>9 DEF JobsFit, Paged
    <2> QED
      BY <2>7, <2>9, <2>10, <2>11, <2>12, <2>13, <2>14, <2>15 DEF RpcInv
  <1>3. CASE Job.how # "ok"
    <2>1. AuthenticationFails(Job.sock)
      BY <1>3 DEF Capabilities
    <2> QED
      BY <1>1, <2>1, AuthenticationFailsKeeps
  <1> QED
    BY <1>2, <1>3

(* Subscriptions are numbered from one, and each is a page.                *)
LEMMA SubsAreSub ==
    ASSUME RpcInv
    PROVE  DOMAIN subs = 1 .. Len(subs) /\ Len(subs) \in Nat /\ DOMAIN subs \subseteq Sub /\ DOMAIN subs \subseteq Nat \ {0}
           /\ \A o \in DOMAIN subs : subs[o] \in Page
  <1>1. subs \in Seq(Page) /\ Len(subs) <= MaxSub
    BY DEF RpcInv, TableTyped
  <1> QED
    BY <1>1, ElementOfSeq, RpcAssumption DEF Sub

(* Numbers, if there are any, have a least. *)
LEMMA LeastNumber ==
    ASSUME NEW S, S \subseteq Nat, S # {}
    PROVE  \E x \in S : \A y \in S : x <= y
  <1> DEFINE T == {0 .. x : x \in S}
  <1>1. IsWellFoundedOn(StrictSubsetOrdering(Nat), FiniteSubsetsOf(Nat))
    BY FS_StrictSubsetOrderingWellFounded
  <1>2. T \subseteq FiniteSubsetsOf(Nat)
    <2> SUFFICES ASSUME NEW x \in S PROVE 0 .. x \in FiniteSubsetsOf(Nat)
      OBVIOUS
    <2>1. IsFiniteSet(0 .. x)
      BY FS_Interval
    <2> QED
      BY <2>1 DEF FiniteSubsetsOf
  <1>3. PICK I \in T : \A J \in T : ~ (<<J, I>> \in StrictSubsetOrdering(Nat))
    <2>1. T # {}
      OBVIOUS
    <2> HIDE DEF T
    <2> QED
      BY <1>1, <1>2, <2>1, WFMin
  <1>4. PICK x \in S : I = 0 .. x
    OBVIOUS
  <1>5. ASSUME NEW y \in S, y < x PROVE FALSE
    <2>1. x \in Nat /\ y \in Nat
      OBVIOUS
    <2>2. 0 .. y \subseteq 0 .. x /\ x \in 0 .. x /\ x \notin 0 .. y
      BY <2>1, <1>5
    <2>3. 0 .. y \in T /\ 0 .. x \in SUBSET Nat /\ 0 .. y \in SUBSET Nat
      BY <2>1
    <2>4. <<0 .. y, 0 .. x>> \in StrictSubsetOrdering(Nat)
      BY <2>2, <2>3 DEF StrictSubsetOrdering
    <2> QED
      BY <1>3, <1>4, <2>3, <2>4
  <1> QED
    BY <1>5

(* The iterator has a next entry as long as there are entries it has not   *)
(* passed.                                                                 *)
LEMMA NextEntry ==
    ASSUME RpcInv, NEW pos, {f \in map : f.pos > pos} # {}
    PROVE  LET later == {f \in map : f.pos > pos}
               e == CHOOSE f \in later : \A g \in later : f.pos <= g.pos
           IN e \in later /\ e \in map /\ e.sub \in DOMAIN subs /\ e.pos \in DOMAIN subs /\ \A g \in later : e.pos <= g.pos
  <1> DEFINE later == {f \in map : f.pos > pos}
             places == {f.pos : f \in later}
  <1>1. \A f \in map : f.sub \in DOMAIN subs /\ f.pos \in DOMAIN subs
    BY DEF RpcInv, TableTyped
  <1>2. places \subseteq Nat /\ places # {}
    BY <1>1, SubsAreSub
  <1>3. PICK least \in places : \A x \in places : least <= x
    <2> HIDE DEF places
    <2> QED
      BY <1>2, LeastNumber
  <1>4. \E f \in later : \A g \in later : f.pos <= g.pos
    BY <1>3
  <1> QED
    BY <1>1, <1>4

(* One page changes, and stays with its topic. *)
LEMMA PageFits ==
    ASSUME RpcInv, NEW o \in DOMAIN subs, NEW w \in Page, w.topic = subs[o].topic, subs' = [subs EXCEPT ![o] = w]
    PROVE  /\ subs' \in Seq(Page) /\ DOMAIN subs' = DOMAIN subs /\ Len(subs') = Len(subs)
           /\ \A q \in DOMAIN subs : subs'[q].topic = subs[q].topic /\ (q # o => subs'[q] = subs[q])
           /\ subs'[o] = w
  <1>1. subs \in Seq(Page) /\ DOMAIN subs = 1 .. Len(subs) /\ Len(subs) \in Nat
    BY SubsAreSub DEF RpcInv, TableTyped
  <1>2. o \in 1 .. Len(subs)
    BY <1>1
  <1>3. /\ [subs EXCEPT ![o] = w] \in Seq(Page)
        /\ Len([subs EXCEPT ![o] = w]) = Len(subs)
        /\ \A q \in 1 .. Len(subs) : [subs EXCEPT ![o] = w][q] = IF q = o THEN w ELSE subs[q]
    BY ONLY <1>1, <1>2, w \in Page, ExceptSeq
  <1>4. DOMAIN subs' = DOMAIN subs
    OBVIOUS
  <1> QED
    BY <1>1, <1>3, <1>4

(* Pages that keep their topics fit the entries that are left. *)
LEMMA TableKept ==
    ASSUME RpcInv, subs' \in Seq(Page), DOMAIN subs' = DOMAIN subs, Len(subs') = Len(subs),
           \A o \in DOMAIN subs : subs'[o].topic = subs[o].topic,
           map' \subseteq map, UNCHANGED <<happened, logins, faults>>
    PROVE  TableTyped' /\ MapFits'
  <1>1. \A e \in map : e.sub \in DOMAIN subs
    BY DEF RpcInv, TableTyped
  <1>2. TableTyped'
    BY DEF RpcInv, TableTyped
  <1>3. MapFits'
    BY <1>1 DEF RpcInv, MapFits
  <1> QED
    BY <1>2, <1>3

Restoring(o) == [subs EXCEPT ![o].restoring = TRUE, ![o].buffered = {}]

(* Only the page itself is changed. *)
LEMMA RestoringFits ==
    ASSUME RpcInv, NEW o \in DOMAIN subs, subs' = Restoring(o)
    PROVE  /\ subs' \in Seq(Page) /\ DOMAIN subs' = DOMAIN subs /\ Len(subs') = Len(subs)
           /\ \A q \in DOMAIN subs : subs'[q].topic = subs[q].topic /\ (q # o => subs'[q] = subs[q])
           /\ subs'[o].restoring = TRUE /\ subs'[o].buffered = {} /\ subs'[o].view = subs[o].view /\ subs'[o].failed = subs[o].failed
  <1> DEFINE w == [subs[o] EXCEPT !.restoring = TRUE, !.buffered = {}]
  <1>1. subs \in Seq(Page) /\ subs[o] \in Page
    BY ElementOfSeq DEF RpcInv, TableTyped
  <1>2. subs' = [subs EXCEPT ![o] = w]
    BY <1>1 DEF Restoring
  <1>3. w \in Page /\ w.topic = subs[o].topic
    BY <1>1 DEF Page
  <1>4. w.restoring = TRUE /\ w.buffered = {} /\ w.view = subs[o].view /\ w.failed = subs[o].failed
    BY <1>1 DEF Page
  <1> HIDE DEF w
  <1>5. /\ subs' \in Seq(Page) /\ DOMAIN subs' = DOMAIN subs /\ Len(subs') = Len(subs)
        /\ \A q \in DOMAIN subs : subs'[q].topic = subs[q].topic /\ (q # o => subs'[q] = subs[q])
        /\ subs'[o] = w
    BY <1>2, <1>3, PageFits
  <1> QED
    BY <1>4, <1>5

(* What a page asks for is sent, or its promise is rejected at once. *)
LEMMA AskFits ==
    ASSUME RpcInv, NEW p \in Purpose, Paged(p), NEW rest \in Seq(Result \cup Loop),
           SendRequest(p, state = "authenticated", rest), Online => rest = <<>>,
           UNCHANGED <<state, credential, intentional, timer, known, generation, socket, sockets, answers, outbox, topics>>,
           DOMAIN subs \subseteq DOMAIN subs', p.sub \in DOMAIN subs',
           \A i \in DOMAIN rest : (Paged(rest[i].for) => rest[i].for.sub \in DOMAIN subs')
                                  /\ (rest[i].for.what = "next" \/ rest[i].how # "ok")
    PROVE  /\ LinkTyped' /\ WireTyped' /\ JobsTyped' /\ SessionTyped' /\ SocketsFit' /\ NumbersFit'
           /\ ServerFits' /\ PagesFit' /\ LoginsFit' /\ StreamFits' /\ JobsFit'
  <1>1. LinkTyped'
    BY DEF RpcInv, LinkTyped
  <1>2. CASE Online /\ state = "authenticated"
    <2>1. Sends(p)
      BY <1>2, SendCases
    <2>2. Authed /\ ~Proving(p)
      <3>1. Stage({"connecting", "open"})
        BY <1>2 DEF Stage, Online, RpcInv, LinkTyped
      <3> QED
        BY <1>2, <3>1, PurposeFields DEF RpcInv, SocketsFit
    <2>3. /\ WireTyped' /\ JobsTyped' /\ SessionTyped' /\ SocketsFit' /\ NumbersFit'
          /\ ServerFits' /\ PagesFit' /\ LoginsFit' /\ StreamFits' /\ JobsFit'
      BY <1>2, <2>1, <2>2, SentFits
    <2> QED
      BY <1>1, <2>3
  <1>3. CASE ~(Online /\ state = "authenticated")
    <2> DEFINE j == Settles([sock |-> socket, for |-> p], "offline", 0)
    <2>1. jobs' = Append(rest, j) /\ UNCHANGED <<wire, inbox>>
      BY <1>3, SendCases
    <2>2. j \in Result \cup Loop /\ j.for = p /\ j.how = "offline"
      BY OfflineFits
    <2> HIDE DEF j
    <2>3. /\ jobs' \in Seq(Result \cup Loop) /\ (Online => Len(jobs') <= 1)
          /\ \A i \in DOMAIN jobs' : Paged(jobs'[i].for) => jobs'[i].for.sub \in DOMAIN subs'
          /\ \A i \in DOMAIN jobs' : jobs'[i].for.what = "next" \/ jobs'[i].how # "ok"
      BY <2>1, <2>2, AppendedFits
    <2>4. UNCHANGED <<nextId, pending, requests, inbox>>
      BY <2>1 DEF wire
    <2> QED
      BY <2>3, <2>4, QueuedFits
  <1> QED
    BY <1>2, <1>3

(* The loop of restoreSubscriptions subscribes the next entry, or ends.    *)
LEMMA RestoreNextKeeps ==
    ASSUME RpcInv, RestoreNext
    PROVE  RpcInv'
  <1> DEFINE later == {f \in map : f.pos > Job.for.pos}
             e     == CHOOSE f \in later : \A g \in later : f.pos <= g.pos
             p     == [what |-> "subscribe", sub |-> e.sub, loop |-> Job.sock, pos |-> e.pos, latest |-> TRUE]
  <1>1. /\ jobs # <<>> /\ Job.for.what = "next"
        /\ UNCHANGED <<login, link, map, answers, outbox, topics, happened, logins, faults>>
        /\ IF later = {} THEN jobs' = Rest /\ UNCHANGED <<subs, wire, inbox>>
           ELSE /\ subs' = Restoring(e.sub)
                /\ SendRequest(p, state = "authenticated", Rest)
    BY DEF RestoreNext, Runs, Ask, Restoring
  <1>2. UNCHANGED <<credential, intentional, known, state, timer, generation, socket, sockets, map, answers, outbox, topics,
                    happened, logins, faults>>
    BY <1>1 DEF login, link
  <1>3. CASE later = {}
    <2>1. jobs' = Rest /\ UNCHANGED <<subs, nextId, pending, requests, inbox>>
      BY <1>1, <1>3 DEF wire
    <2>2. /\ jobs' \in Seq(Result \cup Loop) /\ (Online => Len(jobs') <= 1)
          /\ \A i \in DOMAIN jobs' : Paged(jobs'[i].for) => jobs'[i].for.sub \in DOMAIN subs'
          /\ \A i \in DOMAIN jobs' : jobs'[i].for.what = "next" \/ jobs'[i].how # "ok"
      BY <1>1, <2>1, RestFits
    <2>3. /\ LinkTyped' /\ WireTyped' /\ JobsTyped' /\ SessionTyped' /\ SocketsFit' /\ NumbersFit'
          /\ ServerFits' /\ PagesFit' /\ LoginsFit' /\ StreamFits' /\ JobsFit'
      BY <1>2, <2>1, <2>2, QueuedFits
    <2>4. TableTyped' /\ MapFits'
      BY <1>2, <2>1 DEF RpcInv, TableTyped, MapFits
    <2> QED
      BY <2>3, <2>4 DEF RpcInv
  <1>4. CASE later # {}
    <2>1. e \in map /\ e.sub \in DOMAIN subs /\ e.pos \in DOMAIN subs
      BY <1>1, <1>4, NextEntry
    <2> HIDE DEF e
    <2>2. /\ subs' = Restoring(e.sub)
          /\ SendRequest(p, state = "authenticated", Rest)
      BY <1>1, <1>4
    <2>3. /\ subs' \in Seq(Page) /\ DOMAIN subs' = DOMAIN subs /\ Len(subs') = Len(subs)
          /\ \A o \in DOMAIN subs : subs'[o].topic = subs[o].topic
      BY <2>1, <2>2, RestoringFits
    <2>4. p \in Purpose /\ Paged(p) /\ p.sub = e.sub
      <3>1. e.sub \in Sub /\ e.pos \in Sub
        BY <2>1, SubsAreSub
      <3>2. Job.sock \in {0} \cup Socket
        BY <1>1, JobFits, ResultFields
      <3> QED
        BY <3>1, <3>2, PurposesAsked DEF Paged
    <2> HIDE DEF p
    <2>5. /\ Rest \in Seq(Result \cup Loop) /\ (Online => Rest = <<>>)
          /\ \A i \in DOMAIN Rest : (Paged(Rest[i].for) => Rest[i].for.sub \in DOMAIN subs')
                                    /\ (Rest[i].for.what = "next" \/ Rest[i].how # "ok")
      BY <1>1, <2>3, JobFits DEF RpcInv, JobsFit
    <2>6. /\ LinkTyped' /\ WireTyped' /\ JobsTyped' /\ SessionTyped' /\ SocketsFit' /\ NumbersFit'
          /\ ServerFits' /\ PagesFit' /\ LoginsFit' /\ StreamFits' /\ JobsFit'
      <3> DEFINE rest == Rest
      <3>1. SendRequest(p, state = "authenticated", rest) /\ rest \in Seq(Result \cup Loop) /\ (Online => rest = <<>>)
            /\ \A i \in DOMAIN rest : (Paged(rest[i].for) => rest[i].for.sub \in DOMAIN subs')
                                      /\ (rest[i].for.what = "next" \/ rest[i].how # "ok")
        BY <2>2, <2>5
      <3> HIDE DEF rest
      <3> QED
        BY <1>2, <2>1, <2>3, <2>4, <3>1, AskFits
    <2>7. TableTyped' /\ MapFits'
      BY <1>2, <2>3 DEF RpcInv, TableTyped, MapFits
    <2> QED
      BY <2>6, <2>7 DEF RpcInv
  <1> QED
    BY <1>3, <1>4

(* What follows a page's answer: nothing, or the loop goes on. *)
LEMMA ReturnFits ==
    ASSUME RpcInv, jobs # <<>>, Busy(Job.for), jobs' = Return, DOMAIN subs \subseteq DOMAIN subs'
    PROVE  /\ jobs' \in Seq(Result \cup Loop) /\ (Online => Len(jobs') <= 1)
           /\ \A i \in DOMAIN jobs' : Paged(jobs'[i].for) => jobs'[i].for.sub \in DOMAIN subs'
           /\ \A i \in DOMAIN jobs' : jobs'[i].for.what = "next" \/ jobs'[i].how # "ok"
  <1>1. CASE Job.for.loop = 0
    BY <1>1, RestFits DEF Return
  <1>2. CASE Job.for.loop # 0
    <2> DEFINE j    == Next_(Job.for.loop, Job.for.pos)
               rest == Rest
    <2>1. /\ rest \in Seq(Result \cup Loop) /\ (Online => rest = <<>>)
          /\ \A i \in DOMAIN rest : (Paged(rest[i].for) => rest[i].for.sub \in DOMAIN subs')
                                    /\ (rest[i].for.what = "next" \/ rest[i].how # "ok")
      BY JobFits DEF RpcInv, JobsFit
    <2>2. Job.for.loop \in Socket /\ Job.for.pos \in {0} \cup Sub
      <3>1. Job \in Result
        BY JobFits, ResultFields DEF Busy
      <3>2. Job.for \in Purpose
        BY <3>1 DEF Result
      <3> QED
        BY <1>2, <3>2, PurposeFields
    <2>3. j \in Result \cup Loop /\ j.for.what = "next"
      BY <2>2 DEF Next_, Loop
    <2>4. jobs' = Append(rest, j)
      BY <1>2 DEF Return
    <2>5. ~Paged(j.for)
      BY <2>3 DEF Paged
    <2> HIDE DEF j, rest
    <2> QED
      BY <2>1, <2>3, <2>4, <2>5, AppendedFits
  <1> QED
    BY <1>1, <1>2

(* A continuation of a subscription or a refresh has a page and says which *)
(* loop waits for it.                                                      *)
LEMMA BusyFields ==
    ASSUME RpcInv, jobs # <<>>, Busy(Job.for)
    PROVE  /\ Job.for.sub \in DOMAIN subs /\ Job.for.loop \in {0} \cup Socket /\ Job.for.pos \in {0} \cup Sub
           /\ Job.for.latest \in BOOLEAN /\ Job.shows \in Nat /\ Paged(Job.for)
  <1>1. Job \in Result
    BY JobFits, ResultFields DEF Busy
  <1>2. Job.for \in Purpose /\ Job.shows \in Nat
    BY <1>1 DEF Result
  <1>3. Paged(Job.for)
    BY DEF Busy, Paged
  <1> QED
    BY <1>2, <1>3, PurposeFields, JobFits

(* The rest of the queue, as what AskFits wants it. *)
LEMMA RestIsQueue ==
    ASSUME RpcInv, jobs # <<>>, DOMAIN subs \subseteq DOMAIN subs'
    PROVE  /\ Rest \in Seq(Result \cup Loop) /\ (Online => Rest = <<>>)
           /\ \A i \in DOMAIN Rest : (Paged(Rest[i].for) => Rest[i].for.sub \in DOMAIN subs')
                                     /\ (Rest[i].for.what = "next" \/ Rest[i].how # "ok")
  BY JobFits DEF RpcInv, JobsFit

(* After a subscription was answered: refresh, return if it was replaced,  *)
(* or close the connection.                                                *)
LEMMA SubscribedKeeps ==
    ASSUME RpcInv, Subscribed
    PROVE  RpcInv'
  <1> DEFINE o    == Job.for.sub
             rest == Rest
             p    == [what |-> "refresh", sub |-> o, loop |-> Job.for.loop, pos |-> Job.for.pos, latest |-> TRUE]
             s    == IF Job.for.loop = 0 THEN socket ELSE Job.for.loop
             w    == [subs[o] EXCEPT !.restoring = FALSE]
  <1>1. jobs # <<>> /\ Job.for.what = "subscribe" /\ Busy(Job.for)
    BY DEF Subscribed, Runs, Busy
  <1>2. /\ \/ /\ Job.how = "ok" /\ Current(o)
              /\ SendRequest(p, state = "authenticated", rest)
              /\ UNCHANGED <<subs, sockets, answers, outbox, topics>>
           \/ /\ jobs' = Return
              /\ UNCHANGED <<wire, sockets, subs, session>>
           \/ /\ Job.how # "ok"
              /\ subs' = [subs EXCEPT ![o] = w]
              /\ sockets' = Closed(sockets, s)
              /\ jobs' = Rest /\ Hangup
              /\ UNCHANGED wire
        /\ UNCHANGED <<login, state, timer, generation, socket, map, happened, logins, faults>>
    BY DEF Subscribed, Ask
  <1>3. /\ o \in DOMAIN subs /\ Job.for.loop \in {0} \cup Socket /\ Job.for.pos \in {0} \cup Sub
        /\ s \in {0} \cup Socket /\ w \in Page /\ w.topic = subs[o].topic
    <2>1. o \in DOMAIN subs /\ Job.for.loop \in {0} \cup Socket /\ Job.for.pos \in {0} \cup Sub
      BY <1>1, BusyFields
    <2>2. subs[o] \in Page
      BY <2>1, SubsAreSub
    <2> QED
      BY <2>1, <2>2 DEF Page, RpcInv, LinkTyped
  <1>4. UNCHANGED <<credential, intentional, known, state, timer, generation, socket, map, happened, logins, faults>>
    BY <1>2 DEF login
  <1>5. p \in Purpose /\ Paged(p) /\ p.sub = o
    BY <1>3, PurposesAsked, SubsAreSub DEF Paged
  <1> HIDE DEF o, rest, p, s, w
  <1>6. CASE /\ SendRequest(p, state = "authenticated", rest)
             /\ UNCHANGED <<subs, sockets, answers, outbox, topics>>
    <2>1. /\ rest \in Seq(Result \cup Loop) /\ (Online => rest = <<>>)
          /\ \A i \in DOMAIN rest : (Paged(rest[i].for) => rest[i].for.sub \in DOMAIN subs')
                                    /\ (rest[i].for.what = "next" \/ rest[i].how # "ok")
      BY <1>1, <1>6, RestIsQueue DEF rest
    <2>2. /\ LinkTyped' /\ WireTyped' /\ JobsTyped' /\ SessionTyped' /\ SocketsFit' /\ NumbersFit'
          /\ ServerFits' /\ PagesFit' /\ LoginsFit' /\ StreamFits' /\ JobsFit'
      BY <1>3, <1>4, <1>5, <1>6, <2>1, AskFits
    <2>3. TableTyped' /\ MapFits'
      BY <1>4, <1>6 DEF RpcInv, TableTyped, MapFits
    <2> QED
      BY <2>2, <2>3 DEF RpcInv
  <1>7. CASE jobs' = Return /\ UNCHANGED <<wire, sockets, subs, session>>
    <2>1. /\ jobs' \in Seq(Result \cup Loop) /\ (Online => Len(jobs') <= 1)
          /\ \A i \in DOMAIN jobs' : Paged(jobs'[i].for) => jobs'[i].for.sub \in DOMAIN subs'
          /\ \A i \in DOMAIN jobs' : jobs'[i].for.what = "next" \/ jobs'[i].how # "ok"
      BY <1>1, <1>7, ReturnFits
    <2>2. UNCHANGED <<nextId, pending, requests, inbox, answers, outbox, topics>>
      BY <1>7 DEF wire, session
    <2>3. /\ LinkTyped' /\ WireTyped' /\ JobsTyped' /\ SessionTyped' /\ SocketsFit' /\ NumbersFit'
          /\ ServerFits' /\ PagesFit' /\ LoginsFit' /\ StreamFits' /\ JobsFit'
      BY <1>4, <1>7, <2>1, <2>2, QueuedFits
    <2>4. TableTyped' /\ MapFits'
      BY <1>4, <1>7 DEF RpcInv, TableTyped, MapFits
    <2> QED
      BY <2>3, <2>4 DEF RpcInv
  <1>8. CASE /\ subs' = [subs EXCEPT ![o] = w] /\ sockets' = Closed(sockets, s) /\ jobs' = Rest /\ Hangup
             /\ UNCHANGED wire
    <2>1. /\ subs' \in Seq(Page) /\ DOMAIN subs' = DOMAIN subs /\ Len(subs') = Len(subs)
          /\ \A q \in DOMAIN subs : subs'[q].topic = subs[q].topic
      BY <1>3, <1>8, PageFits
    <2>2. /\ jobs' \in Seq(Result \cup Loop) /\ Len(jobs') <= Len(jobs)
          /\ \A i \in DOMAIN jobs' : jobs'[i].for.what = "next" \/ jobs'[i].how # "ok"
          /\ \A i \in DOMAIN jobs' : \E k \in DOMAIN jobs : jobs'[i] = jobs[k]
      BY <1>1, <1>8, <2>1, RestFits
    <2>3. UNCHANGED <<nextId, pending, requests>>
      BY <1>8 DEF wire
    <2>4. /\ LinkTyped' /\ WireTyped' /\ JobsTyped' /\ SessionTyped' /\ SocketsFit' /\ NumbersFit'
          /\ ServerFits' /\ PagesFit' /\ LoginsFit' /\ StreamFits' /\ JobsFit'
      BY <1>3, <1>4, <1>8, <2>1, <2>2, <2>3, Shut
    <2>5. TableTyped' /\ MapFits'
      BY <1>4, <2>1, TableKept
    <2> QED
      BY <2>4, <2>5 DEF RpcInv
  <1> QED
    BY <1>2, <1>6, <1>7, <1>8

(* After a refresh was answered the page shows what it brought and what    *)
(* was held back.                                                          *)
LEMMA RefreshedKeeps ==
    ASSUME RpcInv, Refreshed
    PROVE  RpcInv'
  <1> DEFINE o      == Job.for.sub
             loaded == IF ~Job.for.latest THEN subs[o]
                       ELSE IF Job.how = "ok" THEN [subs[o] EXCEPT !.view = 1 .. Job.shows, !.failed = FALSE]
                       ELSE [subs[o] EXCEPT !.failed = TRUE]
             w      == [loaded EXCEPT !.restoring = FALSE, !.buffered = {}, !.view = @ \cup subs[o].buffered]
  <1>1. jobs # <<>> /\ Job.for.what = "refresh" /\ Busy(Job.for)
    BY DEF Refreshed, Runs, Busy
  <1>2. /\ subs' = IF ~Current(o) THEN subs ELSE [subs EXCEPT ![o] = w]
        /\ jobs' = Return
        /\ UNCHANGED <<login, link, wire, map, session, happened, logins, faults>>
    BY DEF Refreshed
  <1>3. o \in DOMAIN subs /\ subs[o] \in Page /\ Job.shows \in Nat
    BY <1>1, BusyFields, SubsAreSub
  <1>4. loaded \in Page /\ loaded.topic = subs[o].topic
    <2>1. /\ [subs[o] EXCEPT !.view = 1 .. Job.shows, !.failed = FALSE] \in Page
          /\ [subs[o] EXCEPT !.view = 1 .. Job.shows, !.failed = FALSE].topic = subs[o].topic
      <3> DEFINE x == subs[o]
                 v == 1 .. Job.shows
      <3>1. x \in Page /\ v \subseteq Nat
        BY <1>3
      <3> HIDE DEF x, v
      <3>2. [x EXCEPT !.view = v, !.failed = FALSE] \in Page /\ [x EXCEPT !.view = v, !.failed = FALSE].topic = x.topic
        BY <3>1 DEF Page
      <3> QED
        BY <3>2 DEF x, v
    <2>2. [subs[o] EXCEPT !.failed = TRUE] \in Page /\ [subs[o] EXCEPT !.failed = TRUE].topic = subs[o].topic
      BY <1>3 DEF Page
    <2> QED
      BY <1>3, <2>1, <2>2
  <1> HIDE DEF loaded
  <1>5. w \in Page /\ w.topic = subs[o].topic
    BY <1>3, <1>4 DEF Page
  <1> HIDE DEF w, o
  <1>6. /\ subs' \in Seq(Page) /\ DOMAIN subs' = DOMAIN subs /\ Len(subs') = Len(subs)
        /\ \A q \in DOMAIN subs : subs'[q].topic = subs[q].topic
    <2>1. CASE subs' = subs
      BY <2>1 DEF RpcInv, TableTyped
    <2>2. CASE subs' = [subs EXCEPT ![o] = w]
      BY <1>3, <1>5, <2>2, PageFits
    <2> QED
      BY <1>2, <2>1, <2>2
  <1>7. UNCHANGED <<credential, intentional, known, state, timer, generation, socket, sockets, map, happened, logins, faults,
                    nextId, pending, requests, inbox, answers, outbox, topics>>
    BY <1>2 DEF login, link, wire, session
  <1>8. /\ jobs' \in Seq(Result \cup Loop) /\ (Online => Len(jobs') <= 1)
        /\ \A i \in DOMAIN jobs' : Paged(jobs'[i].for) => jobs'[i].for.sub \in DOMAIN subs'
        /\ \A i \in DOMAIN jobs' : jobs'[i].for.what = "next" \/ jobs'[i].how # "ok"
    BY <1>1, <1>2, <1>6, ReturnFits
  <1>9. /\ LinkTyped' /\ WireTyped' /\ JobsTyped' /\ SessionTyped' /\ SocketsFit' /\ NumbersFit'
        /\ ServerFits' /\ PagesFit' /\ LoginsFit' /\ StreamFits' /\ JobsFit'
    BY <1>6, <1>7, <1>8, QueuedFits
  <1>10. TableTyped' /\ MapFits'
    BY <1>6, <1>7, TableKept
  <1> QED
    BY <1>9, <1>10 DEF RpcInv

(* Nobody looks at the answer to an unsubscription.                        *)
LEMMA UnsubscribedKeeps ==
    ASSUME RpcInv, Unsubscribed
    PROVE  RpcInv'
  <1>1. /\ jobs # <<>> /\ jobs' = Rest
        /\ UNCHANGED <<credential, intentional, known, state, timer, generation, socket, sockets, nextId, pending, requests,
                       subs, map, inbox, answers, outbox, topics, happened, logins, faults>>
    BY DEF Unsubscribed, Runs, login, link, wire, table, session
  <1>2. /\ jobs' \in Seq(Result \cup Loop) /\ (Online => Len(jobs') <= 1)
        /\ \A i \in DOMAIN jobs' : Paged(jobs'[i].for) => jobs'[i].for.sub \in DOMAIN subs'
        /\ \A i \in DOMAIN jobs' : jobs'[i].for.what = "next" \/ jobs'[i].how # "ok"
    BY <1>1, RestFits
  <1>3. /\ LinkTyped' /\ WireTyped' /\ JobsTyped' /\ SessionTyped' /\ SocketsFit' /\ NumbersFit'
        /\ ServerFits' /\ PagesFit' /\ LoginsFit' /\ StreamFits' /\ JobsFit'
    BY <1>1, <1>2, QueuedFits
  <1>4. TableTyped' /\ MapFits'
    BY <1>1 DEF RpcInv, TableTyped, MapFits
  <1> QED
    BY <1>3, <1>4 DEF RpcInv

(* The calls of pages. *)

Added(t, restoring, old) ==
    Append([p \in DOMAIN subs |-> IF \E e \in old : e.sub = p THEN Fresh(t) ELSE subs[p]],
           [Fresh(t) EXCEPT !.restoring = restoring])

(* A page is added; the one it replaces is forgotten, and keeps its topic. *)
LEMMA AddedFits ==
    ASSUME RpcInv, NEW t \in Topic, NEW restoring \in BOOLEAN, NEW old, old \subseteq map,
           subs' = Added(t, restoring, old),
           \A e \in old : subs[e.sub].topic = t
    PROVE  /\ subs' \in Seq(Page) /\ Len(subs') = Len(subs) + 1 /\ DOMAIN subs' = 1 .. Len(subs) + 1
           /\ DOMAIN subs \subseteq DOMAIN subs' /\ Len(subs) + 1 \notin DOMAIN subs
           /\ \A p \in DOMAIN subs : subs'[p] = IF \E e \in old : e.sub = p THEN Fresh(t) ELSE subs[p]
           /\ \A p \in DOMAIN subs : subs'[p].topic = subs[p].topic
           /\ subs'[Len(subs) + 1].restoring = restoring
           /\ subs'[Len(subs) + 1].view = {} /\ subs'[Len(subs) + 1].buffered = {}
           /\ subs'[Len(subs) + 1].topic = t
  <1> DEFINE kept == [p \in DOMAIN subs |-> IF \E e \in old : e.sub = p THEN Fresh(t) ELSE subs[p]]
             w    == [Fresh(t) EXCEPT !.restoring = restoring]
  <1>1. DOMAIN subs = 1 .. Len(subs) /\ Len(subs) \in Nat /\ \A o \in DOMAIN subs : subs[o] \in Page
    BY SubsAreSub
  <1>2. Fresh(t) \in Page /\ Fresh(t).topic = t /\ w \in Page /\ w.topic = t /\ w.restoring = restoring /\ w.view = {} /\ w.buffered = {}
    BY DEF Fresh, Page
  <1>3. kept \in Seq(Page) /\ Len(kept) = Len(subs) /\ DOMAIN kept = DOMAIN subs
    <2>1. kept \in [1 .. Len(subs) -> Page]
      BY <1>1, <1>2
    <2> HIDE DEF kept
    <2>2. kept \in Seq(Page)
      BY <1>1, <2>1, SeqDef
    <2>3. Len(kept) = Len(subs)
      BY <1>1, <2>1, <2>2, LenProperties
    <2> QED
      BY <1>1, <2>1, <2>2, <2>3
  <1>4. \A p \in DOMAIN subs : kept[p] = IF \E e \in old : e.sub = p THEN Fresh(t) ELSE subs[p]
    OBVIOUS
  <1>5. subs' = Append(kept, w)
    BY DEF Added
  <1> HIDE DEF kept, w
  <1>6. /\ subs' \in Seq(Page) /\ Len(subs') = Len(subs) + 1 /\ DOMAIN subs' = 1 .. Len(subs) + 1
        /\ \A p \in 1 .. Len(subs) : subs'[p] = kept[p]
        /\ subs'[Len(subs) + 1] = w
    <2>1. /\ Append(kept, w) \in Seq(Page) /\ Len(Append(kept, w)) = Len(kept) + 1
          /\ \A p \in 1 .. Len(kept) : Append(kept, w)[p] = kept[p]
          /\ Append(kept, w)[Len(kept) + 1] = w
      BY ONLY <1>2, <1>3, AppendProperties
    <2> QED
      BY <1>3, <1>5, <2>1, LenProperties
  <1>7. \A p \in DOMAIN subs : subs'[p].topic = subs[p].topic
    <2> SUFFICES ASSUME NEW p \in DOMAIN subs PROVE subs'[p].topic = subs[p].topic
      OBVIOUS
    <2>1. subs'[p] = IF \E e \in old : e.sub = p THEN Fresh(t) ELSE subs[p]
      BY <1>1, <1>4, <1>6
    <2> QED
      BY <1>2, <2>1
  <1> QED
    BY <1>1, <1>2, <1>4, <1>6, <1>7 DEF w

(* A page subscribes: its entry takes the place of another one of the same *)
(* topic in the Map, and no topic has two.                                 *)
LEMMA SubscribeKeeps ==
    ASSUME RpcInv, NEW t \in Topic, Subscribe(t)
    PROVE  RpcInv'
  <1> DEFINE o   == Len(subs) + 1
             old == {e \in map : subs[e.sub].topic = t}
             n   == [sub |-> o, pos |-> IF old = {} THEN o ELSE (CHOOSE e \in old : TRUE).pos]
             p   == [what |-> "subscribe", sub |-> o, loop |-> 0, pos |-> 0, latest |-> TRUE]
  <1>1. /\ jobs = <<>> /\ Len(subs) < MaxSub
        /\ map' = (map \ old) \cup {n}
        /\ subs' = Append([q \in DOMAIN subs |-> IF \E e \in old : e.sub = q THEN Fresh(t) ELSE subs[q]],
                          [Fresh(t) EXCEPT !.restoring = (state = "authenticated")])
        /\ IF state = "authenticated" THEN SendRequest(p, state = "authenticated", <<>>)
                                      ELSE UNCHANGED <<wire, jobs, inbox>>
        /\ UNCHANGED <<login, link, answers, outbox, topics, happened, logins, faults>>
    BY DEF Subscribe, Ask
  <1>2. \A e \in map : e.sub \in DOMAIN subs /\ e.pos \in DOMAIN subs /\ (e \in old <=> subs[e.sub].topic = t)
    BY DEF RpcInv, TableTyped
  <1>3. o \in Sub /\ o \in Nat \ {0}
    BY <1>1, SubsAreSub, RpcAssumption DEF Sub
  <1>4. /\ n.sub = o /\ n \in [sub : {o}, pos : {o} \cup DOMAIN subs]
        /\ \/ n.pos = o
           \/ \E e \in old : n.pos = e.pos
    BY <1>2
  <1> HIDE DEF n
  <1>5. old \subseteq map
    OBVIOUS
  <1> HIDE DEF old
  <1>6. /\ subs' \in Seq(Page) /\ Len(subs') = o /\ DOMAIN subs' = 1 .. o
        /\ DOMAIN subs \subseteq DOMAIN subs' /\ o \notin DOMAIN subs
        /\ \A q \in DOMAIN subs : subs'[q].topic = subs[q].topic
        /\ subs'[o].topic = t
    <2> DEFINE restoring == (state = "authenticated")
    <2>1. /\ restoring \in BOOLEAN
          /\ subs' = Added(t, restoring, old)
      BY <1>1 DEF Added
    <2>2. \A e \in old : subs[e.sub].topic = t
      BY <1>2, <1>5
    <2> HIDE DEF restoring
    <2> QED
      BY ONLY RpcInv, t \in Topic, <1>5, <2>1, <2>2, AddedFits
  <1>7. UNCHANGED <<credential, intentional, known, state, timer, generation, socket, sockets, answers, outbox, topics,
                    happened, logins, faults>>
    BY <1>1 DEF login, link
  <1>8. TableTyped'
    <2>1. map' \subseteq [sub : DOMAIN subs', pos : DOMAIN subs']
      <3>1. o \in DOMAIN subs'
        BY <1>3, <1>6
      <3>2. n \in [sub : DOMAIN subs', pos : DOMAIN subs']
        BY <1>4, <1>6, <3>1
      <3>3. map \subseteq [sub : DOMAIN subs, pos : DOMAIN subs]
        BY DEF RpcInv, TableTyped
      <3> QED
        BY <1>1, <1>6, <3>2, <3>3
    <2>2. o <= MaxSub
      BY <1>1, SubsAreSub, RpcAssumption
    <2> QED
      BY <1>6, <1>7, <2>1, <2>2 DEF RpcInv, TableTyped
  <1>9. MapFits'
    <2> SUFFICES ASSUME NEW e \in map', NEW f \in map', e # f
                 PROVE  e.sub # f.sub /\ e.pos # f.pos /\ subs'[e.sub].topic # subs'[f.sub].topic
      BY DEF MapFits
    <2>1. ASSUME NEW g \in map, g \notin old
          PROVE  g.sub # n.sub /\ g.pos # n.pos /\ subs'[g.sub].topic # subs'[n.sub].topic
      <3>1. g.pos # n.pos
        BY <1>2, <1>4, <1>5, <1>6, <2>1 DEF RpcInv, MapFits
      <3> QED
        BY <1>2, <1>4, <1>6, <2>1, <3>1
    <2>2. CASE e = n
      BY <1>1, <2>1, <2>2
    <2>3. CASE f = n
      BY <1>1, <2>1, <2>3
    <2>4. CASE e # n /\ f # n
      <3>1. e \in map /\ f \in map
        BY <1>1, <2>4
      <3> QED
        BY <1>2, <1>6, <3>1 DEF RpcInv, MapFits
    <2> QED
      BY <2>2, <2>3, <2>4
  <1>10. /\ LinkTyped' /\ WireTyped' /\ JobsTyped' /\ SessionTyped' /\ SocketsFit' /\ NumbersFit'
         /\ ServerFits' /\ PagesFit' /\ LoginsFit' /\ StreamFits' /\ JobsFit'
    <2>1. CASE state = "authenticated"
      <3>1. p \in Purpose /\ Paged(p) /\ p.sub = o
        BY <1>3, PurposesAsked DEF Paged
      <3> HIDE DEF p
      <3>2. p.sub \in DOMAIN subs'
        BY <1>3, <1>6, <3>1
      <3>3. <<>> \in Seq(Result \cup Loop) /\ DOMAIN <<>> = {}
        BY EmptySeq
      <3>4. SendRequest(p, state = "authenticated", <<>>)
        BY <1>1, <2>1
      <3> QED
        BY <1>6, <1>7, <3>1, <3>2, <3>3, <3>4, AskFits
    <2>2. CASE state # "authenticated"
      <3>1. UNCHANGED <<nextId, pending, requests, inbox>> /\ jobs' = <<>>
        BY <1>1, <2>2 DEF wire
      <3>2. jobs' \in Seq(Result \cup Loop) /\ Len(jobs') = 0 /\ DOMAIN jobs' = {}
        BY <3>1, EmptySeq
      <3> QED
        BY <1>6, <1>7, <3>1, <3>2, QueuedFits
    <2> QED
      BY <2>1, <2>2
  <1> QED
    BY <1>8, <1>9, <1>10 DEF RpcInv

(* A page that leaves takes its entry out of the Map and tells the server. *)
LEMMA UnsubscribeKeeps ==
    ASSUME RpcInv, NEW o \in 1 .. Len(subs), Unsubscribe(o)
    PROVE  RpcInv'
  <1> DEFINE p == [what |-> "unsubscribe", sub |-> o]
             w == Fresh(subs[o].topic)
  <1>1. /\ jobs = <<>> /\ map' = {e \in map : e.sub # o} /\ subs' = [subs EXCEPT ![o] = w]
        /\ IF state = "authenticated" THEN SendRequest(p, TRUE, <<>>) ELSE UNCHANGED <<wire, jobs, inbox>>
        /\ UNCHANGED <<login, link, answers, outbox, topics, happened, logins, faults>>
    BY DEF Unsubscribe
  <1>2. o \in DOMAIN subs /\ o \in Sub /\ subs[o] \in Page
    BY SubsAreSub
  <1>3. w \in Page /\ w.topic = subs[o].topic
    BY <1>2 DEF Fresh, Page
  <1> HIDE DEF w
  <1>4. /\ subs' \in Seq(Page) /\ DOMAIN subs' = DOMAIN subs /\ Len(subs') = Len(subs)
        /\ \A q \in DOMAIN subs : subs'[q].topic = subs[q].topic
    BY <1>1, <1>2, <1>3, PageFits
  <1>5. UNCHANGED <<credential, intentional, known, state, timer, generation, socket, sockets, answers, outbox, topics,
                    happened, logins, faults>>
    BY <1>1 DEF login, link
  <1>6. TableTyped' /\ MapFits'
    <2>1. map' \subseteq map
      BY <1>1
    <2> QED
      BY <1>4, <1>5, <2>1, TableKept
  <1>7. /\ LinkTyped' /\ WireTyped' /\ JobsTyped' /\ SessionTyped' /\ SocketsFit' /\ NumbersFit'
        /\ ServerFits' /\ PagesFit' /\ LoginsFit' /\ StreamFits' /\ JobsFit'
    <2>1. CASE state = "authenticated"
      <3>1. p \in Purpose /\ Paged(p) /\ p.sub = o
        BY <1>2, PurposesAsked DEF Paged
      <3> HIDE DEF p
      <3>2. p.sub \in DOMAIN subs'
        BY <1>2, <1>4, <3>1
      <3>3. <<>> \in Seq(Result \cup Loop) /\ DOMAIN <<>> = {}
        BY EmptySeq
      <3>4. SendRequest(p, state = "authenticated", <<>>)
        BY <1>1, <2>1
      <3> QED
        BY <1>4, <1>5, <3>1, <3>2, <3>3, <3>4, AskFits
    <2>2. CASE state # "authenticated"
      <3>1. UNCHANGED <<nextId, pending, requests, inbox>> /\ jobs' = <<>>
        BY <1>1, <2>2 DEF wire
      <3>2. jobs' \in Seq(Result \cup Loop) /\ Len(jobs') = 0 /\ DOMAIN jobs' = {}
        BY <3>1, EmptySeq
      <3> QED
        BY <1>4, <1>5, <3>1, <3>2, QueuedFits
    <2> QED
      BY <2>1, <2>2
  <1> QED
    BY <1>6, <1>7 DEF RpcInv

(* The client before the first login.                                      *)
LEMMA InitFits == Init => RpcInv
  <1> SUFFICES ASSUME Init PROVE RpcInv
    OBVIOUS
  <1>1. LinkTyped
    BY DEF Init, LinkTyped, State, Token, Ready, Gone
  <1>2. WireTyped
    <2>1. IsFiniteSet({})
      BY FS_EmptySet
    <2>2. pending \in [DOMAIN pending -> Socket]
      BY DEF Init
    <2> QED
      BY <2>1, <2>2 DEF Init, WireTyped
  <1>3. JobsTyped /\ SessionTyped
    BY EmptySeq DEF Init, JobsTyped, SessionTyped
  <1>4. TableTyped
    BY EmptySeq, RpcAssumption DEF Init, TableTyped
  <1>5. MapFits /\ NumbersFit /\ PagesFit /\ LoginsFit
    BY DEF Init, MapFits, NumbersFit, PagesFit, LoginsFit
  <1>6. SocketsFit
    BY DEF Init, SocketsFit, Stage, Authed, Live, Gone
  <1>7. ServerFits /\ StreamFits /\ JobsFit
    BY DEF Init, ServerFits, StreamFits, JobsFit, Online
  <1> QED
    BY <1>1, <1>2, <1>3, <1>4, <1>5, <1>6, <1>7 DEF RpcInv

(* A step that changes nothing keeps the invariant.                        *)
LEMMA StutterKeeps ==
    ASSUME RpcInv, UNCHANGED vars
    PROVE  RpcInv'
  <1>1. UNCHANGED <<credential, intentional, known, state, timer, generation, socket, sockets, nextId, pending, requests, jobs,
                    subs, map, inbox, answers, outbox, topics, happened, logins, faults>>
    BY DEF vars, login, link, wire, table, session
  <1>2. (Online' <=> Online) /\ (Authed' <=> Authed) /\ \A ready : Stage(ready)' <=> Stage(ready)
    BY <1>1 DEF Online, Authed, Stage
  <1>3. LinkTyped' /\ WireTyped' /\ JobsTyped' /\ TableTyped' /\ SessionTyped'
    BY <1>1 DEF RpcInv, LinkTyped, WireTyped, JobsTyped, TableTyped, SessionTyped
  <1>4. MapFits' /\ SocketsFit' /\ NumbersFit' /\ ServerFits'
    BY <1>1, <1>2 DEF RpcInv, MapFits, SocketsFit, NumbersFit, ServerFits, Live
  <1>5. PagesFit' /\ LoginsFit' /\ StreamFits' /\ JobsFit'
    BY <1>1, <1>2 DEF RpcInv, PagesFit, LoginsFit, StreamFits, JobsFit
  <1> QED
    BY <1>3, <1>4, <1>5 DEF RpcInv

(* Every step of the browser, the network and the server keeps the         *)
(* invariant.                                                              *)
LEMMA StepKeeps == RpcInv /\ [Next]_vars => RpcInv'
  <1> SUFFICES ASSUME RpcInv, [Next]_vars PROVE RpcInv'
    OBVIOUS
  <1>1. ASSUME NEW token \in Tokens, Connect(token) PROVE RpcInv'
    BY <1>1, ConnectKeeps
  <1>2. CASE Dispose
    BY <1>2, DisposeKeeps
  <1>3. CASE Retry
    BY <1>3, RetryKeeps
  <1>4. ASSUME NEW t \in Topic, Subscribe(t) PROVE RpcInv'
    BY <1>4, SubscribeKeeps
  <1>5. ASSUME NEW o \in 1 .. Len(subs), Unsubscribe(o) PROVE RpcInv'
    BY <1>5, UnsubscribeKeeps
  <1>6. CASE Authenticates
    BY <1>6, AuthenticatesKeeps
  <1>7. CASE Capabilities
    BY <1>7, CapabilitiesKeeps
  <1>8. CASE RestoreNext
    BY <1>8, RestoreNextKeeps
  <1>9. CASE Subscribed
    BY <1>9, SubscribedKeeps
  <1>10. CASE Refreshed
    BY <1>10, RefreshedKeeps
  <1>11. CASE Unsubscribed
    BY <1>11, UnsubscribedKeeps
  <1>12. ASSUME NEW s \in Socket, Opens(s) PROVE RpcInv'
    BY <1>12, OpensKeeps
  <1>13. ASSUME NEW s \in Socket, Fails(s) \/ Closes(s) \/ Drops(s) PROVE RpcInv'
    BY <1>13, LossKeeps
  <1>14. ASSUME NEW s \in Socket, Receive(s) PROVE RpcInv'
    BY <1>14, ReceiveKeeps
  <1>15. ASSUME NEW s \in Socket, Malformed(s) PROVE RpcInv'
    BY <1>15, MalformedKeeps
  <1>16. CASE TimerFires
    BY <1>16, TimerKeeps
  <1>17. ASSUME NEW r \in requests, TimesOut(r) PROVE RpcInv'
    BY <1>17, TimesOutKeeps
  <1>18. ASSUME NEW r \in inbox, Serve(r) PROVE RpcInv'
    BY <1>18, ServeKeeps
  <1>19. ASSUME NEW m \in answers, Reply(m) PROVE RpcInv'
    BY <1>19, ReplyKeeps
  <1>20. ASSUME NEW t \in Topic, Happens(t) PROVE RpcInv'
    BY <1>20, HappensKeeps
  <1>21. CASE UNCHANGED vars
    BY <1>21, StutterKeeps
  <1> QED
    BY <1>1, <1>2, <1>3, <1>4, <1>5, <1>6, <1>7, <1>8, <1>9, <1>10, <1>11, <1>12, <1>13, <1>14, <1>15, <1>16, <1>17,
       <1>18, <1>19, <1>20, <1>21 DEF Next, User, Microtask, Network

(* Whatever is lost, closed, late or unreadable, whoever logs in and       *)
(* subscribes: one socket is alive, a number and a socket name one         *)
(* request, and what waits at the server is what the table has under its   *)
(* number.                                                                 *)
THEOREM Invariance == Spec => []RpcInv
  <1>1. Init => RpcInv
    BY InitFits
  <1>2. RpcInv /\ [Next]_vars => RpcInv'
    BY StepKeeps
  <1> QED
    BY <1>1, <1>2, PTL DEF Spec

-----------------------------------------------------------------------------
(* LossKeepsTheToken: an answer "closed" to a login of the newest          *)
(* connection finds the token forgotten already, or belongs to a user's    *)
(* login, or to a reconnection whose connection was lost amid the login.   *)
Excused == credential = "none" \/ sockets[generation].initial \/ cut # 0
TokenFits ==
    generation # 0 =>
      /\ \A i \in DOMAIN jobs :
           /\ Proving(jobs[i].for) /\ jobs[i].how = "closed" /\ jobs[i].sock = generation => Excused
           /\ ~Proving(jobs[i].for) => Excused \/ Authed \/ Stage({"closed"})
      /\ Stage({"closing", "aborting"}) =>
           Excused \/ Authed \/ DOMAIN pending = {} \/ ~\E r \in requests : Proving(r.for) /\ r.sock = generation

(* A step that leaves the connections alone adds no job that matters.      *)
LEMMA TokenKept ==
    ASSUME TokenFits, UNCHANGED <<credential, generation, sockets, cut>>, DOMAIN pending' \subseteq DOMAIN pending,
           \A r \in requests' : Proving(r.for) /\ r.sock = generation =>
             Stage({"open"}) \/ \E q \in requests : Proving(q.for) /\ q.sock = generation,
           \A i \in DOMAIN jobs' :
             \/ \E k \in DOMAIN jobs : jobs'[i] = jobs[k]
             \/ Proving(jobs'[i].for) /\ jobs'[i].how # "closed"
             \/ ~Proving(jobs'[i].for) /\ (Excused \/ Authed \/ Stage({"closed"}))
    PROVE  TokenFits'
  <1>1. (Excused' <=> Excused) /\ (Authed' <=> Authed) /\ \A ready : Stage(ready)' <=> Stage(ready)
    BY DEF Excused, Authed, Stage
  <1>2. Stage({"closing", "aborting"}) => ~Stage({"open"})
    BY DEF Stage
  <1>3. SUFFICES ASSUME generation # 0 PROVE TokenFits'
    BY DEF TokenFits
  <1>4. \A i \in DOMAIN jobs' :
          /\ Proving(jobs'[i].for) /\ jobs'[i].how = "closed" /\ jobs'[i].sock = generation => Excused
          /\ ~Proving(jobs'[i].for) => Excused \/ Authed \/ Stage({"closed"})
    BY <1>3 DEF TokenFits
  <1>5. Stage({"closing", "aborting"}) =>
          Excused \/ Authed \/ DOMAIN pending' = {} \/ ~\E r \in requests' : Proving(r.for) /\ r.sock = generation
    BY <1>2, <1>3 DEF TokenFits
  <1> QED
    BY <1>1, <1>4, <1>5 DEF TokenFits

(* Nothing matters before a connection, on a new one or without a token.   *)
LEMMA TokenFresh ==
    ASSUME \/ generation' = 0 \/ Excused'
           \/ jobs' = <<>> /\ ~Stage({"closing", "aborting"})'
    PROVE  TokenFits'
  BY DEF TokenFits

(* What the user does leaves no rejected login behind that could forget    *)
(* the token.                                                              *)
LEMMA UserKeepsToken ==
    ASSUME RpcInv, (\E token \in Tokens : Connect(token)) \/ Dispose \/ Retry \/ TimerFires
    PROVE  TokenFits'
  <1>1. ASSUME NEW ss, NEW initial, OpenSocket(ss, initial), ss \in [Socket -> [ready : Ready, initial : BOOLEAN, authed : BOOLEAN]]
        PROVE  /\ generation' \in Socket /\ sockets'[generation'].ready = "connecting" /\ sockets'[generation'].initial = initial
    BY <1>1 DEF OpenSocket
  <1>2. Closed(sockets, socket) \in [Socket -> [ready : Ready, initial : BOOLEAN, authed : BOOLEAN]]
    BY NoneAliveClosed
  <1>3. sockets \in [Socket -> [ready : Ready, initial : BOOLEAN, authed : BOOLEAN]]
    BY DEF RpcInv, LinkTyped
  <1>4. ASSUME NEW token \in Tokens, Connect(token) PROVE generation' = 0 \/ Excused'
    BY <1>1, <1>2, <1>4 DEF Connect, CannotOpen, Excused
  <1>5. CASE Dispose
    BY <1>5, TokenFresh DEF Dispose
  <1>6. ASSUME Retry PROVE generation' = 0 \/ (jobs' = <<>> /\ ~Stage({"closing", "aborting"})')
    BY <1>1, <1>2, <1>6 DEF Retry, Stage, CannotOpen
  <1>7. ASSUME TimerFires PROVE generation' = 0 \/ (jobs' = <<>> /\ ~Stage({"closing", "aborting"})')
    BY <1>1, <1>3, <1>7 DEF TimerFires, Stage, CannotOpen
  <1> QED
    BY <1>4, <1>5, <1>6, <1>7, TokenFresh

(* What onopen asks is asked with the token held then.                     *)
LEMMA OpensKeepsToken ==
    ASSUME RpcInv, NEW s \in Socket, Opens(s)
    PROVE  TokenFits'
  <1>1. /\ jobs' = <<>> /\ generation' = generation
        /\ sockets' = [sockets EXCEPT ![s].ready = "open"] /\ sockets[s].ready = "connecting"
    BY DEF Opens
  <1>2. s = generation
    BY <1>1 DEF RpcInv, SocketsFit, Live
  <1>3. ~Stage({"closing", "aborting"})'
    BY <1>1, <1>2 DEF Stage, RpcInv, LinkTyped
  <1> QED
    BY <1>1, <1>3, TokenFresh

(* A closed connection of a reconnection has no login under way ...        *)
LEMMA LossKeepsTokenFits ==
    ASSUME RpcInv, TokenFits, NEW s \in Socket, Fails(s) \/ Closes(s) \/ Drops(s)
    PROVE  TokenFits'
  <1>1. PICK dead \in BOOLEAN : OnClose(s, dead) /\ (sockets[s].initial /\ sockets[s].ready \in {"connecting", "aborting"} => dead)
    <2>1. sockets[s].initial \in BOOLEAN
      BY DEF RpcInv, LinkTyped
    <2> QED
      BY <2>1 DEF Fails, Closes, Drops
  <1>2. /\ jobs = <<>> /\ generation' = generation /\ sockets' = [sockets EXCEPT ![s] = Gone]
        /\ \/ sockets[s].ready \in {"connecting", "aborting", "closing"}
           \/ sockets[s].ready = "open" /\ (cut' = s \/ sockets[s].authed \/ sockets[s].initial)
        /\ cut' \in {cut, s} /\ s # 0
    BY <1>1 DEF Fails, Closes, Drops, OnClose, Socket
  <1>3. CASE s # generation
    <2>1. /\ jobs' = jobs /\ requests' = requests
          /\ \/ credential' = "none"
             \/ credential' = credential
          /\ pending' = pending
      BY <1>1, <1>3 DEF OnClose, GiveUp
    <2>2. generation # 0 => sockets'[generation] = sockets[generation]
      BY <1>2, <1>3 DEF RpcInv, LinkTyped
    <2> QED
      BY <1>2, <2>1, <2>2 DEF TokenFits, Excused, Authed, Stage
  <1>4. CASE s = generation
    <2>1. /\ RejectPending("closed")
          /\ credential' = "none" \/ (credential' = credential /\ ~dead /\ (sockets[s].authed \/ ~sockets[s].initial))
      BY <1>1, <1>4 DEF OnClose, GiveUp
    <2>2. CASE credential' = "none"
      BY <2>2, TokenFresh DEF Excused
    <2>3. CASE cut' # 0
      BY <2>3, TokenFresh DEF Excused
    <2>4. CASE cut' = 0 /\ credential' = credential /\ credential # "none" /\ ~dead /\ (sockets[s].authed \/ ~sockets[s].initial)
      <3>1. generation # 0 /\ Stage({"closed"})'
        BY <1>2, <1>4 DEF Socket, Stage, Gone, RpcInv, LinkTyped
      <3>2. DOMAIN pending = {} \/ ~\E r \in requests : Proving(r.for) /\ r.sock = generation
        <4>1. CASE Authed
          BY <4>1 DEF RpcInv, LoginsFit
        <4>2. CASE Stage({"connecting"})
          <5>1. nextId = 1
            BY <4>2 DEF RpcInv, SocketsFit
          <5>2. \A r \in requests : r.id \in Nat \ {0} /\ (r.sock = generation => r.id < 1)
            BY <5>1 DEF RpcInv, NumbersFit, WireTyped, Request
          <5> QED
            BY <5>2
        <4>3. CASE Stage({"closing", "aborting"}) /\ ~Authed
          <5>1. ~sockets[generation].initial
            BY <1>4, <2>4, <3>1, <4>3 DEF Authed
          <5> QED
            BY <1>2, <2>4, <3>1, <4>3, <5>1 DEF TokenFits, Excused
        <4> QED
          BY <1>2, <1>4, <2>4, <3>1, <4>1, <4>2, <4>3 DEF Stage, Authed
      <3>3. \A i \in DOMAIN jobs' : ~(Proving(jobs'[i].for) /\ jobs'[i].sock = generation)
        <4>1. "closed" \in How
          BY DEF How
        <4>2. \A i \in DOMAIN jobs' : \E r \in Listed : jobs'[i] = Settles(r, "closed", 0)
          BY <2>1, <4>1, Rejected
        <4> QED
          BY <3>2, <4>2 DEF Listed, Settles
      <3>4. ~Stage({"closing", "aborting"})'
        BY <3>1 DEF Stage
      <3> QED
        BY <1>2, <3>1, <3>3, <3>4 DEF TokenFits
    <2> QED
      BY <1>2, <2>1, <2>2, <2>3, <2>4
  <1> QED
    BY <1>3, <1>4

(* ... because what closes one has accepted it, or has none under way.     *)
LEMMA ReceiveKeepsToken ==
    ASSUME RpcInv, TokenFits, NEW s \in Socket, Receive(s)
    PROVE  TokenFits'
  <1> DEFINE m == Head(outbox)
  <1>1. /\ jobs = <<>> /\ s = generation /\ Online /\ outbox # <<>> /\ m \in Answer \cup Event
        /\ UNCHANGED <<login, state, timer, generation, socket, nextId, map, happened, logins, history>>
        /\ \/ \E r \in requests : Answered(r, m)
           \/ Dropped(m)
           \/ Told(m)
           \/ Overflows(m)
    BY ReceiveCases
  <1>2. m.kind = "event" => Authed
    <2>1. 1 \in DOMAIN outbox /\ m = outbox[1]
      BY <1>1, TailFits DEF RpcInv, SessionTyped
    <2> QED
      BY <2>1 DEF RpcInv, StreamFits
  <1> HIDE DEF m
  <1>3. credential' = credential /\ generation' = generation /\ cut' = cut
    BY <1>1 DEF login, history
  <1>4. ASSUME NEW r \in requests, Answered(r, m) PROVE TokenFits'
    <2>1. requests' \subseteq requests /\ jobs' = <<Settles(r, m.how, m.shows)>> /\ sockets' = sockets /\ m.kind = "answer"
          /\ DOMAIN pending' \subseteq DOMAIN pending
      BY <1>4 DEF Answered, WithoutId
    <2>2. m.how # "closed" /\ m.how \in How /\ m.shows \in Nat
      BY <1>1, <2>1 DEF Answer, Event, How
    <2>3. DOMAIN jobs' = {1} /\ jobs'[1].for = r.for /\ jobs'[1].how = m.how
      BY <2>1, <2>2, SettlesFits
    <2>4. ~Proving(r.for) => Authed
      BY PurposeFields DEF RpcInv, WireTyped, Request, PagesFit
    <2> QED
      BY <1>3, <2>1, <2>2, <2>3, <2>4, TokenKept
  <1>5. CASE Dropped(m) \/ Told(m)
    BY <1>1, <1>3, <1>5, TokenKept DEF Dropped, Told
  <1>6. CASE Overflows(m)
    <2>1. jobs' = <<>> /\ Authed /\ sockets' = Closed(sockets, socket)
      BY <1>1, <1>2, <1>6 DEF Overflows
    <2>2. Authed'
      BY <1>3, <2>1, ClosedFits DEF Authed, RpcInv, LinkTyped
    <2> QED
      BY <2>1, <2>2 DEF TokenFits
  <1> QED
    BY <1>1, <1>4, <1>5, <1>6

(* An unreadable message empties the table: what it rejects is malformed,  *)
(* and the socket it closes leaves nothing to reject.                      *)
LEMMA MalformedKeepsToken ==
    ASSUME RpcInv, NEW s \in Socket, Malformed(s)
    PROVE  TokenFits'
  <1>1. /\ RejectPending("malformed") /\ sockets' = Closed(sockets, socket)
        /\ generation' = generation /\ sockets[s].ready = "open"
    BY DEF Malformed
  <1>2. s = generation /\ generation \in Socket /\ generation # 0 /\ socket = generation
    BY <1>1 DEF RpcInv, SocketsFit, Live, LinkTyped, Socket
  <1>3. Authed' <=> Authed
    BY <1>1, <1>2, ClosedFits DEF Authed, RpcInv, LinkTyped
  <1>4. /\ DOMAIN pending' = {}
        /\ \A i \in DOMAIN jobs' : jobs'[i].how = "malformed" /\ \E r \in Listed : jobs'[i] = Settles(r, "malformed", 0)
    <2>1. "malformed" \in How
      BY DEF How
    <2> QED
      BY <1>1, <2>1, Rejected
  <1>5. \A i \in DOMAIN jobs' : ~Proving(jobs'[i].for) => Authed
    <2> SUFFICES ASSUME NEW i \in DOMAIN jobs', ~Proving(jobs'[i].for) PROVE Authed
      OBVIOUS
    <2>1. PICK r \in Listed : jobs'[i] = Settles(r, "malformed", 0)
      BY <1>4
    <2>2. r \in requests /\ r.for \in Purpose /\ ~Proving(r.for)
      BY <2>1 DEF Listed, Settles, RpcInv, WireTyped, Request
    <2> QED
      BY <2>2, PurposeFields DEF RpcInv, PagesFit
  <1> QED
    BY <1>3, <1>4, <1>5 DEF TokenFits

(* A login's request that times out is not one that was closed.            *)
LEMMA TimesOutKeepsToken ==
    ASSUME RpcInv, TokenFits, NEW r \in requests, TimesOut(r)
    PROVE  TokenFits'
  <1>1. /\ requests' \subseteq requests /\ jobs' = <<Settles(r, "timeout", 0)>>
        /\ UNCHANGED <<credential, generation, sockets, cut>> /\ DOMAIN pending' \subseteq DOMAIN pending
    BY DEF TimesOut, login, link, history, WithoutId
  <1>2. DOMAIN jobs' = {1} /\ jobs'[1].for = r.for /\ jobs'[1].how = "timeout"
    BY <1>1, SettlesFits DEF How
  <1>3. ~Proving(r.for) => Authed
    BY PurposeFields DEF RpcInv, WireTyped, Request, PagesFit
  <1> QED
    BY <1>1, <1>2, <1>3, TokenKept

(* What sendRequest adds to the queue, and to the requests.                *)
LEMMA AskKeepsToken ==
    ASSUME RpcInv, TokenFits, NEW p \in Purpose, NEW authenticated \in BOOLEAN, NEW rest \in Seq(Result \cup Loop),
           SendRequest(p, authenticated, rest), Online => rest = <<>>,
           UNCHANGED <<credential, generation, socket, sockets, cut>>,
           \A i \in DOMAIN rest : \E k \in DOMAIN jobs : rest[i] = jobs[k],
           \/ Online /\ authenticated
           \/ generation # 0 => ~Proving(p) /\ (Excused \/ Authed \/ Stage({"closed"}))
    PROVE  TokenFits'
  <1>1. CASE Online /\ authenticated
    <2>1. Sends(p)
      BY <1>1, SendCases
    <2>2. jobs' = <<>>
      BY <2>1 DEF Sends
    <2>3. ~Stage({"closing", "aborting"})'
      BY <1>1 DEF Stage, Online, RpcInv, LinkTyped
    <2> QED
      BY <2>2, <2>3, TokenFresh
  <1>2. CASE ~(Online /\ authenticated)
    <2> DEFINE j == Settles([sock |-> socket, for |-> p], "offline", 0)
    <2>1. jobs' = Append(rest, j) /\ requests' = requests /\ pending' = pending
      BY <1>2, SendCases DEF wire
    <2>2. j \in Result \cup Loop /\ j.for = p /\ j.how = "offline"
      BY OfflineFits
    <2> HIDE DEF j
    <2>3. \A i \in DOMAIN jobs' : (i \in DOMAIN rest /\ jobs'[i] = rest[i]) \/ jobs'[i] = j
      BY <2>1, <2>2
    <2>4. CASE generation = 0
      BY <2>4, TokenFresh
    <2>5. CASE generation # 0
      <3>1. ~Proving(p) /\ (Excused \/ Authed \/ Stage({"closed"}))
        BY <1>2, <2>5
      <3> QED
        BY <2>1, <2>2, <2>3, <3>1, TokenKept
    <2> QED
      BY <2>4, <2>5
  <1> QED
    BY <1>1, <1>2

(* A continuation that is not of a login finds the token safe.             *)
LEMMA JobIsExcused ==
    ASSUME RpcInv, TokenFits, jobs # <<>>
    PROVE  /\ Rest \in Seq(Result \cup Loop) /\ (Online => Rest = <<>>)
           /\ \A i \in DOMAIN Rest : \E k \in DOMAIN jobs : Rest[i] = jobs[k]
           /\ ~Proving(Job.for) /\ generation # 0 => Excused \/ Authed \/ Stage({"closed"})
           /\ Proving(Job.for) /\ generation # 0 /\ Job.how = "closed" /\ Job.sock = generation => Excused
  <1>1. /\ Rest \in Seq(Result \cup Loop) /\ (Online => Rest = <<>>) /\ 1 \in DOMAIN jobs /\ Job = jobs[1]
        /\ \A i \in DOMAIN Rest : i + 1 \in DOMAIN jobs /\ Rest[i] = jobs[i + 1]
    BY JobFits
  <1> QED
    BY <1>1 DEF TokenFits

(* The login's continuations.                                              *)
LEMMA LoginsKeepToken ==
    ASSUME RpcInv, TokenFits, Authenticates \/ Capabilities
    PROVE  TokenFits'
  <1>1. jobs # <<>> /\ Proving(Job.for) /\ cut' = cut
    BY DEF Authenticates, Capabilities, Runs, Proving, history
  <1>2. ASSUME AuthenticationFails(Job.sock) PROVE TokenFits'
    <2>1. CASE Job.sock = generation
      BY <1>2, <2>1, TokenFresh DEF AuthenticationFails, GiveUp, Excused
    <2>2. CASE Job.sock # generation
      <3>1. jobs' = Rest /\ UNCHANGED <<credential, generation, sockets, requests, pending>>
        BY <1>2, <2>2 DEF AuthenticationFails, wire
      <3> QED
        BY <1>1, <3>1, JobIsExcused, TokenKept
    <2> QED
      BY <2>1, <2>2
  <1>3. CASE Job.how # "ok"
    BY <1>2, <1>3 DEF Authenticates, Capabilities
  <1>4. CASE Job.how = "ok" /\ Authenticates
    <2> DEFINE p    == [what |-> "capabilities"]
               rest == Rest
    <2>1. SendRequest(p, TRUE, rest) /\ UNCHANGED <<credential, generation, socket, sockets, cut>>
      BY <1>1, <1>4 DEF Authenticates, login, link
    <2>2. p \in Purpose
      BY PurposesAsked
    <2>3. Online
      BY <1>1, <1>4, LoginIsAnswered
    <2>4. rest \in Seq(Result \cup Loop) /\ (Online => rest = <<>>) /\ \A i \in DOMAIN rest : \E k \in DOMAIN jobs : rest[i] = jobs[k]
      BY <1>1, JobIsExcused
    <2> HIDE DEF p, rest
    <2> QED
      BY <2>1, <2>2, <2>3, <2>4, AskKeepsToken
  <1>5. CASE Job.how = "ok" /\ Capabilities
    <2>1. Job.sock = generation /\ Rest = <<>> /\ generation \in Socket
      BY <1>1, <1>5, LoginIsAnswered
    <2>2. /\ sockets' = [sockets EXCEPT ![generation].authed = TRUE] /\ generation' = generation
          /\ jobs' = Append(<<>>, Next_(generation, 0))
      BY <1>5, <2>1 DEF Capabilities
    <2>3. Authed'
      BY <2>1, <2>2 DEF Authed, RpcInv, LinkTyped, Socket
    <2>4. \A i \in DOMAIN jobs' : jobs'[i].for.what = "next"
      <3> DEFINE j == Next_(generation, 0)
      <3>1. jobs' = Append(<<>>, j) /\ j.for.what = "next"
        BY <2>2 DEF Next_
      <3> HIDE DEF j
      <3> QED
        BY <3>1
    <2>5. \A i \in DOMAIN jobs' : ~Proving(jobs'[i].for)
      BY <2>4 DEF Proving
    <2> QED
      BY <2>3, <2>5 DEF TokenFits
  <1> QED
    BY <1>3, <1>4, <1>5

(* What follows a page's request is no login.                              *)
LEMMA ReturnKeepsToken ==
    ASSUME RpcInv, TokenFits, jobs # <<>>, ~Proving(Job.for), jobs' = Return \/ jobs' = Rest,
           UNCHANGED <<credential, generation, sockets, requests, pending, cut>>
    PROVE  TokenFits'
  <1> DEFINE j    == Next_(Job.for.loop, Job.for.pos)
             rest == Rest
  <1>1. /\ rest \in Seq(Result \cup Loop) /\ \A i \in DOMAIN rest : \E k \in DOMAIN jobs : rest[i] = jobs[k]
        /\ generation # 0 => Excused \/ Authed \/ Stage({"closed"})
    BY JobIsExcused
  <1>2. jobs' = rest \/ jobs' = Append(rest, j)
    BY DEF Return
  <1>3. ~Proving(j.for)
    BY DEF Next_, Proving
  <1> HIDE DEF j, rest
  <1>4. \A i \in DOMAIN jobs' : (i \in DOMAIN rest /\ jobs'[i] = rest[i]) \/ jobs'[i] = j
    BY <1>1, <1>2
  <1>5. CASE generation = 0
    BY <1>5, TokenFresh
  <1>6. CASE generation # 0
    BY <1>1, <1>3, <1>4, <1>6, TokenKept
  <1> QED
    BY <1>5, <1>6

(* The restoration is no login.                                            *)
LEMMA RestoresKeepToken ==
    ASSUME RpcInv, TokenFits, RestoreNext \/ Refreshed \/ Unsubscribed
    PROVE  TokenFits'
  <1>1. jobs # <<>> /\ ~Proving(Job.for) /\ UNCHANGED <<credential, generation, socket, sockets, cut>>
    BY DEF RestoreNext, Refreshed, Unsubscribed, Runs, Proving, login, link, history
  <1>2. CASE (jobs' = Return \/ jobs' = Rest) /\ UNCHANGED <<requests, pending>>
    BY <1>1, <1>2, ReturnKeepsToken
  <1>3. CASE RestoreNext /\ ~(jobs' = Rest /\ UNCHANGED <<requests, pending>>)
    <2> DEFINE later == {f \in map : f.pos > Job.for.pos}
               e     == CHOOSE f \in later : \A g \in later : f.pos <= g.pos
               p     == [what |-> "subscribe", sub |-> e.sub, loop |-> Job.sock, pos |-> e.pos, latest |-> TRUE]
               rest  == Rest
    <2>1. later # {} /\ SendRequest(p, state = "authenticated", rest)
      BY <1>3 DEF RestoreNext, Ask, wire
    <2>2. e.sub \in Sub /\ e.pos \in Sub
      <3>1. e.sub \in DOMAIN subs /\ e.pos \in DOMAIN subs
        BY <2>1, NextEntry
      <3> QED
        BY <3>1, SubsAreSub
    <2>3. Job.sock \in {0} \cup Socket
      BY <1>1, JobFits, ResultFields
    <2> HIDE DEF e
    <2>4. p \in Purpose /\ ~Proving(p)
      BY <2>2, <2>3, PurposesAsked DEF Proving
    <2>5. /\ rest \in Seq(Result \cup Loop) /\ (Online => rest = <<>>) /\ \A i \in DOMAIN rest : \E k \in DOMAIN jobs : rest[i] = jobs[k]
          /\ generation # 0 => Excused \/ Authed \/ Stage({"closed"})
      BY <1>1, JobIsExcused
    <2> HIDE DEF p, rest
    <2> QED
      BY <1>1, <2>1, <2>4, <2>5, AskKeepsToken
  <1> QED
    BY <1>2, <1>3 DEF Refreshed, Unsubscribed, wire

(* A page's request that failed closes the connection and keeps the token. *)
LEMMA SubscribedKeepsToken ==
    ASSUME RpcInv, TokenFits, Subscribed
    PROVE  TokenFits'
  <1> DEFINE p    == [what |-> "refresh", sub |-> Job.for.sub, loop |-> Job.for.loop, pos |-> Job.for.pos, latest |-> TRUE]
             rest == Rest
             s    == IF Job.for.loop = 0 THEN socket ELSE Job.for.loop
  <1>1. /\ jobs # <<>> /\ Busy(Job.for) /\ ~Proving(Job.for) /\ UNCHANGED <<credential, generation, socket, cut>>
        /\ \/ SendRequest(p, state = "authenticated", rest) /\ UNCHANGED sockets
           \/ jobs' = Return /\ UNCHANGED <<requests, pending, sockets>>
           \/ jobs' = rest /\ sockets' = Closed(sockets, s) /\ UNCHANGED requests
    BY DEF Subscribed, Runs, Busy, Proving, Ask, login, wire, history
  <1>2. Job.for.sub \in Sub /\ Job.for.loop \in {0} \cup Socket /\ Job.for.pos \in {0} \cup Sub
    BY <1>1, BusyFields, SubsAreSub
  <1>3. p \in Purpose /\ ~Proving(p)
    BY <1>2, PurposesAsked DEF Proving
  <1>4. /\ rest \in Seq(Result \cup Loop) /\ (Online => rest = <<>>) /\ \A i \in DOMAIN rest : \E k \in DOMAIN jobs : rest[i] = jobs[k]
        /\ generation # 0 => Excused \/ Authed \/ Stage({"closed"})
    BY <1>1, JobIsExcused
  <1>5. s \in {0} \cup Socket
    BY <1>2 DEF RpcInv, LinkTyped
  <1> HIDE DEF p, rest, s
  <1>6. CASE SendRequest(p, state = "authenticated", rest) /\ UNCHANGED sockets
    BY <1>1, <1>3, <1>4, <1>6, AskKeepsToken
  <1>7. CASE jobs' = Return /\ UNCHANGED <<requests, pending, sockets>>
    BY <1>1, <1>7, ReturnKeepsToken
  <1>8. CASE jobs' = rest /\ sockets' = Closed(sockets, s) /\ UNCHANGED requests
    <2>1. CASE generation = 0
      BY <1>1, <2>1, TokenFresh
    <2>2. CASE generation # 0
      <3>1. /\ generation \in Socket /\ generation' = generation /\ credential' = credential /\ cut' = cut
            /\ sockets'[generation].initial = sockets[generation].initial
            /\ sockets'[generation].authed = sockets[generation].authed
            /\ sockets[generation].ready = "closed" => sockets'[generation].ready = "closed"
        <4>1. generation \in Socket /\ sockets \in [Socket -> [ready : Ready, initial : BOOLEAN, authed : BOOLEAN]]
          BY <2>2 DEF RpcInv, LinkTyped
        <4>2. /\ \A u \in Socket : /\ u # s => Closed(sockets, s)[u] = sockets[u]
                                  /\ Closed(sockets, s)[u].initial = sockets[u].initial
                                  /\ Closed(sockets, s)[u].authed = sockets[u].authed
              /\ s # 0 => Closed(sockets, s)[s].ready = CASE sockets[s].ready = "open" -> "closing"
                                                          [] sockets[s].ready = "connecting" -> "aborting"
                                                          [] OTHER -> sockets[s].ready
          BY <1>5, <4>1, ClosedFits
        <4>3. s = generation => s # 0
          BY <2>2
        <4> QED
          BY <1>1, <1>8, <4>1, <4>2, <4>3
      <3>2. (Excused' <=> Excused) /\ (Authed' <=> Authed) /\ (Stage({"closed"}) => Stage({"closed"})' /\ ~Stage({"closing", "aborting"})')
        BY <3>1 DEF Excused, Authed, Stage
      <3> QED
        BY <1>4, <1>8, <2>2, <3>1, <3>2 DEF TokenFits
    <2> QED
      BY <2>1, <2>2
  <1> QED
    BY <1>1, <1>6, <1>7, <1>8

(* The calls of pages are no logins.                                       *)
LEMMA PagesKeepToken ==
    ASSUME RpcInv, TokenFits, (\E t \in Topic : Subscribe(t)) \/ (\E o \in 1 .. Len(subs) : Unsubscribe(o))
    PROVE  TokenFits'
  <1>1. jobs = <<>> /\ UNCHANGED <<credential, generation, socket, sockets, cut>>
    BY DEF Subscribe, Unsubscribe, login, link, history
  <1>2. CASE state # "authenticated"
    <2>1. UNCHANGED <<requests, pending, jobs>>
      BY <1>2 DEF Subscribe, Unsubscribe, wire
    <2> QED
      BY <1>1, <2>1, TokenKept
  <1>3. CASE state = "authenticated"
    <2>1. \E p \in Purpose : ~Proving(p) /\ SendRequest(p, TRUE, <<>>)
      <3>1. ASSUME NEW t \in Topic, Subscribe(t) PROVE \E p \in Purpose : ~Proving(p) /\ SendRequest(p, TRUE, <<>>)
        <4> DEFINE p == [what |-> "subscribe", sub |-> Len(subs) + 1, loop |-> 0, pos |-> 0, latest |-> TRUE]
        <4>1. SendRequest(p, state = "authenticated", <<>>) /\ Len(subs) < MaxSub
          BY <1>3, <3>1 DEF Subscribe, Ask
        <4>2. Len(subs) + 1 \in Sub
          BY <4>1, SubsAreSub, RpcAssumption DEF Sub
        <4>3. p \in Purpose /\ ~Proving(p)
          BY <4>2, PurposesAsked DEF Proving
        <4> HIDE DEF p
        <4>4. (state = "authenticated") = TRUE
          BY <1>3
        <4> QED
          BY <4>1, <4>3, <4>4
      <3>2. ASSUME NEW o \in 1 .. Len(subs), Unsubscribe(o) PROVE \E p \in Purpose : ~Proving(p) /\ SendRequest(p, TRUE, <<>>)
        <4> DEFINE p == [what |-> "unsubscribe", sub |-> o]
        <4>1. SendRequest(p, TRUE, <<>>)
          BY <1>3, <3>2 DEF Unsubscribe
        <4>2. p \in Purpose /\ ~Proving(p)
          BY SubsAreSub, PurposesAsked DEF Proving
        <4> HIDE DEF p
        <4> QED
          BY <4>1, <4>2
      <3> QED
        BY <3>1, <3>2
    <2>2. Excused \/ Authed
      BY <1>3 DEF Excused, RpcInv, SocketsFit
    <2>3. <<>> \in Seq(Result \cup Loop) /\ DOMAIN <<>> = {}
      BY EmptySeq
    <2> QED
      BY <1>1, <2>1, <2>2, <2>3, AskKeepsToken
  <1> QED
    BY <1>2, <1>3

(* Every step keeps what the token rests on.                               *)
LEMMA TokenStep == RpcInv /\ TokenFits /\ [Next]_vars => TokenFits'
  <1> SUFFICES ASSUME RpcInv, TokenFits, [Next]_vars PROVE TokenFits'
    OBVIOUS
  <1>1. CASE (\E token \in Tokens : Connect(token)) \/ Dispose \/ Retry \/ TimerFires
    BY <1>1, UserKeepsToken
  <1>2. CASE (\E t \in Topic : Subscribe(t)) \/ (\E o \in 1 .. Len(subs) : Unsubscribe(o))
    BY <1>2, PagesKeepToken
  <1>3. CASE Authenticates \/ Capabilities
    BY <1>3, LoginsKeepToken
  <1>4. CASE RestoreNext \/ Refreshed \/ Unsubscribed
    BY <1>4, RestoresKeepToken
  <1>5. CASE Subscribed
    BY <1>5, SubscribedKeepsToken
  <1>6. ASSUME NEW s \in Socket, Opens(s) PROVE TokenFits'
    BY <1>6, OpensKeepsToken
  <1>7. ASSUME NEW s \in Socket, Fails(s) \/ Closes(s) \/ Drops(s) PROVE TokenFits'
    BY <1>7, LossKeepsTokenFits
  <1>8. ASSUME NEW s \in Socket, Receive(s) PROVE TokenFits'
    BY <1>8, ReceiveKeepsToken
  <1>9. ASSUME NEW s \in Socket, Malformed(s) PROVE TokenFits'
    BY <1>9, MalformedKeepsToken
  <1>10. ASSUME NEW r \in requests, TimesOut(r) PROVE TokenFits'
    BY <1>10, TimesOutKeepsToken
  <1>11. CASE (\E r \in inbox : Serve(r)) \/ (\E m \in answers : Reply(m)) \/ (\E t \in Topic : Happens(t)) \/ UNCHANGED vars
    <2>1. UNCHANGED <<credential, generation, sockets, requests, pending, jobs, cut>>
      BY <1>11 DEF Serve, Reply, Happens, vars, login, link, wire, history
    <2> QED
      BY <2>1, TokenKept
  <1> QED
    BY <1>1, <1>2, <1>3, <1>4, <1>5, <1>6, <1>7, <1>8, <1>9, <1>10, <1>11 DEF Next, User, Microtask, Network

(* What makes a step forget a token the server accepts.                    *)
LEMMA ForgetsOnAnswer ==
    ASSUME RpcInv, TokenFits, [Next]_vars, credential = "right", credential' = "none",
           generation' = generation, generation # 0, ~sockets[generation].initial,
           ~(\E s \in Socket : sockets[s].initial /\ sockets[s].ready = "aborting"), cut = 0
    PROVE  jobs # <<>> /\ Job.how # "closed"
  <1>1. ASSUME NEW token \in Tokens, Connect(token) PROVE FALSE
    <2>1. credential' = token \/ generation' = 0
      BY <1>1 DEF Connect, CannotOpen
    <2> QED
      BY <2>1, RpcAssumption
  <1>2. CASE Dispose
    BY <1>2 DEF Dispose
  <1>3. ASSUME NEW s \in Socket, Fails(s) \/ Closes(s) \/ Drops(s) PROVE FALSE
    <2>1. CASE s = generation
      <3>1. OnClose(s, FALSE)
        BY <1>3, <2>1 DEF Fails, Closes, Drops, RpcInv, LinkTyped
      <3> QED
        BY <2>1, <3>1 DEF OnClose, GiveUp
    <2>2. CASE s # generation
      <3>1. sockets[s].ready \notin {"connecting", "open"}
        BY <2>2 DEF RpcInv, SocketsFit, Live
      <3>2. OnClose(s, FALSE)
        BY <1>3, <3>1 DEF Fails, Closes, Drops, RpcInv, LinkTyped
      <3> QED
        BY <2>2, <3>2 DEF OnClose
    <2> QED
      BY <2>1, <2>2
  <1>4. CASE Authenticates \/ Capabilities
    <2>1. jobs # <<>> /\ Proving(Job.for)
      BY <1>4 DEF Authenticates, Capabilities, Runs, Proving
    <2>2. Job.how # "ok" /\ Job.sock = generation
      BY <1>4 DEF Authenticates, Capabilities, AuthenticationFails, login
    <2> QED
      BY <2>1, <2>2, JobIsExcused DEF Excused
  <1>5. CASE \/ Retry \/ TimerFires \/ (\E t \in Topic : Subscribe(t)) \/ (\E o \in 1 .. Len(subs) : Unsubscribe(o))
             \/ RestoreNext \/ Subscribed \/ Refreshed \/ Unsubscribed
             \/ (\E s \in Socket : Opens(s) \/ Receive(s) \/ Malformed(s))
             \/ (\E r \in requests : TimesOut(r)) \/ (\E r \in inbox : Serve(r)) \/ (\E m \in answers : Reply(m))
             \/ (\E t \in Topic : Happens(t)) \/ UNCHANGED vars
    BY <1>5 DEF Retry, TimerFires, Subscribe, Unsubscribe, RestoreNext, Subscribed, Refreshed, Unsubscribed, Opens, Receive,
                Malformed, TimesOut, Serve, Reply, Happens, vars, login
  <1> QED
    BY <1>1, <1>2, <1>3, <1>4, <1>5 DEF Next, User, Microtask, Network

(* The client forgets a token that the server accepts only when the user   *)
(* ends it, or when a login is refused, times out or meets a bad message:  *)
(* losing a connection that had been authenticated, or one that was        *)
(* reconnecting, arms the timer (onclose) and no handler of an older       *)
(* promise gives up. Excepted, and nothing else, are a connection lost     *)
(* while a reconnection authenticates (client.ts:172) and a login's socket *)
(* that was closed while it opened (client.ts:176).                        *)
THEOREM TokenIsKept == Spec => LossKeepsTheToken
  <1>1. Init => TokenFits
    BY DEF Init, TokenFits
  <1>2. RpcInv /\ TokenFits /\ [Next]_vars => TokenFits'
    BY TokenStep
  <1>3. RpcInv /\ TokenFits /\ [Next]_vars =>
          [credential = "right" /\ credential' = "none"
             /\ generation' = generation /\ generation # 0 /\ ~sockets[generation].initial
             /\ ~(\E s \in Socket : sockets[s].initial /\ sockets[s].ready = "aborting")
             /\ cut = 0
           => jobs # <<>> /\ Job.how # "closed"]_vars
    BY ForgetsOnAnswer
  <1> QED
    BY <1>1, <1>2, <1>3, Invariance, PTL DEF Spec, LossKeepsTheToken

-----------------------------------------------------------------------------
(* StreamsAreSubscribed: an order to stream a topic, the last one that the *)
(* server has still to carry out or else its table, goes with the entry a  *)
(* page holds, unless a restoration has still to reach that entry. That    *)
(* holds of each topic about which no worker was overtaken.                *)
Serving == Online /\ state = "authenticated"

Orders(t) == {q \in inbox : q.for.what \in {"subscribe", "unsubscribe"} /\ TopicOf(q.for) = t}
WillStream(t) ==
    \/ t \in topics /\ \A q \in Orders(t) : q.for.what # "unsubscribe"
    \/ \E q \in Orders(t) : q.for.what = "subscribe" /\ \A u \in Orders(t) : u.for.what = "unsubscribe" => u.id < q.id

(* A loop that has come to p goes on to entry e. *)
Leads(p, e) ==
    /\ p.what = "next" \/ (Busy(p) /\ p.loop # 0 /\ p.sub # e.sub)
    /\ p.pos < e.pos
Restored(e) == (\E r \in requests : Leads(r.for, e)) \/ (\E i \in DOMAIN jobs : Leads(jobs[i].for, e))

LoopsFit ==
    Serving => /\ \A r \in requests : Busy(r.for) => r.for.loop \in {0, generation}
               /\ \A i \in DOMAIN jobs : /\ jobs[i].for.what = "next" => jobs[i].sock = generation
                                         /\ Busy(jobs[i].for) => jobs[i].for.loop \in {0, generation}
StreamsFit(t) ==
    Serving => /\ \A e \in map : subs[e.sub].topic = t => WillStream(t) \/ Restored(e)
               /\ WillStream(t) => \E e \in map : subs[e.sub].topic = t

(* On a connection that is authenticated there is one socket, one          *)
(* continuation at most, and every entry is a page.                        *)
LEMMA ServingFits ==
    ASSUME RpcInv, Serving
    PROVE  /\ generation \in Socket /\ generation # 0 /\ socket = generation /\ sockets[generation].ready = "open" /\ Authed
           /\ \A i \in DOMAIN jobs : i = 1 /\ jobs # <<>> /\ jobs[i] = Job
           /\ jobs # <<>> => Rest = <<>>
           /\ \A e \in map : e.sub \in DOMAIN subs /\ e.pos \in Nat \ {0} /\ e.sub \in Nat \ {0}
  <1>1. generation \in Socket /\ generation # 0 /\ socket = generation /\ sockets[generation].ready = "open"
    BY DEF Serving, Online, RpcInv, LinkTyped
  <1>2. Authed
    BY <1>1 DEF Serving, Stage, RpcInv, SocketsFit
  <1>3. \A i \in DOMAIN jobs : i = 1 /\ jobs # <<>> /\ jobs[i] = Job
    <2>1. jobs \in Seq(Result \cup Loop) /\ Len(jobs) <= 1
      BY DEF Serving, RpcInv, JobsTyped, JobsFit
    <2> QED
      BY <2>1, JobFits
  <1>4. jobs # <<>> => Rest = <<>>
    BY JobFits DEF Serving
  <1>5. \A e \in map : e.sub \in DOMAIN subs /\ e.pos \in Nat \ {0} /\ e.sub \in Nat \ {0}
    BY SubsAreSub DEF RpcInv, TableTyped
  <1> QED
    BY <1>1, <1>2, <1>3, <1>4, <1>5

(* What the server was told of a topic stays when the topics of pages do.  *)
LEMMA OrdersKept ==
    ASSUME RpcInv, \A o \in DOMAIN subs : subs'[o].topic = subs[o].topic, NEW t
    PROVE  /\ inbox' = inbox => Orders(t)' = Orders(t)
           /\ inbox' = inbox /\ topics' = topics => (WillStream(t)' <=> WillStream(t))
  <1>1. \A q \in inbox : q.for.what \in {"subscribe", "unsubscribe"} => q.for.sub \in DOMAIN subs
    BY DEF RpcInv, StreamFits, Paged
  <1>2. inbox' = inbox => Orders(t)' = Orders(t)
    BY <1>1 DEF Orders, TopicOf
  <1> QED
    BY <1>2 DEF WillStream

(* What leaves topics, orders and entries alone leaves the streams alone.  *)
LEMMA StreamsKept ==
    ASSUME RpcInv, NEW tp, StreamsFit(tp), Serving' => Serving, \A o \in DOMAIN subs : subs'[o].topic = subs[o].topic,
           UNCHANGED <<inbox, topics, map>>, Serving => \A e \in map : Restored(e) => Restored(e)'
    PROVE  StreamsFit(tp)'
  <1> SUFFICES ASSUME Serving' PROVE StreamsFit(tp)'
    BY DEF StreamsFit
  <1>1. \A t : WillStream(t)' <=> WillStream(t)
    BY OrdersKept
  <1>2. \A e \in map : e.sub \in DOMAIN subs
    BY ServingFits
  <1>3. \A e \in map' : subs'[e.sub].topic = tp => WillStream(tp)' \/ Restored(e)'
    BY <1>1, <1>2 DEF StreamsFit
  <1>4. WillStream(tp)' => \E e \in map' : subs'[e.sub].topic = tp
    BY <1>1, <1>2 DEF StreamsFit
  <1> QED
    BY <1>3, <1>4 DEF StreamsFit

(* A request that is sent is the last of the orders the server has got.    *)
LEMMA SentOrders ==
    ASSUME RpcInv, NEW p \in Purpose, Online, Sends(p), Paged(p), topics' = topics,
           \A o \in DOMAIN subs : subs'[o].topic = subs[o].topic, NEW t
    PROVE  /\ p.what = "refresh" => Orders(t)' = Orders(t) /\ (WillStream(t)' <=> WillStream(t))
           /\ p.what = "subscribe" => (WillStream(t)' <=> t = subs'[p.sub].topic \/ WillStream(t))
           /\ p.what = "unsubscribe" => (WillStream(t)' <=> t # subs'[p.sub].topic /\ WillStream(t))
           /\ p.what # "refresh" /\ t = subs'[p.sub].topic => Orders(t)' = Orders(t) \cup {Asked(p)}
           /\ t # subs'[p.sub].topic => Orders(t)' = Orders(t)
  <1> DEFINE a == Asked(p)
  <1>1. a.sock = generation /\ a.id = nextId /\ a.for = p /\ nextId \in Nat \ {0}
    BY SentRequests
  <1>2. inbox' = inbox \cup {a}
    BY DEF Sends
  <1>3. \A q \in inbox : /\ q.for.what \in {"subscribe", "unsubscribe"} => q.for.sub \in DOMAIN subs
                         /\ q.id \in Nat /\ q.id < nextId
    BY DEF RpcInv, StreamFits, Paged, ServerFits, SessionTyped, Request
  <1> HIDE DEF a
  <1>4. p.what = "refresh" \/ t # subs'[p.sub].topic => Orders(t)' = Orders(t)
    BY <1>1, <1>2, <1>3 DEF Orders, TopicOf
  <1>5. p.what # "refresh" /\ t = subs'[p.sub].topic => Orders(t)' = Orders(t) \cup {a}
    BY <1>1, <1>2, <1>3 DEF Orders, TopicOf, Paged
  <1>6. \A q \in Orders(t) : q.id < a.id /\ q.id \in Nat
    BY <1>1, <1>3 DEF Orders
  <1>7. p.what = "refresh" \/ t # subs'[p.sub].topic => (WillStream(t)' <=> WillStream(t))
    BY <1>4 DEF WillStream
  <1>8. p.what = "subscribe" /\ t = subs'[p.sub].topic => WillStream(t)'
    <2> SUFFICES ASSUME p.what = "subscribe", t = subs'[p.sub].topic PROVE WillStream(t)'
      OBVIOUS
    <2>1. Orders(t)' = Orders(t) \cup {a} /\ a.for.what = "subscribe"
      BY <1>1, <1>5
    <2>2. \A u \in Orders(t)' : u.for.what = "unsubscribe" => u.id < a.id
      BY <1>6, <2>1
    <2> QED
      BY <2>1, <2>2 DEF WillStream
  <1>9. p.what = "unsubscribe" /\ t = subs'[p.sub].topic => ~WillStream(t)'
    <2> SUFFICES ASSUME p.what = "unsubscribe", t = subs'[p.sub].topic, WillStream(t)' PROVE FALSE
      OBVIOUS
    <2>1. Orders(t)' = Orders(t) \cup {a} /\ a.for.what = "unsubscribe" /\ a.id \in Nat
      BY <1>1, <1>5
    <2>2. PICK q \in Orders(t)' : q.for.what = "subscribe" /\ \A u \in Orders(t)' : u.for.what = "unsubscribe" => u.id < q.id
      BY <2>1 DEF WillStream
    <2>3. a.id < q.id /\ q \in Orders(t)
      BY <2>1, <2>2
    <2> QED
      BY <1>6, <2>1, <2>3
  <1> QED
    BY <1>4, <1>5, <1>7, <1>8, <1>9 DEF a, Paged

(* A loop that led to an entry still does.                                 *)
LEMMA LeadsSent ==
    ASSUME RpcInv, NEW p \in Purpose, Online, Sends(p), NEW e
    PROVE  /\ (\E r \in requests : Leads(r.for, e)) => \E r \in requests' : Leads(r.for, e)
           /\ Leads(p, e) => \E r \in requests' : Leads(r.for, e)
  <1>1. Asked(p) \in requests' /\ Asked(p).for = p
    BY SentRequests
  <1>2. ASSUME NEW q \in requests, Leads(q.for, e) PROVE Superseded(q, p) \in requests' /\ Leads(Superseded(q, p).for, e)
    <2>1. q \in Request /\ q.for \in Purpose
      BY DEF RpcInv, WireTyped, Request
    <2>2. Busy(q.for)
      BY <1>2, <2>1, PurposeFields DEF Leads
    <2>3. Paged(q.for)
      BY <2>2 DEF Busy, Paged
    <2> QED
      BY <1>2, <2>1, <2>2, <2>3, SupersededFits, SentRequests DEF Leads, Busy
  <1> QED
    BY <1>1, <1>2

(* Loops are of the newest connection.                                     *)
LEMMA LoopsSent ==
    ASSUME RpcInv, LoopsFit, Serving, NEW p \in Purpose, Sends(p), Busy(p) => p.loop \in {0, generation}, generation' = generation
    PROVE  LoopsFit'
  <1>1. jobs' = <<>>
    BY DEF Sends
  <1>2. Online
    BY DEF Serving
  <1>3. ASSUME NEW r \in requests', Busy(r.for) PROVE r.for.loop \in {0, generation}
    <2>1. CASE r = Asked(p)
      BY <1>2, <1>3, <2>1, SentRequests
    <2>2. CASE r # Asked(p)
      <3>1. PICK q \in requests : r = Superseded(q, p)
        BY <1>2, <2>2, SentRequests
      <3>2. q \in Request
        BY DEF RpcInv, WireTyped
      <3>3. Busy(q.for) /\ r.for.loop = q.for.loop
        BY <1>3, <3>1, <3>2, SupersededFits DEF Busy
      <3> QED
        BY <3>3 DEF LoopsFit
    <2> QED
      BY <2>1, <2>2
  <1> QED
    BY <1>1, <1>3 DEF LoopsFit

(* The loop sends the order for the entry it has come to.                  *)
LEMMA RestoreNextStreams ==
    ASSUME RpcInv, LoopsFit, NEW tp, StreamsFit(tp), RestoreNext
    PROVE  LoopsFit' /\ StreamsFit(tp)'
  <1> DEFINE later == {f \in map : f.pos > Job.for.pos}
             e0    == CHOOSE f \in later : \A g \in later : f.pos <= g.pos
             p     == [what |-> "subscribe", sub |-> e0.sub, loop |-> Job.sock, pos |-> e0.pos, latest |-> TRUE]
  <1>1. /\ jobs # <<>> /\ Job.for.what = "next"
        /\ UNCHANGED <<login, link, map, answers, outbox, topics, happened, logins, faults>>
        /\ IF later = {} THEN jobs' = Rest /\ UNCHANGED <<subs, wire, inbox>>
           ELSE /\ subs' = Restoring(e0.sub)
                /\ SendRequest(p, state = "authenticated", Rest)
    BY DEF RestoreNext, Runs, Ask, Restoring
  <1>2. Serving' <=> Serving
    BY <1>1 DEF Serving, Online, link
  <1> SUFFICES ASSUME Serving PROVE LoopsFit' /\ StreamsFit(tp)'
    BY <1>2 DEF LoopsFit, StreamsFit
  <1>3. /\ generation \in Socket /\ generation # 0 /\ generation' = generation /\ Job.sock = generation /\ Rest = <<>>
        /\ \A i \in DOMAIN jobs : jobs[i] = Job
        /\ \A e \in map : e.sub \in DOMAIN subs /\ e.pos \in Nat \ {0} /\ e.sub \in Nat \ {0}
    <2>1. 1 \in DOMAIN jobs /\ Job = jobs[1]
      BY <1>1, JobFits
    <2> QED
      BY <1>1, <2>1, ServingFits DEF LoopsFit, link
  <1>4. Job.for.pos \in Nat
    <2>1. Job \in Loop
      BY <1>1, JobFits, ResultFields
    <2> QED
      BY <2>1, RpcAssumption DEF Loop, Sub
  <1>5. \A e \in map : Restored(e) <=> e \in later \/ \E r \in requests : Leads(r.for, e)
    <2>1. 1 \in DOMAIN jobs /\ Job = jobs[1]
      BY <1>1, JobFits
    <2> QED
      BY <1>1, <1>3, <1>4, <2>1 DEF Restored, Leads
  <1>6. CASE later = {}
    <2>1. jobs' = <<>> /\ UNCHANGED <<subs, map, inbox, topics, requests>>
      BY <1>1, <1>3, <1>6 DEF wire
    <2>2. \A e \in map : Restored(e) => Restored(e)'
      BY <1>5, <1>6, <2>1 DEF Restored
    <2>3. LoopsFit'
      BY <1>2, <1>3, <2>1 DEF LoopsFit
    <2> QED
      BY <1>2, <2>1, <2>2, <2>3, StreamsKept
  <1>7. CASE later # {}
    <2>1. e0 \in map /\ \A g \in later : e0.pos <= g.pos
      BY <1>7, NextEntry
    <2> HIDE DEF e0
    <2>2. e0.sub \in Sub /\ e0.pos \in Sub /\ e0.sub \in DOMAIN subs
      BY <2>1, SubsAreSub DEF RpcInv, TableTyped
    <2>3. p \in Purpose /\ p.what = "subscribe" /\ p.sub = e0.sub /\ p.loop = generation /\ p.pos = e0.pos
      BY <1>3, <2>2, PurposesAsked
    <2> HIDE DEF p
    <2>4. Paged(p) /\ Busy(p)
      BY <2>3 DEF Paged, Busy
    <2>5. Sends(p) /\ Online
      BY <1>1, <1>3, <1>7, SendCases DEF Serving
    <2>6. LoopsFit'
      BY <1>3, <2>3, <2>5, LoopsSent
    <2>7. UNCHANGED <<map, topics>> /\ \A o \in DOMAIN subs : subs'[o].topic = subs[o].topic
      BY <1>1, <1>7, <2>2, RestoringFits
    <2>8. \A t : WillStream(t)' <=> t = subs[e0.sub].topic \/ WillStream(t)
      BY <2>2, <2>3, <2>4, <2>5, <2>7, SentOrders
    <2>9. ASSUME NEW e \in map', subs'[e.sub].topic = tp, ~Restored(e)' PROVE WillStream(tp)'
      <3>1. e \in map /\ subs[e.sub].topic = tp
        BY <1>3, <2>7, <2>9
      <3>2. CASE e = e0
        BY <2>8, <3>1, <3>2
      <3>3. CASE e # e0
        <4>1. ~Leads(p, e) /\ ~\E r \in requests : Leads(r.for, e)
          BY <2>3, <2>5, <2>9, LeadsSent DEF Restored
        <4>2. e.sub # e0.sub /\ e.pos # e0.pos
          BY <2>1, <3>1, <3>3 DEF RpcInv, MapFits
        <4>3. e \notin later
          BY <1>3, <2>1, <2>3, <2>4, <3>1, <4>1, <4>2 DEF Leads
        <4>4. WillStream(tp)
          BY <1>5, <3>1, <4>1, <4>3 DEF StreamsFit
        <4> QED
          BY <2>8, <3>1, <4>4
      <3> QED
        BY <3>2, <3>3
    <2>10. ASSUME WillStream(tp)' PROVE \E e \in map' : subs'[e.sub].topic = tp
      <3>1. \E e \in map : subs[e.sub].topic = tp
        BY <2>1, <2>8, <2>10 DEF StreamsFit
      <3> QED
        BY <1>3, <2>7, <3>1
    <2> QED
      BY <2>6, <2>9, <2>10 DEF StreamsFit
  <1> QED
    BY <1>6, <1>7

(* When a page was served the loop goes on from its entry.                 *)
LEMMA ReturnLeads ==
    ASSUME RpcInv, LoopsFit, Serving, jobs # <<>>, Busy(Job.for), jobs' = Return,
           UNCHANGED <<requests, generation>>
    PROVE  LoopsFit' /\ \A e \in map : Restored(e) => Restored(e)'
  <1>1. Rest = <<>> /\ 1 \in DOMAIN jobs /\ Job = jobs[1] /\ \A i \in DOMAIN jobs : jobs[i] = Job
    BY ServingFits, JobFits
  <1>2. CASE Job.for.loop = 0
    <2>1. jobs' = <<>>
      BY <1>1, <1>2 DEF Return
    <2>2. LoopsFit'
      BY <2>1 DEF LoopsFit
    <2> QED
      BY <1>1, <1>2, <2>2 DEF Restored, Leads, Busy
  <1>3. CASE Job.for.loop # 0
    <2> DEFINE j == Next_(Job.for.loop, Job.for.pos)
    <2>1. Job.for.loop = generation
      BY <1>1, <1>3 DEF LoopsFit
    <2>2. jobs' = Append(<<>>, j)
      BY <1>1, <1>3 DEF Return
    <2>3. j.for.what = "next" /\ j.for.pos = Job.for.pos /\ j.sock = generation
      BY <2>1 DEF Next_
    <2> HIDE DEF j
    <2>4. DOMAIN jobs' = {1} /\ jobs'[1] = j
      BY <2>2
    <2>5. LoopsFit'
      BY <2>3, <2>4 DEF LoopsFit, Busy
    <2>6. \A e \in map : Leads(Job.for, e) => Leads(j.for, e)
      BY <2>3 DEF Leads
    <2> QED
      BY <1>1, <2>4, <2>5, <2>6 DEF Restored
  <1> QED
    BY <1>2, <1>3

(* A refresh is no order; a return leads the loop on; a failure ends the   *)
(* connection.                                                             *)
LEMMA SubscribedStreams ==
    ASSUME RpcInv, LoopsFit, NEW tp, StreamsFit(tp), Subscribed
    PROVE  LoopsFit' /\ StreamsFit(tp)'
  <1> DEFINE o == Job.for.sub
             p == [what |-> "refresh", sub |-> o, loop |-> Job.for.loop, pos |-> Job.for.pos, latest |-> TRUE]
             s == IF Job.for.loop = 0 THEN socket ELSE Job.for.loop
  <1>1. /\ jobs # <<>> /\ Busy(Job.for)
        /\ \/ /\ SendRequest(p, state = "authenticated", Rest)
              /\ UNCHANGED <<subs, sockets, topics>>
           \/ jobs' = Return /\ UNCHANGED <<wire, sockets, subs, session>>
           \/ sockets' = Closed(sockets, s)
        /\ UNCHANGED <<state, generation, socket, map>>
    BY DEF Subscribed, Ask, Runs, Busy
  <1> SUFFICES ASSUME Serving' PROVE LoopsFit' /\ StreamsFit(tp)'
    BY DEF LoopsFit, StreamsFit
  <1>2. 1 \in DOMAIN jobs /\ Job = jobs[1] /\ o \in DOMAIN subs /\ Job.for.loop \in {0} \cup Socket /\ Job.for.pos \in {0} \cup Sub
    BY <1>1, JobFits, BusyFields
  <1>3. CASE sockets' = Closed(sockets, s)
    <2>1. /\ socket \in Socket /\ socket = generation /\ state = "authenticated"
          /\ sockets'[socket].ready = "open"
          /\ sockets \in [Socket -> [ready : Ready, initial : BOOLEAN, authed : BOOLEAN]]
      BY <1>1 DEF Serving, Online, RpcInv, LinkTyped
    <2>2. s \in {0} \cup Socket
      BY <1>2, <2>1
    <2>3. Serving
      <3>1. s # socket => Closed(sockets, s)[socket] = sockets[socket]
        BY <2>1, <2>2, ClosedFits
      <3>2. s = socket => Closed(sockets, s)[socket].ready \in {"closing", "aborting", sockets[socket].ready}
        <4>1. s = socket => Closed(sockets, s)[s].ready = CASE sockets[s].ready = "open" -> "closing"
                                                           [] sockets[s].ready = "connecting" -> "aborting"
                                                           [] OTHER -> sockets[s].ready
          <5>1. socket # 0
            BY <2>1 DEF Socket
          <5> QED
            BY <2>1, <2>2, <5>1, ClosedFits
        <4> QED
          BY <4>1
      <3>3. sockets[socket].ready = "open"
        BY <1>3, <2>1, <3>1, <3>2
      <3> QED
        BY <2>1, <3>3 DEF Serving, Online, Socket
    <2>4. s = socket /\ socket # 0
      BY <1>2, <2>1, <2>3, ServingFits, <1>1 DEF LoopsFit
    <2>5. Closed(sockets, s)[s].ready = "closing"
      BY <2>1, <2>2, <2>3, <2>4, ServingFits, ClosedFits
    <2> QED
      BY <1>3, <2>1, <2>4, <2>5
  <1>4. ASSUME UNCHANGED sockets PROVE Serving /\ Rest = <<>> /\ generation' = generation /\ Online /\ Job.for.loop \in {0, generation}
    <2>1. Serving
      BY <1>1, <1>4 DEF Serving, Online
    <2> QED
      BY <1>1, <1>2, <2>1, ServingFits DEF LoopsFit, Serving
  <1>5. CASE jobs' = Return /\ UNCHANGED <<wire, sockets, subs, session>>
    <2>1. UNCHANGED <<requests, inbox, topics>> /\ Serving /\ generation' = generation
      BY <1>4, <1>5 DEF wire, session
    <2>2. LoopsFit' /\ \A e \in map : Restored(e) => Restored(e)'
      BY <1>1, <1>5, <2>1, ReturnLeads
    <2> QED
      BY <1>1, <1>5, <2>1, <2>2, StreamsKept
  <1>6. CASE SendRequest(p, state = "authenticated", Rest) /\ UNCHANGED <<subs, sockets, topics>>
    <2>1. p \in Purpose /\ p.what = "refresh" /\ p.sub = o /\ p.loop = Job.for.loop /\ p.pos = Job.for.pos
      BY <1>2, PurposesAsked, SubsAreSub
    <2> HIDE DEF p
    <2>2. Paged(p) /\ Busy(p)
      BY <2>1 DEF Paged, Busy
    <2>3. Serving /\ Rest = <<>> /\ Online /\ state = "authenticated" /\ generation' = generation /\ Job.for.loop \in {0, generation}
      BY <1>4, <1>6 DEF Serving
    <2>4. Sends(p)
      BY <1>6, <2>3, SendCases
    <2>5. LoopsFit'
      BY <2>1, <2>3, <2>4, LoopsSent
    <2>6. \A t : WillStream(t)' <=> WillStream(t)
      BY <1>6, <2>1, <2>2, <2>3, <2>4, SentOrders
    <2>7. \A e \in map : Restored(e) => Restored(e)'
      <3>1. \A i \in DOMAIN jobs : jobs[i] = Job
        BY <2>3, ServingFits
      <3>2. \A e : Leads(Job.for, e) => Leads(p, e)
        BY <1>1, <2>1, <2>2 DEF Leads, Busy
      <3> QED
        BY <2>1, <2>3, <2>4, <3>1, <3>2, LeadsSent DEF Restored
    <2>8. StreamsFit(tp)'
      BY <1>1, <1>6, <2>3, <2>6, <2>7 DEF StreamsFit
    <2> QED
      BY <2>5, <2>8
  <1> QED
    BY <1>1, <1>3, <1>5, <1>6

(* After a refresh the loop goes on, or nothing does.                      *)
LEMMA RefreshedStreams ==
    ASSUME RpcInv, LoopsFit, NEW tp, StreamsFit(tp), Refreshed
    PROVE  LoopsFit' /\ StreamsFit(tp)'
  <1> SUFFICES ASSUME Serving' PROVE LoopsFit' /\ StreamsFit(tp)'
    BY DEF LoopsFit, StreamsFit
  <1>1. /\ jobs # <<>> /\ Busy(Job.for) /\ jobs' = Return
        /\ UNCHANGED <<requests, generation, inbox, topics, map>> /\ (Serving' => Serving)
    BY DEF Refreshed, Runs, Busy, wire, link, session, Serving, Online
  <1>2. LoopsFit' /\ \A e \in map : Restored(e) => Restored(e)'
    BY <1>1, ReturnLeads
  <1>3. \A o \in DOMAIN subs : subs'[o].topic = subs[o].topic
    <2> DEFINE o      == Job.for.sub
               loaded == IF ~Job.for.latest THEN subs[o]
                         ELSE IF Job.how = "ok" THEN [subs[o] EXCEPT !.view = 1 .. Job.shows, !.failed = FALSE]
                         ELSE [subs[o] EXCEPT !.failed = TRUE]
               w      == [loaded EXCEPT !.restoring = FALSE, !.buffered = {}, !.view = @ \cup subs[o].buffered]
    <2>1. subs' = subs \/ subs' = [subs EXCEPT ![o] = w]
      BY DEF Refreshed
    <2>2. subs[o] \in Page
      BY <1>1, BusyFields, SubsAreSub
    <2>3. loaded.topic = subs[o].topic /\ w.topic = loaded.topic
      BY <2>2 DEF Page
    <2> HIDE DEF w
    <2> QED
      BY <2>1, <2>3
  <1> QED
    BY <1>1, <1>2, <1>3, StreamsKept

(* A page's order is the last the server gets for its topic.               *)
LEMMA SubscribeStreams ==
    ASSUME RpcInv, LoopsFit, NEW tp, StreamsFit(tp), NEW t \in Topic, Subscribe(t)
    PROVE  LoopsFit' /\ StreamsFit(tp)'
  <1> DEFINE o   == Len(subs) + 1
             old == {e \in map : subs[e.sub].topic = t}
             n   == [sub |-> o, pos |-> IF old = {} THEN o ELSE (CHOOSE e \in old : TRUE).pos]
             p   == [what |-> "subscribe", sub |-> o, loop |-> 0, pos |-> 0, latest |-> TRUE]
  <1>1. /\ jobs = <<>> /\ Len(subs) < MaxSub
        /\ map' = (map \ old) \cup {n}
        /\ subs' = Append([q \in DOMAIN subs |-> IF \E e \in old : e.sub = q THEN Fresh(t) ELSE subs[q]],
                          [Fresh(t) EXCEPT !.restoring = (state = "authenticated")])
        /\ state = "authenticated" => SendRequest(p, TRUE, <<>>)
        /\ UNCHANGED <<link, topics>>
    BY DEF Subscribe, Ask
  <1>2. /\ \A q \in DOMAIN subs : subs'[q].topic = subs[q].topic
        /\ subs'[o].topic = t
    <2> DEFINE restoring == (state = "authenticated")
    <2>1. /\ restoring \in BOOLEAN /\ old \subseteq map /\ \A e \in old : subs[e.sub].topic = t
          /\ subs' = Added(t, restoring, old)
      BY <1>1 DEF Added
    <2> HIDE DEF restoring, old
    <2> QED
      BY ONLY RpcInv, t \in Topic, <2>1, AddedFits
  <1>3. n.sub = o
    OBVIOUS
  <1> HIDE DEF n
  <1>4. Serving' <=> Serving
    BY <1>1 DEF Serving, Online, link
  <1> SUFFICES ASSUME Serving PROVE LoopsFit' /\ StreamsFit(tp)'
    BY <1>4 DEF LoopsFit, StreamsFit
  <1>5. p \in Purpose /\ p.what = "subscribe" /\ p.sub = o /\ p.loop = 0 /\ Paged(p)
    <2>1. o \in Sub
      BY <1>1, SubsAreSub, RpcAssumption DEF Sub
    <2> QED
      BY <2>1, PurposesAsked DEF Paged
  <1> HIDE DEF p
  <1>6. Online /\ state = "authenticated" /\ generation' = generation
    BY <1>1 DEF Serving, link
  <1>7. Sends(p)
    BY <1>1, <1>6, SendCases
  <1>8. LoopsFit'
    BY <1>5, <1>6, <1>7, LoopsSent
  <1> HIDE DEF o, old
  <1>9. \A x : WillStream(x)' <=> x = t \/ WillStream(x)
    BY <1>1, <1>2, <1>5, <1>6, <1>7, SentOrders
  <1>10. \A e \in map : e.sub \in DOMAIN subs
    BY ServingFits
  <1>11. \A e \in map : Restored(e) => Restored(e)'
    <2>1. \A e : Restored(e) => \E r \in requests : Leads(r.for, e)
      BY <1>1 DEF Restored
    <2> QED
      BY <1>5, <1>6, <1>7, <2>1, LeadsSent DEF Restored
  <1>12. ASSUME NEW e \in map', subs'[e.sub].topic = tp, ~Restored(e)' PROVE WillStream(tp)'
    <2>1. CASE e = n
      BY <1>2, <1>3, <1>9, <1>12, <2>1
    <2>2. CASE e # n
      <3>1. e \in map
        BY <1>1, <2>2
      <3>2. subs[e.sub].topic = tp
        BY <1>2, <1>10, <1>12, <3>1
      <3>3. WillStream(tp)
        BY <1>11, <1>12, <3>1, <3>2 DEF StreamsFit
      <3> QED
        BY <1>9, <3>3
    <2> QED
      BY <2>1, <2>2
  <1>13. ASSUME WillStream(tp)' PROVE \E e \in map' : subs'[e.sub].topic = tp
    <2>1. CASE tp = t
      BY <1>1, <1>2, <1>3, <2>1
    <2>2. CASE tp # t
      <3>1. PICK e \in map : subs[e.sub].topic = tp
        BY <1>9, <1>13, <2>2 DEF StreamsFit
      <3>2. e \in map' /\ subs'[e.sub].topic = tp
        BY <1>1, <1>2, <1>10, <2>2, <3>1 DEF old
      <3> QED
        BY <3>2
    <2> QED
      BY <2>1, <2>2
  <1> QED
    BY <1>8, <1>12, <1>13 DEF StreamsFit

(* The order of a page that leaves is the last one about its topic, and no *)
(* other page has it.                                                      *)
LEMMA UnsubscribeStreams ==
    ASSUME RpcInv, LoopsFit, NEW tp, StreamsFit(tp), NEW o \in 1 .. Len(subs), Unsubscribe(o)
    PROVE  LoopsFit' /\ StreamsFit(tp)'
  <1> DEFINE p == [what |-> "unsubscribe", sub |-> o]
             w == Fresh(subs[o].topic)
  <1>1. /\ jobs = <<>> /\ map' = {e \in map : e.sub # o} /\ subs' = [subs EXCEPT ![o] = w]
        /\ state = "authenticated" => SendRequest(p, TRUE, <<>>)
        /\ UNCHANGED <<link, topics>>
    BY DEF Unsubscribe
  <1>2. PICK c \in map : c.sub = o
    BY DEF Unsubscribe, Current
  <1>3. o \in DOMAIN subs /\ o \in Sub /\ \A q \in DOMAIN subs : subs'[q].topic = subs[q].topic
    <2>1. o \in DOMAIN subs /\ o \in Sub /\ subs[o] \in Page
      BY SubsAreSub
    <2>2. w \in Page /\ w.topic = subs[o].topic
      BY <2>1 DEF Fresh, Page
    <2> HIDE DEF w
    <2> QED
      BY <1>1, <2>1, <2>2, PageFits
  <1>4. Serving' <=> Serving
    BY <1>1 DEF Serving, Online, link
  <1> SUFFICES ASSUME Serving PROVE LoopsFit' /\ StreamsFit(tp)'
    BY <1>4 DEF LoopsFit, StreamsFit
  <1>5. p \in Purpose /\ p.what = "unsubscribe" /\ p.sub = o /\ Paged(p) /\ ~Busy(p)
    BY <1>3, PurposesAsked DEF Paged, Busy
  <1> HIDE DEF p
  <1>6. Online /\ state = "authenticated" /\ generation' = generation
    BY <1>1 DEF Serving, link
  <1>7. Sends(p)
    BY <1>1, <1>6, SendCases
  <1>8. LoopsFit'
    BY <1>5, <1>6, <1>7, LoopsSent
  <1>9. \A x : WillStream(x)' <=> x # subs[o].topic /\ WillStream(x)
    BY <1>1, <1>3, <1>5, <1>6, <1>7, SentOrders
  <1>10. \A e \in map : e.sub \in DOMAIN subs
    BY ServingFits
  <1>11. \A e \in map : Restored(e) => Restored(e)'
    <2>1. \A e : Restored(e) => \E r \in requests : Leads(r.for, e)
      BY <1>1 DEF Restored
    <2> QED
      BY <1>5, <1>6, <1>7, <2>1, LeadsSent DEF Restored
  <1>12. ASSUME NEW e \in map', subs'[e.sub].topic = tp, ~Restored(e)' PROVE WillStream(tp)'
    <2>1. e \in map /\ e # c
      BY <1>1, <1>2
    <2>2. subs[e.sub].topic = tp
      BY <1>3, <1>10, <1>12, <2>1
    <2>3. WillStream(tp)
      BY <1>11, <1>12, <2>1, <2>2 DEF StreamsFit
    <2>4. tp # subs[o].topic
      BY <1>2, <2>1, <2>2 DEF RpcInv, MapFits
    <2> QED
      BY <1>9, <2>3, <2>4
  <1>13. ASSUME WillStream(tp)' PROVE \E e \in map' : subs'[e.sub].topic = tp
    <2>1. PICK e \in map : subs[e.sub].topic = tp
      BY <1>9, <1>13 DEF StreamsFit
    <2>2. e \in map' /\ subs'[e.sub].topic = tp
      BY <1>1, <1>3, <1>9, <1>10, <1>13, <2>1
    <2> QED
      BY <2>2
  <1> QED
    BY <1>8, <1>12, <1>13 DEF StreamsFit

(* A login that fails ends the connection, or was of an older one.         *)
LEMMA FailingStreams ==
    ASSUME RpcInv, LoopsFit, NEW tp, StreamsFit(tp), jobs # <<>>, Proving(Job.for), AuthenticationFails(Job.sock), Serving'
    PROVE  LoopsFit' /\ StreamsFit(tp)'
  <1>1. Job.sock # generation
    BY DEF AuthenticationFails, GiveUp, Serving
  <1>2. UNCHANGED <<state, sockets, generation, socket, requests, subs, map>> /\ jobs' = Rest /\ Hangup
    BY <1>1 DEF AuthenticationFails, wire, table
  <1>3. Serving /\ UNCHANGED <<inbox, topics>>
    BY <1>2 DEF Serving, Online, Hangup, session
  <1>4. jobs' = <<>> /\ \A i \in DOMAIN jobs : Proving(jobs[i].for)
    BY <1>2, <1>3, ServingFits
  <1>5. LoopsFit'
    BY <1>2, <1>3, <1>4 DEF LoopsFit
  <1>6. \A e : Restored(e) => Restored(e)'
    BY <1>2, <1>4 DEF Restored, Leads, Busy, Proving
  <1> QED
    BY <1>2, <1>3, <1>5, <1>6, StreamsKept

(* What neither settles nor asks anything.                                 *)
LEMMA IdleStreams ==
    ASSUME RpcInv, LoopsFit, NEW tp, StreamsFit(tp), Serving' => Serving, \A o \in DOMAIN subs : subs'[o].topic = subs[o].topic,
           UNCHANGED <<generation, requests, jobs, inbox, topics, map>>
    PROVE  LoopsFit' /\ StreamsFit(tp)'
  <1>1. LoopsFit'
    BY DEF LoopsFit
  <1>2. \A e : Restored(e) => Restored(e)'
    BY DEF Restored
  <1> QED
    BY <1>1, <1>2, StreamsKept

(* The steps that end what a connection served, or begin another one.      *)
LEMMA NotServing ==
    ASSUME RpcInv, \/ \E token \in Tokens : Connect(token)
                   \/ Dispose \/ Retry \/ TimerFires
                   \/ \E s \in Socket : Opens(s) \/ Malformed(s)
                   \/ \E s \in Socket : (Fails(s) \/ Closes(s) \/ Drops(s)) /\ s = generation
    PROVE  ~Serving'
  <1>1. ASSUME NEW ss, NEW initial \in BOOLEAN, OpenSocket(ss, initial) PROVE state' # "authenticated"
    BY <1>1 DEF OpenSocket
  <1>2. ASSUME NEW token \in Tokens, Connect(token) PROVE state' # "authenticated"
    BY <1>1, <1>2 DEF Connect
  <1>3. CASE Dispose \/ Retry \/ TimerFires
    BY <1>1, <1>3 DEF Dispose, Retry, TimerFires, Serving
  <1>4. ASSUME NEW s \in Socket, Opens(s) PROVE state' # "authenticated"
    <2>1. s = generation /\ sockets[s].ready = "connecting" /\ s # 0
      BY <1>4 DEF Opens, RpcInv, SocketsFit, Live, Socket
    <2>2. Stage({"connecting"}) /\ Stage({"connecting", "open"})
      BY <2>1 DEF Stage
    <2> QED
      BY <1>4, <2>2 DEF Opens, RpcInv, SocketsFit
  <1>5. ASSUME NEW s \in Socket, Malformed(s) PROVE ~Online'
    <2>1. sockets' = Closed(sockets, socket) /\ socket' = socket
      BY <1>5 DEF Malformed
    <2> QED
      BY <2>1, NoneAliveClosed DEF Online, RpcInv, LinkTyped
  <1>6. ASSUME NEW s \in Socket, Fails(s) \/ Closes(s) \/ Drops(s), s = generation PROVE ~Online'
    <2>1. sockets' = [sockets EXCEPT ![s] = Gone] /\ socket' = socket
      BY <1>6 DEF Fails, Closes, Drops, OnClose
    <2> QED
      BY <1>6, <2>1 DEF Online, Gone, RpcInv, LinkTyped
  <1> QED
    BY <1>2, <1>3, <1>4, <1>5, <1>6 DEF Serving

(* The server carries out the orders about a topic in their order, unless  *)
(* one of them was overtaken.                                              *)
LEMMA ServedOrders ==
    ASSUME RpcInv, NEW r \in inbox, Serve(r), NEW t, t \notin overtaken'
    PROVE  /\ Orders(t)' = Orders(t) \ {r}
           /\ WillStream(t)' <=> WillStream(t)
           /\ t \in topics' <=> IF r \in Orders(t) THEN r.for.what = "subscribe" ELSE t \in topics
           /\ \A q \in Orders(t) : r.for.what \in {"subscribe", "unsubscribe", "refresh"} /\ TopicOf(r.for) = t => q = r \/ r.id < q.id
  <1>1. /\ inbox' = inbox \ {r} /\ subs' = subs
        /\ t \in About(r) => \A q \in inbox : About(q) = About(r) => ~(q.id < r.id)
        /\ topics' = CASE r.for.what = "subscribe" -> topics \cup About(r)
                       [] r.for.what = "unsubscribe" -> topics \ About(r)
                       [] OTHER -> topics
    BY DEF Serve, table
  <1>2. \A q \in inbox : q.id \in Nat /\ (q.id = r.id => q = r)
    BY DEF RpcInv, ServerFits, SessionTyped, Request
  <1>3. \A q \in inbox : q.for.what \in {"subscribe", "unsubscribe", "refresh"} => About(q) = {TopicOf(q.for)}
    BY DEF About
  <1>4. Orders(t)' = Orders(t) \ {r}
    BY <1>1 DEF Orders, TopicOf
  <1>5. \A q \in Orders(t) : r.for.what \in {"subscribe", "unsubscribe", "refresh"} /\ TopicOf(r.for) = t => q = r \/ r.id < q.id
    <2> SUFFICES ASSUME NEW q \in Orders(t), r.for.what \in {"subscribe", "unsubscribe", "refresh"}, TopicOf(r.for) = t, q # r
                 PROVE  r.id < q.id
      OBVIOUS
    <2>1. q \in inbox /\ q.for.what \in {"subscribe", "unsubscribe"} /\ TopicOf(q.for) = t
      BY DEF Orders
    <2>2. About(q) = About(r) /\ t \in About(r)
      BY <1>3, <2>1
    <2>3. ~(q.id < r.id) /\ q.id \in Nat /\ r.id \in Nat /\ q.id # r.id
      BY <1>1, <1>2, <2>1, <2>2
    <2> QED
      BY <2>3
  <1>6. CASE r \notin Orders(t)
    <2>1. t \in topics' <=> t \in topics
      BY <1>1, <1>3, <1>6 DEF Orders
    <2>2. Orders(t)' = Orders(t)
      BY <1>4, <1>6
    <2> QED
      BY <1>4, <1>5, <1>6, <2>1, <2>2 DEF WillStream
  <1>7. CASE r \in Orders(t) /\ r.for.what = "subscribe"
    <2>1. t \in topics'
      BY <1>1, <1>3, <1>7 DEF Orders
    <2>2. \A q \in Orders(t) : q = r \/ r.id < q.id
      BY <1>5, <1>7 DEF Orders
    <2>3. \A q \in Orders(t) : q.id \in Nat
      BY <1>2 DEF Orders
    <2>4. WillStream(t) => WillStream(t)'
      BY <1>4, <1>7, <2>1, <2>2, <2>3 DEF WillStream
    <2>5. WillStream(t)' => WillStream(t)
      BY <1>4, <1>7, <2>1, <2>2, <2>3 DEF WillStream
    <2> QED
      BY <1>4, <1>5, <1>7, <2>1, <2>4, <2>5
  <1>8. CASE r \in Orders(t) /\ r.for.what = "unsubscribe"
    <2>1. t \notin topics'
      BY <1>1, <1>3, <1>8 DEF Orders
    <2>2. \A q \in Orders(t) : q = r \/ r.id < q.id
      BY <1>5, <1>8 DEF Orders
    <2>3. WillStream(t) => WillStream(t)'
      BY <1>4, <1>8, <2>1, <2>2 DEF WillStream
    <2>4. WillStream(t)' => WillStream(t)
      BY <1>4, <1>8, <2>1, <2>2 DEF WillStream
    <2> QED
      BY <1>4, <1>5, <1>8, <2>1, <2>3, <2>4
  <1> QED
    BY <1>6, <1>7, <1>8 DEF Orders

(* Carrying out an order changes the table to what the orders said.        *)
LEMMA ServeStreams ==
    ASSUME RpcInv, LoopsFit, NEW tp, StreamsFit(tp), tp \notin overtaken', NEW r \in inbox, Serve(r)
    PROVE  LoopsFit' /\ StreamsFit(tp)'
  <1>1. UNCHANGED <<state, generation, socket, sockets, requests, jobs, subs, map>>
    BY DEF Serve, link, wire, table
  <1>2. Serving' <=> Serving
    BY <1>1 DEF Serving, Online
  <1>3. LoopsFit'
    BY <1>1, <1>2 DEF LoopsFit
  <1>4. WillStream(tp)' <=> WillStream(tp)
    BY ServedOrders
  <1>5. \A e : Restored(e)' <=> Restored(e)
    BY <1>1 DEF Restored
  <1>6. StreamsFit(tp)'
    BY <1>1, <1>2, <1>4, <1>5 DEF StreamsFit
  <1> QED
    BY <1>3, <1>6

(* A request that is settled leads where it led.                           *)
LEMMA SettledLeads ==
    ASSUME RpcInv, LoopsFit, Serving, jobs = <<>>, NEW r \in requests, NEW how \in How, NEW shows \in Nat,
           requests' = requests \ {r}, jobs' = <<Settles(r, how, shows)>>, generation' = generation
    PROVE  LoopsFit' /\ \A e : Restored(e) => Restored(e)'
  <1>1. DOMAIN jobs' = {1} /\ jobs'[1].for = r.for
    BY SettlesFits
  <1>2. r.for.what # "next"
    BY PurposeFields DEF RpcInv, WireTyped, Request
  <1>3. LoopsFit'
    BY <1>1, <1>2 DEF LoopsFit
  <1>4. \A e : Restored(e) => Restored(e)'
    BY <1>1 DEF Restored
  <1> QED
    BY <1>3, <1>4

(* A request that timed out still leads the loop on.                       *)
LEMMA TimesOutStreams ==
    ASSUME RpcInv, LoopsFit, NEW tp, StreamsFit(tp), NEW r \in requests, TimesOut(r)
    PROVE  LoopsFit' /\ StreamsFit(tp)'
  <1>1. /\ jobs = <<>> /\ requests' = requests \ {r} /\ jobs' = <<Settles(r, "timeout", 0)>>
        /\ UNCHANGED <<state, generation, socket, sockets, subs, map, inbox, topics>>
    BY DEF TimesOut, link, table, session
  <1>2. Serving' <=> Serving
    BY <1>1 DEF Serving, Online
  <1> SUFFICES ASSUME Serving PROVE LoopsFit' /\ StreamsFit(tp)'
    BY <1>2 DEF LoopsFit, StreamsFit
  <1>3. "timeout" \in How /\ 0 \in Nat
    BY DEF How
  <1>4. LoopsFit' /\ \A e : Restored(e) => Restored(e)'
    BY <1>1, <1>3, SettledLeads
  <1> QED
    BY <1>1, <1>2, <1>4, StreamsKept

(* An event that is delivered changes what a page shows or holds back, and *)
(* nothing else of it.                                                     *)
LEMMA ToldTopics ==
    ASSUME RpcInv, NEW m, Told(m)
    PROVE  \A o \in DOMAIN subs : subs'[o].topic = subs[o].topic /\ subs'[o].failed = subs[o].failed
                                  /\ subs'[o].restoring = subs[o].restoring
  <1> SUFFICES ASSUME NEW o \in DOMAIN subs
               PROVE  subs'[o].topic = subs[o].topic /\ subs'[o].failed = subs[o].failed /\ subs'[o].restoring = subs[o].restoring
    OBVIOUS
  <1>1. subs[o] \in Page
    BY SubsAreSub
  <1>2. /\ Notified(o, m.n).topic = subs[o].topic /\ Notified(o, m.n).failed = subs[o].failed
        /\ Notified(o, m.n).restoring = subs[o].restoring
    BY <1>1 DEF Notified, Page
  <1>3. subs'[o] \in {subs[o], Notified(o, m.n)}
    BY DEF Told
  <1> QED
    BY <1>2, <1>3

(* A message changes neither orders nor streams.                           *)
LEMMA ReceiveStreams ==
    ASSUME RpcInv, LoopsFit, NEW tp, StreamsFit(tp), NEW s \in Socket, Receive(s)
    PROVE  LoopsFit' /\ StreamsFit(tp)'
  <1> DEFINE m == Head(outbox)
  <1>1. /\ jobs = <<>> /\ Online /\ m \in Answer \cup Event
        /\ UNCHANGED <<state, generation, socket, map>>
        /\ \/ \E r \in requests : Answered(r, m)
           \/ Dropped(m)
           \/ Told(m)
           \/ Overflows(m)
    BY ReceiveCases
  <1> HIDE DEF m
  <1>2. Serving' => Serving
    BY <1>1 DEF Serving
  <1> SUFFICES ASSUME Serving, Serving' PROVE LoopsFit' /\ StreamsFit(tp)'
    BY <1>2 DEF LoopsFit, StreamsFit
  <1>3. ASSUME NEW r \in requests, Answered(r, m) PROVE LoopsFit' /\ StreamsFit(tp)'
    <2>1. requests' = requests \ {r} /\ jobs' = <<Settles(r, m.how, m.shows)>> /\ UNCHANGED <<subs, inbox, topics>> /\ m.kind = "answer"
      BY <1>3 DEF Answered
    <2>2. m.how \in How /\ m.shows \in Nat
      BY <1>1, <2>1 DEF Answer, Event, How
    <2> DEFINE how   == m.how
               shows == m.shows
    <2>3. how \in How /\ shows \in Nat /\ jobs' = <<Settles(r, how, shows)>>
      BY <2>1, <2>2
    <2> HIDE DEF how, shows
    <2>4. LoopsFit' /\ \A e : Restored(e) => Restored(e)'
      BY <1>1, <2>1, <2>3, SettledLeads
    <2> QED
      BY <1>1, <2>1, <2>4, StreamsKept
  <1>4. CASE Dropped(m) \/ Told(m)
    <2>1. UNCHANGED <<requests, jobs, inbox, topics, map>> /\ \A o \in DOMAIN subs : subs'[o].topic = subs[o].topic
      BY <1>1, <1>4, ToldTopics DEF Dropped, Told
    <2>2. LoopsFit'
      BY <1>1, <2>1 DEF LoopsFit
    <2>3. \A e : Restored(e) => Restored(e)'
      BY <2>1 DEF Restored
    <2> QED
      BY <1>1, <2>1, <2>2, <2>3, StreamsKept
  <1>5. ~Overflows(m)
    <2> SUFFICES ASSUME Overflows(m) PROVE FALSE
      OBVIOUS
    <2>1. sockets' = Closed(sockets, socket) /\ socket' = socket
      BY <1>1 DEF Overflows
    <2>2. \A u \in Socket : sockets'[u].ready # "open"
      BY <2>1, NoneAliveClosed
    <2> QED
      BY <2>1, <2>2, ServingFits DEF Serving, Online
  <1> QED
    BY <1>1, <1>3, <1>4, <1>5

(* A connection that is accepted has neither orders nor streams, and a     *)
(* loop that leads to every entry.                                         *)
LEMMA CapabilitiesStreams ==
    ASSUME RpcInv, LoopsFit, NEW tp, StreamsFit(tp), Capabilities
    PROVE  LoopsFit' /\ StreamsFit(tp)'
  <1> SUFFICES ASSUME Serving' PROVE LoopsFit' /\ StreamsFit(tp)'
    BY DEF LoopsFit, StreamsFit
  <1>1. jobs # <<>> /\ Proving(Job.for)
    BY DEF Capabilities, Runs, Proving
  <1>2. ASSUME AuthenticationFails(Job.sock) PROVE LoopsFit' /\ StreamsFit(tp)'
    BY <1>1, <1>2, FailingStreams
  <1>3. CASE Job.how = "ok"
    <2>1. Job.sock = generation /\ Online /\ Rest = <<>> /\ generation \in Socket /\ ~Authed
      BY <1>1, <1>3, LoginIsAnswered
    <2>2. jobs' = Append(<<>>, Next_(generation, 0)) /\ UNCHANGED <<generation, requests, subs, map, inbox, topics>>
      BY <1>3, <2>1 DEF Capabilities, wire, table, session
    <2> DEFINE j == Next_(generation, 0)
    <2>3. j.for.what = "next" /\ j.for.pos = 0 /\ j.sock = generation
      BY DEF Next_
    <2> HIDE DEF j
    <2>4. DOMAIN jobs' = {1} /\ jobs'[1] = j
      BY <2>2 DEF j
    <2>5. \A r \in requests : ~Busy(r.for)
      BY <2>1 DEF RpcInv, PagesFit, Paged, Busy
    <2>6. LoopsFit'
      BY <2>2, <2>3, <2>4, <2>5 DEF LoopsFit, Busy
    <2>7. \A e \in map' : e.pos \in Nat \ {0}
      BY <2>2, SubsAreSub DEF RpcInv, TableTyped
    <2>8. \A e \in map' : Restored(e)'
      BY <2>3, <2>4, <2>7 DEF Restored, Leads
    <2>9. \A t : ~WillStream(t)'
      <3>1. topics' = {} /\ \A q \in inbox' : ~Paged(q.for)
        BY <2>1, <2>2 DEF RpcInv, StreamFits
      <3> QED
        BY <3>1 DEF WillStream, Orders, Paged
    <2>10. StreamsFit(tp)'
      BY <2>8, <2>9 DEF StreamsFit
    <2> QED
      BY <2>6, <2>10
  <1> QED
    BY <1>2, <1>3 DEF Capabilities

(* What was overtaken stays so for as long as the connection serves, and   *)
(* so do the pages that joined a loop.                                     *)
LEMMA HistoryGrows ==
    ASSUME RpcInv, [Next]_vars, Serving'
    PROVE  overtaken \subseteq overtaken' /\ joined \subseteq joined'
  <1>1. ~(\/ \E token \in Tokens : Connect(token)
          \/ Dispose \/ Retry \/ TimerFires)
    BY NotServing
  <1>2. ASSUME (\E t \in Topic : Subscribe(t)) \/ (\E o \in 1 .. Len(subs) : Unsubscribe(o))
        PROVE  overtaken \subseteq overtaken' /\ joined \subseteq joined'
    BY <1>2 DEF Subscribe, Unsubscribe, history
  <1>3. ASSUME Microtask PROVE UNCHANGED history
    BY <1>3 DEF Microtask, Authenticates, Capabilities, RestoreNext, Subscribed, Refreshed, Unsubscribed
  <1>4. ASSUME NEW s \in Socket, Opens(s) \/ Fails(s) \/ Closes(s) \/ Drops(s) \/ Receive(s) \/ Malformed(s)
        PROVE  UNCHANGED <<overtaken, joined>>
    BY <1>4 DEF Opens, Fails, Closes, Drops, OnClose, Receive, Malformed, history
  <1>5. ASSUME \/ \E r \in requests : TimesOut(r)
               \/ \E r \in inbox : Serve(r)
               \/ \E m \in answers : Reply(m)
               \/ \E t \in Topic : Happens(t)
               \/ UNCHANGED vars
        PROVE  overtaken \subseteq overtaken' /\ joined \subseteq joined'
    BY <1>5 DEF TimesOut, Serve, Reply, Happens, vars, history
  <1> QED
    BY <1>1, <1>2, <1>3, <1>4, <1>5 DEF Next, User, Network, history

(* Every step keeps what the streams of a topic rest on, as long as the    *)
(* server carries out the orders about it in their order.                  *)
LEMMA StreamsStep ==
    ASSUME RpcInv, LoopsFit, NEW tp, StreamsFit(tp), tp \notin overtaken', [Next]_vars
    PROVE  LoopsFit' /\ StreamsFit(tp)'
  <1>1. CASE \/ \E token \in Tokens : Connect(token)
             \/ Dispose \/ Retry \/ TimerFires
             \/ \E s \in Socket : Opens(s) \/ Malformed(s)
             \/ \E s \in Socket : (Fails(s) \/ Closes(s) \/ Drops(s)) /\ s = generation
    BY <1>1, NotServing DEF LoopsFit, StreamsFit
  <1>2. ASSUME NEW t \in Topic, Subscribe(t) PROVE LoopsFit' /\ StreamsFit(tp)'
    BY <1>2, SubscribeStreams
  <1>3. ASSUME NEW o \in 1 .. Len(subs), Unsubscribe(o) PROVE LoopsFit' /\ StreamsFit(tp)'
    BY <1>3, UnsubscribeStreams
  <1>4. CASE Authenticates
    <2> SUFFICES ASSUME Serving' PROVE LoopsFit' /\ StreamsFit(tp)'
      BY DEF LoopsFit, StreamsFit
    <2>1. jobs # <<>> /\ Proving(Job.for)
      BY <1>4 DEF Authenticates, Runs, Proving
    <2>2. Job.how # "ok"
      <3> SUFFICES ASSUME Job.how = "ok" PROVE FALSE
        OBVIOUS
      <3>1. UNCHANGED <<state, generation, socket, sockets>>
        BY <1>4 DEF Authenticates, link
      <3>2. Serving
        BY <3>1 DEF Serving, Online
      <3> QED
        BY <2>1, <3>2, ServingFits, LoginIsAnswered
    <2>3. AuthenticationFails(Job.sock)
      BY <1>4, <2>2 DEF Authenticates
    <2> QED
      BY <2>1, <2>3, FailingStreams
  <1>5. CASE Capabilities
    BY <1>5, CapabilitiesStreams
  <1>6. CASE RestoreNext
    BY <1>6, RestoreNextStreams
  <1>7. CASE Subscribed
    BY <1>7, SubscribedStreams
  <1>8. CASE Refreshed
    BY <1>8, RefreshedStreams
  <1>9. CASE Unsubscribed
    <2>1. jobs # <<>> /\ Job.for.what = "unsubscribe" /\ jobs' = Rest
          /\ UNCHANGED <<state, generation, socket, sockets, requests, subs, map, inbox, topics>>
      BY <1>9 DEF Unsubscribed, Runs, link, wire, table, session
    <2>2. Serving' <=> Serving
      BY <2>1 DEF Serving, Online
    <2> SUFFICES ASSUME Serving PROVE LoopsFit' /\ StreamsFit(tp)'
      BY <2>2 DEF LoopsFit, StreamsFit
    <2>3. jobs' = <<>> /\ \A i \in DOMAIN jobs : jobs[i].for.what = "unsubscribe"
      BY <2>1, ServingFits
    <2>4. LoopsFit'
      BY <2>1, <2>3 DEF LoopsFit
    <2>5. \A e : Restored(e) => Restored(e)'
      BY <2>1, <2>3 DEF Restored, Leads, Busy
    <2> QED
      BY <2>1, <2>2, <2>4, <2>5, StreamsKept
  <1>10. ASSUME NEW s \in Socket, Fails(s) \/ Closes(s) \/ Drops(s), s # generation PROVE LoopsFit' /\ StreamsFit(tp)'
    <2>1. /\ sockets' = [sockets EXCEPT ![s] = Gone] /\ UNCHANGED <<generation, socket, requests, jobs, subs, map>>
          /\ Hangup /\ state' \in {"failed", state}
      BY <1>10 DEF Fails, Closes, Drops, OnClose, GiveUp, table
    <2>2. sockets[s].ready # "open"
      BY <1>10 DEF RpcInv, SocketsFit, Live
    <2>3. Open(sockets') = Open(sockets)
      BY <2>1, <2>2 DEF Open, Gone, RpcInv, LinkTyped
    <2>4. UNCHANGED <<inbox, topics>>
      BY <2>1, <2>3 DEF Hangup, session
    <2>5. Serving' => Serving
      BY <1>10, <2>1 DEF Serving, Online, RpcInv, LinkTyped
    <2> QED
      BY <2>1, <2>4, <2>5, IdleStreams
  <1>11. ASSUME NEW s \in Socket, Receive(s) PROVE LoopsFit' /\ StreamsFit(tp)'
    BY <1>11, ReceiveStreams
  <1>12. ASSUME NEW r \in requests, TimesOut(r) PROVE LoopsFit' /\ StreamsFit(tp)'
    BY <1>12, TimesOutStreams
  <1>13. ASSUME NEW r \in inbox, Serve(r) PROVE LoopsFit' /\ StreamsFit(tp)'
    BY <1>13, ServeStreams
  <1>14. CASE (\E m \in answers : Reply(m)) \/ (\E t \in Topic : Happens(t)) \/ UNCHANGED vars
    <2>1. UNCHANGED <<state, generation, socket, sockets, requests, jobs, subs, map, inbox, topics>>
      BY <1>14 DEF Reply, Happens, vars, link, wire, table, session
    <2>2. Serving' <=> Serving
      BY <2>1 DEF Serving, Online
    <2> QED
      BY <2>1, <2>2, IdleStreams
  <1> QED
    BY <1>1, <1>2, <1>3, <1>4, <1>5, <1>6, <1>7, <1>8, <1>9, <1>10, <1>11, <1>12, <1>13, <1>14
       DEF Next, User, Microtask, Network

(* What the streams rest on, whatever was overtaken about other topics.    *)
StreamsInv == LoopsFit /\ \A t \in Topic \ overtaken : StreamsFit(t)

(* Loops are of the newest connection whatever was overtaken: what is no   *)
(* topic at all is streamed to nobody.                                     *)
LEMMA Elsewhere ==
    ASSUME RpcInv
    PROVE  \E x : x \notin overtaken' /\ StreamsFit(x)
  <1> DEFINE S == Topic \cup overtaken'
             x == {y \in S : y \notin y}
  <1>1. x \notin S
    OBVIOUS
  <1> HIDE DEF x
  <1>2. \A o \in DOMAIN subs : subs[o].topic # x
    BY <1>1, SubsAreSub DEF Page
  <1>3. Orders(x) = {}
    BY <1>2 DEF Orders, TopicOf, RpcInv, StreamFits, Paged
  <1>4. ~WillStream(x)
    BY <1>1, <1>3 DEF WillStream, RpcInv, SessionTyped
  <1>5. \A e \in map : e.sub \in DOMAIN subs
    BY DEF RpcInv, TableTyped
  <1>6. StreamsFit(x)
    BY <1>2, <1>4, <1>5 DEF StreamsFit
  <1> QED
    BY <1>1, <1>6

(* Every step keeps what the streams rest on.                              *)
LEMMA StreamsInvStep == RpcInv /\ StreamsInv /\ [Next]_vars => StreamsInv'
  <1> SUFFICES ASSUME RpcInv, StreamsInv, [Next]_vars PROVE StreamsInv'
    OBVIOUS
  <1> SUFFICES ASSUME Serving' PROVE StreamsInv'
    BY DEF StreamsInv, LoopsFit, StreamsFit
  <1>1. LoopsFit'
    <2>1. PICK x : x \notin overtaken' /\ StreamsFit(x)
      BY Elsewhere
    <2> QED
      BY <2>1, StreamsStep DEF StreamsInv
  <1>2. ASSUME NEW t \in Topic, t \notin overtaken' PROVE StreamsFit(t)'
    <2>1. StreamsFit(t)
      BY <1>2, HistoryGrows DEF StreamsInv
    <2> QED
      BY <1>2, <2>1, StreamsStep DEF StreamsInv
  <1> QED
    BY <1>1, <1>2 DEF StreamsInv

(* Once nothing is under way on a connection, what the server streams to   *)
(* it of a topic is what the pages subscribe to: subscribe and unsubscribe *)
(* send their orders in the order of the Map's changes, and                *)
(* restoreSubscriptions reaches every entry. The topics about which a      *)
(* worker of the server overtook another on this connection are excepted   *)
(* (Server.hs:328).                                                        *)
THEOREM StreamsHold == Spec => []StreamsAreSubscribed
  <1>1. Init => StreamsInv
    BY DEF Init, StreamsInv, LoopsFit, StreamsFit, Serving, Online
  <1>2. RpcInv /\ StreamsInv /\ [Next]_vars => StreamsInv'
    BY StreamsInvStep
  <1>3. RpcInv /\ StreamsInv => StreamsAreSubscribed
    <2> SUFFICES ASSUME RpcInv, StreamsInv, Quiet, NEW t \in Topic \ overtaken
                 PROVE  t \in topics <=> \E e \in map : subs[e.sub].topic = t
      BY DEF StreamsAreSubscribed
    <2>1. Serving /\ jobs = <<>> /\ requests = {} /\ inbox = {}
      BY DEF Quiet, Serving
    <2>2. WillStream(t) <=> t \in topics
      BY <2>1 DEF WillStream, Orders
    <2>3. \A e : ~Restored(e)
      BY <2>1 DEF Restored
    <2> QED
      BY <2>1, <2>2, <2>3 DEF StreamsInv, StreamsFit
  <1> QED
    BY <1>1, <1>2, <1>3, Invariance, PTL DEF Spec

-----------------------------------------------------------------------------
(* ViewsAreComplete: a page that is subscribed is one a restoration has    *)
(* still to reach, or has an answer under way, or is at rest: streamed,    *)
(* and short of nothing but what the connection still carries. At most one *)
(* loop is under way, and beside it only what pages asked that joined it;  *)
(* of every other page at most one request is.                             *)
Apart(p, x) ==
    /\ p.loop = 0 \/ x.loop = 0
    /\ p.loop # 0 => x.sub \in joined
    /\ x.loop # 0 => p.sub \in joined
    /\ p.sub = x.sub => p.sub \in joined
Latest(p) == p.latest \/ p.sub \in joined
OneLoop ==
    Serving =>
      /\ \A r, q \in requests : r # q /\ Busy(r.for) /\ Busy(q.for) => Apart(r.for, q.for)
      /\ \A i \in DOMAIN jobs, q \in requests : Busy(q.for) =>
           /\ jobs[i].for.what = "next" => q.for.loop = 0 /\ q.for.sub \in joined
           /\ Busy(jobs[i].for) => Apart(jobs[i].for, q.for)
      /\ \A r \in requests : Busy(r.for) => Latest(r.for)
      /\ \A i \in DOMAIN jobs : Busy(jobs[i].for) => Latest(jobs[i].for)

(* The pages the property excepts: that joined a loop, or about whose      *)
(* topic a worker was overtaken; they stay so while the connection serves. *)
Spared(e)  == e.sub \in joined \/ subs[e.sub].topic \in overtaken
SparedLast == Serving' => joined \subseteq joined' /\ \A e \in map : Spared(e) => Spared(e)'

(* Neither relation is undone while more pages join.                       *)
LEMMA ApartLasts ==
    ASSUME joined \subseteq joined', NEW p, NEW x
    PROVE  (Apart(p, x) => Apart(p, x)') /\ (Apart(p, x) => Apart(x, p)) /\ (Latest(p) => Latest(p)')
  BY DEF Apart, Latest

(* No request is superseded but of a page that joined: of any other none   *)
(* is under way.                                                           *)
LEMMA OneLoopSent ==
    ASSUME RpcInv, OneLoop, Serving, NEW p \in Purpose, Sends(p), Serving', SparedLast,
           Busy(p) => p.latest /\ \A q \in requests : Busy(q.for) => Apart(p, q.for)'
    PROVE  /\ OneLoop' /\ jobs' = <<>> /\ Asked(p) \in requests'
           /\ p.what # "refresh" => requests' = requests \cup {Asked(p)}
           /\ \A r : Busy(r.for) /\ r.for.sub \notin joined' /\ r # Asked(p) => (r \in requests <=> r \in requests')
  <1>1. Online /\ joined \subseteq joined'
    BY DEF Serving, SparedLast
  <1>2. Asked(p).for = p /\ jobs' = <<>> /\ requests' = {Superseded(q, p) : q \in requests} \cup {Asked(p)}
    BY <1>1, SentRequests DEF Sends
  <1> HIDE DEF Asked
  <1>3. ASSUME NEW q \in requests
        PROVE  /\ Superseded(q, p) = q \/ (Busy(p) /\ p.what = "refresh" /\ Busy(q.for) /\ q.for.sub = p.sub /\ q.for.sub \in joined')
               /\ Busy(Superseded(q, p).for) =>
                    /\ Busy(q.for) /\ Superseded(q, p).for.loop = q.for.loop /\ Superseded(q, p).for.sub = q.for.sub
                    /\ Superseded(q, p) = q \/ q.for.sub \in joined'
    <2>1. q \in Request
      BY DEF RpcInv, WireTyped
    <2>2. Superseded(q, p) # q => p.what = "refresh" /\ q.for.what = "refresh" /\ q.for.sub = p.sub
      BY DEF Superseded
    <2>3. Superseded(q, p) # q => Busy(p) /\ Busy(q.for) /\ q.for.sub \in joined'
      BY <2>2 DEF Busy, Apart
    <2>4. Superseded(q, p).for.what = q.for.what /\ (Paged(q.for) => Superseded(q, p).for.sub = q.for.sub)
          /\ (Busy(q.for) => Superseded(q, p).for.loop = q.for.loop)
      BY <2>1, SupersededFits DEF Busy
    <2> QED
      BY <2>2, <2>3, <2>4 DEF Busy, Paged
  <1>4. p.what # "refresh" => requests' = requests \cup {Asked(p)}
    BY <1>2, <1>3
  <1>5. ASSUME NEW r, Busy(r.for), r.for.sub \notin joined', r # Asked(p) PROVE r \in requests <=> r \in requests'
    BY <1>2, <1>3, <1>5
  <1>6. OneLoop'
    <2>1. ASSUME NEW q \in requests', Busy(q.for), q # Asked(p)
          PROVE  \E k \in requests : q = Superseded(k, p) /\ Busy(k.for) /\ q.for.loop = k.for.loop /\ q.for.sub = k.for.sub
                                     /\ Latest(q.for)'
      <3>1. PICK k \in requests : q = Superseded(k, p)
        BY <1>2, <2>1
      <3>2. Latest(k.for)' \/ q.for.sub \in joined'
        BY <1>1, <1>3, <2>1, <3>1, ApartLasts DEF OneLoop
      <3> QED
        BY <1>3, <2>1, <3>1, <3>2 DEF Latest
    <2>2. \A r \in requests' : Busy(r.for) => Latest(r.for)'
      <3> SUFFICES ASSUME NEW r \in requests', Busy(r.for) PROVE Latest(r.for)'
        OBVIOUS
      <3>1. CASE r = Asked(p)
        BY <1>2, <3>1 DEF Latest
      <3> QED
        BY <2>1, <3>1
    <2>3. ASSUME NEW r \in requests', NEW q \in requests', r # q, Busy(r.for), Busy(q.for) PROVE Apart(r.for, q.for)'
      <3>1. CASE r # Asked(p) /\ q # Asked(p)
        <4>1. PICK x \in requests : r = Superseded(x, p) /\ Busy(x.for) /\ r.for.loop = x.for.loop /\ r.for.sub = x.for.sub
          BY <2>1, <2>3, <3>1
        <4>2. PICK y \in requests : q = Superseded(y, p) /\ Busy(y.for) /\ q.for.loop = y.for.loop /\ q.for.sub = y.for.sub
          BY <2>1, <2>3, <3>1
        <4>3. Apart(x.for, y.for)'
          BY <1>1, <2>3, <4>1, <4>2, ApartLasts DEF OneLoop
        <4> QED
          BY <4>1, <4>2, <4>3 DEF Apart
      <3>2. CASE r = Asked(p) /\ q # Asked(p)
        <4>1. PICK y \in requests : Busy(y.for) /\ q.for.loop = y.for.loop /\ q.for.sub = y.for.sub
          BY <2>1, <2>3, <3>2
        <4>2. Apart(p, y.for)'
          BY <1>2, <2>3, <3>2, <4>1
        <4> QED
          BY <1>2, <3>2, <4>1, <4>2 DEF Apart
      <3>3. CASE r # Asked(p) /\ q = Asked(p)
        <4>1. PICK y \in requests : Busy(y.for) /\ r.for.loop = y.for.loop /\ r.for.sub = y.for.sub
          BY <2>1, <2>3, <3>3
        <4>2. Apart(p, y.for)'
          BY <1>2, <2>3, <3>3, <4>1
        <4> QED
          BY <1>2, <3>3, <4>1, <4>2 DEF Apart
      <3> QED
        BY <2>3, <3>1, <3>2, <3>3
    <2> QED
      BY <1>2, <2>2, <2>3 DEF OneLoop
  <1> QED
    BY <1>2, <1>4, <1>5, <1>6

(* After a return the loop goes on alone.                                  *)
LEMMA OneLoopReturn ==
    ASSUME RpcInv, OneLoop, Serving, SparedLast, jobs # <<>>, Busy(Job.for), jobs' = Return, UNCHANGED requests
    PROVE  /\ OneLoop'
           /\ \A i \in DOMAIN jobs' : ~Busy(jobs'[i].for)
  <1>1. Rest = <<>> /\ 1 \in DOMAIN jobs /\ Job = jobs[1]
    BY ServingFits, JobFits
  <1>2. Serving' => joined \subseteq joined'
    BY DEF SparedLast
  <1>3. /\ \A r, q \in requests : r # q /\ Busy(r.for) /\ Busy(q.for) => Apart(r.for, q.for)
        /\ \A r \in requests : Busy(r.for) => Latest(r.for)
    BY DEF OneLoop
  <1>4. Serving' => /\ \A r, q \in requests : r # q /\ Busy(r.for) /\ Busy(q.for) => Apart(r.for, q.for)'
                    /\ \A r \in requests : Busy(r.for) => Latest(r.for)'
    BY <1>2, <1>3, ApartLasts
  <1>5. CASE Job.for.loop = 0
    <2>1. jobs' = <<>>
      BY <1>1, <1>5 DEF Return
    <2> QED
      BY <1>4, <2>1 DEF OneLoop
  <1>6. CASE Job.for.loop # 0
    <2> DEFINE j == Next_(Job.for.loop, Job.for.pos)
    <2>1. jobs' = Append(<<>>, j) /\ j.for.what = "next"
      BY <1>1, <1>6 DEF Return, Next_
    <2> HIDE DEF j
    <2>2. DOMAIN jobs' = {1} /\ jobs'[1] = j
      BY <2>1
    <2>3. \A q \in requests : Busy(q.for) => q.for.loop = 0 /\ q.for.sub \in joined
      BY <1>1, <1>6 DEF OneLoop, Apart
    <2>4. ~Busy(j.for)
      BY <2>1 DEF Busy
    <2> QED
      BY <1>2, <1>4, <2>1, <2>2, <2>3, <2>4 DEF OneLoop
  <1> QED
    BY <1>5, <1>6

(* A request that is settled is still the only one of its page.            *)
LEMMA OneLoopSettled ==
    ASSUME RpcInv, OneLoop, Serving, SparedLast, NEW r \in requests, NEW how \in How, NEW shows \in Nat,
           requests' = requests \ {r}, jobs' = <<Settles(r, how, shows)>>
    PROVE  OneLoop'
  <1>1. DOMAIN jobs' = {1} /\ jobs'[1].for = r.for
    BY SettlesFits
  <1>2. r.for.what # "next"
    BY PurposeFields DEF RpcInv, WireTyped, Request
  <1>3. /\ \A x, q \in requests : x # q /\ Busy(x.for) /\ Busy(q.for) => Apart(x.for, q.for)
        /\ \A x \in requests : Busy(x.for) => Latest(x.for)
    BY DEF OneLoop
  <1>4. Serving' => /\ \A x, q \in requests : x # q /\ Busy(x.for) /\ Busy(q.for) => Apart(x.for, q.for)'
                    /\ \A x \in requests : Busy(x.for) => Latest(x.for)'
    BY <1>3, ApartLasts DEF SparedLast
  <1> QED
    BY <1>1, <1>2, <1>4 DEF OneLoop

(* What asks for nothing leaves one loop.                                  *)
LEMMA OneLoopIdle ==
    ASSUME OneLoop, Serving' => Serving, SparedLast, UNCHANGED requests, jobs' = jobs \/ jobs' = <<>>
    PROVE  OneLoop'
  <1> SUFFICES ASSUME Serving' PROVE OneLoop'
    BY DEF OneLoop
  <1>1. joined \subseteq joined' /\ Serving
    BY DEF SparedLast
  <1>2. /\ \A x, q \in requests : x # q /\ Busy(x.for) /\ Busy(q.for) => Apart(x.for, q.for)'
        /\ \A x \in requests : Busy(x.for) => Latest(x.for)'
    BY <1>1, ApartLasts DEF OneLoop
  <1>3. CASE jobs' = jobs
    <2>1. ASSUME NEW i \in DOMAIN jobs, NEW q \in requests, Busy(q.for)
          PROVE  /\ jobs'[i].for.what = "next" => q.for.loop = 0 /\ q.for.sub \in joined'
                 /\ Busy(jobs'[i].for) => Apart(jobs[i].for, q.for)'
      <3>1. PICK x, y : x = jobs[i].for /\ y = q.for
        OBVIOUS
      <3>2. (x.what = "next" => y.loop = 0 /\ y.sub \in joined) /\ (Busy(x) => Apart(x, y))
        BY <1>1, <2>1, <3>1 DEF OneLoop
      <3>3. (x.what = "next" => y.loop = 0 /\ y.sub \in joined') /\ (Busy(x) => Apart(x, y)')
        BY <1>1, <3>2, ApartLasts
      <3> QED
        BY <1>3, <3>1, <3>3
    <2>2. ASSUME NEW i \in DOMAIN jobs, Busy(jobs'[i].for) PROVE Latest(jobs[i].for)'
      <3>1. PICK x : x = jobs[i].for
        OBVIOUS
      <3>2. Latest(x)
        BY <1>1, <1>3, <2>2, <3>1 DEF OneLoop
      <3>3. Latest(x)'
        BY <1>1, <3>2, ApartLasts
      <3> QED
        BY <1>3, <3>1, <3>3
    <2> QED
      BY <1>2, <1>3, <2>1, <2>2 DEF OneLoop
  <1>4. CASE jobs' = <<>>
    BY <1>2, <1>4 DEF OneLoop
  <1> QED
    BY <1>3, <1>4

(* What pages show, hold back or are sent has happened.                    *)
PagesSeen == \A o \in DOMAIN subs : subs[o].view \cup subs[o].buffered \subseteq 1 .. happened[subs[o].topic]
EventsSeen == \A i \in DOMAIN outbox : outbox[i].kind = "event" => outbox[i].n \in 1 .. happened[outbox[i].topic]
JobsSeen ==
    \A i \in DOMAIN jobs : jobs[i].for.what = "refresh" /\ jobs[i].how = "ok" =>
      jobs[i].shows \in 0 .. happened[TopicOf(jobs[i].for)]
AnswersSeen ==
    \A r \in requests : r.for.what = "refresh" =>
      /\ \A m \in answers : m.id = r.id => m.shows \in 0 .. happened[TopicOf(r.for)]
      /\ \A i \in DOMAIN outbox : outbox[i].kind = "answer" /\ outbox[i].id = r.id =>
           outbox[i].shows \in 0 .. happened[TopicOf(r.for)]
SeenFits == PagesSeen /\ EventsSeen /\ JobsSeen /\ AnswersSeen

(* Events that are still carried have happened.                            *)
LEMMA EventsSeenKept ==
    ASSUME EventsSeen, UNCHANGED happened,
           \A i \in DOMAIN outbox' : outbox'[i].kind = "event" => \E k \in DOMAIN outbox : outbox'[i] = outbox[k]
    PROVE  EventsSeen'
  BY DEF EventsSeen

(* A snapshot that is about to be shown is of what has happened.           *)
LEMMA JobsSeenKept ==
    ASSUME RpcInv, JobsSeen, UNCHANGED happened, \A o \in DOMAIN subs : subs'[o].topic = subs[o].topic,
           \A i \in DOMAIN jobs' : jobs'[i].for.what = "refresh" /\ jobs'[i].how = "ok" => \E k \in DOMAIN jobs : jobs'[i] = jobs[k]
    PROVE  JobsSeen'
  <1>1. \A i \in DOMAIN jobs : jobs[i].for.what = "refresh" => jobs[i].for.sub \in DOMAIN subs
    BY DEF RpcInv, JobsFit, Paged
  <1> QED
    BY <1>1 DEF JobsSeen, TopicOf

(* So is one that is still on its way.                                     *)
LEMMA AnswersSeenKept ==
    ASSUME RpcInv, AnswersSeen, UNCHANGED happened, \A o \in DOMAIN subs : subs'[o].topic = subs[o].topic,
           answers' \subseteq answers,
           \A i \in DOMAIN outbox' : outbox'[i].kind = "answer" =>
             outbox'[i] \in answers \/ \E k \in DOMAIN outbox : outbox'[i] = outbox[k],
           \A r \in requests' : r.for.what = "refresh" =>
             \/ \E q \in requests : q.for.what = "refresh" /\ q.id = r.id /\ q.for.sub = r.for.sub
             \/ r.id = nextId
    PROVE  AnswersSeen'
  <1>1. \A q \in requests : q.for.what = "refresh" => q.for.sub \in DOMAIN subs
    BY DEF RpcInv, PagesFit, Paged
  <1>2. \A m \in answers : m.id \in Nat /\ m.id < nextId
    BY DEF RpcInv, ServerFits, SessionTyped, Answer
  <1>3. \A k \in DOMAIN outbox : outbox[k].kind = "answer" => outbox[k].id \in Nat /\ outbox[k].id < nextId
    <2> SUFFICES ASSUME NEW k \in DOMAIN outbox, outbox[k].kind = "answer" PROVE outbox[k].id \in Nat /\ outbox[k].id < nextId
      OBVIOUS
    <2>1. outbox[k] \in Answer \cup Event
      BY ElementOfSeq DEF RpcInv, SessionTyped
    <2> QED
      BY <2>1 DEF RpcInv, ServerFits, Answer, Event
  <1> SUFFICES ASSUME NEW r \in requests', r.for.what = "refresh"
               PROVE  /\ \A m \in answers' : m.id = r.id => m.shows \in 0 .. happened'[TopicOf(r.for)']
                      /\ \A i \in DOMAIN outbox' : outbox'[i].kind = "answer" /\ outbox'[i].id = r.id =>
                           outbox'[i].shows \in 0 .. happened'[TopicOf(r.for)']
    BY DEF AnswersSeen
  <1>4. CASE r.id = nextId
    <2>1. nextId \in Nat
      BY DEF RpcInv, WireTyped
    <2> QED
      BY <1>2, <1>3, <1>4, <2>1
  <1>5. CASE \E q \in requests : q.for.what = "refresh" /\ q.id = r.id /\ q.for.sub = r.for.sub
    <2>1. PICK q \in requests : q.for.what = "refresh" /\ q.id = r.id /\ q.for.sub = r.for.sub
      BY <1>5
    <2>2. TopicOf(r.for)' = TopicOf(q.for)
      BY <1>1, <2>1 DEF TopicOf
    <2>3. /\ \A m \in answers : m.id = r.id => m.shows \in 0 .. happened[TopicOf(q.for)]
          /\ \A i \in DOMAIN outbox : outbox[i].kind = "answer" /\ outbox[i].id = r.id =>
               outbox[i].shows \in 0 .. happened[TopicOf(q.for)]
      BY <2>1 DEF AnswersSeen
    <2> QED
      BY <2>2, <2>3
  <1> QED
    BY <1>4, <1>5

(* What the connection still carries of a topic, and whether it carries    *)
(* all of it.                                                              *)
Queued(t)   == {outbox[i].n : i \in {k \in DOMAIN outbox : outbox[k].kind = "event" /\ outbox[k].topic = t}}
Streamed(t) == t \in topics /\ Orders(t) = {}
Covers(o, shows) == 1 .. happened[subs[o].topic] \subseteq (1 .. shows) \cup subs[o].buffered \cup Queued(subs[o].topic)
Complete(o)      == 1 .. happened[subs[o].topic] \subseteq subs[o].view \cup Queued(subs[o].topic)

(* Request r is the last order about the page's topic; once it was carried *)
(* out the topic is streamed; what then answers a refresh leaves no gap.   *)
Pursued(o, r) ==
    /\ r.for.what = "subscribe" => /\ \A q \in Orders(subs[o].topic) : q.id <= r.id
                                   /\ (\A q \in inbox : q.id # r.id) => Streamed(subs[o].topic)
    /\ r.for.what = "refresh" => /\ Streamed(subs[o].topic)
                                 /\ \A m \in answers : m.id = r.id => Covers(o, m.shows)
                                 /\ \A i \in DOMAIN outbox : outbox[i].kind = "answer" /\ outbox[i].id = r.id => Covers(o, outbox[i].shows)
Heard(o, j) ==
    /\ j.for.what = "subscribe" /\ j.how = "ok" => Streamed(subs[o].topic)
    /\ j.for.what = "refresh" => Streamed(subs[o].topic) /\ (j.how = "ok" => Covers(o, j.shows))

InFlight(o) ==
    /\ subs[o].restoring
    /\ \/ \E r \in requests : Busy(r.for) /\ r.for.sub = o /\ Pursued(o, r)
       \/ \E i \in DOMAIN jobs : Busy(jobs[i].for) /\ jobs[i].for.sub = o /\ Heard(o, jobs[i])
AtRest(o) ==
    /\ ~subs[o].restoring /\ Streamed(subs[o].topic)
    /\ \A r \in requests : Busy(r.for) => r.for.sub # o
    /\ \A i \in DOMAIN jobs : Busy(jobs[i].for) => jobs[i].for.sub # o
    /\ subs[o].failed \/ Complete(o)
Served(e) == Restored(e) \/ InFlight(e.sub) \/ AtRest(e.sub)
ViewsFit  == Serving => \A e \in map : Spared(e) \/ Served(e)

(* What a connection carries grows at its end.                             *)
LEMMA QueuedGrows ==
    ASSUME RpcInv, NEW m, outbox' = Append(outbox, m), NEW t
    PROVE  /\ Queued(t) \subseteq Queued(t)'
           /\ m.kind = "event" /\ m.topic = t => m.n \in Queued(t)'
           /\ \A i \in DOMAIN outbox' : outbox'[i] = m \/ \E k \in DOMAIN outbox : outbox'[i] = outbox[k]
  <1>1. /\ Len(outbox) \in Nat /\ DOMAIN outbox = 1 .. Len(outbox) /\ DOMAIN outbox' = 1 .. Len(outbox) + 1
        /\ \A i \in DOMAIN outbox : outbox'[i] = outbox[i]
        /\ outbox'[Len(outbox) + 1] = m
    BY AppendProperties, LenProperties DEF RpcInv, SessionTyped
  <1>2. \A i \in DOMAIN outbox : i \in DOMAIN outbox' /\ outbox'[i] = outbox[i]
    BY <1>1
  <1>3. Len(outbox) + 1 \in DOMAIN outbox'
    BY <1>1
  <1>4. \A i \in DOMAIN outbox' : i = Len(outbox) + 1 \/ i \in DOMAIN outbox
    BY <1>1
  <1>5. Queued(t) \subseteq Queued(t)'
    BY <1>2 DEF Queued
  <1>6. m.kind = "event" /\ m.topic = t => m.n \in Queued(t)'
    BY <1>1, <1>3 DEF Queued
  <1> QED
    BY <1>1, <1>2, <1>4, <1>5, <1>6

(* and shrinks at its head.                                                *)
LEMMA QueuedShrinks ==
    ASSUME RpcInv, outbox # <<>>, outbox' = Tail(outbox), NEW t
    PROVE  /\ Head(outbox) = outbox[1] /\ 1 \in DOMAIN outbox
           /\ \A i \in DOMAIN outbox' : \E k \in DOMAIN outbox : outbox'[i] = outbox[k]
           /\ ~(Head(outbox).kind = "event" /\ Head(outbox).topic = t) => Queued(t)' = Queued(t)
           /\ Queued(t) \subseteq Queued(t)' \cup {Head(outbox).n}
           /\ Queued(t)' \subseteq Queued(t)
  <1>1. /\ Len(outbox) \in Nat /\ DOMAIN outbox = 1 .. Len(outbox) /\ Len(outbox) # 0
        /\ DOMAIN outbox' = 1 .. Len(outbox) - 1
        /\ \A i \in 1 .. Len(outbox) - 1 : outbox'[i] = outbox[i + 1]
        /\ Head(outbox) = outbox[1]
    BY EmptySeq, LenProperties, HeadTailProperties DEF RpcInv, SessionTyped
  <1>2. \A i \in DOMAIN outbox' : i + 1 \in DOMAIN outbox /\ outbox'[i] = outbox[i + 1]
    BY <1>1
  <1>3. \A i \in DOMAIN outbox : i = 1 \/ (i - 1 \in DOMAIN outbox' /\ outbox'[i - 1] = outbox[i])
    BY <1>1
  <1>4. 1 \in DOMAIN outbox
    BY <1>1
  <1>5. Queued(t)' \subseteq Queued(t)
    BY <1>2 DEF Queued
  <1>6. ASSUME NEW n \in Queued(t), n \notin Queued(t)'
        PROVE  n = Head(outbox).n /\ Head(outbox).kind = "event" /\ Head(outbox).topic = t
    <2>1. PICK i \in DOMAIN outbox : outbox[i].kind = "event" /\ outbox[i].topic = t /\ n = outbox[i].n
      BY DEF Queued
    <2>2. i = 1
      <3> SUFFICES ASSUME i # 1 PROVE FALSE
        OBVIOUS
      <3> DEFINE k == i - 1
      <3>1. k \in DOMAIN outbox' /\ outbox'[k] = outbox[i]
        BY <1>3
      <3> HIDE DEF k
      <3>2. outbox'[k].n \in Queued(t)'
        BY <2>1, <3>1 DEF Queued
      <3> QED
        BY <1>6, <2>1, <3>1, <3>2
    <2> QED
      BY <1>1, <2>1, <2>2
  <1>7. Queued(t) \subseteq Queued(t)' \cup {Head(outbox).n}
    BY <1>6
  <1>8. ~(Head(outbox).kind = "event" /\ Head(outbox).topic = t) => Queued(t) \subseteq Queued(t)'
    BY <1>6
  <1> QED
    BY <1>1, <1>2, <1>4, <1>5, <1>7, <1>8

(* A page that is left alone lacks no more than before.                    *)
LEMMA CoverageKept ==
    ASSUME NEW o, subs'[o] = subs[o], UNCHANGED happened, Queued(subs[o].topic) \subseteq Queued(subs[o].topic)'
    PROVE  (\A shows : Covers(o, shows) => Covers(o, shows)') /\ (Complete(o) => Complete(o)')
  <1> DEFINE t == subs[o].topic
  <1>1. subs'[o].topic = t /\ subs'[o].view = subs[o].view /\ subs'[o].buffered = subs[o].buffered /\ happened'[t] = happened[t]
    OBVIOUS
  <1>2. Queued(subs[o].topic)' = Queued(t)'
    BY <1>1
  <1> QED
    BY <1>1, <1>2 DEF Covers, Complete

(* An entry nobody acts on stays served.                                   *)
LEMMA ServedKept ==
    ASSUME RpcInv, NEW e, Served(e), Restored(e) => Restored(e)',
           subs'[e.sub].topic = subs[e.sub].topic, subs'[e.sub].restoring = subs[e.sub].restoring,
           subs'[e.sub].failed = subs[e.sub].failed, UNCHANGED topics, inbox \subseteq inbox',
           Orders(subs[e.sub].topic)' = Orders(subs[e.sub].topic),
           subs[e.sub].restoring => \A shows : Streamed(subs[e.sub].topic) /\ Covers(e.sub, shows) => Covers(e.sub, shows)',
           ~subs[e.sub].restoring => (Streamed(subs[e.sub].topic) /\ Complete(e.sub) => Complete(e.sub)'),
           \A r : Busy(r.for) /\ r.for.sub = e.sub => (r \in requests <=> r \in requests'),
           \A i \in DOMAIN jobs : Busy(jobs[i].for) => jobs[i].for.sub # e.sub,
           \A i \in DOMAIN jobs' : Busy(jobs'[i].for) => jobs'[i].for.sub # e.sub,
           answers' \subseteq answers,
           \A i \in DOMAIN outbox' : outbox'[i].kind = "answer" =>
             outbox'[i] \in answers \/ \E k \in DOMAIN outbox : outbox'[i] = outbox[k]
    PROVE  Served(e)'
  <1> DEFINE o == e.sub
             t == subs[o].topic
  <1>1. Orders(subs[o].topic)' = Orders(t)
    OBVIOUS
  <1>2. Streamed(subs[o].topic)' <=> Streamed(t)
    BY <1>1 DEF Streamed
  <1>3. CASE InFlight(o)
    <2>1. PICK r \in requests : Busy(r.for) /\ r.for.sub = o /\ Pursued(o, r)
      BY <1>3 DEF InFlight
    <2>2. r \in requests' /\ subs[o].restoring
      BY <1>3, <2>1 DEF InFlight
    <2>3. Pursued(o, r)'
      BY <1>1, <1>2, <2>1, <2>2 DEF Pursued
    <2> QED
      BY <2>1, <2>2, <2>3 DEF InFlight, Served
  <1>4. CASE AtRest(o)
    BY <1>2, <1>4 DEF AtRest, Served
  <1> QED
    BY <1>3, <1>4 DEF Served

(* A loop is done, or asks for its next entry.                             *)
RestoreOf(e) == [what |-> "subscribe", sub |-> e.sub, loop |-> Job.sock, pos |-> e.pos, latest |-> TRUE]

(* The loop of restoreSubscriptions, by the entries it has still to pass.  *)
LEMMA RestoreNextCases ==
    ASSUME RpcInv, RestoreNext
    PROVE  /\ jobs # <<>> /\ Job.for.what = "next" /\ Job \in Loop
           /\ UNCHANGED <<login, link, map, answers, outbox, topics, happened, logins, faults>>
           /\ \/ (\A f \in map : ~(f.pos > Job.for.pos)) /\ jobs' = Rest /\ UNCHANGED <<subs, wire, inbox>>
              \/ \E e \in map :
                   /\ e.pos > Job.for.pos /\ \A g \in map : g.pos > Job.for.pos => e.pos <= g.pos
                   /\ e.sub \in DOMAIN subs /\ DOMAIN subs' = DOMAIN subs
                   /\ \A q \in DOMAIN subs : subs'[q].topic = subs[q].topic /\ (q # e.sub => subs'[q] = subs[q])
                   /\ subs'[e.sub].restoring = TRUE /\ subs'[e.sub].buffered = {}
                   /\ subs'[e.sub].view = subs[e.sub].view /\ subs'[e.sub].failed = subs[e.sub].failed
                   /\ RestoreOf(e) \in Purpose /\ RestoreOf(e).what = "subscribe" /\ RestoreOf(e).sub = e.sub
                   /\ RestoreOf(e).loop = Job.sock /\ RestoreOf(e).pos = e.pos /\ RestoreOf(e).latest = TRUE
                   /\ SendRequest(RestoreOf(e), state = "authenticated", Rest)
  <1> DEFINE later == {f \in map : f.pos > Job.for.pos}
             e0    == CHOOSE f \in later : \A g \in later : f.pos <= g.pos
             p     == [what |-> "subscribe", sub |-> e0.sub, loop |-> Job.sock, pos |-> e0.pos, latest |-> TRUE]
  <1>1. /\ jobs # <<>> /\ Job.for.what = "next"
        /\ UNCHANGED <<login, link, map, answers, outbox, topics, happened, logins, faults>>
        /\ IF later = {} THEN jobs' = Rest /\ UNCHANGED <<subs, wire, inbox>>
           ELSE /\ subs' = Restoring(e0.sub)
                /\ SendRequest(p, state = "authenticated", Rest)
    BY DEF RestoreNext, Runs, Ask, Restoring
  <1>2. Job \in Loop
    <2> HIDE DEF later, e0, p
    <2>1. jobs # <<>> /\ Job.for.what = "next"
      BY <1>1
    <2> QED
      BY ONLY RpcInv, <2>1, JobFits, ResultFields
  <1>3. CASE later = {}
    <2> HIDE DEF e0, p
    <2>1. jobs' = Rest /\ UNCHANGED <<subs, wire, inbox>>
      BY <1>1, <1>3
    <2>2. \A f \in map : ~(f.pos > Job.for.pos)
      BY <1>3
    <2> QED
      BY <1>1, <1>2, <2>1, <2>2
  <1>4. CASE later # {}
    <2>1. e0 \in later /\ e0 \in map /\ e0.sub \in DOMAIN subs /\ e0.pos \in DOMAIN subs /\ \A g \in later : e0.pos <= g.pos
      BY <1>4, NextEntry
    <2> HIDE DEF e0
    <2>2. p = RestoreOf(e0)
      BY DEF RestoreOf
    <2>3. e0.sub \in Sub /\ e0.pos \in {0} \cup Sub /\ Job.sock \in {0} \cup Socket
      BY <1>2, <2>1, SubsAreSub DEF Loop
    <2>4. RestoreOf(e0) \in Purpose /\ RestoreOf(e0).what = "subscribe" /\ RestoreOf(e0).sub = e0.sub
          /\ RestoreOf(e0).loop = Job.sock /\ RestoreOf(e0).pos = e0.pos /\ RestoreOf(e0).latest = TRUE
      BY <2>3, PurposesAsked DEF RestoreOf
    <2> DEFINE o == e0.sub
    <2>5. o \in DOMAIN subs /\ subs' = Restoring(o)
      BY <1>1, <1>4, <2>1
    <2> HIDE DEF o
    <2>6. /\ DOMAIN subs' = DOMAIN subs
          /\ \A q \in DOMAIN subs : subs'[q].topic = subs[q].topic /\ (q # o => subs'[q] = subs[q])
          /\ subs'[o].restoring = TRUE /\ subs'[o].buffered = {} /\ subs'[o].view = subs[o].view /\ subs'[o].failed = subs[o].failed
      BY <2>5, RestoringFits
    <2>7. SendRequest(RestoreOf(e0), state = "authenticated", Rest)
      BY <1>1, <1>4, <2>2
    <2>8. e0.pos > Job.for.pos /\ \A g \in map : g.pos > Job.for.pos => e0.pos <= g.pos
      BY <2>1
    <2> HIDE DEF later, p
    <2> QED
      BY <1>1, <1>2, <2>1, <2>4, <2>6, <2>7, <2>8 DEF o
  <1> HIDE DEF later, e0, p
  <1> QED
    BY <1>3, <1>4

(* Nothing new is heard: what was asked, answered and settled is as before. *)
LEMMA SeenKept ==
    ASSUME RpcInv, EventsSeen, JobsSeen, AnswersSeen, UNCHANGED happened,
           \A o \in DOMAIN subs : subs'[o].topic = subs[o].topic,
           answers' \subseteq answers,
           \A i \in DOMAIN outbox' : outbox'[i] \in answers \/ \E k \in DOMAIN outbox : outbox'[i] = outbox[k],
           \A i \in DOMAIN jobs' : jobs'[i].for.what = "refresh" /\ jobs'[i].how = "ok" => \E k \in DOMAIN jobs : jobs'[i] = jobs[k],
           \A r \in requests' : r.for.what = "refresh" =>
             \/ \E q \in requests : q.for.what = "refresh" /\ q.id = r.id /\ q.for.sub = r.for.sub
             \/ r.id = nextId
    PROVE  EventsSeen' /\ JobsSeen' /\ AnswersSeen'
  <1>1. EventsSeen'
    <2>1. \A m \in answers : m.kind = "answer"
      BY DEF RpcInv, SessionTyped, Answer
    <2> QED
      BY <2>1, EventsSeenKept
  <1>2. JobsSeen'
    BY JobsSeenKept
  <1>3. AnswersSeen'
    BY AnswersSeenKept
  <1> QED
    BY <1>1, <1>2, <1>3

(* A connection that ends carries nothing new.                             *)
LEMMA HangupKeeps ==
    ASSUME Hangup \/ UNCHANGED session
    PROVE  /\ answers' \subseteq answers
           /\ \A i \in DOMAIN outbox' : outbox'[i] \in answers \/ \E k \in DOMAIN outbox : outbox'[i] = outbox[k]
  <1>1. CASE UNCHANGED <<answers, outbox>>
    BY <1>1
  <1>2. CASE answers' = {} /\ outbox' = <<>>
    <2>1. DOMAIN outbox' = {}
      BY <1>2
    <2> QED
      BY <1>2, <2>1
  <1> QED
    BY <1>1, <1>2 DEF Hangup, session

(* What a page shows has happened when it showed it before or shows        *)
(* nothing.                                                                *)
LEMMA PagesSeenKept ==
    ASSUME PagesSeen, UNCHANGED happened,
           \A o \in DOMAIN subs' : \/ subs'[o].view = {} /\ subs'[o].buffered = {}
                                   \/ /\ o \in DOMAIN subs /\ subs'[o].topic = subs[o].topic
                                      /\ subs'[o].view \cup subs'[o].buffered \subseteq subs[o].view \cup subs[o].buffered
    PROVE  PagesSeen'
  BY DEF PagesSeen

(* What is asked brings nothing that has not happened: its answer is still *)
(* to be read.                                                             *)
LEMMA SeenSent ==
    ASSUME RpcInv, EventsSeen, JobsSeen, AnswersSeen, UNCHANGED <<happened, answers, outbox>>,
           \A o \in DOMAIN subs : subs'[o].topic = subs[o].topic,
           NEW p \in Purpose, NEW authenticated \in BOOLEAN, NEW rest \in Seq(Result \cup Loop),
           \A i \in DOMAIN rest : rest[i].for.what = "next" \/ rest[i].how # "ok", Online => rest = <<>>,
           SendRequest(p, authenticated, rest)
    PROVE  EventsSeen' /\ JobsSeen' /\ AnswersSeen'
  <1>1. CASE Online /\ authenticated
    <2>1. Sends(p)
      BY <1>1, SendCases
    <2>2. jobs' = <<>>
      BY <2>1 DEF Sends
    <2>3. ASSUME NEW r \in requests', r.for.what = "refresh"
          PROVE  r.id = nextId \/ \E q \in requests : q.for.what = "refresh" /\ q.id = r.id /\ q.for.sub = r.for.sub
      <3>1. CASE r = Asked(p)
        BY <1>1, <2>1, <3>1, SentRequests
      <3>2. CASE r # Asked(p)
        BY <1>1, <2>1, <2>3, <3>2, SentRequests DEF Paged
      <3> QED
        BY <3>1, <3>2
    <2> QED
      BY <2>2, <2>3, SeenKept
  <1>2. CASE ~(Online /\ authenticated)
    <2> DEFINE j == Settles([sock |-> socket, for |-> p], "offline", 0)
    <2>1. jobs' = Append(rest, j) /\ requests' = requests
      BY <1>2, SendCases DEF wire
    <2>2. j.how = "offline" /\ j.for = p
      BY DEF Settles
    <2>3. p.what # "next"
      BY PurposeFields
    <2> HIDE DEF j
    <2>4. \A i \in DOMAIN jobs' : jobs'[i] = j \/ (i \in DOMAIN rest /\ jobs'[i] = rest[i])
      <3>1. /\ Len(rest) \in Nat /\ DOMAIN rest = 1 .. Len(rest) /\ DOMAIN jobs' = 1 .. Len(rest) + 1
            /\ \A i \in 1 .. Len(rest) : jobs'[i] = rest[i]
            /\ jobs'[Len(rest) + 1] = j
        BY <2>1, AppendProperties, LenProperties
      <3> QED
        BY <3>1
    <2>5. \A i \in DOMAIN jobs' : ~(jobs'[i].for.what = "refresh" /\ jobs'[i].how = "ok")
      BY <2>2, <2>4
    <2> QED
      BY <2>1, <2>5, SeenKept
  <1> QED
    BY <1>1, <1>2

(* The steps that begin or end connections.                                *)
LEMMA LinkSeen ==
    ASSUME RpcInv, SeenFits, \/ \E token \in Tokens : Connect(token)
                             \/ Dispose \/ Retry \/ TimerFires
                             \/ \E s \in Socket : Opens(s) \/ Malformed(s)
                             \/ \E s \in Socket : Fails(s) \/ Closes(s) \/ Drops(s)
    PROVE  SeenFits'
  <1>1. ASSUME NEW how \in How \ {"ok"}, RejectPending(how)
        PROVE  /\ \A r \in requests' : r.for.what # "refresh"
               /\ \A i \in DOMAIN jobs' : jobs'[i].how # "ok"
    <2>1. \A r \in requests' : ~Paged(r.for)
      BY <1>1, Rejected
    <2>2. \A i \in DOMAIN jobs' : jobs'[i].how = how
      BY <1>1, Rejected
    <2> QED
      BY <2>1, <2>2 DEF Paged
  <1>2. /\ \A r \in requests' : r.for.what = "refresh" => r \in requests
        /\ \A i \in DOMAIN jobs' : jobs'[i].how = "ok" => \E k \in DOMAIN jobs : jobs'[i] = jobs[k]
    <2>1. "closed" \in How \ {"ok"} /\ "malformed" \in How \ {"ok"}
      BY DEF How
    <2>2. CASE (\E token \in Tokens : Connect(token)) \/ Dispose
      BY <1>1, <2>1, <2>2 DEF Connect, Dispose, Disconnected
    <2>3. CASE \E s \in Socket : Malformed(s)
      BY <1>1, <2>1, <2>3 DEF Malformed
    <2>4. CASE \E s \in Socket : Fails(s) \/ Closes(s) \/ Drops(s)
      <3>1. RejectPending("closed") \/ UNCHANGED <<requests, jobs>>
        BY <2>4 DEF Fails, Closes, Drops, OnClose
      <3> QED
        BY <1>1, <2>1, <3>1
    <2>5. CASE Retry \/ TimerFires
      BY <2>5 DEF Retry, TimerFires
    <2>6. CASE \E s \in Socket : Opens(s)
      BY <2>6 DEF Opens
    <2> QED
      BY <2>2, <2>3, <2>4, <2>5, <2>6
  <1>3. /\ UNCHANGED happened
        /\ DOMAIN subs' = DOMAIN subs /\ \A o \in DOMAIN subs : subs'[o] = subs[o] \/ subs'[o] = Fresh(subs[o].topic)
    BY DEF Connect, Dispose, Disconnected, Retry, TimerFires, Opens, Malformed, Fails, Closes, Drops, OnClose, table
  <1>4. Hangup \/ UNCHANGED <<answers, outbox>>
    BY DEF Connect, Dispose, Retry, TimerFires, Opens, Malformed, Fails, Closes, Drops, OnClose, session
  <1>5. /\ answers' \subseteq answers
        /\ \A i \in DOMAIN outbox' : outbox'[i] \in answers \/ \E k \in DOMAIN outbox : outbox'[i] = outbox[k]
    BY <1>4, HangupKeeps
  <1>6. \A t : Fresh(t).topic = t /\ Fresh(t).view = {} /\ Fresh(t).buffered = {}
    BY DEF Fresh
  <1>7. PagesSeen'
    BY <1>3, <1>6, PagesSeenKept DEF SeenFits
  <1>8. EventsSeen' /\ JobsSeen' /\ AnswersSeen'
    BY <1>2, <1>3, <1>5, <1>6, SeenKept DEF SeenFits
  <1> QED
    BY <1>7, <1>8 DEF SeenFits

(* A login that fails shows nothing.                                       *)
LEMMA FailingSeen ==
    ASSUME RpcInv, SeenFits, jobs # <<>>, AuthenticationFails(Job.sock), UNCHANGED happened
    PROVE  SeenFits'
  <1>1. jobs' = Rest /\ UNCHANGED <<subs, requests>> /\ Hangup
    BY DEF AuthenticationFails, wire, table
  <1>2. \A i \in DOMAIN jobs' : jobs'[i].for.what = "next" \/ jobs'[i].how # "ok"
    BY <1>1, JobFits
  <1>3. /\ answers' \subseteq answers
        /\ \A i \in DOMAIN outbox' : outbox'[i] \in answers \/ \E k \in DOMAIN outbox : outbox'[i] = outbox[k]
    BY <1>1, HangupKeeps
  <1>4. PagesSeen'
    BY <1>1, PagesSeenKept DEF SeenFits
  <1>5. EventsSeen' /\ JobsSeen' /\ AnswersSeen'
    BY <1>1, <1>2, <1>3, SeenKept DEF SeenFits
  <1> QED
    BY <1>4, <1>5 DEF SeenFits

(* The continuations of a login.                                           *)
LEMMA LoginSeen ==
    ASSUME RpcInv, SeenFits, Authenticates \/ Capabilities
    PROVE  SeenFits'
  <1>1. jobs # <<>> /\ Proving(Job.for) /\ UNCHANGED happened
    BY DEF Authenticates, Capabilities, Runs, Proving
  <1>2. CASE AuthenticationFails(Job.sock)
    BY <1>1, <1>2, FailingSeen
  <1>3. CASE Capabilities /\ ~AuthenticationFails(Job.sock)
    <2>1. UNCHANGED <<subs, requests, answers, outbox>> /\ (jobs' = Rest \/ jobs' = Append(Rest, Next_(Job.sock, 0)))
      BY <1>3 DEF Capabilities, wire, table, session
    <2> DEFINE j == Next_(Job.sock, 0)
    <2>2. j.for.what = "next" /\ (jobs' = Rest \/ jobs' = Append(Rest, j))
      BY <2>1 DEF Next_
    <2> HIDE DEF j
    <2>3. Rest \in Seq(Result \cup Loop) /\ \A i \in DOMAIN Rest : Rest[i].for.what = "next" \/ Rest[i].how # "ok"
      BY <1>1, JobFits
    <2>4. CASE jobs' = Append(Rest, j)
      <3>1. /\ Len(Rest) \in Nat /\ DOMAIN Rest = 1 .. Len(Rest) /\ DOMAIN jobs' = 1 .. Len(Rest) + 1
            /\ \A i \in 1 .. Len(Rest) : jobs'[i] = Rest[i]
            /\ jobs'[Len(Rest) + 1] = j
        BY <2>3, <2>4, AppendProperties, LenProperties
      <3>2. \A i \in DOMAIN jobs' : jobs'[i] = j \/ (i \in DOMAIN Rest /\ jobs'[i] = Rest[i])
        BY <3>1
      <3>3. \A i \in DOMAIN jobs' : ~(jobs'[i].for.what = "refresh" /\ jobs'[i].how = "ok")
        BY <2>2, <2>3, <3>2
      <3>4. EventsSeen' /\ JobsSeen' /\ AnswersSeen'
        BY <1>1, <2>1, <3>3, SeenKept DEF SeenFits
      <3> QED
        BY <1>1, <2>1, <3>4, PagesSeenKept DEF SeenFits
    <2>5. CASE jobs' = Rest
      <3>1. EventsSeen' /\ JobsSeen' /\ AnswersSeen'
        BY <1>1, <2>1, <2>3, <2>5, SeenKept DEF SeenFits
      <3> QED
        BY <1>1, <2>1, <3>1, PagesSeenKept DEF SeenFits
    <2> QED
      BY <2>2, <2>4, <2>5
  <1>4. CASE Authenticates /\ ~AuthenticationFails(Job.sock)
    <2> DEFINE p == [what |-> "capabilities"]
    <2>1. SendRequest(p, TRUE, Rest) /\ UNCHANGED <<subs, answers, outbox>>
      BY <1>4 DEF Authenticates, table
    <2>2. p \in Purpose
      BY PurposesAsked
    <2> HIDE DEF p
    <2>3. Rest \in Seq(Result \cup Loop) /\ (\A i \in DOMAIN Rest : Rest[i].for.what = "next" \/ Rest[i].how # "ok")
          /\ (Online => Rest = <<>>)
      BY <1>1, JobFits
    <2>4. EventsSeen' /\ JobsSeen' /\ AnswersSeen'
      BY <1>1, <2>1, <2>2, <2>3, SeenSent DEF SeenFits
    <2> QED
      BY <1>1, <2>1, <2>4, PagesSeenKept DEF SeenFits
  <1> QED
    BY <1>2, <1>3, <1>4

(* The continuations of a restoration.                                     *)
LEMMA RestoringSeen ==
    ASSUME RpcInv, SeenFits, RestoreNext \/ Subscribed
    PROVE  SeenFits'
  <1>1. /\ UNCHANGED happened /\ jobs # <<>> /\ (Hangup \/ UNCHANGED <<answers, outbox>>)
        /\ Rest \in Seq(Result \cup Loop) /\ (\A i \in DOMAIN Rest : Rest[i].for.what = "next" \/ Rest[i].how # "ok")
        /\ (Online => Rest = <<>>)
    <2>1. UNCHANGED happened /\ jobs # <<>> /\ (Hangup \/ UNCHANGED <<answers, outbox>>)
      <3>1. CASE RestoreNext
        BY <3>1, RestoreNextCases
      <3>2. CASE Subscribed
        BY <3>2 DEF Subscribed, Runs, session
      <3> QED
        BY <3>1, <3>2
    <2> QED
      BY <2>1, JobFits
  <1>2. /\ answers' \subseteq answers
        /\ \A i \in DOMAIN outbox' : outbox'[i] \in answers \/ \E k \in DOMAIN outbox : outbox'[i] = outbox[k]
    BY <1>1, HangupKeeps
  <1> DEFINE authenticated == (state = "authenticated")
  <1>3. authenticated \in BOOLEAN
    OBVIOUS
  <1>4. CASE RestoreNext
    <2>1. CASE jobs' = Rest /\ UNCHANGED <<subs, wire, inbox>>
      <3>1. EventsSeen' /\ JobsSeen' /\ AnswersSeen'
        BY <1>1, <1>2, <2>1, SeenKept DEF SeenFits, wire
      <3> QED
        BY <1>1, <2>1, <3>1, PagesSeenKept DEF SeenFits
    <2>2. CASE ~(jobs' = Rest /\ UNCHANGED <<subs, wire, inbox>>)
      <3>1. PICK e \in map :
              /\ e.sub \in DOMAIN subs /\ DOMAIN subs' = DOMAIN subs
              /\ \A q \in DOMAIN subs : subs'[q].topic = subs[q].topic /\ (q # e.sub => subs'[q] = subs[q])
              /\ subs'[e.sub].buffered = {} /\ subs'[e.sub].view = subs[e.sub].view
              /\ RestoreOf(e) \in Purpose /\ SendRequest(RestoreOf(e), state = "authenticated", Rest)
        BY <1>4, <2>2, RestoreNextCases
      <3> DEFINE p == RestoreOf(e)
      <3>2. p \in Purpose /\ SendRequest(p, authenticated, Rest) /\ UNCHANGED <<answers, outbox>>
        BY <1>4, <3>1, RestoreNextCases
      <3> HIDE DEF p, authenticated
      <3>3. EventsSeen' /\ JobsSeen' /\ AnswersSeen'
        BY <1>1, <1>3, <3>1, <3>2, SeenSent DEF SeenFits
      <3>4. PagesSeen'
        BY <1>1, <3>1, PagesSeenKept DEF SeenFits
      <3> QED
        BY <3>3, <3>4 DEF SeenFits
    <2> QED
      BY <2>1, <2>2
  <1>5. CASE Subscribed
    <2> DEFINE o == Job.for.sub
               w == [subs[o] EXCEPT !.restoring = FALSE]
               p == [what |-> "refresh", sub |-> o, loop |-> Job.for.loop, pos |-> Job.for.pos, latest |-> TRUE]
    <2>1. /\ Busy(Job.for)
          /\ \/ /\ SendRequest(p, authenticated, Rest)
                /\ UNCHANGED <<subs, answers, outbox>>
             \/ jobs' = Return /\ UNCHANGED <<requests, subs>>
             \/ subs' = [subs EXCEPT ![o] = w] /\ jobs' = Rest /\ UNCHANGED requests
      BY <1>5 DEF Subscribed, Ask, Runs, Busy, wire, session
    <2>2. o \in DOMAIN subs /\ o \in Sub /\ Job.for.loop \in {0} \cup Socket /\ Job.for.pos \in {0} \cup Sub /\ subs[o] \in Page
      BY <1>1, <2>1, BusyFields, SubsAreSub
    <2>3. p \in Purpose
      BY <2>2, PurposesAsked
    <2>4. w \in Page /\ w.topic = subs[o].topic /\ w.view = subs[o].view /\ w.buffered = subs[o].buffered
      BY <2>2 DEF Page
    <2> HIDE DEF p, authenticated, w, o
    <2>5. CASE SendRequest(p, authenticated, Rest) /\ UNCHANGED <<subs, answers, outbox>>
      <3>1. EventsSeen' /\ JobsSeen' /\ AnswersSeen'
        BY <1>1, <1>3, <2>3, <2>5, SeenSent DEF SeenFits
      <3> QED
        BY <1>1, <2>5, <3>1, PagesSeenKept DEF SeenFits
    <2>6. CASE jobs' = Return /\ UNCHANGED <<requests, subs>>
      <3>1. \A i \in DOMAIN jobs' : jobs'[i].for.what = "next" \/ jobs'[i].how # "ok"
        BY <1>1, <2>1, <2>6, ReturnFits
      <3>2. EventsSeen' /\ JobsSeen' /\ AnswersSeen'
        BY <1>1, <1>2, <2>6, <3>1, SeenKept DEF SeenFits
      <3> QED
        BY <1>1, <2>6, <3>2, PagesSeenKept DEF SeenFits
    <2>7. CASE subs' = [subs EXCEPT ![o] = w] /\ jobs' = Rest /\ UNCHANGED requests
      <3>1. /\ DOMAIN subs' = DOMAIN subs /\ \A q \in DOMAIN subs : subs'[q].topic = subs[q].topic /\ (q # o => subs'[q] = subs[q])
            /\ subs'[o] = w
        BY <2>2, <2>4, <2>7, PageFits
      <3>2. EventsSeen' /\ JobsSeen' /\ AnswersSeen'
        BY <1>1, <1>2, <2>7, <3>1, SeenKept DEF SeenFits
      <3>3. PagesSeen'
        BY <1>1, <2>4, <3>1, PagesSeenKept DEF SeenFits
      <3> QED
        BY <3>2, <3>3 DEF SeenFits
    <2> QED
      BY <2>1, <2>5, <2>6, <2>7
  <1> QED
    BY <1>4, <1>5

(* What a page shows after its refresh is what the server had then, and    *)
(* what was held back meanwhile.                                           *)
Loaded == IF ~Job.for.latest THEN subs[Job.for.sub]
          ELSE IF Job.how = "ok" THEN [subs[Job.for.sub] EXCEPT !.view = 1 .. Job.shows, !.failed = FALSE]
          ELSE [subs[Job.for.sub] EXCEPT !.failed = TRUE]
Released == [Loaded EXCEPT !.restoring = FALSE, !.buffered = {}, !.view = @ \cup subs[Job.for.sub].buffered]

(* The fields of a page that is loaded.                                    *)
LEMMA PageUpdates ==
    ASSUME NEW x \in Page, NEW v, v \subseteq Nat
    PROVE  /\ [x EXCEPT !.view = v, !.failed = FALSE] \in Page
           /\ [x EXCEPT !.view = v, !.failed = FALSE].topic = x.topic
           /\ [x EXCEPT !.view = v, !.failed = FALSE].view = v
           /\ [x EXCEPT !.failed = TRUE] \in Page
           /\ [x EXCEPT !.failed = TRUE].topic = x.topic /\ [x EXCEPT !.failed = TRUE].view = x.view
           /\ [x EXCEPT !.failed = TRUE].failed = TRUE
  BY DEF Page

(* After a refresh, case by case: the page may be gone, or superseded, or  *)
(* shows the snapshot or an error.                                         *)
LEMMA RefreshedCases ==
    ASSUME RpcInv, Refreshed
    PROVE  /\ jobs # <<>> /\ Job.for.what = "refresh" /\ Busy(Job.for) /\ jobs' = Return /\ Job.for.sub \in DOMAIN subs
           /\ UNCHANGED <<login, link, wire, map, session, happened, logins, faults>>
           /\ ~Current(Job.for.sub) => subs' = subs
           /\ DOMAIN subs' = DOMAIN subs
           /\ \A q \in DOMAIN subs : subs'[q].topic = subs[q].topic /\ (q # Job.for.sub => subs'[q] = subs[q])
           /\ Current(Job.for.sub) => subs'[Job.for.sub] = Released
           /\ Released.restoring = FALSE /\ Released.buffered = {}
           /\ Job.for.latest /\ Job.how # "ok" => Released.failed = TRUE /\ Released.view = subs[Job.for.sub].view \cup subs[Job.for.sub].buffered
           /\ Job.for.latest /\ Job.how = "ok" => Released.view = (1 .. Job.shows) \cup subs[Job.for.sub].buffered
           /\ ~Job.for.latest => Released.view = subs[Job.for.sub].view \cup subs[Job.for.sub].buffered
  <1> DEFINE o == Job.for.sub
  <1>1. /\ jobs # <<>> /\ Job.for.what = "refresh" /\ Busy(Job.for) /\ jobs' = Return
        /\ UNCHANGED <<login, link, wire, map, session, happened, logins, faults>>
        /\ subs' = IF ~Current(o) THEN subs ELSE [subs EXCEPT ![o] = Released]
    BY DEF Refreshed, Runs, Busy, Loaded, Released
  <1>2. o \in DOMAIN subs /\ subs[o] \in Page /\ Job.shows \in Nat
    BY <1>1, BusyFields, SubsAreSub
  <1> HIDE DEF o
  <1>3. /\ Loaded \in Page /\ Loaded.topic = subs[o].topic
        /\ Job.for.latest /\ Job.how # "ok" => Loaded.failed = TRUE /\ Loaded.view = subs[o].view
        /\ Job.for.latest /\ Job.how = "ok" => Loaded.view = 1 .. Job.shows
        /\ ~Job.for.latest => Loaded.view = subs[o].view
    <2> DEFINE x == subs[o]
               v == 1 .. Job.shows
    <2>1. x \in Page /\ v \subseteq Nat
      BY <1>2
    <2>2. Loaded = IF ~Job.for.latest THEN x
                   ELSE IF Job.how = "ok" THEN [x EXCEPT !.view = v, !.failed = FALSE] ELSE [x EXCEPT !.failed = TRUE]
      BY DEF Loaded, o
    <2> HIDE DEF x, v
    <2>3. CASE ~Job.for.latest
      BY <2>1, <2>2, <2>3 DEF x
    <2>4. CASE Job.for.latest /\ Job.how = "ok"
      BY <2>1, <2>2, <2>4, PageUpdates DEF x, v
    <2>5. CASE Job.for.latest /\ Job.how # "ok"
      BY <2>1, <2>2, <2>5, PageUpdates DEF x
    <2> QED
      BY <2>3, <2>4, <2>5
  <1>4. /\ Released \in Page /\ Released.topic = subs[o].topic /\ Released.restoring = FALSE /\ Released.buffered = {}
        /\ Released.view = Loaded.view \cup subs[o].buffered /\ Released.failed = Loaded.failed
    BY <1>2, <1>3 DEF Released, Page, o
  <1>5. /\ DOMAIN subs' = DOMAIN subs
        /\ \A q \in DOMAIN subs : subs'[q].topic = subs[q].topic /\ (q # o => subs'[q] = subs[q])
        /\ Current(o) => subs'[o] = Released
    <2>1. CASE Current(o)
      BY <1>1, <1>2, <1>4, <2>1, PageFits
    <2>2. CASE ~Current(o)
      BY <1>1, <2>2
    <2> QED
      BY <2>1, <2>2
  <1> QED
    BY <1>1, <1>2, <1>3, <1>4, <1>5 DEF o

(* A snapshot shows what had happened when the server took it.             *)
LEMMA RefreshedSeen ==
    ASSUME RpcInv, SeenFits, Refreshed
    PROVE  SeenFits'
  <1> DEFINE o == Job.for.sub
  <1>1. /\ UNCHANGED <<requests, answers, outbox, happened>>
        /\ \A q \in DOMAIN subs : subs'[q].topic = subs[q].topic
    BY RefreshedCases DEF wire, session
  <1>2. \A i \in DOMAIN jobs' : jobs'[i].for.what = "next" \/ jobs'[i].how # "ok"
    <2>1. jobs # <<>> /\ Busy(Job.for) /\ jobs' = Return /\ DOMAIN subs \subseteq DOMAIN subs'
      BY RefreshedCases
    <2> QED
      BY <2>1, ReturnFits
  <1>3. EventsSeen' /\ JobsSeen' /\ AnswersSeen'
    BY <1>1, <1>2, SeenKept DEF SeenFits
  <1>4. PagesSeen'
    <2> SUFFICES ASSUME NEW q \in DOMAIN subs' PROVE subs'[q].view \cup subs'[q].buffered \subseteq 1 .. happened[subs[q].topic]
      BY <1>1, RefreshedCases DEF PagesSeen
    <2>1. q \in DOMAIN subs /\ subs[q].view \cup subs[q].buffered \subseteq 1 .. happened[subs[q].topic]
      BY RefreshedCases DEF SeenFits, PagesSeen
    <2>2. CASE q # o \/ ~Current(o)
      BY <2>1, <2>2, RefreshedCases
    <2>3. CASE q = o /\ Current(o)
      <3>1. Job.how = "ok" => 1 .. Job.shows \subseteq 1 .. happened[subs[q].topic]
        <4>1. 1 \in DOMAIN jobs /\ Job = jobs[1] /\ Job.for.what = "refresh"
          BY RefreshedCases, JobFits
        <4>2. happened[subs[q].topic] \in Nat
          BY <2>1, SubsAreSub DEF RpcInv, TableTyped, Page
        <4>3. Job.how = "ok" => Job.shows \in 0 .. happened[subs[q].topic]
          BY <2>3, <4>1 DEF SeenFits, JobsSeen, TopicOf
        <4> QED
          BY <4>2, <4>3
      <3>2. subs'[q] = Released /\ Released.buffered = {}
        BY <2>3, RefreshedCases
      <3>3. Released.view \subseteq 1 .. happened[subs[q].topic]
        BY <2>1, <2>3, <3>1, RefreshedCases
      <3> QED
        BY <3>2, <3>3
    <2> QED
      BY <2>2, <2>3
  <1> QED
    BY <1>3, <1>4 DEF SeenFits

(* An unsubscription's answer shows nothing.                               *)
LEMMA UnsubscribedSeen ==
    ASSUME RpcInv, SeenFits, Unsubscribed
    PROVE  SeenFits'
  <1>1. jobs # <<>> /\ jobs' = Rest /\ UNCHANGED <<subs, requests, answers, outbox, happened>>
    BY DEF Unsubscribed, Runs, wire, table, session
  <1>2. \A i \in DOMAIN jobs' : jobs'[i].for.what = "next" \/ jobs'[i].how # "ok"
    BY <1>1, JobFits
  <1>3. EventsSeen' /\ JobsSeen' /\ AnswersSeen'
    BY <1>1, <1>2, SeenKept DEF SeenFits
  <1> QED
    BY <1>1, <1>3, PagesSeenKept DEF SeenFits

(* What pages do shows nothing.                                            *)
LEMMA SubscribeSeen ==
    ASSUME RpcInv, SeenFits, NEW t \in Topic, Subscribe(t)
    PROVE  SeenFits'
  <1> DEFINE o   == Len(subs) + 1
             old == {e \in map : subs[e.sub].topic = t}
             p   == [what |-> "subscribe", sub |-> o, loop |-> 0, pos |-> 0, latest |-> TRUE]
             restoring == (state = "authenticated")
  <1>1. /\ jobs = <<>> /\ Len(subs) < MaxSub
        /\ subs' = Added(t, restoring, old)
        /\ IF restoring THEN SendRequest(p, restoring, <<>>) ELSE UNCHANGED <<wire, jobs, inbox>>
        /\ UNCHANGED <<happened, answers, outbox>>
    BY DEF Subscribe, Ask, Added
  <1>2. p \in Purpose
    <2>1. o \in Sub
      BY <1>1, SubsAreSub, RpcAssumption DEF Sub
    <2> QED
      BY <2>1, PurposesAsked
  <1>3. restoring \in BOOLEAN /\ old \subseteq map /\ \A e \in old : subs[e.sub].topic = t
    OBVIOUS
  <1>4. Fresh(t).view = {} /\ Fresh(t).buffered = {}
    BY DEF Fresh
  <1> HIDE DEF restoring, p, old
  <1>5. /\ DOMAIN subs' = 1 .. Len(subs) + 1 /\ DOMAIN subs = 1 .. Len(subs) /\ Len(subs) \in Nat
        /\ \A q \in DOMAIN subs : subs'[q] \in {Fresh(t), subs[q]}
        /\ \A q \in DOMAIN subs : subs'[q].topic = subs[q].topic
        /\ subs'[Len(subs) + 1].view = {} /\ subs'[Len(subs) + 1].buffered = {}
    <2>1. subs' = Added(t, restoring, old)
      BY <1>1
    <2>2. DOMAIN subs = 1 .. Len(subs) /\ Len(subs) \in Nat
      BY SubsAreSub
    <2>3. /\ DOMAIN subs' = 1 .. Len(subs) + 1
          /\ \A q \in DOMAIN subs : subs'[q] = IF \E e \in old : e.sub = q THEN Fresh(t) ELSE subs[q]
          /\ \A q \in DOMAIN subs : subs'[q].topic = subs[q].topic
          /\ subs'[Len(subs) + 1].view = {} /\ subs'[Len(subs) + 1].buffered = {}
      BY ONLY RpcInv, t \in Topic, <1>3, <2>1, AddedFits
    <2> QED
      BY <2>2, <2>3
  <1>6. \A q \in DOMAIN subs' : q \in DOMAIN subs \/ q = Len(subs) + 1
    BY <1>5
  <1>7. PagesSeen'
    BY <1>1, <1>3, <1>4, <1>5, <1>6, PagesSeenKept DEF SeenFits
  <1>8. EventsSeen' /\ JobsSeen' /\ AnswersSeen'
    <2>1. CASE restoring
      <3> DEFINE rest == <<>>
      <3>1. rest \in Seq(Result \cup Loop) /\ (\A i \in DOMAIN rest : rest[i].for.what = "next" \/ rest[i].how # "ok")
            /\ (Online => rest = <<>>)
        OBVIOUS
      <3>2. SendRequest(p, restoring, rest)
        BY <1>1, <2>1
      <3> HIDE DEF rest
      <3> QED
        BY <1>1, <1>2, <1>3, <1>5, <3>1, <3>2, SeenSent DEF SeenFits
    <2>2. CASE ~restoring
      <3>1. UNCHANGED <<requests, jobs>>
        BY <1>1, <2>2 DEF wire
      <3> QED
        BY <1>1, <1>5, <3>1, SeenKept DEF SeenFits
    <2> QED
      BY <2>1, <2>2
  <1> QED
    BY <1>7, <1>8 DEF SeenFits

(* A page that leaves shows nothing any more.                              *)
LEMMA UnsubscribeSeen ==
    ASSUME RpcInv, SeenFits, NEW o \in 1 .. Len(subs), Unsubscribe(o)
    PROVE  SeenFits'
  <1> DEFINE p == [what |-> "unsubscribe", sub |-> o]
             w == Fresh(subs[o].topic)
             authenticated == (state = "authenticated")
             rest == <<>>
  <1>1. /\ subs' = [subs EXCEPT ![o] = w] /\ UNCHANGED <<happened, answers, outbox>>
        /\ IF authenticated THEN SendRequest(p, TRUE, rest) ELSE UNCHANGED <<wire, jobs, inbox>>
    BY DEF Unsubscribe
  <1>2. o \in DOMAIN subs /\ o \in Sub /\ subs[o] \in Page
    BY SubsAreSub
  <1>3. p \in Purpose
    BY <1>2, PurposesAsked
  <1>4. w \in Page /\ w.topic = subs[o].topic /\ w.view = {} /\ w.buffered = {}
    BY <1>2 DEF Fresh, Page
  <1>5. /\ rest \in Seq(Result \cup Loop) /\ (\A i \in DOMAIN rest : rest[i].for.what = "next" \/ rest[i].how # "ok")
        /\ (Online => rest = <<>>) /\ TRUE \in BOOLEAN
    OBVIOUS
  <1> HIDE DEF p, w, rest, authenticated
  <1>6. /\ DOMAIN subs' = DOMAIN subs /\ subs'[o] = w
        /\ \A q \in DOMAIN subs : subs'[q].topic = subs[q].topic /\ (q # o => subs'[q] = subs[q])
    BY <1>1, <1>2, <1>4, PageFits
  <1>7. PagesSeen'
    BY <1>1, <1>4, <1>6, PagesSeenKept DEF SeenFits
  <1>8. EventsSeen' /\ JobsSeen' /\ AnswersSeen'
    <2>1. CASE authenticated
      BY <1>1, <1>3, <1>5, <1>6, <2>1, SeenSent DEF SeenFits
    <2>2. CASE ~authenticated
      <3>1. UNCHANGED <<requests, jobs>>
        BY <1>1, <2>2 DEF wire
      <3> QED
        BY <1>1, <1>6, <3>1, SeenKept DEF SeenFits
    <2> QED
      BY <2>1, <2>2
  <1> QED
    BY <1>7, <1>8 DEF SeenFits

(* What is carried to the client.                                          *)
LEMMA ReceiveSeen ==
    ASSUME RpcInv, SeenFits, NEW s \in Socket, Receive(s)
    PROVE  SeenFits'
  <1> DEFINE m == Head(outbox)
  <1>1. /\ jobs = <<>> /\ outbox # <<>> /\ m \in Answer \cup Event /\ UNCHANGED <<map, happened>>
        /\ \/ \E r \in requests : Answered(r, m)
           \/ Dropped(m)
           \/ Told(m)
           \/ Overflows(m)
    BY ReceiveCases
  <1>2. m = outbox[1] /\ 1 \in DOMAIN outbox
    <2>1. Len(outbox) \in Nat /\ Len(outbox) # 0 /\ DOMAIN outbox = 1 .. Len(outbox)
      BY <1>1, EmptySeq, LenProperties DEF RpcInv, SessionTyped
    <2> QED
      BY <1>1, <2>1, HeadTailProperties DEF RpcInv, SessionTyped
  <1> HIDE DEF m
  <1>3. outbox' = Tail(outbox) => \A i \in DOMAIN outbox' : \E k \in DOMAIN outbox : outbox'[i] = outbox[k]
    BY <1>1, QueuedShrinks
  <1>4. ASSUME NEW r \in requests, Answered(r, m) PROVE SeenFits'
    <2>1. /\ m.kind = "answer" /\ m.id = r.id
          /\ requests' = requests \ {r} /\ jobs' = <<Settles(r, m.how, m.shows)>>
          /\ outbox' = Tail(outbox) /\ UNCHANGED <<subs, answers>>
      BY <1>4 DEF Answered
    <2>2. PagesSeen'
      BY <1>1, <2>1, PagesSeenKept DEF SeenFits
    <2>3. EventsSeen'
      BY <1>1, <1>3, <2>1, EventsSeenKept DEF SeenFits
    <2>4. AnswersSeen'
      BY <1>1, <1>3, <2>1, AnswersSeenKept DEF SeenFits
    <2> DEFINE how   == m.how
               shows == m.shows
    <2>5. how \in How /\ shows \in Nat /\ jobs' = <<Settles(r, how, shows)>>
      BY <1>1, <2>1 DEF Answer, Event, How
    <2> HIDE DEF how, shows
    <2>6. DOMAIN jobs' = {1} /\ jobs'[1].for = r.for /\ jobs'[1].shows = shows
      BY <2>5, SettlesFits
    <2>7. r.for.what = "refresh" => shows \in 0 .. happened[TopicOf(r.for)]
      BY <1>2, <2>1 DEF SeenFits, AnswersSeen, shows
    <2>8. JobsSeen'
      BY <1>1, <2>1, <2>6, <2>7 DEF JobsSeen, TopicOf
    <2> QED
      BY <2>2, <2>3, <2>4, <2>8 DEF SeenFits
  <1>5. CASE Dropped(m)
    <2>1. UNCHANGED <<requests, jobs, subs, answers>> /\ outbox' = Tail(outbox)
      BY <1>5 DEF Dropped
    <2>2. EventsSeen' /\ JobsSeen' /\ AnswersSeen'
      BY <1>1, <1>3, <2>1, SeenKept DEF SeenFits
    <2> QED
      BY <1>1, <2>1, <2>2, PagesSeenKept DEF SeenFits
  <1>6. CASE Told(m)
    <2>1. /\ UNCHANGED <<requests, jobs, answers>> /\ outbox' = Tail(outbox) /\ DOMAIN subs' = DOMAIN subs
          /\ m.kind = "event"
          /\ \A o \in DOMAIN subs : subs'[o] = subs[o] \/ (subs[o].topic = m.topic /\ subs'[o] = Notified(o, m.n))
      <3>1. UNCHANGED <<requests, jobs, answers>> /\ outbox' = Tail(outbox) /\ m.kind = "event"
        BY <1>6 DEF Told
      <3>2. /\ DOMAIN subs' = DOMAIN subs
            /\ \A o \in DOMAIN subs : subs'[o] = IF \E e \in map : e.sub = o /\ subs[o].topic = m.topic THEN Notified(o, m.n) ELSE subs[o]
        BY <1>6 DEF Told
      <3> QED
        BY <3>1, <3>2
    <2>2. \A o \in DOMAIN subs : subs'[o].topic = subs[o].topic
      BY <1>6, ToldTopics
    <2>3. EventsSeen' /\ JobsSeen' /\ AnswersSeen'
      BY <1>1, <1>3, <2>1, <2>2, SeenKept DEF SeenFits
    <2>4. m.n \in 1 .. happened[m.topic]
      BY <1>2, <2>1 DEF SeenFits, EventsSeen
    <2>5. \A o \in DOMAIN subs : Notified(o, m.n).view \cup Notified(o, m.n).buffered \subseteq subs[o].view \cup subs[o].buffered \cup {m.n}
      <3> SUFFICES ASSUME NEW o \in DOMAIN subs
                   PROVE  Notified(o, m.n).view \cup Notified(o, m.n).buffered \subseteq subs[o].view \cup subs[o].buffered \cup {m.n}
        OBVIOUS
      <3>1. subs[o] \in Page
        BY SubsAreSub
      <3>2. /\ subs[o].restoring => Notified(o, m.n).view = subs[o].view /\ Notified(o, m.n).buffered = subs[o].buffered \cup {m.n}
            /\ ~subs[o].restoring => Notified(o, m.n).view = subs[o].view \cup {m.n} /\ Notified(o, m.n).buffered = subs[o].buffered
        BY <3>1 DEF Notified, Page
      <3> QED
        BY <3>2
    <2>6. PagesSeen'
      <3> SUFFICES ASSUME NEW o \in DOMAIN subs PROVE subs'[o].view \cup subs'[o].buffered \subseteq 1 .. happened[subs[o].topic]
        BY <1>1, <2>1, <2>2 DEF PagesSeen
      <3>1. subs[o].view \cup subs[o].buffered \subseteq 1 .. happened[subs[o].topic]
        BY DEF SeenFits, PagesSeen
      <3>2. CASE subs'[o] = subs[o]
        BY <3>1, <3>2
      <3>3. CASE subs[o].topic = m.topic /\ subs'[o] = Notified(o, m.n)
        BY <2>4, <2>5, <3>1, <3>3
      <3> QED
        BY <2>1, <3>2, <3>3
    <2> QED
      BY <2>3, <2>6 DEF SeenFits
  <1>7. CASE Overflows(m)
    <2>1. UNCHANGED <<requests, jobs, subs>> /\ Hangup
      BY <1>7 DEF Overflows
    <2>2. /\ answers' \subseteq answers
          /\ \A i \in DOMAIN outbox' : outbox'[i] \in answers \/ \E k \in DOMAIN outbox : outbox'[i] = outbox[k]
      BY <2>1, HangupKeeps
    <2>3. EventsSeen' /\ JobsSeen' /\ AnswersSeen'
      BY <1>1, <2>1, <2>2, SeenKept DEF SeenFits
    <2> QED
      BY <1>1, <2>1, <2>3, PagesSeenKept DEF SeenFits
  <1> QED
    BY <1>1, <1>4, <1>5, <1>6, <1>7

(* A refresh that timed out shows nothing.                                 *)
LEMMA TimesOutSeen ==
    ASSUME RpcInv, SeenFits, NEW r \in requests, TimesOut(r)
    PROVE  SeenFits'
  <1>1. requests' = requests \ {r} /\ jobs' = <<Settles(r, "timeout", 0)>> /\ UNCHANGED <<subs, answers, outbox, happened>>
    BY DEF TimesOut, table, session
  <1>2. "timeout" \in How /\ 0 \in Nat
    BY DEF How
  <1>3. DOMAIN jobs' = {1} /\ jobs'[1].how = "timeout"
    BY <1>1, <1>2, SettlesFits
  <1>4. EventsSeen' /\ JobsSeen' /\ AnswersSeen'
    BY <1>1, <1>3, SeenKept DEF SeenFits
  <1> QED
    BY <1>1, <1>4, PagesSeenKept DEF SeenFits

(* The answer a worker reads for a request.                                *)
AnswerTo(r) ==
    [kind |-> "answer", id |-> r.id,
     how |-> IF r.for.what = "authenticate" /\ r.for.token # "right" THEN "refused" ELSE "ok",
     shows |-> IF r.for.what = "refresh" THEN happened[TopicOf(r.for)] ELSE 0]

(* A worker's answer has the number and, for a refresh, the snapshot of    *)
(* the page that asked.                                                    *)
LEMMA ServeAnswers ==
    ASSUME RpcInv, NEW r \in inbox, Serve(r)
    PROVE  /\ jobs = <<>> /\ inbox' = inbox \ {r} /\ answers' = answers \cup {AnswerTo(r)}
           /\ UNCHANGED <<state, generation, socket, sockets, requests, jobs, subs, map, outbox, happened, nextId>>
           /\ \A q \in requests : Paged(q.for) /\ q.id = r.id => q.for.what = r.for.what /\ q.for.sub = r.for.sub
           /\ \A q \in requests : q.for.what = "refresh" /\ AnswerTo(r).id = q.id => AnswerTo(r).shows = happened[TopicOf(q.for)]
           /\ AnswerTo(r).id = r.id
  <1>1. /\ jobs = <<>> /\ inbox' = inbox \ {r} /\ answers' = answers \cup {AnswerTo(r)}
        /\ UNCHANGED <<state, generation, socket, sockets, requests, jobs, subs, map, outbox, happened, nextId>>
    BY DEF Serve, AnswerTo, link, wire, table
  <1>2. \A q \in requests : Paged(q.for) /\ q.id = r.id => q.for.what = r.for.what /\ q.for.sub = r.for.sub
    <2> SUFFICES ASSUME NEW q \in requests, Paged(q.for), q.id = r.id PROVE q.for.what = r.for.what /\ q.for.sub = r.for.sub
      OBVIOUS
    <2>1. q.sock = generation
      BY DEF RpcInv, PagesFit
    <2> QED
      BY <2>1 DEF RpcInv, ServerFits
  <1>3. AnswerTo(r).id = r.id /\ (r.for.what = "refresh" => AnswerTo(r).shows = happened[TopicOf(r.for)])
    BY DEF AnswerTo
  <1>4. \A q \in requests : q.for.what = "refresh" /\ AnswerTo(r).id = q.id => AnswerTo(r).shows = happened[TopicOf(q.for)]
    BY <1>2, <1>3 DEF Paged, TopicOf
  <1> QED
    BY <1>1, <1>2, <1>3, <1>4

(* A snapshot is of what has happened.                                     *)
LEMMA ServeSeen ==
    ASSUME RpcInv, SeenFits, NEW r \in inbox, Serve(r)
    PROVE  SeenFits'
  <1>1. answers' = answers \cup {AnswerTo(r)} /\ UNCHANGED <<requests, jobs, subs, outbox, happened>>
    BY ServeAnswers
  <1>2. PagesSeen' /\ EventsSeen' /\ JobsSeen'
    BY <1>1 DEF SeenFits, PagesSeen, EventsSeen, JobsSeen, TopicOf
  <1>3. AnswersSeen'
    <2> SUFFICES ASSUME NEW q \in requests, q.for.what = "refresh", NEW m \in answers', m.id = q.id
                 PROVE  m.shows \in 0 .. happened[TopicOf(q.for)]
      BY <1>1 DEF SeenFits, AnswersSeen, TopicOf
    <2>1. CASE m \in answers
      BY <2>1 DEF SeenFits, AnswersSeen
    <2>2. CASE m = AnswerTo(r)
      <3>1. m.shows = happened[TopicOf(q.for)]
        BY <2>2, ServeAnswers
      <3>2. happened[TopicOf(q.for)] \in Nat
        <4>1. q.for.sub \in DOMAIN subs
          BY DEF RpcInv, PagesFit, Paged
        <4> QED
          BY <4>1, SubsAreSub DEF RpcInv, TableTyped, Page, TopicOf
      <3> QED
        BY <3>1, <3>2
    <2> QED
      BY <1>1, <2>1, <2>2
  <1> QED
    BY <1>2, <1>3 DEF SeenFits

(* Queueing an answer does not change it.                                  *)
LEMMA ReplySeen ==
    ASSUME RpcInv, SeenFits, NEW m \in answers, Reply(m)
    PROVE  SeenFits'
  <1>1. /\ answers' \subseteq answers /\ outbox' = Append(outbox, m) /\ UNCHANGED <<requests, jobs, subs, happened>>
    BY DEF Reply, wire, table
  <1>2. \A i \in DOMAIN outbox' : outbox'[i] \in answers \/ \E k \in DOMAIN outbox : outbox'[i] = outbox[k]
    BY <1>1, QueuedGrows
  <1>3. EventsSeen' /\ JobsSeen' /\ AnswersSeen'
    BY <1>1, <1>2, SeenKept DEF SeenFits
  <1> QED
    BY <1>1, <1>3, PagesSeenKept DEF SeenFits

(* An event that is published has happened.                                *)
LEMMA HappensSeen ==
    ASSUME RpcInv, SeenFits, NEW t \in Topic, Happens(t)
    PROVE  SeenFits'
  <1> DEFINE m == [kind |-> "event", topic |-> t, n |-> happened[t] + 1]
  <1>1. /\ happened' = [happened EXCEPT ![t] = @ + 1] /\ UNCHANGED <<requests, jobs, subs, answers>>
    BY DEF Happens, wire, table
  <1>2. happened \in [Topic -> Nat] /\ happened'[t] = happened[t] + 1 /\ \A x \in Topic : x # t => happened'[x] = happened[x]
    BY <1>1 DEF RpcInv, TableTyped
  <1>3. outbox' = outbox \/ outbox' = Append(outbox, m)
    BY <1>2 DEF Happens
  <1>4. m.kind = "event" /\ m.topic = t /\ m.n = happened[t] + 1
    OBVIOUS
  <1> HIDE DEF m
  <1>5. \A i \in DOMAIN outbox' : outbox'[i] = m \/ \E k \in DOMAIN outbox : outbox'[i] = outbox[k]
    BY <1>3, QueuedGrows
  <1>6. \A x \in Topic : 1 .. happened[x] \subseteq 1 .. happened'[x] /\ 0 .. happened[x] \subseteq 0 .. happened'[x]
    BY <1>2
  <1>7. m.n \in 1 .. happened'[m.topic]
    BY <1>2, <1>4
  <1>8. \A o \in DOMAIN subs : subs[o].topic \in Topic
    BY SubsAreSub DEF Page
  <1>9. PagesSeen'
    BY <1>1, <1>6, <1>8 DEF SeenFits, PagesSeen
  <1>10. EventsSeen'
    <2>1. \A k \in DOMAIN outbox : outbox[k].kind = "event" => outbox[k].topic \in Topic
      BY ElementOfSeq DEF RpcInv, SessionTyped, Answer, Event
    <2> QED
      BY <1>5, <1>6, <1>7, <2>1 DEF SeenFits, EventsSeen
  <1>11. JobsSeen'
    <2>1. \A i \in DOMAIN jobs : jobs[i].for.what = "refresh" => TopicOf(jobs[i].for) \in Topic
      BY <1>8 DEF RpcInv, JobsFit, Paged, TopicOf
    <2> QED
      BY <1>1, <1>6, <2>1 DEF SeenFits, JobsSeen, TopicOf
  <1>12. AnswersSeen'
    <2>1. \A r \in requests : r.for.what = "refresh" => TopicOf(r.for) \in Topic
      BY <1>8 DEF RpcInv, PagesFit, Paged, TopicOf
    <2> QED
      BY <1>1, <1>4, <1>5, <1>6, <2>1 DEF SeenFits, AnswersSeen, TopicOf
  <1> QED
    BY <1>9, <1>10, <1>11, <1>12 DEF SeenFits

(* No step makes a page show, hold back or await what has not happened.    *)
LEMMA SeenStep == RpcInv /\ SeenFits /\ [Next]_vars => SeenFits'
  <1> SUFFICES ASSUME RpcInv, SeenFits, [Next]_vars PROVE SeenFits'
    OBVIOUS
  <1>1. CASE UNCHANGED vars
    <2>1. UNCHANGED <<requests, jobs, subs, answers, outbox, happened>>
      BY <1>1 DEF vars, wire, table, session
    <2>2. EventsSeen' /\ JobsSeen' /\ AnswersSeen'
      BY <2>1, SeenKept DEF SeenFits
    <2> QED
      BY <2>1, <2>2, PagesSeenKept DEF SeenFits
  <1> QED
    BY <1>1, LinkSeen, LoginSeen, RestoringSeen, RefreshedSeen, UnsubscribedSeen, SubscribeSeen, UnsubscribeSeen,
       ReceiveSeen, TimesOutSeen, ServeSeen, ReplySeen, HappensSeen
       DEF Next, User, Microtask, Network

(* An entry whose page, stream and requests are left alone stays served.   *)
LEMMA ServedUntouched ==
    ASSUME RpcInv, NEW e, Served(e), Restored(e) => Restored(e)',
           subs'[e.sub] = subs[e.sub], UNCHANGED <<happened, topics, answers, outbox>>, inbox \subseteq inbox',
           Orders(subs[e.sub].topic)' = Orders(subs[e.sub].topic),
           \A r : Busy(r.for) /\ r.for.sub = e.sub => (r \in requests <=> r \in requests'),
           \A i \in DOMAIN jobs : Busy(jobs[i].for) => jobs[i].for.sub # e.sub,
           \A i \in DOMAIN jobs' : Busy(jobs'[i].for) => jobs'[i].for.sub # e.sub
    PROVE  Served(e)'
  <1>1. Queued(subs[e.sub].topic) \subseteq Queued(subs[e.sub].topic)'
    BY DEF Queued
  <1> DEFINE o == e.sub
  <1>2. subs'[o] = subs[o] /\ UNCHANGED happened /\ Queued(subs[o].topic) \subseteq Queued(subs[o].topic)'
    BY <1>1
  <1> HIDE DEF o
  <1>3. (\A shows : Covers(o, shows) => Covers(o, shows)') /\ (Complete(o) => Complete(o)')
    BY <1>2, CoverageKept
  <1> QED
    BY <1>3, ServedKept DEF o

(* The page a continuation is about is the one it serves.                  *)
LEMMA JobServed ==
    ASSUME RpcInv, OneLoop, Serving, jobs # <<>>, Busy(Job.for), NEW e \in map, e.sub = Job.for.sub, ~Spared(e), Served(e)
    PROVE  subs[e.sub].restoring /\ Heard(e.sub, Job) /\ \A r \in requests : Busy(r.for) => r.for.sub # e.sub
  <1>1. 1 \in DOMAIN jobs /\ Job = jobs[1] /\ \A i \in DOMAIN jobs : jobs[i] = Job
    BY ServingFits, JobFits
  <1>2. \A r \in requests : r.for.what # "next" /\ (Busy(r.for) => r.for.sub # e.sub /\ r.for.loop = 0)
    BY <1>1, PurposeFields DEF OneLoop, Apart, Spared, RpcInv, WireTyped, Request
  <1>3. ~Restored(e)
    BY <1>1, <1>2 DEF Restored, Leads, Busy
  <1>4. ~AtRest(e.sub)
    BY <1>1 DEF AtRest
  <1>5. InFlight(e.sub)
    BY <1>3, <1>4 DEF Served
  <1> QED
    BY <1>1, <1>2, <1>5 DEF InFlight

(* The loop subscribes the entry it has come to, which is then in flight;  *)
(* those behind it are at rest and those before it are still to be         *)
(* reached.                                                                *)
LEMMA RestoreNextViews ==
    ASSUME RpcInv, LoopsFit, OneLoop, ViewsFit, SparedLast, RestoreNext
    PROVE  OneLoop' /\ ViewsFit'
  <1>1. /\ jobs # <<>> /\ Job.for.what = "next" /\ Job.for.pos \in Nat
        /\ UNCHANGED <<state, generation, socket, sockets, map, answers, outbox, topics, happened>>
    BY RestoreNextCases, RpcAssumption DEF link, Loop, Sub
  <1>2. Serving' <=> Serving
    BY <1>1 DEF Serving, Online
  <1> SUFFICES ASSUME Serving PROVE OneLoop' /\ ViewsFit'
    BY <1>2 DEF OneLoop, ViewsFit
  <1>3. /\ generation \in Socket /\ generation # 0 /\ Rest = <<>> /\ 1 \in DOMAIN jobs /\ Job = jobs[1]
        /\ \A i \in DOMAIN jobs : jobs[i] = Job
        /\ \A e \in map : e.sub \in DOMAIN subs /\ e.pos \in Nat \ {0} /\ e.sub \in Nat \ {0}
    BY <1>1, ServingFits, JobFits
  <1>4. Job.sock = generation
    BY <1>1, <1>3 DEF LoopsFit
  <1>5. \A r \in requests : r.for.what # "next" /\ (Busy(r.for) => r.for.loop = 0 /\ r.for.sub \in joined)
    BY <1>1, <1>3, PurposeFields DEF OneLoop, RpcInv, WireTyped, Request
  <1>6. \A i \in DOMAIN jobs : ~Busy(jobs[i].for)
    BY <1>1, <1>3 DEF Busy
  <1>7. \A e \in map : ~(e.pos > Job.for.pos) /\ ~Spared(e) => AtRest(e.sub) /\ ~Restored(e) /\ Served(e)
    <2> SUFFICES ASSUME NEW e \in map, ~(e.pos > Job.for.pos), ~Spared(e) PROVE AtRest(e.sub) /\ ~Restored(e) /\ Served(e)
      OBVIOUS
    <2>1. ~Restored(e)
      BY <1>1, <1>3, <1>5 DEF Restored, Leads
    <2>2. ~InFlight(e.sub)
      BY <1>5, <1>6 DEF InFlight, Spared
    <2> QED
      BY <2>1, <2>2 DEF ViewsFit, Served
  <1>75. joined \subseteq joined' /\ \A e \in map : Spared(e) => Spared(e)'
    BY <1>2 DEF SparedLast
  <1>8. CASE (\A f \in map : ~(f.pos > Job.for.pos)) /\ jobs' = Rest /\ UNCHANGED <<subs, wire, inbox>>
    <2>1. jobs' = <<>> /\ UNCHANGED <<subs, requests, inbox>>
      BY <1>3, <1>8 DEF wire
    <2>2. OneLoop'
      BY <1>2, <2>1, OneLoopIdle
    <2>3. \A t : Orders(t)' = Orders(t)
      BY <2>1 DEF Orders, TopicOf
    <2>4. \A e \in map' : ~Spared(e)' => Served(e)'
      BY <1>1, <1>6, <1>7, <1>75, <1>8, <2>1, <2>3, ServedUntouched
    <2> QED
      BY <2>2, <2>4 DEF ViewsFit
  <1>9. ASSUME NEW e0 \in map,
               /\ e0.pos > Job.for.pos /\ \A g \in map : g.pos > Job.for.pos => e0.pos <= g.pos
               /\ e0.sub \in DOMAIN subs /\ DOMAIN subs' = DOMAIN subs
               /\ \A q \in DOMAIN subs : subs'[q].topic = subs[q].topic /\ (q # e0.sub => subs'[q] = subs[q])
               /\ subs'[e0.sub].restoring = TRUE
               /\ RestoreOf(e0) \in Purpose /\ RestoreOf(e0).what = "subscribe" /\ RestoreOf(e0).sub = e0.sub
               /\ RestoreOf(e0).loop = Job.sock /\ RestoreOf(e0).pos = e0.pos /\ RestoreOf(e0).latest = TRUE
               /\ SendRequest(RestoreOf(e0), state = "authenticated", Rest)
        PROVE  OneLoop' /\ ViewsFit'
    <2>0. PICK p : p = RestoreOf(e0)
      OBVIOUS
    <2>1. /\ p \in Purpose /\ p.what = "subscribe" /\ p.sub = e0.sub /\ p.loop = generation /\ p.pos = e0.pos /\ p.latest = TRUE
          /\ SendRequest(p, state = "authenticated", Rest)
      BY <1>4, <1>9, <2>0
    <2>2. Paged(p) /\ Busy(p)
      BY <2>1 DEF Paged, Busy
    <2>3. Sends(p) /\ Online /\ state = "authenticated"
      BY <1>3, <2>1, SendCases DEF Serving
    <2>4. PICK a : a = Asked(p)
      OBVIOUS
    <2>5. a \in requests' /\ a.for = p /\ a.id = nextId /\ nextId \in Nat
      BY <2>1, <2>3, <2>4, SentRequests
    <2>55. \A q \in requests : Busy(q.for) => Apart(p, q.for)'
      BY <1>5, <1>75, <2>1 DEF Apart
    <2>6. OneLoop' /\ requests' = requests \cup {a} /\ jobs' = <<>> /\ inbox' = inbox \cup {a}
      <3>1. Busy(p) => p.latest /\ \A q \in requests : Busy(q.for) => Apart(p, q.for)'
        BY <2>1, <2>55
      <3>2. /\ OneLoop' /\ jobs' = <<>>
            /\ p.what # "refresh" => requests' = requests \cup {a}
        BY <1>2, <2>1, <2>3, <2>4, <3>1, OneLoopSent
      <3>3. inbox' = inbox \cup {a}
        BY <2>3, <2>4 DEF Sends
      <3> QED
        BY <2>1, <3>2, <3>3
    <2>7. \A q \in DOMAIN subs : subs'[q].topic = subs[q].topic /\ (q # e0.sub => subs'[q] = subs[q])
      BY <1>9
    <2>8. \A t : /\ t = subs'[p.sub].topic => Orders(t)' = Orders(t) \cup {a}
                 /\ t # subs'[p.sub].topic => Orders(t)' = Orders(t)
      BY <1>1, <2>1, <2>2, <2>3, <2>4, <2>7, SentOrders
    <2>9. ASSUME NEW e \in map', ~Spared(e)' PROVE Served(e)'
      <3>1. e \in map /\ e0.sub \in DOMAIN subs /\ e.sub \in DOMAIN subs /\ subs'[e.sub].topic = subs[e.sub].topic
        BY <1>1, <1>3, <2>7
      <3>2. CASE e = e0
        <4>1. Orders(subs[e.sub].topic)' = Orders(subs[e.sub].topic) \cup {a}
          BY <2>1, <2>8, <3>1, <3>2
        <4>2. \A q \in Orders(subs[e.sub].topic) : q.id <= a.id
          BY <2>5 DEF Orders, RpcInv, ServerFits, SessionTyped, Request
        <4>3. a \in inbox' /\ a.id <= a.id
          BY <2>5, <2>6
        <4>4. Pursued(e.sub, a)'
          BY <2>1, <2>5, <3>1, <4>1, <4>2, <4>3 DEF Pursued
        <4>5. subs'[e.sub].restoring
          BY <1>9, <3>2
        <4> QED
          BY <2>1, <2>2, <2>5, <3>2, <4>4, <4>5 DEF InFlight, Served
      <3>3. CASE e # e0 /\ e.pos > Job.for.pos
        <4>1. e0.pos <= e.pos /\ e0.pos # e.pos /\ e0.sub # e.sub
          BY <1>9, <3>1, <3>3 DEF RpcInv, MapFits
        <4>2. Leads(a.for, e)
          BY <1>3, <2>1, <2>2, <2>5, <3>1, <4>1 DEF Leads
        <4> QED
          BY <2>5, <4>2 DEF Restored, Served
      <3>4. CASE ~(e.pos > Job.for.pos)
        <4>1. e # e0 /\ e.sub # e0.sub /\ subs[e.sub].topic # subs[e0.sub].topic
          BY <1>9, <3>1, <3>4 DEF RpcInv, MapFits
        <4>2. Orders(subs[e.sub].topic)' = Orders(subs[e.sub].topic)
          BY <2>1, <2>7, <2>8, <3>1, <4>1
        <4>3. \A r : Busy(r.for) /\ r.for.sub = e.sub => (r \in requests <=> r \in requests')
          BY <2>1, <2>5, <2>6, <4>1
        <4>4. subs'[e.sub] = subs[e.sub]
          BY <2>7, <3>1, <4>1
        <4>5. Served(e) /\ ~Restored(e)
          BY <1>7, <1>75, <2>9, <3>1, <3>4
        <4> QED
          BY <1>1, <1>6, <2>6, <4>2, <4>3, <4>4, <4>5, ServedUntouched
      <3> QED
        BY <3>2, <3>3, <3>4
    <2> QED
      BY <2>6, <2>9 DEF ViewsFit
  <1>10. \/ (\A f \in map : ~(f.pos > Job.for.pos)) /\ jobs' = Rest /\ UNCHANGED <<subs, wire, inbox>>
         \/ \E e \in map :
              /\ e.pos > Job.for.pos /\ \A g \in map : g.pos > Job.for.pos => e.pos <= g.pos
              /\ e.sub \in DOMAIN subs /\ DOMAIN subs' = DOMAIN subs
              /\ \A q \in DOMAIN subs : subs'[q].topic = subs[q].topic /\ (q # e.sub => subs'[q] = subs[q])
              /\ subs'[e.sub].restoring = TRUE
              /\ RestoreOf(e) \in Purpose /\ RestoreOf(e).what = "subscribe" /\ RestoreOf(e).sub = e.sub
              /\ RestoreOf(e).loop = Job.sock /\ RestoreOf(e).pos = e.pos /\ RestoreOf(e).latest = TRUE
              /\ SendRequest(RestoreOf(e), state = "authenticated", Rest)
    BY RestoreNextCases
  <1> QED
    BY <1>8, <1>9, <1>10

(* The other pages, when the continuation of a page's promise returns.     *)
LEMMA ReturnViews ==
    ASSUME RpcInv, LoopsFit, OneLoop, ViewsFit, SparedLast, Serving, Serving', jobs # <<>>, Busy(Job.for), jobs' = Return,
           UNCHANGED <<requests, generation, inbox, answers, outbox, topics, happened, map>>,
           \A q \in DOMAIN subs : subs'[q].topic = subs[q].topic /\ (q # Job.for.sub => subs'[q] = subs[q])
    PROVE  /\ \A e \in map : e.sub # Job.for.sub /\ ~Spared(e)' => Served(e)'
           /\ \A t : (Streamed(t)' <=> Streamed(t)) /\ Queued(t)' = Queued(t)
           /\ \A i \in DOMAIN jobs' : ~Busy(jobs'[i].for)
  <1>1. \A e \in map : Restored(e) => Restored(e)'
    BY ReturnLeads
  <1>2. \A i \in DOMAIN jobs' : ~Busy(jobs'[i].for)
    BY OneLoopReturn
  <1>3. \A i \in DOMAIN jobs : jobs[i] = Job
    BY ServingFits
  <1>4. \A t : Orders(t)' = Orders(t)
    BY OrdersKept
  <1>5. \A t : (Streamed(t)' <=> Streamed(t)) /\ Queued(t)' = Queued(t)
    BY <1>4 DEF Streamed, Queued
  <1>6. ASSUME NEW e \in map, e.sub # Job.for.sub, ~Spared(e)' PROVE Served(e)'
    <2>1. e.sub \in DOMAIN subs /\ Served(e)
      BY <1>6, ServingFits DEF ViewsFit, SparedLast
    <2>2. subs'[e.sub] = subs[e.sub]
      BY <1>6, <2>1
    <2> QED
      BY <1>1, <1>2, <1>3, <1>4, <1>6, <2>1, <2>2, ServedUntouched
  <1> QED
    BY <1>2, <1>5, <1>6

(* A page is at rest once its refresh was answered.                        *)
LEMMA RefreshedViews ==
    ASSUME RpcInv, LoopsFit, OneLoop, ViewsFit, SparedLast, Refreshed
    PROVE  OneLoop' /\ ViewsFit'
  <1> DEFINE o == Job.for.sub
  <1>1. /\ jobs # <<>> /\ Job.for.what = "refresh" /\ Busy(Job.for) /\ jobs' = Return /\ o \in DOMAIN subs
        /\ UNCHANGED <<state, sockets, socket, requests, generation, inbox, answers, outbox, topics, happened, map>>
        /\ \A q \in DOMAIN subs : subs'[q].topic = subs[q].topic /\ (q # o => subs'[q] = subs[q])
    BY RefreshedCases DEF link, wire, session
  <1>2. Serving' <=> Serving
    BY <1>1 DEF Serving, Online
  <1> SUFFICES ASSUME Serving PROVE OneLoop' /\ ViewsFit'
    BY <1>2 DEF OneLoop, ViewsFit
  <1>3. OneLoop' /\ \A i \in DOMAIN jobs' : ~Busy(jobs'[i].for)
    BY <1>1, OneLoopReturn
  <1>4. /\ \A e \in map : e.sub # o /\ ~Spared(e)' => Served(e)'
        /\ \A t : (Streamed(t)' <=> Streamed(t)) /\ Queued(t)' = Queued(t)
    BY <1>1, <1>2, ReturnViews
  <1>5. Latest(Job.for)
    BY <1>1, ServingFits, JobFits DEF OneLoop
  <1>6. ASSUME NEW e \in map, e.sub = o, ~Spared(e)' PROVE Served(e)'
    <2> DEFINE t == subs[e.sub].topic
    <2>0. ~Spared(e)
      BY <1>2, <1>6 DEF SparedLast
    <2>00. Job.for.latest
      BY <1>5, <1>6, <2>0 DEF Latest, Spared
    <2>1. Served(e) /\ Current(o)
      BY <1>6, <2>0 DEF ViewsFit, Current
    <2>2. Heard(e.sub, Job) /\ \A r \in requests : Busy(r.for) => r.for.sub # e.sub
      BY <1>1, <1>6, <2>0, <2>1, JobServed
    <2>3. subs'[e.sub] = Released /\ subs'[e.sub].topic = t
      BY <1>1, <1>6, <2>1, RefreshedCases
    <2>4. Streamed(t) /\ (Job.how = "ok" => Covers(e.sub, Job.shows))
      BY <1>1, <2>2 DEF Heard
    <2>5. ~subs'[e.sub].restoring /\ Streamed(subs[e.sub].topic)'
      BY <1>4, <2>3, <2>4, RefreshedCases
    <2>6. CASE Job.how = "ok"
      <3>1. 1 .. happened[t] \subseteq (1 .. Job.shows) \cup subs[e.sub].buffered \cup Queued(t)
        BY <2>4, <2>6 DEF Covers
      <3>2. subs'[e.sub].view = (1 .. Job.shows) \cup subs[e.sub].buffered
        BY <1>6, <2>00, <2>3, <2>6, RefreshedCases
      <3>3. Queued(subs[e.sub].topic)' = Queued(t)
        BY <1>4, <2>3
      <3>4. Complete(e.sub)'
        BY <1>1, <2>3, <3>1, <3>2, <3>3 DEF Complete
      <3> QED
        BY <1>1, <1>3, <2>2, <2>5, <3>4 DEF AtRest, Served
    <2>7. CASE Job.how # "ok"
      <3>1. subs'[e.sub].failed
        BY <2>00, <2>3, <2>7, RefreshedCases
      <3> QED
        BY <1>1, <1>3, <2>2, <2>5, <3>1 DEF AtRest, Served
    <2> QED
      BY <2>6, <2>7
  <1> QED
    BY <1>1, <1>3, <1>4, <1>6 DEF ViewsFit

(* After a subscription's answer, case by case.                            *)
LEMMA SubscribedCases ==
    ASSUME RpcInv, Subscribed
    PROVE  /\ jobs # <<>> /\ Job.for.what = "subscribe" /\ Busy(Job.for)
           /\ UNCHANGED <<login, state, timer, generation, socket, map, happened, logins, faults>>
           /\ \/ /\ Job.how = "ok" /\ Current(Job.for.sub)
                 /\ SendRequest([what |-> "refresh", sub |-> Job.for.sub, loop |-> Job.for.loop, pos |-> Job.for.pos, latest |-> TRUE],
                                state = "authenticated", Rest)
                 /\ UNCHANGED <<subs, sockets, answers, outbox, topics>>
              \/ /\ Job.how = "ok" /\ ~Current(Job.for.sub)
                 /\ jobs' = Return /\ UNCHANGED <<wire, sockets, subs, session>>
              \/ /\ Job.how # "ok"
                 /\ sockets' = Closed(sockets, IF Job.for.loop = 0 THEN socket ELSE Job.for.loop)
  BY DEF Subscribed, Ask, Runs, Busy

(* A page whose order failed loses the connection.                         *)
LEMMA RefusedEnds ==
    ASSUME RpcInv, LoopsFit, Serving', jobs # <<>>, Busy(Job.for), UNCHANGED <<state, generation, socket>>,
           sockets' = Closed(sockets, IF Job.for.loop = 0 THEN socket ELSE Job.for.loop)
    PROVE  FALSE
  <1> DEFINE s == IF Job.for.loop = 0 THEN socket ELSE Job.for.loop
  <1>1. 1 \in DOMAIN jobs /\ Job = jobs[1] /\ Job.for.loop \in {0} \cup Socket
    BY JobFits, BusyFields
  <1>2. /\ socket \in Socket /\ socket = generation /\ state = "authenticated"
        /\ sockets'[socket].ready = "open"
        /\ sockets \in [Socket -> [ready : Ready, initial : BOOLEAN, authed : BOOLEAN]]
    BY DEF Serving, Online, RpcInv, LinkTyped
  <1>3. s \in {0} \cup Socket /\ socket # 0 /\ sockets' = Closed(sockets, s)
    BY <1>1, <1>2 DEF Socket
  <1> HIDE DEF s
  <1>4. s # socket => Closed(sockets, s)[socket] = sockets[socket]
    BY <1>2, <1>3, ClosedFits
  <1>5. s = socket => Closed(sockets, s)[s].ready = CASE sockets[s].ready = "open" -> "closing"
                                                      [] sockets[s].ready = "connecting" -> "aborting"
                                                      [] OTHER -> sockets[s].ready
    BY <1>2, <1>3, ClosedFits
  <1>6. Serving /\ s # socket
    BY <1>2, <1>3, <1>4, <1>5 DEF Serving, Online
  <1> QED
    BY <1>1, <1>2, <1>6 DEF LoopsFit, s

(* A page whose subscription was confirmed is streamed, so that the        *)
(* snapshot it now asks for and the events after it leave no gap.          *)
LEMMA SubscribedViews ==
    ASSUME RpcInv, LoopsFit, OneLoop, ViewsFit, SparedLast, Subscribed
    PROVE  OneLoop' /\ ViewsFit'
  <1> DEFINE o == Job.for.sub
             ask == [what |-> "refresh", sub |-> o, loop |-> Job.for.loop, pos |-> Job.for.pos, latest |-> TRUE]
  <1> SUFFICES ASSUME Serving' PROVE OneLoop' /\ ViewsFit'
    BY DEF OneLoop, ViewsFit
  <1>1. /\ jobs # <<>> /\ Job.for.what = "subscribe" /\ Busy(Job.for)
        /\ UNCHANGED <<state, generation, socket, map, happened>>
        /\ \/ /\ Job.how = "ok" /\ Current(o)
              /\ SendRequest(ask, state = "authenticated", Rest)
              /\ UNCHANGED <<subs, sockets, answers, outbox, topics>>
           \/ /\ Job.how = "ok" /\ ~Current(o)
              /\ jobs' = Return /\ UNCHANGED <<wire, sockets, subs, session>>
    BY SubscribedCases, RefusedEnds
  <1>2. /\ Serving /\ UNCHANGED <<sockets, subs>>
        /\ joined \subseteq joined' /\ \A e \in map : Spared(e) => Spared(e)'
    BY <1>1 DEF Serving, Online, SparedLast
  <1>3. o \in DOMAIN subs /\ Job.for.loop \in {0} \cup Socket /\ Job.for.pos \in {0} \cup Sub /\ Rest = <<>>
        /\ 1 \in DOMAIN jobs /\ Job = jobs[1] /\ \A i \in DOMAIN jobs : jobs[i] = Job
    BY <1>1, <1>2, BusyFields, ServingFits, JobFits
  <1>4. CASE ~Current(o) /\ jobs' = Return /\ UNCHANGED <<wire, sockets, subs, session>>
    <2>1. UNCHANGED <<requests, generation, inbox, answers, outbox, topics, happened, map>>
      BY <1>1, <1>4 DEF wire, session
    <2>2. OneLoop'
      BY <1>1, <1>2, <2>1, <1>4, OneLoopReturn
    <2>3. \A e \in map : e.sub # o /\ ~Spared(e)' => Served(e)'
      BY <1>1, <1>2, <1>4, <2>1, ReturnViews
    <2> QED
      BY <1>4, <2>1, <2>2, <2>3 DEF ViewsFit, Current
  <1>5. CASE /\ Job.how = "ok"
             /\ SendRequest(ask, state = "authenticated", Rest)
             /\ UNCHANGED <<subs, sockets, answers, outbox, topics>>
    <2>0. PICK p : p = ask
      OBVIOUS
    <2>1. p \in Purpose /\ p.what = "refresh" /\ p.sub = o /\ p.loop = Job.for.loop /\ p.pos = Job.for.pos /\ p.latest = TRUE
      BY <1>3, <2>0, PurposesAsked, SubsAreSub
    <2> HIDE DEF ask
    <2>2. Paged(p) /\ Busy(p)
      BY <2>1 DEF Paged, Busy
    <2>3. Sends(p) /\ Online /\ state = "authenticated"
      BY <1>2, <1>3, <1>5, <2>0, SendCases DEF Serving
    <2>4. PICK a : a = Asked(p)
      OBVIOUS
    <2>5. a \in requests' /\ a.for = p /\ a.id = nextId /\ nextId \in Nat
      BY <2>1, <2>3, <2>4, SentRequests
    <2>6. \A q \in requests : Busy(q.for) => Apart(p, q.for)'
      <3>1. \A q \in requests : Busy(q.for) => Apart(Job.for, q.for)
        BY <1>1, <1>2, <1>3 DEF OneLoop
      <3> SUFFICES ASSUME NEW q \in requests, Busy(q.for) PROVE Apart(p, q.for)'
        OBVIOUS
      <3>3. PICK x, y : x = q.for /\ y = Job.for
        OBVIOUS
      <3>4. Apart(y, x) /\ p.sub = y.sub /\ p.loop = y.loop /\ joined \subseteq joined'
        BY <1>2, <2>1, <3>1, <3>3
      <3> QED
        BY <3>3, <3>4 DEF Apart
    <2>7. /\ OneLoop' /\ jobs' = <<>> /\ inbox' = inbox \cup {a} /\ a \in requests'
          /\ \A r : Busy(r.for) /\ r.for.sub \notin joined' /\ r # a => (r \in requests <=> r \in requests')
      <3>1. Busy(p) => p.latest /\ \A q \in requests : Busy(q.for) => Apart(p, q.for)'
        BY <2>1, <2>6
      <3>2. /\ OneLoop' /\ jobs' = <<>> /\ a \in requests'
            /\ \A r : Busy(r.for) /\ r.for.sub \notin joined' /\ r # a => (r \in requests <=> r \in requests')
        BY <1>2, <2>1, <2>3, <2>4, <3>1, OneLoopSent
      <3>3. inbox' = inbox \cup {a}
        BY <2>3, <2>4 DEF Sends
      <3> QED
        BY <3>2, <3>3
    <2>8. \A t : Orders(t)' = Orders(t)
      BY <1>5, <2>1, <2>2, <2>3, SentOrders
    <2>9. ASSUME NEW e \in map, ~Spared(e)' PROVE Served(e)'
      <3>1. Served(e) /\ ~Spared(e) /\ e.sub \notin joined'
        BY <1>2, <2>9 DEF ViewsFit, Spared
      <3>2. CASE e.sub = o
        <4>1. subs[e.sub].restoring /\ Heard(e.sub, Job)
          BY <1>1, <1>2, <3>1, <3>2, JobServed
        <4>2. Streamed(subs[e.sub].topic)
          BY <1>1, <1>5, <4>1 DEF Heard
        <4>3. Streamed(subs[e.sub].topic)'
          BY <1>5, <2>8, <4>2 DEF Streamed
        <4>4. \A m \in answers : m.id # a.id
          BY <2>5 DEF RpcInv, ServerFits, SessionTyped, Answer
        <4>5. \A i \in DOMAIN outbox : outbox[i].kind = "answer" => outbox[i].id # a.id
          <5> SUFFICES ASSUME NEW i \in DOMAIN outbox, outbox[i].kind = "answer" PROVE outbox[i].id # a.id
            OBVIOUS
          <5>1. outbox[i].id < nextId
            BY DEF RpcInv, ServerFits
          <5> QED
            BY <2>5, <5>1
        <4>6. Pursued(e.sub, a)'
          BY <1>5, <2>1, <2>5, <4>3, <4>4, <4>5 DEF Pursued
        <4> QED
          BY <1>2, <2>1, <2>2, <2>5, <3>2, <4>1, <4>6 DEF InFlight, Served
      <3>3. CASE e.sub # o
        <4>1. \A r : Busy(r.for) /\ r.for.sub = e.sub => (r \in requests <=> r \in requests')
          BY <2>1, <2>5, <2>7, <3>1, <3>3
        <4>2. Restored(e) => Restored(e)'
          <5>1. Leads(Job.for, e) => Leads(a.for, e)
            BY <1>1, <2>1, <2>2, <2>5 DEF Leads, Busy
          <5>2. (\E r \in requests : Leads(r.for, e)) => \E r \in requests' : Leads(r.for, e)
            BY <2>1, <2>3, LeadsSent
          <5> QED
            BY <1>3, <2>5, <5>1, <5>2 DEF Restored
        <4>3. UNCHANGED <<happened, topics, answers, outbox>> /\ subs'[e.sub] = subs[e.sub] /\ inbox \subseteq inbox'
          BY <1>1, <1>5, <2>7
        <4>4. /\ \A i \in DOMAIN jobs : Busy(jobs[i].for) => jobs[i].for.sub # e.sub
              /\ \A i \in DOMAIN jobs' : Busy(jobs'[i].for) => jobs'[i].for.sub # e.sub
          BY <1>3, <2>7, <3>3
        <4> QED
          BY <2>8, <3>1, <4>1, <4>2, <4>3, <4>4, ServedUntouched
      <3> QED
        BY <3>2, <3>3
    <2> QED
      BY <1>1, <2>7, <2>9 DEF ViewsFit
  <1> QED
    BY <1>1, <1>4, <1>5

(* What tells the client and the server nothing.                           *)
LEMMA ViewsIdle ==
    ASSUME OneLoop, ViewsFit, SparedLast, Serving' => Serving,
           UNCHANGED <<requests, jobs, subs, map, inbox, topics, answers, outbox, happened>>
    PROVE  OneLoop' /\ ViewsFit'
  <1>1. OneLoop'
    BY OneLoopIdle
  <1>2. \A t : (Orders(t)' = Orders(t)) /\ Queued(t)' = Queued(t) /\ (Streamed(t)' <=> Streamed(t))
    BY DEF Orders, Queued, Streamed, TopicOf
  <1>3. ASSUME NEW e, Served(e) PROVE Served(e)'
    <2>1. Restored(e) => Restored(e)'
      BY DEF Restored
    <2>2. AtRest(e.sub) => AtRest(e.sub)'
      BY <1>2 DEF AtRest, Complete
    <2>3. \A shows : Covers(e.sub, shows)' <=> Covers(e.sub, shows)
      BY <1>2 DEF Covers
    <2>4. \A r : Pursued(e.sub, r) => Pursued(e.sub, r)'
      BY <1>2, <2>3 DEF Pursued
    <2>5. \A j : Heard(e.sub, j) => Heard(e.sub, j)'
      BY <1>2, <2>3 DEF Heard
    <2>6. InFlight(e.sub) => InFlight(e.sub)'
      BY <2>4, <2>5 DEF InFlight
    <2> QED
      BY <1>3, <2>1, <2>2, <2>6 DEF Served
  <1> QED
    BY <1>1, <1>3 DEF ViewsFit, SparedLast

(* The end of a continuation that no page and no loop waits for.           *)
LEMMA ViewsEnded ==
    ASSUME RpcInv, OneLoop, ViewsFit, SparedLast, Serving' => Serving, jobs' = <<>>,
           \A i \in DOMAIN jobs : ~Busy(jobs[i].for) /\ jobs[i].for.what # "next",
           UNCHANGED <<requests, subs, map, inbox, topics, answers, outbox, happened>>
    PROVE  OneLoop' /\ ViewsFit'
  <1>1. OneLoop'
    BY OneLoopIdle
  <1>2. \A t : Orders(t)' = Orders(t)
    BY DEF Orders, TopicOf
  <1>3. ASSUME NEW e \in map, Served(e) PROVE Served(e)'
    <2>1. Restored(e) => Restored(e)'
      BY DEF Restored, Leads
    <2> QED
      BY <1>2, <1>3, <2>1, ServedUntouched
  <1> QED
    BY <1>1, <1>3 DEF ViewsFit, SparedLast

(* An unsubscription's answer leaves every page alone.                     *)
LEMMA UnsubscribedViews ==
    ASSUME RpcInv, OneLoop, ViewsFit, SparedLast, Unsubscribed
    PROVE  OneLoop' /\ ViewsFit'
  <1>1. jobs # <<>> /\ Job.for.what = "unsubscribe" /\ jobs' = Rest
        /\ UNCHANGED <<state, socket, sockets, requests, subs, map, inbox, topics, answers, outbox, happened>>
    BY DEF Unsubscribed, Runs, link, wire, table, session
  <1>2. Serving' <=> Serving
    BY <1>1 DEF Serving, Online
  <1> SUFFICES ASSUME Serving PROVE OneLoop' /\ ViewsFit'
    BY <1>2 DEF OneLoop, ViewsFit
  <1>3. jobs' = <<>> /\ \A i \in DOMAIN jobs : jobs[i].for.what = "unsubscribe"
    BY <1>1, ServingFits
  <1>4. \A i \in DOMAIN jobs : ~Busy(jobs[i].for) /\ jobs[i].for.what # "next"
    BY <1>3 DEF Busy
  <1> QED
    BY <1>1, <1>2, <1>3, <1>4, ViewsEnded

(* A login that fails ends the connection, or was of an older one.         *)
LEMMA FailingViews ==
    ASSUME RpcInv, OneLoop, ViewsFit, SparedLast, jobs # <<>>, Proving(Job.for), AuthenticationFails(Job.sock), UNCHANGED happened, Serving'
    PROVE  OneLoop' /\ ViewsFit'
  <1>1. Job.sock # generation
    BY DEF AuthenticationFails, GiveUp, Serving
  <1>2. UNCHANGED <<state, sockets, socket, requests, subs, map>> /\ jobs' = Rest /\ Hangup
    BY <1>1 DEF AuthenticationFails, wire, table
  <1>3. Serving /\ UNCHANGED <<inbox, topics, answers, outbox>>
    BY <1>2 DEF Serving, Online, Hangup, session
  <1>4. jobs' = <<>> /\ \A i \in DOMAIN jobs : ~Busy(jobs[i].for) /\ jobs[i].for.what # "next"
    BY <1>2, <1>3, ServingFits DEF Busy, Proving
  <1> QED
    BY <1>2, <1>3, <1>4, ViewsEnded

(* A connection that is accepted begins by restoring every entry.          *)
LEMMA CapabilitiesViews ==
    ASSUME RpcInv, OneLoop, ViewsFit, SparedLast, Capabilities
    PROVE  OneLoop' /\ ViewsFit'
  <1> SUFFICES ASSUME Serving' PROVE OneLoop' /\ ViewsFit'
    BY DEF OneLoop, ViewsFit
  <1>1. jobs # <<>> /\ Proving(Job.for) /\ UNCHANGED happened
    BY DEF Capabilities, Runs, Proving
  <1>2. ASSUME AuthenticationFails(Job.sock) PROVE OneLoop' /\ ViewsFit'
    BY <1>1, <1>2, FailingViews
  <1>3. CASE Job.how = "ok"
    <2>1. Job.sock = generation /\ Online /\ Rest = <<>> /\ generation \in Socket /\ ~Authed
      BY <1>1, <1>3, LoginIsAnswered
    <2>2. jobs' = Append(<<>>, Next_(generation, 0)) /\ UNCHANGED <<requests, subs, map>>
      BY <1>3, <2>1 DEF Capabilities, wire, table
    <2> DEFINE j == Next_(generation, 0)
    <2>3. j.for.what = "next" /\ j.for.pos = 0
      BY DEF Next_
    <2> HIDE DEF j
    <2>4. DOMAIN jobs' = {1} /\ jobs'[1] = j
      BY <2>2 DEF j
    <2>5. \A r \in requests : ~Busy(r.for)
      BY <2>1 DEF RpcInv, PagesFit, Paged, Busy
    <2>6. OneLoop'
      BY <2>2, <2>3, <2>4, <2>5 DEF OneLoop, Busy
    <2>7. \A e \in map' : e.pos \in Nat \ {0}
      BY <2>2, SubsAreSub DEF RpcInv, TableTyped
    <2>8. \A e \in map' : Restored(e)'
      BY <2>3, <2>4, <2>7 DEF Restored, Leads
    <2> QED
      BY <2>6, <2>8 DEF ViewsFit, Served
  <1> QED
    BY <1>2, <1>3 DEF Capabilities

(* A connection whose token was just accepted serves nothing yet.          *)
LEMMA AuthenticatesViews ==
    ASSUME RpcInv, OneLoop, ViewsFit, SparedLast, Authenticates
    PROVE  OneLoop' /\ ViewsFit'
  <1> SUFFICES ASSUME Serving' PROVE OneLoop' /\ ViewsFit'
    BY DEF OneLoop, ViewsFit
  <1>1. jobs # <<>> /\ Proving(Job.for) /\ UNCHANGED happened
    BY DEF Authenticates, Runs, Proving
  <1>2. Job.how # "ok"
    <2> SUFFICES ASSUME Job.how = "ok" PROVE FALSE
      OBVIOUS
    <2>1. UNCHANGED <<state, generation, socket, sockets>>
      BY DEF Authenticates, link
    <2>2. Serving
      BY <2>1 DEF Serving, Online
    <2> QED
      BY <1>1, <2>2, ServingFits, LoginIsAnswered
  <1>3. AuthenticationFails(Job.sock)
    BY <1>2 DEF Authenticates
  <1> QED
    BY <1>1, <1>3, FailingViews

(* An older socket's end.                                                  *)
LEMMA EndingViews ==
    ASSUME RpcInv, OneLoop, ViewsFit, SparedLast, NEW s \in Socket, Fails(s) \/ Closes(s) \/ Drops(s), s # generation
    PROVE  OneLoop' /\ ViewsFit'
  <1>1. /\ sockets' = [sockets EXCEPT ![s] = Gone] /\ UNCHANGED <<socket, requests, jobs, subs, map, happened>>
        /\ Hangup /\ state' \in {"failed", state}
    BY DEF Fails, Closes, Drops, OnClose, GiveUp, table
  <1>2. sockets[s].ready # "open"
    BY DEF RpcInv, SocketsFit, Live
  <1>3. Open(sockets') = Open(sockets)
    BY <1>1, <1>2 DEF Open, Gone, RpcInv, LinkTyped
  <1>4. UNCHANGED <<inbox, topics, answers, outbox>>
    BY <1>1, <1>3 DEF Hangup, session
  <1>5. Serving' => Serving
    BY <1>1 DEF Serving, Online, RpcInv, LinkTyped
  <1> QED
    BY <1>1, <1>4, <1>5, ViewsIdle

(* A page whose request is settled hears of it; the others are left alone. *)
LEMMA SettledServed ==
    ASSUME RpcInv, LoopsFit, OneLoop, Serving, jobs = <<>>, NEW r \in requests, NEW how \in How, NEW shows \in Nat,
           requests' = requests \ {r}, jobs' = <<Settles(r, how, shows)>>,
           UNCHANGED <<generation, subs, inbox, topics, answers, happened>>,
           \A t : Queued(t)' = Queued(t), \A i \in DOMAIN outbox' : \E k \in DOMAIN outbox : outbox'[i] = outbox[k],
           NEW e \in map, ~Spared(e), Served(e),
           Busy(r.for) /\ r.for.sub = e.sub /\ Pursued(e.sub, r) => Heard(e.sub, Settles(r, how, shows))
    PROVE  Served(e)'
  <1> DEFINE j == Settles(r, how, shows)
  <1>1. DOMAIN jobs' = {1} /\ jobs'[1] = j /\ j.for = r.for
    BY SettlesFits DEF Settles
  <1> HIDE DEF j
  <1>2. \A t : Orders(t)' = Orders(t)
    BY DEF Orders, TopicOf
  <1>3. \A t : Streamed(t)' <=> Streamed(t)
    BY <1>2 DEF Streamed
  <1>4. Restored(e) => Restored(e)'
    BY SettledLeads
  <1>5. CASE Busy(r.for) /\ r.for.sub = e.sub
    <2>1. ~AtRest(e.sub)
      BY <1>5 DEF AtRest
    <2>2. CASE InFlight(e.sub)
      <3>1. subs[e.sub].restoring /\ \E q \in requests : Busy(q.for) /\ q.for.sub = e.sub /\ Pursued(e.sub, q)
        BY <2>2 DEF InFlight
      <3>2. Pursued(e.sub, r)
        BY <1>5, <3>1 DEF OneLoop, Apart, Spared
      <3>3. Heard(e.sub, j)
        BY <1>5, <3>2 DEF j
      <3>4. Heard(e.sub, j)'
        BY <1>3, <3>3 DEF Heard, Covers
      <3> QED
        BY <1>1, <1>5, <3>1, <3>4 DEF InFlight, Served
    <2> QED
      BY <1>4, <2>1, <2>2 DEF Served
  <1>6. CASE ~(Busy(r.for) /\ r.for.sub = e.sub)
    <2>1. \A q : Busy(q.for) /\ q.for.sub = e.sub => (q \in requests <=> q \in requests')
      BY <1>6
    <2>2. \A i \in DOMAIN jobs' : Busy(jobs'[i].for) => jobs'[i].for.sub # e.sub
      BY <1>1, <1>6
    <2> DEFINE o == e.sub
    <2>3. subs'[o] = subs[o] /\ UNCHANGED happened /\ Queued(subs[o].topic) \subseteq Queued(subs[o].topic)'
      OBVIOUS
    <2> HIDE DEF o
    <2>4. (\A x : Covers(o, x) => Covers(o, x)') /\ (Complete(o) => Complete(o)')
      BY <2>3, CoverageKept
    <2> QED
      BY <1>2, <1>4, <2>1, <2>2, <2>4, ServedKept DEF o
  <1> QED
    BY <1>5, <1>6

(* A page whose request timed out is about to close the connection or to   *)
(* show an error.                                                          *)
LEMMA TimesOutViews ==
    ASSUME RpcInv, LoopsFit, OneLoop, ViewsFit, SparedLast, NEW r \in requests, TimesOut(r)
    PROVE  OneLoop' /\ ViewsFit'
  <1>1. /\ jobs = <<>> /\ requests' = requests \ {r} /\ jobs' = <<Settles(r, "timeout", 0)>>
        /\ UNCHANGED <<state, generation, socket, sockets, subs, map, inbox, topics, answers, outbox, happened>>
    BY DEF TimesOut, link, table, session
  <1>2. Serving' <=> Serving
    BY <1>1 DEF Serving, Online
  <1> SUFFICES ASSUME Serving PROVE OneLoop' /\ ViewsFit'
    BY <1>2 DEF OneLoop, ViewsFit
  <1>3. "timeout" \in How /\ 0 \in Nat
    BY DEF How
  <1>4. OneLoop'
    BY <1>1, <1>3, OneLoopSettled
  <1>5. \A t : Queued(t)' = Queued(t)
    BY <1>1 DEF Queued
  <1>6. \A o : Pursued(o, r) => Heard(o, Settles(r, "timeout", 0))
    <2> DEFINE j == Settles(r, "timeout", 0)
    <2>1. j.for = r.for /\ j.how = "timeout"
      BY DEF Settles
    <2> HIDE DEF j
    <2>2. \A o : Pursued(o, r) => Heard(o, j)
      BY <2>1 DEF Pursued, Heard
    <2> QED
      BY <2>2 DEF j
  <1>7. ASSUME NEW e \in map, ~Spared(e)' PROVE Served(e)'
    <2>1. Served(e) /\ ~Spared(e)
      BY <1>2, <1>7 DEF ViewsFit, SparedLast
    <2> QED
      BY <1>1, <1>3, <1>5, <1>6, <2>1, SettledServed
  <1> QED
    BY <1>1, <1>4, <1>7 DEF ViewsFit

(* A page is told what leaves the connection.                              *)
LEMMA ToldCovers ==
    ASSUME RpcInv, outbox # <<>>, outbox' = Tail(outbox), Dropped(Head(outbox)) \/ Told(Head(outbox)),
           UNCHANGED happened, NEW e \in map
    PROVE  /\ subs'[e.sub].topic = subs[e.sub].topic /\ subs'[e.sub].restoring = subs[e.sub].restoring
           /\ subs'[e.sub].failed = subs[e.sub].failed
           /\ subs[e.sub].restoring => \A shows : Covers(e.sub, shows) => Covers(e.sub, shows)'
           /\ ~subs[e.sub].restoring => (Complete(e.sub) => Complete(e.sub)')
  <1> DEFINE m == Head(outbox)
             o == e.sub
  <1>0. PICK t : t = subs[o].topic
    OBVIOUS
  <1>1. /\ ~(m.kind = "event" /\ m.topic = t) => Queued(t)' = Queued(t)
        /\ Queued(t) \subseteq Queued(t)' \cup {m.n}
    BY QueuedShrinks
  <1>2. o \in DOMAIN subs /\ subs[o] \in Page
    BY SubsAreSub DEF RpcInv, TableTyped
  <1>3. Dropped(m) \/ Told(m)
    OBVIOUS
  <1> HIDE DEF m, o
  <1>4. CASE subs'[o] = subs[o] /\ ~(m.kind = "event" /\ m.topic = t)
    <2>1. subs'[o] = subs[o] /\ UNCHANGED happened /\ Queued(subs[o].topic) \subseteq Queued(subs[o].topic)'
      <3>1. Queued(subs[o].topic)' = Queued(t)' /\ Queued(subs[o].topic) = Queued(t)
        BY <1>0, <1>4
      <3> QED
        BY <1>1, <1>4, <3>1
    <2>2. (\A shows : Covers(o, shows) => Covers(o, shows)') /\ (Complete(o) => Complete(o)')
      BY <2>1, CoverageKept
    <2> QED
      BY <2>1, <2>2, <1>4 DEF o
  <1>5. CASE subs'[o] = Notified(o, m.n)
    <2>1. /\ subs'[o].topic = t /\ subs'[o].restoring = subs[o].restoring /\ subs'[o].failed = subs[o].failed
          /\ subs[o].restoring => subs'[o].buffered = subs[o].buffered \cup {m.n}
          /\ ~subs[o].restoring => subs'[o].view = subs[o].view \cup {m.n}
      BY <1>0, <1>2, <1>5 DEF Notified, Page
    <2>2. Queued(subs[o].topic)' = Queued(t)'
      BY <2>1
    <2>3. subs[o].restoring => \A shows : Covers(o, shows) => Covers(o, shows)'
      BY <1>0, <1>1, <2>1, <2>2 DEF Covers
    <2>4. ~subs[o].restoring => (Complete(o) => Complete(o)')
      BY <1>0, <1>1, <2>1, <2>2 DEF Complete
    <2> QED
      BY <1>0, <2>1, <2>3, <2>4 DEF o
  <1>6. \/ subs'[o] = subs[o] /\ ~(m.kind = "event" /\ m.topic = t)
        \/ subs'[o] = Notified(o, m.n)
    <2>1. CASE Dropped(m)
      BY <2>1 DEF Dropped
    <2>2. CASE Told(m)
      BY <1>0, <1>2, <2>2 DEF Told, o
    <2> QED
      BY <1>3, <2>1, <2>2
  <1> QED
    BY <1>4, <1>5, <1>6

(* What a request's answer says is what the page was still missing.        *)
LEMMA AnswerHeard ==
    ASSUME RpcInv, outbox # <<>>, NEW r \in requests, Answered(r, Head(outbox)), NEW o, Pursued(o, r)
    PROVE  Heard(o, Settles(r, Head(outbox).how, Head(outbox).shows))
  <1> DEFINE m == Head(outbox)
             j == Settles(r, m.how, m.shows)
  <1>1. m = outbox[1] /\ 1 \in DOMAIN outbox /\ m.kind = "answer" /\ m.id = r.id
    BY QueuedShrinks DEF Answered
  <1>2. j.for = r.for /\ j.how = m.how /\ j.shows = m.shows
    BY DEF Settles
  <1> HIDE DEF m, j
  <1>3. \A q \in inbox : q.id # r.id
    BY <1>1 DEF RpcInv, ServerFits
  <1>4. Heard(o, j)
    BY <1>1, <1>2, <1>3 DEF Heard, Pursued
  <1> QED
    BY <1>4 DEF j, m

(* An answer is what its page was waiting for, and an event is added to    *)
(* what the page shows or holds back.                                      *)
LEMMA ReceiveViews ==
    ASSUME RpcInv, LoopsFit, OneLoop, ViewsFit, SparedLast, NEW s \in Socket, Receive(s)
    PROVE  OneLoop' /\ ViewsFit'
  <1> DEFINE m == Head(outbox)
  <1>1. /\ jobs = <<>> /\ Online /\ outbox # <<>> /\ m \in Answer \cup Event
        /\ UNCHANGED <<state, generation, socket, map, happened>>
        /\ \/ \E r \in requests : Answered(r, m)
           \/ Dropped(m)
           \/ Told(m)
           \/ Overflows(m)
    BY ReceiveCases
  <1>2. ASSUME NEW r \in requests, Answered(r, m), NEW o, Pursued(o, r) PROVE Heard(o, Settles(r, m.how, m.shows))
    BY <1>1, <1>2, AnswerHeard
  <1>3. ASSUME outbox' = Tail(outbox), NEW t
        PROVE  /\ \A i \in DOMAIN outbox' : \E k \in DOMAIN outbox : outbox'[i] = outbox[k]
               /\ m.kind = "answer" => Queued(t)' = Queued(t)
    BY <1>1, <1>3, QueuedShrinks
  <1>4. ASSUME Dropped(m) \/ Told(m), outbox' = Tail(outbox), NEW e \in map
        PROVE  /\ subs'[e.sub].topic = subs[e.sub].topic /\ subs'[e.sub].restoring = subs[e.sub].restoring
               /\ subs'[e.sub].failed = subs[e.sub].failed
               /\ subs[e.sub].restoring => \A shows : Covers(e.sub, shows) => Covers(e.sub, shows)'
               /\ ~subs[e.sub].restoring => (Complete(e.sub) => Complete(e.sub)')
    BY <1>1, <1>4, ToldCovers
  <1> HIDE DEF m
  <1>5. Serving' => Serving
    BY <1>1 DEF Serving
  <1> SUFFICES ASSUME Serving, Serving' PROVE OneLoop' /\ ViewsFit'
    BY <1>5 DEF OneLoop, ViewsFit
  <1>6. ASSUME NEW r \in requests, Answered(r, m) PROVE OneLoop' /\ ViewsFit'
    <2> DEFINE how   == m.how
               shows == m.shows
    <2>1. /\ requests' = requests \ {r} /\ jobs' = <<Settles(r, how, shows)>> /\ outbox' = Tail(outbox)
          /\ UNCHANGED <<subs, inbox, topics, answers>> /\ m.kind = "answer"
      BY <1>6 DEF Answered
    <2>2. how \in How /\ shows \in Nat
      BY <1>1, <2>1 DEF Answer, Event, How
    <2>3. \A o : Pursued(o, r) => Heard(o, Settles(r, how, shows))
      BY <1>2, <1>6
    <2> HIDE DEF how, shows
    <2>4. OneLoop'
      BY <2>1, <2>2, OneLoopSettled
    <2>5. (\A t : Queued(t)' = Queued(t)) /\ \A i \in DOMAIN outbox' : \E k \in DOMAIN outbox : outbox'[i] = outbox[k]
      BY <1>3, <2>1
    <2>6. ASSUME NEW e \in map, ~Spared(e)' PROVE Served(e)'
      <3>1. Served(e) /\ ~Spared(e)
        BY <2>6 DEF ViewsFit, SparedLast
      <3> QED
        BY <1>1, <2>1, <2>2, <2>3, <2>5, <3>1, SettledServed
    <2> QED
      BY <1>1, <2>4, <2>6 DEF ViewsFit
  <1>7. CASE Dropped(m) \/ Told(m)
    <2>1. UNCHANGED <<requests, jobs, inbox, topics, answers>> /\ outbox' = Tail(outbox)
      BY <1>7 DEF Dropped, Told
    <2>2. OneLoop'
      BY <2>1, OneLoopIdle
    <2>3. \A o \in DOMAIN subs : subs'[o].topic = subs[o].topic
      BY <1>7, ToldTopics DEF Dropped
    <2>4. \A t : Orders(t)' = Orders(t)
      BY <2>1, <2>3, OrdersKept
    <2>5. \A i \in DOMAIN outbox' : \E k \in DOMAIN outbox : outbox'[i] = outbox[k]
      BY <1>3, <2>1
    <2>6. ASSUME NEW e \in map, ~Spared(e)' PROVE Served(e)'
      <3>1. Served(e) /\ (Restored(e) => Restored(e)')
        BY <2>1, <2>6 DEF ViewsFit, SparedLast, Restored
      <3>2. /\ subs'[e.sub].topic = subs[e.sub].topic /\ subs'[e.sub].restoring = subs[e.sub].restoring
            /\ subs'[e.sub].failed = subs[e.sub].failed
            /\ subs[e.sub].restoring => \A shows : Covers(e.sub, shows) => Covers(e.sub, shows)'
            /\ ~subs[e.sub].restoring => (Complete(e.sub) => Complete(e.sub)')
        BY <1>4, <1>7, <2>1
      <3> QED
        BY <1>1, <2>1, <2>4, <2>5, <3>1, <3>2, ServedKept
    <2> QED
      BY <1>1, <2>2, <2>6 DEF ViewsFit
  <1>8. ~Overflows(m)
    <2> SUFFICES ASSUME Overflows(m) PROVE FALSE
      OBVIOUS
    <2>1. sockets' = Closed(sockets, socket) /\ socket' = socket
      BY <1>1 DEF Overflows
    <2>2. \A u \in Socket : sockets'[u].ready # "open"
      BY <2>1, NoneAliveClosed
    <2> QED
      BY <2>1, <2>2, ServingFits DEF Serving, Online
  <1> QED
    BY <1>1, <1>6, <1>7, <1>8

(* The server carries out an order, or takes a snapshot.                   *)
LEMMA ServeViews ==
    ASSUME RpcInv, OneLoop, ViewsFit, SparedLast, NEW r \in inbox, Serve(r)
    PROVE  OneLoop' /\ ViewsFit'
  <1>1. /\ jobs = <<>> /\ inbox' = inbox \ {r} /\ answers' = answers \cup {AnswerTo(r)} /\ AnswerTo(r).id = r.id
        /\ UNCHANGED <<state, generation, socket, sockets, requests, jobs, subs, map, outbox, happened, nextId>>
        /\ \A q \in requests : Paged(q.for) /\ q.id = r.id => q.for.what = r.for.what /\ q.for.sub = r.for.sub
        /\ \A q \in requests : q.for.what = "refresh" /\ AnswerTo(r).id = q.id => AnswerTo(r).shows = happened[TopicOf(q.for)]
    BY ServeAnswers
  <1>2. Serving' <=> Serving
    BY <1>1 DEF Serving, Online
  <1> SUFFICES ASSUME Serving PROVE OneLoop' /\ ViewsFit'
    BY <1>2 DEF OneLoop, ViewsFit
  <1>3. OneLoop'
    BY <1>1, OneLoopIdle
  <1>4. \A t : t \notin overtaken' =>
               /\ Orders(t)' = Orders(t) \ {r}
               /\ t \in topics' <=> IF r \in Orders(t) THEN r.for.what = "subscribe" ELSE t \in topics
               /\ r \in Orders(t) => \A q \in Orders(t) : q = r \/ r.id < q.id
    BY ServedOrders DEF Orders
  <1>5. \A t : t \notin overtaken' /\ Streamed(t) => Streamed(t)'
    BY <1>4 DEF Streamed
  <1>6. \A t : Queued(t)' = Queued(t)
    BY <1>1 DEF Queued
  <1>7. ASSUME NEW e \in map, ~Spared(e)', Served(e) PROVE Served(e)'
    <2> DEFINE o == e.sub
    <2>0. PICK t : t = subs[o].topic /\ t \notin overtaken'
      BY <1>1, <1>7 DEF Spared
    <2>1. Restored(e) => Restored(e)'
      BY <1>1 DEF Restored
    <2>2. UNCHANGED <<subs, happened, requests, jobs, outbox>> /\ jobs = <<>>
      BY <1>1
    <2>3. AtRest(o) => AtRest(o)'
      BY <1>5, <1>6, <2>0, <2>2 DEF AtRest, Complete
    <2>4. \A shows : Covers(o, shows)' <=> Covers(o, shows)
      BY <1>6, <2>2 DEF Covers
    <2>5. ASSUME NEW q \in requests, Busy(q.for), q.for.sub = o, Pursued(o, q) PROVE Pursued(o, q)'
      <3>1. CASE q.for.what = "subscribe"
        <4>1. \A u \in Orders(t)' : u.id <= q.id
          BY <1>4, <2>0, <2>5, <3>1 DEF Pursued
        <4>2. ASSUME \A u \in inbox' : u.id # q.id PROVE Streamed(t)'
          <5>1. CASE \A u \in inbox : u.id # q.id
            BY <1>5, <2>0, <2>5, <3>1, <5>1 DEF Pursued
          <5>2. CASE r.id = q.id
            <6>1. r.for.what = "subscribe" /\ r \in Orders(t)
              BY <1>1, <2>0, <2>5, <3>1, <5>2 DEF Orders, TopicOf, Paged
            <6>2. \A u \in Orders(t) : u.id <= r.id /\ u.id \in Nat /\ r.id \in Nat /\ (u = r \/ r.id < u.id)
              BY <1>4, <2>0, <2>5, <3>1, <5>2, <6>1 DEF Pursued, Orders, RpcInv, SessionTyped, Request
            <6>3. Orders(t)' = {}
              <7>1. \A u \in Orders(t) : u = r
                BY <6>2
              <7> QED
                BY <1>4, <2>0, <6>1, <7>1
            <6>4. t \in topics'
              BY <1>4, <2>0, <6>1
            <6> QED
              BY <6>3, <6>4 DEF Streamed
          <5> QED
            BY <1>1, <4>2, <5>1, <5>2
        <4>3. Orders(subs[o].topic)' = Orders(t)' /\ (Streamed(subs[o].topic)' <=> Streamed(t)')
          BY <2>0, <2>2
        <4> QED
          BY <3>1, <4>1, <4>2, <4>3 DEF Pursued
      <3>2. CASE q.for.what = "refresh"
        <4>1. Streamed(subs[o].topic)'
          BY <1>5, <2>0, <2>2, <2>5, <3>2 DEF Pursued
        <4>2. ASSUME NEW m \in answers', m.id = q.id PROVE Covers(o, m.shows)'
          <5>1. CASE m \in answers
            BY <2>4, <2>5, <3>2, <4>2, <5>1 DEF Pursued
          <5>2. CASE m = AnswerTo(r)
            <6>1. m.shows = happened[t]
              BY <1>1, <2>0, <2>5, <3>2, <4>2, <5>2 DEF TopicOf
            <6>2. Covers(o, m.shows)
              BY <2>0, <6>1 DEF Covers
            <6> QED
              BY <2>4, <6>2
          <5> QED
            BY <1>1, <5>1, <5>2
        <4>3. (\A i \in DOMAIN outbox : outbox[i].kind = "answer" /\ outbox[i].id = q.id => Covers(o, outbox[i].shows))'
          <5>1. \A i \in DOMAIN outbox : outbox[i].kind = "answer" /\ outbox[i].id = q.id => Covers(o, outbox[i].shows)
            BY <2>5, <3>2 DEF Pursued
          <5> QED
            BY <2>2, <2>4, <5>1
        <4> QED
          BY <3>2, <4>1, <4>2, <4>3 DEF Pursued
      <3> QED
        BY <2>5, <3>1, <3>2 DEF Busy
    <2>6. InFlight(o) => InFlight(o)'
      BY <2>2, <2>5 DEF InFlight
    <2> QED
      BY <1>7, <2>1, <2>3, <2>6 DEF Served
  <1> QED
    BY <1>1, <1>2, <1>3, <1>7 DEF ViewsFit, SparedLast

(* and queues its answer behind what it streamed meanwhile.                *)
LEMMA ReplyViews ==
    ASSUME RpcInv, OneLoop, ViewsFit, SparedLast, NEW m \in answers, Reply(m)
    PROVE  OneLoop' /\ ViewsFit'
  <1>1. /\ jobs = <<>> /\ answers' = answers \ {m} /\ outbox' = Append(outbox, m)
        /\ UNCHANGED <<state, socket, sockets, requests, jobs, subs, map, inbox, topics, happened>>
    BY DEF Reply, link, wire, table
  <1>2. Serving' <=> Serving
    BY <1>1 DEF Serving, Online
  <1> SUFFICES ASSUME Serving PROVE OneLoop' /\ ViewsFit'
    BY <1>2 DEF OneLoop, ViewsFit
  <1>3. OneLoop'
    BY <1>1, OneLoopIdle
  <1>4. /\ \A t : Queued(t) \subseteq Queued(t)'
        /\ \A i \in DOMAIN outbox' : outbox'[i] = m \/ \E k \in DOMAIN outbox : outbox'[i] = outbox[k]
    BY <1>1, QueuedGrows
  <1>5. \A t : Orders(t)' = Orders(t)
    BY <1>1 DEF Orders, TopicOf
  <1>6. ASSUME NEW e \in map, ~Spared(e)' PROVE Served(e)'
    <2>1. Served(e) /\ (Restored(e) => Restored(e)')
      BY <1>1, <1>2, <1>6 DEF ViewsFit, SparedLast, Restored
    <2> DEFINE o == e.sub
    <2>2. subs'[o] = subs[o] /\ UNCHANGED happened /\ Queued(subs[o].topic) \subseteq Queued(subs[o].topic)'
      BY <1>1, <1>4
    <2> HIDE DEF o
    <2>3. (\A x : Covers(o, x) => Covers(o, x)') /\ (Complete(o) => Complete(o)')
      BY <2>2, CoverageKept
    <2> QED
      BY <1>1, <1>4, <1>5, <2>1, <2>3, ServedKept DEF o
  <1> QED
    BY <1>1, <1>3, <1>6 DEF ViewsFit

(* What happens on a topic that is streamed is on its way to the page.     *)
LEMMA HappensViews ==
    ASSUME RpcInv, OneLoop, ViewsFit, SparedLast, NEW t \in Topic, Happens(t)
    PROVE  OneLoop' /\ ViewsFit'
  <1> DEFINE m == [kind |-> "event", topic |-> t, n |-> happened[t] + 1]
  <1>1. /\ jobs = <<>> /\ happened' = [happened EXCEPT ![t] = @ + 1]
        /\ UNCHANGED <<state, socket, sockets, requests, jobs, subs, map, inbox, topics, answers>>
    BY DEF Happens, link, wire, table
  <1>2. happened \in [Topic -> Nat] /\ happened'[t] = happened[t] + 1 /\ \A x \in Topic : x # t => happened'[x] = happened[x]
    BY <1>1 DEF RpcInv, TableTyped
  <1>3. outbox' = outbox \/ outbox' = Append(outbox, m)
    BY <1>2 DEF Happens
  <1>4. t \in topics => outbox' = Append(outbox, m)
    BY <1>2 DEF Happens
  <1>5. m.kind = "event" /\ m.topic = t /\ m.n = happened[t] + 1
    OBVIOUS
  <1> HIDE DEF m
  <1>6. Serving' <=> Serving
    BY <1>1 DEF Serving, Online
  <1> SUFFICES ASSUME Serving PROVE OneLoop' /\ ViewsFit'
    BY <1>6 DEF OneLoop, ViewsFit
  <1>7. OneLoop'
    BY <1>1, OneLoopIdle
  <1>8. \A i \in DOMAIN outbox' : outbox'[i].kind = "answer" => \E k \in DOMAIN outbox : outbox'[i] = outbox[k]
    BY <1>3, <1>5, QueuedGrows
  <1>9. \A x : Queued(x) \subseteq Queued(x)'
    <2>1. outbox' = outbox => \A x : Queued(x)' = Queued(x)
      BY DEF Queued
    <2> QED
      BY <1>3, <2>1, QueuedGrows
  <1>10. t \in topics => happened[t] + 1 \in Queued(t)'
    BY <1>4, <1>5, QueuedGrows
  <1>11. ASSUME NEW x \in Topic, Streamed(x), NEW n \in 1 .. happened'[x]
         PROVE  n \in 1 .. happened[x] \/ n \in Queued(x)'
    <2>1. CASE x = t
      <3>1. t \in topics
        BY <1>11, <2>1 DEF Streamed
      <3>2. n \in 1 .. happened[t] \/ n = happened[t] + 1
        BY <1>2, <1>11, <2>1
      <3> QED
        BY <1>10, <2>1, <3>1, <3>2
    <2>2. CASE x # t
      BY <1>2, <1>11, <2>2
    <2> QED
      BY <2>1, <2>2
  <1>12. \A x : Orders(x)' = Orders(x)
    BY <1>1 DEF Orders, TopicOf
  <1>13. ASSUME NEW e \in map, ~Spared(e)' PROVE Served(e)'
    <2>1. Served(e) /\ (Restored(e) => Restored(e)')
      BY <1>1, <1>6, <1>13 DEF ViewsFit, SparedLast, Restored
    <2> DEFINE o == e.sub
               x == subs[o].topic
    <2>2. x \in Topic /\ Queued(x) \subseteq Queued(x)' /\ subs' = subs
      BY <1>1, <1>9, SubsAreSub DEF RpcInv, TableTyped, Page
    <2>3. Streamed(x) => 1 .. happened'[x] \subseteq (1 .. happened[x]) \cup Queued(x)'
      BY <1>11, <2>2
    <2>4. Queued(subs[o].topic)' = Queued(x)' /\ happened'[subs'[o].topic] = happened'[x]
      BY <2>2
    <2>5. \A shows : Streamed(x) /\ Covers(o, shows) => Covers(o, shows)'
      BY <2>2, <2>3, <2>4 DEF Covers
    <2>6. Streamed(x) /\ Complete(o) => Complete(o)'
      BY <2>2, <2>3, <2>4 DEF Complete
    <2> QED
      BY <1>1, <1>8, <1>12, <2>1, <2>2, <2>5, <2>6, ServedKept
  <1> QED
    BY <1>1, <1>7, <1>13 DEF ViewsFit

(* No entry waits for a restoration when a page subscribes: it is asked    *)
(* for at once, and the others are left alone.                             *)
LEMMA SubscribeViews ==
    ASSUME RpcInv, OneLoop, ViewsFit, SparedLast, NEW t \in Topic, Subscribe(t)
    PROVE  OneLoop' /\ ViewsFit'
  <1> DEFINE old == {e \in map : subs[e.sub].topic = t}
             new == [sub |-> Len(subs) + 1, pos |-> IF old = {} THEN Len(subs) + 1 ELSE (CHOOSE e \in old : TRUE).pos]
             ask == [what |-> "subscribe", sub |-> Len(subs) + 1, loop |-> 0, pos |-> 0, latest |-> TRUE]
             restoring == (state = "authenticated")
  <1>1. /\ jobs = <<>> /\ Len(subs) < MaxSub
        /\ \A r \in requests : r.for.what \in {"subscribe", "refresh"} /\ r.for.loop # 0 => Len(subs) + 1 \in joined'
        /\ map' = (map \ old) \cup {new}
        /\ subs' = Added(t, restoring, old)
        /\ restoring => SendRequest(ask, TRUE, <<>>)
        /\ UNCHANGED <<link, answers, outbox, topics, happened>>
    BY DEF Subscribe, Ask, Added
  <1>2. /\ \A q \in DOMAIN subs : subs'[q] = IF \E e \in old : e.sub = q THEN Fresh(t) ELSE subs[q]
        /\ \A q \in DOMAIN subs : subs'[q].topic = subs[q].topic
        /\ subs'[Len(subs) + 1].topic = t /\ subs'[Len(subs) + 1].restoring = restoring
        /\ Len(subs) + 1 \notin DOMAIN subs
    <2>1. /\ restoring \in BOOLEAN /\ old \subseteq map /\ \A e \in old : subs[e.sub].topic = t
          /\ subs' = Added(t, restoring, old)
      BY <1>1
    <2> HIDE DEF restoring, old
    <2> QED
      BY ONLY RpcInv, t \in Topic, <2>1, AddedFits
  <1>3. PICK n : n = new /\ n.sub = Len(subs) + 1
    <2>1. new.sub = Len(subs) + 1
      OBVIOUS
    <2> HIDE DEF new
    <2> QED
      BY <2>1
  <1>4. \A e \in map : e \in old <=> subs[e.sub].topic = t
    OBVIOUS
  <1>45. PICK p : p = ask
    OBVIOUS
  <1>5. p \in Purpose /\ p.what = "subscribe" /\ p.sub = Len(subs) + 1 /\ p.loop = 0 /\ p.latest = TRUE
    <2>1. Len(subs) + 1 \in Sub
      BY <1>1, SubsAreSub, RpcAssumption DEF Sub
    <2> QED
      BY <1>45, <2>1, PurposesAsked
  <1> HIDE DEF new, old, ask
  <1>6. Serving' <=> Serving
    BY <1>1 DEF Serving, Online, link
  <1> SUFFICES ASSUME Serving PROVE OneLoop' /\ ViewsFit'
    BY <1>6 DEF OneLoop, ViewsFit
  <1>7. Paged(p) /\ Busy(p) /\ Online /\ state = "authenticated" /\ restoring
    BY <1>5 DEF Paged, Busy, Serving
  <1>8. Sends(p)
    BY <1>1, <1>45, <1>7, SendCases
  <1>9. \A q \in requests : Busy(q.for) => (q.for.loop # 0 => p.sub \in joined') /\ q.for.sub \in DOMAIN subs
    BY <1>1, <1>5 DEF Busy, RpcInv, PagesFit, Paged
  <1>10. PICK a : a = Asked(p)
    OBVIOUS
  <1>11. a \in requests' /\ a.for = p /\ a.id = nextId /\ nextId \in Nat
    BY <1>5, <1>7, <1>8, <1>10, SentRequests
  <1>12. \A q \in requests : Busy(q.for) => Apart(p, q.for)'
    <2>1. p.sub \notin DOMAIN subs /\ p.loop = 0
      BY <1>2, <1>5
    <2> SUFFICES ASSUME NEW q \in requests, Busy(q.for) PROVE Apart(p, q.for)'
      OBVIOUS
    <2>2. PICK x : x = q.for
      OBVIOUS
    <2>3. (x.loop # 0 => p.sub \in joined') /\ p.sub # x.sub
      BY <1>9, <2>1, <2>2
    <2> QED
      BY <2>1, <2>2, <2>3 DEF Apart
  <1>13. OneLoop' /\ requests' = requests \cup {a} /\ jobs' = <<>> /\ inbox' = inbox \cup {a}
    <2>1. Busy(p) => p.latest /\ \A q \in requests : Busy(q.for) => Apart(p, q.for)'
      BY <1>5, <1>12
    <2>2. /\ OneLoop' /\ jobs' = <<>>
          /\ p.what # "refresh" => requests' = requests \cup {a}
      BY <1>5, <1>6, <1>8, <1>10, <2>1, OneLoopSent
    <2>3. inbox' = inbox \cup {a}
      BY <1>8, <1>10 DEF Sends
    <2> QED
      BY <1>5, <2>2, <2>3
  <1>14. subs'[p.sub].topic = t
    BY <1>2, <1>5
  <1>15. \A x : /\ x = t => Orders(x)' = Orders(x) \cup {a}
                /\ x # t => Orders(x)' = Orders(x)
    <2>1. topics' = topics /\ p.what = "subscribe" /\ \A o \in DOMAIN subs : subs'[o].topic = subs[o].topic
      BY <1>1, <1>2, <1>5
    <2> QED
      BY <1>5, <1>7, <1>8, <1>10, <1>14, <2>1, SentOrders
  <1>16. ASSUME NEW e \in map, e \notin old, ~Spared(e)' PROVE Served(e)'
    <2>1. e.sub \in DOMAIN subs /\ Served(e) /\ subs[e.sub].topic # t
      BY <1>4, <1>6, <1>16, ServingFits DEF ViewsFit, SparedLast
    <2>2. \A f \in old : f.sub # e.sub
      BY <1>16 DEF RpcInv, MapFits, old
    <2>3. subs'[e.sub] = subs[e.sub]
      BY <1>2, <2>1, <2>2
    <2>4. (\E r \in requests : Leads(r.for, e)) => \E r \in requests' : Leads(r.for, e)
      BY <1>5, <1>7, <1>8, LeadsSent
    <2>5. Restored(e) => Restored(e)'
      BY <1>1, <2>4 DEF Restored
    <2>6. \A r : Busy(r.for) /\ r.for.sub = e.sub => (r \in requests <=> r \in requests')
      BY <1>2, <1>5, <1>11, <1>13, <2>1
    <2>7. Orders(subs[e.sub].topic)' = Orders(subs[e.sub].topic)
      BY <1>15, <2>1, <2>3
    <2> QED
      BY <1>1, <1>13, <2>1, <2>3, <2>5, <2>6, <2>7, ServedUntouched
  <1>17. Served(n)'
    <2>1. \A q \in Orders(t) : q.id <= a.id
      BY <1>11 DEF Orders, RpcInv, ServerFits, SessionTyped, Request
    <2>2. Orders(t)' = Orders(t) \cup {a} /\ a \in inbox' /\ a.id <= a.id
      BY <1>11, <1>13, <1>15
    <2>3. PICK o : o = Len(subs) + 1
      OBVIOUS
    <2>4. subs'[o].topic = t /\ subs'[o].restoring /\ p.sub = o
      BY <1>2, <1>5, <1>7, <2>3
    <2>5. Orders(subs[o].topic)' = Orders(t)'
      BY <2>4
    <2>6. Pursued(o, a)'
      BY <1>5, <1>11, <2>1, <2>2, <2>5 DEF Pursued
    <2>7. InFlight(o)'
      BY <1>7, <1>11, <2>4, <2>6 DEF InFlight
    <2>8. n.sub = o
      BY <1>3, <2>3
    <2> QED
      BY <2>7, <2>8 DEF Served
  <1> QED
    BY <1>1, <1>3, <1>13, <1>16, <1>17 DEF ViewsFit

(* The pages that stay are left alone by one that goes.                    *)
LEMMA UnsubscribeViews ==
    ASSUME RpcInv, OneLoop, ViewsFit, SparedLast, NEW o \in 1 .. Len(subs), Unsubscribe(o)
    PROVE  OneLoop' /\ ViewsFit'
  <1> DEFINE p == [what |-> "unsubscribe", sub |-> o]
             w == Fresh(subs[o].topic)
  <1>1. /\ jobs = <<>> /\ map' = {e \in map : e.sub # o} /\ subs' = [subs EXCEPT ![o] = w]
        /\ state = "authenticated" => SendRequest(p, TRUE, <<>>)
        /\ UNCHANGED <<link, answers, outbox, topics, happened>>
    BY DEF Unsubscribe
  <1>2. PICK c \in map : c.sub = o
    BY DEF Unsubscribe, Current
  <1>3. /\ o \in DOMAIN subs /\ o \in Sub
        /\ \A q \in DOMAIN subs : subs'[q].topic = subs[q].topic /\ (q # o => subs'[q] = subs[q])
    <2>1. o \in DOMAIN subs /\ o \in Sub /\ subs[o] \in Page
      BY SubsAreSub
    <2>2. w \in Page /\ w.topic = subs[o].topic
      BY <2>1 DEF Fresh, Page
    <2> HIDE DEF w
    <2> QED
      BY <1>1, <2>1, <2>2, PageFits
  <1>4. Serving' <=> Serving
    BY <1>1 DEF Serving, Online, link
  <1> SUFFICES ASSUME Serving PROVE OneLoop' /\ ViewsFit'
    BY <1>4 DEF OneLoop, ViewsFit
  <1>5. p \in Purpose /\ p.what = "unsubscribe" /\ p.sub = o /\ Paged(p) /\ ~Busy(p)
    BY <1>3, PurposesAsked DEF Paged, Busy
  <1> HIDE DEF p
  <1>6. Online /\ state = "authenticated"
    BY <1>1 DEF Serving
  <1>7. Sends(p)
    BY <1>1, <1>6, SendCases
  <1>8. PICK a : a = Asked(p)
    OBVIOUS
  <1>9. a.for = p
    BY <1>5, <1>6, <1>7, <1>8, SentRequests
  <1>10. OneLoop' /\ requests' = requests \cup {a} /\ jobs' = <<>> /\ inbox' = inbox \cup {a}
    BY <1>4, <1>5, <1>7, <1>8, OneLoopSent DEF Sends
  <1>11. \A x : x # subs[o].topic => Orders(x)' = Orders(x)
    BY <1>1, <1>3, <1>5, <1>6, <1>7, SentOrders
  <1>12. ASSUME NEW e \in map, e.sub # o, ~Spared(e)' PROVE Served(e)'
    <2>1. e.sub \in DOMAIN subs /\ Served(e) /\ e # c
      BY <1>2, <1>4, <1>12, ServingFits DEF ViewsFit, SparedLast
    <2>2. subs[e.sub].topic # subs[o].topic
      BY <1>2, <2>1 DEF RpcInv, MapFits
    <2>3. subs'[e.sub] = subs[e.sub]
      BY <1>3, <1>12, <2>1
    <2>4. Orders(subs[e.sub].topic)' = Orders(subs[e.sub].topic)
      BY <1>11, <2>2, <2>3
    <2>5. \A r : Busy(r.for) /\ r.for.sub = e.sub => (r \in requests <=> r \in requests')
      BY <1>5, <1>9, <1>10
    <2>6. Restored(e) => Restored(e)'
      BY <1>1, <1>10 DEF Restored
    <2> QED
      BY <1>1, <1>10, <2>1, <2>3, <2>4, <2>5, <2>6, ServedUntouched
  <1> QED
    BY <1>1, <1>10, <1>12 DEF ViewsFit

(* A page keeps its topic, and what excepts it lasts.                      *)
LEMMA TopicsKept ==
    ASSUME RpcInv, [Next]_vars, Serving', NEW o \in DOMAIN subs
    PROVE  subs'[o].topic = subs[o].topic
  <1>1. ~(\/ \E token \in Tokens : Connect(token)
          \/ Dispose \/ Retry \/ TimerFires)
    BY NotServing
  <1>2. CASE UNCHANGED subs
    BY <1>2
  <1>3. ASSUME NEW t \in Topic, Subscribe(t) PROVE subs'[o].topic = subs[o].topic
    <2> DEFINE old == {e \in map : subs[e.sub].topic = t}
               restoring == (state = "authenticated")
    <2>1. /\ restoring \in BOOLEAN /\ old \subseteq map /\ \A e \in old : subs[e.sub].topic = t
          /\ subs' = Added(t, restoring, old)
      BY <1>3 DEF Subscribe, Added
    <2> HIDE DEF restoring, old
    <2> QED
      BY <2>1, AddedFits
  <1>4. ASSUME NEW p \in 1 .. Len(subs), Unsubscribe(p) PROVE subs'[o].topic = subs[o].topic
    <2> DEFINE w == Fresh(subs[p].topic)
    <2>1. p \in DOMAIN subs /\ subs[p] \in Page /\ subs' = [subs EXCEPT ![p] = w]
      BY <1>4, SubsAreSub DEF Unsubscribe
    <2>2. w \in Page /\ w.topic = subs[p].topic
      BY <2>1 DEF Fresh, Page
    <2> HIDE DEF w
    <2> QED
      BY <2>1, <2>2, PageFits
  <1>5. CASE Authenticates \/ Capabilities \/ Unsubscribed
    BY <1>5 DEF Authenticates, Capabilities, Unsubscribed, AuthenticationFails, table
  <1>6. CASE RestoreNext
    BY <1>6, RestoreNextCases
  <1>7. CASE Subscribed
    <2>1. CASE UNCHANGED subs
      BY <2>1
    <2>2. CASE subs' # subs
      <3>1. jobs # <<>> /\ Busy(Job.for) /\ subs' = [subs EXCEPT ![Job.for.sub].restoring = FALSE]
        BY <1>7, <2>2 DEF Subscribed, Runs, Busy
      <3>2. Job.for.sub \in DOMAIN subs /\ subs[Job.for.sub] \in Page
        BY <3>1, BusyFields, SubsAreSub
      <3> QED
        BY <3>1, <3>2 DEF Page
    <2> QED
      BY <2>1, <2>2
  <1>8. CASE Refreshed
    BY <1>8, RefreshedCases
  <1>9. ASSUME NEW s \in Socket, Receive(s) PROVE subs'[o].topic = subs[o].topic
    <2>1. \/ \E r \in requests : Answered(r, Head(outbox))
          \/ Dropped(Head(outbox)) \/ Told(Head(outbox)) \/ Overflows(Head(outbox))
      BY <1>9, ReceiveCases
    <2> QED
      BY <2>1, ToldTopics DEF Answered, Dropped, Overflows
  <1>10. CASE \/ \E s \in Socket : Opens(s) \/ Fails(s) \/ Closes(s) \/ Drops(s) \/ Malformed(s)
              \/ \E r \in requests : TimesOut(r)
              \/ \E r \in inbox : Serve(r)
              \/ \E m \in answers : Reply(m)
              \/ \E t \in Topic : Happens(t)
              \/ UNCHANGED vars
    BY <1>10 DEF Opens, Fails, Closes, Drops, OnClose, Malformed, TimesOut, Serve, Reply, Happens, vars, table
  <1> QED
    BY <1>1, <1>3, <1>4, <1>5, <1>6, <1>7, <1>8, <1>9, <1>10 DEF Next, User, Microtask, Network

(* So no step takes back an exception before the next connection.          *)
LEMMA SparedLasts ==
    ASSUME RpcInv, [Next]_vars
    PROVE  SparedLast
  <1> SUFFICES ASSUME Serving' PROVE joined \subseteq joined' /\ \A e \in map : Spared(e) => Spared(e)'
    BY DEF SparedLast
  <1>1. joined \subseteq joined' /\ overtaken \subseteq overtaken'
    BY HistoryGrows
  <1>2. \A e \in map : e.sub \in DOMAIN subs
    BY DEF RpcInv, TableTyped
  <1> QED
    BY <1>1, <1>2, TopicsKept DEF Spared

(* Every step keeps what the views rest on.                                *)
LEMMA ViewsStep == RpcInv /\ LoopsFit /\ OneLoop /\ ViewsFit /\ [Next]_vars => OneLoop' /\ ViewsFit'
  <1> SUFFICES ASSUME RpcInv, LoopsFit, OneLoop, ViewsFit, [Next]_vars PROVE OneLoop' /\ ViewsFit'
    OBVIOUS
  <1> SparedLast
    BY SparedLasts
  <1>1. CASE \/ \E token \in Tokens : Connect(token)
             \/ Dispose \/ Retry \/ TimerFires
             \/ \E s \in Socket : Opens(s) \/ Malformed(s)
             \/ \E s \in Socket : (Fails(s) \/ Closes(s) \/ Drops(s)) /\ s = generation
    BY <1>1, NotServing DEF OneLoop, ViewsFit
  <1>2. CASE UNCHANGED vars
    <2>1. UNCHANGED <<state, socket, sockets, requests, jobs, subs, map, inbox, topics, answers, outbox, happened>>
      BY <1>2 DEF vars, link, wire, table, session
    <2>2. Serving' <=> Serving
      BY <2>1 DEF Serving, Online
    <2> QED
      BY <2>1, <2>2, ViewsIdle
  <1>3. CASE Microtask
    BY <1>3, AuthenticatesViews, CapabilitiesViews, RestoreNextViews, SubscribedViews, RefreshedViews, UnsubscribedViews
       DEF Microtask
  <1>4. CASE (\E t \in Topic : Subscribe(t)) \/ (\E o \in 1 .. Len(subs) : Unsubscribe(o))
    BY <1>4, SubscribeViews, UnsubscribeViews
  <1>5. ASSUME NEW s \in Socket, Fails(s) \/ Closes(s) \/ Drops(s), s # generation PROVE OneLoop' /\ ViewsFit'
    BY <1>5, EndingViews
  <1>6. ASSUME NEW s \in Socket, Receive(s) PROVE OneLoop' /\ ViewsFit'
    BY <1>6, ReceiveViews
  <1>7. CASE \/ \E r \in requests : TimesOut(r)
             \/ \E r \in inbox : Serve(r)
             \/ \E m \in answers : Reply(m)
             \/ \E t \in Topic : Happens(t)
    BY <1>7, TimesOutViews, ServeViews, ReplyViews, HappensViews
  <1> QED
    BY <1>1, <1>2, <1>3, <1>4, <1>5, <1>6, <1>7 DEF Next, User, Network

(* Once nothing is under way on a connection, every page that is           *)
(* subscribed shows all that has happened on its topic, or an error:       *)
(* restoreSubscription subscribes, then refreshes, and holds notifications *)
(* back until the snapshot is shown. Excepted are pages about whose topic  *)
(* a worker of the server overtook another on this connection              *)
(* (Server.hs:328), and pages that subscribed while a reconnection         *)
(* restored the others (client.ts:272).                                    *)
THEOREM ViewsHold == Spec => []ViewsAreComplete
  <1> DEFINE Strong == StreamsInv /\ OneLoop /\ SeenFits /\ ViewsFit
  <1>1. Init => Strong
    BY DEF Init, StreamsInv, LoopsFit, StreamsFit, OneLoop, ViewsFit, SeenFits, PagesSeen, EventsSeen, JobsSeen, AnswersSeen, Serving, Online
  <1>2. RpcInv /\ Strong /\ [Next]_vars => Strong'
    BY StreamsInvStep, SeenStep, ViewsStep DEF StreamsInv
  <1>3. RpcInv /\ Strong => ViewsAreComplete
    <2> SUFFICES ASSUME RpcInv, SeenFits, ViewsFit, Quiet, NEW e \in map, ~Spared(e)
                 PROVE  subs[e.sub].failed \/ subs[e.sub].view = 1 .. happened[subs[e.sub].topic]
      BY DEF ViewsAreComplete, Spared
    <2>1. Serving /\ jobs = <<>> /\ requests = {} /\ outbox = <<>>
      BY DEF Quiet, Serving
    <2>2. Served(e) /\ ~Restored(e) /\ ~InFlight(e.sub)
      BY <2>1 DEF ViewsFit, Restored, InFlight
    <2>3. subs[e.sub].failed \/ Complete(e.sub)
      BY <2>2 DEF Served, AtRest
    <2>4. Queued(subs[e.sub].topic) = {}
      BY <2>1 DEF Queued
    <2>5. subs[e.sub].view \subseteq 1 .. happened[subs[e.sub].topic]
      BY <2>1, ServingFits DEF SeenFits, PagesSeen
    <2> QED
      BY <2>3, <2>4, <2>5 DEF Complete
  <1> HIDE DEF Strong
  <1> QED
    BY <1>1, <1>2, <1>3, Invariance, PTL DEF Spec
=============================================================================
