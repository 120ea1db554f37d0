----------------------------- MODULE AuditProofs -----------------------------
(***************************************************************************)
(* The console's audit timeline shows what it ought to, for any records,   *)
(* limits, scopes, lost connections and refused requests.                  *)
(*                                                                         *)
(* The argument is an account: as long as the stream is on, each of the    *)
(* newest records of the scope is shown, put apart while the timeline is   *)
(* paused, held back by the subscription, or in the queue of the           *)
(* connection; unless a snapshot that is still to be shown will hold it.   *)
(* A step moves records from one of these places to the next, which        *)
(* Advance says of every handler.                                          *)
(***************************************************************************)
EXTENDS AuditStream, SequenceTheorems, FiniteSetTheorems, TLAPS

(* What the page, its calls and the queue are. *)
Kinds  == {"subscribe", "snapshot"} \cup Detail
Calls  == [what : Kinds, item : {0} \cup Record, since : Nat, latest : BOOLEAN, restores : BOOLEAN,
           got : {"none", "ok", "error", "absent"}, list : SUBSET Record]
Scopes == {"all", "run", "thread", "text"}
Pages  == [conn : {"authenticated", "reconnecting", "failed"}, scope : Scopes, asked : {0} \cup Record,
           state : {"loading", "ready", "error", "unavailable"}, error : BOOLEAN,
           events : SUBSET Record, buffered : SUBSET Record, paused : BOOLEAN,
           chosen : {0} \cup Record, detail : {0} \cup Record, related : {0} \cup Record,
           detailError : BOOLEAN, threadError : BOOLEAN, stream : {"off", "asking", "restoring", "live"},
           held : SUBSET Record, calls : SUBSET Calls]
Records(h) == {<<"record", n>> : n \in 1 .. h}
Tokens     == (({"subscribe", "snapshot", "detail"}) \X BOOLEAN)
Messages(h) == Records(h) \cup Tokens

PageTyped(p, h) ==
    /\ p \in Pages
    /\ p.events \cup p.buffered \cup p.held \subseteq 1 .. h
    /\ \A c \in p.calls : c.list \subseteq 1 .. h

Typed(p, w, h) == PageTyped(p, h) /\ h \in 0 .. Len(RunOf) /\ w \in Seq(Messages(h))

(* A call that restores is the subscription's only one; a snapshot that is  *)
(* to be shown is the only one.                                             *)
Stage(what) == IF what = "subscribe" THEN "asking" ELSE "restoring"

CallsFit(p, s) ==
    /\ \A c \in p.calls : c.restores => p.stream = Stage(c.what)
    /\ \A c, d \in p.calls : c.restores /\ d.restores => c = d
    /\ \A c \in p.calls : c.what = "subscribe" => c.restores /\ (c.got # "none" => s)
    /\ \A c, d \in p.calls : c.what = "snapshot" /\ c.latest /\ d.what = "snapshot" /\ d.latest => c = d
    /\ \A c \in p.calls : c.what = "snapshot" => c.got # "absent"
    /\ p.stream \in {"restoring", "live"} => s

(* The detail is of the chosen record, and so is the latest call about one. *)
ChosenFits(p) ==
    /\ p.detail \in {0, p.chosen} /\ p.related \in {0, p.chosen}
    /\ \A c \in p.calls : c.what \in Detail /\ c.latest => c.item = p.chosen

DetailFits(p) == ChosenFits(p) /\ (p.asked # 0 /\ p.chosen # 0 => p.asked = p.chosen)

(* What a scope may hold back: a search is filtered when it is shown.       *)
Wide(scope, h) == IF scope = "text" THEN 1 .. h ELSE InScope(scope, h)

(* A snapshot to be shown; the scopes whose records are known as they come; *)
(* the newest records of a scope; a record in the queue.                    *)
Fresh(c) == c.what = "snapshot" /\ c.latest
Exact(p) == p.scope \in {"all", "run"}
Newest(scope, h) == {n \in InScope(scope, h) : Cardinality({m \in InScope(scope, h) : m > n}) < LoadedLimit}
Comes(w, n) == \E i \in DOMAIN w : w[i] = <<"record", n>>

(* What the stream held back is not kept once it is released. *)
Level(p) == p.stream = "live" => p.held = {}

ScopeFits(p, h, g) ==
    /\ Level(p)
    /\ ~p.paused => p.buffered = {}
    /\ g = FALSE => p.events \cup p.buffered \subseteq Wide(p.scope, h)
    /\ \A c \in p.calls : Fresh(c) /\ c.got = "ok" =>
          /\ c.list \subseteq InScope(p.scope, h)
          /\ Exact(p) => \A n \in Newest(p.scope, h) : n \in c.list \/ \A m \in c.list : m < n

(* The account.  A snapshot may lack what was stored after it was asked for *)
(* or, once it was answered, what is newer than its records.                *)
Beyond(c, n) == (c.got = "none" /\ n > c.since) \/ (c.got = "ok" /\ \A m \in c.list : m < n)

OnItsWay(p, w, n) == Comes(w, n) \/ n \in p.held
Kept(p, w, n) == OnItsWay(p, w, n) \/ n \in p.events \cup p.buffered
On(p) == p.stream \in {"restoring", "live"}

Accounted(p, w, h, g) ==
    On(p) /\ Exact(p) =>
      /\ g = FALSE /\ p.error = FALSE /\ (\A c \in p.calls : ~Fresh(c)) => \A n \in Newest(p.scope, h) : Kept(p, w, n)
      /\ \A c \in p.calls : Fresh(c) => \A n \in Newest(p.scope, h) : Beyond(c, n) =>
            /\ g = FALSE => Kept(p, w, n)
            /\ c.restores => OnItsWay(p, w, n)

Fits(p, w, h, g, s) ==
    /\ Typed(p, w, h) /\ CallsFit(p, s) /\ DetailFits(p) /\ ScopeFits(p, h, g) /\ Accounted(p, w, h, g)
    /\ g \in BOOLEAN

(* The inductive invariant. *)
AuditInv == Fits(page, wire, happened, gap, streaming)

(* What the handlers do.  None of the calls restores; the same timeline;    *)
(* the same timeline and the same snapshot awaited.                         *)
Idle(p) == \A c \in p.calls : c.restores = FALSE

Same(p, q) ==
    /\ q.conn = p.conn /\ q.scope = p.scope /\ q.error = p.error /\ q.stream = p.stream /\ q.held = p.held
    /\ q.events = p.events /\ q.buffered = p.buffered /\ q.paused = p.paused

Quiet(p, q) == Same(p, q) /\ \A c : Fresh(c) => (c \in q.calls <=> c \in p.calls)

(* The record of a call that is made. *)
Made(what, item, restores) ==
    [what |-> what, item |-> item, since |-> IF what = "snapshot" THEN happened ELSE 0,
     latest |-> TRUE, restores |-> restores, got |-> "none", list |-> {}]

(* Records of ns were shown, or put apart; otherwise the stream went on. *)
Advance(p, q, h, ns) ==
    /\ q.scope = p.scope /\ q.paused = p.paused
    /\ On(q) => On(p)
    /\ q.error = FALSE => p.error = FALSE
    /\ \A c \in q.calls : Fresh(c) => c \in p.calls
    /\ q.error = FALSE /\ (\A c \in q.calls : ~Fresh(c)) => \A c \in p.calls : ~Fresh(c)
    /\ p.held \subseteq q.held \cup ns
    /\ q.stream = "restoring" => p.held \subseteq q.held
    /\ Level(p) => Level(q)
    /\ p.paused => q.events = p.events
    /\ ~p.paused => q.buffered = p.buffered
    /\ p.events \cup p.buffered \subseteq Wide(p.scope, h) => q.events \cup q.buffered \subseteq Wide(p.scope, h)
    /\ Exact(p) /\ ~p.paused /\ p.events \cup p.buffered \subseteq Wide(p.scope, h) =>
         \A n \in Newest(p.scope, h) : n \in p.events \cup ns => n \in q.events

(* The same record is attended to; a call is added. *)
Attends(p, q) == q.asked = p.asked /\ q.chosen = p.chosen /\ q.detail = p.detail /\ q.related = p.related

Adds(p, q, c) == q = [p EXCEPT !.calls = q.calls] /\ q.calls = p.calls \cup {c}

(* The records of ns were received by the page. *)
Received(p, q, h, ns) ==
    /\ q = [p EXCEPT !.events = q.events, !.buffered = q.buffered]
    /\ p.paused => q.events = p.events
    /\ ~p.paused => q.buffered = p.buffered
    /\ p.events \cup p.buffered \subseteq Wide(p.scope, h) => q.events \cup q.buffered \subseteq Wide(p.scope, h)
    /\ Exact(p) /\ ~p.paused /\ p.events \subseteq InScope(p.scope, h) =>
         \A n \in Newest(p.scope, h) : n \in p.events \cup ns => n \in q.events

(* The list of a snapshot is shown, or put apart. *)
Shows(p, q, h, list) ==
    /\ q.scope = p.scope /\ q.stream = p.stream /\ q.held = p.held /\ q.paused = p.paused /\ q.error = FALSE
    /\ q.calls = p.calls
    /\ p.paused => q.events = p.events /\ q.buffered \subseteq p.buffered \cup list
    /\ ~p.paused => q.buffered = p.buffered /\ q.events \subseteq list
    /\ Exact(p) /\ ~p.paused /\ list \subseteq InScope(p.scope, h) =>
         \A n \in Newest(p.scope, h) : n \in list => n \in q.events

(* The page once a snapshot is shown. *)
Loaded(p, list) == [Show(p, list) EXCEPT !.error = FALSE, !.state = "ready"]

(* A snapshot was asked for; if that was impossible, an error is shown. *)
Loading(p, q, restores) ==
    /\ q.asked = p.asked /\ q.chosen = p.chosen
    /\ q.conn = p.conn /\ q.scope = p.scope /\ q.stream = p.stream /\ q.held = p.held
    /\ q.events = p.events /\ q.buffered = p.buffered /\ q.paused = p.paused
    /\ \A c \in q.calls : Fresh(c) => c.restores = restores /\ c.got = "none" /\ c.since = happened
    /\ (\A c \in q.calls : ~Fresh(c)) => q.error = TRUE

(* The page o is p without the call c. *)
Leaves(p, c, o) ==
    /\ o.scope = p.scope /\ o.stream = p.stream /\ o.held = p.held /\ o.paused = p.paused
    /\ o.events = p.events /\ o.buffered = p.buffered /\ o.calls = p.calls \ {c}

(* The subscription was installed anew. *)
Installed(p, q) ==
    /\ q.asked = p.asked /\ q.chosen = p.chosen /\ q.conn = p.conn /\ q.scope = p.scope
    /\ q.events = p.events /\ q.buffered = p.buffered /\ q.paused = p.paused
    /\ ~On(q) /\ \A c \in q.calls : ~Fresh(c)
    /\ p.conn = "reconnecting" => \A c \in q.calls : c.what \in Detail /\ c.latest

-----------------------------------------------------------------------------
(* Sets of records, snapshots, the queue.                                  *)

(* Sets of records are finite. *)
LEMMA RecordsAreFinite ==
    ASSUME NEW h \in Nat, NEW S, S \subseteq 1 .. h
    PROVE  IsFiniteSet(S) /\ Cardinality(S) \in Nat
  <1>1. IsFiniteSet(1 .. h)
    BY FS_Interval
  <1> QED
    BY <1>1, FS_Subset, FS_CardinalityType

(* What is among the newest of a set is kept when a part of it is merged. *)
LEMMA MergeKeepsTheNewest ==
    ASSUME NEW h \in Nat, NEW T, T \subseteq 1 .. h, NEW A, NEW B, A \cup B \subseteq T,
           NEW n \in A \cup B, NEW limit, Cardinality({m \in T : m > n}) < limit, limit \in Nat
    PROVE  n \in Merge(A, B, limit)
  <1> DEFINE U == {m \in T : m > n}
             V == {m \in A \cup B : m > n}
  <1>1. IsFiniteSet(U) /\ Cardinality(U) \in Nat
    BY RecordsAreFinite
  <1>2. V \subseteq U
    OBVIOUS
  <1>3. Cardinality(V) <= Cardinality(U) /\ Cardinality(V) \in Nat
    BY <1>1, <1>2, FS_Subset, FS_CardinalityType
  <1>4. Cardinality(V) < limit
    BY <1>1, <1>3
  <1> QED
    BY <1>4 DEF Merge

(* A merge adds nothing of its own. *)
LEMMA MergeIsAPart == ASSUME NEW A, NEW B, NEW limit PROVE Merge(A, B, limit) \subseteq A \cup B
  BY DEF Merge

(* Records come into a scope in their order. *)
LEMMA ScopeGrows ==
    ASSUME NEW scope, NEW h \in Nat, NEW k \in Nat, k <= h
    PROVE  InScope(scope, k) \subseteq InScope(scope, h) /\ InScope(scope, h) \subseteq 1 .. h
  BY DEF InScope

(* With one record more, what was not among the newest is not. *)
LEMMA NewestShrink ==
    ASSUME NEW scope, NEW h \in Nat, NEW n \in Newest(scope, h + 1), n # h + 1
    PROVE  n \in Newest(scope, h)
  <1> DEFINE U == {m \in InScope(scope, h + 1) : m > n}
             V == {m \in InScope(scope, h) : m > n}
  <1>1. InScope(scope, h) \subseteq InScope(scope, h + 1) /\ InScope(scope, h + 1) \subseteq 1 .. (h + 1)
    BY ScopeGrows
  <1>2. V \subseteq U /\ U \subseteq 1 .. (h + 1)
    BY <1>1
  <1>3. IsFiniteSet(U) /\ Cardinality(U) \in Nat
    BY <1>2, RecordsAreFinite, h + 1 \in Nat
  <1>4. Cardinality(V) <= Cardinality(U) /\ Cardinality(V) \in Nat
    BY <1>2, <1>3, FS_Subset, FS_CardinalityType
  <1>5. Cardinality(U) < LoadedLimit /\ n \in InScope(scope, h + 1)
    BY DEF Newest
  <1>6. n \in InScope(scope, h)
    BY <1>5 DEF InScope
  <1>7. Cardinality(V) < LoadedLimit
    BY <1>3, <1>4, <1>5, AuditAssumption
  <1> QED
    BY <1>6, <1>7 DEF Newest

(* Every answer of the server holds what the newest are until it was read. *)
LEMMA ReadsTheNewest ==
    ASSUME NEW scope, NEW h \in Nat, NEW k \in Nat, k <= h, NEW n \in Newest(scope, h), n <= k
    PROVE  n \in Merge({}, InScope(scope, k), LoadedLimit) /\ n \in InScope(scope, k)
  <1>1. InScope(scope, k) \subseteq InScope(scope, h) /\ InScope(scope, h) \subseteq 1 .. h
    BY ScopeGrows
  <1>2. /\ n \in InScope(scope, h) /\ Cardinality({m \in InScope(scope, h) : m > n}) < LoadedLimit
        /\ LoadedLimit \in Nat
    BY AuditAssumption DEF Newest
  <1>3. n \in InScope(scope, k)
    BY <1>2 DEF InScope
  <1>4. {} \cup InScope(scope, k) \subseteq InScope(scope, h) /\ n \in {} \cup InScope(scope, k)
    BY <1>1, <1>3
  <1> HIDE DEF InScope
  <1> QED
    BY <1>1, <1>2, <1>3, <1>4, MergeKeepsTheNewest

(* A set of numbers within a bound that is not empty has a greatest one. *)
LEMMA Greatest ==
    ASSUME NEW h \in Nat, NEW S, S \subseteq 0 .. h, S # {}
    PROVE  Max(S) \in S /\ \A m \in S : m <= Max(S)
  <1> DEFINE T == {x .. h : x \in S}
  <1>1. IsWellFoundedOn(StrictSubsetOrdering(Nat), FiniteSubsetsOf(Nat))
    BY FS_StrictSubsetOrderingWellFounded
  <1>2. T \subseteq FiniteSubsetsOf(Nat)
    <2> SUFFICES ASSUME NEW x \in S PROVE x .. h \in FiniteSubsetsOf(Nat)
      OBVIOUS
    <2>1. x \in Nat
      OBVIOUS
    <2>2. IsFiniteSet(x .. h)
      BY <2>1, FS_Interval
    <2> QED
      BY <2>1, <2>2 DEF FiniteSubsetsOf
  <1>3. PICK I \in T : \A J \in T : ~ (<<J, I>> \in StrictSubsetOrdering(Nat))
    <2>1. T # {}
      OBVIOUS
    <2> HIDE DEF T
    <2> QED
      BY <1>1, <1>2, <2>1, WFMin
  <1>4. PICK x \in S : I = x .. h
    OBVIOUS
  <1>5. ASSUME NEW y \in S PROVE x >= y
    <2>1. x \in 0 .. h /\ y \in 0 .. h
      OBVIOUS
    <2>2. SUFFICES ASSUME y > x PROVE FALSE
      BY <2>1
    <2>3. y .. h \subseteq x .. h /\ x \in x .. h /\ x \notin y .. h
      BY <2>1, <2>2
    <2>4. y .. h \in T /\ x .. h \in SUBSET Nat /\ y .. h \in SUBSET Nat
      BY <2>1
    <2>5. <<y .. h, x .. h>> \in StrictSubsetOrdering(Nat)
      BY <2>3, <2>4 DEF StrictSubsetOrdering
    <2> QED
      BY <1>3, <1>4, <2>4, <2>5
  <1>6. \E z \in S : \A y \in S : z >= y
    BY <1>5
  <1>7. Max(S) \in S /\ \A m \in S : Max(S) >= m
    <2> HIDE DEF T
    <2> QED
      BY <1>6 DEF Max
  <1>8. \A m \in S : m \in Int
    OBVIOUS
  <1> QED
    BY <1>7, <1>8

(* The messages somebody still waits for are those of the queue. *)
Before(at, i) == Cardinality({j \in at : j < i})

(* Positions in the queue, by the number of those before them. *)
LEMMA PlacesAreAnOrder ==
    ASSUME NEW n \in Nat, NEW S, S \subseteq 1 .. n
    PROVE  /\ Cardinality(S) \in Nat
           /\ \A i \in S : Before(S, i) + 1 \in 1 .. Cardinality(S)
           /\ \A i, j \in S : Before(S, i) = Before(S, j) => i = j
           /\ \A k \in 1 .. Cardinality(S) : \E i \in S : Before(S, i) = k - 1
  <1> DEFINE P(i) == {j \in S : j < i}
             c    == Cardinality(S)
             r    == [i \in S |-> Cardinality(P(i)) + 1]
  <1>1. IsFiniteSet(S) /\ c \in Nat
    BY RecordsAreFinite
  <1>2. ASSUME NEW i \in S PROVE IsFiniteSet(P(i)) /\ Cardinality(P(i)) \in Nat
    BY <1>1, FS_Subset, FS_CardinalityType
  <1>3. ASSUME NEW i \in S PROVE Cardinality(P(i)) + 1 \in 1 .. c
    <2>1. P(i) \subseteq S \ {i}
      OBVIOUS
    <2>2. IsFiniteSet(S \ {i}) /\ Cardinality(S \ {i}) = c - 1
      BY <1>1, FS_RemoveElement
    <2>3. Cardinality(P(i)) <= c - 1
      BY <2>1, <2>2, FS_Subset
    <2> HIDE DEF P
    <2> QED
      BY <1>1, <1>2, <2>3
  <1>4. ASSUME NEW i \in S, NEW j \in S, i < j PROVE Cardinality(P(i)) < Cardinality(P(j))
    <2> i \in Int /\ j \in Int /\ \A k \in S : k \in Int
      OBVIOUS
    <2>1. P(i) \cup {i} \subseteq P(j) /\ i \notin P(i)
      <3>1. i \in P(j) /\ i \notin P(i)
        BY <1>4
      <3>2. ASSUME NEW x \in P(i) PROVE x \in P(j)
        <4>1. x \in S /\ x < i /\ x \in Int
          OBVIOUS
        <4>2. x < j
          BY <1>4, <4>1
        <4> QED
          BY <4>1, <4>2
      <3> HIDE DEF P
      <3> QED
        BY <3>1, <3>2
    <2>2. /\ IsFiniteSet(P(i) \cup {i})
          /\ Cardinality(P(i) \cup {i}) = Cardinality(P(i)) + 1
      BY <1>2, <2>1, FS_AddElement
    <2>3. Cardinality(P(i) \cup {i}) <= Cardinality(P(j))
      BY <1>2, <2>1, FS_Subset
    <2> HIDE DEF P
    <2> QED
      BY <1>2, <2>2, <2>3
  <1>5. r \in Injection(S, 1 .. c)
    <2>1. r \in [S -> 1 .. c]
      BY <1>3
    <2>2. ASSUME NEW i \in S, NEW j \in S, r[i] = r[j] PROVE i = j
      <3>1. i < j \/ j < i \/ i = j
        OBVIOUS
      <3>2. Cardinality(P(i)) \in Nat /\ Cardinality(P(j)) \in Nat
        BY <1>2
      <3>3. Cardinality(P(i)) + 1 = Cardinality(P(j)) + 1
        BY <2>2
      <3> HIDE DEF P
      <3> QED
        BY <1>4, <3>1, <3>2, <3>3
    <2> QED
      BY <2>1, <2>2 DEF Injection, IsInjective
  <1>6. r \in Surjection(S, 1 .. c)
    <2>1. IsFiniteSet(1 .. c) /\ Cardinality(1 .. c) = c
      BY <1>1, FS_Interval
    <2> HIDE DEF r
    <2> QED
      BY <1>5, <2>1, FS_Injection
  <1>7. \A k \in 1 .. c : \E i \in S : r[i] = k
    BY <1>6 DEF Surjection
  <1>8. \A i, j \in S : r[i] = r[j] => i = j
    BY <1>5 DEF Injection, IsInjective
  <1>9. \A i \in S : Before(S, i) \in Nat /\ r[i] = Before(S, i) + 1 /\ r[i] \in 1 .. c
    BY <1>2, <1>3 DEF Before
  <1> HIDE DEF r
  <1>10. \A i, j \in S : Before(S, i) = Before(S, j) => i = j
    BY <1>8, <1>9
  <1>11. \A k \in 1 .. c : \E i \in S : Before(S, i) = k - 1
    BY <1>1, <1>7, <1>9
  <1> QED
    BY <1>1, <1>9, <1>10, <1>11

(* What somebody waits for is of the queue, and no record is taken out. *)
LEMMA AwaitedIsAPart ==
    ASSUME NEW M, NEW w \in Seq(M), NEW p
    PROVE  Awaited(w, p) \in Seq(M) /\ \A n : Comes(w, n) => Comes(Awaited(w, p), n)
  <1> DEFINE kinds == {Kind(c) : c \in {d \in p.calls : d.got # "none"}}
             at    == {i \in DOMAIN w : w[i][1] = "record" \/ w[i] \in kinds}
             c     == Cardinality(at)
             At(k) == CHOOSE i \in at : Before(at, i) = k - 1
  <1>1. Len(w) \in Nat /\ DOMAIN w = 1 .. Len(w) /\ \A i \in 1 .. Len(w) : w[i] \in M
    BY LenProperties, ElementOfSeq
  <1>2. at \subseteq 1 .. Len(w)
    BY <1>1
  <1>3. Awaited(w, p) = [k \in 1 .. c |-> w[At(k)]]
    BY DEF Awaited, Before
  <1>4. \A i : w[i] = <<"record", i>> => w[i][1] = "record"
    OBVIOUS
  <1> HIDE DEF kinds
  <1>5. ASSUME NEW n, Comes(w, n) PROVE \E i \in at : w[i] = <<"record", n>>
    BY <1>5 DEF Comes
  <1> HIDE DEF at
  <1>6. /\ c \in Nat
        /\ \A i \in at : Before(at, i) + 1 \in 1 .. c
        /\ \A i, j \in at : Before(at, i) = Before(at, j) => i = j
        /\ \A k \in 1 .. c : \E i \in at : Before(at, i) = k - 1
    BY <1>1, <1>2, PlacesAreAnOrder
  <1>7. \A k \in 1 .. c : At(k) \in at /\ Before(at, At(k)) = k - 1
    BY <1>6
  <1>8. ASSUME NEW i \in at PROVE Before(at, i) + 1 \in 1 .. c /\ At(Before(at, i) + 1) = i
    <2>1. Before(at, i) + 1 \in 1 .. c
      BY <1>6
    <2>2. At(Before(at, i) + 1) \in at /\ Before(at, At(Before(at, i) + 1)) = (Before(at, i) + 1) - 1
      BY <1>7, <2>1
    <2>3. Before(at, i) \in Nat
      <3>1. {j \in at : j < i} \subseteq 1 .. Len(w)
        BY <1>2
      <3> QED
        BY <1>1, <3>1, RecordsAreFinite DEF Before
    <2>4. Before(at, At(Before(at, i) + 1)) = Before(at, i)
      BY <2>2, <2>3
    <2> HIDE DEF At
    <2> QED
      BY <1>6, <2>1, <2>2, <2>4
  <1> HIDE DEF At, c
  <1>9. Awaited(w, p) \in [1 .. c -> M]
    BY <1>1, <1>2, <1>3, <1>7
  <1>10. Awaited(w, p) \in Seq(M)
    BY <1>6, <1>9, SeqDef
  <1>11. ASSUME NEW n, Comes(w, n) PROVE Comes(Awaited(w, p), n)
    <2>1. PICK i \in at : w[i] = <<"record", n>>
      BY <1>5, <1>11
    <2>2. Awaited(w, p)[Before(at, i) + 1] = <<"record", n>> /\ Before(at, i) + 1 \in DOMAIN Awaited(w, p)
      BY <1>3, <1>8, <2>1
    <2> QED
      BY <2>2 DEF Comes
  <1> QED
    BY <1>10, <1>11

(* Queueing and taking. *)
LEMMA AppendKeeps ==
    ASSUME NEW M, NEW w \in Seq(M), NEW m \in M
    PROVE  /\ Append(w, m) \in Seq(M)
           /\ \A n : (Comes(w, n) \/ m = <<"record", n>>) => Comes(Append(w, m), n)
  <1>1. Len(w) \in Nat /\ DOMAIN w = 1 .. Len(w)
    BY LenProperties
  <1>2. /\ Append(w, m) \in Seq(M) /\ Len(Append(w, m)) = Len(w) + 1
        /\ \A i \in 1 .. Len(w) : Append(w, m)[i] = w[i]
        /\ Append(w, m)[Len(w) + 1] = m
    BY <1>1
  <1>3. DOMAIN Append(w, m) = 1 .. (Len(w) + 1)
    BY <1>2, LenProperties
  <1>4. ASSUME NEW n, Comes(w, n) PROVE Comes(Append(w, m), n)
    BY <1>1, <1>2, <1>3, <1>4 DEF Comes
  <1>5. ASSUME NEW n, m = <<"record", n>> PROVE Comes(Append(w, m), n)
    BY <1>1, <1>2, <1>3, <1>5 DEF Comes
  <1> QED
    BY <1>2, <1>4, <1>5

(* Taking the head leaves every other record in the queue. *)
LEMMA TailKeeps ==
    ASSUME NEW M, NEW w \in Seq(M), w # <<>>
    PROVE  /\ Tail(w) \in Seq(M) /\ Head(w) \in M
           /\ \A n : Comes(w, n) => Comes(Tail(w), n) \/ Head(w) = <<"record", n>>
  <1>1. Len(w) \in Nat \ {0} /\ DOMAIN w = 1 .. Len(w)
    BY LenProperties, EmptySeq
  <1>2. /\ Tail(w) \in Seq(M) /\ Head(w) \in M /\ Len(Tail(w)) = Len(w) - 1
        /\ \A i \in 1 .. Len(Tail(w)) : Tail(w)[i] = w[i + 1]
    BY HeadTailProperties
  <1>3. DOMAIN Tail(w) = 1 .. (Len(w) - 1) /\ Head(w) = w[1]
    BY <1>2, LenProperties
  <1>4. ASSUME NEW n, Comes(w, n), Head(w) # <<"record", n>> PROVE Comes(Tail(w), n)
    <2>1. PICK i \in 1 .. Len(w) : w[i] = <<"record", n>>
      BY <1>1, <1>4 DEF Comes
    <2>2. i # 1
      BY <1>3, <1>4, <2>1
    <2>3. i - 1 \in 1 .. (Len(w) - 1) /\ (i - 1) + 1 = i
      BY <1>1, <2>2
    <2>4. Tail(w)[i - 1] = w[i]
      BY <1>2, <2>3
    <2> QED
      BY <1>3, <2>1, <2>3, <2>4 DEF Comes
  <1> QED
    BY <1>2, <1>4

-----------------------------------------------------------------------------
(* The handlers of the page: calls.                                        *)

(* Earlier calls are made stale or forgotten; the others stay. *)
LEMMA BeginFits ==
    ASSUME NEW h, NEW s, NEW p, PageTyped(p, h), CallsFit(p, s), NEW whats, NEW q, q = Begin(p, whats)
    PROVE  /\ PageTyped(q, h) /\ CallsFit(q, s) /\ q = [p EXCEPT !.calls = q.calls]
           /\ \A c \in q.calls : c.what \in whats => c.latest = FALSE
           /\ \A c : c.what \notin whats => (c \in q.calls <=> c \in p.calls)
           /\ Idle(p) => Idle(q)
  <1> DEFINE Stale(c) == [c EXCEPT !.latest = @ /\ c.what \notin whats]
             C == {Stale(c) : c \in {d \in p.calls : d.what \notin whats \/ d.restores}}
  <1>1. p \in Pages /\ p.calls \subseteq Calls
    BY DEF PageTyped, Pages
  <1>2. q = [p EXCEPT !.calls = C]
    BY DEF Begin
  <1>3. ASSUME NEW c \in Calls
        PROVE  /\ Stale(c) \in Calls /\ Stale(c).what = c.what /\ Stale(c).item = c.item /\ Stale(c).since = c.since
               /\ Stale(c).restores = c.restores /\ Stale(c).got = c.got /\ Stale(c).list = c.list
               /\ c.what \in whats => Stale(c).latest = FALSE
               /\ c.what \notin whats => Stale(c) = c
    BY DEF Calls
  <1>4. q.calls = C /\ q.stream = p.stream /\ q.events = p.events /\ q.buffered = p.buffered /\ q.held = p.held
    BY <1>1, <1>2 DEF Pages
  <1> HIDE DEF Stale
  <1>5. ASSUME NEW e \in C
        PROVE  \E c \in p.calls : /\ e = Stale(c) /\ c \in Calls /\ e.what = c.what /\ e.restores = c.restores
                                  /\ e.got = c.got /\ e.list = c.list
                                  /\ c.what \in whats => e.latest = FALSE
                                  /\ c.what \notin whats => e = c
    <2>1. PICK c \in p.calls : e = Stale(c)
      OBVIOUS
    <2>2. c \in Calls
      BY <1>1
    <2> HIDE DEF C
    <2> QED
      BY <1>3, <2>1, <2>2
  <1>6. ASSUME NEW c \in p.calls, c.what \notin whats PROVE c \in C
    <2>1. c \in Calls /\ Stale(c) = c
      BY <1>1, <1>3, <1>6
    <2> QED
      BY <1>6, <2>1
  <1> HIDE DEF C
  <1>7. C \subseteq Calls
    BY <1>1, <1>3, <1>5
  <1>8. q \in Pages
    BY <1>1, <1>2, <1>7 DEF Pages
  <1>9. PageTyped(q, h)
    BY <1>4, <1>5, <1>8 DEF PageTyped
  <1>10. ASSUME NEW e \in C, e.what \notin whats PROVE e \in p.calls
    BY <1>5, <1>10
  <1>11. ASSUME NEW e \in C, e.what \in whats PROVE e.latest = FALSE
    BY <1>5, <1>11
  <1>12. CallsFit(q, s)
    <2>1. ASSUME NEW e \in C, e.restores PROVE p.stream = Stage(e.what)
      <3>1. PICK c \in p.calls : e.what = c.what /\ e.restores = c.restores /\ e.got = c.got
        BY <1>5
      <3> QED
        BY <2>1, <3>1 DEF CallsFit
    <2>2. ASSUME NEW e \in C, NEW f \in C, e.restores, f.restores PROVE e = f
      <3>1. PICK c \in p.calls : e = Stale(c) /\ e.restores = c.restores
        BY <1>5
      <3>2. PICK d \in p.calls : f = Stale(d) /\ f.restores = d.restores
        BY <1>5
      <3>3. c = d
        BY <2>2, <3>1, <3>2 DEF CallsFit
      <3> QED
        BY <3>1, <3>2, <3>3
    <2>3. ASSUME NEW e \in C, e.what = "subscribe" PROVE e.restores /\ (e.got # "none" => s)
      <3>1. PICK c \in p.calls : e.what = c.what /\ e.restores = c.restores /\ e.got = c.got
        BY <1>5
      <3> QED
        BY <2>3, <3>1 DEF CallsFit
    <2>4. ASSUME NEW e \in C, NEW f \in C, e.what = "snapshot", e.latest, f.what = "snapshot", f.latest PROVE e = f
      BY <1>10, <1>11, <2>4 DEF CallsFit
    <2>5. ASSUME NEW e \in C, e.what = "snapshot" PROVE e.got # "absent"
      <3>1. PICK c \in p.calls : e.what = c.what /\ e.restores = c.restores /\ e.got = c.got
        BY <1>5
      <3> QED
        BY <2>5, <3>1 DEF CallsFit
    <2> QED
      BY <1>4, <2>1, <2>2, <2>3, <2>4, <2>5 DEF CallsFit
  <1>13. Idle(p) => Idle(q)
    BY <1>4, <1>5 DEF Idle
  <1> QED
    BY <1>2, <1>4, <1>6, <1>9, <1>10, <1>11, <1>12, <1>13

(* A call is added. *)
LEMMA CallFits ==
    ASSUME NEW h, NEW s, NEW p, PageTyped(p, h), CallsFit(p, s), happened \in Nat,
           NEW what \in Kinds, NEW item \in {0} \cup Record, NEW restores \in BOOLEAN,
           restores => Idle(p) /\ p.stream = Stage(what),
           what = "subscribe" => restores,
           what = "snapshot" => \A c \in p.calls : ~Fresh(c),
           NEW q, q = Call(p, what, item, restores)
    PROVE  PageTyped(q, h) /\ CallsFit(q, s) /\ Adds(p, q, Made(what, item, restores))
  <1> DEFINE new == Made(what, item, restores)
  <1>1. p \in Pages /\ p.calls \subseteq Calls
    BY DEF PageTyped, Pages
  <1>2. q = [p EXCEPT !.calls = p.calls \cup {new}]
    BY DEF Call, Made
  <1>3. /\ new \in Calls /\ new.what = what /\ new.item = item /\ new.latest = TRUE /\ new.restores = restores
        /\ new.got = "none" /\ (what = "snapshot" => new.since = happened) /\ new.list = {}
    BY DEF Calls, Made
  <1> HIDE DEF new
  <1>4. q \in Pages /\ q.calls = p.calls \cup {new} /\ q = [p EXCEPT !.calls = q.calls]
        /\ q.stream = p.stream /\ q.events = p.events /\ q.buffered = p.buffered /\ q.held = p.held
    BY <1>1, <1>2, <1>3 DEF Pages
  <1>5. PageTyped(q, h)
    BY <1>3, <1>4 DEF PageTyped
  <1>6. CallsFit(q, s)
    <2>1. ASSUME NEW e \in q.calls, NEW f \in q.calls, e.restores, f.restores PROVE e = f
      BY <1>3, <1>4, <2>1 DEF CallsFit, Idle
    <2>2. ASSUME NEW e \in q.calls, NEW f \in q.calls, e.what = "snapshot", e.latest, f.what = "snapshot", f.latest
          PROVE  e = f
      BY <1>3, <1>4, <2>2 DEF CallsFit, Fresh
    <2>3. \A e \in q.calls : e.restores => q.stream = Stage(e.what)
      BY <1>3, <1>4 DEF CallsFit
    <2>4. \A e \in q.calls : e.what = "subscribe" => e.restores /\ (e.got # "none" => s)
      BY <1>3, <1>4 DEF CallsFit
    <2>5. \A e \in q.calls : e.what = "snapshot" => e.got # "absent"
      BY <1>3, <1>4 DEF CallsFit
    <2>6. q.stream \in {"restoring", "live"} => s
      BY <1>3, <1>4 DEF CallsFit
    <2> QED
      BY <2>1, <2>2, <2>3, <2>4, <2>5, <2>6 DEF CallsFit
  <1> QED
    BY <1>4, <1>5, <1>6 DEF new, Adds

(* Another record is shown; the stream goes on as it was. *)
LEMMA LoadSelectionFits ==
    ASSUME NEW h, NEW s, NEW p, PageTyped(p, h), CallsFit(p, s), happened \in Nat,
           NEW n \in Record, NEW restores \in BOOLEAN,
           restores => Idle(p) /\ p.stream = "restoring",
           NEW q, q = LoadSelection(p, n, restores)
    PROVE  /\ PageTyped(q, h) /\ CallsFit(q, s) /\ Quiet(p, q) /\ ChosenFits(q)
           /\ q.chosen = n /\ q.asked = p.asked /\ (~restores /\ Idle(p) => Idle(q))
  <1> DEFINE b == Begin(p, Detail)
             r == [b EXCEPT !.chosen = n, !.detail = 0, !.related = 0, !.detailError = FALSE, !.threadError = FALSE]
  <1>1. /\ PageTyped(b, h) /\ CallsFit(b, s) /\ b = [p EXCEPT !.calls = b.calls]
        /\ \A c \in b.calls : c.what \in Detail => c.latest = FALSE
        /\ \A c : c.what \notin Detail => (c \in b.calls <=> c \in p.calls)
        /\ Idle(p) => Idle(b)
    BY BeginFits
  <1>2. q = IF Live(p) THEN Call(r, "get", n, restores) ELSE [r EXCEPT !.detailError = TRUE]
    BY DEF LoadSelection
  <1> HIDE DEF b
  <1>3. /\ b \in Pages /\ p \in Pages
    BY <1>1 DEF PageTyped
  <1>4. /\ r \in Pages /\ r.calls = b.calls /\ Same(b, r) /\ r.chosen = n /\ r.detail = 0 /\ r.related = 0
        /\ r.asked = b.asked
    BY <1>3 DEF Pages, Same
  <1>5. Same(p, b) /\ b.asked = p.asked
    BY <1>1, <1>3 DEF Pages, Same
  <1> HIDE DEF r
  <1>6. PageTyped(r, h) /\ CallsFit(r, s)
    BY <1>1, <1>4 DEF PageTyped, CallsFit, Same
  <1>7. /\ Same(p, r) /\ r.asked = p.asked /\ (Idle(p) => Idle(r)) /\ ChosenFits(r)
        /\ \A c : Fresh(c) => (c \in r.calls <=> c \in p.calls)
    BY <1>1, <1>4, <1>5 DEF Same, Idle, Fresh, ChosenFits, Detail
  <1>8. CASE Live(p)
    <2>1. q = Call(r, "get", n, restores)
      BY <1>2, <1>8
    <2>2. /\ "get" \in Kinds /\ n \in {0} \cup Record /\ ("get" = "subscribe" => restores)
          /\ "get" = "snapshot" => \A c \in r.calls : ~Fresh(c)
          /\ restores => Idle(r) /\ r.stream = Stage("get")
      BY <1>7 DEF Kinds, Detail, Same, Stage
    <2>3. /\ PageTyped(q, h) /\ CallsFit(q, s) /\ q = [r EXCEPT !.calls = q.calls]
          /\ q.calls = r.calls \cup {Made("get", n, restores)}
      <3>1. PageTyped(q, h) /\ CallsFit(q, s) /\ Adds(r, q, Made("get", n, restores))
        BY <1>6, <2>1, <2>2, CallFits
      <3> QED
        BY <3>1 DEF Adds
    <2>6. LET c == Made("get", n, restores)
          IN  c.what = "get" /\ c.item = n /\ c.restores = restores
      BY DEF Made
    <2>4. Same(r, q) /\ q.asked = r.asked /\ q.chosen = n /\ q.detail = 0 /\ q.related = 0
      BY <1>4, <2>3 DEF Pages, Same
    <2>5. ChosenFits(q) /\ (\A c : Fresh(c) => (c \in q.calls <=> c \in r.calls)) /\ (~restores /\ Idle(r) => Idle(q))
      BY <1>4, <1>7, <2>3, <2>6, <2>4 DEF ChosenFits, Fresh, Idle
    <2> QED
      BY <1>7, <2>3, <2>4, <2>5 DEF Quiet, Same
  <1>9. CASE ~Live(p)
    <2>1. q = [r EXCEPT !.detailError = TRUE]
      BY <1>2, <1>9
    <2>2. /\ q \in Pages /\ q.calls = r.calls /\ Same(r, q) /\ q.asked = r.asked /\ q.chosen = n /\ q.detail = 0 /\ q.related = 0
      BY <1>4, <2>1 DEF Pages, Same
    <2>3. PageTyped(q, h) /\ CallsFit(q, s) /\ ChosenFits(q) /\ (Idle(r) => Idle(q))
      BY <1>4, <1>6, <1>7, <2>2 DEF PageTyped, CallsFit, ChosenFits, Same, Idle
    <2> QED
      BY <1>7, <2>2, <2>3 DEF Quiet, Same
  <1> QED
    BY <1>8, <1>9

(* The timeline is asked for: one snapshot is awaited, or an error is shown. *)
LEMMA LoadSnapshotFits ==
    ASSUME NEW h, NEW s, NEW p, PageTyped(p, h), CallsFit(p, s), happened \in Nat, NEW restores \in BOOLEAN,
           restores => Idle(p) /\ p.stream = "restoring",
           NEW q, q = LoadSnapshot(p, restores)
    PROVE  PageTyped(q, h) /\ CallsFit(q, s) /\ (ChosenFits(p) => ChosenFits(q)) /\ Loading(p, q, restores)
  <1> DEFINE b == Begin(p, {"snapshot"})
  <1>1. /\ PageTyped(b, h) /\ CallsFit(b, s) /\ b = [p EXCEPT !.calls = b.calls]
        /\ \A c \in b.calls : c.what \in {"snapshot"} => c.latest = FALSE
        /\ \A c : c.what \notin {"snapshot"} => (c \in b.calls <=> c \in p.calls)
        /\ Idle(p) => Idle(b)
    BY BeginFits
  <1>2. q = IF Live(p) THEN Call(b, "snapshot", 0, restores) ELSE NotLoaded(b)
    BY DEF LoadSnapshot
  <1> HIDE DEF b
  <1>3. b \in Pages /\ p \in Pages
    BY <1>1 DEF PageTyped
  <1>4. /\ b.asked = p.asked /\ b.chosen = p.chosen /\ b.detail = p.detail /\ b.related = p.related
        /\ b.conn = p.conn /\ b.scope = p.scope /\ b.stream = p.stream /\ b.held = p.held
        /\ b.events = p.events /\ b.buffered = p.buffered /\ b.paused = p.paused
    BY <1>1, <1>3 DEF Pages
  <1>5. (\A c \in b.calls : ~Fresh(c)) /\ (ChosenFits(p) => ChosenFits(b))
    BY <1>1, <1>4 DEF Fresh, ChosenFits, Detail
  <1>6. CASE Live(p)
    <2>1. q = Call(b, "snapshot", 0, restores)
      BY <1>2, <1>6
    <2> PICK what : what = "snapshot"
      OBVIOUS
    <2> PICK item : item = 0
      OBVIOUS
    <2>2. /\ what \in Kinds /\ item \in {0} \cup Record /\ (what = "subscribe" => restores)
          /\ what = "snapshot" => \A c \in b.calls : ~Fresh(c)
          /\ restores => Idle(b) /\ b.stream = Stage(what)
          /\ q = Call(b, what, item, restores)
      BY <1>1, <1>4, <1>5, <2>1 DEF Kinds, Stage
    <2>9. PageTyped(q, h) /\ CallsFit(q, s) /\ Adds(b, q, Made(what, item, restores))
      BY <1>1, <2>2, CallFits
    <2>3. /\ PageTyped(q, h) /\ CallsFit(q, s) /\ q = [b EXCEPT !.calls = q.calls]
          /\ q.calls = b.calls \cup {Made("snapshot", 0, restores)}
      BY <2>9 DEF Adds
    <2>4. LET c == Made("snapshot", 0, restores)
          IN  c.what = "snapshot" /\ c.latest = TRUE /\ c.restores = restores /\ c.got = "none" /\ c.since = happened
      BY DEF Made
    <2>5. /\ q.asked = b.asked /\ q.chosen = b.chosen /\ q.detail = b.detail /\ q.related = b.related
          /\ q.conn = b.conn /\ q.scope = b.scope /\ q.stream = b.stream /\ q.held = b.held
          /\ q.events = b.events /\ q.buffered = b.buffered /\ q.paused = b.paused
      BY <1>3, <2>3 DEF Pages
    <2>6. ChosenFits(b) => ChosenFits(q)
      BY <2>3, <2>4, <2>5 DEF ChosenFits, Detail
    <2>7. \A c \in q.calls : Fresh(c) => c.restores = restores /\ c.got = "none" /\ c.since = happened
      BY <1>5, <2>3, <2>4
    <2>8. \E c \in q.calls : Fresh(c)
      BY <2>3, <2>4 DEF Fresh
    <2> QED
      BY <1>4, <1>5, <2>3, <2>5, <2>6, <2>7, <2>8 DEF Loading
  <1>7. CASE ~Live(p)
    <2>1. q = [b EXCEPT !.error = TRUE, !.state = IF @ = "ready" THEN @ ELSE "error"]
      BY <1>2, <1>7 DEF NotLoaded
    <2>2. q \in Pages /\ q.calls = b.calls /\ q.error = TRUE
      BY <1>3, <2>1 DEF Pages
    <2>3. /\ q.asked = b.asked /\ q.chosen = b.chosen /\ q.detail = b.detail /\ q.related = b.related
          /\ q.conn = b.conn /\ q.scope = b.scope /\ q.stream = b.stream /\ q.held = b.held
          /\ q.events = b.events /\ q.buffered = b.buffered /\ q.paused = b.paused
      BY <1>3, <2>1 DEF Pages
    <2>4. PageTyped(q, h) /\ CallsFit(q, s) /\ (ChosenFits(b) => ChosenFits(q))
      BY <1>1, <2>2, <2>3 DEF PageTyped, CallsFit, ChosenFits
    <2> QED
      BY <1>4, <1>5, <2>2, <2>3, <2>4 DEF Loading
  <1> QED
    BY <1>6, <1>7

(* Records are received. *)
LEMMA ReceiveAllFits ==
    ASSUME NEW h \in 0 .. Len(RunOf), NEW p, PageTyped(p, h), NEW ns, ns \subseteq 1 .. h, NEW q, q = ReceiveAll(p, ns)
    PROVE  PageTyped(q, h) /\ Received(p, q, h, ns)
  <1> DEFINE in == {n \in ns : Receives(p, n)}
  <1>1. p \in Pages /\ p.events \cup p.buffered \subseteq 1 .. h /\ p.events \subseteq Record /\ p.buffered \subseteq Record
    BY DEF PageTyped, Pages
  <1>2. q = IF p.paused THEN [p EXCEPT !.buffered = Merge(p.buffered, in, BufferedLimit)]
                        ELSE [p EXCEPT !.events = Merge(p.events, in, LoadedLimit)]
    BY DEF ReceiveAll
  <1>3. in \subseteq 1 .. h
    OBVIOUS
  <1>4. in \subseteq Record /\ h \in Nat
    <2>1. Len(RunOf) \in Nat /\ Record = 1 .. Len(RunOf)
      BY LenProperties, AuditAssumption DEF Record
    <2>2. h \in Nat /\ 1 .. h \subseteq Record
      BY <2>1
    <2> QED
      BY <1>3, <2>2
  <1>5. p.events \subseteq Wide(p.scope, h) => in \subseteq Wide(p.scope, h)
    <2> SUFFICES ASSUME p.events \subseteq Wide(p.scope, h), NEW n \in ns, Receives(p, n) PROVE n \in Wide(p.scope, h)
      OBVIOUS
    <2>1. p.scope \in Scopes
      BY <1>1 DEF Pages
    <2>2. CASE p.scope = "text"
      BY <2>2 DEF Wide
    <2>3. CASE p.scope = "all"
      BY <2>3 DEF Wide, InScope, Matches
    <2>4. CASE p.scope = "run"
      BY <2>4 DEF Wide, InScope, Matches, Receives
    <2>5. CASE p.scope = "thread"
      <3>1. PICK e \in p.events : RunOf[e] = RunOf[n]
        BY <2>5 DEF Receives
      <3>2. RunOf[e] \in {"a", "b"}
        BY <2>5 DEF Wide, InScope, Matches
      <3> QED
        BY <2>5, <3>1, <3>2 DEF Wide, InScope, Matches
    <2> QED
      BY <2>1, <2>2, <2>3, <2>4, <2>5 DEF Scopes
  <1>6. CASE p.paused
    <2> DEFINE B == Merge(p.buffered, in, BufferedLimit)
    <2>1. q = [p EXCEPT !.buffered = B] /\ B \subseteq p.buffered \cup in
      BY <1>2, <1>6, MergeIsAPart
    <2> HIDE DEF B, in
    <2>2. q \in Pages /\ q.buffered = B /\ q.events = p.events /\ q.held = p.held /\ q.calls = p.calls
      BY <1>1, <1>4, <2>1 DEF Pages
    <2>3. PageTyped(q, h)
      BY <1>1, <1>3, <2>1, <2>2 DEF PageTyped
    <2>4. q = [p EXCEPT !.events = q.events, !.buffered = q.buffered]
      BY <1>1, <2>1, <2>2 DEF Pages
    <2> QED
      BY <1>5, <1>6, <2>1, <2>2, <2>3, <2>4 DEF Received
  <1>7. CASE ~p.paused
    <2> DEFINE E == Merge(p.events, in, LoadedLimit)
    <2>1. q = [p EXCEPT !.events = E] /\ E \subseteq p.events \cup in
      BY <1>2, <1>7, MergeIsAPart
    <2>5. ASSUME Exact(p), p.events \subseteq InScope(p.scope, h), NEW n \in Newest(p.scope, h), n \in p.events \cup ns
          PROVE  n \in E
      <3>1. Wide(p.scope, h) = InScope(p.scope, h)
        BY <2>5 DEF Exact, Wide
      <3>2. p.events \cup in \subseteq InScope(p.scope, h)
        BY <1>5, <2>5, <3>1
      <3>3. n \in InScope(p.scope, h) /\ Cardinality({m \in InScope(p.scope, h) : m > n}) < LoadedLimit
        BY <2>5 DEF Newest
      <3>4. n \in p.events \cup in
        BY <2>5, <3>3 DEF Exact, Receives, InScope, Matches
      <3>5. InScope(p.scope, h) \subseteq 1 .. h /\ LoadedLimit \in Nat
        BY AuditAssumption DEF InScope
      <3> HIDE DEF in
      <3> QED
        BY <1>4, <3>2, <3>3, <3>4, <3>5, MergeKeepsTheNewest
    <2> HIDE DEF E, in
    <2>2. q \in Pages /\ q.buffered = p.buffered /\ q.events = E /\ q.held = p.held /\ q.calls = p.calls
      BY <1>1, <1>4, <2>1 DEF Pages
    <2>3. PageTyped(q, h)
      BY <1>1, <1>3, <2>1, <2>2 DEF PageTyped
    <2>4. q = [p EXCEPT !.events = q.events, !.buffered = q.buffered]
      BY <1>1, <2>1, <2>2 DEF Pages
    <2> QED
      BY <1>5, <1>7, <2>1, <2>2, <2>3, <2>4, <2>5 DEF Received
  <1> QED
    BY <1>6, <1>7

-----------------------------------------------------------------------------
(* What the handlers do to the stream of records.                          *)

(* What leaves the stream alone loses nothing. *)
LEMMA QuietAdvances == ASSUME NEW p, NEW q, NEW h, Quiet(p, q) PROVE Advance(p, q, h, {})
  BY DEF Quiet, Same, Advance, On, Exact, Level

(* A step after one that received nothing. *)
LEMMA AdvancesOn ==
    ASSUME NEW p, NEW x, NEW q, NEW h, NEW ns, Advance(p, x, h, {}), Advance(x, q, h, ns)
    PROVE  Advance(p, q, h, ns)
  <1>1. /\ q.scope = p.scope /\ q.paused = p.paused
        /\ On(q) => On(p)
        /\ q.error = FALSE => p.error = FALSE
    BY DEF Advance
  <1>2. /\ \A c \in q.calls : Fresh(c) => c \in p.calls
        /\ q.error = FALSE /\ (\A c \in q.calls : ~Fresh(c)) => \A c \in p.calls : ~Fresh(c)
    BY DEF Advance
  <1>3. q.stream = "restoring" => p.held \subseteq q.held
    <2>1. q.stream = "restoring" => p.held \subseteq x.held /\ x.held \subseteq q.held
      BY DEF Advance
    <2> QED
      BY <2>1
  <1>4. p.held \subseteq q.held \cup ns /\ (Level(p) => Level(q))
    BY DEF Advance
  <1>5. /\ p.paused => q.events = p.events
        /\ ~p.paused => q.buffered = p.buffered
        /\ p.events \cup p.buffered \subseteq Wide(p.scope, h) => q.events \cup q.buffered \subseteq Wide(p.scope, h)
    BY DEF Advance
  <1>6. ASSUME Exact(p), ~p.paused, p.events \cup p.buffered \subseteq Wide(p.scope, h),
               NEW n \in Newest(p.scope, h), n \in p.events \cup ns
        PROVE  n \in q.events
    <2>1. /\ x.scope = p.scope /\ Exact(x) /\ ~x.paused /\ x.events \cup x.buffered \subseteq Wide(x.scope, h)
          /\ n \in p.events => n \in x.events
      BY <1>6 DEF Advance, Exact
    <2> QED
      BY <1>6, <2>1 DEF Advance
  <1> QED
    BY <1>1, <1>2, <1>3, <1>4, <1>5, <1>6 DEF Advance

(* The subscription is restored, or goes on. *)
LEMMA RestoredFits ==
    ASSUME NEW h \in 0 .. Len(RunOf), NEW s, NEW p, PageTyped(p, h), CallsFit(p, s), NEW c,
           c.restores => Idle(p) /\ p.stream = "restoring",
           NEW q, q = Restored(p, c)
    PROVE  /\ PageTyped(q, h) /\ CallsFit(q, s) /\ q.calls = p.calls /\ Attends(p, q)
           /\ q.error = p.error /\ Advance(p, q, h, p.held \ q.held)
  <1>1. CASE ~c.restores
    <2>1. q = p
      BY <1>1 DEF Restored
    <2>2. Quiet(p, q) /\ p.held \ q.held = {}
      BY <2>1 DEF Quiet, Same
    <2> QED
      BY <2>1, <2>2, QuietAdvances DEF Attends
  <1>2. CASE c.restores
    <2>13. PICK ns : ns = p.held
      OBVIOUS
    <2>0. PICK x : x = ReceiveAll(p, ns)
      OBVIOUS
    <2>1. p \in Pages /\ p.held \subseteq 1 .. h /\ Idle(p) /\ p.stream = "restoring"
      BY <1>2 DEF PageTyped
    <2>14. ns \subseteq 1 .. h /\ x = ReceiveAll(p, ns)
      BY <2>0, <2>1, <2>13
    <2>20. PageTyped(x, h) /\ Received(p, x, h, ns)
      BY <2>14, ReceiveAllFits
    <2>2. /\ PageTyped(x, h) /\ x = [p EXCEPT !.events = x.events, !.buffered = x.buffered]
          /\ p.paused => x.events = p.events
          /\ ~p.paused => x.buffered = p.buffered
          /\ p.events \cup p.buffered \subseteq Wide(p.scope, h) => x.events \cup x.buffered \subseteq Wide(p.scope, h)
          /\ Exact(p) /\ ~p.paused /\ p.events \subseteq InScope(p.scope, h) =>
                \A n \in Newest(p.scope, h) : n \in p.events \cup ns => n \in x.events
      BY <2>20 DEF Received
    <2>3. q = [x EXCEPT !.stream = "live", !.held = {}]
      BY <1>2, <2>13, <2>0 DEF Restored, Release
    <2>4. x \in Pages
      BY <2>2 DEF PageTyped
    <2>5. /\ q \in Pages /\ q.calls = x.calls /\ q.stream = "live" /\ q.held = {} /\ q.events = x.events
          /\ q.buffered = x.buffered /\ q.scope = x.scope /\ q.paused = x.paused /\ q.error = x.error
          /\ Attends(x, q)
      BY <2>3, <2>4 DEF Pages, Attends
    <2>6. /\ x.calls = p.calls /\ x.scope = p.scope /\ x.paused = p.paused /\ x.error = p.error /\ Attends(p, x)
      BY <2>1, <2>2 DEF Pages, Attends
    <2>7. PageTyped(q, h)
      BY <2>2, <2>5 DEF PageTyped
    <2>8. CallsFit(q, s)
      <3>1. s
        BY <2>1 DEF CallsFit
      <3> QED
        BY <2>1, <2>5, <2>6, <3>1 DEF CallsFit, Idle
    <2>9. Exact(p) => Wide(p.scope, h) = InScope(p.scope, h)
      BY DEF Exact, Wide
    <2>10. /\ p.events \cup p.buffered \subseteq Wide(p.scope, h) => q.events \cup q.buffered \subseteq Wide(p.scope, h)
           /\ Exact(p) /\ ~p.paused /\ p.events \cup p.buffered \subseteq Wide(p.scope, h) =>
                \A n \in Newest(p.scope, h) : n \in p.events \cup (p.held \ q.held) => n \in q.events
      BY <2>2, <2>5, <2>9, <2>13
    <2>11. Advance(p, q, h, p.held \ q.held)
      BY <2>1, <2>2, <2>5, <2>6, <2>10 DEF Advance, On, Level
    <2> QED
      BY <2>5, <2>6, <2>7, <2>8, <2>11 DEF Attends
  <1> QED
    BY <1>1, <1>2

(* The subscription is installed anew. *)
LEMMA InstallFits ==
    ASSUME NEW h, NEW s, NEW t, NEW p, PageTyped(p, h), CallsFit(p, s), happened \in Nat, NEW q, q = Install(p)
    PROVE  PageTyped(q, h) /\ CallsFit(q, t) /\ (ChosenFits(p) => ChosenFits(q)) /\ Installed(p, q)
  <1> DEFINE b == Begin(p, {"snapshot"})
             D == {c \in b.calls : c.what \in Detail /\ c.latest}
             Off(c) == [c EXCEPT !.restores = FALSE]
             C == {Off(c) : c \in D}
             r == [b EXCEPT !.stream = "off", !.held = {}, !.calls = C]
  <1>1. /\ PageTyped(b, h) /\ CallsFit(b, s) /\ b = [p EXCEPT !.calls = b.calls]
        /\ \A c : c.what \notin {"snapshot"} => (c \in b.calls <=> c \in p.calls)
    BY BeginFits
  <1>2. q = CASE p.conn = "reconnecting" -> [r EXCEPT !.state = IF p.events = {} THEN "loading" ELSE "ready"]
         [] p.conn = "failed" -> [r EXCEPT !.error = TRUE, !.state = IF p.events = {} THEN "unavailable" ELSE "ready"]
         [] p.conn = "authenticated" ->
              Call([r EXCEPT !.stream = "asking", !.state = IF p.events = {} THEN "loading" ELSE "ready"],
                   "subscribe", 0, TRUE)
    BY DEF Install
  <1>3. \A c \in b.calls : c.what \in Detail => c \in p.calls
    BY <1>1 DEF Detail
  <1> HIDE DEF b
  <1>4. b \in Pages /\ p \in Pages /\ b.calls \subseteq Calls
    BY <1>1 DEF PageTyped, Pages
  <1>5. ASSUME NEW e \in C
        PROVE  \E c \in p.calls : /\ e \in Calls /\ e.what = c.what /\ e.item = c.item /\ e.latest = c.latest
                                  /\ e.list = c.list /\ e.restores = FALSE
                                  /\ c.what \in Detail /\ c.latest
    <2>1. PICK c \in D : e = Off(c)
      OBVIOUS
    <2>2. c \in Calls /\ c.what \in Detail /\ c.latest /\ c \in p.calls
      BY <1>3, <1>4
    <2> HIDE DEF D, C
    <2>3. e \in Calls /\ e.what = c.what /\ e.item = c.item /\ e.latest = c.latest /\ e.list = c.list /\ e.restores = FALSE
      BY <2>1, <2>2 DEF Calls
    <2> QED
      BY <2>2, <2>3
  <1> HIDE DEF C
  <1>6. C \subseteq Calls
    BY <1>5
  <1>7. /\ r \in Pages /\ r.calls = C /\ r.stream = "off" /\ r.held = {} /\ r.asked = b.asked /\ r.chosen = b.chosen
        /\ r.detail = b.detail /\ r.related = b.related /\ r.conn = b.conn /\ r.scope = b.scope
        /\ r.events = b.events /\ r.buffered = b.buffered /\ r.paused = b.paused
    BY <1>4, <1>6 DEF Pages
  <1>8. /\ b.asked = p.asked /\ b.chosen = p.chosen
        /\ b.detail = p.detail /\ b.related = p.related /\ b.conn = p.conn /\ b.scope = p.scope
        /\ b.events = p.events /\ b.buffered = p.buffered /\ b.paused = p.paused
    BY <1>1, <1>4 DEF Pages
  <1> HIDE DEF r
  <1> DEFINE Of(u) == /\ u \in Pages /\ u.calls = C /\ u.held = {} /\ u.asked = p.asked /\ u.chosen = p.chosen
                      /\ u.detail = p.detail /\ u.related = p.related /\ u.conn = p.conn /\ u.scope = p.scope
                      /\ u.events = p.events /\ u.buffered = p.buffered /\ u.paused = p.paused
                      /\ u.stream \in {"off", "asking"}
  <1>9. ASSUME NEW u, Of(u)
        PROVE  /\ PageTyped(u, h) /\ CallsFit(u, t) /\ Idle(u) /\ (ChosenFits(p) => ChosenFits(u))
               /\ \A c \in u.calls : ~Fresh(c) /\ c.what \in Detail /\ c.latest
    <2>1. PageTyped(u, h)
      BY <1>5, <1>9 DEF PageTyped
    <2>2. \A c \in u.calls : c.restores = FALSE /\ c.what \in Detail /\ c.latest
      BY <1>5, <1>9
    <2>3. \A c \in u.calls : ~c.restores /\ c.what # "subscribe" /\ c.what # "snapshot"
      BY <2>2 DEF Detail
    <2>4. CallsFit(u, t) /\ Idle(u)
      BY <1>9, <2>2, <2>3 DEF CallsFit, Idle
    <2>5. ChosenFits(p) => ChosenFits(u)
      <3>1. SUFFICES ASSUME ChosenFits(p), NEW e \in u.calls PROVE e.item = p.chosen
        BY <1>9 DEF ChosenFits
      <3>2. PICK c \in p.calls : e.item = c.item /\ c.what \in Detail /\ c.latest
        BY <1>5, <1>9
      <3> QED
        BY <3>1, <3>2 DEF ChosenFits
    <2> QED
      BY <2>1, <2>2, <2>3, <2>4, <2>5 DEF Fresh
  <1>10. CASE p.conn \in {"reconnecting", "failed"}
    <2>1. PICK st \in {"loading", "ready", "unavailable"} :
            q = [r EXCEPT !.state = st] \/ q = [r EXCEPT !.error = TRUE, !.state = st]
      <3>1. CASE p.conn = "reconnecting"
        <4>1. q = [r EXCEPT !.state = IF p.events = {} THEN "loading" ELSE "ready"]
          BY <1>2, <3>1
        <4> QED
          BY <4>1
      <3>2. CASE p.conn = "failed"
        <4>1. q = [r EXCEPT !.error = TRUE, !.state = IF p.events = {} THEN "unavailable" ELSE "ready"]
          BY <1>2, <3>2
        <4> QED
          BY <4>1
      <3> QED
        BY <1>10, <3>1, <3>2
    <2>3. q \in Pages
      <3>1. CASE q = [r EXCEPT !.state = st]
        BY <1>7, <3>1 DEF Pages
      <3>2. CASE q = [r EXCEPT !.error = TRUE, !.state = st]
        BY <1>7, <3>2 DEF Pages
      <3> QED
        BY <2>1, <3>1, <3>2
    <2>4. /\ q.calls = r.calls /\ q.held = r.held /\ q.asked = r.asked /\ q.chosen = r.chosen
          /\ q.detail = r.detail /\ q.related = r.related /\ q.conn = r.conn /\ q.scope = r.scope
          /\ q.events = r.events /\ q.buffered = r.buffered /\ q.paused = r.paused /\ q.stream = r.stream
      BY <1>7, <2>1 DEF Pages
    <2>2. Of(q) /\ q.stream = "off"
      BY <1>7, <1>8, <2>3, <2>4
    <2> QED
      BY <1>9, <2>2 DEF On, Installed
  <1>11. CASE p.conn = "authenticated"
    <2>16. PICK st \in {"loading", "ready"} : st = IF p.events = {} THEN "loading" ELSE "ready"
      OBVIOUS
    <2> DEFINE u == [r EXCEPT !.stream = "asking", !.state = st]
    <2>1. q = Call(u, "subscribe", 0, TRUE)
      BY <1>2, <1>11, <2>16
    <2>13. u \in Pages
      BY <1>7 DEF Pages
    <2>14. /\ u.calls = r.calls /\ u.held = r.held /\ u.asked = r.asked /\ u.chosen = r.chosen
          /\ u.detail = r.detail /\ u.related = r.related /\ u.conn = r.conn /\ u.scope = r.scope
          /\ u.events = r.events /\ u.buffered = r.buffered /\ u.paused = r.paused /\ u.stream = "asking"
      BY <1>7 DEF Pages
    <2>2. Of(u) /\ u.stream = "asking"
      <3> HIDE DEF u
      <3> QED
        BY <1>7, <1>8, <2>13, <2>14
    <2> HIDE DEF u, Of
    <2> PICK what : what = "subscribe"
      OBVIOUS
    <2> PICK item : item = 0
      OBVIOUS
    <2> PICK restores \in BOOLEAN : restores = TRUE
      OBVIOUS
    <2>3. /\ PageTyped(u, h) /\ CallsFit(u, t) /\ Idle(u) /\ (ChosenFits(p) => ChosenFits(u))
          /\ \A c \in u.calls : ~Fresh(c) /\ c.what \in Detail /\ c.latest
      BY <1>9, <2>2
    <2>4. /\ what \in Kinds /\ item \in {0} \cup Record /\ (what = "subscribe" => restores) /\ restores \in BOOLEAN
          /\ what = "snapshot" => \A c \in u.calls : ~Fresh(c)
          /\ restores => Idle(u) /\ u.stream = Stage(what)
          /\ q = Call(u, what, item, restores)
      BY <2>1, <2>2, <2>3 DEF Kinds, Stage
    <2>15. PICK v : v = u
      OBVIOUS
    <2>17. /\ PageTyped(v, h) /\ CallsFit(v, t) /\ restores = TRUE
           /\ what \in Kinds /\ item \in {0} \cup Record /\ what # "snapshot"
           /\ Idle(v) /\ v.stream = Stage(what) /\ q = Call(v, what, item, restores)
      BY <2>3, <2>4, <2>15
    <2>18. PageTyped(q, h) /\ CallsFit(q, t) /\ Adds(v, q, Made(what, item, restores))
      BY <2>17, CallFits
    <2>5. /\ PageTyped(q, h) /\ CallsFit(q, t) /\ q = [u EXCEPT !.calls = q.calls]
          /\ q.calls = u.calls \cup {Made(what, item, restores)}
      BY <2>15, <2>18 DEF Adds
    <2>6. Made(what, item, restores).what = "subscribe"
      BY DEF Made
    <2>7. u \in Pages /\ q.stream = "asking"
      BY <2>2, <2>3, <2>5 DEF PageTyped, Pages
    <2>8. /\ q.asked = u.asked /\ q.chosen = u.chosen /\ q.conn = u.conn /\ q.scope = u.scope
          /\ q.events = u.events /\ q.buffered = u.buffered /\ q.paused = u.paused
          /\ q.detail = u.detail /\ q.related = u.related
      BY <2>5, <2>7 DEF Pages
    <2>9. ChosenFits(u) => ChosenFits(q)
      BY <2>5, <2>6, <2>8 DEF ChosenFits, Detail
    <2>10. \A c \in q.calls : ~Fresh(c)
      BY <2>3, <2>5, <2>6 DEF Fresh
    <2>11. /\ u.asked = p.asked /\ u.chosen = p.chosen /\ u.conn = p.conn /\ u.scope = p.scope
           /\ u.events = p.events /\ u.buffered = p.buffered /\ u.paused = p.paused
      BY <2>2 DEF Of
    <2> QED
      BY <1>11, <2>3, <2>5, <2>7, <2>8, <2>9, <2>10, <2>11 DEF On, Installed
  <1>12. p.conn \in {"authenticated", "reconnecting", "failed"}
    BY <1>4 DEF Pages
  <1> QED
    BY <1>10, <1>11, <1>12

(* While the stream goes on, nothing that is owed to the user gets lost. *)
LEMMA Advances ==
    ASSUME NEW h, NEW p, NEW w, NEW g, ScopeFits(p, h, g), Accounted(p, w, h, g),
           NEW q, NEW s, CallsFit(q, s), NEW ns, Advance(p, q, h, ns), NEW w2,
           On(q) => \A n : Comes(w, n) => Comes(w2, n) \/ n \in q.held \/ (n \in ns /\ q.stream # "restoring"),
           NEW g2, g2 = FALSE => g = FALSE,
           g2 = FALSE /\ p.paused /\ Exact(p) =>
             \A n \in ns \cup p.buffered : n \in Newest(p.scope, h) => n \in q.events \cup q.buffered
    PROVE  ScopeFits(q, h, g2) /\ Accounted(q, w2, h, g2)
  <1>1. q.scope = p.scope /\ q.paused = p.paused /\ (On(q) => On(p)) /\ (q.error = FALSE => p.error = FALSE)
    BY DEF Advance
  <1>2. \A c \in q.calls : Fresh(c) => c \in p.calls
    BY DEF Advance
  <1>3. ScopeFits(q, h, g2)
    <2>1. ~q.paused => q.buffered = {}
      BY <1>1 DEF Advance, ScopeFits
    <2>2. g2 = FALSE => q.events \cup q.buffered \subseteq Wide(q.scope, h)
      BY <1>1 DEF Advance, ScopeFits
    <2>3. ASSUME NEW c \in q.calls, Fresh(c), c.got = "ok"
          PROVE  /\ c.list \subseteq InScope(q.scope, h)
                 /\ Exact(q) => \A n \in Newest(q.scope, h) : n \in c.list \/ \A m \in c.list : m < n
      BY <1>1, <1>2, <2>3 DEF ScopeFits, Exact
    <2>4. Level(q)
      BY DEF Advance, ScopeFits
    <2> QED
      BY <2>1, <2>2, <2>3, <2>4 DEF ScopeFits
  <1>4. ASSUME On(q), Exact(q), NEW n \in Newest(q.scope, h), OnItsWay(p, w, n)
        PROVE  OnItsWay(q, w2, n) \/ (q.stream # "restoring" /\ n \in ns)
    BY <1>4 DEF OnItsWay, Advance
  <1>5. ASSUME On(q), Exact(q), NEW n \in Newest(q.scope, h), Kept(p, w, n), g2 = FALSE
        PROVE  Kept(q, w2, n)
    <2>1. CASE OnItsWay(q, w2, n)
      BY <2>1 DEF Kept
    <2>2. CASE n \in ns \/ n \in p.events \cup p.buffered
      <3>1. CASE p.paused
        BY <1>1, <1>5, <2>2, <3>1 DEF Kept, Advance, Exact
      <3>2. CASE ~p.paused
        <4>1. p.buffered = {} /\ p.events \cup p.buffered \subseteq Wide(p.scope, h)
          BY <1>5, <3>2 DEF ScopeFits
        <4>2. n \in p.events \cup ns /\ n \in Newest(p.scope, h) /\ Exact(p)
          BY <1>1, <1>5, <2>2, <4>1 DEF Exact
        <4> QED
          BY <3>2, <4>1, <4>2 DEF Kept, Advance
      <3> QED
        BY <3>1, <3>2
    <2> QED
      BY <1>4, <1>5, <2>1, <2>2 DEF Kept
  <1>6. SUFFICES ASSUME On(q), Exact(q) PROVE Accounted(q, w2, h, g2)!2
    BY <1>3 DEF Accounted
  <1>7. On(p) /\ Exact(p)
    BY <1>1, <1>6 DEF Exact
  <1>8. ASSUME g2 = FALSE, q.error = FALSE, \A c \in q.calls : ~Fresh(c), NEW n \in Newest(q.scope, h)
        PROVE  Kept(q, w2, n)
    <2>1. \A c \in p.calls : ~Fresh(c)
      BY <1>8 DEF Advance
    <2>2. Kept(p, w, n)
      BY <1>1, <1>7, <1>8, <2>1 DEF Accounted
    <2> QED
      BY <1>5, <1>6, <1>8, <2>2
  <1>9. ASSUME NEW c \in q.calls, Fresh(c), NEW n \in Newest(q.scope, h), Beyond(c, n)
        PROVE  (g2 = FALSE => Kept(q, w2, n)) /\ (c.restores => OnItsWay(q, w2, n))
    <2>1. (g = FALSE => Kept(p, w, n)) /\ (c.restores => OnItsWay(p, w, n))
      BY <1>1, <1>2, <1>7, <1>9 DEF Accounted
    <2>2. c.restores => q.stream = "restoring"
      BY <1>9 DEF CallsFit, Fresh, Stage
    <2> QED
      BY <1>4, <1>5, <1>6, <1>9, <2>1, <2>2
  <1> QED
    BY <1>8, <1>9

-----------------------------------------------------------------------------
(* The detail, and the snapshot.                                           *)

(* A further call about the chosen record. *)
LEMMA CallDetailFits ==
    ASSUME NEW h, NEW s, NEW p, PageTyped(p, h), CallsFit(p, s), ChosenFits(p), happened \in Nat,
           NEW what \in Detail, NEW item, item = p.chosen, NEW restores \in BOOLEAN,
           restores => Idle(p) /\ p.stream = "restoring",
           NEW q, q = Call(p, what, item, restores)
    PROVE  /\ PageTyped(q, h) /\ CallsFit(q, s) /\ ChosenFits(q) /\ Attends(p, q) /\ Quiet(p, q)
  <1>1. p \in Pages
    BY DEF PageTyped
  <1>2. what \in Kinds /\ item \in {0} \cup Record /\ what # "subscribe" /\ what # "snapshot" /\ (restores => Idle(p) /\ p.stream = Stage(what))
    BY <1>1 DEF Pages, Kinds, Detail, Stage
  <1>3. PageTyped(q, h) /\ CallsFit(q, s) /\ Adds(p, q, Made(what, item, restores))
    BY <1>2, CallFits
  <1>4. q = [p EXCEPT !.calls = q.calls] /\ q.calls = p.calls \cup {Made(what, item, restores)}
    BY <1>3 DEF Adds
  <1>5. Made(what, item, restores).what = what /\ Made(what, item, restores).item = item
    BY DEF Made
  <1>6. Attends(p, q) /\ Same(p, q)
    BY <1>1, <1>4 DEF Pages, Attends, Same
  <1>7. ChosenFits(q)
    BY <1>4, <1>5, <1>6 DEF ChosenFits, Attends
  <1>8. \A c : Fresh(c) => (c \in q.calls <=> c \in p.calls)
    BY <1>2, <1>4, <1>5 DEF Fresh
  <1> QED
    BY <1>3, <1>6, <1>7, <1>8 DEF Quiet

(* An answer about a record: the chosen one, if it is the latest call's. *)
LEMMA DetailArrivesFits ==
    ASSUME NEW h \in 0 .. Len(RunOf), NEW s, NEW p, PageTyped(p, h), CallsFit(p, s), ChosenFits(p), happened \in Nat,
           NEW c \in Calls, c.what \in Detail, c.latest => c.item = p.chosen,
           c.restores => Idle(p) /\ p.stream = "restoring",
           NEW q, q = DetailArrives(p, c)
    PROVE  /\ PageTyped(q, h) /\ CallsFit(q, s) /\ ChosenFits(q) /\ q.asked = p.asked /\ q.chosen = p.chosen
           /\ Advance(p, q, h, p.held \ q.held)
  <1>1. p \in Pages /\ c.restores \in BOOLEAN
    BY DEF PageTyped, Calls
  <1> DEFINE Of(x) == /\ PageTyped(x, h) /\ CallsFit(x, s) /\ ChosenFits(x) /\ x.asked = p.asked /\ x.chosen = p.chosen
                      /\ Quiet(p, x) /\ (Idle(p) => Idle(x))
  <1>2. ASSUME NEW x, Of(x), q = Restored(x, c)
        PROVE  /\ PageTyped(q, h) /\ CallsFit(q, s) /\ ChosenFits(q) /\ q.asked = p.asked /\ q.chosen = p.chosen
               /\ Advance(p, q, h, p.held \ q.held)
    <2>1. c.restores => Idle(x) /\ x.stream = "restoring"
      BY <1>2 DEF Quiet, Same
    <2>2. /\ PageTyped(q, h) /\ CallsFit(q, s) /\ q.calls = x.calls /\ Attends(x, q)
          /\ q.error = x.error /\ Advance(x, q, h, x.held \ q.held)
      BY <1>2, <2>1, RestoredFits
    <2>3. x.held = p.held /\ Advance(p, x, h, {})
      BY <1>2, QuietAdvances DEF Quiet, Same
    <2>4. Advance(p, q, h, p.held \ q.held)
      BY <2>2, <2>3, AdvancesOn
    <2> QED
      BY <1>2, <2>2, <2>4 DEF ChosenFits, Attends
  <1>3. ASSUME NEW x, Of(x), NEW what \in Detail, q = Call(x, what, c.item, c.restores), c.latest
        PROVE  /\ PageTyped(q, h) /\ CallsFit(q, s) /\ ChosenFits(q) /\ q.asked = p.asked /\ q.chosen = p.chosen
               /\ Advance(p, q, h, p.held \ q.held)
    <2>1. c.restores => Idle(x) /\ x.stream = "restoring"
      BY <1>3 DEF Quiet, Same
    <2>2. PICK item : item = c.item
      OBVIOUS
    <2>3. item = x.chosen
      BY <1>3, <2>2
    <2>4. q = Call(x, what, item, c.restores)
      BY <1>3, <2>2
    <2>5. PageTyped(q, h) /\ CallsFit(q, s) /\ ChosenFits(q) /\ Attends(x, q) /\ Quiet(x, q)
      <3> PICK restores \in BOOLEAN : restores = c.restores
        BY <1>1
      <3>1. q = Call(x, what, item, restores) /\ (restores => Idle(x) /\ x.stream = "restoring")
        BY <2>1, <2>4
      <3> QED
        BY <1>3, <2>3, <3>1, CallDetailFits
    <2>6. Quiet(p, q)
      BY <1>3, <2>5 DEF Quiet, Same
    <2>7. Advance(p, q, h, {}) /\ p.held \ q.held = {}
      BY <2>6, QuietAdvances DEF Quiet, Same
    <2>8. p.held \ q.held = {} => Advance(p, q, h, p.held \ q.held)
      BY <2>7
    <2> QED
      BY <1>3, <2>5, <2>7, <2>8 DEF Attends
  <1>4. Of(p)
    BY DEF Quiet, Same
  <1>5. ASSUME c.latest
        PROVE  /\ Of([p EXCEPT !.detail = c.item]) /\ Of([p EXCEPT !.related = c.item])
               /\ Of([p EXCEPT !.detailError = TRUE]) /\ Of([p EXCEPT !.threadError = TRUE])
    <2>1. c.item \in {0} \cup Record /\ c.item = p.chosen
      BY <1>5 DEF Calls
    <2> DEFINE Like(x) == /\ x \in Pages /\ Same(p, x) /\ x.calls = p.calls /\ x.asked = p.asked /\ x.chosen = p.chosen
                          /\ x.detail \in {p.detail, c.item} /\ x.related \in {p.related, c.item}
    <2>2. Like([p EXCEPT !.detail = c.item])
      BY <1>1, <2>1 DEF Pages, Same
    <2>3. Like([p EXCEPT !.related = c.item])
      BY <1>1, <2>1 DEF Pages, Same
    <2>4. Like([p EXCEPT !.detailError = TRUE]) /\ Like([p EXCEPT !.threadError = TRUE])
      BY <1>1, <2>1 DEF Pages, Same
    <2>5. ASSUME NEW x, Like(x) PROVE Of(x)
      <3>1. PageTyped(x, h) /\ CallsFit(x, s) /\ Quiet(p, x) /\ (Idle(p) => Idle(x))
        BY <2>5 DEF PageTyped, CallsFit, Quiet, Same, Idle
      <3>2. ChosenFits(x)
        BY <2>1, <2>5 DEF ChosenFits
      <3> QED
        BY <2>5, <3>1, <3>2
    <2> HIDE DEF Like, Of
    <2> QED
      BY <2>2, <2>3, <2>4, <2>5
  <1> HIDE DEF Of
  <1>6. CASE ~c.latest
    <2>1. q = Restored(p, c)
      BY <1>6 DEF DetailArrives
    <2> QED
      BY <1>2, <1>4, <2>1
  <1>7. CASE c.latest
    <2>1. \/ \E what \in Detail : \/ q = Call([p EXCEPT !.detail = c.item], what, c.item, c.restores)
                                  \/ q = Call(p, what, c.item, c.restores)
          \/ q = Restored([p EXCEPT !.detailError = TRUE], c)
          \/ q = Restored([p EXCEPT !.related = c.item], c)
          \/ q = Restored([p EXCEPT !.threadError = TRUE], c)
      <3>1. c.what \in {"get", "resolve", "thread"} /\ "resolve" \in Detail /\ "thread" \in Detail
        BY DEF Detail
      <3>2. q = CASE c.what = "get" /\ c.got = "ok" -> Call([p EXCEPT !.detail = c.item], "resolve", c.item, c.restores)
           [] c.what = "get" /\ c.got # "ok" -> Restored([p EXCEPT !.detailError = TRUE], c)
           [] c.what = "resolve" /\ c.got = "ok" -> Call(p, "thread", c.item, c.restores)
           [] c.what = "resolve" /\ c.got # "ok" -> Restored([p EXCEPT !.related = c.item], c)
           [] c.what = "thread" /\ c.got = "ok" -> Restored([p EXCEPT !.related = c.item], c)
           [] c.what = "thread" /\ c.got # "ok" -> Restored([p EXCEPT !.threadError = TRUE], c)
        BY <1>7 DEF DetailArrives
      <3> QED
        BY <3>1, <3>2
    <2>2. CASE \E what \in Detail : \/ q = Call([p EXCEPT !.detail = c.item], what, c.item, c.restores)
                                    \/ q = Call(p, what, c.item, c.restores)
      BY <1>3, <1>4, <1>5, <1>7, <2>2
    <2>3. CASE \/ q = Restored([p EXCEPT !.detailError = TRUE], c)
               \/ q = Restored([p EXCEPT !.related = c.item], c)
               \/ q = Restored([p EXCEPT !.threadError = TRUE], c)
      BY <1>2, <1>5, <1>7, <2>3
    <2> QED
      BY <2>1, <2>2, <2>3
  <1> QED
    BY <1>6, <1>7

(* A record is selected, and put into the address. *)
LEMMA AddressFits ==
    ASSUME NEW h, NEW s, NEW p, PageTyped(p, h), CallsFit(p, s), ChosenFits(p), happened \in Nat,
           NEW n \in Record, NEW q, q = Address(p, n)
    PROVE  /\ PageTyped(q, h) /\ CallsFit(q, s) /\ DetailFits(q) /\ Quiet(p, q) /\ (Idle(p) => Idle(q))
  <1>1. PICK x : x = Select(p, n)
    OBVIOUS
  <1>2. PageTyped(x, h) /\ CallsFit(x, s) /\ ChosenFits(x) /\ Quiet(p, x) /\ (Idle(p) => Idle(x)) /\ x.chosen = n
    <2>1. CASE n = p.chosen
      <3>1. x = p
        BY <1>1, <2>1 DEF Select
      <3> QED
        BY <2>1, <3>1 DEF Quiet, Same
    <2>2. CASE n # p.chosen
      <3> PICK r \in BOOLEAN : r = FALSE
        OBVIOUS
      <3>1. x = LoadSelection(p, n, r)
        BY <1>1, <2>2 DEF Select
      <3>2. /\ PageTyped(x, h) /\ CallsFit(x, s) /\ Quiet(p, x) /\ ChosenFits(x)
            /\ x.chosen = n /\ x.asked = p.asked /\ (~r /\ Idle(p) => Idle(x))
        BY <3>1, LoadSelectionFits
      <3> QED
        BY <3>2
    <2> QED
      BY <2>1, <2>2
  <1>3. q = [x EXCEPT !.asked = n]
    BY <1>1 DEF Address
  <1>4. x \in Pages
    BY <1>2 DEF PageTyped
  <1>5. /\ q \in Pages /\ q.calls = x.calls /\ Same(x, q) /\ q.asked = n /\ q.chosen = x.chosen /\ q.detail = x.detail
        /\ q.related = x.related
    BY <1>3, <1>4 DEF Pages, Same
  <1>6. PageTyped(q, h) /\ CallsFit(q, s) /\ ChosenFits(q) /\ (Idle(x) => Idle(q))
    BY <1>2, <1>5 DEF PageTyped, CallsFit, ChosenFits, Idle, Same
  <1>7. Quiet(p, q)
    BY <1>2, <1>5 DEF Quiet, Same
  <1> QED
    BY <1>2, <1>5, <1>6, <1>7 DEF DetailFits

(* A page whose scope is another is loaded again: the earlier snapshot is   *)
(* stale, and the one that is asked for holds all there is so far.          *)
LEMMA ReloadFits ==
    ASSUME NEW s, NEW p, PageTyped(p, happened), CallsFit(p, s), DetailFits(p), happened \in Nat,
           Level(p), ~p.paused => p.buffered = {},
           NEW g, g = FALSE => p.events \cup p.buffered \subseteq Wide(p.scope, happened),
           NEW r, r = FALSE, NEW q, q = LoadSnapshot(p, r)
    PROVE  /\ PageTyped(q, happened) /\ CallsFit(q, s) /\ DetailFits(q) /\ q.scope = p.scope
           /\ \A w : ScopeFits(q, happened, g) /\ Accounted(q, w, happened, g)
  <1>1. r \in BOOLEAN /\ (r => Idle(p) /\ p.stream = "restoring")
    OBVIOUS
  <1>2. PageTyped(q, happened) /\ CallsFit(q, s) /\ (ChosenFits(p) => ChosenFits(q)) /\ Loading(p, q, r)
    BY <1>1, LoadSnapshotFits
  <1>3. /\ q.asked = p.asked /\ q.chosen = p.chosen /\ q.scope = p.scope /\ q.stream = p.stream /\ q.held = p.held
        /\ q.events = p.events /\ q.buffered = p.buffered /\ q.paused = p.paused
        /\ \A c \in q.calls : Fresh(c) => c.restores = r /\ c.got = "none" /\ c.since = happened
        /\ (\A c \in q.calls : ~Fresh(c)) => q.error = TRUE
    BY <1>2 DEF Loading
  <1>4. DetailFits(q)
    BY <1>2, <1>3 DEF DetailFits
  <1>5. ScopeFits(q, happened, g)
    BY <1>3 DEF ScopeFits, Level
  <1>6. ASSUME NEW w PROVE Accounted(q, w, happened, g)
    <2>1. ASSUME NEW c \in q.calls, Fresh(c), NEW n \in Newest(q.scope, happened), Beyond(c, n) PROVE FALSE
      <3>1. n \in 1 .. happened /\ n > happened
        BY <1>3, <2>1 DEF Beyond, Newest, InScope
      <3> QED
        BY <3>1
    <2> QED
      BY <1>3, <2>1 DEF Accounted
  <1> QED
    BY <1>2, <1>3, <1>4, <1>5, <1>6

(* The address lost its run or thread: the page is loaded for all records,  *)
(* and may show a part of them until then.                                  *)
LEMMA SyncFits ==
    ASSUME NEW s, NEW p, PageTyped(p, happened), CallsFit(p, s), DetailFits(p), happened \in Nat,
           Level(p), ~p.paused => p.buffered = {}, Key(p.scope) # "",
           NEW g, g # FALSE, NEW q, q = SyncFromRoute(p)
    PROVE  /\ PageTyped(q, happened) /\ CallsFit(q, s) /\ DetailFits(q) /\ q.scope # p.scope
           /\ \A w : ScopeFits(q, happened, g) /\ Accounted(q, w, happened, g)
  <1>1. PICK x : x = [p EXCEPT !.scope = "all"]
    OBVIOUS
  <1>2. PICK r : r = FALSE
    OBVIOUS
  <1>3. q = LoadSnapshot(x, r) /\ p.scope # "all"
    BY <1>1, <1>2 DEF SyncFromRoute, Key
  <1>4. p \in Pages
    BY DEF PageTyped
  <1>5. /\ x \in Pages /\ x.scope = "all" /\ x.asked = p.asked /\ x.stream = p.stream /\ x.held = p.held
        /\ x.calls = p.calls /\ x.paused = p.paused /\ x.events = p.events
        /\ x.buffered = p.buffered /\ x.chosen = p.chosen /\ x.detail = p.detail /\ x.related = p.related
    BY <1>1, <1>4 DEF Pages, Scopes
  <1>6. PageTyped(x, happened) /\ CallsFit(x, s) /\ DetailFits(x)
    BY <1>5 DEF PageTyped, CallsFit, DetailFits, ChosenFits
  <1>7. Level(x) /\ (~x.paused => x.buffered = {})
    BY <1>5 DEF Level
  <1>8. /\ PageTyped(q, happened) /\ CallsFit(q, s) /\ DetailFits(q) /\ q.scope = x.scope
        /\ \A w : ScopeFits(q, happened, g) /\ Accounted(q, w, happened, g)
    <2>1. g = FALSE => x.events \cup x.buffered \subseteq Wide(x.scope, happened)
      OBVIOUS
    <2>2. q = LoadSnapshot(x, r)
      BY <1>3
    <2> QED
      BY <1>2, <1>6, <1>7, <2>1, <2>2, ReloadFits
  <1> QED
    BY <1>3, <1>5, <1>8

(* The records of the snapshot take the place of what was shown. *)
LEMMA ShowFits ==
    ASSUME NEW h \in 0 .. Len(RunOf), NEW s, NEW p, PageTyped(p, h), CallsFit(p, s), ChosenFits(p),
           NEW list, list \subseteq 1 .. h, list \subseteq Record,
           NEW q, q = Loaded(p, list)
    PROVE  PageTyped(q, h) /\ CallsFit(q, s) /\ ChosenFits(q) /\ Attends(p, q) /\ Shows(p, q, h, list)
  <1>1. /\ p \in Pages /\ p.events \subseteq Record /\ p.buffered \subseteq Record
        /\ p.events \subseteq 1 .. h /\ p.buffered \subseteq 1 .. h
    BY DEF PageTyped, Pages
  <1>2. PICK x : x = Show(p, list)
    OBVIOUS
  <1> DEFINE Like(y) == /\ y \in Pages /\ y.calls = p.calls /\ Attends(p, y) /\ y.held = p.held
                        /\ y.scope = p.scope /\ y.stream = p.stream /\ y.paused = p.paused
  <1>3. ASSUME NEW y, Like(y), q = [y EXCEPT !.error = FALSE, !.state = "ready"]
        PROVE  Like(q) /\ q.error = FALSE /\ q.events = y.events /\ q.buffered = y.buffered
    BY <1>3 DEF Pages, Attends
  <1>4. /\ Like(q) /\ q.error = FALSE /\ q.events \subseteq 1 .. h /\ q.buffered \subseteq 1 .. h
        /\ Shows(p, q, h, list)
    <2>1. CASE p.paused
      <3> DEFINE B == Merge(p.buffered, list \ p.events, BufferedLimit)
      <3>1. x = [p EXCEPT !.buffered = B] /\ B \subseteq p.buffered \cup list
        BY <1>2, <2>1, MergeIsAPart DEF Show
      <3> HIDE DEF B
      <3>2. Like(x) /\ x.buffered = B /\ x.events = p.events
        BY <1>1, <3>1 DEF Pages, Attends
      <3>3. Like(q) /\ q.error = FALSE /\ q.events = p.events /\ q.buffered = B
        BY <1>2, <1>3, <3>2 DEF Loaded
      <3> QED
        BY <1>1, <2>1, <3>1, <3>3 DEF Shows
    <2>2. CASE ~p.paused
      <3> DEFINE E == IF p.scope = "all" THEN Merge({}, list, LoadedLimit) ELSE list
      <3>1. x = [p EXCEPT !.events = E] /\ E \subseteq list
        BY <1>2, <2>2, MergeIsAPart DEF Show
      <3>4. ASSUME Exact(p), list \subseteq InScope(p.scope, h), NEW n \in Newest(p.scope, h), n \in list
            PROVE  n \in E
        <4>1. n \in InScope(p.scope, h) /\ Cardinality({m \in InScope(p.scope, h) : m > n}) < LoadedLimit
          BY <3>4 DEF Newest
        <4>2. InScope(p.scope, h) \subseteq 1 .. h /\ LoadedLimit \in Nat /\ h \in Nat
          <5>1. Len(RunOf) \in Nat
            BY LenProperties, AuditAssumption
          <5> QED
            BY <5>1, AuditAssumption DEF InScope
        <4>3. {} \cup list \subseteq InScope(p.scope, h) /\ n \in {} \cup list
          BY <3>4
        <4>4. n \in Merge({}, list, LoadedLimit)
          BY <4>1, <4>2, <4>3, MergeKeepsTheNewest
        <4> QED
          BY <3>4, <4>4
      <3> HIDE DEF E
      <3>2. Like(x) /\ x.buffered = p.buffered /\ x.events = E
        BY <1>1, <3>1 DEF Pages, Attends
      <3>3. Like(q) /\ q.error = FALSE /\ q.events = E /\ q.buffered = p.buffered
        BY <1>2, <1>3, <3>2 DEF Loaded
      <3> QED
        BY <1>1, <2>2, <3>1, <3>3, <3>4 DEF Shows
    <2> QED
      BY <2>1, <2>2
  <1>5. PageTyped(q, h) /\ CallsFit(q, s) /\ ChosenFits(q)
    BY <1>4 DEF PageTyped, CallsFit, ChosenFits, Attends
  <1> QED
    BY <1>4, <1>5

(* The snapshot arrives, and the subscription goes on; the address may      *)
(* change after that.                                                       *)
ShowsThenSyncs(p, q, h, s, list) ==
    \E x, z : /\ PageTyped(z, h) /\ CallsFit(z, s) /\ DetailFits(z)
              /\ Shows(p, x, h, list) /\ x.calls = p.calls /\ Advance(x, z, h, p.held \ z.held)
              /\ q = z \/ q = SyncFromRoute(z)

LEMMA SnapshotShownFits ==
    ASSUME NEW h \in 0 .. Len(RunOf), NEW s, NEW p, PageTyped(p, h), CallsFit(p, s), DetailFits(p), happened \in Nat,
           NEW c \in Calls, c.list \subseteq 1 .. h, c.latest, c.got = "ok",
           c.restores => Idle(p) /\ p.stream = "restoring",
           NEW q, q = SnapshotArrives(p, c)
    PROVE  ShowsThenSyncs(p, q, h, s, c.list)
  <1>1. PICK x : x = Loaded(p, c.list)
    OBVIOUS
  <1>2. ChosenFits(p) /\ c.list \subseteq Record /\ c.restores \in BOOLEAN
    BY DEF DetailFits, Calls
  <1>3. /\ PageTyped(x, h) /\ CallsFit(x, s) /\ ChosenFits(x) /\ x.calls = p.calls /\ Attends(p, x)
        /\ Shows(p, x, h, c.list)
    <2>1. PICK list : list = c.list
      OBVIOUS
    <2>2. /\ list \subseteq 1 .. h /\ list \subseteq Record
          /\ x = Loaded(p, list)
      BY <1>1, <1>2, <2>1
    <2>3. PageTyped(x, h) /\ CallsFit(x, s) /\ ChosenFits(x) /\ Attends(p, x) /\ Shows(p, x, h, list)
      BY <1>2, <2>2, ShowFits
    <2> QED
      BY <2>1, <2>3 DEF Shows
  <1>4. DetailFits(x)
    BY <1>3 DEF DetailFits, Attends
  <1>5. c.restores => Idle(x) /\ x.stream = "restoring"
    BY <1>3 DEF Idle, Shows
  <1>6. q = IF x.asked # 0 THEN LoadSelection(x, x.asked, c.restores)
            ELSE IF x.chosen = 0 /\ x.events # {} THEN SyncFromRoute(Restored(Address(x, Max(x.events)), c))
            ELSE Restored(x, c)
    BY <1>1 DEF SnapshotArrives, Loaded
  <1>7. x \in Pages /\ x.held = p.held
    BY <1>3 DEF PageTyped, Shows
  <1>8. SUFFICES \E z : /\ PageTyped(z, h) /\ CallsFit(z, s) /\ DetailFits(z) /\ Advance(x, z, h, x.held \ z.held)
                        /\ q = z \/ q = SyncFromRoute(z)
    BY <1>3, <1>7 DEF ShowsThenSyncs
  <1>9. CASE x.asked # 0
    <2>1. PICK restores \in BOOLEAN : restores = c.restores
      BY <1>2
    <2>2. PICK n \in Record : n = x.asked
      BY <1>7, <1>9 DEF Pages
    <2>3. q = LoadSelection(x, n, restores) /\ (restores => Idle(x) /\ x.stream = "restoring")
      BY <1>5, <1>6, <1>9, <2>1, <2>2
    <2>4. /\ PageTyped(q, h) /\ CallsFit(q, s) /\ Quiet(x, q) /\ ChosenFits(q)
          /\ q.chosen = n /\ q.asked = x.asked /\ (~restores /\ Idle(x) => Idle(q))
      BY <1>3, <2>3, LoadSelectionFits
    <2>5. DetailFits(q)
      BY <2>2, <2>4 DEF DetailFits
    <2>6. Advance(x, q, h, {}) /\ x.held \ q.held = {}
      BY <2>4, QuietAdvances DEF Quiet, Same
    <2>7. x.held \ q.held = {} => Advance(x, q, h, x.held \ q.held)
      BY <2>6
    <2> QED
      BY <2>4, <2>5, <2>6, <2>7
  <1>10. CASE x.asked = 0
    <2>1. PICK y : y = IF x.chosen = 0 /\ x.events # {} THEN Address(x, Max(x.events)) ELSE x
      OBVIOUS
    <2>2. PageTyped(y, h) /\ CallsFit(y, s) /\ DetailFits(y) /\ Quiet(x, y) /\ (Idle(x) => Idle(y))
      <3>1. CASE x.chosen = 0 /\ x.events # {}
        <4>1. x.events \subseteq Record /\ x.events \subseteq 0 .. h /\ h \in Nat
          <5>1. Len(RunOf) \in Nat
            BY LenProperties, AuditAssumption
          <5>2. x.events \subseteq 1 .. h /\ x.events \subseteq Record
            BY <1>3 DEF PageTyped, Pages
          <5> QED
            BY <5>1, <5>2
        <4>2. Max(x.events) \in x.events
          BY <3>1, <4>1, Greatest
        <4>3. PICK n \in Record : n = Max(x.events)
          BY <4>1, <4>2
        <4>4. y = Address(x, n)
          BY <2>1, <3>1, <4>3
        <4> QED
          BY <1>3, <4>4, AddressFits
      <3>2. CASE ~(x.chosen = 0 /\ x.events # {})
        <4>1. y = x
          BY <2>1, <3>2
        <4> QED
          BY <1>3, <1>4, <4>1 DEF Quiet, Same
      <3> QED
        BY <3>1, <3>2
    <2>3. PICK z : z = Restored(y, c)
      OBVIOUS
    <2>9. q = z \/ q = SyncFromRoute(z)
      BY <1>6, <1>10, <2>1, <2>3
    <2>4. c.restores => Idle(y) /\ y.stream = "restoring"
      BY <1>5, <2>2 DEF Quiet, Same
    <2>5. /\ PageTyped(z, h) /\ CallsFit(z, s) /\ z.calls = y.calls /\ Attends(y, z)
          /\ z.error = y.error /\ Advance(y, z, h, y.held \ z.held)
      BY <2>2, <2>3, <2>4, RestoredFits
    <2>6. DetailFits(z)
      BY <2>2, <2>5 DEF DetailFits, ChosenFits, Attends
    <2>7. Advance(x, y, h, {}) /\ y.held = x.held
      BY <2>2, QuietAdvances DEF Quiet, Same
    <2>8. Advance(x, z, h, x.held \ z.held)
      BY <2>5, <2>7, AdvancesOn
    <2> QED
      BY <2>5, <2>6, <2>8, <2>9
  <1> QED
    BY <1>9, <1>10

(* What the page receives when it shows a snapshot. *)
Gains(p, x, q, h) == Advance(x, q, h, p.held \ q.held)

(* A paused page without a gap put everything apart that it lacks. *)
Apart(p, c, q, h, g, g2) ==
    g2 = FALSE /\ p.paused =>
      /\ g = FALSE
      /\ Exact(p) => \A n \in c.list \cup p.buffered \cup (p.held \ q.held) :
                        n \in Newest(p.scope, h) => n \in q.events \cup q.buffered

(* A reload that leaves no gap lacks only what is in the queue. *)
Reaches(p, c, w, h, g2) ==
    g2 = FALSE /\ ~p.paused /\ ~c.restores =>
      \A n \in Newest(p.scope, h) : (\A m \in c.list : m < n) => Comes(w, n)

(* What a snapshot shows, with what is on its way, is complete. *)
LEMMA SnapshotCovers ==
    ASSUME NEW h, NEW s, NEW p, NEW w, NEW g, CallsFit(p, s), ScopeFits(p, h, g), Accounted(p, w, h, g),
           NEW c \in p.calls, Fresh(c), c.got = "ok",
           NEW o, Leaves(p, c, o), NEW x, Shows(o, x, h, c.list),
           NEW q, CallsFit(q, s), Gains(p, x, q, h),
           NEW w2, \A n : Comes(w, n) => Comes(w2, n),
           NEW g2, Apart(p, c, q, h, g, g2), Reaches(p, c, w, h, g2)
    PROVE  ScopeFits(q, h, g2) /\ Accounted(q, w2, h, g2)
  <1>1. \A d \in q.calls : ~Fresh(d)
    <2>1. \A d \in x.calls : ~Fresh(d)
      BY DEF CallsFit, Fresh, Leaves, Shows
    <2> QED
      BY <2>1 DEF Gains, Advance
  <1>2. /\ x.scope = p.scope /\ x.stream = p.stream /\ x.held = p.held /\ x.paused = p.paused
        /\ Exact(x) = Exact(p) /\ Exact(o) = Exact(p)
    BY DEF Shows, Exact, Leaves
  <1>3. q.scope = p.scope /\ q.paused = p.paused /\ (Exact(q) => Exact(p))
    BY <1>2 DEF Gains, Advance, Exact
  <1>4. On(q) => On(p)
    BY <1>2 DEF Gains, Advance, On
  <1>5. /\ c.list \subseteq InScope(p.scope, h)
        /\ Exact(p) => \A n \in Newest(p.scope, h) : n \in c.list \/ \A m \in c.list : m < n
    BY DEF ScopeFits
  <1>6. InScope(p.scope, h) \subseteq Wide(p.scope, h)
    BY DEF Wide, InScope
  <1>7. ScopeFits(q, h, g2)
    <2>1. ~q.paused => q.buffered = {}
      BY <1>2, <1>3 DEF Gains, Advance, Shows, ScopeFits, Leaves
    <2>2. g2 = FALSE => x.events \cup x.buffered \subseteq Wide(x.scope, h)
      <3>1. CASE p.paused
        BY <1>2, <1>5, <1>6, <3>1 DEF Shows, ScopeFits, Leaves, Apart
      <3>2. CASE ~p.paused
        BY <1>2, <1>5, <1>6, <3>2 DEF Shows, ScopeFits, Leaves
      <3> QED
        BY <3>1, <3>2
    <2>3. g2 = FALSE => q.events \cup q.buffered \subseteq Wide(q.scope, h)
      BY <2>2 DEF Gains, Advance
    <2>4. Level(q)
      <3>1. Level(x)
        BY <1>2 DEF ScopeFits, Level
      <3> QED
        BY <3>1 DEF Gains, Advance
    <2> QED
      BY <1>1, <2>1, <2>3, <2>4 DEF ScopeFits
  <1>8. ASSUME On(q), Exact(q), g2 = FALSE, NEW n \in Newest(q.scope, h)
        PROVE  Kept(q, w2, n)
    <2>1. n \in Newest(p.scope, h) /\ On(p) /\ Exact(p)
      BY <1>3, <1>4, <1>8
    <2>2. CASE p.paused
      <3>1. g = FALSE /\ q.events = p.events
        BY <1>2, <1>8, <2>2 DEF Gains, Advance, Shows, Leaves, Apart
      <3>2. CASE n \in c.list
        BY <1>8, <2>1, <2>2, <3>2 DEF Kept, Apart
      <3>3. CASE \A m \in c.list : m < n
        <4>1. Kept(p, w, n)
          BY <2>1, <3>1, <3>3 DEF Accounted, Beyond
        <4>2. CASE n \in p.buffered \/ n \in p.held \ q.held
          BY <1>8, <2>1, <2>2, <4>2 DEF Kept, Apart
        <4> QED
          BY <3>1, <4>1, <4>2 DEF Kept, OnItsWay
      <3> QED
        BY <1>5, <2>1, <3>2, <3>3
    <2>3. CASE ~p.paused
      <3>1. p.buffered = {} /\ x.buffered = {}
        BY <2>3 DEF ScopeFits, Shows, Leaves
      <3>2. x.events \cup x.buffered \subseteq Wide(x.scope, h) /\ ~x.paused /\ Exact(x) /\ n \in Newest(x.scope, h)
        BY <1>2, <1>5, <1>6, <2>1, <2>3, <3>1 DEF Shows, Leaves
      <3>3. n \in x.events \cup (p.held \ q.held) => n \in q.events
        BY <3>2 DEF Gains, Advance
      <3>4. CASE n \in c.list
        <4>1. n \in x.events
          BY <1>2, <1>5, <2>1, <2>3, <3>4 DEF Shows, Leaves
        <4> QED
          BY <3>3, <4>1 DEF Kept
      <3>5. CASE \A m \in c.list : m < n
        <4>1. Comes(w, n) \/ n \in p.held
          <5>1. CASE c.restores
            BY <2>1, <3>5, <5>1 DEF Accounted, Beyond, OnItsWay
          <5>2. CASE ~c.restores
            BY <1>8, <2>1, <2>3, <3>5, <5>2 DEF Reaches
          <5> QED
            BY <5>1, <5>2
        <4> QED
          BY <3>3, <4>1 DEF Kept, OnItsWay
      <3> QED
        BY <1>5, <2>1, <3>4, <3>5
    <2> QED
      BY <2>2, <2>3
  <1> QED
    BY <1>1, <1>7, <1>8 DEF Accounted

-----------------------------------------------------------------------------
(* The user.                                                               *)

(* The number of records stored so far. *)
LEMMA HappenedIsNat == ASSUME NEW p, NEW w, NEW h, Typed(p, w, h) PROVE h \in Nat /\ h \in 0 .. Len(RunOf) /\ Len(RunOf) \in Nat
  BY LenProperties, AuditAssumption DEF Typed

(* A step after which only what is still awaited is left in the queue. *)
LEMMA UseFits ==
    ASSUME AuditInv, NEW q, Uses(q), PageTyped(q, happened),
           NEW s, s = streaming', CallsFit(q, s), DetailFits(q),
           NEW g, g = gap', g \in BOOLEAN,
           ASSUME NEW w, \A n : Comes(wire, n) => Comes(w, n)
           PROVE  ScopeFits(q, happened, g) /\ Accounted(q, w, happened, g)
    PROVE  AuditInv'
  <1>1. PICK w : w = Awaited(wire, q)
    OBVIOUS
  <1>2. page' = q /\ wire' = w /\ happened' = happened
    BY <1>1 DEF Uses
  <1>3. Typed(page, wire, happened)
    BY DEF AuditInv, Fits
  <1>4. w \in Seq(Messages(happened)) /\ \A n : Comes(wire, n) => Comes(w, n)
    BY <1>1, <1>3, AwaitedIsAPart DEF Typed
  <1>5. Fits(q, w, happened, g, s)
    BY <1>3, <1>4 DEF Fits, Typed
  <1> QED
    BY <1>2, <1>5 DEF AuditInv

(* What is shown and what is put apart are rearranged. *)
LEMMA Rearranges ==
    ASSUME NEW h, NEW p, NEW w, NEW g, ScopeFits(p, h, g), Accounted(p, w, h, g),
           NEW q, q.scope = p.scope, q.stream = p.stream, q.held = p.held, q.calls = p.calls, q.error = p.error,
           ~q.paused => q.buffered = {},
           NEW w2, \A n : Comes(w, n) => Comes(w2, n),
           NEW g2, g2 = FALSE => g = FALSE /\ q.events \cup q.buffered \subseteq p.events \cup p.buffered,
           g2 = FALSE /\ Exact(p) =>
             \A n \in Newest(p.scope, h) : n \in p.events \cup p.buffered => n \in q.events \cup q.buffered
    PROVE  ScopeFits(q, h, g2) /\ Accounted(q, w2, h, g2)
  <1>1. Exact(q) = Exact(p) /\ On(q) = On(p)
    BY DEF Exact, On
  <1>2. ScopeFits(q, h, g2)
    BY <1>1 DEF ScopeFits, Level
  <1>3. \A n : OnItsWay(p, w, n) => OnItsWay(q, w2, n)
    BY DEF OnItsWay
  <1>4. g2 = FALSE /\ Exact(p) => \A n \in Newest(p.scope, h) : Kept(p, w, n) => Kept(q, w2, n)
    BY <1>3 DEF Kept
  <1> QED
    BY <1>1, <1>2, <1>3, <1>4 DEF Accounted

(* The timeline is paused: nothing was put apart before. *)
LEMMA PauseKeeps == ASSUME AuditInv, Pause PROVE AuditInv'
  <1>1. PICK q : q = [page EXCEPT !.paused = TRUE]
    OBVIOUS
  <1>2. Uses(q) /\ streaming' = streaming /\ gap' = gap
    BY <1>1 DEF Pause
  <1>3. /\ PageTyped(page, happened) /\ CallsFit(page, streaming) /\ DetailFits(page)
        /\ ScopeFits(page, happened, gap) /\ Accounted(page, wire, happened, gap) /\ gap \in BOOLEAN
    BY DEF AuditInv, Fits, Typed
  <1>4. page \in Pages
    BY <1>3 DEF PageTyped
  <1>5. /\ q \in Pages /\ q.scope = page.scope /\ q.stream = page.stream /\ q.held = page.held /\ q.calls = page.calls
        /\ q.error = page.error /\ q.paused = TRUE /\ q.events = page.events /\ q.buffered = page.buffered
        /\ Attends(page, q)
    BY <1>1, <1>4 DEF Pages, Attends
  <1>6. PageTyped(q, happened) /\ CallsFit(q, streaming) /\ DetailFits(q)
    BY <1>3, <1>5 DEF PageTyped, CallsFit, DetailFits, ChosenFits, Attends
  <1>7. ASSUME NEW w, \A n : Comes(wire, n) => Comes(w, n)
        PROVE  ScopeFits(q, happened, gap) /\ Accounted(q, w, happened, gap)
    BY <1>3, <1>5, <1>7, Rearranges
  <1> QED
    BY <1>2, <1>3, <1>6, <1>7, UseFits

(* What was put apart is merged: what is among the newest of all is kept. *)
LEMMA ResumeKeeps == ASSUME AuditInv, Resume PROVE AuditInv'
  <1> DEFINE E == Merge(page.events, page.buffered, LoadedLimit)
  <1>1. PICK q : q = [page EXCEPT !.events = E, !.buffered = {}, !.paused = FALSE]
    OBVIOUS
  <1>2. Uses(q) /\ streaming' = streaming /\ gap' = gap
    BY <1>1 DEF Resume
  <1>3. /\ PageTyped(page, happened) /\ CallsFit(page, streaming) /\ DetailFits(page) /\ happened \in Nat
        /\ ScopeFits(page, happened, gap) /\ Accounted(page, wire, happened, gap) /\ gap \in BOOLEAN
    BY HappenedIsNat DEF AuditInv, Fits, Typed
  <1>4. page \in Pages /\ E \subseteq page.events \cup page.buffered
    BY <1>3, MergeIsAPart DEF PageTyped
  <1>8. ASSUME gap = FALSE, Exact(page), NEW n \in Newest(page.scope, happened), n \in page.events \cup page.buffered
        PROVE  n \in E
    <2>1. page.events \cup page.buffered \subseteq InScope(page.scope, happened)
      BY <1>3, <1>8 DEF ScopeFits, Exact, Wide
    <2>2. /\ Cardinality({m \in InScope(page.scope, happened) : m > n}) < LoadedLimit /\ LoadedLimit \in Nat
          /\ InScope(page.scope, happened) \subseteq 1 .. happened
      BY <1>8, AuditAssumption DEF Newest, InScope
    <2> QED
      BY <1>3, <1>8, <2>1, <2>2, MergeKeepsTheNewest
  <1> HIDE DEF E
  <1>9. page.events \subseteq Record /\ page.buffered \subseteq Record
    BY <1>4 DEF Pages
  <1>5. /\ q \in Pages /\ q.scope = page.scope /\ q.stream = page.stream /\ q.held = page.held /\ q.calls = page.calls
        /\ q.error = page.error /\ q.paused = FALSE /\ q.events = E /\ q.buffered = {}
        /\ Attends(page, q)
    BY <1>1, <1>4, <1>9 DEF Pages, Attends
  <1>6. PageTyped(q, happened) /\ CallsFit(q, streaming) /\ DetailFits(q)
    BY <1>3, <1>4, <1>5 DEF PageTyped, CallsFit, DetailFits, ChosenFits, Attends
  <1>7. ASSUME NEW w, \A n : Comes(wire, n) => Comes(w, n)
        PROVE  ScopeFits(q, happened, gap) /\ Accounted(q, w, happened, gap)
    BY <1>3, <1>4, <1>5, <1>7, <1>8, Rearranges
  <1> QED
    BY <1>2, <1>3, <1>6, <1>7, UseFits

(* What was put apart is dropped, which leaves a gap. *)
LEMMA DiscardKeeps == ASSUME AuditInv, Discard PROVE AuditInv'
  <1>1. PICK q : q = [page EXCEPT !.buffered = {}, !.paused = FALSE]
    OBVIOUS
  <1>2. Uses(q) /\ streaming' = streaming /\ gap' = (gap \/ page.buffered # {})
    BY <1>1 DEF Discard
  <1>3. /\ PageTyped(page, happened) /\ CallsFit(page, streaming) /\ DetailFits(page) /\ happened \in Nat
        /\ ScopeFits(page, happened, gap) /\ Accounted(page, wire, happened, gap) /\ gap \in BOOLEAN
    BY HappenedIsNat DEF AuditInv, Fits, Typed
  <1>4. page \in Pages
    BY <1>3 DEF PageTyped
  <1>5. /\ q \in Pages /\ q.scope = page.scope /\ q.stream = page.stream /\ q.held = page.held /\ q.calls = page.calls
        /\ q.error = page.error /\ q.paused = FALSE /\ q.events = page.events /\ q.buffered = {}
        /\ Attends(page, q)
    BY <1>1, <1>4 DEF Pages, Attends
  <1>6. PageTyped(q, happened) /\ CallsFit(q, streaming) /\ DetailFits(q)
    BY <1>3, <1>5 DEF PageTyped, CallsFit, DetailFits, ChosenFits, Attends
  <1>8. PICK g \in BOOLEAN : g = gap' /\ (g = FALSE => gap = FALSE /\ page.buffered = {})
    BY <1>2, <1>3
  <1>7. ASSUME NEW w, \A n : Comes(wire, n) => Comes(w, n)
        PROVE  ScopeFits(q, happened, g) /\ Accounted(q, w, happened, g)
    BY <1>3, <1>5, <1>7, <1>8, Rearranges
  <1> QED
    BY <1>2, <1>6, <1>7, <1>8, UseFits

(* Off the stream nothing is owed. *)
LEMMA OffFits ==
    ASSUME NEW h, NEW p, NEW g, ScopeFits(p, h, g), NEW q, ~On(q), \A c \in q.calls : ~Fresh(c),
           q.scope = p.scope, q.paused = p.paused, q.events = p.events, q.buffered = p.buffered, NEW w
    PROVE  ScopeFits(q, h, g) /\ Accounted(q, w, h, g)
  BY DEF ScopeFits, Accounted, Level, On

(* Another scope; the snapshot that was under way is stale. *)
LEMMA SubmitKeeps == ASSUME AuditInv, NEW scope \in Scope, Submit(scope) PROVE AuditInv'
  <1>1. PICK p : p = [page EXCEPT !.scope = scope, !.asked = IF Key(scope) = Key(page.scope) THEN page.asked ELSE 0]
    OBVIOUS
  <1>2. PICK r \in BOOLEAN : r = FALSE
    OBVIOUS
  <1>3. PICK q : q = LoadSnapshot(p, r)
    OBVIOUS
  <1>4. Uses(q) /\ streaming' = streaming /\ gap' = (gap \/ scope # page.scope)
    BY <1>1, <1>2, <1>3 DEF Submit
  <1>5. /\ PageTyped(page, happened) /\ CallsFit(page, streaming) /\ DetailFits(page) /\ happened \in Nat
        /\ ScopeFits(page, happened, gap) /\ Accounted(page, wire, happened, gap) /\ gap \in BOOLEAN
    BY HappenedIsNat DEF AuditInv, Fits, Typed
  <1>6. page \in Pages /\ scope \in Scopes
    BY <1>5, AuditAssumption DEF PageTyped, Scopes
  <1>7. PICK a \in {0, page.asked} : p = [page EXCEPT !.scope = scope, !.asked = a]
    BY <1>1
  <1>8. /\ p \in Pages /\ p.scope = scope /\ p.asked = a /\ p.stream = page.stream /\ p.held = page.held
        /\ p.calls = page.calls /\ p.error = page.error /\ p.paused = page.paused /\ p.events = page.events
        /\ p.buffered = page.buffered /\ p.chosen = page.chosen /\ p.detail = page.detail /\ p.related = page.related
    BY <1>6, <1>7 DEF Pages
  <1>9. PageTyped(p, happened) /\ CallsFit(p, streaming) /\ DetailFits(p)
    BY <1>5, <1>8 DEF PageTyped, CallsFit, DetailFits, ChosenFits
  <1>10. PICK g \in BOOLEAN : g = gap' /\ (g = FALSE => gap = FALSE /\ scope = page.scope)
    BY <1>4, <1>5
  <1>11. /\ Level(p) /\ (~p.paused => p.buffered = {})
         /\ g = FALSE => p.events \cup p.buffered \subseteq Wide(p.scope, happened)
    BY <1>5, <1>8, <1>10 DEF ScopeFits, Level
  <1>12. /\ PageTyped(q, happened) /\ CallsFit(q, streaming) /\ DetailFits(q)
         /\ \A w : ScopeFits(q, happened, g) /\ Accounted(q, w, happened, g)
    <2>1. PICK s : s = streaming
      OBVIOUS
    <2>2. CallsFit(p, s)
      BY <1>9, <2>1
    <2> QED
      BY <1>2, <1>3, <1>5, <1>9, <1>11, <2>1, <2>2, ReloadFits
  <1> QED
    BY <1>4, <1>10, <1>12, UseFits

(* A record is chosen; the address loses the run or the thread it had. *)
LEMMA ChooseKeeps == ASSUME AuditInv, NEW n \in Record, Choose(n) PROVE AuditInv'
  <1>1. PICK x : x = Address(page, n)
    OBVIOUS
  <1>2. PICK q : q = SyncFromRoute(x)
    OBVIOUS
  <1>3. /\ PageTyped(page, happened) /\ CallsFit(page, streaming) /\ DetailFits(page) /\ happened \in Nat
        /\ ScopeFits(page, happened, gap) /\ Accounted(page, wire, happened, gap) /\ gap \in BOOLEAN
    BY HappenedIsNat DEF AuditInv, Fits, Typed
  <1>4. Uses(q) /\ streaming' = streaming /\ page' = q /\ gap' = (gap \/ page.scope # q.scope)
    BY <1>1, <1>2 DEF Choose, SelectAuditId, Uses
  <1>5. /\ PageTyped(x, happened) /\ CallsFit(x, streaming) /\ DetailFits(x) /\ Quiet(page, x)
    BY <1>1, <1>3, AddressFits DEF DetailFits
  <1>6. PICK g \in BOOLEAN : g = gap' /\ g = (gap \/ page.scope # q.scope)
    BY <1>3, <1>4
  <1>7. CASE Key(x.scope) = ""
    <2>1. q = x
      BY <1>2, <1>7 DEF SyncFromRoute
    <2>2. Advance(page, q, happened, {}) /\ q.events = page.events /\ q.buffered = page.buffered /\ q.held = page.held
      BY <1>5, <2>1, QuietAdvances DEF Quiet, Same
    <2>3. ASSUME NEW w, \A m : Comes(wire, m) => Comes(w, m)
          PROVE  ScopeFits(q, happened, g) /\ Accounted(q, w, happened, g)
      <3>1. PICK ns : ns = {}
        OBVIOUS
      <3>2. On(q) => \A m : Comes(wire, m) => Comes(w, m) \/ m \in q.held \/ (m \in ns /\ q.stream # "restoring")
        BY <2>3
      <3>3. \A m \in ns \cup page.buffered : m \in q.events \cup q.buffered
        BY <2>2, <3>1
      <3>4. PICK g0 : g0 = gap /\ (g = FALSE => g0 = FALSE)
        <4>1. g = FALSE => gap = FALSE
          BY <1>3, <1>6
        <4> QED
          BY <4>1, Zenon
      <3>5. PICK s : s = streaming
        OBVIOUS
      <3>6. ScopeFits(page, happened, g0) /\ Accounted(page, wire, happened, g0) /\ CallsFit(q, s)
        BY <1>3, <1>5, <2>1, <3>4, <3>5
      <3>7. Advance(page, q, happened, ns)
        BY <2>2, <3>1
      <3> QED
        BY <3>2, <3>3, <3>4, <3>6, <3>7, Advances
    <2>4. PICK s : s = streaming
      OBVIOUS
    <2>5. PageTyped(q, happened) /\ CallsFit(q, s) /\ DetailFits(q) /\ s = streaming'
      BY <1>4, <1>5, <2>1, <2>4
    <2> QED
      BY <1>4, <1>6, <2>3, <2>5, UseFits
  <1>8. CASE Key(x.scope) # ""
    <2>1. PICK s : s = streaming
      OBVIOUS
    <2>2. Level(x) /\ (~x.paused => x.buffered = {}) /\ CallsFit(x, s) /\ x.scope = page.scope
      BY <1>3, <1>5, <2>1 DEF Quiet, Same, ScopeFits, Level
    <2>3. PICK t : t # FALSE /\ t = TRUE
      OBVIOUS
    <2>4. /\ PageTyped(q, happened) /\ CallsFit(q, s) /\ DetailFits(q) /\ q.scope # x.scope
          /\ \A w : ScopeFits(q, happened, t) /\ Accounted(q, w, happened, t)
      BY <1>2, <1>3, <1>5, <1>8, <2>2, <2>3, SyncFits
    <2>5. g = t
      BY <1>6, <2>2, <2>3, <2>4
    <2>6. \A w : ScopeFits(q, happened, g) /\ Accounted(q, w, happened, g)
      BY <2>4, <2>5
    <2> QED
      BY <1>4, <1>6, <2>1, <2>4, <2>6, UseFits
  <1> QED
    BY <1>7, <1>8

(* The subscription is installed again after an error. *)
LEMMA RetryKeeps == ASSUME AuditInv, Retry PROVE AuditInv'
  <1>1. PICK q : q = Install(page)
    OBVIOUS
  <1>2. Uses(q) /\ streaming' = FALSE /\ gap' = gap
    BY <1>1 DEF Retry
  <1>3. /\ PageTyped(page, happened) /\ CallsFit(page, streaming) /\ DetailFits(page) /\ happened \in Nat
        /\ ScopeFits(page, happened, gap) /\ gap \in BOOLEAN
    BY HappenedIsNat DEF AuditInv, Fits, Typed
  <1>4. PICK s : s = streaming'
    OBVIOUS
  <1>5. /\ PageTyped(q, happened) /\ CallsFit(q, s) /\ q.asked = page.asked /\ q.chosen = page.chosen
        /\ q.conn = page.conn /\ q.scope = page.scope
        /\ q.events = page.events /\ q.buffered = page.buffered /\ q.paused = page.paused
        /\ ChosenFits(page) => ChosenFits(q)
        /\ ~On(q) /\ \A c \in q.calls : ~Fresh(c)
    <2>1. PICK old : old = streaming
      OBVIOUS
    <2>2. CallsFit(page, old)
      BY <1>3, <2>1
    <2>3. PageTyped(q, happened) /\ CallsFit(q, s) /\ (ChosenFits(page) => ChosenFits(q)) /\ Installed(page, q)
      BY <1>1, <1>3, <2>2, InstallFits
    <2> QED
      BY <2>3 DEF Installed
  <1>6. DetailFits(q)
    BY <1>3, <1>5 DEF DetailFits
  <1>7. ASSUME NEW w, \A m : Comes(wire, m) => Comes(w, m)
        PROVE  ScopeFits(q, happened, gap) /\ Accounted(q, w, happened, gap)
    BY <1>3, <1>5, OffFits
  <1> QED
    BY <1>2, <1>3, <1>4, <1>5, <1>6, <1>7, UseFits

-----------------------------------------------------------------------------
(* The connection and the server.                                          *)

(* A timeline of everything, or of a run, receives what is of its scope. *)
LEMMA ReceivesItsScope ==
    ASSUME NEW p, NEW h, Exact(p), NEW n \in InScope(p.scope, h) PROVE Receives(p, n)
  BY DEF Exact, InScope, Matches, Receives

(* A paused timeline that did not overflow holds what it received. *)
LEMMA NoOverflow ==
    ASSUME NEW p, NEW q, NEW ns, NEW h, ~Overflows(p, q, ns), p.paused, Exact(p), NEW n \in ns \cup p.buffered,
           n \in Newest(p.scope, h)
    PROVE  n \in q.events \cup q.buffered
  <1>1. Receives(p, n)
    BY ReceivesItsScope DEF Newest
  <1> QED
    BY <1>1 DEF Overflows

(* A connection that is lost, and one that comes back. *)
LEMMA DropKeeps == ASSUME AuditInv, Drop PROVE AuditInv'
  <1>1. /\ PageTyped(page, happened) /\ CallsFit(page, streaming) /\ DetailFits(page) /\ happened \in Nat
        /\ ScopeFits(page, happened, gap) /\ gap \in BOOLEAN /\ happened \in 0 .. Len(RunOf)
    BY HappenedIsNat DEF AuditInv, Fits, Typed
  <1>2. PICK p : p = [page EXCEPT !.conn = "reconnecting"]
    OBVIOUS
  <1>3. /\ p \in Pages /\ p.conn = "reconnecting" /\ p.scope = page.scope /\ p.asked = page.asked /\ p.stream = page.stream
        /\ p.held = page.held /\ p.calls = page.calls /\ p.paused = page.paused /\ p.events = page.events
        /\ p.buffered = page.buffered /\ p.chosen = page.chosen /\ p.detail = page.detail /\ p.related = page.related
    BY <1>1, <1>2 DEF PageTyped, Pages
  <1>4. PageTyped(p, happened) /\ CallsFit(p, streaming) /\ ChosenFits(p)
    BY <1>1, <1>3 DEF PageTyped, CallsFit, DetailFits, ChosenFits
  <1>5. PICK s : s = streaming'
    OBVIOUS
  <1>25. PICK old : old = streaming
    OBVIOUS
  <1>26. CallsFit(p, old)
    BY <1>4, <1>25
  <1>6. PICK x : x = Install(p)
    OBVIOUS
  <1>7. /\ PageTyped(x, happened) /\ x.asked = p.asked /\ x.chosen = p.chosen
        /\ x.conn = p.conn /\ x.scope = p.scope
        /\ x.events = p.events /\ x.buffered = p.buffered /\ x.paused = p.paused
        /\ ChosenFits(x) /\ ~On(x)
        /\ \A c \in x.calls : c.what \in Detail /\ c.latest
    <2>1. PageTyped(x, happened) /\ CallsFit(x, s) /\ (ChosenFits(p) => ChosenFits(x)) /\ Installed(p, x)
      BY <1>1, <1>4, <1>6, <1>26, InstallFits
    <2> QED
      BY <1>3, <1>4, <2>1 DEF Installed
  <1>8. PICK q : q = page'
    OBVIOUS
  <1> DEFINE failed(what) == {c.item : c \in {d \in x.calls : d.what = what}}
  <1>9. q = [x EXCEPT !.calls = {}, !.detailError = @ \/ failed("get") # {},
                      !.related = IF failed("resolve") = {} THEN @ ELSE Max(failed("resolve")),
                      !.threadError = @ \/ failed("thread") # {}]
    BY <1>2, <1>6, <1>8 DEF Drop
  <1>10. x \in Pages
    BY <1>7 DEF PageTyped
  <1>11. PICK r \in {x.related, x.chosen} : r = IF failed("resolve") = {} THEN x.related ELSE Max(failed("resolve"))
    <2>1. failed("resolve") \subseteq {x.chosen}
      BY <1>7 DEF ChosenFits
    <2>2. CASE failed("resolve") # {}
      <3>1. failed("resolve") = {x.chosen}
        BY <2>1, <2>2
      <3>2. x.chosen \in Nat
        BY <1>10, LenProperties, AuditAssumption DEF Pages, Record
      <3> HIDE DEF failed
      <3>3. \A y : y \in failed("resolve") <=> y = x.chosen
        BY <3>1
      <3>4. Max(failed("resolve")) = x.chosen
        BY <3>2, <3>3 DEF Max
      <3> QED
        BY <2>2, <3>4
    <2>3. CASE failed("resolve") = {}
      BY <2>3
    <2> HIDE DEF failed
    <2> QED
      BY <2>2, <2>3
  <1>12. PICK e \in BOOLEAN : e = (x.detailError \/ failed("get") # {})
    BY <1>10 DEF Pages
  <1>13. PICK f \in BOOLEAN : f = (x.threadError \/ failed("thread") # {})
    BY <1>10 DEF Pages
  <1> HIDE DEF failed
  <1>14. q = [x EXCEPT !.calls = {}, !.detailError = e, !.related = r, !.threadError = f]
    BY <1>9, <1>11, <1>12, <1>13
  <1>24. q \in Pages
    <2>1. r \in {0} \cup Record
      BY <1>10, <1>11 DEF Pages
    <2>2. {} \in SUBSET Calls
      OBVIOUS
    <2>3. PICK y : y = [x EXCEPT !.calls = {}]
      OBVIOUS
    <2>4. y \in Pages
      BY <1>10, <2>2, <2>3 DEF Pages
    <2>5. q = [y EXCEPT !.detailError = e, !.related = r, !.threadError = f]
      BY <1>14, <2>3
    <2>6. e \in BOOLEAN /\ f \in BOOLEAN
      BY <1>12, <1>13
    <2>7. [y EXCEPT !.related = r] \in Pages
      BY <2>1, <2>4 DEF Pages
    <2>8. [[y EXCEPT !.related = r] EXCEPT !.detailError = e] \in Pages
      BY <2>6, <2>7 DEF Pages
    <2>9. [[[y EXCEPT !.related = r] EXCEPT !.detailError = e] EXCEPT !.threadError = f] \in Pages
      BY <2>6, <2>8 DEF Pages
    <2>10. q = [[[y EXCEPT !.related = r] EXCEPT !.detailError = e] EXCEPT !.threadError = f]
      BY <2>4, <2>5 DEF Pages
    <2> QED
      BY <2>9, <2>10
  <1>15. /\ q \in Pages /\ q.calls = {} /\ q.related = r /\ q.scope = x.scope /\ q.asked = x.asked /\ q.stream = x.stream
         /\ q.held = x.held /\ q.paused = x.paused /\ q.events = x.events
         /\ q.buffered = x.buffered /\ q.chosen = x.chosen /\ q.detail = x.detail
    BY <1>10, <1>14, <1>24 DEF Pages
  <1>16. PageTyped(q, happened)
    BY <1>7, <1>15 DEF PageTyped
  <1>17. DetailFits(q)
    BY <1>1, <1>3, <1>7, <1>11, <1>15 DEF DetailFits, ChosenFits
  <1>18. ~On(q) /\ CallsFit(q, s)
    BY <1>7, <1>15 DEF On, CallsFit
  <1>19. /\ \A c \in q.calls : ~Fresh(c)
         /\ q.scope = page.scope /\ q.paused = page.paused /\ q.events = page.events /\ q.buffered = page.buffered
    BY <1>3, <1>7, <1>15
  <1>20. PICK w : w = wire'
    OBVIOUS
  <1>21. ScopeFits(q, happened, gap) /\ Accounted(q, w, happened, gap)
    BY <1>1, <1>18, <1>19, OffFits
  <1>22. w \in Seq(Messages(happened)) /\ happened' = happened /\ gap' = gap
    BY <1>20, EmptySeq DEF Drop
  <1>23. Fits(q, w, happened, gap, s)
    BY <1>1, <1>16, <1>17, <1>18, <1>21, <1>22 DEF Fits, Typed
  <1> QED
    BY <1>5, <1>8, <1>20, <1>22, <1>23 DEF AuditInv

(* It comes back, or is given up. *)
LEMMA ReconnectKeeps == ASSUME AuditInv, Reconnect PROVE AuditInv'
  <1>1. /\ PageTyped(page, happened) /\ CallsFit(page, streaming) /\ DetailFits(page) /\ happened \in Nat
        /\ ScopeFits(page, happened, gap) /\ gap \in BOOLEAN /\ Typed(page, wire, happened)
    BY HappenedIsNat DEF AuditInv, Fits, Typed
  <1>2. PICK t \in {"authenticated", "failed"} : page' = Install([page EXCEPT !.conn = t])
    BY DEF Reconnect
  <1>3. PICK p : p = [page EXCEPT !.conn = t]
    OBVIOUS
  <1>4. /\ p \in Pages /\ p.scope = page.scope /\ p.asked = page.asked /\ p.stream = page.stream
        /\ p.held = page.held /\ p.calls = page.calls /\ p.paused = page.paused /\ p.events = page.events
        /\ p.buffered = page.buffered /\ p.chosen = page.chosen /\ p.detail = page.detail /\ p.related = page.related
    BY <1>1, <1>3 DEF PageTyped, Pages
  <1>5. PageTyped(p, happened) /\ CallsFit(p, streaming) /\ ChosenFits(p)
    BY <1>1, <1>4 DEF PageTyped, CallsFit, DetailFits, ChosenFits
  <1>6. PICK s : s = streaming
    OBVIOUS
  <1>7. PICK q : q = Install(p)
    OBVIOUS
  <1>8. /\ PageTyped(q, happened) /\ CallsFit(q, s) /\ q.asked = p.asked /\ q.chosen = p.chosen
        /\ q.conn = p.conn /\ q.scope = p.scope
        /\ q.events = p.events /\ q.buffered = p.buffered /\ q.paused = p.paused
        /\ ChosenFits(p) => ChosenFits(q)
        /\ ~On(q) /\ \A c \in q.calls : ~Fresh(c)
    <2>1. PICK old : old = streaming
      OBVIOUS
    <2>2. CallsFit(p, old)
      BY <1>5, <2>1
    <2>3. PageTyped(q, happened) /\ CallsFit(q, s) /\ (ChosenFits(p) => ChosenFits(q)) /\ Installed(p, q)
      BY <1>1, <1>5, <1>7, <2>2, InstallFits
    <2> QED
      BY <1>5, <2>3 DEF Installed
  <1>9. DetailFits(q)
    BY <1>1, <1>4, <1>5, <1>8 DEF DetailFits
  <1>10. PICK w : w = wire
    OBVIOUS
  <1>11. q.scope = page.scope /\ q.paused = page.paused /\ q.events = page.events /\ q.buffered = page.buffered
    BY <1>4, <1>8
  <1>12. ScopeFits(q, happened, gap) /\ Accounted(q, w, happened, gap)
    BY <1>1, <1>8, <1>11, OffFits
  <1>13. Fits(q, w, happened, gap, s)
    BY <1>1, <1>8, <1>9, <1>10, <1>12 DEF Fits, Typed
  <1>14. page' = q /\ wire' = w /\ streaming' = s /\ happened' = happened /\ gap' = gap
    BY <1>2, <1>3, <1>6, <1>7, <1>10 DEF Reconnect
  <1> QED
    BY <1>13, <1>14 DEF AuditInv

(* An answer is queued. *)
LEMMA QueueFits ==
    ASSUME AuditInv, NEW c \in page.calls, c.got = "none",
           NEW got \in {"ok", "absent", "error"}, NEW list, list \subseteq 1 .. happened, Queue(c, got, list),
           c.what = "snapshot" => got # "absent",
           Fresh(c) /\ got = "ok" =>
             /\ list \subseteq InScope(page.scope, happened)
             /\ Exact(page) => \A n \in Newest(page.scope, happened) : n \in list \/ ((\A m \in list : m < n) /\ n > c.since),
           streaming => streaming', c.what = "subscribe" => streaming', happened' = happened, gap' = gap
    PROVE  AuditInv'
  <1>1. /\ PageTyped(page, happened) /\ CallsFit(page, streaming) /\ DetailFits(page) /\ happened \in Nat
        /\ ScopeFits(page, happened, gap) /\ gap \in BOOLEAN /\ Typed(page, wire, happened)
        /\ Accounted(page, wire, happened, gap) /\ happened \in 0 .. Len(RunOf) /\ Len(RunOf) \in Nat
    BY HappenedIsNat DEF AuditInv, Fits, Typed
  <1>2. page \in Pages /\ c \in Calls
    BY <1>1 DEF PageTyped, Pages
  <1>3. PICK d : d = [c EXCEPT !.got = got, !.list = list, !.since = 0]
    OBVIOUS
  <1>4. list \subseteq Record
    <2>1. Record = 1 .. Len(RunOf)
      BY LenProperties, AuditAssumption DEF Record
    <2>2. 1 .. happened \subseteq Record
      BY <1>1, <2>1
    <2> QED
      BY <2>2
  <1>5. /\ d \in Calls /\ d.what = c.what /\ d.item = c.item /\ d.latest = c.latest /\ d.restores = c.restores
        /\ d.got = got /\ d.list = list
    BY <1>2, <1>3, <1>4 DEF Calls
  <1>6. PICK q : q = [page EXCEPT !.calls = (page.calls \ {c}) \cup {d}]
    OBVIOUS
  <1>7. PICK w : w = Append(wire, Kind(d))
    OBVIOUS
  <1>8. page' = q /\ wire' = w
    BY <1>3, <1>6, <1>7 DEF Queue
  <1>9. page.calls \subseteq Calls
    BY <1>2 DEF Pages
  <1>10. /\ q \in Pages /\ q.calls = (page.calls \ {c}) \cup {d} /\ Same(page, q) /\ Attends(page, q)
    BY <1>2, <1>5, <1>6, <1>9 DEF Pages, Same, Attends
  <1>11. PageTyped(q, happened)
    BY <1>1, <1>5, <1>10 DEF PageTyped, Same
  <1>12. PICK s : s = streaming'
    OBVIOUS
  <1>13. CallsFit(q, s)
    <2>1. ASSUME NEW e \in q.calls, e.restores PROVE q.stream = Stage(e.what)
      BY <1>1, <1>5, <1>10, <2>1 DEF CallsFit, Same
    <2>2. ASSUME NEW e \in q.calls, NEW f \in q.calls, e.restores, f.restores PROVE e = f
      BY <1>1, <1>5, <1>10, <2>2 DEF CallsFit
    <2>3. ASSUME NEW e \in q.calls, e.what = "subscribe" PROVE e.restores /\ (e.got # "none" => s)
      BY <1>1, <1>5, <1>10, <1>12, <2>3 DEF CallsFit
    <2>4. ASSUME NEW e \in q.calls, NEW f \in q.calls, e.what = "snapshot", e.latest, f.what = "snapshot", f.latest
          PROVE  e = f
      BY <1>1, <1>5, <1>10, <2>4 DEF CallsFit
    <2>5. ASSUME NEW e \in q.calls, e.what = "snapshot" PROVE e.got # "absent"
      BY <1>1, <1>5, <1>10, <2>5 DEF CallsFit
    <2>6. q.stream \in {"restoring", "live"} => s
      BY <1>1, <1>10, <1>12 DEF CallsFit, Same
    <2> QED
      BY <2>1, <2>2, <2>3, <2>4, <2>5, <2>6 DEF CallsFit
  <1>14. DetailFits(q)
    BY <1>1, <1>5, <1>10 DEF DetailFits, ChosenFits, Attends
  <1>15. w \in Seq(Messages(happened)) /\ \A n : Comes(wire, n) => Comes(w, n)
    <2>1. Kind(d) \in Messages(happened)
      BY <1>5 DEF Kind, Messages, Tokens, Calls, Kinds
    <2> QED
      BY <1>1, <1>7, <2>1, AppendKeeps DEF Typed
  <1>16. Exact(q) = Exact(page) /\ q.scope = page.scope
    BY <1>10 DEF Exact, Same
  <1>17. ScopeFits(q, happened, gap)
    <2>1. ASSUME NEW e \in q.calls, Fresh(e), e.got = "ok"
          PROVE  /\ e.list \subseteq InScope(q.scope, happened)
                 /\ Exact(q) => \A n \in Newest(q.scope, happened) : n \in e.list \/ \A m \in e.list : m < n
      <3>1. CASE e = d
        BY <1>5, <1>16, <2>1, <3>1 DEF Fresh
      <3>2. CASE e \in page.calls
        BY <1>1, <1>16, <2>1, <3>2 DEF ScopeFits
      <3> QED
        BY <1>10, <3>1, <3>2
    <2> QED
      BY <1>1, <1>10, <1>16, <2>1 DEF ScopeFits, Same, Level
  <1>18. \A n : (Kept(page, wire, n) => Kept(q, w, n)) /\ (OnItsWay(page, wire, n) => OnItsWay(q, w, n))
    BY <1>10, <1>15 DEF Kept, OnItsWay, Same
  <1>19. Accounted(q, w, happened, gap)
    <2>1. SUFFICES ASSUME On(q), Exact(q)
          PROVE  /\ gap = FALSE /\ q.error = FALSE /\ (\A e \in q.calls : ~Fresh(e)) =>
                      \A n \in Newest(q.scope, happened) : Kept(q, w, n)
                 /\ \A e \in q.calls : Fresh(e) => \A n \in Newest(q.scope, happened) : Beyond(e, n) =>
                      /\ gap = FALSE => Kept(q, w, n)
                      /\ e.restores => OnItsWay(q, w, n)
      BY DEF Accounted
    <2>2. On(page) /\ Exact(page)
      BY <1>10, <1>16, <2>1 DEF On, Same
    <2>3. ASSUME gap = FALSE, q.error = FALSE, \A e \in q.calls : ~Fresh(e), NEW n \in Newest(q.scope, happened)
          PROVE  Kept(q, w, n)
      <3>1. \A e \in page.calls : ~Fresh(e)
        BY <1>5, <1>10, <2>3 DEF Fresh
      <3>2. page.error = FALSE
        BY <1>10, <2>3 DEF Same
      <3> QED
        BY <1>1, <1>16, <1>18, <2>2, <2>3, <3>1, <3>2 DEF Accounted
    <2>4. ASSUME NEW e \in q.calls, Fresh(e), NEW n \in Newest(q.scope, happened), Beyond(e, n)
          PROVE  (gap = FALSE => Kept(q, w, n)) /\ (e.restores => OnItsWay(q, w, n))
      <3>1. PICK f \in page.calls : Fresh(f) /\ Beyond(f, n) /\ f.restores = e.restores
        <4>1. CASE e = d
          <5>1. Fresh(c) /\ got = "ok" /\ \A m \in list : m < n
            BY <1>5, <2>4, <4>1 DEF Fresh, Beyond
          <5>2. n \notin list
            <6>1. n \in Int
              BY <2>4 DEF Newest, InScope
            <6> QED
              BY <5>1, <6>1
          <5>3. n > c.since
            BY <1>16, <2>2, <2>4, <5>1, <5>2
          <5> QED
            BY <1>5, <4>1, <5>1, <5>3 DEF Beyond
        <4>2. CASE e \in page.calls
          BY <2>4, <4>2
        <4> QED
          BY <1>10, <4>1, <4>2
      <3> QED
        BY <1>1, <1>16, <1>18, <2>2, <2>4, <3>1 DEF Accounted
    <2> QED
      BY <2>3, <2>4
  <1>20. Fits(q, w, happened, gap, s)
    BY <1>1, <1>11, <1>13, <1>14, <1>15, <1>17, <1>19 DEF Fits, Typed
  <1> QED
    BY <1>8, <1>12, <1>20 DEF AuditInv

(* What the server answers. *)
LEMMA AnswersFit ==
    ASSUME AuditInv, NEW c \in page.calls, NEW answer \in Answers(c)
    PROVE  /\ answer[1] \in {"ok", "absent", "error"} /\ answer[2] \subseteq 1 .. happened
           /\ c.what = "snapshot" => answer[1] # "absent"
           /\ Fresh(c) /\ answer[1] = "ok" =>
                /\ answer[2] \subseteq InScope(page.scope, happened)
                /\ Exact(page) => \A n \in Newest(page.scope, happened) :
                                     n \in answer[2] \/ ((\A m \in answer[2] : m < n) /\ n > c.since)
  <1>1. c \in Calls /\ happened \in Nat
    BY HappenedIsNat DEF AuditInv, Fits, Typed, PageTyped, Pages
  <1>2. CASE Fresh(c)
    <2>1. PICK k \in c.since .. happened :
            answer = <<"ok", IF page.scope = "all" THEN Merge({}, 1 .. k, LoadedLimit) ELSE InScope(page.scope, k)>>
      <3>1. c.what = "snapshot" /\ c.latest
        BY <1>2 DEF Fresh
      <3> QED
        BY <3>1 DEF Answers
    <2>2. PICK list : list = IF page.scope = "all" THEN Merge({}, 1 .. k, LoadedLimit) ELSE InScope(page.scope, k)
      OBVIOUS
    <2>3. answer[1] = "ok" /\ answer[2] = list
      BY <2>1, <2>2
    <2>4. c.since \in Nat /\ k \in Nat /\ k <= happened /\ c.since <= k
      BY <1>1 DEF Calls
    <2>5. page.scope = "all" => InScope(page.scope, k) = 1 .. k
      BY DEF InScope, Matches
    <2>6. Merge({}, 1 .. k, LoadedLimit) \subseteq 1 .. k
      BY MergeIsAPart
    <2>7. list \subseteq InScope(page.scope, k)
      BY <2>2, <2>5, <2>6
    <2>8. InScope(page.scope, k) \subseteq InScope(page.scope, happened) /\ InScope(page.scope, happened) \subseteq 1 .. happened
      BY <1>1, <2>4, ScopeGrows
    <2>9. ASSUME NEW n \in Newest(page.scope, happened)
          PROVE  n \in list \/ ((\A m \in list : m < n) /\ n > c.since)
      <3>1. n \in Nat
        BY <1>1, <2>8, <2>9 DEF Newest
      <3>2. CASE n <= k
        <4>1. n \in Merge({}, InScope(page.scope, k), LoadedLimit) /\ n \in InScope(page.scope, k)
          BY <1>1, <2>4, <2>9, <3>2, ReadsTheNewest
        <4>2. page.scope = "all" => n \in Merge({}, 1 .. k, LoadedLimit)
          BY <2>5, <4>1
        <4> QED
          BY <2>2, <4>1, <4>2
      <3>3. CASE n > k
        <4>1. \A m \in list : m \in 1 .. k
          BY <2>7 DEF InScope
        <4> QED
          BY <2>4, <3>1, <3>3, <4>1
      <3> QED
        BY <2>4, <3>1, <3>2, <3>3
    <2> QED
      BY <2>3, <2>7, <2>8, <2>9
  <1>3. CASE ~Fresh(c)
    <2>1. c.latest \in BOOLEAN /\ ~(c.what = "snapshot" /\ c.latest)
      BY <1>1, <1>3 DEF Fresh, Calls
    <2>2. (answer[1] = "ok" \/ (answer[1] = "absent" /\ c.what # "snapshot")) /\ answer[2] = {}
      BY <2>1 DEF Answers
    <2> QED
      BY <1>3, <2>2
  <1> QED
    BY <1>2, <1>3

(* The server answers, or refuses. *)
LEMMA ServeKeeps == ASSUME AuditInv, NEW c \in page.calls, Serve(c) PROVE AuditInv'
  <1>1. PICK answer \in Answers(c) : Queue(c, answer[1], answer[2])
    BY DEF Serve
  <1>2. PICK got : got = answer[1]
    OBVIOUS
  <1>3. PICK list : list = answer[2]
    OBVIOUS
  <1>4. /\ got \in {"ok", "absent", "error"} /\ list \subseteq 1 .. happened
        /\ c.what = "snapshot" => got # "absent"
        /\ Fresh(c) /\ got = "ok" =>
             /\ list \subseteq InScope(page.scope, happened)
             /\ Exact(page) => \A n \in Newest(page.scope, happened) :
                                  n \in list \/ ((\A m \in list : m < n) /\ n > c.since)
    BY <1>2, <1>3, AnswersFit
  <1>5. Queue(c, got, list) /\ c.got = "none"
    BY <1>1, <1>2, <1>3 DEF Serve
  <1>6. (streaming => streaming') /\ (c.what = "subscribe" => streaming') /\ happened' = happened /\ gap' = gap
    BY DEF Serve
  <1> QED
    BY <1>4, <1>5, <1>6, QueueFits

(* A request is refused. *)
LEMMA RefusesKeeps == ASSUME AuditInv, NEW c \in page.calls, Refuses(c) PROVE AuditInv'
  <1>1. PICK got \in {"ok", "absent", "error"} : got = "error"
    OBVIOUS
  <1>2. PICK list : list = {}
    OBVIOUS
  <1>3. Queue(c, got, list) /\ c.got = "none" /\ list \subseteq 1 .. happened
    BY <1>1, <1>2 DEF Refuses
  <1>4. (streaming => streaming') /\ (c.what = "subscribe" => streaming') /\ happened' = happened /\ gap' = gap
    BY DEF Refuses
  <1>5. /\ c.what = "snapshot" => got # "absent"
        /\ Fresh(c) /\ got = "ok" =>
             /\ list \subseteq InScope(page.scope, happened)
             /\ Exact(page) => \A n \in Newest(page.scope, happened) :
                                  n \in list \/ ((\A m \in list : m < n) /\ n > c.since)
    BY <1>1
  <1> QED
    BY <1>3, <1>4, <1>5, QueueFits

(* A record is stored. *)
LEMMA HappensKeeps == ASSUME AuditInv, Happens PROVE AuditInv'
  <1>1. /\ PageTyped(page, happened) /\ CallsFit(page, streaming) /\ DetailFits(page) /\ happened \in Nat
        /\ ScopeFits(page, happened, gap) /\ gap \in BOOLEAN /\ wire \in Seq(Messages(happened))
        /\ Accounted(page, wire, happened, gap) /\ happened \in 0 .. Len(RunOf) /\ Len(RunOf) \in Nat
    BY HappenedIsNat DEF AuditInv, Fits, Typed
  <1>2. PICK h \in Nat : h = happened
    BY <1>1
  <1>3. PICK k : k = h + 1
    OBVIOUS
  <1>4. k \in Record /\ happened' = k /\ page' = page /\ streaming' = streaming /\ gap' = gap
    BY <1>2, <1>3 DEF Happens
  <1>5. k \in 0 .. Len(RunOf) /\ k \in Nat /\ 1 .. h \subseteq 1 .. k
    BY <1>2, <1>3, <1>4, LenProperties, AuditAssumption DEF Record
  <1>6. PICK w : w = wire'
    OBVIOUS
  <1>7. Messages(h) \subseteq Messages(k) /\ <<"record", k>> \in Messages(k)
    <2>1. k \in 1 .. k
      BY <1>2, <1>3
    <2> QED
      BY <1>5, <2>1 DEF Messages, Records
  <1>8. wire \in Seq(Messages(k))
    BY <1>1, <1>2, <1>7, SeqDef
  <1>9. /\ w \in Seq(Messages(k)) /\ \A n : Comes(wire, n) => Comes(w, n)
        /\ streaming => Comes(w, k)
    <2>1. CASE streaming
      <3>1. PICK m \in Messages(k) : m = <<"record", k>>
        BY <1>7
      <3>2. w = Append(wire, m)
        BY <1>4, <1>6, <2>1, <3>1 DEF Happens
      <3>3. w \in Seq(Messages(k)) /\ \A n : Comes(wire, n) \/ m = <<"record", n>> => Comes(w, n)
        BY <1>8, <3>2, AppendKeeps
      <3> QED
        BY <3>1, <3>3
    <2>2. CASE ~streaming
      BY <1>6, <1>8, <2>2 DEF Happens
    <2> QED
      BY <2>1, <2>2
  <1>10. PageTyped(page, k)
    BY <1>1, <1>2, <1>5 DEF PageTyped
  <1>11. /\ InScope(page.scope, h) \subseteq InScope(page.scope, k)
         /\ Wide(page.scope, h) \subseteq Wide(page.scope, k)
    BY <1>2, <1>3, <1>5, ScopeGrows DEF Wide
  <1>12. ASSUME NEW n \in Newest(page.scope, k), n # k PROVE n \in Newest(page.scope, h)
    BY <1>3, <1>12, NewestShrink
  <1>13. ScopeFits(page, k, gap)
    <2>1. ASSUME NEW e \in page.calls, Fresh(e), e.got = "ok"
          PROVE  /\ e.list \subseteq InScope(page.scope, k)
                 /\ Exact(page) => \A n \in Newest(page.scope, k) : n \in e.list \/ \A m \in e.list : m < n
      <3>1. e.list \subseteq InScope(page.scope, h)
        BY <1>1, <1>2, <2>1 DEF ScopeFits
      <3>2. ASSUME Exact(page), NEW n \in Newest(page.scope, k)
            PROVE  n \in e.list \/ \A m \in e.list : m < n
        <4>1. CASE n = k
          <5>1. \A m \in e.list : m \in 1 .. h
            BY <3>1 DEF InScope
          <5> QED
            BY <1>2, <1>3, <4>1, <5>1
        <4>2. CASE n # k
          <5>1. n \in Newest(page.scope, h)
            BY <1>12, <4>2
          <5> QED
            BY <1>1, <1>2, <2>1, <3>2, <5>1 DEF ScopeFits
        <4> QED
          BY <4>1, <4>2
      <3> QED
        BY <1>11, <3>1, <3>2
    <2>2. ~page.paused => page.buffered = {}
      BY <1>1 DEF ScopeFits
    <2>3. gap = FALSE => page.events \cup page.buffered \subseteq Wide(page.scope, k)
      BY <1>1, <1>2, <1>11 DEF ScopeFits
    <2>4. Level(page)
      BY <1>1 DEF ScopeFits
    <2> QED
      BY <2>1, <2>2, <2>3, <2>4 DEF ScopeFits
  <1>14. \A n : (Kept(page, wire, n) => Kept(page, w, n)) /\ (OnItsWay(page, wire, n) => OnItsWay(page, w, n))
    BY <1>9 DEF Kept, OnItsWay
  <1>15. Accounted(page, w, k, gap)
    <2>1. SUFFICES ASSUME On(page), Exact(page)
          PROVE  /\ gap = FALSE /\ page.error = FALSE /\ (\A e \in page.calls : ~Fresh(e)) =>
                      \A n \in Newest(page.scope, k) : Kept(page, w, n)
                 /\ \A e \in page.calls : Fresh(e) => \A n \in Newest(page.scope, k) : Beyond(e, n) =>
                      /\ gap = FALSE => Kept(page, w, n)
                      /\ e.restores => OnItsWay(page, w, n)
      BY DEF Accounted
    <2>2. OnItsWay(page, w, k) /\ Kept(page, w, k)
      BY <1>1, <1>9, <2>1 DEF On, CallsFit, OnItsWay, Kept
    <2>3. ASSUME gap = FALSE, page.error = FALSE, \A e \in page.calls : ~Fresh(e), NEW n \in Newest(page.scope, k)
          PROVE  Kept(page, w, n)
      <3>1. CASE n # k
        <4>1. n \in Newest(page.scope, h)
          BY <1>12, <3>1
        <4> QED
          BY <1>1, <1>2, <1>14, <2>1, <2>3, <4>1 DEF Accounted
      <3> QED
        BY <2>2, <3>1
    <2>4. ASSUME NEW e \in page.calls, Fresh(e), NEW n \in Newest(page.scope, k), Beyond(e, n)
          PROVE  (gap = FALSE => Kept(page, w, n)) /\ (e.restores => OnItsWay(page, w, n))
      <3>1. CASE n # k
        <4>1. n \in Newest(page.scope, h)
          BY <1>12, <3>1
        <4> QED
          BY <1>1, <1>2, <1>14, <2>1, <2>4, <4>1 DEF Accounted
      <3> QED
        BY <2>2, <3>1
    <2> QED
      BY <2>3, <2>4
  <1>16. PICK p : p = page
    OBVIOUS
  <1>17. PICK s : s = streaming
    OBVIOUS
  <1>18. PICK g : g = gap
    OBVIOUS
  <1>19. Fits(p, w, k, g, s)
    BY <1>1, <1>5, <1>9, <1>10, <1>13, <1>15, <1>16, <1>17, <1>18 DEF Fits, Typed
  <1>20. page' = p /\ wire' = w /\ happened' = k /\ gap' = g /\ streaming' = s
    BY <1>4, <1>6, <1>16, <1>17, <1>18
  <1> QED
    BY <1>19, <1>20 DEF AuditInv

(* What is at the head of the queue. *)
LEMMA HeadIsARecord ==
    ASSUME NEW h, NEW m \in Messages(h), m[1] = "record"
    PROVE  m[2] \in 1 .. h /\ m = <<"record", m[2]>>
  <1>1. m \notin Tokens
    BY DEF Tokens
  <1>2. m \in Records(h)
    BY <1>1 DEF Messages
  <1> QED
    BY <1>2 DEF Records

(* A record arrives. *)
LEMMA ReceiveRecordKeeps == ASSUME AuditInv, ReceiveRecord PROVE AuditInv'
  <1>1. /\ PageTyped(page, happened) /\ CallsFit(page, streaming) /\ DetailFits(page)
        /\ ScopeFits(page, happened, gap) /\ Accounted(page, wire, happened, gap) /\ gap \in BOOLEAN
        /\ happened \in 0 .. Len(RunOf) /\ happened \in Nat /\ wire \in Seq(Messages(happened)) /\ wire # <<>>
    BY HappenedIsNat DEF AuditInv, Fits, Typed, ReceiveRecord
  <1>2. page \in Pages
    BY <1>1 DEF PageTyped
  <1>3. PICK w : w = Tail(wire)
    OBVIOUS
  <1>4. PICK n : n = Head(wire)[2]
    OBVIOUS
  <1>5. /\ w \in Seq(Messages(happened)) /\ Head(wire) \in Messages(happened)
        /\ \A m : Comes(wire, m) => Comes(w, m) \/ Head(wire) = <<"record", m>>
    BY <1>1, <1>3, TailKeeps
  <1>6. n \in 1 .. happened /\ Head(wire) = <<"record", n>>
    BY <1>4, <1>5, HeadIsARecord DEF ReceiveRecord
  <1>7. \A m : Comes(wire, m) => Comes(w, m) \/ m = n
    BY <1>5, <1>6
  <1>8. n \in Record
    BY <1>1, <1>6, LenProperties, AuditAssumption DEF Record
  <1>9. PICK q : q = page'
    OBVIOUS
  <1>10. PICK s : s = streaming
    OBVIOUS
  <1>11. /\ wire' = w /\ happened' = happened /\ streaming' = s
         /\ q = CASE page.stream = "live" -> ReceiveAll(page, {n})
                  [] page.stream \in {"asking", "restoring"} -> [page EXCEPT !.held = @ \cup {n}]
                  [] page.stream = "off" -> page
         /\ gap' = (gap \/ (page.stream = "live" /\ Overflows(page, q, {n})))
    BY <1>3, <1>4, <1>9, <1>10 DEF ReceiveRecord
  <1>12. PICK g \in BOOLEAN : g = gap' /\ (g = FALSE => gap = FALSE /\ ~(page.stream = "live" /\ Overflows(page, q, {n})))
    BY <1>1, <1>11
  <1>13. CallsFit(page, s)
    BY <1>1, <1>10
  <1>14. SUFFICES /\ PageTyped(q, happened) /\ CallsFit(q, s) /\ DetailFits(q)
                  /\ ScopeFits(q, happened, g) /\ Accounted(q, w, happened, g)
    <2>1. Fits(q, w, happened, g, s)
      BY <1>1, <1>5, <1>14 DEF Fits, Typed
    <2> QED
      BY <1>9, <1>11, <1>12, <2>1 DEF AuditInv
  <1>15. CASE page.stream = "off"
    <2>1. q = page
      BY <1>11, <1>15
    <2>2. PICK ns : ns = {}
      OBVIOUS
    <2>3. Advance(page, q, happened, ns)
      BY <2>1, <2>2, QuietAdvances DEF Quiet, Same
    <2>4. On(q) => \A m : Comes(wire, m) => Comes(w, m) \/ m \in q.held \/ (m \in ns /\ q.stream # "restoring")
      BY <1>15, <2>1 DEF On
    <2>5. g = FALSE /\ page.paused /\ Exact(page) =>
            \A m \in ns \cup page.buffered : m \in Newest(page.scope, happened) => m \in q.events \cup q.buffered
      BY <2>1, <2>2
    <2>6. CallsFit(q, s)
      BY <1>13, <2>1
    <2>7. ScopeFits(q, happened, g) /\ Accounted(q, w, happened, g)
      BY <1>1, <1>12, <2>3, <2>4, <2>5, <2>6, Advances
    <2> QED
      BY <1>1, <1>13, <2>1, <2>7
  <1>16. CASE page.stream \in {"asking", "restoring"}
    <2>1. q = [page EXCEPT !.held = page.held \cup {n}]
      BY <1>11, <1>16
    <2>2. /\ q \in Pages /\ q.scope = page.scope /\ q.asked = page.asked /\ q.stream = page.stream
          /\ q.held = page.held \cup {n} /\ q.calls = page.calls /\ q.error = page.error /\ q.paused = page.paused
          /\ q.events = page.events /\ q.buffered = page.buffered
          /\ q.chosen = page.chosen /\ q.detail = page.detail /\ q.related = page.related
      BY <1>2, <1>8, <2>1 DEF Pages
    <2>3. PageTyped(q, happened)
      BY <1>1, <1>6, <2>2 DEF PageTyped
    <2>4. CallsFit(q, s) /\ DetailFits(q)
      BY <1>1, <1>13, <2>2 DEF CallsFit, DetailFits, ChosenFits
    <2>5. PICK ns : ns = {}
      OBVIOUS
    <2>6. Level(q)
      BY <1>16, <2>2 DEF Level
    <2>7. Advance(page, q, happened, ns)
      BY <2>2, <2>5, <2>6 DEF Advance, On
    <2>8. On(q) => \A m : Comes(wire, m) => Comes(w, m) \/ m \in q.held \/ (m \in ns /\ q.stream # "restoring")
      BY <1>7, <2>2
    <2>9. g = FALSE /\ page.paused /\ Exact(page) =>
            \A m \in ns \cup page.buffered : m \in Newest(page.scope, happened) => m \in q.events \cup q.buffered
      BY <2>2, <2>5
    <2>10. ScopeFits(q, happened, g) /\ Accounted(q, w, happened, g)
      BY <1>1, <1>12, <2>4, <2>7, <2>8, <2>9, Advances
    <2> QED
      BY <2>3, <2>4, <2>10
  <1>17. CASE page.stream = "live"
    <2>1. PICK ns : ns = {n}
      OBVIOUS
    <2>2. q = ReceiveAll(page, ns) /\ ns \subseteq 1 .. happened
      BY <1>6, <1>11, <1>17, <2>1
    <2>3. PageTyped(q, happened) /\ Received(page, q, happened, ns)
      BY <1>1, <2>2, ReceiveAllFits
    <2>4. q = [page EXCEPT !.events = q.events, !.buffered = q.buffered]
      BY <2>3 DEF Received
    <2>5. /\ q \in Pages /\ q.scope = page.scope /\ q.asked = page.asked /\ q.stream = page.stream
          /\ q.held = page.held /\ q.calls = page.calls /\ q.error = page.error /\ q.paused = page.paused
          /\ q.chosen = page.chosen /\ q.detail = page.detail /\ q.related = page.related
      BY <1>2, <2>3, <2>4 DEF Pages, PageTyped
    <2>6. CallsFit(q, s) /\ DetailFits(q)
      BY <1>1, <1>13, <2>5 DEF CallsFit, DetailFits, ChosenFits
    <2>7. Advance(page, q, happened, ns)
      <3>1. Exact(page) => Wide(page.scope, happened) = InScope(page.scope, happened)
        BY DEF Exact, Wide
      <3>2. /\ page.paused => q.events = page.events
            /\ ~page.paused => q.buffered = page.buffered
            /\ page.events \cup page.buffered \subseteq Wide(page.scope, happened) => q.events \cup q.buffered \subseteq Wide(page.scope, happened)
            /\ Exact(page) /\ ~page.paused /\ page.events \cup page.buffered \subseteq Wide(page.scope, happened) =>
                  \A m \in Newest(page.scope, happened) : m \in page.events \cup ns => m \in q.events
        BY <2>3, <3>1 DEF Received
      <3> QED
        BY <1>17, <2>5, <3>2 DEF Advance, On, Level
    <2>8. On(q) => \A m : Comes(wire, m) => Comes(w, m) \/ m \in q.held \/ (m \in ns /\ q.stream # "restoring")
      BY <1>7, <1>17, <2>1, <2>5
    <2>9. ASSUME g = FALSE, page.paused, Exact(page), NEW m \in ns \cup page.buffered, m \in Newest(page.scope, happened)
          PROVE  m \in q.events \cup q.buffered
      <3>1. ~Overflows(page, q, ns)
        BY <1>12, <1>17, <2>1, <2>9
      <3> QED
        BY <2>9, <3>1, NoOverflow
    <2>10. ScopeFits(q, happened, g) /\ Accounted(q, w, happened, g)
      BY <1>1, <1>12, <2>6, <2>7, <2>8, <2>9, Advances
    <2> QED
      BY <2>3, <2>6, <2>10
  <1> QED
    BY <1>2, <1>15, <1>16, <1>17 DEF Pages

-----------------------------------------------------------------------------
(* Answers.                                                                *)

(* An answer that is no snapshot to show. *)
LEMMA AnswerAdvances ==
    ASSUME AuditInv, NEW c \in page.calls, NEW p, NEW q, NEW ns, NEW s, CallsFit(q, s),
           p.scope = page.scope, p.buffered = page.buffered, p.paused = page.paused,
           Advance(page, q, happened, ns),
           NEW w, \A n : Comes(wire, n) => Comes(w, n),
           NEW g, g = FALSE => gap = FALSE /\ ~Overflows(p, q, c.list \cup ns)
    PROVE  ScopeFits(q, happened, g) /\ Accounted(q, w, happened, g)
  <1>1. ScopeFits(page, happened, gap) /\ Accounted(page, wire, happened, gap)
    BY DEF AuditInv, Fits
  <1>2. On(q) => \A m : Comes(wire, m) => Comes(w, m) \/ m \in q.held \/ (m \in ns /\ q.stream # "restoring")
    OBVIOUS
  <1>3. ASSUME g = FALSE, page.paused, Exact(page), NEW m \in ns \cup page.buffered, m \in Newest(page.scope, happened)
        PROVE  m \in q.events \cup q.buffered
    <2>1. PICK ms : ms = c.list \cup ns
      OBVIOUS
    <2>2. ~Overflows(p, q, ms) /\ p.paused /\ Exact(p) /\ m \in ms \cup p.buffered /\ m \in Newest(p.scope, happened)
      BY <1>3, <2>1 DEF Exact
    <2> QED
      BY <2>2, NoOverflow
  <1>4. g = FALSE => gap = FALSE
    OBVIOUS
  <1>5. g = FALSE /\ page.paused /\ Exact(page) =>
          \A m \in ns \cup page.buffered : m \in Newest(page.scope, happened) => m \in q.events \cup q.buffered
    BY <1>3
  <1>6. PICK g1 : g1 = gap
    OBVIOUS
  <1>7. PICK o : o = page
    OBVIOUS
  <1>8. PICK h : h = happened
    OBVIOUS
  <1>9. /\ ScopeFits(o, h, g1) /\ Accounted(o, wire, h, g1) /\ CallsFit(q, s) /\ Advance(o, q, h, ns)
        /\ On(q) => \A m : Comes(wire, m) => Comes(w, m) \/ m \in q.held \/ (m \in ns /\ q.stream # "restoring")
        /\ g = FALSE => g1 = FALSE
        /\ g = FALSE /\ o.paused /\ Exact(o) =>
             \A m \in ns \cup o.buffered : m \in Newest(o.scope, h) => m \in q.events \cup q.buffered
    BY <1>1, <1>2, <1>4, <1>5, <1>6, <1>7, <1>8
  <1>10. ScopeFits(q, h, g) /\ Accounted(q, w, h, g)
    BY <1>9, Advances
  <1> QED
    BY <1>8, <1>10

(* The page without a call that was answered. *)
Without(p, c) ==
    [p EXCEPT !.calls = p.calls \ {c}]

(* A call that was answered is forgotten. *)
LEMMA WithoutFits ==
    ASSUME NEW h, NEW s, NEW p, PageTyped(p, h), CallsFit(p, s), DetailFits(p), NEW c \in p.calls, c.got # "none",
           NEW q, q = Without(p, c)
    PROVE  /\ PageTyped(q, h) /\ CallsFit(q, s) /\ DetailFits(q) /\ Same(p, q) /\ Attends(p, q)
           /\ q.calls = p.calls \ {c} /\ (c.restores => Idle(q) /\ q.stream = Stage(c.what))
           /\ c \in Calls /\ c.list \subseteq 1 .. h /\ q.state = p.state
  <1>1. p \in Pages /\ c \in Calls /\ p.calls \subseteq Calls
    BY DEF PageTyped, Pages
  <1>2. /\ q \in Pages /\ q.calls = p.calls \ {c} /\ Same(p, q) /\ Attends(p, q) /\ q.state = p.state
    BY <1>1 DEF Pages, Same, Attends, Without
  <1>3. PageTyped(q, h)
    BY <1>2 DEF PageTyped, Same
  <1>4. CallsFit(q, s) /\ DetailFits(q)
    BY <1>2 DEF CallsFit, DetailFits, ChosenFits, Same, Attends
  <1>5. c.restores => Idle(q) /\ q.stream = Stage(c.what)
    <2>1. ASSUME c.restores, NEW d \in q.calls PROVE d.restores = FALSE
      <3>1. d \in p.calls /\ d # c /\ d.restores \in BOOLEAN
        BY <1>1, <1>2 DEF Calls
      <3> QED
        BY <2>1, <3>1 DEF CallsFit
    <2> QED
      BY <1>2, <2>1 DEF Idle, CallsFit, Same
  <1> QED
    BY <1>1, <1>2, <1>3, <1>4, <1>5 DEF PageTyped

(* What is known when an answer arrives: c was answered, p is the page     *)
(* without the call, q the page afterwards, g the gap.                     *)
Arrival(c, p, q, g) ==
    /\ c \in page.calls /\ c.got # "none" /\ p = Without(page, c) /\ q = Arrives(p, c)
    /\ g \in BOOLEAN /\ g = Skips(p, c, q)

(* The effect on what the invariant says of the page. *)
Keeps(q, g, s) ==
    /\ PageTyped(q, happened) /\ CallsFit(q, s) /\ DetailFits(q)
    /\ \A w : (\A n : Comes(wire, n) => Comes(w, n)) => ScopeFits(q, happened, g) /\ Accounted(q, w, happened, g)

(* An answer that is no snapshot to show leaves no gap only where there was none. *)
LEMMA SkipsNothing ==
    ASSUME NEW p, NEW c, NEW q, NEW g, g = Skips(p, c, q), gap \in BOOLEAN, g = FALSE,
           ~(c.what = "snapshot" /\ c.latest /\ c.got = "ok") \/ p.paused
    PROVE  gap = FALSE /\ ~Overflows(p, q, c.list \cup (p.held \ q.held))
  BY DEF Skips

(* The server answered the subscription: a snapshot is asked for. *)
LEMMA SubscribedKeeps ==
    ASSUME AuditInv, NEW c, NEW p, NEW q, NEW g, NEW s, s = streaming, Arrival(c, p, q, g), c.what = "subscribe"
    PROVE  Keeps(q, g, s)
  <1>1. /\ PageTyped(page, happened) /\ CallsFit(page, s) /\ DetailFits(page)
        /\ ScopeFits(page, happened, gap) /\ gap \in BOOLEAN
        /\ happened \in Nat /\ c \in page.calls /\ c.got # "none"
    BY HappenedIsNat DEF AuditInv, Fits, Typed, Arrival
  <1>2. PageTyped(p, happened) /\ CallsFit(p, s) /\ DetailFits(p) /\ Same(page, p)
    BY <1>1, WithoutFits DEF Arrival
  <1>3. Idle(p) /\ s
    <2>1. c.restores => Idle(p)
      BY <1>1, WithoutFits DEF Arrival
    <2> QED
      BY <1>1, <2>1 DEF CallsFit
  <1>4. PICK x : x = [p EXCEPT !.stream = "restoring"]
    OBVIOUS
  <1>5. p \in Pages
    BY <1>2 DEF PageTyped
  <1>6. /\ x \in Pages /\ x.conn = p.conn /\ x.scope = p.scope /\ x.asked = p.asked /\ x.stream = "restoring" /\ x.held = p.held
        /\ x.calls = p.calls /\ x.error = p.error /\ x.paused = p.paused /\ x.events = p.events
        /\ x.buffered = p.buffered /\ x.chosen = p.chosen /\ x.detail = p.detail /\ x.related = p.related
    BY <1>4, <1>5 DEF Pages
  <1>7. PageTyped(x, happened) /\ ChosenFits(x) /\ Idle(x)
    BY <1>2, <1>3, <1>6 DEF PageTyped, DetailFits, ChosenFits, Idle
  <1>8. CallsFit(x, s)
    BY <1>2, <1>3, <1>6 DEF CallsFit, Idle
  <1>9. PICK r \in BOOLEAN : r = TRUE
    OBVIOUS
  <1>10. q = LoadSnapshot(x, r)
    BY <1>4, <1>9 DEF Arrival, Arrives
  <1>11. PageTyped(q, happened) /\ CallsFit(q, s) /\ (ChosenFits(x) => ChosenFits(q)) /\ Loading(x, q, r)
    BY <1>1, <1>6, <1>7, <1>8, <1>10, LoadSnapshotFits
  <1>12. /\ q.asked = p.asked /\ q.chosen = p.chosen /\ q.scope = p.scope /\ q.stream = "restoring"
         /\ q.events = p.events /\ q.buffered = p.buffered /\ q.paused = p.paused
         /\ \A d \in q.calls : Fresh(d) => d.got = "none" /\ d.since = happened
         /\ (\A d \in q.calls : ~Fresh(d)) => q.error = TRUE
    BY <1>6, <1>11 DEF Loading
  <1>13. DetailFits(q)
    BY <1>2, <1>7, <1>11, <1>12 DEF DetailFits
  <1>14. g = FALSE => gap = FALSE
    BY <1>1, SkipsNothing DEF Arrival
  <1>15. ScopeFits(q, happened, g)
    BY <1>1, <1>2, <1>12, <1>14 DEF ScopeFits, Level, Same
  <1>16. ASSUME NEW w PROVE Accounted(q, w, happened, g)
    <2>1. ASSUME NEW d \in q.calls, Fresh(d), NEW n \in Newest(q.scope, happened), Beyond(d, n) PROVE FALSE
      <3>1. n \in 1 .. happened /\ n > happened
        BY <1>12, <2>1 DEF Beyond, Newest, InScope
      <3> QED
        BY <1>1, <3>1
    <2> QED
      BY <1>12, <2>1 DEF Accounted
  <1> QED
    BY <1>11, <1>13, <1>15, <1>16 DEF Keeps

(* A page that goes on from what is left when the call is forgotten. *)
LEMMA GoesOn ==
    ASSUME AuditInv, NEW c, NEW p, NEW q, NEW g, NEW s, s = streaming, Arrival(c, p, q, g),
           NEW x, Advance(page, x, happened, {}), x.held = p.held,
           PageTyped(q, happened), CallsFit(q, s), DetailFits(q), Advance(x, q, happened, p.held \ q.held),
           ~(c.what = "snapshot" /\ c.latest /\ c.got = "ok")
    PROVE  Keeps(q, g, s)
  <1>1. PICK ns : ns = p.held \ q.held
    OBVIOUS
  <1>2. gap \in BOOLEAN /\ c \in page.calls /\ c.got # "none" /\ p = Without(page, c)
    BY DEF AuditInv, Fits, Arrival
  <1>3. PageTyped(page, happened) /\ CallsFit(page, s) /\ DetailFits(page)
    BY DEF AuditInv, Fits, Typed
  <1>4. Same(page, p)
    BY <1>2, <1>3, WithoutFits
  <1>5. p.scope = page.scope /\ p.buffered = page.buffered /\ p.paused = page.paused
    BY <1>4 DEF Same
  <1>6. Advance(page, q, happened, ns)
    BY <1>1, AdvancesOn
  <1>7. g = FALSE => gap = FALSE /\ ~Overflows(p, q, c.list \cup ns)
    BY <1>1, <1>2, SkipsNothing DEF Arrival
  <1>8. ASSUME NEW w, \A n : Comes(wire, n) => Comes(w, n)
        PROVE  ScopeFits(q, happened, g) /\ Accounted(q, w, happened, g)
    BY <1>2, <1>5, <1>6, <1>7, <1>8, AnswerAdvances
  <1> QED
    BY <1>8 DEF Keeps

(* What is left when a call is forgotten that nothing depended on. *)
LEMMA LeftAlone ==
    ASSUME AuditInv, NEW c, NEW p, NEW q, NEW g, NEW s, s = streaming, Arrival(c, p, q, g)
    PROVE  /\ PageTyped(p, happened) /\ CallsFit(p, s) /\ DetailFits(p) /\ Same(page, p) /\ Attends(page, p)
           /\ happened \in Nat /\ happened \in 0 .. Len(RunOf) /\ p.calls = page.calls \ {c}
           /\ c \in Calls /\ c.list \subseteq 1 .. happened
           /\ c.restores => Idle(p) /\ p.stream = Stage(c.what)
           /\ PageTyped(page, happened) /\ CallsFit(page, s) /\ DetailFits(page)
           /\ ScopeFits(page, happened, gap) /\ Accounted(page, wire, happened, gap) /\ gap \in BOOLEAN
           /\ ~Fresh(c) => Advance(page, p, happened, {})
  <1>1. /\ PageTyped(page, happened) /\ CallsFit(page, s) /\ DetailFits(page)
        /\ ScopeFits(page, happened, gap) /\ Accounted(page, wire, happened, gap) /\ gap \in BOOLEAN
        /\ happened \in Nat /\ happened \in 0 .. Len(RunOf) /\ c \in page.calls /\ c.got # "none" /\ p = Without(page, c)
    BY HappenedIsNat DEF AuditInv, Fits, Typed, Arrival
  <1>2. /\ PageTyped(p, happened) /\ CallsFit(p, s) /\ DetailFits(p) /\ Same(page, p) /\ Attends(page, p)
        /\ p.calls = page.calls \ {c} /\ (c.restores => Idle(p) /\ p.stream = Stage(c.what))
        /\ c \in Calls /\ c.list \subseteq 1 .. happened
    BY <1>1, WithoutFits
  <1>3. ASSUME ~Fresh(c) PROVE Advance(page, p, happened, {})
    <2>1. Quiet(page, p)
      BY <1>2, <1>3 DEF Quiet
    <2> QED
      BY <2>1, QuietAdvances
  <1> QED
    BY <1>1, <1>2, <1>3

(* A later snapshot was asked for since. *)
LEMMA StaleKeeps ==
    ASSUME AuditInv, NEW c, NEW p, NEW q, NEW g, NEW s, s = streaming, Arrival(c, p, q, g),
           c.what = "snapshot", ~c.latest
    PROVE  Keeps(q, g, s)
  <1>1. /\ PageTyped(p, happened) /\ CallsFit(p, s) /\ DetailFits(p)
        /\ happened \in 0 .. Len(RunOf) /\ (c.restores => Idle(p) /\ p.stream = Stage(c.what))
        /\ (~Fresh(c) => Advance(page, p, happened, {}))
    BY LeftAlone
  <1>2. q = Restored(p, c) /\ (c.restores => Idle(p) /\ p.stream = "restoring") /\ ~Fresh(c)
    BY <1>1 DEF Arrival, Arrives, SnapshotArrives, Stage, Fresh
  <1>3. /\ PageTyped(q, happened) /\ CallsFit(q, s) /\ q.calls = p.calls /\ Attends(p, q)
        /\ Advance(p, q, happened, p.held \ q.held)
    BY <1>1, <1>2, RestoredFits
  <1>4. DetailFits(q)
    BY <1>1, <1>3 DEF DetailFits, ChosenFits, Attends
  <1> QED
    BY <1>1, <1>2, <1>3, <1>4, GoesOn

(* The snapshot was refused: an error is shown. *)
LEMMA RefusedKeeps ==
    ASSUME AuditInv, NEW c, NEW p, NEW q, NEW g, NEW s, s = streaming, Arrival(c, p, q, g),
           c.what = "snapshot", c.latest, c.got = "error"
    PROVE  Keeps(q, g, s)
  <1>1. /\ PageTyped(p, happened) /\ CallsFit(p, s) /\ DetailFits(p) /\ Same(page, p)
        /\ happened \in 0 .. Len(RunOf) /\ (c.restores => Idle(p) /\ p.stream = Stage(c.what))
        /\ p.calls = page.calls \ {c}
    BY LeftAlone
  <1>2. PICK x : x = NotLoaded(p)
    OBVIOUS
  <1>3. PICK st \in {"loading", "ready", "error", "unavailable"} : x = [p EXCEPT !.error = TRUE, !.state = st]
    <2>1. p.state \in {"loading", "ready", "error", "unavailable"}
      BY <1>1 DEF PageTyped, Pages
    <2> QED
      BY <1>2, <2>1 DEF NotLoaded
  <1>4. p \in Pages
    BY <1>1 DEF PageTyped
  <1>5. /\ x \in Pages /\ x.conn = p.conn /\ x.scope = p.scope /\ x.asked = p.asked /\ x.stream = p.stream /\ x.held = p.held
        /\ x.calls = p.calls /\ x.error = TRUE /\ x.paused = p.paused /\ x.events = p.events
        /\ x.buffered = p.buffered /\ x.chosen = p.chosen /\ x.detail = p.detail /\ x.related = p.related
    BY <1>3, <1>4 DEF Pages
  <1>6. PageTyped(x, happened) /\ CallsFit(x, s) /\ DetailFits(x) /\ (Idle(p) => Idle(x))
    BY <1>1, <1>5 DEF PageTyped, CallsFit, DetailFits, ChosenFits, Idle
  <1>7. Advance(page, x, happened, {})
    BY <1>1, <1>5 DEF Advance, Same, On, Exact, Level
  <1>8. q = Restored(x, c) /\ (c.restores => Idle(x) /\ x.stream = "restoring")
    BY <1>1, <1>2, <1>5, <1>6 DEF Arrival, Arrives, SnapshotArrives, Stage
  <1>9. /\ PageTyped(q, happened) /\ CallsFit(q, s) /\ q.calls = x.calls /\ Attends(x, q)
        /\ Advance(x, q, happened, x.held \ q.held)
    BY <1>1, <1>6, <1>8, RestoredFits
  <1>10. DetailFits(q)
    BY <1>6, <1>9 DEF DetailFits, ChosenFits, Attends
  <1>11. Advance(x, q, happened, p.held \ q.held)
    BY <1>5, <1>9
  <1> QED
    BY <1>5, <1>7, <1>9, <1>10, <1>11, GoesOn

(* The snapshot is shown. *)
LEMMA ShownKeeps ==
    ASSUME AuditInv, NEW c, NEW p, NEW q, NEW g, NEW s, s = streaming, Arrival(c, p, q, g),
           c.what = "snapshot", c.latest, c.got = "ok"
    PROVE  Keeps(q, g, s)
  <1>1. /\ PageTyped(p, happened) /\ CallsFit(p, s) /\ DetailFits(p) /\ Same(page, p)
        /\ happened \in 0 .. Len(RunOf) /\ happened \in Nat /\ (c.restores => Idle(p) /\ p.stream = Stage(c.what))
        /\ p.calls = page.calls \ {c} /\ c \in Calls /\ c.list \subseteq 1 .. happened
        /\ CallsFit(page, s) /\ ScopeFits(page, happened, gap) /\ Accounted(page, wire, happened, gap) /\ gap \in BOOLEAN
    BY LeftAlone
  <1>2. /\ q = SnapshotArrives(p, c) /\ (c.restores => Idle(p) /\ p.stream = "restoring")
        /\ Fresh(c) /\ c \in page.calls /\ g = Skips(p, c, q)
    BY <1>1 DEF Arrival, Arrives, Stage, Fresh
  <1>3. ShowsThenSyncs(p, q, happened, s, c.list)
    BY <1>1, <1>2, SnapshotShownFits
  <1>4. PICK x, z : /\ PageTyped(z, happened) /\ CallsFit(z, s) /\ DetailFits(z)
                    /\ Shows(p, x, happened, c.list) /\ x.calls = p.calls /\ Advance(x, z, happened, p.held \ z.held)
                    /\ q = z \/ q = SyncFromRoute(z)
    BY <1>3 DEF ShowsThenSyncs
  <1>5. /\ p.scope = page.scope /\ p.stream = page.stream /\ p.held = page.held /\ p.paused = page.paused
        /\ p.events = page.events /\ p.buffered = page.buffered
    BY <1>1 DEF Same
  <1>9. z.scope = p.scope /\ (~z.paused => z.buffered = {}) /\ Level(z)
    <2>1. z.scope = p.scope /\ z.paused = p.paused
      BY <1>4 DEF Advance, Shows
    <2>2. Level(x) /\ (~p.paused => p.buffered = {})
      BY <1>1, <1>4, <1>5 DEF ScopeFits, Level, Shows
    <2> QED
      BY <1>4, <2>1, <2>2 DEF Advance, Shows
  <1>10. CASE q # z
    <2>1. q = SyncFromRoute(z) /\ Key(z.scope) # ""
      BY <1>4, <1>10 DEF SyncFromRoute
    <2>2. PICK t : t # FALSE /\ t = TRUE
      OBVIOUS
    <2>3. /\ PageTyped(q, happened) /\ CallsFit(q, s) /\ DetailFits(q) /\ q.scope # z.scope
          /\ \A w : ScopeFits(q, happened, t) /\ Accounted(q, w, happened, t)
      BY <1>1, <1>4, <1>9, <2>1, <2>2, SyncFits
    <2>4. g = t
      BY <1>2, <1>9, <2>2, <2>3 DEF Skips, Arrival
    <2>5. \A w : ScopeFits(q, happened, g) /\ Accounted(q, w, happened, g)
      BY <2>3, <2>4
    <2> QED
      BY <2>3, <2>5 DEF Keeps
  <1>11. SUFFICES ASSUME q = z PROVE Keeps(q, g, s)
    BY <1>10
  <1>6. ASSUME g = FALSE, page.paused
        PROVE  /\ gap = FALSE
               /\ Exact(page) => \A n \in c.list \cup page.buffered \cup (page.held \ q.held) :
                    n \in Newest(page.scope, happened) => n \in q.events \cup q.buffered
    <2>1. gap = FALSE /\ ~Overflows(p, q, c.list \cup (p.held \ q.held))
      BY <1>1, <1>2, <1>5, <1>6, SkipsNothing
    <2>2. PICK ns : ns = c.list \cup (p.held \ q.held)
      OBVIOUS
    <2>3. ASSUME Exact(page), NEW n \in c.list \cup page.buffered \cup (page.held \ q.held), n \in Newest(page.scope, happened)
          PROVE  n \in q.events \cup q.buffered
      <3>1. ~Overflows(p, q, ns) /\ p.paused /\ Exact(p) /\ n \in ns \cup p.buffered /\ n \in Newest(p.scope, happened)
        BY <1>5, <1>6, <2>1, <2>2, <2>3 DEF Exact
      <3> QED
        BY <3>1, NoOverflow
    <2> QED
      BY <2>1, <2>3
  <1>7. ASSUME g = FALSE, ~page.paused, ~c.restores, NEW n \in Newest(page.scope, happened), \A m \in c.list : m < n
        PROVE  Comes(wire, n)
    <2>1. Passed(p, c) = {}
      BY <1>2, <1>5, <1>7 DEF Skips
    <2>2. PICK S : S = c.list \cup {0}
      OBVIOUS
    <2>3. Max(S) \in S
      <3>1. S \subseteq 0 .. happened /\ S # {}
        BY <1>1, <2>2
      <3> QED
        BY <1>1, <3>1, Greatest
    <2>4. n \in InScope(p.scope, happened) /\ n \in 1 .. happened
      BY <1>5, <1>7 DEF Newest, InScope
    <2>5. n > Max(S)
      BY <1>1, <1>7, <2>2, <2>3, <2>4
    <2>6. \E i \in DOMAIN wire : wire[i] = <<"record", n>>
      BY <2>1, <2>2, <2>4, <2>5 DEF Passed
    <2> QED
      BY <2>6 DEF Comes
  <1>8. ASSUME NEW w, \A n : Comes(wire, n) => Comes(w, n)
        PROVE  ScopeFits(q, happened, g) /\ Accounted(q, w, happened, g)
    <2>1. PICK h : h = happened
      OBVIOUS
    <2>2. PICK o : o = page
      OBVIOUS
    <2>3. PICK g1 : g1 = gap
      OBVIOUS
    <2>4. /\ CallsFit(o, s) /\ ScopeFits(o, h, g1) /\ Accounted(o, wire, h, g1) /\ c \in o.calls /\ Fresh(c) /\ c.got = "ok"
          /\ Leaves(o, c, p)
          /\ Shows(p, x, h, c.list) /\ CallsFit(q, s) /\ Gains(o, x, q, h)
      BY <1>1, <1>2, <1>4, <1>5, <1>11, <2>1, <2>2, <2>3 DEF Leaves, Gains
    <2>5. Apart(o, c, q, h, g1, g)
      BY <1>6, <2>1, <2>2, <2>3 DEF Apart
    <2>6. Reaches(o, c, wire, h, g)
      BY <1>7, <2>1, <2>2 DEF Reaches
    <2>7. ScopeFits(q, h, g) /\ Accounted(q, w, h, g)
      <3>1. \A n : Comes(wire, n) => Comes(w, n)
        BY <1>8
      <3>2. PICK w1 : w1 = wire
        OBVIOUS
      <3>3. /\ \A n : Comes(w1, n) => Comes(w, n)
            /\ Accounted(o, w1, h, g1)
            /\ Reaches(o, c, w1, h, g)
        BY <2>4, <2>6, <3>1, <3>2
      <3> QED
        BY <2>4, <2>5, <3>3, SnapshotCovers, SMTT(60)
    <2> QED
      BY <2>1, <2>7
  <1> QED
    BY <1>4, <1>8, <1>11 DEF Keeps

(* A step of loading the detail. *)
LEMMA DetailKeeps ==
    ASSUME AuditInv, NEW c, NEW p, NEW q, NEW g, NEW s, s = streaming, Arrival(c, p, q, g), c.what \in Detail
    PROVE  Keeps(q, g, s)
  <1>1. /\ PageTyped(p, happened) /\ CallsFit(p, s) /\ DetailFits(p) /\ Attends(page, p) /\ DetailFits(page)
        /\ happened \in 0 .. Len(RunOf) /\ happened \in Nat /\ (c.restores => Idle(p) /\ p.stream = Stage(c.what))
        /\ (~Fresh(c) => Advance(page, p, happened, {})) /\ c \in Calls
    BY LeftAlone
  <1>2. c.what # "snapshot" /\ c.what # "subscribe" /\ c \in page.calls
    BY DEF Detail, Arrival
  <1>3. q = DetailArrives(p, c) /\ (c.restores => Idle(p) /\ p.stream = "restoring") /\ ~Fresh(c)
    BY <1>1, <1>2 DEF Arrival, Arrives, Stage, Fresh
  <1>4. (c.latest => c.item = p.chosen) /\ ChosenFits(p)
    BY <1>1, <1>2 DEF DetailFits, ChosenFits, Attends
  <1>5. /\ PageTyped(q, happened) /\ CallsFit(q, s) /\ ChosenFits(q) /\ q.asked = p.asked /\ q.chosen = p.chosen
        /\ Advance(p, q, happened, p.held \ q.held)
    BY <1>1, <1>3, <1>4, DetailArrivesFits
  <1>6. DetailFits(q)
    BY <1>1, <1>5 DEF DetailFits
  <1> QED
    BY <1>1, <1>2, <1>3, <1>5, <1>6, GoesOn

(* An answer arrives. *)
LEMMA ReceiveAnswerKeeps == ASSUME AuditInv, ReceiveAnswer PROVE AuditInv'
  <1>1. PICK c \in page.calls :
          /\ c.got # "none" /\ Kind(c) = Head(wire)
          /\ LET p == [page EXCEPT !.calls = @ \ {c}]
                 q == Arrives(p, c)
             IN page' = q /\ wire' = Awaited(Tail(wire), q) /\ gap' = Skips(p, c, q)
    BY DEF ReceiveAnswer
  <1>2. PICK p : p = Without(page, c)
    OBVIOUS
  <1>3. PICK q : q = Arrives(p, c)
    OBVIOUS
  <1>4. page' = q /\ wire' = Awaited(Tail(wire), q) /\ gap' = Skips(p, c, q)
    BY <1>1, <1>2, <1>3 DEF Without
  <1>5. gap \in BOOLEAN /\ wire \in Seq(Messages(happened)) /\ happened \in 0 .. Len(RunOf)
    BY DEF AuditInv, Fits, Typed
  <1>6. PICK g \in BOOLEAN : g = gap'
    <2>1. gap' \in BOOLEAN
      BY <1>4, <1>5 DEF Skips
    <2> QED
      BY <2>1
  <1>7. PICK s : s = streaming
    OBVIOUS
  <1>8. Arrival(c, p, q, g)
    BY <1>1, <1>2, <1>3, <1>4, <1>6 DEF Arrival
  <1>9. c \in Calls
    BY <1>7, <1>8, LeftAlone
  <1>10. Keeps(q, g, s)
    <2>1. CASE c.what = "subscribe"
      BY <1>7, <1>8, <2>1, SubscribedKeeps
    <2>2. CASE c.what = "snapshot" /\ ~c.latest
      BY <1>7, <1>8, <2>2, StaleKeeps
    <2>3. CASE c.what = "snapshot" /\ c.latest /\ c.got = "error"
      BY <1>7, <1>8, <2>3, RefusedKeeps
    <2>4. CASE c.what = "snapshot" /\ c.latest /\ c.got = "ok"
      BY <1>7, <1>8, <2>4, ShownKeeps
    <2>5. CASE c.what \in Detail
      BY <1>7, <1>8, <2>5, DetailKeeps
    <2>6. c.what = "snapshot" => c.got \in {"error", "ok"}
      <3>1. CallsFit(page, streaming)
        BY DEF AuditInv, Fits
      <3> QED
        BY <1>1, <1>9, <3>1 DEF CallsFit, Calls
    <2> QED
      BY <1>9, <2>1, <2>2, <2>3, <2>4, <2>5, <2>6 DEF Calls, Kinds
  <1>11. PICK w : w = Awaited(Tail(wire), q)
    OBVIOUS
  <1>12. /\ Tail(wire) \in Seq(Messages(happened))
         /\ \A n : Comes(wire, n) => Comes(Tail(wire), n)
    <2>1. wire # <<>> /\ Head(wire)[1] # "record"
      BY DEF ReceiveAnswer
    <2>2. \A n : Head(wire) # <<"record", n>>
      BY <2>1
    <2> QED
      BY <1>5, <2>1, <2>2, TailKeeps
  <1>13. w \in Seq(Messages(happened)) /\ \A n : Comes(wire, n) => Comes(w, n)
    BY <1>11, <1>12, AwaitedIsAPart
  <1>14. Fits(q, w, happened, g, s)
    BY <1>5, <1>10, <1>13 DEF Fits, Typed, Keeps
  <1>15. page' = q /\ wire' = w /\ happened' = happened /\ gap' = g /\ streaming' = s
    BY <1>4, <1>6, <1>7, <1>11 DEF ReceiveAnswer
  <1> QED
    BY <1>14, <1>15 DEF AuditInv

-----------------------------------------------------------------------------
(* The invariant, and what follows.                                        *)

(* The page that is opened. *)
LEMMA InitFits == ASSUME Init PROVE AuditInv
  <1>1. PICK conn \in {"authenticated", "reconnecting"}, scope \in Scope, asked \in {0} \cup Record :
          page = Install(Mounted(conn, scope, asked))
    BY DEF Init
  <1>2. PICK p : p = Mounted(conn, scope, asked)
    OBVIOUS
  <1>3. /\ p \in Pages /\ p.asked = asked /\ p.chosen = 0 /\ p.detail = 0 /\ p.related = 0 /\ p.events = {}
        /\ p.buffered = {} /\ p.held = {} /\ p.calls = {} /\ p.paused = FALSE /\ p.stream = "off"
    BY <1>2, AuditAssumption DEF Mounted, Pages, Scopes
  <1>4. PICK s : s = streaming
    OBVIOUS
  <1>5. happened \in 0 .. Len(RunOf) /\ happened \in Nat /\ wire = <<>> /\ gap = FALSE
    BY LenProperties, AuditAssumption DEF Init
  <1>6. PageTyped(p, happened) /\ CallsFit(p, s) /\ ChosenFits(p)
    BY <1>3 DEF PageTyped, CallsFit, ChosenFits
  <1>7. PICK q : q = page
    OBVIOUS
  <1>8. q = Install(p)
    BY <1>1, <1>2, <1>7
  <1>9. PageTyped(q, happened) /\ CallsFit(q, s) /\ (ChosenFits(p) => ChosenFits(q)) /\ Installed(p, q)
    BY <1>5, <1>6, <1>8, InstallFits
  <1>10. DetailFits(q)
    BY <1>3, <1>6, <1>9 DEF Installed, DetailFits
  <1>11. ScopeFits(p, happened, gap)
    BY <1>3 DEF ScopeFits, Level
  <1>12. /\ ~On(q) /\ \A c \in q.calls : ~Fresh(c)
         /\ q.scope = p.scope /\ q.paused = p.paused /\ q.events = p.events /\ q.buffered = p.buffered
    BY <1>9 DEF Installed
  <1>13. ScopeFits(q, happened, gap) /\ Accounted(q, wire, happened, gap)
    BY <1>11, <1>12, OffFits
  <1>14. wire \in Seq(Messages(happened))
    BY <1>5, EmptySeq
  <1>15. gap \in BOOLEAN
    BY <1>5
  <1>16. Fits(q, wire, happened, gap, s)
    BY <1>5, <1>9, <1>10, <1>13, <1>14, <1>15 DEF Fits, Typed
  <1> QED
    BY <1>4, <1>7, <1>16 DEF AuditInv

(* And so does a step of nobody. *)
LEMMA StutterKeeps == ASSUME AuditInv, UNCHANGED vars PROVE AuditInv'
  <1>1. page' = page /\ wire' = wire /\ streaming' = streaming /\ happened' = happened /\ gap' = gap
    BY DEF vars
  <1> QED
    BY <1>1 DEF AuditInv

(* Every step keeps the invariant. *)
LEMMA StepKeeps == ASSUME AuditInv, [Next]_vars PROVE AuditInv'
  <1>1. CASE Pause BY <1>1, PauseKeeps
  <1>2. CASE Resume BY <1>2, ResumeKeeps
  <1>3. CASE Discard BY <1>3, DiscardKeeps
  <1>4. CASE Retry BY <1>4, RetryKeeps
  <1>5. ASSUME NEW scope \in Scope, Submit(scope) PROVE AuditInv'
    BY <1>5, SubmitKeeps
  <1>6. ASSUME NEW n \in Record, Choose(n) PROVE AuditInv'
    BY <1>6, ChooseKeeps
  <1>7. CASE Drop BY <1>7, DropKeeps
  <1>8. CASE Reconnect BY <1>8, ReconnectKeeps
  <1>9. CASE Happens BY <1>9, HappensKeeps
  <1>10. ASSUME NEW c \in page.calls, Serve(c) PROVE AuditInv'
    BY <1>10, ServeKeeps
  <1>11. ASSUME NEW c \in page.calls, Refuses(c) PROVE AuditInv'
    BY <1>11, RefusesKeeps
  <1>12. CASE ReceiveRecord BY <1>12, ReceiveRecordKeeps
  <1>13. CASE ReceiveAnswer BY <1>13, ReceiveAnswerKeeps
  <1>14. CASE UNCHANGED vars BY <1>14, StutterKeeps
  <1> QED
    BY <1>1, <1>2, <1>3, <1>4, <1>5, <1>6, <1>7, <1>8, <1>9, <1>10, <1>11, <1>12, <1>13, <1>14 DEF Next, User

(* The calls, the detail, the scope and the account of the records fit      *)
(* together in every reachable state.                                       *)
THEOREM Invariance == Spec => []AuditInv
  <1>1. Init => AuditInv
    BY InitFits
  <1>2. AuditInv /\ [Next]_vars => AuditInv'
    BY StepKeeps
  <1> QED
    BY <1>1, <1>2, PTL DEF Spec

(* The newest of the scope are what the timeline ought to show. *)
LEMMA CompleteWhenAtRest == AuditInv => TimelineIsComplete
  <1>1. SUFFICES ASSUME AuditInv, AtRest(page), ~gap, page.scope \in {"all", "run"},
                        NEW n \in Merge({}, InScope(page.scope, happened), LoadedLimit)
                 PROVE  n \in page.events \cup page.buffered
    BY DEF TimelineIsComplete
  <1>2. /\ Accounted(page, wire, happened, gap) /\ ScopeFits(page, happened, gap) /\ gap \in BOOLEAN /\ page \in Pages
    BY <1>1 DEF AuditInv, Fits, Typed, PageTyped
  <1>3. n \in Newest(page.scope, happened)
    BY <1>1 DEF Merge, Newest
  <1>4. page.stream = "live" /\ wire = <<>> /\ page.calls = {} /\ page.error = FALSE
    BY <1>1, <1>2 DEF AtRest, Pages
  <1>5. Kept(page, wire, n)
    BY <1>1, <1>2, <1>3, <1>4 DEF Accounted, On, Exact
  <1>6. ~Comes(wire, n) /\ page.held = {}
    BY <1>2, <1>4 DEF Comes, ScopeFits, Level
  <1> QED
    BY <1>5, <1>6 DEF Kept, OnItsWay

(* However subscribing, reloading, pausing and records that arrive overlap, *)
(* a timeline at rest lacks none of the newest records of its scope unless  *)
(* it was told to skip some: what useAuditStream holds back, puts apart and *)
(* merges adds up.                                                          *)
THEOREM TimelineComplete == Spec => []TimelineIsComplete
  BY Invariance, CompleteWhenAtRest, PTL

(* Without a gap, nothing of another scope was let in. *)
LEMMA ShownFits == AuditInv => ShownIsOfTheScope
  <1>1. SUFFICES ASSUME AuditInv, ~gap, NEW n \in Shown(page)
                 PROVE  n \in InScope(page.scope, happened)
    BY DEF ShownIsOfTheScope
  <1>2. ScopeFits(page, happened, gap) /\ gap \in BOOLEAN
    BY <1>1 DEF AuditInv, Fits
  <1>3. n \in Wide(page.scope, happened) /\ (page.scope = "text" => Matches("text", n))
    BY <1>1, <1>2 DEF ScopeFits, Shown
  <1> QED
    BY <1>3 DEF Wide, InScope

(* A timeline never shows a record of a scope it was switched away from:    *)
(* snapshots asked for before are stale, records are asked for their scope. *)
THEOREM ShownOfTheScope == Spec => []ShownIsOfTheScope
  BY Invariance, ShownFits, PTL

(* The detail and the related records are those of the record that is       *)
(* chosen, and the address names it, whatever answers come late.            *)
THEOREM DetailOfTheChosen == Spec => []DetailIsOfTheChosen
  <1>1. AuditInv => DetailIsOfTheChosen
    BY DEF AuditInv, Fits, DetailFits, ChosenFits, DetailIsOfTheChosen
  <1> QED
    BY <1>1, Invariance, PTL
=============================================================================
