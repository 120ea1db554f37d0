--------------------------- MODULE ChatLogsProofs ---------------------------
(***************************************************************************)
(* What the view of the chat logs shows, for any chats, logs, routes,      *)
(* limits, lost connections and refused requests.                          *)
(*                                                                         *)
(* A window is a part of its chat's log without gaps, and so is the answer *)
(* that extends it: it begins or ends where the window does.  That the two *)
(* still meet when the answer arrives is what the comparison with the      *)
(* window it was asked for (current) is for, and that no other answer came *)
(* first what the one direction is for.                                    *)
(***************************************************************************)
EXTENDS ChatLogs, SequenceTheorems, FiniteSetTheorems, WellFoundedInduction, TLAPS

Paging  == {"older", "newer"}
Windows == [of : Chat \cup {None}, rows : SUBSET Nat, asOf : Nat, hasOlder : BOOLEAN, hasNewer : BOOLEAN]
Calls   == [what : {"list", "select"} \cup Paging, to : Seq(Chat), row : Nat, chats : Seq(Chat),
            window : Windows, current : BOOLEAN, found : BOOLEAN, got : {"none", "ok", "error"}]
Pages   == [conn : {"authenticated", "reconnecting", "offline"}, route : Route, chats : Seq(Chat),
            window : Windows, loading : BOOLEAN, loadingWindow : BOOLEAN,
            direction : {"none"} \cup Paging, calls : SUBSET Calls]

(* The rows of a chat in a log, those before and those after a window, and *)
(* a part of them without gaps.                                            *)
Of(l, chat)   == {row \in DOMAIN l : l[row] = chat}
Prior(R, S)   == {row \in S : \A shown \in R : row < shown}
Later(R, S)   == {row \in S : \A shown \in R : row > shown}
Gapless(R, S) == R \subseteq S /\ \A p, q \in R, r \in S : p < r /\ r < q => r \in R

(* The two flags tell the truth about what is beyond a part of the log.    *)
OlderTold(w, R, S) == w.hasOlder <=> Prior(R, S) # {}
NewerTold(w, R, S) == IF w.hasNewer THEN Later(R, S) # {} ELSE \A row \in Later(R, S) : row > w.asOf

WindowFits(w, l) ==
    /\ w.asOf <= Len(l) /\ Gapless(w.rows, Of(l, w.of)) /\ Cardinality(w.rows) <= Retained
    /\ w.rows # {} => OlderTold(w, w.rows, Of(l, w.of)) /\ NewerTold(w, w.rows, Of(l, w.of))

(* What a selection asks for is named by the route, and what it is         *)
(* answered is a window of it.                                             *)
SelectFits(c, p, l) ==
    /\ \A n \in DOMAIN c.to : c.to[n] \in p.route.to
    /\ c.got = "ok" => c.window.of = c.to[1] /\ WindowFits(c.window, l)

(* An extension begins at the window's edge, and its answer leaves no gap. *)
OlderFits(c, w, l) ==
    /\ w.hasOlder /\ c.row \in w.rows /\ c.to = <<w.of>> /\ \A row \in w.rows : c.row <= row
    /\ c.got = "ok" =>
         LET R == c.window.rows
             S == Of(l, w.of)
         IN /\ R # {} /\ R \subseteq S /\ \A row \in R : row < c.row
            /\ \A first \in R, row \in S : first < row /\ row < c.row => row \in R
            /\ OlderTold(c.window, R, S) /\ c.window.asOf <= Len(l)

NewerFits(c, w, l) ==
    /\ w.hasNewer /\ c.row \in w.rows /\ c.to = <<w.of>> /\ \A row \in w.rows : c.row >= row
    /\ c.got = "ok" =>
         LET R == c.window.rows
             S == Of(l, w.of)
         IN /\ R # {} /\ R \subseteq S /\ \A row \in R : row > c.row
            /\ \A last \in R, row \in S : c.row < row /\ row < last => row \in R
            /\ NewerTold(c.window, R, S) /\ c.window.asOf <= Len(l)

CallFits(c, p, l) ==
    /\ c.what # "list" => c.to # <<>>
    /\ c.what = "select" => SelectFits(c, p, l)
    /\ c.what = "older" /\ c.current => OlderFits(c, p.window, l)
    /\ c.what = "newer" /\ c.current => NewerFits(c, p.window, l)
CallsFit(p, l) == \A c \in p.calls : CallFits(c, p, l)

(* Who waits for what; one extension at a time.                            *)
Waits(p) ==
    /\ p.direction # "none" => \E c \in p.calls : c.what = p.direction
    /\ p.loadingWindow => \E c \in p.calls : c.what = "select"
    /\ p.loading /\ p.conn # "reconnecting" => \E c \in p.calls : c.what = "list"
    /\ \A c \in p.calls : c.what \in Paging => p.direction = c.what
    /\ \A c, d \in p.calls : c.what \in Paging /\ d.what \in Paging => c = d

Fits(p, l) == p \in Pages /\ l \in Seq(Chat) /\ WindowFits(p.window, l) /\ CallsFit(p, l) /\ Waits(p)

LogInv == Fits(page, log)

-----------------------------------------------------------------------------
(* Sets of rows.                                                           *)

(* Sets of rows are finite. *)
LEMMA RowsAreFinite ==
    ASSUME NEW h \in Nat, NEW S, S \subseteq 1 .. h
    PROVE  IsFiniteSet(S) /\ Cardinality(S) \in Nat
  <1>1. IsFiniteSet(1 .. h)
    BY FS_Interval
  <1> QED
    BY <1>1, FS_Subset, FS_CardinalityType

(* Some have a first one. *)
LEMMA First ==
    ASSUME NEW h \in Nat, NEW S, S \subseteq 1 .. h, S # {}
    PROVE  \E x \in S : \A m \in S : x <= m
  <1> DEFINE T == {0 .. x : x \in S}
  <1>1. IsWellFoundedOn(StrictSubsetOrdering(Nat), FiniteSubsetsOf(Nat))
    BY FS_StrictSubsetOrderingWellFounded
  <1>2. T \subseteq FiniteSubsetsOf(Nat)
    <2> SUFFICES ASSUME NEW x \in S PROVE 0 .. x \in FiniteSubsetsOf(Nat)
      OBVIOUS
    <2>1. x \in Nat
      OBVIOUS
    <2>2. IsFiniteSet(0 .. x)
      BY <2>1, FS_Interval
    <2> QED
      BY <2>1, <2>2 DEF FiniteSubsetsOf
  <1>3. PICK I \in T : \A J \in T : ~ (<<J, I>> \in StrictSubsetOrdering(Nat))
    <2>1. T # {}
      OBVIOUS
    <2> HIDE DEF T
    <2> QED
      BY <1>1, <1>2, <2>1, WFMin
  <1>4. PICK x \in S : I = 0 .. x
    OBVIOUS
  <1>5. ASSUME NEW y \in S PROVE x <= y
    <2>1. x \in 1 .. h /\ y \in 1 .. h
      OBVIOUS
    <2>2. SUFFICES ASSUME y < x PROVE FALSE
      BY <2>1
    <2>3. 0 .. y \subseteq 0 .. x /\ x \in 0 .. x /\ x \notin 0 .. y
      BY <2>1, <2>2
    <2>4. 0 .. y \in T /\ 0 .. x \in SUBSET Nat /\ 0 .. y \in SUBSET Nat
      BY <2>1
    <2>5. <<0 .. y, 0 .. x>> \in StrictSubsetOrdering(Nat)
      BY <2>3, <2>4 DEF StrictSubsetOrdering
    <2> QED
      BY <1>3, <1>4, <2>4, <2>5
  <1> QED
    BY <1>5

(* Some have a last one: the mirrored rows have a first. *)
LEMMA Final ==
    ASSUME NEW h \in Nat, NEW S, S \subseteq 1 .. h, S # {}
    PROVE  \E x \in S : \A m \in S : m <= x
  <1> DEFINE T == {h + 1 - x : x \in S}
  <1>1. T \subseteq 1 .. h /\ T # {}
    <2>1. ASSUME NEW x \in S PROVE h + 1 - x \in 1 .. h
      <3>1. x \in 1 .. h
        OBVIOUS
      <3> QED
        BY <3>1
    <2> QED
      BY <2>1
  <1>2. PICK t \in T : \A u \in T : t <= u
    <2> HIDE DEF T
    <2> QED
      BY <1>1, First
  <1>3. PICK x \in S : t = h + 1 - x
    BY <1>2
  <1>4. ASSUME NEW m \in S PROVE m <= x
    <2>1. h + 1 - m \in T /\ m \in Int /\ x \in Int
      OBVIOUS
    <2>2. h + 1 - x <= h + 1 - m
      BY <1>2, <1>3, <2>1
    <2> QED
      BY <2>1, <2>2
  <1> QED
    BY <1>4

(* The Lowest rows of a set: no more than asked for, without gaps from the    *)
(* first one on, and all of them if there are no more.                       *)
LEMMA LowestRows ==
    ASSUME NEW h \in Nat, NEW S, S \subseteq 1 .. h, NEW n \in Nat
    PROVE  /\ Lowest(S, n) \subseteq S /\ Cardinality(Lowest(S, n)) <= n
           /\ \A x \in Lowest(S, n), y \in S : y < x => y \in Lowest(S, n)
           /\ Cardinality(S) <= n => Lowest(S, n) = S
           /\ S # {} /\ n >= 1 => \E x \in Lowest(S, n) : \A y \in S : x <= y
  <1> DEFINE P(x) == {y \in S : y < x}
             L    == Lowest(S, n)
  <1>1. L = {x \in S : Cardinality(P(x)) < n}
    BY DEF Lowest
  <1>2. IsFiniteSet(S) /\ Cardinality(S) \in Nat /\ \A x \in S : x \in Int
    <2>1. \A x \in S : x \in Int
      OBVIOUS
    <2> QED
      BY <2>1, RowsAreFinite
  <1>3. \A x \in S : IsFiniteSet(P(x)) /\ Cardinality(P(x)) \in Nat
    BY <1>2, FS_Subset, FS_CardinalityType
  <1>4. ASSUME NEW x \in L, NEW y \in S, y < x PROVE y \in L
    <2>1. x \in S /\ Cardinality(P(x)) < n
      BY <1>1
    <2>2. P(y) \subseteq P(x)
      <3>1. ASSUME NEW z \in P(y) PROVE z \in P(x)
        <4>1. z \in S /\ z < y /\ x \in Int /\ y \in Int /\ z \in Int
          BY <1>2, <2>1
        <4> QED
          BY <1>4, <4>1
      <3> QED
        BY <3>1
    <2>3. Cardinality(P(y)) <= Cardinality(P(x)) /\ Cardinality(P(y)) \in Nat /\ Cardinality(P(x)) \in Nat
      BY <1>3, <2>1, <2>2, FS_Subset
    <2> HIDE DEF P
    <2>4. Cardinality(P(y)) < n
      BY <2>1, <2>3
    <2> QED
      BY <1>1, <2>4
  <1>5. Cardinality(L) <= n
    <2>1. CASE L = {}
      <3>1. Cardinality(L) = 0
        BY <2>1, FS_EmptySet
      <3> QED
        BY <3>1
    <2>2. CASE L # {}
      <3>1. L \subseteq 1 .. h
        BY <1>1
      <3>2. PICK g \in L : \A m \in L : m <= g
        <4> HIDE DEF L
        <4> QED
          BY <2>2, <3>1, Final
      <3>3. g \in S /\ Cardinality(P(g)) < n
        BY <1>1
      <3>4. L \subseteq P(g) \cup {g}
        <4>1. ASSUME NEW m \in L PROVE m \in P(g) \cup {g}
          <5>1. m \in S /\ m \in Int /\ g \in Int /\ m <= g
            BY <1>1, <1>2, <3>2, <3>3
          <5>2. m < g \/ m = g
            BY <5>1
          <5> QED
            BY <5>1, <5>2
        <4> QED
          BY <4>1
      <3>5. IsFiniteSet(P(g) \cup {g}) /\ Cardinality(P(g) \cup {g}) = Cardinality(P(g)) + 1
        <4>1. g \notin P(g)
          BY <1>2, <3>3
        <4> HIDE DEF P
        <4> QED
          BY <1>3, <3>3, <4>1, FS_AddElement
      <3>6. Cardinality(L) <= Cardinality(P(g)) + 1 /\ IsFiniteSet(L)
        BY <3>4, <3>5, FS_Subset
      <3>7. Cardinality(L) \in Nat /\ Cardinality(P(g)) \in Nat
        BY <1>3, <3>3, <3>6, FS_CardinalityType
      <3> HIDE DEF P, L
      <3> QED
        BY <3>3, <3>6, <3>7
    <2> QED
      BY <2>1, <2>2
  <1>6. ASSUME Cardinality(S) <= n, NEW x \in S PROVE x \in L
    <2>1. P(x) \subseteq S \ {x}
      BY <1>2
    <2>2. IsFiniteSet(S \ {x}) /\ Cardinality(S \ {x}) = Cardinality(S) - 1
      BY <1>2, FS_RemoveElement
    <2>3. Cardinality(P(x)) <= Cardinality(S) - 1
      BY <2>1, <2>2, FS_Subset
    <2> HIDE DEF P
    <2>4. Cardinality(P(x)) < n
      BY <1>2, <1>3, <1>6, <2>3
    <2> QED
      BY <1>1, <2>4
  <1>7. ASSUME S # {}, n >= 1 PROVE \E x \in L : \A y \in S : x <= y
    <2>1. PICK x \in S : \A y \in S : x <= y
      BY <1>7, First
    <2>2. P(x) = {}
      <3>1. ASSUME NEW y \in P(x) PROVE FALSE
        <4>1. y \in S /\ y < x /\ x <= y /\ x \in Int /\ y \in Int
          BY <1>2, <2>1
        <4> QED
          BY <4>1
      <3> QED
        BY <3>1
    <2>3. Cardinality(P(x)) < n
      <3>1. Cardinality(P(x)) = 0
        BY <2>2, FS_EmptySet
      <3> HIDE DEF P
      <3> QED
        BY <1>7, <3>1
    <2>4. x \in L
      BY <1>1, <2>3
    <2> QED
      BY <2>1, <2>4
  <1>8. L \subseteq S
    BY <1>1
  <1> HIDE DEF L
  <1>9. \A x \in L, y \in S : y < x => y \in L
    BY <1>4
  <1>10. Cardinality(S) <= n => L = S
    BY <1>6, <1>8
  <1> QED
    BY <1>5, <1>7, <1>8, <1>9, <1>10 DEF L

(* The Highest rows of a set: no more than asked for, without gaps from the    *)
(* last one on, and all of them if there are no more.                       *)
LEMMA HighestRows ==
    ASSUME NEW h \in Nat, NEW S, S \subseteq 1 .. h, NEW n \in Nat
    PROVE  /\ Highest(S, n) \subseteq S /\ Cardinality(Highest(S, n)) <= n
           /\ \A x \in Highest(S, n), y \in S : y > x => y \in Highest(S, n)
           /\ Cardinality(S) <= n => Highest(S, n) = S
           /\ S # {} /\ n >= 1 => \E x \in Highest(S, n) : \A y \in S : x >= y
  <1> DEFINE P(x) == {y \in S : y > x}
             L    == Highest(S, n)
  <1>1. L = {x \in S : Cardinality(P(x)) < n}
    BY DEF Highest
  <1>2. IsFiniteSet(S) /\ Cardinality(S) \in Nat /\ \A x \in S : x \in Int
    <2>1. \A x \in S : x \in Int
      OBVIOUS
    <2> QED
      BY <2>1, RowsAreFinite
  <1>3. \A x \in S : IsFiniteSet(P(x)) /\ Cardinality(P(x)) \in Nat
    BY <1>2, FS_Subset, FS_CardinalityType
  <1>4. ASSUME NEW x \in L, NEW y \in S, y > x PROVE y \in L
    <2>1. x \in S /\ Cardinality(P(x)) < n
      BY <1>1
    <2>2. P(y) \subseteq P(x)
      <3>1. ASSUME NEW z \in P(y) PROVE z \in P(x)
        <4>1. z \in S /\ z > y /\ x \in Int /\ y \in Int /\ z \in Int
          BY <1>2, <2>1
        <4> QED
          BY <1>4, <4>1
      <3> QED
        BY <3>1
    <2>3. Cardinality(P(y)) <= Cardinality(P(x)) /\ Cardinality(P(y)) \in Nat /\ Cardinality(P(x)) \in Nat
      BY <1>3, <2>1, <2>2, FS_Subset
    <2> HIDE DEF P
    <2>4. Cardinality(P(y)) < n
      BY <2>1, <2>3
    <2> QED
      BY <1>1, <2>4
  <1>5. Cardinality(L) <= n
    <2>1. CASE L = {}
      <3>1. Cardinality(L) = 0
        BY <2>1, FS_EmptySet
      <3> QED
        BY <3>1
    <2>2. CASE L # {}
      <3>1. L \subseteq 1 .. h
        BY <1>1
      <3>2. PICK g \in L : \A m \in L : m >= g
        <4> HIDE DEF L
        <4> QED
          BY <2>2, <3>1, First
      <3>3. g \in S /\ Cardinality(P(g)) < n
        BY <1>1
      <3>4. L \subseteq P(g) \cup {g}
        <4>1. ASSUME NEW m \in L PROVE m \in P(g) \cup {g}
          <5>1. m \in S /\ m \in Int /\ g \in Int /\ m >= g
            BY <1>1, <1>2, <3>2, <3>3
          <5>2. m > g \/ m = g
            BY <5>1
          <5> QED
            BY <5>1, <5>2
        <4> QED
          BY <4>1
      <3>5. IsFiniteSet(P(g) \cup {g}) /\ Cardinality(P(g) \cup {g}) = Cardinality(P(g)) + 1
        <4>1. g \notin P(g)
          BY <1>2, <3>3
        <4> HIDE DEF P
        <4> QED
          BY <1>3, <3>3, <4>1, FS_AddElement
      <3>6. Cardinality(L) <= Cardinality(P(g)) + 1 /\ IsFiniteSet(L)
        BY <3>4, <3>5, FS_Subset
      <3>7. Cardinality(L) \in Nat /\ Cardinality(P(g)) \in Nat
        BY <1>3, <3>3, <3>6, FS_CardinalityType
      <3> HIDE DEF P, L
      <3> QED
        BY <3>3, <3>6, <3>7
    <2> QED
      BY <2>1, <2>2
  <1>6. ASSUME Cardinality(S) <= n, NEW x \in S PROVE x \in L
    <2>1. P(x) \subseteq S \ {x}
      BY <1>2
    <2>2. IsFiniteSet(S \ {x}) /\ Cardinality(S \ {x}) = Cardinality(S) - 1
      BY <1>2, FS_RemoveElement
    <2>3. Cardinality(P(x)) <= Cardinality(S) - 1
      BY <2>1, <2>2, FS_Subset
    <2> HIDE DEF P
    <2>4. Cardinality(P(x)) < n
      BY <1>2, <1>3, <1>6, <2>3
    <2> QED
      BY <1>1, <2>4
  <1>7. ASSUME S # {}, n >= 1 PROVE \E x \in L : \A y \in S : x >= y
    <2>1. PICK x \in S : \A y \in S : x >= y
      BY <1>7, Final
    <2>2. P(x) = {}
      <3>1. ASSUME NEW y \in P(x) PROVE FALSE
        <4>1. y \in S /\ y > x /\ x >= y /\ x \in Int /\ y \in Int
          BY <1>2, <2>1
        <4> QED
          BY <4>1
      <3> QED
        BY <3>1
    <2>3. Cardinality(P(x)) < n
      <3>1. Cardinality(P(x)) = 0
        BY <2>2, FS_EmptySet
      <3> HIDE DEF P
      <3> QED
        BY <1>7, <3>1
    <2>4. x \in L
      BY <1>1, <2>3
    <2> QED
      BY <2>1, <2>4
  <1>8. L \subseteq S
    BY <1>1
  <1> HIDE DEF L
  <1>9. \A x \in L, y \in S : y > x => y \in L
    BY <1>4
  <1>10. Cardinality(S) <= n => L = S
    BY <1>6, <1>8
  <1> QED
    BY <1>5, <1>7, <1>8, <1>9, <1>10 DEF L

(* As many numbers as a set has are numbers of its members. *)
LEMMA NthIsAMember ==
    ASSUME NEW n \in Nat, NEW S, S \subseteq 1 .. n
    PROVE  Cardinality(S) \in Nat /\ \A k \in 1 .. Cardinality(S) : Nth(S, k) \in S
  <1> DEFINE P(i) == {j \in S : j < i}
             c    == Cardinality(S)
             r    == [i \in S |-> Cardinality(P(i)) + 1]
  <1>1. IsFiniteSet(S) /\ c \in Nat
    BY RowsAreFinite
  <1>2. ASSUME NEW i \in S PROVE IsFiniteSet(P(i)) /\ Cardinality(P(i)) \in Nat
    BY <1>1, FS_Subset, FS_CardinalityType
  <1>3. ASSUME NEW i \in S PROVE Cardinality(P(i)) + 1 \in 1 .. c
    <2>1. P(i) \subseteq S \ {i}
      OBVIOUS
    <2>2. IsFiniteSet(S \ {i}) /\ Cardinality(S \ {i}) = c - 1
      BY <1>1, FS_RemoveElement
    <2>3. Cardinality(P(i)) <= c - 1
      BY <2>1, <2>2, FS_Subset
    <2> HIDE DEF P
    <2> QED
      BY <1>1, <1>2, <2>3
  <1>4. ASSUME NEW i \in S, NEW j \in S, i < j PROVE Cardinality(P(i)) < Cardinality(P(j))
    <2> i \in Int /\ j \in Int /\ \A k \in S : k \in Int
      OBVIOUS
    <2>1. P(i) \cup {i} \subseteq P(j) /\ i \notin P(i)
      <3>1. i \in P(j) /\ i \notin P(i)
        BY <1>4
      <3>2. ASSUME NEW x \in P(i) PROVE x \in P(j)
        <4>1. x \in S /\ x < i /\ x \in Int
          OBVIOUS
        <4>2. x < j
          BY <1>4, <4>1
        <4> QED
          BY <4>1, <4>2
      <3> HIDE DEF P
      <3> QED
        BY <3>1, <3>2
    <2>2. /\ IsFiniteSet(P(i) \cup {i})
          /\ Cardinality(P(i) \cup {i}) = Cardinality(P(i)) + 1
      BY <1>2, <2>1, FS_AddElement
    <2>3. Cardinality(P(i) \cup {i}) <= Cardinality(P(j))
      BY <1>2, <2>1, FS_Subset
    <2> HIDE DEF P
    <2> QED
      BY <1>2, <2>2, <2>3
  <1>5. r \in Injection(S, 1 .. c)
    <2>1. r \in [S -> 1 .. c]
      BY <1>3
    <2>2. ASSUME NEW i \in S, NEW j \in S, r[i] = r[j] PROVE i = j
      <3>1. i < j \/ j < i \/ i = j
        OBVIOUS
      <3>2. Cardinality(P(i)) \in Nat /\ Cardinality(P(j)) \in Nat
        BY <1>2
      <3>3. Cardinality(P(i)) + 1 = Cardinality(P(j)) + 1
        BY <2>2
      <3> HIDE DEF P
      <3> QED
        BY <1>4, <3>1, <3>2, <3>3
    <2> QED
      BY <2>1, <2>2 DEF Injection, IsInjective
  <1>6. r \in Surjection(S, 1 .. c)
    <2>1. IsFiniteSet(1 .. c) /\ Cardinality(1 .. c) = c
      BY <1>1, FS_Interval
    <2> HIDE DEF r
    <2> QED
      BY <1>5, <2>1, FS_Injection
  <1>7. \A k \in 1 .. c : \E i \in S : r[i] = k
    BY <1>6 DEF Surjection
  <1>8. \A i \in S : r[i] = Cardinality(P(i)) + 1 /\ Cardinality(P(i)) \in Nat
    BY <1>2
  <1> HIDE DEF r
  <1>9. ASSUME NEW k \in 1 .. c PROVE \E i \in S : Cardinality({j \in S : j < i}) = k - 1
    <2>1. PICK i \in S : r[i] = k
      BY <1>7
    <2>2. Cardinality(P(i)) = k - 1
      <3> HIDE DEF P
      <3> QED
        BY <1>8, <2>1
    <2> QED
      BY <2>2
  <1> QED
    BY <1>1, <1>9 DEF Nth

-----------------------------------------------------------------------------
(* What the server reads, and what becomes of it as the log grows.         *)

(* The rows of a chat are numbers up to the log's length. *)
LEMMA RowsOfALog ==
    ASSUME NEW l \in Seq(Chat), NEW x
    PROVE  /\ Len(l) \in Nat /\ Of(l, x) \subseteq 1 .. Len(l)
           /\ \A row \in Of(l, x) : row \in Nat /\ x \in Chat
           /\ \A R \in SUBSET Of(l, x) : IsFiniteSet(R) /\ Cardinality(R) \in Nat /\ R \subseteq 1 .. Len(l) /\ R \in SUBSET Nat
  <1>1. Len(l) \in Nat /\ DOMAIN l = 1 .. Len(l) /\ \A i \in 1 .. Len(l) : l[i] \in Chat
    BY LenProperties, ElementOfSeq
  <1>2. Of(l, x) \subseteq 1 .. Len(l) /\ \A row \in Of(l, x) : row \in Nat /\ x \in Chat
    BY <1>1 DEF Of
  <1>3. ASSUME NEW R \in SUBSET Of(l, x)
        PROVE  IsFiniteSet(R) /\ Cardinality(R) \in Nat /\ R \subseteq 1 .. Len(l) /\ R \in SUBSET Nat
    <2>1. R \subseteq 1 .. Len(l)
      BY <1>2
    <2>2. R \in SUBSET Nat
      BY <2>1, <1>1
    <2> QED
      BY <1>1, <2>1, <2>2, RowsAreFinite
  <1> QED
    BY <1>1, <1>2, <1>3

(* A recorded message is one more row, after all the others. *)
LEMMA LogGrows ==
    ASSUME NEW l \in Seq(Chat), NEW chat \in Chat, NEW x
    PROVE  /\ Append(l, chat) \in Seq(Chat) /\ Len(Append(l, chat)) = Len(l) + 1 /\ Len(l) \in Nat
           /\ Of(l, x) \subseteq Of(Append(l, chat), x) /\ Of(Append(l, chat), x) \subseteq Of(l, x) \cup {Len(l) + 1}
           /\ \A row \in Of(l, x) : row \in Nat /\ row <= Len(l)
  <1>1. Len(l) \in Nat /\ DOMAIN l = 1 .. Len(l)
    BY LenProperties
  <1>2. /\ Append(l, chat) \in Seq(Chat) /\ Len(Append(l, chat)) = Len(l) + 1
        /\ \A i \in 1 .. Len(l) : Append(l, chat)[i] = l[i]
    BY <1>1
  <1>3. DOMAIN Append(l, chat) = 1 .. (Len(l) + 1)
    BY <1>2, LenProperties
  <1>4. Of(l, x) \subseteq Of(Append(l, chat), x) /\ Of(Append(l, chat), x) \subseteq Of(l, x) \cup {Len(l) + 1}
    BY <1>1, <1>2, <1>3 DEF Of
  <1> QED
    BY <1>1, <1>2, <1>4, RowsOfALog

(* A row after all the others changes what is before a part of the log not *)
(* at all, and what is after it by itself only.                            *)
LEMMA BeyondGrows ==
    ASSUME NEW n \in Nat, NEW S, NEW T, S \subseteq T, T \subseteq S \cup {n + 1}, S \subseteq 1 .. n,
           NEW R, R # {}, R \subseteq S
    PROVE  /\ Prior(R, T) = Prior(R, S)
           /\ Later(R, S) \subseteq Later(R, T) /\ Later(R, T) \subseteq Later(R, S) \cup {n + 1}
           /\ Gapless(R, S) => Gapless(R, T)
  <1>1. \A row \in S : row \in Int /\ row <= n
    OBVIOUS
  <1>2. \A row \in R : row \in Int /\ row <= n
    BY <1>1
  <1>3. ASSUME NEW row \in Prior(R, T) PROVE row \in Prior(R, S)
    <2>1. row \in T /\ \A shown \in R : row < shown
      BY DEF Prior
    <2>2. PICK shown \in R : row < shown
      BY <2>1
    <2>3. row \in S
      BY <1>2, <2>1, <2>2
    <2> QED
      BY <2>1, <2>3 DEF Prior
  <1>4. Prior(R, S) \subseteq Prior(R, T)
    BY DEF Prior
  <1>5. Later(R, S) \subseteq Later(R, T) /\ Later(R, T) \subseteq Later(R, S) \cup {n + 1}
    BY DEF Later
  <1>6. ASSUME Gapless(R, S) PROVE Gapless(R, T)
    <2> SUFFICES ASSUME NEW p \in R, NEW q \in R, NEW r \in T, p < r, r < q PROVE r \in R
      BY <1>6 DEF Gapless
    <2>1. r \in S
      BY <1>2
    <2> QED
      BY <1>6, <2>1 DEF Gapless
  <1> QED
    BY <1>3, <1>4, <1>5, <1>6

(* What is told of a part of the log stays true. *)
LEMMA ToldGrows ==
    ASSUME NEW l \in Seq(Chat), NEW chat \in Chat, NEW x, NEW w \in Windows, w.asOf <= Len(l),
           NEW R, R # {}, R \subseteq Of(l, x)
    PROVE  /\ OlderTold(w, R, Of(l, x)) => OlderTold(w, R, Of(Append(l, chat), x))
           /\ NewerTold(w, R, Of(l, x)) => NewerTold(w, R, Of(Append(l, chat), x))
           /\ Gapless(R, Of(l, x)) => Gapless(R, Of(Append(l, chat), x))
  <1> DEFINE S == Of(l, x)
             T == Of(Append(l, chat), x)
             n == Len(l)
  <1>1. n \in Nat /\ S \subseteq T /\ T \subseteq S \cup {n + 1} /\ S \subseteq 1 .. n
    BY LogGrows, RowsOfALog
  <1>2. w.asOf \in Nat
    BY DEF Windows
  <1> HIDE DEF S, T, n
  <1>3. /\ Prior(R, T) = Prior(R, S)
        /\ Later(R, S) \subseteq Later(R, T) /\ Later(R, T) \subseteq Later(R, S) \cup {n + 1}
        /\ Gapless(R, S) => Gapless(R, T)
    BY <1>1, BeyondGrows DEF S
  <1>4. OlderTold(w, R, S) => OlderTold(w, R, T)
    BY <1>3 DEF OlderTold
  <1>5. n + 1 > w.asOf
    BY <1>1, <1>2 DEF n
  <1>6. NewerTold(w, R, S) => NewerTold(w, R, T)
    BY <1>3, <1>5 DEF NewerTold
  <1> QED
    BY <1>3, <1>4, <1>6 DEF S, T

(* A window stays one. *)
LEMMA WindowGrows ==
    ASSUME NEW l \in Seq(Chat), NEW chat \in Chat, NEW w \in Windows, WindowFits(w, l)
    PROVE  WindowFits(w, Append(l, chat))
  <1>1. w.asOf <= Len(l) /\ Gapless(w.rows, Of(l, w.of)) /\ Cardinality(w.rows) <= Retained
    BY DEF WindowFits
  <1>2. w.asOf <= Len(Append(l, chat))
    BY <1>1, LogGrows DEF Windows
  <1>3. CASE w.rows = {}
    BY <1>1, <1>2, <1>3 DEF WindowFits, Gapless
  <1>4. CASE w.rows # {}
    <2>1. w.rows \subseteq Of(l, w.of)
      BY <1>1 DEF Gapless
    <2> QED
      BY <1>1, <1>2, <1>4, <2>1, ToldGrows DEF WindowFits
  <1> QED
    BY <1>3, <1>4

(* The flags of what the server reads are true. *)
LEMMA WindowTells ==
    ASSUME log \in Seq(Chat), NEW chat \in Chat, NEW R, R \subseteq Of(log, chat)
    PROVE  LET w == Window(chat, R)
               S == Of(log, chat)
           IN  /\ w \in Windows /\ w.of = chat /\ w.rows = R /\ w.asOf = Len(log)
               /\ R # {} => OlderTold(w, R, S) /\ NewerTold(w, R, S)
  <1> DEFINE w == Window(chat, R)
             S == Of(log, chat)
  <1>1. Rows(chat) = S
    BY DEF Rows, Of
  <1>2. Len(log) \in Nat /\ R \in SUBSET Nat
    BY RowsOfALog
  <1>3. /\ w.of = chat /\ w.rows = R /\ w.asOf = Len(log)
        /\ w.hasOlder = (\E row \in S, first \in R : \A other \in R : row < other)
        /\ w.hasNewer = (\E row \in S, last \in R : \A other \in R : row > other)
    BY <1>1 DEF Window
  <1>4. w \in Windows
    BY <1>2 DEF Window, Windows
  <1> HIDE DEF w, S
  <1>5. ASSUME R # {} PROVE OlderTold(w, R, S) /\ NewerTold(w, R, S)
    <2>1. w.hasOlder <=> Prior(R, S) # {}
      BY <1>3, <1>5 DEF Prior
    <2>2. w.hasNewer <=> Later(R, S) # {}
      BY <1>3, <1>5 DEF Later
    <2> QED
      BY <2>1, <2>2 DEF OlderTold, NewerTold
  <1> QED
    BY <1>3, <1>4, <1>5 DEF w, S

(* The latest rows are a window. *)
LEMMA LatestFits ==
    ASSUME log \in Seq(Chat), NEW chat \in Chat
    PROVE  Latest(chat) \in Windows /\ Latest(chat).of = chat /\ WindowFits(Latest(chat), log)
  <1> DEFINE S == Of(log, chat)
             R == Highest(S, PageLimit)
  <1>1. Rows(chat) = S
    BY DEF Rows, Of
  <1>2. Len(log) \in Nat /\ S \subseteq 1 .. Len(log) /\ \A row \in S : row \in Nat
    BY RowsOfALog
  <1>3. PageLimit \in Nat /\ Retained \in Nat /\ PageLimit <= Retained
    BY ChatLogsAssumption
  <1> HIDE DEF S
  <1>4. R \subseteq S /\ Cardinality(R) <= PageLimit /\ \A x \in R, y \in S : y > x => y \in R
    BY <1>2, <1>3, HighestRows
  <1>5. Cardinality(R) \in Nat
    BY <1>4, RowsOfALog DEF S
  <1> HIDE DEF R
  <1>6. Cardinality(R) <= Retained
    BY <1>3, <1>4, <1>5
  <1>7. Gapless(R, S)
    BY <1>2, <1>4 DEF Gapless
  <1>8. Latest(chat) = Window(chat, R)
    BY <1>1 DEF Latest, R
  <1> QED
    BY <1>2, <1>4, <1>6, <1>7, <1>8, WindowTells DEF WindowFits, S

(* So are the rows around one. *)
LEMMA AroundFits ==
    ASSUME log \in Seq(Chat), NEW chat \in Chat, NEW n \in Nat
    PROVE  Around(chat, n) \in Windows /\ Around(chat, n).of = chat /\ WindowFits(Around(chat, n), log)
  <1> DEFINE S == Of(log, chat)
             A == {r \in S : r <= n}
             B == {r \in S : r > n}
             half == PageLimit \div 2 + 1
             older == Highest(A, half)
             rest  == PageLimit - Cardinality(older)
             newer == Lowest(B, rest)
             R == older \cup newer
  <1>1. Rows(chat) = S
    BY DEF Rows, Of
  <1>2. Len(log) \in Nat /\ S \subseteq 1 .. Len(log) /\ \A row \in S : row \in Nat
    BY RowsOfALog
  <1>3. PageLimit \in Nat /\ Retained \in Nat /\ PageLimit <= Retained /\ PageLimit >= 1
    BY ChatLogsAssumption
  <1>4. half \in Nat /\ half >= 1 /\ half <= PageLimit
    BY <1>3
  <1>5. Around(chat, n) = Window(chat, R)
    BY <1>1 DEF Around
  <1> HIDE DEF S, half
  <1>6. A \subseteq 1 .. Len(log) /\ B \subseteq 1 .. Len(log)
    BY <1>2
  <1>7. /\ older \subseteq A /\ Cardinality(older) <= half
        /\ \A x \in older, y \in A : y > x => y \in older
        /\ A # {} => older # {}
    <2> HIDE DEF A
    <2> QED
      BY <1>2, <1>4, <1>6, HighestRows
  <1> HIDE DEF older
  <1>8. IsFiniteSet(older) /\ Cardinality(older) \in Nat /\ rest \in Nat
    <2>1. older \subseteq 1 .. Len(log)
      BY <1>6, <1>7
    <2>2. IsFiniteSet(older) /\ Cardinality(older) \in Nat
      BY <1>2, <2>1, RowsAreFinite
    <2>3. rest \in Nat
      BY <1>3, <1>4, <1>7, <2>2
    <2> QED
      BY <2>2, <2>3
  <1> HIDE DEF rest
  <1>9. /\ newer \subseteq B /\ Cardinality(newer) <= rest
        /\ \A x \in newer, y \in B : y < x => y \in newer
    <2> HIDE DEF B
    <2> QED
      BY <1>2, <1>6, <1>8, LowestRows
  <1> HIDE DEF newer
  <1>10. IsFiniteSet(newer) /\ Cardinality(newer) \in Nat
    BY <1>2, <1>6, <1>9, RowsAreFinite
  <1>11. R \subseteq S
    BY <1>7, <1>9
  <1>12. Cardinality(R) <= Retained
    <2>1. older \cap newer = {}
      BY <1>2, <1>7, <1>9
    <2>2. Cardinality(older \cap newer) = 0
      BY <2>1, FS_EmptySet
    <2>3. Cardinality(R) = Cardinality(older) + Cardinality(newer) - 0
      BY <1>8, <1>10, <2>2, FS_Union
    <2> HIDE DEF R
    <2> QED
      BY <1>3, <1>8, <1>9, <1>10, <2>3 DEF rest
  <1>13. Gapless(R, S)
    <2> SUFFICES ASSUME NEW p \in R, NEW q \in R, NEW r \in S, p < r, r < q PROVE r \in R
      BY <1>11 DEF Gapless
    <2>1. p \in Nat /\ q \in Nat /\ r \in Nat /\ p \in S /\ q \in S
      BY <1>2, <1>11
    <2>2. CASE r <= n
      <3>1. p \in older
        <4>1. p <= n
          BY <2>1, <2>2
        <4> QED
          BY <1>9, <2>1, <4>1
      <3> QED
        BY <1>7, <2>1, <2>2, <3>1
    <2>3. CASE r > n
      <3>1. q \in newer
        <4>1. q > n
          BY <2>1, <2>3
        <4> QED
          BY <1>7, <2>1, <4>1
      <3> QED
        BY <1>9, <2>1, <2>3, <3>1
    <2> QED
      BY <2>1, <2>2, <2>3
  <1> HIDE DEF R, A, B
  <1> QED
    BY <1>2, <1>5, <1>11, <1>12, <1>13, WindowTells DEF WindowFits, S

(* What is read before a row reaches up to it.                             *)
LEMMA BeforeFits ==
    ASSUME log \in Seq(Chat), NEW chat \in Chat, NEW n \in Nat, \E row \in Of(log, chat) : row < n
    PROVE  LET w == Before(chat, n)
               R == w.rows
               S == Of(log, chat)
           IN  /\ w \in Windows /\ w.asOf = Len(log) /\ R # {} /\ R \subseteq S /\ \A row \in R : row < n
               /\ \A first \in R, row \in S : first < row /\ row < n => row \in R
               /\ OlderTold(w, R, S)
  <1> DEFINE S == Of(log, chat)
             A == {r \in S : r < n}
             R == Highest(A, PageLimit)
  <1>1. Rows(chat) = S
    BY DEF Rows, Of
  <1>2. Len(log) \in Nat /\ S \subseteq 1 .. Len(log) /\ \A row \in S : row \in Nat
    BY RowsOfALog
  <1>3. PageLimit \in Nat /\ PageLimit >= 1
    BY ChatLogsAssumption
  <1>4. Before(chat, n) = Window(chat, R)
    BY <1>1 DEF Before
  <1> HIDE DEF S
  <1>5. A \subseteq 1 .. Len(log) /\ A # {}
    BY <1>2 DEF S
  <1>6. R \subseteq A /\ R # {} /\ \A x \in R, y \in A : y > x => y \in R
    <2> HIDE DEF A
    <2> QED
      BY <1>2, <1>3, <1>5, HighestRows
  <1> HIDE DEF R
  <1>7. R \subseteq S /\ \A row \in R : row < n
    BY <1>6
  <1>8. ASSUME NEW first \in R, NEW row \in S, first < row, row < n PROVE row \in R
    <2>1. first \in Nat /\ row \in Nat /\ row \in A /\ row > first
      BY <1>2, <1>7, <1>8
    <2> QED
      BY <1>6, <2>1
  <1> HIDE DEF A
  <1> QED
    BY <1>4, <1>6, <1>7, <1>8, WindowTells DEF S

(* What is read after a row begins behind it. *)
LEMMA AfterFits ==
    ASSUME log \in Seq(Chat), NEW chat \in Chat, NEW n \in Nat, \E row \in Of(log, chat) : row > n
    PROVE  LET w == After(chat, n)
               R == w.rows
               S == Of(log, chat)
           IN  /\ w \in Windows /\ w.asOf = Len(log) /\ R # {} /\ R \subseteq S /\ \A row \in R : row > n
               /\ \A last \in R, row \in S : n < row /\ row < last => row \in R
               /\ NewerTold(w, R, S)
  <1> DEFINE S == Of(log, chat)
             A == {r \in S : r > n}
             R == Lowest(A, PageLimit)
  <1>1. Rows(chat) = S
    BY DEF Rows, Of
  <1>2. Len(log) \in Nat /\ S \subseteq 1 .. Len(log) /\ \A row \in S : row \in Nat
    BY RowsOfALog
  <1>3. PageLimit \in Nat /\ PageLimit >= 1
    BY ChatLogsAssumption
  <1>4. After(chat, n) = Window(chat, R)
    BY <1>1 DEF After
  <1> HIDE DEF S
  <1>5. A \subseteq 1 .. Len(log) /\ A # {}
    BY <1>2 DEF S
  <1>6. R \subseteq A /\ R # {} /\ \A x \in R, y \in A : y < x => y \in R
    <2> HIDE DEF A
    <2> QED
      BY <1>2, <1>3, <1>5, LowestRows
  <1> HIDE DEF R
  <1>7. R \subseteq S /\ \A row \in R : row > n
    BY <1>6
  <1>8. ASSUME NEW last \in R, NEW row \in S, n < row, row < last PROVE row \in R
    <2>1. last \in Nat /\ row \in Nat /\ row \in A /\ row > n
      BY <1>2, <1>7, <1>8
    <2> QED
      BY <1>6, <1>8, <2>1
  <1> HIDE DEF A
  <1> QED
    BY <1>4, <1>6, <1>7, <1>8, WindowTells DEF S

-----------------------------------------------------------------------------
(* The window is extended.                                                 *)

(* The older rows that are asked for exist, and so do the newer ones. *)
LEMMA BeyondTheEdge ==
    ASSUME NEW l \in Seq(Chat), NEW w \in Windows, WindowFits(w, l), NEW n \in w.rows
    PROVE  /\ n \in Nat /\ w.of \in Chat /\ w.rows \subseteq Of(l, w.of)
           /\ w.hasOlder => \E row \in Of(l, w.of) : row < n
           /\ w.hasNewer => \E row \in Of(l, w.of) : row > n
  <1>1. /\ Gapless(w.rows, Of(l, w.of)) /\ OlderTold(w, w.rows, Of(l, w.of)) /\ NewerTold(w, w.rows, Of(l, w.of))
    BY DEF WindowFits
  <1>2. n \in Of(l, w.of) /\ w.rows \subseteq Of(l, w.of)
    BY <1>1 DEF Gapless
  <1>3. n \in Nat /\ w.of \in Chat
    BY <1>2, RowsOfALog
  <1>4. w.hasOlder => \E row \in Of(l, w.of) : row < n
    BY <1>1 DEF OlderTold, Prior
  <1>5. w.hasNewer => \E row \in Of(l, w.of) : row > n
    BY <1>1 DEF NewerTold, Later
  <1> QED
    BY <1>2, <1>3, <1>4, <1>5

(* Rows read before the window's edge are added to it; if there are too  *)
(* many then, the newest ones are dropped, and the flag says so.          *)
LEMMA OlderMerged ==
    ASSUME NEW l \in Seq(Chat), NEW w \in Windows, WindowFits(w, l), NEW c \in Calls, OlderFits(c, w, l), c.got = "ok"
    PROVE  LET pruned == Cardinality(w.rows \cup c.window.rows) > Retained
               m == [w EXCEPT !.rows = Lowest(w.rows \cup c.window.rows, Retained), !.asOf = @,
                              !.hasOlder = c.window.hasOlder, !.hasNewer = @ \/ pruned]
           IN  m \in Windows /\ m.of = w.of /\ WindowFits(m, l)
  <1> DEFINE S == Of(l, w.of)
             R == c.window.rows
             n == c.row
             U == w.rows \cup R
             V == Lowest(U, Retained)
             pruned == Cardinality(U) > Retained
             m == [w EXCEPT !.rows = V, !.asOf = @,
                            !.hasOlder = c.window.hasOlder, !.hasNewer = @ \/ pruned]
  <1>1. /\ w.asOf \in Nat /\ w.asOf <= Len(l) /\ Gapless(w.rows, S) /\ n \in w.rows
        /\ OlderTold(w, w.rows, S) /\ NewerTold(w, w.rows, S)
    BY DEF WindowFits, OlderFits, Windows
  <1>2. /\ R # {} /\ R \subseteq S /\ \A row \in R : row < n
        /\ \A e \in R, row \in S : e < row /\ row < n => row \in R
        /\ OlderTold(c.window, R, S)
        /\ \A row \in w.rows : n <= row
    BY DEF OlderFits
  <1>3. Len(l) \in Nat /\ S \subseteq 1 .. Len(l) /\ \A row \in S : row \in Nat
    BY RowsOfALog
  <1>4. Retained \in Nat /\ Retained >= 1
    BY ChatLogsAssumption
  <1>5. c.window \in Windows
    BY DEF Calls
  <1> HIDE DEF S, R, n
  <1>6. w.rows \subseteq S /\ \A p, q \in w.rows, r \in S : p < r /\ r < q => r \in w.rows
    BY <1>1 DEF Gapless
  <1>7. U \subseteq S /\ U # {} /\ n \in Nat
    BY <1>1, <1>2, <1>3, <1>6
  <1>8. ASSUME NEW p \in U, NEW q \in U, NEW r \in S, p < r, r < q PROVE r \in U
    <2>1. p \in Nat /\ q \in Nat /\ r \in Nat
      BY <1>3, <1>7
    <2>2. CASE r < n
      <3>1. p < n
        BY <1>7, <1>8, <2>1, <2>2
      <3>2. p \in R
        <4>1. ~(n <= p)
          BY <1>7, <2>1, <3>1
        <4> QED
          BY <1>2, <4>1
      <3> QED
        BY <1>2, <1>8, <2>2, <3>2
    <2>3. CASE r = n
      BY <1>1, <2>3
    <2>4. CASE n < r
      <3>1. ~(q < n)
        BY <1>7, <1>8, <2>1, <2>4
      <3>2. q \in w.rows
        BY <1>2, <3>1
      <3> QED
        BY <1>1, <1>6, <1>8, <2>4, <3>2
    <2> QED
      BY <1>7, <2>1, <2>2, <2>3, <2>4
  <1>9. IsFiniteSet(U) /\ Cardinality(U) \in Nat
    BY <1>3, <1>7, RowsAreFinite
  <1>10. /\ V \subseteq U /\ Cardinality(V) <= Retained
         /\ \A x \in V, y \in U : y < x => y \in V
         /\ Cardinality(U) <= Retained => V = U
         /\ \E x \in V : \A y \in U : x <= y
    <2>1. U \subseteq 1 .. Len(l)
      BY <1>3, <1>7
    <2> HIDE DEF U
    <2> QED
      BY <1>3, <1>4, <1>7, <2>1, LowestRows
  <1> HIDE DEF V
  <1>11. Gapless(V, S)
    <2> SUFFICES ASSUME NEW p \in V, NEW q \in V, NEW r \in S, p < r, r < q PROVE r \in V
      BY <1>3, <1>7, <1>10 DEF Gapless
    <2>1. r \in U
      BY <1>8, <1>10
    <2> QED
      BY <1>10, <2>1
  <1>12. ASSUME pruned PROVE \E y \in S : \A v \in V : v < y
    <2>1. ~(Cardinality(U) <= Retained)
      BY <1>4, <1>9, <1>12
    <2>2. V # U
      BY <1>10, <2>1
    <2>3. PICK y \in U : y \notin V
      BY <1>10, <2>2
    <2>4. ASSUME NEW v \in V PROVE v < y
      <3>1. v \in Nat /\ y \in Nat /\ ~(y < v) /\ y # v
        BY <1>3, <1>7, <1>10, <2>3
      <3> QED
        BY <3>1
    <2> QED
      BY <1>7, <2>4
  <1>13. Prior(V, S) = Prior(R, S)
    <2>1. PICK x \in V : \A y \in U : x <= y
      BY <1>10
    <2>2. ASSUME NEW row \in S, \A v \in V : row < v, NEW r \in R PROVE row < r
      <3>1. row \in Nat /\ x \in Nat /\ r \in Nat /\ row < x /\ x <= r
        BY <1>2, <1>3, <1>7, <1>10, <2>1, <2>2
      <3> QED
        BY <3>1
    <2>3. ASSUME NEW row \in S, \A r \in R : row < r, NEW v \in V PROVE row < v
      <3>1. PICK r \in R : r < n
        BY <1>2
      <3>2. row \in Nat /\ r \in Nat /\ v \in Nat /\ row < r
        BY <1>2, <1>3, <1>7, <1>10, <2>3
      <3>3. CASE v \in R
        BY <2>3, <3>3
      <3>4. CASE v \in w.rows
        <4>1. n <= v
          BY <1>2, <3>4
        <4> QED
          BY <1>7, <3>1, <3>2, <4>1
      <3> QED
        BY <1>10, <3>3, <3>4
    <2> QED
      BY <2>2, <2>3 DEF Prior
  <1>14. ASSUME NEW row \in S, \A r \in w.rows : r < row, NEW u \in U PROVE u < row
    <2>1. CASE u \in w.rows
      BY <1>14, <2>1
    <2>2. CASE u \in R
      <3>1. u < n /\ n < row /\ row \in Nat /\ u \in Nat
        BY <1>1, <1>2, <1>3, <1>14, <2>2
      <3> QED
        BY <1>7, <3>1
    <2> QED
      BY <2>1, <2>2
  <1>15. Later(w.rows, S) \subseteq Later(V, S)
    <2> SUFFICES ASSUME NEW row \in S, \A r \in w.rows : row > r, NEW v \in V PROVE row > v
      BY DEF Later
    <2>1. \A r \in w.rows : r < row
      BY <1>3, <1>6
    <2>2. v < row
      BY <1>10, <1>14, <2>1
    <2>3. v \in Nat /\ row \in Nat
      BY <1>3, <1>7, <1>10
    <2> QED
      BY <2>2, <2>3
  <1>16. V = U => Later(V, S) \subseteq Later(w.rows, S)
    BY DEF Later
  <1>17. pruned => Later(V, S) # {}
    <2>1. ASSUME pruned PROVE \E y \in S : \A v \in V : y > v
      <3>1. PICK y \in S : \A v \in V : v < y
        BY <1>12, <2>1
      <3>2. \A v \in V : y > v
        BY <1>3, <1>7, <1>10, <3>1
      <3> QED
        BY <3>2
    <2> QED
      BY <2>1 DEF Later
  <1>18. ~pruned => V = U
    BY <1>4, <1>9, <1>10
  <1> HIDE DEF pruned, U
  <1>19. V \in SUBSET Nat /\ V # {}
    BY <1>3, <1>7, <1>10
  <1>20. /\ m.of = w.of /\ m.rows = V /\ m.asOf = w.asOf
         /\ m.hasOlder = c.window.hasOlder /\ m.hasNewer = (w.hasNewer \/ pruned)
    BY DEF m, Windows, R
  <1>21. m \in Windows
    BY <1>5, <1>19 DEF m, Windows, R, pruned
  <1> HIDE DEF m
  <1>22. OlderTold(m, V, S)
    BY <1>2, <1>13, <1>20 DEF OlderTold
  <1>23. NewerTold(m, V, S)
    BY <1>1, <1>15, <1>16, <1>17, <1>18, <1>20 DEF NewerTold
  <1>24. m.asOf <= Len(l)
    BY <1>1, <1>2, <1>20
  <1>25. WindowFits(m, l)
    BY <1>10, <1>11, <1>20, <1>22, <1>23, <1>24 DEF WindowFits, S
  <1> QED
    BY <1>20, <1>21, <1>25 DEF m, pruned, U, V, R

(* Rows read behind the window's edge are added to it; if there are too  *)
(* many then, the oldest ones are dropped, and the flag says so.          *)
LEMMA NewerMerged ==
    ASSUME NEW l \in Seq(Chat), NEW w \in Windows, WindowFits(w, l), NEW c \in Calls, NewerFits(c, w, l), c.got = "ok"
    PROVE  LET pruned == Cardinality(w.rows \cup c.window.rows) > Retained
               m == [w EXCEPT !.rows = Highest(w.rows \cup c.window.rows, Retained), !.asOf = c.window.asOf,
                              !.hasOlder = @ \/ pruned, !.hasNewer = c.window.hasNewer]
           IN  m \in Windows /\ m.of = w.of /\ WindowFits(m, l)
  <1> DEFINE S == Of(l, w.of)
             R == c.window.rows
             n == c.row
             U == w.rows \cup R
             V == Highest(U, Retained)
             pruned == Cardinality(U) > Retained
             m == [w EXCEPT !.rows = V, !.asOf = c.window.asOf,
                            !.hasOlder = @ \/ pruned, !.hasNewer = c.window.hasNewer]
  <1>1. /\ w.asOf \in Nat /\ w.asOf <= Len(l) /\ Gapless(w.rows, S) /\ n \in w.rows
        /\ OlderTold(w, w.rows, S) /\ NewerTold(w, w.rows, S)
    BY DEF WindowFits, NewerFits, Windows
  <1>2. /\ R # {} /\ R \subseteq S /\ \A row \in R : row > n
        /\ \A e \in R, row \in S : e > row /\ row > n => row \in R
        /\ NewerTold(c.window, R, S) /\ c.window.asOf <= Len(l)
        /\ \A row \in w.rows : n >= row
    BY DEF NewerFits
  <1>3. Len(l) \in Nat /\ S \subseteq 1 .. Len(l) /\ \A row \in S : row \in Nat
    BY RowsOfALog
  <1>4. Retained \in Nat /\ Retained >= 1
    BY ChatLogsAssumption
  <1>5. c.window \in Windows
    BY DEF Calls
  <1> HIDE DEF S, R, n
  <1>6. w.rows \subseteq S /\ \A p, q \in w.rows, r \in S : p < r /\ r < q => r \in w.rows
    BY <1>1 DEF Gapless
  <1>7. U \subseteq S /\ U # {} /\ n \in Nat
    BY <1>1, <1>2, <1>3, <1>6
  <1>8. ASSUME NEW p \in U, NEW q \in U, NEW r \in S, p > r, r > q PROVE r \in U
    <2>1. p \in Nat /\ q \in Nat /\ r \in Nat
      BY <1>3, <1>7
    <2>2. CASE r > n
      <3>1. p > n
        BY <1>7, <1>8, <2>1, <2>2
      <3>2. p \in R
        <4>1. ~(n >= p)
          BY <1>7, <2>1, <3>1
        <4> QED
          BY <1>2, <4>1
      <3> QED
        BY <1>2, <1>8, <2>2, <3>2
    <2>3. CASE r = n
      BY <1>1, <2>3
    <2>4. CASE n > r
      <3>1. ~(q > n)
        BY <1>7, <1>8, <2>1, <2>4
      <3>2. q \in w.rows
        BY <1>2, <3>1
      <3> QED
        BY <1>1, <1>6, <1>8, <2>4, <3>2
    <2> QED
      BY <1>7, <2>1, <2>2, <2>3, <2>4
  <1>9. IsFiniteSet(U) /\ Cardinality(U) \in Nat
    BY <1>3, <1>7, RowsAreFinite
  <1>10. /\ V \subseteq U /\ Cardinality(V) <= Retained
         /\ \A x \in V, y \in U : y > x => y \in V
         /\ Cardinality(U) <= Retained => V = U
         /\ \E x \in V : \A y \in U : x >= y
    <2>1. U \subseteq 1 .. Len(l)
      BY <1>3, <1>7
    <2> HIDE DEF U
    <2> QED
      BY <1>3, <1>4, <1>7, <2>1, HighestRows
  <1> HIDE DEF V
  <1>11. Gapless(V, S)
    <2> SUFFICES ASSUME NEW p \in V, NEW q \in V, NEW r \in S, p > r, r > q PROVE r \in V
      BY <1>3, <1>7, <1>10 DEF Gapless
    <2>1. r \in U
      BY <1>8, <1>10
    <2> QED
      BY <1>10, <2>1
  <1>12. ASSUME pruned PROVE \E y \in S : \A v \in V : v > y
    <2>1. ~(Cardinality(U) <= Retained)
      BY <1>4, <1>9, <1>12
    <2>2. V # U
      BY <1>10, <2>1
    <2>3. PICK y \in U : y \notin V
      BY <1>10, <2>2
    <2>4. ASSUME NEW v \in V PROVE v > y
      <3>1. v \in Nat /\ y \in Nat /\ ~(y > v) /\ y # v
        BY <1>3, <1>7, <1>10, <2>3
      <3> QED
        BY <3>1
    <2> QED
      BY <1>7, <2>4
  <1>13. Later(V, S) = Later(R, S)
    <2>1. PICK x \in V : \A y \in U : x >= y
      BY <1>10
    <2>2. ASSUME NEW row \in S, \A v \in V : row > v, NEW r \in R PROVE row > r
      <3>1. row \in Nat /\ x \in Nat /\ r \in Nat /\ row > x /\ x >= r
        BY <1>2, <1>3, <1>7, <1>10, <2>1, <2>2
      <3> QED
        BY <3>1
    <2>3. ASSUME NEW row \in S, \A r \in R : row > r, NEW v \in V PROVE row > v
      <3>1. PICK r \in R : r > n
        BY <1>2
      <3>2. row \in Nat /\ r \in Nat /\ v \in Nat /\ row > r
        BY <1>2, <1>3, <1>7, <1>10, <2>3
      <3>3. CASE v \in R
        BY <2>3, <3>3
      <3>4. CASE v \in w.rows
        <4>1. n >= v
          BY <1>2, <3>4
        <4> QED
          BY <1>7, <3>1, <3>2, <4>1
      <3> QED
        BY <1>10, <3>3, <3>4
    <2> QED
      BY <2>2, <2>3 DEF Later
  <1>14. ASSUME NEW row \in S, \A r \in w.rows : r > row, NEW u \in U PROVE u > row
    <2>1. CASE u \in w.rows
      BY <1>14, <2>1
    <2>2. CASE u \in R
      <3>1. u > n /\ n > row /\ row \in Nat /\ u \in Nat
        BY <1>1, <1>2, <1>3, <1>14, <2>2
      <3> QED
        BY <1>7, <3>1
    <2> QED
      BY <2>1, <2>2
  <1>15. Prior(w.rows, S) \subseteq Prior(V, S)
    <2> SUFFICES ASSUME NEW row \in S, \A r \in w.rows : row < r, NEW v \in V PROVE row < v
      BY DEF Prior
    <2>1. \A r \in w.rows : r > row
      BY <1>3, <1>6
    <2>2. v > row
      BY <1>10, <1>14, <2>1
    <2>3. v \in Nat /\ row \in Nat
      BY <1>3, <1>7, <1>10
    <2> QED
      BY <2>2, <2>3
  <1>16. V = U => Prior(V, S) \subseteq Prior(w.rows, S)
    BY DEF Prior
  <1>17. pruned => Prior(V, S) # {}
    <2>1. ASSUME pruned PROVE \E y \in S : \A v \in V : y < v
      <3>1. PICK y \in S : \A v \in V : v > y
        BY <1>12, <2>1
      <3>2. \A v \in V : y < v
        BY <1>3, <1>7, <1>10, <3>1
      <3> QED
        BY <3>2
    <2> QED
      BY <2>1 DEF Prior
  <1>18. ~pruned => V = U
    BY <1>4, <1>9, <1>10
  <1> HIDE DEF pruned, U
  <1>19. V \in SUBSET Nat /\ V # {}
    BY <1>3, <1>7, <1>10
  <1>20. /\ m.of = w.of /\ m.rows = V /\ m.asOf = c.window.asOf
         /\ m.hasOlder = (w.hasOlder \/ pruned) /\ m.hasNewer = c.window.hasNewer
    BY DEF m, Windows, R
  <1>21. m \in Windows
    BY <1>5, <1>19 DEF m, Windows, R, pruned
  <1> HIDE DEF m
  <1>22. OlderTold(m, V, S)
    BY <1>1, <1>15, <1>16, <1>17, <1>18, <1>20 DEF OlderTold
  <1>23. NewerTold(m, V, S)
    BY <1>2, <1>13, <1>20 DEF NewerTold
  <1>24. m.asOf <= Len(l)
    BY <1>1, <1>2, <1>20
  <1>25. WindowFits(m, l)
    BY <1>10, <1>11, <1>20, <1>22, <1>23, <1>24 DEF WindowFits, S
  <1> QED
    BY <1>20, <1>21, <1>25 DEF m, pruned, U, V, R

-----------------------------------------------------------------------------
(* What the handlers do.                                                   *)

(* A call is added to those on their way, unanswered or refused. *)
LEMMA CallIsAdded ==
    ASSUME NEW p \in Pages, NEW what \in {"list", "select"} \cup Paging, NEW to \in Seq(Chat), NEW row \in Nat
    PROVE  \E c \in Calls :
             /\ Call(p, what, to, row) = [p EXCEPT !.calls = @ \cup {c}]
             /\ c.what = what /\ c.to = to /\ c.row = row /\ c.current = TRUE /\ c.got # "ok"
             /\ Call(p, what, to, row) \in Pages
  <1> DEFINE c == [what |-> what, to |-> to, row |-> row, chats |-> <<>>, window |-> NoWindow,
                   current |-> TRUE, found |-> FALSE, got |-> IF Live(p) THEN "none" ELSE "error"]
  <1>1. NoWindow \in Windows
    BY DEF NoWindow, Windows
  <1>2. <<>> \in Seq(Chat)
    BY EmptySeq
  <1>3. c \in Calls /\ c.got # "ok"
    BY <1>1, <1>2 DEF Calls
  <1>4. Call(p, what, to, row) = [p EXCEPT !.calls = @ \cup {c}]
    BY DEF Call
  <1>5. c.what = what /\ c.to = to /\ c.row = row /\ c.current = TRUE
    OBVIOUS
  <1> HIDE DEF c
  <1>6. Call(p, what, to, row) \in Pages
    BY <1>3, <1>4 DEF Pages
  <1> QED
    BY <1>3, <1>4, <1>5, <1>6

(* The chats a route names are of the list, and named by the route. *)
LEMMA NamedAreNamed ==
    ASSUME NEW p \in Pages
    PROVE  Named(p) \in Seq(Chat) /\ \A n \in DOMAIN Named(p) : Named(p)[n] \in p.route.to
  <1> DEFINE S == {n \in DOMAIN p.chats : p.chats[n] \in p.route.to}
  <1>1. p.chats \in Seq(Chat)
    BY DEF Pages
  <1>2. Len(p.chats) \in Nat /\ DOMAIN p.chats = 1 .. Len(p.chats) /\ \A n \in DOMAIN p.chats : p.chats[n] \in Chat
    BY <1>1, LenProperties, ElementOfSeq
  <1>3. S \subseteq 1 .. Len(p.chats) /\ \A n \in S : p.chats[n] \in p.route.to /\ p.chats[n] \in Chat
    BY <1>2
  <1>4. Named(p) = [k \in 1 .. Cardinality(S) |-> p.chats[Nth(S, k)]]
    BY DEF Named
  <1> HIDE DEF S
  <1>5. Cardinality(S) \in Nat /\ \A k \in 1 .. Cardinality(S) : Nth(S, k) \in S
    BY <1>2, <1>3, NthIsAMember
  <1>6. Named(p) \in [1 .. Cardinality(S) -> Chat]
    BY <1>3, <1>4, <1>5
  <1>7. Named(p) \in Seq(Chat)
    BY <1>5, <1>6, SeqDef
  <1>8. \A n \in DOMAIN Named(p) : Named(p)[n] \in p.route.to
    BY <1>3, <1>4, <1>5
  <1> QED
    BY <1>7, <1>8

(* A list of chats is one. *)
LEMMA ListingIsAList == ASSUME log \in Seq(Chat) PROVE Listing \in Seq(Chat)
  <1> DEFINE S == {row \in DOMAIN log : \A later \in DOMAIN log : log[later] = log[row] => later <= row}
             count == Cardinality(S)
  <1>1. Len(log) \in Nat /\ DOMAIN log = 1 .. Len(log) /\ \A n \in DOMAIN log : log[n] \in Chat
    BY LenProperties, ElementOfSeq
  <1>2. S \subseteq 1 .. Len(log) /\ \A n \in S : log[n] \in Chat
    BY <1>1
  <1>3. Listing = [k \in 1 .. count |-> log[Nth(S, count - k + 1)]]
    BY DEF Listing
  <1> HIDE DEF S
  <1>4. count \in Nat /\ \A k \in 1 .. count : Nth(S, k) \in S
    BY <1>1, <1>2, NthIsAMember
  <1>5. \A k \in 1 .. count : count - k + 1 \in 1 .. count
    BY <1>4
  <1>6. Listing \in [1 .. count -> Chat]
    BY <1>2, <1>3, <1>4, <1>5
  <1> QED
    BY <1>4, <1>6, SeqDef

(* A selection asks for chats its route names, once all others are given up. *)
LEMMA SelectedFits ==
    ASSUME NEW p \in Pages, NEW l \in Seq(Chat), WindowFits(p.window, l), p.direction = "none",
           \A c \in p.calls : c.what = "list",
           p.loading /\ p.conn # "reconnecting" => \E c \in p.calls : c.what = "list"
    PROVE  Fits(Selected(p), l) /\ Selected(p).window = p.window
  <1> DEFINE busy  == [p EXCEPT !.loadingWindow = TRUE]
             first == [to |-> {p.chats[1]}, message |-> NoMessage]
             aside == [busy EXCEPT !.route = first]
  <1> p.chats \in Seq(Chat) /\ p.route \in Route /\ p.calls \subseteq Calls
    BY DEF Pages
  <1>1. ASSUME NEW b \in Pages, NEW to \in Seq(Chat), NEW row \in Nat, to # <<>>, \A n \in DOMAIN to : to[n] \in b.route.to,
               b.calls = p.calls, b.window = p.window, b.direction = p.direction, b.conn = p.conn, b.loading = p.loading,
               NEW q, q = Call(b, "select", to, row)
        PROVE  Fits(q, l) /\ q.window = p.window
    <2>0. \E c \in Calls : /\ Call(b, "select", to, row) = [b EXCEPT !.calls = @ \cup {c}]
                           /\ c.what = "select" /\ c.to = to /\ c.row = row /\ c.current = TRUE /\ c.got # "ok"
                           /\ Call(b, "select", to, row) \in Pages
      <3>1. b \in Pages /\ "select" \in {"list", "select"} \cup Paging /\ to \in Seq(Chat) /\ row \in Nat
        BY <1>1
      <3> QED
        BY ONLY <3>1, CallIsAdded
    <2>1. PICK c \in Calls : /\ q = [b EXCEPT !.calls = @ \cup {c}] /\ q \in Pages
                             /\ c.what = "select" /\ c.to = to /\ c.got # "ok"
      BY <1>1, <2>0
    <2>2. /\ q.calls = p.calls \cup {c} /\ q.window = p.window /\ q.direction = "none" /\ q.route = b.route
          /\ q.conn = p.conn /\ q.loading = p.loading
      BY <1>1, <2>1 DEF Pages
    <2>3. SelectFits(c, q, l)
      BY <1>1, <2>1, <2>2 DEF SelectFits
    <2>4. CallsFit(q, l)
      BY <1>1, <2>1, <2>2, <2>3 DEF CallsFit, CallFits
    <2>5. Waits(q)
      BY <2>1, <2>2 DEF Waits, Paging
    <2> QED
      BY <2>1, <2>2, <2>4, <2>5 DEF Fits
  <1>2. CASE p.chats = <<>>
    <2>1. Selected(p) = [p EXCEPT !.loadingWindow = FALSE]
      BY <1>2 DEF Selected
    <2> DEFINE q == [p EXCEPT !.loadingWindow = FALSE]
    <2>2. /\ q \in Pages /\ q.calls = p.calls /\ q.window = p.window /\ q.direction = "none"
          /\ q.conn = p.conn /\ q.loading = p.loading /\ q.loadingWindow = FALSE
      BY DEF Pages
    <2> HIDE DEF q
    <2>3. CallsFit(q, l)
      BY <2>2 DEF CallsFit, CallFits
    <2>4. Waits(q)
      BY <2>2 DEF Waits, Paging
    <2> QED
      BY <2>1, <2>2, <2>3, <2>4 DEF Fits, q
  <1>3. CASE p.chats # <<>> /\ Named(p) # <<>>
    <2>1. Selected(p) = Call(busy, "select", Named(p), p.route.message)
      BY <1>3 DEF Selected
    <2>2. /\ busy \in Pages /\ busy.route = p.route /\ busy.calls = p.calls /\ busy.window = p.window
          /\ busy.direction = p.direction /\ busy.conn = p.conn /\ busy.loading = p.loading
      BY DEF Pages
    <2>3. p.route.message \in Nat
      BY DEF Route
    <2> HIDE DEF busy
    <2>4. Named(p) \in Seq(Chat) /\ \A n \in DOMAIN Named(p) : Named(p)[n] \in busy.route.to
      BY <2>2, NamedAreNamed
    <2> QED
      BY <1>1, <1>3, <2>1, <2>2, <2>3, <2>4
  <1>4. CASE p.chats # <<>> /\ ~(Named(p) # <<>>)
    <2>1. Selected(p) = Call(aside, "select", <<p.chats[1]>>, NoMessage)
      BY <1>4 DEF Selected
    <2>2. p.chats[1] \in Chat
      <3>1. Len(p.chats) \in Nat /\ Len(p.chats) # 0 /\ \A n \in 1 .. Len(p.chats) : p.chats[n] \in Chat
        BY <1>4, LenProperties, EmptySeq, ElementOfSeq
      <3> QED
        BY <3>1
    <2>3. first \in Route
      BY <2>2 DEF Route, NoMessage
    <2>4. /\ aside \in Pages /\ aside.route = first /\ aside.calls = p.calls /\ aside.window = p.window
          /\ aside.direction = p.direction /\ aside.conn = p.conn /\ aside.loading = p.loading
      BY <2>3 DEF Pages
    <2>5. p.chats[1] \in aside.route.to
      BY <2>4
    <2> HIDE DEF aside
    <2> DEFINE to == <<p.chats[1]>>
    <2>6. to \in Seq(Chat) /\ to # <<>> /\ DOMAIN to = {1} /\ to[1] = p.chats[1]
      BY <2>2
    <2>7. \A n \in DOMAIN to : to[n] \in aside.route.to
      BY <2>5, <2>6
    <2>8. NoMessage \in Nat
      BY DEF NoMessage
    <2> HIDE DEF to
    <2> QED
      BY <1>1, <2>1, <2>4, <2>6, <2>7, <2>8 DEF to
  <1> QED
    BY <1>2, <1>3, <1>4

(* So does a new route's. *)
LEMMA RoutedFits ==
    ASSUME NEW p \in Pages, NEW l \in Seq(Chat), WindowFits(p.window, l),
           p.loading /\ p.conn # "reconnecting" => \E c \in p.calls : c.what = "list"
    PROVE  Fits(SelectFromRoute(p), l) /\ SelectFromRoute(p).window = p.window
  <1> DEFINE q == [Supersede(p) EXCEPT !.direction = "none"]
  <1>1. /\ q \in Pages /\ q.window = p.window /\ q.direction = "none" /\ q.loading = p.loading /\ q.conn = p.conn
        /\ q.calls = {c \in p.calls : c.what = "list"}
    BY DEF Supersede, Pages
  <1>2. SelectFromRoute(p) = Selected(q)
    BY DEF SelectFromRoute
  <1> HIDE DEF q
  <1>3. q.loading /\ q.conn # "reconnecting" => \E c \in q.calls : c.what = "list"
    BY <1>1
  <1>4. \A c \in q.calls : c.what = "list"
    BY <1>1
  <1>5. WindowFits(q.window, l)
    BY <1>1
  <1>6. Fits(Selected(q), l) /\ Selected(q).window = q.window
    BY <1>1, <1>3, <1>4, <1>5, SelectedFits
  <1> QED
    BY <1>1, <1>2, <1>6

(* A refresh gives up everything but the window. *)
LEMMA RefreshFits ==
    ASSUME NEW p \in Pages, NEW l \in Seq(Chat), WindowFits(p.window, l)
    PROVE  Fits(Refresh(p), l) /\ Refresh(p).window = p.window
  <1> DEFINE q == [p EXCEPT !.calls = {}, !.direction = "none", !.loadingWindow = FALSE,
                            !.loading = p.conn # "offline" /\ p.chats = <<>>]
  <1>1. /\ q \in Pages /\ q.calls = {} /\ q.direction = "none" /\ q.loadingWindow = FALSE /\ q.window = p.window
        /\ q.conn = p.conn /\ (q.loading => q.conn # "offline")
    BY DEF Pages
  <1>2. Refresh(p) = IF Live(p) THEN Call(q, "list", <<>>, NoMessage) ELSE q
    BY DEF Refresh
  <1> HIDE DEF q
  <1>3. CASE Live(p)
    <2>1. <<>> \in Seq(Chat) /\ NoMessage \in Nat
      BY EmptySeq DEF NoMessage
    <2>2. PICK c \in Calls : /\ Call(q, "list", <<>>, NoMessage) = [q EXCEPT !.calls = @ \cup {c}]
                             /\ c.what = "list" /\ c.to = <<>> /\ c.row = NoMessage /\ c.current = TRUE /\ c.got # "ok"
                             /\ Call(q, "list", <<>>, NoMessage) \in Pages
      <3>1. q \in Pages /\ "list" \in {"list", "select"} \cup Paging
        BY <1>1
      <3> QED
        BY ONLY <2>1, <3>1, CallIsAdded
    <2> DEFINE r == Call(q, "list", <<>>, NoMessage)
    <2>3. /\ r \in Pages /\ r.calls = {c} /\ r.direction = "none" /\ r.loadingWindow = FALSE /\ r.window = p.window
      BY <1>1, <2>2 DEF Pages
    <2>4. Refresh(p) = r
      BY <1>2, <1>3
    <2> HIDE DEF r
    <2>5. CallsFit(r, l)
      BY <2>2, <2>3 DEF CallsFit, CallFits
    <2>6. Waits(r)
      BY <2>2, <2>3 DEF Waits, Paging
    <2> QED
      BY <2>3, <2>4, <2>5, <2>6 DEF Fits
  <1>4. CASE ~Live(p)
    <2>1. Refresh(p) = q /\ p.conn # "authenticated"
      BY <1>2, <1>4 DEF Live
    <2>2. CallsFit(q, l)
      BY <1>1 DEF CallsFit, CallFits
    <2>3. q.loading => q.conn = "reconnecting"
      BY <1>1, <2>1 DEF Pages
    <2>4. Waits(q)
      BY <1>1, <2>3 DEF Waits
    <2> QED
      BY <1>1, <2>1, <2>2, <2>4 DEF Fits
  <1> QED
    BY <1>3, <1>4

(* A window comes into view, or the next chat is asked for, or none has the *)
(* message.                                                                 *)
LEMMA SelectionArrives ==
    ASSUME NEW p \in Pages, NEW l \in Seq(Chat), Fits(p, l), NEW c \in p.calls, c.what = "select",
           NEW q, q = SelectArrives([p EXCEPT !.calls = @ \ {c}], c)
    PROVE  Fits(q, l) /\ (q.window = p.window \/ q.window.of \in q.route.to)
  <1> DEFINE r == [p EXCEPT !.calls = @ \ {c}]
  <1>1. /\ r \in Pages /\ r.calls = p.calls \ {c} /\ r.window = p.window /\ r.route = p.route
        /\ r.direction = p.direction /\ r.conn = p.conn /\ r.loading = p.loading /\ r.loadingWindow = p.loadingWindow
    BY DEF Pages
  <1>2. WindowFits(p.window, l) /\ CallsFit(p, l) /\ Waits(p) /\ p.calls \subseteq Calls /\ c \in Calls
    BY DEF Fits, Pages
  <1>3. SelectFits(c, p, l) /\ c.to # <<>> /\ c.to \in Seq(Chat) /\ c.row \in Nat /\ c.window \in Windows
    BY <1>2 DEF CallsFit, CallFits, Calls
  <1>4. /\ \A d \in r.calls : d \in p.calls
        /\ \A d \in p.calls : d.what # "select" => d \in r.calls
    BY <1>1
  <1>5. "list" # "select" /\ \A what \in Paging : what # "select" /\ what # "list" /\ what # "none"
    BY DEF Paging
  <1>6. q = SelectArrives(r, c)
    OBVIOUS
  <1> HIDE DEF r
  <1>7. CASE c.got = "ok" /\ (c.row = NoMessage \/ c.found)
    <2> DEFINE Old(d) == [d EXCEPT !.current = FALSE]
    <2>1. q = [r EXCEPT !.window = c.window, !.loadingWindow = FALSE, !.calls = {Old(d) : d \in @}]
      BY <1>6, <1>7 DEF SelectArrives
    <2>2. \A d \in p.calls : /\ Old(d) \in Calls /\ Old(d).what = d.what /\ Old(d).to = d.to /\ Old(d).got = d.got
                             /\ Old(d).window = d.window /\ Old(d).current = FALSE
      BY <1>2 DEF Calls
    <2> HIDE DEF Old
    <2>3. {Old(d) : d \in r.calls} \subseteq Calls
      BY <1>4, <2>2
    <2>4. /\ q \in Pages /\ q.calls = {Old(d) : d \in r.calls} /\ q.window = c.window /\ q.route = p.route
          /\ q.direction = p.direction /\ q.conn = p.conn /\ q.loading = p.loading /\ q.loadingWindow = FALSE
      BY <1>1, <1>3, <2>1, <2>3 DEF Pages
    <2>5. CallsFit(q, l)
      <3> SUFFICES ASSUME NEW d \in p.calls PROVE CallFits(Old(d), q, l)
        BY <1>4, <2>4 DEF CallsFit
      <3>1. CallFits(d, p, l)
        BY <1>2 DEF CallsFit
      <3> QED
        BY <2>2, <2>4, <3>1 DEF CallFits, SelectFits
    <2>6. Waits(q)
      <3>1. \A d \in p.calls : d.what # "select" => Old(d) \in q.calls /\ Old(d).what = d.what
        BY <1>4, <2>2, <2>4
      <3>2. \A e \in q.calls : \E d \in p.calls : e = Old(d) /\ e.what = d.what
        BY <1>4, <2>2, <2>4
      <3>3. q.direction # "none" => \E e \in q.calls : e.what = q.direction
        <4>1. ASSUME q.direction # "none" PROVE \E e \in q.calls : e.what = q.direction
          <5>1. PICK d \in p.calls : d.what = p.direction
            BY <1>2, <2>4, <4>1 DEF Waits
          <5>2. p.direction \in Paging
            BY <2>4, <4>1 DEF Pages
          <5> QED
            BY <1>5, <2>4, <3>1, <5>1, <5>2
        <4> QED
          BY <4>1
      <3>4. q.loading /\ q.conn # "reconnecting" => \E e \in q.calls : e.what = "list"
        <4>1. p.loading /\ p.conn # "reconnecting" => \E d \in p.calls : d.what = "list"
          BY <1>2 DEF Waits
        <4> QED
          BY <1>5, <2>4, <3>1, <4>1
      <3>5. \A e \in q.calls : e.what \in Paging => q.direction = e.what
        BY <1>2, <2>4, <3>2 DEF Waits
      <3>6. \A e, f \in q.calls : e.what \in Paging /\ f.what \in Paging => e = f
        <4> SUFFICES ASSUME NEW e \in q.calls, NEW f \in q.calls, e.what \in Paging, f.what \in Paging PROVE e = f
          OBVIOUS
        <4>1. PICK d \in p.calls : e = Old(d) /\ e.what = d.what
          BY <3>2
        <4>2. PICK g \in p.calls : f = Old(g) /\ f.what = g.what
          BY <3>2
        <4>3. d = g
          BY <1>2, <4>1, <4>2 DEF Waits
        <4> QED
          BY <4>1, <4>2, <4>3
      <3> QED
        BY <2>4, <3>3, <3>4, <3>5, <3>6 DEF Waits
    <2>7. WindowFits(q.window, l) /\ q.window.of \in q.route.to
      <3>1. WindowFits(c.window, l) /\ c.window.of = c.to[1] /\ c.to # <<>> /\ \A n \in DOMAIN c.to : c.to[n] \in p.route.to
        BY <1>3, <1>7 DEF SelectFits
      <3>2. 1 \in DOMAIN c.to
        BY <1>3, <3>1, LenProperties, EmptySeq
      <3> QED
        BY <2>4, <3>1, <3>2
    <2> QED
      BY <2>4, <2>5, <2>6, <2>7 DEF Fits
  <1>8. CASE ~(c.got = "ok" /\ (c.row = NoMessage \/ c.found)) /\ Len(c.to) > 1
    <2> DEFINE to == Tail(c.to)
    <2>1. q = Call(r, "select", to, c.row)
      BY <1>6, <1>8 DEF SelectArrives
    <2>2. to \in Seq(Chat) /\ to # <<>> /\ \A n \in DOMAIN to : to[n] \in p.route.to
      <3>1. c.to # <<>> /\ Len(c.to) \in Nat /\ DOMAIN c.to = 1 .. Len(c.to)
        BY <1>3, <1>8, LenProperties DEF SelectFits
      <3>2. /\ to \in Seq(Chat) /\ Len(to) = Len(c.to) - 1 /\ \A n \in 1 .. Len(to) : to[n] = c.to[n + 1]
        BY <1>3, <3>1, HeadTailProperties
      <3>3. DOMAIN to = 1 .. Len(to) /\ Len(to) >= 1
        BY <1>8, <3>1, <3>2, LenProperties
      <3>5. \A n \in DOMAIN c.to : c.to[n] \in p.route.to
        BY <1>3 DEF SelectFits
      <3> HIDE DEF to
      <3>4. to # <<>>
        <4>1. Len(to) # 0
          BY <3>3
        <4> QED
          BY <3>2, <4>1, EmptySeq
      <3>6. ASSUME NEW n \in DOMAIN to PROVE to[n] \in p.route.to
        <4>1. n \in 1 .. Len(to) /\ n + 1 \in DOMAIN c.to
          BY <3>1, <3>2, <3>3
        <4> QED
          BY <3>2, <3>5, <4>1
      <3> QED
        BY <3>2, <3>4, <3>6
    <2> HIDE DEF to
    <2>3. \E d \in Calls : /\ Call(r, "select", to, c.row) = [r EXCEPT !.calls = @ \cup {d}]
                           /\ d.what = "select" /\ d.to = to /\ d.row = c.row /\ d.current = TRUE /\ d.got # "ok"
                           /\ Call(r, "select", to, c.row) \in Pages
      <3>1. r \in Pages /\ "select" \in {"list", "select"} \cup Paging /\ to \in Seq(Chat) /\ c.row \in Nat
        BY <1>1, <1>3, <2>2
      <3> QED
        BY ONLY <3>1, CallIsAdded
    <2>4. PICK d \in Calls : q = [r EXCEPT !.calls = @ \cup {d}] /\ q \in Pages /\ d.what = "select" /\ d.to = to /\ d.got # "ok"
      BY <2>1, <2>3
    <2>5. /\ q.calls = (p.calls \ {c}) \cup {d} /\ q.window = p.window /\ q.route = p.route
          /\ q.direction = p.direction /\ q.conn = p.conn /\ q.loading = p.loading
      BY <1>1, <2>4 DEF Pages
    <2>6. SelectFits(d, q, l)
      BY <2>2, <2>4, <2>5 DEF SelectFits
    <2>7. CallsFit(q, l)
      <3>1. \A e \in q.calls : e = d \/ e \in p.calls
        BY <2>5
      <3>2. \A e \in p.calls : e.what = "select" => SelectFits(e, q, l)
        BY <1>2, <2>5 DEF CallsFit, CallFits, SelectFits
      <3>3. d.what # "older" /\ d.what # "newer"
        BY <2>4
      <3> QED
        BY <1>2, <2>2, <2>4, <2>5, <2>6, <3>1, <3>2, <3>3 DEF CallsFit, CallFits
    <2>8. Waits(q)
      <3>1. d \in q.calls /\ d.what = "select" /\ d.what \notin Paging
        BY <1>5, <2>4, <2>5
      <3>2. \A e \in q.calls : e = d \/ e \in p.calls
        BY <2>5
      <3>3. \A e \in p.calls : e.what # "select" => e \in q.calls
        BY <2>5
      <3>4. p.direction # "none" => p.direction # "select"
        BY DEF Pages, Paging
      <3> QED
        BY <1>2, <1>5, <2>5, <3>1, <3>2, <3>3, <3>4 DEF Waits
    <2> QED
      BY <1>2, <2>4, <2>5, <2>7, <2>8 DEF Fits
  <1>9. CASE ~(c.got = "ok" /\ (c.row = NoMessage \/ c.found)) /\ ~(Len(c.to) > 1)
    <2>1. q = [r EXCEPT !.loadingWindow = FALSE]
      BY <1>6, <1>9 DEF SelectArrives
    <2>2. /\ q \in Pages /\ q.calls = p.calls \ {c} /\ q.window = p.window /\ q.route = p.route
          /\ q.direction = p.direction /\ q.conn = p.conn /\ q.loading = p.loading /\ q.loadingWindow = FALSE
      BY <1>1, <2>1 DEF Pages
    <2>3. CallsFit(q, l)
      BY <1>2, <2>2 DEF CallsFit, CallFits, SelectFits
    <2>4. Waits(q)
      <3>1. \A e \in q.calls : e \in p.calls
        BY <2>2
      <3>2. \A e \in p.calls : e.what # "select" => e \in q.calls
        BY <2>2
      <3>3. p.direction # "none" => p.direction # "select"
        BY DEF Pages, Paging
      <3> QED
        BY <1>2, <1>5, <2>2, <3>1, <3>2, <3>3 DEF Waits
    <2> QED
      BY <1>2, <2>2, <2>3, <2>4 DEF Fits
  <1> QED
    BY <1>7, <1>8, <1>9

(* An extension of the window arrives; it counts while the window is the   *)
(* one it was asked for.                                                   *)
LEMMA ExtensionArrives ==
    ASSUME NEW p \in Pages, NEW l \in Seq(Chat), Fits(p, l), NEW c \in p.calls, c.what \in Paging,
           NEW q, q = PageArrives([p EXCEPT !.calls = @ \ {c}], c)
    PROVE  Fits(q, l) /\ q.window.of = p.window.of
  <1> DEFINE old    == p.window
             pruned == Cardinality(old.rows \cup c.window.rows) > Retained
             merged == [old EXCEPT
                          !.rows = Merge(@, c.window.rows, c.what),
                          !.asOf = IF c.what = "newer" THEN c.window.asOf ELSE @,
                          !.hasOlder = IF c.what = "older" THEN c.window.hasOlder ELSE @ \/ pruned,
                          !.hasNewer = IF c.what = "newer" THEN c.window.hasNewer ELSE @ \/ pruned]
             used   == c.current /\ c.got = "ok"
  <1>1. /\ WindowFits(old, l) /\ CallsFit(p, l) /\ Waits(p) /\ p.calls \subseteq Calls /\ c \in Calls /\ old \in Windows
        /\ \A d \in p.calls : d.what = "select" => SelectFits(d, p, l)
    BY DEF Fits, Pages, CallsFit, CallFits
  <1>2. q = [[p EXCEPT !.calls = @ \ {c}] EXCEPT !.direction = "none", !.window = IF used THEN merged ELSE @]
    BY DEF PageArrives
  <1>3. used => merged \in Windows /\ merged.of = old.of /\ WindowFits(merged, l)
    <2>1. ASSUME used, c.what = "older" PROVE merged \in Windows /\ merged.of = old.of /\ WindowFits(merged, l)
      <3>1. OlderFits(c, old, l) /\ c.got = "ok"
        BY <1>1, <2>1 DEF CallsFit, CallFits
      <3>2. merged = [old EXCEPT !.rows = Lowest(old.rows \cup c.window.rows, Retained), !.asOf = @,
                                 !.hasOlder = c.window.hasOlder,
                                 !.hasNewer = @ \/ pruned]
        BY <2>1 DEF Merge
      <3> HIDE DEF merged
      <3>3. l \in Seq(Chat) /\ old \in Windows /\ WindowFits(old, l) /\ c \in Calls
        BY <1>1
      <3> QED
        <4>1. LET cut == Cardinality(old.rows \cup c.window.rows) > Retained
                  m   == [old EXCEPT !.rows = Lowest(old.rows \cup c.window.rows, Retained), !.asOf = @,
                                     !.hasOlder = c.window.hasOlder,
                                     !.hasNewer = @ \/ cut]
              IN  m \in Windows /\ m.of = old.of /\ WindowFits(m, l)
          BY ONLY <3>1, <3>3, OlderMerged
        <4> QED
          BY ONLY <3>2, <4>1 DEF pruned
    <2>2. ASSUME used, c.what = "newer" PROVE merged \in Windows /\ merged.of = old.of /\ WindowFits(merged, l)
      <3>1. NewerFits(c, old, l) /\ c.got = "ok"
        BY <1>1, <2>2 DEF CallsFit, CallFits
      <3>2. merged = [old EXCEPT !.rows = Highest(old.rows \cup c.window.rows, Retained), !.asOf = c.window.asOf,
                                 !.hasOlder = @ \/ pruned,
                                 !.hasNewer = c.window.hasNewer]
        BY <2>2 DEF Merge
      <3> HIDE DEF merged
      <3>3. l \in Seq(Chat) /\ old \in Windows /\ WindowFits(old, l) /\ c \in Calls
        BY <1>1
      <3> QED
        BY ONLY <3>1, <3>2, <3>3, NewerMerged DEF pruned
    <2> QED
      BY <2>1, <2>2 DEF Paging
  <1> HIDE DEF merged
  <1>4. /\ q \in Pages /\ q.calls = p.calls \ {c} /\ q.window = (IF used THEN merged ELSE old) /\ q.route = p.route
        /\ q.direction = "none" /\ q.conn = p.conn /\ q.loading = p.loading /\ q.loadingWindow = p.loadingWindow
    <2> DEFINE w == IF used THEN merged ELSE old
    <2>1. w \in Windows
      BY <1>1, <1>3
    <2>2. q = [[p EXCEPT !.calls = @ \ {c}] EXCEPT !.direction = "none", !.window = w]
      BY <1>2
    <2> HIDE DEF w
    <2>3. /\ q \in Pages /\ q.calls = p.calls \ {c} /\ q.window = w /\ q.route = p.route
          /\ q.direction = "none" /\ q.conn = p.conn /\ q.loading = p.loading /\ q.loadingWindow = p.loadingWindow
      BY <2>1, <2>2 DEF Pages
    <2> QED
      BY <2>3 DEF w
  <1>5. \A d \in q.calls : d \in p.calls /\ d.what \notin Paging
    BY <1>1, <1>4 DEF Waits
  <1>6. CallsFit(q, l)
    BY <1>1, <1>4, <1>5 DEF CallsFit, CallFits, SelectFits, Paging
  <1>7. Waits(q)
    <2>1. \A d \in p.calls : d.what \in {"select", "list"} => d \in q.calls
      BY <1>4 DEF Paging
    <2> QED
      BY <1>1, <1>4, <1>5, <2>1 DEF Waits
  <1> QED
    BY <1>1, <1>3, <1>4, <1>6, <1>7 DEF Fits

(* The list arrives, and the route is followed. *)
LEMMA ListingArrives ==
    ASSUME NEW p \in Pages, NEW l \in Seq(Chat), Fits(p, l), NEW c \in p.calls, c.what = "list",
           NEW q, q = ListArrives([p EXCEPT !.calls = @ \ {c}], c)
    PROVE  Fits(q, l) /\ q.window = p.window
  <1> DEFINE r == [[p EXCEPT !.calls = @ \ {c}] EXCEPT !.loading = FALSE]
             s == [r EXCEPT !.chats = c.chats]
  <1>1. WindowFits(p.window, l) /\ CallsFit(p, l) /\ Waits(p) /\ c \in Calls
    BY DEF Fits, Pages
  <1>2. /\ r \in Pages /\ r.calls = p.calls \ {c} /\ r.window = p.window /\ r.route = p.route
        /\ r.direction = p.direction /\ r.loading = FALSE /\ r.loadingWindow = p.loadingWindow
    BY DEF Pages
  <1>3. s \in Pages /\ s.window = p.window /\ s.loading = FALSE
    BY <1>1 DEF Pages, Calls
  <1>4. q = IF c.got = "ok" THEN SelectFromRoute(s) ELSE r
    BY DEF ListArrives
  <1> HIDE DEF r, s
  <1>5. Fits(SelectFromRoute(s), l) /\ SelectFromRoute(s).window = p.window
    BY <1>1, <1>3, RoutedFits
  <1>6. CallsFit(r, l)
    BY <1>1, <1>2 DEF CallsFit, CallFits, SelectFits
  <1>7. Waits(r)
    <2>1. \A d \in p.calls : d.what # "list" => d \in r.calls
      BY <1>2
    <2>2. p.direction # "list" /\ "select" # "list"
      BY DEF Pages, Paging
    <2>3. \A d \in r.calls : d \in p.calls
      BY <1>2
    <2> QED
      BY <1>1, <1>2, <2>1, <2>2, <2>3 DEF Waits
  <1> QED
    BY <1>1, <1>2, <1>4, <1>5, <1>6, <1>7 DEF Fits

(* A call is answered or refused; what it asked for stays what it was.     *)
LEMMA CallIsServed ==
    ASSUME NEW p \in Pages, NEW l \in Seq(Chat), Fits(p, l), NEW c \in p.calls, NEW a \in Calls, CallFits(a, p, l),
           a.what = c.what, NEW q, q = [p EXCEPT !.calls = (@ \ {c}) \cup {a}]
    PROVE  Fits(q, l) /\ q.window = p.window
  <1>1. /\ q \in Pages /\ q.calls = (p.calls \ {c}) \cup {a} /\ q.window = p.window /\ q.route = p.route
        /\ q.direction = p.direction /\ q.conn = p.conn /\ q.loading = p.loading /\ q.loadingWindow = p.loadingWindow
    BY DEF Pages
  <1>2. WindowFits(p.window, l) /\ CallsFit(p, l) /\ Waits(p)
    BY DEF Fits
  <1>3. CallsFit(q, l)
    <2> SUFFICES ASSUME NEW d \in q.calls PROVE CallFits(d, q, l)
      BY DEF CallsFit
    <2>1. CallFits(d, p, l)
      BY <1>1, <1>2 DEF CallsFit
    <2> QED
      BY <1>1, <2>1 DEF CallFits, SelectFits
  <1>4. Waits(q)
    <2>1. \A d \in p.calls : \E e \in q.calls : e.what = d.what
      BY <1>1
    <2>2. \A e \in q.calls : e = a \/ (e \in p.calls /\ e # c)
      BY ONLY <1>1
    <2>3. \A e \in q.calls : e.what \in Paging => q.direction = e.what
      BY <1>1, <1>2, <2>2 DEF Waits
    <2>4. \A e, f \in q.calls : e.what \in Paging /\ f.what \in Paging => e = f
      BY <1>2, <2>2 DEF Waits
    <2>5. /\ q.direction # "none" => \E e \in q.calls : e.what = q.direction
          /\ q.loadingWindow => \E e \in q.calls : e.what = "select"
          /\ q.loading /\ q.conn # "reconnecting" => \E e \in q.calls : e.what = "list"
      BY <1>1, <1>2, <2>1 DEF Waits
    <2> QED
      BY <2>3, <2>4, <2>5 DEF Waits
  <1> QED
    BY <1>1, <1>2, <1>3, <1>4 DEF Fits

(* What is read of a log is a window of it. *)
LEMMA ReadsAreWindows ==
    ASSUME log \in Seq(Chat), NEW chat \in Chat, NEW row
    PROVE  Before(chat, row) \in Windows /\ After(chat, row) \in Windows
  <1>1. Rows(chat) = Of(log, chat)
    BY DEF Rows, Of
  <1>2. /\ Highest({r \in Rows(chat) : r < row}, PageLimit) \subseteq Of(log, chat)
        /\ Lowest({r \in Rows(chat) : r > row}, PageLimit) \subseteq Of(log, chat)
    BY <1>1 DEF Highest, Lowest
  <1> QED
    BY <1>2, WindowTells DEF Before, After

(* The server's answer fits the call. *)
LEMMA ServeFits ==
    ASSUME LogInv, NEW c \in page.calls, Serve(c)
    PROVE  Fits(page', log) /\ page'.window = page.window /\ log' = log
  <1>1. /\ page \in Pages /\ log \in Seq(Chat) /\ WindowFits(page.window, log) /\ Fits(page, log) /\ CallFits(c, page, log)
        /\ c \in Calls /\ page.window \in Windows
    BY DEF LogInv, Fits, CallsFit, Pages
  <1>2. c.to \in Seq(Chat) /\ c.row \in Nat /\ c.what \in {"list", "select"} \cup Paging
    BY <1>1 DEF Calls
  <1>3. CASE c.what = "list"
    <2> DEFINE a == [c EXCEPT !.got = "ok", !.chats = Listing]
    <2>1. page' = [page EXCEPT !.calls = (@ \ {c}) \cup {a}] /\ log' = log
      BY <1>3 DEF Serve, Becomes
    <2>2. a \in Calls /\ a.what = c.what
      BY <1>1, ListingIsAList DEF Calls
    <2> HIDE DEF a
    <2>3. CallFits(a, page, log)
      BY <1>3, <2>2 DEF CallFits
    <2> QED
      BY <1>1, <2>1, <2>2, <2>3, CallIsServed
  <1>4. CASE c.what # "list"
    <2> DEFINE chat == c.to[1]
    <2>1. PICK read \in Reads(c) :
            /\ page' = [page EXCEPT !.calls = (@ \ {c}) \cup {[c EXCEPT !.got = "ok", !.window = read.window,
                                                                        !.found = read.found]}]
            /\ log' = log
      BY <1>4 DEF Serve, Becomes
    <2>2. chat \in Chat
      <3>1. c.to # <<>>
        BY <1>1, <1>4 DEF CallFits
      <3>2. Len(c.to) \in Nat /\ Len(c.to) # 0 /\ \A n \in 1 .. Len(c.to) : c.to[n] \in Chat
        BY <1>2, <3>1, LenProperties, EmptySeq, ElementOfSeq
      <3> QED
        BY <3>2
    <2> DEFINE a == [c EXCEPT !.got = "ok", !.window = read.window, !.found = read.found]
    <2>3. ASSUME read.window \in Windows, read.found \in BOOLEAN
          PROVE  /\ a \in Calls /\ a.what = c.what /\ a.to = c.to /\ a.row = c.row /\ a.current = c.current
                 /\ a.got = "ok" /\ a.window = read.window
      BY <1>1, <2>3 DEF Calls
    <2>10. page' = [page EXCEPT !.calls = (@ \ {c}) \cup {a}] /\ log' = log
      BY <2>1
    <2> HIDE DEF a, chat
    <2>4. CASE c.what = "select"
      <3>1. /\ read.found \in BOOLEAN
            /\ read.window = Latest(chat) \/ \E row \in Nat : read.window = Around(chat, row)
        <4>1. Rows(chat) \subseteq Nat
          BY <1>1, RowsOfALog DEF Rows, Of
        <4>2. CASE c.row = NoMessage
          <5>1. Reads(c) = {[window |-> w, found |-> FALSE] : w \in {Latest(chat)}}
            BY <2>4, <4>2 DEF Reads, chat
          <5>2. read.window = Latest(chat) /\ read.found = FALSE
            BY <2>1, <5>1
          <5> QED
            BY <5>2
        <4>3. CASE c.row # NoMessage /\ c.row \in Rows(chat)
          <5>1. Reads(c) = {[window |-> Around(chat, c.row), found |-> TRUE]}
            BY <2>4, <4>3 DEF Reads, chat
          <5>2. read.window = Around(chat, c.row) /\ read.found = TRUE
            BY <2>1, <5>1
          <5> QED
            BY <1>2, <5>2
        <4>4. CASE c.row # NoMessage /\ c.row \notin Rows(chat)
          <5>1. Reads(c) = {[window |-> w, found |-> FALSE] : w \in {Latest(chat)}}
                             \cup {[window |-> Around(chat, r), found |-> TRUE] : r \in Rows(chat)}
            BY <2>4, <4>4 DEF Reads, chat
          <5>2. \/ read.window = Latest(chat) /\ read.found = FALSE
                \/ \E r \in Rows(chat) : read.window = Around(chat, r) /\ read.found = TRUE
            BY <2>1, <5>1
          <5> QED
            BY <4>1, <5>2
        <4> QED
          BY <4>2, <4>3, <4>4
      <3>2. read.window \in Windows /\ read.window.of = chat /\ WindowFits(read.window, log)
        BY <1>1, <2>2, <3>1, LatestFits, AroundFits
      <3>3. CallFits(a, page, log)
        BY <1>1, <2>3, <2>4, <3>1, <3>2 DEF CallFits, SelectFits, chat
      <3> QED
        BY <1>1, <2>3, <2>10, <3>1, <3>2, <3>3, CallIsServed
    <2>5. CASE c.what = "older"
      <3>1. read.found = FALSE /\ read.window = Before(chat, c.row)
        BY <2>5 DEF Reads, chat
      <3>2. read.window \in Windows
        BY <1>1, <2>2, <3>1, ReadsAreWindows
      <3>3. ASSUME c.current PROVE OlderFits(a, page.window, log)
        <4>1. /\ OlderFits(c, page.window, log) /\ page.window.hasOlder /\ c.row \in page.window.rows
              /\ c.to = <<page.window.of>> /\ \A row \in page.window.rows : c.row <= row
          BY <1>1, <2>5, <3>3 DEF CallFits, OlderFits
        <4>2. chat = page.window.of
          BY <4>1 DEF chat
        <4>3. c.row \in Nat /\ \E row \in Of(log, chat) : row < c.row
          BY <1>1, <4>1, <4>2, BeyondTheEdge
        <4>4. LET R == read.window.rows
                  S == Of(log, chat)
              IN  /\ R # {} /\ R \subseteq S /\ \A row \in R : row < c.row
                  /\ \A first \in R, row \in S : first < row /\ row < c.row => row \in R
                  /\ OlderTold(read.window, R, S) /\ read.window.asOf = Len(log)
          BY <1>1, <2>2, <3>1, <4>3, BeforeFits
        <4>5. Len(log) \in Nat
          BY <1>1, LenProperties
        <4> QED
          <5>1. /\ a.to = c.to /\ a.row = c.row /\ a.window = read.window
            BY <2>3, <3>1, <3>2
          <5> QED
            BY <4>1, <4>2, <4>4, <4>5, <5>1 DEF OlderFits
      <3>4. CallFits(a, page, log)
        BY <1>1, <2>3, <2>5, <3>1, <3>2, <3>3 DEF CallFits
      <3> QED
        <4>1. a \in Calls /\ a.what = c.what
          BY <2>3, <3>1, <3>2
        <4> QED
          BY <1>1, <2>10, <3>4, <4>1, CallIsServed
    <2>6. CASE c.what = "newer"
      <3>1. read.found = FALSE /\ read.window = After(chat, c.row)
        BY <2>6 DEF Reads, chat
      <3>2. read.window \in Windows
        BY <1>1, <2>2, <3>1, ReadsAreWindows
      <3>3. ASSUME c.current PROVE NewerFits(a, page.window, log)
        <4>1. /\ NewerFits(c, page.window, log) /\ page.window.hasNewer /\ c.row \in page.window.rows
              /\ c.to = <<page.window.of>> /\ \A row \in page.window.rows : c.row >= row
          BY <1>1, <2>6, <3>3 DEF CallFits, NewerFits
        <4>2. chat = page.window.of
          BY <4>1 DEF chat
        <4>3. c.row \in Nat /\ \E row \in Of(log, chat) : row > c.row
          BY <1>1, <4>1, <4>2, BeyondTheEdge
        <4>4. LET R == read.window.rows
                  S == Of(log, chat)
              IN  /\ R # {} /\ R \subseteq S /\ \A row \in R : row > c.row
                  /\ \A last \in R, row \in S : c.row < row /\ row < last => row \in R
                  /\ NewerTold(read.window, R, S) /\ read.window.asOf = Len(log)
          BY <1>1, <2>2, <3>1, <4>3, AfterFits
        <4>5. Len(log) \in Nat
          BY <1>1, LenProperties
        <4> QED
          <5>1. /\ a.to = c.to /\ a.row = c.row /\ a.window = read.window
            BY <2>3, <3>1, <3>2
          <5> QED
            BY <4>1, <4>2, <4>4, <4>5, <5>1 DEF NewerFits
      <3>4. CallFits(a, page, log)
        BY <1>1, <2>3, <2>6, <3>1, <3>2, <3>3 DEF CallFits
      <3> QED
        <4>1. a \in Calls /\ a.what = c.what
          BY <2>3, <3>1, <3>2
        <4> QED
          BY <1>1, <2>10, <3>4, <4>1, CallIsServed
    <2> QED
      BY <1>2, <1>4, <2>4, <2>5, <2>6 DEF Paging
  <1> QED
    BY <1>3, <1>4

(* A refused call fits as it did. *)
LEMMA RefuseFits ==
    ASSUME LogInv, NEW c \in page.calls, Refuse(c)
    PROVE  Fits(page', log) /\ page'.window = page.window /\ log' = log
  <1> DEFINE a == [c EXCEPT !.got = "error"]
  <1>1. page' = [page EXCEPT !.calls = (@ \ {c}) \cup {a}] /\ log' = log
    BY DEF Refuse, Becomes
  <1>2. page \in Pages /\ log \in Seq(Chat) /\ Fits(page, log) /\ CallFits(c, page, log) /\ c \in Calls
    BY DEF LogInv, Fits, CallsFit, Pages
  <1>3. /\ a \in Calls /\ a.what = c.what /\ a.to = c.to /\ a.row = c.row /\ a.current = c.current
        /\ a.got = "error" /\ a.window = c.window
    BY <1>2 DEF Calls
  <1> HIDE DEF a
  <1>4. CallFits(a, page, log)
    BY <1>2, <1>3 DEF CallFits, SelectFits, OlderFits, NewerFits
  <1> QED
    BY <1>1, <1>2, <1>3, <1>4, CallIsServed

(* The edge of the window is its first row, or its last one. *)
LEMMA Edges ==
    ASSUME NEW h \in Nat, NEW S, S \subseteq 1 .. h
    PROVE  /\ \A row \in Lowest(S, 1) : row \in S /\ \A other \in S : row <= other
           /\ \A row \in Highest(S, 1) : row \in S /\ \A other \in S : row >= other
  <1>1. \A T : T \subseteq S /\ Cardinality(T) < 1 => T = {}
    <2> SUFFICES ASSUME NEW T, T \subseteq S, Cardinality(T) < 1 PROVE T = {}
      OBVIOUS
    <2>1. IsFiniteSet(T) /\ Cardinality(T) \in Nat
      BY RowsAreFinite
    <2>2. Cardinality(T) = 0
      BY <2>1
    <2> QED
      BY <2>1, <2>2, FS_EmptySet
  <1>2. \A row \in S : row \in Int
    OBVIOUS
  <1>3. ASSUME NEW row \in Lowest(S, 1), NEW other \in S PROVE row \in S /\ row <= other
    <2>1. row \in S /\ Cardinality({o \in S : o < row}) < 1
      BY DEF Lowest
    <2>2. {o \in S : o < row} = {}
      BY <1>1, <2>1
    <2> QED
      BY <1>2, <2>1, <2>2
  <1>4. ASSUME NEW row \in Highest(S, 1), NEW other \in S PROVE row \in S /\ row >= other
    <2>1. row \in S /\ Cardinality({o \in S : o > row}) < 1
      BY DEF Highest
    <2>2. {o \in S : o > row} = {}
      BY <1>1, <2>1
    <2> QED
      BY <1>2, <2>1, <2>2
  <1> QED
    BY <1>3, <1>4 DEF Lowest, Highest

(* The user asks for more: no other extension is on its way.               *)
LEMMA PageFits ==
    ASSUME LogInv, NEW direction \in Paging, Page(direction)
    PROVE  Fits(page', log) /\ page'.window = page.window /\ log' = log
  <1> DEFINE w == page.window
             b == [page EXCEPT !.direction = direction]
  <1>1. PICK row \in (IF direction = "older" THEN Lowest(w.rows, 1) ELSE Highest(w.rows, 1)) :
           page' = Call(b, direction, <<w.of>>, row) /\ log' = log
    BY DEF Page, Changes
  <1>2. (IF direction = "older" THEN w.hasOlder ELSE w.hasNewer) /\ page.direction = "none"
    BY DEF Page
  <1>3. /\ page \in Pages /\ log \in Seq(Chat) /\ w \in Windows /\ WindowFits(w, log) /\ CallsFit(page, log) /\ Waits(page)
        /\ Gapless(w.rows, Of(log, w.of))
    BY DEF LogInv, Fits, Pages, WindowFits
  <1>4. /\ b \in Pages /\ b.calls = page.calls /\ b.window = w /\ b.route = page.route /\ b.direction = direction
        /\ b.conn = page.conn /\ b.loading = page.loading /\ b.loadingWindow = page.loadingWindow
    BY <1>3 DEF Pages, Paging
  <1> HIDE DEF b
  <1>5. /\ direction = "older" => row \in w.rows /\ \A other \in w.rows : row <= other
        /\ direction = "newer" => row \in w.rows /\ \A other \in w.rows : row >= other
        /\ row \in w.rows
    <2>1. Len(log) \in Nat /\ w.rows \subseteq 1 .. Len(log)
      BY <1>3, RowsOfALog DEF Gapless
    <2> QED
      BY <1>1, <2>1, Edges DEF Paging
  <1>6. row \in Nat /\ w.of \in Chat
    BY <1>3, <1>5, BeyondTheEdge
  <1>7. <<w.of>> \in Seq(Chat) /\ <<w.of>> # <<>>
    BY <1>6
  <1> DEFINE to == <<w.of>>
  <1>8. \E d \in Calls : /\ Call(b, direction, to, row) = [b EXCEPT !.calls = @ \cup {d}]
                         /\ d.what = direction /\ d.to = to /\ d.row = row /\ d.current = TRUE /\ d.got # "ok"
                         /\ Call(b, direction, to, row) \in Pages
    <2>1. b \in Pages /\ direction \in {"list", "select"} \cup Paging /\ to \in Seq(Chat) /\ row \in Nat
      BY <1>4, <1>6, <1>7
    <2> HIDE DEF to
    <2> QED
      BY ONLY <2>1, CallIsAdded
  <1>9. PICK d \in Calls : /\ page' = [b EXCEPT !.calls = @ \cup {d}] /\ page' \in Pages
                           /\ d.what = direction /\ d.to = <<w.of>> /\ d.row = row /\ d.got # "ok"
    BY <1>1, <1>8
  <1>10. /\ page'.calls = page.calls \cup {d} /\ page'.window = w /\ page'.route = page.route /\ page'.direction = direction
         /\ page'.conn = page.conn /\ page'.loading = page.loading /\ page'.loadingWindow = page.loadingWindow
    BY <1>4, <1>9 DEF Pages
  <1>11. CallsFit(page', log)
    <2>1. CallFits(d, page', log)
      BY <1>2, <1>5, <1>7, <1>9, <1>10 DEF CallFits, OlderFits, NewerFits, Paging
    <2>2. ASSUME NEW e \in page.calls PROVE CallFits(e, page', log)
      <3>1. CallFits(e, page, log)
        BY <1>3 DEF CallsFit
      <3> QED
        BY <1>10, <3>1 DEF CallFits, SelectFits
    <2> QED
      BY <1>10, <2>1, <2>2 DEF CallsFit
  <1>12. Waits(page')
    <2>1. \A e \in page.calls : e.what \notin Paging
      BY <1>2, <1>3 DEF Waits, Paging
    <2>2. \A e \in page'.calls : e.what \in Paging => e = d
      BY <1>10, <2>1
    <2> QED
      BY <1>3, <1>9, <1>10, <2>2 DEF Waits
  <1> QED
    BY <1>1, <1>3, <1>9, <1>10, <1>11, <1>12 DEF Fits

(* A message is recorded: a window stays one, and so does what extends it. *)
LEMMA RecordFits ==
    ASSUME NEW p, NEW l, Fits(p, l), NEW chat \in Chat
    PROVE  Fits(p, Append(l, chat))
  <1> DEFINE k == Append(l, chat)
             w == p.window
             S == Of(l, w.of)
             T == Of(k, w.of)
  <1>1. /\ p \in Pages /\ l \in Seq(Chat) /\ w \in Windows /\ WindowFits(w, l) /\ CallsFit(p, l) /\ Waits(p)
        /\ Gapless(w.rows, S) /\ p.calls \subseteq Calls
    BY DEF Fits, Pages, WindowFits
  <1>2. /\ k \in Seq(Chat) /\ Len(k) = Len(l) + 1 /\ Len(l) \in Nat /\ S \subseteq T /\ T \subseteq S \cup {Len(l) + 1}
        /\ \A row \in S : row \in Nat /\ row <= Len(l)
    BY <1>1, LogGrows
  <1> HIDE DEF k, S, T
  <1>3. WindowFits(w, k)
    BY <1>1, WindowGrows DEF k
  <1>4. ASSUME NEW c \in p.calls PROVE CallFits(c, p, k)
    <2>1. CallFits(c, p, l) /\ c \in Calls /\ c.window \in Windows
      BY <1>1 DEF CallsFit, Calls
    <2>2. ASSUME SelectFits(c, p, l) PROVE SelectFits(c, p, k)
      <3>1. WindowFits(c.window, l) => WindowFits(c.window, k)
        BY <1>1, <2>1, WindowGrows DEF k
      <3> QED
        BY <2>2, <3>1 DEF SelectFits
    <2>3. ASSUME OlderFits(c, w, l) PROVE OlderFits(c, w, k)
      <3> SUFFICES ASSUME c.got = "ok"
                   PROVE  LET R == c.window.rows
                          IN /\ R # {} /\ R \subseteq T /\ \A row \in R : row < c.row
                             /\ \A first \in R, row \in T : first < row /\ row < c.row => row \in R
                             /\ OlderTold(c.window, R, T) /\ c.window.asOf <= Len(k)
        BY <2>3 DEF OlderFits, T
      <3> DEFINE R == c.window.rows
      <3>1. /\ R # {} /\ R \subseteq S /\ \A row \in R : row < c.row
            /\ \A first \in R, row \in S : first < row /\ row < c.row => row \in R
            /\ OlderTold(c.window, R, S) /\ c.window.asOf <= Len(l) /\ c.row \in w.rows
        BY <2>3 DEF OlderFits, S
      <3>2. OlderTold(c.window, R, T)
        BY <1>1, <2>1, <3>1, ToldGrows DEF S, T, k
      <3>3. c.row \in S /\ c.window.asOf \in Nat
        BY <1>1, <2>1, <3>1 DEF Gapless, Windows
      <3>4. \A first \in R, row \in T : first < row /\ row < c.row => row \in R
        BY <1>2, <3>1, <3>3
      <3> QED
        BY <1>2, <3>1, <3>2, <3>3, <3>4
    <2>4. ASSUME NewerFits(c, w, l) PROVE NewerFits(c, w, k)
      <3> SUFFICES ASSUME c.got = "ok"
                   PROVE  LET R == c.window.rows
                          IN /\ R # {} /\ R \subseteq T /\ \A row \in R : row > c.row
                             /\ \A last \in R, row \in T : c.row < row /\ row < last => row \in R
                             /\ NewerTold(c.window, R, T) /\ c.window.asOf <= Len(k)
        BY <2>4 DEF NewerFits, T
      <3> DEFINE R == c.window.rows
      <3>1. /\ R # {} /\ R \subseteq S /\ \A row \in R : row > c.row
            /\ \A last \in R, row \in S : c.row < row /\ row < last => row \in R
            /\ NewerTold(c.window, R, S) /\ c.window.asOf <= Len(l)
        BY <2>4 DEF NewerFits, S
      <3>2. NewerTold(c.window, R, T)
        BY <1>1, <2>1, <3>1, ToldGrows DEF S, T, k
      <3>3. c.window.asOf \in Nat
        BY <2>1 DEF Windows
      <3>4. \A last \in R, row \in T : c.row < row /\ row < last => row \in R
        BY <1>2, <3>1
      <3> QED
        BY <1>2, <3>1, <3>2, <3>3, <3>4
    <2> QED
      BY <2>1, <2>2, <2>3, <2>4 DEF CallFits
  <1> QED
    BY <1>1, <1>2, <1>3, <1>4 DEF Fits, CallsFit, k

-----------------------------------------------------------------------------
(* The steps.                                                              *)

(* A step brings no chat into view that the route does not name. *)
Follows == page'.window.of # page.window.of => page'.window.of \in page'.route.to

(* A new route gives up every call but the list's; the window stays. *)
LEMMA RouteKeeps ==
    ASSUME LogInv, NEW route \in Route, Go(route)
    PROVE  LogInv' /\ Follows
  <1> DEFINE p == [page EXCEPT !.route = route]
  <1>1. page' = SelectFromRoute(p) /\ log' = log
    BY DEF Go, Changes
  <1>2. page \in Pages /\ log \in Seq(Chat) /\ WindowFits(page.window, log) /\ Waits(page)
    BY DEF LogInv, Fits
  <1>3. p \in Pages /\ p.window = page.window /\ p.loading = page.loading /\ p.conn = page.conn /\ p.calls = page.calls
    BY <1>2 DEF Pages
  <1> HIDE DEF p
  <1>4. p.loading /\ p.conn # "reconnecting" => \E c \in p.calls : c.what = "list"
    BY <1>2, <1>3 DEF Waits
  <1>5. WindowFits(p.window, log)
    BY <1>2, <1>3
  <1>6. Fits(SelectFromRoute(p), log) /\ SelectFromRoute(p).window = p.window
    BY <1>2, <1>3, <1>4, <1>5, RoutedFits
  <1> QED
    BY <1>1, <1>3, <1>6 DEF LogInv, Follows

(* The routes that the user takes, and the buttons. *)
LEMMA UserKeeps == ASSUME LogInv, User PROVE LogInv' /\ Follows
  <1>1. page \in Pages /\ log \in Seq(Chat) /\ WindowFits(page.window, log) /\ page.window \in Windows
    BY DEF LogInv, Fits, Pages
  <1>2. ASSUME NEW route \in Link, Go(route) PROVE LogInv' /\ Follows
    BY <1>2, RouteKeeps, ChatLogsAssumption
  <1>3. ASSUME NEW chat \in Chat, SelectChat(chat) PROVE LogInv' /\ Follows
    <2>1. [to |-> {chat}, message |-> NoMessage] \in Route
      BY DEF Route, NoMessage
    <2> QED
      BY <1>3, <2>1, RouteKeeps DEF SelectChat
  <1>4. ASSUME NEW row \in DOMAIN log, OpenMessage(row) PROVE LogInv' /\ Follows
    <2>1. row \in page.window.rows
      BY <1>4 DEF OpenMessage
    <2>2. row \in Nat /\ page.window.of \in Chat
      BY <1>1, <2>1, BeyondTheEdge
    <2>3. [to |-> {page.window.of}, message |-> row] \in Route
      BY <2>2 DEF Route
    <2> QED
      BY <1>4, <2>3, RouteKeeps DEF OpenMessage
  <1>5. ASSUME RefreshAgain PROVE LogInv' /\ Follows
    <2>1. page' = Refresh(page) /\ log' = log
      BY <1>5 DEF RefreshAgain, Changes
    <2> QED
      BY <1>1, <2>1, RefreshFits DEF LogInv, Follows
  <1>6. ASSUME NEW direction \in Paging, Page(direction) PROVE LogInv' /\ Follows
    BY <1>6, PageFits DEF LogInv, Follows
  <1> QED
    BY <1>2, <1>3, <1>4, <1>5, <1>6 DEF User, Paging

(* The watcher of the connection gives up every call and keeps the window. *)
LEMMA ConnectionKeeps == ASSUME LogInv, Drop \/ Reconnect \/ GiveUp PROVE LogInv' /\ Follows
  <1>1. page \in Pages /\ log \in Seq(Chat) /\ WindowFits(page.window, log)
    BY DEF LogInv, Fits
  <1>2. PICK conn \in {"authenticated", "reconnecting", "offline"} :
           page' = Refresh([page EXCEPT !.conn = conn]) /\ log' = log
    BY DEF Drop, Reconnect, GiveUp, Changes
  <1> DEFINE p == [page EXCEPT !.conn = conn]
  <1>3. p \in Pages /\ p.window = page.window
    BY <1>1 DEF Pages
  <1> HIDE DEF p
  <1>4. Fits(Refresh(p), log) /\ Refresh(p).window = p.window
    BY <1>1, <1>3, RefreshFits
  <1> QED
    BY <1>2, <1>3, <1>4 DEF LogInv, Follows, p

(* What has been answered or refused arrives. *)
LEMMA AnswerKeeps == ASSUME LogInv, NEW c \in page.calls, Answer(c) PROVE LogInv' /\ Follows
  <1>1. page \in Pages /\ log \in Seq(Chat) /\ Fits(page, log) /\ c \in Calls
    BY DEF LogInv, Fits, Pages
  <1> DEFINE p == [page EXCEPT !.calls = @ \ {c}]
  <1>2. /\ log' = log
        /\ c.what = "list" => page' = ListArrives(p, c)
        /\ c.what = "select" => page' = SelectArrives(p, c)
        /\ c.what \in Paging => page' = PageArrives(p, c)
    BY DEF Answer, Changes, Paging
  <1>3. CASE c.what = "list"
    <2> DEFINE q == ListArrives(p, c)
    <2>1. Fits(q, log) /\ q.window = page.window
      BY ONLY <1>1, <1>3, ListingArrives
    <2> QED
      BY <1>2, <1>3, <2>1 DEF LogInv, Follows
  <1>4. CASE c.what = "select"
    <2> DEFINE q == SelectArrives(p, c)
    <2>1. Fits(q, log) /\ (q.window = page.window \/ q.window.of \in q.route.to)
      BY ONLY <1>1, <1>4, SelectionArrives
    <2> QED
      BY <1>2, <1>4, <2>1 DEF LogInv, Follows
  <1>5. CASE c.what \in Paging
    <2> DEFINE q == PageArrives(p, c)
    <2>1. Fits(q, log) /\ q.window.of = page.window.of
      BY ONLY <1>1, <1>5, ExtensionArrives
    <2> QED
      BY <1>2, <1>5, <2>1 DEF LogInv, Follows
  <1>6. c.what \in {"list", "select"} \cup Paging
    BY <1>1 DEF Calls
  <1> QED
    BY <1>3, <1>4, <1>5, <1>6

(* Every step keeps the invariant, and shows a chat only if the route names *)
(* it.                                                                     *)
LEMMA StepKeeps == ASSUME LogInv, [Next]_vars PROVE LogInv' /\ Follows
  <1>1. CASE User
    BY <1>1, UserKeeps
  <1>2. CASE Drop \/ Reconnect \/ GiveUp
    BY <1>2, ConnectionKeeps
  <1>3. ASSUME NEW c \in page.calls, Serve(c) \/ Refuse(c) \/ Answer(c) PROVE LogInv' /\ Follows
    BY <1>3, ServeFits, RefuseFits, AnswerKeeps DEF LogInv, Follows
  <1>4. ASSUME NEW chat \in Chat, Record(chat) PROVE LogInv' /\ Follows
    <2>1. page' = page /\ log' = Append(log, chat)
      BY <1>4 DEF Record
    <2>2. Fits(page, Append(log, chat))
      BY <1>4, RecordFits DEF LogInv
    <2> QED
      BY <2>1, <2>2 DEF LogInv, Follows
  <1>5. CASE UNCHANGED vars
    BY <1>5 DEF vars, LogInv, Follows
  <1> QED
    BY <1>1, <1>2, <1>3, <1>4, <1>5 DEF Next

(* The page before its first refresh shows nothing and asks for nothing. *)
LEMMA InitFits == Init => LogInv
  <1> SUFFICES ASSUME Init PROVE LogInv
    OBVIOUS
  <1>1. PICK route \in Link :
           page = Refresh([conn |-> "authenticated", route |-> route, chats |-> <<>>, window |-> NoWindow,
                           loading |-> TRUE, loadingWindow |-> FALSE, direction |-> "none", calls |-> {}])
    BY DEF Init
  <1> DEFINE p == [conn |-> "authenticated", route |-> route, chats |-> <<>>, window |-> NoWindow,
                   loading |-> TRUE, loadingWindow |-> FALSE, direction |-> "none", calls |-> {}]
  <1>2. log \in Seq(Chat) /\ Len(log) \in Nat /\ route \in Route /\ Retained \in Nat
    BY ChatLogsAssumption, LenProperties DEF Init
  <1>3. NoWindow \in Windows /\ <<>> \in Seq(Chat)
    BY EmptySeq DEF NoWindow, Windows
  <1>4. p \in Pages /\ p.window = NoWindow
    BY <1>2, <1>3 DEF Pages
  <1>5. WindowFits(NoWindow, log)
    <2>1. NoWindow.rows = {} /\ NoWindow.asOf = 0 /\ Cardinality({}) = 0
      BY FS_EmptySet DEF NoWindow
    <2> QED
      BY <1>2, <2>1 DEF WindowFits, Gapless
  <1> HIDE DEF p
  <1>6. Fits(Refresh(p), log)
    BY <1>2, <1>4, <1>5, RefreshFits
  <1> QED
    BY <1>1, <1>6 DEF LogInv, p

-----------------------------------------------------------------------------

(* Whatever the routes, answers, lost connections and recorded messages,   *)
(* the window fits the log and the calls fit the window and the route.     *)
THEOREM Invariance == Spec => []LogInv
  <1>1. LogInv /\ [Next]_vars => LogInv'
    BY StepKeeps
  <1> QED
    BY <1>1, InitFits, PTL DEF Spec

(* The window that ChatLogsPanel.vue shows is a run of one chat's log, and *)
(* tells the truth about what lies beyond it, however it was extended and  *)
(* pruned (mergeChatLogItems) while messages were recorded.                *)
THEOREM LogWhole == Spec => []LogIsWhole
  <1>1. LogInv => LogIsWhole
    <2> DEFINE w == page.window
               S == Of(log, w.of)
    <2> SUFFICES ASSUME LogInv, w.rows # {}
                 PROVE  /\ w.rows = S \ (Prior(w.rows, S) \cup Later(w.rows, S)) /\ Cardinality(w.rows) <= Retained
                        /\ w.hasOlder = (Prior(w.rows, S) # {})
                        /\ IF w.hasNewer THEN Later(w.rows, S) # {} ELSE \A row \in Later(w.rows, S) : row > w.asOf
      BY DEF LogIsWhole, Rows, Of, Prior, Later
    <2>1. /\ Gapless(w.rows, S) /\ Cardinality(w.rows) <= Retained
          /\ OlderTold(w, w.rows, S) /\ NewerTold(w, w.rows, S) /\ w.hasOlder \in BOOLEAN
      BY DEF LogInv, Fits, WindowFits, Pages, Windows
    <2>2. \A row \in S : row \in Nat
      BY RowsOfALog DEF LogInv, Fits
    <2> HIDE DEF S
    <2>3. ASSUME NEW row \in w.rows PROVE row \in S /\ row \notin Prior(w.rows, S) /\ row \notin Later(w.rows, S)
      BY <2>1, <2>2 DEF Gapless, Prior, Later
    <2>4. ASSUME NEW row \in S, row \notin Prior(w.rows, S), row \notin Later(w.rows, S) PROVE row \in w.rows
      <3>1. PICK first \in w.rows : ~(row < first)
        BY <2>4 DEF Prior
      <3>2. PICK last \in w.rows : ~(row > last)
        BY <2>4 DEF Later
      <3>3. first \in Nat /\ last \in Nat /\ row \in Nat
        BY <2>1, <2>2 DEF Gapless
      <3>4. row = first \/ row = last \/ (first < row /\ row < last)
        BY <3>1, <3>2, <3>3
      <3> QED
        BY <2>1, <3>4 DEF Gapless
    <2> QED
      BY <2>1, <2>3, <2>4 DEF OlderTold, NewerTold
  <1> QED
    BY <1>1, Invariance, PTL

(* The buttons and the spinners wait only for calls that will be heard:    *)
(* selectFromRoute and refresh reset those whose answers they give up.     *)
THEOREM ButtonsReturn == Spec => []ButtonsComeBack
  <1>1. LogInv => ButtonsComeBack
    <2> DEFINE paging == {c \in page.calls : c.what \in {"older", "newer"}}
    <2> SUFFICES ASSUME LogInv
                 PROVE  /\ page.direction # "none" => \E c \in paging : c.what = page.direction
                        /\ page.loadingWindow => {c \in page.calls : c.what \in {"select"}} # {}
                        /\ page.loading /\ page.conn # "reconnecting" => {c \in page.calls : c.what \in {"list"}} # {}
                        /\ Cardinality(paging) <= 1
      BY DEF ButtonsComeBack
    <2>1. Waits(page) /\ page.direction \in {"none", "older", "newer"}
      BY DEF LogInv, Fits, Pages, Paging
    <2>2. /\ page.direction # "none" => \E c \in paging : c.what = page.direction
          /\ page.loadingWindow => {c \in page.calls : c.what \in {"select"}} # {}
          /\ page.loading /\ page.conn # "reconnecting" => {c \in page.calls : c.what \in {"list"}} # {}
      BY <2>1 DEF Waits
    <2>3. \A c, d \in paging : c = d
      BY <2>1 DEF Waits, Paging
    <2> HIDE DEF paging
    <2>4. Cardinality(paging) <= 1
      <3>1. CASE paging = {}
        <4>1. Cardinality(paging) = 0
          BY <3>1, FS_EmptySet
        <4> QED
          BY <4>1
      <3>2. CASE paging # {}
        <4>1. PICK c \in paging : paging = {c}
          BY <2>3, <3>2
        <4>2. Cardinality(paging) = 1
          BY <4>1, FS_Singleton
        <4> QED
          BY <4>2
      <3> QED
        BY <3>1, <3>2
    <2> QED
      BY <2>2, <2>4
  <1> QED
    BY <1>1, Invariance, PTL

(* A chat comes into view only while the route names it: an answer of an   *)
(* earlier selection is not applied (requestGeneration).                    *)
THEOREM WindowFollows == Spec => WindowFollowsTheRoute
  <1>1. LogInv /\ [Next]_vars => [page'.window.of # page.window.of => page'.window.of \in page'.route.to]_vars
    BY StepKeeps DEF Follows
  <1> QED
    BY <1>1, Invariance, PTL DEF Spec, WindowFollowsTheRoute

=============================================================================
