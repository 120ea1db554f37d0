--------------------------- MODULE ResourceProofs ---------------------------
(***************************************************************************)
(* Safety properties of ResourceManager, for any names, objects, callers,  *)
(* workers and operations.  The invariant RInv holds until a destroyer's   *)
(* second restoration undoes what others did since its first, which may    *)
(* never happen; the properties except just that.                          *)
(***************************************************************************)
EXTENDS ResourceManager, FiniteSetTheorems, WellFoundedInduction, TLAPS

Making     == {"saving", "setting", "undo", "discard", "register"}
Using      == {"refreshing", "using", "releasing"}
Destroyers == {"evicting", "cleaning", "erasing", "removing", "restoring"}
Renamers   == {"renaming", "renamed", "unrenaming", "unnaming"}
Reserving  == {"reserved", "making"} \cup Making \cup Renamers

(* An entry is closed by the one actor that holds it.                      *)
Holds(a, n) ==
    \/ op[a].at \in Destroyers /\ n = op[a].name
    \/ op[a].at \in Renamers /\ n = op[a].to

(* A name is claimed by who reserved it, until he fills it or gives it back. *)
Claims(a, n) == reserved[a] = n /\ n # NoName /\ op[a].at # "leaving"

Count    == 0 .. Cardinality(Caller)
Counts   == [Worker -> Count]
Entry    == [obj : Object \cup {None}, open : BOOLEAN, users : Counts, uses : Count, life : Lives]
Activity == [at : Stages, name : Name \cup {NoName}, to : Name \cup {NoName}, obj : Object \cup {None},
             life : Lives, was : Lives, tracked : BOOLEAN, evict : SUBSET Worker, hit : BOOLEAN]

Typed ==
    /\ accepting \in BOOLEAN
    /\ resources \in [Name -> Entry]
    /\ reserved \in [Actor -> Name \cup {NoName}]
    /\ rows \in [Name -> Object \cup {None}] /\ lifeRows \in [Name -> Lives]
    /\ op \in [Actor -> Activity]
    /\ doomed \subseteq Worker
    /\ main \in {"inner", "join", "gates", "sweep", "down"}
    /\ left \subseteq [obj : Object, users : SUBSET Worker]
    /\ used \subseteq Object /\ gone \subseteq used /\ abandoned \subseteq used \cap Durable
    /\ \A n \in Name : ~Present(n) => ~resources[n].open

(* Each actor has reserved what it is about to fill, and nobody else has.  *)
NamesAreClaimed ==
    /\ \A a \in Actor :
         /\ op[a].at \in Reserving => reserved[a] = op[a].name /\ op[a].name \in Name
         /\ reserved[a] # NoName => op[a].at \in Reserving \cup {"leaving", "dead"}
         /\ op[a].at \in Destroyers \cup Using \cup {"updating", "rollback", "resetting", "again"} => op[a].name \in Name
         /\ op[a].at \in Renamers => op[a].to \in Name
    /\ \A a \in Actor, n \in Name : Claims(a, n) =>
         /\ ~Present(n)
         /\ \A b \in Actor : Claims(b, n) => a = b

(* A closed entry stays the one its holder closed.                         *)
HoldersAreAlone ==
    \A a \in Actor, n \in Name : Holds(a, n) =>
      /\ Present(n) /\ resources[n].obj = op[a].obj /\ ~resources[n].open
      /\ \A b \in Actor : Holds(b, n) => a = b

(* Registered objects and those under construction are different ones, and *)
(* they are all there are, except those whose discard was cut short.       *)
ObjectsAreKept ==
    /\ \A n \in Name : Present(n) => resources[n].obj \in used
    /\ \A n, m \in Name : Present(n) /\ resources[n].obj = resources[m].obj => n = m
    /\ \A a \in Actor : op[a].at \in Making =>
         /\ op[a].obj \in used
         /\ \A n \in Name : resources[n].obj # op[a].obj
         /\ \A b \in Actor : op[b].at \in Making /\ op[b].obj = op[a].obj => a = b
    /\ \A o \in used : o \notin gone \cup abandoned => Registered(o) \cup Creating(o) # {}

(* The row of a durable object is under its name, except for the moment    *)
(* between deleting it and removing its entry; a rename moves both, unless *)
(* its rollback is interrupted: then the entry stays closed for good.      *)
Forgotten(n) == ~resources[n].open /\ \A a \in Actor : ~Holds(a, n)

RowsFollow ==
    /\ \A n \in Name : Present(n) /\ resources[n].obj \in Durable =>
         \/ rows[n] = resources[n].obj
         \/ \E a \in Actor : Holds(a, n) /\ op[a].at \in {"removing", "renaming", "unrenaming", "unnaming"}
         \/ Forgotten(n)
    /\ \A a \in Actor : op[a].obj \in Durable /\ op[a].at \in {"setting", "register", "renaming", "unrenaming", "unnaming"}
         => rows[op[a].name] = op[a].obj
    /\ \A a \in Actor : op[a].at \in {"saving", "setting", "undo", "renaming", "unrenaming", "unnaming"} => op[a].obj \in Durable

(* Nothing is made once the gates were put, and what there was is swept.   *)
SweepIsComplete ==
    /\ main \in {"gates", "sweep", "down"} => ~accepting
    /\ \A r \in left : r.obj \in used
    /\ Swept => \A a \in Actor : reserved[a] = NoName
    /\ Swept => \A o \in used \ Durable : o \in gone \/ \E r \in left : r.obj = o
    /\ main = "down" => left = {}

(* The users of an open entry are counted; those of a closed one are       *)
(* waited for.                                                             *)
Tracking(o, w) == {a \in Leasing(o) : op[a].tracked /\ WorkerOf[a] = w}

LeasesAreCounted ==
    /\ \A a \in Actor : op[a].at \in Using =>
         a \in Caller /\ op[a].obj # None /\ resources[op[a].name].obj = op[a].obj
    /\ \A n \in Name, o \in Object : resources[n].open /\ resources[n].obj = o =>
         /\ resources[n].uses = Cardinality(Leasing(o))
         /\ \A w \in Worker : resources[n].users[w] = Cardinality(Tracking(o, w))
    /\ \A a \in Actor, n \in Name, o \in Object : Holds(a, n) /\ op[a].obj = o =>
         \A c \in Leasing(o) : op[a].at = "evicting" /\ WorkerOf[c] \in op[a].evict

RInv ==
    /\ Typed
    /\ NamesAreClaimed
    /\ HoldersAreAlone
    /\ ObjectsAreKept
    /\ RowsFollow
    /\ SweepIsComplete
    /\ LeasesAreCounted

(* Callers, the monitor, workers, objects and names are told apart. *)
LEMMA Constants_Facts ==
    /\ Caller \subseteq Actor /\ Monitor \in Actor /\ Monitor \notin Caller
    /\ \A a \in Actor : WorkerOf[a] \in Worker
    /\ None \notin Object /\ NoName \notin Name
    /\ Object \subseteq Nat /\ Durable \subseteq Object
BY ConstantsAssumption DEF Actor, Worker, Object, None

----------------------------------------------------------------------------
(* A sum over workers of disjoint counts is the count of their union.      *)
LEMMA Minimal ==
  ASSUME NEW S, IsFiniteSet(S), NEW F, F \subseteq SUBSET S, F # {}
  PROVE  \E T \in F : \A U \in F : U \subseteq T => U = T
<1>1. IsWellFoundedOn(StrictSubsetOrdering(S), FiniteSubsetsOf(S))
  BY FS_StrictSubsetOrderingWellFounded
<1>2. F \subseteq FiniteSubsetsOf(S)
  BY FS_Subset DEF FiniteSubsetsOf
<1>3. PICK T \in F : \A U \in F : <<U, T>> \notin StrictSubsetOrdering(S)
  BY <1>1, <1>2, WFMin
<1> QED BY <1>3, <1>2 DEF StrictSubsetOrdering, FiniteSubsetsOf

Sum(f, S) == MapThenSumSet(LAMBDA w : f[w], S)

One(s) == CHOOSE x \in s : TRUE
Step(g, f, s) == IF s = {} THEN 0 ELSE f[One(s)] + g[s \ {One(s)}]

(* The sum over a set is that of its recursive definition. *)
LEMMA Unfold ==
  ASSUME NEW f, NEW S
  PROVE Sum(f, S) = (CHOOSE g : g = [s \in SUBSET S |-> Step(g, f, s)])[S]
BY DEF Sum, MapThenSumSet, MapThenFoldSet, Step, One

(* A sum of cardinalities is the cardinality of the disjoint union. *)
LEMMA Sum_Counts ==
  ASSUME NEW S, IsFiniteSet(S), NEW T, IsFiniteSet(T), NEW C \in [S -> SUBSET T],
         \A c \in T : \E w \in S : c \in C[w],
         \A v, w \in S : v # w => C[v] \cap C[w] = {},
         NEW f, \A w \in S : f[w] = Cardinality(C[w])
  PROVE  Sum(f, S) = Cardinality(T)
<1> DEFINE N(s) == Cardinality({c \in T : \E w \in s : c \in C[w]})
           h    == [s \in SUBSET S |-> N(s)]
           g    == CHOOSE i : i = [s \in SUBSET S |-> Step(i, f, s)]
<1>1. ASSUME NEW s \in SUBSET S, s # {}
      PROVE  One(s) \in s /\ N(s) = f[One(s)] + N(s \ {One(s)})
  <2>1. PICK w \in s : w = One(s)
    BY <1>1 DEF One
  <2> DEFINE A == C[w]
             B == {c \in T : \E v \in s \ {w} : c \in C[v]}
  <2>2. A \cup B = {c \in T : \E v \in s : c \in C[v]} /\ A \cap B = {}
    BY <1>1, <2>1
  <2>3. IsFiniteSet(A) /\ IsFiniteSet(B) /\ Cardinality(A) \in Nat /\ Cardinality(B) \in Nat
    <3>1. A \in SUBSET T /\ B \in SUBSET T
      BY <1>1, <2>1
    <3> HIDE DEF A, B
    <3> QED BY <3>1, FS_Subset, FS_CardinalityType
  <2>4. Cardinality(A \cup B) = Cardinality(A) + Cardinality(B)
    <3> HIDE DEF A, B
    <3>1. Cardinality(A \cap B) = 0
      BY <2>2, FS_EmptySet
    <3>2. Cardinality(A \cup B) = Cardinality(A) + Cardinality(B) - Cardinality(A \cap B)
      BY <2>3, FS_Union
    <3> QED BY <2>3, <3>1, <3>2
  <2> QED BY <2>1, <2>2, <2>4
<1>2. N({}) = 0
  BY FS_EmptySet
<1> HIDE DEF N
<1>3. h = [s \in SUBSET S |-> Step(h, f, s)]
  BY <1>1, <1>2 DEF Step
<1>4. g = [s \in SUBSET S |-> Step(g, f, s)]
  BY <1>3
<1> HIDE DEF g
<1> DEFINE F == {s \in SUBSET S : g[s] # N(s)}
<1>5. F = {}
  <2> SUFFICES ASSUME F # {} PROVE FALSE
    OBVIOUS
  <2>1. PICK s \in F : \A u \in F : u \subseteq s => u = s
    <3>1. F \subseteq SUBSET S /\ F # {}
      OBVIOUS
    <3> HIDE DEF F
    <3> QED BY <3>1, Minimal
  <2>2. g[s] = Step(g, f, s)
    BY <1>4, <2>1
  <2>3. s # {}
    BY <1>2, <2>1, <2>2 DEF Step
  <2>4. s \ {One(s)} \in SUBSET S /\ s \ {One(s)} # s /\ s \ {One(s)} \subseteq s
    BY <1>1, <2>1, <2>3
  <2>5. g[s \ {One(s)}] = N(s \ {One(s)})
    BY <2>1, <2>4
  <2> QED BY <1>1, <2>1, <2>2, <2>3, <2>5 DEF Step
<1>6. Sum(f, S) = g[S]
  BY Unfold DEF g
<1>7. {c \in T : \E w \in S : c \in C[w]} = T
  OBVIOUS
<1> QED BY <1>5, <1>6, <1>7 DEF N

----------------------------------------------------------------------------
(* What a step of one actor does to the operations and to the entries.     *)

Only(a)     == \A b \in Actor : b # a => op'[b] = op[b]
Moves(a, s) ==
    /\ Only(a) /\ op'[a].at = s
    /\ op'[a].name = op[a].name /\ op'[a].to = op[a].to /\ op'[a].obj = op[a].obj
    /\ op'[a].tracked = op[a].tracked /\ op'[a].evict = op[a].evict
Leaves(a)   ==
    /\ Only(a) /\ op'[a].at \in {"idle", "dead"}
    /\ op'[a].name = NoName /\ op'[a].to = NoName /\ op'[a].obj = None
Begins(a, new) == Only(a) /\ op'[a] = new /\ op[a] = Idle
Sets(n, e) == resources'[n] = e /\ \A m \in Name : m # n => resources'[m] = resources[m]

(* A step of one actor changes only it. *)
LEMMA Update_Op ==
    ASSUME Typed, NEW a \in Actor, NEW new \in Activity, op' = [op EXCEPT ![a] = new]
    PROVE  Only(a) /\ op'[a] = new /\ op' \in [Actor -> Activity]
<1> HIDE DEF Activity
<1> QED BY DEF Typed, Only

(* An actor that does nothing, and one that is gone. *)
LEMMA Idle_Type == Idle \in Activity /\ Dead \in Activity
BY Constants_Facts DEF Activity, Idle, Dead, Stages, Lives

(* An operation begins. *)
LEMMA Start_Begins ==
    ASSUME Typed, NEW a \in Actor, NEW new \in Activity, Start(a, new)
    PROVE  Begins(a, new) /\ op' \in [Actor -> Activity]
BY Update_Op DEF Start, MayStart, Begins

(* An operation moves to its next stage. *)
LEMMA Go_Moves ==
    ASSUME Typed, NEW a \in Actor, NEW s \in Stages, Go(a, s)
    PROVE  Moves(a, s) /\ op' \in [Actor -> Activity]
<1> DEFINE new == [op[a] EXCEPT !.at = s]
<1>1. op[a] \in Activity
  BY DEF Typed
<1>2. /\ new \in Activity /\ new.at = s
      /\ new.name = op[a].name /\ new.to = op[a].to /\ new.obj = op[a].obj
      /\ new.tracked = op[a].tracked /\ new.evict = op[a].evict
  BY <1>1 DEF Activity
<1>3. op' = [op EXCEPT ![a] = new]
  BY DEF Go
<1> HIDE DEF new
<1> QED BY <1>2, <1>3, Update_Op DEF Moves

(* An operation returns. *)
LEMMA Return_Leaves ==
    ASSUME Typed, NEW a \in Actor, Return(a)
    PROVE  Leaves(a) /\ op' \in [Actor -> Activity]
<1>1. After(a) \in Activity
  BY Idle_Type DEF After
<1>2. After(a).at \in {"idle", "dead"} /\ After(a).name = NoName /\ After(a).to = NoName /\ After(a).obj = None
  BY DEF After, Idle, Dead
<1> QED BY <1>1, <1>2, Update_Op DEF Return, Leaves

(* An entry is replaced, alone. *)
LEMMA Change_Sets ==
    ASSUME Typed, NEW n \in Name, NEW e \in Entry, Change(n, e)
    PROVE  Sets(n, e) /\ resources' \in [Name -> Entry]
<1> HIDE DEF Entry
<1> QED BY DEF Typed, Change, Sets

(* An entry that is there has an object in use. *)
LEMMA Present_Entry ==
    ASSUME RInv, NEW n \in Name, Present(n)
    PROVE  /\ resources[n] \in Entry /\ resources[n].obj \in Object
           /\ resources[n].obj \in used /\ resources[n].obj # None
BY DEF RInv, Typed, ObjectsAreKept, Present

(* An entry with other counts. *)
LEMMA Entry_With ==
    ASSUME NEW e \in Entry, NEW u \in Counts, NEW k \in Count
    PROVE  [e EXCEPT !.uses = k, !.users = u] \in Entry
BY DEF Entry

(* The counts reach the number of callers. *)
LEMMA Count_Type == Count \subseteq Nat /\ 0 \in Count /\ Cardinality(Caller) \in Nat
<1>1. Cardinality(Caller) \in Nat
  BY ConstantsAssumption, FS_CardinalityType
<1> QED BY <1>1 DEF Count

(* A name without an entry. *)
LEMMA NoEntry_Type == NoEntry \in Entry /\ NoEntry.obj = None /\ NoEntry.open = FALSE
BY Count_Type DEF Entry, Counts, NoEntry, NoUsers, Lives

(* The leases are what they were unless somebody comes or goes.            *)
LEMMA Leases_Same ==
    ASSUME NEW a \in Actor, Only(a), op[a].at \in Using <=> op'[a].at \in Using,
           op[a].at \in Using => op'[a].obj = op[a].obj /\ op'[a].tracked = op[a].tracked
    PROVE  /\ \A o : Leasing(o)' = Leasing(o)
           /\ \A o, w : Tracking(o, w)' = Tracking(o, w)
BY DEF Only, Using, Leasing, Tracking

(* The name an actor is about to fill is nobody else's.                    *)
LEMMA Claims_Apart ==
    ASSUME RInv, NEW a \in Actor, op[a].at \in Reserving
    PROVE  /\ op[a].name \in Name /\ ~Present(op[a].name)
           /\ \A b \in Actor : b # a /\ op[b].at \in Reserving => op[b].name # op[a].name
           /\ \A b \in Actor, n \in Name : Holds(b, n) => n # op[a].name
<1>1. \A b \in Actor : op[b].at \in Reserving => Claims(b, op[b].name) /\ op[b].name \in Name
  BY Constants_Facts DEF RInv, NamesAreClaimed, Claims, Reserving, Making, Renamers
<1> QED BY <1>1 DEF RInv, NamesAreClaimed, HoldersAreAlone

(* Neither is the entry an actor holds.                                    *)
LEMMA Holds_Apart ==
    ASSUME RInv, NEW a \in Actor, NEW n \in Name, Holds(a, n)
    PROVE  /\ Present(n) /\ resources[n].obj = op[a].obj /\ ~resources[n].open
           /\ \A b \in Actor : b # a => ~Holds(b, n)
           /\ \A b \in Actor : op[b].at \in Reserving => op[b].name # n
BY Claims_Apart DEF RInv, HoldersAreAlone

(* A step that neither begins nor ends a lease keeps the count if the      *)
(* entries agree with the leases there are.                                *)
LEMMA Leases_Change ==
    ASSUME RInv, NEW a \in Actor, Only(a), op[a].at \in Using <=> op'[a].at \in Using,
           op[a].at \in Using => op'[a].obj = op[a].obj /\ op'[a].tracked = op[a].tracked /\ op'[a].name = op[a].name,
           \A b \in Actor : op[b].at \in Using => resources'[op[b].name].obj = op[b].obj,
           \A n \in Name, o \in Object : resources'[n].open /\ resources'[n].obj = o =>
             /\ resources'[n].uses = Cardinality(Leasing(o))
             /\ \A w \in Worker : resources'[n].users[w] = Cardinality(Tracking(o, w)),
           \A n \in Name, o \in Object : Holds(a, n)' /\ op'[a].obj = o =>
             \A c \in Leasing(o) : op'[a].at = "evicting" /\ WorkerOf[c] \in op'[a].evict
    PROVE  LeasesAreCounted'
<1>1. /\ \A o : Leasing(o)' = Leasing(o)
      /\ \A o, w : Tracking(o, w)' = Tracking(o, w)
  BY Leases_Same
<1>2. \A b \in Actor : op'[b].at \in Using =>
        b \in Caller /\ op'[b].obj # None /\ resources'[op'[b].name].obj = op'[b].obj
  BY DEF RInv, LeasesAreCounted, Only
<1>3. \A n \in Name, o \in Object : resources'[n].open /\ resources'[n].obj = o =>
        /\ resources'[n].uses = Cardinality(Leasing(o)')
        /\ \A w \in Worker : resources'[n].users[w] = Cardinality(Tracking(o, w)')
  BY <1>1
<1>4. ASSUME NEW b \in Actor, NEW n \in Name, NEW o \in Object, Holds(b, n)', op'[b].obj = o, NEW c \in Leasing(o)'
      PROVE  op'[b].at = "evicting" /\ WorkerOf[c] \in op'[b].evict
  <2>1. c \in Leasing(o)
    BY <1>1, <1>4
  <2>2. CASE b = a
    BY <1>4, <2>1, <2>2
  <2>3. CASE b # a
    <3>1. op'[b] = op[b] /\ Holds(b, n)
      BY <1>4, <2>3 DEF Only, Holds
    <3> QED BY <1>4, <2>1, <3>1 DEF RInv, LeasesAreCounted
  <2> QED BY <2>2, <2>3
<1> QED BY <1>2, <1>3, <1>4 DEF LeasesAreCounted

(* It does when no entry changes and no holder gets further than it was.   *)
LEMMA Leases_Frame ==
    ASSUME RInv, NEW a \in Actor, Only(a), op[a].at \in Using <=> op'[a].at \in Using,
           op[a].at \in Using => op'[a].obj = op[a].obj /\ op'[a].tracked = op[a].tracked /\ op'[a].name = op[a].name,
           UNCHANGED resources,
           \A n \in Name : Holds(a, n)' =>
             /\ Holds(a, n) /\ op'[a].obj = op[a].obj
             /\ op[a].at = "evicting" => op'[a].at = "evicting" /\ op'[a].evict = op[a].evict
    PROVE  LeasesAreCounted'
<1>1. \A b \in Actor : op[b].at \in Using => resources'[op[b].name].obj = op[b].obj
  BY DEF RInv, LeasesAreCounted
<1>2. \A n \in Name, o \in Object : resources'[n].open /\ resources'[n].obj = o =>
        /\ resources'[n].uses = Cardinality(Leasing(o))
        /\ \A w \in Worker : resources'[n].users[w] = Cardinality(Tracking(o, w))
  BY DEF RInv, LeasesAreCounted
<1>3. \A n \in Name, o \in Object : Holds(a, n)' /\ op'[a].obj = o =>
        \A c \in Leasing(o) : op'[a].at = "evicting" /\ WorkerOf[c] \in op'[a].evict
  BY DEF RInv, LeasesAreCounted
<1> QED BY <1>1, <1>2, <1>3, Leases_Change

(* Finitely many callers use an object. *)
LEMMA Leases_Finite ==
    ASSUME RInv, NEW o
    PROVE  /\ IsFiniteSet(Leasing(o)) /\ Cardinality(Leasing(o)) \in Nat
           /\ \A w : IsFiniteSet(Tracking(o, w)) /\ Cardinality(Tracking(o, w)) \in Nat
<1>1. Leasing(o) \subseteq Caller
  BY DEF RInv, LeasesAreCounted, Leasing, Using
<1>2. IsFiniteSet(Leasing(o))
  BY <1>1, FS_Subset, ConstantsAssumption
<1>3. \A w : Tracking(o, w) \subseteq Leasing(o)
  BY DEF Tracking
<1> QED BY <1>2, <1>3, FS_Subset, FS_CardinalityType

(* What an actor writes under the name it is about to fill disturbs no     *)
(* other's row.                                                            *)
LEMMA Rows_Frame ==
    ASSUME RInv, NEW a \in Actor, Only(a), op[a].at \in Making, op'[a].at \in Making,
           UNCHANGED resources, \A n \in Name : n # op[a].name => rows'[n] = rows[n],
           op'[a].name = op[a].name, op'[a].obj = op[a].obj,
           op'[a].at \in {"saving", "setting", "undo"} => op[a].obj \in Durable,
           op'[a].at \in {"setting", "register"} /\ op[a].obj \in Durable => rows'[op[a].name] = op[a].obj
    PROVE  RowsFollow'
<1> DEFINE Later == {"removing", "renaming", "unrenaming", "unnaming"}
<1>1. /\ ~Present(op[a].name)
      /\ \A b \in Actor : b # a /\ op[b].at \in Reserving => op[b].name # op[a].name
  BY Claims_Apart DEF Reserving
<1>2. ASSUME NEW n \in Name, Present(n), resources[n].obj \in Durable
      PROVE  rows'[n] = resources[n].obj \/ (\E b \in Actor : Holds(b, n)' /\ op'[b].at \in Later) \/ Forgotten(n)'
  <2>1. rows'[n] = rows[n]
    BY <1>1, <1>2
  <2>2. ASSUME NEW b \in Actor, Holds(b, n), op[b].at \in Later
        PROVE  Holds(b, n)' /\ op'[b].at \in Later
    BY <2>2 DEF Only, Holds, Renamers, Destroyers, Making
  <2>3. Forgotten(n) => Forgotten(n)'
    BY DEF Forgotten, Only, Holds, Renamers, Destroyers, Making
  <2> QED BY <1>2, <2>1, <2>2, <2>3 DEF RInv, RowsFollow
<1>3. \A b \in Actor : op'[b].obj \in Durable /\ op'[b].at \in {"setting", "register", "renaming", "unrenaming", "unnaming"}
        => rows'[op'[b].name] = op'[b].obj
  BY <1>1, Claims_Apart DEF RInv, RowsFollow, Forgotten, Only, Reserving, Making, Renamers
<1>4. \A b \in Actor : op'[b].at \in {"saving", "setting", "undo", "renaming", "unrenaming", "unnaming"} => op'[b].obj \in Durable
  BY DEF RInv, RowsFollow, Forgotten, Only, Making
<1> QED BY <1>2, <1>3, <1>4 DEF RowsFollow, Forgotten, Present

(* An open entry is held by nobody; one without users has no leases.       *)
LEMMA Open_Entry ==
    ASSUME RInv, NEW n \in Name, NEW o \in Object, resources[n].open, resources[n].obj = o
    PROVE  /\ \A b \in Actor : ~Holds(b, n)
           /\ resources[n].uses = 0 => Leasing(o) = {}
<1>1. \A b \in Actor : ~Holds(b, n)
  BY DEF RInv, HoldersAreAlone
<1>2. resources[n].uses = Cardinality(Leasing(o))
  BY DEF RInv, LeasesAreCounted
<1>3. resources[n].uses = 0 => Leasing(o) = {}
  BY <1>2, Leases_Finite, FS_EmptySet
<1> QED BY <1>1, <1>3

(* Whoever got beyond evicting the users has an entry without leases.      *)
LEMMA Held_Entry ==
    ASSUME RInv, NEW a \in Actor, NEW n \in Name, NEW o \in Object, Holds(a, n), op[a].obj = o,
           op[a].at # "evicting"
    PROVE  /\ Leasing(o) = {} /\ Cardinality(Leasing(o)) = 0
           /\ \A w : Tracking(o, w) = {} /\ Cardinality(Tracking(o, w)) = 0
<1>1. Leasing(o) = {}
  BY DEF RInv, LeasesAreCounted
<1>2. \A w : Tracking(o, w) = {}
  BY <1>1 DEF Tracking
<1> QED BY <1>1, <1>2, FS_EmptySet

(* An entry that is touched keeps its object; if it is open afterwards, its *)
(* counts are those of the leases.                                         *)
LEMMA Leases_Touch ==
    ASSUME RInv, NEW a \in Actor, Only(a), op[a].at \in Using <=> op'[a].at \in Using,
           op[a].at \in Using => op'[a].obj = op[a].obj /\ op'[a].tracked = op[a].tracked /\ op'[a].name = op[a].name,
           NEW n \in Name, NEW o \in Object, NEW e, Sets(n, e), resources[n].obj = o, e.obj = o,
           e.open => /\ e.uses = Cardinality(Leasing(o))
                     /\ \A w \in Worker : e.users[w] = Cardinality(Tracking(o, w)),
           \A m \in Name, q \in Object : Holds(a, m)' /\ op'[a].obj = q =>
             \A c \in Leasing(q) : op'[a].at = "evicting" /\ WorkerOf[c] \in op'[a].evict
    PROVE  LeasesAreCounted'
<1>1. \A b \in Actor : op[b].at \in Using => resources'[op[b].name].obj = op[b].obj
  <2>1. \A b \in Actor : op[b].at \in Using => op[b].name \in Name /\ resources[op[b].name].obj = op[b].obj
    BY DEF RInv, LeasesAreCounted, NamesAreClaimed
  <2> QED BY <2>1 DEF Sets
<1>2. ASSUME NEW m \in Name, NEW q \in Object, resources'[m].open, resources'[m].obj = q
      PROVE  /\ resources'[m].uses = Cardinality(Leasing(q))
             /\ \A w \in Worker : resources'[m].users[w] = Cardinality(Tracking(q, w))
  <2>1. CASE m = n
    BY <1>2, <2>1 DEF Sets
  <2>2. CASE m # n
    BY <1>2, <2>2 DEF RInv, LeasesAreCounted, Sets
  <2> QED BY <2>1, <2>2
<1> QED BY <1>1, <1>2, Leases_Change

(* An open entry counts its users, by worker and in all. *)
LEMMA Open_Counts ==
    ASSUME RInv, NEW n \in Name, NEW o \in Object, resources[n].open, resources[n].obj = o
    PROVE  /\ resources[n].uses = Cardinality(Leasing(o))
           /\ \A w \in Worker : resources[n].users[w] = Cardinality(Tracking(o, w))
BY DEF RInv, LeasesAreCounted

(* An entry that is made unavailable. *)
LEMMA Entry_Closed ==
    ASSUME NEW e \in Entry
    PROVE  LET c == [e EXCEPT !.open = FALSE] IN c \in Entry /\ c.obj = e.obj /\ c.open = FALSE
BY DEF Entry

(* An entry that is restored. *)
LEMMA Entry_Reopened ==
    ASSUME NEW e \in Entry
    PROVE  LET r == [e EXCEPT !.open = TRUE, !.users = NoUsers, !.uses = 0]
           IN  /\ r \in Entry /\ r.obj = e.obj /\ r.open = TRUE /\ r.uses = 0
               /\ \A w \in Worker : r.users[w] = 0
BY Count_Type DEF Entry, Counts, NoUsers

(* An entry with another lifetime. *)
LEMMA Entry_Life ==
    ASSUME NEW e \in Entry, NEW l \in Lives
    PROVE  LET c == [e EXCEPT !.life = l]
           IN  c \in Entry /\ c.obj = e.obj /\ c.open = e.open /\ c.uses = e.uses /\ c.users = e.users
BY DEF Entry

(* Finitely many actors run in finitely many workers. *)
LEMMA Worker_Finite == IsFiniteSet(Actor) /\ IsFiniteSet(Worker)
<1>1. IsFiniteSet(Actor)
  BY ConstantsAssumption, FS_AddElement DEF Actor
<1>2. [a \in Actor |-> WorkerOf[a]] \in Surjection(Actor, Worker)
  BY DEF Worker, Surjection
<1> QED BY <1>1, <1>2, FS_Surjection

(* If the leases an open entry counts under workers are all it counts, each *)
(* lease is held in a worker the destroyer evicts.                         *)
LEMMA Tracked_Users ==
    ASSUME RInv, NEW n \in Name, NEW e \in Entry, NEW o \in Object, e = resources[n], e.obj = o, e.open, AllTracked(e)
    PROVE  \A c \in Leasing(o) : WorkerOf[c] \in Users(e)
<1> DEFINE T == {c \in Leasing(o) : op[c].tracked}
           C == [w \in Worker |-> Tracking(o, w)]
           f == e.users
<1>1. IsFiniteSet(T) /\ IsFiniteSet(Leasing(o)) /\ T \subseteq Leasing(o)
  BY Leases_Finite, FS_Subset
<1>2. \A w \in Worker : f[w] = Cardinality(C[w])
  BY Open_Counts
<1>3. e.uses = Sum(f, Worker)
  BY DEF AllTracked, Sum
<1>4. Sum(f, Worker) = Cardinality(T)
  <2>1. C \in [Worker -> SUBSET T]
    BY DEF Tracking
  <2>2. \A c \in T : \E w \in Worker : c \in C[w]
    BY Constants_Facts DEF Tracking, Leasing
  <2>3. \A v, w \in Worker : v # w => C[v] \cap C[w] = {}
    BY DEF Tracking
  <2> HIDE DEF T, C, f
  <2> QED BY <1>1, <1>2, <2>1, <2>2, <2>3, Worker_Finite, Sum_Counts
<1>6. Cardinality(T) = Cardinality(Leasing(o))
  BY <1>3, <1>4, Open_Counts
<1>7. T = Leasing(o)
  <2> HIDE DEF T
  <2> QED BY <1>1, <1>6, FS_Subset
<1>8. ASSUME NEW c \in Leasing(o)
      PROVE  WorkerOf[c] \in Users(e)
  <2>1. c \in Tracking(o, WorkerOf[c]) /\ WorkerOf[c] \in Worker
    BY <1>7, Constants_Facts DEF Tracking, Leasing
  <2>2. Cardinality(Tracking(o, WorkerOf[c])) \in Nat \ {0}
    BY <2>1, Leases_Finite, FS_EmptySet
  <2>3. e.users[WorkerOf[c]] = Cardinality(Tracking(o, WorkerOf[c]))
    BY <2>1, Open_Counts
  <2> QED BY <2>1, <2>2, <2>3 DEF Users
<1> QED BY <1>8

----------------------------------------------------------------------------
(* Each action preserves the invariant. *)

(* reserveResource takes the name. *)
LEMMA Reserve_RInv ==
    ASSUME RInv, NEW c \in Caller, NEW n \in Name, NEW life \in Lives, Reserve(c, n, life)
    PROVE  RInv'
<1> DEFINE new == [Idle EXCEPT !.at = "reserved", !.name = n, !.life = life]
<1>1. c \in Actor /\ accepting /\ ~Occupied(n) /\ reserved' = [reserved EXCEPT ![c] = n]
  BY Constants_Facts DEF Reserve
<1>2. UNCHANGED <<accepting, resources, storage, doomed, stopping, history>>
  BY DEF Reserve
<1>3. new \in Activity /\ new.at = "reserved" /\ new.name = n
  BY Constants_Facts DEF Activity, Idle, Stages, Lives
<1>4. Begins(c, new) /\ op' \in [Actor -> Activity] /\ op[c].at = "idle"
  <2>1. Start(c, new)
    BY DEF Reserve
  <2> HIDE DEF new
  <2>2. Begins(c, new) /\ op' \in [Actor -> Activity]
    BY <1>1, <1>3, <2>1, Start_Begins DEF RInv
  <2> QED BY <2>2 DEF Begins, Idle
<1>5. /\ \A o : Leasing(o)' = Leasing(o)
      /\ \A o, w : Tracking(o, w)' = Tracking(o, w)
  BY <1>1, <1>3, <1>4, Leases_Same DEF Begins, Using
<1> HIDE DEF new
<1>6. Typed'
  BY <1>1, <1>2, <1>3, <1>4, <1>5 DEF RInv, Typed, registry, storage, stopping, history, Present
<1>7. NamesAreClaimed'
  BY <1>1, <1>2, <1>3, <1>4, <1>5, Constants_Facts DEF RInv, Moves, Leaves, Begins, Sets, Only, NamesAreClaimed, Claims, Present, Reserving, Making, Renamers, Destroyers, Using, registry, Occupied, Typed
<1>8. HoldersAreAlone'
  BY <1>1, <1>2, <1>3, <1>4, <1>5 DEF RInv, Moves, Leaves, Begins, Sets, Only, HoldersAreAlone, Holds, Present, Renamers, Destroyers, registry
<1>9. ObjectsAreKept'
  BY <1>1, <1>2, <1>3, <1>4, <1>5 DEF RInv, Moves, Leaves, Begins, Sets, Only, ObjectsAreKept, Present, Making, Registered, Creating, registry, history
<1>10. RowsFollow'
  BY <1>1, <1>2, <1>3, <1>4, <1>5 DEF RInv, Moves, Leaves, Begins, Sets, Only, RowsFollow, Forgotten, Holds, Present, Renamers, Destroyers, registry, storage
<1>11. SweepIsComplete'
  BY <1>1, <1>2, <1>3, <1>4, <1>5 DEF RInv, SweepIsComplete, Swept, registry, history, stopping
<1>12. LeasesAreCounted'
  BY <1>1, <1>2, <1>3, <1>4, <1>5, Leases_Frame DEF Moves, Leaves, Begins, Only, Holds, Using, Destroyers, Renamers, registry
<1> QED BY <1>6, <1>7, <1>8, <1>9, <1>10, <1>11, <1>12 DEF RInv

(* The creation enters its masked section. *)
LEMMA EnterMask_RInv ==
    ASSUME RInv, NEW a \in Actor, EnterMask(a)
    PROVE  RInv'
<1>1. op[a].at = "reserved" /\ Moves(a, "making") /\ op' \in [Actor -> Activity]
  BY Go_Moves DEF RInv, EnterMask, Stages
<1>2. UNCHANGED <<registry, storage, doomed, stopping, history>>
  BY DEF EnterMask
<1>3. /\ \A o : Leasing(o)' = Leasing(o)
      /\ \A o, w : Tracking(o, w)' = Tracking(o, w)
  BY <1>1, Leases_Same DEF Moves, Using
<1>4. Typed'
  BY <1>1, <1>2, <1>3 DEF RInv, Typed, registry, storage, stopping, history, Present
<1>5. NamesAreClaimed'
  BY <1>1, <1>2, <1>3 DEF RInv, Moves, Leaves, Begins, Sets, Only, NamesAreClaimed, Claims, Present, Reserving, Making, Renamers, Destroyers, Using, registry
<1>6. HoldersAreAlone'
  BY <1>1, <1>2, <1>3 DEF RInv, Moves, Leaves, Begins, Sets, Only, HoldersAreAlone, Holds, Present, Renamers, Destroyers, registry
<1>7. ObjectsAreKept'
  BY <1>1, <1>2, <1>3 DEF RInv, Moves, Leaves, Begins, Sets, Only, ObjectsAreKept, Present, Making, Registered, Creating, registry, history
<1>8. RowsFollow'
  BY <1>1, <1>2, <1>3 DEF RInv, Moves, Leaves, Begins, Sets, Only, RowsFollow, Forgotten, Holds, Present, Renamers, Destroyers, registry, storage
<1>9. SweepIsComplete'
  BY <1>1, <1>2, <1>3 DEF RInv, SweepIsComplete, Swept, registry, history, stopping
<1>10. LeasesAreCounted'
  BY <1>1, <1>2, <1>3, Leases_Frame DEF Moves, Leaves, Begins, Only, Holds, Using, Destroyers, Renamers, registry
<1> QED BY <1>4, <1>5, <1>6, <1>7, <1>8, <1>9, <1>10 DEF RInv

(* The resource's row is written, or the write fails. *)
LEMMA SaveResource_RInv ==
    ASSUME RInv, NEW a \in Actor, SaveResource(a)
    PROVE  RInv'
<1>1. PICK s \in {"setting", "undo"} :
        /\ op[a].at = "saving" /\ Go(a, s)
        /\ s = "setting" => rows' = [rows EXCEPT ![op[a].name] = op[a].obj]
        /\ s = "undo" => rows' = rows
  BY DEF SaveResource
<1>2. UNCHANGED <<registry, lifeRows, doomed, stopping, history>>
  BY DEF SaveResource
<1>3. Moves(a, s) /\ op' \in [Actor -> Activity]
  BY <1>1, Go_Moves DEF RInv, Stages
<1>4. /\ \A o : Leasing(o)' = Leasing(o)
      /\ \A o, w : Tracking(o, w)' = Tracking(o, w)
  BY <1>1, <1>3, Leases_Same DEF Moves, Using
<1>5. /\ op[a].name \in Name /\ ~Present(op[a].name)
      /\ \A b \in Actor : b # a /\ op[b].at \in Reserving => op[b].name # op[a].name
  BY <1>1, Claims_Apart DEF Reserving, Making
<1>6. Typed'
  BY <1>1, <1>2, <1>3, <1>4, <1>5 DEF RInv, Typed, registry, storage, stopping, history, Present, Activity
<1>7. NamesAreClaimed'
  BY <1>1, <1>2, <1>3, <1>4, <1>5 DEF RInv, Moves, Leaves, Begins, Sets, Only, NamesAreClaimed, Claims, Present, Reserving, Making, Renamers, Destroyers, Using, registry
<1>8. HoldersAreAlone'
  BY <1>1, <1>2, <1>3, <1>4, <1>5 DEF RInv, Moves, Leaves, Begins, Sets, Only, HoldersAreAlone, Holds, Present, Renamers, Destroyers, registry
<1>9. ObjectsAreKept'
  BY <1>1, <1>2, <1>3, <1>4, <1>5 DEF RInv, Moves, Leaves, Begins, Sets, Only, ObjectsAreKept, Present, Making, Registered, Creating, registry, history
<1>10. RowsFollow'
  BY <1>1, <1>2, <1>3, <1>4, <1>5, Rows_Frame DEF RInv, Typed, Moves, Making, registry, RowsFollow, Forgotten
<1>11. SweepIsComplete'
  BY <1>1, <1>2, <1>3, <1>4, <1>5 DEF RInv, SweepIsComplete, Swept, registry, history, stopping
<1>12. LeasesAreCounted'
  BY <1>1, <1>2, <1>3, <1>4, <1>5, Leases_Frame DEF Moves, Leaves, Begins, Only, Holds, Using, Destroyers, Renamers, registry
<1> QED BY <1>6, <1>7, <1>8, <1>9, <1>10, <1>11, <1>12 DEF RInv

(* The object is created, unused so far, or its creation fails. *)
LEMMA CreateObject_RInv ==
    ASSUME RInv, NEW a \in Actor, CreateObject(a)
    PROVE  RInv'
<1>1. op[a].at = "making" /\ UNCHANGED <<registry, storage, doomed, stopping, gone, abandoned>>
  BY DEF CreateObject
<1>2. PICK o \in Object \cup {None}, s \in {"saving", "register", "leaving"} :
        /\ op' = [op EXCEPT ![a].obj = IF s = "leaving" THEN @ ELSE o, ![a].at = s]
        /\ s = "leaving" => used' = used
        /\ s # "leaving" => o \in Object \ used /\ used' = used \cup {o}
        /\ s = "saving" => o \in Durable
        /\ s = "register" => o \notin Durable
  <2>1. CASE \E o \in Object \ used :
              /\ used' = used \cup {o}
              /\ op' = [op EXCEPT ![a].obj = o, ![a].at = IF o \in Durable THEN "saving" ELSE "register"]
    BY <2>1
  <2>2. CASE Go(a, "leaving") /\ UNCHANGED used
    BY <2>2 DEF Go, RInv, Typed, Activity
  <2> QED BY <2>1, <2>2 DEF CreateObject
<1>3. /\ Only(a) /\ op' \in [Actor -> Activity] /\ op'[a].at = s
      /\ op'[a].name = op[a].name /\ op'[a].to = op[a].to
      /\ s # "leaving" => op'[a].obj = o
  <2> DEFINE new == [op[a] EXCEPT !.obj = IF s = "leaving" THEN @ ELSE o, !.at = s]
  <2>1. op[a] \in Activity
    BY DEF RInv, Typed
  <2>2. /\ new \in Activity /\ new.at = s /\ new.name = op[a].name /\ new.to = op[a].to
        /\ s # "leaving" => new.obj = o
    BY <2>1 DEF Activity, Stages
  <2>3. op' = [op EXCEPT ![a] = new]
    BY <1>2, <2>1 DEF RInv, Typed
  <2> HIDE DEF new
  <2> QED BY <2>2, <2>3, Update_Op DEF RInv
<1>4. /\ \A q : Leasing(q)' = Leasing(q)
      /\ \A q, w : Tracking(q, w)' = Tracking(q, w)
  BY <1>1, <1>3, Leases_Same DEF Using
<1>5. Typed'
  BY <1>1, <1>2, <1>3, <1>4 DEF RInv, Typed, registry, storage, stopping, history, Present
<1>6. NamesAreClaimed'
  BY <1>1, <1>2, <1>3, <1>4 DEF RInv, Moves, Leaves, Begins, Sets, Only, NamesAreClaimed, Claims, Present, Reserving, Making, Renamers, Destroyers, Using, registry
<1>7. HoldersAreAlone'
  BY <1>1, <1>2, <1>3, <1>4 DEF RInv, Moves, Leaves, Begins, Sets, Only, HoldersAreAlone, Holds, Present, Renamers, Destroyers, registry
<1>8. ObjectsAreKept'
  <2>1. s = "leaving" => ObjectsAreKept'
    BY <1>1, <1>2, <1>3 DEF RInv, Only, ObjectsAreKept, Present, Making, Registered, Creating, registry
  <2>2. ASSUME s # "leaving" PROVE ObjectsAreKept'
    <3>1. o \notin used /\ o # None /\ used' = used \cup {o} /\ op'[a].obj = o /\ op'[a].at \in Making
      BY <1>2, <1>3, <2>2, Constants_Facts DEF Making
    <3>2. /\ \A n \in Name : resources[n].obj # o
          /\ \A b \in Actor : op[b].at \in Making => op[b].obj # o
      BY <3>1 DEF RInv, ObjectsAreKept, Present
    <3>3. a \in Creating(o)' /\ \A q : q # o => Creating(q)' = Creating(q)
      BY <1>1, <1>3, <3>1 DEF Creating, Only, Making
    <3>4. resources' = resources /\ gone' = gone /\ abandoned' = abandoned /\ \A q : Registered(q)' = Registered(q)
      BY <1>1 DEF registry, Registered
    <3>5. \A q \in used' : q \notin gone' \cup abandoned' => Registered(q)' \cup Creating(q)' # {}
      BY <3>1, <3>3, <3>4 DEF RInv, ObjectsAreKept
    <3> QED BY <1>1, <1>3, <3>1, <3>2, <3>4, <3>5 DEF RInv, Only, ObjectsAreKept, Present, Making
  <2> QED BY <2>1, <2>2
<1>9. RowsFollow'
  BY <1>1, <1>2, <1>3, <1>4 DEF RInv, Moves, Leaves, Begins, Sets, Only, RowsFollow, Forgotten, Holds, Present, Renamers, Destroyers, registry, storage
<1>10. SweepIsComplete'
  BY <1>1, <1>2, <1>3, <1>4, Constants_Facts DEF RInv, SweepIsComplete, Swept, registry, history, stopping, NamesAreClaimed, Reserving
<1>11. LeasesAreCounted'
  BY <1>1, <1>2, <1>3, <1>4, Leases_Frame DEF Moves, Leaves, Begins, Only, Holds, Using, Destroyers, Renamers, registry
<1> QED BY <1>5, <1>6, <1>7, <1>8, <1>9, <1>10, <1>11 DEF RInv

(* Its lifetime is saved; a failure leads to the undoing. *)
LEMMA SetLifetime_RInv ==
    ASSUME RInv, NEW a \in Actor, SetLifetime(a)
    PROVE  RInv'
<1>1. PICK s \in {"register", "undo"} :
        /\ op[a].at = "setting" /\ Go(a, s)
        /\ lifeRows' = [lifeRows EXCEPT ![op[a].name] = op[a].life] \/ lifeRows' = lifeRows
  BY DEF SetLifetime
<1>2. UNCHANGED <<registry, rows, doomed, stopping, history>>
  BY DEF SetLifetime
<1>3. Moves(a, s) /\ op' \in [Actor -> Activity]
  BY <1>1, Go_Moves DEF RInv, Stages
<1>4. /\ \A o : Leasing(o)' = Leasing(o)
      /\ \A o, w : Tracking(o, w)' = Tracking(o, w)
  BY <1>1, <1>3, Leases_Same DEF Moves, Leaves, Begins, Using, Idle
<1>5. Typed'
  BY <1>1, <1>2, <1>3, <1>4 DEF RInv, Typed, registry, storage, stopping, history, Present, Activity
<1>6. NamesAreClaimed'
  BY <1>1, <1>2, <1>3, <1>4 DEF RInv, Moves, Leaves, Begins, Sets, Only, NamesAreClaimed, Claims, Present, Reserving, Making, Renamers, Destroyers, Using, registry
<1>7. HoldersAreAlone'
  BY <1>1, <1>2, <1>3, <1>4 DEF RInv, Moves, Leaves, Begins, Sets, Only, HoldersAreAlone, Holds, Present, Renamers, Destroyers, registry
<1>8. ObjectsAreKept'
  BY <1>1, <1>2, <1>3, <1>4 DEF RInv, Moves, Leaves, Begins, Sets, Only, ObjectsAreKept, Present, Making, Registered, Creating, registry, history
<1>9. RowsFollow'
  BY <1>1, <1>2, <1>3, <1>4 DEF RInv, Moves, Leaves, Begins, Sets, Only, RowsFollow, Forgotten, Holds, Present, Renamers, Destroyers, registry, storage
<1>10. SweepIsComplete'
  BY <1>1, <1>2, <1>3, <1>4 DEF RInv, SweepIsComplete, Swept, registry, history, stopping
<1>11. LeasesAreCounted'
  BY <1>1, <1>2, <1>3, <1>4, Leases_Frame DEF Moves, Leaves, Begins, Only, Holds, Using, Destroyers, Renamers, registry
<1> QED BY <1>5, <1>6, <1>7, <1>8, <1>9, <1>10, <1>11 DEF RInv

(* A creation that failed deletes its row again, if it can. *)
LEMMA Undo_RInv ==
    ASSUME RInv, NEW a \in Actor, Undo(a)
    PROVE  RInv'
<1>1. op[a].at = "undo" /\ Moves(a, "discard") /\ op' \in [Actor -> Activity]
  BY Go_Moves DEF RInv, Undo, Stages
<1>2. /\ rows' = rows \/ rows' = [rows EXCEPT ![op[a].name] = None]
      /\ lifeRows' = lifeRows \/ lifeRows' = [lifeRows EXCEPT ![op[a].name] = "permanent"]
      /\ UNCHANGED <<registry, doomed, stopping, history>>
  BY DEF Undo, DeleteRow, storage
<1>3. /\ \A o : Leasing(o)' = Leasing(o)
      /\ \A o, w : Tracking(o, w)' = Tracking(o, w)
  BY <1>1, Leases_Same DEF Moves, Leaves, Begins, Using, Idle
<1>4. /\ op[a].name \in Name /\ ~Present(op[a].name)
      /\ \A b \in Actor : b # a /\ op[b].at \in Reserving => op[b].name # op[a].name
  BY <1>1, Claims_Apart DEF Reserving, Making, Renamers
<1>5. Typed'
  BY <1>1, <1>2, <1>3, <1>4 DEF RInv, Typed, registry, storage, stopping, history, Present, Typed, Lives
<1>6. NamesAreClaimed'
  BY <1>1, <1>2, <1>3, <1>4 DEF RInv, Moves, Leaves, Begins, Sets, Only, NamesAreClaimed, Claims, Present, Reserving, Making, Renamers, Destroyers, Using, registry
<1>7. HoldersAreAlone'
  BY <1>1, <1>2, <1>3, <1>4 DEF RInv, Moves, Leaves, Begins, Sets, Only, HoldersAreAlone, Holds, Present, Renamers, Destroyers, registry
<1>8. ObjectsAreKept'
  BY <1>1, <1>2, <1>3, <1>4 DEF RInv, Moves, Leaves, Begins, Sets, Only, ObjectsAreKept, Present, Making, Registered, Creating, registry, history
<1>9. RowsFollow'
  BY <1>1, <1>2, Rows_Frame DEF RInv, Typed, Moves, Making, registry
<1>10. SweepIsComplete'
  BY <1>1, <1>2, <1>3, <1>4 DEF RInv, SweepIsComplete, Swept, registry, history, stopping
<1>11. LeasesAreCounted'
  BY <1>1, <1>2, <1>3, <1>4, Leases_Frame DEF Moves, Leaves, Begins, Only, Holds, Using, Destroyers, Renamers, registry
<1> QED BY <1>5, <1>6, <1>7, <1>8, <1>9, <1>10, <1>11 DEF RInv

(* The object it created is destroyed. *)
LEMMA Discard_RInv ==
    ASSUME RInv, NEW a \in Actor, Discard(a)
    PROVE  RInv'
<1>1. op[a].at = "discard" /\ Moves(a, "leaving") /\ op' \in [Actor -> Activity] /\ gone' = gone \cup {op[a].obj}
  BY Go_Moves DEF RInv, Discard, Stages
<1>2. UNCHANGED <<registry, storage, doomed, stopping, used, abandoned>>
  BY DEF Discard
<1>3. /\ \A o : Leasing(o)' = Leasing(o)
      /\ \A o, w : Tracking(o, w)' = Tracking(o, w)
  BY <1>1, Leases_Same DEF Moves, Leaves, Begins, Using, Idle
<1>4. Typed'
  BY <1>1, <1>2, <1>3 DEF RInv, Typed, registry, storage, stopping, history, Present, ObjectsAreKept, Making
<1>5. NamesAreClaimed'
  BY <1>1, <1>2, <1>3 DEF RInv, Moves, Leaves, Begins, Sets, Only, NamesAreClaimed, Claims, Present, Reserving, Making, Renamers, Destroyers, Using, registry
<1>6. HoldersAreAlone'
  BY <1>1, <1>2, <1>3 DEF RInv, Moves, Leaves, Begins, Sets, Only, HoldersAreAlone, Holds, Present, Renamers, Destroyers, registry
<1>7. ObjectsAreKept'
  BY <1>1, <1>2, <1>3 DEF RInv, Moves, Leaves, Begins, Sets, Only, ObjectsAreKept, Present, Making, Registered, Creating, registry, history
<1>8. RowsFollow'
  BY <1>1, <1>2, <1>3 DEF RInv, Moves, Leaves, Begins, Sets, Only, RowsFollow, Forgotten, Holds, Present, Renamers, Destroyers, registry, storage
<1>9. SweepIsComplete'
  BY <1>1, <1>2, <1>3 DEF RInv, SweepIsComplete, Swept, registry, history, stopping
<1>10. LeasesAreCounted'
  BY <1>1, <1>2, <1>3, Leases_Frame DEF Moves, Leaves, Begins, Only, Holds, Using, Destroyers, Renamers, registry
<1> QED BY <1>4, <1>5, <1>6, <1>7, <1>8, <1>9, <1>10 DEF RInv

(* The resource is registered, with an object that no other name has. *)
LEMMA Register_RInv ==
    ASSUME RInv, NEW a \in Actor, Register(a)
    PROVE  RInv'
<1> DEFINE new == [NoEntry EXCEPT !.obj = op[a].obj, !.open = TRUE, !.life = op[a].life]
<1>1. op[a].at = "register" /\ Moves(a, "leaving") /\ op' \in [Actor -> Activity]
  BY Go_Moves DEF RInv, Register, Stages
<1>2. UNCHANGED <<accepting, reserved, storage, doomed, stopping, history>>
  BY DEF Register
<1>3. /\ \A o : Leasing(o)' = Leasing(o)
      /\ \A o, w : Tracking(o, w)' = Tracking(o, w)
  BY <1>1, Leases_Same DEF Moves, Leaves, Begins, Using, Idle
<1>4. /\ op[a].name \in Name /\ ~Present(op[a].name)
      /\ \A b \in Actor : b # a /\ op[b].at \in Reserving => op[b].name # op[a].name
  BY <1>1, Claims_Apart DEF Reserving, Making, Renamers
<1>5. /\ new \in Entry /\ new.obj = op[a].obj /\ new.open
      /\ new.uses = 0 /\ new.users = [w \in Worker |-> 0]
      /\ op[a].obj \in used /\ op[a].obj # None
  <2>1. op[a] \in Activity /\ op[a].obj \in used /\ used \subseteq Object
    BY <1>1 DEF RInv, Typed, ObjectsAreKept, Making
  <2> QED BY <2>1, Constants_Facts, Count_Type DEF NoEntry, NoUsers, Entry, Counts, Activity, Lives
<1>6. Sets(op[a].name, new) /\ resources' \in [Name -> Entry]
  <2>1. Change(op[a].name, new)
    BY DEF Register
  <2> HIDE DEF new
  <2> QED BY <1>4, <1>5, <2>1, Change_Sets DEF RInv
<1>7. Leasing(op[a].obj) = {} /\ \A w : Tracking(op[a].obj, w) = {}
  BY <1>1, <1>5 DEF RInv, NamesAreClaimed, LeasesAreCounted, ObjectsAreKept, Leasing, Tracking, Using, Making
<1> HIDE DEF new
<1>8. Typed'
  BY <1>1, <1>2, <1>3, <1>4, <1>5, <1>6, <1>7 DEF RInv, Typed, registry, storage, stopping, history, Present, Sets
<1>9. NamesAreClaimed'
  BY <1>1, <1>2, <1>3, <1>4, <1>5, <1>6, <1>7 DEF RInv, Moves, Leaves, Begins, Sets, Only, NamesAreClaimed, Claims, Present, Reserving, Making, Renamers, Destroyers, Using, registry
<1>10. HoldersAreAlone'
  BY <1>1, <1>2, <1>3, <1>4, <1>5, <1>6, <1>7 DEF RInv, Moves, Leaves, Begins, Sets, Only, HoldersAreAlone, Holds, Present, Renamers, Destroyers, registry
<1>11. ObjectsAreKept'
  <2>0. op'[a].obj = op[a].obj
    BY <1>1 DEF Moves
  <2>1. Creating(op[a].obj) = {a} /\ Creating(op[a].obj)' = {} /\ \A q : q # op[a].obj => Creating(q)' = Creating(q)
    BY <1>1 DEF RInv, ObjectsAreKept, Moves, Only, Creating, Making
  <2>2. op[a].name \in Registered(op[a].obj)' /\ \A q : q # None => Registered(q) \subseteq Registered(q)'
    BY <1>4, <1>5, <1>6, <2>0 DEF Sets, Registered, Present
  <2>3. \A q \in used' : q \notin gone' \cup abandoned' => Registered(q)' \cup Creating(q)' # {}
    BY <1>2, <2>0, <2>1, <2>2, Constants_Facts DEF RInv, Typed, ObjectsAreKept, history
  <2> QED BY <1>1, <1>2, <1>4, <1>5, <1>6, <2>3 DEF RInv, Moves, Only, Sets, ObjectsAreKept, Present, Making, history
<1>12. RowsFollow'
  BY <1>1, <1>2, <1>3, <1>4, <1>5, <1>6, <1>7 DEF RInv, Moves, Leaves, Begins, Sets, Only, RowsFollow, Forgotten, Holds, Present, Renamers, Destroyers, registry, storage
<1>13. SweepIsComplete'
  BY <1>1, <1>2, <1>3, <1>4, <1>5, <1>6, <1>7 DEF RInv, SweepIsComplete, Swept, registry, history, stopping
<1>14. LeasesAreCounted'
  <2>1. \A b \in Actor : op[b].at \in Using => resources'[op[b].name].obj = op[b].obj
    BY <1>4, <1>6 DEF RInv, NamesAreClaimed, LeasesAreCounted, Sets, Present
  <2>2. ASSUME NEW n \in Name, NEW o \in Object, resources'[n].open, resources'[n].obj = o
        PROVE  /\ resources'[n].uses = Cardinality(Leasing(o))
               /\ \A w \in Worker : resources'[n].users[w] = Cardinality(Tracking(o, w))
    <3>1. CASE n = op[a].name
      BY <1>5, <1>6, <1>7, <2>2, <3>1, FS_EmptySet DEF Sets
    <3>2. CASE n # op[a].name
      BY <1>6, <2>2, <3>2 DEF RInv, LeasesAreCounted, Sets
    <3> QED BY <3>1, <3>2
  <2>3. Only(a) /\ \A n \in Name : ~Holds(a, n)'
    BY <1>1 DEF Moves, Holds, Destroyers, Renamers
  <2> QED BY <1>1, <2>1, <2>2, <2>3, Leases_Change DEF Moves, Using
<1> QED BY <1>8, <1>9, <1>10, <1>11, <1>12, <1>13, <1>14 DEF RInv

(* The reservation ends. *)
LEMMA FinishReservation_RInv ==
    ASSUME RInv, NEW a \in Actor, FinishReservation(a)
    PROVE  RInv'
<1>1. /\ op[a].at = "leaving" /\ reserved' = [reserved EXCEPT ![a] = NoName]
      /\ Leaves(a) /\ op' \in [Actor -> Activity]
  BY Return_Leaves DEF RInv, FinishReservation, GiveBack
<1>2. UNCHANGED <<accepting, resources, storage, doomed, stopping, history>>
  BY DEF FinishReservation
<1>3. /\ \A o : Leasing(o)' = Leasing(o)
      /\ \A o, w : Tracking(o, w)' = Tracking(o, w)
  BY <1>1, Leases_Same DEF Moves, Leaves, Begins, Using, Idle
<1>4. Typed'
  BY <1>1, <1>2, <1>3 DEF RInv, Typed, registry, storage, stopping, history, Present
<1>5. NamesAreClaimed'
  BY <1>1, <1>2, <1>3, Constants_Facts DEF RInv, Moves, Leaves, Begins, Sets, Only, NamesAreClaimed, Claims, Present, Reserving, Making, Renamers, Destroyers, Using, registry, Typed
<1>6. HoldersAreAlone'
  BY <1>1, <1>2, <1>3 DEF RInv, Moves, Leaves, Begins, Sets, Only, HoldersAreAlone, Holds, Present, Renamers, Destroyers, registry
<1>7. ObjectsAreKept'
  BY <1>1, <1>2, <1>3 DEF RInv, Moves, Leaves, Begins, Sets, Only, ObjectsAreKept, Present, Making, Registered, Creating, registry, history
<1>8. RowsFollow'
  BY <1>1, <1>2, <1>3 DEF RInv, Moves, Leaves, Begins, Sets, Only, RowsFollow, Forgotten, Holds, Present, Renamers, Destroyers, registry, storage
<1>9. SweepIsComplete'
  BY <1>1, <1>2, <1>3 DEF RInv, SweepIsComplete, Swept, registry, history, stopping, Typed
<1>10. LeasesAreCounted'
  BY <1>1, <1>2, <1>3, Leases_Frame DEF Moves, Leaves, Begins, Only, Holds, Using, Destroyers, Renamers, registry
<1> QED BY <1>4, <1>5, <1>6, <1>7, <1>8, <1>9, <1>10 DEF RInv

(* A caller acquires the resource, and is counted. *)
LEMMA Acquire_RInv ==
    ASSUME RInv, NEW c \in Caller, NEW n \in Name, NEW tracked \in BOOLEAN, Acquire(c, n, tracked)
    PROVE  RInv'
<1>1. PICK e \in Entry, o \in Object : e = resources[n] /\ o = e.obj /\ o \in used /\ o # None
  BY Present_Entry DEF Acquire
<1>2. PICK w \in Worker : w = WorkerOf[c]
  BY Constants_Facts
<1> DEFINE e2  == [e EXCEPT !.uses = @ + 1, !.users[w] = IF tracked THEN @ + 1 ELSE @]
           new == [Idle EXCEPT !.at = IF o \in Durable /\ e.life = "finite" THEN "refreshing" ELSE "using",
                               !.name = n, !.obj = o, !.life = e.life, !.tracked = tracked]
<1>3. c \in Actor /\ Present(n) /\ e.open /\ UNCHANGED <<accepting, reserved, storage, doomed, stopping, history>>
  BY <1>1, Constants_Facts DEF Acquire
<1>4. /\ e2 \in Entry /\ e2.obj = o /\ e2.open /\ e2.uses = e.uses + 1
      /\ \A v \in Worker : e2.users[v] = IF v = w /\ tracked THEN e.users[v] + 1 ELSE e.users[v]
  <2> DEFINE u == [e.users EXCEPT ![w] = IF tracked THEN @ + 1 ELSE @]
             k == e.uses + 1
  <2>0. e.users \in Counts /\ e.uses \in Nat /\ e.uses + 1 \in Count /\ \A v \in Worker : e.users[v] \in Nat /\ e.users[v] + 1 \in Count
    <3>1. e.uses \in Nat /\ e.users \in Counts /\ \A v \in Worker : e.users[v] \in Nat
      BY <1>1, Count_Type DEF Entry, Counts
    <3>2. e.uses = Cardinality(Leasing(o)) /\ \A v \in Worker : e.users[v] = Cardinality(Tracking(o, v))
      BY <1>1, <1>3, Open_Counts
    <3>3. Leasing(o) \subseteq Caller \ {c} /\ \A v : Tracking(o, v) \subseteq Caller \ {c}
      BY <1>3, Constants_Facts DEF RInv, LeasesAreCounted, Leasing, Tracking, Using, Acquire, Start, MayStart, Idle
    <3>4. IsFiniteSet(Caller \ {c}) /\ Cardinality(Caller \ {c}) = Cardinality(Caller) - 1
      BY ConstantsAssumption, FS_RemoveElement
    <3>5. \A X \in SUBSET (Caller \ {c}) : Cardinality(X) <= Cardinality(Caller) - 1
      BY <3>4, FS_Subset
    <3>6. e.uses <= Cardinality(Caller) - 1 /\ \A v \in Worker : e.users[v] <= Cardinality(Caller) - 1
      BY <3>2, <3>3, <3>5
    <3> QED BY <3>1, <3>6, Count_Type DEF Count
  <2>1. e \in Entry /\ e.users \in Counts /\ k \in Count
    BY <1>1, <2>0 DEF Entry
  <2>2. u \in Counts /\ \A v \in Worker : u[v] = IF v = w /\ tracked THEN e.users[v] + 1 ELSE e.users[v]
    BY <2>0 DEF Counts
  <2>3. e2 = [e EXCEPT !.uses = k, !.users = u]
    BY <2>1 DEF Entry, Counts
  <2> HIDE DEF u, e2, k
  <2>4. e2.obj = e.obj /\ e2.open = e.open /\ e2.uses = k /\ e2.users = u
    BY <2>1, <2>3 DEF Entry
  <2>5. e2 \in Entry
    BY <2>1, <2>2, <2>3, Entry_With
  <2> QED BY <1>1, <1>3, <2>2, <2>4, <2>5 DEF k
<1>5. new \in Activity /\ new.at \in {"refreshing", "using"} /\ new.name = n /\ new.obj = o /\ new.tracked = tracked
  BY Constants_Facts DEF Entry, Activity, Idle, Stages, Lives
<1>6. Sets(n, e2) /\ resources' \in [Name -> Entry]
  <2>1. Change(n, e2)
    BY <1>1, <1>2 DEF Acquire
  <2> HIDE DEF e2
  <2> QED BY <1>4, <2>1, Change_Sets DEF RInv
<1>7. Begins(c, new) /\ op' \in [Actor -> Activity] /\ op[c].at = "idle"
  <2>1. Start(c, new)
    BY <1>1 DEF Acquire
  <2> HIDE DEF new
  <2>2. Begins(c, new) /\ op' \in [Actor -> Activity]
    BY <1>3, <1>5, <2>1, Start_Begins DEF RInv
  <2> QED BY <2>2 DEF Begins, Idle
<1> HIDE DEF new, e2
<1>8. Typed'
  BY <1>1, <1>2, <1>3, <1>4, <1>5, <1>6, <1>7 DEF RInv, Typed, registry, storage, stopping, history, Present, Sets
<1>9. NamesAreClaimed'
  BY <1>1, <1>2, <1>3, <1>4, <1>5, <1>6, <1>7 DEF RInv, Moves, Leaves, Begins, Sets, Only, NamesAreClaimed, Claims, Present, Reserving, Making, Renamers, Destroyers, Using, registry
<1>10. HoldersAreAlone'
  BY <1>1, <1>2, <1>3, <1>4, <1>5, <1>6, <1>7 DEF RInv, Moves, Leaves, Begins, Sets, Only, HoldersAreAlone, Holds, Present, Renamers, Destroyers, registry
<1>11. ObjectsAreKept'
  BY <1>1, <1>2, <1>3, <1>4, <1>5, <1>6, <1>7 DEF RInv, Moves, Leaves, Begins, Sets, Only, ObjectsAreKept, Present, Making, Registered, Creating, registry, history
<1>12. RowsFollow'
  BY <1>1, <1>2, <1>3, <1>4, <1>5, <1>6, <1>7 DEF RInv, Moves, Leaves, Begins, Sets, Only, RowsFollow, Forgotten, Holds, Present, Renamers, Destroyers, registry, storage
<1>13. SweepIsComplete'
  BY <1>1, <1>2, <1>3, <1>4, <1>5, <1>6, <1>7 DEF RInv, SweepIsComplete, Swept, registry, history, stopping
<1>14. LeasesAreCounted'
  <2>1. c \notin Leasing(o) /\ \A v \in Worker : c \notin Tracking(o, v)
    BY <1>7 DEF Leasing, Tracking
  <2>2. /\ Leasing(o)' = Leasing(o) \cup {c}
        /\ \A v \in Worker : Tracking(o, v)' = IF v = w /\ tracked THEN Tracking(o, v) \cup {c} ELSE Tracking(o, v)
        /\ \A q : q # o => Leasing(q)' = Leasing(q) /\ \A v \in Worker : Tracking(q, v)' = Tracking(q, v)
    BY <1>2, <1>3, <1>5, <1>7 DEF Begins, Only, Leasing, Tracking
  <2>3. /\ Cardinality(Leasing(o)') = Cardinality(Leasing(o)) + 1
        /\ \A v \in Worker : Cardinality(Tracking(o, v)') =
             IF v = w /\ tracked THEN Cardinality(Tracking(o, v)) + 1 ELSE Cardinality(Tracking(o, v))
    <3>1. Cardinality(Leasing(o) \cup {c}) = Cardinality(Leasing(o)) + 1
      BY <2>1, Leases_Finite, FS_AddElement
    <3>2. \A v \in Worker : Cardinality(Tracking(o, v) \cup {c}) = Cardinality(Tracking(o, v)) + 1
      BY <2>1, Leases_Finite, FS_AddElement
    <3> QED BY <2>2, <3>1, <3>2
  <2>4. ASSUME NEW m \in Name, NEW q \in Object, resources'[m].open, resources'[m].obj = q
        PROVE  /\ resources'[m].uses = Cardinality(Leasing(q)')
               /\ \A v \in Worker : resources'[m].users[v] = Cardinality(Tracking(q, v)')
    <3>1. CASE m = n
      BY <1>1, <1>3, <1>4, <1>6, <2>3, <2>4, <3>1 DEF RInv, LeasesAreCounted, Sets
    <3>2. CASE m # n
      <4>1. q # o
        BY <1>1, <1>3, <1>6, <2>4, <3>2 DEF RInv, ObjectsAreKept, Sets, Present
      <4> QED BY <1>6, <2>2, <2>4, <3>2, <4>1 DEF RInv, LeasesAreCounted, Sets
    <3> QED BY <3>1, <3>2
  <2>5. \A b \in Actor : op'[b].at \in Using =>
          b \in Caller /\ op'[b].obj # None /\ resources'[op'[b].name].obj = op'[b].obj
    BY <1>1, <1>3, <1>4, <1>5, <1>6, <1>7 DEF RInv, NamesAreClaimed, LeasesAreCounted, Begins, Only, Sets, Using
  <2>6. ASSUME NEW b \in Actor, NEW m \in Name, NEW q \in Object, Holds(b, m)', op'[b].obj = q, NEW x \in Leasing(q)'
        PROVE  op'[b].at = "evicting" /\ WorkerOf[x] \in op'[b].evict
    <3>1. b # c /\ op'[b] = op[b] /\ Holds(b, m) /\ op[b].obj = q
      BY <1>5, <1>7, <2>6 DEF Begins, Only, Holds, Destroyers, Renamers
    <3>2. q # o
      BY <1>1, <1>3, <3>1 DEF RInv, HoldersAreAlone, ObjectsAreKept, Present
    <3> QED BY <2>2, <2>6, <3>1, <3>2 DEF RInv, LeasesAreCounted
  <2> QED BY <2>4, <2>5, <2>6 DEF LeasesAreCounted
<1> QED BY <1>8, <1>9, <1>10, <1>11, <1>12, <1>13, <1>14 DEF RInv

(* The lease renews the lifetime in storage. *)
LEMMA Refresh_RInv ==
    ASSUME RInv, NEW a \in Actor, Refresh(a)
    PROVE  RInv'
<1>1. PICK s \in {"using", "releasing"} :
        /\ op[a].at = "refreshing" /\ Go(a, s)
        /\ lifeRows' = [lifeRows EXCEPT ![op[a].name] = op[a].life] \/ lifeRows' = lifeRows
  BY DEF Refresh
<1>2. UNCHANGED <<registry, rows, doomed, stopping, history>>
  BY DEF Refresh
<1>3. Moves(a, s) /\ op' \in [Actor -> Activity]
  BY <1>1, Go_Moves DEF RInv, Stages
<1>4. Typed'
  BY <1>1, <1>2, <1>3 DEF RInv, Typed, registry, storage, stopping, history, Present, Activity
<1>5. NamesAreClaimed'
  BY <1>1, <1>2, <1>3 DEF RInv, Moves, Leaves, Begins, Sets, Only, NamesAreClaimed, Claims, Present, Reserving, Making, Renamers, Destroyers, Using, registry
<1>6. HoldersAreAlone'
  BY <1>1, <1>2, <1>3 DEF RInv, Moves, Leaves, Begins, Sets, Only, HoldersAreAlone, Holds, Present, Renamers, Destroyers, registry
<1>7. ObjectsAreKept'
  BY <1>1, <1>2, <1>3 DEF RInv, Moves, Leaves, Begins, Sets, Only, ObjectsAreKept, Present, Making, Registered, Creating, registry, history
<1>8. RowsFollow'
  BY <1>1, <1>2, <1>3 DEF RInv, Moves, Leaves, Begins, Sets, Only, RowsFollow, Forgotten, Holds, Present, Renamers, Destroyers, registry, storage
<1>9. SweepIsComplete'
  BY <1>1, <1>2, <1>3 DEF RInv, SweepIsComplete, Swept, registry, history, stopping
<1>10. LeasesAreCounted'
  BY <1>1, <1>2, <1>3, Leases_Frame DEF Moves, Leaves, Begins, Only, Holds, Using, Destroyers, Renamers, registry
<1> QED BY <1>4, <1>5, <1>6, <1>7, <1>8, <1>9, <1>10 DEF RInv

(* The use ends. *)
LEMMA UseEnds_RInv ==
    ASSUME RInv, NEW a \in Actor, UseEnds(a)
    PROVE  RInv'
<1>1. op[a].at = "using" /\ Moves(a, "releasing") /\ op' \in [Actor -> Activity]
  BY Go_Moves DEF RInv, UseEnds, Stages
<1>2. UNCHANGED <<registry, storage, doomed, stopping, history>>
  BY DEF UseEnds
<1>3. /\ \A o : Leasing(o)' = Leasing(o)
      /\ \A o, w : Tracking(o, w)' = Tracking(o, w)
  BY <1>1, Leases_Same DEF Moves, Leaves, Begins, Using, Idle
<1>4. Typed'
  BY <1>1, <1>2, <1>3 DEF RInv, Typed, registry, storage, stopping, history, Present
<1>5. NamesAreClaimed'
  BY <1>1, <1>2, <1>3 DEF RInv, Moves, Leaves, Begins, Sets, Only, NamesAreClaimed, Claims, Present, Reserving, Making, Renamers, Destroyers, Using, registry
<1>6. HoldersAreAlone'
  BY <1>1, <1>2, <1>3 DEF RInv, Moves, Leaves, Begins, Sets, Only, HoldersAreAlone, Holds, Present, Renamers, Destroyers, registry
<1>7. ObjectsAreKept'
  BY <1>1, <1>2, <1>3 DEF RInv, Moves, Leaves, Begins, Sets, Only, ObjectsAreKept, Present, Making, Registered, Creating, registry, history
<1>8. RowsFollow'
  BY <1>1, <1>2, <1>3 DEF RInv, Moves, Leaves, Begins, Sets, Only, RowsFollow, Forgotten, Holds, Present, Renamers, Destroyers, registry, storage
<1>9. SweepIsComplete'
  BY <1>1, <1>2, <1>3 DEF RInv, SweepIsComplete, Swept, registry, history, stopping
<1>10. LeasesAreCounted'
  BY <1>1, <1>2, <1>3, Leases_Frame DEF Moves, Leaves, Begins, Only, Holds, Using, Destroyers, Renamers, registry
<1> QED BY <1>4, <1>5, <1>6, <1>7, <1>8, <1>9, <1>10 DEF RInv

(* The caller is counted off, where the entry still is the one it acquired. *)
LEMMA ReleaseUser_RInv ==
    ASSUME RInv, NEW a \in Actor, ReleaseUser(a)
    PROVE  RInv'
<1> DEFINE n == op[a].name
           o == op[a].obj
<1>1. op[a].at = "releasing" /\ Leaves(a) /\ op' \in [Actor -> Activity]
  BY Return_Leaves DEF RInv, ReleaseUser
<1>2. UNCHANGED <<accepting, reserved, storage, doomed, stopping, history>>
  BY DEF ReleaseUser
<1>3. /\ n \in Name /\ o \in Object /\ o # None /\ a \in Caller
      /\ resources[n].obj = o /\ Present(n) /\ resources[n] \in Entry
  BY <1>1, Constants_Facts, Present_Entry DEF RInv, Typed, NamesAreClaimed, LeasesAreCounted, Using, Present
<1>4. PICK e \in Entry, w \in Worker : e = resources[n] /\ w = WorkerOf[a]
  BY <1>3, Constants_Facts
<1> DEFINE e2 == [e EXCEPT !.uses = Less(@), !.users[w] = IF op[a].tracked THEN Less(@) ELSE @]
<1>5. /\ e2 \in Entry /\ e2.obj = e.obj /\ e2.open = e.open /\ e2.uses = Less(e.uses)
      /\ \A v \in Worker : e2.users[v] = IF v = w /\ op[a].tracked THEN Less(e.users[v]) ELSE e.users[v]
  <2> DEFINE u == [e.users EXCEPT ![w] = IF op[a].tracked THEN Less(@) ELSE @]
             k == Less(e.uses)
  <2>0. \A x \in Count : Less(x) \in Count
    BY Count_Type DEF Count, Less
  <2>1. e \in Entry /\ e.users \in Counts /\ k \in Count
    BY <1>4, <2>0 DEF Entry
  <2>2. u \in Counts /\ \A v \in Worker : u[v] = IF v = w /\ op[a].tracked THEN Less(e.users[v]) ELSE e.users[v]
    BY <2>0, <2>1 DEF Counts
  <2>3. e2 = [e EXCEPT !.uses = k, !.users = u]
    BY <2>1 DEF Entry, Counts
  <2> HIDE DEF u, e2, k
  <2>4. e2.obj = e.obj /\ e2.open = e.open /\ e2.uses = k /\ e2.users = u
    BY <2>1, <2>3 DEF Entry
  <2>5. e2 \in Entry
    BY <2>1, <2>2, <2>3, Entry_With
  <2> QED BY <2>2, <2>4, <2>5 DEF k
<1>6. /\ e.open => Sets(n, e2)
      /\ ~e.open => resources' = resources
      /\ resources' \in [Name -> Entry]
  <2>1. CASE e.open
    <3>1. Change(n, e2)
      BY <1>3, <1>4, <2>1 DEF ReleaseUser
    <3> HIDE DEF e2
    <3> QED BY <1>3, <1>5, <2>1, <3>1, Change_Sets DEF RInv
  <2>2. CASE ~e.open
    <3>1. resources' = resources
      BY <1>4, <2>2 DEF ReleaseUser
    <3> QED BY <2>2, <3>1 DEF RInv, Typed
  <2> QED BY <2>1, <2>2
<1>7. \A m \in Name : resources'[m].obj = resources[m].obj /\ resources'[m].open = resources[m].open
  BY <1>4, <1>5, <1>6 DEF Sets
<1> HIDE DEF e2
<1>8. Typed'
  BY <1>1, <1>2, <1>3, <1>4, <1>5, <1>6, <1>7 DEF RInv, Typed, registry, storage, stopping, history, Present
<1>9. NamesAreClaimed'
  BY <1>1, <1>2, <1>3, <1>4, <1>5, <1>6, <1>7 DEF RInv, Moves, Leaves, Begins, Sets, Only, NamesAreClaimed, Claims, Present, Reserving, Making, Renamers, Destroyers, Using, registry
<1>10. HoldersAreAlone'
  BY <1>1, <1>2, <1>3, <1>4, <1>5, <1>6, <1>7 DEF RInv, Moves, Leaves, Begins, Sets, Only, HoldersAreAlone, Holds, Present, Renamers, Destroyers, registry
<1>11. ObjectsAreKept'
  BY <1>1, <1>2, <1>3, <1>4, <1>5, <1>6, <1>7 DEF RInv, Moves, Leaves, Begins, Sets, Only, ObjectsAreKept, Present, Making, Registered, Creating, registry, history
<1>12. RowsFollow'
  BY <1>1, <1>2, <1>3, <1>4, <1>5, <1>6, <1>7 DEF RInv, Moves, Leaves, Begins, Sets, Only, RowsFollow, Forgotten, Holds, Present, Renamers, Destroyers, registry, storage
<1>13. SweepIsComplete'
  BY <1>1, <1>2, <1>3, <1>4, <1>5, <1>6, <1>7 DEF RInv, SweepIsComplete, Swept, registry, history, stopping
<1>14. LeasesAreCounted'
  <2>0. PICK q \in Object : q = o
    BY <1>3
  <2>1. a \in Leasing(q) /\ \A v \in Worker : a \in Tracking(q, v) <=> v = w /\ op[a].tracked
    BY <1>1, <1>3, <1>4, <2>0, Constants_Facts DEF Leasing, Tracking
  <2>2. /\ Leasing(q)' = Leasing(q) \ {a}
        /\ \A v \in Worker : Tracking(q, v)' = Tracking(q, v) \ {a}
        /\ \A x \in Object : x # q => Leasing(x)' = Leasing(x) /\ \A v \in Worker : Tracking(x, v)' = Tracking(x, v)
    BY <1>1, <2>0, Constants_Facts DEF Leaves, Only, Leasing, Tracking
  <2>3. /\ Cardinality(Leasing(q)') = Cardinality(Leasing(q)) - 1 /\ Cardinality(Leasing(q)) \in Nat \ {0}
        /\ \A v \in Worker : Cardinality(Tracking(q, v)') =
             IF v = w /\ op[a].tracked THEN Cardinality(Tracking(q, v)) - 1 ELSE Cardinality(Tracking(q, v))
        /\ op[a].tracked => Cardinality(Tracking(q, w)) \in Nat \ {0}
    <3>1. Cardinality(Leasing(q) \ {a}) = Cardinality(Leasing(q)) - 1 /\ Cardinality(Leasing(q)) \in Nat \ {0}
      BY <2>1, Leases_Finite, FS_RemoveElement, FS_EmptySet
    <3>2. \A v \in Worker : Cardinality(Tracking(q, v) \ {a}) =
            IF v = w /\ op[a].tracked THEN Cardinality(Tracking(q, v)) - 1 ELSE Cardinality(Tracking(q, v))
      BY <2>1, Leases_Finite, FS_RemoveElement
    <3>3. op[a].tracked => Cardinality(Tracking(q, w)) \in Nat \ {0}
      BY <1>4, <2>1, Leases_Finite, FS_EmptySet
    <3> QED BY <2>2, <3>1, <3>2, <3>3
  <2>4. ASSUME NEW m \in Name, NEW x \in Object, resources'[m].open, resources'[m].obj = x
        PROVE  /\ resources'[m].uses = Cardinality(Leasing(x)')
               /\ \A v \in Worker : resources'[m].users[v] = Cardinality(Tracking(x, v)')
    <3>0. resources[m].open /\ resources[m].obj = x
      BY <1>7, <2>4
    <3>1. CASE m = n
      <4>1. x = q /\ e.open /\ Sets(n, e2)
        BY <1>3, <1>4, <1>6, <2>0, <3>0, <3>1
      <4>2. e.uses = Cardinality(Leasing(q)) /\ \A v \in Worker : e.users[v] = Cardinality(Tracking(q, v))
        BY <1>3, <1>4, <2>0, <4>1 DEF RInv, LeasesAreCounted
      <4>3. e2.uses = Cardinality(Leasing(q)')
        BY <1>5, <2>3, <4>2 DEF Less
      <4>4. \A v \in Worker : e2.users[v] = Cardinality(Tracking(q, v)')
        BY <1>4, <1>5, <2>3, <4>2 DEF Less
      <4> QED BY <3>1, <4>1, <4>3, <4>4 DEF Sets
    <3>2. CASE m # n
      <4>1. x # q
        BY <1>3, <2>0, <3>0, <3>2 DEF RInv, ObjectsAreKept
      <4>2. resources'[m] = resources[m]
        BY <1>6, <3>2 DEF Sets
      <4> QED BY <2>2, <3>0, <4>1, <4>2 DEF RInv, LeasesAreCounted
    <3> QED BY <3>1, <3>2
  <2>5. \A b \in Actor : op'[b].at \in Using =>
          b \in Caller /\ op'[b].obj # None /\ resources'[op'[b].name].obj = op'[b].obj
    BY <1>1, <1>7 DEF RInv, NamesAreClaimed, LeasesAreCounted, Leaves, Only, Using
  <2>6. ASSUME NEW b \in Actor, NEW m \in Name, NEW x \in Object, Holds(b, m)', op'[b].obj = x, NEW y \in Leasing(x)'
        PROVE  op'[b].at = "evicting" /\ WorkerOf[y] \in op'[b].evict
    <3>1. b # a /\ op'[b] = op[b] /\ Holds(b, m) /\ op[b].obj = x /\ y \in Leasing(x)
      BY <1>1, <2>2, <2>6 DEF Leaves, Only, Holds, Destroyers, Renamers
    <3> QED BY <3>1 DEF RInv, LeasesAreCounted
  <2> QED BY <2>4, <2>5, <2>6 DEF LeasesAreCounted
<1> QED BY <1>8, <1>9, <1>10, <1>11, <1>12, <1>13, <1>14 DEF RInv

(* A worker is cancelled to evict its uses. *)
LEMMA EvictUser_RInv ==
    ASSUME RInv, NEW a \in Actor, EvictUser(a)
    PROVE  RInv'
<1>1. op[a].at = "evicting" /\ op[a] \in Activity /\ UNCHANGED <<registry, storage, stopping, history>>
  BY DEF EvictUser, RInv, Typed
<1>2. PICK w \in op[a].evict :
        \/ Over(w) /\ op' = [op EXCEPT ![a].evict = @ \ {w}] /\ UNCHANGED doomed
        \/ Throw(w) /\ UNCHANGED op
  BY DEF EvictUser
<1>3. w \in Worker /\ doomed' \subseteq Worker
  BY <1>1, <1>2 DEF Activity, RInv, Typed, Throw
<1>4. /\ Only(a) /\ op' \in [Actor -> Activity] /\ op'[a].at = "evicting"
      /\ op'[a].name = op[a].name /\ op'[a].to = op[a].to /\ op'[a].obj = op[a].obj
      /\ op'[a].tracked = op[a].tracked
      /\ op'[a].evict = op[a].evict \/ (op'[a].evict = op[a].evict \ {w} /\ Over(w))
  <2> DEFINE new == [op[a] EXCEPT !.evict = @ \ {w}]
  <2>1. CASE Over(w) /\ op' = [op EXCEPT ![a].evict = @ \ {w}]
    <3>1. /\ new \in Activity /\ new.at = "evicting" /\ new.name = op[a].name /\ new.to = op[a].to
          /\ new.obj = op[a].obj /\ new.tracked = op[a].tracked /\ new.evict = op[a].evict \ {w}
      BY <1>1 DEF Activity
    <3>2. op' = [op EXCEPT ![a] = new]
      BY <2>1
    <3> HIDE DEF new
    <3> QED BY <2>1, <3>1, <3>2, Update_Op DEF RInv
  <2>2. CASE UNCHANGED op
    <3>1. op' = op /\ op \in [Actor -> Activity]
      BY <2>2 DEF RInv, Typed
    <3>2. Only(a) /\ op'[a] = op[a]
      BY <3>1 DEF Only
    <3> QED BY <1>1, <3>1, <3>2
  <2> QED BY <1>2, <2>1, <2>2
<1>5. Typed'
  BY <1>1, <1>2, <1>3, <1>4 DEF RInv, Typed, registry, storage, stopping, history, Present
<1>6. NamesAreClaimed'
  BY <1>1, <1>2, <1>3, <1>4 DEF RInv, Moves, Leaves, Begins, Sets, Only, NamesAreClaimed, Claims, Present, Reserving, Making, Renamers, Destroyers, Using, registry
<1>7. HoldersAreAlone'
  BY <1>1, <1>2, <1>3, <1>4 DEF RInv, Moves, Leaves, Begins, Sets, Only, HoldersAreAlone, Holds, Present, Renamers, Destroyers, registry
<1>8. ObjectsAreKept'
  BY <1>1, <1>2, <1>3, <1>4 DEF RInv, Moves, Leaves, Begins, Sets, Only, ObjectsAreKept, Present, Making, Registered, Creating, registry, history
<1>9. RowsFollow'
  BY <1>1, <1>2, <1>3, <1>4 DEF RInv, Moves, Leaves, Begins, Sets, Only, RowsFollow, Forgotten, Holds, Present, Renamers, Destroyers, registry, storage
<1>10. SweepIsComplete'
  BY <1>1, <1>2, <1>3, <1>4 DEF RInv, SweepIsComplete, Swept, registry, history, stopping
<1>11. LeasesAreCounted'
  <2>1. \A b \in Actor : op[b].at \in Using => resources'[op[b].name].obj = op[b].obj
    BY <1>1 DEF RInv, LeasesAreCounted, registry
  <2>2. \A n \in Name, q \in Object : resources'[n].open /\ resources'[n].obj = q =>
          /\ resources'[n].uses = Cardinality(Leasing(q))
          /\ \A v \in Worker : resources'[n].users[v] = Cardinality(Tracking(q, v))
    BY <1>1 DEF RInv, LeasesAreCounted, registry
  <2>3. ASSUME NEW n \in Name, NEW q \in Object, Holds(a, n)', op'[a].obj = q, NEW x \in Leasing(q)
        PROVE  op'[a].at = "evicting" /\ WorkerOf[x] \in op'[a].evict
    <3>1. Holds(a, n) /\ op[a].obj = q
      BY <1>1, <1>4, <2>3 DEF Holds, Destroyers, Renamers
    <3>2. WorkerOf[x] \in op[a].evict
      BY <3>1 DEF RInv, LeasesAreCounted
    <3>3. Over(w) => WorkerOf[x] # w
      BY DEF Over, Leasing
    <3> QED BY <1>4, <3>2, <3>3
  <2> QED BY <1>1, <1>4, <2>1, <2>2, <2>3, Leases_Change DEF Using
<1> QED BY <1>5, <1>6, <1>7, <1>8, <1>9, <1>10, <1>11 DEF RInv

(* All users are gone: the entry has no leases, and the cleanup may run. *)
LEMMA Evicted_RInv ==
    ASSUME RInv, NEW a \in Actor, Evicted(a)
    PROVE  RInv'
<1>1. op[a].at = "evicting" /\ op[a].evict = {} /\ Moves(a, "cleaning") /\ op' \in [Actor -> Activity]
  BY Go_Moves DEF RInv, Evicted, Stages
<1>2. UNCHANGED <<registry, storage, doomed, stopping, history>>
  BY DEF Evicted
<1>3. Typed'
  BY <1>1, <1>2 DEF RInv, Typed, registry, storage, stopping, history, Present
<1>4. NamesAreClaimed'
  BY <1>1, <1>2 DEF RInv, Moves, Leaves, Begins, Sets, Only, NamesAreClaimed, Claims, Present, Reserving, Making, Renamers, Destroyers, Using, registry
<1>5. HoldersAreAlone'
  BY <1>1, <1>2 DEF RInv, Moves, Leaves, Begins, Sets, Only, HoldersAreAlone, Holds, Present, Renamers, Destroyers, registry
<1>6. ObjectsAreKept'
  BY <1>1, <1>2 DEF RInv, Moves, Leaves, Begins, Sets, Only, ObjectsAreKept, Present, Making, Registered, Creating, registry, history
<1>7. RowsFollow'
  BY <1>1, <1>2 DEF RInv, Moves, Leaves, Begins, Sets, Only, RowsFollow, Forgotten, Holds, Present, Renamers, Destroyers, registry, storage
<1>8. SweepIsComplete'
  BY <1>1, <1>2 DEF RInv, SweepIsComplete, Swept, registry, history, stopping
<1>9. LeasesAreCounted'
  <2>1. \A b \in Actor : op[b].at \in Using => resources'[op[b].name].obj = op[b].obj
    BY <1>2 DEF RInv, LeasesAreCounted, registry
  <2>2. \A n \in Name, q \in Object : resources'[n].open /\ resources'[n].obj = q =>
          /\ resources'[n].uses = Cardinality(Leasing(q))
          /\ \A v \in Worker : resources'[n].users[v] = Cardinality(Tracking(q, v))
    BY <1>2 DEF RInv, LeasesAreCounted, registry
  <2>3. ASSUME NEW n \in Name, NEW q \in Object, Holds(a, n)', op'[a].obj = q
        PROVE  Leasing(q) = {}
    <3>1. Holds(a, n) /\ op[a].obj = q
      BY <1>1, <2>3 DEF Moves, Holds, Destroyers, Renamers
    <3> QED BY <1>1, <3>1 DEF RInv, LeasesAreCounted
  <2> QED BY <1>1, <2>1, <2>2, <2>3, Leases_Change DEF Moves, Using
<1> QED BY <1>3, <1>4, <1>5, <1>6, <1>7, <1>8, <1>9 DEF RInv

(* The object is destroyed: nobody uses it. *)
LEMMA Cleanup_RInv ==
    ASSUME RInv, NEW a \in Actor, Cleanup(a)
    PROVE  RInv'
<1>1. PICK s \in {"erasing", "removing", "restoring"} :
        op[a].at = "cleaning" /\ Go(a, s) /\ (s = "removing" => op[a].obj \notin Durable)
  BY DEF Cleanup
<1>2. UNCHANGED <<registry, storage, doomed, stopping, history>>
  BY DEF Cleanup
<1>3. Moves(a, s) /\ op' \in [Actor -> Activity]
  BY <1>1, Go_Moves DEF RInv, Stages
<1>4. Typed'
  BY <1>1, <1>2, <1>3 DEF RInv, Typed, registry, storage, stopping, history, Present
<1>5. NamesAreClaimed'
  BY <1>1, <1>2, <1>3 DEF RInv, Moves, Leaves, Begins, Sets, Only, NamesAreClaimed, Claims, Present, Reserving, Making, Renamers, Destroyers, Using, registry
<1>6. HoldersAreAlone'
  BY <1>1, <1>2, <1>3 DEF RInv, Moves, Leaves, Begins, Sets, Only, HoldersAreAlone, Holds, Present, Renamers, Destroyers, registry
<1>7. ObjectsAreKept'
  BY <1>1, <1>2, <1>3 DEF RInv, Moves, Leaves, Begins, Sets, Only, ObjectsAreKept, Present, Making, Registered, Creating, registry, history
<1>8. RowsFollow'
  BY <1>1, <1>2, <1>3 DEF RInv, Moves, Leaves, Begins, Sets, Only, RowsFollow, Forgotten, Holds, Present, Renamers, Destroyers, registry, storage
<1>9. SweepIsComplete'
  BY <1>1, <1>2, <1>3 DEF RInv, SweepIsComplete, Swept, registry, history, stopping
<1>10. LeasesAreCounted'
  BY <1>1, <1>2, <1>3, Leases_Frame DEF Moves, Leaves, Begins, Only, Holds, Using, Destroyers, Renamers, registry
<1> QED BY <1>4, <1>5, <1>6, <1>7, <1>8, <1>9, <1>10 DEF RInv

(* The destroyed resource leaves storage. *)
LEMMA DeleteResource_RInv ==
    ASSUME RInv, NEW a \in Actor, DeleteResource(a)
    PROVE  RInv'
<1>1. PICK s \in {"removing", "restoring"} :
        /\ op[a].at = "erasing" /\ Go(a, s)
        /\ s = "removing" => DeleteRow(op[a].name)
        /\ s = "restoring" => UNCHANGED storage
  BY DEF DeleteResource
<1>2. UNCHANGED <<registry, doomed, stopping, history>>
  BY DEF DeleteResource
<1>3. Moves(a, s) /\ op' \in [Actor -> Activity]
  BY <1>1, Go_Moves DEF RInv, Stages
<1>4. Holds(a, op[a].name) /\ op[a].name \in Name
  BY <1>1 DEF Holds, RInv, NamesAreClaimed, Destroyers
<1>5. \A b \in Actor : op[b].at \in Reserving => op[b].name # op[a].name
  BY <1>4, Holds_Apart
<1>6. /\ rows' \in [Name -> Object \cup {None}] /\ lifeRows' \in [Name -> Lives]
      /\ \A n \in Name : n # op[a].name => rows'[n] = rows[n]
      /\ s = "restoring" => rows' = rows
  BY <1>1, <1>4 DEF RInv, Typed, DeleteRow, storage, Lives
<1>7. Typed'
  BY <1>1, <1>2, <1>3, <1>4, <1>5, <1>6 DEF RInv, Typed, registry, storage, stopping, history, Present
<1>8. NamesAreClaimed'
  BY <1>1, <1>2, <1>3, <1>4, <1>5, <1>6 DEF RInv, Moves, Leaves, Begins, Sets, Only, NamesAreClaimed, Claims, Present, Reserving, Making, Renamers, Destroyers, Using, registry
<1>9. HoldersAreAlone'
  BY <1>1, <1>2, <1>3, <1>4, <1>5, <1>6 DEF RInv, Moves, Leaves, Begins, Sets, Only, HoldersAreAlone, Holds, Present, Renamers, Destroyers, registry
<1>10. ObjectsAreKept'
  BY <1>1, <1>2, <1>3, <1>4, <1>5, <1>6 DEF RInv, Moves, Leaves, Begins, Sets, Only, ObjectsAreKept, Present, Making, Registered, Creating, registry, history
<1>11. RowsFollow'
  <2>1. \A n \in Name : Present(n)' /\ resources'[n].obj \in Durable =>
          \/ rows'[n] = resources'[n].obj
          \/ \E b \in Actor : Holds(b, n)' /\ op'[b].at \in {"removing", "renaming", "unrenaming", "unnaming"}
          \/ Forgotten(n)'
    <3>0. \A n \in Name : Forgotten(n) => Forgotten(n)'
      BY <1>1, <1>2, <1>3 DEF Forgotten, Moves, Only, Holds, Destroyers, Renamers, registry
    <3>1. CASE s = "removing"
      <4>1. Holds(a, op[a].name)'
        BY <1>3, <3>1 DEF Moves, Holds, Destroyers
      <4>2. \A b \in Actor, n \in Name : b # a => (Holds(b, n)' <=> Holds(b, n)) /\ op'[b] = op[b]
        BY <1>3 DEF Moves, Only, Holds
      <4> QED BY <1>1, <1>2, <1>3, <1>4, <1>6, <3>0, <3>1, <4>1, <4>2, Holds_Apart DEF RInv, RowsFollow, Moves, Present, registry, Holds
    <3>2. CASE s = "restoring"
      BY <1>1, <1>2, <1>3, <1>6, <3>0, <3>2 DEF RInv, RowsFollow, Moves, Only, Holds, Present, registry, Destroyers, Renamers
    <3> QED BY <3>1, <3>2
  <2>2. \A b \in Actor : op'[b].obj \in Durable /\ op'[b].at \in {"setting", "register", "renaming", "unrenaming", "unnaming"}
          => rows'[op'[b].name] = op'[b].obj
    BY <1>1, <1>3, <1>5, <1>6 DEF RInv, RowsFollow, Forgotten, NamesAreClaimed, Moves, Only, Reserving, Making, Renamers
  <2>3. \A b \in Actor : op'[b].at \in {"saving", "setting", "undo", "renaming", "unrenaming", "unnaming"} => op'[b].obj \in Durable
    BY <1>3 DEF RInv, RowsFollow, Forgotten, Moves, Only
  <2> QED BY <2>1, <2>2, <2>3 DEF RowsFollow, Forgotten
<1>12. SweepIsComplete'
  BY <1>1, <1>2, <1>3, <1>4, <1>5, <1>6 DEF RInv, SweepIsComplete, Swept, registry, history, stopping
<1>13. LeasesAreCounted'
  BY <1>1, <1>2, <1>3, <1>4, <1>5, <1>6, Leases_Frame DEF Moves, Leaves, Begins, Only, Holds, Using, Destroyers, Renamers, registry
<1> QED BY <1>7, <1>8, <1>9, <1>10, <1>11, <1>12, <1>13 DEF RInv

(* The lifetime of a restored entry is renewed in storage. *)
LEMMA ResetLifetime_RInv ==
    ASSUME RInv, NEW a \in Actor, ResetLifetime(a)
    PROVE  RInv'
<1>1. op[a].at = "resetting" /\ Leaves(a) /\ op' \in [Actor -> Activity]
  BY Return_Leaves DEF RInv, ResetLifetime
<1>2. /\ UNCHANGED <<registry, rows, doomed, stopping, history>>
      /\ lifeRows' = [lifeRows EXCEPT ![op[a].name] = op[a].life] \/ lifeRows' = lifeRows
  BY DEF ResetLifetime
<1>3. Typed'
  BY <1>1, <1>2 DEF RInv, Typed, registry, storage, stopping, history, Present, Activity
<1>4. NamesAreClaimed'
  BY <1>1, <1>2 DEF RInv, Moves, Leaves, Begins, Sets, Only, NamesAreClaimed, Claims, Present, Reserving, Making, Renamers, Destroyers, Using, registry
<1>5. HoldersAreAlone'
  BY <1>1, <1>2 DEF RInv, Moves, Leaves, Begins, Sets, Only, HoldersAreAlone, Holds, Present, Renamers, Destroyers, registry
<1>6. ObjectsAreKept'
  BY <1>1, <1>2 DEF RInv, Moves, Leaves, Begins, Sets, Only, ObjectsAreKept, Present, Making, Registered, Creating, registry, history
<1>7. RowsFollow'
  BY <1>1, <1>2 DEF RInv, Moves, Leaves, Begins, Sets, Only, RowsFollow, Forgotten, Holds, Present, Renamers, Destroyers, registry, storage
<1>8. SweepIsComplete'
  BY <1>1, <1>2 DEF RInv, SweepIsComplete, Swept, registry, history, stopping
<1>9. LeasesAreCounted'
  BY <1>1, <1>2, Leases_Frame DEF Moves, Leaves, Begins, Only, Holds, Using, Destroyers, Renamers, registry
<1> QED BY <1>3, <1>4, <1>5, <1>6, <1>7, <1>8, <1>9 DEF RInv

(* A changed lifetime is written, or is to be changed back. *)
LEMMA PersistLifetime_RInv ==
    ASSUME RInv, NEW a \in Actor, PersistLifetime(a)
    PROVE  RInv'
<1>1. /\ op[a].at = "updating" /\ Only(a) /\ op' \in [Actor -> Activity]
      /\ \/ op'[a].at \in {"idle", "dead"} /\ op'[a].obj = None /\ op'[a].name = NoName /\ op'[a].to = NoName
         \/ op'[a].at = "rollback" /\ op'[a].obj = op[a].obj /\ op'[a].name = op[a].name /\ op'[a].to = op[a].to
      /\ lifeRows' = [lifeRows EXCEPT ![op[a].name] = op[a].life] \/ lifeRows' = lifeRows
  <2>1. CASE Return(a)
    BY <2>1, Return_Leaves DEF RInv, PersistLifetime, Leaves
  <2>2. CASE Go(a, "rollback")
    <3>1. Moves(a, "rollback") /\ op' \in [Actor -> Activity]
      BY <2>2, Go_Moves DEF RInv, Stages
    <3> QED BY <3>1 DEF Moves, PersistLifetime
  <2> QED BY <2>1, <2>2 DEF PersistLifetime
<1>2. UNCHANGED <<registry, rows, doomed, stopping, history>>
  BY DEF PersistLifetime
<1>3. Typed'
  BY <1>1, <1>2 DEF RInv, Typed, registry, storage, stopping, history, Present, Activity
<1>4. NamesAreClaimed'
  BY <1>1, <1>2 DEF RInv, Moves, Leaves, Begins, Sets, Only, NamesAreClaimed, Claims, Present, Reserving, Making, Renamers, Destroyers, Using, registry
<1>5. HoldersAreAlone'
  BY <1>1, <1>2 DEF RInv, Moves, Leaves, Begins, Sets, Only, HoldersAreAlone, Holds, Present, Renamers, Destroyers, registry
<1>6. ObjectsAreKept'
  BY <1>1, <1>2 DEF RInv, Moves, Leaves, Begins, Sets, Only, ObjectsAreKept, Present, Making, Registered, Creating, registry, history
<1>7. RowsFollow'
  BY <1>1, <1>2 DEF RInv, Moves, Leaves, Begins, Sets, Only, RowsFollow, Forgotten, Holds, Present, Renamers, Destroyers, registry, storage
<1>8. SweepIsComplete'
  BY <1>1, <1>2 DEF RInv, SweepIsComplete, Swept, registry, history, stopping
<1>9. LeasesAreCounted'
  BY <1>1, <1>2, Leases_Frame DEF Moves, Leaves, Begins, Only, Holds, Using, Destroyers, Renamers, registry
<1> QED BY <1>3, <1>4, <1>5, <1>6, <1>7, <1>8, <1>9 DEF RInv

(* A worker is cancelled. *)
LEMMA Cancel_RInv ==
    ASSUME RInv, NEW c \in Caller, NEW w \in Worker, Cancel(c, w)
    PROVE  RInv'
<1>1. op' = op /\ UNCHANGED <<registry, storage, stopping, history>> /\ doomed' = doomed \cup {w}
  BY DEF Cancel
<1>2. Typed'
  BY <1>1 DEF RInv, Typed, registry, storage, stopping, history, Present
<1>3. NamesAreClaimed'
  BY <1>1 DEF RInv, NamesAreClaimed, Claims, Present, registry
<1>4. HoldersAreAlone'
  BY <1>1 DEF RInv, HoldersAreAlone, Holds, Present, registry
<1>5. ObjectsAreKept'
  BY <1>1 DEF RInv, ObjectsAreKept, Present, Registered, Creating, registry, history
<1>6. RowsFollow'
  BY <1>1 DEF RInv, RowsFollow, Forgotten, Holds, Present, registry, storage
<1>7. SweepIsComplete'
  BY <1>1 DEF RInv, SweepIsComplete, Swept, registry, history, stopping
<1>8. LeasesAreCounted'
  <2>1. op' = op /\ resources' = resources
    BY <1>1 DEF registry
  <2> QED BY <2>1 DEF RInv, LeasesAreCounted, Leasing, Tracking, Holds
<1> QED BY <1>2, <1>3, <1>4, <1>5, <1>6, <1>7, <1>8 DEF RInv

(* The inner program ends, and the monitor is cancelled. *)
LEMMA InnerEnds_RInv ==
    ASSUME RInv, InnerEnds
    PROVE  RInv'
<1>1. op' = op /\ UNCHANGED <<registry, storage, left, history>> /\ doomed' \subseteq Worker /\ main' = "join" /\ main = "inner"
  BY DEF InnerEnds, RInv, Typed, Worker, Actor
<1>2. Typed'
  BY <1>1 DEF RInv, Typed, registry, storage, stopping, history, Present
<1>3. NamesAreClaimed'
  BY <1>1 DEF RInv, NamesAreClaimed, Claims, Present, registry
<1>4. HoldersAreAlone'
  BY <1>1 DEF RInv, HoldersAreAlone, Holds, Present, registry
<1>5. ObjectsAreKept'
  BY <1>1 DEF RInv, ObjectsAreKept, Present, Registered, Creating, registry, history
<1>6. RowsFollow'
  BY <1>1 DEF RInv, RowsFollow, Forgotten, Holds, Present, registry, storage
<1>7. SweepIsComplete'
  BY <1>1 DEF RInv, SweepIsComplete, Swept, registry, history, stopping
<1>8. LeasesAreCounted'
  <2>1. op' = op /\ resources' = resources
    BY <1>1 DEF registry
  <2> QED BY <2>1 DEF RInv, LeasesAreCounted, Leasing, Tracking, Holds
<1> QED BY <1>2, <1>3, <1>4, <1>5, <1>6, <1>7, <1>8 DEF RInv

(* The shutdown begins. *)
LEMMA StopAccepting_RInv ==
    ASSUME RInv, StopAccepting
    PROVE  RInv'
<1>1. op' = op /\ UNCHANGED <<resources, reserved, storage, doomed, left, history>> /\ accepting' = FALSE /\ main' = "gates" /\ main = "join"
  BY DEF StopAccepting
<1>2. Typed'
  BY <1>1 DEF RInv, Typed, registry, storage, stopping, history, Present
<1>3. NamesAreClaimed'
  BY <1>1 DEF RInv, NamesAreClaimed, Claims, Present, registry
<1>4. HoldersAreAlone'
  BY <1>1 DEF RInv, HoldersAreAlone, Holds, Present, registry
<1>5. ObjectsAreKept'
  BY <1>1 DEF RInv, ObjectsAreKept, Present, Registered, Creating, registry, history
<1>6. RowsFollow'
  BY <1>1 DEF RInv, RowsFollow, Forgotten, Holds, Present, registry, storage
<1>7. SweepIsComplete'
  BY <1>1 DEF RInv, SweepIsComplete, Swept, registry, history, stopping
<1>8. LeasesAreCounted'
  <2>1. op' = op /\ resources' = resources
    BY <1>1 DEF registry
  <2> QED BY <2>1 DEF RInv, LeasesAreCounted, Leasing, Tracking, Holds
<1> QED BY <1>2, <1>3, <1>4, <1>5, <1>6, <1>7, <1>8 DEF RInv

(* The shutdown cancels a user. *)
LEMMA SweepUser_RInv ==
    ASSUME RInv, NEW r \in left, SweepUser(r)
    PROVE  RInv'
<1>1. op' = op /\ UNCHANGED <<registry, storage, main, history>> /\ main = "sweep"
  BY DEF SweepUser
<1>2. PICK w \in r.users :
        \/ left' = (left \ {r}) \cup {[r EXCEPT !.users = @ \ {w}]} /\ UNCHANGED doomed
        \/ Throw(w) /\ UNCHANGED left
  BY DEF SweepUser
<1>3. r \in [obj : Object, users : SUBSET Worker] /\ w \in Worker
  BY <1>2 DEF RInv, Typed
<1>4. doomed' \subseteq Worker
  BY <1>2, <1>3 DEF RInv, Typed, Throw
<1>5. PICK s : s \in [obj : Object, users : SUBSET Worker] /\ s.obj = r.obj /\ s = [r EXCEPT !.users = @ \ {w}]
  BY <1>3
<1>6. left' = (left \ {r}) \cup {s} \/ left' = left
  BY <1>2, <1>5
<1>7. /\ left' \subseteq [obj : Object, users : SUBSET Worker]
      /\ \A t \in left : \E u \in left' : u.obj = t.obj
      /\ \A t \in left' : \E u \in left : u.obj = t.obj
  BY <1>5, <1>6 DEF RInv, Typed
<1>8. Typed'
  BY <1>1, <1>2, <1>3, <1>4, <1>5, <1>6, <1>7 DEF RInv, Typed, registry, storage, stopping, history, Present
<1>9. NamesAreClaimed'
  BY <1>1 DEF RInv, NamesAreClaimed, Claims, Present, registry
<1>10. HoldersAreAlone'
  BY <1>1 DEF RInv, HoldersAreAlone, Holds, Present, registry
<1>11. ObjectsAreKept'
  BY <1>1 DEF RInv, ObjectsAreKept, Present, Registered, Creating, registry, history
<1>12. RowsFollow'
  BY <1>1 DEF RInv, RowsFollow, Forgotten, Holds, Present, registry, storage
<1>13. SweepIsComplete'
  <2>1. main = "sweep" /\ main' = main /\ accepting' = accepting /\ reserved' = reserved /\ used' = used /\ gone' = gone
    BY <1>1 DEF registry, history
  <2>2. \A t \in left' : t.obj \in used
    BY <1>7 DEF RInv, SweepIsComplete
  <2>3. \A o \in used \ Durable : o \in gone \/ \E t \in left' : t.obj = o
    BY <1>7, <2>1 DEF RInv, SweepIsComplete, Swept
  <2> QED BY <2>1, <2>2, <2>3 DEF RInv, SweepIsComplete, Swept
<1>14. LeasesAreCounted'
  <2>1. op' = op /\ resources' = resources
    BY <1>1 DEF registry
  <2> QED BY <2>1 DEF RInv, LeasesAreCounted, Leasing, Tracking, Holds
<1> QED BY <1>8, <1>9, <1>10, <1>11, <1>12, <1>13, <1>14 DEF RInv

(* The shutdown destroys an ephemeral entry. *)
LEMMA SweepEntry_RInv ==
    ASSUME RInv, NEW r \in left, SweepEntry(r)
    PROVE  RInv'
<1>1. op' = op /\ UNCHANGED <<registry, storage, doomed, main, used, abandoned>> /\ main = "sweep"
      /\ left' = left \ {r} /\ gone' \subseteq used /\ gone \subseteq gone' /\ (r.obj \notin Durable => r.obj \in gone')
  BY DEF SweepEntry, RInv, Typed, SweepIsComplete
<1>2. Typed'
  BY <1>1 DEF RInv, Typed, registry, storage, stopping, history, Present
<1>3. NamesAreClaimed'
  BY <1>1 DEF RInv, NamesAreClaimed, Claims, Present, registry
<1>4. HoldersAreAlone'
  BY <1>1 DEF RInv, HoldersAreAlone, Holds, Present, registry
<1>5. ObjectsAreKept'
  BY <1>1 DEF RInv, ObjectsAreKept, Present, Registered, Creating, registry, history
<1>6. RowsFollow'
  BY <1>1 DEF RInv, RowsFollow, Forgotten, Holds, Present, registry, storage
<1>7. SweepIsComplete'
  BY <1>1 DEF RInv, SweepIsComplete, Swept, registry, history, stopping
<1>8. LeasesAreCounted'
  <2>1. op' = op /\ resources' = resources
    BY <1>1 DEF registry
  <2> QED BY <2>1 DEF RInv, LeasesAreCounted, Leasing, Tracking, Holds
<1> QED BY <1>2, <1>3, <1>4, <1>5, <1>6, <1>7, <1>8 DEF RInv

(* The shutdown ends. *)
LEMMA ShutdownDone_RInv ==
    ASSUME RInv, ShutdownDone
    PROVE  RInv'
<1>1. op' = op /\ UNCHANGED <<registry, storage, doomed, left, history>> /\ main = "sweep" /\ main' = "down" /\ left = {}
  BY DEF ShutdownDone
<1>2. Typed'
  BY <1>1 DEF RInv, Typed, registry, storage, stopping, history, Present
<1>3. NamesAreClaimed'
  BY <1>1 DEF RInv, NamesAreClaimed, Claims, Present, registry
<1>4. HoldersAreAlone'
  BY <1>1 DEF RInv, HoldersAreAlone, Holds, Present, registry
<1>5. ObjectsAreKept'
  BY <1>1 DEF RInv, ObjectsAreKept, Present, Registered, Creating, registry, history
<1>6. RowsFollow'
  BY <1>1 DEF RInv, RowsFollow, Forgotten, Holds, Present, registry, storage
<1>7. SweepIsComplete'
  BY <1>1 DEF RInv, SweepIsComplete, Swept, registry, history, stopping
<1>8. LeasesAreCounted'
  <2>1. op' = op /\ resources' = resources
    BY <1>1 DEF registry
  <2> QED BY <2>1 DEF RInv, LeasesAreCounted, Leasing, Tracking, Holds
<1> QED BY <1>2, <1>3, <1>4, <1>5, <1>6, <1>7, <1>8 DEF RInv

(* The monitor begins to destroy what has expired. *)
LEMMA BeginExpire_RInv ==
    ASSUME RInv, NEW n \in Name, BeginExpire(n)
    PROVE  RInv'
<1> DEFINE a == Monitor
<1>1. PICK e \in Entry, o \in Object : e = resources[n] /\ o = e.obj /\ o \in used /\ o # None
  BY Present_Entry DEF BeginExpire
<1> DEFINE new == [Idle EXCEPT !.at = "cleaning", !.name = n, !.obj = o]
<1>2. PICK e2 \in Entry : e2 = [e EXCEPT !.open = FALSE] /\ e2.obj = o /\ e2.open = FALSE
  BY <1>1, Entry_Closed
<1>3. a \in Actor /\ Present(n) /\ e.open /\ e.uses = 0 /\ UNCHANGED <<accepting, reserved, storage, doomed, stopping, history>>
  BY <1>1, Constants_Facts DEF BeginExpire, Unleased
<1>4. new \in Activity /\ new.at = "cleaning" /\ new.name = n /\ new.obj = o
  BY Constants_Facts DEF Activity, Idle, Stages, Lives
<1>5. Sets(n, e2) /\ resources' \in [Name -> Entry]
  BY <1>1, <1>2, Change_Sets DEF RInv, BeginExpire
<1>6. Begins(a, new) /\ op' \in [Actor -> Activity] /\ op[a].at = "idle"
  <2>1. Start(a, new)
    BY <1>1 DEF BeginExpire
  <2> HIDE DEF new
  <2>2. Begins(a, new) /\ op' \in [Actor -> Activity]
    BY <1>3, <1>4, <2>1, Start_Begins DEF RInv
  <2> QED BY <2>2 DEF Begins, Idle
<1>7. Leasing(o) = {} /\ \A b \in Actor : ~Holds(b, n)
  BY <1>1, <1>3, Open_Entry
<1>8. \A m \in Name : resources'[m].obj = resources[m].obj
  BY <1>1, <1>2, <1>5 DEF Sets
<1>9. \A b \in Actor, m \in Name : b # a => (Holds(b, m)' <=> Holds(b, m)) /\ op'[b] = op[b]
  BY <1>6 DEF Begins, Only, Holds
<1>10. (\A m : Holds(a, m)' <=> m = n) /\ op'[a].obj = o
  BY <1>4, <1>6 DEF Begins, Holds, Destroyers, Renamers
<1> HIDE DEF new, a
<1>11. Typed'
  <2>1. \A m \in Name : ~Present(m)' => ~resources'[m].open
    BY <1>1, <1>2, <1>5 DEF RInv, Typed, Present, Sets
  <2> QED BY <1>3, <1>5, <1>6, <2>1 DEF RInv, Typed, storage, stopping, history
<1>12. NamesAreClaimed'
  BY <1>1, <1>2, <1>3, <1>4, <1>5, <1>6, <1>7, <1>8, <1>9, <1>10 DEF RInv, Moves, Leaves, Begins, Sets, Only, NamesAreClaimed, Claims, Present, Reserving, Making, Renamers, Destroyers, Using, registry
<1>13. HoldersAreAlone'
  <2>1. Present(n)' /\ resources'[n].obj = o /\ ~resources'[n].open
    BY <1>1, <1>2, <1>5 DEF Sets, Present
  <2>2. \A m \in Name : m # n => resources'[m] = resources[m]
    BY <1>5 DEF Sets
  <2> QED BY <1>7, <1>9, <1>10, <2>1, <2>2 DEF RInv, HoldersAreAlone, Present
<1>14. ObjectsAreKept'
  BY <1>1, <1>2, <1>3, <1>4, <1>5, <1>6, <1>7, <1>8, <1>9, <1>10 DEF RInv, Moves, Leaves, Begins, Sets, Only, ObjectsAreKept, Present, Making, Registered, Creating, registry, history
<1>15. RowsFollow'
  BY <1>1, <1>2, <1>3, <1>4, <1>5, <1>6, <1>7, <1>8, <1>9, <1>10 DEF RInv, Moves, Leaves, Begins, Sets, Only, RowsFollow, Forgotten, Holds, Present, Renamers, Destroyers, registry, storage
<1>16. SweepIsComplete'
  BY <1>1, <1>2, <1>3, <1>4, <1>5, <1>6, <1>7, <1>8, <1>9, <1>10 DEF RInv, SweepIsComplete, Swept, registry, history, stopping
<1>17. LeasesAreCounted'
  <2>1. \A m \in Name, q \in Object : Holds(a, m)' /\ op'[a].obj = q => Leasing(q) = {}
    BY <1>4, <1>6, <1>7 DEF Begins
  <2> QED BY <1>1, <1>2, <1>3, <1>4, <1>5, <1>6, <2>1, Leases_Touch DEF Begins, Using
<1> QED BY <1>11, <1>12, <1>13, <1>14, <1>15, <1>16, <1>17 DEF RInv

(* The entry is removed. *)
LEMMA RemoveDestroyed_RInv ==
    ASSUME RInv, NEW a \in Actor, RemoveDestroyed(a)
    PROVE  RInv'
<1> DEFINE n == op[a].name
<1>1. op[a].at = "removing" /\ Leaves(a) /\ op' \in [Actor -> Activity]
  BY Return_Leaves DEF RInv, RemoveDestroyed
<1>2. UNCHANGED <<accepting, reserved, storage, doomed, stopping, used, abandoned>> /\ gone' = gone \cup {op[a].obj}
  BY DEF RemoveDestroyed
<1>3. n \in Name /\ Holds(a, n) /\ \A m : Holds(a, m) => m = n
  BY <1>1 DEF RInv, NamesAreClaimed, Holds, Destroyers, Renamers
<1>4. PICK o \in Object : o = op[a].obj /\ resources[n].obj = o /\ o \in used /\ o # None
  BY <1>3, Holds_Apart, Present_Entry
<1>5. Leasing(o) = {}
  BY <1>1, <1>3, <1>4, Held_Entry
<1>6. Sets(n, NoEntry) /\ resources' \in [Name -> Entry] /\ resources'[n].obj = None /\ ~resources'[n].open
  <2>1. Sets(n, NoEntry) /\ resources' \in [Name -> Entry]
    BY <1>3, NoEntry_Type, Change_Sets DEF RemoveDestroyed, RInv
  <2> QED BY <2>1, NoEntry_Type DEF Sets
<1>7. \A b \in Actor : b # a => ~Holds(b, n)
  BY <1>3, Holds_Apart
<1>8. \A m \in Name : m # n => resources'[m] = resources[m]
  BY <1>6 DEF Sets
<1>9. \A b \in Actor, m \in Name : b # a => (Holds(b, m)' <=> Holds(b, m)) /\ op'[b] = op[b]
  BY <1>1 DEF Leaves, Only, Holds
<1>10. \A m \in Name : ~Holds(a, m)'
  BY <1>1 DEF Leaves, Holds, Destroyers, Renamers
<1> HIDE DEF n
<1>11. Typed'
  BY <1>1, <1>2, <1>4, <1>6, <1>8 DEF RInv, Typed, storage, stopping, Present
<1>12. NamesAreClaimed'
  BY <1>1, <1>2, <1>6, <1>8, Constants_Facts DEF RInv, Leaves, Only, NamesAreClaimed, Claims, Present, Reserving, Making, Renamers, Destroyers, Using
<1>13. HoldersAreAlone'
  BY <1>7, <1>8, <1>9, <1>10 DEF RInv, HoldersAreAlone, Present
<1>14. ObjectsAreKept'
  <2>1. Creating(o)' = Creating(o) /\ \A q : q # o => Creating(q)' = Creating(q)
    BY <1>1, Constants_Facts, <1>4 DEF Leaves, Only, Creating
  <2>2. \A q \in Object : q # o => Registered(q) \subseteq Registered(q)'
    BY <1>4, <1>8 DEF Registered
  <2>3. \A q \in used' : q \notin gone' \cup abandoned' => Registered(q)' \cup Creating(q)' # {}
    BY <1>2, <1>4, <2>1, <2>2 DEF RInv, Typed, ObjectsAreKept
  <2>4. \A m \in Name : resources'[m].obj = resources[m].obj \/ resources'[m].obj = None
    BY <1>6, <1>8
  <2>5. /\ \A m \in Name : Present(m)' => resources'[m].obj \in used'
        /\ \A m, x \in Name : Present(m)' /\ resources'[m].obj = resources'[x].obj => m = x
    BY <1>2, <2>4 DEF RInv, ObjectsAreKept, Present
  <2>6. \A b \in Actor : op'[b].at \in Making =>
          /\ op'[b].obj \in used'
          /\ \A m \in Name : resources'[m].obj # op'[b].obj
          /\ \A x \in Actor : op'[x].at \in Making /\ op'[x].obj = op'[b].obj => b = x
    <3>1. \A b \in Actor : op'[b].at \in Making => op'[b] = op[b] /\ op[b].at \in Making
      BY <1>1 DEF Leaves, Only, Making
    <3>2. \A b \in Actor : op[b].at \in Making => op[b].obj \in used /\ op[b].obj # None
      BY Constants_Facts DEF RInv, ObjectsAreKept, Typed
    <3> QED BY <1>2, <2>4, <3>1, <3>2 DEF RInv, ObjectsAreKept
  <2> QED BY <2>3, <2>5, <2>6 DEF ObjectsAreKept
<1>15. RowsFollow'
  <2>1. \A m \in Name : Present(m)' /\ resources'[m].obj \in Durable =>
          \/ rows'[m] = resources'[m].obj
          \/ \E b \in Actor : Holds(b, m)' /\ op'[b].at \in {"removing", "renaming", "unrenaming", "unnaming"}
          \/ Forgotten(m)'
    BY <1>2, <1>3, <1>6, <1>8, <1>9, <1>10 DEF RInv, RowsFollow, Forgotten, Present, storage
  <2> QED BY <1>1, <1>2, <2>1 DEF RInv, RowsFollow, Forgotten, Leaves, Only, storage
<1>16. SweepIsComplete'
  BY <1>1, <1>2, <1>3, <1>4, <1>5, <1>6, <1>7, <1>8, <1>9, <1>10 DEF RInv, SweepIsComplete, Swept, registry, history, stopping
<1>17. LeasesAreCounted'
  <2>1. \A b \in Actor : op[b].at \in Using => resources'[op[b].name].obj = op[b].obj
    <3>1. \A b \in Actor : op[b].at \in Using => op[b].name \in Name /\ resources[op[b].name].obj = op[b].obj
      BY DEF RInv, LeasesAreCounted, NamesAreClaimed
    <3>2. \A b \in Actor : op[b].at \in Using => op[b].obj # o
      BY <1>5 DEF Leasing, Using
    <3> QED BY <1>4, <1>8, <3>1, <3>2
  <2>2. \A m \in Name, q \in Object : resources'[m].open /\ resources'[m].obj = q =>
          /\ resources'[m].uses = Cardinality(Leasing(q))
          /\ \A v \in Worker : resources'[m].users[v] = Cardinality(Tracking(q, v))
    BY <1>6, <1>8 DEF RInv, LeasesAreCounted
  <2> QED BY <1>1, <1>10, <2>1, <2>2, Leases_Change DEF Leaves, Using
<1> QED BY <1>11, <1>12, <1>13, <1>14, <1>15, <1>16, <1>17 DEF RInv

(* A renaming ends. *)
LEMMA FinishRename_RInv ==
    ASSUME RInv, NEW a \in Actor, FinishRename(a)
    PROVE  RInv'
<1> DEFINE n == op[a].to
<1>1. op[a].at = "renamed" /\ Moves(a, "leaving") /\ op' \in [Actor -> Activity]
  BY Go_Moves DEF RInv, FinishRename, Stages
<1>2. UNCHANGED <<accepting, reserved, storage, doomed, stopping, history>>
  BY DEF FinishRename
<1>3. n \in Name /\ Holds(a, n) /\ (\A m : Holds(a, m) => m = n) /\ Present(n)
  <2>1. n \in Name /\ Holds(a, n) /\ (\A m : Holds(a, m) => m = n)
    BY <1>1 DEF RInv, NamesAreClaimed, Holds, Destroyers, Renamers
  <2> QED BY <2>1, Holds_Apart
<1>4. Only(a) /\ op'[a].at = "leaving"
  BY <1>1 DEF Moves
<1>5. PICK e \in Entry, o \in Object : e = resources[n] /\ o = e.obj /\ o = op[a].obj /\ o \in used /\ ~e.open
  BY <1>3, Holds_Apart, Present_Entry
<1>6. PICK e2 \in Entry : /\ e2 = [e EXCEPT !.open = TRUE, !.users = NoUsers, !.uses = 0]
                          /\ e2.obj = o /\ e2.open = TRUE /\ e2.uses = 0 /\ \A w \in Worker : e2.users[w] = 0
  BY <1>5, Entry_Reopened
<1>7. Sets(n, e2) /\ resources' \in [Name -> Entry]
  <2>1. Change(n, e2)
    BY <1>3, <1>5, <1>6 DEF FinishRename, Reopened
  <2> QED BY <1>3, <2>1, Change_Sets DEF RInv
<1>8. \A m \in Name : resources'[m].obj = resources[m].obj
  BY <1>5, <1>6, <1>7 DEF Sets
<1>9. \A b \in Actor, m \in Name : b # a => (Holds(b, m)' <=> Holds(b, m)) /\ op'[b] = op[b]
  BY <1>1 DEF Moves, Only, Holds
<1>10. \A m \in Name : ~Holds(a, m)'
  BY <1>1 DEF Moves, Holds, Destroyers, Renamers
<1>11. \A b \in Actor : b # a => ~Holds(b, n)
  BY <1>3, Holds_Apart
<1>12. \A m \in Name : m # n => resources'[m] = resources[m]
  BY <1>7 DEF Sets
<1> HIDE DEF n
<1>13. Typed'
  <2>1. \A m \in Name : ~Present(m)' => ~resources'[m].open
    BY <1>3, <1>5, <1>8, <1>12 DEF RInv, Typed, Present
  <2> QED BY <1>1, <1>2, <1>4, <1>7, <2>1 DEF RInv, Typed, storage, stopping, history
<1>14. NamesAreClaimed'
  BY <1>1, <1>2, <1>3, <1>4, <1>5, <1>6, <1>7, <1>8, <1>9, <1>10, <1>11, <1>12 DEF RInv, Moves, Leaves, Begins, Sets, Only, NamesAreClaimed, Claims, Present, Reserving, Making, Renamers, Destroyers, Using, registry
<1>15. HoldersAreAlone'
  BY <1>9, <1>10, <1>11, <1>12 DEF RInv, HoldersAreAlone, Present
<1>16. ObjectsAreKept'
  BY <1>1, <1>2, <1>3, <1>4, <1>5, <1>6, <1>7, <1>8, <1>9, <1>10, <1>11, <1>12 DEF RInv, Moves, Leaves, Begins, Sets, Only, ObjectsAreKept, Present, Making, Registered, Creating, registry, history
<1>17. RowsFollow'
  <2>1. o \in Durable => rows[n] = o
    BY <1>1, <1>3, <1>5, Holds_Apart DEF RInv, RowsFollow, Forgotten, Present
  <2>2. \A m \in Name : Present(m)' /\ resources'[m].obj \in Durable =>
          \/ rows'[m] = resources'[m].obj
          \/ \E b \in Actor : Holds(b, m)' /\ op'[b].at \in {"removing", "renaming", "unrenaming", "unnaming"}
          \/ Forgotten(m)'
    BY <1>1, <1>2, <1>3, <1>5, <1>8, <1>9, <1>10, <1>12, <2>1 DEF RInv, RowsFollow, Forgotten, Present, storage
  <2> QED BY <1>1, <1>2, <2>2 DEF RInv, RowsFollow, Forgotten, Moves, Only, storage
<1>18. SweepIsComplete'
  BY <1>1, <1>2, <1>3, <1>4, <1>5, <1>6, <1>7, <1>8, <1>9, <1>10, <1>11, <1>12 DEF RInv, SweepIsComplete, Swept, registry, history, stopping
<1>19. LeasesAreCounted'
  <2>1. e2.uses = Cardinality(Leasing(o)) /\ \A w \in Worker : e2.users[w] = Cardinality(Tracking(o, w))
    BY <1>1, <1>3, <1>5, <1>6, Held_Entry
  <2> QED BY <1>1, <1>3, <1>5, <1>6, <1>7, <1>10, <2>1, Leases_Touch DEF Moves, Using
<1> QED BY <1>13, <1>14, <1>15, <1>16, <1>17, <1>18, <1>19 DEF RInv

(* An entry whose destruction failed is restored. *)
LEMMA RestoreDestroyed_RInv ==
    ASSUME RInv, NEW a \in Actor, RestoreDestroyed(a), op[a].at = "restoring"
    PROVE  RInv'
<1> DEFINE n == op[a].name
<1>1. op[a].at = "restoring"
  OBVIOUS
<1>2. UNCHANGED <<accepting, reserved, storage, doomed, stopping, used, gone, abandoned>>
  BY DEF RestoreDestroyed
<1>3. n \in Name /\ Holds(a, n) /\ (\A m : Holds(a, m) => m = n) /\ Present(n)
  <2>1. n \in Name /\ Holds(a, n) /\ (\A m : Holds(a, m) => m = n)
    BY <1>1 DEF RInv, NamesAreClaimed, Holds, Destroyers, Renamers
  <2> QED BY <2>1, Holds_Apart
<1>4. /\ Only(a) /\ op' \in [Actor -> Activity] /\ op'[a].at \in {"resetting", "idle", "dead"}
      /\ op'[a].at = "resetting" => op'[a].name = n /\ op'[a].obj = op[a].obj
  <2>1. CASE op' = [op EXCEPT ![a] = [@ EXCEPT !.at = "resetting", !.life = resources[n].life]]
    <3> DEFINE new == [op[a] EXCEPT !.at = "resetting", !.life = resources[n].life]
    <3>1. op[a] \in Activity /\ resources[n].life \in Lives
      BY <1>3 DEF RInv, Typed, Entry
    <3>2. new \in Activity /\ new.at = "resetting" /\ new.name = n /\ new.obj = op[a].obj
      BY <3>1 DEF Activity, Stages
    <3>3. op' = [op EXCEPT ![a] = new]
      BY <2>1
    <3> HIDE DEF new
    <3> QED BY <3>2, <3>3, Update_Op DEF RInv
  <2>2. CASE Return(a)
    BY <2>2, Return_Leaves DEF RInv, Leaves
  <2> QED BY <1>3, <2>1, <2>2 DEF RestoreDestroyed, Return
<1>5. PICK e \in Entry, o \in Object : e = resources[n] /\ o = e.obj /\ o = op[a].obj /\ o \in used /\ ~e.open
  BY <1>3, Holds_Apart, Present_Entry
<1>6. PICK e2 \in Entry : /\ e2 = [e EXCEPT !.open = TRUE, !.users = NoUsers, !.uses = 0]
                          /\ e2.obj = o /\ e2.open = TRUE /\ e2.uses = 0 /\ \A w \in Worker : e2.users[w] = 0
  BY <1>5, Entry_Reopened
<1>7. Sets(n, e2) /\ resources' \in [Name -> Entry]
  <2>1. Change(n, e2)
    BY <1>3, <1>5, <1>6 DEF RestoreDestroyed, Reopened
  <2> QED BY <1>3, <2>1, Change_Sets DEF RInv
<1>8. \A m \in Name : resources'[m].obj = resources[m].obj
  BY <1>5, <1>6, <1>7 DEF Sets
<1>9. \A b \in Actor, m \in Name : b # a => (Holds(b, m)' <=> Holds(b, m)) /\ op'[b] = op[b]
  BY <1>4 DEF Moves, Only, Holds
<1>10. \A m \in Name : ~Holds(a, m)'
  BY <1>4 DEF Moves, Holds, Destroyers, Renamers
<1>11. \A b \in Actor : b # a => ~Holds(b, n)
  BY <1>3, Holds_Apart
<1>12. \A m \in Name : m # n => resources'[m] = resources[m]
  BY <1>7 DEF Sets
<1> HIDE DEF n
<1>13. Typed'
  <2>1. \A m \in Name : ~Present(m)' => ~resources'[m].open
    BY <1>3, <1>5, <1>8, <1>12 DEF RInv, Typed, Present
  <2> QED BY <1>1, <1>2, <1>4, <1>7, <2>1 DEF RInv, Typed, storage, stopping, history
<1>14. NamesAreClaimed'
  BY <1>1, <1>2, <1>3, <1>4, <1>5, <1>6, <1>7, <1>8, <1>9, <1>10, <1>11, <1>12 DEF RInv, Moves, Leaves, Begins, Sets, Only, NamesAreClaimed, Claims, Present, Reserving, Making, Renamers, Destroyers, Using, registry
<1>15. HoldersAreAlone'
  BY <1>9, <1>10, <1>11, <1>12 DEF RInv, HoldersAreAlone, Present
<1>16. ObjectsAreKept'
  BY <1>1, <1>2, <1>3, <1>4, <1>5, <1>6, <1>7, <1>8, <1>9, <1>10, <1>11, <1>12 DEF RInv, Moves, Leaves, Begins, Sets, Only, ObjectsAreKept, Present, Making, Registered, Creating, registry, history
<1>17. RowsFollow'
  <2>1. o \in Durable => rows[n] = o
    BY <1>1, <1>3, <1>5, Holds_Apart DEF RInv, RowsFollow, Forgotten, Present
  <2>2. \A m \in Name : Present(m)' /\ resources'[m].obj \in Durable =>
          \/ rows'[m] = resources'[m].obj
          \/ \E b \in Actor : Holds(b, m)' /\ op'[b].at \in {"removing", "renaming", "unrenaming", "unnaming"}
          \/ Forgotten(m)'
    BY <1>1, <1>2, <1>3, <1>5, <1>8, <1>9, <1>10, <1>12, <2>1 DEF RInv, RowsFollow, Forgotten, Present, storage
  <2> QED BY <1>1, <1>4, <1>2, <2>2 DEF RInv, RowsFollow, Forgotten, Moves, Only, storage
<1>18. SweepIsComplete'
  BY <1>1, <1>2, <1>3, <1>4, <1>5, <1>6, <1>7, <1>8, <1>9, <1>10, <1>11, <1>12 DEF RInv, SweepIsComplete, Swept, registry, history, stopping
<1>19. LeasesAreCounted'
  <2>1. e2.uses = Cardinality(Leasing(o)) /\ \A w \in Worker : e2.users[w] = Cardinality(Tracking(o, w))
    BY <1>1, <1>3, <1>5, <1>6, Held_Entry
  <2> QED BY <1>1, <1>4, <1>3, <1>5, <1>6, <1>7, <1>10, <2>1, Leases_Touch DEF Moves, Using
<1> QED BY <1>13, <1>14, <1>15, <1>16, <1>17, <1>18, <1>19 DEF RInv

(* The second restoration, as long as it changes nothing. *)
LEMMA RestoreAgain_RInv ==
    ASSUME RInv, NEW a \in Actor, RestoreDestroyed(a), op[a].at = "again", ~overruled'
    PROVE  RInv'
<1> DEFINE n == op[a].name
<1>1. n \in Name /\ op[a] \in Activity /\ resources[n] \in Entry
  BY DEF RInv, NamesAreClaimed, Typed
<1>2. UNCHANGED <<accepting, reserved, storage, doomed, stopping, used, gone, abandoned>>
  BY DEF RestoreDestroyed
<1>3. resources' = resources
  <2>1. CASE Present(n)
    <3>1. Reopened(resources[n]) = resources[n] /\ Change(n, Reopened(resources[n]))
      BY <2>1 DEF RestoreDestroyed
    <3> QED BY <1>1, <3>1 DEF Change, RInv, Typed
  <2> QED BY <2>1 DEF RestoreDestroyed
<1>4. /\ Only(a) /\ op' \in [Actor -> Activity] /\ op'[a].at \in {"resetting", "idle", "dead"}
      /\ op'[a].at = "resetting" => op'[a].name = n
  <2>1. CASE op' = [op EXCEPT ![a] = [@ EXCEPT !.at = "resetting", !.life = resources[n].life]]
    <3> DEFINE new == [op[a] EXCEPT !.at = "resetting", !.life = resources[n].life]
    <3>1. new \in Activity /\ new.at = "resetting" /\ new.name = n
      BY <1>1 DEF Activity, Stages, Entry
    <3>2. op' = [op EXCEPT ![a] = new]
      BY <2>1
    <3> HIDE DEF new
    <3> QED BY <3>1, <3>2, Update_Op DEF RInv
  <2>2. CASE Return(a)
    BY <2>2, Return_Leaves DEF RInv, Leaves
  <2> QED BY <2>1, <2>2 DEF RestoreDestroyed, Return
<1> HIDE DEF n
<1>5. Typed'
  BY <1>2, <1>3, <1>4 DEF RInv, Typed, storage, stopping, Present
<1>6. NamesAreClaimed'
  BY <1>1, <1>2, <1>3, <1>4 DEF RInv, Only, NamesAreClaimed, Claims, Present, Reserving, Making, Renamers, Destroyers, Using
<1>7. HoldersAreAlone'
  BY <1>3, <1>4 DEF RInv, Only, HoldersAreAlone, Holds, Present, Renamers, Destroyers
<1>8. ObjectsAreKept'
  BY <1>2, <1>3, <1>4 DEF RInv, Only, ObjectsAreKept, Present, Making, Registered, Creating
<1>9. RowsFollow'
  BY <1>2, <1>3, <1>4 DEF RInv, Only, RowsFollow, Forgotten, Holds, Present, Renamers, Destroyers, storage
<1>10. SweepIsComplete'
  BY <1>2, <1>3, <1>4 DEF RInv, SweepIsComplete, Swept, stopping
<1>11. LeasesAreCounted'
  BY <1>3, <1>4, Leases_Frame DEF Only, Holds, Using, Destroyers, Renamers
<1> QED BY <1>5, <1>6, <1>7, <1>8, <1>9, <1>10, <1>11 DEF RInv

(* The row moves to the new name, or the renaming is to be rolled back. *)
LEMMA RenameResource_RInv ==
    ASSUME RInv, NEW a \in Actor, RenameResource(a)
    PROVE  RInv'
<1>0. PICK n \in Name, m \in Name : n = op[a].name /\ m = op[a].to
  BY DEF RenameResource, RInv, NamesAreClaimed, Reserving, Renamers
<1>1. PICK s \in {"renamed", "unrenaming"} :
        /\ op[a].at = "renaming" /\ Go(a, s)
        /\ s = "renamed" => MoveRow(n, m)
        /\ s = "unrenaming" => UNCHANGED storage
  BY <1>0 DEF RenameResource
<1>2. UNCHANGED <<registry, doomed, stopping, history>>
  BY DEF RenameResource
<1>3. Moves(a, s) /\ op' \in [Actor -> Activity]
  BY <1>1, Go_Moves DEF RInv, Stages
<1>4. /\ n \in Name /\ m \in Name /\ Holds(a, m) /\ (\A x : Holds(a, x)' <=> x = m) /\ ~Present(n) /\ Present(m) /\ n # m
      /\ \A b \in Actor : b # a /\ op[b].at \in Reserving => op[b].name # n /\ op[b].name # m
      /\ \A b \in Actor : b # a => ~Holds(b, n) /\ ~Holds(b, m)
  <2>1. n \in Name /\ m \in Name /\ Holds(a, m) /\ (\A x : Holds(a, x)' <=> x = m)
    BY <1>0, <1>1, <1>3 DEF Holds, Renamers, Destroyers, Moves
  <2> QED BY <1>0, <1>1, <2>1, Claims_Apart, Holds_Apart DEF Reserving, Renamers
<1>5. PICK o \in Object : o = op[a].obj /\ o \in Durable /\ rows[n] = o /\ resources[m].obj = o /\ o # None
  <2>1. op[a].obj \in Durable /\ rows[n] = op[a].obj
    BY <1>0, <1>1 DEF RInv, RowsFollow, Forgotten
  <2>2. resources[m].obj = op[a].obj
    BY <1>4, Holds_Apart
  <2> QED BY <2>1, <2>2, Constants_Facts
<1>6. /\ rows' \in [Name -> Object \cup {None}] /\ lifeRows' \in [Name -> Lives]
      /\ \A x \in Name : x # n /\ x # m => rows'[x] = rows[x]
      /\ s = "renamed" => rows'[m] = o
      /\ s = "unrenaming" => rows' = rows
  <2>1. CASE s = "renamed"
    <3>1. rows' = [rows EXCEPT ![m] = rows[n], ![n] = None]
      BY <1>1, <1>5, <2>1 DEF MoveRow
    <3>2. lifeRows' = lifeRows \/ lifeRows' = [lifeRows EXCEPT ![m] = "finite", ![n] = "permanent"]
      BY <1>1, <2>1 DEF MoveRow
    <3>3. rows \in [Name -> Object \cup {None}] /\ lifeRows \in [Name -> Lives]
      BY DEF RInv, Typed
    <3> QED BY <1>4, <1>5, <2>1, <3>1, <3>2, <3>3 DEF Lives
  <2>2. CASE s = "unrenaming"
    BY <1>1, <2>2 DEF RInv, Typed, storage
  <2> QED BY <2>1, <2>2
<1>7. \A b \in Actor, x \in Name : b # a => (Holds(b, x)' <=> Holds(b, x)) /\ op'[b] = op[b]
  BY <1>3 DEF Moves, Only, Holds
<1>8. Typed'
  BY <1>1, <1>2, <1>3, <1>4, <1>5, <1>6, <1>7 DEF RInv, Typed, registry, storage, stopping, history, Present
<1>9. NamesAreClaimed'
  BY <1>1, <1>2, <1>3, <1>4, <1>5, <1>6, <1>7 DEF RInv, Moves, Leaves, Begins, Sets, Only, NamesAreClaimed, Claims, Present, Reserving, Making, Renamers, Destroyers, Using, registry
<1>10. HoldersAreAlone'
  BY <1>1, <1>2, <1>3, <1>4, <1>5, <1>6, <1>7 DEF RInv, Moves, Leaves, Begins, Sets, Only, HoldersAreAlone, Holds, Present, Renamers, Destroyers, registry
<1>11. ObjectsAreKept'
  BY <1>1, <1>2, <1>3, <1>4, <1>5, <1>6, <1>7 DEF RInv, Moves, Leaves, Begins, Sets, Only, ObjectsAreKept, Present, Making, Registered, Creating, registry, history
<1>12. RowsFollow'
  <2>1. ASSUME NEW x \in Name, Present(x)', resources'[x].obj \in Durable
        PROVE  \/ rows'[x] = resources'[x].obj
               \/ \E b \in Actor : Holds(b, x)' /\ op'[b].at \in {"removing", "renaming", "unrenaming", "unnaming"}
               \/ Forgotten(x)'
    <3>1. CASE x = m
      <4>1. resources'[m].obj = o /\ Holds(a, m)'
        BY <1>2, <1>4, <1>5 DEF registry
      <4> QED BY <1>3, <1>6, <3>1, <4>1 DEF Moves
    <3>2. CASE x # m
      <4>1. x # n /\ resources'[x] = resources[x] /\ Present(x)
        BY <1>2, <1>4, <2>1 DEF registry, Present
      <4>2. ~Holds(a, x) /\ ~Holds(a, x)'
        BY <1>0, <1>1, <1>3, <3>2 DEF Holds, Renamers, Destroyers, Moves
      <4> QED BY <1>6, <1>7, <2>1, <3>2, <4>1, <4>2 DEF RInv, RowsFollow, Forgotten
    <3> QED BY <3>1, <3>2
  <2>2. \A b \in Actor : op'[b].obj \in Durable /\ op'[b].at \in {"setting", "register", "renaming", "unrenaming", "unnaming"}
          => rows'[op'[b].name] = op'[b].obj
    <3>1. op'[a].at \in {"setting", "register", "renaming", "unrenaming", "unnaming"} => rows'[op'[a].name] = op'[a].obj
      BY <1>0, <1>3, <1>5, <1>6 DEF Moves
    <3>2. \A b \in Actor : b # a /\ op[b].at \in Reserving => op[b].name \in Name
      BY DEF RInv, NamesAreClaimed
    <3> QED BY <1>4, <1>6, <1>7, <3>1, <3>2 DEF RInv, RowsFollow, Forgotten, Reserving, Making, Renamers
  <2>3. \A b \in Actor : op'[b].at \in {"saving", "setting", "undo", "renaming", "unrenaming", "unnaming"} => op'[b].obj \in Durable
    BY <1>3, <1>5 DEF RInv, RowsFollow, Forgotten, Moves, Only
  <2> QED BY <2>1, <2>2, <2>3 DEF RowsFollow, Forgotten
<1>13. SweepIsComplete'
  BY <1>1, <1>2, <1>3, <1>4, <1>5, <1>6, <1>7 DEF RInv, SweepIsComplete, Swept, registry, history, stopping
<1>14. LeasesAreCounted'
  BY <1>1, <1>2, <1>3, <1>4, <1>5, <1>6, <1>7, Leases_Frame DEF Moves, Leaves, Begins, Only, Holds, Using, Destroyers, Renamers, registry
<1> QED BY <1>8, <1>9, <1>10, <1>11, <1>12, <1>13, <1>14 DEF RInv

(* The row moves back, if it can. *)
LEMMA UnrenameResource_RInv ==
    ASSUME RInv, NEW a \in Actor, UnrenameResource(a)
    PROVE  RInv'
<1>1. op[a].at = "unrenaming" /\ Moves(a, "unnaming") /\ op' \in [Actor -> Activity]
  BY Go_Moves DEF RInv, UnrenameResource, Stages
<1>2. UNCHANGED <<registry, doomed, stopping, history>>
  BY DEF UnrenameResource
<1>3. rows' = rows /\ lifeRows' \in [Name -> Lives]
  <2>1. op[a].obj \in Durable /\ rows[op[a].name] = op[a].obj /\ rows[op[a].name] # None
    BY <1>1, Constants_Facts DEF RInv, RowsFollow, Forgotten
  <2>2. CASE MoveRow(op[a].to, op[a].name)
    BY <2>1, <2>2 DEF MoveRow, RInv, Typed, Lives
  <2>3. CASE UNCHANGED storage
    BY <2>3 DEF RInv, Typed, storage
  <2> QED BY <2>2, <2>3 DEF UnrenameResource
<1>4. Typed'
  BY <1>1, <1>2, <1>3 DEF RInv, Typed, registry, storage, stopping, history, Present
<1>5. NamesAreClaimed'
  BY <1>1, <1>2, <1>3 DEF RInv, Moves, Leaves, Begins, Sets, Only, NamesAreClaimed, Claims, Present, Reserving, Making, Renamers, Destroyers, Using, registry
<1>6. HoldersAreAlone'
  BY <1>1, <1>2, <1>3 DEF RInv, Moves, Leaves, Begins, Sets, Only, HoldersAreAlone, Holds, Present, Renamers, Destroyers, registry
<1>7. ObjectsAreKept'
  BY <1>1, <1>2, <1>3 DEF RInv, Moves, Leaves, Begins, Sets, Only, ObjectsAreKept, Present, Making, Registered, Creating, registry, history
<1>8. RowsFollow'
  BY <1>1, <1>2, <1>3 DEF RInv, Moves, Leaves, Begins, Sets, Only, RowsFollow, Forgotten, Holds, Present, Renamers, Destroyers, registry, storage
<1>9. SweepIsComplete'
  BY <1>1, <1>2, <1>3 DEF RInv, SweepIsComplete, Swept, registry, history, stopping
<1>10. LeasesAreCounted'
  BY <1>1, <1>2, <1>3, Leases_Frame DEF Moves, Leaves, Begins, Only, Holds, Using, Destroyers, Renamers, registry
<1> QED BY <1>4, <1>5, <1>6, <1>7, <1>8, <1>9, <1>10 DEF RInv

(* The entry goes back to its name. *)
LEMMA RollbackRename_RInv ==
    ASSUME RInv, NEW a \in Actor, RollbackRename(a)
    PROVE  RInv'
<1>0. PICK n \in Name, m \in Name : n = op[a].name /\ m = op[a].to
  BY DEF RollbackRename, RInv, NamesAreClaimed, Reserving, Renamers
<1>1. op[a].at = "unnaming" /\ Moves(a, "leaving") /\ op' \in [Actor -> Activity]
  BY Go_Moves DEF RInv, RollbackRename, Stages
<1>2. UNCHANGED <<accepting, reserved, storage, doomed, stopping, history>>
  BY DEF RollbackRename
<1>3. /\ n \in Name /\ m \in Name /\ Holds(a, m) /\ (\A x : Holds(a, x) => x = m) /\ ~Present(n) /\ Present(m) /\ n # m
      /\ \A b \in Actor : b # a /\ op[b].at \in Reserving => op[b].name # n /\ op[b].name # m
      /\ \A b \in Actor : b # a => ~Holds(b, n) /\ ~Holds(b, m)
  <2>1. n \in Name /\ m \in Name /\ Holds(a, m) /\ (\A x : Holds(a, x) => x = m)
    BY <1>0, <1>1 DEF Holds, Renamers, Destroyers
  <2> QED BY <1>0, <1>1, <2>1, Claims_Apart, Holds_Apart DEF Reserving, Renamers
<1>4. PICK e \in Entry, o \in Object : e = resources[m] /\ o = e.obj /\ o = op[a].obj /\ o \in used /\ ~e.open /\ o # None
  BY <1>3, Holds_Apart, Present_Entry
<1>5. PICK e2 \in Entry : /\ e2 = [e EXCEPT !.open = TRUE, !.users = NoUsers, !.uses = 0]
                          /\ e2.obj = o /\ e2.open = TRUE /\ e2.uses = 0 /\ \A w \in Worker : e2.users[w] = 0
  BY <1>4, Entry_Reopened
<1>6. /\ resources' \in [Name -> Entry] /\ resources'[n] = e2 /\ resources'[m].obj = None /\ ~resources'[m].open
      /\ \A x \in Name : x # n /\ x # m => resources'[x] = resources[x]
  <2>1. resources' = [resources EXCEPT ![m] = NoEntry, ![n] = e2]
    BY <1>0, <1>3, <1>4, <1>5 DEF RollbackRename, Reopened
  <2> HIDE DEF Entry
  <2> QED BY <1>3, <2>1, NoEntry_Type DEF RInv, Typed
<1>7. \A b \in Actor, x \in Name : b # a => (Holds(b, x)' <=> Holds(b, x)) /\ op'[b] = op[b]
  BY <1>1 DEF Moves, Only, Holds
<1>8. \A x \in Name : ~Holds(a, x)'
  BY <1>1 DEF Moves, Holds, Destroyers, Renamers
<1>9. rows[n] = o
  BY <1>0, <1>1, <1>4 DEF RInv, RowsFollow, Forgotten
<1>10. Leasing(o) = {} /\ Cardinality(Leasing(o)) = 0 /\ \A w : Cardinality(Tracking(o, w)) = 0
  BY <1>1, <1>3, <1>4, Held_Entry
<1>11. reserved[a] = n
  BY <1>0, <1>1 DEF RInv, NamesAreClaimed, Reserving, Renamers
<1>12. Typed'
  BY <1>1, <1>2, <1>4, <1>5, <1>6 DEF RInv, Typed, storage, stopping, history, Present
<1>13. NamesAreClaimed'
  <2>1. \A b \in Actor :
          /\ op'[b].at \in Reserving => reserved'[b] = op'[b].name /\ op'[b].name \in Name
          /\ reserved'[b] # NoName => op'[b].at \in Reserving \cup {"leaving", "dead"}
          /\ op'[b].at \in Destroyers \cup Using \cup {"updating", "rollback", "resetting", "again"} => op'[b].name \in Name
          /\ op'[b].at \in Renamers => op'[b].to \in Name
    BY <1>1, <1>2 DEF RInv, Moves, Only, NamesAreClaimed, Reserving, Making, Renamers, Destroyers, Using
  <2>2. ASSUME NEW b \in Actor, NEW x \in Name, Claims(b, x)'
        PROVE  ~Present(x)' /\ \A c \in Actor : Claims(c, x)' => b = c
    <3>1. b # a /\ Claims(b, x) /\ \A c \in Actor : Claims(c, x)' => Claims(c, x)
      BY <1>1, <1>2, <2>2 DEF Moves, Only, Claims
    <3>2. ~Present(x) /\ \A c \in Actor : Claims(c, x) => b = c
      BY <3>1 DEF RInv, NamesAreClaimed
    <3>3. Claims(a, n)
      BY <1>1, <1>3, <1>11, Constants_Facts DEF Claims
    <3>4. x # n /\ x # m
      BY <1>3, <3>1, <3>2, <3>3
    <3> QED BY <1>6, <3>1, <3>2, <3>4 DEF Present
  <2> QED BY <2>1, <2>2 DEF NamesAreClaimed
<1>14. HoldersAreAlone'
  BY <1>3, <1>6, <1>7, <1>8 DEF RInv, HoldersAreAlone, Present
<1>15. ObjectsAreKept'
  <2>4. \A x \in Name : resources'[x].obj = IF x = n THEN o ELSE IF x = m THEN None ELSE resources[x].obj
    BY <1>4, <1>5, <1>6
  <2>0. /\ \A x \in Name : resources[x].obj = o => x = m
        /\ resources[n].obj = None
    BY <1>3, <1>4 DEF RInv, ObjectsAreKept, Present
  <2>1. n \in Registered(o)' /\ \A q \in Object : q # o => Registered(q) \subseteq Registered(q)'
    BY <1>3, <1>4, <2>0, <2>4, Constants_Facts DEF Registered
  <2>2. \A q : Creating(q)' = Creating(q)
    BY <1>1 DEF Moves, Only, Creating
  <2>3. \A q \in used' : q \notin gone' \cup abandoned' => Registered(q)' \cup Creating(q)' # {}
    BY <1>2, <2>1, <2>2 DEF RInv, Typed, ObjectsAreKept, history
  <2>5. /\ \A x \in Name : Present(x)' => resources'[x].obj \in used'
        /\ \A x, y \in Name : Present(x)' /\ resources'[x].obj = resources'[y].obj => x = y
    <3>1. used' = used
      BY <1>2 DEF history
    <3>2. \A x \in Name : resources'[x].obj # None => resources'[x].obj \in used
      BY <1>4, <2>4 DEF RInv, ObjectsAreKept, Present
    <3>3. ASSUME NEW x \in Name, NEW y \in Name, resources'[x].obj # None, resources'[x].obj = resources'[y].obj
          PROVE  x = y
      <4>1. CASE x = n
        BY <1>4, <2>0, <2>4, <3>3, <4>1
      <4>2. CASE y = n
        BY <1>4, <2>0, <2>4, <3>3, <4>2
      <4>3. CASE x # n /\ y # n
        <5>1. x # m /\ y # m
          BY <2>4, <3>3, <4>3
        <5> QED BY <2>4, <3>3, <4>3, <5>1 DEF RInv, ObjectsAreKept, Present
      <4> QED BY <4>1, <4>2, <4>3
    <3> QED BY <3>1, <3>2, <3>3 DEF Present
  <2>6. \A b \in Actor : op'[b].at \in Making =>
          /\ op'[b].obj \in used'
          /\ \A x \in Name : resources'[x].obj # op'[b].obj
          /\ \A c \in Actor : op'[c].at \in Making /\ op'[c].obj = op'[b].obj => b = c
    <3>1. \A b \in Actor : op'[b].at \in Making => op'[b] = op[b] /\ op[b].at \in Making
      BY <1>1 DEF Moves, Only, Making
    <3>2. \A b \in Actor : op[b].at \in Making => op[b].obj \in used /\ op[b].obj # None /\ op[b].obj # o
      BY <1>4, Constants_Facts DEF RInv, ObjectsAreKept, Typed
    <3> QED BY <1>2, <1>3, <2>4, <3>1, <3>2 DEF RInv, ObjectsAreKept, history
  <2> QED BY <2>3, <2>5, <2>6 DEF ObjectsAreKept
<1>16. RowsFollow'
  <2>2. ASSUME NEW x \in Name, Present(x)', resources'[x].obj \in Durable
        PROVE  \/ rows'[x] = resources'[x].obj
               \/ \E b \in Actor : Holds(b, x)' /\ op'[b].at \in {"removing", "renaming", "unrenaming", "unnaming"}
               \/ Forgotten(x)'
    <3>1. CASE x = n
      BY <1>2, <1>5, <1>6, <1>9, <3>1 DEF storage
    <3>2. CASE x = m
      BY <1>6, <2>2, <3>2 DEF Present
    <3>3. CASE x # n /\ x # m
      <4>1. resources'[x] = resources[x] /\ Present(x) /\ rows' = rows
        BY <1>2, <1>6, <2>2, <3>3 DEF storage, Present
      <4>2. ~Holds(a, x)'
        BY <1>1 DEF Holds, Moves, Destroyers, Renamers
      <4> QED BY <1>3, <1>7, <2>2, <3>3, <4>1, <4>2 DEF RInv, RowsFollow, Forgotten
    <3> QED BY <3>1, <3>2, <3>3
  <2> QED BY <1>1, <1>2, <2>2 DEF RInv, RowsFollow, Forgotten, Moves, Only, storage
<1>17. SweepIsComplete'
  BY <1>1, <1>2, <1>3, <1>4, <1>5, <1>6, <1>7, <1>8, <1>9, <1>10, <1>11 DEF RInv, SweepIsComplete, Swept, registry, history, stopping
<1>18. LeasesAreCounted'
  <2>1. \A b \in Actor : op[b].at \in Using => resources'[op[b].name].obj = op[b].obj
    <3>1. \A b \in Actor : op[b].at \in Using => op[b].name \in Name /\ resources[op[b].name].obj = op[b].obj /\ op[b].obj # None
      BY DEF RInv, LeasesAreCounted, NamesAreClaimed
    <3>2. \A b \in Actor : op[b].at \in Using => op[b].obj # o
      BY <1>10 DEF Leasing, Using
    <3> QED BY <1>3, <1>4, <1>6, <3>1, <3>2 DEF Present
  <2>2. ASSUME NEW x \in Name, NEW q \in Object, resources'[x].open, resources'[x].obj = q
        PROVE  /\ resources'[x].uses = Cardinality(Leasing(q))
               /\ \A v \in Worker : resources'[x].users[v] = Cardinality(Tracking(q, v))
    <3>1. CASE x = n
      BY <1>5, <1>6, <1>10, <2>2, <3>1
    <3>2. CASE x # n
      BY <1>6, <2>2, <3>2 DEF RInv, LeasesAreCounted
    <3> QED BY <3>1, <3>2
  <2> QED BY <1>1, <1>8, <2>1, <2>2, Leases_Change DEF Moves, Using
<1> QED BY <1>12, <1>13, <1>14, <1>15, <1>16, <1>17, <1>18 DEF RInv

(* The entry moves to another name: its object has one place all along. *)
LEMMA BeginRename_RInv ==
    ASSUME RInv, NEW a \in Caller, NEW n \in Name, NEW m \in Name, BeginRename(a, n, m)
    PROVE  RInv'
<1>1. PICK e \in Entry, o \in Object : e = resources[n] /\ o = e.obj /\ o \in used /\ o # None
  BY Present_Entry DEF BeginRename
<1> DEFINE s   == IF o \in Durable THEN "renaming" ELSE "renamed"
           new == [Idle EXCEPT !.name = n, !.to = m, !.obj = o, !.at = s]
<1>2. PICK e2 \in Entry : e2 = [e EXCEPT !.open = FALSE] /\ e2.obj = o /\ e2.open = FALSE
  BY <1>1, Entry_Closed
<1>3. /\ a \in Actor /\ Present(n) /\ e.open /\ e.uses = 0 /\ accepting /\ ~Occupied(m) /\ ~Present(m)
      /\ reserved' = [reserved EXCEPT ![a] = n] /\ UNCHANGED <<accepting, storage, doomed, stopping, history>>
  BY <1>1, Constants_Facts DEF BeginRename, Unleased, Occupied
<1>4. n # m
  BY <1>3 DEF Occupied
<1>5. new \in Activity /\ new.at \in {"renaming", "renamed"} /\ new.name = n /\ new.to = m /\ new.obj = o /\ (new.at = "renaming" => o \in Durable) /\ (o \in Durable => new.at = "renaming")
  BY Constants_Facts DEF Activity, Idle, Stages, Lives
<1>6. /\ resources' \in [Name -> Entry] /\ resources'[m] = e2 /\ resources'[n].obj = None /\ ~resources'[n].open
      /\ \A x \in Name : x # n /\ x # m => resources'[x] = resources[x]
  <2>1. resources' = [resources EXCEPT ![m] = e2, ![n] = NoEntry]
    BY <1>1, <1>2 DEF BeginRename
  <2> HIDE DEF Entry
  <2> QED BY <1>4, <2>1, NoEntry_Type DEF RInv, Typed
<1>7. Begins(a, new) /\ op' \in [Actor -> Activity] /\ op[a].at = "idle"
  <2>1. Start(a, new)
    BY <1>1 DEF BeginRename
  <2> HIDE DEF new
  <2>2. Begins(a, new) /\ op' \in [Actor -> Activity]
    BY <1>3, <1>5, <2>1, Start_Begins DEF RInv
  <2> QED BY <2>2 DEF Begins, Idle
<1> HIDE DEF new
<1>8. \A b \in Actor, x \in Name : b # a => (Holds(b, x)' <=> Holds(b, x)) /\ op'[b] = op[b]
  BY <1>7 DEF Begins, Only, Holds
<1>9. /\ \A x : Holds(a, x)' <=> x = m
      /\ op'[a].at = new.at /\ op'[a].name = n /\ op'[a].to = m /\ op'[a].obj = o
  BY <1>5, <1>7 DEF Begins, Holds, Destroyers, Renamers
<1>10. \A b \in Actor : ~Holds(b, n) /\ ~Holds(b, m)
  BY <1>1, <1>3, Open_Entry, Holds_Apart
<1>11. Leasing(o) = {} /\ Cardinality(Leasing(o)) = 0 /\ \A w : Cardinality(Tracking(o, w)) = 0
  <2>1. Leasing(o) = {}
    BY <1>1, <1>3, Open_Entry
  <2> QED BY <2>1, FS_EmptySet DEF Tracking
<1>12. /\ \A x \in Name : resources'[x].obj = IF x = m THEN o ELSE IF x = n THEN None ELSE resources[x].obj
       /\ \A x \in Name : resources[x].obj = o => x = n
       /\ resources[m].obj = None
  <2>1. \A x \in Name : resources'[x].obj = IF x = m THEN o ELSE IF x = n THEN None ELSE resources[x].obj
    BY <1>2, <1>6
  <2>2. \A x \in Name : resources[x].obj = o => x = n
    BY <1>1, <1>3 DEF RInv, ObjectsAreKept, Present
  <2> QED BY <1>3, <2>1, <2>2 DEF Present
<1>13. /\ \A b \in Actor : b # a => reserved'[b] = reserved[b] /\ reserved[b] # m
       /\ reserved'[a] = n /\ reserved' \in [Actor -> Name \cup {NoName}] /\ reserved[a] # m
  BY <1>3 DEF Occupied, RInv, Typed
<1>14. Typed'
  <2>1. \A x \in Name : ~Present(x)' => ~resources'[x].open
    BY <1>1, <1>2, <1>6 DEF RInv, Typed, Present
  <2> QED BY <1>3, <1>6, <1>7, <1>13, <2>1 DEF RInv, Typed, storage, stopping, history
<1>15. NamesAreClaimed'
  <2>1. \A b \in Actor :
          /\ op'[b].at \in Reserving => reserved'[b] = op'[b].name /\ op'[b].name \in Name
          /\ reserved'[b] # NoName => op'[b].at \in Reserving \cup {"leaving", "dead"}
          /\ op'[b].at \in Destroyers \cup Using \cup {"updating", "rollback", "resetting", "again"} => op'[b].name \in Name
          /\ op'[b].at \in Renamers => op'[b].to \in Name
    BY <1>5, <1>8, <1>9, <1>13 DEF RInv, NamesAreClaimed, Reserving, Making, Renamers, Destroyers, Using
  <2>2. ASSUME NEW b \in Actor, NEW x \in Name, Claims(b, x)'
        PROVE  ~Present(x)' /\ \A c \in Actor : Claims(c, x)' => b = c
    <3>1. \A c \in Actor, y \in Name : c # a => (Claims(c, y)' <=> Claims(c, y))
      BY <1>8, <1>13 DEF Claims
    <3>2. Claims(a, x)' => x = n
      BY <1>13 DEF Claims
    <3>3. \A c \in Actor : ~Claims(c, n)
      BY <1>3 DEF RInv, NamesAreClaimed
    <3>4. b = a => x = n
      BY <2>2, <3>2
    <3>5. CASE b = a
      BY <1>6, <3>1, <3>3, <3>4, <3>5 DEF Present
    <3>6. CASE b # a
      <4>1. Claims(b, x) /\ x # n /\ x # m
        BY <1>13, <2>2, <3>1, <3>3, <3>6 DEF Claims
      <4> QED BY <1>6, <3>1, <3>2, <4>1 DEF RInv, NamesAreClaimed, Present
    <3> QED BY <3>5, <3>6
  <2> QED BY <2>1, <2>2 DEF NamesAreClaimed
<1>16. HoldersAreAlone'
  <2>1. Present(m)' /\ resources'[m].obj = o /\ ~resources'[m].open
    BY <1>1, <1>2, <1>6 DEF Present
  <2> QED BY <1>6, <1>8, <1>9, <1>10, <2>1 DEF RInv, HoldersAreAlone, Present
<1>17. ObjectsAreKept'
  <2>1. m \in Registered(o)' /\ \A q \in Object : q # o => Registered(q) \subseteq Registered(q)'
    BY <1>1, <1>4, <1>12, Constants_Facts DEF Registered
  <2>2. \A q \in Object : Creating(q)' = Creating(q)
    BY <1>5, <1>7, <1>8, <1>9 DEF Creating
  <2>3. \A q \in used' : q \notin gone' \cup abandoned' => Registered(q)' \cup Creating(q)' # {}
    BY <1>3, <2>1, <2>2 DEF RInv, Typed, ObjectsAreKept, history
  <2>5. /\ \A x \in Name : Present(x)' => resources'[x].obj \in used'
        /\ \A x, y \in Name : Present(x)' /\ resources'[x].obj = resources'[y].obj => x = y
    <3>1. used' = used
      BY <1>3 DEF history
    <3>2. \A x \in Name : resources'[x].obj # None => resources'[x].obj \in used
      BY <1>1, <1>12 DEF RInv, ObjectsAreKept, Present
    <3>3. ASSUME NEW x \in Name, NEW y \in Name, resources'[x].obj # None, resources'[x].obj = resources'[y].obj
          PROVE  x = y
      <4>1. CASE x = m
        BY <1>1, <1>12, <3>3, <4>1
      <4>2. CASE y = m
        BY <1>1, <1>12, <3>3, <4>2
      <4>3. CASE x # m /\ y # m
        <5>1. x # n /\ y # n
          BY <1>12, <3>3, <4>3
        <5> QED BY <1>12, <3>3, <4>3, <5>1 DEF RInv, ObjectsAreKept, Present
      <4> QED BY <4>1, <4>2, <4>3
    <3> QED BY <3>1, <3>2, <3>3 DEF Present
  <2>6. \A b \in Actor : op'[b].at \in Making =>
          /\ op'[b].obj \in used'
          /\ \A x \in Name : resources'[x].obj # op'[b].obj
          /\ \A c \in Actor : op'[c].at \in Making /\ op'[c].obj = op'[b].obj => b = c
    <3>1. \A b \in Actor : op'[b].at \in Making => op'[b] = op[b] /\ op[b].at \in Making
      BY <1>5, <1>8, <1>9 DEF Making
    <3>2. \A b \in Actor : op[b].at \in Making => op[b].obj \in used /\ op[b].obj # None /\ op[b].obj # o
      BY <1>1, Constants_Facts DEF RInv, ObjectsAreKept, Typed
    <3> QED BY <1>3, <1>12, <3>1, <3>2 DEF RInv, ObjectsAreKept, history
  <2> QED BY <2>3, <2>5, <2>6 DEF ObjectsAreKept
<1>18. RowsFollow'
  <2>1. o \in Durable => rows[n] = o
    BY <1>1, <1>3, <1>10 DEF RInv, RowsFollow, Forgotten
  <2>2. ASSUME NEW x \in Name, Present(x)', resources'[x].obj \in Durable
        PROVE  \/ rows'[x] = resources'[x].obj
               \/ \E b \in Actor : Holds(b, x)' /\ op'[b].at \in {"removing", "renaming", "unrenaming", "unnaming"}
               \/ Forgotten(x)'
    <3>1. CASE x = m
      BY <1>2, <1>3, <1>5, <1>6, <1>9, <2>2, <3>1
    <3>2. CASE x = n
      BY <1>6, <2>2, <3>2 DEF Present
    <3>3. CASE x # n /\ x # m
      <4>1. resources'[x] = resources[x] /\ Present(x) /\ rows' = rows
        BY <1>3, <1>6, <2>2, <3>3 DEF storage, Present
      <4>2. ~Holds(a, x) /\ ~Holds(a, x)'
        <5>1. ~Holds(a, x)
          BY <1>7 DEF Holds, Destroyers, Renamers
        <5> QED BY <1>9, <3>3, <5>1
      <4> QED BY <1>8, <2>2, <3>3, <4>1, <4>2 DEF RInv, RowsFollow, Forgotten
    <3> QED BY <3>1, <3>2, <3>3
  <2>3. \A b \in Actor : op'[b].obj \in Durable /\ op'[b].at \in {"setting", "register", "renaming", "unrenaming", "unnaming"}
          => rows'[op'[b].name] = op'[b].obj
    BY <1>3, <1>8, <1>9, <2>1 DEF RInv, RowsFollow, Forgotten, storage
  <2>4. \A b \in Actor : op'[b].at \in {"saving", "setting", "undo", "renaming", "unrenaming", "unnaming"} => op'[b].obj \in Durable
    BY <1>5, <1>8, <1>9 DEF RInv, RowsFollow, Forgotten
  <2> QED BY <2>2, <2>3, <2>4 DEF RowsFollow, Forgotten
<1>19. SweepIsComplete'
  BY <1>3 DEF RInv, SweepIsComplete, Swept, history, stopping
<1>20. LeasesAreCounted'
  <2>1. \A b \in Actor : op[b].at \in Using => resources'[op[b].name].obj = op[b].obj
    <3>1. \A b \in Actor : op[b].at \in Using => op[b].name \in Name /\ resources[op[b].name].obj = op[b].obj /\ op[b].obj # None
      BY DEF RInv, LeasesAreCounted, NamesAreClaimed
    <3>2. \A b \in Actor : op[b].at \in Using => op[b].obj # o
      BY <1>11 DEF Leasing, Using
    <3> QED BY <1>1, <1>12, <3>1, <3>2
  <2>2. ASSUME NEW x \in Name, NEW q \in Object, resources'[x].open, resources'[x].obj = q
        PROVE  /\ resources'[x].uses = Cardinality(Leasing(q))
               /\ \A v \in Worker : resources'[x].users[v] = Cardinality(Tracking(q, v))
    <3>1. x # m /\ x # n
      BY <1>2, <1>6, <2>2
    <3> QED BY <1>6, <2>2, <3>1 DEF RInv, LeasesAreCounted
  <2>3. Only(a) /\ op[a].at \notin Using /\ op'[a].at \notin Using
    BY <1>5, <1>7, <1>9 DEF Begins, Using
  <2>4. \A x \in Name, q \in Object : Holds(a, x)' /\ op'[a].obj = q => Leasing(q) = {}
    BY <1>9, <1>11
  <2> QED BY <1>3, <2>1, <2>2, <2>3, <2>4, Leases_Change
<1> QED BY <1>14, <1>15, <1>16, <1>17, <1>18, <1>19, <1>20 DEF RInv

(* The lifetime of an entry is changed. *)
LEMMA UpdateLifetime_RInv ==
    ASSUME RInv, NEW a \in Caller, NEW n \in Name, NEW p \in BOOLEAN, UpdateLifetime(a, n, p)
    PROVE  RInv'
<1>1. PICK e \in Entry, o \in Object : e = resources[n] /\ o = e.obj /\ o \in used /\ o # None
  BY Present_Entry DEF UpdateLifetime
<1>2. PICK l \in Lives : l = IF p THEN "permanent" ELSE e.life
  BY <1>1 DEF Entry, Lives
<1>3. PICK e2 \in Entry : e2 = [e EXCEPT !.life = l] /\ e2.obj = o /\ e2.open = e.open /\ e2.uses = e.uses /\ e2.users = e.users
  BY <1>1, Entry_Life
<1>4. a \in Actor /\ Present(n) /\ e.open /\ UNCHANGED <<accepting, reserved, storage, doomed, stopping, history>>
  BY <1>1, Constants_Facts DEF UpdateLifetime
<1>5. Sets(n, e2) /\ resources' \in [Name -> Entry]
  <2>1. Change(n, e2)
    BY <1>1, <1>2, <1>3 DEF UpdateLifetime
  <2> QED BY <2>1, Change_Sets DEF RInv
<1>6. /\ Only(a) /\ op' \in [Actor -> Activity] /\ op[a].at = "idle" /\ op'[a].at \in {"idle", "updating"}
      /\ op'[a].at = "updating" => op'[a].name = n
  <2> DEFINE new == [Idle EXCEPT !.at = "updating", !.name = n, !.obj = o, !.life = l, !.was = e.life]
  <2>1. new \in Activity /\ new.at = "updating" /\ new.name = n
    BY <1>1, <1>2, Constants_Facts DEF Activity, Idle, Stages, Lives, Entry
  <2>2. CASE Start(a, new)
    <3> HIDE DEF new
    <3>1. Begins(a, new) /\ op' \in [Actor -> Activity]
      BY <1>4, <2>1, <2>2, Start_Begins DEF RInv
    <3> QED BY <2>1, <3>1 DEF Begins, Idle
  <2>3. CASE MayStart(a) /\ UNCHANGED op
    BY <2>3 DEF MayStart, Idle, Only, RInv, Typed
  <2> QED BY <1>1, <1>2, <2>2, <2>3 DEF UpdateLifetime
<1>7. \A m \in Name : resources'[m].obj = resources[m].obj /\ resources'[m].open = resources[m].open
  BY <1>1, <1>3, <1>5 DEF Sets
<1>8. \A b \in Actor, m \in Name : Holds(b, m)' <=> Holds(b, m)
  BY <1>6 DEF Only, Holds, Destroyers, Renamers
<1>9. \A b \in Actor, m \in Name : Holds(b, m) => b # a /\ op'[b] = op[b]
  BY <1>6 DEF Only, Holds, Destroyers, Renamers
<1>10. Typed'
  BY <1>4, <1>5, <1>6, <1>7 DEF RInv, Typed, storage, stopping, history, Present
<1>11. NamesAreClaimed'
  BY <1>4, <1>6, <1>7 DEF RInv, NamesAreClaimed, Claims, Only, Present, Reserving, Making, Renamers, Destroyers, Using
<1>12. HoldersAreAlone'
  BY <1>7, <1>8, <1>9 DEF RInv, HoldersAreAlone, Present
<1>13. ObjectsAreKept'
  BY <1>4, <1>6, <1>7 DEF RInv, ObjectsAreKept, Only, Present, Making, Registered, Creating, history
<1>14. RowsFollow'
  <2>1. \A m \in Name : Present(m)' /\ resources'[m].obj \in Durable =>
          \/ rows'[m] = resources'[m].obj
          \/ \E b \in Actor : Holds(b, m)' /\ op'[b].at \in {"removing", "renaming", "unrenaming", "unnaming"}
          \/ Forgotten(m)'
    BY <1>4, <1>7, <1>8, <1>9 DEF RInv, RowsFollow, Forgotten, Present, storage
  <2> QED BY <1>4, <1>6, <2>1 DEF RInv, RowsFollow, Forgotten, Only, storage
<1>15. SweepIsComplete'
  BY <1>4 DEF RInv, SweepIsComplete, Swept, history, stopping
<1>16. LeasesAreCounted'
  <2>1. \A m \in Name : ~Holds(a, m)'
    BY <1>6 DEF Holds, Destroyers, Renamers
  <2>2. e2.uses = Cardinality(Leasing(o)) /\ \A w \in Worker : e2.users[w] = Cardinality(Tracking(o, w))
    BY <1>1, <1>3, <1>4, Open_Counts
  <2> QED BY <1>1, <1>3, <1>4, <1>5, <1>6, <2>1, <2>2, Leases_Touch DEF Using
<1> QED BY <1>10, <1>11, <1>12, <1>13, <1>14, <1>15, <1>16 DEF RInv

(* It is changed back. *)
LEMMA RollbackLifetime_RInv ==
    ASSUME RInv, NEW a \in Actor, RollbackLifetime(a)
    PROVE  RInv'
<1>1. op[a].at = "rollback" /\ Leaves(a) /\ op' \in [Actor -> Activity]
  BY Return_Leaves DEF RInv, RollbackLifetime
<1>2. UNCHANGED <<accepting, reserved, storage, doomed, stopping, history>>
  BY DEF RollbackLifetime
<1>3. PICK n \in Name, l \in Lives : n = op[a].name /\ l = op[a].was
  BY <1>1 DEF RInv, NamesAreClaimed, Typed, Activity
<1>4. \/ resources' = resources
      \/ Present(n) /\ Change(n, [resources[n] EXCEPT !.life = l])
  BY <1>3 DEF RollbackLifetime
<1>5. /\ resources' \in [Name -> Entry]
      /\ \A m \in Name : resources'[m].obj = resources[m].obj /\ resources'[m].open = resources[m].open
      /\ \A m \in Name : resources'[m].uses = resources[m].uses /\ resources'[m].users = resources[m].users
  <2>1. CASE resources' = resources
    BY <2>1 DEF RInv, Typed
  <2>2. CASE Present(n) /\ Change(n, [resources[n] EXCEPT !.life = l])
    <3>1. PICK e \in Entry : e = resources[n]
      BY <2>2, Present_Entry
    <3>2. PICK e2 \in Entry : e2 = [e EXCEPT !.life = l] /\ e2.obj = e.obj /\ e2.open = e.open /\ e2.uses = e.uses /\ e2.users = e.users
      BY Entry_Life
    <3>3. Sets(n, e2) /\ resources' \in [Name -> Entry]
      BY <2>2, <3>1, <3>2, Change_Sets DEF RInv
    <3> QED BY <3>1, <3>2, <3>3 DEF Sets
  <2> QED BY <1>4, <2>1, <2>2
<1>6. \A b \in Actor, m \in Name : Holds(b, m)' <=> Holds(b, m)
  BY <1>1 DEF Leaves, Only, Holds, Destroyers, Renamers
<1>7. \A b \in Actor, m \in Name : Holds(b, m) => b # a /\ op'[b] = op[b]
  BY <1>1 DEF Leaves, Only, Holds, Destroyers, Renamers
<1>8. Typed'
  BY <1>1, <1>2, <1>5 DEF RInv, Typed, storage, stopping, history, Present
<1>9. NamesAreClaimed'
  BY <1>1, <1>2, <1>5 DEF RInv, NamesAreClaimed, Claims, Leaves, Only, Present, Reserving, Making, Renamers, Destroyers, Using
<1>10. HoldersAreAlone'
  BY <1>5, <1>6, <1>7 DEF RInv, HoldersAreAlone, Present
<1>11. ObjectsAreKept'
  BY <1>1, <1>2, <1>5 DEF RInv, ObjectsAreKept, Leaves, Only, Present, Making, Registered, Creating, history
<1>12. RowsFollow'
  <2>1. \A m \in Name : Present(m)' /\ resources'[m].obj \in Durable =>
          \/ rows'[m] = resources'[m].obj
          \/ \E b \in Actor : Holds(b, m)' /\ op'[b].at \in {"removing", "renaming", "unrenaming", "unnaming"}
          \/ Forgotten(m)'
    BY <1>2, <1>5, <1>6, <1>7 DEF RInv, RowsFollow, Forgotten, Present, storage
  <2> QED BY <1>1, <1>2, <2>1 DEF RInv, RowsFollow, Forgotten, Leaves, Only, storage
<1>13. SweepIsComplete'
  BY <1>1, <1>2, <1>3, <1>4, <1>5, <1>6, <1>7 DEF RInv, SweepIsComplete, Swept, registry, history, stopping
<1>14. LeasesAreCounted'
  <2>1. \A b \in Actor : op[b].at \in Using => resources'[op[b].name].obj = op[b].obj
    BY <1>5 DEF RInv, LeasesAreCounted, NamesAreClaimed
  <2>2. \A x \in Name, q \in Object : resources'[x].open /\ resources'[x].obj = q =>
          /\ resources'[x].uses = Cardinality(Leasing(q))
          /\ \A v \in Worker : resources'[x].users[v] = Cardinality(Tracking(q, v))
    BY <1>5 DEF RInv, LeasesAreCounted
  <2> QED BY <1>1, <1>6, <1>7, <2>1, <2>2, Leases_Change DEF Leaves, Using
<1> QED BY <1>8, <1>9, <1>10, <1>11, <1>12, <1>13, <1>14 DEF RInv

(* An operation is interrupted. *)
LEMMA Interrupt_RInv ==
    ASSUME RInv, NEW a \in Actor, Interrupt(a)
    PROVE  RInv'
<1>1. /\ UNCHANGED <<registry, storage, doomed, stopping, used>> /\ op[a] \in Activity
      /\ gone' = IF op[a].at = "discard" THEN gone \cup {op[a].obj} ELSE gone
      /\ abandoned' = IF op[a].at = "undo" THEN abandoned \cup {op[a].obj} ELSE abandoned
  BY DEF Interrupt, RInv, Typed
<1>2. PICK s \in Stages :
        /\ \/ op[a].at \in {"idle", "reserved", "evicting", "updating", "rollback"} /\ s = "dead"
           \/ op[a].at \in {"making", "undo", "discard", "unrenaming"} /\ s = "leaving"
           \/ op[a].at \in {"saving", "setting"} /\ s = "undo"
           \/ op[a].at \in {"refreshing", "using"} /\ s = "releasing"
           \/ op[a].at \in {"cleaning", "erasing"} /\ s = "restoring"
           \/ op[a].at = "resetting" /\ s = "again"
           \/ op[a].at = "renaming" /\ s = "unrenaming"
        /\ op' = [op EXCEPT ![a] = IF s = "dead" THEN Dead ELSE [op[a] EXCEPT !.at = s, !.hit = TRUE]]
  <2>1. Aftermath(op[a].at) # op[a].at
    BY DEF Interrupt
  <2>2. op' = [op EXCEPT ![a] = IF Aftermath(op[a].at) = "dead" THEN Dead
                                ELSE [op[a] EXCEPT !.at = Aftermath(op[a].at), !.hit = TRUE]]
    BY DEF Interrupt
  <2>3. Aftermath(op[a].at) \in Stages
    BY <1>1 DEF Aftermath, Stages, Activity
  <2>4. \/ op[a].at \in {"idle", "reserved", "evicting", "updating", "rollback"} /\ Aftermath(op[a].at) = "dead"
        \/ op[a].at \in {"making", "undo", "discard", "unrenaming"} /\ Aftermath(op[a].at) = "leaving"
        \/ op[a].at \in {"saving", "setting"} /\ Aftermath(op[a].at) = "undo"
        \/ op[a].at \in {"refreshing", "using"} /\ Aftermath(op[a].at) = "releasing"
        \/ op[a].at \in {"cleaning", "erasing"} /\ Aftermath(op[a].at) = "restoring"
        \/ op[a].at = "resetting" /\ Aftermath(op[a].at) = "again"
        \/ op[a].at = "renaming" /\ Aftermath(op[a].at) = "unrenaming"
    BY <2>1 DEF Aftermath
  <2> QED BY <2>2, <2>3, <2>4
<1>3. /\ Only(a) /\ op' \in [Actor -> Activity] /\ op'[a].at = s
      /\ s # "dead" => /\ op'[a].name = op[a].name /\ op'[a].to = op[a].to /\ op'[a].obj = op[a].obj
                       /\ op'[a].tracked = op[a].tracked
  <2> DEFINE new == IF s = "dead" THEN Dead ELSE [op[a] EXCEPT !.at = s, !.hit = TRUE]
  <2>1. /\ new \in Activity /\ new.at = s
        /\ s # "dead" => new.name = op[a].name /\ new.to = op[a].to /\ new.obj = op[a].obj /\ new.tracked = op[a].tracked
    <3>1. CASE s = "dead"
      BY <3>1, Idle_Type DEF Dead, Idle
    <3>2. CASE s # "dead"
      BY <1>1, <3>2 DEF Activity
    <3> QED BY <3>1, <3>2
  <2>2. op' = [op EXCEPT ![a] = new]
    BY <1>2
  <2> HIDE DEF new
  <2> QED BY <2>1, <2>2, Update_Op DEF RInv
<1>4. \A b \in Actor, m \in Name : b # a => (Holds(b, m)' <=> Holds(b, m)) /\ op'[b] = op[b]
  BY <1>3 DEF Only, Holds
<1>5. \A m \in Name : Holds(a, m)' => Holds(a, m) /\ op'[a].obj = op[a].obj
  BY <1>2, <1>3 DEF Holds, Destroyers, Renamers
<1>6. \A m \in Name : Holds(a, m) /\ op[a].at \in {"removing", "renaming", "unnaming"} =>
        Holds(a, m)' /\ op'[a].at \in {"removing", "renaming", "unrenaming", "unnaming"}
  BY <1>2, <1>3 DEF Holds, Destroyers, Renamers
<1>7. /\ op[a].at \in {"discard", "undo"} => op[a].obj \in used
      /\ op[a].at = "undo" => op[a].obj \in Durable
  BY DEF RInv, ObjectsAreKept, Making, RowsFollow, Forgotten
<1>8. Typed'
  BY <1>1, <1>3, <1>7 DEF RInv, Typed, registry, storage, stopping, Present
<1>9. NamesAreClaimed'
  <2>1. \A b \in Actor :
          /\ op'[b].at \in Reserving => reserved'[b] = op'[b].name /\ op'[b].name \in Name
          /\ reserved'[b] # NoName => op'[b].at \in Reserving \cup {"leaving", "dead"}
          /\ op'[b].at \in Destroyers \cup Using \cup {"updating", "rollback", "resetting", "again"} => op'[b].name \in Name
          /\ op'[b].at \in Renamers => op'[b].to \in Name
    <3>1. /\ op'[a].at \in Reserving => reserved[a] = op'[a].name /\ op'[a].name \in Name
          /\ reserved[a] # NoName => op'[a].at \in Reserving \cup {"leaving", "dead"}
          /\ op'[a].at \in Destroyers \cup Using \cup {"updating", "rollback", "resetting", "again"} => op'[a].name \in Name
          /\ op'[a].at \in Renamers => op'[a].to \in Name
      BY <1>2, <1>3 DEF RInv, NamesAreClaimed, Reserving, Making, Renamers, Destroyers, Using
    <3> QED BY <1>1, <1>3, <3>1 DEF Only, RInv, NamesAreClaimed, registry
  <2>2. \A b \in Actor, x \in Name : Claims(b, x)' => Claims(b, x)
    <3>1. \A x : Claims(a, x)' => Claims(a, x)
      <4>1. op[a].at = "leaving" => op'[a].at = "leaving"
        BY <1>2
      <4> QED BY <1>1, <4>1 DEF Claims, registry
    <3> QED BY <1>1, <1>4, <3>1 DEF Claims, registry
  <2> QED BY <1>1, <2>1, <2>2 DEF RInv, NamesAreClaimed, Present, registry
<1>10. HoldersAreAlone'
  BY <1>1, <1>4, <1>5 DEF RInv, HoldersAreAlone, Present, registry
<1>11. ObjectsAreKept'
  <2>1. op'[a].at \in Making => op[a].at \in Making /\ op'[a].obj = op[a].obj
    BY <1>2, <1>3 DEF Making
  <2>2. \A b \in Actor : op'[b].at \in Making => op[b].at \in Making /\ op'[b].obj = op[b].obj
    BY <1>3, <2>1 DEF Only
  <2>3. ASSUME NEW o \in used', o \notin gone' \cup abandoned'
        PROVE  Registered(o)' \cup Creating(o)' # {}
    <3>1. o \in used /\ o \notin gone \cup abandoned
      BY <1>1, <2>3
    <3>2. PICK x : x \in Registered(o) \cup Creating(o)
      BY <3>1 DEF RInv, ObjectsAreKept
    <3>3. x \in Registered(o) => x \in Registered(o)'
      BY <1>1 DEF Registered, registry
    <3>4. x \in Creating(o) => x \in Creating(o)'
      BY <1>1, <1>2, <1>3, <1>4, <2>3 DEF Creating
    <3> QED BY <3>2, <3>3, <3>4
  <2>4. resources' = resources /\ used' = used
    BY <1>1 DEF registry
  <2> QED BY <2>2, <2>3, <2>4 DEF RInv, ObjectsAreKept, Present
<1>12. RowsFollow'
  <2>1. \A m \in Name : Present(m)' /\ resources'[m].obj \in Durable =>
          \/ rows'[m] = resources'[m].obj
          \/ \E b \in Actor : Holds(b, m)' /\ op'[b].at \in {"removing", "renaming", "unrenaming", "unnaming"}
          \/ Forgotten(m)'
    <3> SUFFICES ASSUME NEW m \in Name, Present(m)', resources'[m].obj \in Durable
                 PROVE  \/ rows'[m] = resources'[m].obj
                        \/ \E b \in Actor : Holds(b, m)' /\ op'[b].at \in {"removing", "renaming", "unrenaming", "unnaming"}
                        \/ Forgotten(m)'
      OBVIOUS
    <3>1. /\ Present(m) /\ resources[m].obj \in Durable /\ rows' = rows /\ resources' = resources
      BY <1>1 DEF Present, registry, storage
    <3>2. CASE rows[m] = resources[m].obj
      BY <3>1, <3>2
    <3>3. CASE Forgotten(m)
      BY <1>4, <1>5, <3>1, <3>3 DEF Forgotten
    <3>4. CASE \E b \in Actor : Holds(b, m) /\ op[b].at \in {"removing", "renaming", "unrenaming", "unnaming"}
      <4>1. PICK b \in Actor : Holds(b, m) /\ op[b].at \in {"removing", "renaming", "unrenaming", "unnaming"}
        BY <3>4
      <4>2. CASE b = a /\ op[a].at = "unrenaming"
        <5>1. \A c \in Actor : ~Holds(c, m)'
          BY <1>2, <1>3, <1>4, <4>1, <4>2, Holds_Apart DEF Holds, Destroyers, Renamers
        <5> QED BY <3>1, <4>1, <5>1, Holds_Apart DEF Forgotten
      <4> QED BY <1>4, <1>6, <4>1, <4>2
    <3> QED BY <3>1, <3>2, <3>3, <3>4 DEF RInv, RowsFollow, Forgotten
  <2>2. /\ op'[a].obj \in Durable /\ op'[a].at \in {"setting", "register", "renaming", "unrenaming", "unnaming"}
             => rows[op'[a].name] = op'[a].obj
        /\ op'[a].at \in {"saving", "setting", "undo", "renaming", "unrenaming", "unnaming"} => op'[a].obj \in Durable
    BY <1>2, <1>3 DEF RInv, RowsFollow, Forgotten
  <2> QED BY <1>1, <1>3, <2>1, <2>2 DEF Only, RInv, RowsFollow, Forgotten, storage
<1>13. SweepIsComplete'
  BY <1>1, <1>2, <1>3, <1>4, <1>5, <1>6, <1>7 DEF RInv, SweepIsComplete, Swept, registry, history, stopping
<1>14. LeasesAreCounted'
  <2>1. /\ op[a].at \in Using <=> op'[a].at \in Using
        /\ op[a].at \in Using => op'[a].obj = op[a].obj /\ op'[a].tracked = op[a].tracked /\ op'[a].name = op[a].name
        /\ op[a].at = "evicting" => \A m \in Name : ~Holds(a, m)'
    BY <1>2, <1>3 DEF Using, Holds, Destroyers, Renamers
  <2> QED BY <1>1, <1>3, <1>5, <2>1, Leases_Frame DEF registry
<1> QED BY <1>8, <1>9, <1>10, <1>11, <1>12, <1>13, <1>14 DEF RInv

(* The shutdown marks every entry as unavailable. *)
LEMMA MarkAll_RInv ==
    ASSUME RInv, MarkAll
    PROVE  RInv'
<1>1. /\ main = "gates" /\ main' = "sweep" /\ op' = op
      /\ UNCHANGED <<accepting, reserved, storage, doomed, history>>
      /\ \A a \in Actor : reserved[a] = NoName
  BY DEF MarkAll, GatesPut
<1>2. /\ resources' = [n \in Name |-> [resources[n] EXCEPT !.open = FALSE]]
      /\ left' = {[obj |-> resources[n].obj,
                   users |-> IF resources[n].open THEN Users(resources[n]) ELSE {}]
                  : n \in {m \in Name : Present(m)}}
  BY DEF MarkAll
<1>3. /\ resources' \in [Name -> Entry]
      /\ \A n \in Name : resources'[n].obj = resources[n].obj /\ ~resources'[n].open
  <2>1. \A n \in Name : resources[n] \in Entry
    BY DEF RInv, Typed
  <2>2. \A n \in Name : LET c == [resources[n] EXCEPT !.open = FALSE] IN c \in Entry /\ c.obj = resources[n].obj /\ c.open = FALSE
    BY <2>1 DEF Entry
  <2> HIDE DEF Entry
  <2> QED BY <1>2, <2>2
<1>4. /\ left' \subseteq [obj : Object, users : SUBSET Worker]
      /\ \A r \in left' : r.obj \in used
  <2>1. \A n \in Name : Present(n) => resources[n].obj \in Object /\ resources[n].obj \in used
    BY Present_Entry
  <2>2. \A n \in Name : Users(resources[n]) \subseteq Worker
    BY DEF Users
  <2> QED BY <1>2, <2>1, <2>2
<1>5. \A n \in Name : Present(n) => \E r \in left' : r.obj = resources[n].obj
  <2>1. ASSUME NEW n \in Name, Present(n) PROVE \E r \in left' : r.obj = resources[n].obj
    <3> DEFINE r == [obj |-> resources[n].obj, users |-> IF resources[n].open THEN Users(resources[n]) ELSE {}]
    <3>1. r \in left'
      BY <1>2, <2>1
    <3>2. r.obj = resources[n].obj
      OBVIOUS
    <3> QED BY <3>1, <3>2
  <2> QED BY <2>1
<1>6. Typed'
  BY <1>1, <1>3, <1>4 DEF RInv, Typed, storage, history, Present
<1>7. NamesAreClaimed'
  BY <1>1, <1>3 DEF RInv, NamesAreClaimed, Claims, Present
<1>8. HoldersAreAlone'
  BY <1>1, <1>3 DEF RInv, HoldersAreAlone, Holds, Present
<1>9. ObjectsAreKept'
  BY <1>1, <1>3 DEF RInv, ObjectsAreKept, Present, Registered, Creating, history
<1>10. RowsFollow'
  BY <1>1, <1>3 DEF RInv, RowsFollow, Forgotten, Holds, Present, storage
<1>11. SweepIsComplete'
  <2>1. \A a \in Actor : op[a].at \notin Reserving
    BY <1>1, Constants_Facts DEF RInv, NamesAreClaimed
  <2>2. \A o \in used : o \notin gone \cup abandoned => \E n \in Name : Present(n) /\ resources[n].obj = o
    BY <2>1, Constants_Facts DEF RInv, Typed, ObjectsAreKept, Registered, Creating, Reserving, Making, Present
  <2> QED BY <1>1, <1>4, <1>5, <2>2 DEF RInv, Typed, SweepIsComplete, Swept, history
<1>12. LeasesAreCounted'
  <2>1. op' = op /\ \A n \in Name : resources'[n].obj = resources[n].obj /\ ~resources'[n].open
    BY <1>1, <1>3
  <2>2. \A a \in Actor : op[a].at \in Using => op[a].name \in Name
    BY DEF RInv, NamesAreClaimed
  <2> QED BY <2>1, <2>2 DEF RInv, LeasesAreCounted, Leasing, Tracking, Holds
<1> QED BY <1>6, <1>7, <1>8, <1>9, <1>10, <1>11, <1>12 DEF RInv

(* A caller begins to destroy a resource. *)
LEMMA BeginDestroy_RInv ==
    ASSUME RInv, NEW a \in Caller, NEW n \in Name, BeginDestroy(a, n)
    PROVE  RInv'
<1>1. PICK e \in Entry, o \in Object : e = resources[n] /\ o = e.obj /\ o \in used /\ o # None
  BY Present_Entry DEF BeginDestroy
<1> DEFINE new == [Idle EXCEPT !.at = "evicting", !.name = n, !.obj = o, !.evict = Users(e)]
<1>2. PICK e2 \in Entry : e2 = [e EXCEPT !.open = FALSE] /\ e2.obj = o /\ e2.open = FALSE
  BY <1>1, Entry_Closed
<1>3. a \in Actor /\ Present(n) /\ e.open /\ AllTracked(e) /\ UNCHANGED <<accepting, reserved, storage, doomed, stopping, history>>
  BY <1>1, Constants_Facts DEF BeginDestroy
<1>4. new \in Activity /\ new.at = "evicting" /\ new.name = n /\ new.obj = o /\ new.evict = Users(e)
  BY Constants_Facts DEF Activity, Idle, Stages, Lives, Users
<1>5. Sets(n, e2) /\ resources' \in [Name -> Entry]
  BY <1>1, <1>2, Change_Sets DEF RInv, BeginDestroy
<1>6. Begins(a, new) /\ op' \in [Actor -> Activity] /\ op[a].at = "idle"
  <2>1. Start(a, new)
    BY <1>1 DEF BeginDestroy
  <2> HIDE DEF new
  <2>2. Begins(a, new) /\ op' \in [Actor -> Activity]
    BY <1>3, <1>4, <2>1, Start_Begins DEF RInv
  <2> QED BY <2>2 DEF Begins, Idle
<1>7. \A b \in Actor : ~Holds(b, n)
  BY <1>1, <1>3, Open_Entry
<1>8. \A c \in Leasing(o) : WorkerOf[c] \in Users(e)
  BY <1>1, <1>3, Tracked_Users
<1>9. \A b \in Actor, m \in Name : b # a => (Holds(b, m)' <=> Holds(b, m)) /\ op'[b] = op[b]
  BY <1>6 DEF Begins, Only, Holds
<1>10. (\A m : Holds(a, m)' <=> m = n) /\ op'[a].obj = o /\ op'[a].at = "evicting" /\ op'[a].evict = Users(e)
  BY <1>4, <1>6 DEF Begins, Holds, Destroyers, Renamers
<1>11. \A m \in Name : resources'[m].obj = resources[m].obj
  BY <1>1, <1>2, <1>5 DEF Sets
<1> HIDE DEF new
<1>12. Typed'
  <2>1. \A m \in Name : ~Present(m)' => ~resources'[m].open
    BY <1>1, <1>2, <1>5 DEF RInv, Typed, Present, Sets
  <2> QED BY <1>3, <1>5, <1>6, <2>1 DEF RInv, Typed, storage, stopping, history
<1>13. NamesAreClaimed'
  BY <1>1, <1>2, <1>3, <1>4, <1>5, <1>6, <1>7, <1>8, <1>9, <1>10, <1>11 DEF RInv, Moves, Leaves, Begins, Sets, Only, NamesAreClaimed, Claims, Present, Reserving, Making, Renamers, Destroyers, Using, registry
<1>14. HoldersAreAlone'
  <2>1. Present(n)' /\ resources'[n].obj = o /\ ~resources'[n].open
    BY <1>1, <1>2, <1>5 DEF Sets, Present
  <2>2. \A m \in Name : m # n => resources'[m] = resources[m]
    BY <1>5 DEF Sets
  <2> QED BY <1>7, <1>9, <1>10, <2>1, <2>2 DEF RInv, HoldersAreAlone, Present
<1>15. ObjectsAreKept'
  BY <1>1, <1>2, <1>3, <1>4, <1>5, <1>6, <1>7, <1>8, <1>9, <1>10, <1>11 DEF RInv, Moves, Leaves, Begins, Sets, Only, ObjectsAreKept, Present, Making, Registered, Creating, registry, history
<1>16. RowsFollow'
  BY <1>1, <1>2, <1>3, <1>4, <1>5, <1>6, <1>7, <1>8, <1>9, <1>10, <1>11 DEF RInv, Moves, Leaves, Begins, Sets, Only, RowsFollow, Forgotten, Holds, Present, Renamers, Destroyers, registry, storage
<1>17. SweepIsComplete'
  BY <1>1, <1>2, <1>3, <1>4, <1>5, <1>6, <1>7, <1>8, <1>9, <1>10, <1>11 DEF RInv, SweepIsComplete, Swept, registry, history, stopping
<1>18. LeasesAreCounted'
  <2>1. \A m \in Name, q \in Object : Holds(a, m)' /\ op'[a].obj = q =>
          \A c \in Leasing(q) : op'[a].at = "evicting" /\ WorkerOf[c] \in op'[a].evict
    BY <1>8, <1>10
  <2>2. op[a].at \notin Using /\ op'[a].at \notin Using /\ Only(a)
    BY <1>6, <1>10 DEF Begins, Using
  <2> QED BY <1>1, <1>2, <1>3, <1>5, <2>1, <2>2, Leases_Touch
<1> QED BY <1>12, <1>13, <1>14, <1>15, <1>16, <1>17, <1>18 DEF RInv

----------------------------------------------------------------------------
(* A stuttering step changes nothing. *)
LEMMA Stuttering_RInv ==
    ASSUME RInv, UNCHANGED vars
    PROVE  RInv'
<1>1. /\ op' = op /\ resources' = resources /\ reserved' = reserved /\ accepting' = accepting
      /\ rows' = rows /\ lifeRows' = lifeRows /\ doomed' = doomed /\ main' = main /\ left' = left
      /\ used' = used /\ gone' = gone /\ abandoned' = abandoned
  BY DEF vars, registry, storage, stopping, history
<1>2. Typed'
  BY <1>1 DEF RInv, Typed, Present
<1>3. NamesAreClaimed'
  BY <1>1 DEF RInv, NamesAreClaimed, Claims, Present
<1>4. HoldersAreAlone'
  BY <1>1 DEF RInv, HoldersAreAlone, Holds, Present
<1>5. ObjectsAreKept'
  BY <1>1 DEF RInv, ObjectsAreKept, Present, Registered, Creating
<1>6. RowsFollow'
  BY <1>1 DEF RInv, RowsFollow, Forgotten, Holds, Present
<1>7. SweepIsComplete'
  BY <1>1 DEF RInv, SweepIsComplete, Swept
<1>8. LeasesAreCounted'
  BY <1>1 DEF RInv, LeasesAreCounted, Leasing, Tracking, Holds
<1> QED BY <1>2, <1>3, <1>4, <1>5, <1>6, <1>7, <1>8 DEF RInv

(* At the start nothing is registered. *)
LEMMA Init_RInv == Init => RInv
<1> SUFFICES ASSUME Init PROVE RInv
  OBVIOUS
<1>1. /\ op \in [Actor -> Activity] /\ \A a \in Actor : op[a] = Idle /\ reserved[a] = NoName
      /\ \A a \in Actor : op[a].at = "idle" /\ op[a].obj = None
  BY Idle_Type DEF Init, Idle
<1>2. /\ rows \in [Name -> Object \cup {None}] /\ lifeRows \in [Name -> Lives]
      /\ \A n \in Name : rows[n] \in Durable \cup {None}
      /\ \A n, m \in Name : rows[n] = rows[m] => n = m \/ rows[n] = None
  BY Constants_Facts DEF Init
<1>3. \A n \in Name : /\ Restored(n) \in Entry /\ Restored(n).obj = rows[n]
                      /\ Restored(n).uses = 0 /\ \A w \in Worker : Restored(n).users[w] = 0
                      /\ Restored(n).open = (rows[n] # None)
  BY <1>2, Count_Type DEF Restored, NoEntry, NoUsers, Entry, Counts, Lives
<1>4. /\ resources \in [Name -> Entry]
      /\ \A n \in Name : /\ resources[n].obj = rows[n] /\ resources[n].uses = 0
                         /\ \A w \in Worker : resources[n].users[w] = 0
                         /\ resources[n].open = (rows[n] # None)
  <2>1. resources = [n \in Name |-> Restored(n)]
    BY DEF Init
  <2> HIDE DEF Entry
  <2> QED BY <1>3, <2>1
<1>5. used = {rows[n] : n \in Name} \ {None} /\ gone = {} /\ abandoned = {} /\ left = {} /\ main = "inner"
  BY DEF Init
<1>6. Typed
  <2>1. used \subseteq Object
    BY <1>2, <1>5
  <2>2. reserved \in [Actor -> Name \cup {NoName}] /\ accepting \in BOOLEAN /\ doomed = {}
    BY DEF Init
  <2> QED BY <1>1, <1>2, <1>4, <1>5, <2>1, <2>2 DEF Typed, Present
<1>7. NamesAreClaimed
  BY <1>1 DEF NamesAreClaimed, Claims, Reserving, Making, Renamers, Destroyers, Using
<1>8. HoldersAreAlone
  BY <1>1 DEF HoldersAreAlone, Holds, Renamers, Destroyers
<1>9. ObjectsAreKept
  <2>1. \A n \in Name : Present(n) => resources[n].obj \in used
    BY <1>4, <1>5 DEF Present
  <2>2. \A n, m \in Name : Present(n) /\ resources[n].obj = resources[m].obj => n = m
    BY <1>2, <1>4 DEF Present
  <2>3. \A a \in Actor : op[a].at \notin Making
    BY <1>1 DEF Making
  <2>4. \A o \in used : Registered(o) # {}
    BY <1>4, <1>5 DEF Registered
  <2> QED BY <2>1, <2>2, <2>3, <2>4 DEF ObjectsAreKept
<1>10. RowsFollow
  BY <1>1, <1>4 DEF RowsFollow, Forgotten, Present
<1>11. SweepIsComplete
  BY <1>5 DEF SweepIsComplete, Swept
<1>12. LeasesAreCounted
  <2>1. \A o : Leasing(o) = {} /\ \A w : Tracking(o, w) = {}
    BY <1>1 DEF Leasing, Tracking
  <2>2. \A o : Cardinality(Leasing(o)) = 0 /\ \A w : Cardinality(Tracking(o, w)) = 0
    BY <2>1, FS_EmptySet
  <2> QED BY <1>1, <1>4, <2>2 DEF LeasesAreCounted, Using, Holds, Renamers, Destroyers
<1> QED BY <1>6, <1>7, <1>8, <1>9, <1>10, <1>11, <1>12 DEF RInv

(* A caller begins one of the operations. *)
LEMMA Request_RInv ==
    ASSUME RInv, NEW c \in Caller, Request(c)
    PROVE  RInv'
<1>1. CASE "create" \in May[c] /\ \E n \in Name, life \in Lives : Reserve(c, n, life)
  BY <1>1, Reserve_RInv
<1>2. CASE "with" \in May[c] /\ \E n \in Name, tracked \in BOOLEAN : Acquire(c, n, tracked)
  BY <1>2, Acquire_RInv
<1>3. CASE "destroy" \in May[c] /\ \E n \in Name : BeginDestroy(c, n)
  BY <1>3, BeginDestroy_RInv
<1>4. CASE "rename" \in May[c] /\ \E n, m \in Name : BeginRename(c, n, m)
  BY <1>4, BeginRename_RInv
<1>5. CASE "lifetime" \in May[c] /\ \E n \in Name, p \in BOOLEAN : UpdateLifetime(c, n, p)
  BY <1>5, UpdateLifetime_RInv
<1>6. CASE "cancel" \in May[c] /\ \E w \in Worker : Cancel(c, w)
  BY <1>6, Cancel_RInv
<1> QED BY <1>1, <1>2, <1>3, <1>4, <1>5, <1>6 DEF Request

(* An actor goes on with its operation. *)
LEMMA Continue_RInv ==
    ASSUME RInv, NEW a \in Actor, Continue(a), ~overruled'
    PROVE  RInv'
<1>1. CASE EnterMask(a)
  BY <1>1, EnterMask_RInv
<1>2. CASE CreateObject(a)
  BY <1>2, CreateObject_RInv
<1>3. CASE SaveResource(a)
  BY <1>3, SaveResource_RInv
<1>4. CASE SetLifetime(a)
  BY <1>4, SetLifetime_RInv
<1>5. CASE Undo(a)
  BY <1>5, Undo_RInv
<1>6. CASE Discard(a)
  BY <1>6, Discard_RInv
<1>7. CASE Register(a)
  BY <1>7, Register_RInv
<1>8. CASE FinishReservation(a)
  BY <1>8, FinishReservation_RInv
<1>9. CASE Refresh(a)
  BY <1>9, Refresh_RInv
<1>10. CASE ReleaseUser(a)
  BY <1>10, ReleaseUser_RInv
<1>11. CASE EvictUser(a)
  BY <1>11, EvictUser_RInv
<1>12. CASE Evicted(a)
  BY <1>12, Evicted_RInv
<1>13. CASE Cleanup(a)
  BY <1>13, Cleanup_RInv
<1>14. CASE DeleteResource(a)
  BY <1>14, DeleteResource_RInv
<1>15. CASE RemoveDestroyed(a)
  BY <1>15, RemoveDestroyed_RInv
<1>16. CASE RestoreDestroyed(a)
  BY <1>16, RestoreDestroyed_RInv, RestoreAgain_RInv DEF RestoreDestroyed
<1>17. CASE ResetLifetime(a)
  BY <1>17, ResetLifetime_RInv
<1>18. CASE RenameResource(a)
  BY <1>18, RenameResource_RInv
<1>19. CASE FinishRename(a)
  BY <1>19, FinishRename_RInv
<1>20. CASE UnrenameResource(a)
  BY <1>20, UnrenameResource_RInv
<1>21. CASE RollbackRename(a)
  BY <1>21, RollbackRename_RInv
<1>22. CASE PersistLifetime(a)
  BY <1>22, PersistLifetime_RInv
<1>23. CASE RollbackLifetime(a)
  BY <1>23, RollbackLifetime_RInv
<1> QED BY <1>1, <1>2, <1>3, <1>4, <1>5, <1>6, <1>7, <1>8, <1>9, <1>10, <1>11, <1>12, <1>13, <1>14, <1>15, <1>16, <1>17, <1>18, <1>19, <1>20, <1>21, <1>22, <1>23 DEF Continue

(* Every step keeps the invariant, but for the one that overrules others. *)
LEMMA Next_RInv ==
    ASSUME RInv, [Next]_vars, ~overruled'
    PROVE  RInv'
<1>1. CASE \E c \in Caller : Request(c) \/ UseEnds(c)
  BY <1>1, Request_RInv, UseEnds_RInv, Constants_Facts
<1>2. CASE \E a \in Actor : Continue(a) \/ Interrupt(a)
  BY <1>2, Continue_RInv, Interrupt_RInv
<1>3. CASE Expire
  BY <1>3, BeginExpire_RInv DEF Expire
<1>4. CASE InnerEnds
  BY <1>4, InnerEnds_RInv
<1>5. CASE Shutdown
  BY <1>5, StopAccepting_RInv, MarkAll_RInv, ShutdownDone_RInv, SweepUser_RInv, SweepEntry_RInv DEF Shutdown
<1>6. CASE UNCHANGED vars
  BY <1>6, Stuttering_RInv
<1> QED BY <1>1, <1>2, <1>3, <1>4, <1>5, <1>6 DEF Next

----------------------------------------------------------------------------
(* What a second restoration undid stays undone: no step takes it back. *)
LEMMA Overruling ==
    ASSUME overruled \in BOOLEAN, [Next]_vars
    PROVE  overruled' \in BOOLEAN /\ (overruled => overruled')
<1>1. CASE \E c \in Caller : Request(c) \/ UseEnds(c)
  <2>1. UNCHANGED overruled
    <3> SUFFICES ASSUME NEW c \in Caller, Request(c) \/ UseEnds(c) PROVE UNCHANGED overruled
      BY <1>1
    <3>1. CASE UseEnds(c)
      BY <3>1 DEF UseEnds, history
    <3>2. CASE \/ \E n \in Name, life \in Lives : Reserve(c, n, life)
               \/ \E n \in Name, tracked \in BOOLEAN : Acquire(c, n, tracked)
               \/ \E n \in Name : BeginDestroy(c, n)
      BY <3>2 DEF Reserve, Acquire, BeginDestroy, history
    <3>3. CASE \/ \E n, m \in Name : BeginRename(c, n, m)
               \/ \E n \in Name, p \in BOOLEAN : UpdateLifetime(c, n, p)
               \/ \E w \in Worker : Cancel(c, w)
      BY <3>3 DEF BeginRename, UpdateLifetime, Cancel, history
    <3> QED BY <3>1, <3>2, <3>3 DEF Request
  <2> QED BY <2>1
<1>2. CASE \E a \in Actor : Continue(a) \/ Interrupt(a)
  <2> SUFFICES ASSUME NEW a \in Actor, Continue(a) \/ Interrupt(a)
               PROVE  overruled' \in BOOLEAN /\ (overruled => overruled')
    BY <1>2
  <2>1. CASE RestoreDestroyed(a)
    BY <2>1 DEF RestoreDestroyed
  <2>2. CASE Interrupt(a) \/ CreateObject(a) \/ Discard(a) \/ RemoveDestroyed(a)
    BY <2>2 DEF Interrupt, CreateObject, Discard, RemoveDestroyed
  <2>3. CASE \/ EnterMask(a) \/ SaveResource(a) \/ SetLifetime(a) \/ Undo(a) \/ Register(a)
             \/ FinishReservation(a) \/ Refresh(a) \/ ReleaseUser(a) \/ EvictUser(a) \/ Evicted(a)
    BY <2>3 DEF EnterMask, SaveResource, SetLifetime, Undo, Register, FinishReservation, Refresh, ReleaseUser, EvictUser, Evicted, history
  <2>4. CASE \/ Cleanup(a) \/ DeleteResource(a) \/ ResetLifetime(a) \/ RenameResource(a) \/ FinishRename(a)
             \/ UnrenameResource(a) \/ RollbackRename(a) \/ PersistLifetime(a) \/ RollbackLifetime(a)
    BY <2>4 DEF Cleanup, DeleteResource, ResetLifetime, RenameResource, FinishRename, UnrenameResource, RollbackRename, PersistLifetime, RollbackLifetime, history
  <2> QED BY <2>1, <2>2, <2>3, <2>4 DEF Continue
<1>3. CASE Expire \/ InnerEnds
  BY <1>3 DEF Expire, BeginExpire, InnerEnds, history
<1>4. CASE Shutdown
  BY <1>4 DEF Shutdown, StopAccepting, MarkAll, ShutdownDone, SweepUser, SweepEntry, history
<1>5. CASE UNCHANGED vars
  BY <1>5 DEF vars, history
<1> QED BY <1>1, <1>2, <1>3, <1>4, <1>5 DEF Next

IInv == overruled \in BOOLEAN /\ (~overruled => RInv)

(* The invariant holds, whatever creations, leases, destructions, renames, *)
(* expirations, cancellations and a shutdown interleave, until a second    *)
(* restoration undoes the work of others.                                  *)
THEOREM Invariance == Spec => []IInv
<1>1. Init => IInv
  BY Init_RInv DEF Init, IInv
<1>2. IInv /\ [Next]_vars => IInv'
  BY Next_RInv, Overruling DEF IInv
<1> QED BY <1>1, <1>2, PTL DEF Spec

(* Every variable keeps its type; no entry counts more users than there    *)
(* are threads, until a second restoration undoes the work of others.      *)
THEOREM TypeCorrect == Spec => [](~overruled => TypeOK)
<1>1. IInv => (~overruled => TypeOK)
  BY DEF IInv, RInv, Typed, TypeOK, Entry, Counts, Count, Activity
<1> QED BY <1>1, Invariance, PTL

(* No object is lost and none has two names, in createIn, renameIn and     *)
(* their rollbacks.                                                        *)
THEOREM OnePlace == Spec => []EveryObjectHasOnePlace
<1>1. ASSUME RInv, NEW o \in used
      PROVE  Cardinality(Registered(o)) + Cardinality(Creating(o)) <= 1
  <2>1. o # None
    BY <1>1, Constants_Facts DEF RInv, Typed
  <2>2. \A x : Cardinality({x}) = 1
    BY FS_Singleton
  <2>3. Cardinality({}) = 0
    BY FS_EmptySet
  <2>4. CASE \E n \in Name : n \in Registered(o)
    <3>1. PICK n \in Name : n \in Registered(o)
      BY <2>4
    <3>2. Registered(o) = {n}
      BY <1>1, <2>1, <3>1 DEF RInv, ObjectsAreKept, Registered, Present
    <3>3. Creating(o) = {}
      BY <1>1, <3>1 DEF RInv, ObjectsAreKept, Registered, Creating, Making
    <3> QED BY <2>2, <2>3, <3>2, <3>3
  <2>5. CASE Registered(o) = {}
    <3>1. CASE Creating(o) = {}
      BY <2>3, <2>5, <3>1
    <3>2. CASE \E a : a \in Creating(o)
      <4>1. PICK a : a \in Creating(o)
        BY <3>2
      <4>2. Creating(o) = {a}
        BY <1>1, <4>1 DEF RInv, ObjectsAreKept, Creating, Making
      <4> QED BY <2>2, <2>3, <2>5, <4>2
    <3> QED BY <3>1, <3>2
  <2> QED BY <2>4, <2>5 DEF Registered
<1>2. IInv => EveryObjectHasOnePlace
  BY <1>1 DEF IInv, EveryObjectHasOnePlace, RInv, ObjectsAreKept
<1> QED BY <1>2, Invariance, PTL

(* finishDestroy and the monitor run an object's cleanup alone: nobody     *)
(* leases the object, and no other destroyer cleans it up.                 *)
THEOREM AloneAtCleanup == Spec => []CleanupsAreAlone
<1>1. ASSUME RInv, NEW o \in used, NEW a \in Destroying(o)
      PROVE  Leasing(o) = {} /\ Destroying(o) = {a}
  <2>1. o \in Object /\ o # None
    BY <1>1, Constants_Facts DEF RInv, Typed
  <2>2. \A b \in Destroying(o) : b \in Actor /\ op[b].obj = o /\ op[b].name \in Name /\ Holds(b, op[b].name) /\ op[b].at # "evicting"
    BY <1>1 DEF Destroying, RInv, NamesAreClaimed, Destroyers, Holds
  <2>3. Leasing(o) = {}
    BY <1>1, <2>1, <2>2, Held_Entry
  <2>4. \A b \in Destroying(o) : resources[op[b].name].obj = o /\ Present(op[b].name)
    BY <1>1, <2>2, Holds_Apart
  <2>5. \A b \in Destroying(o) : op[b].name = op[a].name
    BY <1>1, <2>2, <2>4 DEF RInv, ObjectsAreKept
  <2>6. \A b \in Destroying(o) : b = a
    BY <1>1, <2>2, <2>5 DEF RInv, HoldersAreAlone
  <2> QED BY <2>3, <2>6
<1>2. IInv => CleanupsAreAlone
  <2> SUFFICES ASSUME RInv, NEW o \in used, NEW a \in Destroying(o)
               PROVE  Leasing(o) = {} /\ Cardinality(Destroying(o)) = 1
    BY DEF CleanupsAreAlone, IInv
  <2> QED BY <1>1, FS_Singleton
<1> QED BY <1>2, Invariance, PTL

(* A persistent resource that can be leased has its row under its name at  *)
(* any moment a crash could come.                                          *)
THEOREM LeasableSurvives == Spec => []LeasableIsDurable
<1>1. IInv => LeasableIsDurable
  <2> SUFFICES ASSUME RInv, NEW n \in Name, resources[n].open, resources[n].obj \in Durable
               PROVE  rows[n] = resources[n].obj
    BY DEF LeasableIsDurable, IInv
  <2>1. Present(n) /\ \A a \in Actor : ~Holds(a, n)
    BY Constants_Facts, Open_Entry DEF Present
  <2> QED BY <2>1 DEF RInv, RowsFollow, Forgotten
<1> QED BY <1>1, Invariance, PTL

(* runResourceManager returns only after all that is not persistent has    *)
(* been destroyed.                                                         *)
THEOREM ExitIsClean == Spec => []ExitDestroysEphemerals
<1>1. IInv => ExitDestroysEphemerals
  BY DEF IInv, RInv, SweepIsComplete, ExitDestroysEphemerals, Swept
<1> QED BY <1>1, Invariance, PTL
=============================================================================
