------------------------- MODULE ActiveThreadsProofs -------------------------
(***************************************************************************)
(* Safety properties of ActiveThreads, for any messages, senders, routes,  *)
(* halters, turn limits and faults.                                        *)
(***************************************************************************)
EXTENDS ActiveThreads, WellFoundedInduction, TLAPS

Has(s, x)  == \E i \in DOMAIN s : s[i] = x
Once(s, x) == \E i \in DOMAIN s : \A j \in DOMAIN s : s[j] = x <=> j = i

Registered(t) == thread[t].phase # "none"
Turning       == {"adding", "turn", "model", "update"}
Owning        == Running \cup Finishing \cup {"mark"}

(* A message is spent once it has a run of its own or has steered another. *)
Spent(x) == Registered(x) \/ taken[x] # None

Activity == [at : Stages, thread : Msg \cup {None}, base : Seq(Msg), text : Seq(Msg),
             keys : SUBSET Key, turns : Nat, how : {"running", "answered", "cut"},
             unwinding : BOOLEAN]
Thread   == [phase : Phases, queue : Seq(Msg), wake : BOOLEAN,
             current : Seq(Msg), done : Seq(Msg), keys : SUBSET Key]
Hand     == [at : {"idle", "look", "stored", "again", "await", "steer"},
             thread : Msg \cup {None}, refused : BOOLEAN]

Typed ==
    /\ arrived \in 0 .. MaxMsg
    /\ target \in [Msg -> Key \cup {Session, Fresh}]
    /\ sent \subseteq {"bot"} \X Msg /\ log \in Seq(Key)
    /\ hand \in Hand
    /\ act \in [Actor -> Activity]
    /\ marked \subseteq Msg
    /\ thread \in [Msg -> Thread]
    /\ active \in [ActiveKey -> Msg \cup {None}]
    /\ rows \in [Key -> Seq(Msg)] /\ faults \in 0 .. MaxFault
    /\ taken \in [Msg -> Msg \cup {None}]
    /\ known \subseteq Msg /\ unsaved \subseteq Msg /\ torn \subseteq Msg

(* The dispatcher works on the last message, which nobody has got yet.     *)
Dispatched ==
    /\ hand.at # "idle" => arrived \in Msg /\ act[arrived].at = "idle" /\ taken[arrived] = None
    /\ hand.at \in {"stored", "again", "await"} => target[arrived] \in Key
    /\ hand.at \in {"await", "steer"} => hand.thread \in Msg /\ Registered(hand.thread)
    /\ \A m \in Msg : act[m].at = "base" => OfSession(m)
    /\ \A m \in Msg : m > arrived => act[m].at = "idle" /\ taken[m] = None

(* A run is registered before it is worked on, found, steered or halted.   *)
RunsAreRegistered ==
    /\ \A m \in Msg : act[m].at \in {"idle"} \cup Unregistered => ~Registered(m)
    /\ \A m \in Msg : ~Registered(m) => thread[m] = NoThread
    /\ \A m \in Msg : act[m].at \in {"base", "register"} \cup Owning => act[m].thread = m
    /\ \A m \in Msg : act[m].at \in Owning => Registered(m)
    /\ \A m \in Msg : act[m].at = "resteer" => act[m].thread \in Msg /\ Registered(act[m].thread)
    /\ \A m \in Msg : act[m].at \notin {"cancel", "join", "read"}
    /\ \A h \in Halter : act[h].at \in Finishing \cup {"mark", "cancel", "join", "read"} =>
         act[h].thread \in Msg /\ Registered(act[h].thread)
    /\ \A h \in Halter : act[h].at \in Finishing \cup {"idle", "over", "mark", "cancel", "join", "read"}
    /\ \A k \in ActiveKey : active[k] # None => Registered(active[k])
    /\ \A m \in Msg : taken[m] # None =>
         Registered(taken[m]) /\ ~Registered(m) /\ act[m].at \in {"idle", "over"}

(* The session's key holds whatever run of the session is listed.          *)
SessionIsHeld == \A t \in Msg : OfSession(t) /\ Listed(t) => active[Session] = t

(* Only spent messages are in a transcript or a queue.                     *)
TextsAreSpent ==
    /\ \A a \in Actor, x \in Msg : Has(act[a].text, x) \/ Has(act[a].base, x) => Spent(x)
    /\ \A t \in Msg, x \in Msg :
         Has(thread[t].queue, x) \/ Has(thread[t].current, x) \/ Has(thread[t].done, x) => Spent(x)
    /\ \A k \in Key, x \in Msg : Has(rows[k], x) => Spent(x)

(* An accepted steer is once in the queue or once in the text of its run.  *)
Kept(t, x) ==
    \/ Once(act[t].text, x) /\ ~Has(thread[t].queue, x)
    \/ ~Has(act[t].text, x) /\ Once(thread[t].queue, x)

SteersAreKept ==
    /\ \A t \in Msg : act[t].how = "answered" =>
         /\ act[t].at \in Finishing \cup {"commit", "mark", "over"}
         /\ thread[t].phase \in {"completed", "finishing"}
    /\ \A t, x \in Msg : taken[x] = t =>
         /\ act[t].at \in Turning /\ Open(t) => Kept(t, x)
         /\ act[t].how = "answered" => Once(act[t].text, x)

(* The transcripts of a run contain the message it answers.                *)
TextsAreOwn ==
    /\ \A t \in Msg : Registered(t) => Has(thread[t].current, t)
    /\ \A t \in Msg : thread[t].done # <<>> => Has(thread[t].done, t)
    /\ \A a \in Actor : act[a].at \in Owning => Has(act[a].text, act[a].thread)
    /\ \A j \in Msg : Stored(<<"bot", j>>) => Has(rows[<<"bot", j>>], j)

(* A reply is an alias of its run only, where the transcript is stored.    *)
RepliesAreOwn ==
    /\ \A j \in Msg : active[<<"bot", j>>] # None =>
         active[<<"bot", j>>] = j /\ <<"bot", j>> \in thread[j].keys
    /\ \A j, t \in Msg : <<"bot", j>> \in thread[t].keys => j = t
    /\ \A j \in Msg, a \in Actor : <<"bot", j>> \in act[a].keys /\ act[a].at = "persist" => j = act[a].thread

(* Whoever finishes a run has its keys, and stores under all of them.      *)
FinishersStore ==
    /\ \A a \in Actor : act[a].at \in Finishing => thread[act[a].thread].phase = "finishing"
    /\ \A a \in Actor : act[a].at = "persist" => act[a].keys = thread[act[a].thread].keys
    /\ \A a \in Actor : act[a].at \in {"done", "remove"} =>
         \/ act[a].thread \in unsaved
         \/ \A k \in thread[act[a].thread].keys : Stored(k)

(* A known reply stays reachable, and its own run continues what it is to. *)
KnownIsReached == \A m \in known :
    /\ m <= arrived
    /\ \E j \in Msg :
         /\ target[m] = <<"bot", j>>
         /\ active[<<"bot", j>>] # None \/ Stored(<<"bot", j>>) \/ j \in unsaved
         /\ act[m].at # "idle" => Has(act[m].base, j) \/ j \in unsaved
         /\ m = arrived /\ hand.at = "stored" => Stored(<<"bot", j>>) \/ j \in unsaved
         /\ m = arrived /\ hand.at \in {"again", "await"} => j \in unsaved

TInv ==
    /\ Typed
    /\ Dispatched
    /\ RunsAreRegistered
    /\ SessionIsHeld
    /\ TextsAreSpent
    /\ SteersAreKept
    /\ TextsAreOwn
    /\ RepliesAreOwn
    /\ FinishersStore
    /\ KnownIsReached

-----------------------------------------------------------------------------
(* What a transcript contains.                                             *)

(* An empty transcript contains nothing. *)
LEMMA Has_Empty == \A x : ~Has(<<>>, x) /\ ~Once(<<>>, x)
BY DEF Has, Once

(* What is there once is there. *)
LEMMA Once_Has == ASSUME NEW s, NEW x, Once(s, x) PROVE Has(s, x)
BY DEF Has, Once

(* What contains something is not empty. *)
LEMMA Has_Some == ASSUME NEW s, NEW x, Has(s, x) PROVE s # <<>>
BY DEF Has

(* Appending adds a message, and nothing else. *)
LEMMA Has_Append ==
    ASSUME NEW s \in Seq(Msg), NEW m \in Msg
    PROVE  /\ Append(s, m) \in Seq(Msg) /\ Append(s, m) # <<>>
           /\ \A x : Has(Append(s, m), x) <=> Has(s, x) \/ x = m
<1> DEFINE t == Append(s, m)
<1>1. t \in Seq(Msg) /\ Len(t) = Len(s) + 1 /\ DOMAIN t = 1 .. Len(s) + 1 /\ DOMAIN s = 1 .. Len(s)
      /\ Len(s) \in Nat
  OBVIOUS
<1>2. t[Len(s) + 1] = m /\ \A i \in DOMAIN s : t[i] = s[i]
  OBVIOUS
<1>3. t # <<>>
  BY <1>1
<1> HIDE DEF t
<1>4. ASSUME NEW x PROVE Has(t, x) <=> Has(s, x) \/ x = m
  BY <1>1, <1>2 DEF Has
<1> QED BY <1>1, <1>3, <1>4 DEF t

(* A message that was not there is there once when it is appended. *)
LEMMA Once_Append ==
    ASSUME NEW s \in Seq(Msg), NEW m \in Msg
    PROVE  /\ ~Has(s, m) => Once(Append(s, m), m)
           /\ \A x : x # m /\ Once(s, x) => Once(Append(s, m), x)
<1> DEFINE t == Append(s, m)
<1>1. DOMAIN t = 1 .. Len(s) + 1 /\ DOMAIN s = 1 .. Len(s) /\ Len(s) \in Nat
  OBVIOUS
<1>2. t[Len(s) + 1] = m /\ \A i \in DOMAIN s : t[i] = s[i]
  OBVIOUS
<1> HIDE DEF t
<1>3. ASSUME ~Has(s, m) PROVE Once(t, m)
  <2>1. \A j \in DOMAIN t : t[j] = m <=> j = Len(s) + 1
    BY <1>1, <1>2, <1>3 DEF Has
  <2> QED BY <1>1, <2>1 DEF Once
<1>4. ASSUME NEW x, x # m, Once(s, x) PROVE Once(t, x)
  <2>1. PICK i \in DOMAIN s : \A j \in DOMAIN s : s[j] = x <=> j = i
    BY <1>4 DEF Once
  <2>2. \A j \in DOMAIN t : t[j] = x <=> j = i
    BY <1>1, <1>2, <1>4, <2>1
  <2> QED BY <1>1, <2>1, <2>2 DEF Once
<1> QED BY <1>3, <1>4 DEF t

(* The places of a concatenation. *)
LEMMA Concat_Places ==
    ASSUME NEW s \in Seq(Msg), NEW q \in Seq(Msg)
    PROVE  /\ s \o q \in Seq(Msg) /\ Len(s) \in Nat /\ Len(q) \in Nat
           /\ DOMAIN s = 1 .. Len(s) /\ DOMAIN q = 1 .. Len(q)
           /\ DOMAIN (s \o q) = 1 .. Len(s) + Len(q)
           /\ \A i \in 1 .. Len(s) : (s \o q)[i] = s[i]
           /\ \A i \in 1 .. Len(q) : (s \o q)[Len(s) + i] = q[i]
           /\ \A i \in 1 .. Len(s) + Len(q) :
                i \notin 1 .. Len(s) => i - Len(s) \in 1 .. Len(q) /\ (s \o q)[i] = q[i - Len(s)]
<1>1. /\ s \o q \in Seq(Msg) /\ Len(s) \in Nat /\ Len(q) \in Nat
      /\ DOMAIN s = 1 .. Len(s) /\ DOMAIN q = 1 .. Len(q) /\ Len(s \o q) = Len(s) + Len(q)
  OBVIOUS
<1>2. DOMAIN (s \o q) = 1 .. Len(s) + Len(q)
  BY <1>1
<1>3. \A i \in 1 .. Len(s) + Len(q) : (s \o q)[i] = IF i <= Len(s) THEN s[i] ELSE q[i - Len(s)]
  OBVIOUS
<1> DEFINE t == s \o q
<1>4. \A i \in 1 .. Len(s) + Len(q) : t[i] = IF i <= Len(s) THEN s[i] ELSE q[i - Len(s)]
  BY <1>3
<1> HIDE DEF t
<1>5. /\ \A i \in 1 .. Len(s) : t[i] = s[i]
      /\ \A i \in 1 .. Len(q) : t[Len(s) + i] = q[i]
      /\ \A i \in 1 .. Len(s) + Len(q) :
           i \notin 1 .. Len(s) => i - Len(s) \in 1 .. Len(q) /\ t[i] = q[i - Len(s)]
  BY <1>1, <1>4
<1> QED BY <1>1, <1>2, <1>5 DEF t

(* A concatenation contains what its parts do. *)
LEMMA Has_Concat ==
    ASSUME NEW s \in Seq(Msg), NEW q \in Seq(Msg)
    PROVE  s \o q \in Seq(Msg) /\ \A x : Has(s \o q, x) <=> Has(s, x) \/ Has(q, x)
<1> DEFINE t == s \o q
<1>1. /\ t \in Seq(Msg) /\ Len(s) \in Nat /\ Len(q) \in Nat
      /\ DOMAIN s = 1 .. Len(s) /\ DOMAIN q = 1 .. Len(q)
      /\ DOMAIN t = 1 .. Len(s) + Len(q)
      /\ \A i \in 1 .. Len(s) : t[i] = s[i]
      /\ \A i \in 1 .. Len(q) : t[Len(s) + i] = q[i]
      /\ \A i \in 1 .. Len(s) + Len(q) :
           i \notin 1 .. Len(s) => i - Len(s) \in 1 .. Len(q) /\ t[i] = q[i - Len(s)]
  BY Concat_Places
<1> HIDE DEF t
<1>2. ASSUME NEW x PROVE Has(t, x) <=> Has(s, x) \/ Has(q, x)
  <2>1. ASSUME Has(t, x) PROVE Has(s, x) \/ Has(q, x)
    BY <1>1, <2>1 DEF Has
  <2>2. ASSUME Has(s, x) PROVE Has(t, x)
    <3>1. PICK i \in 1 .. Len(s) : s[i] = x
      BY <1>1, <2>2 DEF Has
    <3>2. i \in DOMAIN t /\ t[i] = x
      BY <1>1, <3>1
    <3> QED BY <3>2 DEF Has
  <2>3. ASSUME Has(q, x) PROVE Has(t, x)
    <3>1. PICK i \in 1 .. Len(q) : q[i] = x
      BY <1>1, <2>3 DEF Has
    <3>2. Len(s) + i \in DOMAIN t /\ t[Len(s) + i] = x
      BY <1>1, <3>1
    <3> QED BY <3>2 DEF Has
  <2> QED BY <2>1, <2>2, <2>3
<1> QED BY <1>1, <1>2 DEF t

(* A message of one part only is as often in the whole. *)
LEMMA Once_Concat ==
    ASSUME NEW s \in Seq(Msg), NEW q \in Seq(Msg), NEW x
    PROVE  /\ Once(s, x) /\ ~Has(q, x) => Once(s \o q, x)
           /\ ~Has(s, x) /\ Once(q, x) => Once(s \o q, x)
<1> DEFINE t == s \o q
<1>1. /\ t \in Seq(Msg) /\ Len(s) \in Nat /\ Len(q) \in Nat
      /\ DOMAIN s = 1 .. Len(s) /\ DOMAIN q = 1 .. Len(q)
      /\ DOMAIN t = 1 .. Len(s) + Len(q)
      /\ \A i \in 1 .. Len(s) : t[i] = s[i]
      /\ \A i \in 1 .. Len(q) : t[Len(s) + i] = q[i]
      /\ \A i \in 1 .. Len(s) + Len(q) :
           i \notin 1 .. Len(s) => i - Len(s) \in 1 .. Len(q) /\ t[i] = q[i - Len(s)]
  BY Concat_Places
<1> HIDE DEF t
<1>2. ASSUME Once(s, x), ~Has(q, x) PROVE Once(t, x)
  <2>1. PICK i \in DOMAIN s : \A j \in DOMAIN s : s[j] = x <=> j = i
    BY <1>2 DEF Once
  <2>2. i \in DOMAIN t
    BY <1>1, <2>1
  <2>3. \A j \in DOMAIN t : t[j] = x <=> j = i
    BY <1>1, <1>2, <2>1 DEF Has
  <2> QED BY <2>2, <2>3 DEF Once
<1>3. ASSUME ~Has(s, x), Once(q, x) PROVE Once(t, x)
  <2>1. PICK i \in DOMAIN q : \A j \in DOMAIN q : q[j] = x <=> j = i
    BY <1>3 DEF Once
  <2>2. Len(s) + i \in DOMAIN t
    BY <1>1, <2>1
  <2>3. ASSUME NEW j \in DOMAIN t PROVE t[j] = x <=> j = Len(s) + i
    <3>1. CASE j \in 1 .. Len(s)
      BY <1>1, <1>3, <2>1, <3>1 DEF Has
    <3>2. CASE j \notin 1 .. Len(s)
      <4>1. j - Len(s) \in DOMAIN q /\ t[j] = q[j - Len(s)] /\ j \in Int /\ i \in Int /\ Len(s) \in Int
        BY <1>1, <2>1, <2>3, <3>2
      <4>2. t[j] = x <=> j - Len(s) = i
        BY <2>1, <4>1
      <4>3. j - Len(s) = i <=> j = Len(s) + i
        BY <4>1
      <4> QED BY <4>2, <4>3
    <3> QED BY <3>1, <3>2
  <2> QED BY <2>2, <2>3 DEF Once
<1> QED BY <1>2, <1>3 DEF t

(* Messages, halters and the kinds of keys are told apart. *)
LEMMA Keys_Facts ==
    /\ Msg \subseteq Actor /\ Halter \subseteq Actor /\ Halter \cap Msg = {}
    /\ \A a \in Actor : a \in Msg \/ a \in Halter
    /\ Msg \subseteq Nat /\ None \notin Msg /\ MaxMsg \in Nat
    /\ Key \subseteq ActiveKey /\ Session \in ActiveKey /\ Session \notin Key /\ Fresh \notin Key
    /\ Session # Fresh
    /\ \A j \in Msg : /\ <<"user", j>> \in Key /\ <<"bot", j>> \in Key
                      /\ <<"id", j>> \in ActiveKey /\ <<"id", j>> \notin Key
                      /\ Session # <<"id", j>> /\ Session # <<"user", j>> /\ Session # <<"bot", j>>
                      /\ Fresh # <<"user", j>> /\ Fresh # <<"bot", j>>
BY ConstantsAssumption DEF Actor, Msg, None, Key, ActiveKey, Session, Fresh

-----------------------------------------------------------------------------
(* What a step of one actor does to the actors.                            *)

Only(a)  == \A b \in Actor : b # a => act'[b] = act[b]
Alone(t) == \A u \in Msg : u # t => thread'[u] = thread[u]

(* A step of one actor changes only it. *)
LEMMA Put_Act ==
    ASSUME Typed, NEW a \in Actor, NEW new \in Activity, act' = [act EXCEPT ![a] = new]
    PROVE  Only(a) /\ act'[a] = new /\ act' \in [Actor -> Activity]
<1> HIDE DEF Activity
<1> QED BY DEF Typed, Only

(* A step on one thread changes only it. *)
LEMMA Put_Thread ==
    ASSUME Typed, NEW t \in Msg, NEW new \in Thread, thread' = [thread EXCEPT ![t] = new]
    PROVE  Alone(t) /\ thread'[t] = new /\ thread' \in [Msg -> Thread]
<1> HIDE DEF Thread
<1> QED BY DEF Typed, Alone

(* What an actor is. *)
LEMMA Act_Type ==
    ASSUME Typed, NEW a \in Actor
    PROVE  /\ act[a] \in Activity /\ act[a].at \in Stages /\ act[a].thread \in Msg \cup {None}
           /\ act[a].base \in Seq(Msg) /\ act[a].text \in Seq(Msg) /\ act[a].keys \subseteq Key
           /\ act[a].turns \in Nat /\ act[a].how \in {"running", "answered", "cut"}
           /\ act[a].unwinding \in BOOLEAN
<1>1. act[a] \in Activity
  BY DEF Typed
<1> QED BY <1>1 DEF Activity

(* An actor that has not begun. *)
LEMMA Idle_Type ==
    /\ Idle \in Activity /\ Idle.at = "idle" /\ Idle.text = <<>> /\ Idle.keys = {}
    /\ Idle.how = "running" /\ Idle.turns = 0 /\ Idle.unwinding = FALSE
<1>1. <<>> \in Seq(Msg)
  OBVIOUS
<1> QED BY <1>1 DEF Idle, Activity, Stages

(* What a thread is. *)
LEMMA Thread_Type ==
    ASSUME Typed, NEW t \in Msg
    PROVE  /\ thread[t] \in Thread /\ thread[t].phase \in Phases /\ thread[t].queue \in Seq(Msg)
           /\ thread[t].wake \in BOOLEAN /\ thread[t].current \in Seq(Msg)
           /\ thread[t].done \in Seq(Msg) /\ thread[t].keys \subseteq Key
<1>1. thread[t] \in Thread
  BY DEF Typed
<1> QED BY <1>1 DEF Thread

-----------------------------------------------------------------------------
(* What a step leaves alone.                                               *)

(* Whoever works on a thread has registered it, and a worker has its own. *)
LEMMA Owner_Thread ==
    ASSUME TInv, NEW a \in Actor, act[a].at \in Owning
    PROVE  act[a].thread \in Msg /\ Registered(act[a].thread) /\ (a \in Msg => act[a].thread = a)
<1>1. CASE a \in Msg
  BY <1>1 DEF TInv, RunsAreRegistered
<1>2. CASE a \in Halter
  <2>1. act[a].at \in Finishing \cup {"mark", "cancel", "join", "read"}
    BY <1>2, Keys_Facts DEF TInv, RunsAreRegistered, Owning, Running, Finishing
  <2> QED BY <1>2, <2>1, Keys_Facts DEF TInv, RunsAreRegistered
<1> QED BY <1>1, <1>2, Keys_Facts

(* The dispatcher's message is left alone by the steps of others. *)
LEMMA Dispatched_Frame ==
    ASSUME TInv, NEW a \in Actor, Only(a), UNCHANGED <<hand, arrived, target, taken>>,
           a \in Msg => act[a].at # "idle", act'[a].at = "base" => act[a].at = "base",
           \A u \in Msg : Registered(u) => thread'[u].phase # "none"
    PROVE  Dispatched'
<1>1. \A m \in Msg : act[m].at = "idle" => act'[m] = act[m]
  BY Keys_Facts DEF Only
<1>2. \A m \in Msg : act'[m].at = "base" => OfSession(m)
  BY Keys_Facts DEF Only, TInv, Dispatched
<1>3. /\ hand.at # "idle" => arrived \in Msg /\ act'[arrived].at = "idle" /\ taken[arrived] = None
      /\ \A m \in Msg : m > arrived => act'[m].at = "idle" /\ taken[m] = None
  BY <1>1 DEF TInv, Dispatched
<1>4. /\ hand.at \in {"stored", "again", "await"} => target[arrived] \in Key
      /\ hand.at \in {"await", "steer"} => hand.thread \in Msg /\ thread'[hand.thread].phase # "none"
  BY DEF TInv, Dispatched
<1> QED BY <1>2, <1>3, <1>4 DEF Dispatched, OfSession, Registered

(* The workers and the active map still fit when one of them moves on. *)
LEMMA Runs_Frame ==
    ASSUME TInv, NEW a \in Actor, Only(a), UNCHANGED taken,
           \A u \in Msg : Registered(u) <=> thread'[u].phase # "none",
           \A u \in Msg : ~Registered(u) => thread'[u] = NoThread,
           \A k \in ActiveKey : active'[k] # None => active'[k] \in Msg /\ Registered(active'[k]),
           a \in Msg =>
             /\ act[a].at # "idle" /\ act'[a].at \notin {"idle", "cancel", "join", "read"}
             /\ act'[a].at \in Unregistered => act[a].at \in Unregistered
             /\ act'[a].at \in {"base", "register"} \cup Owning => act'[a].thread = a
             /\ act'[a].at \in Owning => act[a].at \in Owning
             /\ act'[a].at = "resteer" => act'[a].thread \in Msg /\ Registered(act'[a].thread)
             /\ act[a].at = "over" => act'[a].at = "over",
           a \in Halter =>
             /\ act'[a].at \in Finishing \cup {"over", "mark", "cancel", "join", "read"}
             /\ act'[a].at # "over" => act'[a].thread \in Msg /\ Registered(act'[a].thread)
    PROVE  RunsAreRegistered'
<1>0. \A u \in Msg : thread'[u].phase # "none" <=> Registered(u)
  BY DEF Registered
<1>1. \A b \in Actor : b # a => act'[b] = act[b]
  BY DEF Only
<1>2. ASSUME NEW m \in Msg
      PROVE  /\ act'[m].at \in {"idle"} \cup Unregistered => ~Registered(m)
             /\ act'[m].at \in {"base", "register"} \cup Owning => act'[m].thread = m
             /\ act'[m].at \in Owning => Registered(m)
             /\ act'[m].at = "resteer" => act'[m].thread \in Msg /\ Registered(act'[m].thread)
             /\ act'[m].at \notin {"cancel", "join", "read"}
  <2>1. CASE m # a
    <3>1. act'[m] = act[m]
      BY <1>1, <2>1, Keys_Facts
    <3> QED BY <3>1 DEF TInv, RunsAreRegistered
  <2>2. CASE m = a
    <3>1. act'[m].at \in Unregistered => ~Registered(m)
      BY <2>2 DEF TInv, RunsAreRegistered
    <3>2. act'[m].at \in Owning => Registered(m)
      BY <2>2 DEF TInv, RunsAreRegistered
    <3> QED BY <2>2, <3>1, <3>2
  <2> QED BY <2>1, <2>2
<1>3. ASSUME NEW h \in Halter
      PROVE  /\ act'[h].at \in Finishing \cup {"mark", "cancel", "join", "read"} =>
                  act'[h].thread \in Msg /\ Registered(act'[h].thread)
             /\ act'[h].at \in Finishing \cup {"idle", "over", "mark", "cancel", "join", "read"}
  <2>1. CASE h # a
    <3>1. act'[h] = act[h]
      BY <1>1, <2>1, Keys_Facts
    <3> QED BY <3>1 DEF TInv, RunsAreRegistered
  <2>2. CASE h = a
    BY <2>2 DEF Finishing
  <2> QED BY <2>1, <2>2
<1>4. ASSUME NEW m \in Msg, taken[m] # None
      PROVE  Registered(taken[m]) /\ ~Registered(m) /\ act'[m].at \in {"idle", "over"}
  <2>1. Registered(taken[m]) /\ ~Registered(m) /\ act[m].at \in {"idle", "over"}
    BY <1>4 DEF TInv, RunsAreRegistered
  <2>2. act'[m].at \in {"idle", "over"}
    BY <1>1, <2>1, Keys_Facts
  <2> QED BY <2>1, <2>2
<1>5. \A k \in ActiveKey : active'[k] # None => Registered(active'[k])
  OBVIOUS
<1>6. \A u \in Msg : thread'[u].phase = "none" => thread'[u] = NoThread
  BY <1>0
<1>7. /\ \A m \in Msg : act'[m].at = "resteer" => act'[m].thread \in Msg /\ thread'[act'[m].thread].phase # "none"
      /\ \A h \in Halter : act'[h].at \in Finishing \cup {"mark", "cancel", "join", "read"} =>
           act'[h].thread \in Msg /\ thread'[act'[h].thread].phase # "none"
  BY <1>0, <1>2, <1>3
<1>8. \A k \in ActiveKey : active'[k] # None => thread'[active'[k]].phase # "none"
  <2>1. ASSUME NEW k \in ActiveKey, active'[k] # None PROVE active'[k] \in Msg
    BY <2>1
  <2> QED BY <1>0, <1>5, <2>1
<1>9. \A m \in Msg : taken[m] \in Msg \cup {None}
  BY DEF TInv, Typed
<1>10. taken' = taken
  OBVIOUS
<1>13. \A m \in Msg : taken[m] # None => thread'[taken[m]].phase # "none" /\ thread'[m].phase = "none"
  BY <1>0, <1>4, <1>9
<1>11. /\ \A m \in Msg : act'[m].at \in {"idle"} \cup Unregistered => thread'[m].phase = "none"
       /\ \A m \in Msg : act'[m].at \in {"base", "register"} \cup Owning => act'[m].thread = m
       /\ \A m \in Msg : act'[m].at \in Owning => thread'[m].phase # "none"
       /\ \A m \in Msg : act'[m].at \notin {"cancel", "join", "read"}
       /\ \A h \in Halter : act'[h].at \in Finishing \cup {"idle", "over", "mark", "cancel", "join", "read"}
  BY <1>0, <1>2, <1>3
<1>12. \A m \in Msg : taken'[m] # None => thread'[taken'[m]].phase # "none" /\ thread'[m].phase = "none" /\ act'[m].at \in {"idle", "over"}
  BY <1>4, <1>13, <1>10
<1> QED BY <1>6, <1>7, <1>8, <1>11, <1>12 DEF RunsAreRegistered, Owning, Registered

(* A message arrives. *)
LEMMA Arrive_TInv ==
    ASSUME TInv, Arrive
    PROVE  TInv'
<1>1. UNCHANGED <<sent, act, marked, thread, active, rows, faults, taken, unsaved, torn>>
  BY DEF Arrive, storage
<1>2. PICK n \in Msg : n = arrived + 1 /\ arrived' = n
  BY Keys_Facts DEF Arrive, TInv, Typed, Msg
<1>3. PICK k \in Addressees(n) :
        /\ target' = [target EXCEPT ![n] = k]
        /\ log' = IF k = Session THEN Append(log, <<"user", n>>) ELSE log
        /\ known' = IF k \in sent /\ (active[k] # None \/ Stored(k)) THEN known \cup {n} ELSE known
  BY <1>2 DEF Arrive
<1>4. /\ k \in Key \cup {Session, Fresh}
      /\ k \in sent => \E j \in Msg : k = <<"bot", j>>
  <2>1. \A j \in 1 .. n - 1 : j \in Msg
    BY <1>2, Keys_Facts DEF Msg
  <2>2. \A q \in sent : \E j \in Msg : q = <<"bot", j>>
    BY DEF TInv, Typed
  <2>3. \A q \in {<<"user", j>> : j \in 1 .. n - 1} : q \in Key
    BY <2>1, Keys_Facts
  <2>4. k \in {Session, Fresh} \/ k \in sent \/ k \in {<<"user", j>> : j \in 1 .. n - 1}
    BY DEF Addressees
  <2>5. Session \notin sent /\ Fresh \notin sent
    BY <2>2, Keys_Facts
  <2> QED BY <2>2, <2>3, <2>4, <2>5, Keys_Facts
<1>5. target'[n] = k /\ \A m \in Msg : m # n => target'[m] = target[m]
  BY <1>3 DEF TInv, Typed
<1>6. target' \in [Msg -> Key \cup {Session, Fresh}] /\ log' \in Seq(Key) /\ known' \subseteq Msg
  <2>1. <<"user", n>> \in Key /\ log \in Seq(Key)
    BY Keys_Facts DEF TInv, Typed
  <2>2. Append(log, <<"user", n>>) \in Seq(Key)
    BY <2>1
  <2> QED BY <1>3, <1>4, <2>1, <2>2 DEF TInv, Typed
<1>7. hand' = [at |-> "look", thread |-> None, refused |-> FALSE] /\ hand'.at = "look" /\ hand' \in Hand
  BY DEF Arrive, IdleHand, Hand
<1>8. act[n].at = "idle" /\ taken[n] = None /\ n \notin known
  BY <1>2, Keys_Facts DEF TInv, Dispatched, KnownIsReached, Msg, Typed
<1>9. ~Registered(n) /\ active[<<"id", n>>] # n
  BY <1>8, Keys_Facts DEF TInv, RunsAreRegistered
<1>10. arrived \in Nat /\ n \in Nat /\ MaxMsg \in Nat /\ n \in 0 .. MaxMsg
  BY <1>2, Keys_Facts DEF TInv, Typed, Msg
<1>11. Typed'
  BY <1>1, <1>2, <1>3, <1>4, <1>5, <1>6, <1>7, <1>8, <1>9, <1>10, Keys_Facts DEF Typed, TInv
<1>12. Dispatched'
  BY <1>1, <1>2, <1>3, <1>4, <1>5, <1>6, <1>7, <1>8, <1>9, <1>10, Keys_Facts DEF TInv, Dispatched, OfSession, Registered, Only, Alone
<1>13. RunsAreRegistered'
  BY <1>1, <1>2, <1>3, <1>4, <1>5, <1>6, <1>7, <1>8, <1>9, <1>10, Keys_Facts DEF TInv, RunsAreRegistered, Registered, Only, Alone, Owning, Running, Finishing, Unregistered
<1>14. SessionIsHeld'
  BY <1>1, <1>2, <1>3, <1>4, <1>5, <1>6, <1>7, <1>8, <1>9, <1>10, Keys_Facts DEF TInv, SessionIsHeld, OfSession, Listed
<1>15. TextsAreSpent'
  <2>1. \A x \in Msg : Spent(x) => Spent(x)'
    BY <1>1, <1>2, <1>3, <1>4, <1>5, <1>6, <1>7, <1>8, <1>9, <1>10, Keys_Facts DEF Spent, Registered, Only, Alone
  <2> QED BY <2>1, <1>1, <1>2, <1>3, <1>4, <1>5, <1>6, <1>7, <1>8, <1>9, <1>10, Keys_Facts DEF TInv, TextsAreSpent, Only, Alone
<1>16. SteersAreKept'
  BY <1>1, <1>2, <1>3, <1>4, <1>5, <1>6, <1>7, <1>8, <1>9, <1>10, Keys_Facts DEF TInv, SteersAreKept, Kept, Open, Turning, Finishing, Only, Alone
<1>17. TextsAreOwn'
  BY <1>1, <1>2, <1>3, <1>4, <1>5, <1>6, <1>7, <1>8, <1>9, <1>10, Keys_Facts DEF TInv, TextsAreOwn, Registered, Stored, Owning, Running, Finishing, Only, Alone
<1>18. RepliesAreOwn'
  BY <1>1, <1>2, <1>3, <1>4, <1>5, <1>6, <1>7, <1>8, <1>9, <1>10, Keys_Facts DEF TInv, RepliesAreOwn, Only, Alone
<1>19. FinishersStore'
  BY <1>1, <1>2, <1>3, <1>4, <1>5, <1>6, <1>7, <1>8, <1>9, <1>10, Keys_Facts DEF TInv, FinishersStore, Stored, Finishing, Only, Alone
<1>20. KnownIsReached'
  <2>1. ASSUME NEW m \in known', m # n
        PROVE  /\ m <= arrived' /\ m # arrived'
               /\ \E j \in Msg :
                    /\ target'[m] = <<"bot", j>>
                    /\ active[<<"bot", j>>] # None \/ Stored(<<"bot", j>>) \/ j \in unsaved
                    /\ act[m].at # "idle" => Has(act[m].base, j) \/ j \in unsaved
    <3>1. m \in known /\ m \in Msg
      BY <1>3, <2>1 DEF TInv, Typed
    <3>2. m <= arrived /\ \E j \in Msg :
            /\ target[m] = <<"bot", j>>
            /\ active[<<"bot", j>>] # None \/ Stored(<<"bot", j>>) \/ j \in unsaved
            /\ act[m].at # "idle" => Has(act[m].base, j) \/ j \in unsaved
      BY <3>1 DEF TInv, KnownIsReached
    <3>3. m <= n /\ target'[m] = target[m]
      BY <1>2, <1>5, <1>10, <2>1, <3>1, <3>2, Keys_Facts
    <3> QED BY <1>2, <2>1, <3>2, <3>3
  <2>2. ASSUME n \in known'
        PROVE  \E j \in Msg :
                 /\ target'[n] = <<"bot", j>>
                 /\ active[<<"bot", j>>] # None \/ Stored(<<"bot", j>>) \/ j \in unsaved
    BY <1>3, <1>4, <1>5, <1>8, <2>2
  <2>3. n <= n
    BY <1>10
  <2> QED BY <1>1, <1>2, <1>7, <1>8, <2>1, <2>2, <2>3 DEF KnownIsReached, Stored
<1> QED BY <1>11, <1>12, <1>13, <1>14, <1>15, <1>16, <1>17, <1>18, <1>19, <1>20 DEF TInv

(* A new worker has a transcript to continue and nothing else.             *)
LEMMA Fire_Moves ==
    ASSUME Typed, NEW m \in Msg, NEW base \in Seq(Msg), Fire(m, base)
    PROVE  /\ Only(m) /\ act' \in [Actor -> Activity] /\ hand' = IdleHand /\ hand' \in Hand
           /\ hand'.at = "idle"
           /\ act'[m].at = IF OfSession(m) THEN "base" ELSE "register"
           /\ act'[m].thread = m /\ act'[m].base = base /\ act'[m].text = <<>>
           /\ act'[m].keys = {} /\ act'[m].how = "running"
<1> DEFINE new == [Idle EXCEPT !.at = IF OfSession(m) THEN "base" ELSE "register",
                               !.thread = m, !.base = base]
<1>1. /\ new \in Activity /\ new.at = IF OfSession(m) THEN "base" ELSE "register"
      /\ new.thread = m /\ new.base = base /\ new.text = <<>> /\ new.keys = {} /\ new.how = "running"
  <2>1. {"base", "register"} \subseteq Stages
    BY DEF Stages, Unregistered
  <2> QED BY <2>1, Idle_Type DEF Activity
<1>2. act' = [act EXCEPT ![m] = new] /\ hand' = IdleHand
  BY DEF Fire
<1>3. hand' \in Hand /\ hand'.at = "idle"
  BY <1>2 DEF Hand, IdleHand
<1> HIDE DEF new
<1> QED BY <1>1, <1>2, <1>3, Put_Act, Keys_Facts

(* A worker is started for the last message. *)
LEMMA Fired_TInv ==
    ASSUME TInv, NEW m \in Msg, m = arrived, NEW base \in Seq(Msg), Fire(m, base), hand.at # "idle",
           UNCHANGED <<inbox, outbox, marked, thread, active, storage, history>>,
           \A x \in Msg : Has(base, x) => Spent(x),
           m \in known => \E j \in Msg : target[m] = <<"bot", j>> /\ (Has(base, j) \/ j \in unsaved)
    PROVE  TInv'
<1>1. UNCHANGED <<arrived, target, sent, log, marked, thread, active, rows, faults, taken, known, unsaved, torn>>
  BY DEF inbox, outbox, storage, history
<1>2. /\ Only(m) /\ act' \in [Actor -> Activity] /\ hand' \in Hand /\ hand'.at = "idle"
      /\ act'[m].at = IF OfSession(m) THEN "base" ELSE "register"
      /\ act'[m].thread = m /\ act'[m].base = base /\ act'[m].text = <<>>
      /\ act'[m].keys = {} /\ act'[m].how = "running"
  BY Fire_Moves DEF TInv
<1>3. act[m].at = "idle" /\ taken[m] = None /\ ~Registered(m) /\ \A x : ~Has(<<>>, x)
  BY Has_Empty, Keys_Facts DEF TInv, Dispatched, RunsAreRegistered
<1>4. m \in Nat /\ m <= arrived /\ ~(m > arrived)
  BY Keys_Facts
<1>5. \A x \in Msg : Has(base, x) => Spent(x)
  OBVIOUS
<1>6. m \in known => \E j \in Msg : target[m] = <<"bot", j>> /\ (Has(base, j) \/ j \in unsaved)
  OBVIOUS
<1>7. Typed'
  BY <1>1, <1>2, <1>3, <1>4, <1>5, <1>6, Keys_Facts DEF Typed, TInv
<1>8. Dispatched'
  BY <1>1, <1>2, <1>3, <1>4, <1>5, <1>6, Keys_Facts DEF TInv, Dispatched, OfSession, Registered, Only, Alone
<1>9. RunsAreRegistered'
  BY <1>1, <1>2, <1>3, <1>4, <1>5, <1>6, Keys_Facts DEF TInv, RunsAreRegistered, Registered, Only, Alone, Owning, Running, Finishing, Unregistered
<1>10. SessionIsHeld'
  BY <1>1, <1>2, <1>3, <1>4, <1>5, <1>6, Keys_Facts DEF TInv, SessionIsHeld, OfSession, Listed
<1>11. TextsAreSpent'
  <2>1. \A x \in Msg : Spent(x) => Spent(x)'
    BY <1>1, <1>2, <1>3, <1>4, <1>5, <1>6, Keys_Facts DEF Spent, Registered, Only, Alone
  <2> QED BY <2>1, <1>1, <1>2, <1>3, <1>4, <1>5, <1>6, Keys_Facts DEF TInv, TextsAreSpent, Only, Alone
<1>12. SteersAreKept'
  BY <1>1, <1>2, <1>3, <1>4, <1>5, <1>6, Keys_Facts DEF TInv, SteersAreKept, Kept, Open, Turning, Finishing, Only, Alone
<1>13. TextsAreOwn'
  BY <1>1, <1>2, <1>3, <1>4, <1>5, <1>6, Keys_Facts DEF TInv, TextsAreOwn, Registered, Stored, Owning, Running, Finishing, Only, Alone
<1>14. RepliesAreOwn'
  BY <1>1, <1>2, <1>3, <1>4, <1>5, <1>6, Keys_Facts DEF TInv, RepliesAreOwn, Only, Alone
<1>15. FinishersStore'
  BY <1>1, <1>2, <1>3, <1>4, <1>5, <1>6, Keys_Facts DEF TInv, FinishersStore, Stored, Finishing, Only, Alone
<1>16. KnownIsReached'
  <2>1. ASSUME NEW n \in known
        PROVE  n <= arrived /\ \E j \in Msg :
                 /\ target[n] = <<"bot", j>>
                 /\ active[<<"bot", j>>] # None \/ Stored(<<"bot", j>>) \/ j \in unsaved
                 /\ Has(act'[n].base, j) \/ j \in unsaved \/ act'[n].at = "idle"
    <3>1. n \in Msg /\ n <= arrived
      BY DEF TInv, Typed, KnownIsReached
    <3>2. PICK j \in Msg :
            /\ target[n] = <<"bot", j>>
            /\ active[<<"bot", j>>] # None \/ Stored(<<"bot", j>>) \/ j \in unsaved
            /\ act[n].at # "idle" => Has(act[n].base, j) \/ j \in unsaved
      BY DEF TInv, KnownIsReached
    <3>3. CASE n = m
      <4>1. Has(base, j) \/ j \in unsaved
        BY <1>6, <3>2, <3>3
      <4> QED BY <1>2, <3>1, <3>2, <3>3, <4>1
    <3>4. CASE n # m
      <4>1. act'[n] = act[n]
        BY <1>2, <3>1, <3>4, Keys_Facts DEF Only
      <4> QED BY <3>1, <3>2, <4>1
    <3> QED BY <3>3, <3>4
  <2> QED BY <1>1, <1>2, <2>1 DEF KnownIsReached, Stored
<1> QED BY <1>7, <1>8, <1>9, <1>10, <1>11, <1>12, <1>13, <1>14, <1>15, <1>16 DEF TInv

(* The dispatcher goes on with its message and touches nothing else. *)
LEMMA Handed_TInv ==
    ASSUME TInv, NEW m \in Msg, m = arrived, hand.at # "idle", hand' \in Hand, hand'.at # "idle",
           UNCHANGED <<inbox, outbox, act, marked, thread, active, storage, history>>,
           hand'.at \in {"stored", "again", "await"} => target[m] \in Key,
           hand'.at \in {"await", "steer"} => hand'.thread \in Msg /\ Registered(hand'.thread),
           \A j \in Msg : m \in known /\ target[m] = <<"bot", j>> =>
             /\ hand'.at = "stored" => Stored(<<"bot", j>>) \/ j \in unsaved
             /\ hand'.at \in {"again", "await"} => j \in unsaved
    PROVE  TInv'
<1>1. UNCHANGED <<arrived, target, sent, log, act, marked, thread, active, rows, faults, taken, known, unsaved, torn>>
  BY DEF inbox, outbox, storage, history
<1>2. hand' \in Hand /\ hand.at # "idle" /\ m = arrived
  OBVIOUS
<1>3. hand'.at \in {"stored", "again", "await"} => target[m] \in Key
  OBVIOUS
<1>4. hand'.at \in {"await", "steer"} => hand'.thread \in Msg /\ Registered(hand'.thread)
  OBVIOUS
<1>5. \A j \in Msg : m \in known /\ target[m] = <<"bot", j>> =>
        /\ hand'.at = "stored" => Stored(<<"bot", j>>) \/ j \in unsaved
        /\ hand'.at \in {"again", "await"} => j \in unsaved
  OBVIOUS
<1>6. Typed'
  BY <1>1, <1>2, <1>3, <1>4, <1>5, Keys_Facts DEF Typed, TInv
<1>7. Dispatched'
  BY <1>1, <1>2, <1>3, <1>4, <1>5, Keys_Facts DEF TInv, Dispatched, OfSession, Registered, Only, Alone
<1>8. RunsAreRegistered'
  BY <1>1, <1>2, <1>3, <1>4, <1>5, Keys_Facts DEF TInv, RunsAreRegistered, Registered, Only, Alone, Owning, Running, Finishing, Unregistered
<1>9. SessionIsHeld'
  BY <1>1, <1>2, <1>3, <1>4, <1>5, Keys_Facts DEF TInv, SessionIsHeld, OfSession, Listed
<1>10. TextsAreSpent'
  <2>1. \A x \in Msg : Spent(x) => Spent(x)'
    BY <1>1, <1>2, <1>3, <1>4, <1>5, Keys_Facts DEF Spent, Registered, Only, Alone
  <2> QED BY <2>1, <1>1, <1>2, <1>3, <1>4, <1>5, Keys_Facts DEF TInv, TextsAreSpent, Only, Alone
<1>11. SteersAreKept'
  BY <1>1, <1>2, <1>3, <1>4, <1>5, Keys_Facts DEF TInv, SteersAreKept, Kept, Open, Turning, Finishing, Only, Alone
<1>12. TextsAreOwn'
  BY <1>1, <1>2, <1>3, <1>4, <1>5, Keys_Facts DEF TInv, TextsAreOwn, Registered, Stored, Owning, Running, Finishing, Only, Alone
<1>13. RepliesAreOwn'
  BY <1>1, <1>2, <1>3, <1>4, <1>5, Keys_Facts DEF TInv, RepliesAreOwn, Only, Alone
<1>14. FinishersStore'
  BY <1>1, <1>2, <1>3, <1>4, <1>5, Keys_Facts DEF TInv, FinishersStore, Stored, Finishing, Only, Alone
<1>15. KnownIsReached'
  BY <1>1, <1>2, <1>3, <1>4, <1>5, Keys_Facts DEF TInv, KnownIsReached, Stored, Only
<1> QED BY <1>6, <1>7, <1>8, <1>9, <1>10, <1>11, <1>12, <1>13, <1>14, <1>15 DEF TInv

(* The dispatcher's stages. *)
LEMMA Hand_Moves ==
    ASSUME Typed
    PROVE  /\ hand.thread \in Msg \cup {None} /\ hand.refused \in BOOLEAN
           /\ \A s \in {"idle", "look", "stored", "again", "await", "steer"}, t \in Msg \cup {None}, r \in BOOLEAN :
                /\ [hand EXCEPT !.at = s] \in Hand /\ [hand EXCEPT !.at = s].at = s
                /\ [hand EXCEPT !.at = s, !.thread = t] \in Hand
                /\ [hand EXCEPT !.at = s, !.thread = t].at = s /\ [hand EXCEPT !.at = s, !.thread = t].thread = t
                /\ [IdleHand EXCEPT !.at = s, !.refused = r] \in Hand
                /\ [IdleHand EXCEPT !.at = s, !.refused = r].at = s
           /\ IdleHand \in Hand /\ IdleHand.at = "idle"
BY DEF Typed, Hand, IdleHand

(* A known reply answers a message of the bot that is listed, stored or was not saved. *)
LEMMA Known_Target ==
    ASSUME TInv, NEW m \in known
    PROVE  /\ m \in Msg
           /\ \E j \in Msg : target[m] = <<"bot", j>>
           /\ \A j \in Msg : target[m] = <<"bot", j>> =>
                /\ active[<<"bot", j>>] # None \/ Stored(<<"bot", j>>) \/ j \in unsaved
                /\ m = arrived /\ hand.at = "stored" => Stored(<<"bot", j>>) \/ j \in unsaved
                /\ m = arrived /\ hand.at \in {"again", "await"} => j \in unsaved
<1>1. m \in Msg
  BY DEF TInv, Typed
<1>2. PICK j \in Msg :
        /\ target[m] = <<"bot", j>>
        /\ active[<<"bot", j>>] # None \/ Stored(<<"bot", j>>) \/ j \in unsaved
        /\ m = arrived /\ hand.at = "stored" => Stored(<<"bot", j>>) \/ j \in unsaved
        /\ m = arrived /\ hand.at \in {"again", "await"} => j \in unsaved
  BY DEF TInv, KnownIsReached
<1>3. \A i \in Msg : target[m] = <<"bot", i>> => i = j
  BY <1>2
<1> QED BY <1>1, <1>2, <1>3

(* The dispatcher looks in the active map. *)
LEMMA Look_TInv ==
    ASSUME TInv, NEW m \in Msg, m = arrived, Look(m)
    PROVE  TInv'
<1>1. hand.at = "look" /\ UNCHANGED <<inbox, outbox, marked, thread, active, storage, history>>
  BY DEF Look
<1>2. <<>> \in Seq(Msg) /\ \A x \in Msg : ~Has(<<>>, x)
  BY Has_Empty
<1>3. CASE (target[m] = Fresh \/ OfSession(m)) /\ Fire(m, <<>>)
  <2>1. m \notin known
    BY <1>3, Known_Target, Keys_Facts DEF OfSession
  <2> QED BY <1>1, <1>2, <1>3, <2>1, Fired_TInv
<1>4. CASE target[m] # Fresh /\ ~OfSession(m) /\ active[target[m]] = None
           /\ hand' = [hand EXCEPT !.at = "stored"] /\ UNCHANGED act
  <2>1. target[m] \in Key
    BY <1>4 DEF TInv, Typed, OfSession
  <2>2. hand' \in Hand /\ hand'.at = "stored"
    BY <1>4, Hand_Moves DEF TInv
  <2>3. \A j \in Msg : m \in known /\ target[m] = <<"bot", j>> => Stored(<<"bot", j>>) \/ j \in unsaved
    BY <1>4, Known_Target
  <2> QED BY <1>1, <1>4, <2>1, <2>2, <2>3, Handed_TInv
<1>5. CASE target[m] # Fresh /\ active[target[m]] # None /\ UNCHANGED act
           /\ hand' = [hand EXCEPT !.at = "steer", !.thread = active[target[m]]]
  <2>1. target[m] \in ActiveKey
    BY <1>5, Keys_Facts DEF TInv, Typed
  <2>2. active[target[m]] \in Msg /\ Registered(active[target[m]])
    BY <1>5, <2>1 DEF TInv, Typed, RunsAreRegistered
  <2>3. hand' \in Hand /\ hand'.at = "steer" /\ hand'.thread = active[target[m]]
    BY <1>5, <2>2, Hand_Moves DEF TInv
  <2>4. Registered(hand'.thread) /\ hand'.thread \in Msg
    BY <2>2, <2>3
  <2> QED BY <1>1, <1>5, <2>3, <2>4, Handed_TInv
<1>6. CASE target[m] # Fresh /\ ~OfSession(m) /\ active[target[m]] # None
           /\ Fire(m, thread[active[target[m]]].current)
  <2>0. target[m] \in ActiveKey
    BY <1>6, Keys_Facts DEF TInv, Typed
  <2>1. PICK t \in Msg : t = active[target[m]] /\ Registered(t)
    BY <1>6, <2>0 DEF TInv, Typed, RunsAreRegistered
  <2>2. thread[t].current \in Seq(Msg)
    BY Thread_Type DEF TInv
  <2>3. \A x \in Msg : Has(thread[t].current, x) => Spent(x)
    BY DEF TInv, TextsAreSpent
  <2>4. ASSUME m \in known PROVE \E j \in Msg : target[m] = <<"bot", j>> /\ Has(thread[t].current, j)
    <3>1. PICK j \in Msg : target[m] = <<"bot", j>>
      BY <2>4, Known_Target
    <3>2. t = j
      BY <1>6, <2>1, <3>1 DEF TInv, RepliesAreOwn
    <3> QED BY <2>1, <3>1, <3>2 DEF TInv, TextsAreOwn
  <2>5. Fire(m, thread[t].current)
    BY <1>6, <2>1
  <2> QED BY <1>1, <2>2, <2>3, <2>4, <2>5, Fired_TInv
<1>7. CASE target[m] = Fresh
  BY <1>3, <1>7 DEF Look
<1>8. CASE target[m] # Fresh /\ active[target[m]] = None /\ OfSession(m)
  BY <1>3, <1>8 DEF Look
<1>9. CASE target[m] # Fresh /\ active[target[m]] = None /\ ~OfSession(m)
  BY <1>4, <1>9 DEF Look
<1>10. CASE target[m] # Fresh /\ active[target[m]] # None
  BY <1>5, <1>6, <1>10 DEF Look
<1> QED BY <1>7, <1>8, <1>9, <1>10

(* It looks for a stored transcript. *)
LEMMA LookStored_TInv ==
    ASSUME TInv, NEW m \in Msg, m = arrived, LookStored(m)
    PROVE  TInv'
<1>1. hand.at = "stored" /\ UNCHANGED <<inbox, outbox, marked, thread, active, storage, history>>
  BY DEF LookStored
<1>2. target[m] \in Key
  BY <1>1 DEF TInv, Dispatched
<1>3. CASE Stored(target[m]) /\ Fire(m, rows[target[m]])
  <2>1. rows[target[m]] \in Seq(Msg)
    BY <1>2 DEF TInv, Typed
  <2>2. \A x \in Msg : Has(rows[target[m]], x) => Spent(x)
    BY <1>2 DEF TInv, TextsAreSpent
  <2>3. m \in known => \E j \in Msg : target[m] = <<"bot", j>> /\ Has(rows[target[m]], j)
    BY <1>3, Known_Target DEF TInv, TextsAreOwn
  <2> QED BY <1>1, <1>3, <2>1, <2>2, <2>3, Fired_TInv
<1>4. CASE ~Stored(target[m]) /\ hand' = [hand EXCEPT !.at = "again"] /\ UNCHANGED act
  <2>1. hand' \in Hand /\ hand'.at = "again"
    BY <1>4, Hand_Moves DEF TInv
  <2>2. \A j \in Msg : m \in known /\ target[m] = <<"bot", j>> => j \in unsaved
    BY <1>1, <1>4, Known_Target
  <2> QED BY <1>1, <1>2, <1>4, <2>1, <2>2, Handed_TInv
<1> QED BY <1>3, <1>4 DEF LookStored

(* It looks in the active map once more. *)
LEMMA LookAgain_TInv ==
    ASSUME TInv, NEW m \in Msg, m = arrived, LookAgain(m)
    PROVE  TInv'
<1>1. hand.at = "again" /\ UNCHANGED <<inbox, outbox, marked, thread, active, storage, history>>
  BY DEF LookAgain
<1>2. target[m] \in Key
  BY <1>1 DEF TInv, Dispatched
<1>3. m \in known => \E j \in Msg : target[m] = <<"bot", j>> /\ j \in unsaved
  BY <1>1, Known_Target
<1>4. CASE Fire(m, <<>>)
  <2>1. <<>> \in Seq(Msg) /\ \A x \in Msg : ~Has(<<>>, x)
    BY Has_Empty
  <2> QED BY <1>1, <1>3, <1>4, <2>1, Fired_TInv
<1>5. CASE active[target[m]] # None /\ UNCHANGED act
           /\ hand' = [hand EXCEPT !.at = "await", !.thread = active[target[m]]]
  <2>1. active[target[m]] \in Msg /\ Registered(active[target[m]])
    BY <1>2, <1>5, Keys_Facts DEF TInv, Typed, RunsAreRegistered
  <2>2. hand' \in Hand /\ hand'.at = "await" /\ hand'.thread = active[target[m]]
    BY <1>5, <2>1, Hand_Moves DEF TInv
  <2>3. Registered(hand'.thread) /\ hand'.thread \in Msg
    BY <2>1, <2>2
  <2> QED BY <1>1, <1>2, <1>3, <1>5, <2>2, <2>3, Handed_TInv
<1> QED BY <1>4, <1>5 DEF LookAgain

(* It waits for the transcript of the run it found. *)
LEMMA AwaitDone_TInv ==
    ASSUME TInv, NEW m \in Msg, m = arrived, AwaitDone(m)
    PROVE  TInv'
<1>1. hand.at = "await" /\ UNCHANGED <<inbox, outbox, marked, thread, active, storage, history>>
  BY DEF AwaitDone
<1>2. PICK t \in Msg : t = hand.thread
  BY <1>1 DEF TInv, Dispatched
<1>3. thread[t].done \in Seq(Msg) /\ Fire(m, thread[t].done)
  BY <1>2, Thread_Type DEF AwaitDone, TInv
<1>4. \A x \in Msg : Has(thread[t].done, x) => Spent(x)
  BY DEF TInv, TextsAreSpent
<1>5. m \in known => \E j \in Msg : target[m] = <<"bot", j>> /\ j \in unsaved
  BY <1>1, Known_Target
<1> QED BY <1>1, <1>3, <1>4, <1>5, Fired_TInv

(* A step of an actor keeps known replies reachable if it forgets neither  *)
(* a key nor a transcript, and starts no worker of theirs.                 *)
LEMMA Known_Frame ==
    ASSUME TInv, UNCHANGED <<hand, arrived, target, known>>, unsaved \subseteq unsaved',
           \A j \in Msg : Stored(<<"bot", j>>) => rows'[<<"bot", j>>] # <<>>,
           \A j \in Msg : active[<<"bot", j>>] # None =>
             active'[<<"bot", j>>] # None \/ rows'[<<"bot", j>>] # <<>> \/ j \in unsaved',
           \A m \in known : act'[m].at # "idle" => act[m].at # "idle" /\ act'[m].base = act[m].base
    PROVE  KnownIsReached'
<1>1. ASSUME NEW m \in known
      PROVE  m <= arrived /\ \E j \in Msg :
               /\ target[m] = <<"bot", j>>
               /\ active'[<<"bot", j>>] # None \/ rows'[<<"bot", j>>] # <<>> \/ j \in unsaved'
               /\ act'[m].at # "idle" => Has(act'[m].base, j) \/ j \in unsaved'
               /\ m = arrived /\ hand.at = "stored" => rows'[<<"bot", j>>] # <<>> \/ j \in unsaved'
               /\ m = arrived /\ hand.at \in {"again", "await"} => j \in unsaved'
  <2>1. PICK j \in Msg :
          /\ target[m] = <<"bot", j>>
          /\ active[<<"bot", j>>] # None \/ Stored(<<"bot", j>>) \/ j \in unsaved
          /\ act[m].at # "idle" => Has(act[m].base, j) \/ j \in unsaved
          /\ m = arrived /\ hand.at = "stored" => Stored(<<"bot", j>>) \/ j \in unsaved
          /\ m = arrived /\ hand.at \in {"again", "await"} => j \in unsaved
    BY DEF TInv, KnownIsReached
  <2>2. m <= arrived
    BY DEF TInv, KnownIsReached
  <2>3. active'[<<"bot", j>>] # None \/ rows'[<<"bot", j>>] # <<>> \/ j \in unsaved'
    BY <2>1
  <2>4. act'[m].at # "idle" => Has(act'[m].base, j) \/ j \in unsaved'
    BY <2>1
  <2>5. m = arrived /\ hand.at = "stored" => rows'[<<"bot", j>>] # <<>> \/ j \in unsaved'
    BY <2>1
  <2> QED BY <2>1, <2>2, <2>3, <2>4, <2>5
<1> QED BY <1>1 DEF KnownIsReached, Stored

(* A message is put in the queue of an open thread, and is spent. *)
LEMMA Accepted_TInv ==
    ASSUME TInv, NEW m \in Msg, NEW t \in Msg, Open(t), Accept(t, m), ~Registered(m), taken[m] = None,
           Only(m), act' \in [Actor -> Activity], act'[m].at \in {"idle", "over"},
           act'[m].at = "idle" <=> act[m].at = "idle", act'[m].base = act[m].base,
           act'[m].text = act[m].text, act'[m].how = act[m].how,
           hand' \in Hand, hand'.at = "idle" \/ (hand' = hand /\ m # arrived), m <= arrived,
           UNCHANGED <<inbox, outbox, marked, storage, known, unsaved, torn>>
    PROVE  TInv'
<1>1. UNCHANGED <<arrived, target, sent, log, marked, rows, faults, known, unsaved, torn>>
  BY DEF inbox, outbox, storage
<1> DEFINE new == [thread[t] EXCEPT !.queue = Append(@, m), !.wake = TRUE]
<1>2. /\ new \in Thread /\ new.phase = thread[t].phase /\ new.queue = Append(thread[t].queue, m)
      /\ new.current = thread[t].current /\ new.done = thread[t].done /\ new.keys = thread[t].keys
  <2>1. Append(thread[t].queue, m) \in Seq(Msg)
    BY Has_Append, Thread_Type DEF TInv
  <2> QED BY <2>1, Thread_Type DEF TInv, Thread
<1>3. thread' = [thread EXCEPT ![t] = new]
  BY DEF Accept
<1> HIDE DEF new
<1>4. Alone(t) /\ thread'[t] = new /\ thread' \in [Msg -> Thread]
  BY <1>2, <1>3, Put_Thread DEF TInv
<1>5. /\ active' = [active EXCEPT ![<<"user", m>>] = t] /\ taken' = [taken EXCEPT ![m] = t]
      /\ active \in [ActiveKey -> Msg \cup {None}] /\ taken \in [Msg -> Msg \cup {None}]
  BY DEF Accept, TInv, Typed
<1>6. /\ active' \in [ActiveKey -> Msg \cup {None}] /\ active'[<<"user", m>>] = t
      /\ \A k \in ActiveKey : k # <<"user", m>> => active'[k] = active[k]
      /\ taken' \in [Msg -> Msg \cup {None}] /\ taken'[m] = t
      /\ \A x \in Msg : x # m => taken'[x] = taken[x]
  BY <1>5, Keys_Facts
<1>7. thread[t].phase = "open" /\ Registered(t) /\ t # m
  BY DEF Open, Registered
<1>8. /\ \A u \in Msg : thread'[u].phase = thread[u].phase /\ thread'[u].current = thread[u].current
                        /\ thread'[u].done = thread[u].done /\ thread'[u].keys = thread[u].keys
      /\ \A u \in Msg : u # t => thread'[u].queue = thread[u].queue
      /\ thread'[t].queue = Append(thread[t].queue, m)
  BY <1>2, <1>4 DEF Alone
<1>9. /\ Only(m) /\ act' \in [Actor -> Activity] /\ act'[m].at \in {"idle", "over"}
      /\ act'[m].at = "idle" <=> act[m].at = "idle"
      /\ act'[m].base = act[m].base /\ act'[m].text = act[m].text /\ act'[m].how = act[m].how
  OBVIOUS
<1>10. /\ hand' \in Hand /\ (hand'.at = "idle" \/ (hand' = hand /\ m # arrived)) /\ m <= arrived
       /\ ~Registered(m) /\ taken[m] = None
  OBVIOUS
<1>11. \A x : Has(thread'[t].queue, x) <=> Has(thread[t].queue, x) \/ x = m
  BY <1>8, Has_Append, Thread_Type DEF TInv
<1>12. \A u \in Msg : u # m => act'[u] = act[u]
  BY <1>9, Keys_Facts DEF Only
<1>13. Typed'
  BY <1>1, <1>2, <1>3, <1>4, <1>5, <1>6, <1>7, <1>8, <1>9, <1>10, <1>11, <1>12, Keys_Facts DEF Typed, TInv
<1>14. Dispatched'
  <2>1. \A u \in Msg : Registered(u) => thread'[u].phase # "none"
    BY <1>8 DEF Registered
  <2>2. \A x \in Msg : x # m => act'[x] = act[x] /\ taken'[x] = taken[x]
    BY <1>6, <1>12
  <2>3. m \in Nat /\ arrived \in Nat /\ ~(m > arrived)
    BY <1>10, Keys_Facts DEF TInv, Typed
  <2>4. \A x \in Msg : x > arrived => act'[x].at = "idle" /\ taken'[x] = None
    BY <2>2, <2>3 DEF TInv, Dispatched
  <2>5. \A x \in Msg : act'[x].at = "base" => OfSession(x)
    BY <1>9, <2>2 DEF TInv, Dispatched
  <2>6. CASE hand'.at = "idle"
    BY <1>1, <2>4, <2>5, <2>6 DEF Dispatched, OfSession
  <2>7. CASE hand' = hand /\ m # arrived
    <3>1. hand.at # "idle" => arrived \in Msg /\ act'[arrived].at = "idle" /\ taken'[arrived] = None
      BY <2>2, <2>7 DEF TInv, Dispatched
    <3>2. hand.at \in {"await", "steer"} => hand.thread \in Msg /\ thread'[hand.thread].phase # "none"
      BY <2>1 DEF TInv, Dispatched
    <3>3. hand.at \in {"stored", "again", "await"} => target[arrived] \in Key
      BY DEF TInv, Dispatched
    <3> QED BY <1>1, <2>4, <2>5, <2>7, <3>1, <3>2, <3>3 DEF Dispatched, OfSession, Registered
  <2> QED BY <1>10, <2>6, <2>7
<1>15. RunsAreRegistered'
  <2>1. \A u \in Msg : thread'[u].phase # "none" <=> Registered(u)
    BY <1>8 DEF Registered
  <2>2. \A h \in Halter : act'[h] = act[h]
    BY <1>9, Keys_Facts DEF Only
  <2>3. \A u \in Msg : ~Registered(u) => thread'[u] = NoThread
    BY <1>4, <1>7 DEF TInv, RunsAreRegistered, Alone
  <2>4. \A k \in ActiveKey : active'[k] # None => thread'[active'[k]].phase # "none"
    <3>1. ASSUME NEW k \in ActiveKey, active'[k] # None PROVE active'[k] \in Msg /\ Registered(active'[k])
      <4>1. CASE k = <<"user", m>>
        BY <1>6, <1>7, <4>1
      <4>2. CASE k # <<"user", m>>
        <5>1. active'[k] = active[k] /\ active[k] \in Msg
          BY <1>6, <3>1, <4>2 DEF TInv, Typed
        <5> QED BY <3>1, <5>1 DEF TInv, RunsAreRegistered
      <4> QED BY <4>1, <4>2
    <3> QED BY <3>1, <1>8 DEF Registered
  <2>5. ASSUME NEW x \in Msg, taken'[x] # None
        PROVE  thread'[taken'[x]].phase # "none" /\ thread'[x].phase = "none" /\ act'[x].at \in {"idle", "over"}
    <3>1. CASE x = m
      BY <1>6, <1>7, <1>9, <1>10, <2>1, <3>1
    <3>2. CASE x # m
      <4>1. taken'[x] = taken[x] /\ taken[x] \in Msg /\ act'[x] = act[x]
        BY <1>6, <1>12, <2>5, <3>2
      <4> QED BY <2>1, <2>5, <4>1 DEF TInv, RunsAreRegistered, Registered
    <3> QED BY <3>1, <3>2
  <2>6. ASSUME NEW x \in Msg
        PROVE  /\ act'[x].at \in {"idle"} \cup Unregistered => thread'[x].phase = "none"
               /\ act'[x].at \in {"base", "register"} \cup Owning => act'[x].thread = x
               /\ act'[x].at \in Owning => thread'[x].phase # "none"
               /\ act'[x].at = "resteer" => act'[x].thread \in Msg /\ thread'[act'[x].thread].phase # "none"
               /\ act'[x].at \notin {"cancel", "join", "read"}
    <3>1. CASE x = m
      <4>1. act'[x].at \in {"idle", "over"} /\ thread'[x].phase = "none"
        BY <1>9, <1>10, <2>1, <3>1
      <4> QED BY <4>1 DEF Owning, Running, Finishing
    <3>2. CASE x # m
      <4>1. act'[x] = act[x]
        BY <1>12, <3>2
      <4>2. \A u \in Msg : Registered(u) => thread'[u].phase # "none"
        BY <1>8 DEF Registered
      <4> QED BY <2>1, <4>1, <4>2 DEF TInv, RunsAreRegistered, Registered
    <3> QED BY <3>1, <3>2
  <2>7. \A h \in Halter : act'[h].at \in Finishing \cup {"mark", "cancel", "join", "read"} =>
          act'[h].thread \in Msg /\ thread'[act'[h].thread].phase # "none"
    BY <1>8, <2>2 DEF TInv, RunsAreRegistered, Registered
  <2>8. \A h \in Halter : act'[h].at \in Finishing \cup {"idle", "over", "mark", "cancel", "join", "read"}
    BY <2>2 DEF TInv, RunsAreRegistered
  <2>9. \A u \in Msg : thread'[u].phase = "none" => thread'[u] = NoThread
    BY <2>1, <2>3
  <2> QED BY <2>4, <2>5, <2>6, <2>7, <2>8, <2>9 DEF RunsAreRegistered, Registered
<1>16. SessionIsHeld'
  BY <1>1, <1>2, <1>3, <1>4, <1>5, <1>6, <1>7, <1>8, <1>9, <1>10, <1>11, <1>12, Keys_Facts DEF TInv, SessionIsHeld, OfSession, Listed
<1>17. TextsAreSpent'
  <2>1. \A x \in Msg : Spent(x) => Spent(x)'
    BY <1>6, <1>7, <1>8, Keys_Facts DEF Spent, Registered
  <2>2. Spent(m)'
    BY <1>6, Keys_Facts DEF Spent
  <2>3. \A a \in Actor : act'[a].text = act[a].text /\ act'[a].base = act[a].base
    BY <1>9 DEF Only
  <2>4. \A a \in Actor, x \in Msg : Has(act'[a].text, x) \/ Has(act'[a].base, x) => Spent(x)'
    BY <2>1, <2>3 DEF TInv, TextsAreSpent
  <2>5. \A u \in Msg, x \in Msg :
          Has(thread'[u].queue, x) \/ Has(thread'[u].current, x) \/ Has(thread'[u].done, x) => Spent(x)'
    BY <1>8, <1>11, <2>1, <2>2 DEF TInv, TextsAreSpent
  <2>6. \A k \in Key, x \in Msg : Has(rows[k], x) => Spent(x)'
    BY <2>1 DEF TInv, TextsAreSpent
  <2> QED BY <1>1, <2>4, <2>5, <2>6 DEF TextsAreSpent
<1>18. SteersAreKept'
  <2>1. ~Has(thread[t].queue, m) /\ ~Has(act[t].text, m)
    BY <1>10, Keys_Facts DEF TInv, TextsAreSpent, Spent
  <2>2. Once(thread'[t].queue, m)
    BY <1>8, <2>1, Once_Append, Thread_Type DEF TInv
  <2>3. \A x \in Msg : x # m /\ Once(thread[t].queue, x) => Once(thread'[t].queue, x)
    BY <1>8, Once_Append, Thread_Type DEF TInv
  <2>4. act[t].how # "answered"
    BY <1>7 DEF TInv, SteersAreKept
  <2>5. ASSUME NEW u \in Msg, NEW x \in Msg, taken'[x] = u PROVE u # m
    <3>1. CASE x = m
      BY <1>6, <1>7, <2>5, <3>1
    <3>2. CASE x # m
      <4>1. taken[x] = u /\ taken[x] # None
        BY <1>6, <2>5, <3>2, Keys_Facts
      <4> QED BY <1>10, <4>1 DEF TInv, RunsAreRegistered
    <3> QED BY <3>1, <3>2
  <2>6. ASSUME NEW u \in Msg, act'[u].how = "answered"
        PROVE  /\ act'[u].at \in Finishing \cup {"commit", "mark", "over"}
               /\ thread'[u].phase \in {"completed", "finishing"}
    <3>1. act[u].how = "answered" /\ act[u].at \in Finishing \cup {"commit", "mark", "over"}
          /\ thread[u].phase \in {"completed", "finishing"}
      BY <1>9, <1>12, <2>6 DEF TInv, SteersAreKept
    <3>2. u # m
      BY <1>10, <3>1 DEF Registered
    <3> QED BY <1>8, <1>12, <3>1, <3>2
  <2>7. ASSUME NEW u \in Msg, NEW x \in Msg, taken'[x] = u
        PROVE  /\ act'[u].at \in Turning /\ Open(u)' => Kept(u, x)'
               /\ act'[u].how = "answered" => Once(act'[u].text, x)
    <3>1. act'[u] = act[u]
      BY <1>12, <2>5, <2>7
    <3>2. CASE x = m
      <4>1. u = t
        BY <1>6, <2>7, <3>2
      <4> QED BY <2>1, <2>2, <2>4, <3>1, <3>2, <4>1 DEF Kept
    <3>3. CASE x # m
      <4>1. taken[x] = u
        BY <1>6, <2>7, <3>3
      <4>2. /\ act[u].at \in Turning /\ Open(u) => Kept(u, x)
            /\ act[u].how = "answered" => Once(act[u].text, x)
        BY <4>1 DEF TInv, SteersAreKept
      <4>3. Kept(u, x) => Kept(u, x)'
        <5>1. CASE u = t
          BY <1>11, <2>3, <3>1, <3>3, <5>1 DEF Kept
        <5>2. CASE u # t
          BY <1>8, <3>1, <5>2 DEF Kept
        <5> QED BY <5>1, <5>2
      <4> QED BY <1>8, <3>1, <4>2, <4>3 DEF Open
    <3> QED BY <3>2, <3>3
  <2> QED BY <2>6, <2>7 DEF SteersAreKept
<1>19. TextsAreOwn'
  BY <1>1, <1>2, <1>3, <1>4, <1>5, <1>6, <1>7, <1>8, <1>9, <1>10, <1>11, <1>12, Keys_Facts DEF TInv, TextsAreOwn, Registered, Stored, Owning, Running, Finishing, Only, Alone
<1>20. RepliesAreOwn'
  <2>1. \A j \in Msg : active'[<<"bot", j>>] = active[<<"bot", j>>]
    BY <1>6, Keys_Facts
  <2>2. \A j \in Msg, a \in Actor : <<"bot", j>> \in act'[a].keys /\ act'[a].at = "persist" => j = act'[a].thread
    BY <1>9 DEF TInv, RepliesAreOwn, Only
  <2> QED BY <1>8, <2>1, <2>2 DEF TInv, RepliesAreOwn
<1>21. FinishersStore'
  <2>1. \A a \in Actor : act'[a].at \in Finishing => a # m /\ act'[a] = act[a] /\ act[a].thread \in Msg
    BY <1>9, Owner_Thread DEF Finishing, Owning, Only
  <2> QED BY <1>1, <1>8, <2>1 DEF TInv, FinishersStore, Finishing, Stored
<1>22. KnownIsReached'
  <2>1. CASE hand' = hand
    <3>1. \A n \in known : act'[n].at # "idle" => act[n].at # "idle" /\ act'[n].base = act[n].base
      BY <1>9, Keys_Facts DEF TInv, Typed, Only
    <3>2. \A j \in Msg : active'[<<"bot", j>>] = active[<<"bot", j>>]
      BY <1>6, Keys_Facts
    <3> QED BY <1>1, <2>1, <3>1, <3>2, Known_Frame DEF Stored
  <2>2. CASE hand'.at = "idle"
    <3>1. \A n \in known : act'[n].at # "idle" => act[n].at # "idle" /\ act'[n].base = act[n].base
      BY <1>9, Keys_Facts DEF TInv, Typed, Only
    <3>2. \A j \in Msg : active'[<<"bot", j>>] = active[<<"bot", j>>]
      BY <1>6, Keys_Facts
    <3> QED BY <1>1, <2>2, <3>1, <3>2 DEF TInv, KnownIsReached, Stored
  <2> QED BY <1>10, <2>1, <2>2
<1> QED BY <1>13, <1>14, <1>15, <1>16, <1>17, <1>18, <1>19, <1>20, <1>21, <1>22 DEF TInv

(* The dispatcher steers the thread it found. *)
LEMMA Steer_TInv ==
    ASSUME TInv, NEW m \in Msg, m = arrived, Steer(m)
    PROVE  TInv'
<1>1. hand.at = "steer" /\ UNCHANGED <<inbox, outbox, marked, storage, known, unsaved, torn>>
  BY DEF Steer
<1>2. PICK t \in Msg : t = hand.thread
  BY <1>1 DEF TInv, Dispatched
<1>3. act[m].at = "idle" /\ taken[m] = None /\ ~Registered(m) /\ m <= arrived
  BY <1>1, Keys_Facts DEF TInv, Dispatched, RunsAreRegistered
<1>4. CASE Open(t) /\ Accept(t, m) /\ hand' = IdleHand /\ UNCHANGED act
  <2>1. hand' \in Hand /\ hand'.at = "idle"
    BY <1>4, Hand_Moves DEF TInv
  <2>2. act' = act /\ Only(m) /\ act' \in [Actor -> Activity]
    BY <1>4 DEF Only, TInv, Typed
  <2> QED BY <1>1, <1>3, <1>4, <2>1, <2>2, Accepted_TInv
<1>5. CASE OfSession(m) /\ Fire(m, <<>>) /\ UNCHANGED <<thread, active, taken>>
  <2>1. m \notin known
    BY <1>5, Known_Target, Keys_Facts DEF OfSession
  <2>2. <<>> \in Seq(Msg) /\ \A x \in Msg : ~Has(<<>>, x)
    BY Has_Empty
  <2> QED BY <1>1, <1>5, <2>1, <2>2, Fired_TInv DEF history
<1>6. CASE /\ hand' = [IdleHand EXCEPT !.at = "look", !.refused = TRUE]
           /\ UNCHANGED act /\ UNCHANGED <<thread, active, taken>>
  <2>1. hand' \in Hand /\ hand'.at = "look"
    BY <1>6, Hand_Moves DEF TInv
  <2> QED BY <1>1, <1>6, <2>1, Handed_TInv DEF history
<1>7. CASE Open(t)
  BY <1>2, <1>4, <1>7 DEF Steer
<1>8. CASE ~Open(t) /\ OfSession(m)
  BY <1>2, <1>5, <1>8 DEF Steer
<1>9. CASE ~Open(t) /\ ~OfSession(m)
  BY <1>2, <1>6, <1>9 DEF Steer
<1> QED BY <1>7, <1>8, <1>9

(* The bot's message of a run is sent, before it becomes an alias. *)
LEMMA SendReply_TInv ==
    ASSUME TInv, NEW m \in Msg, SendReply(m)
    PROVE  TInv'
<1>1. /\ Only(m) /\ act' \in [Actor -> Activity]
      /\ act'[m].at = "update"
      /\ act'[m].thread = act[m].thread
      /\ act'[m].base = act[m].base
      /\ act'[m].text = act[m].text
      /\ act'[m].keys = act[m].keys
      /\ act'[m].turns = act[m].turns
      /\ act'[m].how = act[m].how
      /\ act'[m].unwinding = act[m].unwinding
  <2> DEFINE new == [act[m] EXCEPT !.at = "update"]
  <2>1. act[m] \in Activity
    BY Act_Type, Keys_Facts DEF TInv
  <2>2. /\ new \in Activity
        /\ new.at = "update"
        /\ new.thread = act[m].thread
        /\ new.base = act[m].base
        /\ new.text = act[m].text
        /\ new.keys = act[m].keys
        /\ new.turns = act[m].turns
        /\ new.how = act[m].how
        /\ new.unwinding = act[m].unwinding
    BY <2>1 DEF Activity, Stages, Unregistered, Running, Finishing
  <2>3. act' = [act EXCEPT ![m] = new]
    BY DEF SendReply, Go
  <2> HIDE DEF new
  <2> QED BY <2>2, <2>3, Put_Act, Keys_Facts DEF TInv

<1>2. act[m].at = "model" /\ UNCHANGED <<arrived, target, hand, marked, thread, active, rows, faults, taken, known, unsaved, torn>>
  BY DEF SendReply, inbox, storage, history
<1>3. sent' \subseteq {"bot"} \X Msg /\ log' \in Seq(Key)
  <2>1. <<"bot", m>> \in Key /\ log \in Seq(Key) /\ sent \subseteq {"bot"} \X Msg
    BY Keys_Facts DEF TInv, Typed
  <2>2. Append(log, <<"bot", m>>) \in Seq(Key)
    BY <2>1
  <2> QED BY <2>1, <2>2 DEF SendReply, Send
<1>4. Typed'
  BY <1>1, <1>2, <1>3, Keys_Facts DEF Typed, TInv
<1>5. Dispatched'
  <2>1. \A u \in Msg : Registered(u) => thread'[u].phase # "none"
    BY <1>1, <1>2, <1>3 DEF Registered, Alone
  <2> QED BY <1>1, <1>2, <1>3, <2>1, Keys_Facts, Dispatched_Frame
<1>6. RunsAreRegistered'
  <2>1. \A u \in Msg : Registered(u) <=> thread'[u].phase # "none"
    BY <1>1, <1>2, <1>3 DEF Registered, Alone
  <2>2. \A u \in Msg : ~Registered(u) => thread'[u] = NoThread
    BY <1>1, <1>2, <1>3 DEF TInv, RunsAreRegistered, Alone, Registered
  <2>3. \A q \in ActiveKey : active'[q] # None => active'[q] \in Msg /\ Registered(active'[q])
    BY <1>1, <1>2, <1>3 DEF TInv, RunsAreRegistered, Typed
  <2>4. m \in Msg /\ m \notin Halter /\ m \in Actor
    BY Keys_Facts
  <2>5. act[m].at \in {"base", "register"} \cup Owning => act[m].thread = m
    BY <2>4 DEF TInv, RunsAreRegistered
  <2>6. /\ act[m].at # "idle" /\ act'[m].at \notin {"idle", "cancel", "join", "read"}
        /\ act'[m].at \in Unregistered => act[m].at \in Unregistered
        /\ act'[m].at \in {"base", "register"} \cup Owning => act'[m].thread = act[m].thread
        /\ act'[m].at \in {"base", "register"} \cup Owning => act[m].at \in {"base", "register"} \cup Owning
        /\ act'[m].at \in Owning => act[m].at \in Owning
        /\ act[m].at = "over" => act'[m].at = "over"
    BY <1>1, <1>2, <1>3 DEF Owning, Running, Finishing, Unregistered
  <2>7. act'[m].at = "resteer" => act'[m].thread \in Msg /\ Registered(act'[m].thread)
    BY <1>1, <1>2, <1>3
  <2>8. Only(m) /\ UNCHANGED taken
    BY <1>1, <1>2, <1>3
  <2> QED BY <2>1, <2>2, <2>3, <2>4, <2>5, <2>6, <2>7, <2>8, Runs_Frame
<1>7. SessionIsHeld'
  BY <1>1, <1>2, <1>3, Keys_Facts DEF TInv, SessionIsHeld, OfSession, Listed
<1>8. TextsAreSpent'
  <2>1. \A x \in Msg : Spent(x) => Spent(x)'
    BY <1>1, <1>2, <1>3, Keys_Facts DEF Spent, Registered, Only, Alone
  <2> QED BY <2>1, <1>1, <1>2, <1>3, Keys_Facts DEF TInv, TextsAreSpent, Only, Alone
<1>9. SteersAreKept'
  BY <1>1, <1>2, <1>3, Keys_Facts DEF TInv, SteersAreKept, Kept, Open, Turning, Finishing, Only, Alone
<1>10. TextsAreOwn'
  BY <1>1, <1>2, <1>3, Keys_Facts DEF TInv, TextsAreOwn, Registered, Stored, Owning, Running, Finishing, Only, Alone
<1>11. RepliesAreOwn'
  BY <1>1, <1>2, <1>3, Keys_Facts DEF TInv, RepliesAreOwn, Only, Alone
<1>12. FinishersStore'
  BY <1>1, <1>2, <1>3, Keys_Facts DEF TInv, FinishersStore, Stored, Finishing, Only, Alone
<1>13. KnownIsReached'
  <2>1. \A n \in known : act'[n].at # "idle" => act[n].at # "idle" /\ act'[n].base = act[n].base
    BY <1>1, <1>2, <1>3, Keys_Facts DEF TInv, Typed, Only
  <2> QED BY <1>1, <1>2, <1>3, <2>1, Keys_Facts, Known_Frame DEF Stored
<1> QED BY <1>4, <1>5, <1>6, <1>7, <1>8, <1>9, <1>10, <1>11, <1>12, <1>13 DEF TInv

(* The model asks for tools: another turn, or the turn limit cuts the run. *)
LEMMA AskForTools_TInv ==
    ASSUME TInv, NEW m \in Msg, AskForTools(m)
    PROVE  TInv'
<1>1. act[m].at = "model" /\ UNCHANGED <<arrived, target, hand, sent, log, marked, thread, active, rows, faults, taken, known, unsaved, torn>>
  BY DEF AskForTools, inbox, outbox, storage, history
<1>2. PICK s \in {"turn", "commit"}, h \in {"cut", act[m].how} :
        act' = [act EXCEPT ![m].at = s, ![m].how = h] /\ (s = "commit" => h = "cut")
  <2>1. CASE AtLimit(m)
    BY <2>1 DEF AskForTools
  <2>2. CASE ~AtLimit(m)
    <3>1. act' = [act EXCEPT ![m].at = "turn"]
      BY <2>2 DEF AskForTools, Go
    <3>2. act' = [act EXCEPT ![m].at = "turn", ![m].how = act[m].how]
      BY <3>1, Keys_Facts, Act_Type DEF TInv, Typed, Activity
    <3> QED BY <3>2
  <2> QED BY <2>1, <2>2
<1>3. /\ Only(m) /\ act' \in [Actor -> Activity]
      /\ act'[m].at = s
      /\ act'[m].thread = act[m].thread
      /\ act'[m].base = act[m].base
      /\ act'[m].text = act[m].text
      /\ act'[m].keys = act[m].keys
      /\ act'[m].turns = act[m].turns
      /\ act'[m].how = h
      /\ act'[m].unwinding = act[m].unwinding
  <2> DEFINE new == [act[m] EXCEPT !.at = s, !.how = h]
  <2>1. act[m] \in Activity
    BY Act_Type, Keys_Facts DEF TInv
  <2>2. /\ new \in Activity
        /\ new.at = s
        /\ new.thread = act[m].thread
        /\ new.base = act[m].base
        /\ new.text = act[m].text
        /\ new.keys = act[m].keys
        /\ new.turns = act[m].turns
        /\ new.how = h
        /\ new.unwinding = act[m].unwinding
    BY <2>1 DEF Activity, Stages, Unregistered, Running, Finishing
  <2>3. act' = [act EXCEPT ![m] = new]
    BY <1>2
  <2> HIDE DEF new
  <2> QED BY <2>2, <2>3, Put_Act, Keys_Facts DEF TInv
<1>4. Typed'
  BY <1>1, <1>2, <1>3, Keys_Facts DEF Typed, TInv
<1>5. Dispatched'
  <2>1. \A u \in Msg : Registered(u) => thread'[u].phase # "none"
    BY <1>1, <1>2, <1>3 DEF Registered, Alone
  <2> QED BY <1>1, <1>2, <1>3, <2>1, Keys_Facts, Dispatched_Frame
<1>6. RunsAreRegistered'
  <2>1. \A u \in Msg : Registered(u) <=> thread'[u].phase # "none"
    BY <1>1, <1>2, <1>3 DEF Registered, Alone
  <2>2. \A u \in Msg : ~Registered(u) => thread'[u] = NoThread
    BY <1>1, <1>2, <1>3 DEF TInv, RunsAreRegistered, Alone, Registered
  <2>3. \A q \in ActiveKey : active'[q] # None => active'[q] \in Msg /\ Registered(active'[q])
    BY <1>1, <1>2, <1>3 DEF TInv, RunsAreRegistered, Typed
  <2>4. m \in Msg /\ m \notin Halter /\ m \in Actor
    BY Keys_Facts
  <2>5. act[m].at \in {"base", "register"} \cup Owning => act[m].thread = m
    BY <2>4 DEF TInv, RunsAreRegistered
  <2>6. /\ act[m].at # "idle" /\ act'[m].at \notin {"idle", "cancel", "join", "read"}
        /\ act'[m].at \in Unregistered => act[m].at \in Unregistered
        /\ act'[m].at \in {"base", "register"} \cup Owning => act'[m].thread = act[m].thread
        /\ act'[m].at \in {"base", "register"} \cup Owning => act[m].at \in {"base", "register"} \cup Owning
        /\ act'[m].at \in Owning => act[m].at \in Owning
        /\ act[m].at = "over" => act'[m].at = "over"
    BY <1>1, <1>2, <1>3 DEF Owning, Running, Finishing, Unregistered
  <2>7. act'[m].at = "resteer" => act'[m].thread \in Msg /\ Registered(act'[m].thread)
    BY <1>1, <1>2, <1>3
  <2>8. Only(m) /\ UNCHANGED taken
    BY <1>1, <1>2, <1>3
  <2> QED BY <2>1, <2>2, <2>3, <2>4, <2>5, <2>6, <2>7, <2>8, Runs_Frame
<1>7. SessionIsHeld'
  BY <1>1, <1>2, <1>3, Keys_Facts DEF TInv, SessionIsHeld, OfSession, Listed
<1>8. TextsAreSpent'
  <2>1. \A x \in Msg : Spent(x) => Spent(x)'
    BY <1>1, <1>2, <1>3, Keys_Facts DEF Spent, Registered, Only, Alone
  <2> QED BY <2>1, <1>1, <1>2, <1>3, Keys_Facts DEF TInv, TextsAreSpent, Only, Alone
<1>9. SteersAreKept'
  BY <1>1, <1>2, <1>3, Keys_Facts DEF TInv, SteersAreKept, Kept, Open, Turning, Finishing, Only, Alone
<1>10. TextsAreOwn'
  BY <1>1, <1>2, <1>3, Keys_Facts DEF TInv, TextsAreOwn, Registered, Stored, Owning, Running, Finishing, Only, Alone
<1>11. RepliesAreOwn'
  BY <1>1, <1>2, <1>3, Keys_Facts DEF TInv, RepliesAreOwn, Only, Alone
<1>12. FinishersStore'
  BY <1>1, <1>2, <1>3, Keys_Facts DEF TInv, FinishersStore, Stored, Finishing, Only, Alone
<1>13. KnownIsReached'
  <2>1. \A n \in known : act'[n].at # "idle" => act[n].at # "idle" /\ act'[n].base = act[n].base
    BY <1>1, <1>2, <1>3, Keys_Facts DEF TInv, Typed, Only
  <2> QED BY <1>1, <1>2, <1>3, <2>1, Keys_Facts, Known_Frame DEF Stored
<1> QED BY <1>4, <1>5, <1>6, <1>7, <1>8, <1>9, <1>10, <1>11, <1>12, <1>13 DEF TInv

(* The newest stored transcript of a session is a stored transcript.       *)
LEMMA Greatest ==
    ASSUME NEW n \in Nat, NEW S, S \subseteq 1 .. n, S # {}
    PROVE  Max(S) \in S
<1> DEFINE D == {n - i : i \in S}
<1>1. D \subseteq Nat /\ D # {}
  <2>1. \A i \in 1 .. n : n - i \in Nat
    OBVIOUS
  <2> QED BY <2>1
<1>2. PICK d \in D : \A e \in D : <<e, d>> \notin OpToRel(<, Nat)
  BY <1>1, NatLessThanWellFounded, WFMin
<1>3. \A e \in D : d <= e
  <2>1. ASSUME NEW e \in D, e < d PROVE FALSE
    <3>1. <<e, d>> \in Nat \X Nat /\ <<e, d>>[1] < <<e, d>>[2]
      BY <1>1, <2>1
    <3>2. <<e, d>> \in OpToRel(<, Nat)
      BY <3>1 DEF OpToRel
    <3> QED BY <1>2, <3>2
  <2>2. \A e \in D : e \in Int /\ d \in Int
    BY <1>1
  <2> HIDE DEF D
  <2> QED BY <2>1, <2>2
<1>4. PICK i \in S : d = n - i
  BY <1>2
<1>5. \A j \in S : i >= j
  <2>1. \A j \in S : n - j \in D
    OBVIOUS
  <2> HIDE DEF D
  <2> QED BY <1>3, <1>4, <2>1
<1> QED BY <1>4, <1>5 DEF Max

(* The transcript a console session continues contains spent messages only. *)
LEMMA Latest_Stored ==
    ASSUME TInv
    PROVE  Latest \in Seq(Msg) /\ \A x \in Msg : Has(Latest, x) => Spent(x)
<1> DEFINE kept == {i \in DOMAIN log : Stored(log[i])}
<1>1. CASE kept = {}
  BY <1>1, Has_Empty DEF Latest
<1>2. CASE kept # {}
  <2>1. log \in Seq(Key) /\ Len(log) \in Nat /\ DOMAIN log = 1 .. Len(log)
    BY DEF TInv, Typed
  <2>2. kept \subseteq 1 .. Len(log)
    BY <2>1
  <2>3. Max(kept) \in kept
    <3> HIDE DEF kept
    <3> QED BY <1>2, <2>1, <2>2, Greatest
  <2>4. log[Max(kept)] \in Key
    BY <2>1, <2>3
  <2>5. Latest = rows[log[Max(kept)]]
    BY <1>2 DEF Latest
  <2> HIDE DEF kept
  <2> QED BY <2>4, <2>5 DEF TInv, Typed, TextsAreSpent
<1> QED BY <1>1, <1>2

(* A worker reads the transcript it continues. *)
LEMMA ReadBase_TInv ==
    ASSUME TInv, NEW m \in Msg, ReadBase(m)
    PROVE  TInv'
<1>1. act[m].at = "base" /\ UNCHANGED <<arrived, target, hand, sent, log, marked, thread, active, rows, faults, taken, known, unsaved, torn>>
  BY DEF ReadBase, inbox, outbox, storage, history
<1>2. /\ Only(m) /\ act' \in [Actor -> Activity]
      /\ act'[m].at = "register"
      /\ act'[m].thread = act[m].thread
      /\ act'[m].base = Latest
      /\ act'[m].text = act[m].text
      /\ act'[m].keys = act[m].keys
      /\ act'[m].turns = act[m].turns
      /\ act'[m].how = act[m].how
      /\ act'[m].unwinding = act[m].unwinding
  <2> DEFINE new == [act[m] EXCEPT !.at = "register", !.base = Latest]
  <2>1. act[m] \in Activity
    BY Act_Type, Keys_Facts DEF TInv
  <2>2. /\ new \in Activity
        /\ new.at = "register"
        /\ new.thread = act[m].thread
        /\ new.base = Latest
        /\ new.text = act[m].text
        /\ new.keys = act[m].keys
        /\ new.turns = act[m].turns
        /\ new.how = act[m].how
        /\ new.unwinding = act[m].unwinding
    BY <2>1, Latest_Stored DEF Activity, Stages, Unregistered, Running, Finishing
  <2>3. act' = [act EXCEPT ![m] = new]
    BY DEF ReadBase
  <2> HIDE DEF new
  <2> QED BY <2>2, <2>3, Put_Act, Keys_Facts DEF TInv

<1>3. \A x \in Msg : Has(Latest, x) => Spent(x)
  BY Latest_Stored
<1>4. m \notin known
  BY <1>1, Known_Target, Keys_Facts DEF TInv, Dispatched, OfSession
<1>5. Typed'
  BY <1>1, <1>2, <1>3, <1>4, Keys_Facts DEF Typed, TInv
<1>6. Dispatched'
  <2>1. \A u \in Msg : Registered(u) => thread'[u].phase # "none"
    BY <1>1, <1>2, <1>3, <1>4 DEF Registered, Alone
  <2> QED BY <1>1, <1>2, <1>3, <1>4, <2>1, Keys_Facts, Dispatched_Frame
<1>7. RunsAreRegistered'
  <2>1. \A u \in Msg : Registered(u) <=> thread'[u].phase # "none"
    BY <1>1, <1>2, <1>3, <1>4 DEF Registered, Alone
  <2>2. \A u \in Msg : ~Registered(u) => thread'[u] = NoThread
    BY <1>1, <1>2, <1>3, <1>4 DEF TInv, RunsAreRegistered, Alone, Registered
  <2>3. \A q \in ActiveKey : active'[q] # None => active'[q] \in Msg /\ Registered(active'[q])
    BY <1>1, <1>2, <1>3, <1>4 DEF TInv, RunsAreRegistered, Typed
  <2>4. m \in Msg /\ m \notin Halter /\ m \in Actor
    BY Keys_Facts
  <2>5. act[m].at \in {"base", "register"} \cup Owning => act[m].thread = m
    BY <2>4 DEF TInv, RunsAreRegistered
  <2>6. /\ act[m].at # "idle" /\ act'[m].at \notin {"idle", "cancel", "join", "read"}
        /\ act'[m].at \in Unregistered => act[m].at \in Unregistered
        /\ act'[m].at \in {"base", "register"} \cup Owning => act'[m].thread = act[m].thread
        /\ act'[m].at \in {"base", "register"} \cup Owning => act[m].at \in {"base", "register"} \cup Owning
        /\ act'[m].at \in Owning => act[m].at \in Owning
        /\ act[m].at = "over" => act'[m].at = "over"
    BY <1>1, <1>2, <1>3, <1>4 DEF Owning, Running, Finishing, Unregistered
  <2>7. act'[m].at = "resteer" => act'[m].thread \in Msg /\ Registered(act'[m].thread)
    BY <1>1, <1>2, <1>3, <1>4
  <2>8. Only(m) /\ UNCHANGED taken
    BY <1>1, <1>2, <1>3, <1>4
  <2> QED BY <2>1, <2>2, <2>3, <2>4, <2>5, <2>6, <2>7, <2>8, Runs_Frame
<1>8. SessionIsHeld'
  BY <1>1, <1>2, <1>3, <1>4, Keys_Facts DEF TInv, SessionIsHeld, OfSession, Listed
<1>9. TextsAreSpent'
  <2>1. \A x \in Msg : Spent(x) => Spent(x)'
    BY <1>1, <1>2, <1>3, <1>4, Keys_Facts DEF Spent, Registered, Only, Alone
  <2> QED BY <2>1, <1>1, <1>2, <1>3, <1>4, Keys_Facts DEF TInv, TextsAreSpent, Only, Alone
<1>10. SteersAreKept'
  BY <1>1, <1>2, <1>3, <1>4, Keys_Facts DEF TInv, SteersAreKept, Kept, Open, Turning, Finishing, Only, Alone
<1>11. TextsAreOwn'
  BY <1>1, <1>2, <1>3, <1>4, Keys_Facts DEF TInv, TextsAreOwn, Registered, Stored, Owning, Running, Finishing, Only, Alone
<1>12. RepliesAreOwn'
  BY <1>1, <1>2, <1>3, <1>4, Keys_Facts DEF TInv, RepliesAreOwn, Only, Alone
<1>13. FinishersStore'
  BY <1>1, <1>2, <1>3, <1>4, Keys_Facts DEF TInv, FinishersStore, Stored, Finishing, Only, Alone
<1>14. KnownIsReached'
  <2>1. \A n \in known : act'[n].at # "idle" => act[n].at # "idle" /\ act'[n].base = act[n].base
    BY <1>1, <1>2, <1>3, <1>4, Keys_Facts DEF TInv, Typed, Only
  <2> QED BY <1>1, <1>2, <1>3, <1>4, <2>1, Keys_Facts, Known_Frame DEF Stored
<1> QED BY <1>5, <1>6, <1>7, <1>8, <1>9, <1>10, <1>11, <1>12, <1>13, <1>14 DEF TInv

(* A refused worker looks for the session's run once more. *)
LEMMA Relook_TInv ==
    ASSUME TInv, NEW m \in Msg, Relook(m)
    PROVE  TInv'
<1>1. act[m].at = "relook" /\ UNCHANGED <<arrived, target, hand, sent, log, marked, thread, active, rows, faults, taken, known, unsaved, torn>>
  BY DEF Relook, inbox, outbox, storage, history

<1>2. PICK t \in Msg \cup {None}, s \in {"over", "resteer"} :
        /\ t = active[Session] /\ act' = [act EXCEPT ![m].at = s, ![m].thread = t]
        /\ (s = "resteer" => t \in Msg)
  <2>1. active[Session] \in Msg \cup {None}
    BY Keys_Facts DEF TInv, Typed
  <2> QED BY <2>1 DEF Relook
<1>3. s = "resteer" => Registered(t)
  BY <1>2, Keys_Facts DEF TInv, RunsAreRegistered
<1>4. /\ Only(m) /\ act' \in [Actor -> Activity]
      /\ act'[m].at = s
      /\ act'[m].thread = t
      /\ act'[m].base = act[m].base
      /\ act'[m].text = act[m].text
      /\ act'[m].keys = act[m].keys
      /\ act'[m].turns = act[m].turns
      /\ act'[m].how = act[m].how
      /\ act'[m].unwinding = act[m].unwinding
  <2> DEFINE new == [act[m] EXCEPT !.at = s, !.thread = t]
  <2>1. act[m] \in Activity
    BY Act_Type, Keys_Facts DEF TInv
  <2>2. /\ new \in Activity
        /\ new.at = s
        /\ new.thread = t
        /\ new.base = act[m].base
        /\ new.text = act[m].text
        /\ new.keys = act[m].keys
        /\ new.turns = act[m].turns
        /\ new.how = act[m].how
        /\ new.unwinding = act[m].unwinding
    BY <2>1 DEF Activity, Stages, Unregistered, Running, Finishing
  <2>3. act' = [act EXCEPT ![m] = new]
    BY <1>2
  <2> HIDE DEF new
  <2> QED BY <2>2, <2>3, Put_Act, Keys_Facts DEF TInv
<1>5. Typed'
  BY <1>1, <1>2, <1>3, <1>4, Keys_Facts DEF Typed, TInv
<1>6. Dispatched'
  <2>1. \A u \in Msg : Registered(u) => thread'[u].phase # "none"
    BY <1>1, <1>2, <1>3, <1>4 DEF Registered, Alone
  <2> QED BY <1>1, <1>2, <1>3, <1>4, <2>1, Keys_Facts, Dispatched_Frame
<1>7. RunsAreRegistered'
  <2>1. \A u \in Msg : Registered(u) <=> thread'[u].phase # "none"
    BY <1>1, <1>2, <1>3, <1>4 DEF Registered, Alone
  <2>2. \A u \in Msg : ~Registered(u) => thread'[u] = NoThread
    BY <1>1, <1>2, <1>3, <1>4 DEF TInv, RunsAreRegistered, Alone, Registered
  <2>3. \A q \in ActiveKey : active'[q] # None => active'[q] \in Msg /\ Registered(active'[q])
    BY <1>1, <1>2, <1>3, <1>4 DEF TInv, RunsAreRegistered, Typed
  <2>4. m \in Msg /\ m \notin Halter /\ m \in Actor
    BY Keys_Facts
  <2>5. act[m].at \in {"base", "register"} \cup Owning => act[m].thread = m
    BY <2>4 DEF TInv, RunsAreRegistered
  <2>6. /\ act[m].at # "idle" /\ act'[m].at \notin {"idle", "cancel", "join", "read"}
        /\ act'[m].at \in Unregistered => act[m].at \in Unregistered
        /\ act'[m].at \in {"base", "register"} \cup Owning => act'[m].thread = act[m].thread
        /\ act'[m].at \in {"base", "register"} \cup Owning => act[m].at \in {"base", "register"} \cup Owning
        /\ act'[m].at \in Owning => act[m].at \in Owning
        /\ act[m].at = "over" => act'[m].at = "over"
    BY <1>1, <1>2, <1>3, <1>4 DEF Owning, Running, Finishing, Unregistered
  <2>7. act'[m].at = "resteer" => act'[m].thread \in Msg /\ Registered(act'[m].thread)
    BY <1>1, <1>2, <1>3, <1>4
  <2>8. Only(m) /\ UNCHANGED taken
    BY <1>1, <1>2, <1>3, <1>4
  <2> QED BY <2>1, <2>2, <2>3, <2>4, <2>5, <2>6, <2>7, <2>8, Runs_Frame
<1>8. SessionIsHeld'
  BY <1>1, <1>2, <1>3, <1>4, Keys_Facts DEF TInv, SessionIsHeld, OfSession, Listed
<1>9. TextsAreSpent'
  <2>1. \A x \in Msg : Spent(x) => Spent(x)'
    BY <1>1, <1>2, <1>3, <1>4, Keys_Facts DEF Spent, Registered, Only, Alone
  <2> QED BY <2>1, <1>1, <1>2, <1>3, <1>4, Keys_Facts DEF TInv, TextsAreSpent, Only, Alone
<1>10. SteersAreKept'
  BY <1>1, <1>2, <1>3, <1>4, Keys_Facts DEF TInv, SteersAreKept, Kept, Open, Turning, Finishing, Only, Alone
<1>11. TextsAreOwn'
  BY <1>1, <1>2, <1>3, <1>4, Keys_Facts DEF TInv, TextsAreOwn, Registered, Stored, Owning, Running, Finishing, Only, Alone
<1>12. RepliesAreOwn'
  BY <1>1, <1>2, <1>3, <1>4, Keys_Facts DEF TInv, RepliesAreOwn, Only, Alone
<1>13. FinishersStore'
  BY <1>1, <1>2, <1>3, <1>4, Keys_Facts DEF TInv, FinishersStore, Stored, Finishing, Only, Alone
<1>14. KnownIsReached'
  <2>1. \A n \in known : act'[n].at # "idle" => act[n].at # "idle" /\ act'[n].base = act[n].base
    BY <1>1, <1>2, <1>3, <1>4, Keys_Facts DEF TInv, Typed, Only
  <2> QED BY <1>1, <1>2, <1>3, <1>4, <2>1, Keys_Facts, Known_Frame DEF Stored
<1> QED BY <1>5, <1>6, <1>7, <1>8, <1>9, <1>10, <1>11, <1>12, <1>13, <1>14 DEF TInv

(* A worker that registered nothing is over. *)
LEMMA Over_TInv ==
    ASSUME TInv, NEW m \in Msg, act[m].at \in Unregistered, Only(m), act' \in [Actor -> Activity],
           act'[m].at = "over", act'[m].base = act[m].base, act'[m].text = act[m].text,
           act'[m].how = act[m].how,
           UNCHANGED <<inbox, outbox, hand, marked, thread, active, storage, history>>
    PROVE  TInv'
<1>1. UNCHANGED <<arrived, target, hand, sent, log, marked, thread, active, rows, faults, taken, known, unsaved, torn>>
  BY DEF inbox, outbox, storage, history
<1>2. /\ act[m].at \in Unregistered /\ Only(m) /\ act' \in [Actor -> Activity]
      /\ act'[m].at = "over" /\ act'[m].base = act[m].base /\ act'[m].text = act[m].text
      /\ act'[m].how = act[m].how
  OBVIOUS
<1>3. act[m].at # "idle" /\ act[m].at # "over"
  BY DEF Unregistered
<1>4. Typed'
  BY <1>1, <1>2, <1>3, Keys_Facts DEF Typed, TInv
<1>5. Dispatched'
  <2>1. \A u \in Msg : Registered(u) => thread'[u].phase # "none"
    BY <1>1, <1>2, <1>3 DEF Registered, Alone
  <2> QED BY <1>1, <1>2, <1>3, <2>1, Keys_Facts, Dispatched_Frame
<1>6. RunsAreRegistered'
  <2>1. \A u \in Msg : Registered(u) <=> thread'[u].phase # "none"
    BY <1>1, <1>2, <1>3 DEF Registered, Alone
  <2>2. \A u \in Msg : ~Registered(u) => thread'[u] = NoThread
    BY <1>1, <1>2, <1>3 DEF TInv, RunsAreRegistered, Alone, Registered
  <2>3. \A q \in ActiveKey : active'[q] # None => active'[q] \in Msg /\ Registered(active'[q])
    BY <1>1, <1>2, <1>3 DEF TInv, RunsAreRegistered, Typed
  <2>4. m \in Msg /\ m \notin Halter /\ m \in Actor
    BY Keys_Facts
  <2>5. act[m].at \in {"base", "register"} \cup Owning => act[m].thread = m
    BY <2>4 DEF TInv, RunsAreRegistered
  <2>6. /\ act[m].at # "idle" /\ act'[m].at \notin {"idle", "cancel", "join", "read"}
        /\ act'[m].at \in Unregistered => act[m].at \in Unregistered
        /\ act'[m].at \in {"base", "register"} \cup Owning => act'[m].thread = act[m].thread
        /\ act'[m].at \in {"base", "register"} \cup Owning => act[m].at \in {"base", "register"} \cup Owning
        /\ act'[m].at \in Owning => act[m].at \in Owning
        /\ act[m].at = "over" => act'[m].at = "over"
    BY <1>1, <1>2, <1>3 DEF Owning, Running, Finishing, Unregistered
  <2>7. act'[m].at = "resteer" => act'[m].thread \in Msg /\ Registered(act'[m].thread)
    BY <1>1, <1>2, <1>3
  <2>8. Only(m) /\ UNCHANGED taken
    BY <1>1, <1>2, <1>3
  <2> QED BY <2>1, <2>2, <2>3, <2>4, <2>5, <2>6, <2>7, <2>8, Runs_Frame
<1>7. SessionIsHeld'
  BY <1>1, <1>2, <1>3, Keys_Facts DEF TInv, SessionIsHeld, OfSession, Listed
<1>8. TextsAreSpent'
  <2>1. \A x \in Msg : Spent(x) => Spent(x)'
    BY <1>1, <1>2, <1>3, Keys_Facts DEF Spent, Registered, Only, Alone
  <2> QED BY <2>1, <1>1, <1>2, <1>3, Keys_Facts DEF TInv, TextsAreSpent, Only, Alone
<1>9. SteersAreKept'
  BY <1>1, <1>2, <1>3, Keys_Facts DEF TInv, SteersAreKept, Kept, Open, Turning, Finishing, Only, Alone
<1>10. TextsAreOwn'
  BY <1>1, <1>2, <1>3, Keys_Facts DEF TInv, TextsAreOwn, Registered, Stored, Owning, Running, Finishing, Only, Alone
<1>11. RepliesAreOwn'
  BY <1>1, <1>2, <1>3, Keys_Facts DEF TInv, RepliesAreOwn, Only, Alone
<1>12. FinishersStore'
  BY <1>1, <1>2, <1>3, Keys_Facts DEF TInv, FinishersStore, Stored, Finishing, Only, Alone
<1>13. KnownIsReached'
  <2>1. \A n \in known : act'[n].at # "idle" => act[n].at # "idle" /\ act'[n].base = act[n].base
    BY <1>1, <1>2, <1>3, Keys_Facts DEF TInv, Typed, Only
  <2> QED BY <1>1, <1>2, <1>3, <2>1, Keys_Facts, Known_Frame DEF Stored
<1> QED BY <1>4, <1>5, <1>6, <1>7, <1>8, <1>9, <1>10, <1>11, <1>12, <1>13 DEF TInv

(* It offers its message to the run it found, and is over. *)
LEMMA Resteer_TInv ==
    ASSUME TInv, NEW m \in Msg, Resteer(m)
    PROVE  TInv'
<1>1. act[m].at = "resteer" /\ UNCHANGED <<inbox, outbox, hand, marked, storage, known, unsaved, torn>>
  BY DEF Resteer
<1>2. /\ Only(m) /\ act' \in [Actor -> Activity]
      /\ act'[m].at = "over"
      /\ act'[m].thread = act[m].thread
      /\ act'[m].base = act[m].base
      /\ act'[m].text = act[m].text
      /\ act'[m].keys = act[m].keys
      /\ act'[m].turns = act[m].turns
      /\ act'[m].how = act[m].how
      /\ act'[m].unwinding = act[m].unwinding
  <2> DEFINE new == [act[m] EXCEPT !.at = "over"]
  <2>1. act[m] \in Activity
    BY Act_Type, Keys_Facts DEF TInv
  <2>2. /\ new \in Activity
        /\ new.at = "over"
        /\ new.thread = act[m].thread
        /\ new.base = act[m].base
        /\ new.text = act[m].text
        /\ new.keys = act[m].keys
        /\ new.turns = act[m].turns
        /\ new.how = act[m].how
        /\ new.unwinding = act[m].unwinding
    BY <2>1 DEF Activity, Stages, Unregistered, Running, Finishing
  <2>3. act' = [act EXCEPT ![m] = new]
    BY DEF Resteer, Go
  <2> HIDE DEF new
  <2> QED BY <2>2, <2>3, Put_Act, Keys_Facts DEF TInv

<1>3. PICK t \in Msg : t = act[m].thread
  BY <1>1 DEF TInv, RunsAreRegistered
<1>4. ~Registered(m) /\ taken[m] = None
  BY <1>1 DEF TInv, RunsAreRegistered, Unregistered
<1>5. /\ m <= arrived /\ hand' \in Hand
      /\ hand'.at = "idle" \/ (hand' = hand /\ m # arrived)
  <2>1. ~(m > arrived) /\ m \in Nat /\ arrived \in Nat
    BY <1>1, Keys_Facts DEF TInv, Dispatched, Typed
  <2>2. hand' = hand /\ hand \in Hand
    BY <1>1 DEF TInv, Typed
  <2>3. hand.at # "idle" => m # arrived
    BY <1>1 DEF TInv, Dispatched
  <2> QED BY <2>1, <2>2, <2>3
<1>6. CASE Open(t) /\ Accept(t, m)
  BY <1>1, <1>2, <1>4, <1>5, <1>6, Accepted_TInv
<1>7. CASE UNCHANGED <<thread, active, taken>>
  BY <1>1, <1>2, <1>7, Over_TInv DEF history, Unregistered
<1> QED BY <1>3, <1>6, <1>7 DEF Resteer

(* A message is added to the keys of a thread and of the active map unless *)
(* the thread is finishing.                                                *)
LEMMA AddMessage_Effect ==
    ASSUME TInv, NEW m \in Msg, NEW k \in Key, AddMessage(m, k), Registered(m)
    PROVE  /\ thread' \in [Msg -> Thread] /\ active' \in [ActiveKey -> Msg \cup {None}]
           /\ \A u \in Msg : /\ thread'[u].phase = thread[u].phase /\ thread'[u].queue = thread[u].queue
                             /\ thread'[u].current = thread[u].current /\ thread'[u].done = thread[u].done
           /\ \A u \in Msg : u # m => thread'[u] = thread[u]
           /\ thread[m].phase = "finishing" => thread' = thread /\ active' = active
           /\ thread[m].phase # "finishing" =>
                /\ thread'[m].keys = thread[m].keys \cup {k} /\ active'[k] = m
                /\ \A q \in ActiveKey : q # k => active'[q] = active[q]
           /\ \A q \in ActiveKey : active'[q] = active[q] \/ (q = k /\ active'[q] = m)
<1>0. thread \in [Msg -> Thread] /\ active \in [ActiveKey -> Msg \cup {None}] /\ k \in ActiveKey
  BY Keys_Facts DEF TInv, Typed
<1>1. CASE thread[m].phase = "finishing"
  BY <1>0, <1>1 DEF AddMessage
<1>2. CASE thread[m].phase # "finishing"
  <2> DEFINE new == [thread[m] EXCEPT !.keys = @ \cup {k}]
  <2>1. /\ new \in Thread /\ new.phase = thread[m].phase /\ new.queue = thread[m].queue
        /\ new.current = thread[m].current /\ new.done = thread[m].done
        /\ new.keys = thread[m].keys \cup {k}
    BY Thread_Type DEF TInv, Thread
  <2>2. thread' = [thread EXCEPT ![m] = new] /\ active' = [active EXCEPT ![k] = m]
    BY <1>2 DEF AddMessage
  <2> HIDE DEF new
  <2>3. Alone(m) /\ thread'[m] = new /\ thread' \in [Msg -> Thread]
    BY <2>1, <2>2, Put_Thread DEF TInv
  <2>4. /\ active' \in [ActiveKey -> Msg \cup {None}] /\ active'[k] = m
        /\ \A q \in ActiveKey : q # k => active'[q] = active[q]
    BY <1>0, <2>2
  <2>5. \A u \in Msg : /\ thread'[u].phase = thread[u].phase /\ thread'[u].queue = thread[u].queue
                       /\ thread'[u].current = thread[u].current /\ thread'[u].done = thread[u].done
    BY <2>1, <2>3 DEF Alone
  <2> QED BY <1>2, <2>1, <2>3, <2>4, <2>5 DEF Alone
<1> QED BY <1>1, <1>2

(* A message becomes an alias of a run. *)
LEMMA Added_TInv ==
    ASSUME TInv, NEW m \in Msg, NEW k \in {<<"user", m>>, <<"bot", m>>}, AddMessage(m, k),
           act[m].at \in Running, Only(m), act' \in [Actor -> Activity],
           act'[m].at \in {"turn", "model", "mark"}, act'[m].at # "mark" => act[m].at \in Turning,
           act'[m].thread = act[m].thread, act'[m].base = act[m].base,
           act'[m].text = act[m].text, act'[m].how = act[m].how,
           UNCHANGED <<inbox, outbox, hand, marked, storage, history>>
    PROVE  TInv'
<1>1. UNCHANGED <<arrived, target, hand, sent, log, marked, rows, faults, taken, known, unsaved, torn>>
  BY DEF inbox, outbox, storage, history
<1>2. k \in Key /\ k \in ActiveKey /\ Registered(m) /\ act[m].thread = m /\ act[m].at \in Owning
  <2>1. act[m].at \in Owning
    BY DEF Owning
  <2> QED BY <2>1, Keys_Facts, Owner_Thread
<1>3. /\ thread' \in [Msg -> Thread] /\ active' \in [ActiveKey -> Msg \cup {None}]
      /\ \A u \in Msg : /\ thread'[u].phase = thread[u].phase /\ thread'[u].queue = thread[u].queue
                        /\ thread'[u].current = thread[u].current /\ thread'[u].done = thread[u].done
      /\ \A u \in Msg : u # m => thread'[u] = thread[u]
  BY <1>2, AddMessage_Effect
<1>4. /\ thread[m].phase = "finishing" => thread' = thread /\ active' = active
      /\ thread[m].phase # "finishing" => thread'[m].keys = thread[m].keys \cup {k} /\ active'[k] = m
      /\ \A q \in ActiveKey : active'[q] = active[q] \/ (q = k /\ active'[q] = m)
  BY <1>2, AddMessage_Effect
<1>5. /\ Only(m) /\ act' \in [Actor -> Activity] /\ act[m].at \in Running
      /\ act'[m].at \in {"turn", "model", "mark"} /\ (act'[m].at # "mark" => act[m].at \in Turning)
      /\ act'[m].thread = act[m].thread /\ act'[m].base = act[m].base
      /\ act'[m].text = act[m].text /\ act'[m].how = act[m].how
  OBVIOUS
<1>6. act[m].at # "idle" /\ act[m].at # "over" /\ act[m].at \notin Unregistered
  BY <1>5 DEF Running, Unregistered
<1>7. Typed'
  BY <1>1, <1>2, <1>3, <1>4, <1>5, <1>6, Keys_Facts DEF Typed, TInv
<1>8. Dispatched'
  <2>1. \A u \in Msg : Registered(u) => thread'[u].phase # "none"
    BY <1>1, <1>2, <1>3, <1>4, <1>5, <1>6 DEF Registered, Alone
  <2> QED BY <1>1, <1>2, <1>3, <1>4, <1>5, <1>6, <2>1, Keys_Facts, Dispatched_Frame
<1>9. RunsAreRegistered'
  <2>1. \A u \in Msg : Registered(u) <=> thread'[u].phase # "none"
    BY <1>1, <1>2, <1>3, <1>4, <1>5, <1>6 DEF Registered, Alone
  <2>2. \A u \in Msg : ~Registered(u) => thread'[u] = NoThread
    BY <1>1, <1>2, <1>3, <1>4, <1>5, <1>6 DEF TInv, RunsAreRegistered, Alone, Registered
  <2>3. \A q \in ActiveKey : active'[q] # None => active'[q] \in Msg /\ Registered(active'[q])
    BY <1>1, <1>2, <1>3, <1>4, <1>5, <1>6 DEF TInv, RunsAreRegistered, Typed
  <2>4. m \in Msg /\ m \notin Halter /\ m \in Actor
    BY Keys_Facts
  <2>5. act[m].at \in {"base", "register"} \cup Owning => act[m].thread = m
    BY <2>4 DEF TInv, RunsAreRegistered
  <2>6. /\ act[m].at # "idle" /\ act'[m].at \notin {"idle", "cancel", "join", "read"}
        /\ act'[m].at \in Unregistered => act[m].at \in Unregistered
        /\ act'[m].at \in {"base", "register"} \cup Owning => act'[m].thread = act[m].thread
        /\ act'[m].at \in {"base", "register"} \cup Owning => act[m].at \in {"base", "register"} \cup Owning
        /\ act'[m].at \in Owning => act[m].at \in Owning
        /\ act[m].at = "over" => act'[m].at = "over"
    BY <1>1, <1>2, <1>3, <1>4, <1>5, <1>6 DEF Owning, Running, Finishing, Unregistered
  <2>7. act'[m].at = "resteer" => act'[m].thread \in Msg /\ Registered(act'[m].thread)
    BY <1>1, <1>2, <1>3, <1>4, <1>5, <1>6
  <2>8. Only(m) /\ UNCHANGED taken
    BY <1>1, <1>2, <1>3, <1>4, <1>5, <1>6
  <2> QED BY <2>1, <2>2, <2>3, <2>4, <2>5, <2>6, <2>7, <2>8, Runs_Frame
<1>10. SessionIsHeld'
  BY <1>1, <1>2, <1>3, <1>4, <1>5, <1>6, Keys_Facts DEF TInv, SessionIsHeld, OfSession, Listed
<1>11. TextsAreSpent'
  <2>1. \A x \in Msg : Spent(x) => Spent(x)'
    BY <1>1, <1>2, <1>3, <1>4, <1>5, <1>6, Keys_Facts DEF Spent, Registered, Only, Alone
  <2> QED BY <2>1, <1>1, <1>2, <1>3, <1>4, <1>5, <1>6, Keys_Facts DEF TInv, TextsAreSpent, Only, Alone
<1>12. SteersAreKept'
  BY <1>1, <1>2, <1>3, <1>4, <1>5, <1>6, Keys_Facts DEF TInv, SteersAreKept, Kept, Open, Turning, Finishing, Only, Alone
<1>13. TextsAreOwn'
  BY <1>1, <1>2, <1>3, <1>4, <1>5, <1>6, Keys_Facts DEF TInv, TextsAreOwn, Registered, Stored, Owning, Running, Finishing, Only, Alone
<1>14. RepliesAreOwn'
  <2>1. \A j \in Msg : <<"bot", j>> = k => j = m
    BY <1>2
  <2>2. ASSUME NEW j \in Msg, active'[<<"bot", j>>] # None
        PROVE  active'[<<"bot", j>>] = j /\ <<"bot", j>> \in thread'[j].keys
    <3>1. CASE <<"bot", j>> = k /\ thread[m].phase # "finishing"
      BY <1>4, <2>1, <3>1
    <3>2. CASE active'[<<"bot", j>>] = active[<<"bot", j>>]
      <4>1. active[<<"bot", j>>] = j /\ <<"bot", j>> \in thread[j].keys
        BY <2>2, <3>2 DEF TInv, RepliesAreOwn
      <4>2. thread[j].keys \subseteq thread'[j].keys
        BY <1>3, <1>4
      <4> QED BY <3>2, <4>1, <4>2
    <3> QED BY <1>4, <3>1, <3>2, Keys_Facts
  <2>3. \A j, t \in Msg : <<"bot", j>> \in thread'[t].keys => j = t
    BY <1>3, <1>4, <2>1 DEF TInv, RepliesAreOwn
  <2>4. \A j \in Msg, a \in Actor : <<"bot", j>> \in act'[a].keys /\ act'[a].at = "persist" => j = act'[a].thread
    BY <1>5 DEF TInv, RepliesAreOwn, Only
  <2> QED BY <2>2, <2>3, <2>4 DEF RepliesAreOwn
<1>15. FinishersStore'
  <2>1. ASSUME NEW a \in Actor, act'[a].at \in Finishing
        PROVE  /\ a # m /\ act'[a] = act[a] /\ act[a].thread \in Msg
               /\ thread[act[a].thread].phase = "finishing" /\ thread'[act[a].thread] = thread[act[a].thread]
    <3>1. a # m /\ act'[a] = act[a]
      BY <1>5, <2>1 DEF Only, Finishing
    <3>2. act[a].thread \in Msg /\ thread[act[a].thread].phase = "finishing"
      BY <2>1, <3>1, Owner_Thread DEF Owning, TInv, FinishersStore
    <3> QED BY <1>3, <1>4, <3>1, <3>2
  <2> QED BY <1>1, <2>1 DEF TInv, FinishersStore, Finishing, Stored
<1>16. KnownIsReached'
  <2>1. \A n \in known : act'[n].at # "idle" => act[n].at # "idle" /\ act'[n].base = act[n].base
    BY <1>5, <1>6, Keys_Facts DEF TInv, Typed, Only
  <2>2. \A j \in Msg : active[<<"bot", j>>] # None => active'[<<"bot", j>>] # None
    BY <1>4, Keys_Facts
  <2>3. \A j \in Msg : Stored(<<"bot", j>>) => rows'[<<"bot", j>>] # <<>>
    BY <1>1 DEF Stored
  <2> QED BY <1>1, <2>1, <2>2, <2>3, Known_Frame
<1> QED BY <1>7, <1>8, <1>9, <1>10, <1>11, <1>12, <1>13, <1>14, <1>15, <1>16 DEF TInv

(* The message a run answers becomes an alias of it. *)
LEMMA AddOwn_TInv ==
    ASSUME TInv, NEW m \in Msg, AddOwn(m)
    PROVE  TInv'
<1>1. act[m].at = "adding" /\ AddMessage(m, <<"user", m>>)
      /\ UNCHANGED <<inbox, outbox, hand, marked, storage, history>>
  BY DEF AddOwn
<1>2. /\ Only(m) /\ act' \in [Actor -> Activity]
      /\ act'[m].at = "turn"
      /\ act'[m].thread = act[m].thread
      /\ act'[m].base = act[m].base
      /\ act'[m].text = act[m].text
      /\ act'[m].keys = act[m].keys
      /\ act'[m].turns = act[m].turns
      /\ act'[m].how = act[m].how
      /\ act'[m].unwinding = act[m].unwinding
  <2> DEFINE new == [act[m] EXCEPT !.at = "turn"]
  <2>1. act[m] \in Activity
    BY Act_Type, Keys_Facts DEF TInv
  <2>2. /\ new \in Activity
        /\ new.at = "turn"
        /\ new.thread = act[m].thread
        /\ new.base = act[m].base
        /\ new.text = act[m].text
        /\ new.keys = act[m].keys
        /\ new.turns = act[m].turns
        /\ new.how = act[m].how
        /\ new.unwinding = act[m].unwinding
    BY <2>1 DEF Activity, Stages, Unregistered, Running, Finishing
  <2>3. act' = [act EXCEPT ![m] = new]
    BY DEF AddOwn, Go
  <2> HIDE DEF new
  <2> QED BY <2>2, <2>3, Put_Act, Keys_Facts DEF TInv

<1> QED BY <1>1, <1>2, Added_TInv DEF Running, Turning

(* So does a message the run has sent. *)
LEMMA RecordUpdate_TInv ==
    ASSUME TInv, NEW m \in Msg, RecordUpdate(m)
    PROVE  TInv'
<1>1. act[m].at = "update" /\ AddMessage(m, <<"bot", m>>)
      /\ UNCHANGED <<inbox, outbox, hand, marked, storage, history>>
  BY DEF RecordUpdate
<1>2. /\ Only(m) /\ act' \in [Actor -> Activity]
      /\ act'[m].at = "model"
      /\ act'[m].thread = act[m].thread
      /\ act'[m].base = act[m].base
      /\ act'[m].text = act[m].text
      /\ act'[m].keys = act[m].keys
      /\ act'[m].turns = act[m].turns
      /\ act'[m].how = act[m].how
      /\ act'[m].unwinding = act[m].unwinding
  <2> DEFINE new == [act[m] EXCEPT !.at = "model"]
  <2>1. act[m] \in Activity
    BY Act_Type, Keys_Facts DEF TInv
  <2>2. /\ new \in Activity
        /\ new.at = "model"
        /\ new.thread = act[m].thread
        /\ new.base = act[m].base
        /\ new.text = act[m].text
        /\ new.keys = act[m].keys
        /\ new.turns = act[m].turns
        /\ new.how = act[m].how
        /\ new.unwinding = act[m].unwinding
    BY <2>1 DEF Activity, Stages, Unregistered, Running, Finishing
  <2>3. act' = [act EXCEPT ![m] = new]
    BY DEF RecordUpdate, Go
  <2> HIDE DEF new
  <2> QED BY <2>2, <2>3, Put_Act, Keys_Facts DEF TInv

<1> QED BY <1>1, <1>2, Added_TInv DEF Running, Turning

(* A worker goes to finish its thread with what it shows so far. *)
LEMMA Unwound_TInv ==
    ASSUME TInv, NEW m \in Msg, act[m].at \in Owning, Unwind(m), faults' \in 0 .. MaxFault, torn' \subseteq Msg,
           UNCHANGED <<inbox, outbox, hand, marked, thread, active, rows, taken, known, unsaved>>
    PROVE  TInv'
<1>1. UNCHANGED <<arrived, target, hand, sent, log, marked, thread, active, rows, taken, known, unsaved>>
  BY DEF inbox, outbox
<1>2. Registered(m) /\ act[m].thread = m /\ act[m].at \in Owning
  BY Owner_Thread, Keys_Facts
<1>3. faults' \in 0 .. MaxFault /\ torn' \subseteq Msg
  OBVIOUS
<1>4. PICK text \in Seq(Msg) : text = thread[m].current
  BY Thread_Type DEF TInv
<1>5. /\ Only(m) /\ act' \in [Actor -> Activity]
      /\ act'[m].at = "mark"
      /\ act'[m].thread = act[m].thread
      /\ act'[m].base = act[m].base
      /\ act'[m].text = text
      /\ act'[m].keys = act[m].keys
      /\ act'[m].turns = act[m].turns
      /\ act'[m].how = "cut"
      /\ act'[m].unwinding = TRUE
  <2> DEFINE new == [act[m] EXCEPT !.at = "mark", !.text = text, !.how = "cut", !.unwinding = TRUE]
  <2>1. act[m] \in Activity
    BY Act_Type, Keys_Facts DEF TInv
  <2>2. /\ new \in Activity
        /\ new.at = "mark"
        /\ new.thread = act[m].thread
        /\ new.base = act[m].base
        /\ new.text = text
        /\ new.keys = act[m].keys
        /\ new.turns = act[m].turns
        /\ new.how = "cut"
        /\ new.unwinding = TRUE
    BY <2>1 DEF Activity, Stages, Unregistered, Running, Finishing
  <2>3. act' = [act EXCEPT ![m] = new]
    BY <1>4 DEF Unwind
  <2> HIDE DEF new
  <2> QED BY <2>2, <2>3, Put_Act, Keys_Facts DEF TInv

<1>6. act[m].at # "idle" /\ act[m].at # "over" /\ act[m].at \notin Unregistered
  BY <1>2 DEF Owning, Running, Finishing, Unregistered
<1>7. Typed'
  BY <1>1, <1>2, <1>3, <1>4, <1>5, <1>6, Keys_Facts DEF Typed, TInv
<1>8. Dispatched'
  <2>1. \A u \in Msg : Registered(u) => thread'[u].phase # "none"
    BY <1>1, <1>2, <1>3, <1>4, <1>5, <1>6 DEF Registered, Alone
  <2> QED BY <1>1, <1>2, <1>3, <1>4, <1>5, <1>6, <2>1, Keys_Facts, Dispatched_Frame
<1>9. RunsAreRegistered'
  <2>1. \A u \in Msg : Registered(u) <=> thread'[u].phase # "none"
    BY <1>1, <1>2, <1>3, <1>4, <1>5, <1>6 DEF Registered, Alone
  <2>2. \A u \in Msg : ~Registered(u) => thread'[u] = NoThread
    BY <1>1, <1>2, <1>3, <1>4, <1>5, <1>6 DEF TInv, RunsAreRegistered, Alone, Registered
  <2>3. \A q \in ActiveKey : active'[q] # None => active'[q] \in Msg /\ Registered(active'[q])
    BY <1>1, <1>2, <1>3, <1>4, <1>5, <1>6 DEF TInv, RunsAreRegistered, Typed
  <2>4. m \in Msg /\ m \notin Halter /\ m \in Actor
    BY Keys_Facts
  <2>5. act[m].at \in {"base", "register"} \cup Owning => act[m].thread = m
    BY <2>4 DEF TInv, RunsAreRegistered
  <2>6. /\ act[m].at # "idle" /\ act'[m].at \notin {"idle", "cancel", "join", "read"}
        /\ act'[m].at \in Unregistered => act[m].at \in Unregistered
        /\ act'[m].at \in {"base", "register"} \cup Owning => act'[m].thread = act[m].thread
        /\ act'[m].at \in {"base", "register"} \cup Owning => act[m].at \in {"base", "register"} \cup Owning
        /\ act'[m].at \in Owning => act[m].at \in Owning
        /\ act[m].at = "over" => act'[m].at = "over"
    BY <1>1, <1>2, <1>3, <1>4, <1>5, <1>6 DEF Owning, Running, Finishing, Unregistered
  <2>7. act'[m].at = "resteer" => act'[m].thread \in Msg /\ Registered(act'[m].thread)
    BY <1>1, <1>2, <1>3, <1>4, <1>5, <1>6
  <2>8. Only(m) /\ UNCHANGED taken
    BY <1>1, <1>2, <1>3, <1>4, <1>5, <1>6
  <2> QED BY <2>1, <2>2, <2>3, <2>4, <2>5, <2>6, <2>7, <2>8, Runs_Frame
<1>10. SessionIsHeld'
  BY <1>1, <1>2, <1>3, <1>4, <1>5, <1>6, Keys_Facts DEF TInv, SessionIsHeld, OfSession, Listed
<1>11. TextsAreSpent'
  <2>1. \A x \in Msg : Spent(x) => Spent(x)'
    BY <1>1, <1>2, <1>3, <1>4, <1>5, <1>6, Keys_Facts DEF Spent, Registered, Only, Alone
  <2> QED BY <2>1, <1>1, <1>2, <1>3, <1>4, <1>5, <1>6, Keys_Facts DEF TInv, TextsAreSpent, Only, Alone
<1>12. SteersAreKept'
  BY <1>1, <1>2, <1>3, <1>4, <1>5, <1>6, Keys_Facts DEF TInv, SteersAreKept, Kept, Open, Turning, Finishing, Only, Alone
<1>13. TextsAreOwn'
  BY <1>1, <1>2, <1>3, <1>4, <1>5, <1>6, Keys_Facts DEF TInv, TextsAreOwn, Registered, Stored, Owning, Running, Finishing, Only, Alone
<1>14. RepliesAreOwn'
  BY <1>1, <1>2, <1>3, <1>4, <1>5, <1>6, Keys_Facts DEF TInv, RepliesAreOwn, Only, Alone
<1>15. FinishersStore'
  BY <1>1, <1>2, <1>3, <1>4, <1>5, <1>6, Keys_Facts DEF TInv, FinishersStore, Stored, Finishing, Only, Alone
<1>16. KnownIsReached'
  <2>1. \A n \in known : act'[n].at # "idle" => act[n].at # "idle" /\ act'[n].base = act[n].base
    BY <1>1, <1>2, <1>3, <1>4, <1>5, <1>6, Keys_Facts DEF TInv, Typed, Only
  <2> QED BY <1>1, <1>2, <1>3, <1>4, <1>5, <1>6, <2>1, Keys_Facts, Known_Frame DEF Stored
<1> QED BY <1>7, <1>8, <1>9, <1>10, <1>11, <1>12, <1>13, <1>14, <1>15, <1>16 DEF TInv

(* A worker goes to finish its thread. *)
LEMMA Marks_TInv ==
    ASSUME TInv, NEW m \in Msg, act[m].at \in Running, Only(m), act' \in [Actor -> Activity], act'[m].at = "mark",
           act'[m].thread = act[m].thread, act'[m].base = act[m].base,
           act'[m].text = act[m].text, act'[m].how = act[m].how,
           UNCHANGED <<inbox, outbox, hand, marked, thread, active, storage, history>>
    PROVE  TInv'
<1>1. UNCHANGED <<arrived, target, hand, sent, log, marked, thread, active, rows, faults, taken, known, unsaved, torn>>
  BY DEF inbox, outbox, storage, history
<1>2. /\ Only(m) /\ act' \in [Actor -> Activity] /\ act[m].at \in Running /\ act'[m].at = "mark"
      /\ act'[m].thread = act[m].thread /\ act'[m].base = act[m].base
      /\ act'[m].text = act[m].text /\ act'[m].how = act[m].how
  OBVIOUS
<1>3. act[m].at # "idle" /\ act[m].at # "over" /\ act[m].at \notin Unregistered
  BY <1>2 DEF Running, Unregistered
<1>4. Typed'
  BY <1>1, <1>2, <1>3, Keys_Facts DEF Typed, TInv
<1>5. Dispatched'
  <2>1. \A u \in Msg : Registered(u) => thread'[u].phase # "none"
    BY <1>1, <1>2, <1>3 DEF Registered, Alone
  <2> QED BY <1>1, <1>2, <1>3, <2>1, Keys_Facts, Dispatched_Frame
<1>6. RunsAreRegistered'
  <2>1. \A u \in Msg : Registered(u) <=> thread'[u].phase # "none"
    BY <1>1, <1>2, <1>3 DEF Registered, Alone
  <2>2. \A u \in Msg : ~Registered(u) => thread'[u] = NoThread
    BY <1>1, <1>2, <1>3 DEF TInv, RunsAreRegistered, Alone, Registered
  <2>3. \A q \in ActiveKey : active'[q] # None => active'[q] \in Msg /\ Registered(active'[q])
    BY <1>1, <1>2, <1>3 DEF TInv, RunsAreRegistered, Typed
  <2>4. m \in Msg /\ m \notin Halter /\ m \in Actor
    BY Keys_Facts
  <2>5. act[m].at \in {"base", "register"} \cup Owning => act[m].thread = m
    BY <2>4 DEF TInv, RunsAreRegistered
  <2>6. /\ act[m].at # "idle" /\ act'[m].at \notin {"idle", "cancel", "join", "read"}
        /\ act'[m].at \in Unregistered => act[m].at \in Unregistered
        /\ act'[m].at \in {"base", "register"} \cup Owning => act'[m].thread = act[m].thread
        /\ act'[m].at \in {"base", "register"} \cup Owning => act[m].at \in {"base", "register"} \cup Owning
        /\ act'[m].at \in Owning => act[m].at \in Owning
        /\ act[m].at = "over" => act'[m].at = "over"
    BY <1>1, <1>2, <1>3 DEF Owning, Running, Finishing, Unregistered
  <2>7. act'[m].at = "resteer" => act'[m].thread \in Msg /\ Registered(act'[m].thread)
    BY <1>1, <1>2, <1>3
  <2>8. Only(m) /\ UNCHANGED taken
    BY <1>1, <1>2, <1>3
  <2> QED BY <2>1, <2>2, <2>3, <2>4, <2>5, <2>6, <2>7, <2>8, Runs_Frame
<1>7. SessionIsHeld'
  BY <1>1, <1>2, <1>3, Keys_Facts DEF TInv, SessionIsHeld, OfSession, Listed
<1>8. TextsAreSpent'
  <2>1. \A x \in Msg : Spent(x) => Spent(x)'
    BY <1>1, <1>2, <1>3, Keys_Facts DEF Spent, Registered, Only, Alone
  <2> QED BY <2>1, <1>1, <1>2, <1>3, Keys_Facts DEF TInv, TextsAreSpent, Only, Alone
<1>9. SteersAreKept'
  BY <1>1, <1>2, <1>3, Keys_Facts DEF TInv, SteersAreKept, Kept, Open, Turning, Finishing, Only, Alone
<1>10. TextsAreOwn'
  BY <1>1, <1>2, <1>3, Keys_Facts DEF TInv, TextsAreOwn, Registered, Stored, Owning, Running, Finishing, Only, Alone
<1>11. RepliesAreOwn'
  BY <1>1, <1>2, <1>3, Keys_Facts DEF TInv, RepliesAreOwn, Only, Alone
<1>12. FinishersStore'
  BY <1>1, <1>2, <1>3, Keys_Facts DEF TInv, FinishersStore, Stored, Finishing, Only, Alone
<1>13. KnownIsReached'
  <2>1. \A n \in known : act'[n].at # "idle" => act[n].at # "idle" /\ act'[n].base = act[n].base
    BY <1>1, <1>2, <1>3, Keys_Facts DEF TInv, Typed, Only
  <2> QED BY <1>1, <1>2, <1>3, <2>1, Keys_Facts, Known_Frame DEF Stored
<1> QED BY <1>4, <1>5, <1>6, <1>7, <1>8, <1>9, <1>10, <1>11, <1>12, <1>13 DEF TInv

(* The answer is committed. *)
LEMMA Commit_TInv ==
    ASSUME TInv, NEW m \in Msg, Commit(m)
    PROVE  TInv'
<1>1. act[m].at = "commit" /\ UNCHANGED <<inbox, outbox, hand, marked, rows, history>>
  BY DEF Commit
<1>2. act[m].at \in Running /\ act[m].at \in Owning
  BY <1>1 DEF Owning, Running
<1>3. CASE Go(m, "mark") /\ UNCHANGED faults
           /\ IF <<"bot", m>> \in sent THEN AddMessage(m, <<"bot", m>>) ELSE UNCHANGED <<thread, active>>
  <2>1. /\ Only(m) /\ act' \in [Actor -> Activity]
        /\ act'[m].at = "mark"
        /\ act'[m].thread = act[m].thread
        /\ act'[m].base = act[m].base
        /\ act'[m].text = act[m].text
        /\ act'[m].keys = act[m].keys
        /\ act'[m].turns = act[m].turns
        /\ act'[m].how = act[m].how
        /\ act'[m].unwinding = act[m].unwinding
    <3> DEFINE new == [act[m] EXCEPT !.at = "mark"]
    <3>1. act[m] \in Activity
      BY Act_Type, Keys_Facts DEF TInv
    <3>2. /\ new \in Activity
          /\ new.at = "mark"
          /\ new.thread = act[m].thread
          /\ new.base = act[m].base
          /\ new.text = act[m].text
          /\ new.keys = act[m].keys
          /\ new.turns = act[m].turns
          /\ new.how = act[m].how
          /\ new.unwinding = act[m].unwinding
      BY <3>1 DEF Activity, Stages, Unregistered, Running, Finishing
    <3>3. act' = [act EXCEPT ![m] = new]
      BY <1>3 DEF Go
    <3> HIDE DEF new
    <3> QED BY <3>2, <3>3, Put_Act, Keys_Facts DEF TInv
  <2>2. CASE AddMessage(m, <<"bot", m>>)
    BY <1>1, <1>2, <1>3, <2>1, <2>2, Added_TInv DEF storage
  <2>3. CASE UNCHANGED <<thread, active>>
    BY <1>1, <1>2, <1>3, <2>1, <2>3, Marks_TInv DEF storage
  <2> QED BY <1>3, <2>2, <2>3
<1>4. CASE Fault /\ Unwind(m) /\ UNCHANGED <<thread, active>>
  <2>1. faults' \in 0 .. MaxFault /\ torn' \subseteq Msg
    BY <1>1, <1>4, ConstantsAssumption DEF Fault, TInv, Typed, history
  <2> QED BY <1>1, <1>2, <1>4, <2>1, Unwound_TInv DEF history
<1> QED BY <1>3, <1>4 DEF Commit

(* A worker is interrupted. *)
LEMMA Interrupt_TInv ==
    ASSUME TInv, NEW m \in Msg, Interrupt(m)
    PROVE  TInv'
<1>1. UNCHANGED <<inbox, outbox, hand, marked, thread, active, storage, taken, known, unsaved>>
  BY DEF Interrupt
<1>2. CASE act[m].at \in Unregistered /\ Go(m, "over") /\ UNCHANGED torn
  <2>1. /\ Only(m) /\ act' \in [Actor -> Activity]
        /\ act'[m].at = "over"
        /\ act'[m].thread = act[m].thread
        /\ act'[m].base = act[m].base
        /\ act'[m].text = act[m].text
        /\ act'[m].keys = act[m].keys
        /\ act'[m].turns = act[m].turns
        /\ act'[m].how = act[m].how
        /\ act'[m].unwinding = act[m].unwinding
    <3> DEFINE new == [act[m] EXCEPT !.at = "over"]
    <3>1. act[m] \in Activity
      BY Act_Type, Keys_Facts DEF TInv
    <3>2. /\ new \in Activity
          /\ new.at = "over"
          /\ new.thread = act[m].thread
          /\ new.base = act[m].base
          /\ new.text = act[m].text
          /\ new.keys = act[m].keys
          /\ new.turns = act[m].turns
          /\ new.how = act[m].how
          /\ new.unwinding = act[m].unwinding
      BY <3>1 DEF Activity, Stages, Unregistered, Running, Finishing
    <3>3. act' = [act EXCEPT ![m] = new]
      BY <1>2 DEF Go
    <3> HIDE DEF new
    <3> QED BY <3>2, <3>3, Put_Act, Keys_Facts DEF TInv
  <2> QED BY <1>1, <1>2, <2>1, Over_TInv DEF history
<1>3. CASE act[m].at \in Running \cup {"mark"} \cup Finishing /\ Unwind(m) /\ torn' \in {torn, torn \cup {m}}
  <2>1. act[m].at \in Owning
    BY <1>3 DEF Owning
  <2>2. faults' \in 0 .. MaxFault /\ torn' \subseteq Msg /\ UNCHANGED rows
    BY <1>1, <1>3 DEF TInv, Typed, storage
  <2> QED BY <1>1, <1>3, <2>1, <2>2, Unwound_TInv
<1> QED BY <1>2, <1>3 DEF Interrupt

(* A worker in its agent run owns a registered thread of its own.          *)
LEMMA Ready ==
    ASSUME TInv, NEW m \in Msg, act[m].at \in {"register", "turn", "model"}
    PROVE  /\ act[m].thread = m /\ act[m].how # "answered" /\ act[m].at \in Running \cup Unregistered
           /\ act[m].at # "register" => Registered(m) /\ act[m].at \in Owning
           /\ act[m].at = "register" => ~Registered(m) /\ thread[m] = NoThread
           /\ act[m].base \in Seq(Msg) /\ act[m].text \in Seq(Msg)
           /\ thread[m].queue \in Seq(Msg) /\ thread[m].current \in Seq(Msg)
<1>1. act[m].at \in {"base", "register"} \cup Owning /\ act[m].at \in Running \cup Unregistered
  BY DEF Owning, Running, Unregistered
<1>2. act[m].how # "answered"
  BY DEF TInv, SteersAreKept, Finishing
<1>3. act[m].at # "register" => act[m].at \in Owning
  BY DEF Owning, Running
<1>4. act[m].at = "register" => ~Registered(m)
  BY DEF TInv, RunsAreRegistered, Unregistered
<1>5. act[m].thread = m /\ (act[m].at \in Owning => Registered(m)) /\ (~Registered(m) => thread[m] = NoThread)
  BY <1>1 DEF TInv, RunsAreRegistered
<1>6. /\ act[m].base \in Seq(Msg) /\ act[m].text \in Seq(Msg)
      /\ thread[m].queue \in Seq(Msg) /\ thread[m].current \in Seq(Msg)
  BY Act_Type, Thread_Type, Keys_Facts DEF TInv
<1> QED BY <1>1, <1>2, <1>3, <1>4, <1>5, <1>6

(* The queue of a thread is emptied, and nothing else of it. *)
LEMMA Drained_Effect ==
    ASSUME TInv, NEW m \in Msg, thread' = Drained(m)
    PROVE  /\ thread' \in [Msg -> Thread] /\ Alone(m)
           /\ thread'[m].phase = thread[m].phase /\ thread'[m].queue = <<>>
           /\ thread'[m].current = thread[m].current /\ thread'[m].done = thread[m].done
           /\ thread'[m].keys = thread[m].keys
<1> DEFINE new == [thread[m] EXCEPT !.queue = <<>>, !.wake = FALSE]
<1>1. /\ new \in Thread /\ new.phase = thread[m].phase /\ new.queue = <<>>
      /\ new.current = thread[m].current /\ new.done = thread[m].done /\ new.keys = thread[m].keys
  <2>1. thread[m] \in Thread /\ <<>> \in Seq(Msg)
    BY Thread_Type DEF TInv
  <2> QED BY <2>1 DEF Thread
<1>2. thread' = [thread EXCEPT ![m] = new]
  BY DEF Drained
<1> HIDE DEF new
<1> QED BY <1>1, <1>2, Put_Thread DEF TInv

(* What was in the queue is in the text: no steer is lost, none is there twice. *)
LEMMA Pours_TInv ==
    ASSUME TInv, NEW m \in Msg, act[m].at \in {"turn", "model"}, Open(m), thread' = Drained(m),
           Only(m), act' \in [Actor -> Activity],
           act'[m].at \in {"turn", "model"}, act'[m].text = act[m].text \o thread[m].queue,
           act'[m].thread = act[m].thread, act'[m].base = act[m].base, act'[m].how = act[m].how,
           UNCHANGED <<inbox, outbox, hand, marked, active, storage, history>>
    PROVE  TInv'
<1>1. UNCHANGED <<arrived, target, hand, sent, log, marked, active, rows, faults, taken, known, unsaved, torn>>
  BY DEF inbox, outbox, storage, history
<1>2. /\ act[m].thread = m /\ act[m].how # "answered" /\ Registered(m) /\ act[m].at \in Owning
      /\ act[m].text \in Seq(Msg) /\ thread[m].queue \in Seq(Msg) /\ act[m].at \in {"turn", "model"}
  BY Ready
<1>3. /\ thread' \in [Msg -> Thread] /\ Alone(m)
      /\ thread'[m].phase = thread[m].phase /\ thread'[m].queue = <<>>
      /\ thread'[m].current = thread[m].current /\ thread'[m].done = thread[m].done
      /\ thread'[m].keys = thread[m].keys
  BY Drained_Effect
<1>4. /\ Only(m) /\ act' \in [Actor -> Activity]
      /\ act'[m].at \in {"turn", "model"} /\ act'[m].text = act[m].text \o thread[m].queue
      /\ act'[m].thread = act[m].thread /\ act'[m].base = act[m].base /\ act'[m].how = act[m].how
  OBVIOUS
<1>5. \A x : Has(act'[m].text, x) <=> Has(act[m].text, x) \/ Has(thread[m].queue, x)
  BY <1>2, <1>4, Has_Concat
<1>6. \A x : ~Has(<<>>, x)
  BY Has_Empty
<1>7. Typed'
  BY <1>1, <1>2, <1>3, <1>4, <1>5, <1>6, Keys_Facts DEF Typed, TInv
<1>8. Dispatched'
  <2>1. \A u \in Msg : Registered(u) => thread'[u].phase # "none"
    BY <1>1, <1>2, <1>3, <1>4, <1>5, <1>6 DEF Registered, Alone
  <2> QED BY <1>1, <1>2, <1>3, <1>4, <1>5, <1>6, <2>1, Keys_Facts, Dispatched_Frame
<1>9. RunsAreRegistered'
  <2>1. \A u \in Msg : Registered(u) <=> thread'[u].phase # "none"
    BY <1>1, <1>2, <1>3, <1>4, <1>5, <1>6 DEF Registered, Alone
  <2>2. \A u \in Msg : ~Registered(u) => thread'[u] = NoThread
    BY <1>1, <1>2, <1>3, <1>4, <1>5, <1>6 DEF TInv, RunsAreRegistered, Alone, Registered
  <2>3. \A q \in ActiveKey : active'[q] # None => active'[q] \in Msg /\ Registered(active'[q])
    BY <1>1, <1>2, <1>3, <1>4, <1>5, <1>6 DEF TInv, RunsAreRegistered, Typed
  <2>4. m \in Msg /\ m \notin Halter /\ m \in Actor
    BY Keys_Facts
  <2>5. act[m].at \in {"base", "register"} \cup Owning => act[m].thread = m
    BY <2>4 DEF TInv, RunsAreRegistered
  <2>6. /\ act[m].at # "idle" /\ act'[m].at \notin {"idle", "cancel", "join", "read"}
        /\ act'[m].at \in Unregistered => act[m].at \in Unregistered
        /\ act'[m].at \in {"base", "register"} \cup Owning => act'[m].thread = act[m].thread
        /\ act'[m].at \in {"base", "register"} \cup Owning => act[m].at \in {"base", "register"} \cup Owning
        /\ act'[m].at \in Owning => act[m].at \in Owning
        /\ act[m].at = "over" => act'[m].at = "over"
    BY <1>1, <1>2, <1>3, <1>4, <1>5, <1>6 DEF Owning, Running, Finishing, Unregistered
  <2>7. act'[m].at = "resteer" => act'[m].thread \in Msg /\ Registered(act'[m].thread)
    BY <1>1, <1>2, <1>3, <1>4, <1>5, <1>6
  <2>8. Only(m) /\ UNCHANGED taken
    BY <1>1, <1>2, <1>3, <1>4, <1>5, <1>6
  <2> QED BY <2>1, <2>2, <2>3, <2>4, <2>5, <2>6, <2>7, <2>8, Runs_Frame
<1>10. SessionIsHeld'
  BY <1>1, <1>2, <1>3, <1>4, <1>5, <1>6, Keys_Facts DEF TInv, SessionIsHeld, OfSession, Listed
<1>11. TextsAreSpent'
  <2>1. \A x \in Msg : Spent(x) => Spent(x)'
    BY <1>1, <1>2, <1>3, <1>4, <1>5, <1>6 DEF Spent, Registered, Alone
  <2>2. Spent(m)'
    BY <1>1, <1>2, <1>3, <1>4, <1>5, <1>6, <2>1 DEF Spent
  <2>3. \A x \in Msg : Has(act'[m].text, x) \/ Has(act'[m].base, x) => Spent(x)'
    <3>1. \A x \in Msg : Has(act[m].text, x) \/ Has(act[m].base, x) \/ Has(thread[m].queue, x) => Spent(x)
      BY Keys_Facts DEF TInv, TextsAreSpent
    <3> QED BY <1>1, <1>2, <1>3, <1>4, <1>5, <1>6, <2>1, <2>2, <3>1
  <2>4. \A a \in Actor, x \in Msg : Has(act'[a].text, x) \/ Has(act'[a].base, x) => Spent(x)'
    <3>1. \A a \in Actor, x \in Msg : a # m /\ (Has(act'[a].text, x) \/ Has(act'[a].base, x)) => Spent(x)
      BY <1>1, <1>2, <1>3, <1>4, <1>5, <1>6 DEF TInv, TextsAreSpent, Only
    <3> QED BY <2>1, <2>3, <3>1
  <2>5. \A u \in Msg, x \in Msg :
          Has(thread'[u].queue, x) \/ Has(thread'[u].current, x) \/ Has(thread'[u].done, x) => Spent(x)'
    <3>1. \A u \in Msg, x \in Msg :
            Has(thread'[u].queue, x) \/ Has(thread'[u].current, x) \/ Has(thread'[u].done, x) => Spent(x)
      BY <1>1, <1>2, <1>3, <1>4, <1>5, <1>6 DEF TInv, TextsAreSpent, Alone
    <3> QED BY <2>1, <3>1
  <2>6. \A k \in Key, x \in Msg : Has(rows[k], x) => Spent(x)'
    BY <2>1 DEF TInv, TextsAreSpent
  <2> QED BY <1>1, <2>4, <2>5, <2>6 DEF TextsAreSpent
<1>12. SteersAreKept'
  <2>1. ASSUME NEW t \in Msg, act'[t].how = "answered"
        PROVE  /\ act'[t].at \in Finishing \cup {"commit", "mark", "over"}
               /\ thread'[t].phase \in {"completed", "finishing"}
    <3>1. t # m
      BY <1>1, <1>2, <1>3, <1>4, <1>5, <1>6, <2>1
    <3>2. act'[t] = act[t] /\ thread'[t].phase = thread[t].phase
      BY <1>1, <1>2, <1>3, <1>4, <1>5, <1>6, <3>1, Keys_Facts DEF Only, Alone
    <3> QED BY <2>1, <3>2 DEF TInv, SteersAreKept
  <2>2. ASSUME NEW t \in Msg, NEW x \in Msg, taken[x] = t
        PROVE  /\ act'[t].at \in Turning /\ Open(t)' => Kept(t, x)'
               /\ act'[t].how = "answered" => Once(act'[t].text, x)
    <3>1. CASE t # m
      <4>1. act'[t] = act[t] /\ thread'[t] = thread[t]
        BY <1>1, <1>2, <1>3, <1>4, <1>5, <1>6, <3>1, Keys_Facts DEF Only, Alone
      <4> QED BY <2>2, <4>1 DEF TInv, SteersAreKept, Kept, Open
    <3>2. CASE t = m
      <4>1. act'[t].how # "answered"
        BY <1>1, <1>2, <1>3, <1>4, <1>5, <1>6, <3>2
      <4>2. ASSUME Open(t)' PROVE Kept(t, x)'
        <5>1. Open(m)
          BY <1>1, <1>2, <1>3, <1>4, <1>5, <1>6, <3>2, <4>2 DEF Open, Alone
        <5>2. Kept(m, x)
          BY <2>2, <3>2, <5>1, <1>1, <1>2, <1>3, <1>4, <1>5, <1>6 DEF TInv, SteersAreKept, Turning
        <5>3. Once(act[m].text \o thread[m].queue, x)
          BY <5>2, <1>1, <1>2, <1>3, <1>4, <1>5, <1>6, Once_Concat DEF Kept
        <5> QED BY <3>2, <5>1, <5>3, <1>1, <1>2, <1>3, <1>4, <1>5, <1>6, Has_Empty DEF Kept
      <4> QED BY <4>1, <4>2
    <3> QED BY <3>1, <3>2
  <2> QED BY <1>1, <1>2, <1>3, <1>4, <1>5, <1>6, <2>1, <2>2 DEF SteersAreKept
<1>13. TextsAreOwn'
  BY <1>1, <1>2, <1>3, <1>4, <1>5, <1>6, Keys_Facts DEF TInv, TextsAreOwn, Registered, Stored, Owning, Running, Finishing, Only, Alone
<1>14. RepliesAreOwn'
  <2>1. \A t \in Msg : thread'[t].keys = thread[t].keys
    BY <1>1, <1>2, <1>3, <1>4, <1>5, <1>6 DEF Alone
  <2>2. \A j \in Msg, a \in Actor : <<"bot", j>> \in act'[a].keys /\ act'[a].at = "persist" => j = act'[a].thread
    BY <1>1, <1>2, <1>3, <1>4, <1>5, <1>6 DEF TInv, RepliesAreOwn, Only
  <2> QED BY <1>1, <2>1, <2>2 DEF TInv, RepliesAreOwn
<1>15. FinishersStore'
  <2>1. thread[m].phase # "finishing"
    BY <1>1, <1>2, <1>3, <1>4, <1>5, <1>6 DEF Open
  <2>2. ASSUME NEW a \in Actor, act'[a].at \in Finishing
        PROVE  /\ act'[a] = act[a] /\ act[a].thread \in Msg
               /\ thread[act[a].thread].phase = "finishing" /\ thread'[act[a].thread] = thread[act[a].thread]
    <3>1. a # m /\ act'[a] = act[a]
      BY <1>1, <1>2, <1>3, <1>4, <1>5, <1>6, <2>2 DEF Only, Finishing
    <3>2. act[a].thread \in Msg /\ thread[act[a].thread].phase = "finishing"
      BY <2>2, <3>1, Owner_Thread DEF Owning, TInv, FinishersStore
    <3>3. act[a].thread # m
      BY <2>1, <3>2
    <3> QED BY <1>1, <1>2, <1>3, <1>4, <1>5, <1>6, <3>1, <3>2, <3>3 DEF Alone
  <2>3. \A a \in Actor : act'[a].at \in Finishing => thread'[act'[a].thread].phase = "finishing"
    BY <2>2
  <2>4. ASSUME NEW a \in Actor, act'[a].at = "persist" PROVE act'[a].keys = thread'[act'[a].thread].keys
    <3>1. act'[a] = act[a] /\ thread'[act[a].thread] = thread[act[a].thread]
      BY <2>2, <2>4 DEF Finishing
    <3> QED BY <2>4, <3>1 DEF TInv, FinishersStore
  <2>5. ASSUME NEW a \in Actor, act'[a].at \in {"done", "remove"}
        PROVE  act'[a].thread \in unsaved \/ \A q \in thread'[act'[a].thread].keys : Stored(q)
    BY <2>2, <2>5 DEF Finishing, TInv, FinishersStore
  <2> QED BY <1>1, <2>3, <2>4, <2>5 DEF FinishersStore, Stored
<1>16. KnownIsReached'
  <2>1. \A n \in known : act'[n].at # "idle" => act[n].at # "idle" /\ act'[n].base = act[n].base
    BY <1>1, <1>2, <1>3, <1>4, <1>5, <1>6, Keys_Facts DEF TInv, Typed, Only
  <2> QED BY <1>1, <1>2, <1>3, <1>4, <1>5, <1>6, <2>1, Keys_Facts, Known_Frame DEF Stored
<1> QED BY <1>7, <1>8, <1>9, <1>10, <1>11, <1>12, <1>13, <1>14, <1>15, <1>16 DEF TInv

(* A worker moves on without a step on its thread. *)
LEMMA Idles_TInv ==
    ASSUME TInv, NEW m \in Msg, act[m].at \in {"turn", "model"}, Only(m), act' \in [Actor -> Activity],
           act'[m].at \in {"turn", "model", "commit"}, act'[m].at \in Turning => ~Open(m),
           act'[m].thread = act[m].thread, act'[m].base = act[m].base, act'[m].how # "answered",
           act'[m].text \in {act[m].text, Append(act[m].base, m)},
           sent' \subseteq {"bot"} \X Msg, log' \in Seq(Key), faults' \in 0 .. MaxFault,
           UNCHANGED <<inbox, hand, marked, thread, active, rows, history>>
    PROVE  TInv'
<1>1. UNCHANGED <<arrived, target, hand, marked, thread, active, rows, taken, known, unsaved, torn>>
  BY DEF inbox, history
<1>2. /\ act[m].thread = m /\ Registered(m) /\ act[m].at \in Owning /\ act[m].at \in {"turn", "model"}
      /\ act[m].base \in Seq(Msg)
  BY Ready
<1>3. /\ Only(m) /\ act' \in [Actor -> Activity]
      /\ act'[m].at \in {"turn", "model", "commit"} /\ (act'[m].at \in Turning => ~Open(m))
      /\ act'[m].thread = act[m].thread /\ act'[m].base = act[m].base /\ act'[m].how # "answered"
      /\ sent' \subseteq {"bot"} \X Msg /\ log' \in Seq(Key) /\ faults' \in 0 .. MaxFault
  OBVIOUS
<1>4. \/ act'[m].text = act[m].text
      \/ \A x : Has(act'[m].text, x) <=> Has(act[m].base, x) \/ x = m
  <2>1. \A x : Has(Append(act[m].base, m), x) <=> Has(act[m].base, x) \/ x = m
    BY <1>2, Has_Append
  <2> QED BY <2>1
<1>5. Typed'
  BY <1>1, <1>2, <1>3, <1>4, Keys_Facts DEF Typed, TInv
<1>6. Dispatched'
  <2>1. \A u \in Msg : Registered(u) => thread'[u].phase # "none"
    BY <1>1, <1>2, <1>3, <1>4 DEF Registered, Alone
  <2> QED BY <1>1, <1>2, <1>3, <1>4, <2>1, Keys_Facts, Dispatched_Frame
<1>7. RunsAreRegistered'
  <2>1. \A u \in Msg : Registered(u) <=> thread'[u].phase # "none"
    BY <1>1, <1>2, <1>3, <1>4 DEF Registered, Alone
  <2>2. \A u \in Msg : ~Registered(u) => thread'[u] = NoThread
    BY <1>1, <1>2, <1>3, <1>4 DEF TInv, RunsAreRegistered, Alone, Registered
  <2>3. \A q \in ActiveKey : active'[q] # None => active'[q] \in Msg /\ Registered(active'[q])
    BY <1>1, <1>2, <1>3, <1>4 DEF TInv, RunsAreRegistered, Typed
  <2>4. m \in Msg /\ m \notin Halter /\ m \in Actor
    BY Keys_Facts
  <2>5. act[m].at \in {"base", "register"} \cup Owning => act[m].thread = m
    BY <2>4 DEF TInv, RunsAreRegistered
  <2>6. /\ act[m].at # "idle" /\ act'[m].at \notin {"idle", "cancel", "join", "read"}
        /\ act'[m].at \in Unregistered => act[m].at \in Unregistered
        /\ act'[m].at \in {"base", "register"} \cup Owning => act'[m].thread = act[m].thread
        /\ act'[m].at \in {"base", "register"} \cup Owning => act[m].at \in {"base", "register"} \cup Owning
        /\ act'[m].at \in Owning => act[m].at \in Owning
        /\ act[m].at = "over" => act'[m].at = "over"
    BY <1>1, <1>2, <1>3, <1>4 DEF Owning, Running, Finishing, Unregistered
  <2>7. act'[m].at = "resteer" => act'[m].thread \in Msg /\ Registered(act'[m].thread)
    BY <1>1, <1>2, <1>3, <1>4
  <2>8. Only(m) /\ UNCHANGED taken
    BY <1>1, <1>2, <1>3, <1>4
  <2> QED BY <2>1, <2>2, <2>3, <2>4, <2>5, <2>6, <2>7, <2>8, Runs_Frame
<1>8. SessionIsHeld'
  BY <1>1, <1>2, <1>3, <1>4, Keys_Facts DEF TInv, SessionIsHeld, OfSession, Listed
<1>9. TextsAreSpent'
  <2>1. \A x \in Msg : Spent(x) => Spent(x)'
    BY <1>1, <1>2, <1>3, <1>4 DEF Spent, Registered, Alone
  <2>2. Spent(m)'
    BY <1>1, <1>2, <1>3, <1>4, <2>1 DEF Spent
  <2>3. \A x \in Msg : Has(act'[m].text, x) \/ Has(act'[m].base, x) => Spent(x)'
    <3>1. \A x \in Msg : Has(act[m].text, x) \/ Has(act[m].base, x) \/ Has(thread[m].queue, x) => Spent(x)
      BY Keys_Facts DEF TInv, TextsAreSpent
    <3> QED BY <1>1, <1>2, <1>3, <1>4, <2>1, <2>2, <3>1
  <2>4. \A a \in Actor, x \in Msg : Has(act'[a].text, x) \/ Has(act'[a].base, x) => Spent(x)'
    <3>1. \A a \in Actor, x \in Msg : a # m /\ (Has(act'[a].text, x) \/ Has(act'[a].base, x)) => Spent(x)
      BY <1>1, <1>2, <1>3, <1>4 DEF TInv, TextsAreSpent, Only
    <3> QED BY <2>1, <2>3, <3>1
  <2>5. \A u \in Msg, x \in Msg :
          Has(thread'[u].queue, x) \/ Has(thread'[u].current, x) \/ Has(thread'[u].done, x) => Spent(x)'
    <3>1. \A u \in Msg, x \in Msg :
            Has(thread'[u].queue, x) \/ Has(thread'[u].current, x) \/ Has(thread'[u].done, x) => Spent(x)
      BY <1>1, <1>2, <1>3, <1>4 DEF TInv, TextsAreSpent, Alone
    <3> QED BY <2>1, <3>1
  <2>6. \A k \in Key, x \in Msg : Has(rows[k], x) => Spent(x)'
    BY <2>1 DEF TInv, TextsAreSpent
  <2> QED BY <1>1, <2>4, <2>5, <2>6 DEF TextsAreSpent
<1>10. SteersAreKept'
  BY <1>1, <1>2, <1>3, <1>4, Keys_Facts DEF TInv, SteersAreKept, Kept, Open, Turning, Finishing, Only, Alone
<1>11. TextsAreOwn'
  BY <1>1, <1>2, <1>3, <1>4, Keys_Facts DEF TInv, TextsAreOwn, Registered, Stored, Owning, Running, Finishing, Only, Alone
<1>12. RepliesAreOwn'
  <2>1. \A t \in Msg : thread'[t].keys = thread[t].keys
    BY <1>1, <1>2, <1>3, <1>4 DEF Alone
  <2>2. \A j \in Msg, a \in Actor : <<"bot", j>> \in act'[a].keys /\ act'[a].at = "persist" => j = act'[a].thread
    BY <1>1, <1>2, <1>3, <1>4 DEF TInv, RepliesAreOwn, Only
  <2> QED BY <1>1, <2>1, <2>2 DEF TInv, RepliesAreOwn
<1>13. FinishersStore'
  BY <1>1, <1>2, <1>3, <1>4, Keys_Facts DEF TInv, FinishersStore, Stored, Finishing, Only, Alone
<1>14. KnownIsReached'
  <2>1. \A n \in known : act'[n].at # "idle" => act[n].at # "idle" /\ act'[n].base = act[n].base
    BY <1>1, <1>2, <1>3, <1>4, Keys_Facts DEF TInv, Typed, Only
  <2> QED BY <1>1, <1>2, <1>3, <1>4, <2>1, Keys_Facts, Known_Frame DEF Stored
<1> QED BY <1>5, <1>6, <1>7, <1>8, <1>9, <1>10, <1>11, <1>12, <1>13, <1>14 DEF TInv

(* A turn begins with what was queued. *)
LEMMA Turn_TInv ==
    ASSUME TInv, NEW m \in Msg, Turn(m)
    PROVE  TInv'
<1>1. act[m].at = "turn" /\ UNCHANGED <<inbox, outbox, hand, marked, active, storage, history>>
  BY DEF Turn
<1>2. PICK text \in Seq(Msg) : text = IF Open(m) THEN act[m].text \o thread[m].queue ELSE act[m].text
  BY <1>1, Ready, Has_Concat
<1>3. PICK n \in Nat : n = act[m].turns + 1
  <2>1. act[m].turns \in Nat
    BY Act_Type, Keys_Facts DEF TInv
  <2> QED BY <2>1
<1>4. /\ Only(m) /\ act' \in [Actor -> Activity]
      /\ act'[m].at = "model"
      /\ act'[m].thread = act[m].thread
      /\ act'[m].base = act[m].base
      /\ act'[m].text = text
      /\ act'[m].keys = act[m].keys
      /\ act'[m].turns = n
      /\ act'[m].how = act[m].how
      /\ act'[m].unwinding = act[m].unwinding
  <2> DEFINE new == [act[m] EXCEPT !.at = "model", !.turns = n, !.text = text]
  <2>1. act[m] \in Activity
    BY Act_Type, Keys_Facts DEF TInv
  <2>2. /\ new \in Activity
        /\ new.at = "model"
        /\ new.thread = act[m].thread
        /\ new.base = act[m].base
        /\ new.text = text
        /\ new.keys = act[m].keys
        /\ new.turns = n
        /\ new.how = act[m].how
        /\ new.unwinding = act[m].unwinding
    BY <2>1 DEF Activity, Stages, Unregistered, Running, Finishing
  <2>3. act' = [act EXCEPT ![m] = new]
    BY <1>2, <1>3 DEF Turn
  <2> HIDE DEF new
  <2> QED BY <2>2, <2>3, Put_Act, Keys_Facts DEF TInv

<1>5. CASE Open(m)
  <2>1. thread' = Drained(m)
    BY <1>5 DEF Turn
  <2> QED BY <1>1, <1>2, <1>4, <1>5, <2>1, Pours_TInv
<1>6. CASE ~Open(m)
  <2>1. /\ sent' \subseteq {"bot"} \X Msg /\ log' \in Seq(Key) /\ faults' \in 0 .. MaxFault
        /\ UNCHANGED <<thread, rows>>
    BY <1>1, <1>6 DEF Turn, TInv, Typed, outbox, storage
  <2>2. act[m].how # "answered"
    BY <1>1, Ready
  <2> QED BY <1>1, <1>2, <1>4, <1>6, <2>1, <2>2, Idles_TInv
<1> QED BY <1>5, <1>6

(* The request fails, and the reply says so. *)
LEMMA ModelFails_TInv ==
    ASSUME TInv, NEW m \in Msg, ModelFails(m)
    PROVE  TInv'
<1>1. /\ act[m].at = "model" /\ Fault /\ (Send(m) \/ UNCHANGED outbox)
      /\ UNCHANGED <<inbox, hand, marked, thread, active, rows, history>>
  BY DEF ModelFails
<1>2. PICK text \in Seq(Msg) : text = Append(act[m].base, m)
  BY <1>1, Ready, Has_Append
<1>3. /\ Only(m) /\ act' \in [Actor -> Activity]
      /\ act'[m].at = "commit"
      /\ act'[m].thread = act[m].thread
      /\ act'[m].base = act[m].base
      /\ act'[m].text = text
      /\ act'[m].keys = act[m].keys
      /\ act'[m].turns = act[m].turns
      /\ act'[m].how = "cut"
      /\ act'[m].unwinding = act[m].unwinding
  <2> DEFINE new == [act[m] EXCEPT !.at = "commit", !.how = "cut", !.text = text]
  <2>1. act[m] \in Activity
    BY Act_Type, Keys_Facts DEF TInv
  <2>2. /\ new \in Activity
        /\ new.at = "commit"
        /\ new.thread = act[m].thread
        /\ new.base = act[m].base
        /\ new.text = text
        /\ new.keys = act[m].keys
        /\ new.turns = act[m].turns
        /\ new.how = "cut"
        /\ new.unwinding = act[m].unwinding
    BY <2>1 DEF Activity, Stages, Unregistered, Running, Finishing
  <2>3. act' = [act EXCEPT ![m] = new]
    BY <1>2 DEF ModelFails
  <2> HIDE DEF new
  <2> QED BY <2>2, <2>3, Put_Act, Keys_Facts DEF TInv

<1>4. sent' \subseteq {"bot"} \X Msg /\ log' \in Seq(Key) /\ faults' \in 0 .. MaxFault
  <2>1. <<"bot", m>> \in Key /\ log \in Seq(Key) /\ sent \subseteq {"bot"} \X Msg /\ faults \in 0 .. MaxFault
    BY Keys_Facts DEF TInv, Typed
  <2>2. Append(log, <<"bot", m>>) \in Seq(Key)
    BY <2>1
  <2>3. faults' \in 0 .. MaxFault
    BY <1>1, <2>1, ConstantsAssumption DEF Fault
  <2>4. CASE Send(m)
    <3>1. sent' = sent \cup {<<"bot", m>>} /\ log' \in {log, Append(log, <<"bot", m>>)}
      BY <2>4 DEF Send
    <3>2. <<"bot", m>> \in {"bot"} \X Msg
      OBVIOUS
    <3> QED BY <2>1, <2>2, <2>3, <3>1, <3>2
  <2>5. CASE UNCHANGED outbox
    BY <2>1, <2>3, <2>5 DEF outbox
  <2> QED BY <1>1, <2>4, <2>5
<1> QED BY <1>1, <1>2, <1>3, <1>4, Idles_TInv DEF Turning

(* The model answers while no steer is waiting: from then on none is accepted. *)
LEMMA Answers_TInv ==
    ASSUME TInv, NEW m \in Msg, act[m].at = "model", Open(m), thread[m].queue = <<>>,
           thread' = [thread EXCEPT ![m].phase = "completed"],
           act' = [act EXCEPT ![m].at = "commit", ![m].how = "answered"],
           UNCHANGED <<inbox, outbox, hand, marked, active, storage, history>>
    PROVE  TInv'
<1>1. UNCHANGED <<arrived, target, hand, sent, log, marked, active, rows, faults, taken, known, unsaved, torn>>
  BY DEF inbox, outbox, storage, history
<1>2. act[m].thread = m /\ Registered(m) /\ act[m].at \in Owning /\ act[m].at = "model" /\ Open(m)
  BY Ready
<1>3. /\ Only(m) /\ act' \in [Actor -> Activity]
      /\ act'[m].at = "commit"
      /\ act'[m].thread = act[m].thread
      /\ act'[m].base = act[m].base
      /\ act'[m].text = act[m].text
      /\ act'[m].keys = act[m].keys
      /\ act'[m].turns = act[m].turns
      /\ act'[m].how = "answered"
      /\ act'[m].unwinding = act[m].unwinding
  <2> DEFINE new == [act[m] EXCEPT !.at = "commit", !.how = "answered"]
  <2>1. act[m] \in Activity
    BY Act_Type, Keys_Facts DEF TInv
  <2>2. /\ new \in Activity
        /\ new.at = "commit"
        /\ new.thread = act[m].thread
        /\ new.base = act[m].base
        /\ new.text = act[m].text
        /\ new.keys = act[m].keys
        /\ new.turns = act[m].turns
        /\ new.how = "answered"
        /\ new.unwinding = act[m].unwinding
    BY <2>1 DEF Activity, Stages, Unregistered, Running, Finishing
  <2>3. act' = [act EXCEPT ![m] = new]
    BY Keys_Facts
  <2> HIDE DEF new
  <2> QED BY <2>2, <2>3, Put_Act, Keys_Facts DEF TInv

<1>4. /\ thread' \in [Msg -> Thread] /\ Alone(m) /\ thread'[m].phase = "completed"
      /\ thread'[m].queue = thread[m].queue
      /\ thread'[m].current = thread[m].current /\ thread'[m].done = thread[m].done
      /\ thread'[m].keys = thread[m].keys
  <2> DEFINE new == [thread[m] EXCEPT !.phase = "completed"]
  <2>1. thread[m] \in Thread
    BY Thread_Type DEF TInv
  <2>2. /\ new \in Thread /\ new.phase = "completed" /\ new.queue = thread[m].queue
        /\ new.current = thread[m].current /\ new.done = thread[m].done /\ new.keys = thread[m].keys
    BY <2>1 DEF Thread, Phases
  <2>3. thread' = [thread EXCEPT ![m] = new]
    OBVIOUS
  <2> HIDE DEF new
  <2> QED BY <2>2, <2>3, Put_Thread DEF TInv
<1>5. \A x \in Msg : taken[x] = m => Once(act[m].text, x)
  BY <1>2, Has_Empty DEF TInv, SteersAreKept, Kept, Turning
<1>6. Typed'
  BY <1>1, <1>2, <1>3, <1>4, <1>5, Keys_Facts DEF Typed, TInv
<1>7. Dispatched'
  <2>1. \A u \in Msg : Registered(u) => thread'[u].phase # "none"
    BY <1>1, <1>2, <1>3, <1>4, <1>5 DEF Registered, Alone
  <2> QED BY <1>1, <1>2, <1>3, <1>4, <1>5, <2>1, Keys_Facts, Dispatched_Frame
<1>8. RunsAreRegistered'
  <2>1. \A u \in Msg : Registered(u) <=> thread'[u].phase # "none"
    BY <1>1, <1>2, <1>3, <1>4, <1>5 DEF Registered, Alone
  <2>2. \A u \in Msg : ~Registered(u) => thread'[u] = NoThread
    BY <1>1, <1>2, <1>3, <1>4, <1>5 DEF TInv, RunsAreRegistered, Alone, Registered
  <2>3. \A q \in ActiveKey : active'[q] # None => active'[q] \in Msg /\ Registered(active'[q])
    BY <1>1, <1>2, <1>3, <1>4, <1>5 DEF TInv, RunsAreRegistered, Typed
  <2>4. m \in Msg /\ m \notin Halter /\ m \in Actor
    BY Keys_Facts
  <2>5. act[m].at \in {"base", "register"} \cup Owning => act[m].thread = m
    BY <2>4 DEF TInv, RunsAreRegistered
  <2>6. /\ act[m].at # "idle" /\ act'[m].at \notin {"idle", "cancel", "join", "read"}
        /\ act'[m].at \in Unregistered => act[m].at \in Unregistered
        /\ act'[m].at \in {"base", "register"} \cup Owning => act'[m].thread = act[m].thread
        /\ act'[m].at \in {"base", "register"} \cup Owning => act[m].at \in {"base", "register"} \cup Owning
        /\ act'[m].at \in Owning => act[m].at \in Owning
        /\ act[m].at = "over" => act'[m].at = "over"
    BY <1>1, <1>2, <1>3, <1>4, <1>5 DEF Owning, Running, Finishing, Unregistered
  <2>7. act'[m].at = "resteer" => act'[m].thread \in Msg /\ Registered(act'[m].thread)
    BY <1>1, <1>2, <1>3, <1>4, <1>5
  <2>8. Only(m) /\ UNCHANGED taken
    BY <1>1, <1>2, <1>3, <1>4, <1>5
  <2> QED BY <2>1, <2>2, <2>3, <2>4, <2>5, <2>6, <2>7, <2>8, Runs_Frame
<1>9. SessionIsHeld'
  BY <1>1, <1>2, <1>3, <1>4, <1>5, Keys_Facts DEF TInv, SessionIsHeld, OfSession, Listed
<1>10. TextsAreSpent'
  <2>1. \A x \in Msg : Spent(x) => Spent(x)'
    BY <1>1, <1>2, <1>3, <1>4, <1>5, Keys_Facts DEF Spent, Registered, Only, Alone
  <2> QED BY <2>1, <1>1, <1>2, <1>3, <1>4, <1>5, Keys_Facts DEF TInv, TextsAreSpent, Only, Alone
<1>11. SteersAreKept'
  BY <1>1, <1>2, <1>3, <1>4, <1>5, Keys_Facts DEF TInv, SteersAreKept, Kept, Open, Turning, Finishing, Only, Alone
<1>12. TextsAreOwn'
  BY <1>1, <1>2, <1>3, <1>4, <1>5, Keys_Facts DEF TInv, TextsAreOwn, Registered, Stored, Owning, Running, Finishing, Only, Alone
<1>13. RepliesAreOwn'
  BY <1>1, <1>2, <1>3, <1>4, <1>5, Keys_Facts DEF TInv, RepliesAreOwn, Only, Alone
<1>14. FinishersStore'
  <2>1. thread[m].phase # "finishing"
    BY <1>1, <1>2, <1>3, <1>4, <1>5 DEF Open
  <2>2. ASSUME NEW a \in Actor, act'[a].at \in Finishing
        PROVE  /\ act'[a] = act[a] /\ act[a].thread \in Msg
               /\ thread[act[a].thread].phase = "finishing" /\ thread'[act[a].thread] = thread[act[a].thread]
    <3>1. a # m /\ act'[a] = act[a]
      BY <1>1, <1>2, <1>3, <1>4, <1>5, <2>2 DEF Only, Finishing
    <3>2. act[a].thread \in Msg /\ thread[act[a].thread].phase = "finishing"
      BY <2>2, <3>1, Owner_Thread DEF Owning, TInv, FinishersStore
    <3>3. act[a].thread # m
      BY <2>1, <3>2
    <3> QED BY <1>1, <1>2, <1>3, <1>4, <1>5, <3>1, <3>2, <3>3 DEF Alone
  <2>3. \A a \in Actor : act'[a].at \in Finishing => thread'[act'[a].thread].phase = "finishing"
    BY <2>2
  <2>4. ASSUME NEW a \in Actor, act'[a].at = "persist" PROVE act'[a].keys = thread'[act'[a].thread].keys
    <3>1. act'[a] = act[a] /\ thread'[act[a].thread] = thread[act[a].thread]
      BY <2>2, <2>4 DEF Finishing
    <3> QED BY <2>4, <3>1 DEF TInv, FinishersStore
  <2>5. ASSUME NEW a \in Actor, act'[a].at \in {"done", "remove"}
        PROVE  act'[a].thread \in unsaved \/ \A q \in thread'[act'[a].thread].keys : Stored(q)
    BY <2>2, <2>5 DEF Finishing, TInv, FinishersStore
  <2> QED BY <1>1, <2>3, <2>4, <2>5 DEF FinishersStore, Stored
<1>15. KnownIsReached'
  <2>1. \A n \in known : act'[n].at # "idle" => act[n].at # "idle" /\ act'[n].base = act[n].base
    BY <1>1, <1>2, <1>3, <1>4, <1>5, Keys_Facts DEF TInv, Typed, Only
  <2> QED BY <1>1, <1>2, <1>3, <1>4, <1>5, <2>1, Keys_Facts, Known_Frame DEF Stored
<1> QED BY <1>6, <1>7, <1>8, <1>9, <1>10, <1>11, <1>12, <1>13, <1>14, <1>15 DEF TInv

(* The model answers: the run is over, goes on with its steers, or was halted. *)
LEMMA Complete_TInv ==
    ASSUME TInv, NEW m \in Msg, Complete(m)
    PROVE  TInv'
<1>1. act[m].at = "model" /\ UNCHANGED <<inbox, outbox, hand, marked, active, storage, history>>
  BY DEF Complete
<1>2. CASE Open(m) /\ thread[m].queue = <<>>
  <2>1. thread' = [thread EXCEPT ![m].phase = "completed"]
        /\ act' = [act EXCEPT ![m].at = "commit", ![m].how = "answered"]
    BY <1>2 DEF Complete
  <2> QED BY <1>1, <1>2, <2>1, Answers_TInv
<1>3. CASE Open(m) /\ thread[m].queue # <<>>
  <2>1. thread' = Drained(m) /\ act' = [act EXCEPT ![m].at = "turn", ![m].text = @ \o thread[m].queue]
    BY <1>3 DEF Complete
  <2>2. PICK text \in Seq(Msg) : text = act[m].text \o thread[m].queue
    BY <1>1, Ready, Has_Concat
  <2>3. /\ Only(m) /\ act' \in [Actor -> Activity]
        /\ act'[m].at = "turn"
        /\ act'[m].thread = act[m].thread
        /\ act'[m].base = act[m].base
        /\ act'[m].text = text
        /\ act'[m].keys = act[m].keys
        /\ act'[m].turns = act[m].turns
        /\ act'[m].how = act[m].how
        /\ act'[m].unwinding = act[m].unwinding
    <3> DEFINE new == [act[m] EXCEPT !.at = "turn", !.text = text]
    <3>1. act[m] \in Activity
      BY Act_Type, Keys_Facts DEF TInv
    <3>2. /\ new \in Activity
          /\ new.at = "turn"
          /\ new.thread = act[m].thread
          /\ new.base = act[m].base
          /\ new.text = text
          /\ new.keys = act[m].keys
          /\ new.turns = act[m].turns
          /\ new.how = act[m].how
          /\ new.unwinding = act[m].unwinding
      BY <3>1 DEF Activity, Stages, Unregistered, Running, Finishing
    <3>3. act' = [act EXCEPT ![m] = new]
      BY <2>1, <2>2
    <3> HIDE DEF new
    <3> QED BY <3>2, <3>3, Put_Act, Keys_Facts DEF TInv
  <2> QED BY <1>1, <1>3, <2>1, <2>2, <2>3, Pours_TInv
<1>4. CASE ~Open(m)
  <2>1. UNCHANGED thread /\ act' = [act EXCEPT ![m].at = "commit", ![m].how = "cut"]
    BY <1>4 DEF Complete
  <2>2. /\ Only(m) /\ act' \in [Actor -> Activity]
        /\ act'[m].at = "commit"
        /\ act'[m].thread = act[m].thread
        /\ act'[m].base = act[m].base
        /\ act'[m].text = act[m].text
        /\ act'[m].keys = act[m].keys
        /\ act'[m].turns = act[m].turns
        /\ act'[m].how = "cut"
        /\ act'[m].unwinding = act[m].unwinding
    <3> DEFINE new == [act[m] EXCEPT !.at = "commit", !.how = "cut"]
    <3>1. act[m] \in Activity
      BY Act_Type, Keys_Facts DEF TInv
    <3>2. /\ new \in Activity
          /\ new.at = "commit"
          /\ new.thread = act[m].thread
          /\ new.base = act[m].base
          /\ new.text = act[m].text
          /\ new.keys = act[m].keys
          /\ new.turns = act[m].turns
          /\ new.how = "cut"
          /\ new.unwinding = act[m].unwinding
      BY <3>1 DEF Activity, Stages, Unregistered, Running, Finishing
    <3>3. act' = [act EXCEPT ![m] = new]
      BY <2>1
    <3> HIDE DEF new
    <3> QED BY <3>2, <3>3, Put_Act, Keys_Facts DEF TInv
  <2>3. /\ sent' \subseteq {"bot"} \X Msg /\ log' \in Seq(Key) /\ faults' \in 0 .. MaxFault
        /\ UNCHANGED rows
    BY <1>1 DEF TInv, Typed, outbox, storage
  <2> QED BY <1>1, <2>1, <2>2, <2>3, Idles_TInv DEF Turning
<1> QED BY <1>2, <1>3, <1>4

(* A run is inserted in the active map where there is none. *)
LEMMA Registers_TInv ==
    ASSUME TInv, NEW m \in Msg, act[m].at = "register", ~Refused(m), NEW s \in {"adding", "turn"}, NEW text \in Seq(Msg),
           text = Append(act[m].base, m),
           act' = [act EXCEPT ![m].text = text, ![m].at = s],
           thread' = [thread EXCEPT ![m] = [NoThread EXCEPT !.phase = "open", !.current = text]],
           NEW own, own = {<<"id", m>>, <<"user", m>>} \cup (IF OfSession(m) THEN {Session} ELSE {}),
           active' = [q \in ActiveKey |-> IF q \in own THEN m ELSE active[q]],
           UNCHANGED <<inbox, outbox, hand, marked, storage, history>>
    PROVE  TInv'
<1>1. UNCHANGED <<arrived, target, hand, sent, log, marked, rows, faults, taken, known, unsaved, torn>>
  BY DEF inbox, outbox, storage, history
<1>2. /\ act[m].thread = m /\ act[m].how # "answered" /\ act[m].at = "register"
      /\ ~Registered(m) /\ thread[m] = NoThread /\ act[m].base \in Seq(Msg)
  BY Ready
<1>3. /\ Only(m) /\ act' \in [Actor -> Activity]
      /\ act'[m].at = s
      /\ act'[m].thread = act[m].thread
      /\ act'[m].base = act[m].base
      /\ act'[m].text = text
      /\ act'[m].keys = act[m].keys
      /\ act'[m].turns = act[m].turns
      /\ act'[m].how = act[m].how
      /\ act'[m].unwinding = act[m].unwinding
  <2> DEFINE new == [act[m] EXCEPT !.at = s, !.text = text]
  <2>1. act[m] \in Activity
    BY Act_Type, Keys_Facts DEF TInv
  <2>2. /\ new \in Activity
        /\ new.at = s
        /\ new.thread = act[m].thread
        /\ new.base = act[m].base
        /\ new.text = text
        /\ new.keys = act[m].keys
        /\ new.turns = act[m].turns
        /\ new.how = act[m].how
        /\ new.unwinding = act[m].unwinding
    BY <2>1 DEF Activity, Stages, Unregistered, Running, Finishing
  <2>3. act' = [act EXCEPT ![m] = new]
    OBVIOUS
  <2> HIDE DEF new
  <2> QED BY <2>2, <2>3, Put_Act, Keys_Facts DEF TInv

<1>4. /\ thread' \in [Msg -> Thread] /\ Alone(m) /\ thread'[m].phase = "open"
      /\ thread'[m].queue = <<>> /\ thread'[m].current = text /\ thread'[m].done = <<>> /\ thread'[m].keys = {}
  <2> DEFINE new == [NoThread EXCEPT !.phase = "open", !.current = text]
  <2>1. <<>> \in Seq(Msg)
    OBVIOUS
  <2>2. /\ new \in Thread /\ new.phase = "open" /\ new.queue = <<>>
        /\ new.current = text /\ new.done = <<>> /\ new.keys = {}
    BY <2>1 DEF NoThread, Thread, Phases
  <2>3. thread' = [thread EXCEPT ![m] = new]
    OBVIOUS
  <2> HIDE DEF new
  <2> QED BY <2>2, <2>3, Put_Thread DEF TInv
<1>5. /\ active' \in [ActiveKey -> Msg \cup {None}]
      /\ \A q \in ActiveKey : active'[q] = IF q \in own THEN m ELSE active[q]
  BY DEF TInv, Typed
<1>6. /\ <<"id", m>> \in own /\ (OfSession(m) <=> Session \in own)
      /\ \A j \in Msg : <<"bot", j>> \notin own /\ (<<"id", j>> \in own => j = m)
  BY Keys_Facts DEF Session
<1>7. \A x : Has(text, x) <=> Has(act[m].base, x) \/ x = m
  BY <1>2, Has_Append
<1>8. \A x \in Msg : taken[x] # m
  BY <1>2, Keys_Facts DEF TInv, RunsAreRegistered
<1>9. \A u \in Msg : Registered(u) => u # m /\ thread'[u] = thread[u]
  BY <1>2, <1>4 DEF Alone
<1>10. Typed'
  BY <1>1, <1>2, <1>3, <1>4, <1>5, <1>6, <1>7, <1>8, <1>9, Keys_Facts DEF Typed, TInv
<1>11. Dispatched'
  <2>1. \A u \in Msg : Registered(u) => thread'[u].phase # "none"
    BY <1>9 DEF Registered
  <2> QED BY <1>1, <1>2, <1>3, <2>1, Keys_Facts, Dispatched_Frame
<1>12. RunsAreRegistered'
  <2>1. \A u \in Msg : thread'[u].phase # "none" <=> Registered(u) \/ u = m
    BY <1>4, <1>9 DEF Registered, Alone
  <2>2. \A h \in Halter : act'[h] = act[h]
    BY <1>3, Keys_Facts DEF Only
  <2>3. \A u \in Msg : thread'[u].phase = "none" => thread'[u] = NoThread
    BY <1>4, <2>1 DEF TInv, RunsAreRegistered, Alone, Registered
  <2>4. ASSUME NEW q \in ActiveKey, active'[q] # None PROVE thread'[active'[q]].phase # "none"
    <3>1. CASE q \in own
      BY <1>4, <1>5, <3>1
    <3>2. CASE q \notin own
      <4>1. active'[q] = active[q] /\ active[q] \in Msg
        BY <1>5, <2>4, <3>2 DEF TInv, Typed
      <4> QED BY <2>1, <2>4, <4>1 DEF TInv, RunsAreRegistered
    <3> QED BY <3>1, <3>2
  <2>5. ASSUME NEW x \in Msg, taken[x] # None
        PROVE  thread'[taken[x]].phase # "none" /\ thread'[x].phase = "none" /\ act'[x].at \in {"idle", "over"}
    <3>1. taken[x] \in Msg /\ Registered(taken[x]) /\ ~Registered(x) /\ act[x].at \in {"idle", "over"}
      BY <2>5 DEF TInv, RunsAreRegistered, Typed
    <3>2. x # m
      BY <1>2, <3>1
    <3>3. act'[x] = act[x]
      BY <1>3, <3>2, Keys_Facts DEF Only
    <3> QED BY <2>1, <3>1, <3>2, <3>3
  <2>6. ASSUME NEW x \in Msg
        PROVE  /\ act'[x].at \in {"idle"} \cup Unregistered => thread'[x].phase = "none"
               /\ act'[x].at \in {"base", "register"} \cup Owning => act'[x].thread = x
               /\ act'[x].at \in Owning => thread'[x].phase # "none"
               /\ act'[x].at = "resteer" => act'[x].thread \in Msg /\ thread'[act'[x].thread].phase # "none"
               /\ act'[x].at \notin {"cancel", "join", "read"}
    <3>1. CASE x = m
      BY <1>2, <1>3, <1>4, <3>1 DEF Unregistered
    <3>2. CASE x # m
      <4>1. act'[x] = act[x]
        BY <1>3, <3>2, Keys_Facts DEF Only
      <4> QED BY <2>1, <3>2, <4>1 DEF TInv, RunsAreRegistered
    <3> QED BY <3>1, <3>2
  <2>7. \A h \in Halter : act'[h].at \in Finishing \cup {"mark", "cancel", "join", "read"} =>
          act'[h].thread \in Msg /\ thread'[act'[h].thread].phase # "none"
    BY <2>1, <2>2 DEF TInv, RunsAreRegistered
  <2>8. \A h \in Halter : act'[h].at \in Finishing \cup {"idle", "over", "mark", "cancel", "join", "read"}
    BY <2>2 DEF TInv, RunsAreRegistered
  <2>9. /\ \A x \in Msg : act'[x].at \in {"idle"} \cup Unregistered => thread'[x].phase = "none"
        /\ \A x \in Msg : act'[x].at \in {"base", "register"} \cup Owning => act'[x].thread = x
        /\ \A x \in Msg : act'[x].at \in Owning => thread'[x].phase # "none"
        /\ \A x \in Msg : act'[x].at = "resteer" => act'[x].thread \in Msg /\ thread'[act'[x].thread].phase # "none"
        /\ \A x \in Msg : act'[x].at \notin {"cancel", "join", "read"}
    BY <2>6
  <2>10. \A q \in ActiveKey : active'[q] # None => thread'[active'[q]].phase # "none"
    BY <2>4
  <2>11. \A x \in Msg : taken'[x] # None =>
           thread'[taken'[x]].phase # "none" /\ thread'[x].phase = "none" /\ act'[x].at \in {"idle", "over"}
    BY <1>1, <2>5
  <2> QED BY <2>3, <2>7, <2>8, <2>9, <2>10, <2>11 DEF RunsAreRegistered, Registered
<1>13. SessionIsHeld'
  <2>1. ASSUME NEW t \in Msg, OfSession(t), active'[<<"id", t>>] = t PROVE active'[Session] = t
    <3>1. CASE t = m
      BY <1>5, <1>6, <2>1, <3>1, Keys_Facts
    <3>2. CASE t # m
      <4>1. active[<<"id", t>>] = t
        BY <1>5, <1>6, <2>1, <3>2, Keys_Facts
      <4>2. active[Session] = t
        BY <2>1, <4>1 DEF TInv, SessionIsHeld, Listed
      <4>3. Session \notin own
        BY <1>6, <4>2, Keys_Facts DEF Refused
      <4> QED BY <1>5, <4>2, <4>3, Keys_Facts
    <3> QED BY <3>1, <3>2
  <2> QED BY <1>1, <2>1 DEF SessionIsHeld, OfSession, Listed
<1>14. TextsAreSpent'
  <2>1. \A x \in Msg : Spent(x) => Spent(x)'
    BY <1>1, <1>9 DEF Spent, Registered
  <2>2. Spent(m)'
    BY <1>4 DEF Spent, Registered
  <2>3. \A x \in Msg : Has(act'[m].text, x) \/ Has(act'[m].base, x) => Spent(x)'
    <3>1. \A x \in Msg : Has(act[m].base, x) => Spent(x)
      BY Keys_Facts DEF TInv, TextsAreSpent
    <3> QED BY <1>3, <1>7, <2>1, <2>2, <3>1
  <2>4. \A a \in Actor, x \in Msg : Has(act'[a].text, x) \/ Has(act'[a].base, x) => Spent(x)'
    <3>1. \A a \in Actor, x \in Msg : a # m /\ (Has(act'[a].text, x) \/ Has(act'[a].base, x)) => Spent(x)
      BY <1>3 DEF TInv, TextsAreSpent, Only
    <3> QED BY <2>1, <2>3, <3>1
  <2>5. \A u \in Msg, x \in Msg :
          Has(thread'[u].queue, x) \/ Has(thread'[u].current, x) \/ Has(thread'[u].done, x) => Spent(x)'
    <3>1. \A u \in Msg, x \in Msg : u # m /\
            (Has(thread'[u].queue, x) \/ Has(thread'[u].current, x) \/ Has(thread'[u].done, x)) => Spent(x)
      BY <1>4 DEF TInv, TextsAreSpent, Alone
    <3>2. \A x \in Msg : ~Has(thread'[m].queue, x) /\ ~Has(thread'[m].done, x)
                         /\ (Has(thread'[m].current, x) => Has(act'[m].text, x))
      BY <1>3, <1>4, Has_Empty
    <3> QED BY <2>1, <2>3, <3>1, <3>2
  <2>6. \A q \in Key, x \in Msg : Has(rows[q], x) => Spent(x)'
    BY <2>1 DEF TInv, TextsAreSpent
  <2> QED BY <1>1, <2>4, <2>5, <2>6 DEF TextsAreSpent
<1>15. SteersAreKept'
  <2>1. ASSUME NEW t \in Msg, t # m
        PROVE  act'[t] = act[t] /\ thread'[t] = thread[t]
    BY <1>3, <1>4, <2>1, Keys_Facts DEF Only, Alone
  <2>2. ASSUME NEW t \in Msg, act'[t].how = "answered"
        PROVE  /\ act'[t].at \in Finishing \cup {"commit", "mark", "over"}
               /\ thread'[t].phase \in {"completed", "finishing"}
    <3>1. t # m
      BY <1>2, <1>3, <2>2
    <3> QED BY <2>1, <2>2, <3>1 DEF TInv, SteersAreKept
  <2>3. ASSUME NEW t \in Msg, NEW x \in Msg, taken[x] = t
        PROVE  /\ act'[t].at \in Turning /\ Open(t)' => Kept(t, x)'
               /\ act'[t].how = "answered" => Once(act'[t].text, x)
    <3>1. t # m
      BY <1>8, <2>3
    <3>2. act'[t] = act[t] /\ thread'[t] = thread[t]
      BY <2>1, <3>1
    <3> QED BY <2>3, <3>2 DEF TInv, SteersAreKept, Kept, Open
  <2> QED BY <1>1, <2>2, <2>3 DEF SteersAreKept
<1>16. TextsAreOwn'
  BY <1>1, <1>2, <1>3, <1>4, <1>5, <1>6, <1>7, <1>8, <1>9, Keys_Facts DEF TInv, TextsAreOwn, Registered, Stored, Owning, Running, Finishing, Only, Alone
<1>17. RepliesAreOwn'
  <2>1. \A j \in Msg : active'[<<"bot", j>>] = active[<<"bot", j>>]
    BY <1>5, <1>6, Keys_Facts
  <2>2. \A j \in Msg, a \in Actor : <<"bot", j>> \in act'[a].keys /\ act'[a].at = "persist" => j = act'[a].thread
    BY <1>3 DEF TInv, RepliesAreOwn, Only
  <2>3. ASSUME NEW j \in Msg, active'[<<"bot", j>>] # None
        PROVE  active'[<<"bot", j>>] = j /\ <<"bot", j>> \in thread'[j].keys
    <3>1. active[<<"bot", j>>] = j /\ <<"bot", j>> \in thread[j].keys
      BY <2>1, <2>3 DEF TInv, RepliesAreOwn
    <3>2. j # m
      BY <1>2, <3>1 DEF NoThread
    <3> QED BY <1>4, <2>1, <3>1, <3>2 DEF Alone
  <2>4. \A j, t \in Msg : <<"bot", j>> \in thread'[t].keys => j = t
    BY <1>4 DEF TInv, RepliesAreOwn, Alone
  <2> QED BY <2>2, <2>3, <2>4 DEF RepliesAreOwn
<1>18. FinishersStore'
  <2>1. thread[m].phase # "finishing"
    BY <1>2 DEF NoThread
  <2>2. ASSUME NEW a \in Actor, act'[a].at \in Finishing
        PROVE  /\ act'[a] = act[a] /\ act[a].thread \in Msg
               /\ thread[act[a].thread].phase = "finishing" /\ thread'[act[a].thread] = thread[act[a].thread]
    <3>1. a # m /\ act'[a] = act[a]
      BY <1>1, <1>2, <1>3, <1>4, <1>5, <1>6, <1>7, <1>8, <1>9, <2>2 DEF Only, Finishing
    <3>2. act[a].thread \in Msg /\ thread[act[a].thread].phase = "finishing"
      BY <2>2, <3>1, Owner_Thread DEF Owning, TInv, FinishersStore
    <3>3. act[a].thread # m
      BY <2>1, <3>2
    <3> QED BY <1>1, <1>2, <1>3, <1>4, <1>5, <1>6, <1>7, <1>8, <1>9, <3>1, <3>2, <3>3 DEF Alone
  <2>3. \A a \in Actor : act'[a].at \in Finishing => thread'[act'[a].thread].phase = "finishing"
    BY <2>2
  <2>4. ASSUME NEW a \in Actor, act'[a].at = "persist" PROVE act'[a].keys = thread'[act'[a].thread].keys
    <3>1. act'[a] = act[a] /\ thread'[act[a].thread] = thread[act[a].thread]
      BY <2>2, <2>4 DEF Finishing
    <3> QED BY <2>4, <3>1 DEF TInv, FinishersStore
  <2>5. ASSUME NEW a \in Actor, act'[a].at \in {"done", "remove"}
        PROVE  act'[a].thread \in unsaved \/ \A q \in thread'[act'[a].thread].keys : Stored(q)
    BY <2>2, <2>5 DEF Finishing, TInv, FinishersStore
  <2> QED BY <1>1, <2>3, <2>4, <2>5 DEF FinishersStore, Stored
<1>19. KnownIsReached'
  <2>1. \A n \in known : act'[n].at # "idle" => act[n].at # "idle" /\ act'[n].base = act[n].base
    BY <1>2, <1>3, Keys_Facts DEF TInv, Typed, Only
  <2>2. \A j \in Msg : active[<<"bot", j>>] # None => active'[<<"bot", j>>] # None
    BY <1>5, <1>6, Keys_Facts
  <2>3. \A j \in Msg : Stored(<<"bot", j>>) => rows'[<<"bot", j>>] # <<>>
    BY <1>1 DEF Stored
  <2> QED BY <1>1, <2>1, <2>2, <2>3, Known_Frame
<1> QED BY <1>10, <1>11, <1>12, <1>13, <1>14, <1>15, <1>16, <1>17, <1>18, <1>19 DEF TInv

(* The session has a run, and the worker registers none. *)
LEMMA Refuse_TInv ==
    ASSUME TInv, NEW m \in Msg, act[m].at = "register", Go(m, "relook"),
           UNCHANGED <<inbox, outbox, hand, marked, thread, active, storage, history>>
    PROVE  TInv'
<1>1. UNCHANGED <<arrived, target, hand, sent, log, marked, thread, active, rows, faults, taken, known, unsaved, torn>>
  BY DEF inbox, outbox, storage, history
<1>2. act[m].at = "register"
  OBVIOUS
<1>3. /\ Only(m) /\ act' \in [Actor -> Activity]
      /\ act'[m].at = "relook"
      /\ act'[m].thread = act[m].thread
      /\ act'[m].base = act[m].base
      /\ act'[m].text = act[m].text
      /\ act'[m].keys = act[m].keys
      /\ act'[m].turns = act[m].turns
      /\ act'[m].how = act[m].how
      /\ act'[m].unwinding = act[m].unwinding
  <2> DEFINE new == [act[m] EXCEPT !.at = "relook"]
  <2>1. act[m] \in Activity
    BY Act_Type, Keys_Facts DEF TInv
  <2>2. /\ new \in Activity
        /\ new.at = "relook"
        /\ new.thread = act[m].thread
        /\ new.base = act[m].base
        /\ new.text = act[m].text
        /\ new.keys = act[m].keys
        /\ new.turns = act[m].turns
        /\ new.how = act[m].how
        /\ new.unwinding = act[m].unwinding
    BY <2>1 DEF Activity, Stages, Unregistered, Running, Finishing
  <2>3. act' = [act EXCEPT ![m] = new]
    BY DEF Go
  <2> HIDE DEF new
  <2> QED BY <2>2, <2>3, Put_Act, Keys_Facts DEF TInv
<1>4. Typed'
  BY <1>1, <1>2, <1>3, Keys_Facts DEF Typed, TInv
<1>5. Dispatched'
  <2>1. \A u \in Msg : Registered(u) => thread'[u].phase # "none"
    BY <1>1, <1>2, <1>3 DEF Registered, Alone
  <2> QED BY <1>1, <1>2, <1>3, <2>1, Keys_Facts, Dispatched_Frame
<1>6. RunsAreRegistered'
  <2>1. \A u \in Msg : Registered(u) <=> thread'[u].phase # "none"
    BY <1>1, <1>2, <1>3 DEF Registered, Alone
  <2>2. \A u \in Msg : ~Registered(u) => thread'[u] = NoThread
    BY <1>1, <1>2, <1>3 DEF TInv, RunsAreRegistered, Alone, Registered
  <2>3. \A q \in ActiveKey : active'[q] # None => active'[q] \in Msg /\ Registered(active'[q])
    BY <1>1, <1>2, <1>3 DEF TInv, RunsAreRegistered, Typed
  <2>4. m \in Msg /\ m \notin Halter /\ m \in Actor
    BY Keys_Facts
  <2>5. act[m].at \in {"base", "register"} \cup Owning => act[m].thread = m
    BY <2>4 DEF TInv, RunsAreRegistered
  <2>6. /\ act[m].at # "idle" /\ act'[m].at \notin {"idle", "cancel", "join", "read"}
        /\ act'[m].at \in Unregistered => act[m].at \in Unregistered
        /\ act'[m].at \in {"base", "register"} \cup Owning => act'[m].thread = act[m].thread
        /\ act'[m].at \in {"base", "register"} \cup Owning => act[m].at \in {"base", "register"} \cup Owning
        /\ act'[m].at \in Owning => act[m].at \in Owning
        /\ act[m].at = "over" => act'[m].at = "over"
    BY <1>1, <1>2, <1>3 DEF Owning, Running, Finishing, Unregistered
  <2>7. act'[m].at = "resteer" => act'[m].thread \in Msg /\ Registered(act'[m].thread)
    BY <1>1, <1>2, <1>3
  <2>8. Only(m) /\ UNCHANGED taken
    BY <1>1, <1>2, <1>3
  <2> QED BY <2>1, <2>2, <2>3, <2>4, <2>5, <2>6, <2>7, <2>8, Runs_Frame
<1>7. SessionIsHeld'
  BY <1>1, <1>2, <1>3, Keys_Facts DEF TInv, SessionIsHeld, OfSession, Listed
<1>8. TextsAreSpent'
  <2>1. \A x \in Msg : Spent(x) => Spent(x)'
    BY <1>1, <1>2, <1>3, Keys_Facts DEF Spent, Registered, Only, Alone
  <2> QED BY <2>1, <1>1, <1>2, <1>3, Keys_Facts DEF TInv, TextsAreSpent, Only, Alone
<1>9. SteersAreKept'
  BY <1>1, <1>2, <1>3, Keys_Facts DEF TInv, SteersAreKept, Kept, Open, Turning, Finishing, Only, Alone
<1>10. TextsAreOwn'
  BY <1>1, <1>2, <1>3, Keys_Facts DEF TInv, TextsAreOwn, Registered, Stored, Owning, Running, Finishing, Only, Alone
<1>11. RepliesAreOwn'
  <2>1. \A t \in Msg : thread'[t].keys = thread[t].keys
    BY <1>1, <1>2, <1>3 DEF Alone
  <2>2. \A j \in Msg, a \in Actor : <<"bot", j>> \in act'[a].keys /\ act'[a].at = "persist" => j = act'[a].thread
    BY <1>1, <1>2, <1>3 DEF TInv, RepliesAreOwn, Only
  <2> QED BY <1>1, <2>1, <2>2 DEF TInv, RepliesAreOwn
<1>12. FinishersStore'
  BY <1>1, <1>2, <1>3, Keys_Facts DEF TInv, FinishersStore, Stored, Finishing, Only, Alone
<1>13. KnownIsReached'
  <2>1. \A n \in known : act'[n].at # "idle" => act[n].at # "idle" /\ act'[n].base = act[n].base
    BY <1>1, <1>2, <1>3, Keys_Facts DEF TInv, Typed, Only
  <2> QED BY <1>1, <1>2, <1>3, <2>1, Keys_Facts, Known_Frame DEF Stored
<1> QED BY <1>4, <1>5, <1>6, <1>7, <1>8, <1>9, <1>10, <1>11, <1>12, <1>13 DEF TInv

(* A worker registers its run, or is refused. *)
LEMMA Register_TInv ==
    ASSUME TInv, NEW m \in Msg, Register(m)
    PROVE  TInv'
<1>1. act[m].at = "register" /\ UNCHANGED <<inbox, outbox, hand, marked, storage, history>>
  BY DEF Register
<1>2. CASE Refused(m)
  BY <1>1, <1>2, Refuse_TInv DEF Register
<1>3. CASE ~Refused(m)
  <2>1. PICK text \in Seq(Msg) : text = Append(act[m].base, m)
    BY <1>1, Ready, Has_Append
  <2>2. PICK s \in {"adding", "turn"} : s = IF OfSession(m) THEN "adding" ELSE "turn"
    OBVIOUS
  <2>3. PICK own : own = {<<"id", m>>, <<"user", m>>} \cup (IF OfSession(m) THEN {Session} ELSE {})
    OBVIOUS
  <2>4. /\ act' = [act EXCEPT ![m].text = text, ![m].at = s]
        /\ thread' = [thread EXCEPT ![m] = [NoThread EXCEPT !.phase = "open", !.current = text]]
        /\ active' = [q \in ActiveKey |-> IF q \in own THEN m ELSE active[q]]
    BY <1>3, <2>1, <2>2, <2>3 DEF Register
  <2> QED BY <1>1, <1>3, <2>1, <2>3, <2>4, Registers_TInv
<1> QED BY <1>2, <1>3

-----------------------------------------------------------------------------
(* The end of a thread.                                                    *)

(* Whoever finishes a run has its thread, its text and its keys. *)
LEMMA Finisher ==
    ASSUME TInv, NEW a \in Actor, act[a].at \in {"mark", "persist", "done", "remove"}
    PROVE  /\ act[a].at \in Owning /\ act[a].thread \in Msg /\ Registered(act[a].thread)
           /\ a \in Msg => act[a].thread = a
           /\ act[a].text \in Seq(Msg) /\ Has(act[a].text, act[a].thread) /\ act[a].text # <<>>
           /\ act[a].keys \subseteq Key
           /\ \A x \in Msg : Has(act[a].text, x) => Spent(x)
<1>1. act[a].at \in Owning
  BY DEF Owning, Finishing
<1>2. act[a].thread \in Msg /\ Registered(act[a].thread) /\ (a \in Msg => act[a].thread = a)
  BY <1>1, Owner_Thread
<1>3. Has(act[a].text, act[a].thread)
  BY <1>1 DEF TInv, TextsAreOwn
<1>4. act[a].text # <<>>
  BY <1>3, Has_Some
<1>5. act[a].text \in Seq(Msg) /\ act[a].keys \subseteq Key
  BY Act_Type DEF TInv
<1> QED BY <1>1, <1>2, <1>3, <1>4, <1>5 DEF TInv, TextsAreSpent

(* Whoever finds the thread finishing, or has finished it, is over. *)
LEMMA Ends_TInv ==
    ASSUME TInv, NEW a \in Actor, act[a].at \in {"mark", "remove"}, Go(a, "over"),
           UNCHANGED <<inbox, outbox, hand, marked, thread, active, storage, history>>
    PROVE  TInv'
<1>1. UNCHANGED <<arrived, target, hand, sent, log, marked, thread, active, rows, faults, taken, known, unsaved, torn>>
  BY DEF inbox, outbox, storage, history
<1>2. /\ act[a].at \in {"mark", "remove"} /\ act[a].at \in Owning /\ act[a].thread \in Msg
      /\ Registered(act[a].thread) /\ (a \in Msg => act[a].thread = a)
  BY Finisher
<1>3. /\ Only(a) /\ act' \in [Actor -> Activity]
      /\ act'[a].at = "over"
      /\ act'[a].thread = act[a].thread
      /\ act'[a].base = act[a].base
      /\ act'[a].text = act[a].text
      /\ act'[a].keys = act[a].keys
      /\ act'[a].turns = act[a].turns
      /\ act'[a].how = act[a].how
      /\ act'[a].unwinding = act[a].unwinding
  <2> DEFINE new == [act[a] EXCEPT !.at = "over"]
  <2>1. act[a] \in Activity
    BY Act_Type, Keys_Facts DEF TInv
  <2>2. /\ new \in Activity
        /\ new.at = "over"
        /\ new.thread = act[a].thread
        /\ new.base = act[a].base
        /\ new.text = act[a].text
        /\ new.keys = act[a].keys
        /\ new.turns = act[a].turns
        /\ new.how = act[a].how
        /\ new.unwinding = act[a].unwinding
    BY <2>1 DEF Activity, Stages, Unregistered, Running, Finishing
  <2>3. act' = [act EXCEPT ![a] = new]
    BY DEF Go
  <2> HIDE DEF new
  <2> QED BY <2>2, <2>3, Put_Act, Keys_Facts DEF TInv
<1>4. Typed'
  BY <1>1, <1>2, <1>3, Keys_Facts DEF Typed, TInv
<1>5. Dispatched'
  <2>1. \A u \in Msg : Registered(u) => thread'[u].phase # "none"
    BY <1>1, <1>2, <1>3 DEF Registered, Alone
  <2>2. UNCHANGED <<hand, arrived, target, taken>> /\ Only(a) /\ act[a].at # "idle" /\ act'[a].at # "base"
    BY <1>1, <1>2, <1>3
  <2> QED BY <2>1, <2>2, Dispatched_Frame
<1>6. RunsAreRegistered'
  <2>1. \A u \in Msg : Registered(u) <=> thread'[u].phase # "none"
    BY <1>1, <1>2, <1>3 DEF Registered, Alone
  <2>2. \A u \in Msg : ~Registered(u) => thread'[u] = NoThread
    BY <1>1, <1>2, <1>3 DEF TInv, RunsAreRegistered, Alone, Registered
  <2>3. \A q \in ActiveKey : active'[q] # None => active'[q] \in Msg /\ Registered(active'[q])
    BY <1>1, <1>2, <1>3 DEF TInv, RunsAreRegistered, Typed
  <2>4. a \in Msg =>
          /\ act[a].at # "idle" /\ act'[a].at \notin {"idle", "cancel", "join", "read"}
          /\ act'[a].at \notin Unregistered /\ act'[a].thread = a /\ act[a].at \in Owning
          /\ act'[a].at # "resteer" /\ act[a].at # "over"
    BY <1>1, <1>2, <1>3 DEF Unregistered
  <2>5. /\ act'[a].at \in Finishing \cup {"over", "mark", "cancel", "join", "read"}
        /\ act'[a].thread \in Msg /\ Registered(act'[a].thread)
    BY <1>1, <1>2, <1>3 DEF Finishing
  <2>6. Only(a) /\ UNCHANGED taken
    BY <1>1, <1>2, <1>3
  <2> QED BY <2>1, <2>2, <2>3, <2>4, <2>5, <2>6, Runs_Frame
<1>7. SessionIsHeld'
  BY <1>1, <1>2, <1>3, Keys_Facts DEF TInv, SessionIsHeld, OfSession, Listed
<1>8. TextsAreSpent'
  <2>1. \A x \in Msg : Spent(x) => Spent(x)'
    BY <1>1, <1>2, <1>3, Keys_Facts DEF Spent, Registered, Only, Alone
  <2> QED BY <2>1, <1>1, <1>2, <1>3, Keys_Facts DEF TInv, TextsAreSpent, Only, Alone
<1>9. SteersAreKept'
  BY <1>1, <1>2, <1>3, Keys_Facts DEF TInv, SteersAreKept, Kept, Open, Turning, Finishing, Only, Alone
<1>10. TextsAreOwn'
  BY <1>1, <1>2, <1>3, Keys_Facts DEF TInv, TextsAreOwn, Registered, Stored, Owning, Running, Finishing, Only, Alone
<1>11. RepliesAreOwn'
  <2>1. \A u \in Msg : thread'[u].keys = thread[u].keys
    BY <1>1, <1>2, <1>3 DEF Alone
  <2>2. \A j \in Msg, b \in Actor : <<"bot", j>> \in act'[b].keys /\ act'[b].at = "persist" => j = act'[b].thread
    BY <1>1, <1>2, <1>3 DEF TInv, RepliesAreOwn, Only
  <2> QED BY <1>1, <2>1, <2>2 DEF TInv, RepliesAreOwn
<1>12. FinishersStore'
  BY <1>1, <1>2, <1>3, Keys_Facts DEF TInv, FinishersStore, Stored, Finishing, Only, Alone
<1>13. KnownIsReached'
  <2>1. \A n \in known : act'[n].at # "idle" => act[n].at # "idle" /\ act'[n].base = act[n].base
    BY <1>1, <1>2, <1>3, Keys_Facts DEF TInv, Typed, Only
  <2>2. \A j \in Msg : Stored(<<"bot", j>>) => rows'[<<"bot", j>>] # <<>>
    BY <1>1, <1>2, <1>3, Keys_Facts DEF Stored
  <2> QED BY <1>1, <1>2, <1>3, <2>1, <2>2, Keys_Facts, Known_Frame
<1> QED BY <1>4, <1>5, <1>6, <1>7, <1>8, <1>9, <1>10, <1>11, <1>12, <1>13 DEF TInv

(* The thread is marked as finishing, and its keys are taken. *)
LEMMA Seizes_TInv ==
    ASSUME TInv, NEW a \in Actor, NEW t \in Msg, t = act[a].thread, act[a].at = "mark", thread[t].phase # "finishing",
           act' = [act EXCEPT ![a].at = "persist", ![a].keys = thread[t].keys],
           thread' = [thread EXCEPT ![t].phase = "finishing"],
           UNCHANGED <<inbox, outbox, hand, marked, active, storage, history>>
    PROVE  TInv'
<1>1. UNCHANGED <<arrived, target, hand, sent, log, marked, active, rows, faults, taken, known, unsaved, torn>>
  BY DEF inbox, outbox, storage, history
<1>2. /\ act[a].at = "mark" /\ act[a].at \in Owning /\ act[a].thread = t /\ Registered(t)
      /\ (a \in Msg => t = a) /\ thread[t].phase # "finishing"
  BY Finisher
<1>3. PICK keys \in SUBSET Key : keys = thread[t].keys
  BY Thread_Type DEF TInv
<1>4. /\ Only(a) /\ act' \in [Actor -> Activity]
      /\ act'[a].at = "persist"
      /\ act'[a].thread = act[a].thread
      /\ act'[a].base = act[a].base
      /\ act'[a].text = act[a].text
      /\ act'[a].keys = keys
      /\ act'[a].turns = act[a].turns
      /\ act'[a].how = act[a].how
      /\ act'[a].unwinding = act[a].unwinding
  <2> DEFINE new == [act[a] EXCEPT !.at = "persist", !.keys = keys]
  <2>1. act[a] \in Activity
    BY Act_Type, Keys_Facts DEF TInv
  <2>2. /\ new \in Activity
        /\ new.at = "persist"
        /\ new.thread = act[a].thread
        /\ new.base = act[a].base
        /\ new.text = act[a].text
        /\ new.keys = keys
        /\ new.turns = act[a].turns
        /\ new.how = act[a].how
        /\ new.unwinding = act[a].unwinding
    BY <2>1 DEF Activity, Stages, Unregistered, Running, Finishing
  <2>3. act' = [act EXCEPT ![a] = new]
    BY <1>3
  <2> HIDE DEF new
  <2> QED BY <2>2, <2>3, Put_Act, Keys_Facts DEF TInv

<1>5. /\ thread' \in [Msg -> Thread] /\ Alone(t) /\ thread'[t].phase = "finishing"
      /\ thread'[t].queue = thread[t].queue /\ thread'[t].current = thread[t].current
      /\ thread'[t].done = thread[t].done /\ thread'[t].keys = thread[t].keys
  <2> DEFINE new == [thread[t] EXCEPT !.phase = "finishing"]
  <2>1. thread[t] \in Thread
    BY Thread_Type DEF TInv
  <2>2. /\ new \in Thread /\ new.phase = "finishing" /\ new.queue = thread[t].queue
        /\ new.current = thread[t].current /\ new.done = thread[t].done /\ new.keys = thread[t].keys
    BY <2>1 DEF Thread, Phases
  <2>3. thread' = [thread EXCEPT ![t] = new]
    OBVIOUS
  <2> HIDE DEF new
  <2> QED BY <2>2, <2>3, Put_Thread DEF TInv
<1>6. Typed'
  BY <1>1, <1>2, <1>3, <1>4, <1>5, Keys_Facts DEF Typed, TInv
<1>7. Dispatched'
  <2>1. \A u \in Msg : Registered(u) => thread'[u].phase # "none"
    BY <1>1, <1>2, <1>3, <1>4, <1>5 DEF Registered, Alone
  <2>2. UNCHANGED <<hand, arrived, target, taken>> /\ Only(a) /\ act[a].at # "idle" /\ act'[a].at # "base"
    BY <1>1, <1>2, <1>3, <1>4, <1>5
  <2> QED BY <2>1, <2>2, Dispatched_Frame
<1>8. RunsAreRegistered'
  <2>1. \A u \in Msg : Registered(u) <=> thread'[u].phase # "none"
    BY <1>1, <1>2, <1>3, <1>4, <1>5 DEF Registered, Alone
  <2>2. \A u \in Msg : ~Registered(u) => thread'[u] = NoThread
    BY <1>1, <1>2, <1>3, <1>4, <1>5 DEF TInv, RunsAreRegistered, Alone, Registered
  <2>3. \A q \in ActiveKey : active'[q] # None => active'[q] \in Msg /\ Registered(active'[q])
    BY <1>1, <1>2, <1>3, <1>4, <1>5 DEF TInv, RunsAreRegistered, Typed
  <2>4. a \in Msg =>
          /\ act[a].at # "idle" /\ act'[a].at \notin {"idle", "cancel", "join", "read"}
          /\ act'[a].at \notin Unregistered /\ act'[a].thread = a /\ act[a].at \in Owning
          /\ act'[a].at # "resteer" /\ act[a].at # "over"
    BY <1>1, <1>2, <1>3, <1>4, <1>5 DEF Unregistered
  <2>5. /\ act'[a].at \in Finishing \cup {"over", "mark", "cancel", "join", "read"}
        /\ act'[a].thread \in Msg /\ Registered(act'[a].thread)
    BY <1>1, <1>2, <1>3, <1>4, <1>5 DEF Finishing
  <2>6. Only(a) /\ UNCHANGED taken
    BY <1>1, <1>2, <1>3, <1>4, <1>5
  <2> QED BY <2>1, <2>2, <2>3, <2>4, <2>5, <2>6, Runs_Frame
<1>9. SessionIsHeld'
  BY <1>1, <1>2, <1>3, <1>4, <1>5, Keys_Facts DEF TInv, SessionIsHeld, OfSession, Listed
<1>10. TextsAreSpent'
  <2>1. \A x \in Msg : Spent(x) => Spent(x)'
    BY <1>1, <1>2, <1>3, <1>4, <1>5, Keys_Facts DEF Spent, Registered, Only, Alone
  <2> QED BY <2>1, <1>1, <1>2, <1>3, <1>4, <1>5, Keys_Facts DEF TInv, TextsAreSpent, Only, Alone
<1>11. SteersAreKept'
  BY <1>1, <1>2, <1>3, <1>4, <1>5, Keys_Facts DEF TInv, SteersAreKept, Kept, Open, Turning, Finishing, Only, Alone
<1>12. TextsAreOwn'
  BY <1>1, <1>2, <1>3, <1>4, <1>5, Keys_Facts DEF TInv, TextsAreOwn, Registered, Stored, Owning, Running, Finishing, Only, Alone
<1>13. RepliesAreOwn'
  <2>1. \A u \in Msg : thread'[u].keys = thread[u].keys
    BY <1>1, <1>2, <1>3, <1>4, <1>5 DEF Alone
  <2>2. \A j \in Msg, b \in Actor : <<"bot", j>> \in act'[b].keys /\ act'[b].at = "persist" => j = act'[b].thread
    <3>1. \A j \in Msg : <<"bot", j>> \in act'[a].keys => j = t
      BY <1>3, <1>4 DEF TInv, RepliesAreOwn
    <3>2. act'[a].thread = t
      BY <1>2, <1>4
    <3>3. \A j \in Msg, b \in Actor :
            b # a /\ <<"bot", j>> \in act'[b].keys /\ act'[b].at = "persist" => j = act'[b].thread
      BY <1>4 DEF TInv, RepliesAreOwn, Only
    <3> QED BY <3>1, <3>2, <3>3
  <2> QED BY <1>1, <2>1, <2>2 DEF TInv, RepliesAreOwn
<1>14. FinishersStore'
  <2>1. ASSUME NEW b \in Actor, b # a, act'[b].at \in Finishing
        PROVE  /\ act'[b] = act[b] /\ act[b].thread \in Msg
               /\ thread[act[b].thread].phase = "finishing" /\ thread'[act[b].thread] = thread[act[b].thread]
    <3>1. act'[b] = act[b]
      BY <1>4, <2>1 DEF Only
    <3>2. act[b].thread \in Msg /\ thread[act[b].thread].phase = "finishing"
      BY <2>1, <3>1, Owner_Thread DEF Owning, TInv, FinishersStore
    <3>3. act[b].thread # t
      BY <1>2, <3>2
    <3> QED BY <1>5, <3>1, <3>2, <3>3 DEF Alone
  <2>2. \A b \in Actor : act'[b].at \in Finishing => thread'[act'[b].thread].phase = "finishing"
    BY <1>2, <1>4, <1>5, <2>1
  <2>3. ASSUME NEW b \in Actor, act'[b].at = "persist" PROVE act'[b].keys = thread'[act'[b].thread].keys
    <3>1. CASE b = a
      BY <1>2, <1>3, <1>4, <1>5, <3>1
    <3>2. CASE b # a
      <4>1. act'[b] = act[b] /\ thread'[act[b].thread] = thread[act[b].thread]
        BY <2>1, <2>3, <3>2 DEF Finishing
      <4> QED BY <2>3, <4>1 DEF TInv, FinishersStore
    <3> QED BY <3>1, <3>2
  <2>4. ASSUME NEW b \in Actor, act'[b].at \in {"done", "remove"}
        PROVE  act'[b].thread \in unsaved \/ \A q \in thread'[act'[b].thread].keys : Stored(q)
    <3>1. b # a
      BY <1>4, <2>4
    <3>2. act'[b] = act[b] /\ thread'[act[b].thread] = thread[act[b].thread]
      BY <2>1, <2>4, <3>1 DEF Finishing
    <3> QED BY <2>4, <3>2 DEF TInv, FinishersStore
  <2> QED BY <1>1, <2>2, <2>3, <2>4 DEF FinishersStore, Stored
<1>15. KnownIsReached'
  <2>1. \A n \in known : act'[n].at # "idle" => act[n].at # "idle" /\ act'[n].base = act[n].base
    BY <1>1, <1>2, <1>3, <1>4, <1>5, Keys_Facts DEF TInv, Typed, Only
  <2>2. \A j \in Msg : Stored(<<"bot", j>>) => rows'[<<"bot", j>>] # <<>>
    BY <1>1, <1>2, <1>3, <1>4, <1>5, Keys_Facts DEF Stored
  <2> QED BY <1>1, <1>2, <1>3, <1>4, <1>5, <2>1, <2>2, Keys_Facts, Known_Frame
<1> QED BY <1>6, <1>7, <1>8, <1>9, <1>10, <1>11, <1>12, <1>13, <1>14, <1>15 DEF TInv

(* finishActiveThread: the first to get here finishes the thread. *)
LEMMA Mark_TInv ==
    ASSUME TInv, NEW a \in Actor, Mark(a)
    PROVE  TInv'
<1>1. act[a].at = "mark" /\ UNCHANGED <<inbox, outbox, hand, marked, active, storage, history>>
  BY DEF Mark
<1>2. PICK t \in Msg : t = act[a].thread
  BY <1>1, Finisher
<1>3. CASE thread[t].phase = "finishing"
  <2>1. Go(a, "over") /\ UNCHANGED thread
    BY <1>2, <1>3 DEF Mark
  <2> QED BY <1>1, <2>1, Ends_TInv
<1>4. CASE thread[t].phase # "finishing"
  <2>1. /\ act' = [act EXCEPT ![a].at = "persist", ![a].keys = thread[t].keys]
        /\ thread' = [thread EXCEPT ![t].phase = "finishing"]
    BY <1>2, <1>4 DEF Mark
  <2> QED BY <1>1, <1>2, <1>4, <2>1, Seizes_TInv
<1> QED BY <1>3, <1>4

(* The transcript is stored under every key, or is known as unsaved. *)
LEMMA Persisted_TInv ==
    ASSUME TInv, NEW a \in Actor, NEW t \in Msg, t = act[a].thread, act[a].at = "persist",
           NEW text \in Seq(Msg), text = act[a].text,
           Only(a), act' \in [Actor -> Activity], act'[a].at \in {"done", "mark", "over"},
           act'[a].thread = act[a].thread, act'[a].base = act[a].base,
           act'[a].text = act[a].text, act'[a].how = act[a].how,
           thread' = [thread EXCEPT ![t].current = text],
           \/ rows' = rows
           \/ rows' = [q \in Key |-> IF q \in act[a].keys THEN text ELSE rows[q]],
           \/ t \in unsaved' \/ act'[a].at # "done"
           \/ rows' = [q \in Key |-> IF q \in act[a].keys THEN text ELSE rows[q]],
           unsaved \subseteq unsaved', unsaved' \subseteq Msg, torn' \subseteq Msg, faults' \in 0 .. MaxFault,
           UNCHANGED <<inbox, outbox, hand, marked, active, taken, known>>
    PROVE  TInv'
<1>1. /\ UNCHANGED <<arrived, target, hand, sent, log, marked, active, taken, known>>
      /\ unsaved \subseteq unsaved' /\ unsaved' \subseteq Msg /\ torn' \subseteq Msg /\ faults' \in 0 .. MaxFault
  BY DEF inbox, outbox
<1>2. /\ act[a].at = "persist" /\ act[a].at \in Owning /\ act[a].thread = t /\ Registered(t)
      /\ (a \in Msg => t = a) /\ Has(text, t) /\ text # <<>> /\ act[a].keys \subseteq Key
      /\ \A x \in Msg : Has(text, x) => Spent(x)
  BY Finisher
<1>3. /\ rows' \in [Key -> Seq(Msg)]
      /\ \A q \in Key : rows'[q] = rows[q] \/ (q \in act[a].keys /\ rows'[q] = text)
      /\ t \in unsaved' \/ act'[a].at # "done" \/ \A q \in act[a].keys : rows'[q] # <<>>
  <2>1. rows \in [Key -> Seq(Msg)]
    BY DEF TInv, Typed
  <2>2. CASE rows' = [q \in Key |-> IF q \in act[a].keys THEN text ELSE rows[q]]
    BY <1>2, <2>1, <2>2
  <2>3. CASE rows' = rows /\ (t \in unsaved' \/ act'[a].at # "done")
    BY <2>1, <2>3
  <2> QED BY <2>2, <2>3
<1>4. /\ Only(a) /\ act' \in [Actor -> Activity] /\ act'[a].at \in {"done", "mark", "over"}
      /\ act'[a].thread = act[a].thread /\ act'[a].base = act[a].base
      /\ act'[a].text = act[a].text /\ act'[a].how = act[a].how
  OBVIOUS
<1>5. /\ thread' \in [Msg -> Thread] /\ Alone(t)
      /\ thread'[t].phase = thread[t].phase /\ thread'[t].queue = thread[t].queue
      /\ thread'[t].current = text /\ thread'[t].done = thread[t].done /\ thread'[t].keys = thread[t].keys
  <2> DEFINE new == [thread[t] EXCEPT !.current = text]
  <2>1. thread[t] \in Thread
    BY Thread_Type DEF TInv
  <2>2. /\ new \in Thread /\ new.phase = thread[t].phase /\ new.queue = thread[t].queue
        /\ new.current = text /\ new.done = thread[t].done /\ new.keys = thread[t].keys
    BY <2>1 DEF Thread
  <2>3. thread' = [thread EXCEPT ![t] = new]
    OBVIOUS
  <2> HIDE DEF new
  <2> QED BY <2>2, <2>3, Put_Thread DEF TInv

<1>6. \A q \in Key : Stored(q) => rows'[q] # <<>>
  BY <1>2, <1>3 DEF Stored
<1>7. act[a].keys = thread[t].keys /\ thread[t].phase = "finishing"
  BY <1>2 DEF TInv, FinishersStore, Finishing
<1>8. Typed'
  BY <1>1, <1>2, <1>3, <1>4, <1>5, <1>6, <1>7, Keys_Facts DEF Typed, TInv
<1>9. Dispatched'
  <2>1. \A u \in Msg : Registered(u) => thread'[u].phase # "none"
    BY <1>1, <1>2, <1>3, <1>4, <1>5, <1>6, <1>7 DEF Registered, Alone
  <2>2. UNCHANGED <<hand, arrived, target, taken>> /\ Only(a) /\ act[a].at # "idle" /\ act'[a].at # "base"
    BY <1>1, <1>2, <1>3, <1>4, <1>5, <1>6, <1>7
  <2> QED BY <2>1, <2>2, Dispatched_Frame
<1>10. RunsAreRegistered'
  <2>1. \A u \in Msg : Registered(u) <=> thread'[u].phase # "none"
    BY <1>1, <1>2, <1>3, <1>4, <1>5, <1>6, <1>7 DEF Registered, Alone
  <2>2. \A u \in Msg : ~Registered(u) => thread'[u] = NoThread
    BY <1>1, <1>2, <1>3, <1>4, <1>5, <1>6, <1>7 DEF TInv, RunsAreRegistered, Alone, Registered
  <2>3. \A q \in ActiveKey : active'[q] # None => active'[q] \in Msg /\ Registered(active'[q])
    BY <1>1, <1>2, <1>3, <1>4, <1>5, <1>6, <1>7 DEF TInv, RunsAreRegistered, Typed
  <2>4. a \in Msg =>
          /\ act[a].at # "idle" /\ act'[a].at \notin {"idle", "cancel", "join", "read"}
          /\ act'[a].at \notin Unregistered /\ act'[a].thread = a /\ act[a].at \in Owning
          /\ act'[a].at # "resteer" /\ act[a].at # "over"
    BY <1>1, <1>2, <1>3, <1>4, <1>5, <1>6, <1>7 DEF Unregistered
  <2>5. /\ act'[a].at \in Finishing \cup {"over", "mark", "cancel", "join", "read"}
        /\ act'[a].thread \in Msg /\ Registered(act'[a].thread)
    BY <1>1, <1>2, <1>3, <1>4, <1>5, <1>6, <1>7 DEF Finishing
  <2>6. Only(a) /\ UNCHANGED taken
    BY <1>1, <1>2, <1>3, <1>4, <1>5, <1>6, <1>7
  <2> QED BY <2>1, <2>2, <2>3, <2>4, <2>5, <2>6, Runs_Frame
<1>11. SessionIsHeld'
  BY <1>1, <1>2, <1>3, <1>4, <1>5, <1>6, <1>7, Keys_Facts DEF TInv, SessionIsHeld, OfSession, Listed
<1>12. TextsAreSpent'
  <2>1. \A x \in Msg : Spent(x) => Spent(x)'
    BY <1>1, <1>5 DEF Spent, Registered, Alone
  <2>2. \A b \in Actor : act'[b].text = act[b].text /\ act'[b].base = act[b].base
    BY <1>4 DEF Only
  <2>3. \A b \in Actor, x \in Msg : Has(act'[b].text, x) \/ Has(act'[b].base, x) => Spent(x)'
    BY <2>1, <2>2 DEF TInv, TextsAreSpent
  <2>4. \A u \in Msg, x \in Msg :
          Has(thread'[u].queue, x) \/ Has(thread'[u].current, x) \/ Has(thread'[u].done, x) => Spent(x)'
    <3>1. \A x \in Msg : Has(thread'[t].queue, x) \/ Has(thread'[t].current, x) \/ Has(thread'[t].done, x) => Spent(x)
      BY <1>2, <1>5 DEF TInv, TextsAreSpent
    <3>2. \A u \in Msg, x \in Msg : u # t /\
            (Has(thread'[u].queue, x) \/ Has(thread'[u].current, x) \/ Has(thread'[u].done, x)) => Spent(x)
      BY <1>5 DEF TInv, TextsAreSpent, Alone
    <3> QED BY <2>1, <3>1, <3>2
  <2>5. \A q \in Key, x \in Msg : Has(rows'[q], x) => Spent(x)'
    <3>1. \A q \in Key, x \in Msg : Has(rows'[q], x) => Spent(x)
      BY <1>1, <1>2, <1>3 DEF TInv, TextsAreSpent
    <3> QED BY <2>1, <3>1
  <2> QED BY <2>3, <2>4, <2>5 DEF TextsAreSpent
<1>13. SteersAreKept'
  <2>1. \A u \in Msg : thread'[u].phase = thread[u].phase /\ thread'[u].queue = thread[u].queue
    BY <1>5 DEF Alone
  <2>2. \A u \in Msg : act'[u].text = act[u].text /\ act'[u].how = act[u].how
    BY <1>4, Keys_Facts DEF Only
  <2>3. \A u \in Msg : act'[u].at \in Turning => act[u].at \in Turning
    BY <1>4, Keys_Facts DEF Only, Turning
  <2>4. \A u \in Msg : act[u].at \in Finishing \cup {"commit", "mark", "over"} =>
                       act'[u].at \in Finishing \cup {"commit", "mark", "over"}
    BY <1>4, Keys_Facts DEF Only, Finishing
  <2>5. ASSUME NEW u \in Msg, act'[u].how = "answered"
        PROVE  /\ act'[u].at \in Finishing \cup {"commit", "mark", "over"}
               /\ thread'[u].phase \in {"completed", "finishing"}
    BY <2>1, <2>2, <2>4, <2>5 DEF TInv, SteersAreKept
  <2>6. ASSUME NEW u \in Msg, NEW x \in Msg, taken'[x] = u
        PROVE  /\ act'[u].at \in Turning /\ thread'[u].phase = "open" =>
                    \/ Once(act'[u].text, x) /\ ~Has(thread'[u].queue, x)
                    \/ ~Has(act'[u].text, x) /\ Once(thread'[u].queue, x)
               /\ act'[u].how = "answered" => Once(act'[u].text, x)
    BY <1>1, <2>1, <2>2, <2>3, <2>6 DEF TInv, SteersAreKept, Open, Kept
  <2> QED BY <2>5, <2>6 DEF SteersAreKept, Open, Kept
<1>14. TextsAreOwn'
  <2>1. \A u \in Msg : Registered(u)' => Has(thread'[u].current, u)
    BY <1>2, <1>5 DEF TInv, TextsAreOwn, Registered, Alone
  <2>2. \A u \in Msg : thread'[u].done # <<>> => Has(thread'[u].done, u)
    BY <1>5 DEF TInv, TextsAreOwn, Alone
  <2>3. \A b \in Actor : act'[b].at \in Owning => Has(act'[b].text, act'[b].thread)
    BY <1>2, <1>4 DEF TInv, TextsAreOwn, Only
  <2>4. ASSUME NEW j \in Msg, rows'[<<"bot", j>>] # <<>> PROVE Has(rows'[<<"bot", j>>], j)
    <3>1. CASE <<"bot", j>> \in act[a].keys /\ rows'[<<"bot", j>>] = text
      <4>1. j = t
        BY <1>2, <3>1 DEF TInv, RepliesAreOwn
      <4> QED BY <1>2, <3>1, <4>1
    <3>2. CASE rows'[<<"bot", j>>] = rows[<<"bot", j>>]
      BY <2>4, <3>2 DEF TInv, TextsAreOwn, Stored
    <3> QED BY <1>3, <3>1, <3>2, Keys_Facts
  <2> QED BY <2>1, <2>2, <2>3, <2>4 DEF TextsAreOwn, Stored
<1>15. RepliesAreOwn'
  <2>1. \A u \in Msg : thread'[u].keys = thread[u].keys
    BY <1>1, <1>2, <1>3, <1>4, <1>5, <1>6, <1>7 DEF Alone
  <2>2. \A j \in Msg, b \in Actor : <<"bot", j>> \in act'[b].keys /\ act'[b].at = "persist" => j = act'[b].thread
    BY <1>1, <1>2, <1>3, <1>4, <1>5, <1>6, <1>7 DEF TInv, RepliesAreOwn, Only
  <2> QED BY <1>1, <2>1, <2>2 DEF TInv, RepliesAreOwn
<1>16. FinishersStore'
  <2>1. \A u \in Msg : thread'[u].phase = thread[u].phase /\ thread'[u].keys = thread[u].keys
    BY <1>5 DEF Alone
  <2>2. ASSUME NEW b \in Actor, b # a, act'[b].at \in Finishing
        PROVE  /\ act'[b] = act[b] /\ act[b].thread \in Msg
    BY <1>4, <2>2, Owner_Thread DEF Owning, Only
  <2>3. ASSUME NEW b \in Actor, act'[b].at \in Finishing PROVE thread'[act'[b].thread].phase = "finishing"
    <3>1. CASE b = a
      BY <1>2, <1>4, <1>7, <2>1, <3>1
    <3>2. CASE b # a
      BY <2>1, <2>2, <2>3, <3>2 DEF TInv, FinishersStore
    <3> QED BY <3>1, <3>2
  <2>4. ASSUME NEW b \in Actor, act'[b].at = "persist" PROVE act'[b].keys = thread'[act'[b].thread].keys
    <3>1. b # a
      BY <1>4, <2>4
    <3>2. act'[b] = act[b] /\ act[b].thread \in Msg
      BY <2>2, <2>4, <3>1 DEF Finishing
    <3> QED BY <2>1, <2>4, <3>2 DEF TInv, FinishersStore
  <2>5. ASSUME NEW b \in Actor, act'[b].at \in {"done", "remove"}
        PROVE  act'[b].thread \in unsaved' \/ \A q \in thread'[act'[b].thread].keys : rows'[q] # <<>>
    <3>1. CASE b = a
      BY <1>2, <1>3, <1>4, <1>7, <2>1, <2>5, <3>1
    <3>2. CASE b # a
      <4>1. act'[b] = act[b] /\ act[b].thread \in Msg
        BY <2>2, <2>5, <3>2 DEF Finishing
      <4>2. act[b].thread \in unsaved \/ \A q \in thread[act[b].thread].keys : Stored(q)
        BY <2>5, <4>1 DEF TInv, FinishersStore
      <4>3. thread[act[b].thread].keys \subseteq Key
        BY <4>1, Thread_Type DEF TInv
      <4> QED BY <1>1, <1>6, <2>1, <4>1, <4>2, <4>3
    <3> QED BY <3>1, <3>2
  <2> QED BY <2>3, <2>4, <2>5 DEF FinishersStore, Stored
<1>17. KnownIsReached'
  <2>1. \A n \in known : act'[n].at # "idle" => act[n].at # "idle" /\ act'[n].base = act[n].base
    BY <1>1, <1>2, <1>3, <1>4, <1>5, <1>6, <1>7, Keys_Facts DEF TInv, Typed, Only
  <2>2. \A j \in Msg : Stored(<<"bot", j>>) => rows'[<<"bot", j>>] # <<>>
    BY <1>1, <1>2, <1>3, <1>4, <1>5, <1>6, <1>7, Keys_Facts DEF Stored
  <2> QED BY <1>1, <1>2, <1>3, <1>4, <1>5, <1>6, <1>7, <2>1, <2>2, Keys_Facts, Known_Frame
<1> QED BY <1>8, <1>9, <1>10, <1>11, <1>12, <1>13, <1>14, <1>15, <1>16, <1>17 DEF TInv

(* The transcript is stored, or could not be. *)
LEMMA Persist_TInv ==
    ASSUME TInv, NEW a \in Actor, Persist(a)
    PROVE  TInv'
<1>1. act[a].at = "persist" /\ UNCHANGED <<inbox, outbox, hand, marked, active, taken, known>>
  BY DEF Persist
<1>2. PICK t \in Msg : t = act[a].thread
  BY <1>1, Finisher
<1>3. PICK text \in Seq(Msg) : text = act[a].text
  BY <1>1, Finisher
<1>4. thread' = [thread EXCEPT ![t].current = text]
  BY <1>2, <1>3 DEF Persist
<1>5. faults \in 0 .. MaxFault /\ unsaved \subseteq Msg /\ torn \subseteq Msg
  BY DEF TInv, Typed
<1>6. Fault => faults' \in 0 .. MaxFault
  BY <1>5, ConstantsAssumption DEF Fault
<1>7. ASSUME NEW s \in {"done", "over"}, Go(a, s)
      PROVE  /\ Only(a) /\ act' \in [Actor -> Activity] /\ act'[a].at = s
             /\ act'[a].thread = act[a].thread /\ act'[a].base = act[a].base
             /\ act'[a].text = act[a].text /\ act'[a].how = act[a].how
  <2> DEFINE new == [act[a] EXCEPT !.at = s]
  <2>1. act[a] \in Activity
    BY Act_Type, Keys_Facts DEF TInv
  <2>2. /\ new \in Activity
        /\ new.at = s
        /\ new.thread = act[a].thread
        /\ new.base = act[a].base
        /\ new.text = act[a].text
        /\ new.keys = act[a].keys
        /\ new.turns = act[a].turns
        /\ new.how = act[a].how
        /\ new.unwinding = act[a].unwinding
    BY <2>1 DEF Activity, Stages, Unregistered, Running, Finishing
  <2>3. act' = [act EXCEPT ![a] = new]
    BY <1>7 DEF Go
  <2> HIDE DEF new
  <2> QED BY <2>2, <2>3, Put_Act, Keys_Facts DEF TInv

<1>8. ASSUME Thrown(a)
      PROVE  /\ Only(a) /\ act' \in [Actor -> Activity] /\ act'[a].at \in {"mark", "over"}
             /\ act'[a].thread = act[a].thread /\ act'[a].base = act[a].base
             /\ act'[a].text = act[a].text /\ act'[a].how = act[a].how
  <2>1. CASE Go(a, "over")
    BY <1>7, <2>1
  <2>2. CASE act' = [act EXCEPT ![a].at = "mark", ![a].unwinding = TRUE]
    <3> DEFINE new == [act[a] EXCEPT !.at = "mark", !.unwinding = TRUE]
    <3>1. act[a] \in Activity
      BY Act_Type, Keys_Facts DEF TInv
    <3>2. /\ new \in Activity
          /\ new.at = "mark"
          /\ new.thread = act[a].thread
          /\ new.base = act[a].base
          /\ new.text = act[a].text
          /\ new.keys = act[a].keys
          /\ new.turns = act[a].turns
          /\ new.how = act[a].how
          /\ new.unwinding = TRUE
      BY <3>1 DEF Activity, Stages, Unregistered, Running, Finishing
    <3>3. act' = [act EXCEPT ![a] = new]
      BY <2>2
    <3> HIDE DEF new
    <3> QED BY <3>2, <3>3, Put_Act, Keys_Facts DEF TInv
  <2> QED BY <1>8, <2>1, <2>2 DEF Thrown
<1>9. CASE /\ Go(a, "done") /\ UNCHANGED <<unsaved, torn, faults>>
           /\ rows' = [q \in Key |-> IF q \in act[a].keys THEN text ELSE rows[q]]
  BY <1>1, <1>2, <1>3, <1>4, <1>5, <1>7, <1>9, Persisted_TInv
<1>10. CASE Fault /\ UNCHANGED rows /\ Go(a, "done") /\ unsaved' = unsaved \cup {t} /\ UNCHANGED torn
  <2>1. t \in unsaved' /\ unsaved \subseteq unsaved' /\ unsaved' \subseteq Msg /\ torn' \subseteq Msg
    BY <1>5, <1>10
  <2> QED BY <1>1, <1>2, <1>3, <1>4, <1>6, <1>7, <1>10, <2>1, Persisted_TInv
<1>11. CASE Fault /\ UNCHANGED rows /\ Thrown(a) /\ torn' = torn \cup {t} /\ UNCHANGED unsaved
  <2>1. unsaved \subseteq unsaved' /\ unsaved' \subseteq Msg /\ torn' \subseteq Msg
    BY <1>5, <1>11
  <2>2. act'[a].at # "done" /\ act'[a].at \in {"done", "mark", "over"}
    BY <1>8, <1>11
  <2> QED BY <1>1, <1>2, <1>3, <1>4, <1>6, <1>8, <1>11, <2>1, <2>2, Persisted_TInv
<1> QED BY <1>2, <1>3, <1>9, <1>10, <1>11 DEF Persist

(* The first transcript that is left stays. *)
LEMMA PutsDone_TInv ==
    ASSUME TInv, NEW a \in Actor, NEW t \in Msg, t = act[a].thread, act[a].at = "done", Go(a, "remove"),
           NEW text \in Seq(Msg), text = IF thread[t].done = <<>> THEN act[a].text ELSE thread[t].done,
           thread' = [thread EXCEPT ![t].done = text],
           UNCHANGED <<inbox, outbox, hand, marked, active, storage, history>>
    PROVE  TInv'
<1>1. UNCHANGED <<arrived, target, hand, sent, log, marked, active, rows, faults, taken, known, unsaved, torn>>
  BY DEF inbox, outbox, storage, history
<1>2. /\ act[a].at = "done" /\ act[a].at \in Owning /\ act[a].thread = t /\ Registered(t)
      /\ (a \in Msg => t = a) /\ Has(text, t)
      /\ \A x \in Msg : Has(text, x) => Spent(x)
  BY Finisher DEF TInv, TextsAreOwn, TextsAreSpent
<1>3. UNCHANGED rows
  BY <1>1
<1>4. /\ Only(a) /\ act' \in [Actor -> Activity]
      /\ act'[a].at = "remove"
      /\ act'[a].thread = act[a].thread
      /\ act'[a].base = act[a].base
      /\ act'[a].text = act[a].text
      /\ act'[a].keys = act[a].keys
      /\ act'[a].turns = act[a].turns
      /\ act'[a].how = act[a].how
      /\ act'[a].unwinding = act[a].unwinding
  <2> DEFINE new == [act[a] EXCEPT !.at = "remove"]
  <2>1. act[a] \in Activity
    BY Act_Type, Keys_Facts DEF TInv
  <2>2. /\ new \in Activity
        /\ new.at = "remove"
        /\ new.thread = act[a].thread
        /\ new.base = act[a].base
        /\ new.text = act[a].text
        /\ new.keys = act[a].keys
        /\ new.turns = act[a].turns
        /\ new.how = act[a].how
        /\ new.unwinding = act[a].unwinding
    BY <2>1 DEF Activity, Stages, Unregistered, Running, Finishing
  <2>3. act' = [act EXCEPT ![a] = new]
    BY DEF Go
  <2> HIDE DEF new
  <2> QED BY <2>2, <2>3, Put_Act, Keys_Facts DEF TInv
<1>5. /\ thread' \in [Msg -> Thread] /\ Alone(t)
      /\ thread'[t].phase = thread[t].phase /\ thread'[t].queue = thread[t].queue
      /\ thread'[t].current = thread[t].current /\ thread'[t].done = text /\ thread'[t].keys = thread[t].keys
  <2> DEFINE new == [thread[t] EXCEPT !.done = text]
  <2>1. thread[t] \in Thread
    BY Thread_Type DEF TInv
  <2>2. /\ new \in Thread /\ new.phase = thread[t].phase /\ new.queue = thread[t].queue
        /\ new.current = thread[t].current /\ new.done = text /\ new.keys = thread[t].keys
    BY <2>1 DEF Thread
  <2>3. thread' = [thread EXCEPT ![t] = new]
    OBVIOUS
  <2> HIDE DEF new
  <2> QED BY <2>2, <2>3, Put_Thread DEF TInv
<1>6. Typed'
  BY <1>1, <1>2, <1>3, <1>4, <1>5, Keys_Facts DEF Typed, TInv
<1>7. Dispatched'
  <2>1. \A u \in Msg : Registered(u) => thread'[u].phase # "none"
    BY <1>1, <1>2, <1>3, <1>4, <1>5 DEF Registered, Alone
  <2>2. UNCHANGED <<hand, arrived, target, taken>> /\ Only(a) /\ act[a].at # "idle" /\ act'[a].at # "base"
    BY <1>1, <1>2, <1>3, <1>4, <1>5
  <2> QED BY <2>1, <2>2, Dispatched_Frame
<1>8. RunsAreRegistered'
  <2>1. \A u \in Msg : Registered(u) <=> thread'[u].phase # "none"
    BY <1>1, <1>2, <1>3, <1>4, <1>5 DEF Registered, Alone
  <2>2. \A u \in Msg : ~Registered(u) => thread'[u] = NoThread
    BY <1>1, <1>2, <1>3, <1>4, <1>5 DEF TInv, RunsAreRegistered, Alone, Registered
  <2>3. \A q \in ActiveKey : active'[q] # None => active'[q] \in Msg /\ Registered(active'[q])
    BY <1>1, <1>2, <1>3, <1>4, <1>5 DEF TInv, RunsAreRegistered, Typed
  <2>4. a \in Msg =>
          /\ act[a].at # "idle" /\ act'[a].at \notin {"idle", "cancel", "join", "read"}
          /\ act'[a].at \notin Unregistered /\ act'[a].thread = a /\ act[a].at \in Owning
          /\ act'[a].at # "resteer" /\ act[a].at # "over"
    BY <1>1, <1>2, <1>3, <1>4, <1>5 DEF Unregistered
  <2>5. /\ act'[a].at \in Finishing \cup {"over", "mark", "cancel", "join", "read"}
        /\ act'[a].thread \in Msg /\ Registered(act'[a].thread)
    BY <1>1, <1>2, <1>3, <1>4, <1>5 DEF Finishing
  <2>6. Only(a) /\ UNCHANGED taken
    BY <1>1, <1>2, <1>3, <1>4, <1>5
  <2> QED BY <2>1, <2>2, <2>3, <2>4, <2>5, <2>6, Runs_Frame
<1>9. SessionIsHeld'
  BY <1>1, <1>2, <1>3, <1>4, <1>5, Keys_Facts DEF TInv, SessionIsHeld, OfSession, Listed
<1>10. TextsAreSpent'
  <2>1. \A x \in Msg : Spent(x) => Spent(x)'
    BY <1>1, <1>5 DEF Spent, Registered, Alone
  <2>2. \A b \in Actor : act'[b].text = act[b].text /\ act'[b].base = act[b].base
    BY <1>4 DEF Only
  <2>3. \A b \in Actor, x \in Msg : Has(act'[b].text, x) \/ Has(act'[b].base, x) => Spent(x)'
    BY <2>1, <2>2 DEF TInv, TextsAreSpent
  <2>4. \A u \in Msg, x \in Msg :
          Has(thread'[u].queue, x) \/ Has(thread'[u].current, x) \/ Has(thread'[u].done, x) => Spent(x)'
    <3>1. \A x \in Msg : Has(thread'[t].queue, x) \/ Has(thread'[t].current, x) \/ Has(thread'[t].done, x) => Spent(x)
      BY <1>2, <1>5 DEF TInv, TextsAreSpent
    <3>2. \A u \in Msg, x \in Msg : u # t /\
            (Has(thread'[u].queue, x) \/ Has(thread'[u].current, x) \/ Has(thread'[u].done, x)) => Spent(x)
      BY <1>5 DEF TInv, TextsAreSpent, Alone
    <3> QED BY <2>1, <3>1, <3>2
  <2>5. \A q \in Key, x \in Msg : Has(rows'[q], x) => Spent(x)'
    <3>1. \A q \in Key, x \in Msg : Has(rows'[q], x) => Spent(x)
      BY <1>1, <1>2, <1>3 DEF TInv, TextsAreSpent
    <3> QED BY <2>1, <3>1
  <2> QED BY <2>3, <2>4, <2>5 DEF TextsAreSpent
<1>11. SteersAreKept'
  <2>1. \A u \in Msg : thread'[u].phase = thread[u].phase /\ thread'[u].queue = thread[u].queue
    BY <1>5 DEF Alone
  <2>2. \A u \in Msg : act'[u].text = act[u].text /\ act'[u].how = act[u].how
    BY <1>4, Keys_Facts DEF Only
  <2>3. \A u \in Msg : act'[u].at \in Turning => act[u].at \in Turning
    BY <1>4, Keys_Facts DEF Only, Turning
  <2>4. \A u \in Msg : act[u].at \in Finishing \cup {"commit", "mark", "over"} =>
                       act'[u].at \in Finishing \cup {"commit", "mark", "over"}
    BY <1>4, Keys_Facts DEF Only, Finishing
  <2>5. ASSUME NEW u \in Msg, act'[u].how = "answered"
        PROVE  /\ act'[u].at \in Finishing \cup {"commit", "mark", "over"}
               /\ thread'[u].phase \in {"completed", "finishing"}
    BY <2>1, <2>2, <2>4, <2>5 DEF TInv, SteersAreKept
  <2>6. ASSUME NEW u \in Msg, NEW x \in Msg, taken'[x] = u
        PROVE  /\ act'[u].at \in Turning /\ thread'[u].phase = "open" =>
                    \/ Once(act'[u].text, x) /\ ~Has(thread'[u].queue, x)
                    \/ ~Has(act'[u].text, x) /\ Once(thread'[u].queue, x)
               /\ act'[u].how = "answered" => Once(act'[u].text, x)
    BY <1>1, <2>1, <2>2, <2>3, <2>6 DEF TInv, SteersAreKept, Open, Kept
  <2> QED BY <2>5, <2>6 DEF SteersAreKept, Open, Kept
<1>12. TextsAreOwn'
  <2>1. \A u \in Msg : Registered(u)' => Has(thread'[u].current, u)
    BY <1>5 DEF TInv, TextsAreOwn, Registered, Alone
  <2>2. \A u \in Msg : thread'[u].done # <<>> => Has(thread'[u].done, u)
    BY <1>2, <1>5 DEF TInv, TextsAreOwn, Alone
  <2>3. \A b \in Actor : act'[b].at \in Owning => Has(act'[b].text, act'[b].thread)
    BY <1>2, <1>4 DEF TInv, TextsAreOwn, Only
  <2> QED BY <1>1, <2>1, <2>2, <2>3 DEF TInv, TextsAreOwn, Stored
<1>13. RepliesAreOwn'
  <2>1. \A u \in Msg : thread'[u].keys = thread[u].keys
    BY <1>1, <1>2, <1>3, <1>4, <1>5 DEF Alone
  <2>2. \A j \in Msg, b \in Actor : <<"bot", j>> \in act'[b].keys /\ act'[b].at = "persist" => j = act'[b].thread
    BY <1>1, <1>2, <1>3, <1>4, <1>5 DEF TInv, RepliesAreOwn, Only
  <2> QED BY <1>1, <2>1, <2>2 DEF TInv, RepliesAreOwn
<1>14. FinishersStore'
  <2>1. \A u \in Msg : thread'[u].phase = thread[u].phase /\ thread'[u].keys = thread[u].keys
    BY <1>5 DEF Alone
  <2>2. ASSUME NEW b \in Actor, act'[b].at \in Finishing
        PROVE  /\ act'[b].thread = act[b].thread /\ act'[b].keys = act[b].keys /\ act[b].thread \in Msg
               /\ act[b].at \in Finishing /\ (act'[b].at = "persist" => act[b].at = "persist")
               /\ (act'[b].at \in {"done", "remove"} => act[b].at \in {"done", "remove"})
    <3>1. CASE b = a
      BY <1>2, <1>4, <3>1 DEF Finishing
    <3>2. CASE b # a
      <4>1. act'[b] = act[b]
        BY <1>4, <3>2 DEF Only
      <4> QED BY <2>2, <4>1, Owner_Thread DEF Owning
    <3> QED BY <3>1, <3>2
  <2>3. \A b \in Actor : act'[b].at \in Finishing => thread'[act'[b].thread].phase = "finishing"
    BY <2>1, <2>2 DEF TInv, FinishersStore
  <2>4. ASSUME NEW b \in Actor, act'[b].at = "persist" PROVE act'[b].keys = thread'[act'[b].thread].keys
    <3>1. act'[b].at \in Finishing
      BY <2>4 DEF Finishing
    <3> QED BY <2>1, <2>2, <2>4, <3>1 DEF TInv, FinishersStore
  <2>5. ASSUME NEW b \in Actor, act'[b].at \in {"done", "remove"}
        PROVE  act'[b].thread \in unsaved \/ \A q \in thread'[act'[b].thread].keys : Stored(q)
    <3>1. act'[b].at \in Finishing
      BY <2>5 DEF Finishing
    <3> QED BY <2>1, <2>2, <2>5, <3>1 DEF TInv, FinishersStore
  <2> QED BY <1>1, <2>3, <2>4, <2>5 DEF FinishersStore, Stored
<1>15. KnownIsReached'
  <2>1. \A n \in known : act'[n].at # "idle" => act[n].at # "idle" /\ act'[n].base = act[n].base
    BY <1>1, <1>2, <1>3, <1>4, <1>5, Keys_Facts DEF TInv, Typed, Only
  <2>2. \A j \in Msg : Stored(<<"bot", j>>) => rows'[<<"bot", j>>] # <<>>
    BY <1>1, <1>2, <1>3, <1>4, <1>5, Keys_Facts DEF Stored
  <2> QED BY <1>1, <1>2, <1>3, <1>4, <1>5, <2>1, <2>2, Keys_Facts, Known_Frame
<1> QED BY <1>6, <1>7, <1>8, <1>9, <1>10, <1>11, <1>12, <1>13, <1>14, <1>15 DEF TInv

(* The transcript is left for whoever waits, if none was. *)
LEMMA PutDone_TInv ==
    ASSUME TInv, NEW a \in Actor, PutDone(a)
    PROVE  TInv'
<1>1. /\ act[a].at = "done" /\ Go(a, "remove")
      /\ UNCHANGED <<inbox, outbox, hand, marked, active, storage, history>>
  BY DEF PutDone
<1>2. PICK t \in Msg : t = act[a].thread
  BY <1>1, Finisher
<1>3. act[a].text \in Seq(Msg) /\ thread[t].done \in Seq(Msg)
  BY <1>1, Finisher, Thread_Type DEF TInv
<1>4. PICK text \in Seq(Msg) : text = IF thread[t].done = <<>> THEN act[a].text ELSE thread[t].done
  BY <1>3
<1>5. thread' = [thread EXCEPT ![t].done = text]
  BY <1>2, <1>4 DEF PutDone
<1> QED BY <1>1, <1>2, <1>4, <1>5, PutsDone_TInv

(* The keys leave the map after the transcript is stored. *)
LEMMA Remove_TInv ==
    ASSUME TInv, NEW a \in Actor, Remove(a)
    PROVE  TInv'
<1>1. act[a].at = "remove" /\ UNCHANGED <<arrived, target, hand, sent, log, marked, thread, rows, faults, taken, known, unsaved, torn>>
  BY DEF Remove, inbox, outbox, storage, history
<1>2. PICK t \in Msg :
        /\ t = act[a].thread /\ Registered(t) /\ act[a].at \in Owning /\ act[a].at = "remove"
        /\ (a \in Msg => t = a)
  BY <1>1, Finisher
<1>3. UNCHANGED <<thread, rows>>
  BY <1>1
<1>4. /\ Only(a) /\ act' \in [Actor -> Activity]
      /\ act'[a].at = "over"
      /\ act'[a].thread = act[a].thread
      /\ act'[a].base = act[a].base
      /\ act'[a].text = act[a].text
      /\ act'[a].keys = act[a].keys
      /\ act'[a].turns = act[a].turns
      /\ act'[a].how = act[a].how
      /\ act'[a].unwinding = act[a].unwinding
  <2> DEFINE new == [act[a] EXCEPT !.at = "over"]
  <2>1. act[a] \in Activity
    BY Act_Type, Keys_Facts DEF TInv
  <2>2. /\ new \in Activity
        /\ new.at = "over"
        /\ new.thread = act[a].thread
        /\ new.base = act[a].base
        /\ new.text = act[a].text
        /\ new.keys = act[a].keys
        /\ new.turns = act[a].turns
        /\ new.how = act[a].how
        /\ new.unwinding = act[a].unwinding
    BY <2>1 DEF Activity, Stages, Unregistered, Running, Finishing
  <2>3. act' = [act EXCEPT ![a] = new]
    BY DEF Remove, Go
  <2> HIDE DEF new
  <2> QED BY <2>2, <2>3, Put_Act, Keys_Facts DEF TInv

<1>5. /\ active' \in [ActiveKey -> Msg \cup {None}]
      /\ \A q \in ActiveKey : active'[q] = IF active[q] = t THEN None ELSE active[q]
  <2>1. active' = [q \in ActiveKey |-> IF active[q] = t THEN None ELSE active[q]]
    BY <1>2 DEF Remove
  <2>2. active \in [ActiveKey -> Msg \cup {None}]
    BY DEF TInv, Typed
  <2> QED BY <2>1, <2>2
<1>6. Typed'
  BY <1>1, <1>2, <1>3, <1>4, <1>5, Keys_Facts DEF Typed, TInv
<1>7. Dispatched'
  <2>1. \A u \in Msg : Registered(u) => thread'[u].phase # "none"
    BY <1>1, <1>2, <1>3, <1>4, <1>5 DEF Registered, Alone
  <2>2. UNCHANGED <<hand, arrived, target, taken>> /\ Only(a) /\ act[a].at # "idle" /\ act'[a].at # "base"
    BY <1>1, <1>2, <1>3, <1>4, <1>5
  <2> QED BY <2>1, <2>2, Dispatched_Frame
<1>8. RunsAreRegistered'
  <2>1. \A u \in Msg : Registered(u) <=> thread'[u].phase # "none"
    BY <1>1, <1>2, <1>3, <1>4, <1>5 DEF Registered, Alone
  <2>2. \A u \in Msg : ~Registered(u) => thread'[u] = NoThread
    BY <1>1, <1>2, <1>3, <1>4, <1>5 DEF TInv, RunsAreRegistered, Alone, Registered
  <2>3. \A q \in ActiveKey : active'[q] # None => active'[q] \in Msg /\ Registered(active'[q])
    BY <1>1, <1>2, <1>3, <1>4, <1>5 DEF TInv, RunsAreRegistered, Typed
  <2>4. a \in Msg =>
          /\ act[a].at # "idle" /\ act'[a].at \notin {"idle", "cancel", "join", "read"}
          /\ act'[a].at \notin Unregistered /\ act'[a].thread = a /\ act[a].at \in Owning
          /\ act'[a].at # "resteer" /\ act[a].at # "over"
    BY <1>1, <1>2, <1>3, <1>4, <1>5 DEF Unregistered
  <2>5. /\ act'[a].at \in Finishing \cup {"over", "mark", "cancel", "join", "read"}
        /\ act'[a].thread \in Msg /\ Registered(act'[a].thread)
    BY <1>1, <1>2, <1>3, <1>4, <1>5 DEF Finishing
  <2>6. Only(a) /\ UNCHANGED taken
    BY <1>1, <1>2, <1>3, <1>4, <1>5
  <2> QED BY <2>1, <2>2, <2>3, <2>4, <2>5, <2>6, Runs_Frame
<1>9. SessionIsHeld'
  <2>1. ASSUME NEW u \in Msg, OfSession(u), active'[<<"id", u>>] = u PROVE active'[Session] = u
    <3>1. active[<<"id", u>>] = u /\ u # t
      BY <1>5, <2>1, Keys_Facts
    <3>2. active[Session] = u
      BY <2>1, <3>1 DEF TInv, SessionIsHeld, Listed
    <3> QED BY <1>5, <3>1, <3>2, Keys_Facts
  <2> QED BY <1>1, <2>1 DEF SessionIsHeld, OfSession, Listed
<1>10. TextsAreSpent'
  <2>1. \A x \in Msg : Spent(x) => Spent(x)'
    BY <1>1, <1>2, <1>3, <1>4, <1>5, Keys_Facts DEF Spent, Registered, Only, Alone
  <2> QED BY <2>1, <1>1, <1>2, <1>3, <1>4, <1>5, Keys_Facts DEF TInv, TextsAreSpent, Only, Alone
<1>11. SteersAreKept'
  BY <1>1, <1>2, <1>3, <1>4, <1>5, Keys_Facts DEF TInv, SteersAreKept, Kept, Open, Turning, Finishing, Only, Alone
<1>12. TextsAreOwn'
  BY <1>1, <1>2, <1>3, <1>4, <1>5, Keys_Facts DEF TInv, TextsAreOwn, Registered, Stored, Owning, Running, Finishing, Only, Alone
<1>13. RepliesAreOwn'
  <2>1. \A j \in Msg : active'[<<"bot", j>>] # None => active'[<<"bot", j>>] = active[<<"bot", j>>]
    BY <1>5, Keys_Facts
  <2>2. \A j \in Msg, b \in Actor : <<"bot", j>> \in act'[b].keys /\ act'[b].at = "persist" => j = act'[b].thread
    BY <1>4 DEF TInv, RepliesAreOwn, Only
  <2> QED BY <1>1, <2>1, <2>2 DEF TInv, RepliesAreOwn
<1>14. FinishersStore'
  BY <1>1, <1>2, <1>3, <1>4, <1>5, Keys_Facts DEF TInv, FinishersStore, Stored, Finishing, Only, Alone
<1>15. KnownIsReached'
  <2>1. \A n \in known : act'[n].at # "idle" => act[n].at # "idle" /\ act'[n].base = act[n].base
    BY <1>2, <1>4, Keys_Facts DEF TInv, Typed, Only
  <2>2. \A j \in Msg : Stored(<<"bot", j>>) => rows'[<<"bot", j>>] # <<>>
    BY <1>1 DEF Stored
  <2>3. ASSUME NEW j \in Msg, active[<<"bot", j>>] # None
        PROVE  active'[<<"bot", j>>] # None \/ rows'[<<"bot", j>>] # <<>> \/ j \in unsaved'
    <3>1. CASE active[<<"bot", j>>] = t
      <4>1. t = j /\ <<"bot", j>> \in thread[t].keys
        BY <2>3, <3>1 DEF TInv, RepliesAreOwn
      <4>2. t \in unsaved \/ \A q \in thread[t].keys : Stored(q)
        BY <1>2 DEF TInv, FinishersStore
      <4> QED BY <1>1, <4>1, <4>2 DEF Stored
    <3>2. CASE active[<<"bot", j>>] # t
      BY <1>5, <2>3, <3>2, Keys_Facts
    <3> QED BY <3>1, <3>2
  <2> QED BY <1>1, <2>1, <2>2, <2>3, Known_Frame
<1> QED BY <1>6, <1>7, <1>8, <1>9, <1>10, <1>11, <1>12, <1>13, <1>14, <1>15 DEF TInv

-----------------------------------------------------------------------------
(* Halting.                                                                *)

(* A halter moves on, and touches no thread. *)
LEMMA Halting_TInv ==
    ASSUME TInv, NEW h \in Halter, NEW t \in Msg, Registered(t), Only(h), act' \in [Actor -> Activity],
           act[h].at \in {"idle", "cancel", "join", "read"},
           act'[h].at \in {"cancel", "join", "read", "mark"}, act'[h].thread = t,
           act'[h].base = act[h].base,
           \/ act'[h].at # "mark" /\ act'[h].text = act[h].text
           \/ act'[h].text = thread[t].current,
           marked' \subseteq Msg,
           UNCHANGED <<inbox, outbox, hand, thread, active, storage, history>>
    PROVE  TInv'
<1>1. /\ UNCHANGED <<arrived, target, hand, sent, log, thread, active, rows, faults, taken, known, unsaved, torn>>
      /\ marked' \subseteq Msg
  BY DEF inbox, outbox, storage, history
<1>2. /\ h \in Actor /\ t \in Msg /\ Registered(t) /\ Only(h) /\ act' \in [Actor -> Activity]
      /\ act[h].at \in {"idle", "cancel", "join", "read"}
      /\ act'[h].at \in {"cancel", "join", "read", "mark"} /\ act'[h].thread = t
      /\ act'[h].base = act[h].base
      /\ \/ act'[h].at # "mark" /\ act'[h].text = act[h].text
         \/ act'[h].text = thread[t].current
  BY Keys_Facts
<1>3. Typed'
  BY <1>1, <1>2, Keys_Facts DEF Typed, TInv
<1>4. Dispatched'
  <2>1. \A u \in Msg : Registered(u) => thread'[u].phase # "none"
    BY <1>1 DEF Registered
  <2>2. UNCHANGED <<hand, arrived, target, taken>> /\ Only(h) /\ h \in Actor /\ h \notin Msg /\ act'[h].at # "base"
    BY <1>1, <1>2, Keys_Facts
  <2> QED BY <2>1, <2>2, Dispatched_Frame
<1>5. RunsAreRegistered'
  <2>1. \A u \in Msg : Registered(u) <=> thread'[u].phase # "none"
    BY <1>1 DEF Registered
  <2>2. \A u \in Msg : ~Registered(u) => thread'[u] = NoThread
    BY <1>1 DEF TInv, RunsAreRegistered
  <2>3. \A q \in ActiveKey : active'[q] # None => active'[q] \in Msg /\ Registered(active'[q])
    BY <1>1 DEF TInv, RunsAreRegistered, Typed
  <2>4. /\ act'[h].at \in Finishing \cup {"over", "mark", "cancel", "join", "read"}
        /\ act'[h].thread \in Msg /\ Registered(act'[h].thread)
    BY <1>2 DEF Finishing
  <2>5. Only(h) /\ UNCHANGED taken /\ h \in Actor /\ h \notin Msg
    BY <1>1, <1>2, Keys_Facts
  <2> QED BY <2>1, <2>2, <2>3, <2>4, <2>5, Runs_Frame
<1>6. SessionIsHeld'
  BY <1>1, <1>2, Keys_Facts DEF TInv, SessionIsHeld, OfSession, Listed
<1>7. TextsAreSpent'
  <2>1. \A x \in Msg : Spent(x) => Spent(x)'
    BY <1>1 DEF Spent, Registered
  <2>2. ASSUME NEW b \in Actor, NEW x \in Msg, Has(act'[b].text, x) \/ Has(act'[b].base, x)
        PROVE  Spent(x)
    <3>1. CASE b = h
      BY <1>2, <2>2, <3>1 DEF TInv, TextsAreSpent
    <3>2. CASE b # h
      BY <1>2, <2>2, <3>2 DEF TInv, TextsAreSpent, Only
    <3> QED BY <3>1, <3>2
  <2> QED BY <1>1, <2>1, <2>2 DEF TInv, TextsAreSpent
<1>8. SteersAreKept'
  <2>1. \A u \in Msg : act'[u] = act[u]
    BY <1>2, Keys_Facts DEF Only
  <2> QED BY <1>1, <2>1 DEF TInv, SteersAreKept, Kept, Open
<1>9. TextsAreOwn'
  <2>1. ASSUME NEW b \in Actor, act'[b].at \in Owning PROVE Has(act'[b].text, act'[b].thread)
    <3>1. CASE b = h
      <4>1. act'[h].at = "mark" /\ act'[h].text = thread[t].current
        BY <1>2, <2>1, <3>1 DEF Owning, Running, Finishing
      <4> QED BY <1>2, <3>1, <4>1 DEF TInv, TextsAreOwn
    <3>2. CASE b # h
      BY <1>2, <2>1, <3>2 DEF TInv, TextsAreOwn, Only
    <3> QED BY <3>1, <3>2
  <2> QED BY <1>1, <2>1 DEF TInv, TextsAreOwn, Registered, Stored
<1>10. RepliesAreOwn'
  <2>1. \A j \in Msg, b \in Actor : <<"bot", j>> \in act'[b].keys /\ act'[b].at = "persist" => j = act'[b].thread
    BY <1>2 DEF TInv, RepliesAreOwn, Only
  <2> QED BY <1>1, <2>1 DEF TInv, RepliesAreOwn
<1>11. FinishersStore'
  <2>1. \A b \in Actor : act'[b].at \in Finishing => act'[b] = act[b]
    BY <1>2 DEF Only, Finishing
  <2>2. \A b \in Actor : act'[b].at \in {"persist", "done", "remove"} => act'[b].at \in Finishing
    BY DEF Finishing
  <2> QED BY <1>1, <2>1, <2>2 DEF TInv, FinishersStore, Stored
<1>12. KnownIsReached'
  <2>1. \A n \in known : act'[n].at # "idle" => act[n].at # "idle" /\ act'[n].base = act[n].base
    BY <1>2, Keys_Facts DEF TInv, Typed, Only
  <2> QED BY <1>1, <2>1, Known_Frame DEF Stored
<1> QED BY <1>3, <1>4, <1>5, <1>6, <1>7, <1>8, <1>9, <1>10, <1>11, <1>12 DEF TInv

(* It picks a listed run. *)
LEMMA HaltBegin_TInv ==
    ASSUME TInv, NEW h \in Halter, HaltBegin(h)
    PROVE  TInv'
<1>1. PICK t \in Msg : Listed(t) /\ act' = [act EXCEPT ![h].at = "cancel", ![h].thread = t]
  BY DEF HaltBegin
<1>2. Registered(t)
  BY <1>1, Keys_Facts DEF TInv, RunsAreRegistered, Listed
<1>3. /\ act[h].at = "idle" /\ marked \subseteq Msg
      /\ UNCHANGED <<inbox, outbox, hand, marked, thread, active, storage, history>>
  BY DEF HaltBegin, TInv, Typed
<1>4. /\ Only(h) /\ act' \in [Actor -> Activity]
      /\ act'[h].at = "cancel"
      /\ act'[h].thread = t
      /\ act'[h].base = act[h].base
      /\ act'[h].text = act[h].text
      /\ act'[h].keys = act[h].keys
      /\ act'[h].turns = act[h].turns
      /\ act'[h].how = act[h].how
      /\ act'[h].unwinding = act[h].unwinding
  <2> DEFINE new == [act[h] EXCEPT !.at = "cancel", !.thread = t]
  <2>1. act[h] \in Activity
    BY Act_Type, Keys_Facts DEF TInv
  <2>2. /\ new \in Activity
        /\ new.at = "cancel"
        /\ new.thread = t
        /\ new.base = act[h].base
        /\ new.text = act[h].text
        /\ new.keys = act[h].keys
        /\ new.turns = act[h].turns
        /\ new.how = act[h].how
        /\ new.unwinding = act[h].unwinding
    BY <2>1 DEF Activity, Stages, Unregistered, Running, Finishing
  <2>3. act' = [act EXCEPT ![h] = new]
    BY <1>1
  <2> HIDE DEF new
  <2> QED BY <2>2, <2>3, Put_Act, Keys_Facts DEF TInv

<1> QED BY <1>1, <1>2, <1>3, <1>4, Halting_TInv

(* It cancels the worker. *)
LEMMA HaltCancel_TInv ==
    ASSUME TInv, NEW h \in Halter, HaltCancel(h)
    PROVE  TInv'
<1>1. /\ act[h].at = "cancel" /\ marked \subseteq Msg
      /\ UNCHANGED <<inbox, outbox, hand, thread, active, storage, history>>
  BY DEF HaltCancel, TInv, Typed
<1>2. PICK t \in Msg : t = act[h].thread /\ Registered(t)
  BY <1>1 DEF TInv, RunsAreRegistered
<1>3. PICK s \in {"join", "read"} : Go(h, s) /\ marked' \subseteq Msg
  BY <1>1, <1>2 DEF HaltCancel
<1>4. /\ Only(h) /\ act' \in [Actor -> Activity]
      /\ act'[h].at = s
      /\ act'[h].thread = act[h].thread
      /\ act'[h].base = act[h].base
      /\ act'[h].text = act[h].text
      /\ act'[h].keys = act[h].keys
      /\ act'[h].turns = act[h].turns
      /\ act'[h].how = act[h].how
      /\ act'[h].unwinding = act[h].unwinding
  <2> DEFINE new == [act[h] EXCEPT !.at = s]
  <2>1. act[h] \in Activity
    BY Act_Type, Keys_Facts DEF TInv
  <2>2. /\ new \in Activity
        /\ new.at = s
        /\ new.thread = act[h].thread
        /\ new.base = act[h].base
        /\ new.text = act[h].text
        /\ new.keys = act[h].keys
        /\ new.turns = act[h].turns
        /\ new.how = act[h].how
        /\ new.unwinding = act[h].unwinding
    BY <2>1 DEF Activity, Stages, Unregistered, Running, Finishing
  <2>3. act' = [act EXCEPT ![h] = new]
    BY <1>3 DEF Go
  <2> HIDE DEF new
  <2> QED BY <2>2, <2>3, Put_Act, Keys_Facts DEF TInv

<1> QED BY <1>1, <1>2, <1>3, <1>4, Halting_TInv

(* It waits until the worker is over. *)
LEMMA HaltJoin_TInv ==
    ASSUME TInv, NEW h \in Halter, HaltJoin(h)
    PROVE  TInv'
<1>1. /\ act[h].at = "join" /\ marked \subseteq Msg
      /\ UNCHANGED <<inbox, outbox, hand, marked, thread, active, storage, history>>
  BY DEF HaltJoin, TInv, Typed
<1>2. PICK t \in Msg : t = act[h].thread /\ Registered(t)
  BY <1>1 DEF TInv, RunsAreRegistered
<1>3. /\ Only(h) /\ act' \in [Actor -> Activity]
      /\ act'[h].at = "read"
      /\ act'[h].thread = act[h].thread
      /\ act'[h].base = act[h].base
      /\ act'[h].text = act[h].text
      /\ act'[h].keys = act[h].keys
      /\ act'[h].turns = act[h].turns
      /\ act'[h].how = act[h].how
      /\ act'[h].unwinding = act[h].unwinding
  <2> DEFINE new == [act[h] EXCEPT !.at = "read"]
  <2>1. act[h] \in Activity
    BY Act_Type, Keys_Facts DEF TInv
  <2>2. /\ new \in Activity
        /\ new.at = "read"
        /\ new.thread = act[h].thread
        /\ new.base = act[h].base
        /\ new.text = act[h].text
        /\ new.keys = act[h].keys
        /\ new.turns = act[h].turns
        /\ new.how = act[h].how
        /\ new.unwinding = act[h].unwinding
    BY <2>1 DEF Activity, Stages, Unregistered, Running, Finishing
  <2>3. act' = [act EXCEPT ![h] = new]
    BY DEF HaltJoin, Go
  <2> HIDE DEF new
  <2> QED BY <2>2, <2>3, Put_Act, Keys_Facts DEF TInv

<1> QED BY <1>1, <1>2, <1>3, Halting_TInv

(* It reads what the run shows, and goes to finish it. *)
LEMMA HaltRead_TInv ==
    ASSUME TInv, NEW h \in Halter, HaltRead(h)
    PROVE  TInv'
<1>1. /\ act[h].at = "read" /\ marked \subseteq Msg
      /\ UNCHANGED <<inbox, outbox, hand, marked, thread, active, storage, history>>
  BY DEF HaltRead, TInv, Typed
<1>2. PICK t \in Msg : t = act[h].thread /\ Registered(t)
  BY <1>1 DEF TInv, RunsAreRegistered
<1>3. PICK text \in Seq(Msg) : text = thread[t].current
  BY Thread_Type DEF TInv
<1>4. /\ Only(h) /\ act' \in [Actor -> Activity]
      /\ act'[h].at = "mark"
      /\ act'[h].thread = act[h].thread
      /\ act'[h].base = act[h].base
      /\ act'[h].text = text
      /\ act'[h].keys = act[h].keys
      /\ act'[h].turns = act[h].turns
      /\ act'[h].how = act[h].how
      /\ act'[h].unwinding = act[h].unwinding
  <2> DEFINE new == [act[h] EXCEPT !.at = "mark", !.text = text]
  <2>1. act[h] \in Activity
    BY Act_Type, Keys_Facts DEF TInv
  <2>2. /\ new \in Activity
        /\ new.at = "mark"
        /\ new.thread = act[h].thread
        /\ new.base = act[h].base
        /\ new.text = text
        /\ new.keys = act[h].keys
        /\ new.turns = act[h].turns
        /\ new.how = act[h].how
        /\ new.unwinding = act[h].unwinding
    BY <2>1 DEF Activity, Stages, Unregistered, Running, Finishing
  <2>3. act' = [act EXCEPT ![h] = new]
    BY <1>2, <1>3 DEF HaltRead
  <2> HIDE DEF new
  <2> QED BY <2>2, <2>3, Put_Act, Keys_Facts DEF TInv

<1> QED BY <1>1, <1>2, <1>3, <1>4, Halting_TInv

-----------------------------------------------------------------------------
(* The invariant.                                                          *)

(* At the start nothing has arrived. *)
LEMMA Init_TInv == Init => TInv
<1> SUFFICES ASSUME Init PROVE TInv
  OBVIOUS
<1>1. /\ \A m \in Msg : target[m] = Fresh /\ thread[m] = NoThread /\ taken[m] = None
      /\ \A a \in Actor : act[a] = Idle
      /\ \A k \in ActiveKey : active[k] = None
      /\ \A k \in Key : rows[k] = <<>>
      /\ hand.at = "idle" /\ known = {} /\ unsaved = {} /\ arrived = 0
  BY DEF Init, IdleHand
<1>2. /\ Idle.at = "idle" /\ Idle.text = <<>> /\ Idle.base = <<>> /\ Idle.keys = {} /\ Idle.how = "running"
      /\ NoThread.phase = "none" /\ NoThread.queue = <<>> /\ NoThread.current = <<>>
      /\ NoThread.done = <<>> /\ NoThread.keys = {}
  BY DEF Idle, NoThread
<1>3. \A x : ~Has(<<>>, x)
  BY Has_Empty
<1>4. Typed
  <2>1. <<>> \in Seq(Msg) /\ <<>> \in Seq(Key)
    OBVIOUS
  <2>2. NoThread \in Thread
    BY <2>1 DEF NoThread, Thread, Phases
  <2>3. act \in [Actor -> Activity] /\ thread \in [Msg -> Thread]
    <3> HIDE DEF Activity, Thread
    <3> QED BY <2>2, Idle_Type DEF Init
  <2>4. /\ arrived \in 0 .. MaxMsg /\ target \in [Msg -> Key \cup {Session, Fresh}]
        /\ sent \subseteq {"bot"} \X Msg /\ log \in Seq(Key) /\ hand \in Hand
        /\ marked \subseteq Msg /\ active \in [ActiveKey -> Msg \cup {None}]
        /\ rows \in [Key -> Seq(Msg)] /\ faults \in 0 .. MaxFault
        /\ taken \in [Msg -> Msg \cup {None}]
        /\ known \subseteq Msg /\ unsaved \subseteq Msg /\ torn \subseteq Msg
    BY <2>1, ConstantsAssumption DEF Init, Hand, IdleHand
  <2> QED BY <2>3, <2>4 DEF Typed
<1>5. Dispatched
  BY <1>1, <1>2, Keys_Facts DEF Dispatched
<1>6. RunsAreRegistered
  BY <1>1, <1>2, Keys_Facts DEF RunsAreRegistered, Registered, Unregistered, Owning, Running, Finishing
<1>7. SessionIsHeld
  BY <1>1, Keys_Facts DEF SessionIsHeld, OfSession
<1>8. TextsAreSpent
  BY <1>1, <1>2, <1>3 DEF TextsAreSpent
<1>9. SteersAreKept
  BY <1>1, <1>2, Keys_Facts DEF SteersAreKept, Turning
<1>10. TextsAreOwn
  BY <1>1, <1>2, Keys_Facts DEF TextsAreOwn, Registered, Stored, Owning, Running, Finishing
<1>11. RepliesAreOwn
  BY <1>1, <1>2, Keys_Facts DEF RepliesAreOwn
<1>12. FinishersStore
  BY <1>1, <1>2 DEF FinishersStore, Finishing
<1>13. KnownIsReached
  BY <1>1 DEF KnownIsReached
<1> QED BY <1>4, <1>5, <1>6, <1>7, <1>8, <1>9, <1>10, <1>11, <1>12, <1>13 DEF TInv

(* A step that changes nothing. *)
LEMMA Stutter_TInv ==
    ASSUME TInv, UNCHANGED vars
    PROVE  TInv'
<1>1. UNCHANGED <<arrived, target, sent, log, hand, act, marked, thread, active, rows, faults,
                  taken, known, unsaved, torn>>
  BY DEF vars, inbox, outbox, storage, history
<1>2. Typed' /\ Dispatched' /\ RunsAreRegistered' /\ SessionIsHeld'
  BY <1>1 DEF TInv, Typed, Dispatched, RunsAreRegistered, SessionIsHeld, Registered, OfSession, Listed
<1>3. TextsAreSpent' /\ SteersAreKept' /\ TextsAreOwn'
  BY <1>1 DEF TInv, TextsAreSpent, SteersAreKept, TextsAreOwn, Spent, Registered, Kept, Open, Stored
<1>4. RepliesAreOwn' /\ FinishersStore'
  BY <1>1 DEF TInv, RepliesAreOwn, FinishersStore, Stored
<1>5. KnownIsReached'
  BY <1>1, Known_Frame DEF Stored
<1> QED BY <1>2, <1>3, <1>4, <1>5 DEF TInv

(* Every step keeps the invariant. *)
LEMMA Next_TInv ==
    ASSUME TInv, [Next]_vars
    PROVE  TInv'
<1>1. CASE Arrive
  BY <1>1, Arrive_TInv
<1>2. CASE Dispatch
  <2>1. PICK m \in Msg : m = arrived /\ (Look(m) \/ LookStored(m) \/ LookAgain(m) \/ AwaitDone(m) \/ Steer(m))
    BY <1>2 DEF Dispatch
  <2> QED BY <2>1, Look_TInv, LookStored_TInv, LookAgain_TInv, AwaitDone_TInv, Steer_TInv
<1>3. ASSUME NEW a \in Actor, Finish(a) PROVE TInv'
  BY <1>3, Mark_TInv, Persist_TInv, PutDone_TInv, Remove_TInv DEF Finish
<1>4. ASSUME NEW m \in Msg, Work(m) PROVE TInv'
  <2>1. CASE ReadBase(m) \/ Register(m) \/ Relook(m) \/ Resteer(m) \/ AddOwn(m)
    BY <2>1, ReadBase_TInv, Register_TInv, Relook_TInv, Resteer_TInv, AddOwn_TInv
  <2>2. CASE Turn(m) \/ SendReply(m) \/ RecordUpdate(m) \/ AskForTools(m) \/ ModelFails(m)
    BY <2>2, Turn_TInv, SendReply_TInv, RecordUpdate_TInv, AskForTools_TInv, ModelFails_TInv
  <2>3. CASE Complete(m) \/ Commit(m) \/ Finish(m) \/ Interrupt(m)
    BY <1>3, <2>3, Complete_TInv, Commit_TInv, Interrupt_TInv, Keys_Facts
  <2> QED BY <1>4, <2>1, <2>2, <2>3 DEF Work
<1>5. ASSUME NEW h \in Halter, HaltBegin(h) \/ Halt(h) PROVE TInv'
  BY <1>3, <1>5, HaltBegin_TInv, HaltCancel_TInv, HaltJoin_TInv, HaltRead_TInv, Keys_Facts DEF Halt
<1>6. CASE UNCHANGED vars
  BY <1>6, Stutter_TInv
<1> QED BY <1>1, <1>2, <1>4, <1>5, <1>6 DEF Next

(* The transcripts, queues and aliases of the runs fit together in every    *)
(* reachable state: the inductive invariant of the active-thread map.       *)
THEOREM Invariance == Spec => []TInv
<1>1. Init => TInv
  BY Init_TInv
<1>2. TInv /\ [Next]_vars => TInv'
  BY Next_TInv
<1> QED BY <1>1, <1>2, PTL DEF Spec

(* A run that ends with an answer has read every steer it accepted, once:   *)
(* completeActiveThreadSteering and enqueueActiveThreadSteer exclude each   *)
(* other, and no drain loses a queued message or appends it twice.          *)
THEOREM AnswersRead == Spec => []AnswersReadEverySteer
<1>1. ASSUME TInv PROVE AnswersReadEverySteer
  <2> SUFFICES ASSUME NEW t \in Msg, NEW m \in Msg, act[t].how = "answered", taken[m] = t
               PROVE  \E i \in DOMAIN act[t].text : Occurrences(m, act[t].text) = {i}
    BY DEF AnswersReadEverySteer
  <2>1. PICK i \in DOMAIN act[t].text : \A j \in DOMAIN act[t].text : act[t].text[j] = m <=> j = i
    BY <1>1 DEF TInv, SteersAreKept, Once
  <2>2. Occurrences(m, act[t].text) = {i}
    BY <2>1 DEF Occurrences
  <2> QED BY <2>1, <2>2
<1> QED BY <1>1, Invariance, PTL

(* Two messages of one console session never become two active runs: the    *)
(* check and the insertion of registerActiveThread are one transaction, and *)
(* the session's key outlives whatever else is removed.                     *)
THEOREM OneRunPerSession == Spec => []SessionHasOneRun
<1>1. TInv => SessionHasOneRun
  BY DEF TInv, SessionIsHeld, SessionHasOneRun
<1> QED BY <1>1, Invariance, PTL

(* A reply to a message the bot knew as a run's never starts from nothing:  *)
(* the run is in the active map or in storage at every moment between, or   *)
(* its transcript could not be written.                                     *)
THEOREM RepliesContinue == Spec => []RepliesContinueTheirThread
<1>1. ASSUME TInv PROVE RepliesContinueTheirThread
  <2> SUFFICES ASSUME NEW m \in known, act[m].at # "idle"
               PROVE  \/ \E i \in DOMAIN act[m].base : act[m].base[i] = target[m][2]
                      \/ target[m][2] \in unsaved
    BY DEF RepliesContinueTheirThread
  <2>1. PICK j \in Msg : /\ target[m] = <<"bot", j>>
                         /\ act[m].at # "idle" => Has(act[m].base, j) \/ j \in unsaved
    BY <1>1 DEF TInv, KnownIsReached
  <2>2. target[m][2] = j
    BY <2>1
  <2> QED BY <2>1, <2>2 DEF Has
<1> QED BY <1>1, Invariance, PTL
=============================================================================
