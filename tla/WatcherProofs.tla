--------------------------- MODULE WatcherProofs ----------------------------
(***************************************************************************)
(* Proofs about waking agents: no message starts more turns than its         *)
(* attempts allow, and the watchers of several instances overrun a peer's    *)
(* budget by at most one turn each, in both cases but for the turns whose     *)
(* watcher was killed before it recorded them, and in the second but for      *)
(* those whose answer was lost.                                              *)
(***************************************************************************)
EXTENDS Watcher, FiniteSetTheorems, TLAPS

MsgRow == [state : {"absent", "queued", "claimed", "gone"},
           activations : 0..MaxAttempts, quiet : 0..Backoff]

Pcs == {"idle", "next", "peer", "limited", "activate", "started", "unavailable"}

Lists == SUBSET [msg : Msg, allowed : BOOLEAN]

\* Current without the watcher: the first candidate of a list.
First(todo) == CHOOSE c \in todo : \A d \in todo : c.msg =< d.msg

Typed ==
    /\ msg \in [Msg -> MsgRow]
    /\ online \subseteq Endpoint
    /\ allowed \in [Msg -> BOOLEAN]
    /\ crashes \in 0..MaxCrashes

Watches ==
    /\ watch \in [Watchers -> [pc : Pcs, todo : Lists]]
    /\ \A w \in Watchers : (watch[w].pc = "idle") = (watch[w].todo = {})

Books ==
    /\ audit \subseteq WakeUp /\ IsFiniteSet(audit)
    /\ turns \in [count : [Msg -> Nat], told : SUBSET WakeUp, silent : SUBSET WakeUp]
    /\ IsFiniteSet(turns.told) /\ IsFiniteSet(turns.silent)

\* A watcher lists only messages of its own instance, each once, and what is
\* still on its list has attempts left: nobody else records one for it.
Listed(w) ==
    /\ \A c \in watch[w].todo :
        Home[To[c.msg]] = w /\ msg[c.msg].activations < MaxAttempts
    /\ \A c, d \in watch[w].todo : c.msg = d.msg => c = d

Listings == \A w \in Watchers : Listed(w)

\* A recorded wake-up bears the number of an attempt of the past.
Numbered == \A x \in audit : x.n < msg[x.msg].activations

\* A watcher of table that has message m in hand has tried to start its turn.
Paying(table, m) ==
    \E w \in Watchers : /\ table[w].pc \in {"started", "unavailable"}
                         /\ First(table[w].todo).msg = m

\* Every turn of a message is a recorded attempt, one about to be recorded, or
\* one whose watcher was killed.
Spent ==
    \A m \in Msg :
        turns.count[m] =< msg[m].activations + crashes
                            + (IF Paying(watch, m) THEN 1 ELSE 0)

\* The wake-ups of one peer that are at most k ticks old.
OfPeer(wakeUps, p, k) == {x \in wakeUps : From[x.msg] = p /\ x.age =< k}

Seen(wakeUps, p, k) == Cardinality(OfPeer(wakeUps, p, k))

\* The watchers of table that are at pc with a message of peer p in hand.
Holding(table, pc, p) ==
    {w \in Watchers : table[w].pc = pc /\ From[First(table[w].todo).msg] = p}

Held(table, pc, p) == Cardinality(Holding(table, pc, p))

\* The same for a peer, at every age: what is recorded is recorded after it
\* happened, so it leaves the window later.
PeerSpent ==
    \A p \in Peers : \A k \in 0..Minute - 1 :
        Seen(turns.told, p, k)
            =< Seen(audit, p, k) + Held(watch, "started", p) + crashes

\* What is recorded and what is about to be never exceeds the budget by more
\* than the other watchers: the last one to pass saw the budget not used up.
PeerBooked ==
    \A p \in Peers :
        Seen(audit, p, Minute - 1) + Held(watch, "started", p)
            + Held(watch, "activate", p) =< PeerMaxTurns + Cardinality(Watchers) - 1

Sound ==
    Typed /\ Watches /\ Books /\ Listings /\ Numbered /\ Spent /\ PeerSpent /\ PeerBooked

-----------------------------------------------------------------------------
(***************************************************************************)
(* Numbers and lists                                                        *)
(***************************************************************************)

LEMMA LeastExists ==
    ASSUME NEW S \in SUBSET Nat, S # {}
    PROVE  \E x \in S : \A y \in S : x =< y
  <1> DEFINE R == OpToRel(<, Nat)
  <1>1. IsWellFoundedOn(R, Nat)
    BY NatLessThanWellFounded
  <1>2. \E x \in S : \A y \in S : <<y, x>> \notin R
    <2> HIDE DEF R
    <2> QED
      BY <1>1, WFMin
  <1>3. \A x, y \in Nat : <<y, x>> \notin R => x =< y
    BY DEF OpToRel
  <1> QED
    BY <1>2, <1>3

\* A list that is not empty has a first candidate.
LEMMA FirstIsListed ==
    ASSUME NEW todo \in Lists, todo # {}
    PROVE  First(todo) \in todo /\ First(todo).msg \in Msg
  <1>1. \A c \in todo : c.msg \in Msg
    BY DEF Lists
  <1>2. {c.msg : c \in todo} \in SUBSET Nat /\ {c.msg : c \in todo} # {}
    BY <1>1, WatcherAssumption DEF Msg
  <1>3. \E x \in {c.msg : c \in todo} : \A y \in {c.msg : c \in todo} : x =< y
    BY <1>2, LeastExists, Zenon
  <1>4. \E c \in todo : \A d \in todo : c.msg =< d.msg
    BY <1>3
  <1>5. First(todo) \in todo
    BY <1>4 DEF First
  <1> QED
    BY <1>1, <1>5

LEMMA LessOfTwo ==
    ASSUME NEW a \in Nat, NEW b \in Nat
    PROVE  Min({a, b}) \in 0..b
  <1>1. \E x \in {a, b} : \A y \in {a, b} : x =< y
    <2>1. CASE a =< b
      BY <2>1
    <2>2. CASE b =< a
      BY <2>2
    <2> QED
      BY <2>1, <2>2
  <1>2. Min({a, b}) \in {a, b} /\ \A y \in {a, b} : Min({a, b}) =< y
    BY <1>1 DEF Min
  <1> QED
    BY <1>2

-----------------------------------------------------------------------------
(***************************************************************************)
(* Counting wake-ups                                                        *)
(***************************************************************************)

LEMMA SeenIsNat ==
    ASSUME NEW S, IsFiniteSet(S), NEW p, NEW k
    PROVE  IsFiniteSet(OfPeer(S, p, k)) /\ Seen(S, p, k) \in Nat
  <1>1. OfPeer(S, p, k) \in SUBSET S
    BY DEF OfPeer
  <1> QED
    BY <1>1, FS_Subset, FS_CardinalityType DEF Seen

LEMMA SeenGrows ==
    ASSUME NEW S, NEW p, NEW k \in Nat, NEW l \in Nat, k =< l,
           IsFiniteSet(S), S \subseteq WakeUp
    PROVE  Seen(S, p, k) =< Seen(S, p, l)
  <1>1. OfPeer(S, p, k) \in SUBSET OfPeer(S, p, l)
    BY DEF OfPeer, WakeUp
  <1> QED
    BY <1>1, SeenIsNat, FS_Subset DEF Seen

\* What one more wake-up adds to what a peer is seen to have spent.
LEMMA SeenOneMore ==
    ASSUME NEW S, IsFiniteSet(S), NEW x, x \notin S, NEW p, NEW k
    PROVE  Seen(S \cup {x}, p, k)
             = IF From[x.msg] = p /\ x.age =< k THEN Seen(S, p, k) + 1 ELSE Seen(S, p, k)
  <1>1. CASE From[x.msg] = p /\ x.age =< k
    <2>1. OfPeer(S \cup {x}, p, k) = OfPeer(S, p, k) \cup {x}
      BY <1>1 DEF OfPeer
    <2>2. x \notin OfPeer(S, p, k)
      BY DEF OfPeer
    <2> QED
      <3>1. IsFiniteSet(OfPeer(S, p, k))
        BY FS_Subset DEF OfPeer
      <3>2. Cardinality(OfPeer(S, p, k) \cup {x}) = Cardinality(OfPeer(S, p, k)) + 1
        BY <2>2, <3>1, FS_AddElement
      <3> QED
        BY <1>1, <2>1, <3>2 DEF Seen
  <1>2. CASE ~(From[x.msg] = p /\ x.age =< k)
    <2>1. OfPeer(S \cup {x}, p, k) = OfPeer(S, p, k)
      BY <1>2 DEF OfPeer
    <2> QED
      BY <1>2, <2>1 DEF Seen
  <1> QED
    BY <1>1, <1>2

Older(x) == [x EXCEPT !.age = @ + 1]

LEMMA OlderFields ==
    ASSUME NEW x \in WakeUp
    PROVE  /\ Older(x).msg = x.msg /\ Older(x).n = x.n /\ Older(x).age = x.age + 1
           /\ \A y \in WakeUp : Older(y) = Older(x) => y = x
           /\ x.age + 1 < Minute => Older(x) \in WakeUp
  BY WatcherAssumption DEF Older, WakeUp

LEMMA AgedTyped ==
    ASSUME NEW S \in SUBSET WakeUp, IsFiniteSet(S)
    PROVE  /\ Aged(S) \subseteq WakeUp /\ IsFiniteSet(Aged(S))
           /\ Aged(S) = {Older(x) : x \in {y \in S : y.age + 1 < Minute}}
  <1> DEFINE T == {y \in S : y.age + 1 < Minute}
             f == [x \in T |-> Older(x)]
  <1>1. Aged(S) = {Older(x) : x \in T}
    BY DEF Aged, Older
  <1>2. IsFiniteSet(T)
    BY FS_Subset
  <1>3. f \in Surjection(T, Aged(S))
    BY <1>1 DEF Surjection
  <1>4. IsFiniteSet(Aged(S))
    <2> HIDE DEF f, T
    <2> QED
      BY <1>2, <1>3, FS_Surjection
  <1>5. Aged(S) \subseteq WakeUp
    BY <1>1, OlderFields
  <1> QED
    BY <1>1, <1>4, <1>5

\* After a tick, what is at most k ticks old was at most k - 1 ticks old.
LEMMA AgedSeen ==
    ASSUME NEW S \in SUBSET WakeUp, IsFiniteSet(S), NEW p, NEW k \in 0..Minute - 1
    PROVE  Seen(Aged(S), p, k) = IF k = 0 THEN 0 ELSE Seen(S, p, k - 1)
  <1> DEFINE T == {y \in S : y.age + 1 < Minute}
  <1>1. Aged(S) = {Older(x) : x \in T}
    BY AgedTyped
  <1>2. CASE k = 0
    <2>1. \A x \in T : Older(x).age > 0
      BY OlderFields DEF WakeUp
    <2>2. \A x \in T : ~(Older(x).age =< 0)
      <3> SUFFICES ASSUME NEW x \in T
                   PROVE  ~(Older(x).age =< 0)
        OBVIOUS
      <3> QED
        BY OlderFields DEF WakeUp
    <2>3. OfPeer(Aged(S), p, k) = {}
      BY <1>1, <1>2, <2>2 DEF OfPeer
    <2> QED
      BY <1>2, <2>3, FS_EmptySet DEF Seen
  <1>3. CASE k # 0
    <2> DEFINE A == OfPeer(S, p, k - 1)
               B == OfPeer(Aged(S), p, k)
               f == [x \in A |-> Older(x)]
    <2>1. \A x \in A : x \in T /\ x \in WakeUp /\ Older(x) \in B
      <3> SUFFICES ASSUME NEW x \in A
                   PROVE  x \in T /\ x \in WakeUp /\ Older(x) \in B
        OBVIOUS
      <3>1. x \in S /\ x \in WakeUp /\ From[x.msg] = p /\ x.age =< k - 1
        BY DEF OfPeer
      <3>2. x.age + 1 < Minute /\ x.age + 1 =< k
        BY <3>1, <1>3, WatcherAssumption DEF WakeUp
      <3>3. Older(x) \in Aged(S)
        BY <1>1, <3>1, <3>2
      <3> QED
        BY <3>1, <3>2, <3>3, OlderFields DEF OfPeer
    <2>2. \A z \in B : \E x \in A : Older(x) = z
      <3> SUFFICES ASSUME NEW z \in B
                   PROVE  \E x \in A : Older(x) = z
        OBVIOUS
      <3>1. PICK x \in T : z = Older(x)
        BY <1>1 DEF OfPeer
      <3>2. From[x.msg] = p /\ x.age + 1 =< k
        BY <3>1, OlderFields DEF OfPeer
      <3>3. x.age =< k - 1
        BY <3>2 DEF WakeUp
      <3> QED
        BY <3>1, <3>2, <3>3 DEF OfPeer
    <2>3. f \in Bijection(A, B)
      <3>1. f \in Injection(A, B)
        <4>1. f \in [A -> B]
          BY <2>1
        <4>2. \A x, y \in A : Older(x) = Older(y) => x = y
          BY <2>1, OlderFields
        <4>3. \A x \in A : f[x] = Older(x)
          OBVIOUS
        <4> HIDE DEF f, A, B
        <4> QED
          BY <4>1, <4>2, <4>3 DEF Injection, IsInjective
      <3>2. f \in Surjection(A, B)
        BY <2>1, <2>2 DEF Surjection
      <3> QED
        BY <3>1, <3>2 DEF Bijection
    <2>4. ExistsBijection(A, B)
      BY <2>3 DEF ExistsBijection
    <2>5. Cardinality(B) = Cardinality(A)
      <3> HIDE DEF A, B
      <3> QED
        BY <2>4, SeenIsNat, FS_Bijection DEF A
    <2> QED
      BY <1>3, <2>5 DEF Seen
  <1> QED
    BY <1>2, <1>3

-----------------------------------------------------------------------------
(***************************************************************************)
(* Counting watchers                                                        *)
(***************************************************************************)

LEMMA HeldApart ==
    ASSUME NEW table, NEW a, NEW b, a # b, NEW p
    PROVE  Cardinality(Holding(table, a, p)) + Cardinality(Holding(table, b, p))
             =< Cardinality(Watchers)
  <1> DEFINE A == Holding(table, a, p)
             B == Holding(table, b, p)
  <1>1. A \subseteq Watchers /\ B \subseteq Watchers /\ A \cap B = {}
    BY DEF Holding
  <1> HIDE DEF A, B
  <1>2. IsFiniteSet(A) /\ IsFiniteSet(B)
    BY <1>1, WatcherAssumption, FS_Subset
  <1>3. Cardinality(A \cup B) = Cardinality(A) + Cardinality(B) - Cardinality({})
    BY <1>1, <1>2, FS_Union
  <1>4. Cardinality(A \cup B) =< Cardinality(Watchers)
    BY <1>1, WatcherAssumption, FS_Subset
  <1>5. Cardinality(A) \in Nat /\ Cardinality(B) \in Nat
    BY <1>2, FS_CardinalityType
  <1>6. Cardinality(A) + Cardinality(B) =< Cardinality(Watchers)
    BY <1>3, <1>4, <1>5, FS_EmptySet
  <1> QED
    BY <1>6 DEF A, B

LEMMA HeldIsNat ==
    ASSUME NEW table, NEW pc, NEW p
    PROVE  IsFiniteSet(Holding(table, pc, p)) /\ Held(table, pc, p) \in Nat
  <1>1. Holding(table, pc, p) \in SUBSET Watchers
    BY DEF Holding
  <1> QED
    BY <1>1, WatcherAssumption, FS_Subset, FS_CardinalityType DEF Held

\* What one watcher that is at e adds to the count.
One(e, pc, p) == IF e.pc = pc /\ From[First(e.todo).msg] = p THEN 1 ELSE 0

\* What a step of watcher w changes in the counts: w itself and nothing else.
LEMMA HeldMoves ==
    ASSUME NEW table, NEW w \in Watchers, NEW new,
           \A v \in Watchers \ {w} : new[v] = table[v], NEW pc, NEW p
    PROVE  Held(new, pc, p) = Held(table, pc, p) + One(new[w], pc, p) - One(table[w], pc, p)
  <1> DEFINE was == table[w].pc = pc /\ From[First(table[w].todo).msg] = p
             is == new[w].pc = pc /\ From[First(new[w].todo).msg] = p
             others == Holding(table, pc, p) \ {w}
  <1>1. IsFiniteSet(others) /\ Cardinality(others) \in Nat
    BY HeldIsNat, FS_RemoveElement, FS_CardinalityType
  <1>2. Held(table, pc, p) = Cardinality(others) + (IF was THEN 1 ELSE 0)
    <2>1. w \in Holding(table, pc, p) <=> was
      BY DEF Holding
    <2>2. Cardinality(others) = IF w \in Holding(table, pc, p)
                                THEN Held(table, pc, p) - 1 ELSE Held(table, pc, p)
      BY HeldIsNat, FS_RemoveElement DEF Held
    <2> HIDE DEF others, was
    <2>3. CASE was
      BY <2>1, <2>2, <2>3, HeldIsNat
    <2>4. CASE ~was
      BY <2>1, <2>2, <2>4, HeldIsNat
    <2> QED
      BY <2>3, <2>4
  <1>3. Held(new, pc, p) = Cardinality(others) + (IF is THEN 1 ELSE 0)
    <2>1. Holding(new, pc, p) = IF is THEN others \cup {w} ELSE others
      <3>1. Holding(new, pc, p) \ {w} = others
        BY DEF Holding
      <3>2. w \in Holding(new, pc, p) <=> is
        BY DEF Holding
      <3> QED
        BY <3>1, <3>2
    <2>2. w \notin others
      OBVIOUS
    <2> HIDE DEF others, is
    <2>3. Cardinality(others \cup {w}) = Cardinality(others) + 1
      BY <1>1, <2>2, FS_AddElement
    <2>4. CASE is
      BY <1>1, <2>1, <2>3, <2>4 DEF Held
    <2>5. CASE ~is
      BY <1>1, <2>1, <2>5 DEF Held
    <2> QED
      BY <2>4, <2>5
  <1> QED
    <2>1. One(new[w], pc, p) = (IF is THEN 1 ELSE 0) /\ One(table[w], pc, p) = (IF was THEN 1 ELSE 0)
      BY DEF One
    <2> QED
      BY <1>1, <1>2, <1>3, <2>1

-----------------------------------------------------------------------------
(***************************************************************************)
(* What a step may do                                                       *)
(***************************************************************************)

\* The mailbox around the watchers: no attempt, no turn, no watcher.
Elsewhere ==
    /\ UNCHANGED <<audit, watch, turns, crashes>>
    /\ \A m \in Msg : msg'[m].activations = msg[m].activations

\* Watcher w goes on with e.
Hands(w, e) ==
    /\ e \in [pc : Pcs, todo : Lists] /\ (e.pc = "idle") = (e.todo = {})
    /\ watch' = [watch EXCEPT ![w] = e]

InHand(w) == First(watch[w].todo).msg

Listing(w, e) ==
    /\ watch[w].pc = "idle" /\ e.pc = "next"
    /\ e.todo = {[msg |-> m, allowed |-> allowed[m]] : m \in Candidates(w)}
    /\ UNCHANGED <<msg, audit, turns, crashes>>

Looks(w, e) ==
    /\ e.todo = watch[w].todo
    /\ watch[w].pc \notin {"idle", "started", "unavailable"} /\ e.pc # "started"
    /\ e.pc = "activate" =>
        watch[w].pc # "activate" /\ PeerActivationBudgetLeft(InHand(w))
    /\ UNCHANGED <<msg, audit, turns, crashes>>

Starts(w, e) ==
    /\ e.todo = watch[w].todo /\ watch[w].pc = "activate" /\ e.pc = "started"
    /\ turns' = [count |-> [turns.count EXCEPT ![InHand(w)] = @ + 1],
                 told |-> turns.told \cup {NewTurn(w)}, silent |-> turns.silent]
    /\ UNCHANGED <<msg, audit, crashes>>

Silently(w, e) ==
    /\ e.todo = watch[w].todo /\ watch[w].pc = "activate" /\ e.pc = "unavailable"
    /\ turns' = [count |-> [turns.count EXCEPT ![InHand(w)] = @ + 1],
                 told |-> turns.told, silent |-> turns.silent \cup {NewTurn(w)}]
    /\ UNCHANGED <<msg, audit, crashes>>

Records(w, e) ==
    /\ watch[w].pc \notin {"idle", "activate"} /\ e.pc \in {"idle", "next"}
    /\ e.todo = watch[w].todo \ {First(watch[w].todo)}
    /\ msg' = [msg EXCEPT ![InHand(w)].activations = @ + 1, ![InHand(w)].quiet = 0]
    /\ audit' = IF watch[w].pc = "started"
                THEN audit \cup {[msg |-> InHand(w), n |-> msg[InHand(w)].activations,
                                  age |-> 0]}
                ELSE audit
    /\ UNCHANGED <<turns, crashes>>

Dies(w, e) ==
    /\ watch[w].pc # "idle" /\ e = Idle /\ crashes' = crashes + 1
    /\ UNCHANGED <<msg, audit, turns>>

Turn(w, e) ==
    /\ Hands(w, e)
    /\ \/ Listing(w, e) \/ Looks(w, e) \/ Starts(w, e) \/ Silently(w, e)
       \/ Records(w, e) \/ Dies(w, e)

LEMMA MailIsElsewhere ==
    ASSUME Typed,
           \/ \E m \in Msg : Arrive(m) \/ Claim(m) \/ Requeue(m) \/ Finish(m) \/ Withdraw(m)
           \/ \E m \in Msg : SetPolicy(m)
           \/ \E x \in Endpoint : Unbind(x) \/ Bind(x)
    PROVE  Elsewhere /\ Typed'
  <1>1. ASSUME NEW m \in Msg, NEW from, NEW to \in {"queued", "claimed", "gone"},
               Moves(m, from, to)
        PROVE  Elsewhere /\ Typed'
    <2>1. \A x \in Msg : msg'[x] = IF x = m THEN [msg[x] EXCEPT !.state = to] ELSE msg[x]
      BY <1>1 DEF Moves, Typed
    <2>2. msg' \in [Msg -> MsgRow]
      <3>1. [msg[m] EXCEPT !.state = to] \in MsgRow
        BY DEF Typed, MsgRow
      <3> QED
        BY <1>1, <3>1 DEF Moves, Typed
    <2>3. \A x \in Msg : msg'[x].activations = msg[x].activations
      BY <2>1 DEF Typed, MsgRow
    <2> QED
      BY <1>1, <2>2, <2>3 DEF Moves, Typed, Elsewhere
  <1>2. ASSUME NEW m \in Msg, SetPolicy(m)
        PROVE  Elsewhere /\ Typed'
    BY <1>2 DEF SetPolicy, Typed, Elsewhere
  <1>3. ASSUME NEW x \in Endpoint, Unbind(x)
        PROVE  Elsewhere /\ Typed'
    <2>1. \A m \in Msg : [msg[m] EXCEPT !.state = "queued"] \in MsgRow
                /\ [msg[m] EXCEPT !.state = "queued"].activations = msg[m].activations
      BY DEF Typed, MsgRow
    <2>2. msg' \in [Msg -> MsgRow] /\ \A m \in Msg : msg'[m].activations = msg[m].activations
      BY <1>3, <2>1 DEF Unbind, Typed
    <2> QED
      BY <1>3, <2>2 DEF Unbind, Typed, Elsewhere
  <1>4. ASSUME NEW x \in Endpoint, Bind(x)
        PROVE  Elsewhere /\ Typed'
    BY <1>4 DEF Bind, Typed, Elsewhere
  <1> QED
    BY <1>1, <1>2, <1>3, <1>4 DEF Arrive, Claim, Requeue, Finish, Withdraw

LEMMA TickTyped ==
    ASSUME Typed, Tick
    PROVE  /\ Typed'
           /\ \A m \in Msg : msg'[m].activations = msg[m].activations
  <1>1. \A m \in Msg : Min({msg[m].quiet + 1, Backoff}) \in 0..Backoff
    BY LessOfTwo, WatcherAssumption DEF Typed, MsgRow
  <1>2. \A m \in Msg : LET x == [msg[m] EXCEPT !.quiet = Min({@ + 1, Backoff})]
                       IN  x \in MsgRow /\ x.activations = msg[m].activations
    BY <1>1 DEF Typed, MsgRow
  <1> QED
    BY <1>2 DEF Typed, Tick

LEMMA GoesHands ==
    ASSUME Watches, NEW w \in Watchers, NEW q \in Pcs \ {"idle"}, watch[w].pc # "idle",
           Goes(w, q)
    PROVE  \E e : /\ Hands(w, e) /\ e.pc = q /\ e.todo = watch[w].todo
  <1> DEFINE e == [watch[w] EXCEPT !.pc = q]
  <1>1. e \in [pc : Pcs, todo : Lists] /\ e.pc = q /\ e.todo = watch[w].todo
    BY DEF Watches
  <1>2. watch' = [watch EXCEPT ![w] = e]
    BY DEF Goes, Watches
  <1> QED
    BY <1>1, <1>2 DEF Hands, Watches

LEMMA ListsAreTyped ==
    ASSUME Typed, NEW w \in Watchers
    PROVE  {[msg |-> m, allowed |-> allowed[m]] : m \in Candidates(w)} \in Lists
  BY DEF Typed, Lists, Candidates

LEMMA RecordHands ==
    ASSUME Watches, NEW w \in Watchers, watch[w].pc \notin {"idle", "activate"},
           NEW result, (result = "started") = (watch[w].pc = "started"),
           RecordActivation(w, result), UNCHANGED <<turns, crashes>>
    PROVE  \E e : Hands(w, e) /\ Records(w, e)
  <1> DEFINE todo == watch[w].todo \ {First(watch[w].todo)}
             e == IF todo = {} THEN Idle ELSE [pc |-> "next", todo |-> todo]
  <1>1. Current(w) = First(watch[w].todo)
    BY DEF Current, First
  <1>2. todo \in Lists
    BY DEF Watches, Lists
  <1>3. e \in [pc : Pcs, todo : Lists] /\ (e.pc = "idle") = (e.todo = {})
            /\ e.todo = todo /\ e.pc \in {"idle", "next"}
    BY <1>2 DEF Idle, Pcs, Lists
  <1>4. Hands(w, e)
    BY <1>1, <1>3 DEF Hands, RecordActivation
  <1>5. Records(w, e)
    BY <1>1, <1>3 DEF Records, RecordActivation, InHand
  <1> QED
    BY <1>4, <1>5

LEMMA StepIsTurn ==
    ASSUME Typed, Watches, Books, NEW w \in Watchers, Step(w) \/ Crash(w)
    PROVE  UNCHANGED <<online, allowed>> /\ \E e : Turn(w, e)
  <1>0. Current(w) = First(watch[w].todo) /\ InHand(w) = Current(w).msg
    BY DEF Current, First, InHand
  <1>1. CASE List(w)
    <2> DEFINE e == [pc |-> "next",
                     todo |-> {[msg |-> m, allowed |-> allowed[m]] : m \in Candidates(w)}]
    <2>1. e \in [pc : Pcs, todo : Lists] /\ e.todo # {}
      BY <1>1, ListsAreTyped DEF List, Pcs
    <2>2. Hands(w, e) /\ Listing(w, e)
      BY <1>1, <2>1 DEF List, Hands, Listing
    <2> QED
      BY <1>1, <2>2 DEF Turn, List
  <1>2. CASE Refuse(w)
    <2>1. \E e : Hands(w, e) /\ Records(w, e)
      BY <1>2, RecordHands DEF Refuse
    <2> QED
      BY <1>2, <2>1 DEF Turn, Refuse
  <1>3. CASE ReadBudget(w)
    <2>1. PICK q \in {"peer", "limited"} : Goes(w, q)
      BY <1>3 DEF ReadBudget
    <2>2. PICK e : Hands(w, e) /\ e.pc = q /\ e.todo = watch[w].todo
      BY <1>3, <2>1, GoesHands DEF ReadBudget, Pcs
    <2>3. Looks(w, e)
      BY <1>3, <2>1, <2>2 DEF Looks, ReadBudget, Goes
    <2> QED
      BY <1>3, <2>1, <2>2, <2>3 DEF Turn, Goes
  <1>4. CASE ReadPeerBudget(w)
    <2>1. PICK q \in {"activate", "limited"} :
            Goes(w, q) /\ (q = "activate" => PeerActivationBudgetLeft(InHand(w)))
      BY <1>0, <1>4 DEF ReadPeerBudget
    <2>2. PICK e : Hands(w, e) /\ e.pc = q /\ e.todo = watch[w].todo
      BY <1>4, <2>1, GoesHands DEF ReadPeerBudget, Pcs
    <2>3. Looks(w, e)
      BY <1>4, <2>1, <2>2 DEF Looks, ReadPeerBudget, Goes
    <2> QED
      BY <1>4, <2>1, <2>2, <2>3 DEF Turn, Goes
  <1>5. CASE RateLimited(w)
    <2>1. \E e : Hands(w, e) /\ Records(w, e)
      BY <1>5, RecordHands DEF RateLimited
    <2> QED
      BY <1>5, <2>1 DEF Turn, RateLimited
  <1>6. CASE ActivateStarts(w)
    <2>1. PICK e : Hands(w, e) /\ e.pc = "started" /\ e.todo = watch[w].todo
      BY <1>6, GoesHands DEF ActivateStarts, Pcs
    <2>2. turns' = [count |-> [turns.count EXCEPT ![InHand(w)] = @ + 1],
                    told |-> turns.told \cup {NewTurn(w)}, silent |-> turns.silent]
      BY <1>0, <1>6 DEF ActivateStarts, Books
    <2>3. Starts(w, e)
      BY <1>6, <2>1, <2>2 DEF Starts, ActivateStarts, Goes
    <2> QED
      BY <1>6, <2>1, <2>3 DEF Turn, ActivateStarts, Goes
  <1>10. CASE ActivateUnanswered(w)
    <2>1. PICK e : Hands(w, e) /\ e.pc = "unavailable" /\ e.todo = watch[w].todo
      BY <1>10, GoesHands DEF ActivateUnanswered, Pcs
    <2>2. turns' = [count |-> [turns.count EXCEPT ![InHand(w)] = @ + 1],
                    told |-> turns.told, silent |-> turns.silent \cup {NewTurn(w)}]
      BY <1>0, <1>10 DEF ActivateUnanswered, Books
    <2>3. Silently(w, e)
      BY <1>10, <2>1, <2>2 DEF Silently, ActivateUnanswered, Goes
    <2> QED
      BY <1>10, <2>1, <2>3 DEF Turn, ActivateUnanswered, Goes
  <1>7. CASE ActivateFails(w)
    <2>1. PICK e : Hands(w, e) /\ e.pc = "unavailable" /\ e.todo = watch[w].todo
      BY <1>7, GoesHands DEF ActivateFails, Pcs
    <2>2. Looks(w, e)
      BY <1>7, <2>1 DEF Looks, ActivateFails, Goes
    <2> QED
      BY <1>7, <2>1, <2>2 DEF Turn, ActivateFails, Goes
  <1>8. CASE Activated(w)
    <2>1. \E e : Hands(w, e) /\ Records(w, e)
      BY <1>8, RecordHands DEF Activated
    <2> QED
      BY <1>8, <2>1 DEF Turn, Activated
  <1>9. CASE Crash(w)
    <2>1. Hands(w, Idle) /\ Dies(w, Idle)
      BY <1>9 DEF Crash, Hands, Dies, Idle, Pcs, Lists
    <2> QED
      BY <1>9, <2>1 DEF Turn, Crash
  <1> QED
    BY <1>1, <1>2, <1>3, <1>4, <1>5, <1>6, <1>7, <1>8, <1>9, <1>10 DEF Step

-----------------------------------------------------------------------------
(***************************************************************************)
(* Types                                                                    *)
(***************************************************************************)

LEMMA InHandListed ==
    ASSUME Watches, NEW w \in Watchers, watch[w].pc # "idle"
    PROVE  First(watch[w].todo) \in watch[w].todo /\ InHand(w) \in Msg
  <1>1. watch[w].todo \in Lists /\ watch[w].todo # {}
    BY DEF Watches
  <1> QED
    BY <1>1, FirstIsListed DEF InHand

LEMMA WatchMoves ==
    ASSUME Watches, NEW w \in Watchers, NEW e, Hands(w, e)
    PROVE  /\ Watches' /\ watch'[w] = e
           /\ \A v \in Watchers \ {w} : watch'[v] = watch[v]
  BY DEF Watches, Hands

\* What recording an attempt for the message in hand does to its row.
LEMMA RecordMoves ==
    ASSUME Typed, Watches, Listings, NEW w \in Watchers, NEW e, Records(w, e)
    PROVE  /\ InHand(w) \in Msg /\ msg' \in [Msg -> MsgRow]
           /\ msg'[InHand(w)].activations = msg[InHand(w)].activations + 1
           /\ \A m \in Msg \ {InHand(w)} : msg'[m] = msg[m]
  <1> DEFINE m == InHand(w)
             row == [[msg[m] EXCEPT !.activations = @ + 1] EXCEPT !.quiet = 0]
  <1>1. m \in Msg /\ msg[m].activations < MaxAttempts
    BY InHandListed DEF Listings, Listed, InHand, Records
  <1>2. row \in MsgRow /\ row.activations = msg[m].activations + 1
    <2>1. msg[m] \in MsgRow
      BY <1>1 DEF Typed
    <2>2. msg[m].activations + 1 \in 0..MaxAttempts /\ 0 \in 0..Backoff
      BY <1>1, <2>1, WatcherAssumption DEF MsgRow
    <2> QED
      BY <2>1, <2>2 DEF MsgRow
  <1>3. msg' = [msg EXCEPT ![m] = row]
    BY <1>1 DEF Records, Typed
  <1> QED
    BY <1>1, <1>2, <1>3 DEF Typed

LEMMA TurnTyped ==
    ASSUME Typed, Watches, Listings, NEW w \in Watchers, NEW e, Turn(w, e),
           UNCHANGED <<online, allowed>>, crashes' =< MaxCrashes
    PROVE  Typed'
  <1>1. CASE Listing(w, e) \/ Looks(w, e) \/ Starts(w, e) \/ Silently(w, e)
    BY <1>1 DEF Listing, Looks, Starts, Silently, Typed
  <1>2. CASE Records(w, e)
    BY <1>2, RecordMoves DEF Records, Typed
  <1>3. CASE Dies(w, e)
    BY <1>3, WatcherAssumption DEF Dies, Typed
  <1> QED
    BY <1>1, <1>2, <1>3 DEF Turn

LEMMA TurnBooks ==
    ASSUME Typed, Watches, Books, NEW w \in Watchers, NEW e, Turn(w, e)
    PROVE  Books'
  <1>0. ASSUME NEW m \in Msg, NEW n \in Nat
        PROVE  [msg |-> m, n |-> n, age |-> 0] \in WakeUp
    BY WatcherAssumption DEF WakeUp
  <1>1. CASE Listing(w, e) \/ Looks(w, e) \/ Dies(w, e)
    BY <1>1 DEF Listing, Looks, Dies, Books
  <1>2. CASE Starts(w, e) \/ Silently(w, e)
    <2>1. InHand(w) \in Msg
      BY <1>2, InHandListed DEF Starts, Silently
    <2>2. NewTurn(w) \in WakeUp
      <3>1. turns.count[InHand(w)] \in Nat
        BY <2>1 DEF Books
      <3> QED
        BY <1>0, <2>1, <3>1 DEF NewTurn, Current, InHand, First
    <2>3. /\ turns.told \cup {NewTurn(w)} \subseteq WakeUp
          /\ IsFiniteSet(turns.told \cup {NewTurn(w)})
          /\ turns.silent \cup {NewTurn(w)} \subseteq WakeUp
          /\ IsFiniteSet(turns.silent \cup {NewTurn(w)})
      BY <2>2, FS_AddElement DEF Books
    <2>4. [turns.count EXCEPT ![InHand(w)] = @ + 1] \in [Msg -> Nat]
      BY <2>1 DEF Books
    <2>5. PICK told, silent \in SUBSET WakeUp :
            /\ turns' = [count |-> [turns.count EXCEPT ![InHand(w)] = @ + 1],
                         told |-> told, silent |-> silent]
            /\ IsFiniteSet(told) /\ IsFiniteSet(silent)
      <3>1. CASE Starts(w, e)
        BY <2>3, <3>1 DEF Starts, Books
      <3>2. CASE Silently(w, e)
        BY <2>3, <3>2 DEF Silently, Books
      <3> QED
        BY <1>2, <3>1, <3>2
    <2>6. audit' = audit
      BY <1>2 DEF Starts, Silently
    <2> QED
      BY <2>4, <2>5, <2>6 DEF Books
  <1>3. CASE Records(w, e)
    <2>1. InHand(w) \in Msg /\ msg[InHand(w)].activations \in Nat
      BY <1>3, InHandListed DEF Records, Typed, MsgRow
    <2>2. audit' = audit \/ \E x \in WakeUp : audit' = audit \cup {x}
      BY <1>0, <1>3, <2>1 DEF Records
    <2>3. audit' \subseteq WakeUp /\ IsFiniteSet(audit')
      BY <2>2, FS_AddElement DEF Books
    <2> QED
      BY <1>3, <2>3 DEF Records, Books
  <1> QED
    BY <1>1, <1>2, <1>3 DEF Turn

LEMMA TickBooks ==
    ASSUME Books, Tick
    PROVE  /\ Books' /\ audit' = Aged(audit) /\ turns'.told = Aged(turns.told)
           /\ turns'.count = turns.count
  <1>1. /\ turns.told \in SUBSET WakeUp /\ turns.silent \in SUBSET WakeUp
        /\ audit \in SUBSET WakeUp
    BY DEF Books
  <1>2. /\ audit' = Aged(audit) /\ turns'.told = Aged(turns.told)
        /\ turns'.silent = Aged(turns.silent) /\ turns'.count = turns.count
        /\ turns' = [count |-> turns'.count, told |-> turns'.told, silent |-> turns'.silent]
    BY DEF Tick, Books
  <1>3. /\ audit' \subseteq WakeUp /\ IsFiniteSet(audit')
        /\ turns'.told \subseteq WakeUp /\ IsFiniteSet(turns'.told)
        /\ turns'.silent \subseteq WakeUp /\ IsFiniteSet(turns'.silent)
    BY <1>1, <1>2, AgedTyped DEF Books
  <1> QED
    BY <1>2, <1>3 DEF Books

-----------------------------------------------------------------------------
(***************************************************************************)
(* Lists and attempts                                                       *)
(***************************************************************************)

LEMMA TurnListings ==
    ASSUME Typed, Watches, Listings, NEW w \in Watchers, NEW e, Turn(w, e)
    PROVE  Listings'
  <1>0. Hands(w, e) /\ watch'[w] = e /\ \A v \in Watchers \ {w} : watch'[v] = watch[v]
    BY WatchMoves DEF Turn
  <1>1. CASE Listing(w, e)
    <2>1. \A c \in e.todo : Home[To[c.msg]] = w /\ msg[c.msg].activations < MaxAttempts
      BY <1>1 DEF Listing, Candidates
    <2>2. \A c, d \in e.todo : c.msg = d.msg => c = d
      BY <1>1 DEF Listing
    <2> QED
      BY <1>0, <1>1, <2>1, <2>2 DEF Listings, Listed, Listing
  <1>2. CASE Looks(w, e) \/ Starts(w, e) \/ Silently(w, e)
    BY <1>0, <1>2 DEF Listings, Listed, Looks, Starts, Silently
  <1>3. CASE Records(w, e)
    <2> DEFINE c0 == First(watch[w].todo)
    <2>1. c0 \in watch[w].todo /\ InHand(w) = c0.msg
      BY <1>3, InHandListed DEF Records, InHand
    <2>2. \A v \in Watchers : \A c \in watch'[v].todo :
            c \in watch[v].todo /\ c.msg \in Msg /\ c.msg # InHand(w)
      <3> SUFFICES ASSUME NEW v \in Watchers, NEW c \in watch'[v].todo
                   PROVE  c \in watch[v].todo /\ c.msg \in Msg /\ c.msg # InHand(w)
        OBVIOUS
      <3>1. c \in watch[v].todo /\ (v = w => c # c0)
        BY <1>0, <1>3 DEF Records
      <3>2. c.msg = InHand(w) => v = w
        BY <2>1, <3>1 DEF Listings, Listed
      <3>3. c.msg # InHand(w)
        BY <2>1, <3>1, <3>2 DEF Listings, Listed
      <3>4. c.msg \in Msg
        BY <3>1 DEF Watches, Lists
      <3> QED
        BY <3>1, <3>3, <3>4
    <2>3. \A m \in Msg \ {InHand(w)} : msg'[m] = msg[m]
      BY <1>3, RecordMoves
    <2> QED
      BY <2>2, <2>3 DEF Listings, Listed
  <1>4. CASE Dies(w, e)
    BY <1>0, <1>4 DEF Listings, Listed, Dies, Idle
  <1> QED
    BY <1>1, <1>2, <1>3, <1>4 DEF Turn

LEMMA TurnNumbered ==
    ASSUME Typed, Watches, Books, Listings, Numbered, NEW w \in Watchers, NEW e, Turn(w, e)
    PROVE  Numbered'
  <1>1. CASE \/ Listing(w, e) \/ Looks(w, e) \/ Starts(w, e) \/ Silently(w, e)
             \/ Dies(w, e)
    BY <1>1 DEF Listing, Looks, Starts, Silently, Dies, Numbered
  <1>2. CASE Records(w, e)
    <2> DEFINE m == InHand(w)
    <2>1. /\ m \in Msg /\ msg'[m].activations = msg[m].activations + 1
          /\ \A x \in Msg \ {m} : msg'[x] = msg[x]
      BY <1>2, RecordMoves
    <2>2. msg[m].activations \in Nat
      BY <2>1 DEF Typed, MsgRow
    <2>3. \A x \in audit : x.msg \in Msg /\ x.n \in Nat
      BY DEF Books, WakeUp
    <2>4. \A x \in audit : x.n < msg'[x.msg].activations
      BY <2>1, <2>2, <2>3 DEF Numbered
    <2>5. ASSUME NEW x \in audit'
          PROVE  x.n < msg'[x.msg].activations
      <3>1. CASE x \in audit
        BY <2>4, <3>1
      <3>2. CASE x \notin audit
        <4>1. x.msg = m /\ x.n = msg[m].activations
          BY <1>2, <3>2 DEF Records
        <4> QED
          BY <4>1, <2>1, <2>2
      <3> QED
        BY <3>1, <3>2
    <2> QED
      BY <2>5 DEF Numbered
  <1> QED
    BY <1>1, <1>2 DEF Turn

LEMMA TurnSpent ==
    ASSUME Typed, Watches, Books, Listings, Spent, NEW w \in Watchers, NEW e, Turn(w, e)
    PROVE  Spent'
  <1>0. watch'[w] = e /\ \A v \in Watchers \ {w} : watch'[v] = watch[v]
    BY WatchMoves DEF Turn
  <1>1. \A m \in Msg : turns.count[m] \in Nat /\ msg[m].activations \in Nat /\ crashes \in Nat
    BY WatcherAssumption DEF Typed, Books, MsgRow
  <1>2. CASE Listing(w, e) \/ Looks(w, e)
    <2>1. \A m \in Msg : Paying(watch, m) => Paying(watch', m)
      BY <1>0, <1>2 DEF Listing, Looks, Paying
    <2> QED
      BY <1>1, <1>2, <2>1 DEF Listing, Looks, Spent
  <1>3. CASE Starts(w, e) \/ Silently(w, e)
    <2> DEFINE h == InHand(w)
    <2>1. h \in Msg /\ First(watch[w].todo) \in watch[w].todo
      BY <1>3, InHandListed DEF Starts, Silently
    <2>2. ~Paying(watch, h)
      <3> SUFFICES ASSUME NEW v \in Watchers, watch[v].pc \in {"started", "unavailable"},
                          First(watch[v].todo).msg = h
                   PROVE  FALSE
        BY DEF Paying
      <3>1. First(watch[v].todo) \in watch[v].todo
        BY InHandListed
      <3>2. v = w
        BY <2>1, <3>1 DEF Listings, Listed, InHand
      <3> QED
        BY <1>3, <3>2 DEF Starts, Silently
    <2>3. Paying(watch', h)
      BY <1>0, <1>3 DEF Paying, Starts, Silently, InHand
    <2>4. \A m \in Msg \ {h} : Paying(watch', m) <=> Paying(watch, m)
      BY <1>0, <1>3 DEF Paying, Starts, Silently, InHand
    <2>5. /\ turns'.count[h] = turns.count[h] + 1
          /\ \A m \in Msg \ {h} : turns'.count[m] = turns.count[m]
      BY <1>3, <2>1 DEF Starts, Silently, Books
    <2> QED
      BY <1>1, <1>3, <2>1, <2>2, <2>3, <2>4, <2>5 DEF Starts, Silently, Spent
  <1>4. CASE Records(w, e)
    <2> DEFINE h == InHand(w)
    <2>1. /\ h \in Msg /\ msg'[h].activations = msg[h].activations + 1
          /\ \A m \in Msg \ {h} : msg'[m] = msg[m]
      BY <1>4, RecordMoves
    <2>2. \A m \in Msg \ {h} : Paying(watch', m) <=> Paying(watch, m)
      BY <1>0, <1>4 DEF Paying, Records, InHand
    <2>3. ASSUME NEW m \in Msg
          PROVE  turns'.count[m] =< msg'[m].activations + crashes'
                                      + (IF Paying(watch', m) THEN 1 ELSE 0)
      <3>1. /\ turns.count[m] =< msg[m].activations + crashes
                                   + (IF Paying(watch, m) THEN 1 ELSE 0)
            /\ turns' = turns /\ crashes' = crashes
        BY <1>4 DEF Records, Spent
      <3>2. CASE m = h
        BY <1>1, <2>1, <3>1, <3>2
      <3>3. CASE m # h
        BY <2>1, <2>2, <3>1, <3>3
      <3> QED
        BY <3>2, <3>3
    <2> QED
      BY <2>3 DEF Spent
  <1>5. CASE Dies(w, e)
    BY <1>1, <1>5 DEF Dies, Spent
  <1> QED
    BY <1>2, <1>3, <1>4, <1>5 DEF Turn

-----------------------------------------------------------------------------
(***************************************************************************)
(* Peers                                                                    *)
(***************************************************************************)

\* How the counts of watchers change in a turn of w that keeps its list.
LEMMA TurnHeld ==
    ASSUME Watches, NEW w \in Watchers, NEW e, Turn(w, e), NEW p,
           NEW pc \in {"started", "activate"}
    PROVE  Held(watch', pc, p)
             = Held(watch, pc, p)
                 + (IF e.pc = pc /\ From[First(e.todo).msg] = p THEN 1 ELSE 0)
                 - (IF watch[w].pc = pc /\ From[InHand(w)] = p THEN 1 ELSE 0)
  <1>1. watch'[w] = e /\ \A v \in Watchers \ {w} : watch'[v] = watch[v]
    BY WatchMoves DEF Turn
  <1>2. Held(watch', pc, p) = Held(watch, pc, p) + One(e, pc, p) - One(watch[w], pc, p)
    BY <1>1, HeldMoves
  <1> QED
    BY <1>2 DEF InHand, One

LEMMA BooksAreNat ==
    ASSUME Books, Typed, NEW p, NEW k
    PROVE  /\ Seen(audit, p, k) \in Nat /\ Seen(turns.told, p, k) \in Nat
           /\ crashes \in Nat
           /\ Held(watch, "started", p) \in Nat /\ Held(watch, "activate", p) \in Nat
  BY SeenIsNat, HeldIsNat, WatcherAssumption DEF Books, Typed

\* What the audit of a peer gains when a turn is recorded.
LEMMA RecordSeen ==
    ASSUME Books, Numbered, NEW w \in Watchers, NEW e, Records(w, e), NEW p, NEW k \in Nat
    PROVE  Seen(audit', p, k)
             = Seen(audit, p, k)
                 + (IF watch[w].pc = "started" /\ From[InHand(w)] = p THEN 1 ELSE 0)
  <1>0. Seen(audit, p, k) \in Nat
    BY SeenIsNat DEF Books
  <1>1. CASE watch[w].pc = "started"
    <2>1. PICK x : /\ x = [msg |-> InHand(w), n |-> msg[InHand(w)].activations, age |-> 0]
                   /\ audit' = audit \cup {x}
      BY <1>1 DEF Records
    <2>2. x.msg = InHand(w) /\ x.n = msg[InHand(w)].activations /\ x.age = 0
      BY <2>1
    <2>3. x \notin audit
      <3>1. SUFFICES ASSUME x \in audit PROVE FALSE
        OBVIOUS
      <3>2. x.n < x.n
        BY <2>2, <3>1 DEF Numbered
      <3>3. x.n \in Nat
        BY <3>1 DEF Books, WakeUp
      <3> QED
        BY <3>2, <3>3
    <2>4. Seen(audit \cup {x}, p, k)
            = IF From[x.msg] = p /\ x.age =< k THEN Seen(audit, p, k) + 1
              ELSE Seen(audit, p, k)
      BY <2>3, SeenOneMore DEF Books
    <2> QED
      BY <1>0, <1>1, <2>1, <2>2, <2>4
  <1>2. CASE watch[w].pc # "started"
    BY <1>0, <1>2 DEF Records
  <1> QED
    BY <1>1, <1>2

\* What a peer is seen to have spent when a turn starts.
LEMMA StartSeen ==
    ASSUME Books, NEW w \in Watchers, NEW e, Starts(w, e), NEW p, NEW k \in Nat
    PROVE  Seen(turns'.told, p, k)
             =< Seen(turns.told, p, k) + (IF From[InHand(w)] = p THEN 1 ELSE 0)
  <1>0. IsFiniteSet(turns.told) /\ Seen(turns.told, p, k) \in Nat
    BY SeenIsNat DEF Books
  <1>1. PICK x : /\ x = [msg |-> InHand(w), n |-> turns.count[InHand(w)], age |-> 0]
                 /\ turns'.told = turns.told \cup {x}
    BY DEF Starts, NewTurn, Current, InHand, First
  <1>2. x.msg = InHand(w) /\ x.age = 0
    BY <1>1
  <1>3. CASE x \in turns.told
    <2>1. turns'.told = turns.told
      BY <1>1, <1>3
    <2> QED
      BY <1>0, <2>1
  <1>4. CASE x \notin turns.told
    <2>1. Seen(turns.told \cup {x}, p, k)
            = IF From[x.msg] = p /\ x.age =< k THEN Seen(turns.told, p, k) + 1
              ELSE Seen(turns.told, p, k)
      BY <1>0, <1>4, SeenOneMore
    <2> QED
      BY <1>0, <1>1, <1>2, <2>1
  <1> QED
    BY <1>3, <1>4

LEMMA TurnPeerSpent ==
    ASSUME Typed, Watches, Books, Numbered, PeerSpent,
           NEW w \in Watchers, NEW e, Turn(w, e), Typed', Books'
    PROVE  PeerSpent'
  <1> SUFFICES ASSUME NEW p \in Peers, NEW k \in 0..Minute - 1
               PROVE  Seen(turns'.told, p, k)
                        =< Seen(audit', p, k) + Held(watch', "started", p) + crashes'
    BY DEF PeerSpent
  <1>1. /\ Seen(turns.told, p, k)
             =< Seen(audit, p, k) + Held(watch, "started", p) + crashes
        /\ k \in Nat
    BY WatcherAssumption DEF PeerSpent
  <1>2. /\ Seen(audit, p, k) \in Nat /\ Seen(turns.told, p, k) \in Nat
        /\ Held(watch, "started", p) \in Nat /\ crashes \in Nat
    BY BooksAreNat
  <1>3. Held(watch', "started", p)
          = Held(watch, "started", p)
              + (IF e.pc = "started" /\ From[First(e.todo).msg] = p THEN 1 ELSE 0)
              - (IF watch[w].pc = "started" /\ From[InHand(w)] = p THEN 1 ELSE 0)
    BY TurnHeld
  <1>4. CASE Listing(w, e) \/ Looks(w, e) \/ Silently(w, e)
    <2>1. Held(watch', "started", p) = Held(watch, "started", p)
      BY <1>2, <1>3, <1>4 DEF Listing, Looks, Silently
    <2>2. turns'.told = turns.told /\ audit' = audit /\ crashes' = crashes
      BY <1>4 DEF Listing, Looks, Silently
    <2> QED
      BY <1>1, <2>1, <2>2
  <1>5. CASE Starts(w, e)
    <2>1. Held(watch', "started", p)
            = Held(watch, "started", p) + (IF From[InHand(w)] = p THEN 1 ELSE 0)
      BY <1>2, <1>3, <1>5 DEF Starts, InHand
    <2>2. Seen(turns'.told, p, k)
            =< Seen(turns.told, p, k) + (IF From[InHand(w)] = p THEN 1 ELSE 0)
      BY <1>1, <1>5, StartSeen
    <2>3. Seen(turns'.told, p, k) \in Nat
      BY SeenIsNat DEF Books
    <2>4. audit' = audit /\ crashes' = crashes
      BY <1>5 DEF Starts
    <2> QED
      BY <1>1, <1>2, <2>1, <2>2, <2>3, <2>4
  <1>6. CASE Records(w, e)
    <2>1. Seen(audit', p, k)
            = Seen(audit, p, k)
                + (IF watch[w].pc = "started" /\ From[InHand(w)] = p THEN 1 ELSE 0)
      BY <1>1, <1>6, RecordSeen
    <2>2. Held(watch', "started", p)
            = Held(watch, "started", p)
                - (IF watch[w].pc = "started" /\ From[InHand(w)] = p THEN 1 ELSE 0)
      BY <1>2, <1>3, <1>6 DEF Records
    <2>3. turns' = turns /\ crashes' = crashes
      BY <1>6 DEF Records
    <2> QED
      BY <1>1, <1>2, <2>1, <2>2, <2>3
  <1>7. CASE Dies(w, e)
    <2>1. Held(watch', "started", p) >= Held(watch, "started", p) - 1
      BY <1>2, <1>3
    <2>2. Held(watch', "started", p) \in Nat
      BY HeldIsNat
    <2>3. turns' = turns /\ audit' = audit /\ crashes' = crashes + 1
      BY <1>7 DEF Dies
    <2> QED
      BY <1>1, <1>2, <2>1, <2>2, <2>3
  <1> QED
    BY <1>4, <1>5, <1>6, <1>7 DEF Turn

LEMMA TickPeerSpent ==
    ASSUME Typed, Books, PeerSpent, Tick
    PROVE  PeerSpent'
  <1> SUFFICES ASSUME NEW p \in Peers, NEW k \in 0..Minute - 1
               PROVE  Seen(turns'.told, p, k)
                        =< Seen(audit', p, k) + Held(watch', "started", p) + crashes'
    BY DEF PeerSpent
  <1>1. audit' = Aged(audit) /\ turns'.told = Aged(turns.told)
    BY TickBooks
  <1>2. watch' = watch /\ crashes' = crashes
    BY DEF Tick
  <1>3. /\ Seen(turns'.told, p, k) = IF k = 0 THEN 0 ELSE Seen(turns.told, p, k - 1)
        /\ Seen(audit', p, k) = IF k = 0 THEN 0 ELSE Seen(audit, p, k - 1)
    BY <1>1, AgedSeen DEF Books
  <1>4. Held(watch, "started", p) \in Nat /\ crashes \in Nat
    BY BooksAreNat
  <1>5. CASE k = 0
    BY <1>2, <1>3, <1>4, <1>5
  <1>6. CASE k # 0
    <2>1. k - 1 \in 0..Minute - 1
      BY <1>6, WatcherAssumption
    <2> QED
      BY <1>2, <1>3, <1>6, <2>1 DEF PeerSpent
  <1> QED
    BY <1>5, <1>6

\* The peer's budget as a watcher reads it.
LEMMA BudgetIsSeen ==
    ASSUME Books, NEW m \in Msg, From[m] \in Peers, PeerActivationBudgetLeft(m)
    PROVE  Seen(audit, From[m], Minute - 1) < PeerMaxTurns
  <1>1. From[m] # Local
    BY WatcherAssumption
  <1>2. OfPeer(audit, From[m], Minute - 1) = {x \in audit : From[x.msg] = From[m]}
    BY WatcherAssumption DEF Books, WakeUp, OfPeer
  <1> QED
    BY <1>1, <1>2 DEF PeerActivationBudgetLeft, Seen

LEMMA TurnPeerBooked ==
    ASSUME Typed, Watches, Books, Numbered, PeerBooked,
           NEW w \in Watchers, NEW e, Turn(w, e), Typed', Books'
    PROVE  PeerBooked'
  <1> SUFFICES ASSUME NEW p \in Peers
               PROVE  Seen(audit', p, Minute - 1) + Held(watch', "started", p)
                        + Held(watch', "activate", p)
                          =< PeerMaxTurns + Cardinality(Watchers) - 1
    BY DEF PeerBooked
  <1>1. Seen(audit, p, Minute - 1) + Held(watch, "started", p) + Held(watch, "activate", p)
          =< PeerMaxTurns + Cardinality(Watchers) - 1
    BY DEF PeerBooked
  <1>2. /\ Seen(audit, p, Minute - 1) \in Nat /\ Minute - 1 \in Nat
        /\ Held(watch, "started", p) \in Nat /\ Held(watch, "activate", p) \in Nat
        /\ PeerMaxTurns \in Nat /\ Cardinality(Watchers) \in Nat
    BY BooksAreNat, WatcherAssumption, FS_CardinalityType
  <1>3. /\ Held(watch', "started", p)
             = Held(watch, "started", p)
                 + (IF e.pc = "started" /\ From[First(e.todo).msg] = p THEN 1 ELSE 0)
                 - (IF watch[w].pc = "started" /\ From[InHand(w)] = p THEN 1 ELSE 0)
        /\ Held(watch', "activate", p)
             = Held(watch, "activate", p)
                 + (IF e.pc = "activate" /\ From[First(e.todo).msg] = p THEN 1 ELSE 0)
                 - (IF watch[w].pc = "activate" /\ From[InHand(w)] = p THEN 1 ELSE 0)
    BY TurnHeld
  <1>4. Held(watch', "started", p) \in Nat /\ Held(watch', "activate", p) \in Nat
    BY HeldIsNat
  <1>5. CASE Listing(w, e) \/ Silently(w, e) \/ Dies(w, e)
    <2>1. /\ Held(watch', "started", p) =< Held(watch, "started", p)
          /\ Held(watch', "activate", p) =< Held(watch, "activate", p)
      BY <1>2, <1>3, <1>5 DEF Listing, Silently, Dies, Idle
    <2>2. audit' = audit
      BY <1>5 DEF Listing, Silently, Dies
    <2> QED
      BY <1>1, <1>2, <1>4, <2>1, <2>2
  <1>6. CASE Looks(w, e)
    <2>0. audit' = audit /\ watch[w].pc # "started" /\ e.pc # "started"
            /\ e.todo = watch[w].todo
      BY <1>6 DEF Looks
    <2>1. CASE e.pc = "activate" /\ From[InHand(w)] = p
      <3>1. InHand(w) \in Msg
        BY <1>6, InHandListed DEF Looks
      <3>2. Seen(audit, p, Minute - 1) < PeerMaxTurns
        BY <1>6, <2>1, <3>1, BudgetIsSeen DEF Looks
      <3>3. Held(watch', "started", p) + Held(watch', "activate", p) =< Cardinality(Watchers)
        BY HeldApart DEF Held
      <3> QED
        BY <1>2, <1>4, <2>0, <3>2, <3>3
    <2>2. CASE ~(e.pc = "activate" /\ From[InHand(w)] = p)
      <3>1. /\ Held(watch', "started", p) = Held(watch, "started", p)
            /\ Held(watch', "activate", p) =< Held(watch, "activate", p)
        BY <1>2, <1>3, <2>0, <2>2 DEF InHand
      <3> QED
        BY <1>1, <1>2, <1>4, <2>0, <3>1
    <2> QED
      BY <2>1, <2>2
  <1>7. CASE Starts(w, e)
    <2>1. /\ audit' = audit /\ watch[w].pc = "activate" /\ e.pc = "started"
          /\ e.todo = watch[w].todo
      BY <1>7 DEF Starts
    <2>2. Held(watch', "started", p) + Held(watch', "activate", p)
            = Held(watch, "started", p) + Held(watch, "activate", p)
      BY <1>2, <1>3, <2>1 DEF InHand
    <2> QED
      BY <1>1, <1>2, <1>4, <2>1, <2>2
  <1>8. CASE Records(w, e)
    <2>1. Seen(audit', p, Minute - 1)
            = Seen(audit, p, Minute - 1)
                + (IF watch[w].pc = "started" /\ From[InHand(w)] = p THEN 1 ELSE 0)
      BY <1>2, <1>8, RecordSeen
    <2>2. /\ Held(watch', "started", p)
               = Held(watch, "started", p)
                   - (IF watch[w].pc = "started" /\ From[InHand(w)] = p THEN 1 ELSE 0)
          /\ Held(watch', "activate", p) = Held(watch, "activate", p)
      BY <1>2, <1>3, <1>8 DEF Records
    <2> QED
      BY <1>1, <1>2, <2>1, <2>2
  <1> QED
    BY <1>5, <1>6, <1>7, <1>8 DEF Turn

LEMMA TickPeerBooked ==
    ASSUME Typed, Books, PeerBooked, Tick
    PROVE  PeerBooked'
  <1> SUFFICES ASSUME NEW p \in Peers
               PROVE  Seen(audit', p, Minute - 1) + Held(watch', "started", p)
                        + Held(watch', "activate", p)
                          =< PeerMaxTurns + Cardinality(Watchers) - 1
    BY DEF PeerBooked
  <1>1. Minute - 1 \in 0..Minute - 1 /\ Minute - 1 \in Nat
    BY WatcherAssumption
  <1>2. audit' = Aged(audit) /\ watch' = watch
    BY TickBooks DEF Tick
  <1>3. Seen(audit', p, Minute - 1)
          = IF Minute - 1 = 0 THEN 0 ELSE Seen(audit, p, Minute - 1 - 1)
    <2>1. audit \in SUBSET WakeUp /\ IsFiniteSet(audit)
      BY DEF Books
    <2>2. Seen(Aged(audit), p, Minute - 1)
            = IF Minute - 1 = 0 THEN 0 ELSE Seen(audit, p, Minute - 1 - 1)
      BY <1>1, <2>1, AgedSeen
    <2> QED
      BY <1>2, <2>2
  <1>4. Seen(audit, p, Minute - 1) \in Nat
    BY BooksAreNat
  <1>5. Seen(audit', p, Minute - 1) =< Seen(audit, p, Minute - 1)
    <2>1. CASE Minute - 1 = 0
      BY <1>3, <1>4, <2>1
    <2>2. CASE Minute - 1 # 0
      <3>1. Minute - 1 - 1 \in Nat /\ Minute - 1 - 1 =< Minute - 1
        BY <1>1, <2>2, WatcherAssumption
      <3> QED
        BY <1>1, <1>3, <2>2, <3>1, SeenGrows DEF Books
    <2> QED
      BY <2>1, <2>2
  <1>6. /\ Seen(audit', p, Minute - 1) \in Nat
        /\ Held(watch, "started", p) \in Nat /\ Held(watch, "activate", p) \in Nat
        /\ PeerMaxTurns \in Nat /\ Cardinality(Watchers) \in Nat
    BY <1>2, AgedTyped, SeenIsNat, HeldIsNat, WatcherAssumption, FS_CardinalityType DEF Books
  <1> QED
    BY <1>2, <1>4, <1>5, <1>6 DEF PeerBooked

-----------------------------------------------------------------------------
(***************************************************************************)
(* Theorems                                                                 *)
(***************************************************************************)

LEMMA InitSound == Init => Sound
  <1> SUFFICES ASSUME Init PROVE Sound
    OBVIOUS
  <1>1. Typed
    BY WatcherAssumption DEF Init, Typed, MsgRow
  <1>2. Watches
    BY DEF Init, Watches, Idle, Pcs, Lists
  <1>3. Books
    BY FS_EmptySet DEF Init, Books
  <1>4. Listings /\ Numbered
    BY DEF Init, Listings, Listed, Numbered, Idle
  <1>5. Spent
    <2>1. \A m \in Msg : ~Paying(watch, m)
      BY DEF Init, Paying, Idle
    <2>2. \A m \in Msg : turns.count[m] = 0 /\ msg[m].activations = 0 /\ crashes = 0
      BY DEF Init
    <2> QED
      BY <2>1, <2>2 DEF Spent
  <1>6. ASSUME NEW p, NEW k
        PROVE  Seen(audit, p, k) = 0 /\ Seen(turns.told, p, k) = 0
    <2>1. OfPeer(audit, p, k) = {} /\ OfPeer(turns.told, p, k) = {}
      BY DEF Init, OfPeer
    <2> QED
      BY <2>1, FS_EmptySet DEF Seen
  <1>7. ASSUME NEW p, NEW pc \in {"started", "activate"}
        PROVE  Held(watch, pc, p) = 0
    <2>1. Holding(watch, pc, p) = {}
      BY DEF Init, Holding, Idle
    <2> QED
      BY <2>1, FS_EmptySet DEF Held
  <1>8. PeerSpent
    BY <1>6, <1>7 DEF PeerSpent, Init
  <1>9. PeerBooked
    <2>1. Cardinality(Watchers) \in Nat /\ Cardinality(Watchers) # 0 /\ PeerMaxTurns \in Nat
      BY WatcherAssumption, FS_CardinalityType, FS_EmptySet
    <2> QED
      BY <1>6, <1>7, <2>1 DEF PeerBooked
  <1> QED
    BY <1>1, <1>2, <1>3, <1>4, <1>5, <1>8, <1>9 DEF Sound

LEMMA NextSound == Sound /\ [Next]_vars => Sound'
  <1> SUFFICES ASSUME Sound, [Next]_vars PROVE Sound'
    OBVIOUS
  <1> USE DEF Sound
  <1>1. ASSUME UNCHANGED <<audit, watch, turns, crashes>>, Typed',
               \A m \in Msg : msg'[m].activations = msg[m].activations
        PROVE  Sound'
    <2>1. Watches' /\ Books' /\ PeerSpent' /\ PeerBooked'
      BY <1>1 DEF Watches, Books, PeerSpent, PeerBooked
    <2>2. Listings'
      BY <1>1 DEF Listings, Listed, Watches, Lists
    <2>3. Numbered'
      BY <1>1 DEF Numbered, Books, WakeUp
    <2>4. Spent'
      BY <1>1 DEF Spent
    <2> QED
      BY <1>1, <2>1, <2>2, <2>3, <2>4
  <1>2. CASE \/ \E m \in Msg : Arrive(m) \/ Claim(m) \/ Requeue(m) \/ Finish(m) \/ Withdraw(m)
             \/ \E m \in Msg : SetPolicy(m)
             \/ \E x \in Endpoint : Unbind(x) \/ Bind(x)
    BY <1>1, <1>2, MailIsElsewhere DEF Elsewhere
  <1>3. CASE Tick
    <2>1. /\ Typed' /\ Books'
          /\ \A m \in Msg : msg'[m].activations = msg[m].activations
          /\ watch' = watch /\ crashes' = crashes /\ turns'.count = turns.count
          /\ audit' = Aged(audit)
      BY <1>3, TickTyped, TickBooks DEF Tick
    <2>2. Watches'
      BY <2>1 DEF Watches
    <2>3. Listings'
      BY <2>1 DEF Listings, Listed, Watches, Lists
    <2>4. Numbered'
      <3> SUFFICES ASSUME NEW x \in audit'
                   PROVE  x.n < msg'[x.msg].activations
        BY DEF Numbered
      <3>1. PICK y \in audit : x = Older(y)
        BY <2>1, AgedTyped DEF Books
      <3>2. y \in WakeUp
        BY DEF Books
      <3>3. x.n = y.n /\ x.msg = y.msg /\ y.msg \in Msg
        BY <3>1, <3>2, OlderFields DEF WakeUp
      <3> QED
        BY <2>1, <3>3 DEF Numbered
    <2>5. Spent'
      BY <2>1 DEF Spent
    <2>6. PeerSpent' /\ PeerBooked'
      BY <1>3, TickPeerSpent, TickPeerBooked
    <2> QED
      BY <2>1, <2>2, <2>3, <2>4, <2>5, <2>6
  <1>4. ASSUME NEW w \in Watchers, Step(w) \/ Crash(w)
        PROVE  Sound'
    <2>1. PICK e : Turn(w, e)
      BY <1>4, StepIsTurn
    <2>2. UNCHANGED <<online, allowed>>
      BY <1>4, StepIsTurn
    <2>3. crashes' =< MaxCrashes
      <3>1. CASE Step(w)
        <4>1. crashes' = crashes
          BY <3>1 DEF Step, List, Refuse, ReadBudget, ReadPeerBudget, RateLimited,
                      ActivateStarts, ActivateUnanswered, ActivateFails, Activated, Goes
        <4> QED
          BY <4>1, WatcherAssumption DEF Typed
      <3>2. CASE Crash(w)
        BY <3>2, WatcherAssumption DEF Crash, Typed
      <3> QED
        BY <1>4, <3>1, <3>2
    <2>4. Typed'
      BY <2>1, <2>2, <2>3, TurnTyped
    <2>5. Books'
      BY <2>1, TurnBooks
    <2>6. Watches'
      BY <2>1, WatchMoves DEF Turn
    <2>7. Listings' /\ Numbered' /\ Spent'
      BY <2>1, TurnListings, TurnNumbered, TurnSpent
    <2>8. PeerSpent' /\ PeerBooked'
      BY <2>1, <2>4, <2>5, TurnPeerSpent, TurnPeerBooked
    <2> QED
      BY <2>4, <2>5, <2>6, <2>7, <2>8
  <1>5. CASE UNCHANGED vars
    <2>1. Typed'
      BY <1>5 DEF vars, Typed
    <2> QED
      BY <1>1, <1>5, <2>1 DEF vars
  <1> QED
    BY <1>2, <1>3, <1>4, <1>5 DEF Next

LEMMA SoundAlways == Spec => []Sound
  BY InitSound, NextSound, PTL DEF Spec

\* Every variable keeps its type: a message has no more attempts than
\* max_attempts in any interleaving of passes, and a pass in progress has a list.
THEOREM WatcherTyped == Spec => []TypeOK
  <1>1. Sound => TypeOK
    BY DEF Sound, Typed, Watches, Books, TypeOK, MsgRow, Pcs, Lists
  <1> QED
    BY <1>1, SoundAlways, PTL

\* For any number of messages, agents and instances, a message starts at most
\* max_attempts turns, and one more for every watcher that was killed between
\* starting a turn and recording it.
THEOREM AttemptsBoundTurns == Spec => []TurnsPerMessage
  <1>1. Sound => TurnsPerMessage
    <2> SUFFICES ASSUME Sound, NEW m \in Msg
                 PROVE  turns.count[m] =< MaxAttempts + crashes
      BY DEF TurnsPerMessage
    <2>1. /\ turns.count[m] \in Nat /\ crashes \in Nat /\ MaxAttempts \in Nat
          /\ msg[m].activations \in 0..MaxAttempts
      BY WatcherAssumption DEF Sound, Typed, Books, MsgRow
    <2>2. turns.count[m] =< msg[m].activations + crashes
                              + (IF Paying(watch, m) THEN 1 ELSE 0)
      BY DEF Sound, Spent
    <2>3. CASE Paying(watch, m)
      <3>1. PICK w \in Watchers :
              watch[w].pc \in {"started", "unavailable"} /\ InHand(w) = m
        BY <2>3 DEF Paying, InHand
      <3>2. msg[m].activations < MaxAttempts
        BY <3>1, InHandListed DEF Sound, Listings, Listed, InHand
      <3> QED
        BY <2>1, <2>2, <3>2
    <2>4. CASE ~Paying(watch, m)
      BY <2>1, <2>2, <2>4
    <2> QED
      BY <2>3, <2>4
  <1> QED
    BY <1>1, SoundAlways, PTL

\* However many instances run on a host, their watchers start at most one turn
\* more than a peer's budget for every further watcher, one for every watcher
\* that was killed before it recorded a turn, and those whose answer was lost.
THEOREM PeersOverrunLittle == Spec => []PeerOverrunBounded
  <1>1. Sound => PeerOverrunBounded
    <2> SUFFICES ASSUME Sound, NEW p \in Peers
                 PROVE  Cardinality(TurnsOf(p, turns.told \cup turns.silent))
                          =< PeerMaxTurns + (Cardinality(Watchers) - 1) + crashes
                               + Cardinality(TurnsOf(p, turns.silent))
      BY DEF PeerOverrunBounded
    <2> DEFINE k == Minute - 1
               told == TurnsOf(p, turns.told)
               silent == TurnsOf(p, turns.silent)
    <2>1. k \in 0..Minute - 1
      BY WatcherAssumption
    <2>2. told = OfPeer(turns.told, p, k)
      BY WatcherAssumption DEF Sound, Books, WakeUp, OfPeer, TurnsOf
    <2>3. Seen(turns.told, p, k) =< Seen(audit, p, k) + Held(watch, "started", p) + crashes
      BY <2>1 DEF Sound, PeerSpent
    <2>4. Seen(audit, p, k) + Held(watch, "started", p) + Held(watch, "activate", p)
            =< PeerMaxTurns + Cardinality(Watchers) - 1
      BY DEF Sound, PeerBooked
    <2>5. /\ Seen(audit, p, k) \in Nat /\ Seen(turns.told, p, k) \in Nat
          /\ crashes \in Nat /\ PeerMaxTurns \in Nat /\ Cardinality(Watchers) \in Nat
          /\ Held(watch, "started", p) \in Nat /\ Held(watch, "activate", p) \in Nat
      BY BooksAreNat, WatcherAssumption, FS_CardinalityType DEF Sound
    <2>6. Cardinality(told) =< PeerMaxTurns + (Cardinality(Watchers) - 1) + crashes
      <3>1. Seen(turns.told, p, k) =< PeerMaxTurns + (Cardinality(Watchers) - 1) + crashes
        <4> HIDE DEF k
        <4> QED
          BY <2>3, <2>4, <2>5
      <3> QED
        BY <2>2, <3>1 DEF Seen
    <2>7. TurnsOf(p, turns.told \cup turns.silent) = told \cup silent
      BY DEF TurnsOf
    <2>8. told \in SUBSET turns.told /\ silent \in SUBSET turns.silent
      BY DEF TurnsOf
    <2>9. IsFiniteSet(told) /\ IsFiniteSet(silent)
      <3>1. IsFiniteSet(turns.told) /\ IsFiniteSet(turns.silent)
        BY DEF Sound, Books
      <3> HIDE DEF told, silent
      <3> QED
        BY <2>8, <3>1, FS_Subset
    <2>10. Cardinality(told \cup silent) =< Cardinality(told) + Cardinality(silent)
      <3> HIDE DEF told, silent
      <3>1. Cardinality(told \cup silent)
              = Cardinality(told) + Cardinality(silent) - Cardinality(told \cap silent)
        BY <2>9, FS_Union
      <3>2. IsFiniteSet(told \cap silent)
        BY <2>9, FS_Intersection
      <3>3. /\ Cardinality(told \cap silent) \in Nat /\ Cardinality(told) \in Nat
            /\ Cardinality(silent) \in Nat
        BY <2>9, <3>2, FS_CardinalityType
      <3> QED
        BY <3>1, <3>3
    <2>11. Cardinality(told) \in Nat /\ Cardinality(silent) \in Nat
             /\ Cardinality(told \cup silent) \in Nat
      <3> HIDE DEF told, silent
      <3>1. IsFiniteSet(told \cup silent)
        BY <2>9, FS_Union
      <3> QED
        BY <2>9, <3>1, FS_CardinalityType
    <2>12. Cardinality(told \cup silent)
             =< PeerMaxTurns + (Cardinality(Watchers) - 1) + crashes + Cardinality(silent)
      <3> HIDE DEF told, silent
      <3> QED
        BY <2>5, <2>6, <2>10, <2>11
    <2> QED
      BY <2>7, <2>12, Zenon
  <1> QED
    BY <1>1, SoundAlways, PTL
=============================================================================
