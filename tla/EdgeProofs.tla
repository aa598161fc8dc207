----------------------------- MODULE EdgeProofs -----------------------------
(***************************************************************************)
(* The four components at the edge of the runtime, each on its own: the     *)
(* gates that decide who may ask for what, the reader that turns bytes into *)
(* frames, the pass that keeps agents' addresses in step with the layout,   *)
(* and the lookup of an endpoint by name.                                   *)
(***************************************************************************)
EXTENDS MeshGate, Wire, Reconcile, Naming,
        FiniteSetTheorems, WellFoundedInduction, TLAPS

-----------------------------------------------------------------------------
(***************************************************************************)
(* The gates decide as the reference says, for every set of policies,       *)
(* senders, instances and spaces.                                           *)
(***************************************************************************)

Questions ==
    /\ policy \in Policies
    /\ gate \in Gate
    /\ req \in Requests

Asked == Questions /\ rule \in {"unasked", Evaluate(policy, gate, req)}

\* A ruled gate of a policy holds an admission rule; the operator
\* set_policy stores nothing else.
LEMMA RuleOfGate ==
    ASSUME NEW pol \in PolicyRecord, NEW g \in RuledGate
    PROVE  pol[g] \in AdmitRule
  BY DEF PolicyRecord, RuledGate

\* The peer branch of evaluate admits exactly on the grounds of its rule.
LEMMA PeerVerdict ==
    ASSUME NEW pol \in PolicyRecord, NEW g \in RuledGate, NEW r \in RequestRecord,
           r.kind = "peer"
    PROVE  PeerRule(pol, pol[g], r) # "not_admitted"
                <=> Grounds[pol[g]] \cap Standing(pol, g, r) # {}
  <1> DEFINE a == pol[g]
  <1>1. a \in AdmitRule
    BY RuleOfGate
  <1>2. \A x : x \in Standing(pol, g, r) <=>
                    \/ x = "reply" /\ r.is_reply
                    \/ x = "trusted" /\ (r.sender \in pol.trusted \/ r.peer_trusted)
    BY DEF Standing
  <1>3. /\ "reply" \in Grounds[a] <=> a # "nobody"
        /\ "trusted" \in Grounds[a] <=> a \in {"replies_and_trusted", "anyone"}
    BY <1>1 DEF Grounds, AdmitRule
  <1>4. r.is_reply \in BOOLEAN /\ r.peer_trusted \in BOOLEAN
    BY DEF RequestRecord
  <1>5. PeerRule(pol, a, r) # "not_admitted" <=>
            \/ a # "nobody" /\ r.is_reply
            \/ /\ r.peer_trusted \/ r.sender \in pol.trusted
               /\ a \in {"anyone", "replies_and_trusted"}
    BY <1>1, <1>4 DEF PeerRule, AdmitRule
  <1> QED
    BY <1>2, <1>3, <1>5

\* The local branch of evaluate admits exactly on the grounds of its rule.
LEMMA LocalVerdict ==
    ASSUME NEW pol \in PolicyRecord, NEW g \in RuledGate, NEW r \in RequestRecord,
           r.kind # "peer"
    PROVE  LocalRule(pol, g, pol[g], r) # "not_admitted"
                <=> Grounds[pol[g]] \cap Standing(pol, g, r) # {}
  <1> DEFINE a == pol[g]
             operator == r.kind = "local_user" /\ g = "make_visible"
  <1>1. a \in AdmitRule
    BY RuleOfGate
  <1>2. \A x : x \in Standing(pol, g, r) <=>
                    \/ x = "reply" /\ r.is_reply
                    \/ x = "team" /\ SameInstance(pol, r)
                    \/ x = "trusted" /\ r.sender \in pol.trusted
                    \/ x = "operator" /\ operator
                    \/ x = "local"
    BY DEF Standing
  <1>3. /\ "reply" \in Grounds[a] <=> a # "nobody"
        /\ "team" \in Grounds[a]
                <=> a \in {"replies_and_team", "replies_and_trusted", "anyone"}
        /\ "trusted" \in Grounds[a] <=> a \in {"replies_and_trusted", "anyone"}
        /\ "operator" \in Grounds[a] <=> a \in {"replies_and_trusted", "anyone"}
        /\ "local" \in Grounds[a] <=> a = "anyone"
    BY <1>1 DEF Grounds, AdmitRule
  <1>4. r.is_reply \in BOOLEAN
    BY DEF RequestRecord
  <1>5. LocalRule(pol, g, a, r) # "not_admitted" <=>
            \/ operator /\ a = "replies_and_trusted"
            \/ r.is_reply /\ a # "nobody"
            \/ a = "anyone"
            \/ a = "replies_and_trusted" /\ r.sender \in pol.trusted
            \/ /\ a \in {"replies_and_trusted", "replies_and_team"}
               /\ SameInstance(pol, r)
    BY <1>1, <1>4 DEF LocalRule, AdmitRule
  <1> QED
    BY <1>2, <1>3, <1>5

\* Both branches together: Policy::evaluate at a ruled gate.
LEMMA EvaluateVerdict ==
    ASSUME NEW pol \in PolicyRecord, NEW g \in RuledGate, NEW r \in RequestRecord
    PROVE  Evaluate(pol, g, r) # "not_admitted"
                <=> Grounds[pol[g]] \cap Standing(pol, g, r) # {}
  <1>1. g \notin SwitchGate
    BY DEF RuledGate, SwitchGate
  <1> QED
    BY <1>1, PeerVerdict, LocalVerdict DEF Evaluate

\* The state a question goes through: evaluate has not been called, or has
\* answered.
LEMMA AskedInvariant == GateSpec => []Asked
  <1>1. GateInit => Asked
    BY DEF GateInit, Asked, Questions
  <1>2. Asked /\ [GateNext]_gateVars => Asked'
    BY DEF Asked, Questions, GateNext, AskGate, gateVars
  <1> QED
    BY <1>1, <1>2, PTL DEF GateSpec

\* Policy::evaluate opens a ruled gate exactly when the rule configured there
\* grants one of the grounds the sender has.
THEOREM VerdictsAreGrounded == GateSpec => []VerdictMatchesGrounds
  <1>1. Asked => VerdictMatchesGrounds
    <2> SUFFICES ASSUME Asked, rule # "unasked", gate \in RuledGate
                 PROVE  rule # "not_admitted" <=>
                            Grounds[policy[gate]] \cap Standing(policy, gate, req) # {}
      BY DEF VerdictMatchesGrounds
    <2>1. policy \in PolicyRecord /\ req \in RequestRecord
      BY GateAssumption DEF Asked, Questions
    <2>2. rule = Evaluate(policy, gate, req)
      BY DEF Asked
    <2> QED
      BY <2>1, <2>2, EvaluateVerdict
  <1> QED
    BY <1>1, AskedInvariant, PTL

\* An operator who widens the rule of a gate never shuts out a sender that
\* evaluate admitted there before.
THEOREM WideningIsMonotone == GateSpec => []WideningNeverRefuses
  <1>1. Asked => WideningNeverRefuses
    <2> SUFFICES ASSUME Asked, gate \in RuledGate, NEW wider \in AdmitRule,
                        Narrower(policy[gate], wider), Allowed(policy, gate, req)
                 PROVE  Allowed([policy EXCEPT ![gate] = wider], gate, req)
      BY DEF WideningNeverRefuses
    <2> DEFINE widened == [policy EXCEPT ![gate] = wider]
    <2>1. policy \in PolicyRecord /\ req \in RequestRecord
      BY GateAssumption DEF Asked, Questions
    <2>2. /\ widened \in PolicyRecord
          /\ widened[gate] = wider
          /\ widened.team = policy.team /\ widened.trusted = policy.trusted
      BY <2>1 DEF PolicyRecord, RuledGate
    <2>3. Standing(widened, gate, req) = Standing(policy, gate, req)
      BY <2>2 DEF Standing, SameInstance
    <2>4. Evaluate(policy, gate, req) # "not_admitted"
      BY DEF Allowed
    <2>5. Grounds[policy[gate]] \cap Standing(policy, gate, req) # {}
      BY <2>1, <2>4, EvaluateVerdict
    <2>6. Grounds[wider] \cap Standing(widened, gate, req) # {}
      BY <2>3, <2>5 DEF Narrower
    <2>7. Evaluate(widened, gate, req) # "not_admitted"
      BY <2>1, <2>2, <2>6, EvaluateVerdict
    <2>8. Evaluate(widened, gate, req) # "disabled"
      <3>1. gate \notin SwitchGate
        BY DEF RuledGate, SwitchGate
      <3> QED
        BY <3>1 DEF Evaluate, PeerRule, LocalRule
    <2> QED
      BY <2>7, <2>8 DEF Allowed
  <1> QED
    BY <1>1, AskedInvariant, PTL

-----------------------------------------------------------------------------
(***************************************************************************)
(* The reader hands on the frames of every stream, in order and whole, and  *)
(* stops only at its end.                                                   *)
(***************************************************************************)

\* Every set of naturals that is not empty has a least element.
LEMMA LeastNatural ==
    ASSUME NEW T \in SUBSET Nat, T # {}
    PROVE  \E x \in T : \A y \in T : x =< y
  <1> DEFINE R == OpToRel(<, Nat)
  <1>1. IsWellFoundedOn(R, Nat)
    BY NatLessThanWellFounded
  <1>2. \E x \in T : \A y \in T : ~(<<y, x>> \in R)
    <2> HIDE DEF R
    <2> QED
      BY <1>1, WFMin
  <1>3. \A x, y \in Nat : <<y, x>> \notin R => x =< y
    BY DEF OpToRel
  <1> QED
    BY <1>2, <1>3

LEMMA StartsEquation ==
    ASSUME NEW s \in Seq(Item)
    PROVE  \A k \in 1..Len(s) + 1 :
               StartsOf(s)[k] = IF k = 1 THEN 0 ELSE StartsOf(s)[k - 1] + SizeOf(s[k - 1])
  <1> DEFINE G(f, k) == IF k = 1 THEN 0 ELSE f[k - 1] + SizeOf(s[k - 1])
             Solves(f, n) == f = [k \in 1..n |-> G(f, k)]
             T == {n \in Nat : ~ \E f : Solves(f, n)}
  <1>1. ASSUME T # {} PROVE FALSE
    <2>1. PICK m \in Nat : m \in T /\ \A n \in 0..m - 1 : n \notin T
      <3>1. T \subseteq Nat
        OBVIOUS
      <3> HIDE DEF T
      <3>2. PICK m \in T : \A n \in T : m =< n
        BY <1>1, <3>1, LeastNatural
      <3>3. m \in Nat /\ \A n \in 0..m - 1 : n \notin T
        BY <3>1, <3>2
      <3> QED
        BY <3>2, <3>3
    <2>2. m \in Nat /\ ~ \E f : Solves(f, m)
      <3> HIDE DEF Solves
      <3> QED
        BY <2>1
    <2>3. CASE m = 0
      <3> DEFINE f == [k \in 1..0 |-> 0]
      <3>1. f = [k \in 1..0 |-> G(f, k)]
        OBVIOUS
      <3> QED
        BY <2>2, <2>3, <3>1
    <2>4. CASE m # 0
      <3>1. m - 1 \in Nat /\ m - 1 \notin T
        <4> HIDE DEF T
        <4> QED
          BY <2>1, <2>4
      <3>2. PICK f : Solves(f, m - 1)
        <4> HIDE DEF Solves
        <4> QED
          BY <3>1
      <3> DEFINE g == [k \in 1..m |-> G(f, k)]
      <3>3. \A k \in 1..m : G(g, k) = G(f, k)
        <4> TAKE k \in 1..m
        <4>1. CASE k = 1
          BY <4>1
        <4>2. CASE k # 1
          <5>1. k - 1 \in 1..m - 1 /\ k - 1 \in 1..m
            BY <2>2, <4>2
          <5> HIDE DEF G
          <5>2. g[k - 1] = G(f, k - 1)
            BY <5>1
          <5>3. f[k - 1] = G(f, k - 1)
            BY <3>2, <5>1
          <5>4. g[k - 1] = f[k - 1]
            BY <5>2, <5>3
          <5> HIDE DEF g
          <5> QED
            BY <4>2, <5>4 DEF G
        <4> QED
          BY <4>1, <4>2
      <3>4. Solves(g, m)
        <4> HIDE DEF G
        <4> QED
          BY <3>3
      <3> QED
        BY <2>2, <3>4
    <2> QED
      BY <2>3, <2>4
  <1>2. \E f : Solves(f, Len(s) + 1)
    <2>1. Len(s) + 1 \in Nat
      OBVIOUS
    <2> HIDE DEF Solves
    <2> QED
      BY <1>1, <2>1
  <1>3. StartsOf(s) = CHOOSE f : Solves(f, Len(s) + 1)
    BY DEF StartsOf
  <1>4. Solves(StartsOf(s), Len(s) + 1)
    <2> HIDE DEF Solves
    <2> QED
      BY <1>2, <1>3
  <1> HIDE DEF Solves
  <1>5. StartsOf(s) = [k \in 1..Len(s) + 1 |-> G(StartsOf(s), k)]
    BY <1>4 DEF Solves
  <1> HIDE DEF G
  <1>6. \A k \in 1..Len(s) + 1 : StartsOf(s)[k] = G(StartsOf(s), k)
    BY <1>5
  <1> QED
    BY <1>6 DEF G

LEMMA SizeIsPositive ==
    ASSUME NEW item \in Item
    PROVE  SizeOf(item) \in Nat \ {0}
  BY WireAssumption DEF SizeOf, HeaderOf, Item

\* Items follow each other on the carrier without gaps, so no two of them
\* begin at the same position.
LEMMA StartsGrow ==
    ASSUME NEW s \in Seq(Item)
    PROVE  /\ StartsOf(s)[1] = 0
           /\ \A k \in 1..Len(s) + 1 : StartsOf(s)[k] \in Nat
           /\ \A k \in 1..Len(s) : StartsOf(s)[k + 1] = StartsOf(s)[k] + SizeOf(s[k])
           /\ \A j, k \in 1..Len(s) + 1 : StartsOf(s)[j] = StartsOf(s)[k] => j = k
  <1> DEFINE at(k) == StartsOf(s)[k]
             N == Len(s) + 1
  <1>1. N \in Nat \ {0}
    OBVIOUS
  <1>2. at(1) = 0
    BY <1>1, StartsEquation
  <1>3. \A k \in 1..N : k # 1 => k - 1 \in 1..N /\ at(k) = at(k - 1) + SizeOf(s[k - 1])
    BY <1>1, StartsEquation
  <1>4. \A k \in 1..N : k # 1 => SizeOf(s[k - 1]) \in Nat \ {0}
    <2> TAKE k \in 1..N
    <2> HAVE k # 1
    <2>1. s[k - 1] \in Item
      OBVIOUS
    <2> QED
      BY <2>1, SizeIsPositive
  <1> HIDE DEF at, N
  <1>5. \A k \in 1..N : at(k) \in Nat
    <2> DEFINE T == {k \in 1..N : at(k) \notin Nat}
    <2>1. ASSUME T # {} PROVE FALSE
      <3>1. T \in SUBSET Nat
        BY <1>1
      <3>2. PICK k \in T : \A j \in T : k =< j
        <4> HIDE DEF T
        <4> QED
          BY <2>1, <3>1, LeastNatural
      <3>3. k # 1 /\ k \in 1..N
        BY <1>2
      <3>4. at(k - 1) \in Nat
        BY <1>1, <1>3, <3>2, <3>3
      <3> QED
        BY <1>3, <1>4, <3>3, <3>4
    <2> QED
      BY <2>1
  <1>6. \A j, k \in 1..N : j < k => at(j) < at(k)
    <2> DEFINE T == {k \in 1..N : \E j \in 1..N : j < k /\ ~(at(j) < at(k))}
    <2>1. ASSUME T # {} PROVE FALSE
      <3>1. T \in SUBSET Nat
        BY <1>1
      <3>2. PICK k \in T : \A j \in T : k =< j
        <4> HIDE DEF T
        <4> QED
          BY <2>1, <3>1, LeastNatural
      <3>3. PICK j \in 1..N : j < k /\ ~(at(j) < at(k))
        OBVIOUS
      <3>4. k \in 1..N /\ k # 1 /\ k - 1 \in 1..N /\ k - 1 \notin T
        BY <1>1, <3>2, <3>3
      <3>5. at(j) =< at(k - 1)
        <4>1. CASE j = k - 1
          BY <4>1, <1>5, <3>4
        <4>2. CASE j # k - 1
          <5>1. j < k - 1
            BY <1>1, <3>3, <3>4, <4>2
          <5> QED
            BY <1>5, <3>4, <5>1
        <4> QED
          BY <4>1, <4>2
      <3>6. at(k - 1) < at(k)
        BY <1>3, <1>4, <1>5, <3>4
      <3>7. at(j) \in Nat /\ at(k - 1) \in Nat /\ at(k) \in Nat
        BY <1>5, <3>4
      <3> QED
        BY <3>3, <3>5, <3>6, <3>7
    <2> QED
      BY <2>1
  <1>7. \A k \in 1..Len(s) : at(k + 1) = at(k) + SizeOf(s[k])
    <2> TAKE k \in 1..Len(s)
    <2>1. k + 1 \in 1..N /\ k + 1 # 1 /\ (k + 1) - 1 = k
      BY DEF N
    <2> QED
      BY <1>3, <2>1
  <1>8. \A j, k \in 1..N : at(j) = at(k) => j = k
    <2> TAKE j, k \in 1..N
    <2>1. j \in Nat /\ k \in Nat /\ at(j) \in Nat /\ at(k) \in Nat
      BY <1>1, <1>5
    <2> QED
      BY <1>6, <2>1
  <1> QED
    BY <1>2, <1>5, <1>7, <1>8 DEF at, N

\* What the reader passes to the thread that owns the store.
Message ==
    [type : {"item"}, item : Nat] \cup [type : {"closed", "failed"}, why : {"truncated", "carrier", "violation", "stalled"}]

WireTyped ==
    /\ stream \in Streams /\ total \in Nat
    /\ reader \in [pc : {"read", "push", "decode", "send", "done"},
                   rest : Nat, taken : Nat, item : Nat]
    /\ decoder \in [pushed : Nat, drained : Nat, hello : BOOLEAN, failed : BOOLEAN]
    /\ chan \in Seq(Message)
    /\ main \in {"hello", "pump", "closed", "failed", "refused", "unreachable", "gone"}
    /\ handled \in Seq(Nat)

\* The decoder's buffer is not full whenever bytes are pushed, so a push takes
\* some.
BufferSound ==
    /\ decoder.drained =< decoder.pushed
    /\ Buffered =< Capacity
    /\ reader.pc \in {"read", "push"} => Buffered < Capacity
    /\ reader.pc = "push" => reader.rest > 0
    /\ reader.pc \in {"decode", "send"} => reader.taken > 0
    /\ NeverStalls

\* Item k is one that a peer may send there: the hello first, then frames.
SoundItem(k) ==
    /\ k \in 1..Len(stream)
    /\ stream[k].type = "hello" <=> k = 1
    /\ stream[k].valid /\ stream[k].fits
    /\ stream[k].len \in 1..IF k = 1 THEN MaxHello ELSE MaxFrame

\* How many items the thread that owns the store has taken.
Taken == IF main = "hello" THEN 0 ELSE Len(handled) + 1

HandledSound ==
    /\ \A i \in 1..Len(handled) : handled[i] = i + 1 /\ SoundItem(i + 1)
    /\ main = "hello" => handled = <<>>
    /\ main = "closed" => total = Begin(Len(handled) + 2)

\* The channel holds the items after those, and last how the stream ended.
ChanSound ==
    \A i \in 1..Len(chan) :
        \/ chan[i].type = "item" /\ chan[i].item = Taken + i /\ SoundItem(Taken + i)
        \/ /\ chan[i].type # "item" /\ i = Len(chan) /\ reader.pc = "done"
           /\ chan[i].type = "closed" => total = Begin(Taken + i)

\* The item after those, where the decoder stands.
NextItem == Taken + Len(chan) + 1

ReaderSound ==
    /\ reader.pc \in {"read", "push", "decode"} =>
        /\ NextItem \in 1..Len(stream) + 1
        /\ decoder.drained = Begin(NextItem)
        /\ decoder.hello <=> NextItem > 1
    /\ reader.pc = "send" =>
        /\ reader.item = NextItem /\ SoundItem(NextItem)
        /\ decoder.drained = Begin(NextItem + 1)
        /\ decoder.hello

InOrder ==
    /\ HandledSound
    /\ main \in {"hello", "pump"} => ChanSound /\ ReaderSound

\* The item the decoder finds at a position is one that begins there.
LEMMA AtIsAnItem ==
    ASSUME NEW pos, NEW type, At(pos, type) # 0
    PROVE  /\ At(pos, type) \in 1..Len(stream)
           /\ Begin(At(pos, type)) = pos /\ stream[At(pos, type)].type = type
  <1> DEFINE here == {k \in 1..Len(stream) : Begin(k) = pos /\ stream[k].type = type}
  <1>1. here # {} /\ At(pos, type) \in here
    BY DEF At
  <1> QED
    BY <1>1

\* An item whose length is accepted fits the buffer with its header.
LEMMA ItemsFit ==
    ASSUME WireTyped, NEW k \in 1..Len(stream), stream[k].type = Expected,
           stream[k].len \in 1..MaxLen
    PROVE  SizeOf(stream[k]) \in 1..Capacity
  <1>1. decoder.hello \in BOOLEAN
    BY DEF WireTyped
  <1>2. HeaderOf(Expected) + MaxLen \in 0..Capacity /\ HeaderOf(Expected) \in Nat /\ MaxLen \in Nat
    BY <1>1, WireAssumption DEF Expected, MaxLen, HeaderOf, Capacity
  <1>3. SizeOf(stream[k]) = HeaderOf(Expected) + stream[k].len
    BY DEF SizeOf
  <1>4. Capacity \in Nat
    BY WireAssumption DEF Capacity
  <1> QED
    BY <1>2, <1>3, <1>4

LEMMA WholeItem ==
    ASSUME WireTyped, BodyComplete
    PROVE  /\ Ahead \in 1..Len(stream) /\ Begin(Ahead) = decoder.drained
           /\ stream[Ahead].type = Expected /\ stream[Ahead].len \in 1..MaxLen
           /\ stream[Ahead].fits
           /\ SizeOf(stream[Ahead]) \in 1..Capacity /\ SizeOf(stream[Ahead]) =< Buffered
  <1>1. Ahead # 0 /\ stream[Ahead].len \in 1..MaxLen /\ stream[Ahead].fits
    BY DEF BodyComplete, HeaderBad
  <1>2. /\ Ahead \in 1..Len(stream) /\ Begin(Ahead) = decoder.drained
        /\ stream[Ahead].type = Expected
    BY <1>1, AtIsAnItem DEF Ahead
  <1>3. SizeOf(stream[Ahead]) \in 1..Capacity
    BY <1>1, <1>2, ItemsFit
  <1>4. SizeOf(stream[Ahead]) =< Buffered
    BY <1>3, WireAssumption DEF BodyComplete, WireTyped, Buffered, Capacity
  <1> QED
    BY <1>1, <1>2, <1>3, <1>4

\* An item that is not complete leaves room in the buffer.
LEMMA RoomForMore ==
    ASSUME WireTyped, BufferSound, ~HeaderBad, ~BodyComplete
    PROVE  Buffered < Capacity
  <1>1. Buffered \in Nat
    BY DEF WireTyped, BufferSound, Buffered
  <1>2. CASE ~HeaderComplete
    <2>1. HeaderOf(Expected) \in Nat /\ HeaderOf(Expected) =< Capacity
      BY WireAssumption DEF Expected, HeaderOf, Capacity
    <2> QED
      BY <1>1, <1>2, <2>1, WireAssumption DEF HeaderComplete, Capacity
  <1>3. CASE HeaderComplete
    <2>1. Ahead # 0 /\ stream[Ahead].len \in 1..MaxLen
      BY <1>3 DEF HeaderBad
    <2>2. Ahead \in 1..Len(stream) /\ stream[Ahead].type = Expected
      BY <2>1, AtIsAnItem DEF Ahead
    <2>3. SizeOf(stream[Ahead]) \in 1..Capacity
      BY <2>1, <2>2, ItemsFit
    <2>4. ~(Buffered >= SizeOf(stream[Ahead]))
      BY <1>3 DEF BodyComplete
    <2> QED
      BY <1>1, <2>3, <2>4, WireAssumption DEF Capacity
  <1> QED
    BY <1>2, <1>3

LEMMA EndIsMessage ==
    ASSUME NEW type \in {"closed", "failed"},
           NEW why \in {"truncated", "carrier", "violation", "stalled"}
    PROVE  [type |-> type, why |-> why] \in Message
  BY DEF Message

LEMMA SendsType ==
    ASSUME WireTyped, NEW m \in Message, Sends(m)
    PROVE  chan' \in Seq(Message)
  <1>1. chan \in Seq(Message)
    BY DEF WireTyped
  <1>2. chan' = Append(chan, m) \/ chan' = chan
    BY DEF Sends
  <1> QED
    BY <1>1, <1>2

LEMMA ReceivedType ==
    ASSUME WireTyped, chan # <<>>
    PROVE  Head(chan) \in Message /\ Tail(chan) \in Seq(Message)
  BY DEF WireTyped

\* A reader at another step.
LEMMA ReaderMoves ==
    ASSUME WireTyped, NEW pc \in {"read", "push", "decode", "send", "done"},
           reader' = [reader EXCEPT !.pc = pc]
    PROVE  /\ reader' \in [pc : {"read", "push", "decode", "send", "done"},
                           rest : Nat, taken : Nat, item : Nat]
           /\ reader'.pc = pc /\ reader'.rest = reader.rest
           /\ reader'.taken = reader.taken /\ reader'.item = reader.item
  BY DEF WireTyped

LEMMA PushStep ==
    ASSUME WireTyped, BufferSound, Push
    PROVE  \E take \in 1..reader.rest :
             /\ take =< Capacity - Buffered
             /\ decoder' = [decoder EXCEPT !.pushed = decoder.pushed + take]
             /\ reader' = [reader EXCEPT !.pc = "decode", !.rest = reader.rest - take,
                                        !.taken = take]
  <1> DEFINE room == Capacity - Buffered
             take == IF room < reader.rest THEN room ELSE reader.rest
  <1>1. Capacity \in Nat /\ Buffered \in Nat
    BY WireAssumption DEF Capacity, Buffered, WireTyped, BufferSound
  <1>2. reader.pc = "push" /\ reader.rest \in Nat /\ reader.rest > 0 /\ Buffered < Capacity
    BY DEF WireTyped, BufferSound, Push
  <1>3. take \in 1..reader.rest /\ take =< room
    BY <1>1, <1>2
  <1>4. /\ decoder' = [decoder EXCEPT !.pushed = decoder.pushed + take]
        /\ reader' = [reader EXCEPT !.pc = "decode", !.rest = reader.rest - take,
                                   !.taken = take]
    BY DEF Push
  <1> HIDE DEF take
  <1> QED
    BY <1>3, <1>4

\* Every step keeps the types.
LEMMA WireTypedStep ==
    ASSUME WireTyped, BufferSound, [WireNext]_wireVars
    PROVE  WireTyped'
  <1> USE DEF WireTyped
  <1>1. ASSUME NEW n \in 1..MaxRead, Read(n) PROVE WireTyped'
    <2>1. n \in Nat
      BY WireAssumption
    <2>2. reader' \in [pc : {"read", "push", "decode", "send", "done"},
                      rest : Nat, taken : Nat, item : Nat]
      BY <1>1, <2>1 DEF Read
    <2> QED
      BY <1>1, <2>2 DEF Read
  <1>2. CASE ReadEnd
    <2>1. PICK m \in Message : Ends(m)
      <3>1. \E type \in {"closed", "failed"}, why \in {"truncated", "carrier", "violation"} :
                Ends([type |-> type, why |-> why])
        BY <1>2 DEF ReadEnd
      <3> QED
        BY <3>1, EndIsMessage
    <2>2. chan' \in Seq(Message)
      BY <2>1, SendsType DEF Ends
    <2> QED
      BY <1>2, <2>1, <2>2, ReaderMoves DEF ReadEnd, Ends
  <1>3. CASE ReadFails
    <2>1. PICK m \in Message : Ends(m)
      <3>1. \E type \in {"closed", "failed"}, why \in {"truncated", "carrier", "violation"} :
                Ends([type |-> type, why |-> why])
        BY <1>3 DEF ReadFails
      <3> QED
        BY <3>1, EndIsMessage
    <2>2. chan' \in Seq(Message)
      BY <2>1, SendsType DEF Ends
    <2> QED
      BY <1>3, <2>1, <2>2, ReaderMoves DEF ReadFails, Ends
  <1>4. CASE Push
    <2>1. PICK take \in 1..reader.rest :
             /\ decoder' = [decoder EXCEPT !.pushed = decoder.pushed + take]
             /\ reader' = [reader EXCEPT !.pc = "decode", !.rest = reader.rest - take,
                                        !.taken = take]
      BY <1>4, PushStep
    <2> DEFINE left == reader.rest - take
               upto == decoder.pushed + take
    <2>a. left \in Nat /\ take \in Nat /\ upto \in Nat
      OBVIOUS
    <2>b. /\ decoder' = [decoder EXCEPT !.pushed = upto]
          /\ reader' = [reader EXCEPT !.pc = "decode", !.rest = left, !.taken = take]
      BY <2>1
    <2> HIDE DEF left, upto
    <2>2. reader' \in [pc : {"read", "push", "decode", "send", "done"},
                      rest : Nat, taken : Nat, item : Nat]
      BY <2>a, <2>b
    <2>3. decoder' \in [pushed : Nat, drained : Nat, hello : BOOLEAN, failed : BOOLEAN]
      BY <2>a, <2>b
    <2> QED
      BY <1>4, <2>2, <2>3 DEF Push
  <1>5. CASE Decode
    <2>1. /\ Ahead \in 1..Len(stream)
          /\ SizeOf(stream[Ahead]) \in Nat
      BY <1>5, WholeItem DEF Decode
    <2>2. Drained \in Nat
      BY <2>1 DEF Drained
    <2>3. stream \in Seq(Item) /\ Ahead \in Nat
      BY <2>1, WireAssumption
    <2> QED
      BY <1>5, <2>2, <2>3 DEF Decode
  <1>6. CASE SendItem
    <2>1. [type |-> "item", item |-> reader.item] \in Message
      BY DEF Message
    <2>2. chan' \in Seq(Message)
      BY <1>6, <2>1, SendsType DEF SendItem
    <2>3. PICK pc \in {"done", "decode"} : reader' = [reader EXCEPT !.pc = pc]
      BY <1>6 DEF SendItem
    <2> QED
      BY <1>6, <2>2, <2>3, ReaderMoves DEF SendItem
  <1>7. CASE Violation
    <2>1. PICK m \in Message : Ends(m)
      <3>1. \E type \in {"closed", "failed"}, why \in {"truncated", "carrier", "violation"} :
                Ends([type |-> type, why |-> why])
        BY <1>7 DEF Violation
      <3> QED
        BY <3>1, EndIsMessage
    <2>2. chan' \in Seq(Message)
      BY <2>1, SendsType DEF Ends
    <2>3. reader' = [reader EXCEPT !.pc = "done"]
      BY <2>1 DEF Ends
    <2>4. decoder' = [decoder EXCEPT !.failed = TRUE, !.drained = decoder.pushed]
      BY <1>7 DEF Violation
    <2> QED
      BY <1>7, <2>2, <2>3, <2>4, ReaderMoves DEF Violation
  <1>8. CASE Incomplete
    <2>1. reader.pc = "decode" /\ reader.taken > 0
      BY <1>8 DEF Incomplete, BufferSound
    <2>2. UNCHANGED chan /\ \E pc \in {"push", "read"} : reader' = [reader EXCEPT !.pc = pc]
      BY <1>8, <2>1 DEF Incomplete
    <2> QED
      BY <1>8, <2>2, ReaderMoves DEF Incomplete
  <1>9. ASSUME NEW k \in 1..Len(stream), TakeHello(k) PROVE WireTyped'
    <2>1. chan' \in Seq(Message)
      BY <1>9, ReceivedType DEF TakeHello, Received
    <2> QED
      BY <1>9, <2>1 DEF TakeHello
  <1>10. ASSUME NEW k \in 1..Len(stream), TakeFrame(k) PROVE WireTyped'
    <2>1. chan' \in Seq(Message)
      BY <1>10, ReceivedType DEF TakeFrame, Received
    <2>2. handled' \in Seq(Nat)
      <3>1. k \in Nat /\ handled \in Seq(Nat)
        BY WireAssumption
      <3>2. handled' = Append(handled, k) \/ handled' = handled
        BY <1>10 DEF TakeFrame
      <3> HIDE DEF WireTyped
      <3> QED
        BY <3>1, <3>2
    <2> QED
      BY <1>10, <2>1, <2>2 DEF TakeFrame
  <1>11. CASE TakeEnd
    <2>1. chan' \in Seq(Message)
      BY <1>11, ReceivedType DEF TakeEnd
    <2> QED
      BY <1>11, <2>1 DEF TakeEnd
  <1>12. CASE HandshakeTimeout \/ Leave
    BY <1>12 DEF HandshakeTimeout, Leave
  <1>13. CASE UNCHANGED wireVars
    BY <1>13 DEF wireVars
  <1> QED
    BY <1>1, <1>2, <1>3, <1>4, <1>5, <1>6, <1>7, <1>8, <1>9, <1>10, <1>11, <1>12, <1>13
    DEF WireNext, ReaderStep, MainStep

LEMMA SendsSound ==
    ASSUME WireTyped, NeverStalls, NEW m \in Message, Sends(m),
           m.type = "failed" => m.why # "stalled"
    PROVE  NeverStalls'
  <1>1. chan \in Seq(Message)
    BY DEF WireTyped
  <1>2. CASE chan' = Append(chan, m)
    <2>1. /\ Len(chan') = Len(chan) + 1 /\ chan'[Len(chan) + 1] = m
          /\ \A i \in 1..Len(chan) : chan'[i] = chan[i]
      BY <1>1, <1>2
    <2> QED
      BY <1>1, <2>1 DEF NeverStalls
  <1>3. CASE chan' = chan
    BY <1>3 DEF NeverStalls
  <1> QED
    BY <1>2, <1>3 DEF Sends

LEMMA TakenSound ==
    ASSUME WireTyped, NeverStalls, chan # <<>>, chan' = Tail(chan)
    PROVE  NeverStalls'
  <1>1. chan \in Seq(Message)
    BY DEF WireTyped
  <1>2. /\ Len(chan') = Len(chan) - 1
        /\ \A i \in 1..Len(chan') : chan'[i] = chan[i + 1]
    BY <1>1
  <1> QED
    BY <1>1, <1>2 DEF NeverStalls

\* Every step keeps the buffer from filling up.
LEMMA BufferStep ==
    ASSUME WireTyped, BufferSound, [WireNext]_wireVars
    PROVE  BufferSound'
  <1> DEFINE D == decoder.pushed - decoder.drained
  <1>a. /\ decoder.pushed \in Nat /\ decoder.drained \in Nat /\ reader.rest \in Nat
        /\ reader.taken \in Nat /\ Capacity \in Nat \ {0} /\ Capacity' = Capacity
        /\ Buffered = D /\ Buffered' = decoder'.pushed - decoder'.drained
    BY WireAssumption DEF WireTyped, Capacity, Buffered
  <1>b. ASSUME UNCHANGED <<decoder, reader, chan>> PROVE BufferSound'
    BY <1>b DEF BufferSound, NeverStalls, Buffered, Capacity
  <1>c. ASSUME NEW m \in Message, Ends(m), m.type = "failed" => m.why # "stalled",
               \/ decoder' = decoder
               \/ decoder'.drained = decoder'.pushed /\ decoder'.pushed \in Nat
        PROVE  BufferSound'
    <2>1. NeverStalls'
      BY <1>c, SendsSound DEF Ends, BufferSound
    <2>2. reader'.pc = "done"
      BY <1>c, ReaderMoves DEF Ends
    <2> QED
      BY <1>a, <1>c, <2>1, <2>2 DEF BufferSound
  <1>d. ASSUME UNCHANGED <<decoder, reader>>, chan # <<>>, chan' = Tail(chan)
        PROVE  BufferSound'
    <2>1. NeverStalls'
      BY <1>d, TakenSound DEF BufferSound
    <2> QED
      BY <1>d, <2>1 DEF BufferSound, Buffered, Capacity
  <1>1. ASSUME NEW n \in 1..MaxRead, Read(n) PROVE BufferSound'
    <2>1. n \in Nat /\ n > 0
      BY WireAssumption
    <2>2. reader'.pc = "push" /\ reader'.rest = n /\ reader.pc = "read"
      BY <1>1 DEF Read, WireTyped
    <2>3. UNCHANGED <<decoder, chan>>
      BY <1>1 DEF Read
    <2> QED
      BY <1>a, <2>1, <2>2, <2>3 DEF BufferSound, NeverStalls
  <1>2. CASE ReadEnd
    <2>1. PICK m \in Message : Ends(m) /\ (m.type = "failed" => m.why # "stalled")
      <3>1. \E type \in {"closed", "failed"} : Ends([type |-> type, why |-> "truncated"])
        BY <1>2 DEF ReadEnd
      <3> QED
        BY <3>1, EndIsMessage
    <2> QED
      BY <1>2, <1>c, <2>1 DEF ReadEnd
  <1>3. CASE ReadFails
    <2> DEFINE m == [type |-> "failed", why |-> "carrier"]
    <2>1. m \in Message /\ m.why # "stalled" /\ Ends(m) /\ decoder' = decoder
      BY <1>3, EndIsMessage DEF ReadFails
    <2> HIDE DEF m
    <2> QED
      BY <1>c, <2>1
  <1>4. CASE Push
    <2>1. PICK take \in 1..reader.rest :
             /\ take =< Capacity - Buffered
             /\ decoder' = [decoder EXCEPT !.pushed = decoder.pushed + take]
             /\ reader' = [reader EXCEPT !.pc = "decode", !.rest = reader.rest - take,
                                        !.taken = take]
      BY <1>4, PushStep
    <2>2. decoder'.pushed = decoder.pushed + take /\ decoder'.drained = decoder.drained
      BY <2>1 DEF WireTyped
    <2>3. reader'.pc = "decode" /\ reader'.taken = take
      BY <2>1 DEF WireTyped
    <2>4. take \in Nat \ {0} /\ take =< Capacity - D
      BY <1>a, <2>1
    <2>5. UNCHANGED chan
      BY <1>4 DEF Push
    <2> QED
      BY <1>a, <2>2, <2>3, <2>4, <2>5 DEF BufferSound, NeverStalls
  <1>5. CASE Decode
    <2>1. SizeOf(stream[Ahead]) \in 1..Capacity /\ SizeOf(stream[Ahead]) =< Buffered
      BY <1>5, WholeItem DEF Decode
    <2>2. /\ decoder'.pushed = decoder.pushed
          /\ decoder'.drained = decoder.drained + SizeOf(stream[Ahead])
      BY <1>5 DEF Decode, Drained, WireTyped
    <2>3. reader'.pc = "send" /\ reader'.taken = reader.taken /\ reader.pc = "decode"
      BY <1>5 DEF Decode, WireTyped
    <2>4. UNCHANGED chan
      BY <1>5 DEF Decode
    <2> QED
      BY <1>a, <2>1, <2>2, <2>3, <2>4 DEF BufferSound, NeverStalls
  <1>6. CASE SendItem
    <2> DEFINE m == [type |-> "item", item |-> reader.item]
    <2>1. m \in Message /\ m.type # "failed" /\ Sends(m)
      BY <1>6 DEF SendItem, Message, WireTyped
    <2> HIDE DEF m
    <2>2. NeverStalls'
      BY <2>1, SendsSound DEF BufferSound
    <2>3. PICK pc \in {"done", "decode"} : reader' = [reader EXCEPT !.pc = pc]
      BY <1>6 DEF SendItem
    <2>4. reader'.pc = pc /\ reader'.taken = reader.taken /\ reader.pc = "send"
      BY <1>6, <2>3, ReaderMoves DEF SendItem
    <2>5. UNCHANGED decoder
      BY <1>6 DEF SendItem
    <2> QED
      BY <1>a, <2>2, <2>4, <2>5 DEF BufferSound
  <1>7. CASE Violation
    <2> DEFINE m == [type |-> "failed", why |-> "violation"]
    <2>1. m \in Message /\ m.why # "stalled" /\ Ends(m)
      BY <1>7, EndIsMessage DEF Violation
    <2> HIDE DEF m
    <2>2. decoder'.drained = decoder'.pushed /\ decoder'.pushed \in Nat
      BY <1>7 DEF Violation, WireTyped
    <2> QED
      BY <1>c, <2>1, <2>2
  <1>8. CASE Incomplete
    <2>1. reader.pc = "decode" /\ reader.taken > 0
      BY <1>8 DEF Incomplete, BufferSound
    <2>2. UNCHANGED <<chan, decoder>>
      BY <1>8, <2>1 DEF Incomplete
    <2>3. \/ reader.rest > 0 /\ reader' = [reader EXCEPT !.pc = "push"]
          \/ reader' = [reader EXCEPT !.pc = "read"]
      BY <1>8, <2>1 DEF Incomplete
    <2>4. \/ reader'.pc = "push" /\ reader'.rest > 0
          \/ reader'.pc = "read"
      BY <2>3, ReaderMoves
    <2>5. Buffered < Capacity
      BY <1>8, RoomForMore DEF Incomplete
    <2> QED
      BY <1>a, <2>2, <2>4, <2>5 DEF BufferSound, NeverStalls
  <1>9. ASSUME NEW k \in 1..Len(stream), TakeHello(k) \/ TakeFrame(k) PROVE BufferSound'
    BY <1>9, <1>d DEF TakeHello, TakeFrame, Received
  <1>10. CASE TakeEnd
    BY <1>10, <1>d DEF TakeEnd
  <1>11. CASE HandshakeTimeout \/ Leave
    BY <1>11, <1>b DEF HandshakeTimeout, Leave
  <1>12. CASE UNCHANGED wireVars
    BY <1>12, <1>b DEF wireVars
  <1> QED
    BY <1>1, <1>2, <1>3, <1>4, <1>5, <1>6, <1>7, <1>8, <1>9, <1>10, <1>11, <1>12
    DEF WireNext, ReaderStep, MainStep

\* The items of a carrier begin where they should.
LEMMA BeginsGrow ==
    ASSUME WireTyped
    PROVE  /\ stream \in Seq(Item) /\ Begin(1) = 0
           /\ \A k \in 1..Len(stream) : Begin(k + 1) = Begin(k) + SizeOf(stream[k])
           /\ \A j, k \in 1..Len(stream) + 1 : Begin(j) = Begin(k) => j = k
  <1>1. stream \in Seq(Item)
    BY WireAssumption DEF WireTyped
  <1> QED
    BY <1>1, StartsGrow DEF Begin

\* What the channel and the reader hold is untouched by a step of the reader
\* that passes nothing on and decodes nothing.
LEMMA ReaderGoesOn ==
    ASSUME WireTyped, InOrder, UNCHANGED <<stream, total, chan, main, handled>>,
           decoder'.drained = decoder.drained, decoder'.hello = decoder.hello,
           reader.pc \in {"read", "push", "decode"},
           reader'.pc \in {"read", "push", "decode"}
    PROVE  InOrder'
  <1>1. HandledSound'
    BY DEF InOrder, HandledSound, SoundItem, Begin
  <1>2. ASSUME main \in {"hello", "pump"} PROVE ChanSound' /\ ReaderSound'
    <2>1. ChanSound /\ ReaderSound
      BY <1>2 DEF InOrder
    <2>2. ChanSound'
      BY <2>1 DEF ChanSound, SoundItem, Begin, Taken
    <2>3. ReaderSound'
      BY <2>1 DEF ReaderSound, SoundItem, Begin, Taken, NextItem
    <2> QED
      BY <2>2, <2>3
  <1> QED
    BY <1>1, <1>2 DEF InOrder

\* The stream ends for the reader: it says so in the channel, if anybody
\* receives, and is done.
LEMMA ReaderStops ==
    ASSUME WireTyped, InOrder, NEW m \in Message, Ends(m),
           UNCHANGED <<stream, total, main, handled>>,
           reader.pc \in {"read", "decode"}, m.type # "item",
           m.type = "closed" => reader.pc = "read" /\ decoder.drained = total
    PROVE  InOrder'
  <1>1. HandledSound'
    BY DEF InOrder, HandledSound, SoundItem, Begin
  <1>2. reader'.pc = "done"
    BY ReaderMoves DEF Ends
  <1>3. ASSUME main \in {"hello", "pump"} PROVE ChanSound' /\ ReaderSound'
    <2>1. ChanSound /\ ReaderSound
      BY <1>3 DEF InOrder
    <2>2. chan' = Append(chan, m) /\ chan \in Seq(Message)
      BY <1>3 DEF Ends, Sends, Gone, WireTyped
    <2>3. /\ Len(chan') = Len(chan) + 1 /\ chan'[Len(chan) + 1] = m
          /\ Len(chan) \in Nat
          /\ \A i \in 1..Len(chan) : chan'[i] = chan[i]
      BY <2>2
    <2>4. Taken' = Taken /\ Taken \in Nat
      BY DEF Taken, WireTyped
    <2>5. m.type = "closed" => total = Begin(Taken + (Len(chan) + 1))
      BY <2>1, <2>3, <2>4 DEF ReaderSound, NextItem
    <2>6. ASSUME NEW i \in 1..Len(chan)
          PROVE  chan[i].type = "item" /\ chan[i].item = Taken + i /\ SoundItem(Taken + i)
      BY <2>1 DEF ChanSound
    <2>7. ASSUME NEW i \in 1..Len(chan')
          PROVE  \/ /\ chan'[i].type = "item" /\ chan'[i].item = Taken + i
                    /\ SoundItem(Taken + i)
                 \/ /\ chan'[i].type # "item" /\ i = Len(chan')
                    /\ chan'[i].type = "closed" => total = Begin(Taken + i)
      <3>1. CASE i \in 1..Len(chan)
        BY <2>3, <2>6, <3>1
      <3>2. CASE i = Len(chan) + 1
        BY <2>3, <2>5, <3>2
      <3> QED
        BY <2>3, <3>1, <3>2
    <2>8. ChanSound'
      BY <1>2, <2>4, <2>7 DEF ChanSound, SoundItem, Begin
    <2>9. ReaderSound'
      BY <1>2 DEF ReaderSound
    <2> QED
      BY <2>8, <2>9
  <1> QED
    BY <1>1, <1>3 DEF InOrder

\* The decoder finds the next item, whole, where it stands.
LEMMA DecodeInOrder ==
    ASSUME WireTyped, BufferSound, InOrder, Decode
    PROVE  InOrder'
  <1>1. HandledSound'
    BY DEF InOrder, HandledSound, SoundItem, Begin, Decode
  <1>2. ASSUME main \in {"hello", "pump"} PROVE ChanSound' /\ ReaderSound'
    <2>1. ChanSound /\ ReaderSound /\ reader.pc = "decode"
      BY <1>2 DEF InOrder, Decode
    <2>2. /\ NextItem \in 1..Len(stream) + 1
          /\ decoder.drained = Begin(NextItem)
          /\ decoder.hello <=> NextItem > 1
      BY <2>1 DEF ReaderSound
    <2>3. /\ Ahead \in 1..Len(stream) /\ Begin(Ahead) = decoder.drained
          /\ stream[Ahead].type = Expected /\ stream[Ahead].len \in 1..MaxLen
          /\ stream[Ahead].fits /\ stream[Ahead].valid
      BY WholeItem DEF Decode
    <2>4. Len(stream) \in Nat
      BY BeginsGrow
    <2>5. Ahead = NextItem
      BY <2>2, <2>3, <2>4, BeginsGrow
    <2>6. SoundItem(NextItem)
      <3>1. NextItem \in 1..Len(stream)
        BY <2>3, <2>5
      <3>2. NextItem > 1 <=> NextItem # 1
        BY <2>2, <2>4
      <3>3. stream[NextItem].type = "hello" <=> NextItem = 1
        BY <2>2, <2>3, <2>5, <3>2 DEF Expected
      <3>4. stream[NextItem].len \in 1..IF NextItem = 1 THEN MaxHello ELSE MaxFrame
        BY <2>2, <2>3, <2>5, <3>2 DEF MaxLen
      <3> QED
        BY <2>3, <2>5, <3>1, <3>3, <3>4 DEF SoundItem
    <2>7. decoder'.drained = Begin(NextItem + 1) /\ decoder'.hello
      <3>1. decoder'.drained = decoder.drained + SizeOf(stream[Ahead]) /\ decoder'.hello
        BY DEF Decode, Drained, WireTyped
      <3> QED
        BY <2>3, <2>5, <3>1, BeginsGrow
    <2>8. /\ reader'.pc = "send" /\ reader'.item = NextItem
          /\ UNCHANGED <<stream, total, chan, main, handled>>
      BY <2>5 DEF Decode, WireTyped
    <2>9. ChanSound'
      BY <2>1, <2>8 DEF ChanSound, SoundItem, Begin, Taken
    <2>10. ReaderSound'
      <3>1. NextItem' = NextItem
        BY <2>8 DEF NextItem, Taken
      <3> QED
        BY <2>6, <2>7, <2>8, <3>1 DEF ReaderSound, SoundItem, Begin
    <2> QED
      BY <2>9, <2>10
  <1>3. main' = main
    BY DEF Decode
  <1> QED
    BY <1>1, <1>2, <1>3 DEF InOrder

LEMMA SendInOrder ==
    ASSUME WireTyped, InOrder, SendItem
    PROVE  InOrder'
  <1>1. HandledSound'
    BY DEF InOrder, HandledSound, SoundItem, Begin, SendItem
  <1>2. ASSUME main \in {"hello", "pump"} PROVE ChanSound' /\ ReaderSound'
    <2> DEFINE m == [type |-> "item", item |-> reader.item]
    <2>1. ChanSound /\ ReaderSound /\ reader.pc = "send"
      BY <1>2 DEF InOrder, SendItem
    <2>2. /\ reader.item = NextItem /\ SoundItem(NextItem)
          /\ decoder.drained = Begin(NextItem + 1) /\ decoder.hello
      BY <2>1 DEF ReaderSound
    <2>3. /\ chan' = Append(chan, m) /\ chan \in Seq(Message)
          /\ UNCHANGED <<stream, total, main, handled, decoder>>
          /\ reader'.pc = "decode"
      BY <1>2 DEF SendItem, Sends, Gone, WireTyped
    <2>4. m.type = "item" /\ m.item = NextItem
      BY <2>2
    <2> HIDE DEF m
    <2>5. /\ Len(chan') = Len(chan) + 1 /\ chan'[Len(chan) + 1] = m
          /\ Len(chan) \in Nat
          /\ \A i \in 1..Len(chan) : chan'[i] = chan[i]
      BY <2>3
    <2>6. Taken' = Taken /\ Taken \in Nat
      BY <2>3 DEF Taken, WireTyped
    <2>7. NextItem = Taken + (Len(chan) + 1) /\ NextItem' = NextItem + 1
      BY <2>5, <2>6 DEF NextItem
    <2>8. ASSUME NEW i \in 1..Len(chan')
          PROVE  chan'[i].type = "item" /\ chan'[i].item = Taken + i /\ SoundItem(Taken + i)
      <3>1. CASE i \in 1..Len(chan)
        BY <2>1, <2>5, <3>1 DEF ChanSound
      <3>2. CASE i = Len(chan) + 1
        BY <2>2, <2>4, <2>5, <2>7, <3>2
      <3> QED
        BY <2>5, <3>1, <3>2
    <2>9. ChanSound'
      BY <2>3, <2>6, <2>8 DEF ChanSound, SoundItem
    <2>10. ReaderSound'
      <3>1. NextItem + 1 \in 1..Len(stream) + 1 /\ NextItem + 1 > 1
        BY <2>2, BeginsGrow DEF SoundItem
      <3> QED
        BY <2>2, <2>3, <2>7, <3>1 DEF ReaderSound, Begin
    <2> QED
      BY <2>9, <2>10
  <1>3. main' = main
    BY DEF SendItem
  <1> QED
    BY <1>1, <1>2, <1>3 DEF InOrder

\* The item that is received is the next one, and it is sound.
LEMMA ReceivedSound ==
    ASSUME WireTyped, InOrder, main \in {"hello", "pump"}, NEW k \in Nat,
           Received([type |-> "item", item |-> k])
    PROVE  k = Taken + 1 /\ SoundItem(k)
  <1> DEFINE m == [type |-> "item", item |-> k]
  <1>1. m.type = "item" /\ m.item = k
    OBVIOUS
  <1>2. chan # <<>> /\ Head(chan) = m /\ chan \in Seq(Message)
    BY DEF Received, WireTyped
  <1> HIDE DEF m
  <1>3. 1 \in 1..Len(chan) /\ chan[1] = m
    BY <1>2
  <1>4. ChanSound
    BY DEF InOrder
  <1> QED
    BY <1>1, <1>3, <1>4 DEF ChanSound

\* Taking an item keeps the order of what is left.
LEMMA TakingInOrder ==
    ASSUME WireTyped, InOrder, main \in {"hello", "pump"}, NEW k \in Nat,
           Received([type |-> "item", item |-> k]), UNCHANGED <<stream, total, reader, decoder>>,
           Taken' = Taken + 1
    PROVE  ChanSound' /\ ReaderSound'
  <1>1. ChanSound /\ ReaderSound
    BY DEF InOrder
  <1>2. chan \in Seq(Message) /\ chan # <<>> /\ chan' = Tail(chan)
    BY DEF WireTyped, Received
  <1>3. /\ Len(chan) \in Nat /\ Len(chan') = Len(chan) - 1
        /\ \A i \in 1..Len(chan') : i + 1 \in 1..Len(chan) /\ chan'[i] = chan[i + 1]
    BY <1>2
  <1>4. Taken \in Nat
    BY DEF Taken, WireTyped
  <1>5. ChanSound'
    <2>1. ASSUME NEW i \in 1..Len(chan')
          PROVE  \/ /\ chan'[i].type = "item" /\ chan'[i].item = Taken' + i
                    /\ SoundItem(Taken' + i)
                 \/ /\ chan'[i].type # "item" /\ i = Len(chan') /\ reader.pc = "done"
                    /\ chan'[i].type = "closed" => total = Begin(Taken' + i)
      <3>0. i \in Nat /\ Len(chan') \in Int
        BY <1>3
      <3>1. Taken' + i = Taken + (i + 1) /\ (i + 1 = Len(chan) => i = Len(chan'))
        BY <1>3, <1>4, <3>0
      <3>2. i + 1 \in 1..Len(chan) /\ chan'[i] = chan[i + 1]
        BY <1>3
      <3> QED
        BY <1>1, <3>1, <3>2 DEF ChanSound
    <2> QED
      BY <2>1 DEF ChanSound, SoundItem, Begin
  <1>6. ReaderSound'
    <2>1. NextItem' = NextItem
      BY <1>3, <1>4 DEF NextItem
    <2> QED
      BY <1>1, <2>1 DEF ReaderSound, SoundItem, Begin
  <1> QED
    BY <1>5, <1>6

\* Every step keeps the order.
LEMMA OrderStep ==
    ASSUME WireTyped, BufferSound, InOrder, [WireNext]_wireVars
    PROVE  InOrder'
  <1>a. ASSUME UNCHANGED <<stream, total, handled>>, main' \notin {"hello", "pump", "closed"}
        PROVE  InOrder'
    BY <1>a DEF InOrder, HandledSound, SoundItem, Begin
  <1>1. ASSUME NEW n \in 1..MaxRead, Read(n) PROVE InOrder'
    <2>1. reader.pc = "read" /\ reader'.pc = "push"
      BY <1>1 DEF Read, WireTyped
    <2> QED
      BY <1>1, <2>1, ReaderGoesOn DEF Read
  <1>2. CASE ReadEnd
    <2> DEFINE m == [type |-> IF Finish THEN "closed" ELSE "failed", why |-> "truncated"]
    <2>1. m \in Message /\ m.type # "item" /\ Ends(m) /\ (m.type = "closed" => Finish)
      BY <1>2, EndIsMessage DEF ReadEnd
    <2> HIDE DEF m
    <2>2. m.type = "closed" => decoder.drained = total
      BY <1>2, <2>1 DEF ReadEnd, Finish, Buffered, WireTyped
    <2> QED
      BY <1>2, <2>1, <2>2, ReaderStops DEF ReadEnd
  <1>3. CASE ReadFails
    <2> DEFINE m == [type |-> "failed", why |-> "carrier"]
    <2>1. m \in Message /\ m.type \notin {"item", "closed"} /\ Ends(m)
      BY <1>3, EndIsMessage DEF ReadFails
    <2> HIDE DEF m
    <2> QED
      BY <1>3, <2>1, ReaderStops DEF ReadFails
  <1>4. CASE Push
    <2>1. PICK take \in 1..reader.rest :
             /\ decoder' = [decoder EXCEPT !.pushed = decoder.pushed + take]
             /\ reader' = [reader EXCEPT !.pc = "decode", !.rest = reader.rest - take,
                                        !.taken = take]
      BY <1>4, PushStep
    <2>2. decoder'.drained = decoder.drained /\ decoder'.hello = decoder.hello
      BY <2>1 DEF WireTyped
    <2>3. reader.pc = "push" /\ reader'.pc = "decode"
      BY <1>4, <2>1 DEF Push, WireTyped
    <2> QED
      BY <1>4, <2>2, <2>3, ReaderGoesOn DEF Push
  <1>5. CASE Decode
    BY <1>5, DecodeInOrder
  <1>6. CASE SendItem
    BY <1>6, SendInOrder
  <1>7. CASE Violation
    <2> DEFINE m == [type |-> "failed", why |-> "violation"]
    <2>1. m \in Message /\ m.type \notin {"item", "closed"} /\ Ends(m)
      BY <1>7, EndIsMessage DEF Violation
    <2> HIDE DEF m
    <2> QED
      BY <1>7, <2>1, ReaderStops DEF Violation
  <1>8. CASE Incomplete
    <2>1. reader.pc = "decode" /\ reader.taken > 0
      BY <1>8 DEF Incomplete, BufferSound
    <2>2. PICK pc \in {"push", "read"} : reader' = [reader EXCEPT !.pc = pc]
      BY <1>8, <2>1 DEF Incomplete
    <2>3. reader'.pc \in {"push", "read"}
      BY <2>2, ReaderMoves
    <2>4. UNCHANGED <<stream, total, chan, decoder, main, handled>>
      BY <1>8, <2>1 DEF Incomplete
    <2> QED
      BY <2>1, <2>3, <2>4, ReaderGoesOn
  <1>9. ASSUME NEW k \in 1..Len(stream), TakeHello(k) PROVE InOrder'
    <2>1. main = "hello" /\ k \in Nat /\ UNCHANGED <<stream, total, reader, decoder, handled>>
      BY <1>9 DEF TakeHello
    <2>2. CASE main' = "pump"
      <3>1. handled = <<>>
        BY <2>1 DEF InOrder, HandledSound
      <3>2. Taken' = Taken + 1
        BY <2>1, <2>2, <3>1 DEF Taken
      <3>3. ChanSound' /\ ReaderSound'
        BY <1>9, <2>1, <3>2, TakingInOrder DEF TakeHello
      <3>4. HandledSound'
        BY <2>1, <2>2 DEF InOrder, HandledSound, SoundItem, Begin
      <3> QED
        BY <3>3, <3>4 DEF InOrder
    <2>3. CASE main' = "refused"
      BY <1>a, <2>1, <2>3
    <2> QED
      BY <1>9, <2>2, <2>3 DEF TakeHello
  <1>10. ASSUME NEW k \in 1..Len(stream), TakeFrame(k) PROVE InOrder'
    <2>1. main = "pump" /\ k \in Nat /\ UNCHANGED <<stream, total, reader, decoder>>
      BY <1>10 DEF TakeFrame
    <2>2. k = Taken + 1 /\ SoundItem(k)
      BY <1>10, <2>1, ReceivedSound DEF TakeFrame
    <2>3. CASE handled' = Append(handled, k) /\ main' = main
      <3>1. handled \in Seq(Nat) /\ Len(handled) \in Nat
        BY DEF WireTyped
      <3>2. /\ Len(handled') = Len(handled) + 1 /\ handled'[Len(handled) + 1] = k
            /\ \A i \in 1..Len(handled) : handled'[i] = handled[i]
        BY <2>1, <2>3, <3>1
      <3>3. Taken = Len(handled) + 1 /\ Taken' = Taken + 1
        BY <2>1, <2>3, <3>1, <3>2 DEF Taken
      <3>4. ChanSound' /\ ReaderSound'
        BY <1>10, <2>1, <3>3, TakingInOrder DEF TakeFrame
      <3>5. ASSUME NEW i \in 1..Len(handled')
            PROVE  handled'[i] = i + 1 /\ SoundItem(i + 1)
        <4>1. CASE i \in 1..Len(handled)
          BY <3>2, <4>1 DEF InOrder, HandledSound
        <4>2. CASE i = Len(handled) + 1
          BY <2>2, <3>2, <3>3, <4>2
        <4> QED
          BY <3>1, <3>2, <4>1, <4>2
      <3>6. HandledSound'
        BY <2>1, <2>3, <3>5 DEF HandledSound, SoundItem
      <3> QED
        BY <3>4, <3>6 DEF InOrder
    <2>4. CASE main' = "failed" /\ handled' = handled
      BY <1>a, <2>1, <2>4
    <2> QED
      BY <1>10, <2>3, <2>4 DEF TakeFrame
  <1>11. CASE TakeEnd
    <2>1. /\ chan \in Seq(Message) /\ chan # <<>> /\ main \in {"hello", "pump"}
          /\ Head(chan).type \in {"closed", "failed"}
          /\ UNCHANGED <<stream, total, handled>>
      BY <1>11 DEF TakeEnd, WireTyped
    <2>2. 1 \in 1..Len(chan) /\ Head(chan) = chan[1]
      BY <2>1
    <2>3. CASE main = "pump" /\ chan[1].type = "closed"
      <3>1. main' = "closed"
        BY <1>11, <2>2, <2>3 DEF TakeEnd
      <3>2. total = Begin(Taken + 1)
        BY <2>2, <2>3 DEF InOrder, ChanSound
      <3>3. Taken + 1 = Len(handled) + 2
        BY <2>3 DEF Taken, WireTyped
      <3>4. HandledSound'
        BY <2>1, <3>1, <3>2, <3>3 DEF InOrder, HandledSound, SoundItem, Begin
      <3> QED
        BY <3>1, <3>4 DEF InOrder
    <2>4. CASE ~(main = "pump" /\ chan[1].type = "closed")
      <3>1. main' \in {"failed", "unreachable"}
        BY <1>11, <2>1, <2>2, <2>4 DEF TakeEnd
      <3> QED
        BY <1>a, <2>1, <3>1
    <2> QED
      BY <2>3, <2>4
  <1>12. CASE HandshakeTimeout \/ Leave
    BY <1>12, <1>a DEF HandshakeTimeout, Leave
  <1>13. CASE UNCHANGED wireVars
    <2>1. HandledSound'
      BY <1>13 DEF wireVars, InOrder, HandledSound, SoundItem, Begin
    <2>2. ChanSound => ChanSound'
      BY <1>13 DEF wireVars, ChanSound, SoundItem, Begin, Taken
    <2>3. ReaderSound => ReaderSound'
      BY <1>13 DEF wireVars, ReaderSound, SoundItem, Begin, Taken, NextItem
    <2>4. main' = main
      BY <1>13 DEF wireVars
    <2> QED
      BY <2>1, <2>2, <2>3, <2>4 DEF InOrder
  <1> QED
    BY <1>1, <1>2, <1>3, <1>4, <1>5, <1>6, <1>7, <1>8, <1>9, <1>10, <1>11, <1>12, <1>13
    DEF WireNext, ReaderStep, MainStep

WireSound == WireTyped /\ BufferSound /\ InOrder

\* The types, what the decoder holds and the order of the items are kept together:
\* the order rests on the first two.
LEMMA WireInvariant == WireSpec => []WireSound
  <1>1. WireInit => WireSound
    <2> SUFFICES ASSUME WireInit PROVE WireSound
      OBVIOUS
    <2> USE DEF WireInit
    <2>1. stream \in Seq(Item)
      BY WireAssumption
    <2>2. Begin(1) = 0
      BY <2>1, StartsGrow DEF Begin
    <2>3. Capacity \in Nat \ {0} /\ Buffered = 0
      BY WireAssumption DEF Capacity, Buffered
    <2>4. total \in Nat
      <3>1. Len(stream) + 1 \in 1..Len(stream) + 1
        BY <2>1
      <3>2. Bytes \in Nat
        BY <2>1, <3>1, StartsGrow DEF Bytes, Begin
      <3> QED
        BY <3>2
    <2>5. WireTyped
      BY <2>4 DEF WireTyped
    <2>6. BufferSound
      BY <2>3 DEF BufferSound, NeverStalls
    <2>7. HandledSound /\ ChanSound
      BY DEF HandledSound, ChanSound
    <2>8. ReaderSound
      <3>1. NextItem = 1 /\ NextItem \in 1..Len(stream) + 1
        BY <2>1 DEF NextItem, Taken
      <3> QED
        BY <2>2, <3>1 DEF ReaderSound
    <2> QED
      BY <2>5, <2>6, <2>7, <2>8 DEF WireSound, InOrder
  <1>2. WireSound /\ [WireNext]_wireVars => WireSound'
    BY WireTypedStep, BufferStep, OrderStep DEF WireSound
  <1> QED
    BY <1>1, <1>2, PTL DEF WireSpec

\* A decoder that waits for more bytes has room for them: for every stream and every
\* split of it into reads, an item is refused or decoded before the buffer is full.
THEOREM TheDecoderNeverStalls == WireSpec => []NeverStalls
  <1>1. WireSound => NeverStalls
    BY DEF WireSound, BufferSound
  <1> QED
    BY <1>1, WireInvariant, PTL

\* The frames the connection handles are the first frames of the stream after the
\* hello, whole and in the order they were sent, for every stream and split into reads.
THEOREM FramesAreHandledInOrder == WireSpec => []HandledInOrder
  <1>1. WireSound => HandledInOrder
    <2> SUFFICES ASSUME WireSound PROVE HandledInOrder
      OBVIOUS
    <2>1. handled \in Seq(Nat) /\ HandledSound
      BY DEF WireSound, WireTyped, InOrder
    <2>2. handled = [i \in 1..Len(handled) |-> i + 1]
      <3>1. handled = [i \in 1..Len(handled) |-> handled[i]]
        BY <2>1
      <3> QED
        BY <2>1, <3>1 DEF HandledSound
    <2>3. ASSUME NEW i \in 1..Len(handled)
          PROVE  LET item == stream[handled[i]]
                 IN  item.type = "frame" /\ item.valid /\ item.fits /\ item.len \in 1..MaxFrame
      <3>1. handled[i] = i + 1 /\ SoundItem(i + 1) /\ i + 1 # 1
        BY <2>1 DEF HandledSound
      <3>2. stream \in Seq(Item) /\ i + 1 \in 1..Len(stream)
        BY <3>1, BeginsGrow DEF WireSound, SoundItem
      <3>3. stream[i + 1].type \in {"hello", "frame"}
        <4>1. stream[i + 1] \in Item
          BY <3>2
        <4> QED
          BY <4>1 DEF Item
      <3> QED
        BY <3>1, <3>3 DEF SoundItem
    <2> QED
      BY <2>1, <2>2, <2>3 DEF HandledInOrder, HandledSound
  <1> QED
    BY <1>1, WireInvariant, PTL

-----------------------------------------------------------------------------
(***************************************************************************)
(* A pass over a moving layout writes no agent's address to another's row.  *)
(***************************************************************************)

\* An item's address in its own runtime, read back: its number is at the level
\* that numbers items, and that is what survives a move.
LEMMA PlacementFacts ==
    ASSUME NEW i \in Items, NEW p \in Positions
    PROVE  /\ Placement(i, p) \in Address
           /\ Placement(i, p)[ItemLevel] = i
           /\ StableAnchor(Placement(i, p)) = AnchorOf(i)
  <1> DEFINE a == Placement(i, p)
  <1>1. i \in 1..MaxIndex /\ p[1] \in 0..MaxIndex /\ p[2] \in 0..MaxIndex /\ MaxIndex \in Nat
    BY LayoutAssumption, AddressAssumption
  <1>2. /\ a \in Address /\ a[ItemLevel] = i
        /\ \A l \in Level : l > ItemLevel => a[l] = 0
        /\ Shape = "window" => ItemLevel = 3
        /\ Shape # "window" => ItemLevel = 5
    <2>1. CASE Shape = "window"
      BY <1>1, <2>1 DEF Placement, AnchorOf, ItemLevel, Nowhere, Address, Level, Space, Tab, Window
    <2>2. CASE Shape # "window"
      BY <1>1, <2>2 DEF Placement, AnchorOf, ItemLevel, Nowhere, Address, Level, Frame, Pane
    <2> QED
      BY <2>1, <2>2
  <1>3. ItemLevel \in {3, 5}
    BY <1>2
  <1> DEFINE stable == Named(a) \cap Stable
  <1> HIDE DEF a
  <1>4. ItemLevel \in stable /\ \A l \in stable : l \in 1..5 /\ l <= ItemLevel
    BY <1>1, <1>2, <1>3 DEF Named, Stable, Level, Window, Frame, Pane
  <1>5. (CHOOSE l \in stable : \A m \in stable : m <= l) = ItemLevel
    <2> HIDE DEF stable
    <2>1. \E l \in stable : \A m \in stable : m <= l
      BY <1>4
    <2>2. PICK k : k = CHOOSE l \in stable : \A m \in stable : m <= l
      OBVIOUS
    <2>3. k \in stable /\ \A m \in stable : m <= k
      BY <2>1, <2>2
    <2>4. k = ItemLevel
      BY <1>3, <1>4, <2>3
    <2> QED
      BY <2>2, <2>4
  <1>6. StableAnchor(a) = Only(a, ItemLevel)
    BY <1>4, <1>5 DEF StableAnchor
  <1>7. Only(a, ItemLevel) = AnchorOf(i)
    BY <1>2 DEF Only, AnchorOf
  <1> QED
    BY <1>2, <1>6, <1>7 DEF a

\* In a runtime that is not nested, an item's address is its own placement.
LEMMA TrueIsPlacement ==
    ASSUME Host = Nowhere, NEW i \in Items, NEW p \in Positions
    PROVE  TrueAddress(i, p) = Placement(i, p)
  <1> DEFINE own == Placement(i, p)
  <1>1. own \in Address
    BY PlacementFacts
  <1> HIDE DEF own
  <1>2. Named(Nowhere) = {} /\ \A l \in Level : Nowhere[l] = 0
    BY DEF Named, Nowhere
  <1>3. Join(Nowhere, own) = own
    BY <1>1, <1>2 DEF Join, Address
  <1>4. ResolveAddress(Nowhere, own) = own
    BY <1>2, <1>3 DEF ResolveAddress, Overlap
  <1> QED
    BY <1>4 DEF TrueAddress, own

\* Whom an anchor finds among placed agents: the one in that item.
LEMMA AnchorsAreOwn ==
    ASSUME NEW i \in Items, NEW j \in Items, NEW p \in Positions,
           Satisfies(Placement(j, p), AnchorOf(i))
    PROVE  i = j
  <1>1. Placement(j, p)[ItemLevel] = j
    BY PlacementFacts
  <1>2. ItemLevel \in Level
    BY DEF ItemLevel, Level, Window, Pane
  <1>3. AnchorOf(i)[ItemLevel] = i /\ i # 0
    BY <1>2, LayoutAssumption, AddressAssumption DEF AnchorOf, Nowhere
  <1> QED
    BY <1>1, <1>2, <1>3 DEF Satisfies, Named

\* A place that one of these items has had, as an address.
PlaceOf(seen, among, a) == \E i \in among : \E p \in seen[i] : a = TrueAddress(i, p)

PassRecord ==
  [at : {"idle", "capture", "list", "set"}, layout : {<<>>} \cup [Items -> Positions],
   listed : {<<>>} \cup [Agents -> Address], todo : SUBSET Items]

ChildRecord ==
  [at : {"none", "running", "hung", "exited"},
   layout : {<<>>} \cup [Items -> Positions], printed : Nat]

LayoutTyped ==
  /\ place \in [Items -> Positions]
  /\ been \in [Items -> SUBSET Positions]
  /\ env \in [Items -> Address] /\ address \in [Agents -> Address]
  /\ home \in [Ours -> Items \cup {0}] /\ owed \in [Ours -> SUBSET Items]
  /\ hands \subseteq [agent : Ours, moved : Address]
  /\ pass \in PassRecord
  /\ child \in ChildRecord

\* Everything an address can come from is a place the item has had: its own
\* environment, the report of a move, and the layout a pass works on, however old
\* that is.
PlacesSound ==
  /\ \A i \in Items : place[i] \in been[i]
  /\ \A i \in Items : PlaceOf(been, {i}, env[i])
  /\ \A a \in notices : PlaceOf(been, Items, a)
  /\ child.at # "none" => \A i \in Items : child.layout[i] \in been[i]
  /\ pass.at \in {"list", "set"} => \A i \in Items : pass.layout[i] \in been[i]

\* Every row has a place of an item its agent may be in.
RowsSound ==
  /\ \A e \in Agents \ Ours : address[e] # Nowhere => address[e] = Elsewhere
  /\ \A e \in Ours : address[e] # Nowhere => PlaceOf(been, MayBeIn(e), address[e])

\* What a command or a pass has already decided to write is such a place too, also
\* when the agent has been bound again since: that is what `owed' remembers.
DecisionsSound ==
  /\ \A h \in hands : PlaceOf(been, MayBeIn(h.agent), h.moved)
  /\ pass.at = "set" => \A i \in pass.todo : \A e \in Corrected(i) : e \in Ours /\ i \in MayBeIn(e)

LayoutSound == LayoutTyped /\ PlacesSound /\ RowsSound /\ DecisionsSound

\* An item's place stays one it has had.
LEMMA PlacesRemain ==
    ASSUME NEW seen, NEW more, NEW among \in SUBSET Items, NEW wider \in SUBSET Items,
           among \subseteq wider, \A i \in Items : seen[i] \subseteq more[i],
           NEW a, PlaceOf(seen, among, a)
    PROVE  PlaceOf(more, wider, a)
  BY DEF PlaceOf

\* A place of an item is an address, and its anchor is the item's.
LEMMA PlaceFacts ==
    ASSUME Host = Nowhere, LayoutTyped, NEW i \in Items, NEW p \in been[i]
    PROVE  /\ TrueAddress(i, p) \in Address
           /\ TrueAddress(i, p)[ItemLevel] = i
           /\ StableAnchor(TrueAddress(i, p)) = AnchorOf(i)
           /\ TrueAddress(i, p) = Placement(i, p)
  <1>1. p \in Positions
    BY DEF LayoutTyped
  <1> QED
    BY <1>1, TrueIsPlacement, PlacementFacts

\* An anchor finds, among the rows, only agents that may be in that item.
LEMMA MatchMayBeIn ==
    ASSUME Host = Nowhere, LayoutTyped, RowsSound, NEW i \in Items,
           NEW e \in MatchesIn(address, AnchorOf(i))
    PROVE  e \in Ours /\ i \in MayBeIn(e)
  <1>1. e \in Ours /\ address[e] # Nowhere /\ Satisfies(address[e], AnchorOf(i))
    BY DEF MatchesIn
  <1>2. PICK j \in MayBeIn(e) : \E p \in been[j] : address[e] = TrueAddress(j, p)
    BY <1>1 DEF RowsSound, PlaceOf
  <1>3. PICK p \in been[j] : address[e] = TrueAddress(j, p)
    BY <1>2
  <1>4. j \in Items /\ p \in Positions
    BY <1>2, <1>3 DEF LayoutTyped, MayBeIn
  <1>5. Satisfies(Placement(j, p), AnchorOf(i))
    BY <1>1, <1>3, <1>4, TrueIsPlacement
  <1>6. j = i
    BY <1>4, <1>5, AnchorsAreOwn
  <1> QED
    BY <1>1, <1>2, <1>6

\* What is in hand for an agent is of items of the instance.
LEMMA InHandFacts ==
    ASSUME Host = Nowhere, LayoutTyped, DecisionsSound, NEW e \in Ours
    PROVE  /\ InHand(e) \in SUBSET Items
           /\ \A h \in hands : h.agent = e => PlaceOf(been, InHand(e), h.moved)
           /\ pass.at = "set" => \A i \in pass.todo : e \in Corrected(i) => i \in InHand(e)
  <1>1. pass.todo \subseteq Items
    BY DEF LayoutTyped, PassRecord
  <1>2. ASSUME NEW h \in hands, h.agent = e
        PROVE  h.moved[ItemLevel] \in Items /\ PlaceOf(been, InHand(e), h.moved)
    <2>1. PICK j \in MayBeIn(e) : \E p \in been[j] : h.moved = TrueAddress(j, p)
      BY <1>2 DEF DecisionsSound, PlaceOf
    <2>2. PICK p \in been[j] : h.moved = TrueAddress(j, p)
      BY <2>1
    <2>3. j \in Items
      BY DEF MayBeIn
    <2>4. h.moved[ItemLevel] = j
      BY <2>2, <2>3, PlaceFacts
    <2>5. j \in InHand(e)
      BY <1>2, <2>4 DEF InHand
    <2> QED
      BY <2>2, <2>3, <2>4, <2>5 DEF PlaceOf
  <1>3. InHand(e) \in SUBSET Items
    BY <1>1, <1>2 DEF InHand
  <1>4. pass.at = "set" => \A i \in pass.todo : e \in Corrected(i) => i \in InHand(e)
    BY DEF InHand
  <1> QED
    BY <1>2, <1>3, <1>4

\* What the actions write into the two records.
LEMMA RecordsTyped ==
    ASSUME LayoutTyped, [LayoutNext]_layoutVars
    PROVE  pass' \in PassRecord /\ child' \in ChildRecord
  <1> USE DEF LayoutTyped, PassRecord, ChildRecord
  <1>1. CASE UNCHANGED <<pass, child>>
    BY <1>1
  <1>2. CASE Spawn
    BY <1>2 DEF Spawn
  <1>3. CASE ChildPrints \/ ChildExits \/ ChildHangs
    <2>1. child' \in ChildRecord
      BY <1>3 DEF ChildPrints, ChildExits, ChildHangs
    <2> QED
      BY <1>3, <2>1 DEF ChildPrints, ChildExits, ChildHangs
  <1>4. CASE ChildFails \/ Deadline \/ FinishPass
    BY <1>4 DEF ChildFails, Deadline, FinishPass, NoChild, NoPass
  <1>5. CASE Capture
    <2>1. pass' \in PassRecord
      BY <1>5 DEF Capture
    <2> QED
      BY <1>5, <2>1 DEF Capture, NoChild
  <1>6. CASE ListEndpoints
    <2>1. pass' \in PassRecord
      BY <1>6 DEF ListEndpoints
    <2> QED
      BY <1>6, <2>1 DEF ListEndpoints
  <1>7. ASSUME NEW i \in pass.todo, SetAddress(i) PROVE pass' \in PassRecord /\ child' \in ChildRecord
    <2>1. pass' \in PassRecord
      BY <1>7 DEF SetAddress
    <2> QED
      BY <1>7, <2>1 DEF SetAddress
  <1> QED
    BY <1>1, <1>2, <1>3, <1>4, <1>5, <1>6, <1>7
    DEF LayoutNext, Move, Reopen, Bind, BindElsewhere, Command, ReaddressList, ReaddressSet,
        ChildStep, PassStep, layoutVars

\* A pass and its command prepare, up to the moment addresses are set.
LEMMA QuietSteps ==
    ASSUME LayoutTyped,
           Spawn \/ ChildStep \/ ChildFails \/ ChildHangs \/ Deadline \/ Capture
             \/ ListEndpoints \/ FinishPass \/ UNCHANGED layoutVars
    PROVE  /\ UNCHANGED <<place, been, env, address, home, owed, notices, hands>>
           /\ child'.at # "none" => child'.layout = place \/ (child.at # "none" /\ child'.layout = child.layout)
           /\ pass'.at \in {"list", "set"} =>
                \/ pass.at \in {"list", "set"} /\ pass'.layout = pass.layout
                \/ child.at # "none" /\ pass'.layout = child.layout
           /\ pass'.at = "set" => pass' = pass \/ pass'.listed = address
  <1> USE DEF LayoutTyped, PassRecord, ChildRecord
  <1>1. UNCHANGED <<place, been, env, address, home, owed, notices, hands>>
    BY DEF Spawn, ChildStep, ChildPrints, ChildExits, ChildFails, ChildHangs, Deadline, Capture,
       ListEndpoints, FinishPass, layoutVars, binds, commands
  <1>2. child'.at # "none" => child'.layout = place \/ (child.at # "none" /\ child'.layout = child.layout)
    BY DEF Spawn, ChildStep, ChildPrints, ChildExits, ChildFails, ChildHangs, Deadline, Capture,
       ListEndpoints, FinishPass, layoutVars, NoChild
  <1>3. /\ pass'.at \in {"list", "set"} =>
             \/ pass.at \in {"list", "set"} /\ pass'.layout = pass.layout
             \/ child.at # "none" /\ pass'.layout = child.layout
        /\ pass'.at = "set" => pass' = pass \/ pass'.listed = address
    <2>1. CASE UNCHANGED pass
      BY <2>1
    <2>2. CASE ChildFails \/ Deadline \/ FinishPass
      BY <2>2 DEF ChildFails, Deadline, FinishPass, NoPass
    <2>3. CASE Spawn
      BY <2>3 DEF Spawn
    <2>4. CASE Capture
      BY <2>4 DEF Capture
    <2>5. CASE ListEndpoints
      BY <2>5 DEF ListEndpoints
    <2> QED
      BY <2>1, <2>2, <2>3, <2>4, <2>5 DEF ChildStep, ChildPrints, ChildExits, ChildHangs, layoutVars
  <1> QED
    BY <1>1, <1>2, <1>3

\* Such a step keeps everything.
LEMMA QuietStepsSound ==
    ASSUME Host = Nowhere, LayoutSound,
           Spawn \/ ChildStep \/ ChildFails \/ ChildHangs \/ Deadline \/ Capture
             \/ ListEndpoints \/ FinishPass \/ UNCHANGED layoutVars,
           pass' \in PassRecord, child' \in ChildRecord
    PROVE  LayoutSound'
  <1> USE DEF LayoutSound
  <1>1. UNCHANGED <<place, been, env, address, home, owed, notices, hands>>
    BY QuietSteps
  <1>2. LayoutTyped'
    BY <1>1 DEF LayoutTyped
  <1>3. PlacesSound'
    <2>1. child'.at # "none" => \A i \in Items : child'.layout[i] \in been[i]
      BY QuietSteps DEF PlacesSound
    <2>2. pass'.at \in {"list", "set"} => \A i \in Items : pass'.layout[i] \in been[i]
      BY QuietSteps DEF PlacesSound
    <2> QED
      BY <1>1, <2>1, <2>2 DEF PlacesSound
  <1>4. \A e : MayBeIn(e)' = MayBeIn(e)
    BY <1>1 DEF MayBeIn
  <1>5. RowsSound'
    BY <1>1, <1>4 DEF RowsSound
  <1>6. ASSUME pass'.at = "set", NEW i \in pass'.todo, NEW e \in Corrected(i)'
        PROVE  e \in Ours /\ i \in MayBeIn(e)
    <2>1. CASE pass' = pass
      BY <1>6, <2>1 DEF DecisionsSound, Corrected
    <2>2. CASE pass'.listed = address
      <3>1. e \in MatchesIn(address, AnchorOf(i))
        BY <1>6, <2>2 DEF Corrected
      <3>2. i \in Items
        BY <1>6 DEF PassRecord
      <3> QED
        BY <3>1, <3>2, MatchMayBeIn
    <2> QED
      BY <1>6, <2>1, <2>2, QuietSteps
  <1>7. DecisionsSound'
    BY <1>1, <1>4, <1>6 DEF DecisionsSound
  <1> QED
    BY <1>2, <1>3, <1>5, <1>7

\* An item that moves, or is opened anew, has had its new place too.
LEMMA PlacingSound ==
    ASSUME Host = Nowhere, LayoutSound, NEW i \in Items, NEW p \in Positions,
           Move(i, p) \/ Reopen(i, p)
    PROVE  LayoutSound'
  <1> USE DEF LayoutSound
  <1>1. /\ place' = [place EXCEPT ![i] = p] /\ been' = [been EXCEPT ![i] = been[i] \cup {p}]
        /\ env' \in {env, [env EXCEPT ![i] = TrueAddress(i, p)]}
        /\ notices' \in {notices, notices \cup {TrueAddress(i, p)}}
        /\ UNCHANGED <<address, home, owed, hands, pass, child>>
    BY DEF Move, Reopen, binds, commands
  <1>2. /\ been' \in [Items -> SUBSET Positions] /\ p \in been'[i]
        /\ \A j \in Items : been[j] \subseteq been'[j]
    BY <1>1 DEF LayoutTyped
  <1>3. LayoutTyped'
    <2>1. place' \in [Items -> Positions]
      BY <1>1 DEF LayoutTyped
    <2>2. env' \in [Items -> Address]
      BY <1>1, TrueIsPlacement, PlacementFacts DEF LayoutTyped
    <2> QED
      BY <1>1, <1>2, <2>1, <2>2 DEF LayoutTyped
  <1>4. PlaceOf(been', {i}, TrueAddress(i, p)) /\ PlaceOf(been', Items, TrueAddress(i, p))
    BY <1>2 DEF PlaceOf
  <1>5. PlacesSound'
    <2>1. \A j \in Items : place'[j] \in been'[j]
      BY <1>1, <1>2 DEF LayoutTyped, PlacesSound
    <2>2. ASSUME NEW j \in Items PROVE PlaceOf(been', {j}, env'[j])
      <3>1. PlaceOf(been', {j}, env[j])
        BY <1>2, PlacesRemain DEF PlacesSound
      <3>2. env'[j] = env[j] \/ (j = i /\ env'[j] = TrueAddress(i, p))
        BY <1>1 DEF LayoutTyped
      <3> QED
        BY <1>4, <3>1, <3>2
    <2>3. ASSUME NEW a \in notices' PROVE PlaceOf(been', Items, a)
      <3>1. CASE a = TrueAddress(i, p)
        BY <1>4, <3>1
      <3>2. CASE a \in notices
        BY <1>2, <3>2, PlacesRemain DEF PlacesSound
      <3> QED
        BY <1>1, <3>1, <3>2
    <2>4. /\ child.at # "none" => \A j \in Items : child.layout[j] \in been'[j]
          /\ pass.at \in {"list", "set"} => \A j \in Items : pass.layout[j] \in been'[j]
      BY <1>2 DEF PlacesSound
    <2> QED
      BY <1>1, <2>1, <2>2, <2>3, <2>4 DEF PlacesSound
  <1>6. \A e : MayBeIn(e)' = MayBeIn(e) /\ MayBeIn(e) \in SUBSET Items
    BY <1>1 DEF MayBeIn
  <1>7. \A e, a : PlaceOf(been, MayBeIn(e), a) => PlaceOf(been', MayBeIn(e), a)
    BY <1>2, <1>6, PlacesRemain
  <1>8. RowsSound'
    BY <1>1, <1>6, <1>7 DEF RowsSound
  <1>9. \A j : Corrected(j)' = Corrected(j)
    BY <1>1 DEF Corrected
  <1>10. DecisionsSound'
    BY <1>1, <1>6, <1>7, <1>9 DEF DecisionsSound
  <1> QED
    BY <1>3, <1>5, <1>8, <1>10

\* A bind gives the agent the place of its item, and remembers what is on its way.
LEMMA BindSound ==
    ASSUME Host = Nowhere, LayoutSound, NEW e \in Ours, NEW i \in Items, Bind(e, i)
    PROVE  LayoutSound'
  <1> USE DEF LayoutSound
  <1>1. /\ address' = [address EXCEPT ![e] = env[i]] /\ home' = [home EXCEPT ![e] = i]
        /\ owed' = [owed EXCEPT ![e] = InHand(e)]
        /\ UNCHANGED <<place, been, env, notices, hands, pass, child>>
    BY DEF Bind, commands
  <1>2. e \in Agents
    BY LayoutAssumption
  <1>3. InHand(e) \in SUBSET Items
    BY InHandFacts
  <1>4. LayoutTyped'
    BY <1>1, <1>2, <1>3 DEF LayoutTyped
  <1>5. PlacesSound'
    BY <1>1 DEF PlacesSound
  <1>6. /\ MayBeIn(e)' = {i} \cup InHand(e)
        /\ \A f \in Ours \ {e} : MayBeIn(f)' = MayBeIn(f)
    BY <1>1, <1>3 DEF MayBeIn, LayoutTyped
  <1>7. /\ address'[e] = env[i]
        /\ \A f \in Agents \ {e} : address'[f] = address[f]
    BY <1>1, <1>2 DEF LayoutTyped
  <1>8. PlaceOf(been, {i} \cup InHand(e), env[i])
    BY <1>3, PlacesRemain DEF PlacesSound
  <1>9. RowsSound'
    BY <1>1, <1>6, <1>7, <1>8, LayoutAssumption DEF RowsSound
  <1>10. \A j : Corrected(j)' = Corrected(j)
    BY <1>1 DEF Corrected
  <1>11. ASSUME NEW h \in hands PROVE PlaceOf(been, MayBeIn(h.agent)', h.moved)
    <2>1. h.agent \in Ours
      BY DEF LayoutTyped
    <2>2. CASE h.agent = e
      <3>1. PlaceOf(been, InHand(e), h.moved)
        BY <2>2, InHandFacts
      <3> QED
        BY <1>3, <1>6, <2>2, <3>1, PlacesRemain
    <2>3. CASE h.agent # e
      BY <1>6, <2>1, <2>3 DEF DecisionsSound
    <2> QED
      BY <2>2, <2>3
  <1>12. ASSUME pass.at = "set", NEW j \in pass.todo, NEW f \in Corrected(j)
         PROVE  f \in Ours /\ j \in MayBeIn(f)'
    <2>1. f \in Ours /\ j \in MayBeIn(f)
      BY <1>12 DEF DecisionsSound
    <2>2. CASE f = e
      BY <1>6, <1>12, <2>2, InHandFacts
    <2>3. CASE f # e
      BY <1>6, <2>1, <2>3
    <2> QED
      BY <2>1, <2>2, <2>3
  <1>13. DecisionsSound'
    BY <1>1, <1>10, <1>11, <1>12 DEF DecisionsSound
  <1> QED
    BY <1>4, <1>5, <1>9, <1>13

\* A readdress finds an endpoint that may be in the item that moved.
LEMMA ReaddressListSound ==
    ASSUME Host = Nowhere, LayoutSound, NEW moved \in notices, ReaddressList(moved)
    PROVE  LayoutSound'
  <1> USE DEF LayoutSound
  <1> DEFINE begun == {[agent |-> e, moved |-> moved] :
                         e \in {f \in Agents : MatchesIn(address, StableAnchor(moved)) = {f}}}
  <1>1. /\ notices' = notices \ {moved} /\ hands' = hands \cup begun
        /\ UNCHANGED <<place, been, env, address, home, owed, pass, child>>
    BY DEF ReaddressList, binds
  <1>2. PICK i \in Items : \E p \in been[i] : moved = TrueAddress(i, p)
    BY DEF PlacesSound, PlaceOf
  <1>3. PICK p \in been[i] : moved = TrueAddress(i, p)
    BY <1>2
  <1>4. moved \in Address /\ StableAnchor(moved) = AnchorOf(i)
    BY <1>3, PlaceFacts
  <1>5. ASSUME NEW h \in begun
        PROVE  h \in [agent : Ours, moved : Address] /\ PlaceOf(been, MayBeIn(h.agent), h.moved)
    <2>1. PICK e \in Agents : /\ MatchesIn(address, AnchorOf(i)) = {e}
                             /\ h = [agent |-> e, moved |-> moved]
      BY <1>4
    <2>2. e \in Ours /\ i \in MayBeIn(e)
      BY <2>1, MatchMayBeIn
    <2> QED
      BY <1>3, <1>4, <2>1, <2>2 DEF PlaceOf
  <1> HIDE DEF begun
  <1>6. LayoutTyped'
    BY <1>1, <1>5 DEF LayoutTyped
  <1>7. PlacesSound'
    BY <1>1 DEF PlacesSound
  <1>8. \A e : MayBeIn(e)' = MayBeIn(e)
    BY <1>1 DEF MayBeIn
  <1>9. RowsSound'
    BY <1>1, <1>8 DEF RowsSound
  <1>10. \A j : Corrected(j)' = Corrected(j)
    BY <1>1 DEF Corrected
  <1>11. \A h \in hands' : PlaceOf(been, MayBeIn(h.agent), h.moved)
    BY <1>1, <1>5 DEF DecisionsSound
  <1>12. DecisionsSound'
    BY <1>1, <1>8, <1>10, <1>11 DEF DecisionsSound
  <1> QED
    BY <1>6, <1>7, <1>9, <1>12

\* An address that is written by id is one the agent may have.
LEMMA WriteSound ==
    ASSUME Host = Nowhere, LayoutSound,
           UNCHANGED <<place, been, env, home, owed, notices, child>>,
           hands' \subseteq hands, address' \in [Agents -> Address],
           \A e \in Agents :
             \/ address'[e] = address[e]
             \/ e \in Ours /\ PlaceOf(been, MayBeIn(e), address'[e])
             \/ e \notin Ours /\ address'[e] = Elsewhere,
           pass' \in PassRecord, pass'.at = pass.at, pass'.layout = pass.layout,
           pass'.listed = pass.listed, pass'.todo \subseteq pass.todo
    PROVE  LayoutSound'
  <1> USE DEF LayoutSound
  <1>1. LayoutTyped'
    BY DEF LayoutTyped
  <1>2. PlacesSound'
    BY DEF PlacesSound
  <1>3. \A e : MayBeIn(e)' = MayBeIn(e)
    BY DEF MayBeIn
  <1>4. RowsSound'
    BY <1>3, LayoutAssumption DEF RowsSound
  <1>5. \A j : Corrected(j)' = Corrected(j)
    BY DEF Corrected
  <1>6. DecisionsSound'
    BY <1>3, <1>5 DEF DecisionsSound
  <1> QED
    BY <1>1, <1>2, <1>4, <1>6

\* A readdress, and a pass, write such an address.
LEMMA SettingSound ==
    ASSUME Host = Nowhere, LayoutSound,
           \/ \E h \in hands : ReaddressSet(h)
           \/ \E i \in pass.todo : pass.at = "set" /\ SetAddress(i)
           \/ \E e \in Agents \ Ours : BindElsewhere(e)
    PROVE  LayoutSound'
  <1> USE DEF LayoutSound
  <1>a. pass \in PassRecord /\ LayoutTyped
    BY DEF LayoutTyped
  <1>1. ASSUME NEW h \in hands, ReaddressSet(h) PROVE LayoutSound'
    <2>1. h.agent \in Ours /\ h.agent \in Agents /\ h.moved \in Address
      BY LayoutAssumption DEF LayoutTyped
    <2>2. address' = [address EXCEPT ![h.agent] = h.moved] /\ hands' = hands \ {h}
          /\ UNCHANGED <<place, been, env, home, owed, notices, pass, child>>
      BY <1>1 DEF ReaddressSet, binds
    <2>3. /\ address' \in [Agents -> Address]
          /\ \A e \in Agents : address'[e] = address[e] \/ (e = h.agent /\ address'[e] = h.moved)
      BY <2>1, <2>2 DEF LayoutTyped
    <2>4. PlaceOf(been, MayBeIn(h.agent), h.moved)
      BY DEF DecisionsSound
    <2>5. \A e \in Agents : address'[e] = address[e]
                              \/ (e \in Ours /\ PlaceOf(been, MayBeIn(e), address'[e]))
      BY <2>1, <2>3, <2>4
    <2> QED
      BY <1>a, <2>2, <2>3, <2>5, WriteSound
  <1>2. ASSUME NEW i \in pass.todo, pass.at = "set", SetAddress(i) PROVE LayoutSound'
    <2>1. i \in Items /\ pass.layout[i] \in been[i]
      BY <1>2, <1>a DEF PassRecord, PlacesSound
    <2>2. /\ TrueAddress(i, pass.layout[i]) = Placement(i, pass.layout[i])
          /\ Placement(i, pass.layout[i]) \in Address
      BY <2>1, PlaceFacts
    <2>3. address' = [e \in Agents |-> IF e \in Corrected(i)
                                      THEN Placement(i, pass.layout[i]) ELSE address[e]]
      BY <1>2 DEF SetAddress
    <2>4. ASSUME NEW e \in Agents
          PROVE  /\ address'[e] \in Address
                 /\ \/ address'[e] = address[e]
                    \/ e \in Ours /\ PlaceOf(been, MayBeIn(e), address'[e])
      <3>1. CASE e \in Corrected(i)
        <4>1. e \in Ours /\ i \in MayBeIn(e)
          BY <1>2, <3>1 DEF DecisionsSound
        <4>2. address'[e] = Placement(i, pass.layout[i])
          BY <2>3, <3>1
        <4> QED
          BY <2>1, <2>2, <4>1, <4>2 DEF PlaceOf
      <3>2. CASE e \notin Corrected(i)
        BY <1>a, <2>3, <3>2 DEF LayoutTyped
      <3> QED
        BY <3>1, <3>2
    <2>5. address' \in [Agents -> Address]
      BY <2>3, <2>4
    <2>6. /\ pass' \in PassRecord /\ pass'.at = pass.at /\ pass'.layout = pass.layout
          /\ pass'.listed = pass.listed /\ pass'.todo \subseteq pass.todo
      BY <1>2, <1>a DEF SetAddress, PassRecord
    <2>7. UNCHANGED <<place, been, env, home, owed, notices, hands, child>>
      BY <1>2 DEF SetAddress, binds, commands
    <2> QED
      BY <2>4, <2>5, <2>6, <2>7, WriteSound
  <1>3. ASSUME NEW e \in Agents \ Ours, BindElsewhere(e) PROVE LayoutSound'
    <2>1. /\ address' = [address EXCEPT ![e] = Elsewhere]
          /\ UNCHANGED <<place, been, env, home, owed, notices, hands, pass, child>>
      BY <1>3 DEF BindElsewhere, binds, commands
    <2>2. /\ address' \in [Agents -> Address]
          /\ \A f \in Agents : address'[f] = address[f] \/ (f \notin Ours /\ address'[f] = Elsewhere)
      BY <2>1, LayoutAssumption DEF LayoutTyped
    <2> QED
      BY <1>a, <2>1, <2>2, WriteSound
  <1> QED
    BY <1>1, <1>2, <1>3

\* Whatever a pass, a command or a row holds is a place of an item its agent may be in.
LEMMA LayoutInvariant ==
    ASSUME Host = Nowhere
    PROVE  LayoutSpec => []LayoutSound
  <1>1. LayoutInit => LayoutSound
    <2> SUFFICES ASSUME LayoutInit PROVE LayoutSound
      OBVIOUS
    <2> USE DEF LayoutInit
    <2>1. place \in [Items -> Positions] /\ been \in [Items -> SUBSET Positions]
      OBVIOUS
    <2>2. ASSUME NEW i \in Items
          PROVE  place[i] \in been[i] /\ env[i] \in Address /\ PlaceOf(been, {i}, env[i])
      <3>1. place[i] \in Positions /\ place[i] \in been[i] /\ env[i] = TrueAddress(i, place[i])
        OBVIOUS
      <3> QED
        BY <3>1, TrueIsPlacement, PlacementFacts DEF PlaceOf
    <2>3. env \in [Items -> Address]
      BY <2>2
    <2>4. address \in [Agents -> Address] /\ \A e \in Agents : address[e] = Nowhere
      BY AddressAssumption DEF Nowhere, Address
    <2>5. LayoutTyped
      BY <2>1, <2>3, <2>4 DEF LayoutTyped, PassRecord, ChildRecord, NoPass, NoChild
    <2>6. PlacesSound
      BY <2>2 DEF PlacesSound, NoPass, NoChild
    <2>7. RowsSound /\ DecisionsSound
      BY <2>4, LayoutAssumption DEF RowsSound, DecisionsSound, NoPass
    <2> QED
      BY <2>5, <2>6, <2>7 DEF LayoutSound
  <1>2. LayoutSound /\ [LayoutNext]_layoutVars => LayoutSound'
    <2> SUFFICES ASSUME LayoutSound, [LayoutNext]_layoutVars PROVE LayoutSound'
      OBVIOUS
    <2>1. ASSUME NEW i \in Items, NEW p \in Positions, Move(i, p) \/ Reopen(i, p) PROVE LayoutSound'
      BY <2>1, PlacingSound
    <2>2. ASSUME NEW e \in Ours, NEW i \in Items, Bind(e, i) PROVE LayoutSound'
      BY <2>2, BindSound
    <2>3. ASSUME NEW moved \in notices, ReaddressList(moved) PROVE LayoutSound'
      BY <2>3, ReaddressListSound
    <2>4. CASE \/ \E h \in hands : ReaddressSet(h)
               \/ \E i \in pass.todo : pass.at = "set" /\ SetAddress(i)
               \/ \E e \in Agents \ Ours : BindElsewhere(e)
      BY <2>4, SettingSound
    <2>5. CASE Spawn \/ ChildStep \/ ChildFails \/ ChildHangs \/ Deadline \/ Capture
                 \/ ListEndpoints \/ FinishPass \/ UNCHANGED layoutVars
      BY <2>5, RecordsTyped, QuietStepsSound DEF LayoutSound
    <2> QED
      BY <2>1, <2>2, <2>3, <2>4, <2>5 DEF LayoutNext, Command, PassStep
  <1> QED
    BY <1>1, <1>2, PTL DEF LayoutSpec

\* A pass never gives an agent the place of a window other than the one it was last
\* bound in, or one a pass or a readdress had found it for at that moment: in a
\* runtime that is not nested in a pane of another, with any number of agents and
\* items, in every order of moves, restarts, binds anywhere, readdress commands and
\* passes.
THEOREM AddressesAreOwn ==
    ASSUME Host = Nowhere
    PROVE  LayoutSpec => []NeverAnothersPlace
  <1>1. LayoutSound => NeverAnothersPlace
    BY DEF LayoutSound, RowsSound, PlaceOf, NeverAnothersPlace
  <1> QED
    BY <1>1, LayoutInvariant, PTL

-----------------------------------------------------------------------------
(***************************************************************************)
(* A lookup reports every endpoint as near as its answer, and a name offered *)
(* for one endpoint leads back to it.                                       *)
(***************************************************************************)

\* What reading an address back finds: every level it names, in order.
LEMMA RenderedFacts ==
    ASSUME NEW a \in Address, a # Nowhere
    PROVE  ReadsAsAddress(Rendered(a)) /\ AddressOf(Rendered(a)) = a
  <1> DEFINE S == Named(a)
             N == Cardinality(S)
             upto(l) == {m \in S : m <= l}
             rank == [l \in S |-> Cardinality(upto(l))]
  <1>1. /\ S \subseteq 1..5 /\ \A l \in S : a[l] \in 1..MaxIndex
        /\ \A l \in Level : l \notin S => a[l] = 0
        /\ Level = 1..5 /\ MaxIndex \in Nat
    BY AddressAssumption DEF Named, Level, Address
  <1>2. IsFiniteSet(S) /\ N \in Nat
    <2> HIDE DEF S, N
    <2>1. IsFiniteSet(1..5)
      <3>1. 1 \in Int /\ 5 \in Int
        OBVIOUS
      <3> QED
        BY <3>1, FS_Interval
    <2>2. IsFiniteSet(S)
      BY <1>1, <2>1, FS_Subset
    <2> QED
      BY <2>2, FS_CardinalityType DEF N
  <1>3. S # {}
    <2>1. a = [l \in Level |-> a[l]]
      BY DEF Address
    <2> QED
      BY <1>1, <2>1 DEF Nowhere
  <1> HIDE DEF S
  <1>4. ASSUME NEW l \in S
        PROVE  IsFiniteSet(upto(l)) /\ rank[l] \in 1..N
    <2>1. upto(l) \subseteq S /\ l \in upto(l)
      BY <1>1
    <2> HIDE DEF upto
    <2>2. IsFiniteSet(upto(l)) /\ Cardinality(upto(l)) <= N
      BY <1>2, <2>1, FS_Subset
    <2>3. Cardinality(upto(l)) \in Nat /\ Cardinality(upto(l)) # 0
      BY <2>1, <2>2, FS_CardinalityType, FS_EmptySet
    <2> QED
      BY <1>2, <2>2, <2>3
  <1>5. ASSUME NEW l \in S, NEW m \in S, l < m
        PROVE  rank[l] < rank[m]
    <2>0. l \in Int /\ m \in Int /\ S \subseteq Int
      BY <1>1
    <2>1. upto(l) \subseteq upto(m) /\ m \in upto(m) /\ m \notin upto(l)
      <3>1. ASSUME NEW x \in S, x <= l PROVE x <= m
        <4>1. x \in Int
          BY <2>0
        <4> QED
          BY <2>0, <1>5, <3>1, <4>1
      <3>2. m <= m /\ ~(m <= l)
        BY <2>0, <1>5
      <3> HIDE DEF rank
      <3> QED
        BY <3>1, <3>2
    <2>2. IsFiniteSet(upto(m)) /\ rank[l] \in Nat /\ rank[m] \in Nat
      BY <1>2, <1>4
    <2>3. rank[l] = Cardinality(upto(l)) /\ rank[m] = Cardinality(upto(m))
      OBVIOUS
    <2> HIDE DEF upto
    <2>4. /\ Cardinality(upto(l)) <= Cardinality(upto(m))
          /\ Cardinality(upto(m)) = Cardinality(upto(l)) => upto(m) = upto(l)
      BY <2>1, <2>2, FS_Subset
    <2> HIDE DEF rank
    <2> QED
      BY <2>1, <2>2, <2>3, <2>4
  <1> HIDE DEF rank
  <1>6. rank \in [S -> 1..N]
    BY <1>4 DEF rank
  <1>7. \A l, m \in S : rank[l] = rank[m] => l = m
    <2> TAKE l, m \in S
    <2>1. l \in Int /\ m \in Int /\ rank[l] \in Int /\ rank[m] \in Int
      BY <1>1, <1>2, <1>6
    <2> QED
      BY <1>5, <2>1
  <1>8. \A n \in 1..N : \E l \in S : rank[l] = n
    <2>1. rank \in Injection(S, 1..N)
      BY <1>6, <1>7 DEF Injection, IsInjective
    <2>2. IsFiniteSet(1..N) /\ Cardinality(1..N) = N
      BY <1>2, FS_Interval
    <2> HIDE DEF N
    <2>3. Cardinality(S) = Cardinality(1..N)
      BY <2>2 DEF N
    <2>4. rank \in Surjection(S, 1..N)
      BY <2>1, <2>2, <2>3, FS_Injection
    <2> QED
      BY <2>4 DEF Surjection
  <1> DEFINE nth(n) == CHOOSE l \in S : Cardinality(upto(l)) = n
  <1>9. ASSUME NEW n \in 1..N PROVE nth(n) \in S /\ rank[nth(n)] = n
    <2>1. \E l \in S : Cardinality(upto(l)) = n
      BY <1>8 DEF rank
    <2>2. nth(n) \in S /\ Cardinality(upto(nth(n))) = n
      <3> HIDE DEF upto
      <3> QED
        BY <2>1
    <2> QED
      BY <2>2 DEF rank
  <1> DEFINE word == [n \in 1..N |-> <<nth(n), a[nth(n)]>>]
  <1>10. Rendered(a) = word
    BY DEF Rendered, S
  <1> HIDE DEF nth, N
  <1>11. N # 0
    BY <1>2, <1>3, FS_EmptySet DEF N
  <1>12. /\ DOMAIN word = 1..N
         /\ \A n \in 1..N : word[n] = <<nth(n), a[nth(n)]>>
    OBVIOUS
  <1>13. \A n \in 1..N : word[n] \in Segment /\ word[n][1] = nth(n) /\ word[n][2] = a[nth(n)]
                         /\ a[nth(n)] > 0
    <2> TAKE n \in 1..N
    <2> HIDE DEF word
    <2>1. nth(n) \in Level /\ a[nth(n)] \in 1..MaxIndex
      BY <1>1, <1>9
    <2>2. a[nth(n)] \in 0..MaxIndex /\ a[nth(n)] > 0
      BY <1>1, <2>1
    <2>3. word[n] = <<nth(n), a[nth(n)]>>
      BY <1>12
    <2> QED
      BY <2>1, <2>2, <2>3 DEF Segment
  <1>14. word \in Seq(Segment) /\ word # <<>>
    <2>1. word \in [1..N -> Segment]
      BY <1>13
    <2>2. 1 \in DOMAIN word
      BY <1>2, <1>11 DEF N
    <2> HIDE DEF word
    <2>3. word \in Seq(Segment)
      BY <1>2, <2>1 DEF N
    <2> QED
      BY <2>2, <2>3
  <1> HIDE DEF word
  <1>15. WellFormed(word)
    <2>1. ASSUME NEW m \in 1..N, NEW n \in 1..N, m < n PROVE nth(m) < nth(n)
      <3>1. /\ nth(m) \in S /\ nth(n) \in S /\ rank[nth(m)] = m /\ rank[nth(n)] = n
        BY <1>9
      <3>2. m \in Int /\ n \in Int /\ nth(m) \in Int /\ nth(n) \in Int
        <4>1. S \subseteq Int
          BY <1>1
        <4>2. N \in Int
          BY <1>2
        <4>3. m \in Int /\ n \in Int
          BY <4>2
        <4> QED
          BY <3>1, <4>1, <4>3
      <3>3. ~(nth(n) < nth(m)) /\ nth(m) # nth(n)
        BY <1>5, <2>1, <3>1, <3>2
      <3> QED
        BY <3>2, <3>3
    <2> QED
      BY <1>12, <1>13, <2>1 DEF WellFormed
  <1>16. AddressOf(word) = a
    <2>1. ASSUME NEW l \in Level
          PROVE  a[l] = IF \E n \in DOMAIN word : word[n][1] = l
                        THEN word[CHOOSE n \in DOMAIN word : word[n][1] = l][2]
                        ELSE 0
      <3>1. CASE l \in S
        <4>1. rank[l] \in 1..N /\ nth(rank[l]) = l
          BY <1>6, <1>7, <1>9, <3>1
        <4>2. \E n \in DOMAIN word : word[n][1] = l
          BY <1>12, <1>13, <4>1
        <4>3. PICK n : n = CHOOSE k \in DOMAIN word : word[k][1] = l
          OBVIOUS
        <4>4. n \in DOMAIN word /\ word[n][1] = l
          BY <4>2, <4>3
        <4>5. word[n][2] = a[l]
          BY <1>12, <1>13, <4>4
        <4> QED
          BY <4>2, <4>3, <4>5
      <3>2. CASE l \notin S
        <4>1. ~ \E n \in DOMAIN word : word[n][1] = l
          BY <1>9, <1>12, <1>13, <3>2
        <4> QED
          BY <1>1, <3>2, <4>1
      <3> QED
        BY <3>1, <3>2
    <2>2. a = [l \in Level |-> a[l]]
      BY DEF Address
    <2> QED
      BY <2>1, <2>2 DEF AddressOf
  <1> QED
    BY <1>10, <1>14, <1>15, <1>16 DEF ReadsAsAddress

\* Two addresses share between no level and all five.
LEMMA SharedPrefixRange ==
    ASSUME NEW a, NEW b
    PROVE  SharedPrefix(a, b) \in 0..5
  <1> DEFINE same(l) == a[l] # 0 /\ a[l] = b[l]
             ends(n) == /\ \A l \in 1..n : a[l] # 0 /\ a[l] = b[l]
                        /\ n = 5 \/ a[n + 1] = 0 \/ a[n + 1] # b[n + 1]
  <1>1. \E n \in 0..5 : (\A l \in 1..n : same(l)) /\ (n = 5 \/ ~same(n + 1))
    <2> HIDE DEF same
    <2>1. CASE ~same(1)
      BY <2>1
    <2>2. CASE same(1) /\ ~same(2)
      BY <2>2
    <2>3. CASE same(1) /\ same(2) /\ ~same(3)
      BY <2>3
    <2>4. CASE same(1) /\ same(2) /\ same(3) /\ ~same(4)
      BY <2>4
    <2>5. CASE same(1) /\ same(2) /\ same(3) /\ same(4) /\ ~same(5)
      BY <2>5
    <2>6. CASE same(1) /\ same(2) /\ same(3) /\ same(4) /\ same(5)
      BY <2>6
    <2> QED
      BY <2>1, <2>2, <2>3, <2>4, <2>5, <2>6
  <1>2. \E n \in 0..5 : ends(n)
    BY <1>1
  <1>3. SharedPrefix(a, b) = CHOOSE n \in 0..5 : ends(n)
    BY DEF SharedPrefix
  <1> HIDE DEF ends
  <1> QED
    BY <1>2, <1>3

\* Those of S that have the largest key.
Top(S, k) == {e \in S : \A f \in S : k[f] <= k[e]}

\* A step of resolve keeps those with the largest key: it prefers the ones whose
\* key is largest and not 0, and nobody when all keys are 0.
LEMMA PreferTop ==
    ASSUME NEW S, IsFiniteSet(S), NEW k \in [S -> 0..5]
    PROVE  Prefer(S, {e \in S : k[e] > 0 /\ \A f \in S : k[f] <= k[e]}) = Top(S, k)
  <1> DEFINE best == {e \in S : k[e] > 0 /\ \A f \in S : k[f] <= k[e]}
  <1>1. Cardinality(S) \in Nat
    BY FS_CardinalityType
  <1>2. CASE Cardinality(S) <= 1
    <2>1. S = {} \/ \E x : S = {x}
      BY <1>1, <1>2, FS_EmptySet, FS_Singleton
    <2>2. Top(S, k) = S
      BY <2>1 DEF Top
    <2>3. ~(Cardinality(S) > 1)
      BY <1>1, <1>2
    <2> QED
      BY <2>2, <2>3 DEF Prefer
  <1>3. CASE Cardinality(S) > 1 /\ best # {}
    <2>1. Top(S, k) = best
      BY <1>3 DEF Top
    <2> QED
      BY <1>3, <2>1 DEF Prefer
  <1>4. CASE Cardinality(S) > 1 /\ best = {}
    <2>1. ASSUME NEW x \in S, k[x] > 0 PROVE FALSE
      <3> DEFINE T == {5 - k[e] : e \in S}
      <3>1. T \in SUBSET Nat /\ T # {}
        BY <2>1
      <3>2. \E n \in T : \A m \in T : n =< m
        <4> HIDE DEF T
        <4> QED
          BY <3>1, LeastNatural
      <3>3. PICK e \in S : \A f \in S : 5 - k[e] =< 5 - k[f]
        BY <3>2
      <3>4. \A f \in S : k[f] <= k[e]
        BY <3>3
      <3>5. e \in best
        BY <2>1, <3>4
      <3> QED
        BY <1>4, <3>5
    <2>2. Top(S, k) = S
      BY <2>1 DEF Top
    <2> QED
      BY <1>4, <2>2 DEF Prefer
  <1> QED
    BY <1>1, <1>2, <1>3, <1>4

LEMMA RankType ==
    ASSUME NEW e, NEW c
    PROVE  /\ Rank(e, c)[1] \in {0, 1} /\ Rank(e, c)[2] \in {0, 1}
           /\ Rank(e, c)[3] \in 0..5
  <1>1. \A here : Closeness(e, here) \in 0..5
    BY SharedPrefixRange DEF Closeness
  <1> QED
    BY <1>1 DEF Rank

\* The keys of some matches, one for each step.
Key(M, c, n) == [e \in M |-> Rank(e, c)[n]]

\* Step by step, or all at once: the best ranked are left.
LEMMA TopsAreBest ==
    ASSUME NEW M, NEW c
    PROVE  LET O == Top(M, Key(M, c, 1))
               P == Top(O, Key(O, c, 2))
           IN  Top(P, Key(P, c, 3)) = Best(M, c)
  <1> DEFINE O == Top(M, Key(M, c, 1))
             P == Top(O, Key(O, c, 2))
             Q == Top(P, Key(P, c, 3))
             r(e, n) == Rank(e, c)[n]
  <1>1. \A e : r(e, 1) \in Int /\ r(e, 2) \in Int /\ r(e, 3) \in Int
    BY RankType
  <1>2. \A e : e \in O <=> e \in M /\ \A f \in M : r(f, 1) <= r(e, 1)
    BY DEF Top, Key
  <1> HIDE DEF O
  <1>3. \A e : e \in P <=> e \in O /\ \A f \in O : r(f, 2) <= r(e, 2)
    BY DEF Top, Key
  <1> HIDE DEF P
  <1>4. \A e : e \in Q <=> e \in P /\ \A f \in P : r(f, 3) <= r(e, 3)
    BY DEF Top, Key
  <1> HIDE DEF Q
  <1>5. \A e, f : Below(Rank(e, c), Rank(f, c)) <=>
              \/ r(e, 1) < r(f, 1)
              \/ r(e, 1) = r(f, 1) /\ r(e, 2) < r(f, 2)
              \/ r(e, 1) = r(f, 1) /\ r(e, 2) = r(f, 2) /\ r(e, 3) < r(f, 3)
    BY DEF Below
  <1> HIDE DEF r
  <1>6. ASSUME NEW e \in Q, NEW f \in M, Below(Rank(e, c), Rank(f, c)) PROVE FALSE
    <2>1. e \in P /\ e \in O /\ e \in M
      BY <1>2, <1>3, <1>4
    <2>2. ~(r(e, 1) < r(f, 1))
      BY <1>1, <1>2, <2>1
    <2>3. r(e, 1) = r(f, 1) /\ f \in O
      BY <1>2, <1>5, <1>6, <2>1, <2>2
    <2>4. ~(r(e, 2) < r(f, 2))
      BY <1>1, <1>3, <2>1, <2>3
    <2>5. r(e, 2) = r(f, 2) /\ f \in P
      BY <1>3, <1>5, <1>6, <2>1, <2>2, <2>3, <2>4
    <2>6. ~(r(e, 3) < r(f, 3))
      BY <1>1, <1>4, <2>5
    <2> QED
      BY <1>5, <1>6, <2>2, <2>4, <2>6
  <1>7. ASSUME NEW e \in M, \A f \in M : ~Below(Rank(e, c), Rank(f, c)) PROVE e \in Q
    <2>1. e \in O
      BY <1>1, <1>2, <1>5, <1>7
    <2>2. \A f \in O : f \in M /\ r(f, 1) = r(e, 1)
      BY <1>1, <1>2, <2>1
    <2>3. e \in P
      BY <1>1, <1>3, <1>5, <1>7, <2>1, <2>2
    <2>4. \A f \in P : f \in O /\ r(f, 2) = r(e, 2)
      BY <1>1, <1>3, <2>1, <2>3
    <2> QED
      BY <1>1, <1>4, <1>5, <1>7, <2>2, <2>3, <2>4
  <1>8. Q \subseteq M
    BY <1>2, <1>3, <1>4
  <1>9. Q = Best(M, c)
    BY <1>6, <1>7, <1>8 DEF Best
  <1> QED
    BY <1>9 DEF O, P, Q

\* Each step of resolve keeps those of the largest key.
LEMMA OthersAreTop ==
    ASSUME NEW M \in SUBSET Endpoints, NEW c
    PROVE  Others(M, c) = Top(M, Key(M, c, 1))
  <1> DEFINE k == Key(M, c, 1)
  <1>1. IsFiniteSet(M)
    BY NamingAssumption, FS_Subset
  <1>2. \A e \in M : k[e] = IF e = c THEN 0 ELSE 1
    BY DEF Key, Rank
  <1>3. k \in [M -> 0..5]
    BY RankType DEF Key
  <1> HIDE DEF k
  <1>4. M \ {c} = {e \in M : k[e] > 0 /\ \A f \in M : k[f] <= k[e]}
    BY <1>2
  <1> QED
    BY <1>1, <1>3, <1>4, PreferTop DEF Others, k

LEMMA MineAreTop ==
    ASSUME NEW M \in SUBSET Endpoints, NEW c
    PROVE  Mine(M, c) = Top(M, Key(M, c, 2))
  <1> DEFINE k == Key(M, c, 2)
  <1>1. IsFiniteSet(M)
    BY NamingAssumption, FS_Subset
  <1>2. \A e \in M : k[e] = IF c # Nobody /\ directory[e].instance = directory[c].instance
                           THEN 1 ELSE 0
    BY DEF Key, Rank
  <1>3. k \in [M -> 0..5]
    BY RankType DEF Key
  <1> HIDE DEF k
  <1>4. CASE c = Nobody
    <2>1. Top(M, k) = M
      BY <1>2, <1>4 DEF Top
    <2> QED
      BY <1>4, <2>1 DEF Mine, k
  <1>5. CASE c # Nobody
    <2>1. {e \in M : directory[e].instance = directory[c].instance}
              = {e \in M : k[e] > 0 /\ \A f \in M : k[f] <= k[e]}
      BY <1>2, <1>5
    <2> QED
      BY <1>1, <1>3, <1>5, <2>1, PreferTop DEF Mine, k
  <1> QED
    BY <1>4, <1>5

LEMMA NearestAreTop ==
    ASSUME NEW M \in SUBSET Endpoints, NEW c
    PROVE  Nearest(M, c) = Top(M, Key(M, c, 3))
  <1> DEFINE k == Key(M, c, 3)
  <1>1. IsFiniteSet(M)
    BY NamingAssumption, FS_Subset
  <1>2. \A e \in M : k[e] = IF c = Nobody \/ directory[c].address = Nowhere THEN 0
                           ELSE Closeness(e, directory[c].address)
    BY DEF Key, Rank
  <1>3. k \in [M -> 0..5]
    BY RankType DEF Key
  <1> HIDE DEF k
  <1>4. CASE c = Nobody \/ directory[c].address = Nowhere
    <2>1. Top(M, k) = M
      BY <1>2, <1>4 DEF Top
    <2> QED
      BY <1>4, <2>1 DEF Nearest, k
  <1>5. CASE ~(c = Nobody \/ directory[c].address = Nowhere)
    <2>1. {e \in M : /\ Closeness(e, directory[c].address) > 0
                     /\ \A f \in M : Closeness(f, directory[c].address)
                                       <= Closeness(e, directory[c].address)}
              = {e \in M : k[e] > 0 /\ \A f \in M : k[f] <= k[e]}
      BY <1>2, <1>5
    <2>2. Nearest(M, c) = Prefer(M, {e \in M : k[e] > 0 /\ \A f \in M : k[f] <= k[e]})
      BY <1>5, <2>1 DEF Nearest
    <2> QED
      BY <1>1, <1>3, <2>2, PreferTop DEF k
  <1> QED
    BY <1>4, <1>5

\* resolve leaves the best ranked matches.
LEMMA ResolveIsBest ==
    ASSUME NEW selector, selector.id = Nobody, NEW c
    PROVE  Resolve(selector, c) = Best(Matches(selector), c)
  <1> DEFINE M == Matches(selector)
             O == Others(M, c)
             P == Mine(O, c)
  <1>1. M \in SUBSET Endpoints
    BY DEF Matches
  <1> HIDE DEF M
  <1>a. \A S \in SUBSET Endpoints : \A k : Top(S, k) \in SUBSET Endpoints
    BY DEF Top
  <1>2. O = Top(M, Key(M, c, 1)) /\ O \in SUBSET Endpoints
    BY <1>1, <1>a, OthersAreTop
  <1> HIDE DEF O
  <1>3. P = Top(O, Key(O, c, 2)) /\ P \in SUBSET Endpoints
    BY <1>2, <1>a, MineAreTop
  <1> HIDE DEF P
  <1>4. Nearest(P, c) = Top(P, Key(P, c, 3))
    BY <1>3, NearestAreTop
  <1>5. Nearest(P, c) = Best(M, c)
    BY <1>2, <1>3, <1>4, TopsAreBest
  <1> QED
    BY <1>5 DEF Resolve, M, O, P

\* The question that is open has the answer of the directory as it is.
Answered ==
  \A selector, caller :
    asked # NotAsked /\ asked.caller = caller /\ asked.selector = selector =>
      found = IF GoesRemote(selector) THEN {"remote"} ELSE Resolve(selector, caller)

\* The first question is a word of any scope; the second is the name of one of
\* the best ranked matches of the first, for the same caller.
Questioned ==
  /\ asked = NotAsked => found = {} /\ meant = Nobody
  /\ asked # NotAsked /\ meant = Nobody =>
       \E word \in Words : asked.selector = Selector("any", word)
  /\ meant # Nobody =>
       /\ meant \in Endpoints /\ asked.selector = QualifiedName(meant)
       /\ \E word \in Words : meant \in Best(Matches(Selector("any", word)), asked.caller)

NamingSound == directory \in Directory /\ Answered /\ Questioned

\* The same directory and the same bridges give the same answers.
LEMMA SameAnswers ==
    ASSUME UNCHANGED <<directory, bridged>>, NEW s, NEW c
    PROVE  (GoesRemote(s) <=> GoesRemote(s)') /\ Resolve(s, c)' = Resolve(s, c)
  <1>1. GoesRemote(s) <=> GoesRemote(s)'
    BY DEF GoesRemote
  <1>2. Matches(s)' = Matches(s)
    BY DEF Matches
  <1>3. ASSUME NEW M PROVE Mine(M, c)' = Mine(M, c)
    BY DEF Mine
  <1>4. ASSUME NEW M PROVE Nearest(M, c)' = Nearest(M, c)
    <2>1. \A e, here : Closeness(e, here)' = Closeness(e, here)
      BY DEF Closeness
    <2> QED
      BY <2>1 DEF Nearest
  <1>5. Resolve(s, c)' = Resolve(s, c)
    BY <1>2, <1>3, <1>4 DEF Resolve
  <1> QED
    BY <1>1, <1>5

\* A question is never the one nobody asked.
LEMMA AskedDiffers ==
    ASSUME NEW c, NEW word \in Words
    PROVE  [caller |-> c, selector |-> Selector("any", word)] # NotAsked
  BY NamingAssumption DEF Selector, NotAsked, ExactId, NoAlias

LEMMA RetypedDiffers ==
    ASSUME directory \in Directory, NEW e \in Endpoints, NEW c
    PROVE  [caller |-> c, selector |-> QualifiedName(e)] # NotAsked
  <1>1. e # Nobody /\ NameOf[directory[e].instance] # "any"
    BY NamingAssumption DEF Directory, EndpointRow
  <1>2. QualifiedName(e).id = e \/ QualifiedName(e).scope = NameOf[directory[e].instance]
    BY DEF QualifiedName, Selector, ExactId
  <1>3. NotAsked.selector.id = Nobody /\ NotAsked.selector.scope = "any"
    BY DEF NotAsked, ExactId
  <1> QED
    BY <1>1, <1>2, <1>3

\* Only a word of any scope can mean something on another host.
LEMMA NamesStayHere ==
    ASSUME directory \in Directory, NEW e \in Endpoints
    PROVE  ~GoesRemote(QualifiedName(e))
  <1>1. e # Nobody /\ NameOf[directory[e].instance] # "any"
    BY NamingAssumption DEF Directory, EndpointRow
  <1>2. QualifiedName(e).id = e \/ QualifiedName(e).scope = NameOf[directory[e].instance]
    BY DEF QualifiedName, Selector, ExactId
  <1> QED
    BY <1>1, <1>2 DEF GoesRemote, ReadsAsRemote

\* The answer is that of the last question asked of this directory, and a retyped
\* name is that of one of the best ranked matches the same caller was shown.
LEMMA NamingInvariant == NamingSpec => []NamingSound
  <1>1. NamingInit => NamingSound
    BY DEF NamingInit, NamingSound, Answered, Questioned
  <1>2. NamingSound /\ [NamingNext]_namingVars => NamingSound'
    <2> SUFFICES ASSUME NamingSound, [NamingNext]_namingVars PROVE NamingSound'
      OBVIOUS
    <2>1. ASSUME NEW c, NEW word \in Words, Ask(c, word) PROVE NamingSound'
      <3>1. /\ asked' = [caller |-> c, selector |-> Selector("any", word)]
            /\ found' = IF GoesRemote(Selector("any", word)) THEN {"remote"}
                        ELSE Resolve(Selector("any", word), c)
            /\ UNCHANGED <<directory, bridged, meant>> /\ meant = Nobody
        BY <2>1 DEF Ask, Answer, NamingSound, Questioned
      <3>2. asked' # NotAsked /\ asked'.selector = Selector("any", word) /\ asked'.caller = c
        BY <3>1, AskedDiffers
      <3>3. Answered'
        BY <3>1, <3>2, SameAnswers DEF Answered
      <3>4. Questioned'
        BY <3>1, <3>2 DEF Questioned
      <3> QED
        BY <3>1, <3>3, <3>4 DEF NamingSound
    <2>2. ASSUME NEW e \in Endpoints, Retype(e) PROVE NamingSound'
      <3> DEFINE name == QualifiedName(e)
      <3>1. /\ asked' = [caller |-> asked.caller, selector |-> name]
            /\ found' = IF GoesRemote(name) THEN {"remote"} ELSE Resolve(name, asked.caller)
            /\ UNCHANGED <<directory, bridged>> /\ meant = Nobody /\ meant' = e
            /\ Cardinality(found) > 1 /\ e \in found
        BY <2>2 DEF Retype, Answer
      <3>2. asked # NotAsked
        BY <3>1 DEF NamingSound, Questioned
      <3>3. PICK word \in Words : asked.selector = Selector("any", word)
        BY <3>1, <3>2 DEF NamingSound, Questioned
      <3>4. found # {"remote"}
        BY <3>1, FS_Singleton
      <3>5. found = Resolve(asked.selector, asked.caller)
        BY <3>2, <3>4 DEF NamingSound, Answered
      <3>6. Selector("any", word).id = Nobody
        BY DEF Selector
      <3>7. e \in Best(Matches(Selector("any", word)), asked.caller)
        BY <3>1, <3>3, <3>5, <3>6, ResolveIsBest
      <3>8. directory \in Directory /\ e # Nobody
        BY NamingAssumption DEF NamingSound
      <3>9. asked' # NotAsked /\ asked'.selector = name /\ asked'.caller = asked.caller
        BY <3>1, <3>8, RetypedDiffers
      <3>10. QualifiedName(e)' = name
        BY <3>1 DEF QualifiedName
      <3>11. Answered'
        <4> HIDE DEF name
        <4> QED
          BY <3>1, <3>9, SameAnswers DEF Answered
      <3>12. Questioned'
        <4>1. (\E w \in Words : e \in Best(Matches(Selector("any", w)), asked.caller))'
          BY <3>1, <3>7, <3>9 DEF Best, Matches, Rank, Closeness
        <4> QED
          BY <3>1, <3>8, <3>9, <3>10, <4>1 DEF Questioned
      <3> QED
        BY <3>1, <3>8, <3>11, <3>12 DEF NamingSound
    <2>3. ASSUME NEW e \in Endpoints, NEW row \in EndpointRow, Again(e, row) PROVE NamingSound'
      BY <2>3 DEF Again, NamingSound, Answered, Questioned
    <2>4. CASE UNCHANGED namingVars
      <3>1. Answered'
        BY <2>4, SameAnswers DEF namingVars, NamingSound, Answered
      <3>2. Questioned'
        BY <2>4 DEF namingVars, NamingSound, Questioned, QualifiedName, Best, Matches, Rank,
                    Closeness
      <3> QED
        BY <2>4, <3>1, <3>2 DEF namingVars, NamingSound
    <2> QED
      BY <2>1, <2>2, <2>3, <2>4 DEF NamingNext
  <1> QED
    BY <1>1, <1>2, PTL DEF NamingSpec

\* More than one match is never silently narrowed to one: whatever the directory,
\* resolve answers the best ranked matches, and all of them.
THEOREM AmbiguityIsReported == NamingSpec => []NeverSilentlyNarrowed
  <1>1. NamingSound => NeverSilentlyNarrowed
    BY ResolveIsBest DEF NamingSound, Answered, NeverSilentlyNarrowed
  <1> QED
    BY <1>1, NamingInvariant, PTL

\* Someone who is the best of some is the best of fewer.
LEMMA BestOfFewer ==
    ASSUME NEW M, NEW T, T \subseteq M, NEW c, NEW e \in T, e \in Best(M, c)
    PROVE  e \in Best(T, c)
  BY DEF Best

\* An alias in an instance of its own name is one agent.
LEMMA AliasIsOneAgent ==
    ASSUME directory \in Directory, NamesDistinct,
           \A f \in Endpoints : ~ReadsAsAddress(directory[f].alias),
           NEW e \in Endpoints, directory[e].alias # NoAlias
    PROVE  Matches(Selector(NameOf[directory[e].instance], directory[e].alias)) = {e}
  <1> DEFINE s == Selector(NameOf[directory[e].instance], directory[e].alias)
  <1>1. s.scope = NameOf[directory[e].instance] /\ s.word = directory[e].alias
    BY DEF Selector
  <1>2. \A f \in Endpoints : directory[f].instance \in Instances /\ NameOf[directory[f].instance] # "any"
    BY NamingAssumption DEF Directory, EndpointRow
  <1>3. ~ReadsAsAddress(s.word)
    BY <1>1
  <1> HIDE DEF s
  <1>4. e \in Matches(s)
    BY <1>1 DEF Matches
  <1>5. ASSUME NEW f \in Matches(s) PROVE f = e
    <2>1. /\ f \in Endpoints /\ s.scope \in {"any", NameOf[directory[f].instance]}
          /\ directory[f].alias = s.word
      BY <1>3 DEF Matches
    <2>2. directory[f].instance = directory[e].instance
      BY <1>1, <1>2, <2>1 DEF NamesDistinct
    <2> QED
      BY <1>1, <2>1, <2>2 DEF Directory
  <1> QED
    BY <1>4, <1>5 DEF s

\* Whoever an offered address finds, the first word found too.
LEMMA AddressFindsFewer ==
    ASSUME directory \in Directory, NamesDistinct,
           \A f \in Endpoints : ~ReadsAsAddress(directory[f].alias),
           NEW e \in Endpoints, directory[e].alias = NoAlias, directory[e].address # Nowhere,
           NEW word \in Words, e \in Matches(Selector("any", word))
    PROVE  LET s == Selector(NameOf[directory[e].instance], Rendered(directory[e].address))
           IN  e \in Matches(s) /\ Matches(s) \subseteq Matches(Selector("any", word))
  <1> DEFINE a == directory[e].address
             s == Selector(NameOf[directory[e].instance], Rendered(a))
             first == Selector("any", word)
  <1>1. a \in Address /\ a # Nowhere
    BY NamingAssumption DEF Directory, EndpointRow
  <1>2. s.scope = NameOf[directory[e].instance] /\ s.word = Rendered(a)
    BY DEF Selector
  <1>3. first.scope = "any" /\ first.word = word
    BY DEF Selector
  <1> HIDE DEF s, first
  <1>4. ReadsAsAddress(s.word) /\ AddressOf(s.word) = a
    <2> HIDE DEF a
    <2> QED
      BY <1>1, <1>2, RenderedFacts
  <1>5. /\ ReadsAsAddress(word) /\ Satisfies(a, AddressOf(word))
    <2>1. word # NoAlias
      BY NamingAssumption
    <2> QED
      BY <1>3, <2>1 DEF Matches, first
  <1>6. e \in Matches(s)
    <2>1. Satisfies(a, a)
      BY DEF Satisfies
    <2> QED
      BY <1>1, <1>2, <1>4, <2>1 DEF Matches
  <1>7. ASSUME NEW f \in Matches(s) PROVE f \in Matches(first)
    <2>1. f \in Endpoints /\ (directory[f].alias = s.word \/ Satisfies(directory[f].address, a))
          /\ (directory[f].alias # s.word => directory[f].address # Nowhere)
      BY <1>4 DEF Matches
    <2>2. directory[f].alias # s.word
      BY <1>4, <2>1
    <2>3. Satisfies(directory[f].address, AddressOf(word))
      BY <1>5, <2>1, <2>2 DEF Satisfies, Named
    <2> QED
      BY <1>3, <1>5, <2>1, <2>2, <2>3 DEF Matches
  <1> QED
    BY <1>6, <1>7 DEF s, first

\* A name offered for an agent finds that agent again, whatever the directory,
\* as long as no alias reads as an address and instances have names of their own.
THEOREM OfferedNamesLeadBack == NamingSpec => []RetypingNeverMisdirects
  <1>1. NamingSound => RetypingNeverMisdirects
    <2> SUFFICES ASSUME NamingSound, meant # Nobody, NamesDistinct,
                        \A e \in Endpoints : ~ReadsAsAddress(directory[e].alias)
                 PROVE  meant \in found
      BY DEF RetypingNeverMisdirects
    <2> DEFINE e == meant
               c == asked.caller
               name == QualifiedName(e)
    <2>1. /\ directory \in Directory /\ e \in Endpoints /\ e # Nobody
          /\ asked.selector = name /\ asked # NotAsked
      BY NamingAssumption DEF NamingSound, Questioned
    <2>2. PICK word \in Words : e \in Best(Matches(Selector("any", word)), c)
      BY DEF NamingSound, Questioned
    <2>3. found = Resolve(name, c)
      BY <2>1, NamesStayHere DEF NamingSound, Answered
    <2>4. CASE directory[e].alias # NoAlias
      <3>1. name = Selector(NameOf[directory[e].instance], directory[e].alias)
        BY <2>4 DEF QualifiedName
      <3>2. Matches(name) = {e} /\ name.id = Nobody
        BY <2>1, <2>4, <3>1, AliasIsOneAgent DEF Selector
      <3>3. e \in Best({e}, c)
        <4>1. ~Below(Rank(e, c), Rank(e, c))
          BY RankType DEF Below
        <4> QED
          BY <4>1 DEF Best
      <3> HIDE DEF name, e, c
      <3> QED
        BY <2>3, <3>2, <3>3, ResolveIsBest DEF e
    <2>5. CASE directory[e].alias = NoAlias /\ directory[e].address # Nowhere
      <3>1. name = Selector(NameOf[directory[e].instance], Rendered(directory[e].address))
        BY <2>5 DEF QualifiedName
      <3>2. e \in Matches(Selector("any", word))
        BY <2>2 DEF Best
      <3>3. e \in Matches(name) /\ Matches(name) \subseteq Matches(Selector("any", word))
        BY <2>1, <2>5, <3>1, <3>2, AddressFindsFewer
      <3>4. name.id = Nobody
        BY <3>1 DEF Selector
      <3> HIDE DEF name, e, c
      <3>5. e \in Best(Matches(name), c)
        BY <2>2, <3>3, BestOfFewer
      <3> QED
        BY <2>3, <3>4, <3>5, ResolveIsBest DEF e
    <2>6. CASE directory[e].alias = NoAlias /\ directory[e].address = Nowhere
      <3>1. name = ExactId(e)
        BY <2>6 DEF QualifiedName
      <3> QED
        BY <2>1, <2>3, <3>1 DEF Resolve, ExactId
    <2> QED
      BY <2>4, <2>5, <2>6
  <1> QED
    BY <1>1, NamingInvariant, PTL
=============================================================================
