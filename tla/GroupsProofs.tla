---------------------------- MODULE GroupsProofs ----------------------------
(***************************************************************************)
(* Proofs about group sends: only members of the snapshot were asked, and a  *)
(* wait that reports a quorum has that many answers of members the send      *)
(* reported as accepted, unless the send was run again.                      *)
(***************************************************************************)
EXTENDS Groups, FiniteSetTheorems, TLAPS

\* A group send that was never opened holds nothing; a request tied to a send is
\* to a member of its snapshot, under its key, and reported as accepted.
Unopened == \A s \in Send : sends[s].key = None => sends[s] = NoSend

Tied ==
    \A r \in Key \X Member : req[r].send # 0 =>
        LET s == req[r].send
        IN  /\ sends[s].key = r[1] /\ r[2] \in sends[s].members
            /\ r[2] \in sends[s].accepted

\* A fan-out works off members of the snapshot of its own send, which it has
\* not reported.
Works(sd) ==
    LET s == sender[sd].send
    IN  /\ s \in Send /\ sends[s].key = sender[sd].key
        /\ sender[sd].todo \subseteq sends[s].members /\ ~sends[s].reported

Busy(sd) == sender[sd].pc \in {"send", "attach"}

FanOuts ==
    /\ \A sd \in Sender : sender[sd].pc # "idle" =>
        /\ sender[sd].key \in Key /\ sender[sd].todo # {}
        /\ sender[sd].todo \subseteq sender[sd].members
    /\ \A sd \in Sender : Busy(sd) => Works(sd)
    /\ \A sd, td \in Sender : Busy(sd) /\ Busy(td) /\ sender[sd].send = sender[td].send
            => sd = td

\* As long as nobody retries a send, its accepted members keep their tie to it.
Kept ==
    \A s \in Send : ~Retried(s) =>
        \A e \in sends[s].accepted : req[<<sends[s].key, e>>].send = s

\* A waiter waits for a reported send, on accepted members; needing none means
\* that there are none, and a quorum was counted.
Waits(w) ==
    LET s == waiter[w].send
    IN  /\ s \in Send /\ sends[s].reported
        /\ \A r \in waiter[w].asked : r[1] = sends[s].key /\ r[2] \in sends[s].accepted
        /\ waiter[w].needed = 0 /\ ~Retried(s) => sends[s].accepted = {}
        /\ waiter[w].pc = "quorum" => Cardinality(Answered(w)) >= waiter[w].needed

Waiting == \A w \in Waiter : waiter[w].pc # "idle" => Waits(w)

Sound ==
    TypeOK /\ Unopened /\ Tied /\ FanOuts /\ Kept /\ Waiting

-----------------------------------------------------------------------------
(***************************************************************************)
(* Numbers and sets                                                         *)
(***************************************************************************)

LEMMA MinIsLeast ==
    ASSUME NEW S \in SUBSET Nat, S # {}
    PROVE  Min(S) \in S /\ \A y \in S : Min(S) =< y
  <1> DEFINE R == OpToRel(<, Nat)
  <1>1. IsWellFoundedOn(R, Nat)
    BY NatLessThanWellFounded
  <1>2. \E x \in S : \A y \in S : <<y, x>> \notin R
    <2> HIDE DEF R
    <2> QED
      BY <1>1, WFMin
  <1>3. \A x, y \in Nat : <<y, x>> \notin R => x =< y
    BY DEF OpToRel
  <1>4. \E x \in S : \A y \in S : x =< y
    BY <1>2, <1>3
  <1> QED
    BY <1>4 DEF Min

LEMMA AskedFinite ==
    ASSUME NEW k \in Key, NEW A \in SUBSET (Key \X Member), \A r \in A : r[1] = k
    PROVE  IsFiniteSet(A) /\ Cardinality(A) \in Nat
  <1>1. IsFiniteSet({k} \X Member)
    <2>1. IsFiniteSet(Member)
      BY GroupsAssumption, FS_Interval DEF Member
    <2>2. IsFiniteSet({k})
      BY FS_Singleton
    <2> QED
      BY <2>1, <2>2, FS_Product
  <1>2. A \subseteq {k} \X Member
    OBVIOUS
  <1> QED
    BY <1>1, <1>2, FS_Subset, FS_CardinalityType

LEMMA NoSendFields ==
    /\ NoSend \in SendRow /\ NoSend.key = None /\ NoSend.members = {}
    /\ NoSend.accepted = {} /\ ~NoSend.reported
  BY DEF NoSend, SendRow

LEMMA NoFanOutFields == NoFanOut \in FanOutState /\ NoFanOut.pc = "idle"
  BY DEF NoFanOut, FanOutState

-----------------------------------------------------------------------------
(***************************************************************************)
(* What a step may do to a send and to a request                            *)
(***************************************************************************)

\* A send that was reported stays as it is, one that was opened keeps its key
\* and its snapshot, and what was accepted stays so.
Opened(s) ==
    /\ sends[s] = NoSend /\ sends'[s].key \in Key
    /\ sends'[s].accepted = {} /\ ~sends'[s].reported
Grows(s) ==
    \/ sends'[s] = sends[s]
    \/ Opened(s)
    \/ /\ sends[s].key # None /\ ~sends[s].reported /\ sends'[s].key = sends[s].key
       /\ sends'[s].members = sends[s].members /\ sends[s].accepted \subseteq sends'[s].accepted

SendsGrow == sends' \in [Send -> SendRow] /\ \A s \in Send : Grows(s)

AnswersStay ==
    /\ req' \in [Key \X Member -> Request]
    /\ \A r \in Key \X Member : req[r].state = "answered" => req'[r].state = "answered"

TiesStay == \A r \in Key \X Member : req'[r].send = req[r].send

LEMMA RetriedStays ==
    ASSUME TypeOK, SendsGrow, NEW s \in Send, sends[s].key # None, Retried(s)
    PROVE  Retried(s)'
  <1>1. PICK t \in Send \ {s} : sends[t].key = sends[s].key
    BY DEF Retried
  <1>2. sends'[s].key = sends[s].key /\ sends'[t].key = sends[t].key
    BY <1>1, NoSendFields DEF SendsGrow, Grows, Opened
  <1> QED
    BY <1>1, <1>2 DEF Retried

LEMMA WaitsStay ==
    ASSUME TypeOK, Unopened, SendsGrow, AnswersStay,
           NEW w \in Waiter, waiter'[w] = waiter[w], Waits(w)
    PROVE  Waits(w)'
  <1> DEFINE s == waiter[w].send
  <1>1. /\ s \in Send /\ sends[s].reported /\ waiter[w] \in WaitState
        /\ \A r \in waiter[w].asked : r[1] = sends[s].key /\ r[2] \in sends[s].accepted
    BY DEF Waits, TypeOK
  <1>2. sends[s].key \in Key
    BY <1>1, NoSendFields DEF Unopened, TypeOK, SendRow
  <1>3. sends'[s] = sends[s]
    BY <1>1, NoSendFields DEF SendsGrow, Grows, Opened
  <1>4. ~Retried(s)' => ~Retried(s)
    BY <1>1, <1>2, GroupsAssumption, RetriedStays
  <1>5. Answered(w) \subseteq Answered(w)'
    BY <1>1 DEF Answered, AnswersStay, WaitState
  <1>6. /\ Answered(w)' \in SUBSET (Key \X Member) /\ \A r \in Answered(w)' : r[1] = sends[s].key
        /\ Answered(w) \in SUBSET (Key \X Member) /\ \A r \in Answered(w) : r[1] = sends[s].key
    BY <1>1 DEF Answered, WaitState
  <1>7. Cardinality(Answered(w)) =< Cardinality(Answered(w)')
    BY <1>2, <1>5, <1>6, AskedFinite, FS_Subset
  <1>8. /\ Cardinality(Answered(w)) \in Nat /\ Cardinality(Answered(w)') \in Nat
        /\ waiter[w].needed \in Nat
    BY <1>1, <1>2, <1>6, AskedFinite DEF WaitState
  <1>9. waiter'[w].pc = "quorum" => Cardinality(Answered(w)') >= waiter'[w].needed
    BY <1>7, <1>8 DEF Waits
  <1> QED
    BY <1>1, <1>3, <1>4, <1>9 DEF Waits

LEMMA WaitingStays ==
    ASSUME TypeOK, Unopened, Waiting, SendsGrow, AnswersStay, UNCHANGED waiter
    PROVE  Waiting'
  <1> SUFFICES ASSUME NEW w \in Waiter, waiter[w].pc # "idle" PROVE Waits(w)'
    BY DEF Waiting
  <1> QED
    BY WaitsStay DEF Waiting

\* As long as no tie and no send changes, what relates them stays true.
LEMMA TiedStays ==
    ASSUME TypeOK, Unopened, Tied, Kept, UNCHANGED sends, TiesStay
    PROVE  Unopened' /\ Tied' /\ Kept'
  <1>1. Unopened'
    BY DEF Unopened
  <1>2. Tied'
    BY DEF Tied, TiesStay
  <1>3. Kept'
    <2> SUFFICES ASSUME NEW s \in Send, ~Retried(s), NEW e \in sends[s].accepted
                 PROVE  req'[<<sends[s].key, e>>].send = s
      BY DEF Kept, Retried
    <2>1. <<sends[s].key, e>> \in Key \X Member
      BY NoSendFields DEF Unopened, TypeOK, SendRow
    <2> QED
      BY <2>1 DEF Kept, TiesStay
  <1> QED
    BY <1>1, <1>2, <1>3

Rest == Unopened /\ Tied /\ FanOuts /\ Kept /\ Waiting

-----------------------------------------------------------------------------
(***************************************************************************)
(* Fanning out                                                              *)
(***************************************************************************)

LEMMA OpenStep ==
    ASSUME TypeOK, Rest, NEW sd \in Sender, OpenGroupSend(sd)
    PROVE  Rest' /\ SendsGrow
  <1>t. sends \in [Send -> SendRow] /\ sender \in [Sender -> FanOutState]
    BY DEF TypeOK
  <1>1. PICK s \in Send :
            /\ sends[s].key = None
            /\ sends' = [sends EXCEPT ![s].key = sender[sd].key,
                                      ![s].members = sender[sd].members]
            /\ sender' = [sender EXCEPT ![sd].pc = "send", ![sd].send = s]
            /\ UNCHANGED <<req, waiter>>
    BY DEF OpenGroupSend
  <1>2. sends[s] = NoSend /\ sender[sd].key \in Key /\ sender[sd].members \subseteq Member
    BY <1>1, <1>t DEF Rest, Unopened, FanOuts, OpenGroupSend, FanOutState
  <1>3. /\ sends'[s].key = sender[sd].key /\ sends'[s].members = sender[sd].members
        /\ sends'[s].accepted = {} /\ ~sends'[s].reported
        /\ \A t \in Send : t # s => sends'[t] = sends[t]
    BY <1>1, <1>2, <1>t, NoSendFields DEF SendRow
  <1>4. SendsGrow
    <2>1. sends' \in [Send -> SendRow]
      BY <1>1, <1>2, <1>t DEF SendRow
    <2> QED
      BY <1>2, <1>3, <2>1 DEF SendsGrow, Grows, Opened
  <1>5. Unopened'
    BY <1>2, <1>3, GroupsAssumption DEF Rest, Unopened
  <1>6. Tied'
    <2> SUFFICES ASSUME NEW r \in Key \X Member, req[r].send # 0
                 PROVE  LET t == req[r].send
                        IN  /\ sends'[t].key = r[1] /\ r[2] \in sends'[t].members
                            /\ r[2] \in sends'[t].accepted
      BY <1>1 DEF Tied
    <2>1. req[r].send \in Send /\ req[r].send # s
      BY <1>1, GroupsAssumption DEF TypeOK, Request, Rest, Tied
    <2> QED
      BY <1>3, <2>1 DEF Rest, Tied
  <1>7. Kept'
    <2> SUFFICES ASSUME NEW t \in Send, ~Retried(t)', NEW e \in sends'[t].accepted
                 PROVE  req[<<sends'[t].key, e>>].send = t
      BY <1>1 DEF Kept
    <2>1. t # s /\ sends'[t] = sends[t]
      BY <1>3
    <2>2. sends[t].key # None
      BY <2>1, NoSendFields DEF Rest, Unopened
    <2>3. ~Retried(t)
      BY <1>4, <2>2, RetriedStays
    <2> QED
      BY <2>1, <2>3 DEF Rest, Kept
  <1>8. FanOuts'
    <2>1. /\ sender'[sd].pc = "send" /\ sender'[sd].send = s
          /\ sender'[sd].key = sender[sd].key /\ sender'[sd].members = sender[sd].members
          /\ sender'[sd].todo = sender[sd].todo
          /\ \A td \in Sender : td # sd => sender'[td] = sender[td]
      BY <1>1, <1>t DEF FanOutState
    <2>2. \A td \in Sender : Busy(td) => sender[td].send # s
      BY <1>2, NoSendFields, GroupsAssumption DEF Rest, FanOuts, Works, Busy
    <2>3. Works(sd)'
      BY <1>3, <2>1 DEF Works, Rest, FanOuts, OpenGroupSend
    <2>4. \A td \in Sender : td # sd /\ Busy(td)' => Works(td)'
      BY <1>3, <2>1, <2>2 DEF Works, Busy, Rest, FanOuts
    <2>5. \A td \in Sender : sender'[td].pc # "idle" =>
            /\ sender'[td].key \in Key /\ sender'[td].todo # {}
            /\ sender'[td].todo \subseteq sender'[td].members
      BY <2>1 DEF Rest, FanOuts, OpenGroupSend
    <2>6. \A td \in Sender : Busy(td)' => Works(td)'
      BY <2>3, <2>4
    <2>7. \A td, ud \in Sender : Busy(td)' /\ Busy(ud)' /\ sender'[td].send = sender'[ud].send
            => td = ud
      BY <2>1, <2>2 DEF Rest, FanOuts, Busy
    <2> QED
      BY <2>5, <2>6, <2>7 DEF FanOuts
  <1>9. AnswersStay
    BY <1>1 DEF AnswersStay, TypeOK
  <1>10. Waiting'
    BY <1>1, <1>4, <1>9, WaitingStays DEF Rest
  <1> QED
    BY <1>4, <1>5, <1>6, <1>7, <1>8, <1>10 DEF Rest

\* The member a fan-out turns to is one of those it has left, and of its snapshot.
LEMMA TurnIsLeft ==
    ASSUME TypeOK, FanOuts, NEW sd \in Sender, Busy(sd)
    PROVE  /\ Turn(sd) \in sender[sd].todo /\ Turn(sd) \in Member
           /\ sender[sd].key \in Key /\ RequestOf(sd) \in Key \X Member
           /\ Works(sd) /\ Turn(sd) \in sends[sender[sd].send].members
  <1>1. sender[sd].todo # {} /\ sender[sd].todo \subseteq Member /\ sender[sd].key \in Key
    BY DEF Busy, FanOuts, TypeOK, FanOutState
  <1>2. sender[sd].todo \in SUBSET Nat
    BY <1>1 DEF Member
  <1>3. Turn(sd) \in sender[sd].todo
    BY <1>1, <1>2, MinIsLeast DEF Turn
  <1>4. Works(sd)
    BY DEF FanOuts
  <1> QED
    BY <1>1, <1>3, <1>4 DEF RequestOf, Works

\* The fan-out goes on with a member less, or has reported its send.
Goes(sd) ==
    /\ sender' = [sender EXCEPT ![sd] = Onward(sd)]
    /\ \A s \in Send : s # sender[sd].send => sends'[s] = sends[s]
    /\ LET s == sender[sd].send
       IN  /\ sends'[s].key = sends[s].key /\ sends'[s].members = sends[s].members
           /\ sends[s].accepted \subseteq sends'[s].accepted
           /\ sends'[s].reported = (sender[sd].todo = {Turn(sd)})

LEMMA GoesOn ==
    ASSUME TypeOK, FanOuts, NEW sd \in Sender, Busy(sd), NEW A \in SUBSET {Turn(sd)},
           Reports(sd, A), sender' = [sender EXCEPT ![sd] = Onward(sd)]
    PROVE  /\ Goes(sd) /\ SendsGrow
           /\ sends'[sender[sd].send].accepted = sends[sender[sd].send].accepted \cup A
  <1> DEFINE s == sender[sd].send
  <1>t. sends \in [Send -> SendRow]
    BY DEF TypeOK
  <1>1. s \in Send /\ ~sends[s].reported /\ sends[s].key \in Key /\ A \subseteq Member
    BY TurnIsLeft DEF Works
  <1>2. PICK row : row = [sends[s] EXCEPT !.accepted = sends[s].accepted \cup A,
                                          !.reported = (sender[sd].todo = {Turn(sd)})]
    OBVIOUS
  <1>3. /\ row \in SendRow /\ row.key = sends[s].key /\ row.members = sends[s].members
        /\ row.accepted = sends[s].accepted \cup A
        /\ row.reported = (sender[sd].todo = {Turn(sd)})
    BY <1>t, <1>1, <1>2 DEF SendRow
  <1>4. sends' = [sends EXCEPT ![s] = row]
    BY <1>t, <1>1, <1>2 DEF Reports
  <1>5. sends'[s] = row /\ \A t \in Send : t # s => sends'[t] = sends[t]
    BY <1>t, <1>1, <1>4
  <1>6. SendsGrow
    <2>1. sends' \in [Send -> SendRow]
      BY <1>t, <1>1, <1>3, <1>4
    <2>2. Grows(s)
      BY <1>1, <1>3, <1>5, GroupsAssumption DEF Grows
    <2> QED
      BY <1>5, <2>1, <2>2 DEF SendsGrow, Grows
  <1> QED
    BY <1>3, <1>5, <1>6 DEF Goes

LEMMA FanOutsGo ==
    ASSUME TypeOK, FanOuts, NEW sd \in Sender, Busy(sd), Goes(sd)
    PROVE  FanOuts' /\ sender' \in [Sender -> FanOutState]
  <1> DEFINE left == sender[sd].todo \ {Turn(sd)}
  <1>t. sender \in [Sender -> FanOutState]
    BY DEF TypeOK
  <1>0. \A td \in Sender : td # sd => sender'[td] = sender[td]
    BY <1>t DEF Goes
  <1>1. \A td \in Sender : td # sd /\ Busy(td) => sender[td].send # sender[sd].send
    BY DEF FanOuts
  <1>2. \A td \in Sender : td # sd /\ Busy(td) => Works(td)'
    BY <1>0, <1>1 DEF Goes, Works, FanOuts
  <1>3. CASE sender[sd].todo = {Turn(sd)}
    <2>1. sender'[sd] = NoFanOut
      BY <1>3, <1>t DEF Goes, Onward
    <2>2. ~Busy(sd)' /\ sender'[sd].pc = "idle"
      BY <2>1, NoFanOutFields DEF Busy
    <2>3. \A td \in Sender : sender'[td].pc # "idle" => td # sd /\ sender'[td] = sender[td]
      BY <1>0, <2>2
    <2>4. \A td \in Sender : Busy(td)' => td # sd /\ Busy(td)
      BY <1>0, <2>2 DEF Busy
    <2>5. sender' \in [Sender -> FanOutState]
      BY <1>3, <1>t, NoFanOutFields DEF Goes, Onward
    <2>6. \A td \in Sender : Busy(td)' => Works(td)'
      BY <1>2, <2>4
    <2>7. \A td \in Sender : sender'[td].pc # "idle" =>
            /\ sender'[td].key \in Key /\ sender'[td].todo # {}
            /\ sender'[td].todo \subseteq sender'[td].members
      BY <2>3 DEF FanOuts
    <2>8. \A td, ud \in Sender : Busy(td)' /\ Busy(ud)' /\ sender'[td].send = sender'[ud].send
            => td = ud
      BY <1>0, <2>4 DEF FanOuts
    <2> QED
      BY <2>5, <2>6, <2>7, <2>8 DEF FanOuts
  <1>4. CASE sender[sd].todo # {Turn(sd)}
    <2>0. PICK k : k = [sender[sd] EXCEPT !.pc = "send", !.todo = left]
      OBVIOUS
    <2>1. /\ k \in FanOutState /\ k.pc = "send" /\ k.key = sender[sd].key
          /\ k.send = sender[sd].send /\ k.members = sender[sd].members /\ k.todo = left
      BY <1>t, <2>0 DEF FanOutState
    <2>2. sender' = [sender EXCEPT ![sd] = k] /\ sender'[sd] = k
      BY <1>4, <1>t, <2>0 DEF Goes, Onward
    <2>3. left # {} /\ left \subseteq sender[sd].todo
      BY <1>4, TurnIsLeft
    <2>4. Works(sd)'
      BY <1>4, <2>1, <2>2, <2>3, TurnIsLeft DEF Goes, Works
    <2>5. sender' \in [Sender -> FanOutState]
      BY <1>t, <2>1, <2>2
    <2>6. \A td \in Sender : Busy(td)' => Busy(td) /\ sender'[td].send = sender[td].send
      BY <1>0, <2>1, <2>2 DEF Busy
    <2>7. \A td \in Sender : Busy(td)' => Works(td)'
      BY <1>2, <2>4, <2>6
    <2>8. \A td \in Sender : sender'[td].pc # "idle" =>
            /\ sender'[td].key \in Key /\ sender'[td].todo # {}
            /\ sender'[td].todo \subseteq sender'[td].members
      BY <1>0, <2>1, <2>2, <2>3 DEF FanOuts, Busy
    <2>9. \A td, ud \in Sender : Busy(td)' /\ Busy(ud)' /\ sender'[td].send = sender'[ud].send
            => td = ud
      BY <2>6 DEF FanOuts
    <2> QED
      BY <2>5, <2>7, <2>8, <2>9 DEF FanOuts
  <1> QED
    BY <1>3, <1>4

LEMMA RejectedStep ==
    ASSUME TypeOK, Rest, NEW sd \in Sender, SendRejected(sd)
    PROVE  Rest' /\ SendsGrow /\ AnswersStay
  <1>1. Busy(sd) /\ Reports(sd, {}) /\ sender' = [sender EXCEPT ![sd] = Onward(sd)]
        /\ UNCHANGED <<req, waiter>>
    BY DEF SendRejected, Busy
  <1>2. /\ Goes(sd) /\ SendsGrow
        /\ sends'[sender[sd].send].accepted = sends[sender[sd].send].accepted \cup {}
    BY <1>1, GoesOn DEF Rest
  <1>3. FanOuts'
    BY <1>1, <1>2, FanOutsGo DEF Rest
  <1>4. AnswersStay
    BY <1>1 DEF AnswersStay, TypeOK
  <1>5. \A s \in Send : /\ sends'[s].key = sends[s].key /\ sends'[s].members = sends[s].members
                        /\ sends'[s].accepted = sends[s].accepted
                        /\ sends[s].key = None => sends'[s] = sends[s]
    <2>1. sends[sender[sd].send].key # None
      BY <1>1, TurnIsLeft, GroupsAssumption DEF Rest, Works
    <2> QED
      BY <1>2, <2>1 DEF Goes
  <1>6. Unopened' /\ Tied'
    <2>1. Unopened'
      BY <1>1, <1>5 DEF Rest, Unopened, TypeOK, Request
    <2>2. Tied'
      BY <1>1, <1>5 DEF Rest, Tied, TypeOK, Request
    <2> QED
      BY <2>1, <2>2
  <1>7. Kept'
    BY <1>1, <1>5 DEF Rest, Kept, Retried
  <1> QED
    BY <1>1, <1>2, <1>3, <1>4, <1>6, <1>7, WaitingStays DEF Rest

LEMMA AttachStep ==
    ASSUME TypeOK, Rest, NEW sd \in Sender, AttachToGroupSend(sd)
    PROVE  Rest' /\ SendsGrow /\ AnswersStay
  <1> DEFINE s == sender[sd].send
             q == RequestOf(sd)
  <1>t. req \in [Key \X Member -> Request]
    BY DEF TypeOK
  <1>1. /\ Busy(sd) /\ Reports(sd, {Turn(sd)}) /\ sender' = [sender EXCEPT ![sd] = Onward(sd)]
        /\ req' = [req EXCEPT ![q].send = s] /\ UNCHANGED waiter
    BY DEF AttachToGroupSend, Busy
  <1>2. /\ Goes(sd) /\ SendsGrow
        /\ sends'[s].accepted = sends[s].accepted \cup {Turn(sd)}
    BY <1>1, GoesOn DEF Rest
  <1>3. FanOuts'
    BY <1>1, <1>2, FanOutsGo DEF Rest
  <1>4. /\ q \in Key \X Member /\ s \in Send /\ sends[s].key = q[1] /\ q[2] = Turn(sd)
        /\ q[2] \in sends[s].members
    BY <1>1, TurnIsLeft DEF Rest, Works, RequestOf
  <1>5. /\ req' \in [Key \X Member -> Request] /\ req'[q].send = s
        /\ \A r \in Key \X Member : req'[r].state = req[r].state
        /\ \A r \in Key \X Member : r # q => req'[r] = req[r]
    BY <1>1, <1>4, <1>t DEF Request
  <1>6. AnswersStay
    BY <1>5 DEF AnswersStay
  <1>7. \A t \in Send : /\ sends'[t].key = sends[t].key /\ sends'[t].members = sends[t].members
                        /\ sends[t].accepted \subseteq sends'[t].accepted
                        /\ t # s => sends'[t] = sends[t]
    BY <1>2 DEF Goes
  <1>8. Unopened'
    BY <1>4, <1>7, GroupsAssumption DEF Rest, Unopened
  <1>9. Tied'
    <2> SUFFICES ASSUME NEW r \in Key \X Member, req'[r].send # 0
                 PROVE  LET t == req'[r].send
                        IN  /\ sends'[t].key = r[1] /\ r[2] \in sends'[t].members
                            /\ r[2] \in sends'[t].accepted
      BY DEF Tied
    <2>1. CASE r = q
      BY <1>2, <1>4, <1>5, <1>7, <2>1
    <2>2. CASE r # q
      <3>1. req'[r] = req[r] /\ req[r].send \in Send
        BY <1>5, <1>t, <2>2 DEF Request
      <3> QED
        BY <1>7, <3>1 DEF Rest, Tied
    <2> QED
      BY <2>1, <2>2
  <1>10. Kept'
    <2> SUFFICES ASSUME NEW t \in Send, ~Retried(t)', NEW e \in sends'[t].accepted
                 PROVE  req'[<<sends'[t].key, e>>].send = t
      BY DEF Kept
    <2>1. ~Retried(t)
      BY <1>7 DEF Retried
    <2>2. CASE t = s /\ e = Turn(sd)
      <3>1. <<sends'[t].key, e>> = q
        BY <1>4, <1>7, <2>2
      <3> QED
        BY <1>5, <2>2, <3>1
    <2>3. CASE ~(t = s /\ e = Turn(sd))
      <3>1. e \in sends[t].accepted
        BY <1>2, <1>7, <2>3
      <3>2. req[<<sends[t].key, e>>].send = t /\ <<sends[t].key, e>> \in Key \X Member
        BY <2>1, <3>1, NoSendFields DEF Rest, Kept, Unopened, TypeOK, SendRow
      <3>3. <<sends[t].key, e>> # q
        <4>1. CASE t = s
          BY <1>4, <2>3, <4>1
        <4>2. CASE t # s
          BY <1>4, <2>1, <4>2 DEF Retried
        <4> QED
          BY <4>1, <4>2
      <3> QED
        BY <1>5, <1>7, <3>2, <3>3
    <2> QED
      BY <2>2, <2>3
  <1>11. Waiting'
    BY <1>1, <1>2, <1>6, WaitingStays DEF Rest
  <1> QED
    BY <1>2, <1>3, <1>6, <1>8, <1>9, <1>10, <1>11 DEF Rest

-----------------------------------------------------------------------------
(***************************************************************************)
(* The other steps                                                          *)
(***************************************************************************)

LEMMA SenderStep ==
    ASSUME TypeOK, Rest, NEW sd \in Sender,
           SendAccepted(sd) \/ Crash(sd) \/ \E k \in Key : FanOut(sd, k)
    PROVE  Rest' /\ SendsGrow /\ AnswersStay /\ sender' \in [Sender -> FanOutState]
  <1>t. /\ sender \in [Sender -> FanOutState] /\ req \in [Key \X Member -> Request]
        /\ sends \in [Send -> SendRow]
    BY DEF TypeOK
  <1>1. UNCHANGED <<sends, waiter>>
    BY DEF SendAccepted, Crash, FanOut
  <1>2. SendsGrow
    BY <1>t, <1>1 DEF SendsGrow, Grows
  <1>3. AnswersStay /\ TiesStay
    <2>1. CASE UNCHANGED req
      BY <1>t, <2>1 DEF AnswersStay, TiesStay
    <2>2. CASE /\ Busy(sd) /\ req[RequestOf(sd)].state = "absent"
               /\ req' = [req EXCEPT ![RequestOf(sd)].state = "open"]
      <3>1. RequestOf(sd) \in Key \X Member
        BY <2>2, TurnIsLeft DEF Rest
      <3> QED
        BY <1>t, <2>2, <3>1 DEF AnswersStay, TiesStay, Request
    <2> QED
      BY <2>1, <2>2 DEF SendAccepted, Crash, FanOut, Busy
  <1>n. ASSUME NEW x \in FanOutState, sender' = [sender EXCEPT ![sd] = x],
               \/ x.pc = "idle"
               \/ /\ x.pc = "attach" /\ Busy(sd) /\ x.key = sender[sd].key
                  /\ x.send = sender[sd].send /\ x.todo = sender[sd].todo
                  /\ x.members = sender[sd].members
               \/ /\ x.pc = "open" /\ x.key \in Key /\ x.todo # {} /\ x.todo \subseteq x.members
        PROVE  FanOuts' /\ sender' \in [Sender -> FanOutState]
    <2>1. sender'[sd] = x /\ \A td \in Sender : td # sd => sender'[td] = sender[td]
      BY <1>n, <1>t
    <2>2. \A td \in Sender : Busy(td)' =>
            /\ Busy(td) /\ sender'[td].send = sender[td].send
            /\ sender'[td].key = sender[td].key /\ sender'[td].todo = sender[td].todo
      BY <1>n, <2>1 DEF Busy
    <2>3. \A td \in Sender : Busy(td)' => Works(td)'
      BY <1>1, <2>2 DEF Rest, FanOuts, Works
    <2>4. \A td, ud \in Sender : Busy(td)' /\ Busy(ud)' /\ sender'[td].send = sender'[ud].send
            => td = ud
      BY <2>2 DEF Rest, FanOuts
    <2>5. \A td \in Sender : sender'[td].pc # "idle" =>
            /\ sender'[td].key \in Key /\ sender'[td].todo # {}
            /\ sender'[td].todo \subseteq sender'[td].members
      BY <1>n, <2>1 DEF Rest, FanOuts, Busy
    <2>6. sender' \in [Sender -> FanOutState]
      BY <1>n, <1>t
    <2> QED
      BY <2>3, <2>4, <2>5, <2>6 DEF FanOuts
  <1>4. FanOuts' /\ sender' \in [Sender -> FanOutState]
    <2>1. CASE SendAccepted(sd)
      <3>0. PICK x : x = [sender[sd] EXCEPT !.pc = "attach"]
        OBVIOUS
      <3>1. /\ x \in FanOutState /\ x.pc = "attach" /\ x.key = sender[sd].key
            /\ x.send = sender[sd].send /\ x.todo = sender[sd].todo
            /\ x.members = sender[sd].members
        BY <1>t, <3>0 DEF FanOutState
      <3>2. sender' = [sender EXCEPT ![sd] = x] /\ Busy(sd)
        BY <1>t, <2>1, <3>0 DEF SendAccepted, Busy
      <3> QED
        BY <1>n, <3>1, <3>2
    <2>2. CASE Crash(sd)
      BY <1>n, <2>2, NoFanOutFields DEF Crash
    <2>3. ASSUME NEW k \in Key, FanOut(sd, k)
          PROVE  FanOuts' /\ sender' \in [Sender -> FanOutState]
      <3>0. PICK x : x = [NoFanOut EXCEPT !.pc = "open", !.key = k, !.members = group,
                                          !.todo = group]
        OBVIOUS
      <3>1. group \subseteq Member /\ group # {}
        BY <2>3 DEF FanOut, TypeOK
      <3>2. /\ x \in FanOutState /\ x.pc = "open" /\ x.key = k
            /\ x.todo = group /\ x.members = group
        BY <3>0, <3>1 DEF NoFanOut, FanOutState
      <3>3. sender' = [sender EXCEPT ![sd] = x]
        BY <2>3, <3>0 DEF FanOut
      <3> QED
        BY <1>n, <3>1, <3>2, <3>3
    <2> QED
      BY <2>1, <2>2, <2>3
  <1> QED
    BY <1>1, <1>2, <1>3, <1>4, WaitingStays, TiedStays DEF Rest

LEMMA EndsStep ==
    ASSUME TypeOK, Rest, NEW r \in Key \X Member, NEW state \in {"answered", "over"},
           Ends(r, state)
    PROVE  Rest' /\ SendsGrow /\ AnswersStay
  <1>1. UNCHANGED <<sends, waiter, sender>> /\ req \in [Key \X Member -> Request]
    BY DEF Ends, TypeOK
  <1>2. SendsGrow
    BY <1>1 DEF SendsGrow, Grows, TypeOK
  <1>3. AnswersStay /\ TiesStay
    BY <1>1 DEF Ends, AnswersStay, TiesStay, Request
  <1>4. FanOuts'
    BY <1>1 DEF Rest, FanOuts, Works, Busy
  <1> QED
    BY <1>1, <1>2, <1>3, <1>4, WaitingStays, TiedStays DEF Rest

\* A wait starts on the requests tied to the send, and those are its accepted
\* members; a quorum is counted when it is reported.
LEMMA WaiterStep ==
    ASSUME TypeOK, Rest, NEW w \in Waiter,
           \/ \E s \in Send, q \in Quorum : Wait(w, s, q)
           \/ Poll(w) \/ Timeout(w)
    PROVE  Rest' /\ SendsGrow /\ AnswersStay /\ waiter' \in [Waiter -> WaitState]
  <1>t. /\ waiter \in [Waiter -> WaitState] /\ req \in [Key \X Member -> Request]
        /\ sends \in [Send -> SendRow]
    BY DEF TypeOK
  <1>1. UNCHANGED <<sends, req, sender>>
    BY DEF Wait, Poll, Timeout
  <1>2. SendsGrow /\ AnswersStay /\ TiesStay
    BY <1>t, <1>1 DEF SendsGrow, Grows, AnswersStay, TiesStay
  <1>3. FanOuts'
    BY <1>1 DEF Rest, FanOuts, Works, Busy
  <1>n. ASSUME NEW x \in WaitState, waiter' = [waiter EXCEPT ![w] = x], Waits(w)'
        PROVE  Waiting' /\ waiter' \in [Waiter -> WaitState]
    <2>1. \A v \in Waiter : v # w => waiter'[v] = waiter[v]
      BY <1>n, <1>t
    <2>2. \A v \in Waiter : v # w /\ waiter[v].pc # "idle" => Waits(v)'
      BY <1>2, <2>1, WaitsStay DEF Rest, Waiting
    <2> QED
      BY <1>n, <1>t, <2>1, <2>2 DEF Waiting
  <1>4. ASSUME NEW s \in Send, NEW q \in Quorum, Wait(w, s, q)
        PROVE  Waiting' /\ waiter' \in [Waiter -> WaitState]
    <2> DEFINE asked == GroupSendRequests(s)
               len == Cardinality(asked)
               needed == IF q = 0 THEN len ELSE Min({q, len})
    <2>1. sends[s].reported /\ sends[s].key \in Key
      BY <1>4, <1>t, NoSendFields DEF Wait, Rest, Unopened, SendRow
    <2>2. asked \in SUBSET (Key \X Member)
      BY <1>t DEF GroupSendRequests
    <2>3. \A r \in asked : r[1] = sends[s].key /\ r[2] \in sends[s].accepted
      <3>1. s # 0
        BY GroupsAssumption DEF Send
      <3> QED
        BY <1>t, <3>1 DEF GroupSendRequests, Rest, Tied
    <2>4. IsFiniteSet(asked) /\ len \in Nat
      BY <2>1, <2>2, <2>3, AskedFinite
    <2>5. q \in Nat
      BY GroupsAssumption
    <2>6. needed \in Nat /\ (needed = 0 => len = 0)
      <3>1. {q, len} \in SUBSET Nat /\ {q, len} # {}
        BY <2>4, <2>5
      <3>2. Min({q, len}) \in {q, len}
        BY <3>1, MinIsLeast
      <3> QED
        BY <2>4, <2>5, <3>2
    <2>7. len = 0 => asked = {}
      BY <2>4, FS_EmptySet
    <2>8. ~Retried(s) /\ asked = {} => sends[s].accepted = {}
      <3> SUFFICES ASSUME ~Retried(s), NEW e \in sends[s].accepted PROVE asked # {}
        OBVIOUS
      <3>1. req[<<sends[s].key, e>>].send = s
        BY DEF Rest, Kept
      <3>2. <<sends[s].key, e>> \in DOMAIN req
        BY <1>t, <2>1 DEF SendRow
      <3> QED
        BY <3>1, <3>2 DEF GroupSendRequests
    <2>9. PICK x : x = [pc |-> "poll", send |-> s, asked |-> asked, needed |-> needed]
      OBVIOUS
    <2>10. waiter' = [waiter EXCEPT ![w] = x] /\ waiter'[w] = x
      BY <1>4, <1>t, <2>9 DEF Wait
    <2> HIDE DEF asked, needed
    <2>11. x \in WaitState /\ x.pc = "poll" /\ x.send = s /\ x.asked = asked /\ x.needed = needed
      BY <2>2, <2>6, <2>9 DEF WaitState
    <2>12. Retried(s)' <=> Retried(s)
      BY <1>1 DEF Retried
    <2>13. Waits(w)'
      BY <1>1, <2>1, <2>3, <2>6, <2>7, <2>8, <2>10, <2>11, <2>12 DEF Waits
    <2> QED
      BY <1>n, <2>10, <2>11, <2>13
  <1>5. ASSUME NEW pc \in {"quorum", "timeout"}, waiter[w].pc = "poll",
               waiter' = [waiter EXCEPT ![w].pc = pc],
               pc = "quorum" => Cardinality(Answered(w)) >= waiter[w].needed
        PROVE  Waiting' /\ waiter' \in [Waiter -> WaitState]
    <2>1. PICK x : x = [waiter[w] EXCEPT !.pc = pc]
      OBVIOUS
    <2>2. /\ x \in WaitState /\ x.pc = pc /\ x.send = waiter[w].send
          /\ x.asked = waiter[w].asked /\ x.needed = waiter[w].needed
      BY <1>t, <2>1 DEF WaitState
    <2>3. waiter' = [waiter EXCEPT ![w] = x] /\ waiter'[w] = x
      BY <1>5, <1>t, <2>1
    <2>4. Waits(w)
      BY <1>5 DEF Rest, Waiting
    <2>5. Answered(w)' = Answered(w)
      BY <1>1, <2>2, <2>3 DEF Answered
    <2>6. Retried(waiter[w].send)' <=> Retried(waiter[w].send)
      <3>1. \A s : Retried(s)' <=> Retried(s)
        BY <1>1 DEF Retried
      <3>2. waiter'[w].send = waiter[w].send
        BY <2>2, <2>3
      <3> QED
        BY <3>1, <3>2
    <2>7. Waits(w)'
      BY <1>1, <1>5, <2>2, <2>3, <2>4, <2>5, <2>6 DEF Waits
    <2> QED
      BY <1>n, <2>2, <2>3, <2>7
  <1>6. Waiting' /\ waiter' \in [Waiter -> WaitState]
    BY <1>4, <1>5 DEF Poll, Timeout
  <1> QED
    BY <1>1, <1>2, <1>3, <1>6, TiedStays DEF Rest

LEMMA EditStep ==
    ASSUME TypeOK, Rest, UNCHANGED <<sends, req, sender, waiter>>
    PROVE  Rest' /\ SendsGrow /\ AnswersStay
  <1>1. SendsGrow /\ AnswersStay /\ TiesStay
    BY DEF TypeOK, SendsGrow, Grows, AnswersStay, TiesStay
  <1>2. FanOuts'
    BY DEF Rest, FanOuts, Works, Busy
  <1> QED
    BY <1>1, <1>2, WaitingStays, TiedStays DEF Rest

\* The membership and its editors.
EditsTyped ==
    /\ group = None \/ group \subseteq Member
    /\ wished = None \/ wished \subseteq Member
    /\ edits \in 0..MaxEdits
    /\ editor \in [Editor -> [pc : {"idle", "write"}, ids : SUBSET Member]]

Edits ==
    \/ \E ids \in SUBSET Member : Create(ids)
    \/ Delete
    \/ \E d \in Editor, e \in Member : AddRead(d, e) \/ RemoveRead(d, e)
    \/ \E d \in Editor : SetGroup(d)

LEMMA EditsKeepTypes ==
    ASSUME TypeOK, Edits
    PROVE  EditsTyped'
  <1> USE DEF TypeOK, EditsTyped
  <1>c. Counts => edits' \in 0..MaxEdits
    BY GroupsAssumption DEF Counts
  <1>1. ASSUME NEW ids \in SUBSET Member, Create(ids) PROVE EditsTyped'
    BY <1>1, <1>c DEF Create
  <1>2. CASE Delete
    BY <1>2, <1>c DEF Delete
  <1>3. ASSUME NEW d \in Editor, NEW e \in Member, AddRead(d, e) PROVE EditsTyped'
    <2>1. /\ editor' \in [Editor -> [pc : {"idle", "write"}, ids : SUBSET Member]]
          /\ wished' = None \/ wished' \subseteq Member
      BY <1>3 DEF AddRead
    <2> QED
      BY <1>3, <1>c, <2>1 DEF AddRead
  <1>4. ASSUME NEW d \in Editor, NEW e \in Member, RemoveRead(d, e) PROVE EditsTyped'
    <2>1. /\ editor' \in [Editor -> [pc : {"idle", "write"}, ids : SUBSET Member]]
          /\ wished' = None \/ wished' \subseteq Member
      BY <1>4 DEF RemoveRead
    <2> QED
      BY <1>4, <1>c, <2>1 DEF RemoveRead
  <1>5. ASSUME NEW d \in Editor, SetGroup(d) PROVE EditsTyped'
    <2>1. NoEdit \in [pc : {"idle", "write"}, ids : SUBSET Member]
      BY DEF NoEdit
    <2> QED
      BY <1>5, <2>1 DEF SetGroup
  <1> QED
    BY <1>1, <1>2, <1>3, <1>4, <1>5 DEF Edits

LEMMA SoundInit == Init => Sound
  <1> SUFFICES ASSUME Init PROVE Sound
    OBVIOUS
  <1>1. TypeOK
    <2>1. NoEdit \in [pc : {"idle", "write"}, ids : SUBSET Member]
      BY DEF NoEdit
    <2>2. NoWait \in WaitState
      BY DEF NoWait, WaitState
    <2>3. [state |-> "absent", send |-> 0] \in Request
      BY DEF Request
    <2>4. edits \in 0..MaxEdits
      BY GroupsAssumption DEF Init
    <2> QED
      BY <2>1, <2>2, <2>3, <2>4, NoSendFields, NoFanOutFields DEF Init, TypeOK
  <1>2. Unopened /\ Tied /\ Kept
    BY NoSendFields DEF Init, Unopened, Tied, Kept
  <1>3. FanOuts
    BY NoFanOutFields DEF Init, FanOuts, Busy
  <1>4. Waiting
    BY DEF Init, Waiting, NoWait
  <1> QED
    BY <1>1, <1>2, <1>3, <1>4 DEF Sound

LEMMA SoundStep == Sound /\ [Next]_vars => Sound'
  <1> SUFFICES ASSUME TypeOK, Rest, [Next]_vars PROVE TypeOK' /\ Rest'
    BY DEF Sound, Rest
  <1>e. UNCHANGED <<group, wished, edits, editor>> => EditsTyped'
    BY DEF TypeOK, EditsTyped
  <1>n. ASSUME EditsTyped', SendsGrow, AnswersStay, sender' \in [Sender -> FanOutState],
               waiter' \in [Waiter -> WaitState]
        PROVE  TypeOK'
    BY <1>n DEF EditsTyped, TypeOK, SendsGrow, AnswersStay
  <1>t. sender \in [Sender -> FanOutState] /\ waiter \in [Waiter -> WaitState]
    BY DEF TypeOK
  <1>1. CASE Edits
    <2>1. UNCHANGED <<sends, req, sender, waiter>>
      BY <1>1 DEF Edits, Create, Delete, AddRead, RemoveRead, SetGroup
    <2> QED
      BY <1>1, <1>n, <1>t, <2>1, EditStep, EditsKeepTypes
  <1>2. ASSUME NEW sd \in Sender,
               SendAccepted(sd) \/ Crash(sd) \/ \E k \in Key : FanOut(sd, k)
        PROVE  TypeOK' /\ Rest'
    <2>1. UNCHANGED <<group, wished, edits, editor, waiter>>
      BY <1>2 DEF SendAccepted, Crash, FanOut
    <2> QED
      BY <1>2, <1>e, <1>n, <1>t, <2>1, SenderStep
  <1>3. ASSUME NEW sd \in Sender, OpenGroupSend(sd) PROVE TypeOK' /\ Rest'
    <2>1. UNCHANGED <<group, wished, edits, editor, waiter, req>>
      BY <1>3 DEF OpenGroupSend
    <2>2. sender' \in [Sender -> FanOutState]
      <3> PICK s \in Send : sender' = [sender EXCEPT ![sd].pc = "send", ![sd].send = s]
        BY <1>3 DEF OpenGroupSend
      <3> DEFINE work == [sender[sd] EXCEPT !.pc = "send", !.send = s]
      <3>1. sender[sd] \in FanOutState
        BY <1>t
      <3>2. work \in FanOutState
        BY <3>1 DEF FanOutState
      <3>3. sender' = [sender EXCEPT ![sd] = work]
        OBVIOUS
      <3> HIDE DEF work
      <3> QED
        BY <1>t, <3>2, <3>3
    <2>3. AnswersStay
      BY <2>1 DEF AnswersStay, TypeOK
    <2> QED
      BY <1>3, <1>e, <1>n, <1>t, <2>1, <2>2, <2>3, OpenStep
  <1>4. ASSUME NEW sd \in Sender, SendRejected(sd) \/ AttachToGroupSend(sd)
        PROVE  TypeOK' /\ Rest'
    <2>1. UNCHANGED <<group, wished, edits, editor, waiter>>
      BY <1>4 DEF SendRejected, AttachToGroupSend
    <2>2. Busy(sd) /\ \E A \in SUBSET {Turn(sd)} : Reports(sd, A)
      <3>1. {} \in SUBSET {Turn(sd)} /\ {Turn(sd)} \in SUBSET {Turn(sd)}
        OBVIOUS
      <3> QED
        BY <1>4, <3>1 DEF SendRejected, AttachToGroupSend, Busy
    <2>3. sender' = [sender EXCEPT ![sd] = Onward(sd)]
      BY <1>4 DEF SendRejected, AttachToGroupSend
    <2>4. Goes(sd)
      BY <2>2, <2>3, GoesOn DEF Rest
    <2>5. sender' \in [Sender -> FanOutState]
      BY <2>2, <2>4, FanOutsGo DEF Rest
    <2> QED
      BY <1>4, <1>e, <1>n, <1>t, <2>1, <2>5, RejectedStep, AttachStep
  <1>5. ASSUME NEW r \in Key \X Member, NEW state \in {"answered", "over"}, Ends(r, state)
        PROVE  TypeOK' /\ Rest'
    <2>1. UNCHANGED <<group, wished, edits, editor, sender, waiter>>
      BY <1>5 DEF Ends
    <2> QED
      BY <1>5, <1>e, <1>n, <1>t, <2>1, EndsStep
  <1>6. ASSUME NEW w \in Waiter,
               \/ \E s \in Send, q \in Quorum : Wait(w, s, q)
               \/ Poll(w) \/ Timeout(w)
        PROVE  TypeOK' /\ Rest'
    <2>1. UNCHANGED <<group, wished, edits, editor, sender>>
      BY <1>6 DEF Wait, Poll, Timeout
    <2> QED
      BY <1>6, <1>e, <1>n, <1>t, <2>1, WaiterStep
  <1>7. CASE UNCHANGED vars
    <2>1. UNCHANGED <<group, wished, edits, editor, sends, req, sender, waiter>>
      BY <1>7 DEF vars
    <2> QED
      BY <1>e, <1>n, <1>t, <2>1, EditStep
  <1> QED
    BY <1>1, <1>2, <1>3, <1>4, <1>5, <1>6, <1>7 DEF Next, Edits

LEMMA GroupsSound == Spec => []Sound
  BY SoundInit, SoundStep, PTL DEF Spec

-----------------------------------------------------------------------------
(***************************************************************************)
(* The theorems                                                             *)
(***************************************************************************)

\* open_group_send and attach_to_group_send: whatever edits, crashes and retries
\* come between reading the membership and tying the requests, the requests of
\* a send are to members of its snapshot.
THEOREM OnlySnapshotsAreAsked == Spec => []AskedWereMembers
  <1>1. Sound => AskedWereMembers
    BY DEF Sound, TypeOK, Tied, AskedWereMembers
  <1> QED
    BY <1>1, GroupsSound, PTL

\* The answers a waiter counted are answers of members the send accepted: a
\* request is told by its key and its member.
LEMMA CountedAnswers ==
    ASSUME Sound, NEW w \in Waiter, waiter[w].pc = "quorum", ~Retried(waiter[w].send)
    PROVE  Honest(w)
  <1> DEFINE s == waiter[w].send
             answers == {e \in sends[s].accepted : req[<<sends[s].key, e>>].state = "answered"}
             f == [r \in Answered(w) |-> r[2]]
  <1>1. /\ Waits(w) /\ s \in Send /\ sends[s] \in SendRow /\ waiter[w] \in WaitState
        /\ sends[s].key \in Key
    BY NoSendFields DEF Sound, Waiting, Waits, Unopened, TypeOK, SendRow
  <1>2. IsFiniteSet(answers)
    <2>1. IsFiniteSet(Member)
      BY GroupsAssumption, FS_Interval DEF Member
    <2> QED
      BY <1>1, <2>1, FS_Subset DEF SendRow
  <1>3. \A r \in Answered(w) : /\ r \in Key \X Member /\ r = <<sends[s].key, r[2]>>
                               /\ r[2] \in answers
    BY <1>1 DEF Waits, Answered, WaitState
  <1>4. f \in Injection(Answered(w), answers)
    <2>1. f \in [Answered(w) -> answers]
      BY <1>3
    <2>2. \A p, q \in Answered(w) : f[p] = f[q] => p = q
      BY <1>3
    <2> HIDE DEF f, answers
    <2> QED
      BY <2>1, <2>2 DEF Injection, IsInjective
  <1>5. Cardinality(Answered(w)) =< Cardinality(answers)
    BY <1>2, <1>4, FS_Injection
  <1>6. /\ Cardinality(Answered(w)) \in Nat /\ Cardinality(answers) \in Nat
        /\ waiter[w].needed \in Nat
    <2>1. waiter[w].needed \in Nat
      BY <1>1 DEF WaitState
    <2>2. IsFiniteSet(Answered(w)) /\ IsFiniteSet(answers)
      BY <1>2, <1>4, FS_Injection
    <2> HIDE DEF answers
    <2> QED
      BY <2>1, <2>2, FS_CardinalityType
  <1>7. Cardinality(answers) >= waiter[w].needed
    <2>1. Cardinality(Answered(w)) >= waiter[w].needed
      BY <1>1 DEF Waits
    <2> HIDE DEF answers
    <2> QED
      BY <1>5, <1>6, <2>1
  <1> QED
    BY <1>1, <1>7 DEF Honest, Waits

\* wait --group-send: a quorum is that many answers of members the send reported
\* as accepted, and is empty only if there were none, for every size of the
\* group and every quorum asked for, unless the send was run again.
THEOREM QuorumsAreHonest == Spec => []QuorumIsHonest
  <1>1. Sound => QuorumIsHonest
    BY CountedAnswers DEF QuorumIsHonest
  <1> QED
    BY <1>1, GroupsSound, PTL
=============================================================================
