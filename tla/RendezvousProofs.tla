-------------------------- MODULE RendezvousProofs --------------------------
(***************************************************************************)
(* Proofs about the resolution rendezvous: the answer a client takes is one  *)
(* its name had since it asked, and a peer's waiting questions are bounded.  *)
(*                                                                          *)
(* An answer reaches a client through a row, a question frame and an answer  *)
(* frame, each of which may outlive what it was made for.  The inductive     *)
(* invariant says of all three what holds of them while their client still   *)
(* polls; that ids are never used twice keeps them from being taken for      *)
(* another client's.                                                        *)
(***************************************************************************)
EXTENDS Rendezvous, FiniteSetTheorems, TLAPS

In(s) == {s[k] : k \in 1..Len(s)}

\* A question that exists names a peer and a selector.
Asked ==
    /\ \A id \in Id : Exists(id) => row[id].peer \in Peer /\ row[id].name \in Name
    /\ \A c \in Client : client[c].pc \in {"live", "insert", "poll"}
            => client[c].peer \in Peer /\ client[c].name \in Name

\* Nothing is on the wires of a bridge without a connection, and every frame
\* carries an id that was handed out.
Wires ==
    \A b \in Bridge :
        /\ sess[b].peer = None => sess[b].questions = <<>> /\ sess[b].answers = <<>>
        /\ \A q \in In(sess[b].questions) : q.id =< lastId
        /\ \A a \in In(sess[b].answers) : a.id =< lastId

\* What the row, the questions and the answers with the id a client polls for
\* say is about that client's question.
RowFits(c) ==
    Exists(client[c].id) =>
        LET r == row[client[c].id]
        IN  /\ r.peer = client[c].peer /\ r.name = client[c].name
            /\ r.answered => r.value \in meant[c]

WiresFit(c) ==
    \A b \in Bridge : sess[b].peer = client[c].peer =>
        /\ \A q \in In(sess[b].questions) : q.id = client[c].id => q.name = client[c].name
        /\ \A a \in In(sess[b].answers) : a.id = client[c].id => a.value \in meant[c]

Fits ==
    \A c \in Client : client[c].pc = "poll" =>
        /\ client[c].id \in 1..lastId
        /\ names[client[c].peer][client[c].name] \in meant[c]
        /\ RowFits(c) /\ WiresFit(c)

Sound == TypeOK /\ Asked /\ Wires /\ Fits /\ AnswersAreCurrent /\ QuestionsBounded

-----------------------------------------------------------------------------
(***************************************************************************)
(* Frames and rows                                                          *)
(***************************************************************************)

LEMMA InAppend ==
    ASSUME NEW S, NEW s \in Seq(S), NEW e \in S
    PROVE  Append(s, e) \in Seq(S) /\ In(Append(s, e)) = In(s) \cup {e}
  <1>1. /\ Append(s, e) \in Seq(S) /\ Len(Append(s, e)) = Len(s) + 1 /\ Len(s) \in Nat
        /\ Append(s, e)[Len(s) + 1] = e
        /\ \A k \in 1..Len(s) : Append(s, e)[k] = s[k]
    OBVIOUS
  <1>2. In(Append(s, e)) \subseteq In(s) \cup {e}
    <2> SUFFICES ASSUME NEW k \in 1..Len(s) + 1 PROVE Append(s, e)[k] \in In(s) \cup {e}
      BY <1>1 DEF In
    <2>1. CASE k = Len(s) + 1
      BY <1>1, <2>1
    <2>2. CASE k \in 1..Len(s)
      BY <1>1, <2>2 DEF In
    <2> QED
      BY <1>1, <2>1, <2>2
  <1>3. In(s) \cup {e} \subseteq In(Append(s, e))
    <2>1. \A k \in 1..Len(s) + 1 : Append(s, e)[k] \in In(Append(s, e))
      BY <1>1 DEF In
    <2>2. \A k \in 1..Len(s) : k \in 1..Len(s) + 1
      BY <1>1
    <2>3. Len(s) + 1 \in 1..Len(s) + 1
      BY <1>1
    <2>4. \A x \in In(s) : x \in In(Append(s, e))
      BY <1>1, <2>1, <2>2 DEF In
    <2> QED
      BY <1>1, <2>1, <2>3, <2>4
  <1> QED
    BY <1>1, <1>2, <1>3

LEMMA InTail ==
    ASSUME NEW S, NEW s \in Seq(S), s # <<>>
    PROVE  /\ Tail(s) \in Seq(S) /\ In(Tail(s)) \subseteq In(s)
           /\ Head(s) \in S /\ Head(s) \in In(s)
  <1>1. /\ Len(s) \in Nat \ {0} /\ Head(s) = s[1] /\ s[1] \in S
        /\ Tail(s) \in Seq(S) /\ Len(Tail(s)) = Len(s) - 1
        /\ \A k \in 1..Len(Tail(s)) : Tail(s)[k] = s[k + 1]
    OBVIOUS
  <1>2. 1 \in 1..Len(s) /\ \A k \in 1..Len(Tail(s)) : k + 1 \in 1..Len(s)
    BY <1>1
  <1>3. In(Tail(s)) \subseteq In(s)
    BY <1>1, <1>2 DEF In
  <1> QED
    BY <1>1, <1>2, <1>3 DEF In

LEMMA InEmpty == In(<<>>) = {}
  BY DEF In

LEMMA InType ==
    ASSUME NEW S, NEW s \in Seq(S)
    PROVE  In(s) \subseteq S
  BY DEF In

NewRow(p, n) == [NoRow EXCEPT !.peer = p, !.name = n, !.age = "fresh"]

LEMMA NewRowFields ==
    ASSUME NEW p \in Peer, NEW n \in Name
    PROVE  /\ NewRow(p, n) \in Row /\ NewRow(p, n).peer = p /\ NewRow(p, n).name = n
           /\ NewRow(p, n).age = "fresh" /\ ~NewRow(p, n).answered
  BY DEF NewRow, NoRow, Row, Age

LEMMA NoRowFields == NoRow \in Row /\ NoRow.age = "absent" /\ ~NoRow.answered
  BY DEF NoRow, Row, Age

LEMMA IdNat == lastId \in 0..MaxId => lastId \in Nat /\ MaxId \in Nat /\ Id \subseteq Nat
  BY RendezvousAssumption DEF Id

-----------------------------------------------------------------------------
(***************************************************************************)
(* What a step may do                                                       *)
(***************************************************************************)

\* To a row: nothing, delete it, make a new one under the next id, let it age,
\* or answer it with an answer that is on a wire from the peer that was asked.
NewAt(id) ==
    /\ id = lastId + 1 /\ lastId' = lastId + 1
    /\ \E p \in Peer, n \in Name : row'[id] = NewRow(p, n)
Answered(id) ==
    \E b \in Bridge : \E a \in In(sess[b].answers) :
        /\ a.id = id /\ sess[b].peer = row[id].peer /\ row'[id].value = a.value
RowMove(id) ==
    \/ row'[id] = NoRow
    \/ NewAt(id)
    \/ /\ Exists(id) <=> row'[id].age # "absent"
       /\ ~Exists(id) => row'[id] = row[id]
       /\ row'[id].peer = row[id].peer /\ row'[id].name = row[id].name
       /\ \/ row'[id].answered = row[id].answered /\ row'[id].value = row[id].value
          \/ Answered(id)

RowStep == row' \in [Id -> Row] /\ \A id \in Id : RowMove(id)

LEMMA RowsMove ==
    ASSUME TypeOK, Asked, [Next]_vars
    PROVE  RowStep
  <1>t. /\ row \in [Id -> Row] /\ client \in [Client -> ClientState]
        /\ sess \in [Bridge -> SessionState]
    BY DEF TypeOK
  <1>u. UNCHANGED row => RowStep
    BY <1>t DEF RowStep, RowMove, Exists
  <1>1. ASSUME NEW c \in Client, Insert(c) PROVE RowStep
    <2>1. client[c].peer \in Peer /\ client[c].name \in Name
      BY <1>1 DEF Insert, Asked
    <2>2. NextId \in Id /\ NextId = lastId + 1 /\ lastId' = lastId + 1
      BY <1>1, RendezvousAssumption DEF Insert, NextId, Id, TypeOK
    <2>3. row' = [Kept EXCEPT ![NextId] = NewRow(client[c].peer, client[c].name)]
      BY <1>1 DEF Insert, NewRow
    <2>4. Kept \in [Id -> Row] /\ \A id \in Id : Kept[id] = NoRow \/ Kept[id] = row[id]
      BY <1>t, NoRowFields DEF Kept
    <2>5. row' \in [Id -> Row]
      BY <2>1, <2>2, <2>3, <2>4, NewRowFields
    <2>6. RowMove(NextId)
      BY <2>1, <2>2, <2>3, <2>4 DEF RowMove, NewAt
    <2>7. ASSUME NEW id \in Id, id # NextId PROVE RowMove(id)
      <3>1. row'[id] = NoRow \/ row'[id] = row[id]
        BY <2>2, <2>3, <2>4, <2>7
      <3> QED
        BY <3>1 DEF RowMove, Exists
    <2> QED
      BY <2>5, <2>6, <2>7 DEF RowStep
  <1>2. ASSUME NEW c \in Client, TakeDelete(c) PROVE RowStep
    <2>1. row' = [row EXCEPT ![client[c].id] = NoRow]
      BY <1>2 DEF TakeDelete
    <2>2. row' \in [Id -> Row] /\ \A id \in Id : row'[id] = NoRow \/ row'[id] = row[id]
      BY <1>t, <2>1, NoRowFields
    <2> QED
      BY <2>2 DEF RowStep, RowMove, Exists
  <1>3. ASSUME NEW id \in Id, Ages(id) PROVE RowStep
    <2>1. PICK age \in {"late", "old"} : row' = [row EXCEPT ![id].age = age]
      BY <1>3, <1>t DEF Ages
    <2>2. row' \in [Id -> Row]
      BY <1>t, <2>1 DEF Row, Age
    <2>3. RowMove(id)
      <3>1. row'[id].age = age /\ row[id].age # "absent" /\ age # "absent"
        BY <1>3, <1>t, <2>1 DEF Ages, Row
      <3>2. /\ row'[id].peer = row[id].peer /\ row'[id].name = row[id].name
            /\ row'[id].answered = row[id].answered /\ row'[id].value = row[id].value
        BY <1>t, <2>1 DEF Row
      <3> QED
        BY <3>1, <3>2 DEF RowMove, Exists
    <2>4. \A other \in Id : other # id => row'[other] = row[other]
      BY <1>t, <2>1
    <2> QED
      BY <2>2, <2>3, <2>4 DEF RowStep, RowMove, Exists
  <1>4. ASSUME NEW b \in Bridge, Answer(b) PROVE RowStep
    <2> DEFINE a == Head(sess[b].answers)
    <2>1. sess[b].answers \in Seq(Resolved) /\ sess[b].answers # <<>>
      BY <1>4, <1>t DEF Answer, SessionState
    <2>2. a \in Resolved /\ a \in In(sess[b].answers)
      BY <2>1, InTail
    <2>3. CASE /\ Exists(a.id) /\ row[a.id].peer = sess[b].peer
               /\ row' = [row EXCEPT ![a.id].answered = TRUE, ![a.id].value = a.value]
      <3>2. a.id \in Id
        BY <2>2 DEF Resolved
      <3>1. row' \in [Id -> Row]
        <4> DEFINE new == [row[a.id] EXCEPT !.answered = TRUE, !.value = a.value]
        <4>1. row[a.id] \in Row
          BY <1>t, <3>2
        <4>2. new \in Row
          BY <2>2, <4>1 DEF Row, Resolved
        <4>3. row' = [row EXCEPT ![a.id] = new]
          BY <2>3
        <4> HIDE DEF new
        <4> QED
          BY <1>t, <4>2, <4>3
      <3>3. /\ row'[a.id].age = row[a.id].age /\ row'[a.id].peer = row[a.id].peer
            /\ row'[a.id].name = row[a.id].name /\ row'[a.id].value = a.value
        BY <1>t, <2>3, <3>2 DEF Row
      <3>4. Answered(a.id)
        BY <2>2, <2>3, <3>3 DEF Answered
      <3>5. RowMove(a.id)
        BY <2>3, <3>3, <3>4 DEF RowMove, Exists
      <3>6. \A id \in Id : id # a.id => row'[id] = row[id]
        BY <1>t, <2>3
      <3> QED
        BY <3>1, <3>5, <3>6 DEF RowStep, RowMove, Exists
    <2> QED
      BY <1>4, <1>u, <2>3 DEF Answer, AnswerResolution
  <1>5. ASSUME \/ \E c \in Client, p \in Peer, n \in Name : Named(c, p, n)
               \/ \E c \in Client, w \in Window, n \in Name : Through(c, w, n)
               \/ \E c \in Client : CheckLive(c) \/ InsertRefused(c) \/ TakeRead(c) \/ GiveUp(c)
               \/ \E b \in Bridge, p \in Peer, w \in Window : Connect(b, p, w)
               \/ \E p \in Peer : LeaseLapses(p)
               \/ \E b \in Bridge : Hangup(b) \/ HandleResolve(b)
               \/ \E b \in Bridge, id \in Id : ForwardResolution(b, id)
               \/ \E p \in Peer, n \in Name, e \in Agent \cup {None} : Rename(p, n, e)
               \/ UNCHANGED vars
        PROVE  UNCHANGED row
    BY <1>5 DEF Named, Through, CheckLive, InsertRefused, TakeRead, GiveUp, Connect, LeaseLapses,
                Hangup, HandleResolve, ForwardResolution, Rename, vars
  <1> QED
    BY <1>u, <1>1, <1>2, <1>3, <1>4, <1>5 DEF Next, ClientStep

\* To a session: a question it carries is of a row for its peer, an answer is
\* what a question it carried means on that peer now.
OldFrames(b) == sess'[b].peer = sess[b].peer
Questions(b) ==
    \A q \in In(sess'[b].questions) :
        \/ OldFrames(b) /\ q \in In(sess[b].questions)
        \/ Exists(q.id) /\ row[q.id].peer = sess'[b].peer /\ row[q.id].name = q.name
Answers(b) ==
    \A a \in In(sess'[b].answers) :
        /\ OldFrames(b)
        /\ \/ a \in In(sess[b].answers)
           \/ /\ UNCHANGED <<names, meant>>
              /\ \E q \in In(sess[b].questions) :
                    a.id = q.id /\ a.value = names[sess[b].peer][q.name]
SessionMove(b) ==
    /\ sess'[b].peer = None => sess'[b].questions = <<>> /\ sess'[b].answers = <<>>
    /\ Questions(b) /\ Answers(b)

SessionStep == sess' \in [Bridge -> SessionState] /\ \A b \in Bridge : SessionMove(b)

LEMMA SessionsMove ==
    ASSUME TypeOK, Asked, Wires, [Next]_vars
    PROVE  SessionStep
  <1>t. sess \in [Bridge -> SessionState] /\ row \in [Id -> Row]
    BY DEF TypeOK
  <1>s. ASSUME NEW b \in Bridge, sess'[b] = sess[b] PROVE SessionMove(b)
    BY <1>s DEF SessionMove, Questions, Answers, OldFrames, Wires
  <1>n. ASSUME NEW b \in Bridge, NEW s \in SessionState, sess' = [sess EXCEPT ![b] = s],
               SessionMove(b)
        PROVE  SessionStep
    BY <1>n, <1>s, <1>t DEF SessionStep
  <1>p. None \notin Peer
    BY RendezvousAssumption
  <1>1. ASSUME NEW b \in Bridge, NEW p \in Peer, NEW w, Connect(b, p, w) PROVE SessionStep
    <2>s. PICK s : s = [sess[b] EXCEPT !.peer = p]
      OBVIOUS
    <2>1. /\ s \in SessionState /\ s.peer = p
          /\ s.questions = sess[b].questions /\ s.answers = sess[b].answers
      BY <1>t, <2>s DEF SessionState
    <2>2. sess' = [sess EXCEPT ![b] = s] /\ sess'[b] = s
      BY <1>1, <1>t, <2>s DEF Connect
    <2>3. sess[b].questions = <<>> /\ sess[b].answers = <<>>
      BY <1>1 DEF Connect, Wires
    <2>4. SessionMove(b)
      BY <1>p, <2>1, <2>2, <2>3, InEmpty DEF SessionMove, Questions, Answers
    <2> QED
      BY <1>n, <2>1, <2>2, <2>4
  <1>2. ASSUME NEW b \in Bridge, Hangup(b) PROVE SessionStep
    <2>s. PICK s : s = [sess[b] EXCEPT !.asked = {}, !.questions = <<>>, !.answers = <<>>,
                                       !.peer = None]
      OBVIOUS
    <2>0. {} \in SUBSET Id /\ <<>> \in Seq(Resolve) /\ <<>> \in Seq(Resolved)
      OBVIOUS
    <2>1. s \in SessionState /\ s.questions = <<>> /\ s.answers = <<>>
      BY <1>t, <2>s, <2>0 DEF SessionState
    <2>2. sess' = [sess EXCEPT ![b] = s] /\ sess'[b] = s
      BY <1>2, <1>t, <2>s DEF Hangup
    <2>3. SessionMove(b)
      BY <2>1, <2>2, InEmpty DEF SessionMove, Questions, Answers
    <2> QED
      BY <1>n, <2>1, <2>2, <2>3
  <1>3. ASSUME NEW b \in Bridge, NEW id \in Id, ForwardResolution(b, id) PROVE SessionStep
    <2>q. PICK q : q = [id |-> id, name |-> row[id].name]
      OBVIOUS
    <2>s. PICK s : s = [sess[b] EXCEPT !.asked = sess[b].asked \cup {id},
                                       !.questions = Append(sess[b].questions, q)]
      OBVIOUS
    <2>1. Exists(id) /\ row[id].peer = sess[b].peer
      BY <1>3 DEF ForwardResolution, Waiting, Exists
    <2>2. q \in Resolve /\ q.id = id /\ q.name = row[id].name
      BY <2>q, <2>1 DEF Resolve, Asked
    <2>3. sess[b].questions \in Seq(Resolve) /\ sess[b].asked \subseteq Id
      BY <1>t DEF SessionState
    <2>4. /\ Append(sess[b].questions, q) \in Seq(Resolve)
          /\ In(Append(sess[b].questions, q)) = In(sess[b].questions) \cup {q}
      BY <2>2, <2>3, InAppend
    <2>5. /\ s \in SessionState /\ s.peer = sess[b].peer /\ s.answers = sess[b].answers
          /\ In(s.questions) = In(sess[b].questions) \cup {q}
      BY <1>t, <2>s, <2>3, <2>4 DEF SessionState
    <2>6. sess' = [sess EXCEPT ![b] = s] /\ sess'[b] = s
      BY <1>3, <1>t, <2>s, <2>q DEF ForwardResolution
    <2>7. SessionMove(b)
      BY <1>3, <2>1, <2>2, <2>5, <2>6
      DEF SessionMove, Questions, Answers, OldFrames, ForwardResolution
    <2> QED
      BY <1>n, <2>5, <2>6, <2>7
  <1>4. ASSUME NEW b \in Bridge, HandleResolve(b) PROVE SessionStep
    <2>q. PICK q : q = Head(sess[b].questions)
      OBVIOUS
    <2>a. PICK a : a = [id |-> q.id, value |-> names[sess[b].peer][q.name]]
      OBVIOUS
    <2>s. PICK s : s = [sess[b] EXCEPT !.questions = Tail(sess[b].questions),
                                       !.answers = Append(sess[b].answers, a)]
      OBVIOUS
    <2>1. /\ sess[b].questions \in Seq(Resolve) /\ sess[b].answers \in Seq(Resolved)
          /\ sess[b].questions # <<>> /\ sess[b].peer \in Peer
      BY <1>4, <1>t DEF SessionState, HandleResolve, Wires
    <2>2. /\ q \in Resolve /\ q \in In(sess[b].questions)
          /\ Tail(sess[b].questions) \in Seq(Resolve)
          /\ In(Tail(sess[b].questions)) \subseteq In(sess[b].questions)
      BY <2>q, <2>1, InTail
    <2>3. names[sess[b].peer][q.name] \in Agent \cup {None}
      BY <2>1, <2>2 DEF TypeOK, Resolve
    <2>4. a \in Resolved /\ a.id = q.id /\ a.value = names[sess[b].peer][q.name]
      BY <2>a, <2>2, <2>3 DEF Resolve, Resolved
    <2>5. /\ Append(sess[b].answers, a) \in Seq(Resolved)
          /\ In(Append(sess[b].answers, a)) = In(sess[b].answers) \cup {a}
      BY <2>1, <2>4, InAppend
    <2>6. /\ s \in SessionState /\ s.peer = sess[b].peer
          /\ In(s.questions) \subseteq In(sess[b].questions)
          /\ In(s.answers) = In(sess[b].answers) \cup {a}
      BY <1>t, <2>s, <2>2, <2>5 DEF SessionState
    <2>7. sess' = [sess EXCEPT ![b] = s] /\ sess'[b] = s /\ UNCHANGED <<names, meant>>
      BY <1>4, <1>t, <2>s, <2>a, <2>q DEF HandleResolve
    <2>8. SessionMove(b)
      <3>1. sess[b].peer # None
        BY <1>p, <2>1
      <3> QED
        BY <2>2, <2>4, <2>6, <2>7, <3>1 DEF SessionMove, Questions, Answers, OldFrames
    <2> QED
      BY <1>n, <2>6, <2>7, <2>8
  <1>5. ASSUME NEW b \in Bridge, Answer(b) PROVE SessionStep
    <2>s. PICK s : s = [sess[b] EXCEPT !.answers = Tail(sess[b].answers),
                                       !.asked = sess[b].asked \ {Head(sess[b].answers).id}]
      OBVIOUS
    <2>1. sess[b].answers \in Seq(Resolved) /\ sess[b].answers # <<>> /\ sess[b].peer # None
      BY <1>5, <1>t DEF SessionState, Answer, Wires
    <2>2. /\ Tail(sess[b].answers) \in Seq(Resolved)
          /\ In(Tail(sess[b].answers)) \subseteq In(sess[b].answers)
      BY <2>1, InTail
    <2>3. /\ s \in SessionState /\ s.peer = sess[b].peer /\ s.questions = sess[b].questions
          /\ In(s.answers) \subseteq In(sess[b].answers)
      BY <1>t, <2>s, <2>2 DEF SessionState
    <2>4. sess' = [sess EXCEPT ![b] = s] /\ sess'[b] = s
      BY <1>5, <1>t, <2>s DEF Answer
    <2>5. SessionMove(b)
      BY <2>1, <2>3, <2>4 DEF SessionMove, Questions, Answers, OldFrames
    <2> QED
      BY <1>n, <2>3, <2>4, <2>5
  <1>6. ASSUME \/ \E c \in Client, p \in Peer, n \in Name : Named(c, p, n)
               \/ \E c \in Client, w \in Window, n \in Name : Through(c, w, n)
               \/ \E c \in Client : ClientStep(c)
               \/ \E id \in Id : Ages(id)
               \/ \E p \in Peer : LeaseLapses(p)
               \/ \E p \in Peer, n \in Name, e \in Agent \cup {None} : Rename(p, n, e)
               \/ UNCHANGED vars
        PROVE  UNCHANGED sess
    BY <1>6 DEF Named, Through, ClientStep, CheckLive, Insert, InsertRefused, TakeRead,
                TakeDelete, GiveUp, Ages, LeaseLapses, Rename, vars
  <1>7. UNCHANGED sess => SessionStep
    BY <1>s, <1>t DEF SessionStep
  <1> QED
    BY <1>1, <1>2, <1>3, <1>4, <1>5, <1>6, <1>7 DEF Next

\* To a client: nothing, its question is made, it ends, or it takes an answer.
\* What a polling client's name means now is among what it meant since.
Asks(c) ==
    /\ client'[c].pc = "poll" /\ client'[c].id = lastId + 1 /\ lastId' = lastId + 1
    /\ client'[c].peer \in Peer /\ client'[c].name \in Name
    /\ row'[lastId + 1] = NewRow(client'[c].peer, client'[c].name)
    /\ meant'[c] = {names[client'[c].peer][client'[c].name]}
    /\ UNCHANGED <<names, sess>>
ClientMove(c) ==
    \/ client'[c] = client[c] /\ meant[c] \subseteq meant'[c]
    \/ Asks(c)
    \/ /\ client[c].pc = "poll" /\ client'[c].pc = "took" /\ row[client[c].id].answered
       /\ client'[c].value = row[client[c].id].value /\ UNCHANGED meant
    \/ /\ client[c].pc = "took" /\ client'[c].pc = "done"
       /\ client'[c].value = client[c].value /\ UNCHANGED meant
    \/ /\ client'[c].pc \in {"live", "insert"}
       /\ client'[c].peer \in Peer /\ client'[c].name \in Name
    \/ client'[c].pc = "failed"
NamesMove(c) ==
    /\ client[c].pc = "poll" /\ client'[c] = client[c]
    /\ names[client[c].peer][client[c].name] \in meant[c]
    => names'[client[c].peer][client[c].name] \in meant'[c]

\* Client c becomes k, which differs from what it was in the pc only.
Becomes(c, k, pc) ==
    /\ client' = [client EXCEPT ![c] = k] /\ client'[c] = k /\ k.pc = pc
    /\ k.peer = client[c].peer /\ k.name = client[c].name
    /\ k.id = client[c].id /\ k.value = client[c].value

Counted == lastId' = lastId \/ lastId' = lastId + 1
ClientsStep ==
    /\ client' \in [Client -> ClientState]
    /\ \A c \in Client : ClientMove(c) /\ NamesMove(c)
    /\ lastId' \in 0..MaxId /\ Counted

LEMMA ClientsMove ==
    ASSUME TypeOK, Asked, Fits, [Next]_vars
    PROVE  ClientsStep
  <1>t. /\ client \in [Client -> ClientState] /\ row \in [Id -> Row] /\ lastId \in 0..MaxId
        /\ lastId \in Nat /\ names \in [Peer -> [Name -> Agent \cup {None}]]
        /\ meant \in [Client -> SUBSET (Agent \cup {None})]
    BY IdNat DEF TypeOK
  <1>u. UNCHANGED <<client, names, meant, lastId>> => ClientsStep
    BY <1>t DEF ClientsStep, ClientMove, NamesMove, Counted
  <1>n. ASSUME NEW c \in Client, NEW k \in ClientState, client' = [client EXCEPT ![c] = k],
               ClientMove(c), k # client[c], UNCHANGED <<names, meant, lastId>>
        PROVE  ClientsStep
    <2>1. \A d \in Client : d # c => client'[d] = client[d]
      BY <1>n, <1>t
    <2>2. client' \in [Client -> ClientState]
      BY <1>n, <1>t
    <2>3. \A d \in Client : ClientMove(d)
      BY <1>n, <2>1 DEF ClientMove
    <2>4. \A d \in Client : NamesMove(d)
      BY <1>n DEF NamesMove
    <2> QED
      BY <1>n, <1>t, <2>2, <2>3, <2>4 DEF ClientsStep, Counted
  <1>e. ASSUME NEW c \in Client, NEW pc \in Pc, client' = [client EXCEPT ![c].pc = pc]
        PROVE  \E k \in ClientState : Becomes(c, k, pc)
    <2>s. PICK k : k = [client[c] EXCEPT !.pc = pc]
      OBVIOUS
    <2>1. /\ k \in ClientState /\ k.pc = pc
          /\ k.peer = client[c].peer /\ k.name = client[c].name
          /\ k.id = client[c].id /\ k.value = client[c].value
      BY <1>t, <2>s DEF ClientState
    <2>2. client' = [client EXCEPT ![c] = k] /\ client'[c] = k
      BY <1>e, <1>t, <2>s
    <2> QED
      BY <2>1, <2>2 DEF Becomes
  <1>c. "live" \in Pc /\ "insert" \in Pc /\ "poll" \in Pc /\ "took" \in Pc /\ "done" \in Pc
        /\ "failed" \in Pc
    BY DEF Pc
  <1>1. ASSUME NEW c \in Client, NEW p \in Peer, NEW n \in Name, client[c].pc = "idle",
               client' = [client EXCEPT ![c].pc = "live", ![c].peer = p, ![c].name = n],
               UNCHANGED <<names, meant, lastId>>
        PROVE  ClientsStep
    <2>s. PICK k : k = [client[c] EXCEPT !.pc = "live", !.peer = p, !.name = n]
      OBVIOUS
    <2>1. k \in ClientState /\ k.pc = "live" /\ k.peer = p /\ k.name = n
      BY <1>t, <1>c, <2>s DEF ClientState
    <2>2. client' = [client EXCEPT ![c] = k] /\ client'[c] = k
      BY <1>1, <1>t, <2>s
    <2> QED
      BY <1>1, <1>n, <2>1, <2>2 DEF ClientMove
  <1>2. ASSUME NEW c \in Client, client[c].pc # "failed",
               client' = [client EXCEPT ![c].pc = "failed"],
               UNCHANGED <<names, meant, lastId>>
        PROVE  ClientsStep
    <2>1. PICK k \in ClientState : Becomes(c, k, "failed")
      BY <1>2, <1>c, <1>e
    <2> QED
      BY <1>2, <1>n, <2>1 DEF ClientMove, Becomes
  <1>3. ASSUME NEW c \in Client, CheckLive(c) PROVE ClientsStep
    <2>1. CASE client' = [client EXCEPT ![c].pc = "insert"]
      <3>1. PICK k \in ClientState : Becomes(c, k, "insert")
        BY <1>c, <1>e, <2>1
      <3>2. client[c].peer \in Peer /\ client[c].name \in Name
        BY <1>3 DEF CheckLive, Asked
      <3> QED
        BY <1>3, <1>n, <3>1, <3>2 DEF ClientMove, CheckLive, Becomes
    <2>2. CASE client' = [client EXCEPT ![c].pc = "failed"]
      BY <1>2, <1>3, <2>2 DEF CheckLive
    <2> QED
      BY <1>3, <2>1, <2>2 DEF CheckLive
  <1>4. ASSUME NEW c \in Client, Insert(c) PROVE ClientsStep
    <2>1. client[c].peer \in Peer /\ client[c].name \in Name
      BY <1>4 DEF Insert, Asked
    <2>2. lastId + 1 \in Id /\ lastId' = lastId + 1 /\ lastId' \in 0..MaxId
      BY <1>4, <1>t, RendezvousAssumption DEF Insert, NextId, Id
    <2>s. PICK k : k = [client[c] EXCEPT !.pc = "poll", !.id = lastId + 1]
      OBVIOUS
    <2>3. /\ k \in ClientState /\ k.pc = "poll" /\ k.id = lastId + 1
          /\ k.peer = client[c].peer /\ k.name = client[c].name
      BY <1>t, <1>c, <2>s, <2>2 DEF ClientState
    <2>4. client' = [client EXCEPT ![c] = k] /\ client'[c] = k
      BY <1>4, <1>t, <2>s DEF Insert, NextId
    <2>5. row'[lastId + 1] = NewRow(client[c].peer, client[c].name)
      BY <1>4, <2>2 DEF Insert, NextId, NewRow, Kept
    <2>6. /\ meant'[c] = {names[client[c].peer][client[c].name]}
          /\ \A d \in Client : d # c => meant'[d] = meant[d]
      BY <1>4, <1>t DEF Insert
    <2>7. ClientMove(c)
      <3>1. Asks(c)
        BY <1>4, <2>1, <2>2, <2>3, <2>4, <2>5, <2>6 DEF Asks, Insert
      <3> QED
        BY <3>1 DEF ClientMove
    <2>8. \A d \in Client : d # c => ClientMove(d) /\ NamesMove(d)
      BY <1>4, <1>t, <2>4, <2>6 DEF ClientMove, NamesMove, Insert
    <2>9. NamesMove(c)
      BY <1>4, <2>3, <2>4 DEF NamesMove, Insert
    <2>10. client' \in [Client -> ClientState]
      BY <1>t, <2>3, <2>4
    <2> QED
      BY <2>2, <2>7, <2>8, <2>9, <2>10 DEF ClientsStep, Counted
  <1>5. ASSUME NEW c \in Client, TakeRead(c) PROVE ClientsStep
    <2>s. PICK k : k = [client[c] EXCEPT !.pc = "took", !.value = row[client[c].id].value]
      OBVIOUS
    <2>0. client[c].id \in Id
      <3>1. client[c].id \in 0..MaxId /\ client[c].id \in 1..lastId
        BY <1>5, <1>t DEF ClientState, TakeRead, Fits
      <3> QED
        BY <1>t, <3>1 DEF Id
    <2>1. k \in ClientState /\ k.pc = "took" /\ k.value = row[client[c].id].value
      <3>1. client[c] \in ClientState /\ row[client[c].id] \in Row
        BY <1>t, <2>0
      <3>2. row[client[c].id].value \in Agent \cup {None}
        BY <3>1 DEF Row
      <3> QED
        BY <1>c, <2>s, <3>1, <3>2 DEF ClientState
    <2>2. client' = [client EXCEPT ![c] = k] /\ client'[c] = k
      BY <1>5, <1>t, <2>s DEF TakeRead
    <2> QED
      BY <1>5, <1>n, <2>1, <2>2 DEF TakeRead, ClientMove
  <1>6. ASSUME NEW c \in Client, TakeDelete(c) PROVE ClientsStep
    <2>0. client' = [client EXCEPT ![c].pc = "done"]
      BY <1>6 DEF TakeDelete
    <2>1. PICK k \in ClientState : Becomes(c, k, "done")
      BY <1>c, <1>e, <2>0
    <2> QED
      BY <1>6, <1>n, <2>1 DEF TakeDelete, ClientMove, Becomes
  <1>7. ASSUME NEW p \in Peer, NEW n \in Name, NEW e \in Agent \cup {None}, Rename(p, n, e)
        PROVE  ClientsStep
    <2>1. \A c \in Client : meant[c] \subseteq meant'[c]
      BY <1>7, <1>t DEF Rename
    <2>2. \A c \in Client : NamesMove(c)
      <3> SUFFICES ASSUME NEW c \in Client, client[c].pc = "poll", client[c].peer \in Peer,
                          names[client[c].peer][client[c].name] \in meant[c]
                   PROVE  names'[client[c].peer][client[c].name] \in meant'[c]
        BY DEF NamesMove, Asked
      <3>1. CASE client[c].peer = p /\ client[c].name = n
        <4>1. meant'[c] = meant[c] \cup {e} /\ names'[p][n] = e
          BY <1>7, <1>t, <3>1 DEF Rename
        <4> QED
          BY <3>1, <4>1
      <3>2. CASE ~(client[c].peer = p /\ client[c].name = n)
        <4>1. names'[client[c].peer][client[c].name] = names[client[c].peer][client[c].name]
          BY <1>7, <1>t, <3>2 DEF Rename
        <4> QED
          BY <2>1, <4>1
      <3> QED
        BY <3>1, <3>2
    <2> QED
      BY <1>7, <1>t, <2>1, <2>2 DEF Rename, ClientsStep, ClientMove, Counted
  <1>8. ASSUME NEW c \in Client, NEW w \in Window, NEW n \in Name, Through(c, w, n)
        PROVE  ClientsStep
    BY <1>1, <1>2, <1>8 DEF Through
  <1>9. ASSUME NEW c \in Client, InsertRefused(c) \/ GiveUp(c) PROVE ClientsStep
    BY <1>2, <1>9 DEF InsertRefused, GiveUp
  <1>10. ASSUME NEW c \in Client, NEW p \in Peer, NEW n \in Name, Named(c, p, n)
         PROVE  ClientsStep
    BY <1>1, <1>10 DEF Named
  <1>11. ASSUME \/ \E id \in Id : Ages(id)
                \/ \E b \in Bridge, p \in Peer, w \in Window : Connect(b, p, w)
                \/ \E p \in Peer : LeaseLapses(p)
                \/ \E b \in Bridge : Hangup(b) \/ HandleResolve(b) \/ Answer(b)
                \/ \E b \in Bridge, id \in Id : ForwardResolution(b, id)
                \/ UNCHANGED vars
         PROVE  UNCHANGED <<client, names, meant, lastId>>
    BY <1>11 DEF Ages, Connect, LeaseLapses, Hangup, HandleResolve, Answer, ForwardResolution,
                 vars
  <1> QED
    BY <1>u, <1>3, <1>4, <1>5, <1>6, <1>7, <1>8, <1>9, <1>10, <1>11 DEF Next, ClientStep

-----------------------------------------------------------------------------
(***************************************************************************)
(* The invariant is kept                                                    *)
(***************************************************************************)

LEMMA AskedStep ==
    ASSUME TypeOK, Asked, RowStep, ClientsStep
    PROVE  Asked'
  <1>1. ASSUME NEW id \in Id, row'[id].age # "absent"
        PROVE  row'[id].peer \in Peer /\ row'[id].name \in Name
    <2>1. RowMove(id) /\ row'[id] # NoRow
      BY <1>1, NoRowFields DEF RowStep
    <2>2. CASE NewAt(id)
      BY <2>2, NewRowFields DEF NewAt
    <2>3. CASE ~NewAt(id)
      BY <1>1, <2>1, <2>3 DEF RowMove, Asked
    <2> QED
      BY <2>2, <2>3
  <1>2. ASSUME NEW c \in Client, client'[c].pc \in {"live", "insert", "poll"}
        PROVE  client'[c].peer \in Peer /\ client'[c].name \in Name
    <2>1. ClientMove(c)
      BY DEF ClientsStep
    <2> QED
      BY <1>2, <2>1 DEF ClientMove, Asks, Asked
  <1> QED
    BY <1>1, <1>2 DEF Asked, Exists

LEMMA WiresStep ==
    ASSUME TypeOK, Wires, SessionStep, ClientsStep
    PROVE  Wires'
  <1>t. lastId \in Nat /\ lastId' \in Nat /\ lastId =< lastId' /\ Id \subseteq Nat
    BY IdNat, RendezvousAssumption DEF TypeOK, ClientsStep, Counted
  <1> SUFFICES ASSUME NEW b \in Bridge
               PROVE  /\ sess'[b].peer = None
                            => sess'[b].questions = <<>> /\ sess'[b].answers = <<>>
                      /\ \A q \in In(sess'[b].questions) : q.id =< lastId'
                      /\ \A a \in In(sess'[b].answers) : a.id =< lastId'
    BY DEF Wires, In
  <1>1. SessionMove(b) /\ sess[b] \in SessionState /\ sess'[b] \in SessionState
    BY DEF SessionStep, TypeOK
  <1>2. /\ In(sess[b].questions) \subseteq Resolve /\ In(sess'[b].questions) \subseteq Resolve
        /\ In(sess[b].answers) \subseteq Resolved /\ In(sess'[b].answers) \subseteq Resolved
    BY <1>1, InType DEF SessionState
  <1>3. ASSUME NEW q \in In(sess'[b].questions) PROVE q.id =< lastId'
    <2>1. q.id \in Id /\ q.id \in Nat
      BY <1>2, <1>t DEF Resolve
    <2>2. q.id =< lastId
      BY <1>1, <2>1 DEF SessionMove, Questions, Wires, TypeOK
    <2> QED
      BY <1>t, <2>1, <2>2
  <1>4. ASSUME NEW a \in In(sess'[b].answers) PROVE a.id =< lastId'
    <2>1. a.id \in Id /\ a.id \in Nat
      BY <1>2, <1>t DEF Resolved
    <2>2. a.id =< lastId
      BY <1>1 DEF SessionMove, Answers, Wires
    <2> QED
      BY <1>t, <2>1, <2>2
  <1> QED
    BY <1>1, <1>3, <1>4 DEF SessionMove

\* A polling client either asks in this step, under an id nothing mentions yet,
\* or polled before, and then whatever mentions its id stays about its question.
LEMMA FitsStep ==
    ASSUME TypeOK, Asked, Wires, Fits, RowStep, SessionStep, ClientsStep
    PROVE  Fits'
  <1>t. lastId \in Nat /\ lastId' \in Nat /\ lastId =< lastId' /\ Id \subseteq Nat /\ MaxId \in Nat
    BY IdNat, RendezvousAssumption DEF TypeOK, ClientsStep, Counted
  <1> SUFFICES ASSUME NEW c \in Client, client'[c].pc = "poll"
               PROVE  /\ client'[c].id \in 1..lastId'
                      /\ names'[client'[c].peer][client'[c].name] \in meant'[c]
                      /\ RowFits(c)' /\ WiresFit(c)'
    BY DEF Fits
  <1>m. ClientMove(c) /\ NamesMove(c)
    BY DEF ClientsStep
  <1>f. \A b \in Bridge :
            /\ In(sess[b].questions) \subseteq Resolve
            /\ In(sess[b].answers) \subseteq Resolved
    <2>1. ASSUME NEW b \in Bridge
          PROVE  sess[b].questions \in Seq(Resolve) /\ sess[b].answers \in Seq(Resolved)
      BY DEF TypeOK, SessionState
    <2> QED
      BY <2>1, InType
  <1>1. CASE Asks(c)
    <2>1. /\ client'[c].id = lastId + 1 /\ lastId' = lastId + 1
          /\ client'[c].peer \in Peer /\ client'[c].name \in Name
          /\ row'[lastId + 1] = NewRow(client'[c].peer, client'[c].name)
          /\ meant'[c] = {names[client'[c].peer][client'[c].name]}
          /\ names' = names /\ sess' = sess
      BY <1>1 DEF Asks
    <2>2. client'[c].id \in 1..lastId'
      BY <1>t, <2>1
    <2>3. RowFits(c)'
      BY <2>1, NewRowFields DEF RowFits
    <2>4. ASSUME NEW b \in Bridge
          PROVE  /\ \A q \in In(sess[b].questions) : q.id # lastId + 1
                 /\ \A a \in In(sess[b].answers) : a.id # lastId + 1
      <3>1. ASSUME NEW q \in In(sess[b].questions) PROVE q.id # lastId + 1
        BY <1>f, <1>t DEF Wires, Resolve
      <3>2. ASSUME NEW a \in In(sess[b].answers) PROVE a.id # lastId + 1
        BY <1>f, <1>t DEF Wires, Resolved
      <3> QED
        BY <3>1, <3>2
    <2>5. WiresFit(c)'
      BY <2>1, <2>4 DEF WiresFit
    <2> QED
      BY <2>1, <2>2, <2>3, <2>5
  <1>2. CASE client'[c] = client[c] /\ meant[c] \subseteq meant'[c]
    <2> DEFINE i == client[c].id
    <2>1. /\ client[c].pc = "poll" /\ i \in 1..lastId /\ RowFits(c) /\ WiresFit(c)
          /\ names[client[c].peer][client[c].name] \in meant[c]
      BY <1>2 DEF Fits
    <2>2. i \in Id /\ i \in 1..lastId'
      BY <1>t, <2>1 DEF TypeOK, Id
    <2>3. names'[client[c].peer][client[c].name] \in meant'[c]
      BY <1>2, <1>m, <2>1 DEF NamesMove
    <2> HIDE DEF i
    <2>4. RowFits(c)'
      <3> SUFFICES ASSUME row'[i].age # "absent"
                   PROVE  /\ row'[i].peer = client[c].peer /\ row'[i].name = client[c].name
                          /\ row'[i].answered => row'[i].value \in meant'[c]
        BY <1>2 DEF RowFits, Exists, i
      <3>1. RowMove(i) /\ row'[i] # NoRow /\ ~NewAt(i)
        BY <1>t, <2>1, <2>2, NoRowFields DEF RowStep, NewAt
      <3>2. /\ Exists(i) /\ row'[i].peer = row[i].peer /\ row'[i].name = row[i].name
            /\ \/ row'[i].answered = row[i].answered /\ row'[i].value = row[i].value
               \/ Answered(i)
        BY <3>1 DEF RowMove
      <3>3. /\ row[i].peer = client[c].peer /\ row[i].name = client[c].name
            /\ row[i].answered => row[i].value \in meant[c]
        BY <2>1, <3>2 DEF RowFits, i
      <3>4. Answered(i) => row'[i].value \in meant[c]
        BY <2>1, <3>3 DEF Answered, WiresFit, i
      <3> QED
        BY <1>2, <3>2, <3>3, <3>4
    <2>5. WiresFit(c)'
      <3> SUFFICES ASSUME NEW b \in Bridge, sess'[b].peer = client[c].peer
                   PROVE  /\ \A q \in In(sess'[b].questions) :
                                q.id = i => q.name = client[c].name
                          /\ \A a \in In(sess'[b].answers) :
                                a.id = i => a.value \in meant'[c]
        BY <1>2 DEF WiresFit, In, i
      <3>1. Questions(b) /\ Answers(b)
        BY DEF SessionStep, SessionMove
      <3>2. sess[b].peer = client[c].peer =>
              /\ \A q \in In(sess[b].questions) : q.id = i => q.name = client[c].name
              /\ \A a \in In(sess[b].answers) : a.id = i => a.value \in meant[c]
        BY <2>1 DEF WiresFit, i
      <3>3. ASSUME NEW q \in In(sess'[b].questions), q.id = i
            PROVE  q.name = client[c].name
        BY <2>1, <3>1, <3>2, <3>3 DEF Questions, OldFrames, RowFits, i
      <3>4. ASSUME NEW a \in In(sess'[b].answers), a.id = i
            PROVE  a.value \in meant'[c]
        <4>1. sess[b].peer = client[c].peer
          BY <3>1 DEF Answers, OldFrames
        <4>2. CASE a \in In(sess[b].answers)
          BY <1>2, <3>2, <3>4, <4>1, <4>2
        <4>3. CASE \E q \in In(sess[b].questions) :
                      a.id = q.id /\ a.value = names[sess[b].peer][q.name]
          BY <1>2, <2>1, <3>2, <3>4, <4>1, <4>3
        <4> QED
          BY <3>1, <4>2, <4>3 DEF Answers
      <3> QED
        BY <3>3, <3>4
    <2> QED
      BY <1>2, <2>2, <2>3, <2>4, <2>5 DEF i
  <1> QED
    BY <1>1, <1>2, <1>m DEF ClientMove

LEMMA CurrentStep ==
    ASSUME TypeOK, Fits, AnswersAreCurrent, ClientsStep
    PROVE  AnswersAreCurrent'
  <1> SUFFICES ASSUME NEW c \in Client, client'[c].pc \in {"took", "done"}
               PROVE  client'[c].value \in meant'[c]
    BY DEF AnswersAreCurrent
  <1>1. ClientMove(c)
    BY DEF ClientsStep
  <1>2. CASE client[c].pc = "poll" /\ client'[c].pc = "took"
    <2>1. row[client[c].id].answered => row[client[c].id].age # "absent"
      <3>1. client[c].id \in Id
        BY <1>2, IdNat DEF Fits, TypeOK, Id
      <3> QED
        BY <3>1, NoRowFields DEF TypeOK, Exists
    <2> QED
      BY <1>1, <1>2, <2>1 DEF ClientMove, Asks, Fits, RowFits, Exists
  <1> QED
    BY <1>1, <1>2 DEF ClientMove, Asks, AnswersAreCurrent

LEMMA PendingFinite ==
    ASSUME NEW p
    PROVE  IsFiniteSet(Pending(p)) /\ Cardinality(Pending(p)) \in Nat
  <1>1. IsFiniteSet(Id)
    BY RendezvousAssumption, FS_Interval DEF Id
  <1> QED
    BY <1>1, FS_Subset, FS_CardinalityType DEF Pending

\* Only Insert makes a question wait, one, and it counts them in the same
\* transaction.
LEMMA BoundedStep ==
    ASSUME TypeOK, Asked, QuestionsBounded, RowStep, [Next]_vars
    PROVE  QuestionsBounded'
  <1>t. row \in [Id -> Row] /\ MaxPending \in Nat
    BY RendezvousAssumption DEF TypeOK
  <1> DEFINE Bounded(p) == Cardinality(Pending(p)') =< MaxPending
  <1>1. ASSUME NEW p \in Peer, Pending(p)' \subseteq Pending(p) PROVE Bounded(p)
    <2>1. Cardinality(Pending(p)') =< Cardinality(Pending(p))
      BY <1>1, PendingFinite, FS_Subset
    <2>2. Cardinality(Pending(p)') \in Nat /\ Cardinality(Pending(p)) \in Nat
      BY <1>1, PendingFinite, FS_Subset, FS_CardinalityType
    <2> QED
      BY <1>t, <2>1, <2>2 DEF QuestionsBounded
  <1>2. ASSUME NEW c \in Client, Insert(c), NEW p \in Peer PROVE Bounded(p)
    <2>1. client[c].peer \in Peer /\ client[c].name \in Name
      BY <1>2 DEF Insert, Asked
    <2>2. row' = [Kept EXCEPT ![NextId] = NewRow(client[c].peer, client[c].name)]
      BY <1>2 DEF Insert, NewRow
    <2>3. \A id \in Id : row'[id] = NoRow \/ row'[id] = row[id] \/ id = NextId
      BY <2>2 DEF Kept
    <2>4. \A id \in Id : row'[id] = NoRow => ~Waiting(id)'
      BY NoRowFields DEF Waiting
    <2>5. Pending(p)' \subseteq Pending(p) \cup {NextId}
      BY <2>3, <2>4 DEF Pending, Waiting
    <2>6. CASE p = client[c].peer
      <3>1. Cardinality(Pending(p)) < MaxPending /\ Cardinality(Pending(p)) \in Nat
        BY <1>2, <2>6, PendingFinite DEF Insert
      <3>f. IsFiniteSet(Pending(p))
        BY PendingFinite
      <3>2. /\ IsFiniteSet(Pending(p) \cup {NextId})
            /\ Cardinality(Pending(p) \cup {NextId}) =< Cardinality(Pending(p)) + 1
            /\ Cardinality(Pending(p) \cup {NextId}) \in Nat
        <4>1. /\ IsFiniteSet(Pending(p) \cup {NextId})
              /\ \/ Cardinality(Pending(p) \cup {NextId}) = Cardinality(Pending(p))
                 \/ Cardinality(Pending(p) \cup {NextId}) = Cardinality(Pending(p)) + 1
          BY <3>f, FS_AddElement
        <4> QED
          BY <3>1, <4>1
      <3>3. /\ Cardinality(Pending(p)') =< Cardinality(Pending(p) \cup {NextId})
            /\ Cardinality(Pending(p)') \in Nat
        BY <2>5, <3>2, FS_Subset, FS_CardinalityType
      <3> QED
        BY <1>t, <3>1, <3>2, <3>3
    <2>7. CASE p # client[c].peer
      <3>1. NextId \in Id => row'[NextId].peer = client[c].peer
        BY <2>1, <2>2, NewRowFields DEF Kept
      <3>2. Pending(p)' \subseteq Pending(p)
        BY <2>5, <2>7, <3>1 DEF Pending
      <3> QED
        BY <1>1, <3>2
    <2> QED
      BY <2>6, <2>7
  <1>3. ASSUME \A id \in Id : \/ row'[id] = NoRow \/ row'[id] = row[id]
                              \/ row'[id].age \in {"late", "old"} \/ row'[id].answered
        PROVE  QuestionsBounded'
    <2>1. \A id \in Id : row'[id] = row[id] \/ ~Waiting(id)'
      BY <1>3, NoRowFields DEF Waiting
    <2>2. \A p \in Peer : Pending(p)' \subseteq Pending(p)
      BY <2>1 DEF Pending, Waiting
    <2> QED
      BY <1>1, <2>2 DEF QuestionsBounded
  <1>4. ASSUME NEW c \in Client, TakeDelete(c) PROVE QuestionsBounded'
    <2>1. \A id \in Id : row'[id] = NoRow \/ row'[id] = row[id]
      BY <1>4, <1>t DEF TakeDelete
    <2> QED
      BY <1>3, <2>1
  <1>5. ASSUME NEW i \in Id, Ages(i) PROVE QuestionsBounded'
    <2>1. \A id \in Id : row'[id] = row[id] \/ row'[id].age \in {"late", "old"}
      BY <1>5, <1>t DEF Ages, Row
    <2> QED
      BY <1>3, <2>1
  <1>6. ASSUME NEW b \in Bridge, Answer(b) PROVE QuestionsBounded'
    <2>1. \A id \in Id : row'[id] = row[id] \/ row'[id].answered
      BY <1>6, <1>t DEF Answer, AnswerResolution, Row
    <2> QED
      BY <1>3, <2>1
  <1>7. ASSUME \/ \E c \in Client, p \in Peer, n \in Name : Named(c, p, n)
               \/ \E c \in Client, w \in Window, n \in Name : Through(c, w, n)
               \/ \E c \in Client : CheckLive(c) \/ InsertRefused(c) \/ TakeRead(c) \/ GiveUp(c)
               \/ \E b \in Bridge, p \in Peer, w \in Window : Connect(b, p, w)
               \/ \E p \in Peer : LeaseLapses(p)
               \/ \E b \in Bridge : Hangup(b) \/ HandleResolve(b)
               \/ \E b \in Bridge, id \in Id : ForwardResolution(b, id)
               \/ \E p \in Peer, n \in Name, e \in Agent \cup {None} : Rename(p, n, e)
               \/ UNCHANGED vars
        PROVE  UNCHANGED row
    BY <1>7 DEF Named, Through, CheckLive, InsertRefused, TakeRead, GiveUp, Connect, LeaseLapses,
                Hangup, HandleResolve, ForwardResolution, Rename, vars
  <1>8. UNCHANGED row => QuestionsBounded'
    BY <1>3
  <1>9. (\E c \in Client : Insert(c)) => QuestionsBounded'
    BY <1>2 DEF QuestionsBounded
  <1> QED
    BY <1>4, <1>5, <1>6, <1>7, <1>8, <1>9 DEF Next, ClientStep

LEMMA TypeStep ==
    ASSUME TypeOK, Asked, RowStep, SessionStep, ClientsStep, [Next]_vars
    PROVE  TypeOK'
  <1>t. /\ lease \in [Peer -> [owner : Bridge \cup {None}, window : Window \cup {None}]]
        /\ names \in [Peer -> [Name -> Agent \cup {None}]] /\ renames \in 0..MaxRenames
        /\ meant \in [Client -> SUBSET (Agent \cup {None})] /\ lastId \in 0..MaxId
    BY DEF TypeOK
  <1>n. lastId \in Nat /\ MaxId \in Nat /\ lastId' \in Nat /\ lastId =< lastId' /\ Id \subseteq Nat
    BY <1>t, IdNat, RendezvousAssumption DEF ClientsStep, Counted
  <1>1. ASSUME NEW id \in Id
        PROVE  IF row'[id].age # "absent" THEN id =< lastId' ELSE row'[id] = NoRow
    <2>1. RowMove(id) /\ id \in Nat
      BY <1>n DEF RowStep
    <2>2. IF Exists(id) THEN id =< lastId ELSE row[id] = NoRow
      BY DEF TypeOK
    <2>3. CASE NewAt(id)
      BY <1>n, <2>3, NewRowFields DEF NewAt
    <2> QED
      BY <1>n, <2>1, <2>2, <2>3, NoRowFields DEF RowMove
  <1> DEFINE Rest == /\ lease' \in [Peer -> [owner : Bridge \cup {None}, window : Window \cup {None}]]
                     /\ names' \in [Peer -> [Name -> Agent \cup {None}]]
                     /\ renames' \in 0..MaxRenames
                     /\ meant' \in [Client -> SUBSET (Agent \cup {None})]
  <1>2. UNCHANGED <<lease, names, renames, meant>> => Rest
    BY <1>t
  <1>3. ASSUME NEW c \in Client, Insert(c) PROVE Rest
    <2>1. names[client[c].peer][client[c].name] \in Agent \cup {None}
      BY <1>3, <1>t DEF Insert, Asked
    <2> QED
      BY <1>3, <1>t, <2>1 DEF Insert
  <1>4. ASSUME NEW b \in Bridge, NEW p \in Peer, NEW w \in Window, Connect(b, p, w) PROVE Rest
    BY <1>4, <1>t DEF Connect
  <1>5. ASSUME NEW p \in Peer, LeaseLapses(p) PROVE Rest
    BY <1>5, <1>t DEF LeaseLapses
  <1>6. ASSUME NEW b \in Bridge, Hangup(b) PROVE Rest
    BY <1>6, <1>t DEF Hangup
  <1>7. ASSUME NEW p \in Peer, NEW n \in Name, NEW e \in Agent \cup {None}, Rename(p, n, e)
        PROVE  Rest
    <2>1. renames' \in 0..MaxRenames
      BY <1>7, <1>t, RendezvousAssumption DEF Rename
    <2>2. names' \in [Peer -> [Name -> Agent \cup {None}]]
      BY <1>7, <1>t DEF Rename
    <2>3. meant' \in [Client -> SUBSET (Agent \cup {None})]
      BY <1>7, <1>t DEF Rename
    <2> QED
      BY <1>7, <1>t, <2>1, <2>2, <2>3 DEF Rename
  <1>8. ASSUME \/ \E c \in Client, p \in Peer, n \in Name : Named(c, p, n)
               \/ \E c \in Client, w \in Window, n \in Name : Through(c, w, n)
               \/ \E c \in Client : CheckLive(c) \/ InsertRefused(c) \/ TakeRead(c) \/ GiveUp(c)
               \/ \E c \in Client : TakeDelete(c)
               \/ \E id \in Id : Ages(id)
               \/ \E b \in Bridge : HandleResolve(b) \/ Answer(b)
               \/ \E b \in Bridge, id \in Id : ForwardResolution(b, id)
               \/ UNCHANGED vars
        PROVE  UNCHANGED <<lease, names, renames, meant>>
    BY <1>8 DEF Named, Through, CheckLive, InsertRefused, TakeRead, TakeDelete, GiveUp, Ages,
                HandleResolve, Answer, ForwardResolution, vars
  <1>9. Rest
    BY <1>2, <1>3, <1>4, <1>5, <1>6, <1>7, <1>8 DEF Next, ClientStep
  <1> QED
    BY <1>1, <1>9 DEF TypeOK, RowStep, SessionStep, ClientsStep, Exists

-----------------------------------------------------------------------------
(***************************************************************************)
(* The theorems                                                             *)
(***************************************************************************)

LEMMA SoundInit == Init => Sound
  <1> SUFFICES ASSUME Init PROVE Sound
    OBVIOUS
  <1>1. TypeOK
    <2>1. row \in [Id -> Row] /\ \A id \in Id : ~Exists(id) /\ row[id] = NoRow
      BY NoRowFields DEF Init, Exists
    <2>2. NotAsking \in ClientState /\ lastId \in 0..MaxId
      BY RendezvousAssumption DEF Init, NotAsking, ClientState, Pc
    <2>3. NoSession \in SessionState
      <3>1. {} \in SUBSET Id /\ <<>> \in Seq(Resolve) /\ <<>> \in Seq(Resolved)
        OBVIOUS
      <3> QED
        BY <3>1 DEF NoSession, SessionState
    <2>4. renames \in 0..MaxRenames
      BY RendezvousAssumption DEF Init
    <2> QED
      BY <2>1, <2>2, <2>3, <2>4 DEF Init, TypeOK
  <1>2. Asked
    BY NoRowFields DEF Init, Asked, NotAsking, Exists
  <1>3. Wires
    BY InEmpty DEF Init, Wires, NoSession
  <1>4. Fits /\ AnswersAreCurrent
    BY DEF Init, Fits, AnswersAreCurrent, NotAsking
  <1>5. QuestionsBounded
    <2>1. \A p : Pending(p) = {}
      BY NoRowFields DEF Init, Pending, Waiting
    <2> QED
      BY <2>1, FS_EmptySet, RendezvousAssumption DEF QuestionsBounded
  <1> QED
    BY <1>1, <1>2, <1>3, <1>4, <1>5 DEF Sound

LEMMA SoundStep == Sound /\ [Next]_vars => Sound'
  <1> SUFFICES ASSUME Sound, [Next]_vars PROVE Sound'
    OBVIOUS
  <1> USE DEF Sound
  <1>1. RowStep
    BY RowsMove
  <1>2. SessionStep
    BY SessionsMove
  <1>3. ClientsStep
    BY ClientsMove
  <1>4. TypeOK'
    BY <1>1, <1>2, <1>3, TypeStep
  <1>5. Asked'
    BY <1>1, <1>3, AskedStep
  <1>6. Wires'
    BY <1>2, <1>3, WiresStep
  <1>7. Fits'
    BY <1>1, <1>2, <1>3, FitsStep
  <1>8. AnswersAreCurrent'
    BY <1>3, CurrentStep
  <1>9. QuestionsBounded'
    BY <1>1, BoundedStep
  <1> QED
    BY <1>4, <1>5, <1>6, <1>7, <1>8, <1>9

LEMMA RendezvousSound == Spec => []Sound
  BY SoundInit, SoundStep, PTL DEF Spec

\* request_resolution, forward_resolutions, answer_resolution and
\* take_resolution together: whatever is late, given up, deleted or asked again
\* over another connection, the agent a client takes is one its name had on the
\* peer it asked, at some moment since it asked.
THEOREM TakenAnswersWereTrue == Spec => []AnswersAreCurrent
  <1>1. Sound => AnswersAreCurrent
    BY DEF Sound
  <1> QED
    BY <1>1, RendezvousSound, PTL

\* request_resolution: no number of clients that passed the lease check at once
\* leaves more than MAX_PENDING_RESOLUTIONS questions waiting for one peer.
THEOREM WaitingIsBounded == Spec => []QuestionsBounded
  <1>1. Sound => QuestionsBounded
    BY DEF Sound
  <1> QED
    BY <1>1, RendezvousSound, PTL
=============================================================================
