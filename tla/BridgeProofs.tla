---------------------------- MODULE BridgeProofs ----------------------------
(***************************************************************************)
(* Proofs about the bridge between two hosts.                               *)
(***************************************************************************)
EXTENDS Bridge, FiniteSetTheorems, SequenceTheorems, TLAPS

-----------------------------------------------------------------------------
(***************************************************************************)
(* Hosts and frames                                                         *)
(***************************************************************************)

\* There are two hosts, and Other is the one that is not h.
LEMMA Others ==
    /\ \A h \in Host : Other(h) \in Host /\ Other(h) # h /\ Other(Other(h)) = h
    /\ \A g, h \in Host : g = h \/ g = Other(h)
  <1>1. PICK x, y \in Host : x # y /\ Host = {x, y}
    BY HostAssumption
  <1>2. Other(x) = y /\ Other(y) = x
    BY <1>1 DEF Other
  <1> QED
    BY <1>1, <1>2

\* A message is at home on one host and bound for the other.
LEMMA Ends ==
    ASSUME NEW m \in Msg
    PROVE  Home[m] \in Host /\ Dest(m) \in Host /\ Dest(m) # Home[m]
           /\ \A h \in Host : h = Dest(m) <=> Other(h) = Home[m]
  BY Others, MsgAssumption DEF Dest

\* An answer travels the way its request came.
LEMMA AnswerEnds ==
    ASSUME NEW r \in Response
    PROVE  /\ ReplyTo[r] \in Request /\ ReplyTo[r] \in Msg /\ r \in Msg
           /\ Home[r] = Dest(ReplyTo[r]) /\ Dest(r) = Home[ReplyTo[r]]
  <1>1. ReplyTo[r] \in Request /\ ReplyTo[r] \in Msg /\ r \in Msg
    BY MsgAssumption DEF Msg
  <1>2. Home[r] = Other(Home[ReplyTo[r]])
    BY MsgAssumption
  <1> QED
    BY <1>1, <1>2, Others, Ends DEF Dest

\* What a direction of a connection carries.
Frames(w) == {w[i] : i \in 1 .. Len(w)}

LEMMA FramesAppend ==
    ASSUME NEW S, NEW w \in Seq(S), NEW f \in S
    PROVE  Append(w, f) \in Seq(S) /\ Frames(Append(w, f)) = Frames(w) \cup {f}
  BY DEF Frames

LEMMA FramesTail ==
    ASSUME NEW S, NEW w \in Seq(S), w # << >>
    PROVE  /\ Tail(w) \in Seq(S) /\ Frames(Tail(w)) \subseteq Frames(w)
           /\ Head(w) \in Frames(w) /\ Head(w) \in S
  BY DEF Frames

LEMMA FramesPrefix ==
    ASSUME NEW S, NEW w \in Seq(S), NEW p \in Prefixes(w)
    PROVE  p \in Seq(S) /\ Frames(p) \subseteq Frames(w) /\ << >> \in Prefixes(w)
  BY DEF Frames, Prefixes

-----------------------------------------------------------------------------
(***************************************************************************)
(* Types                                                                    *)
(***************************************************************************)

Wires == [Conn -> [Host -> Seq(Frame)]]
Sessions == [Conn -> [Host -> SessionState]]

\* The frames of `now` are those of `was`, and perhaps f on its way from end h
\* of connection c.
Adds(now, was, c, h, f) ==
    \A d \in Conn, g \in Host : \A x \in Frames(now[d][g]) :
        x \in Frames(was[d][g]) \/ (d = c /\ g = Other(h) /\ x = f)

Loses(now, was) ==
    \A d \in Conn, g \in Host : Frames(now[d][g]) \subseteq Frames(was[d][g])

LEMMA WrittenAdds ==
    ASSUME NEW c \in Conn, NEW h \in Host, NEW w \in Wires, NEW f \in Frame
    PROVE  Written(c, h, w, f) \in Wires /\ Adds(Written(c, h, w, f), w, c, h, f)
  <1>1. CASE up[c]
    <2> DEFINE new == [w EXCEPT ![c][Other(h)] = Append(@, f)]
    <2>1. Other(h) \in Host /\ w[c][Other(h)] \in Seq(Frame)
      BY Others DEF Wires
    <2>2. /\ Append(w[c][Other(h)], f) \in Seq(Frame)
          /\ Frames(Append(w[c][Other(h)], f)) = Frames(w[c][Other(h)]) \cup {f}
      BY <2>1, FramesAppend
    <2>3. new \in Wires
      BY <2>1, <2>2 DEF Wires
    <2>4. \A d \in Conn, g \in Host : new[d][g] =
            IF d = c /\ g = Other(h) THEN Append(w[c][Other(h)], f) ELSE w[d][g]
      BY <2>1 DEF Wires
    <2>5. Adds(new, w, c, h, f)
      BY <2>2, <2>4 DEF Adds
    <2> QED
      BY <1>1, <2>3, <2>5 DEF Written
  <1>2. CASE ~up[c]
    BY <1>2 DEF Written, Adds
  <1> QED
    BY <1>1, <1>2

LEMMA PoppedLoses ==
    ASSUME NEW c \in Conn, NEW h \in Host, wire \in Wires, wire[c][h] # << >>
    PROVE  /\ Popped(c, h) \in Wires /\ Loses(Popped(c, h), wire)
           /\ Head(wire[c][h]) \in Frame /\ Head(wire[c][h]) \in Frames(wire[c][h])
  <1>1. wire[c][h] \in Seq(Frame)
    BY DEF Wires
  <1>2. /\ Tail(wire[c][h]) \in Seq(Frame)
        /\ Frames(Tail(wire[c][h])) \subseteq Frames(wire[c][h])
        /\ Head(wire[c][h]) \in Frames(wire[c][h]) /\ Head(wire[c][h]) \in Frame
    BY <1>1, FramesTail
  <1>3. Popped(c, h) \in Wires
    BY <1>2 DEF Popped, Wires
  <1>4. \A d \in Conn, g \in Host : Popped(c, h)[d][g] =
            IF d = c /\ g = h THEN Tail(wire[c][h]) ELSE wire[d][g]
    BY DEF Popped, Wires
  <1> QED
    BY <1>2, <1>3, <1>4 DEF Loses

LEMMA HangupLoses ==
    ASSUME NEW c \in Conn, NEW h \in Host, wire \in Wires, Hangup(c, h)
    PROVE  wire' \in Wires /\ Loses(wire', wire)
  <1>1. PICK kept \in Prefixes(wire[c][Other(h)]) :
            wire' = [wire EXCEPT ![c] = [g \in Host |-> IF g = h THEN << >> ELSE kept]]
    BY DEF Hangup
  <1>2. wire[c][Other(h)] \in Seq(Frame) /\ Other(h) \in Host
    BY Others DEF Wires
  <1>3. kept \in Seq(Frame) /\ Frames(kept) \subseteq Frames(wire[c][Other(h)])
    BY <1>2, FramesPrefix
  <1>4. << >> \in Seq(Frame) /\ Frames(<< >>) = {}
    BY DEF Frames
  <1>5. wire' \in Wires
    BY <1>1, <1>3, <1>4 DEF Wires
  <1>6. \A d \in Conn, g \in Host : wire'[d][g] =
            IF d # c THEN wire[d][g] ELSE IF g = h THEN << >> ELSE kept
    BY <1>1 DEF Wires
  <1>7. \A g \in Host : g # h => g = Other(h)
    BY Others
  <1> QED
    BY <1>3, <1>4, <1>5, <1>6, <1>7 DEF Loses

LEMMA BreakLoses ==
    ASSUME NEW c \in Conn, wire \in Wires, Break(c)
    PROVE  wire' \in Wires /\ Loses(wire', wire)
  <1>1. PICK kept \in [Host -> UNION {Prefixes(wire[c][h]) : h \in Host}] :
            /\ \A h \in Host : kept[h] \in Prefixes(wire[c][h])
            /\ wire' = [wire EXCEPT ![c] = kept]
    BY DEF Break
  <1>2. \A h \in Host : kept[h] \in Seq(Frame) /\ Frames(kept[h]) \subseteq Frames(wire[c][h])
    BY <1>1, FramesPrefix DEF Wires
  <1>3. kept \in [Host -> Seq(Frame)]
    BY <1>2
  <1>4. wire' \in Wires
    BY <1>1, <1>3 DEF Wires
  <1> QED
    BY <1>1, <1>2, <1>4 DEF Loses, Wires

Mails == [Host -> [Msg -> State]]
Owners == [Msg -> Session \cup {None}]
Leases == [Host -> {NoLease} \cup [owner : Session, live : BOOLEAN]]

LEMMA MailSet ==
    ASSUME NEW M \in Mails, NEW h \in Host, NEW m \in Msg, NEW s \in State
    PROVE  /\ [M EXCEPT ![h][m] = s] \in Mails
           /\ \A g \in Host, n \in Msg :
                [M EXCEPT ![h][m] = s][g][n] = IF g = h /\ n = m THEN s ELSE M[g][n]
  BY DEF Mails

\* The ways in which an action writes one session, and no other.
LEMMA SessionSet ==
    ASSUME NEW S \in Sessions, NEW c \in Conn, NEW h \in Host, NEW s \in SessionState
    PROVE  /\ [S EXCEPT ![c][h] = s] \in Sessions
           /\ \A d \in Conn, g \in Host :
                [S EXCEPT ![c][h] = s][d][g] = IF d = c /\ g = h THEN s ELSE S[d][g]
  BY DEF Sessions

\* Sessions after a step that wrote s at end h of connection c.
Now(c, h, s) ==
    /\ sess' \in Sessions
    /\ \A d \in Conn, g \in Host : sess'[d][g] = IF d = c /\ g = h THEN s ELSE sess[d][g]

LEMMA SessionNow ==
    ASSUME sess \in Sessions, NEW c \in Conn, NEW h \in Host
    PROVE  /\ \A s \in SessionState : sess' = [sess EXCEPT ![c][h] = s] => Now(c, h, s)
           /\ \A p \in Pc : sess' = [sess EXCEPT ![c][h].pc = p]
                    => Now(c, h, [sess[c][h] EXCEPT !.pc = p])
           /\ \A p \in Pc, x \in Msg \cup {None} :
                sess' = [sess EXCEPT ![c][h].pc = p, ![c][h].hand = x]
                    => Now(c, h, [sess[c][h] EXCEPT !.pc = p, !.hand = x])
           /\ \A p \in Pc, m \in Msg :
                sess' = [sess EXCEPT ![c][h].pc = p, ![c][h].in_flight = @ \cup {m}]
                    => Now(c, h, [sess[c][h] EXCEPT !.pc = p, !.in_flight = @ \cup {m}])
           /\ \A m \in Msg : sess' = [sess EXCEPT ![c][h].in_flight = @ \ {m}]
                    => Now(c, h, [sess[c][h] EXCEPT !.in_flight = @ \ {m}])
           /\ \A m \in Msg : sess' = [sess EXCEPT ![c][h].cancels_sent = @ \cup {m}]
                    => Now(c, h, [sess[c][h] EXCEPT !.cancels_sent = @ \cup {m}])
  <1>1. sess[c][h] \in SessionState
    BY DEF Sessions
  <1>2. ASSUME NEW s \in SessionState, sess' = [sess EXCEPT ![c][h] = s]
        PROVE  Now(c, h, s)
    <2>1. [sess EXCEPT ![c][h] = s] \in Sessions
      BY SessionSet
    <2>2. \A d \in Conn, g \in Host :
            [sess EXCEPT ![c][h] = s][d][g] = IF d = c /\ g = h THEN s ELSE sess[d][g]
      BY DEF Sessions
    <2> QED
      BY <1>2, <2>1, <2>2 DEF Now
  <1>3. ASSUME NEW p \in Pc, sess' = [sess EXCEPT ![c][h].pc = p]
        PROVE  Now(c, h, [sess[c][h] EXCEPT !.pc = p])
    <2>1. sess' = [sess EXCEPT ![c][h] = [sess[c][h] EXCEPT !.pc = p]]
      BY <1>3 DEF Sessions
    <2>2. [sess[c][h] EXCEPT !.pc = p] \in SessionState
      BY <1>1 DEF SessionState
    <2> QED
      BY <1>2, <2>1, <2>2
  <1>4. ASSUME NEW p \in Pc, NEW x \in Msg \cup {None},
               sess' = [sess EXCEPT ![c][h].pc = p, ![c][h].hand = x]
        PROVE  Now(c, h, [sess[c][h] EXCEPT !.pc = p, !.hand = x])
    <2>1. sess' = [sess EXCEPT ![c][h] = [sess[c][h] EXCEPT !.pc = p, !.hand = x]]
      BY <1>4 DEF Sessions
    <2>2. [sess[c][h] EXCEPT !.pc = p, !.hand = x] \in SessionState
      BY <1>1 DEF SessionState
    <2> QED
      BY <1>2, <2>1, <2>2
  <1>5. ASSUME NEW p \in Pc, NEW m \in Msg,
               sess' = [sess EXCEPT ![c][h].pc = p, ![c][h].in_flight = @ \cup {m}]
        PROVE  Now(c, h, [sess[c][h] EXCEPT !.pc = p, !.in_flight = @ \cup {m}])
    <2>1. sess' = [sess EXCEPT ![c][h] =
                     [sess[c][h] EXCEPT !.pc = p, !.in_flight = @ \cup {m}]]
      BY <1>5 DEF Sessions
    <2>2. [sess[c][h] EXCEPT !.pc = p, !.in_flight = @ \cup {m}] \in SessionState
      BY <1>1 DEF SessionState
    <2> QED
      BY <1>2, <2>1, <2>2
  <1>6. ASSUME NEW m \in Msg, sess' = [sess EXCEPT ![c][h].in_flight = @ \ {m}]
        PROVE  Now(c, h, [sess[c][h] EXCEPT !.in_flight = @ \ {m}])
    <2>1. sess' = [sess EXCEPT ![c][h] = [sess[c][h] EXCEPT !.in_flight = @ \ {m}]]
      BY <1>6 DEF Sessions
    <2>2. [sess[c][h] EXCEPT !.in_flight = @ \ {m}] \in SessionState
      BY <1>1 DEF SessionState
    <2> QED
      BY <1>2, <2>1, <2>2
  <1>7. ASSUME NEW m \in Msg, sess' = [sess EXCEPT ![c][h].cancels_sent = @ \cup {m}]
        PROVE  Now(c, h, [sess[c][h] EXCEPT !.cancels_sent = @ \cup {m}])
    <2>1. sess' = [sess EXCEPT ![c][h] = [sess[c][h] EXCEPT !.cancels_sent = @ \cup {m}]]
      BY <1>7 DEF Sessions
    <2>2. [sess[c][h] EXCEPT !.cancels_sent = @ \cup {m}] \in SessionState
      BY <1>1 DEF SessionState
    <2> QED
      BY <1>2, <2>1, <2>2
  <1> QED
    BY <1>2, <1>3, <1>4, <1>5, <1>6, <1>7

\* The message in the hand of a session is there, and on its way to or from
\* this end.
Hands ==
    \A c \in Conn, h \in Host :
        /\ sess[c][h].pc \in {"ingest", "retire"}
                => /\ sess[c][h].hand \in Msg /\ Dest(sess[c][h].hand) = h
                   /\ mail[Home[sess[c][h].hand]][sess[c][h].hand] # "absent"
        /\ sess[c][h].pc = "retire"
                => sess[c][h].hand \in Response /\ copies[sess[c][h].hand] > 0
        /\ sess[c][h].pc = "fail"
                => sess[c][h].hand \in Msg /\ Home[sess[c][h].hand] = h

LEMMA RequeueType ==
    ASSUME TypeOK, NEW s, NEW running, RequeueClaims(s, running)
    PROVE  mail' \in Mails /\ owner' \in Owners /\ resent' \subseteq Msg
  <1>1. mail' \in Mails
    BY DEF RequeueClaims, TypeOK, Mails, State, Pending
  <1>2. owner' \in Owners
    BY DEF RequeueClaims, TypeOK, Owners
  <1>3. resent' \subseteq Msg
    BY DEF RequeueClaims, TypeOK, ClaimsOf
  <1> QED
    BY <1>1, <1>2, <1>3

LEMMA TakeLeaseType ==
    ASSUME TypeOK, NEW c \in Conn, NEW h \in Host, TakeLease(c, h)
    PROVE  mail' \in Mails /\ owner' \in Owners /\ resent' \subseteq Msg /\ lease' \in Leases
  <1>1. lease' \in Leases
    BY DEF TakeLease, TypeOK, Leases, Session
  <1>2. CASE HeldByOther(<<c, h>>, h)
    BY <1>1, <1>2, RequeueType DEF TakeLease
  <1>3. CASE ~HeldByOther(<<c, h>>, h)
    BY <1>1, <1>3 DEF TakeLease, TypeOK, Mails, Owners
  <1> QED
    BY <1>2, <1>3

LEMMA ReleaseLeaseType ==
    ASSUME TypeOK, NEW c \in Conn, NEW h \in Host, ReleaseLease(c, h)
    PROVE  mail' \in Mails /\ owner' \in Owners /\ resent' \subseteq Msg /\ lease' \in Leases
  <1>1. CASE lease[h].owner = <<c, h>>
    <2>1. lease' \in Leases
      BY <1>1 DEF ReleaseLease, TypeOK, Leases
    <2> QED
      BY <1>1, <2>1, RequeueType DEF ReleaseLease
  <1>2. CASE lease[h].owner # <<c, h>>
    BY <1>2 DEF ReleaseLease, TypeOK, Mails, Owners, Leases
  <1> QED
    BY <1>1, <1>2

LEMMA HangupType ==
    ASSUME TypeOK, NEW c \in Conn, NEW h \in Host, Hangup(c, h)
    PROVE  sess' \in Sessions /\ up' \in [Conn -> BOOLEAN] /\ wire' \in Wires
  <1>1. Ended \in SessionState
    BY DEF Ended, NoSession, SessionState, Pc
  <1>2. sess' \in Sessions
    BY <1>1 DEF Hangup, TypeOK, Sessions
  <1>3. up' \in [Conn -> BOOLEAN]
    BY DEF Hangup, TypeOK
  <1>4. wire' \in Wires
    BY HangupLoses DEF TypeOK, Wires
  <1> QED
    BY <1>2, <1>3, <1>4

LEMMA SettleType ==
    ASSUME TypeOK, NEW c \in Conn, NEW h \in Host, NEW m \in Msg, NEW state \in State,
           Settle(c, h, m, state)
    PROVE  mail' \in Mails /\ owner' \in Owners
  <1>1. mail \in Mails
    BY DEF TypeOK, Mails
  <1>2. mail' \in Mails
    BY <1>1, MailSet DEF Settle
  <1>3. owner' \in Owners
    BY DEF TypeOK, Settle, Owners
  <1> QED
    BY <1>2, <1>3

LEMMA HandledType ==
    ASSUME TypeOK, NEW c \in Conn, NEW h \in Host, sess[c][h].hand \in Msg,
           NEW type \in {"deliver", "accepted", "refused", "cancel"}, Handled(c, h, type)
    PROVE  sess' \in Sessions /\ wire' \in Wires
  <1>1. [type |-> type, m |-> sess[c][h].hand] \in Frame
    BY DEF Frame
  <1>2. wire' \in Wires
    BY <1>1, WrittenAdds DEF Handled, TypeOK, Wires
  <1>3. sess' \in Sessions
    BY SessionNow DEF Handled, TypeOK, Sessions, Now, Pc
  <1> QED
    BY <1>2, <1>3

\* What each step writes has its type; mail is the only variable to watch when
\* an agent moves.
LEMMA TypeStep ==
    ASSUME TypeOK, Hands, [Next]_vars
    PROVE  TypeOK'
  <1> USE DEF history, linkVars
  <1> DEFINE NewType ==
        /\ mail' \in Mails /\ owner' \in Owners /\ copies' \in [Msg -> Nat]
        /\ lease' \in Leases /\ sess' \in Sessions /\ wire' \in Wires
        /\ up' \in [Conn -> BOOLEAN] /\ confirmed' \subseteq Msg /\ resent' \subseteq Msg
  <1>0. SUFFICES NewType
    BY DEF TypeOK, Mails, Owners, Leases, Sessions, Wires
  <1>t. /\ mail \in Mails /\ owner \in Owners /\ copies \in [Msg -> Nat]
        /\ lease \in Leases /\ sess \in Sessions /\ wire \in Wires
        /\ up \in [Conn -> BOOLEAN] /\ confirmed \subseteq Msg /\ resent \subseteq Msg
    BY DEF TypeOK, Mails, Owners, Leases, Sessions, Wires
  <1>1. ASSUME NEW m \in Msg,
               LocalSend(m) \/ LocalCancel(m) \/ Receive(m) \/ ReceiptLapses(m)
               \/ Respond(m) \/ ConfirmStop(m) \/ (\E h \in Host : Expire(h, m))
        PROVE  NewType
    <2>1. CASE Respond(m)
      BY <1>t, <2>1, AnswerEnds, Ends DEF Respond, Mails, State, Pending, Terminal
    <2>2. CASE LocalSend(m) \/ LocalCancel(m)
      <3>1. PICK s \in State : mail' = [mail EXCEPT ![Home[m]][m] = s]
        BY <2>2, <1>t, Ends
           DEF LocalSend, LocalCancel, Cancelled, Mails, State, Pending, Terminal
      <3>2. mail' \in Mails
        BY <3>1, <1>t, Ends, MailSet
      <3> QED
        BY <2>2, <3>2, <1>t DEF LocalSend, LocalCancel
    <2>3. CASE Receive(m) \/ ReceiptLapses(m) \/ ConfirmStop(m)
      <3>1. PICK s \in State : mail' = [mail EXCEPT ![Dest(m)][m] = s]
        BY <2>3 DEF Receive, ReceiptLapses, ConfirmStop, State, Pending, Terminal
      <3>2. mail' \in Mails
        BY <3>1, <1>t, Ends, MailSet
      <3> QED
        BY <2>3, <3>2, <1>t DEF Receive, ReceiptLapses, ConfirmStop
    <2>4. ASSUME NEW h \in Host, Expire(h, m) PROVE NewType
      BY <2>4, <1>t, MailSet DEF Expire, State, Terminal
    <2> QED
      BY <1>1, <2>1, <2>2, <2>3, <2>4
  <1>2. ASSUME NEW m \in Msg, ClaimLapses(m) PROVE NewType
    BY <1>2, <1>t, Ends DEF ClaimLapses, Mails, Owners, State, Pending
  <1>3. ASSUME NEW h \in Host, LeaseLapses(h) PROVE NewType
    <2>1. lease[h] \in [owner : Session, live : BOOLEAN]
      BY <1>3, <1>t DEF LeaseLapses, Leases, NoLease
    <2>2. lease' \in Leases
      BY <1>3, <1>t, <2>1 DEF LeaseLapses, Leases
    <2> QED
      BY <1>3, <1>t, <2>2 DEF LeaseLapses
  <1>4. ASSUME NEW c \in Conn, Connect(c) PROVE NewType
    <2>1. [NoSession EXCEPT !.pc = "hello"] \in SessionState
      BY DEF NoSession, SessionState, Pc
    <2> QED
      BY <1>4, <1>t, <2>1 DEF Connect, Sessions
  <1>5. ASSUME NEW c \in Conn, Break(c) PROVE NewType
    BY <1>5, <1>t, BreakLoses DEF Break
  <1>6. ASSUME NEW c \in Conn, NEW h \in Host, Acquire(c, h) PROVE NewType
    <2>1. CASE TakeLease(c, h) /\ sess' = [sess EXCEPT ![c][h].pc = "pump"] /\ UNCHANGED <<wire, up>>
      BY <1>6, <1>t, <2>1, TakeLeaseType, SessionNow DEF Acquire, Now, Pc
    <2>2. CASE Hangup(c, h) /\ UNCHANGED <<mail, owner, lease, resent>>
      BY <1>6, <1>t, <2>2, HangupType DEF Acquire
    <2> QED
      BY <1>6, <2>1, <2>2 DEF Acquire
  <1>7. ASSUME NEW c \in Conn, NEW h \in Host, Renew(c, h) PROVE NewType
    BY <1>7, <1>t, TakeLeaseType, ReleaseLeaseType, HangupType DEF Renew, Finish
  <1>8. ASSUME NEW c \in Conn, NEW h \in Host, Stop(c, h) PROVE NewType
    BY <1>8, <1>t, ReleaseLeaseType, HangupType DEF Stop, Finish
  <1>9. ASSUME NEW c \in Conn, NEW h \in Host, Die(c, h) PROVE NewType
    BY <1>9, <1>t, HangupType DEF Die
  <1>10. ASSUME NEW c \in Conn, NEW h \in Host, ForwardCheck(c, h) \/ ForwardNothing(c, h)
         PROVE NewType
    <2>1. ASSUME NEW p \in Pc, sess' = [sess EXCEPT ![c][h].pc = p]
          PROVE  sess' \in Sessions
      BY <1>t, <2>1, SessionNow DEF Now
    <2>2. sess' \in Sessions
      BY <1>10, <2>1 DEF ForwardCheck, ForwardNothing, Pc
    <2> QED
      BY <1>10, <1>t, <2>2 DEF ForwardCheck, ForwardNothing
  <1>11. ASSUME NEW c \in Conn, NEW h \in Host, NEW m \in Msg, Forward(c, h, m) PROVE NewType
    <2>1. [type |-> "deliver", m |-> m] \in Frame
      BY DEF Frame
    <2>2. wire' \in Wires
      BY <1>11, <1>t, <2>1, WrittenAdds DEF Forward
    <2>3. sess' \in Sessions
      <3>1. CASE sess' = [sess EXCEPT ![c][h].pc = "fail", ![c][h].hand = m]
        BY <1>t, <3>1, SessionNow DEF Now, Pc
      <3>2. CASE sess' = [sess EXCEPT ![c][h].pc = "pump", ![c][h].in_flight = @ \cup {m}]
        BY <1>t, <3>2, SessionNow DEF Now, Pc
      <3> QED
        BY <1>11, <3>1, <3>2 DEF Forward
    <2> QED
      BY <1>11, <1>t, <2>2, <2>3
         DEF Forward, Mails, Owners, Session, State, Pending
  <1>12. ASSUME NEW c \in Conn, NEW h \in Host, ForwardFailed(c, h) PROVE NewType
    <2>1. CASE HoldsLease(c, h)
      <3>1. sess[c][h].hand \in Msg
        BY <1>12 DEF Hands, ForwardFailed
      <3>2. mail' \in Mails /\ owner' \in Owners
        BY <1>12, <2>1, <3>1, SettleType DEF ForwardFailed, State, Terminal
      <3> QED
        BY <1>12, <1>t, <2>1, <3>2, SessionNow DEF ForwardFailed, Now, Pc
    <2>2. CASE ~HoldsLease(c, h)
      BY <1>12, <1>t, <2>2, ReleaseLeaseType, HangupType DEF ForwardFailed, Finish
    <2> QED
      BY <2>1, <2>2
  <1>13. ASSUME NEW c \in Conn, NEW h \in Host, NEW m \in Msg, ForwardCancel(c, h, m)
         PROVE NewType
    <2>1. [type |-> "cancel", m |-> m] \in Frame
      BY DEF Frame
    <2>2. wire' \in Wires
      BY <1>13, <1>t, <2>1, WrittenAdds DEF ForwardCancel
    <2> QED
      BY <1>13, <1>t, <2>2, SessionNow DEF ForwardCancel, Now
  <1>14. ASSUME NEW c \in Conn, NEW h \in Host, LostLease(c, h) PROVE NewType
    BY <1>14, <1>t, ReleaseLeaseType, HangupType DEF LostLease, Finish
  <1>15. ASSUME NEW c \in Conn, NEW h \in Host, IngestCheck(c, h) PROVE NewType
    <2>1. HeadMsg(c, h) \in Msg /\ wire' \in Wires
      BY <1>15, <1>t, PoppedLoses DEF IngestCheck, HeadIs, HeadMsg, Frame
    <2> QED
      BY <1>15, <1>t, <2>1, SessionNow DEF IngestCheck, Now, Pc
  <1>16. ASSUME NEW c \in Conn, NEW h \in Host,
                IngestReplay(c, h) \/ IngestRefuse(c, h) \/ Ingest(c, h) \/ RetireRequest(c, h)
         PROVE NewType
    <2>1. sess[c][h].hand \in Msg
      BY <1>16 DEF Hands, IngestReplay, IngestRefuse, Ingest, RetireRequest
    <2>2. sess' \in Sessions /\ wire' \in Wires
      BY <1>16, <2>1, HandledType DEF IngestReplay, IngestRefuse, Ingest, RetireRequest
    <2>3. CASE IngestReplay(c, h) \/ IngestRefuse(c, h)
      BY <1>t, <2>2, <2>3 DEF IngestReplay, IngestRefuse
    <2>4. CASE Ingest(c, h)
      BY <1>t, <2>1, <2>2, <2>4 DEF Ingest, Mails, State, Pending
    <2>5. CASE RetireRequest(c, h)
      <3>1. ReplyTo[sess[c][h].hand] \in Msg
        BY <2>5, AnswerEnds DEF RetireRequest, Hands
      <3> QED
        BY <1>t, <2>2, <2>5, <3>1 DEF RetireRequest, Mails, Owners, State, Terminal
    <2> QED
      BY <1>16, <2>3, <2>4, <2>5
  <1>17. ASSUME NEW c \in Conn, NEW h \in Host, IngestResponse(c, h) PROVE NewType
    <2>1. sess[c][h].hand \in Msg
      BY <1>17 DEF Hands, IngestResponse
    <2>2. sess' \in Sessions
      BY <1>17, <1>t, SessionNow DEF IngestResponse, Now, Pc
    <2>3. mail' \in Mails
      BY <1>17, <1>t, <2>1, MailSet DEF IngestResponse, State, Pending
    <2>4. copies' \in [Msg -> Nat]
      BY <1>17, <1>t, <2>1 DEF IngestResponse
    <2> QED
      BY <1>17, <1>t, <2>2, <2>3, <2>4 DEF IngestResponse
  <1>18. ASSUME NEW c \in Conn, NEW h \in Host, Receipt(c, h) PROVE NewType
    <2>1. HeadMsg(c, h) \in Msg /\ wire' \in Wires
      BY <1>18, <1>t, PoppedLoses DEF Receipt, HeadIs, HeadMsg, Frame
    <2>2. mail' \in Mails /\ owner' \in Owners
      BY <1>18, <1>t, <2>1, SettleType DEF Receipt, State, Pending, Terminal
    <2> QED
      BY <1>18, <1>t, <2>1, <2>2, SessionNow DEF Receipt, Now
  <1>19. ASSUME NEW c \in Conn, NEW h \in Host, HandleCancel(c, h) PROVE NewType
    <2> DEFINE m == HeadMsg(c, h)
               state == IF copies[m] > 0 THEN Cancelled(mail[h][m]) ELSE "cancelled"
    <2>1. m \in Msg /\ Popped(c, h) \in Wires
      BY <1>19, <1>t, PoppedLoses DEF HandleCancel, HeadIs, HeadMsg, Frame
    <2>2. state \in State
      BY <1>t, <2>1 DEF Cancelled, Mails, State, Pending, Terminal
    <2>3. [type |-> "cancel_state", m |-> m, state |-> state] \in Frame
      BY <2>1, <2>2 DEF Frame
    <2>4. wire' \in Wires
      BY <1>19, <2>1, <2>3, WrittenAdds DEF HandleCancel
    <2>5. mail' \in Mails
      BY <1>19, <1>t, <2>1, <2>2 DEF HandleCancel, Mails
    <2> QED
      BY <1>19, <1>t, <2>4, <2>5 DEF HandleCancel
  <1>20. ASSUME NEW c \in Conn, NEW h \in Host, HandleCancelState(c, h) PROVE NewType
    <2>1. HeadMsg(c, h) \in Msg /\ wire' \in Wires
      BY <1>20, <1>t, PoppedLoses DEF HandleCancelState, HeadIs, HeadMsg, Frame
    <2>2. "cancelled" \in State
      BY DEF State, Terminal
    <2>3. mail' \in Mails
      BY <1>20, <1>t, <2>1, <2>2, MailSet DEF HandleCancelState
    <2>4. owner' \in Owners
      BY <1>20, <1>t DEF HandleCancelState, Owners
    <2>5. confirmed' \subseteq Msg
      BY <1>20, <1>t, <2>1 DEF HandleCancelState
    <2> QED
      BY <1>20, <1>t, <2>1, <2>3, <2>4, <2>5 DEF HandleCancelState
  <1>21. CASE UNCHANGED vars
    BY <1>21, <1>t DEF vars
  <1> QED
    BY <1>1, <1>2, <1>3, <1>4, <1>5, <1>6, <1>7, <1>8, <1>9, <1>10, <1>11, <1>12, <1>13,
       <1>14, <1>15, <1>16, <1>17, <1>18, <1>19, <1>20, <1>21 DEF Next

-----------------------------------------------------------------------------
(***************************************************************************)
(* Rows, frames and hands                                                   *)
(***************************************************************************)

\* A frame is on its way to the end that it is for, a delivery is of a message
\* that was sent and a receipt of one that was committed.
FramesSound ==
    \A c \in Conn, h \in Host : \A f \in Frames(wire[c][h]) :
        /\ f.m \in Msg
        /\ f.type = "deliver" => Dest(f.m) = h /\ mail[Home[f.m]][f.m] # "absent"
        /\ f.type = "cancel" => Dest(f.m) = h
        /\ f.type \in {"accepted", "refused", "cancel_state"} => Home[f.m] = h
        /\ f.type = "accepted" => copies[f.m] > 0

\* copies counts the row of the receiving store, and a message is there only
\* when it is at home.
Rows ==
    \A m \in Msg :
        /\ copies[m] \in {0, 1}
        /\ copies[m] = 0 <=> mail[Dest(m)][m] = "absent"
        /\ copies[m] = 1 => mail[Home[m]][m] # "absent"

\* A request has at most one answer, which retired it where it was worked on.
Answers ==
    \A r \in Response :
        mail[Home[r]][r] # "absent"
            => /\ mail[Home[r]][ReplyTo[r]] = "consumed"
               /\ \A q \in Response :
                    ReplyTo[q] = ReplyTo[r] /\ mail[Home[q]][q] # "absent" => q = r

Sound == TypeOK /\ Hands /\ FramesSound /\ Rows /\ Answers /\ ReceiptMeansCommit

\* What a step may do to the rows.
RowsForward ==
    \A h \in Host, m \in Msg :
        /\ mail[h][m] # "absent" => mail'[h][m] # "absent"
        /\ mail[h][m] \in Terminal => mail'[h][m] = mail[h][m]

NewCopies ==
    \A m \in Msg : copies'[m] # copies[m]
        => /\ copies[m] = 0 /\ copies'[m] = 1 /\ mail[Home[m]][m] # "absent"
           /\ mail'[Dest(m)][m] # "absent"

NewRows ==
    \A h \in Host, m \in Msg : mail[h][m] = "absent" /\ mail'[h][m] # "absent"
        => \/ h = Dest(m) /\ copies'[m] = 1
           \/ h = Home[m] /\ m \notin Response
           \/ /\ h = Home[m] /\ m \in Response
              /\ mail[h][ReplyTo[m]] \in Pending /\ mail'[h][ReplyTo[m]] = "consumed"
              /\ \A q \in Msg : q # m => (mail'[Home[q]][q] = "absent" <=> mail[Home[q]][q] = "absent")

NewReceipts ==
    \A m \in Msg : mail'[Home[m]][m] # mail[Home[m]][m]
        => /\ mail'[Home[m]][m] = "delivered" => copies[m] > 0
           /\ mail'[Home[m]][m] = "consumed" =>
                IF m \in Request THEN \E r \in Response : ReplyTo[r] = m /\ copies[r] > 0
                                 ELSE copies[m] > 0

RowsMove == RowsForward /\ NewCopies /\ NewRows /\ NewReceipts

\* Steps that write one row that is there already.
LEMMA OneRowMoves ==
    ASSUME TypeOK, NEW h \in Host, NEW m \in Msg, NEW s \in State,
           mail' = [mail EXCEPT ![h][m] = s], copies' = copies,
           mail[h][m] \in Pending \/ s = mail[h][m], s # "absent",
           h = Home[m] => s \notin {"delivered", "consumed"}
    PROVE  RowsMove
  <1>1. \A g \in Host, n \in Msg : mail'[g][n] = IF g = h /\ n = m THEN s ELSE mail[g][n]
    BY MailSet DEF TypeOK, Mails
  <1>2. Home[m] \in Host
    BY Ends
  <1>3. RowsForward
    BY <1>1 DEF RowsForward, Terminal, Pending
  <1>4. NewCopies /\ NewRows
    BY <1>1 DEF NewCopies, NewRows, Pending
  <1>5. NewReceipts
    BY <1>1, Ends DEF NewReceipts
  <1> QED
    BY <1>3, <1>4, <1>5 DEF RowsMove

LEMMA NoRowMoves ==
    ASSUME UNCHANGED mail, UNCHANGED copies
    PROVE  RowsMove
  BY DEF RowsMove, RowsForward, NewCopies, NewRows, NewReceipts

LEMMA RequeueMoves ==
    ASSUME TypeOK, NEW s, NEW running, RequeueClaims(s, running), UNCHANGED copies
    PROVE  RowsMove
  <1>1. \A g \in Host, n \in Msg :
            mail'[g][n] = mail[g][n] \/ (mail[g][n] = "claimed" /\ mail'[g][n] = "queued")
    BY DEF RequeueClaims, ClaimsOf, TypeOK
  <1>2. RowsForward
    BY <1>1 DEF RowsForward, Terminal
  <1>3. NewCopies /\ NewRows
    BY <1>1 DEF NewCopies, NewRows
  <1>4. NewReceipts
    BY <1>1, Ends DEF NewReceipts
  <1> QED
    BY <1>2, <1>3, <1>4 DEF RowsMove

LEMMA RowsStep ==
    ASSUME Sound, [Next]_vars
    PROVE  RowsMove
  <1> USE DEF history, linkVars
  <1>t. TypeOK /\ mail \in Mails
    BY DEF Sound, TypeOK, Mails
  <1>1. ASSUME NEW m \in Msg, LocalSend(m) PROVE RowsMove
    <2>1. \A g \in Host, n \in Msg :
            mail'[g][n] = IF g = Home[m] /\ n = m THEN "queued" ELSE mail[g][n]
      BY <1>1, <1>t, Ends, MailSet DEF LocalSend, State, Pending
    <2> QED
      BY <1>1, <2>1, Ends, MsgAssumption
         DEF LocalSend, RowsMove, RowsForward, NewCopies, NewRows, NewReceipts, Terminal
  <1>2. ASSUME NEW m \in Msg, LocalCancel(m) PROVE RowsMove
    <2>1. PICK s \in {"cancelled", "cancellation_requested"} :
            mail' = [mail EXCEPT ![Home[m]][m] = s]
      BY <1>2, <1>t, Ends DEF LocalCancel, Cancelled, Mails
    <2>2. mail[Home[m]][m] \in Pending /\ copies' = copies
      BY <1>2 DEF LocalCancel, Pending
    <2> QED
      BY <1>t, <2>1, <2>2, Ends, OneRowMoves DEF State, Pending, Terminal
  <1>3. ASSUME NEW m \in Msg, Receive(m) \/ ReceiptLapses(m) \/ ConfirmStop(m) PROVE RowsMove
    <2>1. PICK s \in {"consumed", "claimed", "queued", "cancelled"} :
            mail' = [mail EXCEPT ![Dest(m)][m] = s]
      BY <1>3 DEF Receive, ReceiptLapses, ConfirmStop
    <2>2. mail[Dest(m)][m] \in Pending /\ copies' = copies
      BY <1>3 DEF Receive, ReceiptLapses, ConfirmStop, Pending
    <2> QED
      BY <1>t, <2>1, <2>2, Ends, OneRowMoves DEF State, Pending, Terminal
  <1>4. ASSUME NEW m \in Msg, Respond(m) PROVE RowsMove
    <2> DEFINE q == ReplyTo[m]
    <2>1. m \in Response /\ q \in Request /\ q \in Msg /\ Home[m] = Dest(q) /\ Home[m] \in Host
          /\ q # m /\ Dest(q) # Home[q] /\ Home[q] \in Host
      BY <1>4, AnswerEnds, Ends, MsgAssumption DEF Respond
    <2>2. \A g \in Host, n \in Msg :
            mail'[g][n] = IF g = Home[m] /\ n = m THEN "queued"
                          ELSE IF g = Home[m] /\ n = q THEN "consumed" ELSE mail[g][n]
      BY <1>4, <1>t, <2>1 DEF Respond, Mails
    <2>3. copies' = copies /\ mail[Home[m]][m] = "absent" /\ mail[Home[m]][q] \in Pending
      BY <1>4 DEF Respond
    <2>4. RowsForward /\ NewCopies
      BY <2>1, <2>2, <2>3 DEF RowsForward, NewCopies, Pending, Terminal
    <2>5. NewRows
      BY <2>1, <2>2, <2>3, Ends DEF NewRows, Pending
    <2>6. NewReceipts
      BY <2>1, <2>2, <2>3, Ends DEF NewReceipts
    <2> QED
      BY <2>4, <2>5, <2>6 DEF RowsMove
  <1>5. ASSUME NEW h \in Host, NEW m \in Msg, Expire(h, m) PROVE RowsMove
    BY <1>5, <1>t, OneRowMoves DEF Expire, State, Pending, Terminal
  <1>6. ASSUME NEW m \in Msg, ClaimLapses(m) PROVE RowsMove
    BY <1>6, <1>t, Ends, OneRowMoves DEF ClaimLapses, State, Pending
  <1>7. ASSUME NEW c \in Conn, NEW h \in Host, TakeLease(c, h), UNCHANGED copies PROVE RowsMove
    BY <1>7, <1>t, NoRowMoves, RequeueMoves DEF TakeLease
  <1>8. ASSUME NEW c \in Conn, NEW h \in Host, ReleaseLease(c, h), UNCHANGED copies PROVE RowsMove
    BY <1>8, <1>t, NoRowMoves, RequeueMoves DEF ReleaseLease
  <1>9. ASSUME NEW c \in Conn, NEW h \in Host,
               Acquire(c, h) \/ Renew(c, h) \/ Stop(c, h) \/ LostLease(c, h)
        PROVE  RowsMove
    BY <1>7, <1>8, <1>9, NoRowMoves DEF Acquire, Renew, Stop, LostLease, Finish
  <1>10. ASSUME NEW c \in Conn, NEW h \in Host, NEW m \in Msg, Forward(c, h, m) PROVE RowsMove
    BY <1>10, <1>t, OneRowMoves DEF Forward, State, Pending
  <1>11. ASSUME NEW c \in Conn, NEW h \in Host, ForwardFailed(c, h) PROVE RowsMove
    <2>1. CASE HoldsLease(c, h)
      <3>1. sess[c][h].hand \in Msg
        BY <1>11 DEF Sound, Hands, ForwardFailed
      <3>2. PICK s \in {"undeliverable", "too_late"} : Settle(c, h, sess[c][h].hand, s)
        BY <1>11, <2>1 DEF ForwardFailed
      <3> QED
        BY <1>11, <1>t, <3>1, <3>2, OneRowMoves, NoRowMoves
           DEF ForwardFailed, Settle, State, Pending, Terminal
    <2>2. CASE ~HoldsLease(c, h)
      BY <1>8, <1>11, <2>2 DEF ForwardFailed, Finish
    <2> QED
      BY <2>1, <2>2
  <1>12. ASSUME NEW c \in Conn, NEW h \in Host, Ingest(c, h) \/ IngestResponse(c, h) PROVE RowsMove
    <2> DEFINE m == sess[c][h].hand
    <2>1. m \in Msg /\ Dest(m) = h /\ mail[Home[m]][m] # "absent"
      BY <1>12 DEF Sound, Hands, Ingest, IngestResponse
    <2>2. /\ copies[m] = 0 /\ copies' = [copies EXCEPT ![m] = @ + 1]
          /\ mail' = [mail EXCEPT ![h][m] = "queued"]
      BY <1>12 DEF Ingest, IngestResponse
    <2>3. \A g \in Host, n \in Msg :
            mail'[g][n] = IF g = h /\ n = m THEN "queued" ELSE mail[g][n]
      BY <1>t, <2>1, <2>2, MailSet DEF State, Pending
    <2>4. \A n \in Msg : copies'[n] = IF n = m THEN 1 ELSE copies[n]
      BY <1>t, <2>1, <2>2 DEF TypeOK
    <2>5. mail[h][m] = "absent"
      BY <2>1, <2>2 DEF Sound, Rows
    <2>6. RowsForward /\ NewCopies
      BY <2>1, <2>2, <2>3, <2>4, <2>5 DEF RowsForward, NewCopies, Terminal
    <2>7. NewRows /\ NewReceipts
      BY <2>1, <2>3, <2>4, Ends DEF NewRows, NewReceipts
    <2> QED
      BY <2>6, <2>7 DEF RowsMove
  <1>13. ASSUME NEW c \in Conn, NEW h \in Host, RetireRequest(c, h) PROVE RowsMove
    <2> DEFINE r == sess[c][h].hand
    <2>1. r \in Response /\ copies[r] > 0 /\ Dest(r) = h
      BY <1>13 DEF Sound, Hands, RetireRequest
    <2>2. ReplyTo[r] \in Request /\ ReplyTo[r] \in Msg /\ Home[ReplyTo[r]] = h
      BY <2>1, AnswerEnds
    <2>3. CASE mail[h][ReplyTo[r]] \in Pending
      <3>0. mail' = [mail EXCEPT ![h][ReplyTo[r]] = "consumed"]
        BY <1>13, <2>3 DEF RetireRequest
      <3>1. \A g \in Host, n \in Msg :
                mail'[g][n] = IF g = h /\ n = ReplyTo[r] THEN "consumed" ELSE mail[g][n]
        BY <1>t, <2>2, <3>0, MailSet DEF State, Terminal
      <3>2. RowsForward /\ NewCopies /\ NewRows
        BY <1>13, <2>3, <3>1
           DEF RetireRequest, RowsForward, NewCopies, NewRows, Pending, Terminal
      <3>3. NewReceipts
        BY <2>1, <2>2, <3>1, Ends DEF NewReceipts
      <3> QED
        BY <3>2, <3>3 DEF RowsMove
    <2>4. CASE mail[h][ReplyTo[r]] \notin Pending
      BY <1>13, <2>4, NoRowMoves DEF RetireRequest
    <2> QED
      BY <2>3, <2>4
  <1>14. ASSUME NEW c \in Conn, NEW h \in Host, Receipt(c, h) PROVE RowsMove
    <2> DEFINE m == HeadMsg(c, h)
               s == IF HeadIs(c, h, "refused") THEN "undeliverable"
                    ELSE IF m \in Request THEN "delivered" ELSE "consumed"
    <2>1. Head(wire[c][h]) \in Frames(wire[c][h]) /\ wire[c][h] # << >>
      BY <1>14, <1>t, PoppedLoses DEF Receipt, HeadIs, TypeOK, Wires
    <2>2. m \in Msg /\ (Head(wire[c][h]).type = "accepted" => copies[m] > 0)
      BY <2>1 DEF Sound, FramesSound, HeadMsg
    <2>3. copies' = copies
      BY <1>14 DEF Receipt
    <2>4. CASE UNCHANGED mail
      BY <2>3, <2>4, NoRowMoves
    <2>5. CASE mail[h][m] = "claimed" /\ mail' = [mail EXCEPT ![h][m] = s]
      <3>0. s \in State
        BY DEF State, Pending, Terminal
      <3>1. \A g \in Host, n \in Msg : mail'[g][n] = IF g = h /\ n = m THEN s ELSE mail[g][n]
        BY <1>t, <2>2, <2>5, <3>0, MailSet
      <3>2. HeadIs(c, h, "refused") \/ copies[m] > 0
        BY <1>14, <2>1, <2>2 DEF Receipt, HeadIs
      <3>3. RowsForward /\ NewCopies /\ NewRows
        BY <2>3, <2>5, <3>1 DEF RowsForward, NewCopies, NewRows, Terminal
      <3>4. NewReceipts
        BY <2>2, <3>1, <3>2, Ends DEF NewReceipts
      <3> QED
        BY <3>3, <3>4 DEF RowsMove
    <2> QED
      BY <1>14, <2>4, <2>5 DEF Receipt, Settle
  <1>15. ASSUME NEW c \in Conn, NEW h \in Host, HandleCancel(c, h) PROVE RowsMove
    <2> DEFINE m == HeadMsg(c, h)
    <2>1. Head(wire[c][h]) \in Frames(wire[c][h]) /\ Head(wire[c][h]).type = "cancel"
      BY <1>15, <1>t, PoppedLoses DEF HandleCancel, HeadIs, TypeOK, Wires
    <2>2. m \in Msg /\ Dest(m) = h
      BY <2>1 DEF Sound, FramesSound, HeadMsg
    <2>3. CASE copies[m] > 0
      <3>1. mail' = [mail EXCEPT ![h][m] = Cancelled(mail[h][m])] /\ copies' = copies
        BY <1>15, <2>3 DEF HandleCancel
      <3>2. mail[h][m] # "absent" /\ mail[h][m] \in State
        BY <1>t, <2>2, <2>3 DEF Sound, Rows, Mails
      <3>3. /\ Cancelled(mail[h][m]) \in State /\ Cancelled(mail[h][m]) # "absent"
            /\ mail[h][m] \in Pending \/ Cancelled(mail[h][m]) = mail[h][m]
        BY <3>2 DEF Cancelled, State, Pending, Terminal
      <3>4. h # Home[m]
        BY <2>2, Ends
      <3> QED
        BY <1>t, <2>2, <3>1, <3>3, <3>4, OneRowMoves
    <2>4. CASE ~(copies[m] > 0)
      BY <1>15, <2>4, NoRowMoves DEF HandleCancel
    <2> QED
      BY <2>3, <2>4
  <1>16. ASSUME NEW c \in Conn, NEW h \in Host, HandleCancelState(c, h) PROVE RowsMove
    <2>1. HeadMsg(c, h) \in Msg
      BY <1>16, <1>t, PoppedLoses DEF HandleCancelState, HeadIs, HeadMsg, TypeOK, Wires, Frame
    <2> QED
      BY <1>16, <1>t, <2>1, OneRowMoves, NoRowMoves
         DEF HandleCancelState, State, Pending, Terminal
  <1>17. ASSUME UNCHANGED <<mail, copies>> PROVE RowsMove
    BY <1>17, NoRowMoves
  <1>18. CASE UNCHANGED vars
    BY <1>17, <1>18 DEF vars
  <1>19. ASSUME NEW h \in Host, LeaseLapses(h) PROVE RowsMove
    BY <1>17, <1>19 DEF LeaseLapses
  <1>20. ASSUME NEW c \in Conn, Connect(c) \/ Break(c) PROVE RowsMove
    BY <1>17, <1>20 DEF Connect, Break
  <1>21. ASSUME NEW c \in Conn, NEW h \in Host,
                Die(c, h) \/ ForwardCheck(c, h) \/ ForwardNothing(c, h)
                \/ (\E m \in Msg : ForwardCancel(c, h, m))
                \/ IngestCheck(c, h) \/ IngestReplay(c, h) \/ IngestRefuse(c, h)
         PROVE  RowsMove
    BY <1>17, <1>21 DEF Die, ForwardCheck, ForwardNothing, ForwardCancel, IngestCheck,
                        IngestReplay, IngestRefuse
  <1> QED
    BY <1>1, <1>2, <1>3, <1>4, <1>5, <1>6, <1>9, <1>10, <1>11, <1>12, <1>13, <1>14, <1>15,
       <1>16, <1>18, <1>19, <1>20, <1>21 DEF Next

\* Rows only move forward, so what is known of a message in a hand stays true.
LEMMA HandsStep ==
    ASSUME Sound, [Next]_vars
    PROVE  Hands'
  <1> USE DEF history, linkVars
  <1> DEFINE OK(h, s) ==
        /\ s.pc \in {"ingest", "retire"}
                => s.hand \in Msg /\ Dest(s.hand) = h /\ mail'[Home[s.hand]][s.hand] # "absent"
        /\ s.pc = "retire" => s.hand \in Response /\ copies'[s.hand] > 0
        /\ s.pc = "fail" => s.hand \in Msg /\ Home[s.hand] = h
  <1>m. RowsMove
    BY RowsStep
  <1>t. sess \in Sessions /\ copies \in [Msg -> Nat] /\ wire \in Wires
    BY DEF Sound, TypeOK, Sessions, Wires
  <1>r. Response \subseteq Msg
    BY DEF Msg
  <1>o. \A d \in Conn, g \in Host : OK(g, sess[d][g])
    <2> SUFFICES ASSUME NEW d \in Conn, NEW g \in Host PROVE OK(g, sess[d][g])
      OBVIOUS
    <2>1. \A n \in Msg : copies[n] > 0 => copies'[n] > 0
      BY <1>m DEF RowsMove, NewCopies
    <2> QED
      BY <1>m, <1>r, <2>1, Ends DEF Sound, Hands, RowsMove, RowsForward
  <1>s. SUFFICES \A d \in Conn, g \in Host : OK(g, sess'[d][g])
    BY DEF Hands
  <1>1. CASE UNCHANGED sess
    BY <1>1, <1>o
  <1>n. ASSUME NEW c \in Conn, NEW h \in Host, NEW s, Now(c, h, s), OK(h, s)
        PROVE  \A d \in Conn, g \in Host : OK(g, sess'[d][g])
    BY <1>n, <1>o DEF Now
  <1>2. ASSUME NEW c \in Conn, NEW h \in Host, Hangup(c, h)
        PROVE  \A d \in Conn, g \in Host : OK(g, sess'[d][g])
    <2>1. Now(c, h, Ended)
      <3>1. Ended \in SessionState
        BY DEF Ended, NoSession, SessionState, Pc
      <3> QED
        BY <1>2, <1>t, <3>1, SessionNow DEF Hangup
    <2> QED
      BY <2>1, <1>n DEF Ended, NoSession
  <1>3. ASSUME NEW c \in Conn, Connect(c) PROVE \A d \in Conn, g \in Host : OK(g, sess'[d][g])
    <2>1. \A d \in Conn, g \in Host : sess'[d][g] =
            IF d = c THEN [NoSession EXCEPT !.pc = "hello"] ELSE sess[d][g]
      BY <1>3, <1>t DEF Connect, Sessions
    <2> QED
      BY <2>1, <1>o DEF NoSession
  <1>4. ASSUME NEW c \in Conn, NEW h \in Host, NEW p \in {"pump", "claim"},
               sess' = [sess EXCEPT ![c][h].pc = p]
        PROVE  \A d \in Conn, g \in Host : OK(g, sess'[d][g])
    <2>1. Now(c, h, [sess[c][h] EXCEPT !.pc = p])
      BY <1>4, <1>t, SessionNow DEF Pc
    <2>2. [sess[c][h] EXCEPT !.pc = p].pc = p
      BY <1>t DEF Sessions, SessionState
    <2> QED
      BY <2>1, <2>2, <1>n
  <1>5. ASSUME NEW c \in Conn, NEW h \in Host, Acquire(c, h) \/ Renew(c, h) \/ Stop(c, h)
                    \/ Die(c, h) \/ LostLease(c, h)
        PROVE  \A d \in Conn, g \in Host : OK(g, sess'[d][g])
    BY <1>1, <1>2, <1>4, <1>5 DEF Acquire, Renew, Stop, Die, LostLease, Finish
  <1>6. ASSUME NEW c \in Conn, NEW h \in Host, ForwardCheck(c, h) \/ ForwardNothing(c, h)
        PROVE  \A d \in Conn, g \in Host : OK(g, sess'[d][g])
    BY <1>4, <1>6 DEF ForwardCheck, ForwardNothing
  <1>7. ASSUME NEW c \in Conn, NEW h \in Host, NEW m \in Msg, Forward(c, h, m)
        PROVE  \A d \in Conn, g \in Host : OK(g, sess'[d][g])
    <2>1. CASE sess' = [sess EXCEPT ![c][h].pc = "fail", ![c][h].hand = m]
      <3>1. Now(c, h, [sess[c][h] EXCEPT !.pc = "fail", !.hand = m])
        BY <1>t, <2>1, SessionNow DEF Pc
      <3>2. OK(h, [sess[c][h] EXCEPT !.pc = "fail", !.hand = m])
        BY <1>7, <1>t DEF Forward, Sessions, SessionState
      <3> QED
        BY <3>1, <3>2, <1>n
    <2>2. CASE sess' = [sess EXCEPT ![c][h].pc = "pump", ![c][h].in_flight = @ \cup {m}]
      <3>1. Now(c, h, [sess[c][h] EXCEPT !.pc = "pump", !.in_flight = @ \cup {m}])
        BY <1>t, <2>2, SessionNow DEF Pc
      <3>2. OK(h, [sess[c][h] EXCEPT !.pc = "pump", !.in_flight = @ \cup {m}])
        BY <1>t DEF Sessions, SessionState
      <3> QED
        BY <3>1, <3>2, <1>n
    <2> QED
      BY <1>7, <2>1, <2>2 DEF Forward
  <1>8. ASSUME NEW c \in Conn, NEW h \in Host,
               sess' = [sess EXCEPT ![c][h].pc = "pump", ![c][h].hand = None]
        PROVE  \A d \in Conn, g \in Host : OK(g, sess'[d][g])
    <2>1. Now(c, h, [sess[c][h] EXCEPT !.pc = "pump", !.hand = None])
      BY <1>8, <1>t, SessionNow DEF Pc
    <2>2. OK(h, [sess[c][h] EXCEPT !.pc = "pump", !.hand = None])
      BY <1>t DEF Sessions, SessionState
    <2> QED
      BY <2>1, <2>2, <1>n
  <1>9. ASSUME NEW c \in Conn, NEW h \in Host,
               ForwardFailed(c, h) \/ IngestReplay(c, h) \/ IngestRefuse(c, h) \/ Ingest(c, h)
               \/ RetireRequest(c, h)
        PROVE  \A d \in Conn, g \in Host : OK(g, sess'[d][g])
    BY <1>2, <1>8, <1>9 DEF ForwardFailed, Finish, IngestReplay, IngestRefuse, Ingest,
                            RetireRequest, Handled
  <1>10. ASSUME NEW c \in Conn, NEW h \in Host, NEW m \in Msg, ForwardCancel(c, h, m)
         PROVE  \A d \in Conn, g \in Host : OK(g, sess'[d][g])
    <2>1. Now(c, h, [sess[c][h] EXCEPT !.cancels_sent = @ \cup {m}])
      BY <1>10, <1>t, SessionNow DEF ForwardCancel
    <2>2. OK(h, [sess[c][h] EXCEPT !.cancels_sent = @ \cup {m}])
      BY <1>10, <1>t DEF ForwardCancel, Sessions, SessionState
    <2> QED
      BY <2>1, <2>2, <1>n
  <1>11. ASSUME NEW c \in Conn, NEW h \in Host, IngestCheck(c, h)
         PROVE  \A d \in Conn, g \in Host : OK(g, sess'[d][g])
    <2> DEFINE m == HeadMsg(c, h)
    <2>1. Head(wire[c][h]) \in Frames(wire[c][h]) /\ Head(wire[c][h]).type = "deliver"
      BY <1>11, <1>t, PoppedLoses DEF IngestCheck, HeadIs
    <2>2. m \in Msg /\ Dest(m) = h /\ mail[Home[m]][m] # "absent"
      BY <2>1 DEF Sound, FramesSound, HeadMsg
    <2>3. mail'[Home[m]][m] # "absent"
      BY <2>2, <1>m, Ends DEF RowsMove, RowsForward
    <2>4. Now(c, h, [sess[c][h] EXCEPT !.pc = "ingest", !.hand = m])
      BY <1>11, <1>t, <2>2, SessionNow DEF IngestCheck, Pc
    <2>5. OK(h, [sess[c][h] EXCEPT !.pc = "ingest", !.hand = m])
      BY <1>t, <2>2, <2>3 DEF Sessions, SessionState
    <2> QED
      BY <2>4, <2>5, <1>n
  <1>12. ASSUME NEW c \in Conn, NEW h \in Host, IngestResponse(c, h)
         PROVE  \A d \in Conn, g \in Host : OK(g, sess'[d][g])
    <2> DEFINE m == sess[c][h].hand
    <2>1. Now(c, h, [sess[c][h] EXCEPT !.pc = "retire"])
      BY <1>12, <1>t, SessionNow DEF IngestResponse, Pc
    <2>2. m \in Response /\ m \in Msg /\ Dest(m) = h /\ mail'[Home[m]][m] # "absent"
      BY <1>12, <1>o DEF IngestResponse
    <2>3. copies'[m] = copies[m] + 1
      BY <1>12, <1>t, <2>2 DEF IngestResponse
    <2>4. copies'[m] > 0
      BY <1>t, <2>2, <2>3
    <2>5. OK(h, [sess[c][h] EXCEPT !.pc = "retire"])
      BY <1>t, <2>2, <2>4 DEF Sessions, SessionState
    <2> QED
      BY <2>1, <2>5, <1>n
  <1>13. ASSUME NEW c \in Conn, NEW h \in Host, Receipt(c, h)
         PROVE  \A d \in Conn, g \in Host : OK(g, sess'[d][g])
    <2> DEFINE m == HeadMsg(c, h)
    <2>1. m \in Msg
      BY <1>13, <1>t, PoppedLoses DEF Receipt, HeadIs, HeadMsg, Frame
    <2>2. CASE sess' = [sess EXCEPT ![c][h].in_flight = @ \ {m}]
      <3>1. Now(c, h, [sess[c][h] EXCEPT !.in_flight = @ \ {m}])
        BY <1>t, <2>1, <2>2, SessionNow
      <3>2. OK(h, [sess[c][h] EXCEPT !.in_flight = @ \ {m}])
        BY <1>13, <1>t DEF Receipt, Sessions, SessionState
      <3> QED
        BY <3>1, <3>2, <1>n
    <2> QED
      BY <1>1, <1>13, <2>2 DEF Receipt
  <1>14. ASSUME NEW m \in Msg,
                LocalSend(m) \/ LocalCancel(m) \/ Receive(m) \/ ReceiptLapses(m)
                \/ Respond(m) \/ ConfirmStop(m) \/ ClaimLapses(m)
         PROVE  UNCHANGED sess
    BY <1>14 DEF LocalSend, LocalCancel, Receive, ReceiptLapses, Respond, ConfirmStop, ClaimLapses
  <1>15. ASSUME (\E h \in Host, m \in Msg : Expire(h, m)) \/ (\E h \in Host : LeaseLapses(h))
                \/ (\E c \in Conn : Break(c))
                \/ (\E c \in Conn, h \in Host : HandleCancel(c, h) \/ HandleCancelState(c, h))
         PROVE  UNCHANGED sess
    BY <1>15 DEF Expire, LeaseLapses, Break, HandleCancel, HandleCancelState
  <1>16. CASE UNCHANGED vars
    BY <1>1, <1>16 DEF vars
  <1> QED
    BY <1>1, <1>3, <1>5, <1>6, <1>7, <1>9, <1>10, <1>11, <1>12, <1>13, <1>14, <1>15, <1>16
       DEF Next

\* A deliver frame is written for a claimed message, a receipt after the commit.
LEMMA FramesStep ==
    ASSUME Sound, [Next]_vars
    PROVE  FramesSound'
  <1> USE DEF history, linkVars
  <1> DEFINE OK(h, f) ==
        /\ f.m \in Msg
        /\ f.type = "deliver" => Dest(f.m) = h /\ mail'[Home[f.m]][f.m] # "absent"
        /\ f.type = "cancel" => Dest(f.m) = h
        /\ f.type \in {"accepted", "refused", "cancel_state"} => Home[f.m] = h
        /\ f.type = "accepted" => copies'[f.m] > 0
             Good == \A d \in Conn, g \in Host : \A f \in Frames(wire'[d][g]) : OK(g, f)
  <1>m. RowsMove
    BY RowsStep
  <1>t. wire \in Wires /\ mail \in Mails /\ copies \in [Msg -> Nat]
    BY DEF Sound, TypeOK, Wires, Mails
  <1>c. \A n \in Msg : copies[n] > 0 => copies'[n] > 0
    BY <1>m DEF RowsMove, NewCopies
  <1>o. \A d \in Conn, g \in Host : \A f \in Frames(wire[d][g]) : OK(g, f)
    <2> SUFFICES ASSUME NEW d \in Conn, NEW g \in Host, NEW f \in Frames(wire[d][g])
                 PROVE  OK(g, f)
      OBVIOUS
    <2>1. f.m \in Msg
      BY DEF Sound, FramesSound
    <2>2. mail[Home[f.m]][f.m] # "absent" => mail'[Home[f.m]][f.m] # "absent"
      BY <1>m, <2>1, Ends DEF RowsMove, RowsForward
    <2> QED
      BY <1>c, <2>1, <2>2 DEF Sound, FramesSound
  <1>s. SUFFICES Good
    BY DEF FramesSound
  <1>1. CASE UNCHANGED wire
    BY <1>1, <1>o
  <1>l. ASSUME Loses(wire', wire) PROVE Good
    BY <1>l, <1>o DEF Loses
  <1>a. ASSUME NEW c \in Conn, NEW h \in Host, NEW w, NEW f, Loses(w, wire),
               Adds(wire', w, c, h, f), OK(Other(h), f)
        PROVE  Good
    BY <1>a, <1>o DEF Loses, Adds
  <1>e. Loses(wire, wire)
    BY DEF Loses
  <1>2. ASSUME NEW c \in Conn, NEW h \in Host, Hangup(c, h) PROVE Good
    BY <1>2, <1>t, <1>l, HangupLoses
  <1>3. ASSUME NEW c \in Conn, Break(c) PROVE Good
    BY <1>3, <1>t, <1>l, BreakLoses
  <1>4. ASSUME NEW c \in Conn, NEW h \in Host,
               Acquire(c, h) \/ Renew(c, h) \/ Stop(c, h) \/ Die(c, h) \/ LostLease(c, h)
        PROVE  Good
    BY <1>1, <1>2, <1>4 DEF Acquire, Renew, Stop, Die, LostLease, Finish
  <1>5. ASSUME NEW c \in Conn, NEW h \in Host, NEW m \in Msg, Forward(c, h, m) PROVE Good
    <2> DEFINE f == [type |-> "deliver", m |-> m]
    <2>1. CASE wire' = Written(c, h, wire, f)
      <3>1. f \in Frame
        BY DEF Frame
      <3>2. Adds(wire', wire, c, h, f)
        BY <1>t, <2>1, <3>1, WrittenAdds
      <3>3. Dest(m) = Other(h) /\ Home[m] = h
        BY <1>5 DEF Forward, Dest
      <3>4. mail'[Home[m]][m] # "absent"
        BY <1>5, <1>m, <3>3 DEF Forward, RowsMove, RowsForward
      <3>5. OK(Other(h), f)
        BY <3>3, <3>4
      <3> QED
        BY <1>a, <1>e, <3>2, <3>5
    <2> QED
      BY <1>1, <1>5, <2>1 DEF Forward
  <1>6. ASSUME NEW c \in Conn, NEW h \in Host, ForwardFailed(c, h) PROVE Good
    BY <1>1, <1>2, <1>6 DEF ForwardFailed, Finish
  <1>7. ASSUME NEW c \in Conn, NEW h \in Host, NEW m \in Msg, ForwardCancel(c, h, m) PROVE Good
    <2> DEFINE f == [type |-> "cancel", m |-> m]
    <2>1. f \in Frame
      BY DEF Frame
    <2>2. Adds(wire', wire, c, h, f)
      BY <1>7, <1>t, <2>1, WrittenAdds DEF ForwardCancel
    <2>3. OK(Other(h), f)
      BY <1>7 DEF ForwardCancel, Dest
    <2> QED
      BY <1>a, <1>e, <2>2, <2>3
  <1>8. ASSUME NEW c \in Conn, NEW h \in Host,
               IngestCheck(c, h) \/ Receipt(c, h) \/ HandleCancelState(c, h)
        PROVE  Good
    BY <1>8, <1>t, <1>l, PoppedLoses DEF IngestCheck, Receipt, HandleCancelState, HeadIs
  <1>9. ASSUME NEW c \in Conn, NEW h \in Host, NEW type \in {"accepted", "refused"},
               sess[c][h].pc \in {"ingest", "retire"}, Handled(c, h, type),
               type = "accepted" => copies'[sess[c][h].hand] > 0
        PROVE  Good
    <2> DEFINE f == [type |-> type, m |-> sess[c][h].hand]
    <2>1. sess[c][h].hand \in Msg /\ Dest(sess[c][h].hand) = h
      BY <1>9 DEF Sound, Hands
    <2>2. f \in Frame
      BY <2>1 DEF Frame
    <2>3. Adds(wire', wire, c, h, f)
      BY <1>9, <1>t, <2>2, WrittenAdds DEF Handled
    <2>4. Home[sess[c][h].hand] = Other(h)
      BY <2>1, Ends, Others
    <2>5. OK(Other(h), f)
      BY <1>9, <2>1, <2>4
    <2> QED
      BY <1>a, <1>e, <2>3, <2>5
  <1>10. ASSUME NEW c \in Conn, NEW h \in Host,
                IngestReplay(c, h) \/ IngestRefuse(c, h) \/ Ingest(c, h) \/ RetireRequest(c, h)
         PROVE  Good
    <2> DEFINE m == sess[c][h].hand
    <2>1. m \in Msg /\ (sess[c][h].pc = "retire" => copies[m] > 0)
      BY <1>10 DEF Sound, Hands, IngestReplay, IngestRefuse, Ingest, RetireRequest
    <2>2. CASE IngestReplay(c, h) \/ RetireRequest(c, h)
      BY <1>9, <1>c, <2>1, <2>2 DEF IngestReplay, RetireRequest
    <2>3. CASE IngestRefuse(c, h)
      BY <1>9, <2>3 DEF IngestRefuse
    <2>4. CASE Ingest(c, h)
      <3>1. copies'[m] = copies[m] + 1
        BY <2>4, <1>t, <2>1 DEF Ingest
      <3>2. copies'[m] > 0
        BY <1>t, <2>1, <3>1
      <3> QED
        BY <1>9, <2>4, <3>2 DEF Ingest
    <2> QED
      BY <1>10, <2>2, <2>3, <2>4
  <1>11. ASSUME NEW c \in Conn, NEW h \in Host, HandleCancel(c, h) PROVE Good
    <2> DEFINE m == HeadMsg(c, h)
               state == IF copies[m] > 0 THEN Cancelled(mail[h][m]) ELSE "cancelled"
               f == [type |-> "cancel_state", m |-> m, state |-> state]
    <2>1. /\ Popped(c, h) \in Wires /\ Loses(Popped(c, h), wire)
          /\ Head(wire[c][h]) \in Frames(wire[c][h]) /\ Head(wire[c][h]).type = "cancel"
      BY <1>11, <1>t, PoppedLoses DEF HandleCancel, HeadIs
    <2>2. m \in Msg /\ Dest(m) = h
      BY <2>1 DEF Sound, FramesSound, HeadMsg
    <2>3. state \in State
      BY <1>t, <2>2 DEF Cancelled, Mails, State, Pending, Terminal
    <2>4. f \in Frame
      BY <2>2, <2>3 DEF Frame
    <2>5. Adds(wire', Popped(c, h), c, h, f)
      BY <1>11, <2>1, <2>4, WrittenAdds DEF HandleCancel
    <2>6. Home[m] = Other(h)
      BY <2>2, Ends, Others
    <2>7. OK(Other(h), f)
      BY <2>2, <2>6
    <2> QED
      BY <1>a, <2>1, <2>5, <2>7
  <1>12. ASSUME NEW m \in Msg,
                LocalSend(m) \/ LocalCancel(m) \/ Receive(m) \/ ReceiptLapses(m)
                \/ Respond(m) \/ ConfirmStop(m) \/ ClaimLapses(m)
         PROVE  UNCHANGED wire
    BY <1>12 DEF LocalSend, LocalCancel, Receive, ReceiptLapses, Respond, ConfirmStop, ClaimLapses
  <1>13. ASSUME (\E h \in Host, m \in Msg : Expire(h, m)) \/ (\E h \in Host : LeaseLapses(h))
                \/ (\E c \in Conn : Connect(c))
                \/ (\E c \in Conn, h \in Host :
                        ForwardCheck(c, h) \/ ForwardNothing(c, h) \/ IngestResponse(c, h))
         PROVE  UNCHANGED wire
    BY <1>13 DEF Expire, LeaseLapses, Connect, ForwardCheck, ForwardNothing, IngestResponse
  <1>14. CASE UNCHANGED vars
    BY <1>1, <1>14 DEF vars
  <1> QED
    BY <1>1, <1>3, <1>4, <1>5, <1>6, <1>7, <1>8, <1>10, <1>11, <1>12, <1>13, <1>14 DEF Next

\* Rows, answers and receipts, from how a step moves rows.
LEMMA RowsKept ==
    ASSUME Sound, RowsMove, copies' \in [Msg -> Nat]
    PROVE  Rows' /\ Answers' /\ ReceiptMeansCommit'
  <1>1. Rows'
    <2> SUFFICES ASSUME NEW m \in Msg
                 PROVE  /\ copies'[m] \in {0, 1}
                        /\ copies'[m] = 0 <=> mail'[Dest(m)][m] = "absent"
                        /\ copies'[m] = 1 => mail'[Home[m]][m] # "absent"
      BY DEF Rows
    <2>1. Home[m] \in Host /\ Dest(m) \in Host /\ Dest(m) # Home[m]
      BY Ends
    <2>2. CASE copies'[m] = copies[m]
      BY <2>1, <2>2 DEF Sound, Rows, RowsMove, RowsForward, NewRows
    <2>3. CASE copies'[m] # copies[m]
      BY <2>1, <2>3 DEF RowsMove, RowsForward, NewCopies
    <2> QED
      BY <2>2, <2>3
  <1>2. Answers'
    <2> SUFFICES ASSUME NEW r \in Response, mail'[Home[r]][r] # "absent"
                 PROVE  /\ mail'[Home[r]][ReplyTo[r]] = "consumed"
                        /\ \A q \in Response :
                              ReplyTo[q] = ReplyTo[r] /\ mail'[Home[q]][q] # "absent" => q = r
      BY DEF Answers
    <2>1. \A q \in Response :
            /\ q \in Msg /\ ReplyTo[q] \in Msg /\ Home[q] = Dest(ReplyTo[q]) /\ Home[q] \in Host
            /\ Home[q] # Dest(q)
      BY AnswerEnds, Ends
    <2>2. \A q \in Response : mail[Home[q]][q] # "absent"
            => mail[Home[q]][ReplyTo[q]] = "consumed" /\ mail'[Home[q]][ReplyTo[q]] = "consumed"
      BY <2>1 DEF Sound, Answers, RowsMove, RowsForward, Terminal
    <2>3. \A q \in Response : mail[Home[q]][q] = "absent" /\ mail'[Home[q]][q] # "absent"
            => /\ mail[Home[q]][ReplyTo[q]] \in Pending /\ mail'[Home[q]][ReplyTo[q]] = "consumed"
               /\ \A n \in Msg : n # q =>
                    (mail'[Home[n]][n] = "absent" <=> mail[Home[n]][n] = "absent")
      BY <2>1 DEF RowsMove, NewRows
    <2>4. \A q \in Response : ReplyTo[q] = ReplyTo[r] => Home[q] = Home[r]
      BY <2>1
    <2>5. ASSUME NEW q \in Response, ReplyTo[q] = ReplyTo[r], mail'[Home[q]][q] # "absent"
          PROVE  q = r
      <3>1. CASE mail[Home[r]][r] # "absent" /\ mail[Home[q]][q] # "absent"
        BY <2>5, <3>1 DEF Sound, Answers
      <3>2. CASE mail[Home[r]][r] = "absent"
        <4>1. mail[Home[q]][q] # "absent" => mail[Home[r]][ReplyTo[r]] = "consumed"
          BY <2>2, <2>4, <2>5
        <4> QED
          BY <2>1, <2>3, <2>5, <3>2, <4>1 DEF Pending
      <3>3. CASE mail[Home[q]][q] = "absent"
        <4>1. mail[Home[r]][r] # "absent" => mail[Home[q]][ReplyTo[q]] = "consumed"
          BY <2>2, <2>4, <2>5
        <4> QED
          BY <2>1, <2>3, <2>5, <3>3, <4>1 DEF Pending
      <3> QED
        BY <3>1, <3>2, <3>3
    <2> QED
      BY <2>2, <2>3, <2>5
  <1>3. ReceiptMeansCommit'
    <2>1. \A n \in Msg : copies[n] > 0 => copies'[n] > 0
      BY DEF RowsMove, NewCopies
    <2>2. Response \subseteq Msg
      BY DEF Msg
    <2> QED
      BY <2>1, <2>2 DEF Sound, ReceiptMeansCommit, RowsMove, NewReceipts
  <1> QED
    BY <1>1, <1>2, <1>3

LEMMA SoundInit ==
    Init => Sound
  <1> SUFFICES ASSUME Init PROVE Sound
    OBVIOUS
  <1>1. NoSession \in SessionState /\ NoSession.pc = "none"
    BY DEF NoSession, SessionState, Pc
  <1>2. << >> \in Seq(Frame) /\ Frames(<< >>) = {}
    BY DEF Frames
  <1>3. TypeOK
    BY <1>1, <1>2 DEF Init, TypeOK, State
  <1>4. Hands
    BY <1>1 DEF Init, Hands
  <1>5. FramesSound
    BY <1>2 DEF Init, FramesSound
  <1>6. Rows /\ Answers /\ ReceiptMeansCommit
    BY Ends, AnswerEnds DEF Init, Rows, Answers, ReceiptMeansCommit
  <1> QED
    BY <1>3, <1>4, <1>5, <1>6 DEF Sound

LEMMA SoundStep ==
    Sound /\ [Next]_vars => Sound'
  <1> SUFFICES ASSUME Sound, [Next]_vars PROVE Sound'
    OBVIOUS
  <1>1. TypeOK'
    BY TypeStep DEF Sound
  <1>2. copies' \in [Msg -> Nat]
    BY <1>1 DEF TypeOK
  <1> QED
    BY <1>1, <1>2, HandsStep, FramesStep, RowsStep, RowsKept DEF Sound

LEMMA SoundAlways ==
    Spec => []Sound
  BY SoundInit, SoundStep, PTL DEF Spec

\* ingest commits a message once, however often and over whichever sessions
\* and connections it is resent.
THEOREM DeliveriesLandOnce ==
    Spec => []LandsOnce
  <1>1. Sound => LandsOnce
    BY DEF Sound, Rows, LandsOnce
  <1> QED
    BY <1>1, SoundAlways, PTL

\* forwarded settles nothing that the other store has not committed, and a
\* request is consumed at home only once its answer is there.
THEOREM ReceiptsMeanCommits ==
    Spec => []ReceiptMeansCommit
  <1>1. Sound => ReceiptMeansCommit
    BY DEF Sound
  <1> QED
    BY <1>1, SoundAlways, PTL

-----------------------------------------------------------------------------
(***************************************************************************)
(* The abstract call                                                        *)
(***************************************************************************)

\* The three variables of the abstract call, as the refinement maps them.
Asker == [q \in Request |-> AskerOf(mail[Home[q]][q])]
Worker == [q \in Request |-> WorkerOf(mail[Dest(q)][q])]
Answer == [q \in Request |->
             IF AnswersTo(q) = {} THEN "none"
             ELSE IF \E r \in AnswersTo(q) : copies[r] > 0 THEN "arrived"
             ELSE "written"]

\* A step of the abstract call, or none.
CallStep == [Call!CallNext]_(Call!callVars)

\* The moves of an asker that waits, and of a worker that has the request.
LEMMA AskerStep ==
    ASSUME NEW q \in Request, NEW s, Asker' = [Asker EXCEPT ![q] = s],
           Worker' = Worker, Answer' = Answer,
           \/ Asker[q] = "none" /\ s = "waiting"
           \/ Asker[q] = "waiting" /\ s \in {"waiting", "undeliverable", "cancelled", "expired"}
           \/ Asker[q] = "waiting" /\ s = "answered" /\ Answer[q] = "arrived"
    PROVE  CallStep
  <1>1. CASE Asker[q] = s
    BY <1>1 DEF CallStep, Call!callVars, Asker, Worker, Answer
  <1>2. CASE Asker[q] # s
    BY <1>2 DEF CallStep, Call!CallNext, Call!Ask, Call!TakeAnswer, Call!Refuse, Call!Withdraw,
           Call!Overdue, Call!AskerMoves, Asker, Worker, Answer
  <1> QED
    BY <1>1, <1>2

LEMMA WorkerStep ==
    ASSUME NEW q \in Request, NEW s, Worker' = [Worker EXCEPT ![q] = s],
           Asker' = Asker, Answer' = Answer,
           \/ Worker[q] = "none" /\ s = "has" /\ Asker[q] # "none"
           \/ Worker[q] = "has" /\ s \in {"has", "cancelled", "expired"}
    PROVE  CallStep
  <1>1. CASE Worker[q] = s
    BY <1>1 DEF CallStep, Call!callVars, Asker, Worker, Answer
  <1>2. CASE Worker[q] # s
    BY <1>2 DEF CallStep, Call!CallNext, Call!Arrive, Call!StopWork, Call!WorkOverdue,
           Call!WorkerMoves, Asker, Worker, Answer
  <1> QED
    BY <1>1, <1>2

\* A step that no side of the call sees.
LEMMA NoStep ==
    ASSUME Asker' = Asker, Worker' = Worker, Answer' = Answer
    PROVE  CallStep
  BY DEF CallStep, Call!callVars, Asker, Worker, Answer

\* A row of the home store is the asker's side, of the other one the worker's.
LEMMA HomeRow ==
    ASSUME Sound, NEW m \in Msg, NEW s \in State, s # "absent",
           mail' = [mail EXCEPT ![Home[m]][m] = s], copies' = copies,
           m \in Response => mail[Home[m]][m] # "absent"
    PROVE  /\ Asker' = IF m \in Request THEN [Asker EXCEPT ![m] = AskerOf(s)] ELSE Asker
           /\ Worker' = Worker /\ Answer' = Answer
           /\ m \in Request => Asker[m] = AskerOf(mail[Home[m]][m])
  <1>1. \A g \in Host, n \in Msg :
            mail'[g][n] = IF g = Home[m] /\ n = m THEN s ELSE mail[g][n]
    BY MailSet, Ends DEF Sound, TypeOK, Mails
  <1>2. \A q \in Request : q \in Msg /\ Home[q] \in Host /\ Dest(q) \in Host /\ Dest(q) # Home[q]
    BY Ends DEF Msg
  <1>3. \A r \in Response : r \in Msg /\ Home[r] \in Host
    BY Ends DEF Msg
  <1>4. Worker' = Worker
    BY <1>1, <1>2 DEF Worker
  <1>5. \A q \in Request : AnswersTo(q)' = AnswersTo(q)
    BY <1>1, <1>3 DEF AnswersTo
  <1>6. Answer' = Answer
    BY <1>5 DEF Answer
  <1>7. m \in Request => Asker' = [Asker EXCEPT ![m] = AskerOf(s)]
    <2> SUFFICES ASSUME m \in Request PROVE Asker' = [Asker EXCEPT ![m] = AskerOf(s)]
      OBVIOUS
    <2>1. \A q \in Request : mail'[Home[q]][q] = IF q = m THEN s ELSE mail[Home[q]][q]
      BY <1>1, <1>2
    <2>2. \A q \in Request : Asker'[q] = IF q = m THEN AskerOf(s) ELSE Asker[q]
      BY <2>1 DEF Asker
    <2>3. Asker' = [q \in Request |-> Asker'[q]] /\ Asker = [q \in Request |-> Asker[q]]
      BY DEF Asker
    <2> QED
      BY <2>2, <2>3
  <1>8. m \notin Request => Asker' = Asker
    BY <1>1, <1>2 DEF Asker
  <1> QED
    BY <1>4, <1>6, <1>7, <1>8 DEF Asker

LEMMA DestRow ==
    ASSUME Sound, NEW m \in Msg, NEW s \in State,
           mail' = [mail EXCEPT ![Dest(m)][m] = s],
           copies' = copies \/ (m \notin Response /\ copies' = [copies EXCEPT ![m] = @ + 1])
    PROVE  /\ Worker' = IF m \in Request THEN [Worker EXCEPT ![m] = WorkerOf(s)] ELSE Worker
           /\ Asker' = Asker /\ Answer' = Answer
           /\ m \in Request => Worker[m] = WorkerOf(mail[Dest(m)][m])
  <1>1. \A g \in Host, n \in Msg :
            mail'[g][n] = IF g = Dest(m) /\ n = m THEN s ELSE mail[g][n]
    BY MailSet, Ends DEF Sound, TypeOK, Mails
  <1>2. \A q \in Request : q \in Msg /\ Home[q] \in Host /\ Dest(q) \in Host /\ Dest(q) # Home[q]
    BY Ends DEF Msg
  <1>3. \A r \in Response : r \in Msg /\ Home[r] \in Host /\ Dest(r) # Home[r]
    BY Ends DEF Msg
  <1>4. Asker' = Asker
    BY <1>1, <1>2 DEF Asker
  <1>5. \A q \in Request : AnswersTo(q)' = AnswersTo(q)
    BY <1>1, <1>3 DEF AnswersTo
  <1>6. \A r \in Response : copies'[r] = copies[r]
    BY <1>3 DEF Sound, TypeOK
  <1>7. \A q \in Request : AnswersTo(q) \subseteq Response
    BY DEF AnswersTo
  <1>8. Answer' = Answer
    BY <1>5, <1>6, <1>7 DEF Answer
  <1>9. m \in Request => Worker' = [Worker EXCEPT ![m] = WorkerOf(s)]
    <2> SUFFICES ASSUME m \in Request PROVE Worker' = [Worker EXCEPT ![m] = WorkerOf(s)]
      OBVIOUS
    <2>1. \A q \in Request : mail'[Dest(q)][q] = IF q = m THEN s ELSE mail[Dest(q)][q]
      BY <1>1, <1>2
    <2>2. \A q \in Request : Worker'[q] = IF q = m THEN WorkerOf(s) ELSE Worker[q]
      BY <2>1 DEF Worker
    <2>3. Worker' = [q \in Request |-> Worker'[q]] /\ Worker = [q \in Request |-> Worker[q]]
      BY DEF Worker
    <2> QED
      BY <2>2, <2>3
  <1>10. m \notin Request => Worker' = Worker
    BY <1>1, <1>2 DEF Worker
  <1> QED
    BY <1>4, <1>8, <1>9, <1>10 DEF Worker

\* A claim that returns to the queue is still an asker that waits.
LEMMA RequeueIsNoStep ==
    ASSUME Sound, NEW s, NEW running, RequeueClaims(s, running), UNCHANGED copies
    PROVE  CallStep
  <1>1. \A g \in Host, n \in Msg : mail'[g][n] = mail[g][n]
            \/ (g = Home[n] /\ mail[g][n] = "claimed" /\ mail'[g][n] = "queued")
    BY DEF RequeueClaims, ClaimsOf, Sound, TypeOK
  <1>2. \A q \in Request : q \in Msg /\ Home[q] \in Host /\ Dest(q) \in Host /\ Dest(q) # Home[q]
    BY Ends DEF Msg
  <1>3. \A r \in Response : r \in Msg /\ Home[r] \in Host
    BY Ends DEF Msg
  <1>4. Asker' = Asker
    BY <1>1, <1>2 DEF Asker, AskerOf, Pending
  <1>5. Worker' = Worker
    BY <1>1, <1>2 DEF Worker
  <1>6. \A q \in Request : AnswersTo(q)' = AnswersTo(q)
    BY <1>1, <1>3 DEF AnswersTo
  <1>7. Answer' = Answer
    BY <1>6 DEF Answer
  <1> QED
    BY <1>4, <1>5, <1>7, NoStep

LEMMA NoRowNoStep ==
    ASSUME UNCHANGED mail, UNCHANGED copies
    PROVE  CallStep
  BY NoStep DEF Asker, Worker, Answer, AnswersTo

LEMMA HomeMove ==
    ASSUME Sound, NEW m \in Msg, NEW s \in State, s # "absent",
           mail' = [mail EXCEPT ![Home[m]][m] = s], copies' = copies,
           mail[Home[m]][m] \in Pending,
           m \in Request => s \in Pending \cup {"undeliverable", "cancelled", "expired", "too_late"}
    PROVE  CallStep
  <1>1. mail[Home[m]][m] # "absent"
    BY DEF Pending
  <1>2. CASE m \in Request
    <2>1. AskerOf(mail[Home[m]][m]) = "waiting"
      BY DEF AskerOf, Pending
    <2>2. AskerOf(s) \in {"waiting", "undeliverable", "cancelled", "expired"}
      BY <1>2 DEF AskerOf, Pending
    <2> QED
      BY <1>1, <1>2, <2>1, <2>2, HomeRow, AskerStep
  <1>3. CASE m \notin Request
    BY <1>1, <1>3, HomeRow, NoStep
  <1> QED
    BY <1>2, <1>3

LEMMA DestMove ==
    ASSUME Sound, NEW m \in Msg, NEW s \in State,
           mail' = [mail EXCEPT ![Dest(m)][m] = s], copies' = copies,
           mail[Dest(m)][m] \in Pending,
           m \in Request => s \in Pending \cup {"cancelled", "expired"}
    PROVE  CallStep
  <1>1. CASE m \in Request
    <2>1. WorkerOf(mail[Dest(m)][m]) = "has"
      BY DEF WorkerOf, Pending
    <2>2. WorkerOf(s) \in {"has", "cancelled", "expired"}
      BY <1>1 DEF WorkerOf, Pending
    <2> QED
      BY <1>1, <2>1, <2>2, DestRow, WorkerStep
  <1>2. CASE m \notin Request
    BY <1>2, DestRow, NoStep
  <1> QED
    BY <1>1, <1>2

\* respond: the worker writes the one answer.
LEMMA RespondIsWork ==
    ASSUME Sound, NEW r \in Msg, Respond(r)
    PROVE  CallStep
  <1> DEFINE q == ReplyTo[r]
  <1>1. /\ r \in Response /\ q \in Request /\ q \in Msg /\ q # r
        /\ Home[r] = Dest(q) /\ Home[r] \in Host
    BY AnswerEnds, Ends, MsgAssumption DEF Respond
  <1>2. \A g \in Host, n \in Msg :
            mail'[g][n] = IF g = Home[r] /\ n = r THEN "queued"
                          ELSE IF g = Home[r] /\ n = q THEN "consumed" ELSE mail[g][n]
    BY <1>1 DEF Respond, Sound, TypeOK
  <1>3. mail[Home[r]][r] = "absent" /\ mail[Home[r]][q] \in Pending /\ copies' = copies
    BY DEF Respond, linkVars
  <1>4. \A n \in Request : n \in Msg /\ n \notin Response /\ Home[n] \in Host /\ Dest(n) \in Host
                           /\ Dest(n) # Home[n]
    BY Ends, MsgAssumption DEF Msg
  <1>5. \A n \in Response : n \in Msg /\ n \notin Request /\ Home[n] \in Host
    BY Ends, MsgAssumption DEF Msg
  <1>6. copies[r] = 0
    BY <1>3 DEF Sound, Rows
  <1>7. Asker' = Asker
    BY <1>1, <1>2, <1>4 DEF Asker
  <1>8. Worker' = [Worker EXCEPT ![q] = "answered"] /\ Worker[q] = "has"
    <2>1. \A n \in Request : mail'[Dest(n)][n] = IF n = q THEN "consumed" ELSE mail[Dest(n)][n]
      BY <1>1, <1>2, <1>4, <1>5
    <2>2. WorkerOf("consumed") = "answered"
      BY DEF WorkerOf, Pending
    <2>3. \A n \in Request : Worker'[n] = IF n = q THEN "answered" ELSE Worker[n]
      BY <2>1, <2>2 DEF Worker
    <2>4. Worker' = [n \in Request |-> Worker'[n]] /\ Worker = [n \in Request |-> Worker[n]]
      BY DEF Worker
    <2>5. Worker[q] = "has"
      BY <1>1, <1>3 DEF Worker, WorkerOf, Pending
    <2> QED
      BY <2>3, <2>4, <2>5
  <1>9. Answer' = [Answer EXCEPT ![q] = "written"] /\ Answer[q] = "none"
    <2>1. \A n \in Response :
            mail'[Home[n]][n] # "absent" <=> (n = r \/ mail[Home[n]][n] # "absent")
      BY <1>1, <1>2, <1>5
    <2>2. \A n \in Request : n # q => AnswersTo(n)' = AnswersTo(n)
      BY <2>1 DEF AnswersTo
    <2>3. AnswersTo(q) = {}
      <3>1. \A n \in Response : ReplyTo[n] = q => Home[n] = Home[r]
        BY <1>1, AnswerEnds
      <3> QED
        BY <1>3, <3>1 DEF AnswersTo, Sound, Answers, Pending
    <2>4. AnswersTo(q)' = {r}
      BY <1>1, <2>1, <2>3 DEF AnswersTo
    <2>5. copies' = copies /\ ~(copies[r] > 0)
      BY <1>3, <1>6
    <2>6. \A n \in Request : Answer'[n] = IF n = q THEN "written" ELSE Answer[n]
      BY <2>2, <2>4, <2>5 DEF Answer
    <2>7. Answer' = [n \in Request |-> Answer'[n]] /\ Answer = [n \in Request |-> Answer[n]]
      BY DEF Answer
    <2>8. Answer[q] = "none"
      BY <1>1, <2>3 DEF Answer
    <2> QED
      BY <2>6, <2>7, <2>8
  <1> QED
    BY <1>1, <1>7, <1>8, <1>9 DEF CallStep, Call!CallNext, Call!Work, Asker, Worker, Answer

\* The first transaction of respond at home: the answer arrives.
LEMMA IngestIsArrival ==
    ASSUME Sound, NEW c \in Conn, NEW h \in Host, IngestResponse(c, h)
    PROVE  CallStep
  <1> DEFINE r == sess[c][h].hand
             q == ReplyTo[r]
  <1>1. /\ r \in Response /\ r \in Msg /\ Dest(r) = h /\ copies[r] = 0
        /\ mail[Home[r]][r] # "absent"
    BY DEF IngestResponse, Sound, Hands
  <1>2. q \in Request /\ Home[q] = h
    BY <1>1, AnswerEnds
  <1>3. /\ mail' = [mail EXCEPT ![h][r] = "queued"] /\ mail[h][q] \in Pending
        /\ copies' = [copies EXCEPT ![r] = @ + 1]
    BY DEF IngestResponse
  <1>4. \A g \in Host, n \in Msg :
            mail'[g][n] = IF g = h /\ n = r THEN "queued" ELSE mail[g][n]
    BY <1>1, <1>3, MailSet DEF Sound, TypeOK, Mails, State, Pending
  <1>5. \A n \in Request : n \in Msg /\ n \notin Response /\ Home[n] \in Host /\ Dest(n) \in Host
    BY Ends, MsgAssumption DEF Msg
  <1>6. \A n \in Response : n \in Msg /\ Home[n] \in Host /\ Home[n] # Dest(n)
    BY Ends DEF Msg
  <1>7. Asker' = Asker /\ Asker[q] = "waiting"
    <2>1. Asker' = Asker
      BY <1>1, <1>4, <1>5 DEF Asker
    <2>2. Asker[q] = "waiting"
      BY <1>2, <1>3 DEF Asker, AskerOf, Pending
    <2> QED
      BY <2>1, <2>2
  <1>8. Worker' = Worker
    BY <1>1, <1>4, <1>5 DEF Worker
  <1>9. \A n \in Request : AnswersTo(n)' = AnswersTo(n)
    BY <1>1, <1>4, <1>6 DEF AnswersTo
  <1>10. AnswersTo(q) = {r}
    BY <1>1 DEF AnswersTo, Sound, Answers
  <1>11. Answer[q] = "written"
    BY <1>1, <1>2, <1>10 DEF Answer
  <1>12. Answer' = [Answer EXCEPT ![q] = "arrived"]
    <2>1. \A n \in Msg : copies'[n] = IF n = r THEN 1 ELSE copies[n]
      BY <1>1, <1>3 DEF Sound, TypeOK
    <2>2. \A n \in Request : n # q => r \notin AnswersTo(n) /\ AnswersTo(n) \subseteq Msg
      BY <1>6 DEF AnswersTo
    <2>3. copies'[r] > 0
      BY <1>1, <2>1
    <2>4. Answer'[q] = "arrived"
      BY <1>2, <1>9, <1>10, <2>3 DEF Answer
    <2>5. \A n \in Request : n # q => Answer'[n] = Answer[n]
      BY <1>9, <2>1, <2>2 DEF Answer
    <2>6. Answer' = [n \in Request |-> Answer'[n]] /\ Answer = [n \in Request |-> Answer[n]]
      BY DEF Answer
    <2> QED
      BY <2>4, <2>5, <2>6
  <1> QED
    BY <1>2, <1>7, <1>8, <1>11, <1>12
       DEF CallStep, Call!CallNext, Call!AnswerArrives, Asker, Worker, Answer

\* The second transaction: the asker takes it, unless it stopped waiting.
LEMMA RetireIsTake ==
    ASSUME Sound, NEW c \in Conn, NEW h \in Host, RetireRequest(c, h)
    PROVE  CallStep
  <1> DEFINE r == sess[c][h].hand
             q == ReplyTo[r]
  <1>1. /\ r \in Response /\ Dest(r) = h /\ copies[r] > 0 /\ mail[Home[r]][r] # "absent"
    BY DEF RetireRequest, Sound, Hands
  <1>2. q \in Request /\ q \in Msg /\ Home[q] = h
    BY <1>1, AnswerEnds
  <1>3. copies' = copies
    BY DEF RetireRequest
  <1>4. CASE mail[h][q] \in Pending
    <2>1. mail' = [mail EXCEPT ![h][q] = "consumed"]
      BY <1>4 DEF RetireRequest
    <2>2. AskerOf("consumed") = "answered" /\ AskerOf(mail[h][q]) = "waiting"
      BY <1>4 DEF AskerOf, Pending
    <2>3. Answer[q] = "arrived"
      BY <1>1, <1>2 DEF Answer, AnswersTo
    <2>4. q \notin Response /\ "consumed" \in State
      BY <1>2, MsgAssumption DEF State, Terminal
    <2>5. mail' = [mail EXCEPT ![Home[q]][q] = "consumed"]
      BY <1>2, <2>1
    <2>6. /\ Asker' = [Asker EXCEPT ![q] = AskerOf("consumed")]
          /\ Worker' = Worker /\ Answer' = Answer
      BY <1>2, <1>3, <2>4, <2>5, HomeRow
    <2>7. Asker[q] = "waiting"
      BY <1>2, <2>2 DEF Asker
    <2> QED
      BY <1>2, <2>2, <2>3, <2>6, <2>7, AskerStep
  <1>5. CASE mail[h][q] \notin Pending
    BY <1>3, <1>5, NoRowNoStep DEF RetireRequest
  <1> QED
    BY <1>4, <1>5

LEMMA CallStepTaken ==
    ASSUME Sound, [Next]_vars
    PROVE  CallStep
  <1> USE DEF history, linkVars
  <1>t. mail \in Mails /\ wire \in Wires
    BY DEF Sound, TypeOK, Mails, Wires
  <1>1. ASSUME NEW m \in Msg, LocalSend(m) PROVE CallStep
    <2>1. /\ mail' = [mail EXCEPT ![Home[m]][m] = "queued"] /\ copies' = copies
          /\ mail[Home[m]][m] = "absent" /\ m \notin Response /\ "queued" \in State
      BY <1>1, MsgAssumption DEF LocalSend, State, Pending
    <2>2. AskerOf("queued") = "waiting" /\ AskerOf("absent") = "none"
      BY DEF AskerOf, Pending
    <2>3. /\ Asker' = IF m \in Request THEN [Asker EXCEPT ![m] = AskerOf("queued")] ELSE Asker
          /\ Worker' = Worker /\ Answer' = Answer
          /\ m \in Request => Asker[m] = AskerOf("absent")
      BY <2>1, HomeRow
    <2> QED
      BY <2>2, <2>3, AskerStep, NoStep
  <1>2. ASSUME NEW m \in Msg, LocalCancel(m) PROVE CallStep
    <2>1. PICK s \in {"cancelled", "cancellation_requested"} :
            mail' = [mail EXCEPT ![Home[m]][m] = s]
      BY <1>2, <1>t, Ends DEF LocalCancel, Cancelled, Mails
    <2>2. mail[Home[m]][m] \in Pending /\ copies' = copies
      BY <1>2 DEF LocalCancel, Pending
    <2>3. s \in State /\ s # "absent" /\ s \in Pending \cup {"cancelled"}
      BY DEF State, Pending, Terminal
    <2> QED
      BY <2>1, <2>2, <2>3, HomeMove
  <1>3. ASSUME NEW m \in Msg, Receive(m) \/ ReceiptLapses(m) \/ ConfirmStop(m) PROVE CallStep
    <2>1. PICK s \in {"consumed", "claimed", "queued", "cancelled"} :
            /\ mail' = [mail EXCEPT ![Dest(m)][m] = s]
            /\ s = "consumed" => m \in Notice
      BY <1>3 DEF Receive, ReceiptLapses, ConfirmStop
    <2>2. mail[Dest(m)][m] \in Pending /\ copies' = copies
      BY <1>3 DEF Receive, ReceiptLapses, ConfirmStop, Pending
    <2>3. s \in State /\ (m \in Request => s \in Pending \cup {"cancelled"})
      BY <2>1, MsgAssumption DEF State, Pending, Terminal
    <2> QED
      BY <2>1, <2>2, <2>3, DestMove
  <1>4. ASSUME NEW h \in Host, NEW m \in Msg, Expire(h, m) PROVE CallStep
    <2>1. /\ mail' = [mail EXCEPT ![h][m] = "expired"] /\ copies' = copies
          /\ mail[h][m] \in Pending /\ "expired" \in State
      BY <1>4 DEF Expire, Pending, State, Terminal
    <2>2. h = Home[m] \/ h = Dest(m)
      BY Others, Ends DEF Dest
    <2> QED
      BY <2>1, <2>2, HomeMove, DestMove
  <1>5. ASSUME NEW m \in Msg, ClaimLapses(m) PROVE CallStep
    BY <1>5, HomeMove DEF ClaimLapses, State, Pending
  <1>6. ASSUME NEW c \in Conn, NEW h \in Host, TakeLease(c, h), UNCHANGED copies PROVE CallStep
    BY <1>6, NoRowNoStep, RequeueIsNoStep DEF TakeLease
  <1>7. ASSUME NEW c \in Conn, NEW h \in Host, ReleaseLease(c, h), UNCHANGED copies PROVE CallStep
    BY <1>7, NoRowNoStep, RequeueIsNoStep DEF ReleaseLease
  <1>8. ASSUME NEW c \in Conn, NEW h \in Host,
               Acquire(c, h) \/ Renew(c, h) \/ Stop(c, h) \/ LostLease(c, h)
        PROVE  CallStep
    BY <1>6, <1>7, <1>8, NoRowNoStep DEF Acquire, Renew, Stop, LostLease, Finish
  <1>9. ASSUME NEW c \in Conn, NEW h \in Host, NEW m \in Msg, Forward(c, h, m) PROVE CallStep
    BY <1>9, HomeMove DEF Forward, State, Pending
  <1>10. ASSUME NEW c \in Conn, NEW h \in Host, NEW m \in Msg, Home[m] = h,
                NEW s \in Pending \cup {"undeliverable", "too_late", "consumed"},
                s = "consumed" => m \notin Request,
                Settle(c, h, m, s), UNCHANGED copies
         PROVE  CallStep
    <2>1. s \in State /\ s # "absent"
      BY DEF State, Pending, Terminal
    <2> QED
      BY <1>10, <2>1, HomeMove, NoRowNoStep DEF Settle, Pending
  <1>11. ASSUME NEW c \in Conn, NEW h \in Host, ForwardFailed(c, h) PROVE CallStep
    <2>1. sess[c][h].hand \in Msg /\ Home[sess[c][h].hand] = h /\ UNCHANGED copies
      BY <1>11 DEF ForwardFailed, Sound, Hands
    <2>2. CASE HoldsLease(c, h)
      <3>1. PICK s \in {"undeliverable", "too_late"} : Settle(c, h, sess[c][h].hand, s)
        BY <1>11, <2>2 DEF ForwardFailed
      <3> QED
        BY <2>1, <3>1, <1>10
    <2>3. CASE ~HoldsLease(c, h)
      BY <1>7, <1>11, <2>1, <2>3 DEF ForwardFailed, Finish
    <2> QED
      BY <2>2, <2>3
  <1>12. ASSUME NEW c \in Conn, NEW h \in Host, Ingest(c, h) PROVE CallStep
    <2> DEFINE m == sess[c][h].hand
    <2>1. m \in Msg /\ Dest(m) = h /\ mail[Home[m]][m] # "absent" /\ mail[Home[m]][m] \in State
      BY <1>12, <1>t, Ends DEF Ingest, Sound, Hands, Mails
    <2>2. /\ m \notin Response /\ copies[m] = 0 /\ mail' = [mail EXCEPT ![h][m] = "queued"]
          /\ copies' = [copies EXCEPT ![m] = @ + 1] /\ "queued" \in State
      BY <1>12 DEF Ingest, State, Pending
    <2>3. mail[h][m] = "absent"
      BY <2>1, <2>2 DEF Sound, Rows
    <2>4. WorkerOf("queued") = "has" /\ WorkerOf("absent") = "none"
      BY DEF WorkerOf, Pending
    <2>5. m \in Request => Asker[m] # "none"
      BY <2>1 DEF Asker, AskerOf, State, Pending, Terminal
    <2>6. mail' = [mail EXCEPT ![Dest(m)][m] = "queued"]
      BY <2>1, <2>2
    <2>7. /\ Worker' = IF m \in Request THEN [Worker EXCEPT ![m] = WorkerOf("queued")] ELSE Worker
          /\ Asker' = Asker /\ Answer' = Answer
      BY <2>1, <2>2, <2>6, DestRow
    <2>8. m \in Request => Worker[m] = WorkerOf("absent")
      BY <2>1, <2>3 DEF Worker
    <2> QED
      BY <2>4, <2>5, <2>7, <2>8, WorkerStep, NoStep
  <1>13. ASSUME NEW c \in Conn, NEW h \in Host, Receipt(c, h) PROVE CallStep
    <2> DEFINE m == HeadMsg(c, h)
    <2>1. Head(wire[c][h]) \in Frames(wire[c][h]) /\ UNCHANGED copies
      BY <1>13, <1>t, PoppedLoses DEF Receipt, HeadIs
    <2>2. m \in Msg /\ Home[m] = h
      BY <1>13, <2>1 DEF Receipt, HeadIs, HeadMsg, Sound, FramesSound
    <2>3. \/ UNCHANGED mail
          \/ \E s \in {"undeliverable", "delivered", "consumed"} :
                (s = "consumed" => m \notin Request) /\ Settle(c, h, m, s)
      BY <1>13 DEF Receipt
    <2> QED
      BY <1>10, <2>1, <2>2, <2>3, NoRowNoStep DEF Pending
  <1>14. ASSUME NEW c \in Conn, NEW h \in Host, HandleCancel(c, h) PROVE CallStep
    <2> DEFINE m == HeadMsg(c, h)
    <2>1. Head(wire[c][h]) \in Frames(wire[c][h]) /\ Head(wire[c][h]).type = "cancel"
      BY <1>14, <1>t, PoppedLoses DEF HandleCancel, HeadIs
    <2>2. m \in Msg /\ Dest(m) = h /\ UNCHANGED copies
      BY <1>14, <2>1 DEF HandleCancel, HeadMsg, Sound, FramesSound
    <2>3. CASE copies[m] > 0 /\ mail[h][m] \in Pending
      <3>1. mail' = [mail EXCEPT ![h][m] = Cancelled(mail[h][m])]
        BY <1>14, <2>3 DEF HandleCancel
      <3>2. Cancelled(mail[h][m]) \in Pending \cup {"cancelled"}
        BY <2>3 DEF Cancelled, Pending
      <3>3. Cancelled(mail[h][m]) \in State
        BY <3>2 DEF State, Terminal
      <3> QED
        BY <2>2, <2>3, <3>1, <3>2, <3>3, DestMove
    <2>4. CASE ~(copies[m] > 0 /\ mail[h][m] \in Pending)
      <3>1. UNCHANGED mail
        <4>1. CASE copies[m] > 0
          <5>1. Cancelled(mail[h][m]) = mail[h][m]
            BY <2>4, <4>1 DEF Cancelled, Pending
          <5> QED
            BY <1>14, <1>t, <2>2, <4>1, <5>1 DEF HandleCancel, Mails
        <4>2. CASE ~(copies[m] > 0)
          BY <1>14, <4>2 DEF HandleCancel
        <4> QED
          BY <4>1, <4>2
      <3> QED
        BY <2>2, <3>1, NoRowNoStep
    <2> QED
      BY <2>3, <2>4
  <1>15. ASSUME NEW c \in Conn, NEW h \in Host, HandleCancelState(c, h) PROVE CallStep
    <2> DEFINE m == HeadMsg(c, h)
    <2>1. Head(wire[c][h]) \in Frames(wire[c][h]) /\ Head(wire[c][h]).type = "cancel_state"
      BY <1>15, <1>t, PoppedLoses DEF HandleCancelState, HeadIs
    <2>2. m \in Msg /\ Home[m] = h /\ UNCHANGED copies
      BY <1>15, <2>1 DEF HandleCancelState, HeadMsg, Sound, FramesSound
    <2>3. \/ UNCHANGED mail
          \/ mail[h][m] \in Pending /\ mail' = [mail EXCEPT ![h][m] = "cancelled"]
      BY <1>15 DEF HandleCancelState, Pending
    <2> QED
      BY <2>2, <2>3, HomeMove, NoRowNoStep DEF State, Terminal
  <1>16. CASE UNCHANGED vars
    BY <1>16, NoRowNoStep DEF vars
  <1>17. ASSUME NEW h \in Host, LeaseLapses(h) PROVE CallStep
    BY <1>17, NoRowNoStep DEF LeaseLapses
  <1>18. ASSUME NEW c \in Conn, Connect(c) \/ Break(c) PROVE CallStep
    BY <1>18, NoRowNoStep DEF Connect, Break
  <1>19. ASSUME NEW c \in Conn, NEW h \in Host,
                Die(c, h) \/ ForwardCheck(c, h) \/ ForwardNothing(c, h)
                \/ (\E m \in Msg : ForwardCancel(c, h, m))
                \/ IngestCheck(c, h) \/ IngestReplay(c, h) \/ IngestRefuse(c, h)
         PROVE  CallStep
    BY <1>19, NoRowNoStep DEF Die, ForwardCheck, ForwardNothing, ForwardCancel, IngestCheck,
                              IngestReplay, IngestRefuse
  <1> QED
    BY <1>1, <1>2, <1>3, <1>4, <1>5, <1>8, <1>9, <1>11, <1>12, <1>13, <1>14, <1>15, <1>16,
       <1>17, <1>18, <1>19, RespondIsWork, IngestIsArrival, RetireIsTake DEF Next

\* Every step of the two stores and of the sessions between them is a step of
\* the abstract call or none, so a request is worked on at most once, its one
\* answer reaches the asker at most once, and no resolution is taken back.
THEOREM BridgeImplementsCall ==
    Spec => ImplementsCall
  <1>1. Init => Call!CallInit
    <2>1. \A q \in Request : q \in Msg /\ Home[q] \in Host /\ Dest(q) \in Host
      BY Ends DEF Msg
    <2>2. \A r \in Response : r \in Msg /\ Home[r] \in Host
      BY Ends DEF Msg
    <2>3. ASSUME Init, NEW q \in Request PROVE AnswersTo(q) = {}
      BY <2>2, <2>3 DEF Init, AnswersTo
    <2> QED
      BY <2>1, <2>3 DEF Init, Call!CallInit, AskerOf, WorkerOf, Pending
  <1>2. Sound /\ [Next]_vars => [Call!CallNext]_(Call!callVars)
    BY CallStepTaken DEF CallStep
  <1> QED
    BY <1>1, <1>2, SoundAlways, PTL DEF Spec, ImplementsCall, Call!CallSpec

-----------------------------------------------------------------------------
\* A refused message has not landed, whatever connections do, as long as it was
\* not put back on the outbox beside a copy of itself.

\* What may still make a message land: a delivery on its way, or one whose
\* receiver has read it and not yet decided.  A refusal may be on its way back.
IsDelivery(f, m) == f.type = "deliver" /\ f.m = m
Delivering(c, m) == \E f \in Frames(wire[c][Dest(m)]) : IsDelivery(f, m)
Deciding(c, m) == sess[c][Dest(m)].pc = "ingest" /\ sess[c][Dest(m)].hand = m
Landing(c, m) == Delivering(c, m) \/ Deciding(c, m)
Refused(c, m) == \E f \in Frames(wire[c][Home[m]]) : f.type = "refused" /\ f.m = m
Once(w, m) == \A i, j \in 1 .. Len(w) : IsDelivery(w[i], m) /\ IsDelivery(w[j], m) => i = j

\* Of a message no delivery follows its cancellation.
IsCancel(f, m) == f.type = "cancel" /\ f.m = m
Ordered(w, m) == \A i, j \in 1 .. Len(w) : IsCancel(w[i], m) /\ IsDelivery(w[j], m) => j < i

\* Nothing is on its way to a session that is over, nor to one that has not
\* begun, and a carrier is open only between two that run.
Quiet ==
    \A c \in Conn :
        /\ \A h \in Host : ~Alive(sess[c][h]) => wire[c][h] = << >>
        /\ up[c] => \A h \in Host : Alive(sess[c][h])

\* A message that was not sent twice side by side: on the outbox nothing of it
\* is on its way, claimed at most one thing of it, on the connection it was
\* claimed for, and once it is undeliverable it has not landed and never will.
OneThing(c, m) ==
    /\ Landing(c, m) \/ Refused(c, m) => owner[m] = <<c, Home[m]>>
    /\ Once(wire[c][Dest(m)], m)
    /\ ~(Delivering(c, m) /\ Deciding(c, m))
    /\ Refused(c, m) => copies[m] = 0 /\ ~Landing(c, m)

NothingLeft(c, m) == ~Landing(c, m) /\ ~Refused(c, m)

Outcome(m) ==
    /\ mail[Home[m]][m] \in {"absent", "queued"} => \A c \in Conn : NothingLeft(c, m)
    /\ mail[Home[m]][m] = "claimed" => \A c \in Conn : OneThing(c, m)
    /\ mail[Home[m]][m] = "undeliverable"
            => copies[m] = 0 /\ \A c \in Conn : ~Landing(c, m)

Outcomes == \A m \in Msg \ resent : Outcome(m)

\* What cannot be expressed to the peer is never sent.
Unsent ==
    \A m \in Inexpressible \cap Msg : copies[m] = 0 /\ \A c \in Conn : ~Landing(c, m)

-----------------------------------------------------------------------------
(***************************************************************************)
(* What a step does to a direction of a connection                          *)
(***************************************************************************)

Shorter(now, was) ==
    /\ Frames(now) \subseteq Frames(was)
    /\ was = << >> => now = << >>
    /\ \A m \in Msg : Once(was, m) => Once(now, m)
    /\ \A m \in Msg : Ordered(was, m) => Ordered(now, m)

\* The same with one more frame at the end.
Longer(now, was, f) ==
    /\ Frames(now) \subseteq Frames(was) \cup {f}
    /\ now # << >>
    /\ \A m \in Msg :
        /\ Once(was, m) /\ (IsDelivery(f, m) => ~\E x \in Frames(was) : IsDelivery(x, m))
                => Once(now, m)
        /\ Ordered(was, m) /\ (IsDelivery(f, m) => ~\E x \in Frames(was) : IsCancel(x, m))
                => Ordered(now, m)

LEMMA ShorterTail ==
    ASSUME NEW w \in Seq(Frame), w # << >>
    PROVE  /\ Shorter(Tail(w), w)
           /\ \A m \in Msg : Once(w, m) /\ IsDelivery(Head(w), m)
                => ~\E x \in Frames(Tail(w)) : IsDelivery(x, m)
           /\ \A m \in Msg : Ordered(w, m) /\ IsCancel(Head(w), m)
                => ~\E x \in Frames(w) : IsDelivery(x, m)
  <1>1. Frames(Tail(w)) \subseteq Frames(w)
    BY FramesTail
  <1>2. Len(Tail(w)) = Len(w) - 1 /\ Len(w) \in Nat /\ Len(w) > 0 /\ Head(w) = w[1]
        /\ \A i \in 1 .. Len(Tail(w)) : Tail(w)[i] = w[i + 1]
    OBVIOUS
  <1>3. ASSUME NEW m \in Msg, Once(w, m) PROVE Once(Tail(w), m)
    <2> SUFFICES ASSUME NEW i \in 1 .. Len(Tail(w)), NEW j \in 1 .. Len(Tail(w)),
                        IsDelivery(Tail(w)[i], m), IsDelivery(Tail(w)[j], m)
                 PROVE  i = j
      BY DEF Once
    <2>1. i + 1 \in 1 .. Len(w) /\ j + 1 \in 1 .. Len(w)
      BY <1>2
    <2>2. i + 1 = j + 1
      BY <1>2, <1>3, <2>1 DEF Once
    <2> QED
      BY <2>2
  <1>4. ASSUME NEW m \in Msg, Once(w, m), IsDelivery(Head(w), m),
               NEW i \in 1 .. Len(Tail(w)), IsDelivery(Tail(w)[i], m)
        PROVE  FALSE
    <2>1. i + 1 \in 1 .. Len(w) /\ 1 \in 1 .. Len(w) /\ i + 1 # 1
      BY <1>2
    <2> QED
      BY <1>2, <1>4, <2>1 DEF Once
  <1>5. ASSUME NEW m \in Msg, Ordered(w, m) PROVE Ordered(Tail(w), m)
    <2> SUFFICES ASSUME NEW i \in 1 .. Len(Tail(w)), NEW j \in 1 .. Len(Tail(w)),
                        IsCancel(Tail(w)[i], m), IsDelivery(Tail(w)[j], m)
                 PROVE  j < i
      BY DEF Ordered
    <2>1. i + 1 \in 1 .. Len(w) /\ j + 1 \in 1 .. Len(w)
      BY <1>2
    <2>2. j + 1 < i + 1
      BY <1>2, <1>5, <2>1 DEF Ordered
    <2> QED
      BY <2>2
  <1>6. ASSUME NEW m \in Msg, Ordered(w, m), IsCancel(Head(w), m),
               NEW j \in 1 .. Len(w), IsDelivery(w[j], m)
        PROVE  FALSE
    <2>1. 1 \in 1 .. Len(w) /\ ~(j < 1)
      BY <1>2
    <2> QED
      BY <1>2, <1>6, <2>1 DEF Ordered
  <1>7. Shorter(Tail(w), w)
    BY <1>1, <1>3, <1>5 DEF Shorter
  <1>8. \A m \in Msg : Once(w, m) /\ IsDelivery(Head(w), m)
            => ~\E x \in Frames(Tail(w)) : IsDelivery(x, m)
    BY <1>4 DEF Frames
  <1>9. \A m \in Msg : Ordered(w, m) /\ IsCancel(Head(w), m)
            => ~\E x \in Frames(w) : IsDelivery(x, m)
    BY <1>6 DEF Frames
  <1> QED
    BY <1>7, <1>8, <1>9

LEMMA ShorterPrefix ==
    ASSUME NEW w \in Seq(Frame), NEW p \in Prefixes(w)
    PROVE  Shorter(p, w) /\ Shorter(<< >>, w)
  <1>1. Frames(p) \subseteq Frames(w) /\ Frames(<< >>) = {}
    <2>1. Frames(p) \subseteq Frames(w)
      BY FramesPrefix
    <2>2. Frames(<< >>) = {}
      BY DEF Frames
    <2> QED
      BY <2>1, <2>2
  <1>2. PICK l \in 0 .. Len(w) : p = SubSeq(w, 1, l)
    BY DEF Prefixes
  <1>3. Len(p) = l /\ \A i \in 1 .. l : p[i] = w[i] /\ i \in 1 .. Len(w)
    <2>1. Len(w) \in Nat /\ l \in Nat /\ l =< Len(w)
      BY <1>2
    <2>2. \A i \in 1 .. l : i \in 1 .. Len(w)
      BY <2>1
    <2>3. Len(p) = l
      BY <1>2, <2>1
    <2>4. \A i \in 1 .. l : p[i] = w[i]
      BY <1>2, <2>1
    <2> QED
      BY <2>2, <2>3, <2>4
  <1>4. \A m \in Msg : Once(w, m) => Once(p, m)
    BY <1>3 DEF Once
  <1>5. \A m \in Msg : Ordered(w, m) => Ordered(p, m)
    BY <1>3 DEF Ordered
  <1>6. w = << >> => p = << >>
    BY <1>2
  <1> QED
    BY <1>1, <1>4, <1>5, <1>6 DEF Shorter, Once, Ordered

LEMMA LongerAppend ==
    ASSUME NEW w \in Seq(Frame), NEW f \in Frame
    PROVE  Longer(Append(w, f), w, f)
  <1> DEFINE v == Append(w, f)
  <1>1. Frames(v) = Frames(w) \cup {f} /\ v # << >>
    BY FramesAppend
  <1>2. Len(v) = Len(w) + 1 /\ v[Len(w) + 1] = f /\ \A i \in 1 .. Len(w) : v[i] = w[i]
    OBVIOUS
  <1>3. ASSUME NEW m \in Msg, Once(w, m),
               IsDelivery(f, m) => ~\E x \in Frames(w) : IsDelivery(x, m)
        PROVE  Once(v, m)
    <2> SUFFICES ASSUME NEW i \in 1 .. Len(v), NEW j \in 1 .. Len(v),
                        IsDelivery(v[i], m), IsDelivery(v[j], m)
                 PROVE  i = j
      BY DEF Once
    <2>1. \A k \in 1 .. Len(v) : k \in 1 .. Len(w) \/ k = Len(w) + 1
      BY <1>2
    <2>2. \A k \in 1 .. Len(w) : w[k] \in Frames(w)
      BY DEF Frames
    <2> QED
      BY <1>2, <1>3, <2>1, <2>2 DEF Once
  <1>4. ASSUME NEW m \in Msg, Ordered(w, m),
               IsDelivery(f, m) => ~\E x \in Frames(w) : IsCancel(x, m)
        PROVE  Ordered(v, m)
    <2> SUFFICES ASSUME NEW i \in 1 .. Len(v), NEW j \in 1 .. Len(v),
                        IsCancel(v[i], m), IsDelivery(v[j], m)
                 PROVE  j < i
      BY DEF Ordered
    <2>1. \A k \in 1 .. Len(v) : k \in 1 .. Len(w) \/ k = Len(w) + 1
      BY <1>2
    <2>2. \A k \in 1 .. Len(w) : w[k] \in Frames(w)
      BY DEF Frames
    <2>3. i # j
      BY DEF IsCancel, IsDelivery
    <2>4. CASE i = Len(w) + 1
      BY <1>2, <2>1, <2>3, <2>4
    <2>5. CASE i \in 1 .. Len(w)
      BY <1>2, <1>4, <2>1, <2>2, <2>5 DEF Ordered
    <2> QED
      BY <2>1, <2>4, <2>5
  <1> QED
    BY <1>1, <1>3, <1>4 DEF Longer

AllShorter(now, was) == \A d \in Conn, g \in Host : Shorter(now[d][g], was[d][g])

LEMMA ShorterItself ==
    AllShorter(wire, wire)
  BY DEF AllShorter, Shorter

LEMMA PoppedShorter ==
    ASSUME NEW c \in Conn, NEW h \in Host, wire \in Wires, wire[c][h] # << >>
    PROVE  /\ AllShorter(Popped(c, h), wire)
           /\ \A m \in Msg : Once(wire[c][h], m) /\ IsDelivery(Head(wire[c][h]), m)
                => ~\E x \in Frames(Popped(c, h)[c][h]) : IsDelivery(x, m)
           /\ \A m \in Msg : Ordered(wire[c][h], m) /\ IsCancel(Head(wire[c][h]), m)
                => ~\E x \in Frames(wire[c][h]) : IsDelivery(x, m)
  <1>1. \A d \in Conn, g \in Host : Popped(c, h)[d][g] =
            IF d = c /\ g = h THEN Tail(wire[c][h]) ELSE wire[d][g]
    BY DEF Popped, Wires
  <1>2. wire[c][h] \in Seq(Frame)
    BY DEF Wires
  <1>3. \A d \in Conn, g \in Host : Shorter(wire[d][g], wire[d][g])
    BY DEF Shorter
  <1> QED
    BY <1>1, <1>2, <1>3, ShorterTail DEF AllShorter

LEMMA HangupShorter ==
    ASSUME NEW c \in Conn, NEW h \in Host, wire \in Wires, Hangup(c, h)
    PROVE  AllShorter(wire', wire) /\ wire'[c][h] = << >>
  <1>1. PICK kept \in Prefixes(wire[c][Other(h)]) :
            wire' = [wire EXCEPT ![c] = [g \in Host |-> IF g = h THEN << >> ELSE kept]]
    BY DEF Hangup
  <1>2. \A d \in Conn, g \in Host : wire[d][g] \in Seq(Frame)
    BY DEF Wires
  <1>3. Other(h) \in Host /\ \A g \in Host : g # h => g = Other(h)
    BY Others
  <1>4. Shorter(kept, wire[c][Other(h)])
    BY <1>2, <1>3, ShorterPrefix
  <1>5. Shorter(<< >>, wire[c][h])
    BY DEF Shorter, Once, Ordered, Frames
  <1>6. \A d \in Conn, g \in Host : wire'[d][g] =
            IF d # c THEN wire[d][g] ELSE IF g = h THEN << >> ELSE kept
    BY <1>1 DEF Wires
  <1>7. \A d \in Conn, g \in Host : Shorter(wire[d][g], wire[d][g])
    BY DEF Shorter
  <1> QED
    BY <1>3, <1>4, <1>5, <1>6, <1>7 DEF AllShorter

LEMMA BreakShorter ==
    ASSUME NEW c \in Conn, wire \in Wires, Break(c)
    PROVE  AllShorter(wire', wire)
  <1>1. PICK kept \in [Host -> UNION {Prefixes(wire[c][h]) : h \in Host}] :
            /\ \A h \in Host : kept[h] \in Prefixes(wire[c][h])
            /\ wire' = [wire EXCEPT ![c] = kept]
    BY DEF Break
  <1>2. \A h \in Host : Shorter(kept[h], wire[c][h])
    BY <1>1, ShorterPrefix DEF Wires
  <1>3. \A d \in Conn, g \in Host : Shorter(wire[d][g], wire[d][g])
    BY DEF Shorter
  <1>4. \A d \in Conn, g \in Host : wire'[d][g] = IF d = c THEN kept[g] ELSE wire[d][g]
    BY <1>1 DEF Wires
  <1> QED
    BY <1>2, <1>3, <1>4 DEF AllShorter

LEMMA WrittenLonger ==
    ASSUME NEW c \in Conn, NEW h \in Host, NEW w \in Wires, NEW f \in Frame
    PROVE  /\ \A d \in Conn, g \in Host :
                d # c \/ g # Other(h) => Written(c, h, w, f)[d][g] = w[d][g]
           /\ \/ Written(c, h, w, f)[c][Other(h)] = w[c][Other(h)]
              \/ up[c] /\ Longer(Written(c, h, w, f)[c][Other(h)], w[c][Other(h)], f)
  <1>1. Other(h) \in Host /\ w[c][Other(h)] \in Seq(Frame)
    BY Others DEF Wires
  <1>2. Longer(Append(w[c][Other(h)], f), w[c][Other(h)], f)
    BY <1>1, LongerAppend
  <1> QED
    BY <1>1, <1>2 DEF Written, Wires

-----------------------------------------------------------------------------
(***************************************************************************)
(* Connections and sessions that are over                                   *)
(***************************************************************************)

LEMMA QuietStep ==
    ASSUME Sound, Quiet, [Next]_vars
    PROVE  Quiet'
  <1> USE DEF history, linkVars
  <1>t. sess \in Sessions /\ wire \in Wires /\ mail \in Mails /\ up \in [Conn -> BOOLEAN]
    BY DEF Sound, TypeOK, Sessions, Wires, Mails
  <1> DEFINE Running == {"hello", "pump", "ingest", "claim", "fail", "retire"}
             SameLives == \A d \in Conn, g \in Host : Alive(sess'[d][g]) <=> Alive(sess[d][g])
             WireFrom == \A d \in Conn, g \in Host :
                            wire'[d][g] # << >> => wire[d][g] # << >> \/ up[d]
             UpFrom == \A d \in Conn : up'[d] => up[d]
  <1>a. \A s : Alive(s) <=> s.pc \in Running
    BY DEF Alive
  <1>s. ASSUME SameLives, WireFrom, UpFrom PROVE Quiet'
    BY <1>s DEF Quiet
  <1>w. ASSUME AllShorter(wire', wire) PROVE WireFrom
    BY <1>w DEF AllShorter, Shorter
  <1>l. ASSUME NEW c \in Conn, NEW h \in Host, NEW s, Now(c, h, s),
               s.pc \in Running, sess[c][h].pc \in Running
        PROVE  SameLives
    BY <1>a, <1>l DEF Now
  <1>p. ASSUME NEW c \in Conn, NEW h \in Host, NEW p \in {"pump", "claim", "retire"},
               sess' = [sess EXCEPT ![c][h].pc = p], sess[c][h].pc \in Running
        PROVE  SameLives
    <2>1. Now(c, h, [sess[c][h] EXCEPT !.pc = p])
      BY <1>p, <1>t, SessionNow DEF Pc
    <2>2. [sess[c][h] EXCEPT !.pc = p].pc = p
      BY <1>t DEF Sessions, SessionState
    <2> QED
      BY <1>l, <1>p, <2>1, <2>2
  <1>q. ASSUME NEW c \in Conn, NEW h \in Host, NEW p \in {"pump", "ingest", "fail"},
               NEW x \in Msg \cup {None},
               sess' = [sess EXCEPT ![c][h].pc = p, ![c][h].hand = x],
               sess[c][h].pc \in Running
        PROVE  SameLives
    <2>1. Now(c, h, [sess[c][h] EXCEPT !.pc = p, !.hand = x])
      BY <1>q, <1>t, SessionNow DEF Pc
    <2>2. [sess[c][h] EXCEPT !.pc = p, !.hand = x].pc = p
      BY <1>t DEF Sessions, SessionState
    <2> QED
      BY <1>l, <1>q, <2>1, <2>2
  <1>f. ASSUME NEW c \in Conn, NEW h \in Host, NEW w \in Wires, AllShorter(w, wire),
               NEW f \in Frame, wire' = Written(c, h, w, f)
        PROVE  WireFrom
    BY <1>f, WrittenLonger DEF AllShorter, Shorter, Longer
  <1>1. CASE UNCHANGED <<sess, wire, up>>
    BY <1>1, <1>s
  <1>2. ASSUME NEW c \in Conn, NEW h \in Host, Hangup(c, h) PROVE Quiet'
    <2>1. Ended \in SessionState /\ ~Alive(Ended)
      BY DEF Ended, NoSession, SessionState, Pc, Alive
    <2>2. Now(c, h, Ended)
      BY <1>2, <1>t, <2>1, SessionNow DEF Hangup
    <2>3. AllShorter(wire', wire) /\ wire'[c][h] = << >>
      BY <1>2, <1>t, HangupShorter
    <2>4. \A d \in Conn : up'[d] = IF d = c THEN FALSE ELSE up[d]
      BY <1>2, <1>t DEF Hangup
    <2>5. \A d \in Conn, g \in Host : wire[d][g] = << >> => wire'[d][g] = << >>
      BY <2>3 DEF AllShorter, Shorter
    <2> QED
      BY <2>1, <2>2, <2>3, <2>4, <2>5 DEF Quiet, Now
  <1>3. ASSUME NEW c \in Conn, Connect(c) PROVE Quiet'
    <2>1. \A d \in Conn, g \in Host : sess'[d][g] =
            IF d = c THEN [NoSession EXCEPT !.pc = "hello"] ELSE sess[d][g]
      BY <1>3, <1>t DEF Connect, Sessions
    <2>2. Alive([NoSession EXCEPT !.pc = "hello"])
      BY DEF NoSession, Alive
    <2>3. UNCHANGED wire /\ \A d \in Conn : up'[d] = IF d = c THEN TRUE ELSE up[d]
      BY <1>3, <1>t DEF Connect
    <2> QED
      BY <2>1, <2>2, <2>3 DEF Quiet
  <1>4. ASSUME NEW c \in Conn, Break(c) PROVE Quiet'
    <2>1. AllShorter(wire', wire) /\ UNCHANGED sess /\ UpFrom
      BY <1>4, <1>t, BreakShorter DEF Break
    <2> QED
      BY <1>s, <1>w, <2>1
  <1>5. ASSUME NEW c \in Conn, NEW h \in Host, Acquire(c, h) PROVE Quiet'
    <2>1. CASE sess' = [sess EXCEPT ![c][h].pc = "pump"] /\ UNCHANGED <<wire, up>>
      BY <1>5, <1>p, <1>s, <2>1 DEF Acquire
    <2> QED
      BY <1>2, <1>5, <2>1 DEF Acquire
  <1>6. ASSUME NEW c \in Conn, NEW h \in Host,
               Renew(c, h) \/ Stop(c, h) \/ Die(c, h) \/ LostLease(c, h)
        PROVE  Quiet'
    BY <1>1, <1>2, <1>6 DEF Renew, Stop, Die, LostLease, Finish
  <1>7. ASSUME NEW c \in Conn, NEW h \in Host, ForwardCheck(c, h) \/ ForwardNothing(c, h)
        PROVE  Quiet'
    BY <1>7, <1>p, <1>s DEF ForwardCheck, ForwardNothing
  <1>8. ASSUME NEW c \in Conn, NEW h \in Host, NEW m \in Msg, Forward(c, h, m) PROVE Quiet'
    <2>1. [type |-> "deliver", m |-> m] \in Frame /\ UpFrom
      BY <1>8 DEF Frame, Forward
    <2>2. WireFrom
      BY <1>8, <1>f, <1>t, <2>1, ShorterItself DEF Forward
    <2>3. CASE sess' = [sess EXCEPT ![c][h].pc = "fail", ![c][h].hand = m]
      BY <1>8, <1>q, <1>s, <2>1, <2>2, <2>3 DEF Forward
    <2>4. CASE sess' = [sess EXCEPT ![c][h].pc = "pump", ![c][h].in_flight = @ \cup {m}]
      <3>1. Now(c, h, [sess[c][h] EXCEPT !.pc = "pump", !.in_flight = @ \cup {m}])
        BY <1>t, <2>4, SessionNow DEF Pc
      <3>2. [sess[c][h] EXCEPT !.pc = "pump", !.in_flight = @ \cup {m}].pc = "pump"
        BY <1>t DEF Sessions, SessionState
      <3> QED
        BY <1>8, <1>l, <1>s, <2>1, <2>2, <3>1, <3>2 DEF Forward
    <2> QED
      BY <1>8, <2>3, <2>4 DEF Forward
  <1>9. ASSUME NEW c \in Conn, NEW h \in Host, ForwardFailed(c, h) PROVE Quiet'
    <2>1. CASE HoldsLease(c, h)
      BY <1>9, <1>q, <1>s, <2>1 DEF ForwardFailed
    <2> QED
      BY <1>2, <1>9, <2>1 DEF ForwardFailed, Finish
  <1>10. ASSUME NEW c \in Conn, NEW h \in Host, NEW m \in Msg, ForwardCancel(c, h, m)
         PROVE  Quiet'
    <2>1. [type |-> "cancel", m |-> m] \in Frame /\ UpFrom
      BY <1>10 DEF Frame, ForwardCancel
    <2>2. WireFrom
      BY <1>10, <1>f, <1>t, <2>1, ShorterItself DEF ForwardCancel
    <2>3. Now(c, h, [sess[c][h] EXCEPT !.cancels_sent = @ \cup {m}])
      BY <1>10, <1>t, SessionNow DEF ForwardCancel
    <2>4. [sess[c][h] EXCEPT !.cancels_sent = @ \cup {m}].pc = "pump"
      BY <1>10, <1>t DEF Sessions, SessionState, ForwardCancel
    <2> QED
      BY <1>10, <1>l, <1>s, <2>1, <2>2, <2>3, <2>4 DEF ForwardCancel
  <1>11. ASSUME NEW c \in Conn, NEW h \in Host, IngestCheck(c, h) PROVE Quiet'
    <2>1. HeadMsg(c, h) \in Msg /\ UpFrom /\ AllShorter(wire', wire)
      BY <1>11, <1>t, PoppedLoses, PoppedShorter DEF IngestCheck, HeadIs, HeadMsg, Frame
    <2> QED
      BY <1>11, <1>q, <1>s, <1>w, <2>1 DEF IngestCheck
  <1>12. ASSUME NEW c \in Conn, NEW h \in Host, NEW type \in {"accepted", "refused"},
                sess[c][h].pc \in {"ingest", "retire"}, Handled(c, h, type), UNCHANGED up
         PROVE  Quiet'
    <2>1. [type |-> type, m |-> sess[c][h].hand] \in Frame
      BY <1>12 DEF Sound, Hands, Frame
    <2>2. WireFrom
      BY <1>12, <1>f, <1>t, <2>1, ShorterItself DEF Handled
    <2> QED
      BY <1>12, <1>q, <1>s, <2>2 DEF Handled
  <1>13. ASSUME NEW c \in Conn, NEW h \in Host,
                IngestReplay(c, h) \/ IngestRefuse(c, h) \/ Ingest(c, h) \/ RetireRequest(c, h)
         PROVE  Quiet'
    BY <1>12, <1>13 DEF IngestReplay, IngestRefuse, Ingest, RetireRequest
  <1>14. ASSUME NEW c \in Conn, NEW h \in Host, IngestResponse(c, h) PROVE Quiet'
    BY <1>14, <1>p, <1>s DEF IngestResponse
  <1>15. ASSUME NEW c \in Conn, NEW h \in Host, Receipt(c, h) PROVE Quiet'
    <2>1. HeadMsg(c, h) \in Msg /\ UpFrom /\ AllShorter(wire', wire)
      BY <1>15, <1>t, PoppedLoses, PoppedShorter DEF Receipt, HeadIs, HeadMsg, Frame
    <2>2. CASE sess' = [sess EXCEPT ![c][h].in_flight = @ \ {HeadMsg(c, h)}]
      <3>1. Now(c, h, [sess[c][h] EXCEPT !.in_flight = @ \ {HeadMsg(c, h)}])
        BY <1>t, <2>1, <2>2, SessionNow
      <3>2. [sess[c][h] EXCEPT !.in_flight = @ \ {HeadMsg(c, h)}].pc = "pump"
        BY <1>15, <1>t DEF Sessions, SessionState, Receipt
      <3> QED
        BY <1>15, <1>l, <1>s, <1>w, <2>1, <3>1, <3>2 DEF Receipt
    <2>3. CASE UNCHANGED sess
      BY <1>s, <1>w, <2>1, <2>3
    <2> QED
      BY <1>15, <2>2, <2>3 DEF Receipt
  <1>16. ASSUME NEW c \in Conn, NEW h \in Host, HandleCancel(c, h) PROVE Quiet'
    <2> DEFINE m == HeadMsg(c, h)
               state == IF copies[m] > 0 THEN Cancelled(mail[h][m]) ELSE "cancelled"
    <2>1. /\ m \in Msg /\ Popped(c, h) \in Wires /\ AllShorter(Popped(c, h), wire)
          /\ Head(wire[c][h]) \in Frames(wire[c][h])
      BY <1>16, <1>t, PoppedLoses, PoppedShorter DEF HandleCancel, HeadIs, HeadMsg, Frame
    <2>2. state \in State
      BY <1>t, <2>1 DEF Cancelled, Mails, State, Pending, Terminal
    <2>3. [type |-> "cancel_state", m |-> m, state |-> state] \in Frame
      BY <2>1, <2>2 DEF Frame
    <2>4. wire' = Written(c, h, Popped(c, h), [type |-> "cancel_state", m |-> m, state |-> state])
      BY <1>16 DEF HandleCancel
    <2>5. WireFrom
      BY <1>f, <2>1, <2>3, <2>4
    <2> QED
      BY <1>16, <1>s, <2>5 DEF HandleCancel
  <1>17. ASSUME NEW c \in Conn, NEW h \in Host, HandleCancelState(c, h) PROVE Quiet'
    <2>1. AllShorter(wire', wire) /\ UNCHANGED <<sess, up>>
      BY <1>17, <1>t, PoppedShorter DEF HandleCancelState, HeadIs
    <2> QED
      BY <1>s, <1>w, <2>1
  <1>18. ASSUME NEW m \in Msg,
                LocalSend(m) \/ LocalCancel(m) \/ Receive(m) \/ ReceiptLapses(m)
                \/ Respond(m) \/ ConfirmStop(m) \/ ClaimLapses(m)
         PROVE  UNCHANGED <<sess, wire, up>>
    BY <1>18 DEF LocalSend, LocalCancel, Receive, ReceiptLapses, Respond, ConfirmStop, ClaimLapses
  <1>19. ASSUME NEW h \in Host, LeaseLapses(h) \/ (\E m \in Msg : Expire(h, m))
         PROVE  UNCHANGED <<sess, wire, up>>
    BY <1>19 DEF Expire, LeaseLapses
  <1>20. CASE UNCHANGED vars
    BY <1>1, <1>20 DEF vars
  <1> QED
    BY <1>1, <1>3, <1>4, <1>5, <1>6, <1>7, <1>8, <1>9, <1>10, <1>11, <1>13, <1>14, <1>15,
       <1>16, <1>17, <1>18, <1>19, <1>20 DEF Next

-----------------------------------------------------------------------------
(***************************************************************************)
(* What is on its way                                                       *)
(***************************************************************************)

\* No delivery and no refusal is added, and no session takes a message in hand.
WireFalls ==
    \A d \in Conn, g \in Host :
        /\ \A x \in Frames(wire'[d][g]) :
                x.type \in {"deliver", "refused"} => x \in Frames(wire[d][g])
        /\ \A m \in Msg : Once(wire[d][g], m) => Once(wire'[d][g], m)

HandsFall ==
    \A d \in Conn, g \in Host : sess'[d][g].pc = "ingest"
        => sess[d][g].pc = "ingest" /\ sess'[d][g].hand = sess[d][g].hand

LEMMA ShorterFalls ==
    AllShorter(wire', wire) => WireFalls
  BY DEF AllShorter, Shorter, WireFalls

LEMMA WrittenFalls ==
    ASSUME NEW c \in Conn, NEW h \in Host, NEW w \in Wires, AllShorter(w, wire),
           NEW f \in Frame, f.type \notin {"deliver", "refused"},
           wire' = Written(c, h, w, f)
    PROVE  WireFalls
  <1> SUFFICES ASSUME NEW d \in Conn, NEW g \in Host
               PROVE  /\ \A x \in Frames(wire'[d][g]) :
                            x.type \in {"deliver", "refused"} => x \in Frames(wire[d][g])
                      /\ \A m \in Msg : Once(wire[d][g], m) => Once(wire'[d][g], m)
    BY DEF WireFalls
  <1>1. wire'[d][g] = w[d][g] \/ Longer(wire'[d][g], w[d][g], f)
    BY WrittenLonger
  <1>2. Shorter(w[d][g], wire[d][g])
    BY DEF AllShorter
  <1> QED
    BY <1>1, <1>2 DEF Shorter, Longer, IsDelivery

LEMMA HandsStepFalls ==
    ASSUME Sound, [Next]_vars, ~\E c \in Conn, h \in Host : IngestCheck(c, h)
    PROVE  HandsFall
  <1> USE DEF history, linkVars
  <1>t. sess \in Sessions /\ wire \in Wires
    BY DEF Sound, TypeOK, Sessions, Wires
  <1>1. ASSUME UNCHANGED sess PROVE HandsFall
    BY <1>1 DEF HandsFall
  <1>l. ASSUME NEW c \in Conn, NEW h \in Host, NEW s, Now(c, h, s), s.pc # "ingest"
        PROVE  HandsFall
    BY <1>l DEF Now, HandsFall
  <1>p. ASSUME NEW c \in Conn, NEW h \in Host, NEW p \in {"pump", "claim", "retire"},
               sess' = [sess EXCEPT ![c][h].pc = p]
        PROVE  HandsFall
    <2>1. Now(c, h, [sess[c][h] EXCEPT !.pc = p])
      BY <1>p, <1>t, SessionNow DEF Pc
    <2>2. [sess[c][h] EXCEPT !.pc = p].pc = p
      BY <1>t DEF Sessions, SessionState
    <2> QED
      BY <1>l, <2>1, <2>2
  <1>q. ASSUME NEW c \in Conn, NEW h \in Host, NEW p \in {"pump", "fail"},
               NEW x \in Msg \cup {None},
               sess' = [sess EXCEPT ![c][h].pc = p, ![c][h].hand = x]
        PROVE  HandsFall
    <2>1. Now(c, h, [sess[c][h] EXCEPT !.pc = p, !.hand = x])
      BY <1>q, <1>t, SessionNow DEF Pc
    <2>2. [sess[c][h] EXCEPT !.pc = p, !.hand = x].pc = p
      BY <1>t DEF Sessions, SessionState
    <2> QED
      BY <1>l, <2>1, <2>2
  <1>2. ASSUME NEW c \in Conn, NEW h \in Host, Hangup(c, h) PROVE HandsFall
    <2>1. Ended \in SessionState /\ Ended.pc # "ingest"
      BY DEF Ended, NoSession, SessionState, Pc
    <2> QED
      BY <1>2, <1>l, <1>t, <2>1, SessionNow DEF Hangup
  <1>3. ASSUME NEW c \in Conn, Connect(c) PROVE HandsFall
    <2>1. \A d \in Conn, g \in Host : sess'[d][g] =
            IF d = c THEN [NoSession EXCEPT !.pc = "hello"] ELSE sess[d][g]
      BY <1>3, <1>t DEF Connect, Sessions
    <2> QED
      BY <2>1 DEF NoSession, HandsFall
  <1>4. ASSUME NEW c \in Conn, NEW h \in Host, Acquire(c, h) PROVE HandsFall
    BY <1>2, <1>4, <1>p DEF Acquire
  <1>5. ASSUME NEW c \in Conn, NEW h \in Host,
               Renew(c, h) \/ Stop(c, h) \/ Die(c, h) \/ LostLease(c, h)
        PROVE  HandsFall
    BY <1>1, <1>2, <1>5 DEF Renew, Stop, Die, LostLease, Finish
  <1>6. ASSUME NEW c \in Conn, NEW h \in Host,
               ForwardCheck(c, h) \/ ForwardNothing(c, h) \/ IngestResponse(c, h)
        PROVE  HandsFall
    BY <1>6, <1>p DEF ForwardCheck, ForwardNothing, IngestResponse
  <1>7. ASSUME NEW c \in Conn, NEW h \in Host, NEW m \in Msg, Forward(c, h, m) PROVE HandsFall
    <2>1. CASE sess' = [sess EXCEPT ![c][h].pc = "fail", ![c][h].hand = m]
      BY <1>q, <2>1
    <2>2. CASE sess' = [sess EXCEPT ![c][h].pc = "pump", ![c][h].in_flight = @ \cup {m}]
      <3>1. Now(c, h, [sess[c][h] EXCEPT !.pc = "pump", !.in_flight = @ \cup {m}])
        BY <1>t, <2>2, SessionNow DEF Pc
      <3>2. [sess[c][h] EXCEPT !.pc = "pump", !.in_flight = @ \cup {m}].pc = "pump"
        BY <1>t DEF Sessions, SessionState
      <3> QED
        BY <1>l, <3>1, <3>2
    <2> QED
      BY <1>7, <2>1, <2>2 DEF Forward
  <1>8. ASSUME NEW c \in Conn, NEW h \in Host,
               ForwardFailed(c, h) \/ IngestReplay(c, h) \/ IngestRefuse(c, h) \/ Ingest(c, h)
               \/ RetireRequest(c, h)
        PROVE  HandsFall
    BY <1>2, <1>8, <1>q DEF ForwardFailed, Finish, IngestReplay, IngestRefuse, Ingest,
                            RetireRequest, Handled
  <1>9. ASSUME NEW c \in Conn, NEW h \in Host, NEW m \in Msg, ForwardCancel(c, h, m)
        PROVE  HandsFall
    <2>1. Now(c, h, [sess[c][h] EXCEPT !.cancels_sent = @ \cup {m}])
      BY <1>9, <1>t, SessionNow DEF ForwardCancel
    <2>2. [sess[c][h] EXCEPT !.cancels_sent = @ \cup {m}].pc = "pump"
      BY <1>9, <1>t DEF Sessions, SessionState, ForwardCancel
    <2> QED
      BY <1>l, <2>1, <2>2
  <1>10. ASSUME NEW c \in Conn, NEW h \in Host, Receipt(c, h) PROVE HandsFall
    <2>1. HeadMsg(c, h) \in Msg
      BY <1>10, <1>t, PoppedLoses DEF Receipt, HeadIs, HeadMsg, Frame
    <2>2. CASE sess' = [sess EXCEPT ![c][h].in_flight = @ \ {HeadMsg(c, h)}]
      <3>1. Now(c, h, [sess[c][h] EXCEPT !.in_flight = @ \ {HeadMsg(c, h)}])
        BY <1>t, <2>1, <2>2, SessionNow
      <3>2. [sess[c][h] EXCEPT !.in_flight = @ \ {HeadMsg(c, h)}].pc = "pump"
        BY <1>10, <1>t DEF Sessions, SessionState, Receipt
      <3> QED
        BY <1>l, <3>1, <3>2
    <2> QED
      BY <1>1, <1>10, <2>2 DEF Receipt
  <1>11. ASSUME NEW m \in Msg,
                LocalSend(m) \/ LocalCancel(m) \/ Receive(m) \/ ReceiptLapses(m)
                \/ Respond(m) \/ ConfirmStop(m) \/ ClaimLapses(m)
         PROVE  HandsFall
    BY <1>1, <1>11
       DEF LocalSend, LocalCancel, Receive, ReceiptLapses, Respond, ConfirmStop, ClaimLapses
  <1>12. ASSUME NEW h \in Host, LeaseLapses(h) \/ (\E m \in Msg : Expire(h, m))
         PROVE  HandsFall
    BY <1>1, <1>12 DEF Expire, LeaseLapses
  <1>13. ASSUME NEW c \in Conn, Break(c) \/ \E h \in Host : HandleCancel(c, h) \/ HandleCancelState(c, h)
         PROVE  HandsFall
    BY <1>1, <1>13 DEF Break, HandleCancel, HandleCancelState
  <1>14. CASE UNCHANGED vars
    BY <1>1, <1>14 DEF vars
  <1> QED
    BY <1>3, <1>4, <1>5, <1>6, <1>7, <1>8, <1>9, <1>10, <1>11, <1>12, <1>13, <1>14 DEF Next

\* The steps that put nothing of a message on its way: all but the one that
\* forwards it and the one that refuses it.
LEMMA WireStepFalls ==
    ASSUME Sound, [Next]_vars,
           ~\E c \in Conn, h \in Host : IngestRefuse(c, h) \/ \E m \in Msg : Forward(c, h, m)
    PROVE  WireFalls
  <1> USE DEF history, linkVars
  <1>t. wire \in Wires /\ mail \in Mails
    BY DEF Sound, TypeOK, Wires, Mails
  <1>1. ASSUME UNCHANGED wire PROVE WireFalls
    BY <1>1 DEF WireFalls
  <1>2. ASSUME NEW c \in Conn, NEW h \in Host, Hangup(c, h) PROVE WireFalls
    BY <1>2, <1>t, HangupShorter, ShorterFalls
  <1>3. ASSUME NEW c \in Conn, Break(c) PROVE WireFalls
    BY <1>3, <1>t, BreakShorter, ShorterFalls
  <1>4. ASSUME NEW c \in Conn, NEW h \in Host,
               Acquire(c, h) \/ Renew(c, h) \/ Stop(c, h) \/ Die(c, h) \/ LostLease(c, h)
               \/ ForwardFailed(c, h)
        PROVE  WireFalls
    BY <1>1, <1>2, <1>4 DEF Acquire, Renew, Stop, Die, LostLease, ForwardFailed, Finish
  <1>5. ASSUME NEW c \in Conn, NEW h \in Host, NEW m \in Msg, ForwardCancel(c, h, m)
        PROVE  WireFalls
    <2>1. [type |-> "cancel", m |-> m] \in Frame
      BY DEF Frame
    <2> QED
      BY <1>5, <1>t, <2>1, ShorterItself, WrittenFalls DEF ForwardCancel
  <1>6. ASSUME NEW c \in Conn, NEW h \in Host,
               IngestCheck(c, h) \/ Receipt(c, h) \/ HandleCancelState(c, h)
        PROVE  WireFalls
    BY <1>6, <1>t, PoppedShorter, ShorterFalls
       DEF IngestCheck, Receipt, HandleCancelState, HeadIs
  <1>7. ASSUME NEW c \in Conn, NEW h \in Host,
               sess[c][h].pc \in {"ingest", "retire"}, Handled(c, h, "accepted")
        PROVE  WireFalls
    <2>1. [type |-> "accepted", m |-> sess[c][h].hand] \in Frame
      BY <1>7 DEF Sound, Hands, Frame
    <2> QED
      BY <1>7, <1>t, <2>1, ShorterItself, WrittenFalls DEF Handled
  <1>8. ASSUME NEW c \in Conn, NEW h \in Host,
               IngestReplay(c, h) \/ Ingest(c, h) \/ RetireRequest(c, h)
        PROVE  WireFalls
    BY <1>7, <1>8 DEF IngestReplay, Ingest, RetireRequest
  <1>9. ASSUME NEW c \in Conn, NEW h \in Host, HandleCancel(c, h) PROVE WireFalls
    <2> DEFINE m == HeadMsg(c, h)
               state == IF copies[m] > 0 THEN Cancelled(mail[h][m]) ELSE "cancelled"
               f == [type |-> "cancel_state", m |-> m, state |-> state]
    <2>1. /\ m \in Msg /\ Popped(c, h) \in Wires /\ AllShorter(Popped(c, h), wire)
      BY <1>9, <1>t, PoppedLoses, PoppedShorter DEF HandleCancel, HeadIs, HeadMsg, Frame
    <2>2. state \in State
      BY <1>t, <2>1 DEF Cancelled, Mails, State, Pending, Terminal
    <2>3. f \in Frame /\ f.type \notin {"deliver", "refused"}
      BY <2>1, <2>2 DEF Frame
    <2>4. wire' = Written(c, h, Popped(c, h), f)
      BY <1>9 DEF HandleCancel
    <2> QED
      BY <2>1, <2>3, <2>4, WrittenFalls
  <1>10. ASSUME NEW m \in Msg,
                LocalSend(m) \/ LocalCancel(m) \/ Receive(m) \/ ReceiptLapses(m)
                \/ Respond(m) \/ ConfirmStop(m) \/ ClaimLapses(m)
         PROVE  UNCHANGED wire
    BY <1>10 DEF LocalSend, LocalCancel, Receive, ReceiptLapses, Respond, ConfirmStop, ClaimLapses
  <1>11. ASSUME (\E h \in Host, m \in Msg : Expire(h, m)) \/ (\E h \in Host : LeaseLapses(h))
                \/ (\E c \in Conn : Connect(c))
                \/ (\E c \in Conn, h \in Host :
                        ForwardCheck(c, h) \/ ForwardNothing(c, h) \/ IngestResponse(c, h))
         PROVE  UNCHANGED wire
    BY <1>11 DEF Expire, LeaseLapses, Connect, ForwardCheck, ForwardNothing, IngestResponse
  <1>12. CASE UNCHANGED vars
    BY <1>1, <1>12 DEF vars
  <1> QED
    BY <1>1, <1>3, <1>4, <1>5, <1>6, <1>8, <1>9, <1>10, <1>11, <1>12 DEF Next

\* Nothing of m is on its way that was not.
TokensFall(m) ==
    \A c \in Conn :
        /\ Delivering(c, m)' => Delivering(c, m)
        /\ Deciding(c, m)' => Deciding(c, m)
        /\ Refused(c, m)' => Refused(c, m)
        /\ Once(wire[c][Dest(m)], m) => Once(wire'[c][Dest(m)], m)

LEMMA TokensFallFrom ==
    ASSUME WireFalls, HandsFall, NEW m \in Msg
    PROVE  TokensFall(m)
  <1> SUFFICES ASSUME NEW c \in Conn
               PROVE  /\ Delivering(c, m)' => Delivering(c, m)
                      /\ Deciding(c, m)' => Deciding(c, m)
                      /\ Refused(c, m)' => Refused(c, m)
                      /\ Once(wire[c][Dest(m)], m) => Once(wire'[c][Dest(m)], m)
    BY DEF TokensFall
  <1>1. Dest(m) \in Host /\ Home[m] \in Host
    BY Ends
  <1>2. Delivering(c, m)' => Delivering(c, m)
    BY <1>1 DEF WireFalls, Delivering, IsDelivery
  <1>3. Refused(c, m)' => Refused(c, m)
    BY <1>1 DEF WireFalls, Refused
  <1>4. Deciding(c, m)' => Deciding(c, m)
    BY <1>1 DEF HandsFall, Deciding
  <1> QED
    BY <1>1, <1>2, <1>3, <1>4 DEF WireFalls

\* What a step may do to the home row of a message of which nothing new is on
\* its way.
RowSettles(m) ==
    \/ mail'[Home[m]][m] = mail[Home[m]][m] /\ owner'[m] = owner[m]
    \/ mail'[Home[m]][m] \notin {"absent", "queued", "claimed", "undeliverable"}
    \/ mail'[Home[m]][m] = "queued" /\ \A c \in Conn : NothingLeft(c, m)'
    \/ mail'[Home[m]][m] = "undeliverable" /\ copies[m] = 0 /\ \A c \in Conn : ~Landing(c, m)

LEMMA OutcomeKept ==
    ASSUME NEW m \in Msg, Outcome(m), TokensFall(m), RowSettles(m), copies'[m] = copies[m]
    PROVE  Outcome(m)'
  <1>1. ASSUME mail'[Home[m]][m] = mail[Home[m]][m], owner'[m] = owner[m]
        PROVE  Outcome(m)'
    <2>1. ASSUME NEW c \in Conn, OneThing(c, m) PROVE OneThing(c, m)'
      BY <1>1, <2>1 DEF TokensFall, OneThing, Landing
    <2>2. ASSUME NEW c \in Conn, NothingLeft(c, m) PROVE NothingLeft(c, m)'
      BY <2>2 DEF TokensFall, NothingLeft, Landing
    <2>3. ASSUME NEW c \in Conn, ~Landing(c, m) PROVE ~Landing(c, m)'
      BY <2>3 DEF TokensFall, Landing
    <2> QED
      BY <1>1, <2>1, <2>2, <2>3 DEF Outcome
  <1>2. ASSUME NEW c \in Conn, ~Landing(c, m) PROVE ~Landing(c, m)'
    BY <1>2 DEF TokensFall, Landing
  <1> QED
    BY <1>1, <1>2 DEF RowSettles, Outcome

\* Nothing is left of a message on a connection that is over.
LEMMA OverLeavesNothing ==
    ASSUME Quiet, NEW c \in Conn, NEW m \in Msg, ~Using(c)
    PROVE  NothingLeft(c, m)
  <1>1. Dest(m) \in Host /\ Home[m] \in Host
    BY Ends
  <1>2. wire[c][Dest(m)] = << >> /\ wire[c][Home[m]] = << >> /\ ~Alive(sess[c][Dest(m)])
    BY <1>1 DEF Quiet, Using
  <1>3. ~Delivering(c, m) /\ ~Refused(c, m)
    BY <1>2 DEF Delivering, Refused, Frames
  <1>4. ~Deciding(c, m)
    BY <1>2 DEF Deciding, Alive
  <1> QED
    BY <1>3, <1>4 DEF NothingLeft, Landing

\* Claims go back on the outbox when nothing of them is on its way: the
\* connection they were claimed for is over, or this step ends it.
LEMMA RequeueSettles ==
    ASSUME Sound, Outcomes, NEW s, NEW running, RequeueClaims(s, running),
           NEW m \in Msg \ resent', TokensFall(m),
           \A c \in Conn : s = <<c, Home[m]>> /\ ~running => NothingLeft(c, m)'
    PROVE  RowSettles(m)
  <1>1. m \in Msg \ resent /\ Home[m] \in Host
    BY Ends DEF RequeueClaims
  <1>2. CASE m \in ClaimsOf(s)
    <2>1. ~running /\ mail'[Home[m]][m] = "queued"
      BY <1>1, <1>2 DEF RequeueClaims
    <2>2. \A c \in Conn : OneThing(c, m)
      BY <1>1, <1>2 DEF ClaimsOf, Outcomes, Outcome
    <2>3. ASSUME NEW c \in Conn PROVE NothingLeft(c, m)'
      <3>1. CASE s = <<c, Home[m]>>
        BY <2>1, <3>1
      <3>2. CASE s # <<c, Home[m]>>
        <4>1. NothingLeft(c, m)
          BY <1>2, <2>2, <3>2 DEF ClaimsOf, OneThing, NothingLeft
        <4> QED
          BY <4>1 DEF TokensFall, NothingLeft, Landing
      <3> QED
        BY <3>1, <3>2
    <2> QED
      BY <2>1, <2>3 DEF RowSettles
  <1>3. CASE m \notin ClaimsOf(s)
    BY <1>1, <1>3 DEF RequeueClaims, RowSettles
  <1> QED
    BY <1>2, <1>3

LEMMA TakeLeaseSettles ==
    ASSUME Sound, Quiet, Outcomes, NEW c \in Conn, NEW h \in Host, TakeLease(c, h),
           NEW m \in Msg \ resent', TokensFall(m)
    PROVE  RowSettles(m)
  <1> DEFINE s == lease[h].owner
  <1>1. CASE HeldByOther(<<c, h>>, h)
    <2>1. RequeueClaims(s, Using(s[1]))
      BY <1>1 DEF TakeLease
    <2>2. ASSUME NEW d \in Conn, s = <<d, Home[m]>>, ~Using(s[1])
          PROVE  NothingLeft(d, m)'
      <3>1. NothingLeft(d, m)
        BY <2>2, OverLeavesNothing
      <3> QED
        BY <3>1 DEF TokensFall, NothingLeft, Landing
    <2> QED
      BY <2>1, <2>2, RequeueSettles
  <1>2. CASE ~HeldByOther(<<c, h>>, h)
    BY <1>2 DEF TakeLease, RowSettles
  <1> QED
    BY <1>1, <1>2

LEMMA FinishSettles ==
    ASSUME Sound, Quiet, Outcomes, NEW c \in Conn, NEW h \in Host, Finish(c, h),
           NEW m \in Msg \ resent', TokensFall(m)
    PROVE  RowSettles(m)
  <1>t. sess \in Sessions /\ wire \in Wires
    BY DEF Sound, TypeOK, Sessions, Wires
  <1>h. Home[m] \in Host /\ Dest(m) \in Host /\ Other(h) \in Host
        /\ (Home[m] = h => Dest(m) = Other(h))
    BY Ends, Others DEF Dest
  <1>1. CASE lease[h].owner = <<c, h>>
    <2>1. RequeueClaims(<<c, h>>, Alive(sess[c][Other(h)]))
      BY <1>1 DEF Finish, ReleaseLease
    <2>2. ASSUME NEW d \in Conn, <<c, h>> = <<d, Home[m]>>, ~Alive(sess[c][Other(h)])
          PROVE  NothingLeft(d, m)'
      <3>1. d = c /\ Home[m] = h /\ Dest(m) = Other(h)
        BY <1>h, <2>2
      <3>2. AllShorter(wire', wire) /\ wire'[c][h] = << >>
        BY <1>t, HangupShorter DEF Finish
      <3>3. wire'[c][Other(h)] = << >>
        BY <1>h, <2>2, <3>2 DEF Quiet, AllShorter, Shorter
      <3>4. sess[c][Other(h)].pc # "ingest"
        BY <2>2 DEF Alive
      <3>5. ~Deciding(c, m)'
        BY <3>1, <3>4 DEF TokensFall, Deciding
      <3>6. ~Delivering(c, m)' /\ ~Refused(c, m)'
        BY <3>1, <3>2, <3>3 DEF Delivering, Refused, Frames
      <3> QED
        BY <3>1, <3>5, <3>6 DEF NothingLeft, Landing
    <2> QED
      BY <2>1, <2>2, RequeueSettles
  <1>2. CASE lease[h].owner # <<c, h>>
    BY <1>2 DEF Finish, ReleaseLease, RowSettles
  <1> QED
    BY <1>1, <1>2

\* A claim that lapses is queued again unmarked only when its connection is
\* over.
LEMMA LapseSettles ==
    ASSUME Sound, Quiet, Outcomes, NEW n \in Msg, ClaimLapses(n),
           NEW m \in Msg \ resent', TokensFall(m)
    PROVE  RowSettles(m)
  <1>h. Home[m] \in Host /\ Home[n] \in Host
    BY Ends
  <1>t. mail \in Mails /\ owner \in Owners
    BY DEF Sound, TypeOK, Mails, Owners
  <1>1. CASE m = n
    <2>1. m \in Msg \ resent /\ ~Using(owner[m][1])
      BY <1>1 DEF ClaimLapses
    <2>2. \A c \in Conn : OneThing(c, m)
      BY <1>1, <2>1 DEF ClaimLapses, Outcomes, Outcome
    <2>3. ASSUME NEW c \in Conn PROVE NothingLeft(c, m)'
      <3>1. CASE owner[m] = <<c, Home[m]>>
        <4>1. NothingLeft(c, m)
          BY <2>1, <3>1, OverLeavesNothing
        <4> QED
          BY <4>1 DEF TokensFall, NothingLeft, Landing
      <3>2. CASE owner[m] # <<c, Home[m]>>
        <4>1. NothingLeft(c, m)
          BY <2>2, <3>2 DEF OneThing, NothingLeft
        <4> QED
          BY <4>1 DEF TokensFall, NothingLeft, Landing
      <3> QED
        BY <3>1, <3>2
    <2>4. mail'[Home[m]][m] = "queued"
      BY <1>1, <1>h, <1>t DEF ClaimLapses, Mails
    <2> QED
      BY <2>3, <2>4 DEF RowSettles
  <1>2. CASE m # n
    BY <1>2, <1>h, <1>t DEF ClaimLapses, RowSettles, Mails, Owners
  <1> QED
    BY <1>1, <1>2

\* A frame about another message adds nothing of m.
LEMMA OtherFrameFalls ==
    ASSUME Sound, HandsFall, NEW c \in Conn, NEW h \in Host, NEW f \in Frame,
           NEW m \in Msg, f.m # m, wire' = Written(c, h, wire, f)
    PROVE  TokensFall(m)
  <1>t. wire \in Wires
    BY DEF Sound, TypeOK, Wires
  <1>1. Dest(m) \in Host /\ Home[m] \in Host
    BY Ends
  <1>2. \A d \in Conn, g \in Host :
            wire'[d][g] = wire[d][g] \/ Longer(wire'[d][g], wire[d][g], f)
    BY <1>t, WrittenLonger
  <1>3. ~IsDelivery(f, m)
    BY DEF IsDelivery
  <1>4. ASSUME NEW d \in Conn, NEW g \in Host, NEW x \in Frames(wire'[d][g]), x.m = m
        PROVE  x \in Frames(wire[d][g])
    BY <1>2, <1>4 DEF Longer
  <1>5. ASSUME NEW d \in Conn, NEW g \in Host, Once(wire[d][g], m)
        PROVE  Once(wire'[d][g], m)
    BY <1>2, <1>3, <1>5 DEF Longer
  <1>6. \A d \in Conn : Delivering(d, m)' => Delivering(d, m)
    BY <1>1, <1>4 DEF Delivering, IsDelivery
  <1>7. \A d \in Conn : Refused(d, m)' => Refused(d, m)
    BY <1>1, <1>4 DEF Refused
  <1>8. \A d \in Conn : Deciding(d, m)' => Deciding(d, m)
    BY <1>1 DEF HandsFall, Deciding
  <1> QED
    BY <1>1, <1>5, <1>6, <1>7, <1>8 DEF TokensFall

\* Of a message that no step forwards, takes in hand or refuses, nothing new is
\* on its way.
LEMMA TokensStep ==
    ASSUME Sound, [Next]_vars, NEW m \in Msg,
           ~\E c \in Conn, h \in Host :
                \/ Forward(c, h, m)
                \/ IngestCheck(c, h) /\ HeadMsg(c, h) = m
                \/ IngestRefuse(c, h) /\ sess[c][h].hand = m
    PROVE  TokensFall(m)
  <1>t. sess \in Sessions /\ wire \in Wires
    BY DEF Sound, TypeOK, Sessions, Wires
  <1>h. Dest(m) \in Host /\ Home[m] \in Host
    BY Ends
  <1>1. ASSUME NEW c \in Conn, NEW h \in Host, IngestCheck(c, h) PROVE TokensFall(m)
    <2>1. HeadMsg(c, h) \in Msg /\ HeadMsg(c, h) # m /\ AllShorter(wire', wire)
      BY <1>1, <1>t, PoppedLoses, PoppedShorter DEF IngestCheck, HeadIs, HeadMsg, Frame
    <2>2. Now(c, h, [sess[c][h] EXCEPT !.pc = "ingest", !.hand = HeadMsg(c, h)])
      BY <1>1, <1>t, <2>1, SessionNow DEF IngestCheck, Pc
    <2>3. [sess[c][h] EXCEPT !.pc = "ingest", !.hand = HeadMsg(c, h)].hand # m
      BY <1>t, <2>1 DEF Sessions, SessionState
    <2>4. \A d \in Conn : Deciding(d, m)' => Deciding(d, m)
      BY <1>h, <2>2, <2>3 DEF Now, Deciding
    <2>5. WireFalls
      BY <2>1, ShorterFalls
    <2>6. \A d \in Conn : Delivering(d, m)' => Delivering(d, m)
      BY <1>h, <2>5 DEF WireFalls, Delivering, IsDelivery
    <2>7. \A d \in Conn : Refused(d, m)' => Refused(d, m)
      BY <1>h, <2>5 DEF WireFalls, Refused
    <2> QED
      BY <1>h, <2>4, <2>5, <2>6, <2>7 DEF WireFalls, TokensFall
  <1>2. CASE ~\E c \in Conn, h \in Host : IngestCheck(c, h)
    <2>1. HandsFall
      BY <1>2, HandsStepFalls
    <2>2. ASSUME NEW c \in Conn, NEW h \in Host, IngestRefuse(c, h) PROVE TokensFall(m)
      <3>1. [type |-> "refused", m |-> sess[c][h].hand] \in Frame
        BY <2>2 DEF Sound, Hands, Frame, IngestRefuse
      <3> QED
        BY <2>1, <2>2, <3>1, OtherFrameFalls DEF IngestRefuse, Handled
    <2>3. ASSUME NEW c \in Conn, NEW h \in Host, NEW n \in Msg, Forward(c, h, n)
          PROVE  TokensFall(m)
      <3>1. [type |-> "deliver", m |-> n] \in Frame
        BY DEF Frame
      <3>2. CASE UNCHANGED wire
        <4>1. WireFalls
          BY <3>2 DEF WireFalls
        <4> QED
          BY <2>1, <4>1, TokensFallFrom
      <3>3. CASE wire' = Written(c, h, wire, [type |-> "deliver", m |-> n])
        BY <2>1, <2>3, <3>1, <3>3, OtherFrameFalls
      <3> QED
        BY <2>3, <3>2, <3>3 DEF Forward
    <2>4. CASE ~\E c \in Conn, h \in Host : IngestRefuse(c, h) \/ \E n \in Msg : Forward(c, h, n)
      BY <2>1, <2>4, WireStepFalls, TokensFallFrom
    <2> QED
      BY <2>2, <2>3, <2>4
  <1> QED
    BY <1>1, <1>2

\* A row is written only by the bridge of the receiving store, for the message
\* in its hand.
LEMMA CopiesStep ==
    ASSUME Sound, [Next]_vars, NEW m \in Msg, copies'[m] # copies[m]
    PROVE  \E c \in Conn, h \in Host :
              sess[c][h].hand = m /\ (Ingest(c, h) \/ IngestResponse(c, h))
  <1> USE DEF history, linkVars
  <1>t. copies \in [Msg -> Nat]
    BY DEF Sound, TypeOK
  <1>1. copies' # copies
    OBVIOUS
  <1>2. PICK c \in Conn, h \in Host : Ingest(c, h) \/ IngestResponse(c, h)
    <2>1. ASSUME NEW n \in Msg,
                 LocalSend(n) \/ LocalCancel(n) \/ Receive(n) \/ ReceiptLapses(n)
                 \/ Respond(n) \/ ConfirmStop(n) \/ ClaimLapses(n)
          PROVE  FALSE
      BY <1>1, <2>1
         DEF LocalSend, LocalCancel, Receive, ReceiptLapses, Respond, ConfirmStop, ClaimLapses
    <2>2. ASSUME (\E h \in Host, n \in Msg : Expire(h, n)) \/ (\E h \in Host : LeaseLapses(h))
                 \/ (\E c \in Conn : Connect(c) \/ Break(c))
          PROVE  FALSE
      BY <1>1, <2>2 DEF Expire, LeaseLapses, Connect, Break
    <2>3. ASSUME NEW c \in Conn, NEW h \in Host,
                 \/ Acquire(c, h) \/ Renew(c, h) \/ Stop(c, h) \/ Die(c, h)
                 \/ ForwardCheck(c, h) \/ (\E n \in Msg : Forward(c, h, n))
                 \/ ForwardFailed(c, h) \/ ForwardNothing(c, h)
                 \/ (\E n \in Msg : ForwardCancel(c, h, n)) \/ LostLease(c, h)
          PROVE  FALSE
      BY <1>1, <2>3 DEF Acquire, Renew, Stop, Die, ForwardCheck, Forward, ForwardFailed,
                        ForwardNothing, ForwardCancel, LostLease
    <2>4. ASSUME NEW c \in Conn, NEW h \in Host,
                 \/ IngestCheck(c, h) \/ IngestReplay(c, h) \/ IngestRefuse(c, h)
                 \/ RetireRequest(c, h) \/ Receipt(c, h) \/ HandleCancel(c, h)
                 \/ HandleCancelState(c, h)
          PROVE  FALSE
      BY <1>1, <2>4 DEF IngestCheck, IngestReplay, IngestRefuse, RetireRequest, Receipt,
                        HandleCancel, HandleCancelState
    <2>5. CASE UNCHANGED vars
      BY <1>1, <2>5 DEF vars
    <2> QED
      BY <2>1, <2>2, <2>3, <2>4, <2>5 DEF Next
  <1>3. copies' = [copies EXCEPT ![sess[c][h].hand] = @ + 1]
    BY <1>2 DEF Ingest, IngestResponse
  <1> QED
    BY <1>2, <1>3, <1>t

LEMMA ResentGrows ==
    ASSUME [Next]_vars
    PROVE  resent \subseteq resent'
  <1> USE DEF history, linkVars, RequeueClaims
  <1>1. ASSUME NEW n \in Msg,
               LocalSend(n) \/ LocalCancel(n) \/ Receive(n) \/ ReceiptLapses(n)
               \/ Respond(n) \/ ConfirmStop(n) \/ ClaimLapses(n)
        PROVE  resent \subseteq resent'
    BY <1>1
       DEF LocalSend, LocalCancel, Receive, ReceiptLapses, Respond, ConfirmStop, ClaimLapses
  <1>2. ASSUME (\E h \in Host, n \in Msg : Expire(h, n)) \/ (\E h \in Host : LeaseLapses(h))
               \/ (\E c \in Conn : Connect(c) \/ Break(c))
        PROVE  resent \subseteq resent'
    BY <1>2 DEF Expire, LeaseLapses, Connect, Break
  <1>3. ASSUME NEW c \in Conn, NEW h \in Host,
               \/ Acquire(c, h) \/ Renew(c, h) \/ Stop(c, h) \/ Die(c, h)
               \/ ForwardFailed(c, h) \/ LostLease(c, h)
        PROVE  resent \subseteq resent'
    <2>1. TakeLease(c, h) => resent \subseteq resent'
      BY DEF TakeLease
    <2>2. Finish(c, h) => resent \subseteq resent'
      BY DEF Finish, ReleaseLease
    <2> QED
      BY <1>3, <2>1, <2>2 DEF Acquire, Renew, Stop, Die, ForwardFailed, LostLease
  <1>4. ASSUME NEW c \in Conn, NEW h \in Host,
               \/ ForwardCheck(c, h) \/ (\E n \in Msg : Forward(c, h, n))
               \/ ForwardNothing(c, h) \/ (\E n \in Msg : ForwardCancel(c, h, n))
               \/ IngestCheck(c, h) \/ IngestReplay(c, h) \/ IngestRefuse(c, h)
               \/ Ingest(c, h) \/ IngestResponse(c, h)
               \/ RetireRequest(c, h) \/ Receipt(c, h) \/ HandleCancel(c, h)
               \/ HandleCancelState(c, h)
        PROVE  resent \subseteq resent'
    BY <1>4 DEF ForwardCheck, Forward, ForwardNothing, ForwardCancel, IngestCheck,
                IngestReplay, IngestRefuse, Ingest, IngestResponse, RetireRequest, Receipt,
                HandleCancel, HandleCancelState
  <1>5. CASE UNCHANGED vars
    BY <1>5 DEF vars
  <1> QED
    BY <1>1, <1>2, <1>3, <1>4, <1>5 DEF Next

\* Steps that write one row of another store, or one that is thereby settled.
LEMMA OneRowSettles ==
    ASSUME Sound, NEW g \in Host, NEW n \in Msg, NEW s \in State, NEW m \in Msg,
           mail' = [mail EXCEPT ![g][n] = s],
           owner' = owner \/ owner' = [owner EXCEPT ![n] = None],
           \/ g # Home[n] /\ owner' = owner
           \/ g = Home[n] /\ s \notin {"absent", "queued", "claimed", "undeliverable"}
    PROVE  RowSettles(m)
  <1>1. \A x \in Host, q \in Msg : mail'[x][q] = IF x = g /\ q = n THEN s ELSE mail[x][q]
    BY MailSet DEF Sound, TypeOK, Mails
  <1>2. \A q \in Msg : q # n => owner'[q] = owner[q]
    BY DEF Sound, TypeOK
  <1>3. Home[m] \in Host
    BY Ends
  <1>4. CASE m = n /\ g = Home[n]
    BY <1>1, <1>3, <1>4 DEF RowSettles
  <1>5. CASE m # n
    BY <1>1, <1>2, <1>3, <1>5 DEF RowSettles
  <1>6. CASE m = n /\ g # Home[n]
    BY <1>1, <1>3, <1>6 DEF RowSettles
  <1> QED
    BY <1>4, <1>5, <1>6

\* The home rows of messages that are not forwarded.
LEMMA RowsSettle ==
    ASSUME Sound, Quiet, Outcomes, Unsent, [Next]_vars,
           NEW m \in Msg \ resent', TokensFall(m),
           ~\E c \in Conn, h \in Host : Forward(c, h, m)
    PROVE  RowSettles(m)
  <1> USE DEF history, linkVars
  <1>t. mail \in Mails /\ wire \in Wires /\ owner \in Owners
    BY DEF Sound, TypeOK, Mails, Wires, Owners
  <1>h. Home[m] \in Host /\ Dest(m) \in Host /\ Home[m] # Dest(m)
    BY Ends
  <1>r. m \in Msg \ resent
    BY ResentGrows
  <1>u. ASSUME UNCHANGED <<mail, owner>> PROVE RowSettles(m)
    BY <1>u DEF RowSettles
  <1>1. ASSUME NEW n \in Msg, LocalSend(n) \/ Respond(n) PROVE RowSettles(m)
    <2>1. Home[n] \in Host
      BY Ends
    <2>2. CASE m = n
      <3>1. mail[Home[m]][m] = "absent"
        BY <1>1, <2>2 DEF LocalSend, Respond
      <3>2. \A c \in Conn : NothingLeft(c, m)
        BY <1>r, <3>1 DEF Outcomes, Outcome
      <3>3. \A c \in Conn : NothingLeft(c, m)'
        BY <3>2 DEF TokensFall, NothingLeft, Landing
      <3>4. mail'[Home[m]][m] = "queued"
        <4>1. CASE LocalSend(n)
          BY <1>t, <2>1, <2>2, <4>1 DEF LocalSend, Mails
        <4>2. CASE Respond(n)
          <5>1. ReplyTo[n] # n
            BY <4>2, AnswerEnds, MsgAssumption DEF Respond
          <5> QED
            BY <1>t, <2>1, <2>2, <4>2, <5>1 DEF Respond, Mails
        <4> QED
          BY <1>1, <4>1, <4>2
      <3> QED
        BY <3>3, <3>4 DEF RowSettles
    <2>3. CASE m # n
      <3>1. owner' = owner
        BY <1>1 DEF LocalSend, Respond
      <3>2. CASE LocalSend(n)
        BY <1>t, <1>h, <2>3, <3>1, <3>2 DEF LocalSend, Mails, RowSettles
      <3>3. CASE Respond(n)
        <4>1. Home[n] = Dest(ReplyTo[n]) /\ ReplyTo[n] \in Msg
          BY <3>3, AnswerEnds DEF Respond
        <4>2. ~(Home[m] = Home[n] /\ m = ReplyTo[n])
          BY <1>h, <4>1
        <4>3. mail'[Home[m]][m] = mail[Home[m]][m]
          BY <1>t, <1>h, <2>1, <2>3, <3>3, <4>2 DEF Respond, Mails
        <4> QED
          BY <3>1, <4>3 DEF RowSettles
      <3> QED
        BY <1>1, <3>2, <3>3
    <2> QED
      BY <2>2, <2>3
  <1>2. ASSUME NEW n \in Msg, LocalCancel(n) PROVE RowSettles(m)
    <2>1. PICK s \in {"cancelled", "cancellation_requested"} :
            mail' = [mail EXCEPT ![Home[n]][n] = s]
      BY <1>2, <1>t, Ends DEF LocalCancel, Cancelled, Mails
    <2>2. owner' = owner /\ s \in State
      BY <1>2 DEF LocalCancel, State, Pending, Terminal
    <2> QED
      BY <2>1, <2>2, Ends, OneRowSettles
  <1>3. ASSUME NEW n \in Msg, Receive(n) \/ ReceiptLapses(n) \/ ConfirmStop(n) PROVE RowSettles(m)
    <2>1. PICK s \in {"consumed", "claimed", "queued", "cancelled"} :
            mail' = [mail EXCEPT ![Dest(n)][n] = s]
      BY <1>3 DEF Receive, ReceiptLapses, ConfirmStop
    <2>2. owner' = owner /\ s \in State
      BY <1>3 DEF Receive, ReceiptLapses, ConfirmStop, State, Pending, Terminal
    <2> QED
      BY <2>1, <2>2, Ends, OneRowSettles
  <1>4. ASSUME NEW g \in Host, NEW n \in Msg, Expire(g, n) PROVE RowSettles(m)
    BY <1>4, <1>h, <1>t DEF Expire, RowSettles, Mails
  <1>5. ASSUME NEW n \in Msg, ClaimLapses(n) PROVE RowSettles(m)
    BY <1>5, LapseSettles
  <1>6. ASSUME NEW c \in Conn, NEW h \in Host, Acquire(c, h) \/ Renew(c, h) \/ Stop(c, h)
                    \/ Die(c, h) \/ LostLease(c, h)
        PROVE  RowSettles(m)
    BY <1>6, <1>u, TakeLeaseSettles, FinishSettles DEF Acquire, Renew, Stop, Die, LostLease
  <1>7. ASSUME NEW c \in Conn, NEW h \in Host, NEW n \in Msg, Forward(c, h, n)
        PROVE  RowSettles(m)
    <2>1. m # n
      BY <1>7
    <2> QED
      BY <1>7, <1>h, <1>t, <2>1 DEF Forward, RowSettles, Mails, Owners
  <1>8. ASSUME NEW c \in Conn, NEW h \in Host, ForwardFailed(c, h) PROVE RowSettles(m)
    <2> DEFINE n == sess[c][h].hand
               s == IF n \in Inexpressible THEN "undeliverable" ELSE "too_late"
    <2>1. n \in Msg /\ Home[n] = h
      BY <1>8 DEF Sound, Hands, ForwardFailed
    <2>2. CASE ~HoldsLease(c, h)
      BY <1>8, <2>2, FinishSettles DEF ForwardFailed
    <2>3. CASE HoldsLease(c, h)
      <3>1. Settle(c, h, n, s)
        BY <1>8, <2>3 DEF ForwardFailed
      <3>2. CASE UNCHANGED <<mail, owner>>
        BY <1>u, <3>2
      <3>3. CASE mail' = [mail EXCEPT ![h][n] = s] /\ owner' = [owner EXCEPT ![n] = None]
        <4>1. CASE m = n /\ n \in Inexpressible
          <5>1. copies[m] = 0 /\ \A d \in Conn : ~Landing(d, m)
            BY <4>1 DEF Unsent
          <5>2. mail'[Home[m]][m] = "undeliverable"
            BY <1>t, <2>1, <3>3, <4>1 DEF Mails
          <5> QED
            BY <5>1, <5>2 DEF RowSettles
        <4>2. CASE n \notin Inexpressible
          BY <2>1, <3>3, <4>2, OneRowSettles DEF State, Terminal
        <4>3. CASE m # n
          BY <1>h, <1>t, <3>3, <4>3 DEF RowSettles, Mails, Owners
        <4> QED
          BY <4>1, <4>2, <4>3
      <3> QED
        BY <3>1, <3>2, <3>3 DEF Settle
    <2> QED
      BY <2>2, <2>3
  <1>9. ASSUME NEW c \in Conn, NEW h \in Host, Ingest(c, h) \/ IngestResponse(c, h)
        PROVE  RowSettles(m)
    <2>1. sess[c][h].hand \in Msg /\ Dest(sess[c][h].hand) = h
      BY <1>9 DEF Sound, Hands, Ingest, IngestResponse
    <2>2. mail' = [mail EXCEPT ![h][sess[c][h].hand] = "queued"] /\ owner' = owner
      BY <1>9 DEF Ingest, IngestResponse
    <2> QED
      BY <2>1, <2>2, Ends, OneRowSettles DEF State, Pending
  <1>10. ASSUME NEW c \in Conn, NEW h \in Host, RetireRequest(c, h) PROVE RowSettles(m)
    <2> DEFINE r == sess[c][h].hand
    <2>1. r \in Response /\ Dest(r) = h
      BY <1>10 DEF Sound, Hands, RetireRequest
    <2>2. ReplyTo[r] \in Msg /\ Home[ReplyTo[r]] = h
      BY <2>1, AnswerEnds
    <2>3. CASE mail[h][ReplyTo[r]] \in Pending
      <3>1. /\ mail' = [mail EXCEPT ![h][ReplyTo[r]] = "consumed"]
            /\ owner' = [owner EXCEPT ![ReplyTo[r]] = None]
        BY <1>10, <2>3 DEF RetireRequest
      <3> QED
        BY <2>2, <3>1, OneRowSettles DEF State, Terminal
    <2>4. CASE mail[h][ReplyTo[r]] \notin Pending
      BY <1>10, <1>u, <2>4 DEF RetireRequest
    <2> QED
      BY <2>3, <2>4
  <1>11. ASSUME NEW c \in Conn, NEW h \in Host, Receipt(c, h) PROVE RowSettles(m)
    <2> DEFINE n == HeadMsg(c, h)
               s == IF HeadIs(c, h, "refused") THEN "undeliverable"
                    ELSE IF n \in Request THEN "delivered" ELSE "consumed"
    <2>1. Head(wire[c][h]) \in Frames(wire[c][h]) /\ wire[c][h] # << >>
      BY <1>11, <1>t, PoppedLoses DEF Receipt, HeadIs
    <2>2. n \in Msg /\ Home[n] = h
      BY <1>11, <2>1 DEF Sound, FramesSound, HeadMsg, Receipt, HeadIs
    <2>3. CASE UNCHANGED <<mail, owner>>
      BY <1>u, <2>3
    <2>4. CASE /\ mail[h][n] = "claimed" /\ owner[n] = <<c, h>>
               /\ mail' = [mail EXCEPT ![h][n] = s] /\ owner' = [owner EXCEPT ![n] = None]
      <3>1. CASE m = n /\ HeadIs(c, h, "refused")
        <4>1. Refused(c, m)
          BY <2>1, <2>2, <3>1 DEF Refused, HeadIs, HeadMsg
        <4>2. \A d \in Conn : OneThing(d, m)
          BY <1>r, <2>2, <2>4, <3>1 DEF Outcomes, Outcome
        <4>3. copies[m] = 0 /\ ~Landing(c, m)
          BY <4>1, <4>2 DEF OneThing
        <4>4. ASSUME NEW d \in Conn PROVE ~Landing(d, m)
          BY <2>4, <3>1, <4>2, <4>3 DEF OneThing
        <4>5. mail'[Home[m]][m] = "undeliverable"
          BY <1>t, <2>2, <2>4, <3>1 DEF Mails
        <4> QED
          BY <4>3, <4>4, <4>5 DEF RowSettles
      <3>2. CASE ~HeadIs(c, h, "refused")
        <4>1. s \in State /\ s \notin {"absent", "queued", "claimed", "undeliverable"}
          BY <3>2 DEF State, Pending, Terminal
        <4> HIDE DEF s
        <4> QED
          BY <2>2, <2>4, <4>1, OneRowSettles
      <3>3. CASE m # n
        BY <1>h, <1>t, <2>4, <3>3 DEF RowSettles, Mails, Owners
      <3> QED
        BY <3>1, <3>2, <3>3
    <2> QED
      BY <1>11, <2>3, <2>4 DEF Receipt, Settle
  <1>12. ASSUME NEW c \in Conn, NEW h \in Host, HandleCancel(c, h) PROVE RowSettles(m)
    <2> DEFINE n == HeadMsg(c, h)
    <2>1. Head(wire[c][h]) \in Frames(wire[c][h]) /\ Head(wire[c][h]).type = "cancel"
      BY <1>12, <1>t, PoppedLoses DEF HandleCancel, HeadIs
    <2>2. n \in Msg /\ Dest(n) = h
      BY <2>1 DEF Sound, FramesSound, HeadMsg
    <2>3. ~(Home[m] = h /\ m = n)
      BY <1>h, <2>2
    <2>4. mail'[Home[m]][m] = mail[Home[m]][m] /\ owner' = owner
      BY <1>12, <1>h, <1>t, <2>2, <2>3 DEF HandleCancel, Mails
    <2> QED
      BY <2>4 DEF RowSettles
  <1>13. ASSUME NEW c \in Conn, NEW h \in Host, HandleCancelState(c, h) PROVE RowSettles(m)
    <2>1. Head(wire[c][h]) \in Frames(wire[c][h]) /\ Head(wire[c][h]).type = "cancel_state"
      BY <1>13, <1>t, PoppedLoses DEF HandleCancelState, HeadIs
    <2>2. HeadMsg(c, h) \in Msg /\ Home[HeadMsg(c, h)] = h
      BY <2>1 DEF Sound, FramesSound, HeadMsg
    <2>3. CASE UNCHANGED <<mail, owner>>
      BY <1>u, <2>3
    <2>4. CASE /\ mail' = [mail EXCEPT ![h][HeadMsg(c, h)] = "cancelled"]
               /\ owner' = [owner EXCEPT ![HeadMsg(c, h)] = None]
      BY <2>2, <2>4, OneRowSettles DEF State, Terminal
    <2> QED
      BY <1>13, <2>3, <2>4 DEF HandleCancelState
  <1>14. ASSUME NEW h \in Host, LeaseLapses(h) PROVE RowSettles(m)
    BY <1>14, <1>u DEF LeaseLapses
  <1>15. ASSUME NEW c \in Conn, Connect(c) \/ Break(c) PROVE RowSettles(m)
    BY <1>15, <1>u DEF Connect, Break
  <1>16. ASSUME NEW c \in Conn, NEW h \in Host,
                ForwardCheck(c, h) \/ ForwardNothing(c, h)
                \/ (\E n \in Msg : ForwardCancel(c, h, n))
                \/ IngestCheck(c, h) \/ IngestReplay(c, h) \/ IngestRefuse(c, h)
         PROVE  RowSettles(m)
    BY <1>16, <1>u DEF ForwardCheck, ForwardNothing, ForwardCancel, IngestCheck,
                       IngestReplay, IngestRefuse
  <1>17. CASE UNCHANGED vars
    BY <1>17, <1>u DEF vars
  <1> QED
    BY <1>1, <1>2, <1>3, <1>4, <1>5, <1>6, <1>7, <1>8, <1>9, <1>10, <1>11, <1>12, <1>13,
       <1>14, <1>15, <1>16, <1>17 DEF Next

-----------------------------------------------------------------------------
(***************************************************************************)
(* The outcomes                                                             *)
(***************************************************************************)

\* A message that is forwarded was on the outbox, so that nothing of it was on
\* its way before.
LEMMA ForwardOutcome ==
    ASSUME Sound, Outcomes, NEW c \in Conn, NEW h \in Host, NEW m \in Msg \ resent,
           Forward(c, h, m), HandsFall
    PROVE  Outcome(m)'
  <1>t. mail \in Mails /\ wire \in Wires /\ owner \in Owners
    BY DEF Sound, TypeOK, Mails, Wires, Owners
  <1>h. Home[m] = h /\ Dest(m) = Other(h) /\ Dest(m) \in Host /\ Home[m] # Dest(m)
    BY Ends DEF Forward, Dest
  <1>1. \A d \in Conn : NothingLeft(d, m)
    BY <1>h DEF Forward, Outcomes, Outcome
  <1>2. mail'[Home[m]][m] = "claimed" /\ owner'[m] = <<c, h>>
    BY <1>h, <1>t DEF Forward, Mails, Owners
  <1>3. ASSUME NEW d \in Conn PROVE ~Deciding(d, m)'
    <2>1. ~Deciding(d, m)
      BY <1>1 DEF NothingLeft, Landing
    <2> QED
      BY <1>h, <2>1 DEF HandsFall, Deciding
  <1>4. ASSUME NEW d \in Conn
        PROVE  /\ ~Refused(d, m)' /\ Once(wire'[d][Dest(m)], m)
               /\ d # c => ~Delivering(d, m)'
    <2> DEFINE f == [type |-> "deliver", m |-> m]
    <2>1. /\ ~\E x \in Frames(wire[d][Dest(m)]) : IsDelivery(x, m)
          /\ ~\E x \in Frames(wire[d][Home[m]]) : x.type = "refused" /\ x.m = m
      BY <1>1 DEF NothingLeft, Landing, Delivering, Refused
    <2>2. Once(wire[d][Dest(m)], m)
      BY <2>1 DEF Once, Frames
    <2>3. CASE UNCHANGED wire
      BY <2>1, <2>2, <2>3 DEF Delivering, Refused
    <2>4. CASE wire' = Written(c, h, wire, f)
      <3>0. f \in Frame
        BY DEF Frame
      <3>1. /\ \A g \in Host : d # c \/ g # Dest(m) => wire'[d][g] = wire[d][g]
            /\ \/ wire'[c][Dest(m)] = wire[c][Dest(m)]
               \/ Longer(wire'[c][Dest(m)], wire[c][Dest(m)], f)
        BY <1>h, <1>t, <2>4, <3>0, WrittenLonger
      <3>2. ~Refused(d, m)'
        BY <1>h, <2>1, <3>1 DEF Refused
      <3>3. Once(wire'[d][Dest(m)], m)
        BY <1>h, <2>1, <2>2, <3>1 DEF Longer
      <3>4. d # c => ~Delivering(d, m)'
        BY <1>h, <2>1, <3>1 DEF Delivering
      <3> QED
        BY <3>2, <3>3, <3>4
    <2> QED
      BY <2>3, <2>4 DEF Forward
  <1>5. \A d \in Conn : OneThing(d, m)'
    BY <1>2, <1>3, <1>4, <1>h DEF OneThing, Landing
  <1> QED
    BY <1>2, <1>5 DEF Outcome

\* A session takes a delivery in hand: what was on its way is now decided on.
LEMMA CheckOutcome ==
    ASSUME Sound, Outcomes, NEW c \in Conn, NEW h \in Host, IngestCheck(c, h),
           NEW m \in Msg \ resent, HeadMsg(c, h) = m
    PROVE  Outcome(m)'
  <1>t. sess \in Sessions /\ wire \in Wires
    BY DEF Sound, TypeOK, Sessions, Wires
  <1>1. /\ Head(wire[c][h]) \in Frames(wire[c][h]) /\ IsDelivery(Head(wire[c][h]), m)
        /\ wire[c][h] # << >>
    BY <1>t, PoppedLoses DEF IngestCheck, HeadIs, HeadMsg, IsDelivery
  <1>2. Dest(m) = h /\ Home[m] \in Host
    BY <1>1, Ends DEF Sound, FramesSound, IsDelivery
  <1>3. Delivering(c, m)
    BY <1>1, <1>2 DEF Delivering
  <1>4. AllShorter(wire', wire) /\ wire' = Popped(c, h)
    BY <1>1, <1>t, PoppedShorter DEF IngestCheck
  <1>5. WireFalls
    BY <1>4, ShorterFalls
  <1>6. Now(c, h, [sess[c][h] EXCEPT !.pc = "ingest", !.hand = m])
    BY <1>t, SessionNow DEF IngestCheck, Pc
  <1>7. \A d \in Conn : d # c /\ Deciding(d, m)' => Deciding(d, m)
    BY <1>2, <1>6 DEF Now, Deciding
  <1>8. \A d \in Conn : Delivering(d, m)' => Delivering(d, m)
    BY <1>2, <1>5 DEF WireFalls, Delivering, IsDelivery
  <1>9. \A d \in Conn : Refused(d, m)' => Refused(d, m)
    BY <1>2, <1>5 DEF WireFalls, Refused
  <1>10. \A d \in Conn : Landing(d, m)' => Landing(d, m)
    BY <1>3, <1>7, <1>8 DEF Landing
  <1>11. UNCHANGED <<mail, owner, copies>>
    BY DEF IngestCheck
  <1>12. ASSUME NEW d \in Conn, \A e \in Conn : OneThing(e, m) PROVE OneThing(d, m)'
    <2>1. Once(wire'[d][Dest(m)], m)
      BY <1>2, <1>5, <1>12 DEF OneThing, WireFalls
    <2>2. ~(Delivering(d, m)' /\ Deciding(d, m)')
      <3>1. CASE d = c
        <4>1. Once(wire[c][h], m)
          BY <1>2, <1>12 DEF OneThing
        <4>2. ~\E x \in Frames(Popped(c, h)[c][h]) : IsDelivery(x, m)
          BY <1>1, <1>t, <4>1, PoppedShorter
        <4> QED
          BY <1>2, <1>4, <3>1, <4>2 DEF Delivering
      <3>2. CASE d # c
        BY <1>7, <1>8, <1>12, <3>2 DEF OneThing
      <3> QED
        BY <3>1, <3>2
    <2>3. Landing(d, m)' \/ Refused(d, m)' => owner'[m] = <<d, Home[m]>>
      BY <1>9, <1>10, <1>11, <1>12 DEF OneThing
    <2>4. Refused(d, m)' => copies'[m] = 0 /\ ~Landing(d, m)'
      BY <1>9, <1>10, <1>11, <1>12 DEF OneThing
    <2> QED
      BY <2>1, <2>2, <2>3, <2>4 DEF OneThing
  <1> QED
    BY <1>9, <1>10, <1>11, <1>12 DEF Outcomes, Outcome, NothingLeft

\* A session refuses the message in its hand: there is no row of it and none
\* can come.
LEMMA RefuseOutcome ==
    ASSUME Sound, Outcomes, HandsFall, NEW c \in Conn, NEW h \in Host, IngestRefuse(c, h),
           NEW m \in Msg \ resent, sess[c][h].hand = m
    PROVE  Outcome(m)'
  <1> DEFINE f == [type |-> "refused", m |-> m]
  <1>t. sess \in Sessions /\ wire \in Wires
    BY DEF Sound, TypeOK, Sessions, Wires
  <1>1. Dest(m) = h /\ Home[m] = Other(h) /\ Home[m] \in Host /\ Home[m] # h /\ copies[m] = 0
    BY Ends DEF Sound, Hands, IngestRefuse
  <1>2. Deciding(c, m)
    BY <1>1 DEF Deciding, IngestRefuse
  <1>3. f \in Frame /\ ~IsDelivery(f, m)
    BY DEF Frame, IsDelivery
  <1>4. /\ \A d \in Conn, g \in Host : d # c \/ g # Home[m] => wire'[d][g] = wire[d][g]
        /\ UNCHANGED <<mail, owner, copies>>
    BY <1>1, <1>3, <1>t, WrittenLonger DEF IngestRefuse, Handled
  <1>5. Now(c, h, [sess[c][h] EXCEPT !.pc = "pump", !.hand = None])
    BY <1>t, SessionNow DEF IngestRefuse, Handled, Pc
  <1>6. [sess[c][h] EXCEPT !.pc = "pump", !.hand = None].pc = "pump"
    BY <1>t DEF Sessions, SessionState
  <1>7. ~Deciding(c, m)'
    BY <1>1, <1>5, <1>6 DEF Now, Deciding
  <1>8. \A d \in Conn : Deciding(d, m)' => Deciding(d, m)
    BY <1>1 DEF HandsFall, Deciding
  <1>9. \A d \in Conn : /\ Delivering(d, m)' => Delivering(d, m)
                        /\ Once(wire[d][Dest(m)], m) => Once(wire'[d][Dest(m)], m)
    BY <1>1, <1>4 DEF Delivering
  <1>10. \A d \in Conn : d # c => (Refused(d, m)' => Refused(d, m))
    BY <1>1, <1>4 DEF Refused
  <1>11. mail[Home[m]][m] \notin {"absent", "queued", "undeliverable"}
    BY <1>2 DEF Outcomes, Outcome, NothingLeft, Landing
  <1>12. ASSUME mail[Home[m]][m] = "claimed", NEW d \in Conn PROVE OneThing(d, m)'
    <2>1. OneThing(d, m) /\ OneThing(c, m)
      BY <1>12 DEF Outcomes, Outcome
    <2>2. CASE d = c
      <3>1. owner[m] = <<c, Home[m]>> /\ ~Delivering(c, m)
        BY <1>2, <2>1 DEF OneThing, Landing
      <3>2. ~Landing(c, m)'
        BY <1>7, <1>9, <3>1 DEF Landing
      <3> QED
        BY <1>1, <1>4, <1>9, <2>1, <2>2, <3>1, <3>2 DEF OneThing, Landing
    <2>3. CASE d # c
      BY <1>4, <1>8, <1>9, <1>10, <2>1, <2>3 DEF OneThing, Landing
    <2> QED
      BY <2>2, <2>3
  <1> QED
    BY <1>4, <1>11, <1>12 DEF Outcome

\* A session commits the message in its hand: no refusal of it is on its way.
LEMMA IngestOutcome ==
    ASSUME Sound, Outcomes, NEW c \in Conn, NEW h \in Host,
           Ingest(c, h) \/ IngestResponse(c, h),
           NEW m \in Msg \ resent, sess[c][h].hand = m, TokensFall(m)
    PROVE  Outcome(m)'
  <1>t. mail \in Mails
    BY DEF Sound, TypeOK, Mails
  <1>1. Dest(m) = h /\ Home[m] \in Host /\ Home[m] # h
    BY Ends DEF Sound, Hands, Ingest, IngestResponse
  <1>2. Deciding(c, m)
    BY <1>1 DEF Deciding, Ingest, IngestResponse
  <1>3. mail'[Home[m]][m] = mail[Home[m]][m] /\ owner' = owner
    BY <1>1, <1>t DEF Ingest, IngestResponse, Mails
  <1>4. mail[Home[m]][m] \notin {"absent", "queued", "undeliverable"}
    BY <1>2 DEF Outcomes, Outcome, NothingLeft, Landing
  <1>5. ASSUME mail[Home[m]][m] = "claimed", NEW d \in Conn PROVE OneThing(d, m)'
    <2>1. OneThing(d, m) /\ OneThing(c, m)
      BY <1>5 DEF Outcomes, Outcome
    <2>2. owner[m] = <<c, Home[m]>> /\ ~Refused(c, m)
      BY <1>2, <2>1 DEF OneThing, Landing
    <2>3. ~Refused(d, m)
      BY <2>1, <2>2 DEF OneThing
    <2> QED
      BY <1>3, <2>1, <2>3 DEF TokensFall, OneThing, Landing
  <1> QED
    BY <1>3, <1>4, <1>5 DEF Outcome

LEMMA OutcomesStep ==
    ASSUME Sound, Quiet, Outcomes, Unsent, [Next]_vars
    PROVE  Outcomes'
  <1> SUFFICES ASSUME NEW m \in Msg \ resent' PROVE Outcome(m)'
    <2>1. resent' \subseteq Msg
      BY SoundStep DEF Sound, TypeOK
    <2> QED
      BY DEF Outcomes
  <1>t. sess \in Sessions /\ mail \in Mails
    BY DEF Sound, TypeOK, Sessions, Mails
  <1>r. m \in Msg \ resent /\ Home[m] \in Host
    BY ResentGrows, Ends
  <1>1. ASSUME NEW c \in Conn, NEW h \in Host, Forward(c, h, m) PROVE Outcome(m)'
    <2>1. mail' # mail
      BY <1>1, <1>t DEF Forward, Mails
    <2>2. HandsFall
      BY <2>1, HandsStepFalls DEF IngestCheck
    <2> QED
      BY <1>1, <1>r, <2>2, ForwardOutcome
  <1>2. ASSUME NEW c \in Conn, NEW h \in Host, IngestCheck(c, h), HeadMsg(c, h) = m
        PROVE  Outcome(m)'
    BY <1>2, <1>r, CheckOutcome
  <1>3. ASSUME NEW c \in Conn, NEW h \in Host, IngestRefuse(c, h), sess[c][h].hand = m
        PROVE  Outcome(m)'
    <2>1. Now(c, h, [sess[c][h] EXCEPT !.pc = "pump", !.hand = None])
      BY <1>3, <1>t, SessionNow DEF IngestRefuse, Handled, Pc
    <2>2. [sess[c][h] EXCEPT !.pc = "pump", !.hand = None].pc = "pump"
      BY <1>t DEF Sessions, SessionState
    <2>3. HandsFall
      BY <2>1, <2>2 DEF Now, HandsFall
    <2> QED
      BY <1>3, <1>r, <2>3, RefuseOutcome
  <1>4. CASE ~\E c \in Conn, h \in Host :
                \/ Forward(c, h, m)
                \/ IngestCheck(c, h) /\ HeadMsg(c, h) = m
                \/ IngestRefuse(c, h) /\ sess[c][h].hand = m
    <2>1. TokensFall(m)
      BY <1>4, <1>r, TokensStep
    <2>2. CASE copies'[m] # copies[m]
      BY <1>r, <2>1, <2>2, CopiesStep, IngestOutcome
    <2>3. CASE copies'[m] = copies[m]
      <3>1. RowSettles(m)
        BY <1>4, <1>r, <2>1, RowsSettle
      <3>2. Outcome(m)
        BY <1>r DEF Outcomes
      <3> QED
        BY <1>r, <2>1, <2>3, <3>1, <3>2, OutcomeKept
    <2> QED
      BY <2>2, <2>3
  <1> QED
    BY <1>1, <1>2, <1>3, <1>4

LEMMA UnsentStep ==
    ASSUME Sound, Unsent, [Next]_vars
    PROVE  Unsent'
  <1> SUFFICES ASSUME NEW m \in Inexpressible \cap Msg
               PROVE  copies'[m] = 0 /\ \A d \in Conn : ~Landing(d, m)'
    BY DEF Unsent
  <1>t. sess \in Sessions /\ wire \in Wires
    BY DEF Sound, TypeOK, Sessions, Wires
  <1>h. Dest(m) \in Host /\ Home[m] \in Host
    BY Ends
  <1>1. copies[m] = 0 /\ \A d \in Conn : ~Delivering(d, m) /\ ~Deciding(d, m)
    BY DEF Unsent, Landing
  <1>2. copies'[m] = 0
    <2> SUFFICES ASSUME copies'[m] # copies[m] PROVE FALSE
      BY <1>1
    <2>1. PICK c \in Conn, h \in Host :
            sess[c][h].hand = m /\ (Ingest(c, h) \/ IngestResponse(c, h))
      BY CopiesStep
    <2>2. Dest(m) = h /\ sess[c][h].pc = "ingest"
      BY <2>1 DEF Sound, Hands, Ingest, IngestResponse
    <2> QED
      BY <1>1, <2>1, <2>2 DEF Deciding
  <1>3. ASSUME NEW c \in Conn, NEW h \in Host, Forward(c, h, m), NEW d \in Conn
        PROVE  ~Landing(d, m)'
    <2>1. UNCHANGED wire /\ sess' = [sess EXCEPT ![c][h].pc = "fail", ![c][h].hand = m]
      BY <1>3 DEF Forward
    <2>2. Now(c, h, [sess[c][h] EXCEPT !.pc = "fail", !.hand = m])
      BY <1>t, <2>1, SessionNow DEF Pc
    <2>3. [sess[c][h] EXCEPT !.pc = "fail", !.hand = m].pc = "fail"
      BY <1>t DEF Sessions, SessionState
    <2>4. ~Deciding(d, m)'
      BY <1>1, <1>h, <2>2, <2>3 DEF Now, Deciding
    <2> QED
      BY <1>1, <2>1, <2>4 DEF Landing, Delivering
  <1>4. CASE ~\E c \in Conn, h \in Host : Forward(c, h, m)
    <2>1. ASSUME NEW c \in Conn, NEW h \in Host, IngestCheck(c, h) PROVE HeadMsg(c, h) # m
      <3>1. Head(wire[c][h]) \in Frames(wire[c][h]) /\ Head(wire[c][h]).type = "deliver"
        BY <1>t, <2>1, PoppedLoses DEF IngestCheck, HeadIs
      <3>2. Dest(HeadMsg(c, h)) = h
        BY <3>1 DEF Sound, FramesSound, HeadMsg
      <3> QED
        BY <1>1, <3>1, <3>2 DEF HeadMsg, Delivering, IsDelivery
    <2>2. ASSUME NEW c \in Conn, NEW h \in Host, IngestRefuse(c, h) PROVE sess[c][h].hand # m
      <3>1. Dest(sess[c][h].hand) = h /\ sess[c][h].pc = "ingest"
        BY <2>2 DEF Sound, Hands, IngestRefuse
      <3> QED
        BY <1>1, <3>1 DEF Deciding
    <2>3. TokensFall(m)
      BY <1>4, <2>1, <2>2, TokensStep
    <2> QED
      BY <1>1, <1>2, <2>3 DEF TokensFall, Landing
  <1> QED
    BY <1>2, <1>3, <1>4

Settled == Sound /\ Quiet /\ Outcomes /\ Unsent

LEMMA SettledInit ==
    Init => Settled
  <1> SUFFICES ASSUME Init PROVE Settled
    OBVIOUS
  <1>1. Frames(<< >>) = {} /\ \A m \in Msg : Once(<< >>, m)
    BY DEF Frames, Once
  <1>2. NoSession.pc = "none"
    BY DEF NoSession
  <1>3. Quiet
    BY DEF Init, Quiet
  <1>4. ASSUME NEW m \in Msg, NEW c \in Conn
        PROVE  ~Landing(c, m) /\ ~Refused(c, m)
    <2>1. Dest(m) \in Host /\ Home[m] \in Host
      BY Ends
    <2>2. wire[c][Dest(m)] = << >> /\ wire[c][Home[m]] = << >> /\ sess[c][Dest(m)].pc = "none"
      BY <1>2, <2>1 DEF Init
    <2> QED
      BY <1>1, <2>2 DEF Landing, Delivering, Deciding, Refused
  <1>5. Outcomes
    <2>1. ASSUME NEW m \in Msg PROVE mail[Home[m]][m] = "absent"
      BY Ends DEF Init
    <2> QED
      BY <1>4, <2>1 DEF Outcomes, Outcome, NothingLeft
  <1>6. Unsent
    BY <1>4 DEF Init, Unsent
  <1> QED
    BY <1>3, <1>5, <1>6, SoundInit DEF Settled

\* forward_failed settles a message as undeliverable only while it has not
\* landed, and it never lands afterwards, over any number of connections; the
\* exception is a message that was put back on the outbox beside a copy of
\* itself that was still on its way.
THEOREM RefusalsAreFinal ==
    Spec => []UndeliverableNeverLanded
  <1>1. Settled /\ [Next]_vars => Settled'
    BY SoundStep, QuietStep, OutcomesStep, UnsentStep DEF Settled
  <1>2. Settled => UndeliverableNeverLanded
    BY DEF Settled, Outcomes, Outcome, UndeliverableNeverLanded
  <1> QED
    BY <1>1, <1>2, SettledInit, PTL DEF Spec
-----------------------------------------------------------------------------
(***************************************************************************)
(* A confirmed cancellation is final while one connection is used at a time *)
(***************************************************************************)

\* The sender's side of a message whose cancellation may be asked for.
Past == {"cancellation_requested"} \cup Terminal

\* Nothing of m is at work at its destination, and nothing will be.
Gone(m) ==
    /\ mail[Home[m]][m] \in Past
    /\ \/ mail[Dest(m)][m] \in Terminal
       \/ copies[m] = 0 /\ \A c \in Conn : ~Landing(c, m)

\* A cancellation is asked for behind every delivery of its message, and only
\* of a message that is sent no more.
Asked ==
    \A c \in Conn, h \in Host :
        /\ \A f \in Frames(wire[c][h]) : f.type = "cancel" => mail[Home[f.m]][f.m] \in Past
        /\ \A m \in Msg : Ordered(wire[c][h], m)

Single == \A c, d \in Conn : Using(c) /\ Using(d) => c = d

\* What is reported cancelled, and what was cancelled on that word, is over.
Reported ==
    /\ \A c \in Conn, h \in Host : \A f \in Frames(wire[c][h]) :
            f.type = "cancel_state" /\ f.state = "cancelled" => Gone(f.m)
    /\ \A m \in confirmed : Gone(m)

\* Once a message is to be cancelled it never returns to the outbox.
LEMMA PastStays ==
    ASSUME Sound, [Next]_vars, NEW h \in Host, NEW m \in Msg, mail[h][m] \in Past
    PROVE  mail'[h][m] \in Past
  <1> USE DEF history, linkVars
  <1>t. mail \in Mails
    BY DEF Sound, TypeOK, Mails
  <1>1. CASE UNCHANGED mail
    BY <1>1
  <1>o. ASSUME NEW g \in Host, NEW n \in Msg, NEW s, mail' = [mail EXCEPT ![g][n] = s],
               mail[g][n] \notin Past \/ s \in Past
        PROVE  mail'[h][m] \in Past
    BY <1>o, <1>t DEF Mails
  <1>2. ASSUME NEW n \in Msg,
               LocalSend(n) \/ LocalCancel(n) \/ Receive(n) \/ ReceiptLapses(n)
               \/ ConfirmStop(n) \/ ClaimLapses(n) \/ \E g \in Host : Expire(g, n)
        PROVE  mail'[h][m] \in Past
    <2>0. Home[n] \in Host /\ Dest(n) \in Host
      BY Ends
    <2>1. CASE LocalSend(n)
      BY <1>o, <2>0, <2>1 DEF LocalSend, Past, Terminal
    <2>2. CASE LocalCancel(n)
      <3>1. mail' = [mail EXCEPT ![Home[n]][n] = Cancelled(mail[Home[n]][n])]
        BY <1>t, <2>0, <2>2 DEF LocalCancel, Mails
      <3> QED
        BY <1>o, <2>0, <2>2, <3>1 DEF LocalCancel, Past, Terminal
    <2>3. CASE Receive(n)
      BY <1>o, <2>0, <2>3 DEF Receive, Past, Terminal
    <2>4. CASE ReceiptLapses(n) \/ ClaimLapses(n)
      BY <1>o, <2>0, <2>4 DEF ReceiptLapses, ClaimLapses, Past, Terminal
    <2>5. CASE ConfirmStop(n)
      BY <1>o, <2>0, <2>5 DEF ConfirmStop, Past, Terminal
    <2>6. CASE \E g \in Host : Expire(g, n)
      BY <1>o, <2>6 DEF Expire, Past, Terminal
    <2> QED
      BY <1>2, <2>1, <2>2, <2>3, <2>4, <2>5, <2>6
  <1>3. ASSUME NEW r \in Msg, Respond(r) PROVE mail'[h][m] \in Past
    <2>1. Home[r] \in Host /\ ReplyTo[r] \in Msg /\ mail[Home[r]][r] = "absent"
      BY <1>3, Ends, AnswerEnds DEF Respond
    <2>2. \A g \in Host, n \in Msg :
            mail'[g][n] \in {"consumed", mail[g][n]} \/ mail[g][n] = "absent"
      BY <1>3, <1>t, <2>1 DEF Respond, Mails
    <2> QED
      BY <2>2 DEF Past, Terminal
  <1>4. ASSUME NEW s, NEW running, RequeueClaims(s, running) PROVE mail'[h][m] \in Past
    BY <1>4 DEF RequeueClaims, ClaimsOf, Past, Terminal
  <1>5. ASSUME NEW c \in Conn, NEW g \in Host, TakeLease(c, g) \/ ReleaseLease(c, g)
        PROVE  mail'[h][m] \in Past
    BY <1>1, <1>4, <1>5 DEF TakeLease, ReleaseLease
  <1>6. ASSUME NEW c \in Conn, NEW g \in Host,
               Acquire(c, g) \/ Renew(c, g) \/ Stop(c, g) \/ LostLease(c, g)
        PROVE  mail'[h][m] \in Past
    BY <1>1, <1>5, <1>6 DEF Acquire, Renew, Stop, LostLease, Finish
  <1>7. ASSUME NEW c \in Conn, NEW g \in Host, NEW n \in Msg, NEW s, Settle(c, g, n, s)
        PROVE  mail'[h][m] \in Past
    BY <1>1, <1>7, <1>o DEF Settle, Past, Terminal
  <1>8. ASSUME NEW c \in Conn, NEW g \in Host, ForwardFailed(c, g)
        PROVE  mail'[h][m] \in Past
    <2>1. sess[c][g].hand \in Msg
      BY <1>8 DEF Sound, Hands, ForwardFailed
    <2> QED
      BY <1>5, <1>7, <1>8, <2>1 DEF ForwardFailed, Finish
  <1>9. ASSUME NEW c \in Conn, NEW g \in Host, NEW n \in Msg, Forward(c, g, n)
        PROVE  mail'[h][m] \in Past
    BY <1>9, <1>o DEF Forward, Past, Terminal
  <1>10. ASSUME NEW c \in Conn, NEW g \in Host, Ingest(c, g) \/ IngestResponse(c, g)
         PROVE  mail'[h][m] \in Past
    <2> DEFINE n == sess[c][g].hand
    <2>1. n \in Msg /\ Dest(n) = g /\ copies[n] = 0 /\ mail' = [mail EXCEPT ![g][n] = "queued"]
      BY <1>10 DEF Sound, Hands, Ingest, IngestResponse
    <2>2. mail[g][n] = "absent"
      BY <2>1 DEF Sound, Rows
    <2> QED
      BY <1>o, <2>1, <2>2 DEF Past, Terminal
  <1>11. ASSUME NEW c \in Conn, NEW g \in Host, RetireRequest(c, g)
         PROVE  mail'[h][m] \in Past
    <2>1. ReplyTo[sess[c][g].hand] \in Msg
      BY <1>11, AnswerEnds DEF Sound, Hands, RetireRequest
    <2> QED
      BY <1>1, <1>11, <1>o, <2>1 DEF RetireRequest, Past, Terminal
  <1>12. ASSUME NEW c \in Conn, NEW g \in Host, Receipt(c, g) PROVE mail'[h][m] \in Past
    <2>1. HeadMsg(c, g) \in Msg
      BY <1>12, PoppedLoses DEF Sound, TypeOK, Wires, Receipt, HeadIs, HeadMsg, Frame
    <2> QED
      BY <1>1, <1>7, <1>12, <2>1 DEF Receipt
  <1>13. ASSUME NEW c \in Conn, NEW g \in Host, HandleCancel(c, g) PROVE mail'[h][m] \in Past
    <2> DEFINE n == HeadMsg(c, g)
    <2>1. n \in Msg
      BY <1>13, PoppedLoses DEF Sound, TypeOK, Wires, HandleCancel, HeadIs, HeadMsg, Frame
    <2>2. \/ UNCHANGED mail
          \/ mail' = [mail EXCEPT ![g][n] = Cancelled(mail[g][n])]
      BY <1>13 DEF HandleCancel
    <2>3. mail[g][n] \in Past => Cancelled(mail[g][n]) \in Past
      BY DEF Cancelled, Past, Terminal
    <2> QED
      BY <1>1, <1>o, <2>1, <2>2, <2>3
  <1>14. ASSUME NEW c \in Conn, NEW g \in Host, HandleCancelState(c, g)
         PROVE  mail'[h][m] \in Past
    <2>1. HeadMsg(c, g) \in Msg
      BY <1>14, PoppedLoses DEF Sound, TypeOK, Wires, HandleCancelState, HeadIs, HeadMsg, Frame
    <2> QED
      BY <1>1, <1>14, <1>o, <2>1 DEF HandleCancelState, Past, Terminal
  <1>15. ASSUME (\E g \in Host : LeaseLapses(g)) \/ (\E c \in Conn : Connect(c) \/ Break(c))
         PROVE  UNCHANGED mail
    BY <1>15 DEF LeaseLapses, Connect, Break
  <1>17. ASSUME NEW c \in Conn, NEW g \in Host,
                Die(c, g) \/ ForwardCheck(c, g) \/ ForwardNothing(c, g)
                \/ (\E n \in Msg : ForwardCancel(c, g, n))
         PROVE  UNCHANGED mail
    BY <1>17 DEF Die, ForwardCheck, ForwardNothing, ForwardCancel
  <1>18. ASSUME NEW c \in Conn, NEW g \in Host,
                IngestCheck(c, g) \/ IngestReplay(c, g) \/ IngestRefuse(c, g)
         PROVE  UNCHANGED mail
    BY <1>18 DEF IngestCheck, IngestReplay, IngestRefuse
  <1>16. CASE UNCHANGED vars
    BY <1>1, <1>16 DEF vars
  <1> QED
    BY <1>1, <1>2, <1>3, <1>6, <1>8, <1>9, <1>10, <1>11, <1>12, <1>13, <1>14, <1>15, <1>16,
       <1>17, <1>18 DEF Next

\* A session that runs ran before, but for the two of a new connection.
LEMMA LivesFrom ==
    ASSUME Sound, [Next]_vars, ~\E c \in Conn : Connect(c), NEW d \in Conn, Using(d)'
    PROVE  Using(d)
  <1> USE DEF history, linkVars
  <1>t. sess \in Sessions
    BY DEF Sound, TypeOK, Sessions
  <1>w. wire \in Wires
    BY DEF Sound, TypeOK, Wires
  <1>s. SUFFICES \A g \in Host : sess'[d][g] = sess[d][g] \/ Using(d)
    BY DEF Using
  <1>1. CASE UNCHANGED sess
    BY <1>1
  <1>n. ASSUME NEW c \in Conn, NEW h \in Host, NEW s, Now(c, h, s), Alive(sess[c][h])
        PROVE  \A g \in Host : sess'[d][g] = sess[d][g] \/ Using(d)
    BY <1>n DEF Now, Using
  <1>p. ASSUME NEW c \in Conn, NEW h \in Host, NEW p \in {"pump", "claim", "retire"},
               sess' = [sess EXCEPT ![c][h].pc = p], Alive(sess[c][h])
        PROVE  \A g \in Host : sess'[d][g] = sess[d][g] \/ Using(d)
    <2>1. Now(c, h, [sess[c][h] EXCEPT !.pc = p])
      BY <1>p, <1>t, SessionNow DEF Pc
    <2> QED
      BY <1>n, <1>p, <2>1
  <1>q. ASSUME NEW c \in Conn, NEW h \in Host, NEW p \in {"pump", "ingest", "fail"},
               NEW x \in Msg \cup {None},
               sess' = [sess EXCEPT ![c][h].pc = p, ![c][h].hand = x], Alive(sess[c][h])
        PROVE  \A g \in Host : sess'[d][g] = sess[d][g] \/ Using(d)
    <2>1. Now(c, h, [sess[c][h] EXCEPT !.pc = p, !.hand = x])
      BY <1>q, <1>t, SessionNow DEF Pc
    <2> QED
      BY <1>n, <1>q, <2>1
  <1>2. ASSUME NEW c \in Conn, NEW h \in Host, Hangup(c, h), Alive(sess[c][h])
        PROVE  \A g \in Host : sess'[d][g] = sess[d][g] \/ Using(d)
    <2>1. Ended \in SessionState
      BY DEF Ended, NoSession, SessionState, Pc
    <2> QED
      BY <1>2, <1>n, <1>t, <2>1, SessionNow DEF Hangup
  <1>3. ASSUME NEW c \in Conn, NEW h \in Host,
               Acquire(c, h) \/ Renew(c, h) \/ Stop(c, h) \/ Die(c, h) \/ LostLease(c, h)
               \/ ForwardFailed(c, h)
        PROVE  \A g \in Host : sess'[d][g] = sess[d][g] \/ Using(d)
    <2>1. Alive(sess[c][h])
      BY <1>3 DEF Acquire, Renew, Stop, Die, LostLease, ForwardFailed, Alive
    <2> QED
      BY <1>1, <1>2, <1>3, <1>p, <1>q, <2>1
         DEF Acquire, Renew, Stop, Die, LostLease, ForwardFailed, Finish
  <1>4. ASSUME NEW c \in Conn, NEW h \in Host,
               ForwardCheck(c, h) \/ ForwardNothing(c, h) \/ IngestResponse(c, h)
        PROVE  \A g \in Host : sess'[d][g] = sess[d][g] \/ Using(d)
    BY <1>4, <1>p DEF ForwardCheck, ForwardNothing, IngestResponse, Alive
  <1>5. ASSUME NEW c \in Conn, NEW h \in Host,
               IngestReplay(c, h) \/ IngestRefuse(c, h) \/ Ingest(c, h) \/ RetireRequest(c, h)
        PROVE  \A g \in Host : sess'[d][g] = sess[d][g] \/ Using(d)
    <2>1. Alive(sess[c][h])
      BY <1>5 DEF IngestReplay, IngestRefuse, Ingest, RetireRequest, Alive
    <2>2. sess' = [sess EXCEPT ![c][h].pc = "pump", ![c][h].hand = None]
      BY <1>5 DEF IngestReplay, IngestRefuse, Ingest, RetireRequest, Handled
    <2> QED
      BY <1>q, <2>1, <2>2
  <1>9. ASSUME NEW c \in Conn, NEW h \in Host, IngestCheck(c, h)
        PROVE  \A g \in Host : sess'[d][g] = sess[d][g] \/ Using(d)
    <2>1. HeadMsg(c, h) \in Msg
      BY <1>9, <1>w, PoppedLoses DEF IngestCheck, HeadIs, HeadMsg, Frame
    <2> QED
      BY <1>9, <1>q, <2>1 DEF IngestCheck, Alive
  <1>10. ASSUME NEW c \in Conn, NEW h \in Host, NEW m \in Msg, Forward(c, h, m)
         PROVE  \A g \in Host : sess'[d][g] = sess[d][g] \/ Using(d)
    <2>1. Alive(sess[c][h])
      BY <1>10 DEF Forward, Alive
    <2>2. CASE sess' = [sess EXCEPT ![c][h].pc = "fail", ![c][h].hand = m]
      BY <1>q, <2>1, <2>2
    <2>3. CASE sess' = [sess EXCEPT ![c][h].pc = "pump", ![c][h].in_flight = @ \cup {m}]
      <3>1. Now(c, h, [sess[c][h] EXCEPT !.pc = "pump", !.in_flight = @ \cup {m}])
        BY <1>t, <2>3, SessionNow DEF Pc
      <3> QED
        BY <1>n, <2>1, <3>1
    <2> QED
      BY <1>10, <2>2, <2>3 DEF Forward
  <1>11. ASSUME NEW c \in Conn, NEW h \in Host, NEW m \in Msg, ForwardCancel(c, h, m)
         PROVE  \A g \in Host : sess'[d][g] = sess[d][g] \/ Using(d)
    <2>1. Alive(sess[c][h])
      BY <1>11 DEF ForwardCancel, Alive
    <2>2. Now(c, h, [sess[c][h] EXCEPT !.cancels_sent = @ \cup {m}])
      BY <1>11, <1>t, SessionNow DEF ForwardCancel
    <2> QED
      BY <1>n, <2>1, <2>2
  <1>12. ASSUME NEW c \in Conn, NEW h \in Host, Receipt(c, h)
         PROVE  \A g \in Host : sess'[d][g] = sess[d][g] \/ Using(d)
    <2>1. HeadMsg(c, h) \in Msg /\ Alive(sess[c][h])
      BY <1>12, <1>w, PoppedLoses DEF Receipt, HeadIs, HeadMsg, Frame, Alive
    <2>2. CASE sess' = [sess EXCEPT ![c][h].in_flight = @ \ {HeadMsg(c, h)}]
      <3>1. Now(c, h, [sess[c][h] EXCEPT !.in_flight = @ \ {HeadMsg(c, h)}])
        BY <1>t, <2>1, <2>2, SessionNow
      <3> QED
        BY <1>n, <2>1, <3>1
    <2> QED
      BY <1>1, <1>12, <2>2 DEF Receipt
  <1>6. ASSUME NEW m \in Msg,
               LocalSend(m) \/ LocalCancel(m) \/ Receive(m) \/ ReceiptLapses(m)
               \/ Respond(m) \/ ConfirmStop(m) \/ ClaimLapses(m)
        PROVE  UNCHANGED sess
    BY <1>6 DEF LocalSend, LocalCancel, Receive, ReceiptLapses, Respond, ConfirmStop, ClaimLapses
  <1>7. ASSUME (\E h \in Host, m \in Msg : Expire(h, m)) \/ (\E h \in Host : LeaseLapses(h))
               \/ (\E c \in Conn : Break(c))
               \/ (\E c \in Conn, h \in Host : HandleCancel(c, h) \/ HandleCancelState(c, h))
        PROVE  UNCHANGED sess
    BY <1>7 DEF Expire, LeaseLapses, Break, HandleCancel, HandleCancelState
  <1>8. CASE UNCHANGED vars
    BY <1>1, <1>8 DEF vars
  <1> QED
    BY <1>1, <1>3, <1>4, <1>5, <1>6, <1>7, <1>8, <1>9, <1>10, <1>11, <1>12 DEF Next

\* Connect waits until fewer than MaxLive connections are in use.
LEMMA SingleStep ==
    ASSUME MaxLive =< 1, Sound, Single, [Next]_vars
    PROVE  Single'
  <1> DEFINE Live == {d \in Conn : Using(d)}
  <1>1. CASE ~\E c \in Conn : Connect(c)
    BY <1>1, LivesFrom DEF Single
  <1>2. ASSUME NEW c \in Conn, Connect(c) PROVE Single'
    <2>1. \A d \in Conn, g \in Host : d # c => sess'[d][g] = sess[d][g]
      BY <1>2 DEF Connect, Sound, TypeOK, Sessions
    <2>2. \A d \in Conn : d # c /\ Using(d)' => Using(d)
      BY <2>1 DEF Using
    <2>3. ASSUME NEW d \in Conn, Using(d) PROVE FALSE
      <3>1. Live = {d}
        BY <2>3 DEF Single
      <3>2. Cardinality({d}) = 1
        BY FS_Singleton
      <3>3. Cardinality(Live) < MaxLive
        BY <1>2 DEF Connect
      <3>4. 1 < MaxLive /\ MaxLive \in Nat
        BY <3>1, <3>2, <3>3, ConnAssumption
      <3> QED
        BY <3>4
    <2> QED
      BY <2>2, <2>3 DEF Single
  <1> QED
    BY <1>1, <1>2

-----------------------------------------------------------------------------
\* The answer to a cancellation, as the session that handles it sees its store.
Answered(f) ==
    \E c \in Conn, h \in Host :
        /\ HandleCancel(c, h) /\ f.m = HeadMsg(c, h)
        /\ f.state = IF copies[f.m] > 0 THEN Cancelled(mail[h][f.m]) ELSE "cancelled"

\* What a step may do to cancellations on their way: a request is added behind
\* what is there, and an answer by the session that handles one.
CancelsMove ==
    \A d \in Conn, g \in Host :
        /\ \A m \in Msg : Ordered(wire[d][g], m) => Ordered(wire'[d][g], m)
        /\ \A x \in Frames(wire'[d][g]) : x \notin Frames(wire[d][g])
            => /\ x.type = "cancel" => mail[Home[x.m]][x.m] \in Past
               /\ x.type = "cancel_state" => Answered(x)

LEMMA ShorterMoves ==
    ASSUME AllShorter(wire', wire)
    PROVE  CancelsMove
  BY DEF AllShorter, Shorter, CancelsMove

LEMMA WrittenMoves ==
    ASSUME NEW c \in Conn, NEW h \in Host, NEW w \in Wires, AllShorter(w, wire),
           NEW f \in Frame, wire' = Written(c, h, w, f),
           f.type = "deliver" => ~\E x \in Frames(wire[c][Other(h)]) : IsCancel(x, f.m),
           f.type = "cancel" => mail[Home[f.m]][f.m] \in Past,
           f.type = "cancel_state" => Answered(f)
    PROVE  CancelsMove
  <1> SUFFICES ASSUME NEW d \in Conn, NEW g \in Host
               PROVE  /\ \A m \in Msg : Ordered(wire[d][g], m) => Ordered(wire'[d][g], m)
                      /\ \A x \in Frames(wire'[d][g]) : x \notin Frames(wire[d][g])
                            => /\ x.type = "cancel" => mail[Home[x.m]][x.m] \in Past
                               /\ x.type = "cancel_state" => Answered(x)
    BY DEF CancelsMove
  <1>1. Shorter(w[d][g], wire[d][g])
    BY DEF AllShorter
  <1>2. CASE wire'[d][g] = w[d][g]
    BY <1>1, <1>2 DEF Shorter
  <1>3. CASE d = c /\ g = Other(h) /\ Longer(wire'[d][g], w[d][g], f)
    <2>1. ASSUME NEW m \in Msg, Ordered(wire[d][g], m) PROVE Ordered(wire'[d][g], m)
      <3>1. Ordered(w[d][g], m)
        BY <1>1, <2>1 DEF Shorter
      <3>2. IsDelivery(f, m) => ~\E x \in Frames(w[d][g]) : IsCancel(x, m)
        BY <1>1, <1>3 DEF Shorter, IsDelivery
      <3> QED
        BY <1>3, <3>1, <3>2 DEF Longer
    <2>2. \A x \in Frames(wire'[d][g]) : x \in Frames(wire[d][g]) \/ x = f
      BY <1>1, <1>3 DEF Shorter, Longer
    <2> QED
      BY <2>1, <2>2
  <1> QED
    BY <1>2, <1>3, WrittenLonger

LEMMA CancelsStep ==
    ASSUME Sound, Asked, [Next]_vars
    PROVE  CancelsMove
  <1> USE DEF history, linkVars
  <1>t. wire \in Wires /\ mail \in Mails
    BY DEF Sound, TypeOK, Wires, Mails
  <1>1. ASSUME UNCHANGED wire PROVE CancelsMove
    BY <1>1 DEF CancelsMove
  <1>2. ASSUME NEW c \in Conn, NEW h \in Host, Hangup(c, h) PROVE CancelsMove
    BY <1>2, <1>t, HangupShorter, ShorterMoves
  <1>3. ASSUME NEW c \in Conn, Break(c) PROVE CancelsMove
    BY <1>3, <1>t, BreakShorter, ShorterMoves
  <1>4. ASSUME NEW c \in Conn, NEW h \in Host,
               Acquire(c, h) \/ Renew(c, h) \/ Stop(c, h) \/ Die(c, h) \/ LostLease(c, h)
               \/ ForwardFailed(c, h)
        PROVE  CancelsMove
    BY <1>1, <1>2, <1>4 DEF Acquire, Renew, Stop, Die, LostLease, ForwardFailed, Finish
  <1>5. ASSUME NEW c \in Conn, NEW h \in Host, NEW m \in Msg, Forward(c, h, m)
        PROVE  CancelsMove
    <2> DEFINE f == [type |-> "deliver", m |-> m]
    <2>1. CASE wire' = Written(c, h, wire, f)
      <3>1. f \in Frame
        BY DEF Frame
      <3>2. mail[Home[m]][m] \notin Past /\ Other(h) \in Host
        BY <1>5, Others DEF Forward, Past, Terminal
      <3>3. ~\E x \in Frames(wire[c][Other(h)]) : IsCancel(x, m)
        BY <3>2 DEF Asked, IsCancel
      <3> QED
        BY <1>t, <2>1, <3>1, <3>3, ShorterItself, WrittenMoves
    <2> QED
      BY <1>1, <1>5, <2>1 DEF Forward
  <1>6. ASSUME NEW c \in Conn, NEW h \in Host, NEW m \in Msg, ForwardCancel(c, h, m)
        PROVE  CancelsMove
    <2> DEFINE f == [type |-> "cancel", m |-> m]
    <2>1. f \in Frame
      BY DEF Frame
    <2>2. mail[Home[m]][m] \in Past /\ wire' = Written(c, h, wire, f)
      BY <1>6 DEF ForwardCancel, Past
    <2> QED
      BY <1>t, <2>1, <2>2, ShorterItself, WrittenMoves
  <1>7. ASSUME NEW c \in Conn, NEW h \in Host,
               IngestCheck(c, h) \/ Receipt(c, h) \/ HandleCancelState(c, h)
        PROVE  CancelsMove
    BY <1>7, <1>t, PoppedShorter, ShorterMoves
       DEF IngestCheck, Receipt, HandleCancelState, HeadIs
  <1>8. ASSUME NEW c \in Conn, NEW h \in Host, NEW type \in {"accepted", "refused"},
               sess[c][h].pc \in {"ingest", "retire"}, Handled(c, h, type)
        PROVE  CancelsMove
    <2> DEFINE f == [type |-> type, m |-> sess[c][h].hand]
    <2>1. f \in Frame
      BY <1>8 DEF Sound, Hands, Frame
    <2>2. wire' = Written(c, h, wire, f)
      BY <1>8 DEF Handled
    <2> QED
      BY <1>t, <2>1, <2>2, ShorterItself, WrittenMoves
  <1>9. ASSUME NEW c \in Conn, NEW h \in Host,
               IngestReplay(c, h) \/ IngestRefuse(c, h) \/ Ingest(c, h) \/ RetireRequest(c, h)
        PROVE  CancelsMove
    BY <1>8, <1>9 DEF IngestReplay, IngestRefuse, Ingest, RetireRequest
  <1>10. ASSUME NEW c \in Conn, NEW h \in Host, HandleCancel(c, h) PROVE CancelsMove
    <2> DEFINE m == HeadMsg(c, h)
               state == IF copies[m] > 0 THEN Cancelled(mail[h][m]) ELSE "cancelled"
               f == [type |-> "cancel_state", m |-> m, state |-> state]
    <2>1. m \in Msg /\ Popped(c, h) \in Wires /\ AllShorter(Popped(c, h), wire)
      BY <1>10, <1>t, PoppedLoses, PoppedShorter DEF HandleCancel, HeadIs, HeadMsg, Frame
    <2>2. state \in State
      BY <1>t, <2>1 DEF Cancelled, Mails, State, Pending, Terminal
    <2>3. f \in Frame
      BY <2>1, <2>2 DEF Frame
    <2>4. wire' = Written(c, h, Popped(c, h), f)
      BY <1>10 DEF HandleCancel
    <2>5. Answered(f)
      BY <1>10 DEF Answered
    <2> QED
      BY <2>1, <2>3, <2>4, <2>5, WrittenMoves
  <1>11. ASSUME NEW m \in Msg,
                LocalSend(m) \/ LocalCancel(m) \/ Receive(m) \/ ReceiptLapses(m)
                \/ Respond(m) \/ ConfirmStop(m) \/ ClaimLapses(m)
         PROVE  UNCHANGED wire
    BY <1>11 DEF LocalSend, LocalCancel, Receive, ReceiptLapses, Respond, ConfirmStop, ClaimLapses
  <1>12. ASSUME (\E h \in Host, m \in Msg : Expire(h, m)) \/ (\E h \in Host : LeaseLapses(h))
                \/ (\E c \in Conn : Connect(c))
                \/ (\E c \in Conn, h \in Host :
                        ForwardCheck(c, h) \/ ForwardNothing(c, h) \/ IngestResponse(c, h))
         PROVE  UNCHANGED wire
    BY <1>12 DEF Expire, LeaseLapses, Connect, ForwardCheck, ForwardNothing, IngestResponse
  <1>13. CASE UNCHANGED vars
    BY <1>1, <1>13 DEF vars
  <1> QED
    BY <1>1, <1>3, <1>4, <1>5, <1>6, <1>7, <1>9, <1>10, <1>11, <1>12, <1>13 DEF Next

LEMMA AskedStep ==
    ASSUME Sound, Asked, [Next]_vars
    PROVE  Asked'
  <1> SUFFICES ASSUME NEW d \in Conn, NEW g \in Host
               PROVE  /\ \A f \in Frames(wire'[d][g]) :
                            f.type = "cancel" => mail'[Home[f.m]][f.m] \in Past
                      /\ \A m \in Msg : Ordered(wire'[d][g], m)
    BY DEF Asked
  <1>1. CancelsMove
    BY CancelsStep
  <1>2. ASSUME NEW f \in Frames(wire'[d][g]), f.type = "cancel"
        PROVE  mail'[Home[f.m]][f.m] \in Past
    <2>1. mail[Home[f.m]][f.m] \in Past
      BY <1>1, <1>2 DEF CancelsMove, Asked
    <2>2. f.m \in Msg
      BY SoundStep DEF Sound, FramesSound
    <2> QED
      BY <2>1, <2>2, Ends, PastStays
  <1> QED
    BY <1>1, <1>2 DEF CancelsMove, Asked

\* What is over stays over: nothing sends it again, and nothing is on its way.
LEMMA GoneStays ==
    ASSUME Sound, [Next]_vars, NEW m \in Msg, Gone(m)
    PROVE  Gone(m)'
  <1>h. Home[m] \in Host /\ Dest(m) \in Host
    BY Ends
  <1>t. wire \in Wires
    BY DEF Sound, TypeOK, Wires
  <1>1. mail'[Home[m]][m] \in Past
    BY <1>h, PastStays DEF Gone
  <1>2. CASE mail[Dest(m)][m] \in Terminal
    <2>1. mail'[Dest(m)][m] \in Terminal
      BY <1>h, <1>2, RowsStep DEF RowsMove, RowsForward
    <2> QED
      BY <1>1, <2>1 DEF Gone
  <1>3. CASE copies[m] = 0 /\ \A c \in Conn : ~Landing(c, m)
    <2>1. ASSUME NEW c \in Conn, NEW h \in Host, sess[c][h].pc = "ingest" PROVE sess[c][h].hand # m
      <3>1. Dest(sess[c][h].hand) = h
        BY <2>1 DEF Sound, Hands
      <3> QED
        BY <1>3, <2>1, <3>1 DEF Landing, Deciding
    <2>2. ASSUME NEW c \in Conn, NEW h \in Host, IngestCheck(c, h) PROVE HeadMsg(c, h) # m
      <3>1. Head(wire[c][h]) \in Frames(wire[c][h]) /\ Head(wire[c][h]).type = "deliver"
        BY <1>t, <2>2, PoppedLoses DEF IngestCheck, HeadIs
      <3>2. Dest(HeadMsg(c, h)) = h
        BY <3>1 DEF Sound, FramesSound, HeadMsg
      <3> QED
        BY <1>3, <3>1, <3>2 DEF HeadMsg, Landing, Delivering, IsDelivery
    <2>3. ASSUME NEW c \in Conn, NEW h \in Host, Forward(c, h, m) PROVE FALSE
      BY <2>3 DEF Forward, Gone, Past, Terminal
    <2>4. TokensFall(m)
      BY <2>1, <2>2, <2>3, TokensStep DEF IngestRefuse
    <2>5. \A c \in Conn : ~Landing(c, m)'
      BY <1>3, <2>4 DEF TokensFall, Landing
    <2>6. copies'[m] = copies[m]
      BY <2>1, CopiesStep DEF Ingest, IngestResponse
    <2> QED
      BY <1>1, <1>3, <2>5, <2>6 DEF Gone
  <1> QED
    BY <1>2, <1>3 DEF Gone

\* What a session reports cancelled is over: either its store has cancelled the
\* row, or the cancellation came last of all that was sent of a message, over
\* the only connection there is.
LEMMA AnsweredIsGone ==
    ASSUME Sound, Quiet, Asked, Single, [Next]_vars, NEW f, Answered(f), f.state = "cancelled"
    PROVE  Gone(f.m)'
  <1> DEFINE m == f.m
  <1>1. PICK c \in Conn, h \in Host :
            /\ HandleCancel(c, h) /\ m = HeadMsg(c, h)
            /\ f.state = IF copies[m] > 0 THEN Cancelled(mail[h][m]) ELSE "cancelled"
    BY DEF Answered
  <1>t. wire \in Wires /\ mail \in Mails /\ copies \in [Msg -> Nat]
    BY DEF Sound, TypeOK, Wires, Mails
  <1>2. Head(wire[c][h]) \in Frames(wire[c][h]) /\ Head(wire[c][h]).type = "cancel"
    BY <1>1, <1>t, PoppedLoses DEF HandleCancel, HeadIs
  <1>3. /\ m \in Msg /\ Dest(m) = h /\ Home[m] \in Host
        /\ mail[Home[m]][m] \in Past
    BY <1>1, <1>2, Ends DEF Sound, FramesSound, HeadMsg, Asked
  <1>4. CASE copies[m] > 0
    <2>1. mail' = [mail EXCEPT ![h][m] = "cancelled"]
      BY <1>1, <1>4 DEF HandleCancel
    <2>2. mail'[h][m] = "cancelled"
      BY <1>t, <1>3, <2>1 DEF Mails
    <2>3. mail'[Home[m]][m] \in Past
      BY <1>3, PastStays
    <2> QED
      BY <1>3, <2>2, <2>3 DEF Gone, Terminal
  <1>5. CASE ~(copies[m] > 0)
    <2>1. copies[m] = 0
      BY <1>t, <1>3, <1>5
    <2>2. sess[c][h].pc = "pump" /\ Using(c)
      BY <1>1 DEF HandleCancel, Using, Alive
    <2>3. ~Landing(c, m)
      <3>1. Ordered(wire[c][h], m) /\ IsCancel(Head(wire[c][h]), m) /\ wire[c][h] # << >>
        BY <1>1, <1>2, <1>3 DEF Asked, IsCancel, HeadMsg, HandleCancel, HeadIs
      <3>2. ~\E x \in Frames(wire[c][h]) : IsDelivery(x, m)
        BY <1>t, <1>3, <3>1, PoppedShorter
      <3> QED
        BY <1>3, <2>2, <3>2 DEF Landing, Delivering, Deciding
    <2>4. ASSUME NEW d \in Conn, d # c PROVE ~Landing(d, m)
      <3>1. ~Using(d)
        BY <2>2, <2>4 DEF Single
      <3> QED
        BY <1>3, <3>1, OverLeavesNothing DEF NothingLeft
    <2>5. Gone(m)
      BY <1>3, <2>1, <2>3, <2>4 DEF Gone
    <2> QED
      BY <1>3, <2>5, GoneStays
  <1> QED
    BY <1>4, <1>5

\* confirmed grows by what the session at home was told.
LEMMA ConfirmedStep ==
    ASSUME Sound, Reported, [Next]_vars, NEW m \in confirmed'
    PROVE  m \in Msg /\ Gone(m)
  <1> USE DEF history, linkVars
  <1>t. wire \in Wires /\ confirmed \subseteq Msg
    BY DEF Sound, TypeOK, Wires
  <1>1. CASE m \in confirmed
    BY <1>t, <1>1 DEF Reported
  <1>2. CASE m \notin confirmed
    <2>1. PICK c \in Conn, h \in Host : HandleCancelState(c, h)
      <3>1. ASSUME NEW n \in Msg,
                   LocalSend(n) \/ LocalCancel(n) \/ Receive(n) \/ ReceiptLapses(n)
                   \/ Respond(n) \/ ConfirmStop(n) \/ ClaimLapses(n)
            PROVE  FALSE
        BY <1>2, <3>1
           DEF LocalSend, LocalCancel, Receive, ReceiptLapses, Respond, ConfirmStop, ClaimLapses
      <3>2. ASSUME (\E h \in Host, n \in Msg : Expire(h, n)) \/ (\E h \in Host : LeaseLapses(h))
                   \/ (\E c \in Conn : Connect(c) \/ Break(c))
            PROVE  FALSE
        BY <1>2, <3>2 DEF Expire, LeaseLapses, Connect, Break
      <3>3. ASSUME NEW c \in Conn, NEW h \in Host,
                   \/ Acquire(c, h) \/ Renew(c, h) \/ Stop(c, h) \/ Die(c, h)
                   \/ ForwardCheck(c, h) \/ (\E n \in Msg : Forward(c, h, n))
                   \/ ForwardFailed(c, h) \/ ForwardNothing(c, h)
                   \/ (\E n \in Msg : ForwardCancel(c, h, n)) \/ LostLease(c, h)
            PROVE  FALSE
        BY <1>2, <3>3 DEF Acquire, Renew, Stop, Die, ForwardCheck, Forward, ForwardFailed,
                          ForwardNothing, ForwardCancel, LostLease
      <3>4. ASSUME NEW c \in Conn, NEW h \in Host,
                   \/ IngestCheck(c, h) \/ IngestReplay(c, h) \/ IngestRefuse(c, h)
                   \/ Ingest(c, h) \/ IngestResponse(c, h) \/ RetireRequest(c, h)
                   \/ Receipt(c, h) \/ HandleCancel(c, h)
            PROVE  FALSE
        BY <1>2, <3>4 DEF IngestCheck, IngestReplay, IngestRefuse, Ingest, IngestResponse,
                          RetireRequest, Receipt, HandleCancel
      <3>5. CASE UNCHANGED vars
        BY <1>2, <3>5 DEF vars
      <3> QED
        BY <3>1, <3>2, <3>3, <3>4, <3>5 DEF Next
    <2>2. /\ m = HeadMsg(c, h) /\ Head(wire[c][h]).state = "cancelled"
          /\ Head(wire[c][h]).type = "cancel_state"
      BY <1>2, <2>1 DEF HandleCancelState, HeadIs
    <2>3. Head(wire[c][h]) \in Frames(wire[c][h])
      BY <1>t, <2>1, PoppedLoses DEF HandleCancelState, HeadIs
    <2> QED
      BY <2>2, <2>3 DEF Reported, HeadMsg, Sound, FramesSound
  <1> QED
    BY <1>1, <1>2

LEMMA ReportedStep ==
    ASSUME Sound, Quiet, Asked, Single, Reported, [Next]_vars
    PROVE  Reported'
  <1>1. ASSUME NEW d \in Conn, NEW g \in Host, NEW f \in Frames(wire'[d][g]),
               f.type = "cancel_state", f.state = "cancelled"
        PROVE  Gone(f.m)'
    <2>1. CASE f \in Frames(wire[d][g])
      BY <1>1, <2>1, GoneStays DEF Reported, Sound, FramesSound
    <2>2. CASE f \notin Frames(wire[d][g])
      BY <1>1, <2>2, CancelsStep, AnsweredIsGone DEF CancelsMove
    <2> QED
      BY <2>1, <2>2
  <1>2. ASSUME NEW m \in confirmed' PROVE Gone(m)'
    BY <1>2, ConfirmedStep, GoneStays
  <1> QED
    BY <1>1, <1>2 DEF Reported

\* What confirm_remote_cancel settles at home is over at the peer, and stays
\* so: what the peer's store had cancelled, and what never arrived there and
\* never will.  One connection must be in use at a time: over a second one a
\* copy sent before the cancellation might still be on its way.
THEOREM ConfirmedCancelsStop ==
    ASSUME MaxLive =< 1
    PROVE  Spec => []ConfirmedCancelStops
  <1> DEFINE Inv == Sound /\ Quiet /\ Asked /\ Single /\ Reported
  <1>1. Init => Inv
    <2> SUFFICES ASSUME Init PROVE Inv
      OBVIOUS
    <2>1. Sound /\ Quiet
      BY SettledInit DEF Settled
    <2>2. \A c \in Conn, h \in Host : wire[c][h] = << >> /\ sess[c][h].pc = "none"
      BY DEF Init, NoSession
    <2>3. Asked /\ Reported
      BY <2>2 DEF Asked, Ordered, Reported, Frames, Init
    <2>4. Single
      BY <2>2 DEF Single, Using, Alive
    <2> QED
      BY <2>1, <2>3, <2>4
  <1>2. Inv /\ [Next]_vars => Inv'
    BY SoundStep, QuietStep, AskedStep, SingleStep, ReportedStep
  <1>3. Inv => ConfirmedCancelStops
    <2> SUFFICES ASSUME Inv, NEW m \in confirmed PROVE mail[Dest(m)][m] \notin Pending
      BY DEF ConfirmedCancelStops
    <2>1. m \in Msg /\ Gone(m)
      BY DEF Sound, TypeOK, Reported
    <2> QED
      BY <2>1 DEF Sound, Rows, Gone, Terminal, Pending
  <1> QED
    BY <1>1, <1>2, <1>3, PTL DEF Spec
=============================================================================
