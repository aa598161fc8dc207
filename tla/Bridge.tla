------------------------------- MODULE Bridge -------------------------------
(***************************************************************************)
(* The bridge between two hosts: requests, notices and answers that cross   *)
(* from one durable store to the other over connections that break.         *)
(*                                                                          *)
(* Every message is a row of its home store, on the outbox of a proxy, and  *)
(* becomes a row of the other store when it is ingested there.  A session   *)
(* is one end of a connection; its identity is the owner it takes the peer  *)
(* lease under.  One SQLite transaction is one step, and a session reads    *)
(* whether it still holds the lease before that step begins.  How a store   *)
(* admits and leases mail to its own agents is the Mailbox module's         *)
(* subject; here a recipient is any agent that claims, answers and stops.   *)
(***************************************************************************)
EXTENDS Naturals, Sequences, FiniteSets, SequencesExt

CONSTANTS
    Host,            \* the two hosts
    Request, Notice, Response,   \* message ids by kind
    Home,            \* message -> the host whose agent wrote it
    ReplyTo,         \* response -> the request it answers
    Deadlined,       \* messages sent with a lifetime
    Refusable,       \* messages the receiving host's gates may refuse
    Inexpressible,   \* messages outbound cannot express to the peer
    Conn,            \* connections in the order they are made (a bound)
    Stable,          \* those that neither break nor stall
    MaxLive,         \* connections alive at once
    MaxInFlight,
    MaxFrames,       \* frames on their way each way when a message is forwarded (a bound)
    None

Msg == Request \cup Notice \cup Response
Session == Conn \X Host

Other(h) == CHOOSE g \in Host : g # h
Dest(m) == Other(Home[m])

ASSUME HostAssumption ==
    /\ \E x, y \in Host : x # y /\ Host = {x, y}
    /\ None \notin Session \cup Msg
ASSUME MsgAssumption ==
    /\ Home \in [Msg -> Host]
    /\ ReplyTo \in [Response -> Request]
    /\ \A r \in Response : Home[r] = Other(Home[ReplyTo[r]])
    /\ Request \cap Notice = {} /\ Response \cap (Request \cup Notice) = {}
ASSUME ConnAssumption ==
    /\ Conn \subseteq Nat /\ Stable \subseteq Conn /\ MaxLive \in Nat
    /\ MaxInFlight \in Nat \ {0} /\ MaxFrames \in Nat \ {0}

VARIABLES
    mail,       \* host -> message -> state of its row there
    owner,      \* message -> claim_owner of its row on the home outbox
    copies,     \* message -> rows its receiving store holds of it
    lease,      \* host -> the peer row's lease
    sess,       \* connection -> host -> the session at that end
    wire,       \* connection -> host -> frames on their way to that end
    up,         \* connection -> whether the carrier is open
    confirmed,  \* messages cancelled at home on the peer's word
    resent      \* messages put back on the outbox while the connection they
                \* were claimed for was still in use

vars == <<mail, owner, copies, lease, sess, wire, up, confirmed, resent>>
history == <<confirmed, resent>>
linkVars == <<lease, sess, wire, up>>

Pending == {"queued", "claimed", "delivered", "cancellation_requested"}
\* too_late is undeliverable with failure = expired.
Terminal == {"consumed", "cancelled", "expired", "undeliverable", "too_late"}
State == Pending \cup Terminal \cup {"absent"}

Frame ==
    [type : {"deliver", "accepted", "refused", "cancel"}, m : Msg]
    \cup [type : {"cancel_state"}, m : Msg, state : State]

NoLease == [owner |-> None, live |-> FALSE]

Pc == {"none", "hello", "pump", "ingest", "claim", "fail", "retire", "ended"}
SessionState ==
    [pc : Pc, hand : Msg \cup {None},
     in_flight : SUBSET Msg, cancels_sent : SUBSET Msg]

NoSession ==
    [pc |-> "none", hand |-> None, in_flight |-> {}, cancels_sent |-> {}]
Ended == [NoSession EXCEPT !.pc = "ended"]

\* hello: connected, lease not taken yet.  ingest, claim: the lease was seen
\* to be held and a transaction follows.  fail: the claimed message cannot be
\* expressed to the peer.  retire: respond has sent the answer and not yet
\* retired the request.
Alive(s) == s.pc \in {"hello", "pump", "ingest", "claim", "fail", "retire"}

TypeOK ==
    /\ mail \in [Host -> [Msg -> State]]
    /\ owner \in [Msg -> Session \cup {None}]
    /\ copies \in [Msg -> Nat]
    /\ lease \in [Host -> {NoLease} \cup [owner : Session, live : BOOLEAN]]
    /\ sess \in [Conn -> [Host -> SessionState]]
    /\ wire \in [Conn -> [Host -> Seq(Frame)]]
    /\ up \in [Conn -> BOOLEAN]
    /\ confirmed \subseteq Msg /\ resent \subseteq Msg

Init ==
    /\ mail = [h \in Host |-> [m \in Msg |-> "absent"]]
    /\ owner = [m \in Msg |-> None]
    /\ copies = [m \in Msg |-> 0]
    /\ lease = [h \in Host |-> NoLease]
    /\ sess = [c \in Conn |-> [h \in Host |-> NoSession]]
    /\ wire = [c \in Conn |-> [h \in Host |-> << >>]]
    /\ up = [c \in Conn |-> FALSE]
    /\ confirmed = {} /\ resent = {}

-----------------------------------------------------------------------------
(***************************************************************************)
(* What the agents of each host do with their own store                     *)
(***************************************************************************)

\* A local agent asks or notifies an agent of the other host: the message
\* queues on the outbox of its proxy, whether or not a bridge is connected.
LocalSend(m) ==
    /\ m \in Request \cup Notice
    /\ mail[Home[m]][m] = "absent"
    /\ mail' = [mail EXCEPT ![Home[m]][m] = "queued"]
    /\ UNCHANGED <<owner, copies, linkVars, history>>

\* cancel on one row: queued work is removed, other work is asked to stop.
Cancelled(state) ==
    CASE state = "queued" -> "cancelled"
      [] state \in {"claimed", "delivered"} -> "cancellation_requested"
      [] OTHER -> state

\* The sender cancels its message.
LocalCancel(m) ==
    /\ mail[Home[m]][m] \in {"queued", "claimed", "delivered"}
    /\ m \in Request \cup Notice
    /\ mail' = [mail EXCEPT ![Home[m]][m] = Cancelled(@)]
    /\ UNCHANGED <<owner, copies, linkVars, history>>

\* The recipient takes a message out of its mailbox; a notice is consumed.
Receive(m) ==
    /\ mail[Dest(m)][m] = "queued"
    /\ mail' = [mail EXCEPT
            ![Dest(m)][m] = IF m \in Notice THEN "consumed" ELSE "claimed"]
    /\ UNCHANGED <<owner, copies, linkVars, history>>

\* The recipient's claim lapses.
ReceiptLapses(m) ==
    /\ mail[Dest(m)][m] = "claimed"
    /\ mail' = [mail EXCEPT ![Dest(m)][m] = "queued"]
    /\ UNCHANGED <<owner, copies, linkVars, history>>

\* respond at the receiving host: the answer queues on the outbox of the
\* asker's proxy and the request is retired.
Respond(r) ==
    /\ r \in Response /\ mail[Home[r]][r] = "absent"
    /\ mail[Home[r]][ReplyTo[r]] \in Pending
    /\ mail' = [mail EXCEPT ![Home[r]][r] = "queued",
                            ![Home[r]][ReplyTo[r]] = "consumed"]
    /\ UNCHANGED <<owner, copies, linkVars, history>>

\* The recipient's provider confirms that it stopped.
ConfirmStop(m) ==
    /\ m \in Request
    /\ mail[Dest(m)][m] = "cancellation_requested"
    /\ mail' = [mail EXCEPT ![Dest(m)][m] = "cancelled"]
    /\ UNCHANGED <<owner, copies, linkVars, history>>

\* sweep of either store: only what is queued or claimed expires.
Expire(h, m) ==
    /\ m \in Deadlined
    /\ mail[h][m] \in {"queued", "claimed"}
    /\ mail' = [mail EXCEPT ![h][m] = "expired"]
    /\ UNCHANGED <<owner, copies, linkVars, history>>

-----------------------------------------------------------------------------
(***************************************************************************)
(* The peer lease                                                           *)
(***************************************************************************)

\* Either end of the connection still runs.
Using(c) == \E h \in Host : Alive(sess[c][h])

\* requeue_proxy_claims: the outbox claims of session s, back on the queue.
ClaimsOf(s) == {m \in Msg : mail[Home[m]][m] = "claimed" /\ owner[m] = s}

\* A bug this definition could have: the claims are left to lapse.
RequeueClaims_left(s, running) == UNCHANGED <<mail, owner, resent>>

\* `running' says whether either end of the connection of s goes on running.
RequeueClaims(s, running) ==
    /\ mail' = [h \in Host |-> [m \in Msg |->
                  IF m \in ClaimsOf(s) /\ h = Home[m] THEN "queued" ELSE mail[h][m]]]
    /\ owner' = [m \in Msg |-> IF m \in ClaimsOf(s) THEN None ELSE owner[m]]
    /\ resent' = IF running THEN resent \cup ClaimsOf(s) ELSE resent

\* The lease of an outbox claim lapses and some process sweeps; a connection
\* that works answers long before.
ClaimLapses(m) ==
    /\ mail[Home[m]][m] = "claimed"
    /\ owner[m][1] \notin Stable
    /\ mail' = [mail EXCEPT ![Home[m]][m] = "queued"]
    /\ owner' = [owner EXCEPT ![m] = None]
    /\ resent' = IF Using(owner[m][1]) THEN resent \cup {m} ELSE resent
    /\ UNCHANGED <<copies, linkVars, confirmed>>

HeldByOther(s, h) == lease[h].owner \notin {s, None}
HoldsLease(c, h) == lease[h] = [owner |-> <<c, h>>, live |-> TRUE]

\* acquire_peer_lease succeeds: for a new owner, for the owner itself however
\* long ago its lease lapsed, and over another owner's lapsed lease.
TakeLease(c, h) ==
    /\ ~(HeldByOther(<<c, h>>, h) /\ lease[h].live)
    /\ lease' = [lease EXCEPT ![h] = [owner |-> <<c, h>>, live |-> TRUE]]
    /\ IF HeldByOther(<<c, h>>, h)
       THEN RequeueClaims(lease[h].owner, Using(lease[h].owner[1]))
       ELSE UNCHANGED <<mail, owner, resent>>

\* release_peer_lease, when the session's own lease is still the one recorded.
ReleaseLease(c, h) ==
    IF lease[h].owner = <<c, h>>
    THEN /\ lease' = [lease EXCEPT ![h] = NoLease]
         /\ RequeueClaims(<<c, h>>, Alive(sess[c][Other(h)]))
    ELSE UNCHANGED <<lease, mail, owner, resent>>

\* The holder was suspended, or is gone, past lease_expires_at; a session that
\* runs renews three times in that time.
LeaseLapses(h) ==
    /\ lease[h].live
    /\ lease[h].owner[1] \notin Stable
    /\ lease' = [lease EXCEPT ![h].live = FALSE]
    /\ UNCHANGED <<mail, owner, copies, sess, wire, up, history>>

-----------------------------------------------------------------------------
(***************************************************************************)
(* Connections and sessions                                                 *)
(***************************************************************************)

\* The carrier opens and both ends exchange hellos.
Connect(c) ==
    /\ \A h \in Host : sess[c][h].pc = "none"
    /\ \A d \in Conn : d < c => \A h \in Host : sess[d][h].pc # "none"
    /\ Cardinality({d \in Conn : Using(d)}) < MaxLive
    /\ c \in Stable => \A h \in Host : ~lease[h].live
    /\ up' = [up EXCEPT ![c] = TRUE]
    /\ sess' = [sess EXCEPT ![c] = [h \in Host |-> [NoSession EXCEPT !.pc = "hello"]]]
    /\ UNCHANGED <<mail, owner, copies, lease, wire, history>>

\* The process at one end is gone: the carrier closes, what it had not read is
\* dropped, and of what it wrote the other end may still read a prefix.
Hangup(c, h) ==
    /\ sess' = [sess EXCEPT ![c][h] = Ended]
    /\ up' = [up EXCEPT ![c] = FALSE]
    /\ \E kept \in Prefixes(wire[c][Other(h)]) :
            wire' = [wire EXCEPT ![c] = [g \in Host |-> IF g = h THEN << >> ELSE kept]]

\* The end of run: the lease is released when it is still this session's.
Finish(c, h) == ReleaseLease(c, h) /\ Hangup(c, h)

\* The first acquisition.  A second bridge to the same peer stands aside; run
\* returns before there is a session, so nothing is released.
Acquire(c, h) ==
    /\ sess[c][h].pc = "hello"
    /\ \/ /\ TakeLease(c, h)
          /\ sess' = [sess EXCEPT ![c][h].pc = "pump"]
          /\ UNCHANGED <<wire, up>>
       \/ /\ HeldByOther(<<c, h>>, h) /\ lease[h].live
          /\ Hangup(c, h)
          /\ UNCHANGED <<mail, owner, lease, resent>>
    /\ UNCHANGED <<copies, confirmed>>

\* The renewal of pump; another bridge that took over ends the session.
Renew(c, h) ==
    /\ sess[c][h].pc = "pump" /\ ~HoldsLease(c, h)
    /\ \/ /\ TakeLease(c, h)
          /\ UNCHANGED <<sess, wire, up>>
       \/ /\ HeldByOther(<<c, h>>, h) /\ lease[h].live
          /\ Finish(c, h)
    /\ UNCHANGED <<copies, confirmed>>

\* A stop request, a vanished parent, an idle timeout or a closed carrier.
Stop(c, h) ==
    /\ sess[c][h].pc = "pump"
    /\ c \notin Stable \/ ~up[c]
    /\ Finish(c, h)
    /\ UNCHANGED <<copies, confirmed>>

\* The session's process dies between any two of its transactions.
Die(c, h) ==
    /\ Alive(sess[c][h]) /\ c \notin Stable
    /\ Hangup(c, h)
    /\ UNCHANGED <<mail, owner, copies, lease, history>>

\* The carrier breaks under both ends and loses a suffix of each direction.
Break(c) ==
    /\ up[c] /\ c \notin Stable
    /\ up' = [up EXCEPT ![c] = FALSE]
    /\ \E kept \in [Host -> UNION {Prefixes(wire[c][h]) : h \in Host}] :
            /\ \A h \in Host : kept[h] \in Prefixes(wire[c][h])
            /\ wire' = [wire EXCEPT ![c] = kept]
    /\ UNCHANGED <<mail, owner, copies, lease, sess, history>>

-----------------------------------------------------------------------------
(***************************************************************************)
(* Outbound: forward_outbound and forward_cancellations                     *)
(***************************************************************************)

\* A frame written to a carrier that is gone is lost.
Written(c, h, w, f) ==
    IF up[c] THEN [w EXCEPT ![c][Other(h)] = Append(@, f)] ELSE w

\* proxy_caller: the lease is read before the claim's transaction.
ForwardCheck(c, h) ==
    /\ sess[c][h].pc = "pump" /\ HoldsLease(c, h)
    /\ Cardinality(sess[c][h].in_flight) < MaxInFlight
    /\ \A g \in Host : Len(wire[c][g]) < MaxFrames
    /\ \E m \in Msg : Home[m] = h /\ mail[h][m] = "queued"
    /\ sess' = [sess EXCEPT ![c][h].pc = "claim"]
    /\ UNCHANGED <<mail, owner, copies, lease, wire, up, history>>

\* settle_outbound: only a claim this session still holds is settled.
Settle(c, h, m, state) ==
    IF mail[h][m] = "claimed" /\ owner[m] = <<c, h>>
    THEN /\ mail' = [mail EXCEPT ![h][m] = state]
         /\ owner' = [owner EXCEPT ![m] = None]
    ELSE UNCHANGED <<mail, owner>>

\* claim_outbound and outbound: the message is claimed for this session and a
\* deliver frame written, unless it cannot be expressed to the peer or its
\* lifetime ran out since the claim.
Forward(c, h, m) ==
    /\ sess[c][h].pc = "claim"
    /\ Home[m] = h /\ mail[h][m] = "queued"
    /\ mail' = [mail EXCEPT ![h][m] = "claimed"]
    /\ owner' = [owner EXCEPT ![m] = <<c, h>>]
    /\ \/ /\ m \in Inexpressible \cup Deadlined
          /\ sess' = [sess EXCEPT ![c][h].pc = "fail", ![c][h].hand = m]
          /\ UNCHANGED wire
       \/ /\ m \notin Inexpressible
          /\ sess' = [sess EXCEPT ![c][h].pc = "pump",
                                  ![c][h].in_flight = @ \cup {m}]
          /\ wire' = Written(c, h, wire, [type |-> "deliver", m |-> m])
    /\ UNCHANGED <<copies, lease, up, history>>

\* forward_failed, in a transaction of its own: what this session still holds
\* is undeliverable.  Without the lease the session ends.
ForwardFailed(c, h) ==
    /\ sess[c][h].pc = "fail"
    /\ IF HoldsLease(c, h)
       THEN /\ Settle(c, h, sess[c][h].hand,
                      IF sess[c][h].hand \in Inexpressible THEN "undeliverable" ELSE "too_late")
            /\ sess' = [sess EXCEPT ![c][h].pc = "pump", ![c][h].hand = None]
            /\ UNCHANGED <<lease, wire, up, resent>>
       ELSE Finish(c, h)
    /\ UNCHANGED <<copies, confirmed>>

\* Nothing is left to claim.
ForwardNothing(c, h) ==
    /\ sess[c][h].pc = "claim"
    /\ ~\E m \in Msg : Home[m] = h /\ mail[h][m] = "queued"
    /\ sess' = [sess EXCEPT ![c][h].pc = "pump"]
    /\ UNCHANGED <<mail, owner, copies, lease, wire, up, history>>

\* forward_cancellations: once per connection, and without asking whether the
\* lease is still held.
ForwardCancel(c, h, m) ==
    /\ sess[c][h].pc = "pump"
    /\ Home[m] = h /\ mail[h][m] = "cancellation_requested"
    /\ m \notin sess[c][h].cancels_sent
    /\ sess' = [sess EXCEPT ![c][h].cancels_sent = @ \cup {m}]
    /\ wire' = Written(c, h, wire, [type |-> "cancel", m |-> m])
    /\ UNCHANGED <<mail, owner, copies, lease, up, history>>

-----------------------------------------------------------------------------
(***************************************************************************)
(* Inbound: handle                                                          *)
(***************************************************************************)
HeadIs(c, h, type) == wire[c][h] # << >> /\ Head(wire[c][h]).type = type
HeadMsg(c, h) == Head(wire[c][h]).m
Popped(c, h) == [wire EXCEPT ![c][h] = Tail(@)]

\* A handler finds that the session does not hold the lease: fatal.
LostLease(c, h) ==
    /\ sess[c][h].pc = "pump" /\ ~HoldsLease(c, h)
    /\ \/ HeadIs(c, h, "deliver") \/ HeadIs(c, h, "cancel_state")
       \/ HeadIs(c, h, "cancel") /\ copies[HeadMsg(c, h)] > 0
       \/ /\ HeadIs(c, h, "accepted") \/ HeadIs(c, h, "refused")
          /\ HeadMsg(c, h) \in sess[c][h].in_flight
    /\ Finish(c, h)
    /\ UNCHANGED <<copies, confirmed>>

\* A bug this definition could have: the receipt is sent before the commit.
IngestCheck_early_receipt(c, h) ==
    /\ sess[c][h].pc = "pump" /\ HeadIs(c, h, "deliver") /\ HoldsLease(c, h)
    /\ sess' = [sess EXCEPT ![c][h].pc = "ingest", ![c][h].hand = HeadMsg(c, h)]
    /\ wire' = Written(c, h, Popped(c, h), [type |-> "accepted", m |-> HeadMsg(c, h)])
    /\ UNCHANGED <<mail, owner, copies, lease, up, history>>

\* require_live_lease and proxy_caller of ingest, before its transaction.
IngestCheck(c, h) ==
    /\ sess[c][h].pc = "pump" /\ HeadIs(c, h, "deliver") /\ HoldsLease(c, h)
    /\ sess' = [sess EXCEPT ![c][h].pc = "ingest", ![c][h].hand = HeadMsg(c, h)]
    /\ wire' = Popped(c, h)
    /\ UNCHANGED <<mail, owner, copies, lease, up, history>>

\* The message in hand is dealt with and the peer told.
Handled(c, h, type) ==
    /\ sess' = [sess EXCEPT ![c][h].pc = "pump", ![c][h].hand = None]
    /\ wire' = Written(c, h, wire, [type |-> type, m |-> sess[c][h].hand])

\* The origin id is the idempotency key: a message that is here already is
\* accepted again, whatever its kind and whatever became of it.
IngestReplay(c, h) ==
    /\ sess[c][h].pc = "ingest"
    /\ copies[sess[c][h].hand] > 0
    /\ Handled(c, h, "accepted")
    /\ UNCHANGED <<mail, owner, copies, lease, up, history>>

\* A bug this definition could have: the gates are asked before the key.
IngestRefuse_gates_first(c, h) ==
    /\ sess[c][h].pc = "ingest"
    /\ sess[c][h].hand \in Refusable
    /\ Handled(c, h, "refused")
    /\ UNCHANGED <<mail, owner, copies, lease, up, history>>

\* The receiving host says no: a gate, a rate, a quota, or an answer to a
\* request that is no longer waiting.
IngestRefuse(c, h) ==
    /\ sess[c][h].pc = "ingest"
    /\ LET m == sess[c][h].hand
       IN  /\ copies[m] = 0
           /\ \/ m \in Refusable
              \/ m \in Response /\ mail[h][ReplyTo[m]] \in Terminal
    /\ Handled(c, h, "refused")
    /\ UNCHANGED <<mail, owner, copies, lease, up, history>>

\* A bug this definition could have: the origin id is not looked up.
Ingest_no_key(c, h) ==
    /\ sess[c][h].pc = "ingest"
    /\ LET m == sess[c][h].hand
       IN  /\ m \notin Response
           /\ mail' = [mail EXCEPT ![h][m] = "queued"]
           /\ copies' = [copies EXCEPT ![m] = @ + 1]
    /\ Handled(c, h, "accepted")
    /\ UNCHANGED <<owner, lease, up, history>>

\* A request or a notice is committed to the recipient's mailbox.
Ingest(c, h) ==
    /\ sess[c][h].pc = "ingest"
    /\ LET m == sess[c][h].hand
       IN  /\ m \notin Response /\ copies[m] = 0
           /\ mail' = [mail EXCEPT ![h][m] = "queued"]
           /\ copies' = [copies EXCEPT ![m] = @ + 1]
    /\ Handled(c, h, "accepted")
    /\ UNCHANGED <<owner, lease, up, history>>

\* An answer goes through respond: its first transaction commits it to the
\* asker's mailbox.
IngestResponse(c, h) ==
    /\ sess[c][h].pc = "ingest"
    /\ LET m == sess[c][h].hand
       IN  /\ m \in Response /\ copies[m] = 0
           /\ mail[h][ReplyTo[m]] \in Pending
           /\ mail' = [mail EXCEPT ![h][m] = "queued"]
           /\ copies' = [copies EXCEPT ![m] = @ + 1]
    /\ sess' = [sess EXCEPT ![c][h].pc = "retire"]
    /\ UNCHANGED <<owner, lease, wire, up, history>>

\* A bug this definition could have: the request is retired whatever its state.
RetireRequest_any_state(c, h) ==
    /\ sess[c][h].pc = "retire"
    /\ mail' = [mail EXCEPT ![h][ReplyTo[sess[c][h].hand]] = "consumed"]
    /\ owner' = [owner EXCEPT ![ReplyTo[sess[c][h].hand]] = None]
    /\ Handled(c, h, "accepted")
    /\ UNCHANGED <<copies, lease, up, history>>

\* The second transaction of respond retires the request.
RetireRequest(c, h) ==
    /\ sess[c][h].pc = "retire"
    /\ LET request == ReplyTo[sess[c][h].hand]
       IN  IF mail[h][request] \in Pending
           THEN /\ mail' = [mail EXCEPT ![h][request] = "consumed"]
                /\ owner' = [owner EXCEPT ![request] = None]
           ELSE UNCHANGED <<mail, owner>>
    /\ Handled(c, h, "accepted")
    /\ UNCHANGED <<copies, lease, up, history>>

\* accepted and refused, for a delivery of this session.
Receipt(c, h) ==
    /\ sess[c][h].pc = "pump"
    /\ HeadIs(c, h, "accepted") \/ HeadIs(c, h, "refused")
    /\ LET m == HeadMsg(c, h)
       IN  IF m \in sess[c][h].in_flight
           THEN /\ HoldsLease(c, h)
                /\ Settle(c, h, m, IF HeadIs(c, h, "refused") THEN "undeliverable"
                                   ELSE IF m \in Request THEN "delivered"
                                   ELSE "consumed")
                /\ sess' = [sess EXCEPT ![c][h].in_flight = @ \ {m}]
           ELSE UNCHANGED <<mail, owner, sess>>
    /\ wire' = Popped(c, h)
    /\ UNCHANGED <<copies, lease, up, history>>

\* cancel: what is here is cancelled as its sender would; what never arrived
\* is reported cancelled, without asking for the lease.
HandleCancel(c, h) ==
    /\ sess[c][h].pc = "pump" /\ HeadIs(c, h, "cancel")
    /\ LET m == HeadMsg(c, h)
           state == IF copies[m] > 0 THEN Cancelled(mail[h][m]) ELSE "cancelled"
       IN  /\ copies[m] > 0 => HoldsLease(c, h)
           /\ mail' = IF copies[m] > 0 THEN [mail EXCEPT ![h][m] = state] ELSE mail
           /\ wire' = Written(c, h, Popped(c, h),
                              [type |-> "cancel_state", m |-> m, state |-> state])
    /\ UNCHANGED <<owner, copies, lease, sess, up, history>>

\* A bug this definition could have: any report counts as a confirmation.
HandleCancelState_any_report(c, h) ==
    /\ sess[c][h].pc = "pump" /\ HeadIs(c, h, "cancel_state") /\ HoldsLease(c, h)
    /\ LET m == HeadMsg(c, h)
       IN  IF mail[h][m] \in {"claimed", "delivered", "cancellation_requested"}
           THEN /\ mail' = [mail EXCEPT ![h][m] = "cancelled"]
                /\ owner' = [owner EXCEPT ![m] = None]
                /\ confirmed' = confirmed \cup {m}
           ELSE UNCHANGED <<mail, owner, confirmed>>
    /\ wire' = Popped(c, h)
    /\ UNCHANGED <<copies, lease, sess, up, resent>>

\* cancel_state: only a confirmed cancellation changes anything.
HandleCancelState(c, h) ==
    /\ sess[c][h].pc = "pump" /\ HeadIs(c, h, "cancel_state") /\ HoldsLease(c, h)
    /\ LET m == HeadMsg(c, h)
       IN  IF /\ Head(wire[c][h]).state = "cancelled"
              /\ mail[h][m] \in {"claimed", "delivered", "cancellation_requested"}
           THEN /\ mail' = [mail EXCEPT ![h][m] = "cancelled"]
                /\ owner' = [owner EXCEPT ![m] = None]
                /\ confirmed' = confirmed \cup {m}
           ELSE UNCHANGED <<mail, owner, confirmed>>
    /\ wire' = Popped(c, h)
    /\ UNCHANGED <<copies, lease, sess, up, resent>>

-----------------------------------------------------------------------------
Next ==
    \/ \E m \in Msg : LocalSend(m)
    \/ \E m \in Msg : LocalCancel(m)
    \/ \E m \in Msg : Receive(m)
    \/ \E m \in Msg : ReceiptLapses(m)
    \/ \E m \in Msg : Respond(m)
    \/ \E m \in Msg : ConfirmStop(m)
    \/ \E h \in Host, m \in Msg : Expire(h, m)
    \/ \E m \in Msg : ClaimLapses(m)
    \/ \E h \in Host : LeaseLapses(h)
    \/ \E c \in Conn : Connect(c)
    \/ \E c \in Conn : Break(c)
    \/ \E c \in Conn, h \in Host :
        \/ Acquire(c, h) \/ Renew(c, h) \/ Stop(c, h) \/ Die(c, h)
        \/ ForwardCheck(c, h)
        \/ \E m \in Msg : Forward(c, h, m)
        \/ ForwardFailed(c, h) \/ ForwardNothing(c, h)
        \/ \E m \in Msg : ForwardCancel(c, h, m)
        \/ LostLease(c, h)
        \/ IngestCheck(c, h) \/ IngestReplay(c, h) \/ IngestRefuse(c, h)
        \/ Ingest(c, h) \/ IngestResponse(c, h) \/ RetireRequest(c, h)
        \/ Receipt(c, h) \/ HandleCancel(c, h) \/ HandleCancelState(c, h)

Spec == Init /\ [][Next]_vars

\* The steps a session takes by itself, given time.
Pump(c, h) ==
    \/ Acquire(c, h) \/ Renew(c, h)
    \/ ForwardCheck(c, h) \/ (\E m \in Msg : Forward(c, h, m))
    \/ ForwardFailed(c, h) \/ ForwardNothing(c, h)
    \/ \E m \in Msg : ForwardCancel(c, h, m)

Handle(c, h) ==
    \/ LostLease(c, h)
    \/ IngestCheck(c, h) \/ IngestReplay(c, h) \/ IngestRefuse(c, h)
    \/ Ingest(c, h) \/ IngestResponse(c, h) \/ RetireRequest(c, h)
    \/ Receipt(c, h) \/ HandleCancel(c, h) \/ HandleCancelState(c, h)

HearsNothing(c, h) == ~up[c] /\ wire[c][h] = << >> /\ Stop(c, h)

\* Somebody reconnects, a carrier that does not hold breaks, sessions run, a
\* lease that nobody renews lapses, and deadlines pass.  Every turn of pump
\* looks at the carrier, so its end is noticed even by a session that always
\* has something to forward.  Nothing is assumed of the agents, and nothing of
\* the lapse of claims.
Fairness ==
    /\ \A c \in Conn : WF_vars(Connect(c)) /\ WF_vars(Break(c))
    /\ \A h \in Host : WF_vars(LeaseLapses(h))
    /\ \A h \in Host, m \in Msg : WF_vars(Expire(h, m))
    /\ \A c \in Conn, h \in Host :
        /\ WF_vars(Pump(c, h))
        /\ SF_vars(Handle(c, h))
        /\ SF_vars(HearsNothing(c, h))

FairSpec == Spec /\ Fairness

-----------------------------------------------------------------------------
(***************************************************************************)
(* Properties                                                               *)
(***************************************************************************)

\* "A delivery whose acceptance was lost lands exactly once": however often a
\* message is resent, over whichever sessions, its receiving store commits it
\* once.
LandsOnce == \A m \in Msg : copies[m] =< 1

\* A receipt means a commit: what its home store holds as delivered, or as
\* consumed by the bridge, is in the other store; and a request is consumed at
\* home only once its answer is there.
ReceiptMeansCommit ==
    \A m \in Msg :
        /\ mail[Home[m]][m] = "delivered" => copies[m] > 0
        /\ m \notin Request /\ mail[Home[m]][m] = "consumed" => copies[m] > 0
        /\ m \in Request /\ mail[Home[m]][m] = "consumed"
                => \E r \in Response : ReplyTo[r] = m /\ copies[r] > 0

\* forward_failed: a message that failed with the peer's refusal is not at
\* work there, although it may have been sent over several connections and the
\* peer's gates may have changed their mind in between; unless it was put back
\* on the outbox, and perhaps sent again, while a first copy was on its way.
UndeliverableNeverLanded ==
    \A m \in Msg \ resent : mail[Home[m]][m] = "undeliverable" => copies[m] = 0

\* confirm_remote_cancel: what is cancelled on the peer's word is over on the
\* peer, and stays so.  handle relies on it when a message never arrived: "The
\* sender only asks after its copy stopped being resent, so nothing of it can
\* still arrive".
ConfirmedCancelStops ==
    \A m \in confirmed : mail[Dest(m)][m] \notin Pending

\* Whatever waits on an outbox is settled once a connection holds: claims of
\* sessions that died, were superseded or stood aside do not strand it.
OutboxDrains ==
    \A m \in Msg : (mail[Home[m]][m] \in {"queued", "claimed"})
                        ~> (mail[Home[m]][m] \notin {"queued", "claimed"})

(***************************************************************************)
(* The abstract call this implements                                        *)
(***************************************************************************)
AskerOf(state) ==
    CASE state = "absent" -> "none"
      [] state \in Pending -> "waiting"
      [] state = "consumed" -> "answered"
      [] state = "too_late" -> "expired"
      [] OTHER -> state

WorkerOf(state) ==
    CASE state = "absent" -> "none"
      [] state \in Pending -> "has"
      [] state = "consumed" -> "answered"
      [] OTHER -> state

AnswersTo(q) == {r \in Response : ReplyTo[r] = q /\ mail[Home[r]][r] # "absent"}

Call == INSTANCE RemoteCall WITH
    asker <- [q \in Request |-> AskerOf(mail[Home[q]][q])],
    worker <- [q \in Request |-> WorkerOf(mail[Dest(q)][q])],
    answer <- [q \in Request |->
                 IF AnswersTo(q) = {} THEN "none"
                 ELSE IF \E r \in AnswersTo(q) : copies[r] > 0 THEN "arrived"
                 ELSE "written"]

\* Leases, claims, resends, receipts and breaking connections implement a
\* remote call: a request is worked on at most once, its answer reaches the
\* asker at most once and only from a worker that finished it, and no side's
\* resolution is ever taken back.
ImplementsCall == Call!CallSpec

(***************************************************************************)
(* Statements of comments and tests that the code does not keep             *)
(***************************************************************************)

\* cancel: the store "never manufactures a cancelled outcome an adapter has
\* not confirmed".
CancelledMeansStopped ==
    \A m \in Request : mail[Home[m]][m] = "cancelled"
                            => mail[Dest(m)][m] \notin Pending

\* respond: a crash between its transactions "leaves the response delivered
\* and the request still pending, which is recoverable".
AnsweredRequestsSettle ==
    \A r \in Response : (copies[r] > 0)
        ~> (mail[Home[ReplyTo[r]]][ReplyTo[r]] \notin Pending)

\* wait: "Block until answered, cancelled, or expired".
DeadlinesEndTheWait ==
    \A m \in Deadlined \cap Request :
        (mail[Home[m]][m] \in Pending) ~> (mail[Home[m]][m] \notin Pending)

\* forward_failed: the claim's owner is checked, so a refusal settles the copy
\* it is about.  Also of a message that was sent a second time meanwhile.
RefusedNeverLands ==
    \A m \in Msg : mail[Home[m]][m] = "undeliverable" => copies[m] = 0

\* CancelState is sent "again if a provider later confirms a stop".
StopsAreReported ==
    \A m \in Request :
        (mail[Dest(m)][m] = "cancelled" /\ mail[Home[m]][m] = "cancellation_requested")
            ~> (mail[Home[m]][m] \notin Pending)
=============================================================================
