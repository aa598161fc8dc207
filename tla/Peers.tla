------------------------------- MODULE Peers --------------------------------
(***************************************************************************)
(* The peer and proxy tables of one store: pinning a label to the host that *)
(* answered, trusting it, leasing it to one bridge at a time, the proxies   *)
(* that stand for its agents, and forgetting it.  Bridges connect to        *)
(* whichever host answers; agents send through proxies; the operator pins,  *)
(* trusts and forgets at any moment in between.  One transaction is one     *)
(* step, and what a process read before it travels in sess or draft.        *)
(***************************************************************************)
EXTENDS Naturals, FiniteSets

CONSTANTS
    PeerId,      \* peer rows that can be minted (a bound)
    HostId,      \* the stores that may answer
    Label,       \* labels users and hellos choose
    Remote,      \* endpoint ids of remote agents
    Bridge,      \* bridge processes, and the owner ids they mint
    Sender,      \* processes that send mail to remote agents
    Outbound,    \* messages from local agents (a bound)
    Inbound,     \* messages that arrive from peers (a bound)
    MaxProxies,  \* what MAX_ENDPOINTS leaves for proxies
    None

\* The label identify derives from a host id when the name is taken.
ShortLabel == {<<l, h>> : l \in Label, h \in HostId}
Proxy == PeerId \X Remote

ASSUME PeersAssumption ==
    /\ None \notin PeerId \cup HostId \cup Bridge \cup Label \cup ShortLabel \cup Proxy
    /\ MaxProxies \in Nat /\ IsFiniteSet(PeerId) /\ IsFiniteSet(Remote)

VARIABLES
    peer,     \* peer table
    proxy,    \* proxies that exist -> incarnation of their endpoint row
    out,      \* mail to proxies
    inbox,    \* mail from proxies
    sess,     \* bridge processes
    draft,    \* sender -> the proxy it resolved its selector to
    given     \* hosts the operator trusted by the label they then had

vars == <<peer, proxy, out, inbox, sess, draft, given>>

NoPeer == [label |-> None, host |-> None, trusted |-> FALSE, retired |-> FALSE,
           owner |-> None, live |-> FALSE]

Known(p) == peer[p].host # None /\ ~peer[p].retired

Pending == {"queued", "claimed", "delivered"}

PeerRow ==
    [label : Label \cup ShortLabel \cup {None}, host : HostId \cup {None},
     trusted : BOOLEAN, retired : BOOLEAN, owner : Bridge \cup {None}, live : BOOLEAN]
OutState == Pending \cup {"absent", "undeliverable", "consumed"}
OutRow == [state : OutState, to : Proxy \cup {None}, owner : Bridge \cup {None}]
InState == {"absent", "queued", "claimed", "undeliverable"}
InRow == [state : InState, from : Proxy \cup {None}]
Pc == {"idle", "hello", "serve", "short", "lease", "pump", "claim", "insert", "ended"}
SessionState ==
    [pc : Pc, host : HostId \cup {None}, peer : PeerId \cup {None},
     hand : Remote \cup Label \cup {None}]

TypeOK ==
    /\ peer \in [PeerId -> PeerRow]
    /\ \A p \in PeerId : Known(p) <=> peer[p].label # None
    /\ DOMAIN proxy \subseteq Proxy /\ Cardinality(DOMAIN proxy) =< MaxProxies
    /\ \A x \in DOMAIN proxy : proxy[x] \in Bridge \cup {None}
    /\ out \in [Outbound -> OutRow]
    /\ inbox \in [Inbound -> InRow]
    /\ sess \in [Bridge -> SessionState]
    /\ draft \in [Sender -> Proxy \cup {None}]
    /\ given \subseteq HostId

Init ==
    /\ peer = [p \in PeerId |-> NoPeer]
    /\ proxy = [x \in {} |-> None]
    /\ out = [m \in Outbound |-> [state |-> "absent", to |-> None, owner |-> None]]
    /\ inbox = [m \in Inbound |-> [state |-> "absent", from |-> None]]
    /\ sess = [b \in Bridge |-> [pc |-> "idle", host |-> None, peer |-> None,
                              hand |-> None]]
    /\ draft = [s \in Sender |-> None]
    /\ given = {}

-----------------------------------------------------------------------------
(***************************************************************************)
(* Pins                                                                     *)
(***************************************************************************)
ByLabel(l) == {p \in PeerId : Known(p) /\ peer[p].label = l}
ByHost(h) == {p \in PeerId : Known(p) /\ peer[p].host = h}
Fresh == {p \in PeerId : peer[p].host = None}

\* A bug this definition could have: whoever answers under a label is it.
Pins_whoever_answers(l, h, p) ==
    \/ p \in ByLabel(l) /\ peer' = [peer EXCEPT ![p].host = h]
    \/ /\ ByLabel(l) = {} /\ ByHost(h) = {} /\ p \in Fresh
       /\ peer' = [peer EXCEPT ![p].label = l, ![p].host = h]

\* pin_peer(l, h) returns peer p: the one already under that label when the
\* same host answered, or a new row when neither the label nor the host is
\* taken.  Everything else is peer_mismatch.
Pins(l, h, p) ==
    \/ p \in ByLabel(l) /\ peer[p].host = h /\ UNCHANGED peer
    \/ /\ ByLabel(l) = {} /\ ByHost(h) = {} /\ p \in Fresh
       /\ peer' = [peer EXCEPT ![p].label = l, ![p].host = h]

Mismatch(l, h) ==
    IF ByLabel(l) # {} THEN ByLabel(l) \cap ByHost(h) = {} ELSE ByHost(h) # {}

\* The carrier opens and host h says hello.
Hello(b, h) ==
    /\ sess[b].pc = "idle"
    /\ sess' = [sess EXCEPT ![b].pc = "hello", ![b].host = h]
    /\ UNCHANGED <<peer, proxy, out, inbox, draft, given>>

Identified(b, p) == sess' = [sess EXCEPT ![b].pc = "lease", ![b].peer = p]
Ends(b) == sess' = [sess EXCEPT ![b].pc = "ended"]

\* identify of a dialling bridge: strictly the label the user dialled.
IdentifyDial(b, l) ==
    /\ sess[b].pc = "hello"
    /\ \/ \E p \in PeerId : Pins(l, sess[b].host, p) /\ Identified(b, p)
       \/ Mismatch(l, sess[b].host) /\ Ends(b) /\ UNCHANGED peer
    /\ UNCHANGED <<proxy, out, inbox, draft, given>>

\* identify of a serving bridge: peer_by_host knows the host, or a name has to
\* be pinned in a transaction of its own: the name l it suggests,
ServeKnown(b) ==
    /\ sess[b].pc = "hello"
    /\ \/ \E p \in ByHost(sess[b].host) : Identified(b, p)
       \/ ByHost(sess[b].host) = {} /\ sess' = [sess EXCEPT ![b].pc = "serve"]
    /\ UNCHANGED <<peer, proxy, out, inbox, draft, given>>

ServePin(b, l) ==
    /\ sess[b].pc = "serve"
    /\ \/ \E p \in PeerId : Pins(l, sess[b].host, p) /\ Identified(b, p)
       \/ /\ Mismatch(l, sess[b].host)
          /\ sess' = [sess EXCEPT ![b].pc = "short", ![b].hand = l]
          /\ UNCHANGED peer
    /\ UNCHANGED <<proxy, out, inbox, draft, given>>

\* and after a mismatch that name with the host's short id, which fails when
\* another bridge pinned the host meanwhile.
ServeShort(b) ==
    /\ sess[b].pc = "short"
    /\ LET l == <<sess[b].hand, sess[b].host>>
       IN  \/ \E p \in PeerId : Pins(l, sess[b].host, p)
                /\ sess' = [sess EXCEPT ![b].pc = "lease", ![b].peer = p, ![b].hand = None]
           \/ Mismatch(l, sess[b].host) /\ UNCHANGED peer
                /\ sess' = [sess EXCEPT ![b].pc = "ended", ![b].hand = None]
    /\ UNCHANGED <<proxy, out, inbox, draft, given>>

\* set_peer_trust, by label.
Trust(l, yes) ==
    /\ ByLabel(l) # {}
    /\ \A p \in ByLabel(l) : peer[p].trusted # yes
    /\ peer' = [p \in PeerId |-> IF p \in ByLabel(l)
                                 THEN [peer[p] EXCEPT !.trusted = yes] ELSE peer[p]]
    /\ given' = IF yes THEN given \cup {peer[p].host : p \in ByLabel(l)}
                ELSE given \ {peer[p].host : p \in ByLabel(l)}
    /\ UNCHANGED <<proxy, out, inbox, sess, draft>>

-----------------------------------------------------------------------------
(***************************************************************************)
(* The lease                                                                *)
(***************************************************************************)
ProxiesOf(p) == {x \in DOMAIN proxy : x[1] = p}

\* Every proxy of peer p has incarnation i from now on.
Repoint(p, i) == [x \in DOMAIN proxy |-> IF x \in ProxiesOf(p) THEN i ELSE proxy[x]]

\* requeue_proxy_claims.
RequeueClaims(p, b) ==
    out' = [m \in Outbound |->
        IF out[m].state = "claimed" /\ out[m].owner = b /\ out[m].to \in ProxiesOf(p)
        THEN [out[m] EXCEPT !.state = "queued", !.owner = None] ELSE out[m]]

HeldByOther(p, b) == peer[p].owner \notin {None, b}

\* acquire_peer_lease succeeds for bridge b.
TakeLease(b, p) ==
    /\ Known(p) /\ ~(HeldByOther(p, b) /\ peer[p].live)
    /\ peer' = [peer EXCEPT ![p].owner = b, ![p].live = TRUE]
    /\ proxy' = Repoint(p, b)
    /\ IF HeldByOther(p, b) THEN RequeueClaims(p, peer[p].owner) ELSE UNCHANGED out

\* run takes the lease, stands aside, or finds the peer forgotten meanwhile.
Acquire(b) ==
    /\ sess[b].pc = "lease"
    /\ LET p == sess[b].peer
       IN  \/ TakeLease(b, p) /\ sess' = [sess EXCEPT ![b].pc = "pump"]
           \/ /\ ~Known(p) \/ (HeldByOther(p, b) /\ peer[p].live)
              /\ Ends(b) /\ UNCHANGED <<peer, proxy, out>>
    /\ UNCHANGED <<inbox, draft, given>>

Renew(b) ==
    /\ sess[b].pc = "pump" /\ ~peer[sess[b].peer].live
    /\ TakeLease(b, sess[b].peer)
    /\ UNCHANGED <<inbox, sess, draft, given>>

LeaseLapses(p) ==
    /\ peer[p].live
    /\ peer' = [peer EXCEPT ![p].live = FALSE]
    /\ UNCHANGED <<proxy, out, inbox, sess, draft, given>>

\* A bug this definition could have: the proxies keep pointing at the bridge.
Release_proxies_stay(b) ==
    /\ sess[b].pc = "pump"
    /\ IF peer[sess[b].peer].owner = b
       THEN /\ peer' = [peer EXCEPT ![sess[b].peer].owner = None,
                                    ![sess[b].peer].live = FALSE]
            /\ RequeueClaims(sess[b].peer, b) /\ UNCHANGED proxy
       ELSE UNCHANGED <<peer, proxy, out>>
    /\ Ends(b)
    /\ UNCHANGED <<inbox, draft, given>>

\* run ends: release_peer_lease changes nothing unless b is the owner.
Release(b) ==
    /\ sess[b].pc = "pump"
    /\ IF peer[sess[b].peer].owner = b
       THEN /\ peer' = [peer EXCEPT ![sess[b].peer].owner = None,
                                    ![sess[b].peer].live = FALSE]
            /\ RequeueClaims(sess[b].peer, b)
            /\ proxy' = Repoint(sess[b].peer, None)
       ELSE UNCHANGED <<peer, proxy, out>>
    /\ Ends(b)
    /\ UNCHANGED <<inbox, draft, given>>

\* The bridge's process dies.
Die(b) ==
    /\ sess[b].pc \in {"lease", "pump", "claim", "insert"}
    /\ Ends(b)
    /\ UNCHANGED <<peer, proxy, out, inbox, draft, given>>

-----------------------------------------------------------------------------
(***************************************************************************)
(* Proxies and the mail that goes through them                              *)
(***************************************************************************)

\* ensure_proxy(p, r), which returns the proxy: created on first use, bound to
\* the bridge that holds a live lease, or to nobody.
EnsureProxy(p, r) ==
    /\ Known(p)
    /\ \/ <<p, r>> \in DOMAIN proxy /\ UNCHANGED proxy
       \/ /\ <<p, r>> \notin DOMAIN proxy
          /\ Cardinality(DOMAIN proxy) < MaxProxies
          /\ proxy' = [x \in DOMAIN proxy \cup {<<p, r>>} |->
                         IF x = <<p, r>> THEN IF peer[p].live THEN peer[p].owner ELSE None
                         ELSE proxy[x]]

\* A sender names agent r of the peer labelled l.
Address(s, l, r) ==
    /\ draft[s] = None
    /\ \E p \in ByLabel(l) : EnsureProxy(p, r) /\ draft' = [draft EXCEPT ![s] = <<p, r>>]
    /\ UNCHANGED <<peer, out, inbox, sess, given>>

\* A bug this definition could have: the proxy's peer is not looked at.
SendOut_any_peer(s, m) ==
    /\ draft[s] # None /\ out[m].state = "absent"
    /\ draft' = [draft EXCEPT ![s] = None]
    /\ out' = [out EXCEPT ![m].state = "queued", ![m].to = draft[s]]
    /\ UNCHANGED <<peer, proxy, inbox, sess, given>>

\* send to the proxy the sender resolved: a peer forgotten since is refused.
SendOut(s, m) ==
    /\ draft[s] # None /\ out[m].state = "absent"
    /\ draft' = [draft EXCEPT ![s] = None]
    /\ out' = IF peer[draft[s][1]].retired THEN out
              ELSE [out EXCEPT ![m].state = "queued", ![m].to = draft[s]]
    /\ UNCHANGED <<peer, proxy, inbox, sess, given>>

\* proxy_caller and require_live_lease, before the transaction they guard.
HoldsLease(b) == LET p == sess[b].peer
                 IN  Known(p) /\ peer[p].owner = b /\ peer[p].live

ClaimCheck(b) ==
    /\ sess[b].pc = "pump" /\ HoldsLease(b)
    /\ sess' = [sess EXCEPT ![b].pc = "claim"]
    /\ UNCHANGED <<peer, proxy, out, inbox, draft, given>>

\* A handler finds the lease lost or the peer forgotten, and run ends.
CheckFails(b) ==
    /\ sess[b].pc = "pump" /\ ~HoldsLease(b)
    /\ Release(b)

\* claim_outbound through one of the peer's proxies; the peer accepts later.
ClaimOut(b, m) ==
    /\ sess[b].pc = "claim"
    /\ out[m].state = "queued" /\ out[m].to \in ProxiesOf(sess[b].peer)
    /\ out' = [out EXCEPT ![m].state = "claimed", ![m].owner = b]
    /\ sess' = [sess EXCEPT ![b].pc = "pump"]
    /\ UNCHANGED <<peer, proxy, inbox, draft, given>>

ClaimNothing(b) ==
    /\ sess[b].pc = "claim"
    /\ ~\E m \in Outbound : out[m].state = "queued" /\ out[m].to \in ProxiesOf(sess[b].peer)
    /\ sess' = [sess EXCEPT ![b].pc = "pump"]
    /\ UNCHANGED <<peer, proxy, out, inbox, draft, given>>

\* settle_outbound: a receipt for a claim b still holds.
Settle(b, m, state) ==
    /\ sess[b].pc = "pump" /\ HoldsLease(b)
    /\ out[m].state = "claimed" /\ out[m].owner = b
    /\ state \in {"delivered", "consumed", "undeliverable"}
    /\ out' = [out EXCEPT ![m].state = state, ![m].owner = None]
    /\ UNCHANGED <<peer, proxy, inbox, sess, draft, given>>

\* ingest, first half: with the lease held, the proxy of the sending agent is
\* ensured.
IngestProxy(b, r) ==
    /\ sess[b].pc = "pump" /\ HoldsLease(b)
    /\ EnsureProxy(sess[b].peer, r)
    /\ sess' = [sess EXCEPT ![b].pc = "insert", ![b].hand = r]
    /\ UNCHANGED <<peer, out, inbox, draft, given>>

\* ingest, second half: the message is inserted on the proxy's behalf.
IngestInsert(b, m) ==
    /\ sess[b].pc = "insert"
    /\ sess' = [sess EXCEPT ![b].pc = "pump", ![b].hand = None]
    /\ inbox[m].state = "absent"
    /\ inbox' = [inbox EXCEPT ![m].state = "queued",
                              ![m].from = <<sess[b].peer, sess[b].hand>>]
    /\ UNCHANGED <<peer, proxy, out, draft, given>>

\* The local recipient claims a message, and may let the claim lapse.
Receive(m) ==
    /\ inbox[m].state \in {"queued", "claimed"}
    /\ inbox' = [inbox EXCEPT
            ![m].state = IF @ = "queued" THEN "claimed" ELSE "queued"]
    /\ UNCHANGED <<peer, proxy, out, sess, draft, given>>

-----------------------------------------------------------------------------
(***************************************************************************)
(* retire_peer                                                              *)
(***************************************************************************)

\* One transaction: unclaimed mail from the peer and all pending mail to it
\* become undeliverable, its proxies lose their binding, its label is freed.
Retire(l) ==
    \E p \in ByLabel(l) :
        /\ peer' = [peer EXCEPT ![p] = [NoPeer EXCEPT !.host = peer[p].host,
                                                      !.retired = TRUE]]
        /\ proxy' = Repoint(p, None)
        /\ out' = [m \in Outbound |->
                IF out[m].to \in ProxiesOf(p) /\ out[m].state \in Pending
                THEN [out[m] EXCEPT !.state = "undeliverable", !.owner = None]
                ELSE out[m]]
        /\ inbox' = [m \in Inbound |->
                IF inbox[m].from \in ProxiesOf(p) /\ inbox[m].state = "queued"
                THEN [inbox[m] EXCEPT !.state = "undeliverable"] ELSE inbox[m]]
        /\ given' = given \ {peer[p].host}
        /\ UNCHANGED <<sess, draft>>

Next ==
    \/ \E b \in Bridge, h \in HostId : Hello(b, h)
    \/ \E b \in Bridge, l \in Label : IdentifyDial(b, l)
    \/ \E b \in Bridge : ServeKnown(b)
    \/ \E b \in Bridge, l \in Label : ServePin(b, l)
    \/ \E b \in Bridge : ServeShort(b)
    \/ \E l \in Label \cup ShortLabel, yes \in BOOLEAN : Trust(l, yes)
    \/ \E b \in Bridge : Acquire(b)
    \/ \E b \in Bridge : Renew(b)
    \/ \E p \in PeerId : LeaseLapses(p)
    \/ \E b \in Bridge : Release(b)
    \/ \E b \in Bridge : Die(b)
    \/ \E s \in Sender, l \in Label \cup ShortLabel, r \in Remote : Address(s, l, r)
    \/ \E s \in Sender, m \in Outbound : SendOut(s, m)
    \/ \E b \in Bridge : ClaimCheck(b)
    \/ \E b \in Bridge : CheckFails(b)
    \/ \E b \in Bridge, m \in Outbound : ClaimOut(b, m)
    \/ \E b \in Bridge : ClaimNothing(b)
    \/ \E b \in Bridge, m \in Outbound, state \in {"delivered", "consumed", "undeliverable"} :
            Settle(b, m, state)
    \/ \E b \in Bridge, r \in Remote : IngestProxy(b, r)
    \/ \E b \in Bridge, m \in Inbound : IngestInsert(b, m)
    \/ \E m \in Inbound : Receive(m)
    \/ \E l \in Label \cup ShortLabel : Retire(l)

Spec == Init /\ [][Next]_vars

-----------------------------------------------------------------------------
(***************************************************************************)
(* Properties                                                               *)
(***************************************************************************)

\* pin_peer: "a reinstalled or substituted host never inherits the old one's
\* trust or queued mail": mail is only ever in the hands of a bridge to the
\* host it was addressed to, and only hosts the operator trusted are trusted.
NothingIsInherited ==
    /\ \A m \in Outbound : out[m].state = "claimed"
            => sess[out[m].owner].host = peer[out[m].to[1]].host
    /\ \A p \in PeerId : peer[p].trusted => peer[p].host \in given

\* Forgetting a peer is final: nothing of it is leased, trusted, bound or
\* waiting in an outbox, whatever bridges and senders were in the middle of.
RetiredHoldsNothing ==
    \A p \in PeerId : peer[p].retired =>
        /\ peer[p].owner = None /\ ~peer[p].live /\ ~peer[p].trusted
        /\ \A x \in ProxiesOf(p) : proxy[x] = None
        /\ \A m \in Outbound : out[m].state \in Pending => out[m].to[1] # p

\* What stops a superseded bridge from claiming: a proxy is never bound to a
\* bridge other than the recorded owner of its peer's lease.
ProxiesFollowTheLease ==
    \A x \in DOMAIN proxy : proxy[x] \in {None, peer[x[1]].owner}

(***************************************************************************)
(* A statement that the code does not keep                                  *)
(***************************************************************************)

\* retire_peer: inbound mail that no agent has claimed is withdrawn, because
\* "it could only sit invisible and hold capacity".
RetiredMailIsWithdrawn ==
    \A m \in Inbound : inbox[m].state = "queued" => ~peer[inbox[m].from[1]].retired
=============================================================================
