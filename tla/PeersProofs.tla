---------------------------- MODULE PeersProofs ----------------------------
(***************************************************************************)
(* Proofs about pins, leases and proxies: what a peer was trusted with and   *)
(* what waits for it stays with the host that answered when it was pinned.   *)
(***************************************************************************)
EXTENDS Peers, FiniteSetTheorems, TLAPS

\* A row without a host was never used, and no two peers that are known are
\* the same host.
Pinned ==
    /\ \A p \in PeerId : peer[p].host = None => peer[p] = NoPeer
    /\ \A p, q \in PeerId : Known(p) /\ Known(q) /\ peer[p].host = peer[q].host => p = q

\* A bridge past its hello knows its host, and past identify it has a peer row
\* pinned to that host, which stays so after the bridge has ended.
KnowsItsPeer(s) ==
    /\ s.pc \in {"hello", "serve", "short", "lease", "pump", "claim", "insert"}
            => s.host \in HostId
    /\ s.pc = "short" => s.hand \in Label
    /\ s.pc = "insert" => s.hand \in Remote
    /\ s.pc \in {"lease", "pump", "claim", "insert"}
            => s.peer \in PeerId /\ peer[s.peer].host = s.host

Identity == \A b \in Bridge : KnowsItsPeer(sess[b])

\* Mail is addressed to proxies that exist, and drafts name such.
Addressed ==
    /\ \A m \in Outbound : out[m].state # "absent" => out[m].to \in DOMAIN proxy
    /\ \A s \in Sender : draft[s] # None => draft[s] \in DOMAIN proxy

\* A claim is of a bridge that got as far as the lease, to the pinned host.
Late == {"pump", "claim", "insert", "ended"}

Claims ==
    \A m \in Outbound : out[m].state = "claimed" =>
        /\ out[m].owner \in Bridge
        /\ sess[out[m].owner].pc \in Late /\ sess[out[m].owner].host \in HostId
        /\ sess[out[m].owner].host = peer[out[m].to[1]].host

Trusted == \A p \in PeerId : peer[p].trusted => Known(p) /\ peer[p].host \in given

Sound ==
    /\ TypeOK /\ Pinned /\ Identity /\ Addressed /\ Claims /\ Trusted
    /\ RetiredHoldsNothing /\ ProxiesFollowTheLease

-----------------------------------------------------------------------------
(***************************************************************************)
(* What the operations write                                                *)
(***************************************************************************)

PinRow(l, h) == [NoPeer EXCEPT !.label = l, !.host = h]
LeaseRow(row, b, yes) == [row EXCEPT !.owner = b, !.live = yes]
RetiredRow(h) == [NoPeer EXCEPT !.host = h, !.retired = TRUE]

LEMMA LeaseRowFields ==
    ASSUME NEW row \in PeerRow, NEW b \in Bridge \cup {None}, NEW yes \in BOOLEAN
    PROVE  LET new == LeaseRow(row, b, yes)
           IN  /\ new \in PeerRow /\ new.owner = b /\ new.live = yes
               /\ new.label = row.label /\ new.host = row.host
               /\ new.retired = row.retired /\ new.trusted = row.trusted
  BY DEF LeaseRow, PeerRow

LEMMA RowFields ==
    /\ \A l \in Label \cup ShortLabel, h \in HostId :
        /\ PinRow(l, h) \in PeerRow /\ PinRow(l, h).label = l /\ PinRow(l, h).host = h
        /\ ~PinRow(l, h).retired /\ ~PinRow(l, h).trusted
        /\ PinRow(l, h).owner = None /\ ~PinRow(l, h).live
    /\ \A h \in HostId :
        LET new == RetiredRow(h)
        IN  /\ new \in PeerRow /\ new.label = None /\ new.host = h /\ new.retired
            /\ ~new.trusted /\ new.owner = None /\ ~new.live
  <1>1. ASSUME NEW l \in Label \cup ShortLabel, NEW h \in HostId
        PROVE  /\ PinRow(l, h) \in PeerRow /\ PinRow(l, h).label = l /\ PinRow(l, h).host = h
               /\ ~PinRow(l, h).retired /\ ~PinRow(l, h).trusted
               /\ PinRow(l, h).owner = None /\ ~PinRow(l, h).live
    BY DEF PinRow, NoPeer, PeerRow
  <1>3. ASSUME NEW h \in HostId
        PROVE  LET new == RetiredRow(h)
               IN  /\ new \in PeerRow /\ new.label = None /\ new.host = h /\ new.retired
                   /\ ~new.trusted /\ new.owner = None /\ ~new.live
    BY DEF RetiredRow, NoPeer, PeerRow
  <1> QED
    BY <1>1, <1>3

\* pin_peer returns a row pinned to the host that answered, and writes at most
\* that row, when neither the label nor the host was taken.
LEMMA PinsRow ==
    ASSUME TypeOK, Pinned, NEW l \in Label \cup ShortLabel, NEW h \in HostId,
           NEW p \in PeerId, Pins(l, h, p)
    PROVE  /\ peer' \in [PeerId -> PeerRow] /\ peer'[p].host = h
           /\ \A q \in PeerId : q # p => peer'[q] = peer[q]
           /\ \/ peer'[p] = peer[p]
              \/ /\ peer[p].host = None /\ ByHost(h) = {}
                 /\ peer'[p] = PinRow(l, h)
  <1>t. peer \in [PeerId -> PeerRow] /\ h # None /\ l # None
    BY PeersAssumption DEF TypeOK
  <1>1. CASE peer[p].host = h /\ UNCHANGED peer
    BY <1>1, <1>t
  <1>2. CASE /\ ByHost(h) = {} /\ p \in Fresh
             /\ peer' = [peer EXCEPT ![p].label = l, ![p].host = h]
    <2>1. peer[p] = NoPeer
      BY <1>2 DEF Fresh, Pinned
    <2>2. peer' = [peer EXCEPT ![p] = PinRow(l, h)]
      BY <1>2, <1>t, <2>1 DEF PinRow
    <2>3. PinRow(l, h) \in PeerRow /\ PinRow(l, h).host = h
      BY RowFields
    <2> QED
      BY <1>2, <1>t, <2>2, <2>3 DEF Fresh
  <1> QED
    BY <1>1, <1>2 DEF Pins

\* Mail put back on the outbox keeps its address.
Requeued ==
    /\ out' \in [Outbound -> OutRow]
    /\ \A m \in Outbound :
        \/ out'[m] = out[m]
        \/ /\ out[m].state = "claimed" /\ out'[m].state = "queued"
           /\ out'[m].to = out[m].to

LEMMA RequeueRows ==
    ASSUME TypeOK, NEW p, NEW b, RequeueClaims(p, b)
    PROVE  Requeued
  BY DEF RequeueClaims, TypeOK, OutRow, OutState, Pending, Requeued

Repointed(p, i) ==
    /\ DOMAIN proxy' = DOMAIN proxy
    /\ \A x \in DOMAIN proxy : proxy'[x] = IF x[1] = p THEN i ELSE proxy[x]

\* A lease changes neither the pin nor the trust.
SamePins ==
    \A q \in PeerId :
        /\ peer'[q].label = peer[q].label /\ peer'[q].host = peer[q].host
        /\ peer'[q].retired = peer[q].retired /\ peer'[q].trusted = peer[q].trusted

LEMMA TakeLeaseRows ==
    ASSUME TypeOK, NEW b \in Bridge, NEW p \in PeerId, TakeLease(b, p)
    PROVE  /\ Known(p) /\ peer' \in [PeerId -> PeerRow]
           /\ \A q \in PeerId : peer'[q] =
                IF q = p THEN LeaseRow(peer[p], b, TRUE) ELSE peer[q]
           /\ SamePins /\ Repointed(p, b) /\ Requeued
  <1>t. peer \in [PeerId -> PeerRow] /\ out \in [Outbound -> OutRow]
    BY DEF TypeOK
  <1>1. peer' = [peer EXCEPT ![p] = LeaseRow(peer[p], b, TRUE)]
    BY <1>t DEF TakeLease, LeaseRow
  <1>2. LET new == LeaseRow(peer[p], b, TRUE)
        IN  /\ new \in PeerRow /\ new.label = peer[p].label /\ new.host = peer[p].host
            /\ new.retired = peer[p].retired /\ new.trusted = peer[p].trusted
    <2>1. peer[p] \in PeerRow /\ b \in Bridge \cup {None} /\ TRUE \in BOOLEAN
      BY <1>t
    <2> QED
      BY <2>1, LeaseRowFields
  <1>3. Repointed(p, b)
    BY DEF TakeLease, Repoint, ProxiesOf, Repointed
  <1>4. Requeued
    BY <1>t, RequeueRows DEF TakeLease, Requeued
  <1>5. \A q \in PeerId : peer'[q] =
            IF q = p THEN LeaseRow(peer[p], b, TRUE) ELSE peer[q]
    BY <1>1, <1>t
  <1>6. SamePins
    BY <1>2, <1>5 DEF SamePins
  <1> QED
    BY <1>1, <1>2, <1>3, <1>4, <1>5, <1>6, <1>t DEF TakeLease

LEMMA ReleaseRows ==
    ASSUME TypeOK, NEW b \in Bridge, sess[b].peer \in PeerId, Release(b)
    PROVE  LET p == sess[b].peer
           IN  \/ UNCHANGED <<peer, proxy, out>>
               \/ /\ peer' \in [PeerId -> PeerRow]
                  /\ \A q \in PeerId : peer'[q] =
                        IF q = p THEN LeaseRow(peer[p], None, FALSE) ELSE peer[q]
                  /\ SamePins /\ Repointed(p, None) /\ Requeued
  <1> DEFINE p == sess[b].peer
  <1>t. peer \in [PeerId -> PeerRow] /\ out \in [Outbound -> OutRow]
    BY DEF TypeOK
  <1>1. CASE peer[p].owner = b
    <2>1. peer' = [peer EXCEPT ![p] = LeaseRow(peer[p], None, FALSE)]
      BY <1>1, <1>t DEF Release, LeaseRow
    <2>2. LET new == LeaseRow(peer[p], None, FALSE)
          IN  /\ new \in PeerRow /\ new.label = peer[p].label /\ new.host = peer[p].host
              /\ new.retired = peer[p].retired /\ new.trusted = peer[p].trusted
      <3>1. peer[p] \in PeerRow
        BY <1>t
      <3> QED
        BY <3>1 DEF LeaseRow, PeerRow
    <2>3. Repointed(p, None)
      BY <1>1 DEF Release, Repoint, ProxiesOf, Repointed
    <2>4. Requeued
      BY <1>1, RequeueRows DEF Release
    <2>5. \A q \in PeerId : peer'[q] =
            IF q = p THEN LeaseRow(peer[p], None, FALSE) ELSE peer[q]
      BY <1>t, <2>1
    <2>6. SamePins
      BY <2>2, <2>5 DEF SamePins
    <2> QED
      BY <1>t, <2>1, <2>2, <2>3, <2>4, <2>5, <2>6
  <1>2. CASE peer[p].owner # b
    BY <1>2 DEF Release
  <1> QED
    BY <1>1, <1>2

LEMMA EnsureProxyRows ==
    ASSUME TypeOK, NEW p \in PeerId, NEW r \in Remote, EnsureProxy(p, r)
    PROVE  /\ Known(p) /\ DOMAIN proxy \subseteq DOMAIN proxy'
           /\ DOMAIN proxy' = DOMAIN proxy \cup {<<p, r>>}
           /\ Cardinality(DOMAIN proxy') =< MaxProxies
           /\ \A x \in DOMAIN proxy : proxy'[x] = proxy[x]
           /\ <<p, r>> \notin DOMAIN proxy => proxy'[<<p, r>>] \in {None, peer[p].owner}
  <1>1. CASE <<p, r>> \in DOMAIN proxy /\ UNCHANGED proxy
    BY <1>1 DEF EnsureProxy, TypeOK
  <1>2. CASE /\ <<p, r>> \notin DOMAIN proxy /\ Cardinality(DOMAIN proxy) < MaxProxies
             /\ proxy' = [x \in DOMAIN proxy \cup {<<p, r>>} |->
                            IF x = <<p, r>> THEN IF peer[p].live THEN peer[p].owner ELSE None
                            ELSE proxy[x]]
    <2>1. IsFiniteSet(DOMAIN proxy)
      <3>1. IsFiniteSet(PeerId \X Remote)
        BY PeersAssumption, FS_Product
      <3> QED
        BY <3>1, FS_Subset DEF TypeOK, Proxy
    <2>2. Cardinality(DOMAIN proxy \cup {<<p, r>>}) = Cardinality(DOMAIN proxy) + 1
      BY <1>2, <2>1, FS_AddElement
    <2>3. Cardinality(DOMAIN proxy) \in Nat /\ MaxProxies \in Nat
      BY <2>1, FS_CardinalityType, PeersAssumption
    <2>4. Cardinality(DOMAIN proxy') =< MaxProxies
      BY <1>2, <2>2, <2>3
    <2> QED
      BY <1>2, <2>4 DEF EnsureProxy
  <1> QED
    BY <1>1, <1>2 DEF EnsureProxy

LEMMA RetireRows ==
    ASSUME TypeOK, NEW l, Retire(l)
    PROVE  \E p \in ByLabel(l) :
            /\ peer' \in [PeerId -> PeerRow]
            /\ \A q \in PeerId : peer'[q] =
                IF q = p THEN RetiredRow(peer[p].host) ELSE peer[q]
            /\ Repointed(p, None)
            /\ out' \in [Outbound -> OutRow] /\ inbox' \in [Inbound -> InRow]
            /\ \A m \in Outbound :
                \/ /\ out'[m].state = "undeliverable" /\ out'[m].to = out[m].to
                   /\ out[m].state \in Pending
                \/ /\ out'[m] = out[m]
                   /\ ~(out[m].to \in ProxiesOf(p) /\ out[m].state \in Pending)
            /\ given' = given \ {peer[p].host}
            /\ UNCHANGED <<sess, draft>>
  <1>1. PICK p \in ByLabel(l) :
        /\ peer' = [peer EXCEPT ![p] = [NoPeer EXCEPT !.host = peer[p].host,
                                                      !.retired = TRUE]]
        /\ proxy' = Repoint(p, None)
        /\ out' = [m \in Outbound |->
                IF out[m].to \in ProxiesOf(p) /\ out[m].state \in Pending
                THEN [out[m] EXCEPT !.state = "undeliverable", !.owner = None]
                ELSE out[m]]
        /\ inbox' = [m \in Inbound |->
                IF inbox[m].from \in ProxiesOf(p) /\ inbox[m].state = "queued"
                THEN [inbox[m] EXCEPT !.state = "undeliverable"] ELSE inbox[m]]
        /\ given' = given \ {peer[p].host}
        /\ UNCHANGED <<sess, draft>>
    BY DEF Retire
  <1>2. p \in PeerId
    BY DEF ByLabel
  <1>3. RetiredRow(peer[p].host) \in PeerRow
    <2>1. peer[p].host \in HostId
      BY <1>2 DEF ByLabel, Known, TypeOK, PeerRow
    <2> QED
      BY <2>1, RowFields
  <1>4. /\ peer' \in [PeerId -> PeerRow]
        /\ \A q \in PeerId : peer'[q] =
                IF q = p THEN RetiredRow(peer[p].host) ELSE peer[q]
    BY <1>1, <1>2, <1>3 DEF TypeOK, RetiredRow
  <1>5. Repointed(p, None)
    BY <1>1 DEF Repoint, ProxiesOf, Repointed
  <1>6. /\ out' \in [Outbound -> OutRow]
        /\ \A m \in Outbound :
                \/ /\ out'[m].state = "undeliverable" /\ out'[m].to = out[m].to
                   /\ out[m].state \in Pending
                \/ /\ out'[m] = out[m]
                   /\ ~(out[m].to \in ProxiesOf(p) /\ out[m].state \in Pending)
    BY <1>1 DEF TypeOK, OutRow, OutState, Pending
  <1>7. inbox' \in [Inbound -> InRow]
    BY <1>1 DEF TypeOK, InRow, InState
  <1> QED
    BY <1>1, <1>4, <1>5, <1>6, <1>7

\* The label under which a serving bridge pins after a mismatch.
LEMMA ShortLabels ==
    ASSUME NEW l \in Label, NEW h \in HostId
    PROVE  <<l, h>> \in ShortLabel
  BY DEF ShortLabel

LEMMA TypeStep ==
    ASSUME TypeOK, Pinned, Identity, Addressed, [Next]_vars
    PROVE  TypeOK'
  <1> DEFINE Labelled == \A p \in PeerId : Known(p)' <=> peer'[p].label # None
             Proxies == /\ DOMAIN proxy' \subseteq Proxy /\ Cardinality(DOMAIN proxy') =< MaxProxies
                        /\ \A x \in DOMAIN proxy' : proxy'[x] \in Bridge \cup {None}
             NewPeer == peer' \in [PeerId -> PeerRow] /\ Labelled
             NewOut == out' \in [Outbound -> OutRow]
             NewIn == inbox' \in [Inbound -> InRow]
             NewSess == sess' \in [Bridge -> SessionState]
             NewDraft == draft' \in [Sender -> Proxy \cup {None}]
             NewGiven == given' \subseteq HostId
             NewType == NewPeer /\ Proxies /\ NewOut /\ NewIn /\ NewSess /\ NewDraft /\ NewGiven
  <1>0. SUFFICES NewType
    BY DEF TypeOK
  <1>t. /\ peer \in [PeerId -> PeerRow] /\ out \in [Outbound -> OutRow]
        /\ inbox \in [Inbound -> InRow] /\ sess \in [Bridge -> SessionState]
        /\ draft \in [Sender -> Proxy \cup {None}] /\ given \subseteq HostId
    BY DEF TypeOK
  <1>p. UNCHANGED peer => NewPeer
    BY DEF TypeOK, Known
  <1>x. UNCHANGED proxy => Proxies
    BY DEF TypeOK
  <1>y. ASSUME NEW p \in PeerId, NEW i \in Bridge \cup {None}, Repointed(p, i) PROVE Proxies
    BY <1>y DEF TypeOK, Repointed
  <1>l. ASSUME NEW l \in Label \cup ShortLabel, NEW h \in HostId, NEW p \in PeerId, Pins(l, h, p)
        PROVE  NewPeer
    <2>1. l # None /\ h # None
      BY PeersAssumption
    <2>2. /\ peer' \in [PeerId -> PeerRow] /\ \A q \in PeerId : q # p => peer'[q] = peer[q]
          /\ peer'[p] = peer[p] \/ peer'[p] = PinRow(l, h)
      BY <1>l, PinsRow
    <2>3. PinRow(l, h).label = l /\ PinRow(l, h).host = h /\ ~PinRow(l, h).retired
      BY RowFields
    <2> QED
      BY <2>1, <2>2, <2>3 DEF TypeOK, Known
  <1>s. ASSUME NEW b \in Bridge, NEW q \in Pc, sess' = [sess EXCEPT ![b].pc = q] PROVE NewSess
    <2> DEFINE s == [sess[b] EXCEPT !.pc = q]
    <2>1. sess[b] \in SessionState
      BY <1>t
    <2>2. s \in SessionState
      BY <2>1 DEF SessionState, Pc
    <2>3. sess' = [sess EXCEPT ![b] = s]
      BY <1>s
    <2> HIDE DEF s
    <2> QED
      BY <1>t, <2>2, <2>3
  <1>c. "short" \in Pc /\ "lease" \in Pc /\ "ended" \in Pc
    BY DEF Pc
  <1>i. ASSUME NEW b \in Bridge, NEW p \in PeerId, Identified(b, p) PROVE NewSess
    <2> DEFINE s == [sess[b] EXCEPT !.pc = "lease", !.peer = p]
    <2>1. sess[b] \in SessionState
      BY <1>t
    <2>2. s \in SessionState
      BY <2>1 DEF SessionState, Pc
    <2>3. sess' = [sess EXCEPT ![b] = s]
      BY <1>i DEF Identified
    <2> HIDE DEF s
    <2> QED
      BY <1>t, <2>2, <2>3
  <1>e. ASSUME NEW b \in Bridge, Ends(b) PROVE NewSess
    BY <1>e, <1>s DEF Ends, Pc
  <1>1. ASSUME NEW b \in Bridge, NEW h \in HostId, Hello(b, h) PROVE NewType
    <2>1. NewSess
      <3> DEFINE s == [sess[b] EXCEPT !.pc = "hello", !.host = h]
      <3>1. sess[b] \in SessionState
        BY <1>t
      <3>2. s \in SessionState
        BY <3>1 DEF SessionState, Pc
      <3>3. sess' = [sess EXCEPT ![b] = s]
        BY <1>1 DEF Hello
      <3> HIDE DEF s
      <3> QED
        BY <1>t, <3>2, <3>3
    <2> QED
      BY <1>1, <1>p, <1>x, <1>t, <2>1 DEF Hello
  <1>2. ASSUME NEW b \in Bridge, NEW l \in Label, IdentifyDial(b, l) PROVE NewType
    <2>1. sess[b].host \in HostId
      BY <1>2 DEF IdentifyDial, Identity, KnowsItsPeer
    <2> QED
      BY <1>2, <1>p, <1>x, <1>t, <1>l, <1>i, <1>e, <2>1 DEF IdentifyDial
  <1>3. ASSUME NEW b \in Bridge, ServeKnown(b) PROVE NewType
    BY <1>3, <1>p, <1>x, <1>t, <1>i, <1>s DEF ServeKnown, ByHost, Pc
  <1>4. ASSUME NEW b \in Bridge, NEW l \in Label, ServePin(b, l) PROVE NewType
    <2>1. sess[b].host \in HostId
      BY <1>4 DEF ServePin, Identity, KnowsItsPeer
    <2>2. sess' = [sess EXCEPT ![b].pc = "short", ![b].hand = l] => NewSess
      <3>1. [sess[b] EXCEPT !.pc = "short", !.hand = l] \in SessionState
        BY <1>c, <1>t DEF SessionState
      <3>2. [sess EXCEPT ![b].pc = "short", ![b].hand = l]
                = [sess EXCEPT ![b] = [sess[b] EXCEPT !.pc = "short", !.hand = l]]
        BY <1>t
      <3> QED
        BY <1>t, <3>1, <3>2
    <2> QED
      BY <1>4, <1>p, <1>x, <1>t, <1>l, <1>i, <2>1, <2>2 DEF ServePin
  <1>5. ASSUME NEW b \in Bridge, ServeShort(b) PROVE NewType
    <2> DEFINE l == <<sess[b].hand, sess[b].host>>
    <2>1. sess[b].host \in HostId /\ l \in ShortLabel
      BY <1>5, ShortLabels DEF ServeShort, Identity, KnowsItsPeer
    <2>2. CASE \E p \in PeerId : Pins(l, sess[b].host, p)
                /\ sess' = [sess EXCEPT ![b].pc = "lease", ![b].peer = p, ![b].hand = None]
      <3>1. NewSess
        <4>1. PICK p \in PeerId :
                sess' = [sess EXCEPT ![b].pc = "lease", ![b].peer = p, ![b].hand = None]
          BY <2>2
        <4>2. [sess[b] EXCEPT !.pc = "lease", !.peer = p, !.hand = None] \in SessionState
          BY <1>c, <1>t DEF SessionState
        <4>3. sess' = [sess EXCEPT ![b] =
                         [sess[b] EXCEPT !.pc = "lease", !.peer = p, !.hand = None]]
          BY <1>t, <4>1
        <4> QED
          BY <1>t, <4>2, <4>3
      <3>2. NewPeer
        BY <1>l, <2>1, <2>2
      <3> QED
        BY <1>5, <1>x, <1>t, <3>1, <3>2 DEF ServeShort
    <2>3. CASE UNCHANGED peer /\ sess' = [sess EXCEPT ![b].pc = "ended", ![b].hand = None]
      <3>1. NewSess
        <4> DEFINE s == [sess[b] EXCEPT !.pc = "ended", !.hand = None]
        <4>1. sess[b] \in SessionState
          BY <1>t
        <4>2. s \in SessionState
          BY <4>1 DEF SessionState, Pc
        <4>3. sess' = [sess EXCEPT ![b] = s]
          BY <2>3
        <4> HIDE DEF s
        <4> QED
          BY <1>t, <4>2, <4>3
      <3> QED
        BY <1>5, <1>p, <1>x, <1>t, <2>3, <3>1 DEF ServeShort
    <2> QED
      BY <1>5, <2>2, <2>3 DEF ServeShort
  <1>6. ASSUME NEW l, NEW yes \in BOOLEAN, Trust(l, yes) PROVE NewType
    <2>1. NewPeer
      BY <1>6, <1>t DEF Trust, PeerRow, TypeOK, Known
    <2>2. \A p \in ByLabel(l) : peer[p].host \in HostId
      BY <1>t DEF ByLabel, Known, PeerRow
    <2>3. NewGiven
      BY <1>6, <1>t, <2>2 DEF Trust
    <2> QED
      BY <1>6, <1>x, <1>t, <2>1, <2>3 DEF Trust
  <1>7. ASSUME NEW b \in Bridge, NEW p \in PeerId, TakeLease(b, p)
        PROVE  NewPeer /\ Proxies /\ NewOut
    <2>1. NewPeer
      BY <1>7, TakeLeaseRows DEF TypeOK, Known, SamePins
    <2> QED
      BY <1>7, <1>y, <2>1, TakeLeaseRows DEF Requeued
  <1>8. ASSUME NEW b \in Bridge, Acquire(b) PROVE NewType
    <2>1. sess[b].peer \in PeerId
      BY <1>8 DEF Acquire, Identity, KnowsItsPeer
    <2> QED
      BY <1>8, <1>p, <1>x, <1>t, <1>7, <1>s, <1>e, <2>1 DEF Acquire, Pc
  <1>9. ASSUME NEW b \in Bridge, Renew(b) PROVE NewType
    <2>1. sess[b].peer \in PeerId
      BY <1>9 DEF Renew, Identity, KnowsItsPeer
    <2> QED
      BY <1>9, <1>t, <1>7, <2>1 DEF Renew
  <1>10. ASSUME NEW p \in PeerId, LeaseLapses(p) PROVE NewType
    <2>1. NewPeer
      <3> DEFINE row == [peer[p] EXCEPT !.live = FALSE]
      <3>1. peer[p] \in PeerRow
        BY <1>t
      <3>2. row \in PeerRow /\ row.label = peer[p].label /\ row.host = peer[p].host
        BY <3>1 DEF PeerRow
      <3>3. peer' = [peer EXCEPT ![p] = row]
        BY <1>10 DEF LeaseLapses
      <3> HIDE DEF row
      <3>4. peer'[p] = row /\ \A q \in PeerId : q # p => peer'[q] = peer[q]
        BY <1>t, <3>3
      <3> QED
        <4>1. peer' \in [PeerId -> PeerRow]
          BY <1>t, <3>2, <3>3
        <4>2. \A q \in PeerId : peer'[q].label = peer[q].label /\ peer'[q].host = peer[q].host
          BY <3>2, <3>4
        <4>3. \A q \in PeerId : Known(q) <=> peer[q].label # None
          BY DEF TypeOK
        <4>4. ASSUME NEW q \in PeerId PROVE Known(q)' <=> Known(q)
          <5>1. row.retired = peer[p].retired
            BY <3>1 DEF PeerRow, row
          <5>2. peer'[q].retired = peer[q].retired
            BY <3>4, <5>1
          <5> QED
            BY <4>2, <5>2 DEF Known
        <4> QED
          BY <4>1, <4>2, <4>3, <4>4
    <2> QED
      BY <1>10, <1>x, <1>t, <2>1 DEF LeaseLapses
  <1>11. ASSUME NEW b \in Bridge, Release(b) PROVE NewType
    <2>1. sess[b].peer \in PeerId
      BY <1>11 DEF Release, Identity, KnowsItsPeer
    <2>2. CASE UNCHANGED <<peer, proxy, out>>
      BY <1>11, <1>p, <1>x, <1>t, <1>e, <2>2 DEF Release
    <2>3. CASE ~UNCHANGED <<peer, proxy, out>>
      <3>1. NewPeer
        BY <1>11, <2>1, <2>3, ReleaseRows DEF TypeOK, Known, SamePins
      <3>2. Repointed(sess[b].peer, None) /\ NewOut
        BY <1>11, <2>1, <2>3, ReleaseRows DEF Requeued
      <3> QED
        BY <1>11, <1>t, <1>y, <1>e, <2>1, <3>1, <3>2 DEF Release
    <2> QED
      BY <2>2, <2>3
  <1>12. ASSUME NEW b \in Bridge, Die(b) PROVE NewType
    BY <1>12, <1>p, <1>x, <1>t, <1>e DEF Die
  <1>13. ASSUME NEW p \in PeerId, NEW r \in Remote, EnsureProxy(p, r)
         PROVE  Proxies /\ <<p, r>> \in Proxy
    <2>1. <<p, r>> \in Proxy /\ peer[p].owner \in Bridge \cup {None}
      BY <1>t DEF Proxy, PeerRow
    <2> QED
      <3>0. /\ DOMAIN proxy' = DOMAIN proxy \cup {<<p, r>>}
            /\ Cardinality(DOMAIN proxy') =< MaxProxies
            /\ \A x \in DOMAIN proxy : proxy'[x] = proxy[x]
            /\ <<p, r>> \notin DOMAIN proxy => proxy'[<<p, r>>] \in {None, peer[p].owner}
        BY <1>13, EnsureProxyRows
      <3>1. \A x \in DOMAIN proxy' : proxy'[x] \in Bridge \cup {None}
        BY <2>1, <3>0 DEF TypeOK
      <3>2. DOMAIN proxy' \subseteq Proxy /\ Cardinality(DOMAIN proxy') =< MaxProxies
        BY <2>1, <3>0 DEF TypeOK
      <3> QED
        BY <2>1, <3>1, <3>2
  <1>14. ASSUME NEW s \in Sender, NEW l, NEW r \in Remote, Address(s, l, r) PROVE NewType
    <2>1. PICK p \in PeerId : EnsureProxy(p, r) /\ draft' = [draft EXCEPT ![s] = <<p, r>>]
      BY <1>14 DEF Address, ByLabel
    <2> QED
      BY <1>14, <1>13, <1>p, <1>t, <2>1 DEF Address
  <1>15. ASSUME NEW s \in Sender, NEW m \in Outbound, SendOut(s, m) PROVE NewType
    <2>1. NewOut
      <3>1. CASE out' = out
        BY <1>t, <3>1
      <3>2. CASE out' = [out EXCEPT ![m].state = "queued", ![m].to = draft[s]]
        <4>0. draft[s] \in Proxy \cup {None}
          BY <1>t
        <4> DEFINE row == [out[m] EXCEPT !.state = "queued", !.to = draft[s]]
        <4>1. out[m] \in OutRow
          BY <1>t
        <4>2. row \in OutRow
          BY <4>1, <4>0 DEF OutRow, OutState, Pending
        <4>3. out' = [out EXCEPT ![m] = row]
          BY <3>2
        <4> HIDE DEF row
        <4> QED
          BY <1>t, <4>2, <4>3
      <3> QED
        BY <1>15, <3>1, <3>2 DEF SendOut
    <2>2. NewDraft
      BY <1>15, <1>t DEF SendOut
    <2> QED
      BY <1>15, <1>p, <1>x, <1>t, <2>1, <2>2 DEF SendOut
  <1>16. ASSUME NEW b \in Bridge, ClaimCheck(b) \/ ClaimNothing(b) PROVE NewType
    BY <1>16, <1>p, <1>x, <1>t, <1>s DEF ClaimCheck, ClaimNothing, Pc
  <1>17. ASSUME NEW b \in Bridge, NEW m \in Outbound, ClaimOut(b, m) PROVE NewType
    <2>1. NewOut
      <3> DEFINE row == [out[m] EXCEPT !.state = "claimed", !.owner = b]
      <3>1. out[m] \in OutRow
        BY <1>t
      <3>2. row \in OutRow
        BY <3>1 DEF OutRow, OutState, Pending
      <3>3. out' = [out EXCEPT ![m] = row]
        BY <1>17 DEF ClaimOut
      <3> HIDE DEF row
      <3> QED
        BY <1>t, <3>2, <3>3
    <2> QED
      BY <1>17, <1>p, <1>x, <1>t, <1>s, <2>1 DEF ClaimOut, Pc
  <1>18. ASSUME NEW b \in Bridge, NEW m \in Outbound,
                NEW state \in {"delivered", "consumed", "undeliverable"}, Settle(b, m, state)
         PROVE  NewType
    <2>1. NewOut
      <3> DEFINE row == [out[m] EXCEPT !.state = state, !.owner = None]
      <3>1. out[m] \in OutRow
        BY <1>t
      <3>2. row \in OutRow
        BY <3>1 DEF OutRow, OutState, Pending
      <3>3. out' = [out EXCEPT ![m] = row]
        BY <1>18 DEF Settle
      <3> HIDE DEF row
      <3> QED
        BY <1>t, <3>2, <3>3
    <2> QED
      BY <1>18, <1>p, <1>x, <1>t, <2>1 DEF Settle
  <1>19. ASSUME NEW b \in Bridge, NEW r \in Remote, IngestProxy(b, r) PROVE NewType
    <2>1. sess[b].peer \in PeerId
      BY <1>19 DEF IngestProxy, Identity, KnowsItsPeer
    <2>2. NewSess
      <3> DEFINE s == [sess[b] EXCEPT !.pc = "insert", !.hand = r]
      <3>1. sess[b] \in SessionState
        BY <1>t
      <3>2. s \in SessionState
        BY <3>1 DEF SessionState, Pc
      <3>3. sess' = [sess EXCEPT ![b] = s]
        BY <1>19 DEF IngestProxy
      <3> HIDE DEF s
      <3> QED
        BY <1>t, <3>2, <3>3
    <2> QED
      BY <1>19, <1>13, <1>p, <1>t, <2>1, <2>2 DEF IngestProxy
  <1>20. ASSUME NEW b \in Bridge, NEW m \in Inbound, IngestInsert(b, m) PROVE NewType
    <2>1. NewSess
      <3> DEFINE s == [sess[b] EXCEPT !.pc = "pump", !.hand = None]
      <3>1. sess[b] \in SessionState
        BY <1>t
      <3>2. s \in SessionState
        BY <3>1 DEF SessionState, Pc
      <3>3. sess' = [sess EXCEPT ![b] = s]
        BY <1>20 DEF IngestInsert
      <3> HIDE DEF s
      <3> QED
        BY <1>t, <3>2, <3>3
    <2>2. <<sess[b].peer, sess[b].hand>> \in Proxy
      BY <1>20 DEF IngestInsert, Identity, KnowsItsPeer, Proxy
    <2>3. NewIn
      BY <1>20, <1>t, <2>2 DEF IngestInsert, InRow, InState
    <2> QED
      BY <1>20, <1>p, <1>x, <1>t, <2>1, <2>3 DEF IngestInsert
  <1>21. ASSUME NEW m \in Inbound, Receive(m) PROVE NewType
    <2>1. NewIn
      BY <1>21, <1>t DEF Receive, InRow, InState
    <2> QED
      BY <1>21, <1>p, <1>x, <1>t, <2>1 DEF Receive
  <1>22. ASSUME NEW l, Retire(l) PROVE NewType
    <2>1. PICK p \in ByLabel(l) :
            /\ peer' \in [PeerId -> PeerRow]
            /\ \A q \in PeerId : peer'[q] =
                IF q = p THEN RetiredRow(peer[p].host) ELSE peer[q]
            /\ Repointed(p, None)
            /\ out' \in [Outbound -> OutRow] /\ inbox' \in [Inbound -> InRow]
            /\ given' = given \ {peer[p].host}
            /\ UNCHANGED <<sess, draft>>
      BY <1>22, RetireRows
    <2>2. p \in PeerId
      BY DEF ByLabel
    <2>3. peer[p].host \in HostId
      BY <1>t, <2>2 DEF ByLabel, Known, PeerRow
    <2>4. NewPeer
      BY <2>1, <2>2, <2>3, RowFields DEF TypeOK, Known
    <2> QED
      BY <1>t, <1>y, <2>1, <2>2, <2>4
  <1>23. CASE UNCHANGED vars
    BY <1>23, <1>p, <1>x, <1>t DEF vars
  <1>24. ASSUME NEW b \in Bridge, CheckFails(b) PROVE NewType
    BY <1>11, <1>24 DEF CheckFails
  <1> QED
    BY <1>1, <1>2, <1>3, <1>4, <1>5, <1>6, <1>8, <1>9, <1>10, <1>11, <1>12, <1>14, <1>15, <1>16,
       <1>17, <1>18, <1>19, <1>20, <1>21, <1>22, <1>23, <1>24 DEF Next

-----------------------------------------------------------------------------
(***************************************************************************)
(* Pins                                                                     *)
(***************************************************************************)

\* What a step may do to the peer table: nothing, pin a host that no row was
\* pinned to, change the lease or the trust of rows in use, or retire one.
OnePinned ==
    \E p \in PeerId, l \in Label \cup ShortLabel, h \in HostId :
        /\ peer[p].host = None /\ ByHost(h) = {} /\ peer'[p] = PinRow(l, h)
        /\ \A q \in PeerId : q # p => peer'[q] = peer[q]

SameNames ==
    \A q \in PeerId :
        /\ peer'[q].label = peer[q].label /\ peer'[q].host = peer[q].host
        /\ peer'[q].retired = peer[q].retired
        /\ Known(q) \/ peer'[q] = peer[q]

OneRetired ==
    \E p \in PeerId :
        /\ Known(p) /\ peer'[p] = RetiredRow(peer[p].host)
        /\ \A q \in PeerId : q # p => peer'[q] = peer[q]
        /\ \A m \in Outbound : out'[m].state \in Pending => out'[m].to \notin ProxiesOf(p)

PeerMoves == OnePinned \/ SameNames \/ OneRetired

LEMMA PeerStep ==
    ASSUME TypeOK, Pinned, Identity, RetiredHoldsNothing, [Next]_vars
    PROVE  PeerMoves
  <1>t. peer \in [PeerId -> PeerRow]
    BY DEF TypeOK
  <1>u. UNCHANGED peer => SameNames
    BY DEF SameNames
  <1>n. \A q \in PeerId : ~Known(q) => peer[q].owner = None /\ ~peer[q].live
    BY DEF Pinned, NoPeer, RetiredHoldsNothing, Known
  <1>1. ASSUME NEW l \in Label \cup ShortLabel, NEW h \in HostId, NEW p \in PeerId, Pins(l, h, p)
        PROVE  PeerMoves
    <2>1. /\ \A q \in PeerId : q # p => peer'[q] = peer[q]
          /\ \/ peer'[p] = peer[p]
             \/ peer[p].host = None /\ ByHost(h) = {} /\ peer'[p] = PinRow(l, h)
      BY <1>1, PinsRow
    <2>2. CASE peer'[p] = peer[p]
      BY <2>1, <2>2 DEF PeerMoves, SameNames
    <2>3. CASE peer[p].host = None /\ ByHost(h) = {} /\ peer'[p] = PinRow(l, h)
      BY <2>1, <2>3 DEF PeerMoves, OnePinned
    <2> QED
      BY <2>1, <2>2, <2>3
  <1>2. ASSUME NEW b \in Bridge, NEW l \in Label,
               IdentifyDial(b, l) \/ ServePin(b, l)
        PROVE  PeerMoves
    <2>1. sess[b].host \in HostId
      BY <1>2 DEF IdentifyDial, ServePin, Identity, KnowsItsPeer
    <2>2. UNCHANGED peer \/ \E p \in PeerId : Pins(l, sess[b].host, p)
      BY <1>2 DEF IdentifyDial, ServePin
    <2> QED
      BY <1>1, <1>u, <2>1, <2>2 DEF PeerMoves
  <1>3. ASSUME NEW b \in Bridge, ServeShort(b) PROVE PeerMoves
    <2>1. sess[b].host \in HostId /\ <<sess[b].hand, sess[b].host>> \in ShortLabel
      BY <1>3, ShortLabels DEF ServeShort, Identity, KnowsItsPeer
    <2>2. UNCHANGED peer \/ \E p \in PeerId : Pins(<<sess[b].hand, sess[b].host>>, sess[b].host, p)
      BY <1>3 DEF ServeShort
    <2> QED
      BY <1>1, <1>u, <2>1, <2>2 DEF PeerMoves
  <1>4. ASSUME NEW l, NEW yes \in BOOLEAN, Trust(l, yes) PROVE PeerMoves
    <2>1. \A q \in PeerId :
            \/ peer'[q] = peer[q]
            \/ peer'[q] = [peer[q] EXCEPT !.trusted = yes] /\ Known(q)
      BY <1>4 DEF Trust, ByLabel
    <2>2. SameNames
      <3> SUFFICES ASSUME NEW q \in PeerId
                   PROVE  /\ peer'[q].label = peer[q].label /\ peer'[q].host = peer[q].host
                          /\ peer'[q].retired = peer[q].retired
                          /\ Known(q) \/ peer'[q] = peer[q]
        BY DEF SameNames
      <3>1. peer[q] \in PeerRow
        BY <1>t
      <3>2. CASE peer'[q] = peer[q]
        BY <3>2
      <3>3. CASE peer'[q] = [peer[q] EXCEPT !.trusted = yes] /\ Known(q)
        BY <3>1, <3>3 DEF PeerRow
      <3> QED
        BY <2>1, <3>2, <3>3
    <2> QED
      BY <2>2 DEF PeerMoves
  <1>5. ASSUME NEW b \in Bridge, NEW p \in PeerId, TakeLease(b, p) PROVE PeerMoves
    <2>1. /\ Known(p) /\ SamePins
          /\ \A q \in PeerId : q # p => peer'[q] = peer[q]
      BY <1>5, TakeLeaseRows
    <2>2. SameNames
      BY <2>1 DEF SameNames, SamePins
    <2> QED
      BY <2>2 DEF PeerMoves
  <1>6. ASSUME NEW b \in Bridge, Acquire(b) \/ Renew(b) PROVE PeerMoves
    <2>1. sess[b].peer \in PeerId
      BY <1>6 DEF Acquire, Renew, Identity, KnowsItsPeer
    <2>2. UNCHANGED peer \/ TakeLease(b, sess[b].peer)
      BY <1>6 DEF Acquire, Renew
    <2> QED
      BY <1>5, <1>u, <2>1, <2>2 DEF PeerMoves
  <1>7. ASSUME NEW p \in PeerId, LeaseLapses(p) PROVE PeerMoves
    <2>1. Known(p)
      BY <1>7, <1>n DEF LeaseLapses
    <2>2. \A q \in PeerId : peer'[q] = IF q = p THEN [peer[q] EXCEPT !.live = FALSE] ELSE peer[q]
      BY <1>7, <1>t DEF LeaseLapses
    <2>3. SameNames
      BY <1>t, <2>1, <2>2 DEF SameNames, PeerRow
    <2> QED
      BY <2>3 DEF PeerMoves
  <1>8. ASSUME NEW b \in Bridge, Release(b) PROVE PeerMoves
    <2>1. sess[b].peer \in PeerId
      BY <1>8 DEF Release, Identity, KnowsItsPeer
    <2>2. CASE peer[sess[b].peer].owner # b
      BY <1>8, <1>u, <2>2 DEF Release, PeerMoves
    <2>3. CASE peer[sess[b].peer].owner = b
      <3>1. Known(sess[b].peer)
        BY <1>n, <2>1, <2>3, PeersAssumption
      <3>2. \/ UNCHANGED peer
            \/ SamePins /\ \A q \in PeerId : q # sess[b].peer => peer'[q] = peer[q]
        BY <1>8, <2>1, ReleaseRows
      <3>3. SameNames
        BY <1>u, <3>1, <3>2 DEF SameNames, SamePins
      <3> QED
        BY <3>3 DEF PeerMoves
    <2> QED
      BY <2>2, <2>3
  <1>9. ASSUME NEW l, Retire(l) PROVE PeerMoves
    <2>1. PICK p \in ByLabel(l) :
            /\ \A q \in PeerId : peer'[q] =
                IF q = p THEN RetiredRow(peer[p].host) ELSE peer[q]
            /\ \A m \in Outbound :
                \/ out'[m].state = "undeliverable"
                \/ /\ out'[m] = out[m]
                   /\ ~(out[m].to \in ProxiesOf(p) /\ out[m].state \in Pending)
      BY <1>9, RetireRows
    <2>2. \A m \in Outbound : out'[m].state \in Pending => out'[m].to \notin ProxiesOf(p)
      BY <2>1 DEF Pending
    <2> QED
      BY <2>1, <2>2 DEF PeerMoves, OneRetired, ByLabel
  <1>10. ASSUME NEW b \in Bridge,
                \/ (\E h \in HostId : Hello(b, h)) \/ ServeKnown(b) \/ Die(b)
                \/ ClaimCheck(b) \/ ClaimNothing(b)
                \/ (\E m \in Outbound : ClaimOut(b, m))
                \/ (\E m \in Outbound, state \in {"delivered", "consumed", "undeliverable"} :
                        Settle(b, m, state))
                \/ (\E r \in Remote : IngestProxy(b, r))
                \/ (\E m \in Inbound : IngestInsert(b, m))
         PROVE  UNCHANGED peer
    BY <1>10 DEF Hello, ServeKnown, Die, ClaimCheck, ClaimNothing, ClaimOut, Settle,
                 IngestProxy, IngestInsert
  <1>11. ASSUME \/ \E s \in Sender, l \in Label \cup ShortLabel, r \in Remote : Address(s, l, r)
                \/ \E s \in Sender, m \in Outbound : SendOut(s, m)
                \/ \E m \in Inbound : Receive(m)
                \/ UNCHANGED vars
         PROVE  UNCHANGED peer
    BY <1>11 DEF Address, SendOut, Receive, vars
  <1> QED
    BY <1>u, <1>2, <1>3, <1>4, <1>6, <1>7, <1>8, <1>9, <1>10, <1>11 DEF Next, PeerMoves, CheckFails

HostsKept ==
    \A p \in PeerId : peer[p].host # None => peer'[p].host = peer[p].host

LEMMA PinnedStep ==
    ASSUME TypeOK, Pinned, PeerMoves
    PROVE  Pinned' /\ HostsKept
  <1>t. peer \in [PeerId -> PeerRow] /\ \A h \in HostId : h # None
    BY PeersAssumption DEF TypeOK
  <1>1. CASE OnePinned
    <2>1. PICK p \in PeerId, l \in Label \cup ShortLabel, h \in HostId :
            /\ peer[p].host = None /\ ByHost(h) = {} /\ peer'[p] = PinRow(l, h)
            /\ \A q \in PeerId : q # p => peer'[q] = peer[q]
      BY <1>1 DEF OnePinned
    <2>2. peer'[p].host = h /\ h # None
      BY <1>t, <2>1, RowFields
    <2>3. \A q \in PeerId : q # p /\ Known(q)' => Known(q) /\ peer'[q].host # h
      BY <2>1 DEF Known, ByHost
    <2> QED
      BY <2>1, <2>2, <2>3 DEF Pinned, HostsKept, Known
  <1>2. CASE SameNames
    BY <1>2 DEF SameNames, Pinned, HostsKept, Known
  <1>3. CASE OneRetired
    <2>1. PICK p \in PeerId :
            /\ Known(p) /\ peer'[p] = RetiredRow(peer[p].host)
            /\ \A q \in PeerId : q # p => peer'[q] = peer[q]
      BY <1>3 DEF OneRetired
    <2>2. peer[p].host \in HostId /\ peer[p].host # None
      BY <1>t, <2>1 DEF Known, PeerRow
    <2>3. peer'[p].host = peer[p].host /\ peer'[p].retired
      BY <2>1, <2>2, RowFields
    <2> QED
      BY <2>1, <2>2, <2>3 DEF Pinned, HostsKept, Known
  <1> QED
    BY <1>1, <1>2, <1>3 DEF PeerMoves

-----------------------------------------------------------------------------
(***************************************************************************)
(* Bridges and their mail                                                   *)
(***************************************************************************)

\* A session that got as far as the lease stays with its host.
SessionsKeep ==
    \A b \in Bridge : sess[b].pc \in Late
        => sess'[b].pc \in Late /\ sess'[b].host = sess[b].host

LEMMA IdentityStep ==
    ASSUME TypeOK, Pinned, Identity, HostsKept, [Next]_vars
    PROVE  Identity' /\ SessionsKeep
  <1>t. sess \in [Bridge -> SessionState] /\ peer \in [PeerId -> PeerRow]
    BY DEF TypeOK
  <1>h. \A h \in HostId : h # None
    BY PeersAssumption
  <1>o. ASSUME NEW s \in SessionState, KnowsItsPeer(s) PROVE KnowsItsPeer(s)'
    BY <1>h, <1>o DEF KnowsItsPeer, HostsKept
  <1>u. UNCHANGED sess => Identity' /\ SessionsKeep
    <2> SUFFICES ASSUME UNCHANGED sess PROVE Identity'
      BY DEF SessionsKeep
    <2>1. ASSUME NEW b \in Bridge PROVE KnowsItsPeer(sess[b])'
      <3>1. KnowsItsPeer(sess[b]) /\ sess[b] \in SessionState
        BY <1>t DEF Identity
      <3> QED
        BY <1>h, <3>1 DEF KnowsItsPeer, HostsKept
    <2> QED
      BY <2>1 DEF Identity
  <1>n. ASSUME NEW b \in Bridge, NEW s \in SessionState, KnowsItsPeer(s)',
               \A d \in Bridge : sess'[d] = IF d = b THEN s ELSE sess[d],
               sess[b].pc \in Late => s.pc \in Late /\ s.host = sess[b].host
        PROVE  Identity' /\ SessionsKeep
    <2>1. SessionsKeep
      BY <1>n DEF SessionsKeep
    <2>2. ASSUME NEW d \in Bridge PROVE KnowsItsPeer(sess[d])'
      <3>1. CASE d = b
        BY <1>n, <3>1 DEF KnowsItsPeer
      <3>2. CASE d # b
        <4>1. KnowsItsPeer(sess[d]) /\ sess[d] \in SessionState /\ sess'[d] = sess[d]
          BY <1>n, <1>t, <3>2 DEF Identity
        <4> QED
          BY <1>h, <4>1 DEF KnowsItsPeer, HostsKept
      <3> QED
        BY <3>1, <3>2
    <2> QED
      BY <2>1, <2>2 DEF Identity
  <1>p. ASSUME NEW b \in Bridge, NEW q \in {"serve", "pump", "claim", "ended"},
               sess' = [sess EXCEPT ![b].pc = q],
               sess[b].pc \in {"hello", "serve", "lease", "pump", "claim", "insert"},
               q \in {"pump", "claim"} => sess[b].pc \in {"lease", "pump", "claim", "insert"},
               q = "serve" => sess[b].pc = "hello"
        PROVE  Identity' /\ SessionsKeep
    <2>s. PICK s : s = [sess[b] EXCEPT !.pc = q]
      OBVIOUS
    <2>1. /\ s \in SessionState /\ s.pc = q /\ s.host = sess[b].host /\ s.peer = sess[b].peer
          /\ s.hand = sess[b].hand
      BY <2>s, <1>t DEF SessionState, Pc
    <2>2. \A d \in Bridge : sess'[d] = IF d = b THEN s ELSE sess[d]
      BY <2>s, <1>p, <1>t
    <2>3. KnowsItsPeer(sess[b])
      BY DEF Identity
    <2>4. KnowsItsPeer(s)
      BY <1>p, <2>1, <2>3 DEF KnowsItsPeer
    <2>5. sess[b].pc \in Late => s.pc \in Late /\ s.host = sess[b].host
      BY <1>p, <2>1 DEF Late
    <2> QED
      BY <1>n, <1>o, <2>1, <2>2, <2>4, <2>5
  <1>1. ASSUME NEW b \in Bridge, NEW h \in HostId, Hello(b, h) PROVE Identity' /\ SessionsKeep
    <2>s. PICK s : s = [sess[b] EXCEPT !.pc = "hello", !.host = h]
      OBVIOUS
    <2>1. s \in SessionState /\ s.pc = "hello" /\ s.host = h
      BY <2>s, <1>t DEF SessionState, Pc
    <2>2. \A d \in Bridge : sess'[d] = IF d = b THEN s ELSE sess[d]
      BY <2>s, <1>1, <1>t DEF Hello
    <2>3. KnowsItsPeer(s)'
      BY <2>1 DEF KnowsItsPeer
    <2> QED
      BY <1>1, <1>n, <2>1, <2>2, <2>3 DEF Hello, Late
  <1>2. ASSUME NEW b \in Bridge, NEW p \in PeerId, Identified(b, p),
               sess[b].pc \in {"hello", "serve"}, peer'[p].host = sess[b].host
        PROVE  Identity' /\ SessionsKeep
    <2>s. PICK s : s = [sess[b] EXCEPT !.pc = "lease", !.peer = p]
      OBVIOUS
    <2>1. s \in SessionState /\ s.pc = "lease" /\ s.host = sess[b].host /\ s.peer = p
      BY <2>s, <1>t DEF SessionState, Pc
    <2>2. \A d \in Bridge : sess'[d] = IF d = b THEN s ELSE sess[d]
      BY <2>s, <1>2, <1>t DEF Identified
    <2>3. sess[b].host \in HostId
      BY <1>2 DEF Identity, KnowsItsPeer
    <2>4. KnowsItsPeer(s)'
      BY <1>2, <2>1, <2>3 DEF KnowsItsPeer
    <2> QED
      BY <1>2, <1>n, <2>1, <2>2, <2>4 DEF Late
  <1>3. ASSUME NEW b \in Bridge, NEW l \in Label \cup ShortLabel, NEW p \in PeerId,
               Pins(l, sess[b].host, p), sess[b].pc \in {"hello", "serve", "short"}
        PROVE  peer'[p].host = sess[b].host
    <2>1. sess[b].host \in HostId
      BY <1>3 DEF Identity, KnowsItsPeer
    <2> QED
      BY <1>3, <2>1, PinsRow
  <1>4. ASSUME NEW b \in Bridge, NEW l \in Label, IdentifyDial(b, l)
        PROVE  Identity' /\ SessionsKeep
    BY <1>4, <1>2, <1>3, <1>p DEF IdentifyDial, Ends
  <1>5. ASSUME NEW b \in Bridge, ServeKnown(b) PROVE Identity' /\ SessionsKeep
    BY <1>5, <1>2, <1>p DEF ServeKnown, ByHost
  <1>6. ASSUME NEW b \in Bridge, NEW l \in Label, ServePin(b, l) PROVE Identity' /\ SessionsKeep
    <2>1. CASE sess' = [sess EXCEPT ![b].pc = "short", ![b].hand = l]
      <3>s. PICK s : s = [sess[b] EXCEPT !.pc = "short", !.hand = l]
        OBVIOUS
      <3>1. s \in SessionState /\ s.pc = "short" /\ s.host = sess[b].host /\ s.hand = l
        BY <3>s, <1>t DEF SessionState, Pc
      <3>2. \A d \in Bridge : sess'[d] = IF d = b THEN s ELSE sess[d]
        BY <3>s, <2>1, <1>t
      <3>3. sess[b].host \in HostId
        BY <1>6 DEF Identity, KnowsItsPeer, ServePin
      <3>4. KnowsItsPeer(s)'
        BY <3>1, <3>3 DEF KnowsItsPeer
      <3> QED
        BY <1>6, <1>n, <3>1, <3>2, <3>4 DEF ServePin, Late
    <2> QED
      BY <1>6, <1>2, <1>3, <2>1 DEF ServePin
  <1>7. ASSUME NEW b \in Bridge, ServeShort(b) PROVE Identity' /\ SessionsKeep
    <2>0. sess[b].host \in HostId /\ <<sess[b].hand, sess[b].host>> \in ShortLabel
      BY <1>7, ShortLabels DEF ServeShort, Identity, KnowsItsPeer
    <2>1. CASE \E p \in PeerId : Pins(<<sess[b].hand, sess[b].host>>, sess[b].host, p)
                /\ sess' = [sess EXCEPT ![b].pc = "lease", ![b].peer = p, ![b].hand = None]
      <3>1. PICK p \in PeerId : Pins(<<sess[b].hand, sess[b].host>>, sess[b].host, p)
                /\ sess' = [sess EXCEPT ![b].pc = "lease", ![b].peer = p, ![b].hand = None]
        BY <2>1
      <3>2. peer'[p].host = sess[b].host
        BY <1>7, <1>3, <2>0, <3>1 DEF ServeShort
      <3>s. PICK s : s = [sess[b] EXCEPT !.pc = "lease", !.peer = p, !.hand = None]
        OBVIOUS
      <3>3. s \in SessionState /\ s.pc = "lease" /\ s.host = sess[b].host /\ s.peer = p
        BY <3>s, <1>t DEF SessionState, Pc
      <3>4. \A d \in Bridge : sess'[d] = IF d = b THEN s ELSE sess[d]
        BY <3>s, <3>1, <1>t
      <3>5. KnowsItsPeer(s)'
        BY <2>0, <3>2, <3>3 DEF KnowsItsPeer
      <3> QED
        BY <1>7, <1>n, <3>3, <3>4, <3>5 DEF ServeShort, Late
    <2>2. CASE sess' = [sess EXCEPT ![b].pc = "ended", ![b].hand = None]
      <3>s. PICK s : s = [sess[b] EXCEPT !.pc = "ended", !.hand = None]
        OBVIOUS
      <3>1. s \in SessionState /\ s.pc = "ended" /\ s.host = sess[b].host
        BY <3>s, <1>t DEF SessionState, Pc
      <3>2. \A d \in Bridge : sess'[d] = IF d = b THEN s ELSE sess[d]
        BY <3>s, <2>2, <1>t
      <3>3. KnowsItsPeer(s)'
        BY <3>1 DEF KnowsItsPeer
      <3> QED
        BY <1>7, <1>n, <3>1, <3>2, <3>3 DEF ServeShort, Late
    <2> QED
      BY <1>7, <2>1, <2>2 DEF ServeShort
  <1>8. ASSUME NEW b \in Bridge, Acquire(b) \/ Release(b) \/ CheckFails(b) \/ Die(b)
                \/ ClaimCheck(b) \/ ClaimNothing(b) \/ \E m \in Outbound : ClaimOut(b, m)
        PROVE  Identity' /\ SessionsKeep
    BY <1>8, <1>p DEF Acquire, Release, CheckFails, Die, ClaimCheck, ClaimNothing, ClaimOut, Ends
  <1>9. ASSUME NEW b \in Bridge, NEW r \in Remote, IngestProxy(b, r) PROVE Identity' /\ SessionsKeep
    <2>s. PICK s : s = [sess[b] EXCEPT !.pc = "insert", !.hand = r]
      OBVIOUS
    <2>1. /\ s \in SessionState /\ s.pc = "insert" /\ s.host = sess[b].host
          /\ s.peer = sess[b].peer /\ s.hand = r
      BY <2>s, <1>t DEF SessionState, Pc
    <2>2. \A d \in Bridge : sess'[d] = IF d = b THEN s ELSE sess[d]
      BY <2>s, <1>9, <1>t DEF IngestProxy
    <2>3. KnowsItsPeer(sess[b]) /\ sess[b].pc = "pump"
      BY <1>9 DEF Identity, IngestProxy
    <2>4. KnowsItsPeer(s)
      BY <2>1, <2>3 DEF KnowsItsPeer
    <2> QED
      BY <1>n, <1>o, <2>1, <2>2, <2>4 DEF Late
  <1>10. ASSUME NEW b \in Bridge, NEW m \in Inbound, IngestInsert(b, m)
         PROVE  Identity' /\ SessionsKeep
    <2>s. PICK s : s = [sess[b] EXCEPT !.pc = "pump", !.hand = None]
      OBVIOUS
    <2>1. /\ s \in SessionState /\ s.pc = "pump" /\ s.host = sess[b].host
          /\ s.peer = sess[b].peer
      BY <2>s, <1>t DEF SessionState, Pc
    <2>2. \A d \in Bridge : sess'[d] = IF d = b THEN s ELSE sess[d]
      BY <2>s, <1>10, <1>t DEF IngestInsert
    <2>3. KnowsItsPeer(sess[b]) /\ sess[b].pc = "insert"
      BY <1>10 DEF Identity, IngestInsert
    <2>4. KnowsItsPeer(s)
      BY <2>1, <2>3 DEF KnowsItsPeer
    <2> QED
      BY <1>n, <1>o, <2>1, <2>2, <2>4 DEF Late
  <1>11. ASSUME \/ \E l \in Label \cup ShortLabel, yes \in BOOLEAN : Trust(l, yes)
                \/ \E b \in Bridge : Renew(b)
                \/ \E p \in PeerId : LeaseLapses(p)
                \/ \E s \in Sender, l \in Label \cup ShortLabel, r \in Remote : Address(s, l, r)
                \/ \E s \in Sender, m \in Outbound : SendOut(s, m)
                \/ \E b \in Bridge, m \in Outbound,
                      state \in {"delivered", "consumed", "undeliverable"} : Settle(b, m, state)
                \/ \E m \in Inbound : Receive(m)
                \/ \E l \in Label \cup ShortLabel : Retire(l)
                \/ UNCHANGED vars
         PROVE  UNCHANGED sess
    BY <1>11 DEF Trust, Renew, LeaseLapses, Address, SendOut, Settle, Receive, Retire, vars
  <1> QED
    BY <1>u, <1>1, <1>4, <1>5, <1>6, <1>7, <1>8, <1>9, <1>10, <1>11 DEF Next

-----------------------------------------------------------------------------
(***************************************************************************)
(* Leases, proxies and mail                                                 *)
(***************************************************************************)

\* What a step may do to leases and the bindings of proxies together.
KeepsLease(q) ==
    peer'[q].owner = peer[q].owner /\ (peer'[q].retired => peer[q].retired)

Rebinds(p, i) ==
    /\ Repointed(p, i) /\ \A q \in PeerId : q # p => KeepsLease(q)
    /\ i = None \/ (i = peer'[p].owner /\ ~peer'[p].retired)

AddsProxy ==
    /\ UNCHANGED peer
    /\ \E p \in PeerId, r \in Remote :
        /\ Known(p) /\ <<p, r>> \notin DOMAIN proxy
        /\ DOMAIN proxy' = DOMAIN proxy \cup {<<p, r>>}
        /\ \A x \in DOMAIN proxy : proxy'[x] = proxy[x]
        /\ proxy'[<<p, r>>] \in {None, peer[p].owner}

LeaseMoves ==
    \/ UNCHANGED proxy /\ \A q \in PeerId : KeepsLease(q)
    \/ \E p \in PeerId, i \in Bridge \cup {None} : Rebinds(p, i)
    \/ AddsProxy

LEMMA LeaseStep ==
    ASSUME TypeOK, Pinned, Identity, [Next]_vars
    PROVE  LeaseMoves
  <1>t. peer \in [PeerId -> PeerRow]
    BY DEF TypeOK
  <1>u. UNCHANGED <<peer, proxy>> => LeaseMoves
    BY DEF LeaseMoves, KeepsLease
  <1>1. ASSUME NEW l \in Label \cup ShortLabel, NEW h \in HostId, NEW p \in PeerId,
               Pins(l, h, p), UNCHANGED proxy
        PROVE  LeaseMoves
    <2>1. /\ \A q \in PeerId : q # p => peer'[q] = peer[q]
          /\ \/ peer'[p] = peer[p]
             \/ peer[p].host = None /\ peer'[p] = PinRow(l, h)
      BY <1>1, PinsRow
    <2>2. PinRow(l, h).owner = None /\ ~PinRow(l, h).retired
      BY RowFields
    <2>3. peer[p].host = None => peer[p].owner = None
      BY DEF Pinned, NoPeer
    <2>4. \A q \in PeerId : KeepsLease(q)
      BY <2>1, <2>2, <2>3 DEF KeepsLease
    <2> QED
      BY <1>1, <2>4 DEF LeaseMoves
  <1>2. ASSUME NEW b \in Bridge, NEW l \in Label,
               IdentifyDial(b, l) \/ ServePin(b, l)
        PROVE  LeaseMoves
    <2>1. sess[b].host \in HostId
      BY <1>2 DEF IdentifyDial, ServePin, Identity, KnowsItsPeer
    <2>2. /\ UNCHANGED proxy
          /\ UNCHANGED peer \/ \E p \in PeerId : Pins(l, sess[b].host, p)
      BY <1>2 DEF IdentifyDial, ServePin
    <2> QED
      BY <1>1, <1>u, <2>1, <2>2
  <1>3. ASSUME NEW b \in Bridge, ServeShort(b) PROVE LeaseMoves
    <2>1. sess[b].host \in HostId /\ <<sess[b].hand, sess[b].host>> \in ShortLabel
      BY <1>3, ShortLabels DEF ServeShort, Identity, KnowsItsPeer
    <2>2. /\ UNCHANGED proxy
          /\ \/ UNCHANGED peer
             \/ \E p \in PeerId : Pins(<<sess[b].hand, sess[b].host>>, sess[b].host, p)
      BY <1>3 DEF ServeShort
    <2> QED
      BY <1>1, <1>u, <2>1, <2>2
  <1>4. ASSUME NEW l, NEW yes \in BOOLEAN, Trust(l, yes) PROVE LeaseMoves
    <2>1. \A q \in PeerId : peer'[q] = peer[q] \/ peer'[q] = [peer[q] EXCEPT !.trusted = yes]
      BY <1>4 DEF Trust
    <2>2. \A q \in PeerId : KeepsLease(q)
      BY <1>t, <2>1 DEF KeepsLease, PeerRow
    <2> QED
      BY <1>4, <2>2 DEF LeaseMoves, Trust
  <1>5. ASSUME NEW b \in Bridge, NEW p \in PeerId, TakeLease(b, p) PROVE LeaseMoves
    <2>1. /\ Known(p) /\ SamePins /\ Repointed(p, b)
          /\ \A q \in PeerId : peer'[q] =
                IF q = p THEN LeaseRow(peer[p], b, TRUE) ELSE peer[q]
      BY <1>5, TakeLeaseRows
    <2>2. LeaseRow(peer[p], b, TRUE).owner = b
      <3>1. peer[p] \in PeerRow /\ b \in Bridge \cup {None} /\ TRUE \in BOOLEAN
        BY <1>t
      <3> QED
        BY <3>1, LeaseRowFields
    <2>3. \A q \in PeerId : q # p => KeepsLease(q)
      BY <2>1 DEF KeepsLease
    <2>4. b = peer'[p].owner /\ ~peer'[p].retired
      BY <2>1, <2>2 DEF SamePins, Known
    <2>5. Rebinds(p, b)
      BY <2>1, <2>3, <2>4 DEF Rebinds
    <2> QED
      BY <2>5 DEF LeaseMoves
  <1>6. ASSUME NEW b \in Bridge, Acquire(b) \/ Renew(b) PROVE LeaseMoves
    <2>1. sess[b].peer \in PeerId
      BY <1>6 DEF Acquire, Renew, Identity, KnowsItsPeer
    <2>2. UNCHANGED <<peer, proxy>> \/ TakeLease(b, sess[b].peer)
      BY <1>6 DEF Acquire, Renew
    <2> QED
      BY <1>5, <1>u, <2>1, <2>2
  <1>7. ASSUME NEW p \in PeerId, LeaseLapses(p) PROVE LeaseMoves
    <2>1. \A q \in PeerId : peer'[q] = IF q = p THEN [peer[q] EXCEPT !.live = FALSE] ELSE peer[q]
      BY <1>7, <1>t DEF LeaseLapses
    <2>2. \A q \in PeerId : KeepsLease(q)
      BY <1>t, <2>1 DEF KeepsLease, PeerRow
    <2> QED
      BY <1>7, <2>2 DEF LeaseMoves, LeaseLapses
  <1>8. ASSUME NEW b \in Bridge, Release(b) PROVE LeaseMoves
    <2>1. sess[b].peer \in PeerId
      BY <1>8 DEF Release, Identity, KnowsItsPeer
    <2>2. CASE UNCHANGED <<peer, proxy, out>>
      BY <1>u, <2>2
    <2>3. CASE ~UNCHANGED <<peer, proxy, out>>
      <3>1. /\ \A q \in PeerId : q # sess[b].peer => peer'[q] = peer[q]
            /\ Repointed(sess[b].peer, None)
        BY <1>8, <2>1, <2>3, ReleaseRows
      <3>2. Rebinds(sess[b].peer, None)
        BY <3>1 DEF Rebinds, KeepsLease
      <3> QED
        BY <2>1, <3>2 DEF LeaseMoves
    <2> QED
      BY <2>2, <2>3
  <1>9. ASSUME NEW l, Retire(l) PROVE LeaseMoves
    <2>1. PICK p \in ByLabel(l) :
            /\ \A q \in PeerId : peer'[q] =
                IF q = p THEN RetiredRow(peer[p].host) ELSE peer[q]
            /\ Repointed(p, None)
      BY <1>9, RetireRows
    <2>2. p \in PeerId /\ Rebinds(p, None)
      BY <2>1 DEF Rebinds, KeepsLease, ByLabel
    <2> QED
      BY <2>2 DEF LeaseMoves
  <1>10. ASSUME NEW p \in PeerId, NEW r \in Remote, EnsureProxy(p, r), UNCHANGED peer
         PROVE  LeaseMoves
    <2>1. /\ Known(p) /\ DOMAIN proxy' = DOMAIN proxy \cup {<<p, r>>}
          /\ \A x \in DOMAIN proxy : proxy'[x] = proxy[x]
          /\ <<p, r>> \notin DOMAIN proxy => proxy'[<<p, r>>] \in {None, peer[p].owner}
      BY <1>10, EnsureProxyRows
    <2>2. CASE <<p, r>> \in DOMAIN proxy
      BY <1>10, <1>u, <2>2 DEF EnsureProxy
    <2>3. CASE <<p, r>> \notin DOMAIN proxy
      <3>1. AddsProxy
        BY <1>10, <2>1, <2>3 DEF AddsProxy
      <3> QED
        BY <3>1 DEF LeaseMoves
    <2> QED
      BY <2>2, <2>3
  <1>11. ASSUME NEW s \in Sender, NEW l, NEW r \in Remote, Address(s, l, r) PROVE LeaseMoves
    BY <1>10, <1>11 DEF Address, ByLabel
  <1>12. ASSUME NEW b \in Bridge, NEW r \in Remote, IngestProxy(b, r) PROVE LeaseMoves
    <2>1. sess[b].peer \in PeerId
      BY <1>12 DEF IngestProxy, Identity, KnowsItsPeer
    <2> QED
      BY <1>10, <1>12, <2>1 DEF IngestProxy
  <1>13. ASSUME \/ \E b \in Bridge, h \in HostId : Hello(b, h)
                \/ \E b \in Bridge : ServeKnown(b) \/ Die(b) \/ ClaimCheck(b) \/ ClaimNothing(b)
                \/ \E b \in Bridge, m \in Outbound : ClaimOut(b, m)
                \/ \E b \in Bridge, m \in Outbound,
                      state \in {"delivered", "consumed", "undeliverable"} : Settle(b, m, state)
                \/ \E b \in Bridge, m \in Inbound : IngestInsert(b, m)
                \/ \E s \in Sender, m \in Outbound : SendOut(s, m)
                \/ \E m \in Inbound : Receive(m)
                \/ UNCHANGED vars
         PROVE  UNCHANGED <<peer, proxy>>
    BY <1>13 DEF Hello, ServeKnown, Die, ClaimCheck, ClaimNothing, ClaimOut, Settle,
                 IngestInsert, SendOut, Receive, vars
  <1> QED
    BY <1>u, <1>2, <1>3, <1>4, <1>6, <1>7, <1>8, <1>9, <1>11, <1>12, <1>13 DEF Next, CheckFails

\* A proxy follows the lease whatever moves either of them.
LEMMA FollowsStep ==
    ASSUME TypeOK, ProxiesFollowTheLease, LeaseMoves
    PROVE  ProxiesFollowTheLease' /\ DOMAIN proxy \subseteq DOMAIN proxy'
  <1>t. \A x \in DOMAIN proxy : x[1] \in PeerId
    BY DEF TypeOK, Proxy
  <1>1. CASE UNCHANGED proxy /\ \A q \in PeerId : KeepsLease(q)
    BY <1>1, <1>t DEF ProxiesFollowTheLease, KeepsLease
  <1>2. ASSUME NEW p \in PeerId, NEW i, Rebinds(p, i)
        PROVE  ProxiesFollowTheLease' /\ DOMAIN proxy \subseteq DOMAIN proxy'
    BY <1>2, <1>t DEF ProxiesFollowTheLease, Rebinds, Repointed, KeepsLease
  <1>3. CASE AddsProxy
    BY <1>3, <1>t DEF ProxiesFollowTheLease, AddsProxy
  <1> QED
    BY <1>1, <1>2, <1>3 DEF LeaseMoves

\* What a step may do to mail: leave it, put it back or settle it, send it to a
\* proxy of a peer that is not retired, or hand it to a bridge that checked.
Stays(m) == out'[m] = out[m]
Returns(m) ==
    /\ out[m].state \in Pending /\ out'[m].to = out[m].to
    /\ out'[m].state \notin {"absent", "claimed"}
Sent(m) ==
    \E s \in Sender :
        /\ draft[s] # None /\ ~peer[draft[s][1]].retired /\ UNCHANGED peer
        /\ out'[m].state = "queued" /\ out'[m].to = draft[s]
Taken(m) ==
    \E b \in Bridge :
        /\ sess[b].pc = "claim" /\ UNCHANGED peer
        /\ out[m].state = "queued" /\ out'[m].state = "claimed" /\ out'[m].owner = b
        /\ out'[m].to = out[m].to /\ out[m].to \in ProxiesOf(sess[b].peer)

LEMMA MailStep ==
    ASSUME TypeOK, Identity, [Next]_vars
    PROVE  \A m \in Outbound : Stays(m) \/ Returns(m) \/ Sent(m) \/ Taken(m)
  <1> DEFINE Moves == \A m \in Outbound : Stays(m) \/ Returns(m) \/ Sent(m) \/ Taken(m)
  <1>t. out \in [Outbound -> OutRow]
    BY DEF TypeOK
  <1>u. UNCHANGED out => Moves
    BY DEF Stays
  <1>r. Requeued => Moves
    BY DEF Requeued, Stays, Returns, Pending
  <1>1. ASSUME NEW b \in Bridge, Acquire(b) \/ Renew(b) PROVE Moves
    <2>1. sess[b].peer \in PeerId
      BY <1>1 DEF Acquire, Renew, Identity, KnowsItsPeer
    <2>2. UNCHANGED out \/ TakeLease(b, sess[b].peer)
      BY <1>1 DEF Acquire, Renew
    <2> QED
      BY <1>r, <1>u, <2>1, <2>2, TakeLeaseRows
  <1>2. ASSUME NEW b \in Bridge, Release(b) PROVE Moves
    <2>1. sess[b].peer \in PeerId
      BY <1>2 DEF Release, Identity, KnowsItsPeer
    <2>2. UNCHANGED out \/ Requeued
      BY <1>2, <2>1, ReleaseRows
    <2> QED
      BY <1>r, <1>u, <2>2
  <1>3. ASSUME NEW s \in Sender, NEW n \in Outbound, SendOut(s, n) PROVE Moves
    <2>1. CASE UNCHANGED out
      BY <1>u, <2>1
    <2>2. CASE ~UNCHANGED out
      <3>1. /\ ~peer[draft[s][1]].retired /\ draft[s] # None /\ UNCHANGED peer
            /\ out' = [out EXCEPT ![n].state = "queued", ![n].to = draft[s]]
        BY <1>3, <2>2 DEF SendOut
      <3>2. out'[n].state = "queued" /\ out'[n].to = draft[s]
        BY <1>t, <3>1 DEF OutRow
      <3>3. Sent(n)
        BY <3>1, <3>2 DEF Sent
      <3>4. \A m \in Outbound : m # n => Stays(m)
        BY <1>t, <3>1 DEF Stays
      <3> QED
        BY <3>3, <3>4
    <2> QED
      BY <2>1, <2>2
  <1>4. ASSUME NEW b \in Bridge, NEW n \in Outbound, ClaimOut(b, n) PROVE Moves
    <2>1. /\ out'[n].state = "claimed" /\ out'[n].owner = b /\ out'[n].to = out[n].to
          /\ \A m \in Outbound : m # n => out'[m] = out[m]
      BY <1>4, <1>t DEF ClaimOut, OutRow
    <2>2. Taken(n)
      BY <1>4, <2>1 DEF Taken, ClaimOut
    <2> QED
      BY <2>1, <2>2 DEF Stays
  <1>5. ASSUME NEW b \in Bridge, NEW n \in Outbound,
               NEW state \in {"delivered", "consumed", "undeliverable"}, Settle(b, n, state)
        PROVE  Moves
    <2>1. /\ out'[n].state = state /\ out'[n].to = out[n].to
          /\ \A m \in Outbound : m # n => out'[m] = out[m]
      BY <1>5, <1>t DEF Settle, OutRow
    <2>2. Returns(n)
      BY <1>5, <2>1 DEF Returns, Settle, Pending
    <2> QED
      BY <2>1, <2>2 DEF Stays
  <1>6. ASSUME NEW l, Retire(l) PROVE Moves
    <2>1. \A m \in Outbound :
            \/ /\ out'[m].state = "undeliverable" /\ out'[m].to = out[m].to
               /\ out[m].state \in Pending
            \/ out'[m] = out[m]
      BY <1>6, RetireRows
    <2> QED
      BY <2>1 DEF Stays, Returns
  <1>7. ASSUME \/ \E b \in Bridge, h \in HostId : Hello(b, h)
               \/ \E b \in Bridge, l \in Label : IdentifyDial(b, l) \/ ServePin(b, l)
               \/ \E b \in Bridge : ServeKnown(b) \/ ServeShort(b) \/ Die(b)
               \/ \E b \in Bridge : ClaimCheck(b) \/ ClaimNothing(b)
               \/ \E l \in Label \cup ShortLabel, yes \in BOOLEAN : Trust(l, yes)
               \/ \E p \in PeerId : LeaseLapses(p)
               \/ \E s \in Sender, l \in Label \cup ShortLabel, r \in Remote : Address(s, l, r)
               \/ \E b \in Bridge, r \in Remote : IngestProxy(b, r)
               \/ \E b \in Bridge, m \in Inbound : IngestInsert(b, m)
               \/ \E m \in Inbound : Receive(m)
               \/ UNCHANGED vars
        PROVE  UNCHANGED out
    BY <1>7 DEF Hello, IdentifyDial, ServePin, ServeKnown, ServeShort, Die, ClaimCheck,
                ClaimNothing, Trust, LeaseLapses, Address, IngestProxy, IngestInsert, Receive, vars
  <1> QED
    BY <1>u, <1>1, <1>2, <1>3, <1>4, <1>5, <1>6, <1>7 DEF Next, CheckFails

\* Proxies are never removed, so what names one keeps naming it.
LEMMA AddressedStep ==
    ASSUME TypeOK, Addressed, DOMAIN proxy \subseteq DOMAIN proxy', [Next]_vars,
           \A m \in Outbound : Stays(m) \/ Returns(m) \/ Sent(m) \/ Taken(m)
    PROVE  Addressed'
  <1>t. draft \in [Sender -> Proxy \cup {None}]
    BY DEF TypeOK
  <1>1. ASSUME NEW m \in Outbound, out'[m].state # "absent"
        PROVE  out'[m].to \in DOMAIN proxy'
    <2>1. CASE Stays(m)
      BY <1>1, <2>1 DEF Stays, Addressed
    <2>2. CASE Returns(m)
      BY <2>2 DEF Returns, Addressed, Pending
    <2>3. CASE Sent(m)
      BY <2>3 DEF Sent, Addressed
    <2>4. CASE Taken(m)
      BY <2>4 DEF Taken, Addressed
    <2> QED
      BY <2>1, <2>2, <2>3, <2>4
  <1>2. ASSUME NEW s \in Sender, NEW l, NEW r \in Remote, Address(s, l, r)
        PROVE  \A x \in Sender : draft'[x] # None => draft'[x] \in DOMAIN proxy'
    <2>1. PICK p \in PeerId : EnsureProxy(p, r) /\ draft' = [draft EXCEPT ![s] = <<p, r>>]
      BY <1>2 DEF Address, ByLabel
    <2>2. <<p, r>> \in DOMAIN proxy'
      BY <2>1, EnsureProxyRows
    <2> QED
      BY <1>t, <2>1, <2>2 DEF Addressed
  <1>3. ASSUME NEW s \in Sender, NEW m \in Outbound, SendOut(s, m)
        PROVE  \A x \in Sender : draft'[x] # None => draft'[x] \in DOMAIN proxy'
    BY <1>3, <1>t DEF SendOut, Addressed
  <1>4. \/ UNCHANGED draft
        \/ \E s \in Sender, l \in Label \cup ShortLabel, r \in Remote : Address(s, l, r)
        \/ \E s \in Sender, m \in Outbound : SendOut(s, m)
    <2>1. ASSUME NEW b \in Bridge,
                 \/ (\E h \in HostId : Hello(b, h)) \/ ServeKnown(b) \/ ServeShort(b)
                 \/ (\E l \in Label : IdentifyDial(b, l) \/ ServePin(b, l))
                 \/ Acquire(b) \/ Renew(b) \/ Release(b) \/ CheckFails(b) \/ Die(b)
          PROVE  UNCHANGED draft
      BY <2>1 DEF Hello, ServeKnown, ServeShort, IdentifyDial, ServePin, Acquire, Renew,
                  Release, CheckFails, Die
    <2>2. ASSUME NEW b \in Bridge,
                 \/ ClaimCheck(b) \/ ClaimNothing(b) \/ (\E m \in Outbound : ClaimOut(b, m))
                 \/ (\E m \in Outbound, state \in {"delivered", "consumed", "undeliverable"} :
                        Settle(b, m, state))
                 \/ (\E r \in Remote : IngestProxy(b, r))
                 \/ (\E m \in Inbound : IngestInsert(b, m))
          PROVE  UNCHANGED draft
      BY <2>2 DEF ClaimCheck, ClaimNothing, ClaimOut, Settle, IngestProxy, IngestInsert
    <2>3. ASSUME \/ \E l \in Label \cup ShortLabel, yes \in BOOLEAN : Trust(l, yes)
                 \/ \E p \in PeerId : LeaseLapses(p)
                 \/ \E m \in Inbound : Receive(m)
                 \/ \E l \in Label \cup ShortLabel : Retire(l)
                 \/ UNCHANGED vars
          PROVE  UNCHANGED draft
      BY <2>3 DEF Trust, LeaseLapses, Receive, Retire, vars
    <2> QED
      BY <2>1, <2>2, <2>3 DEF Next
  <1>5. \A x \in Sender : draft'[x] # None => draft'[x] \in DOMAIN proxy'
    BY <1>2, <1>3, <1>4 DEF Addressed
  <1> QED
    BY <1>1, <1>5 DEF Addressed

\* The host a claim is held for is the host it was addressed to: the claim was
\* taken through a proxy of the bridge's own peer, and neither the bridge nor
\* the peer changes its host afterwards.
LEMMA ClaimsStep ==
    ASSUME TypeOK, Identity, Addressed, Claims, SessionsKeep, HostsKept,
           \A m \in Outbound : Stays(m) \/ Returns(m) \/ Sent(m) \/ Taken(m)
    PROVE  Claims'
  <1>h. \A h \in HostId : h # None
    BY PeersAssumption
  <1> SUFFICES ASSUME NEW m \in Outbound, out'[m].state = "claimed"
               PROVE  /\ out'[m].owner \in Bridge
                      /\ sess'[out'[m].owner].pc \in Late
                      /\ sess'[out'[m].owner].host \in HostId
                      /\ sess'[out'[m].owner].host = peer'[out'[m].to[1]].host
    BY DEF Claims
  <1>1. CASE Stays(m)
    <2>1. /\ out'[m] = out[m] /\ out[m].state = "claimed" /\ out[m].owner \in Bridge
          /\ sess[out[m].owner].pc \in Late /\ sess[out[m].owner].host \in HostId
          /\ sess[out[m].owner].host = peer[out[m].to[1]].host
      BY <1>1 DEF Stays, Claims
    <2>2. out[m].to[1] \in PeerId
      BY <2>1 DEF Addressed, TypeOK, Proxy
    <2>3. peer'[out[m].to[1]].host = peer[out[m].to[1]].host
      BY <1>h, <2>1, <2>2 DEF HostsKept
    <2>4. sess'[out[m].owner].pc \in Late /\ sess'[out[m].owner].host = sess[out[m].owner].host
      BY <2>1 DEF SessionsKeep
    <2> QED
      BY <2>1, <2>3, <2>4
  <1>2. CASE Taken(m)
    <2>1. PICK b \in Bridge :
            /\ sess[b].pc = "claim" /\ UNCHANGED peer /\ out'[m].owner = b
            /\ out'[m].to = out[m].to /\ out[m].to \in ProxiesOf(sess[b].peer)
      BY <1>2 DEF Taken
    <2>2. sess[b].host \in HostId /\ peer[sess[b].peer].host = sess[b].host
      BY <2>1 DEF Identity, KnowsItsPeer
    <2>3. out[m].to[1] = sess[b].peer
      BY <2>1 DEF ProxiesOf
    <2>4. sess'[b].pc \in Late /\ sess'[b].host = sess[b].host
      BY <2>1 DEF SessionsKeep, Late
    <2> QED
      BY <2>1, <2>2, <2>3, <2>4
  <1>3. CASE Returns(m) \/ Sent(m)
    BY <1>3 DEF Returns, Sent
  <1> QED
    BY <1>1, <1>2, <1>3

LEMMA TrustedStep ==
    ASSUME TypeOK, Pinned, Identity, Trusted, PeerMoves, [Next]_vars
    PROVE  Trusted'
  <1>t. peer \in [PeerId -> PeerRow]
    BY DEF TypeOK
  <1>k. ASSUME UNCHANGED given,
               \A p \in PeerId : peer'[p].trusted => peer[p].trusted
        PROVE  Trusted'
    <2>1. CASE OnePinned
      <3>1. PICK p \in PeerId, l \in Label \cup ShortLabel, h \in HostId :
              /\ peer'[p] = PinRow(l, h) /\ \A q \in PeerId : q # p => peer'[q] = peer[q]
        BY <2>1 DEF OnePinned
      <3>2. ~peer'[p].trusted
        BY <3>1, RowFields
      <3> QED
        BY <1>k, <3>1, <3>2 DEF Trusted, Known
    <2>2. CASE SameNames
      BY <1>k, <2>2 DEF SameNames, Trusted, Known
    <2>3. CASE OneRetired
      <3>1. PICK p \in PeerId :
              /\ Known(p) /\ peer'[p] = RetiredRow(peer[p].host)
              /\ \A q \in PeerId : q # p => peer'[q] = peer[q]
        BY <2>3 DEF OneRetired
      <3>2. ~peer'[p].trusted
        BY <1>t, <3>1, RowFields DEF Known, PeerRow
      <3> QED
        BY <1>k, <3>1, <3>2 DEF Trusted, Known
    <2> QED
      BY <2>1, <2>2, <2>3 DEF PeerMoves
  <1>u. UNCHANGED <<peer, given>> => Trusted'
    BY DEF Trusted, Known
  <1>1. ASSUME NEW l, NEW yes \in BOOLEAN, Trust(l, yes) PROVE Trusted'
    <2>1. \A p \in PeerId :
            /\ p \in ByLabel(l) => peer'[p] = [peer[p] EXCEPT !.trusted = yes]
            /\ p \notin ByLabel(l) => peer'[p] = peer[p]
      BY <1>1 DEF Trust
    <2>2. \A p \in PeerId :
            /\ Known(p) => Known(p)'
            /\ peer'[p].host = peer[p].host
            /\ peer'[p].trusted = IF p \in ByLabel(l) THEN yes ELSE peer[p].trusted
      BY <1>t, <2>1 DEF Known, PeerRow
    <2>3. CASE yes
      BY <1>1, <2>2, <2>3 DEF Trust, Trusted, ByLabel
    <2>4. CASE ~yes
      <3>1. given' = given \ {peer[p].host : p \in ByLabel(l)}
        BY <1>1, <2>4 DEF Trust
      <3>2. ASSUME NEW q \in PeerId, peer'[q].trusted
            PROVE  Known(q)' /\ peer'[q].host \in given'
        <4>1. q \notin ByLabel(l) /\ Known(q) /\ peer[q].host \in given
          BY <2>2, <2>4, <3>2 DEF Trusted
        <4>2. \A p \in ByLabel(l) : peer[p].host # peer[q].host
          BY <4>1 DEF Pinned, ByLabel
        <4> QED
          BY <2>2, <3>1, <4>1, <4>2
      <3> QED
        BY <3>2 DEF Trusted
    <2> QED
      BY <2>3, <2>4
  <1>2. ASSUME NEW l, Retire(l) PROVE Trusted'
    <2>1. PICK p \in ByLabel(l) :
            /\ \A q \in PeerId : peer'[q] =
                IF q = p THEN RetiredRow(peer[p].host) ELSE peer[q]
            /\ given' = given \ {peer[p].host}
      BY <1>2, RetireRows
    <2>2. p \in PeerId /\ Known(p) /\ peer[p].host \in HostId
      BY <1>t DEF ByLabel, Known, PeerRow
    <2>3. ~peer'[p].trusted
      BY <2>1, <2>2, RowFields
    <2>4. ASSUME NEW q \in PeerId, peer'[q].trusted
          PROVE  Known(q)' /\ peer'[q].host \in given'
      <3>1. q # p /\ peer'[q] = peer[q]
        BY <2>1, <2>3, <2>4
      <3>2. Known(q) /\ peer[q].host \in given
        BY <2>4, <3>1 DEF Trusted
      <3>3. peer[q].host # peer[p].host
        BY <2>2, <3>1, <3>2 DEF Pinned
      <3> QED
        BY <2>1, <3>1, <3>2, <3>3 DEF Known
    <2> QED
      BY <2>4 DEF Trusted
  <1>3. ASSUME NEW b \in Bridge, NEW l \in Label \cup ShortLabel, NEW p \in PeerId,
               Pins(l, sess[b].host, p), sess[b].pc \in {"hello", "serve", "short"}
        PROVE  \A q \in PeerId : peer'[q].trusted => peer[q].trusted
    <2>1. sess[b].host \in HostId
      BY <1>3 DEF Identity, KnowsItsPeer
    <2>2. /\ \A q \in PeerId : q # p => peer'[q] = peer[q]
          /\ peer'[p] = peer[p] \/ peer'[p] = PinRow(l, sess[b].host)
      BY <1>3, <2>1, PinsRow
    <2> QED
      BY <2>1, <2>2, RowFields
  <1>4. ASSUME NEW b \in Bridge, NEW l \in Label, IdentifyDial(b, l) \/ ServePin(b, l)
        PROVE  Trusted'
    <2>1. /\ UNCHANGED given /\ sess[b].pc \in {"hello", "serve", "short"}
          /\ UNCHANGED peer \/ \E p \in PeerId : Pins(l, sess[b].host, p)
      BY <1>4 DEF IdentifyDial, ServePin
    <2> QED
      BY <1>3, <1>k, <1>u, <2>1
  <1>5. ASSUME NEW b \in Bridge, ServeShort(b) PROVE Trusted'
    <2>1. /\ UNCHANGED given /\ sess[b].pc \in {"hello", "serve", "short"}
          /\ \/ UNCHANGED peer
             \/ \E p \in PeerId : Pins(<<sess[b].hand, sess[b].host>>, sess[b].host, p)
      BY <1>5 DEF ServeShort
    <2>2. <<sess[b].hand, sess[b].host>> \in ShortLabel
      BY <1>5, ShortLabels DEF ServeShort, Identity, KnowsItsPeer
    <2> QED
      BY <1>3, <1>k, <1>u, <2>1, <2>2
  <1>6. ASSUME NEW b \in Bridge, Acquire(b) \/ Renew(b) PROVE Trusted'
    <2>1. sess[b].peer \in PeerId
      BY <1>6 DEF Acquire, Renew, Identity, KnowsItsPeer
    <2>2. UNCHANGED given /\ (UNCHANGED peer \/ TakeLease(b, sess[b].peer))
      BY <1>6 DEF Acquire, Renew
    <2>3. UNCHANGED peer \/ SamePins
      BY <2>1, <2>2, TakeLeaseRows
    <2> QED
      BY <1>k, <1>u, <2>2, <2>3 DEF SamePins
  <1>7. ASSUME NEW b \in Bridge, Release(b) PROVE Trusted'
    <2>1. sess[b].peer \in PeerId
      BY <1>7 DEF Release, Identity, KnowsItsPeer
    <2>2. UNCHANGED given /\ (UNCHANGED peer \/ SamePins)
      BY <1>7, <2>1, ReleaseRows DEF Release
    <2> QED
      BY <1>k, <1>u, <2>2 DEF SamePins
  <1>8. ASSUME NEW p \in PeerId, LeaseLapses(p) PROVE Trusted'
    <2>1. \A q \in PeerId : peer'[q].trusted = peer[q].trusted
      BY <1>8, <1>t DEF LeaseLapses, PeerRow
    <2> QED
      BY <1>8, <1>k, <2>1 DEF LeaseLapses
  <1>9. ASSUME \/ \E b \in Bridge, h \in HostId : Hello(b, h)
               \/ \E b \in Bridge : ServeKnown(b) \/ Die(b) \/ ClaimCheck(b) \/ ClaimNothing(b)
               \/ \E b \in Bridge, m \in Outbound : ClaimOut(b, m)
               \/ \E b \in Bridge, m \in Outbound,
                     state \in {"delivered", "consumed", "undeliverable"} : Settle(b, m, state)
               \/ \E b \in Bridge, r \in Remote : IngestProxy(b, r)
               \/ \E b \in Bridge, m \in Inbound : IngestInsert(b, m)
               \/ \E s \in Sender, l \in Label \cup ShortLabel, r \in Remote : Address(s, l, r)
               \/ \E s \in Sender, m \in Outbound : SendOut(s, m)
               \/ \E m \in Inbound : Receive(m)
               \/ UNCHANGED vars
        PROVE  UNCHANGED <<peer, given>>
    BY <1>9 DEF Hello, ServeKnown, Die, ClaimCheck, ClaimNothing, ClaimOut, Settle, IngestProxy,
                IngestInsert, Address, SendOut, Receive, vars
  <1> QED
    BY <1>u, <1>1, <1>2, <1>4, <1>5, <1>6, <1>7, <1>8, <1>9 DEF Next, CheckFails

\* What was retired stays so and gets nothing: a lease needs a known peer, a
\* proxy is rebound with its lease, and mail is sent to peers not retired.
LEMMA RetiredStep ==
    ASSUME TypeOK, Addressed, Addressed', RetiredHoldsNothing, PeerMoves, LeaseMoves,
           DOMAIN proxy \subseteq DOMAIN proxy',
           \A m \in Outbound : Stays(m) \/ Returns(m) \/ Sent(m) \/ Taken(m)
    PROVE  RetiredHoldsNothing'
  <1>t. peer \in [PeerId -> PeerRow] /\ \A x \in DOMAIN proxy : x[1] \in PeerId
    BY DEF TypeOK, Proxy
  <1>a. ASSUME NEW m \in Outbound, out'[m].state \in Pending
        PROVE  out'[m].to \in DOMAIN proxy'
    BY <1>a DEF Addressed, Pending
  <1>1. ASSUME NEW p \in PeerId, peer[p].retired, peer'[p] = peer[p]
        PROVE  \A m \in Outbound : out'[m].state \in Pending => out'[m].to[1] # p
    <2> SUFFICES ASSUME NEW m \in Outbound, out'[m].state \in Pending
                 PROVE  out'[m].to[1] # p
      OBVIOUS
    <2>1. out[m].state \in Pending => out[m].to[1] # p
      BY <1>1 DEF RetiredHoldsNothing
    <2>2. CASE Stays(m)
      BY <2>1, <2>2 DEF Stays
    <2>3. CASE Returns(m)
      BY <2>1, <2>3 DEF Returns
    <2>4. CASE Sent(m)
      BY <1>1, <2>4 DEF Sent
    <2>5. CASE Taken(m)
      BY <2>1, <2>5 DEF Taken, Pending
    <2> QED
      BY <2>2, <2>3, <2>4, <2>5
  <1>2. ASSUME NEW p \in PeerId, peer[p].retired, peer'[p].retired
        PROVE  \A x \in ProxiesOf(p)' : proxy'[x] = None
    <2>0. \A x \in DOMAIN proxy : x[1] = p => proxy[x] = None
      BY <1>2 DEF RetiredHoldsNothing, ProxiesOf
    <2>1. CASE UNCHANGED proxy
      BY <2>0, <2>1 DEF ProxiesOf
    <2>2. ASSUME NEW q \in PeerId, NEW i \in Bridge \cup {None}, Rebinds(q, i)
          PROVE  \A x \in ProxiesOf(p)' : proxy'[x] = None
      BY <1>2, <2>0, <2>2 DEF Rebinds, Repointed, ProxiesOf
    <2>3. CASE AddsProxy
      BY <1>2, <2>0, <2>3 DEF AddsProxy, ProxiesOf, Known
    <2> QED
      BY <2>1, <2>2, <2>3 DEF LeaseMoves
  <1>3. ASSUME NEW p \in PeerId, ~peer[p].retired, peer'[p].retired
        PROVE  \A x \in ProxiesOf(p)' : proxy'[x] = None
    <2>1. ~KeepsLease(p)
      BY <1>3 DEF KeepsLease
    <2>2. ~AddsProxy
      BY <1>3 DEF AddsProxy
    <2>3. PICK q \in PeerId, i \in Bridge \cup {None} : Rebinds(q, i)
      BY <2>1, <2>2 DEF LeaseMoves
    <2>4. q = p /\ i = None
      BY <1>3, <2>1, <2>3 DEF Rebinds
    <2> QED
      BY <2>3, <2>4 DEF Rebinds, Repointed, ProxiesOf
  <1>4. ASSUME NEW p \in PeerId, peer'[p].retired, ~peer[p].retired
        PROVE  /\ peer'[p].owner = None /\ ~peer'[p].live /\ ~peer'[p].trusted
               /\ \A m \in Outbound : out'[m].state \in Pending => out'[m].to[1] # p
    <2>1. ~SameNames
      BY <1>4 DEF SameNames
    <2>2. ~OnePinned
      BY <1>4, RowFields DEF OnePinned
    <2>3. PICK q \in PeerId :
            /\ Known(q) /\ peer'[q] = RetiredRow(peer[q].host)
            /\ \A r \in PeerId : r # q => peer'[r] = peer[r]
            /\ \A m \in Outbound : out'[m].state \in Pending => out'[m].to \notin ProxiesOf(q)
      BY <2>1, <2>2 DEF PeerMoves, OneRetired
    <2>4. q = p
      BY <1>4, <2>3
    <2>5. peer[p].host \in HostId
      BY <1>t, <2>3, <2>4 DEF Known, PeerRow
    <2>6. /\ RetiredRow(peer[p].host).owner = None /\ ~RetiredRow(peer[p].host).live
          /\ ~RetiredRow(peer[p].host).trusted
      BY <2>5, RowFields
    <2>7. ASSUME NEW m \in Outbound, out'[m].state \in Pending
          PROVE  out'[m].to[1] # p
      <3>1. UNCHANGED DOMAIN proxy
        <4>1. ~KeepsLease(p) /\ ~AddsProxy
          BY <1>4 DEF KeepsLease, AddsProxy
        <4> QED
          BY <4>1 DEF LeaseMoves, Rebinds, Repointed
      <3> QED
        BY <1>a, <2>3, <2>4, <2>7, <3>1 DEF ProxiesOf
    <2> QED
      BY <2>3, <2>4, <2>6, <2>7
  <1>5. ASSUME NEW p \in PeerId, peer'[p].retired, peer[p].retired
        PROVE  peer'[p] = peer[p]
    <2>1. ~Known(p)
      BY <1>5 DEF Known
    <2>2. CASE OnePinned
      BY <1>5, <2>2, RowFields DEF OnePinned
    <2>3. CASE SameNames
      BY <2>1, <2>3 DEF SameNames
    <2>4. CASE OneRetired
      BY <2>1, <2>4 DEF OneRetired
    <2> QED
      BY <2>2, <2>3, <2>4 DEF PeerMoves
  <1>6. ASSUME NEW p \in PeerId, peer'[p].retired
        PROVE  /\ peer'[p].owner = None /\ ~peer'[p].live /\ ~peer'[p].trusted
               /\ \A x \in ProxiesOf(p)' : proxy'[x] = None
               /\ \A m \in Outbound : out'[m].state \in Pending => out'[m].to[1] # p
    <2>1. CASE peer[p].retired
      BY <1>1, <1>2, <1>5, <1>6, <2>1 DEF RetiredHoldsNothing
    <2>2. CASE ~peer[p].retired
      BY <1>3, <1>4, <1>6, <2>2
    <2> QED
      BY <2>1, <2>2
  <1> QED
    BY <1>6 DEF RetiredHoldsNothing

-----------------------------------------------------------------------------
(***************************************************************************)
(* The theorems                                                             *)
(***************************************************************************)

LEMMA SoundInit == Init => Sound
  <1> SUFFICES ASSUME Init PROVE Sound
    OBVIOUS
  <1> USE DEF Init
  <1>r. NoPeer \in PeerRow /\ NoPeer.host = None /\ ~NoPeer.retired /\ ~NoPeer.trusted
        /\ NoPeer.label = None
    BY DEF NoPeer, PeerRow
  <1>p. \A p \in PeerId : peer[p] = NoPeer /\ ~Known(p)
    BY <1>r DEF Known
  <1>1. TypeOK
    <2>1. DOMAIN proxy = {} /\ Cardinality(DOMAIN proxy) = 0
      BY FS_EmptySet
    <2>2. DOMAIN proxy \subseteq Proxy /\ Cardinality(DOMAIN proxy) =< MaxProxies
      BY <2>1, PeersAssumption
    <2>3. out \in [Outbound -> OutRow]
      BY DEF OutRow, OutState
    <2>4. inbox \in [Inbound -> InRow]
      BY DEF InRow, InState
    <2>5. sess \in [Bridge -> SessionState]
      BY DEF SessionState, Pc
    <2>6. draft \in [Sender -> Proxy \cup {None}] /\ given \subseteq HostId
      OBVIOUS
    <2>7. \A p \in PeerId : Known(p) <=> peer[p].label # None
      BY <1>r, <1>p
    <2> QED
      BY <1>r, <2>1, <2>2, <2>3, <2>4, <2>5, <2>6, <2>7 DEF TypeOK
  <1>2. Pinned
    BY <1>p DEF Pinned
  <1>3. Identity
    BY DEF Identity, KnowsItsPeer
  <1>4. Addressed
    BY DEF Addressed
  <1>5. Claims
    BY DEF Claims
  <1>6. Trusted
    BY <1>r DEF Trusted
  <1>7. RetiredHoldsNothing
    BY <1>r DEF RetiredHoldsNothing
  <1>8. ProxiesFollowTheLease
    BY DEF ProxiesFollowTheLease
  <1> QED
    BY <1>1, <1>2, <1>3, <1>4, <1>5, <1>6, <1>7, <1>8 DEF Sound

LEMMA SoundStep == Sound /\ [Next]_vars => Sound'
  <1> SUFFICES ASSUME Sound, [Next]_vars PROVE Sound'
    OBVIOUS
  <1> USE DEF Sound
  <1>1. TypeOK'
    BY TypeStep
  <1>2. PeerMoves
    BY PeerStep
  <1>3. Pinned' /\ HostsKept
    BY <1>2, PinnedStep
  <1>4. Identity' /\ SessionsKeep
    BY <1>3, IdentityStep
  <1>5. LeaseMoves
    BY LeaseStep
  <1>6. ProxiesFollowTheLease' /\ DOMAIN proxy \subseteq DOMAIN proxy'
    BY <1>5, FollowsStep
  <1>7. \A m \in Outbound : Stays(m) \/ Returns(m) \/ Sent(m) \/ Taken(m)
    BY MailStep
  <1>8. Addressed'
    BY <1>6, <1>7, AddressedStep
  <1>9. Claims'
    BY <1>3, <1>4, <1>7, ClaimsStep
  <1>10. Trusted'
    BY <1>2, TrustedStep
  <1>11. RetiredHoldsNothing'
    BY <1>2, <1>5, <1>6, <1>7, <1>8, RetiredStep
  <1> QED
    BY <1>1, <1>3, <1>4, <1>6, <1>8, <1>9, <1>10, <1>11

LEMMA PeersSound == Spec => []Sound
  BY SoundInit, SoundStep, PTL DEF Spec

\* Whoever dials, serves, pins, trusts or forgets in whatever order, mail for a
\* peer is only ever claimed by a bridge connected to the host the peer was
\* pinned to, and only hosts the operator trusted are trusted (pin_peer,
\* identify, set_peer_trust, claim_outbound).
THEOREM NobodyInherits == Spec => []NothingIsInherited
  <1>1. Sound => NothingIsInherited
    BY DEF Sound, Claims, Trusted, NothingIsInherited
  <1> QED
    BY <1>1, PeersSound, PTL

\* retire_peer is final: whatever bridges and senders had read before it, a
\* retired peer has no lease, no trust, no bound proxy and no waiting mail.
THEOREM RetirementIsFinal == Spec => []RetiredHoldsNothing
  <1>1. Sound => RetiredHoldsNothing
    BY DEF Sound
  <1> QED
    BY <1>1, PeersSound, PTL

\* acquire_peer_lease, release_peer_lease, ensure_proxy and retire_peer leave
\* every proxy bound to the recorded owner of its peer's lease or to nobody.
THEOREM LeasesLeadProxies == Spec => []ProxiesFollowTheLease
  <1>1. Sound => ProxiesFollowTheLease
    BY DEF Sound
  <1> QED
    BY <1>1, PeersSound, PTL

\* Rows, claims and sessions keep their types, and there are never more proxies
\* than ensure_proxy has room for.
THEOREM PeersTyped == Spec => []TypeOK
  <1>1. Sound => TypeOK
    BY DEF Sound
  <1> QED
    BY <1>1, PeersSound, PTL
=============================================================================
