--------------------------- MODULE MailboxProofs ----------------------------
(***************************************************************************)
(* What holds of the store for every number of endpoints, processes,        *)
(* messages and keys, and for every policy, quota and lease.                *)
(*                                                                          *)
(* The invariant Sound types the tables and the operations in progress.     *)
(* StepEffect says what a step may do to the tables of mail, Fate what it    *)
(* may do to one message and Comes what it may do to one process; the       *)
(* guarantees follow from these three.                                      *)
(***************************************************************************)
EXTENDS Mailbox, FiniteSetTheorems, TLAPS

\* An operation in progress belongs to an authenticated process, and one that
\* answers a request still finds the request it looked up, addressed to it.
OperationsSound ==
    \A p \in Proc :
        /\ op[p] # Idle => caller[p] # None
        /\ op[p].pc \in {"respond", "retire"} =>
                /\ Exists(op[p].request)
                /\ message[op[p].request].kind = "request"
                /\ message[op[p].request].to = caller[p].ep

Sound == TypeOK /\ OperationsSound

-----------------------------------------------------------------------------
(***************************************************************************)
(* Rows and operations                                                      *)
(***************************************************************************)

\* A row that exists is a message; one that does not is NoMessage.
LEMMA RowType ==
    ASSUME TypeOK, NEW m \in MsgId
    PROVE  /\ Exists(m) <=> message[m] \in Message
           /\ ~Exists(m) <=> message[m] = NoMessage
           /\ message[m].state \in Pending \cup Terminal => Exists(m)
  <1>1. \A r \in Message : r.state # "absent"
    BY DEF Message, Pending, Terminal
  <1>2. NoMessage.state = "absent"
    BY DEF NoMessage
  <1>3. message[m] \in Message \/ message[m] = NoMessage
    BY DEF TypeOK
  <1> QED
    BY <1>1, <1>2, <1>3 DEF Exists, Pending, Terminal

\* The columns of a message have their types.
LEMMA Columns ==
    ASSUME NEW r \in Message
    PROVE  /\ r.state \in Pending \cup Terminal
           /\ r.to \in Endpoint /\ r.from \in Endpoint
           /\ r.from_incarnation \in Owner
           /\ r.kind \in {"request", "notice", "response"}
           /\ r.reply_to \in MsgId \cup {None}
           /\ r.body \in Body /\ r.sequence \in Nat /\ r.created_at \in Nat
           /\ r.expires_at \in Nat \cup {None}
           /\ r.claim_owner \in Owner \cup {None}
           /\ r.claim_expires_at \in Nat \cup {None}
  BY DEF Message

\* Columns that no transaction writes after the insert.
SameMail(r, s) ==
    /\ s.to = r.to /\ s.from = r.from /\ s.from_incarnation = r.from_incarnation
    /\ s.kind = r.kind /\ s.reply_to = r.reply_to /\ s.body = r.body
    /\ s.sequence = r.sequence /\ s.created_at = r.created_at
    /\ s.expires_at = r.expires_at

\* The three ways to write the state and claim columns leave a message a
\* message.
LEMMA SettledRow ==
    ASSUME NEW r \in Message, NEW s \in Pending \cup Terminal
    PROVE  /\ Settled(r, s) \in Message
           /\ Settled(r, s).state = s
           /\ SameMail(r, Settled(r, s))
           /\ Settled(r, s).claim_owner = None
           /\ Settled(r, s).claim_expires_at = None
  BY DEF Message, SameMail, Settled

LEMMA RequeuedRow ==
    ASSUME NEW r \in Message
    PROVE  /\ Requeued(r) \in Message
           /\ Requeued(r).state = "queued"
           /\ SameMail(r, Requeued(r))
           /\ Requeued(r).claim_owner = None
           /\ Requeued(r).claim_expires_at = None
  BY DEF Message, SameMail, Requeued, Pending

LEMMA StateWritten ==
    ASSUME NEW r \in Message, NEW s \in Pending \cup Terminal
    PROVE  /\ [r EXCEPT !.state = s] \in Message
           /\ [r EXCEPT !.state = s].state = s
           /\ SameMail(r, [r EXCEPT !.state = s])
           /\ [r EXCEPT !.state = s].claim_owner = r.claim_owner
           /\ [r EXCEPT !.state = s].claim_expires_at = r.claim_expires_at
  BY DEF Message, SameMail

\* The program counter of an operation tells its shape.
LEMMA OpShape ==
    ASSUME NEW o \in Op
    PROVE  /\ o.pc = "idle" <=> o = Idle
           /\ o.pc = "claim" => o.at \in Nat
           /\ o.pc = "respond" => o.request \in MsgId /\ o.body \in Body /\ o.key \in Key
           /\ o.pc \in {"retire", "cancel", "interrupt", "abort", "confirm"}
                    => o.request \in MsgId
           /\ o.pc \in {"abort", "confirm"} => o.target \in Owner
  BY DEF Op, Idle

\* The columns of an endpoint row that send writes.
Counters(r, s, n, b) ==
    [r EXCEPT !.next_sequence = s, !.pending_count = n, !.pending_bytes = b]

LEMMA CountersWritten ==
    ASSUME NEW r \in EndpointRow, NEW s \in Nat, NEW n \in Nat, NEW b \in Nat
    PROVE  /\ Counters(r, s, n, b) \in EndpointRow
           /\ Counters(r, s, n, b).registered = r.registered
           /\ Counters(r, s, n, b).incarnation = r.incarnation
           /\ Counters(r, s, n, b).next_sequence = s
           /\ Counters(r, s, n, b).pending_count = n
           /\ Counters(r, s, n, b).pending_bytes = b
  BY DEF EndpointRow, Counters

\* A table of messages, as the transactions compute it.
Table == [MsgId -> Message \cup {NoMessage}]

\* The bytes of one message.
BytesOf(msgs, m) == {m} \X (1 .. Bytes[msgs[m].body])

\* One message contributes its charged bytes.
LEMMA BytesOfOne ==
    ASSUME NEW msgs, NEW m, msgs[m].body \in Body
    PROVE  /\ IsFiniteSet(BytesOf(msgs, m))
           /\ Cardinality(BytesOf(msgs, m)) = Bytes[msgs[m].body]
  <1> DEFINE n == Bytes[msgs[m].body]
  <1>1. n \in Nat
    BY BoundsAssumption
  <1> HIDE DEF n
  <1>2. IsFiniteSet(1 .. n) /\ Cardinality(1 .. n) = n
    <2>1. /\ IsFiniteSet(1 .. n)
          /\ Cardinality(1 .. n) = IF 1 > n THEN 0 ELSE n - 1 + 1
      BY <1>1, 1 \in Int, n \in Int, FS_Interval
    <2> QED
      BY <1>1, <2>1
  <1>3. IsFiniteSet({m}) /\ Cardinality({m}) = 1
    BY FS_Singleton
  <1>4. /\ IsFiniteSet({m} \X (1 .. n))
        /\ Cardinality({m} \X (1 .. n)) = 1 * n
    <2>1. /\ IsFiniteSet({m} \X (1 .. n))
          /\ Cardinality({m} \X (1 .. n)) = Cardinality({m}) * Cardinality(1 .. n)
      BY <1>2, <1>3, FS_Product, Zenon
    <2> QED
      BY <1>2, <1>3, <2>1, Zenon
  <1>5. 1 * n = n
    BY <1>1
  <1> QED
    BY <1>4, <1>5 DEF BytesOf, n

\* The bytes of a mailbox are finite in number.
LEMMA BytesFinite ==
    ASSUME NEW msgs, NEW S \in SUBSET MsgId, \A m \in S : msgs[m].body \in Body
    PROVE  IsFiniteSet(ByteUnits(msgs, S))
  <1> DEFINE T == {BytesOf(msgs, m) : m \in S}
             f == [m \in S |-> BytesOf(msgs, m)]
  <1>1. IsFiniteSet(S)
    BY MsgIdFinite, FS_Subset
  <1>2. f \in Surjection(S, T)
    BY DEF Surjection
  <1>3. IsFiniteSet(T)
    BY <1>1, <1>2, FS_Surjection
  <1>4. \A x \in T : IsFiniteSet(x)
    BY BytesOfOne
  <1>5. ByteUnits(msgs, S) = UNION T
    BY DEF ByteUnits, BytesOf
  <1> QED
    BY <1>3, <1>4, <1>5, FS_UNION

\* What a table charges to an endpoint can be counted.
LEMMA ChargedFinite ==
    ASSUME NEW msgs \in Table, NEW e
    PROVE  /\ Charged(msgs, e) \in SUBSET MsgId
           /\ IsFiniteSet(Charged(msgs, e))
           /\ \A m \in Charged(msgs, e) : msgs[m] \in Message /\ msgs[m].body \in Body
           /\ Cardinality(Charged(msgs, e)) \in Nat
           /\ IsFiniteSet(ByteUnits(msgs, Charged(msgs, e)))
           /\ Cardinality(ByteUnits(msgs, Charged(msgs, e))) \in Nat
  <1>1. Charged(msgs, e) \in SUBSET MsgId
    BY DEF Charged
  <1>2. IsFiniteSet(Charged(msgs, e))
    BY <1>1, MsgIdFinite, FS_Subset
  <1>3. \A m \in Charged(msgs, e) : msgs[m] \in Message /\ msgs[m].body \in Body
    <2> SUFFICES ASSUME NEW m \in Charged(msgs, e)
                 PROVE  msgs[m] \in Message
      BY Columns
    <2>1. msgs[m] # NoMessage
      BY DEF Charged, NoMessage, Pending
    <2> QED
      BY <2>1, <1>1 DEF Table
  <1>4. IsFiniteSet(ByteUnits(msgs, Charged(msgs, e)))
    BY <1>1, <1>3, BytesFinite
  <1> QED
    BY <1>1, <1>2, <1>3, <1>4, FS_CardinalityType

\* recount writes numbers, and only into the two counters.
LEMMA RecountType ==
    ASSUME NEW eps \in [Endpoint -> EndpointRow], NEW msgs \in Table, NEW E
    PROVE  /\ Recount(eps, msgs, E) \in [Endpoint -> EndpointRow]
           /\ \A e \in Endpoint :
                /\ Recount(eps, msgs, E)[e].registered = eps[e].registered
                /\ Recount(eps, msgs, E)[e].incarnation = eps[e].incarnation
                /\ Recount(eps, msgs, E)[e].next_sequence = eps[e].next_sequence
                /\ e \in E =>
                    /\ Recount(eps, msgs, E)[e].pending_count
                            = Cardinality(Charged(msgs, e))
                    /\ Recount(eps, msgs, E)[e].pending_bytes
                            = Cardinality(ByteUnits(msgs, Charged(msgs, e)))
                /\ e \notin E => Recount(eps, msgs, E)[e] = eps[e]
  <1> DEFINE count(e) == Cardinality(Charged(msgs, e))
             bytes(e) == Cardinality(ByteUnits(msgs, Charged(msgs, e)))
             new == Recount(eps, msgs, E)
  <1> SUFFICES ASSUME NEW e \in Endpoint
               PROVE  /\ new[e] \in EndpointRow
                      /\ new[e].registered = eps[e].registered
                      /\ new[e].incarnation = eps[e].incarnation
                      /\ new[e].next_sequence = eps[e].next_sequence
                      /\ e \in E => /\ new[e].pending_count = count(e)
                                    /\ new[e].pending_bytes = bytes(e)
                      /\ e \notin E => new[e] = eps[e]
    BY DEF Recount
  <1>1. count(e) \in Nat /\ bytes(e) \in Nat
    BY ChargedFinite
  <1>2. new[e] = IF e \in E
                 THEN [eps[e] EXCEPT !.pending_count = count(e), !.pending_bytes = bytes(e)]
                 ELSE eps[e]
    BY DEF Recount
  <1> HIDE DEF count, bytes, new
  <1> QED
    BY <1>1, <1>2 DEF EndpointRow

-----------------------------------------------------------------------------
(***************************************************************************)
(* What a transaction does to the message table: it rewrites the state and  *)
(* the claim of messages that are pending, or it inserts one message.       *)
(***************************************************************************)
RewritesRow(m) ==
    \/ message'[m] = message[m]
    \/ /\ message[m] \in Message /\ message[m].state \in Pending
       /\ message'[m] \in Message /\ SameMail(message[m], message'[m])

Rewrites ==
    /\ message' \in Table
    /\ \A m \in MsgId : RewritesRow(m)
    /\ idempotency' = idempotency
    /\ \A e \in Endpoint : endpoint'[e].next_sequence = endpoint[e].next_sequence

Inserts(c, d, t) ==
    /\ \E m \in MsgId : ~Exists(m)
    /\ (d.kind = "response") <=> (d.reply_to # None)
    /\ Admissible(c, d, t)
    /\ Insert(c, d, t)

\* An id is free for the message that send inserts.
LEMMA FreshId ==
    ASSUME \E m \in MsgId : ~Exists(m)
    PROVE  FreshMessage \in MsgId /\ ~Exists(FreshMessage)
  BY DEF FreshMessage

LEMMA FreshOwner ==
    ASSUME minted \in SUBSET Incarnation, minted # Incarnation
    PROVE  FreshIncarnation \in Incarnation
  BY DEF FreshIncarnation

\* Taking lapsed claims back (the first statement of claim and of sweep).
LEMMA ReclaimedRows ==
    ASSUME TypeOK, NEW t \in Nat
    PROVE  /\ Reclaimed(t) \in Table
           /\ \A m \in MsgId :
                /\ Reclaimed(t)[m] \in Message <=> Exists(m)
                /\ SameMail(message[m], Reclaimed(t)[m])
                /\ \/ Reclaimed(t)[m] = message[m]
                   \/ /\ message[m].state = "claimed"
                      /\ message[m].claim_expires_at =< t
                      /\ Reclaimed(t)[m].state = "queued"
                      /\ Reclaimed(t)[m].claim_owner = None
                      /\ Reclaimed(t)[m].claim_expires_at = None
  <1> SUFFICES ASSUME NEW m \in MsgId
               PROVE  /\ Reclaimed(t)[m] \in Message \cup {NoMessage}
                      /\ Reclaimed(t)[m] \in Message <=> Exists(m)
                      /\ SameMail(message[m], Reclaimed(t)[m])
                      /\ \/ Reclaimed(t)[m] = message[m]
                         \/ /\ message[m].state = "claimed"
                            /\ message[m].claim_expires_at =< t
                            /\ Reclaimed(t)[m].state = "queued"
                            /\ Reclaimed(t)[m].claim_owner = None
                            /\ Reclaimed(t)[m].claim_expires_at = None
    BY DEF Table, Reclaimed
  <1>1. Reclaimed(t)[m] = IF LeaseLapsed(message[m], t) THEN Requeued(message[m])
                          ELSE message[m]
    BY DEF Reclaimed
  <1>2. CASE LeaseLapsed(message[m], t)
    <2>1. message[m] \in Message /\ Exists(m)
      BY <1>2, RowType DEF LeaseLapsed, Pending
    <2> QED
      BY <1>1, <1>2, <2>1, RequeuedRow DEF LeaseLapsed
  <1>3. CASE ~LeaseLapsed(message[m], t)
    BY <1>1, <1>3, RowType DEF TypeOK, SameMail
  <1> QED
    BY <1>2, <1>3

\* The endpoint row of the recipient after send.
InsertedInto(d) ==
    Counters(endpoint[d.to], endpoint[d.to].next_sequence + 1,
             endpoint[d.to].pending_count + 1,
             endpoint[d.to].pending_bytes + Bytes[d.body])

\* send inserts a well-typed row and leaves well-typed counters.
LEMMA InsertType ==
    ASSUME TypeOK, NEW c \in Caller, NEW d \in Draft, NEW t \in Nat,
           Inserts(c, d, t)
    PROVE  /\ FreshMessage \in MsgId /\ ~Exists(FreshMessage)
           /\ Row(c, d, t) \in Message
           /\ message' = [message EXCEPT ![FreshMessage] = Row(c, d, t)]
           /\ message' \in Table
           /\ endpoint' = [endpoint EXCEPT ![d.to] = InsertedInto(d)]
           /\ endpoint' \in [Endpoint -> EndpointRow]
           /\ idempotency' = [idempotency EXCEPT ![<<c.ep, d.key>>] = FreshMessage]
           /\ idempotency' \in [Endpoint \X Key -> MsgId \cup {None}]
  <1>1. FreshMessage \in MsgId /\ ~Exists(FreshMessage)
    BY FreshId DEF Inserts
  <1>2. /\ d.to \in Endpoint /\ d.key \in Key /\ d.body \in Body
        /\ d.kind \in {"request", "notice", "response"}
        /\ d.reply_to \in MsgId \cup {None}
        /\ d.lifetime \in Nat \cup {None}
    BY DEF Draft
  <1>3. c.ep \in Endpoint /\ c.inc \in Owner
    BY DEF Caller
  <1>4. /\ endpoint[d.to] \in EndpointRow /\ Bytes[d.body] \in Nat
        /\ endpoint[d.to].next_sequence \in Nat
        /\ endpoint[d.to].pending_count \in Nat
        /\ endpoint[d.to].pending_bytes \in Nat
    BY <1>2, BoundsAssumption DEF TypeOK, EndpointRow
  <1>5. Deadline(d, t) \in Nat \cup {None}
    BY <1>2, <1>4, BoundsAssumption DEF Deadline
  <1>6. Row(c, d, t) \in Message
    BY <1>2, <1>3, <1>4, <1>5 DEF Row, Message, Pending
  <1>7. /\ message' = [message EXCEPT ![FreshMessage] = Row(c, d, t)]
        /\ message' \in Table
    BY <1>1, <1>6 DEF Inserts, Insert, Table, TypeOK
  <1>8. endpoint' = [endpoint EXCEPT ![d.to] = InsertedInto(d)]
    BY <1>2 DEF Inserts, Insert, TypeOK, InsertedInto, Counters
  <1>9. InsertedInto(d) \in EndpointRow
    <2>1. /\ endpoint[d.to].next_sequence + 1 \in Nat
          /\ endpoint[d.to].pending_count + 1 \in Nat
          /\ endpoint[d.to].pending_bytes + Bytes[d.body] \in Nat
      BY <1>4
    <2> QED
      BY <1>4, <2>1, CountersWritten, Zenon DEF InsertedInto
  <1>10. endpoint' \in [Endpoint -> EndpointRow]
    BY <1>8, <1>9 DEF TypeOK
  <1>11. /\ idempotency' = [idempotency EXCEPT ![<<c.ep, d.key>>] = FreshMessage]
         /\ idempotency' \in [Endpoint \X Key -> MsgId \cup {None}]
    BY <1>1, <1>2, <1>3 DEF Inserts, Insert, TypeOK
  <1> QED
    BY <1>1, <1>6, <1>7, <1>8, <1>10, <1>11

\* The rows an insertion writes.
InsertsRow(c, d, t) ==
    /\ message' = [message EXCEPT ![FreshMessage] = Row(c, d, t)]
    /\ endpoint' = [endpoint EXCEPT ![d.to] = InsertedInto(d)]
    /\ idempotency' = [idempotency EXCEPT ![<<c.ep, d.key>>] = FreshMessage]

\* The same in a sound state, with the types of what it writes to.
LEMMA InsertFacts ==
    ASSUME Sound, NEW c \in Caller, NEW d \in Draft, NEW t \in Nat,
           Inserts(c, d, t)
    PROVE  /\ FreshMessage \in MsgId /\ ~Exists(FreshMessage)
           /\ Row(c, d, t) \in Message
           /\ message \in Table /\ message' \in Table
           /\ InsertsRow(c, d, t)
           /\ endpoint' \in [Endpoint -> EndpointRow]
           /\ idempotency \in [Endpoint \X Key -> MsgId \cup {None}]
           /\ idempotency' \in [Endpoint \X Key -> MsgId \cup {None}]
  <1>1. TypeOK
    BY DEF Sound
  <1>2. message \in Table /\ idempotency \in [Endpoint \X Key -> MsgId \cup {None}]
    BY <1>1 DEF TypeOK, Table
  <1> QED
    BY <1>1, <1>2, InsertType DEF InsertsRow

StepEffect == Rewrites \/ \E c \in Caller, d \in Draft, t \in Nat : Inserts(c, d, t)

\* A step that leaves both tables of mail alone.
LEMMA QuietStep ==
    ASSUME TypeOK, UNCHANGED <<message, idempotency>>,
           \A e \in Endpoint : endpoint'[e].next_sequence = endpoint[e].next_sequence
    PROVE  Rewrites
  BY DEF Rewrites, RewritesRow, Table, TypeOK

\* A step that settles one pending message and recounts, as respond, cancel
\* and confirm_interrupt do.
LEMMA WriteOne ==
    ASSUME TypeOK, NEW m \in MsgId, message[m].state \in Pending, NEW row \in Message,
           SameMail(message[m], row), message' = [message EXCEPT ![m] = row],
           \/ \E E : endpoint' = Recount(endpoint, message', E)
           \/ endpoint' = endpoint,
           UNCHANGED idempotency
    PROVE  /\ Rewrites
           /\ endpoint' \in [Endpoint -> EndpointRow]
           /\ \A e \in Endpoint : endpoint'[e].incarnation = endpoint[e].incarnation
  <1>1. message[m] \in Message
    BY RowType
  <1>2. message' \in Table
    BY DEF TypeOK, Table
  <1>3. \A n \in MsgId : RewritesRow(n)
    BY <1>1 DEF RewritesRow, TypeOK
  <1>4. /\ endpoint' \in [Endpoint -> EndpointRow]
        /\ \A e \in Endpoint :
            /\ endpoint'[e].next_sequence = endpoint[e].next_sequence
            /\ endpoint'[e].incarnation = endpoint[e].incarnation
    BY <1>2, RecountType DEF TypeOK
  <1> QED
    BY <1>2, <1>3, <1>4 DEF Rewrites

\* bind and ensure_local_user write the binding of a row and nothing else.
Rebinds(new, old, e, i) ==
    new = [old EXCEPT ![e].registered = TRUE, ![e].incarnation = i]

LEMMA BindingWritten ==
    ASSUME NEW old \in [Endpoint -> EndpointRow], NEW e \in Endpoint,
           NEW i \in Owner \cup {None}, NEW new, Rebinds(new, old, e, i)
    PROVE  /\ new \in [Endpoint -> EndpointRow]
           /\ \A x \in Endpoint : /\ new[x].next_sequence = old[x].next_sequence
                                  /\ new[x].pending_count = old[x].pending_count
                                  /\ new[x].pending_bytes = old[x].pending_bytes
  <1> DEFINE row == [old[e] EXCEPT !.registered = TRUE, !.incarnation = i]
  <1>1. old[e] \in EndpointRow
    OBVIOUS
  <1>2. /\ row \in EndpointRow
        /\ row.next_sequence = old[e].next_sequence
        /\ row.pending_count = old[e].pending_count
        /\ row.pending_bytes = old[e].pending_bytes
    BY <1>1 DEF EndpointRow
  <1>3. new = [old EXCEPT ![e] = row]
    BY DEF Rebinds
  <1> HIDE DEF row
  <1> QED
    BY <1>2, <1>3

\* unbind clears the incarnation of a row and nothing else.
Unbinds(new, old, e) == new = [old EXCEPT ![e].incarnation = None]

LEMMA BindingCleared ==
    ASSUME NEW old \in [Endpoint -> EndpointRow], NEW e \in Endpoint, NEW new,
           Unbinds(new, old, e)
    PROVE  /\ new \in [Endpoint -> EndpointRow]
           /\ \A x \in Endpoint : /\ new[x].next_sequence = old[x].next_sequence
                                  /\ new[x].pending_count = old[x].pending_count
                                  /\ new[x].pending_bytes = old[x].pending_bytes
  <1> DEFINE row == [old[e] EXCEPT !.incarnation = None]
  <1>1. old[e] \in EndpointRow
    OBVIOUS
  <1>2. /\ row \in EndpointRow
        /\ row.next_sequence = old[e].next_sequence
        /\ row.pending_count = old[e].pending_count
        /\ row.pending_bytes = old[e].pending_bytes
    BY <1>1 DEF EndpointRow
  <1>3. new = [old EXCEPT ![e] = row]
    BY DEF Unbinds
  <1> HIDE DEF row
  <1> QED
    BY <1>2, <1>3

\* bind, unbind, authenticate, ensure_local_user, process exit, set_policy.
LEMMA IdentitySteps ==
    ASSUME Sound,
           \/ \E e \in Endpoint : Bind(e)
           \/ \E e \in Endpoint, i \in Incarnation : Unbind(e, i)
           \/ \E p \in Proc : Authenticate(p) \/ LocalUser(p) \/ Exit(p)
           \/ \E e \in Endpoint, pol \in Policies : SetPolicy(e, pol)
    PROVE  TypeOK' /\ Rewrites
  <1> USE DEF Sound
  <1>1. ASSUME NEW e \in Endpoint, Bind(e)
        PROVE  TypeOK' /\ Rewrites
    <2>1. FreshIncarnation \in Incarnation
      BY <1>1, FreshOwner DEF Bind, TypeOK
    <2>2. /\ endpoint' \in [Endpoint -> EndpointRow]
          /\ \A x \in Endpoint : endpoint'[x].next_sequence = endpoint[x].next_sequence
      <3>1. /\ endpoint \in [Endpoint -> EndpointRow]
            /\ FreshIncarnation \in Owner \cup {None}
        BY <2>1 DEF TypeOK, Owner
      <3>2. Rebinds(endpoint', endpoint, e, FreshIncarnation)
        BY <1>1 DEF Bind, Rebinds
      <3> QED
        BY <3>1, <3>2, BindingWritten
    <2>3. Rewrites
      BY <1>1, <2>2, QuietStep DEF Bind
    <2> QED
      BY <1>1, <2>1, <2>2, <2>3 DEF Bind, TypeOK
  <1>2. ASSUME NEW e \in Endpoint, NEW i \in Incarnation, Unbind(e, i)
        PROVE  TypeOK' /\ Rewrites
    <2> DEFINE requeued(m) == /\ message[m].state = "claimed"
                              /\ message[m].to = e /\ message[m].claim_owner = i
    <2>1. \A m \in MsgId : message'[m] = IF requeued(m) THEN Requeued(message[m])
                                         ELSE message[m]
      BY <1>2 DEF Unbind
    <2>2. \A m \in MsgId : requeued(m) => message[m] \in Message
      BY RowType DEF Pending
    <2>3. message' \in Table
      BY <1>2, <2>2, RequeuedRow DEF Unbind, Table, TypeOK
    <2>4. \A m \in MsgId : RewritesRow(m)
      BY <2>1, <2>2, RequeuedRow DEF RewritesRow, Pending
    <2>5. /\ endpoint' \in [Endpoint -> EndpointRow]
          /\ \A x \in Endpoint : endpoint'[x].next_sequence = endpoint[x].next_sequence
      <3>1. /\ endpoint \in [Endpoint -> EndpointRow]
            /\ Unbinds(endpoint', endpoint, e)
        BY <1>2 DEF Unbind, TypeOK, Unbinds
      <3> QED
        BY <3>1, BindingCleared
    <2> QED
      BY <1>2, <2>3, <2>4, <2>5 DEF Unbind, TypeOK, Rewrites, Table
  <1>3. ASSUME NEW p \in Proc, Authenticate(p)
        PROVE  TypeOK' /\ Rewrites
    <2>1. Env[p] \in Endpoint
      BY BoundsAssumption
    <2>2. endpoint[Env[p]].incarnation \in Owner
      BY <1>3, <2>1 DEF Authenticate, TypeOK, EndpointRow
    <2>3. caller' \in [Proc -> Caller \cup {None}]
      BY <1>3, <2>1, <2>2 DEF Authenticate, TypeOK, Caller
    <2>4. Rewrites
      BY <1>3, QuietStep DEF Authenticate, storeVars
    <2> QED
      BY <1>3, <2>3, <2>4 DEF Authenticate, TypeOK, storeVars
  <1>4. ASSUME NEW p \in Proc, LocalUser(p)
        PROVE  TypeOK' /\ Rewrites
    <2>1. Env[p] \in Endpoint /\ Env[p] \in Owner
      BY <1>4, BoundsAssumption DEF LocalUser, Owner
    <2>2. caller' \in [Proc -> Caller \cup {None}]
      BY <1>4, <2>1 DEF LocalUser, TypeOK, Caller
    <2>3. /\ endpoint' \in [Endpoint -> EndpointRow]
          /\ \A x \in Endpoint : endpoint'[x].next_sequence = endpoint[x].next_sequence
      <3>1. Rebinds(endpoint', endpoint, Env[p], Env[p])
        BY <1>4 DEF LocalUser, Rebinds
      <3>2. /\ endpoint \in [Endpoint -> EndpointRow]
            /\ Env[p] \in Owner \cup {None}
        BY <2>1 DEF TypeOK
      <3> QED
        BY <2>1, <3>1, <3>2, BindingWritten
    <2>4. Rewrites
      BY <1>4, <2>3, QuietStep DEF LocalUser
    <2> QED
      BY <1>4, <2>2, <2>3, <2>4 DEF LocalUser, TypeOK
  <1>5. ASSUME NEW p \in Proc, Exit(p)
        PROVE  TypeOK' /\ Rewrites
    <2>1. Rewrites
      BY <1>5, QuietStep DEF Exit, storeVars
    <2> QED
      BY <1>5, <2>1 DEF Exit, TypeOK, storeVars, Op
  <1>6. ASSUME NEW e \in Endpoint, NEW pol \in Policies, SetPolicy(e, pol)
        PROVE  TypeOK' /\ Rewrites
    <2>1. Rewrites
      BY <1>6, QuietStep DEF SetPolicy
    <2> QED
      BY <1>6, <2>1 DEF SetPolicy, TypeOK
  <1> QED
    BY <1>1, <1>2, <1>3, <1>4, <1>5, <1>6

\* Every set of naturals that is not empty has a least element.
LEMMA LeastNatural ==
    ASSUME NEW T \in SUBSET Nat, T # {}
    PROVE  \E x \in T : \A y \in T : x =< y
  <1> DEFINE R == OpToRel(<, Nat)
  <1>1. IsWellFoundedOn(R, Nat)
    BY NatLessThanWellFounded
  <1>2. \E x \in T : \A y \in T : ~(<<y, x>> \in R)
    <2> HIDE DEF R
    <2> QED
      BY <1>1, WFMin
  <1>3. \A x, y \in Nat : <<y, x>> \notin R => x =< y
    BY DEF OpToRel
  <1> QED
    BY <1>2, <1>3

\* A mailbox with something to claim has an oldest message.
LEMMA OldestIsThere ==
    ASSUME TypeOK, NEW S \in SUBSET MsgId, S # {}, \A m \in S : Exists(m)
    PROVE  /\ Oldest(S) \in S
           /\ \A n \in S : message[Oldest(S)].sequence =< message[n].sequence
  <1> DEFINE T == {message[m].sequence : m \in S}
  <1>1. T \in SUBSET Nat /\ T # {}
    BY RowType, Columns
  <1>2. \E x \in T : \A y \in T : x =< y
    <2> HIDE DEF T
    <2> QED
      BY <1>1, LeastNatural
  <1>3. \E m \in S : \A n \in S : message[m].sequence =< message[n].sequence
    BY <1>2
  <1> QED
    BY <1>3 DEF Oldest

\* send, as a client calls it.
LEMMA SendStep ==
    ASSUME Sound, NEW p \in Proc, NEW d \in ClientDraft, Send(p, d)
    PROVE  TypeOK' /\ \E c \in Caller, t \in Nat : d \in Draft /\ Inserts(c, d, t)
  <1> USE DEF Sound
  <1>1. caller[p] \in Caller
    BY DEF Send, TypeOK
  <1>2. d \in Draft
    BY BoundsAssumption DEF ClientDraft, Draft
  <1>3. PICK t \in Nat : Inserts(caller[p], d, t)
    BY DEF Send, ValidDraft, Inserts, ClockRead, TypeOK
  <1>4. /\ message' \in Table
        /\ endpoint' \in [Endpoint -> EndpointRow]
        /\ idempotency' \in [Endpoint \X Key -> MsgId \cup {None}]
    BY <1>1, <1>2, <1>3, InsertType
  <1> QED
    BY <1>1, <1>2, <1>3, <1>4 DEF Send, TypeOK, Table

\* The row a claim leaves: leased to the caller, or consumed if a notice.
LeasedRow(row, i, t) == [row EXCEPT !.state = "claimed", !.claim_owner = i,
                                    !.claim_expires_at = t]

LEMMA LeasedRowType ==
    ASSUME NEW r \in Message, NEW i \in Owner, NEW t \in Nat
    PROVE  /\ LeasedRow(r, i, t) \in Message
           /\ LeasedRow(r, i, t).state = "claimed"
           /\ LeasedRow(r, i, t).claim_owner = i
           /\ LeasedRow(r, i, t).claim_expires_at = t
           /\ SameMail(r, LeasedRow(r, i, t))
  BY DEF Message, LeasedRow, SameMail, Pending

\* What the transaction of claim writes, case by case.
LEMMA ClaimWrites ==
    ASSUME Sound, NEW p \in Proc, ClaimTx(p)
    PROVE  LET c == caller[p]
               t == op[p].at
               S == Claimable(c.ep, t)
           IN  /\ c \in Caller /\ t \in Nat
               /\ \/ message' = Reclaimed(t) /\ endpoint' = endpoint
                  \/ \E m \in S :
                       /\ message[m].kind = "notice"
                       /\ message' = [Reclaimed(t) EXCEPT
                                        ![m] = Settled(Reclaimed(t)[m], "consumed")]
                       /\ endpoint' = Recount(endpoint, message', {c.ep})
                  \/ \E m \in S, u \in Nat :
                       /\ message[m].kind # "notice"
                       /\ \A n \in S : message[m].sequence =< message[n].sequence
                       /\ message' = [Reclaimed(t) EXCEPT
                                        ![m] = LeasedRow(Reclaimed(t)[m], c.inc, u)]
                       /\ endpoint' = endpoint
  <1> DEFINE c == caller[p]
             t == op[p].at
             S == Claimable(c.ep, t)
             m == Oldest(S)
  <1>1. op[p] \in Op /\ op[p].pc = "claim"
    BY DEF Sound, TypeOK, ClaimTx
  <1>2. t \in Nat
    BY <1>1, OpShape
  <1>3. c \in Caller
    BY <1>1, OpShape DEF Sound, OperationsSound, TypeOK
  <1>4. S \in SUBSET MsgId /\ \A n \in S : Exists(n)
    BY DEF Claimable
  <1>5. S # {} => m \in S /\ \A n \in S : message[m].sequence =< message[n].sequence
    BY <1>4, OldestIsThere DEF Sound
  <1>6. \A lease \in Leases : t + lease \in Nat
    BY <1>2, BoundsAssumption
  <1> HIDE DEF S
  <1>7. \/ S = {} /\ message' = Reclaimed(t) /\ endpoint' = endpoint
        \/ /\ S # {} /\ message[m].kind = "notice"
           /\ message' = [Reclaimed(t) EXCEPT ![m] = Settled(Reclaimed(t)[m], "consumed")]
           /\ endpoint' = Recount(endpoint, message', {c.ep})
        \/ /\ S # {} /\ message[m].kind # "notice"
           /\ \E lease \in Leases :
                message' = [Reclaimed(t) EXCEPT
                                ![m].state = "claimed",
                                ![m].claim_owner = c.inc,
                                ![m].claim_expires_at = t + lease]
           /\ endpoint' = endpoint
    BY DEF ClaimTx, S
  <1>8. ASSUME NEW lease \in Leases, m \in MsgId
        PROVE  [Reclaimed(t) EXCEPT ![m].state = "claimed",
                                    ![m].claim_owner = c.inc,
                                    ![m].claim_expires_at = t + lease]
                = [Reclaimed(t) EXCEPT ![m] = LeasedRow(Reclaimed(t)[m], c.inc, t + lease)]
    BY <1>8 DEF LeasedRow
  <1> QED
    BY <1>2, <1>3, <1>4, <1>5, <1>6, <1>7, <1>8 DEF S

\* A transaction that reclaims and then writes one queued message.
LEMMA ReclaimThenWrite ==
    ASSUME TypeOK, NEW t \in Nat, NEW m \in MsgId, Exists(m),
           Reclaimed(t)[m].state = "queued", NEW row \in Message,
           SameMail(Reclaimed(t)[m], row),
           \/ message' = Reclaimed(t)
           \/ message' = [Reclaimed(t) EXCEPT ![m] = row]
    PROVE  message' \in Table /\ \A n \in MsgId : RewritesRow(n)
  <1>1. Reclaimed(t) \in Table
    BY ReclaimedRows
  <1>2. message' \in Table
    BY <1>1 DEF Table
  <1>3. ASSUME NEW n \in MsgId
        PROVE  RewritesRow(n)
    <2>1. /\ Reclaimed(t)[n] \in Message <=> message[n] \in Message
          /\ SameMail(message[n], Reclaimed(t)[n])
          /\ \/ Reclaimed(t)[n] = message[n]
             \/ message[n].state = "claimed"
          /\ message[n].state = "claimed" => message[n] \in Message
      BY ReclaimedRows, RowType DEF Pending
    <2>2. CASE message'[n] = Reclaimed(t)[n]
      BY <2>1, <2>2 DEF RewritesRow, Pending
    <2>3. CASE n = m /\ message'[n] = row
      <3>1. message[m].state \in Pending
        BY ReclaimedRows DEF Pending
      <3>2. message[m] \in Message
        BY RowType
      <3>3. SameMail(message[m], row)
        BY <2>1, <2>3 DEF SameMail
      <3> QED
        BY <2>3, <3>1, <3>2, <3>3 DEF RewritesRow
    <2> QED
      BY <1>1, <2>2, <2>3 DEF Table
  <1> QED
    BY <1>2, <1>3

\* The transaction of claim.
LEMMA ClaimStep ==
    ASSUME Sound, NEW p \in Proc, ClaimTx(p)
    PROVE  TypeOK' /\ Rewrites
  <1> DEFINE c == caller[p]
             t == op[p].at
  <1>1. c \in Caller /\ t \in Nat
    BY ClaimWrites
  <1>2. \A m \in Claimable(c.ep, t) :
            m \in MsgId /\ Exists(m) /\ Reclaimed(t)[m].state = "queued"
    BY DEF Claimable
  <1>3. message' \in Table /\ \A n \in MsgId : RewritesRow(n)
    <2>1. CASE message' = Reclaimed(t)
      <3>1. \A n \in MsgId : RewritesRow(n)
        BY <1>1, <2>1, ReclaimedRows, RowType DEF RewritesRow, Pending, Sound
      <3> QED
        BY <1>1, <2>1, <3>1, ReclaimedRows DEF Sound
    <2>2. ASSUME NEW m \in Claimable(c.ep, t),
                 message' = [Reclaimed(t) EXCEPT
                                ![m] = Settled(Reclaimed(t)[m], "consumed")]
          PROVE  message' \in Table /\ \A n \in MsgId : RewritesRow(n)
      <3>1. Reclaimed(t)[m] \in Message
        BY <1>1, <1>2, ReclaimedRows DEF Sound
      <3> DEFINE row == Settled(Reclaimed(t)[m], "consumed")
      <3>2. row \in Message /\ SameMail(Reclaimed(t)[m], row)
        BY <3>1, SettledRow DEF Terminal
      <3> HIDE DEF row
      <3>3. message' = [Reclaimed(t) EXCEPT ![m] = row]
        BY <2>2 DEF row
      <3> QED
        BY <1>1, <1>2, <3>2, <3>3, ReclaimThenWrite DEF Sound
    <2>3. ASSUME NEW m \in Claimable(c.ep, t), NEW u \in Nat,
                 message' = [Reclaimed(t) EXCEPT
                                ![m] = LeasedRow(Reclaimed(t)[m], c.inc, u)]
          PROVE  message' \in Table /\ \A n \in MsgId : RewritesRow(n)
      <3>1. Reclaimed(t)[m] \in Message
        BY <1>1, <1>2, ReclaimedRows DEF Sound
      <3> DEFINE row == LeasedRow(Reclaimed(t)[m], c.inc, u)
      <3>2. c.inc \in Owner
        BY <1>1 DEF Caller
      <3>3. row \in Message /\ SameMail(Reclaimed(t)[m], row)
        BY <3>1, <3>2, LeasedRowType
      <3> HIDE DEF row
      <3>4. message' = [Reclaimed(t) EXCEPT ![m] = row]
        BY <2>3 DEF row
      <3> QED
        BY <1>1, <1>2, <3>3, <3>4, ReclaimThenWrite DEF Sound
    <2> QED
      BY <2>1, <2>2, <2>3, ClaimWrites
  <1>4. /\ endpoint' \in [Endpoint -> EndpointRow]
        /\ \A e \in Endpoint : endpoint'[e].next_sequence = endpoint[e].next_sequence
    <2>1. endpoint' = endpoint \/ endpoint' = Recount(endpoint, message', {c.ep})
      BY ClaimWrites
    <2> QED
      BY <1>3, <2>1, RecountType DEF Sound, TypeOK
  <1>5. op' \in [Proc -> Op]
    BY DEF ClaimTx, Sound, TypeOK, Op
  <1>6. UNCHANGED <<policy, idempotency, minted, caller, now>>
    BY DEF ClaimTx
  <1> QED
    BY <1>3, <1>4, <1>5, <1>6 DEF Sound, TypeOK, Rewrites, Table

\* The clock, and the steps of claim, respond, cancel and interrupt that only
\* read the store.
LEMMA ReadSteps ==
    ASSUME Sound, UNCHANGED <<storeVars, caller>>,
           op' \in [Proc -> Op], now' \in Nat
    PROVE  TypeOK' /\ Rewrites
  <1>1. Rewrites
    BY QuietStep DEF storeVars, Sound
  <1> QED
    BY <1>1 DEF TypeOK, storeVars, Sound

LEMMA ClockStep ==
    ASSUME Sound, Tick
    PROVE  TypeOK' /\ Rewrites
  <1>1. op' \in [Proc -> Op] /\ now' \in Nat
    BY DEF Tick, Sound, TypeOK
  <1> QED
    BY <1>1, ReadSteps DEF Tick

\* The authority checks of claim, respond and cancel.
LEMMA CheckSteps ==
    ASSUME Sound, NEW p \in Proc,
           \/ ClaimCheck(p)
           \/ \E m \in MsgId, body \in Body : \E key \in ReplyKey[m] :
                    RespondCheck(p, m, body, key)
           \/ \E m \in MsgId : CancelCheck(p, m)
    PROVE  TypeOK' /\ Rewrites
  <1> USE DEF Sound
  <1>1. UNCHANGED <<storeVars, caller, now>>
    BY DEF ClaimCheck, RespondCheck, CancelCheck
  <1>2. op' \in [Proc -> Op]
    <2>1. CASE ClaimCheck(p)
      BY <2>1 DEF ClaimCheck, TypeOK, Op
    <2>2. ASSUME NEW m \in MsgId, NEW body \in Body, NEW key \in ReplyKey[m],
                 RespondCheck(p, m, body, key)
          PROVE  op' \in [Proc -> Op]
      <3>1. key \in Key
        BY BoundsAssumption
      <3> QED
        BY <2>2, <3>1 DEF RespondCheck, TypeOK, Op
    <2>3. ASSUME NEW m \in MsgId, CancelCheck(p, m)
          PROVE  op' \in [Proc -> Op]
      BY <2>3 DEF CancelCheck, TypeOK, Op
    <2> QED
      BY <2>1, <2>2, <2>3
  <1> QED
    BY <1>1, <1>2, ReadSteps DEF TypeOK

\* interrupt_target and the provider's abort.
LEMMA InterruptSteps ==
    ASSUME Sound, NEW p \in Proc, InterruptTarget(p) \/ Abort(p)
    PROVE  TypeOK' /\ Rewrites
  <1> USE DEF Sound
  <1>1. UNCHANGED <<storeVars, caller, now>>
    BY DEF InterruptTarget, Abort
  <1>2. op[p] \in Op
    BY DEF TypeOK
  <1>3. op' \in [Proc -> Op]
    <2>1. CASE InterruptTarget(p)
      <3> DEFINE r == op[p].request
      <3>1. r \in MsgId
        BY <1>2, <2>1, OpShape DEF InterruptTarget
      <3>2. Interruptible(r) => message[r].claim_owner \in Owner
        <4>1. Interruptible(r) => message[r] \in Message
          BY <3>1, RowType DEF Interruptible, Pending
        <4> QED
          BY <4>1, Columns DEF Interruptible
      <3>3. op' = [op EXCEPT ![p] =
                        IF Interruptible(r)
                        THEN [pc |-> "abort", request |-> r,
                              target |-> message[r].claim_owner]
                        ELSE Idle]
        BY <2>1 DEF InterruptTarget
      <3> HIDE DEF r
      <3> QED
        BY <3>1, <3>2, <3>3 DEF TypeOK, Op
    <2>2. CASE Abort(p)
      <3>1. op[p] \in [pc : {"abort"}, request : MsgId, target : Owner]
        BY <1>2, <2>2 DEF Abort, Op, Idle
      <3>2. [op[p] EXCEPT !.pc = "confirm"] \in Op
        BY <3>1 DEF Op
      <3>3. \/ op' = [op EXCEPT ![p] = [op[p] EXCEPT !.pc = "confirm"]]
            \/ op' = [op EXCEPT ![p] = Idle]
        BY <2>2 DEF Abort
      <3> QED
        BY <3>2, <3>3 DEF TypeOK, Op
    <2> QED
      BY <2>1, <2>2
  <1> QED
    BY <1>1, <1>3, ReadSteps DEF TypeOK

\* The first transaction of respond.
LEMMA RespondSendStep ==
    ASSUME Sound, NEW p \in Proc, RespondSend(p)
    PROVE  /\ TypeOK' /\ StepEffect
           /\ \/ UNCHANGED <<endpoint, message, idempotency>>
              \/ \E c \in Caller, d \in Draft, t \in Nat : Inserts(c, d, t)
  <1> USE DEF Sound
  <1> DEFINE o == op[p]
             d == ResponseDraft(o)
  <1>1. /\ o \in Op /\ o.pc = "respond"
        /\ o.request \in MsgId /\ o.body \in Body /\ o.key \in Key
    BY OpShape DEF TypeOK, RespondSend
  <1>2. caller[p] \in Caller
    BY <1>1, OpShape DEF OperationsSound, TypeOK
  <1>3. message[o.request] \in Message
    BY <1>1, RowType DEF OperationsSound
  <1>4. message[o.request].from \in Endpoint
    BY <1>3, Columns
  <1>5. d \in Draft /\ d.kind = "response" /\ d.reply_to # None
    BY <1>1, <1>4, IdentityAssumption DEF ResponseDraft, Draft
  <1>6. op' \in [Proc -> Op]
    <2> DEFINE retire == [pc |-> "retire", request |-> o.request]
    <2>1. Idle \in Op /\ retire \in Op
      BY <1>1 DEF Op
    <2>2. op' = [op EXCEPT ![p] = Idle] \/ op' = [op EXCEPT ![p] = retire]
      BY DEF RespondSend
    <2> HIDE DEF retire
    <2> QED
      BY <2>1, <2>2 DEF TypeOK
  <1>7. UNCHANGED <<policy, minted, caller, now>>
    BY DEF RespondSend
  <1>8. CASE UNCHANGED <<endpoint, message, idempotency>>
    <2>1. Rewrites
      BY <1>8, QuietStep
    <2> QED
      BY <1>6, <1>7, <1>8, <2>1 DEF StepEffect, TypeOK
  <1>9. CASE \E t \in Nat : /\ Admissible(caller[p], d, t)
                             /\ \E m \in MsgId : ~Exists(m)
                             /\ Insert(caller[p], d, t)
    <2>1. PICK t \in Nat : Inserts(caller[p], d, t)
      BY <1>5, <1>9 DEF Inserts
    <2>2. /\ message' \in Table
          /\ endpoint' \in [Endpoint -> EndpointRow]
          /\ idempotency' \in [Endpoint \X Key -> MsgId \cup {None}]
      BY <1>2, <1>5, <2>1, InsertType
    <2>3. StepEffect
      BY <1>2, <1>5, <2>1 DEF StepEffect
    <2> QED
      BY <1>2, <1>5, <1>6, <1>7, <2>1, <2>2, <2>3 DEF TypeOK, Table
  <1> QED
    BY <1>8, <1>9 DEF RespondSend, ClockRead, TypeOK

\* The second transaction of respond, the transaction of cancel and that of
\* confirm_interrupt: each writes one message or none.
LEMMA WritingSteps ==
    ASSUME Sound, NEW p \in Proc, RespondRetire(p) \/ CancelTx(p) \/ ConfirmInterrupt(p)
    PROVE  TypeOK' /\ Rewrites
  <1> USE DEF Sound
  <1> DEFINE m == op[p].request
  <1>1. op[p] \in Op /\ m \in MsgId
    BY OpShape DEF TypeOK, RespondRetire, CancelTx, ConfirmInterrupt
  <1>2. UNCHANGED <<policy, idempotency, minted, caller, now>>
    BY DEF RespondRetire, CancelTx, ConfirmInterrupt
  <1>3. op' \in [Proc -> Op]
    <2> DEFINE interrupt == [pc |-> "interrupt", request |-> m]
    <2>1. Idle \in Op /\ interrupt \in Op
      BY <1>1 DEF Op
    <2>2. op' = [op EXCEPT ![p] = Idle] \/ op' = [op EXCEPT ![p] = interrupt]
      BY DEF RespondRetire, CancelTx, ConfirmInterrupt
    <2> HIDE DEF interrupt
    <2> QED
      BY <2>1, <2>2 DEF TypeOK
  <1>4. \/ UNCHANGED <<message, endpoint>>
        \/ /\ message[m].state \in Pending
           /\ \/ \E s \in Terminal :
                    message' = [message EXCEPT ![m] = Settled(message[m], s)]
              \/ \E s \in Pending \cup Terminal :
                    message' = [message EXCEPT ![m] = [message[m] EXCEPT !.state = s]]
           /\ \/ endpoint' = endpoint
              \/ \E E : endpoint' = Recount(endpoint, message', E)
    <2>1. CASE RespondRetire(p)
      BY <2>1 DEF RespondRetire, Terminal
    <2>2. CASE CancelTx(p)
      BY <2>2 DEF CancelTx, Terminal, Pending
    <2>3. CASE ConfirmInterrupt(p)
      BY <2>3 DEF ConfirmInterrupt, Terminal, Pending
    <2> QED
      BY <2>1, <2>2, <2>3
  <1>5. Rewrites /\ endpoint' \in [Endpoint -> EndpointRow]
    <2>1. CASE UNCHANGED <<message, endpoint>>
      BY <1>2, <2>1, QuietStep DEF TypeOK
    <2>2. CASE /\ message[m].state \in Pending
               /\ \/ endpoint' = endpoint
                  \/ \E E : endpoint' = Recount(endpoint, message', E)
      <3>1. message[m] \in Message
        BY <1>1, <2>2, RowType
      <3>2. ASSUME NEW row \in Message, SameMail(message[m], row),
                   message' = [message EXCEPT ![m] = row]
            PROVE  Rewrites /\ endpoint' \in [Endpoint -> EndpointRow]
        <4> HIDE DEF m
        <4> QED
          BY <1>1, <1>2, <2>2, <3>2, WriteOne
      <3>3. ASSUME NEW s \in Terminal,
                   message' = [message EXCEPT ![m] = Settled(message[m], s)]
            PROVE  Rewrites /\ endpoint' \in [Endpoint -> EndpointRow]
        BY <3>1, <3>2, <3>3, SettledRow
      <3>4. ASSUME NEW s \in Pending \cup Terminal,
                   message' = [message EXCEPT ![m] = [message[m] EXCEPT !.state = s]]
            PROVE  Rewrites /\ endpoint' \in [Endpoint -> EndpointRow]
        BY <3>1, <3>2, <3>4, StateWritten
      <3> QED
        BY <1>4, <2>1, <2>2, <3>3, <3>4
    <2> QED
      BY <1>4, <2>1, <2>2
  <1> QED
    BY <1>2, <1>3, <1>5 DEF TypeOK, Rewrites, Table

\* A row after a sweep.
LEMMA SweptRowIs ==
    ASSUME TypeOK, NEW m \in MsgId
    PROVE  /\ SweptRow(m, now) \in Message \cup {NoMessage}
           /\ Exists(m) => /\ SweptRow(m, now) \in Message
                           /\ SameMail(message[m], SweptRow(m, now))
           /\ \/ SweptRow(m, now) = Reclaimed(now)[m]
              \/ /\ message[m].state \in {"queued", "claimed"}
                 /\ SweptRow(m, now).state = "expired"
                 /\ PastDeadline(message[m], now)
  <1> DEFINE row == Reclaimed(now)[m]
  <1>1. /\ row \in Message \cup {NoMessage}
        /\ row \in Message <=> Exists(m)
        /\ SameMail(message[m], row)
        /\ row = message[m] \/ message[m].state = "claimed"
    BY ReclaimedRows DEF Table, TypeOK
  <1>2. row \in Message => /\ [row EXCEPT !.state = "expired"] \in Message
                           /\ [row EXCEPT !.state = "expired"].state = "expired"
                           /\ SameMail(row, [row EXCEPT !.state = "expired"])
    BY StateWritten DEF Terminal
  <1>3. SweptRow(m, now) = IF /\ Exists(m) /\ row.state \in {"queued", "claimed"}
                              /\ PastDeadline(row, now)
                           THEN [row EXCEPT !.state = "expired"] ELSE row
    BY DEF SweptRow
  <1> HIDE DEF row
  <1>4. CASE /\ Exists(m) /\ row.state \in {"queued", "claimed"}
             /\ PastDeadline(row, now)
    <2>1. PastDeadline(message[m], now)
      BY <1>1, <1>4 DEF PastDeadline, SameMail
    <2>2. SameMail(message[m], [row EXCEPT !.state = "expired"])
      BY <1>1, <1>2, <1>4 DEF SameMail
    <2> QED
      BY <1>1, <1>2, <1>3, <1>4, <2>1, <2>2
  <1>5. CASE ~(/\ Exists(m) /\ row.state \in {"queued", "claimed"}
               /\ PastDeadline(row, now))
    BY <1>1, <1>3, <1>5 DEF row
  <1> QED
    BY <1>4, <1>5

\* sweep.
LEMMA SweepStep ==
    ASSUME Sound, Sweep
    PROVE  TypeOK' /\ Rewrites
  <1> USE DEF Sound
  <1>1. \A m \in MsgId : message'[m] = SweptRow(m, now)
    BY DEF Sweep
  <1>2. message' \in Table
    BY SweptRowIs DEF Sweep, Table
  <1>3. ASSUME NEW m \in MsgId
        PROVE  RewritesRow(m)
    <2>1. CASE message'[m] = message[m]
      BY <2>1 DEF RewritesRow
    <2>2. CASE message'[m] # message[m]
      <3>1. message[m].state \in {"queued", "claimed"}
        BY <1>1, <2>2, SweptRowIs, ReclaimedRows DEF TypeOK
      <3>2. message[m] \in Message /\ Exists(m)
        BY <3>1, RowType DEF Pending
      <3> QED
        BY <1>1, <3>1, <3>2, SweptRowIs DEF RewritesRow, Pending
    <2> QED
      BY <2>1, <2>2
  <1>4. endpoint' = endpoint \/ \E E : endpoint' = Recount(endpoint, message', E)
    BY DEF Sweep
  <1>5. /\ endpoint' \in [Endpoint -> EndpointRow]
        /\ \A e \in Endpoint : endpoint'[e].next_sequence = endpoint[e].next_sequence
    BY <1>2, <1>4, RecountType DEF TypeOK
  <1> QED
    BY <1>2, <1>3, <1>5 DEF Sweep, TypeOK, Rewrites, Table

-----------------------------------------------------------------------------
(***************************************************************************)
(* The inductive invariant Sound                                            *)
(***************************************************************************)

\* Every step keeps the types, and does to the tables of mail what StepEffect
\* says.
LEMMA TypeStep ==
    ASSUME Sound, [Next]_vars
    PROVE  TypeOK' /\ StepEffect
  <1>1. CASE UNCHANGED vars
    <2>1. Rewrites
      BY <1>1, QuietStep DEF vars, Sound
    <2> QED
      BY <1>1, <2>1 DEF vars, Sound, TypeOK, StepEffect
  <1>2. CASE \E e \in Agent : Bind(e)
    BY <1>2, IdentitySteps DEF StepEffect, Endpoint
  <1>3. CASE \E e \in Agent, i \in Incarnation : Unbind(e, i)
    BY <1>3, IdentitySteps DEF StepEffect, Endpoint
  <1>4. CASE \E p \in Proc : Authenticate(p) \/ LocalUser(p) \/ Exit(p)
    BY <1>4, IdentitySteps DEF StepEffect
  <1>5. CASE \E e \in Endpoint, pol \in Policies : SetPolicy(e, pol)
    BY <1>5, IdentitySteps DEF StepEffect
  <1>6. CASE \E p \in Proc, d \in ClientDraft : Send(p, d)
    BY <1>6, SendStep DEF StepEffect
  <1>7. CASE \E p \in Proc : ClaimTx(p)
    BY <1>7, ClaimStep DEF StepEffect
  <1>8. CASE \E p \in Proc : RespondSend(p)
    BY <1>8, RespondSendStep
  <1>9. CASE \E p \in Proc : RespondRetire(p) \/ CancelTx(p) \/ ConfirmInterrupt(p)
    BY <1>9, WritingSteps DEF StepEffect
  <1>10. CASE \E p \in Proc : InterruptTarget(p) \/ Abort(p)
    BY <1>10, InterruptSteps DEF StepEffect
  <1>11. CASE \E p \in Proc :
                \/ ClaimCheck(p)
                \/ \E m \in MsgId, body \in Body : \E key \in ReplyKey[m] :
                        RespondCheck(p, m, body, key)
                \/ \E m \in MsgId : CancelCheck(p, m)
    BY <1>11, CheckSteps DEF StepEffect
  <1>12. CASE Sweep
    BY <1>12, SweepStep DEF StepEffect
  <1>13. CASE Tick
    BY <1>13, ClockStep DEF StepEffect
  <1> QED
    BY <1>1, <1>2, <1>3, <1>4, <1>5, <1>6, <1>7, <1>8, <1>9, <1>10, <1>11,
       <1>12, <1>13 DEF Next

\* A message that a process looked up stays what it was.
LEMMA MailStays ==
    ASSUME Sound, [Next]_vars, NEW m \in MsgId, Exists(m)
    PROVE  /\ message[m] \in Message /\ message'[m] \in Message
           /\ Exists(m)'
           /\ SameMail(message[m], message'[m])
  <1>1. message[m] \in Message
    BY RowType DEF Sound
  <1>2. SameMail(message[m], message[m])
    BY DEF SameMail
  <1>3. message'[m] \in Message /\ SameMail(message[m], message'[m])
    <2>1. CASE Rewrites
      BY <1>1, <1>2, <2>1 DEF Rewrites, RewritesRow
    <2>2. CASE \E c \in Caller, d \in Draft, t \in Nat : Inserts(c, d, t)
      BY <1>1, <1>2, <2>2, InsertType DEF Sound, TypeOK
    <2> QED
      BY <2>1, <2>2, TypeStep DEF StepEffect
  <1>4. Exists(m)'
    BY <1>3, Columns DEF Exists, Pending, Terminal
  <1> QED
    BY <1>1, <1>3, <1>4

\* What may become of the operation of one process.
Continues(q) ==
    \/ op'[q] = op[q] /\ caller'[q] = caller[q]
    \/ op'[q] = Idle
    \/ /\ caller'[q] = caller[q] /\ caller[q] # None
       /\ op'[q].pc \in {"respond", "retire"} =>
            /\ op'[q].request \in MsgId /\ Exists(op'[q].request)
            /\ message[op'[q].request].kind = "request"
            /\ message[op'[q].request].to = caller[q].ep

\* A step leaves a process alone, ends its operation, or advances it under the
\* same identity; one that answers has looked its request up.
LEMMA ProcessSteps ==
    ASSUME Sound, [Next]_vars, NEW q \in Proc
    PROVE  Continues(q)
  <1> USE DEF Sound
  <1>0. op \in [Proc -> Op] /\ caller \in [Proc -> Caller \cup {None}]
    BY DEF TypeOK
  <1>1. CASE UNCHANGED <<op, caller>>
    BY <1>1 DEF Continues
  <1>2. CASE \E p \in Proc : Authenticate(p) \/ LocalUser(p) \/ Exit(p)
    BY <1>0, <1>2 DEF Authenticate, LocalUser, Exit, OperationsSound, Continues
  <1>3. CASE \E p \in Proc : ClaimCheck(p) \/ \E m \in MsgId : CancelCheck(p, m)
    BY <1>0, <1>3 DEF ClaimCheck, CancelCheck, Continues
  <1>4. CASE \E p \in Proc, m \in MsgId, body \in Body : \E key \in ReplyKey[m] :
                RespondCheck(p, m, body, key)
    BY <1>0, <1>4 DEF RespondCheck, Continues
  <1>5. CASE \E p \in Proc : RespondSend(p)
    <2> PICK p \in Proc : RespondSend(p)
      BY <1>5
    <2> DEFINE o == op[p]
               retire == [pc |-> "retire", request |-> o.request]
    <2>1. /\ o \in Op /\ o.pc = "respond" /\ o.request \in MsgId
          /\ caller[p] # None
          /\ Exists(o.request)
          /\ message[o.request].kind = "request"
          /\ message[o.request].to = caller[p].ep
      BY <1>0, OpShape DEF RespondSend, OperationsSound
    <2>2. op' = [op EXCEPT ![p] = Idle] \/ op' = [op EXCEPT ![p] = retire]
      BY DEF RespondSend
    <2>3. caller' = caller
      BY DEF RespondSend
    <2> QED
      BY <1>0, <2>1, <2>2, <2>3 DEF Continues
  <1>6. CASE \E p \in Proc : RespondRetire(p) \/ ConfirmInterrupt(p) \/ ClaimTx(p)
    BY <1>0, <1>6 DEF RespondRetire, ConfirmInterrupt, ClaimTx, Continues
  <1>7. CASE \E p \in Proc : CancelTx(p) \/ InterruptTarget(p) \/ Abort(p)
    <2> PICK p \in Proc : CancelTx(p) \/ InterruptTarget(p) \/ Abort(p)
      BY <1>7
    <2>1. op[p] \in Op /\ op[p].pc \in {"cancel", "interrupt", "abort"}
      BY <1>0 DEF CancelTx, InterruptTarget, Abort
    <2>2. caller[p] # None /\ caller' = caller
      BY <2>1, OpShape DEF OperationsSound, CancelTx, InterruptTarget, Abort
    <2>3. \A x \in Proc : x # p => op'[x] = op[x]
      BY <1>0 DEF CancelTx, InterruptTarget, Abort
    <2>4. op'[p] = Idle \/ op'[p].pc \in {"interrupt", "abort", "confirm"}
      <3>1. CASE CancelTx(p)
        BY <1>0, <3>1 DEF CancelTx
      <3>2. CASE InterruptTarget(p)
        BY <1>0, <3>2 DEF InterruptTarget
      <3>3. CASE Abort(p)
        <4>1. op[p] \in [pc : {"abort"}, request : MsgId, target : Owner]
          BY <1>0, <3>3 DEF Abort, Op, Idle
        <4>2. \/ op' = [op EXCEPT ![p] = [op[p] EXCEPT !.pc = "confirm"]]
              \/ op' = [op EXCEPT ![p] = Idle]
          BY <3>3 DEF Abort
        <4> QED
          BY <1>0, <4>1, <4>2
      <3> QED
        BY <3>1, <3>2, <3>3
    <2> QED
      BY <2>2, <2>3, <2>4 DEF Continues
  <1>8. CASE \/ \E e \in Agent : Bind(e)
             \/ \E e \in Agent, i \in Incarnation : Unbind(e, i)
             \/ \E e \in Endpoint, pol \in Policies : SetPolicy(e, pol)
             \/ \E p \in Proc, d \in ClientDraft : Send(p, d)
             \/ Sweep \/ Tick
    BY <1>8, <1>1 DEF Bind, Unbind, SetPolicy, Send, Sweep, Tick
  <1> QED
    BY <1>1, <1>2, <1>3, <1>4, <1>5, <1>6, <1>7, <1>8 DEF Next, vars

\* Sound is inductive.
LEMMA SoundStep ==
    ASSUME Sound, [Next]_vars
    PROVE  Sound'
  <1>1. TypeOK'
    BY TypeStep
  <1>2. ASSUME NEW q \in Proc
        PROVE  /\ op'[q] # Idle => caller'[q] # None
               /\ op'[q].pc \in {"respond", "retire"} =>
                    /\ message'[op'[q].request].state # "absent"
                    /\ message'[op'[q].request].kind = "request"
                    /\ message'[op'[q].request].to = caller'[q].ep
    <2>1. Idle.pc = "idle"
      BY DEF Idle
    <2>2. CASE op'[q] = Idle
      BY <2>1, <2>2
    <2>3. CASE op'[q] # Idle
      <3>1. caller'[q] = caller[q] /\ caller[q] # None
        BY <2>3, ProcessSteps DEF Continues, Sound, OperationsSound
      <3>2. op'[q].pc \in {"respond", "retire"} =>
                /\ op'[q].request \in MsgId /\ Exists(op'[q].request)
                /\ message[op'[q].request].kind = "request"
                /\ message[op'[q].request].to = caller[q].ep
        <4>1. op[q] \in Op
          BY DEF Sound, TypeOK
        <4>2. op[q].pc \in {"respond", "retire"} => op[q].request \in MsgId
          BY <4>1, OpShape
        <4> QED
          BY <2>3, <4>2, ProcessSteps DEF Continues, Sound, OperationsSound
      <3>3. op'[q].pc \in {"respond", "retire"} =>
                /\ message'[op'[q].request].state # "absent"
                /\ SameMail(message[op'[q].request], message'[op'[q].request])
        <4> DEFINE m == op'[q].request
        <4> SUFFICES ASSUME m \in MsgId, Exists(m)
                     PROVE  message'[m].state # "absent"
                                /\ SameMail(message[m], message'[m])
          BY <3>2
        <4> HIDE DEF m
        <4> QED
          BY MailStays DEF Exists
      <3> QED
        BY <3>1, <3>2, <3>3 DEF SameMail
    <2> QED
      BY <2>2, <2>3
  <1>3. OperationsSound'
    BY <1>2 DEF OperationsSound, Exists
  <1> QED
    BY <1>1, <1>3 DEF Sound

\* The store starts sound.
LEMMA SoundInit == Init => Sound
  <1> SUFFICES ASSUME Init
               PROVE  Sound
    OBVIOUS
  <1>1. NoEndpoint \in EndpointRow
    BY DEF NoEndpoint, EndpointRow
  <1>2. TypeOK
    BY <1>1, BoundsAssumption DEF Init, TypeOK, Op
  <1>3. OperationsSound
    BY DEF Init, OperationsSound, Idle
  <1> QED
    BY <1>2, <1>3 DEF Sound

\* Every reachable state of the store is sound.
LEMMA SoundAlways == Spec => []Sound
  BY SoundInit, SoundStep, PTL DEF Spec

\* Type correctness: whatever the processes do, every column of every table
\* holds a value of its type; in particular no counter becomes negative.
THEOREM TypeCorrect == Spec => []TypeOK
  <1>1. Sound => TypeOK
    BY DEF Sound
  <1> QED
    BY <1>1, SoundAlways, PTL

-----------------------------------------------------------------------------
(***************************************************************************)
(* Resolutions                                                              *)
(***************************************************************************)

\* A message with a terminal state was not inserted by this step and is not
\* pending, so no transaction of the store rewrites it: a resolution is final.
THEOREM ResolutionsAreFinal == Spec => TerminalIsFinal
  <1> DEFINE Final == \A m \in MsgId : message[m].state \in Terminal
                                            => message'[m] = message[m]
  <1>1. ASSUME Sound, [Next]_vars
        PROVE  Final
    <2> SUFFICES ASSUME NEW m \in MsgId, message[m].state \in Terminal
                 PROVE  message'[m] = message[m]
      OBVIOUS
    <2>1. Exists(m) /\ message[m].state \notin Pending
      BY <1>1, RowType DEF Sound, Pending, Terminal
    <2>2. CASE Rewrites
      BY <2>1, <2>2 DEF Rewrites, RewritesRow
    <2>3. CASE \E c \in Caller, d \in Draft, t \in Nat : Inserts(c, d, t)
      BY <1>1, <2>1, <2>3, InsertType DEF Sound, TypeOK
    <2> QED
      BY <1>1, <2>2, <2>3, TypeStep DEF StepEffect
  <1>2. Sound /\ [Next]_vars => [Final]_vars
    BY <1>1
  <1> QED
    BY <1>2, SoundAlways, PTL DEF Spec, TerminalIsFinal

-----------------------------------------------------------------------------
(***************************************************************************)
(* Sequence numbers                                                         *)
(***************************************************************************)

\* What makes uniqueness inductive: a mailbox has handed out only sequence
\* numbers below its next one.
SequencesBelow ==
    \A m \in MsgId : Exists(m) =>
        message[m].sequence < endpoint[message[m].to].next_sequence

Ordered == SequencesBelow /\ SequencesUnique

LEMMA OrderedStep ==
    ASSUME Sound, Ordered, [Next]_vars
    PROVE  Ordered'
  <1>1. CASE Rewrites
    <2>1. \A m \in MsgId : message'[m].state # "absent" =>
                /\ Exists(m)
                /\ message[m] \in Message
                /\ message'[m].to = message[m].to
                /\ message'[m].sequence = message[m].sequence
      BY <1>1, RowType DEF Rewrites, RewritesRow, SameMail, Sound, Exists
    <2>2. \A e \in Endpoint : endpoint'[e].next_sequence = endpoint[e].next_sequence
      BY <1>1 DEF Rewrites
    <2>3. SequencesBelow'
      BY <2>1, <2>2, Columns DEF Ordered, SequencesBelow, Exists
    <2>4. SequencesUnique'
      BY <2>1 DEF Ordered, SequencesUnique, Exists
    <2> QED
      BY <2>3, <2>4 DEF Ordered
  <1>2. CASE \E c \in Caller, d \in Draft, t \in Nat : Inserts(c, d, t)
    <2> PICK c \in Caller, d \in Draft, t \in Nat : Inserts(c, d, t)
      BY <1>2
    <2> DEFINE f == FreshMessage
               n == endpoint[d.to].next_sequence
               row == Row(c, d, t)
    <2>1. /\ f \in MsgId /\ ~Exists(f)
          /\ message' = [message EXCEPT ![f] = row]
          /\ endpoint' = [endpoint EXCEPT ![d.to] = InsertedInto(d)]
      <3>1. f \in MsgId /\ ~Exists(f) /\ InsertsRow(c, d, t)
        BY InsertFacts
      <3> QED
        BY <3>1 DEF InsertsRow
    <2>2. d.to \in Endpoint
      BY DEF Draft
    <2>3. row.to = d.to /\ row.sequence = n /\ row.state # "absent"
      BY DEF Row
    <2>4. endpoint[d.to] \in EndpointRow /\ n \in Nat
      BY <2>2 DEF Sound, TypeOK, EndpointRow
    <2>5. InsertedInto(d).next_sequence = n + 1
      BY <2>4 DEF InsertedInto, Counters, EndpointRow
    <2>6. message \in Table /\ endpoint \in [Endpoint -> EndpointRow]
      BY DEF Sound, TypeOK, Table
    <2>7. \A m \in MsgId : Exists(m) =>
                message[m].to \in Endpoint /\ message[m].sequence \in Nat
      BY RowType, Columns DEF Sound
    <2> HIDE DEF f, n, row
    <2>8. \A m \in MsgId : message'[m] = IF m = f THEN row ELSE message[m]
      BY <2>1, <2>6 DEF Table
    <2>9. \A e \in Endpoint : endpoint'[e].next_sequence =
                                IF e = d.to THEN n + 1 ELSE endpoint[e].next_sequence
      BY <2>1, <2>2, <2>5, <2>6
    <2>10. \A m \in MsgId : Exists(m) /\ message[m].to = d.to => message[m].sequence < n
      BY DEF Ordered, SequencesBelow, n
    <2>11. SequencesBelow'
      <3> SUFFICES ASSUME NEW m \in MsgId, message'[m].state # "absent"
                   PROVE  message'[m].sequence < endpoint'[message'[m].to].next_sequence
        BY DEF SequencesBelow, Exists
      <3>1. CASE m = f
        BY <2>2, <2>3, <2>4, <2>8, <2>9, <3>1
      <3>2. CASE m # f
        <4>1. message'[m] = message[m] /\ Exists(m)
          BY <2>8, <3>2 DEF Exists
        <4>2. message[m].sequence < endpoint[message[m].to].next_sequence
          BY <4>1 DEF Ordered, SequencesBelow
        <4> QED
          BY <2>4, <2>7, <2>9, <2>10, <4>1, <4>2
      <3> QED
        BY <3>1, <3>2
    <2>12. SequencesUnique'
      <3> SUFFICES ASSUME NEW m \in MsgId, NEW k \in MsgId, m # k,
                          message'[m].state # "absent", message'[k].state # "absent",
                          message'[m].to = message'[k].to
                   PROVE  message'[m].sequence # message'[k].sequence
        BY DEF SequencesUnique, Exists
      <3>1. CASE m # f /\ k # f
        BY <2>8, <3>1 DEF Ordered, SequencesUnique, Exists
      <3>2. CASE m = f
        BY <2>3, <2>4, <2>7, <2>8, <2>10, <3>2 DEF Exists
      <3>3. CASE k = f
        BY <2>3, <2>4, <2>7, <2>8, <2>10, <3>3 DEF Exists
      <3> QED
        BY <3>1, <3>2, <3>3
    <2> QED
      BY <2>11, <2>12 DEF Ordered
  <1> QED
    BY <1>1, <1>2, TypeStep DEF StepEffect

\* Two messages of one mailbox never share a recipient_sequence, so the UNIQUE
\* constraint of the table never refuses an admitted message.
THEOREM SequencesStayUnique == Spec => []SequencesUnique
  <1>1. Init => Ordered
    BY DEF Init, Ordered, SequencesBelow, SequencesUnique, Exists, NoMessage
  <1>2. Ordered => SequencesUnique
    BY DEF Ordered
  <1> QED
    BY <1>1, <1>2, OrderedStep, SoundAlways, PTL DEF Spec

-----------------------------------------------------------------------------
(***************************************************************************)
(* Idempotency keys                                                         *)
(***************************************************************************)
LEMMA KeysStep ==
    ASSUME Sound, OneMessagePerKey, [Next]_vars
    PROVE  OneMessagePerKey'
  <1>1. CASE Rewrites
    <2>1. \A m \in MsgId : /\ message'[m].state # "absent" <=> Exists(m)
                           /\ message'[m].from = message[m].from
      <3>1. \A r \in Message : r.state # "absent"
        BY Columns DEF Pending, Terminal
      <3> QED
        BY <1>1, <3>1 DEF Rewrites, RewritesRow, SameMail, Exists
    <2>2. idempotency' = idempotency
      BY <1>1 DEF Rewrites
    <2>3. \A sk \in Endpoint \X Key : idempotency[sk] # None => idempotency[sk] \in MsgId
      BY DEF Sound, TypeOK
    <2> QED
      BY <2>1, <2>2, <2>3 DEF OneMessagePerKey, Exists
  <1>2. CASE \E c \in Caller, d \in Draft, t \in Nat : Inserts(c, d, t)
    <2> PICK c \in Caller, d \in Draft, t \in Nat : Inserts(c, d, t)
      BY <1>2
    <2> DEFINE f == FreshMessage
               row == Row(c, d, t)
               ck == <<c.ep, d.key>>
    <2>1. /\ f \in MsgId /\ ~Exists(f)
          /\ message' = [message EXCEPT ![f] = row]
          /\ idempotency' = [idempotency EXCEPT ![ck] = f]
      <3>1. f \in MsgId /\ ~Exists(f) /\ InsertsRow(c, d, t)
        BY InsertFacts
      <3> QED
        BY <3>1 DEF InsertsRow
    <2>2. ck \in Endpoint \X Key /\ ck[1] = c.ep /\ d.key \in Key /\ c.ep \in Endpoint
      BY DEF Draft, Caller
    <2>3. row.from = c.ep /\ row.state # "absent"
      BY DEF Row
    <2>4. idempotency[ck] = None
      BY DEF Inserts, Admissible, Prior
    <2>5. /\ message \in Table
          /\ idempotency \in [Endpoint \X Key -> MsgId \cup {None}]
      BY DEF Sound, TypeOK, Table
    <2>6. None \notin MsgId
      BY IdentityAssumption
    <2> HIDE DEF f, row
    <2>7. \A m \in MsgId : message'[m] = IF m = f THEN row ELSE message[m]
      BY <2>1, <2>5 DEF Table
    <2>8. \A sk \in Endpoint \X Key :
                idempotency'[sk] = IF sk = ck THEN f ELSE idempotency[sk]
      BY <2>1, <2>2, <2>5
    <2>9. ASSUME NEW m \in MsgId, message'[m].state # "absent"
          PROVE  \E k \in Key : idempotency'[<<message'[m].from, k>>] = m
      <3>1. CASE m = f
        BY <2>2, <2>3, <2>7, <2>8, <3>1
      <3>2. CASE m # f
        <4>1. Exists(m) /\ message'[m] = message[m]
          BY <2>7, <2>9, <3>2 DEF Exists
        <4>2. PICK k \in Key : idempotency[<<message[m].from, k>>] = m
          BY <4>1 DEF OneMessagePerKey
        <4>3. message[m].from \in Endpoint
          BY <4>1, RowType, Columns DEF Sound
        <4>4. <<message[m].from, k>> # ck
          BY <2>4, <2>6, <4>2
        <4> QED
          BY <2>8, <4>1, <4>2, <4>3, <4>4
      <3> QED
        BY <3>1, <3>2
    <2>10. ASSUME NEW sk \in Endpoint \X Key, idempotency'[sk] # None
           PROVE  /\ message'[idempotency'[sk]].state # "absent"
                  /\ message'[idempotency'[sk]].from = sk[1]
                  /\ \A sl \in Endpoint \X Key :
                        idempotency'[sl] = idempotency'[sk] => sl = sk
      <3>1. \A sl \in Endpoint \X Key : idempotency[sl] # None =>
                idempotency[sl] \in MsgId /\ Exists(idempotency[sl]) /\ idempotency[sl] # f
        BY <2>1, <2>5 DEF OneMessagePerKey
      <3>2. CASE sk = ck
        BY <2>1, <2>2, <2>3, <2>6, <2>7, <2>8, <3>1, <3>2
      <3>3. CASE sk # ck
        <4>1. idempotency'[sk] = idempotency[sk] /\ idempotency[sk] # None
          BY <2>8, <2>10, <3>3
        <4>2. message'[idempotency[sk]] = message[idempotency[sk]]
          BY <2>7, <3>1, <4>1
        <4>3. /\ Exists(idempotency[sk])
              /\ message[idempotency[sk]].from = sk[1]
              /\ \A sl \in Endpoint \X Key :
                    idempotency[sl] = idempotency[sk] => sl = sk
          BY <4>1 DEF OneMessagePerKey
        <4> QED
          BY <2>8, <3>1, <4>1, <4>2, <4>3 DEF Exists
      <3> QED
        BY <3>2, <3>3
    <2> QED
      BY <2>9, <2>10 DEF OneMessagePerKey, Exists
  <1> QED
    BY <1>1, <1>2, TypeStep DEF StepEffect

\* However often a client retries, crashes or restarts, a key of a sender
\* stands for one message, and no message exists without its key.
THEOREM KeysIdentifyMessages == Spec => []OneMessagePerKey
  <1>1. Init => OneMessagePerKey
    BY DEF Init, OneMessagePerKey, Exists, NoMessage
  <1> QED
    BY <1>1, KeysStep, SoundAlways, PTL DEF Spec

-----------------------------------------------------------------------------
(***************************************************************************)
(* Responses                                                                *)
(***************************************************************************)
LEMMA ResponsesStep ==
    ASSUME Sound, ResponsesAuthentic, [Next]_vars
    PROVE  ResponsesAuthentic'
  <1> SUFFICES ASSUME NEW r \in MsgId, message'[r].state # "absent",
                      message'[r].kind = "response"
               PROVE  LET a == message'[r].reply_to
                      IN  /\ a # None /\ message'[a].state # "absent"
                          /\ message'[a].kind = "request"
                          /\ message'[a].to = message'[r].from
                          /\ message'[a].from = message'[r].to
    BY DEF ResponsesAuthentic, Exists
  <1>1. ASSUME NEW a \in MsgId, Exists(a)
        PROVE  /\ message'[a].state # "absent"
               /\ SameMail(message[a], message'[a])
    BY <1>1, MailStays DEF Exists
  <1>2. CASE Exists(r)
    <2> DEFINE a == message[r].reply_to
    <2>1. SameMail(message[r], message'[r])
      BY <1>1, <1>2
    <2>2. message[r].kind = "response"
      BY <2>1 DEF SameMail
    <2>3. /\ a # None /\ Exists(a) /\ message[a].kind = "request"
          /\ message[a].to = message[r].from /\ message[a].from = message[r].to
      BY <1>2, <2>2 DEF ResponsesAuthentic
    <2>4. a \in MsgId
      BY <1>2, <2>3, RowType, Columns DEF Sound
    <2>5. message'[a].state # "absent" /\ SameMail(message[a], message'[a])
      BY <1>1, <2>3, <2>4
    <2> QED
      BY <2>1, <2>3, <2>5 DEF SameMail
  <1>3. CASE ~Exists(r)
    <2>1. PICK c \in Caller, d \in Draft, t \in Nat : Inserts(c, d, t)
      <3>1. ~Rewrites
        <4>1. message[r] = NoMessage /\ message[r] \notin Message
          BY <1>3, RowType DEF Sound
        <4> QED
          BY <1>3, <4>1 DEF Rewrites, RewritesRow, Exists
      <3> QED
        BY <3>1, TypeStep DEF StepEffect
    <2>2. message' = [message EXCEPT ![FreshMessage] = Row(c, d, t)]
      BY <2>1 DEF Inserts, Insert
    <2>3. message'[r] = Row(c, d, t)
      BY <1>3, <2>2 DEF Sound, TypeOK, Exists
    <2> DEFINE a == d.reply_to
    <2>4. /\ message'[r].from = c.ep /\ message'[r].to = d.to
          /\ message'[r].reply_to = a /\ d.kind = "response"
      BY <2>3 DEF Row
    <2>5. a # None /\ a \in MsgId
      BY <2>1, <2>4 DEF Inserts, Draft
    <2>6. /\ Exists(a) /\ message[a].kind = "request"
          /\ message[a].to = c.ep /\ message[a].from = d.to
      BY <2>1, <2>5 DEF Inserts, Admissible, MayReply
    <2>7. message'[a].state # "absent" /\ SameMail(message[a], message'[a])
      BY <1>1, <2>5, <2>6
    <2> QED
      BY <2>4, <2>5, <2>6, <2>7 DEF SameMail
  <1> QED
    BY <1>2, <1>3

\* A response always answers an existing request that was addressed to its
\* author, and goes to whoever asked: both send with reply_to and respond
\* check it, and nothing rewrites the columns afterwards.
THEOREM ResponsesStayAuthentic == Spec => []ResponsesAuthentic
  <1>1. Init => ResponsesAuthentic
    BY DEF Init, ResponsesAuthentic, Exists, NoMessage
  <1> QED
    BY <1>1, ResponsesStep, SoundAlways, PTL DEF Spec

-----------------------------------------------------------------------------
(***************************************************************************)
(* The two counters of an endpoint row, and the reserve they protect        *)
(***************************************************************************)

\* Exactness of one endpoint in one pair of tables.
Exact(eps, msgs, e) ==
    /\ eps[e].pending_count = Cardinality(Charged(msgs, e))
    /\ eps[e].pending_bytes = Cardinality(ByteUnits(msgs, Charged(msgs, e)))

\* A step may leave the counters of e alone when no message of e starts or
\* stops being pending.
KeepsCharge(e) ==
    /\ endpoint'[e].pending_count = endpoint[e].pending_count
    /\ endpoint'[e].pending_bytes = endpoint[e].pending_bytes
    /\ \A m \in MsgId : message[m].to = e \/ message'[m].to = e =>
            (message'[m].state \in Pending <=> message[m].state \in Pending)

Accounts(e) == Exact(endpoint', message', e) \/ KeepsCharge(e)

\* Bytes depend on the bodies alone.
LEMMA SameBytes ==
    ASSUME NEW msgs, NEW new, NEW S, \A m \in S : new[m].body = msgs[m].body
    PROVE  ByteUnits(new, S) = ByteUnits(msgs, S)
  BY DEF ByteUnits

\* A rewrite charges a mailbox with nothing new.
LEMMA RewriteCharges ==
    ASSUME Sound, Rewrites, NEW e \in Endpoint
    PROVE  /\ Charged(message', e) \subseteq Charged(message, e)
           /\ \A m \in Charged(message, e) :
                /\ message'[m].body = message[m].body
                /\ message'[m].kind = message[m].kind
           /\ KeepsCharge(e) => Charged(message', e) = Charged(message, e)
  <1>1. ASSUME NEW m \in MsgId
        PROVE  /\ message'[m].to = message[m].to
               /\ message'[m].body = message[m].body
               /\ message'[m].kind = message[m].kind
               /\ message'[m].state \in Pending => message[m].state \in Pending
    BY DEF Rewrites, RewritesRow, SameMail
  <1> QED
    BY <1>1 DEF Charged, KeepsCharge

\* Counters that were exact stay exact under a step that accounts for e.
LEMMA AccountedIsExact ==
    ASSUME Sound, Rewrites, NEW e \in Endpoint, Exact(endpoint, message, e), Accounts(e)
    PROVE  Exact(endpoint', message', e)
  <1>1. CASE KeepsCharge(e)
    <2>1. Charged(message', e) = Charged(message, e)
      BY <1>1, RewriteCharges
    <2>2. ByteUnits(message', Charged(message, e)) = ByteUnits(message, Charged(message, e))
      BY RewriteCharges, SameBytes
    <2> QED
      BY <1>1, <2>1, <2>2 DEF Exact, KeepsCharge
  <1> QED
    BY <1>1 DEF Accounts

\* recount leaves exact counters behind.
LEMMA RecountIsExact ==
    ASSUME Sound, message' \in Table, NEW E, endpoint' = Recount(endpoint, message', E),
           NEW e \in E, e \in Endpoint
    PROVE  Exact(endpoint', message', e)
  BY RecountType DEF Exact, Sound, TypeOK

-----------------------------------------------------------------------------
\* Steps that write one message m and either recount its mailbox or leave it
\* pending.
LEMMA OneWriteAccounts ==
    ASSUME Sound, Rewrites, NEW m \in MsgId, message[m].state \in Pending,
           \A n \in MsgId : n # m => message'[n] = message[n],
           \/ endpoint' = Recount(endpoint, message', {message[m].to})
           \/ endpoint' = endpoint /\ message'[m].state \in Pending,
           NEW e \in Endpoint
    PROVE  Accounts(e)
  <1>1. message' \in Table
    BY DEF Rewrites
  <1>2. message[m] \in Message
    BY RowType DEF Sound
  <1>3. message'[m].to = message[m].to
    BY DEF Rewrites, RewritesRow, SameMail
  <1>4. CASE endpoint' = endpoint /\ message'[m].state \in Pending
    BY <1>4 DEF Accounts, KeepsCharge
  <1>5. CASE endpoint' = Recount(endpoint, message', {message[m].to})
    <2>1. CASE e = message[m].to
      BY <1>1, <1>5, <2>1, RecountIsExact DEF Accounts
    <2>2. CASE e # message[m].to
      <3>1. endpoint'[e] = endpoint[e]
        BY <1>1, <1>5, <2>2, RecountType DEF Sound, TypeOK
      <3> QED
        BY <1>3, <2>2, <3>1 DEF Accounts, KeepsCharge
    <2> QED
      BY <2>1, <2>2
  <1> QED
    BY <1>4, <1>5

\* Steps that change no message and no counter.
LEMMA QuietAccounts ==
    ASSUME Sound, message' = message, NEW e \in Endpoint,
           endpoint'[e].pending_count = endpoint[e].pending_count,
           endpoint'[e].pending_bytes = endpoint[e].pending_bytes
    PROVE  Accounts(e)
  BY DEF Accounts, KeepsCharge

\* bind, unbind and the local user's first command.
LEMMA BindingAccounts ==
    ASSUME Sound, NEW e \in Endpoint,
           \/ \E x \in Endpoint : Bind(x)
           \/ \E x \in Endpoint, i \in Incarnation : Unbind(x, i)
           \/ \E p \in Proc : LocalUser(p)
    PROVE  Accounts(e)
  <1>1. endpoint \in [Endpoint -> EndpointRow]
    BY DEF Sound, TypeOK
  <1>2. /\ endpoint'[e].pending_count = endpoint[e].pending_count
        /\ endpoint'[e].pending_bytes = endpoint[e].pending_bytes
    <2>1. ASSUME NEW x \in Endpoint, NEW i \in Owner,
                 Rebinds(endpoint', endpoint, x, i)
          PROVE  /\ endpoint'[e].pending_count = endpoint[e].pending_count
                 /\ endpoint'[e].pending_bytes = endpoint[e].pending_bytes
      <3>1. i \in Owner \cup {None}
        OBVIOUS
      <3> QED
        BY <1>1, <2>1, <3>1, BindingWritten
    <2>2. CASE \E x \in Endpoint : Bind(x)
      <3> PICK x \in Endpoint : Bind(x)
        BY <2>2
      <3>1. FreshIncarnation \in Owner
        BY FreshOwner DEF Bind, Sound, TypeOK, Owner
      <3>2. Rebinds(endpoint', endpoint, x, FreshIncarnation)
        BY DEF Bind, Rebinds
      <3> QED
        BY <2>1, <3>1, <3>2
    <2>3. CASE \E x \in Endpoint, i \in Incarnation : Unbind(x, i)
      <3> PICK x \in Endpoint, i \in Incarnation : Unbind(x, i)
        BY <2>3
      <3>1. Unbinds(endpoint', endpoint, x)
        BY DEF Unbind, Unbinds
      <3> QED
        BY <1>1, <3>1, BindingCleared
    <2>4. CASE \E p \in Proc : LocalUser(p)
      <3> PICK p \in Proc : LocalUser(p)
        BY <2>4
      <3>1. Env[p] \in Endpoint /\ Env[p] \in Owner
        BY BoundsAssumption DEF LocalUser, Owner
      <3>2. Rebinds(endpoint', endpoint, Env[p], Env[p])
        BY DEF LocalUser, Rebinds
      <3> QED
        BY <2>1, <3>1, <3>2
    <2> QED
      BY <2>2, <2>3, <2>4
  <1>3. CASE message' = message
    BY <1>2, <1>3, QuietAccounts
  <1>4. ASSUME NEW x \in Endpoint, NEW i \in Incarnation, Unbind(x, i)
        PROVE  Accounts(e)
    <2>1. ASSUME NEW m \in MsgId
          PROVE  message'[m].state \in Pending <=> message[m].state \in Pending
      <3>1. message'[m] = message[m] \/ (/\ message[m].state = "claimed"
                                         /\ message'[m] = Requeued(message[m]))
        BY <1>4 DEF Unbind
      <3>2. message[m].state = "claimed" => Requeued(message[m]).state = "queued"
        BY RowType, RequeuedRow DEF Sound, Pending
      <3> QED
        BY <3>1, <3>2 DEF Pending
    <2> QED
      BY <1>2, <2>1 DEF Accounts, KeepsCharge
  <1> QED
    BY <1>3, <1>4 DEF Bind, LocalUser

\* claim: only the consumption of a notice ends a charge, and it recounts.
LEMMA ClaimAccounts ==
    ASSUME Sound, NEW p \in Proc, ClaimTx(p), NEW e \in Endpoint
    PROVE  Accounts(e)
  <1> DEFINE c == caller[p]
             t == op[p].at
  <1>1. c \in Caller /\ t \in Nat
    BY ClaimWrites
  <1>2. Rewrites
    BY ClaimStep
  <1>3. ASSUME NEW m \in MsgId
        PROVE  Reclaimed(t)[m].state \in Pending <=> message[m].state \in Pending
    BY <1>1, ReclaimedRows DEF Sound, Pending
  <1>4. Reclaimed(t) \in Table
    BY <1>1, ReclaimedRows DEF Sound
  <1>5. CASE message' = Reclaimed(t) /\ endpoint' = endpoint
    BY <1>3, <1>5 DEF Accounts, KeepsCharge
  <1>6. ASSUME NEW m \in Claimable(c.ep, t),
               message' = [Reclaimed(t) EXCEPT
                                ![m] = Settled(Reclaimed(t)[m], "consumed")],
               endpoint' = Recount(endpoint, message', {c.ep})
        PROVE  Accounts(e)
    <2>1. CASE e = c.ep
      BY <1>2, <1>6, <2>1, RecountIsExact DEF Accounts, Rewrites
    <2>2. CASE e # c.ep
      <3>1. endpoint'[e] = endpoint[e]
        BY <1>2, <1>6, <2>2, RecountType DEF Sound, TypeOK, Rewrites
      <3>2. m \in MsgId /\ message[m].to = c.ep
        BY <1>6 DEF Claimable
      <3>3. message'[m].to = c.ep
        BY <1>2, <3>2 DEF Rewrites, RewritesRow, SameMail
      <3>4. \A n \in MsgId : n # m => message'[n] = Reclaimed(t)[n]
        BY <1>4, <1>6 DEF Table
      <3> QED
        BY <1>3, <2>2, <3>1, <3>2, <3>3, <3>4 DEF Accounts, KeepsCharge
    <2> QED
      BY <2>1, <2>2
  <1>7. ASSUME NEW m \in Claimable(c.ep, t), NEW u \in Nat,
               message' = [Reclaimed(t) EXCEPT
                                ![m] = LeasedRow(Reclaimed(t)[m], c.inc, u)],
               endpoint' = endpoint
        PROVE  Accounts(e)
    <2>1. m \in MsgId /\ Exists(m) /\ Reclaimed(t)[m].state = "queued"
      BY <1>7 DEF Claimable
    <2>2. Reclaimed(t)[m] \in Message
      BY <1>1, <2>1, ReclaimedRows DEF Sound
    <2>3. c.inc \in Owner
      BY <1>1 DEF Caller
    <2>4. LeasedRow(Reclaimed(t)[m], c.inc, u).state = "claimed"
      BY <2>2, <2>3, LeasedRowType
    <2>5. message'[m].state = "claimed"
      BY <1>4, <1>7, <2>1, <2>4 DEF Table
    <2>6. \A n \in MsgId : n # m => message'[n] = Reclaimed(t)[n]
      BY <1>4, <1>7 DEF Table
    <2>7. message[m].state \in Pending
      BY <1>3, <2>1 DEF Pending
    <2>8. \A n \in MsgId : message'[n].state \in Pending <=> message[n].state \in Pending
      BY <1>3, <2>5, <2>6, <2>7 DEF Pending
    <2> QED
      BY <1>7, <2>8 DEF Accounts, KeepsCharge
  <1> QED
    BY <1>5, <1>6, <1>7, ClaimWrites

\* respond, cancel and confirm_interrupt: what leaves the pending states is
\* recounted at its own recipient.
LEMMA WritesAccount ==
    ASSUME Sound, NEW p \in Proc, RespondRetire(p) \/ CancelTx(p) \/ ConfirmInterrupt(p),
           NEW e \in Endpoint
    PROVE  Accounts(e)
  <1> DEFINE m == op[p].request
  <1>1. op[p] \in Op /\ m \in MsgId
    BY OpShape DEF Sound, TypeOK, RespondRetire, CancelTx, ConfirmInterrupt
  <1>2. Rewrites
    BY WritingSteps
  <1>3. message \in Table
    BY DEF Sound, TypeOK, Table
  <1>4. CASE UNCHANGED <<message, endpoint>>
    BY <1>4, QuietAccounts
  <1>5. CASE /\ message[m].state \in Pending
             /\ \A n \in MsgId : n # m => message'[n] = message[n]
             /\ \/ endpoint' = Recount(endpoint, message', {message[m].to})
                \/ endpoint' = endpoint /\ message'[m].state \in Pending
    <2> HIDE DEF m
    <2> QED
      BY <1>1, <1>2, <1>5, OneWriteAccounts
  <1>6. CASE RespondRetire(p)
    <2>1. message[m].to = caller[p].ep
      BY <1>6 DEF Sound, OperationsSound, RespondRetire
    <2> QED
      BY <1>3, <1>4, <1>5, <1>6, <2>1 DEF RespondRetire, Table
  <1>7. CASE CancelTx(p)
    <2>1. CASE /\ message[m].state \in {"claimed", "delivered"}
               /\ message' = [message EXCEPT ![m].state = "cancellation_requested"]
               /\ endpoint' = endpoint
      <3>1. message[m] \in Message
        BY <1>1, <2>1, RowType DEF Sound, Pending
      <3>2. message' = [message EXCEPT
                            ![m] = [message[m] EXCEPT !.state = "cancellation_requested"]]
        BY <2>1
      <3>3. message'[m].state \in Pending
        BY <1>1, <1>3, <3>1, <3>2, StateWritten DEF Pending, Table
      <3> QED
        BY <1>3, <1>5, <2>1, <3>3 DEF Table, Pending
    <2> QED
      BY <1>3, <1>4, <1>5, <1>7, <2>1 DEF CancelTx, Table, Pending
  <1>8. CASE ConfirmInterrupt(p)
    BY <1>3, <1>4, <1>5, <1>8 DEF ConfirmInterrupt, Table, Pending
  <1> QED
    BY <1>6, <1>7, <1>8

\* sweep: an endpoint it does not recount lost nothing to expiry.
LEMMA SweepAccounts ==
    ASSUME Sound, Sweep, NEW e \in Endpoint
    PROVE  Accounts(e)
  <1>1. Rewrites
    BY SweepStep
  <1>2. now \in Nat
    BY DEF Sound, TypeOK
  <1>3. ASSUME NEW m \in MsgId
        PROVE  \/ message'[m].state \in Pending <=> message[m].state \in Pending
               \/ message'[m].state = "expired" /\ message[m].state # "expired"
    <2>1. message'[m] = SweptRow(m, now)
      BY DEF Sweep
    <2> QED
      BY <1>2, <2>1, SweptRowIs, ReclaimedRows DEF Sound, Pending
  <1>4. \A m \in MsgId : message'[m].to = message[m].to
    BY <1>1 DEF Rewrites, RewritesRow, SameMail
  <1> DEFINE Late == \E m \in MsgId : /\ message'[m].state = "expired"
                                      /\ message[m].state # "expired"
             E == {x \in Endpoint : \E m \in MsgId : /\ message'[m].state = "expired"
                                                     /\ message'[m].to = x}
  <1>5. CASE Late /\ e \in E
    <2>1. endpoint' = Recount(endpoint, message', E)
      BY <1>5 DEF Sweep
    <2> HIDE DEF E
    <2> QED
      BY <1>1, <1>5, <2>1, RecountIsExact DEF Accounts, Rewrites
  <1>6. CASE Late /\ e \notin E
    <2>1. endpoint' = Recount(endpoint, message', E)
      BY <1>6 DEF Sweep
    <2>2. endpoint'[e] = endpoint[e]
      <3> HIDE DEF E
      <3> QED
        BY <1>1, <1>6, <2>1, RecountType DEF Sound, TypeOK, Rewrites
    <2>3. \A m \in MsgId : message'[m].to = e => message'[m].state # "expired"
      BY <1>6
    <2> QED
      BY <1>3, <1>4, <2>2, <2>3 DEF Accounts, KeepsCharge
  <1>7. CASE ~Late
    <2>1. endpoint' = endpoint
      BY <1>7 DEF Sweep
    <2> QED
      BY <1>3, <1>7, <2>1 DEF Accounts, KeepsCharge
  <1> QED
    BY <1>5, <1>6, <1>7

-----------------------------------------------------------------------------
\* Every step that inserts nothing accounts for every endpoint.
LEMMA EveryStepAccounts ==
    ASSUME Sound, [Next]_vars, ~\E c \in Caller, d \in Draft, t \in Nat : Inserts(c, d, t)
    PROVE  Rewrites /\ \A e \in Endpoint : Accounts(e)
  <1>1. Rewrites
    BY TypeStep DEF StepEffect
  <1> SUFFICES ASSUME NEW e \in Endpoint
               PROVE  Accounts(e)
    BY <1>1
  <1>2. CASE UNCHANGED <<message, endpoint>>
    BY <1>2, QuietAccounts
  <1>3. CASE \/ \E x \in Agent : Bind(x)
             \/ \E x \in Agent, i \in Incarnation : Unbind(x, i)
             \/ \E p \in Proc : LocalUser(p)
    BY <1>3, BindingAccounts DEF Endpoint
  <1>4. CASE \E p \in Proc, d \in ClientDraft : Send(p, d)
    BY <1>4, SendStep
  <1>5. CASE \E p \in Proc : ClaimTx(p)
    BY <1>5, ClaimAccounts
  <1>6. CASE \E p \in Proc : RespondRetire(p) \/ CancelTx(p) \/ ConfirmInterrupt(p)
    BY <1>6, WritesAccount
  <1>7. CASE Sweep
    BY <1>7, SweepAccounts
  <1>8. CASE \E p \in Proc : RespondSend(p)
    BY <1>2, <1>8, RespondSendStep
  <1>9. CASE \/ \E p \in Proc : \/ Authenticate(p) \/ Exit(p) \/ ClaimCheck(p)
                                \/ InterruptTarget(p) \/ Abort(p)
             \/ \E x \in Endpoint, pol \in Policies : SetPolicy(x, pol)
             \/ \E p \in Proc, m \in MsgId, body \in Body :
                    \E key \in ReplyKey[m] : RespondCheck(p, m, body, key)
             \/ \E p \in Proc, m \in MsgId : CancelCheck(p, m)
             \/ Tick
    BY <1>2, <1>9 DEF Authenticate, Exit, ClaimCheck, InterruptTarget, Abort, SetPolicy,
                      RespondCheck, CancelCheck, Tick, storeVars
  <1> QED
    BY <1>2, <1>3, <1>4, <1>5, <1>6, <1>7, <1>8, <1>9 DEF Next, vars

\* What send adds to the charge of its recipient, and to nobody else's.
LEMMA InsertCharges ==
    ASSUME Sound, NEW c \in Caller, NEW d \in Draft, NEW t \in Nat,
           Inserts(c, d, t)
    PROVE  /\ FreshMessage \notin Charged(message, d.to)
           /\ Charged(message', d.to) = Charged(message, d.to) \cup {FreshMessage}
           /\ \A e \in Endpoint : e # d.to => Charged(message', e) = Charged(message, e)
           /\ \A m \in MsgId : m # FreshMessage => message'[m] = message[m]
           /\ message'[FreshMessage] = Row(c, d, t)
  <1> DEFINE f == FreshMessage
             row == Row(c, d, t)
  <1>1. /\ f \in MsgId /\ ~Exists(f)
        /\ message' = [message EXCEPT ![f] = row]
    <2>1. f \in MsgId /\ ~Exists(f) /\ InsertsRow(c, d, t)
      BY InsertFacts
    <2> QED
      BY <2>1 DEF InsertsRow
  <1>2. row.to = d.to /\ row.state \in Pending
    BY DEF Row, Pending
  <1>3. message[f].state \notin Pending
    BY <1>1 DEF Exists, Pending
  <1>4. message \in Table
    BY DEF Sound, TypeOK, Table
  <1> HIDE DEF f, row
  <1>5. \A m \in MsgId : message'[m] = IF m = f THEN row ELSE message[m]
    BY <1>1, <1>4 DEF Table
  <1>6. /\ f \notin Charged(message, d.to)
        /\ Charged(message', d.to) = Charged(message, d.to) \cup {f}
        /\ \A e \in Endpoint : e # d.to => Charged(message', e) = Charged(message, e)
        /\ \A m \in MsgId : m # f => message'[m] = message[m]
        /\ message'[f] = row
    BY <1>1, <1>2, <1>3, <1>5 DEF Charged
  <1> QED
    BY <1>6 DEF f, row

\* The counters send adds to stay exact.
LEMMA InsertIsExact ==
    ASSUME Sound, CountersExact, NEW c \in Caller, NEW d \in Draft, NEW t \in Nat,
           Inserts(c, d, t),
           NEW e \in Endpoint
    PROVE  Exact(endpoint', message', e)
  <1> DEFINE f == FreshMessage
             S == Charged(message, e)
  <1>1. /\ f \in MsgId
        /\ message' \in Table
        /\ endpoint' = [endpoint EXCEPT ![d.to] = InsertedInto(d)]
        /\ Row(c, d, t) \in Message
    <2>1. f \in MsgId /\ message' \in Table /\ Row(c, d, t) \in Message /\ InsertsRow(c, d, t)
      BY InsertFacts
    <2> QED
      BY <2>1 DEF InsertsRow
  <1>2. endpoint \in [Endpoint -> EndpointRow] /\ message \in Table
    BY DEF Sound, TypeOK, Table
  <1>3. Exact(endpoint, message, e)
    BY DEF CountersExact, Exact
  <1>4. /\ IsFiniteSet(S) /\ IsFiniteSet(ByteUnits(message, S))
        /\ S \in SUBSET MsgId
        /\ Cardinality(S) \in Nat /\ Cardinality(ByteUnits(message, S)) \in Nat
    BY <1>2, ChargedFinite
  <1>5. d.to \in Endpoint /\ d.body \in Body
    BY DEF Draft
  <1>6. Bytes[d.body] \in Nat
    BY <1>5, BoundsAssumption
  <1>7. CASE e # d.to
    <2>1. Charged(message', e) = S
      BY <1>7, InsertCharges
    <2>2. f \notin S
      <3>1. ~Exists(f)
        BY InsertFacts
      <3> QED
        BY <3>1 DEF Charged, Exists, Pending
    <2>3. \A m \in S : message'[m].body = message[m].body
      BY <1>4, <2>2, InsertCharges
    <2>4. ByteUnits(message', S) = ByteUnits(message, S)
      BY <2>3, SameBytes
    <2>5. endpoint'[e] = endpoint[e]
      BY <1>1, <1>2, <1>7
    <2> QED
      BY <1>3, <2>1, <2>4, <2>5 DEF Exact
  <1>8. CASE e = d.to
    <2>1. f \notin S /\ Charged(message', e) = S \cup {f}
      BY <1>8, InsertCharges
    <2>2. message'[f].body = d.body
      <3>1. message'[f] = Row(c, d, t)
        BY InsertCharges
      <3> QED
        BY <3>1 DEF Row
    <2>3. \A m \in S : message'[m].body = message[m].body
      BY <1>4, <2>1, InsertCharges
    <2>4. ByteUnits(message', S) = ByteUnits(message, S)
      BY <2>3, SameBytes
    <2>5. ByteUnits(message', S \cup {f}) = ByteUnits(message', S) \cup BytesOf(message', f)
      BY DEF ByteUnits, BytesOf
    <2>6. ByteUnits(message', S) \cap BytesOf(message', f) = {}
      BY <2>1 DEF ByteUnits, BytesOf
    <2>7. /\ IsFiniteSet(BytesOf(message', f))
          /\ Cardinality(BytesOf(message', f)) = Bytes[d.body]
      BY <1>5, <2>2, BytesOfOne
    <2>8. Cardinality(ByteUnits(message', S \cup {f}))
                = Cardinality(ByteUnits(message, S)) + Bytes[d.body]
      <3> DEFINE A == ByteUnits(message, S)
                 B == BytesOf(message', f)
      <3>1. ByteUnits(message', S \cup {f}) = A \cup B /\ A \cap B = {}
        BY <2>4, <2>5, <2>6
      <3>2. /\ IsFiniteSet(A) /\ Cardinality(A) \in Nat
            /\ IsFiniteSet(B) /\ Cardinality(B) \in Nat
        BY <1>4, <1>6, <2>7
      <3> HIDE DEF A, B
      <3>3. Cardinality(A \cup B) = Cardinality(A) + Cardinality(B) - Cardinality(A \cap B)
        BY <3>2, FS_Union
      <3>4. Cardinality(A \cap B) = 0
        BY <3>1, FS_EmptySet, Zenon
      <3>5. Cardinality(A \cup B) = Cardinality(A) + Cardinality(B)
        BY <3>2, <3>3, <3>4
      <3> QED
        BY <2>7, <3>1, <3>5, Zenon DEF A, B
    <2>9. Cardinality(S \cup {f}) = Cardinality(S) + 1
      BY <1>4, <2>1, FS_AddElement
    <2>10. endpoint'[e] = InsertedInto(d)
      BY <1>1, <1>2, <1>8
    <2>11. /\ InsertedInto(d).pending_count = endpoint[e].pending_count + 1
           /\ InsertedInto(d).pending_bytes = endpoint[e].pending_bytes + Bytes[d.body]
      BY <1>2, <1>8 DEF InsertedInto, Counters, EndpointRow
    <2> QED
      BY <1>3, <2>1, <2>8, <2>9, <2>10, <2>11 DEF Exact
  <1> QED
    BY <1>7, <1>8

\* Exactness is inductive.
LEMMA CountersStep ==
    ASSUME Sound, CountersExact, [Next]_vars
    PROVE  CountersExact'
  <1> SUFFICES ASSUME NEW e \in Endpoint
               PROVE  Exact(endpoint', message', e)
    BY DEF CountersExact, Exact
  <1>1. CASE \E c \in Caller, d \in Draft, t \in Nat : Inserts(c, d, t)
    BY <1>1, InsertIsExact
  <1>2. CASE ~\E c \in Caller, d \in Draft, t \in Nat : Inserts(c, d, t)
    <2>1. Exact(endpoint, message, e)
      BY DEF CountersExact, Exact
    <2> QED
      BY <1>2, <2>1, EveryStepAccounts, AccountedIsExact
  <1> QED
    BY <1>1, <1>2

\* pending_count and pending_bytes of an endpoint row are at all times the
\* number and the bytes of its pending messages, although send adds to them,
\* recount recomputes them and unbind, reclaim and cancel leave them alone.
THEOREM CountersStayExact == Spec => []CountersExact
  <1>1. Init => CountersExact
    <2> SUFFICES ASSUME Init, NEW e \in Endpoint
                 PROVE  Exact(endpoint, message, e)
      BY DEF CountersExact, Exact
    <2>1. Charged(message, e) = {}
      BY DEF Init, Charged, NoMessage, Pending
    <2>2. ByteUnits(message, {}) = {}
      BY DEF ByteUnits
    <2> QED
      BY <2>1, <2>2, FS_EmptySet DEF Init, Exact, NoEndpoint
  <1> QED
    BY <1>1, CountersStep, SoundAlways, PTL DEF Spec

-----------------------------------------------------------------------------
(***************************************************************************)
(* The reserve                                                              *)
(***************************************************************************)

\* Fewer messages of the same bodies are fewer messages and fewer bytes.
LEMMA FewerBytes ==
    ASSUME NEW msgs, NEW new, NEW S \in SUBSET MsgId, NEW T \in SUBSET S,
           \A m \in S : msgs[m].body \in Body /\ new[m].body = msgs[m].body
    PROVE  /\ Cardinality(T) \in Nat /\ Cardinality(S) \in Nat
           /\ Cardinality(T) =< Cardinality(S)
           /\ Cardinality(ByteUnits(new, T)) \in Nat
           /\ Cardinality(ByteUnits(msgs, S)) \in Nat
           /\ Cardinality(ByteUnits(new, T)) =< Cardinality(ByteUnits(msgs, S))
  <1>1. IsFiniteSet(S)
    BY MsgIdFinite, FS_Subset
  <1>2. IsFiniteSet(T) /\ Cardinality(T) =< Cardinality(S)
    BY <1>1, FS_Subset
  <1>3. IsFiniteSet(ByteUnits(msgs, S))
    BY BytesFinite
  <1>4. ByteUnits(new, T) = ByteUnits(msgs, T)
    BY SameBytes
  <1>5. ByteUnits(msgs, T) \in SUBSET ByteUnits(msgs, S)
    BY DEF ByteUnits
  <1>6. /\ IsFiniteSet(ByteUnits(msgs, T))
        /\ Cardinality(ByteUnits(msgs, T)) =< Cardinality(ByteUnits(msgs, S))
    BY <1>3, <1>5, FS_Subset
  <1>7. /\ Cardinality(T) \in Nat /\ Cardinality(S) \in Nat
        /\ Cardinality(ByteUnits(msgs, T)) \in Nat
        /\ Cardinality(ByteUnits(msgs, S)) \in Nat
    BY <1>1, <1>2, <1>3, <1>6, FS_CardinalityType
  <1>8. Cardinality(ByteUnits(new, T)) = Cardinality(ByteUnits(msgs, T))
    BY <1>4, Zenon
  <1> QED
    BY <1>2, <1>6, <1>7, <1>8

\* The requests and notices among the messages a table charges.
OrdinaryIn(msgs, e) == {m \in Charged(msgs, e) : msgs[m].kind # "response"}

\* The reserve is kept for one endpoint of one pair of tables.
Reserved(eps, msgs, e) ==
    /\ Cardinality(OrdinaryIn(msgs, e)) =< MaxPendingCount
    /\ Cardinality(ByteUnits(msgs, OrdinaryIn(msgs, e))) =< MaxPendingBytes
    /\ eps[e].pending_count =< MaxPendingCount + ReservedCount
    /\ eps[e].pending_bytes =< MaxPendingBytes + ReservedBytes

\* A step that inserts nothing only frees room.
LEMMA RewriteReserves ==
    ASSUME Sound, Rewrites, NEW e \in Endpoint, Exact(endpoint, message, e),
           Exact(endpoint', message', e), Reserved(endpoint, message, e)
    PROVE  Reserved(endpoint', message', e)
  <1> DEFINE S == Charged(message, e)
             T == Charged(message', e)
             SO == OrdinaryIn(message, e)
             TO == OrdinaryIn(message', e)
  <1>1. message \in Table
    BY DEF Sound, TypeOK, Table
  <1>2. /\ T \subseteq S
        /\ \A m \in S : message'[m].body = message[m].body
        /\ \A m \in S : message'[m].kind = message[m].kind
    BY RewriteCharges
  <1>3. S \in SUBSET MsgId /\ \A m \in S : message[m].body \in Body
    BY <1>1, ChargedFinite
  <1>4. SO \in SUBSET S /\ TO \in SUBSET SO
    BY <1>2 DEF OrdinaryIn
  <1> HIDE DEF S, T, SO, TO
  <1>5. /\ Cardinality(T) =< Cardinality(S)
        /\ Cardinality(ByteUnits(message', T)) =< Cardinality(ByteUnits(message, S))
        /\ Cardinality(T) \in Nat /\ Cardinality(S) \in Nat
        /\ Cardinality(ByteUnits(message', T)) \in Nat
        /\ Cardinality(ByteUnits(message, S)) \in Nat
    BY <1>2, <1>3, FewerBytes
  <1>6. SO \in SUBSET MsgId /\ \A m \in SO : /\ message[m].body \in Body
                                             /\ message'[m].body = message[m].body
    BY <1>2, <1>3, <1>4
  <1>7. /\ Cardinality(TO) =< Cardinality(SO)
        /\ Cardinality(ByteUnits(message', TO)) =< Cardinality(ByteUnits(message, SO))
        /\ Cardinality(TO) \in Nat /\ Cardinality(SO) \in Nat
        /\ Cardinality(ByteUnits(message', TO)) \in Nat
        /\ Cardinality(ByteUnits(message, SO)) \in Nat
    BY <1>4, <1>6, FewerBytes
  <1>8. /\ endpoint[e].pending_count = Cardinality(S)
        /\ endpoint[e].pending_bytes = Cardinality(ByteUnits(message, S))
        /\ endpoint'[e].pending_count = Cardinality(T)
        /\ endpoint'[e].pending_bytes = Cardinality(ByteUnits(message', T))
    BY DEF Exact, S, T
  <1>9. /\ Cardinality(SO) =< MaxPendingCount
        /\ Cardinality(ByteUnits(message, SO)) =< MaxPendingBytes
        /\ endpoint[e].pending_count =< MaxPendingCount + ReservedCount
        /\ endpoint[e].pending_bytes =< MaxPendingBytes + ReservedBytes
    BY DEF Reserved, SO
  <1>10. /\ Cardinality(TO) =< MaxPendingCount
         /\ Cardinality(ByteUnits(message', TO)) =< MaxPendingBytes
    BY <1>7, <1>9, BoundsAssumption
  <1>11. /\ endpoint'[e].pending_count =< MaxPendingCount + ReservedCount
         /\ endpoint'[e].pending_bytes =< MaxPendingBytes + ReservedBytes
    BY <1>5, <1>8, <1>9, BoundsAssumption
  <1> QED
    BY <1>10, <1>11 DEF Reserved, TO

\* What send admits leaves the reserve to responses.
LEMMA InsertReserves ==
    ASSUME Sound, CountersExact, NEW c \in Caller, NEW d \in Draft, NEW t \in Nat,
           Inserts(c, d, t),
           NEW e \in Endpoint, Reserved(endpoint, message, e)
    PROVE  Reserved(endpoint', message', e)
  <1> DEFINE f == FreshMessage
             S == Charged(message, e)
             T == Charged(message', e)
             SO == OrdinaryIn(message, e)
             TO == OrdinaryIn(message', e)
  <1>1. /\ f \in MsgId /\ ~Exists(f)
        /\ message' \in Table
        /\ endpoint' = [endpoint EXCEPT ![d.to] = InsertedInto(d)]
    <2>1. f \in MsgId /\ ~Exists(f) /\ message' \in Table /\ InsertsRow(c, d, t)
      BY InsertFacts
    <2> QED
      BY <2>1 DEF InsertsRow
  <1>2. endpoint \in [Endpoint -> EndpointRow] /\ message \in Table
    BY DEF Sound, TypeOK, Table
  <1>3. /\ S \in SUBSET MsgId /\ \A m \in S : message[m].body \in Body
        /\ T \in SUBSET MsgId /\ \A m \in T : message'[m].body \in Body
    BY <1>1, <1>2, ChargedFinite
  <1>4. f \notin S
    BY <1>1 DEF Charged, Exists, Pending
  <1>5. \A m \in S : message'[m] = message[m]
    BY <1>3, <1>4, InsertCharges
  <1>6. Exact(endpoint', message', e)
    BY InsertIsExact
  <1>7. CASE e # d.to \/ d.kind = "response"
    <2>1. TO = SO
      <3>1. CASE e # d.to
        <4>1. T = S
          BY <3>1, InsertCharges
        <4> QED
          BY <1>5, <4>1 DEF OrdinaryIn
      <3>2. CASE e = d.to /\ d.kind = "response"
        <4>1. T = S \cup {f}
          BY <3>2, InsertCharges
        <4>2. message'[f] = Row(c, d, t)
          BY InsertCharges
        <4>3. message'[f].kind = "response"
          BY <3>2, <4>2 DEF Row
        <4> QED
          BY <1>5, <4>1, <4>3 DEF OrdinaryIn
      <3> QED
        BY <1>7, <3>1, <3>2
    <2>2. ByteUnits(message', SO) = ByteUnits(message, SO)
      <3>1. \A m \in SO : message'[m].body = message[m].body
        BY <1>5 DEF OrdinaryIn
      <3> QED
        BY <3>1, SameBytes
    <2>3. /\ Cardinality(TO) =< MaxPendingCount
          /\ Cardinality(ByteUnits(message', TO)) =< MaxPendingBytes
      <3>1. /\ Cardinality(TO) = Cardinality(SO)
            /\ Cardinality(ByteUnits(message', TO)) = Cardinality(ByteUnits(message, SO))
        BY <2>1, <2>2, Zenon
      <3> QED
        BY <3>1 DEF Reserved
    <2>4. /\ endpoint'[e].pending_count =< MaxPendingCount + ReservedCount
          /\ endpoint'[e].pending_bytes =< MaxPendingBytes + ReservedBytes
      <3>1. CASE e # d.to
        BY <1>1, <1>2, <3>1 DEF Reserved
      <3>2. CASE e = d.to /\ d.kind = "response"
        <4>1. endpoint'[e] = InsertedInto(d)
          BY <1>1, <1>2, <3>2
        <4>2. /\ InsertedInto(d).pending_count = endpoint[e].pending_count + 1
              /\ InsertedInto(d).pending_bytes = endpoint[e].pending_bytes + Bytes[d.body]
          BY <1>2, <3>2 DEF InsertedInto, Counters, EndpointRow
        <4>3. /\ endpoint[e].pending_count + 1 =< MaxPendingCount + ReservedCount
              /\ endpoint[e].pending_bytes + Bytes[d.body]
                        =< MaxPendingBytes + ReservedBytes
          BY <3>2 DEF Inserts, Admissible, WithinQuota
        <4> QED
          BY <4>1, <4>2, <4>3
      <3> QED
        BY <1>7, <3>1, <3>2
    <2> QED
      BY <2>3, <2>4 DEF Reserved
  <1>8. CASE e = d.to /\ d.kind # "response"
    <2>1. endpoint'[e] = InsertedInto(d)
      BY <1>1, <1>2, <1>8
    <2>2. /\ InsertedInto(d).pending_count = endpoint[e].pending_count + 1
          /\ InsertedInto(d).pending_bytes = endpoint[e].pending_bytes + Bytes[d.body]
      BY <1>2, <1>8 DEF InsertedInto, Counters, EndpointRow
    <2>3. /\ endpoint[e].pending_count + 1 =< MaxPendingCount + 0
          /\ endpoint[e].pending_bytes + Bytes[d.body] =< MaxPendingBytes + 0
      BY <1>8 DEF Inserts, Admissible, WithinQuota
    <2>4. /\ endpoint'[e].pending_count =< MaxPendingCount
          /\ endpoint'[e].pending_bytes =< MaxPendingBytes
      BY <2>1, <2>2, <2>3, BoundsAssumption
    <2>5. TO \in SUBSET T
      BY DEF OrdinaryIn
    <2> HIDE DEF T, TO
    <2>6. /\ Cardinality(TO) =< Cardinality(T)
          /\ Cardinality(ByteUnits(message', TO)) =< Cardinality(ByteUnits(message', T))
          /\ Cardinality(TO) \in Nat /\ Cardinality(T) \in Nat
          /\ Cardinality(ByteUnits(message', TO)) \in Nat
          /\ Cardinality(ByteUnits(message', T)) \in Nat
      BY <1>3, <2>5, FewerBytes
    <2>7. /\ endpoint'[e].pending_count = Cardinality(T)
          /\ endpoint'[e].pending_bytes = Cardinality(ByteUnits(message', T))
      BY <1>6 DEF Exact, T
    <2>8. /\ Cardinality(TO) =< MaxPendingCount
          /\ Cardinality(ByteUnits(message', TO)) =< MaxPendingBytes
      BY <2>4, <2>6, <2>7, BoundsAssumption
    <2>9. /\ endpoint'[e].pending_count =< MaxPendingCount + ReservedCount
          /\ endpoint'[e].pending_bytes =< MaxPendingBytes + ReservedBytes
      BY <2>4, <2>6, <2>7, BoundsAssumption
    <2> QED
      BY <2>8, <2>9 DEF Reserved, TO
  <1> QED
    BY <1>7, <1>8

LEMMA ReserveStep ==
    ASSUME Sound, CountersExact, ReserveForResponses, [Next]_vars
    PROVE  ReserveForResponses'
  <1> SUFFICES ASSUME NEW e \in Endpoint
               PROVE  Reserved(endpoint', message', e)
    BY DEF ReserveForResponses, Reserved, Ordinary, OrdinaryIn
  <1>1. Reserved(endpoint, message, e)
    BY DEF ReserveForResponses, Reserved, Ordinary, OrdinaryIn
  <1>2. CASE \E c \in Caller, d \in Draft, t \in Nat : Inserts(c, d, t)
    BY <1>1, <1>2, InsertReserves
  <1>3. CASE ~\E c \in Caller, d \in Draft, t \in Nat : Inserts(c, d, t)
    <2>1. Exact(endpoint, message, e)
      BY DEF CountersExact, Exact
    <2>2. Rewrites /\ Accounts(e)
      BY <1>3, EveryStepAccounts
    <2> QED
      BY <1>1, <2>1, <2>2, AccountedIsExact, RewriteReserves
  <1> QED
    BY <1>2, <1>3

\* However requests and notices flood a mailbox, they never occupy the room
\* reserved for responses, and nothing exceeds the whole.
THEOREM ReserveIsKept == Spec => []ReserveForResponses
  <1>1. Init => ReserveForResponses
    <2> SUFFICES ASSUME Init, NEW e \in Endpoint
                 PROVE  Reserved(endpoint, message, e)
      BY DEF ReserveForResponses, Reserved, Ordinary, OrdinaryIn
    <2>1. OrdinaryIn(message, e) = {}
      BY DEF Init, OrdinaryIn, Charged, NoMessage, Pending
    <2>2. ByteUnits(message, {}) = {}
      BY DEF ByteUnits
    <2>3. /\ Cardinality(OrdinaryIn(message, e)) = 0
          /\ Cardinality(ByteUnits(message, OrdinaryIn(message, e))) = 0
      BY <2>1, <2>2, FS_EmptySet, Zenon
    <2>4. endpoint[e].pending_count = 0 /\ endpoint[e].pending_bytes = 0
      BY DEF Init, NoEndpoint
    <2> QED
      BY <2>3, <2>4, BoundsAssumption DEF Reserved
  <1> QED
    BY <1>1, ReserveStep, SoundAlways, CountersStayExact, PTL DEF Spec

-----------------------------------------------------------------------------
(***************************************************************************)
(* What a step may do to one message, and which process does it             *)
(***************************************************************************)

\* Its claim ends because the lease lapsed, or because its owner was unbound.
Lapses(m) == \E t \in 0 .. now : LeaseLapsed(message[m], t) /\ message'[m] = Requeued(message[m])

Unbound(m) ==
    /\ message[m].state = "claimed"
    /\ endpoint[message[m].to].incarnation = message[m].claim_owner
    /\ endpoint'[message[m].to].incarnation = None
    /\ message'[m].state = "queued"

\* A claim takes it: as work, being the oldest there is, or as a notice.
Leased(m) ==
    \E p \in Proc, t \in 0 .. now, u \in Nat :
        /\ op[p].pc = "claim" /\ m \in Claimable(caller[p].ep, t)
        /\ \A n \in Claimable(caller[p].ep, t) : message[m].sequence =< message[n].sequence
        /\ message'[m] = LeasedRow(Reclaimed(t)[m], caller[p].inc, u)

Noticed(m) ==
    \E p \in Proc :
        /\ op[p].pc = "claim" /\ caller[p].ep = message[m].to
        /\ message[m].kind = "notice" /\ message'[m].state = "consumed"

\* It is retired by who answers it, removed by who sent it, asked to stop, or
\* confirmed to have stopped.
Retired(m) ==
    \E p \in Proc : /\ op[p].pc = "retire" /\ op[p].request = m
                    /\ message[m].state \in Pending /\ message'[m].state = "consumed"

Removed(m) ==
    \E p \in Proc : /\ op[p].pc = "cancel" /\ op[p].request = m
                    /\ message[m].state = "queued" /\ message'[m].state = "cancelled"

StopAsked(m) ==
    /\ message[m].state \in {"claimed", "delivered"}
    /\ message'[m].state = "cancellation_requested"

StopConfirmed(m) ==
    /\ message[m].state = "cancellation_requested" /\ message'[m].state = "cancelled"
    /\ message[m].claim_owner # None
    /\ endpoint[message[m].to].incarnation = message[m].claim_owner

Expired(m) ==
    /\ message[m].state \in {"queued", "claimed"} /\ PastDeadline(message[m], now)
    /\ message'[m].state = "expired"

Arrived(m) == ~Exists(m) /\ message'[m].state = "queued"

Fate(m) ==
    \/ message'[m] = message[m]
    \/ Lapses(m) \/ Unbound(m) \/ Leased(m) \/ Noticed(m) \/ Retired(m) \/ Removed(m)
    \/ StopAsked(m) \/ StopConfirmed(m) \/ Expired(m) \/ Arrived(m)

\* A claim in progress read the clock before.
ClaimsInThePast == \A p \in Proc : op[p].pc = "claim" => op[p].at =< now

\* What each transaction does to a message is one of these.
LEMMA ReclaimedFate ==
    ASSUME Sound, NEW t \in 0 .. now, NEW m \in MsgId, message'[m] = Reclaimed(t)[m]
    PROVE  Fate(m)
  BY DEF Reclaimed, Fate, Lapses

LEMMA ClaimFate ==
    ASSUME Sound, ClaimsInThePast, NEW p \in Proc, ClaimTx(p), NEW m \in MsgId
    PROVE  Fate(m)
  <1> DEFINE c == caller[p]
             t == op[p].at
             S == Claimable(c.ep, t)
  <1>1. c \in Caller /\ t \in Nat /\ t \in 0 .. now /\ op[p].pc = "claim"
    <2>1. c \in Caller /\ t \in Nat
      BY ClaimWrites
    <2>2. op[p].pc = "claim"
      BY DEF ClaimTx
    <2>3. t =< now
      BY <2>2 DEF ClaimsInThePast
    <2>4. now \in Nat
      BY DEF Sound, TypeOK
    <2> QED
      BY <2>1, <2>2, <2>3, <2>4
  <1>2. Reclaimed(t) \in Table
    BY <1>1, ReclaimedRows DEF Sound
  <1>3. CASE message'[m] = Reclaimed(t)[m]
    BY <1>1, <1>3, ReclaimedFate
  <1>4. CASE /\ m \in S /\ message[m].kind = "notice"
             /\ message'[m] = Settled(Reclaimed(t)[m], "consumed")
    <2>1. message'[m].state = "consumed" /\ message[m].to = c.ep
      <3>1. Exists(m) /\ message[m].to = c.ep
        BY <1>4 DEF Claimable
      <3>2. Reclaimed(t)[m] \in Message
        BY <1>1, <3>1, ReclaimedRows DEF Sound
      <3> QED
        BY <1>4, <3>1, <3>2, SettledRow DEF Terminal
    <2> QED
      BY <1>1, <1>4, <2>1 DEF Fate, Noticed
  <1>5. CASE \E u \in Nat :
                /\ m \in S /\ \A n \in S : message[m].sequence =< message[n].sequence
                /\ message'[m] = LeasedRow(Reclaimed(t)[m], c.inc, u)
    BY <1>1, <1>5 DEF Fate, Leased
  <1>6. \A n \in S : n \in MsgId
    BY DEF Claimable
  <1> HIDE DEF S
  <1>7. \/ message' = Reclaimed(t)
        \/ \E x \in S : /\ message[x].kind = "notice"
                        /\ message' = [Reclaimed(t) EXCEPT
                                        ![x] = Settled(Reclaimed(t)[x], "consumed")]
        \/ \E x \in S, u \in Nat :
                        /\ \A n \in S : message[x].sequence =< message[n].sequence
                        /\ message' = [Reclaimed(t) EXCEPT
                                        ![x] = LeasedRow(Reclaimed(t)[x], c.inc, u)]
    BY ClaimWrites DEF S
  <1>8. CASE message' = Reclaimed(t)
    BY <1>3, <1>8
  <1>9. ASSUME NEW x \in S, message[x].kind = "notice",
               message' = [Reclaimed(t) EXCEPT ![x] = Settled(Reclaimed(t)[x], "consumed")]
        PROVE  Fate(m)
    BY <1>2, <1>3, <1>4, <1>6, <1>9 DEF Table
  <1>10. ASSUME NEW x \in S, NEW u \in Nat,
                \A n \in S : message[x].sequence =< message[n].sequence,
                message' = [Reclaimed(t) EXCEPT ![x] = LeasedRow(Reclaimed(t)[x], c.inc, u)]
         PROVE  Fate(m)
    BY <1>2, <1>3, <1>5, <1>6, <1>10 DEF Table
  <1> QED
    BY <1>7, <1>8, <1>9, <1>10

LEMMA UnbindFate ==
    ASSUME Sound, NEW e \in Agent, NEW i \in Incarnation, Unbind(e, i), NEW m \in MsgId
    PROVE  Fate(m)
  <1>1. endpoint'[e].incarnation = None
    BY DEF Unbind, Sound, TypeOK, EndpointRow, Endpoint
  <1>2. CASE message[m].state = "claimed" /\ message[m].to = e /\ message[m].claim_owner = i
    <2>1. message[m] \in Message /\ message'[m] = Requeued(message[m])
      BY <1>2, RowType DEF Unbind, Sound, Pending
    <2> QED
      BY <1>1, <1>2, <2>1, RequeuedRow DEF Unbind, Fate, Unbound
  <1>3. CASE ~(message[m].state = "claimed" /\ message[m].to = e /\ message[m].claim_owner = i)
    BY <1>3 DEF Unbind, Fate
  <1> QED
    BY <1>2, <1>3

LEMMA RetireFate ==
    ASSUME Sound, NEW p \in Proc, RespondRetire(p), NEW m \in MsgId
    PROVE  Fate(m)
  <1> DEFINE r == op[p].request
  <1>1. op[p].pc = "retire" /\ r \in MsgId /\ message \in Table
    BY OpShape DEF RespondRetire, Sound, TypeOK, Table
  <1>2. CASE message[r].state \in Pending /\ m = r
    <2>1. message[m] \in Message /\ message'[m] = Settled(message[m], "consumed")
      BY <1>1, <1>2, RowType DEF RespondRetire, Sound, Table
    <2> QED
      BY <1>1, <1>2, <2>1, SettledRow DEF Fate, Retired, Terminal
  <1>3. CASE ~(message[r].state \in Pending /\ m = r)
    BY <1>1, <1>3 DEF RespondRetire, Fate, Table
  <1> QED
    BY <1>2, <1>3

LEMMA CancelFate ==
    ASSUME Sound, NEW p \in Proc, CancelTx(p), NEW m \in MsgId
    PROVE  Fate(m)
  <1> DEFINE r == op[p].request
  <1>1. op[p].pc = "cancel" /\ r \in MsgId /\ message \in Table
    BY OpShape DEF CancelTx, Sound, TypeOK, Table
  <1>2. CASE message[r].state = "queued" /\ m = r
    <2>1. message[m] \in Message /\ message'[m] = [message[m] EXCEPT !.state = "cancelled"]
      BY <1>1, <1>2, RowType DEF CancelTx, Sound, Table, Pending
    <2> QED
      BY <1>1, <1>2, <2>1, StateWritten DEF Fate, Removed, Terminal
  <1>3. CASE message[r].state \in {"claimed", "delivered"} /\ m = r
    <2>1. /\ message[m] \in Message
          /\ message'[m] = [message[m] EXCEPT !.state = "cancellation_requested"]
      BY <1>1, <1>3, RowType DEF CancelTx, Sound, Table, Pending
    <2> QED
      BY <1>1, <1>3, <2>1, StateWritten DEF Fate, StopAsked, Pending
  <1>4. CASE ~(message[r].state \in {"queued", "claimed", "delivered"} /\ m = r)
    BY <1>1, <1>4 DEF CancelTx, Fate, Table
  <1> QED
    BY <1>2, <1>3, <1>4

LEMMA ConfirmFate ==
    ASSUME Sound, NEW p \in Proc, ConfirmInterrupt(p), NEW m \in MsgId
    PROVE  Fate(m)
  <1> DEFINE r == op[p].request
             i == op[p].target
             stops == /\ message[r].state = "cancellation_requested"
                      /\ message[r].claim_owner = i
                      /\ endpoint[message[r].to].incarnation = i
  <1>1. op[p].pc = "confirm" /\ r \in MsgId /\ i \in Owner /\ message \in Table
    BY OpShape DEF ConfirmInterrupt, Sound, TypeOK, Table
  <1>2. i # None
    BY <1>1, IdentityAssumption DEF Owner, Endpoint
  <1>3. CASE stops /\ m = r
    <2>1. message[m] \in Message /\ message'[m] = Settled(message[m], "cancelled")
      BY <1>1, <1>3, RowType DEF ConfirmInterrupt, Sound, Table, Pending
    <2> QED
      BY <1>2, <1>3, <2>1, SettledRow DEF Fate, StopConfirmed, Terminal
  <1>4. CASE ~(stops /\ m = r)
    BY <1>1, <1>4 DEF ConfirmInterrupt, Fate, Table
  <1> QED
    BY <1>3, <1>4

LEMMA SweepFate ==
    ASSUME Sound, Sweep, NEW m \in MsgId
    PROVE  Fate(m)
  <1>1. message'[m] = SweptRow(m, now)
    BY DEF Sweep
  <1>2. CASE SweptRow(m, now) = Reclaimed(now)[m]
    BY <1>1, <1>2, ReclaimedFate DEF Sound, TypeOK
  <1>3. CASE SweptRow(m, now) # Reclaimed(now)[m]
    BY <1>1, <1>3, SweptRowIs DEF Fate, Expired, Sound
  <1> QED
    BY <1>2, <1>3

LEMMA InsertFate ==
    ASSUME Sound, NEW c \in Caller, NEW d \in Draft, NEW t \in Nat, Inserts(c, d, t),
           NEW m \in MsgId
    PROVE  Fate(m)
  <1>1. /\ FreshMessage \in MsgId /\ ~Exists(FreshMessage) /\ message \in Table
        /\ message' = [message EXCEPT ![FreshMessage] = Row(c, d, t)]
    <2>1. FreshMessage \in MsgId /\ ~Exists(FreshMessage) /\ message \in Table /\ InsertsRow(c, d, t)
      BY InsertFacts
    <2> QED
      BY <2>1 DEF InsertsRow
  <1>2. Row(c, d, t).state = "queued"
    BY DEF Row
  <1> QED
    BY <1>1, <1>2 DEF Fate, Arrived, Table

\* Every step leaves every message to one of these fates.
LEMMA Fates ==
    ASSUME Sound, ClaimsInThePast, [Next]_vars, NEW m \in MsgId
    PROVE  Fate(m)
  <1>1. CASE UNCHANGED message
    BY <1>1 DEF Fate
  <1>2. CASE \E c \in Caller, d \in Draft, t \in Nat : Inserts(c, d, t)
    BY <1>2, InsertFate
  <1>3. CASE \E e \in Agent, i \in Incarnation : Unbind(e, i)
    BY <1>3, UnbindFate
  <1>4. CASE \E p \in Proc : ClaimTx(p)
    BY <1>4, ClaimFate
  <1>5. CASE \E p \in Proc : RespondRetire(p)
    BY <1>5, RetireFate
  <1>6. CASE \E p \in Proc : CancelTx(p)
    BY <1>6, CancelFate
  <1>7. CASE \E p \in Proc : ConfirmInterrupt(p)
    BY <1>7, ConfirmFate
  <1>8. CASE Sweep
    BY <1>8, SweepFate
  <1>9. CASE \E p \in Proc, d \in ClientDraft : Send(p, d)
    BY <1>2, <1>9, SendStep
  <1>10. CASE \E p \in Proc : RespondSend(p)
    BY <1>1, <1>2, <1>10, RespondSendStep
  <1> QED
    BY <1>1, <1>3, <1>4, <1>5, <1>6, <1>7, <1>8, <1>9, <1>10
    DEF Next, vars, storeVars, Bind, Authenticate, LocalUser, Exit, SetPolicy, ClaimCheck,
        RespondCheck, CancelCheck, InterruptTarget, Abort, Tick

-----------------------------------------------------------------------------
(***************************************************************************)
(* What a step may do to one process                                        *)
(***************************************************************************)

\* Its operation goes on as it was, ends, begins or takes its next part.
Begins(q) ==
    \/ op'[q].pc = "claim" /\ op'[q].at = now
    \/ /\ op'[q].pc = "cancel" /\ op'[q].request \in MsgId /\ Exists(op'[q].request)
       /\ message[op'[q].request].from = caller[q].ep
    \/ /\ op'[q].pc = "respond" /\ op'[q].request \in MsgId
       /\ op'[q].key \in ReplyKey[op'[q].request]

Answers(q, t) ==
    /\ op[q].pc = "respond" /\ caller[q] \in Caller
    /\ op[q].request \in MsgId /\ op[q].key \in Key
    /\ ResponseDraft(op[q]) \in Draft
    /\ Inserts(caller[q], ResponseDraft(op[q]), t)

Replayed(q) ==
    /\ op[q].pc = "respond" /\ caller[q] \in Caller
    /\ op[q].request \in MsgId /\ op[q].key \in Key
    /\ Replays(caller[q], ResponseDraft(op[q]))
    /\ UNCHANGED <<message, idempotency>>

Advances(q) ==
    \/ op'[q].pc \in {"interrupt", "abort", "confirm"}
    \/ /\ op'[q].pc = "retire" /\ op'[q].request = op[q].request
       /\ Replayed(q) \/ \E t \in Nat : Answers(q, t)

Comes(q) ==
    \/ op'[q] = op[q] /\ caller'[q] = caller[q]
    \/ op'[q] = Idle
    \/ caller'[q] = caller[q] /\ (Begins(q) \/ Advances(q))

\* What the process that sends a response inserts.
LEMMA RespondSendAnswers ==
    ASSUME Sound, NEW p \in Proc, RespondSend(p)
    PROVE  /\ caller' = caller
           /\ \/ op' = [op EXCEPT ![p] = Idle] /\ UNCHANGED <<message, idempotency>>
              \/ /\ op' = [op EXCEPT ![p] = [pc |-> "retire", request |-> op[p].request]]
                 /\ Replayed(p) \/ \E t \in Nat : Answers(p, t)
  <1> DEFINE o == op[p]
             d == ResponseDraft(o)
  <1>1. /\ o \in Op /\ o.pc = "respond"
        /\ o.request \in MsgId /\ o.body \in Body /\ o.key \in Key
    BY OpShape DEF Sound, TypeOK, RespondSend
  <1>2. caller[p] \in Caller
    BY <1>1, OpShape DEF Sound, OperationsSound, TypeOK
  <1>3. message[o.request] \in Message
    BY <1>1, RowType DEF Sound, OperationsSound
  <1>4. message[o.request].from \in Endpoint
    BY <1>3, Columns
  <1>5. d \in Draft /\ d.kind = "response" /\ d.reply_to # None
    BY <1>1, <1>4, IdentityAssumption DEF ResponseDraft, Draft
  <1> HIDE DEF d
  <1>6. \A t : Admissible(caller[p], d, t) /\ (\E m \in MsgId : ~Exists(m))
                    /\ Insert(caller[p], d, t)
               => Inserts(caller[p], d, t)
    BY <1>5 DEF Inserts
  <1>7. \A t \in ClockRead : t \in Nat
    BY DEF ClockRead, Sound, TypeOK
  <1> QED
    BY <1>1, <1>2, <1>5, <1>6, <1>7 DEF RespondSend, Replayed, Answers, d

\* Every step does to every process one of these.
LEMMA Comings ==
    ASSUME Sound, [Next]_vars, NEW q \in Proc
    PROVE  Comes(q)
  <1>0. op \in [Proc -> Op] /\ caller \in [Proc -> Caller \cup {None}]
    BY DEF Sound, TypeOK
  <1>1. CASE UNCHANGED <<op, caller>>
    BY <1>1 DEF Comes
  <1>2. CASE \E p \in Proc : Authenticate(p) \/ LocalUser(p) \/ Exit(p)
    BY <1>0, <1>2 DEF Authenticate, LocalUser, Exit, Sound, OperationsSound, Comes
  <1>3. CASE \E p \in Proc : ClaimCheck(p)
    BY <1>0, <1>3 DEF ClaimCheck, Comes, Begins
  <1>4. CASE \E p \in Proc, m \in MsgId : CancelCheck(p, m)
    BY <1>0, <1>4 DEF CancelCheck, Comes, Begins
  <1>5. CASE \E p \in Proc, m \in MsgId, body \in Body : \E key \in ReplyKey[m] :
                RespondCheck(p, m, body, key)
    BY <1>0, <1>5 DEF RespondCheck, Comes, Begins
  <1>6. CASE \E p \in Proc : RespondSend(p)
    <2> PICK p \in Proc : RespondSend(p)
      BY <1>6
    <2>1. CASE q # p
      BY <1>0, <2>1, RespondSendAnswers DEF Comes
    <2>2. CASE q = p
      BY <1>0, <2>2, RespondSendAnswers DEF Comes, Advances
    <2> QED
      BY <2>1, <2>2
  <1>7. CASE \E p \in Proc : RespondRetire(p) \/ ConfirmInterrupt(p) \/ ClaimTx(p)
    BY <1>0, <1>7 DEF RespondRetire, ConfirmInterrupt, ClaimTx, Comes
  <1>8. CASE \E p \in Proc : CancelTx(p) \/ InterruptTarget(p)
    BY <1>0, <1>8 DEF CancelTx, InterruptTarget, Comes, Advances
  <1>9. CASE \E p \in Proc : Abort(p)
    <2> PICK p \in Proc : Abort(p)
      BY <1>9
    <2>1. op[p] \in [pc : {"abort"}, request : MsgId, target : Owner]
      BY <1>0 DEF Abort, Op, Idle
    <2>2. /\ \/ op' = [op EXCEPT ![p] = [op[p] EXCEPT !.pc = "confirm"]]
             \/ op' = [op EXCEPT ![p] = Idle]
          /\ caller' = caller
      BY DEF Abort
    <2> QED
      BY <1>0, <2>1, <2>2 DEF Comes, Advances
  <1>10. CASE \/ \E e \in Agent : Bind(e)
              \/ \E e \in Agent, i \in Incarnation : Unbind(e, i)
              \/ \E e \in Endpoint, pol \in Policies : SetPolicy(e, pol)
              \/ \E p \in Proc, d \in ClientDraft : Send(p, d)
              \/ Sweep \/ Tick
    BY <1>1, <1>10 DEF Bind, Unbind, SetPolicy, Send, Sweep, Tick
  <1> QED
    BY <1>1, <1>2, <1>3, <1>4, <1>5, <1>6, <1>7, <1>8, <1>9, <1>10 DEF Next, vars

-----------------------------------------------------------------------------
(***************************************************************************)
(* What an operation still knows                                            *)
(***************************************************************************)

\* What is left of what it looked up: the sender of the
\* message it cancels, and an answer to the request it retires.
CancelsOwn ==
    \A p \in Proc : op[p].pc = "cancel" =>
        /\ op[p].request \in MsgId /\ Exists(op[p].request)
        /\ message[op[p].request].from = caller[p].ep

ResponsesIn(msgs, m) ==
    {r \in MsgId : /\ msgs[r].state # "absent" /\ msgs[r].kind = "response"
                   /\ msgs[r].reply_to = m}

Answered ==
    \A p \in Proc : op[p].pc = "retire" => ResponsesIn(message, op[p].request) # {}

ClaimedRows ==
    \A m \in MsgId : message[m].state = "claimed" => message[m].claim_expires_at \in Nat

History == ClaimsInThePast /\ CancelsOwn /\ Answered /\ ClaimedRows

LEMMA ClaimedRowsStep ==
    ASSUME Sound, History, [Next]_vars
    PROVE  ClaimedRows'
  <1> SUFFICES ASSUME NEW m \in MsgId, message'[m].state = "claimed"
               PROVE  message'[m].claim_expires_at \in Nat
    BY DEF ClaimedRows
  <1>1. Fate(m)
    BY Fates DEF History
  <1>2. CASE message'[m] = message[m]
    BY <1>2 DEF History, ClaimedRows
  <1>3. CASE Lapses(m)
    <2>1. message[m] \in Message
      BY <1>3, RowType DEF Lapses, LeaseLapsed, Pending, Sound
    <2> QED
      BY <1>3, <2>1, RequeuedRow DEF Lapses
  <1>4. CASE Leased(m)
    <2> PICK p \in Proc, t \in 0 .. now, u \in Nat :
                /\ op[p].pc = "claim" /\ m \in Claimable(caller[p].ep, t)
                /\ message'[m] = LeasedRow(Reclaimed(t)[m], caller[p].inc, u)
      BY <1>4 DEF Leased
    <2>1. t \in Nat
      BY DEF Sound, TypeOK
    <2>2. Reclaimed(t)[m] \in Message
      BY <2>1, ReclaimedRows DEF Claimable, Sound
    <2>3. LeasedRow(Reclaimed(t)[m], caller[p].inc, u).claim_expires_at = u
      BY <2>2 DEF LeasedRow, Message
    <2> QED
      BY <2>3
  <1> QED
    BY <1>1, <1>2, <1>3, <1>4
    DEF Fate, Unbound, Noticed, Retired, Removed, StopAsked, StopConfirmed, Expired, Arrived

\* An answer stays an answer.
LEMMA ResponsesStay ==
    ASSUME Sound, [Next]_vars, NEW m, ResponsesIn(message, m) # {}
    PROVE  ResponsesIn(message', m) # {}
  <1> PICK r \in MsgId : Exists(r) /\ message[r].kind = "response" /\ message[r].reply_to = m
    BY DEF ResponsesIn, Exists
  <1>1. message'[r].state # "absent" /\ SameMail(message[r], message'[r])
    BY MailStays DEF Exists
  <1> QED
    BY <1>1 DEF SameMail, ResponsesIn

\* Who goes on to retire a request has an answer to it in the store.
LEMMA AnswerIsThere ==
    ASSUME Sound, OneMessagePerKey, [Next]_vars, NEW q \in Proc,
           Replayed(q) \/ \E t \in Nat : Answers(q, t)
    PROVE  ResponsesIn(message', op[q].request) # {}
  <1> DEFINE a == op[q].request
             d == ResponseDraft(op[q])
             c == caller[q]
  <1>1. CASE Replayed(q)
    <2> DEFINE r == Prior(c, d)
    <2>1. r # None /\ Digest(message[r]) = Digest(d) /\ <<c.ep, d.key>> \in Endpoint \X Key
      BY <1>1 DEF Replayed, Replays, Caller, ResponseDraft
    <2>2. r \in MsgId /\ Exists(r)
      BY <2>1 DEF Prior, OneMessagePerKey, Sound, TypeOK
    <2>3. message[r].kind = "response" /\ message[r].reply_to = a
      BY <2>1 DEF Digest, ResponseDraft
    <2>4. ResponsesIn(message, a) # {}
      BY <2>2, <2>3 DEF ResponsesIn, Exists
    <2> QED
      BY <2>4, ResponsesStay
  <1>2. CASE \E t \in Nat : Answers(q, t)
    <2> PICK t \in Nat : Answers(q, t)
      BY <1>2
    <2>1. c \in Caller /\ d \in Draft /\ Inserts(c, d, t)
      BY DEF Answers
    <2> HIDE DEF c, d
    <2>2. /\ FreshMessage \in MsgId /\ message \in Table
          /\ message' = [message EXCEPT ![FreshMessage] = Row(c, d, t)]
      <3>1. FreshMessage \in MsgId /\ message \in Table /\ InsertsRow(c, d, t)
        BY <2>1, InsertFacts
      <3> QED
        BY <3>1 DEF InsertsRow
    <2>3. /\ Row(c, d, t).state = "queued" /\ Row(c, d, t).kind = "response"
          /\ Row(c, d, t).reply_to = a
      BY DEF Row, ResponseDraft, d
    <2>4. message'[FreshMessage] = Row(c, d, t)
      BY <2>2 DEF Table
    <2> QED
      BY <2>2, <2>3, <2>4 DEF ResponsesIn
  <1> QED
    BY <1>1, <1>2

LEMMA ClockNeverBack ==
    ASSUME Sound, [Next]_vars
    PROVE  now' \in Nat /\ now =< now'
  <1>1. now \in Nat
    BY DEF Sound, TypeOK
  <1>2. now' = now \/ now' = now + 1
    BY DEF Next, vars, storeVars, Bind, Unbind, Authenticate, LocalUser, Exit, SetPolicy, Send,
           ClaimCheck, ClaimTx, RespondCheck, RespondSend, RespondRetire, CancelCheck, CancelTx,
           InterruptTarget, Abort, ConfirmInterrupt, Sweep, Tick
  <1> QED
    BY <1>1, <1>2

LEMMA HistoryStep ==
    ASSUME Sound, OneMessagePerKey, History, [Next]_vars
    PROVE  History'
  <1>1. Idle.pc = "idle"
    BY DEF Idle
  <1>2. op \in [Proc -> Op]
    BY DEF Sound, TypeOK
  <1>3. ClaimsInThePast'
    <2> SUFFICES ASSUME NEW q \in Proc, op'[q].pc = "claim"
                 PROVE  op'[q].at =< now'
      BY DEF ClaimsInThePast
    <2>1. now \in Nat /\ now' \in Nat /\ now =< now'
      BY ClockNeverBack DEF Sound, TypeOK
    <2>2. CASE op'[q] = op[q]
      <3>1. op[q].at \in Nat /\ op[q].at =< now
        BY <1>2, <2>2, OpShape DEF History, ClaimsInThePast
      <3> QED
        BY <2>1, <2>2, <3>1
    <2>3. CASE op'[q].at = now
      BY <2>1, <2>3
    <2> QED
      BY <1>1, <2>2, <2>3, Comings DEF Comes, Begins, Advances
  <1>4. CancelsOwn'
    <2> SUFFICES ASSUME NEW q \in Proc, op'[q].pc = "cancel"
                 PROVE  /\ op'[q].request \in MsgId
                        /\ message'[op'[q].request].state # "absent"
                        /\ message'[op'[q].request].from = caller'[q].ep
      BY DEF CancelsOwn, Exists
    <2>1. /\ op'[q].request \in MsgId /\ Exists(op'[q].request)
          /\ message[op'[q].request].from = caller'[q].ep
      BY <1>1, Comings DEF Comes, Begins, Advances, History, CancelsOwn
    <2> PICK m \in MsgId : m = op'[q].request
      BY <2>1
    <2>2. message'[m].state # "absent" /\ SameMail(message[m], message'[m])
      BY <2>1, MailStays DEF Exists
    <2> QED
      BY <2>1, <2>2 DEF SameMail
  <1>5. Answered'
    <2> SUFFICES ASSUME NEW q \in Proc, op'[q].pc = "retire"
                 PROVE  ResponsesIn(message', op'[q].request) # {}
      BY DEF Answered
    <2>1. CASE op'[q] = op[q]
      BY <2>1, ResponsesStay DEF History, Answered
    <2>2. CASE /\ op'[q].request = op[q].request
               /\ Replayed(q) \/ \E t \in Nat : Answers(q, t)
      BY <2>2, AnswerIsThere
    <2> QED
      BY <1>1, <2>1, <2>2, Comings DEF Comes, Begins, Advances
  <1> QED
    BY <1>3, <1>4, <1>5, ClaimedRowsStep DEF History

\* In every reachable state operations know what they need to know.
LEMMA HistoryAlways == Spec => [](Sound /\ History)
  <1>1. Init => History
    BY DEF Init, History, ClaimsInThePast, CancelsOwn, Answered, ClaimedRows, Idle, NoMessage
  <1> QED
    BY <1>1, HistoryStep, SoundAlways, KeysIdentifyMessages, PTL DEF Spec

-----------------------------------------------------------------------------
(***************************************************************************)
(* The action properties                                                    *)
(***************************************************************************)

\* The states in which each fate finds and leaves a message.
LEMMA FateStates ==
    ASSUME Sound, NEW m \in MsgId
    PROVE  /\ Lapses(m) => message[m].state = "claimed" /\ message'[m].state = "queued"
           /\ Leased(m) => /\ Exists(m) /\ message'[m].state = "claimed"
                           /\ message[m].state \in {"queued", "claimed"}
  <1>1. ASSUME Lapses(m)
        PROVE  message[m].state = "claimed" /\ message'[m].state = "queued"
    <2>1. message[m] \in Message /\ message[m].state = "claimed"
      BY <1>1, RowType DEF Lapses, LeaseLapsed, Pending, Sound
    <2> QED
      BY <1>1, <2>1, RequeuedRow DEF Lapses
  <1>2. ASSUME Leased(m)
        PROVE  /\ Exists(m) /\ message'[m].state = "claimed"
               /\ message[m].state \in {"queued", "claimed"}
    <2> PICK p \in Proc, t \in 0 .. now, u \in Nat :
                /\ op[p].pc = "claim" /\ m \in Claimable(caller[p].ep, t)
                /\ message'[m] = LeasedRow(Reclaimed(t)[m], caller[p].inc, u)
      BY <1>2 DEF Leased
    <2>1. t \in Nat /\ Exists(m) /\ Reclaimed(t)[m].state = "queued"
      BY DEF Sound, TypeOK, Claimable
    <2>2. /\ Reclaimed(t)[m] \in Message
          /\ Reclaimed(t)[m] = message[m] \/ message[m].state = "claimed"
      BY <2>1, ReclaimedRows DEF Sound
    <2>3. LeasedRow(Reclaimed(t)[m], caller[p].inc, u).state = "claimed"
      BY <2>2 DEF LeasedRow, Message
    <2> QED
      BY <2>1, <2>2, <2>3
  <1> QED
    BY <1>1, <1>2

\* A claim leaves its owner only because the lease lapsed or the owner was
\* unbound: every other transaction of the store either leaves claimed work
\* alone or ends it.  A rebind is not among them.
THEOREM NoClaimIsStolen == Spec => ClaimsAreNotStolen
  <1> DEFINE Kept == \A m \in MsgId :
                /\ message[m].state = "claimed"
                /\ message'[m].state \in {"queued", "claimed"}
                /\ message'[m].claim_owner # message[m].claim_owner
                => \/ message[m].claim_expires_at =< now
                   \/ /\ endpoint[message[m].to].incarnation = message[m].claim_owner
                      /\ endpoint'[message[m].to].incarnation = None
  <1>1. ASSUME Sound, History, [Next]_vars
        PROVE  Kept
    <2> SUFFICES ASSUME NEW m \in MsgId, message[m].state = "claimed",
                        message'[m].state \in {"queued", "claimed"},
                        message'[m].claim_owner # message[m].claim_owner,
                        ~Unbound(m)
                 PROVE  message[m].claim_expires_at =< now
      BY DEF Unbound
    <2>1. now \in Nat /\ message[m].claim_expires_at \in Nat
      BY <1>1 DEF Sound, TypeOK, History, ClaimedRows
    <2>2. CASE Lapses(m)
      <3>1. \E t \in 0 .. now : message[m].claim_expires_at =< t
        BY <2>2 DEF Lapses, LeaseLapsed
      <3> QED
        BY <2>1, <3>1
    <2>3. CASE Leased(m)
      <3>1. \E t \in 0 .. now : Reclaimed(t)[m].state = "queued"
        BY <2>3 DEF Leased, Claimable
      <3>2. \E t \in 0 .. now : message[m].claim_expires_at =< t
        <4>1. \A t \in 0 .. now : \/ Reclaimed(t)[m] = message[m]
                                  \/ message[m].claim_expires_at =< t
          BY <1>1, <2>1, ReclaimedRows DEF Sound
        <4> QED
          BY <3>1, <4>1
      <3> QED
        BY <2>1, <3>2
    <2>4. Fate(m)
      BY <1>1, Fates DEF History
    <2> QED
      BY <2>2, <2>3, <2>4
      DEF Fate, Noticed, Retired, Removed, StopAsked, StopConfirmed, Expired, Arrived, Exists
  <1>2. Sound /\ History /\ [Next]_vars => [Kept]_vars
    BY <1>1
  <1> QED
    BY <1>2, HistoryAlways, PTL DEF Spec, ClaimsAreNotStolen

\* A confirmation that comes late cannot end the work of a replacement: what
\* was asked to stop becomes cancelled only through the confirmation that
\* still finds the captured owner bound.
THEOREM LateConfirmationsAreHarmless == Spec => OnlyLiveOwnerIsStopped
  <1> DEFINE Owned == \A m \in MsgId :
                /\ message[m].state = "cancellation_requested"
                /\ message'[m].state = "cancelled"
                => /\ message[m].claim_owner # None
                   /\ endpoint[message[m].to].incarnation = message[m].claim_owner
  <1>1. ASSUME Sound, History, [Next]_vars
        PROVE  Owned
    <2> SUFFICES ASSUME NEW m \in MsgId, message[m].state = "cancellation_requested",
                        message'[m].state = "cancelled"
                 PROVE  StopConfirmed(m)
      BY DEF StopConfirmed
    <2>1. Fate(m)
      BY <1>1, Fates DEF History
    <2> QED
      BY <1>1, <2>1, FateStates
      DEF Fate, Unbound, Noticed, Retired, Removed, StopAsked, Expired, Arrived
  <1>2. Sound /\ History /\ [Next]_vars => [Owned]_vars
    BY <1>1
  <1> QED
    BY <1>2, HistoryAlways, PTL DEF Spec, OnlyLiveOwnerIsStopped

\* Unread work leaves a mailbox for one of five reasons and no other; the one
\* who retires a request has sent its answer, and the one who removes a
\* message wrote it, however long ago they looked.
THEOREM NothingIsSilentlyEvicted == Spec => NoSilentEviction
  <1> DEFINE Reasons == \A m \in MsgId :
            message[m].state \in Pending /\ message'[m].state \notin Pending =>
                \/ /\ message'[m].state = "consumed" /\ message[m].kind = "notice"
                   /\ \E p \in Proc : op[p].pc = "claim" /\ caller[p].ep = message[m].to
                \/ /\ message'[m].state = "consumed" /\ message[m].kind = "request"
                   /\ Responses(m) # {}
                \/ /\ message'[m].state = "cancelled" /\ message[m].state = "queued"
                   /\ \E p \in Proc : /\ op[p].pc = "cancel" /\ op[p].request = m
                                      /\ caller[p].ep = message[m].from
                \/ /\ message'[m].state = "cancelled"
                   /\ message[m].state = "cancellation_requested"
                \/ /\ message'[m].state = "expired"
                   /\ message[m].state \in {"queued", "claimed"}
                   /\ PastDeadline(message[m], now)
  <1>1. ASSUME Sound, History, [Next]_vars
        PROVE  Reasons
    <2> SUFFICES ASSUME NEW m \in MsgId, message[m].state \in Pending,
                        message'[m].state \notin Pending
                 PROVE  \/ Noticed(m)
                        \/ /\ message'[m].state = "consumed"
                           /\ message[m].kind = "request" /\ Responses(m) # {}
                        \/ /\ message'[m].state = "cancelled" /\ message[m].state = "queued"
                           /\ \E p \in Proc : /\ op[p].pc = "cancel" /\ op[p].request = m
                                              /\ caller[p].ep = message[m].from
                        \/ StopConfirmed(m)
                        \/ Expired(m)
      BY DEF Noticed, StopConfirmed, Expired
    <2>1. CASE Retired(m)
      <3>1. Responses(m) # {}
        BY <1>1, <2>1 DEF Retired, History, Answered, ResponsesIn, Responses, Exists
      <3>2. message[m].kind = "request"
        BY <1>1, <2>1 DEF Retired, Sound, OperationsSound
      <3> QED
        BY <2>1, <3>1, <3>2 DEF Retired
    <2>2. CASE Removed(m)
      BY <1>1, <2>2 DEF Removed, History, CancelsOwn
    <2>3. Fate(m)
      BY <1>1, Fates DEF History
    <2> QED
      BY <1>1, <2>1, <2>2, <2>3, FateStates DEF Fate, Unbound, StopAsked, Arrived, Exists, Pending
  <1>2. Sound /\ History /\ [Next]_vars => [Reasons]_vars
    BY <1>1
  <1> QED
    BY <1>2, HistoryAlways, PTL DEF Spec, NoSilentEviction

\* Whatever a claim takes, it passed over no older mail that its recipient
\* lets in and that has time left.
THEOREM MailIsTakenInOrder == Spec => OldestVisibleFirst
  <1> DEFINE InOrder == \A p \in Proc, m, n \in MsgId :
                /\ op[p].pc = "claim" /\ op'[p] = Idle
                /\ Exists(m) /\ Exists(n) /\ message[m].to = message[n].to
                /\ message'[m].claim_owner # message[m].claim_owner
                /\ message'[m].state = "claimed"
                /\ message[n].state = "queued"
                /\ message[n].sequence < message[m].sequence
                => \/ ~MessageDecision(message[n], "make_visible")
                   \/ PastDeadline(message[n], now)
  <1>1. ASSUME Sound, History, [Next]_vars
        PROVE  InOrder
    <2> SUFFICES ASSUME NEW m \in MsgId, NEW n \in MsgId,
                        Exists(m), Exists(n), message[m].to = message[n].to,
                        message'[m].claim_owner # message[m].claim_owner,
                        message'[m].state = "claimed", message[n].state = "queued",
                        message[n].sequence < message[m].sequence,
                        MessageDecision(message[n], "make_visible")
                 PROVE  PastDeadline(message[n], now)
      OBVIOUS
    <2>1. Leased(m)
      <3>1. Fate(m)
        BY <1>1, Fates DEF History
      <3> QED
        BY <1>1, <3>1, FateStates
        DEF Fate, Unbound, Noticed, Retired, Removed, StopAsked, StopConfirmed, Expired, Arrived
    <2> PICK p \in Proc, t \in 0 .. now :
                /\ m \in Claimable(caller[p].ep, t)
                /\ \A k \in Claimable(caller[p].ep, t) :
                        message[m].sequence =< message[k].sequence
      BY <2>1 DEF Leased
    <2>2. message[m].sequence \in Nat /\ message[n].sequence \in Nat
      BY <1>1, RowType, Columns DEF Sound
    <2>3. n \notin Claimable(caller[p].ep, t)
      BY <2>2
    <2>4. Reclaimed(t)[n].state = "queued"
      BY DEF Reclaimed, LeaseLapsed
    <2>5. message[n].to = caller[p].ep
      BY DEF Claimable
    <2>6. message[n].expires_at # None /\ message[n].expires_at =< t
      BY <2>3, <2>4, <2>5 DEF Claimable, PastDeadline
    <2>7. message[n].expires_at \in Nat /\ now \in Nat
      <3>1. message[n].expires_at \in Nat \cup {None}
        BY <1>1, RowType, Columns DEF Sound
      <3> QED
        BY <1>1, <2>6, <3>1 DEF Sound, TypeOK
    <2> QED
      BY <2>6, <2>7 DEF PastDeadline
  <1>2. Sound /\ History /\ [Next]_vars => [InOrder]_vars
    BY <1>1
  <1> QED
    BY <1>2, HistoryAlways, PTL DEF Spec, OldestVisibleFirst

-----------------------------------------------------------------------------
(***************************************************************************)
(* The rate limit                                                           *)
(***************************************************************************)

\* The rate of a mailbox, over every window and not only those that ended.
InWindow(msgs, e, t) ==
    {m \in MsgId : /\ msgs[m].state # "absent" /\ msgs[m].to = e
                   /\ msgs[m].kind # "response"
                   /\ msgs[m].created_at > t - RateWindow /\ msgs[m].created_at =< t}

Limited(msgs, e, t) ==
    \E pol \in Policies : Cardinality(InWindow(msgs, e, t)) =< pol.max_inbound_per_minute

RateLimited == \A e \in Endpoint, t \in Nat : Limited(message, e, t)

LEMMA InsertIsLimited ==
    ASSUME Sound, NEW c \in Caller, NEW d \in Draft, NEW u \in Nat, Inserts(c, d, u),
           NEW e \in Endpoint, NEW t \in Nat, Limited(message, e, t)
    PROVE  Limited(message', e, t)
  <1> DEFINE f == FreshMessage
             W == InWindow(message, e, t)
             V == InWindow(message', e, t)
  <1>1. /\ f \in MsgId /\ ~Exists(f) /\ message \in Table
        /\ message' = [message EXCEPT ![f] = Row(c, d, u)]
    <2>1. f \in MsgId /\ ~Exists(f) /\ message \in Table /\ InsertsRow(c, d, u)
      BY InsertFacts
    <2> QED
      BY <2>1 DEF InsertsRow
  <1>2. /\ Row(c, d, u).to = d.to /\ Row(c, d, u).kind = d.kind
        /\ Row(c, d, u).created_at = u
    BY DEF Row
  <1>3. \A m \in MsgId : m # f => message'[m] = message[m]
    BY <1>1 DEF Table
  <1>4. message'[f] = Row(c, d, u)
    BY <1>1 DEF Table
  <1>5. f \notin W
    BY <1>1 DEF InWindow, Exists
  <1>6. \A m \in MsgId : m # f => (m \in V <=> m \in W)
    BY <1>3 DEF InWindow
  <1>7. V \subseteq MsgId
    BY DEF InWindow
  <1>8. CASE f \notin V
    <2>1. V = W
      BY <1>5, <1>6, <1>7, <1>8 DEF InWindow
    <2> QED
      BY <2>1, Zenon DEF Limited
  <1>9. CASE f \in V
    <2> DEFINE R == Recent(e, u)
               limit == policy[e].max_inbound_per_minute
    <2>1. d.to = e /\ d.kind # "response" /\ u > t - RateWindow /\ u =< t
      BY <1>2, <1>4, <1>9 DEF InWindow
    <2>2. Cardinality(R) < limit
      BY <2>1 DEF Inserts, Admissible, WithinRate
    <2>3. limit \in Nat /\ policy[e] \in Policies
      BY BoundsAssumption DEF Sound, TypeOK
    <2>4. W \subseteq R
      <3> SUFFICES ASSUME NEW m \in W
                   PROVE  m \in R
        OBVIOUS
      <3>1. m \in MsgId /\ Exists(m) /\ message[m].to = e
        BY DEF InWindow, Exists
      <3>2. message[m].created_at \in Nat
        BY <3>1, RowType, Columns DEF Sound
      <3>3. message[m].created_at > t - RateWindow
        BY DEF InWindow
      <3>4. message[m].created_at > u - RateWindow
        BY <2>1, <3>2, <3>3, BoundsAssumption
      <3> QED
        BY <3>1, <3>4 DEF Recent
    <2>5. R \in SUBSET MsgId /\ f \notin R
      BY <1>1 DEF Recent
    <2> HIDE DEF R, limit, W, V
    <2>6. IsFiniteSet(R) /\ Cardinality(R) \in Nat
      BY <2>5, MsgIdFinite, FS_Subset, FS_CardinalityType
    <2>7. V \subseteq R \cup {f}
      BY <1>6, <1>7, <2>4
    <2>8. IsFiniteSet(R \cup {f}) /\ Cardinality(R \cup {f}) = Cardinality(R) + 1
      BY <2>5, <2>6, FS_AddElement
    <2>9. IsFiniteSet(V) /\ Cardinality(V) =< Cardinality(R \cup {f})
      BY <2>7, <2>8, FS_Subset
    <2>10. Cardinality(V) \in Nat
      BY <2>9, FS_CardinalityType
    <2>11. Cardinality(V) =< limit
      BY <2>2, <2>3, <2>6, <2>8, <2>9, <2>10
    <2> QED
      BY <2>3, <2>11 DEF Limited, V, limit
  <1> QED
    BY <1>8, <1>9

LEMMA RateStep ==
    ASSUME Sound, RateLimited, [Next]_vars
    PROVE  RateLimited'
  <1> SUFFICES ASSUME NEW e \in Endpoint, NEW t \in Nat
               PROVE  Limited(message', e, t)
    BY DEF RateLimited, Limited, InWindow
  <1>1. Limited(message, e, t)
    BY DEF RateLimited
  <1>2. CASE Rewrites
    <2>1. ASSUME NEW m \in MsgId
          PROVE  m \in InWindow(message', e, t) <=> m \in InWindow(message, e, t)
      <3>1. \A r \in Message : r.state # "absent"
        BY Columns DEF Pending, Terminal
      <3>2. \/ message'[m] = message[m]
            \/ /\ message[m].state # "absent" /\ message'[m].state # "absent"
               /\ SameMail(message[m], message'[m])
        BY <1>2, <3>1 DEF Rewrites, RewritesRow
      <3> QED
        BY <3>2 DEF SameMail, InWindow
    <2>2. InWindow(message', e, t) = InWindow(message, e, t)
      BY <2>1 DEF InWindow
    <2> QED
      BY <1>1, <2>2, Zenon DEF Limited
  <1>3. CASE \E c \in Caller, d \in Draft, u \in Nat : Inserts(c, d, u)
    BY <1>1, <1>3, InsertIsLimited
  <1> QED
    BY <1>2, <1>3, TypeStep DEF StepEffect

\* However sends interleave and whatever moments they carry, no minute holds
\* more requests and notices for one endpoint than the most permissive policy
\* allows: the count a send compares with the limit has no upper end, so it
\* covers every window that its own message can fall into.
THEOREM TheRateIsRespected == Spec => []RateRespected
  <1>1. Init => RateLimited
    <2> SUFFICES ASSUME Init, NEW e \in Endpoint, NEW t \in Nat
                 PROVE  Limited(message, e, t)
      BY DEF RateLimited
    <2>1. InWindow(message, e, t) = {}
      BY DEF Init, InWindow, NoMessage
    <2>2. Cardinality(InWindow(message, e, t)) = 0
      BY <2>1, FS_EmptySet, Zenon
    <2> QED
      BY <2>2, BoundsAssumption DEF Limited
  <1>2. Sound /\ RateLimited => RateRespected
    <2> SUFFICES ASSUME Sound, RateLimited, NEW e \in Endpoint, NEW t \in 0 .. now
                 PROVE  \E pol \in Policies :
                            Cardinality({m \in Recent(e, t) :
                                            /\ message[m].kind # "response"
                                            /\ message[m].created_at =< t})
                                =< pol.max_inbound_per_minute
      BY DEF RateRespected
    <2>1. t \in Nat
      BY DEF Sound, TypeOK
    <2>2. {m \in Recent(e, t) : /\ message[m].kind # "response"
                                /\ message[m].created_at =< t} = InWindow(message, e, t)
      BY DEF Recent, InWindow, Exists
    <2> QED
      BY <2>1, <2>2 DEF RateLimited, Limited
  <1> QED
    BY <1>1, <1>2, RateStep, SoundAlways, PTL DEF Spec

-----------------------------------------------------------------------------
(***************************************************************************)
(* One answer per request                                                   *)
(***************************************************************************)

\* A response that is being sent carries a key that belongs to its request,
\* and a response that was sent is what such a key stands for.
RespondKeys ==
    \A p \in Proc : op[p].pc = "respond" => op[p].key \in ReplyKey[op[p].request]

ResponseKeys ==
    \A r \in MsgId : Exists(r) /\ message[r].kind = "response" =>
        /\ message[r].from \in Endpoint /\ message[r].reply_to \in MsgId
        /\ \E k \in ReplyKey[message[r].reply_to] : idempotency[<<message[r].from, k>>] = r

LEMMA RespondKeysStep ==
    ASSUME Sound, RespondKeys, [Next]_vars
    PROVE  RespondKeys'
  <1> SUFFICES ASSUME NEW q \in Proc, op'[q].pc = "respond"
               PROVE  op'[q].key \in ReplyKey[op'[q].request]
    BY DEF RespondKeys
  <1>1. Idle.pc = "idle"
    BY DEF Idle
  <1> QED
    BY <1>1, Comings DEF Comes, Begins, Advances, RespondKeys

\* Who inserts a message: a client that sends, or a process that answers.
LEMMA Inserting ==
    ASSUME Sound, [Next]_vars
    PROVE  \/ Rewrites
           \/ \E c \in Caller, d \in ClientDraft, t \in Nat : d \in Draft /\ Inserts(c, d, t)
           \/ \E p \in Proc, t \in Nat : Answers(p, t)
  <1>1. CASE \E p \in Proc, d \in ClientDraft : Send(p, d)
    BY <1>1, SendStep
  <1>2. CASE \E p \in Proc : RespondSend(p)
    <2> PICK p \in Proc : RespondSend(p)
      BY <1>2
    <2>1. CASE UNCHANGED <<message, idempotency>> /\ UNCHANGED endpoint
      BY <2>1, QuietStep DEF Sound
    <2>2. CASE \E t \in Nat : Answers(p, t)
      BY <2>2
    <2>3. UNCHANGED <<message, idempotency>> => UNCHANGED endpoint
      <3> SUFFICES ASSUME UNCHANGED <<message, idempotency>>
                   PROVE  UNCHANGED endpoint
        OBVIOUS
      <3>1. ~\E c \in Caller, d \in Draft, t \in Nat : Inserts(c, d, t)
        <4> SUFFICES ASSUME NEW c \in Caller, NEW d \in Draft, NEW t \in Nat, Inserts(c, d, t)
                     PROVE  FALSE
          OBVIOUS
        <4>1. /\ FreshMessage \in MsgId /\ ~Exists(FreshMessage) /\ message \in Table
              /\ message' = [message EXCEPT ![FreshMessage] = Row(c, d, t)]
          <5>1. FreshMessage \in MsgId /\ ~Exists(FreshMessage) /\ message \in Table /\ InsertsRow(c, d, t)
            BY InsertFacts
          <5> QED
            BY <5>1 DEF InsertsRow
        <4>2. Row(c, d, t).state = "queued"
          BY DEF Row
        <4> QED
          BY <4>1, <4>2 DEF Exists, Table
      <3> QED
        BY <3>1, RespondSendStep
    <2> QED
      BY <2>1, <2>2, <2>3, RespondSendAnswers DEF Replayed
  <1>3. CASE ~(\/ \E p \in Proc, d \in ClientDraft : Send(p, d)
               \/ \E p \in Proc : RespondSend(p))
    <2>1. CASE UNCHANGED vars
      BY <2>1, QuietStep DEF vars, Sound
    <2>2. CASE Next
      BY <1>3, <2>2, IdentitySteps, ClaimStep, WritingSteps, InterruptSteps, CheckSteps,
         SweepStep, ClockStep DEF Next, Endpoint
    <2> QED
      BY <2>1, <2>2
  <1> QED
    BY <1>1, <1>2, <1>3

\* A message of the other two kinds, or an answer under one of its keys, keeps
\* every response identified.
LEMMA InsertKeepsKeys ==
    ASSUME Sound, ResponseKeys, NEW c \in Caller, NEW d \in Draft, NEW t \in Nat,
           Inserts(c, d, t), d.kind = "response" => d.key \in ReplyKey[d.reply_to]
    PROVE  ResponseKeys'
  <1> DEFINE f == FreshMessage
             ck == <<c.ep, d.key>>
  <1>1. /\ f \in MsgId /\ ~Exists(f) /\ message \in Table
        /\ message' = [message EXCEPT ![f] = Row(c, d, t)]
        /\ idempotency' = [idempotency EXCEPT ![ck] = f]
        /\ idempotency \in [Endpoint \X Key -> MsgId \cup {None}]
    <2>1. f \in MsgId /\ ~Exists(f) /\ message \in Table /\ idempotency \in [Endpoint \X Key -> MsgId \cup {None}] /\ InsertsRow(c, d, t)
      BY InsertFacts
    <2> QED
      BY <2>1 DEF InsertsRow
  <1>2. /\ Row(c, d, t).from = c.ep /\ Row(c, d, t).kind = d.kind
        /\ Row(c, d, t).reply_to = d.reply_to
    BY DEF Row
  <1>3. idempotency[ck] = None
    BY DEF Inserts, Admissible, Prior
  <1>4. c.ep \in Endpoint /\ d.key \in Key /\ ck \in Endpoint \X Key
    BY DEF Caller, Draft
  <1>5. d.kind = "response" => d.reply_to \in MsgId
    BY DEF Inserts, Draft
  <1> HIDE DEF f
  <1>6. message'[f] = Row(c, d, t) /\ \A m \in MsgId : m # f => message'[m] = message[m]
    BY <1>1 DEF Table
  <1>7. /\ idempotency'[ck] = f
        /\ \A sk \in Endpoint \X Key : sk # ck => idempotency'[sk] = idempotency[sk]
    BY <1>1, <1>4
  <1> SUFFICES ASSUME NEW r \in MsgId, message'[r].state # "absent",
                      message'[r].kind = "response"
               PROVE  /\ message'[r].from \in Endpoint /\ message'[r].reply_to \in MsgId
                      /\ \E k \in ReplyKey[message'[r].reply_to] :
                            idempotency'[<<message'[r].from, k>>] = r
    BY DEF ResponseKeys, Exists
  <1>8. CASE r = f
    BY <1>2, <1>4, <1>5, <1>6, <1>7, <1>8
  <1>9. CASE r # f
    <2>1. message'[r] = message[r] /\ Exists(r)
      BY <1>6, <1>9 DEF Exists
    <2>2. /\ message[r].from \in Endpoint /\ message[r].reply_to \in MsgId
          /\ message[r].kind = "response"
      BY <2>1 DEF ResponseKeys
    <2>3. PICK k \in ReplyKey[message[r].reply_to] : idempotency[<<message[r].from, k>>] = r
      BY <2>1, <2>2 DEF ResponseKeys
    <2>4. <<message[r].from, k>> \in Endpoint \X Key
      BY <2>2, BoundsAssumption
    <2>5. <<message[r].from, k>> # ck
      BY <1>3, <2>3, IdentityAssumption
    <2> QED
      BY <1>7, <2>1, <2>2, <2>3, <2>4, <2>5
  <1> QED
    BY <1>8, <1>9

LEMMA ResponseKeysStep ==
    ASSUME "response" \notin Kinds, Sound, RespondKeys, ResponseKeys, [Next]_vars
    PROVE  ResponseKeys'
  <1>1. CASE Rewrites
    <2>1. \A r \in Message : r.state # "absent"
      BY Columns DEF Pending, Terminal
    <2>2. \A m \in MsgId : /\ message'[m].state # "absent" <=> message[m].state # "absent"
                           /\ message'[m].from = message[m].from
                           /\ message'[m].kind = message[m].kind
                           /\ message'[m].reply_to = message[m].reply_to
      BY <1>1, <2>1 DEF Rewrites, RewritesRow, SameMail
    <2>3. idempotency' = idempotency
      BY <1>1 DEF Rewrites
    <2> SUFFICES ASSUME NEW r \in MsgId, message'[r].state # "absent",
                        message'[r].kind = "response"
                 PROVE  /\ message'[r].from \in Endpoint /\ message'[r].reply_to \in MsgId
                        /\ \E k \in ReplyKey[message'[r].reply_to] :
                              idempotency'[<<message'[r].from, k>>] = r
      BY DEF ResponseKeys, Exists
    <2>4. Exists(r) /\ message[r].kind = "response"
      BY <2>2 DEF Exists
    <2>5. /\ message[r].from \in Endpoint /\ message[r].reply_to \in MsgId
          /\ \E k \in ReplyKey[message[r].reply_to] : idempotency[<<message[r].from, k>>] = r
      BY <2>4 DEF ResponseKeys
    <2> QED
      BY <2>2, <2>3, <2>5
  <1>2. CASE \E c \in Caller, d \in ClientDraft, t \in Nat : d \in Draft /\ Inserts(c, d, t)
    <2> PICK c \in Caller, d \in ClientDraft, t \in Nat : d \in Draft /\ Inserts(c, d, t)
      BY <1>2
    <2>1. d.kind # "response"
      BY DEF ClientDraft
    <2> QED
      BY <2>1, InsertKeepsKeys
  <1>3. CASE \E p \in Proc, t \in Nat : Answers(p, t)
    <2> PICK p \in Proc, t \in Nat : Answers(p, t)
      BY <1>3
    <2>1. op[p].key \in ReplyKey[op[p].request]
      BY DEF Answers, RespondKeys
    <2>2. ResponseDraft(op[p]).key = op[p].key /\ ResponseDraft(op[p]).reply_to = op[p].request
      BY DEF ResponseDraft
    <2> QED
      BY <2>1, <2>2, InsertKeepsKeys DEF Answers
  <1> QED
    BY <1>1, <1>2, <1>3, Inserting

\* Where answers are only sent by respond, and every answer to a request
\* carries the one key derived from it (the default of the command line,
\* reply-<id>), a request is answered at most once, however often, by however
\* many processes and across whatever restarts it is tried.
THEOREM RequestsAreAnsweredOnce ==
    ASSUME "response" \notin Kinds,
           \A m \in MsgId : \A k, l \in ReplyKey[m] : k = l
    PROVE  Spec => []AtMostOneResponse
  <1>1. Init => RespondKeys /\ ResponseKeys
    BY DEF Init, RespondKeys, ResponseKeys, Exists, Idle, NoMessage
  <1>2. Sound /\ RespondKeys /\ ResponseKeys /\ [Next]_vars => RespondKeys' /\ ResponseKeys'
    BY RespondKeysStep, ResponseKeysStep
  <1>3. ResponseKeys /\ ResponsesAuthentic => AtMostOneResponse
    <2> SUFFICES ASSUME ResponseKeys, ResponsesAuthentic, NEW m \in MsgId
                 PROVE  Cardinality(Responses(m)) =< 1
      BY DEF AtMostOneResponse
    <2>1. ASSUME NEW r \in Responses(m), NEW s \in Responses(m)
          PROVE  r = s
      <3>1. /\ r \in MsgId /\ Exists(r) /\ message[r].kind = "response"
            /\ s \in MsgId /\ Exists(s) /\ message[s].kind = "response"
            /\ message[r].reply_to = m /\ message[s].reply_to = m
        BY DEF Responses
      <3>2. message[r].from = message[s].from
        BY <3>1 DEF ResponsesAuthentic
      <3>3. /\ \E k \in ReplyKey[m] : idempotency[<<message[r].from, k>>] = r
            /\ \E k \in ReplyKey[m] : idempotency[<<message[s].from, k>>] = s
        BY <3>1 DEF ResponseKeys
      <3> QED
        BY <3>2, <3>3
    <2>2. CASE Responses(m) = {}
      <3>1. Cardinality(Responses(m)) = 0
        BY <2>2, FS_EmptySet, Zenon
      <3> QED
        BY <3>1
    <2>3. CASE Responses(m) # {}
      <3> PICK r : r \in Responses(m)
        BY <2>3
      <3>1. Responses(m) = {r}
        BY <2>1
      <3>2. Cardinality(Responses(m)) = 1
        BY <3>1, FS_Singleton, Zenon
      <3> QED
        BY <3>2
    <2> QED
      BY <2>2, <2>3
  <1> QED
    BY <1>1, <1>2, <1>3, SoundAlways, ResponsesStayAuthentic, PTL DEF Spec
=============================================================================
