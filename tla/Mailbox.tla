------------------------------ MODULE Mailbox -------------------------------
(***************************************************************************)
(* The durable store of agent-mesh-store, as the processes of one host use  *)
(* it: the endpoint, message and idempotency tables, and for every client   *)
(* process the caller it authenticated as and the operation it is in.       *)
(*                                                                          *)
(* One SQLite transaction is one step.  Operations that read outside their  *)
(* transaction (claim, respond, cancel, interrupt) are split where the code *)
(* leaves the database, so another process can run in between; what the     *)
(* first part read travels in op.  A process may exit between any two       *)
(* steps.  Peers, groups and activation are other components.               *)
(***************************************************************************)
EXTENDS MeshPolicy, Integers, FiniteSets

CONSTANTS
    Agent,             \* endpoints of agents; one per (alias, instance)
    User,              \* the local user's endpoint, if it is in play
    Proc,              \* client processes
    Env,               \* process -> the endpoint its environment names
    Incarnation,       \* what bind can mint (a bound)
    MsgId,             \* message ids (a bound on messages)
    Key,               \* idempotency keys
    SendKey,           \* endpoint -> the ones its clients pass to send
    Body,              \* text, subject, refs and outcome of a draft
    ReplyKey,          \* MsgId -> the keys a responder may answer it with
    Kinds,             \* kinds that clients pass to send directly
    Recipients,        \* endpoints that clients address
    Bytes,             \* Body -> charged bytes
    Scope,             \* endpoint -> runtime instance
    Space,             \* endpoint -> space field of its address
    Policies,          \* policies the operator sets, each with its rate
    InitialPolicy,     \* what an endpoint has until one is set
    Lifetimes,         \* lifetimes a sender asks for; None for no deadline
    Leases,            \* claim leases
    MaxPendingCount, ReservedCount, MaxPendingBytes, ReservedBytes,
    MaxEndpoints,
    RateWindow,        \* one minute
    NoticeLifetime,    \* one hour
    MaxTime,           \* bound on the clock
    ClaimHorizon,      \* bound on the time at which a claim starts
    None

Endpoint == Agent \cup User

ASSUME IdentityAssumption ==
    /\ None \notin Endpoint \cup Incarnation \cup MsgId \cup Key \cup Body \cup Nat
    /\ Agent \cap User = {}
    /\ Incarnation \cap User = {}

ASSUME BoundsAssumption ==
    /\ MaxPendingCount \in Nat /\ ReservedCount \in Nat
    /\ MaxPendingBytes \in Nat /\ ReservedBytes \in Nat
    /\ MaxEndpoints \in Nat /\ MaxTime \in Nat /\ ClaimHorizon \in Nat
    /\ RateWindow \in Nat /\ NoticeLifetime \in Nat
    /\ Bytes \in [Body -> Nat]
    /\ Leases \subseteq Nat \ {0}
    /\ Lifetimes \subseteq Nat \cup {None}
    /\ Recipients \subseteq Endpoint
    /\ Env \in [Proc -> Endpoint]
    /\ Kinds \subseteq {"request", "notice", "response"}
    /\ SendKey \in [Endpoint -> SUBSET Key]
    /\ ReplyKey \in [MsgId -> SUBSET Key]
    /\ InitialPolicy \in Policies
    /\ \A p \in Policies : p.max_inbound_per_minute \in Nat

ASSUME MsgIdFinite == IsFiniteSet(MsgId)

VARIABLES
    endpoint,      \* endpoint table
    policy,        \* its policy_json column
    message,       \* message table
    idempotency,   \* <<sender, key>> -> the message it produced
    minted,        \* incarnations generated so far
    caller,        \* the identity each process holds, or None
    op,            \* the operation each process is in
    now            \* the clock

storeVars == <<endpoint, policy, message, idempotency, minted>>
vars == <<endpoint, policy, message, idempotency, minted, caller, op, now>>

-----------------------------------------------------------------------------
(***************************************************************************)
(* Rows                                                                     *)
(***************************************************************************)
Pending == {"queued", "claimed", "delivered", "cancellation_requested"}
Terminal == {"consumed", "cancelled", "expired", "undeliverable"}

\* An incarnation column: the local user's is its own endpoint id.
Owner == Incarnation \cup User

Caller == [ep : Endpoint, inc : Owner]

EndpointRow ==
    [registered : BOOLEAN, incarnation : Owner \cup {None},
     next_sequence : Nat, pending_count : Nat, pending_bytes : Nat]

NoEndpoint ==
    [registered |-> FALSE, incarnation |-> None, next_sequence |-> 1,
     pending_count |-> 0, pending_bytes |-> 0]

Message ==
    [state : Pending \cup Terminal, to : Endpoint, from : Endpoint,
     from_incarnation : Owner, kind : {"request", "notice", "response"},
     reply_to : MsgId \cup {None}, body : Body, sequence : Nat,
     created_at : Nat, expires_at : Nat \cup {None},
     claim_owner : Owner \cup {None}, claim_expires_at : Nat \cup {None}]

\* An id no row has yet.
NoMessage == [state |-> "absent"]

Exists(m) == message[m].state # "absent"

\* Ids are compared, never ordered, so which unused one is generated is
\* immaterial; MsgId and Incarnation bound how many there are.
FreshMessage == CHOOSE m \in MsgId : ~Exists(m)
FreshIncarnation == CHOOSE i \in Incarnation : i \notin minted

Draft ==
    [to : Endpoint, kind : {"request", "notice", "response"},
     reply_to : MsgId \cup {None}, body : Body, key : Key,
     lifetime : Nat \cup {None}]

Idle == [pc |-> "idle"]

Op ==
    {Idle}
    \cup [pc : {"claim"}, at : Nat]
    \cup [pc : {"respond"}, request : MsgId, body : Body, key : Key]
    \cup [pc : {"retire"}, request : MsgId]
    \cup [pc : {"cancel", "interrupt"}, request : MsgId]
    \cup [pc : {"abort", "confirm"}, request : MsgId, target : Owner]

TypeOK ==
    /\ endpoint \in [Endpoint -> EndpointRow]
    /\ policy \in [Endpoint -> Policies]
    /\ message \in [MsgId -> Message \cup {NoMessage}]
    /\ idempotency \in [Endpoint \X Key -> MsgId \cup {None}]
    /\ minted \in SUBSET Incarnation
    /\ caller \in [Proc -> Caller \cup {None}]
    /\ op \in [Proc -> Op]
    /\ now \in Nat

Init ==
    /\ endpoint = [e \in Endpoint |-> NoEndpoint]
    /\ policy = [e \in Endpoint |-> InitialPolicy]
    /\ message = [m \in MsgId |-> NoMessage]
    /\ idempotency = [sk \in Endpoint \X Key |-> None]
    /\ minted = {}
    /\ caller = [p \in Proc |-> None]
    /\ op = [p \in Proc |-> Idle]
    /\ now = 0

-----------------------------------------------------------------------------
(***************************************************************************)
(* Queries and updates that several transactions share                      *)
(***************************************************************************)

\* The messages a table charges to an endpoint.
Charged(msgs, e) == {m \in MsgId : msgs[m].state \in Pending /\ msgs[m].to = e}

\* The bytes of a set of messages, one element per byte, so that the sum the
\* query computes is a cardinality.
ByteUnits(msgs, S) == UNION {{m} \X (1 .. Bytes[msgs[m].body]) : m \in S}

\* recount: both counters of the endpoints in E, recomputed from the table.
Recount(eps, msgs, E) ==
    [e \in Endpoint |-> IF e \in E
        THEN [eps[e] EXCEPT
                !.pending_count = Cardinality(Charged(msgs, e)),
                !.pending_bytes = Cardinality(ByteUnits(msgs, Charged(msgs, e)))]
        ELSE eps[e]]

Requeued(row) == [row EXCEPT !.state = "queued", !.claim_owner = None,
                             !.claim_expires_at = None]

Settled(row, s) == [row EXCEPT !.state = s, !.claim_owner = None,
                               !.claim_expires_at = None]

LeaseLapsed(row, t) == row.state = "claimed" /\ row.claim_expires_at =< t

\* A bug this definition could have: every claim is taken back, lapsed or not.
Reclaimed_all(t) ==
    [m \in MsgId |-> IF message[m].state = "claimed" THEN Requeued(message[m])
                     ELSE message[m]]

\* Lapsed claims back on the queue; claim and sweep both begin with this.
Reclaimed(t) ==
    [m \in MsgId |-> IF LeaseLapsed(message[m], t) THEN Requeued(message[m])
                     ELSE message[m]]

PastDeadline(row, t) == row.expires_at # None /\ row.expires_at =< t

\* The deadline send writes.  A notice always has one.
Deadline(d, t) ==
    IF d.lifetime # None THEN t + d.lifetime
    ELSE IF d.kind = "notice" THEN t + NoticeLifetime ELSE None

\* What decides whether the second use of a key is a replay.
Digest(d) == <<d.to, d.kind, d.reply_to, d.body>>

PrincipalOf(e) == IF e \in User THEN "local_user" ELSE "agent"

\* What a gate of endpoint `to` is asked about mail from endpoint `from`.
GateRequest(from, to, is_reply) ==
    [kind |-> PrincipalOf(from), sender |-> from,
     sender_scope |-> Scope[from], target_scope |-> Scope[to],
     sender_space |-> Space[from], target_space |-> Space[to],
     is_reply |-> is_reply, peer_trusted |-> FALSE]

\* message_decision: a gate's verdict on stored mail.
MessageDecision(row, gate) ==
    Allowed(policy[row.to], gate,
            GateRequest(row.from, row.to,
                        /\ row.kind = "response"
                        /\ row.reply_to # None
                        /\ message[row.reply_to].from = row.to))

IsCurrent(c) == endpoint[c.ep].incarnation = c.inc

-----------------------------------------------------------------------------
(***************************************************************************)
(* Identity                                                                 *)
(***************************************************************************)

\* bind: the same alias and instance is the same endpoint with the same
\* mailbox; every bind mints a new incarnation.
Bind(e) ==
    /\ e \in Agent
    /\ minted # Incarnation
    /\ \/ endpoint[e].registered
       \/ Cardinality({x \in Endpoint : endpoint[x].registered}) < MaxEndpoints
    /\ endpoint' = [endpoint EXCEPT ![e].registered = TRUE,
                                    ![e].incarnation = FreshIncarnation]
    /\ minted' = minted \cup {FreshIncarnation}
    /\ UNCHANGED <<policy, message, idempotency, caller, op, now>>

\* unbind of incarnation i; nothing happens unless i is the live binding.
Unbind(e, i) ==
    /\ i \in minted
    /\ endpoint[e].incarnation = i
    /\ endpoint' = [endpoint EXCEPT ![e].incarnation = None]
    /\ message' = [m \in MsgId |->
                    IF /\ message[m].state = "claimed"
                       /\ message[m].to = e /\ message[m].claim_owner = i
                    THEN Requeued(message[m]) ELSE message[m]]
    /\ UNCHANGED <<policy, idempotency, minted, caller, op, now>>

\* authenticate: the token of an incarnation works while it is the live one.
Authenticate(p) ==
    /\ caller[p] = None
    /\ Env[p] \in Agent /\ endpoint[Env[p]].incarnation # None
    /\ caller' = [caller EXCEPT
            ![p] = [ep |-> Env[p], inc |-> endpoint[Env[p]].incarnation]]
    /\ UNCHANGED <<storeVars, op, now>>

\* ensure_local_user: a shell without a token is the local user, whose
\* mailbox is created on first use.
LocalUser(p) ==
    /\ caller[p] = None
    /\ Env[p] \in User
    /\ endpoint' = [endpoint EXCEPT ![Env[p]].registered = TRUE,
                                    ![Env[p]].incarnation = Env[p]]
    /\ caller' = [caller EXCEPT ![p] = [ep |-> Env[p], inc |-> Env[p]]]
    /\ UNCHANGED <<policy, message, idempotency, minted, op, now>>

\* The process ends, or dies in the middle of an operation.
Exit(p) ==
    /\ caller[p] # None
    /\ caller' = [caller EXCEPT ![p] = None]
    /\ op' = [op EXCEPT ![p] = Idle]
    /\ UNCHANGED <<storeVars, now>>

SetPolicy(e, pol) ==
    /\ endpoint[e].registered
    /\ policy[e] # pol
    /\ policy' = [policy EXCEPT ![e] = pol]
    /\ UNCHANGED <<endpoint, message, idempotency, minted, caller, op, now>>

-----------------------------------------------------------------------------
(***************************************************************************)
(* send                                                                     *)
(***************************************************************************)
Prior(c, d) == idempotency[<<c.ep, d.key>>]

\* The key was used before, for the same content: the stored message is
\* returned and nothing changes.
Replays(c, d) ==
    Prior(c, d) # None /\ Digest(message[Prior(c, d)]) = Digest(d)

\* A bug this definition could have: the author is not compared.
MayReply_any_author(c, d) ==
    d.reply_to # None =>
        LET request == message[d.reply_to]
        IN  /\ Exists(d.reply_to) /\ request.kind = "request"
            /\ request.from = d.to

\* A response must answer a request addressed to its author, and go to
\* whoever asked.
MayReply(c, d) ==
    d.reply_to # None =>
        LET request == message[d.reply_to]
        IN  /\ Exists(d.reply_to) /\ request.kind = "request"
            /\ request.to = c.ep
            /\ request.from = d.to

\* Accepted mail of the last minute, whoever sent it and whatever its kind.
Recent(e, t) == {m \in MsgId : /\ Exists(m) /\ message[m].to = e
                               /\ message[m].created_at > t - RateWindow}

\* A bug this definition could have: the limit is off by one.
WithinRate_off_by_one(d, t) ==
    \/ d.kind = "response"
    \/ Cardinality(Recent(d.to, t)) =< policy[d.to].max_inbound_per_minute

WithinRate(d, t) ==
    \/ d.kind = "response"
    \/ Cardinality(Recent(d.to, t)) < policy[d.to].max_inbound_per_minute

\* A bug this definition could have: every kind may use the reserve.
WithinQuota_reserve_for_all(d) ==
    /\ endpoint[d.to].pending_count + 1 =< MaxPendingCount + ReservedCount
    /\ endpoint[d.to].pending_bytes + Bytes[d.body]
            =< MaxPendingBytes + ReservedBytes

\* Only responses may reach into the reserve.
WithinQuota(d) ==
    LET reserve(n) == IF d.kind = "response" THEN n ELSE 0
    IN  /\ endpoint[d.to].pending_count + 1
                =< MaxPendingCount + reserve(ReservedCount)
        /\ endpoint[d.to].pending_bytes + Bytes[d.body]
                =< MaxPendingBytes + reserve(ReservedBytes)

\* The checks of send on a draft that is not a replay, in the code's order;
\* the first that fails is the error the caller gets.
Admissible(c, d, t) ==
    /\ Prior(c, d) = None
    /\ endpoint[d.to].registered
    /\ MayReply(c, d)
    /\ Allowed(policy[d.to], "enqueue", GateRequest(c.ep, d.to, d.reply_to # None))
    /\ WithinRate(d, t)
    /\ WithinQuota(d)

Row(c, d, t) ==
    [state |-> "queued", to |-> d.to, from |-> c.ep, from_incarnation |-> c.inc,
     kind |-> d.kind, reply_to |-> d.reply_to, body |-> d.body,
     sequence |-> endpoint[d.to].next_sequence, created_at |-> t,
     expires_at |-> Deadline(d, t), claim_owner |-> None,
     claim_expires_at |-> None]

\* A bug this definition could have: the key is not remembered.
Insert_forgets_key(c, d, t) ==
    /\ message' = [message EXCEPT ![FreshMessage] = Row(c, d, t)]
    /\ endpoint' = [endpoint EXCEPT
            ![d.to].next_sequence = @ + 1,
            ![d.to].pending_count = @ + 1,
            ![d.to].pending_bytes = @ + Bytes[d.body]]
    /\ UNCHANGED idempotency

Insert(c, d, t) ==
    /\ message' = [message EXCEPT ![FreshMessage] = Row(c, d, t)]
    /\ endpoint' = [endpoint EXCEPT
            ![d.to].next_sequence = @ + 1,
            ![d.to].pending_count = @ + 1,
            ![d.to].pending_bytes = @ + Bytes[d.body]]
    /\ idempotency' = [idempotency EXCEPT ![<<c.ep, d.key>>] = FreshMessage]

\* send reads the clock before it waits for the write lock, so its time may
\* be any that has passed when its transaction runs.
ClockRead == 0 .. now

\* Drafts that pass Draft::validate; a request or notice that names another
\* message passes too, but no client builds one.
ValidDraft(d) ==
    /\ d.kind = "response" <=> d.reply_to # None
    /\ d.lifetime # 0

\* send: one transaction.  A caller obtained before a rebind may still send.
\* Refusals and replays change nothing and are not steps.
Send(p, d) ==
    /\ caller[p] # None /\ op[p] = Idle
    /\ ValidDraft(d) /\ d.key \in SendKey[caller[p].ep]
    /\ \E m \in MsgId : ~Exists(m)
    /\ \E t \in ClockRead : /\ Admissible(caller[p], d, t)
                            /\ Insert(caller[p], d, t)
    /\ UNCHANGED <<policy, minted, caller, op, now>>

-----------------------------------------------------------------------------
(***************************************************************************)
(* claim                                                                    *)
(***************************************************************************)

\* The authority check and the clock are read before the transaction begins.
ClaimCheck(p) ==
    /\ caller[p] # None /\ op[p] = Idle
    /\ IsCurrent(caller[p])
    /\ now =< ClaimHorizon
    /\ op' = [op EXCEPT ![p] = [pc |-> "claim", at |-> now]]
    /\ UNCHANGED <<storeVars, caller, now>>

\* Queued mail of the endpoint that the make_visible gate lets through, with
\* lapsed claims already back on the queue.
Claimable(e, t) ==
    {m \in MsgId : /\ Exists(m) /\ message[m].to = e
                   /\ Reclaimed(t)[m].state = "queued"
                   /\ ~PastDeadline(message[m], t)
                   /\ MessageDecision(message[m], "make_visible")}

\* A bug this definition could have: the newest message is taken.
Oldest_newest(S) ==
    CHOOSE m \in S : \A n \in S : message[n].sequence =< message[m].sequence

Oldest(S) ==
    CHOOSE m \in S : \A n \in S : message[m].sequence =< message[n].sequence

\* The oldest claimable message is leased to the caller's incarnation; a
\* notice is consumed on the spot and its charge released.
ClaimTx(p) ==
    /\ op[p].pc = "claim"
    /\ LET c == caller[p]
           t == op[p].at
           S == Claimable(c.ep, t)
           oldest == Oldest(S)
       IN  \/ /\ S = {}
              /\ message' = Reclaimed(t)
              /\ UNCHANGED endpoint
           \/ /\ S # {} /\ message[oldest].kind = "notice"
              /\ message' = [Reclaimed(t) EXCEPT ![oldest] = Settled(@, "consumed")]
              /\ endpoint' = Recount(endpoint, message', {c.ep})
           \/ /\ S # {} /\ message[oldest].kind # "notice"
              /\ \E lease \in Leases :
                  message' = [Reclaimed(t) EXCEPT
                                ![oldest].state = "claimed",
                                ![oldest].claim_owner = c.inc,
                                ![oldest].claim_expires_at = t + lease]
              /\ UNCHANGED endpoint
    /\ op' = [op EXCEPT ![p] = Idle]
    /\ UNCHANGED <<policy, idempotency, minted, caller, now>>

-----------------------------------------------------------------------------
(***************************************************************************)
(* respond                                                                  *)
(***************************************************************************)

\* Authority and the request's state are read before either transaction.
\* Whether the caller holds the claim is not asked.
RespondCheck(p, m, body, key) ==
    /\ caller[p] # None /\ op[p] = Idle
    /\ IsCurrent(caller[p])
    /\ Exists(m)
    /\ message[m].kind = "request"
    /\ message[m].to = caller[p].ep
    /\ message[m].state \in Pending
    /\ op' = [op EXCEPT ![p] = [pc |-> "respond", request |-> m,
                                body |-> body, key |-> key]]
    /\ UNCHANGED <<storeVars, caller, now>>

\* The response that goes back to whoever asked, under the client's key.
ResponseDraft(o) ==
    [to |-> message[o.request].from, kind |-> "response", reply_to |-> o.request,
     body |-> o.body, key |-> o.key, lifetime |-> None]

\* A bug this definition could have: a refused response still retires.
RespondSend_refusal_retires(p) ==
    /\ op[p].pc = "respond"
    /\ LET d == ResponseDraft(op[p])
       IN  \E t \in ClockRead :
           \/ /\ Admissible(caller[p], d, t)
              /\ \E m \in MsgId : ~Exists(m)
              /\ Insert(caller[p], d, t)
           \/ /\ ~Admissible(caller[p], d, t)
              /\ UNCHANGED <<endpoint, message, idempotency>>
    /\ op' = [op EXCEPT ![p] = [pc |-> "retire", request |-> op[p].request]]
    /\ UNCHANGED <<policy, minted, caller, now>>

\* First transaction: send the response.  A refusal ends the operation.
RespondSend(p) ==
    /\ op[p].pc = "respond"
    /\ LET d == ResponseDraft(op[p])
           retire == [pc |-> "retire", request |-> op[p].request]
       IN  \E t \in ClockRead :
           \/ /\ Replays(caller[p], d)
              /\ op' = [op EXCEPT ![p] = retire]
              /\ UNCHANGED <<endpoint, message, idempotency>>
           \/ /\ Admissible(caller[p], d, t)
              /\ \E m \in MsgId : ~Exists(m)
              /\ Insert(caller[p], d, t)
              /\ op' = [op EXCEPT ![p] = retire]
           \/ /\ ~Replays(caller[p], d) /\ ~Admissible(caller[p], d, t)
              /\ op' = [op EXCEPT ![p] = Idle]
              /\ UNCHANGED <<endpoint, message, idempotency>>
    /\ UNCHANGED <<policy, minted, caller, now>>

\* A bug this definition could have: the request is retired, and its charge
\* released, whatever became of it since it was looked up.
RespondRetire_any_state(p) ==
    /\ op[p].pc = "retire"
    /\ LET m == op[p].request
       IN  /\ message' = [message EXCEPT ![m] = Settled(@, "consumed")]
           /\ endpoint' = [endpoint EXCEPT
                    ![caller[p].ep].pending_count = @ - 1,
                    ![caller[p].ep].pending_bytes = @ - Bytes[message[m].body]]
    /\ op' = [op EXCEPT ![p] = Idle]
    /\ UNCHANGED <<policy, idempotency, minted, caller, now>>

\* A bug this definition could have: the state is not looked at again.
RespondRetire_unchecked(p) ==
    /\ op[p].pc = "retire"
    /\ message' = [message EXCEPT ![op[p].request] = Settled(@, "consumed")]
    /\ endpoint' = Recount(endpoint, message', {caller[p].ep})
    /\ op' = [op EXCEPT ![p] = Idle]
    /\ UNCHANGED <<policy, idempotency, minted, caller, now>>

\* Second transaction: retire the request if it is still pending.
RespondRetire(p) ==
    /\ op[p].pc = "retire"
    /\ LET m == op[p].request
       IN  IF message[m].state \in Pending
           THEN /\ message' = [message EXCEPT ![m] = Settled(@, "consumed")]
                /\ endpoint' = Recount(endpoint, message', {caller[p].ep})
           ELSE UNCHANGED <<message, endpoint>>
    /\ op' = [op EXCEPT ![p] = Idle]
    /\ UNCHANGED <<policy, idempotency, minted, caller, now>>

-----------------------------------------------------------------------------
(***************************************************************************)
(* cancel, and the interruption the command line tries after it             *)
(***************************************************************************)

\* Only the sender may cancel; the local user needs no live binding.
CancelCheck(p, m) ==
    /\ caller[p] # None /\ op[p] = Idle
    /\ caller[p].ep \in Agent => IsCurrent(caller[p])
    /\ Exists(m) /\ message[m].from = caller[p].ep
    /\ op' = [op EXCEPT ![p] = [pc |-> "cancel", request |-> m]]
    /\ UNCHANGED <<storeVars, caller, now>>

\* Queued work is removed; work in an agent's hands is only asked to stop.
CancelTx(p) ==
    /\ op[p].pc = "cancel"
    /\ LET m == op[p].request
       IN  \/ /\ message[m].state = "queued"
              /\ message' = [message EXCEPT ![m].state = "cancelled"]
              /\ endpoint' = Recount(endpoint, message', {message[m].to})
           \/ /\ message[m].state \in {"claimed", "delivered"}
              /\ message' = [message EXCEPT ![m].state = "cancellation_requested"]
              /\ UNCHANGED endpoint
           \/ /\ message[m].state \notin {"queued", "claimed", "delivered"}
              /\ UNCHANGED <<message, endpoint>>
    /\ op' = [op EXCEPT ![p] = [pc |-> "interrupt", request |-> op[p].request]]
    /\ UNCHANGED <<policy, idempotency, minted, caller, now>>

\* Work of an endpoint that a session-wide abort would hit.
InFlight(e) ==
    {m \in MsgId : /\ message[m].state \in Pending \ {"queued"}
                   /\ message[m].to = e}

\* interrupt_target: the owner to stop, captured when it is the live binding
\* and has nothing else in flight.
Interruptible(m) ==
    LET row == message[m]
    IN  /\ row.kind = "request"
        /\ row.state = "cancellation_requested"
        /\ MessageDecision(row, "interrupt")
        /\ row.claim_owner # None
        /\ endpoint[row.to].incarnation = row.claim_owner
        /\ InFlight(row.to) = {m}

InterruptTarget(p) ==
    /\ op[p].pc = "interrupt"
    /\ LET m == op[p].request
       IN  op' = [op EXCEPT ![p] =
                    IF Interruptible(m)
                    THEN [pc |-> "abort", request |-> m,
                          target |-> message[m].claim_owner]
                    ELSE Idle]
    /\ UNCHANGED <<storeVars, caller, now>>

\* The adapter asks the provider to abort the session.  Only a confirmed stop
\* goes on; a missing capability or an unconfirmed one ends the command.
Abort(p) ==
    /\ op[p].pc = "abort"
    /\ op' \in {[op EXCEPT ![p].pc = "confirm"], [op EXCEPT ![p] = Idle]}
    /\ UNCHANGED <<storeVars, caller, now>>

\* A bug this definition could have: the captured owner is not compared.
ConfirmInterrupt_any_owner(p) ==
    /\ op[p].pc = "confirm"
    /\ LET m == op[p].request
       IN  IF message[m].state = "cancellation_requested"
           THEN /\ message' = [message EXCEPT ![m] = Settled(@, "cancelled")]
                /\ endpoint' = Recount(endpoint, message', {message[m].to})
           ELSE UNCHANGED <<message, endpoint>>
    /\ op' = [op EXCEPT ![p] = Idle]
    /\ UNCHANGED <<policy, idempotency, minted, caller, now>>

\* confirm_interrupt: commit the stop of exactly the captured owner.
ConfirmInterrupt(p) ==
    /\ op[p].pc = "confirm"
    /\ LET m == op[p].request
           i == op[p].target
       IN  IF /\ message[m].state = "cancellation_requested"
              /\ message[m].claim_owner = i
              /\ endpoint[message[m].to].incarnation = i
           THEN /\ message' = [message EXCEPT ![m] = Settled(@, "cancelled")]
                /\ endpoint' = Recount(endpoint, message', {message[m].to})
           ELSE UNCHANGED <<message, endpoint>>
    /\ op' = [op EXCEPT ![p] = Idle]
    /\ UNCHANGED <<policy, idempotency, minted, caller, now>>

-----------------------------------------------------------------------------
(***************************************************************************)
(* sweep and time                                                           *)
(***************************************************************************)

\* A bug this definition could have: lapsed claims are left to the next claim.
SweptRow_only_expires(m, t) ==
    IF /\ Exists(m) /\ message[m].state \in {"queued", "claimed"}
       /\ PastDeadline(message[m], t)
    THEN [message[m] EXCEPT !.state = "expired"]
    ELSE message[m]

\* A row after a sweep at t: a lapsed claim is requeued, and what is then
\* queued or claimed past its deadline expires.  The claim columns of a live
\* claim that expires stay as they are.
SweptRow(m, t) ==
    LET row == Reclaimed(t)[m]
    IN  IF Exists(m) /\ row.state \in {"queued", "claimed"} /\ PastDeadline(row, t)
        THEN [row EXCEPT !.state = "expired"]
        ELSE row

\* A bug this definition could have: expiry keeps the mailbox charge.
Sweep_no_recount ==
    /\ message' = [m \in MsgId |-> SweptRow(m, now)]
    /\ message' # message
    /\ UNCHANGED <<endpoint, policy, idempotency, minted, caller, op, now>>

\* sweep: any process may run it at any time.  Every endpoint with an expired
\* message is recounted when something expired.
Sweep ==
    /\ message' = [m \in MsgId |-> SweptRow(m, now)]
    /\ message' # message
    /\ endpoint' = IF \E m \in MsgId : /\ message'[m].state = "expired"
                                       /\ message[m].state # "expired"
                   THEN Recount(endpoint, message',
                                {e \in Endpoint : \E m \in MsgId :
                                    /\ message'[m].state = "expired"
                                    /\ message'[m].to = e})
                   ELSE endpoint
    /\ UNCHANGED <<policy, idempotency, minted, caller, op, now>>

Tick ==
    /\ now < MaxTime
    /\ now' = now + 1
    /\ UNCHANGED <<storeVars, caller, op>>

-----------------------------------------------------------------------------
\* Drafts a client of this model builds.
ClientDraft == [to : Recipients, kind : Kinds, reply_to : MsgId \cup {None},
                body : Body, key : Key, lifetime : Lifetimes]

Next ==
    \/ \E e \in Agent : Bind(e)
    \/ \E e \in Agent, i \in Incarnation : Unbind(e, i)
    \/ \E p \in Proc : Authenticate(p)
    \/ \E p \in Proc : LocalUser(p)
    \/ \E p \in Proc : Exit(p)
    \/ \E e \in Endpoint, pol \in Policies : SetPolicy(e, pol)
    \/ \E p \in Proc, d \in ClientDraft : Send(p, d)
    \/ \E p \in Proc : ClaimCheck(p)
    \/ \E p \in Proc : ClaimTx(p)
    \/ \E p \in Proc, m \in MsgId, body \in Body :
            \E key \in ReplyKey[m] : RespondCheck(p, m, body, key)
    \/ \E p \in Proc : RespondSend(p)
    \/ \E p \in Proc : RespondRetire(p)
    \/ \E p \in Proc, m \in MsgId : CancelCheck(p, m)
    \/ \E p \in Proc : CancelTx(p)
    \/ \E p \in Proc : InterruptTarget(p)
    \/ \E p \in Proc : Abort(p)
    \/ \E p \in Proc : ConfirmInterrupt(p)
    \/ Sweep
    \/ Tick

Spec == Init /\ [][Next]_vars

\* The clock runs, and some process (a watcher, a waiting client) keeps
\* sweeping.
Fairness == WF_vars(Tick) /\ WF_vars(Sweep)

FairSpec == Spec /\ Fairness

-----------------------------------------------------------------------------
(***************************************************************************)
(* Properties                                                               *)
(***************************************************************************)

\* The counters an endpoint row caches are exactly the number and the bytes
\* of its pending messages, although send adds to them, some transactions
\* recompute them and others change message states without touching them.
CountersExact ==
    \A e \in Endpoint :
        /\ endpoint[e].pending_count = Cardinality(Charged(message, e))
        /\ endpoint[e].pending_bytes
                = Cardinality(ByteUnits(message, Charged(message, e)))

\* Requests and notices never occupy the reserve, and nothing exceeds it: a
\* request flood leaves room for answers (RESERVED_COUNT, RESERVED_BYTES).
Ordinary(e) == {m \in Charged(message, e) : message[m].kind # "response"}

ReserveForResponses ==
    \A e \in Endpoint :
        /\ Cardinality(Ordinary(e)) =< MaxPendingCount
        /\ Cardinality(ByteUnits(message, Ordinary(e))) =< MaxPendingBytes
        /\ endpoint[e].pending_count =< MaxPendingCount + ReservedCount
        /\ endpoint[e].pending_bytes =< MaxPendingBytes + ReservedBytes

\* Two messages of one mailbox never share a recipient_sequence, so the order
\* of claims is total and the table's UNIQUE constraint never refuses a send.
SequencesUnique ==
    \A m, n \in MsgId :
        /\ m # n /\ Exists(m) /\ Exists(n)
        /\ message[m].to = message[n].to
        => message[m].sequence # message[n].sequence

\* A successful send means exactly one message: every message was produced by
\* exactly one key of its author, and a key stands for one existing message,
\* whatever retries, crashes and restarts happened in between.
OneMessagePerKey ==
    /\ \A m \in MsgId : Exists(m) =>
            \E k \in Key : idempotency[<<message[m].from, k>>] = m
    /\ \A sk \in Endpoint \X Key : idempotency[sk] # None =>
            /\ Exists(idempotency[sk])
            /\ message[idempotency[sk]].from = sk[1]
            /\ \A sl \in Endpoint \X Key :
                    idempotency[sl] = idempotency[sk] => sl = sk

\* A response identifies exactly one request: it was written by the endpoint
\* the request was addressed to and goes to the one that asked.
ResponsesAuthentic ==
    \A r \in MsgId : Exists(r) /\ message[r].kind = "response" =>
        LET request == message[message[r].reply_to]
        IN  /\ message[r].reply_to # None
            /\ Exists(message[r].reply_to)
            /\ request.kind = "request"
            /\ request.to = message[r].from
            /\ request.from = message[r].to

Responses(m) == {r \in MsgId : /\ Exists(r) /\ message[r].kind = "response"
                               /\ message[r].reply_to = m}

\* A request is answered at most once.
AtMostOneResponse == \A m \in MsgId : Cardinality(Responses(m)) =< 1

\* A resolution is final: a consumed, cancelled, expired or undeliverable
\* message is never changed again, by whatever late confirmation or answer.
TerminalIsFinal ==
    [][\A m \in MsgId : message[m].state \in Terminal
            => message'[m] = message[m]]_vars

\* A claim passes to somebody else, or back to the queue, only when its lease
\* lapsed or its owner was unbound; a rebind alone takes nothing away.
ClaimsAreNotStolen ==
    [][\A m \in MsgId :
        /\ message[m].state = "claimed"
        /\ message'[m].state \in {"queued", "claimed"}
        /\ message'[m].claim_owner # message[m].claim_owner
        => \/ message[m].claim_expires_at =< now
           \/ /\ endpoint[message[m].to].incarnation = message[m].claim_owner
              /\ endpoint'[message[m].to].incarnation = None]_vars

\* No accepted unread work is silently evicted: a message stops being pending
\* because a notice was taken by its recipient, a request was answered, its
\* sender cancelled it, its owner confirmed a stop, or its deadline passed.
NoSilentEviction ==
    [][\A m \in MsgId :
        message[m].state \in Pending /\ message'[m].state \notin Pending =>
            \/ /\ message'[m].state = "consumed" /\ message[m].kind = "notice"
               /\ \E p \in Proc : op[p].pc = "claim" /\ caller[p].ep = message[m].to
            \/ /\ message'[m].state = "consumed" /\ message[m].kind = "request"
               /\ Responses(m) # {}
            \/ /\ message'[m].state = "cancelled" /\ message[m].state = "queued"
               /\ \E p \in Proc : /\ op[p].pc = "cancel" /\ op[p].request = m
                                  /\ caller[p].ep = message[m].from
            \/ /\ message'[m].state = "cancelled"
               /\ message[m].state = "cancellation_requested"
            \/ /\ message'[m].state = "expired"
               /\ message[m].state \in {"queued", "claimed"}
               /\ PastDeadline(message[m], now)]_vars

\* A late confirmation cannot cancel a replacement incarnation: work that was
\* asked to stop ends as cancelled only while the incarnation that claimed it
\* is still the live binding of the endpoint.
OnlyLiveOwnerIsStopped ==
    [][\A m \in MsgId :
        /\ message[m].state = "cancellation_requested"
        /\ message'[m].state = "cancelled"
        => /\ message[m].claim_owner # None
           /\ endpoint[message[m].to].incarnation = message[m].claim_owner]_vars

\* No minute sees more requests and notices accepted for an endpoint than the
\* most permissive of its policies allows, however sends interleave.
RateRespected ==
    \A e \in Endpoint, t \in 0 .. now : \E pol \in Policies :
        Cardinality({m \in Recent(e, t) : /\ message[m].kind # "response"
                                          /\ message[m].created_at =< t})
            =< pol.max_inbound_per_minute

\* Mail is taken oldest first: what a claim passes over is invisible under
\* the recipient's policy of that moment, or past its deadline.
OldestVisibleFirst ==
    [][\A p \in Proc, m, n \in MsgId :
        /\ op[p].pc = "claim" /\ op'[p] = Idle
        /\ Exists(m) /\ Exists(n) /\ message[m].to = message[n].to
        /\ message'[m].claim_owner # message[m].claim_owner
        /\ message'[m].state = "claimed"
        /\ message[n].state = "queued"
        /\ message[n].sequence < message[m].sequence
        => \/ ~MessageDecision(message[n], "make_visible")
           \/ PastDeadline(message[n], now)]_vars

\* Work whose owner went away does not stay claimed: the lease lapses and
\* some sweep returns it.
LapsedClaimsReturn ==
    \A m \in MsgId : (message[m].state = "claimed")
                        ~> (message[m].state # "claimed")

(***************************************************************************)
(* Statements of comments, tests and the README that the code does not keep *)
(***************************************************************************)

\* respond: "there is no window in which a request is answered but still
\* pending".
NoAnsweredButPending ==
    \A m \in MsgId : Responses(m) # {} => message[m].state \notin Pending

\* "a superseded incarnation must not answer".
SupersededCannotAnswer ==
    [][\A r \in MsgId : ~Exists(r) /\ Exists(r)' /\ message'[r].kind = "response"
            => endpoint[message'[r].from].incarnation
                    = message'[r].from_incarnation]_vars

\* claim: "a replacement process cannot acknowledge work its predecessor
\* claimed".
OnlyTheOwnerAcknowledges ==
    [][\A p \in Proc : RespondRetire(p) /\ message[op[p].request].state = "claimed"
            => message[op[p].request].claim_owner = caller[p].inc]_vars

\* The abort path "requires ... only one active mesh request in that
\* endpoint": when the session is aborted nothing else is in flight there.
AbortHitsOneRequest ==
    [][\A p \in Proc : Abort(p)
            => InFlight(message[op[p].request].to) \subseteq {op[p].request}]_vars
=============================================================================
