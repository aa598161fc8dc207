------------------------------ MODULE Watcher -------------------------------
(***************************************************************************)
(* Waking agents for waiting mail.  Each runtime instance has one watcher;  *)
(* a pass lists the messages whose recipient could be woken, and for each   *)
(* one reads two budgets, starts a provider turn and records the attempt,   *)
(* every part in a transaction of its own.  Meanwhile agents claim mail,    *)
(* the operator changes policies, other instances' watchers spend the same  *)
(* peer's budget, and a watcher may be killed anywhere and started again.   *)
(*                                                                          *)
(* Time is kept as ages: a tick ages every record, and what is older than   *)
(* any comparison asks for is not told apart any more.                      *)
(***************************************************************************)
EXTENDS Naturals, FiniteSets, FiniteSetsExt

CONSTANTS
    Messages,       \* messages are 1..Messages, in mailbox order (a bound)
    Endpoint,       \* local agents
    Watchers,       \* one per runtime instance
    Peers,          \* peer hosts that mail comes from
    Home,           \* endpoint -> the watcher of its runtime instance
    To,             \* message -> its recipient
    From,           \* message -> the peer it came from, or Local
    Granted,        \* endpoint -> what its provider can do
    Minute,         \* 60_000 ms in ticks: the budgets' window
    Backoff,        \* backoff_ms in ticks
    MaxAttempts,    \* max_attempts
    MaxTurns,       \* max_auto_turns_per_minute
    PeerMaxTurns,   \* PEER_MAX_AUTO_TURNS_PER_MINUTE
    MaxCrashes,     \* watchers killed in the middle of a pass (a bound)
    Local

Msg == 1..Messages

ASSUME WatcherAssumption ==
    /\ Messages \in Nat /\ Minute \in Nat \ {0} /\ Backoff \in Nat
    /\ MaxAttempts \in Nat /\ MaxTurns \in Nat /\ PeerMaxTurns \in Nat
    /\ MaxCrashes \in Nat
    /\ Home \in [Endpoint -> Watchers] /\ To \in [Msg -> Endpoint]
    /\ From \in [Msg -> Peers \cup {Local}] /\ Local \notin Peers
    /\ IsFiniteSet(Watchers) /\ Watchers # {}
    /\ Granted \in [Endpoint -> SUBSET {"external_turn_start", "structured_pull"}]

VARIABLES
    msg,      \* message table: state, attempts, time since the last one
    audit,    \* recorded "started" wake-ups of the last minute
    online,   \* agents that are bound to a live process
    allowed,  \* message -> what the activate and visibility gates say now
    watch,    \* the watchers
    turns,    \* turns really started: how many per message, and of the last
              \* minute those the watcher was told of and the silent ones
    crashes

vars == <<msg, audit, online, allowed, watch, turns, crashes>>

Idle == [pc |-> "idle", todo |-> {}]

\* One wake-up of message m, age ticks ago; n tells a message's wake-ups apart.
WakeUp == [msg : Msg, n : Nat, age : 0..Minute - 1]

TypeOK ==
    /\ msg \in [Msg -> [state : {"absent", "queued", "claimed", "gone"},
                        activations : 0..MaxAttempts, quiet : 0..Backoff]]
    /\ audit \subseteq WakeUp
    /\ online \subseteq Endpoint
    /\ allowed \in [Msg -> BOOLEAN]
    /\ \A w \in Watchers :
        /\ watch[w].pc \in {"idle", "next", "peer", "limited", "activate", "started", "unavailable"}
        /\ watch[w].todo \subseteq [msg : Msg, allowed : BOOLEAN]
        /\ (watch[w].pc = "idle") = (watch[w].todo = {})
    /\ turns.count \in [Msg -> Nat] /\ turns.told \cup turns.silent \subseteq WakeUp
    /\ crashes \in 0..MaxCrashes

Init ==
    /\ msg = [m \in Msg |-> [state |-> "absent", activations |-> 0, quiet |-> Backoff]]
    /\ audit = {}
    /\ online = Endpoint
    /\ allowed \in [Msg -> BOOLEAN]
    /\ watch = [w \in Watchers |-> Idle]
    /\ turns = [count |-> [m \in Msg |-> 0], told |-> {}, silent |-> {}]
    /\ crashes = 0

-----------------------------------------------------------------------------
(***************************************************************************)
(* The mailbox around the watcher                                           *)
(***************************************************************************)
Moves(m, from, to) ==
    /\ msg[m].state = from
    /\ msg' = [msg EXCEPT ![m].state = to]
    /\ UNCHANGED <<audit, online, allowed, watch, turns, crashes>>

Arrive(m) == Moves(m, "absent", "queued")
Claim(m) == To[m] \in online /\ Moves(m, "queued", "claimed")
Requeue(m) == Moves(m, "claimed", "queued")
Finish(m) == Moves(m, "claimed", "gone")
Withdraw(m) == Moves(m, "queued", "gone")

\* set_policy: the recipient's gates for this message, from now on.
SetPolicy(m) ==
    /\ allowed' = [allowed EXCEPT ![m] = ~@]
    /\ UNCHANGED <<msg, audit, online, watch, turns, crashes>>

\* unbind, which requeues what the agent had claimed, and bind.
Unbind(e) ==
    /\ e \in online
    /\ online' = online \ {e}
    /\ msg' = [m \in Msg |-> IF To[m] = e /\ msg[m].state = "claimed"
                             THEN [msg[m] EXCEPT !.state = "queued"] ELSE msg[m]]
    /\ UNCHANGED <<audit, allowed, watch, turns, crashes>>

Bind(e) ==
    /\ e \notin online
    /\ online' = online \cup {e}
    /\ UNCHANGED <<msg, audit, allowed, watch, turns, crashes>>

Aged(wakeUps) ==
    {[x EXCEPT !.age = @ + 1] : x \in {y \in wakeUps : y.age + 1 < Minute}}

Tick ==
    /\ msg' = [m \in Msg |-> [msg[m] EXCEPT !.quiet = Min({@ + 1, Backoff})]]
    /\ audit' = Aged(audit)
    /\ turns' = [turns EXCEPT !.told = Aged(@), !.silent = Aged(@)]
    /\ UNCHANGED <<online, allowed, watch, crashes>>

-----------------------------------------------------------------------------
(***************************************************************************)
(* A pass                                                                   *)
(***************************************************************************)

\* Capabilities::delivery_mode, and whether it can start a turn on its own.
DeliveryMode(granted) ==
    IF "external_turn_start" \in granted
    THEN IF "structured_pull" \in granted THEN "activate_and_pull" ELSE "activate_with_payload"
    ELSE IF "structured_pull" \in granted THEN "pull_only" ELSE "queued"

Activates(granted) == DeliveryMode(granted) \in {"activate_and_pull", "activate_with_payload"}

\* activatable: waiting in this instance, attempts left, and quiet long enough.
Candidates(w) ==
    {m \in Msg : /\ msg[m].state = "queued"
                 /\ Home[To[m]] = w /\ To[m] \in online
                 /\ msg[m].activations < MaxAttempts
                 /\ msg[m].quiet >= Backoff
                 /\ Activates(Granted[To[m]])}

\* one_pass sweeps and lists; each candidate carries the decision of now.
List(w) ==
    /\ watch[w].pc = "idle" /\ Candidates(w) # {}
    /\ watch' = [watch EXCEPT ![w] = [pc |-> "next",
            todo |-> {[msg |-> m, allowed |-> allowed[m]] : m \in Candidates(w)}]]
    /\ UNCHANGED <<msg, audit, online, allowed, turns, crashes>>

\* The candidate in hand: the list is in mailbox order.
Current(w) ==
    CHOOSE c \in watch[w].todo : \A d \in watch[w].todo : c.msg =< d.msg

\* A bug this definition could have: a wake-up that worked is no attempt.
RecordActivation_failed(w, result) ==
    LET m == Current(w).msg
        todo == watch[w].todo \ {Current(w)}
    IN  /\ msg' = [msg EXCEPT ![m].activations = IF result = "started" THEN @ ELSE @ + 1,
                              ![m].quiet = 0]
        /\ audit' = IF result = "started"
                    THEN audit \cup {[msg |-> m, n |-> turns.count[m], age |-> 0]}
                    ELSE audit
        /\ watch' = [watch EXCEPT ![w] = IF todo = {} THEN Idle
                                         ELSE [pc |-> "next", todo |-> todo]]

\* record_activation, and on to the next candidate: every outcome counts as an
\* attempt and restarts the backoff, only "started" counts for the budgets.
RecordActivation(w, result) ==
    LET m == Current(w).msg
        todo == watch[w].todo \ {Current(w)}
    IN  /\ msg' = [msg EXCEPT ![m].activations = @ + 1, ![m].quiet = 0]
        /\ audit' = IF result = "started"
                    THEN audit \cup {[msg |-> m, n |-> msg[m].activations, age |-> 0]}
                    ELSE audit
        /\ watch' = [watch EXCEPT ![w] = IF todo = {} THEN Idle
                                         ELSE [pc |-> "next", todo |-> todo]]

Refuse(w) ==
    /\ watch[w].pc = "next" /\ ~Current(w).allowed
    /\ RecordActivation(w, "policy_refused")
    /\ UNCHANGED <<online, allowed, turns, crashes>>

ActivationBudgetLeft(e) == Cardinality({x \in audit : To[x.msg] = e}) < MaxTurns

\* A bug this definition could have: off by one.
PeerActivationBudgetLeft_one_more(m) ==
    From[m] # Local => Cardinality({x \in audit : From[x.msg] = From[m]}) =< PeerMaxTurns

\* Across every local agent; anything that is not a peer has no such budget.
PeerActivationBudgetLeft(m) ==
    From[m] # Local => Cardinality({x \in audit : From[x.msg] = From[m]}) < PeerMaxTurns

Goes(w, pc) ==
    /\ watch' = [watch EXCEPT ![w].pc = pc]
    /\ UNCHANGED <<msg, audit, online, allowed, crashes>>

ReadBudget(w) ==
    /\ watch[w].pc = "next" /\ Current(w).allowed
    /\ Goes(w, IF ActivationBudgetLeft(To[Current(w).msg]) THEN "peer" ELSE "limited")
    /\ UNCHANGED turns

ReadPeerBudget(w) ==
    /\ watch[w].pc = "peer"
    /\ Goes(w, IF PeerActivationBudgetLeft(Current(w).msg) THEN "activate" ELSE "limited")
    /\ UNCHANGED turns

RateLimited(w) ==
    /\ watch[w].pc = "limited"
    /\ RecordActivation(w, "rate_limited")
    /\ UNCHANGED <<online, allowed, turns, crashes>>

\* The turn that the provider starts for the candidate in hand.
NewTurn(w) == [msg |-> Current(w).msg, n |-> turns.count[Current(w).msg], age |-> 0]

\* activate: the provider starts a turn and says so; ...
ActivateStarts(w) ==
    /\ watch[w].pc = "activate"
    /\ Goes(w, "started")
    /\ turns' = [turns EXCEPT !.count[Current(w).msg] = @ + 1, !.told = @ \cup {NewTurn(w)}]

\* ... it starts one, but its answer is late, cut or lost; ...
ActivateUnanswered(w) ==
    /\ watch[w].pc = "activate"
    /\ Goes(w, "unavailable")
    /\ turns' = [turns EXCEPT !.count[Current(w).msg] = @ + 1, !.silent = @ \cup {NewTurn(w)}]

\* ... or it starts none.
ActivateFails(w) ==
    /\ watch[w].pc = "activate"
    /\ Goes(w, "unavailable")
    /\ UNCHANGED turns

Activated(w) ==
    /\ watch[w].pc \in {"started", "unavailable"}
    /\ RecordActivation(w, watch[w].pc)
    /\ UNCHANGED <<online, allowed, turns, crashes>>

\* The watcher is killed in the middle of a pass; the next one starts anew.
Crash(w) ==
    /\ watch[w].pc # "idle" /\ crashes < MaxCrashes
    /\ watch' = [watch EXCEPT ![w] = Idle]
    /\ crashes' = crashes + 1
    /\ UNCHANGED <<msg, audit, online, allowed, turns>>

Step(w) ==
    \/ List(w) \/ Refuse(w) \/ ReadBudget(w) \/ ReadPeerBudget(w) \/ RateLimited(w)
    \/ ActivateStarts(w) \/ ActivateUnanswered(w) \/ ActivateFails(w) \/ Activated(w)

Next ==
    \/ \E m \in Msg : Arrive(m) \/ Claim(m) \/ Requeue(m) \/ Finish(m) \/ Withdraw(m)
    \/ \E m \in Msg : SetPolicy(m)
    \/ \E e \in Endpoint : Unbind(e) \/ Bind(e)
    \/ \E w \in Watchers : Step(w)
    \/ \E w \in Watchers : Crash(w)
    \/ Tick

Spec == Init /\ [][Next]_vars

-----------------------------------------------------------------------------
(***************************************************************************)
(* Properties                                                               *)
(***************************************************************************)

\* "An agent that was woken and did not pick the message up is not woken again
\* immediately", and never more than max_attempts times: refused and limited
\* attempts and those whose answer was lost included, a message costs at most
\* max_attempts turns, plus one for every watcher killed between starting a turn
\* and recording it.
TurnsPerMessage == \A m \in Msg : turns.count[m] =< MaxAttempts + crashes

\* The turns of the last minute that the mail of peer p started.
TurnsOf(p, wakeUps) == {x \in wakeUps : From[x.msg] = p}

\* The peer's budget "across every local agent" is shared by the watchers of
\* all instances, which read it and record what they spent in different
\* transactions: each further watcher can overrun it once.  Outside the budget
\* are the turns whose watcher was killed before it recorded them, and those
\* whose answer was lost, which are recorded as unavailable: the turns of a peer
\* exceed its budget by these three and by no more.
PeerOverrunBounded ==
    \A p \in Peers :
        Cardinality(TurnsOf(p, turns.told \cup turns.silent))
            =< PeerMaxTurns + (Cardinality(Watchers) - 1) + crashes
                 + Cardinality(TurnsOf(p, turns.silent))

(***************************************************************************)
(* Statements that the code does not keep                                   *)
(***************************************************************************)

\* one_pass: "A peer host has a budget of its own across every local agent, so
\* it cannot spend the full allowance of each of them at once".
PeerBudget ==
    \A p \in Peers : Cardinality(TurnsOf(p, turns.told \cup turns.silent)) =< PeerMaxTurns

\* DEFAULT_MAX_ATTEMPTS is "how many times one message may wake its recipient
\* before the watcher gives up on it": it gives up only on messages that woke
\* their recipient that often.
GivesUpAfterWaking ==
    \A m \in Msg : msg[m].activations = MaxAttempts => turns.count[m] = MaxAttempts

\* "never more than a few times": one message does not wake its recipient more
\* often than max_attempts says.
NeverMoreThanMaxAttempts == \A m \in Msg : turns.count[m] =< MaxAttempts
=============================================================================
