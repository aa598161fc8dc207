----------------------------- MODULE MeshPolicy -----------------------------
(***************************************************************************)
(* The gates of an endpoint: Policy::evaluate of agent-mesh-core.  A gate   *)
(* looks at who sent a message and at the rule the recipient configured for *)
(* that gate, and answers with the name of the rule that decided.           *)
(*                                                                          *)
(* A request for a decision is a record                                     *)
(*   kind          the principal: "agent", "local_user" or "peer"           *)
(*   sender        the sending endpoint                                     *)
(*   sender_scope, target_scope      runtime instances                      *)
(*   sender_space, target_space      outermost address segment, see Space   *)
(*   is_reply      the message answers a request of the target              *)
(*   peer_trusted  the sender's whole peer host is trusted                  *)
(***************************************************************************)

PrincipalKind == {"agent", "local_user", "peer"}

AdmitRule == {"nobody", "replies_only", "replies_and_team",
              "replies_and_trusted", "anyone"}

TeamScope == {"off", "runtime_instance", "space"}

\* The three gates that look at a rule; the other two are switches.
RuledGate == {"enqueue", "make_visible", "activate"}

SwitchGate == {"pty_nudge", "interrupt"}

Gate == RuledGate \cup SwitchGate

\* Two values of a space field that name no space: the endpoint has no
\* address at all, or an address without a space segment.
NoSpace == {"no_address", "no_space"}

\* The defaults: queueing is open within the account, activation is limited
\* to replies and teammates, and nothing touches a PTY or interrupts a turn.
DefaultPolicy ==
    [enqueue |-> "anyone", make_visible |-> "replies_and_trusted",
     activate |-> "replies_and_team", pty_nudge |-> FALSE,
     interrupt |-> FALSE, trusted |-> {}, team |-> "runtime_instance",
     max_inbound_per_minute |-> 60]

-----------------------------------------------------------------------------
\* Space membership needs both addresses; with either missing the runtime
\* instance decides.
SharesSpace(req) ==
    IF "no_address" \in {req.sender_space, req.target_space}
    THEN req.sender_scope = req.target_scope
    ELSE /\ req.target_space # "no_space"
         /\ req.sender_space = req.target_space

SameInstance(policy, req) ==
    \/ policy.team = "runtime_instance" /\ req.sender_scope = req.target_scope
    \/ policy.team = "space" /\ SharesSpace(req)

\* The decision for a sender on a peer host.
PeerRule(policy, admit, req) ==
    IF admit = "nobody" THEN "not_admitted"
    ELSE IF req.is_reply THEN "reply"
    ELSE IF /\ req.peer_trusted \/ req.sender \in policy.trusted
            /\ admit \in {"anyone", "replies_and_trusted"}
         THEN "trusted"
    ELSE "not_admitted"

\* A bug this definition could have: the wider rule forgets the team.
LocalRule_trusted_without_team(policy, gate, admit, req) ==
    IF /\ req.kind = "local_user"
       /\ gate = "make_visible"
       /\ admit = "replies_and_trusted"
    THEN "anyone"
    ELSE IF req.is_reply /\ admit # "nobody" THEN "reply"
    ELSE IF admit = "anyone" THEN "anyone"
    ELSE IF admit = "replies_and_trusted" /\ req.sender \in policy.trusted
         THEN "trusted"
    ELSE IF admit = "replies_and_team" /\ SameInstance(policy, req)
         THEN "team"
    ELSE "not_admitted"

\* The decision for an agent of this host or the person at the keyboard.
LocalRule(policy, gate, admit, req) ==
    IF /\ req.kind = "local_user"
       /\ gate = "make_visible"
       /\ admit = "replies_and_trusted"
    THEN "anyone"
    ELSE IF req.is_reply /\ admit # "nobody" THEN "reply"
    ELSE IF admit = "anyone" THEN "anyone"
    ELSE IF admit = "replies_and_trusted" /\ req.sender \in policy.trusted
         THEN "trusted"
    ELSE IF /\ admit \in {"replies_and_trusted", "replies_and_team"}
            /\ SameInstance(policy, req)
         THEN "team"
    ELSE "not_admitted"

\* A bug this definition could have: a peer is judged like a local sender.
Evaluate_peer_is_local(policy, gate, req) ==
    IF gate \in SwitchGate
    THEN IF policy[gate] THEN "anyone" ELSE "disabled"
    ELSE LocalRule(policy, gate, policy[gate], req)

\* The rule that decides; see Allowed for the verdict it carries.
Evaluate(policy, gate, req) ==
    IF gate \in SwitchGate
    THEN IF policy[gate] THEN "anyone" ELSE "disabled"
    ELSE IF req.kind = "peer" THEN PeerRule(policy, policy[gate], req)
    ELSE LocalRule(policy, gate, policy[gate], req)

Allowed(policy, gate, req) ==
    Evaluate(policy, gate, req) \notin {"not_admitted", "disabled"}

-----------------------------------------------------------------------------
(***************************************************************************)
(* Reference.  What each rule grants, as the comments on the Admit variants *)
(* and in evaluate put it: a rule is a set of grounds, and a sender passes  *)
(* when it has one of them.                                                 *)
(***************************************************************************)
Grounds == [nobody |-> {},
            replies_only |-> {"reply"},
            replies_and_team |-> {"reply", "team"},
            replies_and_trusted |-> {"reply", "team", "trusted", "operator"},
            anyone |-> {"reply", "team", "trusted", "operator", "local"}]

\* The grounds a sender has at a gate: no team grant reaches a peer, and
\* "anyone" means anyone on this host.
Standing(policy, gate, req) ==
    {ground \in {"reply", "team", "trusted", "operator", "local"} :
        \/ ground = "reply" /\ req.is_reply
        \/ ground = "team" /\ req.kind # "peer" /\ SameInstance(policy, req)
        \/ /\ ground = "trusted"
           /\ \/ req.sender \in policy.trusted
              \/ req.kind = "peer" /\ req.peer_trusted
        \/ ground = "operator" /\ req.kind = "local_user" /\ gate = "make_visible"
        \/ ground = "local" /\ req.kind # "peer"}

\* Widening order of the rules.
Narrower(a, b) == Grounds[a] \subseteq Grounds[b]
=============================================================================
