------------------------------ MODULE MeshGate ------------------------------
(***************************************************************************)
(* One gate of one endpoint, asked one question: Policy::evaluate called    *)
(* once, for every policy and every request in play.                        *)
(***************************************************************************)
EXTENDS MeshPolicy

CONSTANTS
    Sender, Instance, SpaceField,   \* what a request may name
    Requests, Policies              \* the arguments in play

\* The shapes of the two arguments of evaluate, the rate limits left out.  A
\* sender without an endpoint id or a scope is one that nothing trusts or
\* shares.
RequestRecord ==
    [kind : PrincipalKind, sender : Sender, sender_scope : Instance,
     target_scope : Instance, sender_space : SpaceField,
     target_space : SpaceField, is_reply : BOOLEAN, peer_trusted : BOOLEAN]

PolicyRecord ==
    [enqueue : AdmitRule, make_visible : AdmitRule, activate : AdmitRule,
     pty_nudge : BOOLEAN, interrupt : BOOLEAN, trusted : SUBSET Sender,
     team : TeamScope]

ASSUME GateAssumption ==
    /\ Requests \subseteq RequestRecord
    /\ Policies \subseteq PolicyRecord

VARIABLES policy, gate, req, rule

gateVars == <<policy, gate, req, rule>>

GateInit ==
    /\ policy \in Policies
    /\ gate \in Gate
    /\ req \in Requests
    /\ rule = "unasked"

AskGate ==
    /\ rule = "unasked"
    /\ rule' = Evaluate(policy, gate, req)
    /\ UNCHANGED <<policy, gate, req>>

GateNext == AskGate

GateSpec == GateInit /\ [][GateNext]_gateVars

-----------------------------------------------------------------------------
\* The verdict of evaluate is the one the reference gives: a ruled gate opens
\* exactly when the rule grants one of the grounds the sender has.
VerdictMatchesGrounds ==
    rule # "unasked" /\ gate \in RuledGate =>
        ((rule # "not_admitted") <=>
            (Grounds[policy[gate]] \cap Standing(policy, gate, req) # {}))

\* Widening a rule never shuts out a sender it admitted before, whatever kind
\* of principal the sender is and whatever gate the rule stands at.
WideningNeverRefuses ==
    gate \in RuledGate =>
        \A wider \in AdmitRule :
            /\ Narrower(policy[gate], wider)
            /\ Allowed(policy, gate, req)
            => Allowed([policy EXCEPT ![gate] = wider], gate, req)
=============================================================================
