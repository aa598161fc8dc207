\* Two hosts, two labels, two bridges; the operator trusts and forgets.
SPECIFICATION Spec
CONSTANTS
    PeerId = {p1, p2}
    HostId = {h1, h2}
    Label = {lab1, lab2}
    Remote = {r}
    Bridge = {b1, b2}
    Sender = {s}
    Outbound = {m}
    Inbound = {n}
    MaxProxies = 2
    None = None
SYMMETRY Symmetry
INVARIANTS NothingIsInherited RetiredHoldsNothing ProxiesFollowTheLease
CHECK_DEADLOCK FALSE
