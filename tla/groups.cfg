\* A group of two, created and edited once, with two fan-outs under one key or two.
SPECIFICATION Spec
CONSTANTS
    Members = 2
    Key = {k1, k2}
    Sender = {s1, s2}
    Editor = {d1}
    Waiter = {w1}
    Quorum = {0, 1}
    MaxSends = 2
    MaxEdits = 2
    None = None
SYMMETRY Symmetry
INVARIANTS AskedWereMembers QuorumIsHonest
CHECK_DEADLOCK FALSE
