\* Two clients ask one peer through two bridges.
SPECIFICATION FairSpec
CONSTANTS
    Peer = {p1}
    Client = {c1, c2}
    Bridge = {b1, b2}
    Name = {n}
    Agent = {x}
    Window = {w}
    MaxPending = 1
    MaxId = 2
    MaxRenames = 1
    None = None
INVARIANTS AnswersAreCurrent QuestionsBounded
PROPERTIES AskReturns
CHECK_DEADLOCK FALSE
