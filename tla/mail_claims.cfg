SPECIFICATION Spec
CONSTANTS
    None = None
    small = small
    asker = asker
    MsgId <- MsgIds
    Key <- Keys
    Bytes <- ByteSizes
    Scope <- OneInstance
    Space <- NoAddresses
    SendKey <- UserSends
    Agent = {b}
    User = {u}
    Proc = {asker, q, r}
    Incarnation = {i1, i2}
    NumMsgs = 3
    NumSendKeys = 1
    Kinds = {"request", "notice"}
    Recipients = {b}
    Body = {small, large}
    Policies <- OnlyStoppable
    InitialPolicy <- Stoppable
    ReplyKey <- CliKey
    Lifetimes = {1}
    Leases = {1}
    MaxPendingCount = 3
    ReservedCount = 1
    MaxPendingBytes = 1
    ReservedBytes = 2
    MaxEndpoints = 2
    RateWindow = 1
    NoticeLifetime = 1
    MaxTime = 1
    ClaimHorizon = 1
    Env <- AskAndAnswer
INVARIANTS AtMostOneResponse CountersExact
PROPERTIES
    ClaimsAreNotStolen
    TerminalIsFinal
    OnlyLiveOwnerIsStopped

SYMMETRY Interchangeable
