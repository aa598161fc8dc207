SPECIFICATION FairSpec
CONSTANTS
    None = None
    small = small
    asker = asker
    MsgId <- MsgIds
    Key <- Keys
    Bytes <- ByteSizes
    Scope <- OneInstance
    Space <- NoAddresses
    SendKey <- UserSends
    Agent = {b}
    User = {u}
    Proc = {asker, q}
    Incarnation = {i1}
    NumMsgs = 2
    NumSendKeys = 2
    Kinds = {"request", "response"}
    Recipients = {b, u}
    Body = {small, large}
    Policies <- TightAndBlind
    InitialPolicy <- Tight
    ReplyKey <- CliKey
    Lifetimes = {None}
    Leases = {1}
    MaxPendingCount = 2
    ReservedCount = 1
    MaxPendingBytes = 2
    ReservedBytes = 1
    MaxEndpoints = 2
    RateWindow = 1
    NoticeLifetime = 1
    MaxTime = 1
    ClaimHorizon = 0
    Env <- AskAndAnswer
INVARIANTS
    TypeOK
    ReserveForResponses
    OneMessagePerKey
    RateRespected
    ResponsesAuthentic
PROPERTIES
    NoSilentEviction
    OldestVisibleFirst
    LapsedClaimsReturn
