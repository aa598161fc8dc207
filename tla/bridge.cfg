\* A request and its answer over two connections, the second of which holds.
SPECIFICATION FairSpec
CONSTANTS
    a = a
    b = b
    ask = ask
    note = note
    reply = reply
    None = None
    Host <- MCHost
    Request = {ask}
    Notice = {}
    Response = {reply}
    Home <- MCHome
    ReplyTo <- MCReplyTo
    Deadlined = {ask}
    Refusable = {ask}
    Inexpressible = {}
    Conn <- MCConn
    Stable <- MCLastStable
    MaxLive = 1
    MaxInFlight = 2
    MaxFrames = 1
INVARIANTS LandsOnce ReceiptMeansCommit UndeliverableNeverLanded ConfirmedCancelStops
PROPERTIES ImplementsCall OutboxDrains
CHECK_DEADLOCK FALSE
