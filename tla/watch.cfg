\* The watchers of two instances, mail of one peer for an agent of each, one watcher killed.
SPECIFICATION Spec
CONSTANTS
    a1 = a1
    a2 = a2
    w1 = w1
    w2 = w2
    p = p
    Local = Local
    Peers = {p}
    Endpoint = {a1, a2}
    Watchers = {w1, w2}
    Home <- TwoHome
    To <- TwoTo
    From <- TwoFrom
    Granted <- TwoGranted
    Minute = 2
    Backoff = 1
    MaxAttempts = 2
    MaxTurns = 2
    PeerMaxTurns = 1
    MaxCrashes = 1
    Messages = 2
INVARIANTS TurnsPerMessage PeerOverrunBounded
CHECK_DEADLOCK FALSE
