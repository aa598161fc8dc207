SPECIFICATION GateSpec
CONSTANTS
    Sender = {"e1"}
    Instance = {"i1", "i2"}
    SpaceField <- AllSpaceFields
    Requests <- AllRequests
    Policies <- AllPolicies
INVARIANTS
    VerdictMatchesGrounds
    WideningNeverRefuses
CHECK_DEADLOCK FALSE
