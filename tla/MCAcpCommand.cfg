SPECIFICATION CmdFairSpec
CONSTANTS
    a = a
    b = b
    o = o
    Actor = {a, b}
    Object = {o}
    Content <- OwnClaims
    Validity <- BlocksOrTime
    NotRegistered = NotRegistered
    MaxCommitments = 2
    MaxEvents = 2
    MaxHeight = 3
    Jws <- Submitted
    Params <- TwoParams
    Word = 16
    NotSeen = NotSeen
INVARIANTS AmendmentStands JwsRunsOnce
PROPERTIES ClaimsGetOlder TakenByCommitment EventuallyFlagged
CHECK_DEADLOCK FALSE
