SPECIFICATION CmdSpec
CONSTANTS
    a = a
    b = b
    o = o
    Actor = {a, b}
    Object = {o}
    Content <- OwnClaims
    Validity <- BlocksOrTime
    NotRegistered = NotRegistered
    MaxCommitments = 2
    MaxEvents = 2
    MaxHeight = 3
    Jws <- TwoForms
    Params <- TwoParams
    Word = 16
    NotSeen = NotSeen
INVARIANT PayloadRunsOnce
CHECK_DEADLOCK FALSE
