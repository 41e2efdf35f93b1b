SPECIFICATION TokenFairSpec
CONSTANTS
    a = a
    b = b
    d = d
    e = e
    Token <- Tokens
    Signer = {a, b}
    Relay = FALSE
    NoAccount = NoAccount
    NoRecord = NoRecord
    NoDid = NoDid
    Ticks = 2
    Step = {1, 3}
    LastTime = 9
INVARIANTS IndicesAgree UsedWhileGood
PROPERTY ExpiryNoticed
CHECK_DEADLOCK FALSE
