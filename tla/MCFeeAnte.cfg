SPECIFICATION FeeFairSpec
CONSTANTS
    m1 = m1
    m2 = m2
    NoGrant = NoGrant
    Msg = {m1, m2}
    Account = {1, 2}
    Did = {1}
    Offered <- Plain
    DidOffered <- Mixed
    PruneLimit = 1
    SweepLimit = 1
    MaxTime = 2
    Payer = {2}
    Fee = {1}
    Endowment = 3
INVARIANTS DidQueueExact DrawnTwiceAtMost
PROPERTIES DidGrantsKept ChargedUnderGrant ExpiredRemoved
