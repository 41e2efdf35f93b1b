SPECIFICATION Spec
CONSTANTS
    Del = {1, 2}
    Val = {1, 2}
    Amount = {10}
    Funds = 20
    PoolFunds = 1
    OtherStake = 10
    Rates <- TwoRates
    EpochDuration = 2
    UnlockingEpochs = 1
    RewardsInterval = 2
    DeveloperPoolFee = 2
    InsurancePoolFee = 1
    InsurancePoolThreshold = 2
    UnbondingTime = 2
    MaxEntries = 2
    Rewards = {100}
    Slash <- TenPercent
    EventAddress = {"operator", "consensus"}
    MaxFaults = 1
    DecUnit = 1000
    Halt = {1, 3}
    LastMessage = 2
    MaxTime = 5
    Developer = {1}
    Did = {1}
    Subscribed = {1, 3}
    Period = {0}
    Fee = {1}
    Msg = {m}
    NoGrant = NoGrant
    SweepLimit = 1
    NoSub = NoSub
    MaxMessages = 4
INVARIANTS TotalsAreSums NobodyGains OwedIsBacked NothingOrphaned PaysEachUnitOnce
PROPERTIES LossesExplained DuePaid
CHECK_DEADLOCK FALSE
