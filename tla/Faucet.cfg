SPECIFICATION FaucetFairSpec
CONSTANTS
    Handler = {h1, h2, h3}
    Address = {x, y}
    Blocked = {y}
    Amount = 2
    Funds = 3
INVARIANT OnePending
PROPERTY AcceptedSettled
