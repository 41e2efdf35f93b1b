SPECIFICATION Spec
CHECK_DEADLOCK FALSE
CONSTANTS
    n1 = n1  n2 = n2  n3 = n3  r1 = r1  p1 = p1  c1 = c1  c2 = c2  a1 = a1
    peer1 = peer1  peer2 = peer2  k1 = k1  d1 = d1  identity = identity  offline = offline
    Policy = {p1}  PeerId = {peer1}  Controller = {c1}  Account = {a1}
    IdentityKey = identity  NoKey = NoKey  NoRing = NoRing  NoInfo = NoInfo
    ReportType = {offline}  MinPSSInterval = 2
    Node = {n1}  RingId = {r1}  Key = {k1}  Relay = {}
    ManagedNode = {}  GenesisNodeInfo <- AllRegistered  Config <- SoloConfig
    MinUpgradeLead = 2  Committee = {{}}  Threshold = {1}  Version = {1, 2, 3}  PssInterval = {1, 2, 3}
    ReportingConfig <- WithInvalid  MaxHeight = 5  MaxTime = 7  BlockGap = {0, 1, 3}
PROPERTIES EffectiveVersionMonotone UpgradeNotice
