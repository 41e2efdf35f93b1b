SPECIFICATION Spec
CHECK_DEADLOCK FALSE
CONSTANTS
    n1 = n1  n2 = n2  n3 = n3  r1 = r1  p1 = p1  c1 = c1  c2 = c2  a1 = a1
    peer1 = peer1  peer2 = peer2  k1 = k1  d1 = d1  identity = identity  offline = offline
    Policy = {p1}  PeerId = {peer1, peer2}  Controller = {c1, c2}  Account = {a1}
    IdentityKey = identity  NoKey = NoKey  NoRing = NoRing  NoInfo = NoInfo
    ReportType = {offline}  MinPSSInterval = 2
    Node = {n1, n2, n3}  RingId = {r1}  Key = {k1}  Relay = {d1}
    ManagedNode = {n3}  GenesisNodeInfo <- OneUnregistered  Config <- ReshareConfig
    MinUpgradeLead = 2  Committee <- Pairs  Threshold <- OneOrTwo  Version = {}  PssInterval = {}
    ReportingConfig <- WithBackups  MaxHeight = 3  MaxTime = 0  BlockGap = {0}
INVARIANTS RingInv StoredRingsValid SignatureUsedOnce CommitteeRegistered
PROPERTIES DraftedWithConsent
