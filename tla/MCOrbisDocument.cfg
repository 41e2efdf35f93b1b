SPECIFICATION DocumentSpec
CHECK_DEADLOCK FALSE
CONSTANTS
    n1 = n1  n2 = n2  n3 = n3  r1 = r1  r2 = r2  p1 = p1  c1 = c1  a1 = a1  m1 = m1  u1 = u1  u2 = u2
    peer1 = peer1  k1 = k1  k2 = k2  identity = identity  offline = offline
    Policy = {p1}  PeerId = {peer1}  Controller = {c1}  Account = {a1}
    IdentityKey = identity  NoKey = NoKey  NoRing = NoRing  NoInfo = NoInfo  NoEntry = NoEntry
    ReportType = {offline}  MinPSSInterval = 2
    Node = {n1, n2, n3}  RingId = {r1, r2}  Key = {k1, k2, identity}  Relay = {}
    ManagedNode = {}  GenesisNodeInfo <- Registry  Config <- PlainAndPet
    MinUpgradeLead = 2  Committee = {}  Threshold = {}  Version = {}  PssInterval = {}
    ReportingConfig <- NoBackups  MaxHeight = 2  MaxTime = 0  BlockGap = {0}
    Content = {m1}  Creator = {u1, u2}
INVARIANTS FinalizedUnanimously ConflictNeedsTwoNodes DeletedForever StoredUsable
PROPERTIES KeysStable FirstCreatorKeeps
