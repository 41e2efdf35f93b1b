SPECIFICATION ReportSpec
CHECK_DEADLOCK FALSE
CONSTANTS
    n1 = n1  n2 = n2  n3 = n3  n4 = n4  r1 = r1  p1 = p1  c1 = c1  a1 = a1
    peer1 = peer1  k1 = k1  d1 = d1  identity = identity  offline = offline  crypto = crypto
    sign = sign  s1 = s1  t1 = t1  no = no
    Policy = {p1}  PeerId = {peer1}  Controller = {c1}  Account = {a1}
    IdentityKey = identity  NoKey = NoKey  NoRing = NoRing  NoInfo = NoInfo
    ReportType = {offline, crypto}  MinPSSInterval = 2
    Node = {n1, n2, n3}  RingId = {r1}  Key = {k1}  Relay = {}
    ManagedNode = {}  GenesisNodeInfo <- Registry  Config <- TwoOfThree
    MinUpgradeLead = 2  Committee = {}  Threshold = {}  Version = {}  PssInterval = {}
    ReportingConfig <- NoKick  MaxHeight = 6  MaxTime = 4  BlockGap = {0, 1}
    Pinned = {crypto}  OriginProtocol = {sign}  Session = {s1}  Attempt = {}  NoAttempt = no
    Reporter = {n1, n2}  Accused = {n3}  ReportTTL = 2  Grace = 1  Word = 16
INVARIANT EvidenceOnce
