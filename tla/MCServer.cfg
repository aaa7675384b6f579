CONSTANTS
    r1 = r1
    r2 = r2
    Requests = {r1, r2}
    t1 = t1
    t2 = t2
    Tokens = {t1, t2}
    UidOf <- MCUidOf
    Entries <- MCEntries
    Shapes <- MCShapes
    MaxEvents = 2
    m1 = m1
    m2 = m2
    m3 = m3
    Modules <- MCModules
    Uses <- MCUses
    Handlers = {h1, h2}
    j1 = j1
    j2 = j2
    j3 = j3
    j4 = j4
    Jobs = {j1, j2, j3, j4}
    Parent <- MCParent
    PoolSize = 2
    Waiters = {w1, w2}
    Triggers = {g1, g2}
    Ids = {i1, i2}
    DivisionPrecision = 3
    Numbers = {0, 1, 2, 5, 12, 25, 125}
    Exponents <- MCExponents
    Operands <- MCOperands
    Places <- MCPlaces
    DecimalTexts <- MCTexts
    Floats <- MCFloats
    MaxValue = 200
    Times <- MCTimes
    SequenceValues = 16
    MaxCalls = 6
    SampleUUIDs <- MCSample
    UidParts <- MCUids
    Hash <- MCHash
    Files <- MCFiles
    IntranetIPs <- MCIntranetIPs
    EnvValues <- MCEnvValues
    OwnerNos = {"g1", "g2"}
    Checksum <- MCChecksum
    Processes = {"server", "client"}
    Outer = {"client"}
    Reasons = {"", "user missing"}
    NoReason = ""
    Messages <- MCMessages
    Metadata = {"none", "some"}
    NoMetadata = "none"
    HttpCodes = {200, 409, 418}
    GrpcCodes = {"OK", "AlreadyExists", "DataLoss"}
    MaxHeld = 3
SPECIFICATION MCSpec
INVARIANT AnswersReachTheirWaiter
INVARIANT FailureNeverLogsOut
INVARIANT HandlersSeeTheirRequest
INVARIANT HandlersFindSetup
 
INVARIANT UuidsNeverRepeat
INVARIANT IdsAreReadBack
INVARIANT SettingsAreComplete
INVARIANT ErrorsSurviveTheWire
PROPERTY JobsFinish
CHECK_DEADLOCK FALSE
