SPECIFICATION Spec
CONSTANTS
    a1 = a1
    a2 = a2
    own1 = own1
    own2 = own2
    shared = shared
    NoKey = NoKey
    NoRow = NoRow
    Apps <- MCApps
    Keys <- MCKeys
    Rows <- MCRows

    MgrCallers = {c1, c2}
    Stores = {s1, s2}
    Runs = {r1, r2}
    SerialCalls = TRUE
    NoRun = NoRun

    Callers = {c1, c2}
    ChanCap = 2
    MaxMessages = 3

    f1 = f1
    f2 = f2
    f3 = f3
    f4 = f4
    k1 = k1
    k2 = k2
    Fishers <- MCFishers
    RoomKeys = {k1, k2}
    RoomKeyOf <- MCRoomKeyOf
    NoRoom = NoRoom

    Ports = {1, 2, 3}
    Configured = 0

    Clients = {p1, p2}
    Types = {y1, y2}
    JdbRoomIds = {j1, j2}
    NoJdb = NoJdb

    sub1 = sub1
    t1 = t1
    Topics <- MCTopics
    n1 = n1
    n2 = n2
    Partitions <- MCPartitions
    Publishers = {w1, w2}
    Subs <- MCSubs
    TopicOf <- MCTopicOf
    KeyOf <- MCKeyOf
    BusReaders = {b1, b2}
    MaxEvents <- MCMaxEvents
    NoBus = NoBus

    spribeTab = spribeTab
    inoutTab = inoutTab
    Tabs <- MCTabs
    BrandOf <- MCBrandOf
    NoGame = NoGame

    Rates = {1, 2, 3}
    Spins = {s1}
    MaxLoads = 3
    NoRate = NoRate

    GlobalRtpTiers <- MCTiers
    Limits <- MCLimits
    Requests <- MCRequests
    MaxInt = 1000
    MinInt <- MCMinInt
    NoAnswer = NoAnswer

    ConfKeys = {k1, k2}
    MaxIndex = 3

    WeightLists <- MCWeightLists

    Main = Main
    MonthLen = 3
    MainSpan = 4
    LastTime = 14
    Zones <- MCZones
    DateZone <- MCDateZone
    TableZone = 1
    NoTime = NoTime
    NoRule = NoRule

    Processes = {p1, p2, p3}
    Workers = 3
    MaxStarts = 7
INVARIANTS
    ServicesTypeOK
    KeyLeadsToCachedRow CachedRowHasKey
    LoopsCanBeStopped
    NothingLost
    SeatsAgree
    ServesAsAnnounced
    LeavesNoSeat
    OneWriterPerTopic EventsOnceInOrder RunningConsumerRegistered
    SeatedIsTold
    DrawnRateHasSamples
    FixedIsGreatestTier
    DrawnByWeight
    NoRecordMissed
    WorkerIdUnique
PROPERTIES
    StopsEnd OwnSessionRead OnlyClientDelaysCallers CancelFreesKey GroupCatchesUp WriteTakesEffect
CHECK_DEADLOCK FALSE
