SPECIFICATION ShardSpec
CONSTANTS
    Main = Main
    MonthLen = 3
    MainSpan = 4
    LastTime = 14
    Zones = {0}
    DateZone = 0
    TableZone = 0
    NoTime = NoTime
    NoRule = NoRule
INVARIANT HistoryFromStart
