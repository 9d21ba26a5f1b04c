----------------------------- MODULE ShardRouter -----------------------------
(***************************************************************************)
(* sharding.AppGameRecordRouter for one merchant: which tables a query for *)
(* a period reads.  Records are written to the main table; those of a big  *)
(* merchant that are older than MainSpan are kept in a table per month.    *)
(*                                                                         *)
(* Times are instants, numbered in UTC.  A time.Time also has a zone: its   *)
(* month is that of its zone's clock, and the router takes the month's     *)
(* number for a month of UTC.  Mode and start date are the merchant's row  *)
(* in the database, of which the router has a copy.                        *)
(***************************************************************************)
EXTENDS Integers

CONSTANTS
    Main,           \* the main table; a history table is its month
    MonthLen,
    MainSpan,       \* thirty days
    LastTime,       \* bound: the end of time
    Zones,          \* zones of queries, as offsets from UTC
    DateZone,       \* the zone in which the database gives the start date
    TableZone,      \* the zone by whose months the records are moved to the tables
    NoTime,         \* no sharding start date
    NoRule          \* the router does not know the merchant

ASSUME ShardAssumption ==
    /\ MonthLen \in Nat \ {0}
    /\ LastTime \in Nat /\ MainSpan \in 1..LastTime
    /\ Zones \subseteq Int /\ DateZone \in Int /\ TableZone \in Int
    /\ NoTime \notin 0..LastTime /\ Main \notin Int

Times == 0..LastTime

\* Year() and Month() of x in its zone ...
Month(x, zone) == (x + zone) \div MonthLen

\* ... and the first of that month, in UTC.
FirstOf(m) == m * MonthLen

Modes == {"OnlyMain", "MainAndHistory"}

VARIABLES
    now,
    appInfo,        \* in the database: the merchant's mode and start date
    rule            \* AppGameRecordRouter.Rules[app]

shardVars == <<now, appInfo, rule>>

ShardInit ==
    /\ now = MainSpan
    /\ appInfo = [mode |-> "OnlyMain", since |-> NoTime]
    /\ rule = NoRule

PassTime ==
    /\ now < LastTime
    /\ now' = now + 1
    /\ UNCHANGED <<appInfo, rule>>

\* The back office makes a merchant a big one, or a small one again.
StartSharding ==
    /\ appInfo.mode = "OnlyMain"
    /\ appInfo' = [mode |-> "MainAndHistory", since |-> now]
    /\ UNCHANGED <<now, rule>>

StopSharding ==
    /\ appInfo.mode = "MainAndHistory"
    /\ appInfo' = [appInfo EXCEPT !.mode = "OnlyMain"]
    /\ UNCHANGED <<now, rule>>

InitializeRules == rule' = appInfo /\ UNCHANGED <<now, appInfo>>

\* The start date of a rule that exists is not updated.
UpdateRule ==
    /\ rule' = IF rule = NoRule THEN appInfo ELSE [rule EXCEPT !.mode = appInfo.mode]
    /\ UNCHANGED <<now, appInfo>>

ShardNext ==
    \/ PassTime \/ StartSharding \/ StopSharding
    \/ InitializeRules \/ UpdateRule

ShardSpec == ShardInit /\ [][ShardNext]_shardVars

-----------------------------------------------------------------------------
(* GetQueryTables.                                                          *)

\* The records of the last MainSpan, up to now.
MainTable(end) == IF end + MainSpan > now THEN {Main} ELSE {}

\* The start date has its own zone, the query's ends have theirs.
StartMonth(start, zone) ==
    IF rule.since # NoTime /\ rule.since > start THEN Month(rule.since, DateZone)
    ELSE Month(start, zone)

\* A month's table is read if the month began before the main table's records.
\* (Mutant: if it ended before them.)
EndedBeforeMain(m) == FirstOf(m + 1) + MainSpan <= now
BeganBeforeMain(m) == FirstOf(m) + MainSpan < now

HistoryTables(start, end, zone) ==
    {m \in StartMonth(start, zone)..Month(end, zone) : BeganBeforeMain(m)}

GetQueryTables(start, end, zone) ==
    IF rule = NoRule \/ rule.mode = "OnlyMain" THEN {Main}
    ELSE MainTable(end) \cup HistoryTables(start, end, zone)

-----------------------------------------------------------------------------
(* Properties.                                                              *)

ShardTypeOK ==
    LET ShardRows == [mode : Modes, since : Times \cup {NoTime}] IN
    /\ now \in Times
    /\ appInfo \in ShardRows
    /\ rule \in ShardRows \cup {NoRule}

\* The table a record of time x is in.  At the very boundary it may be in either.
Home(x) == IF x + MainSpan > now THEN Main ELSE Month(x, TableZone)

Queries == {q \in Times \X Times : q[1] <= q[2] /\ q[2] <= now}

\* A sharded merchant, for whom the router knows it.
Sharded == rule # NoRule /\ rule.mode = "MainAndHistory" /\ appInfo.mode = "MainAndHistory"

\* What the clocks show: the record's, in the zone of the tables, lies between the
\* query's ends in theirs, not before the start of sharding in its own, and shows
\* a time that is past the main table's edge in UTC.  With everything in UTC:
\* the record is in the query, sharded, and older than the main table.
ClocksAgree(x, q, zone) ==
    LET shown == x + TableZone IN
    /\ q[1] + zone <= shown /\ shown <= q[2] + zone
    /\ appInfo.since + DateZone <= shown
    /\ shown + MainSpan < now

\* The router leaves out no table in which the query has records since the start
\* of sharding, wherever in a month the query, that start and the edge of the main
\* table fall, as long as the clocks agree: with all times in UTC, always; with a
\* zone east of UTC not for records that have been out of the main table for less
\* than the zone's offset; with different zones not for records whose months differ.
NoRecordMissed ==
    Sharded =>
        \A q \in Queries, zone \in Zones : \A x \in q[1]..q[2] :
            Home(x) = Main \/ ClocksAgree(x, q, zone)
                => Home(x) \in GetQueryTables(q[1], q[2], zone)

\* No history table from before the merchant's start of sharding is read.  There
\* is none, and one missing table fails the whole UNION ALL.
HistoryFromStart ==
    Sharded =>
        \A q \in Queries, zone \in Zones :
            \A m \in GetQueryTables(q[1], q[2], zone) \ {Main} :
                m >= Month(appInfo.since, DateZone)
=============================================================================
