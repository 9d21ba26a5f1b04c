# game_common in TLA+

`game_common` is the Go library the game servers of a casino platform share: it seats
players in rooms, caches the platform's configuration, moves events over Kafka, draws
slot results, issues ids and routes record queries to tables. This directory models
the parts of it whose correctness depends on the order of steps, checks them with TLC
and proves the central results with TLAPS.

Paths below are relative to the repository; line numbers are in `PROJECT.json`, which
maps every definition that models code.

## 1. The system

| Component | Files | State | Operations | What makes it correct |
|---|---|---|---|---|
| Room manager | `gamehub/common/room_manager.go`, `player.go`, `nolobby.go`, `gamehub/types/types.go` | `roomMap` (type -> open rooms) under `roomMapMu`, `playerRoomMap` (player -> room) under `playerRoomMapMu`, `players` (sync.Map), `Player.room/roomManager/conn` without a lock | `OnLogin` = `TryReConnectGame`, then `OnJoin`; `ExitRoom`; `SwitchRoom`; `OnMessage`; `OnDisConnect`; ping timer | a player is brought back to his seat; no dead room is offered; a room goes when it is empty and only then; every call returns |
| Brand routers | `gamehub/{spribe,inout,jdb,jili}` | per-connection step and `Player` | websocket loop: handshake, login, messages, disconnect | a login ends in one player; every player is told of his disconnect |
| Hub server | `gamehub/server/server.go` | `app`, `lis` | `Start`, `Stop` | what is announced is served; `Stop` ends the server, whenever it comes |
| Legacy servers | `inout/server`, `spribe/server`, `jdb/server`, `jili/fish/server` | as the room manager, one copy each | `OnLogin`, `ExitRoom`, `OnMessage` | as the room manager |
| Cache manager | `cache/manager.go`, `notify.go`, `store.go` | `started`, `cancel`, `warmedUp`, `stores`, `wg`, a load mutex per store | `Register`, `WarmUp`, `Start`, `Stop`, `Refresh`, subscribe and refresh loops | one set of loops at a time; Stop ends them; a warm cache is complete |
| Cache stores | `cache/app_info.go`, `app_game.go`, `app_game_brand.go`, `game_info.go` | maps under an RWMutex; AppInfo has a second index by access key | `LoadAll`, `LoadOne`, cache-aside `Get*` | the index agrees with the map; a change in the database reaches the cache |
| Event bus | `eventbus/kafka_bus.go`, `event.go` | writers and readers maps | `Publish`, `Subscribe`, `Close` | one reader per subscription; consumers end |
| Slot rtp | `slot/rtp.go`, `rtp_config.go` | config by table, sample ids by rate | consul watch, `CacheSimpleByRate`, `GetRoundRate`, `GetOneSimpleByRate`, `GetRateByWeight` | a rate that is drawn has samples; a config change arrives |
| Record sharding | `sharding/app_game_record_sharding.go` | rule per app under an RWMutex | `InitializeRules`, `UpdateRule`, `GetQueryTables` | no record in the queried period is missed or counted twice |
| RTP tiers | `models/app_info_rtp.go` | none | `FixRtp` | the greatest allowed tier not above the value |
| Ids | `utils/snowflake.go` | worker id from Redis | `getWorkerIDFromRedis`, `Generate` | unique ids |
| Player session store | `player/utils.go`, `player/ssokey*.go` | Redis hashes and tokens | `InitPlayer`, `UpdateGameId`, `GetPlayerByAppAndPlayerId`, SSO key codecs | a session is complete or absent; decode inverts encode |
| Websocket helpers | `websocket/` | a connection, a receive queue of 10 | `Recv`, `Send`, `Close` | a waiting reader does not keep the writer or `Close` out |
| Fairness, crypto, currency, formats | `spribe/fairness.go`, `gamehub/fairness`, `inout/server/fairness.go`, `utils/*`, `sfs/*` | none | pure functions | arithmetic and encoding |
| Generated and thin code | `api/*`, `*/pb`, `third_party`, `trace`, `health`, `models/*` | none | protobuf, gRPC clients, GORM rows | - |

How they interact. A router's websocket goroutine reads the login message, decodes the
SSO key, reads the player's session from Redis, asks the API service for his balance
and calls the lobby, which calls the room manager. The manager calls into rooms
(supplied by each game, not in this repository) while it holds `roomMapMu`; rooms call
back, from their own goroutines, `Player.ExitRoom` and `RoomManager.SwitchRoom`.
Configuration reaches the servers through the cache (database, Redis notifications,
timers), through Consul (slot rtp) and through the RTP service (gRPC).

What is hard: the connection's goroutine and the room's work on one `Player` whose
fields have no lock; lookup and registration are separate critical sections; two
websockets of one player overlap; the caches are written by loaders that hold a lock
and by readers that do not; background loops are started and stopped by different
callers. `PROJECT.json` lists each hazard with its line and the properties that cover it.

## 2. The modules

| Module | What it is |
|---|---|
| `RoomManager` | the room manager: every login, reconnection, join, exit and switch, goroutine by goroutine |
| `RoomLifecycle` | the abstract life of a room, which `RoomManager` implements with rtp matching |
| `CacheStore` | one cached table: loads, notices, refreshes, cache-aside reads, against a changing table |
| `AppInfoIndex` | the two maps of `AppInfoStore` |
| `CacheManager` | the life of the cache: register, warm up, start, stop |
| `Routers` | the login of one player through the four brands' routers, and his session in Redis |
| `HubServer` | Endpoint, Start and Stop of gamehub's server |
| `FishRooms`, `JdbRooms` | the rooms of two of the legacy servers |
| `KafkaBus` | publishers and consumers of the event bus |
| `RtpWatch`, `RtpSamples`, `RtpWeights` | slot rtp: the watch on Consul, the samples by rate, the draw by weight |
| `ShardRouter` | the tables a record query reads |
| `RtpTiers` | `FixRtp` |
| `WorkerIds` | the worker ids of processes |
| `Connect` | one websocket connection: read loop, `Recv`, `Send`, `Close` |
| `MCRoomManager`, `MCCacheStore`, `MCCacheManager`, `MCServices` | the instances TLC checks; `ShardRouter` is checked by itself too |
| `RoomManagerProofs` | types of `RoomManager` |
| `RoomSafetyProofs`, `RoomLifecycleProofs` | the room invariant and what follows from it, the refinement |
| `RoomRegistryProofs` | registries and rooms agree, empty rooms are noticed, the mutex is let go, when the contract is kept |
| `CacheStoreProofs` | loads lose nothing and never go back, as long as no `Get` fills the cache |
| `KafkaBusProofs` | proofs about `KafkaBus` |
| `RtpProofs` | proofs about `RtpSamples`, `RtpWeights` and `RtpTiers`, and about the loops over data they model |
| `ServicesProofs` | proofs about the other components of `MCServices`, one section each, and about the composition |

A mutant of a definition (an operator whose comment says "Mutant") stands just before it.
It is the same code with one plausible mistake, and is used only to see that a property
notices.

### RoomManager

A session is a websocket and its `Player` object; a player may have several, one after
the other or at once. Two goroutines work on a session: the connection's (`conn`) and the
room's (`room`). `pc` says where each of them is. A step is the code between two points
where another goroutine can interfere:

- `roomMapMu` is held over calls into rooms, so it is a variable, and taking and
  releasing it are parts of steps.
- `playerRoomMapMu` covers single map operations, and `players` is a `sync.Map`: each
  access is one step.
- `Player.room`, `roomManager` and `conn` have no common lock. Each access that another
  goroutine can come between is a step of its own (`CheckOldConn`, `CloseOldConn`,
  `ReadRoom`, `SetJoinedRoom`, ...).

| Code | Actions |
|---|---|
| `NoLobby.OnLogin`, `TryReConnectGame` | `StartLogin`, `LookupRoom`, `CheckOldConn`, `CloseOldConn`, `StorePlayer`, `ReConnectRoom` |
| `OnJoin` | `JoinListedRoom` or `FindNoRoom`, `SetJoinedRoom`, `SkipCreate` or `CreateRoom` or `CreateRefused`, `ListRoom`, `RecordPlayer` |
| `ExitRoom` | `ReadRoom`, `DeletePlayer`, `UnmapPlayer`, `CloseConn`, then `FindEmpty` and `DisposeEmpty`, or `FindOccupied`, or `DisposeSingle`, or `ExitNilRoom`, and `FinishExit` |
| `SwitchRoom` | `StartSwitch`, `LeaveOldRoom`, all of `ExitRoom`, `SwitchAttach`, `SwitchAccepted` and `ListRoom`, or `SwitchRefused` |
| `OnDisConnect` | `Disconnect` |

Rooms belong to the games, not to this repository. What the model assumes of them comes
from how the manager uses `types.RoomImp`: a room has one seat per player and may refuse
one; `OnReConnect` hands the seat to the new session or refuses a player without a seat;
`OnDisConnect` on a broken connection keeps the seat until the room lets the player go
(`Release`: seat first, then `Player.ExitRoom`); the `OnDisConnect` of `SwitchRoom` takes
the player off his seat, as the comment on that call says.

Two constants say how much the surroundings may do at the same time. Safety of rooms
and lists needs neither and is proved without:

| Constant | When TRUE | When FALSE |
|---|---|---|
| `SerialRooms` | a room has one manager call per `Player` object in progress | a release by the room and a login or switch of the same session overlap |
| `SerialPlayers` | one session of a player is in `OnLogin` or `SwitchRoom` at a time | two tabs log in together |

The registry properties (`RegistryAgrees`, `PlayersAgree`, `OneSeatPerPlayer`,
`EmptyRoomWatched`), `HolderWillUnlock` and the liveness properties are checked with both
TRUE. That is a contract the library's users have to keep, and `room_two_tabs` shows what happens to
`RegistryAgrees` when they do not. With `SerialRooms` FALSE an `ExitRoom` can run twice
for one `Player` object (`room_manager.go:78` notes the missing `LoadAndDelete`) and find
a nil room inside the locked section: the goroutine panics and `roomMapMu` stays locked
(`MutexNeverLeft` proves that it cannot happen when both are TRUE).

`NoLobby.OnLogin` asks the RTP service twice, for the key of the list and for the arguments
of a new room (`nolobby.go:51`). The model keeps the first answer; the second only goes to
the game's room. Whenever the two differ a room is listed under a rtp it was not created
with, so no property says that it is not.

### RoomLifecycle

A room opens with its first player or not at all, takes players in only while it is open,
closes only when it is empty, and never opens again. The refinement maps `phase` to
"open" for a room that is listed, or about to be by the goroutine that holds the mutex,
and `guests` to the seats. `Matcher = "SINGLE"` is not a refinement: such a room is
disposed of without a look at its seats.

### CacheStore

One store and its table. A row is the number of the change that wrote it, 0 if it is not
there: the age of a row is all the properties need. Rows come in groups, what `LoadOne`
reloads. A step is one query or one critical section of `Store.mu`; the load mutex of
`Manager.storeLock` is the variable `loadMu`.

| Code | Actions |
|---|---|
| back office: write, `Publish` | `ChangeRow` (the notice may be lost: Pub/Sub stores nothing) |
| `Start` -> `WarmUp` | `WarmUp`, then a load; the loops run once it is installed |
| `subscribeLoop` | `Receive`, then a load of the group, or of all for an empty key |
| `refreshLoopOne` | `Tick`, then a load of all |
| `Refresh` | `Refresh`, then a load |
| `safeLoadAll`, `safeLoadOne` | `LockStore`, then `Query`, or `ListGroups` and `QueryGroup`s, then `Install`; or `QueryFails` |
| `Get`, `GetByAppID`, `GetByAccessKeyID` | `Miss`, `AskRow` or `AskNothing`, `PutRow` |

`LockStore` leaves open whether a full load is one query (AppInfo, GameInfo) or one per
group (AppGame, AppGameBrand), so a run covers all four stores. `owed` is a history
variable: groups with a change whose notice was lost or whose reload failed, until some
load reads them. `ReadThrough` switches `Get` on.

### AppInfoIndex

`AppInfoStore.mu` makes a full load, `put` and `remove` one step each. What they are given
was read before the mutex was taken, so `Put` may be given any row the table ever held,
and `LoadAll` any table that has one row per app id.

### CacheManager

Each `Start` that gets past the `started` guard is a run with a context of its own.

| Code | Actions |
|---|---|
| `Register` | `Register`, at any time: a store that comes after the warm-up is neither loaded nor refreshed |
| `Start` | `Start`, the warm-up, then `StartLoop`s and `StartReturns`, or `CancelFailed` and `ResetFailed` |
| `WarmUp` | `CallWarmUp`, `WarmUpLoads` and `SetWarmedUp`, or `WarmUpFails` |
| the loops' ends | `LoopReturns`, `SubscriptionLost` |
| the owner of the context | `ParentCancelled` |
| `Stop` | `Stop`, `StopCancels`, `StopWaits`, `StopReturns` |

`SerialCalls` says that the manager's user makes one call at a time. `Start` holds no lock
while it warms up, so a `Stop` in that time is possible and is the subject of
`cache_stop_race`.

### Routers

One player opens tabs; each is a game, with a brand. A tab is launched (`InitPlayer`
writes the session hash), its websocket's handler goes through its steps, and a client
whose websocket broke comes back without a launch. Each Redis command is a step, so that
two tabs' commands interleave and the session may expire between any two of them.

| Code | Actions |
|---|---|
| `InitPlayer` | `OpenTab` |
| `UpdateGameId` (spribe, jdb) | `UpdateGame`, `UpdateBrand` |
| `GetPlayerByAppAndPlayerId` | `ReadSession` |
| the login message, the lobby's `OnLogin` | `AskLogin`, `Login` |
| any error, the end of the websocket | `Fails` |
| the handler's deferred function, `OnDisConnect` | `HandlerEnds` |
| a reconnecting client, the hash's 24 hours | `ComeBack`, `Expire` |

The `HSET` of a launch may fail: `InitPlayer` logs that and reports success
(`player/utils.go:132`), so the websocket comes all the same, to an old session or none.
`tabPlayer` is the handler's variable `player`, on which the deferred function depends:
spribe and jdb set it at the end of a login, inout and jili before it. `kept` and `others`
are history: whose launches are in the session, and what was written since a tab wrote its
game. They say exactly what a tab may find beside its own game, so that every interleaving
is within `OwnSessionRead`: the game of a tab that wrote later, and nothing older.

### HubServer

`app` and `lis` have no lock, and kratos calls `Endpoint`, `Start` (from a goroutine) and
`Stop` in an order it does not promise. A port is bound by whichever of `Endpoint` and
`StartServer` comes first (`EnsureListener`); `Serve` is the goroutine `Start` leaves
behind. `Ports` are what the system may give for port 0, `Configured = 0` in the run.

### FishRooms and JdbRooms

`FishRooms` is `jili/fish/server`: `LoadFishRoom` and `StoreFishRoom` are `GetRoom` with
its `Load` and `LoadOrStore`, two steps between which others run; a room is named by the
websocket that made it. `JdbRooms` is `jdb/server`: a quick login (`AskRoom`) finds a
listed room (`JoinListed`), stays (`StayInRoom`) or makes one (`MakeRoom`); when a new
room refuses its client, the code returns without `Unlock`, and so does the model: the
mutex stays with that client.

### KafkaBus

One process, and Kafka as the bus sees it: a topic is a set of partitions, each a log (only
the number of its events matters), and the writer's `LeastBytes` balancer may put an event
in any of them; a group has an offset in each partition, which `ReadMessage` commits before
it returns; an open reader is a member of its group. Order is a matter of one partition.
`NextReader` gives a new reader the next unused name, as names of readers mean nothing.

| Code | Actions |
|---|---|
| `Publish` | `FindWriter` (without the lock), `LockWriters`, `MakeWriter`, `WriteEvent` |
| `Subscribe` | `Subscribe`; the key taken is an error |
| the consumer goroutine | `ReadMessage`, `HandlerReturns`, `ReadFails`, `WakeUp`, `SeesEnd`, `ConsumerReturns` |
| `Close` | `CloseBus` |
| the subscriber's context | `CancelContext` |
| the process dies | `BusCrash`: everything but Kafka starts anew |

### RtpWatch, RtpSamples, RtpWeights

`RtpWatch`: `FirstLoad` is `watchKeys`; the loop is `List`, whose answer is read at one time
and applied at another, then `IgnoreAnswer` or `ApplyAnswer`. The back office writes
(`WriteKey`, also what is not a configuration) and deletes keys at any time. `RtpSamples`:
`CacheSimpleByRate` stores the lists of ids one by one (`StoreRate`) and then the list of
rates (`StoreAllRates`), while spins draw a rate (`GetRoundRate`) and then a sample of it
(`GetOneSimpleByRate`). `RtpWeights`: for a list of weights and a random number, the rate
`GetRateByWeight` answers with.

### ShardRouter, RtpTiers, WorkerIds

`ShardRouter`: time passes, a merchant starts and stops sharding, and the router hears of
it by `InitializeRules` or `UpdateRule`. `GetQueryTables` is an operator, and
`NoRecordMissed` quantifies over all queries. `Home` says where records are: in the main
table for `MainSpan` (30 days), then in their month's.

Times are instants in UTC, and each argument has a zone: the code takes year and month in
the argument's own zone and makes a month of UTC of them, which it compares with the edge
of the main table (`sharding.go:110`). `Month(x, zone)` and `FirstOf` do the same. The
query, the start date and the monthly job that moves records (which is not in this
repository) have zones of their own. So a record may be missed: in a zone east of UTC while
it is out of the main table for less than the offset, and at either end of the period when
the zones differ. `ClocksAgree` says when that cannot be, and `NoRecordMissed` that it is
then not; with everything in UTC it always agrees.

`RtpTiers`: `SetLimits` and `AskRtp`
give `FixRtp` all combinations of limits and requests, with an int that overflows.
`WorkerIds`: processes start and end, the counter in Redis goes up, ids wrap.

### Connect

The client's messages are numbered and 0 is the error that ends the read loop. `mu` is an
`RWMutex`: `Recv` holds it for reading while it waits for a message, and a waiting writer
keeps new readers out (`WriterWaits`). `Close` is a call and, once the lock is free, the
rest in one step. `Send` holds the lock while it writes to the socket, and nobody sets a
deadline: `WriteReturns` is sure to come only if the client reads, has gone, or the
connection is closed (`WriteMayGoOn`), and `ClientPauses` is the client that stops reading.

## 3. The runs

| Run | Question | Instance | Result |
|---|---|---|---|
| `room_races` | Do rooms and lists stay in order whatever runs at once? | two sessions of one player, two rtps, 3 rooms, one switch, everything concurrent | holds, and implements `RoomLifecycle` |
| `room_serial` | Do the registries agree with the rooms, and is the mutex given back, when the contract is kept? | three sessions of two players, 4 rooms, one switch | holds |
| `room_single` | Is a single-player room disposed of once? | as `room_serial`, `SINGLE` | holds |
| `room_live` | Does every call return, does every empty room go? | two sessions of one player, fairness | holds |
| `room_disposed_twice` | Is a room disposed of once? | two players, let go together | no: `OnDispose` runs twice |
| `room_close_race` | Is the old connection safe to close? | a reconnection and a release | no: `Close` on nil |
| `room_two_tabs` | Does the registry know every seated player? | one player in two tabs | no: the first tab's room is forgotten |
| `cache_loads` | Can loads lose a change or go back? | 2 groups of 2 rows, 3 changes, warm-up, both loops, one caller of `Refresh` | no, they cannot |
| `cache_live` | Does the cache catch up after lost notices, failed queries and refills? | 2 groups of 1 row, a caller of `Get` and `Refresh`, fairness | it does |
| `cache_stop_race` | Does `Stop` wait for all the goroutines? | `Stop` during `Start` | no: it returns before the loops exist |
| `services` | The 14 components besides, each with properties of its own (below) | one instance of each | holds |
| `shard_start_date` | Does a query leave tables from before the sharding alone? | one merchant that starts sharding | no: `UpdateRule` keeps the old start date |

`services` checks the components that are not the room manager or a cache store. They
share no state, so a behaviour is one of a single component: `part` chooses it at the start,
the others stay as they began, and the states add up instead of multiplying.

| Component | Instance | What is checked |
|---|---|---|
| `AppInfoIndex` | 2 apps, a key each and one both may have, 3 versions of a row | `KeyLeadsToCachedRow`, `CachedRowHasKey`: a key leads to the row of its app and to no other |
| `CacheManager` | 2 stores, 2 runs, 2 callers, `SerialCalls` | `LoopsCanBeStopped`: somebody can stop the loops; `StopsEnd`: a `Stop` returns |
| `Connect` | 3 messages, channel of 2, 2 callers | `NothingLost`: every message in order, then the error; `OnlyClientDelaysCallers`: `Send` and `Close` return unless the lock is held for a client that is silent or does not read |
| `FishRooms` | 4 players, 3 of them of one merchant and rtp | `SeatsAgree`: those play in one room, and nobody stays in it after his connection |
| `HubServer` | 3 ports to choose from | `ServesAsAnnounced`: the announced port is the served one, nothing is served after `Stop` |
| `JdbRooms` | 2 clients, 2 types, 2 rooms | `LeavesNoSeat`, for clients that ask once |
| `KafkaBus` | 1 topic of 2 partitions, with up to 2 events and 1, 2 publishers, 2 consumers one after the other | `OneWriterPerTopic`, `EventsOnceInOrder`, `RunningConsumerRegistered`, `CancelFreesKey`, `GroupCatchesUp` |
| `Routers` | a tab of spribe and one of inout | `OwnSessionRead`: the session that is read is the player's, and the tab's or a later one's; `SeatedIsTold`: no seat is left without a word |
| `RtpSamples` | 3 rates, 3 loads, 1 spin | `DrawnRateHasSamples` |
| `RtpTiers` | the ten tiers of the code, limits and requests at, between and beyond them | `FixedIsGreatestTier`, against the definition of the greatest legal tier |
| `RtpWatch` | 2 keys, 3 writes | `WriteTakesEffect` |
| `RtpWeights` | all lists of up to three weights 0..2, and some with -1 | `DrawnByWeight`: as many random numbers as its weight draw a rate |
| `ShardRouter` | months of 3 days, main table of 4, 14 days; queries in the zones -1, 0 and 1, start date in -1, tables in 1 | `NoRecordMissed` |
| `WorkerIds` | 3 processes, 3 ids, 7 starts | `WorkerIdUnique` |

Bounds, and why they are enough:

- *Rooms.* A login or a switch creates at most one room, and `EnoughRooms` is an
  assumption that TLC evaluates, so the supply never runs out. Every race of the manager
  is between two goroutines that name the same player, the same room, or the mutex: two
  sessions of one player give the former, a third session of another player gives the
  latter together with them. `MaxSwitches = 1` bounds the calls of `SwitchRoom`: one
  already overlaps with every other operation, and the second starts from the states the
  first ends in.
- *Cache.* `MaxVersion` bounds the changes to the table: two loads that overlap need two
  changes to be told apart, a third comes between the queries of one load. Two groups
  are what a load by groups can mix, two rows are what a group can mix. `Runs` bounds the
  starts of the manager: a failed or stopped run and the next one.
- *Connect.* With two places in the channel and three messages it is empty, partly full,
  full, and full with a message in the loop's hand; the error then finds it in each state.
- *KafkaBus.* Two publishers race for one writer, a second consumer takes over from the
  first, two events of a partition are what can be swapped, lost or repeated, and the other
  partition is what a consumer can be busy with meanwhile.
- *RtpWatch, RtpSamples.* `MaxIndex` and `MaxLoads` are 3: what was there, what is being
  applied, and what comes in between. A spin that draws before the second load may draw
  its sample after the third.
- *Legacy rooms.* Of three players of one key the second and third find the first's room
  in the map, or no room; the fourth shows that keys do not mix. A jdb client needs a second
  type to be seated twice.
- *ShardRouter.* A month of 3 and a main table of 4 put the edge on every day of a month
  and let a query span months that are wholly, partly and not at all in the main table; an
  offset of a third of a month moves times into another month.
- *WorkerIds.* Seven starts wrap three ids twice.

Deadlock is checked in the cache runs. The room runs end when all sessions are gone, and
of `services` most components end (the server is down, the connection closed, the days
are over), so these do not check it.

### Fairness

`room_live` assumes weak fairness of `Proceed`: a goroutine inside the manager goes on
when it can. That is Go's scheduler, and its mutexes, which hand over to a waiter after
a millisecond. Nothing obliges a player to log in, a room to release, or a room to
accept. `cache_live` assumes that goroutines run, that tickers tick, strong fairness of
taking the load mutex, and that from some time on queries do not fail; a lost notice
stays lost.

In `services`: `ManagerFairness`, calls and loops go on when they can, and nobody has to
call `Stop`. `ConnectFairness`, the read loop and a `Recv` that has a message go on, and
`Send` and `Close` get the lock in their turn (strong, as `RWMutex` blocks new readers once
a writer waits); a write goes on while the client reads, has gone, or the connection is
closed, and nobody promises that a client reads. `BusFairness`, a consumer's own steps are
weakly fair, and reading is strongly so for each partition of a group: a broker that is
back again and again gives it to a member some day and passes over no partition for ever. `WatchFairness`,
a blocking query returns (after five minutes at the latest), and one that fails is tried
again until one succeeds. Clients, back office, publishers and processes owe nothing.

## 4. The proofs

All for any number of sessions, players, rooms, rtps, apps, keys, rows, topics, groups,
partitions, consumers, rates, processes, ids, zones, months and days.

| Theorem | Module | Says |
|---|---|---|
| `TypeCorrect` | `RoomManagerProofs` | types, with any matcher and environment |
| `NoDisposedRoomIsListed` | `RoomSafetyProofs` | no disposed room is offered to a player |
| `DisposedRoomsAreEmpty` | `RoomSafetyProofs` | nobody sits in a disposed room |
| `SeatedRoomsAreListed` | `RoomSafetyProofs` | a room in use stays open to its rtp |
| `ManagerImplementsLifecycle` | `RoomLifecycleProofs` | `RoomManager` implements `RoomLifecycle` with rtp matching |
| `OneSeatPerIdent` | `RoomRegistryProofs` | a player sits in one room with one session, given the contract |
| `RegistryKnowsSeats` | `RoomRegistryProofs` | between calls `playerRoomMap` names the rooms players sit in, given the contract |
| `PlayersHoldSeats` | `RoomRegistryProofs` | between calls the registered `Player` holds the seat and knows his room, given the contract |
| `EmptyRoomsWatched` | `RoomRegistryProofs` | with rtp matching an exit is on its way to every empty listed room, given the contract |
| `SoloDisposedOnce` | `RoomRegistryProofs` | a single-player room is disposed of once, given the contract |
| `MutexNeverLeft` | `RoomRegistryProofs` | whoever holds `roomMapMu` is on his way to its `Unlock`, given the contract |
| `NoChangeLost` | `CacheStoreProofs` | a change of the table is pending or owed until the cache has it, given `~ReadThrough` |
| `LoadsMoveForward` | `CacheStoreProofs` | no load replaces a row by an older one, given `~ReadThrough` |
| `TopicsHaveOneWriter` | `KafkaBusProofs` | publishers of a topic share the writer `Close` closes |
| `EventsHandledOnce` | `KafkaBusProofs` | no group is given an event twice, or after a later one of its partition |
| `RunningConsumersRegistered` | `KafkaBusProofs` | a running consumer is the one under its key |
| `OneFishRoomPerKey` | `ServicesProofs` | one room per merchant and rtp, and no seats of the departed |
| `OneRequestLeavesNoSeat` | `ServicesProofs` | a jdb client that asked once leaves no seat behind |
| `KeysLeadToCachedRows`, `CachedRowsHaveKeys` | `ServicesProofs` | the two maps of `AppInfoStore` agree |
| `LoopsStayInHand` | `ServicesProofs` | live loops can be stopped, given `SerialCalls` |
| `DrawnRatesHaveSamples` | `RtpProofs` | a drawn rate has samples as new as the list it came from |
| `RatesDrawnByWeight` | `RtpProofs` | a rate is drawn by as many random numbers as its weight says, if no weight is negative |
| `RtpFixedToTier` | `RtpProofs` | `FixRtp` answers with the greatest legal tier not above the RTP asked for, or refuses |
| `WatchUpToDate` | `ServicesProofs` | while Consul has nothing newer than `lastIndex`, the configuration in use is Consul's |
| `HubServesAsAnnounced` | `ServicesProofs` | the hub serves the announced port, and not after `Stop` |
| `WorkerIdsUnique` | `ServicesProofs` | an id is unique until as many starts as there are ids |
| `MessagesArriveInOrder` | `ServicesProofs` | the game gets the client's messages in order, without gaps, then the error |
| `OwnSessionsRead`, `SeatedAreTold` | `ServicesProofs` | a login reads its own game or one written since; a seated player's room is told |
| `NoTableLeftOut` | `ServicesProofs` | a query reads every table with records of its period on which the clocks agree |
| `ServicesTypesCorrect` | `ServicesProofs` | types, in the composition |
| `ServicesAreSafe` | `ServicesProofs` | the safety invariants of the 14 components, and `OwnSessionRead`, hold with all of them at work at once; of these `LoopsCanBeStopped` needs `SerialCalls` |

*Rooms.* The invariant is `RoomInv`. What the theorems say is not inductive: that a room
stays empty between "seen empty" and `OnDispose` depends on who can seat players, and
that on the mutex. So `RoomInv` adds the lock protocol (`Locking`), what the holder of the
mutex has seen and may rely on (`TypeChosen`, `OpeningRoom`, `DisposingEmpty`) and that a
room out of use has neither players nor an entry (`OutOfUse`). Steps are of two kinds.
`Quiet` steps leave all that alone, and one lemma shows it for all of them; the steps that
take or hold the mutex are treated one by one. `OnReConnect` seats a player without the
mutex and is quiet because it only passes on a seat. `TypeOK` itself needs
`HeldRoomIsRoom`: without it `ListRoom` could list a nil room.

*Refinement.* Every step opens, enters, leaves, closes or abandons one room or leaves
`Phase` and the seats as they are. `PhaseOf` turns the definition of `Phase` into a case
distinction, and `RoomInv` supplies each abstract guard: an empty room for `Close`, an
unlisted one for `Open`.

*Registries.* `RegistryAgrees` and `PlayersAgree` speak of players at rest, so they say
nothing of the steps in between; `RegistryInv` says where seat, record and `Player.room` are
at each of them. A seat is taken before it is recorded (`TakesSeat`, `NotRecorded`), given
up before its record is erased (`LeavesOnce`), and passed on to a session that comes back
for the room the lookup found, if it is still recorded (`ComesBack`). `SeatsHeld`,
`SeatsKnown` and `RecordsKept` tie seats and records together outside of these. Two parts
carry the contract: `OneBusy` (`SerialPlayers`) and `RoomWorksAlone` (`SerialRooms`); without
either the others are not kept. The invariant only looks at the two goroutines' places and
the connection's local room (`ConnPc`, `RoomPc`, `ConnLoc`), so the proof first says what
each action does to those, and then goes by kinds of steps, 23 lemmas with one step per
part of the invariant.

*Exits.* On top of `RegistryInv`, the proofs look at the rooms that exits on their way will
look at (`WillCheck`). With one call per session no other step changes what an exit will look
at (`OthersCheck`): the only variables it depends on are its own place, its local room and
its session's `Player`. With rtp matching an exit begins with the seat given up and the room
in sight (`GivesUpSeat`), keeps it in sight (`GoesOn`), and ends on seeing players or
delisting the room (`SeesRoom`); no other step empties a room or lists an empty one
(`FillsRooms`). So `EmptyRoomWatched` is inductive relative to `RegistryInv`. In single mode
`SoloInv` adds that a room has one player, or one exit, and is alive as long as it has
either: the exit that disposes of it is the last.

*The mutex.* `ExitRoom` calls `GetPlayerNum` between `Lock` and an `Unlock` that is not
deferred, so an exit of a player without a room leaves `roomMapMu` locked for ever; it
happens without `SerialRooms`. `MutexNeverLeft` says that the contract excludes it. The
invariant is `ExitsHaveRoom`: an exit begins for a player who had a seat, hence a room
(`SeatsHeld`, `TakesSeat`), which no other step takes from him before `ReadRoom` has it
(`ExitUndisturbed`). Then every step takes the mutex, gives it back, or goes on between
`Lock` and `Unlock` (`MutexStep`).

*Store.* The invariant is `LoadInv`. `StaleIsPending` is not inductive: what keeps an
install from undoing it is that what a load has read of a group and not installed yet is
the table's, or the table has changed since and that change is due
(`StaleReadIsPending`). Every step but an install keeps what is due so (`DueKept`): a
notice that is received becomes the load's key, a query that reads a group reads the
table, one that fails leaves a debt. An install gives up what its own load was good for,
which is what it installs (`DueAfterInstall`). The load mutex comes in at two places: no
other load has read anything when one installs (`AloneReading`), and nobody replaces rows
between a load's query and its install (`ReadForward`), which is why what it installs is
not older (`Ages`).

*Index.* `IndexTypeOK`, `KeyLeadsToCachedRow` and `CachedRowHasKey` are inductive together:
the only key an app can be found by is the one it is cached with, so dropping that one is
enough. `DropKeySound` says so once for `put` and `remove`.

*Cache manager.* With calls that do not overlap one caller at most is inside (`OneCall`), what
he works on is a run of his own (`OwnRun`), and a live context is either that one or the
one `cancel` names (`LiveHeld`). What a `Stop` during a `Start` does without that is the
subject of `cache_stop_race`.

*Event bus.* `OneWriterPerTopic` is inductive once a publisher that is about to write has a
writer (`PublisherHasWriter`). Order of events: all numbers handled of a partition are at most the
committed offset, and the next one is beyond it. Consumers: a key's entry is the consumer that runs
under it, and only its own deferred delete takes it out.

*Legacy rooms.* An entry of the fish map, once made, never changes, so that what a player
has found or stored is what everybody after him finds (`FoundIsListed`). A jdb client that
asked once has no seat, or the one `Player.room` names (`OnlySeat`).

*Loops over data.* Weights, tiers and bounds are sequences, and what the code computes from
them it computes in loops. `RtpWeights` and `RtpTiers` write a loop as a recursive function
from the number of rounds to what the loop has by then (`WeightsUpTo`, `TiersKept`). The
prover cannot instantiate an induction theorem that takes a predicate, but it can one that takes
a set: `Least` (a set of numbers that is not empty has a least one) comes from the library's
well-foundedness of the numbers, and `Induct` from it: a set that has 0 and with each
number the next one has all of them. `LoopExists` is the same argument
for the function itself: its equations define it, as the functions that meet them up to n
are one for each n. With that the running sums ascend to the total (`SumsAscend`), so a rate
is hit between the sum before it and its own (`EarliestIs`, `PassedWithin`), which is its
weight's worth of numbers (`DrawnAsWeighted`). And the tiers kept are the allowed ones, in
ascending order (`KeptAre`), so the place `SearchInts` finds is the one after the greatest
tier not above the RTP (`PlaceOf`), for limits set, not set or exchanged (`FixedAre`).

*The watch.* `UpToDateAtIndex` is the safety behind `WriteTakesEffect`. It follows from two
facts. An answer is what Consul had at its index, and all that Consul has if that is still
the index (`AnswerIsSnapshot`). And what has been applied is what Consul had at
`lastIndex` (`AppliedAtIndex`), because `lastIndex` is taken from the answer and not from Consul.

*The composition.* A step of `MCServices` is one of a component and stutters for the others
(`ComponentSteps`), so it implies each component's specification (`ComponentSpecs`), and
the invariants proved of a component hold in it. `MCServices` lets only one component work;
`ServicesAreSafe` is about `SideBySide`, where they all do.

*Small components.* Samples: the lists of the load in progress are stored or still to be
stored, and those of the published list of rates are at least as new (`ListedHaveSamples`).
Hub: listener, address and endpoint name one port (`OnePort`). Worker ids: two remainders
that are equal are of numbers that are equal or at least `Workers` apart (`EqualRemainders`).
Connection: what has been read is received, in the channel, or in the loop's hand, in that
order (`ReadAccounted`, `NumberedInOrder`). Routers: the game in the session is each tab's
own or one it has noted (`GameKnown`), and a launch that wrote and did not expire left a
player there (`KeptIsSomebody`). Sharding: a rule never names a later start than the
database (`RuleNotAhead`), and months are ordered as what the clocks show (`MonthsInOrder`).

Assumptions: the constants' typing (a named `ASSUME` in each module), which TLC evaluates
in the runs, and `Matcher = "RTP"` or `"SINGLE"`, `SerialPlayers`, `SerialRooms`, `SerialCalls`
or `~ReadThrough` where a theorem names them.

Only model-checked: liveness, which is out of the prover's reach (fairness needs `ENABLED`):
`CallsReturn`, `EmptyRoomsGo`, `Converges`, `StopsEnd`, `OnlyClientDelaysCallers`,
`CancelFreesKey`, `GroupCatchesUp`, `WriteTakesEffect`. Of all the other properties that a
run shows to hold, a theorem says the same for every value of the constants.

## 5. What the code does differently from what it says

Each is the violation of one run; `PROJECT.json` quotes the line that promises otherwise.

- `ExitRoom` looks whether the room is empty and not whether it is still open: two exits
  of a room's last two players both dispose of it (`room_disposed_twice`).
- `TryReConnectGame` tests `oldPlayer.conn` and calls `Close` on it without the mutex
  under which `CloseConn` sets it to nil (`room_close_race`).
- Lookup and record of a login are separate sections: two tabs of a player both join, and
  `playerRoomMap` keeps one of them (`room_two_tabs`).
- `Stop` during the warm-up of `Start` waits on a wait group that does not count the loops
  yet; they are launched after it has returned (`cache_stop_race`).
- `UpdateRule` changes the mode of a rule it has and keeps its start date, so that a
  merchant that starts sharding later is queried in tables from before
  (`shard_start_date`).

Other behaviour that came up, which no comment or document denies. The first group are
outcomes of the models with a contract taken away, the second are outcomes they have as
they are, which therefore no property excludes:

- With `SerialCalls` FALSE the cleanup of a failed `Start` can erase the cancel function of
  the next. With `ReadThrough` TRUE a `Get` can put back a row that was deleted after it
  asked, until the next full refresh. With `SINGLE`, `SwitchRoom` lists a room that nobody
  takes off the list.
- A store registered after `Start` is neither loaded nor refreshed (`CacheManager`). A jdb
  room that refuses its client leaves `roomMapMu` locked, and a second quick login leaves a
  seat behind (`JdbRooms`). A handler that fails loses its event, and the reader of an ended
  consumer stays open in its group (`KafkaBus`). A deleted Consul key leaves its last
  configuration; an index that goes back, after a restored snapshot, silences the watch
  until it has caught up (`RtpWatch` takes the index to grow). `FixRtp` answers above an
  upper limit that is below the lowest tier (`RtpTiers`). inout and jili do not write their
  game, so a returning client reads the game of whatever tab was opened last; jdb writes
  the brand "spribe"; an expired session, or one whose launch failed to write, is half revived by
  `UpdateGameId` (`Routers`). A client that does not read, or says nothing, keeps `Send` and
  `Close` waiting for as long as it likes (`Connect`). With times in a zone east of UTC a
  query that ends just before the edge of the main table, in the first hours of a month,
  may read no table at all (`ShardRouter`). Two answers of the RTP service in one login list
  a room under a rtp it was not created with (`nolobby.go:51`, not in the model).
  `InitPlayer`'s comment speaks of ten minutes where the session lives for 24 hours.

## 6. Not modelled

- `RoomManager.OnMessage`, which hands a message to the room, and inout's ping timer, which
  writes to a socket: neither changes the manager's state.
- The room managers of `inout/server` and `spribe/server`, earlier copies of the one
  that is modelled. (inout's unlocks a mutex it does not hold when a single room refuses.)
- In `Routers`: the messages of the games, the balance, the player's row in the database,
  the index by token and by ssoKey, and that a second "40" of an inout client closes its
  own connection.
- In slot rtp: the lookup of the configuration of one rtp, and the draw of the special
  mode, which are reads of the maps the models keep.
- Token and SSO key codecs, hashes, provably fair draws, currency and floating-point
  arithmetic, compression: pure functions whose correctness is in the data.
  `utils/utils.go:65` writes a map under a read lock: two lookups at once end the process.
- Protobuf and gRPC code (about 25,000 of the repository's 38,600 lines of Go), thin
  clients, GORM rows, constants, tracing, the health endpoint: no behaviour of their own.
  This is why the models map to a small share of all lines, though the components with
  behaviour are nearly all covered.

Payloads, log lines, JSON, SQL text and metrics are left out everywhere.

What could come next: the router and the room manager composed, with the session's game as
the room type.
