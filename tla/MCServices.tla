----------------------------- MODULE MCServices -----------------------------
(***************************************************************************)
(* The components beside the rooms and the cache stores, one instance of   *)
(* each.  They share no state: a behaviour is one of the component that    *)
(* `part` names, while the others stay as they began.  Fairness is that of *)
(* all components: what has not begun has nothing to do.                   *)
(***************************************************************************)
EXTENDS AppInfoIndex, CacheManager, Connect, FishRooms, HubServer, JdbRooms, KafkaBus,
        Routers, RtpSamples, RtpTiers, RtpWatch, RtpWeights, ShardRouter, WorkerIds

CONSTANTS
    a1, a2, own1, own2, shared,     \* apps and access keys
    f1, f2, f3, f4, k1, k2,         \* fishers, their room keys
    sub1, t1, n1, n2,               \* a subscription, its topic, the topic's partitions
    spribeTab, inoutTab

MCApps == {a1, a2}
MCKeys == {own1, own2, shared}

\* Each app may have a key of its own, the key both may have, or none.
MCRows ==
    {r \in [app : MCApps, key : MCKeys \cup {NoKey}, rate : {1, 2, 3}] :
        (r.key = own1 => r.app = a1) /\ (r.key = own2 => r.app = a2)}

MCFishers == {f1, f2, f3, f4}
MCRoomKeyOf == [f \in MCFishers |-> IF f = f4 THEN k2 ELSE k1]

MCTopics == {t1}
MCSubs == {sub1}
MCTopicOf == [s \in MCSubs |-> t1]
MCKeyOf == [s \in MCSubs |-> s]
MCPartitions == {n1, n2}
MCMaxEvents == [n \in MCPartitions |-> IF n = n1 THEN 2 ELSE 1]

MCTabs == {spribeTab, inoutTab}
MCBrandOf == [t \in MCTabs |-> IF t = spribeTab THEN "spribe" ELSE "inout"]

MCTiers == <<50, 65, 75, 85, 90, 95, 97, 100, 150, 500>>
MCLimits == {0, 40, 50, 60, 97, 98, 500, 600}
MCRequests == {-1, 40, 45, 49, 50, 51, 64, 65, 66, 96, 97, 98, 99, 100, 120, 150, 499, 500,
               501, 600, 601, 1000}
MCMinInt == -1001

MCWeightLists == UNION {[1..n -> 0..2] : n \in 1..3} \cup {<<-1>>, <<2, -1>>, <<-1, 2>>}

\* Queries from west and east of UTC, start dates from the west.
MCZones == {-1, 0, 1}
MCDateZone == -1

VARIABLE part

servicesVars ==
    <<part, indexVars, managerVars, wsVars, fishVars, hubVars, jdbVars, busVars, routersVars,
      samplesVars, tiersVars, watchVars, weightsVars, shardVars, workerVars>>

Init ==
    /\ part \in {"index", "manager", "connect", "fish", "hub", "jdb", "bus", "routers",
                 "samples", "tiers", "watch", "weights", "shard", "workers"}
    /\ IndexInit /\ ManagerInit /\ ConnectInit /\ FishInit /\ HubInit /\ JdbInit /\ BusInit
    /\ RoutersInit /\ SamplesInit /\ TiersInit /\ WatchInit /\ WeightsInit /\ ShardInit
    /\ WorkersInit

\* All components but p stay as they are.
Alone(p) ==
    /\ part = p
    /\ UNCHANGED part
    /\ p = "index"   \/ UNCHANGED indexVars
    /\ p = "manager" \/ UNCHANGED managerVars
    /\ p = "connect" \/ UNCHANGED wsVars
    /\ p = "fish"    \/ UNCHANGED fishVars
    /\ p = "hub"     \/ UNCHANGED hubVars
    /\ p = "jdb"     \/ UNCHANGED jdbVars
    /\ p = "bus"     \/ UNCHANGED busVars
    /\ p = "routers" \/ UNCHANGED routersVars
    /\ p = "samples" \/ UNCHANGED samplesVars
    /\ p = "tiers"   \/ UNCHANGED tiersVars
    /\ p = "watch"   \/ UNCHANGED watchVars
    /\ p = "weights" \/ UNCHANGED weightsVars
    /\ p = "shard"   \/ UNCHANGED shardVars
    /\ p = "workers" \/ UNCHANGED workerVars

Next ==
    \/ Alone("index")   /\ IndexNext
    \/ Alone("manager") /\ ManagerNext
    \/ Alone("connect") /\ ConnectNext
    \/ Alone("fish")    /\ FishNext
    \/ Alone("hub")     /\ HubNext
    \/ Alone("jdb")     /\ JdbNext
    \/ Alone("bus")     /\ BusNext
    \/ Alone("routers") /\ RoutersNext
    \/ Alone("samples") /\ SamplesNext
    \/ Alone("tiers")   /\ TiersNext
    \/ Alone("watch")   /\ WatchNext
    \/ Alone("weights") /\ WeightsNext
    \/ Alone("shard")   /\ ShardNext
    \/ Alone("workers") /\ WorkersNext

Spec ==
    /\ Init /\ [][Next]_servicesVars
    /\ ManagerFairness /\ ConnectFairness /\ BusFairness /\ WatchFairness

-----------------------------------------------------------------------------
(* Properties: those of the components, and their types.                    *)

\* Every component's variables keep their types, also what a place in the code
\* implies, as the run a manager's Start works on or the rate a spin has drawn.
ServicesTypeOK ==
    /\ IndexTypeOK /\ ManagerTypeOK /\ ConnectTypeOK /\ FishTypeOK /\ HubTypeOK /\ JdbTypeOK
    /\ BusTypeOK /\ RoutersTypeOK /\ SamplesTypeOK /\ TiersTypeOK /\ WatchTypeOK
    /\ WeightsTypeOK /\ ShardTypeOK /\ WorkersTypeOK
=============================================================================
