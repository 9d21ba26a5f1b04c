------------------------------ MODULE FishRooms ------------------------------
(***************************************************************************)
(* jili/fish/server: one room per merchant and rtp, found or made by the   *)
(* goroutines of the websockets without a lock, with Load and LoadOrStore  *)
(* of a sync.Map.  Rooms are the games': they seat every player.           *)
(***************************************************************************)
EXTENDS Naturals

CONSTANTS
    Fishers,        \* websockets; the room one creates bears its name
    RoomKeys,       \* "<appid>_<rtp>"
    RoomKeyOf,      \* the merchant and the rtp of a player
    NoRoom          \* nil, or no entry

ASSUME FishAssumption == RoomKeyOf \in [Fishers -> RoomKeys] /\ NoRoom \notin Fishers

VARIABLES
    fishMap,        \* RoomManager.roomMap
    fishPc,         \* where the goroutine of a websocket is
    fishFound,      \* what GetRoom of that goroutine has found or made
    fishRoom,       \* JiliPlayer.room
    fishSeats       \* in the rooms: who plays there

fishVars == <<fishMap, fishPc, fishFound, fishRoom, fishSeats>>

FishInit ==
    /\ fishMap = [k \in RoomKeys |-> NoRoom]
    /\ fishPc = [f \in Fishers |-> "new"]
    /\ fishFound = [f \in Fishers |-> NoRoom]
    /\ fishRoom = [f \in Fishers |-> NoRoom]
    /\ fishSeats = [r \in Fishers |-> {}]

FishGo(f, from, to) == fishPc[f] = from /\ fishPc' = [fishPc EXCEPT ![f] = to]

\* The token, the session, the rtp or the balance fails, or the player is let in:
\* with a retry count through OnReConnect, which does nothing.
Refuse(f) ==
    /\ FishGo(f, "new", "gone")
    /\ UNCHANGED <<fishMap, fishFound, fishRoom, fishSeats>>

FishReConnect(f) ==
    /\ FishGo(f, "new", "play")
    /\ UNCHANGED <<fishMap, fishFound, fishRoom, fishSeats>>

\* GetRoom.
LoadFishRoom(f) ==
    LET r == fishMap[RoomKeyOf[f]] IN
    /\ FishGo(f, "new", IF r = NoRoom THEN "store" ELSE "login")
    /\ fishFound' = [fishFound EXCEPT ![f] = IF r = NoRoom THEN f ELSE r]
    /\ UNCHANGED <<fishMap, fishRoom, fishSeats>>

\* Of two rooms made for one key the first that is stored is everybody's.
\* (Mutant: Store.)
StoreOwn(f) == f
LoadOrStore(f) == IF fishMap[RoomKeyOf[f]] = NoRoom THEN f ELSE fishMap[RoomKeyOf[f]]

StoreFishRoom(f) ==
    /\ FishGo(f, "store", "login")
    /\ fishMap' = [fishMap EXCEPT ![RoomKeyOf[f]] = LoadOrStore(f)]
    /\ fishFound' = [fishFound EXCEPT ![f] = LoadOrStore(f)]
    /\ UNCHANGED <<fishRoom, fishSeats>>

\* OnLogin: player.room, then the room.
FishLogin(f) ==
    /\ FishGo(f, "login", "play")
    /\ fishRoom' = [fishRoom EXCEPT ![f] = fishFound[f]]
    /\ fishSeats' = [fishSeats EXCEPT ![fishFound[f]] = @ \cup {f}]
    /\ UNCHANGED <<fishMap, fishFound>>

\* The websocket breaks: OnDisConnect of the room in player.room, if any.
FishDisconnect(f) ==
    /\ FishGo(f, "play", "gone")
    /\ fishSeats' = [r \in Fishers |->
                        IF r = fishRoom[f] THEN fishSeats[r] \ {f} ELSE fishSeats[r]]
    /\ UNCHANGED <<fishMap, fishFound, fishRoom>>

FishNext ==
    \E f \in Fishers :
        \/ Refuse(f) \/ FishReConnect(f)
        \/ LoadFishRoom(f) \/ StoreFishRoom(f) \/ FishLogin(f) \/ FishDisconnect(f)

FishSpec == FishInit /\ [][FishNext]_fishVars

-----------------------------------------------------------------------------
(* Properties.                                                              *)

FishTypeOK ==
    /\ fishMap \in [RoomKeys -> Fishers \cup {NoRoom}]
    /\ fishPc \in [Fishers -> {"new", "store", "login", "play", "gone"}]
    /\ fishFound \in [Fishers -> Fishers \cup {NoRoom}]
    /\ fishRoom \in [Fishers -> Fishers \cup {NoRoom}]
    /\ fishSeats \in [Fishers -> SUBSET Fishers]

\* Players of one merchant and rtp play in one room, also those who log in at the
\* same moment and have each made one; and a player whose connection has ended
\* sits nowhere.
SeatsAgree ==
    \A r \in Fishers : \A f \in fishSeats[r] :
        fishMap[RoomKeyOf[f]] = r /\ fishPc[f] = "play"
=============================================================================
