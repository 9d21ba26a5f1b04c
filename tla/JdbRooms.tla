------------------------------ MODULE JdbRooms ------------------------------
(***************************************************************************)
(* jdb/server: rooms by type.  A client whose websocket is past its logins *)
(* asks for a type of room with EV_GS_QUICK_LOGIN, as often as it likes;   *)
(* all other messages go to the room he is in.  roomMapMu is held from the *)
(* search to the listing of a new room, and for good if that room refuses. *)
(***************************************************************************)
EXTENDS Naturals

CONSTANTS
    Clients,        \* websockets that are past gameLogin
    Types,          \* "iRoomType"
    JdbRoomIds,     \* bound: rooms ever made
    NoJdb           \* nil, or a mutex nobody holds

ASSUME JdbAssumption == NoJdb \notin Clients \cup Types \cup JdbRoomIds

VARIABLES
    jdbMu,          \* who holds roomMapMu
    jdbPc,          \* "ready", "asking", "closing" or "gone"
    jdbAsks,        \* the type asked for
    jdbRoom,        \* JdbPlayer.room
    listed,         \* roomMap: type -> rooms
    made,           \* rooms that were created
    jdbSeats,       \* in the rooms: who plays there
    asked           \* history: clients that have asked more than once

jdbVars == <<jdbMu, jdbPc, jdbAsks, jdbRoom, listed, made, jdbSeats, asked>>

JdbInit ==
    /\ jdbMu = NoJdb
    /\ jdbPc = [c \in Clients |-> "ready"]
    /\ jdbAsks = [c \in Clients |-> NoJdb]
    /\ jdbRoom = [c \in Clients |-> NoJdb]
    /\ listed = [y \in Types |-> {}]
    /\ made = {}
    /\ jdbSeats = [r \in JdbRoomIds |-> {}]
    /\ asked = {}

JdbGo(c, from, to) == jdbPc[c] = from /\ jdbPc' = [jdbPc EXCEPT ![c] = to]

AskRoom(c, y) ==
    /\ JdbGo(c, "ready", "asking")
    /\ jdbAsks' = [jdbAsks EXCEPT ![c] = y]
    /\ asked' = IF jdbAsks[c] = NoJdb THEN asked ELSE asked \cup {c}
    /\ UNCHANGED <<jdbMu, jdbRoom, listed, made, jdbSeats>>

\* A seat in r, and player.room.  (Mutant: player.room is that of the loop.)
SeatOnly(c, r) == UNCHANGED jdbRoom
SetJdbRoom(c, r) == jdbRoom' = [jdbRoom EXCEPT ![c] = r]

TakeSeat(c, r) ==
    /\ jdbSeats' = [jdbSeats EXCEPT ![r] = @ \cup {c}]
    /\ SetJdbRoom(c, r)

\* A listed room lets the client in.  He is not taken from the room he was in.
JoinListed(c) ==
    /\ jdbMu = NoJdb
    /\ JdbGo(c, "asking", "ready")
    /\ \E r \in listed[jdbAsks[c]] : TakeSeat(c, r)
    /\ UNCHANGED <<jdbMu, jdbAsks, listed, made, asked>>

\* No listed room does.  If he is in a room already, that is all.
StayInRoom(c) ==
    /\ jdbMu = NoJdb
    /\ jdbRoom[c] # NoJdb
    /\ JdbGo(c, "asking", "ready")
    /\ UNCHANGED <<jdbMu, jdbAsks, jdbRoom, listed, made, jdbSeats, asked>>

\* A new room: it is listed after it has let its client in.
MakeRoom(c, r) ==
    /\ jdbMu = NoJdb
    /\ jdbRoom[c] = NoJdb
    /\ made' = made \cup {r}
    /\ \/ /\ JdbGo(c, "asking", "ready")
          /\ TakeSeat(c, r)
          /\ listed' = [listed EXCEPT ![jdbAsks[c]] = @ \cup {r}]
          /\ UNCHANGED jdbMu
       \/ /\ JdbGo(c, "asking", "closing")
          /\ jdbMu' = c
          /\ UNCHANGED <<jdbRoom, listed, jdbSeats>>
    /\ UNCHANGED <<jdbAsks, asked>>

\* The websocket ends, or a message to the room fails.
HangUp(c) ==
    /\ JdbGo(c, "ready", "closing")
    /\ UNCHANGED <<jdbMu, jdbAsks, jdbRoom, listed, made, jdbSeats, asked>>

\* OnDisConnect: the room lets the client go.
JdbDisconnect(c) ==
    /\ JdbGo(c, "closing", "gone")
    /\ jdbSeats' = [r \in JdbRoomIds |->
                       IF r = jdbRoom[c] THEN jdbSeats[r] \ {c} ELSE jdbSeats[r]]
    /\ UNCHANGED <<jdbMu, jdbAsks, jdbRoom, listed, made, asked>>

JdbNext ==
    \E c \in Clients :
        \/ \E y \in Types : AskRoom(c, y)
        \/ JoinListed(c) \/ StayInRoom(c)
        \/ \E r \in JdbRoomIds \ made : MakeRoom(c, r)
        \/ HangUp(c) \/ JdbDisconnect(c)

JdbSpec == JdbInit /\ [][JdbNext]_jdbVars

-----------------------------------------------------------------------------
(* Properties.                                                              *)

JdbTypeOK ==
    /\ jdbMu \in Clients \cup {NoJdb}
    /\ jdbPc \in [Clients -> {"ready", "asking", "closing", "gone"}]
    /\ jdbAsks \in [Clients -> Types \cup {NoJdb}]
    /\ jdbRoom \in [Clients -> JdbRoomIds \cup {NoJdb}]
    /\ listed \in [Types -> SUBSET JdbRoomIds]
    /\ made \subseteq JdbRoomIds
    /\ jdbSeats \in [JdbRoomIds -> SUBSET Clients]
    /\ asked \subseteq Clients

\* A client that has asked for a room once leaves no seat behind.  One that has
\* asked twice may: nobody takes him from his first room.
LeavesNoSeat ==
    \A c \in Clients \ asked : jdbPc[c] = "gone" => \A r \in JdbRoomIds : c \notin jdbSeats[r]
=============================================================================
