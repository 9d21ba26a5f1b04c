----------------------------- MODULE RoomManager -----------------------------
(***************************************************************************)
(* The room manager of package gamehub/common: the registry every game     *)
(* server uses to seat players in rooms, to bring a player back to his     *)
(* room when his connection drops, and to let rooms go when they empty.    *)
(*                                                                         *)
(* One session is one websocket and one *Player object.  Two goroutines    *)
(* work on it: the connection's ("conn": login, messages, disconnect) and  *)
(* the room's ("room": the room lets the player go and calls ExitRoom).    *)
(* A step is the code between two points where another goroutine can       *)
(* interfere.  roomMapMu is held across steps and therefore modelled;      *)
(* playerRoomMapMu only ever covers map operations, so each of its         *)
(* sections is one step.                                                   *)
(*                                                                         *)
(* Rooms are not part of the repository.  They are modelled from how the   *)
(* manager uses types.RoomImp: a room seats sessions, may refuse one, has  *)
(* one seat per player, hands it to the reconnecting session, and calls    *)
(* ExitRoom for a session after it has taken it off its seat.              *)
(***************************************************************************)
EXTENDS FiniteSets, Naturals

CONSTANTS
    Sessions,       \* websockets, each with its own Player object
    Idents,         \* values of GetPlayerIdent: "<app id>-<player id>"
    IdentOf,        \* the player of a session
    Rooms,          \* every room CreateRoom can return, all initially unused
    RoomTypes,      \* the keys of roomMap: "<app id>-<rtp>"
    Matcher,        \* tableMatcherType: "RTP" or "SINGLE"
    MaxSwitches,    \* bound on the number of SwitchRoom calls
    SerialRooms,    \* a room has one manager call per Player object at a time
    SerialPlayers,  \* one session of a player logs in or switches at a time
    Nil,            \* Go's nil: no room, no player, mutex not held
    Absent          \* the key is not in playerRoomMap

\* A goroutine: that of a session's connection, or the room's working on it.
Threads == [goroutine : {"conn", "room"}, player : Sessions]

ASSUME ConstantsAssumption ==
    /\ IdentOf \in [Sessions -> Idents]
    /\ Matcher \in {"RTP", "SINGLE"}
    /\ MaxSwitches \in Nat
    /\ SerialRooms \in BOOLEAN
    /\ SerialPlayers \in BOOLEAN
    /\ Nil \notin Rooms \cup RoomTypes \cup Sessions \cup Threads
    /\ Absent \notin Rooms /\ Nil # Absent

\* Every login and every switch creates at most one room: with this many the
\* supply of the model never runs out.
ASSUME EnoughRooms ==
    IsFiniteSet(Rooms) => Cardinality(Rooms) >= Cardinality(Sessions) + MaxSwitches

VARIABLES
    roomMap,        \* RoomManager.roomMap: the rooms open to a room type
    roomMapMu,      \* the goroutine that holds roomMapMu, or Nil
    playerRoomMap,  \* RoomManager.playerRoomMap: ident -> room
    players,        \* RoomManager.players: ident -> Player object
    room,           \* Player.room
    attached,       \* Player.roomManager is set
    conn,           \* Player.conn: "open", "closed", "nil"
    seats,          \* in the rooms: the sessions seated there
    roomState,      \* "new", "live", "refused" (first join failed), "disposed"
    pc,             \* where each goroutine is
    loc,            \* its local variable `room`
    old,            \* TryReConnectGame's oldPlayer
    want,           \* the roomType OnJoin or SwitchRoom works with
    switches        \* SwitchRoom calls so far

vars == <<roomMap, roomMapMu, playerRoomMap, players, room, attached, conn,
          seats, roomState, pc, loc, old, want, switches>>

maps   == <<roomMap, playerRoomMap, players>>
player == <<room, attached, conn>>
world  == <<seats, roomState>>
locals == <<loc, old, want>>

ConnOf(s) == [goroutine |-> "conn", player |-> s]
RoomOf(s) == [goroutine |-> "room", player |-> s]

LoginPcs  == {"lookup", "checkOld", "closeOld", "store", "reconnect",
              "join", "setRoom", "create", "list", "record"}
ExitPcs   == {"exitRead", "exitDelete", "exitUnmap", "exitClose",
              "exitCheck", "exitDispose", "exitClear"}
SwitchPcs == {"switchLeave", "switchAttach", "switchCreate", "listSwitched", "record"}
Pcs == {"new", "idle", "playing", "gone", "panic"}
         \cup LoginPcs \cup ExitPcs \cup SwitchPcs

\* The program points between roomMapMu.Lock and its Unlock.
LockedPcs == {"setRoom", "create", "list", "listSwitched", "exitDispose"}

Listed == UNION {roomMap[ty] : ty \in RoomTypes}

\* A room has one seat per player: a new session of his takes it over.
Seat(S, s) == {o \in S : IdentOf[o] # IdentOf[s]} \cup {s}

Go(t, from, to) == pc[t] = from /\ pc' = [pc EXCEPT ![t] = to]

\* roomMapMu.Lock.  (Mutant: RLock, which the other readers do not exclude.)
RLock(t) == roomMapMu' = t
Lock(t) == roomMapMu = Nil /\ roomMapMu' = t

Init ==
    /\ roomMap = [ty \in RoomTypes |-> {}]
    /\ roomMapMu = Nil
    /\ playerRoomMap = [i \in Idents |-> Absent]
    /\ players = [i \in Idents |-> Nil]
    /\ room = [s \in Sessions |-> Nil]
    /\ attached = [s \in Sessions |-> FALSE]
    /\ conn = [s \in Sessions |-> "open"]
    /\ seats = [r \in Rooms |-> {}]
    /\ roomState = [r \in Rooms |-> "new"]
    /\ pc = [t \in Threads |-> IF t.goroutine = "conn" THEN "new" ELSE "idle"]
    /\ loc = [t \in Threads |-> Nil]
    /\ old = [s \in Sessions |-> Nil]
    /\ want = [s \in Sessions |-> Nil]
    /\ switches = 0

-----------------------------------------------------------------------------
(* What the rooms and the gateway may do at the same time.                  *)

\* No other session of the player is inside OnLogin or SwitchRoom.
PlayerFree(s) ==
    SerialPlayers =>
        \A o \in Sessions \ {s} : IdentOf[o] = IdentOf[s] =>
            pc[ConnOf(o)] \notin LoginPcs \cup ExitPcs \cup SwitchPcs

\* The room lets s go: not while the connection is inside the manager.
MayRelease(s) == SerialRooms => pc[ConnOf(s)] \in {"playing", "gone", "panic"}

\* The room switches s: not while it is letting s go.
MaySwitch(s) == SerialRooms => pc[RoomOf(s)] = "idle"

-----------------------------------------------------------------------------
(* NoLobby.OnLogin, part one: TryReConnectGame.                             *)

StartLogin(t) ==
    /\ PlayerFree(t.player)
    /\ Go(t, "new", "lookup")
    /\ UNCHANGED <<maps, roomMapMu, player, world, locals, switches>>

\* A missing key reads as nil.  (Mutant: the read does not tell them apart.)
RoomFoundUnchecked(i) == playerRoomMap[i]

RoomFound(i) == IF playerRoomMap[i] = Absent THEN Nil ELSE playerRoomMap[i]

\* playerRoomMap is read under its mutex and the answer, found or not, is put
\* in the Player object.
LookupRoom(t) ==
    LET i == IdentOf[t.player]
        r == RoomFound(i)
    IN  /\ Go(t, "lookup", IF playerRoomMap[i] = Absent THEN "join" ELSE "checkOld")
        /\ room' = [room EXCEPT ![t.player] = r]
        /\ loc' = [loc EXCEPT ![t] = r]
        /\ UNCHANGED <<maps, roomMapMu, attached, conn, world, old, want, switches>>

\* oldPlayer.conn is read once for the test ...
CheckOldConn(t) ==
    LET o == players[IdentOf[t.player]]
        c == o # Nil /\ conn[o] # "nil"
    IN  /\ Go(t, "checkOld", IF c THEN "closeOld" ELSE "store")
        /\ old' = [old EXCEPT ![t.player] = IF c THEN o ELSE Nil]
        /\ UNCHANGED <<maps, roomMapMu, player, world, loc, want, switches>>

\* ... and again for the call, and neither read holds oldPlayer.mu: Close on
\* a connection that has become nil in between panics.
CloseOldConn(t) ==
    LET o == old[t.player]
        c == conn[o] # "nil"
    IN  /\ Go(t, "closeOld", IF c THEN "store" ELSE "panic")
        /\ conn' = IF c THEN [conn EXCEPT ![o] = "closed"] ELSE conn
        /\ old' = [old EXCEPT ![t.player] = Nil]
        /\ UNCHANGED <<maps, roomMapMu, room, attached, world, loc, want, switches>>

\* players.Store.  (Mutant: LoadOrStore.)
RegisterFirst(s) ==
    IF players[IdentOf[s]] = Nil THEN [players EXCEPT ![IdentOf[s]] = s] ELSE players
Register(s) == [players EXCEPT ![IdentOf[s]] = s]

StorePlayer(t) ==
    /\ Go(t, "store", "reconnect")
    /\ players' = Register(t.player)
    /\ attached' = [attached EXCEPT ![t.player] = TRUE]
    /\ UNCHANGED <<roomMap, playerRoomMap, roomMapMu, room, conn, world,
                   locals, switches>>

\* The router closes the websocket of a login that returned an error; the
\* Player object keeps its pointer to it.
Hangup(s) == conn' = [conn EXCEPT ![s] = IF @ = "nil" THEN "nil" ELSE "closed"]

\* room.OnReConnect: the room hands the player's seat over, or refuses when he
\* has none.  A nil room (a nil map value) panics.
ReConnectRoom(t) ==
    LET r == loc[t]
        kept == r # Nil /\ \E o \in seats[r] : IdentOf[o] = IdentOf[t.player]
    IN  /\ loc' = [loc EXCEPT ![t] = Nil]
        /\ \/ /\ kept
              /\ Go(t, "reconnect", "playing")
              /\ seats' = [seats EXCEPT ![r] = Seat(@, t.player)]
              /\ UNCHANGED conn
           \/ /\ ~kept
              /\ Go(t, "reconnect", IF r = Nil THEN "panic" ELSE "gone")
              /\ Hangup(t.player)
              /\ UNCHANGED seats
        /\ UNCHANGED <<maps, roomMapMu, room, attached, roomState, old,
                       want, switches>>

-----------------------------------------------------------------------------
(* NoLobby.OnLogin, part two: OnJoin.                                       *)

\* OnJoin up to its loop.  The room type holds the rtp that the RTP service has
\* just given; what the service says to the second question, which only a new
\* room gets to see, is not modelled.  A single-player room has roomType "",
\* that is Nil.
LockJoin(t, ty) ==
    /\ Lock(t)
    /\ attached' = [attached EXCEPT ![t.player] = TRUE]
    /\ want' = [want EXCEPT ![t.player] = ty]

\* CreateRoom hands out a room nobody has seen.
Fresh(r) == roomState[r] = "new"

\* The rooms OnJoin looks at: none for roomType "".  (Mutant: any listed room.)
OfferedAlways(ty) == roomMap[ty]
Offered(ty) == IF Matcher = "RTP" THEN roomMap[ty] ELSE {}

\* A listed room accepts: rooms are tried in order and may each refuse, so
\* any of them may be the one.
JoinListedRoom(t) ==
    \E ty \in RoomTypes : \E r \in Offered(ty) :
        /\ LockJoin(t, ty)
        /\ Go(t, "join", "setRoom")
        /\ seats' = [seats EXCEPT ![r] = Seat(@, t.player)]
        /\ loc' = [loc EXCEPT ![t] = r]
        /\ UNCHANGED <<maps, room, conn, roomState, old, switches>>

\* No room of the type, or none that accepts.
FindNoRoom(t) ==
    \E ty \in (IF Matcher = "RTP" THEN RoomTypes ELSE {Nil}) :
        /\ LockJoin(t, ty)
        /\ Go(t, "join", "create")
        /\ UNCHANGED <<maps, room, conn, world, loc, old, switches>>

\* player.SetRoom(room).
Taken(t) == [room EXCEPT ![t.player] = loc[t]]

SetJoinedRoom(t) ==
    /\ Go(t, "setRoom", "create")
    /\ room' = Taken(t)
    /\ UNCHANGED <<maps, roomMapMu, attached, conn, world, locals, switches>>

\* GetRoom is not nil any more: nothing to create, unlock.
SkipCreate(t) ==
    /\ room[t.player] # Nil
    /\ Go(t, "create", "record")
    /\ roomMapMu' = Nil
    /\ loc' = [loc EXCEPT ![t] = Nil]
    /\ want' = [want EXCEPT ![t.player] = Nil]
    /\ UNCHANGED <<maps, player, world, old, switches>>

CreateRoom(t) ==
    \E r \in Rooms :
        /\ room[t.player] = Nil
        /\ Fresh(r)
        /\ Go(t, "create", "list")
        /\ roomState' = [roomState EXCEPT ![r] = "live"]
        /\ seats' = [seats EXCEPT ![r] = Seat(@, t.player)]
        /\ loc' = [loc EXCEPT ![t] = r]
        /\ UNCHANGED <<maps, roomMapMu, player, old, want, switches>>

\* The new room refuses its first player: unlock and return the error.  The
\* room is dropped, OnDispose is not called on it.  (Mutant: return without
\* unlocking.)
ReturnLocked == UNCHANGED roomMapMu
ReturnUnlocked == roomMapMu' = Nil

CreateRefused(t) ==
    \E r \in Rooms :
        /\ room[t.player] = Nil
        /\ Fresh(r)
        /\ Go(t, "create", "gone")
        /\ roomState' = [roomState EXCEPT ![r] = "refused"]
        /\ ReturnUnlocked
        /\ loc' = [loc EXCEPT ![t] = Nil]
        /\ want' = [want EXCEPT ![t.player] = Nil]
        /\ Hangup(t.player)
        /\ UNCHANGED <<maps, room, attached, seats, old, switches>>

\* SetRoom, list the new room under its type if it has one, unlock.
ListRoom(t) ==
    LET ty == want[t.player]
    IN  /\ \/ Go(t, "list", "record")
           \/ Go(t, "listSwitched", "record")
        /\ room' = Taken(t)
        /\ roomMap' = IF ty = Nil THEN roomMap
                      ELSE [roomMap EXCEPT ![ty] = @ \cup {loc[t]}]
        /\ roomMapMu' = Nil
        /\ loc' = [loc EXCEPT ![t] = Nil]
        /\ want' = [want EXCEPT ![t.player] = Nil]
        /\ UNCHANGED <<playerRoomMap, players, attached, conn, world, old,
                       switches>>

\* Whatever GetRoom returns now is saved for the next login.
RecordPlayer(t) ==
    /\ Go(t, "record", "playing")
    /\ playerRoomMap' = [playerRoomMap EXCEPT ![IdentOf[t.player]] = room[t.player]]
    /\ players' = Register(t.player)
    /\ UNCHANGED <<roomMap, roomMapMu, player, world, locals, switches>>

\* The read loop ends and the room is told (OnDisConnect): it keeps the seat
\* until it lets the player go.
Disconnect(t) ==
    /\ Go(t, "playing", "gone")
    /\ Hangup(t.player)
    /\ UNCHANGED <<maps, roomMapMu, room, attached, world, locals, switches>>

-----------------------------------------------------------------------------
(* ExitRoom: called by the room's goroutine through Player.ExitRoom for a   *)
(* session it has taken off its seat, and by SwitchRoom.                    *)

Release(t) ==
    \E r \in Rooms :
        /\ t.player \in seats[r]
        /\ MayRelease(t.player)
        /\ Go(t, "idle", "exitRead")
        /\ seats' = [seats EXCEPT ![r] = @ \ {t.player}]
        /\ UNCHANGED <<maps, roomMapMu, player, roomState, locals, switches>>

\* Player.ExitRoom does nothing without a manager; SwitchRoom calls the
\* manager directly.
ReadRoom(t) ==
    LET ignored == t.goroutine = "room" /\ ~attached[t.player]
    IN  /\ Go(t, "exitRead", IF ignored THEN "idle" ELSE "exitDelete")
        /\ loc' = [loc EXCEPT ![t] = IF ignored THEN Nil ELSE room[t.player]]
        /\ UNCHANGED <<maps, roomMapMu, player, world, old, want, switches>>

DeletePlayer(t) ==
    /\ Go(t, "exitDelete", "exitUnmap")
    /\ players' = [players EXCEPT ![IdentOf[t.player]] = Nil]
    /\ UNCHANGED <<roomMap, playerRoomMap, roomMapMu, player, world, locals,
                   switches>>

\* delete(playerRoomMap, ident).  (Mutant: nothing is deleted.)
KeepMapped(i) == playerRoomMap
Unmapped(i) == [playerRoomMap EXCEPT ![i] = Absent]

UnmapPlayer(t) ==
    /\ Go(t, "exitUnmap", "exitClose")
    /\ playerRoomMap' = Unmapped(IdentOf[t.player])
    /\ UNCHANGED <<roomMap, players, roomMapMu, player, world, locals, switches>>

\* isDisconnect is the room's choice; SwitchRoom passes false.
CloseConn(t) ==
    /\ Go(t, "exitClose", "exitCheck")
    /\ \/ UNCHANGED conn
       \/ t.goroutine = "room" /\ conn' = [conn EXCEPT ![t.player] = "nil"]
    /\ UNCHANGED <<maps, roomMapMu, room, attached, world, locals, switches>>

\* The deferred SetRoom(nil), SetRoomManager(nil); it also runs on a panic.
Detach(t) ==
    /\ room' = [room EXCEPT ![t.player] = Nil]
    /\ attached' = [attached EXCEPT ![t.player] = FALSE]
    /\ loc' = [loc EXCEPT ![t] = Nil]
    /\ UNCHANGED conn

\* A nil room: with rtp matching the call on it panics between Lock and
\* Unlock, and Unlock is not deferred.
ExitNilRoom(t) ==
    /\ loc[t] = Nil
    /\ Matcher = "RTP" => roomMapMu = Nil
    /\ roomMapMu' = IF Matcher = "RTP" THEN t ELSE roomMapMu
    /\ Go(t, "exitCheck", "panic")
    /\ Detach(t)
    /\ UNCHANGED <<maps, world, old, want, switches>>

\* GetPlayerNum() <= 0.  (Mutants: < 0, and <= 1.)
Negative(r) == Cardinality(seats[r]) < 0
AtMostOne(r) == Cardinality(seats[r]) <= 1
Empty(r) == seats[r] = {}

\* The room is empty; roomMapMu stays held ...
FindEmpty(t) ==
    /\ Matcher = "RTP" /\ loc[t] # Nil
    /\ Lock(t)
    /\ Empty(loc[t])
    /\ Go(t, "exitCheck", "exitDispose")
    /\ UNCHANGED <<maps, player, world, locals, switches>>

FindOccupied(t) ==
    /\ Matcher = "RTP" /\ loc[t] # Nil
    /\ roomMapMu = Nil
    /\ ~Empty(loc[t])
    /\ Go(t, "exitCheck", "exitClear")
    /\ UNCHANGED <<maps, roomMapMu, player, world, locals, switches>>

\* ... while the room is taken off every list and disposed of.  (Mutant: it
\* stays on the lists.)
KeepListed(r) == roomMap
Delist(r) == [ty \in RoomTypes |-> roomMap[ty] \ {r}]

DisposeEmpty(t) ==
    /\ Go(t, "exitDispose", "exitClear")
    /\ roomMap' = Delist(loc[t])
    /\ roomState' = [roomState EXCEPT ![loc[t]] = "disposed"]
    /\ roomMapMu' = Nil
    /\ UNCHANGED <<playerRoomMap, players, player, seats, locals, switches>>

\* A single-player room is disposed of without a look at its seats or roomMap.
DisposeSingle(t) ==
    /\ Matcher = "SINGLE" /\ loc[t] # Nil
    /\ Go(t, "exitCheck", "exitClear")
    /\ roomState' = [roomState EXCEPT ![loc[t]] = "disposed"]
    /\ UNCHANGED <<maps, roomMapMu, player, seats, locals, switches>>

FinishExit(t) ==
    /\ Go(t, "exitClear", IF t.goroutine = "room" THEN "idle" ELSE "switchAttach")
    /\ Detach(t)
    /\ UNCHANGED <<maps, roomMapMu, world, old, want, switches>>

-----------------------------------------------------------------------------
(* SwitchRoom: the player leaves his room and moves to a new one, on the    *)
(* goroutine of his connection (a message made the room switch him).        *)

\* The room of the player decides to switch him.
StartSwitch(t) ==
    \E r \in Rooms :
        /\ switches < MaxSwitches
        /\ PlayerFree(t.player) /\ MaySwitch(t.player)
        /\ t.player \in seats[r]
        /\ Go(t, "playing", "switchLeave")
        /\ switches' = switches + 1
        /\ UNCHANGED <<maps, roomMapMu, player, world, locals>>

\* oldRoom.OnDisConnect takes the player off his seat, as the comment on the
\* call says.  (Mutant: it is not called.)
StillSeated(s) == seats
Unseated(s) ==
    IF room[s] = Nil THEN seats ELSE [seats EXCEPT ![room[s]] = @ \ {s}]

LeaveOldRoom(t) ==
    /\ Go(t, "switchLeave", "exitRead")
    /\ seats' = Unseated(t.player)
    /\ UNCHANGED <<maps, roomMapMu, player, roomState, locals, switches>>

SwitchAttach(t) ==
    /\ Go(t, "switchAttach", "switchCreate")
    /\ attached' = [attached EXCEPT ![t.player] = TRUE]
    /\ UNCHANGED <<maps, roomMapMu, room, conn, world, locals, switches>>

\* OnSwitch accepts: roomMapMu stays held until ListRoom.
SwitchAccepted(t) ==
    \E r \in Rooms : \E ty \in RoomTypes :
        /\ Lock(t)
        /\ Fresh(r)
        /\ Go(t, "switchCreate", "listSwitched")
        /\ want' = [want EXCEPT ![t.player] = ty]
        /\ roomState' = [roomState EXCEPT ![r] = "live"]
        /\ seats' = [seats EXCEPT ![r] = Seat(@, t.player)]
        /\ loc' = [loc EXCEPT ![t] = r]
        /\ UNCHANGED <<maps, player, old, switches>>

\* OnSwitch refuses: the player is left in no room.
SwitchRefused(t) ==
    \E r \in Rooms :
        /\ roomMapMu = Nil
        /\ Fresh(r)
        /\ Go(t, "switchCreate", "playing")
        /\ roomState' = [roomState EXCEPT ![r] = "refused"]
        /\ UNCHANGED <<maps, roomMapMu, player, seats, locals, switches>>

-----------------------------------------------------------------------------
TryReConnectGame(t) ==
    LookupRoom(t) \/ CheckOldConn(t) \/ CloseOldConn(t) \/ StorePlayer(t)
        \/ ReConnectRoom(t)

OnJoin(t) ==
    JoinListedRoom(t) \/ FindNoRoom(t) \/ SetJoinedRoom(t) \/ SkipCreate(t)
        \/ CreateRoom(t) \/ CreateRefused(t) \/ ListRoom(t) \/ RecordPlayer(t)

ExitRoom(t) ==
    ReadRoom(t) \/ DeletePlayer(t) \/ UnmapPlayer(t) \/ CloseConn(t)
        \/ ExitNilRoom(t) \/ FindEmpty(t) \/ FindOccupied(t)
        \/ DisposeEmpty(t) \/ DisposeSingle(t) \/ FinishExit(t)

SwitchRoom(t) == LeaveOldRoom(t) \/ SwitchAttach(t) \/ SwitchAccepted(t) \/ SwitchRefused(t)

\* What a goroutine that is inside the manager does next.
Proceed(t) ==
    \/ ExitRoom(t)
    \/ t.goroutine = "conn" /\ (TryReConnectGame(t) \/ OnJoin(t) \/ SwitchRoom(t))

\* What players and rooms do of their own accord.
Environment(t) ==
    \/ t.goroutine = "conn" /\ (StartLogin(t) \/ Disconnect(t) \/ StartSwitch(t))
    \/ t.goroutine = "room" /\ Release(t)

Next == \E t \in Threads : Proceed(t) \/ Environment(t)

Spec == Init /\ [][Next]_vars

\* A goroutine inside the manager is not preempted for ever, and Go's mutexes
\* do not starve a waiter.  Nothing obliges a player or a room to act.
Fairness == \A t \in Threads : WF_vars(Proceed(t))

FairSpec == Spec /\ Fairness

-----------------------------------------------------------------------------
(* Properties.                                                              *)

TypeOK ==
    /\ roomMap \in [RoomTypes -> SUBSET Rooms]
    /\ roomMapMu \in Threads \cup {Nil}
    /\ playerRoomMap \in [Idents -> Rooms \cup {Nil, Absent}]
    /\ players \in [Idents -> Sessions \cup {Nil}]
    /\ room \in [Sessions -> Rooms \cup {Nil}]
    /\ attached \in [Sessions -> BOOLEAN]
    /\ conn \in [Sessions -> {"open", "closed", "nil"}]
    /\ seats \in [Rooms -> SUBSET Sessions]
    /\ roomState \in [Rooms -> {"new", "live", "refused", "disposed"}]
    /\ pc \in [Threads -> Pcs]
    /\ loc \in [Threads -> Rooms \cup {Nil}]
    /\ old \in [Sessions -> Sessions \cup {Nil}]
    /\ want \in [Sessions -> RoomTypes \cup {Nil}]
    /\ switches \in 0..MaxSwitches

\* The room a goroutine works on under roomMapMu is a room.  (TypeOK is not
\* inductive without it: ListRoom would list a nil room.)
HeldRoomIsRoom ==
    \A t \in Threads :
        pc[t] \in {"setRoom", "list", "listSwitched", "exitDispose"} => loc[t] \in Rooms

\* With rtp matching, a room that has been disposed of is on no list: OnJoin,
\* which walks the lists, never offers a player a dead room.
NoDisposedRoomListed ==
    Matcher = "RTP" => \A r \in Listed : roomState[r] = "live"

\* A disposed room has nobody in it: no login, reconnection or switch slips in
\* between ExitRoom's GetPlayerNum() <= 0 and its OnDispose.
DisposedRoomEmpty ==
    \A r \in Rooms : roomState[r] = "disposed" => seats[r] = {}

\* With rtp matching, a room with players is on a list or is about to be put
\* on one by the goroutine that holds roomMapMu: ExitRoom never delists a
\* room that is in use, which would keep later players of the rtp out of it.
SeatedRoomListed ==
    Matcher = "RTP" =>
        \A r \in Rooms : seats[r] # {} =>
            \/ r \in Listed
            \/ \E t \in Threads : /\ pc[t] \in {"list", "listSwitched"}
                                  /\ loc[t] = r

\* An ExitRoom that will look whether room r has become empty.
WillCheck(t, r) ==
    \/ pc[t] = "exitRead" /\ room[t.player] = r /\ attached[t.player]
    \/ pc[t] \in ExitPcs \ {"exitRead", "exitClear"} /\ loc[t] = r

\* A listed room that has lost its last player has an ExitRoom on its way that
\* will notice: empty rooms do not pile up in roomMap.
EmptyRoomWatched ==
    Matcher = "RTP" =>
        \A r \in Listed : seats[r] = {} => \E t \in Threads : WillCheck(t, r)

\* No goroutine of the player is inside the manager.
AtRest(i) ==
    \A t \in Threads : IdentOf[t.player] = i =>
        pc[t] \in {"new", "idle", "playing", "gone", "panic"}

Seated(i, r) == \E s \in seats[r] : IdentOf[s] = i

\* Between calls, playerRoomMap knows exactly the players that sit in a room,
\* and which room: a returning player is taken back to his seat, and a player
\* who left is not sent to the room he left.
RegistryAgrees ==
    \A i \in Idents : AtRest(i) =>
        \A r \in Rooms : playerRoomMap[i] = r <=> Seated(i, r)

\* Between calls, the object registered for a seated player is the session the
\* room talks to: the next reconnection closes the right connection, and the
\* room it holds is the room that seats it.
PlayersAgree ==
    \A i \in Idents : \A r \in Rooms : AtRest(i) /\ Seated(i, r) =>
        players[i] \in seats[r] /\ room[players[i]] = r

\* A player sits in one room, with one session.
OneSeatPerPlayer ==
    \A s1, s2 \in Sessions : \A r1, r2 \in Rooms :
        (IdentOf[s1] = IdentOf[s2] /\ s1 \in seats[r1] /\ s2 \in seats[r2])
            => s1 = s2 /\ r1 = r2

\* A room is disposed of once: an ExitRoom about to call OnDispose finds the
\* room alive.
DisposedOnce ==
    \A t \in Threads :
        (\/ pc[t] = "exitDispose"
         \/ pc[t] = "exitCheck" /\ Matcher = "SINGLE" /\ loc[t] # Nil)
            => roomState[loc[t]] = "live"

\* Closing the connection of the old session never dereferences a nil
\* connection.
OldConnCloseSafe ==
    \A t \in Threads : pc[t] = "closeOld" => conn[old[t.player]] # "nil"

\* Whoever holds roomMapMu is on his way to its Unlock: no return is without one,
\* and no ExitRoom, however exits, switches and logins of the player follow each
\* other, finds its player without a room and panics between Lock and Unlock.
HolderWillUnlock == roomMapMu # Nil => pc[roomMapMu] \in LockedPcs

\* With rtp matching the manager implements RoomLifecycle, a room being open
\* while players can be sent to it: while it is listed, or about to be by the
\* goroutine that holds roomMapMu.  Delisting and disposal are one step of it.
Opening == {loc[t] : t \in {u \in Threads : pc[u] \in {"list", "listSwitched"}}}

Phase == [r \in Rooms |-> IF r \in Listed \cup Opening THEN "open"
                          ELSE IF roomState[r] = "new" THEN "unborn"
                          ELSE "closed"]

Lifecycle == INSTANCE RoomLifecycle WITH phase <- Phase, guests <- seats

ImplementsLifecycle == Lifecycle!Spec

\* Every call into the manager returns: a login, a switch and an exit come to
\* an end whatever the other goroutines do.
CallsReturn ==
    \A t \in Threads :
        pc[t] \in LoginPcs \cup ExitPcs \cup SwitchPcs
            ~> pc[t] \in {"idle", "playing", "gone", "panic"}

\* A room all of whose players have been let go is disposed of, unless a new
\* player comes in first.
EmptyRoomsGo ==
    \A r \in Rooms :
        (roomState[r] = "live" /\ seats[r] = {})
            ~> (roomState[r] = "disposed" \/ seats[r] # {})
=============================================================================
