------------------------ MODULE RoomRegistryProofs ------------------------
(***************************************************************************)
(* The registries of the room manager agree with the rooms, when a room    *)
(* has one call per Player object in progress and a player has one session *)
(* in the manager at a time (SerialRooms, SerialPlayers).                  *)
(***************************************************************************)
EXTENDS RoomManagerProofs

\* Where the goroutines of a session are, and the connection's local room.
ConnPc == [s \in Sessions |-> pc[ConnOf(s)]]
RoomPc == [s \in Sessions |-> pc[RoomOf(s)]]
ConnLoc == [s \in Sessions |-> loc[ConnOf(s)]]

BusyPcs == LoginPcs \cup ExitPcs \cup SwitchPcs

\* A new seat, not recorded yet.
Registering == {"setRoom", "create", "list", "listSwitched", "record"}

\* On the way back to the room the lookup has found.
Returning == {"checkOld", "closeOld", "store", "reconnect"}

\* ExitRoom, while the player is still recorded.
Unmapping == {"exitRead", "exitDelete", "exitUnmap"}

\* In the manager, with the player not recorded.
Unrecorded == Registering \cup {"join", "exitClose", "exitCheck", "exitDispose", "exitClear",
                                "switchAttach", "switchCreate"}

Same(s, o) == IdentOf[s] = IdentOf[o]
Leaves(s) == ConnPc[s] \in Unmapping \/ RoomPc[s] \in Unmapping
Unseats(i) == \A s \in Sessions, r \in Rooms : IdentOf[s] = i => s \notin seats[r]

Places ==
    /\ ConnPc \in [Sessions -> Pcs \ {"idle"}]
    /\ RoomPc \in [Sessions -> ExitPcs \cup {"idle", "panic"}]
    /\ ConnLoc \in [Sessions -> Rooms \cup {Nil}]

\* One session of a player is in the manager.
OneBusy ==
    \A s, o \in Sessions :
        ConnPc[s] \in BusyPcs /\ ConnPc[o] \in BusyPcs /\ Same(s, o) => s = o

\* The room and the connection do not work on a session together.
RoomWorksAlone ==
    \A s \in Sessions : RoomPc[s] # "idle" =>
        /\ ConnPc[s] \in {"playing", "gone", "panic"}
        /\ RoomPc[s] = "exitRead" => attached[s]

\* A session that has a seat knows its room.
SeatsHeld ==
    \A s \in Sessions, r \in Rooms : s \in seats[r] =>
        /\ RoomPc[s] = "idle" /\ attached[s]
        /\ ConnPc[s] \in Registering \cup {"playing", "gone", "switchLeave"}
        /\ IF ConnPc[s] \in {"setRoom", "list", "listSwitched"} THEN ConnLoc[s] = r
           ELSE room[s] = r

\* The registry knows the seat, once it is recorded.
SeatsKnown ==
    \A s \in Sessions, r \in Rooms : s \in seats[r] /\ ConnPc[s] \notin Registering =>
        /\ playerRoomMap[IdentOf[s]] = r
        /\ \/ players[IdentOf[s]] = s
           \/ \E o \in Sessions :
                  Same(o, s) /\ ConnPc[o] = "reconnect" /\ players[IdentOf[s]] = o

\* The session that is about to record its player is the only one with a seat.
NotRecorded ==
    \A s \in Sessions : ConnPc[s] \in Unrecorded =>
        /\ playerRoomMap[IdentOf[s]] = Absent
        /\ \A o \in Sessions, r \in Rooms : Same(o, s) /\ o \in seats[r] => o = s

\* What a login or switch relies on between taking a seat and recording it.
TakesSeat ==
    \A s \in Sessions :
        /\ ConnPc[s] = "join" => room[s] = Nil
        /\ ConnPc[s] \in {"setRoom", "list", "listSwitched"} =>
               ConnLoc[s] \in Rooms /\ s \in seats[ConnLoc[s]]
        /\ ConnPc[s] \in {"record", "switchLeave"} => room[s] \in Rooms /\ s \in seats[room[s]]
        /\ ConnPc[s] = "create" => room[s] = Nil \/ s \in seats[room[s]]
        /\ ConnPc[s] \in {"create", "switchCreate"} => attached[s]

\* A session that comes back comes for the room its player is recorded in, if that
\* is still so, and is the registered one when it takes the seat over.
ComesBack ==
    \A s \in Sessions : ConnPc[s] \in Returning =>
        /\ ConnLoc[s] \in Rooms /\ room[s] = ConnLoc[s]
        /\ playerRoomMap[IdentOf[s]] \in {Absent, ConnLoc[s]}
        /\ ConnPc[s] = "reconnect" =>
               attached[s] /\ (Unseats(IdentOf[s]) \/ players[IdentOf[s]] = s)

\* ExitRoom erases the record of a player who has given up his seat, once.
LeavesOnce ==
    \A s \in Sessions : Leaves(s) =>
        /\ playerRoomMap[IdentOf[s]] \in Rooms
        /\ Unseats(IdentOf[s])
        /\ \A o \in Sessions : Same(o, s) /\ Leaves(o) => o = s

\* Nobody is recorded in a room for nothing.
RecordsKept ==
    \A i \in Idents :
        \/ playerRoomMap[i] = Absent
        \/ /\ playerRoomMap[i] \in Rooms
           /\ \E s \in Sessions :
                  IdentOf[s] = i /\ (s \in seats[playerRoomMap[i]] \/ Leaves(s))

\* A seat is recorded after it is taken and its record erased after it is given up;
\* in between, the session that is about to do so (NotRecorded, LeavesOnce) must be the
\* only one of its player in the manager (OneBusy) and alone with its room
\* (RoomWorksAlone). That is what the two contracts give.
RegistryInv ==
    /\ TypeOK /\ Places /\ OneBusy /\ RoomWorksAlone /\ SeatsHeld /\ OneSeatPerPlayer
    /\ SeatsKnown /\ NotRecorded /\ TakesSeat /\ ComesBack /\ LeavesOnce /\ RecordsKept

-----------------------------------------------------------------------------
(* Where a step leaves the goroutines.                                      *)

LEMMA ThreadOfSession ==
    ASSUME NEW t \in Threads
    PROVE  /\ t.player \in Sessions
           /\ t.goroutine = "conn" => t = ConnOf(t.player)
           /\ t.goroutine = "room" => t = RoomOf(t.player)
           /\ t.goroutine \in {"conn", "room"}
  BY DEF Threads, ConnOf, RoomOf

LEMMA TwoThreads ==
    ASSUME NEW s \in Sessions, NEW o \in Sessions
    PROVE  /\ ConnOf(s) \in Threads /\ RoomOf(s) \in Threads
           /\ ConnOf(s) # RoomOf(o)
           /\ s # o => ConnOf(s) # ConnOf(o) /\ RoomOf(s) # RoomOf(o)
           /\ ConnOf(s).player = s /\ RoomOf(s).player = s
           /\ ConnOf(s).goroutine = "conn" /\ RoomOf(s).goroutine = "room"
  BY DEF Threads, ConnOf, RoomOf

LEMMA ConnGoes ==
    ASSUME TypeOK, NEW s \in Sessions, NEW from, NEW to, Go(ConnOf(s), from, to)
    PROVE  ConnPc[s] = from /\ ConnPc' = [ConnPc EXCEPT ![s] = to] /\ RoomPc' = RoomPc
  BY TwoThreads DEF TypeOK, Go, ConnPc, RoomPc

LEMMA RoomGoes ==
    ASSUME TypeOK, NEW s \in Sessions, NEW from, NEW to, Go(RoomOf(s), from, to)
    PROVE  RoomPc[s] = from /\ RoomPc' = [RoomPc EXCEPT ![s] = to] /\ ConnPc' = ConnPc
  BY TwoThreads DEF TypeOK, Go, ConnPc, RoomPc

SetsLoc(t, x) == loc' = [loc EXCEPT ![t] = x]

LEMMA ConnLocKept ==
    ASSUME TypeOK, NEW s \in Sessions, NEW x, SetsLoc(RoomOf(s), x)
    PROVE  UNCHANGED ConnLoc
  BY TwoThreads DEF TypeOK, ConnLoc, SetsLoc

LEMMA ConnLocSet ==
    ASSUME TypeOK, NEW s \in Sessions, NEW x, SetsLoc(ConnOf(s), x)
    PROVE  ConnLoc' = [ConnLoc EXCEPT ![s] = x]
  BY TwoThreads DEF TypeOK, ConnLoc, SetsLoc

\* RegistryInv without the types, which are invariant by themselves.
RegistryParts ==
    /\ Places /\ OneBusy /\ RoomWorksAlone /\ SeatsHeld /\ OneSeatPerPlayer
    /\ SeatsKnown /\ NotRecorded /\ TakesSeat /\ ComesBack /\ LeavesOnce /\ RecordsKept

-----------------------------------------------------------------------------
(* The invariant under the steps, sorted by what they change: one lemma per *)
(* kind, over ConnPc, RoomPc and ConnLoc in place of pc and loc.            *)

LEMMA ConnQuiet ==
    ASSUME RegistryInv, NEW s \in Sessions,
           NEW from, NEW to,
           ConnPc[s] = from, ConnPc' = [ConnPc EXCEPT ![s] = to], RoomPc' = RoomPc,
           UNCHANGED <<seats, playerRoomMap, players, room, attached, ConnLoc>>,
           <<from, to>> \in
               {<<"checkOld", "closeOld">>, <<"checkOld", "store">>,
                <<"closeOld", "store">>, <<"closeOld", "panic">>,
                <<"playing", "gone">>, <<"switchCreate", "playing">>,
                <<"exitClose", "exitCheck">>, <<"exitCheck", "exitDispose">>,
                <<"exitCheck", "exitClear">>, <<"exitDispose", "exitClear">>}
    PROVE  RegistryParts'
<1> USE ConstantsAssumption
    DEF RegistryInv, TypeOK, Places, Pcs, BusyPcs, LoginPcs, ExitPcs, SwitchPcs, Registering,
        Returning, Unmapping, Unrecorded, Same, Leaves, Unseats, Seat
<1>1. Places'
  OBVIOUS
<1>2. OneBusy'
  BY DEF OneBusy
<1>3. RoomWorksAlone'
  BY DEF RoomWorksAlone
<1>4. SeatsHeld'
  BY DEF SeatsHeld
<1>5. OneSeatPerPlayer'
  BY DEF OneSeatPerPlayer
<1>6. SeatsKnown'
  BY DEF SeatsKnown
<1>7. NotRecorded'
  BY DEF NotRecorded
<1>8. TakesSeat'
  BY DEF TakesSeat
<1>9. ComesBack'
  BY DEF ComesBack
<1>10. LeavesOnce'
  BY DEF LeavesOnce
<1>11. RecordsKept'
  BY DEF RecordsKept
<1> QED BY <1>1, <1>2, <1>3, <1>4, <1>5, <1>6, <1>7, <1>8, <1>9, <1>10, <1>11
       DEF RegistryParts

LEMMA LoginStarts ==
    ASSUME RegistryInv, NEW s \in Sessions,
           ConnPc[s] = "new", ConnPc' = [ConnPc EXCEPT ![s] = "lookup"], RoomPc' = RoomPc,
           UNCHANGED <<seats, playerRoomMap, players, room, attached, ConnLoc>>,
           \A o \in Sessions \ {s} : Same(o, s) => ConnPc[o] \notin BusyPcs
    PROVE  RegistryParts'
<1> USE ConstantsAssumption
    DEF RegistryInv, TypeOK, Places, Pcs, BusyPcs, LoginPcs, ExitPcs, SwitchPcs, Registering,
        Returning, Unmapping, Unrecorded, Same, Leaves, Unseats, Seat
<1>1. Places'
  OBVIOUS
<1>2. OneBusy'
  BY DEF OneBusy
<1>3. RoomWorksAlone'
  BY DEF RoomWorksAlone
<1>4. SeatsHeld'
  BY DEF SeatsHeld
<1>5. OneSeatPerPlayer'
  BY DEF OneSeatPerPlayer
<1>6. SeatsKnown'
  BY DEF SeatsKnown
<1>7. NotRecorded'
  BY DEF NotRecorded
<1>8. TakesSeat'
  BY DEF TakesSeat
<1>9. ComesBack'
  BY DEF ComesBack
<1>10. LeavesOnce'
  BY DEF LeavesOnce
<1>11. RecordsKept'
  BY DEF RecordsKept
<1> QED BY <1>1, <1>2, <1>3, <1>4, <1>5, <1>6, <1>7, <1>8, <1>9, <1>10, <1>11
       DEF RegistryParts

LEMMA LookupFinds ==
    ASSUME RegistryInv, NEW s \in Sessions,
           ConnPc[s] = "lookup", ConnPc' = [ConnPc EXCEPT ![s] = "checkOld"], RoomPc' = RoomPc,
           UNCHANGED <<seats, playerRoomMap, players, attached>>,
           playerRoomMap[IdentOf[s]] # Absent,
           room' = [room EXCEPT ![s] = playerRoomMap[IdentOf[s]]],
           ConnLoc' = [ConnLoc EXCEPT ![s] = playerRoomMap[IdentOf[s]]]
    PROVE  RegistryParts'
<1> USE ConstantsAssumption
    DEF RegistryInv, TypeOK, Places, Pcs, BusyPcs, LoginPcs, ExitPcs, SwitchPcs, Registering,
        Returning, Unmapping, Unrecorded, Same, Leaves, Unseats, Seat
<1>1. Places'
  <2>1. IdentOf[s] \in Idents
    OBVIOUS
  <2>2. playerRoomMap[IdentOf[s]] \in Rooms
    BY <2>1 DEF RecordsKept
  <2> QED BY <2>2
<1>2. OneBusy'
  BY DEF OneBusy
<1>3. RoomWorksAlone'
  BY DEF RoomWorksAlone
<1>4. SeatsHeld'
  BY DEF SeatsHeld
<1>5. OneSeatPerPlayer'
  BY DEF OneSeatPerPlayer
<1>6. SeatsKnown'
  BY DEF SeatsKnown
<1>7. NotRecorded'
  BY DEF NotRecorded
<1>8. TakesSeat'
  BY DEF TakesSeat
<1>9. ComesBack'
  <2>1. IdentOf[s] \in Idents
    OBVIOUS
  <2>2. playerRoomMap[IdentOf[s]] \in Rooms
    BY <2>1 DEF RecordsKept
  <2> QED BY <2>2 DEF ComesBack
<1>10. LeavesOnce'
  BY DEF LeavesOnce
<1>11. RecordsKept'
  BY DEF RecordsKept
<1> QED BY <1>1, <1>2, <1>3, <1>4, <1>5, <1>6, <1>7, <1>8, <1>9, <1>10, <1>11
       DEF RegistryParts

LEMMA LookupFails ==
    ASSUME RegistryInv, NEW s \in Sessions,
           ConnPc[s] = "lookup", ConnPc' = [ConnPc EXCEPT ![s] = "join"], RoomPc' = RoomPc,
           UNCHANGED <<seats, playerRoomMap, players, attached>>,
           playerRoomMap[IdentOf[s]] = Absent,
           room' = [room EXCEPT ![s] = Nil],
           ConnLoc' = [ConnLoc EXCEPT ![s] = Nil]
    PROVE  RegistryParts'
<1> USE ConstantsAssumption
    DEF RegistryInv, TypeOK, Places, Pcs, BusyPcs, LoginPcs, ExitPcs, SwitchPcs, Registering,
        Returning, Unmapping, Unrecorded, Same, Leaves, Unseats, Seat
<1>1. Places'
  OBVIOUS
<1>2. OneBusy'
  BY DEF OneBusy
<1>3. RoomWorksAlone'
  BY DEF RoomWorksAlone
<1>4. SeatsHeld'
  BY DEF SeatsHeld
<1>5. OneSeatPerPlayer'
  BY DEF OneSeatPerPlayer
<1>6. SeatsKnown'
  BY DEF SeatsKnown
<1>7. NotRecorded'
  BY DEF NotRecorded, SeatsKnown, OneBusy
<1>8. TakesSeat'
  BY DEF TakesSeat
<1>9. ComesBack'
  BY DEF ComesBack
<1>10. LeavesOnce'
  BY DEF LeavesOnce
<1>11. RecordsKept'
  BY DEF RecordsKept
<1> QED BY <1>1, <1>2, <1>3, <1>4, <1>5, <1>6, <1>7, <1>8, <1>9, <1>10, <1>11
       DEF RegistryParts

LEMMA PlayerStored ==
    ASSUME RegistryInv, NEW s \in Sessions,
           ConnPc[s] = "store", ConnPc' = [ConnPc EXCEPT ![s] = "reconnect"], RoomPc' = RoomPc,
           UNCHANGED <<seats, playerRoomMap, room, ConnLoc>>,
           players' = [players EXCEPT ![IdentOf[s]] = s],
           attached' = [attached EXCEPT ![s] = TRUE]
    PROVE  RegistryParts'
<1> USE ConstantsAssumption
    DEF RegistryInv, TypeOK, Places, Pcs, BusyPcs, LoginPcs, ExitPcs, SwitchPcs, Registering,
        Returning, Unmapping, Unrecorded, Same, Leaves, Unseats, Seat
<1>1. Places'
  OBVIOUS
<1>2. OneBusy'
  BY DEF OneBusy
<1>3. RoomWorksAlone'
  BY DEF RoomWorksAlone
<1>4. SeatsHeld'
  BY DEF SeatsHeld
<1>5. OneSeatPerPlayer'
  BY DEF OneSeatPerPlayer
<1>6. SeatsKnown'
  BY DEF SeatsKnown
<1>7. NotRecorded'
  BY DEF NotRecorded
<1>8. TakesSeat'
  BY DEF TakesSeat
<1>9. ComesBack'
  <2> SUFFICES ASSUME NEW o \in Sessions, ConnPc'[o] \in Returning
               PROVE  /\ ConnLoc[o] \in Rooms /\ room[o] = ConnLoc[o]
                      /\ playerRoomMap[IdentOf[o]] \in {Absent, ConnLoc[o]}
                      /\ ConnPc'[o] = "reconnect" =>
                             attached'[o] /\ (Unseats(IdentOf[o]) \/ players'[IdentOf[o]] = o)
    BY DEF ComesBack
  <2>1. CASE o = s
    <3>1. IdentOf[s] \in Idents /\ players'[IdentOf[s]] = s /\ attached'[s]
      OBVIOUS
    <3>2. ConnPc[s] = "store"
      OBVIOUS
    <3> QED BY <2>1, <3>1, <3>2 DEF ComesBack
  <2>2. CASE o # s
    BY <2>2 DEF ComesBack, OneBusy
  <2> QED BY <2>1, <2>2
<1>10. LeavesOnce'
  BY DEF LeavesOnce
<1>11. RecordsKept'
  BY DEF RecordsKept
<1> QED BY <1>1, <1>2, <1>3, <1>4, <1>5, <1>6, <1>7, <1>8, <1>9, <1>10, <1>11
       DEF RegistryParts

LEMMA SeatTakenOver ==
    ASSUME RegistryInv, NEW s \in Sessions,
           NEW r \in Rooms,
           NEW o \in seats[r],
           ConnPc[s] = "reconnect", ConnPc' = [ConnPc EXCEPT ![s] = "playing"], RoomPc' = RoomPc,
           UNCHANGED <<playerRoomMap, players, room, attached>>,
           r = ConnLoc[s],
           Same(o, s),
           seats' = [seats EXCEPT ![r] = Seat(seats[r], s)],
           ConnLoc' = [ConnLoc EXCEPT ![s] = Nil]
    PROVE  RegistryParts'
<1> USE ConstantsAssumption
    DEF RegistryInv, TypeOK, Places, Pcs, BusyPcs, LoginPcs, ExitPcs, SwitchPcs, Registering,
        Returning, Unmapping, Unrecorded, Same, Leaves, Unseats, Seat
<1>1. Places'
  OBVIOUS
<1>2. OneBusy'
  BY DEF OneBusy
<1>3. RoomWorksAlone'
  BY DEF RoomWorksAlone
<1>4. SeatsHeld'
  BY DEF SeatsHeld, RoomWorksAlone, ComesBack, OneSeatPerPlayer
<1>5. OneSeatPerPlayer'
  BY DEF OneSeatPerPlayer
<1>6. SeatsKnown'
  BY DEF SeatsKnown, OneBusy, ComesBack, OneSeatPerPlayer
<1>7. NotRecorded'
  BY DEF NotRecorded, OneBusy
<1>8. TakesSeat'
  BY DEF TakesSeat, OneBusy
<1>9. ComesBack'
  BY DEF ComesBack
<1>10. LeavesOnce'
  BY DEF LeavesOnce
<1>11. RecordsKept'
  BY DEF RecordsKept
<1> QED BY <1>1, <1>2, <1>3, <1>4, <1>5, <1>6, <1>7, <1>8, <1>9, <1>10, <1>11
       DEF RegistryParts

LEMMA ReturnRefused ==
    ASSUME RegistryInv, NEW s \in Sessions,
           NEW to,
           ConnPc[s] = "reconnect", ConnPc' = [ConnPc EXCEPT ![s] = to], RoomPc' = RoomPc,
           UNCHANGED <<seats, playerRoomMap, players, room, attached>>,
           to \in {"gone", "panic"},
           ConnLoc' = [ConnLoc EXCEPT ![s] = Nil],
           \A o \in seats[ConnLoc[s]] : ~Same(o, s)
    PROVE  RegistryParts'
<1> USE ConstantsAssumption
    DEF RegistryInv, TypeOK, Places, Pcs, BusyPcs, LoginPcs, ExitPcs, SwitchPcs, Registering,
        Returning, Unmapping, Unrecorded, Same, Leaves, Unseats, Seat
<1>1. Places'
  OBVIOUS
<1>2. OneBusy'
  BY DEF OneBusy
<1>3. RoomWorksAlone'
  BY DEF RoomWorksAlone
<1>4. SeatsHeld'
  BY DEF SeatsHeld
<1>5. OneSeatPerPlayer'
  BY DEF OneSeatPerPlayer
<1>6. SeatsKnown'
  BY DEF SeatsKnown, OneBusy, ComesBack
<1>7. NotRecorded'
  BY DEF NotRecorded
<1>8. TakesSeat'
  BY DEF TakesSeat
<1>9. ComesBack'
  BY DEF ComesBack
<1>10. LeavesOnce'
  BY DEF LeavesOnce
<1>11. RecordsKept'
  BY DEF RecordsKept
<1> QED BY <1>1, <1>2, <1>3, <1>4, <1>5, <1>6, <1>7, <1>8, <1>9, <1>10, <1>11
       DEF RegistryParts

LEMMA SeatTaken ==
    ASSUME RegistryInv, NEW s \in Sessions,
           NEW r \in Rooms, NEW from, NEW to,
           ConnPc[s] = from, ConnPc' = [ConnPc EXCEPT ![s] = to], RoomPc' = RoomPc,
           UNCHANGED <<playerRoomMap, players, room>>,
           <<from, to>> \in {<<"join", "setRoom">>, <<"create", "list">>,
                             <<"switchCreate", "listSwitched">>},
           from = "create" => room[s] = Nil,
           IF from = "join" THEN attached' = [attached EXCEPT ![s] = TRUE] ELSE UNCHANGED attached,
           seats' = [seats EXCEPT ![r] = Seat(seats[r], s)],
           ConnLoc' = [ConnLoc EXCEPT ![s] = r]
    PROVE  RegistryParts'
<1> USE ConstantsAssumption
    DEF RegistryInv, TypeOK, Places, Pcs, BusyPcs, LoginPcs, ExitPcs, SwitchPcs, Registering,
        Returning, Unmapping, Unrecorded, Same, Leaves, Unseats, Seat
<1>1. Places'
  OBVIOUS
<1>2. OneBusy'
  BY DEF OneBusy
<1>3. RoomWorksAlone'
  BY DEF RoomWorksAlone
<1>4. SeatsHeld'
  <2> SUFFICES ASSUME NEW o \in Sessions, NEW q \in Rooms, o \in seats'[q]
               PROVE  /\ RoomPc[o] = "idle" /\ attached'[o]
                      /\ ConnPc'[o] \in Registering \cup {"playing", "gone", "switchLeave"}
                      /\ IF ConnPc'[o] \in {"setRoom", "list", "listSwitched"}
                         THEN ConnLoc'[o] = q ELSE room[o] = q
    BY DEF SeatsHeld
  <2>1. CASE o # s
    BY <2>1 DEF SeatsHeld
  <2>2. CASE o = s
    <3>1. s \notin seats[q]
      BY DEF SeatsHeld
    <3>2. q = r
      BY <2>2, <3>1
    <3>3. RoomPc[s] = "idle" /\ attached'[s]
      BY DEF RoomWorksAlone, TakesSeat
    <3> QED BY <2>2, <3>2, <3>3
  <2> QED BY <2>1, <2>2
<1>5. OneSeatPerPlayer'
  <2>1. \A o \in Sessions, q \in Rooms : Same(o, s) => o \notin seats[q]
    <3>1. \A q \in Rooms : s \notin seats[q]
      BY DEF SeatsHeld
    <3>2. \A o \in Sessions, q \in Rooms : Same(o, s) /\ o \in seats[q] => o = s
      BY DEF NotRecorded
    <3> QED BY <3>1, <3>2
  <2>2. \A o \in Sessions, q \in Rooms :
            o \in seats'[q] => (o \in seats[q] /\ o # s) \/ (o = s /\ q = r)
    <3> SUFFICES ASSUME NEW o \in Sessions, NEW q \in Rooms, o \in seats'[q]
                 PROVE  (o \in seats[q] /\ o # s) \/ (o = s /\ q = r)
      OBVIOUS
    <3>1. CASE q = r
      BY <3>1, <2>1
    <3>2. CASE q # r
      <4>1. seats'[q] = seats[q]
        BY <3>2
      <4>2. s \notin seats[q]
        BY <2>1
      <4> QED BY <4>1, <4>2
    <3> QED BY <3>1, <3>2
  <2> QED BY <2>1, <2>2 DEF OneSeatPerPlayer
<1>6. SeatsKnown'
  BY DEF SeatsKnown
<1>7. NotRecorded'
  BY DEF NotRecorded, OneBusy
<1>8. TakesSeat'
  <2> SUFFICES ASSUME NEW o \in Sessions
               PROVE  /\ ConnPc'[o] = "join" => room[o] = Nil
                      /\ ConnPc'[o] \in {"setRoom", "list", "listSwitched"} =>
                             ConnLoc'[o] \in Rooms /\ o \in seats'[ConnLoc'[o]]
                      /\ ConnPc'[o] \in {"record", "switchLeave"} =>
                             room[o] \in Rooms /\ o \in seats'[room[o]]
                      /\ ConnPc'[o] = "create" => room[o] = Nil \/ o \in seats'[room[o]]
                      /\ ConnPc'[o] \in {"create", "switchCreate"} => attached'[o]
    BY DEF TakesSeat
  <2>1. CASE o = s
    BY <2>1
  <2>2. CASE o # s
    <3>1. ConnPc'[o] = ConnPc[o] /\ ConnLoc'[o] = ConnLoc[o] /\ attached'[o] = attached[o]
      BY <2>2
    <3>2. CASE ConnPc[o] \notin BusyPcs
      BY <3>1, <3>2
    <3>3. CASE ConnPc[o] \in BusyPcs
      <4>1. ~Same(o, s)
        BY <2>2, <3>3 DEF OneBusy
      <4>2. \A q \in Rooms : o \in seats[q] => o \in seats'[q]
        BY <2>2, <4>1
      <4> QED BY <3>1, <4>2 DEF TakesSeat
    <3> QED BY <3>2, <3>3
  <2> QED BY <2>1, <2>2
<1>9. ComesBack'
  BY DEF ComesBack, OneBusy
<1>10. LeavesOnce'
  BY DEF LeavesOnce, NotRecorded
<1>11. RecordsKept'
  BY DEF RecordsKept
<1> QED BY <1>1, <1>2, <1>3, <1>4, <1>5, <1>6, <1>7, <1>8, <1>9, <1>10, <1>11
       DEF RegistryParts

LEMMA NoRoomFound ==
    ASSUME RegistryInv, NEW s \in Sessions,
           ConnPc[s] = "join", ConnPc' = [ConnPc EXCEPT ![s] = "create"], RoomPc' = RoomPc,
           UNCHANGED <<seats, playerRoomMap, players, room, ConnLoc>>,
           attached' = [attached EXCEPT ![s] = TRUE]
    PROVE  RegistryParts'
<1> USE ConstantsAssumption
    DEF RegistryInv, TypeOK, Places, Pcs, BusyPcs, LoginPcs, ExitPcs, SwitchPcs, Registering,
        Returning, Unmapping, Unrecorded, Same, Leaves, Unseats, Seat
<1>1. Places'
  OBVIOUS
<1>2. OneBusy'
  BY DEF OneBusy
<1>3. RoomWorksAlone'
  BY DEF RoomWorksAlone
<1>4. SeatsHeld'
  BY DEF SeatsHeld
<1>5. OneSeatPerPlayer'
  BY DEF OneSeatPerPlayer
<1>6. SeatsKnown'
  BY DEF SeatsKnown
<1>7. NotRecorded'
  BY DEF NotRecorded
<1>8. TakesSeat'
  BY DEF TakesSeat
<1>9. ComesBack'
  BY DEF ComesBack
<1>10. LeavesOnce'
  BY DEF LeavesOnce
<1>11. RecordsKept'
  BY DEF RecordsKept
<1> QED BY <1>1, <1>2, <1>3, <1>4, <1>5, <1>6, <1>7, <1>8, <1>9, <1>10, <1>11
       DEF RegistryParts

LEMMA RoomSet ==
    ASSUME RegistryInv, NEW s \in Sessions,
           NEW from, NEW to, NEW x \in {Nil, ConnLoc[s]},
           ConnPc[s] = from, ConnPc' = [ConnPc EXCEPT ![s] = to], RoomPc' = RoomPc,
           UNCHANGED <<seats, playerRoomMap, players, attached>>,
           <<from, to>> \in {<<"setRoom", "create">>, <<"list", "record">>,
                             <<"listSwitched", "record">>},
           room' = [room EXCEPT ![s] = ConnLoc[s]],
           ConnLoc' = [ConnLoc EXCEPT ![s] = x]
    PROVE  RegistryParts'
<1> USE ConstantsAssumption
    DEF RegistryInv, TypeOK, Places, Pcs, BusyPcs, LoginPcs, ExitPcs, SwitchPcs, Registering,
        Returning, Unmapping, Unrecorded, Same, Leaves, Unseats, Seat
<1>1. Places'
  OBVIOUS
<1>2. OneBusy'
  BY DEF OneBusy
<1>3. RoomWorksAlone'
  BY DEF RoomWorksAlone
<1>4. SeatsHeld'
  BY DEF SeatsHeld
<1>5. OneSeatPerPlayer'
  BY DEF OneSeatPerPlayer
<1>6. SeatsKnown'
  BY DEF SeatsKnown
<1>7. NotRecorded'
  BY DEF NotRecorded
<1>8. TakesSeat'
  BY DEF TakesSeat, SeatsHeld
<1>9. ComesBack'
  BY DEF ComesBack
<1>10. LeavesOnce'
  BY DEF LeavesOnce
<1>11. RecordsKept'
  BY DEF RecordsKept
<1> QED BY <1>1, <1>2, <1>3, <1>4, <1>5, <1>6, <1>7, <1>8, <1>9, <1>10, <1>11
       DEF RegistryParts

LEMMA RoomJoined ==
    ASSUME RegistryInv, NEW s \in Sessions,
           ConnPc[s] = "create", ConnPc' = [ConnPc EXCEPT ![s] = "record"], RoomPc' = RoomPc,
           UNCHANGED <<seats, playerRoomMap, players, room, attached>>,
           room[s] # Nil,
           ConnLoc' = [ConnLoc EXCEPT ![s] = Nil]
    PROVE  RegistryParts'
<1> USE ConstantsAssumption
    DEF RegistryInv, TypeOK, Places, Pcs, BusyPcs, LoginPcs, ExitPcs, SwitchPcs, Registering,
        Returning, Unmapping, Unrecorded, Same, Leaves, Unseats, Seat
<1>1. Places'
  OBVIOUS
<1>2. OneBusy'
  BY DEF OneBusy
<1>3. RoomWorksAlone'
  BY DEF RoomWorksAlone
<1>4. SeatsHeld'
  BY DEF SeatsHeld
<1>5. OneSeatPerPlayer'
  BY DEF OneSeatPerPlayer
<1>6. SeatsKnown'
  BY DEF SeatsKnown
<1>7. NotRecorded'
  BY DEF NotRecorded
<1>8. TakesSeat'
  BY DEF TakesSeat
<1>9. ComesBack'
  BY DEF ComesBack
<1>10. LeavesOnce'
  BY DEF LeavesOnce
<1>11. RecordsKept'
  BY DEF RecordsKept
<1> QED BY <1>1, <1>2, <1>3, <1>4, <1>5, <1>6, <1>7, <1>8, <1>9, <1>10, <1>11
       DEF RegistryParts

LEMMA FirstJoinRefused ==
    ASSUME RegistryInv, NEW s \in Sessions,
           ConnPc[s] = "create", ConnPc' = [ConnPc EXCEPT ![s] = "gone"], RoomPc' = RoomPc,
           UNCHANGED <<seats, playerRoomMap, players, room, attached>>,
           room[s] = Nil,
           ConnLoc' = [ConnLoc EXCEPT ![s] = Nil]
    PROVE  RegistryParts'
<1> USE ConstantsAssumption
    DEF RegistryInv, TypeOK, Places, Pcs, BusyPcs, LoginPcs, ExitPcs, SwitchPcs, Registering,
        Returning, Unmapping, Unrecorded, Same, Leaves, Unseats, Seat
<1>1. Places'
  OBVIOUS
<1>2. OneBusy'
  BY DEF OneBusy
<1>3. RoomWorksAlone'
  BY DEF RoomWorksAlone
<1>4. SeatsHeld'
  BY DEF SeatsHeld
<1>5. OneSeatPerPlayer'
  BY DEF OneSeatPerPlayer
<1>6. SeatsKnown'
  BY DEF SeatsKnown, SeatsHeld
<1>7. NotRecorded'
  BY DEF NotRecorded
<1>8. TakesSeat'
  BY DEF TakesSeat
<1>9. ComesBack'
  BY DEF ComesBack
<1>10. LeavesOnce'
  BY DEF LeavesOnce
<1>11. RecordsKept'
  BY DEF RecordsKept
<1> QED BY <1>1, <1>2, <1>3, <1>4, <1>5, <1>6, <1>7, <1>8, <1>9, <1>10, <1>11
       DEF RegistryParts

LEMMA PlayerRecorded ==
    ASSUME RegistryInv, NEW s \in Sessions,
           ConnPc[s] = "record", ConnPc' = [ConnPc EXCEPT ![s] = "playing"], RoomPc' = RoomPc,
           UNCHANGED <<seats, room, attached, ConnLoc>>,
           playerRoomMap' = [playerRoomMap EXCEPT ![IdentOf[s]] = room[s]],
           players' = [players EXCEPT ![IdentOf[s]] = s]
    PROVE  RegistryParts'
<1> USE ConstantsAssumption
    DEF RegistryInv, TypeOK, Places, Pcs, BusyPcs, LoginPcs, ExitPcs, SwitchPcs, Registering,
        Returning, Unmapping, Unrecorded, Same, Leaves, Unseats, Seat
<1>1. Places'
  OBVIOUS
<1>2. OneBusy'
  BY DEF OneBusy
<1>3. RoomWorksAlone'
  BY DEF RoomWorksAlone
<1>4. SeatsHeld'
  BY DEF SeatsHeld
<1>5. OneSeatPerPlayer'
  BY DEF OneSeatPerPlayer
<1>6. SeatsKnown'
  <2>1. room[s] \in Rooms /\ s \in seats[room[s]]
    BY DEF TakesSeat
  <2> SUFFICES ASSUME NEW o \in Sessions, NEW q \in Rooms, o \in seats[q],
                      ConnPc'[o] \notin Registering
               PROVE  /\ playerRoomMap'[IdentOf[o]] = q
                      /\ \/ players'[IdentOf[o]] = o
                         \/ \E u \in Sessions : /\ Same(u, o) /\ ConnPc'[u] = "reconnect"
                                                /\ players'[IdentOf[o]] = u
    BY DEF SeatsKnown
  <2>2. CASE Same(o, s)
    <3>1. o = s /\ q = room[s]
      BY <2>1, <2>2 DEF OneSeatPerPlayer
    <3> QED BY <3>1
  <2>3. CASE ~Same(o, s)
    BY <2>3 DEF SeatsKnown
  <2> QED BY <2>2, <2>3
<1>7. NotRecorded'
  BY DEF NotRecorded, OneBusy
<1>8. TakesSeat'
  BY DEF TakesSeat
<1>9. ComesBack'
  BY DEF ComesBack, OneBusy
<1>10. LeavesOnce'
  BY DEF LeavesOnce, NotRecorded
<1>11. RecordsKept'
  BY DEF RecordsKept, TakesSeat
<1> QED BY <1>1, <1>2, <1>3, <1>4, <1>5, <1>6, <1>7, <1>8, <1>9, <1>10, <1>11
       DEF RegistryParts

LEMMA Released ==
    ASSUME RegistryInv, NEW s \in Sessions,
           NEW r \in Rooms,
           s \in seats[r],
           ConnPc[s] \in {"playing", "gone", "panic"},
           RoomPc[s] = "idle", RoomPc' = [RoomPc EXCEPT ![s] = "exitRead"], ConnPc' = ConnPc,
           UNCHANGED <<playerRoomMap, players, room, attached, ConnLoc>>,
           seats' = [seats EXCEPT ![r] = seats[r] \ {s}]
    PROVE  RegistryParts'
<1> USE ConstantsAssumption
    DEF RegistryInv, TypeOK, Places, Pcs, BusyPcs, LoginPcs, ExitPcs, SwitchPcs, Registering,
        Returning, Unmapping, Unrecorded, Same, Leaves, Unseats, Seat
<1>1. Places'
  OBVIOUS
<1>2. OneBusy'
  BY DEF OneBusy
<1>3. RoomWorksAlone'
  BY DEF RoomWorksAlone, SeatsHeld
<1>4. SeatsHeld'
  BY DEF SeatsHeld
<1>5. OneSeatPerPlayer'
  BY DEF OneSeatPerPlayer
<1>6. SeatsKnown'
  BY DEF SeatsKnown
<1>7. NotRecorded'
  BY DEF NotRecorded
<1>8. TakesSeat'
  BY DEF TakesSeat
<1>9. ComesBack'
  BY DEF ComesBack
<1>10. LeavesOnce'
  <2>1. ConnPc[s] \notin Registering /\ r \in Rooms /\ s \in seats[r]
    BY DEF TakesSeat
  <2>2. playerRoomMap[IdentOf[s]] \in Rooms
    BY <2>1 DEF SeatsKnown
  <2>3. Unseats(IdentOf[s])'
    BY <2>1 DEF OneSeatPerPlayer
  <2>4. \A o \in Sessions : Same(o, s) => ~Leaves(o)
    BY <2>1 DEF LeavesOnce
  <2>5. \A o \in Sessions : Leaves(o)' => o = s \/ Leaves(o)
    OBVIOUS
  <2>6. \A o \in Sessions : Unseats(IdentOf[o]) => Unseats(IdentOf[o])'
    OBVIOUS
  <2> QED BY <2>2, <2>3, <2>4, <2>5, <2>6 DEF LeavesOnce
<1>11. RecordsKept'
  BY DEF RecordsKept
<1> QED BY <1>1, <1>2, <1>3, <1>4, <1>5, <1>6, <1>7, <1>8, <1>9, <1>10, <1>11
       DEF RegistryParts

LEMMA RoomQuiet ==
    ASSUME RegistryInv, NEW s \in Sessions,
           NEW from, NEW to,
           RoomPc[s] = from, RoomPc' = [RoomPc EXCEPT ![s] = to], ConnPc' = ConnPc,
           UNCHANGED <<seats, playerRoomMap, players, room, attached, ConnLoc>>,
           <<from, to>> \in {<<"exitRead", "exitDelete">>, <<"exitClose", "exitCheck">>,
                           <<"exitCheck", "exitDispose">>,
                           <<"exitCheck", "exitClear">>, <<"exitDispose", "exitClear">>}
    PROVE  RegistryParts'
<1> USE ConstantsAssumption
    DEF RegistryInv, TypeOK, Places, Pcs, BusyPcs, LoginPcs, ExitPcs, SwitchPcs, Registering,
        Returning, Unmapping, Unrecorded, Same, Leaves, Unseats, Seat
<1>1. Places'
  OBVIOUS
<1>2. OneBusy'
  BY DEF OneBusy
<1>3. RoomWorksAlone'
  BY DEF RoomWorksAlone
<1>4. SeatsHeld'
  BY DEF SeatsHeld
<1>5. OneSeatPerPlayer'
  BY DEF OneSeatPerPlayer
<1>6. SeatsKnown'
  BY DEF SeatsKnown
<1>7. NotRecorded'
  BY DEF NotRecorded
<1>8. TakesSeat'
  BY DEF TakesSeat
<1>9. ComesBack'
  BY DEF ComesBack
<1>10. LeavesOnce'
  BY DEF LeavesOnce
<1>11. RecordsKept'
  BY DEF RecordsKept
<1> QED BY <1>1, <1>2, <1>3, <1>4, <1>5, <1>6, <1>7, <1>8, <1>9, <1>10, <1>11
       DEF RegistryParts

LEMMA ConnReadsRoom ==
    ASSUME RegistryInv, NEW s \in Sessions,
           NEW x \in Rooms \cup {Nil},
           ConnPc[s] = "exitRead", ConnPc' = [ConnPc EXCEPT ![s] = "exitDelete"], RoomPc' = RoomPc,
           UNCHANGED <<seats, playerRoomMap, players, room, attached>>,
           ConnLoc' = [ConnLoc EXCEPT ![s] = x]
    PROVE  RegistryParts'
<1> USE ConstantsAssumption
    DEF RegistryInv, TypeOK, Places, Pcs, BusyPcs, LoginPcs, ExitPcs, SwitchPcs, Registering,
        Returning, Unmapping, Unrecorded, Same, Leaves, Unseats, Seat
<1>1. Places'
  OBVIOUS
<1>2. OneBusy'
  BY DEF OneBusy
<1>3. RoomWorksAlone'
  BY DEF RoomWorksAlone
<1>4. SeatsHeld'
  BY DEF SeatsHeld
<1>5. OneSeatPerPlayer'
  BY DEF OneSeatPerPlayer
<1>6. SeatsKnown'
  BY DEF SeatsKnown
<1>7. NotRecorded'
  BY DEF NotRecorded
<1>8. TakesSeat'
  BY DEF TakesSeat
<1>9. ComesBack'
  BY DEF ComesBack
<1>10. LeavesOnce'
  BY DEF LeavesOnce
<1>11. RecordsKept'
  BY DEF RecordsKept
<1> QED BY <1>1, <1>2, <1>3, <1>4, <1>5, <1>6, <1>7, <1>8, <1>9, <1>10, <1>11
       DEF RegistryParts

LEMMA PlayerDeleted ==
    ASSUME RegistryInv, NEW s \in Sessions,
           \/ /\ ConnPc[s] = "exitDelete" /\ ConnPc' = [ConnPc EXCEPT ![s] = "exitUnmap"]
              /\ RoomPc' = RoomPc
           \/ /\ RoomPc[s] = "exitDelete" /\ RoomPc' = [RoomPc EXCEPT ![s] = "exitUnmap"]
              /\ ConnPc' = ConnPc,
           UNCHANGED <<seats, playerRoomMap, room, attached, ConnLoc>>,
           players' = [players EXCEPT ![IdentOf[s]] = Nil]
    PROVE  RegistryParts'
<1> USE ConstantsAssumption
    DEF RegistryInv, TypeOK, Places, Pcs, BusyPcs, LoginPcs, ExitPcs, SwitchPcs, Registering,
        Returning, Unmapping, Unrecorded, Same, Leaves, Unseats, Seat
<1>1. Places'
  <2>1. CASE ConnPc' = ConnPc
    BY <2>1
  <2>2. CASE RoomPc' = RoomPc
    BY <2>2
  <2> QED BY <2>1, <2>2
<1>2. OneBusy'
  BY DEF OneBusy
<1>3. RoomWorksAlone'
  BY DEF RoomWorksAlone
<1>4. SeatsHeld'
  BY DEF SeatsHeld
<1>5. OneSeatPerPlayer'
  BY DEF OneSeatPerPlayer
<1>6. SeatsKnown'
  BY DEF SeatsKnown, LeavesOnce
<1>7. NotRecorded'
  BY DEF NotRecorded
<1>8. TakesSeat'
  BY DEF TakesSeat
<1>9. ComesBack'
  BY DEF ComesBack, LeavesOnce
<1>10. LeavesOnce'
  BY DEF LeavesOnce
<1>11. RecordsKept'
  BY DEF RecordsKept
<1> QED BY <1>1, <1>2, <1>3, <1>4, <1>5, <1>6, <1>7, <1>8, <1>9, <1>10, <1>11
       DEF RegistryParts

LEMMA PlayerUnmapped ==
    ASSUME RegistryInv, NEW s \in Sessions,
           \/ /\ ConnPc[s] = "exitUnmap" /\ ConnPc' = [ConnPc EXCEPT ![s] = "exitClose"]
              /\ RoomPc' = RoomPc
           \/ /\ RoomPc[s] = "exitUnmap" /\ RoomPc' = [RoomPc EXCEPT ![s] = "exitClose"]
              /\ ConnPc' = ConnPc,
           UNCHANGED <<seats, players, room, attached, ConnLoc>>,
           playerRoomMap' = [playerRoomMap EXCEPT ![IdentOf[s]] = Absent]
    PROVE  RegistryParts'
<1> USE ConstantsAssumption
    DEF RegistryInv, TypeOK, Places, Pcs, BusyPcs, LoginPcs, ExitPcs, SwitchPcs, Registering,
        Returning, Unmapping, Unrecorded, Same, Leaves, Unseats, Seat
<1>1. Places'
  OBVIOUS
<1>2. OneBusy'
  BY DEF OneBusy
<1>3. RoomWorksAlone'
  BY DEF RoomWorksAlone
<1>4. SeatsHeld'
  BY DEF SeatsHeld
<1>5. OneSeatPerPlayer'
  BY DEF OneSeatPerPlayer
<1>6. SeatsKnown'
  <2> SUFFICES ASSUME NEW o \in Sessions, NEW r \in Rooms, o \in seats[r],
                      ConnPc'[o] \notin Registering
               PROVE  /\ playerRoomMap'[IdentOf[o]] = r
                      /\ \/ players[IdentOf[o]] = o
                         \/ \E q \in Sessions : /\ Same(q, o) /\ ConnPc'[q] = "reconnect"
                                               /\ players[IdentOf[o]] = q
    BY DEF SeatsKnown
  <2>1. IdentOf[o] # IdentOf[s]
    BY DEF LeavesOnce
  <2>2. ConnPc[o] \notin Registering
    OBVIOUS
  <2>3. \A q \in Sessions : Same(q, o) => ConnPc'[q] = ConnPc[q]
    BY <2>1
  <2> QED BY <2>1, <2>2, <2>3 DEF SeatsKnown
<1>7. NotRecorded'
  BY DEF NotRecorded, LeavesOnce
<1>8. TakesSeat'
  BY DEF TakesSeat
<1>9. ComesBack'
  BY DEF ComesBack
<1>10. LeavesOnce'
  <2>1. Leaves(s) /\ ~Leaves(s)'
    BY DEF RoomWorksAlone
  <2>2. \A o \in Sessions : Leaves(o)' => Leaves(o) /\ o # s
    BY <2>1
  <2>3. \A o \in Sessions : Same(o, s) /\ Leaves(o) => o = s
    BY <2>1 DEF LeavesOnce
  <2> QED BY <2>2, <2>3 DEF LeavesOnce
<1>11. RecordsKept'
  BY DEF RecordsKept
<1> QED BY <1>1, <1>2, <1>3, <1>4, <1>5, <1>6, <1>7, <1>8, <1>9, <1>10, <1>11
       DEF RegistryParts

LEMMA ConnDetached ==
    ASSUME RegistryInv, NEW s \in Sessions,
           NEW from, NEW to,
           ConnPc[s] = from, ConnPc' = [ConnPc EXCEPT ![s] = to], RoomPc' = RoomPc,
           UNCHANGED <<seats, playerRoomMap, players>>,
           <<from, to>> \in {<<"exitCheck", "panic">>, <<"exitClear", "switchAttach">>},
           room' = [room EXCEPT ![s] = Nil],
           attached' = [attached EXCEPT ![s] = FALSE],
           ConnLoc' = [ConnLoc EXCEPT ![s] = Nil]
    PROVE  RegistryParts'
<1> USE ConstantsAssumption
    DEF RegistryInv, TypeOK, Places, Pcs, BusyPcs, LoginPcs, ExitPcs, SwitchPcs, Registering,
        Returning, Unmapping, Unrecorded, Same, Leaves, Unseats, Seat
<1>1. Places'
  OBVIOUS
<1>2. OneBusy'
  BY DEF OneBusy
<1>3. RoomWorksAlone'
  BY DEF RoomWorksAlone
<1>4. SeatsHeld'
  BY DEF SeatsHeld
<1>5. OneSeatPerPlayer'
  BY DEF OneSeatPerPlayer
<1>6. SeatsKnown'
  BY DEF SeatsKnown
<1>7. NotRecorded'
  BY DEF NotRecorded
<1>8. TakesSeat'
  BY DEF TakesSeat
<1>9. ComesBack'
  BY DEF ComesBack
<1>10. LeavesOnce'
  BY DEF LeavesOnce
<1>11. RecordsKept'
  BY DEF RecordsKept
<1> QED BY <1>1, <1>2, <1>3, <1>4, <1>5, <1>6, <1>7, <1>8, <1>9, <1>10, <1>11
       DEF RegistryParts

LEMMA RoomDetached ==
    ASSUME RegistryInv, NEW s \in Sessions,
           NEW from, NEW to,
           RoomPc[s] = from, RoomPc' = [RoomPc EXCEPT ![s] = to], ConnPc' = ConnPc,
           UNCHANGED <<seats, playerRoomMap, players, ConnLoc>>,
           <<from, to>> \in {<<"exitCheck", "panic">>, <<"exitClear", "idle">>},
           room' = [room EXCEPT ![s] = Nil],
           attached' = [attached EXCEPT ![s] = FALSE]
    PROVE  RegistryParts'
<1> USE ConstantsAssumption
    DEF RegistryInv, TypeOK, Places, Pcs, BusyPcs, LoginPcs, ExitPcs, SwitchPcs, Registering,
        Returning, Unmapping, Unrecorded, Same, Leaves, Unseats, Seat
<1>1. Places'
  OBVIOUS
<1>2. OneBusy'
  BY DEF OneBusy
<1>3. RoomWorksAlone'
  BY DEF RoomWorksAlone
<1>4. SeatsHeld'
  BY DEF SeatsHeld
<1>5. OneSeatPerPlayer'
  BY DEF OneSeatPerPlayer
<1>6. SeatsKnown'
  BY DEF SeatsKnown
<1>7. NotRecorded'
  BY DEF NotRecorded
<1>8. TakesSeat'
  BY DEF TakesSeat, RoomWorksAlone
<1>9. ComesBack'
  BY DEF ComesBack, RoomWorksAlone
<1>10. LeavesOnce'
  BY DEF LeavesOnce
<1>11. RecordsKept'
  BY DEF RecordsKept
<1> QED BY <1>1, <1>2, <1>3, <1>4, <1>5, <1>6, <1>7, <1>8, <1>9, <1>10, <1>11
       DEF RegistryParts

LEMMA SwitchStarts ==
    ASSUME RegistryInv, NEW s \in Sessions,
           NEW r \in Rooms,
           s \in seats[r],
           RoomPc[s] = "idle",
           ConnPc[s] = "playing", ConnPc' = [ConnPc EXCEPT ![s] = "switchLeave"], RoomPc' = RoomPc,
           UNCHANGED <<seats, playerRoomMap, players, room, attached, ConnLoc>>,
           \A o \in Sessions \ {s} : Same(o, s) => ConnPc[o] \notin BusyPcs
    PROVE  RegistryParts'
<1> USE ConstantsAssumption
    DEF RegistryInv, TypeOK, Places, Pcs, BusyPcs, LoginPcs, ExitPcs, SwitchPcs, Registering,
        Returning, Unmapping, Unrecorded, Same, Leaves, Unseats, Seat
<1>1. Places'
  OBVIOUS
<1>2. OneBusy'
  BY DEF OneBusy
<1>3. RoomWorksAlone'
  BY DEF RoomWorksAlone
<1>4. SeatsHeld'
  BY DEF SeatsHeld
<1>5. OneSeatPerPlayer'
  BY DEF OneSeatPerPlayer
<1>6. SeatsKnown'
  BY DEF SeatsKnown
<1>7. NotRecorded'
  BY DEF NotRecorded
<1>8. TakesSeat'
  BY DEF TakesSeat, SeatsHeld
<1>9. ComesBack'
  BY DEF ComesBack
<1>10. LeavesOnce'
  BY DEF LeavesOnce
<1>11. RecordsKept'
  BY DEF RecordsKept
<1> QED BY <1>1, <1>2, <1>3, <1>4, <1>5, <1>6, <1>7, <1>8, <1>9, <1>10, <1>11
       DEF RegistryParts

LEMMA SeatLeft ==
    ASSUME RegistryInv, NEW s \in Sessions,
           ConnPc[s] = "switchLeave", ConnPc' = [ConnPc EXCEPT ![s] = "exitRead"], RoomPc' = RoomPc,
           UNCHANGED <<playerRoomMap, players, room, attached, ConnLoc>>,
           seats' = [seats EXCEPT ![room[s]] = seats[room[s]] \ {s}]
    PROVE  RegistryParts'
<1> USE ConstantsAssumption
    DEF RegistryInv, TypeOK, Places, Pcs, BusyPcs, LoginPcs, ExitPcs, SwitchPcs, Registering,
        Returning, Unmapping, Unrecorded, Same, Leaves, Unseats, Seat
<1>1. Places'
  OBVIOUS
<1>2. OneBusy'
  BY DEF OneBusy
<1>3. RoomWorksAlone'
  BY DEF RoomWorksAlone
<1>4. SeatsHeld'
  BY DEF SeatsHeld
<1>5. OneSeatPerPlayer'
  BY DEF OneSeatPerPlayer
<1>6. SeatsKnown'
  BY DEF SeatsKnown
<1>7. NotRecorded'
  BY DEF NotRecorded
<1>8. TakesSeat'
  BY DEF TakesSeat
<1>9. ComesBack'
  BY DEF ComesBack
<1>10. LeavesOnce'
  <2>1. ConnPc[s] \notin Registering /\ room[s] \in Rooms /\ s \in seats[room[s]]
    BY DEF TakesSeat
  <2>2. playerRoomMap[IdentOf[s]] \in Rooms
    BY <2>1 DEF SeatsKnown
  <2>3. Unseats(IdentOf[s])'
    BY <2>1 DEF OneSeatPerPlayer
  <2>4. \A o \in Sessions : Same(o, s) => ~Leaves(o)
    BY <2>1 DEF LeavesOnce
  <2>5. \A o \in Sessions : Leaves(o)' => o = s \/ Leaves(o)
    OBVIOUS
  <2>6. \A o \in Sessions : Unseats(IdentOf[o]) => Unseats(IdentOf[o])'
    OBVIOUS
  <2> QED BY <2>2, <2>3, <2>4, <2>5, <2>6 DEF LeavesOnce
<1>11. RecordsKept'
  BY DEF RecordsKept
<1> QED BY <1>1, <1>2, <1>3, <1>4, <1>5, <1>6, <1>7, <1>8, <1>9, <1>10, <1>11
       DEF RegistryParts

LEMMA ConnAttached ==
    ASSUME RegistryInv, NEW s \in Sessions,
           ConnPc[s] = "switchAttach", ConnPc' = [ConnPc EXCEPT ![s] = "switchCreate"],
           RoomPc' = RoomPc,
           UNCHANGED <<seats, playerRoomMap, players, room, ConnLoc>>,
           attached' = [attached EXCEPT ![s] = TRUE]
    PROVE  RegistryParts'
<1> USE ConstantsAssumption
    DEF RegistryInv, TypeOK, Places, Pcs, BusyPcs, LoginPcs, ExitPcs, SwitchPcs, Registering,
        Returning, Unmapping, Unrecorded, Same, Leaves, Unseats, Seat
<1>1. Places'
  OBVIOUS
<1>2. OneBusy'
  BY DEF OneBusy
<1>3. RoomWorksAlone'
  BY DEF RoomWorksAlone
<1>4. SeatsHeld'
  BY DEF SeatsHeld
<1>5. OneSeatPerPlayer'
  BY DEF OneSeatPerPlayer
<1>6. SeatsKnown'
  BY DEF SeatsKnown
<1>7. NotRecorded'
  BY DEF NotRecorded
<1>8. TakesSeat'
  BY DEF TakesSeat
<1>9. ComesBack'
  BY DEF ComesBack
<1>10. LeavesOnce'
  BY DEF LeavesOnce
<1>11. RecordsKept'
  BY DEF RecordsKept
<1> QED BY <1>1, <1>2, <1>3, <1>4, <1>5, <1>6, <1>7, <1>8, <1>9, <1>10, <1>11
       DEF RegistryParts

-----------------------------------------------------------------------------
(* Every step of the manager is one of these.                               *)

LEMMA RegistryInitInv == Init => RegistryParts
<1> SUFFICES ASSUME Init PROVE RegistryParts
  OBVIOUS
<1>1. /\ ConnPc = [s \in Sessions |-> "new"] /\ RoomPc = [s \in Sessions |-> "idle"]
      /\ ConnLoc = [s \in Sessions |-> Nil]
  BY TwoThreads DEF Init, ConnPc, RoomPc, ConnLoc
<1>2. \A i \in Idents : playerRoomMap[i] = Absent
  BY DEF Init
<1>3. \A r \in Rooms : seats[r] = {}
  BY DEF Init
<1> USE <1>1, <1>2, <1>3
    DEF Pcs, BusyPcs, LoginPcs, ExitPcs, SwitchPcs, Registering, Returning, Unmapping,
        Unrecorded, Leaves
<1>4. Places /\ OneBusy /\ RoomWorksAlone /\ SeatsHeld /\ OneSeatPerPlayer
  BY DEF Places, OneBusy, RoomWorksAlone, SeatsHeld, OneSeatPerPlayer
<1>5. SeatsKnown /\ NotRecorded /\ TakesSeat /\ ComesBack /\ LeavesOnce /\ RecordsKept
  BY DEF SeatsKnown, NotRecorded, TakesSeat, ComesBack, LeavesOnce, RecordsKept
<1> QED BY <1>4, <1>5 DEF RegistryParts

LEMMA LoginStep ==
    ASSUME RegistryInv, SerialPlayers, NEW s \in Sessions, NEW t \in Threads, t = ConnOf(s),
           StartLogin(t) \/ TryReConnectGame(t)
    PROVE  RegistryParts'
<1> USE ConstantsAssumption, TwoThreads DEF maps, player, world, locals
<1>t. TypeOK /\ Places /\ t.player = s /\ t = ConnOf(s)
  BY DEF RegistryInv
<1>1. CASE StartLogin(t)
  <2>1. \A o \in Sessions \ {s} : Same(o, s) => ConnPc[o] \notin BusyPcs
    BY <1>1, <1>t DEF StartLogin, PlayerFree, Same, BusyPcs, ConnPc
  <2>2. /\ ConnPc[s] = "new" /\ ConnPc' = [ConnPc EXCEPT ![s] = "lookup"] /\ RoomPc' = RoomPc
        /\ UNCHANGED ConnLoc
    BY <1>1, <1>t, ConnGoes DEF StartLogin, ConnLoc
  <2> QED BY <1>1, <2>1, <2>2, LoginStarts DEF StartLogin
<1>2. CASE LookupRoom(t)
  <2>1. PICK to : /\ ConnPc[s] = "lookup" /\ ConnPc' = [ConnPc EXCEPT ![s] = to]
                  /\ RoomPc' = RoomPc
                  /\ to = IF playerRoomMap[IdentOf[s]] = Absent THEN "join" ELSE "checkOld"
    BY <1>2, <1>t, ConnGoes DEF LookupRoom
  <2>2. PICK r : /\ room' = [room EXCEPT ![s] = r] /\ SetsLoc(t, r)
                 /\ r = IF playerRoomMap[IdentOf[s]] = Absent THEN Nil
                        ELSE playerRoomMap[IdentOf[s]]
    BY <1>2, <1>t DEF LookupRoom, RoomFound, SetsLoc
  <2>4. ConnLoc' = [ConnLoc EXCEPT ![s] = r]
    BY <1>t, <2>2, ConnLocSet
  <2>3. UNCHANGED <<seats, playerRoomMap, players, attached>>
    BY <1>2 DEF LookupRoom
  <2> QED BY <2>1, <2>2, <2>3, <2>4, LookupFinds, LookupFails
<1>3. CASE CheckOldConn(t) \/ CloseOldConn(t)
  <2>1. PICK from, to : /\ Go(t, from, to)
                        /\ <<from, to>> \in {<<"checkOld", "closeOld">>, <<"checkOld", "store">>,
                                             <<"closeOld", "store">>, <<"closeOld", "panic">>}
    BY <1>3 DEF CheckOldConn, CloseOldConn
  <2>2. /\ ConnPc[s] = from /\ ConnPc' = [ConnPc EXCEPT ![s] = to] /\ RoomPc' = RoomPc
        /\ UNCHANGED <<seats, playerRoomMap, players, room, attached, ConnLoc>>
    BY <1>3, <1>t, <2>1, ConnGoes DEF CheckOldConn, CloseOldConn, ConnLoc
  <2> QED BY <2>1, <2>2, ConnQuiet
<1>4. CASE StorePlayer(t)
  <2>1. /\ ConnPc[s] = "store" /\ ConnPc' = [ConnPc EXCEPT ![s] = "reconnect"]
        /\ RoomPc' = RoomPc /\ UNCHANGED ConnLoc
    BY <1>4, <1>t, ConnGoes DEF StorePlayer, ConnLoc
  <2> QED BY <1>4, <1>t, <2>1, PlayerStored DEF StorePlayer, Register
<1>5. CASE ReConnectRoom(t)
  <2>1. loc[t] = ConnLoc[s] /\ SetsLoc(t, Nil)
    BY <1>5, <1>t DEF ReConnectRoom, ConnLoc, SetsLoc
  <2>4. ConnLoc' = [ConnLoc EXCEPT ![s] = Nil]
    BY <1>t, <2>1, ConnLocSet
  <2>2. CASE ~(loc[t] # Nil /\ \E o \in seats[loc[t]] : IdentOf[o] = IdentOf[t.player])
    <3>1. PICK to \in {"gone", "panic"} : Go(t, "reconnect", to)
      BY <1>5, <2>2 DEF ReConnectRoom
    <3>2. UNCHANGED <<seats, playerRoomMap, players, room, attached>>
      BY <1>5, <2>2 DEF ReConnectRoom
    <3>3. ConnPc[s] = "reconnect" /\ ConnPc' = [ConnPc EXCEPT ![s] = to] /\ RoomPc' = RoomPc
      BY <1>t, <3>1, ConnGoes
    <3>4. ConnLoc[s] \in Rooms
      BY <3>3 DEF RegistryInv, ComesBack, Returning
    <3>5. \A o \in seats[ConnLoc[s]] : ~Same(o, s)
      BY <1>t, <2>1, <2>2, <3>4 DEF Same
    <3> QED BY <2>1, <2>4, <3>2, <3>3, <3>5, ReturnRefused
  <2>3. CASE loc[t] # Nil /\ \E o \in seats[loc[t]] : IdentOf[o] = IdentOf[t.player]
    <3>1. PICK r \in Rooms : r = loc[t]
      BY <1>t, <2>3 DEF TypeOK
    <3>2. PICK o \in seats[r] : Same(o, s)
      BY <1>t, <2>3, <3>1 DEF Same
    <3>3. /\ Go(t, "reconnect", "playing")
          /\ seats' = [seats EXCEPT ![r] = Seat(seats[r], s)]
          /\ UNCHANGED <<playerRoomMap, players, room, attached>>
      BY <1>5, <1>t, <2>3, <3>1 DEF ReConnectRoom
    <3>4. ConnPc[s] = "reconnect" /\ ConnPc' = [ConnPc EXCEPT ![s] = "playing"] /\ RoomPc' = RoomPc
      BY <1>t, <3>3, ConnGoes
    <3> QED BY <2>1, <2>4, <3>1, <3>2, <3>3, <3>4, SeatTakenOver
  <2> QED BY <2>2, <2>3
<1> QED BY <1>1, <1>2, <1>3, <1>4, <1>5 DEF TryReConnectGame

LEMMA JoinStep ==
    ASSUME RegistryInv, NEW s \in Sessions, NEW t \in Threads, t = ConnOf(s), OnJoin(t)
    PROVE  RegistryParts'
<1> USE ConstantsAssumption, TwoThreads DEF maps, player, world, locals
<1>t. TypeOK /\ Places /\ t.player = s /\ t = ConnOf(s)
  BY DEF RegistryInv
<1>1. CASE JoinListedRoom(t)
  <2>1. PICK r \in Rooms : /\ Go(t, "join", "setRoom")
                          /\ seats' = [seats EXCEPT ![r] = Seat(seats[r], s)]
                          /\ loc' = [loc EXCEPT ![t] = r]
                          /\ attached' = [attached EXCEPT ![s] = TRUE]
                          /\ UNCHANGED <<playerRoomMap, players, room>>
    <3>0. PICK ty \in RoomTypes : \E r \in Offered(ty) :
             /\ LockJoin(t, ty)
             /\ Go(t, "join", "setRoom")
             /\ seats' = [seats EXCEPT ![r] = Seat(@, t.player)]
             /\ loc' = [loc EXCEPT ![t] = r]
             /\ UNCHANGED <<maps, room, conn, roomState, old, switches>>
      BY <1>1 DEF JoinListedRoom
    <3>1. PICK r \in Offered(ty) :
             /\ LockJoin(t, ty)
             /\ Go(t, "join", "setRoom")
             /\ seats' = [seats EXCEPT ![r] = Seat(@, t.player)]
             /\ loc' = [loc EXCEPT ![t] = r]
             /\ UNCHANGED <<maps, room, conn, roomState, old, switches>>
      BY <3>0
    <3>2. r \in Rooms
      BY <1>t, <3>1 DEF Offered, TypeOK
    <3>3. seats' = [seats EXCEPT ![r] = Seat(seats[r], s)]
      BY <1>t, <3>1, <3>2
    <3>4. attached' = [attached EXCEPT ![s] = TRUE]
      BY <1>t, <3>1 DEF LockJoin
    <3> QED BY <3>1, <3>2, <3>3, <3>4
  <2>2. /\ ConnPc[s] = "join" /\ ConnPc' = [ConnPc EXCEPT ![s] = "setRoom"] /\ RoomPc' = RoomPc
        /\ SetsLoc(t, r)
    BY <1>t, <2>1, ConnGoes DEF SetsLoc
  <2>3. ConnLoc' = [ConnLoc EXCEPT ![s] = r]
    BY <1>t, <2>2, ConnLocSet
  <2> QED BY <2>1, <2>2, <2>3, SeatTaken
<1>2. CASE FindNoRoom(t)
  <2>1. /\ ConnPc[s] = "join" /\ ConnPc' = [ConnPc EXCEPT ![s] = "create"] /\ RoomPc' = RoomPc
        /\ UNCHANGED ConnLoc
    BY <1>2, <1>t, ConnGoes DEF FindNoRoom, ConnLoc
  <2>2. /\ attached' = [attached EXCEPT ![s] = TRUE]
        /\ UNCHANGED <<seats, playerRoomMap, players, room>>
    BY <1>2, <1>t DEF FindNoRoom, LockJoin
  <2> QED BY <2>1, <2>2, NoRoomFound
<1>3. CASE SetJoinedRoom(t)
  <2>1. /\ ConnPc[s] = "setRoom" /\ ConnPc' = [ConnPc EXCEPT ![s] = "create"] /\ RoomPc' = RoomPc
        /\ UNCHANGED ConnLoc /\ loc[t] = ConnLoc[s]
    BY <1>3, <1>t, ConnGoes DEF SetJoinedRoom, ConnLoc
  <2>2. ConnLoc' = [ConnLoc EXCEPT ![s] = ConnLoc[s]]
    BY <1>t, <2>1 DEF Places
  <2>3. /\ room' = [room EXCEPT ![s] = ConnLoc[s]]
        /\ UNCHANGED <<seats, playerRoomMap, players, attached>>
    BY <1>3, <1>t, <2>1 DEF SetJoinedRoom, Taken
  <2> QED BY <2>1, <2>2, <2>3, RoomSet
<1>4. CASE SkipCreate(t)
  <2>1. /\ ConnPc[s] = "create" /\ ConnPc' = [ConnPc EXCEPT ![s] = "record"] /\ RoomPc' = RoomPc
        /\ SetsLoc(t, Nil)
    BY <1>4, <1>t, ConnGoes DEF SkipCreate, SetsLoc
  <2>3. ConnLoc' = [ConnLoc EXCEPT ![s] = Nil]
    BY <1>t, <2>1, ConnLocSet
  <2>2. room[s] # Nil /\ UNCHANGED <<seats, playerRoomMap, players, room, attached>>
    BY <1>4, <1>t DEF SkipCreate
  <2> QED BY <2>1, <2>2, <2>3, RoomJoined
<1>5. CASE CreateRoom(t)
  <2>1. PICK r \in Rooms : /\ room[s] = Nil /\ Go(t, "create", "list")
                          /\ seats' = [seats EXCEPT ![r] = Seat(seats[r], s)]
                          /\ loc' = [loc EXCEPT ![t] = r]
                          /\ UNCHANGED <<playerRoomMap, players, room, attached>>
    BY <1>5, <1>t DEF CreateRoom
  <2>2. /\ ConnPc[s] = "create" /\ ConnPc' = [ConnPc EXCEPT ![s] = "list"] /\ RoomPc' = RoomPc
        /\ SetsLoc(t, r)
    BY <1>t, <2>1, ConnGoes DEF SetsLoc
  <2>3. ConnLoc' = [ConnLoc EXCEPT ![s] = r]
    BY <1>t, <2>2, ConnLocSet
  <2> QED BY <2>1, <2>2, <2>3, SeatTaken
<1>6. CASE CreateRefused(t)
  <2>1. /\ ConnPc[s] = "create" /\ ConnPc' = [ConnPc EXCEPT ![s] = "gone"] /\ RoomPc' = RoomPc
        /\ SetsLoc(t, Nil)
    BY <1>6, <1>t, ConnGoes DEF CreateRefused, SetsLoc
  <2>3. ConnLoc' = [ConnLoc EXCEPT ![s] = Nil]
    BY <1>t, <2>1, ConnLocSet
  <2>2. room[s] = Nil /\ UNCHANGED <<seats, playerRoomMap, players, room, attached>>
    BY <1>6, <1>t DEF CreateRefused
  <2> QED BY <2>1, <2>2, <2>3, FirstJoinRefused
<1>7. CASE ListRoom(t)
  <2>1. PICK from \in {"list", "listSwitched"} : Go(t, from, "record")
    BY <1>7 DEF ListRoom
  <2>2. /\ ConnPc[s] = from /\ ConnPc' = [ConnPc EXCEPT ![s] = "record"] /\ RoomPc' = RoomPc
        /\ SetsLoc(t, Nil) /\ loc[t] = ConnLoc[s]
    BY <1>7, <1>t, <2>1, ConnGoes DEF ListRoom, ConnLoc, SetsLoc
  <2>4. ConnLoc' = [ConnLoc EXCEPT ![s] = Nil]
    BY <1>t, <2>2, ConnLocSet
  <2>3. /\ room' = [room EXCEPT ![s] = ConnLoc[s]]
        /\ UNCHANGED <<seats, playerRoomMap, players, attached>>
    BY <1>7, <1>t, <2>2 DEF ListRoom, Taken
  <2> QED BY <2>1, <2>2, <2>3, <2>4, RoomSet
<1>8. CASE RecordPlayer(t)
  <2>1. /\ ConnPc[s] = "record" /\ ConnPc' = [ConnPc EXCEPT ![s] = "playing"] /\ RoomPc' = RoomPc
        /\ UNCHANGED ConnLoc
    BY <1>8, <1>t, ConnGoes DEF RecordPlayer, ConnLoc
  <2> QED BY <1>8, <1>t, <2>1, PlayerRecorded DEF RecordPlayer, Register
<1> QED BY <1>1, <1>2, <1>3, <1>4, <1>5, <1>6, <1>7, <1>8 DEF OnJoin

\* A step of an ExitRoom, by either goroutine.
Moves(s, t, from, to) ==
    \/ t = ConnOf(s) /\ ConnPc[s] = from /\ ConnPc' = [ConnPc EXCEPT ![s] = to] /\ RoomPc' = RoomPc
    \/ t = RoomOf(s) /\ RoomPc[s] = from /\ RoomPc' = [RoomPc EXCEPT ![s] = to] /\ ConnPc' = ConnPc

LEMMA Goes ==
    ASSUME TypeOK, NEW s \in Sessions, NEW t, t \in {ConnOf(s), RoomOf(s)}, NEW from, NEW to,
           Go(t, from, to)
    PROVE  Moves(s, t, from, to)
  BY ConnGoes, RoomGoes DEF Moves

LEMMA ExitStep ==
    ASSUME RegistryInv, NEW s \in Sessions, NEW t \in Threads, t \in {ConnOf(s), RoomOf(s)},
           ExitRoom(t)
    PROVE  RegistryParts'
<1> USE ConstantsAssumption, TwoThreads DEF maps, player, world, locals
<1>t. TypeOK /\ Places /\ t.player = s
  BY DEF RegistryInv
<1>1. CASE ReadRoom(t)
  <2>1. CASE t = ConnOf(s)
    <3>1. /\ Go(t, "exitRead", "exitDelete") /\ SetsLoc(t, room[s])
          /\ UNCHANGED <<seats, playerRoomMap, players, room, attached>>
      BY <1>1, <1>t, <2>1 DEF ReadRoom, SetsLoc
    <3>2. /\ ConnPc[s] = "exitRead" /\ ConnPc' = [ConnPc EXCEPT ![s] = "exitDelete"]
          /\ RoomPc' = RoomPc
      BY <1>t, <2>1, <3>1, ConnGoes
    <3>3. ConnLoc' = [ConnLoc EXCEPT ![s] = room[s]] /\ room[s] \in Rooms \cup {Nil}
      BY <1>t, <2>1, <3>1, ConnLocSet DEF TypeOK
    <3> QED BY <3>1, <3>2, <3>3, ConnReadsRoom
  <2>2. CASE t = RoomOf(s)
    <3>1. PICK to : Go(t, "exitRead", to) /\ (attached[s] => to = "exitDelete")
      BY <1>1, <1>t, <2>2 DEF ReadRoom
    <3>2. RoomPc[s] = "exitRead" /\ RoomPc' = [RoomPc EXCEPT ![s] = to] /\ ConnPc' = ConnPc
      BY <1>t, <2>2, <3>1, RoomGoes
    <3>3. to = "exitDelete"
      BY <3>1, <3>2 DEF RegistryInv, RoomWorksAlone
    <3>4. PICK x : SetsLoc(t, x)
      BY <1>1 DEF ReadRoom, SetsLoc
    <3>5. UNCHANGED <<seats, playerRoomMap, players, room, attached>> /\ UNCHANGED ConnLoc
      BY <1>1, <1>t, <2>2, <3>4, ConnLocKept DEF ReadRoom
    <3> QED BY <3>2, <3>3, <3>5, RoomQuiet
  <2> QED BY <2>1, <2>2
<1>2. CASE DeletePlayer(t)
  <2>1. Moves(s, t, "exitDelete", "exitUnmap") /\ UNCHANGED ConnLoc
    BY <1>2, <1>t, Goes DEF DeletePlayer, ConnLoc
  <2>2. /\ players' = [players EXCEPT ![IdentOf[s]] = Nil]
        /\ UNCHANGED <<seats, playerRoomMap, room, attached>>
    BY <1>2, <1>t DEF DeletePlayer
  <2> QED BY <2>1, <2>2, PlayerDeleted DEF Moves
<1>3. CASE UnmapPlayer(t)
  <2>1. Moves(s, t, "exitUnmap", "exitClose") /\ UNCHANGED ConnLoc
    BY <1>3, <1>t, Goes DEF UnmapPlayer, ConnLoc
  <2>2. /\ playerRoomMap' = [playerRoomMap EXCEPT ![IdentOf[s]] = Absent]
        /\ UNCHANGED <<seats, players, room, attached>>
    BY <1>3, <1>t DEF UnmapPlayer, Unmapped
  <2> QED BY <2>1, <2>2, PlayerUnmapped DEF Moves
<1>4. CASE CloseConn(t) \/ FindEmpty(t) \/ FindOccupied(t) \/ DisposeEmpty(t) \/ DisposeSingle(t)
  <2>1. PICK from, to : /\ Go(t, from, to)
                        /\ <<from, to>> \in {<<"exitClose", "exitCheck">>,
                                <<"exitCheck", "exitDispose">>, <<"exitCheck", "exitClear">>,
                                <<"exitDispose", "exitClear">>}
    BY <1>4 DEF CloseConn, FindEmpty, FindOccupied, DisposeEmpty, DisposeSingle
  <2>2. UNCHANGED <<seats, playerRoomMap, players, room, attached, ConnLoc>>
    BY <1>4 DEF CloseConn, FindEmpty, FindOccupied, DisposeEmpty, DisposeSingle, ConnLoc
  <2>3. Moves(s, t, from, to)
    BY <1>t, <2>1, Goes
  <2> QED BY <2>1, <2>2, <2>3, ConnQuiet, RoomQuiet DEF Moves
<1>5. CASE ExitNilRoom(t) \/ FinishExit(t)
  <2>1. /\ room' = [room EXCEPT ![s] = Nil] /\ attached' = [attached EXCEPT ![s] = FALSE]
        /\ SetsLoc(t, Nil) /\ UNCHANGED <<seats, playerRoomMap, players>>
    BY <1>5, <1>t DEF ExitNilRoom, FinishExit, Detach, SetsLoc
  <2>2. CASE t = ConnOf(s)
    <3>1. PICK from, to : /\ Go(t, from, to)
                          /\ <<from, to>> \in {<<"exitCheck", "panic">>,
                                               <<"exitClear", "switchAttach">>}
      BY <1>5, <2>2 DEF ExitNilRoom, FinishExit
    <3>2. ConnPc[s] = from /\ ConnPc' = [ConnPc EXCEPT ![s] = to] /\ RoomPc' = RoomPc
      BY <1>t, <2>2, <3>1, ConnGoes
    <3>3. ConnLoc' = [ConnLoc EXCEPT ![s] = Nil]
      BY <1>t, <2>1, <2>2, ConnLocSet
    <3> QED BY <2>1, <3>1, <3>2, <3>3, ConnDetached
  <2>3. CASE t = RoomOf(s)
    <3>1. PICK from, to : /\ Go(t, from, to)
                          /\ <<from, to>> \in {<<"exitCheck", "panic">>, <<"exitClear", "idle">>}
      BY <1>5, <2>3 DEF ExitNilRoom, FinishExit
    <3>2. RoomPc[s] = from /\ RoomPc' = [RoomPc EXCEPT ![s] = to] /\ ConnPc' = ConnPc
      BY <1>t, <2>3, <3>1, RoomGoes
    <3>3. UNCHANGED ConnLoc
      BY <1>t, <2>1, <2>3, ConnLocKept
    <3> QED BY <2>1, <3>1, <3>2, <3>3, RoomDetached
  <2> QED BY <2>2, <2>3
<1> QED BY <1>1, <1>2, <1>3, <1>4, <1>5 DEF ExitRoom

LEMMA SwitchStep ==
    ASSUME RegistryInv, SerialPlayers, SerialRooms, NEW s \in Sessions, NEW t \in Threads,
           t = ConnOf(s), StartSwitch(t) \/ SwitchRoom(t)
    PROVE  RegistryParts'
<1> USE ConstantsAssumption, TwoThreads DEF maps, player, world, locals
<1>t. TypeOK /\ Places /\ t.player = s
  BY DEF RegistryInv
<1>1. CASE StartSwitch(t)
  <2>1. /\ \A o \in Sessions \ {s} : Same(o, s) => ConnPc[o] \notin BusyPcs
        /\ RoomPc[s] = "idle"
    BY <1>1, <1>t DEF StartSwitch, PlayerFree, MaySwitch, Same, BusyPcs, ConnPc, RoomPc
  <2>2. PICK r \in Rooms : s \in seats[r]
    BY <1>1, <1>t DEF StartSwitch
  <2>3. /\ ConnPc[s] = "playing" /\ ConnPc' = [ConnPc EXCEPT ![s] = "switchLeave"]
        /\ RoomPc' = RoomPc
    BY <1>1, <1>t, ConnGoes DEF StartSwitch
  <2>4. UNCHANGED <<seats, playerRoomMap, players, room, attached, ConnLoc>>
    BY <1>1 DEF StartSwitch, ConnLoc
  <2> QED BY <2>1, <2>2, <2>3, <2>4, SwitchStarts
<1>2. CASE LeaveOldRoom(t)
  <2>1. /\ ConnPc[s] = "switchLeave" /\ ConnPc' = [ConnPc EXCEPT ![s] = "exitRead"]
        /\ RoomPc' = RoomPc
    BY <1>2, <1>t, ConnGoes DEF LeaveOldRoom
  <2>2. room[s] \in Rooms
    BY <2>1 DEF RegistryInv, TakesSeat
  <2>3. /\ seats' = [seats EXCEPT ![room[s]] = seats[room[s]] \ {s}]
        /\ UNCHANGED <<playerRoomMap, players, room, attached, ConnLoc>>
    BY <1>2, <1>t, <2>2 DEF LeaveOldRoom, Unseated, ConnLoc
  <2> QED BY <2>1, <2>3, SeatLeft
<1>3. CASE SwitchAttach(t)
  <2>1. /\ ConnPc[s] = "switchAttach" /\ ConnPc' = [ConnPc EXCEPT ![s] = "switchCreate"]
        /\ RoomPc' = RoomPc
    BY <1>3, <1>t, ConnGoes DEF SwitchAttach
  <2>2. /\ attached' = [attached EXCEPT ![s] = TRUE]
        /\ UNCHANGED <<seats, playerRoomMap, players, room, ConnLoc>>
    BY <1>3, <1>t DEF SwitchAttach, ConnLoc
  <2> QED BY <2>1, <2>2, ConnAttached
<1>4. CASE SwitchAccepted(t)
  <2>1. PICK r \in Rooms : /\ Go(t, "switchCreate", "listSwitched")
                          /\ seats' = [seats EXCEPT ![r] = Seat(seats[r], s)]
                          /\ SetsLoc(t, r)
                          /\ UNCHANGED <<playerRoomMap, players, room, attached>>
    BY <1>4, <1>t DEF SwitchAccepted, SetsLoc
  <2>2. /\ ConnPc[s] = "switchCreate" /\ ConnPc' = [ConnPc EXCEPT ![s] = "listSwitched"]
        /\ RoomPc' = RoomPc
    BY <1>t, <2>1, ConnGoes
  <2>3. ConnLoc' = [ConnLoc EXCEPT ![s] = r]
    BY <1>t, <2>1, ConnLocSet
  <2> QED BY <2>1, <2>2, <2>3, SeatTaken
<1>5. CASE SwitchRefused(t)
  <2>1. /\ ConnPc[s] = "switchCreate" /\ ConnPc' = [ConnPc EXCEPT ![s] = "playing"]
        /\ RoomPc' = RoomPc
    BY <1>5, <1>t, ConnGoes DEF SwitchRefused
  <2>2. UNCHANGED <<seats, playerRoomMap, players, room, attached, ConnLoc>>
    BY <1>5 DEF SwitchRefused, ConnLoc
  <2> QED BY <2>1, <2>2, ConnQuiet
<1> QED BY <1>1, <1>2, <1>3, <1>4, <1>5 DEF SwitchRoom

LEMMA LeaveStep ==
    ASSUME RegistryInv, SerialRooms, NEW s \in Sessions, NEW t \in Threads,
           \/ t = ConnOf(s) /\ Disconnect(t)
           \/ t = RoomOf(s) /\ Release(t)
    PROVE  RegistryParts'
<1> USE ConstantsAssumption, TwoThreads DEF maps, player, world, locals
<1>t. TypeOK /\ Places /\ t.player = s
  BY DEF RegistryInv
<1>1. CASE t = ConnOf(s) /\ Disconnect(t)
  <2>1. ConnPc[s] = "playing" /\ ConnPc' = [ConnPc EXCEPT ![s] = "gone"] /\ RoomPc' = RoomPc
    BY <1>1, <1>t, ConnGoes DEF Disconnect
  <2>2. UNCHANGED <<seats, playerRoomMap, players, room, attached, ConnLoc>>
    BY <1>1 DEF Disconnect, ConnLoc
  <2> QED BY <2>1, <2>2, ConnQuiet
<1>2. CASE t = RoomOf(s) /\ Release(t)
  <2>0. PICK r \in Rooms :
           /\ t.player \in seats[r] /\ MayRelease(t.player) /\ Go(t, "idle", "exitRead")
           /\ seats' = [seats EXCEPT ![r] = @ \ {t.player}]
           /\ UNCHANGED <<maps, roomMapMu, player, roomState, locals, switches>>
    BY <1>2, Zenon DEF Release
  <2>1. /\ s \in seats[r] /\ MayRelease(s) /\ Go(t, "idle", "exitRead")
        /\ seats' = [seats EXCEPT ![r] = seats[r] \ {s}]
        /\ UNCHANGED <<playerRoomMap, players, room, attached, loc>>
    BY <1>t, <2>0
  <2>2. RoomPc[s] = "idle" /\ RoomPc' = [RoomPc EXCEPT ![s] = "exitRead"] /\ ConnPc' = ConnPc
    BY <1>2, <1>t, <2>1, RoomGoes
  <2>3. ConnPc[s] \in {"playing", "gone", "panic"} /\ UNCHANGED ConnLoc
    BY <2>1 DEF MayRelease, ConnPc, ConnLoc
  <2> QED BY <2>1, <2>2, <2>3, Released
<1> QED BY <1>1, <1>2

LEMMA RegistryStep ==
    ASSUME SerialPlayers, SerialRooms
    PROVE  RegistryInv /\ [Next]_vars => RegistryParts'
<1> SUFFICES ASSUME RegistryInv, [Next]_vars PROVE RegistryParts'
  OBVIOUS
<1>1. CASE UNCHANGED vars
  <2>1. /\ UNCHANGED <<seats, playerRoomMap, players, room, attached>>
        /\ ConnPc' = ConnPc /\ RoomPc' = RoomPc /\ ConnLoc' = ConnLoc
    BY <1>1 DEF vars, ConnPc, RoomPc, ConnLoc
  <2> USE <2>1 DEF RegistryInv, Leaves, Unseats
  <2>2. Places' /\ OneBusy' /\ RoomWorksAlone' /\ SeatsHeld' /\ OneSeatPerPlayer'
    BY DEF Places, OneBusy, RoomWorksAlone, SeatsHeld, OneSeatPerPlayer
  <2>3. SeatsKnown' /\ NotRecorded' /\ TakesSeat' /\ ComesBack' /\ LeavesOnce' /\ RecordsKept'
    BY DEF SeatsKnown, NotRecorded, TakesSeat, ComesBack, LeavesOnce, RecordsKept
  <2> QED BY <2>2, <2>3 DEF RegistryParts
<1>2. ASSUME NEW t \in Threads, Proceed(t) \/ Environment(t) PROVE RegistryParts'
  <2>1. t.player \in Sessions /\ t \in {ConnOf(t.player), RoomOf(t.player)}
    BY ThreadOfSession
  <2>2. t.goroutine = "conn" => t = ConnOf(t.player)
    BY ThreadOfSession
  <2>3. t.goroutine = "room" => t = RoomOf(t.player)
    BY ThreadOfSession
  <2>4. CASE ExitRoom(t)
    BY <2>1, <2>4, ExitStep
  <2>5. CASE t.goroutine = "conn" /\ (StartLogin(t) \/ TryReConnectGame(t))
    BY <2>1, <2>2, <2>5, LoginStep
  <2>6. CASE t.goroutine = "conn" /\ OnJoin(t)
    BY <2>1, <2>2, <2>6, JoinStep
  <2>7. CASE t.goroutine = "conn" /\ (StartSwitch(t) \/ SwitchRoom(t))
    BY <2>1, <2>2, <2>7, SwitchStep
  <2>8. CASE \/ t.goroutine = "conn" /\ Disconnect(t)
             \/ t.goroutine = "room" /\ Release(t)
    BY <2>1, <2>2, <2>3, <2>8, LeaveStep
  <2> QED BY <1>2, <2>4, <2>5, <2>6, <2>7, <2>8 DEF Proceed, Environment
<1> QED BY <1>1, <1>2 DEF Next

LEMMA RegistryInvariant == ASSUME SerialPlayers, SerialRooms PROVE Spec => []RegistryInv
<1>1. Init => RegistryParts
  BY RegistryInitInv
<1>2. TypeOK /\ RegistryParts => RegistryInv
  BY DEF RegistryInv, RegistryParts
<1>3. RegistryInv /\ [Next]_vars => RegistryParts'
  BY RegistryStep
<1> QED BY <1>1, <1>2, <1>3, TypeCorrect, PTL DEF Spec

\* For any number of players and rooms a player sits in one room with one session.
THEOREM OneSeatPerIdent ==
    ASSUME SerialPlayers, SerialRooms PROVE Spec => []OneSeatPerPlayer
  BY RegistryInvariant, PTL DEF RegistryInv

\* Nobody of a player at rest is in the manager.
LEMMA RestIsQuiet ==
    ASSUME RegistryInv, NEW i \in Idents, AtRest(i), NEW s \in Sessions, IdentOf[s] = i
    PROVE  ~Leaves(s) /\ ConnPc[s] \notin Registering /\ ConnPc[s] # "reconnect"
<1>1. /\ ConnPc[s] \in {"new", "idle", "playing", "gone", "panic"}
      /\ RoomPc[s] \in {"new", "idle", "playing", "gone", "panic"}
  BY TwoThreads DEF AtRest, ConnPc, RoomPc
<1> QED BY <1>1 DEF Leaves, Registering, Unmapping

\* Between calls the registry knows the players that sit in rooms, and no others.
THEOREM RegistryKnowsSeats ==
    ASSUME SerialPlayers, SerialRooms PROVE Spec => []RegistryAgrees
<1>1. ASSUME RegistryInv PROVE RegistryAgrees
  <2> SUFFICES ASSUME NEW i \in Idents, AtRest(i), NEW r \in Rooms
               PROVE  playerRoomMap[i] = r <=> Seated(i, r)
    BY DEF RegistryAgrees
  <2> USE <1>1 DEF RegistryInv
  <2>1. ASSUME playerRoomMap[i] = r PROVE Seated(i, r)
    <3>1. r # Absent
      BY ConstantsAssumption
    <3>2. PICK s \in Sessions : IdentOf[s] = i /\ (s \in seats[r] \/ Leaves(s))
      BY <2>1, <3>1 DEF RecordsKept
    <3> QED BY <3>2, RestIsQuiet DEF Seated
  <2>2. ASSUME Seated(i, r) PROVE playerRoomMap[i] = r
    <3>1. PICK s \in seats[r] : IdentOf[s] = i
      BY <2>2 DEF Seated
    <3>2. s \in Sessions
      BY <3>1 DEF TypeOK
    <3> QED BY <3>1, <3>2, RestIsQuiet DEF SeatsKnown
  <2> QED BY <2>1, <2>2
<1> QED BY <1>1, RegistryInvariant, PTL

\* Between calls the object registered for a seated player is the one in the seat, and
\* it knows its room.
THEOREM PlayersHoldSeats ==
    ASSUME SerialPlayers, SerialRooms PROVE Spec => []PlayersAgree
<1>1. ASSUME RegistryInv PROVE PlayersAgree
  <2> SUFFICES ASSUME NEW i \in Idents, NEW r \in Rooms, AtRest(i), Seated(i, r)
               PROVE  players[i] \in seats[r] /\ room[players[i]] = r
    BY DEF PlayersAgree
  <2> USE <1>1 DEF RegistryInv
  <2>1. PICK s \in seats[r] : IdentOf[s] = i
    BY DEF Seated
  <2>2. s \in Sessions
    BY <2>1 DEF TypeOK
  <2>3. \A o \in Sessions : Same(o, s) => ConnPc[o] # "reconnect" /\ ConnPc[o] \notin Registering
    BY <2>1, RestIsQuiet DEF Same
  <2>4. players[i] = s
    BY <2>1, <2>2, <2>3 DEF SeatsKnown, Same
  <2>5. room[s] = r
    BY <2>1, <2>2, <2>3 DEF SeatsHeld, Same, Registering
  <2> QED BY <2>1, <2>4, <2>5
<1> QED BY <1>1, RegistryInvariant, PTL

-----------------------------------------------------------------------------
(* Exits and the rooms they look at: what a step does to WillCheck.         *)

\* A step of t leaves the other goroutines where they are, and the other sessions.
OthersStay(t) ==
    /\ \A u \in Threads : u # t => pc'[u] = pc[u] /\ loc'[u] = loc[u]
    /\ \A o \in Sessions : o # t.player => room'[o] = room[o] /\ attached'[o] = attached[o]

LEMMA StepOfOne ==
    ASSUME TypeOK, NEW t \in Threads, Proceed(t) \/ Environment(t)
    PROVE  OthersStay(t)
<1> USE DEF TypeOK, OthersStay, maps, player, world, locals, Go
<1>1. CASE StartLogin(t) \/ Disconnect(t) \/ StartSwitch(t)
  BY <1>1 DEF StartLogin, Disconnect, StartSwitch
<1>2. CASE Release(t)
  BY <1>2 DEF Release
<1>3. CASE TryReConnectGame(t)
  <2>1. CASE LookupRoom(t) \/ CheckOldConn(t) \/ CloseOldConn(t) \/ StorePlayer(t)
    BY <2>1 DEF LookupRoom, CheckOldConn, CloseOldConn, StorePlayer
  <2>2. CASE ReConnectRoom(t)
    BY <2>2 DEF ReConnectRoom
  <2> QED BY <1>3, <2>1, <2>2 DEF TryReConnectGame
<1>4. CASE OnJoin(t)
  <2>1. CASE JoinListedRoom(t)
    BY <2>1 DEF JoinListedRoom, LockJoin
  <2>2. CASE FindNoRoom(t)
    BY <2>2 DEF FindNoRoom, LockJoin
  <2>3. CASE SetJoinedRoom(t) \/ SkipCreate(t) \/ RecordPlayer(t)
    BY <2>3 DEF SetJoinedRoom, SkipCreate, RecordPlayer, Taken
  <2>4. CASE CreateRoom(t) \/ CreateRefused(t)
    BY <2>4 DEF CreateRoom, CreateRefused
  <2>5. CASE ListRoom(t)
    BY <2>5 DEF ListRoom, Taken
  <2> QED BY <1>4, <2>1, <2>2, <2>3, <2>4, <2>5 DEF OnJoin
<1>5. CASE ExitRoom(t)
  <2>1. CASE ReadRoom(t) \/ DeletePlayer(t) \/ UnmapPlayer(t) \/ CloseConn(t)
    BY <2>1 DEF ReadRoom, DeletePlayer, UnmapPlayer, CloseConn
  <2>2. CASE FindEmpty(t) \/ FindOccupied(t) \/ DisposeEmpty(t) \/ DisposeSingle(t)
    BY <2>2 DEF FindEmpty, FindOccupied, DisposeEmpty, DisposeSingle
  <2>3. CASE ExitNilRoom(t) \/ FinishExit(t)
    BY <2>3 DEF ExitNilRoom, FinishExit, Detach
  <2> QED BY <1>5, <2>1, <2>2, <2>3 DEF ExitRoom
<1>6. CASE SwitchRoom(t)
  <2>1. CASE LeaveOldRoom(t) \/ SwitchAttach(t)
    BY <2>1 DEF LeaveOldRoom, SwitchAttach
  <2>2. CASE SwitchAccepted(t) \/ SwitchRefused(t)
    BY <2>2 DEF SwitchAccepted, SwitchRefused
  <2> QED BY <1>6, <2>1, <2>2 DEF SwitchRoom
<1> QED BY <1>1, <1>2, <1>3, <1>4, <1>5, <1>6 DEF Proceed, Environment

\* A session whose other goroutine begins an exit keeps its room.
LEMMA ExitUndisturbed ==
    ASSUME RegistryInv, SerialRooms, NEW t \in Threads, Proceed(t) \/ Environment(t),
           NEW u \in Threads, u # t, u.player = t.player, pc[u] = "exitRead"
    PROVE  UNCHANGED <<room, attached>>
<1> DEFINE s == t.player
<1>s. s \in Sessions /\ {t, u} = {ConnOf(s), RoomOf(s)}
  BY ThreadOfSession
<1>1. CASE t = ConnOf(s)
  <2>1. RoomPc[s] = "exitRead"
    BY <1>s, <1>1 DEF RoomPc
  <2>2. pc[t] \in {"playing", "gone", "panic"}
    BY <1>s, <1>1, <2>1 DEF RegistryInv, RoomWorksAlone, ConnPc
  <2>3. t.goroutine = "conn" /\ Disconnect(t)
    BY <1>1, <1>s, <2>2, <2>1, TwoThreads
       DEF Proceed, Environment, ExitRoom, ReadRoom, DeletePlayer, UnmapPlayer, CloseConn,
           FindEmpty, FindOccupied, DisposeEmpty, DisposeSingle, ExitNilRoom, FinishExit,
           TryReConnectGame, LookupRoom, CheckOldConn, CloseOldConn, StorePlayer, ReConnectRoom,
           OnJoin, JoinListedRoom, FindNoRoom, SetJoinedRoom, SkipCreate, CreateRoom,
           CreateRefused, ListRoom, RecordPlayer, SwitchRoom, LeaveOldRoom, SwitchAttach,
           SwitchAccepted, SwitchRefused, StartLogin, StartSwitch, Release, MaySwitch, RoomPc, Go
  <2> QED BY <2>3 DEF Disconnect
<1>2. CASE t = RoomOf(s)
  <2>1. ConnPc[s] = "exitRead"
    BY <1>s, <1>2 DEF ConnPc
  <2>2. pc[t] = "idle"
    BY <1>s, <1>2, <2>1 DEF RegistryInv, RoomWorksAlone, RoomPc
  <2>3. ~MayRelease(s)
    BY <2>1, <1>s DEF MayRelease, ConnPc
  <2>4. FALSE
    BY <1>2, <1>s, <2>2, <2>3, TwoThreads
       DEF Proceed, Environment, ExitRoom, ReadRoom, DeletePlayer, UnmapPlayer, CloseConn,
           FindEmpty, FindOccupied, DisposeEmpty, DisposeSingle, ExitNilRoom, FinishExit,
           Release, Go
  <2> QED BY <2>4
<1> QED BY <1>s, <1>1, <1>2

LEMMA OthersCheck ==
    ASSUME RegistryInv, SerialRooms, NEW t \in Threads, Proceed(t) \/ Environment(t),
           NEW u \in Threads, u # t, NEW r \in Rooms
    PROVE  WillCheck(u, r)' <=> WillCheck(u, r)
<1>1. OthersStay(t) /\ u.player \in Sessions
  BY StepOfOne, ThreadOfSession DEF RegistryInv
<1>2. pc'[u] = pc[u] /\ loc'[u] = loc[u]
  BY <1>1 DEF OthersStay
<1>3. pc[u] = "exitRead" =>
          room'[u.player] = room[u.player] /\ attached'[u.player] = attached[u.player]
  BY <1>1, ExitUndisturbed DEF OthersStay
<1> QED BY <1>2, <1>3 DEF WillCheck

\* An exit begins when the player has been taken off his seat.
GivesUpSeat(t) ==
    /\ \E r \in Rooms :
           /\ t.player \in seats[r]
           /\ seats' = [seats EXCEPT ![r] = seats[r] \ {t.player}]
           /\ \A q \in Rooms : WillCheck(t, q)' <=> q = r
    /\ \A q \in Rooms : ~WillCheck(t, q)
    /\ pc'[t] = "exitRead" /\ attached'[t.player]
    /\ UNCHANGED <<roomMap, roomState>>

\* Further on, it keeps its room in sight.
GoesOn(t) ==
    /\ \A q \in Rooms : WillCheck(t, q) => WillCheck(t, q)'
    /\ pc[t] # "exitRead" \/ attached[t.player] =>
           \A q \in Rooms : WillCheck(t, q)' => WillCheck(t, q)
    /\ pc'[t] # "exitRead"
    /\ UNCHANGED <<seats, roomMap, roomState>>

LEMMA ExitBegins ==
    ASSUME RegistryInv, SerialRooms, NEW t \in Threads,
           \/ t.goroutine = "conn" /\ LeaveOldRoom(t)
           \/ t.goroutine = "room" /\ Release(t)
    PROVE  GivesUpSeat(t)
<1> DEFINE s == t.player
<1>s. s \in Sessions /\ TypeOK
  BY ThreadOfSession DEF RegistryInv
<1>1. CASE t.goroutine = "conn" /\ LeaveOldRoom(t)
  <2>1. t = ConnOf(s) /\ ConnPc[s] = "switchLeave"
    BY <1>1, <1>s, ThreadOfSession DEF LeaveOldRoom, Go, ConnPc
  <2>2. room[s] \in Rooms /\ s \in seats[room[s]]
    BY <1>s, <2>1 DEF RegistryInv, TakesSeat
  <2>3. attached[s]
    BY <1>s, <2>2 DEF RegistryInv, SeatsHeld
  <2>4. /\ seats' = [seats EXCEPT ![room[s]] = seats[room[s]] \ {s}]
        /\ UNCHANGED <<roomMap, roomState, room, attached>>
    BY <1>1, <2>2, ConstantsAssumption DEF LeaveOldRoom, Unseated, maps, player
  <2>5. pc[t] = "switchLeave" /\ pc'[t] = "exitRead"
    BY <1>1, <1>s DEF LeaveOldRoom, Go, TypeOK
  <2> QED BY <2>2, <2>3, <2>4, <2>5 DEF GivesUpSeat, WillCheck, ExitPcs
<1>2. CASE t.goroutine = "room" /\ Release(t)
  <2>0. PICK r \in Rooms :
           /\ t.player \in seats[r] /\ MayRelease(t.player) /\ Go(t, "idle", "exitRead")
           /\ seats' = [seats EXCEPT ![r] = @ \ {t.player}]
           /\ UNCHANGED <<maps, roomMapMu, player, roomState, locals, switches>>
    BY <1>2, Zenon DEF Release
  <2>1. ConnPc[s] \in {"playing", "gone", "panic"}
    BY <1>s, <2>0 DEF MayRelease, ConnPc
  <2>2. attached[s] /\ room[s] = r
    BY <1>s, <2>0, <2>1 DEF RegistryInv, SeatsHeld
  <2>3. UNCHANGED <<roomMap, roomState, room, attached>>
    BY <2>0 DEF maps, player
  <2>4. pc[t] = "idle" /\ pc'[t] = "exitRead"
    BY <1>s, <2>0 DEF Go, TypeOK
  <2> QED BY <2>0, <2>2, <2>3, <2>4 DEF GivesUpSeat, WillCheck, ExitPcs
<1> QED BY <1>1, <1>2

LEMMA ExitGoesOn ==
    ASSUME RegistryInv, NEW t \in Threads,
           ReadRoom(t) \/ DeletePlayer(t) \/ UnmapPlayer(t) \/ CloseConn(t) \/ FindEmpty(t)
    PROVE  GoesOn(t)
<1>s. t.player \in Sessions /\ TypeOK
  BY ThreadOfSession DEF RegistryInv
<1> USE DEF maps, player, world, locals
<1>1. CASE ReadRoom(t)
  <2>1. t.goroutine = "room" /\ pc[t] = "exitRead" => attached[t.player]
    BY <1>s, ThreadOfSession DEF RegistryInv, RoomWorksAlone, RoomPc
  <2>2. /\ pc[t] = "exitRead" /\ pc'[t] = "exitDelete" /\ loc'[t] = room[t.player]
        /\ UNCHANGED <<seats, roomMap, roomState>>
    BY <1>s, <1>1, <2>1 DEF ReadRoom, Go, TypeOK
  <2> QED BY <2>2 DEF GoesOn, WillCheck, ExitPcs
<1>2. CASE DeletePlayer(t) \/ UnmapPlayer(t) \/ CloseConn(t) \/ FindEmpty(t)
  <2>1. /\ pc[t] \in {"exitDelete", "exitUnmap", "exitClose", "exitCheck"}
        /\ pc'[t] \in {"exitUnmap", "exitClose", "exitCheck", "exitDispose"}
        /\ loc' = loc /\ UNCHANGED <<seats, roomMap, roomState>>
    BY <1>s, <1>2 DEF DeletePlayer, UnmapPlayer, CloseConn, FindEmpty, Go, TypeOK
  <2> QED BY <2>1 DEF GoesOn, WillCheck, ExitPcs
<1> QED BY <1>1, <1>2

-----------------------------------------------------------------------------
(* Rooms that are left are noticed (rtp matching).                          *)

\* An exit is over: it has seen players in its room, or taken it off the lists.
SeesRoom(t) ==
    /\ UNCHANGED seats
    /\ \A q \in Rooms :
           q \in Listed' => q \in Listed /\ (WillCheck(t, q) => seats[q] # {})

\* A step outside the exits empties no room and lists no empty one.
FillsRooms(t) ==
    /\ \A q \in Rooms : ~WillCheck(t, q)
    /\ \A q \in Rooms : seats'[q] = {} => seats[q] = {} /\ (q \in Listed' => q \in Listed)

LEMMA ExitEnds ==
    ASSUME TypeInv, Matcher = "RTP", NEW t \in Threads,
           \/ FindOccupied(t) \/ DisposeEmpty(t) \/ DisposeSingle(t) \/ ExitNilRoom(t)
           \/ FinishExit(t)
    PROVE  SeesRoom(t)
<1> USE DEF maps, player, world, locals, TypeInv
<1>1. CASE FindOccupied(t)
  BY <1>1 DEF FindOccupied, SeesRoom, WillCheck, Go, Listed, Empty, ExitPcs
<1>2. CASE DisposeEmpty(t)
  <2>1. loc[t] \in Rooms /\ pc[t] = "exitDispose"
    BY <1>2 DEF DisposeEmpty, Go, HeldRoomIsRoom
  <2>2. \A q \in Rooms : q \in Listed' => q \in Listed /\ q # loc[t]
    BY <1>2 DEF DisposeEmpty, Delist, Listed, TypeOK
  <2> QED BY <1>2, <2>1, <2>2 DEF DisposeEmpty, SeesRoom, WillCheck
<1>3. CASE DisposeSingle(t)
  BY <1>3 DEF DisposeSingle
<1>4. CASE ExitNilRoom(t)
  BY <1>4, ConstantsAssumption DEF ExitNilRoom, SeesRoom, WillCheck, Go, Listed
<1>5. CASE FinishExit(t)
  BY <1>5 DEF FinishExit, SeesRoom, WillCheck, Go, Listed, ExitPcs
<1> QED BY <1>1, <1>2, <1>3, <1>4, <1>5

LEMMA LoginFills ==
    ASSUME TypeInv, Matcher = "RTP", NEW t \in Threads,
           \/ StartLogin(t) \/ Disconnect(t) \/ StartSwitch(t) \/ TryReConnectGame(t)
    PROVE  FillsRooms(t)
<1> USE DEF maps, player, world, locals, TypeInv, TypeOK, FillsRooms
<1>1. CASE StartLogin(t) \/ Disconnect(t) \/ StartSwitch(t)
  BY <1>1 DEF StartLogin, Disconnect, StartSwitch, Go, WillCheck, ExitPcs, Listed
<1>2. CASE LookupRoom(t) \/ CheckOldConn(t) \/ CloseOldConn(t) \/ StorePlayer(t)
  BY <1>2 DEF LookupRoom, CheckOldConn, CloseOldConn, StorePlayer, Go, WillCheck, ExitPcs, Listed
<1>3. CASE ReConnectRoom(t)
  <2>1. /\ pc[t] = "reconnect" /\ UNCHANGED roomMap
        /\ seats' = seats \/ seats' = [seats EXCEPT ![loc[t]] = Seat(@, t.player)]
    BY <1>3 DEF ReConnectRoom, Go
  <2> QED BY <2>1 DEF WillCheck, ExitPcs, Listed, Seat
<1> QED BY <1>1, <1>2, <1>3 DEF TryReConnectGame

LEMMA JoinFills ==
    ASSUME RegistryInv, TypeInv, Matcher = "RTP", NEW t \in Threads, t.goroutine = "conn",
           OnJoin(t) \/ SwitchAttach(t) \/ SwitchAccepted(t) \/ SwitchRefused(t)
    PROVE  FillsRooms(t)
<1> USE DEF maps, player, world, locals, TypeInv, TypeOK, FillsRooms
<1>1. CASE JoinListedRoom(t)
  <2>1. /\ pc[t] = "join" /\ UNCHANGED roomMap
        /\ \E r : seats' = [seats EXCEPT ![r] = Seat(@, t.player)]
    BY <1>1 DEF JoinListedRoom, Go
  <2> QED BY <2>1 DEF WillCheck, ExitPcs, Listed, Seat
<1>2. CASE CreateRoom(t) \/ SwitchAccepted(t)
  <2>1. /\ pc[t] \in {"create", "switchCreate"} /\ UNCHANGED roomMap
        /\ \E r : seats' = [seats EXCEPT ![r] = Seat(@, t.player)]
    BY <1>2 DEF CreateRoom, SwitchAccepted, Go
  <2> QED BY <2>1 DEF WillCheck, ExitPcs, Listed, Seat
<1>3. CASE \/ FindNoRoom(t) \/ SetJoinedRoom(t) \/ SkipCreate(t) \/ CreateRefused(t)
           \/ RecordPlayer(t) \/ SwitchAttach(t) \/ SwitchRefused(t)
  BY <1>3 DEF FindNoRoom, SetJoinedRoom, SkipCreate, CreateRefused, RecordPlayer, SwitchAttach,
              SwitchRefused, Go, WillCheck, ExitPcs, Listed
<1>4. CASE ListRoom(t)
  <2> DEFINE s == t.player
  <2>1. s \in Sessions /\ t = ConnOf(s)
    BY ThreadOfSession
  <2>2. ConnPc[s] \in {"list", "listSwitched"} /\ loc[t] = ConnLoc[s]
    BY <1>4, <2>1 DEF ListRoom, Go, ConnPc, ConnLoc
  <2>3. loc[t] \in Rooms /\ s \in seats[loc[t]]
    BY <2>1, <2>2 DEF RegistryInv, TakesSeat
  <2>4. /\ pc[t] \in {"list", "listSwitched"} /\ UNCHANGED seats
        /\ \A q \in Listed' : q \in Listed \/ q = loc[t]
    BY <1>4 DEF ListRoom, Go, Listed
  <2> QED BY <2>3, <2>4 DEF WillCheck, ExitPcs
<1> QED BY <1>1, <1>2, <1>3, <1>4 DEF OnJoin

LEMMA WatchStep ==
    ASSUME RegistryInv, TypeInv, SerialRooms, Matcher = "RTP", EmptyRoomWatched,
           NEW t \in Threads, Proceed(t) \/ Environment(t)
    PROVE  EmptyRoomWatched'
<1> SUFFICES ASSUME NEW r \in Listed', seats'[r] = {}
             PROVE  \E u \in Threads : WillCheck(u, r)'
  BY DEF EmptyRoomWatched
<1>0. TypeOK' /\ r \in Rooms
  <2>1. TypeOK'
    BY TypeStep DEF Next
  <2> QED BY <2>1 DEF Listed, TypeOK
<1>1. ASSUME r \in Listed, seats[r] = {}, ~WillCheck(t, r) \/ WillCheck(t, r)'
      PROVE  \E u \in Threads : WillCheck(u, r)'
  <2>1. PICK u \in Threads : WillCheck(u, r)
    BY <1>1 DEF EmptyRoomWatched
  <2> QED BY <1>0, <1>1, <2>1, OthersCheck
<1>2. CASE GivesUpSeat(t)
  <2>1. PICK q \in Rooms : /\ seats' = [seats EXCEPT ![q] = seats[q] \ {t.player}]
                           /\ WillCheck(t, r)' <=> r = q
    BY <1>0, <1>2 DEF GivesUpSeat
  <2>2. CASE r = q
    BY <2>1, <2>2
  <2>3. CASE r # q
    <3>1. seats[r] = {} /\ ~WillCheck(t, r) /\ r \in Listed
      BY <1>0, <1>2, <2>1, <2>3 DEF GivesUpSeat, Listed
    <3> QED BY <1>1, <3>1
  <2> QED BY <2>2, <2>3
<1>3. CASE GoesOn(t)
  <2>1. r \in Listed /\ seats[r] = {} /\ (WillCheck(t, r) => WillCheck(t, r)')
    BY <1>0, <1>3 DEF GoesOn, Listed
  <2> QED BY <1>1, <2>1
<1>4. CASE SeesRoom(t)
  BY <1>0, <1>1, <1>4 DEF SeesRoom
<1>5. CASE FillsRooms(t)
  BY <1>0, <1>1, <1>5 DEF FillsRooms
<1>6. t.goroutine \in {"conn", "room"}
  BY ThreadOfSession
<1>7. CASE ExitRoom(t)
  BY <1>3, <1>4, <1>7, ExitGoesOn, ExitEnds DEF ExitRoom
<1>8. CASE TryReConnectGame(t) \/ StartLogin(t) \/ Disconnect(t) \/ StartSwitch(t)
  BY <1>5, <1>8, LoginFills
<1>9. ASSUME t.goroutine = "conn",
             OnJoin(t) \/ SwitchAttach(t) \/ SwitchAccepted(t) \/ SwitchRefused(t)
      PROVE  \E u \in Threads : WillCheck(u, r)'
  BY <1>5, <1>9, JoinFills
<1>10. ASSUME t.goroutine = "conn", LeaveOldRoom(t)
       PROVE  \E u \in Threads : WillCheck(u, r)'
  BY <1>2, <1>10, ExitBegins
<1>11. ASSUME t.goroutine = "room", Release(t)
       PROVE  \E u \in Threads : WillCheck(u, r)'
  BY <1>2, <1>11, ExitBegins
<1>12. CASE Proceed(t)
  <2>1. ExitRoom(t) \/ t.goroutine = "conn"
    BY <1>12 DEF Proceed
  <2>2. \/ ExitRoom(t) \/ TryReConnectGame(t) \/ OnJoin(t)
        \/ LeaveOldRoom(t) \/ SwitchAttach(t) \/ SwitchAccepted(t) \/ SwitchRefused(t)
    BY <1>12 DEF Proceed, SwitchRoom
  <2> QED BY <2>1, <2>2, <1>7, <1>8, <1>9, <1>10
<1>13. CASE Environment(t)
  <2>1. t.goroutine = "conn" => StartLogin(t) \/ Disconnect(t) \/ StartSwitch(t)
    BY <1>13 DEF Environment
  <2>2. t.goroutine = "room" => Release(t)
    BY <1>13 DEF Environment
  <2> QED BY <2>1, <2>2, <1>6, <1>8, <1>11
<1> QED BY <1>12, <1>13

\* With rtp matching a listed room that has lost its last player has an exit on its
\* way that will look: empty rooms do not pile up.
THEOREM EmptyRoomsWatched ==
    ASSUME SerialPlayers, SerialRooms PROVE Spec => []EmptyRoomWatched
<1>1. CASE Matcher = "RTP"
  <2>1. Init => EmptyRoomWatched
    BY DEF Init, EmptyRoomWatched, Listed
  <2>2. ASSUME RegistryInv, TypeInv, EmptyRoomWatched, [Next]_vars PROVE EmptyRoomWatched'
    <3>1. CASE UNCHANGED vars
      BY <2>2, <3>1 DEF vars, maps, player, world, locals, EmptyRoomWatched, Listed, WillCheck
    <3>2. CASE Next
      BY <1>1, <2>2, <3>2, WatchStep DEF Next
    <3> QED BY <2>2, <3>1, <3>2
  <2> QED BY <2>1, <2>2, RegistryInvariant, TypeInvariant, PTL DEF Spec
<1>2. CASE Matcher # "RTP"
  <2>1. EmptyRoomWatched
    BY <1>2 DEF EmptyRoomWatched
  <2> QED BY <2>1, PTL
<1> QED BY <1>1, <1>2

-----------------------------------------------------------------------------
(* Single-player rooms: nobody but their player comes in, and he leaves     *)
(* once.                                                                    *)

\* A room has its one player, or the exit that will dispose of it, and is alive
\* as long as it has either.
SoloInv ==
    /\ \A r \in Rooms : \A s, o \in seats[r] : s = o
    /\ \A r \in Rooms : seats[r] # {} => roomState[r] = "live"
    /\ \A t \in Threads, r \in Rooms : WillCheck(t, r) =>
           /\ roomState[r] = "live" /\ seats[r] = {}
           /\ \A u \in Threads : WillCheck(u, r) => u = t
    /\ \A t \in Threads :
           pc[t] # "exitDispose" /\ (pc[t] = "exitRead" => attached[t.player])

\* The step is not part of an exit that has a room to look at.
OutOfExit(t) ==
    /\ \A q \in Rooms : ~WillCheck(t, q)'
    /\ pc'[t] \notin {"exitRead", "exitDispose"}

\* A new room is opened for the player, or dropped.
OpensRoom(t) ==
    \E q \in Rooms :
        /\ roomState[q] = "new"
        /\ \/ /\ roomState' = [roomState EXCEPT ![q] = "live"]
              /\ seats' = [seats EXCEPT ![q] = Seat(seats[q], t.player)]
           \/ roomState' = [roomState EXCEPT ![q] = "refused"] /\ UNCHANGED seats

\* The player's new session takes the seat over.
TakesOver(t) ==
    /\ UNCHANGED roomState
    /\ \E q \in Rooms : /\ \E o \in seats[q] : Same(o, t.player)
                        /\ seats' = [seats EXCEPT ![q] = Seat(seats[q], t.player)]

DisposesRoom(t) ==
    \E q \in Rooms : /\ WillCheck(t, q)
                     /\ roomState' = [roomState EXCEPT ![q] = "disposed"]
                     /\ UNCHANGED seats

\* What a step outside the beginning and the middle of an exit does.
SoloMove(t) ==
    /\ OutOfExit(t)
    /\ OpensRoom(t) \/ TakesOver(t) \/ DisposesRoom(t) \/ UNCHANGED <<seats, roomState>>

SoloKind(t) ==
    \/ GivesUpSeat(t)
    \/ GoesOn(t) /\ pc'[t] # "exitDispose"
    \/ SoloMove(t)

LEMMA SoloExit ==
    ASSUME TypeInv, SoloInv, Matcher = "SINGLE", NEW t \in Threads, ExitRoom(t)
    PROVE  SoloKind(t)
<1> USE DEF maps, player, world, locals, TypeInv, TypeOK, SoloKind
<1>1. CASE ReadRoom(t) \/ DeletePlayer(t) \/ UnmapPlayer(t) \/ CloseConn(t)
  <2>1. pc'[t] # "exitDispose"
    BY <1>1 DEF ReadRoom, DeletePlayer, UnmapPlayer, CloseConn, Go
  <2>2. pc[t] = "exitRead" => attached[t.player]
    BY DEF SoloInv
  <2>3. GoesOn(t)
    BY <1>1, <2>2 DEF GoesOn, ReadRoom, DeletePlayer, UnmapPlayer, CloseConn, Go, WillCheck,
                      ExitPcs
  <2> QED BY <2>1, <2>3
<1>2. CASE FindEmpty(t) \/ FindOccupied(t)
  BY <1>2 DEF FindEmpty, FindOccupied
<1>3. CASE DisposeEmpty(t)
  BY <1>3 DEF DisposeEmpty, Go, SoloInv
<1>4. CASE DisposeSingle(t)
  <2>1. loc[t] \in Rooms /\ WillCheck(t, loc[t])
    BY <1>4 DEF DisposeSingle, Go, WillCheck, ExitPcs
  <2>2. OutOfExit(t)
    BY <1>4 DEF DisposeSingle, Go, WillCheck, ExitPcs, OutOfExit
  <2> QED BY <1>4, <2>1, <2>2 DEF DisposeSingle, SoloMove, DisposesRoom
<1>5. CASE ExitNilRoom(t) \/ FinishExit(t)
  BY <1>5, ConstantsAssumption
     DEF ExitNilRoom, FinishExit, Go, WillCheck, ExitPcs, OutOfExit, SoloMove
<1> QED BY <1>1, <1>2, <1>3, <1>4, <1>5 DEF ExitRoom

LEMMA SoloLogin ==
    ASSUME TypeInv, NEW t \in Threads,
           \/ StartLogin(t) \/ Disconnect(t) \/ StartSwitch(t) \/ TryReConnectGame(t)
    PROVE  SoloKind(t)
<1> USE DEF maps, player, world, locals, TypeInv, TypeOK, SoloMove, OutOfExit, SoloKind
<1>1. CASE StartLogin(t) \/ Disconnect(t) \/ StartSwitch(t)
  BY <1>1 DEF StartLogin, Disconnect, StartSwitch, Go, WillCheck, ExitPcs
<1>2. CASE LookupRoom(t) \/ CheckOldConn(t) \/ CloseOldConn(t) \/ StorePlayer(t)
  BY <1>2 DEF LookupRoom, CheckOldConn, CloseOldConn, StorePlayer, Go, WillCheck, ExitPcs
<1>3. CASE ReConnectRoom(t)
  <2>1. OutOfExit(t)
    BY <1>3 DEF ReConnectRoom, Go, WillCheck, ExitPcs
  <2>2. UNCHANGED roomState
    BY <1>3 DEF ReConnectRoom
  <2>3. UNCHANGED seats \/ TakesOver(t)
    BY <1>3 DEF ReConnectRoom, TakesOver, Same
  <2> QED BY <2>1, <2>2, <2>3
<1> QED BY <1>1, <1>2, <1>3 DEF TryReConnectGame

LEMMA SoloJoin ==
    ASSUME TypeInv, Matcher = "SINGLE", NEW t \in Threads,
           OnJoin(t) \/ SwitchAttach(t) \/ SwitchAccepted(t) \/ SwitchRefused(t)
    PROVE  SoloKind(t)
<1> USE DEF maps, player, world, locals, TypeInv, TypeOK, SoloMove, OutOfExit, SoloKind
<1>1. CASE JoinListedRoom(t)
  BY <1>1 DEF JoinListedRoom, Offered
<1>2. CASE CreateRoom(t) \/ CreateRefused(t) \/ SwitchAccepted(t) \/ SwitchRefused(t)
  <2>1. OutOfExit(t)
    BY <1>2 DEF CreateRoom, CreateRefused, SwitchAccepted, SwitchRefused, Go, WillCheck, ExitPcs
  <2>2. OpensRoom(t)
    BY <1>2 DEF CreateRoom, CreateRefused, SwitchAccepted, SwitchRefused, OpensRoom, Fresh
  <2> QED BY <2>1, <2>2
<1>3. CASE \/ FindNoRoom(t) \/ SetJoinedRoom(t) \/ SkipCreate(t) \/ ListRoom(t)
           \/ RecordPlayer(t) \/ SwitchAttach(t)
  BY <1>3 DEF FindNoRoom, SetJoinedRoom, SkipCreate, ListRoom, RecordPlayer, SwitchAttach,
              Go, WillCheck, ExitPcs
<1> QED BY <1>1, <1>2, <1>3 DEF OnJoin

LEMMA SoloStep ==
    ASSUME RegistryInv, TypeInv, SerialRooms, SoloInv,
           NEW t \in Threads, Proceed(t) \/ Environment(t),
           SoloKind(t)
    PROVE  SoloInv'
<1> DEFINE s == t.player
<1>0. TypeOK /\ s \in Sessions
  BY ThreadOfSession DEF RegistryInv
<1>1. \A u \in Threads : pc'[u] # "exitDispose" /\ (pc'[u] = "exitRead" => attached'[u.player])
  <2>1. ASSUME NEW u \in Threads, u # t
        PROVE  pc'[u] # "exitDispose" /\ (pc'[u] = "exitRead" => attached'[u.player])
    <3>1. OthersStay(t) /\ u.player \in Sessions
      BY <1>0, StepOfOne, ThreadOfSession
    <3>2. pc'[u] = pc[u]
      BY <2>1, <3>1 DEF OthersStay
    <3>3. pc[u] = "exitRead" => attached'[u.player] = attached[u.player]
      BY <2>1, <3>1, ExitUndisturbed DEF OthersStay
    <3> QED BY <3>2, <3>3 DEF SoloInv
  <2>2. pc'[t] # "exitDispose" /\ (pc'[t] = "exitRead" => attached'[t.player])
    BY DEF SoloKind, GivesUpSeat, GoesOn, SoloMove, OutOfExit
  <2> QED BY <2>1, <2>2
<1>2. \A u \in Threads, q \in Rooms : u # t => (WillCheck(u, q)' <=> WillCheck(u, q))
  BY OthersCheck
<1>3. CASE GivesUpSeat(t)
  BY <1>0, <1>1, <1>2, <1>3 DEF GivesUpSeat, SoloInv, TypeOK
<1>4. CASE GoesOn(t) /\ pc'[t] # "exitDispose"
  BY <1>0, <1>1, <1>2, <1>4 DEF GoesOn, SoloInv
<1>5. CASE SoloMove(t)
  <2>0. \A q \in Rooms, u \in Threads : WillCheck(u, q)' => u # t /\ WillCheck(u, q)
    BY <1>2, <1>5 DEF SoloMove, OutOfExit
  <2>1. CASE OpensRoom(t)
    <3>1. PICK q \in Rooms :
              /\ roomState[q] = "new"
              /\ \/ /\ roomState' = [roomState EXCEPT ![q] = "live"]
                    /\ seats' = [seats EXCEPT ![q] = Seat(seats[q], s)]
                 \/ roomState' = [roomState EXCEPT ![q] = "refused"] /\ UNCHANGED seats
      BY <2>1 DEF OpensRoom
    <3>2. seats[q] = {} /\ \A u \in Threads : ~WillCheck(u, q)
      BY <3>1 DEF SoloInv
    <3>3. Seat(seats[q], s) = {s}
      BY <3>2 DEF Seat
    <3> QED BY <1>0, <1>1, <2>0, <3>1, <3>2, <3>3 DEF SoloInv, TypeOK
  <2>2. CASE TakesOver(t)
    BY <1>0, <1>1, <2>0, <2>2 DEF TakesOver, SoloInv, TypeOK, Seat, Same
  <2>3. CASE DisposesRoom(t)
    BY <1>0, <1>1, <2>0, <2>3 DEF DisposesRoom, SoloInv, TypeOK
  <2>4. CASE UNCHANGED <<seats, roomState>>
    BY <1>0, <1>1, <2>0, <2>4 DEF SoloInv
  <2> QED BY <1>5, <2>1, <2>2, <2>3, <2>4 DEF SoloMove
<1> QED BY <1>3, <1>4, <1>5 DEF SoloKind

\* A single-player room is disposed of once: an ExitRoom about to dispose of it finds
\* it alive, for under the contract its player leaves it by one exit and nobody else
\* ever comes in.
THEOREM SoloDisposedOnce ==
    ASSUME SerialPlayers, SerialRooms, Matcher = "SINGLE" PROVE Spec => []DisposedOnce
<1>1. Init => SoloInv
  BY DEF Init, SoloInv, WillCheck, ExitPcs
<1>2. ASSUME RegistryInv, TypeInv, SoloInv, [Next]_vars PROVE SoloInv'
  <2>1. CASE UNCHANGED vars
    BY <1>2, <2>1 DEF vars, maps, player, world, locals, SoloInv, WillCheck
  <2>2. ASSUME NEW t \in Threads, Proceed(t) PROVE SoloInv'
    <3>1. CASE ExitRoom(t)
      BY <1>2, <2>2, <3>1, SoloExit, SoloStep
    <3>2. CASE ~ExitRoom(t)
      <4>1. t.goroutine = "conn"
        BY <2>2, <3>2 DEF Proceed
      <4>2. \/ TryReConnectGame(t) \/ OnJoin(t)
            \/ LeaveOldRoom(t) \/ SwitchAttach(t) \/ SwitchAccepted(t) \/ SwitchRefused(t)
        BY <2>2, <3>2 DEF Proceed, SwitchRoom
      <4>3. CASE LeaveOldRoom(t)
        BY <1>2, <2>2, <4>1, <4>3, ExitBegins, SoloStep DEF SoloKind
      <4>4. CASE TryReConnectGame(t)
        BY <1>2, <2>2, <4>4, SoloLogin, SoloStep
      <4>5. CASE OnJoin(t) \/ SwitchAttach(t) \/ SwitchAccepted(t) \/ SwitchRefused(t)
        BY <1>2, <2>2, <4>5, SoloJoin, SoloStep
      <4> QED BY <4>2, <4>3, <4>4, <4>5
    <3> QED BY <3>1, <3>2
  <2>3. ASSUME NEW t \in Threads, Environment(t) PROVE SoloInv'
    <3>1. t.goroutine = "conn" => StartLogin(t) \/ Disconnect(t) \/ StartSwitch(t)
      BY <2>3 DEF Environment
    <3>2. t.goroutine = "room" => Release(t)
      BY <2>3 DEF Environment
    <3>3. CASE t.goroutine = "conn"
      BY <1>2, <2>3, <3>1, <3>3, SoloLogin, SoloStep
    <3>4. CASE t.goroutine = "room"
      BY <1>2, <2>3, <3>2, <3>4, ExitBegins, SoloStep DEF SoloKind
    <3> QED BY <3>3, <3>4, ThreadOfSession
  <2> QED BY <1>2, <2>1, <2>2, <2>3 DEF Next
<1>3. TypeInv /\ SoloInv => DisposedOnce
  BY DEF TypeInv, TypeOK, SoloInv, DisposedOnce, WillCheck, ExitPcs
<1> QED BY <1>1, <1>2, <1>3, RegistryInvariant, TypeInvariant, PTL DEF Spec

-----------------------------------------------------------------------------
(* roomMapMu is let go.  The one way to leave it locked for good is a panic  *)
(* between Lock and Unlock: ExitRoom's, when the player has no room.         *)

\* A goroutine that leaves a room has a room to leave.
ExitsHaveRoom ==
    \A t \in Threads :
        /\ pc[t] = "exitRead" => room[t.player] \in Rooms /\ attached[t.player]
        /\ pc[t] \in ExitPcs \ {"exitRead"} => loc[t] \in Rooms

\* A step inside an exit, or outside of all exits.
ExitOrNot(t) ==
    \/ ReadRoom(t) \/ DeletePlayer(t) \/ UnmapPlayer(t) \/ CloseConn(t)
    \/ FindEmpty(t) \/ FindOccupied(t) \/ DisposeEmpty(t) \/ DisposeSingle(t)
    \/ pc'[t] \notin ExitPcs

LEMMA ExitSteps ==
    ASSUME TypeOK, NEW t \in Threads, Proceed(t) \/ Environment(t)
    PROVE  \/ ExitOrNot(t)
           \/ t.goroutine = "conn" /\ LeaveOldRoom(t)
           \/ t.goroutine = "room" /\ Release(t)
<1> USE DEF TypeOK, ExitOrNot, Go, ExitPcs
<1>1. CASE ExitRoom(t)
  BY <1>1 DEF ExitRoom, ExitNilRoom, FinishExit
<1>2. CASE t.goroutine = "conn" /\ TryReConnectGame(t)
  BY <1>2
  DEF TryReConnectGame, LookupRoom, CheckOldConn, CloseOldConn, StorePlayer, ReConnectRoom
<1>3. CASE t.goroutine = "conn" /\ OnJoin(t)
  BY <1>3
  DEF OnJoin, JoinListedRoom, FindNoRoom, SetJoinedRoom, SkipCreate, CreateRoom,
      CreateRefused, ListRoom, RecordPlayer
<1>4. CASE t.goroutine = "conn" /\ SwitchRoom(t)
  BY <1>4 DEF SwitchRoom, SwitchAttach, SwitchAccepted, SwitchRefused
<1>5. CASE Environment(t)
  BY <1>5 DEF Environment, StartLogin, Disconnect, StartSwitch
<1> QED BY <1>1, <1>2, <1>3, <1>4, <1>5 DEF Proceed

LEMMA ExitsHaveRoomStep ==
    ASSUME RegistryInv, SerialRooms, ExitsHaveRoom,
           NEW t \in Threads, Proceed(t) \/ Environment(t)
    PROVE  ExitsHaveRoom'
<1> USE DEF RegistryInv
<1>1. OthersStay(t)
  BY StepOfOne
<1>2. ASSUME NEW u \in Threads, u # t
      PROVE  /\ pc'[u] = "exitRead" => room'[u.player] \in Rooms /\ attached'[u.player]
             /\ pc'[u] \in ExitPcs \ {"exitRead"} => loc'[u] \in Rooms
  <2>1. pc'[u] = pc[u] /\ loc'[u] = loc[u]
    BY <1>1, <1>2 DEF OthersStay
  <2>2. ASSUME pc[u] = "exitRead"
        PROVE  room'[u.player] = room[u.player] /\ attached'[u.player] = attached[u.player]
    <3>1. CASE u.player = t.player
      BY <1>2, <2>2, <3>1, ExitUndisturbed
    <3>2. CASE u.player # t.player
      BY <1>1, <3>2, ThreadOfSession DEF OthersStay
    <3> QED BY <3>1, <3>2
  <2> QED BY <2>1, <2>2 DEF ExitsHaveRoom
<1>3. /\ pc'[t] = "exitRead" => room'[t.player] \in Rooms /\ attached'[t.player]
      /\ pc'[t] \in ExitPcs \ {"exitRead"} => loc'[t] \in Rooms
  <2>1. CASE \/ t.goroutine = "conn" /\ LeaveOldRoom(t)
             \/ t.goroutine = "room" /\ Release(t)
    <3>1. GivesUpSeat(t)
      BY <2>1, ExitBegins
    <3>2. \E r \in Rooms : WillCheck(t, r)'
      BY <3>1 DEF GivesUpSeat
    <3> QED BY <3>1, <3>2 DEF GivesUpSeat, WillCheck
  <2>2. CASE ReadRoom(t)
    <3>1. pc[t] = "exitRead" /\ pc'[t] \in {"idle", "exitDelete"}
      BY <2>2 DEF ReadRoom, Go, TypeOK
    <3>2. room[t.player] \in Rooms /\ attached[t.player]
      BY <3>1 DEF ExitsHaveRoom
    <3>3. loc'[t] = room[t.player]
      BY <2>2, <3>2 DEF ReadRoom, TypeOK
    <3> QED BY <3>1, <3>2, <3>3
  <2>3. CASE \/ DeletePlayer(t) \/ UnmapPlayer(t) \/ CloseConn(t) \/ FindEmpty(t)
             \/ FindOccupied(t) \/ DisposeEmpty(t) \/ DisposeSingle(t)
    <3>1. /\ pc[t] \in ExitPcs \ {"exitRead"} /\ pc'[t] # "exitRead"
          /\ loc' = loc
      BY <2>3
      DEF DeletePlayer, UnmapPlayer, CloseConn, FindEmpty, FindOccupied, DisposeEmpty,
          DisposeSingle, Go, ExitPcs, TypeOK, locals
    <3> QED BY <3>1 DEF ExitsHaveRoom
  <2>4. CASE pc'[t] \notin ExitPcs
    BY <2>4 DEF ExitPcs
  <2> QED BY <2>1, <2>2, <2>3, <2>4, ExitSteps DEF ExitOrNot
<1> QED BY <1>2, <1>3 DEF ExitsHaveRoom

\* What a step does to roomMapMu, if it is not ExitRoom's panic.
LEMMA MutexStep ==
    ASSUME TypeOK, NEW t \in Threads, Proceed(t) \/ Environment(t), ~ExitNilRoom(t)
    PROVE  \/ roomMapMu' = Nil
           \/ roomMapMu' = t /\ pc'[t] \in LockedPcs
           \/ UNCHANGED roomMapMu /\ (pc[t] \in LockedPcs => pc'[t] \in LockedPcs)
<1> USE DEF TypeOK, Go, LockedPcs
<1>1. CASE ExitRoom(t)
  BY <1>1
  DEF ExitRoom, ReadRoom, DeletePlayer, UnmapPlayer, CloseConn, FindEmpty, FindOccupied,
      DisposeEmpty, DisposeSingle, FinishExit, Lock
<1>2. CASE TryReConnectGame(t)
  BY <1>2
  DEF TryReConnectGame, LookupRoom, CheckOldConn, CloseOldConn, StorePlayer, ReConnectRoom
<1>3. CASE OnJoin(t)
  <2>1. CASE JoinListedRoom(t) \/ FindNoRoom(t)
    BY <2>1 DEF JoinListedRoom, FindNoRoom, LockJoin, Lock
  <2>2. CASE \/ SetJoinedRoom(t) \/ SkipCreate(t) \/ CreateRoom(t) \/ CreateRefused(t)
             \/ ListRoom(t) \/ RecordPlayer(t)
    BY <2>2
    DEF SetJoinedRoom, SkipCreate, CreateRoom, CreateRefused, ReturnUnlocked, ListRoom,
        RecordPlayer
  <2> QED BY <1>3, <2>1, <2>2 DEF OnJoin
<1>4. CASE SwitchRoom(t)
  BY <1>4 DEF SwitchRoom, LeaveOldRoom, SwitchAttach, SwitchAccepted, SwitchRefused, Lock
<1>5. CASE Environment(t)
  BY <1>5 DEF Environment, StartLogin, Disconnect, StartSwitch, Release
<1> QED BY <1>1, <1>2, <1>3, <1>4, <1>5 DEF Proceed

\* roomMapMu is never left locked by a goroutine that returns or panics: under the
\* contracts an exit always has a room, so that GetPlayerNum, between Lock and an
\* Unlock that is not deferred, is never called on nil.
THEOREM MutexNeverLeft ==
    ASSUME SerialPlayers, SerialRooms PROVE Spec => [](HolderWillUnlock /\ ExitsHaveRoom)
<1>1. Init => HolderWillUnlock /\ ExitsHaveRoom
  BY DEF Init, HolderWillUnlock, ExitsHaveRoom, ExitPcs
<1>2. ASSUME RegistryInv, HolderWillUnlock, ExitsHaveRoom, [Next]_vars
      PROVE  (HolderWillUnlock /\ ExitsHaveRoom)'
  <2>1. CASE UNCHANGED vars
    BY <1>2, <2>1 DEF vars, HolderWillUnlock, ExitsHaveRoom
  <2>2. ASSUME NEW t \in Threads, Proceed(t) \/ Environment(t)
        PROVE  (HolderWillUnlock /\ ExitsHaveRoom)'
    <3>1. ~ExitNilRoom(t)
      <4>1. SUFFICES ASSUME ExitNilRoom(t) PROVE FALSE
        OBVIOUS
      <4>2. pc[t] = "exitCheck" /\ loc[t] = Nil
        BY <4>1 DEF ExitNilRoom, Go
      <4>3. loc[t] \in Rooms
        BY <1>2, <4>2 DEF ExitsHaveRoom, ExitPcs
      <4> QED BY <4>2, <4>3, ConstantsAssumption
    <3>2. ASSUME NEW u \in Threads, u # t PROVE pc'[u] = pc[u]
      BY <1>2, <2>2, <3>2, StepOfOne DEF RegistryInv, OthersStay
    <3>3. roomMapMu \in Threads \cup {Nil} /\ Nil \notin Threads
      BY <1>2, ConstantsAssumption DEF RegistryInv, TypeOK
    <3>4. HolderWillUnlock'
      BY <1>2, <2>2, <3>1, <3>2, <3>3, MutexStep DEF RegistryInv, HolderWillUnlock
    <3> QED BY <1>2, <2>2, <3>4, ExitsHaveRoomStep
  <2> QED BY <1>2, <2>1, <2>2 DEF Next
<1> QED BY <1>1, <1>2, RegistryInvariant, PTL DEF Spec

=============================================================================
