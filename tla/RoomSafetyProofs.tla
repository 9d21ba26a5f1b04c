------------------------- MODULE RoomSafetyProofs -------------------------
(***************************************************************************)
(* With rtp matching the manager keeps its rooms in order whatever players *)
(* and rooms do at the same time: the theorems hold for every value of     *)
(* SerialRooms and SerialPlayers.                                          *)
(*                                                                         *)
(* The argument.  roomMapMu makes every step that lists a room, unlists    *)
(* one, seats a player in a listed room or sees a room empty the business  *)
(* of a single goroutine (Locking).  What that goroutine has seen          *)
(* therefore stays true until it acts: the room it is opening stays        *)
(* unlisted (OpeningRoom), the room it found empty stays empty             *)
(* (DisposingEmpty).  The one way into a room past the mutex, OnReConnect, *)
(* gives a player a seat he already has.                                   *)
(***************************************************************************)
EXTENDS RoomManagerProofs

USE DEF maps, player, world, locals

\* The lock protocol: at most one goroutine is between Lock and Unlock.
Locking == \A t \in Threads : pc[t] \in LockedPcs => roomMapMu = t

\* The goroutine that will list a room knows its type.
TypeChosen ==
    \A t \in Threads :
        pc[t] \in {"setRoom", "create", "list", "listSwitched"} => want[t.player] \in RoomTypes

OpeningRoom ==
    \A t \in Threads : pc[t] \in {"list", "listSwitched"} =>
        /\ roomState[loc[t]] = "live"
        /\ \A ty \in RoomTypes : loc[t] \notin roomMap[ty]

DisposingEmpty == \A t \in Threads : pc[t] = "exitDispose" => seats[loc[t]] = {}

\* A room that is not in use has no players and is on no list.
OutOfUse ==
    \A r \in Rooms : roomState[r] # "live" =>
        seats[r] = {} /\ \A ty \in RoomTypes : r \notin roomMap[ty]

OnAList(r) == \E ty \in RoomTypes : r \in roomMap[ty]

BeingOpened(r) == \E t \in Threads : pc[t] \in {"list", "listSwitched"} /\ loc[t] = r

SeatedIsKnown == \A r \in Rooms : seats[r] # {} => OnAList(r) \/ BeingOpened(r)

RoomInv ==
    /\ TypeInv
    /\ Locking
    /\ TypeChosen
    /\ OpeningRoom
    /\ DisposingEmpty
    /\ OutOfUse
    /\ SeatedIsKnown

LEMMA InitRoomInv == Init => RoomInv
<1> SUFFICES ASSUME Init PROVE RoomInv
  OBVIOUS
<1>1. TypeInv
  BY InitType
<1>2. Locking /\ TypeChosen /\ OpeningRoom /\ DisposingEmpty
  BY ConstantsAssumption DEF Init, Threads, Locking, TypeChosen, OpeningRoom, DisposingEmpty, LockedPcs
<1>3. OutOfUse /\ SeatedIsKnown
  BY DEF Init, OutOfUse, SeatedIsKnown
<1> QED BY <1>1, <1>2, <1>3 DEF RoomInv

\* A step outside the locked sections disturbs nothing, as long as it fills no
\* empty room and brings no room into use or out of it.
Quiet(t) ==
    /\ pc[t] \notin LockedPcs
    /\ pc'[t] \notin LockedPcs
    /\ \A u \in Threads : u # t => pc'[u] = pc[u]
    /\ \A u \in Threads : u # t => loc'[u] = loc[u]
    /\ UNCHANGED <<roomMap, want>>
    /\ roomMapMu' = roomMapMu \/ roomMapMu = Nil
    /\ \A r \in Rooms : seats[r] = {} => seats'[r] = {}
    /\ \A r \in Rooms : roomState'[r] = "live" <=> roomState[r] = "live"

LEMMA QuietStep ==
    ASSUME RoomInv, TypeOK', HeldRoomIsRoom', NEW t \in Threads, Quiet(t)
    PROVE  RoomInv'
<1> USE DEF RoomInv, TypeInv, TypeOK, Quiet
<1>1. \A u \in Threads : pc'[u] \in LockedPcs => u # t /\ pc[u] = pc'[u] /\ loc'[u] = loc[u]
  OBVIOUS
<1>2. Locking'
  <2> SUFFICES ASSUME NEW u \in Threads, pc'[u] \in LockedPcs PROVE roomMapMu' = u
    BY DEF Locking, LockedPcs
  <2>1. roomMapMu = u
    BY <1>1 DEF Locking
  <2> QED BY <2>1, ConstantsAssumption
<1> USE DEF LockedPcs
<1>3. TypeChosen'
  BY <1>1 DEF TypeChosen
<1>4. OpeningRoom'
  BY <1>1 DEF OpeningRoom, HeldRoomIsRoom
<1>5. DisposingEmpty'
  BY <1>1 DEF DisposingEmpty, HeldRoomIsRoom
<1>6. OutOfUse'
  BY DEF OutOfUse
<1>7. SeatedIsKnown'
  <2> SUFFICES ASSUME NEW r \in Rooms, seats'[r] # {}, ~OnAList(r)
               PROVE  BeingOpened(r)'
    BY DEF SeatedIsKnown, OnAList
  <2>1. PICK u \in Threads : pc[u] \in {"list", "listSwitched"} /\ loc[u] = r
    BY DEF SeatedIsKnown, BeingOpened
  <2> QED BY <2>1 DEF BeingOpened
<1> QED BY <1>2, <1>3, <1>4, <1>5, <1>6, <1>7

\* A step into, inside or out of a locked section: no other goroutine is in
\* one, so only what concerns t is left to prove.
LEMMA Alone ==
    ASSUME RoomInv, NEW t \in Threads, roomMapMu = Nil \/ pc[t] \in LockedPcs
    PROVE  \A u \in Threads : u # t => pc[u] \notin LockedPcs
BY ConstantsAssumption DEF RoomInv, Locking

Exclusive(t) ==
    /\ roomMapMu = Nil \/ pc[t] \in LockedPcs
    /\ pc'[t] \in LockedPcs => roomMapMu' = t
    /\ \A u \in Threads : u # t => pc'[u] = pc[u]
    /\ pc'[t] \in {"setRoom", "create", "list", "listSwitched"}
          => want'[t.player] \in RoomTypes
    /\ pc'[t] \in {"list", "listSwitched"} =>
          /\ roomState'[loc'[t]] = "live"
          /\ \A ty \in RoomTypes : loc'[t] \notin roomMap'[ty]
    /\ pc'[t] = "exitDispose" => seats'[loc'[t]] = {}

LEMMA LockedStep ==
    ASSUME RoomInv, TypeOK', HeldRoomIsRoom', NEW t \in Threads, Exclusive(t),
           OutOfUse',
           \A r \in Rooms : seats'[r] # {} =>
               \/ OnAList(r)'
               \/ pc'[t] \in {"list", "listSwitched"} /\ loc'[t] = r
    PROVE  RoomInv'
<1> USE DEF RoomInv, TypeInv, Exclusive
<1>1. \A u \in Threads : pc'[u] \in LockedPcs => u = t
  BY Alone
<1>2. Locking'
  BY <1>1 DEF Locking, LockedPcs
<1>3. TypeChosen' /\ OpeningRoom' /\ DisposingEmpty'
  BY <1>1 DEF TypeChosen, OpeningRoom, DisposingEmpty, LockedPcs
<1>4. SeatedIsKnown'
  BY DEF SeatedIsKnown, BeingOpened
<1> QED BY <1>2, <1>3, <1>4

LEMMA TypeInvStep == RoomInv /\ [Next]_vars => TypeOK' /\ HeldRoomIsRoom'
  BY TypeStep, HeldRoomStep DEF RoomInv

LEMMA ReConnectStep ==
    ASSUME RoomInv, NEW t \in Threads, TryReConnectGame(t)
    PROVE  Quiet(t)
<1> USE DEF RoomInv, TypeInv, TypeOK, Go, Quiet, Pcs, LoginPcs, LockedPcs
<1>1. CASE LookupRoom(t)
  BY <1>1 DEF LookupRoom
<1>2. CASE CheckOldConn(t)
  BY <1>2 DEF CheckOldConn
<1>3. CASE CloseOldConn(t)
  BY <1>3 DEF CloseOldConn
<1>4. CASE StorePlayer(t)
  BY <1>4 DEF StorePlayer
<1>5. CASE ReConnectRoom(t)
  <2>1. \A r \in Rooms : seats[r] = {} => seats'[r] = {}
    BY <1>5 DEF ReConnectRoom
  <2>2. \E p \in {"playing", "gone", "panic"} : pc' = [pc EXCEPT ![t] = p]
    BY <1>5 DEF ReConnectRoom
  <2> QED BY <1>5, <2>1, <2>2 DEF ReConnectRoom
<1> QED BY <1>1, <1>2, <1>3, <1>4, <1>5 DEF TryReConnectGame

LEMMA ExitQuiet ==
    ASSUME RoomInv, Matcher = "RTP", NEW t \in Threads, ExitRoom(t)
    PROVE  Quiet(t) \/ FindEmpty(t) \/ DisposeEmpty(t)
<1> USE DEF RoomInv, TypeInv, TypeOK, Go, Quiet, LockedPcs
<1>1. CASE ReadRoom(t) \/ DeletePlayer(t) \/ UnmapPlayer(t) \/ CloseConn(t)
  BY <1>1 DEF ReadRoom, DeletePlayer, UnmapPlayer, CloseConn
<1>2. CASE ExitNilRoom(t)
  BY <1>2 DEF ExitNilRoom, Detach
<1>3. CASE FindOccupied(t)
  BY <1>3 DEF FindOccupied
<1>4. CASE FinishExit(t)
  BY <1>4 DEF FinishExit, Detach
<1> QED BY <1>1, <1>2, <1>3, <1>4 DEF ExitRoom, DisposeSingle

LEMMA SwitchQuiet ==
    ASSUME RoomInv, NEW t \in Threads, SwitchRoom(t)
    PROVE  Quiet(t) \/ SwitchAccepted(t)
<1> USE DEF RoomInv, TypeInv, TypeOK, Go, Quiet, LockedPcs
<1>1. CASE LeaveOldRoom(t)
  BY <1>1 DEF LeaveOldRoom, Unseated
<1>2. CASE SwitchAttach(t)
  BY <1>2 DEF SwitchAttach
<1>3. CASE SwitchRefused(t)
  BY <1>3 DEF SwitchRefused, Fresh
<1> QED BY <1>1, <1>2, <1>3 DEF SwitchRoom

LEMMA EnvironmentQuiet ==
    ASSUME RoomInv, NEW t \in Threads, Environment(t)
    PROVE  Quiet(t)
<1> USE DEF RoomInv, TypeInv, TypeOK, Go, Quiet, LockedPcs
<1>1. CASE StartLogin(t) \/ Disconnect(t) \/ StartSwitch(t)
  BY <1>1 DEF StartLogin, Disconnect, StartSwitch
<1>2. CASE Release(t)
  BY <1>2 DEF Release
<1> QED BY <1>1, <1>2 DEF Environment

LEMMA OnJoinStep ==
    ASSUME RoomInv, TypeOK', HeldRoomIsRoom', Matcher = "RTP",
           NEW t \in Threads, OnJoin(t)
    PROVE  RoomInv'
<1> USE DEF Go
<1>1. CASE JoinListedRoom(t)
  <2>1. PICK ty \in RoomTypes, r \in Listed :
           /\ r \in roomMap[ty]
           /\ LockJoin(t, ty)
           /\ Go(t, "join", "setRoom")
           /\ seats' = [seats EXCEPT ![r] = Seat(@, t.player)]
           /\ UNCHANGED <<roomMap, roomState>>
    BY <1>1 DEF JoinListedRoom, Offered, Listed
  <2>2. r \in Rooms
    BY <2>1 DEF RoomInv, TypeInv, TypeOK
  <2>3. Exclusive(t)
    BY <2>1 DEF RoomInv, TypeInv, TypeOK, Exclusive, LockJoin, Lock, Threads, LockedPcs
  <2>4. OutOfUse'
    BY <2>1, <2>2 DEF RoomInv, TypeInv, TypeOK, OutOfUse
  <2>5. \A q \in Rooms : seats'[q] # {} => OnAList(q)'
    <3> SUFFICES ASSUME NEW q \in Rooms, seats'[q] # {} PROVE OnAList(q)
      BY <2>1 DEF OnAList
    <3>1. CASE q = r
      BY <3>1, <2>1 DEF OnAList
    <3>2. CASE q # r
      <4>1. seats[q] # {}
        BY <3>2, <2>1, <2>2 DEF RoomInv, TypeInv, TypeOK
      <4>2. ~BeingOpened(q)
        BY <2>1, Alone DEF LockJoin, Lock, BeingOpened, LockedPcs
      <4> QED BY <4>1, <4>2 DEF RoomInv, SeatedIsKnown
    <3> QED BY <3>1, <3>2
  <2> QED BY <2>3, <2>4, <2>5, LockedStep
<1>2. CASE FindNoRoom(t)
  <2>1. PICK ty \in RoomTypes : LockJoin(t, ty) /\ Go(t, "join", "create")
    BY <1>2 DEF FindNoRoom
  <2>2. UNCHANGED <<roomMap, seats, roomState, loc>>
    BY <1>2 DEF FindNoRoom
  <2>3. Exclusive(t)
    BY <2>1, <2>2 DEF RoomInv, TypeInv, TypeOK, Exclusive, LockJoin, Lock, Threads
  <2>4. OutOfUse'
    BY <2>2 DEF RoomInv, OutOfUse
  <2>5. \A q \in Rooms : seats'[q] # {} => OnAList(q)'
    BY <2>1, <2>2, Alone DEF RoomInv, SeatedIsKnown, BeingOpened, OnAList, LockJoin, Lock, LockedPcs
  <2> QED BY <2>3, <2>4, <2>5, LockedStep
<1>3. CASE SetJoinedRoom(t) \/ SkipCreate(t)
  <2>1. UNCHANGED <<roomMap, seats, roomState>>
    BY <1>3 DEF SetJoinedRoom, SkipCreate
  <2>2. Exclusive(t)
    BY <1>3 DEF SetJoinedRoom, SkipCreate, RoomInv, TypeInv, TypeOK, Locking, TypeChosen,
                Exclusive, LockedPcs
  <2>3. OutOfUse'
    BY <2>1 DEF RoomInv, OutOfUse
  <2>4. \A q \in Rooms : seats'[q] # {} => OnAList(q)'
    BY <1>3, <2>1, Alone DEF SetJoinedRoom, SkipCreate, RoomInv, SeatedIsKnown, BeingOpened,
                             OnAList, LockedPcs
  <2> QED BY <2>2, <2>3, <2>4, LockedStep
<1>4. CASE CreateRoom(t)
  <2>1. PICK r \in Rooms :
           /\ Fresh(r)
           /\ Go(t, "create", "list")
           /\ roomState' = [roomState EXCEPT ![r] = "live"]
           /\ seats' = [seats EXCEPT ![r] = Seat(@, t.player)]
           /\ loc' = [loc EXCEPT ![t] = r]
           /\ UNCHANGED <<roomMap, roomMapMu, want>>
    BY <1>4, ConstantsAssumption DEF CreateRoom, Go, RoomInv, TypeChosen
  <2>2. Exclusive(t)
    BY <2>1 DEF RoomInv, TypeInv, TypeOK, Locking, TypeChosen, OutOfUse, Exclusive, LockedPcs, Fresh
  <2>3. OutOfUse'
    BY <2>1 DEF RoomInv, TypeInv, TypeOK, OutOfUse
  <2>4. pc'[t] = "list" /\ loc'[t] = r
    BY <2>1 DEF RoomInv, TypeInv, TypeOK
  <2>5. ASSUME NEW q \in Rooms, q # r, seats'[q] # {} PROVE OnAList(q)'
    <3>1. seats[q] # {}
      BY <2>1, <2>5 DEF RoomInv, TypeInv, TypeOK
    <3>2. ~BeingOpened(q)
      BY <2>1, Alone DEF BeingOpened, LockedPcs
    <3> QED BY <3>1, <3>2, <2>1 DEF RoomInv, SeatedIsKnown, OnAList
  <2> QED BY <2>2, <2>3, <2>4, <2>5, LockedStep
<1>5. CASE CreateRefused(t)
  <2>1. PICK r \in Rooms : Fresh(r) /\ roomState' = [roomState EXCEPT ![r] = "refused"]
    BY <1>5 DEF CreateRefused
  <2>2. Go(t, "create", "gone") /\ UNCHANGED <<roomMap, seats>>
    BY <1>5 DEF CreateRefused
  <2>3. Exclusive(t)
    BY <2>2 DEF RoomInv, TypeInv, TypeOK, Exclusive, LockedPcs
  <2>4. OutOfUse'
    BY <2>1, <2>2 DEF RoomInv, TypeInv, TypeOK, OutOfUse, Fresh
  <2>5. \A q \in Rooms : seats'[q] # {} => OnAList(q)'
    BY <2>2, Alone DEF RoomInv, SeatedIsKnown, BeingOpened, OnAList, LockedPcs
  <2> QED BY <2>3, <2>4, <2>5, LockedStep
<1>6. CASE ListRoom(t)
  <2> DEFINE ty == want[t.player]
  <2>1. /\ pc[t] \in {"list", "listSwitched"}
        /\ pc' = [pc EXCEPT ![t] = "record"]
        /\ UNCHANGED <<seats, roomState>>
    BY <1>6 DEF ListRoom
  <2>2. ty # Nil /\ ty \in RoomTypes
    BY <2>1, ConstantsAssumption DEF RoomInv, TypeChosen
  <2>3. roomMap' = [roomMap EXCEPT ![ty] = @ \cup {loc[t]}]
    BY <1>6, <2>2 DEF ListRoom
  <2>4. Exclusive(t)
    BY <2>1 DEF RoomInv, TypeInv, TypeOK, Exclusive, LockedPcs
  <2>5. /\ loc[t] \in Rooms /\ roomState[loc[t]] = "live"
        /\ \A y \in RoomTypes : loc[t] \notin roomMap[y]
    BY <2>1 DEF RoomInv, TypeInv, HeldRoomIsRoom, OpeningRoom
  <2>6. OutOfUse'
    BY <2>1, <2>2, <2>3, <2>5 DEF RoomInv, TypeInv, TypeOK, OutOfUse
  <2>7. \A q \in Rooms : seats'[q] # {} => OnAList(q)'
    <3> SUFFICES ASSUME NEW q \in Rooms, seats[q] # {} PROVE OnAList(q)'
      BY <2>1
    <3>1. CASE q = loc[t]
      BY <3>1, <2>2, <2>3 DEF RoomInv, TypeInv, TypeOK, OnAList
    <3>2. CASE q # loc[t]
      <4>1. OnAList(q)
        BY <3>2, <2>1, Alone DEF RoomInv, SeatedIsKnown, BeingOpened, LockedPcs
      <4> QED BY <4>1, <2>2, <2>3 DEF RoomInv, TypeInv, TypeOK, OnAList
    <3> QED BY <3>1, <3>2
  <2> QED BY <2>4, <2>6, <2>7, LockedStep
<1>7. CASE RecordPlayer(t)
  <2>1. Quiet(t)
    BY <1>7 DEF RecordPlayer, RoomInv, TypeInv, TypeOK, Quiet, LockedPcs
  <2> QED BY <2>1, QuietStep
<1> QED BY <1>1, <1>2, <1>3, <1>4, <1>5, <1>6, <1>7 DEF OnJoin

LEMMA DisposalStep ==
    ASSUME RoomInv, TypeOK', HeldRoomIsRoom', Matcher = "RTP",
           NEW t \in Threads, FindEmpty(t) \/ DisposeEmpty(t)
    PROVE  RoomInv'
<1> USE DEF Go
<1>1. CASE FindEmpty(t)
  <2>1. UNCHANGED <<roomMap, seats, roomState, loc>>
    BY <1>1 DEF FindEmpty
  <2>2. Exclusive(t)
    BY <1>1 DEF FindEmpty, Empty, Lock, RoomInv, TypeInv, TypeOK, Exclusive
  <2>3. OutOfUse'
    BY <2>1 DEF RoomInv, OutOfUse
  <2>4. \A q \in Rooms : seats'[q] # {} => OnAList(q)'
    BY <1>1, <2>1, Alone DEF FindEmpty, Lock, RoomInv, SeatedIsKnown, BeingOpened, OnAList, LockedPcs
  <2> QED BY <2>2, <2>3, <2>4, LockedStep
<1>2. CASE DisposeEmpty(t)
  <2>1. /\ pc[t] = "exitDispose"
        /\ pc' = [pc EXCEPT ![t] = "exitClear"]
        /\ roomMap' = [ty \in RoomTypes |-> roomMap[ty] \ {loc[t]}]
        /\ roomState' = [roomState EXCEPT ![loc[t]] = "disposed"]
        /\ UNCHANGED seats
    BY <1>2 DEF DisposeEmpty, Delist
  <2>2. loc[t] \in Rooms /\ seats[loc[t]] = {}
    BY <2>1 DEF RoomInv, TypeInv, HeldRoomIsRoom, DisposingEmpty
  <2>3. Exclusive(t)
    BY <2>1 DEF RoomInv, TypeInv, TypeOK, Exclusive, LockedPcs
  <2>4. OutOfUse'
    BY <2>1, <2>2 DEF RoomInv, TypeInv, TypeOK, OutOfUse
  <2>5. \A q \in Rooms : seats'[q] # {} => OnAList(q)'
    <3> SUFFICES ASSUME NEW q \in Rooms, seats[q] # {} PROVE OnAList(q)'
      BY <2>1
    <3>1. ~BeingOpened(q)
      BY <2>1, Alone DEF BeingOpened, LockedPcs
    <3> QED BY <3>1, <2>1, <2>2 DEF RoomInv, SeatedIsKnown, OnAList
  <2> QED BY <2>3, <2>4, <2>5, LockedStep
<1> QED BY <1>1, <1>2

LEMMA SwitchAcceptedStep ==
    ASSUME RoomInv, TypeOK', HeldRoomIsRoom', NEW t \in Threads, SwitchAccepted(t)
    PROVE  RoomInv'
<1>1. PICK r \in Rooms, ty \in RoomTypes :
         /\ Lock(t)
         /\ Fresh(r)
         /\ Go(t, "switchCreate", "listSwitched")
         /\ want' = [want EXCEPT ![t.player] = ty]
         /\ roomState' = [roomState EXCEPT ![r] = "live"]
         /\ seats' = [seats EXCEPT ![r] = Seat(@, t.player)]
         /\ loc' = [loc EXCEPT ![t] = r]
         /\ UNCHANGED roomMap
  BY DEF SwitchAccepted
<1>2. pc'[t] = "listSwitched" /\ loc'[t] = r
  BY <1>1 DEF RoomInv, TypeInv, TypeOK, Go
<1>3. Exclusive(t)
  <2>1. /\ t.player \in Sessions
        /\ \A y \in RoomTypes : r \notin roomMap[y]
    BY <1>1 DEF RoomInv, OutOfUse, Fresh, Threads
  <2>2. want'[t.player] = ty /\ roomState'[r] = "live"
    BY <1>1, <2>1 DEF RoomInv, TypeInv, TypeOK
  <2>3. \A u \in Threads : u # t => pc'[u] = pc[u]
    BY <1>1 DEF RoomInv, TypeInv, TypeOK, Go
  <2> QED BY <1>1, <1>2, <2>1, <2>2, <2>3 DEF Exclusive, Lock
<1>4. OutOfUse'
  BY <1>1 DEF RoomInv, TypeInv, TypeOK, OutOfUse
<1>5. ASSUME NEW q \in Rooms, q # r, seats'[q] # {} PROVE OnAList(q)'
  <2>1. seats[q] # {}
    BY <1>1, <1>5 DEF RoomInv, TypeInv, TypeOK
  <2>2. ~BeingOpened(q)
    BY <1>1, Alone DEF BeingOpened, LockedPcs, Lock, Go
  <2> QED BY <2>1, <2>2, <1>1 DEF RoomInv, SeatedIsKnown, OnAList
<1> QED BY <1>2, <1>3, <1>4, <1>5, LockedStep

LEMMA RoomInvStep == Matcher = "RTP" /\ RoomInv /\ [Next]_vars => RoomInv'
<1> SUFFICES ASSUME Matcher = "RTP", RoomInv, [Next]_vars PROVE RoomInv'
  OBVIOUS
<1>1. TypeOK' /\ HeldRoomIsRoom'
  BY TypeInvStep
<1>2. CASE UNCHANGED vars
  <2>1. Locking' /\ TypeChosen' /\ OpeningRoom' /\ DisposingEmpty'
    BY <1>2 DEF vars, RoomInv, Locking, TypeChosen, OpeningRoom, DisposingEmpty
  <2>2. OutOfUse'
    BY <1>2 DEF vars, RoomInv, OutOfUse
  <2>3. SeatedIsKnown'
    BY <1>2 DEF vars, RoomInv, SeatedIsKnown, OnAList, BeingOpened
  <2> QED BY <1>1, <2>1, <2>2, <2>3 DEF RoomInv, TypeInv
<1>3. ASSUME NEW t \in Threads, Proceed(t) PROVE RoomInv'
  BY <1>1, <1>3, QuietStep, ReConnectStep, ExitQuiet, SwitchQuiet, OnJoinStep, DisposalStep,
     SwitchAcceptedStep DEF Proceed
<1>4. ASSUME NEW t \in Threads, Environment(t) PROVE RoomInv'
  BY <1>1, <1>4, EnvironmentQuiet, QuietStep
<1> QED BY <1>2, <1>3, <1>4 DEF Next

LEMMA RoomInvariant == ASSUME Matcher = "RTP" PROVE Spec => []RoomInv
<1>1. RoomInv /\ [Next]_vars => RoomInv'
  BY RoomInvStep
<1> QED BY InitRoomInv, <1>1, PTL DEF Spec

\* OnJoin never finds a disposed room on its list.
THEOREM NoDisposedRoomIsListed == Spec => []NoDisposedRoomListed
<1>1. CASE Matcher = "RTP"
  <2>1. RoomInv => NoDisposedRoomListed
    BY DEF RoomInv, TypeInv, TypeOK, OutOfUse, NoDisposedRoomListed, Listed
  <2> QED BY <1>1, <2>1, RoomInvariant, PTL
<1>2. CASE Matcher # "RTP"
  <2>1. NoDisposedRoomListed
    BY <1>2 DEF NoDisposedRoomListed
  <2> QED BY <2>1, PTL
<1> QED BY <1>1, <1>2

\* Nobody is left sitting in a room that ExitRoom disposed of.
THEOREM DisposedRoomsAreEmpty == ASSUME Matcher = "RTP" PROVE Spec => []DisposedRoomEmpty
<1>1. RoomInv => DisposedRoomEmpty
  BY DEF RoomInv, OutOfUse, DisposedRoomEmpty
<1> QED BY <1>1, RoomInvariant, PTL

\* A room in use stays open to the players of its rtp.
THEOREM SeatedRoomsAreListed == Spec => []SeatedRoomListed
<1>1. CASE Matcher = "RTP"
  <2>1. RoomInv => SeatedRoomListed
    BY DEF RoomInv, SeatedIsKnown, OnAList, BeingOpened, SeatedRoomListed, Listed
  <2> QED BY <1>1, <2>1, RoomInvariant, PTL
<1>2. CASE Matcher # "RTP"
  <2>1. SeatedRoomListed
    BY <1>2 DEF SeatedRoomListed
  <2> QED BY <2>1, PTL
<1> QED BY <1>1, <1>2
=============================================================================
