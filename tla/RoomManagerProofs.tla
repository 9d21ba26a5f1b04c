------------------------- MODULE RoomManagerProofs -------------------------
EXTENDS RoomManager, TLAPS

USE DEF maps, player, world, locals

TypeInv == TypeOK /\ HeldRoomIsRoom

LEMMA InitType == Init => TypeInv
  BY ConstantsAssumption DEF Init, TypeInv, TypeOK, HeldRoomIsRoom, Threads, Pcs

LEMMA TypeStep == TypeInv /\ [Next]_vars => TypeOK'
<1> SUFFICES ASSUME TypeInv, [Next]_vars PROVE TypeOK'
  OBVIOUS
<1> USE ConstantsAssumption DEF TypeOK, TypeInv, Threads, Pcs, LoginPcs, ExitPcs, SwitchPcs, Go, ConnOf, RoomOf
<1>1. CASE UNCHANGED vars
  BY <1>1 DEF vars
<1>2. ASSUME NEW t \in Threads, TryReConnectGame(t) PROVE TypeOK'
  <2>1. CASE LookupRoom(t)
    BY <2>1 DEF LookupRoom, RoomFound
  <2>2. CASE CheckOldConn(t)
    BY <2>2 DEF CheckOldConn
  <2>3. CASE CloseOldConn(t)
    BY <2>3 DEF CloseOldConn
  <2>4. CASE StorePlayer(t)
    BY <2>4 DEF StorePlayer, Register
  <2>5. CASE ReConnectRoom(t)
    <3>1. conn' \in [Sessions -> {"open", "closed", "nil"}]
      BY <2>5 DEF ReConnectRoom, Hangup
    <3>2. seats' \in [Rooms -> SUBSET Sessions]
      BY <2>5 DEF ReConnectRoom, Seat
    <3>3. pc' \in [Threads -> Pcs] /\ loc' \in [Threads -> Rooms \cup {Nil}]
      BY <2>5 DEF ReConnectRoom
    <3> QED BY <2>5, <3>1, <3>2, <3>3 DEF ReConnectRoom
  <2> QED BY <1>2, <2>1, <2>2, <2>3, <2>4, <2>5 DEF TryReConnectGame
<1>3. ASSUME NEW t \in Threads, OnJoin(t) PROVE TypeOK'
  <2>1. CASE JoinListedRoom(t)
    <3>1. PICK ty \in RoomTypes : \E r \in Offered(ty) :
             /\ LockJoin(t, ty)
             /\ Go(t, "join", "setRoom")
             /\ seats' = [seats EXCEPT ![r] = Seat(@, t.player)]
             /\ loc' = [loc EXCEPT ![t] = r]
             /\ UNCHANGED <<maps, room, conn, roomState, old, switches>>
      BY <2>1 DEF JoinListedRoom
    <3>2. PICK r \in Rooms :
             /\ LockJoin(t, ty)
             /\ Go(t, "join", "setRoom")
             /\ seats' = [seats EXCEPT ![r] = Seat(@, t.player)]
             /\ loc' = [loc EXCEPT ![t] = r]
             /\ UNCHANGED <<maps, room, conn, roomState, old, switches>>
      BY <3>1 DEF Offered
    <3>3. want' \in [Sessions -> RoomTypes \cup {Nil}] /\ roomMapMu' \in Threads \cup {Nil}
          /\ attached' \in [Sessions -> BOOLEAN]
      BY <3>2 DEF LockJoin, Lock
    <3>4. seats' \in [Rooms -> SUBSET Sessions]
      BY <3>2 DEF Seat
    <3>5. pc' \in [Threads -> Pcs] /\ loc' \in [Threads -> Rooms \cup {Nil}]
      BY <3>2
    <3> QED BY <3>2, <3>3, <3>4, <3>5
  <2>2. CASE FindNoRoom(t)
    BY <2>2 DEF FindNoRoom, LockJoin, Lock
  <2>3. CASE SetJoinedRoom(t)
    BY <2>3 DEF SetJoinedRoom, Taken
  <2>4. CASE SkipCreate(t)
    BY <2>4 DEF SkipCreate
  <2>5. CASE CreateRoom(t)
    <3>1. PICK r \in Rooms :
             /\ Go(t, "create", "list")
             /\ roomState' = [roomState EXCEPT ![r] = "live"]
             /\ seats' = [seats EXCEPT ![r] = Seat(@, t.player)]
             /\ loc' = [loc EXCEPT ![t] = r]
             /\ UNCHANGED <<maps, roomMapMu, player, old, want, switches>>
      BY <2>5 DEF CreateRoom
    <3> QED BY <3>1 DEF Seat
  <2>6. CASE CreateRefused(t)
    <3>1. Hangup(t.player) /\ UNCHANGED <<maps, room, attached, seats, old, switches>>
      BY <2>6 DEF CreateRefused
    <3>2. conn' \in [Sessions -> {"open", "closed", "nil"}]
      BY <3>1 DEF Hangup
    <3>3. roomMapMu' \in Threads \cup {Nil} /\ want' \in [Sessions -> RoomTypes \cup {Nil}]
      BY <2>6 DEF CreateRefused, ReturnUnlocked
    <3>4. /\ pc' \in [Threads -> Pcs] /\ loc' \in [Threads -> Rooms \cup {Nil}]
          /\ roomState' \in [Rooms -> {"new", "live", "refused", "disposed"}]
      BY <2>6 DEF CreateRefused
    <3> QED BY <3>1, <3>2, <3>3, <3>4
  <2>7. CASE ListRoom(t)
    <3>1. roomMap' \in [RoomTypes -> SUBSET Rooms]
      <4>1. loc[t] \in Rooms
        BY <2>7 DEF ListRoom, HeldRoomIsRoom
      <4> QED BY <4>1, <2>7 DEF ListRoom
    <3>2. pc' \in [Threads -> Pcs] /\ loc' \in [Threads -> Rooms \cup {Nil}]
      BY <2>7 DEF ListRoom
    <3>3. room' \in [Sessions -> Rooms \cup {Nil}]
      BY <2>7 DEF ListRoom, Taken
    <3> QED BY <2>7, <3>1, <3>2, <3>3 DEF ListRoom
  <2>8. CASE RecordPlayer(t)
    BY <2>8 DEF RecordPlayer, Register
  <2> QED BY <1>3, <2>1, <2>2, <2>3, <2>4, <2>5, <2>6, <2>7, <2>8 DEF OnJoin
<1>4. ASSUME NEW t \in Threads, ExitRoom(t) PROVE TypeOK'
  <2>1. CASE ReadRoom(t)
    BY <2>1 DEF ReadRoom
  <2>2. CASE DeletePlayer(t)
    BY <2>2 DEF DeletePlayer
  <2>3. CASE UnmapPlayer(t)
    BY <2>3 DEF UnmapPlayer, Unmapped
  <2>4. CASE CloseConn(t)
    BY <2>4 DEF CloseConn
  <2>5. CASE ExitNilRoom(t)
    BY <2>5 DEF ExitNilRoom, Detach
  <2>6. CASE FindEmpty(t)
    BY <2>6 DEF FindEmpty, Lock
  <2>7. CASE FindOccupied(t)
    BY <2>7 DEF FindOccupied
  <2>8. CASE DisposeEmpty(t)
    BY <2>8 DEF DisposeEmpty, Delist
  <2>9. CASE DisposeSingle(t)
    BY <2>9 DEF DisposeSingle
  <2>10. CASE FinishExit(t)
    BY <2>10 DEF FinishExit, Detach
  <2> QED BY <1>4, <2>1, <2>2, <2>3, <2>4, <2>5, <2>6, <2>7, <2>8, <2>9, <2>10
             DEF ExitRoom
<1>5. ASSUME NEW t \in Threads, SwitchRoom(t) PROVE TypeOK'
  <2>1. CASE LeaveOldRoom(t)
    BY <2>1 DEF LeaveOldRoom, Unseated
  <2>2. CASE SwitchAttach(t)
    BY <2>2 DEF SwitchAttach
  <2>3. CASE SwitchAccepted(t)
    <3>1. PICK r \in Rooms, ty \in RoomTypes :
             /\ Lock(t)
             /\ Go(t, "switchCreate", "listSwitched")
             /\ want' = [want EXCEPT ![t.player] = ty]
             /\ roomState' = [roomState EXCEPT ![r] = "live"]
             /\ seats' = [seats EXCEPT ![r] = Seat(@, t.player)]
             /\ loc' = [loc EXCEPT ![t] = r]
             /\ UNCHANGED <<maps, player, old, switches>>
      BY <2>3 DEF SwitchAccepted
    <3> QED BY <3>1 DEF Lock, Seat
  <2>4. CASE SwitchRefused(t)
    BY <2>4 DEF SwitchRefused
  <2> QED BY <1>5, <2>1, <2>2, <2>3, <2>4 DEF SwitchRoom
<1>6. ASSUME NEW t \in Threads, Environment(t) PROVE TypeOK'
  <2>1. CASE StartLogin(t)
    BY <2>1 DEF StartLogin
  <2>2. CASE Disconnect(t)
    BY <2>2 DEF Disconnect, Hangup
  <2>3. CASE StartSwitch(t)
    BY <2>3 DEF StartSwitch
  <2>4. CASE Release(t)
    BY <2>4 DEF Release
  <2> QED BY <1>6, <2>1, <2>2, <2>3, <2>4 DEF Environment
<1> QED BY <1>1, <1>2, <1>3, <1>4, <1>5, <1>6 DEF Next, Proceed

LEMMA HeldRoomStep == TypeInv /\ [Next]_vars => HeldRoomIsRoom'
<1> SUFFICES ASSUME TypeInv, [Next]_vars PROVE HeldRoomIsRoom'
  OBVIOUS
<1> USE ConstantsAssumption DEF TypeInv, TypeOK, HeldRoomIsRoom, Threads, Go
<1>1. CASE UNCHANGED vars
  BY <1>1 DEF vars
<1>2. ASSUME NEW t \in Threads, TryReConnectGame(t) PROVE HeldRoomIsRoom'
  BY <1>2 DEF TryReConnectGame, LookupRoom, CheckOldConn, CloseOldConn, StorePlayer, ReConnectRoom
<1>3. ASSUME NEW t \in Threads, OnJoin(t) PROVE HeldRoomIsRoom'
  <2>1. CASE JoinListedRoom(t)
    <3>1. PICK r \in Rooms : /\ loc' = [loc EXCEPT ![t] = r]
                            /\ pc' = [pc EXCEPT ![t] = "setRoom"]
      BY <2>1 DEF JoinListedRoom, Offered
    <3>2. ASSUME NEW u \in Threads PROVE 
            (pc'[u] \in {"setRoom", "list", "listSwitched", "exitDispose"} => loc'[u] \in Rooms)
      BY <3>1
    <3> QED BY <3>2
  <2>2. CASE FindNoRoom(t) \/ SetJoinedRoom(t)
    BY <2>2 DEF FindNoRoom, SetJoinedRoom
  <2>3. CASE SkipCreate(t)
    BY <2>3 DEF SkipCreate
  <2>4. CASE CreateRoom(t)
    <3>1. PICK r \in Rooms : /\ loc' = [loc EXCEPT ![t] = r]
                            /\ pc' = [pc EXCEPT ![t] = "list"]
      BY <2>4 DEF CreateRoom
    <3>2. ASSUME NEW u \in Threads PROVE 
            (pc'[u] \in {"setRoom", "list", "listSwitched", "exitDispose"} => loc'[u] \in Rooms)
      BY <3>1
    <3> QED BY <3>2
  <2>5. CASE CreateRefused(t)
    BY <2>5 DEF CreateRefused
  <2>6. CASE ListRoom(t)
    BY <2>6 DEF ListRoom
  <2>7. CASE RecordPlayer(t)
    BY <2>7 DEF RecordPlayer
  <2> QED BY <1>3, <2>1, <2>2, <2>3, <2>4, <2>5, <2>6, <2>7 DEF OnJoin
<1>4. ASSUME NEW t \in Threads, ExitRoom(t) PROVE HeldRoomIsRoom'
  <2>1. CASE ReadRoom(t)
    BY <2>1 DEF ReadRoom
  <2>2. CASE DeletePlayer(t) \/ UnmapPlayer(t) \/ CloseConn(t)
    BY <2>2 DEF DeletePlayer, UnmapPlayer, CloseConn
  <2>3. CASE ExitNilRoom(t)
    BY <2>3 DEF ExitNilRoom, Detach
  <2>4. CASE FindEmpty(t) \/ FindOccupied(t)
    BY <2>4 DEF FindEmpty, FindOccupied
  <2>5. CASE DisposeEmpty(t) \/ DisposeSingle(t)
    BY <2>5 DEF DisposeEmpty, DisposeSingle
  <2>6. CASE FinishExit(t)
    BY <2>6 DEF FinishExit, Detach
  <2> QED BY <1>4, <2>1, <2>2, <2>3, <2>4, <2>5, <2>6 DEF ExitRoom
<1>5. ASSUME NEW t \in Threads, SwitchRoom(t) PROVE HeldRoomIsRoom'
  <2>1. CASE LeaveOldRoom(t) \/ SwitchAttach(t)
    BY <2>1 DEF LeaveOldRoom, SwitchAttach
  <2>2. CASE SwitchAccepted(t)
    <3>1. PICK r \in Rooms : /\ loc' = [loc EXCEPT ![t] = r]
                            /\ pc' = [pc EXCEPT ![t] = "listSwitched"]
      BY <2>2 DEF SwitchAccepted
    <3>2. ASSUME NEW u \in Threads PROVE 
            (pc'[u] \in {"setRoom", "list", "listSwitched", "exitDispose"} => loc'[u] \in Rooms)
      BY <3>1
    <3> QED BY <3>2
  <2>3. CASE SwitchRefused(t)
    BY <2>3 DEF SwitchRefused
  <2> QED BY <1>5, <2>1, <2>2, <2>3 DEF SwitchRoom
<1>6. ASSUME NEW t \in Threads, Environment(t) PROVE HeldRoomIsRoom'
  BY <1>6 DEF Environment, StartLogin, Disconnect, StartSwitch, Release
<1> QED BY <1>1, <1>2, <1>3, <1>4, <1>5, <1>6 DEF Next, Proceed

LEMMA TypeInvariant == Spec => []TypeInv
  BY InitType, TypeStep, HeldRoomStep, PTL DEF Spec, TypeInv

\* Every variable keeps its type, whatever the players and the rooms do.
THEOREM TypeCorrect == Spec => []TypeOK
  BY TypeInvariant, PTL DEF TypeInv
=============================================================================
