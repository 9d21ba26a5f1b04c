------------------------ MODULE RoomLifecycleProofs ------------------------
(***************************************************************************)
(* With rtp matching the room manager implements RoomLifecycle: each step  *)
(* opens, enters, leaves, closes or abandons one room, or leaves the rooms *)
(* as they are.                                                            *)
(***************************************************************************)
EXTENDS RoomSafetyProofs

USE DEF maps, player, world, locals

Opens == {"list", "listSwitched"}

LEMMA PhaseOf ==
    ASSUME NEW r \in Rooms
    PROVE  Phase[r] = IF OnAList(r) \/ BeingOpened(r) THEN "open"
                      ELSE IF roomState[r] = "new" THEN "unborn" ELSE "closed"
BY DEF Phase, Listed, Opening, OnAList, BeingOpened

\* A step that lists, opens and changes no room leaves the phases alone.
LEMMA PhaseKept ==
    ASSUME NEW t \in Threads, pc[t] \notin Opens, pc'[t] \notin Opens,
           \A u \in Threads : u # t => pc'[u] = pc[u] /\ loc'[u] = loc[u],
           UNCHANGED roomMap,
           NEW r \in Rooms, roomState'[r] = roomState[r]
    PROVE  Phase'[r] = Phase[r]
<1>1. OnAList(r)' <=> OnAList(r)
  BY DEF OnAList
<1>2. BeingOpened(r)' <=> BeingOpened(r)
  BY DEF BeingOpened, Opens
<1>3. Phase'[r] = IF OnAList(r)' \/ BeingOpened(r)' THEN "open"
                  ELSE IF roomState'[r] = "new" THEN "unborn" ELSE "closed"
  BY DEF Phase, Listed, Opening, OnAList, BeingOpened
<1> QED BY <1>1, <1>2, <1>3, PhaseOf

LEMMA PhaseChange ==
    ASSUME NEW r \in Rooms, NEW p, Phase'[r] = p,
           \A q \in Rooms : q # r => Phase'[q] = Phase[q]
    PROVE  Phase' = [Phase EXCEPT ![r] = p]
BY DEF Phase

LEMMA PhaseSame ==
    ASSUME \A q \in Rooms : Phase'[q] = Phase[q]
    PROVE  Phase' = Phase
BY DEF Phase

LEMMA LifecycleInit == Init => Lifecycle!Init
<1> SUFFICES ASSUME Init PROVE Lifecycle!Init
  OBVIOUS
<1>1. ASSUME NEW r \in Rooms PROVE Phase[r] = "unborn"
  BY PhaseOf DEF Init, OnAList, BeingOpened, Threads
<1>2. Phase = [r \in Rooms |-> "unborn"]
  BY <1>1 DEF Phase
<1> QED BY <1>2 DEF Init, Lifecycle!Init

Stutter == UNCHANGED <<Phase, seats>>

\* Steps that leave rooms, lists and seats alone.
LEMMA Stuttering ==
    ASSUME NEW t \in Threads, pc[t] \notin Opens, pc'[t] \notin Opens,
           \A u \in Threads : u # t => pc'[u] = pc[u] /\ loc'[u] = loc[u],
           UNCHANGED <<roomMap, roomState, seats>>
    PROVE  Stutter
BY PhaseKept, PhaseSame DEF Stutter

LEMMA EnterStep ==
    ASSUME RoomInv, NEW t \in Threads, NEW r \in Rooms,
           pc[t] \notin Opens, pc'[t] \notin Opens,
           \A u \in Threads : u # t => pc'[u] = pc[u] /\ loc'[u] = loc[u],
           UNCHANGED <<roomMap, roomState>>,
           OnAList(r) \/ BeingOpened(r),
           seats' = [seats EXCEPT ![r] = Seat(@, t.player)]
    PROVE  Lifecycle!Next
<1>1. Phase[r] = "open" /\ Phase' = Phase
  BY PhaseOf, PhaseKept, PhaseSame
<1>2. Lifecycle!Enter(r, t.player)
  BY <1>1 DEF Lifecycle!Enter, Lifecycle!Admit, Seat
<1> QED BY <1>2 DEF Lifecycle!Next, Threads

LEMMA LeaveStep ==
    ASSUME RoomInv, NEW t \in Threads, NEW r \in Rooms,
           pc[t] \notin Opens, pc'[t] \notin Opens,
           \A u \in Threads : u # t => pc'[u] = pc[u] /\ loc'[u] = loc[u],
           UNCHANGED <<roomMap, roomState>>,
           seats' = [seats EXCEPT ![r] = @ \ {t.player}]
    PROVE  Lifecycle!Next \/ Stutter
<1>1. Phase' = Phase
  BY PhaseKept, PhaseSame
<1>2. CASE t.player \in seats[r]
  BY <1>1, <1>2 DEF Lifecycle!Leave, Lifecycle!Next, Threads
<1>3. CASE t.player \notin seats[r]
  BY <1>1, <1>3 DEF RoomInv, TypeInv, TypeOK, Stutter
<1> QED BY <1>2, <1>3

\* A new room enters service: it will be listed by the goroutine that holds
\* roomMapMu.
LEMMA OpenStep ==
    ASSUME RoomInv, NEW t \in Threads, NEW r \in Rooms, Fresh(r),
           roomMapMu = Nil \/ pc[t] \in LockedPcs,
           pc[t] \notin Opens, pc'[t] \in Opens, loc'[t] = r,
           \A u \in Threads : u # t => pc'[u] = pc[u] /\ loc'[u] = loc[u],
           roomState' = [roomState EXCEPT ![r] = "live"],
           seats' = [seats EXCEPT ![r] = Seat(@, t.player)],
           UNCHANGED roomMap
    PROVE  Lifecycle!Next
<1>1. \A u \in Threads : pc[u] \notin Opens /\ (u # t => pc'[u] \notin Opens)
  BY Alone DEF Opens, LockedPcs
<1>2. Phase[r] = "unborn"
  <2>1. ~OnAList(r)
    BY DEF RoomInv, OutOfUse, OnAList, Fresh
  <2>2. ~BeingOpened(r)
    BY <1>1 DEF BeingOpened, Opens
  <2> QED BY <2>1, <2>2, PhaseOf DEF Fresh
<1>3. Phase'[r] = "open"
  BY DEF Phase, Opening, Opens
<1>4. ASSUME NEW q \in Rooms, q # r PROVE Phase'[q] = Phase[q]
  BY <1>1, <1>4 DEF Phase, Listed, Opening, Opens, RoomInv, TypeInv, TypeOK
<1>5. Lifecycle!Open(r, t.player)
  BY <1>2, <1>3, <1>4, PhaseChange DEF Lifecycle!Open, Lifecycle!Admit, Seat
<1> QED BY <1>5 DEF Lifecycle!Next, Threads

\* A new room that refuses its first player never enters service.
LEMMA AbandonStep ==
    ASSUME RoomInv, NEW t \in Threads, NEW r \in Rooms, Fresh(r),
           roomMapMu = Nil \/ pc[t] \in LockedPcs,
           pc[t] \notin Opens, pc'[t] \notin Opens,
           \A u \in Threads : u # t => pc'[u] = pc[u] /\ loc'[u] = loc[u],
           roomState' = [roomState EXCEPT ![r] = "refused"],
           UNCHANGED <<roomMap, seats>>
    PROVE  Lifecycle!Next
<1>1. \A u \in Threads : pc[u] \notin Opens /\ pc'[u] \notin Opens
  BY Alone DEF Opens, LockedPcs
<1>2. ~OnAList(r) /\ ~BeingOpened(r)
  BY <1>1 DEF RoomInv, OutOfUse, OnAList, BeingOpened, Fresh, Opens
<1>3. Phase[r] = "unborn"
  BY <1>2, PhaseOf DEF Fresh
<1>4. Phase'[r] = "closed"
  <2>1. ~OnAList(r)' /\ ~BeingOpened(r)'
    BY <1>1, <1>2 DEF OnAList, BeingOpened, Opens
  <2>2. roomState'[r] = "refused"
    BY DEF RoomInv, TypeInv, TypeOK
  <2> QED BY <2>1, <2>2 DEF Phase, Listed, Opening, OnAList, BeingOpened
<1>5. ASSUME NEW q \in Rooms, q # r PROVE Phase'[q] = Phase[q]
  BY <1>5, PhaseKept DEF RoomInv, TypeInv, TypeOK
<1>6. Lifecycle!Abandon(r)
  BY <1>3, <1>4, <1>5, PhaseChange DEF Lifecycle!Abandon
<1> QED BY <1>6 DEF Lifecycle!Next

\* Listing the room that was being opened is not visible.
LEMMA ListStep ==
    ASSUME Matcher = "RTP", RoomInv, RoomInv', NEW t \in Threads, ListRoom(t)
    PROVE  Stutter
<1> DEFINE ty == want[t.player]
<1>1. /\ pc[t] \in Opens /\ pc'[t] \notin Opens
      /\ \A u \in Threads : u # t => pc'[u] = pc[u]
      /\ UNCHANGED <<seats, roomState>>
  BY DEF ListRoom, Go, Opens, RoomInv, TypeInv, TypeOK
<1>2. ty \in RoomTypes /\ ty # Nil
  BY <1>1, ConstantsAssumption DEF RoomInv, TypeChosen, Opens
<1>3. roomMap' = [roomMap EXCEPT ![ty] = @ \cup {loc[t]}]
  BY <1>2 DEF ListRoom
<1>4. \A u \in Threads : (u # t => pc[u] \notin Opens) /\ pc'[u] \notin Opens
  BY <1>1, Alone DEF Opens, LockedPcs
<1>5. ASSUME NEW q \in Rooms PROVE Phase'[q] = Phase[q]
  <2>1. BeingOpened(q) <=> q = loc[t]
    BY <1>1, <1>4 DEF BeingOpened, Opens
  <2>2. ~BeingOpened(q)'
    BY <1>4 DEF BeingOpened, Opens
  <2>3. OnAList(q)' <=> OnAList(q) \/ q = loc[t]
    BY <1>2, <1>3 DEF OnAList, RoomInv, TypeInv, TypeOK
  <2>4. Phase'[q] = IF OnAList(q)' \/ BeingOpened(q)' THEN "open"
                    ELSE IF roomState'[q] = "new" THEN "unborn" ELSE "closed"
    BY DEF Phase, Listed, Opening, OnAList, BeingOpened
  <2> QED BY <1>1, <2>1, <2>2, <2>3, <2>4, PhaseOf
<1> QED BY <1>1, <1>5, PhaseSame DEF Stutter

\* Disposing of the room closes it; a room that is disposed of again, after a
\* second goroutine saw it empty, is closed already.
LEMMA CloseStep ==
    ASSUME RoomInv, NEW t \in Threads, DisposeEmpty(t)
    PROVE  Lifecycle!Next \/ Stutter
<1>1. /\ pc[t] = "exitDispose" /\ pc'[t] \notin Opens
      /\ \A u \in Threads : u # t => pc'[u] = pc[u]
      /\ UNCHANGED <<seats, loc>>
      /\ roomMap' = [ty \in RoomTypes |-> roomMap[ty] \ {loc[t]}]
      /\ roomState' = [roomState EXCEPT ![loc[t]] = "disposed"]
  BY DEF DisposeEmpty, Delist, Go, Opens, RoomInv, TypeInv, TypeOK
<1>2. loc[t] \in Rooms /\ seats[loc[t]] = {}
  BY <1>1 DEF RoomInv, TypeInv, HeldRoomIsRoom, DisposingEmpty
<1>3. \A u \in Threads : pc[u] \notin Opens /\ pc'[u] \notin Opens
  BY <1>1, Alone DEF Opens, LockedPcs
<1>4. Phase'[loc[t]] = "closed"
  <2>1. ~OnAList(loc[t])' /\ ~BeingOpened(loc[t])' /\ roomState'[loc[t]] = "disposed"
    BY <1>1, <1>2, <1>3 DEF OnAList, BeingOpened, Opens, RoomInv, TypeInv, TypeOK
  <2> QED BY <1>1, <1>2, <1>3, <2>1 DEF Phase, Listed, Opening, OnAList, BeingOpened, Opens
<1>5. ASSUME NEW q \in Rooms, q # loc[t] PROVE Phase'[q] = Phase[q]
  <2>1. (OnAList(q)' <=> OnAList(q)) /\ ~BeingOpened(q) /\ ~BeingOpened(q)'
    BY <1>1, <1>3, <1>5 DEF OnAList, BeingOpened, Opens
  <2>2. roomState'[q] = roomState[q]
    BY <1>1, <1>5 DEF RoomInv, TypeInv, TypeOK
  <2>3. Phase'[q] = IF OnAList(q)' \/ BeingOpened(q)' THEN "open"
                    ELSE IF roomState'[q] = "new" THEN "unborn" ELSE "closed"
    BY DEF Phase, Listed, Opening, OnAList, BeingOpened
  <2> QED BY <2>1, <2>2, <2>3, PhaseOf
<1>6. Phase' = [Phase EXCEPT ![loc[t]] = "closed"]
  BY <1>2, <1>4, <1>5, PhaseChange
<1>7. CASE Phase[loc[t]] = "open"
  BY <1>1, <1>2, <1>6, <1>7 DEF Lifecycle!Close, Lifecycle!Next
<1>8. CASE Phase[loc[t]] = "unborn"
  BY <1>1, <1>2, <1>6, <1>8 DEF Lifecycle!Abandon, Lifecycle!Next
<1>9. CASE Phase[loc[t]] = "closed"
  BY <1>1, <1>2, <1>4, <1>5, <1>9, PhaseSame DEF Stutter
<1> QED BY <1>2, <1>7, <1>8, <1>9, PhaseOf

LEMMA ReConnectRefines ==
    ASSUME RoomInv, NEW t \in Threads, TryReConnectGame(t)
    PROVE  Lifecycle!Next \/ Stutter
<1> USE DEF Go, Opens
<1>1. CASE LookupRoom(t) \/ CheckOldConn(t) \/ CloseOldConn(t) \/ StorePlayer(t)
  BY <1>1, Stuttering DEF LookupRoom, CheckOldConn, CloseOldConn, StorePlayer, RoomInv, TypeInv,
                          TypeOK
<1>2. CASE ReConnectRoom(t)
  <2>1. /\ pc[t] \notin Opens /\ pc'[t] \notin Opens
        /\ \A u \in Threads : u # t => pc'[u] = pc[u] /\ loc'[u] = loc[u]
        /\ UNCHANGED <<roomMap, roomState>>
    BY <1>2 DEF ReConnectRoom, RoomInv, TypeInv, TypeOK
  <2>2. CASE UNCHANGED seats
    BY <2>1, <2>2, Stuttering
  <2>3. CASE ~UNCHANGED seats
    <3>1. /\ loc[t] \in Rooms /\ seats[loc[t]] # {}
          /\ seats' = [seats EXCEPT ![loc[t]] = Seat(@, t.player)]
      BY <1>2, <2>3 DEF ReConnectRoom, RoomInv, TypeInv, TypeOK
    <3>2. OnAList(loc[t]) \/ BeingOpened(loc[t])
      BY <3>1 DEF RoomInv, SeatedIsKnown
    <3> QED BY <2>1, <3>1, <3>2, EnterStep
  <2> QED BY <2>2, <2>3
<1> QED BY <1>1, <1>2 DEF TryReConnectGame

LEMMA OnJoinRefines ==
    ASSUME Matcher = "RTP", RoomInv, RoomInv', NEW t \in Threads, OnJoin(t)
    PROVE  Lifecycle!Next \/ Stutter
<1>1. CASE JoinListedRoom(t)
  <2>1. PICK r \in Rooms :
           /\ OnAList(r)
           /\ Go(t, "join", "setRoom")
           /\ seats' = [seats EXCEPT ![r] = Seat(@, t.player)]
           /\ loc' = [loc EXCEPT ![t] = r]
           /\ UNCHANGED <<roomMap, roomState>>
    BY <1>1 DEF JoinListedRoom, Offered, OnAList, RoomInv, TypeInv, TypeOK
  <2> QED BY <2>1, EnterStep DEF Go, Opens, RoomInv, TypeInv, TypeOK
<1>2. CASE FindNoRoom(t) \/ SetJoinedRoom(t) \/ SkipCreate(t) \/ RecordPlayer(t)
  BY <1>2, Stuttering DEF FindNoRoom, SetJoinedRoom, SkipCreate, RecordPlayer, Go, Opens,
                          RoomInv, TypeInv, TypeOK
<1>3. CASE CreateRoom(t)
  <2>1. PICK r \in Rooms :
           /\ Fresh(r)
           /\ Go(t, "create", "list")
           /\ roomState' = [roomState EXCEPT ![r] = "live"]
           /\ seats' = [seats EXCEPT ![r] = Seat(@, t.player)]
           /\ loc' = [loc EXCEPT ![t] = r]
           /\ UNCHANGED roomMap
    BY <1>3 DEF CreateRoom
  <2>2. /\ pc[t] \in LockedPcs /\ pc[t] \notin Opens /\ pc'[t] \in Opens /\ loc'[t] = r
        /\ \A u \in Threads : u # t => pc'[u] = pc[u] /\ loc'[u] = loc[u]
    BY <2>1 DEF Go, Opens, LockedPcs, RoomInv, TypeInv, TypeOK
  <2> QED BY <2>1, <2>2, OpenStep
<1>4. CASE CreateRefused(t)
  <2>1. PICK r \in Rooms :
           /\ Fresh(r)
           /\ Go(t, "create", "gone")
           /\ roomState' = [roomState EXCEPT ![r] = "refused"]
           /\ loc' = [loc EXCEPT ![t] = Nil]
           /\ UNCHANGED <<roomMap, seats>>
    BY <1>4 DEF CreateRefused
  <2> QED BY <2>1, AbandonStep DEF Go, Opens, LockedPcs, RoomInv, TypeInv, TypeOK
<1>5. CASE ListRoom(t)
  BY <1>5, ListStep
<1> QED BY <1>1, <1>2, <1>3, <1>4, <1>5 DEF OnJoin

LEMMA ExitRefines ==
    ASSUME Matcher = "RTP", RoomInv, NEW t \in Threads, ExitRoom(t)
    PROVE  Lifecycle!Next \/ Stutter
<1> USE DEF Go, Opens, RoomInv, TypeInv, TypeOK
<1>1. CASE ReadRoom(t) \/ DeletePlayer(t) \/ UnmapPlayer(t) \/ CloseConn(t)
  BY <1>1, Stuttering DEF ReadRoom, DeletePlayer, UnmapPlayer, CloseConn
<1>2. CASE ExitNilRoom(t) \/ FinishExit(t)
  BY <1>2, Stuttering DEF ExitNilRoom, FinishExit, Detach
<1>3. CASE FindEmpty(t) \/ FindOccupied(t)
  BY <1>3, Stuttering DEF FindEmpty, FindOccupied
<1>4. CASE DisposeEmpty(t)
  BY <1>4, CloseStep
<1> QED BY <1>1, <1>2, <1>3, <1>4 DEF ExitRoom, DisposeSingle

LEMMA SwitchRefines ==
    ASSUME RoomInv, NEW t \in Threads, SwitchRoom(t)
    PROVE  Lifecycle!Next \/ Stutter
<1>1. CASE LeaveOldRoom(t)
  <2>1. /\ pc[t] \notin Opens /\ pc'[t] \notin Opens
        /\ \A u \in Threads : u # t => pc'[u] = pc[u] /\ loc'[u] = loc[u]
        /\ UNCHANGED <<roomMap, roomState>>
        /\ room[t.player] \in Rooms \cup {Nil}
    BY <1>1 DEF LeaveOldRoom, Go, Opens, RoomInv, TypeInv, TypeOK, Threads
  <2>2. CASE room[t.player] = Nil
    BY <1>1, <2>1, <2>2, Stuttering DEF LeaveOldRoom, Unseated
  <2>3. CASE room[t.player] \in Rooms
    <3>1. seats' = [seats EXCEPT ![room[t.player]] = @ \ {t.player}]
      BY <1>1, <2>3, ConstantsAssumption DEF LeaveOldRoom, Unseated
    <3> QED BY <2>1, <2>3, <3>1, LeaveStep
  <2> QED BY <2>1, <2>2, <2>3
<1>2. CASE SwitchAttach(t)
  BY <1>2, Stuttering DEF SwitchAttach, Go, Opens, RoomInv, TypeInv, TypeOK
<1>3. CASE SwitchAccepted(t)
  <2>1. PICK r \in Rooms :
           /\ Lock(t)
           /\ Fresh(r)
           /\ Go(t, "switchCreate", "listSwitched")
           /\ roomState' = [roomState EXCEPT ![r] = "live"]
           /\ seats' = [seats EXCEPT ![r] = Seat(@, t.player)]
           /\ loc' = [loc EXCEPT ![t] = r]
           /\ UNCHANGED roomMap
    BY <1>3 DEF SwitchAccepted
  <2> QED BY <2>1, OpenStep DEF Go, Opens, Lock, RoomInv, TypeInv, TypeOK
<1>4. CASE SwitchRefused(t)
  <2>1. PICK r \in Rooms :
           /\ roomMapMu = Nil
           /\ Fresh(r)
           /\ Go(t, "switchCreate", "playing")
           /\ roomState' = [roomState EXCEPT ![r] = "refused"]
           /\ UNCHANGED <<roomMap, seats, loc>>
    BY <1>4 DEF SwitchRefused
  <2> QED BY <2>1, AbandonStep DEF Go, Opens, RoomInv, TypeInv, TypeOK
<1> QED BY <1>1, <1>2, <1>3, <1>4 DEF SwitchRoom

LEMMA EnvironmentRefines ==
    ASSUME RoomInv, NEW t \in Threads, Environment(t)
    PROVE  Lifecycle!Next \/ Stutter
<1>1. CASE StartLogin(t) \/ Disconnect(t) \/ StartSwitch(t)
  BY <1>1, Stuttering DEF StartLogin, Disconnect, StartSwitch, Go, Opens, RoomInv, TypeInv, TypeOK
<1>2. CASE Release(t)
  <2>1. PICK r \in Rooms :
           /\ Go(t, "idle", "exitRead")
           /\ seats' = [seats EXCEPT ![r] = @ \ {t.player}]
           /\ UNCHANGED <<roomMap, roomState, loc>>
    BY <1>2 DEF Release
  <2> QED BY <2>1, LeaveStep DEF Go, Opens, RoomInv, TypeInv, TypeOK
<1> QED BY <1>1, <1>2 DEF Environment

LEMMA LifecycleStep ==
    ASSUME Matcher = "RTP", RoomInv, [Next]_vars
    PROVE  [Lifecycle!Next]_(Lifecycle!vars)
<1>1. RoomInv'
  BY RoomInvStep
<1>2. CASE UNCHANGED vars
  BY <1>2 DEF vars, Lifecycle!vars, Phase, Listed, Opening
<1>3. ASSUME NEW t \in Threads, Proceed(t) PROVE Lifecycle!Next \/ Stutter
  BY <1>1, <1>3, ReConnectRefines, OnJoinRefines, ExitRefines, SwitchRefines DEF Proceed
<1>4. ASSUME NEW t \in Threads, Environment(t) PROVE Lifecycle!Next \/ Stutter
  BY <1>4, EnvironmentRefines
<1> QED BY <1>2, <1>3, <1>4 DEF Next, Stutter, Lifecycle!vars

\* The room manager keeps the promises of RoomLifecycle: a room opens with its
\* first player or not at all, takes players in only while it is open, closes
\* only when it is empty, and never opens again.
THEOREM ManagerImplementsLifecycle == ASSUME Matcher = "RTP" PROVE Spec => ImplementsLifecycle
<1>1. RoomInv /\ [Next]_vars => [Lifecycle!Next]_(Lifecycle!vars)
  BY LifecycleStep
<1> QED BY <1>1, LifecycleInit, RoomInvariant, PTL
        DEF Spec, ImplementsLifecycle, Lifecycle!Spec
=============================================================================
