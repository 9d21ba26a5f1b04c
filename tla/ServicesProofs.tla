--------------------------- MODULE ServicesProofs ---------------------------
(***************************************************************************)
(* Safety of the small components, for any number of goroutines, clients   *)
(* and processes: the hub server, a connection, the routers, worker ids,   *)
(* the cache manager, the index of AppInfoStore, the tables of a query,    *)
(* the rooms of the fish games and of jdb; and of all components beside    *)
(* the rooms and the stores together, as MCServices composes them.         *)
(***************************************************************************)
EXTENDS MCServices, KafkaBusProofs, RtpProofs, TLAPS

-----------------------------------------------------------------------------
(* HubServer.  Until Stop the listener, the address in use and the endpoint  *)
(* that was announced name one port (OnePort).                               *)

OnePort ==
    hubApp =>
        /\ lis # NoPort => serverAddr = lis
        /\ endpoint \in {NoPort, lis} /\ announced \in {NoPort, lis}
        /\ servePc \in {"ready", "serving"} => lis # NoPort
        /\ servePc = "serving" => served = lis

HubInv == HubTypeOK /\ OnePort /\ (servePc = "serving" => hubApp)

LEMMA HubInitInv == HubInit => HubInv
  BY HubAssumption DEF HubInit, HubInv, HubTypeOK, OnePort, NoPort

\* A port that is bound is one of the system's, and the address is that port.
LEMMA ListenerBound ==
    ASSUME HubInv, EnsureListener
    PROVE  /\ lis' \in Ports /\ openPorts' \subseteq Ports /\ serverAddr' \in Ports \cup {0}
           /\ lis # NoPort => lis' = lis /\ serverAddr' = serverAddr
           /\ lis = NoPort \/ hubApp => serverAddr' = lis'
<1> USE HubAssumption DEF HubInv, HubTypeOK, OnePort, NoPort
<1>1. CASE lis # NoPort /\ UNCHANGED <<lis, openPorts, serverAddr>>
  BY <1>1
<1>2. CASE /\ lis = NoPort
           /\ \E p \in Listen(serverAddr) :
                lis' = p /\ openPorts' = openPorts \cup {p} /\ serverAddr' = BoundAddr(p)
  <2>1. Listen(serverAddr) \subseteq Ports
    BY DEF Listen
  <2> QED BY <1>2, <2>1 DEF BoundAddr
<1> QED BY <1>1, <1>2 DEF EnsureListener

LEMMA HubStep == HubInv /\ [HubNext]_hubVars => HubInv'
<1> SUFFICES ASSUME HubInv, [HubNext]_hubVars PROVE HubInv'
  OBVIOUS
<1> USE HubAssumption DEF HubInv, HubTypeOK, OnePort, NoPort
<1>1. CASE UNCHANGED hubVars
  BY <1>1 DEF hubVars
<1>2. CASE Endpoint
  <2>1. CASE endpoint # NoPort /\ UNCHANGED <<lis, openPorts, serverAddr, endpoint>>
    BY <1>2, <2>1 DEF Endpoint
  <2>2. CASE endpoint = NoPort /\ EnsureListener /\ endpoint' = serverAddr'
    BY <1>2, <2>2, ListenerBound DEF Endpoint
  <2> QED BY <1>2, <2>1, <2>2 DEF Endpoint
<1>3. CASE StartServer
  <2>1. CASE /\ EnsureListener
             /\ endpoint' = IF lis = NoPort THEN NoPort ELSE endpoint
             /\ servePc' = "ready"
    BY <1>3, <2>1, ListenerBound DEF StartServer
  <2>2. CASE servePc' = "failed" /\ UNCHANGED <<lis, openPorts, serverAddr, endpoint>>
    BY <1>3, <2>2 DEF StartServer
  <2> QED BY <1>3, <2>1, <2>2 DEF StartServer
<1>4. CASE Serve
  BY <1>4 DEF Serve
<1>5. CASE StopServer
  BY <1>5 DEF StopServer, Shutdown
<1> QED BY <1>1, <1>2, <1>3, <1>4, <1>5 DEF HubNext

\* Other services are sent to the port that is served, in any order of Endpoint,
\* Start and its goroutine, and nothing is served after Stop.
THEOREM HubServesAsAnnounced == HubSpec => []ServesAsAnnounced
<1>1. HubInv => ServesAsAnnounced
  BY DEF HubInv, OnePort, ServesAsAnnounced
<1> QED BY <1>1, HubInitInv, HubStep, PTL DEF HubSpec

-----------------------------------------------------------------------------
(* WorkerIds.  Processes that run have numbers of their own, and a worker id *)
(* is that number modulo Workers: equal ids are at least Workers starts apart. *)

OwnNumber ==
    /\ \A p \in Processes : workerID[p] # -1 =>
           startedAs[p] \in 1..counter /\ workerID[p] = WorkerOf(startedAs[p])
    /\ \A p, q \in Processes :
           workerID[p] # -1 /\ workerID[q] # -1 /\ p # q => startedAs[p] # startedAs[q]

WorkersInv ==
    /\ counter \in Nat
    /\ workerID \in [Processes -> Int] /\ startedAs \in [Processes -> Nat]
    /\ OwnNumber

LEMMA WorkersInitInv == WorkersInit => WorkersInv
  BY DEF WorkersInit, WorkersInv, OwnNumber

LEMMA WorkersStep == WorkersInv /\ [WorkersNext]_workerVars => WorkersInv'
<1> SUFFICES ASSUME WorkersInv, [WorkersNext]_workerVars PROVE WorkersInv'
  OBVIOUS
<1> USE WorkersAssumption DEF WorkersInv
<1>1. CASE UNCHANGED workerVars
  BY <1>1 DEF workerVars, OwnNumber
<1>2. ASSUME NEW p \in Processes, StartProcess(p) PROVE WorkersInv'
  <2>1. WorkerOf(counter + 1) \in Int
    BY DEF WorkerOf
  <2>2. /\ counter' = counter + 1
        /\ startedAs' = [startedAs EXCEPT ![p] = counter + 1]
        /\ workerID' = [workerID EXCEPT ![p] = WorkerOf(counter + 1)]
    BY <1>2 DEF StartProcess
  <2> QED BY <2>1, <2>2 DEF OwnNumber
<1>3. ASSUME NEW p \in Processes, EndProcess(p) PROVE WorkersInv'
  BY <1>3 DEF EndProcess, OwnNumber
<1> QED BY <1>1, <1>2, <1>3 DEF WorkersNext

LEMMA EqualRemainders ==
    ASSUME NEW w \in Nat \ {0}, NEW m \in Nat, NEW n \in Nat, m % w = n % w, m < n
    PROVE  n - m >= w
<1>1. m % w = m - w * (m \div w)
  OBVIOUS
<1>2. n % w = n - w * (n \div w)
  OBVIOUS
<1> DEFINE i == m \div w
           j == n \div w
<1>3. i \in Int /\ j \in Int /\ m - w * i = n - w * j
  BY <1>1, <1>2
<1> HIDE DEF i, j
<1>4. n - m = w * (j - i)
  BY <1>3
<1>5. j - i >= 1
  BY <1>3, <1>4
<1> QED BY <1>3, <1>4, <1>5

\* A process shares its worker id with none that runs, until the service has been
\* started as many times since as there are ids.
THEOREM WorkerIdsUnique == WorkersSpec => []WorkerIdUnique
<1>1. WorkersInv => WorkerIdUnique
  <2> SUFFICES ASSUME WorkersInv, NEW p \in Processes, NEW q \in Processes,
                      workerID[p] # -1, workerID[p] = workerID[q], p # q
               PROVE  StartsSince(p) >= Workers \/ StartsSince(q) >= Workers
    BY DEF WorkerIdUnique
  <2> DEFINE m == startedAs[p] - 1
             n == startedAs[q] - 1
  <2>1. m \in Nat /\ n \in Nat /\ m # n /\ m < counter /\ n < counter /\ counter \in Nat
    BY DEF WorkersInv, OwnNumber
  <2>2. m % Workers = n % Workers
    BY DEF WorkersInv, OwnNumber, WorkerOf
  <2>3. StartsSince(p) = counter - m - 1 /\ StartsSince(q) = counter - n - 1
    BY DEF StartsSince, WorkersInv
  <2> HIDE DEF m, n
  <2>4. n - m >= Workers \/ m - n >= Workers
    <3>1. CASE m < n
      BY <3>1, <2>1, <2>2, EqualRemainders, WorkersAssumption
    <3>2. CASE n < m
      BY <3>2, <2>1, <2>2, EqualRemainders, WorkersAssumption
    <3> QED BY <2>1, <3>1, <3>2
  <2> QED BY <2>1, <2>3, <2>4, WorkersAssumption
<1> QED BY <1>1, WorkersInitInv, WorkersStep, PTL DEF WorkersSpec

-----------------------------------------------------------------------------
(* Connect.  What the loop has read is what the game has been given, what is *)
(* in the channel, and what the loop is about to push (ReadAccounted); after *)
(* the error there is nothing else.                                          *)

ReadAccounted ==
    CASE loopPc = "push"  -> recvPc # "told" /\ loopRead = received + Len(recvChan) + 1
      [] loopPc = "ended" -> IF recvPc = "told" THEN recvChan = <<>> /\ loopRead = received
                             ELSE Len(recvChan) > 0 /\ loopRead = received + Len(recvChan) - 1
      [] OTHER            -> recvPc # "told" /\ loopRead = received + Len(recvChan)

NumberedInOrder ==
    \A i \in 1..Len(recvChan) :
        recvChan[i] = IF i = Len(recvChan) /\ loopPc = "ended" THEN 0 ELSE received + i

ConnectInv ==
    /\ recvChan \in Seq(Nat) /\ received \in Nat /\ loopRead \in Nat
    /\ ReadAccounted /\ NumberedInOrder

LEMMA ConnectInitInv == ConnectInit => ConnectInv
  BY DEF ConnectInit, ConnectInv, ReadAccounted, NumberedInOrder

LEMMA PushStep ==
    ASSUME ConnectInv, PushMessage \/ PushError
    PROVE  ConnectInv'
<1> USE DEF ConnectInv
<1>1. CASE PushMessage
  <2>1. recvChan' = Append(recvChan, loopRead) /\ loopRead = received + Len(recvChan) + 1
    BY <1>1 DEF PushMessage, Push, ReadAccounted
  <2>2. UNCHANGED <<received, recvPc, loopRead>> /\ loopPc = "push" /\ loopPc' = "read"
    BY <1>1 DEF PushMessage, recvVars
  <2>3. ReadAccounted'
    BY <2>1, <2>2 DEF ReadAccounted
  <2>4. NumberedInOrder'
    BY <2>1, <2>2 DEF NumberedInOrder
  <2> QED BY <2>1, <2>2, <2>3, <2>4
<1>2. CASE PushError
  <2>1. recvChan' = Append(recvChan, 0) /\ loopRead = received + Len(recvChan) /\ recvPc # "told"
    BY <1>2 DEF PushError, PushEnd, Push, ReadAccounted
  <2>2. UNCHANGED <<received, recvPc, loopRead>> /\ loopPc = "pushErr" /\ loopPc' = "ended"
    BY <1>2 DEF PushError, recvVars
  <2>3. ReadAccounted'
    BY <2>1, <2>2 DEF ReadAccounted
  <2>4. NumberedInOrder'
    BY <2>1, <2>2 DEF NumberedInOrder
  <2> QED BY <2>1, <2>2, <2>3, <2>4
<1> QED BY <1>1, <1>2

\* The first element is the next message, or the error, which is then the only one.
LEMMA RecvReturnsStep ==
    ASSUME ConnectInv, RecvReturns
    PROVE  ConnectInv'
<1> USE DEF ConnectInv
<1>1. /\ recvChan' = Tail(recvChan) /\ Len(recvChan) > 0 /\ Head(recvChan) = recvChan[1]
      /\ recvPc = "wait"
      /\ UNCHANGED <<loopRead, loopPc>>
  BY DEF RecvReturns
<1>2. /\ Len(recvChan') = Len(recvChan) - 1
      /\ \A i \in 1..Len(recvChan') : recvChan'[i] = recvChan[i + 1]
      /\ recvChan' \in Seq(Nat)
  BY <1>1
<1>3. CASE Head(recvChan) = 0
  <2>1. loopPc = "ended" /\ Len(recvChan) = 1
    <3>1. 1 \in 1..Len(recvChan)
      BY <1>1
    <3>2. recvChan[1] = IF 1 = Len(recvChan) /\ loopPc = "ended" THEN 0 ELSE received + 1
      BY <3>1, Zenon DEF NumberedInOrder
    <3> QED BY <1>1, <1>3, <3>2
  <2>2. recvPc' = "told" /\ received' = received /\ recvChan' = <<>>
    BY <1>1, <1>2, <1>3, <2>1 DEF RecvReturns
  <2>3. ReadAccounted' /\ NumberedInOrder'
    BY <1>1, <2>1, <2>2 DEF ReadAccounted, NumberedInOrder
  <2> QED BY <1>1, <1>2, <2>2, <2>3
<1>4. CASE Head(recvChan) # 0
  <2>1. received' = received + 1 /\ recvPc' = "call"
    BY <1>1, <1>4 DEF RecvReturns, NumberedInOrder
  <2>2. loopPc = "ended" => Len(recvChan) > 1
    BY <1>1, <1>4 DEF NumberedInOrder
  <2>3. ReadAccounted'
    BY <1>1, <1>2, <2>1, <2>2 DEF ReadAccounted
  <2>4. NumberedInOrder'
    <3> SUFFICES ASSUME NEW i \in 1..Len(recvChan')
                 PROVE  recvChan'[i] = IF i = Len(recvChan') /\ loopPc = "ended" THEN 0
                                       ELSE received' + i
      BY <1>1 DEF NumberedInOrder
    <3>1. i + 1 \in 1..Len(recvChan) /\ recvChan'[i] = recvChan[i + 1]
      BY <1>1, <1>2
    <3>2. recvChan[i + 1] = IF i + 1 = Len(recvChan) /\ loopPc = "ended" THEN 0
                            ELSE received + (i + 1)
      BY <3>1 DEF NumberedInOrder
    <3>3. received + (i + 1) = received' + i /\ (i + 1 = Len(recvChan) <=> i = Len(recvChan'))
      BY <1>1, <1>2, <2>1
    <3> QED BY <3>1, <3>2, <3>3, Zenon
  <2> QED BY <1>1, <1>2, <2>1, <2>3, <2>4
<1> QED BY <1>3, <1>4

LEMMA ConnectStep == ConnectInv /\ [ConnectNext]_wsVars => ConnectInv'
<1> SUFFICES ASSUME ConnectInv, [ConnectNext]_wsVars PROVE ConnectInv'
  OBVIOUS
<1>1. CASE UNCHANGED <<loopRead, loopPc, recvChan, recvPc, received>>
  BY <1>1 DEF ConnectInv, ReadAccounted, NumberedInOrder
<1>2. CASE UNCHANGED wsVars
  BY <1>1, <1>2 DEF wsVars, recvVars
<1>3. CASE ClientSends \/ ClientLeaves \/ ClientPauses
  BY <1>1, <1>3 DEF ClientSends, ClientLeaves, ClientPauses, recvVars
<1>4. CASE ReadMsg
  <2>1. /\ loopPc = "read" /\ UNCHANGED <<recvChan, recvPc, received>>
        /\ \/ loopRead' = loopRead + 1 /\ loopPc' = "push"
           \/ loopRead' = loopRead /\ loopPc' = "pushErr"
    BY <1>4 DEF ReadMsg, recvVars
  <2> QED BY <2>1 DEF ConnectInv, ReadAccounted, NumberedInOrder
<1>5. CASE PushMessage \/ PushError
  BY <1>5, PushStep
<1>6. CASE RecvLock
  BY <1>6 DEF RecvLock, ConnectInv, ReadAccounted, NumberedInOrder
<1>7. CASE RecvReturns
  BY <1>7, RecvReturnsStep
<1>8. ASSUME NEW c \in Callers, CallSend(c) \/ CallClose(c) \/ Call(c) \/ WriteReturns(c)
      PROVE  ConnectInv'
  BY <1>1, <1>8 DEF CallSend, CallClose, Call, SendLocked, CloseLocked, WriteReturns, recvVars
<1> QED BY <1>2, <1>3, <1>4, <1>5, <1>6, <1>7, <1>8 DEF ConnectNext, ReadLoop, Recv

\* The game gets the messages the loop has read, in order and once, and the error
\* last, for any capacity of the channel and any callers of Send and Close.
THEOREM MessagesArriveInOrder == ConnectSpec => []NothingLost
<1>1. ConnectInv => NothingLost
  BY DEF ConnectInv, ReadAccounted, NumberedInOrder, NothingLost
<1> QED BY <1>1, ConnectInitInv, ConnectStep, PTL DEF ConnectSpec

-----------------------------------------------------------------------------
(* Routers.  The game in the session is one of those that the history allows *)
(* every tab (GameKnown): its own, or one that came after its own.           *)

GameKnown == \A t \in Tabs : session.game \in {t} \cup others[t]

\* What a launch has written is there until it expires.
KeptIsSomebody == kept # {} => session.ident

SeatIsPlayers ==
    \A t \in Tabs :
        /\ tabSeated[t] => tabPlayer[t]
        /\ t \in OnDemand /\ tabPc[t] \in {"closed", "greet", "update", "brand", "read", "login"}
                => ~tabSeated[t]
        /\ tabPc[t] = "gone" /\ tabSeated[t] => tabTold[t]

RoutersInv == RoutersTypeOK /\ GameKnown /\ KeptIsSomebody /\ SeatIsPlayers

LEMMA OnDemandTabs == OnDemand \subseteq Tabs
  BY DEF OnDemand

LEMMA RoutersInitInv == RoutersInit => RoutersInv
<1> SUFFICES ASSUME RoutersInit PROVE RoutersInv
  OBVIOUS
<1> USE DEF RoutersInit, NoSession
<1>1. RoutersTypeOK
  BY DEF RoutersTypeOK
<1>2. GameKnown /\ KeptIsSomebody
  BY DEF GameKnown, KeptIsSomebody
<1>3. SeatIsPlayers
  BY DEF SeatIsPlayers
<1> QED BY <1>1, <1>2, <1>3 DEF RoutersInv

\* A handler of a closed or ended tab begins.
LEMMA EnterStep ==
    ASSUME RoutersInv, NEW t \in Tabs, Enter(t)
    PROVE  /\ tabPc' \in [Tabs -> {"closed", "greet", "update", "brand", "read", "login", "play",
                                   "end", "gone"}]
           /\ \A u \in Tabs : u # t => tabPc'[u] = tabPc[u]
           /\ tabPc'[t] \in {"greet", "read"} /\ (tabPc'[t] = "greet" <=> t \in OnDemand)
  BY DEF RoutersInv, RoutersTypeOK, Enter

\* The game that t writes is its own, and after the own game of every other tab.
LEMMA GameWritten ==
    ASSUME RoutersInv, NEW t \in Tabs, session'.game = t, others' = Noted(t)
    PROVE  GameKnown' /\ others' \in [Tabs -> SUBSET (Tabs \cup {NoGame})]
<1>1. others \in [Tabs -> SUBSET (Tabs \cup {NoGame})]
  BY DEF RoutersInv, RoutersTypeOK
<1>2. \A u \in Tabs : others'[u] = IF u = t THEN {} ELSE others[u] \cup {t}
  BY DEF Noted
<1>3. GameKnown'
  BY <1>2 DEF GameKnown
<1>4. others' \in [Tabs -> SUBSET (Tabs \cup {NoGame})]
  BY <1>1 DEF Noted
<1> QED BY <1>3, <1>4

LEMMA OpenTabStep ==
    ASSUME RoutersInv, NEW t \in Tabs, OpenTab(t)
    PROVE  RoutersInv'
<1> USE OnDemandTabs DEF OpenTab, RoutersInv, Written
<1>1. /\ tabPc' \in [Tabs -> {"closed", "greet", "update", "brand", "read", "login", "play",
                                "end", "gone"}]
      /\ \A u \in Tabs : u # t => tabPc'[u] = tabPc[u]
      /\ tabPc'[t] \in {"greet", "read"} /\ (tabPc'[t] = "greet" <=> t \in OnDemand)
  BY EnterStep
<1>2. SeatIsPlayers'
  BY <1>1 DEF SeatIsPlayers
<1>3. CASE UNCHANGED <<session, kept, others>>
  <2>1. RoutersTypeOK'
    BY <1>1, <1>3 DEF RoutersTypeOK
  <2>2. GameKnown' /\ KeptIsSomebody'
    BY <1>3 DEF GameKnown, KeptIsSomebody
  <2> QED BY <2>1, <2>2, <1>2
<1>4. CASE session' = Written(t) /\ kept' = kept \cup {t} /\ others' = Noted(t)
  <2>1. GameKnown' /\ others' \in [Tabs -> SUBSET (Tabs \cup {NoGame})]
    BY <1>4, GameWritten
  <2>2. RoutersTypeOK'
    BY <1>1, <1>4, <2>1 DEF RoutersTypeOK
  <2>3. KeptIsSomebody'
    BY <1>4 DEF KeptIsSomebody
  <2> QED BY <2>1, <2>2, <2>3, <1>2
<1> QED BY <1>3, <1>4

LEMMA ComeBackStep ==
    ASSUME RoutersInv, NEW t \in Tabs, ComeBack(t)
    PROVE  RoutersInv'
<1> USE OnDemandTabs DEF ComeBack, RoutersInv
<1>1. /\ tabPc' \in [Tabs -> {"closed", "greet", "update", "brand", "read", "login", "play",
                                "end", "gone"}]
      /\ \A u \in Tabs : u # t => tabPc'[u] = tabPc[u]
      /\ tabPc'[t] \in {"greet", "read"} /\ (tabPc'[t] = "greet" <=> t \in OnDemand)
  BY EnterStep
<1>2. RoutersTypeOK'
  BY <1>1 DEF RoutersTypeOK, NoSession
<1>3. GameKnown' /\ KeptIsSomebody'
  BY DEF GameKnown, KeptIsSomebody
<1>4. SeatIsPlayers'
  BY <1>1 DEF SeatIsPlayers, RoutersTypeOK
<1> QED BY <1>2, <1>3, <1>4

LEMMA ExpireStep == ASSUME RoutersInv, Expire PROVE RoutersInv'
<1> USE DEF Expire, RoutersInv, NoSession
<1>1. RoutersTypeOK'
  BY DEF RoutersTypeOK
<1>2. GameKnown' /\ KeptIsSomebody'
  BY DEF GameKnown, KeptIsSomebody
<1>3. SeatIsPlayers'
  BY DEF SeatIsPlayers
<1> QED BY <1>1, <1>2, <1>3

LEMMA UpdateStep ==
    ASSUME RoutersInv, NEW t \in Tabs, UpdateGame(t) \/ UpdateBrand(t)
    PROVE  RoutersInv'
<1> USE OnDemandTabs DEF UpdateGame, UpdateBrand, PutGame, TabGo, RoutersInv
<1>1. /\ tabPc' \in [Tabs -> {"closed", "greet", "update", "brand", "read", "login", "play",
                                "end", "gone"}]
      /\ \A u \in Tabs : u # t => tabPc'[u] = tabPc[u]
      /\ tabPc[t] \in {"update", "brand"} /\ tabPc'[t] \in {"brand", "read"}
      /\ UNCHANGED <<kept, tabInfo, tabPlayer, tabSeated, tabTold>>
  BY DEF RoutersTypeOK
<1>2. SeatIsPlayers'
  BY <1>1 DEF SeatIsPlayers
<1>3. CASE UpdateGame(t)
  <2>1. session' = [session EXCEPT !.game = t] /\ others' = Noted(t)
    BY <1>3
  <2>2. session'.game = t /\ session'.ident = session.ident
    BY <2>1 DEF RoutersTypeOK
  <2>3. GameKnown' /\ others' \in [Tabs -> SUBSET (Tabs \cup {NoGame})]
    BY <2>1, <2>2, GameWritten
  <2>4. RoutersTypeOK'
    BY <1>1, <2>1, <2>3 DEF RoutersTypeOK
  <2>5. KeptIsSomebody'
    BY <1>1, <2>2 DEF KeptIsSomebody
  <2> QED BY <1>2, <2>3, <2>4, <2>5
<1>4. CASE UpdateBrand(t)
  <2>1. session' = [session EXCEPT !.brand = "spribe"] /\ others' = others
    BY <1>4
  <2>2. session'.game = session.game /\ session'.ident = session.ident
    BY <2>1 DEF RoutersTypeOK
  <2>3. RoutersTypeOK'
    BY <1>1, <2>1 DEF RoutersTypeOK
  <2>4. GameKnown' /\ KeptIsSomebody'
    BY <1>1, <2>1, <2>2 DEF GameKnown, KeptIsSomebody
  <2> QED BY <1>2, <2>3, <2>4
<1> QED BY <1>3, <1>4

LEMMA HandlerStep ==
    ASSUME RoutersInv, NEW t \in Tabs,
           ReadSession(t) \/ AskLogin(t) \/ Login(t) \/ Fails(t) \/ HandlerEnds(t)
    PROVE  RoutersInv'
<1> USE OnDemandTabs
    DEF ReadSession, AskLogin, Login, Fails, HandlerEnds, TabGo, RoutersInv, PlayerSet
<1>1. RoutersTypeOK'
  <2>1. CASE ReadSession(t)
    <3>1. (t \notin OnDemand) \in BOOLEAN
      OBVIOUS
    <3> QED BY <2>1, <3>1 DEF RoutersTypeOK
  <2>2. CASE AskLogin(t) \/ Login(t) \/ Fails(t) \/ HandlerEnds(t)
    <3>1. UNCHANGED <<session, kept, others, tabInfo>>
      BY <2>2
    <3>2. tabPc' \in [Tabs -> {"closed", "greet", "update", "brand", "read", "login", "play",
                              "end", "gone"}]
      BY <2>2 DEF RoutersTypeOK
    <3>3. tabPlayer' \in [Tabs -> BOOLEAN]
      <4>1. CASE Login(t)
        <5>1. PICK ok \in BOOLEAN : tabPlayer' = [tabPlayer EXCEPT ![t] = PlayerSet(t, ok)]
          BY <4>1
        <5>2. PlayerSet(t, ok) \in BOOLEAN
          BY <5>1
        <5> HIDE DEF PlayerSet
        <5> QED BY <5>1, <5>2 DEF RoutersTypeOK
      <4>2. CASE UNCHANGED tabPlayer
        BY <4>2 DEF RoutersTypeOK
      <4> QED BY <2>2, <4>1, <4>2
    <3>4. tabSeated' \in [Tabs -> BOOLEAN]
      BY <2>2 DEF RoutersTypeOK
    <3>5. tabTold' \in [Tabs -> BOOLEAN]
      BY <2>2 DEF RoutersTypeOK
    <3> QED BY <3>1, <3>2, <3>3, <3>4, <3>5 DEF RoutersTypeOK
  <2> QED BY <2>1, <2>2
<1>2. GameKnown' /\ KeptIsSomebody'
  BY DEF GameKnown, KeptIsSomebody
<1>3. SeatIsPlayers'
  BY DEF SeatIsPlayers, OnDemand, RoutersTypeOK
<1> QED BY <1>1, <1>2, <1>3

LEMMA RoutersStep == RoutersInv /\ [RoutersNext]_routersVars => RoutersInv'
<1> SUFFICES ASSUME RoutersInv, [RoutersNext]_routersVars PROVE RoutersInv'
  OBVIOUS
<1>1. CASE UNCHANGED routersVars
  BY <1>1 DEF routersVars, RoutersInv, RoutersTypeOK, GameKnown, KeptIsSomebody, SeatIsPlayers
<1>2. CASE RoutersNext
  BY <1>2, ExpireStep, OpenTabStep, ComeBackStep, UpdateStep, HandlerStep DEF RoutersNext
<1> QED BY <1>1, <1>2

\* Only reading the session leads from "read" to the login or the game.
LEMMA ReadByReading ==
    ASSUME RoutersInv, RoutersNext, NEW t \in Tabs, tabPc[t] = "read",
           tabPc'[t] \in {"login", "play"}
    PROVE  ReadSession(t)
<1> USE DEF RoutersInv, RoutersTypeOK, TabGo
<1>1. ~Expire
  BY DEF Expire
<1>2. ASSUME NEW u \in Tabs, u # t,
             \/ OpenTab(u) \/ ComeBack(u) \/ UpdateGame(u) \/ UpdateBrand(u) \/ ReadSession(u)
             \/ AskLogin(u) \/ Login(u) \/ Fails(u) \/ HandlerEnds(u)
      PROVE  FALSE
  <2>1. tabPc'[t] = tabPc[t]
    BY <1>2 DEF OpenTab, ComeBack, Enter, UpdateGame, UpdateBrand, ReadSession, AskLogin, Login,
                Fails, HandlerEnds
  <2> QED BY <2>1
<1>3. ~(\/ OpenTab(t) \/ ComeBack(t) \/ UpdateGame(t) \/ UpdateBrand(t) \/ AskLogin(t)
        \/ Login(t) \/ Fails(t) \/ HandlerEnds(t))
  BY DEF OpenTab, ComeBack, UpdateGame, UpdateBrand, AskLogin, Login, Fails, HandlerEnds
<1> QED BY <1>1, <1>2, <1>3 DEF RoutersNext

\* A handler reads its own game, or one that was written after it wrote its own, and
\* none only if the session has expired since; and a player whom the launch has
\* written, unless it has expired.  For any tabs, and launches that fail to write.
THEOREM OwnSessionsRead == RoutersSpec => OwnSessionRead
<1> DEFINE Own ==
        \A t \in Tabs : tabPc[t] = "read" /\ tabPc'[t] \in {"login", "play"} =>
            /\ tabInfo'[t].game \in {t} \cup others[t]
            /\ t \in kept => tabInfo'[t].ident
<1>1. RoutersInv /\ [RoutersNext]_routersVars => [Own]_routersVars
  <2> SUFFICES ASSUME RoutersInv, RoutersNext, NEW t \in Tabs, tabPc[t] = "read",
                      tabPc'[t] \in {"login", "play"}
               PROVE  /\ tabInfo'[t].game \in {t} \cup others[t]
                      /\ t \in kept => tabInfo'[t].ident
    OBVIOUS
  <2>1. ReadSession(t)
    BY ReadByReading
  <2>2. tabInfo'[t] = session
    BY <2>1 DEF ReadSession, RoutersInv, RoutersTypeOK
  <2> QED BY <2>2 DEF RoutersInv, GameKnown, KeptIsSomebody
<1> QED BY <1>1, RoutersInitInv, RoutersStep, PTL DEF RoutersSpec, OwnSessionRead

\* A handler that has seated a player tells the room when it ends, in all four
\* brands and wherever a step fails.
THEOREM SeatedAreTold == RoutersSpec => []SeatedIsTold
<1>1. RoutersInv => SeatedIsTold
  BY DEF RoutersInv, SeatIsPlayers, SeatedIsTold
<1> QED BY <1>1, RoutersInitInv, RoutersStep, PTL DEF RoutersSpec

-----------------------------------------------------------------------------
(* AppInfoIndex.  Every property is inductive together with the types: what  *)
(* put and remove need to know of the old row is in the map by app id,       *)
(* because an app has at most the key it is cached with.                     *)

IndexInv == IndexTypeOK /\ KeyLeadsToCachedRow /\ CachedRowHasKey

LEMMA InitIndexInv == IndexInit => IndexInv
  BY IndexAssumption DEF IndexInit, IndexInv, IndexTypeOK, KeyLeadsToCachedRow, CachedRowHasKey

\* Dropping the key of an app leaves the keys of the others, and no key that
\* leads to the app.
LEMMA DropKeySound ==
    ASSUME IndexTypeOK, KeyLeadsToCachedRow, NEW a \in Apps
    PROVE  /\ DropKey(a, byAccessKey) \in [Keys -> Rows \cup {NoRow}]
           /\ \A k \in Keys : DropKey(a, byAccessKey)[k] # NoRow =>
                /\ DropKey(a, byAccessKey)[k] = byAccessKey[k]
                /\ byAccessKey[k].app # a
           /\ \A k \in Keys :
                \/ DropKey(a, byAccessKey)[k] = byAccessKey[k]
                \/ byAppID[a] # NoRow /\ byAppID[a].key = k
<1> USE DEF IndexTypeOK
<1>1. CASE byAppID[a] # NoRow /\ byAppID[a].key # NoKey
  <2> DEFINE k0 == byAppID[a].key
  <2>1. k0 \in Keys
    BY <1>1, IndexAssumption
  <2>2. DropKey(a, byAccessKey) = [byAccessKey EXCEPT ![k0] = NoRow]
    BY <1>1 DEF DropKey
  <2>3. ASSUME NEW k \in Keys, k # k0, byAccessKey[k] # NoRow PROVE byAccessKey[k].app # a
    BY <2>3, <1>1 DEF KeyLeadsToCachedRow
  <2> QED BY <1>1, <2>1, <2>2, <2>3
<1>2. CASE byAppID[a] = NoRow \/ byAppID[a].key = NoKey
  <2>1. DropKey(a, byAccessKey) = byAccessKey
    BY <1>2 DEF DropKey
  <2>2. ASSUME NEW k \in Keys, byAccessKey[k] # NoRow PROVE byAccessKey[k].app # a
    BY <2>2, <1>2, IndexAssumption DEF KeyLeadsToCachedRow
  <2> QED BY <2>1, <2>2
<1> QED BY <1>1, <1>2

LEMMA LoadAllStep ==
    ASSUME IndexInv, NEW t \in Tables, LoadAll(t)
    PROVE  IndexInv'
<1>1. /\ t \in [Apps -> Rows \cup {NoRow}]
      /\ \A a \in Apps : t[a] # NoRow => t[a].app = a
  BY DEF Tables
<1>2. byAppID' = t /\ byAccessKey' \in [Keys -> {t[a] : a \in Apps} \cup {NoRow}]
  BY DEF LoadAll, Indexes
<1>3. ASSUME NEW k \in Keys
      PROVE  \/ byAccessKey'[k] # NoRow /\ byAccessKey'[k].key = k
                    /\ t[byAccessKey'[k].app] = byAccessKey'[k]
             \/ byAccessKey'[k] = NoRow /\ \A a \in Apps : t[a] # NoRow => t[a].key # k
  BY DEF LoadAll, Indexes
<1>4. IndexTypeOK'
  BY <1>1, <1>2 DEF IndexTypeOK
<1>5. KeyLeadsToCachedRow'
  BY <1>2, <1>3 DEF KeyLeadsToCachedRow
<1>6. CachedRowHasKey'
  <2> SUFFICES ASSUME NEW a \in Apps, t[a] # NoRow, t[a].key # NoKey, Owned(t[a].key)
               PROVE  byAccessKey'[t[a].key] = t[a]
    BY <1>2 DEF CachedRowHasKey
  <2> DEFINE k == t[a].key
             r == byAccessKey'[k]
  <2>1. t[a] \in Rows /\ t[a].app = a /\ k \in Keys
    BY <1>1, IndexAssumption
  <2>2. r # NoRow /\ r.key = k /\ t[r.app] = r
    BY <1>3, <2>1
  <2>3. r \in Rows
    BY <1>1, <1>2, <2>1, <2>2
  <2>4. r.app = a
    BY <2>1, <2>2, <2>3 DEF Owned
  <2> QED BY <2>2, <2>4
<1> QED BY <1>4, <1>5, <1>6 DEF IndexInv

LEMMA PutStep ==
    ASSUME IndexInv, NEW r \in Rows, Put(r)
    PROVE  IndexInv'
<1> DEFINE x == DropKey(r.app, byAccessKey)
<1>1. r.app \in Apps /\ r.key \in Keys \cup {NoKey} /\ r # NoRow
  BY IndexAssumption
<1>2. /\ x \in [Keys -> Rows \cup {NoRow}]
      /\ \A k \in Keys : x[k] # NoRow => x[k] = byAccessKey[k] /\ x[k].app # r.app
      /\ \A k \in Keys : x[k] = byAccessKey[k] \/ (byAppID[r.app] # NoRow /\ byAppID[r.app].key = k)
  BY <1>1, DropKeySound, SMTT(30) DEF IndexInv
<1>3. byAppID' = [byAppID EXCEPT ![r.app] = r]
  BY DEF Put
<1>4. byAccessKey' = IF r.key = NoKey THEN x ELSE [x EXCEPT ![r.key] = r]
  BY DEF Put, Indexed
<1> HIDE DEF x
<1>5. IndexTypeOK'
  <2>1. byAppID' \in [Apps -> Rows \cup {NoRow}]
    BY <1>1, <1>3 DEF IndexInv, IndexTypeOK
  <2>2. byAccessKey' \in [Keys -> Rows \cup {NoRow}]
    BY <1>1, <1>2, <1>4
  <2>3. \A a \in Apps : byAppID'[a] # NoRow => byAppID'[a].app = a
    BY <1>1, <1>3 DEF IndexInv, IndexTypeOK
  <2> QED BY <2>1, <2>2, <2>3 DEF IndexTypeOK
<1>6. KeyLeadsToCachedRow'
  <2> SUFFICES ASSUME NEW k \in Keys, byAccessKey'[k] # NoRow
               PROVE  byAccessKey'[k].key = k /\ byAppID'[byAccessKey'[k].app] = byAccessKey'[k]
    BY DEF KeyLeadsToCachedRow
  <2>1. CASE r.key = k
    BY <2>1, <1>1, <1>2, <1>3, <1>4, IndexAssumption DEF IndexInv, IndexTypeOK
  <2>2. CASE r.key # k
    <3>1. byAccessKey'[k] = x[k]
      BY <2>2, <1>1, <1>2, <1>4
    <3>2. x[k] = byAccessKey[k] /\ x[k].app # r.app
      BY <3>1, <1>2
    <3>3. byAccessKey[k].key = k /\ byAppID[byAccessKey[k].app] = byAccessKey[k]
      BY <3>1, <3>2 DEF IndexInv, KeyLeadsToCachedRow
    <3>4. byAppID'[x[k].app] = byAppID[x[k].app]
      <4>1. x[k].app \in Apps
        BY <3>1, <3>2, IndexAssumption DEF IndexInv, IndexTypeOK
      <4> QED BY <4>1, <3>2, <1>3 DEF IndexInv, IndexTypeOK
    <3> QED BY <3>1, <3>2, <3>3, <3>4
  <2> QED BY <2>1, <2>2
<1>7. CachedRowHasKey'
  <2> SUFFICES ASSUME NEW a \in Apps, byAppID'[a] # NoRow, byAppID'[a].key # NoKey,
                      Owned(byAppID'[a].key)
               PROVE  byAccessKey'[byAppID'[a].key] = byAppID'[a]
    BY DEF CachedRowHasKey
  <2>1. CASE a = r.app
    BY <2>1, <1>1, <1>2, <1>3, <1>4 DEF IndexInv, IndexTypeOK
  <2>2. CASE a # r.app
    <3> DEFINE q == byAppID[a]
    <3>1. byAppID'[a] = q /\ q \in Rows /\ q.app = a /\ q.key \in Keys
      BY <2>2, <1>1, <1>3, IndexAssumption DEF IndexInv, IndexTypeOK
    <3>2. byAccessKey[q.key] = q
      BY <3>1 DEF IndexInv, CachedRowHasKey
    <3>3. r.key # q.key
      BY <2>2, <3>1 DEF Owned
    <3>4. ~(byAppID[r.app] # NoRow /\ byAppID[r.app].key = q.key)
      BY <2>2, <1>1, <3>1 DEF Owned, IndexInv, IndexTypeOK
    <3>5. x[q.key] = q
      BY <1>2, <3>1, <3>2, <3>4
    <3> QED BY <3>1, <3>3, <3>5, <1>1, <1>2, <1>4
  <2> QED BY <2>1, <2>2
<1> QED BY <1>5, <1>6, <1>7 DEF IndexInv

LEMMA RemoveStep ==
    ASSUME IndexInv, NEW b \in Apps, RemoveApp(b)
    PROVE  IndexInv'
<1> DEFINE x == DropKey(b, byAccessKey)
<1>1. /\ x \in [Keys -> Rows \cup {NoRow}]
      /\ \A k \in Keys : x[k] # NoRow => x[k] = byAccessKey[k] /\ x[k].app # b
      /\ \A k \in Keys : x[k] = byAccessKey[k] \/ (byAppID[b] # NoRow /\ byAppID[b].key = k)
  BY DropKeySound, SMTT(30) DEF IndexInv
<1>2. byAppID' = [byAppID EXCEPT ![b] = NoRow] /\ byAccessKey' = x
  BY DEF RemoveApp
<1> HIDE DEF x
<1>3. IndexTypeOK'
  <2>1. byAppID' \in [Apps -> Rows \cup {NoRow}]
    BY <1>2 DEF IndexInv, IndexTypeOK
  <2>2. \A a \in Apps : byAppID'[a] # NoRow => byAppID'[a].app = a
    BY <1>2 DEF IndexInv, IndexTypeOK
  <2> QED BY <1>1, <1>2, <2>1, <2>2 DEF IndexTypeOK
<1>4. KeyLeadsToCachedRow'
  <2> SUFFICES ASSUME NEW k \in Keys, x[k] # NoRow
               PROVE  x[k].key = k /\ byAppID'[x[k].app] = x[k]
    BY <1>2 DEF KeyLeadsToCachedRow
  <2>1. x[k] = byAccessKey[k] /\ x[k].app # b
    BY <1>1
  <2>2. x[k].app \in Apps
    BY <1>1, IndexAssumption
  <2> QED BY <2>1, <2>2, <1>2 DEF IndexInv, IndexTypeOK, KeyLeadsToCachedRow
<1>5. CachedRowHasKey'
  <2> SUFFICES ASSUME NEW a \in Apps, byAppID'[a] # NoRow, byAppID'[a].key # NoKey,
                      Owned(byAppID'[a].key)
               PROVE  x[byAppID'[a].key] = byAppID'[a]
    BY <1>2 DEF CachedRowHasKey
  <2> DEFINE q == byAppID[a]
  <2>1. a # b /\ byAppID'[a] = q /\ q \in Rows /\ q.app = a /\ q.key \in Keys
    BY <1>2, IndexAssumption DEF IndexInv, IndexTypeOK
  <2>2. byAccessKey[q.key] = q
    BY <2>1 DEF IndexInv, CachedRowHasKey
  <2>3. ~(byAppID[b] # NoRow /\ byAppID[b].key = q.key)
    BY <2>1 DEF Owned, IndexInv, IndexTypeOK
  <2> QED BY <1>1, <2>1, <2>2, <2>3
<1> QED BY <1>3, <1>4, <1>5 DEF IndexInv

LEMMA IndexInvStep == IndexInv /\ [IndexNext]_indexVars => IndexInv'
<1> SUFFICES ASSUME IndexInv, [IndexNext]_indexVars PROVE IndexInv'
  OBVIOUS
<1>1. CASE UNCHANGED indexVars
  BY <1>1 DEF indexVars, IndexInv, IndexTypeOK, KeyLeadsToCachedRow, CachedRowHasKey
<1> QED BY <1>1, LoadAllStep, PutStep, RemoveStep DEF IndexNext

LEMMA IndexInvariant == IndexSpec => []IndexInv
  BY InitIndexInv, IndexInvStep, PTL DEF IndexSpec

\* A key an app no longer has does not find it.
THEOREM KeysLeadToCachedRows == IndexSpec => []KeyLeadsToCachedRow
  BY IndexInvariant, PTL DEF IndexInv

\* While keys are not passed on, the index misses no cached app.
THEOREM CachedRowsHaveKeys == IndexSpec => []CachedRowHasKey
  BY IndexInvariant, PTL DEF IndexInv

-----------------------------------------------------------------------------
(* CacheManager, for calls that do not overlap (SerialCalls).  The run that  *)
(* a call works on is the manager's until the call lets go of it (OwnRun),   *)
(* and a live context is the manager's or about to be cancelled (LiveHeld).  *)

OneCall == \A t, u \in MgrCallers : mgrPc[t] # "idle" /\ mgrPc[u] # "idle" => t = u

OwnRun ==
    /\ started <=> cancel # NoRun
    /\ \A t \in MgrCallers :
        /\ mgrPc[t] \in {"idle", "wait", "stopped"} => run[t] = NoRun
        /\ mgrPc[t] \in {"failed", "reset", "spawn"} => run[t] # NoRun
        /\ mgrPc[t] # "cancel" /\ run[t] # NoRun => cancel = run[t]
        /\ mgrPc[t] = "reset" => ctx[run[t]] = "cancelled"

LiveHeld ==
    \A r \in Runs : ctx[r] = "live" =>
        cancel = r \/ \E t \in MgrCallers : mgrPc[t] = "cancel" /\ run[t] = r

ManagerTypes ==
    /\ mgrPc \in [MgrCallers -> {"idle", "warm", "warmed", "failed", "reset", "spawn", "cancel",
                                 "wait", "stopped"}]
    /\ run \in [MgrCallers -> Runs \cup {NoRun}]
    /\ cancel \in Runs \cup {NoRun}
    /\ ctx \in [Runs -> {"unused", "live", "cancelled"}]
    /\ started \in BOOLEAN

ManagerInv == ManagerTypes /\ OneCall /\ OwnRun /\ LiveHeld

LEMMA ManagerInitInv == ManagerInit => ManagerInv
  BY DEF ManagerInit, ManagerInv, ManagerTypes, OneCall, OwnRun, LiveHeld

\* The steps that leave the runs and the contexts alone.
LEMMA QuietManagerStep ==
    ASSUME ManagerInv, UNCHANGED <<started, cancel, ctx, run>>,
           NEW t \in MgrCallers,
           \/ UNCHANGED mgrPc
           \/ MgrGo(t, "warm", "warmed") \/ MgrGo(t, "warm", AfterFailure(t))
           \/ MgrGo(t, "warmed", AfterWarmUp(t)) \/ MgrGo(t, "spawn", "spawn")
           \/ MgrGo(t, "wait", "stopped") \/ MgrGo(t, "stopped", "idle")
    PROVE  ManagerInv'
<1> USE DEF ManagerInv, MgrGo, AfterFailure, AfterWarmUp
<1>1. ManagerTypes' /\ OneCall'
  BY DEF ManagerTypes, OneCall
<1>2. OwnRun' /\ LiveHeld'
  BY DEF ManagerTypes, OwnRun, LiveHeld
<1> QED BY <1>1, <1>2

LEMMA StartStep ==
    ASSUME SerialCalls, ManagerInv, NEW t \in MgrCallers, Start(t) \/ CallWarmUp(t)
    PROVE  ManagerInv'
<1> USE ManagerAssumption DEF ManagerInv, MgrGo, MayCall, ManagerTypes, flags
<1>1. mgrPc[t] = "idle" /\ mgrPc' = [mgrPc EXCEPT ![t] = "warm"]
      /\ \A u \in MgrCallers : mgrPc[u] = "idle"
  BY DEF Start, CallWarmUp
<1>2. OneCall'
  BY <1>1 DEF OneCall
<1>3. CASE CallWarmUp(t)
  BY <1>1, <1>2, <1>3 DEF CallWarmUp, OwnRun, LiveHeld
<1>4. CASE Start(t)
  <2>1. PICK r \in Runs : /\ NotStarted /\ started' = TRUE
                          /\ ctx' = [ctx EXCEPT ![r] = "live"]
                          /\ cancel' = r /\ run' = [run EXCEPT ![t] = r]
    BY <1>4 DEF Start
  <2>2. cancel = NoRun
    BY <2>1 DEF NotStarted, OwnRun
  <2>3. ManagerTypes'
    BY <1>1, <2>1
  <2>4. OwnRun'
    BY <1>1, <2>1 DEF OwnRun
  <2>5. LiveHeld'
    BY <1>1, <2>1, <2>2 DEF LiveHeld
  <2> QED BY <1>2, <2>3, <2>4, <2>5
<1> QED BY <1>3, <1>4

LEMMA StopStep ==
    ASSUME SerialCalls, ManagerInv, NEW t \in MgrCallers, Stop(t) \/ StopCancels(t)
    PROVE  ManagerInv'
<1> USE ManagerAssumption DEF ManagerInv, MgrGo, MayCall, ManagerTypes, flags
<1>1. CASE Stop(t)
  <2>1. ManagerTypes' /\ OneCall'
    BY <1>1 DEF Stop, OneCall
  <2>2. OwnRun'
    BY <1>1 DEF Stop, OwnRun
  <2>3. LiveHeld'
    BY <1>1 DEF Stop, LiveHeld
  <2> QED BY <2>1, <2>2, <2>3
<1>2. CASE StopCancels(t)
  <2>1. /\ ctx' \in [Runs -> {"unused", "live", "cancelled"}]
        /\ \A r \in Runs : ctx'[r] # "cancelled" => r # run[t] /\ ctx'[r] = ctx[r]
        /\ \A r \in Runs : ctx[r] = "cancelled" => ctx'[r] = "cancelled"
    BY <1>2 DEF StopCancels, Cancelled
  <2>2. ManagerTypes' /\ OneCall'
    BY <1>2, <2>1 DEF StopCancels, OneCall
  <2>3. OwnRun'
    BY <1>2, <2>1 DEF StopCancels, OwnRun
  <2>4. LiveHeld'
    BY <1>2, <2>1 DEF StopCancels, LiveHeld
  <2> QED BY <2>2, <2>3, <2>4
<1> QED BY <1>1, <1>2

\* A failed Start clears the manager's run, which is its own and cancelled.
LEMMA CleanupStep ==
    ASSUME ManagerInv, NEW t \in MgrCallers,
           CancelFailed(t) \/ ResetFailed(t) \/ StartReturns(t)
    PROVE  ManagerInv'
<1> USE ManagerAssumption DEF ManagerInv, MgrGo, ManagerTypes, flags
<1>1. CASE CancelFailed(t)
  <2>1. run[t] \in Runs /\ ctx' = [ctx EXCEPT ![run[t]] = "cancelled"]
    BY <1>1 DEF CancelFailed, Cancelled, OwnRun
  <2>2. ManagerTypes' /\ OneCall'
    BY <1>1, <2>1 DEF CancelFailed, OneCall
  <2>3. OwnRun'
    BY <1>1, <2>1 DEF CancelFailed, OwnRun
  <2>4. LiveHeld'
    BY <1>1, <2>1 DEF CancelFailed, LiveHeld
  <2> QED BY <2>2, <2>3, <2>4
<1>2. CASE ResetFailed(t)
  <2>1. cancel = run[t] /\ ctx[run[t]] = "cancelled"
    BY <1>2 DEF ResetFailed, OwnRun
  <2>2. ManagerTypes' /\ OneCall'
    BY <1>2 DEF ResetFailed, OneCall
  <2>3. \A u \in MgrCallers : u # t => run[u] = NoRun
    BY <1>2 DEF ResetFailed, OneCall, OwnRun
  <2>4. OwnRun'
    BY <1>2, <2>3 DEF ResetFailed, OwnRun
  <2>5. LiveHeld'
    BY <1>2, <2>1, <2>3 DEF ResetFailed, LiveHeld
  <2> QED BY <2>2, <2>4, <2>5
<1>3. CASE StartReturns(t)
  <2>1. ManagerTypes' /\ OneCall'
    BY <1>3 DEF StartReturns, OneCall
  <2>2. OwnRun' /\ LiveHeld'
    BY <1>3 DEF StartReturns, OwnRun, LiveHeld
  <2> QED BY <2>1, <2>2
<1> QED BY <1>1, <1>2, <1>3

LEMMA RunStep ==
    ASSUME ManagerInv, NEW r \in Runs,
           LoopReturns(r) \/ SubscriptionLost(r) \/ ParentCancelled(r)
    PROVE  ManagerInv'
<1>1. /\ UNCHANGED <<started, cancel, mgrPc, run>>
      /\ ctx' = ctx \/ ctx' = [ctx EXCEPT ![r] = "cancelled"]
  BY DEF LoopReturns, SubscriptionLost, ParentCancelled, flags
<1> QED BY <1>1 DEF ManagerInv, ManagerTypes, OneCall, OwnRun, LiveHeld

LEMMA ManagerStep ==
    ASSUME SerialCalls
    PROVE  ManagerInv /\ [ManagerNext]_managerVars => ManagerInv'
<1> SUFFICES ASSUME ManagerInv, [ManagerNext]_managerVars PROVE ManagerInv'
  OBVIOUS
<1>1. CASE UNCHANGED managerVars
  BY <1>1 DEF managerVars, ManagerInv, ManagerTypes, OneCall, OwnRun, LiveHeld
<1>2. ASSUME NEW t \in MgrCallers,
             \/ Register(t) \/ WarmUpLoads(t) \/ WarmUpFails(t) \/ SetWarmedUp(t)
             \/ StartLoop(t) \/ StopWaits(t) \/ StopReturns(t)
      PROVE  ManagerInv'
  BY <1>2, QuietManagerStep
  DEF Register, WarmUpLoads, WarmUpFails, SetWarmedUp, StartLoop, StopWaits, StopReturns, flags
<1>3. ASSUME NEW t \in MgrCallers, Start(t) \/ CallWarmUp(t) PROVE ManagerInv'
  BY <1>3, StartStep
<1>4. ASSUME NEW t \in MgrCallers, Stop(t) \/ StopCancels(t) PROVE ManagerInv'
  BY <1>4, StopStep
<1>5. ASSUME NEW t \in MgrCallers, CancelFailed(t) \/ ResetFailed(t) \/ StartReturns(t)
      PROVE  ManagerInv'
  BY <1>5, CleanupStep
<1>6. ASSUME NEW r \in Runs, LoopReturns(r) \/ SubscriptionLost(r) \/ ParentCancelled(r)
      PROVE  ManagerInv'
  BY <1>6, RunStep
<1> QED BY <1>1, <1>2, <1>3, <1>4, <1>5, <1>6 DEF ManagerNext, MgrProceed

\* Loops that nobody has told to end can be ended by a Stop, or one is about to end
\* them, for any callers, stores and runs, if the calls do not overlap.
THEOREM LoopsStayInHand == ASSUME SerialCalls PROVE ManagerSpec => []LoopsCanBeStopped
<1>1. ManagerInv => LoopsCanBeStopped
  BY DEF ManagerInv, LiveHeld, LoopsCanBeStopped
<1> QED BY <1>1, ManagerInitInv, ManagerStep, PTL DEF ManagerSpec

-----------------------------------------------------------------------------
(* ShardRouter.  A rule that says since when a merchant shards never says a  *)
(* later time than the database (RuleNotAhead), so that a query goes back    *)
(* far enough; that it reads every month in between rests on months being    *)
(* in the order of what the clocks show.                                     *)

LEMMA MonthBegins ==
    ASSUME NEW x \in Int, NEW zone \in Int
    PROVE  /\ Month(x, zone) \in Int
           /\ FirstOf(Month(x, zone)) <= x + zone
           /\ x + zone < FirstOf(Month(x, zone) + 1)
<1> DEFINE y == x + zone
<1>1. y \in Int /\ MonthLen \in Nat \ {0}
  BY ShardAssumption
<1> HIDE DEF y
<1>2. /\ y \div MonthLen \in Int
      /\ y % MonthLen = y - MonthLen * (y \div MonthLen) /\ y % MonthLen \in 0..MonthLen - 1
  BY <1>1
<1>3. (y \div MonthLen) * MonthLen <= y /\ y < (y \div MonthLen + 1) * MonthLen
  BY <1>1, <1>2
<1> QED BY <1>2, <1>3 DEF y, Month, FirstOf

LEMMA MonthsInOrder ==
    ASSUME NEW x \in Int, NEW zone \in Int, NEW y \in Int, NEW other \in Int,
           x + zone <= y + other
    PROVE  Month(x, zone) <= Month(y, other)
<1> DEFINE mx == Month(x, zone)
           my == Month(y, other)
<1>1. /\ mx \in Int /\ FirstOf(mx) <= x + zone
      /\ my \in Int /\ y + other < FirstOf(my + 1)
  BY MonthBegins
<1> HIDE DEF mx, my
<1>2. ASSUME my + 1 <= mx PROVE FirstOf(my + 1) <= FirstOf(mx)
  BY <1>1, <1>2, ShardAssumption DEF FirstOf
<1>3. FirstOf(mx) \in Int /\ FirstOf(my + 1) \in Int
  BY <1>1, ShardAssumption DEF FirstOf
<1>4. mx <= my
  BY <1>1, <1>2, <1>3
<1> QED BY <1>4 DEF mx, my

RuleNotAhead ==
    /\ appInfo.mode = "MainAndHistory" => appInfo.since # NoTime
    /\ appInfo.since # NoTime => appInfo.since <= now
    /\ rule # NoRule /\ rule.since # NoTime =>
           appInfo.since # NoTime /\ rule.since <= appInfo.since

ShardInv == ShardTypeOK /\ RuleNotAhead

LEMMA ShardInitInv == ShardInit => ShardInv
  BY ShardAssumption DEF ShardInit, ShardInv, ShardTypeOK, RuleNotAhead, Times, Modes

LEMMA ShardStep == ShardInv /\ [ShardNext]_shardVars => ShardInv'
<1> SUFFICES ASSUME ShardInv, [ShardNext]_shardVars PROVE ShardInv'
  OBVIOUS
<1> USE ShardAssumption DEF ShardInv, ShardTypeOK, RuleNotAhead, Times, Modes
<1>1. CASE UNCHANGED shardVars
  BY <1>1 DEF shardVars
<1>2. CASE PassTime
  BY <1>2 DEF PassTime
<1>3. CASE StartSharding
  BY <1>3 DEF StartSharding
<1>4. CASE StopSharding
  BY <1>4 DEF StopSharding
<1>5. CASE InitializeRules
  BY <1>5 DEF InitializeRules
<1>6. CASE UpdateRule
  BY <1>6 DEF UpdateRule
<1> QED BY <1>1, <1>2, <1>3, <1>4, <1>5, <1>6 DEF ShardNext

\* A query leaves out no table it has records in as long as the clocks agree, for
\* any zones, length of a month and period of the main table.
THEOREM NoTableLeftOut == ShardSpec => []NoRecordMissed
<1>1. ASSUME ShardInv PROVE NoRecordMissed
  <2> SUFFICES ASSUME Sharded, NEW start \in Times, NEW end \in Times, start <= end,
                      NEW zone \in Zones, NEW x \in start..end,
                      Home(x) = Main \/ ClocksAgree(x, <<start, end>>, zone)
               PROVE  Home(x) \in GetQueryTables(start, end, zone)
    BY DEF NoRecordMissed, Queries
  <2> USE ShardAssumption, <1>1 DEF ShardInv, ShardTypeOK, Times, Modes, Sharded
  <2>1. GetQueryTables(start, end, zone) = MainTable(end) \cup HistoryTables(start, end, zone)
    BY DEF GetQueryTables
  <2>2. CASE x + MainSpan > now
    BY <2>1, <2>2 DEF Home, MainTable
  <2>3. CASE ~(x + MainSpan > now)
    <3>1. /\ x \in Int /\ start \in Int /\ end \in Int /\ zone \in Int
          /\ TableZone \in Int /\ DateZone \in Int
      OBVIOUS
    <3>2. Month(x, TableZone) \in Int /\ FirstOf(Month(x, TableZone)) <= x + TableZone
      BY <3>1, MonthBegins
    <3>3. Month(start, zone) \in Int /\ Month(end, zone) \in Int
      BY <3>1, MonthBegins
    <3>4. Home(x) = Month(x, TableZone) /\ Month(x, TableZone) # Main
      BY <2>3, <3>1, MonthBegins DEF Home
    <3>5. /\ start + zone <= x + TableZone /\ x + TableZone <= end + zone
          /\ appInfo.since + DateZone <= x + TableZone
          /\ x + TableZone + MainSpan < now
      BY <3>4 DEF ClocksAgree
    <3>6. StartMonth(start, zone) \in Int /\ StartMonth(start, zone) <= Month(x, TableZone)
      <4>1. CASE rule.since # NoTime /\ rule.since > start
        <5>1. rule.since \in Int /\ appInfo.since \in Int /\ rule.since <= appInfo.since
          BY <4>1 DEF RuleNotAhead
        <5>2. rule.since + DateZone <= x + TableZone
          BY <3>1, <3>5, <5>1
        <5>3. StartMonth(start, zone) = Month(rule.since, DateZone)
          BY <4>1 DEF StartMonth
        <5>4. Month(rule.since, DateZone) \in Int
          BY <3>1, <5>1, MonthBegins
        <5>5. Month(rule.since, DateZone) <= Month(x, TableZone)
          BY <3>1, <5>1, <5>2, MonthsInOrder
        <5> QED BY <5>3, <5>4, <5>5
      <4>2. CASE ~(rule.since # NoTime /\ rule.since > start)
        <5>1. StartMonth(start, zone) = Month(start, zone)
          BY <4>2 DEF StartMonth
        <5>2. Month(start, zone) <= Month(x, TableZone)
          BY <3>1, <3>5, MonthsInOrder
        <5> QED BY <3>3, <5>1, <5>2
      <4> QED BY <4>1, <4>2
    <3>7. Month(x, TableZone) <= Month(end, zone) /\ Month(end, zone) \in Int
      BY <3>1, <3>5, MonthsInOrder, MonthBegins
    <3>8. BeganBeforeMain(Month(x, TableZone))
      <4> DEFINE m == Month(x, TableZone)
      <4>1. m \in Int /\ FirstOf(m) <= x + TableZone
        BY <3>2
      <4> HIDE DEF m
      <4>2. FirstOf(m) \in Int
        BY <4>1 DEF FirstOf
      <4>3. FirstOf(m) + MainSpan < now
        BY <3>1, <3>5, <4>1, <4>2
      <4> QED BY <4>3 DEF BeganBeforeMain, m
    <3>9. Month(x, TableZone) \in HistoryTables(start, end, zone)
      BY <3>1, <3>6, <3>7, <3>8, MonthBegins DEF HistoryTables
    <3> QED BY <2>1, <3>4, <3>9
  <2> QED BY <2>2, <2>3
<1> QED BY <1>1, ShardInitInv, ShardStep, PTL DEF ShardSpec

-----------------------------------------------------------------------------
(* FishRooms.  SeatsAgree is not inductive.  A login must know that the room *)
(* it goes into is the one in the map (FoundIsListed), which holds because   *)
(* an entry of the map never changes once it is there; and a disconnection   *)
(* must find the seat, which is in player.room (SeatIsKnown).                *)

\* What GetRoom returns is the room in the map, and still is at OnLogin.
FoundIsListed ==
    \A f \in Fishers : fishPc[f] = "login" =>
        fishFound[f] \in Fishers /\ fishMap[RoomKeyOf[f]] = fishFound[f]

\* player.room is where the player sits.
SeatIsKnown == \A r \in Fishers : \A f \in fishSeats[r] : fishRoom[f] = r

FishInv == FishTypeOK /\ SeatsAgree /\ FoundIsListed /\ SeatIsKnown

LEMMA FishInitInv == FishInit => FishInv
  BY FishAssumption
  DEF FishInit, FishInv, FishTypeOK, SeatsAgree, FoundIsListed, SeatIsKnown

\* A step that only lets f in or turns him away.
LEMMA FishOutsideStep ==
    ASSUME FishInv, NEW f \in Fishers, Refuse(f) \/ FishReConnect(f)
    PROVE  FishInv'
<1> USE DEF Refuse, FishReConnect, FishGo, FishInv
<1>1. FishTypeOK'
  BY DEF FishTypeOK
<1>2. SeatsAgree' /\ FoundIsListed' /\ SeatIsKnown'
  BY DEF FishTypeOK, SeatsAgree, FoundIsListed, SeatIsKnown
<1> QED BY <1>1, <1>2

LEMMA LoadFishRoomStep ==
    ASSUME FishInv, NEW f \in Fishers, LoadFishRoom(f)
    PROVE  FishInv'
<1> USE DEF LoadFishRoom, FishGo, FishInv, FishTypeOK
<1>1. RoomKeyOf[f] \in RoomKeys /\ fishMap[RoomKeyOf[f]] \in Fishers \cup {NoRoom}
  BY FishAssumption
<1>2. FishTypeOK'
  BY <1>1
<1>3. SeatsAgree' /\ SeatIsKnown'
  BY DEF SeatsAgree, SeatIsKnown
<1>4. FoundIsListed'
  BY <1>1 DEF FoundIsListed
<1> QED BY <1>2, <1>3, <1>4

\* LoadOrStore leaves an entry alone: what others have found stays listed.
LEMMA StoreFishRoomStep ==
    ASSUME FishInv, NEW f \in Fishers, StoreFishRoom(f)
    PROVE  FishInv'
<1> USE DEF StoreFishRoom, FishGo, FishInv, FishTypeOK
<1>1. RoomKeyOf \in [Fishers -> RoomKeys] /\ LoadOrStore(f) \in Fishers
  BY FishAssumption DEF LoadOrStore
<1>2. \A k \in RoomKeys : fishMap[k] # NoRoom => fishMap'[k] = fishMap[k]
  BY <1>1 DEF LoadOrStore
<1>3. FishTypeOK'
  BY <1>1
<1>4. SeatsAgree' /\ SeatIsKnown'
  BY <1>1, <1>2, FishAssumption DEF SeatsAgree, SeatIsKnown
<1>5. FoundIsListed'
  <2> SUFFICES ASSUME NEW g \in Fishers, fishPc'[g] = "login"
               PROVE  fishFound'[g] \in Fishers /\ fishMap'[RoomKeyOf[g]] = fishFound'[g]
    BY DEF FoundIsListed
  <2>1. CASE g = f
    BY <2>1, <1>1
  <2>2. CASE g # f
    BY <2>2, <1>1, <1>2, FishAssumption DEF FoundIsListed
  <2> QED BY <2>1, <2>2
<1> QED BY <1>3, <1>4, <1>5

LEMMA FishLoginStep ==
    ASSUME FishInv, NEW f \in Fishers, FishLogin(f)
    PROVE  FishInv'
<1> USE DEF FishLogin, FishGo, FishInv, FishTypeOK
<1>1. /\ fishFound[f] \in Fishers /\ fishMap[RoomKeyOf[f]] = fishFound[f]
      /\ \A r \in Fishers : f \notin fishSeats[r]
  BY DEF FoundIsListed, SeatsAgree
<1>2. FishTypeOK'
  BY <1>1
<1>3. SeatsAgree' /\ SeatIsKnown'
  BY <1>1 DEF SeatsAgree, SeatIsKnown
<1>4. FoundIsListed'
  BY DEF FoundIsListed
<1> QED BY <1>2, <1>3, <1>4

LEMMA FishDisconnectStep ==
    ASSUME FishInv, NEW f \in Fishers, FishDisconnect(f)
    PROVE  FishInv'
<1> USE DEF FishDisconnect, FishGo, FishInv, FishTypeOK
<1>1. FishTypeOK'
  BY SMTT(30)
<1>2. \A r \in Fishers : f \notin fishSeats'[r] /\ fishSeats'[r] \subseteq fishSeats[r]
  BY DEF SeatIsKnown
<1>3. SeatsAgree' /\ SeatIsKnown'
  BY <1>2 DEF SeatsAgree, SeatIsKnown
<1>4. FoundIsListed'
  BY DEF FoundIsListed
<1> QED BY <1>1, <1>3, <1>4

LEMMA FishStep == FishInv /\ [FishNext]_fishVars => FishInv'
<1> SUFFICES ASSUME FishInv, [FishNext]_fishVars PROVE FishInv'
  OBVIOUS
<1>1. CASE UNCHANGED fishVars
  BY <1>1 DEF fishVars, FishInv, FishTypeOK, SeatsAgree, FoundIsListed, SeatIsKnown
<1>2. CASE FishNext
  <2>1. PICK f \in Fishers :
            \/ Refuse(f) \/ FishReConnect(f)
            \/ LoadFishRoom(f) \/ StoreFishRoom(f) \/ FishLogin(f) \/ FishDisconnect(f)
    BY <1>2 DEF FishNext
  <2> QED BY <2>1, FishOutsideStep, LoadFishRoomStep, StoreFishRoomStep, FishLoginStep,
             FishDisconnectStep
<1> QED BY <1>1, <1>2

\* Players of one merchant and rtp sit in one room and nobody sits there whose
\* connection has ended, for any number of websockets that log in and leave at once.
THEOREM OneFishRoomPerKey == FishSpec => []SeatsAgree
<1>1. FishInv => SeatsAgree
  BY DEF FishInv
<1> QED BY <1>1, FishInitInv, FishStep, PTL DEF FishSpec

-----------------------------------------------------------------------------
(* JdbRooms.  A client that has asked for a room at most once has no seat    *)
(* until it is let in, and then one that player.room knows (OnlySeat).       *)

Unseated(c) == \A r \in JdbRoomIds : c \notin jdbSeats[r]

\* Before the first answer there is neither a seat nor a room.
NoSeatYet ==
    \A c \in Clients \ asked :
        jdbAsks[c] = NoJdb \/ jdbPc[c] = "asking" => Unseated(c)

AskedOnce == \A c \in Clients : jdbPc[c] = "asking" => jdbAsks[c] # NoJdb

OnlySeat ==
    \A c \in Clients \ asked : \A r \in JdbRoomIds :
        c \in jdbSeats[r] => jdbRoom[c] = r /\ jdbPc[c] # "gone"

JdbInv == JdbTypeOK /\ NoSeatYet /\ AskedOnce /\ OnlySeat

LEMMA JdbInitInv == JdbInit => JdbInv
  BY DEF JdbInit, JdbInv, JdbTypeOK, NoSeatYet, AskedOnce, OnlySeat, Unseated

LEMMA AskRoomStep ==
    ASSUME JdbInv, NEW c \in Clients, NEW y \in Types, AskRoom(c, y)
    PROVE  JdbInv'
<1> USE JdbAssumption DEF AskRoom, JdbGo, JdbInv, JdbTypeOK
<1>1. JdbTypeOK'
  OBVIOUS
<1>2. NoSeatYet' /\ AskedOnce'
  BY DEF NoSeatYet, AskedOnce, Unseated
<1>3. OnlySeat'
  BY DEF OnlySeat
<1> QED BY <1>1, <1>2, <1>3

\* A client that sits down has no other seat, unless it has asked before.
LEMMA SitDown ==
    ASSUME JdbInv, NEW c \in Clients, NEW r \in JdbRoomIds,
           JdbGo(c, "asking", "ready"), TakeSeat(c, r), UNCHANGED <<jdbAsks, asked>>
    PROVE  NoSeatYet' /\ AskedOnce' /\ OnlySeat'
<1> USE DEF JdbGo, TakeSeat, SetJdbRoom, JdbInv, JdbTypeOK
<1>1. AskedOnce'
  BY DEF AskedOnce
<1>2. NoSeatYet'
  BY DEF NoSeatYet, AskedOnce, Unseated
<1>3. OnlySeat'
  BY DEF OnlySeat, NoSeatYet, Unseated
<1> QED BY <1>1, <1>2, <1>3

LEMMA JoinListedStep ==
    ASSUME JdbInv, NEW c \in Clients, JoinListed(c)
    PROVE  JdbInv'
<1>1. PICK r \in JdbRoomIds : TakeSeat(c, r)
  BY DEF JoinListed, JdbInv, JdbTypeOK, AskedOnce, JdbGo
<1>2. JdbTypeOK'
  BY <1>1 DEF JoinListed, TakeSeat, SetJdbRoom, JdbGo, JdbInv, JdbTypeOK
<1>3. NoSeatYet' /\ AskedOnce' /\ OnlySeat'
  BY <1>1, SitDown DEF JoinListed
<1> QED BY <1>2, <1>3 DEF JdbInv

LEMMA MakeRoomStep ==
    ASSUME JdbInv, NEW c \in Clients, NEW r \in JdbRoomIds, MakeRoom(c, r)
    PROVE  JdbInv'
<1>1. CASE JdbGo(c, "asking", "ready") /\ TakeSeat(c, r)
  <2>1. JdbTypeOK'
    <3>1. jdbAsks[c] \in Types /\ jdbMu' \in Clients \cup {NoJdb}
      BY <1>1 DEF MakeRoom, JdbGo, JdbInv, JdbTypeOK, AskedOnce
    <3>2. listed' \in [Types -> SUBSET JdbRoomIds]
      BY <3>1 DEF MakeRoom, JdbInv, JdbTypeOK
    <3> QED BY <1>1, <3>1, <3>2 DEF MakeRoom, TakeSeat, SetJdbRoom, JdbGo, JdbInv, JdbTypeOK
  <2>2. NoSeatYet' /\ AskedOnce' /\ OnlySeat'
    BY <1>1, SitDown DEF MakeRoom
  <2> QED BY <2>1, <2>2 DEF JdbInv
<1>2. CASE JdbGo(c, "asking", "closing") /\ jdbMu' = c /\ UNCHANGED <<jdbRoom, listed, jdbSeats>>
  <2>1. JdbTypeOK'
    BY <1>2 DEF MakeRoom, JdbGo, JdbInv, JdbTypeOK
  <2>2. NoSeatYet' /\ AskedOnce' /\ OnlySeat'
    BY <1>2 DEF MakeRoom, JdbGo, JdbInv, JdbTypeOK, NoSeatYet, AskedOnce, OnlySeat, Unseated
  <2> QED BY <2>1, <2>2 DEF JdbInv
<1> QED BY <1>1, <1>2 DEF MakeRoom

LEMMA MoveOnStep ==
    ASSUME JdbInv, NEW c \in Clients, StayInRoom(c) \/ HangUp(c)
    PROVE  JdbInv'
<1> USE DEF StayInRoom, HangUp, JdbGo, JdbInv, JdbTypeOK
<1>1. JdbTypeOK'
  OBVIOUS
<1>2. NoSeatYet' /\ AskedOnce' /\ OnlySeat'
  BY DEF NoSeatYet, AskedOnce, OnlySeat, Unseated
<1> QED BY <1>1, <1>2

LEMMA JdbDisconnectStep ==
    ASSUME JdbInv, NEW c \in Clients, JdbDisconnect(c)
    PROVE  JdbInv'
<1> USE DEF JdbDisconnect, JdbGo, JdbInv, JdbTypeOK
<1>1. jdbSeats' \in [JdbRoomIds -> SUBSET Clients]
  <2>1. \A r \in JdbRoomIds : jdbSeats[r] \in SUBSET Clients
    OBVIOUS
  <2> QED BY <2>1
<1>2. JdbTypeOK'
  BY <1>1
<1>3. \A r \in JdbRoomIds :
        /\ jdbSeats'[r] \subseteq jdbSeats[r]
        /\ c \notin asked => c \notin jdbSeats'[r]
  BY DEF OnlySeat
<1>4. NoSeatYet' /\ AskedOnce' /\ OnlySeat'
  BY <1>3 DEF NoSeatYet, AskedOnce, OnlySeat, Unseated
<1> QED BY <1>2, <1>4

LEMMA JdbStep == JdbInv /\ [JdbNext]_jdbVars => JdbInv'
<1> SUFFICES ASSUME JdbInv, [JdbNext]_jdbVars PROVE JdbInv'
  OBVIOUS
<1>1. CASE UNCHANGED jdbVars
  BY <1>1 DEF jdbVars, JdbInv, JdbTypeOK, NoSeatYet, AskedOnce, OnlySeat, Unseated
<1>2. CASE JdbNext
  <2>1. PICK c \in Clients :
            \/ \E y \in Types : AskRoom(c, y)
            \/ JoinListed(c) \/ StayInRoom(c)
            \/ \E r \in JdbRoomIds \ made : MakeRoom(c, r)
            \/ HangUp(c) \/ JdbDisconnect(c)
    BY <1>2 DEF JdbNext
  <2> QED BY <2>1, AskRoomStep, JoinListedStep, MakeRoomStep, MoveOnStep, JdbDisconnectStep
<1> QED BY <1>1, <1>2

\* A client that has asked for a room once leaves no seat behind, for any number of
\* clients, rooms and types, also when a room refuses and its mutex is never freed.
THEOREM OneRequestLeavesNoSeat == JdbSpec => []LeavesNoSeat
<1>1. JdbInv => LeavesNoSeat
  BY DEF JdbInv, OnlySeat, LeavesNoSeat
<1> QED BY <1>1, JdbInitInv, JdbStep, PTL DEF JdbSpec

-----------------------------------------------------------------------------
(* RtpWatch.  The types; and what has been applied is what Consul had at     *)
(* lastIndex (AppliedAtIndex), so that once that is Consul's index no write  *)
(* is left out.                                                              *)

AnswerIsSnapshot ==
    /\ \A k \in ConfKeys : answer.pairs[k] <= answer.index
    /\ answer.index <= consulIndex
    /\ answer.index = consulIndex => answer.pairs = kv

AppliedAtIndex ==
    watchPc # "start" =>
        /\ lastIndex <= consulIndex
        /\ lastIndex = consulIndex => modifyIndex = kv
        /\ \A k \in ConfKeys : modifyIndex[k] \notin badJSON \cup {0} => rtpConfig[k] = modifyIndex[k]

WatchInv ==
    /\ WatchTypeOK /\ AnswerIsSnapshot /\ AppliedAtIndex
    /\ \A k \in ConfKeys : kv[k] <= consulIndex

\* While Consul has nothing newer than the watch has applied, the configuration in
\* use is Consul's, but for deleted keys and writes that are not a configuration.
UpToDateAtIndex ==
    watchPc # "start" /\ lastIndex = consulIndex =>
        \A k \in ConfKeys : kv[k] \notin badJSON \cup {0} => rtpConfig[k] = kv[k]

LEMMA WatchInitInv == WatchInit => WatchInv
  BY WatchAssumption
  DEF WatchInit, WatchInv, WatchTypeOK, NoKeys, AnswerIsSnapshot, AppliedAtIndex

\* Consul changes: its index goes beyond those of all answers.
LEMMA ConsulStep ==
    ASSUME WatchInv, NEW k \in ConfKeys, WriteKey(k) \/ DeleteKey(k)
    PROVE  WatchInv'
<1> USE WatchAssumption DEF WatchInv, WatchTypeOK
<1>1. consulIndex \in 0..MaxIndex /\ consulIndex' = consulIndex + 1 /\ consulIndex < MaxIndex
  BY DEF WriteKey, DeleteKey
<1>2. kv' \in [ConfKeys -> 0..MaxIndex] /\ \A l \in ConfKeys : kv'[l] <= consulIndex'
  <2>1. kv' = [kv EXCEPT ![k] = consulIndex + 1] \/ kv' = [kv EXCEPT ![k] = 0]
    BY DEF WriteKey, DeleteKey
  <2>2. consulIndex + 1 \in 0..MaxIndex /\ 0 \in 0..MaxIndex
    BY <1>1
  <2>3. ASSUME NEW l \in ConfKeys PROVE kv'[l] <= consulIndex'
    <3>1. kv[l] \in 0..MaxIndex /\ kv[l] <= consulIndex
      OBVIOUS
    <3> QED BY <1>1, <2>1, <3>1
  <2> QED BY <2>1, <2>2, <2>3
<1>3. /\ badJSON \subseteq badJSON' /\ badJSON' \subseteq badJSON \cup {consulIndex + 1}
      /\ UNCHANGED <<watchPc, answer, lastIndex, modifyIndex, rtpConfig>>
  BY DEF WriteKey, DeleteKey
<1>4. WatchTypeOK'
  BY <1>1, <1>2, <1>3
<1>5. AnswerIsSnapshot'
  BY <1>1, <1>3 DEF AnswerIsSnapshot
<1>6. AppliedAtIndex'
  BY <1>1, <1>3 DEF AppliedAtIndex
<1> QED BY <1>2, <1>4, <1>5, <1>6

LEMMA FirstLoadStep == ASSUME WatchInv, FirstLoad PROVE WatchInv'
<1> USE WatchAssumption DEF WatchInv, WatchTypeOK, FirstLoad, consulVars
<1>1. \A k \in ConfKeys : Process(k, kv) \in 0..MaxIndex
  BY DEF Process
<1>2. WatchTypeOK'
  BY <1>1
<1>3. AnswerIsSnapshot' /\ AppliedAtIndex'
  BY DEF AnswerIsSnapshot, AppliedAtIndex, Process
<1> QED BY <1>2, <1>3

LEMMA AnswerStep ==
    ASSUME WatchInv, List \/ IgnoreAnswer \/ ApplyAnswer
    PROVE  WatchInv'
<1> USE WatchAssumption DEF WatchInv, WatchTypeOK, consulVars
<1>1. CASE List
  <2>1. WatchTypeOK'
    BY <1>1 DEF List
  <2>2. AnswerIsSnapshot' /\ AppliedAtIndex'
    BY <1>1 DEF List, AnswerIsSnapshot, AppliedAtIndex
  <2> QED BY <1>1, <2>1, <2>2 DEF List
<1>2. CASE IgnoreAnswer
  BY <1>2 DEF IgnoreAnswer, AnswerIsSnapshot, AppliedAtIndex
<1>3. CASE ApplyAnswer
  <2>1. \A k \in ConfKeys : Process(k, answer.pairs) \in 0..MaxIndex
    BY DEF Process
  <2>2. WatchTypeOK'
    BY <1>3, <2>1 DEF ApplyAnswer, AnswerIndex
  <2>3. AnswerIsSnapshot' /\ UNCHANGED consulVars
    BY <1>3 DEF ApplyAnswer, AnswerIsSnapshot
  <2>4. AppliedAtIndex'
    BY <1>3 DEF ApplyAnswer, AnswerIndex, AnswerIsSnapshot, AppliedAtIndex, Process, Changed
  <2> QED BY <2>2, <2>3, <2>4
<1> QED BY <1>1, <1>2, <1>3

LEMMA WatchStep == WatchInv /\ [WatchNext]_watchVars => WatchInv'
<1> SUFFICES ASSUME WatchInv, [WatchNext]_watchVars PROVE WatchInv'
  OBVIOUS
<1>1. CASE UNCHANGED watchVars
  BY <1>1
  DEF watchVars, consulVars, WatchInv, WatchTypeOK, AnswerIsSnapshot, AppliedAtIndex
<1>2. CASE WatchNext
  BY <1>2, ConsulStep, FirstLoadStep, AnswerStep DEF WatchNext, Watch
<1> QED BY <1>1, <1>2

\* The watch loses no write: the configuration is Consul's whenever the index it
\* waits beyond is Consul's index, for any keys, writes and deletions.
THEOREM WatchUpToDate == WatchSpec => []UpToDateAtIndex
<1>1. WatchInv => UpToDateAtIndex
  BY DEF WatchInv, AppliedAtIndex, UpToDateAtIndex
<1> QED BY <1>1, WatchInitInv, WatchStep, PTL DEF WatchSpec

-----------------------------------------------------------------------------
(* The composition.  A step of MCServices is one of a component, and leaves  *)
(* the others as they are, so that each component's specification holds of   *)
(* it, and with it what is proved of the component.                          *)

LEMMA ComponentSteps ==
    [Next]_servicesVars =>
        /\ [IndexNext]_indexVars /\ [ManagerNext]_managerVars /\ [ConnectNext]_wsVars
        /\ [FishNext]_fishVars /\ [HubNext]_hubVars /\ [JdbNext]_jdbVars /\ [BusNext]_busVars
        /\ [RoutersNext]_routersVars /\ [SamplesNext]_samplesVars /\ [TiersNext]_tiersVars
        /\ [WatchNext]_watchVars /\ [WeightsNext]_weightsVars /\ [ShardNext]_shardVars
        /\ [WorkersNext]_workerVars
  BY DEF Next, Alone, servicesVars

\* The components at work at the same time, their steps interleaved in any way: more
\* than MCServices allows, where one of them is at work and the others stand still.
SideBySide ==
    /\ IndexSpec /\ ManagerSpec /\ ConnectSpec /\ FishSpec /\ HubSpec /\ JdbSpec /\ BusSpec
    /\ RoutersSpec /\ SamplesSpec /\ TiersSpec /\ WatchSpec /\ WeightsSpec /\ ShardSpec
    /\ WorkersSpec

LEMMA ComponentSpecs == Spec => SideBySide
  BY ComponentSteps, PTL
  DEF SideBySide, Spec, Init, IndexSpec, ManagerSpec, ConnectSpec, FishSpec, HubSpec, JdbSpec,
      BusSpec, RoutersSpec, SamplesSpec, TiersSpec, WatchSpec, WeightsSpec, ShardSpec,
      WorkersSpec

\* The types of the manager do not need the calls to keep apart.
LEMMA ManagerTypesInit == ManagerInit => ManagerTypeOK
  BY DEF ManagerInit, ManagerTypeOK

LEMMA ManagerTypesStep == ManagerTypeOK /\ [ManagerNext]_managerVars => ManagerTypeOK'
<1> SUFFICES ASSUME ManagerTypeOK, [ManagerNext]_managerVars PROVE ManagerTypeOK'
  OBVIOUS
<1> USE ManagerAssumption DEF ManagerTypeOK, MgrGo, flags
<1>1. ASSUME NEW t \in MgrCallers, Register(t) \/ Start(t) \/ CallWarmUp(t) \/ Stop(t)
      PROVE  ManagerTypeOK'
  <2>1. CASE Register(t)
    BY <2>1 DEF Register
  <2>2. CASE Start(t)
    BY <2>2 DEF Start, Loops
  <2>3. CASE CallWarmUp(t) \/ Stop(t)
    BY <2>3 DEF CallWarmUp, Stop
  <2> QED BY <1>1, <2>1, <2>2, <2>3
<1>2. ASSUME NEW t \in MgrCallers,
             \/ WarmUpLoads(t) \/ WarmUpFails(t) \/ SetWarmedUp(t) \/ CancelFailed(t)
             \/ ResetFailed(t) \/ StartReturns(t) \/ StopCancels(t) \/ StopWaits(t)
             \/ StopReturns(t)
      PROVE  ManagerTypeOK'
  <2>1. CASE WarmUpLoads(t) \/ WarmUpFails(t) \/ SetWarmedUp(t)
    BY <2>1 DEF WarmUpLoads, WarmUpFails, SetWarmedUp, AfterFailure, AfterWarmUp
  <2>2. CASE CancelFailed(t) \/ StopCancels(t)
    BY <2>2 DEF CancelFailed, StopCancels, Cancelled
  <2>3. CASE ResetFailed(t) \/ StartReturns(t) \/ StopWaits(t) \/ StopReturns(t)
    BY <2>3 DEF ResetFailed, StartReturns, StopWaits, StopReturns
  <2> QED BY <1>2, <2>1, <2>2, <2>3
<1>3. ASSUME NEW t \in MgrCallers, StartLoop(t) PROVE ManagerTypeOK'
  BY <1>3 DEF StartLoop
<1>4. ASSUME NEW r \in Runs, LoopReturns(r) \/ SubscriptionLost(r) \/ ParentCancelled(r)
      PROVE  ManagerTypeOK'
  BY <1>4 DEF LoopReturns, SubscriptionLost, ParentCancelled
<1>5. CASE UNCHANGED managerVars
  BY <1>5 DEF managerVars
<1> QED BY <1>1, <1>2, <1>3, <1>4, <1>5 DEF ManagerNext, MgrProceed

LEMMA ConnectTypesStep == ConnectTypeOK /\ [ConnectNext]_wsVars => ConnectTypeOK'
<1> SUFFICES ASSUME ConnectTypeOK, [ConnectNext]_wsVars PROVE ConnectTypeOK'
  OBVIOUS
<1> USE ConnectAssumption DEF ConnectTypeOK
<1>1. sent \in Nat /\ loopRead \in Nat
  OBVIOUS
<1> USE DEF clientVars, recvVars
<1>2. CASE ClientSends \/ ClientLeaves \/ ClientPauses
  <2>1. CASE ClientSends
    <3>1. sent' = sent + 1 /\ sent < MaxMessages
      BY <2>1 DEF ClientSends
    <3>2. sent' \in 0..MaxMessages /\ loopRead \in 0..sent'
      BY <1>1, <3>1
    <3> QED BY <2>1, <3>2 DEF ClientSends
  <2>2. CASE ClientLeaves \/ ClientPauses
    BY <2>2 DEF ClientLeaves, ClientPauses
  <2> QED BY <1>2, <2>1, <2>2
<1>3. CASE ReadMsg \/ RecvLock
  BY <1>1, <1>3 DEF ReadMsg, RecvLock
<1>4. CASE PushMessage \/ PushError
  <2>1. PICK x \in 0..MaxMessages : Len(recvChan) < ChanCap /\ recvChan' = Append(recvChan, x)
    BY <1>1, <1>4 DEF PushMessage, PushError, Push, PushEnd
  <2>2. recvChan' \in Seq(0..MaxMessages) /\ Len(recvChan') <= ChanCap
    BY <2>1
  <2> QED BY <1>4, <2>2 DEF PushMessage, PushError
<1>5. CASE RecvReturns
  <2>1. /\ Head(recvChan) \in 0..MaxMessages /\ Tail(recvChan) \in Seq(0..MaxMessages)
        /\ Len(Tail(recvChan)) <= ChanCap
    BY <1>5 DEF RecvReturns
  <2> QED BY <1>5, <2>1 DEF RecvReturns
<1>6. ASSUME NEW c \in Callers, CallSend(c) \/ CallClose(c) \/ Call(c) \/ WriteReturns(c)
      PROVE  ConnectTypeOK'
  BY <1>6 DEF CallSend, CallClose, Call, SendLocked, CloseLocked, WriteReturns
<1>7. CASE UNCHANGED wsVars
  BY <1>7 DEF wsVars
<1> QED BY <1>2, <1>3, <1>4, <1>5, <1>6, <1>7 DEF ConnectNext, ReadLoop, Recv

LEMMA WorkersTypesStep == WorkersTypeOK /\ [WorkersNext]_workerVars => WorkersTypeOK'
<1> SUFFICES ASSUME WorkersTypeOK, [WorkersNext]_workerVars PROVE WorkersTypeOK'
  OBVIOUS
<1> USE WorkersAssumption DEF WorkersTypeOK
<1>1. ASSUME NEW p \in Processes, StartProcess(p) PROVE WorkersTypeOK'
  <2>1. counter \in Nat /\ counter < MaxStarts
    BY <1>1 DEF StartProcess
  <2>2. WorkerOf(counter + 1) \in 0..Workers - 1
    BY <2>1 DEF WorkerOf
  <2>3. counter + 1 \in 0..MaxStarts /\ WorkerOf(counter + 1) \in -1..Workers - 1
    BY <2>1, <2>2
  <2> QED BY <1>1, <2>3 DEF StartProcess
<1>2. ASSUME NEW p \in Processes, EndProcess(p) PROVE WorkersTypeOK'
  BY <1>2 DEF EndProcess
<1>3. CASE UNCHANGED workerVars
  BY <1>3 DEF workerVars
<1> QED BY <1>1, <1>2, <1>3 DEF WorkersNext

\* The variables of all components keep their types, for all values of the constants.
THEOREM ServicesTypesCorrect == Spec => []ServicesTypeOK
<1>1. /\ IndexInv => IndexTypeOK
      /\ FishInv => FishTypeOK
      /\ HubInv => HubTypeOK
      /\ JdbInv => JdbTypeOK
      /\ RoutersInv => RoutersTypeOK
      /\ SamplesInv => SamplesTypeOK
      /\ TiersInv => TiersTypeOK
      /\ WatchInv => WatchTypeOK
      /\ WeightsInv => WeightsTypeOK
      /\ ShardInv => ShardTypeOK
      /\ BusInv => BusTypeOK
  BY DEF IndexInv, FishInv, HubInv, JdbInv, RoutersInv, SamplesInv, TiersInv, WatchInv,
         WeightsInv, ShardInv, BusInv
<1>2. ConnectInit => ConnectTypeOK
  <2> SUFFICES ASSUME ConnectInit PROVE ConnectTypeOK
    OBVIOUS
  <2>1. recvChan \in Seq(0..MaxMessages) /\ Len(recvChan) <= ChanCap
    BY ConnectAssumption DEF ConnectInit
  <2>2. sent \in 0..MaxMessages /\ loopRead \in 0..sent /\ received \in 0..MaxMessages
    BY ConnectAssumption DEF ConnectInit
  <2> QED BY <2>1, <2>2 DEF ConnectInit, ConnectTypeOK
<1>3. WorkersInit => WorkersTypeOK
  BY WorkersAssumption DEF WorkersInit, WorkersTypeOK
<1>4. /\ IndexSpec => []IndexTypeOK
      /\ FishSpec => []FishTypeOK
      /\ HubSpec => []HubTypeOK
      /\ JdbSpec => []JdbTypeOK
  BY <1>1, InitIndexInv, IndexInvStep, FishInitInv, FishStep, HubInitInv, HubStep,
     JdbInitInv, JdbStep, PTL DEF IndexSpec, FishSpec, HubSpec, JdbSpec
<1>5. /\ RoutersSpec => []RoutersTypeOK
      /\ SamplesSpec => []SamplesTypeOK
      /\ TiersSpec => []TiersTypeOK
      /\ WatchSpec => []WatchTypeOK
  BY <1>1, RoutersInitInv, RoutersStep, SamplesInitInv, SamplesStep, TiersInitInv, TiersStep,
     WatchInitInv, WatchStep, PTL DEF RoutersSpec, SamplesSpec, TiersSpec, WatchSpec
<1>6. /\ WeightsSpec => []WeightsTypeOK
      /\ ShardSpec => []ShardTypeOK
      /\ BusSpec => []BusTypeOK
  BY <1>1, WeightsInitInv, WeightsStep, ShardInitInv, ShardStep, BusInvariant, PTL
  DEF WeightsSpec, ShardSpec
<1>7. /\ ManagerSpec => []ManagerTypeOK
      /\ ConnectSpec => []ConnectTypeOK
      /\ WorkersSpec => []WorkersTypeOK
  BY <1>2, <1>3, ManagerTypesInit, ManagerTypesStep, ConnectTypesStep, WorkersTypesStep, PTL
  DEF ManagerSpec, ConnectSpec, WorkersSpec
<1>8. /\ IndexTypeOK /\ ManagerTypeOK /\ ConnectTypeOK /\ FishTypeOK /\ HubTypeOK /\ JdbTypeOK
      /\ BusTypeOK /\ RoutersTypeOK /\ SamplesTypeOK /\ TiersTypeOK /\ WatchTypeOK
      /\ WeightsTypeOK /\ ShardTypeOK /\ WorkersTypeOK
      => ServicesTypeOK
  BY DEF ServicesTypeOK
<1> QED BY <1>4, <1>5, <1>6, <1>7, <1>8, ComponentSpecs, PTL DEF SideBySide

\* The safety invariants of all the components in one, each the promise of one of them
\* (SerialCalls, which the manager's needs: its Start and Stop are called one after the
\* other).
ServicesSafe ==
    /\ KeyLeadsToCachedRow /\ CachedRowHasKey
    /\ LoopsCanBeStopped
    /\ NothingLost
    /\ SeatsAgree /\ LeavesNoSeat
    /\ ServesAsAnnounced
    /\ OneWriterPerTopic /\ EventsOnceInOrder /\ RunningConsumerRegistered
    /\ SeatedIsTold
    /\ DrawnRateHasSamples /\ FixedIsGreatestTier /\ DrawnByWeight
    /\ UpToDateAtIndex
    /\ NoRecordMissed
    /\ WorkerIdUnique

\* With all components at work at the same time, in any interleaving, every safety
\* invariant of each holds, and the routers read the sessions they should.  Only
\* LoopsCanBeStopped needs SerialCalls: one call of the cache manager at a time.
THEOREM ServicesAreSafe ==
    ASSUME SerialCalls PROVE SideBySide => []ServicesSafe /\ OwnSessionRead
<1>1. /\ SideBySide => []KeyLeadsToCachedRow
      /\ SideBySide => []CachedRowHasKey
  BY KeysLeadToCachedRows, CachedRowsHaveKeys, PTL DEF SideBySide
<1>2. /\ SideBySide => []LoopsCanBeStopped
      /\ SideBySide => OwnSessionRead
  BY LoopsStayInHand, OwnSessionsRead, PTL DEF SideBySide
<1>3. /\ SideBySide => []NothingLost
      /\ SideBySide => []SeatsAgree
  BY MessagesArriveInOrder, OneFishRoomPerKey, PTL DEF SideBySide
<1>4. /\ SideBySide => []LeavesNoSeat
      /\ SideBySide => []ServesAsAnnounced
  BY OneRequestLeavesNoSeat, HubServesAsAnnounced, PTL DEF SideBySide
<1>5. /\ SideBySide => []OneWriterPerTopic
      /\ SideBySide => []EventsOnceInOrder
  BY TopicsHaveOneWriter, EventsHandledOnce, PTL DEF SideBySide
<1>6. SideBySide => []RunningConsumerRegistered
  BY RunningConsumersRegistered, PTL DEF SideBySide
<1>7. /\ SideBySide => []SeatedIsTold
      /\ SideBySide => []DrawnRateHasSamples
  BY SeatedAreTold, DrawnRatesHaveSamples, PTL DEF SideBySide
<1>8. /\ SideBySide => []FixedIsGreatestTier
      /\ SideBySide => []DrawnByWeight
  BY RtpFixedToTier, RatesDrawnByWeight, PTL DEF SideBySide
<1>9. /\ SideBySide => []UpToDateAtIndex
      /\ SideBySide => []NoRecordMissed
  BY WatchUpToDate, NoTableLeftOut, PTL DEF SideBySide
<1>10. SideBySide => []WorkerIdUnique
  BY WorkerIdsUnique, PTL DEF SideBySide
<1>11. /\ KeyLeadsToCachedRow /\ CachedRowHasKey /\ LoopsCanBeStopped
      /\ NothingLost /\ SeatsAgree /\ LeavesNoSeat /\ ServesAsAnnounced
      /\ OneWriterPerTopic /\ EventsOnceInOrder /\ RunningConsumerRegistered
      /\ SeatedIsTold /\ DrawnRateHasSamples /\ FixedIsGreatestTier
      /\ DrawnByWeight /\ UpToDateAtIndex /\ NoRecordMissed /\ WorkerIdUnique
      => ServicesSafe
  BY DEF ServicesSafe
<1> QED
  BY <1>1, <1>2, <1>3, <1>4, <1>5, <1>6, <1>7, <1>8, <1>9, <1>10, <1>11, PTL

=============================================================================
