------------------------------- MODULE Routers -------------------------------
(***************************************************************************)
(* The login of one player through the brands' routers, and his session in *)
(* Redis: the hash player:info:<app>:<player>, one for all his games.      *)
(*                                                                         *)
(* A tab is one launch of a game: the API service has InitPlayer write the *)
(* session, then the game's websocket comes, also when the write failed:   *)
(* InitPlayer logs that and reports success.  Spribe and jdb write their   *)
(* game into the session again, inout and jili only read it.  A client     *)
(* whose websocket broke comes back without a launch.  Each Redis command  *)
(* is a step.                                                              *)
(***************************************************************************)
EXTENDS Naturals, FiniteSets

CONSTANTS
    Tabs,           \* each with a game of its own
    BrandOf,        \* tab -> "spribe", "jdb", "inout" or "jili"
    NoGame          \* no such field

ASSUME RoutersAssumption ==
    /\ BrandOf \in [Tabs -> {"spribe", "jdb", "inout", "jili"}]
    /\ NoGame \notin Tabs

VARIABLES
    session,        \* the hash: are playerId, appId, ... there; of which tab is gameId; brand
    kept,           \* history: tabs whose launch wrote the session, not expired since
    others,         \* history: whose games were written since a tab wrote its own; NoGame
                    \* when it expired since; anyone's before it has written
    tabPc,          \* where the handler of a tab's websocket is
    tabInfo,        \* the handler's playerInfo: the session as it was read
    tabPlayer,      \* the handler's variable `player` is set
    tabSeated,      \* lobby.OnLogin has succeeded
    tabTold         \* OnDisConnect has been called for it

routersVars == <<session, kept, others, tabPc, tabInfo, tabPlayer, tabSeated, tabTold>>

NoSession == [ident |-> FALSE, game |-> NoGame, brand |-> NoGame]

\* spribe and jdb log in when the client asks for it, jili at once.
OnDemand == {t \in Tabs : BrandOf[t] \in {"spribe", "jdb"}}

RoutersInit ==
    /\ session = NoSession
    /\ kept = {}
    /\ others = [t \in Tabs |-> Tabs \cup {NoGame}]
    /\ tabPc = [t \in Tabs |-> "closed"]
    /\ tabInfo = [t \in Tabs |-> NoSession]
    /\ tabPlayer = [t \in Tabs |-> FALSE]
    /\ tabSeated = [t \in Tabs |-> FALSE]
    /\ tabTold = [t \in Tabs |-> FALSE]

TabGo(t, from, to) == tabPc[t] = from /\ tabPc' = [tabPc EXCEPT ![t] = to]

-----------------------------------------------------------------------------
(* The session.                                                             *)

\* InitPlayer: one HSET of all the fields but the balance.
Written(t) == [ident |-> TRUE, game |-> t, brand |-> BrandOf[t]]

\* The history, when t writes its game.
Noted(t) == [u \in Tabs |-> IF u = t THEN {} ELSE others[u] \cup {t}]

Enter(t) == tabPc' = [tabPc EXCEPT ![t] = IF t \in OnDemand THEN "greet" ELSE "read"]

\* The HSET may fail: the launch goes on with the session there is, or none.
OpenTab(t) ==
    /\ tabPc[t] = "closed"
    /\ Enter(t)
    /\ \/ session' = Written(t) /\ kept' = kept \cup {t} /\ others' = Noted(t)
       \/ UNCHANGED <<session, kept, others>>
    /\ UNCHANGED <<tabInfo, tabPlayer, tabSeated, tabTold>>

\* A handler of its own, with its own variables.
ComeBack(t) ==
    /\ tabPc[t] = "gone"
    /\ Enter(t)
    /\ tabInfo' = [tabInfo EXCEPT ![t] = NoSession]
    /\ tabPlayer' = [tabPlayer EXCEPT ![t] = FALSE]
    /\ tabSeated' = [tabSeated EXCEPT ![t] = FALSE]
    /\ tabTold' = [tabTold EXCEPT ![t] = FALSE]
    /\ UNCHANGED <<session, kept, others>>

\* Nobody has read or written the session for 24 hours.
Expire ==
    /\ session # NoSession
    /\ session' = NoSession
    /\ kept' = {}
    /\ others' = [t \in Tabs |-> others[t] \cup {NoGame}]
    /\ UNCHANGED <<tabPc, tabInfo, tabPlayer, tabSeated, tabTold>>

\* UpdateGameId, two commands.  An expired session gets these two fields back.
\* jdb gives the brand as "spribe" too.  (Mutant: the game is not written.)
KeepGame(t) == session
PutGame(t) == [session EXCEPT !.game = t]

UpdateGame(t) ==
    /\ TabGo(t, "update", "brand")
    /\ session' = PutGame(t)
    /\ others' = Noted(t)
    /\ UNCHANGED <<kept, tabInfo, tabPlayer, tabSeated, tabTold>>

UpdateBrand(t) ==
    /\ TabGo(t, "brand", "read")
    /\ session' = [session EXCEPT !.brand = "spribe"]
    /\ UNCHANGED <<kept, others, tabInfo, tabPlayer, tabSeated, tabTold>>

\* GetPlayerByAppAndPlayerId: a session that is not there is read without error,
\* as one whose fields are all empty.
ReadSession(t) ==
    /\ TabGo(t, "read", IF BrandOf[t] = "inout" THEN "play" ELSE "login")
    /\ tabInfo' = [tabInfo EXCEPT ![t] = session]
    /\ tabPlayer' = [tabPlayer EXCEPT ![t] = t \notin OnDemand]
    /\ UNCHANGED <<session, kept, others, tabSeated, tabTold>>

-----------------------------------------------------------------------------
(* The handlers.                                                            *)

\* The client's login message, after the handshakes; inout's "40", which a client
\* may send at any time.
AskLogin(t) ==
    /\ \/ t \in OnDemand /\ TabGo(t, "greet", "update")
       \/ BrandOf[t] = "inout" /\ TabGo(t, "play", "login")
    /\ UNCHANGED <<session, kept, others, tabInfo, tabPlayer, tabSeated, tabTold>>

\* The balance is asked for, the player goes to the lobby.  spribe and jdb set
\* `player` when all is done.  (Mutant: a variable of the same name is set.)
Shadowed(t, ok) == tabPlayer[t]
PlayerSet(t, ok) == ok \/ t \notin OnDemand

Login(t) ==
    \E ok \in BOOLEAN :
        /\ TabGo(t, "login", IF ok THEN "play" ELSE "end")
        /\ tabPlayer' = [tabPlayer EXCEPT ![t] = PlayerSet(t, ok)]
        /\ tabSeated' = [tabSeated EXCEPT ![t] = ok \/ @]
        /\ UNCHANGED <<session, kept, others, tabInfo, tabTold>>

\* A bad token, a message that cannot be read, an error of a room or of the lobby,
\* Redis down, the end of the websocket.
Fails(t) ==
    /\ tabPc[t] \notin {"closed", "end", "gone"}
    /\ tabPc' = [tabPc EXCEPT ![t] = "end"]
    /\ UNCHANGED <<session, kept, others, tabInfo, tabPlayer, tabSeated, tabTold>>

\* The deferred function.
HandlerEnds(t) ==
    /\ TabGo(t, "end", "gone")
    /\ tabTold' = [tabTold EXCEPT ![t] = tabPlayer[t]]
    /\ UNCHANGED <<session, kept, others, tabInfo, tabPlayer, tabSeated>>

RoutersNext ==
    \/ Expire
    \/ \E t \in Tabs :
           \/ OpenTab(t) \/ ComeBack(t) \/ UpdateGame(t) \/ UpdateBrand(t) \/ ReadSession(t)
           \/ AskLogin(t) \/ Login(t) \/ Fails(t) \/ HandlerEnds(t)

RoutersSpec == RoutersInit /\ [][RoutersNext]_routersVars

-----------------------------------------------------------------------------
(* Properties.                                                              *)

RoutersTypeOK ==
    LET Sessions == [ident : BOOLEAN, game : Tabs \cup {NoGame},
                     brand : {BrandOf[t] : t \in Tabs} \cup {"spribe", NoGame}] IN
    /\ session \in Sessions
    /\ kept \subseteq Tabs
    /\ others \in [Tabs -> SUBSET (Tabs \cup {NoGame})]
    /\ tabPc \in [Tabs -> {"closed", "greet", "update", "brand", "read", "login", "play",
                            "end", "gone"}]
    /\ tabInfo \in [Tabs -> Sessions]
    /\ tabPlayer \in [Tabs -> BOOLEAN]
    /\ tabSeated \in [Tabs -> BOOLEAN]
    /\ tabTold \in [Tabs -> BOOLEAN]

\* A handler reads its own game, for which the rtp service is asked, or the game
\* of a tab that wrote it after this one did: for spribe and jdb, whose last write
\* is in the same login, in the two commands between, also when the launch's write
\* failed and however many games the player opened before; for inout and jili
\* since the launch.  It finds no game only if the session expired in that time.
\* And the player is somebody if the launch has written him and the session has
\* not expired since.
OwnSessionRead ==
    [][\A t \in Tabs : tabPc[t] = "read" /\ tabPc'[t] \in {"login", "play"} =>
            /\ tabInfo'[t].game \in {t} \cup others[t]
            /\ t \in kept => tabInfo'[t].ident]_routersVars

\* Whichever way a handler ends, the room of a player it has seated is told.
SeatedIsTold == \A t \in Tabs : tabPc[t] = "gone" /\ tabSeated[t] => tabTold[t]
=============================================================================
