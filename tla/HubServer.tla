------------------------------ MODULE HubServer ------------------------------
(***************************************************************************)
(* gamehub's GameApiServer under kratos: Endpoint gives the address that   *)
(* is announced to the other services, Start serves from a goroutine of    *)
(* its own, Stop ends the server.                                          *)
(*                                                                         *)
(* kratos asks for the endpoint and calls Start, from a goroutine.  It     *)
(* calls Stop when it is told to, which may be before Start, or before the *)
(* goroutine of Start has done anything: app and lis have no lock.         *)
(***************************************************************************)
EXTENDS Integers

CONSTANTS
    Ports,          \* what the system may give for port 0
    Configured      \* the port of the address the server was made with: 0, or one of Ports

ASSUME HubAssumption == Ports \subseteq Nat \ {0} /\ Configured \in Ports \cup {0}

NoPort == -1          \* nil

VARIABLES
    hubApp,         \* app # nil
    lis,            \* the port of GameApiServer.lis
    serverAddr,     \* the port in GameApiServer.serverAddr
    endpoint,       \* the port in GameApiServer.endpoint
    openPorts,      \* where this process listens
    announced,      \* the port kratos has announced
    servePc,        \* of Start: "none", "failed", "ready", "serving", "down", or "panic"
    served          \* the port the app serves

hubVars == <<hubApp, lis, serverAddr, endpoint, openPorts, announced, servePc, served>>

HubInit ==
    /\ hubApp = TRUE
    /\ lis = NoPort /\ serverAddr = Configured /\ endpoint = NoPort
    /\ openPorts = {}
    /\ announced = NoPort
    /\ servePc = "none" /\ served = NoPort

\* net.Listen: an unused port for port 0, or the one that is asked for.
Listen(addr) == IF addr = 0 THEN Ports \ openPorts ELSE {addr} \ openPorts

\* The address is replaced by the one that was bound, for Endpoint and for the
\* next Listen.  (Mutant: it stays as it was configured.)
ConfiguredAddr(p) == serverAddr
BoundAddr(p) == p

\* ensureListener: what it does to endpoint is in the callers.
EnsureListener ==
    \/ /\ lis # NoPort
       /\ UNCHANGED <<lis, openPorts, serverAddr>>
    \/ /\ lis = NoPort
       /\ \E p \in Listen(serverAddr) :
              lis' = p /\ openPorts' = openPorts \cup {p} /\ serverAddr' = BoundAddr(p)

\* The endpoint that is known, or that of the listener.
Endpoint ==
    /\ hubApp
    /\ IF endpoint # NoPort
       THEN UNCHANGED <<lis, openPorts, serverAddr, endpoint>>
       ELSE EnsureListener /\ endpoint' = serverAddr'
    /\ announced' = endpoint'
    /\ UNCHANGED <<hubApp, servePc, served>>

StartServer ==
    /\ servePc = "none"
    /\ \/ /\ EnsureListener
          /\ endpoint' = IF lis = NoPort THEN NoPort ELSE endpoint
          /\ servePc' = "ready"
       \/ /\ lis = NoPort /\ Listen(serverAddr) = {}
          /\ servePc' = "failed"
          /\ UNCHANGED <<lis, openPorts, serverAddr, endpoint>>
    /\ UNCHANGED <<hubApp, announced, served>>

\* The goroutine of Start: s.app.Listener(s.lis).
Serve ==
    /\ servePc = "ready"
    /\ servePc' = IF hubApp THEN "serving" ELSE "panic"
    /\ served' = IF hubApp THEN lis ELSE NoPort
    /\ UNCHANGED <<hubApp, lis, serverAddr, endpoint, openPorts, announced>>

\* Shutdown closes what is served; a listener nobody serves yet stays open.
Shutdown ==
    /\ servePc' = IF servePc = "serving" THEN "down" ELSE servePc
    /\ openPorts' = IF servePc = "serving" THEN openPorts \ {served} ELSE openPorts

StopServer ==
    /\ IF hubApp THEN Shutdown ELSE UNCHANGED <<servePc, openPorts>>
    /\ hubApp' = FALSE
    /\ lis' = NoPort
    /\ UNCHANGED <<serverAddr, endpoint, announced, served>>

HubNext == Endpoint \/ StartServer \/ Serve \/ StopServer

HubSpec == HubInit /\ [][HubNext]_hubVars

-----------------------------------------------------------------------------
(* Properties.                                                              *)

HubTypeOK ==
    /\ hubApp \in BOOLEAN
    /\ {lis, served} \subseteq Ports \cup {NoPort}
    /\ serverAddr \in Ports \cup {0}
    /\ {endpoint, announced} \subseteq Ports \cup {0, NoPort}
    /\ openPorts \subseteq Ports
    /\ servePc \in {"none", "failed", "ready", "serving", "down", "panic"}

\* Other services are sent to the port that is served, whether Endpoint or Start
\* is called first and opens it; and nothing is served after Stop, not even if
\* Stop overtakes Start or its goroutine (which then ends the process).
ServesAsAnnounced ==
    servePc = "serving" => hubApp /\ (announced # NoPort => announced = served)
=============================================================================
