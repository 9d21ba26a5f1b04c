---------------------------- MODULE RoomLifecycle ----------------------------
(***************************************************************************)
(* What the room manager promises about a room, without its goroutines,    *)
(* maps and mutexes: a room opens with its first player or not at all,     *)
(* takes in players only while it is open, closes only when it is empty,   *)
(* and never opens again.                                                  *)
(***************************************************************************)
EXTENDS FiniteSets

CONSTANTS Sessions, IdentOf, Rooms

VARIABLES
    phase,      \* "unborn", "open", "closed"
    guests      \* the sessions in each room

vars == <<phase, guests>>

Init ==
    /\ phase = [r \in Rooms |-> "unborn"]
    /\ guests = [r \in Rooms |-> {}]

\* One seat per player.
Admit(G, s) == {o \in G : IdentOf[o] # IdentOf[s]} \cup {s}

Open(r, s) ==
    /\ phase[r] = "unborn"
    /\ phase' = [phase EXCEPT ![r] = "open"]
    /\ guests' = [guests EXCEPT ![r] = Admit(@, s)]

Abandon(r) ==
    /\ phase[r] = "unborn"
    /\ phase' = [phase EXCEPT ![r] = "closed"]
    /\ UNCHANGED guests

Enter(r, s) ==
    /\ phase[r] = "open"
    /\ guests' = [guests EXCEPT ![r] = Admit(@, s)]
    /\ UNCHANGED phase

Leave(r, s) ==
    /\ s \in guests[r]
    /\ guests' = [guests EXCEPT ![r] = @ \ {s}]
    /\ UNCHANGED phase

Close(r) ==
    /\ phase[r] = "open"
    /\ guests[r] = {}
    /\ phase' = [phase EXCEPT ![r] = "closed"]
    /\ UNCHANGED guests

Next ==
    \E r \in Rooms :
        \/ Abandon(r)
        \/ Close(r)
        \/ \E s \in Sessions : Open(r, s) \/ Enter(r, s) \/ Leave(r, s)

Spec == Init /\ [][Next]_vars
=============================================================================
