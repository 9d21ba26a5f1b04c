---------------------------- MODULE MCRoomManager ----------------------------
(***************************************************************************)
(* Instances of RoomManager for TLC: sessions a1 and a2 belong to player a *)
(* (a2 is the reconnection, or the second browser tab), b1 to player b.    *)
(***************************************************************************)
EXTENDS RoomManager, TLC

CONSTANTS a, b, a1, a2, b1

MCIdentOf == [s \in Sessions |-> IF s = b1 THEN b ELSE a]

MCSymmetry ==
    Permutations(Rooms) \cup Permutations(RoomTypes) \cup Permutations(Sessions \cap {a1, a2})
=============================================================================
