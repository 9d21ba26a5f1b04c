CONSTANTS
    a = a
    b = b
    a1 = a1
    a2 = a2
    b1 = b1
    Sessions = {a1, b1}
    Idents = {a, b}
    IdentOf <- MCIdentOf
    Rooms = {r1, r2}
    RoomTypes = {t1}
    Matcher = "RTP"
    MaxSwitches = 0
    SerialRooms = TRUE
    SerialPlayers = TRUE
    Nil = Nil
    Absent = Absent
SPECIFICATION Spec
CHECK_DEADLOCK FALSE
INVARIANT DisposedOnce
