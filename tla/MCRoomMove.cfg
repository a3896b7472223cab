SPECIFICATION Spec
CONSTANTS
    Devices = {a, b}
    Rooms = {r1, r2, r3}
    None = None
    Troubles = {"app", "fail", "loss", "restart"}
    MaxTroubles = 1
    MaxMoves = 3
INVARIANTS TypeOK NeverInTwoRooms RestartForgetsNothing MovesAreShown
SYMMETRY Alike
CHECK_DEADLOCK FALSE
