SPECIFICATION Spec
CONSTANTS
    Tasks = {t1, t2}
    Messages = 2
    Outer = Outer
    App = App
    Requests = {"server"}
    Overlap = TRUE
    Again = FALSE
INVARIANT OnePiece
CHECK_DEADLOCK FALSE
