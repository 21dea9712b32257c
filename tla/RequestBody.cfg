SPECIFICATION Spec
CONSTANTS
    Tasks = {t1, t2, t3}
    Messages = 3
    Outer = Outer
    App = App
    Requests = {"server", "synthetic"}
    Overlap = FALSE
    Again = FALSE
INVARIANTS
    TypeOK
    OnePiece
    FormStaysOpen
    FormClosedOnce
    ConsumedOnlyByForm
PROPERTIES
    ReadEnds
CHECK_DEADLOCK FALSE
