SPECIFICATION Spec
CONSTANTS
    Definitions <- SubThenUserOnly
    Clients = {c1, c2}
    SameTaskRace = FALSE
    NoNode = NoNode
INVARIANT EndsOnlyWhenDone
CHECK_DEADLOCK FALSE
