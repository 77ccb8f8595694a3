SPECIFICATION Spec
CONSTANTS
    Definitions <- AllDefinitions
    Clients = {c1, c2}
    SameTaskRace = FALSE
    NoNode = NoNode
INVARIANTS
    TypeOK
    NoTokenLost
    NotStuck
    EndsOnlyWhenDone
    ParentsKept
    OneTokenPerActivity
    WaitsAtItsToken
PROPERTY NoResurrection
CHECK_DEADLOCK FALSE
