SPECIFICATION Spec
CONSTANTS
    Plans <- MCPlans
    Allowed <- MCAllowed
CHECK_DEADLOCK FALSE
INVARIANTS
    TypeOK
    
    CompletedQuiet
    EntryHonoured
    
    RequiredDone
    
PROPERTIES
    
    ExitHonoured
