SPECIFICATION Spec
CONSTANTS
    Fields <- MCFields
    Values <- MCValues
    Shapes <- MCBoth
    MaxEntries = 3
INVARIANTS
    TypeOK
    OrderDoesNotMatter
    
    
CHECK_DEADLOCK FALSE
