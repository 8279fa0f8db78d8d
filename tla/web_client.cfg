CONSTANTS
    Slots = {s1,s2}
    MaxChanges = 2
    Loads <- ManyLoads
SPECIFICATION Spec
INVARIANTS
    WebClientTypeOK
    
    PagesFitGuards
PROPERTIES
    LinksOpen
CHECK_DEADLOCK FALSE
SYMMETRY SlotSymmetry
