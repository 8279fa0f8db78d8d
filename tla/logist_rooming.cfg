CONSTANTS
    Slots = {s1,s2}
    MaxChanges = 2
    Loads <- ManyLoads
SPECIFICATION Spec
INVARIANTS
    LogistIsServed
CHECK_DEADLOCK FALSE
SYMMETRY SlotSymmetry
