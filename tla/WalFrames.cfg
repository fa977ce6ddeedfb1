SPECIFICATION Spec
CONSTANTS
    Keys <- MCKeys
    Values <- MCValues
    None = None
    MaxSequence = 3
    MaxTears = 1
 
 
INVARIANT TruncationIsStable
