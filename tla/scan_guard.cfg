SPECIFICATION Spec
CONSTANTS
    NPaths = 2
    Values = {v}
    Gone = Gone
    MaxCount = 0
    MaxPercent = 50
    OutputSize = 1
    MaxUpsets = 2
INVARIANT ScanInv
PROPERTIES CommitsJustified ChangesReachIndex
