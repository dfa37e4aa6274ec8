SPECIFICATION SceneSpec
CONSTANTS
    c1 = c1
    c2 = c2
    w1 = w1
    w2 = w2
    w3 = w3
    s1 = s1
    s2 = s2
    Calls = {c1, c2}
    Windows = {w1, w2, w3}
    Service <- TwoProcesses
SYMMETRY Symmetry
CHECK_DEADLOCK FALSE
INVARIANTS
    ReceiptTellsTruth
    RunningMeansDecided
    OnlyALossStrands
PROPERTIES
    CancelBlocksReceipt
