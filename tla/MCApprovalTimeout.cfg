SPECIFICATION UpSpec
CONSTANTS
    c1 = c1
    c2 = c2
    w1 = w1
    w2 = w2
    s1 = s1
    s2 = s2
    Calls = {c1}
    Windows = {w1, w2}
    Service <- OneServer
CHECK_DEADLOCK FALSE
PROPERTIES
    AppliedReceiptIsKept
