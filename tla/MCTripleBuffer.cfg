SPECIFICATION Spec
CONSTANTS
    toAp = toAp
    toPcp = toPcp
    w1 = w1
    Buffer = {toAp, toPcp}
    PortAProduces = {toPcp}
    Word = {w1}
    Value = {0, 1}
    InitValue = 0
INVARIANT Exclusive
PROPERTY ImplementsLatestValue
