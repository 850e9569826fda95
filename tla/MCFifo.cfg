SPECIFICATION FifoSpec
CONSTANTS
    e1 = e1
    e2 = e2
    Elem = {e1, e2}
    MaxElem = 3
    NoElem = NoElem
INVARIANT SlotsHoldQueue
PROPERTY GetsOldest
