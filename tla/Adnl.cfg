CONSTANTS
    a = a
    b = b
    Node = {a, b}
    Window = 2
    MaxStart <- MCMaxStart
    MaxSeqno = 3
    MaxPackets = 4
SPECIFICATION Spec
CHECK_DEADLOCK FALSE
INVARIANTS TypeOK SignedOnce ReadyReadable TableAgrees
PROPERTY IncarnationsInOrder
