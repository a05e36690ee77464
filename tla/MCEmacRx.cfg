SPECIFICATION FairSpec
CONSTANTS
    N = 3
    b1 = b1
    b2 = b2
    b3 = b3
    Pbuf = {b1, b2, b3}
    None = None
INVARIANTS TypeOK RingConsistent PbufOwnedOnce
PROPERTIES ImplementsDelivery Delivered Refilled
