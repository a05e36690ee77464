SPECIFICATION FairSpec
CONSTANTS
    M4 = M4
    M0 = M0
    NoBlock = NoBlock
    NoMsg = NoMsg
    s4 = s4
    s0 = s0
    b1 = b1
    b2 = b2
    b3 = b3
    b4 = b4
    Count = 2
    Builds <- MC_Builds
    Setter = {s4, s0}
    SetterCore <- MC_SetterCore
    SetterOf <- MC_SetterOf
    Val = {0, 1}
    Block = {b1, b2, b3, b4}
    HeapOf <- MC_HeapOf
INVARIANTS TypeOK OneHolder Synchronized BlinkTrain
PROPERTIES BlockReturns
