SPECIFICATION FairSpec
CONSTANTS
    M4 = M4
    M0 = M0
    NoBlock = NoBlock
    NoMsg = NoMsg
    s4 = s4
    s0 = s0
    b1 = b1
    b2 = b2
    b3 = b3
    b4 = b4
    Count = 1
    Builds <- Both_Builds
    Setter = {s4, s0}
    SetterCore <- MC_SetterCore
    SetterOf <- MC_SetterOf
    Val = {0}
    Block = {b1, b2, b3, b4}
    HeapOf <- Both_HeapOf
PROPERTIES DispatchReturns
