SPECIFICATION FairSpec
CONSTANTS
    Slaves <- const_Slaves
    General <- const_General
    ArbitrationIn <- const_AddressOnly
    MaxBytes = 4
    MaxTx = 3
    MaxRx = 3
    SlaveRx = 3
    SlaveTx = 3
    WindowCodes = 1
INVARIANTS TypeOK XferAtHand ReturnTruthful BusReleased
PROPERTIES CallReturns
