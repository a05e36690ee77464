SPECIFICATION FairSpec
CONSTANTS
    Count = 2
    Wrap = 4
    Byte <- MC_Byte
    NoByte = NoByte
    SendLen = {1, 2, 3}
    ReadLen = {1, 2}
    Stream <- MC_Stream
INVARIANTS TypeOK TxExclusive TxArmed
PROPERTIES TxImplements RxImplements TxDrains
