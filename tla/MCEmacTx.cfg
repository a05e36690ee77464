SPECIFICATION FairSpec
CONSTANTS
    N = 3
    f2 = f2
    c1 = c1
    NoFrame = NoFrame
    Frame = {f2}
    Copy = {c1}
    Chain <- MC_Chain
    CleanPrio = "equal"
INVARIANTS TypeOK RingConsistent RefsExact
PROPERTIES ImplementsLink OutputReturns Reclaimed
