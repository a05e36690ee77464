SPECIFICATION FairSpec
CONSTANTS
    Count = 2
    Wrap = 4
    M4 = M4
    M0 = M0
    p1 = p1
    p2 = p2
    d0 = d0
    NoMsg = NoMsg
    Msg <- MC_Msg
    Stream <- MC_Stream
    Pusher <- MC_Pusher
    Popper <- MC_Popper
    Notifier = {d0}
    CoreOf <- MC_CoreOf
    Prio <- MC_Prio
    PushTout = {"try", "forever", "timed"}
    PopTout = {"forever"}
INVARIANTS TypeOK NeverOverfull NoSlotShared WakeupPending
PROPERTIES ImplementsChannel SentIsTaken BlockedPushReturns
