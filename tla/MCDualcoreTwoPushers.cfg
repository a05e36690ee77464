SPECIFICATION Spec
CONSTANTS
    Count = 2
    Wrap = 4
    M4 = M4
    M0 = M0
    p1 = p1
    p2 = p2
    d0 = d0
    NoMsg = NoMsg
    Msg = {0, 1}
    Stream <- Two_Stream
    Pusher <- Two_Pusher
    Popper <- MC_Popper
    Notifier = {d0}
    CoreOf <- Two_CoreOf
    Prio <- Two_Prio
    PushTout = {"try", "forever", "timed"}
    PopTout = {"forever"}
PROPERTIES InsertDelivers
