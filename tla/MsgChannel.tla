----------------------------- MODULE MsgChannel -----------------------------
(***************************************************************************)
(* What the dual-core message queues promise their callers: one bounded    *)
(* FIFO channel per sending core.  A push that reports QUEUE_INSERT has    *)
(* appended its message, a pop that reports QUEUE_VALID hands over the     *)
(* oldest one, and nothing else touches a channel.                         *)
(***************************************************************************)
EXTENDS Naturals, Sequences

CONSTANTS Core, Msg, Count, NoMsg

VARIABLES
    chan,       \* chan[c]: the messages core c has sent and its peer has not taken
    popped      \* popped[c]: the last message handed over from chan[c]

cvars == <<chan, popped>>

ChanInit ==
    /\ chan = [c \in Core |-> <<>>]
    /\ popped = [c \in Core |-> NoMsg]

Send(c, m) ==
    /\ Len(chan[c]) < Count
    /\ chan' = [chan EXCEPT ![c] = Append(@, m)]
    /\ UNCHANGED popped

Recv(c) ==
    /\ chan[c] # <<>>
    /\ popped' = [popped EXCEPT ![c] = Head(chan[c])]
    /\ chan' = [chan EXCEPT ![c] = Tail(@)]

ChanNext == \E c \in Core : Recv(c) \/ \E m \in Msg : Send(c, m)

ChanSpec == ChanInit /\ [][ChanNext]_cvars
=============================================================================
