---------------------------- MODULE ByteChannel ----------------------------
(***************************************************************************)
(* What a ring buffer promises the two sides of a UART driver: a bounded   *)
(* FIFO of bytes into which one side puts runs of bytes and from which the *)
(* other takes runs of the oldest ones.  The runs that are put in continue *)
(* a stream.                                                               *)
(***************************************************************************)
EXTENDS Naturals, Sequences

CONSTANTS
    Byte, Count, Wrap,
    Stream      \* Stream[k]: the bytes that may be at place k, modulo Wrap

VARIABLES
    place,      \* the place of the next byte that is put in
    chan,       \* the bytes that were put in and not taken
    taken       \* the run that was taken last

bvars == <<place, chan, taken>>

Run == UNION {[1 .. n -> Byte] : n \in 1 .. Count}

BInit == place = 0 /\ chan = <<>> /\ taken = <<>>

Put(s) ==
    /\ place' = (place + Len(s)) % Wrap
    /\ Len(chan) + Len(s) <= Count
    /\ \A i \in 1 .. Len(s) : s[i] \in Stream[((place + i) - 1) % Wrap]
    /\ chan' = chan \o s
    /\ UNCHANGED taken

Take(n) ==
    /\ taken' = SubSeq(chan, 1, n)
    /\ chan' = SubSeq(chan, n + 1, Len(chan))
    /\ UNCHANGED place

BNext == (\E s \in Run : Put(s)) \/ (\E n \in 1 .. Len(chan) : Take(n))

BSpec == BInit /\ [][BNext]_bvars
=============================================================================
