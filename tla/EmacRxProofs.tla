---------------------------- MODULE EmacRxProofs ----------------------------
(***************************************************************************)
(* The receive ring of the Ethernet driver stays consistent, every pbuf    *)
(* has one owner, and the frames are handed over as FrameDelivery says,    *)
(* for every size of the ring and every number of pbufs.                   *)
(***************************************************************************)
EXTENDS EmacRx, FiniteSetTheorems, SequenceTheorems, TLAPS

(***************************************************************************)
(* Positions in a ring of N descriptors.                                   *)
(***************************************************************************)
At(g, j) == (g + j) % N

LEMMA AtValue ==
    ASSUME NEW g \in Index, NEW j \in 0 .. N
    PROVE  /\ At(g, j) \in Index
           /\ At(g, j) = IF g + j < N THEN g + j ELSE (g + j) - N
<1> DEFINE a == g + j
           q == a \div N
           r == a % N
<1>1. N \in Nat \ {0} /\ g \in 0 .. N - 1 /\ a \in 0 .. 2 * N - 1
  BY EmacRxAssumption DEF Index
<1>2. q \in Int /\ r \in 0 .. N - 1 /\ a = N * q + r
  BY <1>1
<1> HIDE DEF q, r, a
<1>3. q >= 0
  <2>1. SUFFICES ASSUME q <= -1 PROVE FALSE
    BY <1>2
  <2>2. N * q <= -N
    BY <1>1, <1>2, <2>1
  <2> QED
    BY <1>1, <1>2, <2>2
<1>4. q <= 1
  <2>1. SUFFICES ASSUME q >= 2 PROVE FALSE
    BY <1>2
  <2>2. N * q >= 2 * N
    BY <1>1, <1>2, <2>1
  <2> QED
    BY <1>1, <1>2, <2>2
<1>5. r = IF a < N THEN a ELSE a - N
  <2>1. CASE q = 0
    <3>1. a = r
      BY <1>1, <1>2, <2>1
    <3> QED
      BY <1>1, <1>2, <3>1
  <2>2. CASE q = 1
    <3>1. a = N + r
      BY <1>1, <1>2, <2>2
    <3> QED
      BY <1>1, <1>2, <3>1
  <2> QED
    BY <1>2, <1>3, <1>4, <2>1, <2>2
<1> QED
  BY <1>2, <1>5 DEF At, Index, r, a

LEMMA SuccValue ==
    ASSUME NEW i \in Index
    PROVE  Succ(i) \in Index /\ Succ(i) = At(i, 1)
  BY AtValue, EmacRxAssumption DEF Succ, At, Index

(* The descriptor after position j is position j + 1, and moving the start *)
(* of the ring on by one moves every position.                             *)
LEMMA AtNext ==
    ASSUME NEW g \in Index, NEW j \in 0 .. N - 1
    PROVE  /\ Succ(At(g, j)) = At(g, j + 1)
           /\ At(Succ(g), j) = At(g, j + 1)
           /\ At(g, 0) = g
<1>1. N \in Nat /\ N >= 3 /\ g \in 0 .. N - 1 /\ j \in Int /\ j + 1 \in 0 .. N
      /\ j \in 0 .. N /\ 0 \in 0 .. N /\ 1 \in 0 .. N
  BY EmacRxAssumption DEF Index
<1>2. At(g, j) \in Index /\ At(g, j) = IF g + j < N THEN g + j ELSE (g + j) - N
  BY <1>1, AtValue
<1>3. At(g, j + 1) = IF g + (j + 1) < N THEN g + (j + 1) ELSE (g + (j + 1)) - N
  BY <1>1, AtValue
<1>4. Succ(At(g, j)) = IF At(g, j) + 1 < N THEN At(g, j) + 1 ELSE (At(g, j) + 1) - N
  BY <1>1, <1>2, SuccValue, AtValue
<1>5. Succ(g) \in Index /\ Succ(g) = IF g + 1 < N THEN g + 1 ELSE (g + 1) - N
  BY <1>1, SuccValue, AtValue
<1>6. At(Succ(g), j) = IF Succ(g) + j < N THEN Succ(g) + j ELSE (Succ(g) + j) - N
  BY <1>1, <1>5, AtValue
<1>7. At(g, 0) = g
  BY <1>1, AtValue
<1>8. Succ(At(g, j)) = At(g, j + 1)
  BY <1>1, <1>2, <1>3, <1>4 DEF Index
<1>9. At(Succ(g), j) = At(g, j + 1)
  BY <1>1, <1>3, <1>5, <1>6 DEF Index
<1> QED
  BY <1>7, <1>8, <1>9

(* Different positions are different descriptors. *)
LEMMA AtApart ==
    ASSUME NEW g \in Index, NEW i \in 0 .. N - 1, NEW j \in 0 .. N - 1, At(g, i) = At(g, j)
    PROVE  i = j
<1>1. N \in Nat /\ g \in 0 .. N - 1 /\ i \in 0 .. N /\ j \in 0 .. N
  BY EmacRxAssumption DEF Index
<1>2. At(g, i) = IF g + i < N THEN g + i ELSE (g + i) - N
  BY <1>1, AtValue
<1>3. At(g, j) = IF g + j < N THEN g + j ELSE (g + j) - N
  BY <1>1, AtValue
<1> DEFINE a == At(g, i)
           b == At(g, j)
<1>4. a = b
  OBVIOUS
<1> HIDE DEF a, b
<1>5. a = (IF g + i < N THEN g + i ELSE (g + i) - N)
  BY <1>2 DEF a
<1>6. b = (IF g + j < N THEN g + j ELSE (g + j) - N)
  BY <1>3 DEF b
<1>7. CASE g + i < N
  <2>1. a = g + i
    BY <1>5, <1>7
  <2>2. b # g + j \/ i = j
    BY <1>1, <1>4, <2>1
  <2>3. b # (g + j) - N
    BY <1>1, <1>4, <2>1
  <2> QED
    BY <1>6, <2>2, <2>3
<1>8. CASE ~(g + i < N)
  <2>1. a = (g + i) - N
    BY <1>5, <1>8
  <2>2. b # (g + j) - N \/ i = j
    BY <1>1, <1>4, <2>1
  <2>3. b # g + j
    BY <1>1, <1>4, <2>1
  <2> QED
    BY <1>6, <2>2, <2>3
<1> QED
  BY <1>7, <1>8

(***************************************************************************)
(* The inductive invariant.                                                *)
(***************************************************************************)
Used == N - free

(* The engine has closed the first k of the descriptors in use. *)
RingAt(k) ==
    /\ k \in 0 .. Used
    /\ pos = At(get, k)
    /\ next = At(get, Used)
    /\ \A j \in 0 .. Used - 1 : own[At(get, j)] <=> j >= k
    /\ \A i \in Index : own[i] => \E j \in 0 .. Used - 1 : i = At(get, j)

RingInv == \E k \in 0 .. N : RingAt(k)

(* What the places of the task say of the frame it has. *)
TaskInv ==
    /\ rpc \in {"sleep", "test"} => p = None /\ ~rxerr
    /\ rpc = "requeue" => p # None /\ rxerr /\ free >= 1
    /\ rpc = "fill" => ~rxerr
    /\ rpc = "return" => (rxerr <=> p = None)
    /\ rpc = "deliver" => p # None /\ ~rxerr

(* The pbufs with heap, stack, task and ring are different and all.        *)
PbufInv ==
    /\ heap \cap stack = {}
    /\ p \notin heap /\ p \notin stack
    /\ \A j \in 0 .. Used - 1 :
         /\ rxpbufs[At(get, j)] \in Pbuf
         /\ rxpbufs[At(get, j)] \notin heap /\ rxpbufs[At(get, j)] \notin stack
         /\ rxpbufs[At(get, j)] # p
    /\ \A i, j \in 0 .. Used - 1 : rxpbufs[At(get, i)] = rxpbufs[At(get, j)] => i = j
    /\ \A b \in Pbuf :
         b \in heap \/ b \in stack \/ b = p \/ \E j \in 0 .. Used - 1 : rxpbufs[At(get, j)] = b

Inv == TypeOK /\ RingInv /\ TaskInv /\ PbufInv

LEMMA RingTyped ==
    ASSUME TypeOK
    PROVE  /\ N \in Nat /\ N >= 3 /\ free \in 0 .. N /\ Used \in 0 .. N /\ Used = N - free
           /\ get \in Index /\ next \in Index /\ pos \in Index
           /\ own \in [Index -> BOOLEAN]
           /\ rxpbufs \in [Index -> Pbuf \union {None}]
  BY EmacRxAssumption DEF TypeOK, Used

(***************************************************************************)
(* The engine closes a descriptor.                                         *)
(***************************************************************************)
LEMMA ReceiveRing ==
    ASSUME TypeOK, RingInv, NEW e \in BOOLEAN, DmaReceive(e)
    PROVE  /\ RingInv' /\ pos' \in Index /\ own' \in [Index -> BOOLEAN]
           /\ \E k \in 0 .. Used - 1 : pos = At(get, k) /\ RingAt(k) /\ RingAt(k + 1)'
<1>1. PICK k \in 0 .. N : RingAt(k)
  BY DEF RingInv
<1>2. /\ own[pos] /\ own' = [own EXCEPT ![pos] = FALSE] /\ pos' = Succ(pos)
      /\ UNCHANGED <<free, get, next>>
  BY DEF DmaReceive
<1>3. k \in 0 .. Used - 1 /\ pos = At(get, k)
  <2>1. PICK j \in 0 .. Used - 1 : pos = At(get, j)
    BY <1>1, <1>2, RingTyped DEF RingAt
  <2>2. own[At(get, j)]
    BY <1>2, <2>1
  <2>3. j >= k
    BY <1>1, <2>1, <2>2 DEF RingAt
  <2> QED
    BY <1>1, <2>1, <2>3, RingTyped DEF RingAt
<1>4. pos' = At(get, k + 1)
  BY <1>2, <1>3, AtNext, RingTyped
<1>5. \A j \in 0 .. Used - 1 : own'[At(get, j)] <=> j >= k + 1
  <2> SUFFICES ASSUME NEW j \in 0 .. Used - 1
               PROVE  own'[At(get, j)] <=> j >= k + 1
    OBVIOUS
  <2>1. At(get, j) \in Index /\ j \in 0 .. N - 1 /\ k \in 0 .. N - 1
    BY <1>3, AtValue, RingTyped, SMTT(30)
  <2>2. CASE j = k
    <3>1. own'[At(get, j)] = FALSE
      BY <1>2, <1>3, <2>1, <2>2, RingTyped
    <3>2. ~(j >= k + 1)
      BY <2>1, <2>2
    <3> QED
      BY <3>1, <3>2
  <2>3. CASE j # k
    <3>1. At(get, j) # pos
      BY <1>3, <2>1, <2>3, AtApart, RingTyped
    <3>2. own'[At(get, j)] = own[At(get, j)]
      BY <1>2, <2>1, <3>1, RingTyped
    <3>3. own[At(get, j)] <=> j >= k
      BY <1>1 DEF RingAt
    <3>4. j >= k <=> j >= k + 1
      BY <2>1, <2>3
    <3> QED
      BY <3>2, <3>3, <3>4
  <2> QED
    BY <2>2, <2>3
<1>6. \A i \in Index : own'[i] => \E j \in 0 .. Used - 1 : i = At(get, j)
  <2> SUFFICES ASSUME NEW i \in Index, own'[i]
               PROVE  \E j \in 0 .. Used - 1 : i = At(get, j)
    OBVIOUS
  <2>1. own[i]
    BY <1>2, RingTyped
  <2> QED
    BY <1>1, <2>1 DEF RingAt
<1>7. Used' = Used
  BY <1>2 DEF Used
<1>8. k + 1 \in 0 .. Used /\ k + 1 \in 0 .. N
  BY <1>3, RingTyped
<1>9. RingAt(k + 1)'
  BY <1>1, <1>2, <1>4, <1>5, <1>6, <1>7, <1>8 DEF RingAt
<1>10. pos' \in Index
  BY <1>2, SuccValue, RingTyped
<1>11. own' \in [Index -> BOOLEAN]
  BY <1>2, RingTyped
<1> QED
  BY <1>1, <1>3, <1>8, <1>9, <1>10, <1>11 DEF RingInv

(***************************************************************************)
(* A pbuf is queued.                                                       *)
(***************************************************************************)
LEMMA QueueRing ==
    ASSUME TypeOK, RingInv, free >= 1, NEW b \in Pbuf, Queue(b), UNCHANGED pos
    PROVE  /\ RingInv'
           /\ \E k \in 0 .. N : RingAt(k) /\ RingAt(k)'
           /\ \A j \in 0 .. Used - 1 : bad'[At(get, j)] = bad[At(get, j)]
           /\ Used' = Used + 1 /\ get' = get
           /\ \A j \in 0 .. Used - 1 : rxpbufs'[At(get, j)] = rxpbufs[At(get, j)]
           /\ rxpbufs'[At(get, Used)] = b
           /\ free' \in 0 .. N /\ next' \in Index
           /\ own' \in [Index -> BOOLEAN] /\ bad' \in [Index -> BOOLEAN]
           /\ rxpbufs' \in [Index -> Pbuf \union {None}]
<1>1. PICK k \in 0 .. N : RingAt(k)
  BY DEF RingInv
<1>2. /\ own' = [own EXCEPT ![next] = TRUE]
      /\ bad' = [bad EXCEPT ![next] = FALSE]
      /\ rxpbufs' = [rxpbufs EXCEPT ![next] = b]
      /\ free' = free - 1 /\ next' = Succ(next) /\ get' = get
      /\ pos' = pos
  BY DEF Queue
<1>3. /\ Used \in 0 .. N - 1 /\ Used' = Used + 1 /\ free' \in 0 .. N
      /\ next = At(get, Used)
  BY <1>1, <1>2, RingTyped DEF Used, RingAt
<1>4. next' = At(get, Used + 1) /\ next' \in Index
  BY <1>2, <1>3, AtNext, SuccValue, RingTyped
<1>5. \A j \in 0 .. Used - 1 : At(get, j) \in Index /\ At(get, j) # next
  <2> SUFFICES ASSUME NEW j \in 0 .. Used - 1
               PROVE  At(get, j) \in Index /\ At(get, j) # next
    OBVIOUS
  <2>1. j \in 0 .. N - 1 /\ j \in 0 .. N /\ j # Used
    BY <1>3, RingTyped
  <2> QED
    BY <1>3, <2>1, AtValue, AtApart, RingTyped
<1>6. \A j \in 0 .. Used : own'[At(get, j)] <=> j >= k
  <2> SUFFICES ASSUME NEW j \in 0 .. Used
               PROVE  own'[At(get, j)] <=> j >= k
    OBVIOUS
  <2>1. CASE j = Used
    <3>1. own'[At(get, j)] = TRUE
      BY <1>2, <1>3, <2>1, RingTyped
    <3>2. j >= k
      BY <1>1, <2>1, RingTyped DEF RingAt
    <3> QED
      BY <3>1, <3>2
  <2>2. CASE j # Used
    <3>1. j \in 0 .. Used - 1
      BY <1>3, <2>2
    <3>2. own'[At(get, j)] = own[At(get, j)]
      BY <1>2, <1>5, <3>1, RingTyped
    <3>3. own[At(get, j)] <=> j >= k
      BY <1>1, <3>1 DEF RingAt
    <3> QED
      BY <3>2, <3>3
  <2> QED
    BY <2>1, <2>2
<1>7. \A i \in Index : own'[i] => \E j \in 0 .. Used : i = At(get, j)
  <2> SUFFICES ASSUME NEW i \in Index, own'[i]
               PROVE  \E j \in 0 .. Used : i = At(get, j)
    OBVIOUS
  <2>1. CASE i = next
    <3>1. Used \in 0 .. Used
      BY <1>3
    <3> QED
      BY <1>3, <2>1, <3>1
  <2>2. CASE i # next
    <3>1. own[i]
      BY <1>2, <2>2, RingTyped
    <3>2. PICK j \in 0 .. Used - 1 : i = At(get, j)
      BY <1>1, <3>1 DEF RingAt
    <3>3. j \in 0 .. Used
      BY <1>3
    <3> QED
      BY <3>2, <3>3
  <2> QED
    BY <2>1, <2>2
<1>8. (Used + 1) - 1 = Used /\ k \in 0 .. Used + 1
  BY <1>1, <1>3 DEF RingAt
<1>9. RingAt(k)'
  BY <1>1, <1>2, <1>3, <1>4, <1>6, <1>7, <1>8 DEF RingAt
<1>10. \A j \in 0 .. Used - 1 : rxpbufs'[At(get, j)] = rxpbufs[At(get, j)]
  BY <1>2, <1>5, RingTyped
<1>11. rxpbufs'[At(get, Used)] = b
  BY <1>2, <1>3, RingTyped
<1>12. own' \in [Index -> BOOLEAN] /\ bad' \in [Index -> BOOLEAN]
  BY <1>2 DEF TypeOK
<1>13. rxpbufs' \in [Index -> Pbuf \union {None}]
  BY <1>2, RingTyped
<1>14. RingInv'
  BY <1>9 DEF RingInv
<1>15. \A j \in 0 .. Used - 1 : bad'[At(get, j)] = bad[At(get, j)]
  BY <1>2, <1>5, RingTyped DEF TypeOK
<1> QED
  BY <1>1, <1>2, <1>3, <1>4, <1>9, <1>10, <1>11, <1>12, <1>13, <1>14, <1>15

(***************************************************************************)
(* The task takes a closed descriptor.                                     *)
(***************************************************************************)
LEMMA GetRing ==
    ASSUME TypeOK, RingInv, InputGet, UNCHANGED pos
    PROVE  /\ RingInv'
           /\ \E k \in 1 .. N : RingAt(k) /\ RingAt(k - 1)'
           /\ \A j \in 0 .. Used - 2 : bad'[At(get', j)] = bad[At(get, j + 1)]
           /\ Used >= 1 /\ Used' = Used - 1
           /\ p' = rxpbufs[At(get, 0)]
           /\ \A j \in 0 .. Used - 2 : rxpbufs'[At(get', j)] = rxpbufs[At(get, j + 1)]
           /\ free' \in 1 .. N /\ get' \in Index
           /\ rxpbufs' \in [Index -> Pbuf \union {None}]
<1>1. PICK k \in 0 .. N : RingAt(k)
  BY DEF RingInv
<1>2. /\ ~own[get] /\ free < N
      /\ p' = rxpbufs[get]
      /\ rxpbufs' = [rxpbufs EXCEPT ![get] = None] /\ bad' = [bad EXCEPT ![get] = FALSE]
      /\ free' = free + 1 /\ get' = Succ(get)
      /\ UNCHANGED <<own, next, pos>>
  BY DEF InputGet
<1>3. /\ Used \in 1 .. N /\ Used' = Used - 1 /\ free' \in 1 .. N
  BY <1>2, RingTyped DEF Used
<1>4. At(get, 0) = get /\ get' \in Index
  BY <1>2, AtNext, SuccValue, RingTyped
<1>5. k >= 1 /\ k \in 0 .. Used
  <2>1. own[At(get, 0)] <=> 0 >= k
    BY <1>1, <1>3 DEF RingAt
  <2>2. ~(0 >= k)
    BY <1>2, <1>4, <2>1
  <2> QED
    BY <1>1, <2>2 DEF RingAt
<1>6. \A j \in 0 .. N - 1 : At(get', j) = At(get, j + 1)
  BY <1>2, AtNext, RingTyped
<1>7. pos' = At(get', k - 1) /\ next' = At(get', Used - 1)
  <2>1. k - 1 \in 0 .. N - 1 /\ (k - 1) + 1 = k
    BY <1>3, <1>5, RingTyped
  <2>2. Used - 1 \in 0 .. N - 1 /\ (Used - 1) + 1 = Used
    BY <1>3, RingTyped
  <2> QED
    BY <1>1, <1>2, <1>6, <2>1, <2>2 DEF RingAt
<1>8. \A j \in 0 .. Used - 2 : own'[At(get', j)] <=> j >= k - 1
  <2> SUFFICES ASSUME NEW j \in 0 .. Used - 2
               PROVE  own'[At(get', j)] <=> j >= k - 1
    OBVIOUS
  <2>1. j \in 0 .. N - 1 /\ j + 1 \in 0 .. Used - 1 /\ (j + 1 >= k <=> j >= k - 1)
    BY <1>3, <1>5, RingTyped
  <2>2. own[At(get, j + 1)] <=> j + 1 >= k
    BY <1>1, <2>1 DEF RingAt
  <2>3. own'[At(get', j)] = own[At(get, j + 1)]
    BY <1>2, <1>6, <2>1
  <2> QED
    BY <2>1, <2>2, <2>3
<1>9. \A i \in Index : own'[i] => \E j \in 0 .. Used - 2 : i = At(get', j)
  <2> SUFFICES ASSUME NEW i \in Index, own[i]
               PROVE  \E j \in 0 .. Used - 2 : i = At(get', j)
    BY <1>2
  <2>1. PICK j \in 0 .. Used - 1 : i = At(get, j)
    BY <1>1 DEF RingAt
  <2>2. j # 0
    BY <1>2, <1>4, <2>1
  <2>3. j - 1 \in 0 .. Used - 2 /\ j - 1 \in 0 .. N - 1 /\ (j - 1) + 1 = j
    BY <1>3, <2>2, RingTyped
  <2>4. At(get', j - 1) = At(get, j)
    BY <1>6, <2>3
  <2> QED
    BY <2>1, <2>3, <2>4
<1>10. (Used - 1) - 1 = Used - 2 /\ k - 1 \in 0 .. Used - 1 /\ k - 1 \in 0 .. N
  BY <1>3, <1>5, RingTyped
<1>11. RingAt(k - 1)'
  BY <1>3, <1>7, <1>8, <1>9, <1>10 DEF RingAt
<1>12. \A j \in 0 .. Used - 2 : /\ rxpbufs'[At(get', j)] = rxpbufs[At(get, j + 1)]
                                /\ bad'[At(get', j)] = bad[At(get, j + 1)]
  <2> SUFFICES ASSUME NEW j \in 0 .. Used - 2
               PROVE  /\ rxpbufs'[At(get', j)] = rxpbufs[At(get, j + 1)]
                      /\ bad'[At(get', j)] = bad[At(get, j + 1)]
    OBVIOUS
  <2>1. j \in 0 .. N - 1 /\ j + 1 \in 0 .. N - 1 /\ j + 1 # 0 /\ 0 \in 0 .. N - 1
        /\ j + 1 \in 0 .. N
    BY <1>3, RingTyped
  <2>2. At(get, j + 1) # get /\ At(get, j + 1) \in Index
    BY <1>4, <2>1, AtApart, AtValue, RingTyped
  <2> QED
    BY <1>2, <1>6, <2>1, <2>2, RingTyped DEF TypeOK
<1>13. rxpbufs' \in [Index -> Pbuf \union {None}]
  BY <1>2, RingTyped
<1>14. \E l \in 1 .. N : RingAt(l) /\ RingAt(l - 1)'
  <2>1. k \in 1 .. N
    BY <1>5, RingTyped
  <2> QED
    BY <1>1, <1>11, <2>1
<1>15. RingInv'
  BY <1>10, <1>11 DEF RingInv
<1>16. /\ \A j \in 0 .. Used - 2 : rxpbufs'[At(get', j)] = rxpbufs[At(get, j + 1)]
       /\ \A j \in 0 .. Used - 2 : bad'[At(get', j)] = bad[At(get, j + 1)]
  BY <1>12
<1>17. Used >= 1 /\ p' = rxpbufs[At(get, 0)]
  BY <1>2, <1>3, <1>4, RingTyped
<1> QED
  BY <1>3, <1>4, <1>13, <1>14, <1>15, <1>16, <1>17

(***************************************************************************)
(* Every step keeps the invariant.                                         *)
(***************************************************************************)
LEMMA RingSame ==
    ASSUME RingInv, UNCHANGED <<own, free, get, next, pos>>
    PROVE  RingInv' /\ \E k \in 0 .. N : RingAt(k) /\ RingAt(k)'
<1>1. PICK k \in 0 .. N : RingAt(k)
  BY DEF RingInv
<1>2. RingAt(k)'
  BY <1>1 DEF RingAt, Used, At
<1> QED
  BY <1>1, <1>2 DEF RingInv

LEMMA PbufSame ==
    ASSUME PbufInv, UNCHANGED <<rxpbufs, free, get, heap, stack, p>>
    PROVE  PbufInv'
  BY DEF PbufInv, Used, At

LEMMA EngineStep ==
    ASSUME Inv, Dma \/ \E e \in BOOLEAN : DmaReceive(e)
    PROVE  Inv'
<1>1. CASE Dma
  <2>1. /\ UNCHANGED <<ring, task, handler, pbufs, pos, rxSem>>
        /\ stat' \subseteq {"RI", "RU"}
        /\ dma' \in {"run", "suspended"}
    BY <1>1 DEF Dma, DmaStatus, DmaSuspend, Inv, TypeOK
  <2>2. RingInv'
    BY <2>1, RingSame DEF Inv, ring
  <2>3. PbufInv'
    BY <2>1, PbufSame DEF Inv, ring, pbufs, task
  <2>4. TypeOK' /\ TaskInv'
    BY <2>1 DEF Inv, TypeOK, TaskInv, ring, task, handler, pbufs
  <2> QED
    BY <2>2, <2>3, <2>4 DEF Inv
<1>2. ASSUME NEW e \in BOOLEAN, DmaReceive(e) PROVE Inv'
  <2>1. RingInv' /\ pos' \in Index /\ own' \in [Index -> BOOLEAN]
    BY <1>2, ReceiveRing DEF Inv
  <2>2. /\ UNCHANGED <<rxpbufs, free, get, next, task, handler, pbufs, stat, rxSem>>
        /\ bad' = [bad EXCEPT ![pos] = e] /\ dma' = "status"
    BY <1>2 DEF DmaReceive
  <2>3. PbufInv'
    BY <2>2, PbufSame DEF Inv, pbufs, task
  <2>4. bad' \in [Index -> BOOLEAN]
    BY <2>2 DEF Inv, TypeOK
  <2>5. TypeOK' /\ TaskInv'
    BY <2>1, <2>2, <2>4 DEF Inv, TypeOK, TaskInv, task, handler, pbufs
  <2> QED
    BY <2>1, <2>3, <2>5 DEF Inv
<1> QED
  BY <1>1, <1>2

LEMMA HandlerStep ==
    ASSUME Inv, Isr
    PROVE  Inv'
<1>1. UNCHANGED <<ring, task, pbufs, dma, pos>>
  BY DEF Isr, IsrGive, IsrClear, engine
<1>2. RingInv'
  BY <1>1, RingSame DEF Inv, ring
<1>3. PbufInv'
  BY <1>1, PbufSame DEF Inv, ring, pbufs, task
<1>4. /\ isr' \in {"none", "clear"} /\ ints' \subseteq {"RI", "RU"}
      /\ stat' \subseteq {"RI", "RU"}
  BY DEF Isr, IsrGive, IsrClear, Inv, TypeOK, engine
<1>5. rxSem' \in BOOLEAN
  BY DEF Isr, IsrGive, IsrClear, Inv, TypeOK
<1>6. TypeOK' /\ TaskInv'
  BY <1>1, <1>4, <1>5 DEF Inv, TypeOK, TaskInv, ring, task, pbufs
<1> QED
  BY <1>2, <1>3, <1>6 DEF Inv

(* A pbuf that is nowhere in the ring is queued.                           *)
LEMMA QueuePbuf ==
    ASSUME Inv, free >= 1, NEW b \in Pbuf, Queue(b), UNCHANGED <<pos, stack>>,
           \/ b = p /\ p' = None /\ heap' = heap
           \/ b \in heap /\ p' = p /\ heap' = heap \ {b}
    PROVE  PbufInv'
<1> DEFINE u == Used
<1>1. /\ Used' = u + 1 /\ get' = get /\ stack' = stack /\ u \in 0 .. N
      /\ \A j \in 0 .. u - 1 : rxpbufs'[At(get, j)] = rxpbufs[At(get, j)]
      /\ rxpbufs'[At(get, u)] = b
  BY QueueRing, RingTyped DEF Inv
<1>2. /\ heap \cap stack = {} /\ p \notin heap /\ p \notin stack
      /\ \A j \in 0 .. u - 1 :
           /\ rxpbufs[At(get, j)] \in Pbuf
           /\ rxpbufs[At(get, j)] \notin heap /\ rxpbufs[At(get, j)] \notin stack
           /\ rxpbufs[At(get, j)] # p
      /\ \A i, j \in 0 .. u - 1 : rxpbufs[At(get, i)] = rxpbufs[At(get, j)] => i = j
      /\ \A c \in Pbuf :
           c \in heap \/ c \in stack \/ c = p \/ \E j \in 0 .. u - 1 : rxpbufs[At(get, j)] = c
  BY DEF Inv, PbufInv
<1>3. None \notin Pbuf /\ heap \subseteq Pbuf /\ stack \subseteq Pbuf
      /\ (p \in Pbuf \/ p = None) /\ N \in Nat
  BY EmacRxAssumption DEF Inv, TypeOK
<1> HIDE DEF u
<1>4. /\ heap' \cap stack' = {} /\ p' \notin heap' /\ p' \notin stack'
      /\ b \notin heap' /\ b \notin stack' /\ b # p'
      /\ heap' \subseteq heap /\ (p' = p \/ p' = None)
  BY <1>1, <1>2, <1>3
<1>5. \A j \in 0 .. u - 1 : rxpbufs[At(get, j)] # b
  BY <1>2
<1>6. \A j \in 0 .. u :
         /\ rxpbufs'[At(get, j)] \in Pbuf
         /\ rxpbufs'[At(get, j)] \notin heap' /\ rxpbufs'[At(get, j)] \notin stack'
         /\ rxpbufs'[At(get, j)] # p'
  <2> SUFFICES ASSUME NEW j \in 0 .. u
               PROVE  /\ rxpbufs'[At(get, j)] \in Pbuf
                      /\ rxpbufs'[At(get, j)] \notin heap'
                      /\ rxpbufs'[At(get, j)] \notin stack'
                      /\ rxpbufs'[At(get, j)] # p'
    OBVIOUS
  <2>1. CASE j = u
    BY <1>1, <1>4, <2>1
  <2>2. CASE j # u
    <3>1. j \in 0 .. u - 1
      BY <1>1, <2>2
    <3> QED
      BY <1>1, <1>2, <1>3, <1>4, <3>1
  <2> QED
    BY <2>1, <2>2
<1>7. \A i, j \in 0 .. u : rxpbufs'[At(get, i)] = rxpbufs'[At(get, j)] => i = j
  <2> SUFFICES ASSUME NEW i \in 0 .. u, NEW j \in 0 .. u,
                      rxpbufs'[At(get, i)] = rxpbufs'[At(get, j)]
               PROVE  i = j
    OBVIOUS
  <2>1. (i \in 0 .. u - 1 \/ i = u) /\ (j \in 0 .. u - 1 \/ j = u)
    BY <1>1
  <2> QED
    BY <1>1, <1>2, <1>5, <2>1
<1>8. \A c \in Pbuf :
         c \in heap' \/ c \in stack' \/ c = p' \/ \E j \in 0 .. u : rxpbufs'[At(get, j)] = c
  <2> SUFFICES ASSUME NEW c \in Pbuf
               PROVE  c \in heap' \/ c \in stack' \/ c = p'
                        \/ \E j \in 0 .. u : rxpbufs'[At(get, j)] = c
    OBVIOUS
  <2>1. CASE c = b
    <3>1. u \in 0 .. u
      BY <1>1
    <3> QED
      BY <1>1, <2>1, <3>1
  <2>2. ASSUME c # b, NEW j \in 0 .. u - 1, rxpbufs[At(get, j)] = c
        PROVE  \E i \in 0 .. u : rxpbufs'[At(get, i)] = c
    <3>1. j \in 0 .. u
      BY <1>1
    <3> QED
      BY <1>1, <2>2, <3>1
  <2> QED
    BY <1>1, <1>2, <2>1, <2>2
<1>9. (u + 1) - 1 = u
  BY <1>1
<1> QED
  BY <1>1, <1>4, <1>6, <1>7, <1>8, <1>9 DEF PbufInv

(* The task takes the pbuf of the oldest descriptor in use.                *)
LEMMA GetPbuf ==
    ASSUME Inv, InputGet, p = None, UNCHANGED <<pos, pbufs>>
    PROVE  PbufInv' /\ p' \in Pbuf
<1> DEFINE u == Used
<1>1. /\ u \in 1 .. N /\ Used' = u - 1
      /\ p' = rxpbufs[At(get, 0)]
      /\ \A j \in 0 .. u - 2 : rxpbufs'[At(get', j)] = rxpbufs[At(get, j + 1)]
      /\ heap' = heap /\ stack' = stack
  BY GetRing, RingTyped DEF Inv, pbufs
<1>2. /\ heap \cap stack = {}
      /\ \A j \in 0 .. u - 1 :
           /\ rxpbufs[At(get, j)] \in Pbuf
           /\ rxpbufs[At(get, j)] \notin heap /\ rxpbufs[At(get, j)] \notin stack
      /\ \A i, j \in 0 .. u - 1 : rxpbufs[At(get, i)] = rxpbufs[At(get, j)] => i = j
      /\ \A c \in Pbuf :
           c \in heap \/ c \in stack \/ c = p \/ \E j \in 0 .. u - 1 : rxpbufs[At(get, j)] = c
  BY DEF Inv, PbufInv
<1>3. None \notin Pbuf /\ N \in Nat
  BY EmacRxAssumption
<1> HIDE DEF u
<1>4. 0 \in 0 .. u - 1 /\ \A j \in 0 .. u - 2 : j + 1 \in 0 .. u - 1 /\ j + 1 # 0
  BY <1>1, <1>3
<1>5. p' \in Pbuf /\ p' \notin heap' /\ p' \notin stack'
  BY <1>1, <1>2, <1>4
<1>6. \A j \in 0 .. u - 2 :
         /\ rxpbufs'[At(get', j)] \in Pbuf
         /\ rxpbufs'[At(get', j)] \notin heap' /\ rxpbufs'[At(get', j)] \notin stack'
         /\ rxpbufs'[At(get', j)] # p'
  BY <1>1, <1>2, <1>4
<1>7. \A i, j \in 0 .. u - 2 : rxpbufs'[At(get', i)] = rxpbufs'[At(get', j)] => i = j
  <2> SUFFICES ASSUME NEW i \in 0 .. u - 2, NEW j \in 0 .. u - 2,
                      rxpbufs'[At(get', i)] = rxpbufs'[At(get', j)]
               PROVE  i = j
    OBVIOUS
  <2>1. i + 1 = j + 1
    BY <1>1, <1>2, <1>4
  <2> QED
    BY <2>1
<1>8. \A c \in Pbuf :
         c \in heap' \/ c \in stack' \/ c = p'
           \/ \E j \in 0 .. u - 2 : rxpbufs'[At(get', j)] = c
  <2> SUFFICES ASSUME NEW c \in Pbuf, c \notin heap, c \notin stack, c # p'
               PROVE  \E j \in 0 .. u - 2 : rxpbufs'[At(get', j)] = c
    BY <1>1
  <2>1. PICK j \in 0 .. u - 1 : rxpbufs[At(get, j)] = c
    BY <1>2, <1>3
  <2>2. j # 0
    BY <1>1, <2>1
  <2>3. j - 1 \in 0 .. u - 2 /\ (j - 1) + 1 = j
    BY <1>1, <1>3, <2>2
  <2> QED
    BY <1>1, <2>1, <2>3
<1>9. (u - 1) - 1 = u - 2
  BY <1>1, <1>3
<1>10. PbufInv'
  BY <1>1, <1>2, <1>5, <1>6, <1>7, <1>8, <1>9 DEF PbufInv
<1> QED
  BY <1>5, <1>10

LEMMA TaskStep ==
    ASSUME Inv, Task
    PROVE  Inv'
<1> USE DEF Inv
<1>1. isr = "none" /\ UNCHANGED <<handler, pos, stat>>
  BY DEF Task
<1>2. CASE TaskWake \/ TaskSleep \/ InputDry \/ FillStop
  <2>1. UNCHANGED <<ring, p, rxerr, pbufs, dma>>
    BY <1>2 DEF TaskWake, TaskSleep, InputDry, FillStop
  <2>2. RingInv' /\ PbufInv'
    BY <1>1, <2>1, RingSame, PbufSame DEF ring, pbufs
  <2>3. TaskInv'
    BY <1>2, <2>1 DEF TaskWake, TaskSleep, InputDry, FillStop, TaskInv
  <2>4. rxSem' \in BOOLEAN
    BY <1>2 DEF TaskWake, TaskSleep, InputDry, FillStop, TypeOK
  <2>5. rpc' \in {"sleep", "test", "requeue", "fill", "return", "deliver"}
    BY <1>2 DEF TaskWake, TaskSleep, InputDry, FillStop
  <2>6. TypeOK'
    BY <1>1, <2>1, <2>4, <2>5 DEF TypeOK, ring, handler, pbufs
  <2> QED
    BY <2>2, <2>3, <2>6
<1>3. CASE InputGet
  <2>1. p = None
    BY <1>3 DEF InputGet, TaskInv
  <2>2. PbufInv' /\ p' \in Pbuf
    BY <1>1, <1>3, <2>1, GetPbuf DEF InputGet
  <2>3. /\ RingInv' /\ free' \in 1 .. N /\ get' \in Index
        /\ rxpbufs' \in [Index -> Pbuf \union {None}]
    BY <1>1, <1>3, GetRing
  <2>4. N \in Nat /\ None \notin Pbuf /\ get \in Index
    BY EmacRxAssumption DEF TypeOK
  <2>5. rxerr' = bad[get] /\ rpc' = IF bad[get] THEN "requeue" ELSE "fill"
    BY <1>3 DEF InputGet
  <2>6. TaskInv'
    BY <2>2, <2>3, <2>4, <2>5 DEF TaskInv
  <2>7. bad' \in [Index -> BOOLEAN] /\ rxerr' \in BOOLEAN
    BY <1>3 DEF InputGet, TypeOK
  <2>8. UNCHANGED <<own, next, pbufs, dma, rxSem>>
    BY <1>3 DEF InputGet
  <2>9. free' \in 0 .. N
    BY <2>3, <2>4
  <2>10. rpc' \in {"requeue", "fill"}
    BY <2>5
  <2>11. TypeOK'
    BY <1>1, <2>2, <2>3, <2>7, <2>8, <2>9, <2>10 DEF TypeOK, handler, pbufs
  <2> QED
    BY <2>2, <2>3, <2>6, <2>11
<1>4. CASE Requeue
  <2>1. /\ free >= 1 /\ p \in Pbuf /\ Queue(p) /\ p' = None /\ rxerr
        /\ UNCHANGED <<rxerr, heap, stack, dma, rxSem>> /\ rpc' = "return"
    BY <1>4 DEF Requeue, TaskInv, TypeOK
  <2>2. PbufInv'
    BY <1>1, <2>1, QueuePbuf
  <2>3. /\ RingInv' /\ get' = get
        /\ free' \in 0 .. N /\ next' \in Index
        /\ own' \in [Index -> BOOLEAN] /\ bad' \in [Index -> BOOLEAN]
        /\ rxpbufs' \in [Index -> Pbuf \union {None}]
    BY <1>1, <2>1, QueueRing
  <2>4. TaskInv'
    BY <2>1 DEF TaskInv
  <2>5. TypeOK'
    BY <1>1, <2>1, <2>3 DEF TypeOK, handler
  <2> QED
    BY <2>2, <2>3, <2>4, <2>5
<1>5. CASE Fill
  <2>1. PICK b \in heap : Queue(b) /\ heap' = heap \ {b}
    BY <1>5 DEF Fill
  <2>2. /\ rpc = "fill" /\ free >= 1 /\ b \in Pbuf
        /\ UNCHANGED <<rpc, p, rxerr, stack, dma, rxSem>>
    BY <1>5, RingTyped DEF Fill, TypeOK, task
  <2>3. PbufInv'
    BY <1>1, <2>1, <2>2, QueuePbuf
  <2>4. /\ RingInv' /\ get' = get
        /\ free' \in 0 .. N /\ next' \in Index
        /\ own' \in [Index -> BOOLEAN] /\ bad' \in [Index -> BOOLEAN]
        /\ rxpbufs' \in [Index -> Pbuf \union {None}]
    BY <1>1, <2>1, <2>2, QueueRing
  <2>5. TaskInv'
    BY <2>2 DEF TaskInv
  <2>6. TypeOK'
    BY <1>1, <2>1, <2>2, <2>4 DEF TypeOK, handler
  <2> QED
    BY <2>3, <2>4, <2>5, <2>6
<1>6. CASE Return
  <2>1. /\ UNCHANGED <<ring, p, pbufs, rxSem>>
        /\ rpc' = IF rxerr THEN "test" ELSE "deliver"
        /\ rxerr' = FALSE
        /\ dma' \in {dma, "poll"}
    BY <1>6 DEF Return, PollDemand
  <2>2. RingInv' /\ PbufInv'
    BY <1>1, <2>1, RingSame, PbufSame DEF ring, pbufs
  <2>3. TaskInv'
    BY <1>6, <2>1 DEF Return, TaskInv
  <2>4. rpc' \in {"test", "deliver"} /\ rxerr' \in BOOLEAN
    BY <2>1
  <2>5. TypeOK'
    BY <1>1, <2>1, <2>4 DEF TypeOK, ring, handler, pbufs
  <2> QED
    BY <2>2, <2>3, <2>5
<1>7. CASE Deliver
  <2>1. /\ UNCHANGED <<ring, rxerr, dma, rxSem>> /\ p' = None /\ rpc' = "test"
        /\ p \in Pbuf /\ ~rxerr
        /\ \/ stack' = stack \union {p} /\ heap' = heap
           \/ heap' = heap \union {p} /\ stack' = stack
    BY <1>7 DEF Deliver, TaskInv, TypeOK
  <2>2. RingInv'
    BY <1>1, <2>1, RingSame DEF ring
  <2>3. None \notin Pbuf /\ heap \subseteq Pbuf /\ stack \subseteq Pbuf
    BY EmacRxAssumption DEF TypeOK
  <2>4. PbufInv'
    <3>1. Used' = Used /\ get' = get /\ rxpbufs' = rxpbufs
      BY <2>1 DEF Used, ring
    <3>2. heap' \cap stack' = {} /\ p' \notin heap' /\ p' \notin stack'
      BY <2>1, <2>3 DEF PbufInv
    <3>3. \A j \in 0 .. Used - 1 :
             /\ rxpbufs[At(get, j)] \in Pbuf
             /\ rxpbufs[At(get, j)] \notin heap' /\ rxpbufs[At(get, j)] \notin stack'
             /\ rxpbufs[At(get, j)] # p'
      BY <2>1, <2>3 DEF PbufInv
    <3>4. \A b \in Pbuf : b \in heap' \/ b \in stack' \/ b = p'
                            \/ \E j \in 0 .. Used - 1 : rxpbufs[At(get, j)] = b
      BY <2>1 DEF PbufInv
    <3>5. \A i, j \in 0 .. Used - 1 : rxpbufs[At(get, i)] = rxpbufs[At(get, j)] => i = j
      BY DEF PbufInv
    <3> QED
      BY <3>1, <3>2, <3>3, <3>4, <3>5 DEF PbufInv
  <2>5. TaskInv'
    BY <2>1 DEF TaskInv
  <2>6. TypeOK'
    BY <1>1, <2>1, <2>3 DEF TypeOK, ring, handler
  <2> QED
    BY <2>2, <2>4, <2>5, <2>6
<1> QED
  BY <1>2, <1>3, <1>4, <1>5, <1>6, <1>7 DEF Task

LEMMA StackStep ==
    ASSUME Inv, Stack
    PROVE  Inv'
<1> USE DEF Inv
<1>1. PICK b \in Pbuf : StackFree(b)
  BY DEF Stack
<1>2. /\ b \in stack /\ stack' = stack \ {b} /\ heap' = heap \union {b}
      /\ UNCHANGED <<ring, task, handler, engine, rxSem>>
  BY <1>1 DEF StackFree
<1>3. RingInv'
  BY <1>2, RingSame DEF ring, engine
<1>4. PbufInv'
  <2>1. Used' = Used /\ get' = get /\ rxpbufs' = rxpbufs /\ p' = p
    BY <1>2 DEF Used, ring, task
  <2>2. heap' \cap stack' = {} /\ p \notin heap' /\ p \notin stack'
    BY <1>2 DEF PbufInv
  <2>3. \A j \in 0 .. Used - 1 :
           /\ rxpbufs[At(get, j)] \in Pbuf
           /\ rxpbufs[At(get, j)] \notin heap' /\ rxpbufs[At(get, j)] \notin stack'
           /\ rxpbufs[At(get, j)] # p
    BY <1>2 DEF PbufInv
  <2>4. \A c \in Pbuf : c \in heap' \/ c \in stack' \/ c = p
                          \/ \E j \in 0 .. Used - 1 : rxpbufs[At(get, j)] = c
    BY <1>2 DEF PbufInv
  <2>5. \A i, j \in 0 .. Used - 1 : rxpbufs[At(get, i)] = rxpbufs[At(get, j)] => i = j
    BY DEF PbufInv
  <2> QED
    BY <2>1, <2>2, <2>3, <2>4, <2>5 DEF PbufInv
<1>5. TypeOK' /\ TaskInv'
  BY <1>2 DEF TypeOK, TaskInv, ring, task, handler, engine
<1> QED
  BY <1>3, <1>4, <1>5

(***************************************************************************)
(* The ring as lpc_rx_setup leaves it.                                     *)
(***************************************************************************)
LEMMA InjectionExists ==
    ASSUME NEW k \in Nat, k <= Cardinality(Pbuf)
    PROVE  /\ SomeInjection(k) \in [0 .. k - 1 -> Pbuf]
           /\ \A i, j \in 0 .. k - 1 : SomeInjection(k)[i] = SomeInjection(k)[j] => i = j
<1> DEFINE c == Cardinality(Pbuf)
<1>1. c \in Nat /\ ExistsBijection(1 .. c, Pbuf)
  BY EmacRxAssumption, FS_CardinalityType
<1>2. PICK f \in [1 .. c -> Pbuf] : \A i, j \in 1 .. c : f[i] = f[j] => i = j
  <2>1. PICK f \in Bijection(1 .. c, Pbuf) : TRUE
    BY <1>1 DEF ExistsBijection
  <2>2. f \in Injection(1 .. c, Pbuf)
    BY <2>1 DEF Bijection
  <2> QED
    BY <2>2 DEF Injection, IsInjective
<1> HIDE DEF c
<1>3. \A i \in 0 .. k - 1 : i + 1 \in 1 .. c
  BY <1>1 DEF c
<1> DEFINE g == [i \in 0 .. k - 1 |-> f[i + 1]]
<1>4. g \in [0 .. k - 1 -> Pbuf]
  BY <1>2, <1>3
<1>5. \A i, j \in 0 .. k - 1 : g[i] = g[j] => i = j
  <2> SUFFICES ASSUME NEW i \in 0 .. k - 1, NEW j \in 0 .. k - 1, g[i] = g[j]
               PROVE  i = j
    OBVIOUS
  <2>1. f[i + 1] = f[j + 1]
    OBVIOUS
  <2>2. i + 1 = j + 1
    BY <1>2, <1>3, <2>1
  <2> QED
    BY <2>2
<1> HIDE DEF g
<1> QED
  BY <1>4, <1>5, Zenon DEF SomeInjection

LEMMA InitStep ==
    ASSUME Init
    PROVE  Inv /\ RingAt(0)
<1>1. PICK k \in 1 .. N :
        /\ k <= Cardinality(Pbuf)
        /\ own = [i \in Index |-> i < k]
        /\ bad = [i \in Index |-> FALSE]
        /\ rxpbufs = [i \in Index |-> IF i < k THEN SomeInjection(k)[i] ELSE None]
        /\ heap = Pbuf \ {SomeInjection(k)[i] : i \in 0 .. k - 1}
        /\ stack = {}
        /\ free = N - k /\ get = 0 /\ next = k % N
        /\ rxSem = FALSE
        /\ rpc = "sleep" /\ p = None /\ rxerr = FALSE
        /\ isr = "none" /\ ints = {}
        /\ dma = "run" /\ pos = 0 /\ stat = {}
  BY Zenon DEF Init
<1> DEFINE first == SomeInjection(k)
<1>2. /\ first \in [0 .. k - 1 -> Pbuf]
      /\ \A i, j \in 0 .. k - 1 : first[i] = first[j] => i = j
  <2>1. k \in Nat
    BY EmacRxAssumption
  <2>2. k <= Cardinality(Pbuf)
    BY <1>1
  <2> QED
    BY <2>1, <2>2, InjectionExists
<1> HIDE DEF first
<1>3. /\ rxpbufs = [i \in Index |-> IF i < k THEN first[i] ELSE None]
      /\ heap = Pbuf \ {first[i] : i \in 0 .. k - 1}
  BY <1>1 DEF first
<1>4. /\ N \in Nat /\ N >= 3 /\ k \in 1 .. N /\ None \notin Pbuf
      /\ Used = k /\ free \in 0 .. N /\ 0 \in Index /\ 0 .. k - 1 \subseteq Index
  BY <1>1, EmacRxAssumption DEF Used, Index
<1>5. \A j \in 0 .. k - 1 : At(get, j) = j
  BY <1>1, <1>4, AtValue
<1>6. next = At(get, k) /\ pos = At(get, 0) /\ next \in Index
  BY <1>1, <1>4, AtValue DEF At
<1>7. TypeOK
  <2>1. own \in [Index -> BOOLEAN]
    <3>1. \A i \in Index : (i < k) \in BOOLEAN
      OBVIOUS
    <3> QED
      BY <1>1, <3>1, Zenon
  <2>2. bad \in [Index -> BOOLEAN]
    BY <1>1
  <2>3. rxpbufs \in [Index -> Pbuf \union {None}]
    BY <1>2, <1>3, <1>4 DEF Index
  <2>4. heap \subseteq Pbuf /\ stack \subseteq Pbuf
    BY <1>1, <1>3
  <2> QED
    BY <1>1, <1>4, <1>6, <2>1, <2>2, <2>3, <2>4 DEF TypeOK
<1>8. RingAt(0)
  <2>1. \A j \in 0 .. k - 1 : own[At(get, j)] <=> j >= 0
    <3> SUFFICES ASSUME NEW j \in 0 .. k - 1
                 PROVE  own[At(get, j)] <=> j >= 0
      OBVIOUS
    <3>1. At(get, j) = j /\ j \in Index /\ j < k /\ j >= 0
      BY <1>4, <1>5
    <3>2. own[j] = (j < k)
      BY <1>1, <3>1
    <3> QED
      BY <3>1, <3>2
  <2>2. \A i \in Index : own[i] => \E j \in 0 .. k - 1 : i = At(get, j)
    <3> SUFFICES ASSUME NEW i \in Index, own[i]
                 PROVE  \E j \in 0 .. k - 1 : i = At(get, j)
      OBVIOUS
    <3>1. own[i] = (i < k)
      BY <1>1
    <3>2. i \in 0 .. k - 1
      <4>1. i < k
        BY <3>1
      <4> QED
        BY <1>4, <4>1 DEF Index
    <3> QED
      BY <1>5, <3>2
  <2> QED
    BY <1>4, <1>6, <2>1, <2>2 DEF RingAt
<1>9. \A j \in 0 .. k - 1 : rxpbufs[At(get, j)] = first[j]
  BY <1>3, <1>4, <1>5
<1>10. PbufInv
  <2>1. heap \cap stack = {} /\ p \notin heap /\ p \notin stack
    BY <1>1, <1>3, <1>4
  <2>2. \A j \in 0 .. k - 1 : /\ rxpbufs[At(get, j)] \in Pbuf
                              /\ rxpbufs[At(get, j)] \notin heap
                              /\ rxpbufs[At(get, j)] \notin stack
                              /\ rxpbufs[At(get, j)] # p
    <3> SUFFICES ASSUME NEW j \in 0 .. k - 1
                 PROVE  /\ rxpbufs[At(get, j)] \in Pbuf
                        /\ rxpbufs[At(get, j)] \notin heap
                        /\ rxpbufs[At(get, j)] \notin stack
                        /\ rxpbufs[At(get, j)] # p
      OBVIOUS
    <3>1. first[j] \in Pbuf /\ first[j] # None /\ first[j] \notin heap
      BY <1>2, <1>3, <1>4
    <3> QED
      BY <1>1, <1>9, <3>1
  <2>3. \A i, j \in 0 .. k - 1 : rxpbufs[At(get, i)] = rxpbufs[At(get, j)] => i = j
    BY <1>2, <1>9
  <2>4. \A b \in Pbuf : b \in heap \/ b \in stack \/ b = p
                          \/ \E j \in 0 .. k - 1 : rxpbufs[At(get, j)] = b
    BY <1>3, <1>9
  <2> QED
    BY <1>4, <2>1, <2>2, <2>3, <2>4 DEF PbufInv
<1>11. TaskInv
  BY <1>1 DEF TaskInv
<1>12. RingInv
  BY <1>4, <1>8 DEF RingInv
<1> QED
  BY <1>7, <1>8, <1>10, <1>11, <1>12 DEF Inv

(* The inductive invariant holds in every state of every behaviour.        *)
THEOREM Invariant == Spec => []Inv
<1>1. Init => Inv
  BY InitStep
<1>2. Inv /\ [Next]_vars => Inv'
  <2> SUFFICES ASSUME Inv, [Next]_vars
               PROVE  Inv'
    OBVIOUS
  <2>1. CASE Next
    BY <2>1, EngineStep, HandlerStep, TaskStep, StackStep DEF Next
  <2>2. CASE UNCHANGED vars
    <3>1. RingInv'
      BY <2>2, RingSame DEF Inv, vars, ring, engine
    <3>2. PbufInv'
      BY <2>2, PbufSame DEF Inv, vars, ring, pbufs, task
    <3>3. TypeOK' /\ TaskInv'
      BY <2>2 DEF Inv, TypeOK, TaskInv, vars, ring, task, handler, pbufs, engine
    <3> QED
      BY <3>1, <3>2, <3>3 DEF Inv
  <2> QED
    BY <2>1, <2>2
<1> QED
  BY <1>1, <1>2, PTL DEF Spec

(* Type correctness: the indices stay in the ring and the count of free    *)
(* descriptors neither underflows nor exceeds the size of the ring         *)
(* (lpc18xx_43xx_emac.c:140-172, 288-305).                                 *)
THEOREM TypeCorrect == Spec => []TypeOK
  BY Invariant, PTL DEF Inv

(***************************************************************************)
(* The invariant implies what the driver promises of its ring.             *)
(***************************************************************************)
LEMMA InUseAt ==
    ASSUME TypeOK
    PROVE  /\ InUse = {At(get, j) : j \in 0 .. Used - 1}
           /\ \A j : Slot(j) = At(get, j)
  BY DEF InUse, Slot, At, Used

LEMMA CountClosed ==
    ASSUME NEW g \in Index, NEW u \in 0 .. N, NEW k \in 0 .. u, NEW o,
           \A j \in 0 .. u - 1 : o[At(g, j)] <=> j >= k
    PROVE  Cardinality({i \in {At(g, j) : j \in 0 .. u - 1} : ~o[i]}) = k
<1> DEFINE C == {i \in {At(g, j) : j \in 0 .. u - 1} : ~o[i]}
           f == [j \in 0 .. k - 1 |-> At(g, j)]
<1>1. N \in Nat /\ k \in Nat
  BY EmacRxAssumption
<1>2. \A j \in 0 .. k - 1 : At(g, j) \in C
  <2> SUFFICES ASSUME NEW j \in 0 .. k - 1
               PROVE  At(g, j) \in C
    OBVIOUS
  <2>1. j \in 0 .. u - 1 /\ ~(j >= k)
    BY <1>1
  <2> QED
    BY <2>1
<1>3. \A i \in C : \E j \in 0 .. k - 1 : i = At(g, j)
  <2> SUFFICES ASSUME NEW i \in C
               PROVE  \E j \in 0 .. k - 1 : i = At(g, j)
    OBVIOUS
  <2>1. PICK j \in 0 .. u - 1 : i = At(g, j)
    OBVIOUS
  <2>2. ~(j >= k)
    BY <2>1
  <2>3. j \in 0 .. k - 1
    BY <1>1, <2>2
  <2> QED
    BY <2>1, <2>3
<1>4. \A i, j \in 0 .. k - 1 : At(g, i) = At(g, j) => i = j
  <2> SUFFICES ASSUME NEW i \in 0 .. k - 1, NEW j \in 0 .. k - 1, At(g, i) = At(g, j)
               PROVE  i = j
    OBVIOUS
  <2>1. i \in 0 .. N - 1 /\ j \in 0 .. N - 1
    BY <1>1
  <2> QED
    BY <2>1, AtApart
<1> HIDE DEF C
<1>5. f \in [0 .. k - 1 -> C] /\ \A j \in 0 .. k - 1 : f[j] = At(g, j)
  BY <1>2
<1> HIDE DEF f
<1>6. f \in Bijection(0 .. k - 1, C)
  <2>1. \A i, j \in 0 .. k - 1 : f[i] = f[j] => i = j
    BY <1>4, <1>5
  <2>2. \A i \in C : \E j \in 0 .. k - 1 : f[j] = i
    BY <1>3, <1>5
  <2> QED
    <3>1. f \in Injection(0 .. k - 1, C)
      BY <1>5, <2>1 DEF Injection, IsInjective
    <3>2. f \in Surjection(0 .. k - 1, C)
      BY <1>5, <2>2 DEF Surjection
    <3> QED
      BY <3>1, <3>2 DEF Bijection
<1>7. IsFiniteSet(0 .. k - 1) /\ Cardinality(0 .. k - 1) = k
  BY <1>1, FS_Interval
<1>8. ExistsBijection(0 .. k - 1, C)
  BY <1>6 DEF ExistsBijection
<1>9. Cardinality(C) = k
  BY <1>7, <1>8, FS_Bijection
<1> QED
  BY <1>9 DEF C

LEMMA ClosedIs ==
    ASSUME TypeOK, NEW k \in 0 .. N, RingAt(k)
    PROVE  ClosedCount = k
<1>1. /\ k \in 0 .. Used /\ Used \in 0 .. N /\ get \in Index
      /\ \A j \in 0 .. Used - 1 : own[At(get, j)] <=> j >= k
  BY RingTyped DEF RingAt
<1> QED
  BY <1>1, CountClosed, InUseAt DEF ClosedCount

(* The engine has closed the oldest descriptors in use and owns exactly    *)
(* the others, whatever the size of the ring and whenever memory was short *)
(* (lpc18xx_43xx_emac.c:140-172, 288-305).                                 *)
THEOREM RingCorrect == Spec => []RingConsistent
<1>1. Inv => RingConsistent
  <2> SUFFICES ASSUME Inv
               PROVE  RingConsistent
    OBVIOUS
  <2>1. PICK k \in 0 .. N : RingAt(k)
    BY DEF Inv, RingInv
  <2>2. ClosedCount = k
    BY <2>1, ClosedIs DEF Inv
  <2>3. /\ InUse = {At(get, j) : j \in 0 .. Used - 1}
        /\ \A j : Slot(j) = At(get, j)
    BY InUseAt DEF Inv
  <2>4. \A i \in Index \ InUse : ~own[i]
    BY <2>1, <2>3 DEF RingAt
  <2>5. /\ Slot(N - free) = next /\ pos = Slot(k)
        /\ \A j \in 0 .. N - free - 1 : own[Slot(j)] <=> j >= k
    BY <2>1, <2>3 DEF RingAt, Used
  <2> QED
    BY <2>2, <2>4, <2>5 DEF RingConsistent
<1> QED
  BY <1>1, Invariant, PTL

(* A pbuf that a descriptor in use has is in no other one.                 *)
LEMMA HolderCount ==
    ASSUME Inv, NEW b \in Pbuf
    PROVE  LET H == {i \in InUse : rxpbufs[i] = b}
           IN  IF b \in heap \/ b \in stack \/ b = p
               THEN Cardinality(H) = 0 ELSE Cardinality(H) = 1
<1> DEFINE H == {i \in InUse : rxpbufs[i] = b}
<1>1. InUse = {At(get, j) : j \in 0 .. Used - 1}
  BY InUseAt DEF Inv
<1>2. CASE b \in heap \/ b \in stack \/ b = p
  <2>1. H = {}
    BY <1>1, <1>2 DEF Inv, PbufInv
  <2> QED
    BY <1>2, <2>1, FS_EmptySet
<1>3. CASE ~(b \in heap \/ b \in stack \/ b = p)
  <2>1. PICK j \in 0 .. Used - 1 : rxpbufs[At(get, j)] = b
    BY <1>3 DEF Inv, PbufInv
  <2>2. \A i \in 0 .. Used - 1 : rxpbufs[At(get, i)] = b => i = j
    BY <2>1 DEF Inv, PbufInv
  <2>3. H = {At(get, j)}
    BY <1>1, <2>1, <2>2
  <2>4. Cardinality(H) = 1
    BY <2>3, FS_Singleton
  <2> QED
    BY <1>3, <2>4
<1> QED
  BY <1>2, <1>3

(* No pbuf is lost and none has two owners, whatever the size of the ring  *)
(* and the number of pbufs (lpc18xx_43xx_emac.c:250-318, 660-684).         *)
THEOREM OwnershipCorrect == Spec => []PbufOwnedOnce
<1>1. Inv => PbufOwnedOnce
  <2> SUFFICES ASSUME Inv
               PROVE  PbufOwnedOnce
    OBVIOUS
  <2>1. \A i \in InUse : rxpbufs[i] \in Pbuf
    BY InUseAt DEF Inv, PbufInv
  <2>2. ASSUME NEW b \in Pbuf
        PROVE  (IF b \in heap THEN 1 ELSE 0) + (IF b \in stack THEN 1 ELSE 0)
                 + (IF b = p THEN 1 ELSE 0)
                 + Cardinality({i \in InUse : rxpbufs[i] = b}) = 1
    <3> DEFINE c == Cardinality({i \in InUse : rxpbufs[i] = b})
    <3>1. IF b \in heap \/ b \in stack \/ b = p THEN c = 0 ELSE c = 1
      BY HolderCount
    <3>2. /\ ~(b \in heap /\ b \in stack)
          /\ b = p => b \notin heap /\ b \notin stack
      BY DEF Inv, PbufInv
    <3> HIDE DEF c
    <3>3. (IF b \in heap THEN 1 ELSE 0) + (IF b \in stack THEN 1 ELSE 0)
            + (IF b = p THEN 1 ELSE 0) + c = 1
      BY <3>1, <3>2
    <3> QED
      BY <3>3 DEF c
  <2> QED
    BY <2>1, <2>2 DEF PbufOwnedOnce
<1> QED
  BY <1>1, Invariant, PTL

(***************************************************************************)
(* The refinement.  The frames with the task (w of them, in pbuf q) and in *)
(* the first k descriptors in use.                                         *)
(***************************************************************************)
FrameAt(rx, bd, g, j) == [buf |-> rx[At(g, j)], bad |-> bd[At(g, j)]]
FramesOf(w, q, k, rx, bd, g) ==
    [j \in 1 .. w + k |->
        IF j <= w THEN [buf |-> q, bad |-> FALSE] ELSE FrameAt(rx, bd, g, j - w - 1)]
Frame == Delivery!Frame

ReceivedIs == TypeOK => \A k \in 0 .. N : RingAt(k) =>
    Received = FramesOf(WithTask, p, k, rxpbufs, bad, get)

LEMMA ReceivedHere == ReceivedIs
<1> SUFFICES ASSUME TypeOK, NEW k \in 0 .. N, RingAt(k)
             PROVE  Received = FramesOf(WithTask, p, k, rxpbufs, bad, get)
  BY DEF ReceivedIs
<1>1. ClosedCount = k
  BY ClosedIs
<1> QED
  BY <1>1 DEF Received, FramesOf, FrameAt, Slot, At

LEMMA ReceivedNext == ReceivedIs'
  BY ReceivedHere, PTL


(* What the frames are when Inv says so.                                   *)
LEMMA ReceivedTyped ==
    ASSUME Inv, NEW k \in 0 .. N, RingAt(k)
    PROVE  /\ Received = FramesOf(WithTask, p, k, rxpbufs, bad, get)
           /\ Received \in Seq(Frame) /\ Len(Received) = WithTask + k
           /\ \A j \in 1 .. WithTask + k : Received[j] =
                 IF j <= WithTask THEN [buf |-> p, bad |-> FALSE]
                 ELSE FrameAt(rxpbufs, bad, get, j - WithTask - 1)
           /\ WithTask \in {0, 1} /\ k <= Used /\ k \in Nat
           /\ \A j \in 0 .. k - 1 : j \in 0 .. Used - 1 /\ rxpbufs[At(get, j)] \in Pbuf
<1>1. Received = FramesOf(WithTask, p, k, rxpbufs, bad, get)
  BY ReceivedHere DEF ReceivedIs, Inv
<1>2. WithTask \in {0, 1} /\ (WithTask = 1 => p \in Pbuf)
  BY DEF WithTask, Inv, TypeOK
<1>3. k <= Used /\ k \in Nat /\ Used \in 0 .. N /\ N \in Nat
  BY RingTyped DEF RingAt, Inv
<1>4. \A j \in 0 .. k - 1 : j \in 0 .. Used - 1
  BY <1>3
<1>5. \A j \in 0 .. k - 1 : rxpbufs[At(get, j)] \in Pbuf
  BY <1>4 DEF Inv, PbufInv
<1>6. get \in Index /\ bad \in [Index -> BOOLEAN]
  BY DEF Inv, TypeOK
<1>7. /\ Received \in Seq(Frame) /\ Len(Received) = WithTask + k
      /\ \A j \in 1 .. WithTask + k : Received[j] =
            IF j <= WithTask THEN [buf |-> p, bad |-> FALSE]
            ELSE FrameAt(rxpbufs, bad, get, j - WithTask - 1)
  <2>0. PICK w \in {0, 1} : w = WithTask
    BY <1>2
  <2>1. w + k \in Nat /\ k \in Nat /\ N \in Nat /\ w \in Nat
    BY EmacRxAssumption
  <2>2. /\ Received = [j \in 1 .. w + k |-> Received[j]]
        /\ \A j \in 1 .. w + k :
             Received[j] = IF j <= w THEN [buf |-> p, bad |-> FALSE]
                           ELSE FrameAt(rxpbufs, bad, get, j - w - 1)
    BY <1>1, <2>0 DEF FramesOf
  <2>3. \A j \in 1 .. w + k : Received[j] \in Frame
    <3>1. SUFFICES ASSUME NEW j \in 1 .. w + k PROVE Received[j] \in Frame
      OBVIOUS
    <3>2. CASE j <= w
      <4>1. w = 1 /\ Received[j] = [buf |-> p, bad |-> FALSE]
        BY <2>2, <3>1, <3>2
      <4> QED
        BY <1>2, <2>0, <4>1 DEF Frame, Delivery!Frame
    <3>3. CASE ~(j <= w)
      <4>1. j - w - 1 \in 0 .. k - 1 /\ j - w - 1 \in 0 .. N
        BY <2>1, <3>3
      <4>2. At(get, j - w - 1) \in Index
        BY <1>6, <4>1, AtValue
      <4>3. rxpbufs[At(get, j - w - 1)] \in Pbuf /\ bad[At(get, j - w - 1)] \in BOOLEAN
        BY <1>5, <1>6, <4>1, <4>2
      <4>4. Received[j] = FrameAt(rxpbufs, bad, get, j - w - 1)
        BY <2>2, <3>3
      <4> QED
        BY <4>3, <4>4 DEF FrameAt, Frame, Delivery!Frame
    <3> QED
      BY <3>2, <3>3
  <2>4. Received \in Seq(Frame) /\ Len(Received) = w + k
    <3>1. Received \in [1 .. w + k -> Frame]
      BY <2>2, <2>3
    <3> QED
      BY <2>1, <3>1
  <2> QED
    BY <2>0, <2>2, <2>4
<1> QED
  BY <1>1, <1>2, <1>3, <1>4, <1>5, <1>7

(* A sequence with one more element at its end, or one less at its front.  *)
LEMMA AppendIs ==
    ASSUME NEW S, NEW s \in Seq(S), NEW f \in S, NEW n \in Nat, Len(s) = n,
           NEW t, t = [j \in 1 .. n + 1 |-> t[j]],
           \A j \in 1 .. n : t[j] = s[j], t[n + 1] = f
    PROVE  t = Append(s, f)
<1> DEFINE u == Append(s, f)
<1>1. /\ u \in Seq(S) /\ Len(u) = n + 1
      /\ \A j \in 1 .. n : u[j] = s[j]
      /\ u[n + 1] = f
  BY AppendProperties
<1>2. \A j \in 1 .. n : s[j] \in S
  BY ElementOfSeq
<1> HIDE DEF u
<1>3. \A j \in 1 .. n + 1 : j \in 1 .. n \/ j = n + 1
  OBVIOUS
<1>4. \A j \in 1 .. n + 1 : t[j] = u[j] /\ t[j] \in S
  BY <1>1, <1>2, <1>3
<1>5. t \in Seq(S) /\ Len(t) = n + 1
  <2>1. t \in [1 .. n + 1 -> S]
    BY <1>4
  <2> QED
    BY <2>1
<1>6. t = u
  BY <1>1, <1>4, <1>5, SeqEqual
<1> QED
  BY <1>6 DEF u

LEMMA TailIs ==
    ASSUME NEW S, NEW s \in Seq(S), NEW n \in Nat, Len(s) = n + 1,
           NEW t, t = [j \in 1 .. n |-> t[j]], \A j \in 1 .. n : t[j] = s[j + 1]
    PROVE  s # <<>> /\ Head(s) = s[1] /\ t = Tail(s)
<1> DEFINE u == Tail(s)
<1>1. s # <<>> /\ Head(s) = s[1]
  OBVIOUS
<1>2. u \in Seq(S) /\ Len(u) = n /\ \A j \in 1 .. n : u[j] = s[j + 1]
  BY <1>1, HeadTailProperties
<1>3. \A j \in 1 .. n : u[j] \in S
  BY <1>2, ElementOfSeq
<1> HIDE DEF u
<1>4. t \in Seq(S) /\ Len(t) = n
  <2>1. t \in [1 .. n -> S]
    BY <1>2, <1>3
  <2> QED
    BY <2>1
<1>5. t = u
  BY <1>2, <1>4, SeqEqual
<1> QED
  BY <1>1, <1>5 DEF u

(* The frames after a step, element by element.                            *)
LEMMA ReceivedAfter ==
    ASSUME Inv', NEW k \in 0 .. N, RingAt(k)', NEW w \in {0, 1}, WithTask' = w
    PROVE  /\ Received' = [j \in 1 .. w + k |-> Received'[j]]
           /\ \A j \in 1 .. w + k : Received'[j] =
                 IF j <= w THEN [buf |-> p', bad |-> FALSE]
                 ELSE [buf |-> rxpbufs'[At(get', j - w - 1)],
                       bad |-> bad'[At(get', j - w - 1)]]
  BY ReceivedNext DEF ReceivedIs, FramesOf, FrameAt, Inv

(* A step that leaves the task's frame and the closed descriptors alone.   *)
LEMMA ReceivedSame ==
    ASSUME Inv, Inv', NEW k \in 0 .. N, RingAt(k), RingAt(k)', get' = get,
           WithTask' = WithTask, WithTask = 1 => p' = p,
           \A j \in 0 .. k - 1 : /\ rxpbufs'[At(get, j)] = rxpbufs[At(get, j)]
                                 /\ bad'[At(get, j)] = bad[At(get, j)]
    PROVE  Received' = Received
<1>1. PICK w \in {0, 1} : w = WithTask
  BY ReceivedTyped
<1>2. /\ Received' = [j \in 1 .. w + k |-> Received'[j]]
      /\ \A j \in 1 .. w + k : Received'[j] =
            IF j <= w THEN [buf |-> p', bad |-> FALSE]
            ELSE [buf |-> rxpbufs'[At(get, j - w - 1)], bad |-> bad'[At(get, j - w - 1)]]
  BY <1>1, ReceivedAfter
<1>3. /\ Received \in Seq(Frame) /\ Len(Received) = w + k
      /\ \A j \in 1 .. w + k : Received[j] =
            IF j <= w THEN [buf |-> p, bad |-> FALSE]
            ELSE FrameAt(rxpbufs, bad, get, j - w - 1)
  BY <1>1, ReceivedTyped
<1>4. Received = [j \in 1 .. w + k |-> Received[j]]
  BY <1>3
<1>5. \A j \in 1 .. w + k : Received'[j] = Received[j]
  <2> SUFFICES ASSUME NEW j \in 1 .. w + k
               PROVE  Received'[j] = Received[j]
    OBVIOUS
  <2>1. CASE j <= w
    <3>1. w = 1
      BY <2>1
    <3> QED
      BY <1>1, <1>2, <1>3, <2>1, <3>1
  <2>2. CASE ~(j <= w)
    <3>1. j - w - 1 \in 0 .. k - 1
      BY <2>2
    <3> QED
      BY <1>2, <1>3, <2>2, <3>1 DEF FrameAt
  <2> QED
    BY <2>1, <2>2
<1> QED
  BY <1>2, <1>4, <1>5

(***************************************************************************)
(* What each step is to FrameDelivery.                                     *)
(***************************************************************************)
Hand == IF rpc = "deliver" THEN p ELSE None
DeliveryStep == [Delivery!DeliveryNext]_(Delivery!fvars)

LEMMA Stutters ==
    ASSUME Received' = Received, Hand' = Hand
    PROVE  DeliveryStep
  BY DEF DeliveryStep, Delivery!fvars, Hand

(* The engine closes a descriptor: a frame arrives.                        *)
LEMMA ReceiveStep ==
    ASSUME Inv, Inv', NEW e \in BOOLEAN, DmaReceive(e)
    PROVE  DeliveryStep
<1>1. PICK k \in 0 .. Used - 1 : pos = At(get, k) /\ RingAt(k) /\ RingAt(k + 1)'
  BY ReceiveRing DEF Inv
<1>2. /\ bad' = [bad EXCEPT ![pos] = e]
      /\ rxpbufs' = rxpbufs /\ get' = get /\ p' = p /\ rpc' = rpc /\ rxerr' = rxerr
  BY DEF DmaReceive, task
<1>3. /\ N \in Nat /\ Used \in 0 .. N /\ k \in Nat /\ k \in 0 .. N /\ k + 1 \in 0 .. N
      /\ get \in Index /\ bad \in [Index -> BOOLEAN]
  BY RingTyped DEF Inv, TypeOK
<1>4. PICK w \in {0, 1} : w = WithTask /\ w = WithTask'
  BY <1>2 DEF WithTask
<1>5. PICK n \in Nat : n = w + k
  BY <1>3
<1>6. /\ Received \in Seq(Frame) /\ Len(Received) = n
      /\ \A j \in 1 .. n : Received[j] =
            IF j <= w THEN [buf |-> p, bad |-> FALSE]
            ELSE FrameAt(rxpbufs, bad, get, j - w - 1)
  BY <1>1, <1>3, <1>4, <1>5, ReceivedTyped
<1>7. /\ Received' = [j \in 1 .. n + 1 |-> Received'[j]]
      /\ \A j \in 1 .. n + 1 : Received'[j] =
            IF j <= w THEN [buf |-> p, bad |-> FALSE]
            ELSE [buf |-> rxpbufs[At(get, j - w - 1)], bad |-> bad'[At(get, j - w - 1)]]
  <2>1. w + (k + 1) = n + 1
    BY <1>3, <1>5
  <2>2. /\ Received' = [j \in 1 .. w + (k + 1) |-> Received'[j]]
        /\ \A j \in 1 .. w + (k + 1) : Received'[j] =
              IF j <= w THEN [buf |-> p', bad |-> FALSE]
              ELSE [buf |-> rxpbufs'[At(get', j - w - 1)], bad |-> bad'[At(get', j - w - 1)]]
    BY <1>1, <1>3, <1>4, ReceivedAfter
  <2> QED
    BY <1>2, <2>1, <2>2
<1> DEFINE b == rxpbufs[At(get, k)]
<1>8. PICK f : f = [buf |-> b, bad |-> e]
  OBVIOUS
<1>9. At(get, k) \in Index /\ b \in Pbuf /\ b # p /\ b # None
  BY <1>1, <1>3, AtValue, EmacRxAssumption DEF Inv, PbufInv
<1>10. f \in Frame
  BY <1>8, <1>9 DEF Frame, Delivery!Frame
<1>11. \A j \in 1 .. n : ~(j <= w) => j - w - 1 \in 0 .. Used - 1 /\ j - w - 1 # k
  BY <1>3, <1>5
<1>12. \A j \in 1 .. n : Received'[j] = Received[j]
  <2> SUFFICES ASSUME NEW j \in 1 .. n
               PROVE  Received'[j] = Received[j]
    OBVIOUS
  <2>0. j \in 1 .. n + 1
    BY <1>5
  <2>1. CASE j <= w
    BY <1>6, <1>7, <2>0, <2>1
  <2>2. CASE ~(j <= w)
    <3>1. PICK i \in 0 .. Used - 1 : i = j - w - 1 /\ i # k
      BY <1>11, <2>2
    <3>2. i \in 0 .. N - 1 /\ i \in 0 .. N /\ k \in 0 .. N - 1
      BY <1>3
    <3>3. At(get, i) \in Index /\ At(get, i) # pos
      BY <1>1, <1>3, <3>1, <3>2, AtValue, AtApart
    <3>4. bad'[At(get, i)] = bad[At(get, i)]
      BY <1>2, <1>3, <3>3
    <3> QED
      BY <1>6, <1>7, <2>0, <2>2, <3>1, <3>4 DEF FrameAt
  <2> QED
    BY <2>1, <2>2
<1>13. Received'[n + 1] = f
  <2>1. n + 1 \in 1 .. n + 1 /\ ~(n + 1 <= w) /\ (n + 1) - w - 1 = k
    BY <1>3, <1>5
  <2>2. bad'[At(get, k)] = e
    BY <1>1, <1>2, <1>3, <1>9
  <2> QED
    BY <1>7, <1>8, <2>1, <2>2
<1>14. Received' = Append(Received, f)
  BY <1>6, <1>7, <1>10, <1>12, <1>13, AppendIs
<1>15. \A j \in 1 .. n : Received[j].buf # f.buf
  <2> SUFFICES ASSUME NEW j \in 1 .. n
               PROVE  Received[j].buf # b
    BY <1>8
  <2>1. CASE j <= w
    BY <1>6, <1>9, <2>1
  <2>2. CASE ~(j <= w)
    <3>1. PICK i \in 0 .. Used - 1 : i = j - w - 1 /\ i # k
      BY <1>11, <2>2
    <3>2. rxpbufs[At(get, i)] # b
      BY <1>1, <3>1 DEF Inv, PbufInv
    <3> QED
      BY <1>6, <2>2, <3>1, <3>2 DEF FrameAt
  <2> QED
    BY <2>1, <2>2
<1>16. Len(Received) < N + 1
  BY <1>3, <1>5, <1>6
<1>17. Hand # f.buf /\ Hand' = Hand
  BY <1>2, <1>8, <1>9 DEF Hand
<1> HIDE DEF b
<1>18. Delivery!Arrive(f)
  BY <1>6, <1>14, <1>15, <1>16, <1>17 DEF Delivery!Arrive, Hand
<1> QED
  BY <1>10, <1>18 DEF DeliveryStep, Delivery!DeliveryNext, Frame

(* The task takes a descriptor: a good frame stays the first of those that *)
(* wait, a bad one is dropped.                                             *)
LEMMA GetStep ==
    ASSUME Inv, Inv', InputGet, UNCHANGED pos
    PROVE  DeliveryStep
<1>1. PICK k \in 1 .. N : RingAt(k) /\ RingAt(k - 1)'
  BY GetRing DEF Inv
<1>2. /\ \A j \in 0 .. Used - 2 : /\ bad'[At(get', j)] = bad[At(get, j + 1)]
                                  /\ rxpbufs'[At(get', j)] = rxpbufs[At(get, j + 1)]
      /\ Used >= 1 /\ p' = rxpbufs[At(get, 0)]
  BY GetRing DEF Inv
<1>3. /\ N \in Nat /\ Used \in 0 .. N /\ k \in Nat /\ k - 1 \in Nat /\ k \in 0 .. N
      /\ k - 1 \in 0 .. N /\ k <= Used /\ get \in Index
  BY <1>1, RingTyped DEF Inv, RingAt
<1>4. At(get, 0) = get
  BY <1>3, AtNext
<1>5. /\ rpc = "test" /\ p = None /\ rxerr' = bad[get]
      /\ rpc' = IF bad[get] THEN "requeue" ELSE "fill"
  BY DEF InputGet, Inv, TaskInv
<1>6. p' \in Pbuf /\ p' # None
  <2>1. 0 \in 0 .. Used - 1
    BY <1>2, <1>3
  <2> QED
    BY <1>2, <2>1, EmacRxAssumption DEF Inv, PbufInv
<1>7. WithTask = 0
  BY <1>5 DEF WithTask
<1>8. /\ Received \in Seq(Frame) /\ Len(Received) = k
      /\ \A j \in 1 .. k : Received[j] = FrameAt(rxpbufs, bad, get, j - 1)
  <2>1. /\ Received \in Seq(Frame) /\ Len(Received) = 0 + k
        /\ \A j \in 1 .. 0 + k : Received[j] =
              IF j <= 0 THEN [buf |-> p, bad |-> FALSE]
              ELSE FrameAt(rxpbufs, bad, get, j - 0 - 1)
    BY <1>1, <1>3, <1>7, ReceivedTyped
  <2>2. 0 + k = k /\ \A j \in 1 .. k : ~(j <= 0) /\ j - 0 - 1 = j - 1
    BY <1>3
  <2> QED
    BY <2>1, <2>2
<1>9. Hand' = None /\ Hand = None
  BY <1>5 DEF Hand
<1>10. \A j \in 0 .. k - 2 :
          [buf |-> rxpbufs'[At(get', j)], bad |-> bad'[At(get', j)]]
          = FrameAt(rxpbufs, bad, get, j + 1)
  <2> SUFFICES ASSUME NEW j \in 0 .. k - 2
               PROVE  /\ rxpbufs'[At(get', j)] = rxpbufs[At(get, j + 1)]
                      /\ bad'[At(get', j)] = bad[At(get, j + 1)]
    BY DEF FrameAt
  <2>1. j \in 0 .. Used - 2
    BY <1>3
  <2> QED
    BY <1>2, <2>1
<1>11. CASE bad[get]
  <2>1. WithTask' = 0
    BY <1>5, <1>11 DEF WithTask
  <2>2. /\ Received' = [j \in 1 .. 0 + (k - 1) |-> Received'[j]]
        /\ \A j \in 1 .. 0 + (k - 1) : Received'[j] =
              IF j <= 0 THEN [buf |-> p', bad |-> FALSE]
              ELSE [buf |-> rxpbufs'[At(get', j - 0 - 1)],
                    bad |-> bad'[At(get', j - 0 - 1)]]
    BY <1>1, <1>3, <2>1, ReceivedAfter
  <2>3. PICK n \in Nat : n = k - 1
    BY <1>3
  <2>4. /\ 0 + (k - 1) = n /\ k = n + 1
        /\ \A j \in 1 .. n : /\ ~(j <= 0) /\ j - 0 - 1 = j - 1 /\ j - 1 \in 0 .. k - 2
                             /\ j + 1 \in 1 .. k /\ (j + 1) - 1 = j /\ (j - 1) + 1 = j
    BY <1>3, <2>3
  <2>5. Received' = [j \in 1 .. n |-> Received'[j]]
    BY <2>2, <2>4
  <2>6. \A j \in 1 .. n : Received'[j] = Received[j + 1]
    <3> SUFFICES ASSUME NEW j \in 1 .. n
                 PROVE  Received'[j] = Received[j + 1]
      OBVIOUS
    <3>1. Received'[j] = [buf |-> rxpbufs'[At(get', j - 1)], bad |-> bad'[At(get', j - 1)]]
      BY <2>2, <2>4
    <3>2. Received'[j] = FrameAt(rxpbufs, bad, get, j)
      BY <1>10, <2>4, <3>1
    <3>3. Received[j + 1] = FrameAt(rxpbufs, bad, get, j)
      BY <1>8, <2>4
    <3> QED
      BY <3>2, <3>3
  <2>7. /\ Received # <<>> /\ Head(Received) = Received[1]
        /\ Received' = Tail(Received)
    BY <1>8, <2>4, <2>5, <2>6, TailIs
  <2>8. Received[1].bad
    <3>1. 1 \in 1 .. k /\ 1 - 1 = 0
      BY <1>3
    <3>2. Received[1] = FrameAt(rxpbufs, bad, get, 0)
      BY <1>8, <3>1
    <3> QED
      BY <1>4, <1>11, <3>2 DEF FrameAt
  <2>9. Delivery!Drop
    BY <1>9, <2>7, <2>8 DEF Delivery!Drop, Hand
  <2> QED
    BY <2>9 DEF DeliveryStep, Delivery!DeliveryNext
<1>12. CASE ~bad[get]
  <2>1. WithTask' = 1
    BY <1>5, <1>6, <1>12 DEF WithTask
  <2>2. /\ Received' = [j \in 1 .. 1 + (k - 1) |-> Received'[j]]
        /\ \A j \in 1 .. 1 + (k - 1) : Received'[j] =
              IF j <= 1 THEN [buf |-> p', bad |-> FALSE]
              ELSE [buf |-> rxpbufs'[At(get', j - 1 - 1)],
                    bad |-> bad'[At(get', j - 1 - 1)]]
    BY <1>1, <1>3, <2>1, ReceivedAfter
  <2>3. 1 + (k - 1) = k /\ \A j \in 1 .. k : (j <= 1 <=> j = 1)
    BY <1>3
  <2>4. \A j \in 1 .. k : Received'[j] = Received[j]
    <3> SUFFICES ASSUME NEW j \in 1 .. k
                 PROVE  Received'[j] = Received[j]
      OBVIOUS
    <3>1. CASE j = 1
      <4>1. Received[j] = FrameAt(rxpbufs, bad, get, 0)
        BY <1>8, <3>1
      <4>2. bad[get] = FALSE
        BY <1>3, <1>12 DEF Inv, TypeOK
      <4>3. Received'[j] = [buf |-> p', bad |-> FALSE]
        BY <2>2, <2>3, <3>1
      <4> QED
        BY <1>2, <1>4, <4>1, <4>2, <4>3 DEF FrameAt
    <3>2. CASE j # 1
      <4>1. PICK i \in 0 .. k - 2 : i = j - 1 - 1 /\ i + 1 = j - 1
        BY <1>3, <3>2
      <4>2. Received'[j] = [buf |-> rxpbufs'[At(get', i)], bad |-> bad'[At(get', i)]]
        BY <2>2, <2>3, <3>2, <4>1
      <4>3. Received[j] = FrameAt(rxpbufs, bad, get, i + 1)
        BY <1>8, <4>1
      <4> QED
        BY <1>10, <4>2, <4>3
    <3> QED
      BY <3>1, <3>2
  <2>5. Received = [j \in 1 .. k |-> Received[j]] /\ Received' = [j \in 1 .. k |-> Received'[j]]
    BY <1>8, <2>2, <2>3
  <2>6. Received' = Received
    BY <2>4, <2>5
  <2> QED
    BY <1>9, <2>6, Stutters
<1> QED
  BY <1>11, <1>12

(* A pbuf is queued behind the others: nobody sees it.                     *)
LEMMA QueueStep ==
    ASSUME Inv, Inv', free >= 1, NEW b \in Pbuf, Queue(b), UNCHANGED pos,
           WithTask' = WithTask, WithTask = 1 => p' = p, Hand' = Hand
    PROVE  DeliveryStep
<1>1. PICK k \in 0 .. N : RingAt(k) /\ RingAt(k)'
  BY QueueRing DEF Inv
<1>2. /\ get' = get
      /\ \A j \in 0 .. Used - 1 : /\ rxpbufs'[At(get, j)] = rxpbufs[At(get, j)]
                                  /\ bad'[At(get, j)] = bad[At(get, j)]
  BY QueueRing DEF Inv
<1>3. \A j \in 0 .. k - 1 : j \in 0 .. Used - 1
  BY <1>1, ReceivedTyped
<1>4. \A j \in 0 .. k - 1 : /\ rxpbufs'[At(get, j)] = rxpbufs[At(get, j)]
                            /\ bad'[At(get, j)] = bad[At(get, j)]
  BY <1>2, <1>3
<1>5. Received' = Received
  BY <1>1, <1>2, <1>4, ReceivedSame
<1> QED
  BY <1>5, Stutters

LEMMA ReceivedStays ==
    ASSUME Inv, Inv', UNCHANGED <<ring, pos>>, WithTask' = WithTask, WithTask = 1 => p' = p
    PROVE  Received' = Received
<1>1. UNCHANGED <<own, bad, rxpbufs, free, get, next, pos>>
  BY DEF ring
<1>2. PICK k \in 0 .. N : RingAt(k) /\ RingAt(k)'
  BY <1>1, RingSame DEF Inv
<1> QED
  BY <1>1, <1>2, ReceivedSame

(* The good frame that the task has goes to the stack.                     *)
LEMMA ReturnStep ==
    ASSUME Inv, Inv', Return, UNCHANGED pos
    PROVE  DeliveryStep
<1>1. /\ rpc = "return" /\ rpc' = IF rxerr THEN "test" ELSE "deliver"
      /\ rxerr' = FALSE /\ p' = p /\ UNCHANGED <<ring, pos>>
      /\ (rxerr <=> p = None)
  BY DEF Return, Inv, TaskInv
<1>2. CASE rxerr
  <2>1. WithTask' = WithTask /\ Hand' = Hand
    BY <1>1, <1>2 DEF WithTask, Hand
  <2>2. Received' = Received
    BY <1>1, <2>1, ReceivedStays
  <2> QED
    BY <2>1, <2>2, Stutters
<1>3. CASE ~rxerr
  <2>1. /\ WithTask = 1 /\ WithTask' = 0 /\ Hand = None /\ Hand' = p
    BY <1>1, <1>3 DEF WithTask, Hand
  <2>2. UNCHANGED <<own, bad, rxpbufs, free, get, next, pos>>
    BY <1>1 DEF ring
  <2>3. PICK k \in 0 .. N : RingAt(k) /\ RingAt(k)'
    BY <2>2, RingSame DEF Inv
  <2>4. /\ Received \in Seq(Frame) /\ Len(Received) = 1 + k
        /\ \A j \in 1 .. 1 + k : Received[j] =
              IF j <= 1 THEN [buf |-> p, bad |-> FALSE]
              ELSE FrameAt(rxpbufs, bad, get, j - 1 - 1)
        /\ k \in Nat
    BY <2>1, <2>3, ReceivedTyped
  <2>5. /\ Received' = [j \in 1 .. 0 + k |-> Received'[j]]
        /\ \A j \in 1 .. 0 + k : Received'[j] =
              IF j <= 0 THEN [buf |-> p', bad |-> FALSE]
              ELSE [buf |-> rxpbufs'[At(get', j - 0 - 1)], bad |-> bad'[At(get', j - 0 - 1)]]
    BY <2>1, <2>3, ReceivedAfter
  <2>6. /\ 0 + k = k /\ 1 + k = k + 1
        /\ \A j \in 1 .. k : /\ ~(j <= 0) /\ ~(j + 1 <= 1) /\ j + 1 \in 1 .. k + 1
                             /\ j - 0 - 1 = j - 1 /\ (j + 1) - 1 - 1 = j - 1
    BY <2>4
  <2>7. \A j \in 1 .. k : Received'[j] = Received[j + 1]
    BY <2>2, <2>4, <2>5, <2>6 DEF FrameAt
  <2>8. Received # <<>> /\ Head(Received) = Received[1] /\ Received' = Tail(Received)
    <3>1. Len(Received) = k + 1 /\ Received' = [j \in 1 .. k |-> Received'[j]]
      BY <2>4, <2>5, <2>6
    <3> QED
      BY <2>4, <2>7, <3>1, TailIs
  <2>9. Received[1] = [buf |-> p, bad |-> FALSE]
    <3>1. 1 \in 1 .. 1 + k /\ 1 <= 1
      BY <2>4
    <3> QED
      BY <2>4, <3>1
  <2>10. Delivery!HandOver
    BY <2>1, <2>8, <2>9 DEF Delivery!HandOver, Hand
  <2> QED
    BY <2>10 DEF DeliveryStep, Delivery!DeliveryNext
<1> QED
  BY <1>2, <1>3

LEMMA TaskDelivery ==
    ASSUME Inv, Inv', Task
    PROVE  DeliveryStep
<1>1. UNCHANGED pos
  BY DEF Task
<1>2. CASE TaskWake \/ TaskSleep \/ InputDry \/ FillStop
  <2>1. /\ UNCHANGED <<ring, pos>> /\ p' = p /\ rxerr' = rxerr
    BY <1>1, <1>2 DEF TaskWake, TaskSleep, InputDry, FillStop
  <2>2. WithTask' = WithTask /\ Hand' = Hand
    BY <1>2, <2>1 DEF TaskWake, TaskSleep, InputDry, FillStop, WithTask, Hand, Inv, TaskInv
  <2>3. Received' = Received
    BY <2>1, <2>2, ReceivedStays
  <2> QED
    BY <2>2, <2>3, Stutters
<1>3. CASE InputGet
  BY <1>1, <1>3, GetStep
<1>4. CASE Requeue
  <2>1. /\ rpc = "requeue" /\ free >= 1 /\ p \in Pbuf /\ Queue(p) /\ p' = None
        /\ rpc' = "return"
    BY <1>4 DEF Requeue, Inv, TaskInv, TypeOK
  <2>2. WithTask = 0 /\ WithTask' = 0 /\ Hand' = Hand
    BY <2>1 DEF WithTask, Hand
  <2> QED
    BY <1>1, <2>1, <2>2, QueueStep
<1>5. CASE Fill
  <2>1. PICK b \in heap : Queue(b)
    BY <1>5 DEF Fill
  <2>2. free >= 1 /\ b \in Pbuf /\ UNCHANGED <<rpc, p, rxerr>>
    BY <1>5, RingTyped DEF Fill, Inv, TypeOK, task
  <2>3. WithTask' = WithTask /\ Hand' = Hand
    BY <2>2 DEF WithTask, Hand
  <2> QED
    BY <1>1, <2>1, <2>2, <2>3, QueueStep
<1>6. CASE Return
  BY <1>1, <1>6, ReturnStep
<1>7. CASE Deliver
  <2>1. /\ rpc = "deliver" /\ rpc' = "test" /\ p # None /\ p' = None
        /\ UNCHANGED <<ring, pos>>
    BY <1>1, <1>7 DEF Deliver, Inv, TaskInv
  <2>2. WithTask = 0 /\ WithTask' = 0 /\ Hand = p /\ Hand' = None
    BY <2>1 DEF WithTask, Hand
  <2>3. Received' = Received
    BY <2>1, <2>2, ReceivedStays
  <2>4. Delivery!Done
    BY <2>1, <2>2, <2>3 DEF Delivery!Done, Hand
  <2> QED
    BY <2>4 DEF DeliveryStep, Delivery!DeliveryNext
<1> QED
  BY <1>2, <1>3, <1>4, <1>5, <1>6, <1>7 DEF Task

(* The frames are handed to the stack each once and in the order in which  *)
(* they came, and those with an error never, whatever the size of the ring *)
(* and the number of pbufs (lpc18xx_43xx_emac.c:250-323, 660-684).         *)
THEOREM DeliveryRefinement == Spec => ImplementsDelivery
<1>1. Init => Delivery!DeliveryInit
  <2> SUFFICES ASSUME Init PROVE Received = <<>> /\ Hand = None
    BY DEF Delivery!DeliveryInit, Hand
  <2>1. Inv /\ RingAt(0) /\ 0 \in 0 .. N
    BY InitStep, EmacRxAssumption
  <2>2. rpc = "sleep" /\ p = None
    BY DEF Init
  <2>3. WithTask = 0 /\ Hand = None
    BY <2>2 DEF WithTask, Hand
  <2>4. Received \in Seq(Frame) /\ Len(Received) = 0 + 0
    BY <2>1, <2>3, ReceivedTyped
  <2> QED
    BY <2>3, <2>4
<1>2. Inv /\ Inv' /\ [Next]_vars => DeliveryStep
  <2> SUFFICES ASSUME Inv, Inv', [Next]_vars PROVE DeliveryStep
    OBVIOUS
  <2>1. CASE Task
    BY <2>1, TaskDelivery
  <2>2. CASE \E e \in BOOLEAN : DmaReceive(e)
    BY <2>2, ReceiveStep
  <2>3. CASE Dma \/ Isr \/ Stack \/ UNCHANGED vars
    <3>1. UNCHANGED <<ring, task, pos>>
      BY <2>3 DEF Dma, DmaStatus, DmaSuspend, Isr, IsrGive, IsrClear, Stack, StackFree, engine, vars
    <3>2. WithTask' = WithTask /\ Hand' = Hand /\ p' = p
      BY <3>1 DEF WithTask, Hand, task
    <3>3. Received' = Received
      BY <3>1, <3>2, ReceivedStays
    <3> QED
      BY <3>2, <3>3, Stutters
  <2> QED
    BY <2>1, <2>2, <2>3 DEF Next
<1> QED
  BY <1>1, <1>2, Invariant, PTL DEF Spec, ImplementsDelivery, Delivery!DeliverySpec, DeliveryStep
=============================================================================
