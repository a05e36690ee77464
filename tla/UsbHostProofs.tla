--------------------------- MODULE UsbHostProofs ---------------------------
(***************************************************************************)
(* The allocator keeps its pool intact for every size of the pool and of   *)
(* the requests, and so do the task and the handler that call it, until    *)
(* the handler frees a buffer inside a call of the task.                   *)
(***************************************************************************)
EXTENDS UsbHost, WellFoundedInduction, TLAPS

RawHeader == [size : Nat, isFree : BOOLEAN, next : Nat]

Typed(P) == DOMAIN P \subseteq Nat /\ P \in [DOMAIN P -> RawHeader]

PoolInv(P) == Typed(P) /\ PoolOK(P)

(* A non-empty set of addresses has a lowest one. *)
LEMMA Lowest ==
    ASSUME NEW S, S \subseteq Nat, S # {}
    PROVE  \E a \in S : \A b \in S : a <= b
<1>1. PICK a \in S : \A b \in S : ~ (<<b, a>> \in OpToRel(<, Nat))
  BY NatLessThanWellFounded, WFMin
<1>2. \A b \in S : <<b, a>> \in Nat \X Nat
  OBVIOUS
<1>3. \A b \in S : ~ (b < a)
  BY <1>1, <1>2 DEF OpToRel
<1> QED
  BY <1>3

(***************************************************************************)
(* Pools                                                                   *)
(***************************************************************************)
(* A pool whose free blocks may still lie side by side. *)
Blocks(P) == Typed(P) /\ Tiled(P) /\ NoOverlap(P) /\ WordAligned(P)

(* A good pool is one of blocks, with its free neighbours merged. *)
LEMMA PoolIsBlocks ==
    ASSUME NEW P
    PROVE  PoolInv(P) <=> Blocks(P) /\ Coalesced(P)
  BY DEF PoolInv, PoolOK, Blocks

(* The fields of a block, and its end. *)
LEMMA BlockFields ==
    ASSUME NEW P, Blocks(P), NEW a \in DOMAIN P
    PROVE  /\ a \in Nat /\ P[a] \in RawHeader
           /\ P[a].size \in Nat /\ P[a].isFree \in BOOLEAN /\ P[a].next \in Nat
           /\ EndOf(P, a) = a + 4 + P[a].size /\ EndOf(P, a) \in Nat
           /\ P[a].next # 0 => P[a].next \in DOMAIN P /\ EndOf(P, a) = P[a].next
           /\ P[a].next = 0 => EndOf(P, a) = PoolSize
           /\ a % 4 = 0 /\ P[a].size % 4 = 0
<1>1. a \in Nat /\ P[a] \in RawHeader
  BY DEF Blocks, Typed
<1>2. P[a].size \in Nat /\ P[a].isFree \in BOOLEAN /\ P[a].next \in Nat
  BY <1>1 DEF RawHeader
<1> QED
  BY <1>1, <1>2 DEF Blocks, Tiled, WordAligned, EndOf, HEADER_SIZE

(* Only one block is in front of another. *)
LEMMA OneInFront ==
    ASSUME NEW P, Blocks(P), NEW a \in DOMAIN P, NEW b \in DOMAIN P,
           P[a].next # 0, P[a].next = P[b].next
    PROVE  a = b
<1>1. /\ a \in Nat /\ P[a].size \in Nat /\ EndOf(P, a) = a + 4 + P[a].size
      /\ b \in Nat /\ P[b].size \in Nat /\ EndOf(P, b) = b + 4 + P[b].size
      /\ EndOf(P, a) = EndOf(P, b)
  BY BlockFields
<1>2. CASE a < b
  BY <1>1, <1>2 DEF Blocks, NoOverlap
<1>3. CASE b < a
  BY <1>1, <1>3 DEF Blocks, NoOverlap
<1> QED
  BY <1>1, <1>2, <1>3

(* A block in front of another leads to it or to one that is in front. *)
LEMMA FurtherInFront ==
    ASSUME NEW P, Blocks(P), NEW a \in DOMAIN P, NEW b \in DOMAIN P,
           a < b, P[a].next # b, b < PoolSize
    PROVE  P[a].next # 0 /\ P[a].next \in DOMAIN P /\ P[a].next < b
<1>1. /\ a \in Nat /\ P[a].size \in Nat /\ EndOf(P, a) = a + 4 + P[a].size
      /\ b \in Nat /\ P[a].next \in Nat
      /\ P[a].next # 0 => P[a].next \in DOMAIN P /\ EndOf(P, a) = P[a].next
      /\ P[a].next = 0 => EndOf(P, a) = PoolSize
  BY BlockFields
<1>2. EndOf(P, a) <= b
  BY DEF Blocks, NoOverlap
<1> QED
  BY <1>1, <1>2, UsbMemoryAssumption

(* A block ends within the pool. *)
LEMMA EndsInPool ==
    ASSUME NEW P, Blocks(P), DOMAIN P \subseteq Words, NEW a \in DOMAIN P
    PROVE  a + 4 + P[a].size <= PoolSize
<1>1. /\ EndOf(P, a) = a + 4 + P[a].size
      /\ P[a].next # 0 => P[a].next \in DOMAIN P /\ EndOf(P, a) = P[a].next
      /\ P[a].next = 0 => EndOf(P, a) = PoolSize
  BY BlockFields
<1>2. P[a].next # 0 => P[a].next \in 0 .. PoolSize - 1
  BY <1>1 DEF Words
<1> QED
  BY <1>1, <1>2, UsbMemoryAssumption

(* A pool stays intact where only the flag of one block changes: the block *)
(* is taken,                                                               *)
LEMMA TakeGood ==
    ASSUME NEW P, PoolInv(P), NEW a \in DOMAIN P,
           NEW Q, Typed(Q), DOMAIN Q = DOMAIN P, ~Q[a].isFree,
           \A b \in DOMAIN P : Q[b].size = P[b].size /\ Q[b].next = P[b].next,
           \A b \in DOMAIN P : b # a => Q[b].isFree = P[b].isFree
    PROVE  PoolInv(Q)
<1>1. \A b \in DOMAIN P : EndOf(Q, b) = EndOf(P, b)
  BY DEF EndOf
<1>2. Tiled(Q) /\ NoOverlap(Q)
  BY <1>1 DEF PoolInv, PoolOK, Tiled, NoOverlap
<1>3. \A b \in DOMAIN P : P[b].next # 0 => P[b].next \in DOMAIN P
  BY DEF PoolInv, PoolOK, Tiled
<1>4. Coalesced(Q)
  <2>1. SUFFICES ASSUME NEW b \in DOMAIN P, P[b].next # 0, Q[b].isFree, Q[P[b].next].isFree
                 PROVE  FALSE
    BY DEF Coalesced
  <2>2. b # a /\ P[b].next # a /\ P[b].next \in DOMAIN P
    BY <2>1, <1>3
  <2> QED
    BY <2>1, <2>2 DEF PoolInv, PoolOK, Coalesced
<1>5. WordAligned(Q)
  BY DEF PoolInv, PoolOK, WordAligned
<1> QED
  BY <1>2, <1>4, <1>5 DEF PoolInv, PoolOK

(* or given back, between blocks that are in use, or was free.             *)
LEMMA MarkGood ==
    ASSUME NEW P, PoolInv(P), NEW a \in DOMAIN P,
           NEW Q, Typed(Q), DOMAIN Q = DOMAIN P, Q[a].isFree,
           \A b \in DOMAIN P : Q[b].size = P[b].size /\ Q[b].next = P[b].next,
           \A b \in DOMAIN P : b # a => Q[b].isFree = P[b].isFree,
           \/ P[a].isFree
           \/ /\ P[a].next # 0 => ~P[P[a].next].isFree
              /\ \A b \in DOMAIN P : P[b].next # 0 /\ P[b].next = a => ~P[b].isFree
    PROVE  PoolInv(Q)
<1>1. \A b \in DOMAIN P : EndOf(Q, b) = EndOf(P, b)
  BY DEF EndOf
<1>2. Tiled(Q) /\ NoOverlap(Q)
  BY <1>1 DEF PoolInv, PoolOK, Tiled, NoOverlap
<1>3. \A b \in DOMAIN P : P[b].next # 0 => P[b].next \in DOMAIN P /\ P[b].next # b
  BY PoolIsBlocks, BlockFields
<1>4. Coalesced(Q)
  <2>1. SUFFICES ASSUME NEW b \in DOMAIN P, P[b].next # 0, Q[b].isFree, Q[P[b].next].isFree
                 PROVE  FALSE
    BY DEF Coalesced
  <2>2. P[b].next \in DOMAIN P /\ P[b].next # b
    BY <2>1, <1>3
  <2>3. ~(P[b].isFree /\ P[P[b].next].isFree)
    BY <2>1 DEF PoolInv, PoolOK, Coalesced
  <2> QED
    BY <2>1, <2>2, <2>3
<1>5. WordAligned(Q)
  BY DEF PoolInv, PoolOK, WordAligned
<1> QED
  BY <1>2, <1>4, <1>5 DEF PoolInv, PoolOK

(* The rest of a larger block begins where no block does. *)
LEMMA RestIsNew ==
    ASSUME NEW P, Blocks(P), NEW a \in DOMAIN P, NEW n \in Nat, P[a].size > 4 + n
    PROVE  a + 4 + n \in Nat /\ a + 4 + n \notin DOMAIN P
<1>1. a \in Nat /\ P[a].size \in Nat /\ EndOf(P, a) = a + 4 + P[a].size
  BY BlockFields
<1>2. SUFFICES ASSUME a + 4 + n \in DOMAIN P PROVE FALSE
  BY <1>1
<1>3. EndOf(P, a) <= a + 4 + n
  BY <1>1, <1>2 DEF Blocks, NoOverlap
<1> QED
  BY <1>1, <1>3

(* The rest of a larger block becomes a free block. *)
LEMMA SplitGood ==
    ASSUME NEW P, PoolInv(P), NEW a \in DOMAIN P, P[a].isFree,
           NEW n \in Nat, n % 4 = 0, P[a].size > 4 + n,
           NEW rest, rest = a + 4 + n,
           NEW Q, Typed(Q), DOMAIN Q = DOMAIN P \union {rest},
           Q[a].size = n, ~Q[a].isFree, Q[a].next = rest,
           Q[rest].size = P[a].size - (4 + n), Q[rest].isFree, Q[rest].next = P[a].next,
           \A b \in DOMAIN P : b # a => Q[b] = P[b]
    PROVE  PoolInv(Q)
<1>0. Blocks(P) /\ Coalesced(P)
  BY PoolIsBlocks
<1>2. /\ a \in Nat /\ P[a].size \in Nat /\ P[a].next \in Nat
      /\ EndOf(P, a) = a + 4 + P[a].size
      /\ a % 4 = 0 /\ P[a].size % 4 = 0
  BY <1>0, BlockFields
<1>1. /\ rest \in Nat /\ rest \notin DOMAIN P /\ rest # 0
      /\ Typed(Q) /\ DOMAIN Q = DOMAIN P \union {rest}
      /\ Q[a].size = n /\ ~Q[a].isFree /\ Q[a].next = rest
      /\ Q[rest].size = P[a].size - (4 + n) /\ Q[rest].isFree
      /\ Q[rest].next = P[a].next
      /\ \A b \in DOMAIN P : b # a => Q[b] = P[b]
  BY <1>0, <1>2, RestIsNew, SMTT(30)
<1>3. EndOf(Q, a) = rest /\ EndOf(Q, rest) = EndOf(P, a)
  BY <1>1, <1>2 DEF EndOf, HEADER_SIZE
<1>4. \A b \in DOMAIN P : b # a => EndOf(Q, b) = EndOf(P, b)
  BY <1>1 DEF EndOf
<1>w. rest % 4 = 0 /\ (P[a].size - (4 + n)) % 4 = 0
  BY <1>2
<1>5. Tiled(Q)
  <2>1. 0 \in DOMAIN Q
    BY <1>0, <1>1 DEF Blocks, Tiled
  <2>2. ASSUME NEW b \in DOMAIN Q
        PROVE  IF Q[b].next = 0
                 THEN EndOf(Q, b) = PoolSize
                 ELSE Q[b].next \in DOMAIN Q /\ EndOf(Q, b) = Q[b].next
    <3>1. CASE b = a
      BY <3>1, <1>1, <1>3
    <3>2. CASE b = rest
      BY <3>2, <1>0, <1>1, <1>3, BlockFields
    <3>3. CASE b # a /\ b # rest
      BY <3>3, <1>0, <1>1, <1>4, BlockFields
    <3> QED
      BY <3>1, <3>2, <3>3
  <2>3. ASSUME NEW b \in DOMAIN Q, b # 0
        PROVE  \E c \in DOMAIN Q : Q[c].next = b
    <3>1. CASE b = rest
      BY <3>1, <1>1
    <3>2. CASE b # rest
      <4>1. PICK c \in DOMAIN P : P[c].next = b
        BY <3>2, <2>3, <1>0, <1>1 DEF Blocks, Tiled
      <4> QED
        BY <4>1, <1>1
    <3> QED
      BY <3>1, <3>2
  <2> QED
    BY <2>1, <2>2, <2>3 DEF Tiled
<1>6. NoOverlap(Q)
  <2>1. SUFFICES ASSUME NEW b \in DOMAIN Q, NEW c \in DOMAIN Q, b < c
                 PROVE  EndOf(Q, b) <= c
    BY DEF NoOverlap
  <2>2. \A x, y \in DOMAIN P : x < y => EndOf(P, x) <= y
    BY <1>0 DEF Blocks, NoOverlap
  <2>3. DOMAIN P \subseteq Nat
    BY <1>0 DEF Blocks, Typed
  <2>4. rest > a /\ EndOf(P, a) > rest
    BY <1>2
  <2>5. CASE b = a
    <3>1. CASE c = rest
      BY <2>5, <3>1, <1>1, <1>3
    <3>2. CASE c # rest
      BY <2>1, <2>2, <2>3, <2>4, <2>5, <3>2, <1>1, <1>2, <1>3
    <3> QED
      BY <3>1, <3>2
  <2>6. CASE b = rest
    <3>1. c \in DOMAIN P /\ a < c
      BY <2>1, <2>3, <2>4, <2>6, <1>1, <1>2
    <3> QED
      BY <3>1, <2>2, <2>6, <1>3
  <2>7. CASE b # a /\ b # rest
    <3>1. CASE c # rest
      BY <3>1, <2>1, <2>2, <2>7, <1>1, <1>4
    <3>2. CASE c = rest
      <4>1. b \in DOMAIN P /\ b \in Nat /\ ~(a < b)
        BY <3>2, <2>1, <2>2, <2>3, <2>4, <2>7, <1>1, <1>2
      <4>2. EndOf(P, b) <= a
        BY <4>1, <2>2, <2>7, <1>2
      <4>3. EndOf(P, b) \in Nat
        BY <4>1, <1>0, BlockFields
      <4> QED
        BY <4>1, <4>2, <4>3, <3>2, <2>4, <2>7, <1>1, <1>2, <1>4
    <3> QED
      BY <3>1, <3>2
  <2> QED
    BY <2>5, <2>6, <2>7
<1>7. Coalesced(Q)
  <2>1. SUFFICES ASSUME NEW b \in DOMAIN Q, Q[b].next # 0, Q[b].isFree, Q[Q[b].next].isFree
                 PROVE  FALSE
    BY DEF Coalesced
  <2>2. CASE b = rest
    <3>1. P[a].next \in DOMAIN P /\ P[a].next # a
      BY <2>1, <2>2, <1>0, <1>1, <1>2, BlockFields
    <3> QED
      BY <3>1, <2>1, <2>2, <1>0, <1>1 DEF Coalesced
  <2>3. CASE b # rest
    <3>1. b \in DOMAIN P /\ b # a /\ P[b].next \in DOMAIN P
      BY <2>1, <2>3, <1>0, <1>1, BlockFields
    <3>2. P[b].next # rest
      BY <3>1, <1>1
    <3> QED
      BY <3>1, <3>2, <2>1, <1>0, <1>1 DEF Coalesced
  <2> QED
    BY <2>2, <2>3
<1>8. WordAligned(Q)
  <2>1. SUFFICES ASSUME NEW b \in DOMAIN Q PROVE b % 4 = 0 /\ Q[b].size % 4 = 0
    BY DEF WordAligned
  <2>2. CASE b = a
    BY <2>2, <1>1, <1>2
  <2>3. CASE b = rest
    BY <2>3, <1>1, <1>w
  <2>4. CASE b # a /\ b # rest
    BY <2>4, <1>0, <1>1, BlockFields
  <2> QED
    BY <2>2, <2>3, <2>4
<1> QED
  BY <1>1, <1>5, <1>6, <1>7, <1>8 DEF PoolInv, PoolOK

(* Two adjacent blocks become one. *)
LEMMA MergeGood ==
    ASSUME NEW P, Blocks(P), NEW a \in DOMAIN P,
           NEW n, n = P[a].next, n # 0,
           NEW Q, Typed(Q), DOMAIN Q = DOMAIN P \ {n},
           Q[a].size = P[a].size + P[n].size + 4, Q[a].next = P[n].next,
           \A b \in DOMAIN Q : b # a => Q[b] = P[b]
    PROVE  Blocks(Q) /\ n \in DOMAIN P /\ n # a
<1>1. /\ n \in DOMAIN P /\ n # a /\ n > a /\ n = EndOf(P, a)
      /\ Typed(Q) /\ DOMAIN Q = DOMAIN P \ {n}
      /\ Q[a].size = P[a].size + P[n].size + 4
      /\ Q[a].next = P[n].next
      /\ \A b \in DOMAIN Q : b # a => Q[b] = P[b]
  BY BlockFields
<1>2. /\ a \in Nat /\ n \in Nat /\ P[a].size \in Nat /\ P[n].size \in Nat
      /\ EndOf(P, a) = a + 4 + P[a].size /\ EndOf(P, n) = n + 4 + P[n].size
      /\ a % 4 = 0 /\ P[a].size % 4 = 0 /\ P[n].size % 4 = 0
  BY <1>1, BlockFields
<1>3. EndOf(Q, a) = EndOf(P, n)
  BY <1>1, <1>2 DEF EndOf, HEADER_SIZE
<1>4. \A b \in DOMAIN Q : b # a => EndOf(Q, b) = EndOf(P, b)
  BY <1>1 DEF EndOf
<1>5. \A b \in DOMAIN P : b # a => P[b].next # n
  BY OneInFront
<1>6. Tiled(Q)
  <2>1. 0 \in DOMAIN Q
    BY <1>1 DEF Blocks, Tiled
  <2>2. ASSUME NEW b \in DOMAIN Q
        PROVE  IF Q[b].next = 0
                 THEN EndOf(Q, b) = PoolSize
                 ELSE Q[b].next \in DOMAIN Q /\ EndOf(Q, b) = Q[b].next
    <3>1. CASE b = a
      <4>1. P[n].next # n
        BY <1>1, <1>5
      <4> QED
        BY <3>1, <4>1, <1>1, <1>3, BlockFields
    <3>2. CASE b # a
      BY <3>2, <1>1, <1>4, <1>5, BlockFields
    <3> QED
      BY <3>1, <3>2
  <2>3. ASSUME NEW b \in DOMAIN Q, b # 0
        PROVE  \E c \in DOMAIN Q : Q[c].next = b
    <3>1. PICK c \in DOMAIN P : P[c].next = b
      BY <2>3, <1>1 DEF Blocks, Tiled
    <3>2. CASE c = n
      BY <3>1, <3>2, <1>1
    <3>3. CASE c # n
      <4>1. c # a
        BY <3>1, <1>1, <2>3
      <4> QED
        BY <3>1, <3>3, <4>1, <1>1
    <3> QED
      BY <3>2, <3>3
  <2> QED
    BY <2>1, <2>2, <2>3 DEF Tiled
<1>7. NoOverlap(Q)
  <2>1. SUFFICES ASSUME NEW b \in DOMAIN Q, NEW c \in DOMAIN Q, b < c
                 PROVE  EndOf(Q, b) <= c
    BY DEF NoOverlap
  <2>2. \A x, y \in DOMAIN P : x < y => EndOf(P, x) <= y
    BY DEF Blocks, NoOverlap
  <2>3. b \in DOMAIN P /\ c \in DOMAIN P /\ c \in Nat /\ c # n
    BY <1>1, BlockFields
  <2>4. CASE b = a
    <3>1. n <= c /\ n \in Nat /\ c \in Nat /\ c # n
      BY <2>1, <2>2, <2>3, <2>4, <1>1, <1>2
    <3>2. n < c
      BY <3>1
    <3> QED
      BY <3>2, <2>2, <2>3, <2>4, <1>1, <1>3
  <2>5. CASE b # a
    BY <2>1, <2>2, <2>3, <2>5, <1>4
  <2> QED
    BY <2>4, <2>5
<1>8. WordAligned(Q)
  <2>1. SUFFICES ASSUME NEW b \in DOMAIN Q PROVE b % 4 = 0 /\ Q[b].size % 4 = 0
    BY DEF WordAligned
  <2>2. CASE b = a
    BY <2>2, <1>1, <1>2
  <2>3. CASE b # a
    BY <2>3, <1>1, BlockFields
  <2> QED
    BY <2>2, <2>3
<1> QED
  BY <1>1, <1>6, <1>7, <1>8 DEF Blocks

(* A used block takes in the free block behind it: what is behind is then  *)
(* not free.                                                               *)
LEMMA MergeNextGood ==
    ASSUME NEW P, PoolInv(P), NEW a \in DOMAIN P, ~P[a].isFree,
           NEW n, n = P[a].next, n # 0, P[n].isFree,
           NEW Q, Typed(Q), DOMAIN Q = DOMAIN P \ {n},
           Q[a].size = P[a].size + P[n].size + 4, Q[a].next = P[n].next, ~Q[a].isFree,
           \A b \in DOMAIN Q : b # a => Q[b] = P[b]
    PROVE  /\ PoolInv(Q) /\ n \in DOMAIN P /\ n # a
           /\ Q[a].next # 0 => ~Q[Q[a].next].isFree
<1>0. Blocks(P) /\ Coalesced(P)
  BY PoolIsBlocks
<1>1. Blocks(Q) /\ n \in DOMAIN P /\ n # a
  BY <1>0, MergeGood
<1>2. P[n].next # 0 => ~P[P[n].next].isFree
  BY <1>0, <1>1 DEF Coalesced
<1>3. Q[a].next # 0 => Q[a].next \in DOMAIN Q /\ Q[a].next # a
  BY <1>1, BlockFields
<1>4. Q[a].next # 0 => ~Q[Q[a].next].isFree
  BY <1>2, <1>3
<1>5. Coalesced(Q)
  <2>1. SUFFICES ASSUME NEW b \in DOMAIN Q, Q[b].next # 0, Q[b].isFree, Q[Q[b].next].isFree
                 PROVE  FALSE
    BY DEF Coalesced
  <2>2. b # a /\ b \in DOMAIN P /\ Q[b] = P[b]
    BY <2>1
  <2>3. Q[b].next \in DOMAIN Q /\ Q[b].next # a
    BY <1>1, <2>1, BlockFields
  <2> QED
    BY <1>0, <2>1, <2>2, <2>3 DEF Coalesced
<1> QED
  BY <1>1, <1>4, <1>5, PoolIsBlocks

(* A used block becomes part of the free block in front of it. *)
LEMMA MergePrevGood ==
    ASSUME NEW P, PoolInv(P), NEW p \in DOMAIN P, P[p].isFree,
           NEW a, a = P[p].next, a # 0, P[a].next # 0 => ~P[P[a].next].isFree,
           NEW Q, Typed(Q), DOMAIN Q = DOMAIN P \ {a},
           Q[p].size = P[p].size + P[a].size + 4, Q[p].next = P[a].next, Q[p].isFree,
           \A b \in DOMAIN Q : b # p => Q[b] = P[b]
    PROVE  PoolInv(Q) /\ a \in DOMAIN P /\ a # p
<1>0. Blocks(P) /\ Coalesced(P)
  BY PoolIsBlocks
<1>1. Blocks(Q) /\ a \in DOMAIN P /\ a # p
  BY <1>0, MergeGood
<1>2. Coalesced(Q)
  <2>1. SUFFICES ASSUME NEW b \in DOMAIN Q, Q[b].next # 0, Q[b].isFree, Q[Q[b].next].isFree
                 PROVE  FALSE
    BY DEF Coalesced
  <2>2. Q[b].next \in DOMAIN Q /\ Q[b].next # b
    BY <1>1, <2>1, BlockFields
  <2>3. CASE b = p
    BY <2>1, <2>2, <2>3
  <2>4. CASE b # p
    <3>1. b \in DOMAIN P /\ P[b].next = Q[b].next /\ P[b].isFree
      BY <2>1, <2>4
    <3>2. P[P[b].next].isFree
      BY <2>1, <2>2, <3>1
    <3> QED
      BY <1>0, <2>1, <3>1, <3>2 DEF Coalesced
  <2> QED
    BY <2>3, <2>4
<1> QED
  BY <1>1, <1>2, PoolIsBlocks

(***************************************************************************)
(* The types of the allocator                                              *)
(***************************************************************************)
AllocSteps == {"search", "fit", "take", "carve", "shrink", "join", "claim"}

FreeSteps == {"test", "grow", "link", "walk", "growprev", "linkprev", "mark"}

CallType == [step : Steps, blk : Words, prev : Words, size : Nat]

(* A request is aligned; what was found large enough for it is no larger   *)
(* than a block can be; a remainder that is being written lies in the      *)
(* pool, in whatever state the list is; a walk begins at the head.         *)
CallTyped(c) ==
    /\ call[c].step \in AllocSteps => call[c].size % 4 = 0
    /\ call[c].step \in {"test", "grow", "link"} => call[c].prev = 0
    /\ call[c].step \in AllocSteps \ {"search"} => call[c].size < SizeWrap
    /\ call[c].step \in {"shrink", "join"} => Remainder(c) \in Words

(* The fields of a header and of a call. *)
LEMMA Fields ==
    ASSUME MemoryType
    PROVE  /\ \A a \in Words :
                /\ a \in Nat /\ mem[a] \in Header
                /\ mem[a].size \in 0 .. SizeWrap - 1 /\ mem[a].isFree \in BOOLEAN
                /\ mem[a].next \in Words /\ mem[a].next \in Nat
           /\ \A c \in Context :
                /\ call[c] \in CallType
                /\ call[c].step \in Steps /\ call[c].blk \in Words /\ call[c].prev \in Words
                /\ call[c].size \in Nat /\ call[c].blk \in Nat /\ call[c].prev \in Nat
<1>1. \A a \in Words : a \in Nat
  BY DEF Words
<1>2. \A a \in Words : mem[a] \in Header
  BY DEF MemoryType
<1>3. \A c \in Context : call[c] \in CallType
  BY DEF MemoryType, CallType
<1> QED
  BY <1>1, <1>2, <1>3 DEF Header, CallType

(* A call goes to its next step. *)
LEMMA ToFields ==
    ASSUME MemoryType, NEW c \in Context, NEW s \in Steps, To(c, s)
    PROVE  /\ call' \in [Context -> CallType]
           /\ call'[c].step = s /\ call'[c].blk = call[c].blk
           /\ call'[c].prev = call[c].prev /\ call'[c].size = call[c].size
           /\ \A d \in Context : d # c => call'[d] = call[d]
  BY DEF MemoryType, CallType, To

(* The field of a size: it has a range, *)
LEMMA WrapIsPositive == SizeWrap \in Nat /\ SizeWrap > 0
  BY DEF SizeWrap

(* every result of its arithmetic is in it, *)
LEMMA WrapRange ==
    ASSUME NEW x \in Int
    PROVE  x % SizeWrap \in 0 .. SizeWrap - 1
  BY WrapIsPositive

(* and what fits is stored as it is. *)
LEMMA WrapSmall ==
    ASSUME NEW x \in Nat, x < SizeWrap
    PROVE  x % SizeWrap = x
  BY WrapIsPositive

(* What is at most a stored size fits, *)
LEMMA BelowWrap ==
    ASSUME NEW m \in 0 .. SizeWrap - 1, NEW n \in Nat, m >= n
    PROVE  n < SizeWrap
  BY WrapIsPositive

(* and what fits is in the range. *)
LEMMA UpToWrap ==
    ASSUME NEW n \in Nat, n < SizeWrap
    PROVE  n \in 0 .. SizeWrap - 1
  BY WrapIsPositive

(* The stores to header a that turn memory M into N.                       *)
Elsewhere(M, N, a) == N \in [Words -> Header] /\ \A x \in Words : x # a => N[x] = M[x]

SizeStored(M, N, a, size) ==
    /\ Elsewhere(M, N, a)
    /\ N[a].size = size /\ N[a].isFree = M[a].isFree /\ N[a].next = M[a].next

LinkStored(M, N, a, next) ==
    /\ Elsewhere(M, N, a)
    /\ N[a].size = M[a].size /\ N[a].isFree = M[a].isFree /\ N[a].next = next

FlagStored(M, N, a, isFree) ==
    /\ Elsewhere(M, N, a)
    /\ N[a].size = M[a].size /\ N[a].isFree = isFree /\ N[a].next = M[a].next

HeaderStored(M, N, a, size, next) ==
    /\ Elsewhere(M, N, a)
    /\ N[a].size = size /\ N[a].isFree = TRUE /\ N[a].next = next

(* A store keeps the types of the headers. *)
LEMMA StoreTypes ==
    ASSUME NEW M, NEW N, NEW a, NEW x, NEW y,
           \/ SizeStored(M, N, a, x) \/ LinkStored(M, N, a, x)
           \/ FlagStored(M, N, a, x) \/ HeaderStored(M, N, a, x, y)
    PROVE  N \in [Words -> Header]
  BY DEF SizeStored, LinkStored, FlagStored, HeaderStored, Elsewhere

(* The stores that the steps of the calls make: of a size, *)
LEMMA SizeStores ==
    ASSUME MemoryType, NEW a \in Words, NEW n \in 0 .. SizeWrap - 1,
           mem' = [mem EXCEPT ![a].size = n]
    PROVE  SizeStored(mem, mem', a, n)
  BY DEF MemoryType, Header, SizeStored, Elsewhere

(* of the size of two blocks, *)
LEMMA GrownStores ==
    ASSUME MemoryType, NEW a \in Words, NEW b \in Words, mem' = Grown(a, b)
    PROVE  SizeStored(mem, mem', a, (mem[a].size + mem[b].size + 4) % SizeWrap)
<1> DEFINE z == (mem[a].size + mem[b].size + 4) % SizeWrap
<1>1. z \in 0 .. SizeWrap - 1
  <2>1. mem[a].size \in Nat /\ mem[b].size \in Nat
    BY Fields
  <2>2. mem[a].size + mem[b].size + 4 \in Int
    BY <2>1
  <2> QED
    BY <2>2, WrapRange
<1>2. mem' = [mem EXCEPT ![a].size = z]
  BY DEF Grown, HEADER_SIZE
<1> HIDE DEF z
<1>3. SizeStored(mem, mem', a, z)
  BY <1>1, <1>2, SizeStores
<1> QED
  BY <1>3 DEF z

(* of a link, *)
LEMMA LinkStores ==
    ASSUME MemoryType, NEW a \in Words, NEW n \in Words, mem' = [mem EXCEPT ![a].next = n]
    PROVE  LinkStored(mem, mem', a, n)
  BY DEF MemoryType, Header, LinkStored, Elsewhere

(* of a flag, *)
LEMMA FlagStores ==
    ASSUME MemoryType, NEW a \in Words, NEW f \in BOOLEAN, mem' = [mem EXCEPT ![a].isFree = f]
    PROVE  FlagStored(mem, mem', a, f)
  BY DEF MemoryType, Header, FlagStored, Elsewhere

(* and of the header of a rest. *)
LEMMA CarveStores ==
    ASSUME MemoryType, NEW c \in Context, Carve(c), NEW r, r = Remainder(c)
    PROVE  /\ r \in Words
           /\ HeaderStored(mem, mem', r, (mem[call[c].blk].size - (4 + call[c].size)) % SizeWrap,
                           mem[call[c].blk].next)
<1> DEFINE z == (mem[call[c].blk].size - (4 + call[c].size)) % SizeWrap
           n == mem[call[c].blk].next
<1>1. z \in 0 .. SizeWrap - 1 /\ n \in Words
  <2>1. mem[call[c].blk].size \in Nat /\ call[c].size \in Nat /\ n \in Words
    BY Fields
  <2>2. mem[call[c].blk].size - (4 + call[c].size) \in Int
    BY <2>1
  <2> QED
    BY <2>1, <2>2, WrapRange
<1>2. r \in Words /\ mem' = [mem EXCEPT ![r] = [size |-> z, isFree |-> TRUE, next |-> n]]
  BY DEF Carve, HEADER_SIZE
<1> HIDE DEF z, n
<1>3. HeaderStored(mem, mem', r, z, n)
  BY <1>1, <1>2 DEF MemoryType, Header, HeaderStored, Elsewhere
<1> QED
  BY <1>2, <1>3 DEF z, n

(* Every step of a call keeps the types. *)
LEMMA CallStepType ==
    ASSUME MemoryType, NEW c \in Context, CallTyped(c), AllocStep(c) \/ FreeStep(c)
    PROVE  /\ MemoryType' /\ CallTyped(c)' /\ torn' = torn
           /\ \A d \in Context : d # c => call'[d] = call[d]
           /\ FreeStep(c) => got' = got /\ call'[c].step \in FreeSteps \union {"idle"}
           /\ AllocStep(c) => call'[c].step \in AllocSteps \union {"idle"}
           /\ AllocStep(c) => got' = got \/ got' = NULL \/ got' - 4 \in Words
           /\ AllocStep(c) /\ got' # got => call'[c].step = "idle"
<1> DEFINE b == call[c].blk
<1>0. /\ b \in Words /\ b \in Nat /\ call[c].prev \in Words
      /\ call[c].size \in Nat /\ call \in [Context -> CallType]
      /\ got \in Nat /\ list \subseteq Words /\ torn \in BOOLEAN
      /\ mem \in [Words -> Header] /\ mem[b].next \in Words
  BY Fields DEF MemoryType, CallType
<1>m. ASSUME mem' \in [Words -> Header], call' \in [Context -> CallType], got' \in Nat,
             list' \subseteq Words, torn' = torn
      PROVE  MemoryType'
  BY <1>0, <1>m DEF MemoryType, CallType
<1>t. ASSUME NEW s \in Steps, To(c, s)
      PROVE  /\ call' \in [Context -> CallType]
             /\ call'[c].step = s /\ call'[c].blk = call[c].blk
             /\ call'[c].prev = call[c].prev /\ call'[c].size = call[c].size
             /\ \A d \in Context : d # c => call'[d] = call[d]
  BY <1>t, ToFields
<1>r. ASSUME NEW p, AllocReturn(c, p)
      PROVE  /\ call' \in [Context -> CallType]
             /\ call'[c].step = "idle" /\ got' = p
             /\ \A d \in Context : d # c => call'[d] = call[d]
  <2>1. 0 \in Words
    BY UsbMemoryAssumption DEF Words, HEADER_SIZE
  <2> QED
    BY <1>0, <1>r, <2>1 DEF AllocReturn, Idle, CallType, Steps
<1> USE DEF AllocSteps, FreeSteps, At
<1>1. CASE Search(c)
  <2>1. CASE Fits(c) /\ To(c, "fit") /\ got' = got
    <3>1. mem[b].size \in 0 .. SizeWrap - 1 /\ call[c].size \in Nat /\ mem[b].size >= call[c].size
      BY <1>0, <2>1, Fields DEF Fits
    <3>2. call[c].size < SizeWrap
      BY <3>1, BelowWrap
    <3>3. "fit" \in Steps
      BY DEF Steps
    <3> QED
      BY <1>0, <1>1, <1>m, <1>t, <2>1, <3>2, <3>3 DEF Search, CallTyped, AllocStep, FreeStep, Walk, TestNext, GrowNext, LinkNext, GrowPrev, LinkPrev, Mark
  <2>2. CASE mem[b].next # 0 /\ call' = [call EXCEPT ![c].blk = mem[b].next] /\ got' = got
    <3>1. /\ call' \in [Context -> CallType]
          /\ call'[c].step = "search" /\ call'[c].size = call[c].size
          /\ \A d \in Context : d # c => call'[d] = call[d]
      BY <1>0, <1>1, <2>2 DEF Search, CallType
    <3> QED
      BY <1>0, <1>1, <1>m, <2>2, <3>1 DEF Search, CallTyped, AllocStep, FreeStep, Walk, TestNext, GrowNext, LinkNext, GrowPrev, LinkPrev, Mark
  <2>3. CASE AllocReturn(c, NULL)
    BY <1>0, <1>1, <1>m, <1>r, <2>3 DEF Search, CallTyped, NULL, AllocStep, FreeStep, Walk, TestNext, GrowNext, LinkNext, GrowPrev, LinkPrev, Mark
  <2> QED
    BY <1>1, <2>1, <2>2, <2>3 DEF Search
<1>2. CASE Fit(c)
  <2>1. PICK s \in {"take", "carve"} : To(c, s)
    BY <1>2 DEF Fit
  <2>2. s \in Steps
    BY DEF Steps
  <2> QED
    BY <1>0, <1>2, <1>m, <1>t, <2>1, <2>2 DEF Fit, CallTyped, AllocStep, FreeStep, Walk, TestNext, GrowNext, LinkNext, GrowPrev, LinkPrev, Mark
<1>3. CASE Claim(c)
  <2>1. mem' \in [Words -> Header]
    BY <1>0, <1>3, FlagStores, StoreTypes DEF Claim
  <2> QED
    BY <1>0, <1>3, <1>m, <1>r, <2>1, SMTT(30) DEF Claim, CallTyped, HEADER_SIZE, AllocStep, FreeStep, Walk, TestNext, GrowNext, LinkNext, GrowPrev, LinkPrev, Mark
<1>4. CASE Carve(c)
  <2>1. mem' \in [Words -> Header] /\ Remainder(c) \in Words
    BY <1>4, CarveStores, StoreTypes
  <2>2. "shrink" \in Steps /\ To(c, "shrink")
    BY <1>4 DEF Steps, Carve
  <2>3. Remainder(c)' = Remainder(c)
    BY <1>t, <2>2 DEF Remainder
  <2> QED
    BY <1>0, <1>4, <1>m, <1>t, <2>1, <2>2, <2>3 DEF Carve, CallTyped, AllocStep, FreeStep, Walk, TestNext, GrowNext, LinkNext, GrowPrev, LinkPrev, Mark
<1>5. CASE Shrink(c)
  <2>1. call[c].size \in 0 .. SizeWrap - 1
    <3>1. call[c].size \in Nat /\ call[c].size < SizeWrap
      BY <1>0, <1>5 DEF Shrink, CallTyped
    <3> QED
      BY <3>1, UpToWrap
  <2>2. mem' \in [Words -> Header]
    BY <1>0, <1>5, <2>1, SizeStores, StoreTypes DEF Shrink
  <2>3. "join" \in Steps /\ To(c, "join")
    BY <1>5 DEF Steps, Shrink
  <2>4. Remainder(c)' = Remainder(c)
    BY <1>t, <2>3 DEF Remainder
  <2> QED
    BY <1>0, <1>5, <1>m, <1>t, <2>2, <2>3, <2>4 DEF Shrink, CallTyped, AllocStep, FreeStep, Walk, TestNext, GrowNext, LinkNext, GrowPrev, LinkPrev, Mark
<1>6. CASE Join(c)
  <2>1. Remainder(c) \in Words
    BY <1>6 DEF Join, CallTyped
  <2>2. mem' \in [Words -> Header]
    BY <1>0, <1>6, <2>1, LinkStores, StoreTypes DEF Join
  <2>3. "claim" \in Steps /\ To(c, "claim")
    BY <1>6 DEF Steps, Join
  <2> QED
    BY <1>0, <1>6, <1>m, <1>t, <2>1, <2>2, <2>3 DEF Join, CallTyped, AllocStep, FreeStep, Walk, TestNext, GrowNext, LinkNext, GrowPrev, LinkPrev, Mark
<1>7. CASE TestNext(c)
  <2>1. PICK s \in {"grow", "walk"} : To(c, s)
    BY <1>7 DEF TestNext
  <2>2. s \in Steps
    BY DEF Steps
  <2> QED
    BY <1>0, <1>7, <1>m, <1>t, <2>1, <2>2 DEF TestNext, CallTyped, AllocStep, Search, Fit, Claim, Carve, Shrink, Join
<1>8. CASE GrowNext(c)
  <2>1. Behind(c) \in Words /\ mem' \in [Words -> Header]
    BY <1>0, <1>8, GrownStores, StoreTypes DEF GrowNext, Behind
  <2>2. "link" \in Steps /\ To(c, "link")
    BY <1>8 DEF Steps, GrowNext
  <2> QED
    BY <1>0, <1>8, <1>m, <1>t, <2>1, <2>2 DEF GrowNext, CallTyped, AllocStep, Search, Fit, Claim, Carve, Shrink, Join
<1>9. CASE LinkNext(c)
  <2>1. Behind(c) \in Words
    BY <1>0 DEF Behind
  <2>2. mem[Behind(c)].next \in Words
    BY <2>1, Fields
  <2>3. mem' \in [Words -> Header]
    BY <1>0, <1>9, <2>2, LinkStores, StoreTypes DEF LinkNext, Linked
  <2>4. "walk" \in Steps /\ To(c, "walk")
    BY <1>9 DEF Steps, LinkNext
  <2> QED
    BY <1>0, <1>9, <1>m, <1>t, <2>3, <2>4 DEF LinkNext, CallTyped, AllocStep, Search, Fit, Claim, Carve, Shrink, Join
<1>10. CASE Walk(c)
  <2>1. CASE \E s \in {"growprev", "mark"} : To(c, s)
    <3>1. PICK s \in {"growprev", "mark"} : To(c, s)
      BY <2>1
    <3>2. s \in Steps
      BY DEF Steps
    <3> QED
      BY <1>0, <1>10, <1>m, <1>t, <3>1, <3>2 DEF Walk, CallTyped, AllocStep, Search, Fit, Claim, Carve, Shrink, Join
  <2>2. CASE call' = [call EXCEPT ![c].prev = mem[call[c].prev].next]
    <3>1. mem[call[c].prev].next \in Words
      BY <1>0, Fields
    <3>2. /\ call' \in [Context -> CallType]
          /\ call'[c].step = "walk"
          /\ \A d \in Context : d # c => call'[d] = call[d]
      BY <1>0, <1>10, <2>2, <3>1 DEF Walk, CallType
    <3> QED
      BY <1>0, <1>10, <1>m, <3>2 DEF Walk, CallTyped, AllocStep, Search, Fit, Claim, Carve, Shrink, Join
  <2> QED
    BY <1>10, <2>1, <2>2 DEF Walk
<1>11. CASE GrowPrev(c)
  <2>1. mem' \in [Words -> Header]
    BY <1>0, <1>11, GrownStores, StoreTypes DEF GrowPrev
  <2>2. "linkprev" \in Steps /\ To(c, "linkprev")
    BY <1>11 DEF Steps, GrowPrev
  <2> QED
    BY <1>0, <1>11, <1>m, <1>t, <2>1, <2>2 DEF GrowPrev, CallTyped, AllocStep, Search, Fit, Claim, Carve, Shrink, Join
<1>12. CASE LinkPrev(c)
  <2>1. mem' \in [Words -> Header]
    BY <1>0, <1>12, LinkStores, StoreTypes DEF LinkPrev, Linked
  <2>2. /\ call' \in [Context -> CallType]
        /\ call'[c].step = "mark"
        /\ \A d \in Context : d # c => call'[d] = call[d]
    BY <1>0, <1>12 DEF LinkPrev, CallType, Steps
  <2> QED
    BY <1>0, <1>12, <1>m, <2>1, <2>2 DEF LinkPrev, CallTyped, AllocStep, Search, Fit, Claim, Carve, Shrink, Join
<1>13. CASE Mark(c)
  <2>1. mem' \in [Words -> Header]
    BY <1>0, <1>13, FlagStores, StoreTypes DEF Mark
  <2>2. /\ call' \in [Context -> CallType]
        /\ call'[c].step = "idle"
        /\ \A d \in Context : d # c => call'[d] = call[d]
    <3>1. 0 \in Words
      BY UsbMemoryAssumption DEF Words, HEADER_SIZE
    <3> QED
      BY <1>0, <1>13, <3>1 DEF Mark, CallType, Steps, Idle
  <2> QED
    BY <1>0, <1>13, <1>m, <2>1, <2>2 DEF Mark, CallTyped, AllocStep, Search, Fit, Claim, Carve, Shrink, Join
<1> QED
  BY <1>1, <1>2, <1>3, <1>4, <1>5, <1>6, <1>7, <1>8, <1>9, <1>10, <1>11, <1>12, <1>13
  DEF AllocStep, FreeStep

(***************************************************************************)
(* What a call has established before each of its steps                    *)
(***************************************************************************)
(* M is the memory, D the list, b the block of the call and n its size.    *)
PoolOf(M, D) == [a \in D |-> M[a]]

Whole(M, D) == PoolInv(PoolOf(M, D))

InUse(M, D, a) == a \in D /\ ~M[a].isFree

(* The blocks in use are the same, but perhaps for block b.                *)
SameUse(M, D, N, E) == \A a : InUse(N, E, a) <=> InUse(M, D, a)

SameUseBut(M, D, N, E, b) == \A a : a # b => (InUse(N, E, a) <=> InUse(M, D, a))

(* The list would be intact if block x were as in Q.                       *)
Half(M, D, Q, x) ==
    /\ PoolInv(Q) /\ DOMAIN Q = D /\ x \in D
    /\ \A a \in D : a # x => Q[a] = M[a]

(* A call of USB_Memory_Alloc: a block has been found,                     *)
Found(M, D, b) == Whole(M, D) /\ b \in D /\ M[b].isFree

(* it is larger than asked for,                                            *)
Large(M, D, b, n) == Found(M, D, b) /\ M[b].size > 4 + n

(* the header of the rest has been written,                                *)
Carved(M, D, b, n) ==
    /\ Large(M, D, b, n) /\ b + 4 + n \in Words
    /\ M[b + 4 + n].size = M[b].size - (4 + n)
    /\ M[b + 4 + n].isFree /\ M[b + 4 + n].next = M[b].next

(* the block has its size,                                                 *)
Shrunk(M, D, b, n) ==
    /\ b \in D /\ M[b].isFree
    /\ b + 4 + n \in Words \ D /\ M[b + 4 + n].isFree
    /\ \E Q : /\ Half(M, D \union {b + 4 + n}, Q, b)
              /\ Q[b].size = M[b].size /\ ~Q[b].isFree /\ Q[b].next = b + 4 + n

(* and its link.                                                           *)
Joined(M, D, b) ==
    /\ M[b].isFree
    /\ \E Q : /\ Half(M, D, Q, b)
              /\ Q[b].size = M[b].size /\ ~Q[b].isFree /\ Q[b].next = M[b].next

(* A call of USB_Memory_Free, of a block that is or is not in the list:    *)
(* what follows is free,                                                   *)
NextFree(M, D, b) ==
    Whole(M, D) /\ (b \in D => M[b].next # 0 /\ M[M[b].next].isFree)

(* the block has taken it in,                                              *)
Grew(M, D, b) ==
    IF b \in D
      THEN /\ M[b].next \in D /\ M[b].next # b
           /\ M[M[b].next].isFree /\ ~M[b].isFree
           /\ \E Q : /\ Half(M, D \ {M[b].next}, Q, b)
                     /\ Q[b].size = M[b].size /\ ~Q[b].isFree
                     /\ Q[b].next = M[M[b].next].next
                     /\ Q[b].next # 0 => ~Q[Q[b].next].isFree
      ELSE Whole(M, D)

NextUsed(M, D, b) == b \in D /\ M[b].next # 0 => ~M[M[b].next].isFree

PrevUsed(M, D, b) == \A x \in D : M[x].next # 0 /\ M[x].next = b => ~M[x].isFree

(* the walk is at p,                                                       *)
Walking(M, D, b, p) ==
    /\ Whole(M, D) /\ NextUsed(M, D, b)
    /\ p \in D /\ (b \in D /\ b # 0 => p < b)

(* which is free and in front,                                             *)
PrevFree(M, D, b, p) ==
    /\ Whole(M, D) /\ NextUsed(M, D, b)
    /\ p \in D /\ M[p].next = b /\ b # 0 /\ M[p].isFree

(* p has taken the block in,                                               *)
PrevGrew(M, D, b, p) ==
    /\ b \in D /\ b # p /\ M[p].isFree
    /\ \E Q : /\ Half(M, D \ {b}, Q, p)
              /\ Q[p].size = M[p].size /\ Q[p].isFree /\ Q[p].next = M[b].next

(* or what is around the block is in use.                                  *)
Ready(M, D, b) ==
    /\ Whole(M, D)
    /\ b \in D => M[b].isFree \/ (NextUsed(M, D, b) /\ PrevUsed(M, D, b))

Sound(M, D, k) ==
    /\ k.step \in {"idle", "test"} => Whole(M, D)
    /\ k.step = "search" => Whole(M, D) /\ k.blk \in D
    /\ k.step \in {"fit", "take"} => Found(M, D, k.blk)
    /\ k.step = "carve" => Large(M, D, k.blk, k.size)
    /\ k.step = "shrink" => Carved(M, D, k.blk, k.size)
    /\ k.step = "join" => Shrunk(M, D, k.blk, k.size)
    /\ k.step = "claim" => Joined(M, D, k.blk)
    /\ k.step = "grow" => NextFree(M, D, k.blk)
    /\ k.step = "link" => Grew(M, D, k.blk)
    /\ k.step = "walk" => Walking(M, D, k.blk, k.prev)
    /\ k.step = "growprev" => PrevFree(M, D, k.blk, k.prev)
    /\ k.step = "linkprev" => PrevGrew(M, D, k.blk, k.prev)
    /\ k.step = "mark" => Ready(M, D, k.blk)

(* Headers with the same fields are the same.                              *)
LEMMA SameHeader ==
    ASSUME NEW h \in RawHeader, NEW k \in RawHeader,
           h.size = k.size, h.isFree = k.isFree, h.next = k.next
    PROVE  h = k
  BY DEF RawHeader

(* The headers of the list are a typed pool. *)
LEMMA PoolOfTyped ==
    ASSUME NEW M \in [Words -> Header], NEW D, D \subseteq Words
    PROVE  /\ Typed(PoolOf(M, D)) /\ DOMAIN PoolOf(M, D) = D
           /\ \A a \in D : PoolOf(M, D)[a] = M[a] /\ M[a] \in RawHeader
           /\ \A a \in D : M[a].size \in Nat /\ M[a].isFree \in BOOLEAN /\ M[a].next \in Nat
<1>1. Words \subseteq Nat
  BY DEF Words
<1>2. \A a \in D : M[a] \in Header
  OBVIOUS
<1>3. \A h \in Header : /\ h \in RawHeader
                        /\ h.size \in Nat /\ h.isFree \in BOOLEAN /\ h.next \in Nat
  <2>1. 0 .. SizeWrap - 1 \subseteq Nat
    BY WrapIsPositive
  <2> QED
    BY <1>1, <2>1 DEF Header, RawHeader
<1>4. \A a \in D : M[a] \in RawHeader
  BY <1>2, <1>3
<1> QED
  BY <1>1, <1>2, <1>3, <1>4 DEF Typed, PoolOf

(* What an intact list says of its headers.                                *)
LEMMA WholeFields ==
    ASSUME NEW M \in [Words -> Header], NEW D, D \subseteq Words, Whole(M, D)
    PROVE  /\ 0 \in D /\ Blocks(PoolOf(M, D))
           /\ \A a \in D : M[a].next # 0 => M[a].next \in D /\ M[a].next # a
           /\ \A a \in D : a + 4 + M[a].size <= PoolSize
           /\ \A a \in D : M[a].next # 0 => ~(M[a].isFree /\ M[M[a].next].isFree)
<1> DEFINE P == PoolOf(M, D)
<1>1. /\ DOMAIN P = D /\ \A a \in D : P[a] = M[a] /\ M[a].size \in Nat /\ M[a].next \in Nat
  BY PoolOfTyped
<1>2. PoolInv(P)
  BY DEF Whole
<1>3. Blocks(P) /\ Coalesced(P)
  BY <1>2, PoolIsBlocks
<1> HIDE DEF P
<1>4. \A a \in D : a + 4 + P[a].size <= PoolSize
  BY <1>1, <1>3, EndsInPool
<1>5. 0 \in D
  BY <1>1, <1>3 DEF Blocks, Tiled
<1>6. \A a \in D : P[a].next # 0 => P[a].next \in D /\ P[a].next # a
  <2>1. TAKE a \in D
  <2>2. P[a].next # 0 => P[a].next \in D /\ P[a].next = EndOf(P, a)
    BY <1>1, <1>3, BlockFields
  <2>3. EndOf(P, a) # a
    <3>1. EndOf(P, a) = a + 4 + P[a].size /\ a \in Nat /\ P[a].size \in Nat
      BY <1>1, <1>3, BlockFields
    <3> QED
      BY <3>1
  <2> QED
    BY <2>2, <2>3
<1>7. \A a \in D : P[a].next # 0 => ~(P[a].isFree /\ P[P[a].next].isFree)
  BY <1>1, <1>3 DEF Coalesced
<1>8. Blocks(PoolOf(M, D))
  BY <1>3 DEF P
<1>9. \A a \in D : P[a] = M[a]
  BY <1>1
<1> QED
  BY <1>4, <1>5, <1>6, <1>7, <1>8, <1>9

(* A list is intact whose headers are those of an intact pool; what is     *)
(* outside the list does not matter.                                       *)
LEMMA WholeIs ==
    ASSUME NEW M \in [Words -> Header], NEW D, D \subseteq Words,
           NEW Q, PoolInv(Q), DOMAIN Q = D, NEW x,
           \A a \in D : a # x => Q[a] = M[a],
           x \in D => /\ Q[x].size = M[x].size /\ Q[x].isFree = M[x].isFree
                      /\ Q[x].next = M[x].next
    PROVE  Whole(M, D) /\ Q = PoolOf(M, D)
<1>1. Q \in [D -> RawHeader]
  BY DEF PoolInv, Typed
<1>2. \A a \in D : M[a] \in RawHeader
  BY PoolOfTyped
<1>3. \A a \in D : Q[a] = M[a]
  BY <1>1, <1>2, SameHeader
<1>4. Q = PoolOf(M, D)
  BY <1>1, <1>3 DEF PoolOf
<1> QED
  BY <1>4 DEF Whole

(* A store to a header that is not in the list leaves the list whole. *)
LEMMA WholeOutside ==
    ASSUME NEW M \in [Words -> Header], NEW D, D \subseteq Words, Whole(M, D),
           NEW N \in [Words -> Header], NEW x, x \notin D,
           \A a \in Words : a # x => N[a] = M[a]
    PROVE  Whole(N, D)
<1>1. PoolOf(N, D) = PoolOf(M, D)
  BY DEF PoolOf
<1> QED
  BY <1>1 DEF Whole

(***************************************************************************)
(* What each step of a call establishes                                    *)
(***************************************************************************)
(* The steps of USB_Memory_Alloc. *)
LEMMA TakeSound ==
    ASSUME NEW M \in [Words -> Header], NEW D, D \subseteq Words, NEW b, Found(M, D, b),
           NEW N, FlagStored(M, N, b, FALSE)
    PROVE  /\ Whole(N, D) /\ ~InUse(M, D, b) /\ InUse(N, D, b)
           /\ SameUseBut(M, D, N, D, b)
<1> USE DEF FlagStored, Elsewhere, SameUseBut
<1> DEFINE P == PoolOf(M, D)
           Q == PoolOf(N, D)
<1>1. /\ Typed(Q) /\ DOMAIN P = D /\ DOMAIN Q = D
      /\ \A a \in D : P[a] = M[a] /\ Q[a] = N[a]
  BY PoolOfTyped
<1>2. PoolInv(P) /\ b \in D /\ M[b].isFree
  BY DEF Found, Whole
<1>3. \A a \in D : P[a].size = Q[a].size /\ P[a].next = Q[a].next
  BY <1>1
<1>4. \A a \in D : a # b => P[a].isFree = Q[a].isFree
  BY <1>1
<1>5. ~Q[b].isFree
  BY <1>1, <1>2
<1> HIDE DEF P, Q
<1>6. PoolInv(Q)
  BY <1>1, <1>2, <1>3, <1>4, <1>5, TakeGood
<1> QED
  BY <1>2, <1>6 DEF Q, Whole, InUse

(* Writing the header of the rest leaves the list as it is, *)
LEMMA CarveSound ==
    ASSUME NEW M \in [Words -> Header], NEW D, D \subseteq Words, NEW b, NEW n \in Nat,
           Large(M, D, b, n), NEW r \in Words, r = b + 4 + n,
           NEW N, HeaderStored(M, N, r, (M[b].size - (4 + n)) % SizeWrap, M[b].next)
    PROVE  Carved(N, D, b, n) /\ SameUse(M, D, N, D)
<1> USE DEF HeaderStored, Elsewhere, SameUse
<1>1. /\ Whole(M, D) /\ b \in D /\ M[b].isFree /\ M[b].size > 4 + n
      /\ b \in Nat /\ M[b].size \in 0 .. SizeWrap - 1
  BY DEF Large, Found, Words, Header
<1>2. r \notin D
  <2>1. Blocks(PoolOf(M, D)) /\ DOMAIN PoolOf(M, D) = D /\ PoolOf(M, D)[b] = M[b]
    BY <1>1, WholeFields, PoolOfTyped
  <2> QED
    BY <1>1, <2>1, RestIsNew
<1>3. \A x \in D : N[x] = M[x]
  BY <1>2
<1>4. Whole(N, D)
  BY <1>1, <1>2, WholeOutside
<1>5. (M[b].size - (4 + n)) % SizeWrap = M[b].size - (4 + n)
  <2>1. M[b].size - (4 + n) \in Nat /\ M[b].size - (4 + n) < SizeWrap
    BY <1>1, WrapIsPositive
  <2> QED
    BY <2>1, WrapSmall
<1>6. N[b] = M[b]
  BY <1>1, <1>3
<1> QED
  BY <1>1, <1>3, <1>4, <1>5, <1>6 DEF Carved, Large, Found, InUse

(* the smaller size is right once the rest is linked, *)
LEMMA ShrinkSound ==
    ASSUME NEW M \in [Words -> Header], NEW D, D \subseteq Words, NEW b, NEW n \in Nat,
           n % 4 = 0, Carved(M, D, b, n),
           NEW N, SizeStored(M, N, b, n)
    PROVE  Shrunk(N, D, b, n) /\ SameUse(M, D, N, D)
<1> USE DEF SizeStored, Elsewhere, SameUse
<1> DEFINE P == PoolOf(M, D)
           r == b + 4 + n
           Q == [x \in D \union {r} |->
                   IF x = b THEN [size |-> n, isFree |-> FALSE, next |-> r] ELSE M[x]]
<1>1. /\ Whole(M, D) /\ b \in D /\ b \in Nat /\ M[b].isFree /\ M[b].size > 4 + n
      /\ r \in Words /\ r \in Nat
      /\ M[r].size = M[b].size - (4 + n) /\ M[r].isFree /\ M[r].next = M[b].next
  BY DEF Carved, Large, Found, Words
<1>2. /\ PoolInv(P) /\ DOMAIN P = D /\ P[b] = M[b] /\ Blocks(P)
      /\ \A x \in D : P[x] = M[x] /\ M[x] \in RawHeader
  <2>1. PoolInv(P) /\ Blocks(P)
    BY <1>1, WholeFields DEF Whole
  <2>2. DOMAIN P = D /\ \A x \in D : P[x] = M[x] /\ M[x] \in RawHeader
    BY PoolOfTyped
  <2> QED
    BY <1>1, <2>1, <2>2
<1>3. r \notin D
  <2> HIDE DEF P
  <2> QED
    BY <1>1, <1>2, RestIsNew
<1>4. M[r] \in RawHeader
  <2>1. {r} \subseteq Words
    BY <1>1
  <2> QED
    BY <2>1, PoolOfTyped
<1>5. /\ DOMAIN Q = D \union {r} /\ Typed(Q)
      /\ Q[b].size = n /\ ~Q[b].isFree /\ Q[b].next = r /\ Q[r] = M[r]
      /\ \A x \in D : x # b => Q[x] = P[x]
  <2>1. r # b
    BY <1>1, <1>3
  <2>2. D \union {r} \subseteq Nat
    BY <1>1 DEF Words
  <2>3. [size |-> n, isFree |-> FALSE, next |-> r] \in RawHeader
    BY <1>1 DEF RawHeader
  <2> HIDE DEF P, r
  <2> QED
    BY <1>1, <1>2, <1>3, <1>4, <2>1, <2>2, <2>3 DEF Typed
<1> HIDE DEF P, Q
<1>6. PoolInv(Q)
  <2>1. /\ b \in DOMAIN P /\ P[b].isFree /\ P[b].size > 4 + n /\ r = b + 4 + n
        /\ Q[r].size = P[b].size - (4 + n) /\ Q[r].isFree /\ Q[r].next = P[b].next
        /\ DOMAIN Q = DOMAIN P \union {r}
        /\ \A x \in DOMAIN P : x # b => Q[x] = P[x]
    BY <1>1, <1>2, <1>5
  <2> HIDE DEF r
  <2> QED
    BY <1>2, <1>5, <2>1, SplitGood
<1>7. Half(N, D \union {r}, Q, b)
  BY <1>1, <1>2, <1>3, <1>5, <1>6 DEF Half
<1>8. N[r] = M[r] /\ N[b].isFree
  BY <1>1, <1>3
<1>9. \A x \in D : N[x].isFree = M[x].isFree
  BY <1>1
<1> QED
  BY <1>1, <1>3, <1>5, <1>7, <1>8, <1>9 DEF Shrunk, InUse

(* then only the flag is missing, *)
LEMMA JoinSound ==
    ASSUME NEW M \in [Words -> Header], NEW D, D \subseteq Words, NEW b, NEW n \in Nat,
           Shrunk(M, D, b, n),
           NEW N, LinkStored(M, N, b, b + 4 + n),
           NEW E, E = D \union {b + 4 + n}
    PROVE  Joined(N, E, b) /\ SameUse(M, D, N, E)
<1> USE DEF LinkStored, Elsewhere, SameUse
<1> DEFINE r == b + 4 + n
<1>1. b \in D /\ M[b].isFree /\ r \in Words \ D /\ M[r].isFree
  BY DEF Shrunk
<1>2. PICK Q : /\ Half(M, D \union {r}, Q, b)
               /\ Q[b].size = M[b].size /\ ~Q[b].isFree /\ Q[b].next = r
  BY DEF Shrunk
<1>3. Half(N, E, Q, b) /\ Q[b].size = N[b].size /\ ~Q[b].isFree /\ Q[b].next = N[b].next
  BY <1>1, <1>2 DEF Half
<1>4. Joined(N, E, b)
  BY <1>1, <1>3 DEF Joined
<1>5. N[r] = M[r] /\ \A x \in D : N[x].isFree = M[x].isFree
  BY <1>1
<1> QED
  BY <1>1, <1>4, <1>5 DEF InUse

(* and with it the block is in use. *)
LEMMA ClaimSound ==
    ASSUME NEW M \in [Words -> Header], NEW D, D \subseteq Words, NEW b, Joined(M, D, b),
           NEW N, FlagStored(M, N, b, FALSE)
    PROVE  /\ Whole(N, D) /\ ~InUse(M, D, b) /\ InUse(N, D, b)
           /\ SameUseBut(M, D, N, D, b)
<1> USE DEF FlagStored, Elsewhere, SameUseBut
<1>1. PICK Q : /\ Half(M, D, Q, b)
               /\ Q[b].size = M[b].size /\ ~Q[b].isFree /\ Q[b].next = M[b].next
  BY DEF Joined
<1>2. PoolInv(Q) /\ DOMAIN Q = D /\ b \in D /\ \A a \in D : a # b => Q[a] = M[a]
  BY <1>1 DEF Half
<1>3. Q[b].isFree = N[b].isFree
  <2>1. Q[b] \in RawHeader
    BY <1>2 DEF PoolInv, Typed
  <2>2. Q[b].isFree \in BOOLEAN
    BY <2>1 DEF RawHeader
  <2> QED
    BY <1>1, <2>2
<1>4. \A a \in D : a # b => Q[a] = N[a]
  BY <1>2
<1>5. Whole(N, D)
  BY <1>1, <1>2, <1>3, <1>4, WholeIs
<1> QED
  BY <1>2, <1>5 DEF Joined, InUse

(* The steps of USB_Memory_Free. *)
LEMMA GrowNextSound ==
    ASSUME NEW M \in [Words -> Header], NEW D, D \subseteq Words, NEW b \in Words,
           NextFree(M, D, b), NEW nx \in Words, nx = M[b].next, nx # 0,
           NEW N, SizeStored(M, N, b, (M[b].size + M[nx].size + 4) % SizeWrap)
    PROVE  Grew(N, D, b) /\ SameUse(M, D, N, D)
<1> USE DEF SizeStored, Elsewhere, SameUse
<1>1. Whole(M, D) /\ (b \in D => nx # 0 /\ M[nx].isFree)
  BY DEF NextFree
<1>2. CASE b \notin D
  <2>1. Whole(N, D)
    BY <1>1, <1>2, WholeOutside
  <2>2. \A x \in D : N[x] = M[x]
    BY <1>2
  <2> QED
    BY <1>2, <2>1, <2>2 DEF Grew, InUse
<1>3. CASE b \in D
  <2> DEFINE P == PoolOf(M, D)
             z == M[b].size + M[nx].size + 4
             Q == [x \in D \ {nx} |->
                     IF x = b THEN [size |-> z, isFree |-> FALSE, next |-> M[nx].next] ELSE M[x]]
  <2>1. /\ nx \in D /\ nx # b /\ M[nx].isFree /\ ~M[b].isFree
    BY <1>1, <1>3, WholeFields
  <2>2. PoolInv(P)
    BY <1>1 DEF Whole
  <2>3. /\ DOMAIN P = D
        /\ \A x \in D : P[x] = M[x] /\ M[x] \in RawHeader
        /\ \A x \in D : M[x].size \in Nat /\ M[x].next \in Nat
    BY PoolOfTyped
  <2>4. z \in Nat
    BY <1>3, <2>1, <2>3
  <2>5. [size |-> z, isFree |-> FALSE, next |-> M[nx].next] \in RawHeader
    BY <2>1, <2>3, <2>4 DEF RawHeader
  <2>6. D \ {nx} \subseteq Nat
    <3>1. Words \subseteq Nat
      BY DEF Words
    <3> QED
      BY <3>1
  <2>7. /\ Typed(Q) /\ DOMAIN Q = D \ {nx}
        /\ Q[b].size = z /\ ~Q[b].isFree /\ Q[b].next = M[nx].next
        /\ \A x \in D \ {nx} : x # b => Q[x] = M[x]
    <3> HIDE DEF z
    <3> QED
      BY <1>3, <2>1, <2>3, <2>5, <2>6 DEF Typed
  <2> HIDE DEF P, Q
  <2>8. PoolInv(Q) /\ (Q[b].next # 0 => ~Q[Q[b].next].isFree)
    <3>1. /\ b \in DOMAIN P /\ ~P[b].isFree /\ nx = P[b].next /\ P[nx].isFree
          /\ DOMAIN Q = DOMAIN P \ {nx}
          /\ Q[b].size = P[b].size + P[nx].size + 4 /\ Q[b].next = P[nx].next
          /\ \A x \in DOMAIN Q : x # b => Q[x] = P[x]
      BY <1>3, <2>1, <2>3, <2>7
    <3>2. Typed(Q) /\ ~Q[b].isFree
      BY <2>7
    <3> QED
      BY <1>3, <2>2, <3>1, <3>2, MergeNextGood
  <2>9. N[b].size = z
    <3>1. b + 4 + Q[b].size <= PoolSize
      BY <1>3, <2>1, <2>7, <2>8, PoolIsBlocks, EndsInPool
    <3>2. z < SizeWrap
      BY <2>4, <2>7, <3>1, UsbMemoryAssumption, WrapIsPositive DEF Words
    <3>3. N[b].size = z % SizeWrap
      OBVIOUS
    <3> HIDE DEF z
    <3> QED
      BY <2>4, <3>2, <3>3, WrapSmall
  <2>10. N[nx] = M[nx] /\ \A x \in D : N[x].isFree = M[x].isFree
    BY <1>3, <2>1
  <2>11. Half(N, D \ {nx}, Q, b)
    BY <1>3, <2>1, <2>7, <2>8 DEF Half
  <2>12. Grew(N, D, b)
    <3> HIDE DEF z
    <3> QED
      BY <1>3, <2>1, <2>7, <2>8, <2>9, <2>10, <2>11 DEF Grew
  <2> QED
    BY <2>10, <2>12 DEF InUse
<1> QED
  BY <1>2, <1>3

(* With its link stored, the block has taken in what was behind it. *)
LEMMA LinkNextSound ==
    ASSUME NEW M \in [Words -> Header], NEW D, D \subseteq Words, NEW b \in Words,
           Grew(M, D, b), NEW nx \in Words, nx = M[b].next,
           NEW N, LinkStored(M, N, b, M[nx].next),
           NEW E, E = IF b \in D THEN D \ {nx} ELSE D
    PROVE  Walking(N, E, b, 0) /\ SameUse(M, D, N, E)
<1> USE DEF LinkStored, Elsewhere, SameUse
<1>1. CASE b \notin D
  <2>1. Whole(N, D)
    BY <1>1, WholeOutside DEF Grew
  <2>2. \A x \in D : N[x] = M[x]
    BY <1>1
  <2>3. 0 \in D
    BY <2>1, WholeFields
  <2> QED
    BY <1>1, <2>1, <2>2, <2>3 DEF Walking, NextUsed, InUse
<1>2. CASE b \in D
  <2>1. E = D \ {nx} /\ nx \in D /\ nx # b /\ M[nx].isFree /\ ~M[b].isFree /\ E \subseteq Words
    BY <1>2 DEF Grew
  <2>2. PICK Q : /\ Half(M, E, Q, b)
                 /\ Q[b].size = M[b].size /\ ~Q[b].isFree /\ Q[b].next = M[nx].next
                 /\ Q[b].next # 0 => ~Q[Q[b].next].isFree
    BY <1>2, <2>1 DEF Grew
  <2>3. /\ PoolInv(Q) /\ DOMAIN Q = E /\ b \in E
        /\ \A x \in E : x # b => Q[x] = N[x]
    BY <2>1, <2>2 DEF Half
  <2>4. Q[b].isFree = N[b].isFree
    <3>1. Q[b] \in RawHeader
      BY <2>3 DEF PoolInv, Typed
    <3>2. N[b] \in RawHeader
      BY <1>2, PoolOfTyped
    <3> QED
      BY <2>1, <2>2, <3>1, <3>2 DEF RawHeader
  <2>5. Whole(N, E) /\ Q = PoolOf(N, E)
    BY <2>1, <2>2, <2>3, <2>4, WholeIs
  <2>6. 0 \in E /\ \A x \in E : N[x].next # 0 => N[x].next \in E /\ N[x].next # x
    BY <2>1, <2>5, WholeFields
  <2>7. NextUsed(N, E, b)
    BY <2>2, <2>3, <2>6 DEF NextUsed
  <2>8. b # 0 => 0 < b
    BY DEF Words
  <2>9. \A x : InUse(N, E, x) <=> InUse(M, D, x)
    BY <1>2, <2>1 DEF InUse
  <2> QED
    BY <2>5, <2>6, <2>7, <2>8, <2>9 DEF Walking
<1> QED
  BY <1>1, <1>2

(* The walk ends at the block in front, or finds none. *)
LEMMA WalkSound ==
    ASSUME NEW M \in [Words -> Header], NEW D, D \subseteq Words, NEW b \in Words,
           NEW p \in Words, Walking(M, D, b, p)
    PROVE  /\ M[p].next # 0 /\ M[p].next = b /\ M[p].isFree => PrevFree(M, D, b, p)
           /\ M[p].next # 0 /\ M[p].next = b /\ ~M[p].isFree => Ready(M, D, b)
           /\ M[p].next # 0 /\ M[p].next # b => Walking(M, D, b, M[p].next)
           /\ M[p].next = 0 => Ready(M, D, b)
<1> DEFINE P == PoolOf(M, D)
<1>1. Whole(M, D) /\ NextUsed(M, D, b) /\ p \in D /\ (b \in D /\ b # 0 => p < b)
  BY DEF Walking
<1>2. /\ Blocks(P)
      /\ \A a \in D : M[a].next # 0 => M[a].next \in D /\ M[a].next # a
  BY <1>1, WholeFields
<1>3. DOMAIN P = D /\ \A x \in D : P[x] = M[x]
  BY PoolOfTyped
<1>4. b < PoolSize /\ b \in Nat
  BY UsbMemoryAssumption DEF Words
<1> HIDE DEF P
<1>5. ASSUME M[p].next # b, b \in D, b # 0
      PROVE  M[p].next # 0 /\ M[p].next \in D /\ M[p].next < b
  <2>1. p < b /\ P[p].next # b
    BY <1>1, <1>3, <1>5
  <2>2. P[p].next # 0 /\ P[p].next \in DOMAIN P /\ P[p].next < b
    BY <1>1, <1>2, <1>3, <1>4, <1>5, <2>1, FurtherInFront
  <2> QED
    BY <1>1, <1>3, <2>2
<1>6. ASSUME M[p].next = 0 PROVE PrevUsed(M, D, b) \/ b \notin D
  BY <1>5, <1>6 DEF PrevUsed
<1>7. ASSUME M[p].next # 0, M[p].next = b, ~M[p].isFree PROVE PrevUsed(M, D, b)
  <2>1. SUFFICES ASSUME NEW x \in D, M[x].next # 0, M[x].next = b PROVE x = p
    BY <1>7 DEF PrevUsed
  <2>2. P[x].next = b /\ P[p].next = b
    BY <1>1, <1>3, <1>7, <2>1
  <2> QED
    BY <1>1, <1>2, <1>3, <2>1, <2>2, OneInFront
<1> QED
  BY <1>1, <1>2, <1>5, <1>6, <1>7 DEF Walking, PrevFree, Ready

(* The block in front has the size of both, *)
LEMMA GrowPrevSound ==
    ASSUME NEW M \in [Words -> Header], NEW D, D \subseteq Words, NEW b \in Words,
           NEW p \in Words, PrevFree(M, D, b, p),
           NEW N, SizeStored(M, N, p, (M[p].size + M[b].size + 4) % SizeWrap)
    PROVE  PrevGrew(N, D, b, p) /\ SameUse(M, D, N, D)
<1> USE DEF SizeStored, Elsewhere, SameUse
<1> DEFINE P == PoolOf(M, D)
           z == M[p].size + M[b].size + 4
           Q == [x \in D \ {b} |->
                   IF x = p THEN [size |-> z, isFree |-> TRUE, next |-> M[b].next] ELSE M[x]]
<1>1. /\ Whole(M, D) /\ NextUsed(M, D, b)
      /\ p \in D /\ M[p].next = b /\ b # 0 /\ M[p].isFree
  BY DEF PrevFree
<1>2. b \in D /\ b # p
  BY <1>1, WholeFields
<1>3. PoolInv(P)
  BY <1>1 DEF Whole
<1>4. /\ DOMAIN P = D
      /\ \A x \in D : P[x] = M[x] /\ M[x] \in RawHeader
      /\ \A x \in D : M[x].size \in Nat /\ M[x].next \in Nat
  BY PoolOfTyped
<1>5. z \in Nat
  BY <1>1, <1>2, <1>4
<1>6. [size |-> z, isFree |-> TRUE, next |-> M[b].next] \in RawHeader
  BY <1>2, <1>4, <1>5 DEF RawHeader
<1>7. D \ {b} \subseteq Nat
  <2>1. Words \subseteq Nat
    BY DEF Words
  <2> QED
    BY <2>1
<1>8. /\ Typed(Q) /\ DOMAIN Q = D \ {b}
      /\ Q[p].size = z /\ Q[p].isFree /\ Q[p].next = M[b].next
      /\ \A x \in D \ {b} : x # p => Q[x] = M[x]
  <2> HIDE DEF z
  <2> QED
    BY <1>1, <1>2, <1>4, <1>6, <1>7 DEF Typed
<1> HIDE DEF P, Q
<1>9. PoolInv(Q)
  <2>1. /\ p \in DOMAIN P /\ P[p].isFree /\ b = P[p].next /\ b # 0
        /\ DOMAIN Q = DOMAIN P \ {b}
        /\ Q[p].size = P[p].size + P[b].size + 4 /\ Q[p].next = P[b].next
        /\ \A x \in DOMAIN Q : x # p => Q[x] = P[x]
    BY <1>1, <1>2, <1>4, <1>8
  <2>2. P[b].next # 0 => ~P[P[b].next].isFree
    <3>1. M[b].next # 0 => M[b].next \in D
      BY <1>1, <1>2, WholeFields
    <3> QED
      BY <1>1, <1>2, <1>4, <3>1 DEF NextUsed
  <2>3. Typed(Q) /\ Q[p].isFree
    BY <1>8
  <2> QED
    BY <1>3, <2>1, <2>2, <2>3, MergePrevGood
<1>10. N[p].size = z
  <2>1. p + 4 + Q[p].size <= PoolSize
    BY <1>1, <1>2, <1>8, <1>9, PoolIsBlocks, EndsInPool
  <2>2. z < SizeWrap
    BY <1>5, <1>8, <2>1, UsbMemoryAssumption, WrapIsPositive DEF Words
  <2>3. N[p].size = z % SizeWrap
    OBVIOUS
  <2> HIDE DEF z
  <2> QED
    BY <1>5, <2>2, <2>3, WrapSmall
<1>11. N[b] = M[b] /\ \A x \in D : N[x].isFree = M[x].isFree
  BY <1>1, <1>2
<1>12. Half(N, D \ {b}, Q, p)
  BY <1>1, <1>2, <1>8, <1>9 DEF Half
<1>13. PrevGrew(N, D, b, p)
  <2> HIDE DEF z
  <2> QED
    BY <1>1, <1>2, <1>8, <1>10, <1>11, <1>12 DEF PrevGrew
<1> QED
  BY <1>11, <1>13 DEF InUse

(* and, with its link stored, has taken the block in. *)
LEMMA LinkPrevSound ==
    ASSUME NEW M \in [Words -> Header], NEW D, D \subseteq Words, NEW b \in Words,
           NEW p \in Words, PrevGrew(M, D, b, p),
           NEW N, LinkStored(M, N, p, M[b].next),
           NEW E, E = D \ {b}
    PROVE  /\ Ready(N, E, p) /\ ~InUse(N, E, b) /\ ~InUse(N, E, p)
           /\ SameUseBut(M, D, N, E, b)
<1> USE DEF LinkStored, Elsewhere, SameUseBut
<1>1. b \in D /\ b # p /\ M[p].isFree /\ E \subseteq Words
  BY DEF PrevGrew
<1>2. PICK Q : /\ Half(M, E, Q, p)
               /\ Q[p].size = M[p].size /\ Q[p].isFree /\ Q[p].next = M[b].next
  BY DEF PrevGrew
<1>3. /\ PoolInv(Q) /\ DOMAIN Q = E /\ p \in E
      /\ \A x \in E : x # p => Q[x] = N[x]
  BY <1>1, <1>2 DEF Half
<1>4. Q[p].isFree = N[p].isFree
  <2>1. Q[p] \in RawHeader
    BY <1>3 DEF PoolInv, Typed
  <2>2. N[p] \in RawHeader
    BY <1>1, <1>3, PoolOfTyped
  <2> QED
    BY <1>1, <1>2, <2>1, <2>2 DEF RawHeader
<1>5. Whole(N, E)
  <2>1. Q[p].size = N[p].size /\ Q[p].next = N[p].next
    BY <1>2
  <2>2. E \subseteq Words /\ PoolInv(Q) /\ DOMAIN Q = E /\ \A x \in E : x # p => Q[x] = N[x]
    BY <1>1, <1>3
  <2>3. p \in E => Q[p].size = N[p].size /\ Q[p].isFree = N[p].isFree /\ Q[p].next = N[p].next
    BY <1>4, <2>1
  <2> QED
    BY <2>2, <2>3, WholeIs
<1>6. Ready(N, E, p) /\ ~InUse(N, E, b) /\ ~InUse(N, E, p)
  BY <1>1, <1>5 DEF Ready, InUse
<1>7. \A x \in D : N[x].isFree = M[x].isFree
  BY <1>1
<1> QED
  BY <1>6, <1>7 DEF InUse

(* A block that is marked free does not lie next to a free one. *)
LEMMA MarkSound ==
    ASSUME NEW M \in [Words -> Header], NEW D, D \subseteq Words, NEW b \in Words,
           Ready(M, D, b),
           NEW N, FlagStored(M, N, b, TRUE)
    PROVE  Whole(N, D) /\ ~InUse(N, D, b) /\ SameUseBut(M, D, N, D, b)
<1> USE DEF FlagStored, Elsewhere, SameUseBut
<1>1. Whole(M, D) /\ (b \in D => M[b].isFree \/ (NextUsed(M, D, b) /\ PrevUsed(M, D, b)))
  BY DEF Ready
<1>2. CASE b \notin D
  <2>1. Whole(N, D)
    BY <1>1, <1>2, WholeOutside
  <2> QED
    BY <1>2, <2>1 DEF InUse
<1>3. CASE b \in D
  <2> DEFINE P == PoolOf(M, D)
             Q == PoolOf(N, D)
  <2>1. /\ Typed(Q) /\ DOMAIN P = D /\ DOMAIN Q = D
        /\ \A a \in D : P[a] = M[a] /\ Q[a] = N[a]
    BY PoolOfTyped
  <2>2. PoolInv(P)
    BY <1>1 DEF Whole
  <2>3. \A a \in D : M[a].next # 0 => M[a].next \in D
    BY <1>1, WholeFields
  <2> HIDE DEF P, Q
  <2>4. /\ b \in DOMAIN P /\ DOMAIN Q = DOMAIN P /\ Q[b].isFree
        /\ \A a \in DOMAIN P : Q[a].size = P[a].size /\ Q[a].next = P[a].next
        /\ \A a \in DOMAIN P : a # b => Q[a].isFree = P[a].isFree
    BY <1>3, <2>1
  <2>5. \/ P[b].isFree
        \/ /\ P[b].next # 0 => ~P[P[b].next].isFree
           /\ \A a \in DOMAIN P : P[a].next # 0 /\ P[a].next = b => ~P[a].isFree
    BY <1>1, <1>3, <2>1, <2>3 DEF NextUsed, PrevUsed
  <2>6. PoolInv(Q)
    BY <2>1, <2>2, <2>4, <2>5, MarkGood
  <2>7. Whole(N, D)
    BY <2>6 DEF Q, Whole
  <2> QED
    BY <2>7 DEF InUse
<1> QED
  BY <1>2, <1>3

(***************************************************************************)
(* The steps of a call that no other call has disturbed                    *)
(***************************************************************************)

(* A step of USB_Memory_Alloc leaves the blocks in use, or hands out one. *)
LEMMA AllocStepSound ==
    ASSUME MemoryType, NEW c \in Context, CallTyped(c), Sound(mem, list, call[c]),
           AllocStep(c)
    PROVE  /\ Sound(mem', list', call'[c])
           /\ \/ /\ got' \in {got, NULL}
                 /\ SameUse(mem, list, mem', list')
              \/ /\ got' # NULL /\ call'[c].step = "idle"
                 /\ ~InUse(mem, list, got' - 4) /\ InUse(mem', list', got' - 4)
                 /\ SameUseBut(mem, list, mem', list', got' - 4)
<1> DEFINE b == call[c].blk
           n == call[c].size
<1>0. /\ b \in Words /\ b \in Nat /\ n \in Nat /\ call[c].prev \in Words
      /\ mem \in [Words -> Header] /\ list \subseteq Words /\ call \in [Context -> CallType]
  BY Fields DEF MemoryType, CallType
<1>t. ASSUME NEW s \in Steps, To(c, s)
      PROVE  call'[c].step = s /\ call'[c].blk = b /\ call'[c].size = n
  BY <1>t, ToFields
<1>r. ASSUME NEW p, AllocReturn(c, p)
      PROVE  call'[c].step = "idle" /\ got' = p
  BY <1>0, <1>r DEF AllocReturn, Idle
<1>1. CASE Search(c)
  <2>1. Whole(mem, list) /\ b \in list /\ UNCHANGED <<mem, list>>
    BY <1>1 DEF Search, At, Sound
  <2>2. CASE Fits(c) /\ To(c, "fit") /\ got' = got
    <3>1. call'[c].step = "fit" /\ call'[c].blk = b
      BY <1>t, <2>2 DEF Steps
    <3>2. mem[b].isFree
      BY <2>2 DEF Fits
    <3> QED
      BY <2>1, <2>2, <3>1, <3>2 DEF Sound, Found, SameUse, InUse
  <2>3. CASE mem[b].next # 0 /\ call' = [call EXCEPT ![c].blk = mem[b].next] /\ got' = got
    <3>1. call'[c].step = "search" /\ call'[c].blk = mem[b].next
      BY <1>0, <1>1, <2>3 DEF CallType, Search, At
    <3>2. mem[b].next \in list
      BY <1>0, <2>1, <2>3, WholeFields
    <3> QED
      BY <2>1, <2>3, <3>1, <3>2 DEF Sound, SameUse
  <2>4. CASE AllocReturn(c, NULL)
    BY <1>r, <2>1, <2>4 DEF Sound, SameUse
  <2> QED
    BY <1>1, <2>2, <2>3, <2>4 DEF Search
<1>2. CASE Fit(c)
  <2>1. Found(mem, list, b) /\ UNCHANGED <<mem, list, got>>
    BY <1>2 DEF Fit, At, Sound
  <2>2. CASE mem[b].size <= 4 + n
    <3>1. call'[c].step = "take" /\ call'[c].blk = b
      BY <1>2, <1>t, <2>2 DEF Fit, Steps, HEADER_SIZE
    <3> QED
      BY <2>1, <3>1 DEF Sound, SameUse
  <2>3. CASE ~(mem[b].size <= 4 + n)
    <3>1. call'[c].step = "carve" /\ call'[c].blk = b /\ call'[c].size = n
      BY <1>2, <1>t, <2>3 DEF Fit, Steps, HEADER_SIZE
    <3>2. mem[b].size > 4 + n
      <4>1. mem[b].size \in Nat
        BY <1>0, Fields, WrapIsPositive
      <4> QED
        BY <1>0, <2>3, <4>1
    <3> QED
      BY <2>1, <3>1, <3>2 DEF Sound, Large, SameUse
  <2> QED
    BY <2>2, <2>3
<1>3. CASE Claim(c)
  <2>1. FlagStored(mem, mem', b, FALSE)
    BY <1>0, <1>3, FlagStores DEF Claim
  <2>2. call'[c].step = "idle" /\ got' = b + 4 /\ got' - 4 = b /\ got' # NULL /\ list' = list
    BY <1>0, <1>3, <1>r DEF Claim, HEADER_SIZE, NULL
  <2>3. Found(mem, list, b) \/ Joined(mem, list, b)
    BY <1>3 DEF Claim, At, Sound
  <2>4. /\ Whole(mem', list) /\ ~InUse(mem, list, b) /\ InUse(mem', list, b)
        /\ SameUseBut(mem, list, mem', list, b)
    <3> HIDE DEF b
    <3>1. CASE Found(mem, list, b)
      BY <1>0, <2>1, <3>1, TakeSound
    <3>2. CASE Joined(mem, list, b)
      BY <1>0, <2>1, <3>2, ClaimSound
    <3> QED
      BY <2>3, <3>1, <3>2
  <2>5. Sound(mem', list', call'[c])
    BY <2>2, <2>4 DEF Sound
  <2> QED
    BY <2>2, <2>4, <2>5
<1>4. CASE Carve(c)
  <2> DEFINE r == b + 4 + n
  <2>1. /\ r \in Words /\ Remainder(c) = r
        /\ HeaderStored(mem, mem', r, (mem[b].size - (4 + n)) % SizeWrap, mem[b].next)
    <3>1. Remainder(c) = r
      BY <1>0 DEF Remainder, HEADER_SIZE
    <3> QED
      BY <1>4, <3>1, CarveStores
  <2>2. call'[c].step = "shrink" /\ call'[c].blk = b /\ call'[c].size = n
    BY <1>4, <1>t DEF Carve, Steps
  <2>3. Large(mem, list, b, n) /\ list' = list /\ got' = got
    BY <1>4 DEF Carve, At, Sound
  <2>4. Carved(mem', list, b, n) /\ SameUse(mem, list, mem', list)
    <3>1. r = b + 4 + n
      OBVIOUS
    <3> HIDE DEF b, n, r
    <3> QED
      BY <1>0, <2>1, <2>3, <3>1, CarveSound
  <2> QED
    BY <2>2, <2>3, <2>4 DEF Sound
<1>5. CASE Shrink(c)
  <2>1. n < SizeWrap /\ n % 4 = 0 /\ n \in 0 .. SizeWrap - 1
    BY <1>0, <1>5, UpToWrap DEF Shrink, At, CallTyped, AllocSteps
  <2>2. SizeStored(mem, mem', b, n)
    BY <1>0, <1>5, <2>1, SizeStores DEF Shrink
  <2>3. call'[c].step = "join" /\ call'[c].blk = b /\ call'[c].size = n
    BY <1>5, <1>t DEF Shrink, Steps
  <2>4. Carved(mem, list, b, n) /\ list' = list /\ got' = got
    BY <1>5 DEF Shrink, At, Sound
  <2>5. Shrunk(mem', list, b, n) /\ SameUse(mem, list, mem', list)
    <3> HIDE DEF b, n
    <3> QED
      BY <1>0, <2>1, <2>2, <2>4, ShrinkSound
  <2> QED
    BY <2>3, <2>4, <2>5 DEF Sound
<1>6. CASE Join(c)
  <2>1. Remainder(c) = b + 4 + n /\ Remainder(c) \in Words
    BY <1>0, <1>6 DEF Join, At, CallTyped, Remainder, HEADER_SIZE
  <2>2. LinkStored(mem, mem', b, b + 4 + n)
    BY <1>0, <1>6, <2>1, LinkStores DEF Join
  <2>3. call'[c].step = "claim" /\ call'[c].blk = b
    BY <1>6, <1>t DEF Join, Steps
  <2>4. Shrunk(mem, list, b, n) /\ list' = list \union {b + 4 + n} /\ got' = got
    BY <1>6, <2>1 DEF Join, At, Sound
  <2>5. Joined(mem', list', b) /\ SameUse(mem, list, mem', list')
    <3> HIDE DEF b, n
    <3> QED
      BY <1>0, <2>2, <2>4, JoinSound
  <2> QED
    BY <2>3, <2>4, <2>5 DEF Sound
<1> QED
  BY <1>1, <1>2, <1>3, <1>4, <1>5, <1>6 DEF AllocStep

(* The same for a step of USB_Memory_Free; the block of the call is given back. *)
LEMMA FreeStepSound ==
    ASSUME MemoryType, NEW c \in Context, CallTyped(c), Sound(mem, list, call[c]),
           FreeStep(c)
    PROVE  /\ Sound(mem', list', call'[c])
           /\ ~InUse(mem, list, call[c].blk) => ~InUse(mem', list', call[c].blk)
           /\ SameUseBut(mem, list, mem', list', call[c].blk)
           /\ \/ call'[c].step # "idle" /\ call'[c].blk = call[c].blk
              \/ ~InUse(mem', list', call[c].blk) /\ ~InUse(mem', list', call'[c].blk)
              \/ ~InUse(mem', list', call[c].blk) /\ call'[c].step = "idle"
<1> DEFINE b == call[c].blk
           p == call[c].prev
<1>0. /\ b \in Words /\ b \in Nat /\ p \in Words
      /\ mem \in [Words -> Header] /\ list \subseteq Words /\ call \in [Context -> CallType]
  BY Fields DEF MemoryType, CallType
<1>t. ASSUME NEW s \in Steps, To(c, s)
      PROVE  call'[c].step = s /\ call'[c].blk = b /\ call'[c].prev = p
  BY <1>t, ToFields
<1>1. CASE TestNext(c)
  <2>1. Whole(mem, list) /\ UNCHANGED <<mem, list>> /\ p = 0
    BY <1>1 DEF TestNext, At, Sound, CallTyped
  <2>2. CASE mem[b].next # 0 /\ mem[mem[b].next].isFree
    <3>1. call'[c].step = "grow" /\ call'[c].blk = b
      BY <1>1, <1>t, <2>2 DEF TestNext, Behind, Steps
    <3> QED
      BY <2>1, <2>2, <3>1 DEF Sound, NextFree, SameUseBut, InUse
  <2>3. CASE ~(mem[b].next # 0 /\ mem[mem[b].next].isFree)
    <3>1. call'[c].step = "walk" /\ call'[c].blk = b /\ call'[c].prev = 0
      BY <1>1, <1>t, <2>1, <2>3 DEF TestNext, Behind, Steps
    <3>2. 0 \in list
      BY <1>0, <2>1, WholeFields
    <3>3. b # 0 => 0 < b
      BY <1>0
    <3> QED
      BY <2>1, <2>3, <3>1, <3>2, <3>3 DEF Sound, Walking, NextUsed, SameUseBut, InUse
  <2> QED
    BY <2>2, <2>3
<1>2. CASE GrowNext(c)
  <2> DEFINE nx == mem[b].next
  <2>1. nx \in Words /\ nx # 0 /\ Behind(c) = nx
    BY <1>0, <1>2, Fields DEF GrowNext, Behind
  <2>2. SizeStored(mem, mem', b, (mem[b].size + mem[nx].size + 4) % SizeWrap)
    BY <1>0, <1>2, <2>1, GrownStores DEF GrowNext
  <2>3. call'[c].step = "link" /\ call'[c].blk = b
    BY <1>2, <1>t DEF GrowNext, Steps
  <2>4. NextFree(mem, list, b) /\ list' = list
    BY <1>2 DEF GrowNext, At, Sound
  <2>5. Grew(mem', list, b) /\ SameUse(mem, list, mem', list)
    <3>1. nx = mem[b].next
      OBVIOUS
    <3> HIDE DEF b, p, nx
    <3> QED
      BY <1>0, <2>1, <2>2, <2>4, <3>1, GrowNextSound
  <2> QED
    BY <2>3, <2>4, <2>5 DEF Sound, SameUse, SameUseBut
<1>3. CASE LinkNext(c)
  <2> DEFINE nx == mem[b].next
  <2>1. nx \in Words /\ Behind(c) = nx /\ mem[nx].next \in Words
    BY <1>0, Fields DEF Behind
  <2>2. LinkStored(mem, mem', b, mem[nx].next)
    BY <1>0, <1>3, <2>1, LinkStores DEF LinkNext, Linked
  <2>3. call'[c].step = "walk" /\ call'[c].blk = b /\ call'[c].prev = 0
    BY <1>3, <1>t DEF LinkNext, Steps, CallTyped, At
  <2>4. Grew(mem, list, b) /\ list' = IF b \in list THEN list \ {nx} ELSE list
    BY <1>3, <2>1 DEF LinkNext, At, Sound
  <2>5. Walking(mem', list', b, 0) /\ SameUse(mem, list, mem', list')
    <3>1. nx = mem[b].next
      OBVIOUS
    <3> HIDE DEF b, p, nx
    <3> QED
      BY <1>0, <2>1, <2>2, <2>4, <3>1, LinkNextSound
  <2> QED
    BY <2>3, <2>5 DEF Sound, SameUse, SameUseBut
<1>4. CASE Walk(c)
  <2>1. Walking(mem, list, b, p) /\ UNCHANGED <<mem, list>>
    BY <1>4 DEF Walk, At, Sound
  <2>2. /\ mem[p].next # 0 /\ mem[p].next = b /\ mem[p].isFree => PrevFree(mem, list, b, p)
        /\ mem[p].next # 0 /\ mem[p].next = b /\ ~mem[p].isFree => Ready(mem, list, b)
        /\ mem[p].next # 0 /\ mem[p].next # b => Walking(mem, list, b, mem[p].next)
        /\ mem[p].next = 0 => Ready(mem, list, b)
    BY <1>0, <2>1, WalkSound
  <2>3. CASE mem[p].next # 0 /\ mem[p].next = b
    <3>1. CASE mem[p].isFree
      <4>1. call'[c].step = "growprev" /\ call'[c].blk = b /\ call'[c].prev = p
        BY <1>4, <1>t, <2>3, <3>1 DEF Walk, Steps
      <4> QED
        BY <2>1, <2>2, <2>3, <3>1, <4>1 DEF Sound, SameUse, SameUseBut
    <3>2. CASE ~mem[p].isFree
      <4>1. call'[c].step = "mark" /\ call'[c].blk = b
        BY <1>4, <1>t, <2>3, <3>2 DEF Walk, Steps
      <4> QED
        BY <2>1, <2>2, <2>3, <3>2, <4>1 DEF Sound, SameUse, SameUseBut
    <3> QED
      BY <3>1, <3>2
  <2>4. CASE mem[p].next # 0 /\ mem[p].next # b
    <3>1. call'[c].step = "walk" /\ call'[c].blk = b /\ call'[c].prev = mem[p].next
      BY <1>0, <1>4, <2>4 DEF Walk, At, CallType
    <3> QED
      BY <2>1, <2>2, <2>4, <3>1 DEF Sound, SameUse, SameUseBut
  <2>5. CASE mem[p].next = 0
    <3>1. call'[c].step = "mark" /\ call'[c].blk = b
      BY <1>4, <1>t, <2>5 DEF Walk, Steps
    <3> QED
      BY <2>1, <2>2, <2>5, <3>1 DEF Sound, SameUse, SameUseBut
  <2> QED
    BY <2>3, <2>4, <2>5
<1>5. CASE GrowPrev(c)
  <2>1. SizeStored(mem, mem', p, (mem[p].size + mem[b].size + 4) % SizeWrap)
    BY <1>0, <1>5, GrownStores DEF GrowPrev
  <2>2. call'[c].step = "linkprev" /\ call'[c].blk = b /\ call'[c].prev = p
    BY <1>5, <1>t DEF GrowPrev, Steps
  <2>3. PrevFree(mem, list, b, p) /\ list' = list
    BY <1>5 DEF GrowPrev, At, Sound
  <2>4. PrevGrew(mem', list, b, p) /\ SameUse(mem, list, mem', list)
    BY <1>0, <2>1, <2>3, GrowPrevSound
  <2> QED
    BY <2>2, <2>3, <2>4 DEF Sound, SameUse, SameUseBut
<1>6. CASE LinkPrev(c)
  <2>1. mem[b].next \in Words
    BY <1>0, Fields
  <2>2. LinkStored(mem, mem', p, mem[b].next)
    BY <1>0, <1>6, <2>1, LinkStores DEF LinkPrev, Linked
  <2>3. call'[c].step = "mark" /\ call'[c].blk = p
    BY <1>0, <1>6 DEF LinkPrev, CallType
  <2>4. PrevGrew(mem, list, b, p) /\ list' = list \ {b}
    BY <1>6 DEF LinkPrev, At, Sound
  <2>5. /\ Ready(mem', list', p) /\ ~InUse(mem', list', b) /\ ~InUse(mem', list', p)
        /\ SameUseBut(mem, list, mem', list', b)
    <3> HIDE DEF b, p
    <3> QED
      BY <1>0, <2>2, <2>4, LinkPrevSound
  <2> QED
    BY <2>3, <2>5 DEF Sound, SameUse, SameUseBut
<1>7. CASE Mark(c)
  <2>1. FlagStored(mem, mem', b, TRUE)
    BY <1>0, <1>7, FlagStores DEF Mark
  <2>2. call'[c].step = "idle" /\ list' = list
    BY <1>0, <1>7 DEF Mark, Idle
  <2>3. Ready(mem, list, b)
    BY <1>7 DEF Mark, At, Sound
  <2>4. /\ Whole(mem', list) /\ ~InUse(mem', list, b)
        /\ SameUseBut(mem, list, mem', list, b)
    BY <1>0, <2>1, <2>3, MarkSound
  <2> QED
    BY <2>2, <2>4 DEF Sound, SameUse, SameUseBut
<1> QED
  BY <1>1, <1>2, <1>3, <1>4, <1>5, <1>6, <1>7 DEF FreeStep

(* At the ends of a call, and at its first test, only the list matters.    *)
LEMMA NotInside ==
    ASSUME MemoryType, NEW c \in Context, ~Inside(c), call[c].step \in Steps
    PROVE  Sound(mem, list, call[c]) <=> Whole(mem, list)
<1>1. call[c].step \in {"idle", "test"} \/ (call[c].step = "search" /\ call[c].blk = 0)
  BY DEF Inside, At
<1>2. Whole(mem, list) => 0 \in list
  BY WholeFields DEF MemoryType
<1> QED
  BY <1>1, <1>2 DEF Sound

(***************************************************************************)
(* The types of the host                                                   *)
(***************************************************************************)
(* The cases and steps in which the task can be at each place. *)
PlaceOK ==
    /\ tpc = "write" => at \in {"WaitForDevice", "Powered", "Settle", "WaitConnect", "DoReset",
                                "ConfigPipe", "Default", "PostReset", "PostAddressSet",
                                "SetConfig", "Unconfigure"}
    /\ tpc \in {"open", "link", "handle", "alloc", "assign"} =>
         at \in {"ConfigPipe", "PostReset", "PostAddressSet", "Pipes"}
    /\ tpc \in {"send", "queue", "wait"} =>
         at \in {"Default", "PostReset"} \union (ClassSteps \ {"Pipes"})
    /\ tpc \in {"unhook", "drop", "release", "forget"} => at \in {"Default", "PostReset"}
    /\ tpc \in {"error", "reset"} => at \in {"ConfigPipe", "Default", "PostReset"}

(* The place of task is a legal one. *)
PlaceTyped ==
    /\ at \in HostState \union ClassSteps
    /\ tpc \in {"rest", "write", "open", "link", "handle", "alloc", "assign", "send",
                "queue", "wait", "unhook", "drop", "release", "forget", "error", "reset"}
    /\ PlaceOK

(* Task and handler are in the calls that their places say, and what they  *)
(* free, or have allocated, is behind a header.                            *)
CallOK ==
    /\ closing => isr \in Pipe
    /\ ~closing => At("isr", "idle")
    /\ call["isr"].step \in FreeSteps \union {"idle"}
    /\ call["task"].step \in AllocSteps => tpc = "assign"
    /\ call["task"].step \in FreeSteps => tpc = "forget"
    /\ CallTyped("task") /\ CallTyped("isr")
    /\ got # NULL => got - 4 \in Words /\ tpc = "assign" /\ At("task", "idle")
    /\ \A p \in Pipe : buf[p] # NULL => buf[p] - 4 \in Words

TypeInv == TypeOK /\ PlaceOK /\ CallOK

(* The size that is allocated is a multiple of four and enough. *)
LEMMA AlignedGood ==
    ASSUME NEW n \in Nat
    PROVE  Aligned(n) \in Nat /\ Aligned(n) % 4 = 0 /\ Aligned(n) >= n
  BY DEF Aligned

(* A handle leads to a queue head that exists. *)
LEMMA QhdOfType ==
    ASSUME NEW h \in Nat
    PROVE  QhdOf(h) \in Qhd
  BY UsbHostAssumption DEF QhdOf, Qhd

(* A handle is a number. *)
LEMMA HandleType ==
    ASSUME NEW p \in Pipe, NEW q \in Qhd
    PROVE  Handle(p, q) \in Nat
<1>1. CASE p = 0
  BY <1>1, UsbHostAssumption DEF Handle, Qhd
<1>2. CASE p = 1
  BY <1>2, UsbHostAssumption DEF Handle, Qhd
<1> QED
  BY <1>1, <1>2 DEF Pipe

(* The size of a buffer is a number. *)
LEMMA BufferSizeType ==
    ASSUME NEW p \in Pipe
    PROVE  BufferSize(p) \in Nat
  BY UsbHostAssumption DEF BufferSize

(* Every case and step works on one of the pipes. *)
LEMMA PipeOfType == \A s : PipeOf(s) \in Pipe
  BY DEF PipeOf, Pipe, PIPE_CONTROLPIPE

(* The tables of Write cover every case that writes a state. *)
LEMMA WriteType ==
    ASSUME TypeInv, Write
    PROVE  host' \in HostState /\ post' \in HostState
<1>1. /\ at \in {"WaitForDevice", "Powered", "Settle", "WaitConnect", "DoReset",
                 "ConfigPipe", "Default", "PostReset", "PostAddressSet",
                 "SetConfig", "Unconfigure"}
      /\ host \in HostState /\ post \in HostState
  BY DEF TypeInv, TypeOK, PlaceOK, Write
<1>2. DOMAIN WaitBefore = {"WaitConnect", "DoReset", "Default", "PostReset"}
  BY DEF WaitBefore
<1>3. /\ WaitBefore["WaitConnect"] \in HostState /\ WaitBefore["DoReset"] \in HostState
      /\ WaitBefore["Default"] \in HostState /\ WaitBefore["PostReset"] \in HostState
      /\ "WaitForDevice" \in HostState
  BY DEF WaitBefore, HostState
<1>4. /\ NextState["WaitForDevice"] = post /\ NextState["Powered"] \in HostState
      /\ NextState["Settle"] \in HostState /\ NextState["ConfigPipe"] \in HostState
      /\ NextState["PostAddressSet"] \in HostState
      /\ NextState["SetConfig"] \in HostState /\ NextState["Unconfigure"] \in HostState
  BY DEF NextState, HostState
<1>5. CASE at \in DOMAIN WaitBefore
  BY <1>1, <1>2, <1>3, <1>5 DEF Write
<1>6. CASE at \notin DOMAIN WaitBefore
  <2>1. host' = NextState[at] /\ post' = post
    BY <1>6 DEF Write
  <2> QED
    BY <2>1, <1>1, <1>2, <1>4, <1>6
<1> QED
  BY <1>5, <1>6

(* The places the task goes to. *)
LEMMA PlaceStep ==
    ASSUME TypeInv, Task
    PROVE  PlaceTyped'
<1> USE DEF PlaceTyped, PlaceOK, HostState, ClassSteps, Goto, Rest
<1>0. /\ at \in HostState \union ClassSteps /\ host \in HostState /\ PlaceOK
  BY DEF TypeInv, TypeOK
<1>f. ASSUME NEW s \in {"ConfigPipe", "PostReset", "PostAddressSet", "Pipes",
                        "Default"} \union ClassSteps, Goto(Failed(s))
      PROVE  PlaceTyped'
  BY <1>f, SMTT(30) DEF Failed
<1>1. CASE Begin
  BY <1>0, <1>1 DEF Begin
<1>2. CASE Write
  BY <1>0, <1>2, SMTT(30) DEF Write, Written
<1>3. CASE Open
  <2>1. CASE Unused = {}
    BY <1>0, <1>3, <1>f, <2>1 DEF Open
  <2>2. CASE Unused # {}
    BY <1>0, <1>3, <2>2 DEF Open
  <2> QED
    BY <2>1, <2>2
<1>4. CASE Link \/ StoreHandle \/ Alloc
  BY <1>0, <1>4 DEF Link, StoreHandle, Alloc, Step
<1>5. CASE Assign
  <2>1. CASE got = NULL
    BY <1>0, <1>5, <1>f, <2>1 DEF Assign
  <2>2. CASE got # NULL
    BY <1>0, <1>5, <2>2 DEF Assign, Configured
  <2> QED
    BY <2>1, <2>2
<1>6. CASE Send
  <2>1. CASE buf[PIPE_CONTROLPIPE] = NULL \/ ParseFails(handle[PIPE_CONTROLPIPE])
    BY <1>0, <1>6, <1>f, <2>1 DEF Send
  <2>2. CASE ~(buf[PIPE_CONTROLPIPE] = NULL \/ ParseFails(handle[PIPE_CONTROLPIPE]))
    BY <1>0, <1>6, <2>2 DEF Send
  <2> QED
    BY <2>1, <2>2
<1>7. CASE Queue
  BY <1>0, <1>7 DEF Queue, Step
<1>8. CASE Wait
  <2>1. CASE qhd[xfer] = "ok"
    BY <1>0, <1>8, <2>1, SMTT(30) DEF Wait, Answered
  <2>2. CASE qhd[xfer] # "ok"
    BY <1>0, <1>8, <1>f, <2>2 DEF Wait
  <2> QED
    BY <2>1, <2>2
<1>9. CASE Unhook \/ Drop \/ ReleaseBuffer \/ Forget
  BY <1>0, <1>9 DEF Unhook, Drop, ReleaseBuffer, Forget, Step
<1>10. CASE Error \/ ResetInterface
  BY <1>0, <1>10 DEF Error, ResetInterface
<1>11. CASE Allocate \/ Free
  BY <1>0, <1>11 DEF Allocate, Free, task
<1> QED
  BY <1>1, <1>2, <1>3, <1>4, <1>5, <1>6, <1>7, <1>8, <1>9, <1>10, <1>11 DEF Task

(* What Pipe_ConfigurePipe takes for a queue head is one. *)
LEMMA OpenType ==
    ASSUME TypeInv, Open
    PROVE  xfer' \in Qhd /\ qhd' \in [Qhd -> {"free", "ok", "queued", "stall", "missed", "toremove"}]
<1>0. TypeOK
  BY DEF TypeInv
<1>1. CASE Unused = {}
  BY <1>0, <1>1 DEF Open, TypeOK
<1>2. CASE Unused # {}
  <2>1. PICK q : /\ qhd' = [qhd EXCEPT ![q] = "ok"] /\ xfer' = q
                 /\ q = CHOOSE s \in Unused : \A r \in Unused : s <= r
    BY <1>2 DEF Open
  <2>2. Unused \subseteq Qhd /\ Qhd \subseteq Nat
    BY DEF Unused, Qhd
  <2>3. q \in Qhd
    BY <2>1, <2>2, <1>2, Lowest
  <2> QED
    BY <1>0, <2>1, <2>3 DEF TypeOK
<1> QED
  BY <1>1, <1>2

(* The steps that leave the memory, the calls and the buffers alone. *)
Quiet ==
    /\ UNCHANGED <<mem, call, list, torn, got, buf, closing>>
    /\ closing => isr' = isr
    /\ \/ tpc' = tpc
       \/ tpc \notin {"assign", "forget"} /\ tpc' \notin {"assign", "forget"}

(* Every other step is one of these. *)
LEMMA QuietSteps ==
    ASSUME TypeInv, [Next]_vars
    PROVE  \/ Quiet
           \/ Alloc \/ Allocate \/ Assign
           \/ ReleaseBuffer \/ Free \/ Forget
           \/ (ClosePipe /\ closing')
           \/ FreeInHandler \/ Closed
<1> USE DEF task, pipes, queues, port, memory, allocator, handler, history, Quiet
<1>0. /\ closing => isr \in {0, 1}
      /\ NoPipe = -1 /\ PIPE_CONTROLPIPE = 0
  BY DEF TypeInv, CallOK, Pipe, NoPipe, PIPE_CONTROLPIPE
<1>1. CASE Begin \/ Write \/ Send \/ Wait \/ Error \/ ResetInterface \/ Open
  <2>1. UNCHANGED <<mem, call, list, torn, got, buf, closing, isr>>
    BY <1>1 DEF Begin, Write, Send, Wait, Error, ResetInterface, Open
  <2>2. tpc \notin {"assign", "forget"}
    BY <1>1 DEF Begin, Write, Send, Wait, Error, ResetInterface, Open
  <2>3. tpc' \notin {"assign", "forget"}
    <3>1. CASE Begin \/ Open \/ Error \/ ResetInterface \/ Send
      BY <3>1 DEF Begin, Open, Error, ResetInterface, Send, Goto, Rest, Failed
    <3>2. CASE Write
      BY <3>2 DEF Write, Goto, Written, Rest
    <3>3. CASE Wait
      <4>1. CASE qhd[xfer] = "ok"
        BY <3>3, <4>1, SMTT(30) DEF Wait, Goto, Answered, Rest
      <4>2. CASE qhd[xfer] # "ok"
        BY <3>3, <4>2 DEF Wait, Goto, Failed, Rest
      <4> QED
        BY <4>1, <4>2
    <3> QED
      BY <1>1, <3>1, <3>2, <3>3
  <2> QED
    BY <2>1, <2>2, <2>3
<1>2. CASE Link \/ StoreHandle \/ Queue \/ Unhook \/ Drop
  <2>1. UNCHANGED <<mem, call, list, torn, got, buf, closing, isr>>
    BY <1>2 DEF Link, StoreHandle, Queue, Unhook, Drop
  <2>2. tpc \notin {"assign", "forget"} /\ tpc' \notin {"assign", "forget"}
    BY <1>2 DEF Link, StoreHandle, Queue, Unhook, Drop, Step
  <2> QED
    BY <2>1, <2>2
<1>3. CASE Enumerate \/ DeEnumerate \/ Unattach \/ AsyncAdvance
  BY <1>0, <1>3 DEF Enumerate, DeEnumerate, Unattach, AsyncAdvance, Pipe
<1>4. CASE ClosePipe /\ ~closing'
  BY <1>0, <1>4 DEF ClosePipe
<1>5. CASE Plug
  BY <1>5 DEF Plug
<1>6. CASE \E q \in Qhd, result \in {"ok", "stall", "missed"} : Complete(q, result)
  BY <1>6 DEF Complete
<1>7. CASE UNCHANGED vars
  BY <1>7 DEF vars
<1> QED
  BY <1>1, <1>2, <1>3, <1>4, <1>5, <1>6, <1>7 DEF Next, Task, Handler

(* What a call begins with, *)
LEMMA AllocCallType ==
    ASSUME MemoryType, NEW c \in Context, NEW n \in Nat, AllocCall(c, n)
    PROVE  /\ MemoryType' /\ CallTyped(c)' /\ UNCHANGED <<mem, got, list, torn>>
           /\ call'[c].step = "search" /\ call'[c].blk = 0
           /\ \A d \in Context : d # c => call'[d] = call[d]
<1>1. 0 \in Words
  BY UsbMemoryAssumption DEF Words, HEADER_SIZE
<1>2. Aligned(n) \in Nat /\ Aligned(n) % 4 = 0
  BY AlignedGood
<1>3. /\ call' \in [Context -> CallType]
      /\ call'[c].step = "search" /\ call'[c].blk = 0 /\ call'[c].size = Aligned(n)
      /\ \A d \in Context : d # c => call'[d] = call[d]
  BY <1>1, <1>2 DEF AllocCall, MemoryType, CallType, Idle, Steps
<1> QED
  BY <1>2, <1>3 DEF AllocCall, MemoryType, CallType, CallTyped, AllocSteps

(* and the same for a free, *)
LEMMA FreeCallType ==
    ASSUME MemoryType, NEW c \in Context, NEW ptr \in Nat, ptr # NULL => ptr - 4 \in Words,
           FreeCall(c, ptr), CallTyped(c)
    PROVE  /\ MemoryType' /\ CallTyped(c)' /\ UNCHANGED <<mem, got, list>>
           /\ ptr = NULL => call' = call /\ torn' = torn
           /\ ptr # NULL => /\ call'[c].step = "test" /\ call'[c].blk = ptr - 4
                            /\ torn' = (torn \/ \E d \in Context \ {c} : Inside(d))
           /\ \A d \in Context : d # c => call'[d] = call[d]
<1>1. CASE ptr = NULL
  BY <1>1 DEF FreeCall, MemoryType, CallTyped, Remainder
<1>2. CASE ptr # NULL
  <2>1. 0 \in Words /\ ptr - 4 \in Words
    BY <1>2, UsbMemoryAssumption DEF Words, HEADER_SIZE
  <2>2. /\ call' \in [Context -> CallType]
        /\ call'[c].step = "test" /\ call'[c].blk = ptr - 4 /\ call'[c].prev = 0
        /\ \A d \in Context : d # c => call'[d] = call[d]
    <3>1. call' = [call EXCEPT ![c] = [step |-> "test", blk |-> ptr - 4, prev |-> 0, size |-> 0]]
      BY <1>2 DEF FreeCall, Idle, HEADER_SIZE
    <3> QED
      BY <2>1, <3>1 DEF MemoryType, CallType, Steps
  <2>3. torn' \in BOOLEAN /\ torn' = (torn \/ \E d \in Context \ {c} : Inside(d))
    BY <1>2 DEF FreeCall, MemoryType
  <2> QED
    BY <1>2, <2>2, <2>3 DEF FreeCall, MemoryType, CallType, CallTyped, AllocSteps
<1> QED
  BY <1>1, <1>2

(* and what every step leaves. *)
LEMMA CallStep ==
    ASSUME TypeInv, [Next]_vars
    PROVE  MemoryType' /\ CallOK'
<1>0. /\ MemoryType /\ CallOK /\ buf \in [Pipe -> Nat]
      /\ "task" \in Context /\ "isr" \in Context /\ "task" # "isr"
      /\ NoPipe \notin Pipe /\ PIPE_CONTROLPIPE \in Pipe
      /\ call \in [Context -> CallType]
  BY DEF TypeInv, TypeOK, Context, MemoryType, CallType, Pipe, NoPipe, PIPE_CONTROLPIPE
<1> USE DEF At
<1>t. call["task"].step \in AllocSteps \union FreeSteps \union {"idle"}
  BY <1>0, Fields DEF Steps, AllocSteps, FreeSteps
<1>i. ASSUME tpc \notin {"assign", "forget"} PROVE call["task"].step = "idle" /\ got = NULL
  BY <1>0, <1>i, <1>t DEF CallOK
<1>d. AllocSteps \intersect FreeSteps = {} /\ "idle" \notin AllocSteps \union FreeSteps
  BY DEF AllocSteps, FreeSteps
<1>s. ASSUME NEW c \in Context, call'[c] = call[c], CallTyped(c) PROVE CallTyped(c)'
  BY <1>s DEF CallTyped, Remainder
<1>1. CASE Quiet
  <2>1. UNCHANGED <<mem, call, list, torn, got, buf, closing>> /\ (closing => isr' = isr)
    BY <1>1 DEF Quiet
  <2>2. MemoryType'
    BY <1>0, <2>1 DEF MemoryType
  <2>3. CASE tpc' = tpc
    BY <1>0, <1>s, <2>1, <2>2, <2>3 DEF CallOK
  <2>4. CASE tpc \notin {"assign", "forget"}
    BY <1>0, <1>d, <1>i, <1>s, <2>1, <2>2, <2>4 DEF CallOK
  <2> QED
    BY <1>1, <2>3, <2>4 DEF Quiet
<1>2. CASE Alloc
  <2>1. /\ AllocCall("task", BufferSize(PipeOf(at))) /\ BufferSize(PipeOf(at)) \in Nat
        /\ tpc = "alloc" /\ tpc' = "assign" /\ UNCHANGED <<isr, closing, buf>>
    BY <1>2, BufferSizeType, PipeOfType DEF Alloc, Step, handler, pipes
  <2>2. /\ MemoryType' /\ CallTyped("task")' /\ UNCHANGED <<mem, got, list, torn>>
        /\ call'["task"].step = "search" /\ call'["isr"] = call["isr"]
    BY <1>0, <2>1, AllocCallType
  <2>3. "search" \in AllocSteps
    BY DEF AllocSteps
  <2> QED
    BY <1>0, <1>d, <1>i, <1>s, <2>1, <2>2, <2>3 DEF CallOK
<1>3. CASE Allocate
  <2>1. /\ AllocStep("task") /\ tpc = "assign" /\ tpc' = "assign"
        /\ UNCHANGED <<isr, closing, buf>>
    BY <1>3 DEF Allocate, task, handler, pipes
  <2>2. /\ MemoryType' /\ CallTyped("task")' /\ call'["isr"] = call["isr"]
        /\ call'["task"].step \in AllocSteps \union {"idle"}
        /\ got' = got \/ got' = NULL \/ got' - 4 \in Words
        /\ got' # got => call'["task"].step = "idle"
    BY <1>0, <2>1, CallStepType DEF CallOK
  <2>3. call["task"].step # "idle"
    BY <2>1 DEF AllocStep, Search, Fit, Claim, Carve, Shrink, Join
  <2>4. got = NULL
    BY <1>0, <2>3 DEF CallOK
  <2> QED
    BY <1>0, <1>d, <1>s, <2>1, <2>2, <2>4 DEF CallOK
<1>4. CASE Assign
  <2>1. /\ buf' = [buf EXCEPT ![PipeOf(at)] = got] /\ got' = NULL /\ call["task"].step = "idle"
        /\ UNCHANGED <<mem, call, list, torn, isr, closing>>
    BY <1>4 DEF Assign, handler
  <2>2. \A p \in Pipe : buf'[p] = buf[p] \/ buf'[p] = got
    BY <1>0, <2>1
  <2>3. MemoryType'
    BY <1>0, <2>1 DEF MemoryType, NULL
  <2> QED
    BY <1>0, <1>d, <1>s, <2>1, <2>2, <2>3 DEF CallOK
<1>5. CASE ReleaseBuffer
  <2> DEFINE b == buf[PIPE_CONTROLPIPE]
  <2>1. /\ FreeCall("task", b) /\ b \in Nat /\ (b # NULL => b - 4 \in Words)
        /\ tpc = "release" /\ tpc' = "forget" /\ UNCHANGED <<isr, closing, buf>>
    BY <1>0, <1>5 DEF ReleaseBuffer, Release, Step, handler, pipes, CallOK
  <2> HIDE DEF b
  <2>2. /\ MemoryType' /\ CallTyped("task")' /\ UNCHANGED <<mem, got, list>>
        /\ call' = call \/ call'["task"].step = "test"
        /\ call'["isr"] = call["isr"]
    BY <1>0, <2>1, FreeCallType DEF CallOK
  <2>3. "test" \in FreeSteps
    BY DEF FreeSteps
  <2> QED
    BY <1>0, <1>d, <1>i, <1>s, <2>1, <2>2, <2>3 DEF CallOK
<1>6. CASE Free
  <2>1. /\ FreeStep("task") /\ tpc = "forget" /\ tpc' = "forget"
        /\ UNCHANGED <<isr, closing, buf>>
    BY <1>6 DEF Free, task, handler, pipes
  <2>2. /\ MemoryType' /\ CallTyped("task")' /\ call'["isr"] = call["isr"]
        /\ call'["task"].step \in FreeSteps \union {"idle"} /\ got' = got
    BY <1>0, <2>1, CallStepType DEF CallOK
  <2> QED
    BY <1>0, <1>d, <1>s, <2>1, <2>2 DEF CallOK
<1>7. CASE Forget
  <2>1. /\ buf' = [buf EXCEPT ![PIPE_CONTROLPIPE] = NULL] /\ call["task"].step = "idle"
        /\ tpc = "forget" /\ UNCHANGED <<mem, call, got, list, torn, isr, closing>>
    BY <1>7 DEF Forget, Step, handler, memory, allocator
  <2>2. \A p \in Pipe : buf'[p] = buf[p] \/ buf'[p] = NULL
    BY <1>0, <2>1
  <2>3. MemoryType'
    BY <1>0, <2>1 DEF MemoryType
  <2> QED
    BY <1>0, <1>d, <1>s, <2>1, <2>2, <2>3 DEF CallOK
<1>8. CASE ClosePipe /\ closing'
  <2> DEFINE b == buf[isr]
  <2>1. /\ isr \in Pipe /\ ~closing /\ isr' = isr /\ closing'
        /\ FreeCall("isr", b) /\ b \in Nat /\ (b # NULL => b - 4 \in Words)
        /\ tpc' = tpc /\ UNCHANGED buf
    BY <1>0, <1>8 DEF ClosePipe, Release, task, CallOK
  <2> HIDE DEF b
  <2>2. /\ MemoryType' /\ CallTyped("isr")' /\ UNCHANGED <<mem, got, list>>
        /\ call' = call \/ call'["isr"].step = "test"
        /\ call'["task"] = call["task"]
    BY <1>0, <2>1, FreeCallType DEF CallOK
  <2>3. "test" \in FreeSteps
    BY DEF FreeSteps
  <2> QED
    BY <1>0, <1>d, <1>s, <2>1, <2>2, <2>3 DEF CallOK
<1>9. CASE FreeInHandler
  <2>1. /\ FreeStep("isr") /\ closing /\ tpc' = tpc
        /\ UNCHANGED <<isr, closing, buf>>
    BY <1>9 DEF FreeInHandler, task, handler, pipes
  <2>2. /\ MemoryType' /\ CallTyped("isr")' /\ call'["task"] = call["task"]
        /\ call'["isr"].step \in FreeSteps \union {"idle"} /\ got' = got
    BY <1>0, <2>1, CallStepType DEF CallOK
  <2> QED
    BY <1>0, <1>d, <1>s, <2>1, <2>2 DEF CallOK
<1>10. CASE Closed
  <2>1. /\ buf' = [buf EXCEPT ![isr] = NULL] /\ call["isr"].step = "idle"
        /\ closing /\ ~closing'
        /\ tpc' = tpc /\ UNCHANGED <<mem, call, got, list, torn>>
    BY <1>10 DEF Closed, task, memory, allocator
  <2>2. \A p \in Pipe : buf'[p] = buf[p] \/ buf'[p] = NULL
    BY <1>0, <2>1
  <2>3. MemoryType'
    BY <1>0, <2>1 DEF MemoryType
  <2> QED
    BY <1>0, <1>d, <1>s, <2>1, <2>2, <2>3 DEF CallOK
<1> QED
  BY <1>1, <1>2, <1>3, <1>4, <1>5, <1>6, <1>7, <1>8, <1>9, <1>10, QuietSteps

(* Every step keeps the types. *)
LEMMA TypeStep ==
    ASSUME TypeInv, [Next]_vars
    PROVE  TypeInv'
<1> USE DEF task, pipes, queues, port, memory, allocator, handler, history
<1>0. TypeOK
  BY DEF TypeInv
<1>1. host' \in HostState /\ post' \in HostState
  <2>1. CASE Write
    BY <2>1, WriteType
  <2>2. CASE ~Write
    <3>1. host' = host \/ host' \in {"Powered", "Unattached"}
      BY <2>2 DEF Next, Task, Handler, Begin, Open, Link, StoreHandle, Alloc, Allocate, Assign,
         Send, Queue, Wait, Unhook, Drop, ReleaseBuffer, Free, Forget, Error, ResetInterface,
         Enumerate, DeEnumerate, ClosePipe, FreeInHandler, Closed, Unattach, Complete,
         AsyncAdvance, Plug, vars
    <3>2. post' = post
      BY <2>2 DEF Next, Task, Handler, Begin, Open, Link, StoreHandle, Alloc, Allocate, Assign,
         Send, Queue, Wait, Unhook, Drop, ReleaseBuffer, Free, Forget, Error, ResetInterface,
         Enumerate, DeEnumerate, ClosePipe, FreeInHandler, Closed, Unattach, Complete,
         AsyncAdvance, Plug, vars
    <3> QED
      BY <3>1, <3>2, <1>0 DEF TypeOK, HostState
  <2> QED
    BY <2>1, <2>2
<1>2. PlaceTyped'
  <2>1. CASE Task
    BY <2>1, PlaceStep
  <2>2. CASE ~Task
    <3>1. at' = at /\ tpc' = tpc
      BY <2>2 DEF Next, Handler, Enumerate, DeEnumerate, ClosePipe, FreeInHandler, Closed,
         Unattach, Complete, AsyncAdvance, Plug, vars
    <3> QED
      BY <3>1, <1>0 DEF TypeInv, TypeOK, PlaceTyped, PlaceOK
  <2> QED
    BY <2>1, <2>2
<1>3. handle' \in [Pipe -> Nat] /\ xfer' \in Qhd
  <2> USE <1>0 DEF TypeOK
  <2>1. CASE Open
    BY <2>1, OpenType DEF Open
  <2>2. CASE StoreHandle
    <3>1. Handle(PipeOf(at), xfer) \in Nat
      BY PipeOfType, HandleType
    <3>2. 0 \in Qhd
      BY UsbHostAssumption DEF Qhd
    <3>3. handle' \in [Pipe -> Nat]
      BY <2>2, <3>1 DEF StoreHandle
    <3> QED
      BY <2>2, <3>2, <3>3 DEF StoreHandle
  <2>4. CASE Send
    <3>1. handle[PIPE_CONTROLPIPE] \in Nat
      BY DEF PIPE_CONTROLPIPE, Pipe
    <3> QED
      BY <2>4, <3>1, QhdOfType DEF Send
  <2>5. CASE Wait
    BY <2>5, UsbHostAssumption DEF Wait, Qhd
  <2>6. CASE Drop \/ ClosePipe
    BY <2>6 DEF Drop, ClosePipe
  <2>7. CASE Begin \/ Write \/ Link \/ Alloc \/ Allocate \/ Assign \/ Queue \/ Unhook
             \/ ReleaseBuffer \/ Free \/ Forget \/ Error \/ ResetInterface
    BY <2>7 DEF Begin, Write, Link, Alloc, Allocate, Assign, Queue, Unhook, ReleaseBuffer,
       Free, Forget, Error, ResetInterface
  <2>8. CASE \/ Enumerate \/ DeEnumerate \/ FreeInHandler \/ Closed \/ Unattach
             \/ AsyncAdvance \/ Plug
             \/ \E q \in Qhd, result \in {"ok", "stall", "missed"} : Complete(q, result)
             \/ UNCHANGED vars
    BY <2>8 DEF Enumerate, DeEnumerate, FreeInHandler, Closed, Unattach, AsyncAdvance, Plug,
       Complete, vars
  <2> QED
    BY <2>1, <2>2, <2>4, <2>5, <2>6, <2>7, <2>8 DEF Next, Task, Handler
<1>b. buf' \in [Pipe -> Nat]
  <2> USE <1>0 DEF TypeOK
  <2>1. CASE Assign
    BY <2>1 DEF Assign, MemoryType
  <2>2. CASE Forget \/ Closed
    BY <2>2 DEF Forget, Closed, NULL
  <2>3. CASE ~Assign /\ ~Forget /\ ~Closed
    <3>1. buf' = buf
      BY <2>3 DEF Next, Task, Handler, Begin, Write, Open, Link, StoreHandle, Alloc, Allocate,
         Send, Queue, Wait, Unhook, Drop, ReleaseBuffer, Free, Error, ResetInterface,
         Enumerate, DeEnumerate, ClosePipe, FreeInHandler, Unattach, Complete,
         AsyncAdvance, Plug, vars
    <3> QED
      BY <3>1
  <2> QED
    BY <2>1, <2>2, <2>3
<1>4. /\ qhd' \in [Qhd -> {"free", "ok", "queued", "stall", "missed", "toremove"}]
      /\ linked' \subseteq Qhd /\ doorbell' \in BOOLEAN
  <2> USE <1>0 DEF TypeOK
  <2>1. ASSUME NEW h, HcdClosePipe(h)
        PROVE  /\ qhd' \in [Qhd -> {"free", "ok", "queued", "stall", "missed", "toremove"}]
               /\ linked' \subseteq Qhd /\ doorbell' \in BOOLEAN
    BY <2>1 DEF HcdClosePipe
  <2>2. CASE Open
    BY <2>2, OpenType DEF Open
  <2>3. CASE Unhook
    BY <2>1, <2>3 DEF Unhook
  <2>4. CASE ClosePipe
    BY <2>1, <2>4 DEF ClosePipe
  <2>5. CASE Link \/ Queue \/ ResetInterface \/ AsyncAdvance
    BY <2>5 DEF Link, Queue, ResetInterface, AsyncAdvance
  <2>6. CASE \E q \in Qhd, result \in {"ok", "stall", "missed"} : Complete(q, result)
    BY <2>6 DEF Complete
  <2>7. CASE \/ Begin \/ Write \/ StoreHandle \/ Alloc \/ Allocate \/ Assign \/ Send \/ Wait
             \/ Drop \/ ReleaseBuffer \/ Free \/ Forget \/ Error
             \/ Enumerate \/ DeEnumerate \/ FreeInHandler \/ Closed \/ Unattach \/ Plug
             \/ UNCHANGED vars
    BY <2>7 DEF Begin, Write, StoreHandle, Alloc, Allocate, Assign, Send, Wait, Drop,
       ReleaseBuffer, Free, Forget, Error, Enumerate, DeEnumerate, FreeInHandler, Closed,
       Unattach, Plug, vars
  <2> QED
    BY <2>2, <2>3, <2>4, <2>5, <2>6, <2>7 DEF Next, Task, Handler
<1>5. /\ conn' \in BOOLEAN /\ change' \in BOOLEAN /\ plugs' \in 0 .. MaxPlugs
      /\ there' \in BOOLEAN /\ gone' \in BOOLEAN
  <2> USE <1>0 DEF TypeOK
  <2>1. CASE Plug
    BY <2>1, UsbHostAssumption DEF Plug
  <2>2. CASE ResetInterface \/ Enumerate
    BY <2>2 DEF ResetInterface, Enumerate
  <2>5. CASE Begin
    <3>1. gone' \in BOOLEAN
      BY <2>5 DEF Begin
    <3> QED
      BY <2>5, <3>1 DEF Begin
  <2>6. CASE Unattach
    <3>1. gone' \in BOOLEAN
      BY <2>6 DEF Unattach
    <3> QED
      BY <2>6, <3>1 DEF Unattach
  <2>3. CASE \/ Write \/ Open \/ Link \/ StoreHandle \/ Alloc \/ Allocate \/ Assign \/ Send
             \/ Queue \/ Wait \/ Unhook \/ Drop \/ ReleaseBuffer \/ Free \/ Forget \/ Error
             \/ DeEnumerate \/ ClosePipe \/ FreeInHandler \/ Closed \/ AsyncAdvance
             \/ UNCHANGED vars
             \/ \E q \in Qhd, result \in {"ok", "stall", "missed"} : Complete(q, result)
    BY <2>3 DEF Write, Open, Link, StoreHandle, Alloc, Allocate, Assign, Send, Queue, Wait,
       Unhook, Drop, ReleaseBuffer, Free, Forget, Error, DeEnumerate, ClosePipe,
       FreeInHandler, Closed, AsyncAdvance, Complete, vars
  <2> QED
    BY <2>1, <2>2, <2>3, <2>5, <2>6 DEF Next, Task, Handler
<1>i. isr' \in Pipe \union {NoPipe, 2} /\ closing' \in BOOLEAN
  <2> USE <1>0 DEF TypeOK, Pipe, NoPipe
  <2>1. CASE DeEnumerate \/ Unattach
    BY <2>1 DEF DeEnumerate, Unattach, PIPE_CONTROLPIPE
  <2>2. CASE ClosePipe \/ Closed
    <3>1. isr \in {0, 1}
      BY <2>2 DEF ClosePipe, Closed, TypeInv, CallOK
    <3>2. isr' = isr \/ isr' = isr + 1
      BY <2>2 DEF ClosePipe, Closed
    <3>3. closing' \in BOOLEAN
      BY <2>2 DEF ClosePipe, Closed
    <3> QED
      BY <3>1, <3>2, <3>3
  <2>3. CASE ~DeEnumerate /\ ~Unattach /\ ~ClosePipe /\ ~Closed
    <3>1. isr' = isr /\ closing' = closing
      BY <2>3 DEF Next, Task, Handler, Begin, Write, Open, Link, StoreHandle, Alloc, Allocate,
         Assign, Send, Queue, Wait, Unhook, Drop, ReleaseBuffer, Free, Forget, Error,
         ResetInterface, Enumerate, FreeInHandler, Complete, AsyncAdvance, Plug, vars, Step
    <3> QED
      BY <3>1
  <2> QED
    BY <2>1, <2>2, <2>3
<1>6. orphans' \subseteq Nat
  <2> USE <1>0 DEF TypeOK
  <2>1. CASE ReleaseBuffer \/ ClosePipe
    BY <2>1 DEF ReleaseBuffer, ClosePipe, Release
  <2>2. CASE Assign
    BY <2>2 DEF Assign, MemoryType
  <2>3. CASE ResetInterface
    <3>1. buf[PIPE_CONTROLPIPE] \in Nat
      BY DEF PIPE_CONTROLPIPE, Pipe
    <3> QED
      BY <2>3, <3>1 DEF ResetInterface
  <2>4. CASE ~ReleaseBuffer /\ ~ClosePipe /\ ~Assign /\ ~ResetInterface
    <3>1. orphans' = orphans
      BY <2>4 DEF Next, Task, Handler, Begin, Write, Open, Link, StoreHandle, Alloc, Allocate,
         Send, Queue, Wait, Unhook, Drop, Free, Forget, Error,
         Enumerate, DeEnumerate, FreeInHandler, Closed, Unattach, Complete,
         AsyncAdvance, Plug, vars
    <3> QED
      BY <3>1
  <2> QED
    BY <2>1, <2>2, <2>3, <2>4
<1>7. MemoryType' /\ CallOK'
  BY CallStep
<1> QED
  BY <1>1, <1>2, <1>3, <1>b, <1>4, <1>5, <1>i, <1>6, <1>7 DEF TypeInv, TypeOK, PlaceTyped

(***************************************************************************)
(* The pool                                                                *)
(***************************************************************************)
(* One call at most is past its first test: the task's, or the handler's,  *)
(* which the task then waits for.                                          *)
Turn == IF At("isr", "idle") THEN "task" ELSE "isr"

SoundInv ==
    ~torn => /\ At("isr", "idle") \/ ~Inside("task")
             /\ Sound(mem, list, call[Turn])

(* The task runs while the handler is in no call, *)
LEMMA TaskSound ==
    ASSUME TypeInv, SoundInv, ~torn, isr = NoPipe
    PROVE  /\ MemoryType /\ "task" \in Context /\ CallTyped("task") /\ At("isr", "idle")
           /\ Sound(mem, list, call["task"]) /\ ~closing
<1>1. ~closing
  BY DEF TypeInv, CallOK, Pipe, NoPipe
<1> QED
  BY <1>1 DEF TypeInv, TypeOK, CallOK, SoundInv, Turn, Context

(* and the handler while the task is at most at its first test. *)
LEMMA HandlerSound ==
    ASSUME TypeInv, SoundInv, ~torn, ~At("isr", "idle")
    PROVE  /\ MemoryType /\ "isr" \in Context /\ CallTyped("isr")
           /\ Sound(mem, list, call["isr"]) /\ ~Inside("task")
  BY DEF TypeInv, TypeOK, CallOK, SoundInv, Turn, Context

(* When no call is past its first test, the list is intact. *)
LEMMA BetweenCalls ==
    ASSUME TypeInv, SoundInv, ~torn, At("isr", "idle"), ~Inside("task")
    PROVE  Whole(mem, list)
<1>1. MemoryType /\ "task" \in Context /\ Sound(mem, list, call["task"])
  BY DEF TypeInv, TypeOK, SoundInv, Turn, Context
<1>2. call["task"].step \in Steps
  BY <1>1, Fields
<1> QED
  BY <1>1, <1>2, NotInside

(* An initial pool is one free block. *)
LEMMA FreshGood ==
    ASSUME MemoryInit
    PROVE  MemoryType /\ Whole(mem, list) /\ \A a : ~InUse(mem, list, a)
<1>1. /\ PoolSize - 4 \in Nat /\ PoolSize - 4 \in 0 .. SizeWrap - 1 /\ (PoolSize - 4) % 4 = 0
      /\ 0 \in Words /\ 0 \in 0 .. SizeWrap - 1
  BY UsbMemoryAssumption, WrapIsPositive DEF Words, HEADER_SIZE
<1> DEFINE P == PoolOf(mem, list)
<1>2. mem \in [Words -> Header] /\ list = {0} /\ mem[0].isFree
  BY <1>1 DEF MemoryInit, Header, HEADER_SIZE
<1>3. MemoryType
  BY <1>1, <1>2 DEF MemoryInit, MemoryType, Idle, Steps, NULL
<1>4. Typed(P) /\ DOMAIN P = {0}
  BY <1>1, <1>2, PoolOfTyped
<1>5. P[0].size = PoolSize - 4 /\ P[0].next = 0
  BY <1>1, <1>2 DEF MemoryInit, PoolOf, HEADER_SIZE
<1> HIDE DEF P
<1>6. EndOf(P, 0) = PoolSize
  BY <1>1, <1>5, UsbMemoryAssumption DEF EndOf, HEADER_SIZE
<1>7. Tiled(P)
  BY <1>4, <1>5, <1>6 DEF Tiled
<1>8. NoOverlap(P) /\ Coalesced(P) /\ WordAligned(P)
  BY <1>1, <1>4, <1>5 DEF NoOverlap, Coalesced, WordAligned
<1>9. Whole(mem, list)
  BY <1>4, <1>7, <1>8 DEF P, Whole, PoolInv, PoolOK
<1> QED
  BY <1>2, <1>3, <1>9 DEF InUse

(* No step, but one that tears the list, breaks what the calls rest on. *)
LEMMA SoundStep ==
    ASSUME TypeInv, SoundInv, [Next]_vars
    PROVE  SoundInv'
<1> SUFFICES ASSUME ~torn'
             PROVE  /\ At("isr", "idle")' \/ ~Inside("task")'
                    /\ Sound(mem', list', call'[Turn'])
  BY DEF SoundInv
<1>0. /\ MemoryType /\ MemoryType' /\ CallOK /\ buf \in [Pipe -> Nat]
      /\ "task" \in Context /\ "isr" \in Context /\ "task" # "isr"
      /\ PIPE_CONTROLPIPE \in Pipe /\ TypeInv'
      /\ Context \ {"task"} = {"isr"} /\ Context \ {"isr"} = {"task"}
  BY TypeStep DEF TypeInv, TypeOK, Context, Pipe, PIPE_CONTROLPIPE
<1>a. ASSUME ~torn, call' = call, mem' = mem, list' = list
      PROVE  /\ At("isr", "idle")' \/ ~Inside("task")'
             /\ Sound(mem', list', call'[Turn'])
  BY <1>a DEF SoundInv, Turn, At, Inside
<1>b. ASSUME call'["isr"] = call["isr"], At("isr", "idle"), Sound(mem', list', call'["task"])
      PROVE  /\ At("isr", "idle")' \/ ~Inside("task")'
             /\ Sound(mem', list', call'[Turn'])
  BY <1>b DEF At, Turn
<1>1. CASE Quiet \/ Assign \/ Forget \/ Closed
  <2>1. UNCHANGED <<mem, call, list, torn>>
    BY <1>1 DEF Quiet, Assign, Forget, Closed, memory, allocator
  <2> QED
    BY <2>1, <1>a
<1>2. CASE Alloc
  <2>1. /\ AllocCall("task", BufferSize(PipeOf(at))) /\ BufferSize(PipeOf(at)) \in Nat
        /\ tpc = "alloc" /\ isr = NoPipe
    BY <1>2, BufferSizeType, PipeOfType DEF Alloc, Step
  <2>2. /\ UNCHANGED <<mem, list, torn>>
        /\ call'["task"].step = "search" /\ call'["task"].blk = 0 /\ call'["isr"] = call["isr"]
    BY <1>0, <2>1, AllocCallType
  <2>3. At("task", "idle") /\ At("isr", "idle")
    <3>1. call["task"].step \in Steps
      BY <1>0, Fields
    <3> QED
      BY <1>0, <2>1, <2>2, <3>1, TaskSound DEF CallOK, At, Steps, AllocSteps, FreeSteps
  <2>4. Whole(mem, list)
    BY <2>2, <2>3, BetweenCalls DEF Inside
  <2>5. 0 \in list
    BY <1>0, <2>4, WholeFields DEF MemoryType
  <2>6. Sound(mem', list', call'["task"])
    BY <2>2, <2>4, <2>5 DEF Sound
  <2> QED
    BY <1>b, <2>2, <2>3, <2>6
<1>3. CASE Allocate
  <2>1. AllocStep("task") /\ isr = NoPipe
    BY <1>3 DEF Allocate
  <2>2. torn' = torn /\ call'["isr"] = call["isr"]
    BY <1>0, <2>1, CallStepType DEF CallOK
  <2>3. At("isr", "idle") /\ Sound(mem, list, call["task"])
    BY <2>1, <2>2, TaskSound
  <2>4. Sound(mem', list', call'["task"])
    BY <1>0, <2>1, <2>3, AllocStepSound DEF CallOK
  <2> QED
    BY <1>b, <2>2, <2>3, <2>4
<1>4. CASE ReleaseBuffer
  <2> DEFINE b == buf[PIPE_CONTROLPIPE]
  <2>1. /\ FreeCall("task", b) /\ b \in Nat /\ (b # NULL => b - 4 \in Words)
        /\ tpc = "release" /\ isr = NoPipe
    BY <1>0, <1>4 DEF ReleaseBuffer, Release, Step, CallOK
  <2> HIDE DEF b
  <2>2. /\ UNCHANGED <<mem, list>> /\ ~torn
        /\ b = NULL => call' = call
        /\ b # NULL => call'["task"].step = "test"
        /\ call'["isr"] = call["isr"]
    BY <1>0, <2>1, FreeCallType DEF CallOK
  <2>3. At("task", "idle") /\ At("isr", "idle")
    <3>1. call["task"].step \in Steps
      BY <1>0, Fields
    <3> QED
      BY <1>0, <2>1, <2>2, <3>1, TaskSound DEF CallOK, At, Steps, AllocSteps, FreeSteps
  <2>4. Whole(mem, list)
    BY <2>2, <2>3, BetweenCalls DEF Inside
  <2>5. CASE b = NULL
    BY <1>a, <2>2, <2>5
  <2>6. CASE b # NULL
    <3>1. Sound(mem', list', call'["task"])
      BY <2>2, <2>4, <2>6 DEF Sound
    <3> QED
      BY <1>b, <2>2, <2>3, <3>1
  <2> QED
    BY <2>5, <2>6
<1>5. CASE Free
  <2>1. FreeStep("task") /\ isr = NoPipe
    BY <1>5 DEF Free
  <2>2. torn' = torn /\ call'["isr"] = call["isr"]
    BY <1>0, <2>1, CallStepType DEF CallOK
  <2>3. At("isr", "idle") /\ Sound(mem, list, call["task"])
    BY <2>1, <2>2, TaskSound
  <2>4. Sound(mem', list', call'["task"])
    BY <1>0, <2>1, <2>3, FreeStepSound DEF CallOK
  <2> QED
    BY <1>b, <2>2, <2>3, <2>4
<1>6. CASE ClosePipe /\ closing'
  <2> DEFINE b == buf[isr]
  <2>1. /\ FreeCall("isr", b) /\ b \in Nat /\ (b # NULL => b - 4 \in Words) /\ ~closing
    BY <1>0, <1>6 DEF ClosePipe, Release, CallOK
  <2> HIDE DEF b
  <2>2. /\ UNCHANGED <<mem, list>> /\ ~torn
        /\ b = NULL => call' = call
        /\ b # NULL => call'["isr"].step = "test" /\ ~Inside("task")
        /\ call'["task"] = call["task"]
    BY <1>0, <2>1, FreeCallType DEF CallOK
  <2>3. CASE b = NULL
    BY <1>a, <2>2, <2>3
  <2>4. CASE b # NULL
    <3>1. At("isr", "idle")
      BY <1>0, <2>1 DEF CallOK
    <3>2. Whole(mem, list)
      BY <2>2, <2>4, <3>1, BetweenCalls
    <3>3. Turn' = "isr" /\ ~Inside("task")'
      BY <2>2, <2>4 DEF Turn, At, Inside
    <3>4. Sound(mem', list', call'["isr"])
      BY <2>2, <2>4, <3>2 DEF Sound
    <3> QED
      BY <3>3, <3>4
  <2> QED
    BY <2>3, <2>4
<1>7. CASE FreeInHandler
  <2>1. FreeStep("isr")
    BY <1>7 DEF FreeInHandler
  <2>2. torn' = torn /\ call'["task"] = call["task"] /\ ~At("isr", "idle")
    <3>1. ~At("isr", "idle")
      BY <2>1 DEF FreeStep, TestNext, GrowNext, LinkNext, Walk, GrowPrev, LinkPrev, Mark, At
    <3> QED
      BY <1>0, <2>1, <3>1, CallStepType DEF CallOK
  <2>3. Sound(mem, list, call["isr"]) /\ ~Inside("task")
    BY <2>2, HandlerSound
  <2>4. Sound(mem', list', call'["isr"])
    BY <1>0, <2>1, <2>3, FreeStepSound DEF CallOK
  <2>5. ~Inside("task")'
    BY <2>2, <2>3 DEF Inside, At
  <2>6. CASE ~At("isr", "idle")'
    BY <2>4, <2>5, <2>6 DEF Turn
  <2>7. CASE At("isr", "idle")'
    <3>1. Whole(mem', list')
      BY <2>4, <2>7 DEF Sound, At
    <3>2. Sound(mem', list', call'["task"])
      <4>1. call'["task"].step \in {"idle", "test"}
             \/ (call'["task"].step = "search" /\ call'["task"].blk = 0)
        BY <2>5 DEF Inside, At
      <4>2. 0 \in list'
        BY <1>0, <3>1, WholeFields DEF MemoryType
      <4> QED
        BY <3>1, <4>1, <4>2 DEF Sound
    <3> QED
      BY <2>7, <3>2 DEF Turn, At
  <2> QED
    BY <2>6, <2>7
<1> QED
  BY <1>1, <1>2, <1>3, <1>4, <1>5, <1>6, <1>7, QuietSteps

(* Between two calls, and wherever no two stores belong together, the list *)
(* is intact.                                                              *)
LEMMA SoundIsIntact == TypeInv /\ SoundInv => PoolIntact
<1> SUFFICES ASSUME TypeInv, SoundInv, ~torn, Settled PROVE PoolOK(Pool)
  BY DEF PoolIntact, Undisturbed
<1>1. MemoryType /\ Turn \in Context
  BY DEF TypeInv, TypeOK, Turn, Context
<1>2. call[Turn].step \in Steps /\ call[Turn].step \notin {"join", "claim", "link", "linkprev"}
  BY <1>1, Fields DEF Settled, At
<1>3. Sound(mem, list, call[Turn])
  BY DEF SoundInv
<1>4. Whole(mem, list)
  BY <1>2, <1>3
  DEF Sound, Steps, Found, Large, Carved, NextFree, Walking, PrevFree, Ready
<1> QED
  BY <1>4 DEF Whole, PoolInv, Pool, PoolOf

(***************************************************************************)
(* The buffers of the pipes                                                *)
(***************************************************************************)
UsedBuffer(ptr) == InUse(mem, list, ptr - 4)

(* How far the call in which c frees ptr has got: the block it is about to *)
(* mark is that of ptr, or none that is in use.                            *)
Freeing(c, ptr) ==
    IF At(c, "idle")
      THEN ~UsedBuffer(ptr)
      ELSE call[c].blk = ptr - 4 \/ (~InUse(mem, list, call[c].blk) /\ ~UsedBuffer(ptr))

Held ==
    /\ \A p \in Pipe : buf[p] # NULL /\ ~Closing(p) => UsedBuffer(buf[p])
    /\ \A p \in Pipe : buf[p] # NULL => buf[p] # got
    /\ \A p, r \in Pipe : p # r /\ buf[p] # NULL => buf[p] # buf[r]
    /\ got # NULL => UsedBuffer(got)
    /\ tpc = "forget" => Freeing("task", buf[PIPE_CONTROLPIPE])
    /\ closing => Freeing("isr", buf[isr])

HeldInv == ~torn => Held

(* A buffer in use is one of the pool's. *)
LEMMA UsedIs ==
    ASSUME MemoryType, NEW b \in Nat
    PROVE  /\ b \in UsedBuffers(Pool) <=> UsedBuffer(b)
           /\ ~UsedBuffer(NULL)
<1>1. list \subseteq Words /\ Words \subseteq Nat
  BY DEF MemoryType, Words
<1>2. UsedBuffers(Pool) = {a + 4 : a \in {x \in list : ~mem[x].isFree}}
  BY DEF UsedBuffers, Pool, HEADER_SIZE
<1>3. ASSUME b \in UsedBuffers(Pool) PROVE UsedBuffer(b)
  <2>1. PICK a \in list : ~mem[a].isFree /\ b = a + 4
    BY <1>2, <1>3
  <2>2. b - 4 = a
    BY <1>1, <2>1
  <2> QED
    BY <2>1, <2>2 DEF UsedBuffer, InUse
<1>4. ASSUME UsedBuffer(b) PROVE b \in UsedBuffers(Pool)
  <2>1. b - 4 \in list /\ ~mem[b - 4].isFree /\ b = (b - 4) + 4
    BY <1>4 DEF UsedBuffer, InUse
  <2> QED
    BY <1>2, <2>1
<1>5. ~UsedBuffer(NULL)
  BY <1>1 DEF UsedBuffer, InUse, NULL
<1> QED
  BY <1>3, <1>4, <1>5

(* What a step of a call does to the buffers that are in use: *)
LEMMA AllocatedBuffers ==
    ASSUME TypeInv, SoundInv, ~torn', Allocate
    PROVE  /\ UNCHANGED <<buf, tpc, isr, closing, orphans>> /\ ~torn /\ ~closing /\ tpc = "assign"
           /\ got = NULL
           /\ \/ /\ got' = NULL
                 /\ \A b \in Nat : UsedBuffer(b)' <=> UsedBuffer(b)
              \/ \E g \in Nat :
                   /\ g = got' /\ g # NULL /\ ~UsedBuffer(g) /\ UsedBuffer(g)'
                   /\ \A b \in Nat : b # g => (UsedBuffer(b)' <=> UsedBuffer(b))
<1>0. MemoryType /\ CallOK /\ MemoryType' /\ "task" \in Context
  BY TypeStep DEF TypeInv, TypeOK, Context, Next, Task
<1>1. AllocStep("task") /\ isr = NoPipe /\ tpc = "assign"
  BY DEF Allocate
<1>2. torn' = torn
  BY <1>0, <1>1, CallStepType DEF CallOK
<1>3. Sound(mem, list, call["task"]) /\ ~closing /\ CallTyped("task")
  BY <1>1, <1>2, TaskSound
<1>4. got = NULL
  BY <1>0, <1>1 DEF CallOK, AllocStep, Search, Fit, Claim, Carve, Shrink, Join, At
<1>5. \/ /\ got' \in {got, NULL}
         /\ SameUse(mem, list, mem', list')
      \/ /\ got' # NULL
         /\ ~InUse(mem, list, got' - 4) /\ InUse(mem', list', got' - 4)
         /\ SameUseBut(mem, list, mem', list', got' - 4)
  BY <1>0, <1>1, <1>3, AllocStepSound
<1>6. UNCHANGED <<buf, tpc, isr, closing, orphans>>
  BY DEF Allocate, task, pipes, handler
<1>7. got' \in Nat
  BY <1>0 DEF MemoryType
<1>8. CASE got' \in {got, NULL} /\ SameUse(mem, list, mem', list')
  BY <1>1, <1>2, <1>3, <1>4, <1>6, <1>8 DEF SameUse, UsedBuffer
<1>9. CASE /\ got' # NULL
           /\ ~InUse(mem, list, got' - 4) /\ InUse(mem', list', got' - 4)
           /\ SameUseBut(mem, list, mem', list', got' - 4)
  <2>0. PICK g \in Nat : g = got'
    BY <1>7
  <2>1. g # NULL /\ ~UsedBuffer(g) /\ UsedBuffer(g)'
    BY <1>9, <2>0 DEF UsedBuffer
  <2>2. ASSUME NEW b \in Nat, b # g PROVE UsedBuffer(b)' <=> UsedBuffer(b)
    <3>1. b - 4 # g - 4
      BY <2>2
    <3> QED
      BY <1>9, <2>0, <3>1 DEF SameUseBut, UsedBuffer
  <2> QED
    BY <1>1, <1>2, <1>3, <1>4, <1>6, <1>9, <2>0, <2>1, <2>2
<1> QED
  BY <1>5, <1>8, <1>9

(* A free takes away no buffer but the one that is freed. *)
LEMMA FreedBuffers ==
    ASSUME TypeInv, SoundInv, HeldInv, ~torn', NEW c \in Context, FreeStep(c),
           NEW ptr, ptr \in Nat, Freeing(c, ptr),
           c = "task" => isr = NoPipe
    PROVE  /\ ~torn /\ Freeing(c, ptr)' /\ got' = got
           /\ \A b \in Nat : UsedBuffer(b)' => UsedBuffer(b)
           /\ \A b \in Nat : b # ptr => (UsedBuffer(b)' <=> UsedBuffer(b))
           /\ \A a : InUse(mem', list', a) => InUse(mem, list, a)
           /\ \A d \in Context : d # c => call'[d] = call[d]
<1> DEFINE b == call[c].blk
<1>0. /\ MemoryType /\ CallOK /\ CallTyped(c) /\ Context = {"task", "isr"}
      /\ ~At(c, "idle") /\ b \in Nat
  <2>1. ~At(c, "idle")
    BY DEF FreeStep, TestNext, GrowNext, LinkNext, Walk, GrowPrev, LinkPrev, Mark, At
  <2> QED
    BY <2>1, Fields DEF TypeInv, TypeOK, CallOK, Context
<1>1. torn' = torn /\ got' = got /\ \A d \in Context : d # c => call'[d] = call[d]
  BY <1>0, CallStepType
<1>2. Sound(mem, list, call[c])
  BY <1>0, <1>1, TaskSound, HandlerSound
<1>3. /\ ~InUse(mem, list, b) => ~InUse(mem', list', b)
      /\ SameUseBut(mem, list, mem', list', b)
      /\ \/ call'[c].step # "idle" /\ call'[c].blk = b
         \/ ~InUse(mem', list', b) /\ ~InUse(mem', list', call'[c].blk)
         \/ ~InUse(mem', list', b) /\ call'[c].step = "idle"
  BY <1>0, <1>2, FreeStepSound
<1>4. b = ptr - 4 \/ (~InUse(mem, list, b) /\ ~UsedBuffer(ptr))
  BY <1>0 DEF Freeing
<1> HIDE DEF b
<1>5. \A a : InUse(mem', list', a) => InUse(mem, list, a)
  BY <1>3 DEF SameUseBut
<1>6. \A x \in Nat : UsedBuffer(x)' => UsedBuffer(x)
  BY <1>5 DEF UsedBuffer
<1>7. ASSUME NEW x \in Nat, x # ptr PROVE UsedBuffer(x)' <=> UsedBuffer(x)
  <2>1. CASE x - 4 # b
    BY <1>3, <2>1 DEF SameUseBut, UsedBuffer
  <2>2. CASE x - 4 = b
    <3>1. b # ptr - 4
      BY <1>7, <2>2
    <3> QED
      BY <1>3, <1>4, <2>2, <3>1 DEF UsedBuffer
  <2> QED
    BY <2>1, <2>2
<1>8. Freeing(c, ptr)'
  <2>1. CASE call'[c].step # "idle" /\ call'[c].blk = b
    BY <1>4, <1>5, <2>1 DEF Freeing, At, UsedBuffer
  <2>2. CASE ~InUse(mem', list', b)
    <3>1. ~InUse(mem', list', ptr - 4)
      BY <1>4, <1>5, <2>2 DEF UsedBuffer
    <3> QED
      BY <1>3, <2>1, <2>2, <3>1 DEF Freeing, At, UsedBuffer
  <2> QED
    BY <1>3, <2>1, <2>2
<1> QED
  BY <1>1, <1>5, <1>6, <1>7, <1>8

(* No step takes away the buffer of a pipe that keeps it. *)
LEMMA HeldStep ==
    ASSUME TypeInv, SoundInv, HeldInv, [Next]_vars
    PROVE  HeldInv'
<1> SUFFICES ASSUME ~torn' PROVE Held'
  BY DEF HeldInv
<1>0. /\ MemoryType /\ MemoryType' /\ CallOK /\ buf \in [Pipe -> Nat] /\ got \in Nat
      /\ buf' \in [Pipe -> Nat] /\ got' \in Nat
      /\ "task" \in Context /\ "isr" \in Context /\ "task" # "isr"
      /\ NoPipe \notin Pipe /\ PIPE_CONTROLPIPE \in Pipe
      /\ (isr = NoPipe => ~closing) /\ (closing => isr \in Pipe)
  BY TypeStep
  DEF TypeInv, TypeOK, MemoryType, CallOK, Context, Pipe, NoPipe, PIPE_CONTROLPIPE
<1>n. ~UsedBuffer(NULL) /\ ~UsedBuffer(NULL)' /\ NULL \in Nat
  <2>1. list \subseteq Words /\ list' \subseteq Words /\ Words \subseteq Nat
    BY <1>0 DEF MemoryType, Words
  <2>2. NULL - 4 \notin Words
    BY <2>1 DEF NULL
  <2> QED
    BY <2>1, <2>2 DEF UsedBuffer, InUse, NULL
<1>1. CASE Quiet
  <2>1. UNCHANGED <<mem, call, list, torn, got, buf, closing>> /\ (closing => isr' = isr)
    BY <1>1 DEF Quiet
  <2>2. Held
    BY <2>1 DEF HeldInv
  <2>3. /\ tpc' = "forget" <=> tpc = "forget"
        /\ \A p \in Pipe : Closing(p)' <=> Closing(p)
    BY <1>1, <2>1 DEF Quiet, Closing
  <2>4. /\ \A b : UsedBuffer(b)' <=> UsedBuffer(b)
        /\ \A c, b : Freeing(c, b)' <=> Freeing(c, b)
    BY <2>1 DEF UsedBuffer, Freeing, At
  <2> QED
    BY <2>1, <2>2, <2>3, <2>4 DEF Held
<1>2. CASE Alloc
  <2>1. /\ AllocCall("task", BufferSize(PipeOf(at))) /\ BufferSize(PipeOf(at)) \in Nat
        /\ tpc = "alloc" /\ tpc' = "assign" /\ isr = NoPipe /\ UNCHANGED <<buf, isr, closing>>
    BY <1>2, BufferSizeType, PipeOfType DEF Alloc, Step, pipes, handler
  <2>2. UNCHANGED <<mem, got, list, torn>>
    BY <1>0, <2>1, AllocCallType
  <2>3. Held
    BY <2>2 DEF HeldInv
  <2>4. \A b : UsedBuffer(b)' <=> UsedBuffer(b)
    BY <2>2 DEF UsedBuffer
  <2> QED
    BY <1>0, <2>1, <2>2, <2>3, <2>4 DEF Held, Closing
<1>3. CASE Allocate
  <2>1. /\ UNCHANGED <<buf, tpc, isr, closing, orphans>> /\ ~torn /\ ~closing /\ tpc = "assign"
        /\ got = NULL
        /\ \/ /\ got' = NULL
              /\ \A b \in Nat : UsedBuffer(b)' <=> UsedBuffer(b)
           \/ \E g \in Nat :
                /\ g = got' /\ g # NULL /\ ~UsedBuffer(g) /\ UsedBuffer(g)'
                /\ \A b \in Nat : b # g => (UsedBuffer(b)' <=> UsedBuffer(b))
    BY <1>3, AllocatedBuffers
  <2>2. Held
    BY <2>1 DEF HeldInv
  <2>3. \A p \in Pipe : ~Closing(p) /\ ~Closing(p)' /\ buf[p] \in Nat
    BY <1>0, <2>1 DEF Closing
  <2>4. \A p \in Pipe : buf[p] # NULL => UsedBuffer(buf[p])
    BY <2>2, <2>3 DEF Held
  <2>5. PICK g \in Nat : g = got'
    BY <1>0
  <2>6. ASSUME NEW b \in Nat, UsedBuffer(b) PROVE UsedBuffer(b)' /\ (b # g \/ g = NULL)
    BY <2>1, <2>5, <2>6
  <2>7. ASSUME NEW p \in Pipe, buf[p] # NULL
        PROVE  UsedBuffer(buf[p])' /\ buf[p] # got'
    <3>1. PICK b \in Nat : b = buf[p]
      BY <2>3
    <3>2. UsedBuffer(b)' /\ b # got' /\ b = buf'[p]
      BY <2>1, <2>4, <2>5, <2>6, <2>7, <3>1
    <3> QED
      BY <3>1, <3>2 DEF UsedBuffer
  <2>8. got' # NULL => UsedBuffer(got)'
    <3>1. g # NULL => UsedBuffer(g)'
      BY <2>1, <2>5
    <3> QED
      BY <2>5, <3>1 DEF UsedBuffer
  <2> QED
    BY <2>1, <2>2, <2>3, <2>7, <2>8 DEF Held
<1>4. CASE Assign
  <2>1. /\ buf' = [buf EXCEPT ![PipeOf(at)] = got] /\ got' = NULL /\ PipeOf(at) \in Pipe
        /\ tpc = "assign" /\ ~closing /\ UNCHANGED <<mem, call, list, torn, isr, closing>>
    BY <1>0, <1>4, PipeOfType DEF Assign, handler
  <2>2. Held
    BY <2>1 DEF HeldInv
  <2>3. \A b : UsedBuffer(b)' <=> UsedBuffer(b)
    BY <2>1 DEF UsedBuffer
  <2>4. \A p \in Pipe : buf'[p] = IF p = PipeOf(at) THEN got ELSE buf[p]
    BY <1>0, <2>1
  <2>5. tpc' # "forget"
    BY <1>4 DEF Assign, Goto, Failed, Configured, Rest
  <2>6. \A p \in Pipe : ~Closing(p)
    BY <2>1 DEF Closing
  <2> QED
    BY <2>1, <2>2, <2>3, <2>4, <2>5, <2>6 DEF Held, UsedBuffer
<1>5. CASE ReleaseBuffer
  <2> DEFINE b == buf[PIPE_CONTROLPIPE]
  <2>1. /\ FreeCall("task", b) /\ b \in Nat /\ (b # NULL => b - 4 \in Words) /\ ~closing
        /\ tpc = "release" /\ tpc' = "forget" /\ UNCHANGED <<buf, isr, closing>>
    BY <1>0, <1>5 DEF ReleaseBuffer, Release, Step, CallOK, pipes, handler
  <2>a. b = buf[PIPE_CONTROLPIPE] /\ b = buf'[PIPE_CONTROLPIPE]
    BY <2>1
  <2> HIDE DEF b
  <2>2. /\ UNCHANGED <<mem, list, got>> /\ ~torn
        /\ b = NULL => call' = call
        /\ b # NULL => call'["task"].step = "test" /\ call'["task"].blk = b - 4
    BY <1>0, <2>1, FreeCallType DEF CallOK
  <2>3. Held
    BY <2>2 DEF HeldInv
  <2>4. \A x : UsedBuffer(x)' <=> UsedBuffer(x)
    BY <2>2 DEF UsedBuffer
  <2>5. call["task"].step = "idle"
    <3>1. call["task"].step \in Steps
      BY <1>0, Fields
    <3> QED
      BY <1>0, <2>1, <3>1 DEF CallOK, Steps, AllocSteps, FreeSteps
  <2>6. Freeing("task", buf[PIPE_CONTROLPIPE])'
    <3>1. CASE b = NULL
      BY <1>n, <2>a, <2>2, <2>5, <3>1 DEF Freeing, At, UsedBuffer
    <3>2. CASE b # NULL
      BY <2>a, <2>2, <3>2 DEF Freeing, At
    <3> QED
      BY <3>1, <3>2
  <2>7. \A p \in Pipe : ~Closing(p)
    BY <2>1 DEF Closing
  <2> QED
    BY <2>1, <2>2, <2>3, <2>4, <2>6, <2>7 DEF Held, UsedBuffer
<1>6. CASE ClosePipe /\ closing'
  <2> DEFINE b == buf[isr]
  <2>1. /\ FreeCall("isr", b) /\ b \in Nat /\ (b # NULL => b - 4 \in Words) /\ ~closing
        /\ isr \in Pipe /\ closing' /\ UNCHANGED <<buf, isr, tpc>>
    BY <1>0, <1>6 DEF ClosePipe, Release, CallOK, task
  <2>a. b = buf[isr] /\ b = buf'[isr']
    BY <2>1
  <2> HIDE DEF b
  <2>2. /\ UNCHANGED <<mem, list, got>> /\ ~torn
        /\ b = NULL => call' = call
        /\ b # NULL => call'["isr"].step = "test" /\ call'["isr"].blk = b - 4
        /\ call'["task"] = call["task"]
    BY <1>0, <2>1, FreeCallType DEF CallOK
  <2>3. Held
    BY <2>2 DEF HeldInv
  <2>4. \A x : UsedBuffer(x)' <=> UsedBuffer(x)
    BY <2>2 DEF UsedBuffer
  <2>5. call["isr"].step = "idle"
    BY <1>0, <2>1 DEF CallOK, At
  <2>6. Freeing("isr", buf[isr])'
    <3>1. CASE b = NULL
      BY <1>n, <2>a, <2>2, <2>5, <3>1 DEF Freeing, At, UsedBuffer
    <3>2. CASE b # NULL
      BY <2>a, <2>2, <3>2 DEF Freeing, At
    <3> QED
      BY <3>1, <3>2
  <2>7. \A p \in Pipe : Closing(p) => Closing(p)'
    BY <2>1 DEF Closing
  <2>8. tpc = "forget" =>
          Freeing("task", buf[PIPE_CONTROLPIPE])' = Freeing("task", buf[PIPE_CONTROLPIPE])
    BY <2>1, <2>2 DEF Freeing, At, UsedBuffer
  <2>9. tpc' = "forget" => Freeing("task", buf[PIPE_CONTROLPIPE])'
    BY <2>1, <2>3, <2>8 DEF Held
  <2> QED
    BY <2>1, <2>2, <2>3, <2>4, <2>6, <2>7, <2>9 DEF Held, UsedBuffer
<1>f. ASSUME NEW c \in Context, NEW q \in Pipe, FreeStep(c), Freeing(c, buf[q]), Closing(q),
             c = "task" => isr = NoPipe,
             UNCHANGED <<buf, tpc, isr, closing>>,
             c = "task" => q = PIPE_CONTROLPIPE /\ ~closing,
             c = "isr" => q = isr /\ closing
      PROVE  Held'
  <2>0. PICK ptr \in Nat : ptr = buf[q]
    BY <1>0
  <2>1. ptr = buf'[q] /\ Freeing(c, ptr)
    BY <1>f, <2>0
  <2>2. /\ ~torn /\ Freeing(c, ptr)' /\ got' = got
        /\ \A b \in Nat : UsedBuffer(b)' => UsedBuffer(b)
        /\ \A b \in Nat : b # ptr => (UsedBuffer(b)' <=> UsedBuffer(b))
        /\ \A a : InUse(mem', list', a) => InUse(mem, list, a)
        /\ \A d \in Context : d # c => call'[d] = call[d]
    BY <1>0, <1>f, <2>1, FreedBuffers
  <2>3. Held
    BY <2>2 DEF HeldInv
  <2>4. \A p \in Pipe : Closing(p)' <=> Closing(p)
    BY <1>f DEF Closing
  <2>5. \A p \in Pipe : p # q /\ buf[p] # NULL => buf[p] # ptr
    BY <1>f, <2>0, <2>3 DEF Held
  <2>6. ASSUME NEW p \in Pipe, buf[p] # NULL, ~Closing(p) PROVE UsedBuffer(buf[p])'
    <3>1. PICK b : b = buf[p]
      OBVIOUS
    <3>2. b \in Nat /\ b # ptr /\ UsedBuffer(b)
      BY <1>0, <1>f, <2>3, <2>5, <2>6, <3>1 DEF Held
    <3>3. UsedBuffer(b)' /\ b = buf'[p]
      BY <1>f, <2>2, <3>1, <3>2
    <3> QED
      BY <3>3 DEF UsedBuffer
  <2>7. got # NULL => UsedBuffer(got)'
    <3>1. SUFFICES ASSUME got # NULL PROVE UsedBuffer(got)'
      OBVIOUS
    <3>2. PICK g : g = got
      OBVIOUS
    <3>3. g \in Nat /\ g # ptr /\ UsedBuffer(g)
      BY <1>0, <1>f, <2>0, <2>1, <2>3, <3>1, <3>2 DEF Held
    <3>4. UsedBuffer(g)' /\ g = got'
      BY <2>2, <3>2, <3>3
    <3> QED
      BY <3>4 DEF UsedBuffer
  <2>8. Freeing(c, buf[q])'
    BY <2>1, <2>2 DEF Freeing, UsedBuffer
  <2>9. tpc' = "forget" => Freeing("task", buf[PIPE_CONTROLPIPE])'
    <3>1. CASE c = "task"
      BY <1>f, <2>8, <3>1
    <3>2. CASE c # "task"
      BY <1>0, <1>f, <2>2, <2>3, <3>2 DEF Held, Freeing, UsedBuffer, At
    <3> QED
      BY <3>1, <3>2
  <2>10. closing' => Freeing("isr", buf[isr])'
    BY <1>f, <2>8 DEF Context
  <2> QED
    BY <1>f, <2>2, <2>3, <2>4, <2>6, <2>7, <2>9, <2>10 DEF Held
<1>7. CASE Free
  <2>1. /\ FreeStep("task") /\ tpc = "forget" /\ isr = NoPipe
        /\ UNCHANGED <<buf, tpc, isr, closing>>
    BY <1>7 DEF Free, pipes, task, handler
  <2>2. torn' = torn
    BY <1>0, <2>1, CallStepType DEF CallOK
  <2>3. Freeing("task", buf[PIPE_CONTROLPIPE]) /\ Closing(PIPE_CONTROLPIPE)
    BY <2>1, <2>2 DEF HeldInv, Held, Closing
  <2> QED
    BY <1>0, <1>f, <2>1, <2>3
<1>8. CASE FreeInHandler
  <2>1. /\ FreeStep("isr") /\ closing /\ UNCHANGED <<buf, tpc, isr, closing>>
    BY <1>8 DEF FreeInHandler, pipes, task, handler
  <2>2. torn' = torn
    BY <1>0, <2>1, CallStepType DEF CallOK
  <2>3. Freeing("isr", buf[isr]) /\ isr \in Pipe /\ Closing(isr)
    BY <1>0, <2>1, <2>2 DEF HeldInv, Held, Closing
  <2> QED
    BY <1>0, <1>f, <2>1, <2>3
<1>9. CASE Forget
  <2>1. /\ buf' = [buf EXCEPT ![PIPE_CONTROLPIPE] = NULL] /\ tpc = "forget" /\ tpc' = "write"
        /\ ~closing /\ UNCHANGED <<mem, call, list, torn, got, isr, closing>>
    BY <1>0, <1>9 DEF Forget, Step, memory, allocator, handler
  <2>2. Held
    BY <2>1 DEF HeldInv
  <2>3. \A b : UsedBuffer(b)' <=> UsedBuffer(b)
    BY <2>1 DEF UsedBuffer
  <2>4. \A p \in Pipe : buf'[p] = IF p = PIPE_CONTROLPIPE THEN NULL ELSE buf[p]
    BY <1>0, <2>1
  <2>5. \A p \in Pipe : p # PIPE_CONTROLPIPE => ~Closing(p)
    BY <2>1 DEF Closing
  <2> QED
    BY <2>1, <2>2, <2>3, <2>4, <2>5 DEF Held, UsedBuffer
<1>10. CASE Closed
  <2>1. /\ buf' = [buf EXCEPT ![isr] = NULL] /\ closing /\ ~closing' /\ call["isr"].step = "idle"
        /\ isr \in Pipe /\ UNCHANGED <<mem, call, list, torn, got, tpc>>
    BY <1>0, <1>10 DEF Closed, memory, allocator, task, At
  <2>2. Held
    BY <2>1 DEF HeldInv
  <2>3. \A b : UsedBuffer(b)' <=> UsedBuffer(b)
    BY <2>1 DEF UsedBuffer
  <2>4. \A p \in Pipe : buf'[p] = IF p = isr THEN NULL ELSE buf[p]
    BY <1>0, <2>1
  <2>5. \A p \in Pipe : p # isr => (Closing(p)' <=> Closing(p))
    BY <2>1 DEF Closing
  <2>6. ~UsedBuffer(buf[isr])
    BY <2>1, <2>2 DEF Held, Freeing, At
  <2>7. tpc' = "forget" => Freeing("task", buf[PIPE_CONTROLPIPE])'
    <3>1. SUFFICES ASSUME tpc = "forget" PROVE Freeing("task", buf[PIPE_CONTROLPIPE])'
      BY <2>1
    <3>2. Freeing("task", buf[PIPE_CONTROLPIPE])
      BY <2>2, <3>1 DEF Held
    <3>3. CASE isr # PIPE_CONTROLPIPE
      BY <1>0, <2>1, <2>4, <3>2, <3>3 DEF Freeing, At, UsedBuffer
    <3>4. CASE isr = PIPE_CONTROLPIPE
      <4>1. buf'[PIPE_CONTROLPIPE] = NULL
        BY <1>0, <2>4, <3>4
      <4>2. At("task", "idle") \/ ~InUse(mem, list, call["task"].blk)
        BY <2>6, <3>2, <3>4 DEF Freeing, UsedBuffer
      <4> QED
        BY <1>n, <2>1, <4>1, <4>2 DEF Freeing, At, UsedBuffer
    <3> QED
      BY <3>3, <3>4
  <2> QED
    BY <2>1, <2>2, <2>3, <2>4, <2>5, <2>7 DEF Held, UsedBuffer
<1> QED
  BY <1>1, <1>2, <1>3, <1>4, <1>5, <1>6, <1>7, <1>8, <1>9, <1>10, QuietSteps

(* This is what is demanded of the buffers. *)
LEMMA HeldIsHeld == TypeInv /\ HeldInv => BuffersHeld
<1> SUFFICES ASSUME TypeInv, HeldInv, Undisturbed PROVE BuffersHeld
  BY DEF BuffersHeld
<1>1. Held /\ MemoryType /\ \A p \in Pipe : buf[p] \in Nat
  BY DEF HeldInv, Undisturbed, TypeInv, TypeOK
<1> QED
  BY <1>1, UsedIs DEF Held, BuffersHeld

(***************************************************************************)
(* Buffers are accounted for.  A pipe's buffer may be overwritten when it  *)
(* is lost already: not in use, given up, or just being given back.  The   *)
(* invariant says when it is: after a detach, and in the states from which *)
(* the host opens a pipe.                                                  *)
(***************************************************************************)
Account ==
    \A b \in Nat : UsedBuffer(b) => b = got \/ b \in orphans \/ \E p \in Pipe : buf[p] = b

Lost(p) == UsedBuffer(buf[p]) => buf[p] \in orphans \/ Closing(p)

(* No buffer in use has the address NULL. *)
LEMMA NullUnused ==
    ASSUME NEW D, D \subseteq Words
    PROVE  NULL - 4 \notin D
  BY DEF NULL, Words

(* What is lost stays lost while nobody stores a buffer, *)
LEMMA AccountStays ==
    ASSUME MemoryType', buf \in [Pipe -> Nat], Held', Account, buf' = buf,
           \A b \in Nat : UsedBuffer(b)' => b = got' \/ (UsedBuffer(b) /\ b # got),
           \A b \in Nat : b \in orphans => b \in orphans' \/ \E p \in Pipe : buf[p] = b /\ Closing(p)',
           \A p \in Pipe : Closing(p) => Closing(p)'
    PROVE  Account' /\ \A p \in Pipe : Lost(p) => Lost(p)'
<1>1. ~UsedBuffer(NULL)'
  BY NullUnused DEF UsedBuffer, InUse, MemoryType
<1>2. Account'
  BY DEF Account
<1>3. ASSUME NEW p \in Pipe, Lost(p) PROVE Lost(p)'
  <2>1. PICK b \in Nat : b = buf[p]
    OBVIOUS
  <2>2. SUFFICES ASSUME UsedBuffer(b)' PROVE b \in orphans' \/ Closing(p)'
    BY <2>1 DEF Lost
  <2>3. b # NULL
    BY <1>1, <2>2
  <2>4. b # got' /\ \A r \in Pipe : buf[r] = b => r = p
    BY <2>1, <2>3 DEF Held
  <2>5. b \in orphans \/ Closing(p)
    BY <1>3, <2>1, <2>2, <2>4 DEF Lost
  <2> QED
    BY <2>4, <2>5
<1> QED
  BY <1>2, <1>3

(* when a pipe forgets the one that it has given back, *)
LEMMA AccountForgotten ==
    ASSUME MemoryType', buf \in [Pipe -> Nat], Account, UNCHANGED <<mem, list, got, orphans>>,
           NEW q \in Pipe, buf' = [buf EXCEPT ![q] = NULL], ~UsedBuffer(buf[q]),
           \A p \in Pipe : p # q /\ Closing(p) => Closing(p)'
    PROVE  Account' /\ \A p \in Pipe : Lost(p) \/ p = q => Lost(p)'
<1>1. ~UsedBuffer(NULL)'
  BY NullUnused DEF UsedBuffer, InUse, MemoryType
<1>2. \A b : UsedBuffer(b)' <=> UsedBuffer(b)
  BY DEF UsedBuffer
<1>3. \A p \in Pipe : buf'[p] = IF p = q THEN NULL ELSE buf[p]
  OBVIOUS
<1>4. Account'
  <2>1. SUFFICES ASSUME NEW b \in Nat, UsedBuffer(b)
                 PROVE  b = got' \/ b \in orphans' \/ \E p \in Pipe : buf'[p] = b
    BY <1>2 DEF Account
  <2>2. b # buf[q]
    BY <2>1
  <2> QED
    BY <1>3, <2>1, <2>2 DEF Account
<1>5. ASSUME NEW p \in Pipe, Lost(p) \/ p = q PROVE Lost(p)'
  <2>1. CASE p = q
    BY <1>1, <1>3, <2>1 DEF Lost, UsedBuffer
  <2>2. CASE p # q
    <3>1. PICK b : b = buf[p] /\ b = buf'[p]
      BY <1>3, <2>2
    <3>2. UsedBuffer(b)' => b \in orphans' \/ Closing(p)'
      BY <1>2, <1>5, <2>2, <3>1 DEF Lost
    <3> QED
      BY <3>1, <3>2 DEF Lost, UsedBuffer
  <2> QED
    BY <2>1, <2>2
<1> QED
  BY <1>4, <1>5

(* and when one is stored over a lost one, or late. *)
LEMMA AccountAssign ==
    ASSUME TypeInv, MemoryType', Account, Assign, Lost(PipeOf(at))
    PROVE  /\ Account'
           /\ \A p \in Pipe : Lost(p) /\ (p # PipeOf(at) \/ gone \/ got = NULL) => Lost(p)'
<1>0. PICK q \in Pipe : q = PipeOf(at)
  BY PipeOfType
<1>1. /\ buf' = [buf EXCEPT ![q] = got] /\ got' = NULL /\ UNCHANGED <<mem, list>>
      /\ orphans' = orphans \union (IF gone THEN {got} \ {NULL} ELSE {})
      /\ ~closing /\ tpc = "assign" /\ buf \in [Pipe -> Nat] /\ got \in Nat
  BY <1>0 DEF Assign, TypeInv, TypeOK, CallOK, MemoryType, Pipe, NoPipe
<1>2. ~UsedBuffer(NULL)'
  BY NullUnused DEF UsedBuffer, InUse, MemoryType
<1>3. \A b : UsedBuffer(b)' <=> UsedBuffer(b)
  BY <1>1 DEF UsedBuffer
<1>4. \A p \in Pipe : buf'[p] = IF p = q THEN got ELSE buf[p]
  BY <1>1
<1>5. \A p \in Pipe : ~Closing(p)
  BY <1>1 DEF Closing
<1>6. UsedBuffer(buf[q]) => buf[q] \in orphans
  BY <1>0, <1>5 DEF Lost
<1>7. Account'
  <2>1. SUFFICES ASSUME NEW b \in Nat, UsedBuffer(b)
                 PROVE  b = got' \/ b \in orphans' \/ \E p \in Pipe : buf'[p] = b
    BY <1>3 DEF Account
  <2>2. CASE b = got
    BY <1>4, <2>2
  <2>3. CASE b \in orphans
    BY <1>1, <2>3
  <2>4. ASSUME NEW p \in Pipe, buf[p] = b PROVE b \in orphans' \/ \E r \in Pipe : buf'[r] = b
    BY <1>1, <1>4, <1>6, <2>1, <2>4
  <2> QED
    BY <2>1, <2>2, <2>3, <2>4 DEF Account
<1>8. ASSUME NEW p \in Pipe, Lost(p), p # PipeOf(at) \/ gone \/ got = NULL PROVE Lost(p)'
  <2>1. CASE p # q
    <3>1. PICK b : b = buf[p] /\ b = buf'[p]
      BY <1>4, <2>1
    <3>2. UsedBuffer(b)' => b \in orphans'
      BY <1>1, <1>3, <1>5, <1>8, <3>1 DEF Lost
    <3> QED
      BY <3>1, <3>2 DEF Lost, UsedBuffer
  <2>2. CASE p = q
    <3>1. PICK b : b = got /\ b = buf'[p]
      BY <1>4, <2>2
    <3>2. UsedBuffer(b)' => b \in orphans'
      <4>1. CASE b = NULL
        BY <1>2, <4>1
      <4>2. CASE b # NULL
        BY <1>0, <1>1, <1>8, <2>2, <3>1, <4>2
      <4> QED
        BY <4>1, <4>2
    <3> QED
      BY <3>1, <3>2 DEF Lost, UsedBuffer
  <2> QED
    BY <2>1, <2>2
<1> QED
  BY <1>7, <1>8

(* Only a pipe that gives its buffer back takes it off the lost ones. *)
LEMMA OrphansStay ==
    ASSUME Quiet, [Next]_vars
    PROVE  orphans \subseteq orphans'
<1>1. CASE Assign \/ ResetInterface
  BY <1>1 DEF Assign, ResetInterface
<1>2. CASE ReleaseBuffer
  BY <1>2 DEF Quiet, ReleaseBuffer, Step
<1>3. CASE ClosePipe
  BY <1>3 DEF Quiet, ClosePipe, memory
<1>4. CASE ~Assign /\ ~ResetInterface /\ ~ReleaseBuffer /\ ~ClosePipe
  <2>1. orphans' = orphans
    BY <1>4 DEF Next, Task, Handler, Begin, Write, Open, Link, StoreHandle, Alloc, Allocate,
       Send, Queue, Wait, Unhook, Drop, Free, Forget, Error,
       Enumerate, DeEnumerate, FreeInHandler, Closed, Unattach, Complete,
       AsyncAdvance, Plug, memory, vars
  <2> QED
    BY <2>1
<1> QED
  BY <1>1, <1>2, <1>3, <1>4

(* What every step does to the buffers. *)
LEMMA BuffersStep ==
    ASSUME TypeInv, SoundInv, HeldInv, ~torn, Account, [Next]_vars, ~torn',
           Assign => Lost(PipeOf(at))
    PROVE  /\ Account'
           /\ ~Assign => \A p \in Pipe : Lost(p) => Lost(p)'
           /\ Assign => \A p \in Pipe :
                          Lost(p) /\ (p # PipeOf(at) \/ gone \/ got = NULL) => Lost(p)'
           /\ ReleaseBuffer \/ Forget \/ ResetInterface => Lost(PIPE_CONTROLPIPE)'
           /\ (ClosePipe /\ closing') \/ Closed => \A p \in Pipe : p = isr => Lost(p)'
<1>0. /\ TypeInv' /\ MemoryType /\ MemoryType' /\ Held /\ Held'
      /\ buf \in [Pipe -> Nat] /\ got \in Nat /\ CallOK
      /\ PIPE_CONTROLPIPE \in Pipe /\ "task" \in Context /\ "isr" \in Context
      /\ (isr = NoPipe => ~closing) /\ orphans \subseteq Nat
  BY TypeStep, HeldStep
  DEF HeldInv, TypeInv, TypeOK, MemoryType, CallOK, Pipe, NoPipe, PIPE_CONTROLPIPE, Context
<1>k. ASSUME buf' = buf, got' = got, \A b \in Nat : UsedBuffer(b)' => UsedBuffer(b),
             orphans \subseteq orphans', \A p \in Pipe : Closing(p) => Closing(p)'
      PROVE  Account' /\ \A p \in Pipe : Lost(p) => Lost(p)'
  BY <1>0, <1>k, AccountStays
<1>1. CASE Quiet
  <2>1. /\ buf' = buf /\ got' = got /\ \A b \in Nat : UsedBuffer(b)' => UsedBuffer(b)
        /\ \A p \in Pipe : Closing(p) => Closing(p)'
        /\ \/ tpc' = tpc
           \/ tpc \notin {"assign", "forget"} /\ tpc' \notin {"assign", "forget"}
        /\ closing' = closing
    BY <1>1 DEF Quiet, UsedBuffer, Closing
  <2>2. Account' /\ \A p \in Pipe : Lost(p) => Lost(p)'
    BY <1>1, <1>k, <2>1, OrphansStay
  <2>3. ~ReleaseBuffer /\ ~Forget /\ ~(ClosePipe /\ closing') /\ ~Closed
    BY <2>1 DEF ReleaseBuffer, Forget, Step, ClosePipe, Closed
  <2>4. ~Assign
    BY <2>1, SMT DEF Assign, Goto, Failed, Configured, Rest
  <2>5. ResetInterface => Lost(PIPE_CONTROLPIPE)'
    <3>1. SUFFICES ASSUME ResetInterface PROVE Lost(PIPE_CONTROLPIPE)'
      OBVIOUS
    <3>2. PICK b : b = buf[PIPE_CONTROLPIPE] /\ b = buf'[PIPE_CONTROLPIPE]
      BY <2>1
    <3>3. b = NULL \/ b \in orphans'
      BY <3>1, <3>2 DEF ResetInterface
    <3>4. ~UsedBuffer(NULL)'
      BY <1>0, NullUnused DEF UsedBuffer, InUse, MemoryType
    <3>5. UsedBuffer(b)' => b \in orphans'
      BY <3>3, <3>4
    <3> QED
      BY <3>2, <3>5 DEF Lost, UsedBuffer
  <2> QED
    BY <2>2, <2>3, <2>4, <2>5
<1>n. ASSUME tpc \in {"alloc", "assign", "release", "forget"}, isr = NoPipe
      PROVE  ~ResetInterface /\ ~ClosePipe /\ ~Closed
  BY <1>0, <1>n DEF ResetInterface, ClosePipe, Closed, Pipe, NoPipe
<1>2. CASE Alloc
  <2>1. /\ tpc = "alloc" /\ isr = NoPipe /\ AllocCall("task", BufferSize(PipeOf(at)))
        /\ UNCHANGED <<buf, isr, closing, orphans>> /\ tpc' = "assign"
    BY <1>2 DEF Alloc, Step, pipes, handler
  <2>2. UNCHANGED <<mem, list, got>>
    BY <2>1 DEF AllocCall
  <2>3. Account' /\ \A p \in Pipe : Lost(p) => Lost(p)'
    BY <1>k, <2>1, <2>2 DEF UsedBuffer, Closing
  <2>4. ~Assign /\ ~ReleaseBuffer /\ ~Forget
    BY <2>1 DEF Assign, ReleaseBuffer, Forget, Step
  <2> QED
    BY <1>n, <2>1, <2>3, <2>4
<1>3. CASE Allocate
  <2>1. /\ UNCHANGED <<buf, tpc, isr, closing, orphans>> /\ tpc = "assign"
        /\ got = NULL
        /\ \/ /\ got' = NULL
              /\ \A b \in Nat : UsedBuffer(b)' <=> UsedBuffer(b)
           \/ \E g \in Nat :
                /\ g = got' /\ g # NULL /\ ~UsedBuffer(g) /\ UsedBuffer(g)'
                /\ \A b \in Nat : b # g => (UsedBuffer(b)' <=> UsedBuffer(b))
    BY <1>3, AllocatedBuffers
  <2>2. ~UsedBuffer(NULL)
    BY <1>0, NullUnused DEF UsedBuffer, InUse, MemoryType
  <2>3. \A b \in Nat : UsedBuffer(b)' => b = got' \/ (UsedBuffer(b) /\ b # got)
    BY <2>1, <2>2
  <2>4. \A p \in Pipe : Closing(p) => Closing(p)'
    BY <2>1 DEF Closing
  <2>5. Account' /\ \A p \in Pipe : Lost(p) => Lost(p)'
    BY <1>0, <2>1, <2>3, <2>4, AccountStays
  <2>6. isr = NoPipe /\ At("task", "idle") = FALSE
    BY <1>3 DEF Allocate, AllocStep, Search, Fit, Claim, Carve, Shrink, Join, At
  <2>7. ~Assign /\ ~ReleaseBuffer /\ ~Forget
    BY <2>1, <2>6 DEF Assign, ReleaseBuffer, Forget, Step
  <2> QED
    BY <1>n, <2>1, <2>5, <2>6, <2>7
<1>4. CASE Assign
  <2>1. tpc = "assign" /\ isr = NoPipe
    BY <1>4 DEF Assign
  <2>2. ~ReleaseBuffer /\ ~Forget
    BY <2>1 DEF ReleaseBuffer, Forget, Step
  <2> QED
    BY <1>0, <1>4, <1>n, <2>1, <2>2, AccountAssign
<1>r. ASSUME NEW q \in Pipe, buf' = buf, UNCHANGED <<mem, list, got>>, Closing(q)',
             orphans' = orphans \ {buf[q]}, \A p \in Pipe : Closing(p) => Closing(p)'
      PROVE  Account' /\ (\A p \in Pipe : Lost(p) => Lost(p)') /\ Lost(q)'
  <2>1. \A b \in Nat : UsedBuffer(b)' => b = got' \/ (UsedBuffer(b) /\ b # got)
    BY <1>r DEF UsedBuffer
  <2>2. \A b \in Nat : b \in orphans => b \in orphans' \/ \E p \in Pipe : buf[p] = b /\ Closing(p)'
    BY <1>r
  <2>3. Account' /\ \A p \in Pipe : Lost(p) => Lost(p)'
    BY <1>0, <1>r, <2>1, <2>2, AccountStays
  <2> QED
    BY <1>r, <2>3 DEF Lost
<1>5. CASE ReleaseBuffer
  <2>1. /\ tpc = "release" /\ tpc' = "forget" /\ isr = NoPipe /\ UNCHANGED <<buf, isr, closing>>
        /\ UNCHANGED <<mem, list, got>> /\ orphans' = orphans \ {buf[PIPE_CONTROLPIPE]}
    BY <1>5 DEF ReleaseBuffer, Release, FreeCall, Step, pipes, handler
  <2>2. Closing(PIPE_CONTROLPIPE)' /\ \A p \in Pipe : Closing(p) => Closing(p)'
    BY <2>1 DEF Closing
  <2>3. /\ Account' /\ \A p \in Pipe : Lost(p) => Lost(p)'
        /\ Lost(PIPE_CONTROLPIPE)'
    BY <1>0, <1>r, <2>1, <2>2
  <2>4. ~Assign /\ ~Forget
    BY <2>1 DEF Assign, Forget, Step
  <2> QED
    BY <1>n, <2>1, <2>3, <2>4
<1>6. CASE ClosePipe /\ closing'
  <2>1. /\ isr \in Pipe /\ ~closing /\ closing' /\ UNCHANGED <<buf, isr, tpc>>
        /\ UNCHANGED <<mem, list, got>> /\ orphans' = orphans \ {buf[isr]}
    BY <1>6 DEF ClosePipe, Release, FreeCall, task
  <2>2. PICK q \in Pipe : q = isr
    BY <2>1
  <2>3. Closing(q)' /\ \A p \in Pipe : Closing(p) => Closing(p)'
    BY <2>1, <2>2 DEF Closing
  <2>4. Account' /\ (\A p \in Pipe : Lost(p) => Lost(p)') /\ Lost(q)'
    BY <1>r, <2>1, <2>2, <2>3
  <2>5. ~Assign /\ ~ReleaseBuffer /\ ~Forget /\ ~ResetInterface
    BY <2>1 DEF Assign, ReleaseBuffer, Forget, ResetInterface, Step, Pipe, NoPipe
  <2> QED
    BY <2>2, <2>4, <2>5
<1>7. CASE Free
  <2>1. /\ FreeStep("task") /\ tpc = "forget" /\ isr = NoPipe
        /\ UNCHANGED <<buf, tpc, isr, closing, orphans>>
    BY <1>7 DEF Free, pipes, task, handler
  <2>2. PICK ptr \in Nat : ptr = buf[PIPE_CONTROLPIPE]
    BY <1>0
  <2>3. Freeing("task", ptr)
    BY <1>0, <2>1, <2>2 DEF Held
  <2>4. got' = got /\ \A b \in Nat : UsedBuffer(b)' => UsedBuffer(b)
    BY <1>0, <2>1, <2>3, FreedBuffers
  <2>5. Account' /\ \A p \in Pipe : Lost(p) => Lost(p)'
    BY <1>k, <2>1, <2>4 DEF Closing
  <2>6. At("task", "idle") = FALSE
    BY <2>1 DEF FreeStep, TestNext, GrowNext, LinkNext, Walk, GrowPrev, LinkPrev, Mark, At
  <2>7. ~Assign /\ ~ReleaseBuffer /\ ~Forget
    BY <2>1, <2>6 DEF Assign, ReleaseBuffer, Forget, Step
  <2> QED
    BY <1>n, <2>1, <2>5, <2>7
<1>8. CASE FreeInHandler
  <2>1. /\ FreeStep("isr") /\ closing /\ isr \in Pipe
        /\ UNCHANGED <<buf, tpc, isr, closing, orphans>>
    BY <1>0, <1>8 DEF FreeInHandler, pipes, task, handler, CallOK
  <2>2. PICK ptr \in Nat : ptr = buf[isr]
    BY <1>0, <2>1
  <2>3. Freeing("isr", ptr)
    BY <1>0, <2>1, <2>2 DEF Held
  <2>4. got' = got /\ \A b \in Nat : UsedBuffer(b)' => UsedBuffer(b)
    BY <1>0, <2>1, <2>3, FreedBuffers
  <2>5. Account' /\ \A p \in Pipe : Lost(p) => Lost(p)'
    BY <1>k, <2>1, <2>4 DEF Closing
  <2>6. At("isr", "idle") = FALSE
    BY <2>1 DEF FreeStep, TestNext, GrowNext, LinkNext, Walk, GrowPrev, LinkPrev, Mark, At
  <2>7. ~Assign /\ ~ReleaseBuffer /\ ~Forget /\ ~ResetInterface /\ ~ClosePipe /\ ~Closed
    BY <2>1, <2>6 DEF Assign, ReleaseBuffer, Forget, ResetInterface, ClosePipe, Closed, Step,
       Pipe, NoPipe
  <2> QED
    BY <2>5, <2>7
<1>9. CASE Forget
  <2>1. /\ tpc = "forget" /\ isr = NoPipe /\ At("task", "idle") /\ UNCHANGED <<isr, closing>>
        /\ buf' = [buf EXCEPT ![PIPE_CONTROLPIPE] = NULL]
        /\ UNCHANGED <<mem, list, got, orphans>>
    BY <1>9 DEF Forget, Step, memory, allocator, handler
  <2>2. ~UsedBuffer(buf[PIPE_CONTROLPIPE])
    BY <1>0, <2>1 DEF Held, Freeing
  <2>3. \A p \in Pipe : p # PIPE_CONTROLPIPE /\ Closing(p) => Closing(p)'
    BY <2>1 DEF Closing
  <2>4. Account' /\ \A p \in Pipe : Lost(p) \/ p = PIPE_CONTROLPIPE => Lost(p)'
    BY <1>0, <2>1, <2>2, <2>3, AccountForgotten
  <2>5. ~Assign /\ ~ReleaseBuffer
    BY <2>1 DEF Assign, ReleaseBuffer, Step
  <2>6. Lost(PIPE_CONTROLPIPE)'
    BY <1>0, <2>4
  <2> QED
    BY <1>n, <2>1, <2>4, <2>5, <2>6
<1>10. CASE Closed
  <2>1. /\ closing /\ isr \in Pipe /\ At("isr", "idle") /\ ~closing' /\ tpc' = tpc
        /\ buf' = [buf EXCEPT ![isr] = NULL]
        /\ UNCHANGED <<mem, list, got, orphans>>
    BY <1>0, <1>10 DEF Closed, task, memory, allocator, CallOK
  <2>2. PICK q \in Pipe : q = isr
    BY <2>1
  <2>3. ~UsedBuffer(buf[q])
    BY <1>0, <2>1, <2>2 DEF Held, Freeing
  <2>4. \A p \in Pipe : p # q /\ Closing(p) => Closing(p)'
    BY <2>1, <2>2 DEF Closing
  <2>5. Account' /\ \A p \in Pipe : Lost(p) \/ p = q => Lost(p)'
    BY <1>0, <2>1, <2>2, <2>3, <2>4, AccountForgotten
  <2>6. ~Assign /\ ~ReleaseBuffer /\ ~Forget /\ ~ResetInterface /\ ~ClosePipe
    BY <2>1 DEF Assign, ReleaseBuffer, Forget, ResetInterface, ClosePipe, Step, Pipe, NoPipe
  <2> QED
    BY <2>2, <2>5, <2>6
<1> QED
  BY <1>1, <1>2, <1>3, <1>4, <1>5, <1>6, <1>7, <1>8, <1>9, <1>10, QuietSteps

Early == {"WaitForDevice", "Powered", "Settle", "WaitConnect", "DoReset",
          "ConfigPipe", "PostReset", "PostAddressSet"}

Opening == {"open", "link", "handle", "alloc", "assign"}

(* The handler closes the pipes, *)
LostByHandler ==
    /\ isr \in {1, 2} => Lost(0)
    /\ isr = 2 => Lost(1)
    /\ gone \/ ~there => Lost(0) /\ Lost(1)
    /\ handle[1] = 0 => Lost(1)

(* a call that goes on afterwards is marked as late, *)
LateCall ==
    /\ tpc \in {"alloc", "assign"} /\ at = "Pipes" /\ handle[1] = 0 =>
         gone \/ isr = 2 \/ (isr = 1 /\ closing)
    /\ tpc # "rest" /\ ~there => gone
    /\ there => (change <=> ~conn)
    /\ tpc # "rest" /\ ~gone =>
         IF at \in HostState THEN host = at ELSE host \in {"Addressed", "Configured"}

(* and the task opens a pipe only when it has closed it. *)
LostByTask ==
    /\ tpc = "rest" /\ host \in Early => Lost(0) /\ Lost(1)
    /\ tpc = "rest" /\ host = "Default" => Lost(1)
    /\ tpc \in Opening /\ at # "Pipes" => Lost(0)
    /\ tpc = "write" /\ at \in HostState \ {"ConfigPipe", "PostAddressSet"} => Lost(0)
    /\ tpc # "rest" /\ at \notin {"SetConfig", "SetProtocol", "Unconfigure"} => Lost(1)

LostInv == LostByHandler /\ LateCall /\ LostByTask

AccountInv == ~torn => Account /\ LostInv

(* Where the task goes on when a request or a pipe has failed. *)
LEMMA FailedStep ==
    ASSUME TypeInv, LostInv, tpc \in {"open", "assign", "send", "wait"}, isr = -1,
           Goto(Failed(at)), UNCHANGED <<host, handle, isr, there, gone, conn, change>>,
           Lost(0) => Lost(0)', Lost(1) => Lost(1)'
    PROVE  LostInv'
<1> USE DEF LostInv
<1>0. PlaceOK /\ at \in HostState \union ClassSteps /\ host \in HostState
  BY DEF TypeInv, TypeOK
<1>1. at \in {"ConfigPipe", "PostReset", "PostAddressSet", "Default"} \union ClassSteps
  BY <1>0 DEF PlaceOK, ClassSteps
<1>2. CASE at \in {"ConfigPipe", "PostReset", "Default"}
  <2>1. tpc' = "error" /\ at' = at
    BY <1>2 DEF Goto, Failed, ClassSteps
  <2> QED
    BY <1>0, <1>2, <2>1 DEF LostByHandler, LateCall, LostByTask, HostState, Opening
<1>3. CASE at = "PostAddressSet"
  <2>1. tpc' = "write" /\ at' = at
    BY <1>3 DEF Goto, Failed, ClassSteps
  <2> QED
    BY <1>0, <1>3, <2>1 DEF LostByHandler, LateCall, LostByTask, HostState, Opening
<1>4. CASE at = "SetProtocol"
  <2>1. tpc' = "send" /\ at' = "Unconfigure"
    BY <1>4 DEF Goto, Failed, ClassSteps
  <2> QED
    BY <1>0, <1>4, <2>1 DEF LostByHandler, LateCall, LostByTask, HostState, Opening
<1>5. CASE at \in ClassSteps \ {"SetProtocol"}
  <2>1. tpc' = "rest" /\ at' = "Unattached"
    BY <1>5 DEF Goto, Failed, Rest, ClassSteps
  <2> QED
    BY <1>0, <1>5, <2>1
    DEF LostByHandler, LateCall, LostByTask, HostState, ClassSteps, Early, Opening
<1> QED
  BY <1>1, <1>2, <1>3, <1>4, <1>5

(* Where it goes on with a new buffer. *)
LEMMA AssignStep ==
    ASSUME TypeInv, LostInv, Assign,
           Lost(0) /\ (PipeOf(at) # 0 \/ gone \/ got = NULL) => Lost(0)',
           Lost(1) /\ (PipeOf(at) # 1 \/ gone \/ got = NULL) => Lost(1)'
    PROVE  LostInv'
<1>0. PlaceOK /\ at \in HostState \union ClassSteps /\ host \in HostState
  BY DEF TypeInv, TypeOK
<1>1. /\ at \in {"ConfigPipe", "PostReset", "PostAddressSet", "Pipes"}
      /\ tpc = "assign" /\ isr = -1
      /\ UNCHANGED <<host, handle, isr, closing, there, gone, conn, change>>
  BY <1>0 DEF Assign, PlaceOK, NoPipe, port, handler, history
<1>2. PipeOf(at) = IF at = "Pipes" THEN 1 ELSE 0
  BY DEF PipeOf, PIPE_CONTROLPIPE
<1>3. CASE got = NULL
  BY <1>1, <1>3, FailedStep DEF Assign
<1>4. CASE got # NULL
  <2> USE DEF LostInv
  <2>1. <<at', tpc'>> = Configured(at)
    BY <1>4 DEF Assign, Goto, Configured
  <2>2. CASE at = "Pipes"
    <3>1. at' = "SetConfig" /\ tpc' = "send"
      BY <2>1, <2>2 DEF Configured
    <3> QED
      BY <1>0, <1>1, <1>2, <2>2, <3>1
      DEF LostByHandler, LateCall, LostByTask, HostState, ClassSteps, Opening
  <2>3. CASE at # "Pipes"
    <3>1. at' = at /\ ((tpc' = "write" /\ at # "PostReset") \/ tpc' = "send")
      BY <1>1, <2>1, <2>3 DEF Configured
    <3> QED
      BY <1>0, <1>1, <1>2, <2>3, <3>1
      DEF LostByHandler, LateCall, LostByTask, HostState, Opening
  <2> QED
    BY <2>2, <2>3
<1> QED
  BY <1>3, <1>4

(* Where it goes on when it has written the state. *)
LEMMA WrittenStep ==
    ASSUME TypeInv, LostInv, Write, Lost(0) => Lost(0)', Lost(1) => Lost(1)'
    PROVE  LostInv'
<1> USE DEF LostInv
<1>0. PlaceOK /\ at \in HostState \union ClassSteps /\ host \in HostState
  BY DEF TypeInv, TypeOK
<1>1. DOMAIN WaitBefore = {"WaitConnect", "DoReset", "Default", "PostReset"}
  BY DEF WaitBefore
<1>2. <<at', tpc'>> \in Written(at)
  BY DEF Write, Goto, Written, Rest
<1>3. /\ tpc = "write" /\ isr = -1
      /\ UNCHANGED <<handle, isr, closing, there, gone, conn, change>>
  BY DEF Write, NoPipe, pipes, port, handler, history
<1>5. CASE at \in {"WaitConnect", "DoReset", "Default", "PostReset"}
  <2>1. at' = "Unattached" /\ tpc' = "rest" /\ host' = "WaitForDevice"
    BY <1>1, <1>2, <1>5 DEF Write, Written, Rest
  <2> QED
    BY <1>0, <1>3, <1>5, <2>1 DEF LostByHandler, LateCall, LostByTask, HostState, Opening
<1>6. CASE at \in {"WaitForDevice", "Powered", "Settle"}
  <2>1. at' = "Unattached" /\ tpc' = "rest"
    BY <1>2, <1>6 DEF Written, Rest
  <2> QED
    BY <1>0, <1>3, <1>6, <2>1 DEF LostByHandler, LateCall, LostByTask, HostState, Opening
<1>7. CASE at = "ConfigPipe"
  <2>1. at' = "Unattached" /\ tpc' = "rest" /\ host' = "Default"
    BY <1>1, <1>2, <1>7 DEF Write, Written, Rest, NextState
  <2> QED
    BY <1>0, <1>3, <1>7, <2>1
    DEF LostByHandler, LateCall, LostByTask, HostState, Early, Opening
<1>8. CASE at = "PostAddressSet"
  <2>1. at' = "GetHeader" /\ tpc' = "send" /\ host' = "Addressed"
    BY <1>1, <1>2, <1>8 DEF Write, Written, NextState
  <2> QED
    BY <1>0, <1>3, <1>8, <2>1 DEF LostByHandler, LateCall, LostByTask, HostState, Opening
<1>9. CASE at = "SetConfig"
  <2>1. at' \in {"SetProtocol", "Unconfigure"} /\ tpc' = "send" /\ host' = "Configured"
    BY <1>1, <1>2, <1>9 DEF Write, Written, NextState
  <2> QED
    BY <1>0, <1>3, <1>9, <2>1 DEF LostByHandler, LateCall, LostByTask, HostState, Opening
<1>10. CASE at = "Unconfigure"
  <2>1. at' = "Unattached" /\ tpc' = "rest" /\ host' = "Addressed"
    BY <1>1, <1>2, <1>10 DEF Write, Written, Rest, NextState
  <2> QED
    BY <1>0, <1>3, <1>10, <2>1
    DEF LostByHandler, LateCall, LostByTask, HostState, Early, Opening
<1> QED
  BY <1>0, <1>3, <1>5, <1>6, <1>7, <1>8, <1>9, <1>10 DEF PlaceOK

(* Every other step keeps, or establishes, what is lost. *)
LEMMA ControlStep ==
    ASSUME TypeInv, LostInv, [Next]_vars, ~Assign,
           Lost(0) => Lost(0)', Lost(1) => Lost(1)',
           ReleaseBuffer \/ Forget \/ ResetInterface => Lost(0)',
           (ClosePipe /\ closing') \/ Closed => (isr = 0 => Lost(0)') /\ (isr = 1 => Lost(1)')
    PROVE  LostInv'
<1> USE DEF task, pipes, queues, port, memory, handler, history, LostInv
<1>0. /\ PlaceOK /\ host \in HostState /\ post \in HostState
      /\ at \in HostState \union ClassSteps
      /\ isr \in {0, 1, 2, -1} /\ (closing => isr \in {0, 1})
      /\ handle \in [Pipe -> Nat] /\ xfer \in Nat
      /\ there \in BOOLEAN /\ gone \in BOOLEAN /\ conn \in BOOLEAN /\ change \in BOOLEAN
  BY DEF TypeInv, TypeOK, CallOK, Pipe, NoPipe, Qhd
<1>1. CASE Begin
  BY <1>0, <1>1 DEF Begin, LostByHandler, LateCall, LostByTask, Early, Opening, HostState
<1>2. CASE Open
  <2>1. CASE Unused = {}
    BY <1>2, <2>1, FailedStep DEF Open, NoPipe
  <2>2. CASE Unused # {}
    BY <1>0, <1>2, <2>2 DEF Open, Goto, LostByHandler, LateCall, LostByTask, Opening
  <2> QED
    BY <2>1, <2>2
<1>3. CASE Link \/ Alloc
  BY <1>0, <1>3 DEF Link, Alloc, Step, LostByHandler, LateCall, LostByTask, Opening
<1>4. CASE StoreHandle
  <2>1. handle' = [handle EXCEPT ![PipeOf(at)] = Handle(PipeOf(at), xfer)]
    BY <1>4 DEF StoreHandle
  <2>2. PipeOf(at) = 1 => handle'[1] # 0
    BY <1>0, <2>1, UsbHostAssumption DEF Handle, Pipe
  <2>3. PipeOf(at) = 0 => handle'[1] = handle[1]
    BY <1>0, <2>1 DEF Pipe
  <2>4. handle'[1] = 0 => handle[1] = 0 /\ at # "Pipes"
    BY <2>2, <2>3, PipeOfType DEF PipeOf, Pipe
  <2> QED
    BY <1>0, <1>4, <2>4 DEF StoreHandle, Step, LostByHandler, LateCall, LostByTask, Opening
<1>5. CASE Allocate \/ Free \/ FreeInHandler
  BY <1>0, <1>5 DEF Allocate, Free, FreeInHandler, LostByHandler, LateCall, LostByTask, Opening
<1>6. CASE Send
  <2>1. CASE buf[PIPE_CONTROLPIPE] = NULL \/ ParseFails(handle[PIPE_CONTROLPIPE])
    BY <1>6, <2>1, FailedStep DEF Send, NoPipe
  <2>2. CASE ~(buf[PIPE_CONTROLPIPE] = NULL \/ ParseFails(handle[PIPE_CONTROLPIPE]))
    BY <1>0, <1>6, <2>2 DEF Send, Goto, LostByHandler, LateCall, LostByTask, Opening
  <2> QED
    BY <2>1, <2>2
<1>7. CASE Queue \/ Unhook
  BY <1>0, <1>7 DEF Queue, Unhook, Step, LostByHandler, LateCall, LostByTask, Opening
<1>8. CASE Wait
  <2>2. CASE qhd[xfer] # "ok"
    BY <1>8, <2>2, FailedStep DEF Wait, NoPipe
  <2>3. CASE qhd[xfer] = "ok"
    <3>1. <<at', tpc'>> \in Answered(at)
      BY <1>8, <2>3 DEF Wait, Goto, Answered, Rest
    <3>2. at \in {"Default", "PostReset"} \union (ClassSteps \ {"Pipes"})
      BY <1>0, <1>8 DEF Wait, PlaceOK
    <3>3. \/ at \in {"Default", "PostReset"} /\ at' = at /\ tpc' = "unhook"
          \/ at = "GetHeader" /\ at' = "GetConfig" /\ tpc' = "send"
          \/ at = "GetConfig" /\ at' = "Pipes" /\ tpc' = "open"
          \/ at \in {"SetConfig", "Unconfigure"} /\ at' = at /\ tpc' = "write"
          \/ at \in ClassSteps /\ at' = "Unattached" /\ tpc' = "rest"
      BY <3>1, <3>2 DEF Answered, Rest, ClassSteps
    <3> QED
      BY <1>0, <1>8, <3>3
      DEF Wait, LostByHandler, LateCall, LostByTask, HostState, ClassSteps, Early, Opening, NoPipe
  <2> QED
    BY <2>2, <2>3
<1>9. CASE Drop
  <2>1. handle'[1] = handle[1]
    BY <1>0, <1>9 DEF Drop, PIPE_CONTROLPIPE, Pipe
  <2> QED
    BY <1>0, <1>9, <2>1 DEF Drop, Step, LostByHandler, LateCall, LostByTask, Opening
<1>10. CASE ReleaseBuffer \/ Forget
  BY <1>0, <1>10 DEF ReleaseBuffer, Forget, Step, LostByHandler, LateCall, LostByTask, Opening
<1>11. CASE Write
  BY <1>11, WrittenStep
<1>12. CASE Error
  BY <1>0, <1>12 DEF Error, Goto, Rest, LostByHandler, LateCall, LostByTask, Early, Opening
<1>13. CASE ResetInterface
  <2>1. Lost(1)
    BY <1>0, <1>13 DEF ResetInterface, PlaceOK, LostByTask
  <2> QED
    BY <1>0, <1>13, <2>1
    DEF ResetInterface, Goto, Rest, LostByHandler, LateCall, LostByTask, Early, Opening
<1>14. CASE Enumerate
  BY <1>0, <1>14 DEF Enumerate, LostByHandler, LateCall, LostByTask, Early, Opening
<1>15. CASE DeEnumerate \/ AsyncAdvance
            \/ \E q \in Qhd, result \in {"ok", "stall", "missed"} : Complete(q, result)
  BY <1>0, <1>15
  DEF DeEnumerate, AsyncAdvance, Complete, LostByHandler, LateCall, LostByTask, Opening,
      PIPE_CONTROLPIPE, NoPipe
<1>16. CASE ClosePipe
  <2>1. isr \in {0, 1} /\ ~closing
        /\ UNCHANGED <<host, at, tpc, there, gone, conn, change>>
    BY <1>16 DEF ClosePipe, Pipe
  <2>2. CASE isr = PIPE_CONTROLPIPE \/ handle[isr] # 0
    <3>1. closing' /\ isr' = isr /\ handle' = [handle EXCEPT ![isr] = 0]
      BY <1>16, <2>2 DEF ClosePipe
    <3>2. handle'[1] = IF isr = 1 THEN 0 ELSE handle[1]
      BY <1>0, <2>1, <3>1 DEF Pipe
    <3>3. (isr = 0 => Lost(0)') /\ (isr = 1 => Lost(1)')
      BY <1>16, <3>1
    <3> QED
      BY <1>0, <2>1, <3>1, <3>2, <3>3 DEF LostByHandler, LateCall, LostByTask, Opening
  <2>3. CASE ~(isr = PIPE_CONTROLPIPE \/ handle[isr] # 0)
    <3>1. UNCHANGED <<handle, closing>> /\ isr = 1 /\ isr' = 2 /\ handle[1] = 0
      BY <1>16, <2>1, <2>3 DEF ClosePipe, PIPE_CONTROLPIPE
    <3> QED
      BY <1>0, <2>1, <3>1 DEF LostByHandler, LateCall, LostByTask, Opening
  <2> QED
    BY <2>2, <2>3
<1>17. CASE Closed
  <2>1. /\ isr \in {0, 1} /\ isr' = isr + 1 /\ closing /\ ~closing'
        /\ UNCHANGED <<host, at, tpc, handle, there, gone, conn, change>>
    BY <1>0, <1>17 DEF Closed
  <2>2. (isr = 0 => Lost(0)') /\ (isr = 1 => Lost(1)')
    BY <1>17
  <2> QED
    BY <1>0, <2>1, <2>2 DEF LostByHandler, LateCall, LostByTask, Opening
<1>18. CASE Unattach
  <2>1. isr = 2
    BY <1>0, <1>18 DEF Unattach, Pipe, NoPipe
  <2> QED
    BY <1>0, <1>18, <2>1
    DEF Unattach, LostByHandler, LateCall, LostByTask, Early, Opening, NoPipe
<1>19. CASE Plug
  BY <1>0, <1>19 DEF Plug, LostByHandler, LateCall, LostByTask, Opening
<1>20. CASE UNCHANGED vars
  BY <1>0, <1>20 DEF vars, LostByHandler, LateCall, LostByTask, Opening
<1> QED
  BY <1>1, <1>2, <1>3, <1>4, <1>5, <1>6, <1>7, <1>8, <1>9, <1>10, <1>11, <1>12,
     <1>13, <1>14, <1>15, <1>16, <1>17, <1>18, <1>19, <1>20 DEF Next, Task, Handler

(* What has been torn stays torn. *)
LEMMA TornStays ==
    ASSUME TypeInv, [Next]_vars, torn
    PROVE  torn'
<1>0. MemoryType /\ CallTyped("task") /\ CallTyped("isr") /\ "task" \in Context /\ "isr" \in Context
  BY DEF TypeInv, TypeOK, CallOK, Context
<1>1. CASE Quiet \/ Assign \/ Forget \/ Closed
  BY <1>1 DEF Quiet, Assign, Forget, Closed, memory, allocator
<1>2. CASE Alloc
  BY <1>2 DEF Alloc, AllocCall
<1>3. CASE ReleaseBuffer \/ (ClosePipe /\ closing')
  <2>1. \E c, b : FreeCall(c, b)
    BY <1>3 DEF ReleaseBuffer, ClosePipe, Release, TypeInv, CallOK, Pipe
  <2> QED
    BY <2>1 DEF FreeCall
<1>4. CASE Allocate
  BY <1>0, <1>4, CallStepType DEF Allocate
<1>5. CASE Free
  BY <1>0, <1>5, CallStepType DEF Free
<1>6. CASE FreeInHandler
  BY <1>0, <1>6, CallStepType DEF FreeInHandler
<1> QED
  BY <1>1, <1>2, <1>3, <1>4, <1>5, <1>6, QuietSteps

(* No step loses a buffer. *)
LEMMA AccountStep ==
    ASSUME TypeInv, SoundInv, HeldInv, AccountInv, [Next]_vars
    PROVE  AccountInv'
<1> SUFFICES ASSUME ~torn' PROVE Account' /\ LostInv'
  BY DEF AccountInv
<1>1. ~torn /\ Account /\ LostInv
  BY TornStays DEF AccountInv
<1>2. Pipe = {0, 1} /\ PIPE_CONTROLPIPE = 0
  BY DEF Pipe, PIPE_CONTROLPIPE
<1>3. Assign => Lost(PipeOf(at))
  <2>1. SUFFICES ASSUME Assign PROVE Lost(PipeOf(at))
    OBVIOUS
  <2>2. tpc = "assign" /\ Lost(1) /\ (at # "Pipes" => Lost(0))
    <3>1. tpc = "assign" /\ at \in {"ConfigPipe", "PostReset", "PostAddressSet", "Pipes"}
      BY <2>1 DEF Assign, TypeInv, PlaceOK
    <3> QED
      BY <1>1, <3>1 DEF LostInv, LostByTask, Opening
  <2>3. PipeOf(at) = IF at = "Pipes" THEN 1 ELSE 0
    BY <1>2 DEF PipeOf
  <2> QED
    BY <2>2, <2>3
<1>4. /\ Account'
      /\ ~Assign => \A p \in Pipe : Lost(p) => Lost(p)'
      /\ Assign => \A p \in Pipe :
                     Lost(p) /\ (p # PipeOf(at) \/ gone \/ got = NULL) => Lost(p)'
      /\ ReleaseBuffer \/ Forget \/ ResetInterface => Lost(PIPE_CONTROLPIPE)'
      /\ (ClosePipe /\ closing') \/ Closed => \A p \in Pipe : p = isr => Lost(p)'
  BY <1>1, <1>3, BuffersStep
<1>5. CASE Assign
  <2>1. /\ Lost(0) /\ (PipeOf(at) # 0 \/ gone \/ got = NULL) => Lost(0)'
        /\ Lost(1) /\ (PipeOf(at) # 1 \/ gone \/ got = NULL) => Lost(1)'
    BY <1>2, <1>4, <1>5
  <2>2. LostInv'
    BY <1>1, <1>5, <2>1, AssignStep
  <2> QED
    BY <1>4, <2>2
<1>6. CASE ~Assign
  <2>1. /\ Lost(0) => Lost(0)'
        /\ Lost(1) => Lost(1)'
        /\ ReleaseBuffer \/ Forget \/ ResetInterface => Lost(0)'
        /\ (ClosePipe /\ closing') \/ Closed => (isr = 0 => Lost(0)') /\ (isr = 1 => Lost(1)')
    BY <1>2, <1>4, <1>6
  <2>2. LostInv'
    BY <1>1, <1>6, <2>1, ControlStep
  <2> QED
    BY <1>4, <2>2
<1> QED
  BY <1>5, <1>6

(* The invariant's count is that of the pool. *)
LEMMA AccountIsAccounted == TypeInv /\ AccountInv => BuffersAccounted
<1> SUFFICES ASSUME TypeInv, AccountInv, Undisturbed PROVE BuffersAccounted
  BY DEF BuffersAccounted
<1>1. Account /\ MemoryType
  BY DEF AccountInv, Undisturbed, TypeInv, TypeOK
<1>2. UsedBuffers(Pool) \subseteq Nat
  <2>1. list \subseteq Nat
    BY <1>1 DEF MemoryType, Words
  <2>2. UsedBuffers(Pool) = {a + 4 : a \in {x \in list : ~mem[x].isFree}}
    BY DEF UsedBuffers, Pool, HEADER_SIZE
  <2> QED
    BY <2>1, <2>2
<1> QED
  BY <1>1, <1>2, UsedIs DEF Account, BuffersAccounted

(***************************************************************************)
(* The theorems                                                            *)
(***************************************************************************)
Inv == TypeInv /\ SoundInv /\ HeldInv /\ AccountInv

(* The invariant holds at the start, *)
LEMMA InitInv == Init => Inv
<1> SUFFICES ASSUME Init PROVE Inv
  OBVIOUS
<1>1. MemoryType /\ Whole(mem, list) /\ \A a : ~InUse(mem, list, a)
  BY FreshGood DEF Init
<1>2. \A c \in Context : call[c].step = "idle"
  BY DEF Init, MemoryInit, Idle
<1>3. TypeOK
  <2>1. /\ host \in HostState /\ post \in HostState /\ at \in HostState \union ClassSteps
        /\ xfer \in Qhd /\ plugs \in 0 .. MaxPlugs
    BY UsbHostAssumption DEF Init, HostState, Qhd
  <2>2. handle \in [Pipe -> Nat] /\ buf \in [Pipe -> Nat]
    BY DEF Init, NULL
  <2> QED
    BY <1>1, <2>1, <2>2 DEF Init, TypeOK
<1>4. got = NULL /\ torn = FALSE
  BY DEF Init, MemoryInit
<1>5. PlaceOK
  BY DEF Init, PlaceOK
<1>6. CallOK
  BY <1>2, <1>4
  DEF Init, CallOK, CallTyped, At, Context, AllocSteps, FreeSteps
<1>7. SoundInv
  BY <1>1, <1>2 DEF SoundInv, Turn, At, Inside, Sound, Context
<1>8. HeldInv
  BY <1>4 DEF Init, HeldInv, Held
<1>9. AccountInv
  <2>1. \A b : ~UsedBuffer(b)
    BY <1>1 DEF UsedBuffer
  <2> QED
    BY <2>1 DEF Init, AccountInv, Account, LostInv, Lost, LostByHandler, LateCall, LostByTask
<1> QED
  BY <1>3, <1>5, <1>6, <1>7, <1>8, <1>9 DEF Inv, TypeInv

(* and every step keeps it. *)
LEMMA NextInv == Inv /\ [Next]_vars => Inv'
  BY TypeStep, SoundStep, HeldStep, AccountStep DEF Inv

(* The inductive invariant of the host, the pool and the handler.          *)
THEOREM Invariant == Spec => []Inv
  BY InitInv, NextInv, PTL DEF Spec

(* Every variable of the host stack and of the allocator keeps its type:   *)
(* sizes and links in particular, also when the list is torn.              *)
THEOREM TypeCorrect == Spec => []TypeOK
<1>1. Inv => TypeOK
  BY DEF Inv, TypeInv
<1> QED
  BY <1>1, Invariant, PTL

(* As long as no buffer is freed inside a call of the other, which is past *)
(* its first test, the pool is a list of adjacent blocks with free         *)
(* neighbours merged, except between two stores that belong together       *)
(* (USBMemory.c:171-284).                                                  *)
THEOREM PoolCorrect == Spec => []PoolIntact
<1>1. Inv => PoolIntact
  BY SoundIsIntact DEF Inv
<1> QED
  BY <1>1, Invariant, PTL

(* Under the same condition, a pipe's buffer is an allocated block that no *)
(* other pipe has, and that is not being handed out again (Pipe.c:70,      *)
(* 88-89; Host.c:206-217).                                                 *)
THEOREM BuffersCorrect == Spec => []BuffersHeld
<1>1. Inv => BuffersHeld
  BY HeldIsHeld DEF Inv
<1> QED
  BY <1>1, Invariant, PTL

(* Under the same condition, a buffer in use is a pipe's, on its way to    *)
(* one, or given up where an enumeration has failed or come too late:      *)
(* no other is lost (Host.c:180-217, Pipe.c:45-92).                        *)
THEOREM AccountCorrect == Spec => []BuffersAccounted
<1>1. Inv => BuffersAccounted
  BY AccountIsAccounted DEF Inv
<1> QED
  BY <1>1, Invariant, PTL
=============================================================================
