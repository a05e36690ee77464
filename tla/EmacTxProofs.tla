---------------------------- MODULE EmacTxProofs ----------------------------
(***************************************************************************)
(* The transmit ring of the Ethernet driver stays consistent, every pbuf   *)
(* has the references that its users need, and frames leave whole and in   *)
(* order, for every size of the ring and all lengths of the chains.        *)
(***************************************************************************)
EXTENDS EmacTx, FiniteSetTheorems, SequenceTheorems, TLAPS

(***************************************************************************)
(* Positions in a ring of N descriptors.                                   *)
(***************************************************************************)
At(g, j) == (g + j) % N

LEMMA AtValue ==
    ASSUME NEW g \in Index, NEW j \in 0 .. N
    PROVE  /\ At(g, j) \in Index
           /\ At(g, j) = IF g + j < N THEN g + j ELSE (g + j) - N
<1> DEFINE a == g + j
           q == a \div N
           r == a % N
<1>1. N \in Nat \ {0} /\ g \in 0 .. N - 1 /\ a \in 0 .. 2 * N - 1
  BY EmacTxAssumption DEF Index
<1>2. q \in Int /\ r \in 0 .. N - 1 /\ a = N * q + r
  BY <1>1
<1> HIDE DEF q, r, a
<1>3. q >= 0
  <2>1. SUFFICES ASSUME q <= -1 PROVE FALSE
    BY <1>2
  <2>2. N * q <= -N
    BY <1>1, <1>2, <2>1
  <2> QED
    BY <1>1, <1>2, <2>2
<1>4. q <= 1
  <2>1. SUFFICES ASSUME q >= 2 PROVE FALSE
    BY <1>2
  <2>2. N * q >= 2 * N
    BY <1>1, <1>2, <2>1
  <2> QED
    BY <1>1, <1>2, <2>2
<1>5. r = IF a < N THEN a ELSE a - N
  <2>1. CASE q = 0
    <3>1. a = r
      BY <1>1, <1>2, <2>1
    <3> QED
      BY <1>1, <1>2, <3>1
  <2>2. CASE q = 1
    <3>1. a = N + r
      BY <1>1, <1>2, <2>2
    <3> QED
      BY <1>1, <1>2, <3>1
  <2> QED
    BY <1>2, <1>3, <1>4, <2>1, <2>2
<1> QED
  BY <1>2, <1>5 DEF At, Index, r, a

LEMMA SuccValue ==
    ASSUME NEW i \in Index
    PROVE  Succ(i) \in Index /\ Succ(i) = At(i, 1)
  BY AtValue, EmacTxAssumption DEF Succ, At, Index

(* The descriptor after position j is position j + 1, and moving the start *)
(* of the ring on by one moves every position.                             *)
LEMMA AtNext ==
    ASSUME NEW g \in Index, NEW j \in 0 .. N - 1
    PROVE  /\ Succ(At(g, j)) = At(g, j + 1)
           /\ At(Succ(g), j) = At(g, j + 1)
           /\ At(g, 0) = g
<1>1. N \in Nat /\ N >= 1 /\ g \in 0 .. N - 1 /\ j \in Int /\ j + 1 \in 0 .. N
      /\ j \in 0 .. N /\ 0 \in 0 .. N /\ 1 \in 0 .. N
  BY EmacTxAssumption DEF Index
<1>2. At(g, j) \in Index /\ At(g, j) = IF g + j < N THEN g + j ELSE (g + j) - N
  BY <1>1, AtValue
<1>3. At(g, j + 1) = IF g + (j + 1) < N THEN g + (j + 1) ELSE (g + (j + 1)) - N
  BY <1>1, AtValue
<1>4. Succ(At(g, j)) = IF At(g, j) + 1 < N THEN At(g, j) + 1 ELSE (At(g, j) + 1) - N
  BY <1>1, <1>2, SuccValue, AtValue
<1>5. Succ(g) \in Index /\ Succ(g) = IF g + 1 < N THEN g + 1 ELSE (g + 1) - N
  BY <1>1, SuccValue, AtValue
<1>6. At(Succ(g), j) = IF Succ(g) + j < N THEN Succ(g) + j ELSE (Succ(g) + j) - N
  BY <1>1, <1>5, AtValue
<1>7. At(g, 0) = g
  BY <1>1, AtValue
<1>8. Succ(At(g, j)) = At(g, j + 1)
  BY <1>1, <1>2, <1>3, <1>4 DEF Index
<1>9. At(Succ(g), j) = At(g, j + 1)
  BY <1>1, <1>3, <1>5, <1>6 DEF Index
<1> QED
  BY <1>7, <1>8, <1>9

(* Different positions are different descriptors. *)
LEMMA AtApart ==
    ASSUME NEW g \in Index, NEW i \in 0 .. N - 1, NEW j \in 0 .. N - 1, At(g, i) = At(g, j)
    PROVE  i = j
<1>1. N \in Nat /\ g \in 0 .. N - 1 /\ i \in 0 .. N /\ j \in 0 .. N
  BY EmacTxAssumption DEF Index
<1>2. At(g, i) = IF g + i < N THEN g + i ELSE (g + i) - N
  BY <1>1, AtValue
<1>3. At(g, j) = IF g + j < N THEN g + j ELSE (g + j) - N
  BY <1>1, AtValue
<1> DEFINE a == At(g, i)
           b == At(g, j)
<1>4. a = b
  OBVIOUS
<1> HIDE DEF a, b
<1>5. a = (IF g + i < N THEN g + i ELSE (g + i) - N)
  BY <1>2 DEF a
<1>6. b = (IF g + j < N THEN g + j ELSE (g + j) - N)
  BY <1>3 DEF b
<1>7. CASE g + i < N
  <2>1. a = g + i
    BY <1>5, <1>7
  <2>2. b # g + j \/ i = j
    BY <1>1, <1>4, <2>1
  <2>3. b # (g + j) - N
    BY <1>1, <1>4, <2>1
  <2> QED
    BY <1>6, <2>2, <2>3
<1>8. CASE ~(g + i < N)
  <2>1. a = (g + i) - N
    BY <1>5, <1>8
  <2>2. b # (g + j) - N \/ i = j
    BY <1>1, <1>4, <2>1
  <2>3. b # g + j
    BY <1>1, <1>4, <2>1
  <2> QED
    BY <1>6, <2>2, <2>3
<1> QED
  BY <1>7, <1>8

(***************************************************************************)
(* The inductive invariant.                                                *)
(***************************************************************************)
Used == N - free

(* The descriptors of the frame that is being put into the ring, and where *)
(* the frames end that the engine has been given.                          *)
Part ==
    IF opc = "fill" THEN seg - 1
    ELSE IF opc = "flag" THEN seg
    ELSE IF opc = "give" THEN Chain[sendp] ELSE 0
Full == Used - Part

(* The engine has sent the first k of the descriptors in use.              *)
OwnAt(k) ==
    /\ k \in 0 .. Full
    /\ pos = At(Oldest, k)
    /\ NextFill = At(Oldest, Used)
    /\ \A j \in 0 .. Used - 1 : own[At(Oldest, j)] <=> j >= k /\ j # Full
    /\ \A i \in Index : own[i] \/ flags[i] # {} => \E j \in 0 .. Used - 1 : i = At(Oldest, j)

SegmentAt(j) == addr[At(Oldest, j)]

(* A descriptor that the engine has been given: its flags are those of its *)
(* segment, the next one continues the frame or begins one, and one at or  *)
(* behind it frees the chain.                                              *)
WholeAt(j) ==
    /\ SegmentAt(j) \in Segment
    /\ "FS" \in flags[At(Oldest, j)] <=> SegmentAt(j)[2] = 1
    /\ "LS" \in flags[At(Oldest, j)] <=> SegmentAt(j)[2] = Chain[SegmentAt(j)[1]]
    /\ "LS" \notin flags[At(Oldest, j)] =>
         j < Full - 1 /\ SegmentAt(j + 1) = <<SegmentAt(j)[1], SegmentAt(j)[2] + 1>>
    /\ "LS" \in flags[At(Oldest, j)] /\ j < Full - 1 => SegmentAt(j + 1)[2] = 1
    /\ \E l \in j .. Full - 1 : txpbufs[At(Oldest, l)] = SegmentAt(j)[1]

(* One of the frame that is being put into the ring. *)
PartAt(j) ==
    LET n == (j - Full) + 1
        i == At(Oldest, j)
    IN  /\ addr[i] = <<sendp, n>>
        /\ "FS" \in flags[i] <=> n = 1
        /\ IF opc = "flag" /\ j = Used - 1
             THEN "LS" \notin flags[i]
             ELSE /\ "LS" \in flags[i] <=> n = Chain[sendp]
                  /\ txpbufs[i] = IF n = Chain[sendp] THEN sendp ELSE NoFrame

(* The segments that the engine has read are the first ones of the frame   *)
(* that its descriptor goes on with.                                       *)
FramesAt(k) ==
    /\ \A j \in k .. Full - 1 : WholeAt(j)
    /\ \A j \in Full .. Used - 1 : PartAt(j)
    /\ sending # <<>> => k < Full
    /\ k < Full =>
         /\ SegmentAt(k)[2] = Len(sending) + 1
         /\ \A n \in 1 .. Len(sending) : sending[n] = <<SegmentAt(k)[1], n>>

RingInv == \E k \in 0 .. N : OwnAt(k) /\ FramesAt(k)

(* What the places of the thread say of its locals, and who has the mutex. *)
OutputInv ==
    /\ opc = "idle" <=> sendp = NoFrame
    /\ opc \in {"fill", "flag", "give", "poll"} <=> mutex = "output"
    /\ cpc = "loop" <=> mutex = "clean"
    /\ opc = "lock" => idx = fill /\ free >= Chain[sendp]
    /\ opc = "fill" => /\ seg \in 1 .. Chain[sendp]
                       /\ free >= (Chain[sendp] - seg) + 1
                       /\ fill = At(Oldest, Full)
    /\ opc = "flag" => /\ seg \in 1 .. Chain[sendp]
                       /\ free >= Chain[sendp] - seg
                       /\ fill = At(Oldest, Full)
                       /\ idx = At(Oldest, Used - 1)
    /\ opc = "give" => idx = At(Oldest, Full)
    /\ opc \notin {"fill", "flag"} => seg = 0
    /\ dma = "suspended" => sending = <<>>

(* The references that a chain has.                                        *)
RefOf(f) ==
    (IF f \in Frame /\ held[f] THEN 1 ELSE 0) + (IF NotYetSaved(f) THEN 1 ELSE 0)
      + Cardinality(Saved(f))
RefsCounted == \A f \in Sent : ref[f] = RefOf(f)

Inv == TypeOK /\ RingInv /\ OutputInv /\ RefsCounted

LEMMA RingTyped ==
    ASSUME TypeOK
    PROVE  /\ N \in Nat /\ N >= 1 /\ free \in 0 .. N /\ Used \in 0 .. N /\ Used = N - free
           /\ Oldest \in Index /\ pos \in Index /\ idx \in Index /\ fill \in Index
           /\ reclaim \in Index /\ ridx \in Index
           /\ own \in [Index -> BOOLEAN]
           /\ flags \in [Index -> SUBSET {"FS", "LS"}]
           /\ addr \in [Index -> Segment \union {<<>>}]
           /\ txpbufs \in [Index -> Sent \union {NoFrame}]
  BY EmacTxAssumption DEF TypeOK, Used, Oldest

LEMMA ChainTyped ==
    ASSUME NEW f \in Sent
    PROVE  Chain[f] \in 1 .. N /\ f # NoFrame
  BY EmacTxAssumption

LEMMA PartTyped ==
    ASSUME TypeOK, OutputInv
    PROVE  /\ Part \in 0 .. N /\ Full = Used - Part /\ Full \in Int
           /\ opc # "idle" => sendp \in Sent
<1>1. opc # "idle" => sendp \in Sent
  BY DEF TypeOK, OutputInv
<1>2. N \in Nat /\ seg \in 0 .. N
  BY RingTyped DEF TypeOK
<1>3. opc \in {"fill", "flag"} => seg \in 1 .. Chain[sendp]
  BY DEF OutputInv
<1>4. Part \in 0 .. N
  BY <1>1, <1>2, <1>3, ChainTyped DEF Part
<1> QED
  BY <1>1, <1>4, RingTyped DEF Full

(***************************************************************************)
(* Steps that leave the ring alone.                                        *)
(***************************************************************************)
Quiet ==
    /\ own' = own /\ flags' = flags /\ addr' = addr /\ txpbufs' = txpbufs /\ free' = free
    /\ pos' = pos /\ sending' = sending
    /\ Oldest' = Oldest /\ NextFill' = NextFill /\ Part' = Part
    /\ \/ opc' = opc /\ sendp' = sendp /\ idx' = idx
       \/ Part = 0 /\ opc # "flag" /\ opc' \notin {"flag", "give"}

LEMMA QuietRing ==
    ASSUME TypeOK, OutputInv, RingInv, Quiet
    PROVE  RingInv'
<1>1. PICK k \in 0 .. N : OwnAt(k) /\ FramesAt(k)
  BY DEF RingInv
<1>2. Used' = Used /\ Full' = Full
  BY DEF Quiet, Used, Full
<1>3. \A j : SegmentAt(j)' = SegmentAt(j)
  BY DEF Quiet, SegmentAt, At
<1>4. OwnAt(k)'
  BY <1>1, <1>2 DEF OwnAt, Quiet, At
<1>5. \A j \in k .. Full - 1 : WholeAt(j)'
  <2> SUFFICES ASSUME NEW j \in k .. Full - 1 PROVE WholeAt(j)'
    OBVIOUS
  <2>1. WholeAt(j)
    BY <1>1 DEF FramesAt
  <2> QED
    BY <1>2, <1>3, <2>1 DEF WholeAt, Quiet, At
<1>6. \A j \in Full .. Used - 1 : PartAt(j)'
  <2> SUFFICES ASSUME NEW j \in Full .. Used - 1 PROVE PartAt(j)'
    OBVIOUS
  <2>1. PartAt(j)
    BY <1>1 DEF FramesAt
  <2>2. Part # 0
    BY RingTyped, PartTyped
  <2> QED
    BY <1>2, <2>1, <2>2 DEF PartAt, Quiet, At
<1>7. FramesAt(k)'
  BY <1>1, <1>2, <1>3, <1>5, <1>6 DEF FramesAt, Quiet
<1> QED
  BY <1>4, <1>7 DEF RingInv

LEMMA QuietSaved ==
    ASSUME TypeOK, Quiet, NEW f \in Sent
    PROVE  Saved(f)' = Saved(f)
<1>1. InUse' = InUse
  BY DEF Quiet, InUse
<1> QED
  BY <1>1 DEF Saved, Quiet

(* What is counted is a set of descriptors. *)
LEMMA CountTyped ==
    ASSUME NEW S \in SUBSET Index
    PROVE  IsFiniteSet(S) /\ Cardinality(S) \in 0 .. N
<1>1. N \in Nat /\ N >= 1
  BY EmacTxAssumption
<1>2. IsFiniteSet(Index) /\ Cardinality(Index) = N
  <2>1. 0 \in Int /\ N - 1 \in Int /\ 0 <= N - 1 /\ ((N - 1) - 0) + 1 = N
    BY <1>1
  <2> QED
    BY <2>1, FS_Interval DEF Index
<1>3. IsFiniteSet(S) /\ Cardinality(S) <= N
  BY <1>2, FS_Subset
<1> QED
  BY <1>1, <1>3, FS_CardinalityType

LEMMA SavedFinite ==
    ASSUME TypeOK, NEW f \in Sent
    PROVE  /\ InUse \subseteq Index /\ Saved(f) \subseteq Index /\ IsFiniteSet(Saved(f))
           /\ Cardinality(Saved(f)) \in 0 .. N
<1>1. InUse \subseteq Index
  <2> SUFFICES ASSUME NEW j \in 0 .. N - free - 1 PROVE (Oldest + j) % N \in Index
    BY DEF InUse
  <2>1. j \in 0 .. N
    BY RingTyped
  <2> QED
    BY <2>1, RingTyped, AtValue DEF At
<1>2. Saved(f) \subseteq Index
  BY <1>1 DEF Saved
<1> QED
  BY <1>1, <1>2, CountTyped

(* A descriptor is in use when it is at one of the used positions. *)
LEMMA InUseAt ==
    ASSUME TypeOK, NEW i
    PROVE  i \in InUse <=> \E j \in 0 .. Used - 1 : i = At(Oldest, j)
  BY RingTyped DEF InUse, At, Used


(***************************************************************************)
(* The engine reads a descriptor.                                          *)
(***************************************************************************)
LEMMA OwnedPosition ==
    ASSUME TypeOK, OutputInv, NEW k \in 0 .. N, OwnAt(k), own[pos]
    PROVE  k < Full
<1>1. PICK j \in 0 .. Used - 1 : pos = At(Oldest, j)
  BY RingTyped DEF OwnAt
<1>2. j >= k /\ j # Full
  BY <1>1 DEF OwnAt
<1>3. SUFFICES ASSUME k = Full PROVE FALSE
  BY PartTyped, RingTyped DEF OwnAt
<1>4. j # k /\ j \in 0 .. N - 1
  BY <1>2, <1>3, RingTyped
<1>5. CASE k = N
  BY <1>2, <1>4, <1>5
<1>6. CASE k # N
  <2>1. k \in 0 .. N - 1
    BY <1>6, RingTyped
  <2>2. At(Oldest, k) = At(Oldest, j)
    BY <1>1 DEF OwnAt
  <2> QED
    BY <1>4, <2>1, <2>2, AtApart, RingTyped
<1> QED
  BY <1>5, <1>6

(* What it has then read is the frame of its descriptor, so far. *)
LEMMA ReadSegments ==
    ASSUME TypeOK, OutputInv, NEW k \in 0 .. Full - 1, OwnAt(k), FramesAt(k)
    PROVE  LET s == SegmentAt(k)
               got == sending \o <<s>>
           IN  /\ addr[pos] = s /\ s \in Segment /\ Len(sending) \in Nat
               /\ s[2] = Len(sending) + 1 /\ sending \in Seq(Segment)
               /\ got \in Seq(Segment) /\ Len(got) = s[2]
               /\ \A n \in 1 .. Len(got) : got[n] = <<s[1], n>>
               /\ (IF "FS" \in flags[pos] THEN <<>> ELSE sending) \o <<addr[pos]>> = got
               /\ "LS" \in flags[pos] <=> s[2] = Chain[s[1]]
<1> DEFINE s == SegmentAt(k)
           got == sending \o <<s>>
<1>1. /\ WholeAt(k) /\ addr[pos] = s /\ s \in Segment
       /\ s[2] = Len(sending) + 1
       /\ \A n \in 1 .. Len(sending) : sending[n] = <<s[1], n>>
  <2>1. k \in k .. Full - 1 /\ k < Full
    BY PartTyped
  <2>2. WholeAt(k)
    BY <2>1 DEF FramesAt
  <2>3. addr[pos] = s /\ s \in Segment
    BY <2>2 DEF WholeAt, SegmentAt, OwnAt
  <2> QED
    BY <2>1, <2>2, <2>3 DEF FramesAt
<1>2. sending \in Seq(Segment \union {<<>>}) /\ Len(sending) \in Nat
  BY LenProperties DEF TypeOK
<1>3. s = <<s[1], s[2]>> /\ s[1] \in Sent /\ s[2] \in 1 .. N /\ s[2] <= Chain[s[1]]
  BY <1>1 DEF Segment
<1>4. \A n \in 1 .. Len(sending) : sending[n] \in Segment
  <2> SUFFICES ASSUME NEW n \in 1 .. Len(sending) PROVE <<s[1], n>> \in Segment
    BY <1>1
  <2>1. n \in 1 .. N /\ n <= Chain[s[1]]
    BY <1>1, <1>2, <1>3, RingTyped, ChainTyped
  <2> QED
    BY <1>3, <2>1 DEF Segment
<1>5. sending \in Seq(Segment)
  BY <1>2, <1>4
<1>6. /\ got \in Seq(Segment) /\ Len(got) = Len(sending) + 1
       /\ \A n \in 1 .. Len(got) : got[n] = <<s[1], n>>
  BY <1>1, <1>2, <1>3, <1>5
<1>7. (IF "FS" \in flags[pos] THEN <<>> ELSE sending) \o <<addr[pos]>> = got
  <2>1. CASE "FS" \in flags[pos]
    <3>1. s[2] = 1
      BY <1>1, <2>1 DEF WholeAt, OwnAt
    <3>2. sending = <<>>
      BY <1>1, <1>2, <3>1
    <3> QED
      BY <1>1, <2>1, <3>2
  <2>2. CASE "FS" \notin flags[pos]
    BY <1>1, <2>2
  <2> QED
    BY <2>1, <2>2
<1>8. "LS" \in flags[pos] <=> s[2] = Chain[s[1]]
  BY <1>1 DEF WholeAt, OwnAt
<1> QED
  BY <1>1, <1>2, <1>5, <1>6, <1>7, <1>8

LEMMA SendRing ==
    ASSUME TypeOK, OutputInv, RingInv, DmaSend
    PROVE  /\ RingInv' /\ pos' \in Index /\ own' \in [Index -> BOOLEAN]
           /\ sending' \in Seq(Segment) /\ wire' \in Seq(Segment \union {<<>>})
<1>1. PICK k \in 0 .. N : OwnAt(k) /\ FramesAt(k)
  BY DEF RingInv
<1>2. /\ own[pos] /\ own' = [own EXCEPT ![pos] = FALSE] /\ pos' = Succ(pos)
      /\ UNCHANGED <<flags, addr, txpbufs, free, output, clean>>
  BY DEF DmaSend
<1>3. Used' = Used /\ Part' = Part /\ Full' = Full /\ Oldest' = Oldest /\ NextFill' = NextFill
  BY <1>2 DEF output, clean, Used, Part, Full, Oldest, NextFill
<1>4. /\ k \in 0 .. Full - 1 /\ k \in 0 .. N - 1 /\ pos = At(Oldest, k)
      /\ k + 1 \in 0 .. Full /\ k + 1 \in 0 .. N
  BY <1>1, <1>2, OwnedPosition, RingTyped, PartTyped, SMTT(30) DEF OwnAt
<1>5. pos' = At(Oldest, k + 1) /\ pos' \in Index
  BY <1>2, <1>4, AtNext, SuccValue, RingTyped
<1>6. own' \in [Index -> BOOLEAN]
  BY <1>2, RingTyped
<1>7. \A j \in 0 .. Used - 1 : own'[At(Oldest, j)] <=> j >= k + 1 /\ j # Full
  <2> SUFFICES ASSUME NEW j \in 0 .. Used - 1
               PROVE  own'[At(Oldest, j)] <=> j >= k + 1 /\ j # Full
    OBVIOUS
  <2>1. At(Oldest, j) \in Index /\ j \in 0 .. N - 1
    BY AtValue, RingTyped, SMTT(30)
  <2>2. CASE j = k
    BY <1>2, <1>4, <2>1, <2>2, RingTyped
  <2>3. CASE j # k
    <3>1. At(Oldest, j) # pos
      BY <1>4, <2>1, <2>3, AtApart, RingTyped
    <3>2. own'[At(Oldest, j)] = own[At(Oldest, j)]
      BY <1>2, <2>1, <3>1, RingTyped
    <3>3. own[At(Oldest, j)] <=> j >= k /\ j # Full
      BY <1>1 DEF OwnAt
    <3> QED
      BY <1>4, <2>1, <2>3, <3>2, <3>3
  <2> QED
    BY <2>2, <2>3
<1>8. \A i \in Index : own'[i] \/ flags[i] # {} => \E j \in 0 .. Used - 1 : i = At(Oldest, j)
  <2> SUFFICES ASSUME NEW i \in Index, own'[i] \/ flags[i] # {}
               PROVE  \E j \in 0 .. Used - 1 : i = At(Oldest, j)
    OBVIOUS
  <2>1. own[i] \/ flags[i] # {}
    BY <1>2, RingTyped
  <2> QED
    BY <1>1, <2>1 DEF OwnAt
<1>9. OwnAt(k + 1)'
  BY <1>2, <1>3, <1>4, <1>5, <1>7, <1>8, <1>1 DEF OwnAt, At
<1>10. \A j : SegmentAt(j)' = SegmentAt(j)
  BY <1>2, <1>3 DEF SegmentAt, At
<1>11. \A j \in k + 1 .. Full - 1 : WholeAt(j)'
  <2> SUFFICES ASSUME NEW j \in k + 1 .. Full - 1 PROVE WholeAt(j)'
    OBVIOUS
  <2>1. WholeAt(j)
    BY <1>1, <1>4, PartTyped DEF FramesAt
  <2> QED
    BY <1>2, <1>3, <1>10, <2>1 DEF WholeAt, At
<1>12. \A j \in Full .. Used - 1 : PartAt(j)'
  <2> SUFFICES ASSUME NEW j \in Full .. Used - 1 PROVE PartAt(j)'
    OBVIOUS
  <2>1. PartAt(j)
    BY <1>1 DEF FramesAt
  <2> QED
    BY <1>2, <1>3, <2>1 DEF PartAt, At, output
<1> DEFINE s == SegmentAt(k)
           got == sending \o <<s>>
<1>13. /\ WholeAt(k) /\ addr[pos] = s /\ s \in Segment
       /\ s[2] = Len(sending) + 1
  <2>1. k \in k .. Full - 1
    BY <1>4, PartTyped
  <2>2. WholeAt(k)
    BY <1>1, <2>1 DEF FramesAt
  <2> QED
    BY <1>1, <1>4, <2>2, ReadSegments
<1>14. /\ got \in Seq(Segment) /\ Len(got) = Len(sending) + 1
       /\ \A n \in 1 .. Len(got) : got[n] = <<s[1], n>>
       /\ (IF "FS" \in flags[pos] THEN <<>> ELSE sending) \o <<addr[pos]>> = got
  BY <1>1, <1>4, ReadSegments
<1>15. IF "LS" \in flags[pos] THEN wire' = got /\ sending' = <<>>
       ELSE sending' = got /\ wire' = wire
  BY <1>14 DEF DmaSend
<1> HIDE DEF s, got
<1>16. FramesAt(k + 1)' /\ sending' \in Seq(Segment) /\ wire' \in Seq(Segment \union {<<>>})
  <2>1. CASE "LS" \in flags[pos]
    <3>1. wire' = got /\ sending' = <<>>
      BY <1>15, <2>1
    <3>2. k + 1 < Full => SegmentAt(k + 1)[2] = 1
      <4>1. k + 1 < Full => k < Full - 1
        BY <1>4, PartTyped
      <4> QED
        BY <1>4, <1>13, <2>1, <4>1 DEF WholeAt
    <3>3. FramesAt(k + 1)'
      BY <1>3, <1>10, <1>11, <1>12, <3>1, <3>2 DEF FramesAt
    <3>4. wire' \in Seq(Segment \union {<<>>})
      BY <1>14, <3>1
    <3> QED
      BY <3>1, <3>3, <3>4
  <2>2. CASE "LS" \notin flags[pos]
    <3>1. wire' = wire /\ sending' = got
      BY <1>15, <2>2
    <3>2. k < Full - 1 /\ SegmentAt(k + 1) = <<s[1], s[2] + 1>>
      BY <1>4, <1>13, <2>2 DEF WholeAt, s
    <3>3. k + 1 < Full
      BY <1>4, <3>2, PartTyped
    <3>4. SegmentAt(k + 1)[2] = Len(got) + 1 /\ SegmentAt(k + 1)[1] = s[1]
      BY <1>13, <1>14, <3>2
    <3>5. FramesAt(k + 1)'
      BY <1>3, <1>10, <1>11, <1>12, <1>14, <3>1, <3>3, <3>4 DEF FramesAt
    <3> QED
      BY <1>14, <3>1, <3>5 DEF TypeOK
  <2> QED
    BY <2>1, <2>2
<1>17. RingInv'
  BY <1>4, <1>9, <1>16 DEF RingInv
<1> QED
  BY <1>5, <1>6, <1>16, <1>17

(***************************************************************************)
(* The thread puts a frame into the ring.                                  *)
(***************************************************************************)
LEMMA FillRing ==
    ASSUME TypeOK, OutputInv, RingInv, Fill, UNCHANGED <<engine, clean>>
    PROVE  /\ RingInv' /\ OutputInv'
           /\ Used < N /\ Used' = Used + 1 /\ free' \in 0 .. N /\ Oldest' = Oldest
           /\ idx = At(Oldest, Used)
           /\ own' \in [Index -> BOOLEAN]
           /\ flags' \in [Index -> SUBSET {"FS", "LS"}]
           /\ addr' \in [Index -> Segment \union {<<>>}]
<1>1. PICK k \in 0 .. N : OwnAt(k) /\ FramesAt(k)
  BY DEF RingInv
<1>2. /\ opc = "fill" /\ opc' = "flag"
      /\ addr' = [addr EXCEPT ![idx] = <<sendp, seg>>]
      /\ free' = free - 1
      /\ UNCHANGED <<txpbufs, mutex, sendp, seg, idx, fill, held>>
      /\ UNCHANGED <<dma, pos, sending, cpc, ridx, reclaim>>
  BY DEF Fill, engine, clean
<1>3. /\ sendp \in Sent /\ Chain[sendp] \in 1 .. N /\ seg \in 1 .. Chain[sendp]
      /\ free >= (Chain[sendp] - seg) + 1 /\ fill = At(Oldest, Full)
      /\ mutex = "output" /\ sendp # NoFrame
  BY <1>2, PartTyped, ChainTyped DEF OutputInv
<1>4. /\ Used \in 0 .. N - 1 /\ Used' = Used + 1 /\ free' \in 0 .. N
      /\ free' >= Chain[sendp] - seg
  BY <1>2, <1>3, RingTyped, SMTT(30) DEF Used
<1>5. /\ Part = seg - 1 /\ Part' = seg /\ Full' = Full /\ Full \in 0 .. Used
      /\ Full = Used - (seg - 1) /\ Oldest' = Oldest
  <2>1. Part = seg - 1 /\ Part' = seg /\ Oldest' = Oldest
    BY <1>2 DEF Part, Oldest
  <2>2. Full = Used - (seg - 1) /\ Full' = Used' - seg
    BY <2>1 DEF Full
  <2>3. k >= 0 /\ k <= Full /\ Full \in Int /\ seg \in Int /\ seg >= 1
    BY <1>1, <1>3, PartTyped, RingTyped, ChainTyped DEF OwnAt
  <2> QED
    BY <1>4, <2>1, <2>2, <2>3
<1>6. /\ idx = At(Oldest, Used) /\ NextFill' = Succ(idx)
      /\ NextFill' = At(Oldest, Used + 1)
  <2>1. idx = At(Oldest, Used) /\ NextFill' = Succ(idx)
    BY <1>1, <1>2 DEF OwnAt, NextFill
  <2> QED
    BY <1>4, <2>1, AtNext, RingTyped
<1>7. \A j \in 0 .. Used - 1 : At(Oldest, j) \in Index /\ At(Oldest, j) # idx
  <2> SUFFICES ASSUME NEW j \in 0 .. Used - 1
               PROVE  At(Oldest, j) \in Index /\ At(Oldest, j) # idx
    OBVIOUS
  <2>1. j \in 0 .. N - 1 /\ j \in 0 .. N /\ j # Used
    BY <1>4, RingTyped
  <2>2. At(Oldest, j) \in Index
    BY <2>1, AtValue, RingTyped
  <2>3. At(Oldest, j) # At(Oldest, Used)
    BY <1>4, <2>1, AtApart, RingTyped
  <2> QED
    BY <1>6, <2>2, <2>3
<1>8. idx \in Index /\ ~own[idx] /\ flags[idx] = {}
  BY <1>1, <1>7, RingTyped DEF OwnAt
<1>9. /\ own' = IF seg = 1 THEN own ELSE [own EXCEPT ![idx] = TRUE]
      /\ flags' = IF seg = 1 THEN [flags EXCEPT ![idx] = @ \union {"FS"}] ELSE flags
  BY DEF Fill
<1>10. /\ own' \in [Index -> BOOLEAN]
       /\ flags' \in [Index -> SUBSET {"FS", "LS"}]
       /\ own'[idx] <=> seg # 1
       /\ flags'[idx] = IF seg = 1 THEN {"FS"} ELSE {}
       /\ \A i \in Index : i # idx => own'[i] = own[i] /\ flags'[i] = flags[i]
  <2>1. own' \in [Index -> BOOLEAN] /\ flags' \in [Index -> SUBSET {"FS", "LS"}]
    BY <1>9, RingTyped
  <2>2. CASE seg = 1
    BY <1>8, <1>9, <2>1, <2>2, RingTyped
  <2>3. CASE seg # 1
    BY <1>8, <1>9, <2>1, <2>3, RingTyped
  <2> QED
    BY <2>1, <2>2, <2>3
<1>11. /\ addr' \in [Index -> Segment \union {<<>>}]
       /\ addr'[idx] = <<sendp, seg>>
       /\ \A i \in Index : i # idx => addr'[i] = addr[i]
  <2>1. <<sendp, seg>> \in Segment
    BY <1>3, RingTyped DEF Segment
  <2> QED
    BY <1>2, <1>8, <2>1, RingTyped
<1>12. \A j \in 0 .. Used : own'[At(Oldest, j)] <=> j >= k /\ j # Full
  <2> SUFFICES ASSUME NEW j \in 0 .. Used
               PROVE  own'[At(Oldest, j)] <=> j >= k /\ j # Full
    OBVIOUS
  <2>1. CASE j = Used
    <3>1. own'[At(Oldest, j)] <=> seg # 1
      BY <1>6, <1>10, <2>1
    <3>2. j >= k /\ (j # Full <=> seg # 1)
      <4>1. k \in 0 .. Full /\ seg \in Int
        BY <1>1, RingTyped DEF OwnAt, TypeOK
      <4> QED
        BY <1>4, <1>5, <2>1, <4>1
    <3> QED
      BY <3>1, <3>2
  <2>2. CASE j # Used
    <3>1. j \in 0 .. Used - 1
      BY <1>4, <2>2
    <3> QED
      BY <1>1, <1>7, <1>10, <3>1 DEF OwnAt
  <2> QED
    BY <2>1, <2>2
<1>13. \A i \in Index : own'[i] \/ flags'[i] # {} => \E j \in 0 .. Used : i = At(Oldest, j)
  <2> SUFFICES ASSUME NEW i \in Index, own'[i] \/ flags'[i] # {}
               PROVE  \E j \in 0 .. Used : i = At(Oldest, j)
    OBVIOUS
  <2>1. CASE i = idx
    BY <1>4, <1>6, <2>1
  <2>2. CASE i # idx
    <3>1. PICK j \in 0 .. Used - 1 : i = At(Oldest, j)
      BY <1>1, <1>10, <2>2 DEF OwnAt
    <3>2. j \in 0 .. Used
      BY <1>4
    <3> QED
      BY <3>1, <3>2
  <2> QED
    BY <2>1, <2>2
<1>14. OwnAt(k)'
  <2>1. (Used + 1) - 1 = Used
    BY <1>4
  <2>2. pos' = At(Oldest', k) /\ k \in 0 .. Full'
    BY <1>1, <1>2, <1>5 DEF OwnAt
  <2> QED
    BY <1>4, <1>5, <1>6, <1>12, <1>13, <2>1, <2>2 DEF OwnAt, At
<1>15. \A j \in 0 .. Used - 1 : SegmentAt(j)' = SegmentAt(j)
  BY <1>5, <1>7, <1>11 DEF SegmentAt, At
<1>16. \A j \in k .. Full - 1 : WholeAt(j)'
  <2> SUFFICES ASSUME NEW j \in k .. Full - 1 PROVE WholeAt(j)'
    OBVIOUS
  <2>1. WholeAt(j) /\ j \in 0 .. Used - 1
    BY <1>1, <1>4, <1>5 DEF FramesAt, OwnAt
  <2>2. flags'[At(Oldest, j)] = flags[At(Oldest, j)] /\ SegmentAt(j)' = SegmentAt(j)
    BY <1>7, <1>10, <1>15, <2>1
  <2>3. j < Full - 1 => SegmentAt(j + 1)' = SegmentAt(j + 1)
    BY <1>4, <1>5, <1>15, <2>1
  <2>4. \A l \in j .. Full - 1 : txpbufs'[At(Oldest, l)] = txpbufs[At(Oldest, l)]
    BY <1>2
  <2> QED
    BY <1>5, <2>1, <2>2, <2>3, <2>4 DEF WholeAt, At
<1>17. \A j \in Full .. Used : PartAt(j)'
  <2> SUFFICES ASSUME NEW j \in Full .. Used PROVE PartAt(j)'
    OBVIOUS
  <2>1. CASE j = Used
    <3>1. (j - Full) + 1 = seg /\ j = Used' - 1
      BY <1>3, <1>4, <1>5, <2>1, RingTyped, ChainTyped
    <3>2. addr'[At(Oldest, j)] = <<sendp, seg>>
      BY <1>6, <1>11, <2>1
    <3>3. flags'[At(Oldest, j)] = IF seg = 1 THEN {"FS"} ELSE {}
      BY <1>6, <1>10, <2>1
    <3> QED
      BY <1>2, <1>5, <3>1, <3>2, <3>3 DEF PartAt, At
  <2>2. CASE j # Used
    <3>1. j \in Full .. Used - 1 /\ j \in 0 .. Used - 1 /\ j # Used' - 1
      BY <1>4, <1>5, <2>2
    <3>2. PartAt(j)
      BY <1>1, <3>1 DEF FramesAt
    <3>3. /\ flags'[At(Oldest, j)] = flags[At(Oldest, j)]
          /\ addr'[At(Oldest, j)] = addr[At(Oldest, j)]
      BY <1>7, <1>10, <1>11, <3>1
    <3> QED
      BY <1>2, <1>5, <3>1, <3>2, <3>3 DEF PartAt, At
  <2> QED
    BY <2>1, <2>2
<1>18. FramesAt(k)'
  <2>1. (Used + 1) - 1 = Used
    BY <1>4
  <2>2. k < Full => SegmentAt(k)' = SegmentAt(k)
    <3>1. k < Full => k \in 0 .. Used - 1
      BY <1>4, <1>5
    <3> QED
      BY <1>15, <3>1
  <2> QED
    BY <1>1, <1>2, <1>4, <1>5, <1>16, <1>17, <2>1, <2>2 DEF FramesAt
<1>19. RingInv'
  BY <1>14, <1>18 DEF RingInv
<1>20. OutputInv'
  <2>1. fill' = At(Oldest', Full') /\ idx' = At(Oldest', Used' - 1)
    BY <1>2, <1>3, <1>4, <1>5, <1>6
  <2> QED
    BY <1>2, <1>3, <1>4, <2>1 DEF OutputInv, At
<1> QED
  BY <1>4, <1>5, <1>6, <1>10, <1>11, <1>19, <1>20, RingTyped, SMTT(30)

LEMMA FlagRing ==
    ASSUME TypeOK, OutputInv, RingInv, FillFlag, UNCHANGED <<engine, clean>>
    PROVE  /\ RingInv' /\ OutputInv' /\ Oldest' = Oldest /\ Used' = Used
           /\ idx = At(Oldest, Used - 1) /\ Used >= 1
           /\ flags' \in [Index -> SUBSET {"FS", "LS"}]
           /\ txpbufs' \in [Index -> Sent \union {NoFrame}]
           /\ fill' \in Index /\ idx' \in Index /\ seg' \in 0 .. N
<1>1. PICK k \in 0 .. N : OwnAt(k) /\ FramesAt(k)
  BY DEF RingInv
<1> DEFINE last == seg = Chain[sendp]
<1>2. /\ opc = "flag" /\ opc' = IF last THEN "give" ELSE "fill"
      /\ txpbufs' = [txpbufs EXCEPT ![idx] = IF last THEN sendp ELSE NoFrame]
      /\ flags' = [flags EXCEPT ![idx] = IF last THEN @ \union {"LS"} ELSE @]
      /\ fill' = IF last THEN Succ(idx) ELSE fill
      /\ idx' = IF last THEN fill ELSE Succ(idx)
      /\ seg' = IF last THEN 0 ELSE seg + 1
      /\ UNCHANGED <<own, addr, free, mutex, sendp, held, ref>>
      /\ UNCHANGED <<dma, pos, sending, cpc, ridx, reclaim>>
  BY DEF FillFlag, engine, clean, pbufs
<1>3. /\ sendp \in Sent /\ Chain[sendp] \in 1 .. N /\ seg \in 1 .. Chain[sendp]
      /\ free >= Chain[sendp] - seg /\ fill = At(Oldest, Full)
      /\ mutex = "output" /\ sendp # NoFrame /\ idx = At(Oldest, Used - 1)
  BY <1>2, PartTyped, ChainTyped DEF OutputInv
<1>4. Used' = Used /\ Oldest' = Oldest
  BY <1>2 DEF Used, Oldest
<1>5. /\ Part = seg /\ Part' = seg /\ Full' = Full /\ Full = Used - seg
      /\ Full \in 0 .. Used - 1 /\ Used \in 1 .. N
  <2>1. Part = seg /\ Part' = seg
    BY <1>2, <1>3, RingTyped DEF Part
  <2>2. Full = Used - seg /\ Full' = Full
    BY <1>4, <2>1 DEF Full
  <2>3. k >= 0 /\ k <= Full /\ Full \in Int /\ seg \in Int /\ seg >= 1
    BY <1>1, <1>3, PartTyped, RingTyped DEF OwnAt
  <2> QED
    BY <2>1, <2>2, <2>3, RingTyped
<1>6. /\ Succ(idx) = At(Oldest, Used) /\ NextFill' = NextFill /\ Succ(idx) \in Index
      /\ idx \in Index
  <2>1. NextFill = Succ(idx) /\ NextFill = At(Oldest, Used)
    BY <1>1, <1>2 DEF NextFill, OwnAt
  <2>2. NextFill' = Succ(idx)
    BY <1>2 DEF NextFill
  <2> QED
    BY <2>1, <2>2, SuccValue, RingTyped
<1>7. \A j \in 0 .. Used - 1 : /\ At(Oldest, j) \in Index
                               /\ At(Oldest, j) = idx <=> j = Used - 1
  <2> SUFFICES ASSUME NEW j \in 0 .. Used - 1
               PROVE  /\ At(Oldest, j) \in Index
                      /\ At(Oldest, j) = idx <=> j = Used - 1
    OBVIOUS
  <2>1. j \in 0 .. N - 1 /\ j \in 0 .. N /\ Used - 1 \in 0 .. N - 1
    BY <1>5, RingTyped
  <2> QED
    BY <1>3, <2>1, AtValue, AtApart, RingTyped
<1>8. /\ flags' \in [Index -> SUBSET {"FS", "LS"}]
      /\ flags'[idx] = IF last THEN flags[idx] \union {"LS"} ELSE flags[idx]
      /\ \A i \in Index : i # idx => flags'[i] = flags[i]
      /\ txpbufs' \in [Index -> Sent \union {NoFrame}]
      /\ txpbufs'[idx] = IF last THEN sendp ELSE NoFrame
      /\ \A i \in Index : i # idx => txpbufs'[i] = txpbufs[i]
  BY <1>2, <1>3, <1>6, RingTyped
<1>9. \A i \in Index : flags'[i] # {} => \E j \in 0 .. Used - 1 : i = At(Oldest, j)
  <2> SUFFICES ASSUME NEW i \in Index, flags'[i] # {}
               PROVE  \E j \in 0 .. Used - 1 : i = At(Oldest, j)
    OBVIOUS
  <2>1. CASE i = idx
    <3>1. Used - 1 \in 0 .. Used - 1
      BY <1>5, RingTyped
    <3> QED
      BY <1>3, <2>1, <3>1
  <2>2. CASE i # idx
    BY <1>1, <1>8, <2>2 DEF OwnAt
  <2> QED
    BY <2>1, <2>2
<1>10. OwnAt(k)'
  BY <1>1, <1>2, <1>4, <1>5, <1>6, <1>9 DEF OwnAt, At
<1>11. \A j : SegmentAt(j)' = SegmentAt(j)
  BY <1>2, <1>4 DEF SegmentAt, At
<1>12. \A j \in k .. Full - 1 : WholeAt(j)'
  <2> SUFFICES ASSUME NEW j \in k .. Full - 1 PROVE WholeAt(j)'
    OBVIOUS
  <2>1. WholeAt(j)
    BY <1>1 DEF FramesAt
  <2>2. \A l \in k .. Full - 1 : /\ At(Oldest, l) \in Index
                                 /\ At(Oldest, l) # idx
    <3> SUFFICES ASSUME NEW l \in k .. Full - 1
                 PROVE  At(Oldest, l) \in Index /\ At(Oldest, l) # idx
      OBVIOUS
    <3>1. l \in 0 .. Used - 1 /\ l # Used - 1
      BY <1>5
    <3> QED
      BY <1>7, <3>1
  <2>3. flags'[At(Oldest, j)] = flags[At(Oldest, j)]
    BY <1>8, <2>2
  <2>4. \A l \in j .. Full - 1 : txpbufs'[At(Oldest, l)] = txpbufs[At(Oldest, l)]
    <3> SUFFICES ASSUME NEW l \in j .. Full - 1
                 PROVE  txpbufs'[At(Oldest, l)] = txpbufs[At(Oldest, l)]
      OBVIOUS
    <3>1. l \in k .. Full - 1
      BY <1>5
    <3> QED
      BY <1>8, <2>2, <3>1
  <2> QED
    BY <1>4, <1>5, <1>11, <2>1, <2>3, <2>4 DEF WholeAt, At
<1>13. \A j \in Full .. Used - 1 : PartAt(j)'
  <2> SUFFICES ASSUME NEW j \in Full .. Used - 1 PROVE PartAt(j)'
    OBVIOUS
  <2>1. PartAt(j) /\ j \in 0 .. Used - 1 /\ opc' # "flag"
    BY <1>1, <1>2, <1>5 DEF FramesAt
  <2>2. CASE j = Used - 1
    <3>1. (j - Full) + 1 = seg
      BY <1>3, <1>5, <2>2, RingTyped
    <3>2. At(Oldest, j) = idx
      BY <1>7, <2>1, <2>2
    <3>3. addr[idx] = <<sendp, seg>> /\ ("FS" \in flags[idx] <=> seg = 1) /\ "LS" \notin flags[idx]
      BY <1>2, <2>1, <2>2, <3>1, <3>2 DEF PartAt
    <3> QED
      BY <1>2, <1>4, <1>5, <1>8, <2>1, <3>1, <3>2, <3>3 DEF PartAt, At
  <2>3. CASE j # Used - 1
    <3>1. flags'[At(Oldest, j)] = flags[At(Oldest, j)]
          /\ txpbufs'[At(Oldest, j)] = txpbufs[At(Oldest, j)]
      BY <1>7, <1>8, <2>1, <2>3
    <3> QED
      BY <1>2, <1>4, <1>5, <2>1, <2>3, <3>1 DEF PartAt, At
  <2> QED
    BY <2>2, <2>3
<1>14. FramesAt(k)'
  BY <1>1, <1>2, <1>4, <1>5, <1>11, <1>12, <1>13 DEF FramesAt
<1>15. RingInv'
  BY <1>10, <1>14 DEF RingInv
<1>16. OutputInv'
  <2>1. ~last => seg + 1 \in 1 .. Chain[sendp] /\ free >= (Chain[sendp] - (seg + 1)) + 1
    BY <1>3, RingTyped
  <2>2. fill = At(Oldest', Full')
    BY <1>3, <1>4, <1>5
  <2> HIDE DEF last
  <2> QED
    BY <1>2, <1>3, <1>4, <2>1, <2>2 DEF OutputInv, At
<1>17. fill' \in Index /\ idx' \in Index
  BY <1>2, <1>6, RingTyped
<1>18. seg' \in 0 .. N
  BY <1>2, <1>3, RingTyped
<1> QED
  BY <1>3, <1>4, <1>5, <1>8, <1>15, <1>16, <1>17, <1>18, RingTyped, SMTT(30)

LEMMA GiveRing ==
    ASSUME TypeOK, OutputInv, RingInv, Give, UNCHANGED <<engine, clean>>
    PROVE  /\ RingInv' /\ OutputInv' /\ Oldest' = Oldest /\ Used' = Used
           /\ own' \in [Index -> BOOLEAN]
<1>1. PICK k \in 0 .. N : OwnAt(k) /\ FramesAt(k)
  BY DEF RingInv
<1>2. /\ opc = "give" /\ opc' = "poll"
      /\ own' = [own EXCEPT ![idx] = TRUE]
      /\ UNCHANGED <<flags, addr, txpbufs, free, mutex, sendp, seg, idx, fill, held, ref>>
      /\ UNCHANGED <<dma, pos, sending, cpc, ridx, reclaim>>
  BY DEF Give, engine, clean, pbufs
<1>3. /\ sendp \in Sent /\ Chain[sendp] \in 1 .. N /\ idx = At(Oldest, Full)
      /\ mutex = "output" /\ sendp # NoFrame
  BY <1>2, PartTyped, ChainTyped DEF OutputInv
<1>4. Used' = Used /\ Oldest' = Oldest
  BY <1>2 DEF Used, Oldest
<1>5. /\ Part = Chain[sendp] /\ Part' = 0 /\ Full' = Used /\ Full = Used - Chain[sendp]
      /\ Full \in 0 .. Used - 1 /\ Used \in 1 .. N
  <2>1. Part = Chain[sendp] /\ Part' = 0
    BY <1>2 DEF Part
  <2>2. Full = Used - Chain[sendp] /\ Full' = Used
    BY <1>4, <2>1, RingTyped DEF Full
  <2>3. k >= 0 /\ k <= Full /\ Full \in Int
    BY <1>1, PartTyped, RingTyped DEF OwnAt
  <2> QED
    BY <1>3, <2>1, <2>2, <2>3, RingTyped
<1>6. NextFill' = NextFill
  BY <1>2 DEF NextFill
<1>7. k \in 0 .. Full /\ Full \in 0 .. N - 1
  BY <1>1, <1>5, RingTyped DEF OwnAt
<1>8. \A j \in 0 .. Used - 1 : own'[At(Oldest, j)] <=> j >= k
  <2> SUFFICES ASSUME NEW j \in 0 .. Used - 1
               PROVE  own'[At(Oldest, j)] <=> j >= k
    OBVIOUS
  <2>1. At(Oldest, j) \in Index /\ j \in 0 .. N - 1
    <3>1. j \in 0 .. N - 1 /\ j \in 0 .. N
      BY <1>5, RingTyped
    <3> QED
      BY <3>1, AtValue, RingTyped
  <2>2. CASE j = Full
    <3>1. own'[At(Oldest, j)]
      BY <1>2, <1>3, <2>1, <2>2, RingTyped
    <3> QED
      BY <1>7, <2>2, <3>1
  <2>3. CASE j # Full
    <3>1. At(Oldest, j) # idx
      BY <1>3, <1>7, <2>1, <2>3, AtApart, RingTyped
    <3>2. own'[At(Oldest, j)] = own[At(Oldest, j)]
      BY <1>2, <2>1, <3>1, RingTyped
    <3> QED
      BY <1>1, <2>3, <3>2 DEF OwnAt
  <2> QED
    BY <2>2, <2>3
<1>9. \A i \in Index : own'[i] \/ flags[i] # {} => \E j \in 0 .. Used - 1 : i = At(Oldest, j)
  <2> SUFFICES ASSUME NEW i \in Index, own'[i] \/ flags[i] # {}
               PROVE  \E j \in 0 .. Used - 1 : i = At(Oldest, j)
    OBVIOUS
  <2>1. CASE i = idx
    BY <1>3, <1>5, <2>1
  <2>2. CASE i # idx
    <3>1. own[i] \/ flags[i] # {}
      BY <1>2, <2>2, RingTyped
    <3> QED
      BY <1>1, <3>1 DEF OwnAt
  <2> QED
    BY <2>1, <2>2
<1>10. OwnAt(k)'
  <2>1. k \in 0 .. Full' /\ pos' = At(Oldest', k) /\ NextFill' = At(Oldest', Used')
    BY <1>1, <1>2, <1>4, <1>5, <1>6, <1>7 DEF OwnAt
  <2>2. \A j \in 0 .. Used - 1 : j # Full'
    BY <1>5
  <2> QED
    BY <1>2, <1>4, <1>8, <1>9, <2>1, <2>2 DEF OwnAt, At
<1>11. \A j : SegmentAt(j)' = SegmentAt(j)
  BY <1>2, <1>4 DEF SegmentAt, At
<1>a. /\ Full \in Int /\ Used \in Int /\ Chain[sendp] \in Int
       /\ Used = Full + Chain[sendp] /\ Chain[sendp] >= 1
  BY <1>3, <1>5, RingTyped
<1>12. \A j \in Full .. Used - 1 :
         /\ SegmentAt(j) = <<sendp, (j - Full) + 1>>
         /\ "FS" \in flags[At(Oldest, j)] <=> j = Full
         /\ "LS" \in flags[At(Oldest, j)] <=> j = Used - 1
         /\ (j - Full) + 1 \in 1 .. Chain[sendp]
         /\ (j - Full) + 1 = 1 <=> j = Full
         /\ (j - Full) + 1 = Chain[sendp] <=> j = Used - 1
  <2> SUFFICES ASSUME NEW j \in Full .. Used - 1
               PROVE  /\ SegmentAt(j) = <<sendp, (j - Full) + 1>>
                      /\ "FS" \in flags[At(Oldest, j)] <=> j = Full
                      /\ "LS" \in flags[At(Oldest, j)] <=> j = Used - 1
                      /\ (j - Full) + 1 \in 1 .. Chain[sendp]
                      /\ (j - Full) + 1 = 1 <=> j = Full
                      /\ (j - Full) + 1 = Chain[sendp] <=> j = Used - 1
    OBVIOUS
  <2>1. PartAt(j)
    BY <1>1 DEF FramesAt
  <2>2. /\ (j - Full) + 1 \in 1 .. Chain[sendp]
        /\ (j - Full) + 1 = 1 <=> j = Full
        /\ (j - Full) + 1 = Chain[sendp] <=> j = Used - 1
    BY <1>a
  <2> QED
    BY <1>2, <2>1, <2>2 DEF PartAt, SegmentAt
<1>13. txpbufs[At(Oldest, Used - 1)] = sendp /\ Used - 1 \in Full .. Used - 1
  <2>1. Used - 1 \in Full .. Used - 1 /\ ((Used - 1) - Full) + 1 = Chain[sendp]
    BY <1>a
  <2>2. PartAt(Used - 1)
    BY <1>1, <2>1 DEF FramesAt
  <2> QED
    BY <1>2, <2>1, <2>2 DEF PartAt
<1>14. \A j \in k .. Used - 1 : WholeAt(j)'
  <2> SUFFICES ASSUME NEW j \in k .. Used - 1 PROVE WholeAt(j)'
    OBVIOUS
  <2>1. /\ flags' = flags /\ txpbufs' = txpbufs /\ At(Oldest, j)' = At(Oldest, j)
        /\ \A l : txpbufs'[At(Oldest', l)] = txpbufs[At(Oldest, l)]
    BY <1>2, <1>4 DEF At
  <2>2. CASE j < Full
    <3>1. WholeAt(j) /\ j \in k .. Full - 1
      <4>1. j \in k .. Full - 1
        BY <1>5, <1>7, <2>2
      <4> QED
        BY <1>1, <4>1 DEF FramesAt
    <3>2. \/ j < Full - 1
          \/ j = Full - 1 /\ SegmentAt(j + 1) = <<sendp, 1>>
      <4>1. CASE j = Full - 1
        <5>1. j + 1 = Full /\ Full \in Full .. Used - 1 /\ (Full - Full) + 1 = 1
          BY <1>5, <4>1
        <5> QED
          BY <1>12, <4>1, <5>1
      <4> QED
        BY <1>5, <3>1, <4>1
    <3>3. j < Used - 1 /\ (\A l \in j .. Full - 1 : l \in j .. Used - 1)
      BY <1>5, <2>2, <3>1
    <3>4. "LS" \in flags[At(Oldest, j)] => SegmentAt(j + 1)[2] = 1
      BY <3>1, <3>2 DEF WholeAt
    <3>5. \E l \in j .. Used - 1 : txpbufs[At(Oldest, l)] = SegmentAt(j)[1]
      BY <3>1, <3>3 DEF WholeAt
    <3> QED
      BY <1>4, <1>5, <1>11, <2>1, <3>1, <3>3, <3>4, <3>5 DEF WholeAt
  <2>3. CASE ~(j < Full)
    <3>1. j \in Full .. Used - 1
      BY <1>5, <1>7, <2>3
    <3>2. SegmentAt(j) = <<sendp, (j - Full) + 1>> /\ SegmentAt(j) \in Segment
      <4>1. (j - Full) + 1 \in 1 .. N /\ (j - Full) + 1 <= Chain[sendp]
        BY <1>3, <1>12, <3>1, RingTyped
      <4> QED
        BY <1>3, <1>12, <3>1, <4>1 DEF Segment
    <3>3. j # Used - 1 => j < Used - 1 /\ SegmentAt(j + 1) = <<sendp, ((j - Full) + 1) + 1>>
      <4> SUFFICES ASSUME j # Used - 1
                   PROVE  j < Used - 1 /\ SegmentAt(j + 1) = <<sendp, ((j - Full) + 1) + 1>>
        OBVIOUS
      <4>1. j + 1 \in Full .. Used - 1 /\ ((j + 1) - Full) + 1 = ((j - Full) + 1) + 1
        BY <1>5, <3>1
      <4> QED
        BY <1>5, <1>12, <3>1, <4>1
    <3>4. \E l \in j .. Used - 1 : txpbufs[At(Oldest, l)] = sendp
      BY <1>5, <1>13, <3>1
    <3>5. "LS" \in flags[At(Oldest, j)] => ~(j < Used - 1)
      BY <1>5, <1>12, <3>1
    <3>6. /\ "FS" \in flags[At(Oldest, j)] <=> SegmentAt(j)[2] = 1
          /\ "LS" \in flags[At(Oldest, j)] <=> SegmentAt(j)[2] = Chain[SegmentAt(j)[1]]
          /\ "LS" \notin flags[At(Oldest, j)] => j # Used - 1
          /\ SegmentAt(j)[1] = sendp /\ SegmentAt(j)[2] = (j - Full) + 1
      BY <1>12, <3>1, <3>2
    <3> QED
      BY <1>4, <1>5, <1>11, <2>1, <3>2, <3>3, <3>4, <3>5, <3>6 DEF WholeAt
  <2> QED
    BY <2>2, <2>3
<1>15. /\ SegmentAt(k)[2] = Len(sending) + 1
       /\ \A n \in 1 .. Len(sending) : sending[n] = <<SegmentAt(k)[1], n>>
  <2>1. CASE k < Full
    BY <1>1, <2>1 DEF FramesAt
  <2>2. CASE k = Full
    <3>1. sending = <<>>
      BY <1>1, <1>5, <2>2 DEF FramesAt
    <3>2. SegmentAt(k) = <<sendp, 1>>
      BY <1>5, <1>12, <2>2
    <3> QED
      BY <3>1, <3>2
  <2> QED
    BY <1>7, <1>5, <2>1, <2>2
<1>16. FramesAt(k)'
  <2>1. k < Used /\ (Used .. Used - 1) = {}
    BY <1>5, <1>7
  <2> QED
    BY <1>2, <1>4, <1>5, <1>11, <1>14, <1>15, <2>1 DEF FramesAt
<1>17. RingInv'
  BY <1>10, <1>16 DEF RingInv
<1>18. OutputInv'
  BY <1>2, <1>3 DEF OutputInv
<1>19. own' \in [Index -> BOOLEAN]
  BY <1>2, RingTyped
<1> QED
  BY <1>4, <1>17, <1>18, <1>19

(***************************************************************************)
(* The task takes a finished descriptor back.                              *)
(***************************************************************************)
LEMMA ReclaimRing ==
    ASSUME TypeOK, OutputInv, RingInv, Reclaim, UNCHANGED <<output, engine>>
    PROVE  /\ RingInv' /\ OutputInv'
           /\ Used \in 1 .. N /\ Used' = Used - 1 /\ free' \in 0 .. N
           /\ ridx = At(Oldest, 0) /\ ridx' \in Index
           /\ \A j \in 0 .. N - 1 : At(Oldest', j) = At(Oldest, j + 1)
           /\ opc \notin {"flag", "fill"} /\ opc' = opc /\ sendp' = sendp /\ seg' = seg
           /\ flags' \in [Index -> SUBSET {"FS", "LS"}]
<1>1. PICK k \in 0 .. N : OwnAt(k) /\ FramesAt(k)
  BY DEF RingInv
<1>2. /\ cpc = "loop" /\ free < N /\ ~own[ridx]
      /\ flags' = [flags EXCEPT ![ridx] = {}]
      /\ free' = free + 1 /\ ridx' = Succ(ridx)
      /\ UNCHANGED <<own, addr, txpbufs, cpc, reclaim, held, mutex>>
      /\ UNCHANGED <<opc, sendp, seg, idx, fill, dma, pos, sending>>
  BY DEF Reclaim, output, engine
<1>3. mutex = "clean" /\ opc \notin {"fill", "flag", "give", "poll"}
  BY <1>2 DEF OutputInv
<1>4. /\ Oldest = ridx /\ Oldest' = Succ(ridx) /\ Used' = Used - 1 /\ Used \in 1 .. N
      /\ free' \in 0 .. N
  <2>1. Oldest = ridx /\ Oldest' = Succ(ridx)
    BY <1>2 DEF Oldest
  <2>2. Used' = Used - 1 /\ Used \in 1 .. N /\ free' \in 0 .. N
    BY <1>2, RingTyped DEF Used
  <2> QED
    BY <2>1, <2>2
<1>5. Part = 0 /\ Part' = 0 /\ Full = Used /\ Full' = Used'
  <2>1. Part = 0 /\ Part' = 0
    BY <1>2, <1>3 DEF Part
  <2> QED
    BY <1>4, <2>1, RingTyped DEF Full
<1>6. At(Oldest, 0) = ridx /\ ridx \in Index /\ ridx' \in Index
  <2>1. 0 \in 0 .. N - 1
    BY RingTyped
  <2> QED
    BY <1>2, <1>4, <2>1, AtNext, SuccValue, RingTyped
<1>7. \A j \in 0 .. N - 1 : At(Oldest', j) = At(Oldest, j + 1)
  BY <1>4, AtNext, RingTyped
<1>8. k \in 1 .. Used
  <2>1. 0 \in 0 .. Used - 1 /\ k \in 0 .. Used
    BY <1>1, <1>4, <1>5 DEF OwnAt
  <2>2. ~(0 >= k /\ 0 # Full)
    BY <1>1, <1>2, <1>6, <2>1 DEF OwnAt
  <2> QED
    BY <1>4, <1>5, <2>1, <2>2
<1>9. \A j \in 0 .. Used - 2 : /\ j \in 0 .. N - 1 /\ j + 1 \in 0 .. Used - 1
                               /\ At(Oldest', j) = At(Oldest, j + 1)
                               /\ At(Oldest', j) \in Index /\ At(Oldest', j) # ridx
  <2> SUFFICES ASSUME NEW j \in 0 .. Used - 2
               PROVE  /\ j \in 0 .. N - 1 /\ j + 1 \in 0 .. Used - 1
                      /\ At(Oldest', j) = At(Oldest, j + 1)
                      /\ At(Oldest', j) \in Index /\ At(Oldest', j) # ridx
    OBVIOUS
  <2>1. /\ j \in 0 .. N - 1 /\ j + 1 \in 0 .. Used - 1 /\ j + 1 \in 0 .. N - 1
        /\ j + 1 \in 0 .. N /\ 0 \in 0 .. N - 1 /\ j + 1 # 0
    BY <1>4, RingTyped
  <2>2. At(Oldest, j + 1) \in Index
    BY <2>1, AtValue, RingTyped
  <2>3. At(Oldest, j + 1) # At(Oldest, 0)
    BY <2>1, AtApart, RingTyped
  <2> QED
    BY <1>6, <1>7, <2>1, <2>2, <2>3
<1>10. NextFill' = NextFill
  BY <1>2, <1>3 DEF NextFill
<1>11. pos = At(Oldest', k - 1) /\ NextFill' = At(Oldest', Used')
  <2>1. k - 1 \in 0 .. N - 1 /\ Used - 1 \in 0 .. N - 1 /\ (k - 1) + 1 = k /\ (Used - 1) + 1 = Used
    BY <1>4, <1>8, RingTyped
  <2> QED
    BY <1>1, <1>4, <1>7, <1>10, <2>1 DEF OwnAt
<1>12. \A j \in 0 .. Used - 2 : own[At(Oldest', j)] <=> j >= k - 1 /\ j # Used - 1
  <2> SUFFICES ASSUME NEW j \in 0 .. Used - 2
               PROVE  own[At(Oldest', j)] <=> j >= k - 1 /\ j # Used - 1
    OBVIOUS
  <2>1. own[At(Oldest, j + 1)] <=> j + 1 >= k /\ j + 1 # Full
    BY <1>1, <1>9 DEF OwnAt
  <2> QED
    BY <1>4, <1>5, <1>8, <1>9, <2>1
<1>13. \A i \in Index : own[i] \/ flags'[i] # {} => \E j \in 0 .. Used - 2 : i = At(Oldest', j)
  <2> SUFFICES ASSUME NEW i \in Index, own[i] \/ flags'[i] # {}
               PROVE  \E j \in 0 .. Used - 2 : i = At(Oldest', j)
    OBVIOUS
  <2>1. i # ridx /\ (own[i] \/ flags[i] # {})
    BY <1>2, <1>6, RingTyped
  <2>2. PICK j \in 0 .. Used - 1 : i = At(Oldest, j)
    BY <1>1, <2>1 DEF OwnAt
  <2>3. j - 1 \in 0 .. Used - 2 /\ (j - 1) + 1 = j
    BY <1>4, <1>6, <2>1, <2>2
  <2>4. i = At(Oldest', j - 1)
    BY <1>9, <2>2, <2>3
  <2> QED
    BY <2>3, <2>4
<1>14. /\ Used' - 1 = Used - 2 /\ k - 1 \in 0 .. Used' /\ k - 1 \in 0 .. N
       /\ \A j \in 0 .. Used - 2 : j # Used' /\ j # Used - 1
  BY <1>4, <1>8, RingTyped
<1>15. OwnAt(k - 1)'
  BY <1>2, <1>4, <1>5, <1>11, <1>12, <1>13, <1>14 DEF OwnAt, At
<1>16. \A j \in 0 .. Used - 2 : /\ SegmentAt(j)' = SegmentAt(j + 1)
                                /\ flags'[At(Oldest', j)] = flags[At(Oldest, j + 1)]
  <2> SUFFICES ASSUME NEW j \in 0 .. Used - 2
               PROVE  /\ SegmentAt(j)' = SegmentAt(j + 1)
                      /\ flags'[At(Oldest', j)] = flags[At(Oldest, j + 1)]
    OBVIOUS
  <2>1. At(Oldest, j)' = At(Oldest, j + 1)
    BY <1>9 DEF At
  <2>2. SegmentAt(j)' = SegmentAt(j + 1)
    BY <1>2, <2>1 DEF SegmentAt
  <2>3. flags'[At(Oldest', j)] = flags[At(Oldest', j)]
    BY <1>2, <1>9, RingTyped
  <2> QED
    BY <1>9, <2>2, <2>3
<1>17. \A j \in k - 1 .. Used - 2 : WholeAt(j)'
  <2> SUFFICES ASSUME NEW j \in k - 1 .. Used - 2 PROVE WholeAt(j)'
    OBVIOUS
  <2>1. /\ j \in 0 .. Used - 2 /\ j + 1 \in k .. Full - 1
        /\ (j + 1 < Full - 1 <=> j < Full' - 1)
    BY <1>4, <1>5, <1>8
  <2>2. WholeAt(j + 1)
    BY <1>1, <2>1 DEF FramesAt
  <2>3. SegmentAt(j)' = SegmentAt(j + 1) /\ flags'[At(Oldest', j)] = flags[At(Oldest, j + 1)]
    BY <1>16, <2>1
  <2>4. j < Full' - 1 => SegmentAt(j + 1)' = SegmentAt((j + 1) + 1)
    <3>1. j < Full' - 1 => j + 1 \in 0 .. Used - 2
      BY <1>4, <1>5, <2>1
    <3> QED
      BY <1>16, <3>1
  <2>5. \E l \in j .. Full' - 1 : txpbufs'[At(Oldest', l)] = SegmentAt(j)'[1]
    <3>1. PICK l \in j + 1 .. Full - 1 : txpbufs[At(Oldest, l)] = SegmentAt(j + 1)[1]
      BY <2>2 DEF WholeAt
    <3>2. l - 1 \in j .. Full' - 1 /\ l - 1 \in 0 .. Used - 2 /\ (l - 1) + 1 = l
      BY <1>4, <1>5, <2>1
    <3>3. At(Oldest', l - 1) = At(Oldest, l)
      BY <1>9, <3>2
    <3> QED
      BY <1>2, <2>3, <3>1, <3>2, <3>3
  <2> QED
    BY <2>1, <2>2, <2>3, <2>4, <2>5 DEF WholeAt, At
<1>18. FramesAt(k - 1)'
  <2>1. /\ (Full' .. Used' - 1) = {} /\ Full' - 1 = Used - 2
        /\ (k < Full <=> k - 1 < Full')
    BY <1>4, <1>5, <1>8
  <2>2. k - 1 < Full' => SegmentAt(k - 1)' = SegmentAt(k)
    <3>1. k - 1 < Full' => k - 1 \in 0 .. Used - 2 /\ (k - 1) + 1 = k
      BY <1>4, <1>5, <1>8
    <3> QED
      BY <1>16, <3>1
  <2>3. sending' = sending /\ opc' # "give"
    BY <1>2, <1>3
  <2> QED
    BY <1>1, <1>17, <2>1, <2>2, <2>3 DEF FramesAt
<1>19. RingInv'
  BY <1>14, <1>15, <1>18 DEF RingInv
<1>20. OutputInv'
  <2>1. opc = "lock" => free' >= Chain[sendp]
    <3>1. opc = "lock" => Chain[sendp] \in Int
      BY PartTyped, ChainTyped, RingTyped
    <3> QED
      BY <1>2, <3>1, RingTyped DEF OutputInv
  <2> QED
    BY <1>2, <1>3, <2>1 DEF OutputInv
<1>21. flags' \in [Index -> SUBSET {"FS", "LS"}]
  BY <1>2, RingTyped
<1> QED
  BY <1>2, <1>3, <1>4, <1>6, <1>7, <1>19, <1>20, <1>21

(***************************************************************************)
(* What the steps do to the counted descriptors.                           *)
(***************************************************************************)
LEMMA FillSaved ==
    ASSUME TypeOK, OutputInv, RingInv, Fill, UNCHANGED <<engine, clean>>, NEW f \in Sent
    PROVE  Saved(f)' = Saved(f)
<1>1. /\ Used \in 0 .. N - 1 /\ Used' = Used + 1 /\ Oldest' = Oldest /\ idx = At(Oldest, Used)
  BY FillRing, RingTyped
<1>2. opc = "fill" /\ opc' = "flag" /\ idx' = idx /\ txpbufs' = txpbufs
  BY DEF Fill
<1>3. idx \notin InUse
  <2>1. ASSUME NEW j \in 0 .. Used - 1 PROVE idx # At(Oldest, j)
    <3>1. j \in 0 .. N - 1 /\ j # Used
      BY <1>1, RingTyped
    <3> QED
      BY <1>1, <3>1, AtApart, RingTyped
  <2> QED
    BY <2>1, InUseAt
<1>4. InUse' = InUse \union {idx}
  <2>1. InUse = {At(Oldest, j) : j \in 0 .. Used - 1}
    BY DEF InUse, At, Used
  <2>2. InUse' = {At(Oldest, j) : j \in 0 .. Used}
    <3>1. N - free' - 1 = Used
      BY <1>1, RingTyped DEF Used
    <3> QED
      BY <1>1, <3>1 DEF InUse, At
  <2>3. 0 .. Used = (0 .. Used - 1) \union {Used}
    BY <1>1, RingTyped
  <2> QED
    BY <1>1, <2>1, <2>2, <2>3
<1> QED
  BY <1>2, <1>3, <1>4 DEF Saved

LEMMA FlagSaved ==
    ASSUME TypeOK, OutputInv, RingInv, FillFlag, UNCHANGED <<engine, clean>>, NEW f \in Sent
    PROVE  /\ idx \notin Saved(f)
           /\ Saved(f)' = IF seg = Chain[sendp] /\ f = sendp
                            THEN Saved(f) \union {idx} ELSE Saved(f)
<1>1. Used' = Used /\ Oldest' = Oldest /\ idx = At(Oldest, Used - 1) /\ Used >= 1 /\ Used \in Nat
  BY FlagRing, RingTyped
<1>2. InUse' = InUse
  BY <1>1 DEF InUse, FillFlag
<1>3. idx \in InUse
  <2>1. Used - 1 \in 0 .. Used - 1
    BY <1>1
  <2> QED
    BY <1>1, <2>1, InUseAt
<1>4. /\ opc = "flag" /\ opc' # "flag"
      /\ txpbufs' = [txpbufs EXCEPT ![idx] = IF seg = Chain[sendp] THEN sendp ELSE NoFrame]
  BY DEF FillFlag
<1>5. idx \in Index /\ InUse \subseteq Index /\ f # NoFrame
  BY SavedFinite, RingTyped, ChainTyped
<1>6. \A i \in Index : txpbufs'[i] = IF i = idx THEN (IF seg = Chain[sendp] THEN sendp ELSE NoFrame)
                                     ELSE txpbufs[i]
  BY <1>4, RingTyped
<1> QED
  BY <1>2, <1>3, <1>4, <1>5, <1>6 DEF Saved

LEMMA ReclaimSaved ==
    ASSUME TypeOK, OutputInv, RingInv, Reclaim, UNCHANGED <<output, engine>>, NEW f \in Sent
    PROVE  /\ Saved(f)' = Saved(f) \ {ridx}
           /\ ridx \in Saved(f) <=> f = txpbufs[ridx]
<1>1. /\ Used \in 1 .. N /\ Used' = Used - 1 /\ ridx = At(Oldest, 0)
      /\ \A j \in 0 .. N - 1 : At(Oldest', j) = At(Oldest, j + 1)
      /\ opc # "flag" /\ opc' = opc
  BY ReclaimRing
<1>2. txpbufs' = txpbufs
  BY DEF Reclaim
<1>3. ridx \in InUse
  <2>1. 0 \in 0 .. Used - 1
    BY <1>1
  <2> QED
    BY <1>1, <2>1, InUseAt
<1>4. InUse' = InUse \ {ridx}
  <2>1. ASSUME NEW i \in InUse' PROVE i \in InUse \ {ridx}
    <3>1. PICK j \in 0 .. Used' - 1 : i = At(Oldest', j)
      <4>1. PICK j \in 0 .. N - free' - 1 : i = (Oldest' + j) % N
        BY <2>1 DEF InUse
      <4>2. j \in 0 .. Used' - 1
        BY <4>1 DEF Used
      <4> QED
        BY <4>1, <4>2 DEF At
    <3>2. /\ j \in 0 .. N - 1 /\ j + 1 \in 0 .. Used - 1 /\ j + 1 \in 0 .. N - 1
          /\ 0 \in 0 .. N - 1 /\ j + 1 # 0
      BY <1>1, RingTyped
    <3>3. i = At(Oldest, j + 1)
      BY <1>1, <3>1, <3>2
    <3>4. At(Oldest, j + 1) # At(Oldest, 0)
      BY <3>2, AtApart, RingTyped
    <3>5. i \in InUse
      BY <3>2, <3>3, InUseAt
    <3> QED
      BY <1>1, <3>3, <3>4, <3>5
  <2>2. ASSUME NEW i \in InUse, i # ridx PROVE i \in InUse'
    <3>1. PICK j \in 0 .. Used - 1 : i = At(Oldest, j)
      BY <2>2, InUseAt
    <3>2. j - 1 \in 0 .. Used' - 1 /\ j - 1 \in 0 .. N - 1 /\ (j - 1) + 1 = j
      BY <1>1, <2>2, <3>1, RingTyped
    <3>3. i = At(Oldest', j - 1)
      BY <1>1, <3>1, <3>2
    <3>4. j - 1 \in 0 .. N - free' - 1
      BY <3>2 DEF Used
    <3> QED
      BY <3>3, <3>4 DEF InUse, At
  <2> QED
    BY <2>1, <2>2
<1>5. \A i \in InUse : i \in Saved(f) <=> f = txpbufs[i]
  BY <1>1 DEF Saved
<1>6. Saved(f)' = {i \in InUse \ {ridx} : txpbufs[i] = f}
  BY <1>1, <1>2, <1>4 DEF Saved
<1>7. Saved(f) = {i \in InUse : txpbufs[i] = f}
  BY <1>1 DEF Saved
<1> QED
  BY <1>3, <1>6, <1>7

(***************************************************************************)
(* Every step keeps the invariant.  First the engine and the handler.      *)
(***************************************************************************)
LEMMA CountQuiet ==
    ASSUME TypeOK, RefsCounted, Quiet, ref' = ref, held' = held,
           \A f \in Sent : NotYetSaved(f)' <=> NotYetSaved(f)
    PROVE  RefsCounted'
  BY QuietSaved DEF RefsCounted, RefOf

(* The engine runs out of descriptors between two frames only. *)
LEMMA SuspendedBetween ==
    ASSUME TypeOK, OutputInv, RingInv, ~own[pos]
    PROVE  sending = <<>>
<1>1. PICK k \in 0 .. N : OwnAt(k) /\ FramesAt(k)
  BY DEF RingInv
<1>2. SUFFICES ASSUME k < Full PROVE FALSE
  BY <1>1 DEF FramesAt
<1>3. k \in 0 .. Used - 1 /\ k # Full
  BY <1>1, <1>2, RingTyped, PartTyped DEF OwnAt
<1>4. own[At(Oldest, k)]
  BY <1>1, <1>3 DEF OwnAt
<1> QED
  BY <1>1, <1>4 DEF OwnAt

LEMMA DmaInv ==
    ASSUME Inv, Dma
    PROVE  Inv'
<1> USE DEF Inv
<1>1. CASE DmaSend
  <2>1. /\ RingInv' /\ pos' \in Index /\ own' \in [Index -> BOOLEAN]
        /\ sending' \in Seq(Segment) /\ wire' \in Seq(Segment \union {<<>>})
    BY <1>1, SendRing
  <2>2. /\ UNCHANGED <<flags, addr, txpbufs, free, output, clean, handler, pbufs,
                       mutex, cleanSem, stat>>
        /\ dma = "run" /\ dma' \in {"run", "status"}
    BY <1>1 DEF DmaSend
  <2>3. sending' \in Seq(Segment \union {<<>>})
    BY <2>1
  <2>4. TypeOK'
    BY <2>1, <2>2, <2>3 DEF TypeOK, output, clean, handler, pbufs
  <2>5. Used' = Used /\ Oldest' = Oldest /\ Full' = Full
    BY <2>2 DEF output, clean, Used, Oldest, Full, Part
  <2>6. OutputInv'
    BY <2>2, <2>5 DEF OutputInv, output, clean, At
  <2>7. \A f \in Sent : Saved(f)' = Saved(f) /\ (NotYetSaved(f)' <=> NotYetSaved(f))
    BY <2>2, <2>5 DEF Saved, InUse, NotYetSaved, output
  <2>8. RefsCounted'
    BY <2>2, <2>7 DEF RefsCounted, RefOf, pbufs
  <2> QED
    BY <2>1, <2>4, <2>6, <2>8
<1>2. CASE DmaStatus \/ DmaSuspend
  <2>1. /\ UNCHANGED <<ring, output, clean, handler, pbufs, mutex, cleanSem, pos,
                       sending, wire>>
        /\ stat' \subseteq {"TI", "TU"} /\ dma' \in {"run", "suspended"}
        /\ dma' = "suspended" => sending = <<>>
    BY <1>2, SuspendedBetween DEF DmaStatus, DmaSuspend, TypeOK
  <2>2. Quiet
    BY <2>1 DEF Quiet, ring, output, clean, Oldest, NextFill, Part
  <2>3. TypeOK'
    BY <2>1 DEF TypeOK, ring, output, clean, handler, pbufs
  <2>4. Used' = Used /\ Oldest' = Oldest /\ Full' = Full
    BY <2>2 DEF Used, Full, Quiet
  <2>5. OutputInv'
    BY <2>1, <2>4 DEF OutputInv, ring, output, clean, At
  <2>6. RefsCounted'
    <3>1. \A f \in Sent : NotYetSaved(f)' <=> NotYetSaved(f)
      BY <2>1 DEF NotYetSaved, output
    <3> QED
      BY <2>1, <2>2, <3>1, CountQuiet DEF pbufs
  <2> QED
    BY <2>2, <2>3, <2>5, <2>6, QuietRing
<1> QED
  BY <1>1, <1>2 DEF Dma

(* A step that changes nothing that the invariant relates. *)
LEMMA ElsewhereInv ==
    ASSUME Inv, UNCHANGED <<ring, output, clean, pbufs, mutex, dma, pos, sending, wire>>,
           cleanSem' \in BOOLEAN, isr' \in {"none", "give", "clear"},
           ints' \subseteq {"TI", "TU"}, stat' \subseteq {"TI", "TU"}
    PROVE  Inv'
<1> USE DEF Inv
<1>1. Quiet
  BY DEF Quiet, ring, output, clean, Oldest, NextFill, Part
<1>2. TypeOK'
  BY DEF TypeOK, ring, output, clean, pbufs
<1>3. Used' = Used /\ Oldest' = Oldest /\ Full' = Full
  BY <1>1 DEF Used, Full, Quiet
<1>4. OutputInv'
  BY <1>3 DEF OutputInv, ring, output, clean, At
<1>5. RefsCounted'
  <2>1. \A f \in Sent : NotYetSaved(f)' <=> NotYetSaved(f)
    BY DEF NotYetSaved, output
  <2> QED
    BY <1>1, <2>1, CountQuiet DEF pbufs
<1> QED
  BY <1>1, <1>2, <1>4, <1>5, QuietRing

LEMMA IsrInv ==
    ASSUME Inv, Isr
    PROVE  Inv'
<1>1. /\ UNCHANGED <<ring, output, clean, pbufs, mutex, dma, pos, sending, wire>>
      /\ cleanSem' \in BOOLEAN /\ isr' \in {"none", "give", "clear"}
      /\ ints' \subseteq {"TI", "TU"} /\ stat' \subseteq {"TI", "TU"}
  <2>1. /\ cleanSem \in BOOLEAN /\ ints \subseteq {"TI", "TU"}
        /\ stat \subseteq {"TI", "TU"}
    BY DEF Inv, TypeOK
  <2>2. CASE IsrRead
    BY <2>1, <2>2 DEF IsrRead, engine
  <2>3. CASE IsrGive
    BY <2>1, <2>3 DEF IsrGive, engine
  <2>4. CASE IsrClear
    BY <2>1, <2>4 DEF IsrClear
  <2> QED
    BY <2>2, <2>3, <2>4 DEF Isr
<1> QED
  BY <1>1, ElsewhereInv

(***************************************************************************)
(* The thread.                                                             *)
(***************************************************************************)
(* A count that is right is in its type. *)
LEMMA CountsTyped ==
    ASSUME RefsCounted', \A f \in Sent : Saved(f)' \in SUBSET Index,
           ref' = [f \in Sent |-> ref'[f]]
    PROVE  ref' \in [Sent -> 0 .. N + 2]
<1> SUFFICES ASSUME NEW f \in Sent PROVE ref'[f] \in 0 .. N + 2
  OBVIOUS
<1>1. N \in Nat
  BY EmacTxAssumption
<1>2. Cardinality(Saved(f)') \in 0 .. N
  BY CountTyped
<1>3. ref'[f] = (IF f \in Frame /\ held'[f] THEN 1 ELSE 0) + (IF NotYetSaved(f)' THEN 1 ELSE 0)
                + Cardinality(Saved(f)')
  BY DEF RefsCounted, RefOf
<1> QED
  BY <1>1, <1>2, <1>3

(* What a chain has without its frames in the ring. *)
LEMMA RefParts ==
    ASSUME TypeOK, RefsCounted, NEW f \in Sent
    PROVE  \E n \in 0 .. N :
             /\ n = Cardinality(Saved(f))
             /\ ref[f] = (IF f \in Frame /\ held[f] THEN 1 ELSE 0)
                         + (IF NotYetSaved(f) THEN 1 ELSE 0) + n
<1>1. Cardinality(Saved(f)) \in 0 .. N
  BY SavedFinite
<1> QED
  BY <1>1 DEF RefsCounted, RefOf

LEMMA CallInv ==
    ASSUME Inv, Call, UNCHANGED <<engine, clean, handler, cleanSem>>
    PROVE  Inv'
<1> USE DEF Inv
<1>1. /\ UNCHANGED <<ring, mutex, clean, handler, cleanSem, engine, seg, fill>>
      /\ opc \in {"idle", "wait"} /\ seg = 0 /\ seg' = 0
  BY DEF Call, StackAlloc, StackFree, OutputCall, OutputCallSlow, OutputWait, output, OutputInv
<1>2. /\ opc' \in {"idle", "wait", "lock"} /\ idx' \in Index
      /\ sendp' \in Sent \union {NoFrame} /\ (opc' = "idle" <=> sendp' = NoFrame)
      /\ opc' = "lock" => idx' = fill /\ free >= Chain[sendp']
      /\ held' \in [Frame -> BOOLEAN] /\ ref' = [f \in Sent |-> ref'[f]]
  <2>1. /\ TypeOK /\ Frame \subseteq Sent /\ Copy \subseteq Sent /\ NoFrame \notin Sent
        /\ (opc = "idle" <=> sendp = NoFrame)
    BY EmacTxAssumption DEF Sent, OutputInv
  <2>2. CASE \E f \in Frame : StackAlloc(f)
    BY <2>1, <2>2 DEF StackAlloc, output, TypeOK
  <2>3. CASE \E f \in Frame : StackFree(f)
    BY <2>1, <2>3 DEF StackFree, output, TypeOK
  <2>4. CASE \E f \in Frame : OutputCall(f)
    BY <2>1, <2>4 DEF OutputCall, pbufs, TypeOK
  <2>5. CASE \E c \in Copy : OutputCallSlow(c)
    <3>1. PICK c \in Copy : OutputCallSlow(c)
      BY <2>5
    <3>2. /\ ref' = [ref EXCEPT ![c] = 1] /\ sendp' = c /\ c \in Sent /\ c # NoFrame
          /\ opc' = "wait" /\ idx' = idx /\ held' = held
      BY <2>1, <3>1 DEF OutputCallSlow
    <3>3. ref' = [f \in Sent |-> ref'[f]]
      BY <2>1, <3>2 DEF TypeOK
    <3> QED
      BY <2>1, <3>2, <3>3 DEF TypeOK
  <2>6. CASE OutputWait
    BY <2>1, <2>6 DEF OutputWait, pbufs, TypeOK
  <2> QED
    BY <2>2, <2>3, <2>4, <2>5, <2>6 DEF Call
<1>3. Quiet
  <2>1. Part = 0 /\ Part' = 0 /\ NextFill' = NextFill /\ Oldest' = Oldest
    BY <1>1, <1>2 DEF Part, NextFill, Oldest, clean
  <2> QED
    BY <1>1, <1>2, <2>1 DEF Quiet, ring, engine
<1>4. RingInv' /\ \A f \in Sent : Saved(f)' = Saved(f) /\ Saved(f)' \in SUBSET Index
  BY <1>3, QuietRing, QuietSaved, SavedFinite
<1>5. OutputInv'
  BY <1>1, <1>2 DEF OutputInv, ring, clean, engine
<1>6. \A f \in Sent : /\ NotYetSaved(f) <=> sendp = f /\ f \in Copy
                      /\ NotYetSaved(f)' <=> sendp' = f /\ f \in Copy
  BY <1>1, <1>2, EmacTxAssumption DEF NotYetSaved, OutputInv
<1>7. RefsCounted'
  <2> SUFFICES ASSUME NEW f \in Sent PROVE ref'[f] = RefOf(f)'
    BY DEF RefsCounted
  <2>1. PICK n \in 0 .. N :
          /\ n = Cardinality(Saved(f)) /\ n = Cardinality(Saved(f)')
          /\ ref[f] = (IF f \in Frame /\ held[f] THEN 1 ELSE 0)
                      + (IF NotYetSaved(f) THEN 1 ELSE 0) + n
    BY <1>4, RefParts
  <2>2. SUFFICES ref'[f] = (IF f \in Frame /\ held'[f] THEN 1 ELSE 0)
                           + (IF NotYetSaved(f)' THEN 1 ELSE 0) + n
    BY <2>1 DEF RefOf
  <2>3. /\ N \in Nat /\ n >= 0 /\ n \in Int
        /\ ref \in [Sent -> 0 .. N + 2] /\ held \in [Frame -> BOOLEAN]
        /\ Frame \subseteq Sent /\ Copy \subseteq Sent /\ Frame \intersect Copy = {}
        /\ NoFrame \notin Sent
    BY RingTyped, EmacTxAssumption DEF TypeOK, Sent
  <2>4. ASSUME NEW g \in Frame, StackAlloc(g) PROVE ref'[f] =
          (IF f \in Frame /\ held'[f] THEN 1 ELSE 0) + (IF NotYetSaved(f)' THEN 1 ELSE 0) + n
    <3>1. /\ ref[g] = 0 /\ held' = [held EXCEPT ![g] = TRUE]
          /\ ref' = [ref EXCEPT ![g] = 1] /\ sendp' = sendp
      BY <2>4 DEF StackAlloc, output
    <3>2. NotYetSaved(f)' <=> NotYetSaved(f)
      BY <1>6, <3>1
    <3> QED
      BY <2>1, <2>3, <3>1, <3>2
  <2>5. ASSUME NEW g \in Frame, StackFree(g) PROVE ref'[f] =
          (IF f \in Frame /\ held'[f] THEN 1 ELSE 0) + (IF NotYetSaved(f)' THEN 1 ELSE 0) + n
    <3>1. /\ held[g] /\ held' = [held EXCEPT ![g] = FALSE]
          /\ ref' = [ref EXCEPT ![g] = @ - 1] /\ sendp' = sendp
      BY <2>5 DEF StackFree, output
    <3>2. NotYetSaved(f)' <=> NotYetSaved(f)
      BY <1>6, <3>1
    <3> QED
      BY <2>1, <2>3, <3>1, <3>2
  <2>6. ASSUME NEW g \in Frame, OutputCall(g) PROVE ref'[f] =
          (IF f \in Frame /\ held'[f] THEN 1 ELSE 0) + (IF NotYetSaved(f)' THEN 1 ELSE 0) + n
    <3>1. held' = held /\ ref' = ref /\ sendp' = g /\ sendp = NoFrame
      BY <2>6 DEF OutputCall, pbufs, OutputInv
    <3>2. ~NotYetSaved(f)' /\ ~NotYetSaved(f)
      BY <1>6, <2>3, <3>1
    <3> QED
      BY <2>1, <2>3, <3>1, <3>2
  <2>7. ASSUME NEW c \in Copy, OutputCallSlow(c) PROVE ref'[f] =
          (IF f \in Frame /\ held'[f] THEN 1 ELSE 0) + (IF NotYetSaved(f)' THEN 1 ELSE 0) + n
    <3>1. /\ held' = held /\ ref[c] = 0 /\ ref' = [ref EXCEPT ![c] = 1]
          /\ sendp' = c /\ sendp = NoFrame
      BY <2>7 DEF OutputCallSlow, OutputInv
    <3>2. ~NotYetSaved(f) /\ (NotYetSaved(f)' <=> f = c)
      BY <1>6, <2>3, <3>1
    <3> QED
      BY <2>1, <2>3, <3>1, <3>2
  <2>8. ASSUME OutputWait PROVE ref'[f] =
          (IF f \in Frame /\ held'[f] THEN 1 ELSE 0) + (IF NotYetSaved(f)' THEN 1 ELSE 0) + n
    <3>1. held' = held /\ ref' = ref /\ sendp' = sendp
      BY <2>8 DEF OutputWait, pbufs
    <3>2. NotYetSaved(f)' <=> NotYetSaved(f)
      BY <1>6, <3>1
    <3> QED
      BY <2>1, <3>1, <3>2
  <2> QED
    BY <2>4, <2>5, <2>6, <2>7, <2>8 DEF Call
<1>8. TypeOK'
  <2>1. ref' \in [Sent -> 0 .. N + 2]
    BY <1>2, <1>4, <1>7, CountsTyped
  <2> QED
    BY <1>1, <1>2, <2>1 DEF TypeOK, ring, clean, handler, engine
<1> QED
  BY <1>4, <1>5, <1>7, <1>8

LEMMA LockInv ==
    ASSUME Inv, OutputLock, UNCHANGED <<engine, clean, handler, cleanSem>>
    PROVE  Inv'
<1> USE DEF Inv
<1>1. /\ opc = "lock" /\ mutex = "none" /\ mutex' = "output" /\ opc' = "fill" /\ seg' = 1
      /\ UNCHANGED <<ring, sendp, idx, fill, pbufs, engine, clean, handler, cleanSem>>
      /\ idx = fill /\ free >= Chain[sendp]
  BY DEF OutputLock, OutputInv
<1>2. sendp \in Sent /\ Chain[sendp] \in 1 .. N /\ N \in Nat
  BY <1>1, PartTyped, ChainTyped, RingTyped
<1>3. Part = 0 /\ Part' = 0 /\ NextFill = fill /\ NextFill' = fill
  BY <1>1 DEF Part, NextFill
<1>4. Quiet
  BY <1>1, <1>3 DEF Quiet, ring, clean, engine, Oldest
<1>5. RingInv' /\ \A f \in Sent : Saved(f)' = Saved(f) /\ Saved(f)' \in SUBSET Index
  BY <1>4, QuietRing, QuietSaved, SavedFinite
<1>6. fill = At(Oldest, Full) /\ Full' = Full /\ Oldest' = Oldest
  <2>1. Full = Used /\ Full' = Used
    BY <1>1, <1>3, RingTyped DEF Full, Used, ring
  <2> QED
    BY <1>3, <1>4, <2>1 DEF RingInv, OwnAt, Quiet
<1>7. OutputInv'
  <2>1. 1 \in 1 .. Chain[sendp] /\ (Chain[sendp] - 1) + 1 = Chain[sendp] /\ free' = free
    BY <1>1, <1>2 DEF ring
  <2>2. mutex' # "clean" /\ cpc' # "loop" /\ dma' = dma /\ sending' = sending
    BY <1>1 DEF OutputInv, clean, engine
  <2>3. sendp # NoFrame
    BY <1>1 DEF OutputInv
  <2> QED
    BY <1>1, <1>6, <2>1, <2>2, <2>3 DEF OutputInv, At
<1>8. RefsCounted'
  <2>1. \A f \in Sent : NotYetSaved(f)' <=> NotYetSaved(f)
    BY <1>1 DEF NotYetSaved, OutputInv
  <2> QED
    BY <1>1, <1>4, <2>1, CountQuiet DEF pbufs
<1>9. TypeOK'
  <2>1. seg' \in 0 .. N
    BY <1>1, <1>2
  <2> QED
    BY <1>1, <2>1 DEF TypeOK, ring, pbufs, engine, clean, handler
<1> QED
  BY <1>5, <1>7, <1>8, <1>9

LEMMA FillInv ==
    ASSUME Inv, Fill, UNCHANGED <<engine, clean, handler, cleanSem>>
    PROVE  Inv'
<1> USE DEF Inv
<1>1. /\ opc = "fill" /\ opc' = "flag"
      /\ ref' = IF seg = 1 THEN [ref EXCEPT ![sendp] = IF sendp \in Copy THEN @ ELSE @ + 1]
                ELSE ref
      /\ UNCHANGED <<txpbufs, mutex, sendp, seg, idx, fill, held>>
      /\ UNCHANGED <<engine, clean, handler, cleanSem>>
  BY DEF Fill
<1>2. sendp \in Sent /\ seg \in 1 .. Chain[sendp] /\ seg \in Int
  BY <1>1, PartTyped DEF OutputInv, TypeOK
<1>3. /\ RingInv' /\ OutputInv' /\ free' \in 0 .. N
      /\ own' \in [Index -> BOOLEAN]
      /\ flags' \in [Index -> SUBSET {"FS", "LS"}]
      /\ addr' \in [Index -> Segment \union {<<>>}]
  BY FillRing
<1>4. \A f \in Sent : Saved(f)' = Saved(f) /\ Saved(f)' \in SUBSET Index
  BY FillSaved, SavedFinite
<1>5. /\ ref \in [Sent -> 0 .. N + 2] /\ ref' = [f \in Sent |-> ref'[f]]
      /\ \A f \in Sent : ref'[f] = IF seg = 1 /\ f = sendp /\ f \notin Copy
                                     THEN ref[f] + 1 ELSE ref[f]
  BY <1>1, <1>2 DEF TypeOK
<1>6. RefsCounted'
  <2> SUFFICES ASSUME NEW f \in Sent PROVE ref'[f] = RefOf(f)'
    BY DEF RefsCounted
  <2>1. PICK n \in 0 .. N :
          /\ n = Cardinality(Saved(f)) /\ n = Cardinality(Saved(f)')
          /\ ref[f] = (IF f \in Frame /\ held[f] THEN 1 ELSE 0)
                      + (IF NotYetSaved(f) THEN 1 ELSE 0) + n
    BY <1>4, RefParts
  <2>2. /\ NotYetSaved(f) <=> sendp = f /\ (f \in Copy \/ seg > 1)
        /\ NotYetSaved(f)' <=> sendp = f
    BY <1>1 DEF NotYetSaved
  <2>3. ref'[f] = (IF f \in Frame /\ held'[f] THEN 1 ELSE 0)
                  + (IF NotYetSaved(f)' THEN 1 ELSE 0) + n
    BY <1>1, <1>2, <1>5, <2>1, <2>2, RingTyped, SMTT(30)
  <2> QED
    BY <2>1, <2>3 DEF RefOf
<1>7. ref' \in [Sent -> 0 .. N + 2]
  BY <1>4, <1>5, <1>6, CountsTyped
<1>8. TypeOK'
  BY <1>1, <1>3, <1>7 DEF TypeOK, engine, clean, handler
<1> QED
  BY <1>3, <1>6, <1>8

LEMMA FlagInv ==
    ASSUME Inv, FillFlag, UNCHANGED <<engine, clean, handler, cleanSem>>
    PROVE  Inv'
<1> USE DEF Inv
<1> DEFINE last == seg = Chain[sendp]
<1>1. /\ opc = "flag" /\ opc' = IF last THEN "give" ELSE "fill"
      /\ seg' = IF last THEN 0 ELSE seg + 1
      /\ UNCHANGED <<own, addr, free, mutex, sendp, held, ref>>
      /\ UNCHANGED <<engine, clean, handler, cleanSem>>
  BY DEF FillFlag, pbufs
<1>2. sendp \in Sent /\ seg \in 1 .. Chain[sendp] /\ seg \in Int
  BY <1>1, PartTyped DEF OutputInv, TypeOK
<1>3. /\ RingInv' /\ OutputInv' /\ idx \in Index
      /\ flags' \in [Index -> SUBSET {"FS", "LS"}]
      /\ txpbufs' \in [Index -> Sent \union {NoFrame}]
      /\ fill' \in Index /\ idx' \in Index /\ seg' \in 0 .. N
  BY FlagRing, RingTyped
<1>4. \A f \in Sent : /\ idx \notin Saved(f)
                      /\ Saved(f)' = IF last /\ f = sendp THEN Saved(f) \union {idx} ELSE Saved(f)
                      /\ Saved(f)' \in SUBSET Index
  BY <1>3, FlagSaved, SavedFinite
<1>5. RefsCounted'
  <2> SUFFICES ASSUME NEW f \in Sent PROVE ref'[f] = RefOf(f)'
    BY DEF RefsCounted
  <2>1. PICK n \in 0 .. N :
          /\ n = Cardinality(Saved(f))
          /\ ref[f] = (IF f \in Frame /\ held[f] THEN 1 ELSE 0)
                      + (IF NotYetSaved(f) THEN 1 ELSE 0) + n
    BY RefParts
  <2>2. Cardinality(Saved(f)') = IF last /\ f = sendp THEN n + 1 ELSE n
    BY <1>4, <2>1, SavedFinite, FS_AddElement
  <2>3. /\ NotYetSaved(f) <=> sendp = f
        /\ NotYetSaved(f)' <=> sendp = f /\ ~last
    BY <1>1, <1>2 DEF NotYetSaved
  <2>4. ref'[f] = (IF f \in Frame /\ held'[f] THEN 1 ELSE 0)
                  + (IF NotYetSaved(f)' THEN 1 ELSE 0) + Cardinality(Saved(f)')
    <3>1. CASE last /\ f = sendp
      <4>1. NotYetSaved(f) /\ ~NotYetSaved(f)' /\ Cardinality(Saved(f)') = n + 1
        BY <2>2, <2>3, <3>1
      <4> QED
        BY <1>1, <2>1, <4>1, RingTyped
    <3>2. CASE ~(last /\ f = sendp)
      <4>1. (NotYetSaved(f) <=> NotYetSaved(f)') /\ Cardinality(Saved(f)') = n
        BY <2>2, <2>3, <3>2
      <4> QED
        BY <1>1, <2>1, <4>1, RingTyped
    <3> QED
      BY <3>1, <3>2
  <2> QED
    BY <2>4 DEF RefOf
<1>6. ref' \in [Sent -> 0 .. N + 2]
  BY <1>1 DEF TypeOK
<1>7. TypeOK'
  BY <1>1, <1>3, <1>6 DEF TypeOK, engine, clean, handler
<1> QED
  BY <1>3, <1>5, <1>7

LEMMA GiveInv ==
    ASSUME Inv, Give, UNCHANGED <<engine, clean, handler, cleanSem>>
    PROVE  Inv'
<1> USE DEF Inv
<1>1. /\ opc = "give" /\ opc' = "poll"
      /\ UNCHANGED <<flags, addr, txpbufs, free, mutex, sendp, seg, idx, fill, held, ref>>
      /\ UNCHANGED <<engine, clean, handler, cleanSem>>
  BY DEF Give, pbufs
<1>2. RingInv' /\ OutputInv' /\ Oldest' = Oldest /\ own' \in [Index -> BOOLEAN]
  BY GiveRing
<1>3. TypeOK'
  BY <1>1, <1>2 DEF TypeOK, engine, clean, handler
<1>4. \A f \in Sent : Saved(f)' = Saved(f) /\ (NotYetSaved(f)' <=> NotYetSaved(f))
  BY <1>1, <1>2 DEF Saved, InUse, NotYetSaved
<1>5. RefsCounted'
  BY <1>1, <1>4 DEF RefsCounted, RefOf
<1> QED
  BY <1>2, <1>3, <1>5

LEMMA ReturnInv ==
    ASSUME Inv, OutputReturn, UNCHANGED <<clean, handler, cleanSem>>
    PROVE  Inv'
<1> USE DEF Inv
<1>1. /\ opc = "poll" /\ opc' = "idle" /\ mutex = "output" /\ mutex' = "none"
      /\ sendp' = NoFrame /\ idx' = 0 /\ seg = 0
      /\ dma' = IF dma = "suspended" THEN "run" ELSE dma
      /\ UNCHANGED <<ring, seg, fill, pbufs, pos, stat, sending, wire, clean, handler, cleanSem>>
  BY DEF OutputReturn, OutputInv
<1>2. Quiet
  BY <1>1 DEF Quiet, ring, clean, Oldest, NextFill, Part
<1>3. 0 \in Index
  BY EmacTxAssumption DEF Index
<1>4. TypeOK'
  BY <1>1, <1>3 DEF TypeOK, ring, pbufs, clean, handler
<1>5. OutputInv'
  BY <1>1 DEF OutputInv, clean
<1>6. RefsCounted'
  <2>1. \A f \in Sent : NotYetSaved(f)' <=> NotYetSaved(f)
    BY <1>1 DEF NotYetSaved
  <2> QED
    BY <1>1, <1>2, <2>1, CountQuiet DEF pbufs
<1> QED
  BY <1>2, <1>4, <1>5, <1>6, QuietRing

LEMMA OutputStepInv ==
    ASSUME Inv, Output
    PROVE  Inv'
<1>1. UNCHANGED <<clean, handler, cleanSem>>
  BY DEF Output
<1>2. CASE Call /\ UNCHANGED engine
  BY <1>1, <1>2, CallInv
<1>3. CASE OutputLock /\ UNCHANGED engine
  BY <1>1, <1>3, LockInv
<1>4. CASE Fill /\ UNCHANGED engine
  BY <1>1, <1>4, FillInv
<1>5. CASE FillFlag /\ UNCHANGED engine
  BY <1>1, <1>5, FlagInv
<1>6. CASE Give /\ UNCHANGED engine
  BY <1>1, <1>6, GiveInv
<1>7. CASE OutputReturn
  BY <1>1, <1>7, ReturnInv
<1> QED
  BY <1>2, <1>3, <1>4, <1>5, <1>6, <1>7 DEF Output

(***************************************************************************)
(* The cleanup task.                                                       *)
(***************************************************************************)
LEMMA ReclaimInv ==
    ASSUME Inv, Reclaim, UNCHANGED <<output, handler, engine>>
    PROVE  Inv'
<1> USE DEF Inv
<1>1. /\ ref' = [f \in Sent |-> IF f = txpbufs[ridx] THEN ref[f] - 1 ELSE ref[f]]
      /\ UNCHANGED <<own, addr, txpbufs, cpc, reclaim, held, mutex, cleanSem>>
      /\ UNCHANGED <<output, handler, engine>>
  BY DEF Reclaim
<1>2. RingInv' /\ OutputInv' /\ free' \in 0 .. N /\ ridx' \in Index
      /\ flags' \in [Index -> SUBSET {"FS", "LS"}]
  BY ReclaimRing
<1>3. \A f \in Sent : /\ Saved(f)' = Saved(f) \ {ridx}
                      /\ ridx \in Saved(f) <=> f = txpbufs[ridx]
                      /\ Saved(f)' \in SUBSET Index
  BY ReclaimSaved, SavedFinite
<1>4. RefsCounted'
  <2> SUFFICES ASSUME NEW f \in Sent PROVE ref'[f] = RefOf(f)'
    BY DEF RefsCounted
  <2>1. PICK n \in 0 .. N :
          /\ n = Cardinality(Saved(f))
          /\ ref[f] = (IF f \in Frame /\ held[f] THEN 1 ELSE 0)
                      + (IF NotYetSaved(f) THEN 1 ELSE 0) + n
    BY RefParts
  <2>2. Cardinality(Saved(f)') = IF f = txpbufs[ridx] THEN n - 1 ELSE n
    <3>1. CASE f = txpbufs[ridx]
      BY <1>3, <2>1, <3>1, SavedFinite, FS_RemoveElement
    <3>2. CASE f # txpbufs[ridx]
      <4>1. Saved(f)' = Saved(f)
        BY <1>3, <3>2
      <4> QED
        BY <2>1, <3>2, <4>1
    <3> QED
      BY <3>1, <3>2
  <2>3. NotYetSaved(f)' <=> NotYetSaved(f)
    BY <1>1 DEF NotYetSaved, output
  <2>4. ref'[f] = (IF f \in Frame /\ held'[f] THEN 1 ELSE 0)
                  + (IF NotYetSaved(f)' THEN 1 ELSE 0) + Cardinality(Saved(f)')
    <3>1. ref'[f] = IF f = txpbufs[ridx] THEN ref[f] - 1 ELSE ref[f]
      BY <1>1
    <3> QED
      BY <1>1, <2>1, <2>2, <2>3, <3>1, RingTyped
  <2> QED
    BY <2>4 DEF RefOf
<1>5. ref' \in [Sent -> 0 .. N + 2]
  BY <1>1, <1>3, <1>4, CountsTyped
<1>6. TypeOK'
  BY <1>1, <1>2, <1>5 DEF TypeOK, output, handler, engine
<1> QED
  BY <1>2, <1>4, <1>6

LEMMA CleanInv ==
    ASSUME Inv, Clean
    PROVE  Inv'
<1> USE DEF Inv
<1>1. UNCHANGED <<output, handler, engine>>
  BY DEF Clean
<1>2. CASE Reclaim
  BY <1>1, <1>2, ReclaimInv
<1>3. CASE CleanWake \/ CleanLock \/ CleanUnlock
  <2>1. /\ UNCHANGED <<ring, pbufs>> /\ cleanSem' \in BOOLEAN
        /\ cpc' \in {"sleep", "lock", "loop"} /\ ridx' \in Index /\ reclaim' \in Index
        /\ Oldest' = Oldest
    BY <1>3 DEF CleanWake, CleanLock, CleanUnlock, TypeOK, Oldest
  <2>2. /\ mutex' \in {"none", "output", "clean"}
        /\ cpc' = "loop" <=> mutex' = "clean"
        /\ mutex' = "output" <=> mutex = "output"
    BY <1>3 DEF CleanWake, CleanLock, CleanUnlock, TypeOK, OutputInv
  <2>3. Quiet
    BY <1>1, <2>1 DEF Quiet, ring, output, engine, NextFill, Part
  <2>4. TypeOK'
    BY <1>1, <2>1, <2>2 DEF TypeOK, ring, output, handler, pbufs, engine
  <2>5. Used' = Used /\ Full' = Full
    BY <2>1, <2>3 DEF Used, Full, ring, Quiet
  <2>6. OutputInv'
    BY <1>1, <2>1, <2>2, <2>5 DEF OutputInv, ring, output, engine, At
  <2>7. RefsCounted'
    <3>1. \A f \in Sent : NotYetSaved(f)' <=> NotYetSaved(f)
      BY <1>1 DEF NotYetSaved, output
    <3> QED
      BY <2>1, <2>3, <3>1, CountQuiet DEF pbufs
  <2> QED
    BY <2>3, <2>4, <2>6, <2>7, QuietRing
<1> QED
  BY <1>2, <1>3 DEF Clean

(***************************************************************************)
(* The theorems.                                                           *)
(***************************************************************************)
LEMMA Start == Init => Inv
<1> SUFFICES ASSUME Init PROVE Inv
  OBVIOUS
<1>1. N \in Nat /\ N >= 1 /\ 0 \in Index /\ 0 \in 0 .. N /\ NoFrame \notin Sent
  BY EmacTxAssumption DEF Index
<1>2. <<>> \in Seq(Segment \union {<<>>})
  OBVIOUS
<1>3. TypeOK
  BY <1>1, <1>2 DEF Init, TypeOK
<1>4. Used = 0 /\ Part = 0 /\ Full = 0 /\ Oldest = 0 /\ NextFill = 0 /\ At(0, 0) = 0
  <2>1. Used = 0 /\ Part = 0 /\ Oldest = 0 /\ NextFill = 0
    BY <1>1 DEF Init, Used, Part, Oldest, NextFill
  <2>2. 0 \in 0 .. N - 1
    BY <1>1
  <2> QED
    BY <1>1, <2>1, <2>2, AtNext DEF Full
<1>5. OwnAt(0) /\ FramesAt(0)
  <2>1. (0 .. 0 - 1) = {}
    OBVIOUS
  <2>2. OwnAt(0)
    BY <1>1, <1>4, <2>1 DEF Init, OwnAt
  <2>3. FramesAt(0)
    BY <1>4, <2>1 DEF Init, FramesAt
  <2> QED
    BY <2>2, <2>3
<1>6. OutputInv
  BY <1>1 DEF Init, OutputInv
<1>7. RefsCounted
  <2> SUFFICES ASSUME NEW f \in Sent PROVE ref[f] = RefOf(f)
    BY DEF RefsCounted
  <2>1. (0 .. N - free - 1) = {}
    BY <1>1 DEF Init
  <2>2. Cardinality(Saved(f)) = 0
    BY <2>1, FS_EmptySet DEF Saved, InUse
  <2>3. ~NotYetSaved(f) /\ ~(f \in Frame /\ held[f]) /\ ref[f] = 0
    BY <1>1 DEF Init, NotYetSaved
  <2> QED
    BY <2>2, <2>3 DEF RefOf
<1> QED
  BY <1>1, <1>3, <1>5, <1>6, <1>7 DEF Inv, RingInv

(* The invariant is inductive. *)
THEOREM Invariant == Spec => []Inv
<1>1. Init => Inv
  BY Start
<1>2. Inv /\ [Next]_vars => Inv'
  <2> SUFFICES ASSUME Inv, [Next]_vars PROVE Inv'
    OBVIOUS
  <2>1. CASE UNCHANGED vars
    <3>1. /\ UNCHANGED <<ring, output, clean, pbufs, mutex, dma, pos, sending, wire>>
          /\ UNCHANGED <<cleanSem, isr, ints, stat>>
      BY <2>1 DEF vars, engine, handler
    <3> QED
      BY <3>1, ElsewhereInv DEF Inv, TypeOK
  <2> QED
    BY <2>1, DmaInv, IsrInv, OutputStepInv, CleanInv DEF Next
<1> QED
  BY <1>1, <1>2, PTL DEF Spec

(* Indices, counts and references stay in their ranges; what the engine    *)
(* reads are segments of chains, never the contents of an unused           *)
(* descriptor (lpc18xx_43xx_emac.c:365-519, 743-793).                      *)
THEOREM TypeCorrect == Spec => []TypeOK
<1>1. Inv => TypeOK
  BY DEF Inv
<1> QED
  BY <1>1, Invariant, PTL

(* Indices, count and engine agree, and the engine never runs out of       *)
(* descriptors within a frame (lpc18xx_43xx_emac.c:438-507, 743-793).      *)
THEOREM RingCorrect == Spec => []RingConsistent
<1>1. Inv => RingConsistent
  <2> SUFFICES ASSUME Inv PROVE RingConsistent
    OBVIOUS
  <2> USE DEF Inv
  <2>1. PICK k \in 0 .. N : OwnAt(k) /\ FramesAt(k)
    BY DEF RingInv
  <2>2. (Oldest + (N - free)) % N = NextFill
    BY <2>1 DEF OwnAt, At, Used
  <2>3. ASSUME NEW i \in Index \ InUse PROVE ~own[i] /\ flags[i] = {}
    BY <2>1, InUseAt DEF OwnAt
  <2>4. k \in 0 .. N - free /\ pos = (Oldest + k) % N
    <3>1. k \in 0 .. Used
      BY <2>1, PartTyped, RingTyped DEF OwnAt
    <3> QED
      BY <2>1, <3>1 DEF OwnAt, At, Used
  <2>5. ASSUME NEW j \in 0 .. k - 1 PROVE ~own[(Oldest + j) % N]
    <3>1. j \in 0 .. Used - 1 /\ ~(j >= k)
      BY <2>4, RingTyped DEF Used
    <3>2. ~own[At(Oldest, j)]
      BY <2>1, <3>1 DEF OwnAt
    <3> QED
      BY <3>2 DEF At
  <2>6. dma = "suspended" => sending = <<>>
    BY DEF OutputInv
  <2> QED
    BY <2>2, <2>3, <2>4, <2>5, <2>6 DEF RingConsistent
<1> QED
  BY <1>1, Invariant, PTL

(* A chain has one reference for the stack and one for each frame in the   *)
(* ring or being put there, and the engine reads no buffer that was freed  *)
(* (lpc18xx_43xx_emac.c:445-477, 777-780).                                 *)
THEOREM RefsCorrect == Spec => []RefsExact
<1>1. Inv => RefsExact
  <2> SUFFICES ASSUME Inv PROVE RefsExact
    OBVIOUS
  <2> USE DEF Inv
  <2>1. PICK k \in 0 .. N : OwnAt(k) /\ FramesAt(k)
    BY DEF RingInv
  <2>2. ASSUME NEW i \in Index, own[i] PROVE ref[addr[i][1]] > 0
    <3>1. PICK j \in 0 .. Used - 1 : i = At(Oldest, j)
      BY <2>1, <2>2 DEF OwnAt
    <3>2. j >= k /\ j # Full
      BY <2>1, <2>2, <3>1 DEF OwnAt
    <3> DEFINE f == addr[i][1]
    <3>3. SUFFICES f \in Sent /\ (Saved(f) # {} \/ NotYetSaved(f))
      <4>1. PICK n \in 0 .. N :
              /\ n = Cardinality(Saved(f))
              /\ ref[f] = (IF f \in Frame /\ held[f] THEN 1 ELSE 0)
                          + (IF NotYetSaved(f) THEN 1 ELSE 0) + n
        BY <3>3, RefParts
      <4>2. Saved(f) # {} => n # 0
        BY <3>3, <4>1, SavedFinite, FS_EmptySet
      <4> QED
        BY <3>3, <4>1, <4>2, RingTyped
    <3>4. ASSUME NEW l \in 0 .. Used - 1, NEW g \in Sent, txpbufs[At(Oldest, l)] = g,
                 opc = "flag" => l # Used - 1
          PROVE  Saved(g) # {}
      <4>1. At(Oldest, l) \in InUse
        BY InUseAt
      <4>2. ~(opc = "flag" /\ At(Oldest, l) = idx)
        <5>1. SUFFICES ASSUME opc = "flag", At(Oldest, l) = idx PROVE FALSE
          OBVIOUS
        <5>2. idx = At(Oldest, Used - 1) /\ l \in 0 .. N - 1 /\ Used - 1 \in 0 .. N - 1
          BY <5>1, RingTyped DEF OutputInv
        <5> QED
          BY <3>4, <5>1, <5>2, AtApart, RingTyped
      <4> QED
        BY <3>4, <4>1, <4>2 DEF Saved
    <3>5. CASE j < Full
      <4>1. j \in k .. Full - 1
        BY <2>1, <3>2, <3>5, PartTyped, RingTyped
      <4>2. WholeAt(j)
        BY <2>1, <4>1 DEF FramesAt
      <4>3. f \in Sent /\ \E l \in j .. Full - 1 : txpbufs[At(Oldest, l)] = f
        BY <3>1, <4>2 DEF WholeAt, SegmentAt, Segment
      <4>4. \A l \in j .. Full - 1 : l \in 0 .. Used - 1 /\ (opc = "flag" => l # Used - 1)
        <5>1. opc = "flag" => Part >= 1
          BY DEF Part, OutputInv
        <5> QED
          BY <4>1, <5>1, PartTyped, RingTyped, SMTT(30)
      <4> QED
        BY <3>4, <4>3, <4>4
    <3>6. CASE j > Full
      <4>1. j \in Full .. Used - 1
        BY <3>6, PartTyped, RingTyped
      <4>2. PartAt(j)
        BY <2>1, <4>1 DEF FramesAt
      <4>3. Part >= 2
        BY <3>6, <4>1, PartTyped, RingTyped
      <4>4. f = sendp /\ sendp \in Sent /\ opc \in {"fill", "flag", "give"}
        BY <3>1, <4>2, <4>3, PartTyped DEF PartAt, Part, TypeOK, OutputInv
      <4>5. CASE opc \in {"fill", "flag"}
        <5>1. opc = "fill" => seg > 1
          BY <4>3 DEF Part, TypeOK
        <5> QED
          BY <4>4, <4>5, <5>1 DEF NotYetSaved
      <4>6. CASE opc = "give"
        <5>1. /\ Used - 1 \in Full .. Used - 1 /\ Used - 1 \in 0 .. Used - 1
              /\ ((Used - 1) - Full) + 1 = Chain[sendp]
          <6>1. Part = Chain[sendp]
            BY <4>6 DEF Part
          <6>2. Used \in Nat /\ Full \in Int /\ Part \in 0 .. N /\ N \in Nat /\ Full = Used - Part
            BY PartTyped, RingTyped
          <6>3. Part >= 2 /\ Full >= 0
            BY <2>1, <4>3, PartTyped DEF OwnAt
          <6>4. Used - 1 \in Full .. Used - 1 /\ Used - 1 \in 0 .. Used - 1 /\ ((Used - 1) - Full) + 1 = Part
            BY <6>2, <6>3
          <6> QED
            BY <6>1, <6>4
        <5>2. PartAt(Used - 1)
          BY <2>1, <5>1 DEF FramesAt
        <5>3. txpbufs[At(Oldest, Used - 1)] = sendp
          BY <4>6, <5>1, <5>2 DEF PartAt
        <5> QED
          BY <3>4, <4>4, <4>6, <5>1, <5>3
      <4> QED
        BY <4>4, <4>5, <4>6
    <3> QED
      BY <3>2, <3>5, <3>6, PartTyped
  <2> QED
    BY <2>2 DEF RefsExact, RefsCounted, RefOf
<1> QED
  BY <1>1, Invariant, PTL

(***************************************************************************)
(* The refinement.  The segments that the engine was given are those of    *)
(* the descriptors from its own to the end of the last whole frame.        *)
(***************************************************************************)
LEMMA AtAdd ==
    ASSUME NEW g \in Index, NEW a \in 0 .. N, NEW b \in 0 .. N, a + b <= N
    PROVE  At(At(g, a), b) = At(g, a + b)
<1>1. N \in Nat /\ N >= 1 /\ g \in 0 .. N - 1 /\ a + b \in 0 .. N
  BY EmacTxAssumption DEF Index
<1>2. At(g, a) \in Index /\ At(g, a) = IF g + a < N THEN g + a ELSE (g + a) - N
  BY AtValue
<1>3. At(g, a + b) = IF g + (a + b) < N THEN g + (a + b) ELSE (g + (a + b)) - N
  BY <1>1, AtValue
<1>4. At(At(g, a), b) = IF At(g, a) + b < N THEN At(g, a) + b ELSE (At(g, a) + b) - N
  BY <1>2, AtValue
<1> DEFINE x == At(g, a)
<1> HIDE DEF x
<1>5. x \in 0 .. N - 1 /\ x = IF g + a < N THEN g + a ELSE (g + a) - N
  BY <1>2 DEF x, Index
<1>6. (IF x + b < N THEN x + b ELSE (x + b) - N)
      = IF g + (a + b) < N THEN g + (a + b) ELSE (g + (a + b)) - N
  <2>1. CASE g + a < N
    BY <1>1, <1>5, <2>1
  <2>2. CASE ~(g + a < N)
    BY <1>1, <1>5, <2>2
  <2> QED
    BY <2>1, <2>2
<1> QED
  BY <1>3, <1>4, <1>6 DEF x

(* The length of a run of owned descriptors. *)
LEMMA RunLength ==
    ASSUME NEW o \in [Index -> BOOLEAN], NEW p \in Index, NEW c \in 0 .. N,
           \A m \in 0 .. c - 1 : o[At(p, m)], c < N => ~o[At(p, c)]
    PROVE  Cardinality({j \in Index : \A k \in 0 .. j : o[(p + k) % N]}) = c
<1> DEFINE S == {j \in Index : \A k \in 0 .. j : o[(p + k) % N]}
<1>1. N \in Nat /\ N >= 1 /\ Index = 0 .. N - 1
  BY EmacTxAssumption DEF Index
<1>2. S = 0 .. c - 1
  <2>1. ASSUME NEW j \in 0 .. c - 1 PROVE j \in S
    <3>1. j \in Index /\ \A k \in 0 .. j : k \in 0 .. c - 1
      BY <1>1, <2>1
    <3> QED
      BY <3>1 DEF At
  <2>2. ASSUME NEW j \in S, j \notin 0 .. c - 1 PROVE FALSE
    <3>1. c < N /\ c \in 0 .. j
      BY <1>1, <2>2
    <3> QED
      BY <2>2, <3>1 DEF At
  <2> QED
    BY <1>1, <2>1, <2>2
<1>3. 0 \in Int /\ c - 1 \in Int
  BY <1>1
<1>4. Cardinality(0 .. c - 1) = IF 0 > c - 1 THEN 0 ELSE ((c - 1) - 0) + 1
  BY <1>3, FS_Interval
<1> HIDE DEF S
<1>5. Cardinality(S) = c
  BY <1>1, <1>2, <1>4
<1> QED
  BY <1>5 DEF S

LEMMA GivenNow ==
    ASSUME TypeOK, OutputInv, NEW k \in 0 .. N, OwnAt(k)
    PROVE  /\ Full - k \in 0 .. N /\ Full \in 0 .. N /\ Full <= Used /\ GivenCount = Full - k
           /\ \A m \in 0 .. Full - k - 1 : At(pos, m) = At(Oldest, k + m) /\ own[At(pos, m)]
           /\ Full - k < N => ~own[At(pos, Full - k)]
           /\ \A m \in 0 .. Used - k : At(pos, m) = At(Oldest, k + m)
<1>1. k \in 0 .. Full /\ Full \in 0 .. N /\ Full - k \in 0 .. N /\ Full <= Used
  BY PartTyped, RingTyped DEF OwnAt
<1>2. \A m \in 0 .. Used - k : At(pos, m) = At(Oldest, k + m)
  <2> SUFFICES ASSUME NEW m \in 0 .. Used - k PROVE At(pos, m) = At(Oldest, k + m)
    OBVIOUS
  <2>1. m \in 0 .. N /\ k + m <= N
    BY <1>1, RingTyped
  <2> QED
    BY <2>1, AtAdd, RingTyped DEF OwnAt
<1>3. \A m \in 0 .. Full - k - 1 : At(pos, m) = At(Oldest, k + m) /\ own[At(pos, m)]
  <2> SUFFICES ASSUME NEW m \in 0 .. Full - k - 1
               PROVE  At(pos, m) = At(Oldest, k + m) /\ own[At(pos, m)]
    OBVIOUS
  <2>1. k + m \in 0 .. Used - 1 /\ k + m >= k /\ k + m # Full /\ m \in 0 .. Used - k
    BY <1>1, RingTyped
  <2> QED
    BY <1>2, <2>1 DEF OwnAt
<1>4. Full - k < N => ~own[At(pos, Full - k)]
  <2>1. SUFFICES ASSUME Full - k < N PROVE ~own[At(Oldest, Full)]
    <3>1. Full - k \in 0 .. Used - k /\ k + (Full - k) = Full
      BY <1>1, RingTyped
    <3>2. At(pos, Full - k) = At(Oldest, Full)
      BY <1>2, <3>1
    <3> QED
      BY <2>1, <3>2
  <2>2. CASE Full < Used
    <3>1. Full \in 0 .. Used - 1
      BY <1>1, <2>2, RingTyped
    <3> QED
      BY <3>1 DEF OwnAt
  <2>3. CASE Full = Used /\ Used < N
    <3>1. At(Oldest, Full) \in Index
      BY <1>1, AtValue, RingTyped
    <3>2. \A j \in 0 .. Used - 1 : At(Oldest, Full) # At(Oldest, j)
      BY <1>1, <2>3, AtApart, RingTyped
    <3> QED
      BY <3>1, <3>2 DEF OwnAt
  <2>4. CASE Full = N
    <3>1. k >= 1 /\ 0 \in 0 .. Used - 1 /\ 0 \in 0 .. N - 1
      BY <1>1, <2>1, <2>4, RingTyped
    <3>2. ~own[At(Oldest, 0)]
      BY <3>1 DEF OwnAt
    <3>3. At(Oldest, N) = At(Oldest, 0)
      <4>1. N \in 0 .. N /\ 0 \in 0 .. N /\ Oldest \in 0 .. N - 1
        BY RingTyped DEF Index
      <4>2. /\ At(Oldest, N) = IF Oldest + N < N THEN Oldest + N ELSE (Oldest + N) - N
            /\ At(Oldest, 0) = IF Oldest + 0 < N THEN Oldest + 0 ELSE (Oldest + 0) - N
        BY <4>1, AtValue, RingTyped
      <4> QED
        BY <4>1, <4>2, RingTyped
    <3> QED
      BY <2>4, <3>2, <3>3
  <2> QED
    BY <1>1, <2>2, <2>3, <2>4, RingTyped
<1>5. GivenCount = Full - k
  BY <1>1, <1>3, <1>4, RunLength, RingTyped, ZenonT(30) DEF GivenCount
<1> QED
  BY <1>1, <1>2, <1>3, <1>4, <1>5

LEMMA GivenSegments ==
    ASSUME TypeOK, OutputInv, NEW k \in 0 .. N, OwnAt(k), FramesAt(k)
    PROVE  /\ Given \in Seq(Segment) /\ Len(Given) = Full - k
           /\ \A j \in 1 .. Full - k : /\ Given[j] = SegmentAt(k + (j - 1))
                                       /\ Given[j] = addr[At(pos, j - 1)]
<1>1. Full - k \in 0 .. N /\ GivenCount = Full - k
  BY GivenNow
<1>2. ASSUME NEW j \in 1 .. Full - k
      PROVE  /\ Given[j] = SegmentAt(k + (j - 1)) /\ Given[j] = addr[At(pos, j - 1)]
             /\ Given[j] \in Segment
  <2>1. j - 1 \in 0 .. Full - k - 1 /\ k + (j - 1) \in k .. Full - 1
    BY <1>1, PartTyped, RingTyped, SMTT(30)
  <2>2. At(pos, j - 1) = At(Oldest, k + (j - 1))
    BY <2>1, GivenNow
  <2>3. WholeAt(k + (j - 1))
    BY <2>1 DEF FramesAt
  <2> QED
    BY <1>1, <2>2, <2>3 DEF Given, WholeAt, SegmentAt, At
<1>3. Given \in [1 .. Full - k -> Segment] /\ Full - k \in Nat
  BY <1>1, <1>2, RingTyped DEF Given
<1> QED
  BY <1>2, <1>3

(* The engine takes one segment; with the last one the frame has left. *)
LEMMA SendLink ==
    ASSUME Inv, DmaSend
    PROVE  \/ \E f \in Sent : Link!Transmit(f)
           \/ UNCHANGED <<sending \o Given, wire>>
<1> USE DEF Inv
<1>1. PICK k \in 0 .. N : OwnAt(k) /\ FramesAt(k)
  BY DEF RingInv
<1>2. /\ own[pos] /\ own' = [own EXCEPT ![pos] = FALSE] /\ pos' = Succ(pos) /\ addr' = addr
  BY DEF DmaSend
<1>3. k \in 0 .. Full - 1 /\ k < Full
  BY <1>1, <1>2, OwnedPosition, PartTyped, RingTyped, SMTT(30) DEF OwnAt
<1> DEFINE c == Full - k
           s == SegmentAt(k)
           got == sending \o <<s>>
           h == [j \in 1 .. c - 1 |-> Given[j + 1]]
<1>4. /\ c \in 1 .. N /\ GivenCount = c
      /\ \A m \in 0 .. c - 1 : own[At(pos, m)]
      /\ c < N => ~own[At(pos, c)]
  BY <1>1, <1>3, GivenNow, PartTyped, RingTyped, SMTT(30)
<1>5. Given \in Seq(Segment) /\ Len(Given) = c /\ \A j \in 1 .. c : Given[j] = addr[At(pos, j - 1)]
  BY <1>1, GivenSegments
<1>6. /\ addr[pos] = s /\ s \in Segment /\ Len(sending) \in Nat
      /\ s[2] = Len(sending) + 1 /\ sending \in Seq(Segment)
      /\ got \in Seq(Segment) /\ Len(got) = s[2]
      /\ \A n \in 1 .. Len(got) : got[n] = <<s[1], n>>
      /\ (IF "FS" \in flags[pos] THEN <<>> ELSE sending) \o <<addr[pos]>> = got
      /\ "LS" \in flags[pos] <=> s[2] = Chain[s[1]]
  BY <1>1, <1>3, ReadSegments
<1> HIDE DEF c, s
<1>7. pos' \in Index /\ \A m \in 0 .. N - 1 : At(pos', m) = At(pos, m + 1)
  BY <1>2, AtNext, SuccValue, RingTyped
<1>8. own' \in [Index -> BOOLEAN]
  BY <1>2, RingTyped
<1>9. \A m \in 1 .. N - 1 : At(pos, m) \in Index /\ own'[At(pos, m)] = own[At(pos, m)]
  <2> SUFFICES ASSUME NEW m \in 1 .. N - 1
               PROVE  At(pos, m) \in Index /\ own'[At(pos, m)] = own[At(pos, m)]
    OBVIOUS
  <2>1. m \in 0 .. N /\ m \in 0 .. N - 1 /\ 0 \in 0 .. N - 1 /\ m # 0
    BY RingTyped
  <2>2. At(pos, m) \in Index /\ At(pos, m) # At(pos, 0) /\ At(pos, 0) = pos
    BY <2>1, AtValue, AtApart, AtNext, RingTyped
  <2> QED
    BY <1>2, <2>2, RingTyped
<1>10. c - 1 \in 0 .. N - 1 /\ c - 1 \in 0 .. N /\ (c - 1) + 1 = c
  BY <1>4, RingTyped
<1>11. \A m \in 0 .. (c - 1) - 1 : own'[At(pos', m)]
  <2> SUFFICES ASSUME NEW m \in 0 .. (c - 1) - 1 PROVE own'[At(pos', m)]
    OBVIOUS
  <2>1. m \in 0 .. N - 1 /\ m + 1 \in 1 .. N - 1 /\ m + 1 \in 0 .. c - 1
    BY <1>4, RingTyped
  <2> QED
    BY <1>4, <1>7, <1>9, <2>1
<1>12. ~own'[At(pos', c - 1)]
  <2>1. At(pos', c - 1) = At(pos, c)
    BY <1>7, <1>10
  <2>2. CASE c < N
    <3>1. c \in 1 .. N - 1
      BY <1>4, <2>2, RingTyped
    <3> QED
      BY <1>4, <1>9, <2>1, <2>2, <3>1
  <2>3. CASE c = N
    <3>1. At(pos, N) = pos
      <4>1. N \in 0 .. N /\ pos \in 0 .. N - 1
        BY RingTyped DEF Index
      <4>2. At(pos, N) = IF pos + N < N THEN pos + N ELSE (pos + N) - N
        BY <4>1, AtValue, RingTyped
      <4> QED
        BY <4>1, <4>2, RingTyped
    <3> QED
      BY <1>2, <2>1, <2>3, <3>1, RingTyped
  <2> QED
    BY <1>4, <2>2, <2>3, RingTyped
<1>13. GivenCount' = c - 1
  BY <1>7, <1>8, <1>10, <1>11, <1>12, RunLength DEF GivenCount
<1>14. Given' = h
  <2>1. ASSUME NEW j \in 1 .. c - 1 PROVE addr'[(pos' + (j - 1)) % N] = Given[j + 1]
    <3>1. j - 1 \in 0 .. N - 1 /\ (j - 1) + 1 = j /\ j + 1 \in 1 .. c /\ (j + 1) - 1 = j
      BY <1>4, RingTyped
    <3>2. At(pos', j - 1) = At(pos, j)
      BY <1>7, <3>1
    <3> QED
      BY <1>2, <1>5, <3>1, <3>2 DEF At
  <2> QED
    BY <1>13, <2>1 DEF Given
<1>15. h \in Seq(Segment) /\ Len(h) = c - 1 /\ \A j \in 1 .. c - 1 : h[j] = Given[j + 1]
  <2>1. ASSUME NEW j \in 1 .. c - 1 PROVE Given[j + 1] \in Segment
    <3>1. j + 1 \in 1 .. Len(Given)
      BY <1>4, <1>5
    <3> QED
      BY <1>5, <3>1, ElementOfSeq
  <2>2. h \in [1 .. c - 1 -> Segment] /\ c - 1 \in Nat /\ \A j \in 1 .. c - 1 : h[j] = Given[j + 1]
    BY <1>10, <2>1
  <2> HIDE DEF h
  <2> QED
    BY <2>2, SMTT(30)
<1>16. Given[1] = s
  <2>1. 1 \in 1 .. c /\ 1 - 1 = 0 /\ 0 \in 0 .. N - 1
    BY <1>4, RingTyped
  <2>2. At(pos, 0) = pos
    BY <2>1, AtNext, RingTyped
  <2> QED
    BY <1>5, <1>6, <2>1, <2>2
<1> HIDE DEF h
<1>17. sending \o Given = got \o h
  <2> HIDE DEF got
  <2> DEFINE a == sending \o Given
             b == got \o h
  <2>1. /\ a \in Seq(Segment) /\ Len(a) = Len(sending) + c
        /\ \A i \in 1 .. Len(sending) + c :
             a[i] = IF i <= Len(sending) THEN sending[i] ELSE Given[i - Len(sending)]
    <3>1. sending \in Seq(Segment) /\ Given \in Seq(Segment) /\ Len(Given) = c
      BY <1>5, <1>6
    <3>2. /\ a \in Seq(Segment) /\ Len(a) = Len(sending) + Len(Given)
          /\ \A i \in 1 .. Len(sending) + Len(Given) :
               a[i] = IF i <= Len(sending) THEN sending[i] ELSE Given[i - Len(sending)]
      BY <3>1, ConcatProperties
    <3> QED
      BY <3>1, <3>2
  <2>2. /\ b \in Seq(Segment) /\ Len(b) = (Len(sending) + 1) + (c - 1)
        /\ \A i \in 1 .. (Len(sending) + 1) + (c - 1) :
             b[i] = IF i <= Len(sending) + 1 THEN got[i] ELSE h[i - (Len(sending) + 1)]
    <3>1. got \in Seq(Segment) /\ h \in Seq(Segment) /\ Len(h) = c - 1 /\ Len(got) = Len(sending) + 1
      BY <1>6, <1>15
    <3>2. /\ b \in Seq(Segment) /\ Len(b) = Len(got) + Len(h)
          /\ \A i \in 1 .. Len(got) + Len(h) :
               b[i] = IF i <= Len(got) THEN got[i] ELSE h[i - Len(got)]
      BY <3>1, ConcatProperties
    <3> QED
      BY <3>1, <3>2
  <2>3. /\ Len(got) = Len(sending) + 1
        /\ \A i \in 1 .. Len(sending) + 1 : got[i] = IF i <= Len(sending) THEN sending[i] ELSE s
    <3>1. <<s>> \in Seq(Segment) /\ Len(<<s>>) = 1 /\ <<s>>[1] = s
      BY <1>6
    <3> QED
      BY <1>6, <3>1, ConcatProperties DEF got
  <2> HIDE DEF a, b
  <2>4. Len(a) = Len(b)
    BY <1>4, <1>6, <2>1, <2>2, RingTyped
  <2>5. ASSUME NEW i \in 1 .. Len(a) PROVE a[i] = b[i]
    <3>1. i \in 1 .. Len(sending) + c /\ i \in 1 .. (Len(sending) + 1) + (c - 1)
      BY <2>1, <2>2, <2>4
    <3>2. CASE i <= Len(sending)
      <4>1. i \in 1 .. Len(sending) + 1 /\ i <= Len(sending) + 1
        BY <1>6, <3>1, <3>2
      <4> QED
        BY <2>1, <2>2, <2>3, <3>1, <3>2, <4>1
    <3>3. CASE i = Len(sending) + 1
      <4>1. i \in 1 .. Len(sending) + 1 /\ ~(i <= Len(sending)) /\ i - Len(sending) = 1
        BY <1>6, <3>1, <3>3
      <4> QED
        BY <1>16, <2>1, <2>2, <2>3, <3>1, <3>3, <4>1
    <3>4. CASE i > Len(sending) + 1
      <4>1. /\ ~(i <= Len(sending)) /\ ~(i <= Len(sending) + 1)
            /\ i - (Len(sending) + 1) \in 1 .. c - 1
            /\ (i - (Len(sending) + 1)) + 1 = i - Len(sending)
        BY <1>4, <1>6, <3>1, <3>4
      <4> QED
        BY <1>15, <2>1, <2>2, <3>1, <4>1
    <3> QED
      BY <1>4, <1>6, <3>1, <3>2, <3>3, <3>4, RingTyped
  <2>6. a = b
    BY <2>1, <2>2, <2>4, <2>5, SeqEqual
  <2> QED
    BY <2>6 DEF a, b
<1> HIDE DEF got
<1>18. CASE "LS" \in flags[pos]
  <2>1. wire' = got /\ sending' = <<>>
    BY <1>6, <1>18 DEF DmaSend
  <2>2. s[1] \in Sent /\ got = Link!Segments(s[1])
    <3>1. s[1] \in Sent /\ Len(got) = Chain[s[1]]
      BY <1>6, <1>18 DEF Segment
    <3>2. got = [n \in 1 .. Len(got) |-> got[n]]
      BY <1>6
    <3> QED
      BY <1>6, <3>1, <3>2 DEF Link!Segments
  <2>3. (sending \o Given)' = h
    BY <1>14, <1>15, <2>1, ConcatEmptySeq
  <2>4. Link!Transmit(s[1])
    BY <1>17, <2>1, <2>2, <2>3 DEF Link!Transmit
  <2> QED
    BY <2>2, <2>4
<1>19. CASE "LS" \notin flags[pos]
  <2>1. wire' = wire /\ sending' = got
    BY <1>6, <1>19 DEF DmaSend
  <2> QED
    BY <1>14, <1>17, <2>1
<1> QED
  BY <1>18, <1>19

LEMMA RunNow ==
    ASSUME NEW c \in 0 .. N, pos \in Index, pos' = pos, own' \in [Index -> BOOLEAN],
           \A m \in 0 .. c - 1 : own'[At(pos, m)], c < N => ~own'[At(pos, c)]
    PROVE  GivenCount' = c
<1>1. Cardinality({j \in Index : \A k \in 0 .. j : own'[(pos + k) % N]}) = c
  BY RunLength
<1> QED
  BY <1>1 DEF GivenCount

(* While the thread fills a descriptor, the engine's stay as they are. *)
LEMMA FillGiven ==
    ASSUME Inv, Fill, UNCHANGED <<engine, clean>>
    PROVE  Given' = Given
<1> USE DEF Inv
<1>1. PICK k \in 0 .. N : OwnAt(k) /\ FramesAt(k)
  BY DEF RingInv
<1>2. /\ opc = "fill" /\ addr' = [addr EXCEPT ![idx] = <<sendp, seg>>]
      /\ own' = IF seg = 1 THEN own ELSE [own EXCEPT ![idx] = TRUE]
      /\ pos' = pos
  BY DEF Fill, engine
<1>3. Used < N /\ idx = At(Oldest, Used) /\ own' \in [Index -> BOOLEAN]
  BY FillRing
<1> DEFINE c == Full - k
<1>4. /\ c \in 0 .. N /\ Full \in 0 .. N /\ Full <= Used /\ GivenCount = c
      /\ \A m \in 0 .. c - 1 : At(pos, m) = At(Oldest, k + m) /\ own[At(pos, m)]
      /\ c < N => ~own[At(pos, c)]
      /\ \A m \in 0 .. Used - k : At(pos, m) = At(Oldest, k + m)
  BY <1>1, GivenNow
<1>5. c = Full - k /\ k \in Int /\ k >= 0
  BY RingTyped
<1> HIDE DEF c
<1>6. \A m \in 0 .. Used - k - 1 : At(pos, m) \in Index /\ At(pos, m) # idx
  <2> SUFFICES ASSUME NEW m \in 0 .. Used - k - 1 PROVE At(pos, m) \in Index /\ At(pos, m) # idx
    OBVIOUS
  <2>1. /\ m \in 0 .. Used - k /\ m \in 0 .. N /\ k + m \in 0 .. N - 1 /\ k + m # Used
        /\ Used \in 0 .. N - 1
    BY <1>3, <1>5, RingTyped
  <2>2. At(Oldest, k + m) # At(Oldest, Used)
    BY <2>1, AtApart, RingTyped
  <2> QED
    BY <1>3, <1>4, <2>1, <2>2, AtValue, RingTyped
<1>7. \A m \in 0 .. c - 1 : m \in 0 .. Used - k - 1
  BY <1>4, <1>5, RingTyped
<1>8. GivenCount' = c
  <2>1. CASE seg = 1
    BY <1>2, <1>4, <2>1 DEF GivenCount
  <2>2. CASE seg # 1
    <3>1. c \in 0 .. Used - k - 1
      <4>1. Part >= 1 /\ Full = Used - Part
        BY <1>2, <2>2, PartTyped DEF Part, TypeOK, OutputInv
      <4> QED
        BY <1>4, <1>5, <4>1, PartTyped, RingTyped, SMTT(30)
    <3>2. \A m \in 0 .. Used - k - 1 : own'[At(pos, m)] = own[At(pos, m)]
      BY <1>2, <1>6, <2>2, RingTyped
    <3>3. \A m \in 0 .. c - 1 : own'[At(pos, m)]
      BY <1>4, <1>7, <3>2
    <3>4. c < N => ~own'[At(pos, c)]
      BY <1>4, <3>1, <3>2
    <3> QED
      BY <1>2, <1>3, <1>4, <3>3, <3>4, RunNow, RingTyped
  <2> QED
    BY <2>1, <2>2
<1>9. ASSUME NEW j \in 1 .. c PROVE addr'[(pos' + (j - 1)) % N] = addr[(pos + (j - 1)) % N]
  <2>1. j - 1 \in 0 .. Used - k - 1
    BY <1>4, <1>7, RingTyped
  <2>2. addr'[At(pos, j - 1)] = addr[At(pos, j - 1)]
    BY <1>2, <1>6, <2>1, RingTyped
  <2> QED
    BY <1>2, <2>2 DEF At
<1> QED
  BY <1>4, <1>8, <1>9 DEF Given

(* The first descriptor gives the whole frame. *)
LEMMA GiveLink ==
    ASSUME Inv, Give, UNCHANGED <<engine, clean>>
    PROVE  sendp \in Sent /\ Link!Accept(sendp)
<1> USE DEF Inv
<1>1. PICK k \in 0 .. N : OwnAt(k) /\ FramesAt(k)
  BY DEF RingInv
<1>2. /\ opc = "give" /\ own' = [own EXCEPT ![idx] = TRUE] /\ addr' = addr /\ pos' = pos
      /\ sending' = sending /\ wire' = wire
  BY DEF Give, engine
<1>3. /\ sendp \in Sent /\ Chain[sendp] \in 1 .. N /\ idx = At(Oldest, Full)
      /\ own' \in [Index -> BOOLEAN] /\ Part = Chain[sendp]
  BY <1>2, GiveRing, PartTyped, ChainTyped DEF OutputInv, Part
<1> DEFINE c == Full - k
           n == Chain[sendp]
           S == Segment \union {<<>>}
<1>4. /\ c \in 0 .. N /\ Full \in 0 .. N /\ Full <= Used /\ GivenCount = c
      /\ \A m \in 0 .. c - 1 : At(pos, m) = At(Oldest, k + m) /\ own[At(pos, m)]
      /\ \A m \in 0 .. Used - k : At(pos, m) = At(Oldest, k + m)
  BY <1>1, GivenNow
<1>5. /\ c = Full - k /\ n \in 1 .. N /\ k \in 0 .. Full /\ c + n = Used - k /\ c + n \in 0 .. N
      /\ Full < Used /\ Used = Full + n
  <2>1. c = Full - k /\ n \in 1 .. N /\ k \in 0 .. Full /\ Full = Used - n
    BY <1>1, <1>3, PartTyped DEF OwnAt
  <2>2. N \in Nat /\ Used \in 0 .. N
    BY RingTyped
  <2> HIDE DEF c, n
  <2> QED
    BY <1>4, <2>1, <2>2
<1>6. Given \in Seq(Segment) /\ Len(Given) = c /\ \A j \in 1 .. c : Given[j] = addr[At(pos, j - 1)]
  BY <1>1, GivenSegments
<1> HIDE DEF c, n
<1>7. \A m \in 0 .. Used - k : At(pos, m) \in Index
  <2> SUFFICES ASSUME NEW m \in 0 .. Used - k PROVE At(pos, m) \in Index
    OBVIOUS
  <2>1. m \in 0 .. N
    BY <1>5, RingTyped
  <2> QED
    BY <2>1, AtValue, RingTyped
<1>8. ASSUME NEW m \in 0 .. (c + n) - 1 PROVE own'[At(pos, m)]
  <2>1. /\ m \in 0 .. Used - k /\ k + m \in 0 .. Used - 1 /\ k + m >= k
        /\ At(pos, m) \in Index /\ At(pos, m) = At(Oldest, k + m)
    BY <1>4, <1>5, <1>7, RingTyped
  <2>2. CASE k + m = Full
    BY <1>2, <1>3, <2>1, <2>2, RingTyped
  <2>3. CASE k + m # Full
    <3>1. own[At(Oldest, k + m)]
      BY <1>1, <2>1, <2>3 DEF OwnAt
    <3> QED
      BY <1>2, <2>1, <3>1, RingTyped
  <2> QED
    BY <2>2, <2>3
<1>9. ASSUME c + n < N PROVE ~own'[At(pos, c + n)]
  <2>1. /\ c + n \in 0 .. Used - k /\ k + (c + n) = Used
        /\ At(pos, c + n) = At(Oldest, Used) /\ At(Oldest, Used) \in Index
    BY <1>4, <1>5, <1>7, RingTyped
  <2>2. CASE Used < N
    <3>1. Used \in 0 .. N - 1 /\ \A j \in 0 .. Used - 1 : j \in 0 .. N - 1 /\ j # Used
      BY <1>5, <2>2, RingTyped, SMTT(30)
    <3>2. \A j \in 0 .. Used - 1 : At(Oldest, Used) # At(Oldest, j)
      BY <3>1, AtApart, RingTyped
    <3>3. ~own[At(Oldest, Used)]
      BY <1>1, <2>1, <3>2 DEF OwnAt
    <3>4. Full \in 0 .. Used - 1
      BY <1>4, <1>5, RingTyped
    <3>5. At(Oldest, Used) # idx
      BY <1>3, <3>2, <3>4
    <3> QED
      BY <1>2, <2>1, <3>3, <3>5, RingTyped
  <2>3. CASE Used = N
    <3>1. k >= 1 /\ 0 \in 0 .. Used - 1 /\ 0 \in 0 .. N - 1 /\ Full # 0 /\ Full \in 0 .. N - 1
      BY <1>4, <1>5, <1>9, <2>3, RingTyped
    <3>2. ~own[At(Oldest, 0)]
      BY <1>1, <3>1 DEF OwnAt
    <3>3. At(Oldest, N) = At(Oldest, 0)
      <4>1. N \in 0 .. N /\ 0 \in 0 .. N /\ Oldest \in 0 .. N - 1
        BY RingTyped DEF Index
      <4>2. /\ At(Oldest, N) = IF Oldest + N < N THEN Oldest + N ELSE (Oldest + N) - N
            /\ At(Oldest, 0) = IF Oldest + 0 < N THEN Oldest + 0 ELSE (Oldest + 0) - N
        BY <4>1, AtValue, RingTyped
      <4> QED
        BY <4>1, <4>2, RingTyped
    <3>4. At(Oldest, 0) # idx
      BY <1>3, <3>1, AtApart, RingTyped
    <3> QED
      BY <1>2, <2>1, <2>3, <3>2, <3>3, <3>4, RingTyped
  <2> QED
    BY <2>2, <2>3, RingTyped
<1>10. GivenCount' = c + n
  BY <1>2, <1>3, <1>5, <1>8, <1>9, RunNow, RingTyped
<1>11. /\ Given' = [j \in 1 .. c + n |-> addr[At(pos, j - 1)]]
  BY <1>2, <1>10 DEF Given, At
<1> DEFINE t == Link!Segments(sendp)
<1>12. t \in Seq(Segment) /\ Len(t) = n /\ \A i \in 1 .. n : t[i] = <<sendp, i>>
  <2>1. \A i \in 1 .. n : <<sendp, i>> \in Segment
    BY <1>3, <1>5, RingTyped, SMTT(30) DEF Segment, n
  <2>2. t = [i \in 1 .. n |-> <<sendp, i>>]
    BY DEF Link!Segments, n
  <2>3. t \in [1 .. n -> Segment] /\ n \in Nat
    BY <1>5, <2>1, <2>2, RingTyped
  <2> QED
    BY <2>2, <2>3
<1> HIDE DEF t
<1>13. \A i \in 1 .. n : addr[At(pos, (c + i) - 1)] = t[i]
  <2> SUFFICES ASSUME NEW i \in 1 .. n PROVE addr[At(pos, (c + i) - 1)] = t[i]
    OBVIOUS
  <2> DEFINE j == Full + (i - 1)
  <2>1. /\ (c + i) - 1 \in 0 .. Used - k /\ k + ((c + i) - 1) = j
        /\ j \in Full .. Used - 1 /\ (j - Full) + 1 = i
    BY <1>4, <1>5, RingTyped
  <2>2. At(pos, (c + i) - 1) = At(Oldest, j)
    BY <1>4, <2>1
  <2>3. PartAt(j)
    BY <1>1, <2>1 DEF FramesAt
  <2> QED
    BY <1>12, <2>1, <2>2, <2>3 DEF PartAt
<1>14. Given' = Given \o t
  <2> DEFINE a == Given'
             b == Given \o t
  <2>1. /\ b \in Seq(Segment) /\ Len(b) = c + n
        /\ \A i \in 1 .. c + n : b[i] = IF i <= c THEN Given[i] ELSE t[i - c]
    BY <1>6, <1>12, ConcatProperties
  <2>2. ASSUME NEW i \in 1 .. c + n PROVE addr[At(pos, i - 1)] = b[i]
    <3>1. CASE i <= c
      <4>1. i \in 1 .. c
        BY <1>4, <1>5, <3>1, RingTyped
      <4> QED
        BY <1>6, <2>1, <3>1, <4>1
    <3>2. CASE ~(i <= c)
      <4>1. i - c \in 1 .. n /\ (c + (i - c)) - 1 = i - 1
        BY <1>4, <1>5, <3>2, RingTyped
      <4> QED
        BY <1>13, <2>1, <3>2, <4>1
    <3> QED
      BY <3>1, <3>2
  <2>3. b \in [1 .. c + n -> Segment]
    BY <2>1, LenProperties
  <2> HIDE DEF b
  <2>4. b = [i \in 1 .. c + n |-> b[i]]
    BY <2>3
  <2>5. Given' = b
    BY <1>11, <2>2, <2>4
  <2> QED
    BY <2>5 DEF b
<1>15. sending \in Seq(S) /\ Given \in Seq(S) /\ t \in Seq(S)
  BY <1>6, <1>12 DEF TypeOK
<1>16. (sending \o Given)' = (sending \o Given) \o t
  <2>1. (sending \o Given) \o t = sending \o (Given \o t)
    BY <1>15, ConcatAssociative
  <2> QED
    BY <1>2, <1>14, <2>1
<1>17. Len(sending \o Given) + n <= 2 * N - 1
  <2>1. Len(sending \o Given) = Len(sending) + c /\ Len(sending) \in Nat
    BY <1>6, <1>15, ConcatProperties, LenProperties
  <2>2. CASE k < Full
    <3>1. k \in 0 .. Full - 1
      BY <1>4, <1>5, <2>2, RingTyped
    <3>2. SegmentAt(k) \in Segment /\ SegmentAt(k)[2] = Len(sending) + 1
      BY <1>1, <3>1, ReadSegments
    <3>3. Len(sending) + 1 \in 1 .. N
      BY <3>2 DEF Segment
    <3> QED
      BY <1>4, <1>5, <2>1, <3>3, RingTyped, SMTT(30)
  <2>3. CASE ~(k < Full)
    <3>1. Len(sending) = 0
      BY <1>1, <2>3 DEF FramesAt
    <3> QED
      BY <1>5, <2>1, <3>1, RingTyped, SMTT(30)
  <2> QED
    BY <2>2, <2>3
<1> QED
  BY <1>2, <1>3, <1>16, <1>17 DEF Link!Accept, n, t

LEMMA LinkStep ==
    ASSUME Inv, [Next]_vars
    PROVE  [Link!LinkNext]_(Link!lvars)
<1>1. SUFFICES \/ \E f \in Sent : Link!Transmit(f) \/ Link!Accept(f)
               \/ UNCHANGED <<sending \o Given, wire>>
  BY DEF Link!LinkNext, Link!lvars
<1>2. CASE DmaSend
  BY <1>2, SendLink
<1>3. CASE UNCHANGED <<own, addr, pos, sending, wire>>
  BY <1>3 DEF Given, GivenCount
<1>4. CASE DmaStatus \/ DmaSuspend \/ Isr \/ Clean \/ UNCHANGED vars
  <2>1. UNCHANGED <<own, addr, pos, sending, wire>>
    BY <1>4 DEF DmaStatus, DmaSuspend, Isr, IsrRead, IsrGive, IsrClear, Clean, CleanWake, CleanLock,
                Reclaim, CleanUnlock, vars, ring, engine
  <2> QED
    BY <1>3, <2>1
<1>5. CASE Output
  <2>1. UNCHANGED clean
    BY <1>5 DEF Output
  <2>2. CASE Call /\ UNCHANGED engine
    BY <1>3, <2>2 DEF Call, ring, engine
  <2>3. CASE OutputLock /\ UNCHANGED engine
    BY <1>3, <2>3 DEF OutputLock, ring, engine
  <2>4. CASE Fill /\ UNCHANGED engine
    <3>1. Given' = Given
      BY <2>1, <2>4, FillGiven
    <3> QED
      BY <2>4, <3>1 DEF engine
  <2>5. CASE FillFlag /\ UNCHANGED engine
    BY <1>3, <2>5 DEF FillFlag, engine
  <2>6. CASE Give /\ UNCHANGED engine
    BY <2>1, <2>6, GiveLink
  <2>7. CASE OutputReturn
    BY <1>3, <2>7 DEF OutputReturn, ring
  <2> QED
    BY <1>5, <2>2, <2>3, <2>4, <2>5, <2>6, <2>7 DEF Output
<1> QED
  BY <1>2, <1>4, <1>5 DEF Next, Dma

(* Frames leave whole, once and in the order of the calls, whatever the    *)
(* size of the ring and the lengths of the chains                          *)
(* (lpc18xx_43xx_emac.c:365-519).                                          *)
THEOREM LinkRefinement == Spec => ImplementsLink
<1>1. Init => Link!LinkInit
  <2> SUFFICES ASSUME Init PROVE sending \o Given = <<>> /\ wire = <<>>
    BY DEF Link!LinkInit
  <2>1. N \in Nat /\ N >= 1 /\ 0 \in Index /\ 0 \in 0 .. N /\ (0 .. 0 - 1) = {}
    BY EmacTxAssumption DEF Index
  <2>2. /\ pos = 0 /\ own \in [Index -> BOOLEAN] /\ \A i \in Index : ~own[i]
        /\ sending = <<>> /\ wire = <<>>
    BY DEF Init
  <2>3. At(pos, 0) \in Index
    BY <2>1, <2>2, AtValue
  <2>4. (\A m \in 0 .. 0 - 1 : own[At(pos, m)]) /\ (0 < N => ~own[At(pos, 0)]) /\ pos \in Index
    BY <2>1, <2>2, <2>3
  <2>5. Cardinality({j \in Index : \A k \in 0 .. j : own[(pos + k) % N]}) = 0
    <3> HIDE DEF Index
    <3> QED
      BY <2>1, <2>2, <2>4, RunLength, SMTT(30)
  <2>6. GivenCount = 0
    BY <2>5 DEF GivenCount
  <2>7. Given = <<>>
    BY <2>6 DEF Given
  <2> QED
    BY <2>2, <2>7
<1>2. Inv /\ [Next]_vars => [Link!LinkNext]_(Link!lvars)
  BY LinkStep
<1> QED
  BY <1>1, <1>2, Invariant, PTL DEF Spec, ImplementsLink, Link!LinkSpec
=============================================================================
