---------------------------- MODULE UartRbProofs ----------------------------
(***************************************************************************)
(* The two rings of the UART driver are bounded FIFOs between the main     *)
(* program and the interrupt handler, for every size of the rings, every   *)
(* width of the counters and requests of every length.                     *)
(***************************************************************************)
EXTENDS UartRb, RingIndexProofs, SequenceTheorems

(***************************************************************************)
(* The byte ring of lpc_chip is a bounded queue of runs: for every size,   *)
(* a run that is written appends itself to what the ring holds and a run   *)
(* that is read is the oldest part of it, also where the run is cut in two *)
(* at the end of the array and where a counter wraps.                      *)
(***************************************************************************)
(* Reducing a summand first does not change the remainder. *)
LEMMA ModAdd ==
    ASSUME NEW a \in Int, NEW b \in Int
    PROVE  ((a % Wrap) + b) % Wrap = (a + b) % Wrap
<1> DEFINE q == a \div Wrap
           r == a % Wrap
           p == (r + b) \div Wrap
           s == (r + b) % Wrap
<1>1. q \in Int /\ r \in Int /\ a = Wrap * q + r
  BY DivMod, WrapWide
<1>2. p \in Int /\ s \in 0 .. Wrap - 1 /\ r + b = Wrap * p + s
  <2>1. r + b \in Int
    BY <1>1
  <2> HIDE DEF r
  <2> QED
    BY <2>1, DivMod, WrapWide
<1> HIDE DEF q, r, p, s
<1>3. a + b = Wrap * (q + p) + s
  BY <1>1, <1>2, WrapWide
<1>4. a + b \in Int /\ q + p \in Int
  BY <1>1, <1>2
<1>5. (a + b) % Wrap = s
  BY <1>2, <1>3, <1>4, WrapWide, ModUnique
<1> QED
  BY <1>5 DEF s, r

(* head += n and tail += n, without the modulus. *)
LEMMA AddValue ==
    ASSUME NEW i \in Counter, NEW n \in 0 .. Count
    PROVE  /\ Add(i, n) \in Counter
           /\ Add(i, n) = IF i + n < Wrap THEN i + n ELSE (i + n) - Wrap
<1> Count \in Nat /\ Wrap \in Nat /\ Count < Wrap
  BY WrapWide, RingAssumption
<1>1. CASE i + n < Wrap
  <2>1. i + n \in 0 .. Wrap - 1 /\ i + n = Wrap * 0 + (i + n)
    BY <1>1 DEF Counter
  <2> QED
    BY <1>1, <2>1, WrapWide, ModUnique DEF Add, Counter
<1>2. CASE ~(i + n < Wrap)
  <2>1. (i + n) - Wrap \in 0 .. Wrap - 1 /\ i + n = Wrap * 1 + ((i + n) - Wrap)
    BY <1>2 DEF Counter
  <2> QED
    BY <1>2, <2>1, WrapWide, ModUnique DEF Add, Counter
<1> QED
  BY <1>1, <1>2

LEMMA AddNothing ==
    ASSUME NEW i \in Counter
    PROVE  Add(i, 0) = i
  BY AddValue, RingAssumption, WrapWide DEF Counter

(* Writing n items adds n to what is held; reading n takes n away. *)
LEMMA CountAfterWrite ==
    ASSUME NEW h \in Counter, NEW t \in Counter, NEW n \in Nat,
           DataCount(h, t) + n <= Count
    PROVE  DataCount(Add(h, n), t) = DataCount(h, t) + n
<1>1. h \in 0 .. Wrap - 1 /\ t \in 0 .. Wrap - 1 /\ DataCount(h, t) \in Nat
  BY CountNat DEF Counter
<1>2. n \in 0 .. Count /\ Count \in Nat /\ Wrap \in Nat /\ Wrap >= 2 * Count /\ Count > 0
  BY <1>1, RingAssumption
<1>3. DataCount(h, t) = IF h >= t THEN h - t ELSE (h - t) + Wrap
  BY DataCountValue
<1>4. /\ Add(h, n) \in Counter
      /\ Add(h, n) = IF h + n < Wrap THEN h + n ELSE (h + n) - Wrap
  BY <1>2, AddValue
<1>5. DataCount(Add(h, n), t)
        = IF Add(h, n) >= t THEN Add(h, n) - t ELSE (Add(h, n) - t) + Wrap
  BY <1>4, DataCountValue
<1> QED
  BY <1>1, <1>2, <1>3, <1>4, <1>5

LEMMA CountAfterRead ==
    ASSUME NEW h \in Counter, NEW t \in Counter, NEW n \in Nat,
           n <= DataCount(h, t), DataCount(h, t) <= Count
    PROVE  DataCount(h, Add(t, n)) = DataCount(h, t) - n
<1>1. h \in 0 .. Wrap - 1 /\ t \in 0 .. Wrap - 1 /\ DataCount(h, t) \in Nat
  BY CountNat DEF Counter
<1>2. n \in 0 .. Count /\ Count \in Nat /\ Wrap \in Nat /\ Wrap >= 2 * Count /\ Count > 0
  BY <1>1, RingAssumption
<1>3. DataCount(h, t) = IF h >= t THEN h - t ELSE (h - t) + Wrap
  BY DataCountValue
<1>4. /\ Add(t, n) \in Counter
      /\ Add(t, n) = IF t + n < Wrap THEN t + n ELSE (t + n) - Wrap
  BY <1>2, AddValue
<1>5. DataCount(h, Add(t, n))
        = IF h >= Add(t, n) THEN h - Add(t, n) ELSE (h - Add(t, n)) + Wrap
  BY <1>4, DataCountValue
<1> QED
  BY <1>1, <1>2, <1>3, <1>4, <1>5

(* Moving a counter on by n moves every position behind it by n. *)
LEMMA SlotAfterAdd ==
    ASSUME NEW i \in Counter, NEW n \in 0 .. Count, NEW k \in Int
    PROVE  SlotOf(Add(i, n) + k) = SlotOf((i + n) + k)
<1>1. i \in Int /\ n \in Int /\ Wrap \in Int
  BY RingAssumption, WrapWide DEF Counter
<1>2. CASE i + n < Wrap
  BY <1>1, <1>2, AddValue
<1>3. CASE ~(i + n < Wrap)
  <2>1. Add(i, n) + k \in Int /\ (Add(i, n) + k) + Wrap = (i + n) + k
    BY <1>1, <1>3, AddValue
  <2> QED
    BY <2>1, SlotWrap
<1> QED
  BY <1>2, <1>3

(* Within a segment the slots are consecutive, and behind a segment that   *)
(* reaches the end of the array comes the first slot.                      *)
LEMMA SegmentSlots ==
    ASSUME NEW i \in Int, NEW k \in Nat, SlotOf(i) + k <= Count
    PROVE  SlotOf(i + k) = IF SlotOf(i) + k = Count THEN 0 ELSE SlotOf(i) + k
<1> DEFINE q == i \div Count
           r == SlotOf(i)
<1>1. q \in Int /\ r \in 0 .. Count - 1 /\ i = Count * q + r /\ Count \in Nat \ {0}
  BY DivMod, RingAssumption DEF SlotOf
<1> HIDE DEF q, r
<1>2. CASE r + k = Count
  <2>1. i + k = Count * (q + 1) + 0
    BY <1>1, <1>2
  <2>2. (i + k) % Count = 0
    <3>1. i + k \in Int /\ q + 1 \in Int /\ 0 \in 0 .. Count - 1
      BY <1>1
    <3> QED
      BY <1>1, <2>1, <3>1, ModUnique
  <2> QED
    BY <1>2, <2>2 DEF r, SlotOf
<1>3. CASE r + k # Count
  <2>1. i + k = Count * q + (r + k) /\ r + k \in 0 .. Count - 1
    BY <1>1, <1>3 DEF r
  <2>2. (i + k) % Count = r + k
    BY <1>1, <2>1, ModUnique
  <2> QED
    BY <1>3, <2>2 DEF r, SlotOf
<1> QED
  BY <1>2, <1>3 DEF r

(* The two segments of a request: together no more than there is and than  *)
(* was asked for; the first ends inside the array, and there is a second   *)
(* only if the first goes to the end.                                      *)
LEMMA Segments ==
    ASSUME NEW i \in Int, NEW avail \in 0 .. Count, NEW num \in Nat
    PROVE  /\ Cnt1(i, avail, num) \in 0 .. Count
           /\ Cnt2(i, avail, num) \in 0 .. Count
           /\ Cnt1(i, avail, num) + Cnt2(i, avail, num) <= avail
           /\ Cnt1(i, avail, num) + Cnt2(i, avail, num) <= num
           /\ SlotOf(i) + Cnt1(i, avail, num) <= Count
           /\ Cnt2(i, avail, num) > 0 => SlotOf(i) + Cnt1(i, avail, num) = Count
<1>1. SlotOf(i) \in 0 .. Count - 1 /\ Count \in Nat
  BY SlotType, RingAssumption DEF Slots
<1> QED
  BY <1>1 DEF Cnt1, Cnt2, UpToEnd, Least

(* The second segment, which starts where the first ended, is inside too. *)
LEMMA SecondSegment ==
    ASSUME NEW i \in Counter, NEW m \in 0 .. Count, NEW n \in 0 .. Count,
           SlotOf(i) + m <= Count, n > 0 => SlotOf(i) + m = Count
    PROVE  SlotOf(Add(i, m)) + n <= Count
<1>1. i \in Int /\ m \in Nat /\ n \in Nat /\ Count \in Nat \ {0}
  BY RingAssumption, WrapWide DEF Counter
<1>2. SlotOf(Add(i, m)) = SlotOf(i + m)
  <2>1. SlotOf(Add(i, m) + 0) = SlotOf((i + m) + 0)
    BY SlotAfterAdd
  <2>2. Add(i, m) + 0 = Add(i, m) /\ (i + m) + 0 = i + m
    BY <1>1, AddValue, WrapWide DEF Counter
  <2> QED
    BY <2>1, <2>2
<1>3. SlotOf(i + m) \in 0 .. Count - 1
  BY <1>1, SlotType DEF Slots
<1>4. CASE n = 0
  BY <1>1, <1>2, <1>3, <1>4
<1>5. CASE n > 0
  BY <1>1, <1>2, <1>5, SegmentSlots
<1> QED
  BY <1>1, <1>4, <1>5

(***************************************************************************)
(* What the ring holds.                                                    *)
(***************************************************************************)
LEMMA HeldShape ==
    ASSUME NEW S, NEW h \in Counter, NEW t \in Counter, NEW sl \in [Slots -> S]
    PROVE  /\ DataCount(h, t) \in Nat
           /\ Held(h, t, sl) \in Seq(S)
           /\ Len(Held(h, t, sl)) = DataCount(h, t)
           /\ \A i \in 1 .. DataCount(h, t) : Held(h, t, sl)[i] = sl[SlotOf((t + i) - 1)]
<1>1. DataCount(h, t) \in Nat
  BY CountNat
<1>2. \A i \in 1 .. DataCount(h, t) : sl[SlotOf((t + i) - 1)] \in S
  <2> SUFFICES ASSUME NEW i \in 1 .. DataCount(h, t)
               PROVE  sl[SlotOf((t + i) - 1)] \in S
    OBVIOUS
  <2>1. (t + i) - 1 \in Int
    BY <1>1, WrapWide DEF Counter
  <2> QED
    BY <2>1, SlotType
<1>3. Held(h, t, sl) \in [1 .. DataCount(h, t) -> S]
  BY <1>2 DEF Held
<1>4. Held(h, t, sl) \in Seq(S)
  BY <1>1, <1>3, SeqDef
<1>5. Len(Held(h, t, sl)) = DataCount(h, t)
  BY <1>1, <1>3, <1>4, LenProperties
<1> QED
  BY <1>1, <1>4, <1>5 DEF Held

(* memcpy fills the slots of its segment and no others. *)
LEMMA WriteSegValue ==
    ASSUME NEW S, NEW i \in Int, NEW sl \in [Slots -> S], NEW s \in Seq(S)
    PROVE  /\ WriteSeg(sl, i, s) \in [Slots -> S]
           /\ \A k \in Slots :
                WriteSeg(sl, i, s)[k] =
                  IF k - SlotOf(i) \in 0 .. Len(s) - 1
                    THEN s[(k - SlotOf(i)) + 1] ELSE sl[k]
<1>1. \A k \in Slots : WriteSeg(sl, i, s)[k] =
                  IF k - SlotOf(i) \in 0 .. Len(s) - 1
                    THEN s[(k - SlotOf(i)) + 1] ELSE sl[k]
  BY DEF WriteSeg
<1>2. \A k \in Slots : WriteSeg(sl, i, s)[k] \in S
  <2> SUFFICES ASSUME NEW k \in Slots PROVE WriteSeg(sl, i, s)[k] \in S
    OBVIOUS
  <2>1. k \in Int /\ SlotOf(i) \in Int /\ Len(s) \in Nat
    BY SlotType, RingAssumption, SMTT(30) DEF Slots
  <2>2. CASE k - SlotOf(i) \in 0 .. Len(s) - 1
    <3>1. (k - SlotOf(i)) + 1 \in 1 .. Len(s)
      BY <2>1, <2>2
    <3>2. s[(k - SlotOf(i)) + 1] \in S
      BY <3>1, ElementOfSeq
    <3> QED
      BY <1>1, <2>2, <3>2
  <2>3. CASE ~(k - SlotOf(i) \in 0 .. Len(s) - 1)
    BY <1>1, <2>3
  <2> QED
    BY <2>2, <2>3
<1>3. WriteSeg(sl, i, s) = [k \in Slots |-> WriteSeg(sl, i, s)[k]]
  BY DEF WriteSeg
<1> HIDE DEF WriteSeg
<1> QED
  BY <1>1, <1>2, <1>3

(* A segment that is written to the slots behind head is appended to what  *)
(* the ring holds by the addition to head.                                 *)
LEMMA HeldWrite ==
    ASSUME NEW S, NEW h \in Counter, NEW t \in Counter, NEW sl \in [Slots -> S],
           NEW s \in Seq(S),
           DataCount(h, t) + Len(s) <= Count, SlotOf(h) + Len(s) <= Count
    PROVE  Held(Add(h, Len(s)), t, WriteSeg(sl, h, s)) = Held(h, t, sl) \o s
<1>20. /\ h \in Int /\ t \in Int /\ Count \in Nat \ {0} /\ Wrap \in Nat
      /\ DataCount(h, t) \in Nat /\ Len(s) \in Nat
      /\ SlotOf(h) \in 0 .. Count - 1
  <2>1. h \in Int /\ t \in Int /\ Count \in Nat \ {0} /\ Wrap \in Nat
    BY RingAssumption, WrapWide DEF Counter
  <2>2. DataCount(h, t) \in Nat
    BY CountNat
  <2>3. SlotOf(h) \in 0 .. Count - 1
    BY <2>1, SlotType DEF Slots
  <2>4. Len(s) \in Nat
    BY LenProperties
  <2> QED
    BY <2>1, <2>2, <2>3, <2>4
<1>21. Len(s) \in 0 .. Count
  BY <1>20
<1>22. /\ Add(h, Len(s)) \in Counter
      /\ DataCount(Add(h, Len(s)), t) = DataCount(h, t) + Len(s)
  BY <1>20, <1>21, AddValue, CountAfterWrite
<1>23. /\ WriteSeg(sl, h, s) \in [Slots -> S]
      /\ \A k \in Slots :
            WriteSeg(sl, h, s)[k] = IF k - SlotOf(h) \in 0 .. Len(s) - 1
                                      THEN s[(k - SlotOf(h)) + 1] ELSE sl[k]
  BY <1>20, WriteSegValue, SMTT(30)
<1> DEFINE c == DataCount(h, t)
           n == Len(s)
           g == Add(h, n)
           new == WriteSeg(sl, h, s)
           before == Held(h, t, sl)
           after == Held(g, t, new)
<1>0. /\ h \in Int /\ t \in Int /\ Count \in Nat \ {0} /\ Wrap \in Nat
      /\ c \in Nat /\ n \in Nat /\ n \in 0 .. Count /\ c + n <= Count
      /\ SlotOf(h) \in 0 .. Count - 1
  BY <1>20, <1>21
<1>1. /\ new \in [Slots -> S]
      /\ \A k \in Slots : new[k] = IF k - SlotOf(h) \in 0 .. n - 1
                                     THEN s[(k - SlotOf(h)) + 1] ELSE sl[k]
  BY <1>23
<1>2. g \in Counter /\ DataCount(g, t) = c + n
  BY <1>22
<1>3. /\ before \in Seq(S) /\ Len(before) = c
      /\ \A i \in 1 .. c : before[i] = sl[SlotOf((t + i) - 1)]
  BY HeldShape
<1> HIDE DEF n, new, g
<1>4. /\ after \in Seq(S) /\ Len(after) = c + n
      /\ \A i \in 1 .. c + n : after[i] = new[SlotOf((t + i) - 1)]
  <2>1. /\ Held(g, t, new) \in Seq(S)
        /\ Len(Held(g, t, new)) = DataCount(g, t)
        /\ \A i \in 1 .. DataCount(g, t) :
             Held(g, t, new)[i] = new[SlotOf((t + i) - 1)]
    BY <1>1, <1>2, HeldShape, SMTT(60)
  <2> HIDE DEF c
  <2> QED
    BY <1>2, <2>1
<1>5. SlotOf(t + c) = SlotOf(h)
  BY SlotOfHead
<1> HIDE DEF c, before, after
<1>6. \A j \in 0 .. n - 1 : SlotOf((t + c) + j) = SlotOf(h) + j
  <2> SUFFICES ASSUME NEW j \in 0 .. n - 1 PROVE SlotOf((t + c) + j) = SlotOf(h) + j
    OBVIOUS
  <2>1. /\ t + c \in Int /\ j \in Nat
        /\ SlotOf(t + c) + j <= Count /\ SlotOf(t + c) + j # Count
    BY <1>0, <1>5 DEF n
  <2> QED
    BY <1>5, <2>1, SegmentSlots
<1>7. ASSUME NEW i \in 1 .. c PROVE after[i] = before[i]
  <2> DEFINE p == (t + i) - 1
  <2>1. p \in Int /\ SlotOf(p) \in Slots /\ SlotOf(p) \in Int
    <3>1. p \in Int
      BY <1>0
    <3> HIDE DEF p
    <3>2. SlotOf(p) \in Slots
      BY <3>1, SlotType
    <3>3. Slots \subseteq Int
      BY <1>0 DEF Slots
    <3> QED
      BY <3>1, <3>2, <3>3
  <2>2. ~(SlotOf(p) - SlotOf(h) \in 0 .. n - 1)
    <3> SUFFICES ASSUME SlotOf(p) - SlotOf(h) \in 0 .. n - 1 PROVE FALSE
      OBVIOUS
    <3> DEFINE j == SlotOf(p) - SlotOf(h)
    <3>1. j \in 0 .. n - 1 /\ SlotOf((t + c) + j) = SlotOf(p)
      BY <1>0, <1>6, <2>1, SMTT(30)
    <3> HIDE DEF j
    <3>2. p < (t + c) + j /\ (t + c) + j < p + Count /\ (t + c) + j \in Int
      BY <1>0, <3>1
    <3> QED
      BY <2>1, <3>1, <3>2, SlotApart
  <2>3. i \in 1 .. c + n
    BY <1>0
  <2> QED
    BY <1>1, <1>3, <1>4, <2>1, <2>2, <2>3
<1>8. ASSUME NEW i \in 1 .. n PROVE after[c + i] = s[i]
  <2> DEFINE p == (t + (c + i)) - 1
  <2>1. p = (t + c) + (i - 1) /\ i - 1 \in 0 .. n - 1 /\ c + i \in 1 .. c + n
    BY <1>0
  <2>2. SlotOf(p) = SlotOf(h) + (i - 1)
    BY <1>6, <2>1
  <2>3. SlotOf(p) \in Slots
    BY <1>0, <2>1, SlotType
  <2>4. SlotOf(p) - SlotOf(h) = i - 1 /\ (i - 1) + 1 = i
    BY <1>0, <2>2
  <2>5. after[c + i] = new[SlotOf(p)]
    BY <1>4, <2>1
  <2> HIDE DEF p
  <2> QED
    BY <1>1, <2>1, <2>3, <2>4, <2>5
<1>9. /\ before \o s \in Seq(S) /\ Len(before \o s) = c + n
      /\ \A i \in 1 .. c + n : (before \o s)[i] = IF i <= c THEN before[i] ELSE s[i - c]
  BY <1>0, <1>3, ConcatProperties, ZenonT(30) DEF n
<1>10. \A i \in 1 .. c + n : after[i] = (before \o s)[i]
  <2> SUFFICES ASSUME NEW i \in 1 .. c + n PROVE after[i] = (before \o s)[i]
    OBVIOUS
  <2>1. CASE i <= c
    BY <1>0, <1>7, <1>9, <2>1
  <2>2. CASE ~(i <= c)
    <3>1. i - c \in 1 .. n /\ c + (i - c) = i
      BY <1>0, <2>2
    <3> QED
      BY <1>8, <1>9, <2>2, <3>1
  <2> QED
    BY <2>1, <2>2
<1>11. after = before \o s
  BY <1>4, <1>9, <1>10, SeqEqual
<1> QED
  BY <1>11 DEF after, before, new, n, g

(* A segment that is copied from the slots behind tail is the oldest part  *)
(* of what the ring holds, and the addition to tail drops it.              *)
LEMMA HeldRead ==
    ASSUME NEW S, NEW h \in Counter, NEW t \in Counter, NEW sl \in [Slots -> S],
           NEW n \in 0 .. Count
    PROVE  n <= DataCount(h, t) /\ DataCount(h, t) <= Count /\ SlotOf(t) + n <= Count
             => /\ ReadSeg(sl, t, n) = SubSeq(Held(h, t, sl), 1, n)
                /\ Held(h, Add(t, n), sl)
                     = SubSeq(Held(h, t, sl), n + 1, Len(Held(h, t, sl)))
<1>20. \A u \in Counter :
         /\ Held(h, u, sl) \in Seq(S)
         /\ Len(Held(h, u, sl)) = DataCount(h, u)
         /\ \A i \in 1 .. DataCount(h, u) : Held(h, u, sl)[i] = sl[SlotOf((u + i) - 1)]
  <2> TAKE u \in Counter
  <2>1. Held(h, u, sl) \in Seq(S)
    BY HeldShape
  <2>2. Len(Held(h, u, sl)) = DataCount(h, u)
    BY HeldShape, ZenonT(30)
  <2>3. \A i \in 1 .. DataCount(h, u) : Held(h, u, sl)[i] = sl[SlotOf((u + i) - 1)]
    BY DEF Held
  <2> QED
    BY <2>1, <2>2, <2>3
<1> HAVE n <= DataCount(h, t) /\ DataCount(h, t) <= Count /\ SlotOf(t) + n <= Count
<1> DEFINE c == DataCount(h, t)
           before == Held(h, t, sl)
           after == Held(h, Add(t, n), sl)
<1>0. /\ t \in Int /\ Count \in Nat \ {0} /\ Wrap \in Nat
      /\ c \in Nat /\ n \in Nat /\ n <= c
      /\ SlotOf(t) \in 0 .. Count - 1
  BY CountNat, SlotType, RingAssumption, WrapWide DEF Counter, Slots
<1>1. Add(t, n) \in Counter /\ DataCount(h, Add(t, n)) = c - n
  BY <1>0, AddValue, CountAfterRead
<1>2. /\ before \in Seq(S) /\ Len(before) = c
      /\ \A i \in 1 .. c : before[i] = sl[SlotOf((t + i) - 1)]
  <2>1. /\ Held(h, t, sl) \in Seq(S)
        /\ Len(Held(h, t, sl)) = DataCount(h, t)
        /\ \A i \in 1 .. DataCount(h, t) : Held(h, t, sl)[i] = sl[SlotOf((t + i) - 1)]
    BY <1>20
  <2> QED
    BY <2>1
<1>3. /\ after \in Seq(S) /\ Len(after) = c - n
      /\ \A i \in 1 .. c - n : after[i] = sl[SlotOf((Add(t, n) + i) - 1)]
  <2> DEFINE u == Add(t, n)
  <2> u \in Counter
    BY <1>1
  <2> HIDE DEF u
  <2>1. /\ Held(h, u, sl) \in Seq(S)
        /\ Len(Held(h, u, sl)) = DataCount(h, u)
        /\ \A i \in 1 .. DataCount(h, u) : Held(h, u, sl)[i] = sl[SlotOf((u + i) - 1)]
    BY <1>20
  <2>2. DataCount(h, u) = c - n
    BY <1>1 DEF u
  <2>3. Held(h, u, sl) = after
    BY DEF u
  <2> HIDE DEF c, after
  <2>4. /\ after \in Seq(S) /\ Len(after) = c - n
        /\ \A i \in 1 .. c - n : after[i] = sl[SlotOf((u + i) - 1)]
    BY <2>1, <2>2, <2>3
  <2> QED
    BY <2>4 DEF u
<1> HIDE DEF c, before, after
<1>4. ReadSeg(sl, t, n) = SubSeq(before, 1, n)
  <2>1. /\ SubSeq(before, 1, n) \in Seq(S) /\ Len(SubSeq(before, 1, n)) = n
        /\ \A i \in 1 .. n : SubSeq(before, 1, n)[i] = before[i]
    <3>1. \A i \in 1 .. n : i \in 1 .. c
      BY <1>0
    <3>2. SubSeq(before, 1, n) = [i \in 1 .. n |-> before[i]]
      BY <1>0, <1>2, <3>1
    <3>3. \A i \in 1 .. n : before[i] \in S
      BY <1>2, <3>1, ElementOfSeq
    <3>4. SubSeq(before, 1, n) \in [1 .. n -> S]
      BY <3>2, <3>3
    <3>5. SubSeq(before, 1, n) \in Seq(S)
      BY <1>0, <3>4, SeqDef
    <3>6. Len(SubSeq(before, 1, n)) = n
      BY <1>0, <3>4, <3>5, LenProperties, SMTT(30)
    <3> QED
      BY <3>2, <3>5, <3>6
  <2>2. \A i \in 1 .. n : before[i] = sl[(SlotOf(t) + i) - 1]
    <3> SUFFICES ASSUME NEW i \in 1 .. n PROVE before[i] = sl[(SlotOf(t) + i) - 1]
      OBVIOUS
    <3>1. /\ i - 1 \in Nat /\ (t + i) - 1 = t + (i - 1) /\ i \in 1 .. c
          /\ SlotOf(t) + (i - 1) < Count /\ SlotOf(t) + (i - 1) = (SlotOf(t) + i) - 1
      BY <1>0
    <3>2. SlotOf(t + (i - 1)) = SlotOf(t) + (i - 1)
      BY <1>0, <3>1, SegmentSlots
    <3> QED
      BY <1>2, <3>1, <3>2
  <2>3. SubSeq(before, 1, n) = [i \in 1 .. n |-> SubSeq(before, 1, n)[i]]
    BY <2>1, SeqDef
  <2> QED
    BY <2>1, <2>2, <2>3 DEF ReadSeg
<1>5. /\ SubSeq(before, n + 1, c) \in Seq(S) /\ Len(SubSeq(before, n + 1, c)) = c - n
      /\ \A i \in 1 .. c - n : SubSeq(before, n + 1, c)[i] = before[n + i]
  <2>1. \A i \in 1 .. c - n : n + i \in 1 .. c
    BY <1>0
  <2>2. SubSeq(before, n + 1, c) = [i \in 1 .. c - n |-> before[n + i]]
    <3>1. SubSeq(before, n + 1, c) = [i \in 1 .. (c - (n + 1)) + 1 |-> before[((n + 1) + i) - 1]]
      BY <1>0, <1>2
    <3>2. (c - (n + 1)) + 1 = c - n
      BY <1>0
    <3>3. \A i \in 1 .. c - n : ((n + 1) + i) - 1 = n + i
      BY <1>0
    <3> QED
      BY <3>1, <3>2, <3>3
  <2>3. \A i \in 1 .. c - n : before[n + i] \in S
    BY <1>2, <2>1, ElementOfSeq
  <2> DEFINE r == SubSeq(before, n + 1, c)
             m == c - n
  <2>7. m \in Nat
    BY <1>0
  <2>4. r \in [1 .. m -> S] /\ \A i \in 1 .. m : r[i] = before[n + i]
    BY <2>2, <2>3
  <2> HIDE DEF r, m
  <2>5. r \in Seq(S)
    BY <2>4, <2>7, SeqDef
  <2>6. Len(r) = m
    BY <2>4, <2>5, <2>7, LenProperties
  <2> QED
    BY <2>4, <2>5, <2>6 DEF r, m
<1>6. \A i \in 1 .. c - n : after[i] = SubSeq(before, n + 1, c)[i]
  <2> SUFFICES ASSUME NEW i \in 1 .. c - n
               PROVE  after[i] = SubSeq(before, n + 1, c)[i]
    OBVIOUS
  <2>1. /\ i - 1 \in Int /\ (Add(t, n) + i) - 1 = Add(t, n) + (i - 1)
        /\ (t + n) + (i - 1) = (t + (n + i)) - 1 /\ n + i \in 1 .. c
    BY <1>0, <1>1 DEF Counter
  <2>2. SlotOf(Add(t, n) + (i - 1)) = SlotOf((t + n) + (i - 1))
    BY <2>1, SlotAfterAdd
  <2>3. after[i] = sl[SlotOf((t + (n + i)) - 1)]
    BY <1>3, <2>1, <2>2
  <2>4. SubSeq(before, n + 1, c)[i] = before[n + i]
    BY <1>5
  <2>5. before[n + i] = sl[SlotOf((t + (n + i)) - 1)]
    BY <1>2, <2>1
  <2> QED
    BY <2>3, <2>4, <2>5
<1>7. after = SubSeq(before, n + 1, c)
  BY <1>3, <1>5, <1>6, SeqEqual
<1> QED
  BY <1>2, <1>4, <1>7 DEF before, after

(***************************************************************************)
(* The driver.                                                             *)
(***************************************************************************)
Cell == Byte \union {NoByte}

(* What the lemmas on segments say of slots that hold bytes. *)
LEMMA CellWrite ==
    ASSUME NEW h \in Counter, NEW t \in Counter, NEW sl \in [Slots -> Cell],
           NEW s \in Seq(Cell),
           DataCount(h, t) + Len(s) <= Count, SlotOf(h) + Len(s) <= Count
    PROVE  Held(Add(h, Len(s)), t, WriteSeg(sl, h, s)) = Held(h, t, sl) \o s
  BY HeldWrite

LEMMA CellShape ==
    ASSUME NEW h \in Counter, NEW t \in Counter, NEW sl \in [Slots -> Cell]
    PROVE  Len(Held(h, t, sl)) = DataCount(h, t)
  BY HeldShape

TxHeld == Held(txHead, txTail, txSlot)
RxHeld == Held(rxHead, rxTail, rxSlot)
TxCount == DataCount(txHead, txTail)
RxCount == DataCount(rxHead, rxTail)

(***************************************************************************)
(* The inductive invariant.  Of the transmit ring: during SendRB the       *)
(* interrupt stays masked and the handler out, so the segments that were   *)
(* computed from tail still have room when they are written.               *)
(***************************************************************************)
TxMasked == mpc \in SendPc => ~threInt /\ isr # "tx"

TxHolds == TxCount <= Count /\ TxHeld \in Seq(Byte)

(* n bytes at head: room for them, in one piece, and as many to send *)
Fits(n) ==
    /\ n <= Count - TxCount
    /\ n <= Len(data) - ret
    /\ SlotOf(txHead) + n <= Count

TxSegments ==
    /\ mpc \in {"seg1", "seg1b"} =>
         /\ cnt1 + cnt2 <= Count - TxCount
         /\ cnt1 + cnt2 <= Len(data) - ret
         /\ SlotOf(txHead) + cnt1 <= Count
         /\ cnt2 > 0 => SlotOf(txHead) + cnt1 = Count
    /\ mpc \in {"seg2", "seg2b"} => Fits(cnt2)

(* The rest of the request belongs at head in the stream. *)
TxStream ==
    mpc \in SendPc =>
      \A i \in ret + 1 .. Len(data) :
        data[i] \in Stream[(txHead + ((i - ret) - 1)) % Wrap]

TxInv == TxMasked /\ TxArmed /\ TxHolds /\ TxSegments /\ TxStream

(* Of the receive ring: what PopMult has counted stays in the ring, and    *)
(* what it has copied is still the oldest part, until it moves tail.       *)
RxHolds == RxCount <= Count /\ RxHeld \in Seq(Byte)

RxSegments ==
    /\ mpc \in {"copy1", "tail1"} =>
         /\ cnt1 + cnt2 <= RxCount
         /\ SlotOf(rxTail) + cnt1 <= Count
         /\ cnt2 > 0 => SlotOf(rxTail) + cnt1 = Count
    /\ mpc \in {"copy2", "tail2"} =>
         /\ cnt2 <= RxCount
         /\ SlotOf(rxTail) + cnt2 <= Count
    /\ mpc = "tail1" => buf = SubSeq(RxHeld, 1, cnt1)
    /\ mpc = "tail2" => buf = SubSeq(RxHeld, 1, cnt2)

RxStream == rbr # NoByte => rbr \in Stream[rxHead]

RxInv == RxHolds /\ RxSegments /\ RxStream

(* What a step is to the two channels. *)
TxStep == TxChannel!BNext \/ UNCHANGED <<txHead, TxHeld, thr>>
RxStep == RxChannel!BNext \/ UNCHANGED <<rxHead, RxHeld, read>>

(***************************************************************************)
(* Steps that leave a ring alone.                                          *)
(***************************************************************************)
LEMMA TxIdle ==
    ASSUME UNCHANGED <<txRing, thr>>
    PROVE  TxStep /\ TxHeld' = TxHeld /\ TxCount' = TxCount
  BY DEF txRing, TxStep, TxHeld, TxCount, Held

LEMMA RxIdle ==
    ASSUME UNCHANGED <<rxRing, read>>
    PROVE  RxStep /\ RxHeld' = RxHeld /\ RxCount' = RxCount
  BY DEF rxRing, RxStep, RxHeld, RxCount, Held

(* A step of the handler or of the UART elsewhere. *)
LEMMA TxFrame ==
    ASSUME TxInv, UNCHANGED <<txRing, thr, threInt, mpc, data, ret, cnt1, cnt2>>,
           isr' = isr \/ isr' # "tx"
    PROVE  TxInv' /\ TxStep
<1>1. TxStep /\ TxHeld' = TxHeld /\ TxCount' = TxCount
  BY TxIdle
<1> QED
  BY <1>1 DEF TxInv, TxMasked, TxArmed, TxHolds, TxSegments, Fits, TxStream, IsEmpty, txRing

(* A step of ReadRB. *)
LEMMA TxFrameRead ==
    ASSUME TxInv, UNCHANGED <<txRing, thr, threInt, isr>>,
           mpc \notin SendPc, mpc' \notin SendPc
    PROVE  TxInv' /\ TxStep
<1>1. TxStep /\ TxHeld' = TxHeld /\ TxCount' = TxCount
  BY TxIdle
<1>2. mpc' \notin {"seg1", "seg1b", "seg2", "seg2b"}
  BY DEF SendPc, InsertPc
<1> QED
  BY <1>1, <1>2 DEF TxInv, TxMasked, TxArmed, TxHolds, TxSegments, TxStream, IsEmpty, txRing

(* A step of the handler or of the UART elsewhere. *)
LEMMA RxFrame ==
    ASSUME RxInv, UNCHANGED <<rxRing, rbr, mpc, cnt1, cnt2, buf, read>>
    PROVE  RxInv' /\ RxStep
<1>1. RxStep /\ RxHeld' = RxHeld /\ RxCount' = RxCount
  BY RxIdle
<1> QED
  BY <1>1 DEF RxInv, RxHolds, RxSegments, RxStream, rxRing

(* A step of SendRB. *)
LEMMA RxFrameSend ==
    ASSUME RxInv, UNCHANGED <<rxRing, rbr, read>>, mpc' \notin ReadPc
    PROVE  RxInv' /\ RxStep
<1>1. RxStep /\ RxHeld' = RxHeld /\ RxCount' = RxCount
  BY RxIdle
<1>2. mpc' \notin {"copy1", "tail1", "copy2", "tail2"}
  BY DEF ReadPc
<1> QED
  BY <1>1, <1>2 DEF RxInv, RxHolds, RxSegments, RxStream, rxRing

(***************************************************************************)
(* A byte leaves the transmit ring.                                        *)
(***************************************************************************)
LEMMA ByteOut ==
    ASSUME TypeOK, TxInv, TxByte
    PROVE  /\ txTail' \in Counter
           /\ thr' \in Seq(Byte) /\ Len(thr') = 1
           /\ TxHolds'
           /\ TxStep
<1>1. /\ txHead \in Counter /\ txTail \in Counter /\ txSlot \in [Slots -> Cell]
      /\ ~IsEmpty(txHead, txTail) /\ thr' = <<txSlot[SlotOf(txTail)]>>
      /\ txTail' = Add(txTail, 1) /\ txHead' = txHead /\ txSlot' = txSlot
      /\ TxCount <= Count /\ TxHeld \in Seq(Byte)
  BY DEF TypeOK, TxByte, TxInv, TxHolds, Cell
<1>2. /\ TxCount \in Nat /\ TxCount >= 1 /\ 1 \in 0 .. Count
      /\ SlotOf(txTail) + 1 <= Count
  <2>1. TxCount \in Nat /\ TxCount # 0
    BY <1>1, CountNat, EmptyCount DEF TxCount
  <2>2. SlotOf(txTail) \in 0 .. Count - 1 /\ Count \in Nat \ {0}
    BY <1>1, SlotType, RingAssumption, WrapWide DEF Slots, Counter
  <2> QED
    BY <2>1, <2>2
<1>3. /\ ReadSeg(txSlot, txTail, 1) = SubSeq(TxHeld, 1, 1)
      /\ Held(txHead, Add(txTail, 1), txSlot) = SubSeq(TxHeld, 2, Len(TxHeld))
  <2>1. /\ ReadSeg(txSlot, txTail, 1) = SubSeq(Held(txHead, txTail, txSlot), 1, 1)
        /\ Held(txHead, Add(txTail, 1), txSlot)
             = SubSeq(Held(txHead, txTail, txSlot), 1 + 1, Len(Held(txHead, txTail, txSlot)))
    BY <1>1, <1>2, HeldRead, ZenonT(30) DEF TxCount
  <2> QED
    BY <2>1 DEF TxHeld
<1>4. Len(TxHeld) = TxCount
  BY <1>1, HeldShape, ZenonT(30) DEF TxHeld, TxCount
<1>5. ReadSeg(txSlot, txTail, 1) = <<txSlot[SlotOf(txTail)]>>
  <2>1. SlotOf(txTail) \in Int
    BY <1>1, SlotType, WrapWide, RingAssumption DEF Counter, Slots
  <2>2. (SlotOf(txTail) + 1) - 1 = SlotOf(txTail)
    BY <2>1
  <2>3. ReadSeg(txSlot, txTail, 1) = [k \in 1 .. 1 |-> txSlot[SlotOf(txTail)]]
    BY <2>1, <2>2 DEF ReadSeg
  <2> QED
    BY <2>3
<1>6. thr' = SubSeq(TxHeld, 1, 1) /\ TxHeld' = SubSeq(TxHeld, 2, Len(TxHeld))
  BY <1>1, <1>3, <1>5 DEF TxHeld
<1>7. thr' \in Seq(Byte) /\ Len(thr') = 1
  <2>1. TxHeld[1] \in Byte
    BY <1>1, <1>2, <1>4, ElementOfSeq
  <2>2. \A i \in 1 .. 1 : TxHeld[i] \in Byte
    BY <2>1
  <2> QED
    BY <1>6, <2>2, SubSeqProperties
<1>8. TxHeld' \in Seq(Byte)
  <2>1. \A i \in 2 .. Len(TxHeld) : TxHeld[i] \in Byte
    BY <1>1, <1>2, <1>4, ElementOfSeq
  <2> QED
    BY <1>2, <1>4, <1>6, <2>1, SubSeqProperties
<1>9. txTail' \in Counter /\ TxCount' = TxCount - 1
  BY <1>1, <1>2, AddValue, CountAfterRead DEF TxCount
<1>10. TxHolds'
  BY <1>1, <1>2, <1>8, <1>9, RingAssumption DEF TxHolds
<1>11. TxStep
  <2>1. 1 \in 1 .. Len(TxHeld)
    BY <1>2, <1>4
  <2>2. TxChannel!Take(1)
    BY <1>1, <1>6 DEF TxChannel!Take, TxHeld
  <2> QED
    BY <2>1, <2>2 DEF TxStep, TxChannel!BNext, TxHeld
<1> QED
  BY <1>7, <1>9, <1>10, <1>11

(***************************************************************************)
(* A segment of a request goes into the transmit ring.                     *)
(***************************************************************************)
LEMMA SegmentIn ==
    ASSUME TypeOK, TxInv, mpc \in SendPc, NEW n \in 0 .. Count, Fits(n),
           WriteCopy(n), UNCHANGED <<txTail, data, thr>>
    PROVE  /\ txHead' \in Counter
           /\ txSlot' \in [Slots -> Cell]
           /\ ret' \in 0 .. Len(data)
           /\ TxHolds'
           /\ TxCount' = TxCount + n
           /\ \A i \in ret' + 1 .. Len(data) :
                data[i] \in Stream[(txHead' + ((i - ret') - 1)) % Wrap]
           /\ TxStep
<1> DEFINE s == SubSeq(data, ret + 1, ret + n)
<1>1. /\ txHead \in Counter /\ txTail \in Counter /\ txSlot \in [Slots -> Cell]
      /\ data \in Seq(Byte) /\ ret \in 0 .. Len(data)
      /\ TxCount <= Count /\ TxHeld \in Seq(Byte)
      /\ txSlot' = WriteSeg(txSlot, txHead, s)
      /\ txHead' = Add(txHead, n) /\ ret' = ret + n /\ txTail' = txTail
      /\ data' = data /\ thr' = thr
  BY DEF TypeOK, TxInv, TxHolds, WriteCopy, Cell
<1>2. /\ n \in Nat /\ ret \in Nat /\ Len(data) \in Nat /\ ret + n <= Len(data)
      /\ TxCount \in Nat /\ TxCount + n <= Count /\ SlotOf(txHead) + n <= Count
      /\ Count \in Nat \ {0}
  <2>1. Len(data) \in Nat /\ TxCount \in Nat
    BY <1>1, LenProperties, CountNat DEF TxCount
  <2> QED
    BY <1>1, <2>1, RingAssumption DEF Fits
<1>3. s \in Seq(Byte) /\ Len(s) = n /\ \A i \in 1 .. n : s[i] = data[ret + i]
  <2>1. \A i \in ret + 1 .. ret + n : data[i] \in Byte
    BY <1>1, <1>2, ElementOfSeq
  <2>2. /\ s \in Seq(Byte)
        /\ Len(s) = IF ret + 1 <= ret + n THEN (ret + n) - (ret + 1) + 1 ELSE 0
        /\ \A i \in 1 .. (ret + n) - (ret + 1) + 1 : s[i] = data[(ret + 1) + i - 1]
    BY <1>2, <2>1, SubSeqProperties
  <2>3. (ret + n) - (ret + 1) + 1 = n /\ \A i \in 1 .. n : (ret + 1) + i - 1 = ret + i
    BY <1>2
  <2> HIDE DEF s
  <2> QED
    BY <1>2, <2>2, <2>3
<1> HIDE DEF s
<1>4. s \in Seq(Cell)
  BY <1>3, SeqMonotonic DEF Cell
<1>5. TxHeld' = TxHeld \o s
  <2>1. Held(Add(txHead, Len(s)), txTail, WriteSeg(txSlot, txHead, s))
          = Held(txHead, txTail, txSlot) \o s
    <3>1. /\ DataCount(txHead, txTail) + Len(s) <= Count
          /\ SlotOf(txHead) + Len(s) <= Count
      BY <1>2, <1>3 DEF TxCount
    <3>2. txHead \in Counter /\ txTail \in Counter /\ txSlot \in [Slots -> Cell]
      BY <1>1
    <3> QED
      BY <3>1, <3>2, <1>4, CellWrite
  <2> QED
    BY <1>1, <1>3, <2>1 DEF TxHeld
<1>6. txHead' \in Counter /\ TxCount' = TxCount + n
  BY <1>1, <1>2, AddValue, CountAfterWrite DEF TxCount
<1>7. txSlot' \in [Slots -> Cell]
  <2>1. txHead \in Int
    BY <1>1, WrapWide DEF Counter
  <2> QED
    BY <1>1, <1>4, <2>1, WriteSegValue
<1>8. TxHolds'
  BY <1>1, <1>2, <1>3, <1>5, <1>6, ConcatProperties DEF TxHolds
<1>9. \A i \in ret + 1 .. Len(data) :
         data[i] \in Stream[(txHead + ((i - ret) - 1)) % Wrap]
  BY DEF TxInv, TxStream
<1>10. ASSUME NEW i \in ret' + 1 .. Len(data)
       PROVE  data[i] \in Stream[(txHead' + ((i - ret') - 1)) % Wrap]
  <2>1. /\ i \in ret + 1 .. Len(data) /\ txHead + n \in Int
        /\ (i - ret') - 1 \in Int
        /\ (txHead + n) + ((i - ret') - 1) = txHead + ((i - ret) - 1)
    BY <1>1, <1>2, WrapWide DEF Counter
  <2>2. (txHead' + ((i - ret') - 1)) % Wrap = (txHead + ((i - ret) - 1)) % Wrap
    BY <1>1, <2>1, ModAdd DEF Add
  <2> QED
    BY <1>9, <2>1, <2>2
<1>11. TxStep
  <2>1. CASE n = 0
    <3>1. s = <<>>
      BY <1>3, <2>1, EmptySeq
    <3>2. TxHeld' = TxHeld
      BY <1>1, <1>5, <3>1, ConcatEmptySeq
    <3>3. txHead' = txHead
      BY <1>1, <2>1, AddNothing
    <3> QED
      BY <1>1, <3>2, <3>3 DEF TxStep
  <2>2. CASE n > 0
    <3>1. s \in TxChannel!Run
      <4>1. s \in [1 .. n -> Byte] /\ n \in 1 .. Count
        BY <1>2, <1>3, <2>2, LenProperties
      <4> QED
        BY <4>1 DEF TxChannel!Run
    <3>2. Len(TxHeld) = TxCount
      BY <1>1, CellShape DEF TxHeld, TxCount
    <3>3. \A i \in 1 .. Len(s) : s[i] \in Stream[((txHead + i) - 1) % Wrap]
      <4> SUFFICES ASSUME NEW i \in 1 .. n
                   PROVE  s[i] \in Stream[((txHead + i) - 1) % Wrap]
        BY <1>3
      <4>1. /\ ret + i \in ret + 1 .. Len(data)
            /\ txHead + (((ret + i) - ret) - 1) = (txHead + i) - 1
        BY <1>1, <1>2, WrapWide DEF Counter
      <4> QED
        BY <1>3, <1>9, <4>1
    <3>4. TxChannel!Put(s)
      BY <1>1, <1>2, <1>3, <1>5, <3>2, <3>3 DEF TxChannel!Put, TxHeld, Add
    <3> QED
      BY <3>1, <3>4 DEF TxStep, TxChannel!BNext, TxHeld
  <2> QED
    BY <1>2, <2>1, <2>2
<1>12. ret' \in 0 .. Len(data)
  BY <1>1, <1>2
<1> QED
  BY <1>6, <1>7, <1>8, <1>10, <1>11, <1>12

(***************************************************************************)
(* A byte goes into the receive ring, or is dropped.                       *)
(***************************************************************************)
LEMMA ByteIn ==
    ASSUME TypeOK, RxInv, IsrRx
    PROVE  /\ rxHead' \in Counter
           /\ rxSlot' \in [Slots -> Cell]
           /\ RxInv'
           /\ RxStep
<1>1. /\ rxHead \in Counter /\ rxTail \in Counter /\ rxSlot \in [Slots -> Cell]
      /\ rbr \in Byte /\ rbr' = NoByte /\ rxTail' = rxTail
      /\ UNCHANGED <<mpc, cnt1, cnt2, buf, read>>
      /\ RxCount <= Count /\ RxHeld \in Seq(Byte)
      /\ rbr \in Stream[rxHead]
  BY DEF TypeOK, IsrRx, RxInv, RxHolds, RxStream, Cell, call, rxRing
<1>2. RxStream'
  BY <1>1 DEF RxStream
<1>3. CASE IsFull(rxHead, rxTail)
  <2>1. UNCHANGED rxRing
    BY <1>3 DEF IsrRx
  <2>2. RxStep /\ RxHeld' = RxHeld /\ RxCount' = RxCount
    BY <1>1, <2>1, RxIdle
  <2>3. RxHolds' /\ RxSegments'
    BY <1>1, <2>1, <2>2 DEF RxInv, RxHolds, RxSegments, rxRing
  <2> QED
    BY <1>1, <1>2, <2>1, <2>2, <2>3 DEF rxRing, RxInv
<1>4. CASE ~IsFull(rxHead, rxTail)
  <2> DEFINE s == <<rbr>>
  <2>1. /\ rxSlot' = [rxSlot EXCEPT ![SlotOf(rxHead)] = rbr]
        /\ rxHead' = Add(rxHead, 1)
    BY <1>4 DEF IsrRx
  <2>2. s \in Seq(Byte) /\ s \in Seq(Cell) /\ Len(s) = 1 /\ s[1] = rbr
    BY <1>1 DEF Cell
  <2>3. /\ RxCount \in Nat /\ RxCount + 1 <= Count /\ SlotOf(rxHead) \in 0 .. Count - 1
        /\ Count \in Nat \ {0} /\ 1 \in 0 .. Count /\ SlotOf(rxHead) + 1 <= Count
    <3>1. RxCount \in Nat /\ RxCount < Count
      BY <1>1, <1>4, CountNat, RingAssumption DEF RxCount, IsFull
    <3>2. SlotOf(rxHead) \in 0 .. Count - 1
      BY <1>1, SlotType, WrapWide, SMTT(30) DEF Counter, Slots
    <3> QED
      BY <3>1, <3>2, RingAssumption
  <2> HIDE DEF s
  <2>4. rxSlot' = WriteSeg(rxSlot, rxHead, s)
    <3>1. rxHead \in Int
      BY <1>1, WrapWide DEF Counter
    <3>2. \A k \in Slots :
            WriteSeg(rxSlot, rxHead, s)[k] =
              IF k - SlotOf(rxHead) \in 0 .. Len(s) - 1
                THEN s[(k - SlotOf(rxHead)) + 1] ELSE rxSlot[k]
      BY DEF WriteSeg
    <3>3. \A k \in Slots :
            WriteSeg(rxSlot, rxHead, s)[k]
              = IF k = SlotOf(rxHead) THEN rbr ELSE rxSlot[k]
      <4> SUFFICES ASSUME NEW k \in Slots
                   PROVE  WriteSeg(rxSlot, rxHead, s)[k]
                            = IF k = SlotOf(rxHead) THEN rbr ELSE rxSlot[k]
        OBVIOUS
      <4>1. k \in Int /\ SlotOf(rxHead) \in Int
        BY <2>3 DEF Slots
      <4>2. k - SlotOf(rxHead) \in 0 .. Len(s) - 1 <=> k = SlotOf(rxHead)
        BY <2>2, <4>1
      <4>3. k = SlotOf(rxHead) => (k - SlotOf(rxHead)) + 1 = 1
        BY <4>1
      <4> QED
        BY <2>2, <3>2, <4>2, <4>3
    <3>4. \A k \in Slots : rxSlot'[k] = IF k = SlotOf(rxHead) THEN rbr ELSE rxSlot[k]
      BY <1>1, <2>1
    <3>5. rxSlot' \in [Slots -> Cell]
      BY <1>1, <2>1 DEF Cell
    <3> QED
      BY <3>3, <3>4, <3>5, Zenon DEF WriteSeg
  <2>5. RxHeld' = RxHeld \o s
    <3>1. /\ DataCount(rxHead, rxTail) + Len(s) <= Count
          /\ SlotOf(rxHead) + Len(s) <= Count
      BY <2>2, <2>3 DEF RxCount
    <3>2. Held(Add(rxHead, Len(s)), rxTail, WriteSeg(rxSlot, rxHead, s))
            = Held(rxHead, rxTail, rxSlot) \o s
      BY <1>1, <2>2, <3>1, CellWrite
    <3> QED
      BY <1>1, <2>1, <2>2, <2>4, <3>2 DEF RxHeld
  <2>6. rxHead' \in Counter /\ RxCount' = RxCount + 1
    BY <1>1, <2>1, <2>3, AddValue, CountAfterWrite DEF RxCount
  <2>7. Len(RxHeld) = RxCount
    BY <1>1, HeldShape, ZenonT(60) DEF RxHeld, RxCount
  <2>8. RxHolds'
    BY <1>1, <2>2, <2>3, <2>5, <2>6, ConcatProperties DEF RxHolds
  <2>9. \A n \in 0 .. Count : n <= RxCount => SubSeq(RxHeld', 1, n) = SubSeq(RxHeld, 1, n)
    <3> SUFFICES ASSUME NEW n \in 0 .. Count, n <= RxCount
                 PROVE  SubSeq(RxHeld', 1, n) = SubSeq(RxHeld, 1, n)
      OBVIOUS
    <3>1. CASE n = 0
      <4>1. 1 \in Int /\ n \in Int /\ n < 1
        BY <3>1
      <4>2. SubSeq(RxHeld', 1, n) = <<>> /\ SubSeq(RxHeld, 1, n) = <<>>
        BY <4>1, SubSeqEmpty
      <4> QED
        BY <4>2
    <3>2. CASE n # 0
      <4>1. 1 \in 1 .. Len(RxHeld) /\ n \in 1 .. Len(RxHeld)
        BY <2>3, <2>7, <3>2
      <4>2. SubSeq(RxHeld \o s, 1, n) = SubSeq(RxHeld, 1, n)
        BY <1>1, <2>2, <4>1, SubSeqOfConcat1
      <4> QED
        BY <2>5, <4>2
    <3> QED
      BY <3>1, <3>2
  <2>10. RxSegments'
    <3>1. cnt1 \in 0 .. Count /\ cnt2 \in 0 .. Count
      BY DEF TypeOK
    <3>2. mpc = "tail1" => buf = SubSeq(RxHeld', 1, cnt1)
      BY <2>3, <2>9, <3>1 DEF RxInv, RxSegments
    <3>3. mpc = "tail2" => buf = SubSeq(RxHeld', 1, cnt2)
      BY <2>9, <3>1 DEF RxInv, RxSegments
    <3> QED
      BY <1>1, <2>3, <2>6, <3>1, <3>2, <3>3 DEF RxInv, RxSegments
  <2>11. RxStep
    <3>1. s \in RxChannel!Run
      <4>1. s \in [1 .. 1 -> Byte] /\ 1 \in 1 .. Count
        BY <2>2, <2>3, LenProperties, SMTT(30)
      <4> QED
        BY <4>1 DEF RxChannel!Run
    <3>2. \A i \in 1 .. Len(s) : s[i] \in Stream[((rxHead + i) - 1) % Wrap]
      <4> SUFFICES s[1] \in Stream[((rxHead + 1) - 1) % Wrap]
        BY <2>2
      <4>1. (rxHead + 1) - 1 = rxHead /\ rxHead = Wrap * 0 + rxHead /\ rxHead \in Int
            /\ rxHead \in 0 .. Wrap - 1
        BY <1>1, WrapWide DEF Counter
      <4>2. rxHead % Wrap = rxHead
        BY <4>1, WrapWide, ModUnique
      <4> QED
        BY <1>1, <2>2, <4>1, <4>2
    <3>3. RxChannel!Put(s)
      BY <1>1, <2>1, <2>2, <2>3, <2>5, <2>7, <3>2 DEF RxChannel!Put, RxHeld, Add
    <3> QED
      BY <3>1, <3>3 DEF RxStep, RxChannel!BNext, RxHeld
  <2>12. rxSlot' \in [Slots -> Cell]
    BY <1>1, <2>1 DEF Cell
  <2> QED
    BY <1>2, <2>6, <2>8, <2>10, <2>11, <2>12 DEF RxInv
<1> QED
  BY <1>3, <1>4

(***************************************************************************)
(* ReadRB copies a segment of the receive ring and then gives it up.       *)
(***************************************************************************)
LEMMA SegmentCopied ==
    ASSUME TypeOK, RxInv, NEW n \in 0 .. Count, n <= RxCount, SlotOf(rxTail) + n <= Count
    PROVE  /\ ReadSeg(rxSlot, rxTail, n) = SubSeq(RxHeld, 1, n)
           /\ ReadSeg(rxSlot, rxTail, n) \in Seq(Byte)
           /\ Len(ReadSeg(rxSlot, rxTail, n)) = n
<1>1. /\ rxHead \in Counter /\ rxTail \in Counter /\ rxSlot \in [Slots -> Cell]
      /\ RxCount <= Count /\ RxHeld \in Seq(Byte) /\ RxCount \in Nat
  BY CountNat DEF TypeOK, RxInv, RxHolds, Cell, RxCount
<1>2. ReadSeg(rxSlot, rxTail, n) = SubSeq(RxHeld, 1, n)
  BY <1>1, HeldRead, ZenonT(30) DEF RxHeld, RxCount
<1>3. Len(RxHeld) = RxCount
  BY <1>1, HeldShape, ZenonT(60) DEF RxHeld, RxCount
<1>4. \A i \in 1 .. n : RxHeld[i] \in Byte
  BY <1>1, <1>3, ElementOfSeq, RingAssumption
<1>5. /\ SubSeq(RxHeld, 1, n) \in Seq(Byte)
      /\ Len(SubSeq(RxHeld, 1, n)) = IF 1 <= n THEN n - 1 + 1 ELSE 0
  BY <1>4, SubSeqProperties, RingAssumption
<1>6. (IF 1 <= n THEN n - 1 + 1 ELSE 0) = n
  BY RingAssumption
<1> QED
  BY <1>2, <1>5, <1>6

LEMMA SegmentGone ==
    ASSUME TypeOK, RxInv, NEW n \in 0 .. Count, n <= RxCount, SlotOf(rxTail) + n <= Count,
           buf = SubSeq(RxHeld, 1, n),
           rxTail' = Add(rxTail, n), UNCHANGED <<rxHead, rxSlot>>,
           read' = IF n = 0 THEN read ELSE buf
    PROVE  /\ rxTail' \in Counter
           /\ RxHolds' /\ RxCount' = RxCount - n
           /\ RxStep
<1>1. /\ rxHead \in Counter /\ rxTail \in Counter /\ rxSlot \in [Slots -> Cell]
      /\ RxCount <= Count /\ RxHeld \in Seq(Byte) /\ RxCount \in Nat
  BY CountNat DEF TypeOK, RxInv, RxHolds, Cell, RxCount
<1>2. n \in Nat /\ Count \in Nat
  BY RingAssumption
<1>3. rxTail' \in Counter /\ RxCount' = RxCount - n
  BY <1>1, <1>2, AddValue, CountAfterRead DEF RxCount
<1>4. Len(RxHeld) = RxCount
  BY <1>1, HeldShape DEF RxHeld, RxCount
<1>5. RxHeld' = SubSeq(RxHeld, n + 1, Len(RxHeld))
  BY <1>1, HeldRead, ZenonT(30) DEF RxHeld, RxCount
<1>6. RxHeld' \in Seq(Byte)
  <2>1. \A i \in n + 1 .. Len(RxHeld) : RxHeld[i] \in Byte
    BY <1>1, <1>2, <1>4, ElementOfSeq
  <2> QED
    BY <1>1, <1>2, <1>4, <1>5, <2>1, SubSeqProperties
<1>7. RxHolds'
  BY <1>1, <1>2, <1>3, <1>6 DEF RxHolds
<1>8. RxStep
  <2>1. CASE n = 0
    <3>1. rxTail' = rxTail /\ read' = read
      BY <1>1, <2>1, AddNothing
    <3> QED
      BY <3>1 DEF RxStep, RxHeld
  <2>2. CASE n # 0
    <3>1. n \in 1 .. Len(RxHeld) /\ read' = SubSeq(RxHeld, 1, n)
      BY <1>1, <1>2, <1>4, <2>2
    <3>2. RxChannel!Take(n)
      BY <1>5, <3>1 DEF RxChannel!Take, RxHeld
    <3> QED
      BY <3>1, <3>2 DEF RxStep, RxChannel!BNext, RxHeld
  <2> QED
    BY <2>1, <2>2
<1> QED
  BY <1>3, <1>7, <1>8

(***************************************************************************)
(* Every step keeps the invariant and is a step of the two channels.       *)
(***************************************************************************)
Inv == TypeOK /\ TxInv /\ RxInv

Good == TypeOK' /\ TxInv' /\ RxInv' /\ TxStep /\ RxStep

LEMMA UartSteps ==
    ASSUME Inv, Transmit \/ \E b \in Stream[rxHead] : Receive(b)
    PROVE  Good
<1>1. CASE Transmit
  <2>1. TxInv' /\ TxStep
    BY <1>1, TxFrame DEF Inv, Transmit, call
  <2>2. RxInv' /\ RxStep
    BY <1>1, RxFrame DEF Inv, Transmit, call
  <2>3. TypeOK'
    BY <1>1 DEF Inv, Transmit, TypeOK, txRing, rxRing, call
  <2> QED
    BY <2>1, <2>2, <2>3 DEF Good
<1>2. ASSUME NEW b \in Stream[rxHead], Receive(b) PROVE Good
  <2>1. TxInv' /\ TxStep
    BY <1>2, TxFrame DEF Inv, Receive, call
  <2>2. RxStep /\ RxHeld' = RxHeld /\ RxCount' = RxCount
    BY <1>2, RxIdle DEF Receive, call
  <2>3. RxInv'
    BY <1>2, <2>2 DEF Inv, RxInv, RxHolds, RxSegments, RxStream, Receive, rxRing, call
  <2>4. b \in Byte
    BY UartAssumption DEF Inv, TypeOK
  <2>5. TypeOK'
    BY <1>2, <2>4 DEF Inv, Receive, TypeOK, txRing, rxRing, call
  <2> QED
    BY <2>1, <2>2, <2>3, <2>5 DEF Good
<1> QED
  BY <1>1, <1>2

LEMMA IsrEnterLeave ==
    ASSUME Inv, IsrEnter \/ IsrLeave
    PROVE  Good
<1>1. UNCHANGED <<txRing, rxRing, uart, mpc, call>>
  BY DEF IsrEnter, IsrLeave
<1>2. RxInv' /\ RxStep
  BY <1>1, RxFrame DEF Inv, uart, call
<1>3. TxStep /\ TxHeld' = TxHeld /\ TxCount' = TxCount
  BY <1>1, TxIdle DEF uart
<1>4. TxMasked'
  BY <1>1 DEF Inv, TxInv, TxMasked, IsrEnter, IsrLeave, uart
<1>5. TxInv'
  BY <1>1, <1>3, <1>4
  DEF Inv, TxInv, TxArmed, TxHolds, TxSegments, Fits, TxStream, IsEmpty, txRing, uart, call
<1>6. TypeOK'
  BY <1>1 DEF Inv, TypeOK, IsrEnter, IsrLeave, txRing, rxRing, uart, call
<1> QED
  BY <1>2, <1>3, <1>5, <1>6 DEF Good

LEMMA IsrTxStep ==
    ASSUME Inv, IsrTx
    PROVE  Good
<1>1. /\ isr = "tx" /\ mpc \notin SendPc
      /\ UNCHANGED <<rxRing, rbr, mpc, call>>
  BY DEF Inv, TxInv, TxMasked, IsrTx
<1>2. RxInv' /\ RxStep
  BY <1>1, RxFrame DEF Inv, call
<1>3. CASE TxByte /\ UNCHANGED isr
  <2>1. /\ txTail' \in Counter /\ thr' \in Seq(Byte) /\ Len(thr') = 1
        /\ TxHolds' /\ TxStep
    BY <1>3, ByteOut DEF Inv
  <2>2. threInt
    BY <1>1, <1>3 DEF Inv, TxInv, TxArmed, TxByte
  <2>3. mpc \notin {"seg1", "seg1b", "seg2", "seg2b"}
    BY <1>1 DEF SendPc, InsertPc
  <2>4. TxInv'
    BY <1>1, <1>3, <2>1, <2>2, <2>3
    DEF TxInv, TxMasked, TxArmed, TxSegments, TxStream, TxByte
  <2>5. TypeOK'
    <3>1. UNCHANGED <<txHead, txSlot, threInt>> /\ thre' \in BOOLEAN
      BY <1>3 DEF TxByte
    <3> QED
      BY <1>1, <1>3, <2>1, <3>1 DEF Inv, TypeOK, rxRing, call
  <2> QED
    BY <1>2, <2>1, <2>4, <2>5 DEF Good
<1>4. CASE TxDone /\ isr' = "rx"
  <2>1. TxStep /\ TxHeld' = TxHeld /\ TxCount' = TxCount
    BY <1>4, TxIdle DEF TxDone
  <2>2. mpc \notin {"seg1", "seg1b", "seg2", "seg2b"}
    BY <1>1 DEF SendPc, InsertPc
  <2>3. TxInv'
    BY <1>1, <1>4, <2>1, <2>2
    DEF Inv, TxInv, TxMasked, TxArmed, TxHolds, TxSegments, TxStream, TxDone, IsEmpty, txRing
  <2>4. TypeOK'
    BY <1>1, <1>4 DEF Inv, TypeOK, TxDone, txRing, rxRing, call
  <2> QED
    BY <1>2, <2>1, <2>3, <2>4 DEF Good
<1> QED
  BY <1>3, <1>4 DEF IsrTx

LEMMA IsrRxStep ==
    ASSUME Inv, IsrRx
    PROVE  Good
<1>1. rxHead' \in Counter /\ rxSlot' \in [Slots -> Cell] /\ RxInv' /\ RxStep
  BY ByteIn DEF Inv
<1>2. TxInv' /\ TxStep
  BY TxFrame DEF Inv, IsrRx, call
<1>3. rxTail' = rxTail /\ rbr' = NoByte
      /\ UNCHANGED <<txRing, threInt, thre, thr, isr, mpc, call>>
  BY DEF IsrRx, rxRing
<1>4. TypeOK'
  BY <1>1, <1>3 DEF Inv, TypeOK, Cell, txRing, call
<1> QED
  BY <1>1, <1>2, <1>4 DEF Good

(***************************************************************************)
(* SendRB                                                                  *)
(***************************************************************************)
LEMMA SendCallStep ==
    ASSUME Inv, NEW n \in SendLen, NEW s \in Requests(n), SendCall(s),
           isr = "none", UNCHANGED isr
    PROVE  Good
<1>1. /\ n \in Nat /\ s \in Seq(Byte) /\ Len(s) = n
      /\ \A i \in 1 .. n : s[i] \in Stream[(txHead + i - 1) % Wrap]
  <2>1. n \in Nat /\ s \in [1 .. n -> Byte]
    BY UartAssumption DEF Requests
  <2>2. s \in Seq(Byte)
    BY <2>1, SeqDef
  <2> QED
    BY <2>1, <2>2, LenProperties DEF Requests
<1>2. RxInv' /\ RxStep
  <2>1. mpc' \notin ReadPc
    BY DEF SendCall, ReadPc
  <2> QED
    BY <2>1, RxFrameSend DEF Inv, SendCall
<1>3. TxStep /\ TxHeld' = TxHeld /\ TxCount' = TxCount
  BY TxIdle DEF SendCall
<1>4. TxStream'
  <2>1. txHead \in Int
    BY WrapWide DEF Inv, TypeOK, Counter
  <2>2. \A i \in 1 .. n : txHead + ((i - 0) - 1) = txHead + i - 1
    BY <1>1, <2>1
  <2>3. data' = s /\ ret' = 0 /\ txHead' = txHead
    BY DEF SendCall, txRing
  <2>4. \A i \in 1 .. n : s[i] \in Stream[(txHead + ((i - 0) - 1)) % Wrap]
    BY <1>1, <2>2
  <2>5. 0 + 1 = 1
    OBVIOUS
  <2> QED
    BY <1>1, <2>3, <2>4, <2>5 DEF TxStream
<1>5. TxInv'
  BY <1>3, <1>4
  DEF Inv, TxInv, TxMasked, TxArmed, TxHolds, TxSegments, SendCall, SendPc, InsertPc
<1>6. TypeOK'
  <2>1. /\ UNCHANGED <<txRing, rxRing, thre, thr, rbr, cnt1, cnt2, buf, read>>
        /\ threInt' \in BOOLEAN /\ data' = s /\ ret' = 0 /\ mpc' \in SendPc
    BY DEF SendCall, SendPc, InsertPc
  <2>2. ret' \in 0 .. Len(data')
    BY <1>1, <2>1
  <2> QED
    BY <1>1, <2>1, <2>2 DEF Inv, TypeOK, txRing, rxRing
<1> QED
  BY <1>2, <1>3, <1>5, <1>6 DEF Good

LEMMA InsertStep ==
    ASSUME Inv, NEW here \in InsertPc, NEW seg \in {"seg1", "seg1b"},
           NEW done \in {"pump", "enable"}, Insert(here, seg, done),
           UNCHANGED isr
    PROVE  Good
<1>1. /\ mpc \in SendPc /\ mpc' \in {seg, done} /\ mpc' \in SendPc /\ mpc' \notin ReadPc
      /\ mpc' \notin {"seg2", "seg2b"}
      /\ UNCHANGED <<txRing, rxRing, uart, data, ret, buf, read>>
  BY DEF Insert, SendPc, InsertPc, ReadPc
<1>2. RxInv' /\ RxStep
  BY <1>1, RxFrameSend DEF Inv, uart
<1>3. TxStep /\ TxHeld' = TxHeld /\ TxCount' = TxCount
  BY <1>1, TxIdle DEF uart
<1>4. TxMasked' /\ TxArmed' /\ TxHolds' /\ TxStream'
  BY <1>1, <1>3
  DEF Inv, TxInv, TxMasked, TxArmed, TxHolds, TxStream, txRing, uart
<1>5. TxSegments' /\ cnt1' \in 0 .. Count /\ cnt2' \in 0 .. Count
  <2>1. CASE IsFull(txHead, txTail)
    BY <1>1, <2>1 DEF Insert, TxSegments, Inv, TypeOK
  <2>2. CASE ~IsFull(txHead, txTail)
    <3> DEFINE free == GetFree(txHead, txTail)
               num == Len(data) - ret
    <3>1. cnt1' = Cnt1(txHead, free, num) /\ cnt2' = Cnt2(txHead, free, num)
      BY <2>2 DEF Insert
    <3>2. free = Count - TxCount
      BY DEF GetFree, TxCount
    <3>3. TxCount \in Nat /\ TxCount <= Count /\ Count \in Nat
      BY CountNat, RingAssumption DEF Inv, TypeOK, TxInv, TxHolds, TxCount
    <3>4. num \in Nat
      BY LenProperties DEF Inv, TypeOK
    <3>5. txHead \in Int
      BY WrapWide DEF Inv, TypeOK, Counter
    <3> HIDE DEF free, num
    <3>6. free \in 0 .. Count
      BY <3>2, <3>3
    <3>7. /\ cnt1' \in 0 .. Count /\ cnt2' \in 0 .. Count
          /\ cnt1' + cnt2' <= free /\ cnt1' + cnt2' <= num
          /\ SlotOf(txHead) + cnt1' <= Count
          /\ cnt2' > 0 => SlotOf(txHead) + cnt1' = Count
      BY <3>1, <3>4, <3>5, <3>6, Segments
    <3>8. TxSegments'
      BY <1>1, <1>3, <3>2, <3>7 DEF TxSegments, txRing, num
    <3> QED
      BY <3>7, <3>8
  <2> QED
    BY <2>1, <2>2
<1>6. TypeOK'
  BY <1>1, <1>5 DEF Inv, TypeOK, txRing, rxRing, uart
<1> QED
  BY <1>2, <1>3, <1>4, <1>5, <1>6 DEF Good, TxInv

LEMMA Seg1Step ==
    ASSUME Inv, NEW here \in {"seg1", "seg1b"}, NEW next \in {"seg2", "seg2b"},
           InsertSeg1(here, next), UNCHANGED isr
    PROVE  Good
<1>1. /\ mpc \in {"seg1", "seg1b"} /\ mpc \in SendPc
      /\ mpc' \in {"seg2", "seg2b"} /\ mpc' \in SendPc /\ mpc' \notin ReadPc
      /\ WriteCopy(cnt1)
      /\ UNCHANGED <<txTail, rxRing, uart, data, cnt1, cnt2, buf, read, thr>>
  BY DEF InsertSeg1, SendPc, InsertPc, ReadPc, uart
<1>2. RxInv' /\ RxStep
  BY <1>1, RxFrameSend DEF Inv, uart
<1>3. /\ cnt1 \in 0 .. Count /\ cnt2 \in 0 .. Count /\ Count \in Nat
      /\ TxCount \in Nat /\ txHead \in Counter /\ ret \in Nat /\ Len(data) \in Nat
      /\ cnt1 + cnt2 <= Count - TxCount
      /\ cnt1 + cnt2 <= Len(data) - ret
      /\ SlotOf(txHead) + cnt1 <= Count
      /\ cnt2 > 0 => SlotOf(txHead) + cnt1 = Count
  BY <1>1, CountNat, RingAssumption, LenProperties
  DEF Inv, TypeOK, TxInv, TxSegments, TxCount
<1>4. Fits(cnt1)
  BY <1>3 DEF Fits
<1>5. /\ txHead' \in Counter /\ txSlot' \in [Slots -> Cell]
      /\ ret' \in 0 .. Len(data) /\ TxHolds' /\ TxCount' = TxCount + cnt1
      /\ \A i \in ret' + 1 .. Len(data) :
           data[i] \in Stream[(txHead' + ((i - ret') - 1)) % Wrap]
      /\ TxStep
  BY <1>1, <1>3, <1>4, SegmentIn DEF Inv
<1>6. Fits(cnt2)'
  <2>1. SlotOf(txHead') + cnt2 <= Count
    BY <1>1, <1>3, SecondSegment DEF WriteCopy
  <2>2. ret' = ret + cnt1
    BY <1>1 DEF WriteCopy
  <2> QED
    BY <1>1, <1>3, <1>5, <2>1, <2>2 DEF Fits
<1>7. TxInv'
  <2>1. mpc' \notin {"seg1", "seg1b"}
    BY <1>1
  <2>2. TxMasked' /\ TxArmed'
    BY <1>1 DEF Inv, TxInv, TxMasked, TxArmed, uart
  <2>3. TxSegments'
    BY <1>6, <2>1 DEF TxSegments
  <2>4. TxStream'
    BY <1>1, <1>5 DEF TxStream
  <2> QED
    BY <1>5, <2>2, <2>3, <2>4 DEF TxInv
<1>8. TypeOK'
  BY <1>1, <1>5 DEF Inv, TypeOK, Cell, rxRing, uart
<1> QED
  BY <1>2, <1>5, <1>7, <1>8 DEF Good

LEMMA Seg2Step ==
    ASSUME Inv, NEW here \in {"seg2", "seg2b"}, NEW done \in {"pump", "enable"},
           InsertSeg2(here, done), UNCHANGED isr
    PROVE  Good
<1>1. /\ mpc \in {"seg2", "seg2b"} /\ mpc \in SendPc
      /\ mpc' \in {"pump", "enable"} /\ mpc' \in SendPc /\ mpc' \notin ReadPc
      /\ WriteCopy(cnt2) /\ cnt1' = 0 /\ cnt2' = 0
      /\ UNCHANGED <<txTail, rxRing, uart, data, buf, read, thr>>
  BY DEF InsertSeg2, SendPc, InsertPc, ReadPc, uart
<1>2. RxInv' /\ RxStep
  BY <1>1, RxFrameSend DEF Inv, uart
<1>3. cnt2 \in 0 .. Count /\ Fits(cnt2) /\ 0 \in 0 .. Count
  BY <1>1, RingAssumption DEF Inv, TypeOK, TxInv, TxSegments
<1>4. /\ txHead' \in Counter /\ txSlot' \in [Slots -> Cell]
      /\ ret' \in 0 .. Len(data) /\ TxHolds'
      /\ \A i \in ret' + 1 .. Len(data) :
           data[i] \in Stream[(txHead' + ((i - ret') - 1)) % Wrap]
      /\ TxStep
  BY <1>1, <1>3, SegmentIn DEF Inv
<1>5. TxInv'
  <2>1. mpc' \notin {"seg1", "seg1b", "seg2", "seg2b"}
    BY <1>1
  <2>2. TxMasked' /\ TxArmed'
    BY <1>1 DEF Inv, TxInv, TxMasked, TxArmed, uart
  <2>3. TxSegments'
    BY <2>1 DEF TxSegments
  <2>4. TxStream'
    BY <1>1, <1>4 DEF TxStream
  <2> QED
    BY <1>4, <2>2, <2>3, <2>4 DEF TxInv
<1>6. TypeOK'
  BY <1>1, <1>3, <1>4 DEF Inv, TypeOK, Cell, rxRing, uart
<1> QED
  BY <1>2, <1>4, <1>5, <1>6 DEF Good

LEMMA PumpStep ==
    ASSUME Inv, Pump, UNCHANGED isr
    PROVE  Good
<1>1. /\ mpc = "pump" /\ mpc \in SendPc /\ mpc' \in {"pump", "insert2"}
      /\ mpc' \in SendPc /\ mpc' \notin ReadPc
      /\ mpc' \notin {"seg1", "seg1b", "seg2", "seg2b"}
      /\ UNCHANGED <<rxRing, rbr, call>>
  BY DEF Pump, SendPc, InsertPc, ReadPc
<1>2. RxInv' /\ RxStep
  BY <1>1, RxFrameSend DEF Inv, call
<1>3. CASE TxByte /\ UNCHANGED mpc
  <2>1. /\ txTail' \in Counter /\ thr' \in Seq(Byte) /\ Len(thr') = 1
        /\ TxHolds' /\ TxStep
    BY <1>3, ByteOut DEF Inv
  <2>2. TxInv'
    BY <1>1, <1>3, <2>1
    DEF Inv, TxInv, TxMasked, TxArmed, TxSegments, TxStream, TxByte, call
  <2>3. TypeOK'
    <3>1. UNCHANGED <<txHead, txSlot, threInt>> /\ thre' \in BOOLEAN
      BY <1>3 DEF TxByte
    <3> QED
      BY <1>1, <1>3, <2>1, <3>1 DEF Inv, TypeOK, rxRing, call
  <2> QED
    BY <1>2, <2>1, <2>2, <2>3 DEF Good
<1>4. CASE TxDone /\ mpc' = "insert2"
  <2>1. TxStep /\ TxHeld' = TxHeld /\ TxCount' = TxCount
    BY <1>4, TxIdle DEF TxDone
  <2>2. TxInv'
    BY <1>1, <1>4, <2>1
    DEF Inv, TxInv, TxMasked, TxArmed, TxHolds, TxSegments, TxStream, TxDone, txRing, call
  <2>3. TypeOK'
    BY <1>1, <1>4 DEF Inv, TypeOK, TxDone, txRing, rxRing, call
  <2> QED
    BY <1>2, <2>1, <2>2, <2>3 DEF Good
<1> QED
  BY <1>3, <1>4 DEF Pump

LEMMA SendReturnStep ==
    ASSUME Inv, SendReturn, isr = "none", UNCHANGED isr
    PROVE  Good
<1>1. /\ threInt' = TRUE /\ mpc' = "idle" /\ data' = <<>> /\ ret' = 0
      /\ mpc' \notin SendPc /\ mpc' \notin ReadPc
      /\ UNCHANGED <<txRing, rxRing, thre, thr, rbr, cnt1, cnt2, buf, read>>
  BY DEF SendReturn, SendPc, InsertPc, ReadPc
<1>2. RxInv' /\ RxStep
  BY <1>1, RxFrameSend DEF Inv
<1>3. TxStep /\ TxHeld' = TxHeld /\ TxCount' = TxCount
  BY <1>1, TxIdle
<1>4. TxInv'
  BY <1>1, <1>3
  DEF Inv, TxInv, TxMasked, TxArmed, TxHolds, TxSegments, TxStream
<1>5. data' \in Seq(Byte) /\ Len(data') = 0
  BY <1>1, EmptySeq
<1>6. TypeOK'
  BY <1>1, <1>5 DEF Inv, TypeOK, txRing, rxRing
<1> QED
  BY <1>2, <1>3, <1>4, <1>6 DEF Good

(***************************************************************************)
(* ReadRB                                                                  *)
(***************************************************************************)
LEMMA ReadCallStep ==
    ASSUME Inv, NEW n \in ReadLen, ReadCall(n), UNCHANGED isr
    PROVE  Good
<1>1. /\ mpc = "idle" /\ mpc' = "copy1" /\ mpc \notin SendPc /\ mpc' \notin SendPc
      /\ mpc' \in ReadPc
      /\ cnt1' = Cnt1(rxTail, RxCount, n) /\ cnt2' = Cnt2(rxTail, RxCount, n)
      /\ UNCHANGED <<txRing, rxRing, uart, data, ret, buf, read>>
  BY DEF ReadCall, SendPc, InsertPc, ReadPc, RxCount
<1>2. TxInv' /\ TxStep
  BY <1>1, TxFrameRead DEF Inv, uart
<1>3. RxStep /\ RxHeld' = RxHeld /\ RxCount' = RxCount
  BY <1>1, RxIdle
<1>4. rxTail \in Int /\ RxCount \in 0 .. Count /\ n \in Nat
  BY CountNat, WrapWide, UartAssumption, RingAssumption
  DEF Inv, TypeOK, RxInv, RxHolds, RxCount, Counter
<1>5. /\ cnt1' \in 0 .. Count /\ cnt2' \in 0 .. Count
      /\ cnt1' + cnt2' <= RxCount
      /\ SlotOf(rxTail) + cnt1' <= Count
      /\ cnt2' > 0 => SlotOf(rxTail) + cnt1' = Count
  BY <1>1, <1>4, Segments
<1>6. RxInv'
  BY <1>1, <1>3, <1>5 DEF Inv, RxInv, RxHolds, RxSegments, RxStream, rxRing, uart
<1>7. TypeOK'
  BY <1>1, <1>5 DEF Inv, TypeOK, txRing, rxRing, uart
<1> QED
  BY <1>2, <1>3, <1>6, <1>7 DEF Good

LEMMA ReadCopyStep ==
    ASSUME Inv, UNCHANGED isr,
           ReadCopy("copy1", cnt1, "tail1") \/ ReadCopy("copy2", cnt2, "tail2")
    PROVE  Good
<1>1. /\ UNCHANGED <<txRing, rxRing, uart, data, ret, cnt1, cnt2, read>>
      /\ mpc \notin SendPc /\ mpc' \notin SendPc /\ mpc' \in ReadPc
  BY DEF ReadCopy, SendPc, InsertPc, ReadPc
<1>2. TxInv' /\ TxStep
  BY <1>1, TxFrameRead DEF Inv, uart
<1>3. RxStep /\ RxHeld' = RxHeld /\ RxCount' = RxCount
  BY <1>1, RxIdle
<1>4. cnt1 \in 0 .. Count /\ cnt2 \in 0 .. Count /\ Count \in Nat /\ RxCount \in Nat
  BY CountNat, RingAssumption DEF Inv, TypeOK, RxCount
<1>5. /\ mpc = "copy1" => buf' = SubSeq(RxHeld, 1, cnt1) /\ buf' \in Seq(Byte)
                          /\ mpc' = "tail1"
      /\ mpc = "copy2" => buf' = SubSeq(RxHeld, 1, cnt2) /\ buf' \in Seq(Byte)
                          /\ mpc' = "tail2"
      /\ mpc \in {"copy1", "copy2"}
  <2>1. CASE ReadCopy("copy1", cnt1, "tail1")
    <3>1. cnt1 <= RxCount /\ SlotOf(rxTail) + cnt1 <= Count
      BY <1>4, <2>1 DEF ReadCopy, Inv, RxInv, RxSegments
    <3> QED
      BY <1>4, <2>1, <3>1, SegmentCopied DEF ReadCopy, Inv
  <2>2. CASE ReadCopy("copy2", cnt2, "tail2")
    <3>1. cnt2 <= RxCount /\ SlotOf(rxTail) + cnt2 <= Count
      BY <2>2 DEF ReadCopy, Inv, RxInv, RxSegments
    <3> QED
      BY <1>4, <2>2, <3>1, SegmentCopied DEF ReadCopy, Inv
  <2> QED
    BY <2>1, <2>2
<1>6. RxInv'
  BY <1>1, <1>3, <1>5 DEF Inv, RxInv, RxHolds, RxSegments, RxStream, rxRing, uart
<1>7. TypeOK'
  BY <1>1, <1>5 DEF Inv, TypeOK, txRing, rxRing, uart
<1> QED
  BY <1>2, <1>3, <1>6, <1>7 DEF Good

LEMMA ReadTailStep ==
    ASSUME Inv, UNCHANGED isr,
           ReadTail("tail1", cnt1, "copy2") \/ ReadTail("tail2", cnt2, "idle")
    PROVE  Good
<1>1. /\ UNCHANGED <<txRing, rxHead, rxSlot, uart, data, ret>> /\ buf' = <<>>
      /\ mpc \notin SendPc /\ mpc' \notin SendPc /\ mpc' \in {"copy2", "idle"}
  BY DEF ReadTail, SendPc, InsertPc
<1>2. TxInv' /\ TxStep
  BY <1>1, TxFrameRead DEF Inv, uart
<1>3. /\ cnt1 \in 0 .. Count /\ cnt2 \in 0 .. Count /\ Count \in Nat /\ RxCount \in Nat
      /\ rxTail \in Counter /\ 0 \in 0 .. Count
  BY CountNat, RingAssumption DEF Inv, TypeOK, RxCount
<1>4. buf' \in Seq(Byte) /\ read' \in Seq(Byte)
  BY <1>1, EmptySeq DEF ReadTail, Inv, TypeOK
<1>5. /\ rxTail' \in Counter /\ RxHolds' /\ RxStep
      /\ RxSegments' /\ cnt1' \in 0 .. Count /\ cnt2' \in 0 .. Count
  <2>1. CASE ReadTail("tail1", cnt1, "copy2")
    <3>1. /\ cnt1 + cnt2 <= RxCount /\ SlotOf(rxTail) + cnt1 <= Count
          /\ cnt2 > 0 => SlotOf(rxTail) + cnt1 = Count
          /\ buf = SubSeq(RxHeld, 1, cnt1)
      BY <2>1 DEF ReadTail, Inv, RxInv, RxSegments
    <3>2. /\ rxTail' = Add(rxTail, cnt1) /\ read' = IF cnt1 = 0 THEN read ELSE buf
          /\ mpc' = "copy2" /\ UNCHANGED <<cnt1, cnt2, rxHead, rxSlot>>
      BY <2>1 DEF ReadTail
    <3>3. cnt1 <= RxCount
      BY <1>3, <3>1
    <3>4. rxTail' \in Counter /\ RxHolds' /\ RxCount' = RxCount - cnt1 /\ RxStep
      BY <1>3, <3>1, <3>2, <3>3, SegmentGone DEF Inv
    <3>5. SlotOf(rxTail') + cnt2 <= Count
      BY <1>3, <3>1, <3>2, SecondSegment
    <3>6. RxSegments'
      BY <1>3, <3>1, <3>2, <3>4, <3>5 DEF RxSegments
    <3> QED
      BY <1>3, <3>2, <3>4, <3>6
  <2>2. CASE ReadTail("tail2", cnt2, "idle")
    <3>1. /\ cnt2 <= RxCount /\ SlotOf(rxTail) + cnt2 <= Count
          /\ buf = SubSeq(RxHeld, 1, cnt2)
      BY <2>2 DEF ReadTail, Inv, RxInv, RxSegments
    <3>2. /\ rxTail' = Add(rxTail, cnt2) /\ read' = IF cnt2 = 0 THEN read ELSE buf
          /\ mpc' = "idle" /\ cnt1' = 0 /\ cnt2' = 0 /\ UNCHANGED <<rxHead, rxSlot>>
      BY <2>2 DEF ReadTail
    <3>3. rxTail' \in Counter /\ RxHolds' /\ RxStep
      BY <1>3, <3>1, <3>2, SegmentGone DEF Inv
    <3>4. RxSegments'
      BY <3>2 DEF RxSegments
    <3> QED
      BY <1>3, <3>2, <3>3, <3>4
  <2> QED
    BY <2>1, <2>2
<1>6. RxInv'
  BY <1>1, <1>5 DEF Inv, RxInv, RxStream, uart
<1>7. TypeOK'
  BY <1>1, <1>4, <1>5 DEF Inv, TypeOK, ReadPc, txRing, uart
<1> QED
  BY <1>2, <1>5, <1>6, <1>7 DEF Good

(***************************************************************************)
(* The theorems.                                                           *)
(***************************************************************************)
LEMMA SendSteps ==
    ASSUME Inv, Send, isr = "none", UNCHANGED isr
    PROVE  Good
<1>1. ASSUME NEW n \in SendLen, NEW s \in Requests(n), SendCall(s) PROVE Good
  BY <1>1, SendCallStep
<1>2. ASSUME Insert("insert1", "seg1", "pump") PROVE Good
  BY <1>2, InsertStep DEF InsertPc
<1>3. ASSUME Insert("insert2", "seg1b", "enable") PROVE Good
  BY <1>3, InsertStep DEF InsertPc
<1>4. ASSUME InsertSeg1("seg1", "seg2") PROVE Good
  BY <1>4, Seg1Step
<1>5. ASSUME InsertSeg1("seg1b", "seg2b") PROVE Good
  BY <1>5, Seg1Step
<1>6. ASSUME InsertSeg2("seg2", "pump") PROVE Good
  BY <1>6, Seg2Step
<1>7. ASSUME InsertSeg2("seg2b", "enable") PROVE Good
  BY <1>7, Seg2Step
<1> QED
  BY <1>1, <1>2, <1>3, <1>4, <1>5, <1>6, <1>7, PumpStep, SendReturnStep DEF Send

LEMMA ReadSteps ==
    ASSUME Inv, Read, UNCHANGED isr
    PROVE  Good
  BY ReadCallStep, ReadCopyStep, ReadTailStep DEF Read

LEMMA Steps ==
    ASSUME Inv, [Next]_vars
    PROVE  Good
<1>1. CASE UNCHANGED vars
  <2>1. TxInv' /\ TxStep
    BY <1>1, TxFrame DEF Inv, vars, uart, call
  <2>2. RxInv' /\ RxStep
    BY <1>1, RxFrame DEF Inv, vars, uart, call
  <2>3. TypeOK'
    BY <1>1 DEF Inv, TypeOK, vars, txRing, rxRing, uart, call
  <2> QED
    BY <2>1, <2>2, <2>3 DEF Good
<1>2. CASE Next
  <2>1. ASSUME Isr PROVE Good
    BY <2>1, IsrEnterLeave, IsrTxStep, IsrRxStep DEF Isr
  <2>2. ASSUME Main PROVE Good
    BY <2>2, SendSteps, ReadSteps DEF Main
  <2> QED
    BY <1>2, <2>1, <2>2, UartSteps DEF Next
<1> QED
  BY <1>1, <1>2

LEMMA Start ==
    ASSUME Init
    PROVE  Inv /\ TxChannel!BInit /\ RxChannel!BInit
<1>1. /\ 0 \in Counter /\ Count \in Nat /\ 0 \in 0 .. Count
      /\ DataCount(0, 0) = 0
  <2>1. 0 \in Counter /\ Count \in Nat
    BY WrapWide, RingAssumption DEF Counter
  <2>2. IsEmpty(0, 0)
    BY DEF IsEmpty
  <2> QED
    BY <2>1, <2>2, EmptyCount
<1>2. TxCount = 0 /\ TxHeld = <<>> /\ RxCount = 0 /\ RxHeld = <<>>
  BY <1>1 DEF Init, TxCount, TxHeld, RxCount, RxHeld, Held
<1>3. <<>> \in Seq(Byte) /\ Len(<<>>) = 0
  BY EmptySeq
<1>4. TypeOK
  <2>1. threInt \in BOOLEAN /\ thre \in BOOLEAN
    BY DEF Init
  <2>2. /\ txSlot \in [Slots -> Byte \union {NoByte}]
        /\ rxSlot \in [Slots -> Byte \union {NoByte}]
        /\ rbr \in Byte \union {NoByte}
    BY DEF Init
  <2>3. /\ thr \in Seq(Byte) /\ Len(thr) <= 1 /\ data \in Seq(Byte)
        /\ ret \in 0 .. Len(data) /\ buf \in Seq(Byte) /\ read \in Seq(Byte)
    BY <1>3 DEF Init
  <2>4. /\ txHead \in Counter /\ txTail \in Counter
        /\ rxHead \in Counter /\ rxTail \in Counter
        /\ cnt1 \in 0 .. Count /\ cnt2 \in 0 .. Count
        /\ isr = "none" /\ mpc = "idle"
    BY <1>1 DEF Init
  <2> QED
    BY <2>1, <2>2, <2>3, <2>4 DEF TypeOK
<1>5. TxInv
  BY <1>1, <1>2, <1>3
  DEF Init, TxInv, TxMasked, TxArmed, TxHolds, TxSegments, TxStream, SendPc, InsertPc, IsEmpty
<1>6. RxInv
  BY <1>1, <1>2, <1>3 DEF Init, RxInv, RxHolds, RxSegments, RxStream
<1>7. TxChannel!BInit /\ RxChannel!BInit
  BY <1>2 DEF Init, TxChannel!BInit, RxChannel!BInit, TxHeld, RxHeld
<1> QED
  BY <1>4, <1>5, <1>6, <1>7 DEF Inv

THEOREM Invariant == Spec => []Inv
<1>1. Init => Inv
  BY Start
<1>2. Inv /\ [Next]_vars => Inv'
  BY Steps DEF Good, Inv
<1> QED
  BY <1>1, <1>2, PTL DEF Spec

(* Values stay in their ranges and counts inside the request and the ring; *)
(* what is handed to the transmitter and to the reader are bytes that were *)
(* put in, never what the array held before (uart_18xx_43xx.c:256, :296).  *)
THEOREM TypeCorrect == Spec => []TypeOK
<1>1. Inv => TypeOK
  BY DEF Inv
<1> QED
  BY <1>1, Invariant, PTL

(* While SendRB changes the transmit ring the handler keeps out of it      *)
(* (uart_18xx_43xx.c:280).                                                 *)
THEOREM ExclusionCorrect == Spec => []TxExclusive
<1>1. Inv => TxExclusive
  BY DEF Inv, TxInv, TxMasked, TxExclusive
<1> QED
  BY <1>1, Invariant, PTL

(* No byte waits in the transmit ring with the interrupt off while SendRB  *)
(* is not running (uart_18xx_43xx.c:268, :291).                            *)
THEOREM ArmedCorrect == Spec => []TxArmed
<1>1. Inv => TxArmed
  BY DEF Inv, TxInv
<1> QED
  BY <1>1, Invariant, PTL

(* The transmit ring is a bounded FIFO channel of bytes, whatever its size, *)
(* the width of the counters, the lengths of the calls, and where the      *)
(* handler interrupts them; SendRB puts a request in from its first byte   *)
(* on, each byte once (uart_18xx_43xx.c:264-292, ring_buffer.c:87-124).    *)
THEOREM TxRefinement == Spec => TxImplements
<1>1. Init => TxChannel!BInit
  BY Start
<1>2. Inv /\ [Next]_vars => [TxChannel!BNext]_(TxChannel!bvars)
  BY Steps DEF Good, TxStep, TxChannel!bvars, TxHeld
<1> QED
  BY <1>1, <1>2, Invariant, PTL DEF Spec, TxImplements, TxChannel!BSpec

(* So is the receive ring: ReadRB delivers the bytes that the handler has  *)
(* inserted in the order of their arrival, each once, and one that finds   *)
(* the ring full is left out (uart_18xx_43xx.c:247-256, 295-299).          *)
THEOREM RxRefinement == Spec => RxImplements
<1>1. Init => RxChannel!BInit
  BY Start
<1>2. Inv /\ [Next]_vars => [RxChannel!BNext]_(RxChannel!bvars)
  BY Steps DEF Good, RxStep, RxChannel!bvars, RxHeld
<1> QED
  BY <1>1, <1>2, Invariant, PTL DEF Spec, RxImplements, RxChannel!BSpec
=============================================================================
