-------------------------- MODULE RingIndexProofs --------------------------
(***************************************************************************)
(* What the counter arithmetic of a circular queue guarantees for every    *)
(* size and every word width, the wrap of the counters included.           *)
(***************************************************************************)
EXTENDS RingIndex, TLAPS

(* Division with remainder, for a divisor that is a parameter. *)
LEMMA DivMod ==
    ASSUME NEW a \in Int, NEW d \in Nat \ {0}
    PROVE  /\ a % d \in 0 .. d - 1
           /\ a \div d \in Int
           /\ a = d * (a \div d) + (a % d)
  OBVIOUS

(* The remainder is the only one: it is enough to exhibit a quotient. *)
LEMMA ModUnique ==
    ASSUME NEW a \in Int, NEW d \in Nat \ {0}, NEW q \in Int, NEW r \in 0 .. d - 1,
           a = d * q + r
    PROVE  a % d = r
<1> DEFINE p == a \div d
           s == a % d
<1>1. p \in Int /\ s \in 0 .. d - 1 /\ a = d * p + s
  BY DivMod
<1> HIDE DEF p, s
<1>2. d * (p - q) = r - s
  BY <1>1
<1>3. p - q < 1
  <2>1. SUFFICES ASSUME p - q >= 1 PROVE FALSE
    BY <1>1
  <2>2. d * (p - q) >= d
    BY <1>1, <2>1
  <2> QED
    BY <1>1, <1>2, <2>2
<1>4. p - q > -1
  <2>1. SUFFICES ASSUME q - p >= 1 PROVE FALSE
    BY <1>1
  <2>2. d * (q - p) >= d
    BY <1>1, <2>1
  <2>3. d * (q - p) = s - r
    BY <1>1
  <2> QED
    BY <1>1, <2>2, <2>3
<1>5. p = q
  BY <1>1, <1>3, <1>4
<1> QED
  BY <1>1, <1>5 DEF s

(* The two facts about the width that the rest uses. *)
LEMMA WrapWide == Wrap \in Nat \ {0} /\ Count < Wrap
  BY RingAssumption

(* head++ stays in the word, and only the last value wraps. *)
LEMMA IncrValue ==
    ASSUME NEW i \in Counter
    PROVE  /\ Incr(i) \in Counter
           /\ Incr(i) = IF i = Wrap - 1 THEN 0 ELSE i + 1
<1>1. CASE i = Wrap - 1
  <2>1. i + 1 = Wrap * 1 + 0
    BY <1>1, WrapWide
  <2> QED
    BY <1>1, <2>1, WrapWide, ModUnique DEF Incr, Counter
<1>2. CASE i # Wrap - 1
  <2>1. i + 1 \in 0 .. Wrap - 1 /\ i + 1 = Wrap * 0 + (i + 1)
    BY <1>2, WrapWide DEF Counter
  <2> QED
    BY <1>2, <2>1, WrapWide, ModUnique DEF Incr, Counter
<1> QED
  BY <1>1, <1>2

(* The unsigned difference, without the modulus. *)
LEMMA DataCountValue ==
    ASSUME NEW h \in Counter, NEW t \in Counter
    PROVE  /\ DataCount(h, t) \in Counter
           /\ DataCount(h, t) = IF h >= t THEN h - t ELSE (h - t) + Wrap
<1>1. CASE h >= t
  <2>1. h - t \in 0 .. Wrap - 1 /\ h - t = Wrap * 0 + (h - t)
    BY <1>1, WrapWide DEF Counter
  <2> QED
    BY <1>1, <2>1, WrapWide, ModUnique DEF DataCount, Counter
<1>2. CASE ~(h >= t)
  <2>1. /\ (h - t) + Wrap \in 0 .. Wrap - 1
        /\ h - t = Wrap * (-1) + ((h - t) + Wrap)
    BY <1>2, WrapWide DEF Counter
  <2> QED
    BY <1>2, <2>1, WrapWide, ModUnique DEF DataCount, Counter
<1> QED
  BY <1>1, <1>2

LEMMA CountNat ==
    ASSUME NEW h \in Counter, NEW t \in Counter
    PROVE  DataCount(h, t) \in Nat
  BY DataCountValue, WrapWide DEF Counter

(* The queue is empty exactly when it holds nothing. *)
LEMMA EmptyCount ==
    ASSUME NEW h \in Counter, NEW t \in Counter
    PROVE  IsEmpty(h, t) <=> DataCount(h, t) = 0
<1>1. h \in Int /\ t \in Int /\ h - t > -Wrap
  BY WrapWide DEF Counter
<1>2. DataCount(h, t) = IF h >= t THEN h - t ELSE (h - t) + Wrap
  BY DataCountValue
<1> QED
  BY <1>1, <1>2, WrapWide DEF IsEmpty

(* A push into a queue that is not full adds one message. *)
LEMMA CountAfterPush ==
    ASSUME NEW h \in Counter, NEW t \in Counter, ~IsFull(h, t)
    PROVE  DataCount(Incr(h), t) = DataCount(h, t) + 1
<1>1. h \in 0 .. Wrap - 1 /\ t \in 0 .. Wrap - 1 /\ Incr(h) \in Counter
  BY IncrValue DEF Counter
<1>2. DataCount(h, t) = IF h >= t THEN h - t ELSE (h - t) + Wrap
  BY DataCountValue
<1>3. DataCount(Incr(h), t) = IF Incr(h) >= t THEN Incr(h) - t ELSE (Incr(h) - t) + Wrap
  BY <1>1, DataCountValue
<1>4. Incr(h) = IF h = Wrap - 1 THEN 0 ELSE h + 1
  BY IncrValue
<1>5. DataCount(h, t) < Count /\ Count \in Nat
  BY <1>1, <1>2, RingAssumption, WrapWide DEF IsFull
<1>6. Wrap >= 2 * Count
  BY RingAssumption
<1> QED
  BY <1>1, <1>2, <1>3, <1>4, <1>5, <1>6, WrapWide

(* A pop from a queue that is not empty removes one. *)
LEMMA CountAfterPop ==
    ASSUME NEW h \in Counter, NEW t \in Counter, ~IsEmpty(h, t)
    PROVE  DataCount(h, Incr(t)) = DataCount(h, t) - 1
<1>1. h \in 0 .. Wrap - 1 /\ t \in 0 .. Wrap - 1 /\ Incr(t) \in Counter
  BY IncrValue DEF Counter
<1>2. DataCount(h, t) = IF h >= t THEN h - t ELSE (h - t) + Wrap
  BY DataCountValue
<1>3. DataCount(h, Incr(t)) = IF h >= Incr(t) THEN h - Incr(t) ELSE (h - Incr(t)) + Wrap
  BY <1>1, DataCountValue
<1>4. Incr(t) = IF t = Wrap - 1 THEN 0 ELSE t + 1
  BY IncrValue
<1> QED
  BY <1>1, <1>2, <1>3, <1>4, WrapWide DEF IsEmpty

(* A counter and the sum of two of them fall into a slot. *)
LEMMA SlotType ==
    ASSUME NEW i \in Int
    PROVE  SlotOf(i) \in Slots
  BY DivMod, RingAssumption DEF SlotOf, Slots

(* Wrapping the word does not move a slot: Count divides Wrap. *)
LEMMA SlotWrap ==
    ASSUME NEW i \in Int
    PROVE  SlotOf(i + Wrap) = SlotOf(i)
<1> DEFINE k == Wrap \div Count
           q == i \div Count
<1>1. /\ q \in Int /\ SlotOf(i) \in 0 .. Count - 1 /\ i = Count * q + SlotOf(i)
      /\ k \in Int /\ Wrap = Count * k
  BY DivMod, RingAssumption DEF SlotOf
<1> HIDE DEF k, q
<1>2. i + Wrap = Count * (q + k) + SlotOf(i)
  <2>1. Count * (q + k) = Count * q + Count * k
    BY <1>1, RingAssumption
  <2>2. Count * q \in Int /\ Count * k \in Int /\ SlotOf(i) \in Int
    BY <1>1, RingAssumption
  <2> QED
    BY <1>1, <2>1, <2>2
<1>3. (i + Wrap) % Count = SlotOf(i)
  <2>1. q + k \in Int /\ i + Wrap \in Int /\ Count \in Nat \ {0}
    BY <1>1, RingAssumption
  <2> QED
    BY <1>1, <1>2, <2>1, ModUnique
<1> QED
  BY <1>3 DEF SlotOf

(* Two positions closer than the size of the queue have different slots. *)
LEMMA SlotApart ==
    ASSUME NEW i \in Int, NEW j \in Int, i < j, j < i + Count
    PROVE  SlotOf(i) # SlotOf(j)
<1> DEFINE p == i \div Count
           q == j \div Count
<1>1. /\ p \in Int /\ i = Count * p + SlotOf(i) /\ SlotOf(i) \in Int
      /\ q \in Int /\ j = Count * q + SlotOf(j) /\ SlotOf(j) \in Int
      /\ Count \in Nat \ {0}
  BY DivMod, RingAssumption DEF SlotOf
<1> HIDE DEF p, q
<1>2. SUFFICES ASSUME SlotOf(i) = SlotOf(j) PROVE FALSE
  OBVIOUS
<1>3. Count * (q - p) = j - i
  BY <1>1, <1>2
<1>4. CASE q - p >= 1
  <2>1. Count * (q - p) >= Count
    BY <1>1, <1>4
  <2> QED
    BY <1>3, <2>1, <1>1
<1>5. CASE q - p <= 0
  <2>1. Count * (q - p) <= 0
    BY <1>1, <1>5
  <2> QED
    BY <1>3, <2>1
<1> QED
  BY <1>1, <1>4, <1>5

(* Between a push into, and a pop from, a queue that is neither full nor   *)
(* empty there is never a common slot.                                     *)
LEMMA HeadTailApart ==
    ASSUME NEW h \in Counter, NEW t \in Counter, ~IsFull(h, t), ~IsEmpty(h, t)
    PROVE  SlotOf(h) # SlotOf(t)
<1>1. h \in Int /\ t \in Int /\ Wrap \in Int
  BY WrapWide DEF Counter
<1>2. CASE h >= t
  <2>1. t < h /\ h < t + Count
    BY <1>1, <1>2, DataCountValue, RingAssumption DEF IsFull, IsEmpty
  <2> QED
    BY <1>1, <2>1, SlotApart
<1>3. CASE ~(h >= t)
  <2>1. t < h + Wrap /\ h + Wrap < t + Count
    BY <1>1, <1>3, DataCountValue, RingAssumption DEF IsFull, Counter
  <2>2. SlotOf(h + Wrap) # SlotOf(t)
    BY <1>1, <2>1, SlotApart
  <2> QED
    BY <1>1, <2>2, SlotWrap
<1> QED
  BY <1>2, <1>3

(* The position n places behind the tail is that of the head. *)
LEMMA SlotOfHead ==
    ASSUME NEW h \in Counter, NEW t \in Counter
    PROVE  SlotOf(t + DataCount(h, t)) = SlotOf(h)
<1>1. h \in Int /\ t \in Int /\ Wrap \in Int
  BY WrapWide DEF Counter
<1>2. CASE h >= t
  BY <1>1, <1>2, DataCountValue
<1>3. CASE ~(h >= t)
  <2>1. t + DataCount(h, t) = h + Wrap
    BY <1>1, <1>3, DataCountValue
  <2> QED
    BY <1>1, <2>1, SlotWrap
<1> QED
  BY <1>2, <1>3

(* Moving the tail on by one shifts every position by one. *)
LEMMA SlotAfterPop ==
    ASSUME NEW t \in Counter, NEW i \in Int
    PROVE  SlotOf(Incr(t) + i) = SlotOf((t + 1) + i)
<1>1. t \in Int /\ Wrap \in Int
  BY WrapWide DEF Counter
<1>2. CASE t = Wrap - 1
  <2>1. Incr(t) + i = i /\ (t + 1) + i = i + Wrap
    BY <1>1, <1>2, IncrValue
  <2> QED
    BY <2>1, SlotWrap
<1>3. CASE t # Wrap - 1
  BY <1>1, <1>3, IncrValue
<1> QED
  BY <1>2, <1>3
=============================================================================
