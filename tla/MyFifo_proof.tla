---------------------------- MODULE MyFifo_proof ----------------------------
(***************************************************************************)
(* Facts about the counters of a my_fifo_t that the proofs about both UART *)
(* queues rest on, for every number of slots and every counter width.      *)
(***************************************************************************)
EXTENDS MyFifo, TLAPS

(* The counters can count past the number of slots. *)
LEMMA PtrModFacts == PtrMod \in Nat /\ Num \in Nat /\ Num > 0 /\ PtrMod >= 2 * Num
<1>1. PICK laps \in 2 .. PtrMod : PtrMod = laps * Num
  BY NumAssumption
<1>2. laps * Num >= 2 * Num
  <2>1. laps - 2 \in Nat /\ Num \in Nat
    BY <1>1, NumAssumption
  <2>2. (laps - 2) * Num >= 0
    BY <2>1
  <2>3. laps * Num = (laps - 2) * Num + 2 * Num
    BY <2>1, <1>1
  <2> QED BY <2>2, <2>3, <2>1, <1>1
<1> QED BY <1>1, <1>2, NumAssumption

(* A remainder is the only number of its range that differs from its       *)
(* argument by a multiple of the modulus.                                  *)
LEMMA ModUnique ==
  ASSUME NEW m \in Nat, m > 0, NEW a \in Int, NEW k \in Int, NEW b \in 0 .. m - 1,
         a = k * m + b
  PROVE  a % m = b
<1>1. a % m \in 0 .. m - 1 /\ a = m * (a \div m) + (a % m) /\ a \div m \in Int
  OBVIOUS
<1> DEFINE d == k - a \div m
<1>2. d \in Int
  BY <1>1
<1>3. d * m = (a % m) - b
  BY <1>1, <1>2
<1>4. d = 0
  <2>1. CASE d >= 1
    <3>1. d * m >= m
      BY <2>1, <1>2
    <3> QED BY <3>1, <1>3, <1>1
  <2>2. CASE d <= -1
    <3>1. d * m <= -m
      BY <2>2, <1>2
    <3> QED BY <3>1, <1>3, <1>1
  <2> QED BY <2>1, <2>2, <1>2
<1> QED BY <1>3, <1>4, <1>1

(* A remainder is kept by a wider one that the narrower divides: a counter *)
(* that wraps names the same slot as one that does not.                    *)
LEMMA ModOfMod ==
  ASSUME NEW m \in Nat, m > 0, NEW h \in Nat, h > 0, NEW a \in Int
  PROVE  (a % (h * m)) % m = a % m
<1> DEFINE n == h * m
<1>1. n \in Nat /\ n > 0
  OBVIOUS
<1> DEFINE b == a % n
<1> DEFINE r == b % m
<1> HIDE DEF n
<1>2. b \in 0 .. n - 1 /\ a \div n \in Int /\ a = n * (a \div n) + b
  BY <1>1
<1> DEFINE q == a \div n
<1> HIDE DEF b, q
<1>3. r \in 0 .. m - 1 /\ b \div m \in Int /\ b = m * (b \div m) + r
  BY <1>2
<1> DEFINE s == b \div m
<1> HIDE DEF r, s
<1>4. q \in Int /\ s \in Int /\ r \in Int /\ a = n * q + b /\ b = m * s + r
  BY <1>2, <1>3 DEF q, s
<1>5. n * q = (h * q) * m
  BY <1>4 DEF n
<1>6. a = (h * q + s) * m + r /\ h * q + s \in Int
  <2>1. h * q \in Int
    BY <1>4
  <2>2. (h * q + s) * m = (h * q) * m + s * m
    BY <1>4, <2>1
  <2>3. a = (h * q) * m + s * m + r
    BY <1>4, <1>5
  <2> QED
    BY <1>4, <2>1, <2>2, <2>3
<1>7. a % m = r
  BY <1>3, <1>6, ModUnique
<1> QED
  BY <1>7 DEF r, b, n

(* What the counter arithmetic amounts to, without remainders. *)
LEMMA BumpCases ==
  ASSUME NEW p \in Ptr
  PROVE  /\ Bump(p) \in Ptr
         /\ p < PtrMod - 1 => Bump(p) = p + 1
         /\ p = PtrMod - 1 => Bump(p) = 0
<1>1. CASE p < PtrMod - 1
  <2>1. (p + 1) % PtrMod = p + 1
    BY <1>1, PtrModFacts, ModUnique, p + 1 = 0 * PtrMod + (p + 1) DEF Ptr
  <2> QED BY <2>1, <1>1, PtrModFacts DEF Ptr, Bump
<1>2. CASE p = PtrMod - 1
  <2>1. (p + 1) % PtrMod = 0
    BY <1>2, PtrModFacts, ModUnique, p + 1 = 1 * PtrMod + 0 DEF Ptr
  <2> QED BY <2>1, <1>2, PtrModFacts DEF Ptr, Bump
<1> QED BY <1>1, <1>2, PtrModFacts DEF Ptr

LEMMA CountCases ==
  ASSUME NEW w \in Ptr, NEW r \in Ptr
  PROVE  /\ Count(w, r) \in 0 .. PtrMod - 1
         /\ w >= r => Count(w, r) = w - r
         /\ w < r => Count(w, r) = w - r + PtrMod
<1>1. CASE w >= r
  <2>1. (w - r) % PtrMod = w - r
    BY <1>1, PtrModFacts, ModUnique, w - r = 0 * PtrMod + (w - r) DEF Ptr
  <2> QED BY <2>1, <1>1, PtrModFacts DEF Ptr, Count
<1>2. CASE w < r
  <2>1. (w - r) % PtrMod = w - r + PtrMod
    BY <1>2, PtrModFacts, ModUnique, w - r = (-1) * PtrMod + (w - r + PtrMod) DEF Ptr
  <2> QED BY <2>1, <1>2, PtrModFacts DEF Ptr, Count
<1> QED BY <1>1, <1>2, PtrModFacts DEF Ptr

(* A fifo is empty exactly when it counts no slots. *)
LEMMA CountZero ==
  ASSUME NEW w \in Ptr, NEW r \in Ptr
  PROVE  Count(w, r) = 0 <=> IsEmpty(w, r)
<1>1. /\ w >= r => Count(w, r) = w - r
      /\ w < r => Count(w, r) = w - r + PtrMod
  BY CountCases
<1> QED BY <1>1, PtrModFacts DEF Ptr, IsEmpty

(* Handing a slot over counts one more ... *)
LEMMA CountHandedOver ==
  ASSUME NEW w \in Ptr, NEW r \in Ptr, Count(w, r) < PtrMod - 1
  PROVE  Count(Bump(w), r) = Count(w, r) + 1
<1> DEFINE v == Bump(w)
<1> HIDE DEF v
<1>1. /\ v \in Ptr
      /\ w < PtrMod - 1 => v = w + 1
      /\ w = PtrMod - 1 => v = 0
  BY BumpCases DEF v
<1> SUFFICES Count(v, r) = Count(w, r) + 1
  BY DEF v
<1>2. /\ v >= r => Count(v, r) = v - r
      /\ v < r => Count(v, r) = v - r + PtrMod
  BY <1>1, CountCases
<1>3. /\ w >= r => Count(w, r) = w - r
      /\ w < r => Count(w, r) = w - r + PtrMod
  BY CountCases
<1> QED BY <1>1, <1>2, <1>3, PtrModFacts DEF Ptr

(* ... and releasing one counts one less. *)
LEMMA CountReleased ==
  ASSUME NEW w \in Ptr, NEW r \in Ptr, ~IsEmpty(w, r)
  PROVE  Count(w, Bump(r)) = Count(w, r) - 1
<1> DEFINE q == Bump(r)
<1> HIDE DEF q
<1>1. /\ q \in Ptr
      /\ r < PtrMod - 1 => q = r + 1
      /\ r = PtrMod - 1 => q = 0
  BY BumpCases DEF q
<1> SUFFICES Count(w, q) = Count(w, r) - 1
  BY DEF q
<1>2. /\ w >= q => Count(w, q) = w - q
      /\ w < q => Count(w, q) = w - q + PtrMod
  BY <1>1, CountCases
<1>3. /\ w >= r => Count(w, r) = w - r
      /\ w < r => Count(w, r) = w - r + PtrMod
  BY CountCases
<1> QED BY <1>1, <1>2, <1>3, PtrModFacts DEF Ptr, IsEmpty

-----------------------------------------------------------------------------
(* Entries: the counters and slots between the consumer and the producer.  *)
LEMMA NthCases ==
  ASSUME NEW r \in Ptr, NEW i \in Ptr
  PROVE  /\ Nth(r, i) \in Ptr
         /\ r + i < PtrMod => Nth(r, i) = r + i
         /\ r + i >= PtrMod => Nth(r, i) = r + i - PtrMod
<1>1. CASE r + i < PtrMod
  <2>1. (r + i) % PtrMod = r + i
    BY <1>1, PtrModFacts, ModUnique, r + i = 0 * PtrMod + (r + i) DEF Ptr
  <2> QED BY <2>1, <1>1, PtrModFacts DEF Ptr, Nth
<1>2. CASE r + i >= PtrMod
  <2>1. (r + i) % PtrMod = r + i - PtrMod
    BY <1>2, PtrModFacts, ModUnique, r + i = 1 * PtrMod + (r + i - PtrMod) DEF Ptr
  <2> QED BY <2>1, <1>2, PtrModFacts DEF Ptr, Nth
<1> QED BY <1>1, <1>2, PtrModFacts DEF Ptr

LEMMA SlotOfInSlot ==
  ASSUME NEW p \in Int
  PROVE  SlotOf(p) \in Slot
BY PtrModFacts DEF SlotOf, Slot

LEMMA EntrySlotInSlot ==
  ASSUME NEW r \in Ptr, NEW i \in Ptr
  PROVE  EntrySlot(r, i) \in Slot
BY NthCases, SlotOfInSlot DEF EntrySlot, Ptr

(* The open slot is the entry after the last one handed over. *)
LEMMA EntryOpen ==
  ASSUME NEW w \in Ptr, NEW r \in Ptr
  PROVE  EntrySlot(r, Count(w, r)) = SlotOf(w)
<1> DEFINE c == Count(w, r)
<1> HIDE DEF c
<1>1. /\ c \in Ptr
      /\ w >= r => c = w - r
      /\ w < r => c = w - r + PtrMod
  BY CountCases DEF Ptr, c
<1>2. Nth(r, c) = w
  <2>1. /\ r + c < PtrMod => Nth(r, c) = r + c
        /\ r + c >= PtrMod => Nth(r, c) = r + c - PtrMod
    BY <1>1, NthCases
  <2> QED BY <2>1, <1>1, PtrModFacts DEF Ptr
<1> QED BY <1>2 DEF EntrySlot, c

(* Entry 0 is the head. *)
LEMMA EntryHead ==
  ASSUME NEW r \in Ptr
  PROVE  EntrySlot(r, 0) = SlotOf(r)
<1>1. 0 \in Ptr
  BY PtrModFacts DEF Ptr
<1>2. Nth(r, 0) = r
  BY <1>1, NthCases, PtrModFacts DEF Ptr
<1> QED BY <1>2 DEF EntrySlot

(* When the consumer moves on, every entry moves up by one. *)
LEMMA EntryShift ==
  ASSUME NEW r \in Ptr, NEW i \in 0 .. PtrMod - 2
  PROVE  EntrySlot(Bump(r), i) = EntrySlot(r, i + 1)
<1> DEFINE q == Bump(r)
<1> HIDE DEF q
<1>1. /\ q \in Ptr
      /\ r < PtrMod - 1 => q = r + 1
      /\ r = PtrMod - 1 => q = 0
  BY BumpCases DEF q
<1>2. i \in Ptr /\ i + 1 \in Ptr
  BY PtrModFacts DEF Ptr
<1>3. Nth(q, i) = Nth(r, i + 1)
  <2>1. /\ q + i < PtrMod => Nth(q, i) = q + i
        /\ q + i >= PtrMod => Nth(q, i) = q + i - PtrMod
    BY <1>1, <1>2, NthCases
  <2>2. /\ r + (i + 1) < PtrMod => Nth(r, i + 1) = r + (i + 1)
        /\ r + (i + 1) >= PtrMod => Nth(r, i + 1) = r + (i + 1) - PtrMod
    BY <1>2, NthCases
  <2> QED BY <2>1, <2>2, <1>1, <1>2, PtrModFacts DEF Ptr
<1> QED BY <1>3 DEF EntrySlot, q

(* Up to Num consecutive entries lie in slots of their own.  This is where *)
(* it matters that the counter width is a multiple of the number of slots. *)
LEMMA EntrySlotDistinct ==
  ASSUME NEW r \in Ptr, NEW i \in 0 .. Num - 1, NEW j \in 0 .. Num - 1,
         EntrySlot(r, i) = EntrySlot(r, j)
  PROVE  i = j
<1>1. PICK laps \in 2 .. PtrMod : PtrMod = laps * Num
  BY NumAssumption
<1> DEFINE s == r % Num
           k == r \div Num
<1>2. s \in 0 .. Num - 1 /\ k \in Int /\ r = k * Num + s
  BY PtrModFacts DEF Ptr
<1> DEFINE Off(x) == IF s + x < Num THEN s + x ELSE s + x - Num
<1>3. ASSUME NEW x \in 0 .. Num - 1
      PROVE  EntrySlot(r, x) = Off(x)
  <2>1. PICK b \in 0 .. Num - 1 : b = Off(x)
    BY <1>2, PtrModFacts
  <2>2. x \in Ptr
    BY PtrModFacts DEF Ptr
  <2>3. PICK c \in Int : r + x = c * Num + b
    <3>1. CASE s + x < Num
      <4>1. r + x = k * Num + b
        BY <3>1, <1>2, <2>1, PtrModFacts
      <4> QED BY <4>1, <1>2
    <3>2. CASE s + x >= Num
      <4>1. r + x = (k + 1) * Num + b
        BY <3>2, <1>2, <2>1, PtrModFacts
      <4>2. k + 1 \in Int
        BY <1>2
      <4> QED BY <4>1, <4>2
    <3> QED BY <3>1, <3>2, <1>2, PtrModFacts
  <2>4. PICK d \in Int : Nth(r, x) = d * Num + b
    <3>1. CASE r + x < PtrMod
      <4>1. Nth(r, x) = r + x
        BY <3>1, <2>2, NthCases
      <4> QED BY <4>1, <2>3
    <3>2. CASE r + x >= PtrMod
      <4>1. Nth(r, x) = r + x - PtrMod
        BY <3>2, <2>2, NthCases
      <4>2. Nth(r, x) = (c * Num + b) - laps * Num
        BY <4>1, <2>2, <2>3, <1>1, PtrModFacts DEF Ptr
      <4>3. (c * Num + b) - laps * Num = (c - laps) * Num + b
        BY <2>3, <2>1, <1>1, PtrModFacts
      <4> QED BY <4>2, <4>3, <2>3, <1>1
    <3> QED BY <3>1, <3>2, PtrModFacts DEF Ptr
  <2>5. Nth(r, x) \in Int
    BY <2>2, NthCases, PtrModFacts DEF Ptr
  <2>6. Nth(r, x) % Num = b
    BY <2>1, <2>4, <2>5, ModUnique, PtrModFacts
  <2> QED BY <2>6, <2>1 DEF EntrySlot, SlotOf
<1>4. Off(i) = Off(j)
  BY <1>3
<1> QED BY <1>4, <1>2, PtrModFacts
=============================================================================
