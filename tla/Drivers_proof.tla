--------------------------- MODULE Drivers_proof ----------------------------
(***************************************************************************)
(* The key matrix, for every number of drive lines, up to 32 scan lines    *)
(* (an entry of the matrix is a u32), and every number of keys and slots   *)
(* of the buffer: ghost keys and no other are removed, nothing is reported *)
(* that nobody pressed, and the buffer holds the newest changes in order.  *)
(*                                                                         *)
(* The soft timers, for every number of timers, range of the clock and set *)
(* of intervals that the assumption of BltSoftTimer allows: the entries    *)
(* fire in the order of time, an entry that the index steps over is served *)
(* after a number of passes that is at most the logarithm of the table's   *)
(* size, and no deadline is so long past that it does not count as due.    *)
(***************************************************************************)
EXTENDS Drivers, FiniteSetTheorems, SequenceTheorems, WellFoundedInduction, TLAPS

(* matrix_buff is a ring like those of ys_uart.c, with counters that wrap  *)
(* at twice its size.                                                      *)
Ring == INSTANCE MyFifo_proof WITH Num <- BufNum, PtrMod <- 2 * BufNum

Matrices == SUBSET Matrix!Position

(* The entries of a ring b between its counters r and w are those of u. *)
Holds(b, w, r, u) ==
  /\ b \in [0 .. BufNum - 1 -> Matrices]
  /\ w \in Ring!Ptr /\ r \in Ring!Ptr
  /\ u \in Seq(Matrices) /\ Len(u) <= BufNum
  /\ Ring!Count(w, r) = Len(u)
  /\ \A k \in 0 .. Len(u) - 1 : b[Ring!EntrySlot(r, k)] = u[k + 1]

BufferInv ==
  /\ pre \in Matrices /\ last \in Matrices
  /\ Holds(buff, wptr, rptr, unread)

KeysInv == closed \in Matrices /\ BufferInv

-----------------------------------------------------------------------------
(* Ghost keys *)

(* Two lines share more than one key when two keys say so. *)
LEMMA TwoShared ==
  ASSUME NEW n \in Int, NEW T \in SUBSET (0 .. n)
  PROVE  Cardinality(T) > 1 <=> \E s, t \in T : s # t
<1>1. IsFiniteSet(T) /\ Cardinality(T) \in Nat
  <2>1. IsFiniteSet(0 .. n)
    BY FS_Interval, 0 \in Int
  <2>2. IsFiniteSet(T)
    BY <2>1, FS_Subset
  <2> QED
    BY <2>2, FS_CardinalityType
<1>2. Cardinality(T) = 0 <=> T = {}
  BY <1>1, FS_EmptySet
<1>3. Cardinality(T) = 1 <=> \E s : T = {s}
  BY <1>1, FS_Singleton
<1>4. CASE T = {}
  BY <1>2, <1>4
<1>5. CASE T # {}
  <2>1. PICK s \in T : TRUE
    BY <1>5
  <2>2. (\E t \in T : t # s) <=> T # {s}
    BY <2>1
  <2>3. (\E a, b \in T : a # b) <=> ~(\E a : T = {a})
    BY <2>1, <2>2
  <2> QED
    BY <1>1, <1>2, <1>3, <1>5, <2>3
<1> QED
  BY <1>4, <1>5

(* Lines are in conflict over a key when they share it and one of them has *)
(* another.                                                                *)
LEMMA ConflictMeans ==
  ASSUME NEW n \in Int, NEW a \in SUBSET (0 .. n), NEW b \in SUBSET (0 .. n), NEW s \in a \cap b
  PROVE  Matrix!Conflict(a, b) <=> \E t \in a \cup b : t # s
<1> DEFINE z == a \cap b
           many == Cardinality(a \cap b) > 1
<1>1. many <=> \E x, y \in z : x # y
  <2>1. z \in SUBSET (0 .. n)
    OBVIOUS
  <2> HIDE DEF z
  <2>2. Cardinality(z) > 1 <=> \E x, y \in z : x # y
    BY <2>1, TwoShared
  <2> QED
    BY <2>2 DEF z
<1>2. Matrix!Conflict(a, b) <=> z # {} /\ (many \/ a # b)
  BY Zenon DEF Matrix!Conflict, Matrix!Cardinality, Cardinality
<1> HIDE DEF many
<1>3. ASSUME NEW x \in z, NEW y \in z, x # y
      PROVE  \E t \in a \cup b : t # s
  BY <1>3
<1>4. ASSUME a # b
      PROVE  \E t \in a \cup b : t # s
  <2>1. PICK t : ~(t \in a <=> t \in b)
    BY <1>4
  <2> QED
    BY <2>1
<1>5. ASSUME NEW t \in a \cup b, t # s, a = b
      PROVE  \E x, y \in z : x # y
  BY <1>5
<1>6. many \/ a # b <=> \E t \in a \cup b : t # s
  BY <1>1, <1>3, <1>4, <1>5
<1> QED
  BY <1>2, <1>6

(* What is removed from a line: the keys it shares, a line of the two      *)
(* having another, and no others, whatever lines are cleared before it.    *)
LEMMA GhostKeys ==
  ASSUME NEW m \in SUBSET Matrix!Position
  PROVE  Matrix!RmvGhostKey(m) = m \ Matrix!Ambiguous(m)
<1>0. Drives \in Nat /\ Scans - 1 \in Int
  BY DriversAssumption DEF Matrix!KeyboardAssumption
<1>1. \A d \in Matrix!Drive : Matrix!Row(m, d) \in SUBSET (0 .. Scans - 1)
  BY DEF Matrix!Row, Matrix!Scan
<1> SUFFICES ASSUME NEW p \in m
             PROVE  p[2] \in Matrix!Mixed(m, p[1]) <=> p \in Matrix!Ambiguous(m)
  BY DEF Matrix!RmvGhostKey
<1> DEFINE d == p[1]
           s == p[2]
<1>2. d \in Matrix!Drive /\ s \in Matrix!Scan /\ p = <<d, s>>
  BY DEF Matrix!Position
<1> HIDE DEF d, s
<1>3. \A e \in Matrix!Drive, t \in Matrix!Scan : t \in Matrix!Row(m, e) <=> <<e, t>> \in m
  BY DEF Matrix!Row
<1>4. p \in Matrix!Ambiguous(m) <=>
        \E e \in Matrix!Drive : e # d /\ s \in Matrix!Row(m, e) /\
          \E t \in Matrix!Scan : t # s /\ (t \in Matrix!Row(m, d) \/ t \in Matrix!Row(m, e))
  BY <1>2, <1>3 DEF Matrix!Ambiguous, d, s
<1>5. ASSUME s \in Matrix!Mixed(m, d)
      PROVE  p \in Matrix!Ambiguous(m)
  <2>1. PICK x \in 0 .. d : \E y \in x + 1 .. Drives - 1 :
          /\ s \in Matrix!Row(m, x) \cap Matrix!Row(m, y)
          /\ Matrix!Conflict(Matrix!Row(m, x), Matrix!Row(m, y))
    BY <1>5 DEF Matrix!Mixed
  <2>8. PICK y \in x + 1 .. Drives - 1 :
          /\ s \in Matrix!Row(m, x) \cap Matrix!Row(m, y)
          /\ Matrix!Conflict(Matrix!Row(m, x), Matrix!Row(m, y))
    BY <2>1
  <2>2. x \in Matrix!Drive /\ y \in Matrix!Drive /\ x # y
    BY <1>0, <1>2 DEF Matrix!Drive
  <2>3. PICK t \in Matrix!Row(m, x) \cup Matrix!Row(m, y) : t # s
    BY <1>0, <1>1, <2>8, <2>2, ConflictMeans
  <2>4. t \in Matrix!Scan
    BY <2>3 DEF Matrix!Row
  <2>5. s \in Matrix!Row(m, d)
    BY <1>2, <1>3
  <2>6. CASE t \in Matrix!Row(m, x)
    <3>1. CASE d = x
      BY <1>4, <2>8, <2>2, <2>3, <2>4, <2>6, <3>1
    <3>2. CASE d # x
      BY <1>4, <2>8, <2>2, <2>3, <2>4, <2>6, <3>2
    <3> QED
      BY <3>1, <3>2
  <2>7. CASE t \in Matrix!Row(m, y)
    <3>1. CASE d = y
      BY <1>4, <2>8, <2>2, <2>3, <2>4, <2>7, <3>1
    <3>2. CASE d # y
      BY <1>4, <2>8, <2>2, <2>3, <2>4, <2>7, <3>2
    <3> QED
      BY <3>1, <3>2
  <2> QED
    BY <2>3, <2>6, <2>7
<1>6. ASSUME p \in Matrix!Ambiguous(m)
      PROVE  s \in Matrix!Mixed(m, d)
  <2>1. PICK e \in Matrix!Drive : e # d /\ s \in Matrix!Row(m, e) /\
          \E t \in Matrix!Scan : t # s /\ (t \in Matrix!Row(m, d) \/ t \in Matrix!Row(m, e))
    BY <1>4, <1>6
  <2>2. s \in Matrix!Row(m, d)
    BY <1>2, <1>3
  <2>3. Matrix!Conflict(Matrix!Row(m, d), Matrix!Row(m, e)) /\ Matrix!Conflict(Matrix!Row(m, e), Matrix!Row(m, d))
    BY <1>0, <1>1, <1>2, <2>1, <2>2, ConflictMeans
  <2>4. CASE e < d
    <3>1. e \in 0 .. d /\ d \in e + 1 .. Drives - 1
      BY <1>0, <1>2, <2>4 DEF Matrix!Drive
    <3> QED
      BY <1>2, <2>1, <2>2, <2>3, <3>1 DEF Matrix!Mixed
  <2>5. CASE d < e
    <3>1. d \in 0 .. d /\ e \in d + 1 .. Drives - 1
      BY <1>0, <1>2, <2>5 DEF Matrix!Drive
    <3> QED
      BY <1>2, <2>1, <2>2, <2>3, <3>1 DEF Matrix!Mixed
  <2> QED
    BY <1>0, <1>2, <2>1, <2>4, <2>5 DEF Matrix!Drive
<1> QED
  BY <1>5, <1>6 DEF d, s

(* No island that holds e is without d. *)
Joined(c, d, e) == \A L \in SUBSET Matrix!Drive : e \in L /\ Matrix!Island(c, L) => d \in L

(* What a scan reads: closed contacts at least, the same of two lines that *)
(* are joined, as those are that share a scan line, and nothing that has   *)
(* no contact on the island around the line.                               *)
LEMMA ScanReads ==
  ASSUME NEW c \in Matrices
  PROVE  LET need == {p[2] : p \in c}
             m == Matrix!ScanMatrix(c, need)
         IN /\ c \subseteq m /\ m \in Matrices
            /\ \A d \in Matrix!Drive, s \in Matrix!Scan :
                 <<d, s>> \in m =>
                   /\ s \in need
                   /\ \A L \in SUBSET Matrix!Drive :
                        d \in L /\ Matrix!Island(c, L) => \E e \in L : <<e, s>> \in c
            /\ \A d, e \in Matrix!Drive, s \in Matrix!Scan :
                 <<d, s>> \in m /\ Joined(c, d, e) => <<e, s>> \in m
            /\ \A d, e \in Matrix!Drive, t \in Matrix!Scan :
                 <<d, t>> \in c /\ <<e, t>> \in c => Joined(c, d, e)
<1> DEFINE need == {p[2] : p \in c}
           m == Matrix!ScanMatrix(c, need)
<1>1. \A p : p \in Matrix!Position <=> \E d \in Matrix!Drive, s \in Matrix!Scan : p = <<d, s>>
  BY DEF Matrix!Position
<1>2. \A d \in Matrix!Drive, s \in Matrix!Scan :
        <<d, s>> \in m <=>
          /\ s \in need
          /\ \A L \in SUBSET Matrix!Drive : d \in L => (\E e \in L : <<e, s>> \in c) \/ ~Matrix!Island(c, L)
  <2> SUFFICES ASSUME NEW d \in Matrix!Drive, NEW s \in Matrix!Scan
               PROVE  <<d, s>> \in m <=>
                        /\ s \in need
                        /\ \A L \in SUBSET Matrix!Drive :
                             d \in L => (\E e \in L : <<e, s>> \in c) \/ ~Matrix!Island(c, L)
    OBVIOUS
  <2>1. <<d, s>> \in Matrix!Position /\ <<d, s>>[1] = d /\ <<d, s>>[2] = s
    BY <1>1
  <2> HIDE DEF need
  <2> QED
    BY <2>1 DEF Matrix!ScanMatrix
<1>3. m \subseteq Matrix!Position
  BY DEF Matrix!ScanMatrix
<1> HIDE DEF m, need
<1>4. \A d \in Matrix!Drive, s \in Matrix!Scan : <<d, s>> \in c => s \in need
  <2> SUFFICES ASSUME NEW d, NEW s, <<d, s>> \in c PROVE s \in need
    OBVIOUS
  <2>1. <<d, s>>[2] = s
    OBVIOUS
  <2> QED
    BY <2>1 DEF need
<1>5. c \subseteq m
  <2> SUFFICES ASSUME NEW p \in c PROVE p \in m
    OBVIOUS
  <2>1. PICK d \in Matrix!Drive, s \in Matrix!Scan : p = <<d, s>>
    BY <1>1 DEF Matrices
  <2> QED
    BY <1>2, <1>4, <2>1
<1>6. ASSUME NEW d \in Matrix!Drive, NEW e \in Matrix!Drive, NEW s \in Matrix!Scan,
             <<d, s>> \in m, Joined(c, d, e)
      PROVE  <<e, s>> \in m
  BY <1>2, <1>6 DEF Joined
<1>7. ASSUME NEW d \in Matrix!Drive, NEW e \in Matrix!Drive, NEW t \in Matrix!Scan,
             <<d, t>> \in c, <<e, t>> \in c
      PROVE  Joined(c, d, e)
  <2>1. t \in Matrix!Row(c, d) /\ t \in Matrix!Row(c, e)
    BY <1>7 DEF Matrix!Row
  <2> QED
    BY <2>1 DEF Joined, Matrix!Island
<1> QED
  BY <1>2, <1>3, <1>5, <1>6, <1>7 DEF m, need, Matrices

(* An island's other side is one. *)
LEMMA OtherSide ==
  ASSUME NEW c, NEW L \in SUBSET Matrix!Drive, Matrix!Island(c, L)
  PROVE  Matrix!Island(c, Matrix!Drive \ L)
BY DEF Matrix!Island

(* What is left of a scan: the closed contacts of lines that share no scan *)
(* line with others, or of currents that reach no other scan line.  Where  *)
(* current reaches a line through another one, both are read alike and     *)
(* share two keys.                                                         *)
LEMMA LeftOfScan ==
  ASSUME NEW c \in Matrices
  PROVE  LET m == Matrix!ScanMatrix(c, {p[2] : p \in c})
         IN  m \ Matrix!Ambiguous(m) =
               {p \in c : Matrix!Island(c, {p[1]}) \/ Matrix!Row(m, p[1]) = {p[2]}}
<1> DEFINE need == {p[2] : p \in c}
           m == Matrix!ScanMatrix(c, need)
<1>1. /\ c \subseteq m /\ m \in Matrices
      /\ \A d \in Matrix!Drive, s \in Matrix!Scan :
           <<d, s>> \in m =>
             \A L \in SUBSET Matrix!Drive :
               d \in L /\ Matrix!Island(c, L) => \E e \in L : <<e, s>> \in c
      /\ \A d, e \in Matrix!Drive, s \in Matrix!Scan :
           <<d, s>> \in m /\ Joined(c, d, e) => <<e, s>> \in m
      /\ \A d, e \in Matrix!Drive, t \in Matrix!Scan :
           <<d, t>> \in c /\ <<e, t>> \in c => Joined(c, d, e)
  BY ScanReads
<1> HIDE DEF m, need
<1>2. \A p \in m : \E d \in Matrix!Drive, s \in Matrix!Scan : p = <<d, s>>
  BY <1>1 DEF Matrices, Matrix!Position
<1>3. \A d \in Matrix!Drive, s \in Matrix!Scan :
        /\ s \in Matrix!Row(c, d) <=> <<d, s>> \in c
        /\ s \in Matrix!Row(m, d) <=> <<d, s>> \in m
  BY DEF Matrix!Row
<1>4. \A d \in Matrix!Drive, s \in Matrix!Scan :
        <<d, s>> \in Matrix!Ambiguous(m) <=>
          <<d, s>> \in m /\ \E e \in Matrix!Drive : e # d /\ <<e, s>> \in m /\
            \E t \in Matrix!Scan : t # s /\ (<<d, t>> \in m \/ <<e, t>> \in m)
  <2> TAKE d \in Matrix!Drive, s \in Matrix!Scan
  <2>1. <<d, s>>[1] = d /\ <<d, s>>[2] = s
    OBVIOUS
  <2>2. <<d, s>> \in Matrix!Ambiguous(m) <=>
          <<d, s>> \in m /\ \E e \in Matrix!Drive \ {d} :
            <<e, s>> \in m /\ \E t \in Matrix!Scan \ {s} : <<d, t>> \in m \/ <<e, t>> \in m
    BY <2>1, Zenon DEF Matrix!Ambiguous
  <2> QED
    BY <2>2
<1>5. ASSUME NEW d \in Matrix!Drive, NEW s \in Matrix!Scan, <<d, s>> \in m,
             <<d, s>> \notin Matrix!Ambiguous(m)
      PROVE  <<d, s>> \in c /\ (Matrix!Island(c, {d}) \/ Matrix!Row(m, d) = {s})
  <2>1. CASE Matrix!Island(c, {d})
    <3>1. {d} \in SUBSET Matrix!Drive /\ d \in {d}
      OBVIOUS
    <3>2. \E e \in {d} : <<e, s>> \in c
      BY <1>1, <1>5, <2>1, <3>1
    <3> QED
      BY <2>1, <3>2
  <2>2. CASE ~Matrix!Island(c, {d})
    <3>1. PICK e \in Matrix!Drive, t \in Matrix!Scan : e # d /\ <<d, t>> \in c /\ <<e, t>> \in c
      BY <2>2 DEF Matrix!Island, Matrix!Row
    <3>2. <<e, s>> \in m /\ <<d, t>> \in m /\ <<e, t>> \in m
      BY <1>1, <1>5, <3>1
    <3>3. \A u \in Matrix!Scan : <<d, u>> \in m => u = s
      BY <1>4, <1>5, <3>1, <3>2
    <3>4. t = s
      BY <3>2, <3>3
    <3>5. Matrix!Row(m, d) = {s}
      BY <1>5, <3>3 DEF Matrix!Row
    <3> QED
      BY <3>1, <3>4, <3>5
  <2> QED
    BY <2>1, <2>2
<1>6. ASSUME NEW d \in Matrix!Drive, NEW s \in Matrix!Scan, <<d, s>> \in c,
             Matrix!Island(c, {d}) \/ Matrix!Row(m, d) = {s}, <<d, s>> \in Matrix!Ambiguous(m)
      PROVE  FALSE
  <2>1. PICK e \in Matrix!Drive : e # d /\ <<e, s>> \in m /\
          \E t \in Matrix!Scan : t # s /\ (<<d, t>> \in m \/ <<e, t>> \in m)
    BY <1>4, <1>6
  <2>2. PICK t \in Matrix!Scan : t # s /\ (<<d, t>> \in m \/ <<e, t>> \in m)
    BY <2>1
  <2>3. ASSUME NEW L \in SUBSET Matrix!Drive, d \in L, Matrix!Island(c, L)
        PROVE  e \in L
    <3>1. SUFFICES ASSUME e \notin L PROVE FALSE
      OBVIOUS
    <3>2. Matrix!Island(c, Matrix!Drive \ L) /\ Matrix!Drive \ L \in SUBSET Matrix!Drive
      BY <2>3, OtherSide
    <3>3. PICK f \in Matrix!Drive \ L : <<f, s>> \in c
      BY <1>1, <2>1, <3>1, <3>2
    <3>4. s \in Matrix!Row(c, d) \cap Matrix!Row(c, f)
      BY <1>3, <1>6, <3>3
    <3> QED
      BY <2>3, <3>3, <3>4 DEF Matrix!Island
  <2>4. CASE Matrix!Island(c, {d})
    <3>1. {d} \in SUBSET Matrix!Drive /\ d \in {d}
      OBVIOUS
    <3> QED
      BY <2>1, <2>3, <2>4, <3>1
  <2>5. CASE Matrix!Row(m, d) = {s}
    <3>1. <<d, t>> \notin m /\ <<e, t>> \in m
      BY <1>3, <2>2, <2>5
    <3> QED
      BY <1>1, <2>3, <3>1 DEF Joined
  <2> QED
    BY <1>6, <2>4, <2>5
<1>7. \A d \in Matrix!Drive, s \in Matrix!Scan :
        <<d, s>> \in m \ Matrix!Ambiguous(m) <=>
          <<d, s>> \in c /\ (Matrix!Island(c, {d}) \/ Matrix!Row(m, d) = {s})
  BY <1>1, <1>5, <1>6
<1>8. \A p : p \in m \ Matrix!Ambiguous(m) <=>
              p \in c /\ (Matrix!Island(c, {p[1]}) \/ Matrix!Row(m, p[1]) = {p[2]})
  <2> SUFFICES ASSUME NEW p \in m
               PROVE  p \in m \ Matrix!Ambiguous(m) <=>
                        p \in c /\ (Matrix!Island(c, {p[1]}) \/ Matrix!Row(m, p[1]) = {p[2]})
    BY <1>1
  <2>1. PICK d \in Matrix!Drive, s \in Matrix!Scan : p = <<d, s>>
    BY <1>2
  <2>2. p[1] = d /\ p[2] = s
    BY <2>1
  <2> QED
    BY <1>7, <2>1, <2>2
<1> QED
  BY <1>8 DEF m, need

-----------------------------------------------------------------------------
(* The buffer *)
LEMMA RingAssumption == Ring!NumAssumption
<1>1. BufNum \in Nat /\ BufNum > 1
  BY DriversAssumption DEF Matrix!KeyboardAssumption
<1>2. 2 \in 2 .. 2 * BufNum /\ 2 * BufNum \in Nat /\ BufNum \in Nat \ {0}
  BY <1>1
<1> QED
  BY <1>2 DEF Ring!NumAssumption

(* The counters and slots as keyboard.c computes them *)
LEMMA RingFacts ==
  /\ BufNum \in Nat /\ BufNum > 1
  /\ \A r \in Ring!Ptr, k \in Int : (r + k) % BufNum = Ring!EntrySlot(r, k)
  /\ \A r \in Ring!Ptr : r % BufNum = Ring!EntrySlot(r, 0) /\ r % BufNum \in 0 .. BufNum - 1
<1>1. BufNum \in Nat /\ BufNum > 1
  BY DriversAssumption DEF Matrix!KeyboardAssumption
<1>2. ASSUME NEW r \in Ring!Ptr, NEW k \in Int
      PROVE  (r + k) % BufNum = Ring!EntrySlot(r, k)
  <2>1. r + k \in Int /\ BufNum > 0 /\ 2 \in Nat /\ 2 > 0
    BY <1>1 DEF Ring!Ptr
  <2>2. ((r + k) % (2 * BufNum)) % BufNum = (r + k) % BufNum
    BY <2>1, <1>1, Ring!ModOfMod, RingAssumption
  <2> QED
    BY <2>2 DEF Ring!EntrySlot, Ring!SlotOf, Ring!Nth
<1>3. ASSUME NEW r \in Ring!Ptr
      PROVE  r % BufNum = Ring!EntrySlot(r, 0) /\ r % BufNum \in 0 .. BufNum - 1
  <2>1. r + 0 = r
    BY <1>1 DEF Ring!Ptr
  <2>2. r % BufNum \in 0 .. BufNum - 1
    BY <1>1 DEF Ring!Ptr
  <2> QED
    BY <1>2, <2>1, <2>2, 0 \in Int
<1> QED
  BY <1>1, <1>2, <1>3

(* What a step of one counter does to their distance. *)
LEMMA RingCounters ==
  ASSUME NEW w \in Ring!Ptr, NEW r \in Ring!Ptr
  PROVE  /\ Ring!Bump(w) \in Ring!Ptr
         /\ Ring!Count(w, r) \in Nat
         /\ w # r <=> Ring!Count(w, r) # 0
         /\ Ring!Count(w, r) < 2 * BufNum - 1 => Ring!Count(Ring!Bump(w), r) = Ring!Count(w, r) + 1
         /\ w # r => Ring!Count(w, Ring!Bump(r)) = Ring!Count(w, r) - 1
<1>1. Ring!Bump(w) \in Ring!Ptr
  BY RingAssumption, Ring!BumpCases
<1>2. Ring!Count(w, r) \in Nat
  BY RingAssumption, Ring!CountCases
<1>3. w # r <=> Ring!Count(w, r) # 0
  BY RingAssumption, Ring!CountZero DEF Ring!IsEmpty
<1>4. ASSUME Ring!Count(w, r) < 2 * BufNum - 1
      PROVE  Ring!Count(Ring!Bump(w), r) = Ring!Count(w, r) + 1
  BY <1>4, RingAssumption, Ring!CountHandedOver
<1>5. ASSUME w # r PROVE Ring!Count(w, Ring!Bump(r)) = Ring!Count(w, r) - 1
  BY <1>5, RingAssumption, Ring!CountReleased DEF Ring!IsEmpty
<1> QED
  BY <1>1, <1>2, <1>3, <1>4, <1>5

(* When the counters are one entry further apart than there are slots,     *)
(* half a lap behind the writer is the entry after the oldest.             *)
LEMMA OldestLeft ==
  ASSUME NEW w \in Ring!Ptr, NEW r \in Ring!Ptr, Ring!Count(w, r) = BufNum + 1
  PROVE  (w - BufNum) % (2 * BufNum) = Ring!Bump(r)
<1> DEFINE m == 2 * BufNum
<1>0. BufNum \in Nat /\ BufNum > 1 /\ m \in Nat /\ m > 0 /\ m = 2 * BufNum
      /\ w \in 0 .. m - 1 /\ r \in 0 .. m - 1
  BY RingFacts DEF Ring!Ptr
<1>1. /\ w >= r => w - r = BufNum + 1
      /\ w < r => w - r + m = BufNum + 1
  BY RingAssumption, Ring!CountCases
<1>2. /\ r < m - 1 => Ring!Bump(r) = r + 1
      /\ r = m - 1 => Ring!Bump(r) = 0
  BY RingAssumption, Ring!BumpCases
<1> HIDE DEF m
<1>3. CASE w >= r
  <2>1. w - BufNum = 0 * m + (r + 1) /\ r + 1 \in 0 .. m - 1 /\ w - BufNum \in Int /\ r < m - 1
    BY <1>0, <1>1, <1>3
  <2>2. (w - BufNum) % m = r + 1
    BY <1>0, <2>1, Ring!ModUnique, RingAssumption, 0 \in Int
  <2> QED
    BY <1>2, <2>1, <2>2 DEF m
<1>4. CASE w < r /\ r < m - 1
  <2>1. w - BufNum = (-1) * m + (r + 1) /\ r + 1 \in 0 .. m - 1 /\ w - BufNum \in Int
    BY <1>0, <1>1, <1>4
  <2>2. (w - BufNum) % m = r + 1
    BY <1>0, <2>1, Ring!ModUnique, RingAssumption, -1 \in Int
  <2> QED
    BY <1>2, <1>4, <2>2 DEF m
<1>5. CASE w < r /\ r = m - 1
  <2>1. w - BufNum = 0 * m + 0 /\ 0 \in 0 .. m - 1 /\ w - BufNum \in Int
    BY <1>0, <1>1, <1>5
  <2>2. (w - BufNum) % m = 0
    BY <1>0, <2>1, Ring!ModUnique, RingAssumption, 0 \in Int
  <2> QED
    BY <1>2, <1>5, <2>2 DEF m
<1> QED
  BY <1>0, <1>3, <1>4, <1>5

(* One lap further is the same slot. *)
LEMMA OneLap ==
  ASSUME NEW r \in Ring!Ptr
  PROVE  Ring!EntrySlot(r, BufNum) = Ring!EntrySlot(r, 0)
<1>0. BufNum \in Nat /\ BufNum > 0 /\ r \in Nat
  BY RingFacts DEF Ring!Ptr
<1> DEFINE q == r \div BufNum
           b == r % BufNum
<1>1. q \in Int /\ b \in 0 .. BufNum - 1 /\ r = BufNum * q + b
  BY <1>0
<1> HIDE DEF q, b
<1>2. r + BufNum = (q + 1) * BufNum + b /\ q + 1 \in Int /\ r + BufNum \in Int
  BY <1>0, <1>1
<1>3. (r + BufNum) % BufNum = b
  BY <1>0, <1>1, <1>2, Ring!ModUnique, RingAssumption
<1>4. (r + BufNum) % BufNum = Ring!EntrySlot(r, BufNum)
  BY <1>0, RingFacts
<1>5. r % BufNum = Ring!EntrySlot(r, 0)
  BY RingFacts
<1> QED
  BY <1>3, <1>4, <1>5 DEF b

(* A change joins the buffer.  While there is room it is one entry more; a *)
(* full buffer gives up its oldest entry, whose slot the newest one takes. *)
LEMMA PushKeeps ==
  ASSUME Holds(buff, wptr, rptr, unread), NEW cur \in Matrices
  PROVE  LET p == Matrix!Push(cur) IN Holds(p.b, p.w, p.r, p.u)
<1>1. CASE cur = last
  BY <1>1 DEF Matrix!Push
<1> SUFFICES ASSUME cur # last
             PROVE  LET p == Matrix!Push(cur) IN Holds(p.b, p.w, p.r, p.u)
  BY <1>1
<1> DEFINE n == Len(unread)
           slot == wptr % BufNum
           w == (wptr + 1) % (2 * BufNum)
           r == Matrix!Pushed(w)
           b == [buff EXCEPT ![slot] = cur]
           u == Append(IF Len(unread) = BufNum THEN Tail(unread) ELSE unread, cur)
<1>2. Matrix!Push(cur) = [b |-> b, w |-> w, r |-> r, u |-> u]
  BY DEF Matrix!Push
<1> SUFFICES Holds(b, w, r, u)
  BY <1>2
<1>0. /\ BufNum \in Nat /\ BufNum > 1
      /\ rptr \in Ring!Ptr /\ wptr \in Ring!Ptr /\ n \in 0 .. BufNum
      /\ unread \in Seq(Matrices) /\ Ring!Count(wptr, rptr) = n
      /\ buff \in [0 .. BufNum - 1 -> Matrices]
      /\ \A k \in 0 .. n - 1 : buff[Ring!EntrySlot(rptr, k)] = unread[k + 1]
  BY RingFacts DEF Holds
<1>3. slot \in 0 .. BufNum - 1 /\ Ring!EntrySlot(rptr, n) = slot
  BY <1>0, RingFacts, RingAssumption, Ring!EntryOpen DEF Ring!SlotOf
<1>4. w = Ring!Bump(wptr) /\ w \in Ring!Ptr /\ Ring!Count(w, rptr) = n + 1
  <2>1. w = Ring!Bump(wptr)
    BY DEF Ring!Bump
  <2>2. Ring!Count(wptr, rptr) < 2 * BufNum - 1
    BY <1>0
  <2> QED
    BY <1>0, <2>1, <2>2, RingCounters
<1>5. r = IF n + 1 > BufNum THEN (w - BufNum) % (2 * BufNum) ELSE rptr
  BY <1>4 DEF Matrix!Pushed, Ring!Count
<1>6. u = Append(IF n = BufNum THEN Tail(unread) ELSE unread, cur)
  OBVIOUS
<1>7. /\ b \in [0 .. BufNum - 1 -> Matrices]
      /\ b[slot] = cur
      /\ \A s \in 0 .. BufNum - 1 : s # slot => b[s] = buff[s]
  BY <1>0, <1>3
<1>8. ASSUME NEW x \in 0 .. BufNum - 1, NEW y \in 0 .. BufNum - 1, x # y
      PROVE  /\ Ring!EntrySlot(rptr, x) # Ring!EntrySlot(rptr, y)
             /\ Ring!EntrySlot(rptr, x) \in 0 .. BufNum - 1
  <2>1. x \in Ring!Ptr
    BY <1>0 DEF Ring!Ptr
  <2> QED
    BY <1>0, <1>8, <2>1, RingAssumption, Ring!EntrySlotDistinct, Ring!EntrySlotInSlot DEF Ring!Slot
<1> HIDE DEF n, slot, w, r, b, u
<1>9. CASE n < BufNum
  <2>1. r = rptr /\ u = Append(unread, cur)
    BY <1>0, <1>5, <1>6, <1>9
  <2>2. /\ u \in Seq(Matrices) /\ Len(u) = n + 1 /\ u[n + 1] = cur
        /\ \A k \in 1 .. n : u[k] = unread[k]
    BY <1>0, <2>1 DEF n
  <2>3. ASSUME NEW k \in 0 .. n
        PROVE  b[Ring!EntrySlot(rptr, k)] = u[k + 1]
    <3>1. CASE k = n
      BY <3>1, <1>3, <1>7, <2>2
    <3>2. CASE k # n
      <4>1. k \in 0 .. n - 1 /\ k + 1 \in 1 .. n /\ k \in 0 .. BufNum - 1 /\ n \in 0 .. BufNum - 1
        BY <1>0, <1>9, <3>2
      <4>2. Ring!EntrySlot(rptr, k) # slot /\ Ring!EntrySlot(rptr, k) \in 0 .. BufNum - 1
        BY <4>1, <3>2, <1>3, <1>8
      <4> QED
        BY <4>1, <4>2, <1>0, <1>7, <2>2
    <3> QED
      BY <3>1, <3>2
  <2>4. Len(u) - 1 = n /\ Len(u) <= BufNum
    BY <1>0, <1>9, <2>2
  <2> QED
    BY <1>0, <1>4, <1>7, <2>1, <2>2, <2>3, <2>4 DEF Holds
<1>10. CASE n = BufNum
  <2>1. r = Ring!Bump(rptr) /\ u = Append(Tail(unread), cur)
    <3>1. Ring!Count(w, rptr) = BufNum + 1 /\ n + 1 > BufNum
      BY <1>0, <1>4, <1>10
    <3> QED
      BY <1>0, <1>4, <1>5, <1>6, <1>10, <3>1, OldestLeft
  <2>2. /\ u \in Seq(Matrices) /\ Len(u) = n /\ u[n] = cur
        /\ \A k \in 1 .. n - 1 : u[k] = unread[k + 1]
    <3>1. unread # << >>
      BY <1>0, <1>10 DEF n
    <3> DEFINE t == Tail(unread)
    <3>2. t \in Seq(Matrices) /\ Len(t) = n - 1 /\ \A k \in 1 .. n - 1 : t[k] = unread[k + 1]
      BY <1>0, <3>1, HeadTailProperties DEF n
    <3> HIDE DEF t
    <3>3. /\ Append(t, cur) \in Seq(Matrices) /\ Len(Append(t, cur)) = n
          /\ Append(t, cur)[n] = cur
          /\ \A k \in 1 .. n - 1 : Append(t, cur)[k] = t[k]
      BY <1>0, <3>2
    <3> QED
      BY <2>1, <3>2, <3>3 DEF t
  <2>3. r \in Ring!Ptr /\ Ring!Count(w, r) = n
    <3>1. w # rptr
      BY <1>0, <1>4, RingCounters
    <3>2. Ring!Bump(rptr) \in Ring!Ptr
      BY <1>0, RingCounters
    <3>3. Ring!Count(w, Ring!Bump(rptr)) = Ring!Count(w, rptr) - 1
      BY <1>0, <1>4, <3>1, RingCounters
    <3> QED
      BY <1>0, <1>4, <2>1, <3>2, <3>3
  <2>4. \A k \in 0 .. n - 1 : Ring!EntrySlot(r, k) = Ring!EntrySlot(rptr, k + 1)
    <3>1. \A k \in 0 .. n - 1 : k \in 0 .. 2 * BufNum - 2
      BY <1>0
    <3> QED
      BY <1>0, <2>1, <3>1, RingAssumption, Ring!EntryShift
  <2>5. slot = Ring!EntrySlot(rptr, 0)
    BY <1>0, <1>3, <1>10, RingFacts, OneLap
  <2>6. ASSUME NEW k \in 0 .. n - 1
        PROVE  b[Ring!EntrySlot(r, k)] = u[k + 1]
    <3>1. CASE k = n - 1
      <4>1. Ring!EntrySlot(r, k) = slot /\ k + 1 = n
        BY <1>0, <1>3, <2>4, <3>1
      <4> QED
        BY <4>1, <1>7, <2>2
    <3>2. CASE k # n - 1
      <4>1. /\ k + 1 \in 1 .. n - 1 /\ k + 1 \in 0 .. BufNum - 1 /\ 0 \in 0 .. BufNum - 1 /\ k + 1 # 0
            /\ k + 1 \in 0 .. n - 1
        BY <1>0, <1>10, <3>2
      <4>2. Ring!EntrySlot(rptr, k + 1) # slot /\ Ring!EntrySlot(rptr, k + 1) \in 0 .. BufNum - 1
        BY <4>1, <1>8, <2>5
      <4>3. b[Ring!EntrySlot(rptr, k + 1)] = unread[(k + 1) + 1]
        BY <4>1, <4>2, <1>0, <1>7
      <4> QED
        BY <4>1, <4>3, <2>2, <2>4
    <3> QED
      BY <3>1, <3>2
  <2> QED
    BY <1>0, <1>4, <1>7, <1>10, <2>2, <2>3, <2>6 DEF Holds
<1> QED
  BY <1>0, <1>9, <1>10

(* The oldest entry of a buffer that is not empty is the first change not  *)
(* read yet, and the rest of the buffer is the rest of them.               *)
LEMMA PopKeeps ==
  ASSUME NEW b, NEW w, NEW r, NEW u, Holds(b, w, r, u), w # r
  PROVE  Holds(b, w, (r + 1) % (2 * BufNum), Tail(u))
<1> DEFINE q == (r + 1) % (2 * BufNum)
           t == Tail(u)
<1>1. /\ r \in Ring!Ptr /\ w \in Ring!Ptr /\ q = Ring!Bump(r)
      /\ Ring!Count(w, r) = Len(u) /\ u \in Seq(Matrices)
  BY DEF Holds, Ring!Bump
<1>2. q \in Ring!Ptr /\ Ring!Count(w, q) = Len(u) - 1 /\ Len(u) # 0
  BY <1>1, RingCounters
<1>3. /\ t \in Seq(Matrices) /\ Len(t) = Len(u) - 1 /\ Len(u) \in Nat /\ Len(u) > 0
      /\ \A k \in 1 .. Len(u) - 1 : t[k] = u[k + 1]
  <2>1. u # << >>
    BY <1>2
  <2> QED
    BY <1>1, <1>2, <2>1, HeadTailProperties
<1> HIDE DEF q, t
<1>4. ASSUME NEW k \in 0 .. Len(t) - 1
      PROVE  b[Ring!EntrySlot(q, k)] = t[k + 1]
  <2>1. k \in 0 .. 2 * BufNum - 2 /\ k + 1 \in 0 .. Len(u) - 1 /\ k + 1 \in 1 .. Len(u) - 1
    BY <1>3, RingFacts DEF Holds
  <2>2. Ring!EntrySlot(q, k) = Ring!EntrySlot(r, k + 1)
    BY <1>1, <2>1, RingAssumption, Ring!EntryShift
  <2>3. b[Ring!EntrySlot(r, k + 1)] = u[(k + 1) + 1]
    BY <2>1 DEF Holds
  <2> QED
    BY <1>3, <2>1, <2>2, <2>3
<1> SUFFICES Holds(b, w, q, t)
  BY DEF q, t
<1>5. b \in [0 .. BufNum - 1 -> Matrices] /\ Len(t) <= BufNum
  BY <1>3, RingFacts DEF Holds
<1> QED
  BY <1>1, <1>2, <1>3, <1>4, <1>5 DEF Holds

-----------------------------------------------------------------------------
(* A scan *)
LEMMA ScanSeesClosed ==
  ASSUME closed \in Matrices
  PROVE  Matrix!RmvGhostKey(Matrix!ScanMatrix(closed, Matrix!Needed)) \subseteq closed
<1>1. CASE Matrix!Lines = {}
  <2>1. closed = {}
    BY <1>1 DEF Matrix!Lines
  <2>2. Matrix!Drive \in SUBSET Matrix!Drive /\ Matrix!Island(closed, Matrix!Drive)
    BY DEF Matrix!Island
  <2>3. \A p \in Matrix!Position : p[1] \in Matrix!Drive
    BY DEF Matrix!Position
  <2>4. Matrix!ScanMatrix(closed, Matrix!Needed) = {}
    BY <2>1, <2>2, <2>3 DEF Matrix!ScanMatrix
  <2> QED
    BY <2>4 DEF Matrix!RmvGhostKey
<1>2. CASE Matrix!Lines # {}
  <2>1. Linger # 0
    BY DriversAssumption DEF Matrix!KeyboardAssumption
  <2>2. Matrix!Needed = {p[2] : p \in closed}
    BY <1>2, <2>1 DEF Matrix!Needed, Matrix!LingerFrom, Matrix!Lines
  <2>3. Matrix!ScanMatrix(closed, {p[2] : p \in closed}) \in Matrices
    BY ScanReads
  <2> QED
    BY <2>2, <2>3, LeftOfScan, GhostKeys DEF Matrices
<1> QED
  BY <1>1, <1>2

LEMMA ScanKeeps ==
  ASSUME closed \in Matrices, BufferInv, NEW mode, NEW filter \in BOOLEAN, Matrix!ScanKey(mode, filter)
  PROVE  BufferInv' /\ last' \ last \subseteq closed
<1>1. CASE UNCHANGED <<pre, last, buff, wptr, rptr, event, unread>>
  BY <1>1 DEF BufferInv, Holds
<1>2. CASE Matrix!ScanKeyValue(mode, filter)
  <2> DEFINE m == Matrix!RmvGhostKey(Matrix!ScanMatrix(closed, Matrix!Needed))
             cur == IF filter THEN Matrix!Filtered(m) ELSE m
             p == Matrix!Push(cur)
  <2>1. m \subseteq closed
    BY ScanSeesClosed
  <2>2. /\ pre' = m /\ last' = cur /\ buff' = p.b /\ wptr' = p.w
        /\ \/ rptr' = p.r /\ unread' = p.u
           \/ p.w # p.r /\ rptr' = (p.r + 1) % (2 * BufNum) /\ unread' = Tail(p.u)
    BY <1>2 DEF Matrix!ScanKeyValue, Matrix!Scanned
  <2> HIDE DEF m
  <2>3. pre \in Matrices /\ last \in Matrices /\ m \in Matrices
    BY <2>1 DEF BufferInv, Matrices
  <2>4. cur \in Matrices /\ cur \ last \subseteq m
    BY <2>3 DEF Matrix!Filtered, Matrices
  <2> HIDE DEF cur
  <2>5. Holds(p.b, p.w, p.r, p.u)
    BY <2>4, PushKeeps DEF BufferInv
  <2> HIDE DEF p
  <2>6. Holds(buff', wptr', rptr', unread')
    <3>1. CASE rptr' = p.r /\ unread' = p.u
      BY <2>2, <2>5, <3>1
    <3>2. CASE p.w # p.r /\ rptr' = (p.r + 1) % (2 * BufNum) /\ unread' = Tail(p.u)
      BY <2>2, <2>5, <3>2, PopKeeps
    <3> QED
      BY <2>2, <3>1, <3>2
  <2>7. BufferInv'
    BY <2>2, <2>3, <2>4, <2>6 DEF BufferInv, Holds
  <2> QED
    BY <2>1, <2>2, <2>4, <2>7
<1> QED
  BY <1>1, <1>2 DEF Matrix!ScanKey

LEMMA KeysStep ==
  ASSUME KeysInv, [Next]_vars
  PROVE  KeysInv' /\ last' \ last \subseteq closed
<1>1. CASE UNCHANGED <<part, keyVars>>
  BY <1>1 DEF KeysInv, BufferInv, Holds, keyVars
<1>2. ASSUME NEW p \in Matrix!Position, KeyStep(Matrix!KeyMove(p))
      PROVE  KeysInv' /\ last' \ last \subseteq closed
  BY <1>2 DEF KeyStep, Matrix!KeyMove, KeysInv, BufferInv, Holds, Matrices
<1>4. ASSUME NEW mode, NEW filter \in BOOLEAN, KeyStep(Matrix!ScanKey(mode, filter))
      PROVE  KeysInv' /\ last' \ last \subseteq closed
  <2>1. closed \in Matrices /\ BufferInv
    BY <1>4 DEF KeysInv
  <2>2. part' = part /\ closed' = closed /\ Matrix!ScanKey(mode, filter)
    BY <1>4 DEF KeyStep, Matrix!ScanKey
  <2>3. BufferInv' /\ last' \ last \subseteq closed
    BY <2>1, <2>2, ScanKeeps
  <2> QED
    BY <2>2, <2>3 DEF KeysInv
<1>5. CASE TimerStep(Timer!Next) \/ UNCHANGED vars
  BY <1>1, <1>5 DEF TimerStep, vars
<1>6. CASE part = "keys" /\ KeyStep(Matrix!Next /\ Few)
  BY <1>2, <1>4, <1>6 DEF KeyStep, Matrix!Next
<1>7. CASE KeyStep(\E p \in Matrix!Position : Matrix!KeyMove(p))
  BY <1>2, <1>7 DEF KeyStep
<1>8. CASE Reads
  BY <1>4, <1>8 DEF Reads
<1>9. CASE part = "reader" /\ KeyStep((\E p \in Matrix!Position : Matrix!KeyMove(p)) /\ Few)
  BY <1>7, <1>9 DEF KeyStep
<1> QED
  BY <1>5, <1>6, <1>7, <1>8, <1>9 DEF Next

LEMMA KeysInit == Init => KeysInv
<1> SUFFICES ASSUME Init PROVE KeysInv
  OBVIOUS
<1>1. /\ closed = {} /\ pre = {} /\ last = {} /\ wptr = 0 /\ rptr = 0 /\ unread = << >>
      /\ buff = [s \in 0 .. BufNum - 1 |-> {}]
  BY DEF Init, Matrix!Init
<1>2. 0 \in Ring!Ptr /\ Ring!Count(0, 0) = 0
  <2>1. 0 \in Ring!Ptr
    BY RingFacts DEF Ring!Ptr
  <2> QED
    BY <2>1, RingCounters
<1>3. Holds(buff, wptr, rptr, unread)
  BY <1>1, <1>2, RingFacts DEF Holds, Matrices
<1> QED
  BY <1>1, <1>3 DEF KeysInv, BufferInv, Matrices

-----------------------------------------------------------------------------
(* The state of the key matrix holds what its properties need, in every    *)
(* reachable state.                                                        *)
THEOREM KeysInvariant == Spec => []KeysInv
<1> QED  BY KeysInit, KeysStep, PTL DEF Spec

(* For every number of lines and every set of closed contacts, with all    *)
(* ways current finds through them, kb_rmv_ghost_key removes from a scan   *)
(* the keys that are corners of a rectangle and no other.  What remains    *)
(* are the closed contacts that no ghost can be taken for.                 *)
THEOREM GhostsRemoved == Spec => []GhostsExact
<1>1. KeysInv => Matrix!GhostsExact
  <2> SUFFICES ASSUME closed \in Matrices PROVE Matrix!GhostsExact
    BY DEF KeysInv
  <2> DEFINE m == Matrix!ScanMatrix(closed, {p[2] : p \in closed})
  <2>1. m \in SUBSET Matrix!Position
    BY ScanReads DEF Matrices
  <2>2. m \ Matrix!Ambiguous(m) =
          {p \in closed : Matrix!Island(closed, {p[1]}) \/ Matrix!Row(m, p[1]) = {p[2]}}
    BY LeftOfScan
  <2> HIDE DEF m
  <2>3. Matrix!RmvGhostKey(m) = m \ Matrix!Ambiguous(m)
    BY <2>1, GhostKeys
  <2> QED
    BY <2>2, <2>3 DEF Matrix!GhostsExact, Matrix!Lines, m
<1>2. KeysInv => GhostsExact
  BY <1>1 DEF GhostsExact
<1> QED  BY <1>2, KeysInvariant, PTL

(* No key is reported that nobody pressed, for every matrix and however    *)
(* the contacts bounce: a key that turns up has a closed contact.          *)
THEOREM NoPhantomSeen == Spec => NoPhantom
<1>1. KeysInv /\ [Next]_vars => [last' \ last \subseteq closed]_(Matrix!vars)
  BY KeysStep
<1> QED  BY <1>1, KeysInvariant, PTL DEF Spec, NoPhantom, Matrix!NoPhantom

(* The buffer holds the newest changes in their order, for every number of *)
(* slots; an overflow costs the oldest and no other.                       *)
THEOREM NewestKept == Spec => []BufferKeepsNewest
<1>1. KeysInv => BufferKeepsNewest
  <2> SUFFICES ASSUME KeysInv PROVE Matrix!BufferKeepsNewest
    BY DEF BufferKeepsNewest
  <2>1. /\ wptr \in Ring!Ptr /\ rptr \in Ring!Ptr /\ Ring!Count(wptr, rptr) = Len(unread)
        /\ \A k \in 0 .. Len(unread) - 1 : buff[Ring!EntrySlot(rptr, k)] = unread[k + 1]
        /\ Len(unread) \in Nat
    BY DEF KeysInv, BufferInv, Holds
  <2>2. (wptr - rptr) % (2 * BufNum) = Len(unread)
    BY <2>1 DEF Ring!Count
  <2>3. ASSUME NEW k \in 1 .. Len(unread)
        PROVE  buff[(rptr + k - 1) % BufNum] = unread[k]
    <3>1. k - 1 \in 0 .. Len(unread) - 1 /\ k - 1 \in Int /\ rptr + (k - 1) = rptr + k - 1 /\ (k - 1) + 1 = k
      BY <2>1, RingFacts DEF Ring!Ptr
    <3>2. (rptr + (k - 1)) % BufNum = Ring!EntrySlot(rptr, k - 1)
      BY <2>1, <3>1, RingFacts
    <3> QED
      BY <2>1, <3>1, <3>2
  <2> QED
    BY <2>2, <2>3 DEF Matrix!BufferKeepsNewest
<1> QED  BY <1>1, KeysInvariant, PTL

-----------------------------------------------------------------------------
(* Induction over the naturals, for sets *)

LEMMA AllNaturals ==
  ASSUME NEW T \in SUBSET Nat, 0 \in T, \A n \in T : n + 1 \in T
  PROVE  T = Nat
<1> SUFFICES ASSUME Nat \ T # {} PROVE FALSE
  OBVIOUS
<1>1. IsWellFoundedOn(OpToRel(<, Nat), Nat)
  BY NatLessThanWellFounded
<1>2. PICK x \in Nat \ T : \A y \in Nat \ T : ~(<<y, x>> \in OpToRel(<, Nat))
  BY <1>1, WFMin, Nat \ T \subseteq Nat
<1>3. \A y \in Nat \ T : ~(y < x)
  BY <1>2 DEF OpToRel
<1>4. x - 1 \in Nat /\ x - 1 < x /\ (x - 1) + 1 = x
  <2>1. x \in Nat /\ x # 0
    BY <1>2
  <2> QED
    BY <2>1
<1>5. x - 1 \in T
  BY <1>3, <1>4
<1>6. (x - 1) + 1 \in T
  BY <1>5
<1> QED
  BY <1>2, <1>4, <1>6

(* g holds the results of repeating a step from x on. *)
Iterates(X, x, step, m, g) ==
  g \in [0 .. m -> X] /\ g[0] = x /\ \A j \in 1 .. m : g[j] = step[j][g[j - 1]]

(* A step that leads from X to X can be repeated any number of times. *)
LEMMA Repeated ==
  ASSUME NEW X, NEW x \in X, NEW step \in [Nat -> [X -> X]], NEW m \in Nat
  PROVE  \E g : Iterates(X, x, step, m, g)
<1> DEFINE Run(g, n) == Iterates(X, x, step, n, g)
           T == {n \in Nat : \E g : Run(g, n)}
<1>1. 0 \in T
  <2>1. [j \in 0 .. 0 |-> x] \in [0 .. 0 -> X] /\ [j \in 0 .. 0 |-> x][0] = x
    OBVIOUS
  <2>2. Run([j \in 0 .. 0 |-> x], 0)
    BY <2>1 DEF Iterates
  <2> HIDE DEF Run
  <2> QED
    BY <2>1, <2>2
<1>2. ASSUME NEW n \in T PROVE n + 1 \in T
  <2>1. n \in Nat /\ n + 1 \in Nat
    BY <1>2
  <2>2. PICK g : Run(g, n)
    BY <1>2
  <2>3. step[n + 1][g[n]] \in X
    BY <2>1, <2>2 DEF Iterates
  <2> DEFINE h == [j \in 0 .. n + 1 |-> IF j <= n THEN g[j] ELSE step[n + 1][g[n]]]
  <2>4. h \in [0 .. n + 1 -> X]
    BY <2>1, <2>2, <2>3 DEF Iterates
  <2>5. (\A j \in 0 .. n : h[j] = g[j]) /\ h[n + 1] = step[n + 1][g[n]]
    BY <2>1
  <2> HIDE DEF h
  <2>6. h[0] = x
    BY <2>1, <2>2, <2>5 DEF Iterates
  <2>7. ASSUME NEW j \in 1 .. n + 1 PROVE h[j] = step[j][h[j - 1]]
    <3>1. CASE j = n + 1
      <4>1. n \in 0 .. n /\ j - 1 = n
        BY <2>1, <3>1
      <4>2. h[j - 1] = g[n]
        BY <2>5, <4>1
      <4> QED
        BY <2>5, <3>1, <4>2
    <3>2. CASE j # n + 1
      <4>1. j \in 1 .. n /\ j \in 0 .. n /\ j - 1 \in 0 .. n
        BY <2>1, <3>2
      <4>2. g[j] = step[j][g[j - 1]]
        BY <2>2, <4>1 DEF Iterates
      <4> QED
        BY <2>5, <4>1, <4>2
    <3> QED
      BY <3>1, <3>2
  <2>8. Run(h, n + 1)
    BY <2>4, <2>6, <2>7 DEF Iterates
  <2> HIDE DEF Run
  <2> QED
    BY <2>1, <2>4, <2>8
<1>3. T = Nat
  <2> HIDE DEF T
  <2>1. T \subseteq Nat
    BY DEF T
  <2> QED
    BY <1>1, <1>2, <2>1, AllNaturals
<1> QED
  BY <1>3

-----------------------------------------------------------------------------
(* What the sort does *)

(* u is s in another order, of which only the first r entries take part. *)
Shuffled(s, u, n, r) ==
  \E p \in [1 .. n -> 1 .. n] :
    /\ \A k, l \in 1 .. n : p[k] = p[l] => k = l
    /\ \A l \in 1 .. n : u[l] = s[p[l]] /\ IF l <= r THEN p[l] <= r ELSE p[l] = l

(* The comparison of ticks agrees with a number given to each entry. *)
Ranked(E, rank) ==
  rank \in [E -> Nat] /\ \A e, f \in E : Timer!Big(e.t, f.t) <=> rank[f] <= rank[e]

(* Two shuffles of the first r entries are one. *)
LEMMA ShuffledAgain ==
  ASSUME NEW n \in Nat, NEW r \in 0 .. n, NEW s, NEW u, NEW v,
         Shuffled(s, u, n, n), Shuffled(u, v, n, r)
  PROVE  Shuffled(s, v, n, n)
<1>1. PICK p \in [1 .. n -> 1 .. n] :
        /\ \A k, l \in 1 .. n : p[k] = p[l] => k = l
        /\ \A l \in 1 .. n : u[l] = s[p[l]]
  BY DEF Shuffled
<1>2. PICK q \in [1 .. n -> 1 .. n] :
        /\ \A k, l \in 1 .. n : q[k] = q[l] => k = l
        /\ \A l \in 1 .. n : v[l] = u[q[l]]
  BY DEF Shuffled
<1> DEFINE h == [l \in 1 .. n |-> p[q[l]]]
<1>3. h \in [1 .. n -> 1 .. n] /\ \A l \in 1 .. n : h[l] = p[q[l]] /\ q[l] \in 1 .. n
  BY <1>1, <1>2
<1> HIDE DEF h
<1>4. \A k, l \in 1 .. n : h[k] = h[l] => k = l
  BY <1>1, <1>2, <1>3
<1>5. \A l \in 1 .. n : v[l] = s[h[l]] /\ l <= n /\ h[l] <= n
  <2> TAKE l \in 1 .. n
  <2>1. v[l] = u[q[l]] /\ q[l] \in 1 .. n
    BY <1>2, <1>3
  <2>2. u[q[l]] = s[p[q[l]]] /\ p[q[l]] \in 1 .. n
    BY <1>1, <2>1
  <2>3. h[l] = p[q[l]]
    BY <1>3
  <2>4. l <= n /\ \A k \in 1 .. n : k <= n
    OBVIOUS
  <2> QED
    BY <2>1, <2>2, <2>3, <2>4
<1> QED
  BY <1>3, <1>4, <1>5 DEF Shuffled

(* A sequence is a shuffle of itself. *)
LEMMA Unshuffled ==
  ASSUME NEW n \in Nat, NEW r \in 0 .. n, NEW s
  PROVE  Shuffled(s, s, n, r)
<1> DEFINE p == [l \in 1 .. n |-> l]
<1>1. p \in [1 .. n -> 1 .. n] /\ \A l \in 1 .. n : p[l] = l
  OBVIOUS
<1> HIDE DEF p
<1> QED
  BY <1>1 DEF Shuffled

(* One comparison *)
LEMMA BubbleSwaps ==
  ASSUME NEW E, NEW rank, Ranked(E, rank), NEW s \in Seq(E), NEW j \in 1 .. Len(s) - 1,
         NEW u, u = Timer!Bubble(s, j)
  PROVE  /\ u \in Seq(E) /\ Len(u) = Len(s)
         /\ \A l \in 1 .. Len(s) : l # j /\ l # j + 1 => u[l] = s[l]
         /\ \/ u[j] = s[j] /\ u[j + 1] = s[j + 1]
            \/ u[j] = s[j + 1] /\ u[j + 1] = s[j]
         /\ rank[u[j]] <= rank[u[j + 1]]
<1>1. /\ Len(s) \in Nat /\ j \in 1 .. Len(s) /\ j + 1 \in 1 .. Len(s) /\ j \in Int /\ j # j + 1
      /\ \A l \in 1 .. Len(s) : s[l] \in E
  OBVIOUS
<1>2. rank[s[j]] \in Nat /\ rank[s[j + 1]] \in Nat
  BY <1>1 DEF Ranked
<1>3. CASE Timer!Big(s[j].t, s[j + 1].t)
  <2>1. u = [s EXCEPT ![j] = s[j + 1], ![j + 1] = s[j]]
    BY <1>3 DEF Timer!Bubble
  <2>2. rank[s[j + 1]] <= rank[s[j]]
    BY <1>1, <1>3 DEF Ranked
  <2>3. u[j] = s[j + 1] /\ u[j + 1] = s[j] /\ \A l \in 1 .. Len(s) : l # j /\ l # j + 1 => u[l] = s[l]
    BY <1>1, <2>1
  <2>4. u \in Seq(E) /\ Len(u) = Len(s)
    <3> DEFINE v == [s EXCEPT ![j] = s[j + 1]]
    <3>1. v \in Seq(E) /\ Len(v) = Len(s)
      BY <1>1, ExceptSeq
    <3>2. u = [v EXCEPT ![j + 1] = s[j]]
      BY <2>1
    <3> HIDE DEF v
    <3> QED
      BY <1>1, <3>1, <3>2, ExceptSeq
  <2> QED
    BY <1>1, <2>2, <2>3, <2>4
<1>4. CASE ~Timer!Big(s[j].t, s[j + 1].t)
  <2>1. u = s
    BY <1>4 DEF Timer!Bubble
  <2>2. ~(rank[s[j + 1]] <= rank[s[j]])
    BY <1>1, <1>4 DEF Ranked
  <2>3. rank[s[j]] <= rank[s[j + 1]]
    BY <1>2, <2>2
  <2> QED
    BY <2>1, <2>3
<1> QED
  BY <1>3, <1>4

(* The first m comparisons of the inner loop carry the greatest of the     *)
(* first m + 1 entries to their end.                                       *)
Carried(E, rank, s, u, j) ==
  /\ u \in Seq(E) /\ Len(u) = Len(s)
  /\ Shuffled(s, u, Len(s), j + 1)
  /\ \A l \in 1 .. j + 1 : rank[u[l]] <= rank[u[j + 1]]

(* One more comparison carries the greatest entry one place further. *)
LEMMA CarriedOn ==
  ASSUME NEW E, NEW rank, Ranked(E, rank), NEW s \in Seq(E), NEW j \in 1 .. Len(s) - 1,
         NEW x, Carried(E, rank, s, x, j - 1), NEW u, u = Timer!Bubble(x, j)
  PROVE  Carried(E, rank, s, u, j)
<1> DEFINE n == Len(s)
<1>1. n \in Nat /\ j \in 1 .. n /\ j + 1 \in 1 .. n /\ j \in Nat /\ (j - 1) + 1 = j
      /\ x \in Seq(E) /\ Len(x) = n /\ j \in 1 .. Len(x) - 1
  BY DEF Carried
<1> HIDE DEF n
<1>2. /\ u \in Seq(E) /\ Len(u) = n
      /\ \A l \in 1 .. n : l # j /\ l # j + 1 => u[l] = x[l]
      /\ \/ u[j] = x[j] /\ u[j + 1] = x[j + 1]
         \/ u[j] = x[j + 1] /\ u[j + 1] = x[j]
      /\ rank[u[j]] <= rank[u[j + 1]]
  <2>1. /\ u \in Seq(E) /\ Len(u) = Len(x)
        /\ \A l \in 1 .. Len(x) : l # j /\ l # j + 1 => u[l] = x[l]
        /\ \/ u[j] = x[j] /\ u[j + 1] = x[j + 1]
           \/ u[j] = x[j + 1] /\ u[j + 1] = x[j]
        /\ rank[u[j]] <= rank[u[j + 1]]
    <3>1. x \in Seq(E) /\ j \in 1 .. Len(x) - 1 /\ Ranked(E, rank) /\ u = Timer!Bubble(x, j)
      BY <1>1
    <3> HIDE DEF Carried
    <3> QED
      BY <3>1, BubbleSwaps
  <2> QED
    BY <1>1, <2>1
<1>3. /\ \A l \in 1 .. n : u[l] \in E /\ x[l] \in E
      /\ \A e \in E : rank[e] \in Nat
  <2>1. \A l \in 1 .. n : u[l] \in E
    BY <1>2
  <2>2. \A l \in 1 .. n : x[l] \in E
    BY <1>1
  <2>3. \A e \in E : rank[e] \in Nat
    BY DEF Ranked
  <2> QED
    BY <2>1, <2>2, <2>3
<1>4. \A l \in 1 .. j : rank[x[l]] <= rank[x[j]]
  BY <1>1 DEF Carried
<1>5. PICK p \in [1 .. n -> 1 .. n] :
        /\ \A k, l \in 1 .. n : p[k] = p[l] => k = l
        /\ \A l \in 1 .. n : x[l] = s[p[l]] /\ IF l <= j THEN p[l] <= j ELSE p[l] = l
  BY <1>1 DEF Carried, Shuffled, n
<1>6. \A l \in 1 .. j + 1 : rank[u[l]] <= rank[u[j + 1]]
  <2> TAKE l \in 1 .. j + 1
  <2>1. l \in 1 .. n
    BY <1>1
  <2>2. rank[u[l]] \in Nat /\ rank[u[j]] \in Nat /\ rank[u[j + 1]] \in Nat
        /\ rank[x[j]] \in Nat /\ rank[x[l]] \in Nat /\ rank[x[j + 1]] \in Nat
    BY <1>1, <1>3, <2>1
  <2>3. CASE l = j \/ l = j + 1
    BY <1>2, <2>2, <2>3
  <2>4. CASE l # j /\ l # j + 1
    <3>1. u[l] = x[l] /\ l \in 1 .. j
      BY <1>1, <1>2, <2>1, <2>4
    <3>2. rank[u[l]] <= rank[x[j]]
      BY <1>4, <3>1
    <3>3. x[j] = u[j] \/ x[j] = u[j + 1]
      BY <1>2
    <3>4. rank[x[j]] <= rank[u[j + 1]]
      BY <1>2, <2>2, <3>3
    <3> QED
      BY <2>2, <3>2, <3>4
  <2> QED
    BY <2>3, <2>4
<1>7. Shuffled(s, u, n, j + 1)
  <2>1. CASE u[j] = x[j] /\ u[j + 1] = x[j + 1]
    <3>1. \A l \in 1 .. n : u[l] = x[l]
      BY <1>2, <2>1
    <3>2. \A l \in 1 .. n : u[l] = s[p[l]] /\ IF l <= j + 1 THEN p[l] <= j + 1 ELSE p[l] = l
      <4> TAKE l \in 1 .. n
      <4>1. u[l] = s[p[l]] /\ p[l] \in Int /\ l \in Int
        BY <1>1, <1>5, <3>1
      <4>2. IF l <= j THEN p[l] <= j ELSE p[l] = l
        BY <1>5
      <4> QED
        BY <1>1, <4>1, <4>2
    <3> QED
      BY <1>5, <3>2 DEF Shuffled
  <2>2. CASE u[j] = x[j + 1] /\ u[j + 1] = x[j]
    <3> DEFINE q == [l \in 1 .. n |-> IF l = j THEN p[j + 1] ELSE IF l = j + 1 THEN p[j] ELSE p[l]]
    <3>1. /\ q \in [1 .. n -> 1 .. n]
          /\ q[j] = p[j + 1] /\ q[j + 1] = p[j]
          /\ \A l \in 1 .. n : l # j /\ l # j + 1 => q[l] = p[l]
      BY <1>1, <1>5
    <3> HIDE DEF q
    <3>2. \A k, l \in 1 .. n : q[k] = q[l] => k = l
      <4> SUFFICES ASSUME NEW k \in 1 .. n, NEW l \in 1 .. n, q[k] = q[l] PROVE k = l
        OBVIOUS
      <4> DEFINE Turn(a) == IF a = j THEN j + 1 ELSE IF a = j + 1 THEN j ELSE a
      <4>1. \A a \in 1 .. n : Turn(a) \in 1 .. n /\ q[a] = p[Turn(a)]
        BY <1>1, <3>1
      <4>2. Turn(k) = Turn(l)
        BY <1>5, <4>1
      <4> QED
        BY <1>1, <4>2
    <3>3. \A l \in 1 .. n : u[l] = s[q[l]]
      <4> TAKE l \in 1 .. n
      <4>1. x[j] = s[p[j]] /\ x[j + 1] = s[p[j + 1]] /\ x[l] = s[p[l]]
        BY <1>1, <1>5
      <4> QED
        BY <1>2, <2>2, <3>1, <4>1
    <3>4. \A l \in 1 .. n : u[l] = s[q[l]] /\ IF l <= j + 1 THEN q[l] <= j + 1 ELSE q[l] = l
      <4> TAKE l \in 1 .. n
      <4>1. p[j] <= j /\ p[j] \in Int /\ p[j + 1] = j + 1 /\ p[l] \in Int
        <5>1. p[j + 1] = j + 1 /\ p[j] <= j
          <6>1. ~(j + 1 <= j) /\ j <= j
            BY <1>1
          <6> QED
            BY <1>1, <1>5, <6>1
        <5> QED
          BY <1>1, <1>5, <5>1
      <4>2. IF l <= j THEN p[l] <= j ELSE p[l] = l
        BY <1>5
      <4>3. CASE l = j \/ l = j + 1
        <5>1. q[j] = p[j + 1] /\ q[j + 1] = p[j] /\ j \in Nat
          BY <1>1, <3>1
        <5>2. j <= j + 1 /\ p[j] <= j + 1 /\ p[j + 1] <= j + 1
          BY <4>1, <5>1
        <5>3. q[l] <= j + 1 /\ l <= j + 1
          BY <4>3, <5>1, <5>2
        <5> QED
          BY <3>3, <5>3
      <4>4. CASE l # j /\ l # j + 1
        <5>1. q[l] = p[l]
          BY <3>1, <4>4
        <5>2. (l <= j => l <= j + 1) /\ (l <= j + 1 => l <= j) /\ j \in Int /\ j <= j + 1
          BY <1>1, <4>4
        <5>3. CASE l <= j
          <6>1. p[l] <= j /\ p[l] \in Int
            BY <4>1, <4>2, <5>3
          <6>2. p[l] <= j + 1
            BY <5>2, <6>1
          <6> QED
            BY <3>3, <5>1, <5>2, <5>3, <6>2
        <5>4. CASE ~(l <= j)
          BY <3>3, <4>2, <5>1, <5>2, <5>4
        <5> QED
          BY <5>3, <5>4
      <4> QED
        BY <4>3, <4>4
    <3> QED
      BY <3>1, <3>2, <3>4 DEF Shuffled
  <2> QED
    BY <1>2, <2>1, <2>2
<1> QED
  BY <1>2, <1>6, <1>7 DEF Carried, n

(* m comparisons carry the greatest of the first m + 1 entries to place m  *)
(* + 1.                                                                    *)
LEMMA SweepCarries ==
  ASSUME NEW E, NEW rank, Ranked(E, rank), NEW s \in Seq(E), NEW m \in 0 .. Len(s) - 1
  PROVE  Carried(E, rank, s, Timer!Sweep(s, m), m)
<1> DEFINE n == Len(s)
           X == {u \in Seq(E) : Len(u) = n}
           step == [j \in Nat |-> [u \in X |-> IF j \in 1 .. n - 1 THEN Timer!Bubble(u, j) ELSE u]]
           Loop(g) == g = [j \in 0 .. m |-> IF j = 0 THEN s ELSE Timer!Bubble(g[j - 1], j)]
           after == CHOOSE g : Loop(g)
<1>1. n \in Nat /\ s \in X /\ m \in Nat /\ m <= n - 1 /\ n > 0
  OBVIOUS
<1>2. \A u \in X, j \in 1 .. n - 1 : Timer!Bubble(u, j) \in X
  BY BubbleSwaps
<1>3. step \in [Nat -> [X -> X]]
  BY <1>2
<1>4. \A u \in X, j \in 1 .. n - 1 : step[j][u] = Timer!Bubble(u, j)
  OBVIOUS
<1> HIDE DEF step
<1>5. PICK g : g \in [0 .. m -> X] /\ g[0] = s /\ \A j \in 1 .. m : g[j] = step[j][g[j - 1]]
  <2>1. s \in X /\ step \in [Nat -> [X -> X]] /\ m \in Nat
    BY <1>1, <1>3
  <2> HIDE DEF n, X
  <2>2. \E g : Iterates(X, s, step, m, g)
    BY <2>1, Repeated
  <2> QED
    BY <2>2 DEF Iterates
<1>6. Loop(g)
  <2>1. \A j \in 0 .. m : g[j] = IF j = 0 THEN s ELSE Timer!Bubble(g[j - 1], j)
    <3> TAKE j \in 0 .. m
    <3>1. CASE j # 0
      <4>1. j \in 1 .. m /\ j \in 1 .. n - 1 /\ j - 1 \in 0 .. m
        BY <1>1, <3>1
      <4>2. g[j - 1] \in X
        BY <1>5, <4>1
      <4> QED
        BY <1>4, <1>5, <3>1, <4>1, <4>2
    <3> QED
      BY <1>5, <3>1
  <2> QED
    BY <1>5, <2>1
<1>7. Loop(after)
  <2> HIDE DEF Loop
  <2> QED
    BY <1>6, Zenon
<1>8. Timer!Sweep(s, m) = after[m]
  BY DEF Timer!Sweep
<1> HIDE DEF after
<1>9. after[0] = s /\ \A j \in 1 .. m : after[j] = Timer!Bubble(after[j - 1], j)
  BY <1>1, <1>7
<1> DEFINE T == {j \in Nat : j <= m => Carried(E, rank, s, after[j], j)}
<1>10. 0 \in T
  <2>1. Shuffled(s, s, n, 1)
    BY <1>1, Unshuffled
  <2>2. Carried(E, rank, s, s, 0)
    <3>1. s[1] \in E /\ rank[s[1]] \in Nat
      BY <1>1 DEF Ranked
    <3> QED
      BY <1>1, <2>1, <3>1 DEF Carried
  <2> QED
    BY <1>9, <2>2
<1>11. ASSUME NEW j \in T PROVE j + 1 \in T
  <2> SUFFICES ASSUME j + 1 <= m PROVE Carried(E, rank, s, after[j + 1], j + 1)
    OBVIOUS
  <2>1. j \in Nat /\ j + 1 \in 1 .. m /\ j + 1 \in 1 .. n - 1 /\ (j + 1) - 1 = j /\ j <= m
    BY <1>1
  <2>2. Carried(E, rank, s, after[j], j)
    BY <2>1
  <2>3. after[j + 1] = Timer!Bubble(after[j], j + 1)
    BY <1>9, <2>1
  <2> QED
    BY <2>1, <2>2, <2>3, CarriedOn
<1>12. T = Nat
  <2>1. T \subseteq Nat
    OBVIOUS
  <2> HIDE DEF T
  <2> QED
    BY <1>10, <1>11, <2>1, AllNaturals
<1> QED
  BY <1>1, <1>8, <1>12

(* Each round of the outer loop puts one more entry into its place at the  *)
(* end.                                                                    *)
Settled(E, rank, s, u, k) ==
  /\ u \in Seq(E) /\ Len(u) = Len(s)
  /\ Shuffled(s, u, Len(s), Len(s))
  /\ \A a, b \in 1 .. Len(s) : a <= b /\ b > Len(s) - k => rank[u[a]] <= rank[u[b]]

(* One more round settles one more place. *)
LEMMA SettledOn ==
  ASSUME NEW E, NEW rank, Ranked(E, rank), NEW s \in Seq(E), NEW k \in 1 .. Len(s) - 1,
         NEW x, Settled(E, rank, s, x, k - 1), NEW u, u = Timer!Sweep(x, Len(s) - k)
  PROVE  Settled(E, rank, s, u, k)
<1> DEFINE n == Len(s)
           m == n - k
<1>1. n \in Nat /\ k \in Nat /\ k >= 1 /\ m \in Nat /\ m = n - k /\ m + 1 \in 1 .. n
  OBVIOUS
<1>2. x \in Seq(E) /\ Len(x) = n /\ Shuffled(s, x, n, n)
  BY DEF Settled
<1>3. \A a, b \in 1 .. n : a <= b /\ b > m + 1 => rank[x[a]] <= rank[x[b]]
  <2>1. n - (k - 1) = m + 1
    BY <1>1
  <2> QED
    BY <2>1 DEF Settled
<1>4. m \in 0 .. Len(x) - 1 /\ u = Timer!Sweep(x, m)
  BY <1>1, <1>2
<1>5. Carried(E, rank, x, u, m)
  BY <1>2, <1>4, SweepCarries
<1>6. /\ u \in Seq(E) /\ Len(u) = n /\ Shuffled(x, u, n, m + 1)
      /\ \A l \in 1 .. m + 1 : rank[u[l]] <= rank[u[m + 1]]
  BY <1>2, <1>5 DEF Carried
<1> HIDE DEF n, m
<1>7. Shuffled(s, u, n, n)
  <2>1. m + 1 \in 0 .. n
    BY <1>1
  <2> QED
    BY <1>1, <1>2, <1>6, <2>1, ShuffledAgain
<1>8. PICK p \in [1 .. n -> 1 .. n] :
        \A l \in 1 .. n : u[l] = x[p[l]] /\ IF l <= m + 1 THEN p[l] <= m + 1 ELSE p[l] = l
  BY <1>6 DEF Shuffled
<1>9. \A a, b \in 1 .. n : a <= b /\ b > m => rank[u[a]] <= rank[u[b]]
  <2> SUFFICES ASSUME NEW a \in 1 .. n, NEW b \in 1 .. n, a <= b, b > m
               PROVE  rank[u[a]] <= rank[u[b]]
    OBVIOUS
  <2>1. CASE b = m + 1
    <3>1. a \in 1 .. m + 1
      BY <1>1, <2>1
    <3> QED
      BY <1>6, <2>1, <3>1
  <2>2. CASE b # m + 1
    <3>1. b > m + 1
      BY <1>1, <2>2
    <3>2. ~(b <= m + 1)
      BY <1>1, <3>1
    <3>3. u[b] = x[b]
      BY <1>8, <3>2
    <3>4. u[a] = x[p[a]] /\ p[a] \in 1 .. n
      BY <1>8
    <3>5. IF a <= m + 1 THEN p[a] <= m + 1 ELSE p[a] = a
      BY <1>8
    <3>6. p[a] <= b
      <4>1. CASE a <= m + 1
        <5>1. p[a] <= m + 1 /\ p[a] \in Int /\ b \in Int
          BY <3>4, <3>5, <4>1
        <5> QED
          BY <1>1, <3>1, <5>1
      <4>2. CASE ~(a <= m + 1)
        BY <3>5, <4>2
      <4> QED
        BY <4>1, <4>2
    <3> QED
      BY <1>3, <3>1, <3>3, <3>4, <3>6
  <2> QED
    BY <2>1, <2>2
<1> QED
  BY <1>6, <1>7, <1>9 DEF Settled, n, m

(* The whole sort: the same entries in the order of their ticks.           *)
LEMMA Sorts ==
  ASSUME NEW E, NEW rank, Ranked(E, rank), NEW s \in Seq(E), Len(s) > 0
  PROVE  /\ Timer!Sort(s) \in Seq(E) /\ Len(Timer!Sort(s)) = Len(s)
         /\ Shuffled(s, Timer!Sort(s), Len(s), Len(s))
         /\ \A a, b \in 1 .. Len(s) : a <= b => rank[Timer!Sort(s)[a]] <= rank[Timer!Sort(s)[b]]
<1> DEFINE n == Len(s)
           X == {u \in Seq(E) : Len(u) = n}
           step == [k \in Nat |-> [u \in X |-> IF k \in 1 .. n - 1 THEN Timer!Sweep(u, n - k) ELSE u]]
           Loop(g) == g = [k \in 0 .. n - 1 |-> IF k = 0 THEN s ELSE Timer!Sweep(g[k - 1], n - k)]
           swept == CHOOSE g : Loop(g)
<1>1. n \in Nat /\ s \in X /\ n - 1 \in Nat /\ n > 0
  OBVIOUS
<1>2. \A u \in X, k \in 1 .. n - 1 : Timer!Sweep(u, n - k) \in X
  <2> TAKE u \in X, k \in 1 .. n - 1
  <2>1. u \in Seq(E) /\ Len(u) = n /\ n - k \in 0 .. Len(u) - 1
    OBVIOUS
  <2>2. Carried(E, rank, u, Timer!Sweep(u, n - k), n - k)
    BY <2>1, SweepCarries
  <2> QED
    BY <2>1, <2>2 DEF Carried
<1>3. step \in [Nat -> [X -> X]]
  BY <1>2
<1>4. \A u \in X, k \in 1 .. n - 1 : step[k][u] = Timer!Sweep(u, n - k)
  BY <1>1
<1> HIDE DEF step
<1>5. PICK g : g \in [0 .. n - 1 -> X] /\ g[0] = s /\ \A k \in 1 .. n - 1 : g[k] = step[k][g[k - 1]]
  <2>1. s \in X /\ step \in [Nat -> [X -> X]] /\ n - 1 \in Nat
    BY <1>1, <1>3
  <2> HIDE DEF n, X
  <2>2. \E g : Iterates(X, s, step, n - 1, g)
    BY <2>1, Repeated
  <2> QED
    BY <2>2 DEF Iterates
<1>6. Loop(g)
  <2>1. \A k \in 0 .. n - 1 : g[k] = IF k = 0 THEN s ELSE Timer!Sweep(g[k - 1], n - k)
    <3> TAKE k \in 0 .. n - 1
    <3>1. CASE k # 0
      <4>1. k \in 1 .. n - 1 /\ k - 1 \in 0 .. n - 1
        BY <1>1, <3>1
      <4>2. g[k - 1] \in X
        BY <1>5, <4>1
      <4> QED
        BY <1>4, <1>5, <3>1, <4>1, <4>2
    <3> QED
      BY <1>5, <3>1
  <2> QED
    BY <1>5, <2>1
<1>7. Loop(swept)
  <2> HIDE DEF Loop
  <2> QED
    BY <1>6, Zenon
<1>8. Timer!Sort(s) = swept[n - 1]
  BY DEF Timer!Sort
<1> HIDE DEF swept
<1>9. swept[0] = s /\ \A k \in 1 .. n - 1 : swept[k] = Timer!Sweep(swept[k - 1], n - k)
  BY <1>1, <1>7
<1> DEFINE T == {k \in Nat : k <= n - 1 => Settled(E, rank, s, swept[k], k)}
<1>10. 0 \in T
  <2>1. Shuffled(s, s, n, n)
    BY <1>1, Unshuffled
  <2>2. \A a, b \in 1 .. n : ~(b > n - 0)
    BY <1>1
  <2> QED
    BY <1>1, <1>9, <2>1, <2>2 DEF Settled
<1>11. ASSUME NEW k \in T PROVE k + 1 \in T
  <2> SUFFICES ASSUME k + 1 <= n - 1 PROVE Settled(E, rank, s, swept[k + 1], k + 1)
    OBVIOUS
  <2>1. k \in Nat /\ k + 1 \in 1 .. n - 1 /\ (k + 1) - 1 = k /\ k <= n - 1
    BY <1>1
  <2>2. Settled(E, rank, s, swept[k], k)
    BY <2>1
  <2>3. swept[k + 1] = Timer!Sweep(swept[k], n - (k + 1))
    BY <1>9, <2>1
  <2> HIDE DEF T
  <2> QED
    BY <2>1, <2>2, <2>3, SettledOn
<1>12. T = Nat
  <2>1. T \subseteq Nat
    OBVIOUS
  <2> HIDE DEF T
  <2> QED
    BY <1>10, <1>11, <2>1, AllNaturals
<1>13. Settled(E, rank, s, Timer!Sort(s), n - 1)
  BY <1>1, <1>8, <1>12
<1>14. \A a, b \in 1 .. n : a <= b => rank[Timer!Sort(s)[a]] <= rank[Timer!Sort(s)[b]]
  <2> SUFFICES ASSUME NEW a \in 1 .. n, NEW b \in 1 .. n, a <= b
               PROVE  rank[Timer!Sort(s)[a]] <= rank[Timer!Sort(s)[b]]
    OBVIOUS
  <2>1. CASE b > n - (n - 1)
    BY <1>13, <2>1 DEF Settled
  <2>2. CASE ~(b > n - (n - 1))
    <3>1. a = 1 /\ b = 1 /\ 1 \in 1 .. n
      BY <1>1, <2>2
    <3>2. Timer!Sort(s)[1] \in E
      BY <1>13, <3>1 DEF Settled
    <3>3. rank[Timer!Sort(s)[1]] \in Nat
      BY <3>2 DEF Ranked
    <3> QED
      BY <3>1, <3>3
  <2> QED
    BY <2>1, <2>2
<1> QED
  BY <1>13, <1>14 DEF Settled

-----------------------------------------------------------------------------
(* Arithmetic of the clock *)

LEMMA Sizes ==
  /\ Wrap \in Nat /\ Wrap > 0 /\ MaxTimers \in Nat /\ MaxTimers > 0
  /\ Quarter \in Nat /\ Pre \in Nat /\ Post \in Nat /\ Gap \in Nat
  /\ 4 * Quarter <= Wrap /\ Post <= Quarter /\ (MaxTimers + 1) * Gap <= Post
  /\ \A d \in Intervals : d \in Nat /\ d > Pre /\ d < Quarter /\ d + (MaxTimers + 1) * Gap <= Quarter + Pre
BY DriversAssumption DEF Timer!TimerAssumption

(* a and b are the same tick of the clock. *)
SameTick(a, b) == \E k \in Int : a = k * Wrap + b

(* A number and its remainder are the same tick. *)
LEMMA SameTickMod ==
  ASSUME NEW a \in Int
  PROVE  SameTick(a, a % Wrap) /\ a % Wrap \in 0 .. Wrap - 1
<1>1. a % Wrap \in 0 .. Wrap - 1 /\ a = (a \div Wrap) * Wrap + (a % Wrap) /\ a \div Wrap \in Int
  BY Sizes
<1> QED
  BY <1>1 DEF SameTick

(* A tick has one representative below Wrap. *)
LEMMA TickUnique ==
  ASSUME NEW a \in Int, NEW b \in 0 .. Wrap - 1, SameTick(a, b)
  PROVE  a % Wrap = b
<1>1. PICK k \in Int : a = k * Wrap + b
  BY DEF SameTick
<1> QED
  BY <1>1, Sizes, Ring!ModUnique, RingAssumption

(* SameTick is symmetric. *)
LEMMA SameTickBack ==
  ASSUME NEW a \in Int, NEW b \in Int, SameTick(a, b)
  PROVE  SameTick(b, a)
<1>1. PICK k \in Int : a = k * Wrap + b
  BY DEF SameTick
<1>2. b = (-k) * Wrap + a /\ -k \in Int
  BY <1>1, Sizes
<1> QED
  BY <1>2 DEF SameTick

(* Sums and differences of the same ticks are the same tick. *)
LEMMA SameTickPlus ==
  ASSUME NEW a \in Int, NEW b \in Int, NEW c \in Int, NEW d \in Int, SameTick(a, b), SameTick(c, d)
  PROVE  SameTick(a + c, b + d) /\ SameTick(a - c, b - d)
<1>1. PICK k \in Int : a = k * Wrap + b
  BY DEF SameTick
<1>2. PICK l \in Int : c = l * Wrap + d
  BY DEF SameTick
<1>3. k + l \in Int /\ (k + l) * Wrap = k * Wrap + l * Wrap
      /\ k - l \in Int /\ (k - l) * Wrap = k * Wrap - l * Wrap
      /\ k * Wrap \in Int /\ l * Wrap \in Int
  BY Sizes
<1> DEFINE x == k * Wrap
           y == l * Wrap
<1>4. a + c = (x + y) + (b + d) /\ a - c = (x - y) + (b - d)
  <2>1. x \in Int /\ y \in Int /\ a = x + b /\ c = y + d
    BY <1>1, <1>2, <1>3
  <2> HIDE DEF x, y
  <2> QED
    BY <2>1
<1>5. a + c = (k + l) * Wrap + (b + d) /\ a - c = (k - l) * Wrap + (b - d)
  BY <1>3, <1>4
<1> QED
  BY <1>3, <1>5 DEF SameTick

(* SameTick is reflexive. *)
LEMMA SameTickRefl ==
  ASSUME NEW a \in Int
  PROVE  SameTick(a, a)
<1>1. a = 0 * Wrap + a
  BY Sizes
<1> QED
  BY <1>1 DEF SameTick

(* SameTick is transitive. *)
LEMMA SameTickTrans ==
  ASSUME NEW a \in Int, NEW b \in Int, NEW c \in Int, SameTick(a, b), SameTick(b, c)
  PROVE  SameTick(a, c)
<1>1. SameTick(a + b, b + c)
  BY SameTickPlus
<1>2. SameTick((a + b) - b, (b + c) - b)
  BY <1>1, SameTickPlus, SameTickRefl, a + b \in Int, b + c \in Int
<1>3. (a + b) - b = a /\ (b + c) - b = c
  OBVIOUS
<1> QED
  BY <1>2, <1>3

(* How long it is until the deadline t is so long past that it does not    *)
(* count as due any more, seen from tick at.                               *)
Left(t, at) == (t + Post - Pre - 1 - at) % Wrap

(* What is left, as a tick, is the deadline less the moment, and the       *)
(* margin that counts as due.                                              *)
LEMMA LeftSame ==
  ASSUME NEW t \in Int, NEW at \in Int
  PROVE  /\ Left(t, at) \in 0 .. Wrap - 1 /\ Left(t, at) \in Int
         /\ SameTick(t - at, Left(t, at) - (Post - Pre - 1))
<1> DEFINE x == t + Post - Pre - 1 - at
           p == Post - Pre - 1
<1>1. x \in Int /\ p \in Int /\ t - at = x - p
  BY Sizes
<1>2. SameTick(x, Left(t, at)) /\ Left(t, at) \in 0 .. Wrap - 1
  BY <1>1, SameTickMod DEF Left
<1>3. Left(t, at) \in Int
  BY <1>2
<1> HIDE DEF x, p
<1>4. SameTick(x - p, Left(t, at) - p)
  BY <1>1, <1>2, <1>3, SameTickPlus, SameTickRefl
<1> QED
  BY <1>1, <1>2, <1>3, <1>4 DEF p

(* ... and back: that is enough to know it. *)
LEMMA LeftIs ==
  ASSUME NEW t \in Int, NEW at \in Int, NEW l \in 0 .. Wrap - 1,
         SameTick(t - at, l - (Post - Pre - 1))
  PROVE  Left(t, at) = l
<1> DEFINE p == Post - Pre - 1
<1>1. p \in Int /\ l \in Int /\ t - at \in Int /\ l - p \in Int
  BY Sizes
<1>2. SameTick((t - at) + p, (l - p) + p)
  BY <1>1, SameTickPlus, SameTickRefl
<1>3. (l - p) + p = l /\ (t - at) + p = t + Post - Pre - 1 - at /\ (t - at) + p \in Int
  BY <1>1, Sizes
<1>4. ((t - at) + p) % Wrap = l
  BY <1>2, <1>3, TickUnique
<1> QED
  BY <1>3, <1>4 DEF Left

(* A deadline counts as due while there is less than Post left. *)
LEMMA DueLeft ==
  ASSUME NEW t \in Int, NEW at \in Int
  PROVE  Timer!Expired(t, at) <=> Left(t, at) < Post
<1> DEFINE l == Left(t, at)
           x == at + Pre - t
           y == Post - 1 - l
<1>1. l \in 0 .. Wrap - 1 /\ l \in Int /\ SameTick(t - at, l - (Post - Pre - 1))
  BY LeftSame
<1>2. x \in Int /\ y \in Int
  BY <1>1, Sizes
<1>3. SameTick(x, y)
  <2>1. SameTick(Pre - (t - at), Pre - (l - (Post - Pre - 1)))
    <3> HIDE DEF l
    <3>1. t - at \in Int /\ l - (Post - Pre - 1) \in Int /\ Pre \in Int
      BY <1>1, Sizes
    <3> QED
      BY <1>1, <3>1, SameTickPlus, SameTickRefl
  <2>2. Pre - (t - at) = x /\ Pre - (l - (Post - Pre - 1)) = y
    <3> HIDE DEF l
    <3> QED
      BY <1>1, Sizes
  <2> QED
    BY <2>1, <2>2
<1> HIDE DEF l, x, y
<1>4. CASE l < Post
  <2>1. y \in 0 .. Wrap - 1 /\ y < Post
    BY <1>1, <1>4, Sizes DEF y
  <2>2. x % Wrap = y
    BY <1>2, <1>3, <2>1, TickUnique
  <2> QED
    BY <1>4, <2>1, <2>2 DEF Timer!Expired, x, l
<1>5. CASE ~(l < Post)
  <2>1. y + Wrap \in 0 .. Wrap - 1 /\ ~(y + Wrap < Post)
    BY <1>1, <1>5, Sizes DEF y
  <2>2. SameTick(x, y + Wrap)
    <3>1. y = (-1) * Wrap + (y + Wrap) /\ y + Wrap \in Int
      BY <1>2, Sizes
    <3>2. SameTick(y, y + Wrap)
      BY <3>1 DEF SameTick
    <3> QED
      BY <1>2, <1>3, <3>1, <3>2, SameTickTrans
  <2>3. x % Wrap = y + Wrap
    BY <1>2, <2>1, <2>2, TickUnique
  <2> QED
    BY <1>5, <2>1, <2>3 DEF Timer!Expired, x, l
<1> QED
  BY <1>4, <1>5

(* The comparison of ticks is right for deadlines that are near.           *)
LEMMA BigIs ==
  ASSUME NEW t \in Int, NEW u \in Int, NEW at \in Int,
         Left(t, at) - Left(u, at) < Quarter, Left(u, at) - Left(t, at) < Quarter
  PROVE  Timer!Big(t, u) <=> Left(u, at) <= Left(t, at)
<1> DEFINE a == Left(t, at)
           b == Left(u, at)
           p == Post - Pre - 1
<1>1. /\ a \in 0 .. Wrap - 1 /\ b \in 0 .. Wrap - 1 /\ a \in Int /\ b \in Int /\ p \in Int
      /\ SameTick(t - at, a - p) /\ SameTick(u - at, b - p)
      /\ a - b < Quarter /\ b - a < Quarter
  BY LeftSame, Sizes
<1> HIDE DEF a, b, p
<1>2. SameTick((t - at) - (u - at), (a - p) - (b - p))
  <2>1. t - at \in Int /\ u - at \in Int /\ a - p \in Int /\ b - p \in Int
    BY <1>1
  <2> QED
    BY <1>1, <2>1, SameTickPlus
<1>3. (t - at) - (u - at) = t - u /\ (a - p) - (b - p) = a - b /\ t - u \in Int /\ a - b \in Int
  BY <1>1
<1>4. SameTick(t - u, a - b)
  BY <1>2, <1>3
<1>5. CASE b <= a
  <2>1. a - b \in 0 .. Wrap - 1
    BY <1>1, <1>5, Sizes
  <2>2. (t - u) % Wrap = a - b
    BY <1>3, <1>4, <2>1, TickUnique
  <2> QED
    BY <1>1, <1>5, <2>2 DEF Timer!Big, a, b
<1>6. CASE ~(b <= a)
  <2>1. a - b + Wrap \in 0 .. Wrap - 1 /\ ~(a - b + Wrap < Quarter)
    BY <1>1, <1>6, Sizes
  <2>2. SameTick(a - b, a - b + Wrap)
    <3>1. a - b = (-1) * Wrap + (a - b + Wrap) /\ -1 \in Int
      BY <1>3, Sizes
    <3> QED
      BY <3>1 DEF SameTick
  <2>3. SameTick(t - u, a - b + Wrap)
    <3>1. a - b + Wrap \in Int
      BY <2>1
    <3> QED
      BY <1>3, <1>4, <2>2, <3>1, SameTickTrans
  <2>4. (t - u) % Wrap = a - b + Wrap
    BY <1>3, <2>1, <2>3, TickUnique
  <2> QED
    BY <1>6, <2>1, <2>4 DEF Timer!Big, a, b
<1> QED
  BY <1>5, <1>6

(* As the clock goes on there is less left. *)
LEMMA LessLeft ==
  ASSUME NEW t \in Int, NEW at \in Int, NEW at2 \in Int, NEW e \in Nat,
         SameTick(at2, at + e), e <= Left(t, at)
  PROVE  Left(t, at2) = Left(t, at) - e
<1> DEFINE a == Left(t, at)
           p == Post - Pre - 1
<1>1. a \in 0 .. Wrap - 1 /\ a \in Int /\ p \in Int /\ SameTick(t - at, a - p) /\ e <= a
  BY LeftSame, Sizes
<1> HIDE DEF a, p
<1>2. SameTick((t - at) - (at2 - at), (a - p) - ((at + e) - at))
  <2>1. SameTick(at2 - at, (at + e) - at)
    BY SameTickPlus, SameTickRefl, at + e \in Int
  <2>2. t - at \in Int /\ at2 - at \in Int /\ a - p \in Int /\ (at + e) - at \in Int
    BY <1>1
  <2> QED
    BY <1>1, <2>1, <2>2, SameTickPlus
<1>3. (t - at) - (at2 - at) = t - at2 /\ (a - p) - ((at + e) - at) = (a - e) - p
  BY <1>1
<1>4. a - e \in 0 .. Wrap - 1
  BY <1>1, Sizes
<1>5. Left(t, at2) = a - e
  BY <1>2, <1>3, <1>4, LeftIs DEF p
<1> QED
  BY <1>5 DEF a

(* What is armed now is due after its interval and not before. *)
LEMMA ArmedLeft ==
  ASSUME NEW at \in Int, NEW from \in Int, NEW e \in 0 .. Gap, SameTick(from, at + e),
         NEW d \in Intervals
  PROVE  /\ (from + d) % Wrap \in Timer!Ticks
         /\ Left((from + d) % Wrap, at) = e + d + Post - Pre - 1
         /\ e + d + Post - Pre - 1 >= Post
<1> DEFINE p == Post - Pre - 1
           t == (from + d) % Wrap
           l == e + d + Post - Pre - 1
<1>1. /\ d \in Nat /\ d > Pre /\ d < Quarter /\ e \in Nat /\ p \in Int /\ e <= Gap
      /\ d + (MaxTimers + 1) * Gap <= Quarter + Pre
  BY Sizes
<1>2. Gap <= (MaxTimers + 1) * Gap
  <2>1. (MaxTimers + 1) * Gap = MaxTimers * Gap + Gap /\ MaxTimers * Gap \in Nat
    BY Sizes
  <2> QED
    BY <2>1, Sizes
<1>3. l \in 0 .. Wrap - 1 /\ l >= Post
  <2> DEFINE m == (MaxTimers + 1) * Gap
  <2>1. m \in Int /\ Gap <= m /\ d + m <= Quarter + Pre
    BY <1>1, <1>2, Sizes
  <2> HIDE DEF m
  <2> QED
    BY <1>1, <2>1, Sizes
<1>4. t \in 0 .. Wrap - 1 /\ t \in Int /\ SameTick(t, from + d)
  <2>1. from + d \in Int
    BY <1>1
  <2>2. SameTick(from + d, t) /\ t \in 0 .. Wrap - 1 /\ t \in Int
    BY <2>1, SameTickMod
  <2> QED
    BY <2>1, <2>2, SameTickBack
<1> HIDE DEF t
<1>5. SameTick(t - at, e + d)
  <2>1. SameTick(from + d, (at + e) + d)
    BY <1>1, SameTickPlus, SameTickRefl, at + e \in Int
  <2>2. SameTick(t, (at + e) + d)
    BY <1>1, <1>4, <2>1, SameTickTrans, from + d \in Int, (at + e) + d \in Int
  <2>3. SameTick(t - at, ((at + e) + d) - at)
    BY <1>1, <1>4, <2>2, SameTickPlus, SameTickRefl, (at + e) + d \in Int
  <2>4. ((at + e) + d) - at = e + d
    BY <1>1
  <2> QED
    BY <2>3, <2>4
<1>6. e + d = l - p
  BY <1>1, Sizes
<1>7. Left(t, at) = l
  BY <1>3, <1>4, <1>5, <1>6, LeftIs
<1> QED
  BY <1>3, <1>4, <1>7 DEF t, Timer!Ticks

(* Until counts to the deadline itself, when that is not due yet. *)
LEMMA UntilIs ==
  ASSUME NEW t \in Int, NEW at \in Int, Left(t, at) >= Post,
         Left(t, at) - (Post - Pre - 1) < Wrap
  PROVE  Timer!Until(t, at) = Left(t, at) - (Post - Pre - 1)
<1> DEFINE a == Left(t, at)
           p == Post - Pre - 1
<1>1. a \in 0 .. Wrap - 1 /\ a >= Post /\ p \in Int /\ p < Post /\ a - p < Wrap /\ SameTick(t - at, a - p)
  BY LeftSame, Sizes
<1>2. t - at \in Int /\ a - p \in 0 .. Wrap - 1
  <2> HIDE DEF a, p
  <2> QED
    BY <1>1, Sizes
<1>3. (t - at) % Wrap = a - p
  <2> HIDE DEF a, p
  <2> QED
    BY <1>1, <1>2, TickUnique
<1> QED
  BY <1>3 DEF Timer!Until

(* Multiples of the gap *)
LEMMA Gaps ==
  /\ \A m \in Nat : m * Gap \in Nat /\ (m + 1) * Gap = m * Gap + Gap
  /\ \A m, n \in Nat : m <= n => m * Gap <= n * Gap
<1>1. ASSUME NEW m \in Nat PROVE m * Gap \in Nat /\ (m + 1) * Gap = m * Gap + Gap
  BY Sizes
<1>2. ASSUME NEW m \in Nat, NEW n \in Nat, m <= n PROVE m * Gap <= n * Gap
  <2> DEFINE k == n - m
  <2>1. k \in Nat /\ n = m + k
    BY <1>2
  <2>2. (m + k) * Gap = m * Gap + k * Gap /\ k * Gap \in Nat /\ m * Gap \in Nat
    BY <2>1, Sizes
  <2> HIDE DEF k
  <2> QED
    BY <2>1, <2>2
<1> QED
  BY <1>1, <1>2

-----------------------------------------------------------------------------
(* Sequences *)

LEMMA RemovedAt ==
  ASSUME NEW E, NEW s \in Seq(E), NEW k \in 1 .. Len(s)
  PROVE  /\ Timer!RemoveAt(s, k) \in Seq(E) /\ Len(Timer!RemoveAt(s, k)) = Len(s) - 1
         /\ \A l \in 1 .. Len(s) - 1 : Timer!RemoveAt(s, k)[l] = s[IF l < k THEN l ELSE l + 1]
<1> DEFINE n == Len(s)
           a == SubSeq(s, 1, k - 1)
           b == SubSeq(s, k + 1, n)
<1>1. n \in Nat /\ k \in 1 .. n
  OBVIOUS
<1>2. a \in Seq(E) /\ Len(a) = k - 1 /\ \A l \in 1 .. k - 1 : a[l] = s[l]
  <2>1. SubSeq(s, 1, k - 1) \in Seq(E)
    <3>1. \A l \in 1 .. k - 1 : l \in 1 .. n
      BY <1>1
    <3> QED
      BY <3>1, SubSeqProperties
  <2> QED
    BY <1>1, <2>1, SubSeqProperties
<1>3. b \in Seq(E) /\ Len(b) = n - k /\ \A l \in 1 .. n - k : b[l] = s[k + l]
  <2>1. b \in Seq(E)
    <3>1. \A l \in k + 1 .. n : l \in 1 .. n
      BY <1>1
    <3> QED
      BY <3>1, SubSeqProperties
  <2>2. Len(b) = n - k
    BY <1>1, SubSeqProperties
  <2>3. ASSUME NEW l \in 1 .. n - k PROVE b[l] = s[k + l]
    <3>1. b[l] = s[(k + 1) + l - 1] /\ (k + 1) + l - 1 = k + l
      BY <1>1, SubSeqProperties
    <3> QED
      BY <3>1
  <2> QED
    BY <2>1, <2>2, <2>3
<1> HIDE DEF n, a, b
<1>4. /\ a \o b \in Seq(E) /\ Len(a \o b) = n - 1
      /\ \A l \in 1 .. n - 1 : (a \o b)[l] = IF l <= k - 1 THEN a[l] ELSE b[l - (k - 1)]
  <2>1. /\ a \o b \in Seq(E) /\ Len(a \o b) = Len(a) + Len(b)
        /\ \A l \in 1 .. Len(a) + Len(b) : (a \o b)[l] = IF l <= Len(a) THEN a[l] ELSE b[l - Len(a)]
    BY <1>2, <1>3, ConcatProperties
  <2>2. Len(a) + Len(b) = n - 1 /\ Len(a) = k - 1
    BY <1>1, <1>2, <1>3
  <2> QED
    BY <2>1, <2>2
<1>5. ASSUME NEW l \in 1 .. n - 1 PROVE (a \o b)[l] = s[IF l < k THEN l ELSE l + 1]
  <2>1. CASE l < k
    BY <1>1, <1>2, <1>4, <2>1
  <2>2. CASE ~(l < k)
    <3>1. l - (k - 1) \in 1 .. n - k /\ k + (l - (k - 1)) = l + 1 /\ ~(l <= k - 1)
      BY <1>1, <2>2
    <3> QED
      BY <1>3, <1>4, <2>2, <3>1
  <2> QED
    BY <2>1, <2>2
<1> QED
  BY <1>4, <1>5 DEF Timer!RemoveAt, a, b, n

(* A shuffle leaves nothing out. *)
LEMMA AllShuffled ==
  ASSUME NEW n \in Nat, NEW p \in [1 .. n -> 1 .. n], \A k, l \in 1 .. n : p[k] = p[l] => k = l,
         NEW j \in 1 .. n
  PROVE  \E l \in 1 .. n : p[l] = j
<1>1. IsFiniteSet(1 .. n)
  BY FS_Interval, 1 \in Int, n \in Int
<1>2. p \in Injection(1 .. n, 1 .. n)
  BY DEF Injection, IsInjective
<1>3. p \in Surjection(1 .. n, 1 .. n)
  BY <1>1, <1>2, FS_Injection
<1> QED
  BY <1>3 DEF Surjection

(* Powers of two *)
LEMMA Powers ==
  /\ Timer!PowerOf2[0] = 1
  /\ \A m \in 0 .. MaxTimers : Timer!PowerOf2[m] \in Nat /\ Timer!PowerOf2[m] > m
  /\ \A m \in 1 .. MaxTimers : Timer!PowerOf2[m] = 2 * Timer!PowerOf2[m - 1]
<1> DEFINE P == Timer!PowerOf2
           M == MaxTimers
           step == [j \in Nat |-> [x \in Nat |-> 2 * x]]
           Loop(g) == g = [m \in 0 .. M |-> IF m = 0 THEN 1 ELSE 2 * g[m - 1]]
<1>1. M \in Nat /\ 1 \in Nat /\ step \in [Nat -> [Nat -> Nat]] /\ \A j \in Nat, x \in Nat : step[j][x] = 2 * x
  BY Sizes
<1> HIDE DEF step
<1>2. PICK g : g \in [0 .. M -> Nat] /\ g[0] = 1 /\ \A j \in 1 .. M : g[j] = step[j][g[j - 1]]
  <2> HIDE DEF M
  <2>1. \E g : Iterates(Nat, 1, step, M, g)
    BY <1>1, Repeated
  <2> QED
    BY <2>1 DEF Iterates
<1>3. Loop(g)
  <2>1. \A m \in 0 .. M : g[m] = IF m = 0 THEN 1 ELSE 2 * g[m - 1]
    <3> TAKE m \in 0 .. M
    <3>1. CASE m # 0
      <4>1. m \in 1 .. M /\ m \in Nat /\ m - 1 \in 0 .. M
        BY <1>1, <3>1
      <4>2. g[m - 1] \in Nat /\ g[m] = step[m][g[m - 1]]
        BY <1>2, <4>1
      <4> QED
        BY <1>1, <3>1, <4>1, <4>2
    <3> QED
      BY <1>2, <3>1
  <2> QED
    BY <1>2, <2>1
<1>4. P = CHOOSE p : Loop(p)
  BY DEF Timer!PowerOf2
<1>5. Loop(P)
  <2> HIDE DEF Loop, P
  <2> QED
    BY <1>3, <1>4, Zenon
<1> HIDE DEF P, M
<1>6. P[0] = 1 /\ \A m \in 1 .. M : P[m] = 2 * P[m - 1]
  <2>1. \A m \in 0 .. M : P[m] = IF m = 0 THEN 1 ELSE 2 * P[m - 1]
    BY <1>5
  <2>2. 0 \in 0 .. M /\ \A m \in 1 .. M : m \in 0 .. M /\ m # 0
    BY <1>1
  <2> QED
    BY <2>1, <2>2
<1> DEFINE T == {m \in Nat : m <= M => P[m] \in Nat /\ P[m] > m}
<1>7. T = Nat
  <2>1. 0 \in T /\ T \in SUBSET Nat
    BY <1>6
  <2>2. ASSUME NEW m \in T PROVE m + 1 \in T
    <3>1. m \in Nat /\ (m + 1) - 1 = m
      OBVIOUS
    <3>2. ASSUME m + 1 <= M PROVE P[m + 1] \in Nat /\ P[m + 1] > m + 1
      <4>1. m + 1 \in 1 .. M /\ P[m] \in Nat /\ P[m] > m
        BY <1>1, <3>1, <3>2
      <4>2. P[m + 1] = 2 * P[m]
        BY <1>6, <3>1, <4>1
      <4> QED
        BY <3>1, <4>1, <4>2
    <3> QED
      BY <3>1, <3>2
  <2> HIDE DEF T
  <2> QED
    BY <2>1, <2>2, AllNaturals
<1>8. \A m \in 0 .. M : P[m] \in Nat /\ P[m] > m
  BY <1>7
<1> QED
  BY <1>6, <1>8 DEF P, M

(* Products grow with each factor. *)
LEMMA Products ==
  ASSUME NEW a \in Nat, NEW x \in Nat, NEW y \in Nat, x <= y
  PROVE  a * x \in Nat /\ a * x <= a * y
<1> DEFINE z == y - x
<1>1. z \in Nat /\ y = x + z
  OBVIOUS
<1> HIDE DEF z
<1>2. a * (x + z) = a * x + a * z /\ a * x \in Nat /\ a * z \in Nat
  BY <1>1
<1> QED
  BY <1>1, <1>2

-----------------------------------------------------------------------------
(* The soft timers *)

(* What is left of the deadline of an entry at the start of the pass, or   *)
(* of the last one.                                                        *)
LeftOf(k) == Left(timer[k].t, now)
Running == IF pc = "fire" THEN 1 ELSE 0

(* What is due no later than an entry: the callbacks stepped over in this  *)
(* pass, and those still to come.  Each that is stepped over has cost a    *)
(* removal before it.                                                      *)
Skipped(k) ==
  {c \in Callbacks : \E l \in 1 .. Len(timer) :
     timer[l].cb = c /\ LeftOf(l) <= LeftOf(k) /\ pc = "fire" /\ l < i}
Coming(k) ==
  {c \in Callbacks : \E l \in 1 .. Len(timer) :
     timer[l].cb = c /\ LeftOf(l) <= LeftOf(k) /\ ~(pc = "fire" /\ l < i)}
Weight(k) == 2 * Cardinality(Skipped(k)) + Cardinality(Coming(k))

TableOK ==
  /\ now \in Timer!Ticks /\ late \in 0 .. Gap /\ clock = (now + late) % Wrap
  /\ timer \in Seq(Timer!Entry) /\ Len(timer) <= MaxTimers
  /\ pc \in {"idle", "fire"} /\ i \in Nat \ {0} /\ changed \in BOOLEAN
  /\ missed \in [Callbacks -> 0 .. MaxTimers - 1]
  /\ \A k, l \in 1 .. Len(timer) : timer[k].cb = timer[l].cb => k = l

(* Every deadline is near: it is past by at most one gap for each pass     *)
(* that left it unfired, and ahead by at most an interval.                 *)
InWindow ==
  \A k \in 1 .. Len(timer) :
    /\ Post <= LeftOf(k) + (missed[timer[k].cb] + Running) * Gap
    /\ \E d \in Intervals : LeftOf(k) <= late + d + Post - Pre - 1

(* The table is sorted; during a pass that armed timers again only the     *)
(* entries still to be looked at are.                                      *)
InOrder ==
  \A k, l \in 1 .. Len(timer) :
    k < l /\ (pc = "fire" /\ changed => i <= k) => LeftOf(k) <= LeftOf(l)

(* What was passed over has moved up: each pass that leaves an entry       *)
(* unfired though due halves what is due no later than it.                 *)
MovesUp ==
  \A k \in 1 .. Len(timer) :
    /\ pc = "idle" /\ missed[timer[k].cb] > 0 => LeftOf(k) < Post
    /\ (pc = "fire" \/ missed[timer[k].cb] > 0) /\ LeftOf(k) < Post =>
         Timer!PowerOf2[missed[timer[k].cb]] * Weight(k) <= MaxTimers

(* A callback that is in no table has missed nothing. *)
NothingMissed ==
  pc = "idle" => \A c \in Callbacks : missed[c] > 0 => Timer!InTable(c)

WakeIsHead == pc = "idle" /\ timer # << >> => wake \in {Timer!Off, timer[1].t}

TimerInv == TableOK /\ InWindow /\ InOrder /\ MovesUp /\ SkipsBounded /\ NothingMissed /\ WakeIsHead

(* The types of what is in the table. *)
LEMMA TableTypes ==
  ASSUME TableOK
  PROVE  /\ Len(timer) \in Nat /\ now \in Int /\ clock \in Timer!Ticks /\ clock \in Int
         /\ late \in Nat /\ late <= Gap /\ SameTick(clock, now + late)
         /\ \A k \in 1 .. Len(timer) :
              /\ timer[k] \in Timer!Entry /\ timer[k].t \in Int /\ timer[k].t \in 0 .. Wrap - 1
              /\ timer[k].cb \in Callbacks /\ timer[k].interval \in Intervals
              /\ LeftOf(k) \in Nat
              /\ missed[timer[k].cb] \in 0 .. MaxTimers - 1 /\ missed[timer[k].cb] \in Nat
         /\ Running \in {0, 1}
<1>1. Len(timer) \in Nat /\ now \in Int /\ late \in Nat /\ late <= Gap /\ now + late \in Int
  BY Sizes DEF TableOK, Timer!Ticks
<1>2. clock \in 0 .. Wrap - 1 /\ clock \in Int /\ SameTick(clock, now + late)
  <2>1. SameTick(now + late, clock) /\ clock \in 0 .. Wrap - 1
    BY <1>1, SameTickMod DEF TableOK
  <2>2. clock \in Int
    BY <2>1
  <2> QED
    BY <1>1, <2>1, <2>2, SameTickBack
<1>3. ASSUME NEW k \in 1 .. Len(timer)
      PROVE  /\ timer[k] \in Timer!Entry /\ timer[k].t \in Int /\ timer[k].t \in 0 .. Wrap - 1
             /\ timer[k].cb \in Callbacks /\ timer[k].interval \in Intervals
             /\ LeftOf(k) \in Nat
             /\ missed[timer[k].cb] \in 0 .. MaxTimers - 1 /\ missed[timer[k].cb] \in Nat
  <2>1. timer[k] \in Timer!Entry
    BY DEF TableOK
  <2>2. timer[k].t \in 0 .. Wrap - 1 /\ timer[k].cb \in Callbacks /\ timer[k].interval \in Intervals
    BY <2>1 DEF Timer!Entry, Timer!Ticks
  <2>3. timer[k].t \in Int
    BY <2>2
  <2>4. LeftOf(k) \in 0 .. Wrap - 1
    BY <1>1, <2>3, LeftSame DEF LeftOf
  <2>5. missed[timer[k].cb] \in 0 .. MaxTimers - 1
    BY <2>2 DEF TableOK
  <2> QED
    BY <2>1, <2>2, <2>3, <2>4, <2>5
<1> QED
  BY <1>1, <1>2, <1>3 DEF Timer!Ticks, Running

(* However often an entry was passed over, the gaps fit into the time in   *)
(* which it counts as due, with one to spare.                              *)
LEMMA GapsFit ==
  ASSUME NEW m \in 0 .. MaxTimers - 1, NEW r \in {0, 1}
  PROVE  /\ m * Gap \in Nat /\ (m + r) * Gap \in Nat
         /\ (m + r) * Gap <= MaxTimers * Gap
         /\ (m + 1) * Gap = m * Gap + Gap
         /\ MaxTimers * Gap + Gap <= Post /\ MaxTimers * Gap \in Nat
<1>1. m + r \in Nat /\ MaxTimers \in Nat /\ m \in Nat /\ m + r <= MaxTimers
  BY Sizes
<1> QED
  BY <1>1, Gaps, Sizes

(* The deadlines are so close together that the comparison of ticks is     *)
(* right.                                                                  *)
LEMMA Spread ==
  ASSUME NEW x \in Int, NEW y \in Int, NEW e \in 0 .. Gap, NEW d \in Intervals,
         x <= e + d + Post - Pre - 1, Post <= y + MaxTimers * Gap
  PROVE  x - y < Quarter
<1> DEFINE g == MaxTimers * Gap
           h == (MaxTimers + 1) * Gap
<1>1. d \in Nat /\ d + h <= Quarter + Pre /\ h \in Nat /\ g \in Nat /\ h = g + Gap
      /\ Post <= y + g /\ e \in Nat /\ e <= Gap
  BY Sizes, Gaps
<1> HIDE DEF g, h
<1> QED
  BY <1>1, Sizes

(* What is left of every entry, as a number, and how far two of them are   *)
(* apart.                                                                  *)
LEMMA TableNear ==
  ASSUME TableOK, InWindow
  PROVE  \A k \in 1 .. Len(timer) :
           /\ LeftOf(k) >= late
           /\ Post <= LeftOf(k) + MaxTimers * Gap
           /\ Left(timer[k].t, clock) = LeftOf(k) - late
           /\ \A l \in 1 .. Len(timer) : LeftOf(k) - LeftOf(l) < Quarter
<1>1. ASSUME NEW k \in 1 .. Len(timer)
      PROVE  /\ Post <= LeftOf(k) + MaxTimers * Gap /\ LeftOf(k) >= late
             /\ \E d \in Intervals : LeftOf(k) <= late + d + Post - Pre - 1
  <2> DEFINE m == missed[timer[k].cb]
             g == (m + Running) * Gap
             h == MaxTimers * Gap
  <2>1. m \in 0 .. MaxTimers - 1 /\ Running \in {0, 1} /\ LeftOf(k) \in Nat /\ late \in Nat /\ late <= Gap
    BY TableTypes
  <2>2. Post <= LeftOf(k) + g /\ \E d \in Intervals : LeftOf(k) <= late + d + Post - Pre - 1
    BY DEF InWindow
  <2> HIDE DEF m
  <2>3. g \in Nat /\ h \in Nat /\ g <= h /\ h + Gap <= Post
    BY <2>1, GapsFit
  <2> HIDE DEF g, h
  <2>4. Post <= LeftOf(k) + h /\ LeftOf(k) >= late
    BY <2>1, <2>2, <2>3, Sizes
  <2> QED
    BY <2>2, <2>4 DEF h
<1>2. ASSUME NEW k \in 1 .. Len(timer)
      PROVE  Left(timer[k].t, clock) = LeftOf(k) - late
  <2>1. timer[k].t \in Int /\ now \in Int /\ clock \in Int /\ late \in Nat /\ SameTick(clock, now + late)
        /\ late <= Left(timer[k].t, now) /\ LeftOf(k) \in Nat
    <3>1. LeftOf(k) \in Nat /\ late \in Nat /\ LeftOf(k) >= late
      BY <1>1, TableTypes
    <3> QED
      BY <3>1, TableTypes DEF LeftOf
  <2> QED
    BY <2>1, LessLeft DEF LeftOf
<1>3. ASSUME NEW k \in 1 .. Len(timer), NEW l \in 1 .. Len(timer)
      PROVE  LeftOf(k) - LeftOf(l) < Quarter
  <2>1. PICK d \in Intervals : LeftOf(k) <= late + d + Post - Pre - 1
    BY <1>1
  <2>2. LeftOf(k) \in Int /\ LeftOf(l) \in Int /\ late \in 0 .. Gap /\ Post <= LeftOf(l) + MaxTimers * Gap
    BY <1>1, TableTypes
  <2> QED
    BY <2>1, <2>2, Spread
<1> QED
  BY <1>1, <1>2, <1>3

(* Sorting a table whose deadlines are close together *)
LEMMA SortsTable ==
  ASSUME NEW s \in Seq(Timer!Entry), Len(s) > 0, NEW at \in Int,
         \A k, l \in 1 .. Len(s) : Left(s[k].t, at) - Left(s[l].t, at) < Quarter
  PROVE  /\ Timer!Sort(s) \in Seq(Timer!Entry) /\ Len(Timer!Sort(s)) = Len(s)
         /\ Shuffled(s, Timer!Sort(s), Len(s), Len(s))
         /\ \A a, b \in 1 .. Len(s) : a <= b => Left(Timer!Sort(s)[a].t, at) <= Left(Timer!Sort(s)[b].t, at)
<1> DEFINE n == Len(s)
           E == {s[k] : k \in 1 .. n}
           rank == [e \in E |-> Left(e.t, at)]
           u == Timer!Sort(s)
<1>1. n \in Nat /\ n > 0 /\ s \in Seq(E) /\ E \subseteq Timer!Entry
  <2>1. \A k \in 1 .. n : s[k] \in E /\ s[k] \in Timer!Entry
    OBVIOUS
  <2>2. s \in [1 .. n -> E]
    BY <2>1
  <2>3. s \in Seq(E)
    <3> HIDE DEF E
    <3> QED
      BY <2>2
  <2> QED
    BY <2>1, <2>3
<1>2. \A e \in E : e.t \in Int /\ Left(e.t, at) \in Nat /\ rank[e] = Left(e.t, at)
  <2> TAKE e \in E
  <2>1. e.t \in 0 .. Wrap - 1
    BY <1>1 DEF Timer!Entry, Timer!Ticks
  <2>2. e.t \in Int
    BY <2>1
  <2>3. Left(e.t, at) \in 0 .. Wrap - 1
    BY <2>2, LeftSame
  <2> QED
    BY <2>2, <2>3
<1>3. \A e, f \in E : Left(e.t, at) - Left(f.t, at) < Quarter
  OBVIOUS
<1> HIDE DEF E
<1>4. rank \in [E -> Nat]
  BY <1>2
<1> HIDE DEF rank
<1>5. Ranked(E, rank)
  <2> SUFFICES ASSUME NEW e \in E, NEW f \in E
               PROVE  Timer!Big(e.t, f.t) <=> rank[f] <= rank[e]
    BY <1>4 DEF Ranked
  <2>1. Timer!Big(e.t, f.t) <=> Left(f.t, at) <= Left(e.t, at)
    BY <1>2, <1>3, BigIs
  <2> QED
    BY <1>2, <2>1
<1>6. /\ u \in Seq(E) /\ Len(u) = n /\ Shuffled(s, u, n, n)
      /\ \A a, b \in 1 .. n : a <= b => rank[u[a]] <= rank[u[b]]
  BY <1>1, <1>5, Sorts
<1> HIDE DEF u
<1>7. \A a \in 1 .. n : u[a] \in E /\ rank[u[a]] = Left(u[a].t, at) /\ u[a] \in Timer!Entry
  BY <1>1, <1>2, <1>6
<1>8. u \in Seq(Timer!Entry)
  <2>1. u \in [1 .. n -> Timer!Entry]
    BY <1>6, <1>7
  <2> QED
    BY <1>1, <2>1
<1>9. \A a, b \in 1 .. n : a <= b => Left(u[a].t, at) <= Left(u[b].t, at)
  BY <1>6, <1>7
<1> HIDE DEF n
<1> QED
  BY <1>6, <1>8, <1>9 DEF u, n

(* The callbacks in the table are finitely many, no more than it has       *)
(* entries.                                                                *)
LEMMA FewCallbacks ==
  ASSUME TableOK, NEW S \in SUBSET {c \in Callbacks : Timer!InTable(c)}
  PROVE  IsFiniteSet(S) /\ Cardinality(S) \in Nat /\ Cardinality(S) <= MaxTimers
<1> DEFINE n == Len(timer)
           A == {c \in Callbacks : Timer!InTable(c)}
           f == [l \in 1 .. n |-> timer[l].cb]
<1>1. n \in Nat /\ n <= MaxTimers /\ MaxTimers \in Nat
  BY TableTypes, Sizes DEF TableOK
<1>2. f \in Surjection(1 .. n, A)
  <2>1. \A l \in 1 .. n : timer[l].cb \in A
    BY TableTypes DEF Timer!InTable
  <2>2. f \in [1 .. n -> A] /\ \A l \in 1 .. n : f[l] = timer[l].cb
    BY <2>1
  <2>3. \A c \in A : \E l \in 1 .. n : f[l] = c
    BY <2>2 DEF Timer!InTable
  <2> HIDE DEF A, f
  <2> QED
    BY <2>2, <2>3 DEF Surjection
<1>3. IsFiniteSet(1 .. n) /\ Cardinality(1 .. n) = n
  <2>1. IsFiniteSet(1 .. n) /\ Cardinality(1 .. n) = IF 1 > n THEN 0 ELSE n - 1 + 1
    BY <1>1, FS_Interval, 1 \in Int, n \in Int
  <2> QED
    BY <1>1, <2>1
<1> HIDE DEF A, f
<1>4. IsFiniteSet(A) /\ Cardinality(A) <= n
  BY <1>2, <1>3, FS_Surjection
<1>5. S \subseteq A
  BY DEF A
<1>6. IsFiniteSet(S) /\ Cardinality(S) <= Cardinality(A)
  BY <1>4, <1>5, FS_Subset
<1>7. Cardinality(S) \in Nat /\ Cardinality(A) \in Nat
  BY <1>4, <1>6, FS_CardinalityType
<1> QED
  BY <1>1, <1>4, <1>6, <1>7

(* The callbacks that the weight of an entry counts are finitely many. *)
LEMMA DueCallbacks ==
  ASSUME TableOK, NEW k
  PROVE  /\ IsFiniteSet(Skipped(k)) /\ Cardinality(Skipped(k)) \in Nat
         /\ IsFiniteSet(Coming(k)) /\ Cardinality(Coming(k)) \in Nat
         /\ Cardinality(Coming(k)) <= MaxTimers /\ Weight(k) \in Nat
<1>1. Skipped(k) \in SUBSET {c \in Callbacks : Timer!InTable(c)}
      /\ Coming(k) \in SUBSET {c \in Callbacks : Timer!InTable(c)}
  BY DEF Skipped, Coming, Timer!InTable
<1>2. /\ IsFiniteSet(Skipped(k)) /\ Cardinality(Skipped(k)) \in Nat
      /\ IsFiniteSet(Coming(k)) /\ Cardinality(Coming(k)) \in Nat
      /\ Cardinality(Coming(k)) <= MaxTimers
  BY <1>1, FewCallbacks
<1> QED
  BY <1>2 DEF Weight

(* Which entries those are: deadlines with the same callback are one. *)
LEMMA DueAre ==
  ASSUME TableOK, NEW k, NEW l \in 1 .. Len(timer)
  PROVE  /\ timer[l].cb \in Skipped(k) <=> LeftOf(l) <= LeftOf(k) /\ pc = "fire" /\ l < i
         /\ timer[l].cb \in Coming(k) <=> LeftOf(l) <= LeftOf(k) /\ ~(pc = "fire" /\ l < i)
<1>1. timer[l].cb \in Callbacks
  BY TableTypes
<1>2. \A j \in 1 .. Len(timer) : timer[j].cb = timer[l].cb => j = l
  BY DEF TableOK
<1> QED
  BY <1>1, <1>2 DEF Skipped, Coming

(* Where fewer are before it, or fewer stepped over, less weight is on an  *)
(* entry.                                                                  *)
LEMMA NoHeavier ==
  ASSUME NEW a, NEW b, NEW x, NEW y, IsFiniteSet(x), IsFiniteSet(y), a \subseteq x, b \subseteq y
  PROVE  /\ 2 * Cardinality(a) + Cardinality(b) \in Nat
         /\ 2 * Cardinality(a) + Cardinality(b) <= 2 * Cardinality(x) + Cardinality(y)
<1>1. /\ IsFiniteSet(a) /\ Cardinality(a) <= Cardinality(x)
      /\ IsFiniteSet(b) /\ Cardinality(b) <= Cardinality(y)
  BY FS_Subset
<1>2. Cardinality(a) \in Nat /\ Cardinality(x) \in Nat /\ Cardinality(b) \in Nat /\ Cardinality(y) \in Nat
  BY <1>1, FS_CardinalityType
<1> QED
  BY <1>1, <1>2

-----------------------------------------------------------------------------
(* Steps of the timers *)

LEMMA TimerInit ==
  ASSUME Timer!Init
  PROVE  TimerInv
<1>1. /\ clock \in 0 .. Wrap - 1 /\ timer = << >> /\ pc = "idle" /\ i = 1 /\ now = clock
      /\ changed = FALSE /\ late = 0 /\ missed = [c \in Callbacks |-> 0]
  BY DEF Timer!Init, Timer!Ticks
<1>2. Len(timer) = 0 /\ timer \in Seq(Timer!Entry) /\ \A c \in Callbacks : missed[c] = 0
  BY <1>1
<1>3. clock = (now + late) % Wrap
  <2>1. clock \in Int /\ SameTick(clock, clock) /\ now + late = clock
    BY <1>1, SameTickRefl
  <2> QED
    BY <1>1, <2>1, TickUnique
<1>4. TableOK
  <2>1. 0 \in 0 .. MaxTimers - 1 /\ 0 \in 0 .. Gap /\ Len(timer) <= MaxTimers /\ 1 \in Nat \ {0}
    BY <1>2, Sizes
  <2>2. missed \in [Callbacks -> 0 .. MaxTimers - 1]
    BY <1>1, <2>1
  <2>3. \A k, l \in 1 .. Len(timer) : timer[k].cb = timer[l].cb => k = l
    BY <1>2
  <2> QED
    BY <1>1, <1>2, <1>3, <2>1, <2>2, <2>3 DEF TableOK, Timer!Ticks
<1>5. InWindow /\ InOrder /\ MovesUp
  BY <1>2 DEF InWindow, InOrder, MovesUp
<1>6. NothingMissed /\ WakeIsHead
  BY <1>1, <1>2 DEF NothingMissed, WakeIsHead
<1>7. SkipsBounded
  BY <1>2, Powers, Sizes DEF SkipsBounded, Timer!SkipsBounded
<1> QED
  BY <1>4, <1>5, <1>6, <1>7 DEF TimerInv

(* A tick of the clock between or within passes. *)
LEMMA TickStep ==
  ASSUME TimerInv, Timer!Tick
  PROVE  TimerInv'
<1>1. /\ late < Gap /\ clock' = (clock + 1) % Wrap /\ late' = late + 1
      /\ timer' = timer /\ wake' = wake /\ pc' = pc /\ i' = i /\ now' = now
      /\ changed' = changed /\ missed' = missed
  BY DEF Timer!Tick
<1>2. /\ now \in Int /\ late \in Nat /\ clock \in Int /\ SameTick(clock, now + late)
      /\ Len(timer) \in Nat /\ \A k \in 1 .. Len(timer) : LeftOf(k) \in Nat
  BY TableTypes DEF TimerInv
<1>3. clock' = (now' + late') % Wrap
  <2> DEFINE c == (now + (late + 1)) % Wrap
  <2>1. SameTick(now + (late + 1), c) /\ c \in 0 .. Wrap - 1
    <3>1. now + (late + 1) \in Int
      BY <1>2
    <3> QED
      BY <3>1, SameTickMod
  <2>2. SameTick(clock + 1, (now + late) + 1)
    BY <1>2, SameTickPlus, SameTickRefl, now + late \in Int
  <2>3. (now + late) + 1 = now + (late + 1) /\ c \in Int
    BY <1>2, <2>1
  <2> HIDE DEF c
  <2>4. SameTick(clock + 1, c)
    BY <1>2, <2>1, <2>2, <2>3, SameTickTrans, clock + 1 \in Int, now + (late + 1) \in Int
  <2>5. (clock + 1) % Wrap = c
    BY <1>2, <2>1, <2>4, TickUnique, clock + 1 \in Int
  <2> QED
    BY <1>1, <2>5 DEF c
<1>4. late' \in 0 .. Gap
  BY <1>1, <1>2, Sizes
<1>5. TableOK'
  BY <1>1, <1>3, <1>4 DEF TableOK, TimerInv
<1>6. /\ \A k : LeftOf(k)' = LeftOf(k)
      /\ \A k : Weight(k)' = Weight(k)
      /\ Running' = Running
  BY <1>1 DEF LeftOf, Running, Weight, Skipped, Coming
<1>7. InWindow'
  <2> SUFFICES ASSUME NEW k \in 1 .. Len(timer)
               PROVE  /\ Post <= LeftOf(k) + (missed[timer[k].cb] + Running) * Gap
                      /\ \E d \in Intervals : LeftOf(k) <= late + 1 + d + Post - Pre - 1
    BY <1>1, <1>6 DEF InWindow
  <2>1. PICK d \in Intervals : LeftOf(k) <= late + d + Post - Pre - 1
    BY DEF TimerInv, InWindow
  <2>2. LeftOf(k) <= late + 1 + d + Post - Pre - 1
    BY <1>2, <2>1, Sizes
  <2> QED
    BY <2>2 DEF TimerInv, InWindow
<1>8. InOrder' /\ MovesUp'
  BY <1>1, <1>6 DEF TimerInv, InOrder, MovesUp
<1>9. NothingMissed' /\ WakeIsHead' /\ SkipsBounded'
  BY <1>1 DEF TimerInv, NothingMissed, WakeIsHead, SkipsBounded, Timer!SkipsBounded, Timer!InTable
<1> QED
  BY <1>5, <1>7, <1>8, <1>9 DEF TimerInv

(* A deadline counts as due, seen from the start of the pass, while there  *)
(* is less than Post left.                                                 *)
LEMMA DueThen ==
  ASSUME TableOK, NEW k \in 1 .. Len(timer)
  PROVE  Timer!Expired(timer[k].t, now) <=> LeftOf(k) < Post
<1>1. timer[k].t \in Int /\ now \in Int
  BY TableTypes
<1> QED
  BY <1>1, DueLeft DEF LeftOf

(* A step over an entry that is not due keeps the invariant. *)
LEMMA PassStep ==
  ASSUME TimerInv, Timer!Pass
  PROVE  TimerInv'
<1>1. /\ pc = "fire" /\ i \in 1 .. Len(timer) /\ ~Timer!Expired(timer[i].t, now) /\ i' = i + 1
      /\ clock' = clock /\ timer' = timer /\ wake' = wake /\ pc' = pc /\ now' = now
      /\ changed' = changed /\ late' = late /\ missed' = missed
  BY DEF Timer!Pass, Timer!InPass, TimerInv, TableOK
<1>2. ~(LeftOf(i) < Post)
  BY <1>1, DueThen DEF TimerInv
<1>3. Running' = Running /\ \A k : LeftOf(k)' = LeftOf(k)
  BY <1>1 DEF Running, LeftOf
<1>4. ASSUME NEW k \in 1 .. Len(timer), LeftOf(k) < Post
      PROVE  Skipped(k)' = Skipped(k) /\ Coming(k)' = Coming(k)
  <2>1. \A l \in 1 .. Len(timer) : LeftOf(l) <= LeftOf(k) => l # i
    BY <1>1, <1>2, <1>4, TableTypes, Sizes DEF TimerInv
  <2>2. \A l \in 1 .. Len(timer) : l # i => (l < i + 1 <=> l < i)
    BY <1>1
  <2> QED
    BY <1>1, <1>3, <2>1, <2>2 DEF Skipped, Coming
<1>5. TableOK'
  BY <1>1 DEF TimerInv, TableOK
<1>6. InWindow'
  BY <1>1, <1>3 DEF TimerInv, InWindow
<1>7. InOrder'
  BY <1>1, <1>3 DEF TimerInv, InOrder
<1>8. MovesUp'
  <2> SUFFICES ASSUME NEW k \in 1 .. Len(timer), LeftOf(k) < Post
               PROVE  Timer!PowerOf2[missed[timer[k].cb]] * Weight(k)' <= MaxTimers
    BY <1>1, <1>3 DEF MovesUp
  <2>1. Weight(k)' = Weight(k)
    BY <1>4 DEF Weight
  <2> QED
    BY <1>1, <2>1 DEF TimerInv, MovesUp
<1>9. NothingMissed' /\ WakeIsHead' /\ SkipsBounded'
  BY <1>1 DEF NothingMissed, WakeIsHead, TimerInv, SkipsBounded, Timer!SkipsBounded
<1> QED
  BY <1>5, <1>6, <1>7, <1>8, <1>9 DEF TimerInv

(* An entry on which there is no more weight than before may be missed as  *)
(* often as before.                                                        *)
LEMMA LighterStays ==
  ASSUME TimerInv, NEW k \in 1 .. Len(timer), LeftOf(k) < Post,
         pc = "fire" \/ missed[timer[k].cb] > 0, NEW w \in Nat, w <= Weight(k)
  PROVE  Timer!PowerOf2[missed[timer[k].cb]] * w <= MaxTimers
<1> DEFINE m == missed[timer[k].cb]
           q == Timer!PowerOf2[m]
<1>1. Weight(k) \in Nat /\ m \in 0 .. MaxTimers /\ MaxTimers \in Nat
  <2>1. m \in 0 .. MaxTimers - 1 /\ MaxTimers \in Nat
    BY TableTypes, Sizes DEF TimerInv
  <2> HIDE DEF m
  <2> QED
    BY <2>1, DueCallbacks DEF TimerInv
<1>2. q * Weight(k) <= MaxTimers
  BY DEF TimerInv, MovesUp
<1> HIDE DEF m
<1>3. q \in Nat
  BY <1>1, Powers
<1> HIDE DEF q
<1>4. q * w \in Nat /\ q * w <= q * Weight(k) /\ q * Weight(k) \in Nat
  BY <1>1, <1>3, Products
<1>5. q * w <= MaxTimers
  BY <1>1, <1>2, <1>4
<1> QED
  BY <1>5 DEF q, m

(* The bound holds as well where the callbacks that are counted are among  *)
(* those counted before.                                                   *)
LEMMA FewerStay ==
  ASSUME TimerInv, NEW k \in 1 .. Len(timer), LeftOf(k) < Post,
         pc = "fire" \/ missed[timer[k].cb] > 0,
         NEW a, NEW b, a \subseteq Skipped(k), b \subseteq Coming(k)
  PROVE  Timer!PowerOf2[missed[timer[k].cb]] * (2 * Cardinality(a) + Cardinality(b)) <= MaxTimers
<1>1. IsFiniteSet(Skipped(k)) /\ IsFiniteSet(Coming(k))
  BY DueCallbacks DEF TimerInv
<1> DEFINE w == 2 * Cardinality(a) + Cardinality(b)
<1>2. w \in Nat /\ w <= Weight(k)
  BY <1>1, NoHeavier DEF Weight
<1> HIDE DEF w
<1>3. Timer!PowerOf2[missed[timer[k].cb]] * w <= MaxTimers
  BY <1>2, LighterStays
<1> QED
  BY <1>3 DEF w

(* An entry fires and is armed again where it stands. *)
LEMMA FireAgainStep ==
  ASSUME TimerInv, NEW d \in {0} \cup Intervals, Timer!FireAgain(d)
  PROVE  TimerInv'
<1> DEFINE n == Len(timer)
<1>0. PICK j \in 1 .. n : j = i
  BY DEF Timer!FireAgain, Timer!InPass, TimerInv, TableOK
<1> DEFINE f == IF d = 0 THEN timer[j].interval ELSE d
           e == Timer!Armed(timer[j].cb, now, f)
<1>1. /\ pc = "fire" /\ j \in 1 .. n /\ i = j /\ Timer!Expired(timer[j].t, now) /\ i' = j + 1
      /\ timer' = [timer EXCEPT ![j] = e] /\ changed' = TRUE
      /\ clock' = clock /\ wake' = wake /\ pc' = pc /\ now' = now
      /\ late' = late /\ missed' = missed
  BY <1>0 DEF Timer!FireAgain, Timer!InPass
<1>2. /\ n \in Nat /\ timer \in Seq(Timer!Entry) /\ now \in Int /\ late \in Nat
      /\ timer[j].cb \in Callbacks
      /\ \A k \in 1 .. n : LeftOf(k) \in Nat /\ missed[timer[k].cb] \in Nat
      /\ Running \in {0, 1}
  BY <1>1, TableTypes DEF TimerInv, TableOK
<1>3. f \in Intervals
  BY <1>1, TableTypes DEF TimerInv
<1> HIDE DEF f
<1>4. /\ e.t \in Timer!Ticks /\ Left(e.t, now) = 0 + f + Post - Pre - 1 /\ Left(e.t, now) >= Post
      /\ e.cb = timer[j].cb /\ e \in Timer!Entry
  <2>1. SameTick(now, now + 0)
    BY <1>2, SameTickRefl
  <2>2. /\ (now + f) % Wrap \in Timer!Ticks
        /\ Left((now + f) % Wrap, now) = 0 + f + Post - Pre - 1
        /\ 0 + f + Post - Pre - 1 >= Post
    BY <1>2, <1>3, <2>1, ArmedLeft, Sizes, 0 \in 0 .. Gap
  <2> QED
    BY <1>2, <1>3, <2>2 DEF Timer!Armed, Timer!Entry
<1> HIDE DEF e, n
<1>5. /\ timer' \in Seq(Timer!Entry) /\ Len(timer') = n
      /\ timer'[j] = e /\ \A k \in 1 .. n : k # j => timer'[k] = timer[k]
  BY <1>1, <1>2, <1>4, ExceptSeq DEF n
<1>6. /\ LeftOf(j)' = f + Post - Pre - 1 /\ LeftOf(j)' >= Post
      /\ \A k \in 1 .. n : k # j => LeftOf(k)' = LeftOf(k)
      /\ Running' = Running
      /\ \A k \in 1 .. n : timer'[k].cb = timer[k].cb
  <2>1. f \in Int
    BY <1>3, Sizes
  <2>2. LeftOf(j)' = Left(e.t, now)
    BY <1>1, <1>5 DEF LeftOf
  <2>3. LeftOf(j)' = f + Post - Pre - 1
    BY <1>4, <2>1, <2>2, Sizes
  <2> QED
    BY <1>1, <1>2, <1>4, <1>5, <2>2, <2>3 DEF LeftOf, Running
<1>7. TableOK'
  <2>1. now \in Timer!Ticks /\ late \in 0 .. Gap /\ clock = (now + late) % Wrap
        /\ n <= MaxTimers /\ pc \in {"idle", "fire"} /\ i \in Nat \ {0}
        /\ missed \in [Callbacks -> 0 .. MaxTimers - 1]
        /\ \A k, l \in 1 .. n : timer[k].cb = timer[l].cb => k = l
    BY DEF TimerInv, TableOK, n
  <2> QED
    BY <1>1, <1>2, <1>5, <1>6, <2>1 DEF TableOK
<1>8. InWindow'
  <2> SUFFICES ASSUME NEW k \in 1 .. n
               PROVE  /\ Post <= LeftOf(k)' + (missed[timer[k].cb] + Running) * Gap
                      /\ \E x \in Intervals : LeftOf(k)' <= late + x + Post - Pre - 1
    BY <1>1, <1>5, <1>6 DEF InWindow
  <2>1. CASE k = j
    <3> DEFINE g == (missed[timer[k].cb] + Running) * Gap
    <3>1. g \in Nat
      <4> DEFINE m == missed[timer[k].cb] + Running
      <4>1. m \in Nat
        BY <1>2
      <4> HIDE DEF m
      <4>2. m * Gap \in Nat
        BY <4>1, Gaps
      <4> QED
        BY <4>2 DEF m
    <3> HIDE DEF g
    <3>2. Post <= LeftOf(k)' + g
      BY <1>3, <1>6, <2>1, <3>1, Sizes
    <3>3. LeftOf(k)' <= late + f + Post - Pre - 1
      BY <1>2, <1>3, <1>6, <2>1, Sizes
    <3> QED
      BY <1>3, <3>2, <3>3 DEF g
  <2>2. CASE k # j
    BY <1>6, <2>2 DEF TimerInv, InWindow, n
  <2> QED
    BY <2>1, <2>2
<1>9. InOrder'
  <2> SUFFICES ASSUME NEW k \in 1 .. n, NEW l \in 1 .. n, k < l, j + 1 <= k
               PROVE  LeftOf(k)' <= LeftOf(l)'
    BY <1>1, <1>5 DEF InOrder
  <2>1. j <= k /\ k # j /\ l # j
    BY <1>1, <1>2
  <2>2. LeftOf(k) <= LeftOf(l)
    BY <1>1, <2>1 DEF TimerInv, InOrder, n
  <2> QED
    BY <1>6, <2>1, <2>2
<1>10. MovesUp'
  <2> SUFFICES ASSUME NEW k \in 1 .. n, LeftOf(k)' < Post
               PROVE  Timer!PowerOf2[missed[timer[k].cb]] * Weight(k)' <= MaxTimers
    BY <1>1, <1>5, <1>6 DEF MovesUp
  <2>0. f \in Int /\ LeftOf(j)' \in Int
    BY <1>3, <1>6, Sizes
  <2>1. k # j
    BY <1>6, <2>0, Sizes
  <2>2. LeftOf(k)' = LeftOf(k) /\ LeftOf(k) \in Int
    BY <1>2, <1>6, <2>1
  <2>3. \A l \in 1 .. n : LeftOf(l)' <= LeftOf(k)' => l # j /\ LeftOf(l) <= LeftOf(k)
    BY <1>6, <2>0, <2>2, Sizes
  <2>4. \A l \in 1 .. n : l # j => (l < j + 1 <=> l < j)
    BY <1>2
  <2>5. Skipped(k)' \subseteq Skipped(k) /\ Coming(k)' \subseteq Coming(k)
    BY <1>1, <1>5, <1>6, <2>3, <2>4 DEF Skipped, Coming, n
  <2> QED
    <3>1. k \in 1 .. Len(timer) /\ LeftOf(k) < Post
      BY <2>2 DEF n
    <3> QED
      BY <1>1, <2>5, <3>1, FewerStay DEF Weight
<1>11. NothingMissed' /\ WakeIsHead' /\ SkipsBounded'
  BY <1>1 DEF NothingMissed, WakeIsHead, TimerInv, SkipsBounded, Timer!SkipsBounded
<1> QED
  BY <1>7, <1>8, <1>9, <1>10, <1>11 DEF TimerInv

(* An entry fires for the last time and is removed: the next one is        *)
(* stepped over.                                                           *)
LEMMA FireLastStep ==
  ASSUME TimerInv, Timer!FireLast
  PROVE  TimerInv'
<1> DEFINE n == Len(timer)
           Old(k) == IF k < i THEN k ELSE k + 1
<1>1. /\ pc = "fire" /\ i \in 1 .. n /\ timer' = Timer!RemoveAt(timer, i) /\ i' = i + 1
      /\ clock' = clock /\ wake' = wake /\ pc' = pc /\ now' = now
      /\ changed' = changed /\ late' = late /\ missed' = missed
  BY DEF Timer!FireLast, Timer!InPass, TimerInv, TableOK
<1>2. n \in Nat /\ timer \in Seq(Timer!Entry) /\ i \in Nat
  BY TableTypes DEF TimerInv, TableOK
<1>3. /\ timer' \in Seq(Timer!Entry) /\ Len(timer') = n - 1
      /\ \A k \in 1 .. n - 1 : timer'[k] = timer[Old(k)]
  BY <1>1, <1>2, RemovedAt
<1>4. \A k \in 1 .. n - 1 : Old(k) \in 1 .. n /\ \A l \in 1 .. n - 1 :
        /\ k <= Old(k) /\ (k = l <=> Old(k) = Old(l)) /\ (k < l => Old(k) < Old(l))
  BY <1>1, <1>2
<1>5. /\ \A k \in 1 .. n - 1 : LeftOf(k)' = LeftOf(Old(k)) /\ timer'[k].cb = timer[Old(k)].cb
      /\ Running' = Running
  BY <1>1, <1>3 DEF LeftOf, Running
<1> HIDE DEF n
<1>6. TableOK'
  <2>1. now \in Timer!Ticks /\ late \in 0 .. Gap /\ clock = (now + late) % Wrap
        /\ n <= MaxTimers /\ pc \in {"idle", "fire"} /\ i \in Nat \ {0} /\ changed \in BOOLEAN
        /\ missed \in [Callbacks -> 0 .. MaxTimers - 1]
        /\ \A k, l \in 1 .. n : timer[k].cb = timer[l].cb => k = l
    BY DEF TimerInv, TableOK, n
  <2>2. n - 1 <= MaxTimers /\ i + 1 \in Nat \ {0}
    BY <1>2, <2>1, Sizes
  <2>3. \A k, l \in 1 .. n - 1 : timer'[k].cb = timer'[l].cb => k = l
    BY <1>4, <1>5, <2>1
  <2> QED
    BY <1>1, <1>3, <2>1, <2>2, <2>3 DEF TableOK
<1>7. InWindow'
  <2> SUFFICES ASSUME NEW k \in 1 .. n - 1
               PROVE  /\ Post <= LeftOf(Old(k)) + (missed[timer[Old(k)].cb] + Running) * Gap
                      /\ \E d \in Intervals : LeftOf(Old(k)) <= late + d + Post - Pre - 1
    BY <1>1, <1>3, <1>5 DEF InWindow
  <2> HIDE DEF Old
  <2> QED
    BY <1>4 DEF TimerInv, InWindow, n
<1>8. InOrder'
  <2> SUFFICES ASSUME NEW k \in 1 .. n - 1, NEW l \in 1 .. n - 1, k < l, changed => i + 1 <= k
               PROVE  LeftOf(Old(k)) <= LeftOf(Old(l))
    BY <1>1, <1>3, <1>5 DEF InOrder
  <2>1. /\ Old(k) \in 1 .. n /\ Old(l) \in 1 .. n /\ Old(k) < Old(l)
        /\ changed => i <= Old(k)
    BY <1>2, <1>4
  <2> HIDE DEF Old
  <2> QED
    BY <2>1 DEF TimerInv, InOrder, n
<1>9. MovesUp'
  <2> SUFFICES ASSUME NEW k \in 1 .. n - 1, LeftOf(Old(k)) < Post
               PROVE  Timer!PowerOf2[missed[timer[Old(k)].cb]] * Weight(k)' <= MaxTimers
    BY <1>1, <1>3, <1>5 DEF MovesUp
  <2>1. PICK o \in 1 .. n : o = Old(k)
    BY <1>4
  <2>2. /\ TableOK /\ o \in 1 .. Len(timer) /\ LeftOf(o) < Post /\ LeftOf(k)' = LeftOf(o)
        /\ \A l \in 1 .. n : LeftOf(l) \in Nat
    BY <1>5, <2>1, TableTypes DEF TimerInv, n
  <2> DEFINE a == timer[i].cb
             b == timer[i + 1].cb
             S == Skipped(o)
             C == Coming(o)
             S1 == Skipped(k)'
             C1 == Coming(k)'
  (* What is removed and what is stepped over are no longer to come. *)
  <2>3. ASSUME NEW c \in C1
        PROVE  c \in C /\ c # a /\ (i + 1 \in 1 .. n => c # b)
    <3>1. PICK l \in 1 .. n - 1 : timer'[l].cb = c /\ LeftOf(l)' <= LeftOf(k)' /\ ~(l < i + 1)
      BY <1>1, <1>3 DEF Coming
    <3>2. Old(l) = l + 1 /\ l + 1 \in 1 .. n /\ ~(l + 1 < i) /\ l + 1 # i /\ l + 1 # i + 1
      BY <1>1, <1>2, <3>1
    <3>3. timer[l + 1].cb = c /\ LeftOf(l + 1) <= LeftOf(o)
      BY <1>5, <2>2, <3>1, <3>2
    <3>4. c \in C
      BY <2>2, <3>2, <3>3, DueAre DEF n
    <3>5. \A x, y \in 1 .. n : timer[x].cb = timer[y].cb => x = y
      BY DEF TimerInv, TableOK, n
    <3> QED
      BY <1>1, <3>2, <3>3, <3>4, <3>5
  <2>4. ASSUME NEW c \in S1
        PROVE  c \in S \/ (i + 1 \in 1 .. n /\ LeftOf(i + 1) <= LeftOf(o) /\ c = b)
    <3>1. PICK l \in 1 .. n - 1 : timer'[l].cb = c /\ LeftOf(l)' <= LeftOf(k)' /\ l < i + 1
      BY <1>1, <1>3 DEF Skipped
    <3>2. Old(l) \in 1 .. n /\ timer[Old(l)].cb = c /\ LeftOf(Old(l)) <= LeftOf(o)
      BY <1>4, <1>5, <2>2, <3>1
    <3>3. CASE l < i
      <4>1. l \in 1 .. Len(timer) /\ timer[l].cb = c /\ LeftOf(l) <= LeftOf(o)
        BY <3>2, <3>3 DEF n
      <4> QED
        BY <1>1, <2>2, <3>3, <4>1, DueAre
    <3>4. CASE ~(l < i)
      BY <1>1, <1>2, <3>1, <3>2, <3>4
    <3> QED
      BY <3>3, <3>4
  <2>5. CASE ~(i + 1 \in 1 .. n /\ LeftOf(i + 1) <= LeftOf(o))
    <3>1. S1 \subseteq S /\ C1 \subseteq C
      BY <2>3, <2>4, <2>5
    <3> QED
      BY <1>1, <2>1, <2>2, <3>1, FewerStay DEF Weight
  <2>6. CASE i + 1 \in 1 .. n /\ LeftOf(i + 1) <= LeftOf(o)
    <3>1. LeftOf(i) <= LeftOf(i + 1) /\ LeftOf(i) <= LeftOf(o)
      <4>1. LeftOf(i) <= LeftOf(i + 1)
        BY <1>1, <1>2, <2>6 DEF TimerInv, InOrder, n
      <4> QED
        BY <1>1, <2>1, <2>2, <2>6, <4>1
    <3>2. a \in C /\ b \in C /\ a # b
      <4>1. a \in C
        BY <1>1, <1>2, <2>2, <3>1, DueAre DEF n
      <4>2. b \in C
        BY <1>1, <1>2, <2>2, <2>6, DueAre DEF n
      <4>3. a # b
        BY <1>1, <1>2, <2>6 DEF TimerInv, TableOK, n
      <4> QED
        BY <4>1, <4>2, <4>3
    <3>3. /\ IsFiniteSet(S) /\ Cardinality(S) \in Nat /\ IsFiniteSet(C) /\ Cardinality(C) \in Nat
          /\ Weight(o) = 2 * Cardinality(S) + Cardinality(C)
      BY <2>2, DueCallbacks DEF Weight
    <3> HIDE DEF S, C, S1, C1, a, b
    <3>4. S1 \subseteq S \cup {b} /\ C1 \subseteq (C \ {a}) \ {b}
      BY <2>3, <2>4, <2>6
    <3>5. IsFiniteSet(S \cup {b}) /\ Cardinality(S \cup {b}) <= Cardinality(S) + 1
      <4>1. IsFiniteSet(S \cup {b})
            /\ Cardinality(S \cup {b}) = IF b \in S THEN Cardinality(S) ELSE Cardinality(S) + 1
        BY <3>3, FS_AddElement
      <4> QED
        BY <3>3, <4>1
    <3>6. IsFiniteSet((C \ {a}) \ {b}) /\ Cardinality((C \ {a}) \ {b}) = Cardinality(C) - 2
      <4>1. IsFiniteSet(C \ {a}) /\ Cardinality(C \ {a}) = Cardinality(C) - 1
        BY <3>2, <3>3, FS_RemoveElement
      <4>2. b \in C \ {a}
        BY <3>2
      <4>3. IsFiniteSet((C \ {a}) \ {b}) /\ Cardinality((C \ {a}) \ {b}) = Cardinality(C \ {a}) - 1
        BY <4>1, <4>2, FS_RemoveElement
      <4> QED
        BY <3>3, <4>1, <4>3
    <3> DEFINE w == 2 * Cardinality(S1) + Cardinality(C1)
    <3>7. w \in Nat /\ w <= Weight(o)
      <4>1. w \in Nat /\ w <= 2 * Cardinality(S \cup {b}) + Cardinality((C \ {a}) \ {b})
        BY <3>4, <3>5, <3>6, NoHeavier
      <4>2. Cardinality(S \cup {b}) \in Nat /\ Cardinality((C \ {a}) \ {b}) \in Nat
        BY <3>5, <3>6, FS_CardinalityType
      <4> HIDE DEF w
      <4> QED
        BY <3>3, <3>5, <3>6, <4>1, <4>2
    <3> HIDE DEF w
    <3>8. Timer!PowerOf2[missed[timer[o].cb]] * w <= MaxTimers
      BY <1>1, <2>2, <3>7, LighterStays
    <3>9. Weight(k)' = w
      BY DEF w, Weight, S1, C1
    <3> QED
      BY <2>1, <3>8, <3>9
  <2> QED
    BY <2>5, <2>6
<1>10. NothingMissed' /\ WakeIsHead' /\ SkipsBounded'
  BY <1>1 DEF NothingMissed, WakeIsHead, TimerInv, SkipsBounded, Timer!SkipsBounded
<1> QED
  BY <1>6, <1>7, <1>8, <1>9, <1>10 DEF TimerInv

(* blt_soft_timer_delete keeps the invariant. *)
LEMMA DeleteStep ==
  ASSUME TimerInv, NEW c \in Callbacks, Timer!Delete(c)
  PROVE  TimerInv'
<1> DEFINE n == Len(timer)
           j == CHOOSE k \in 1 .. Len(timer) : timer[k].cb = c
           Old(k) == IF k < j THEN k ELSE k + 1
           head == IF Len(timer) > 1 THEN timer[2].t ELSE timer[1].t
<1>1. /\ pc = "idle" /\ Timer!InTable(c) /\ timer' = Timer!RemoveAt(timer, j)
      /\ wake' = (IF j # 1 THEN wake ELSE IF Timer!Until(head, clock) < Near THEN head ELSE Timer!Off)
      /\ missed' = [missed EXCEPT ![c] = 0]
      /\ clock' = clock /\ pc' = pc /\ i' = i /\ now' = now /\ changed' = changed /\ late' = late
  BY DEF Timer!Delete
<1>2. n \in Nat /\ timer \in Seq(Timer!Entry) /\ j \in 1 .. n /\ timer[j].cb = c
  BY <1>1, TableTypes DEF TimerInv, TableOK, Timer!InTable
<1> HIDE DEF j
<1>3. /\ timer' \in Seq(Timer!Entry) /\ Len(timer') = n - 1
      /\ \A k \in 1 .. n - 1 : timer'[k] = timer[Old(k)]
  BY <1>1, <1>2, RemovedAt
<1>4. \A k \in 1 .. n - 1 : Old(k) \in 1 .. n /\ \A l \in 1 .. n - 1 :
        /\ k <= Old(k) /\ Old(k) # j /\ (k = l <=> Old(k) = Old(l)) /\ (k < l => Old(k) < Old(l))
  BY <1>1, <1>2
<1>5. /\ \A k \in 1 .. n - 1 : LeftOf(k)' = LeftOf(Old(k)) /\ timer'[k].cb = timer[Old(k)].cb
      /\ Running = 0 /\ Running' = 0 /\ pc # "fire" /\ pc' # "fire"
  BY <1>1, <1>3 DEF LeftOf, Running
<1> HIDE DEF n
<1>6. /\ now \in Timer!Ticks /\ late \in 0 .. Gap /\ clock = (now + late) % Wrap
      /\ n <= MaxTimers /\ i \in Nat \ {0} /\ changed \in BOOLEAN
      /\ missed \in [Callbacks -> 0 .. MaxTimers - 1]
      /\ \A k, l \in 1 .. n : timer[k].cb = timer[l].cb => k = l
  BY DEF TimerInv, TableOK, n
<1>7. /\ missed' \in [Callbacks -> 0 .. MaxTimers - 1] /\ missed'[c] = 0
      /\ \A b \in Callbacks : b # c => missed'[b] = missed[b]
  BY <1>1, <1>6, Sizes
<1>8. \A k \in 1 .. n - 1 : missed'[timer[Old(k)].cb] = missed[timer[Old(k)].cb]
  <2> TAKE k \in 1 .. n - 1
  <2>1. Old(k) \in 1 .. n /\ Old(k) # j
    BY <1>4
  <2> HIDE DEF Old
  <2>2. timer[Old(k)].cb \in Callbacks
    BY <2>1, TableTypes DEF TimerInv, n
  <2>3. timer[Old(k)].cb # c
    BY <1>2, <1>6, <2>1
  <2> QED
    BY <1>7, <2>2, <2>3
<1>9. TableOK'
  <2>1. n - 1 <= MaxTimers
    BY <1>2, <1>6, Sizes
  <2>2. \A k, l \in 1 .. n - 1 : timer'[k].cb = timer'[l].cb => k = l
    BY <1>4, <1>5, <1>6
  <2> QED
    BY <1>1, <1>3, <1>6, <1>7, <2>1, <2>2 DEF TableOK
<1>10. InWindow'
  <2> SUFFICES ASSUME NEW k \in 1 .. n - 1
               PROVE  /\ Post <= LeftOf(Old(k)) + (missed[timer[Old(k)].cb] + Running) * Gap
                      /\ \E d \in Intervals : LeftOf(Old(k)) <= late + d + Post - Pre - 1
    BY <1>1, <1>3, <1>5, <1>8 DEF InWindow
  <2> HIDE DEF Old
  <2> QED
    BY <1>4 DEF TimerInv, InWindow, n
<1>11. InOrder'
  <2> SUFFICES ASSUME NEW k \in 1 .. n - 1, NEW l \in 1 .. n - 1, k < l
               PROVE  LeftOf(Old(k)) <= LeftOf(Old(l))
    BY <1>1, <1>3, <1>5 DEF InOrder
  <2>1. Old(k) \in 1 .. n /\ Old(l) \in 1 .. n /\ Old(k) < Old(l)
    BY <1>2, <1>4
  <2> HIDE DEF Old
  <2> QED
    BY <1>1, <2>1 DEF TimerInv, InOrder, n
<1>12. MovesUp'
  <2> SUFFICES ASSUME NEW k \in 1 .. n - 1, missed[timer[Old(k)].cb] > 0
               PROVE  /\ LeftOf(Old(k)) < Post
                      /\ Timer!PowerOf2[missed[timer[Old(k)].cb]] * Weight(k)' <= MaxTimers
    BY <1>1, <1>3, <1>5, <1>8 DEF MovesUp
  <2>1. PICK o \in 1 .. n : o = Old(k)
    BY <1>4
  <2>2. LeftOf(o) < Post
    BY <1>1, <2>1 DEF TimerInv, MovesUp, n
  <2>3. Skipped(k)' = {}
    BY <1>5 DEF Skipped
  <2>4. Coming(k)' \subseteq Coming(o)
    <3> SUFFICES ASSUME NEW b \in Coming(k)' PROVE b \in Coming(o)
      OBVIOUS
    <3>1. PICK l \in 1 .. n - 1 : timer'[l].cb = b /\ LeftOf(l)' <= LeftOf(k)'
      BY <1>3 DEF Coming
    <3>2. Old(l) \in 1 .. n /\ timer[Old(l)].cb = b /\ LeftOf(Old(l)) <= LeftOf(o)
      BY <1>4, <1>5, <2>1, <3>1
    <3> HIDE DEF Old
    <3> QED
      BY <1>5, <2>1, <3>2, DueAre DEF TimerInv, n
  <2>5. Timer!PowerOf2[missed[timer[o].cb]] * Weight(k)' <= MaxTimers
    <3>1. o \in 1 .. Len(timer) /\ missed[timer[o].cb] > 0
      BY <2>1 DEF n
    <3> QED
      BY <2>2, <2>3, <2>4, <3>1, FewerStay DEF Weight
  <2> QED
    BY <2>1, <2>2, <2>5
<1>13. NothingMissed'
  <2> SUFFICES ASSUME NEW b \in Callbacks, missed'[b] > 0
               PROVE  \E k \in 1 .. n - 1 : timer'[k].cb = b
    BY <1>1, <1>3 DEF NothingMissed, Timer!InTable
  <2>1. b # c /\ missed[b] > 0
    BY <1>7
  <2>2. PICK x \in 1 .. n : timer[x].cb = b
    BY <1>1, <2>1 DEF TimerInv, NothingMissed, Timer!InTable, n
  <2>3. x # j
    BY <1>2, <2>1, <2>2
  <2>4. CASE x < j
    <3>1. x \in 1 .. n - 1 /\ Old(x) = x
      BY <1>2, <2>4
    <3> QED
      BY <1>5, <2>2, <3>1
  <2>5. CASE x > j
    <3>1. x - 1 \in 1 .. n - 1 /\ Old(x - 1) = x
      BY <1>2, <2>5
    <3> QED
      BY <1>5, <2>2, <3>1
  <2> QED
    BY <1>2, <2>3, <2>4, <2>5
<1>14. WakeIsHead'
  <2> SUFFICES ASSUME timer' # << >>
               PROVE  wake' \in {Timer!Off, timer'[1].t}
    BY DEF WakeIsHead
  <2>1. n > 1 /\ 1 \in 1 .. n - 1 /\ timer'[1] = timer[Old(1)] /\ timer # << >>
    BY <1>2, <1>3 DEF n
  <2>2. CASE j = 1
    <3>1. head = timer[2].t /\ Old(1) = 2
      BY <2>1, <2>2 DEF n
    <3> QED
      BY <1>1, <2>1, <2>2, <3>1
  <2>3. CASE j # 1
    <3>1. Old(1) = 1
      BY <1>2, <2>3
    <3> QED
      BY <1>1, <2>1, <2>3, <3>1 DEF TimerInv, WakeIsHead
  <2> QED
    BY <2>2, <2>3
<1>15. SkipsBounded'
  BY <1>7, Powers, Sizes DEF TimerInv, SkipsBounded, Timer!SkipsBounded
<1> QED
  BY <1>9, <1>10, <1>11, <1>12, <1>13, <1>14, <1>15 DEF TimerInv

(* A pass begins. *)
LEMMA BeginStep ==
  ASSUME TimerInv, Timer!Begin
  PROVE  TimerInv'
<1> DEFINE n == Len(timer)
<1>1. /\ pc = "idle" /\ late' = 0 /\ now' = clock /\ clock' = clock /\ timer' = timer
  BY DEF Timer!Begin
<1>2. /\ n \in Nat /\ clock \in Timer!Ticks /\ clock \in Int /\ late \in Nat
      /\ \A k \in 1 .. n : LeftOf(k) \in Nat /\ LeftOf(k) >= late /\ missed[timer[k].cb] \in 0 .. MaxTimers - 1
  BY TableTypes, TableNear DEF TimerInv
<1>3. \A k \in 1 .. n : LeftOf(k)' = LeftOf(k) - late
  BY <1>1, TableNear DEF LeftOf, TimerInv
<1>4. /\ now' \in Timer!Ticks /\ late' \in 0 .. Gap /\ clock' = (now' + late') % Wrap
  <2>1. clock + 0 = clock /\ clock \in 0 .. Wrap - 1 /\ SameTick(clock, clock)
    BY <1>2, SameTickRefl DEF Timer!Ticks
  <2>2. clock % Wrap = clock
    BY <1>2, <2>1, TickUnique
  <2> QED
    BY <1>1, <1>2, <2>1, <2>2, Sizes
<1>5. \A k \in 1 .. n : \E d \in Intervals : LeftOf(k)' <= 0 + d + Post - Pre - 1
  <2> TAKE k \in 1 .. n
  <2>1. PICK d \in Intervals : LeftOf(k) <= late + d + Post - Pre - 1
    BY DEF TimerInv, InWindow
  <2>2. LeftOf(k)' <= 0 + d + Post - Pre - 1
    BY <1>2, <1>3, <2>1, Sizes
  <2> QED
    BY <2>2
<1>6. \A k, l \in 1 .. n : k < l => LeftOf(k)' <= LeftOf(l)'
  <2> SUFFICES ASSUME NEW k \in 1 .. n, NEW l \in 1 .. n, k < l
               PROVE  LeftOf(k)' <= LeftOf(l)'
    OBVIOUS
  <2>1. LeftOf(k) <= LeftOf(l)
    BY <1>1 DEF TimerInv, InOrder
  <2> QED
    BY <1>2, <1>3, <2>1
<1>7. CASE UNCHANGED <<pc, i, changed, missed>> /\ timer = << >>
  <2>1. TableOK'
    BY <1>1, <1>4, <1>7 DEF TimerInv, TableOK
  <2>2. n = 0
    BY <1>7
  <2>3. InWindow' /\ InOrder' /\ MovesUp'
    BY <1>1, <2>2 DEF InWindow, InOrder, MovesUp
  <2>4. NothingMissed' /\ WakeIsHead' /\ SkipsBounded'
    BY <1>1, <1>7 DEF TimerInv, NothingMissed, WakeIsHead, SkipsBounded, Timer!SkipsBounded, Timer!InTable
  <2> QED
    BY <2>1, <2>3, <2>4 DEF TimerInv
<1>8. CASE /\ timer # << >> /\ ~Timer!Expired(timer[1].t, clock)
           /\ missed' = Timer!Counted(timer, clock)
           /\ UNCHANGED <<pc, i, changed, wake>>
  <2>1. 1 \in 1 .. n /\ now' \in Int /\ timer[1].t \in Int
    BY <1>1, <1>2, <1>8, TableTypes DEF TimerInv
  <2>2. \A k \in 1 .. n : LeftOf(k)' >= Post /\ ~Timer!Expired(timer[k].t, clock)
    <3>1. ~(LeftOf(1)' < Post)
      BY <1>1, <1>2, <1>8, <2>1, DueLeft DEF LeftOf
    <3> TAKE k \in 1 .. n
    <3>2. LeftOf(k)' >= Post
      BY <1>2, <1>3, <1>6, <2>1, <3>1, Sizes
    <3> DEFINE x == Left(timer[k].t, clock)
    <3>3. timer[k].t \in Int /\ LeftOf(k)' = x /\ x \in Int
      BY <1>1, <1>2, LeftSame, TableTypes DEF TimerInv, LeftOf
    <3>4. Timer!Expired(timer[k].t, clock) <=> x < Post
      BY <1>2, <3>3, DueLeft
    <3> HIDE DEF x
    <3> QED
      BY <3>2, <3>3, <3>4, Sizes
  <2>3. missed' = [c \in Callbacks |-> 0]
    BY <1>8, <2>2 DEF Timer!Counted
  <2>4. \A k \in 1 .. n : missed'[timer[k].cb] = 0
    BY <2>3, TableTypes DEF TimerInv
  <2>5. TableOK'
    <3>1. 0 \in 0 .. MaxTimers - 1
      BY Sizes
    <3>2. missed' \in [Callbacks -> 0 .. MaxTimers - 1]
      BY <2>3, <3>1
    <3> QED
      BY <1>1, <1>4, <1>8, <3>2 DEF TimerInv, TableOK
  <2>6. InWindow'
    <3> SUFFICES ASSUME NEW k \in 1 .. n
                 PROVE  Post <= LeftOf(k)' + (missed'[timer[k].cb] + Running') * Gap
      BY <1>1, <1>5 DEF InWindow
    <3>1. Running' = 0
      BY <1>1, <1>8 DEF Running
    <3>2. (missed'[timer[k].cb] + Running') * Gap = 0
      BY <2>4, <3>1, Sizes
    <3> QED
      BY <1>2, <1>3, <2>2, <3>2, Sizes
  <2>7. InOrder'
    BY <1>1, <1>6 DEF InOrder
  <2>8. MovesUp'
    BY <1>1, <1>8, <2>4 DEF MovesUp
  <2>9. NothingMissed' /\ WakeIsHead'
    BY <1>1, <1>8, <2>3 DEF TimerInv, NothingMissed, WakeIsHead
  <2>10. SkipsBounded'
    BY <2>3, Powers, Sizes DEF SkipsBounded, Timer!SkipsBounded
  <2> QED
    BY <2>5, <2>6, <2>7, <2>8, <2>9, <2>10 DEF TimerInv
<1>9. CASE /\ timer # << >> /\ pc' = "fire" /\ i' = 1 /\ changed' = FALSE
           /\ UNCHANGED <<wake, missed>>
  <2>1. TableOK'
    <3>1. /\ timer \in Seq(Timer!Entry) /\ Len(timer) <= MaxTimers
          /\ missed \in [Callbacks -> 0 .. MaxTimers - 1]
          /\ \A k, l \in 1 .. Len(timer) : timer[k].cb = timer[l].cb => k = l
      BY DEF TimerInv, TableOK
    <3>2. pc' \in {"idle", "fire"} /\ i' \in Nat \ {0} /\ changed' \in BOOLEAN
      <4>1. FALSE \in BOOLEAN /\ 1 \in Nat \ {0} /\ "fire" \in {"idle", "fire"}
        OBVIOUS
      <4> QED
        BY <1>9, <4>1, Zenon
    <3> QED
      BY <1>1, <1>4, <1>9, <3>1, <3>2 DEF TableOK
  <2>2. InWindow'
    <3> SUFFICES ASSUME NEW k \in 1 .. n
                 PROVE  Post <= LeftOf(k)' + (missed[timer[k].cb] + Running') * Gap
      BY <1>1, <1>5, <1>9 DEF InWindow
    <3> DEFINE m == missed[timer[k].cb]
               g == m * Gap
    <3>1. m \in 0 .. MaxTimers - 1
      BY <1>2
    <3>2. Post <= LeftOf(k) + (m + 0) * Gap
      <4>1. Running = 0
        BY <1>1 DEF Running
      <4> QED
        BY <4>1 DEF TimerInv, InWindow
    <3> HIDE DEF m
    <3>3. m + 0 = m /\ g \in Nat /\ (m + 1) * Gap = g + Gap
      BY <3>1, GapsFit
    <3>4. Running' = 1
      BY <1>9 DEF Running
    <3>5. Post <= LeftOf(k) + g
      BY <3>2, <3>3
    <3>6. late <= Gap
      BY TableTypes DEF TimerInv
    <3> HIDE DEF g
    <3>7. Post <= LeftOf(k)' + (g + Gap)
      BY <1>2, <1>3, <3>3, <3>5, <3>6, Sizes
    <3> QED
      BY <3>3, <3>4, <3>7 DEF m
  <2>3. InOrder'
    BY <1>1, <1>6 DEF InOrder
  <2>4. MovesUp'
    <3> SUFFICES ASSUME NEW k \in 1 .. n, LeftOf(k)' < Post
                 PROVE  Timer!PowerOf2[missed[timer[k].cb]] * Weight(k)' <= MaxTimers
      BY <1>1, <1>9 DEF MovesUp
    <3>1. Skipped(k)' = {} /\ Coming(k)' = Coming(k)
      <4>1. \A l \in 1 .. n : LeftOf(l)' <= LeftOf(k)' <=> LeftOf(l) <= LeftOf(k)
        BY <1>2, <1>3
      <4>2. \A l \in 1 .. n : ~(l < 1)
        OBVIOUS
      <4> QED
        BY <1>1, <1>9, <4>1, <4>2 DEF Skipped, Coming
    <3>2. Weight(k)' = 2 * Cardinality({}) + Cardinality(Coming(k))
      BY <3>1 DEF Weight
    <3>3. CASE missed[timer[k].cb] = 0
      <4>1. /\ Cardinality({}) = 0 /\ Timer!PowerOf2[0] = 1
            /\ Cardinality(Coming(k)) \in Nat /\ Cardinality(Coming(k)) <= MaxTimers
        BY Powers, DueCallbacks, FS_EmptySet DEF TimerInv
      <4> QED
        BY <3>2, <3>3, <4>1
    <3>4. CASE missed[timer[k].cb] > 0
      <4>1. LeftOf(k) < Post
        BY <1>1, <3>4 DEF TimerInv, MovesUp
      <4> QED
        BY <3>2, <3>4, <4>1, FewerStay
    <3> QED
      BY <1>2, <3>3, <3>4
  <2>5. NothingMissed' /\ WakeIsHead' /\ SkipsBounded'
    BY <1>9 DEF NothingMissed, WakeIsHead, TimerInv, SkipsBounded, Timer!SkipsBounded
  <2> QED
    BY <2>1, <2>2, <2>3, <2>4, <2>5 DEF TimerInv
<1> QED
  BY <1>7, <1>8, <1>9 DEF Timer!Begin

(* A pass ends: the table is sorted when an entry was armed again, and     *)
(* what was due and did not fire is counted as missed.                     *)
LEMMA FinishStep ==
  ASSUME TimerInv, Timer!Finish
  PROVE  TimerInv'
<1> DEFINE n == Len(timer)
           u == timer'
<1>1. /\ pc = "fire" /\ i > n /\ pc' = "idle" /\ missed' = Timer!Counted(timer, now)
      /\ u = (IF timer # << >> /\ changed THEN Timer!Sort(timer) ELSE timer)
      /\ wake' = (IF u # << >> /\ Timer!Until(u[1].t, now) < Far THEN u[1].t ELSE Timer!Off)
      /\ clock' = clock /\ i' = i /\ now' = now /\ changed' = changed /\ late' = late
  BY DEF Timer!Finish
<1>2. /\ n \in Nat /\ timer \in Seq(Timer!Entry) /\ now \in Int /\ MaxTimers \in Nat
      /\ \A k \in 1 .. n : LeftOf(k) \in Nat /\ Left(timer[k].t, now) \in Nat
           /\ missed[timer[k].cb] \in 0 .. MaxTimers - 1 /\ timer[k].cb \in Callbacks
      /\ Running = 1 /\ Running' = 0
  BY <1>1, TableTypes, Sizes DEF TimerInv, TableOK, Running, LeftOf
<1>3. /\ u \in Seq(Timer!Entry) /\ Len(u) = n /\ Shuffled(timer, u, n, n)
      /\ \A a, b \in 1 .. n : a <= b => Left(u[a].t, now) <= Left(u[b].t, now)
  <2>1. CASE timer # << >> /\ changed
    <3>1. n > 0 /\ \A k, l \in 1 .. n : Left(timer[k].t, now) - Left(timer[l].t, now) < Quarter
      BY <1>2, <2>1, TableNear DEF TimerInv, LeftOf
    <3> QED
      BY <1>1, <1>2, <2>1, <3>1, SortsTable
  <2>2. CASE ~(timer # << >> /\ changed)
    <3>1. u = timer
      BY <1>1, <2>2
    <3>2. Shuffled(timer, u, n, n)
      BY <1>2, <3>1, Unshuffled
    <3>3. ASSUME NEW a \in 1 .. n, NEW b \in 1 .. n, a <= b
          PROVE  LeftOf(a) <= LeftOf(b)
      <4>1. CASE a = b
        BY <1>2, <4>1
      <4>2. CASE a < b
        <5>1. ~changed
          BY <1>2, <2>2
        <5> QED
          BY <4>2, <5>1 DEF TimerInv, InOrder
      <4> QED
        BY <3>3, <4>1, <4>2
    <3> QED
      BY <1>2, <3>1, <3>2, <3>3 DEF LeftOf
  <2> QED
    BY <2>1, <2>2
<1> HIDE DEF u
<1>4. PICK p \in [1 .. n -> 1 .. n] :
        /\ \A k, l \in 1 .. n : p[k] = p[l] => k = l
        /\ \A l \in 1 .. n : u[l] = timer[p[l]]
  BY <1>3 DEF Shuffled
<1>5. \A l \in 1 .. n : p[l] \in 1 .. n /\ LeftOf(l)' = LeftOf(p[l]) /\ u[l].cb = timer[p[l]].cb
  BY <1>1, <1>4 DEF LeftOf, u
(* What was left unfired is counted, up to the last but one.               *)
<1>6. ASSUME NEW k \in 1 .. n
      PROVE  /\ LeftOf(k) >= Post => missed'[timer[k].cb] = 0
             /\ LeftOf(k) < Post => missed'[timer[k].cb] = missed[timer[k].cb] + 1
  <2> DEFINE c == timer[k].cb
  <2>1. c \in Callbacks /\ missed[c] < MaxTimers
    BY <1>2
  <2>2. (\E l \in 1 .. n : timer[l].cb = c /\ Timer!Expired(timer[l].t, now)) <=> LeftOf(k) < Post
    <3>1. \A l \in 1 .. n : timer[l].cb = c <=> l = k
      BY DEF TimerInv, TableOK
    <3> QED
      BY <3>1, DueThen DEF TimerInv
  <2> HIDE DEF c
  <2>3. missed'[c] = IF ~(\E l \in 1 .. n : timer[l].cb = c /\ Timer!Expired(timer[l].t, now)) THEN 0
                     ELSE IF missed[c] < MaxTimers THEN missed[c] + 1 ELSE MaxTimers
    BY <1>1, <2>1 DEF Timer!Counted
  <2>4. LeftOf(k) >= Post => missed'[c] = 0
    BY <1>2, <2>2, <2>3, Sizes
  <2>5. LeftOf(k) < Post => missed'[c] = missed[c] + 1
    BY <2>1, <2>2, <2>3
  <2> QED
    BY <2>4, <2>5 DEF c
<1>7. ASSUME NEW k \in 1 .. n, LeftOf(k) < Post
      PROVE  /\ IsFiniteSet(Skipped(k)) /\ Cardinality(Skipped(k)) \in Nat
             /\ missed'[timer[k].cb] \in 0 .. MaxTimers - 1
             /\ Timer!PowerOf2[missed'[timer[k].cb]] <= MaxTimers
             /\ Timer!PowerOf2[missed'[timer[k].cb]] * Cardinality(Skipped(k)) <= MaxTimers
  <2> DEFINE m == missed[timer[k].cb]
             x == Cardinality(Skipped(k))
             q == Timer!PowerOf2[m]
             r == Timer!PowerOf2[m + 1]
  <2>1. missed'[timer[k].cb] = m + 1 /\ m \in 0 .. MaxTimers - 1
    BY <1>2, <1>6, <1>7
  <2>2. Coming(k) = {} /\ timer[k].cb \in Skipped(k)
    <3>1. \A l \in 1 .. n : l < i
      BY <1>1, <1>2, TableTypes DEF TimerInv, TableOK
    <3>2. LeftOf(k) <= LeftOf(k)
      BY <1>2
    <3>3. timer[k].cb \in Skipped(k)
      BY <1>1, <1>2, <3>1, <3>2 DEF Skipped
    <3>4. Coming(k) = {}
      BY <1>1, <3>1 DEF Coming
    <3> QED
      BY <3>3, <3>4
  <2>3. IsFiniteSet(Skipped(k)) /\ x \in Nat /\ x > 0 /\ Weight(k) = 2 * x
    <3>1. IsFiniteSet(Skipped(k)) /\ x \in Nat
      BY DueCallbacks DEF TimerInv
    <3>2. x # 0
      BY <2>2, <3>1, FS_EmptySet
    <3>3. Cardinality(Coming(k)) = 0
      BY <2>2, FS_EmptySet
    <3>4. Weight(k) = 2 * x + 0
      BY <3>3 DEF Weight
    <3> HIDE DEF x
    <3> QED
      BY <3>1, <3>2, <3>4
  <2>4. q * Weight(k) <= MaxTimers
    BY <1>1, <1>7 DEF TimerInv, MovesUp
  <2> HIDE DEF m, x
  <2>5. m + 1 \in 1 .. MaxTimers /\ (m + 1) - 1 = m /\ m \in 0 .. MaxTimers /\ m + 1 \in 0 .. MaxTimers
    BY <1>2, <2>1
  <2>6. q \in Nat /\ r = 2 * q /\ r \in Nat /\ r > m + 1
    BY <2>5, Powers
  <2> HIDE DEF q, r
  <2>7. r * x <= MaxTimers
    <3>1. r * x = q * (2 * x)
      BY <2>3, <2>6
    <3> QED
      BY <2>3, <2>4, <3>1
  <2>8. r <= MaxTimers
    <3>1. r * 1 <= r * x /\ r * 1 = r /\ r * x \in Nat
      BY <2>3, <2>6, Products
    <3> QED
      BY <1>2, <2>6, <2>7, <3>1
  <2>9. m + 1 \in 0 .. MaxTimers - 1
    BY <1>2, <2>5, <2>6, <2>8
  <2> QED
    BY <2>1, <2>3, <2>7, <2>8, <2>9 DEF r, x
<1>8. ASSUME NEW c \in Callbacks
      PROVE  /\ missed'[c] \in 0 .. MaxTimers - 1
             /\ Timer!PowerOf2[missed'[c]] <= MaxTimers
             /\ missed'[c] > 0 => \E k \in 1 .. n : timer[k].cb = c
  <2>0. 0 \in 0 .. MaxTimers - 1 /\ Timer!PowerOf2[0] <= MaxTimers
    BY Powers, Sizes
  <2>1. CASE \E k \in 1 .. n : timer[k].cb = c
    <3>1. PICK k \in 1 .. n : timer[k].cb = c
      BY <2>1
    <3>2. CASE LeftOf(k) >= Post
      BY <1>6, <2>0, <3>1, <3>2
    <3>3. CASE LeftOf(k) < Post
      BY <1>7, <3>1, <3>3
    <3> QED
      BY <1>2, <2>1, <3>2, <3>3, Sizes
  <2>2. CASE ~\E k \in 1 .. n : timer[k].cb = c
    <3>1. missed'[c] = 0
      BY <1>1, <2>2 DEF Timer!Counted
    <3> QED
      BY <2>0, <3>1
  <2> QED
    BY <2>1, <2>2
<1> HIDE DEF n
<1>9. TableOK'
  <2>1. now \in Timer!Ticks /\ late \in 0 .. Gap /\ clock = (now + late) % Wrap
        /\ n <= MaxTimers /\ i \in Nat \ {0} /\ changed \in BOOLEAN
        /\ \A k, l \in 1 .. n : timer[k].cb = timer[l].cb => k = l
    BY DEF TimerInv, TableOK, n
  <2>2. missed' \in [Callbacks -> 0 .. MaxTimers - 1]
    <3>1. missed' = [c \in Callbacks |-> missed'[c]]
      BY <1>1 DEF Timer!Counted
    <3> QED
      BY <1>8, <3>1
  <2>3. \A k, l \in 1 .. n : u[k].cb = u[l].cb => k = l
    BY <1>4, <1>5, <2>1
  <2> QED
    BY <1>1, <1>3, <2>1, <2>2, <2>3 DEF TableOK, u
<1>10. InWindow'
  <2> SUFFICES ASSUME NEW k \in 1 .. n
               PROVE  /\ Post <= LeftOf(k) + (missed'[timer[k].cb] + 0) * Gap
                      /\ \E d \in Intervals : LeftOf(k) <= late + d + Post - Pre - 1
    <3>1. ASSUME NEW l \in 1 .. n
          PROVE  /\ Post <= LeftOf(l)' + (missed'[u[l].cb] + 0) * Gap
                 /\ \E d \in Intervals : LeftOf(l)' <= late + d + Post - Pre - 1
      BY <1>5
    <3> QED
      BY <1>1, <1>2, <1>3, <3>1 DEF InWindow, u
  <2> DEFINE m == missed[timer[k].cb]
  <2>1. m \in 0 .. MaxTimers - 1 /\ LeftOf(k) \in Nat
    BY <1>2
  <2>2. /\ Post <= LeftOf(k) + (m + 1) * Gap
        /\ \E d \in Intervals : LeftOf(k) <= late + d + Post - Pre - 1
    BY <1>2 DEF TimerInv, InWindow, n
  <2>3. CASE LeftOf(k) >= Post
    <3>1. (missed'[timer[k].cb] + 0) * Gap = 0
      BY <1>6, <2>3, Sizes
    <3>2. Post <= LeftOf(k) + 0
      BY <2>1, <2>3, Sizes
    <3> QED
      BY <2>2, <3>1, <3>2
  <2>4. CASE LeftOf(k) < Post
    <3>1. missed'[timer[k].cb] = m + 1
      BY <1>6, <2>4
    <3> HIDE DEF m
    <3>2. (m + 1) + 0 = m + 1
      BY <2>1
    <3> QED
      BY <2>2, <3>1, <3>2
  <2> QED
    BY <2>1, <2>3, <2>4, Sizes
<1>11. InOrder'
  <2> SUFFICES ASSUME NEW k \in 1 .. n, NEW l \in 1 .. n, k < l
               PROVE  LeftOf(k)' <= LeftOf(l)'
    BY <1>1, <1>3 DEF InOrder, u
  <2>1. Left(u[k].t, now) <= Left(u[l].t, now)
    BY <1>3
  <2> QED
    BY <1>1, <2>1 DEF LeftOf, u
<1>12. MovesUp'
  <2> SUFFICES ASSUME NEW k \in 1 .. n, missed'[u[k].cb] > 0
               PROVE  /\ LeftOf(k)' < Post
                      /\ Timer!PowerOf2[missed'[u[k].cb]] * Weight(k)' <= MaxTimers
    BY <1>1, <1>3 DEF MovesUp, u
  <2>1. PICK q \in 1 .. n : q = p[k]
    BY <1>5
  <2>2. u[k].cb = timer[q].cb /\ LeftOf(k)' = LeftOf(q) /\ LeftOf(q) \in Nat
    BY <1>2, <1>5, <2>1
  <2>3. LeftOf(q) < Post
    BY <1>6, <2>2, Sizes
  <2> DEFINE x == Cardinality(Skipped(q))
             r == Timer!PowerOf2[missed'[timer[q].cb]]
  <2>4. /\ IsFiniteSet(Skipped(q)) /\ x \in Nat /\ r * x <= MaxTimers
        /\ missed'[timer[q].cb] \in 0 .. MaxTimers - 1
    BY <1>7, <2>3
  <2>5. Skipped(k)' = {} /\ Coming(k)' \subseteq Skipped(q)
    <3>1. Skipped(k)' = {}
      BY <1>1 DEF Skipped
    <3>2. ASSUME NEW c \in Coming(k)' PROVE c \in Skipped(q)
      <4>1. PICK l \in 1 .. n : u[l].cb = c /\ LeftOf(l)' <= LeftOf(k)'
        BY <1>3 DEF Coming, u
      <4>2. p[l] \in 1 .. n /\ timer[p[l]].cb = c /\ LeftOf(p[l]) <= LeftOf(q) /\ c \in Callbacks
        BY <1>2, <1>5, <2>2, <4>1
      <4>3. p[l] < i
        BY <1>1, <1>2, <4>2, TableTypes DEF TimerInv, TableOK, n
      <4> QED
        BY <1>1, <4>2, <4>3 DEF Skipped, n
    <3> QED
      BY <3>1, <3>2
  <2>6. Weight(k)' \in Nat /\ Weight(k)' <= x
    <3> DEFINE C1 == Coming(k)'
    <3>1. Cardinality({}) = 0
      BY FS_EmptySet
    <3>2. IsFiniteSet(C1) /\ Cardinality(C1) \in Nat /\ Cardinality(C1) <= x
      BY <2>4, <2>5, FS_Subset, FS_CardinalityType
    <3>3. Weight(k)' = 2 * Cardinality({}) + Cardinality(C1)
      BY <2>5 DEF Weight
    <3> HIDE DEF C1
    <3> QED
      BY <3>1, <3>2, <3>3
  <2>7. r \in Nat
    <3> DEFINE m == missed'[timer[q].cb]
    <3>0. m \in 0 .. MaxTimers - 1
      BY <2>4
    <3> HIDE DEF m
    <3>1. m \in 0 .. MaxTimers
      BY <3>0, Sizes
    <3>2. Timer!PowerOf2[m] \in Nat
      BY <3>1, Powers
    <3> QED
      BY <3>2 DEF m
  <2> DEFINE w == Weight(k)'
  <2> HIDE DEF x, r, w
  <2>8. r * w <= MaxTimers
    <3>1. w \in Nat /\ w <= x /\ x \in Nat
      BY <2>4, <2>6 DEF w
    <3>2. r * w \in Nat /\ r * w <= r * x /\ r * x \in Nat
      BY <2>7, <3>1, Products
    <3> QED
      BY <1>2, <2>4, <3>2
  <2> QED
    BY <2>2, <2>3, <2>8 DEF r, w
<1>13. NothingMissed'
  <2> SUFFICES ASSUME NEW c \in Callbacks, missed'[c] > 0
               PROVE  \E l \in 1 .. n : u[l].cb = c
    BY <1>3 DEF NothingMissed, Timer!InTable, u
  <2>1. PICK k \in 1 .. n : timer[k].cb = c
    BY <1>8
  <2>2. PICK l \in 1 .. n : p[l] = k
    <3> HIDE DEF u
    <3>1. n \in Nat /\ \A x, y \in 1 .. n : p[x] = p[y] => x = y
      BY <1>2, <1>4
    <3>2. \A j \in 1 .. n : \E l \in 1 .. n : p[l] = j
      BY <3>1, AllShuffled
    <3> QED
      BY <3>2
  <2> QED
    BY <1>5, <2>1, <2>2
<1>14. WakeIsHead'
  BY <1>1 DEF WakeIsHead, u
<1>15. SkipsBounded'
  BY <1>8 DEF SkipsBounded, Timer!SkipsBounded
<1> QED
  BY <1>9, <1>10, <1>11, <1>12, <1>13, <1>14, <1>15 DEF TimerInv

(* blt_soft_timer_add keeps the invariant. *)
LEMMA AddStep ==
  ASSUME TimerInv, NEW c \in Callbacks, NEW d \in Intervals, Timer!Add(c, d)
  PROVE  TimerInv'
<1> DEFINE n == Len(timer)
           e == Timer!Armed(c, clock, d)
           s == Append(timer, e)
           u == timer'
           N == n + 1
           new == Left(e.t, now)
<1>1. /\ n \in Nat /\ timer \in Seq(Timer!Entry) /\ now \in Int /\ clock \in Int
      /\ late \in 0 .. Gap /\ late \in Nat /\ SameTick(clock, now + late) /\ MaxTimers \in Nat
      /\ \A k \in 1 .. n : timer[k].cb \in Callbacks
  BY TableTypes, Sizes DEF TimerInv, TableOK
<1>2. /\ new = late + d + Post - Pre - 1 /\ new >= Post /\ new \in Nat
      /\ e.cb = c /\ e \in Timer!Entry
  <2>1. /\ (clock + d) % Wrap \in Timer!Ticks
        /\ Left((clock + d) % Wrap, now) = late + d + Post - Pre - 1
        /\ late + d + Post - Pre - 1 >= Post
    BY <1>1, ArmedLeft
  <2>2. e \in Timer!Entry /\ e.t = (clock + d) % Wrap /\ e.cb = c
    BY <2>1 DEF Timer!Armed, Timer!Entry
  <2>3. new = late + d + Post - Pre - 1 /\ late + d + Post - Pre - 1 \in Nat
    BY <1>1, <2>1, <2>2, Sizes
  <2> QED
    BY <2>1, <2>2, <2>3
<1> HIDE DEF e
<1>3. /\ s \in Seq(Timer!Entry) /\ Len(s) = N /\ N \in Nat /\ N > 0 /\ s[N] = e
      /\ \A k \in 1 .. n : s[k] = timer[k]
      /\ \A k \in 1 .. N : k # N => k \in 1 .. n
  BY <1>1, <1>2
<1>4. /\ pc = "idle" /\ ~Timer!InTable(c) /\ N <= MaxTimers
      /\ u = Timer!Sort(s) /\ wake' = u[1].t /\ pc' = "idle"
      /\ clock' = clock /\ i' = i /\ now' = now /\ changed' = changed /\ late' = late /\ missed' = missed
  <2>1. ~Timer!SortHangs(s) /\ n < MaxTimers
    BY <1>1, <1>3 DEF Timer!Add, Timer!SortHangs
  <2> QED
    BY <1>1, <2>1 DEF Timer!Add, e
<1>5. /\ \A k \in 1 .. n : LeftOf(k) \in Nat /\ LeftOf(k) = Left(s[k].t, now)
           /\ Post <= LeftOf(k) + MaxTimers * Gap
           /\ \A l \in 1 .. n : LeftOf(k) - LeftOf(l) < Quarter
      /\ Running = 0 /\ Running' = 0
  BY <1>3, <1>4, TableTypes, TableNear DEF TimerInv, LeftOf, Running
<1> HIDE DEF n, s, new
<1>6. \A k, l \in 1 .. N : Left(s[k].t, now) - Left(s[l].t, now) < Quarter
  <2>1. ASSUME NEW k \in 1 .. n
        PROVE  LeftOf(k) - new < Quarter /\ new - LeftOf(k) < Quarter
    <3>1. PICK x \in Intervals : LeftOf(k) <= late + x + Post - Pre - 1
      BY DEF TimerInv, InWindow, n
    <3>2. MaxTimers * Gap \in Nat
      BY Gaps, Sizes
    <3>3. LeftOf(k) - new < Quarter
      <4>1. Post <= new + MaxTimers * Gap
        <5> DEFINE g == MaxTimers * Gap
        <5>1. g \in Nat
          BY <3>2
        <5> HIDE DEF g
        <5>2. Post <= new + g
          BY <1>2, <5>1, Sizes
        <5> QED
          BY <5>2 DEF g
      <4>2. LeftOf(k) \in Int /\ new \in Int
        BY <1>2, <1>5
      <4> QED
        BY <1>1, <3>1, <4>1, <4>2, Spread
    <3>4. new - LeftOf(k) < Quarter
      <4>1. new <= late + d + Post - Pre - 1 /\ LeftOf(k) \in Int /\ new \in Int
        BY <1>2, <1>5
      <4>2. Post <= LeftOf(k) + MaxTimers * Gap
        BY <1>5
      <4> QED
        BY <1>1, <4>1, <4>2, Spread
    <3> QED
      BY <3>3, <3>4
  <2>2. Left(s[N].t, now) = new /\ new - new < Quarter
    <3>1. Quarter > 0
      BY Sizes
    <3> QED
      BY <1>2, <1>3, <3>1 DEF new
  <2> TAKE k, l \in 1 .. N
  <2>3. CASE k # N /\ l # N
    BY <1>3, <1>5, <2>3
  <2>4. CASE k = N /\ l # N
    BY <1>3, <1>5, <2>1, <2>2, <2>4
  <2>5. CASE k # N /\ l = N
    BY <1>3, <1>5, <2>1, <2>2, <2>5
  <2>6. CASE k = N /\ l = N
    BY <2>2, <2>6
  <2> QED
    BY <2>3, <2>4, <2>5, <2>6
<1>7. /\ u \in Seq(Timer!Entry) /\ Len(u) = N /\ Shuffled(s, u, N, N)
      /\ \A a, b \in 1 .. N : a <= b => Left(u[a].t, now) <= Left(u[b].t, now)
  BY <1>1, <1>3, <1>4, <1>6, SortsTable
<1>8. PICK p \in [1 .. N -> 1 .. N] :
        /\ \A k, l \in 1 .. N : p[k] = p[l] => k = l
        /\ \A l \in 1 .. N : u[l] = s[p[l]]
  BY <1>7 DEF Shuffled
<1> HIDE DEF u
<1>9. \A l \in 1 .. N : p[l] \in 1 .. N /\ LeftOf(l)' = Left(s[p[l]].t, now) /\ u[l].cb = s[p[l]].cb
  BY <1>4, <1>8 DEF LeftOf, u
<1>10. missed[c] = 0
  BY <1>4 DEF TimerInv, TableOK, NothingMissed
<1>11. \A k, l \in 1 .. N : s[k].cb = s[l].cb => k = l
  <2>1. \A k, l \in 1 .. n : timer[k].cb = timer[l].cb => k = l
    BY DEF TimerInv, TableOK, n
  <2>2. \A k \in 1 .. n : timer[k].cb # c
    BY <1>4 DEF Timer!InTable, n
  <2> QED
    BY <1>2, <1>3, <2>1, <2>2
<1> HIDE DEF N
<1>12. TableOK'
  <2>1. now \in Timer!Ticks /\ clock = (now + late) % Wrap
        /\ i \in Nat \ {0} /\ changed \in BOOLEAN /\ missed \in [Callbacks -> 0 .. MaxTimers - 1]
    BY DEF TimerInv, TableOK
  <2>2. \A k, l \in 1 .. N : u[k].cb = u[l].cb => k = l
    BY <1>8, <1>9, <1>11
  <2>3. pc' \in {"idle", "fire"}
    BY <1>4
  <2> QED
    BY <1>1, <1>4, <1>7, <2>1, <2>2, <2>3 DEF TableOK, u
<1>13. InWindow'
  <2>1. ASSUME NEW j \in 1 .. N
        PROVE  /\ Post <= Left(s[j].t, now) + (missed[s[j].cb] + 0) * Gap
               /\ \E x \in Intervals : Left(s[j].t, now) <= late + x + Post - Pre - 1
    <3>1. CASE j # N
      <4>1. j \in 1 .. n /\ s[j] = timer[j] /\ Left(s[j].t, now) = LeftOf(j)
        BY <1>3, <1>5, <3>1
      <4> QED
        BY <1>5, <4>1 DEF TimerInv, InWindow, n
    <3>2. CASE j = N
      <4>1. s[j].cb = c /\ Left(s[j].t, now) = new
        BY <1>2, <1>3, <3>2 DEF new
      <4>2. (missed[s[j].cb] + 0) * Gap = 0
        BY <1>10, <4>1, Sizes
      <4>3. Post <= new + 0 /\ new <= late + d + Post - Pre - 1
        BY <1>2, Sizes
      <4> QED
        BY <4>1, <4>2, <4>3
    <3> QED
      BY <3>1, <3>2
  <2>2. ASSUME NEW k \in 1 .. N
        PROVE  /\ Post <= LeftOf(k)' + (missed[u[k].cb] + 0) * Gap
               /\ \E x \in Intervals : LeftOf(k)' <= late + x + Post - Pre - 1
    BY <1>9, <2>1
  <2> QED
    BY <1>4, <1>5, <1>7, <2>2 DEF InWindow, u
<1>14. InOrder'
  <2> SUFFICES ASSUME NEW k \in 1 .. N, NEW l \in 1 .. N, k < l
               PROVE  LeftOf(k)' <= LeftOf(l)'
    BY <1>7 DEF InOrder, u
  <2>1. Left(u[k].t, now) <= Left(u[l].t, now)
    BY <1>3, <1>7
  <2> QED
    BY <1>4, <2>1 DEF LeftOf, u
<1>15. MovesUp'
  <2> SUFFICES ASSUME NEW k \in 1 .. N, missed[u[k].cb] > 0
               PROVE  /\ LeftOf(k)' < Post
                      /\ Timer!PowerOf2[missed[u[k].cb]] * Weight(k)' <= MaxTimers
    BY <1>4, <1>7 DEF MovesUp, u
  <2>1. PICK q \in 1 .. N : q = p[k]
    BY <1>9
  <2>2. q \in 1 .. n /\ u[k].cb = timer[q].cb /\ LeftOf(k)' = LeftOf(q) /\ LeftOf(q) \in Nat
        /\ missed[timer[q].cb] > 0
    <3>1. u[k].cb = s[q].cb /\ LeftOf(k)' = Left(s[q].t, now)
      BY <1>9, <2>1
    <3>2. q # N
      BY <1>2, <1>3, <1>10, <3>1
    <3> QED
      BY <1>3, <1>5, <3>1, <3>2
  <2>3. LeftOf(q) < Post
    BY <1>4, <2>2 DEF TimerInv, MovesUp, n
  <2>4. Skipped(k)' = {}
    BY <1>4 DEF Skipped
  <2>5. Coming(k)' \subseteq Coming(q)
    <3> SUFFICES ASSUME NEW b \in Coming(k)' PROVE b \in Coming(q)
      OBVIOUS
    <3>1. PICK l \in 1 .. N : u[l].cb = b /\ LeftOf(l)' <= LeftOf(k)'
      BY <1>7 DEF Coming, u
    <3>2. PICK j \in 1 .. N : j = p[l]
      BY <1>9
    <3>3. s[j].cb = b /\ Left(s[j].t, now) <= LeftOf(q)
      BY <1>9, <2>2, <3>1, <3>2
    <3>4. j # N
      <4>1. j = N => Left(s[j].t, now) = new
        BY <1>3 DEF new
      <4> QED
        BY <1>2, <2>2, <2>3, <3>3, <4>1, Sizes
    <3>5. j \in 1 .. n /\ timer[j].cb = b /\ LeftOf(j) <= LeftOf(q)
      BY <1>3, <1>5, <3>3, <3>4
    <3> QED
      BY <1>4, <3>5, DueAre DEF TimerInv, n
  <2>6. Timer!PowerOf2[missed[timer[q].cb]] * Weight(k)' <= MaxTimers
    <3>1. q \in 1 .. Len(timer)
      BY <2>2 DEF n
    <3> QED
      BY <2>2, <2>3, <2>4, <2>5, <3>1, FewerStay DEF Weight
  <2> QED
    BY <2>2, <2>3, <2>6
<1>16. NothingMissed'
  <2> SUFFICES ASSUME NEW b \in Callbacks, missed[b] > 0
               PROVE  \E l \in 1 .. N : u[l].cb = b
    BY <1>4, <1>7 DEF NothingMissed, Timer!InTable, u
  <2>1. PICK k \in 1 .. n : timer[k].cb = b
    BY <1>4 DEF TimerInv, NothingMissed, Timer!InTable, n
  <2>2. k \in 1 .. N /\ s[k].cb = b
    <3>1. k \in 1 .. N
      BY <1>1 DEF N
    <3>2. s[k] = timer[k]
      BY <1>3
    <3> QED
      BY <2>1, <3>1, <3>2
  <2>3. \A j \in 1 .. N : \E l \in 1 .. N : p[l] = j
    <3>1. N \in Nat /\ \A x, y \in 1 .. N : p[x] = p[y] => x = y
      BY <1>3, <1>8
    <3> QED
      BY <3>1, AllShuffled
  <2>4. PICK l \in 1 .. N : p[l] = k
    BY <2>2, <2>3
  <2> QED
    BY <1>9, <2>2, <2>4
<1>17. WakeIsHead'
  BY <1>4 DEF WakeIsHead, u
<1>18. SkipsBounded'
  BY <1>4 DEF TimerInv, SkipsBounded, Timer!SkipsBounded
<1> QED
  BY <1>12, <1>13, <1>14, <1>15, <1>16, <1>17, <1>18 DEF TimerInv

(* Every step of a run of the timers keeps the invariant. *)
LEMMA TimersStep ==
  ASSUME TimerInv, [Next]_vars
  PROVE  TimerInv'
<1>1. CASE UNCHANGED timerVars
  BY <1>1 DEF timerVars, TimerInv, TableOK, InWindow, InOrder, MovesUp, NothingMissed, WakeIsHead,
              LeftOf, Running, Weight, Skipped, Coming, SkipsBounded, Timer!SkipsBounded, Timer!InTable
<1>2. CASE Timer!Next
  <2>1. CASE Timer!Process
    <3>1. CASE \E d \in {0} \cup Intervals : Timer!FireAgain(d)
      BY <3>1, FireAgainStep
    <3> QED
      BY <2>1, <3>1, BeginStep, PassStep, FireLastStep, FinishStep DEF Timer!Process
  <2>2. CASE \E c \in Callbacks : Timer!Delete(c) \/ \E d \in Intervals : Timer!Add(c, d)
    BY <2>2, DeleteStep, AddStep
  <2> QED
    BY <1>2, <2>1, <2>2, TickStep DEF Timer!Next
<1>3. CASE TimerStep(Timer!Next)
  BY <1>2, <1>3 DEF TimerStep
<1>4. CASE ~TimerStep(Timer!Next)
  <2>1. UNCHANGED timerVars
    BY <1>4 DEF Next, vars, KeyStep, Reads
  <2> QED
    BY <1>1, <2>1
<1> QED
  BY <1>3, <1>4

-----------------------------------------------------------------------------
(* The table of the timers is in order and its deadlines are near, in      *)
(* every reachable state.                                                  *)
THEOREM TimersInvariant == Spec => []TimerInv
<1>1. Init => TimerInv
  BY TimerInit DEF Init
<1> QED  BY <1>1, TimersStep, PTL DEF Spec

(* The timers are triggered in the order of time, for every number of      *)
(* timers and every size of the clock: nothing is due while the head of    *)
(* the table is not, and a wake-up that is set is the head's.              *)
THEOREM HeadFirst == Spec => []TriggeredSequentially
<1>1. TimerInv => TriggeredSequentially
  <2> SUFFICES ASSUME TimerInv, pc = "idle"
               PROVE  /\ \A k \in 1 .. Len(timer) : Timer!Expired(timer[k].t, clock) => Timer!Expired(timer[1].t, clock)
                      /\ timer # << >> => wake \in {Timer!Off, timer[1].t}
    BY DEF TriggeredSequentially, Timer!TriggeredSequentially
  <2>1. ASSUME NEW k \in 1 .. Len(timer), Timer!Expired(timer[k].t, clock)
        PROVE  Timer!Expired(timer[1].t, clock)
    <3>1. 1 \in 1 .. Len(timer) /\ clock \in Int /\ timer[1].t \in Int /\ timer[k].t \in Int /\ late \in Nat
          /\ LeftOf(1) \in Nat /\ LeftOf(k) \in Nat
      BY TableTypes DEF TimerInv
    <3>2. LeftOf(1) <= LeftOf(k)
      <4>1. CASE k = 1
        BY <3>1, <4>1
      <4>2. CASE k # 1
        BY <3>1, <4>2 DEF TimerInv, InOrder
      <4> QED
        BY <4>1, <4>2
    <3>3. Left(timer[k].t, clock) = LeftOf(k) - late /\ Left(timer[1].t, clock) = LeftOf(1) - late
      BY <3>1, TableNear DEF TimerInv
    <3>4. Left(timer[k].t, clock) < Post
      BY <2>1, <3>1, DueLeft
    <3>5. Left(timer[1].t, clock) < Post
      BY <3>1, <3>2, <3>3, <3>4, Sizes
    <3> QED
      BY <3>1, <3>5, DueLeft
  <2>2. timer # << >> => wake \in {Timer!Off, timer[1].t}
    BY DEF TimerInv, WakeIsHead
  <2> QED
    BY <2>1, <2>2
<1> QED  BY <1>1, TimersInvariant, PTL

(* An entry that is stepped over is served soon after: each pass fires at  *)
(* least half of what is due before it, so that none is left over more     *)
(* often than the table can be halved.                                     *)
THEOREM ServedSoon == Spec => []SkipsBounded
<1>1. TimerInv => SkipsBounded
  BY DEF TimerInv
<1> QED  BY <1>1, TimersInvariant, PTL

(* A deadline that has passed is not forgotten: however its entry is       *)
(* stepped over, it is served in the time in which it counts as due.       *)
THEOREM NoneForgotten == Spec => []NeverForgotten
<1>1. TimerInv => NeverForgotten
  <2> SUFFICES ASSUME TimerInv
               PROVE  /\ pc # "hung"
                      /\ \A k \in 1 .. Len(timer) :
                           Timer!Expired(timer[k].t, clock) \/ Timer!Until(timer[k].t, clock) < Quarter
    BY DEF NeverForgotten, Timer!NeverForgotten
  <2>1. pc # "hung"
    BY DEF TimerInv, TableOK
  <2>2. ASSUME NEW k \in 1 .. Len(timer), ~Timer!Expired(timer[k].t, clock)
        PROVE  Timer!Until(timer[k].t, clock) < Quarter
    <3> DEFINE x == Left(timer[k].t, clock)
    <3>1. /\ clock \in Int /\ timer[k].t \in Int /\ late \in Nat /\ LeftOf(k) \in Nat
          /\ x = LeftOf(k) - late
      BY TableTypes, TableNear DEF TimerInv
    <3>2. x \in Int /\ ~(x < Post)
      BY <2>2, <3>1, DueLeft
    <3>3. PICK d \in Intervals : LeftOf(k) <= late + d + Post - Pre - 1
      BY DEF TimerInv, InWindow
    <3> HIDE DEF x
    <3>4. x >= Post /\ x - (Post - Pre - 1) < Wrap /\ x - (Post - Pre - 1) < Quarter
      <4>1. d \in Nat /\ d < Quarter
        BY Sizes
      <4>2. x <= d + Post - Pre - 1
        BY <3>1, <3>3, <4>1, Sizes
      <4> QED
        BY <3>2, <4>1, <4>2, Sizes
    <3>5. Timer!Until(timer[k].t, clock) = x - (Post - Pre - 1)
      BY <3>1, <3>4, UntilIs DEF x
    <3> QED
      BY <3>4, <3>5
  <2> QED
    BY <2>1, <2>2
<1> QED  BY <1>1, TimersInvariant, PTL
=============================================================================
