----------------------------- MODULE YsUart_proof -----------------------------
(***************************************************************************)
(* Proofs about both halves of ys_uart.c, for every depth of the fifos and *)
(* any number of bytes and messages.                                       *)
(*                                                                         *)
(* Receiving, for every size of a slot: the counters stay within the fifo, *)
(* and while the fifo has never been full the handler consumes the bytes   *)
(* of the line in order and without loss, which makes the receiver an      *)
(* implementation of the byte pipe.                                        *)
(*                                                                         *)
(* Sending, for every set of speeds: the busy flag, the completion         *)
(* interrupt and the timeout between them keep the DMA channel from being  *)
(* restarted, and a line that is not disturbed carries what was accepted.  *)
(***************************************************************************)
EXTENDS YsUartRx, YsUartTx, MyFifo_proof, TLAPS

Mem == [Slot -> [0 .. Size - 1 -> Nat]]

-----------------------------------------------------------------------------
(* Entries below Num are slots of their own, and the open slot is none of  *)
(* the closed ones.                                                        *)
LEMMA OpenIsApart ==
  ASSUME NEW w \in Ptr, NEW r \in Ptr, Count(w, r) < Num,
         NEW i \in 0 .. Count(w, r) - 1
  PROVE  /\ EntrySlot(r, i) \in Slot
         /\ SlotOf(w) \in Slot
         /\ EntrySlot(r, i) # SlotOf(w)
<1> DEFINE c == Count(w, r)
<1>1. c \in 0 .. Num - 1 /\ i \in 0 .. Num - 1 /\ i # c
  BY CountCases, PtrModFacts
<1>2. EntrySlot(r, c) = SlotOf(w)
  BY EntryOpen
<1>3. i \in Ptr
  BY <1>1, PtrModFacts DEF Ptr
<1>4. EntrySlot(r, i) \in Slot
  BY <1>3, EntrySlotInSlot
<1>5. SlotOf(w) \in Slot
  BY SlotOfInSlot, PtrModFacts DEF Ptr
<1>6. EntrySlot(r, i) # EntrySlot(r, c)
  BY <1>1, EntrySlotDistinct
<1> QED BY <1>2, <1>4, <1>5, <1>6

(* Storing the next byte in the open slot extends the run at its end, and  *)
(* no entry begins elsewhere than before.                                  *)
LEMMA LayoutStore ==
  ASSUME NEW m \in Mem, NEW m2 \in Mem, NEW w \in Ptr, NEW r \in Ptr,
         NEW p \in Hdr .. Size - 1, NEW n \in Nat, Layout(m, w, r, p, n),
         \A s \in Slot \ {SlotOf(w)} : m2[s] = m[s],
         m2[SlotOf(w)][0] = p + 1,
         m2[SlotOf(w)][p] = n + 1,
         \A o \in Hdr .. p - 1 : m2[SlotOf(w)][o] = m[SlotOf(w)][o]
  PROVE  /\ Layout(m2, w, r, p + 1, n + 1)
         /\ \A i \in 0 .. Count(w, r) :
              FirstOf(m2, w, r, p + 1, n + 1, i) = FirstOf(m, w, r, p, n, i)
<1> DEFINE c == Count(w, r)
<1>1. c \in Nat /\ c < Num
  BY CountCases DEF Layout
<1>2. \A i \in 0 .. c - 1 : m2[EntrySlot(r, i)] = m[EntrySlot(r, i)]
  BY <1>1, OpenIsApart
<1>3. \A i \in 0 .. c :
        FirstOf(m2, w, r, p + 1, n + 1, i) = FirstOf(m, w, r, p, n, i)
  <2> TAKE i \in 0 .. c
  <2>1. CASE i = c
    BY <2>1 DEF FirstOf, Hdr
  <2>2. CASE i # c
    BY <2>2, <1>1, <1>2 DEF FirstOf
  <2> QED BY <2>1, <2>2
<1>4. HoldsTail(m2[SlotOf(w)], p + 1, n + 1)
  <2> SUFFICES ASSUME NEW o \in Hdr .. (p + 1) - 1
               PROVE  m2[SlotOf(w)][o] = (n + 1) + 1 - ((p + 1) - o)
    BY DEF HoldsTail
  <2>1. CASE o = p
    BY <2>1 DEF Hdr
  <2>2. CASE o # p
    <3>1. o \in Hdr .. p - 1
      BY <2>2 DEF Hdr
    <3> QED BY <3>1 DEF Layout, HoldsTail, Hdr
  <2> QED BY <2>1, <2>2
<1>5. ASSUME NEW i \in 0 .. c - 1
      PROVE  /\ HoldsRun(m2[EntrySlot(r, i)])
             /\ FirstOf(m2, w, r, p + 1, n + 1, i + 1) =
                  FirstOf(m2, w, r, p + 1, n + 1, i) + m2[EntrySlot(r, i)][0] - Hdr
             /\ FirstOf(m2, w, r, p + 1, n + 1, i + 1) \in 0 .. (n + 1) + 1
  <2>1. /\ HoldsRun(m[EntrySlot(r, i)])
        /\ FirstOf(m, w, r, p, n, i + 1) =
             FirstOf(m, w, r, p, n, i) + m[EntrySlot(r, i)][0] - Hdr
        /\ FirstOf(m, w, r, p, n, i + 1) \in 0 .. n + 1
    BY DEF Layout
  <2>2. i \in 0 .. c /\ i + 1 \in 0 .. c
    BY <1>1
  <2>3. /\ FirstOf(m2, w, r, p + 1, n + 1, i) = FirstOf(m, w, r, p, n, i)
        /\ FirstOf(m2, w, r, p + 1, n + 1, i + 1) = FirstOf(m, w, r, p, n, i + 1)
    BY <2>2, <1>3
  <2> QED BY <2>1, <2>3, <1>2
<1> QED BY <1>1, <1>3, <1>4, <1>5 DEF Layout

(* Handing the open slot over makes it the last entry; the next one is     *)
(* opened behind it, apart from the others as long as there are Num.       *)
LEMMA LayoutHandOver ==
  ASSUME NEW m \in Mem, NEW m2 \in Mem, NEW w \in Ptr, NEW r \in Ptr,
         NEW p \in Hdr + 1 .. Size, NEW n \in Nat, Layout(m, w, r, p, n),
         Count(Bump(w), r) # Num,
         \A s \in Slot \ {SlotOf(Bump(w))} : m2[s] = m[s],
         m2[SlotOf(Bump(w))][0] = Hdr
  PROVE  /\ Layout(m2, Bump(w), r, Hdr, n)
         /\ \A i \in 0 .. Count(w, r) :
              FirstOf(m2, Bump(w), r, Hdr, n, i) = FirstOf(m, w, r, p, n, i)
<1> DEFINE c == Count(w, r)
           v == Bump(w)
<1>1. c \in Nat /\ c < Num
  BY CountCases DEF Layout
<1>2. v \in Ptr /\ Count(v, r) = c + 1
  BY <1>1, BumpCases, CountHandedOver, PtrModFacts
<1>3. Count(v, r) < Num
  BY <1>1, <1>2, PtrModFacts
<1>4. \A i \in 0 .. c : m2[EntrySlot(r, i)] = m[EntrySlot(r, i)]
  BY <1>1, <1>2, <1>3, OpenIsApart
<1>5. EntrySlot(r, c) = SlotOf(w)
  BY EntryOpen
<1>6. HoldsTail(m[SlotOf(w)], p, n)
  BY DEF Layout
<1> HIDE DEF c, v
<1>7. m[EntrySlot(r, c)][Hdr] = n + 1 - (p - Hdr)
  BY <1>5, <1>6 DEF HoldsTail, Hdr
<1>8. \A i \in 0 .. c :
        FirstOf(m2, v, r, Hdr, n, i) = FirstOf(m, w, r, p, n, i)
  <2> TAKE i \in 0 .. c
  <2>1. FirstOf(m2, v, r, Hdr, n, i) = m[EntrySlot(r, i)][Hdr]
    BY <1>1, <1>2, <1>4 DEF FirstOf
  <2>2. CASE i = c
    BY <2>1, <2>2, <1>7 DEF FirstOf, c
  <2>3. CASE i # c
    BY <2>1, <2>3 DEF FirstOf, c
  <2> QED BY <2>2, <2>3
<1>9. HoldsTail(m2[SlotOf(v)], Hdr, n)
  BY DEF HoldsTail, Hdr, v
<1>10. ASSUME NEW i \in 0 .. (c + 1) - 1
       PROVE  /\ HoldsRun(m2[EntrySlot(r, i)])
              /\ FirstOf(m2, v, r, Hdr, n, i + 1) =
                   FirstOf(m2, v, r, Hdr, n, i) + m2[EntrySlot(r, i)][0] - Hdr
              /\ FirstOf(m2, v, r, Hdr, n, i + 1) \in 0 .. n + 1
  <2>1. i \in 0 .. c
    BY <1>1
  <2>2. CASE i = c
    <3>1. HoldsRun(m[EntrySlot(r, c)])
      BY <1>5, <1>6, <1>7 DEF HoldsRun, HoldsTail, Hdr
    <3>2. FirstOf(m2, v, r, Hdr, n, c + 1) = n + 1
      BY <1>2 DEF FirstOf, Hdr
    <3>3. FirstOf(m2, v, r, Hdr, n, c) = n + 1 - (p - Hdr)
      BY <2>1, <2>2, <1>8 DEF FirstOf, c
    <3>4. m[EntrySlot(r, c)][0] = p
      BY <1>5, <1>6 DEF HoldsTail
    <3> QED BY <2>1, <2>2, <3>1, <3>2, <3>3, <3>4, <1>4 DEF Hdr
  <2>3. CASE i # c
    <3>1. i \in 0 .. c - 1 /\ i + 1 \in 0 .. c
      BY <2>1, <2>3, <1>1
    <3>2. /\ HoldsRun(m[EntrySlot(r, i)])
          /\ FirstOf(m, w, r, p, n, i + 1) =
               FirstOf(m, w, r, p, n, i) + m[EntrySlot(r, i)][0] - Hdr
          /\ FirstOf(m, w, r, p, n, i + 1) \in 0 .. n + 1
      BY <3>1 DEF Layout, c
    <3> QED BY <3>1, <3>2, <2>1, <1>4, <1>8
  <2> QED BY <2>2, <2>3
<1> QED BY <1>2, <1>3, <1>8, <1>9, <1>10 DEF Layout, c, v

(* Releasing the head leaves the others as they are. *)
LEMMA LayoutRelease ==
  ASSUME NEW m \in Mem, NEW w \in Ptr, NEW r \in Ptr, NEW p \in Nat, NEW n \in Nat,
         Layout(m, w, r, p, n), ~IsEmpty(w, r)
  PROVE  /\ Layout(m, w, Bump(r), p, n)
         /\ FirstOf(m, w, Bump(r), p, n, 0) = FirstOf(m, w, r, p, n, 1)
<1> DEFINE c == Count(w, r)
           q == Bump(r)
<1>1. c \in Nat /\ c < Num /\ c > 0
  BY CountCases, CountZero DEF Layout
<1>2. q \in Ptr /\ Count(w, q) = c - 1
  BY BumpCases, CountReleased
<1>3. \A i \in 0 .. c - 1 : EntrySlot(q, i) = EntrySlot(r, i + 1)
  BY <1>1, EntryShift, PtrModFacts
<1> HIDE DEF c, q
<1>4. \A i \in 0 .. c - 1 :
        FirstOf(m, w, q, p, n, i) = FirstOf(m, w, r, p, n, i + 1)
  <2> TAKE i \in 0 .. c - 1
  <2>1. i = c - 1 <=> i + 1 = c
    BY <1>1
  <2> QED BY <2>1, <1>2, <1>3 DEF FirstOf, c
<1>5. ASSUME NEW i \in 0 .. (c - 1) - 1
      PROVE  /\ HoldsRun(m[EntrySlot(q, i)])
             /\ FirstOf(m, w, q, p, n, i + 1) =
                  FirstOf(m, w, q, p, n, i) + m[EntrySlot(q, i)][0] - Hdr
             /\ FirstOf(m, w, q, p, n, i + 1) \in 0 .. n + 1
  <2>1. i \in 0 .. c - 1 /\ i + 1 \in 0 .. c - 1
    BY <1>1
  <2>2. /\ HoldsRun(m[EntrySlot(r, i + 1)])
        /\ FirstOf(m, w, r, p, n, (i + 1) + 1) =
             FirstOf(m, w, r, p, n, i + 1) + m[EntrySlot(r, i + 1)][0] - Hdr
        /\ FirstOf(m, w, r, p, n, (i + 1) + 1) \in 0 .. n + 1
    BY <2>1 DEF Layout, c
  <2> QED BY <2>1, <2>2, <1>3, <1>4
<1>6. Layout(m, w, q, p, n)
  <2>1. Count(w, q) < Num
    BY <1>1, <1>2, PtrModFacts
  <2> QED BY <2>1, <1>2, <1>5 DEF Layout
<1>7. FirstOf(m, w, q, p, n, 0) = FirstOf(m, w, r, p, n, 1)
  <2>1. 0 \in 0 .. c - 1
    BY <1>1
  <2> QED BY <2>1, <1>4
<1> QED BY <1>6, <1>7 DEF q

-----------------------------------------------------------------------------
(* A store or a load inside its slot touches that cell only; a store       *)
(* anywhere leaves a memory.                                               *)
LEMMA StoreFacts ==
  ASSUME NEW m \in Mem, NEW s \in Slot, NEW off \in Nat, NEW v \in Nat
  PROVE  /\ Store(m, s, off, v) \in Mem
         /\ off < Size =>
              /\ \A t \in Slot \ {s} : Store(m, s, off, v)[t] = m[t]
              /\ \A o \in 0 .. Size - 1 :
                   Store(m, s, off, v)[s][o] = IF o = off THEN v ELSE m[s][o]
<1>1. Size \in Nat /\ Size > 0
  BY SizeAssumption
<1>2. off % Size \in 0 .. Size - 1
  BY <1>1
<1>3. Store(m, s, off, v) \in Mem
  BY <1>2 DEF Store, Mem
<1>4. ASSUME off < Size
      PROVE  /\ \A t \in Slot \ {s} : Store(m, s, off, v)[t] = m[t]
             /\ \A o \in 0 .. Size - 1 :
                  Store(m, s, off, v)[s][o] = IF o = off THEN v ELSE m[s][o]
  <2>1. off % Size = off /\ off \div Size = 0
    BY <1>1, <1>4
  <2>2. s + off \div Size = s
    BY <2>1 DEF Slot
  <2>3. Store(m, s, off, v) = [m EXCEPT ![s][off] = v]
    BY <2>1, <2>2 DEF Store
  <2> QED BY <2>3, <1>1, <1>4 DEF Mem
<1> QED BY <1>3, <1>4

LEMMA CellInside ==
  ASSUME NEW s \in Slot, NEW off \in 0 .. Size - 1
  PROVE  Cell(s, off) = mem[s][off]
<1>1. off % Size = off /\ off \div Size = 0
  BY SizeAssumption
<1>2. s + off \div Size = s
  BY <1>1 DEF Slot
<1> QED BY <1>1, <1>2 DEF Cell

LEMMA CellType ==
  ASSUME mem \in Mem, NEW s \in Int, NEW off \in Nat
  PROVE  Cell(s, off) \in Nat
<1>1. off % Size \in 0 .. Size - 1
  BY SizeAssumption
<1> QED BY <1>1 DEF Cell, Mem

(* The part of the invariant that does not depend on the fifo never having *)
(* been full.                                                              *)
Basic == TypeOK /\ AtHead /\ TailArmed

(* Handing over keeps the counters within Num of each other, whoever does  *)
(* it, and does not empty the fifo.                                        *)
LEMMA HandOverBasic ==
  ASSUME Basic, NEW m \in Mem, HandOver(m), rptr' = rptr
  PROVE  /\ mem' \in Mem
         /\ wptr' \in Ptr
         /\ Count(wptr', rptr') <= Num
         /\ wpos' \in Nat /\ wpos' >= Hdr
         /\ wasFull' \in BOOLEAN
         /\ ~IsEmpty(wptr, rptr) => ~IsEmpty(wptr', rptr')
<1> USE DEF Basic, TypeOK, TailArmed
<1>1. CASE HasRoom(wptr, rptr)
  <2>1. Count(wptr, rptr) \in Nat /\ Count(wptr, rptr) < Num
    BY <1>1, CountCases DEF HasRoom
  <2>2. wptr' = Bump(wptr) /\ wptr' \in Ptr
    BY <1>1, BumpCases DEF HandOver
  <2>3. Count(wptr', rptr') = Count(wptr, rptr) + 1
    BY <2>1, <2>2, CountHandedOver, PtrModFacts
  <2>4. ~IsEmpty(wptr', rptr')
    BY <2>1, <2>2, <2>3, CountZero
  <2>5. mem' \in Mem
    <3>1. SlotOf(wptr') \in Slot /\ 0 \in 0 .. Size - 1
      BY <2>2, SlotOfInSlot, SizeAssumption DEF Ptr
    <3>2. mem' = [m EXCEPT ![SlotOf(wptr')][0] = Hdr]
      BY <1>1 DEF HandOver
    <3> HIDE DEF Basic, TypeOK, TailArmed
    <3> QED BY <3>1, <3>2 DEF Mem, Hdr
  <2>6. wpos' = Hdr /\ wasFull' \in BOOLEAN
    BY <1>1 DEF HandOver
  <2> QED BY <2>1, <2>2, <2>3, <2>4, <2>5, <2>6, PtrModFacts DEF Hdr
<1>2. CASE ~HasRoom(wptr, rptr)
  BY <1>2 DEF HandOver
<1> QED BY <1>1, <1>2

LEMMA BasicInit == Init => Basic
<1> SUFFICES ASSUME Init PROVE Basic
  OBVIOUS
<1>1. 0 \in Ptr /\ 0 \in Slot
  BY PtrModFacts DEF Ptr, Slot
<1>2. Count(0, 0) = 0
  BY <1>1, CountZero DEF IsEmpty
<1>3. LenMod \in Nat /\ LenMod > 0
  BY SizeAssumption
<1>4. mem \in [Slot -> [0 .. Size - 1 -> Nat]]
  BY DEF Init, Hdr
<1>5. wpos = Hdr /\ Hdr \in Nat
  BY DEF Init, Hdr
<1>6. TypeOK
  <2>1. wptr \in Ptr /\ rptr \in Ptr /\ fp \in Slot
    BY <1>1 DEF Init
  <2>2. Count(wptr, rptr) <= Num
    BY <1>2, PtrModFacts DEF Init
  <2>3. flen \in 0 .. LenMod - 1 /\ rcvd \in Nat /\ wpos \in Nat
    BY <1>3, <1>5 DEF Init
  <2>4. out \in Seq(Nat) /\ wasFull \in BOOLEAN
    <3>1. << >> \in Seq(Nat)
      OBVIOUS
    <3>2. out = << >> /\ wasFull = FALSE
      BY DEF Init
    <3> QED BY <3>1, <3>2
  <2>5. /\ tick \in {"off", "running", "expired"}
        /\ pc \in {"idle", "get", "len", "recv", "pop"}
    BY DEF Init
  <2> QED BY <1>4, <2>1, <2>2, <2>3, <2>4, <2>5 DEF TypeOK
<1> QED BY <1>5, <1>6 DEF Init, Basic, AtHead, TailArmed, Hdr

LEMMA BasicStep == Basic /\ [Next]_vars => Basic'
<1> SUFFICES ASSUME Basic, [Next]_vars
             PROVE  Basic'
  OBVIOUS
<1> USE DEF Basic
<1>0. TypeOK /\ AtHead /\ TailArmed /\ mem \in Mem
  BY DEF TypeOK, Mem
<1>1. OpenSlot \in Slot
  BY SlotOfInSlot DEF OpenSlot, TypeOK, Ptr
<1>2. CASE RxIrq
  <2> DEFINE m   == Store(mem, OpenSlot, wpos, rcvd + 1)
             len == (m[OpenSlot][0] + 1) % LenMod
             m2  == [m EXCEPT ![OpenSlot][0] = len]
  <2>1. m \in Mem
    BY <1>0, <1>1, StoreFacts DEF TypeOK
  <2>2. len \in Nat
    <3>1. m[OpenSlot][0] \in Nat
      BY <2>1, <1>1, SizeAssumption DEF Mem
    <3> QED BY <3>1, SizeAssumption
  <2>3. m2 \in Mem
    BY <2>1, <2>2, <1>1, SizeAssumption DEF Mem
  <2>4. /\ rcvd' = rcvd + 1
        /\ UNCHANGED <<rptr, pc, fp, flen, out>>
        /\ \/ /\ mem' = m2
              /\ wpos' = wpos + 1
              /\ tick' = "running"
              /\ UNCHANGED <<wptr, wasFull>>
           \/ /\ tick' = "off"
              /\ HandOver(m2)
    BY <1>2 DEF RxIrq, loopVars
  <2> HIDE DEF m, len, m2
  <2>5. CASE mem' = m2 /\ wpos' = wpos + 1 /\ tick' = "running" /\ UNCHANGED <<wptr, wasFull>>
    BY <1>0, <2>3, <2>4, <2>5 DEF TypeOK, AtHead, TailArmed, IsEmpty, Mem, Hdr
  <2>6. CASE tick' = "off" /\ HandOver(m2)
    <3>1. /\ mem' \in Mem
          /\ wptr' \in Ptr
          /\ Count(wptr', rptr') <= Num
          /\ wpos' \in Nat /\ wpos' >= Hdr
          /\ wasFull' \in BOOLEAN
          /\ ~IsEmpty(wptr, rptr) => ~IsEmpty(wptr', rptr')
      BY <2>3, <2>4, <2>6, HandOverBasic
    <3> QED BY <1>0, <2>4, <2>6, <3>1 DEF TypeOK, AtHead, TailArmed, Mem
  <2> QED BY <2>4, <2>5, <2>6
<1>3. CASE IdleElapse
  BY <1>0, <1>3 DEF IdleElapse, loopVars, TypeOK, AtHead, TailArmed, IsEmpty
<1>4. CASE ProcIdle
  <2>1. CASE tick = "expired" /\ tick' = "off" /\ HandOver(mem)
    <3>0. pc' = "get" /\ UNCHANGED <<rptr, fp, flen, out, rcvd>>
      BY <1>4 DEF ProcIdle
    <3>1. /\ mem' \in Mem
          /\ wptr' \in Ptr
          /\ Count(wptr', rptr') <= Num
          /\ wpos' \in Nat /\ wpos' >= Hdr
          /\ wasFull' \in BOOLEAN
      BY <1>0, <2>1, <3>0, HandOverBasic
    <3> QED BY <1>0, <2>1, <3>0, <3>1 DEF TypeOK, AtHead, TailArmed, Mem
  <2>2. CASE tick # "expired" /\ UNCHANGED <<mem, wptr, wpos, tick, wasFull>>
    BY <1>0, <1>4, <2>2 DEF ProcIdle, TypeOK, AtHead, TailArmed
  <2> QED BY <1>4, <2>1, <2>2 DEF ProcIdle
<1>5. CASE ProcGet
  <2>1. SlotOf(rptr) \in Slot
    BY SlotOfInSlot DEF TypeOK, Ptr
  <2> QED BY <1>0, <1>5, <2>1 DEF ProcGet, irqVars, TypeOK, AtHead, TailArmed, IsEmpty
<1>6. CASE ProcLen
  <2>1. mem[fp][0] \in Nat
    BY <1>0, SizeAssumption DEF TypeOK
  <2>2. (mem[fp][0] - Hdr) % LenMod \in 0 .. LenMod - 1
    BY <2>1, SizeAssumption DEF Hdr
  <2> QED BY <1>0, <1>6, <2>2 DEF ProcLen, irqVars, TypeOK, AtHead, TailArmed, IsEmpty
<1>7. CASE ProcAccept
  <2>1. \A k \in 1 .. flen : Cell(fp, k + Hdr - 1) \in Nat
    <3> TAKE k \in 1 .. flen
    <3>1. fp \in Int /\ flen \in Int
      BY <1>0, PtrModFacts, SizeAssumption DEF TypeOK, Slot
    <3>2. k + Hdr - 1 \in Nat
      BY <3>1 DEF Hdr
    <3> QED BY <1>0, <3>1, <3>2, CellType
  <2>2. [k \in 1 .. flen |-> Cell(fp, k + Hdr - 1)] \in Seq(Nat)
    BY <2>1, <1>0 DEF TypeOK
  <2>3. out' \in Seq(Nat)
    BY <1>0, <1>7, <2>2 DEF ProcAccept, TypeOK
  <2> QED BY <1>0, <1>7, <2>3 DEF ProcAccept, irqVars, TypeOK, AtHead, TailArmed, IsEmpty
<1>8. CASE ProcRefuse
  BY <1>0, <1>8 DEF ProcRefuse, irqVars, TypeOK, AtHead, TailArmed
<1>9. CASE ProcPop
  <2>1. ~IsEmpty(wptr, rptr)
    BY <1>0, <1>9 DEF ProcPop, AtHead
  <2>2. rptr' \in Ptr /\ Count(wptr', rptr') = Count(wptr, rptr) - 1
    BY <1>0, <1>9, <2>1, BumpCases, CountReleased DEF ProcPop, irqVars, TypeOK
  <2>3. Count(wptr', rptr') <= Num
    BY <1>0, <2>2, CountCases, PtrModFacts DEF TypeOK
  <2> QED BY <1>0, <1>9, <2>2, <2>3 DEF ProcPop, irqVars, TypeOK, AtHead, TailArmed
<1>10. CASE UNCHANGED vars
  BY <1>0, <1>10 DEF vars, irqVars, loopVars, TypeOK, AtHead, TailArmed, IsEmpty
<1> QED BY <1>2, <1>3, <1>4, <1>5, <1>6, <1>7, <1>8, <1>9, <1>10 DEF Next, MainLoop

(* Type correctness, with the bound on the counters that the guards of the *)
(* interrupt handler and of ys_uart_process keep between them.             *)
THEOREM TypeCorrect == Spec => []TypeOK
<1>1. Basic => TypeOK
  BY DEF Basic
<1> QED BY <1>1, BasicInit, BasicStep, PTL DEF Spec

-----------------------------------------------------------------------------
(* What handing over does to a memory in which everything is in its place, *)
(* when it does not fill the fifo.                                         *)
LEMMA HandOverLayout ==
  ASSUME Basic, NEW m \in Mem, NEW p \in Hdr + 1 .. Size, NEW n \in Nat,
         HandOver(m), rptr' = rptr, ~wasFull',
         Layout(m, wptr, rptr, p, n)
  PROVE  /\ wpos' = Hdr
         /\ Layout(mem', wptr', rptr', wpos', n)
         /\ \A i \in 0 .. Count(wptr, rptr) :
              FirstOf(mem', wptr', rptr', wpos', n, i) = FirstOf(m, wptr, rptr, p, n, i)
         /\ ~IsEmpty(wptr, rptr) => mem'[SlotOf(rptr)] = m[SlotOf(rptr)]
<1>1. wptr \in Ptr /\ rptr \in Ptr /\ wasFull \in BOOLEAN
  BY DEF Basic, TypeOK
<1>2. HasRoom(wptr, rptr)
  BY DEF Layout, HasRoom
<1>3. /\ wptr' = Bump(wptr)
      /\ mem' = [m EXCEPT ![SlotOf(wptr')][0] = Hdr]
      /\ wpos' = Hdr
      /\ Count(wptr', rptr) # Num
  BY <1>2 DEF HandOver
<1>4. mem' \in Mem /\ wptr' \in Ptr
  BY HandOverBasic
<1>5. SlotOf(wptr') \in Slot /\ 0 \in 0 .. Size - 1
  BY <1>4, SlotOfInSlot, SizeAssumption DEF Ptr
<1>6. mem'[SlotOf(wptr')][0] = Hdr
  BY <1>3, <1>5 DEF Mem
<1>7. \A s \in Slot \ {SlotOf(wptr')} : mem'[s] = m[s]
  BY <1>3, <1>5 DEF Mem
<1>8. /\ Layout(mem', wptr', rptr, Hdr, n)
      /\ \A i \in 0 .. Count(wptr, rptr) :
           FirstOf(mem', wptr', rptr, Hdr, n, i) = FirstOf(m, wptr, rptr, p, n, i)
  <2> DEFINE mm == mem'
             ww == wptr'
  <2>1. /\ mm \in Mem /\ ww = Bump(wptr)
        /\ Count(Bump(wptr), rptr) # Num
        /\ \A s \in Slot \ {SlotOf(Bump(wptr))} : mm[s] = m[s]
        /\ mm[SlotOf(Bump(wptr))][0] = Hdr
    BY <1>3, <1>4, <1>6, <1>7
  <2> HIDE DEF mm, ww
  <2>2. /\ Layout(mm, ww, rptr, Hdr, n)
        /\ \A i \in 0 .. Count(wptr, rptr) :
             FirstOf(mm, ww, rptr, Hdr, n, i) = FirstOf(m, wptr, rptr, p, n, i)
    BY <1>1, <2>1, LayoutHandOver
  <2> QED BY <2>2 DEF mm, ww
<1>9. ASSUME ~IsEmpty(wptr, rptr)
      PROVE  mem'[SlotOf(rptr)] = m[SlotOf(rptr)]
  <2>1. Count(wptr, rptr) \in Nat /\ Count(wptr, rptr) < Num /\ Count(wptr, rptr) > 0
    BY <1>1, <1>9, CountCases, CountZero DEF Layout
  <2>2. Count(wptr', rptr) = Count(wptr, rptr) + 1
    BY <1>1, <1>3, <2>1, CountHandedOver, PtrModFacts
  <2>3. Count(wptr', rptr) < Num /\ 0 \in 0 .. Count(wptr', rptr) - 1
    BY <1>3, <2>1, <2>2, PtrModFacts
  <2>4. EntrySlot(rptr, 0) \in Slot /\ EntrySlot(rptr, 0) # SlotOf(wptr')
    BY <1>1, <1>4, <2>3, OpenIsApart
  <2>5. EntrySlot(rptr, 0) = SlotOf(rptr)
    BY <1>1, EntryHead
  <2> QED BY <2>4, <2>5, <1>7
<1> QED BY <1>3, <1>8, <1>9

(* The conditional part of IInv. *)
InPlace == wpos < Size /\ Layout(mem, wptr, rptr, wpos, rcvd) /\ Consumed

LEMMA IInvParts == IInv <=> Basic /\ (~wasFull => InPlace)
BY DEF IInv, Basic, InPlace

LEMMA IInvInit == Init => IInv
<1> SUFFICES ASSUME Init PROVE InPlace
  BY BasicInit, IInvParts
<1>1. 0 \in Ptr /\ 0 \in Slot /\ SlotOf(0) \in Slot /\ 0 \in 0 .. Size - 1
  BY PtrModFacts, SlotOfInSlot, SizeAssumption DEF Ptr, Slot
<1>2. Count(0, 0) = 0
  BY <1>1, CountZero DEF IsEmpty
<1>3. SlotOf(0) = 0
  BY PtrModFacts DEF SlotOf
<1>4. mem[0][0] = Hdr
  BY <1>1 DEF Init
<1>5. Layout(mem, wptr, rptr, wpos, rcvd)
  <2>1. HoldsTail(mem[SlotOf(wptr)], wpos, rcvd)
    BY <1>3, <1>4 DEF Init, HoldsTail, Hdr
  <2>2. Count(wptr, rptr) = 0 /\ Count(wptr, rptr) < Num
    BY <1>2, PtrModFacts DEF Init
  <2>3. 0 .. Count(wptr, rptr) - 1 = {}
    BY <2>2
  <2> QED BY <2>1, <2>2, <2>3 DEF Layout
<1>6. First(0) = 1
  BY <1>2 DEF Init, First, FirstOf, Hdr
<1>7. Consumed
  <2>1. out = << >> /\ Len(out) = 0 /\ pc = "idle"
    BY DEF Init
  <2>2. << >> = [k \in 1 .. 0 |-> k]
    OBVIOUS
  <2> QED BY <2>1, <2>2, <1>6 DEF Consumed
<1> QED BY <1>5, <1>7, SizeAssumption DEF InPlace, Init, Hdr

(* A change of the memory, of wptr or of wpos that leaves entry 0 and, if  *)
(* it is closed, entry 1 beginning where they did, leaves Consumed alone.  *)
LEMMA ConsumedKept ==
  ASSUME Basic, Consumed, out' = out, pc' = pc \/ (pc = "idle" /\ pc' = "get"),
         fp' = fp, flen' = flen,
         First(0)' = First(0), ~IsEmpty(wptr, rptr) => First(1)' = First(1),
         ~IsEmpty(wptr, rptr) => mem'[SlotOf(rptr)][0] = mem[SlotOf(rptr)][0]
  PROVE  Consumed'
<1>1. CASE pc = "pop"
  <2>1. ~IsEmpty(wptr, rptr) /\ pc' = "pop"
    BY <1>1 DEF Basic, AtHead
  <2> QED BY <1>1, <2>1 DEF Consumed
<1>2. CASE pc = "recv"
  <2>1. ~IsEmpty(wptr, rptr) /\ fp = SlotOf(rptr) /\ pc' = "recv"
    BY <1>2 DEF Basic, AtHead
  <2> QED BY <1>2, <2>1 DEF Consumed
<1>3. CASE pc \notin {"pop", "recv"}
  <2>1. pc' \notin {"pop", "recv"}
    BY <1>3
  <2> QED BY <1>3, <2>1 DEF Consumed
<1> QED BY <1>1, <1>2, <1>3

(* Bounds on the number of entries, in the form the steps need. *)
LEMMA EntriesInPlace ==
  ASSUME Basic, InPlace
  PROVE  /\ Count(wptr, rptr) \in Nat
         /\ Count(wptr, rptr) < Num
         /\ 0 \in 0 .. Count(wptr, rptr)
         /\ ~IsEmpty(wptr, rptr) => /\ 1 \in 0 .. Count(wptr, rptr)
                                    /\ 0 \in 0 .. Count(wptr, rptr) - 1
                                    /\ SlotOf(rptr) \in Slot
                                    /\ SlotOf(rptr) # OpenSlot
<1>1. wptr \in Ptr /\ rptr \in Ptr
  BY DEF Basic, TypeOK
<1>2. Count(wptr, rptr) \in Nat /\ Count(wptr, rptr) < Num
  BY <1>1, CountCases DEF InPlace, Layout
<1>3. ASSUME ~IsEmpty(wptr, rptr)
      PROVE  /\ 1 \in 0 .. Count(wptr, rptr)
             /\ 0 \in 0 .. Count(wptr, rptr) - 1
             /\ SlotOf(rptr) \in Slot
             /\ SlotOf(rptr) # OpenSlot
  <2>1. Count(wptr, rptr) > 0
    BY <1>1, <1>2, <1>3, CountZero
  <2>2. EntrySlot(rptr, 0) \in Slot /\ EntrySlot(rptr, 0) # SlotOf(wptr)
    BY <1>1, <1>2, <2>1, OpenIsApart
  <2> QED BY <1>1, <1>2, <2>1, <2>2, EntryHead DEF OpenSlot
<1> QED BY <1>2, <1>3

(* A byte from the line, whether it leaves the open slot open or fills it. *)
LEMMA RxIrqInPlace ==
  ASSUME Basic, InPlace, RxIrq, ~wasFull'
  PROVE  InPlace'
<1> DEFINE m   == Store(mem, OpenSlot, wpos, rcvd + 1)
           len == (m[OpenSlot][0] + 1) % LenMod
           m2  == [m EXCEPT ![OpenSlot][0] = len]
<1>1. /\ mem \in Mem /\ wptr \in Ptr /\ rptr \in Ptr
      /\ rcvd \in Nat /\ wpos \in Hdr .. Size - 1
      /\ OpenSlot \in Slot
  <2>1. mem \in Mem /\ wptr \in Ptr /\ rptr \in Ptr /\ rcvd \in Nat
    BY DEF Basic, TypeOK, Mem
  <2>2. wpos \in Hdr .. Size - 1
    BY SizeAssumption DEF Basic, TypeOK, TailArmed, InPlace, Hdr
  <2>3. OpenSlot \in Slot
    BY <2>1, SlotOfInSlot, PtrModFacts DEF OpenSlot, Ptr
  <2> QED BY <2>1, <2>2, <2>3
<1>2. Layout(mem, wptr, rptr, wpos, rcvd)
  BY DEF InPlace
<1>3. wpos \in 0 .. Size - 1 /\ wpos # 0 /\ 0 \in 0 .. Size - 1
  BY <1>1, SizeAssumption DEF Hdr
<1>4. /\ m \in Mem
      /\ \A t \in Slot \ {OpenSlot} : m[t] = mem[t]
      /\ \A o \in 0 .. Size - 1 :
           m[OpenSlot][o] = IF o = wpos THEN rcvd + 1 ELSE mem[OpenSlot][o]
  <2>1. wpos \in Nat /\ wpos < Size /\ rcvd + 1 \in Nat
    BY <1>1, <1>3, SizeAssumption
  <2> QED BY <1>1, <2>1, StoreFacts
<1>5. len = wpos + 1
  <2>1. m[OpenSlot][0] = wpos
    BY <1>1, <1>2, <1>3, <1>4 DEF Mem, Layout, HoldsTail, OpenSlot
  <2>2. wpos + 1 \in 0 .. LenMod - 1
    BY <1>3, SizeAssumption
  <2>3. (wpos + 1) % LenMod = wpos + 1
    BY <2>2, SizeAssumption
  <2> QED BY <2>1, <2>3
<1> HIDE DEF m, len
<1>6. m2 = [m EXCEPT ![OpenSlot][0] = wpos + 1]
  BY <1>5
<1> HIDE DEF m2
<1>7. /\ m2 \in Mem
      /\ \A s \in Slot \ {OpenSlot} : m2[s] = mem[s]
      /\ m2[OpenSlot][0] = wpos + 1
      /\ m2[OpenSlot][wpos] = rcvd + 1
      /\ \A o \in Hdr .. wpos - 1 : m2[OpenSlot][o] = mem[OpenSlot][o]
  <2>1. wpos + 1 \in Nat /\ rcvd + 1 \in Nat
    BY <1>1, <1>3
  <2>2. m2 \in Mem
    BY <1>1, <1>3, <1>4, <1>6, <2>1 DEF Mem
  <2>3. \A s \in Slot \ {OpenSlot} : m2[s] = mem[s]
    BY <1>1, <1>4, <1>6 DEF Mem
  <2>4. \A o \in 0 .. Size - 1 : m2[OpenSlot][o] =
          IF o = 0 THEN wpos + 1 ELSE IF o = wpos THEN rcvd + 1 ELSE mem[OpenSlot][o]
    BY <1>1, <1>3, <1>4, <1>6 DEF Mem
  <2>5. Hdr .. wpos - 1 \subseteq 1 .. Size - 1 /\ wpos \notin Hdr .. wpos - 1
    BY <1>1, SizeAssumption DEF Hdr
  <2> QED BY <1>3, <2>2, <2>3, <2>4, <2>5
<1>8. /\ Layout(m2, wptr, rptr, wpos + 1, rcvd + 1)
      /\ \A i \in 0 .. Count(wptr, rptr) :
           FirstOf(m2, wptr, rptr, wpos + 1, rcvd + 1, i)
             = FirstOf(mem, wptr, rptr, wpos, rcvd, i)
  BY <1>1, <1>2, <1>7, LayoutStore DEF OpenSlot
<1>9. /\ rcvd' = rcvd + 1
      /\ UNCHANGED <<rptr, pc, fp, flen, out>>
      /\ \/ /\ wpos + 1 < Size
            /\ mem' = m2
            /\ wpos' = wpos + 1
            /\ UNCHANGED <<wptr, wasFull>>
         \/ /\ wpos + 1 >= Size
            /\ HandOver(m2)
  BY <1>5 DEF RxIrq, loopVars, m, len, m2
<1>10. /\ 0 \in 0 .. Count(wptr, rptr)
       /\ ~IsEmpty(wptr, rptr) => /\ 1 \in 0 .. Count(wptr, rptr)
                                  /\ SlotOf(rptr) \in Slot \ {OpenSlot}
  BY EntriesInPlace
<1>11. /\ wpos' < Size
       /\ Layout(mem', wptr', rptr', wpos', rcvd')
       /\ \A i \in 0 .. Count(wptr, rptr) : First(i)' = First(i)
       /\ ~IsEmpty(wptr, rptr) => mem'[SlotOf(rptr)] = mem[SlotOf(rptr)]
  <2>1. CASE wpos + 1 < Size /\ mem' = m2 /\ wpos' = wpos + 1 /\ UNCHANGED <<wptr, wasFull>>
    <3>1. \A i \in 0 .. Count(wptr, rptr) : First(i)' = First(i)
      BY <1>8, <1>9, <2>1 DEF First
    <3>2. Layout(mem', wptr', rptr', wpos', rcvd')
      BY <1>8, <1>9, <2>1
    <3>3. ~IsEmpty(wptr, rptr) => mem'[SlotOf(rptr)] = mem[SlotOf(rptr)]
      BY <2>1, <1>7, <1>10
    <3> QED BY <2>1, <3>1, <3>2, <3>3
  <2>2. CASE wpos + 1 >= Size /\ HandOver(m2)
    <3>1. wpos + 1 \in Hdr + 1 .. Size /\ rcvd + 1 \in Nat
      BY <1>1, SizeAssumption DEF Hdr
    <3>2. /\ wpos' = Hdr
          /\ Layout(mem', wptr', rptr', wpos', rcvd + 1)
          /\ \A i \in 0 .. Count(wptr, rptr) :
               FirstOf(mem', wptr', rptr', wpos', rcvd + 1, i)
                 = FirstOf(m2, wptr, rptr, wpos + 1, rcvd + 1, i)
          /\ ~IsEmpty(wptr, rptr) => mem'[SlotOf(rptr)] = m2[SlotOf(rptr)]
      BY <1>7, <1>8, <1>9, <2>2, <3>1, HandOverLayout
    <3>3. \A i \in 0 .. Count(wptr, rptr) : First(i)' = First(i)
      BY <1>8, <1>9, <3>2 DEF First
    <3>4. ~IsEmpty(wptr, rptr) => mem'[SlotOf(rptr)] = mem[SlotOf(rptr)]
      BY <3>2, <1>7, <1>10
    <3> QED BY <1>9, <3>2, <3>3, <3>4, SizeAssumption DEF Hdr
  <2> QED BY <1>9, <2>1, <2>2
<1>12. Consumed'
  <2>1. Consumed
    BY DEF InPlace
  <2>2. First(0)' = First(0) /\ (~IsEmpty(wptr, rptr) => First(1)' = First(1))
    BY <1>10, <1>11
  <2> QED BY <1>9, <1>11, <2>1, <2>2, ConsumedKept
<1> QED BY <1>11, <1>12 DEF InPlace

(* The main loop closing the open slot after a pause. *)
LEMMA ProcIdleInPlace ==
  ASSUME Basic, InPlace, ProcIdle, ~wasFull'
  PROVE  InPlace'
<1>1. pc = "idle" /\ pc' = "get" /\ UNCHANGED <<rptr, fp, flen, out, rcvd>>
  BY DEF ProcIdle
<1>2. CASE tick = "expired" /\ HandOver(mem)
  <2>1. mem \in Mem /\ rcvd \in Nat /\ wpos \in Hdr + 1 .. Size
    BY <1>2, SizeAssumption DEF Basic, TypeOK, TailArmed, InPlace, Mem, Hdr
  <2>2. Layout(mem, wptr, rptr, wpos, rcvd)
    BY DEF InPlace
  <2>3. /\ wpos' = Hdr
        /\ Layout(mem', wptr', rptr', wpos', rcvd)
        /\ \A i \in 0 .. Count(wptr, rptr) :
             FirstOf(mem', wptr', rptr', wpos', rcvd, i)
               = FirstOf(mem, wptr, rptr, wpos, rcvd, i)
        /\ ~IsEmpty(wptr, rptr) => mem'[SlotOf(rptr)] = mem[SlotOf(rptr)]
    BY <1>1, <1>2, <2>1, <2>2, HandOverLayout
  <2>4. First(0)' = First(0) /\ (~IsEmpty(wptr, rptr) => First(1)' = First(1))
    BY <1>1, <2>3, EntriesInPlace DEF First
  <2>5. Consumed'
    <3>1. Consumed
      BY DEF InPlace
    <3> QED BY <1>1, <2>3, <2>4, <3>1, ConsumedKept
  <2> QED BY <1>1, <2>3, <2>5, SizeAssumption DEF InPlace, Hdr
<1>3. CASE UNCHANGED <<mem, wptr, wpos, tick, wasFull>>
  BY <1>1, <1>3 DEF InPlace, Consumed, First
<1> QED BY <1>2, <1>3 DEF ProcIdle

(* The handler takes the head: its run is the continuation of what has     *)
(* been consumed.                                                          *)
LEMMA ProcAcceptInPlace ==
  ASSUME Basic, InPlace, ProcAccept
  PROVE  InPlace'
<1>1. /\ pc = "recv" /\ pc' = "pop"
      /\ out' = out \o [k \in 1 .. flen |-> Cell(fp, k + Hdr - 1)]
      /\ UNCHANGED <<mem, wptr, wpos, tick, rcvd, wasFull, rptr, fp, flen>>
  BY DEF ProcAccept, irqVars
<1>2. fp = SlotOf(rptr) /\ fp \in Slot /\ ~IsEmpty(wptr, rptr)
  BY <1>1 DEF Basic, AtHead, TypeOK
<1>3. /\ out = [k \in 1 .. Len(out) |-> k]
      /\ Len(out) + 1 = First(0)
      /\ flen = mem[fp][0] - Hdr
  BY <1>1 DEF InPlace, Consumed
<1>4. 0 \in 0 .. Count(wptr, rptr) - 1 /\ EntrySlot(rptr, 0) = fp
  BY <1>2, EntriesInPlace, EntryHead DEF Basic, TypeOK
<1>5. HoldsRun(mem[fp]) /\ First(1) = First(0) + mem[fp][0] - Hdr
  <2>1. /\ HoldsRun(mem[EntrySlot(rptr, 0)])
        /\ FirstOf(mem, wptr, rptr, wpos, rcvd, 0 + 1) =
             FirstOf(mem, wptr, rptr, wpos, rcvd, 0) + mem[EntrySlot(rptr, 0)][0] - Hdr
    BY <1>4 DEF InPlace, Layout
  <2> QED BY <1>4, <2>1 DEF First
<1>6. First(0) = mem[fp][Hdr]
  <2>1. Count(wptr, rptr) # 0
    BY <1>4, EntriesInPlace
  <2> QED BY <1>4, <2>1 DEF First, FirstOf
<1>7. flen \in Nat /\ flen + Hdr - 1 <= Size - 1 /\ mem[fp][0] = flen + Hdr
  <2>1. mem[fp][0] \in Hdr + 1 .. Size
    BY <1>5 DEF HoldsRun
  <2> HIDE DEF Basic, InPlace
  <2>2. Hdr \in Nat /\ Size \in Nat
    BY SizeAssumption DEF Hdr
  <2> QED BY <1>3, <2>1, <2>2
<1>8. Len(out) \in Nat /\ out \in Seq(Nat)
  BY DEF Basic, TypeOK
<1>9. \A k \in 1 .. flen : Cell(fp, k + Hdr - 1) = Len(out) + k
  <2> TAKE k \in 1 .. flen
  <2>1. k + Hdr - 1 \in 0 .. Size - 1 /\ k + Hdr - 1 \in Hdr .. mem[fp][0] - 1
    BY <1>7, SizeAssumption DEF Hdr
  <2>2. Cell(fp, k + Hdr - 1) = mem[fp][k + Hdr - 1]
    BY <1>2, <2>1, CellInside
  <2>3. mem[fp][k + Hdr - 1] = mem[fp][Hdr] + ((k + Hdr - 1) - Hdr)
    BY <1>5, <2>1 DEF HoldsRun
  <2>4. mem[fp][Hdr] = Len(out) + 1
    BY <1>3, <1>6
  <2>5. k \in Nat /\ (k + Hdr - 1) - Hdr = k - 1
    BY <1>7 DEF Hdr
  <2> HIDE DEF Basic, InPlace
  <2> QED BY <1>8, <2>2, <2>3, <2>4, <2>5
<1>10. [k \in 1 .. flen |-> Cell(fp, k + Hdr - 1)] = [k \in 1 .. flen |-> Len(out) + k]
  BY <1>9
<1> DEFINE more == [k \in 1 .. flen |-> Len(out) + k]
<1>11. more \in Seq(Nat) /\ Len(more) = flen
  BY <1>7, <1>8
<1>12. out' = out \o more
  BY <1>1, <1>10
<1>13. Len(out') = Len(out) + flen
  <2> HIDE DEF more
  <2>1. Len(out \o more) = Len(out) + Len(more)
    BY <1>8, <1>11, SMTT(30)
  <2> QED BY <1>11, <1>12, <2>1
<1>14. out' = [k \in 1 .. Len(out') |-> k]
  <2>1. \A k \in 1 .. Len(out) + flen : (out \o more)[k] = k
    <3> TAKE k \in 1 .. Len(out) + flen
    <3>1. CASE k <= Len(out)
      <4>1. (out \o more)[k] = out[k]
        BY <1>7, <1>8, <1>11, <3>1
      <4> QED BY <1>3, <1>8, <3>1, <4>1
    <3>2. CASE k > Len(out)
      <4>1. (out \o more)[k] = more[k - Len(out)]
        BY <1>7, <1>8, <1>11, <3>2
      <4>2. k - Len(out) \in 1 .. flen
        BY <1>7, <1>8, <3>2
      <4>3. more[k - Len(out)] = Len(out) + (k - Len(out))
        BY <4>2
      <4> QED BY <1>7, <1>8, <4>1, <4>3
    <3> QED BY <1>7, <1>8, <3>1, <3>2
  <2>2. out \o more = [k \in 1 .. Len(out) + flen |-> (out \o more)[k]]
    BY <1>7, <1>8, <1>11
  <2> QED BY <1>12, <1>13, <2>1, <2>2
<1>15. Len(out') + 1 = First(1)'
  <2>1. First(1)' = First(1)
    BY <1>1 DEF First
  <2>2. First(1) = First(0) + (flen + Hdr) - Hdr
    BY <1>5, <1>7
  <2>3. First(0) = Len(out) + 1
    BY <1>3
  <2>4. First(1) = Len(out) + 1 + flen
    BY <1>7, <1>8, <2>2, <2>3 DEF Hdr
  <2>5. Len(out') + 1 = Len(out) + 1 + flen
    BY <1>7, <1>8, <1>13
  <2> QED BY <2>1, <2>4, <2>5
<1>16. Consumed'
  BY <1>1, <1>14, <1>15 DEF Consumed
<1> QED BY <1>1, <1>16 DEF InPlace

(* Popping the head. *)
LEMMA ProcPopInPlace ==
  ASSUME Basic, InPlace, ProcPop
  PROVE  InPlace'
<1>1. /\ pc = "pop" /\ pc' = "idle" /\ rptr' = Bump(rptr)
      /\ UNCHANGED <<mem, wptr, wpos, tick, rcvd, wasFull, fp, flen, out>>
  BY DEF ProcPop, irqVars
<1>2. ~IsEmpty(wptr, rptr)
  BY <1>1 DEF Basic, AtHead
<1>3. /\ Layout(mem, wptr, Bump(rptr), wpos, rcvd)
      /\ FirstOf(mem, wptr, Bump(rptr), wpos, rcvd, 0) = First(1)
  BY <1>2, LayoutRelease DEF Basic, TypeOK, InPlace, Mem, First
<1>4. Consumed'
  BY <1>1, <1>3 DEF InPlace, Consumed, First
<1> QED BY <1>1, <1>3, <1>4 DEF InPlace

(* Reading the length of the head. *)
LEMMA ProcLenInPlace ==
  ASSUME Basic, InPlace, ProcLen
  PROVE  InPlace'
<1>1. /\ pc = "len" /\ pc' = "recv" /\ flen' = (mem[fp][0] - Hdr) % LenMod
      /\ UNCHANGED <<mem, wptr, wpos, tick, rcvd, wasFull, rptr, fp, out>>
  BY DEF ProcLen, irqVars
<1>2. fp = SlotOf(rptr) /\ ~IsEmpty(wptr, rptr)
  BY <1>1 DEF Basic, AtHead
<1>3. EntrySlot(rptr, 0) = fp /\ 0 \in 0 .. Count(wptr, rptr) - 1
  BY <1>2, EntriesInPlace, EntryHead DEF Basic, TypeOK
<1>4. mem[fp][0] \in Hdr + 1 .. Size
  BY <1>3 DEF InPlace, Layout, HoldsRun
<1>5. flen' = mem[fp][0] - Hdr
  <2>1. mem[fp][0] - Hdr \in 0 .. LenMod - 1
    BY <1>4, SizeAssumption DEF Hdr
  <2>2. (mem[fp][0] - Hdr) % LenMod = mem[fp][0] - Hdr
    BY <2>1, SizeAssumption
  <2> QED BY <1>1, <2>2
<1>6. First(0)' = First(0)
  BY <1>1 DEF First
<1> QED BY <1>1, <1>5, <1>6 DEF InPlace, Consumed

LEMMA IInvStep == IInv /\ [Next]_vars => IInv'
<1> SUFFICES ASSUME IInv, [Next]_vars, ~wasFull'
             PROVE  InPlace'
  <2>1. IInv /\ [Next]_vars => Basic'
    BY BasicStep, IInvParts
  <2>2. IInv' <=> Basic' /\ (~wasFull' => InPlace')
    BY DEF IInv, Basic, InPlace
  <2> QED BY <2>1, <2>2
<1>1. Basic
  BY IInvParts
<1>2. ~wasFull
  <2>1. wasFull \in BOOLEAN
    BY <1>1 DEF Basic, TypeOK
  <2> QED BY <2>1 DEF Next, MainLoop, RxIrq, IdleElapse, ProcIdle, ProcGet, ProcLen,
             ProcAccept, ProcRefuse, ProcPop, HandOver, irqVars, loopVars, vars
<1>3. InPlace
  BY <1>2, IInvParts
<1>4. CASE RxIrq
  BY <1>1, <1>3, <1>4, RxIrqInPlace
<1>5. CASE IdleElapse
  BY <1>3, <1>5 DEF IdleElapse, loopVars, InPlace, Consumed, First
<1>6. CASE ProcIdle
  BY <1>1, <1>3, <1>6, ProcIdleInPlace
<1>7. CASE ProcGet
  <2>1. pc = "get" /\ pc' \in {"idle", "len"}
    BY <1>7 DEF ProcGet
  <2>2. UNCHANGED <<mem, wptr, wpos, rcvd, rptr, flen, out>>
    BY <1>7 DEF ProcGet, irqVars
  <2> QED BY <1>3, <2>1, <2>2 DEF InPlace, Consumed, First
<1>8. CASE ProcLen
  BY <1>1, <1>3, <1>8, ProcLenInPlace
<1>9. CASE ProcAccept
  BY <1>1, <1>3, <1>9, ProcAcceptInPlace
<1>10. CASE ProcRefuse
  BY <1>3, <1>10 DEF ProcRefuse, irqVars, InPlace, Consumed, First
<1>11. CASE ProcPop
  BY <1>1, <1>3, <1>11, ProcPopInPlace
<1>12. CASE UNCHANGED vars
  BY <1>3, <1>12 DEF vars, irqVars, loopVars, InPlace, Consumed, First
<1> QED BY <1>4, <1>5, <1>6, <1>7, <1>8, <1>9, <1>10, <1>11, <1>12 DEF Next, MainLoop

(* The invariant that explains PrefixDelivered: the entries of the fifo    *)
(* and its open slot hold one run of bytes, which continues what the       *)
(* handler has consumed.                                                   *)
THEOREM Invariant == Spec => []IInv
BY IInvInit, IInvStep, PTL DEF Spec

(* Nothing is lost, repeated, reordered or invented before the fifo has    *)
(* been full: in-order, exactly-once delivery of ys_uart_process.          *)
THEOREM DeliveredInOrder == Spec => []PrefixDelivered
<1>1. IInv => PrefixDelivered
  BY DEF IInv, Consumed, PrefixDelivered
<1> QED BY <1>1, Invariant, PTL

-----------------------------------------------------------------------------
(* A byte of a closed slot has arrived, so what the handler takes is there *)
(* to be taken.                                                            *)
LEMMA AcceptedArrived ==
  ASSUME Basic, InPlace, ProcAccept
  PROVE  /\ flen \in 1 .. rcvd - Len(out)
         /\ out' = [k \in 1 .. Len(out) + flen |-> k]
<1>1. /\ pc = "recv" /\ pc' = "pop"
      /\ out' = out \o [k \in 1 .. flen |-> Cell(fp, k + Hdr - 1)]
      /\ UNCHANGED <<mem, wptr, wpos, rcvd, rptr, fp, flen>>
  BY DEF ProcAccept, irqVars
<1>2. fp = SlotOf(rptr) /\ fp \in Slot /\ ~IsEmpty(wptr, rptr)
  BY <1>1 DEF Basic, AtHead, TypeOK
<1>3. Len(out) + 1 = First(0) /\ flen = mem[fp][0] - Hdr
  BY <1>1 DEF InPlace, Consumed
<1>4. 0 \in 0 .. Count(wptr, rptr) - 1 /\ EntrySlot(rptr, 0) = fp
  BY <1>2, EntriesInPlace, EntryHead DEF Basic, TypeOK
<1>5. /\ mem[fp][0] \in Hdr + 1 .. Size
      /\ First(1) = First(0) + mem[fp][0] - Hdr
      /\ First(1) \in 0 .. rcvd + 1
  <2>1. /\ HoldsRun(mem[EntrySlot(rptr, 0)])
        /\ FirstOf(mem, wptr, rptr, wpos, rcvd, 0 + 1) =
             FirstOf(mem, wptr, rptr, wpos, rcvd, 0) + mem[EntrySlot(rptr, 0)][0] - Hdr
        /\ FirstOf(mem, wptr, rptr, wpos, rcvd, 0 + 1) \in 0 .. rcvd + 1
    BY <1>4 DEF InPlace, Layout
  <2> QED BY <1>4, <2>1 DEF First, HoldsRun
<1>6. Len(out) \in Nat /\ out \in Seq(Nat) /\ rcvd \in Nat
  BY DEF Basic, TypeOK
<1>7. flen \in Nat /\ flen >= 1 /\ mem[fp][0] = flen + Hdr
  <2>1. mem[fp][0] \in 3 .. Size
    BY <1>5 DEF Hdr
  <2>2. flen = mem[fp][0] - 2
    BY <1>3 DEF Hdr
  <2> QED BY <2>1, <2>2, SizeAssumption DEF Hdr
<1>8. First(1) = Len(out) + 1 + flen
  BY <1>3, <1>5, <1>6, <1>7 DEF Hdr
<1>9. flen \in 1 .. rcvd - Len(out)
  BY <1>5, <1>6, <1>7, <1>8
<1>10. InPlace'
  BY ProcAcceptInPlace
<1>11. out' = [k \in 1 .. Len(out') |-> k] /\ Len(out') + 1 = First(1)'
  BY <1>1, <1>10 DEF InPlace, Consumed
<1>12. First(1)' = First(1)
  BY <1>1 DEF First
<1>13. Len(out') = Len(out) + flen
  <2>1. Len(out') \in Nat
    BY BasicStep, [Next]_vars DEF Basic, TypeOK, Next, MainLoop
  <2>2. Len(out') + 1 = Len(out) + 1 + flen
    BY <1>8, <1>11, <1>12
  <2> QED BY <1>6, <1>7, <2>1, <2>2
<1> QED BY <1>9, <1>11, <1>13

(* Every step of the receiver is a step of the byte pipe, or invisible     *)
(* there.                                                                  *)
LEMMA PipeStep == IInv /\ [Next]_vars => [Pipe!Next]_(Pipe!pipeVars)
<1> SUFFICES ASSUME IInv, [Next]_vars
             PROVE  [Pipe!Next]_(Pipe!pipeVars)
  OBVIOUS
<1> USE DEF Pipe!Next, Pipe!pipeVars
<1>1. Basic /\ wasFull \in BOOLEAN /\ (~wasFull => InPlace)
  BY IInvParts DEF Basic, TypeOK
<1>2. ASSUME NEW m, HandOver(m)
      PROVE  wasFull' \in {wasFull, TRUE}
  BY <1>1, <1>2 DEF HandOver
<1>3. CASE RxIrq
  <2>1. wasFull' \in {wasFull, TRUE}
    BY <1>2, <1>3 DEF RxIrq
  <2> QED BY <1>3, <2>1 DEF RxIrq, loopVars, Pipe!Enter
<1>4. CASE IdleElapse
  BY <1>4 DEF IdleElapse, loopVars
<1>5. CASE ProcIdle
  <2>1. wasFull' \in {wasFull, TRUE}
    BY <1>2, <1>5 DEF ProcIdle
  <2> QED BY <1>5, <2>1 DEF ProcIdle, Pipe!Break
<1>6. CASE ProcGet
  BY <1>6 DEF ProcGet, irqVars
<1>7. CASE ProcLen
  BY <1>7 DEF ProcLen, irqVars
<1>8. CASE ProcAccept
  <2>1. UNCHANGED <<rcvd, wasFull>>
    BY <1>8 DEF ProcAccept, irqVars
  <2>2. CASE wasFull
    BY <2>1, <2>2 DEF Pipe!Broken
  <2>3. CASE ~wasFull
    BY <1>1, <1>8, <2>1, <2>3, AcceptedArrived DEF Pipe!Deliver, Pipe!Leave
  <2> QED BY <2>2, <2>3
<1>9. CASE ProcRefuse
  BY <1>9 DEF ProcRefuse, irqVars
<1>10. CASE ProcPop
  BY <1>10 DEF ProcPop, irqVars
<1>11. CASE UNCHANGED vars
  BY <1>11 DEF vars, irqVars, loopVars
<1> QED BY <1>3, <1>4, <1>5, <1>6, <1>7, <1>8, <1>9, <1>10, <1>11 DEF Next, MainLoop

(* The receiver implements the byte pipe (without its promise to deliver,  *)
(* which needs fairness): ys_uart_irq_handler and ys_uart_process together *)
(* are a pipe from the line to the handler that can only break by filling. *)
THEOREM PipeImplemented == Spec => Pipe!Spec
<1>1. Init => Pipe!Init
  BY DEF Init, Pipe!Init
<1> QED BY <1>1, PipeStep, Invariant, PTL DEF Spec, Pipe!Spec

-----------------------------------------------------------------------------

LEMMA TxInitHolds == TxInit => TxIInv
<1> SUFFICES ASSUME TxInit PROVE TxIInv
  OBVIOUS
<1>1. 0 \in Ptr /\ 0 \in Slot
  BY PtrModFacts DEF Ptr, Slot
<1>2. Count(0, 0) = 0
  BY <1>1, CountZero DEF IsEmpty
<1>3. << >> \in Seq(Nat) /\ << >> \in Seq(Nat \X {1, 2})
  OBVIOUS
<1>4. TxTypeOK
  BY <1>1, <1>2, <1>3, PtrModFacts DEF TxInit, TxTypeOK
<1>5. Handshake
  BY BaudsAssumption DEF TxInit, Handshake
<1> QED
  BY <1>4, <1>5 DEF TxInit, TxIInv, SlotHeld

-----------------------------------------------------------------------------
(* Each step keeps the types and the bound on the counters, and a slot the *)
(* main loop works on stays in the fifo.                                   *)
LEMMA TypesStep ==
  ASSUME TxIInv, [TxNext]_txVars
  PROVE  TxTypeOK' /\ SlotHeld'
<1> USE DEF TxIInv, TxTypeOK
<1>1. CASE SendAccept
  <2>1. Count(txWptr, txRptr) \in Nat /\ Count(txWptr, txRptr) < Num
    BY <1>1, CountCases DEF SendAccept, HasRoom
  <2>2. txWptr' \in Ptr /\ Count(txWptr', txRptr') = Count(txWptr, txRptr) + 1
    BY <1>1, <2>1, BumpCases, CountHandedOver, PtrModFacts DEF SendAccept
  <2>3. offered' \in Nat /\ accepted' \in Seq(Nat)
    BY <1>1 DEF SendAccept
  <2>4. txmem' \in [Slot -> Nat]
    BY <1>1, <2>3 DEF SendAccept
  <2>5. mishaps' \subseteq {"overwritten", "restarted", "aborted"}
    BY <1>1 DEF SendAccept
  <2>6. Count(txWptr', txRptr') <= Num
    BY <2>1, <2>2, PtrModFacts
  <2> QED
    BY <1>1, <2>2, <2>3, <2>4, <2>5, <2>6 DEF SendAccept, SlotHeld, hwVars, baudVars
<1>2. CASE SendReject
  BY <1>2 DEF SendReject, SlotHeld, hwVars, baudVars
<1>3. CASE \E b \in Bauds : SetBaud(b)
  BY <1>3 DEF SetBaud, SlotHeld, txFifoVars
<1>4. CASE TxGet
  <2>1. SlotOf(txRptr) \in Slot
    BY SlotOfInSlot DEF Ptr
  <2> QED
    BY <1>4, <2>1 DEF TxGet, SlotHeld, txFifoVars, hwVars, baudVars, IsEmpty
<1>5. CASE TxCheck
  <2>1. busy' \in BOOLEAN
    BY <1>5 DEF TxCheck, StillBusy
  <2>2. delay' \in {"off", "armed", "expired"} /\ txPc' \in {"idle", "flag"}
    BY <1>5 DEF TxCheck
  <2> QED
    BY <1>5, <2>1, <2>2 DEF TxCheck, SlotHeld, txFifoVars, hwVars, baudVars, IsEmpty
<1>6. CASE TxFlag \/ TxArm
  BY <1>6 DEF TxFlag, TxArm, SlotHeld, txFifoVars, hwVars, baudVars, IsEmpty
<1>7. CASE TxStart
  BY <1>7 DEF TxStart, SlotHeld, txFifoVars, baudVars, IsEmpty
<1>8. CASE TxPop
  <2>1. ~IsEmpty(txWptr, txRptr)
    BY <1>8 DEF TxPop, SlotHeld
  <2>2. txRptr' \in Ptr /\ Count(txWptr', txRptr') = Count(txWptr, txRptr) - 1
    BY <1>8, <2>1, BumpCases, CountReleased DEF TxPop, txFifoVars
  <2>3. Count(txWptr', txRptr') <= Num
    BY <2>2, CountCases, PtrModFacts
  <2> QED
    BY <1>8, <2>2, <2>3 DEF TxPop, SlotHeld, txFifoVars, hwVars, baudVars
<1>9. CASE DmaFirst
  <2>1. wire' \in Seq(Nat \X {1, 2})
    BY <1>9 DEF DmaFirst
  <2> QED
    BY <1>9, <2>1 DEF DmaFirst, SlotHeld, txFifoVars, baudVars, IsEmpty
<1>10. CASE TxDoneIrq
  <2>1. wire' \in Seq(Nat \X {1, 2})
    BY <1>10 DEF TxDoneIrq
  <2> QED
    BY <1>10, <2>1 DEF TxDoneIrq, SlotHeld, txFifoVars, baudVars, IsEmpty
<1>11. CASE TimeoutElapse
  BY <1>11 DEF TimeoutElapse, SlotHeld, txFifoVars, hwVars, baudVars, IsEmpty
<1>12. CASE UNCHANGED txVars
  BY <1>12 DEF txVars, SlotHeld, txFifoVars, hwVars, baudVars, IsEmpty
<1> QED
  BY <1>1, <1>2, <1>3, <1>4, <1>5, <1>6, <1>7, <1>8, <1>9, <1>10, <1>11, <1>12
  DEF TxNext, TxMainLoop

-----------------------------------------------------------------------------
(* A speed at or above that of the boot keeps the handshake: only a slower *)
(* one, which wasSlow remembers, lets the timeout overtake a transfer.     *)
LEMMA HandshakeStep ==
  ASSUME TxTypeOK, ~wasSlow => Handshake, [TxNext]_txVars, ~wasSlow'
  PROVE  Handshake'
<1>0. /\ baud \in Nat /\ bootBaud \in Nat /\ busy \in BOOLEAN
      /\ wasSlow \in BOOLEAN
  BY BaudsAssumption DEF TxTypeOK
<1>1. CASE \E b \in Bauds : SetBaud(b)
  <2>1. PICK b \in Bauds : SetBaud(b)
    BY <1>1
  <2>2. ~wasSlow /\ ~(b < bootBaud)
    BY <2>1, Zenon DEF SetBaud
  <2>3. Handshake /\ b \in Nat
    BY <2>2, BaudsAssumption
  <2>4. /\ txPc' = "idle" /\ baud' = b /\ bootBaud' = bootBaud
        /\ busy' = busy /\ delay' = delay
        /\ dma' = "idle" \/ dma' = dma
        /\ "restarted" \notin mishaps => "restarted" \notin mishaps'
    BY <2>1 DEF SetBaud
  <2> QED  BY <1>0, <2>2, <2>3, <2>4 DEF Handshake
<1>2. CASE TxCheck
  <2>1. Handshake /\ UNCHANGED <<baud, bootBaud, dma, mishaps>>
    BY <1>2 DEF TxCheck, baudVars, hwVars
  <2>2. CASE dma # "idle"
    <3>1. busy /\ delay = "armed" /\ StillBusy
      BY <2>1, <2>2 DEF Handshake, StillBusy
    <3>2. busy' /\ delay' = "armed" /\ txPc' = "idle"
      BY <1>2, <3>1 DEF TxCheck
    <3> QED  BY <2>1, <3>2 DEF Handshake
  <2>3. CASE dma = "idle"
    <3>1. txPc' \in {"idle", "flag"}
      BY <1>2 DEF TxCheck
    <3> QED  BY <2>1, <2>3, <3>1 DEF Handshake
  <2> QED  BY <2>2, <2>3
<1>3. CASE SendAccept \/ SendReject \/ TxGet
  BY <1>3 DEF SendAccept, SendReject, TxGet, Handshake, hwVars, baudVars
<1>4. CASE TxFlag \/ TxArm \/ TxStart \/ TxPop
  <2>1. CASE TxFlag
    BY <2>1 DEF TxFlag, Handshake, hwVars, baudVars
  <2>2. CASE TxArm
    BY <2>2 DEF TxArm, Handshake, hwVars, baudVars
  <2>3. CASE TxStart
    BY <2>3 DEF TxStart, Handshake, baudVars
  <2>4. CASE TxPop
    BY <2>4 DEF TxPop, Handshake, hwVars, baudVars
  <2> QED  BY <1>4, <2>1, <2>2, <2>3, <2>4
<1>5. CASE DmaFirst \/ TxDoneIrq
  BY <1>5 DEF DmaFirst, TxDoneIrq, Handshake, baudVars
<1>6. CASE TimeoutElapse
  BY <1>0, <1>6 DEF TimeoutElapse, Handshake, hwVars, baudVars
<1>7. CASE UNCHANGED txVars
  BY <1>7 DEF txVars, Handshake, hwVars, baudVars
<1> QED
  BY <1>1, <1>2, <1>3, <1>4, <1>5, <1>6, <1>7 DEF TxNext, TxMainLoop

-----------------------------------------------------------------------------
(* What WholeInOrder rests on: where every accepted message is while       *)
(* nothing has gone wrong.  The ring holds the last Count of them in       *)
(* order; the main loop has the head of the ring in its hands; the channel *)
(* is at the message after those on the wire, and at its second half when  *)
(* the wire ends in a first one.                                           *)
Entries == Count(txWptr, txRptr)

InRing ==
  \A i \in 0 .. Entries - 1 :
    txmem[EntrySlot(txRptr, i)] = accepted[Len(accepted) - Entries + i + 1]

InFlight == dma # "idle" => txmem[dslot] = accepted[OnWire + 1]

Halves == Len(wire) = 2 * OnWire + (IF dma = "second" THEN 1 ELSE 0)

Carried == \A i \in 1 .. Len(wire) : wire[i] = <<accepted[(i + 1) \div 2], 1 + ((i + 1) % 2)>>

Balance ==
  Len(accepted) = OnWire + Entries + (IF TxInFlight THEN 1 ELSE 0) - (IF txPc = "pop" THEN 1 ELSE 0)

HeadInHand == txPc # "idle" => txFp = SlotOf(txRptr)

Places == InRing /\ InFlight /\ Halves /\ Carried /\ Balance /\ HeadInHand

OrderInv == mishaps = {} => Places

LEMMA OrderInit == TxInit => OrderInv
<1> SUFFICES ASSUME TxInit PROVE Places
  BY DEF OrderInv
<1>1. 0 \in Ptr /\ Entries = 0
  BY PtrModFacts, CountZero DEF TxInit, Ptr, IsEmpty, Entries
<1>2. Len(wire) = 0 /\ OnWire = 0 /\ Len(accepted) = 0
  BY DEF TxInit, OnWire
<1> QED
  BY <1>1, <1>2
  DEF TxInit, Places, InRing, InFlight, Halves, Carried, Balance, HeadInHand, TxInFlight

LEMMA MishapsStay ==
  ASSUME TxIInv, [TxNext]_txVars, mishaps' = {}
  PROVE  mishaps = {}
BY DEF TxNext, TxMainLoop, SendAccept, SendReject, SetBaud, TxGet, TxCheck, TxFlag, TxArm, TxStart,
       TxPop, DmaFirst, TxDoneIrq, TimeoutElapse, txVars

(* The numbers a step of the sender works with *)
LEMMA Numbers ==
  ASSUME TxIInv, Places
  PROVE  /\ Entries \in 0 .. Num /\ Num < PtrMod /\ Num \in Nat
         /\ Len(wire) \in Nat /\ OnWire \in Nat /\ Len(accepted) \in Nat
         /\ txPc # "idle" => Entries > 0
         /\ OnWire + (IF TxInFlight THEN 1 ELSE 0) <= Len(accepted)
<1>1. Entries \in 0 .. Num /\ Num < PtrMod /\ Num \in Nat
  BY CountCases, PtrModFacts DEF TxIInv, TxTypeOK, Entries
<1>2. Len(wire) \in Nat /\ Len(accepted) \in Nat
  BY DEF TxIInv, TxTypeOK
<1>3. OnWire \in Nat
  BY <1>2 DEF OnWire
<1>4. txPc # "idle" => Entries > 0
  BY <1>1, CountZero DEF TxIInv, TxTypeOK, SlotHeld, Entries
<1>5. OnWire + (IF TxInFlight THEN 1 ELSE 0) <= Len(accepted)
  BY <1>1, <1>2, <1>3, <1>4 DEF Places, Balance
<1> QED
  BY <1>1, <1>2, <1>3, <1>4, <1>5

(* A message is accepted: it becomes the last entry of the ring, in a slot *)
(* that is neither another entry's nor the channel's.                      *)
LEMMA OrderSend ==
  ASSUME TxIInv, Places, SendAccept, mishaps' = {}
  PROVE  Places'
<1> DEFINE a == Len(accepted)
<1> DEFINE n == Entries
<1> HIDE DEF a, n
<1>0. /\ txWptr \in Ptr /\ txRptr \in Ptr /\ offered' \in Nat /\ accepted \in Seq(Nat)
      /\ txmem \in [Slot -> Nat] /\ dslot \in Slot /\ SlotOf(txWptr) \in Slot
  BY SlotOfInSlot DEF TxIInv, TxTypeOK, SendAccept, Ptr
<1>1. /\ n \in 0 .. Num - 1 /\ a \in Nat /\ OnWire \in Nat /\ Num < PtrMod /\ Num \in Nat
      /\ OnWire + (IF TxInFlight THEN 1 ELSE 0) <= a
  BY Numbers, CountCases DEF SendAccept, HasRoom, a, n, Entries
<1>2. /\ accepted' = Append(accepted, offered') /\ Len(accepted') = a + 1
      /\ \A k \in 1 .. a : accepted'[k] = accepted[k]
      /\ accepted'[a + 1] = offered'
  BY <1>0 DEF SendAccept, a
<1>3. Entries' = n + 1 /\ txRptr' = txRptr
  <2>1. Count(txWptr, txRptr) < PtrMod - 1
    BY <1>1, PtrModFacts DEF n, Entries
  <2> QED
    BY <2>1, <1>0, CountHandedOver DEF SendAccept, Entries, n
<1>4. UNCHANGED <<txPc, txFp, dma, dslot, wire>> /\ txPc = "idle"
  BY DEF SendAccept, hwVars
<1>5. /\ txmem'[SlotOf(txWptr)] = offered'
      /\ \A s \in Slot : s # SlotOf(txWptr) => txmem'[s] = txmem[s]
  BY <1>0 DEF SendAccept
<1>6. EntrySlot(txRptr, n) = SlotOf(txWptr)
  BY <1>0, EntryOpen DEF n, Entries
<1>7. InRing'
  <2> SUFFICES ASSUME NEW i \in 0 .. Entries' - 1
               PROVE  txmem'[EntrySlot(txRptr', i)] = accepted'[Len(accepted') - Entries' + i + 1]
    BY DEF InRing
  <2>0. /\ i \in 0 .. n /\ txRptr' = txRptr
        /\ Len(accepted') - Entries' + i + 1 = a - n + i + 1
    BY <1>1, <1>2, <1>3
  <2>1. CASE i = n
    <3>1. a - n + i + 1 = a + 1
      BY <2>1, <1>1
    <3> QED
      BY <2>0, <2>1, <3>1, <1>2, <1>5, <1>6
  <2>2. CASE i # n
    <3>1. i \in 0 .. n - 1 /\ i \in 0 .. Num - 1 /\ n \in 0 .. Num - 1 /\ i \in Ptr
      BY <2>0, <2>2, <1>1, PtrModFacts DEF Ptr
    <3>2. EntrySlot(txRptr, i) # SlotOf(txWptr) /\ EntrySlot(txRptr, i) \in Slot
      BY <3>1, <2>2, <1>0, <1>6, EntrySlotDistinct, EntrySlotInSlot
    <3>3. txmem[EntrySlot(txRptr, i)] = accepted[a - n + i + 1]
      BY <3>1 DEF Places, InRing, a, n
    <3>4. n <= a
      BY <1>1, <1>4 DEF Places, Balance, a, n, TxInFlight
    <3>5. a - n + i + 1 \in 1 .. a
      BY <3>1, <3>4, <1>1
    <3> QED
      BY <2>0, <3>2, <3>3, <3>5, <1>2, <1>5
  <2> QED
    BY <2>1, <2>2
<1>8. InFlight'
  <2> SUFFICES ASSUME dma # "idle" PROVE txmem'[dslot] = accepted'[OnWire + 1]
    BY <1>4 DEF InFlight, OnWire
  <2>1. dslot # SlotOf(txWptr)
    BY DEF SendAccept
  <2>2. OnWire + 1 \in 1 .. a
    BY <1>1 DEF TxInFlight
  <2> QED
    BY <2>1, <2>2, <1>0, <1>2, <1>5 DEF Places, InFlight
<1>9. Carried'
  <2> SUFFICES ASSUME NEW i \in 1 .. Len(wire)
               PROVE  wire[i] = <<accepted'[(i + 1) \div 2], 1 + ((i + 1) % 2)>>
    BY <1>4 DEF Carried
  <2>1. wire[i] = <<accepted[(i + 1) \div 2], 1 + ((i + 1) % 2)>>
    BY DEF Places, Carried
  <2>2. (i + 1) \div 2 \in 1 .. OnWire + (IF TxInFlight THEN 1 ELSE 0)
    BY Numbers DEF Places, Halves, TxInFlight
  <2>3. (i + 1) \div 2 \in 1 .. a
    BY <2>2, <1>1
  <2> QED
    BY <2>1, <2>3, <1>2
<1>10. Halves' /\ Balance' /\ HeadInHand'
  BY <1>1, <1>2, <1>3, <1>4 DEF Places, Halves, Balance, HeadInHand, TxInFlight, OnWire, a, n
<1> QED
  BY <1>7, <1>8, <1>9, <1>10 DEF Places

(* The channel is started on the head of the ring: it was idle, or there   *)
(* would be a mishap.                                                      *)
LEMMA OrderStart ==
  ASSUME TxIInv, Places, TxStart, mishaps' = {}
  PROVE  Places'
<1>1. dma = "idle" /\ txFp = EntrySlot(txRptr, 0)
  BY EntryHead DEF TxStart, Places, HeadInHand, TxIInv, TxTypeOK
<1>2. /\ UNCHANGED <<accepted, txmem, wire, txRptr, txWptr, txFp>>
      /\ dslot' = txFp /\ dma' = "first" /\ txPc' = "pop" /\ txPc = "start"
  BY DEF TxStart, txFifoVars
<1>3. Entries > 0 /\ Len(accepted) = OnWire + Entries
  BY <1>1, <1>2, Numbers DEF Places, Balance, TxInFlight
<1>4. txmem[txFp] = accepted[OnWire + 1]
  BY <1>1, <1>3, Numbers DEF Places, InRing
<1>5. Entries' = Entries /\ OnWire' = OnWire /\ Entries \in Nat /\ OnWire \in Nat
  BY <1>2, Numbers DEF Entries, OnWire
<1>6. InRing' /\ Carried'
  BY <1>2, <1>5 DEF Places, InRing, Carried
<1>7. InFlight' /\ HeadInHand'
  BY <1>2, <1>4, <1>5 DEF Places, InFlight, HeadInHand
<1>8. Halves' /\ Balance'
  BY <1>1, <1>2, <1>3, <1>5 DEF Places, Halves, Balance, TxInFlight
<1> QED
  BY <1>6, <1>7, <1>8 DEF Places

(* The head is popped: every other entry moves up by one.                  *)
LEMMA OrderPop ==
  ASSUME TxIInv, Places, TxPop
  PROVE  Places'
<1>1. /\ UNCHANGED <<accepted, txmem, wire, txWptr, txFp, dma, dslot>>
      /\ txPc' = "idle" /\ txPc = "pop" /\ txRptr' = Bump(txRptr)
  BY DEF TxPop, txFifoVars, hwVars
<1>2. Entries > 0 /\ Entries' = Entries - 1
  BY <1>1, Numbers, CountReleased DEF TxIInv, TxTypeOK, SlotHeld, Entries
<1>3. ASSUME NEW i \in 0 .. Entries - 2
      PROVE  txmem[EntrySlot(Bump(txRptr), i)] = accepted[Len(accepted) - (Entries - 1) + i + 1]
  <2>1. i \in 0 .. PtrMod - 2 /\ i + 1 \in 0 .. Entries - 1
    BY Numbers, PtrModFacts
  <2>2. EntrySlot(Bump(txRptr), i) = EntrySlot(txRptr, i + 1)
    BY <2>1, EntryShift DEF TxIInv, TxTypeOK
  <2>3. Len(accepted) - (Entries - 1) + i + 1 = Len(accepted) - Entries + (i + 1) + 1
    BY Numbers
  <2> QED
    BY <2>1, <2>2, <2>3 DEF Places, InRing
<1>4. InRing'
  <2> SUFFICES ASSUME NEW i \in 0 .. Entries' - 1
               PROVE  txmem'[EntrySlot(txRptr', i)] = accepted'[Len(accepted') - Entries' + i + 1]
    BY DEF InRing
  <2>1. i \in 0 .. Entries - 2
    BY <1>2, Numbers
  <2>2. UNCHANGED <<txmem, accepted>> /\ txRptr' = Bump(txRptr) /\ Entries' = Entries - 1
    BY <1>1, <1>2
  <2> QED
    BY <1>3, <2>1, <2>2
<1>5. OnWire' = OnWire /\ InFlight' /\ Halves' /\ Carried'
  BY <1>1 DEF Places, InFlight, Halves, Carried, OnWire
<1>6. Balance'
  BY <1>1, <1>2, <1>5, Numbers DEF Places, Balance, TxInFlight
<1>7. HeadInHand'
  BY <1>1 DEF HeadInHand
<1> QED
  BY <1>4, <1>5, <1>6, <1>7 DEF Places

(* The channel reads half of its message.                                  *)
LEMMA OrderRead ==
  ASSUME TxIInv, Places, DmaFirst \/ TxDoneIrq
  PROVE  Places'
<1> DEFINE half == IF dma = "first" THEN 1 ELSE 2
<1>1. /\ UNCHANGED <<accepted, txmem, txWptr, txRptr, txPc, txFp, dslot>>
      /\ wire' = Append(wire, <<txmem[dslot], half>>)
      /\ \/ dma = "first" /\ dma' = "second"
         \/ dma = "second" /\ dma' = "idle"
  BY DEF DmaFirst, TxDoneIrq, txFifoVars
<1>2. wire \in Seq(Nat \X {1, 2}) /\ Len(wire) \in Nat /\ OnWire \in Nat
  BY Numbers DEF TxIInv, TxTypeOK
<1>3. /\ Len(wire') = Len(wire) + 1 /\ wire'[Len(wire) + 1] = <<txmem[dslot], half>>
      /\ \A i \in 1 .. Len(wire) : wire'[i] = wire[i]
  <2> DEFINE x == <<txmem[dslot], half>>
  <2>1. x \in Nat \X {1, 2}
    BY DEF TxIInv, TxTypeOK
  <2> HIDE DEF x
  <2> QED
    BY <1>1, <1>2, <2>1 DEF x
<1>4. Len(wire) = 2 * OnWire + (IF dma = "second" THEN 1 ELSE 0)
  BY DEF Places, Halves
<1>5. OnWire' = (Len(wire) + 1) \div 2
  BY <1>3 DEF OnWire
<1>6. CASE dma = "first"
  <2>1. Len(wire) = 2 * OnWire /\ OnWire' = OnWire
    BY <1>2, <1>4, <1>5, <1>6
  <2>2. (Len(wire) + 2) \div 2 = OnWire + 1 /\ (Len(wire) + 2) % 2 = 0
    BY <1>2, <2>1
  <2>3. Carried'
    <3> SUFFICES ASSUME NEW i \in 1 .. Len(wire')
                 PROVE  wire'[i] = <<accepted'[(i + 1) \div 2], 1 + ((i + 1) % 2)>>
      BY DEF Carried
    <3>1. CASE i \in 1 .. Len(wire)
      BY <1>1, <1>3, <3>1 DEF Places, Carried
    <3>2. CASE i = Len(wire) + 1
      <4>1. wire'[i] = <<accepted[OnWire + 1], 1>>
        BY <1>3, <1>6, <3>2 DEF Places, InFlight
      <4>2. i + 1 = Len(wire) + 2
        BY <1>2, <3>2
      <4>3. (i + 1) \div 2 = OnWire + 1 /\ 1 + ((i + 1) % 2) = 1
        BY <2>2, <4>2
      <4> QED
        BY <1>1, <4>1, <4>3
    <3> QED
      BY <1>2, <1>3, <3>1, <3>2
  <2>4. Halves'
    BY <1>1, <1>2, <1>3, <1>6, <2>1 DEF Halves
  <2> QED
    BY <1>1, <1>6, <2>1, <2>3, <2>4
    DEF Places, InRing, InFlight, Balance, HeadInHand, TxInFlight, Entries
<1>7. CASE dma = "second"
  <2>1. Len(wire) = 2 * OnWire + 1 /\ OnWire' = OnWire + 1
    BY <1>2, <1>4, <1>5, <1>7
  <2>2. (Len(wire) + 2) \div 2 = OnWire + 1 /\ (Len(wire) + 2) % 2 = 1
    BY <1>2, <2>1
  <2>3. Carried'
    <3> SUFFICES ASSUME NEW i \in 1 .. Len(wire')
                 PROVE  wire'[i] = <<accepted'[(i + 1) \div 2], 1 + ((i + 1) % 2)>>
      BY DEF Carried
    <3>1. CASE i \in 1 .. Len(wire)
      BY <1>1, <1>3, <3>1 DEF Places, Carried
    <3>2. CASE i = Len(wire) + 1
      <4>1. wire'[i] = <<accepted[OnWire + 1], 2>>
        BY <1>3, <1>7, <3>2 DEF Places, InFlight
      <4>2. i + 1 = Len(wire) + 2
        BY <1>2, <3>2
      <4>3. (i + 1) \div 2 = OnWire + 1 /\ 1 + ((i + 1) % 2) = 2
        BY <2>2, <4>2
      <4> QED
        BY <1>1, <4>1, <4>3
    <3> QED
      BY <1>2, <1>3, <3>1, <3>2
  <2>4. Halves'
    BY <1>1, <1>2, <1>3, <1>7, <2>1 DEF Halves
  <2>5. Balance'
    BY <1>1, <1>2, <1>7, <2>1, Numbers DEF Places, Balance, TxInFlight, Entries
  <2> QED
    BY <1>1, <1>7, <2>1, <2>3, <2>4, <2>5 DEF Places, InRing, InFlight, HeadInHand, Entries
<1> QED
  BY <1>1, <1>6, <1>7

LEMMA OrderStep ==
  ASSUME TxIInv, OrderInv, [TxNext]_txVars
  PROVE  OrderInv'
<1> SUFFICES ASSUME mishaps' = {} PROVE Places'
  BY DEF OrderInv
<1>0. Places
  BY MishapsStay DEF OrderInv
<1> USE <1>0
<1>1. CASE SendAccept
  BY <1>1, OrderSend
<1>2. CASE TxStart
  BY <1>2, OrderStart
<1>3. CASE TxPop
  BY <1>3, OrderPop
<1>4. CASE DmaFirst \/ TxDoneIrq
  BY <1>4, OrderRead
<1>5. CASE SendReject \/ TimeoutElapse \/ UNCHANGED txVars
  BY <1>5 DEF SendReject, TimeoutElapse, txVars, txFifoVars, hwVars, Places, InRing, InFlight, Halves,
              Carried, Balance, HeadInHand, TxInFlight, OnWire, Entries
<1>6. CASE \E b \in Bauds : SetBaud(b)
  BY <1>6 DEF SetBaud, txFifoVars, hwVars, Places, InRing, InFlight, Halves,
              Carried, Balance, HeadInHand, TxInFlight, OnWire, Entries
<1>7. CASE TxGet \/ TxCheck \/ TxFlag \/ TxArm
  BY <1>7 DEF TxGet, TxCheck, TxFlag, TxArm, txFifoVars, hwVars, Places, InRing, InFlight, Halves,
              Carried, Balance, HeadInHand, TxInFlight, OnWire, Entries
<1> QED
  BY <1>1, <1>2, <1>3, <1>4, <1>5, <1>6, <1>7 DEF TxNext, TxMainLoop

-----------------------------------------------------------------------------
(* Types, the slot in hand and the handshake hold in every reachable state. *)
THEOREM TxInvariant == TxSpec => []TxIInv
<1>1. TxInit => TxIInv
  BY TxInitHolds
<1>2. TxIInv /\ [TxNext]_txVars => TxIInv'
  BY TypesStep, HandshakeStep DEF TxIInv
<1> QED  BY <1>1, <1>2, PTL DEF TxSpec

(* Types, and never more than Num messages between the counters. *)
THEOREM TxTypeCorrect == TxSpec => []TxTypeOK
<1>1. TxIInv => TxTypeOK
  BY DEF TxIInv
<1> QED  BY <1>1, TxInvariant, PTL

(* On a line never slower than at boot, no transfer is ever started over   *)
(* another, whatever the order of sends, changes of speed, interrupts and  *)
(* timeouts.                                                               *)
THEOREM NeverRestarted == TxSpec => []NoRestartAtBootSpeed
<1>1. TxIInv => NoRestartAtBootSpeed
  BY DEF TxIInv, Handshake, NoRestartAtBootSpeed
<1> QED  BY <1>1, TxInvariant, PTL

(* While no transfer is disturbed, the line carries every accepted message *)
(* whole, once and in order, for every size of the ring.                   *)
THEOREM OrderKept == TxSpec => []WholeInOrder
<1>1. TxInit => TxIInv /\ OrderInv
  BY TxInitHolds, OrderInit
<1>2. TxIInv /\ OrderInv /\ [TxNext]_txVars => TxIInv' /\ OrderInv'
  BY TypesStep, HandshakeStep, OrderStep DEF TxIInv
<1>3. OrderInv => WholeInOrder
  BY DEF OrderInv, Places, Carried, Balance, WholeInOrder, Entries
<1> QED  BY <1>1, <1>2, <1>3, PTL DEF TxSpec
=============================================================================
