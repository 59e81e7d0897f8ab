------------------------------ MODULE YsUartRx ------------------------------
(***************************************************************************)
(* The receiving half of vendor/common/ys_uart.c: bytes come in one per    *)
(* interrupt, ys_uart_irq_handler packs them into the slots of             *)
(* uart_rx_fifo, and ys_uart_process in the main loop closes a slot after  *)
(* a pause on the line and hands closed slots to ys_uart_recv_handler.     *)
(*                                                                         *)
(* The interrupt handler runs to completion; the main loop can be          *)
(* interrupted between any two of its steps except inside the section      *)
(* ys_uart_process protects with irq_disable.  Byte number k of the line   *)
(* is represented by k, so that what is delivered can be compared with     *)
(* what arrived.                                                           *)
(***************************************************************************)
EXTENDS MyFifo, Sequences

CONSTANTS
  Size,      \* uart_rx_fifo.size: bytes of a slot, its 2-byte header included
  LenMod,    \* what the u8 length byte of a slot wraps at: 256 in the code
  MaxBytes   \* bound: how many bytes the line delivers in a behaviour

ASSUME SizeAssumption ==
  /\ Size \in Nat /\ Size > 2
  /\ LenMod \in Nat /\ LenMod > Size

VARIABLES
  mem,     \* uart_rx_fifo_b, one row of Size cells per slot; cell 0 is the length
  wptr,    \* uart_rx_fifo.wptr
  rptr,    \* uart_rx_fifo.rptr
  wpos,    \* the static pointer wptr, as an offset from wlen; it can leave the slot
  tick,    \* uart_rx_tick: "off" is 0; "expired" once uart_rx_idle has gone by
  pc,      \* where the main loop is in ys_uart_process
  fp,      \* the slot my_fifo_get returned
  flen,    \* the length passed to ys_uart_recv_handler, evaluated before the call
  rcvd,    \* history: how many bytes the line has delivered
  out,     \* history: the bytes ys_uart_recv_handler has consumed, in order
  wasFull  \* history: has the fifo ever held Num closed slots?

irqVars  == <<mem, wptr, wpos, tick, rcvd, wasFull>>
loopVars == <<rptr, pc, fp, flen, out>>
vars     == <<irqVars, loopVars>>

Hdr == 2

(* wlen always points at the slot of uart_rx_fifo.wptr *)
OpenSlot == SlotOf(wptr)

(* The cell `off` bytes after the start of slot s.  The length byte is not *)
(* checked against the size anywhere, so an offset may lie in a later      *)
(* slot, or past the buffer, where 0 stands for a byte that never came     *)
(* from the line.                                                          *)
Cell(s, off) ==
  LET row == s + off \div Size
  IN IF row \in Slot THEN mem[row][off % Size] ELSE 0

Store(m, s, off, v) ==
  LET row == s + off \div Size
  IN IF row \in Slot THEN [m EXCEPT ![row][off % Size] = v] ELSE m

(* Hand the open slot over and open the next one, if the guard allows it:  *)
(* the block the interrupt handler and the main loop both contain.  The    *)
(* next slot is opened by resetting its length, whoever may be reading it. *)
HandOver(m) ==
  IF HasRoom(wptr, rptr)
  THEN LET w == Bump(wptr) IN
       /\ wptr' = w
       /\ mem' = [m EXCEPT ![SlotOf(w)][0] = Hdr]
       /\ wpos' = Hdr
       /\ wasFull' = (wasFull \/ Count(w, rptr) = Num)
  ELSE /\ mem' = m
       /\ UNCHANGED <<wptr, wpos, wasFull>>

Init ==
  /\ mem = [s \in Slot |-> [o \in 0 .. Size - 1 |-> IF s = 0 /\ o = 0 THEN Hdr ELSE 0]]
  /\ wptr = 0 /\ rptr = 0
  /\ wpos = Hdr
  /\ tick = "off"
  /\ pc = "idle"
  /\ fp = 0 /\ flen = 0
  /\ rcvd = 0
  /\ out = << >>
  /\ wasFull = FALSE

(* ys_uart_irq_handler, receiving: store the byte, count it, and either    *)
(* move on inside the slot or hand the slot over.  The count is read after *)
(* the byte is stored, because a pointer that has left its slot can hit a  *)
(* length.  uart_rx_tick is armed by a byte that leaves the slot open.     *)
RxIrq ==
  /\ rcvd < MaxBytes
  /\ rcvd' = rcvd + 1
  /\ LET m   == Store(mem, OpenSlot, wpos, rcvd + 1)
         len == (m[OpenSlot][0] + 1) % LenMod
         m2  == [m EXCEPT ![OpenSlot][0] = len]
     IN \/ /\ len < Size
           /\ mem' = m2
           /\ wpos' = wpos + 1
           /\ tick' = "running"
           /\ UNCHANGED <<wptr, wasFull>>
        \/ /\ len >= Size
           /\ tick' = "off"
           /\ HandOver(m2)
  /\ UNCHANGED loopVars

(* uart_rx_idle, about ten byte times, goes by without a byte.             *)
IdleElapse ==
  /\ tick = "running"
  /\ tick' = "expired"
  /\ UNCHANGED <<mem, wptr, wpos, rcvd, wasFull, loopVars>>

(* Wrong on purpose: the pause is noticed but the slot is not closed. *)
ProcIdleWithoutClosing ==
  /\ pc = "idle"
  /\ pc' = "get"
  /\ tick' = IF tick = "expired" THEN "off" ELSE tick
  /\ UNCHANGED <<mem, wptr, wpos, wasFull, rptr, fp, flen, out, rcvd>>

(* ys_uart_process, the section with interrupts disabled: close the open   *)
(* slot after a pause.  The tick is cleared whether or not there is room.  *)
ProcIdle ==
  /\ pc = "idle"
  /\ pc' = "get"
  /\ \/ /\ tick = "expired"
        /\ tick' = "off"
        /\ HandOver(mem)
     \/ /\ tick # "expired"
        /\ UNCHANGED <<mem, wptr, wpos, tick, wasFull>>
  /\ UNCHANGED <<rptr, fp, flen, out, rcvd>>

(* fp = my_fifo_get(&uart_rx_fifo) *)
ProcGet ==
  /\ pc = "get"
  /\ \/ /\ IsEmpty(wptr, rptr)
        /\ pc' = "idle"
        /\ fp' = fp
     \/ /\ ~IsEmpty(wptr, rptr)
        /\ pc' = "len"
        /\ fp' = SlotOf(rptr)
  /\ UNCHANGED <<irqVars, rptr, flen, out>>

(* Wrong on purpose: the header is counted as data. *)
ProcLenWithHeader ==
  /\ pc = "len"
  /\ flen' = mem[fp][0] % LenMod
  /\ pc' = "recv"
  /\ UNCHANGED <<irqVars, rptr, fp, out>>

(* fp[0]-2, converted to the handler's unsigned char parameter *)
ProcLen ==
  /\ pc = "len"
  /\ flen' = (mem[fp][0] - Hdr) % LenMod
  /\ pc' = "recv"
  /\ UNCHANGED <<irqVars, rptr, fp, out>>

(* ys_uart_recv_handler takes the bytes and returns 0 ...                  *)
ProcAccept ==
  /\ pc = "recv"
  /\ out' = out \o [k \in 1 .. flen |-> Cell(fp, k + Hdr - 1)]
  /\ pc' = "pop"
  /\ UNCHANGED <<irqVars, rptr, fp, flen>>

(* Wrong on purpose: the slot is popped whatever the handler returned. *)
ProcRefusePops ==
  /\ pc = "recv"
  /\ pc' = "pop"
  /\ UNCHANGED <<irqVars, rptr, fp, flen, out>>

(* ... or cannot take them now (the BLE stack has no buffer) and returns   *)
(* something else: the slot stays in the fifo and is offered again.        *)
ProcRefuse ==
  /\ pc = "recv"
  /\ pc' = "idle"
  /\ UNCHANGED <<irqVars, rptr, fp, flen, out>>

(* my_fifo_pop(&uart_rx_fifo) *)
ProcPop ==
  /\ pc = "pop"
  /\ rptr' = Bump(rptr)
  /\ pc' = "idle"
  /\ UNCHANGED <<irqVars, fp, flen, out>>

MainLoop == ProcIdle \/ ProcGet \/ ProcLen \/ ProcAccept \/ ProcRefuse \/ ProcPop

Next == RxIrq \/ IdleElapse \/ MainLoop

Spec == Init /\ [][Next]_vars

(* The main loop never stops calling ys_uart_process, time passes, and a   *)
(* handler that is asked again and again takes the bytes in the end: the   *)
(* stack drains its buffers while connected, and without a connection      *)
(* ys_uart_recv_handler throws the bytes away and returns 0.  Nothing      *)
(* makes the line deliver a byte.                                          *)
Fairness ==
  /\ WF_vars(MainLoop)
  /\ WF_vars(IdleElapse)
  /\ SF_vars(ProcAccept)

FairSpec == Spec /\ Fairness

-----------------------------------------------------------------------------
(* Every variable has its type, and the two counters never drift further   *)
(* apart than the fifo has slots: the guards of the interrupt handler and  *)
(* of the main loop, which run at different times, keep Count at most Num. *)
TypeOK ==
  /\ mem \in [Slot -> [0 .. Size - 1 -> Nat]]
  /\ wptr \in Ptr /\ rptr \in Ptr
  /\ Count(wptr, rptr) <= Num
  /\ wpos \in Nat
  /\ tick \in {"off", "running", "expired"}
  /\ pc \in {"idle", "get", "len", "recv", "pop"}
  /\ fp \in Slot
  /\ flen \in 0 .. LenMod - 1
  /\ rcvd \in Nat
  /\ out \in Seq(Nat)
  /\ wasFull \in BOOLEAN

(* As long as the fifo has never held Num closed slots, what the handler   *)
(* consumed is exactly the first bytes of the line: none lost, repeated,   *)
(* reordered or invented, however the interrupts fall between the steps of *)
(* the main loop, however often the handler refuses a slot, and however    *)
(* often the counters wrap.                                                *)
PrefixDelivered == ~wasFull => out = [k \in 1 .. Len(out) |-> k]

(* Every byte the line delivers reaches the handler in the end, unless the *)
(* fifo was full: in particular the last bytes of a transmission, which do *)
(* not fill a slot, are not left behind.                                   *)
AllDelivered ==
  \A k \in 1 .. MaxBytes : rcvd >= k ~> (Len(out) >= k \/ wasFull)

(* The byte pipe the rest of the program takes the receiver for.           *)
Pipe == INSTANCE BytePipe WITH sent <- rcvd, got <- out, broken <- wasFull

(* The receiver implements the byte pipe, its promise to deliver included. *)
ImplementsPipe == Pipe!FairSpec

(* A transparent serial link may drop bytes it has no room for, but what   *)
(* it does deliver comes in the order of the line and at most once.        *)
InOrderOnce == \A i \in 1 .. Len(out) - 1 : out[i] < out[i + 1]

-----------------------------------------------------------------------------
(***************************************************************************)
(* Why PrefixDelivered holds: what the fifo looks like while it has never  *)
(* been full, for a memory m, counters w and r, write offset p and number  *)
(* n of the last byte.                                                     *)
(***************************************************************************)

(* The number of the first byte of entry i, also when the entry is the     *)
(* open slot and that byte is still to come.                               *)
FirstOf(m, w, r, p, n, i) ==
  IF i = Count(w, r) THEN n + 1 - (p - Hdr) ELSE m[EntrySlot(r, i)][Hdr]

(* A closed slot holds a run of consecutive bytes, at least one. *)
HoldsRun(row) ==
  /\ row[0] \in Hdr + 1 .. Size
  /\ \A o \in Hdr .. row[0] - 1 : row[o] = row[Hdr] + (o - Hdr)

(* The open slot holds the last bytes of the line. *)
HoldsTail(row, p, n) ==
  /\ row[0] = p
  /\ \A o \in Hdr .. p - 1 : row[o] = n + 1 - (p - o)

(* The entries are distinct slots, and together they hold one run of bytes *)
(* that have arrived.                                                      *)
Layout(m, w, r, p, n) ==
  /\ Count(w, r) < Num
  /\ HoldsTail(m[SlotOf(w)], p, n)
  /\ \A i \in 0 .. Count(w, r) - 1 :
       /\ HoldsRun(m[EntrySlot(r, i)])
       /\ FirstOf(m, w, r, p, n, i + 1) =
            FirstOf(m, w, r, p, n, i) + m[EntrySlot(r, i)][0] - Hdr
       /\ FirstOf(m, w, r, p, n, i + 1) \in 0 .. n + 1

First(i) == FirstOf(mem, wptr, rptr, wpos, rcvd, i)

(* The main loop works on the head, and the head stays there.  *)
AtHead ==
  pc \in {"len", "recv", "pop"} => fp = SlotOf(rptr) /\ ~IsEmpty(wptr, rptr)

(* A slot is only ever closed with a byte in it. *)
TailArmed == wpos >= Hdr /\ (tick # "off" => wpos > Hdr)

(* What has been consumed ends where the first entry not yet consumed      *)
(* begins, and a length in flight is still the length of the head.         *)
Consumed ==
  /\ out = [k \in 1 .. Len(out) |-> k]
  /\ Len(out) + 1 = First(IF pc = "pop" THEN 1 ELSE 0)
  /\ pc = "recv" => flen = mem[fp][0] - Hdr

IInv ==
  /\ TypeOK
  /\ AtHead
  /\ TailArmed
  /\ ~wasFull => /\ wpos < Size
                 /\ Layout(mem, wptr, rptr, wpos, rcvd)
                 /\ Consumed
=============================================================================
