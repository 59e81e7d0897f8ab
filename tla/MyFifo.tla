------------------------------- MODULE MyFifo -------------------------------
(***************************************************************************)
(* The pointer arithmetic of my_fifo_t (proj/common/utility.c), the ring   *)
(* buffer behind both UART queues.  A fifo has num slots of size bytes and *)
(* two free-running u8 counters: wptr counts the slots handed over by the  *)
(* producer, rptr the slots released by the consumer.  A counter is turned *)
(* into a slot number only when the slot is touched.                       *)
(***************************************************************************)
EXTENDS Integers

CONSTANTS
  Num,     \* my_fifo_t.num, a power of two in the code: 64 receiving, 8 sending
  PtrMod   \* what a u8 counter wraps at: 256 in the code

(* `& (num-1)` is a remainder because num is a power of two, and it agrees *)
(* with a counter that wraps at 256 because num divides 256.  Being able   *)
(* to tell a full fifo from an empty one needs num < 256.                  *)
ASSUME NumAssumption ==
  /\ Num \in Nat \ {0}
  /\ PtrMod \in Nat
  /\ \E laps \in 2 .. PtrMod : PtrMod = laps * Num

Ptr  == 0 .. PtrMod - 1
Slot == 0 .. Num - 1

(* wptr++ and rptr++ on a u8 *)
Bump(p) == (p + 1) % PtrMod

(* (wptr - rptr) & 255: slots handed over and not yet released *)
Count(w, r) == (w - r) % PtrMod

(* p & (num-1) *)
SlotOf(p) == p % Num

(* Wrong on purpose: a guard that lets one slot too many in. *)
HasRoomForOneMore(w, r) == Count(w, r) <= Num

(* my_fifo_wptr, and the guard every producer in ys_uart.c repeats *)
HasRoom(w, r) == Count(w, r) < Num

(* my_fifo_get returns no slot *)
IsEmpty(w, r) == r = w

-----------------------------------------------------------------------------
(* The counter value i steps after r, and the slot it names: entry i of a  *)
(* fifo whose consumer is at r.  Entry 0 is the head, and entry Count(w,r) *)
(* is the open slot, the one the producer fills next.                      *)
Nth(r, i) == (r + i) % PtrMod
EntrySlot(r, i) == SlotOf(Nth(r, i))
=============================================================================
