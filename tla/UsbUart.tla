------------------------------ MODULE UsbUart ------------------------------
(***************************************************************************)
(* The send side of the serial port over USB: proj/drivers/usb_uart.c, a   *)
(* queue of pending writes, over proj/app/usbcdc.c, which sends one buffer *)
(* at a time in packets of the endpoint's size.  The first packet goes out *)
(* in usbcdc_sendData, each further one when the endpoint's interrupt      *)
(* calls usbcdc_sendBulkData.  After the last one usb_uart_tXFinishCb is   *)
(* scheduled as a task: it runs later, and the application may write       *)
(* before it does.                                                         *)
(*                                                                         *)
(* The event pool and its queue (ev_buf, ev_queue, EV_SCHEDULE_TASK) are   *)
(* not in the repository: a queue is first in first out, tasks run in the  *)
(* order they are scheduled, and the pool has room for the entries.  Nor   *)
(* is the caller of usbcdc_sendBulkData: it is taken to poll, as the main  *)
(* loop does for the other endpoints, so that no call interrupts another.  *)
(* A buffer is not empty.                                                  *)
(***************************************************************************)
EXTENDS Integers, Sequences, FiniteSets

CONSTANTS
  Writes,     \* bound: the buffers the application writes are 1 .. Writes
  MaxPackets, \* bound: packets in a buffer
  MaxLost     \* bound: packets the host does not poll for in time

ASSUME UsbUartAssumption ==
  Writes \in Nat /\ MaxPackets \in Nat \ {0} /\ MaxLost \in Nat

Buffer == 1 .. Writes
None == 0

VARIABLES
  written,  \* how many buffers have been written
  size,     \* the packets of each
  txBuf,    \* cdc_v->txBuf
  left,     \* cdc_v->lenToSend, in packets
  pending,  \* usb_uart_txPendingQ
  tasks,    \* the buffers usb_uart_tXFinishCb is scheduled for
  stream,   \* history: the packets the endpoint was armed with, each a buffer
            \* and an index
  lost,     \* history: which of them were withdrawn
  freed,    \* history: the buffers given back, in order
  hasty     \* history: was the free port ever written to before a task ran?

lineVars == <<txBuf, left, stream, lost>>
cdcVars  == <<written, size, lineVars, pending, tasks, freed, hasty>>

CdcInit ==
  /\ written = 0 /\ size = [b \in Buffer |-> 0]
  /\ txBuf = None /\ left = 0 /\ pending = << >> /\ tasks = << >>
  /\ stream = << >> /\ lost = {} /\ freed = << >> /\ hasty = FALSE

-----------------------------------------------------------------------------
(* The endpoint is armed with a packet, and the call waits until the host  *)
(* has taken it or, after 10000 polls, withdraws it.  Nothing but T_CNT    *)
(* tells the difference.  The endpoint is idle when the next call begins,  *)
(* because no other code arms it: the early return for a busy endpoint is  *)
(* never taken.                                                            *)
Arm(p) ==
  /\ stream' = Append(stream, p)
  /\ \/ lost' = lost
     \/ Cardinality(lost) < MaxLost /\ lost' = lost \cup {Len(stream')}

(* Wrong on purpose: a packet withdrawn is sent again ... *)
SendBulkDataRepeating(b, i, n, ts) ==
  /\ Arm(<<b, i>>)
  /\ left' = IF lost' = lost THEN n - i ELSE n - i + 1
  /\ \/ left' = 0 /\ txBuf' = None /\ tasks' = Append(ts, b)
     \/ left' > 0 /\ txBuf' = b /\ tasks' = ts

(* ... or every packet ends the transfer. *)
SendBulkDataEnding(b, i, n, ts) ==
  /\ Arm(<<b, i>>) /\ left' = n - i
  /\ txBuf' = None /\ tasks' = Append(ts, b)

(* usbcdc_sendBulkData: packet i of the n of b, with the tasks ts waiting  *)
SendBulkData(b, i, n, ts) ==
  /\ Arm(<<b, i>>) /\ left' = n - i
  /\ \/ i = n /\ txBuf' = None /\ tasks' = Append(ts, b)
     \/ i < n /\ txBuf' = b /\ tasks' = ts

(* usb_uart_write of b with the queue q: straight to usbcdc_sendData if    *)
(* the port is available, else into the queue.                             *)
UartWrite(b, n, q, ts) ==
  \/ txBuf = None /\ SendBulkData(b, 1, n, ts) /\ pending' = q
  \/ txBuf # None /\ pending' = Append(q, b) /\ tasks' = ts /\ UNCHANGED lineVars

Write(n) ==
  /\ written < Writes /\ written' = written + 1
  /\ size' = [size EXCEPT ![written'] = n]
  /\ UartWrite(written', n, pending, tasks)
  /\ hasty' = (hasty \/ (txBuf = None /\ tasks # << >>))
  /\ UNCHANGED freed

EndpointIrq ==
  /\ txBuf # None
  /\ SendBulkData(txBuf, size[txBuf] - left + 1, size[txBuf], tasks)
  /\ UNCHANGED <<written, size, pending, freed, hasty>>

(* Wrong on purpose: what is taken from the queue is dropped when another  *)
(* write has taken the port.                                               *)
FinishCbDropping ==
  /\ tasks # << >> /\ freed' = Append(freed, Head(tasks))
  /\ UNCHANGED <<written, size, hasty>>
  /\ IF pending = << >> \/ txBuf # None
     THEN /\ tasks' = Tail(tasks) /\ pending' = SubSeq(pending, 2, Len(pending))
          /\ UNCHANGED lineVars
     ELSE UartWrite(Head(pending), size[Head(pending)], Tail(pending), Tail(tasks))

(* usb_uart_tXFinishCb: the buffer is freed and the first pending one is   *)
(* written again, which puts it back at the end of the queue if another    *)
(* write has taken the port in the meantime.                               *)
FinishCb ==
  /\ tasks # << >> /\ freed' = Append(freed, Head(tasks))
  /\ UNCHANGED <<written, size, hasty>>
  /\ IF pending = << >>
     THEN tasks' = Tail(tasks) /\ UNCHANGED <<pending, lineVars>>
     ELSE UartWrite(Head(pending), size[Head(pending)], Tail(pending), Tail(tasks))

CdcNext == (\E n \in 1 .. MaxPackets : Write(n)) \/ EndpointIrq \/ FinishCb

(* The endpoint goes on raising its interrupt, and scheduled tasks run.    *)
CdcSpec == CdcInit /\ [][CdcNext]_cdcVars /\ WF_cdcVars(EndpointIrq) /\ WF_cdcVars(FinishCb)

-----------------------------------------------------------------------------
(* The endpoint is armed with the packets of a buffer in order and from    *)
(* the first to the last, not mixed with those of another, and for no      *)
(* buffer twice, although writes come from the application, from the queue *)
(* and from the interrupt.                                                 *)
Unmixed ==
  \A k \in 1 .. Len(stream) :
    LET b == stream[k][1] IN
    IF stream[k][2] > 1
    THEN k > 1 /\ stream[k - 1] = <<b, stream[k][2] - 1>>
    ELSE /\ k > 1 => LET a == stream[k - 1] IN a[2] = size[a[1]]
         /\ \A j \in 1 .. k - 1 : stream[j][1] # b

(* What the host has of a buffer, and what was withdrawn of it *)
Taken(b) == {stream[k][2] : k \in {j \in (1 .. Len(stream)) \ lost : stream[j][1] = b}}
Withdrawn(b) == {stream[k][2] : k \in {j \in lost : stream[j][1] = b}}

OnLine(b) == \E k \in 1 .. Len(stream) : stream[k][1] = b
Finished(b) == \E k \in 1 .. Len(stream) : stream[k] = <<b, size[b]>>

(* What goes out over the port: buffers unmixed and once.  Of one that is  *)
(* finished the host has every packet but those that were withdrawn, which *)
(* nobody sends again: it may miss one in the middle of a buffer and go on *)
(* with the next.  Buffers go out in the order they were written as long   *)
(* as the application does not write to the free port while the end of the *)
(* last transfer has not been dealt with; if it does, pending ones may be  *)
(* turned round.                                                           *)
StreamWhole ==
  /\ Unmixed
  /\ \A b \in Buffer : Finished(b) =>
       Taken(b) \cap Withdrawn(b) = {} /\ Taken(b) \cup Withdrawn(b) = 1 .. size[b]
  /\ ~hasty => \A j, k \in 1 .. Len(stream) : j < k => stream[j][1] <= stream[k][1]

(* A buffer is given back once, after the endpoint was done with its last  *)
(* packet, whether the host took it or not.                                *)
FreedOnceAfterSent ==
  \A k \in 1 .. Len(freed) :
    /\ \E i \in 1 .. Len(stream) : stream[i] = <<freed[k], size[freed[k]]>>
    /\ \A j \in 1 .. k - 1 : freed[j] # freed[k]

(* Why: a buffer is pending only before its first packet; the one in       *)
(* cdc_v->txBuf is the last on the line and not finished; a finished one   *)
(* is handed on once, from the line to the tasks and from there back.      *)
CdcTypeOK ==
  /\ written \in 0 .. Writes /\ size \in [Buffer -> Nat]
  /\ txBuf \in Buffer \cup {None} /\ left \in Nat
  /\ pending \in Seq(Buffer) /\ tasks \in Seq(Buffer) /\ freed \in Seq(Buffer)
  /\ stream \in Seq(Buffer \X Nat) /\ lost \subseteq 1 .. Len(stream)
  /\ hasty \in BOOLEAN

Distinct(s) == \A i, j \in 1 .. Len(s) : s[i] = s[j] => i = j
PendingUnsent ==
  /\ \A b \in Buffer : b <= written => size[b] > 0
  /\ Distinct(pending)
  /\ \A i \in 1 .. Len(pending) : pending[i] <= written /\ ~OnLine(pending[i])

LineAtBuffer ==
  /\ \A k \in 1 .. Len(stream) : stream[k][1] <= written /\ stream[k][2] > 0
  /\ IF txBuf = None
     THEN Len(stream) > 0 => stream[Len(stream)][2] = size[stream[Len(stream)][1]]
     ELSE /\ left \in 1 .. size[txBuf] - 1 /\ Len(stream) > 0
          /\ stream[Len(stream)] = <<txBuf, size[txBuf] - left>>

HandedOnOnce ==
  /\ Distinct(tasks) /\ Distinct(freed)
  /\ \A i \in 1 .. Len(tasks) : Finished(tasks[i]) /\ tasks[i] # txBuf
  /\ \A i \in 1 .. Len(freed) : Finished(freed[i]) /\ freed[i] # txBuf
  /\ \A i \in 1 .. Len(tasks), j \in 1 .. Len(freed) : tasks[i] # freed[j]

(* Every packet on the line is the only one of its kind, and follows all   *)
(* earlier ones of its buffer; the buffer in the port has no later one.    *)
PacketsOnce ==
  /\ Distinct(stream)
  /\ \A k \in 1 .. Len(stream) : \A i \in 1 .. stream[k][2] :
       \E j \in 1 .. Len(stream) : stream[j] = <<stream[k][1], i>>
  /\ \A k \in 1 .. Len(stream) :
       /\ stream[k][2] <= size[stream[k][1]]
       /\ stream[k][1] = txBuf => stream[k][2] <= size[txBuf] - left

(* Without a hasty write there is a pending buffer only while another is   *)
(* in the port or its task waits, never both, and the pending ones are in  *)
(* order and newer than all on the line.                                   *)
Ascending(s) == \A j, k \in 1 .. Len(s) : j < k => s[j] <= s[k]
Orderly ==
  ~hasty =>
    /\ Len(tasks) <= 1 /\ (txBuf # None => tasks = << >>)
    /\ pending # << >> => txBuf # None \/ tasks # << >>
    /\ Ascending(pending)
    /\ \A k \in 1 .. Len(stream), i \in 1 .. Len(pending) : stream[k][1] <= pending[i]
    /\ \A j, k \in 1 .. Len(stream) : j < k => stream[j][1] <= stream[k][1]

CdcIInv ==
  /\ CdcTypeOK /\ PendingUnsent /\ LineAtBuffer /\ Unmixed /\ HandedOnOnce
  /\ PacketsOnce /\ Orderly

(* Once the application stops writing, everything has been sent and every  *)
(* buffer given back: the queue is never left with nobody to empty it,     *)
(* although only the end of a transfer takes something from it.            *)
AllSent == <>[](Len(freed) = written)
=============================================================================
