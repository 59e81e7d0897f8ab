------------------------------ MODULE YsUartTx ------------------------------
(***************************************************************************)
(* The sending half of vendor/common/ys_uart.c together with the busy flag *)
(* of proj/drivers/uart.c.  ys_uart_send copies a message into a slot of   *)
(* uart_tx_fifo; ys_uart_process takes the oldest slot, points the DMA     *)
(* channel at it, and pops the slot at once, while the channel is still    *)
(* reading it.  The flag is cleared by the completion interrupt or, if     *)
(* that never comes, by a timeout computed once from the speed at boot.    *)
(*                                                                         *)
(* The callers of ys_uart_send and ys_uart_set_baud run in the main loop,  *)
(* outside the steps below; the interrupt, the DMA channel and the clock   *)
(* run between any two of them.  Message m is read by the channel in two   *)
(* halves, which appear on the wire as <<m, 1>> and <<m, 2>>.              *)
(***************************************************************************)
EXTENDS MyFifo, Sequences

CONSTANTS
  Bauds,    \* the line speeds, as numbers: a larger one is faster
  MaxMsgs   \* bound: how many messages are offered in a behaviour

ASSUME BaudsAssumption == Bauds \subseteq Nat /\ MaxMsgs \in Nat

VARIABLES
  txmem,    \* uart_tx_fifo_b: the message in each slot, 0 at first
  txWptr,   \* uart_tx_fifo.wptr
  txRptr,   \* uart_tx_fifo.rptr
  txPc,     \* where the main loop is in the sending part of ys_uart_process
  txFp,     \* the slot my_fifo_get returned
  busy,     \* uart_tx_busy_flag
  delay,    \* uart_continue_delay_time: "off" is 0; "expired" once
            \* uart_tx_done_delay_us has gone by
  dma,      \* the DMA channel: idle, or the half it reads next
  dslot,    \* reg_dma1_addr
  bootBaud, \* the speed uart_tx_done_delay_us was computed from
  baud,     \* the speed of the line
  offered,  \* history: how many messages ys_uart_send was called with
  accepted, \* history: those it did not turn away, in order
  wire,     \* history: the halves sent, in order
  mishaps,  \* history: what has happened to a transfer under way
  wasSlow   \* history: was the line ever slower than at boot?

txFifoVars == <<txmem, txWptr, offered, accepted>>
hwVars   == <<dma, dslot, wire>>
baudVars == <<bootBaud, baud, wasSlow>>
txVars   == <<txFifoVars, txRptr, txPc, txFp, busy, delay, hwVars, baudVars, mishaps>>

TxInit ==
  /\ txmem = [s \in Slot |-> 0]
  /\ txWptr = 0 /\ txRptr = 0
  /\ txPc = "idle" /\ txFp = 0
  /\ busy = FALSE /\ delay = "off"
  /\ dma = "idle" /\ dslot = 0
  /\ bootBaud \in Bauds /\ baud = bootBaud
  /\ offered = 0 /\ accepted = << >> /\ wire = << >>
  /\ mishaps = {} /\ wasSlow = FALSE

(* ys_uart_send puts the message into the slot of wptr, which it takes to  *)
(* be free as soon as rptr has moved past it.                              *)
SendAccept ==
  /\ txPc = "idle"
  /\ offered < MaxMsgs
  /\ HasRoom(txWptr, txRptr)
  /\ offered' = offered + 1
  /\ accepted' = Append(accepted, offered')
  /\ txmem' = [txmem EXCEPT ![SlotOf(txWptr)] = offered']
  /\ txWptr' = Bump(txWptr)
  /\ mishaps' = IF dma # "idle" /\ dslot = SlotOf(txWptr)
                THEN mishaps \cup {"overwritten"} ELSE mishaps
  /\ UNCHANGED <<txRptr, txPc, txFp, busy, delay, hwVars, baudVars>>

(* ys_uart_send returns -1: the message is gone for the caller to deal with. *)
SendReject ==
  /\ txPc = "idle"
  /\ offered < MaxMsgs
  /\ ~HasRoom(txWptr, txRptr)
  /\ offered' = offered + 1
  /\ UNCHANGED <<txmem, txWptr, accepted, txRptr, txPc, txFp, busy, delay, hwVars,
                 baudVars, mishaps>>

(* ys_uart_set_baud reinitialises the UART.  uart_Init writes the control  *)
(* register without the DMA enable bit and uart_DmaModeInit sets it again: *)
(* a transfer under way goes on or dies, without a completion interrupt.   *)
(* Neither the busy flag nor its timeout is touched.                       *)
SetBaud(b) ==
  /\ txPc = "idle"
  /\ baud' = b
  /\ wasSlow' = (wasSlow \/ b < bootBaud)
  /\ \/ UNCHANGED <<dma, mishaps>>
     \/ /\ dma # "idle"
        /\ dma' = "idle"
        /\ mishaps' = mishaps \cup {"aborted"}
  /\ UNCHANGED <<txFifoVars, txRptr, txPc, txFp, busy, delay, dslot, wire, bootBaud>>

(* fp = my_fifo_get (&uart_tx_fifo), and go on if there is a slot *)
TxGet ==
  /\ txPc = "idle"
  /\ ~IsEmpty(txWptr, txRptr)
  /\ txFp' = SlotOf(txRptr)
  /\ txPc' = "check"
  /\ UNCHANGED <<txFifoVars, txRptr, busy, delay, hwVars, baudVars, mishaps>>

(* Wrong on purpose: the flag is ignored ... *)
NeverBusy == FALSE

(* ... or only the interrupt clears it. *)
BusyUntilIrq == busy

(* What uart_tx_is_busy makes of the flag: an expired timeout clears it. *)
StillBusy == busy /\ delay # "expired"

(* Wrong on purpose: the slot is popped although the channel is busy. *)
TxCheckPops ==
  /\ txPc = "check"
  /\ busy' = StillBusy
  /\ delay' = IF delay = "expired" THEN "off" ELSE delay
  /\ txPc' = IF StillBusy THEN "pop" ELSE "flag"
  /\ UNCHANGED <<txFifoVars, txRptr, txFp, hwVars, baudVars, mishaps>>

(* uart_tx_is_busy.  uart_Send_kma repeats the test; nothing sets the flag *)
(* in between, so the second answer is the first.                          *)
TxCheck ==
  /\ txPc = "check"
  /\ busy' = StillBusy
  /\ delay' = IF delay = "expired" THEN "off" ELSE delay
  /\ txPc' = IF StillBusy THEN "idle" ELSE "flag"
  /\ UNCHANGED <<txFifoVars, txRptr, txFp, hwVars, baudVars, mishaps>>

(* uart_set_tx_busy_flag: first the flag ... *)
TxFlag ==
  /\ txPc = "flag"
  /\ busy' = TRUE
  /\ txPc' = "arm"
  /\ UNCHANGED <<txFifoVars, txRptr, txFp, delay, hwVars, baudVars, mishaps>>

(* ... then the timeout *)
TxArm ==
  /\ txPc = "arm"
  /\ delay' = "armed"
  /\ txPc' = "start"
  /\ UNCHANGED <<txFifoVars, txRptr, txFp, busy, hwVars, baudVars, mishaps>>

(* reg_dma1_addr = addr; STARTTX: a transfer under way is cut short *)
TxStart ==
  /\ txPc = "start"
  /\ dslot' = txFp
  /\ dma' = "first"
  /\ txPc' = "pop"
  /\ mishaps' = IF dma # "idle" THEN mishaps \cup {"restarted"} ELSE mishaps
  /\ UNCHANGED <<txFifoVars, txRptr, txFp, busy, delay, wire, baudVars>>

(* my_fifo_pop(&uart_tx_fifo), whatever uart_Send_kma returned *)
TxPop ==
  /\ txPc = "pop"
  /\ txRptr' = Bump(txRptr)
  /\ txPc' = "idle"
  /\ UNCHANGED <<txFifoVars, txFp, busy, delay, hwVars, baudVars, mishaps>>

(* The channel fetches the first half of the slot it was pointed at. *)
DmaFirst ==
  /\ dma = "first"
  /\ wire' = Append(wire, <<txmem[dslot], 1>>)
  /\ dma' = "second"
  /\ UNCHANGED <<txFifoVars, txRptr, txPc, txFp, busy, delay, dslot, baudVars, mishaps>>

(* It fetches the second half and raises FLD_DMA_UART_TX; the interrupt is *)
(* enabled everywhere in this part of the main loop, so                    *)
(* ys_uart_irq_handler runs at once: uart_clr_tx_busy_flag.                *)
TxDoneIrq ==
  /\ dma = "second"
  /\ wire' = Append(wire, <<txmem[dslot], 2>>)
  /\ dma' = "idle"
  /\ busy' = FALSE
  /\ delay' = "off"
  /\ UNCHANGED <<txFifoVars, txRptr, txPc, txFp, dslot, baudVars, mishaps>>

(* uart_tx_done_delay_us goes by.  It is twice uart_rx_idle, the time of   *)
(* 20 bytes at the speed the UART was initialised with, and a message has  *)
(* at most 20: only on a slower line can it go by during a transfer.       *)
TimeoutElapse ==
  /\ delay = "armed"
  /\ txPc # "start"
  /\ dma = "idle" \/ baud < bootBaud
  /\ delay' = "expired"
  /\ UNCHANGED <<txFifoVars, txRptr, txPc, txFp, busy, hwVars, baudVars, mishaps>>

TxMainLoop == TxGet \/ TxCheck \/ TxFlag \/ TxArm \/ TxStart \/ TxPop

TxNext ==
  \/ SendAccept \/ SendReject \/ \E b \in Bauds : SetBaud(b)
  \/ TxMainLoop
  \/ DmaFirst \/ TxDoneIrq \/ TimeoutElapse

TxSpec == TxInit /\ [][TxNext]_txVars

(* The main loop comes back to ys_uart_process, hardware and clock run on. *)
(* A speed is not changed for ever, nor messages offered.                  *)
TxFairness ==
  /\ WF_txVars(TxMainLoop)
  /\ WF_txVars(DmaFirst)
  /\ WF_txVars(TxDoneIrq)
  /\ WF_txVars(TimeoutElapse)

TxFairSpec == TxSpec /\ TxFairness

-----------------------------------------------------------------------------
TxInFlight == dma # "idle"

(* Types, and at most Num messages between the counters. *)
TxTypeOK ==
  /\ txmem \in [Slot -> Nat]
  /\ txWptr \in Ptr /\ txRptr \in Ptr
  /\ Count(txWptr, txRptr) <= Num
  /\ txPc \in {"idle", "check", "flag", "arm", "start", "pop"}
  /\ txFp \in Slot /\ dslot \in Slot
  /\ busy \in BOOLEAN /\ wasSlow \in BOOLEAN
  /\ delay \in {"off", "armed", "expired"}
  /\ dma \in {"idle", "first", "second"}
  /\ bootBaud \in Bauds /\ baud \in Bauds
  /\ offered \in Nat
  /\ accepted \in Seq(Nat) /\ wire \in Seq(Nat \X {1, 2})
  /\ mishaps \subseteq {"overwritten", "restarted", "aborted"}

(* As long as no transfer was disturbed, the line carries every message    *)
(* ys_uart_send accepted, whole, once and in order; and what it has not    *)
(* carried yet is still in the fifo or in the hands of the DMA channel.    *)
OnWire == Len(wire) \div 2
WholeInOrder ==
  mishaps = {} =>
    /\ \A i \in 1 .. Len(wire) :
         wire[i] = <<accepted[(i + 1) \div 2], 1 + ((i + 1) % 2)>>
    /\ Len(accepted) = OnWire + Count(txWptr, txRptr)
                       + (IF TxInFlight THEN 1 ELSE 0)
                       - (IF txPc = "pop" THEN 1 ELSE 0)

(* The DMA channel is never started while it is still sending, as long as  *)
(* the line is not slower than it was at boot: the flag, the interrupt and *)
(* the timeout agree in every order of the steps that set and clear them,  *)
(* also when a change of speed kills a transfer and its interrupt.         *)
NoRestartAtBootSpeed == ~wasSlow => "restarted" \notin mishaps

(* Why: on a line as fast as at boot, a transfer under way always has the  *)
(* flag set and its timeout armed but not run out, and the main loop gets  *)
(* past the test of the flag only when the channel is idle.                *)
Handshake ==
  /\ baud >= bootBaud
  /\ dma # "idle" => busy /\ delay = "armed"
  /\ txPc \in {"flag", "arm", "start"} => dma = "idle"
  /\ txPc \in {"arm", "start"} => busy
  /\ txPc = "start" => delay = "armed"
  /\ "restarted" \notin mishaps

(* The slot the main loop has in its hands is still in the fifo. *)
SlotHeld == txPc # "idle" => ~IsEmpty(txWptr, txRptr)

TxIInv == TxTypeOK /\ SlotHeld /\ (~wasSlow => Handshake)

(* The queue always moves on: every accepted message is given to the DMA   *)
(* channel in the end, even after a completion interrupt that never comes. *)
QueueDrains == ~IsEmpty(txWptr, txRptr) ~> IsEmpty(txWptr, txRptr)

(* "'1' send success; '0' DMA busy": uart_Send_kma does not start a        *)
(* transfer while the DMA channel is at work on another.                   *)
NoRestart == "restarted" \notin mishaps

(* What ys_uart_send has accepted goes out as it was handed in: no message *)
(* is written over the one that is being sent.                             *)
NoOverwriteInFlight == "overwritten" \notin mishaps
=============================================================================
