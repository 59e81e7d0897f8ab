----------------------------- MODULE SerialLink -----------------------------
(***************************************************************************)
(* The two byte streams of vendor/826x_ser2ble end to end: slots closed by *)
(* the UART receiver go to ys_uart_recv_handler, which notifies the        *)
(* central or, without a connection, parses them as AT commands; what the  *)
(* central writes, and the answers to commands, go to ys_uart_send.  The   *)
(* two rings appear as the queues YsUartRx and YsUartTx show them to be.   *)
(* The receiving one never overflows here.  The sending one has one place  *)
(* less than ys_uart_send counts, because a slot is popped when its        *)
(* transfer starts: the last of TxNum messages handed in during a transfer *)
(* goes into the slot the DMA channel is reading.                          *)
(***************************************************************************)
EXTENDS Integers, Sequences

CONSTANTS
  RxNum,       \* uart_rx_fifo.num: closed slots the ring holds
  TxNum,       \* uart_tx_fifo.num
  Buffers,     \* how many notifications the stack holds back
  MaxChunks,   \* bound: how many slots are closed in a behaviour
  MaxWrites,   \* bound: how often a central writes
  MaxSessions  \* bound: how many connections there are

ASSUME LinkAssumption ==
  /\ RxNum \in Nat \ {0} /\ TxNum \in Nat \ {0} /\ Buffers \in Nat \ {0}
  /\ MaxChunks \in Nat /\ MaxWrites \in Nat /\ MaxSessions \in Nat

VARIABLES
  pc,        \* the main loop: "stack", "offer", "notify", "send"
  link,      \* number of the connection, 0 without one
  sessions,  \* how many connections there have been
  unsent,    \* notifications in the stack's buffers
  rxq,       \* the closed slots, oldest first: their number, whether they
             \* hold "AT\r\n", and the connection there was at the time
  arrived,   \* history: how many slots have been closed
  notified,  \* history: <<connection, slot>> for each notification, in order
  commands,  \* history: the slots read as AT commands
  dropped,   \* history: the slots the handler took although the link had gone
  txq,       \* messages waiting for the UART
  sending,   \* the DMA channel: "no", or the half of the message it reads next
  inFlight,  \* the message in the slot it was pointed at last
  writes,    \* history: how many writes the central has made
  refused,   \* history: the writes that met a full queue
  behind,    \* history: was a message handed in with TxNum still unsent?
  started,   \* history: the messages transfers were started for, in order
  firsts,    \* history: the messages the first halves sent were read from ...
  seconds    \* ... and the second ones, transfer by transfer

upVars   == <<rxq, arrived, notified, commands, dropped, unsent>>
outVars  == <<txq, inFlight, behind>>
dmaVars  == <<sending, started, firsts, seconds>>
downVars == <<outVars, dmaVars, writes, refused>>
vars     == <<pc, link, sessions, upVars, downVars>>

Ok == 0      \* the answer "OK\r\n"; the central's writes are numbered from 1

Init ==
  /\ pc = "stack"
  /\ link = 0 /\ sessions = 0 /\ unsent = 0
  /\ rxq = << >> /\ arrived = 0 /\ notified = << >>
  /\ commands = {} /\ dropped = {}
  /\ txq = << >> /\ sending = "no" /\ inFlight = Ok
  /\ writes = 0 /\ refused = {} /\ behind = FALSE
  /\ started = << >> /\ firsts = << >> /\ seconds = << >>

(* The messages that have not left the UART completely *)
Unsent == Len(txq) + IF sending = "no" THEN 0 ELSE 1

(* Wrong on purpose: one place too many is counted. *)
UartSendOverwriting(msg) ==
  /\ txq' = IF Len(txq) < TxNum THEN Append(txq, msg) ELSE txq
  /\ inFlight' = IF sending # "no" /\ Len(txq) + 2 >= TxNum THEN msg ELSE inFlight
  /\ behind' = (behind \/ Unsent >= TxNum)

(* ys_uart_send: the message is queued, or -1 is returned and it is gone,  *)
(* because neither of the two callers looks at the result.  The slot in    *)
(* flight, popped already, is the last one of the ring to be taken.        *)
UartSend(msg) ==
  /\ txq' = IF Len(txq) < TxNum THEN Append(txq, msg) ELSE txq
  /\ inFlight' = IF sending # "no" /\ Len(txq) = TxNum - 1 THEN msg ELSE inFlight
  /\ behind' = (behind \/ Unsent >= TxNum)

-----------------------------------------------------------------------------
(* The environment *)

(* The receiver closes a slot, in the interrupt or after a pause. *)
SlotClosed ==
  /\ arrived < MaxChunks
  /\ Len(rxq) < RxNum
  /\ arrived' = arrived + 1
  /\ \E at \in BOOLEAN :
       rxq' = Append(rxq, [id |-> arrived', at |-> at, session |-> link])
  /\ UNCHANGED <<pc, link, sessions, notified, commands, dropped, unsent, downVars>>

(* Advertising runs, and a central connects, in blt_sdk_main_loop. *)
Connect ==
  /\ pc = "stack" /\ link = 0 /\ sessions < MaxSessions
  /\ sessions' = sessions + 1 /\ link' = sessions'
  /\ UNCHANGED <<pc, upVars, downVars>>

(* A connection ends at any time, the notifications held back with it. *)
LinkDown ==
  /\ link # 0
  /\ link' = 0 /\ unsent' = 0
  /\ UNCHANGED <<pc, sessions, rxq, arrived, notified, commands, dropped, downVars>>

(* The radio takes a notification out of the stack's buffers. *)
RadioSends ==
  /\ unsent > 0
  /\ unsent' = unsent - 1
  /\ UNCHANGED <<pc, link, sessions, rxq, arrived, notified, commands, dropped, downVars>>

(* The DMA channel reads the two halves of the slot it was pointed at ... *)
DmaFirst ==
  /\ sending = "first"
  /\ sending' = "second"
  /\ firsts' = Append(firsts, inFlight)
  /\ UNCHANGED <<pc, link, sessions, upVars, outVars, started, seconds, writes, refused>>

(* ... and with the second one the transfer ends: the busy flag is cleared. *)
TxDone ==
  /\ sending = "second"
  /\ sending' = "no"
  /\ seconds' = Append(seconds, inFlight)
  /\ UNCHANGED <<pc, link, sessions, upVars, outVars, started, firsts, writes, refused>>

-----------------------------------------------------------------------------
(* The main loop *)

(* blt_sdk_main_loop delivers a write to the data characteristic:          *)
(* nus_onReceiveData, ble_nus_recv_handler                                 *)
CentralWrites ==
  /\ pc = "stack" /\ link # 0 /\ writes < MaxWrites
  /\ writes' = writes + 1
  /\ UartSend(writes')
  /\ refused' = IF Len(txq) = TxNum THEN refused \cup {writes'} ELSE refused
  /\ UNCHANGED <<pc, link, sessions, upVars, dmaVars>>

StackReturns ==
  /\ pc = "stack"
  /\ pc' = "offer"
  /\ UNCHANGED <<link, sessions, upVars, downVars>>

Pop == rxq' = Tail(rxq)

(* Wrong on purpose: what is not a command is kept for the next connection. *)
OfferKeeping ==
  /\ pc = "offer"
  /\ pc' = IF rxq # << >> /\ link # 0 THEN "notify" ELSE "send"
  /\ IF rxq # << >> /\ link = 0 /\ Head(rxq).at
     THEN UartSend(Ok) /\ Pop /\ commands' = commands \cup {Head(rxq).id}
     ELSE UNCHANGED <<outVars, rxq, commands>>
  /\ UNCHANGED <<link, sessions, arrived, notified, dropped, unsent, dmaVars, writes, refused>>

(* my_fifo_get, and ys_uart_recv_handler as far as ble_gap_connected.      *)
(* Without a connection ser2ble_at_process answers the bare command, stays *)
(* silent on everything else, and the slot is popped either way.           *)
Offer ==
  /\ pc = "offer"
  /\ \/ rxq = << >> /\ pc' = "send" /\ UNCHANGED <<rxq, commands, outVars>>
     \/ rxq # << >> /\ link # 0 /\ pc' = "notify" /\ UNCHANGED <<rxq, commands, outVars>>
     \/ /\ rxq # << >> /\ link = 0
        /\ commands' = commands \cup {Head(rxq).id}
        /\ IF Head(rxq).at THEN UartSend(Ok) ELSE UNCHANGED outVars
        /\ Pop
        /\ pc' = "send"
  /\ UNCHANGED <<link, sessions, arrived, notified, dropped, unsent, dmaVars, writes, refused>>

(* Wrong on purpose: a refused slot is popped ... *)
NotifyPopping ==
  /\ pc = "notify"
  /\ pc' = "send"
  /\ Pop
  /\ IF link # 0 /\ unsent < Buffers
     THEN notified' = Append(notified, <<link, Head(rxq).id>>) /\ unsent' = unsent + 1
     ELSE UNCHANGED <<notified, unsent>>
  /\ dropped' = IF link = 0 THEN dropped \cup {Head(rxq).id} ELSE dropped
  /\ UNCHANGED <<link, sessions, arrived, commands, downVars>>

(* ... or a slot that was notified is not. *)
NotifyTwice ==
  /\ pc = "notify"
  /\ pc' = "send"
  /\ IF link # 0 /\ unsent < Buffers
     THEN notified' = Append(notified, <<link, Head(rxq).id>>) /\ unsent' = unsent + 1
     ELSE UNCHANGED <<notified, unsent>>
  /\ UNCHANGED <<link, sessions, rxq, arrived, commands, dropped, downVars>>

(* ble_nus_send_data: 0, and the slot is gone, if the link is down by now; *)
(* otherwise what bls_att_pushNotifyData says, which refuses when its      *)
(* buffers are full.  The slot is popped on 0.                             *)
Notify ==
  /\ pc = "notify"
  /\ pc' = "send"
  /\ \/ /\ link = 0
        /\ dropped' = dropped \cup {Head(rxq).id}
        /\ Pop
        /\ UNCHANGED <<notified, unsent>>
     \/ /\ link # 0 /\ unsent < Buffers
        /\ notified' = Append(notified, <<link, Head(rxq).id>>)
        /\ unsent' = unsent + 1
        /\ Pop
        /\ UNCHANGED dropped
     \/ /\ link # 0 /\ unsent = Buffers
        /\ UNCHANGED <<rxq, notified, unsent, dropped>>
  /\ UNCHANGED <<link, sessions, arrived, commands, downVars>>

(* The sending half of ys_uart_process: the channel is pointed at the      *)
(* oldest slot, and the slot is popped at once.                            *)
UartProcess ==
  /\ pc = "send"
  /\ pc' = "stack"
  /\ \/ /\ txq # << >> /\ sending = "no"
        /\ started' = Append(started, Head(txq)) /\ inFlight' = Head(txq)
        /\ txq' = Tail(txq)
        /\ sending' = "first"
     \/ /\ txq = << >> \/ sending # "no"
        /\ UNCHANGED <<txq, inFlight, sending, started>>
  /\ UNCHANGED <<link, sessions, upVars, firsts, seconds, writes, refused, behind>>

MainLoop == StackReturns \/ Offer \/ Notify \/ UartProcess

Next ==
  \/ MainLoop \/ CentralWrites
  \/ SlotClosed \/ Connect \/ LinkDown \/ RadioSends \/ DmaFirst \/ TxDone

Spec == Init /\ [][Next]_vars

(* The main loop never stops; while a connection lasts the radio empties   *)
(* the stack's buffers; a transfer ends.  Nobody has to connect or write.  *)
FairSpec ==
  Spec /\ WF_vars(MainLoop) /\ WF_vars(RadioSends) /\ WF_vars(DmaFirst) /\ WF_vars(TxDone)

-----------------------------------------------------------------------------
(* What a central receives in one connection is an unbroken run of what    *)
(* the UART delivered: slots refused by the stack, and a main loop that    *)
(* finds the link up and loses it before it sends, leave no gap and no     *)
(* double inside a connection.                                             *)
UpWithoutGaps ==
  \A i \in 1 .. Len(notified) - 1 :
    notified[i][1] = notified[i + 1][1] => notified[i + 1][2] = notified[i][2] + 1

(* Every slot the receiver closes leaves the ring: a refused slot at its   *)
(* head does not block the others for ever, in a connection that stays, in *)
(* one that breaks while the slot is refused, and without one.             *)
SlotsServed ==
  \A k \in 1 .. MaxChunks :
    arrived >= k ~> \/ k \in commands \cup dropped
                    \/ \E i \in 1 .. Len(notified) : notified[i][2] = k

(* End to end, from the UART to the notifications, the program is the same *)
(* byte pipe that the receiver is, slot by slot, until a slot comes to its *)
(* turn without a connection.                                              *)
Pipe == INSTANCE BytePipe WITH
  sent <- arrived,
  got <- [i \in 1 .. Len(notified) |-> notified[i][2]],
  broken <- commands \cup dropped # {}
EndToEnd == Pipe!FairSpec

(* Types. *)
Closed == [id : Nat, at : BOOLEAN, session : Nat]
TypeOK ==
  /\ pc \in {"stack", "offer", "notify", "send"}
  /\ link \in Nat /\ sessions \in Nat /\ arrived \in Nat
  /\ unsent \in Nat
  /\ rxq \in Seq(Closed) /\ notified \in Seq(Nat \X Nat)

(* The ring holds the newest slots, without a gap, and the one in the      *)
(* handler's hands is its head.                                            *)
RingIsTail ==
  /\ \A i \in 1 .. Len(rxq) : rxq[i].id = arrived - Len(rxq) + i
  /\ Len(rxq) <= arrived
  /\ pc = "notify" => rxq # << >>

(* Notifications of this connection reach up to the ring; there are none   *)
(* of a connection to come; and before any slot was taken in another way   *)
(* they have been all slots there were.                                    *)
UpToRing ==
  /\ link \in {0, sessions}
  /\ \A i \in 1 .. Len(notified) : notified[i][1] <= sessions
  /\ \A i \in 1 .. Len(notified) :
       i = Len(notified) /\ link # 0 /\ notified[i][1] = link => notified[i][2] = arrived - Len(rxq)
  /\ commands \cup dropped = {} =>
       /\ Len(notified) = arrived - Len(rxq)
       /\ \A i \in 1 .. Len(notified) : notified[i][2] = i

IInv == TypeOK /\ RingIsTail /\ UpToRing /\ UpWithoutGaps

(* All that the queue ever took in, in order *)
Down == started \o txq

(* A half of transfer k was read from the message whose transfer it is, or *)
(* from the one that came TxNum places later and took its slot.            *)
FromItsSlot(halves) ==
  \A k \in 1 .. Len(halves) :
    \/ halves[k] = Down[k]
    \/ behind /\ k + TxNum <= Len(Down) /\ halves[k] = Down[k + TxNum]

(* What the central writes comes out of the UART whole, once and in order, *)
(* with answers to commands between, as long as no message is handed in    *)
(* while TxNum others have not left completely.  Who does that loses       *)
(* writes: those that meet a full queue are gone, because nobody looks at  *)
(* the result of ys_uart_send, and the message in flight may come out as   *)
(* halves of the one that takes its slot, and of no other.  What follows   *)
(* is again in order, and complete but for the refused writes.             *)
WritesInOrder ==
  /\ \A i, j \in 1 .. Len(Down) : i < j /\ Down[i] # Ok /\ Down[j] # Ok => Down[i] < Down[j]
  /\ {Down[i] : i \in 1 .. Len(Down)} \ {Ok} = (1 .. writes) \ refused
  /\ FromItsSlot(firsts) /\ FromItsSlot(seconds)
  /\ ~behind => refused = {}

(* Why: the queue never holds more than it has room for, only writes that  *)
(* have been made can have met it full ...                                 *)
QueueOK ==
  /\ txq \in Seq(Nat) /\ Len(txq) <= TxNum /\ started \in Seq(Nat)
  /\ writes \in Nat /\ refused \subseteq 1 .. writes

(* ... and the slot in flight is that of the last transfer started, unless *)
(* the queue is full and its last message has taken the slot.              *)
SlotOK ==
  /\ inFlight \in Nat /\ sending \in {"no", "first", "second"} /\ behind \in BOOLEAN
  /\ firsts \in Seq(Nat) /\ seconds \in Seq(Nat)
  /\ Len(started) = Len(firsts) + IF sending = "first" THEN 1 ELSE 0
  /\ Len(started) = Len(seconds) + IF sending = "no" THEN 0 ELSE 1
  /\ sending # "no" =>
       \/ inFlight = Down[Len(started)]
       \/ behind /\ Len(txq) = TxNum /\ inFlight = Down[Len(Down)]

DownInv == QueueOK /\ SlotOK /\ WritesInOrder
=============================================================================
