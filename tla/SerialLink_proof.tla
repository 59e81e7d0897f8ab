--------------------------- MODULE SerialLink_proof ---------------------------
(***************************************************************************)
(* The way up from the UART to the central, for every size of the rings    *)
(* and of the stack's buffers and every number of connections: inside a    *)
(* connection nothing is left out or sent twice, and the whole is a byte   *)
(* pipe until a slot comes to its turn without a connection.  And the way  *)
(* down: the central's writes leave whole and in order as long as no more  *)
(* messages are under way than the queue keeps apart, and what a central   *)
(* that writes more can lose.                                              *)
(***************************************************************************)
EXTENDS SerialLink, TLAPS

LEMMA InitHolds == Init => IInv
<1> SUFFICES ASSUME Init PROVE IInv
  OBVIOUS
<1>1. rxq \in Seq(Closed) /\ notified \in Seq(Nat \X Nat) /\ Len(rxq) = 0 /\ Len(notified) = 0
  BY DEF Init
<1>2. TypeOK
  BY <1>1 DEF Init, TypeOK
<1>3. RingIsTail
  BY <1>1 DEF Init, RingIsTail
<1>4. UpToRing
  <2>1. link = 0 /\ arrived = 0
    BY DEF Init
  <2>2. arrived - Len(rxq) = 0 /\ 1 .. Len(notified) = {}
    BY <1>1, <2>1
  <2> QED
    BY <1>1, <2>1, <2>2 DEF UpToRing
<1>5. UpWithoutGaps
  BY <1>1 DEF UpWithoutGaps
<1> QED
  BY <1>2, <1>3, <1>4, <1>5 DEF IInv

(* Taking the head of the ring *)
LEMMA Popped ==
  ASSUME TypeOK, RingIsTail, rxq # << >>, Pop, arrived' = arrived, pc' # "notify"
  PROVE  /\ rxq' \in Seq(Closed) /\ Len(rxq') = Len(rxq) - 1 /\ Len(rxq) \in Nat /\ Len(rxq) > 0
         /\ Head(rxq).id = arrived - Len(rxq) + 1
         /\ RingIsTail'
<1>1. /\ rxq' \in Seq(Closed) /\ Len(rxq') = Len(rxq) - 1 /\ Len(rxq) \in Nat /\ Len(rxq) > 0
      /\ \A i \in 1 .. Len(rxq') : rxq'[i] = rxq[i + 1]
      /\ Head(rxq) = rxq[1]
  BY DEF TypeOK, Pop
<1>2. Head(rxq).id = arrived - Len(rxq) + 1
  BY <1>1 DEF RingIsTail
<1>3. \A i \in 1 .. Len(rxq') : rxq'[i].id = arrived' - Len(rxq') + i
  <2> TAKE i \in 1 .. Len(rxq')
  <2>1. i + 1 \in 1 .. Len(rxq)
    BY <1>1
  <2>2. rxq[i + 1].id = arrived - Len(rxq) + (i + 1)
    BY <2>1 DEF RingIsTail
  <2> QED
    BY <1>1, <2>2 DEF TypeOK
<1> QED
  BY <1>1, <1>2, <1>3 DEF TypeOK, RingIsTail

(* A slot closed goes to the end of the ring. *)
LEMMA ClosedKeeps ==
  ASSUME IInv, SlotClosed
  PROVE  IInv'
<1>0. PICK at \in BOOLEAN : rxq' = Append(rxq, [id |-> arrived', at |-> at, session |-> link])
  BY DEF SlotClosed
<1>1. /\ arrived' = arrived + 1
      /\ UNCHANGED <<pc, link, sessions, notified, commands, dropped, unsent>>
  BY DEF SlotClosed
<1> DEFINE slot == [id |-> arrived', at |-> at, session |-> link]
<1>2. slot \in Closed /\ slot.id = arrived + 1
  BY <1>1 DEF IInv, TypeOK, Closed
<1> HIDE DEF slot
<1>3. /\ rxq' \in Seq(Closed) /\ Len(rxq') = Len(rxq) + 1 /\ Len(rxq) \in Nat
      /\ rxq'[Len(rxq) + 1] = slot
      /\ \A i \in 1 .. Len(rxq) : rxq'[i] = rxq[i]
  BY <1>0, <1>2 DEF IInv, TypeOK, slot
<1>4. TypeOK'
  BY <1>1, <1>3 DEF IInv, TypeOK
<1>5. RingIsTail'
  <2>1. ASSUME NEW i \in 1 .. Len(rxq') PROVE rxq'[i].id = arrived' - Len(rxq') + i
    <3>1. CASE i \in 1 .. Len(rxq)
      <4>1. rxq[i].id = arrived - Len(rxq) + i /\ arrived \in Nat
        BY <3>1 DEF IInv, TypeOK, RingIsTail
      <4>2. rxq'[i] = rxq[i] /\ arrived' = arrived + 1 /\ Len(rxq') = Len(rxq) + 1 /\ Len(rxq) \in Nat
        BY <1>1, <1>3, <3>1
      <4> QED
        BY <4>1, <4>2
    <3>2. CASE i = Len(rxq) + 1
      BY <1>1, <1>2, <1>3, <3>2 DEF IInv, TypeOK
    <3> QED
      BY <1>3, <3>1, <3>2
  <2> QED
    BY <1>1, <1>3, <2>1 DEF IInv, TypeOK, RingIsTail
<1>6. UpToRing' /\ UpWithoutGaps'
  <2>1. arrived' - Len(rxq') = arrived - Len(rxq)
    BY <1>1, <1>3 DEF IInv, TypeOK
  <2> QED
    BY <1>1, <2>1 DEF IInv, UpToRing, UpWithoutGaps
<1> QED
  BY <1>4, <1>5, <1>6 DEF IInv

(* Without a connection the head of the ring is read as a command, or      *)
(* dropped.                                                                *)
LEMMA TakenKeeps ==
  ASSUME IInv, rxq # << >>, Pop, link = 0, pc' = "send",
         UNCHANGED <<link, sessions, arrived, notified, unsent>>,
         commands' \cup dropped' # {}
  PROVE  IInv'
<1>1. rxq' \in Seq(Closed) /\ RingIsTail'
  BY Popped DEF IInv
<1>2. TypeOK'
  BY <1>1 DEF IInv, TypeOK
<1>3. UpToRing' /\ UpWithoutGaps'
  BY DEF IInv, UpToRing, UpWithoutGaps
<1> QED
  BY <1>1, <1>2, <1>3 DEF IInv

LEMMA OfferKeeps == IInv /\ Offer => IInv'
<1> SUFFICES ASSUME IInv, Offer PROVE IInv'
  OBVIOUS
<1>1. CASE rxq # << >> /\ link = 0
  <2>1. Pop /\ pc' = "send" /\ commands' # {}
    BY <1>1 DEF Offer
  <2> QED
    BY <1>1, <2>1, TakenKeeps DEF Offer
<1>2. CASE rxq = << >> \/ link # 0
  BY <1>2 DEF Offer, IInv, TypeOK, RingIsTail, UpToRing, UpWithoutGaps
<1> QED
  BY <1>1, <1>2

(* What a successful notification does to the list of notifications.       *)
LEMMA Notified ==
  ASSUME IInv, Notify, link # 0, unsent < Buffers
  PROVE  /\ rxq # << >> /\ Pop /\ pc' = "send"
         /\ UNCHANGED <<link, sessions, arrived, commands, dropped>>
         /\ unsent' \in Nat
         /\ notified' \in Seq(Nat \X Nat) /\ Len(notified') = Len(notified) + 1 /\ Len(notified) \in Nat
         /\ \A i \in 1 .. Len(notified) : notified'[i] = notified[i]
         /\ notified'[Len(notified) + 1] = <<link, arrived - Len(rxq) + 1>>
         /\ Len(rxq') = Len(rxq) - 1 /\ Len(rxq) \in Nat /\ Len(rxq) > 0
         /\ rxq' \in Seq(Closed) /\ RingIsTail'
<1>0. link # 0 /\ unsent < Buffers /\ unsent \in Nat /\ Buffers \in Nat
  BY LinkAssumption DEF IInv, TypeOK
<1>1. /\ rxq # << >> /\ Pop /\ pc' = "send"
      /\ UNCHANGED <<link, sessions, arrived, commands, dropped>>
      /\ unsent' = unsent + 1
      /\ notified' = Append(notified, <<link, Head(rxq).id>>)
  BY <1>0 DEF Notify, IInv, RingIsTail
<1>2. /\ Head(rxq).id = arrived - Len(rxq) + 1
      /\ rxq' \in Seq(Closed) /\ Len(rxq') = Len(rxq) - 1 /\ Len(rxq) \in Nat /\ Len(rxq) > 0
      /\ RingIsTail'
  BY <1>1, Popped DEF IInv
<1> DEFINE x == <<link, Head(rxq).id>>
<1>3. x \in Nat \X Nat
  BY <1>2 DEF IInv, TypeOK, RingIsTail
<1> HIDE DEF x
<1>4. notified' = Append(notified, x) /\ notified \in Seq(Nat \X Nat)
  BY <1>1 DEF x, IInv, TypeOK
<1>5. /\ notified' \in Seq(Nat \X Nat) /\ Len(notified') = Len(notified) + 1 /\ Len(notified) \in Nat
      /\ \A i \in 1 .. Len(notified) : notified'[i] = notified[i]
      /\ notified'[Len(notified) + 1] = x
  BY <1>3, <1>4
<1> QED
  BY <1>0, <1>1, <1>2, <1>5 DEF x

LEMMA NotifyKeeps == IInv /\ Notify => IInv'
<1> SUFFICES ASSUME IInv, Notify PROVE IInv'
  OBVIOUS
<1>1. CASE link = 0
  <2>1. Pop /\ pc' = "send" /\ dropped' # {} /\ rxq # << >>
    BY <1>1 DEF Notify, IInv, RingIsTail
  <2> QED
    BY <1>1, <2>1, TakenKeeps DEF Notify
<1>2. CASE link # 0 /\ unsent = Buffers
  <2>1. ~(unsent < Buffers)
    BY <1>2, LinkAssumption
  <2>2. UNCHANGED <<rxq, notified, unsent, dropped, link, sessions, arrived, commands>> /\ pc' = "send"
    BY <1>2, <2>1 DEF Notify
  <2> QED
    BY <2>2 DEF IInv, TypeOK, RingIsTail, UpToRing, UpWithoutGaps
<1>3. CASE link # 0 /\ unsent < Buffers
  <2> DEFINE n == Len(notified)
  <2>0. n \in Nat /\ arrived \in Nat /\ link \in Nat /\ sessions \in Nat /\ link = sessions
    BY <1>3 DEF IInv, TypeOK, UpToRing
  <2>1. /\ UNCHANGED <<link, sessions, arrived, commands, dropped>>
        /\ Len(notified') = n + 1
        /\ \A i \in 1 .. n : notified'[i] = notified[i]
        /\ notified'[n + 1] = <<link, arrived - Len(rxq) + 1>>
        /\ Len(rxq') = Len(rxq) - 1 /\ Len(rxq) \in Nat
    BY <1>3, Notified
  <2>2. TypeOK' /\ RingIsTail'
    BY <1>3, Notified DEF IInv, TypeOK
  <2>3. arrived' - Len(rxq') = arrived - Len(rxq) + 1
    BY <2>0, <2>1
  <2> HIDE DEF n
  <2>4. ASSUME NEW i \in 1 .. n + 1
        PROVE  /\ notified'[i][1] <= sessions
               /\ i = n + 1 => notified'[i][2] = arrived - Len(rxq) + 1
    <3>1. CASE i = n + 1
      BY <2>0, <2>1, <3>1
    <3>2. CASE i \in 1 .. n
      BY <2>0, <2>1, <3>2 DEF IInv, UpToRing, n
    <3> QED
      BY <2>0, <3>1, <3>2
  <2>5. ASSUME commands \cup dropped = {}
        PROVE  n = arrived - Len(rxq) /\ \A i \in 1 .. n + 1 : notified'[i][2] = i
    <3>1. n = arrived - Len(rxq) /\ \A i \in 1 .. n : notified[i][2] = i
      BY <2>5 DEF IInv, UpToRing, n
    <3> QED
      BY <2>0, <2>1, <3>1
  <2>6. UpToRing'
    BY <2>0, <2>1, <2>3, <2>4, <2>5 DEF UpToRing
  <2>7. ASSUME NEW i \in 1 .. n, notified'[i][1] = notified'[i + 1][1]
        PROVE  notified'[i + 1][2] = notified'[i][2] + 1
    <3>1. CASE i = n
      <4>1. notified[n][1] = link
        BY <2>1, <2>7, <3>1
      <4>2. notified[n][2] = arrived - Len(rxq)
        BY <1>3, <2>0, <2>7, <3>1, <4>1 DEF IInv, UpToRing, n
      <4> QED
        BY <2>0, <2>1, <2>7, <3>1, <4>2
    <3>2. CASE i # n
      <4>1. i \in 1 .. n - 1 /\ i + 1 \in 1 .. n
        BY <2>0, <2>7, <3>2
      <4> QED
        BY <2>0, <2>1, <2>7, <4>1 DEF IInv, UpWithoutGaps, n
    <3> QED
      BY <3>1, <3>2
  <2>8. UpWithoutGaps'
    BY <2>0, <2>1, <2>7 DEF UpWithoutGaps
  <2> QED
    BY <2>2, <2>6, <2>8 DEF IInv
<1> QED
  BY <1>1, <1>2, <1>3 DEF Notify

(* A new connection has a number no notification has yet. *)
LEMMA ConnectKeeps == IInv /\ Connect => IInv'
<1> SUFFICES ASSUME IInv, Connect PROVE IInv'
  OBVIOUS
<1>1. link' = sessions + 1 /\ sessions' = sessions + 1 /\ UNCHANGED <<pc, upVars>>
  BY DEF Connect
<1>2. TypeOK' /\ RingIsTail' /\ UpWithoutGaps'
  BY <1>1 DEF IInv, TypeOK, RingIsTail, UpWithoutGaps, upVars
<1>3. ASSUME NEW i \in 1 .. Len(notified)
      PROVE  notified[i][1] <= sessions + 1 /\ notified[i][1] # sessions + 1
  <2>1. notified[i] \in Nat \X Nat /\ sessions \in Nat
    BY DEF IInv, TypeOK
  <2> QED
    BY <2>1 DEF IInv, UpToRing
<1>4. UpToRing'
  BY <1>1, <1>3 DEF IInv, UpToRing, upVars
<1> QED
  BY <1>2, <1>4 DEF IInv

LEMMA OthersKeep ==
  IInv /\ (LinkDown \/ RadioSends \/ DmaFirst \/ TxDone \/ CentralWrites \/ StackReturns \/ UartProcess \/ UNCHANGED vars) => IInv'
<1> SUFFICES ASSUME IInv PROVE (LinkDown \/ RadioSends \/ DmaFirst \/ TxDone \/ CentralWrites \/ StackReturns \/ UartProcess \/ UNCHANGED vars) => IInv'
  OBVIOUS
<1> USE DEF IInv, TypeOK, RingIsTail, UpToRing, UpWithoutGaps, upVars
<1>1. ASSUME LinkDown PROVE IInv'
  BY <1>1 DEF LinkDown
<1>0. ASSUME RadioSends PROVE IInv'
  BY <1>0 DEF RadioSends
<1>2. ASSUME DmaFirst \/ TxDone \/ CentralWrites \/ StackReturns PROVE IInv'
  BY <1>2 DEF DmaFirst, TxDone, CentralWrites, StackReturns
<1>3. ASSUME UartProcess \/ UNCHANGED vars PROVE IInv'
  BY <1>3 DEF UartProcess, vars
<1> QED
  BY <1>0, <1>1, <1>2, <1>3

LEMMA Inductive == IInv /\ [Next]_vars => IInv'
  BY ClosedKeeps, OfferKeeps, NotifyKeeps, ConnectKeeps, OthersKeep DEF Next, MainLoop

-----------------------------------------------------------------------------
(* Every step is a step of the byte pipe, or does not show there.          *)
LEMMA PipeStep == IInv /\ [Next]_vars => [Pipe!Next]_(Pipe!pipeVars)
<1> SUFFICES ASSUME IInv, [Next]_vars PROVE [Pipe!Next]_(Pipe!pipeVars)
  OBVIOUS
<1> USE DEF Pipe!Next, Pipe!pipeVars
<1>1. CASE SlotClosed
  <2>1. arrived' = arrived + 1 /\ UNCHANGED <<notified, commands, dropped>>
    BY <1>1 DEF SlotClosed
  <2> QED
    BY <2>1 DEF Pipe!Enter
<1>2. CASE Offer
  <2>1. CASE commands' = commands
    BY <1>2, <2>1 DEF Offer
  <2>2. CASE commands' # commands
    <3>1. commands' # {} /\ UNCHANGED <<arrived, notified>>
      BY <1>2, <2>2 DEF Offer
    <3> QED
      BY <3>1 DEF Pipe!Break
  <2> QED
    BY <2>1, <2>2
<1>3. CASE Notify
  <2>1. CASE link = 0
    <3>1. dropped' # {} /\ UNCHANGED <<arrived, notified>>
      BY <1>3, <2>1 DEF Notify
    <3> QED
      BY <3>1 DEF Pipe!Break
  <2>2. CASE link # 0 /\ ~(unsent < Buffers)
    BY <1>3, <2>2 DEF Notify
  <2>3. CASE link # 0 /\ unsent < Buffers
    <3> DEFINE n == Len(notified)
               got == [i \in 1 .. Len(notified) |-> notified[i][2]]
    <3>1. /\ UNCHANGED <<arrived, commands, dropped>>
          /\ Len(notified') = n + 1 /\ n \in Nat
          /\ \A i \in 1 .. n : notified'[i] = notified[i]
          /\ notified'[n + 1] = <<link, arrived - Len(rxq) + 1>>
          /\ Len(rxq) \in Nat /\ Len(rxq) > 0
      BY <1>3, <2>3, Notified
    <3>2. CASE commands \cup dropped # {}
      BY <3>1, <3>2 DEF Pipe!Broken
    <3>3. CASE commands \cup dropped = {}
      <4>1. n = arrived - Len(rxq) /\ \A i \in 1 .. n : notified[i][2] = i
        BY <3>3 DEF IInv, UpToRing
      <4>2. arrived \in Nat /\ Len(got) = n
        BY <3>1 DEF IInv, TypeOK
      <4>3. \A i \in 1 .. n + 1 : notified'[i][2] = i
        BY <3>1, <4>1, <4>2
      <4>4. got' = [k \in 1 .. n + 1 |-> k]
        BY <3>1, <4>3
      <4>5. 1 \in 1 .. arrived - n
        BY <3>1, <4>1, <4>2
      <4> HIDE DEF n
      <4>6. Pipe!Leave(1)
        BY <3>1, <3>3, <4>2, <4>4 DEF Pipe!Leave
      <4> QED
        BY <4>2, <4>5, <4>6 DEF Pipe!Deliver
    <3> QED
      BY <3>2, <3>3
  <2> QED
    BY <2>1, <2>2, <2>3
<1>4. CASE Connect \/ LinkDown \/ RadioSends \/ DmaFirst \/ TxDone \/ CentralWrites \/ StackReturns \/ UartProcess \/ UNCHANGED vars
  <2>1. UNCHANGED <<arrived, notified, commands, dropped>>
    BY <1>4 DEF Connect, LinkDown, RadioSends, DmaFirst, TxDone, CentralWrites, StackReturns, UartProcess, vars, upVars
  <2> QED
    BY <2>1
<1> QED
  BY <1>1, <1>2, <1>3, <1>4 DEF Next, MainLoop

-----------------------------------------------------------------------------
(* The ring holds the newest slots, and the notifications reach up to it.  *)
THEOREM Invariant == Spec => []IInv
<1>1. Init => IInv
  BY InitHolds
<1>2. IInv /\ [Next]_vars => IInv'
  BY Inductive
<1> QED  BY <1>1, <1>2, PTL DEF Spec

(* What a central receives in one connection is an unbroken run of what    *)
(* the UART delivered, whatever the stack refuses and wherever connections *)
(* break.                                                                  *)
THEOREM NoGaps == Spec => []UpWithoutGaps
<1>1. IInv => UpWithoutGaps
  BY DEF IInv
<1> QED  BY <1>1, Invariant, PTL

(* From the closed slots to the notifications the program implements the   *)
(* byte pipe, slot by slot (without its promise to deliver, which needs    *)
(* fairness): it breaks only when a slot comes to its turn without a       *)
(* connection.                                                             *)
THEOREM PipeImplemented == Spec => Pipe!Spec
<1>1. Init => Pipe!Init
  <2>1. Init => [i \in 1 .. Len(notified) |-> notified[i][2]] = << >>
    BY DEF Init
  <2> QED
    BY <2>1 DEF Init, Pipe!Init
<1> QED  BY <1>1, PipeStep, Invariant, PTL DEF Spec, Pipe!Spec

-----------------------------------------------------------------------------
(* The way down.  A message that is queued goes to the end of all that the *)
(* UART was ever given or is to be given ...                               *)
LEMMA QueuedLast ==
  ASSUME QueueOK, NEW msg \in Nat, UNCHANGED started, txq' = Append(txq, msg)
  PROVE  /\ Len(Down) \in Nat /\ Len(Down') = Len(Down) + 1
         /\ Down'[Len(Down) + 1] = msg
         /\ \A i \in 1 .. Len(Down) : Down'[i] = Down[i] /\ Down[i] \in Nat
         /\ txq' \in Seq(Nat) /\ Len(txq') = Len(txq) + 1 /\ Len(txq) \in Nat
<1> DEFINE d == started \o txq
<1>1. txq \in Seq(Nat) /\ started \in Seq(Nat)
  BY DEF QueueOK
<1>2. d \in Seq(Nat) /\ Len(d) \in Nat
  BY <1>1
<1>3. Down' = Append(d, msg) /\ Down = d
  <2>1. started \o Append(txq, msg) = Append(started \o txq, msg)
    BY <1>1
  <2> QED
    BY <2>1 DEF Down
<1>4. txq' \in Seq(Nat) /\ Len(txq') = Len(txq) + 1 /\ Len(txq) \in Nat
  BY <1>1
<1> HIDE DEF d
<1> QED
  BY <1>2, <1>3, <1>4

LEMMA Reassembled ==
  ASSUME NEW s \in Seq(Nat), NEW t \in Seq(Nat), t # << >>
  PROVE  Append(s, Head(t)) \o Tail(t) = s \o t
BY SMTT(60)

LEMMA Lengths ==
  ASSUME QueueOK
  PROVE  /\ Down \in Seq(Nat) /\ Len(Down) = Len(started) + Len(txq)
         /\ Len(started) \in Nat /\ Len(txq) \in Nat /\ Len(txq) <= TxNum /\ TxNum \in Nat /\ TxNum > 0
BY LinkAssumption DEF QueueOK, Down

(* ... and a message whose transfer starts keeps its place.                *)
LEMMA GivenInPlace ==
  ASSUME QueueOK, txq # << >>, started' = Append(started, Head(txq)), txq' = Tail(txq)
  PROVE  /\ Down' = Down /\ started' \in Seq(Nat) /\ txq' \in Seq(Nat) /\ Len(txq') <= TxNum
         /\ Len(started') = Len(started) + 1 /\ Head(txq) = Down[Len(started) + 1]
<1>1. /\ txq \in Seq(Nat) /\ started \in Seq(Nat) /\ Head(txq) \in Nat /\ Tail(txq) \in Seq(Nat)
      /\ Len(txq) \in Nat /\ Len(txq) > 0 /\ Len(Tail(txq)) = Len(txq) - 1 /\ Len(txq) <= TxNum
      /\ Head(txq) = txq[1] /\ Len(started) \in Nat
  BY DEF QueueOK
<1>2. Append(started, Head(txq)) \o Tail(txq) = started \o txq
  BY <1>1, Reassembled
<1>3. Len(txq') <= TxNum
  BY <1>1, LinkAssumption
<1>4. Down' = Down
  BY <1>2 DEF Down
<1>5. started' \in Seq(Nat) /\ txq' \in Seq(Nat) /\ Len(started') = Len(started) + 1
  BY <1>1
<1>6. (started \o txq)[Len(started) + 1] = txq[1]
  BY <1>1
<1> QED
  BY <1>1, <1>3, <1>4, <1>5, <1>6 DEF Down

(* A message handed to ys_uart_send leaves every half where it came from,  *)
(* and takes no other slot in flight than the one TxNum places before it.  *)
LEMMA SlotsKept ==
  ASSUME DownInv, NEW msg \in Nat, UartSend(msg), UNCHANGED dmaVars
  PROVE  /\ SlotOK' /\ FromItsSlot(firsts)' /\ FromItsSlot(seconds)'
         /\ txq' \in Seq(Nat) /\ Len(txq') <= TxNum /\ started' \in Seq(Nat)
         /\ ~behind' => ~behind /\ Len(txq) < TxNum
<1> DEFINE n == Len(Down)
<1>1. /\ Down \in Seq(Nat) /\ n = Len(started) + Len(txq) /\ n \in Nat
      /\ Len(started) \in Nat /\ Len(txq) \in Nat /\ Len(txq) <= TxNum /\ TxNum \in Nat /\ TxNum > 0
  BY Lengths DEF DownInv
<1>2. /\ txq' = IF Len(txq) < TxNum THEN Append(txq, msg) ELSE txq
      /\ inFlight' = IF sending # "no" /\ Len(txq) = TxNum - 1 THEN msg ELSE inFlight
      /\ behind' = (behind \/ Unsent >= TxNum)
      /\ UNCHANGED <<sending, started, firsts, seconds>>
  BY DEF UartSend, dmaVars
<1>3. behind => behind'
  BY <1>2
<1>12. Unsent = Len(txq) + IF sending = "no" THEN 0 ELSE 1
  BY DEF Unsent
<1>13. ~(Len(txq) < TxNum) => Unsent >= TxNum
  BY <1>1, <1>12
<1>14. sending # "no" /\ Len(txq) = TxNum - 1 => Unsent >= TxNum
  BY <1>1, <1>12
<1>4. ~behind' => ~behind /\ Len(txq) < TxNum
  BY <1>2, <1>13
<1>5. behind' \in BOOLEAN
  BY <1>2
<1>6. /\ inFlight \in Nat /\ sending \in {"no", "first", "second"}
      /\ firsts \in Seq(Nat) /\ seconds \in Seq(Nat) /\ Len(firsts) \in Nat /\ Len(seconds) \in Nat
      /\ Len(started) = Len(firsts) + IF sending = "first" THEN 1 ELSE 0
      /\ Len(started) = Len(seconds) + IF sending = "no" THEN 0 ELSE 1
      /\ Len(firsts) <= n /\ Len(seconds) <= n
  <2>1. /\ inFlight \in Nat /\ sending \in {"no", "first", "second"}
        /\ firsts \in Seq(Nat) /\ seconds \in Seq(Nat)
        /\ Len(started) = Len(firsts) + IF sending = "first" THEN 1 ELSE 0
        /\ Len(started) = Len(seconds) + IF sending = "no" THEN 0 ELSE 1
    BY DEF DownInv, SlotOK
  <2>2. Len(firsts) \in Nat /\ Len(seconds) \in Nat
    BY <2>1
  <2>3. Len(firsts) <= Len(started) /\ Len(seconds) <= Len(started)
    BY <2>1, <2>2
  <2> HIDE DEF n
  <2> QED
    BY <1>1, <2>1, <2>2, <2>3
<1>7. sending # "no" => Len(started) \in 1 .. n
  BY <1>1, <1>6
<1>8. sending # "no" => \/ inFlight = Down[Len(started)]
                        \/ behind /\ Len(txq) = TxNum /\ inFlight = Down[n]
  BY DEF DownInv, SlotOK
<1>9. FromItsSlot(firsts) /\ FromItsSlot(seconds)
  BY DEF DownInv, WritesInOrder
<1>10. CASE Len(txq) < TxNum
  <2>1. /\ Len(Down') = n + 1 /\ Down'[n + 1] = msg
        /\ \A i \in 1 .. n : Down'[i] = Down[i]
        /\ txq' \in Seq(Nat) /\ Len(txq') = Len(txq) + 1
    BY <1>2, <1>10, QueuedLast DEF DownInv
  <2> HIDE DEF n
  <2>2. FromItsSlot(firsts)'
    <3> SUFFICES ASSUME NEW k \in 1 .. Len(firsts)
                 PROVE  \/ firsts[k] = Down'[k]
                        \/ behind' /\ k + TxNum <= Len(Down') /\ firsts[k] = Down'[k + TxNum]
      BY <1>2 DEF FromItsSlot
    <3>1. \/ firsts[k] = Down[k]
          \/ behind /\ k + TxNum <= n /\ firsts[k] = Down[k + TxNum]
      BY <1>9 DEF FromItsSlot, n
    <3>2. k \in 1 .. n /\ (k + TxNum <= n => k + TxNum \in 1 .. n)
      BY <1>1, <1>6
    <3> QED
      BY <1>1, <1>3, <2>1, <3>1, <3>2
  <2>3. FromItsSlot(seconds)'
    <3> SUFFICES ASSUME NEW k \in 1 .. Len(seconds)
                 PROVE  \/ seconds[k] = Down'[k]
                        \/ behind' /\ k + TxNum <= Len(Down') /\ seconds[k] = Down'[k + TxNum]
      BY <1>2 DEF FromItsSlot
    <3>1. \/ seconds[k] = Down[k]
          \/ behind /\ k + TxNum <= n /\ seconds[k] = Down[k + TxNum]
      BY <1>9 DEF FromItsSlot, n
    <3>2. k \in 1 .. n /\ (k + TxNum <= n => k + TxNum \in 1 .. n)
      BY <1>1, <1>6
    <3> QED
      BY <1>1, <1>3, <2>1, <3>1, <3>2
  <2>4. sending # "no" => \/ inFlight' = Down'[Len(started)]
                          \/ behind' /\ Len(txq') = TxNum /\ inFlight' = Down'[n + 1]
    <3>1. CASE sending # "no" /\ Len(txq) = TxNum - 1
      <4>1. behind' /\ inFlight' = msg
        BY <1>2, <1>14, <3>1
      <4>2. Len(txq') = TxNum
        BY <1>1, <2>1, <3>1
      <4> QED
        BY <2>1, <4>1, <4>2
    <3>2. CASE sending # "no" /\ Len(txq) # TxNum - 1
      <4>1. inFlight' = inFlight /\ inFlight = Down[Len(started)]
        BY <1>1, <1>2, <1>8, <1>10, <3>2
      <4> QED
        BY <1>7, <2>1, <3>2, <4>1
    <3> QED
      BY <3>1, <3>2
  <2>5. SlotOK'
    BY <1>2, <1>5, <1>6, <2>1, <2>4 DEF SlotOK
  <2>6. Len(txq') <= TxNum
    BY <1>1, <1>10, <2>1
  <2> QED
    BY <1>2, <1>4, <2>1, <2>2, <2>3, <2>5, <2>6 DEF DownInv, QueueOK
<1>11. CASE ~(Len(txq) < TxNum)
  <2>1. txq' = txq /\ inFlight' = inFlight /\ Down' = Down
    BY <1>1, <1>2, <1>11 DEF Down
  <2>2. SlotOK'
    BY <1>2, <1>3, <1>5, <2>1 DEF DownInv, SlotOK
  <2>3. FromItsSlot(firsts)' /\ FromItsSlot(seconds)'
    BY <1>2, <1>3, <1>9, <2>1 DEF FromItsSlot
  <2> QED
    BY <1>2, <1>4, <2>1, <2>2, <2>3 DEF DownInv, QueueOK
<1> QED
  BY <1>10, <1>11

(* An answer to a command                                                  *)
LEMMA AnswerKeeps ==
  ASSUME DownInv, UartSend(Ok), UNCHANGED <<dmaVars, writes, refused>>
  PROVE  DownInv'
<1>0. /\ SlotOK' /\ FromItsSlot(firsts)' /\ FromItsSlot(seconds)'
      /\ txq' \in Seq(Nat) /\ Len(txq') <= TxNum /\ started' \in Seq(Nat)
      /\ ~behind' => ~behind /\ Len(txq) < TxNum
  BY SlotsKept DEF Ok
<1>3. QueueOK'
  BY <1>0 DEF DownInv, QueueOK
<1>4. (~behind => refused = {})'
  BY <1>0 DEF DownInv, WritesInOrder
<1>1. CASE Len(txq) < TxNum
  <2>1. txq' = Append(txq, Ok) /\ Ok \in Nat
    BY <1>1 DEF UartSend, Ok
  <2>2. /\ Len(Down) \in Nat /\ Len(Down') = Len(Down) + 1 /\ Down'[Len(Down) + 1] = Ok
        /\ \A i \in 1 .. Len(Down) : Down'[i] = Down[i] /\ Down[i] \in Nat
    BY <2>1, QueuedLast DEF DownInv, dmaVars
  <2>4. \A i, j \in 1 .. Len(Down') : i < j /\ Down'[i] # Ok /\ Down'[j] # Ok => Down'[i] < Down'[j]
    <3> SUFFICES ASSUME NEW i \in 1 .. Len(Down'), NEW j \in 1 .. Len(Down'),
                        i < j, Down'[i] # Ok, Down'[j] # Ok
                 PROVE  Down'[i] < Down'[j]
      OBVIOUS
    <3>1. i \in 1 .. Len(Down) /\ j \in 1 .. Len(Down)
      BY <2>2
    <3>2. Down'[i] = Down[i] /\ Down'[j] = Down[j]
      BY <2>2, <3>1
    <3> QED
      BY <3>1, <3>2 DEF DownInv, WritesInOrder
  <2>5. {Down'[i] : i \in 1 .. Len(Down')} \ {Ok} = {Down[i] : i \in 1 .. Len(Down)} \ {Ok}
    <3>1. 1 .. Len(Down') = (1 .. Len(Down)) \cup {Len(Down) + 1}
      BY <2>2
    <3>2. Down'[Len(Down) + 1] = Ok /\ \A i \in 1 .. Len(Down) : Down'[i] = Down[i]
      BY <2>2
    <3> QED
      BY <3>1, <3>2
  <2> QED
    BY <1>0, <1>3, <1>4, <2>4, <2>5 DEF DownInv, WritesInOrder, Ok
<1>2. CASE ~(Len(txq) < TxNum)
  <2>1. Down' = Down
    BY <1>2 DEF UartSend, Down, dmaVars
  <2> QED
    BY <1>0, <1>3, <1>4, <2>1 DEF DownInv, WritesInOrder
<1> QED
  BY <1>1, <1>2

(* A write of the central, the greatest so far: into the queue, or lost.   *)
LEMMA WriteKeeps ==
  ASSUME DownInv, CentralWrites
  PROVE  DownInv'
<1> DEFINE m == writes + 1
<1>0. /\ writes' = m /\ UartSend(m) /\ UNCHANGED dmaVars /\ UNCHANGED started /\ writes \in Nat /\ m \in Nat
      /\ refused \subseteq 1 .. writes /\ Len(txq) \in Nat /\ Len(txq) <= TxNum /\ TxNum \in Nat
      /\ txq' = IF Len(txq) < TxNum THEN Append(txq, m) ELSE txq
      /\ refused' = IF Len(txq) = TxNum THEN refused \cup {m} ELSE refused
  BY LinkAssumption DEF CentralWrites, UartSend, DownInv, QueueOK, dmaVars
<1>1. \A i \in 1 .. Len(Down) : Down[i] # Ok => Down[i] \in 1 .. writes
  BY DEF DownInv, WritesInOrder
<1> HIDE DEF m
<1>4. /\ SlotOK' /\ FromItsSlot(firsts)' /\ FromItsSlot(seconds)'
      /\ txq' \in Seq(Nat) /\ Len(txq') <= TxNum /\ started' \in Seq(Nat)
      /\ ~behind' => ~behind /\ Len(txq) < TxNum
  BY <1>0, SlotsKept
<1>5. (~behind => refused = {})'
  BY <1>0, <1>4 DEF DownInv, WritesInOrder
<1>2. CASE Len(txq) < TxNum
  <2>1. /\ Len(Down) \in Nat /\ Len(Down') = Len(Down) + 1 /\ Down'[Len(Down) + 1] = m
        /\ \A i \in 1 .. Len(Down) : Down'[i] = Down[i] /\ Down[i] \in Nat
        /\ txq' \in Seq(Nat) /\ Len(txq') = Len(txq) + 1 /\ Len(txq) \in Nat
    BY <1>0, <1>2, QueuedLast DEF DownInv
  <2>2. refused' = refused /\ m # Ok /\ m = writes + 1
    BY <1>0, <1>2 DEF m, Ok
  <2>3. QueueOK'
    BY <1>0, <1>2, <1>4, <2>2 DEF DownInv, QueueOK
  <2>4. ASSUME NEW i \in 1 .. Len(Down'), NEW j \in 1 .. Len(Down'),
               i < j, Down'[i] # Ok, Down'[j] # Ok
        PROVE  Down'[i] < Down'[j]
    <3>1. CASE j = Len(Down) + 1
      <4>1. i \in 1 .. Len(Down) /\ Down'[i] = Down[i] /\ Down'[j] = m
        BY <2>1, <2>4, <3>1
      <4>2. Down[i] \in 1 .. writes
        BY <1>1, <2>4, <4>1
      <4> QED
        BY <1>0, <2>2, <4>1, <4>2
    <3>2. CASE j # Len(Down) + 1
      <4>1. i \in 1 .. Len(Down) /\ j \in 1 .. Len(Down)
        BY <2>1, <2>4, <3>2
      <4> QED
        BY <2>1, <2>4, <4>1 DEF DownInv, WritesInOrder
    <3> QED
      BY <3>1, <3>2
  <2>5. {Down'[i] : i \in 1 .. Len(Down')} = {Down[i] : i \in 1 .. Len(Down)} \cup {m}
    <3>1. 1 .. Len(Down') = (1 .. Len(Down)) \cup {Len(Down) + 1}
      BY <2>1
    <3>2. /\ \A i \in 1 .. Len(Down) : Down'[i] = Down[i]
          /\ Down'[Len(Down) + 1] = m
      BY <2>1
    <3> QED
      BY <3>1, <3>2
  <2>6. (1 .. m) \ refused = ((1 .. writes) \ refused) \cup {m}
    BY <1>0, <2>2
  <2>7. {Down[i] : i \in 1 .. Len(Down)} \ {Ok} = (1 .. writes) \ refused
    BY DEF DownInv, WritesInOrder
  <2>8. {Down'[i] : i \in 1 .. Len(Down')} \ {Ok} = (1 .. m) \ refused
    BY <2>2, <2>5, <2>6, <2>7
  <2>9. WritesInOrder'
    BY <1>0, <1>4, <1>5, <2>2, <2>4, <2>8 DEF WritesInOrder
  <2> QED
    BY <1>4, <2>3, <2>9 DEF DownInv
<1>3. CASE ~(Len(txq) < TxNum)
  <2>1. txq' = txq /\ refused' = refused \cup {m} /\ Down' = Down /\ m = writes + 1
    BY <1>0, <1>3 DEF Down, m
  <2>2. QueueOK'
    BY <1>0, <1>4, <2>1 DEF DownInv, QueueOK
  <2>3. (1 .. m) \ (refused \cup {m}) = (1 .. writes) \ refused
    BY <1>0, <2>1
  <2>4. WritesInOrder'
    BY <1>0, <1>4, <1>5, <2>1, <2>3 DEF DownInv, WritesInOrder
  <2> QED
    BY <1>4, <2>2, <2>4 DEF DownInv
<1> QED
  BY <1>2, <1>3

(* The next message is pointed at, out of the slot it was put into.        *)
LEMMA StartKeeps ==
  ASSUME DownInv, UartProcess
  PROVE  DownInv'
<1>0. UNCHANGED <<firsts, seconds, writes, refused, behind>>
  BY DEF UartProcess
<1>1. CASE UNCHANGED <<txq, inFlight, sending, started>>
  BY <1>0, <1>1 DEF DownInv, QueueOK, SlotOK, WritesInOrder, FromItsSlot, Down
<1>2. CASE /\ txq # << >> /\ sending = "no" /\ started' = Append(started, Head(txq))
           /\ inFlight' = Head(txq) /\ txq' = Tail(txq) /\ sending' = "first"
  <2>1. /\ Down' = Down /\ started' \in Seq(Nat) /\ txq' \in Seq(Nat) /\ Len(txq') <= TxNum
        /\ Len(started') = Len(started) + 1 /\ Head(txq) = Down[Len(started) + 1]
    BY <1>2, GivenInPlace DEF DownInv
  <2>2. QueueOK' /\ WritesInOrder'
    BY <1>0, <2>1 DEF DownInv, QueueOK, WritesInOrder, FromItsSlot
  <2>3. inFlight' \in Nat /\ inFlight' = Down'[Len(started')]
    BY <1>2, <2>1 DEF DownInv, QueueOK
  <2>4. Len(started) \in Nat /\ Len(firsts) = Len(started) /\ Len(seconds) = Len(started)
    BY <1>2 DEF DownInv, QueueOK, SlotOK
  <2>5. SlotOK'
    BY <1>0, <1>2, <2>1, <2>3, <2>4 DEF DownInv, SlotOK
  <2> QED
    BY <2>2, <2>5 DEF DownInv
<1> QED
  BY <1>1, <1>2 DEF UartProcess

(* Each half is read from the slot in flight as it is by then.             *)
LEMMA ReadKeeps ==
  ASSUME DownInv, DmaFirst \/ TxDone
  PROVE  DownInv'
<1>1. UNCHANGED <<txq, inFlight, behind, started, writes, refused>> /\ Down' = Down
  BY DEF DmaFirst, TxDone, outVars, Down
<1>2. /\ Down \in Seq(Nat) /\ Len(Down) = Len(started) + Len(txq)
      /\ Len(started) \in Nat /\ Len(txq) \in Nat /\ Len(txq) <= TxNum /\ TxNum \in Nat /\ TxNum > 0
  BY Lengths DEF DownInv
<1>3. /\ inFlight \in Nat /\ firsts \in Seq(Nat) /\ seconds \in Seq(Nat)
      /\ Len(firsts) \in Nat /\ Len(seconds) \in Nat
      /\ Len(started) = Len(firsts) + IF sending = "first" THEN 1 ELSE 0
      /\ Len(started) = Len(seconds) + IF sending = "no" THEN 0 ELSE 1
      /\ sending # "no" => \/ inFlight = Down[Len(started)]
                           \/ behind /\ Len(txq) = TxNum /\ inFlight = Down[Len(Down)]
  BY DEF DownInv, SlotOK
<1>8. Len(txq) = TxNum => Len(Down) = Len(started) + TxNum
  BY <1>2
<1>4. sending # "no" => \/ inFlight = Down[Len(started)]
                        \/ behind /\ Len(started) + TxNum <= Len(Down) /\ inFlight = Down[Len(started) + TxNum]
  <2> SUFFICES ASSUME sending # "no", Len(txq) = TxNum, behind, inFlight = Down[Len(Down)]
               PROVE  Len(started) + TxNum <= Len(Down) /\ inFlight = Down[Len(started) + TxNum]
    BY <1>3
  <2>1. Len(Down) = Len(started) + TxNum
    BY <1>8
  <2> QED
    BY <1>2, <2>1
<1>5. FromItsSlot(firsts) /\ FromItsSlot(seconds)
  BY DEF DownInv, WritesInOrder
<1>6. CASE DmaFirst
  <2>1. sending = "first" /\ sending' = "second" /\ firsts' = Append(firsts, inFlight) /\ seconds' = seconds
    BY <1>6 DEF DmaFirst
  <2>2. /\ firsts' \in Seq(Nat) /\ Len(firsts') = Len(firsts) + 1 /\ Len(firsts) + 1 = Len(started)
        /\ firsts'[Len(firsts) + 1] = inFlight
        /\ \A k \in 1 .. Len(firsts) : firsts'[k] = firsts[k]
    BY <1>3, <2>1
  <2>3. FromItsSlot(firsts)'
    <3> SUFFICES ASSUME NEW k \in 1 .. Len(firsts')
                 PROVE  \/ firsts'[k] = Down[k]
                        \/ behind /\ k + TxNum <= Len(Down) /\ firsts'[k] = Down[k + TxNum]
      BY <1>1 DEF FromItsSlot
    <3>1. k \in 1 .. Len(firsts) \/ k = Len(started)
      BY <1>3, <2>2
    <3>2. CASE k \in 1 .. Len(firsts)
      BY <1>5, <2>2, <3>2 DEF FromItsSlot
    <3>3. CASE k = Len(started)
      BY <1>4, <2>1, <2>2, <3>3
    <3> QED
      BY <3>1, <3>2, <3>3
  <2>4. FromItsSlot(seconds)'
    BY <1>1, <1>5, <2>1 DEF FromItsSlot
  <2>5. SlotOK'
    BY <1>1, <1>3, <2>1, <2>2 DEF DownInv, SlotOK
  <2> QED
    BY <1>1, <2>3, <2>4, <2>5 DEF DownInv, QueueOK, WritesInOrder
<1>7. CASE TxDone
  <2>1. sending = "second" /\ sending' = "no" /\ seconds' = Append(seconds, inFlight) /\ firsts' = firsts
    BY <1>7 DEF TxDone
  <2>2. /\ seconds' \in Seq(Nat) /\ Len(seconds') = Len(seconds) + 1 /\ Len(seconds) + 1 = Len(started)
        /\ seconds'[Len(seconds) + 1] = inFlight
        /\ \A k \in 1 .. Len(seconds) : seconds'[k] = seconds[k]
    BY <1>3, <2>1
  <2>3. FromItsSlot(seconds)'
    <3> SUFFICES ASSUME NEW k \in 1 .. Len(seconds')
                 PROVE  \/ seconds'[k] = Down[k]
                        \/ behind /\ k + TxNum <= Len(Down) /\ seconds'[k] = Down[k + TxNum]
      BY <1>1 DEF FromItsSlot
    <3>1. k \in 1 .. Len(seconds) \/ k = Len(started)
      BY <1>3, <2>2
    <3>2. CASE k \in 1 .. Len(seconds)
      BY <1>5, <2>2, <3>2 DEF FromItsSlot
    <3>3. CASE k = Len(started)
      BY <1>4, <2>1, <2>2, <3>3
    <3> QED
      BY <3>1, <3>2, <3>3
  <2>4. FromItsSlot(firsts)'
    BY <1>1, <1>5, <2>1 DEF FromItsSlot
  <2>5. SlotOK'
    BY <1>1, <1>3, <2>1, <2>2 DEF DownInv, SlotOK
  <2> QED
    BY <1>1, <2>3, <2>4, <2>5 DEF DownInv, QueueOK, WritesInOrder
<1> QED
  BY <1>6, <1>7

LEMMA DownInductive == DownInv /\ [Next]_vars => DownInv'
<1> SUFFICES ASSUME DownInv, [Next]_vars PROVE DownInv'
  OBVIOUS
<1>1. CASE UNCHANGED downVars
  BY <1>1 DEF DownInv, QueueOK, SlotOK, WritesInOrder, FromItsSlot, Down, downVars, outVars, dmaVars
<1>2. CASE Offer
  <2>1. UNCHANGED <<dmaVars, writes, refused>> /\ (UartSend(Ok) \/ UNCHANGED outVars)
    BY <1>2 DEF Offer
  <2> QED
    BY <1>1, <2>1, AnswerKeeps DEF downVars
<1>3. CASE StackReturns \/ Notify \/ SlotClosed \/ Connect \/ LinkDown \/ RadioSends \/ UNCHANGED vars
  BY <1>1, <1>3 DEF StackReturns, Notify, SlotClosed, Connect, LinkDown, RadioSends, vars
<1> QED
  BY <1>2, <1>3, WriteKeeps, StartKeeps, ReadKeeps DEF Next, MainLoop

(* What the central writes comes out of the UART whole, once and in order  *)
(* as long as no message is handed in while TxNum others have not left,    *)
(* for every depth of the queue; who does hand one in loses at most that   *)
(* message, if the queue is full, or the one in flight to it.              *)
THEOREM WritesKept == Spec => []WritesInOrder
<1>1. Init => DownInv
  <2> SUFFICES ASSUME Init PROVE DownInv
    OBVIOUS
  <2>1. << >> \in Seq(Nat) /\ Len(<< >>) = 0 /\ << >> \o << >> = << >> /\ 1 .. 0 = {}
    OBVIOUS
  <2>2. Down = << >> /\ writes = 0 /\ refused = {}
    BY <2>1 DEF Init, Down
  <2>3. SlotOK
    <3>1. /\ inFlight = 0 /\ sending = "no" /\ behind = FALSE
          /\ started = << >> /\ firsts = << >> /\ seconds = << >>
      BY DEF Init, Ok
    <3>2. inFlight \in Nat /\ firsts \in Seq(Nat) /\ seconds \in Seq(Nat)
      BY <3>1
    <3>3. Len(started) = 0 /\ Len(firsts) = 0 /\ Len(seconds) = 0
      BY <2>1, <3>1
    <3>4. sending \in {"no", "first", "second"} /\ ~(sending # "no") /\ sending # "first"
      BY <3>1
    <3>5. behind \in BOOLEAN
      BY <3>1
    <3>6. /\ Len(started) = Len(firsts) + IF sending = "first" THEN 1 ELSE 0
          /\ Len(started) = Len(seconds) + IF sending = "no" THEN 0 ELSE 1
      BY <3>3, <3>4
    <3> QED
      BY <3>2, <3>4, <3>5, <3>6 DEF SlotOK
  <2>4. FromItsSlot(firsts) /\ FromItsSlot(seconds)
    BY <2>1 DEF Init, FromItsSlot
  <2> QED
    BY <2>1, <2>2, <2>3, <2>4, LinkAssumption DEF Init, DownInv, QueueOK, WritesInOrder
<1>2. DownInv => WritesInOrder
  BY DEF DownInv
<1> QED  BY <1>1, <1>2, DownInductive, PTL DEF Spec
=============================================================================
