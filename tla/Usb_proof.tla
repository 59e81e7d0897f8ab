----------------------------- MODULE Usb_proof ------------------------------
(***************************************************************************)
(* Proofs about the three parts of the USB device that are modelled.       *)
(*                                                                         *)
(* Control transfers, for every size of packet and every set of            *)
(* descriptors: a reply is a beginning of the descriptor asked for and     *)
(* whole when the transfer ends well, whatever transfers were given up     *)
(* before; a request that is not supported is refused without data, or     *)
(* brings at most bytes of one reply that was given up.                    *)
(*                                                                         *)
(* The serial port, for every number of writes and every length, every     *)
(* order of writes, interrupts and tasks and any number of packets the     *)
(* host does not take: the packets of a buffer are put out once, in order  *)
(* and unmixed, those withdrawn are all that the host misses of it, and    *)
(* it is given back once and only after its last packet.                   *)
(*                                                                         *)
(* The HID devices, for every depth of usb_fifo and width of its counters: *)
(* the fifo holds the newest reports that had to wait, and host and device *)
(* agree on the data toggles.                                              *)
(***************************************************************************)
EXTENDS Usb, TLAPS

(* Sequences *)

LEMMA Appended ==
  ASSUME NEW S, NEW s \in Seq(S), NEW x \in S
  PROVE  /\ Append(s, x) \in Seq(S) /\ Len(Append(s, x)) = Len(s) + 1 /\ Len(s) \in Nat
         /\ Append(s, x)[Len(s) + 1] = x
         /\ \A i \in 1 .. Len(s) : Append(s, x)[i] = s[i] /\ s[i] \in S
  OBVIOUS

LEMMA Rest ==
  ASSUME NEW S, NEW s \in Seq(S), s # << >>
  PROVE  /\ Tail(s) \in Seq(S) /\ Len(Tail(s)) = Len(s) - 1 /\ Len(s) \in Nat /\ Len(s) > 0
         /\ Head(s) = s[1] /\ Head(s) \in S
         /\ \A i \in 1 .. Len(s) - 1 : Tail(s)[i] = s[i + 1]
  OBVIOUS

(* Distinct elements stay distinct when a new one is appended ... *)
LEMMA DistinctAppend ==
  ASSUME NEW S, NEW s \in Seq(S), NEW x \in S, Distinct(s), \A i \in 1 .. Len(s) : s[i] # x
  PROVE  Distinct(Append(s, x))
<1> DEFINE t == Append(s, x)
<1>1. /\ Len(t) = Len(s) + 1 /\ Len(s) \in Nat /\ t[Len(s) + 1] = x
      /\ \A i \in 1 .. Len(s) : t[i] = s[i]
  BY Appended
<1> HIDE DEF t
<1>2. ASSUME NEW i \in 1 .. Len(t), NEW j \in 1 .. Len(t), t[i] = t[j]
      PROVE  i = j
  <2>1. CASE i \in 1 .. Len(s) /\ j \in 1 .. Len(s)
    BY <1>1, <1>2, <2>1 DEF Distinct
  <2>2. CASE i = Len(s) + 1 \/ j = Len(s) + 1
    BY <1>1, <1>2, <2>2
  <2> QED
    BY <1>1, <2>1, <2>2
<1> QED
  BY <1>2 DEF Distinct, t

(* ... and when the first is taken away, which is none of the others. *)
LEMMA DistinctRest ==
  ASSUME NEW S, NEW s \in Seq(S), s # << >>, Distinct(s)
  PROVE  Distinct(Tail(s)) /\ \A i \in 1 .. Len(Tail(s)) : Tail(s)[i] # Head(s)
<1> DEFINE t == Tail(s)
<1>1. /\ Len(t) = Len(s) - 1 /\ Len(s) \in Nat /\ Len(s) > 0 /\ Head(s) = s[1]
      /\ \A i \in 1 .. Len(s) - 1 : t[i] = s[i + 1]
  BY Rest
<1> HIDE DEF t
<1>2. \A i \in 1 .. Len(t) : i + 1 \in 1 .. Len(s) /\ i + 1 # 1 /\ t[i] = s[i + 1]
  BY <1>1
<1>3. 1 \in 1 .. Len(s)
  BY <1>1
<1>4. \A i, j \in 1 .. Len(t) : t[i] = t[j] => i = j
  BY <1>2 DEF Distinct
<1>5. \A i \in 1 .. Len(t) : t[i] # Head(s)
  BY <1>1, <1>2, <1>3 DEF Distinct
<1> QED
  BY <1>4, <1>5 DEF Distinct, t

-----------------------------------------------------------------------------
(* Control transfers *)

USE DEF Replies

(* The packet that SendResponse lays out, and what is left for the next.   *)
LEMMA PacketSent ==
  ASSUME NEW p \in [at : [of : Replies, at : Nat], len : Nat], SendResponse(p)
  PROVE  /\ packet' \in Seq(Item)
         /\ Len(packet') = Lesser(p.len, Packet)
         /\ \A i \in 1 .. Len(packet') : packet'[i] = <<p.at.of, p.at.at + i>>
         /\ resp' = [of |-> p.at.of, at |-> p.at.at + Len(packet')]
         /\ resp' \in [of : Replies, at : Nat]
         /\ respLen' \in Nat /\ respLen' = p.len - Len(packet')
<1> DEFINE n == Lesser(p.len, Packet)
<1>1. n \in Nat /\ n <= p.len
  BY UsbControlAssumption DEF Lesser
<1>2. \A i \in 1 .. n : <<p.at.of, p.at.at + i>> \in Item
  BY <1>1 DEF Item
<1>3. packet' = [i \in 1 .. n |-> <<p.at.of, p.at.at + i>>]
  BY DEF SendResponse
<1>4. resp' = [p.at EXCEPT !.at = @ + n] /\ respLen' = p.len - n
  BY DEF SendResponse
<1> HIDE DEF n
<1>5. packet' \in Seq(Item) /\ Len(packet') = n
  BY <1>1, <1>2, <1>3
<1> QED
  BY <1>1, <1>3, <1>4, <1>5 DEF n

(* What a descriptor is sent from is a reply. *)
LEMMA PreparedTypes ==
  ASSUME TypeOK, NEW what \in Descs \cup Others, NEW len \in Nat
  PROVE  Prepared(what, len) \in [at : [of : Replies, at : Nat], len : Nat]
<1>1. CASE what \in Descs
  BY <1>1, UsbControlAssumption DEF Prepared, Lesser
<1>2. CASE what \notin Descs
  BY <1>2 DEF TypeOK, Prepared, Lesser, Null
<1> QED
  BY <1>1, <1>2

(* Appending a packet. *)
LEMMA Concatenated ==
  ASSUME NEW s \in Seq(Item), NEW t \in Seq(Item)
  PROVE  /\ s \o t \in Seq(Item) /\ Len(s \o t) = Len(s) + Len(t)
         /\ \A i \in 1 .. Len(s) : (s \o t)[i] = s[i]
         /\ \A i \in 1 .. Len(t) : (s \o t)[Len(s) + i] = t[i]
         /\ Len(s) \in Nat /\ Len(t) \in Nat
  OBVIOUS

LEMMA InitHolds == Init => IInv
<1> SUFFICES ASSUME Init PROVE IInv
  OBVIOUS
<1>1. << >> \in Seq(Item)
  OBVIOUS
<1>2. TypeOK
  BY <1>1 DEF Init, TypeOK, Null, Others, Refusable
<1>3. Stages /\ Underway /\ Complete /\ Stalled /\ ReplyIsPrefix /\ ReplyIsWhole /\ Refused
  BY DEF Init, Stages, Underway, Complete, Stalled, ReplyIsPrefix, ReplyIsWhole, Refused
<1>4. Remainder /\ Leaking
  BY UsbControlAssumption DEF Init, Null, Remainder, Leaking, Others, Refusable
<1> QED
  BY <1>2, <1>3, <1>4 DEF IInv

(* Bytes of a reply that was given up, up to the place the pointer has     *)
(* reached, are stale.                                                     *)
LEMMA StaleUpTo ==
  ASSUME NEW s \in Seq(Item), NEW d, NEW at \in Nat, d \in givenUp, TypeOK,
         Len(s) <= at, at <= Size[d],
         \A i \in 1 .. Len(s) : s[i] = <<d, at - Len(s) + i>>
  PROVE  Stale(s)
<1> DEFINE o == at - Len(s)
<1>1. Len(s) \in Nat /\ d \in Descs /\ Size[d] \in Nat
  BY UsbControlAssumption DEF TypeOK
<1>2. o \in 0 .. Size[d] /\ o + Len(s) <= Size[d] /\ \A i \in 1 .. Len(s) : s[i] = <<d, o + i>>
  BY <1>1
<1> HIDE DEF o
<1> QED
  BY <1>2 DEF Stale

(* The handlers of SETUP and DATA send the next packet of p, which for a   *)
(* descriptor begins where the host is.                                    *)
LEMMA Handled ==
  ASSUME IInv, NEW p \in [at : [of : Replies, at : Nat], len : Nat],
         HandleRequest(req, p), phase = "in", irq \in {"setup", "data"}, irq' = "none",
         UNCHANGED <<req, phase, got>>,
         req.what \in Descs =>
           p.at = [of |-> req.what, at |-> Len(got)] /\ Len(got) + p.len = Lesser(Size[req.what], req.len),
         givenUp' = givenUp,
         p.at.of = "null" => p.len = 0,
         p.at.of \in Descs => p.at.at + p.len <= Size[p.at.of],
         p.len > 0 => p.at.of \in givenUp \/ req.what = p.at.of,
         req.what = "nowhere" =>
           /\ Len(got) <= p.at.at /\ Len(got) + p.len <= req.len
           /\ Len(got) + p.len > 0 => p.at.of \in givenUp
           /\ \A i \in 1 .. Len(got) : got[i] = <<p.at.of, p.at.at - Len(got) + i>>
  PROVE  IInv'
<1>1. TypeOK'
  <2>1. CASE ByResponse(req.what) /\ SendResponse(p)
    BY <2>1, PacketSent DEF IInv, TypeOK, HandleRequest
  <2>2. CASE ~ByResponse(req.what) /\ UNCHANGED <<resp, respLen>>
             /\ packet' = IF req.what = "getbyte" THEN <<<<req.what, 1>>>> ELSE << >>
    <3>1. packet' \in Seq(Item)
      <4>1. <<"getbyte", 1>> \in Item
        BY DEF Item
      <4> QED
        BY <2>2, <4>1
    <3> QED
      BY <2>2, <3>1 DEF IInv, TypeOK, HandleRequest
  <2> QED
    BY <2>1, <2>2 DEF HandleRequest
<1>2. Stages'
  BY DEF HandleRequest, Stages
<1>3. Underway'
  <2> SUFFICES ASSUME req.what \in Descs
               PROVE  /\ resp' = [of |-> req.what, at |-> Len(got) + Len(packet')]
                      /\ Len(got) + Len(packet') + respLen' = Lesser(Size[req.what], req.len)
                      /\ \A i \in 1 .. Len(packet') : packet'[i] = <<req.what, Len(got) + i>>
                      /\ Len(packet') < Packet => respLen' = 0
    BY DEF Underway
  <2>1. SendResponse(p)
    BY DEF HandleRequest, ByResponse
  <2>2. Len(got) \in Nat /\ p.len \in Nat /\ Packet \in Nat
    BY UsbControlAssumption DEF IInv, TypeOK
  <2>3. /\ p.at = [of |-> req.what, at |-> Len(got)]
        /\ Len(got) + p.len = Lesser(Size[req.what], req.len)
    OBVIOUS
  <2>4. /\ Len(packet') = Lesser(p.len, Packet)
        /\ \A i \in 1 .. Len(packet') : packet'[i] = <<p.at.of, p.at.at + i>>
        /\ resp' = [of |-> p.at.of, at |-> p.at.at + Len(packet')]
        /\ respLen' = p.len - Len(packet')
    BY <2>1, PacketSent
  <2>5. Len(packet') \in Nat /\ (Len(packet') < Packet => Len(packet') = p.len)
    BY <2>2, <2>4 DEF Lesser
  <2>6. p.at.of = req.what /\ p.at.at = Len(got)
    BY <2>3
  <2>7. Len(got) + Len(packet') + respLen' = Lesser(Size[req.what], req.len)
    BY <2>2, <2>3, <2>4, <2>5
  <2> QED
    BY <2>2, <2>4, <2>5, <2>6, <2>7
<1>4. Stalled'
  BY DEF IInv, Stages, Stalled, HandleRequest
<1>5. ReplyIsPrefix' /\ ReplyIsWhole' /\ Complete'
  BY DEF IInv, ReplyIsPrefix, ReplyIsWhole, Complete
<1>6. /\ p.at.of \in Replies /\ p.at.at \in Nat /\ p.len \in Nat /\ Len(got) \in Nat /\ got \in Seq(Item)
      /\ req.len \in Nat /\ resp.of \in Replies /\ resp.at \in Nat /\ respLen \in Nat
  BY DEF IInv, TypeOK
<1>7. ASSUME SendResponse(p)
      PROVE  /\ Len(packet') \in Nat /\ Len(packet') <= p.len
             /\ \A i \in 1 .. Len(packet') : packet'[i] = <<p.at.of, p.at.at + i>>
             /\ resp'.of = p.at.of /\ resp'.at = p.at.at + Len(packet')
             /\ respLen' = p.len - Len(packet') /\ respLen' \in Nat
  <2>1. /\ Len(packet') = Lesser(p.len, Packet)
        /\ \A i \in 1 .. Len(packet') : packet'[i] = <<p.at.of, p.at.at + i>>
        /\ resp' = [of |-> p.at.of, at |-> p.at.at + Len(packet')]
        /\ respLen' \in Nat /\ respLen' = p.len - Len(packet')
    BY <1>7, PacketSent
  <2>2. Len(packet') \in Nat /\ Len(packet') <= p.len
    BY <1>6, <2>1, UsbControlAssumption DEF Lesser
  <2> QED
    BY <2>1, <2>2
<1>8. Remainder'
  <2>1. req.what \in Descs => ep' # "stall"
    BY UsbControlAssumption DEF HandleRequest, Others
  <2>2. CASE SendResponse(p)
    <3>1. resp'.of = "null" => respLen' = 0
      BY <1>6, <1>7, <2>2
    <3>2. resp'.of \in Descs => resp'.at + respLen' <= Size[resp'.of]
      <4>1. p.at.of \in Descs => Size[p.at.of] \in Nat
        BY UsbControlAssumption
      <4> QED
        BY <1>6, <1>7, <2>2, <4>1
    <3>3. respLen' > 0 => resp'.of \in givenUp \/ req.what = resp'.of
      BY <1>6, <1>7, <2>2
    <3> QED
      BY <2>1, <3>1, <3>2, <3>3 DEF Remainder
  <2>3. CASE UNCHANGED <<resp, respLen>>
    BY <2>1, <2>3 DEF IInv, Remainder
  <2> QED
    BY <2>2, <2>3 DEF HandleRequest
<1>9. Leaking'
  <2> SUFFICES ASSUME req.what = "nowhere"
               PROVE  /\ Len(got) + Len(packet') <= resp'.at /\ Len(got) + Len(packet') <= req.len
                      /\ Len(got) + Len(packet') + respLen' <= req.len
                      /\ Len(got) + Len(packet') > 0 => resp'.of \in givenUp
                      /\ \A i \in 1 .. Len(got) :
                            got[i] = <<resp'.of, resp'.at - (Len(got) + Len(packet')) + i>>
                      /\ \A i \in 1 .. Len(packet') :
                            packet'[i] = <<resp'.of, resp'.at - (Len(got) + Len(packet')) + Len(got) + i>>
    BY DEF Leaking
  <2>1. SendResponse(p)
    BY DEF HandleRequest, ByResponse
  <2>2. \A i \in 1 .. Len(got) :
          got[i] = <<p.at.of, p.at.at - Len(got) + i>>
          /\ resp'.at - (Len(got) + Len(packet')) + i = p.at.at - Len(got) + i
    <3>1. \A i \in Nat : resp'.at - (Len(got) + Len(packet')) + i = p.at.at - Len(got) + i
      BY <1>6, <1>7, <2>1
    <3>2. \A i \in 1 .. Len(got) : i \in Nat
      OBVIOUS
    <3> QED
      BY <3>1, <3>2
  <2>3. \A i \in 1 .. Len(packet') :
          packet'[i] = <<p.at.of, p.at.at + i>>
          /\ resp'.at - (Len(got) + Len(packet')) + Len(got) + i = p.at.at + i
    <3>1. \A i \in Nat : resp'.at - (Len(got) + Len(packet')) + Len(got) + i = p.at.at + i
      BY <1>6, <1>7, <2>1
    <3>2. \A i \in 1 .. Len(packet') : i \in Nat /\ packet'[i] = <<p.at.of, p.at.at + i>>
      BY <1>7, <2>1
    <3> QED
      BY <3>1, <3>2
  <2>4. /\ Len(got) + Len(packet') <= resp'.at /\ Len(got) + Len(packet') <= req.len
        /\ Len(got) + Len(packet') + respLen' <= req.len
        /\ Len(got) + Len(packet') > 0 => resp'.of \in givenUp
    <3> DEFINE g == Len(got)
               m == Len(packet')
    <3>1. /\ g \in Nat /\ m \in Nat /\ m <= p.len /\ p.len \in Nat /\ p.at.at \in Nat /\ req.len \in Nat
          /\ resp'.at = p.at.at + m /\ respLen' = p.len - m /\ resp'.of = p.at.of
      BY <1>6, <1>7, <2>1
    <3>2. g <= p.at.at /\ g + p.len <= req.len /\ (g + p.len > 0 => p.at.of \in givenUp)
      OBVIOUS
    <3> HIDE DEF g, m
    <3>3. g + m <= resp'.at /\ g + m <= req.len /\ g + m + respLen' <= req.len
      BY <3>1, <3>2
    <3>4. g + m > 0 => resp'.of \in givenUp
      BY <3>1, <3>2
    <3> QED
      BY <3>3, <3>4 DEF g, m
  <2> QED
    BY <1>7, <2>1, <2>2, <2>3, <2>4
<1>10. Refused'
  <2>1. req.what \in Refusable => got = << >>
    BY DEF IInv, Stages, Stalled
  <2>2. req.what = "nowhere" => Len(got) <= req.len
    BY <1>6
  <2>3. ASSUME req.what = "nowhere", got # << >> PROVE Stale(got)
    <3>1. p.at.of \in givenUp /\ Len(got) > 0
      BY <1>6, <2>3
    <3>2. p.at.of \in Descs /\ Size[p.at.of] \in Nat
      BY <3>1, UsbControlAssumption DEF IInv, TypeOK
    <3>3. p.at.at <= Size[p.at.of]
      BY <1>6, <3>2
    <3> QED
      BY <1>6, <2>3, <3>1, <3>3, StaleUpTo DEF IInv
  <2>4. Stale(got)' = Stale(got)
    BY DEF Stale
  <2> QED
    BY <2>1, <2>2, <2>3, <2>4 DEF Refused
<1> QED
  BY <1>1, <1>2, <1>3, <1>4, <1>5, <1>8, <1>9, <1>10 DEF IInv

LEMMA SetupKeeps == IInv /\ EpSetup => IInv'
<1> SUFFICES ASSUME IInv, EpSetup PROVE IInv'
  OBVIOUS
<1> DEFINE p == Prepared(req.what, req.len)
<1>1. p \in [at : [of : Replies, at : Nat], len : Nat]
  BY PreparedTypes DEF IInv, TypeOK
<1>2. phase = "in" /\ got = << >> /\ Len(got) = 0
  BY DEF EpSetup, IInv, Stages
<1>3. req.what \in Descs =>
        p.at = [of |-> req.what, at |-> 0] /\ p.len = Lesser(Size[req.what], req.len) /\ p.len \in Nat
  BY UsbControlAssumption DEF Prepared, Lesser, IInv, TypeOK
<1>5. /\ resp \in [of : Replies, at : Nat] /\ respLen \in Nat /\ req.len \in Nat /\ "null" \notin Descs
      /\ resp.of = "null" => respLen = 0
      /\ resp.of \in Descs => resp.at + respLen <= Size[resp.of]
      /\ respLen > 0 => resp.of \in givenUp
  BY UsbControlAssumption DEF EpSetup, IInv, TypeOK, Remainder
<1>6. ASSUME req.what \notin Descs
      PROVE  \/ p.at = Null /\ p.len = 0 /\ req.what = "unknown"
             \/ p.at = resp /\ p.len \in Nat /\ p.len <= respLen /\ p.len <= req.len
  BY <1>5, <1>6 DEF Prepared, Lesser
<1>7. /\ p.at.of = "null" => p.len = 0
      /\ p.at.of \in Descs => p.at.at + p.len <= Size[p.at.of]
      /\ p.len > 0 => p.at.of \in givenUp \/ req.what = p.at.of
  <2>1. CASE req.what \in Descs
    <3>1. Size[req.what] \in Nat /\ p.at.of = req.what /\ p.at.at = 0 /\ p.len <= Size[req.what]
      BY <1>3, <1>5, <2>1, UsbControlAssumption DEF Lesser
    <3> QED
      BY <1>3, <1>5, <2>1, <3>1
  <2>2. CASE req.what \notin Descs
    <3> HIDE DEF p
    <3>1. CASE p.at = Null /\ p.len = 0
      BY <1>5, <3>1 DEF Null
    <3>2. CASE p.at = resp /\ p.len \in Nat /\ p.len <= respLen
      <4>1. resp.of \in Descs => Size[resp.of] \in Nat /\ resp.at \in Nat
        BY <1>5, UsbControlAssumption
      <4> QED
        BY <1>5, <3>2, <4>1
    <3> QED
      BY <1>6, <2>2, <3>1, <3>2
  <2> QED
    BY <2>1, <2>2
<1>8. req.what = "nowhere" =>
        /\ Len(got) <= p.at.at /\ Len(got) + p.len <= req.len
        /\ Len(got) + p.len > 0 => p.at.of \in givenUp
        /\ \A i \in 1 .. Len(got) : got[i] = <<p.at.of, p.at.at - Len(got) + i>>
  <2> SUFFICES ASSUME req.what = "nowhere"
               PROVE  /\ Len(got) <= p.at.at /\ Len(got) + p.len <= req.len
                      /\ Len(got) + p.len > 0 => p.at.of \in givenUp
                      /\ \A i \in 1 .. Len(got) : got[i] = <<p.at.of, p.at.at - Len(got) + i>>
    OBVIOUS
  <2>1. req.what \notin Descs
    BY UsbControlAssumption DEF Others
  <2> HIDE DEF p
  <2>2. p.at = resp /\ p.len \in Nat /\ p.len <= respLen /\ p.len <= req.len
    BY <1>6, <2>1
  <2> QED
    BY <1>2, <1>5, <2>2
<1> HIDE DEF p
<1>4. /\ HandleRequest(req, p) /\ irq = "setup" /\ irq' = "none" /\ UNCHANGED <<req, phase, got>>
      /\ givenUp' = givenUp
  BY DEF EpSetup, p
<1>9. irq \in {"setup", "data"} /\ (req.what \in Descs =>
        p.at = [of |-> req.what, at |-> Len(got)] /\ Len(got) + p.len = Lesser(Size[req.what], req.len))
  BY <1>2, <1>3, <1>4
<1> QED
  BY <1>1, <1>2, <1>4, <1>7, <1>8, <1>9, Handled

LEMMA DataKeeps == IInv /\ EpData => IInv'
<1> SUFFICES ASSUME IInv, EpData PROVE IInv'
  OBVIOUS
<1> DEFINE p == [at |-> resp, len |-> respLen]
<1>1. p \in [at : [of : Replies, at : Nat], len : Nat]
  BY DEF IInv, TypeOK
<1>2. phase = "in" /\ packet = << >> /\ Len(packet) = 0 /\ Len(got) \in Nat
  BY DEF EpData, IInv, Stages, TypeOK
<1>3. req.what \in Descs =>
        p.at = [of |-> req.what, at |-> Len(got)] /\ Len(got) + p.len = Lesser(Size[req.what], req.len)
  BY <1>2 DEF EpData, IInv, Underway
<1>5. /\ p.at.of = "null" => p.len = 0
      /\ p.at.of \in Descs => p.at.at + p.len <= Size[p.at.of]
      /\ p.len > 0 => p.at.of \in givenUp \/ req.what = p.at.of
  BY DEF IInv, Remainder
<1>6. req.what = "nowhere" =>
        /\ Len(got) <= p.at.at /\ Len(got) + p.len <= req.len
        /\ Len(got) + p.len > 0 => p.at.of \in givenUp
        /\ \A i \in 1 .. Len(got) : got[i] = <<p.at.of, p.at.at - Len(got) + i>>
  <2> SUFFICES ASSUME req.what = "nowhere"
               PROVE  /\ Len(got) <= resp.at /\ Len(got) + respLen <= req.len
                      /\ Len(got) + respLen > 0 => resp.of \in givenUp
                      /\ \A i \in 1 .. Len(got) : got[i] = <<resp.of, resp.at - Len(got) + i>>
    OBVIOUS
  <2>1. Len(got) + Len(packet) = Len(got) /\ irq = "data" /\ resp.of # "nowhere" /\ respLen \in Nat
    BY <1>2, UsbControlAssumption DEF EpData, Others, IInv, TypeOK
  <2>2. /\ Len(got) <= resp.at /\ Len(got) + respLen <= req.len
        /\ Len(got) > 0 => resp.of \in givenUp
        /\ \A i \in 1 .. Len(got) : got[i] = <<resp.of, resp.at - Len(got) + i>>
    BY <1>2, <2>1 DEF IInv, Leaking
  <2>3. respLen > 0 => resp.of \in givenUp
    BY <2>1 DEF IInv, Remainder
  <2> QED
    BY <1>2, <2>1, <2>2, <2>3
<1> HIDE DEF p
<1>4. /\ HandleRequest(req, p) /\ irq = "data" /\ irq' = "none" /\ UNCHANGED <<req, phase, got>>
      /\ givenUp' = givenUp
  BY DEF EpData, p
<1> QED
  BY <1>1, <1>2, <1>3, <1>4, <1>5, <1>6, Handled

(* The host takes a packet: what it has got grows by the next bytes of the *)
(* descriptor, and it goes on to the status stage only with all of it.     *)
LEMMA TakeKeeps == IInv /\ TakePacket => IInv'
<1> SUFFICES ASSUME IInv, TakePacket PROVE IInv'
  OBVIOUS
<1>1. /\ phase = "in" /\ irq = "none" /\ ep = "data" /\ UNCHANGED device
      /\ got' = got \o packet /\ packet' = << >> /\ ep' = "nak"
      /\ \/ phase' = "status" /\ irq' = "status" /\ (Len(packet) < Packet \/ Len(got') = req.len)
         \/ phase' = "in" /\ irq' = "data"
  BY DEF TakePacket
<1>2. /\ got' \in Seq(Item) /\ Len(got') = Len(got) + Len(packet)
      /\ \A i \in 1 .. Len(got) : got'[i] = got[i]
      /\ \A i \in 1 .. Len(packet) : got'[Len(got) + i] = packet[i]
      /\ Len(got) \in Nat /\ Len(packet) \in Nat
  BY <1>1, Concatenated DEF IInv, TypeOK
<1>3. TypeOK' /\ Stages'
  <2>1. givenUp' = givenUp
    BY DEF TakePacket
  <2> QED
    BY <1>1, <1>2, <2>1 DEF IInv, TypeOK, Stages, device
<1>4. req.what \notin Refusable
  BY <1>1 DEF IInv, Stalled
<1>5. Stalled'
  BY <1>1, <1>4 DEF Stalled, device
<1>8. UNCHANGED <<req, resp, respLen, givenUp>> /\ Len(packet') = 0
  BY <1>1 DEF TakePacket, device
<1>9. Leaking'
  <2> SUFFICES ASSUME req.what = "nowhere"
               PROVE  /\ Len(got') + Len(packet') <= resp.at /\ Len(got') + Len(packet') <= req.len
                      /\ phase' = "in" => Len(got') + Len(packet') + respLen <= req.len
                      /\ Len(got') + Len(packet') > 0 => resp.of \in givenUp
                      /\ \A i \in 1 .. Len(got') :
                            got'[i] = <<resp.of, resp.at - (Len(got') + Len(packet')) + i>>
                      /\ \A i \in 1 .. Len(packet') :
                            packet'[i] = <<resp.of, resp.at - (Len(got') + Len(packet')) + Len(got') + i>>
    BY <1>8 DEF Leaking
  <2>1. /\ Len(got) + Len(packet) <= resp.at /\ Len(got) + Len(packet) <= req.len
        /\ Len(got) + Len(packet) + respLen <= req.len
        /\ Len(got) + Len(packet) > 0 => resp.of \in givenUp
        /\ \A i \in 1 .. Len(got) : got[i] = <<resp.of, resp.at - (Len(got) + Len(packet)) + i>>
        /\ \A i \in 1 .. Len(packet) :
              packet[i] = <<resp.of, resp.at - (Len(got) + Len(packet)) + Len(got) + i>>
    BY <1>1 DEF IInv, Leaking
  <2>2. Len(got') + Len(packet') = Len(got) + Len(packet)
    BY <1>2, <1>8
  <2>3. ASSUME NEW i \in 1 .. Len(got')
        PROVE  got'[i] = <<resp.of, resp.at - (Len(got) + Len(packet)) + i>>
    <3>1. CASE i \in 1 .. Len(got)
      BY <1>2, <2>1, <3>1
    <3>2. CASE i \notin 1 .. Len(got)
      <4>1. i - Len(got) \in 1 .. Len(packet) /\ Len(got) + (i - Len(got)) = i /\ resp.at \in Nat
        BY <1>2, <3>2 DEF IInv, TypeOK
      <4>2. got'[Len(got) + (i - Len(got))] = packet[i - Len(got)]
        BY <1>2, <4>1
      <4>3. resp.at - (Len(got) + Len(packet)) + Len(got) + (i - Len(got))
              = resp.at - (Len(got) + Len(packet)) + i
        BY <1>2, <4>1
      <4> QED
        BY <2>1, <4>1, <4>2, <4>3
    <3> QED
      BY <3>1, <3>2
  <2> QED
    BY <1>8, <2>1, <2>2, <2>3
<1>10. Remainder'
  <2>1. phase' = "in" \/ (req.what \in Descs => respLen = 0)
    <3> SUFFICES ASSUME phase' = "status", req.what \in Descs PROVE respLen = 0
      BY <1>1
    <3>1. /\ Len(got) + Len(packet) + respLen = Lesser(Size[req.what], req.len)
          /\ Len(packet) < Packet => respLen = 0
      BY <1>1 DEF IInv, Underway
    <3>2. Size[req.what] \in Nat /\ req.len \in Nat /\ respLen \in Nat
      BY UsbControlAssumption DEF IInv, TypeOK
    <3>3. Lesser(Size[req.what], req.len) <= req.len /\ Lesser(Size[req.what], req.len) \in Nat
      BY <3>2 DEF Lesser
    <3> QED
      BY <1>1, <1>2, <3>1, <3>2, <3>3
  <2>2. respLen \in Nat /\ resp.of \in Replies
    BY DEF IInv, TypeOK
  <2>3. /\ resp.of = "null" => respLen = 0
        /\ resp.of \in Descs => resp.at + respLen <= Size[resp.of]
        /\ respLen > 0 => resp.of \in givenUp \/ req.what = resp.of
    BY DEF IInv, Remainder
  <2>4. respLen > 0 => resp.of \in Descs
    BY <2>2, <2>3
  <2>5. respLen > 0 => resp.of \in givenUp \/ (phase' = "in" /\ irq' # "setup" /\ req.what = resp.of)
    BY <1>1, <2>1, <2>2, <2>3, <2>4
  <2> QED
    BY <1>1, <1>8, <2>3, <2>5 DEF Remainder
<1>11. Refused'
  <2>1. req.what \in Refusable => FALSE
    BY <1>4
  <2>2. ASSUME req.what = "nowhere" PROVE Len(got') <= req.len /\ (got' = << >> \/ Stale(got)')
    <3>1. irq' # "setup"
      BY <1>1
    <3>2. /\ Len(got') <= resp.at /\ Len(got') <= req.len
          /\ Len(got') > 0 => resp.of \in givenUp
          /\ \A i \in 1 .. Len(got') : got'[i] = <<resp.of, resp.at - Len(got') + i>>
      <4>1. Len(got') + Len(packet') = Len(got')
        BY <1>2, <1>8
      <4> QED
        BY <1>8, <1>9, <2>2, <3>1, <4>1 DEF Leaking
    <3>3. CASE got' # << >>
      <4>1. Len(got') > 0 /\ Len(got') \in Nat /\ resp.of \in givenUp /\ resp.at \in Nat
        BY <1>2, <3>2, <3>3 DEF IInv, TypeOK
      <4>2. resp.of \in Descs /\ Size[resp.of] \in Nat /\ respLen \in Nat
        BY <4>1, UsbControlAssumption DEF IInv, TypeOK
      <4>3. resp.at <= Size[resp.of]
        BY <4>1, <4>2 DEF IInv, Remainder
      <4>4. (resp.at - Len(got')) \in 0 .. Size[resp.of] /\ resp.at - Len(got') + Len(got') <= Size[resp.of]
        BY <3>2, <4>1, <4>2, <4>3
      <4>5. \E d \in givenUp' : \E o \in 0 .. Size[d] :
              o + Len(got') <= Size[d] /\ \A i \in 1 .. Len(got') : got'[i] = <<d, o + i>>
        <5>1. resp.of \in givenUp'
          BY <1>8, <4>1
        <5> QED
          BY <3>2, <4>4, <5>1
      <4> QED
        BY <3>2, <4>5 DEF Stale
    <3> QED
      BY <3>2, <3>3
  <2> QED
    BY <1>8, <2>1, <2>2 DEF Refused
<1>6. ASSUME req.what \in Descs
      PROVE  /\ resp = [of |-> req.what, at |-> Len(got')]
             /\ Len(got') + respLen = Lesser(Size[req.what], req.len)
             /\ Len(got') <= req.len
             /\ \A i \in 1 .. Len(got') : got'[i] = <<req.what, i>>
             /\ Len(packet) < Packet \/ Len(got') = req.len => Len(got') = Lesser(Size[req.what], req.len)
  <2>1. /\ resp = [of |-> req.what, at |-> Len(got) + Len(packet)]
        /\ Len(got) + Len(packet) + respLen = Lesser(Size[req.what], req.len)
        /\ \A i \in 1 .. Len(packet) : packet[i] = <<req.what, Len(got) + i>>
        /\ Len(packet) < Packet => respLen = 0
    BY <1>1, <1>6 DEF IInv, Underway
  <2>2. Size[req.what] \in Nat /\ req.len \in Nat /\ respLen \in Nat
    BY <1>6, UsbControlAssumption DEF IInv, TypeOK
  <2>3. Lesser(Size[req.what], req.len) <= req.len /\ Lesser(Size[req.what], req.len) \in Nat
    BY <2>2 DEF Lesser
  <2>4. \A i \in 1 .. Len(got) : got[i] = <<req.what, i>>
    BY <1>1, <1>6 DEF IInv, ReplyIsPrefix
  <2>5. ASSUME NEW i \in 1 .. Len(got')
        PROVE  got'[i] = <<req.what, i>>
    <3>1. CASE i \in 1 .. Len(got)
      BY <1>2, <2>4, <3>1
    <3>2. CASE i \notin 1 .. Len(got)
      <4>1. i - Len(got) \in 1 .. Len(packet) /\ Len(got) + (i - Len(got)) = i
        BY <1>2, <3>2
      <4>2. got'[Len(got) + (i - Len(got))] = packet[i - Len(got)]
        BY <1>2, <4>1
      <4> QED
        BY <2>1, <4>1, <4>2
    <3> QED
      BY <3>1, <3>2
  <2> QED
    BY <1>2, <2>1, <2>2, <2>3, <2>5
<1>7. Underway' /\ Complete' /\ ReplyIsPrefix' /\ ReplyIsWhole'
  <2>1. UNCHANGED <<req, resp, respLen>> /\ Len(packet') = 0 /\ Len(got') \in Nat
    BY <1>1, <1>2 DEF device
  <2> QED
    BY <1>1, <1>6, <2>1 DEF Underway, Complete, ReplyIsPrefix, ReplyIsWhole
<1> QED
  BY <1>3, <1>5, <1>7, <1>9, <1>10, <1>11 DEF IInv

(* Descriptors are no requests without data. *)
LEMMA StatusKeeps == IInv /\ (StartStatus \/ EpStatus \/ TakeAnswer) => IInv'
<1> SUFFICES ASSUME IInv PROVE (StartStatus \/ EpStatus \/ TakeAnswer) => IInv'
  OBVIOUS
<1>1. Descs \cap NoData = {}
  BY UsbControlAssumption DEF Others
<1>5. "nowhere" \notin NoData /\ "nowhere" \notin Descs
  BY UsbControlAssumption DEF Others, NoData
<1>2. ASSUME StartStatus PROVE IInv'
  <2>0. /\ UNCHANGED <<req, resp, respLen, stall, got, givenUp>> /\ req.what \in NoData
        /\ phase = "in" /\ irq = "none" /\ phase' = "status" /\ irq' = "status" /\ ep' = "nak" /\ packet' = << >>
    BY <1>2 DEF StartStatus, device
  <2>1. TypeOK' /\ Stages' /\ Underway' /\ Complete' /\ Stalled' /\ ReplyIsPrefix' /\ ReplyIsWhole'
    BY <1>1, <2>0 DEF IInv, TypeOK, Stages, Underway, Complete, Stalled, ReplyIsPrefix, ReplyIsWhole
  <2>2. Remainder'
    <3>1. respLen > 0 => resp.of \in givenUp \/ req.what = resp.of
      BY DEF IInv, Remainder
    <3>2. respLen > 0 => resp.of \in Descs
      BY DEF IInv, TypeOK, Remainder
    <3> QED
      BY <1>1, <2>0, <3>1, <3>2 DEF IInv, Remainder
  <2>3. Leaking' /\ Refused'
    BY <1>5, <2>0 DEF IInv, Leaking, Refused
  <2> QED
    BY <2>1, <2>2, <2>3 DEF IInv
<1>6. ASSUME Leaking, packet' = packet \/ (packet = << >> /\ packet' = << >>),
             UNCHANGED <<req, resp, respLen, got, givenUp>>, irq # "setup", phase' # "in"
      PROVE  Leaking'
  BY <1>6 DEF Leaking
<1>7. ASSUME Refused, UNCHANGED <<req, got, givenUp>>, irq # "setup",
             req.what \in Refusable => phase' # "done"
      PROVE  Refused'
  BY <1>7 DEF Refused, Stale
<1>3. ASSUME EpStatus PROVE IInv'
  <2>0. /\ UNCHANGED <<req, resp, respLen, stall, got, givenUp, phase>> /\ phase = "status" /\ packet = << >>
        /\ irq = "status" /\ irq' = "none" /\ packet' = << >> /\ ep' = IF stall THEN "stall" ELSE "ack"
    BY <1>3 DEF EpStatus, device, IInv, Stages
  <2>1. TypeOK' /\ Stages' /\ Underway' /\ Complete' /\ Stalled' /\ ReplyIsPrefix' /\ ReplyIsWhole'
    BY <2>0 DEF IInv, TypeOK, Stages, Underway, Complete, Stalled, ReplyIsPrefix, ReplyIsWhole
  <2>2. Remainder'
    BY <2>0 DEF IInv, Remainder
  <2>3. Leaking'
    BY <1>6, <2>0 DEF IInv
  <2>4. Refused'
    BY <1>7, <2>0 DEF IInv
  <2> QED
    BY <2>1, <2>2, <2>3, <2>4 DEF IInv
<1>4. ASSUME TakeAnswer PROVE IInv'
  <2>0. /\ UNCHANGED <<req, resp, respLen, stall, irq, ep, packet, got, givenUp>> /\ irq = "none"
        /\ \/ phase \in {"status", "in"} /\ ep = "stall" /\ phase' = "refused"
           \/ phase = "status" /\ ep = "ack" /\ phase' = "done"
    BY <1>4 DEF TakeAnswer, device
  <2>1. TypeOK' /\ Stages' /\ Underway' /\ Complete' /\ Stalled' /\ ReplyIsPrefix' /\ ReplyIsWhole'
    BY <2>0 DEF IInv, TypeOK, Stages, Underway, Complete, Stalled, ReplyIsPrefix, ReplyIsWhole
  <2>2. Remainder'
    <3>1. respLen > 0 => resp.of \in Descs
      BY DEF IInv, TypeOK, Remainder
    <3> QED
      BY <2>0, <3>1 DEF IInv, Remainder
  <2>3. Leaking'
    BY <1>6, <2>0 DEF IInv
  <2>4. req.what \in Refusable => phase' # "done"
    BY <2>0 DEF IInv, Stalled
  <2>5. Refused'
    BY <1>7, <2>0, <2>4 DEF IInv
  <2> QED
    BY <2>1, <2>2, <2>3, <2>5 DEF IInv
<1> QED
  BY <1>2, <1>3, <1>4

LEMMA HostKeeps == IInv /\ ((\E r \in Requests : Setup(r)) \/ GiveUp) => IInv'
<1> SUFFICES ASSUME IInv PROVE ((\E r \in Requests : Setup(r)) \/ GiveUp) => IInv'
  OBVIOUS
<1>1. ASSUME NEW r \in Requests, Setup(r) PROVE IInv'
  <2>1. r \in [what : Descs \cup Others, len : Nat]
    BY UsbControlAssumption DEF Requests
  <2>2. << >> \in Seq(Item) /\ Len(<< >>) = 0
    OBVIOUS
  <2>3. TypeOK'
    BY <1>1, <2>1, <2>2 DEF Setup, IInv, TypeOK
  <2>4. got' = << >> /\ packet' = << >> /\ irq' = "setup" /\ phase' = "in" /\ req' = r
    BY <1>1 DEF Setup
  <2>5. r.len >= 0
    BY <2>1
  <2>6. Stages' /\ Underway' /\ Complete' /\ Stalled' /\ ReplyIsWhole' /\ Refused' /\ Leaking'
    BY <2>4 DEF Stages, Underway, Complete, Stalled, ReplyIsWhole, Refused, Leaking
  <2>8. Remainder'
    <3>1. UNCHANGED <<resp, respLen, givenUp>> /\ ep' = "nak" /\ phase # "in"
      BY <1>1 DEF Setup
    <3> QED
      BY <3>1 DEF IInv, Remainder
  <2>7. ReplyIsPrefix'
    BY <2>4, <2>5 DEF ReplyIsPrefix
  <2> QED
    BY <2>3, <2>6, <2>7, <2>8 DEF IInv
<1>2. ASSUME GiveUp PROVE IInv'
  <2>0. /\ UNCHANGED <<req, resp, respLen, stall, irq>> /\ phase = "in" /\ irq = "none" /\ phase' = "idle"
        /\ ep' = "nak" /\ packet' = << >> /\ got' = << >> /\ givenUp' = givenUp \cup ({req.what} \cap Descs)
    BY <1>2 DEF GiveUp, device
  <2>1. TypeOK' /\ Stages' /\ Underway' /\ Complete' /\ Stalled' /\ ReplyIsPrefix' /\ ReplyIsWhole'
    BY <2>0 DEF IInv, TypeOK, Stages, Underway, Complete, Stalled, ReplyIsPrefix, ReplyIsWhole
  <2>2. Remainder'
    <3>1. respLen > 0 => resp.of \in Descs
      BY DEF IInv, TypeOK, Remainder
    <3> QED
      BY <2>0, <3>1 DEF IInv, Remainder
  <2>3. Leaking' /\ Refused'
    <3>1. Len(got') = 0 /\ Len(packet') = 0 /\ resp.at \in Nat /\ req.len \in Nat
      BY <2>0 DEF IInv, TypeOK
    <3> QED
      BY <2>0, <3>1 DEF Leaking, Refused
  <2> QED
    BY <2>1, <2>2, <2>3 DEF IInv
<1> QED
  BY <1>1, <1>2

LEMMA Idle == IInv /\ UNCHANGED vars => IInv'
<1> SUFFICES ASSUME IInv, UNCHANGED vars PROVE IInv'
  OBVIOUS
<1>1. TypeOK' /\ Stages' /\ Underway' /\ Complete' /\ Stalled' /\ ReplyIsPrefix' /\ ReplyIsWhole'
  BY DEF vars, IInv, TypeOK, Stages, Underway, Complete, Stalled, ReplyIsPrefix, ReplyIsWhole
<1>2. Remainder' /\ Leaking' /\ Refused'
  BY DEF vars, IInv, Remainder, Leaking, Refused, Stale
<1> QED
  BY <1>1, <1>2 DEF IInv

LEMMA NextKeeps == IInv /\ [Next]_vars => IInv'
  BY SetupKeeps, DataKeeps, TakeKeeps, StatusKeeps, HostKeeps, Idle DEF Next, HandleIrq, HostStep

-----------------------------------------------------------------------------
(* Types, the stages and the reply pointer hold in every reachable state. *)
THEOREM Invariant == Spec => []IInv
BY InitHolds, NextKeeps, PTL DEF Spec

(* Whatever was given up before, the host is sent the descriptor it asks   *)
(* for from its first byte on, and never more than it asked for.           *)
THEOREM PrefixSent == Spec => []ReplyIsPrefix
<1>1. IInv => ReplyIsPrefix
  BY DEF IInv
<1> QED  BY <1>1, Invariant, PTL

(* A transfer that ends well has carried the whole descriptor, or as much  *)
(* of it as was asked for, for every packet size.                          *)
THEOREM WholeSent == Spec => []ReplyIsWhole
<1>1. IInv => ReplyIsWhole
  BY DEF IInv
<1> QED  BY <1>1, Invariant, PTL

(* A request that is not supported brings the host no byte and is refused, *)
(* or, where the driver forgets to refuse it, no other bytes than some of  *)
(* one descriptor in order, whose transfer the host gave up.               *)
THEOREM UnsupportedRefused == Spec => []Refused
<1>1. IInv => Refused
  BY DEF IInv
<1> QED  BY <1>1, Invariant, PTL

HIDE DEF Replies

-----------------------------------------------------------------------------
(* The serial port *)

-----------------------------------------------------------------------------
(* The invariant without the order of buffers                              *)
LineOK ==
  /\ CdcTypeOK /\ PendingUnsent /\ LineAtBuffer /\ Unmixed /\ HandedOnOnce /\ PacketsOnce

(* The next packet of the buffer in the port, or the first of a new one    *)
LEMMA Sending ==
  ASSUME CdcIInv, NEW b \in Buffer, NEW i \in Nat \ {0}, NEW ts,
         SendBulkData(b, i, size'[b], ts),
         size' \in [Buffer -> Nat], written' \in 0 .. Writes, written <= written',
         b <= written', i <= size'[b],
         \A c \in Buffer : c <= written => size'[c] = size[c],
         \/ i = 1 /\ txBuf = None /\ ~OnLine(b)
         \/ i > 1 /\ txBuf = b /\ stream[Len(stream)] = <<b, i - 1>>
  PROVE  /\ stream' \in Seq(Buffer \X Nat) /\ txBuf' \in Buffer \cup {None} /\ left' \in Nat
         /\ lost' \subseteq 1 .. Len(stream')
         /\ LineAtBuffer' /\ Unmixed' /\ PacketsOnce'
         /\ \A c \in Buffer : Finished(c) => Finished(c)'
         /\ \A c \in Buffer : OnLine(c)' => OnLine(c) \/ c = b
         /\ \/ txBuf' = b /\ tasks' = ts
            \/ txBuf' = None /\ tasks' = Append(ts, b) /\ Finished(b)'
<1> DEFINE n == Len(stream)
<1>1. /\ stream' \in Seq(Buffer \X Nat) /\ Len(stream') = n + 1 /\ n \in Nat
      /\ stream'[n + 1] = <<b, i>>
      /\ \A k \in 1 .. n : stream'[k] = stream[k] /\ stream[k] \in Buffer \X Nat
  <2>1. <<b, i>> \in Buffer \X Nat /\ stream \in Seq(Buffer \X Nat)
    BY DEF CdcIInv, CdcTypeOK
  <2>2. stream' = Append(stream, <<b, i>>)
    BY DEF SendBulkData, Arm
  <2> QED
    BY <2>1, <2>2, Appended
<1>2. /\ left' = size'[b] - i /\ size'[b] \in Nat
      /\ \/ i = size'[b] /\ txBuf' = None /\ tasks' = Append(ts, b)
         \/ i < size'[b] /\ txBuf' = b /\ tasks' = ts
  BY DEF SendBulkData
<1>3. b # None /\ written \in Nat /\ written' \in Nat /\ Buffer \subseteq Nat
  BY DEF Buffer, None, CdcIInv, CdcTypeOK
<1>4. txBuf' \in Buffer \cup {None} /\ left' \in Nat
  BY <1>2
<1>5. \A k \in 1 .. n : /\ stream'[k] = stream[k]
                        /\ stream[k][1] \in Buffer /\ stream[k][1] <= written /\ stream[k][2] > 0
                        /\ size'[stream[k][1]] = size[stream[k][1]]
                        /\ stream[k][1] <= written'
  <2> TAKE k \in 1 .. n
  <2>1. stream[k][1] \in Buffer /\ stream[k][1] <= written /\ stream[k][2] > 0
    BY <1>1 DEF CdcIInv, LineAtBuffer
  <2>2. stream[k][1] \in Nat
    BY <1>3, <2>1
  <2>3. stream[k][1] <= written'
    BY <1>3, <2>1, <2>2
  <2> QED
    BY <1>1, <2>1, <2>3
<1>6. i > 1 => n > 0 /\ stream[n] = <<b, i - 1>>
  BY <1>3 DEF CdcIInv, LineAtBuffer
<1>7. i = 1 => /\ n > 0 => stream[n][2] = size[stream[n][1]]
               /\ \A k \in 1 .. n : stream[k][1] # b
  BY DEF CdcIInv, LineAtBuffer, OnLine
<1>w. Unmixed
  BY DEF CdcIInv
<1>l. lost' \subseteq 1 .. n + 1
  <2>1. lost \subseteq 1 .. n
    BY DEF CdcIInv, CdcTypeOK
  <2>2. lost' \subseteq lost \cup {n + 1}
    BY <1>1 DEF SendBulkData, Arm
  <2> QED
    BY <1>1, <2>1, <2>2
<1> HIDE DEF n
<1>8. LineAtBuffer'
  <2>1. \A k \in 1 .. n + 1 : stream'[k][1] <= written' /\ stream'[k][2] > 0
    <3> TAKE k \in 1 .. n + 1
    <3>1. CASE k \in 1 .. n
      BY <1>5, <3>1
    <3>2. CASE k = n + 1
      BY <1>1, <3>2
    <3> QED
      BY <1>1, <3>1, <3>2
  <2>2. CASE i = size'[b] /\ txBuf' = None
    BY <1>1, <2>1, <2>2 DEF LineAtBuffer
  <2>3. CASE i < size'[b] /\ txBuf' = b
    <3>1. left' \in 1 .. size'[b] - 1 /\ i = size'[b] - left'
      BY <1>2, <2>3
    <3> QED
      BY <1>1, <1>3, <2>1, <2>3, <3>1 DEF LineAtBuffer
  <2> QED
    BY <1>2, <2>2, <2>3
<1>9. Unmixed'
  <2> SUFFICES ASSUME NEW k \in 1 .. n + 1
               PROVE  IF stream'[k][2] > 1
                      THEN k > 1 /\ stream'[k - 1] = <<stream'[k][1], stream'[k][2] - 1>>
                      ELSE /\ k > 1 => stream'[k - 1][2] = size'[stream'[k - 1][1]]
                           /\ \A j \in 1 .. k - 1 : stream'[j][1] # stream'[k][1]
    BY <1>1 DEF Unmixed
  <2>1. CASE k \in 1 .. n
    <3>0. n \in Nat
      BY <1>1
    <3>1. stream'[k] = stream[k]
      BY <1>1, <2>1
    <3>2. (k > 1 => k - 1 \in 1 .. n) /\ \A j \in 1 .. k - 1 : j \in 1 .. n
      BY <2>1, <3>0
    <3>3. IF stream[k][2] > 1
          THEN k > 1 /\ stream[k - 1] = <<stream[k][1], stream[k][2] - 1>>
          ELSE /\ k > 1 => stream[k - 1][2] = size[stream[k - 1][1]]
               /\ \A j \in 1 .. k - 1 : stream[j][1] # stream[k][1]
      BY <1>w, <2>1 DEF Unmixed, n
    <3> QED
      BY <1>5, <3>1, <3>2, <3>3
  <2>2. CASE k = n + 1
    <3>1. stream'[k] = <<b, i>> /\ k - 1 = n /\ (k > 1 <=> n > 0) /\ (n > 0 => n \in 1 .. n)
      BY <1>1, <2>2
    <3>2. CASE i > 1
      BY <1>5, <1>6, <3>1, <3>2
    <3>3. CASE i = 1
      BY <1>5, <1>7, <3>1, <3>3
    <3> QED
      BY <3>2, <3>3
  <2>3. k \in 1 .. n \/ k = n + 1
    <3>1. n \in Nat
      BY <1>1
    <3> QED
      BY <3>1
  <2> QED
    BY <2>1, <2>2, <2>3
<1>10. \A c \in Buffer : Finished(c) => Finished(c)'
  <2> SUFFICES ASSUME NEW c \in Buffer, NEW k \in 1 .. n, stream[k] = <<c, size[c]>>
               PROVE  \E m \in 1 .. n + 1 : stream'[m] = <<c, size'[c]>>
    BY <1>1 DEF Finished, n
  <2>1. stream[k][1] = c
    OBVIOUS
  <2>2. size'[c] = size[c] /\ stream'[k] = stream[k] /\ k \in 1 .. n + 1
    <3>1. stream'[k] = stream[k] /\ size'[stream[k][1]] = size[stream[k][1]]
      BY <1>5
    <3>2. n \in Nat
      BY <1>1
    <3>3. k \in 1 .. n + 1
      BY <3>2
    <3> QED
      BY <2>1, <3>1, <3>3
  <2>3. stream'[k] = <<c, size'[c]>>
    BY <2>2
  <2> QED
    BY <2>2, <2>3
<1>11. \A c \in Buffer : OnLine(c)' => OnLine(c) \/ c = b
  <2> SUFFICES ASSUME NEW c \in Buffer, NEW k \in 1 .. n + 1, stream'[k][1] = c, c # b
               PROVE  \E m \in 1 .. n : stream[m][1] = c
    BY <1>1 DEF OnLine, n
  <2>1. k \in 1 .. n
    BY <1>1
  <2> QED
    BY <1>5, <2>1
<1>12. i = size'[b] => Finished(b)'
  <2>1. n + 1 \in 1 .. Len(stream')
    BY <1>1
  <2> QED
    BY <1>1, <2>1 DEF Finished
<1>13. /\ \A k \in 1 .. n : stream[k][1] = b => i > 1 /\ stream[k][2] < i
       /\ \A k \in 1 .. n : stream[k][2] <= size'[stream[k][1]]
  <2>1. \A k \in 1 .. n : stream[k][2] <= size'[stream[k][1]]
    BY <1>5 DEF CdcIInv, PacketsOnce, n
  <2>2. ASSUME NEW k \in 1 .. n, stream[k][1] = b PROVE i > 1 /\ stream[k][2] < i
    <3>1. i > 1 /\ txBuf = b
      BY <1>7, <2>2 DEF n
    <3>2. i - 1 = size[b] - left
      BY <1>3, <1>6, <3>1 DEF CdcIInv, LineAtBuffer, n
    <3>3. stream[k][2] <= size[b] - left
      BY <2>2, <3>1 DEF CdcIInv, PacketsOnce, n
    <3>4. stream[k][2] \in Nat
      BY <1>1
    <3> QED
      BY <3>1, <3>2, <3>3, <3>4
  <2> QED
    BY <2>1, <2>2
<1>14. Distinct(stream)'
  <2>1. \A k \in 1 .. n : stream[k] # <<b, i>>
    <3> SUFFICES ASSUME NEW k \in 1 .. n, stream[k] = <<b, i>> PROVE FALSE
      OBVIOUS
    <3>1. stream[k][1] = b /\ stream[k][2] = i
      OBVIOUS
    <3> QED
      BY <1>13, <3>1
  <2>2. /\ stream \in Seq(Buffer \X Nat) /\ <<b, i>> \in Buffer \X Nat /\ Distinct(stream)
        /\ stream' = Append(stream, <<b, i>>)
    BY DEF CdcIInv, CdcTypeOK, PacketsOnce, SendBulkData, Arm
  <2>3. Distinct(Append(stream, <<b, i>>))
    BY <2>1, <2>2, DistinctAppend DEF n
  <2> QED
    BY <2>2, <2>3 DEF Distinct
<1>15. \A k \in 1 .. n + 1 : \A m \in 1 .. stream'[k][2] :
         \E j \in 1 .. n + 1 : stream'[j] = <<stream'[k][1], m>>
  <2>1. \A k \in 1 .. n : \A m \in 1 .. stream[k][2] :
          \E j \in 1 .. n + 1 : stream'[j] = <<stream[k][1], m>>
    <3> SUFFICES ASSUME NEW k \in 1 .. n, NEW m \in 1 .. stream[k][2]
                 PROVE  \E j \in 1 .. n + 1 : stream'[j] = <<stream[k][1], m>>
      OBVIOUS
    <3>1. PICK j \in 1 .. n : stream[j] = <<stream[k][1], m>>
      BY DEF CdcIInv, PacketsOnce, n
    <3>2. j \in 1 .. n + 1 /\ stream'[j] = stream[j]
      BY <1>1
    <3> QED
      BY <3>1, <3>2
  <2>2. \A m \in 1 .. i : \E j \in 1 .. n + 1 : stream'[j] = <<b, m>>
    <3> SUFFICES ASSUME NEW m \in 1 .. i PROVE \E j \in 1 .. n + 1 : stream'[j] = <<b, m>>
      OBVIOUS
    <3>1. CASE m = i
      <4>1. n + 1 \in 1 .. n + 1
        BY <1>1
      <4> QED
        BY <1>1, <3>1, <4>1
    <3>2. CASE m < i
      <4>1. i > 1 /\ m \in 1 .. i - 1
        BY <3>2
      <4>2. n \in 1 .. n /\ stream[n][1] = b /\ stream[n][2] = i - 1
        BY <1>1, <1>6, <4>1
      <4> QED
        BY <2>1, <4>1, <4>2
    <3> QED
      BY <3>1, <3>2
  <2>3. ASSUME NEW k \in 1 .. n + 1, NEW m \in 1 .. stream'[k][2]
        PROVE  \E j \in 1 .. n + 1 : stream'[j] = <<stream'[k][1], m>>
    <3>1. k \in 1 .. n \/ k = n + 1
      BY <1>1
    <3>2. CASE k \in 1 .. n
      <4>1. stream'[k] = stream[k]
        BY <1>1, <3>2
      <4> QED
        BY <2>1, <2>3, <3>2, <4>1
    <3>3. CASE k = n + 1
      <4>1. stream'[k][1] = b /\ stream'[k][2] = i
        BY <1>1, <3>3
      <4> QED
        BY <2>2, <2>3, <4>1
    <3> QED
      BY <3>1, <3>2, <3>3
  <2> QED
    BY <2>3
<1>16. ASSUME NEW k \in 1 .. n + 1
       PROVE  /\ stream'[k][2] <= size'[stream'[k][1]]
              /\ stream'[k][1] = txBuf' => stream'[k][2] <= size'[txBuf'] - left'
  <2>0. txBuf' = b \/ txBuf' = None
    BY <1>2
  <2>1. CASE k \in 1 .. n
    <3>1. /\ stream'[k] = stream[k] /\ stream[k][1] \in Buffer /\ stream[k][2] \in Nat
          /\ stream[k][2] <= size'[stream[k][1]]
          /\ stream[k][1] = b => stream[k][2] < i
      BY <1>1, <1>13, <2>1
    <3>2. None \notin Buffer
      BY DEF None, Buffer
    <3>3. i = size'[b] - left'
      BY <1>2
    <3> QED
      BY <2>0, <3>1, <3>2, <3>3
  <2>2. CASE k = n + 1
    <3>1. stream'[k][1] = b /\ stream'[k][2] = i /\ i = size'[b] - left'
      BY <1>1, <1>2, <2>2
    <3> QED
      BY <2>0, <1>3, <3>1
  <2> QED
    BY <1>1, <2>1, <2>2
<1>17. PacketsOnce'
  BY <1>1, <1>14, <1>15, <1>16 DEF PacketsOnce
<1> QED
  BY <1>1, <1>2, <1>4, <1>l, <1>8, <1>9, <1>10, <1>11, <1>12, <1>17

(* What is handed on is finished, once, and not in the port. *)
HandedOn(ts, fb) ==
  /\ Distinct(ts) /\ Distinct(fb)
  /\ \A i \in 1 .. Len(ts) : Finished(ts[i]) /\ ts[i] # txBuf
  /\ \A i \in 1 .. Len(fb) : Finished(fb[i]) /\ fb[i] # txBuf
  /\ \A i \in 1 .. Len(ts), j \in 1 .. Len(fb) : ts[i] # fb[j]

(* A task that runs gives its buffer back. *)
LEMMA Returned ==
  ASSUME CdcIInv, tasks # << >>
  PROVE  /\ Tail(tasks) \in Seq(Buffer) /\ Append(freed, Head(tasks)) \in Seq(Buffer)
         /\ HandedOn(Tail(tasks), Append(freed, Head(tasks)))
<1> DEFINE ts == Tail(tasks)
           fb == Append(freed, Head(tasks))
<1>0. tasks \in Seq(Buffer) /\ freed \in Seq(Buffer) /\ HandedOnOnce
  BY DEF CdcIInv, CdcTypeOK
<1>1. /\ ts \in Seq(Buffer) /\ Len(ts) = Len(tasks) - 1 /\ Len(tasks) \in Nat /\ Len(tasks) > 0
      /\ Head(tasks) = tasks[1] /\ Head(tasks) \in Buffer
      /\ \A i \in 1 .. Len(tasks) - 1 : ts[i] = tasks[i + 1]
  BY <1>0, Rest
<1>2. /\ fb \in Seq(Buffer) /\ Len(fb) = Len(freed) + 1 /\ Len(freed) \in Nat
      /\ fb[Len(freed) + 1] = tasks[1]
      /\ \A i \in 1 .. Len(freed) : fb[i] = freed[i]
  BY <1>0, <1>1, Appended
<1>3. Distinct(ts) /\ \A i \in 1 .. Len(ts) : ts[i] # tasks[1]
  BY <1>0, <1>1, DistinctRest DEF HandedOnOnce
<1>4. 1 \in 1 .. Len(tasks)
  BY <1>1
<1>5. Distinct(fb)
  <2>1. \A i \in 1 .. Len(freed) : freed[i] # Head(tasks)
    BY <1>0, <1>1, <1>4 DEF HandedOnOnce
  <2> QED
    BY <1>0, <1>1, <2>1, DistinctAppend DEF HandedOnOnce
<1> HIDE DEF ts, fb
<1>6. \A i \in 1 .. Len(ts) : i + 1 \in 1 .. Len(tasks) /\ ts[i] = tasks[i + 1]
  BY <1>1
<1>7. \A i \in 1 .. Len(fb) : (i \in 1 .. Len(freed) /\ fb[i] = freed[i]) \/ fb[i] = tasks[1]
  BY <1>2
<1>8. \A i \in 1 .. Len(ts) : Finished(ts[i]) /\ ts[i] # txBuf
  BY <1>0, <1>6 DEF HandedOnOnce
<1>9. \A i \in 1 .. Len(fb) : Finished(fb[i]) /\ fb[i] # txBuf
  BY <1>0, <1>4, <1>7 DEF HandedOnOnce
<1>10. \A i \in 1 .. Len(ts), j \in 1 .. Len(fb) : ts[i] # fb[j]
  BY <1>0, <1>3, <1>6, <1>7 DEF HandedOnOnce
<1> QED
  BY <1>1, <1>2, <1>3, <1>5, <1>8, <1>9, <1>10 DEF HandedOn, ts, fb

(* A packet of a buffer that has not been handed on *)
LEMMA Handing ==
  ASSUME NEW ts \in Seq(Buffer), freed' \in Seq(Buffer), HandedOn(ts, freed'),
         NEW b \in Buffer,
         \A i \in 1 .. Len(ts) : ts[i] # b, \A i \in 1 .. Len(freed') : freed'[i] # b,
         \A c \in Buffer : Finished(c) => Finished(c)',
         \/ txBuf' = b /\ tasks' = ts
         \/ txBuf' = None /\ tasks' = Append(ts, b) /\ Finished(b)'
  PROVE  tasks' \in Seq(Buffer) /\ HandedOnOnce'
<1>0. None \notin Buffer
  BY DEF None, Buffer
<1>1. /\ \A i \in 1 .. Len(ts) : ts[i] \in Buffer
      /\ \A i \in 1 .. Len(freed') : freed'[i] \in Buffer
  OBVIOUS
<1>2. CASE txBuf' = b /\ tasks' = ts
  BY <1>1, <1>2 DEF HandedOn, HandedOnOnce, Distinct
<1>3. CASE txBuf' = None /\ tasks' = Append(ts, b) /\ Finished(b)'
  <2>1. /\ tasks' \in Seq(Buffer) /\ Len(tasks') = Len(ts) + 1 /\ Len(ts) \in Nat
        /\ tasks'[Len(ts) + 1] = b
        /\ \A i \in 1 .. Len(ts) : tasks'[i] = ts[i]
    BY <1>3, Appended
  <2>2. \A i \in 1 .. Len(tasks') : (i \in 1 .. Len(ts) /\ tasks'[i] = ts[i]) \/ tasks'[i] = b
    BY <2>1
  <2>3. Distinct(tasks')
    BY <1>3, DistinctAppend DEF HandedOn
  <2>f. \A c \in Buffer : Finished(c) => \E k \in 1 .. Len(stream') : stream'[k] = <<c, size'[c]>>
    BY DEF Finished
  <2>g. \E k \in 1 .. Len(stream') : stream'[k] = <<b, size'[b]>>
    BY <1>3 DEF Finished
  <2>4. \A i \in 1 .. Len(tasks') : (Finished(tasks[i]) /\ tasks[i] # None)'
    <3> SUFFICES ASSUME NEW i \in 1 .. Len(tasks')
                 PROVE  /\ \E k \in 1 .. Len(stream') : stream'[k] = <<tasks'[i], size'[tasks'[i]]>>
                        /\ tasks'[i] # None
      BY DEF Finished
    <3>1. CASE i \in 1 .. Len(ts) /\ tasks'[i] = ts[i]
      <4>1. ts[i] \in Buffer /\ Finished(ts[i])
        BY <1>1, <3>1 DEF HandedOn
      <4> QED
        BY <1>0, <2>f, <3>1, <4>1
    <3>2. CASE tasks'[i] = b
      BY <1>0, <2>g, <3>2
    <3> QED
      BY <2>2, <3>1, <3>2
  <2>5. \A i \in 1 .. Len(freed') : (Finished(freed[i]) /\ freed[i] # None)'
    <3> SUFFICES ASSUME NEW i \in 1 .. Len(freed')
                 PROVE  /\ \E k \in 1 .. Len(stream') : stream'[k] = <<freed'[i], size'[freed'[i]]>>
                        /\ freed'[i] # None
      BY DEF Finished
    <3>1. freed'[i] \in Buffer /\ Finished(freed'[i])
      BY <1>1 DEF HandedOn
    <3> QED
      BY <1>0, <2>f, <3>1
  <2>6. \A i \in 1 .. Len(tasks'), j \in 1 .. Len(freed') : tasks'[i] # freed'[j]
    BY <2>2 DEF HandedOn
  <2>7. Distinct(tasks)' /\ Distinct(freed)'
    BY <2>3 DEF HandedOn, Distinct
  <2> QED
    BY <1>3, <2>1, <2>4, <2>5, <2>6, <2>7 DEF HandedOnOnce
<1> QED
  BY <1>2, <1>3

-----------------------------------------------------------------------------
(* What a step may do to the sizes and the queue of pending writes: sizes  *)
(* of older buffers stay, and what is pending has not been sent.           *)
Queued(q) ==
  /\ size' \in [Buffer -> Nat] /\ written' \in 0 .. Writes /\ written <= written'
  /\ \A c \in Buffer : c <= written => size'[c] = size[c]
  /\ \A c \in Buffer : c <= written' => size'[c] > 0
  /\ q \in Seq(Buffer) /\ Distinct(q)
  /\ \A i \in 1 .. Len(q) : q[i] <= written' /\ ~OnLine(q[i])

(* A step that sends a packet of b *)
LEMMA SendingStep ==
  ASSUME CdcIInv, NEW b \in Buffer, NEW i \in Nat \ {0}, NEW ts \in Seq(Buffer),
         SendBulkData(b, i, size'[b], ts), b <= written', i <= size'[b],
         \/ i = 1 /\ txBuf = None /\ ~OnLine(b)
         \/ i > 1 /\ txBuf = b /\ stream[Len(stream)] = <<b, i - 1>>,
         Queued(pending'), \A k \in 1 .. Len(pending') : pending'[k] # b,
         freed' \in Seq(Buffer), HandedOn(ts, freed'), hasty' \in BOOLEAN
  PROVE  LineOK'
<1>1. /\ stream' \in Seq(Buffer \X Nat) /\ txBuf' \in Buffer \cup {None} /\ left' \in Nat
      /\ lost' \subseteq 1 .. Len(stream')
      /\ LineAtBuffer' /\ Unmixed' /\ PacketsOnce'
      /\ \A c \in Buffer : Finished(c) => Finished(c)'
      /\ \A c \in Buffer : OnLine(c)' => OnLine(c) \/ c = b
      /\ \/ txBuf' = b /\ tasks' = ts
         \/ txBuf' = None /\ tasks' = Append(ts, b) /\ Finished(b)'
  BY Sending DEF Queued
<1>2. ~Finished(b) \/ txBuf = b
  BY DEF Finished, OnLine
<1>3. /\ \A k \in 1 .. Len(ts) : ts[k] # b
      /\ \A k \in 1 .. Len(freed') : freed'[k] # b
  BY <1>2 DEF HandedOn
<1>4. tasks' \in Seq(Buffer) /\ HandedOnOnce'
  BY <1>1, <1>3, Handing
<1>5. CdcTypeOK'
  BY <1>1, <1>4 DEF Queued, CdcTypeOK
<1>6. PendingUnsent'
  <2>1. ASSUME NEW k \in 1 .. Len(pending') PROVE pending'[k] <= written' /\ ~(OnLine(pending[k])')
    <3>1. pending'[k] \in Buffer /\ pending'[k] <= written' /\ ~OnLine(pending'[k]) /\ pending'[k] # b
      BY DEF Queued
    <3>2. \A c \in Buffer : (\E m \in 1 .. Len(stream') : stream'[m][1] = c) => OnLine(c) \/ c = b
      BY <1>1 DEF OnLine
    <3>3. ~ \E m \in 1 .. Len(stream') : stream'[m][1] = pending'[k]
      BY <3>1, <3>2
    <3> QED
      BY <3>1, <3>3 DEF OnLine
  <2>2. Distinct(pending)'
    BY DEF Queued, Distinct
  <2> QED
    BY <2>1, <2>2 DEF Queued, PendingUnsent
<1> QED
  BY <1>1, <1>4, <1>5, <1>6 DEF LineOK

(* A step that sends nothing *)
LEMMA WaitingStep ==
  ASSUME CdcIInv, NEW ts \in Seq(Buffer), tasks' = ts, UNCHANGED lineVars,
         Queued(pending'), freed' \in Seq(Buffer), HandedOn(ts, freed'), hasty' \in BOOLEAN
  PROVE  LineOK'
<1> USE DEF lineVars
<1>0. /\ stream \in Seq(Buffer \X Nat) /\ size' \in [Buffer -> Nat] /\ written \in Nat /\ Buffer \subseteq Nat
      /\ written' \in Nat /\ written <= written' /\ \A c \in Buffer : c <= written => size'[c] = size[c]
  BY DEF CdcIInv, CdcTypeOK, Queued, Buffer
<1>1. \A k \in 1 .. Len(stream) :
        /\ stream[k][1] \in Buffer /\ stream[k][1] <= written /\ stream[k][2] > 0
        /\ size'[stream[k][1]] = size[stream[k][1]] /\ stream[k][1] <= written'
  <2> TAKE k \in 1 .. Len(stream)
  <2>1. stream[k][1] \in Buffer /\ stream[k][1] <= written /\ stream[k][2] > 0
    BY <1>0 DEF CdcIInv, LineAtBuffer
  <2>2. stream[k][1] \in Nat
    BY <1>0, <2>1
  <2>3. stream[k][1] <= written'
    BY <1>0, <2>1, <2>2
  <2> QED
    BY <1>0, <2>1, <2>3
<1>2. Len(stream) \in Nat
  BY <1>0
<1>3. LineAtBuffer'
  <2>1. CASE txBuf = None
    <3>1. Len(stream) > 0 => Len(stream) \in 1 .. Len(stream)
      BY <1>2
    <3> QED
      BY <1>1, <2>1, <3>1 DEF CdcIInv, LineAtBuffer
  <2>2. CASE txBuf # None
    <3>1. /\ left \in 1 .. size[txBuf] - 1 /\ Len(stream) > 0
          /\ stream[Len(stream)] = <<txBuf, size[txBuf] - left>>
      BY <2>2 DEF CdcIInv, LineAtBuffer
    <3>2. Len(stream) \in 1 .. Len(stream) /\ stream[Len(stream)][1] = txBuf
      BY <1>2, <3>1
    <3>3. size'[txBuf] = size[txBuf]
      BY <1>1, <3>2
    <3> QED
      BY <1>1, <2>2, <3>1, <3>3 DEF LineAtBuffer
  <2> QED
    BY <2>1, <2>2
<1>4. Unmixed'
  <2> SUFFICES ASSUME NEW k \in 1 .. Len(stream)
               PROVE  IF stream[k][2] > 1
                      THEN k > 1 /\ stream[k - 1] = <<stream[k][1], stream[k][2] - 1>>
                      ELSE /\ k > 1 => stream[k - 1][2] = size'[stream[k - 1][1]]
                           /\ \A j \in 1 .. k - 1 : stream[j][1] # stream[k][1]
    BY DEF Unmixed
  <2>1. k > 1 => k - 1 \in 1 .. Len(stream)
    BY <1>2
  <2>2. IF stream[k][2] > 1
        THEN k > 1 /\ stream[k - 1] = <<stream[k][1], stream[k][2] - 1>>
        ELSE /\ k > 1 => stream[k - 1][2] = size[stream[k - 1][1]]
             /\ \A j \in 1 .. k - 1 : stream[j][1] # stream[k][1]
    BY DEF CdcIInv, Unmixed
  <2> QED
    BY <1>1, <2>1, <2>2
<1>5. \A c \in Buffer : Finished(c) => \E k \in 1 .. Len(stream) : stream[k] = <<c, size'[c]>>
  <2> SUFFICES ASSUME NEW c \in Buffer, NEW k \in 1 .. Len(stream), stream[k] = <<c, size[c]>>
               PROVE  \E m \in 1 .. Len(stream) : stream[m] = <<c, size'[c]>>
    BY DEF Finished
  <2>1. stream[k][1] = c
    OBVIOUS
  <2>2. size'[c] = size[c]
    BY <1>1, <2>1
  <2> QED
    BY <2>2
<1>6. HandedOnOnce'
  <2>1. /\ \A i \in 1 .. Len(ts) : ts[i] \in Buffer
        /\ \A i \in 1 .. Len(freed') : freed'[i] \in Buffer
    OBVIOUS
  <2>2. \A i \in 1 .. Len(tasks') : (Finished(tasks[i]) /\ tasks[i] # txBuf)'
    BY <1>5, <2>1 DEF HandedOn, Finished
  <2>3. \A i \in 1 .. Len(freed') : (Finished(freed[i]) /\ freed[i] # txBuf)'
    BY <1>5, <2>1 DEF HandedOn, Finished
  <2>4. Distinct(tasks)' /\ Distinct(freed)'
    BY DEF HandedOn, Distinct
  <2> QED
    BY <2>2, <2>3, <2>4 DEF HandedOn, HandedOnOnce
<1>7. PendingUnsent'
  <2>1. \A k \in 1 .. Len(pending') : pending'[k] <= written' /\ ~(OnLine(pending[k])')
    BY DEF Queued, OnLine
  <2>2. Distinct(pending)'
    BY DEF Queued, Distinct
  <2> QED
    BY <2>1, <2>2 DEF Queued, PendingUnsent
<1>8. CdcTypeOK'
  BY DEF Queued, CdcIInv, CdcTypeOK
<1>9. PacketsOnce'
  <2>1. /\ Distinct(stream)
        /\ \A k \in 1 .. Len(stream) : \A i \in 1 .. stream[k][2] :
             \E j \in 1 .. Len(stream) : stream[j] = <<stream[k][1], i>>
    BY DEF CdcIInv, PacketsOnce
  <2>2. ASSUME NEW k \in 1 .. Len(stream)
        PROVE  /\ stream[k][2] <= size'[stream[k][1]]
               /\ stream[k][1] = txBuf => stream[k][2] <= size'[txBuf] - left
    BY <1>1 DEF CdcIInv, PacketsOnce
  <2> QED
    BY <2>1, <2>2 DEF PacketsOnce, Distinct
<1> QED
  BY <1>3, <1>4, <1>6, <1>7, <1>8, <1>9 DEF LineOK

-----------------------------------------------------------------------------
(* Before any step: what is handed on, and the queue as it is *)
LEMMA AsItIs ==
  ASSUME CdcIInv
  PROVE  HandedOn(tasks, freed) /\ tasks \in Seq(Buffer) /\ freed \in Seq(Buffer)
  BY DEF CdcIInv, CdcTypeOK, HandedOnOnce, HandedOn

(* usb_uart_write by the application *)
LEMMA WriteKeeps ==
  ASSUME CdcIInv, NEW n \in 1 .. MaxPackets, Write(n)
  PROVE  LineOK'
<1> DEFINE b == written + 1
<1>0. /\ written \in Nat /\ Writes \in Nat /\ n \in Nat /\ n > 0 /\ written < Writes
      /\ size \in [Buffer -> Nat] /\ pending \in Seq(Buffer) /\ stream \in Seq(Buffer \X Nat)
  BY UsbUartAssumption DEF CdcIInv, CdcTypeOK, Write
<1>1. b \in Buffer /\ b <= Writes /\ written <= b /\ Buffer \subseteq Nat
  BY <1>0 DEF Buffer
<1>2. /\ written' = b /\ size' = [size EXCEPT ![b] = n] /\ freed' = freed
      /\ UartWrite(b, n, pending, tasks) /\ hasty' \in BOOLEAN
  BY DEF Write, CdcIInv, CdcTypeOK
<1>3. \A c \in Buffer : c <= written => c # b
  BY <1>0, <1>1
<1>4. \A k \in 1 .. Len(stream) : stream[k][1] # b
  <2>1. \A k \in 1 .. Len(stream) : stream[k][1] \in Buffer /\ stream[k][1] <= written
    BY <1>0 DEF CdcIInv, LineAtBuffer
  <2> QED
    BY <1>3, <2>1
<1>5. \A k \in 1 .. Len(pending) : pending[k] \in Buffer /\ pending[k] <= written /\ pending[k] # b
  BY <1>0, <1>3 DEF CdcIInv, PendingUnsent
<1>6. size' \in [Buffer -> Nat] /\ size'[b] = n
  BY <1>0, <1>1, <1>2
<1> HIDE DEF b
<1>7. \A c \in Buffer : c <= b => c <= written \/ c = b
  BY <1>0, <1>1 DEF b
<1>8. /\ \A c \in Buffer : c <= written => size'[c] = size[c]
      /\ \A c \in Buffer : c <= written' => size'[c] > 0
  <2>1. \A c \in Buffer : c # b => size'[c] = size[c]
    BY <1>0, <1>2
  <2>2. \A c \in Buffer : c <= written => size[c] > 0
    BY DEF CdcIInv, PendingUnsent
  <2> QED
    BY <1>0, <1>2, <1>3, <1>6, <1>7, <2>1, <2>2
<1>9. \A k \in 1 .. Len(pending) : pending[k] <= written' /\ ~OnLine(pending[k])
  <2> TAKE k \in 1 .. Len(pending)
  <2>1. pending[k] \in Nat /\ pending[k] <= written /\ b \in Nat
    BY <1>1, <1>5
  <2> QED
    BY <1>0, <1>1, <1>2, <2>1 DEF CdcIInv, PendingUnsent
<1>10. ~OnLine(b)
  BY <1>4 DEF OnLine
<1>11. /\ written' \in 0 .. Writes /\ written <= written' /\ b <= written' /\ Distinct(pending)
  BY <1>0, <1>1, <1>2 DEF CdcIInv, PendingUnsent
<1>12. CASE txBuf = None /\ SendBulkData(b, 1, n, tasks) /\ pending' = pending
  <2>1. Queued(pending')
    BY <1>0, <1>6, <1>8, <1>9, <1>11, <1>12 DEF Queued
  <2>2. SendBulkData(b, 1, size'[b], tasks) /\ 1 <= size'[b] /\ 1 \in Nat \ {0}
    BY <1>0, <1>6, <1>12
  <2>3. freed' \in Seq(Buffer) /\ HandedOn(tasks, freed') /\ tasks \in Seq(Buffer)
    BY <1>2, AsItIs
  <2>4. \A k \in 1 .. Len(pending') : pending'[k] # b
    BY <1>5, <1>12
  <2> QED
    BY <1>1, <1>2, <1>10, <1>11, <1>12, <2>1, <2>2, <2>3, <2>4, SendingStep
<1>13. CASE txBuf # None /\ pending' = Append(pending, b) /\ tasks' = tasks /\ UNCHANGED lineVars
  <2>1. Distinct(pending') /\ pending' \in Seq(Buffer)
    BY <1>0, <1>1, <1>5, <1>11, <1>13, DistinctAppend, Appended
  <2>2. \A k \in 1 .. Len(pending') : pending'[k] <= written' /\ ~OnLine(pending'[k])
    <3>1. /\ Len(pending') = Len(pending) + 1 /\ Len(pending) \in Nat /\ pending'[Len(pending) + 1] = b
          /\ \A k \in 1 .. Len(pending) : pending'[k] = pending[k]
      BY <1>0, <1>1, <1>13, Appended
    <3>2. \A k \in 1 .. Len(pending') : (k \in 1 .. Len(pending) /\ pending'[k] = pending[k]) \/ pending'[k] = b
      BY <3>1
    <3> QED
      BY <1>9, <1>10, <1>11, <3>2
  <2>3. Queued(pending')
    BY <1>0, <1>6, <1>8, <1>11, <2>1, <2>2 DEF Queued
  <2>4. freed' \in Seq(Buffer) /\ HandedOn(tasks, freed') /\ tasks \in Seq(Buffer)
    BY <1>2, AsItIs
  <2> QED
    BY <1>2, <1>13, <2>3, <2>4, WaitingStep
<1> QED
  BY <1>2, <1>12, <1>13 DEF UartWrite

(* A step that writes nothing new keeps sizes, and may shorten or turn the *)
(* queue.                                                                  *)
LEMMA StillQueued ==
  ASSUME CdcIInv, UNCHANGED <<written, size>>, NEW q \in Seq(Buffer), Distinct(q),
         \A i \in 1 .. Len(q) : \E k \in 1 .. Len(pending) : q[i] = pending[k]
  PROVE  Queued(q)
<1>1. written \in 0 .. Writes /\ written <= written /\ size \in [Buffer -> Nat]
  BY DEF CdcIInv, CdcTypeOK
<1>2. \A i \in 1 .. Len(q) : q[i] <= written /\ ~OnLine(q[i])
  BY DEF CdcIInv, PendingUnsent
<1> QED
  BY <1>1, <1>2 DEF Queued, CdcIInv, PendingUnsent

(* The interrupt of the endpoint *)
LEMMA IrqKeeps ==
  ASSUME CdcIInv, EndpointIrq
  PROVE  LineOK'
<1> DEFINE b == txBuf
           i == size[txBuf] - left + 1
<1>1. /\ b \in Buffer /\ SendBulkData(b, i, size[b], tasks)
      /\ UNCHANGED <<written, size, pending, freed>> /\ hasty' \in BOOLEAN
  BY DEF EndpointIrq, CdcIInv, CdcTypeOK
<1>2. /\ left \in 1 .. size[b] - 1 /\ Len(stream) > 0 /\ size[b] \in Nat /\ Len(stream) \in Nat
      /\ stream[Len(stream)] = <<b, size[b] - left>>
  BY <1>1 DEF EndpointIrq, CdcIInv, CdcTypeOK, LineAtBuffer
<1>3. i \in Nat \ {0} /\ i > 1 /\ i <= size[b] /\ i - 1 = size[b] - left
  BY <1>2
<1>4. b <= written /\ OnLine(b)
  <2>1. Len(stream) \in 1 .. Len(stream) /\ stream[Len(stream)][1] = b
    BY <1>2
  <2> QED
    BY <2>1 DEF CdcIInv, LineAtBuffer, OnLine
<1>5. Queued(pending')
  BY <1>1, StillQueued DEF CdcIInv, CdcTypeOK, PendingUnsent
<1>6. \A k \in 1 .. Len(pending') : pending'[k] # b
  BY <1>1, <1>4 DEF CdcIInv, PendingUnsent
<1>7. tasks \in Seq(Buffer) /\ freed' \in Seq(Buffer) /\ HandedOn(tasks, freed')
  BY <1>1, AsItIs
<1>8. SendBulkData(b, i, size'[b], tasks) /\ b <= written' /\ i <= size'[b]
  BY <1>1, <1>3, <1>4
<1>9. i > 1 /\ txBuf = b /\ stream[Len(stream)] = <<b, i - 1>>
  BY <1>2, <1>3
<1> HIDE DEF b, i
<1> QED
  BY <1>1, <1>3, <1>5, <1>6, <1>7, <1>8, <1>9, SendingStep

(* The task at the end of a transfer *)
LEMMA FinishKeeps ==
  ASSUME CdcIInv, FinishCb
  PROVE  LineOK'
<1> DEFINE ts == Tail(tasks)
<1>1. /\ ts \in Seq(Buffer) /\ freed' \in Seq(Buffer) /\ HandedOn(ts, freed')
      /\ UNCHANGED <<written, size>> /\ hasty' \in BOOLEAN
  BY Returned DEF FinishCb, CdcIInv, CdcTypeOK
<1>2. CASE pending = << >>
  <2>1. tasks' = ts /\ UNCHANGED <<pending, lineVars>>
    BY <1>2 DEF FinishCb
  <2>2. Queued(pending')
    BY <1>1, <2>1, StillQueued DEF CdcIInv, CdcTypeOK, PendingUnsent
  <2> HIDE DEF ts
  <2> QED
    BY <1>1, <2>1, <2>2, WaitingStep
<1>3. CASE pending # << >>
  <2> DEFINE b == Head(pending)
             q == Tail(pending)
  <2>1. pending \in Seq(Buffer) /\ Distinct(pending)
    BY DEF CdcIInv, CdcTypeOK, PendingUnsent
  <2>2. /\ q \in Seq(Buffer) /\ Len(q) = Len(pending) - 1 /\ Len(pending) \in Nat /\ Len(pending) > 0
        /\ b = pending[1] /\ b \in Buffer
        /\ \A i \in 1 .. Len(pending) - 1 : q[i] = pending[i + 1]
    BY <1>3, <2>1, Rest
  <2>3. Distinct(q) /\ \A i \in 1 .. Len(q) : q[i] # b
    BY <1>3, <2>1, DistinctRest
  <2>4. UartWrite(b, size[b], q, ts)
    BY <1>3 DEF FinishCb
  <2> HIDE DEF b, q, ts
  <2>5. 1 \in 1 .. Len(pending) /\ \A i \in 1 .. Len(q) : i + 1 \in 1 .. Len(pending) /\ q[i] = pending[i + 1]
    BY <2>2
  <2>6. b <= written /\ ~OnLine(b) /\ size[b] > 0 /\ size[b] \in Nat
    BY <2>2, <2>5 DEF CdcIInv, PendingUnsent, CdcTypeOK
  <2>7. CASE txBuf = None /\ SendBulkData(b, 1, size[b], ts) /\ pending' = q
    <3>1. Queued(pending')
      BY <1>1, <2>2, <2>3, <2>5, <2>7, StillQueued
    <3>2. SendBulkData(b, 1, size'[b], ts) /\ 1 <= size'[b] /\ 1 \in Nat \ {0} /\ b <= written'
      BY <1>1, <2>6, <2>7
    <3>3. \A k \in 1 .. Len(pending') : pending'[k] # b
      BY <2>3, <2>7
    <3> QED
      BY <1>1, <2>2, <2>6, <2>7, <3>1, <3>2, <3>3, SendingStep
  <2>8. CASE txBuf # None /\ pending' = Append(q, b) /\ tasks' = ts /\ UNCHANGED lineVars
    <3>1. Distinct(pending') /\ pending' \in Seq(Buffer)
      BY <2>2, <2>3, <2>8, DistinctAppend, Appended
    <3>2. \A i \in 1 .. Len(pending') : \E k \in 1 .. Len(pending) : pending'[i] = pending[k]
      <4>1. /\ Len(pending') = Len(q) + 1 /\ Len(q) \in Nat /\ pending'[Len(q) + 1] = b
            /\ \A k \in 1 .. Len(q) : pending'[k] = q[k]
        BY <2>2, <2>8, Appended
      <4>2. \A k \in 1 .. Len(pending') : (k \in 1 .. Len(q) /\ pending'[k] = q[k]) \/ pending'[k] = b
        BY <4>1
      <4> QED
        BY <2>2, <2>5, <4>2
    <3>3. Queued(pending')
      BY <1>1, <3>1, <3>2, StillQueued
    <3> QED
      BY <1>1, <2>8, <3>3, WaitingStep
  <2> QED
    BY <2>4, <2>7, <2>8 DEF UartWrite
<1> QED
  BY <1>2, <1>3

LEMMA CdcInitHolds == CdcInit => CdcIInv
<1> SUFFICES ASSUME CdcInit PROVE CdcIInv
  OBVIOUS
<1>1. << >> \in Seq(Buffer) /\ << >> \in Seq(Buffer \X Nat) /\ Len(<< >>) = 0 /\ 1 .. 0 = {}
  OBVIOUS
<1>2. written \in 0 .. Writes /\ size \in [Buffer -> Nat] /\ \A b \in Buffer : ~(b <= written)
  BY UsbUartAssumption DEF CdcInit, Buffer
<1>3. pending = << >> /\ tasks = << >> /\ freed = << >> /\ stream = << >> /\ txBuf = None /\ left = 0
      /\ lost = {} /\ hasty = FALSE
  BY DEF CdcInit
<1>4. CdcTypeOK
  BY <1>1, <1>2, <1>3 DEF CdcTypeOK
<1>5. PendingUnsent /\ HandedOnOnce
  BY <1>1, <1>2, <1>3 DEF PendingUnsent, HandedOnOnce, Distinct
<1>6. LineAtBuffer /\ Unmixed /\ PacketsOnce
  BY <1>1, <1>3 DEF LineAtBuffer, Unmixed, PacketsOnce, Distinct
<1>7. Orderly
  BY <1>1, <1>3 DEF Orderly, Ascending
<1> QED
  BY <1>4, <1>5, <1>6, <1>7 DEF CdcIInv

-----------------------------------------------------------------------------
(* The order of buffers.  While the application writes to the free port    *)
(* only when no task waits, at most one of port and tasks is occupied, and *)
(* what is pending is newer than all that has gone out.                    *)

(* A packet of b goes out, and everything pending is newer. *)
LEMMA SendingInOrder ==
  ASSUME CdcIInv, LineOK', ~hasty, NEW b \in Buffer, NEW i, NEW n,
         SendBulkData(b, i, n, << >>),
         \A k \in 1 .. Len(stream) : stream[k][1] <= b,
         Ascending(pending'), \A k \in 1 .. Len(pending') : b <= pending'[k]
  PROVE  Orderly'
<1> DEFINE m == Len(stream)
<1>1. /\ Len(stream') = m + 1 /\ m \in Nat /\ stream'[m + 1] = <<b, i>>
      /\ \A k \in 1 .. m : stream'[k] = stream[k]
  <2>1. stream \in Seq(Buffer \X Nat) /\ stream' \in Seq(Buffer \X Nat)
        /\ stream' = Append(stream, <<b, i>>)
    BY DEF CdcIInv, LineOK, CdcTypeOK, SendBulkData, Arm
  <2> QED
    BY <2>1
<1>2. b \in Nat /\ b # None /\ Buffer \subseteq Nat
  BY DEF Buffer, None
<1>3. /\ stream \in Seq(Buffer \X Nat) /\ pending' \in Seq(Buffer) /\ Len(pending') \in Nat
  BY DEF CdcIInv, LineOK, CdcTypeOK
<1>4. /\ \A k \in 1 .. m : stream[k][1] \in Nat /\ stream[k][1] <= b
      /\ \A j, k \in 1 .. m : j < k => stream[j][1] <= stream[k][1]
      /\ \A k \in 1 .. Len(pending') : pending'[k] \in Nat
  <2>1. Orderly
    BY DEF CdcIInv
  <2>2. ASSUME NEW k \in 1 .. m PROVE stream[k][1] \in Nat /\ stream[k][1] <= b
    <3>1. stream[k] \in Buffer \X Nat
      BY <1>3
    <3> QED
      BY <1>2, <3>1
  <2>3. \A j, k \in 1 .. m : j < k => stream[j][1] <= stream[k][1]
    BY <2>1 DEF Orderly
  <2>4. ASSUME NEW k \in 1 .. Len(pending') PROVE pending'[k] \in Nat
    <3>1. pending'[k] \in Buffer
      BY <1>3
    <3> QED
      BY <1>2, <3>1
  <2> QED
    BY <2>2, <2>3, <2>4
<1>5. \/ txBuf' = None /\ tasks' = <<b>>
      \/ txBuf' = b /\ tasks' = << >>
  BY DEF SendBulkData
<1>6. Len(tasks') <= 1 /\ (txBuf' # None => tasks' = << >>) /\ (txBuf' # None \/ tasks' # << >>)
  <2>1. Len(<<b>>) = 1 /\ <<b>> # << >> /\ Len(<< >>) = 0
    OBVIOUS
  <2>2. CASE txBuf' = None /\ tasks' = <<b>>
    BY <2>1, <2>2
  <2>3. CASE txBuf' = b /\ tasks' = << >>
    BY <1>2, <2>1, <2>3
  <2> QED
    BY <1>5, <2>2, <2>3
<1> HIDE DEF m
<1>7. \A k \in 1 .. m + 1 : k \in 1 .. m \/ k = m + 1
  BY <1>1
<1>8. \A k \in 1 .. m + 1, j \in 1 .. Len(pending') : stream'[k][1] <= pending'[j]
  <2> TAKE k \in 1 .. m + 1, j \in 1 .. Len(pending')
  <2>1. stream'[k][1] \in Nat /\ stream'[k][1] <= b
    <3>1. CASE k \in 1 .. m
      BY <1>1, <1>4, <3>1
    <3>2. CASE k = m + 1
      BY <1>1, <1>2, <3>2
    <3> QED
      BY <1>7, <3>1, <3>2
  <2> QED
    BY <1>2, <1>4, <2>1
<1>9. \A j, k \in 1 .. m + 1 : j < k => stream'[j][1] <= stream'[k][1]
  <2> SUFFICES ASSUME NEW j \in 1 .. m + 1, NEW k \in 1 .. m + 1, j < k
               PROVE  stream'[j][1] <= stream'[k][1]
    OBVIOUS
  <2>1. j \in 1 .. m
    BY <1>1
  <2>2. CASE k \in 1 .. m
    BY <1>1, <1>4, <2>1, <2>2
  <2>3. CASE k = m + 1
    BY <1>1, <1>4, <2>1, <2>3
  <2> QED
    BY <1>7, <2>2, <2>3
<1> QED
  BY <1>1, <1>6, <1>8, <1>9 DEF Orderly, Ascending

LEMMA WriteInOrder ==
  ASSUME CdcIInv, LineOK', NEW n \in 1 .. MaxPackets, Write(n)
  PROVE  Orderly'
<1> SUFFICES ASSUME ~hasty' PROVE Orderly'
  BY DEF Orderly
<1>1. /\ ~hasty /\ (txBuf # None \/ tasks = << >>) /\ written' = written + 1
      /\ UartWrite(written', n, pending, tasks)
  BY DEF Write
<1>2. /\ written \in Nat /\ Buffer \subseteq Nat /\ written' \in Buffer
      /\ pending \in Seq(Buffer) /\ Len(pending) \in Nat
      /\ stream \in Seq(Buffer \X Nat) /\ tasks \in Seq(Buffer)
  BY UsbUartAssumption DEF Write, Buffer, CdcIInv, CdcTypeOK
<1>3. /\ \A k \in 1 .. Len(stream) : stream[k][1] \in Nat /\ stream[k][1] <= written'
      /\ \A k \in 1 .. Len(pending) : pending[k] \in Nat /\ pending[k] <= written'
  <2>1. ASSUME NEW k \in 1 .. Len(stream) PROVE stream[k][1] \in Nat /\ stream[k][1] <= written'
    <3>1. stream[k] \in Buffer \X Nat /\ stream[k][1] <= written
      BY <1>2 DEF CdcIInv, LineAtBuffer
    <3>2. stream[k][1] \in Nat
      BY <1>2, <3>1
    <3> QED
      BY <1>1, <1>2, <3>1, <3>2
  <2>2. ASSUME NEW k \in 1 .. Len(pending) PROVE pending[k] \in Nat /\ pending[k] <= written'
    <3>1. pending[k] \in Buffer /\ pending[k] <= written
      BY <1>2 DEF CdcIInv, PendingUnsent
    <3>2. pending[k] \in Nat
      BY <1>2, <3>1
    <3> QED
      BY <1>1, <1>2, <3>1, <3>2
  <2> QED
    BY <2>1, <2>2
<1>4. Orderly
  BY DEF CdcIInv
<1> DEFINE b == written'
<1> HIDE DEF b
<1>5. CASE txBuf = None /\ SendBulkData(b, 1, n, tasks) /\ pending' = pending
  <2>1. tasks = << >> /\ pending = << >>
    BY <1>1, <1>4, <1>5 DEF Orderly
  <2>2. Len(pending') = 0 /\ 1 .. 0 = {} /\ Ascending(pending')
    BY <1>5, <2>1 DEF Ascending
  <2> QED
    BY <1>1, <1>2, <1>3, <1>5, <2>1, <2>2, SendingInOrder DEF b
<1>6. CASE txBuf # None /\ pending' = Append(pending, b) /\ tasks' = tasks /\ UNCHANGED lineVars
  <2>1. /\ Len(pending') = Len(pending) + 1 /\ pending'[Len(pending) + 1] = b
        /\ \A k \in 1 .. Len(pending) : pending'[k] = pending[k]
    BY <1>2, <1>6, Appended DEF b
  <2>2. \A k \in 1 .. Len(pending') : k \in 1 .. Len(pending) \/ k = Len(pending) + 1
    BY <1>2, <2>1
  <2>3. Ascending(pending')
    <3> SUFFICES ASSUME NEW j \in 1 .. Len(pending'), NEW k \in 1 .. Len(pending'), j < k
                 PROVE  pending'[j] <= pending'[k]
      BY DEF Ascending
    <3>1. j \in 1 .. Len(pending)
      BY <1>2, <2>1
    <3>2. CASE k \in 1 .. Len(pending)
      BY <1>1, <1>4, <2>1, <3>1, <3>2 DEF Orderly, Ascending
    <3>3. CASE k = Len(pending) + 1
      BY <1>3, <2>1, <3>1, <3>3 DEF b
    <3> QED
      BY <2>2, <3>2, <3>3
  <2>4. \A k \in 1 .. Len(stream), j \in 1 .. Len(pending') : stream[k][1] <= pending'[j]
    <3> TAKE k \in 1 .. Len(stream), j \in 1 .. Len(pending')
    <3>1. CASE j \in 1 .. Len(pending)
      BY <1>1, <1>4, <2>1, <3>1 DEF Orderly
    <3>2. CASE j = Len(pending) + 1
      BY <1>3, <2>1, <3>2 DEF b
    <3> QED
      BY <2>2, <3>1, <3>2
  <2>5. tasks = << >> /\ Len(tasks) <= 1 /\ \A j, k \in 1 .. Len(stream) : j < k => stream[j][1] <= stream[k][1]
    BY <1>1, <1>4, <1>6 DEF Orderly
  <2>6. Ascending(pending)'
    BY <2>3 DEF Ascending
  <2> QED
    BY <1>6, <2>4, <2>5, <2>6 DEF Orderly, lineVars
<1> QED
  BY <1>1, <1>5, <1>6 DEF UartWrite, b

LEMMA IrqInOrder ==
  ASSUME CdcIInv, LineOK', EndpointIrq
  PROVE  Orderly'
<1> SUFFICES ASSUME ~hasty' PROVE Orderly'
  BY DEF Orderly
<1>1. /\ ~hasty /\ txBuf # None /\ txBuf \in Buffer /\ pending' = pending
      /\ SendBulkData(txBuf, size[txBuf] - left + 1, size[txBuf], tasks)
  BY DEF EndpointIrq, CdcIInv, CdcTypeOK
<1>2. Orderly /\ tasks = << >>
  BY <1>1 DEF CdcIInv, Orderly
<1>3. /\ stream \in Seq(Buffer \X Nat) /\ Len(stream) \in Nat /\ Len(stream) > 0
      /\ stream[Len(stream)][1] = txBuf /\ Buffer \subseteq Nat
  BY <1>1 DEF CdcIInv, CdcTypeOK, LineAtBuffer, Buffer
<1>4. Len(stream) \in 1 .. Len(stream) /\ txBuf \in Nat
  BY <1>1, <1>3
<1>5. \A k \in 1 .. Len(stream) : stream[k][1] <= txBuf
  <2> TAKE k \in 1 .. Len(stream)
  <2>1. CASE k = Len(stream)
    BY <1>3, <1>4, <2>1
  <2>2. CASE k < Len(stream)
    BY <1>1, <1>2, <1>3, <1>4, <2>2 DEF Orderly
  <2> QED
    BY <1>3, <2>1, <2>2
<1>6. \A k \in 1 .. Len(pending') : txBuf <= pending'[k]
  BY <1>1, <1>2, <1>3, <1>4 DEF Orderly
<1>7. Ascending(pending')
  BY <1>1, <1>2 DEF Orderly, Ascending
<1> QED
  BY <1>1, <1>2, <1>5, <1>6, <1>7, SendingInOrder

LEMMA FinishInOrder ==
  ASSUME CdcIInv, LineOK', FinishCb
  PROVE  Orderly'
<1> SUFFICES ASSUME ~hasty' PROVE Orderly'
  BY DEF Orderly
<1>1. ~hasty /\ tasks # << >> /\ Orderly
  BY DEF FinishCb, CdcIInv
<1>2. txBuf = None /\ Len(tasks) <= 1
  BY <1>1 DEF Orderly
<1>3. Tail(tasks) = << >>
  BY <1>1, <1>2 DEF CdcIInv, CdcTypeOK
<1>4. CASE pending = << >>
  <2>1. tasks' = << >> /\ pending' = << >> /\ UNCHANGED lineVars
    BY <1>3, <1>4 DEF FinishCb
  <2>2. Len(tasks') <= 1 /\ Len(pending') = 0 /\ 1 .. 0 = {}
    BY <2>1
  <2>3. \A j, k \in 1 .. Len(stream) : j < k => stream[j][1] <= stream[k][1]
    BY <1>1 DEF Orderly
  <2> QED
    BY <2>1, <2>2, <2>3 DEF Orderly, Ascending, lineVars
<1>5. CASE pending # << >>
  <2> DEFINE b == Head(pending)
             q == Tail(pending)
  <2>1. /\ q \in Seq(Buffer) /\ Len(q) = Len(pending) - 1 /\ Len(pending) \in Nat /\ Len(pending) > 0
        /\ b = pending[1] /\ b \in Buffer
        /\ \A i \in 1 .. Len(pending) - 1 : q[i] = pending[i + 1]
    BY <1>5, Rest DEF CdcIInv, CdcTypeOK
  <2>2. SendBulkData(b, 1, size[b], << >>) /\ pending' = q
    BY <1>2, <1>3, <1>5 DEF FinishCb, UartWrite
  <2> HIDE DEF b, q
  <2>3. /\ 1 \in 1 .. Len(pending)
        /\ \A i \in 1 .. Len(q) : i + 1 \in 1 .. Len(pending) /\ 1 < i + 1 /\ q[i] = pending[i + 1]
    BY <2>1
  <2>4. \A k \in 1 .. Len(stream) : stream[k][1] <= b
    BY <1>1, <2>1, <2>3 DEF Orderly
  <2>5. \A k \in 1 .. Len(pending') : b <= pending'[k]
    BY <1>1, <2>1, <2>2, <2>3 DEF Orderly, Ascending
  <2>6. Ascending(pending')
    <3> SUFFICES ASSUME NEW j \in 1 .. Len(q), NEW k \in 1 .. Len(q), j < k PROVE q[j] <= q[k]
      BY <2>2 DEF Ascending
    <3>1. j + 1 < k + 1
      OBVIOUS
    <3> QED
      BY <1>1, <2>3, <3>1 DEF Orderly, Ascending
  <2> QED
    BY <1>1, <2>1, <2>2, <2>4, <2>5, <2>6, SendingInOrder
<1> QED
  BY <1>4, <1>5

-----------------------------------------------------------------------------
LEMMA CdcNextKeeps == CdcIInv /\ [CdcNext]_cdcVars => CdcIInv'
<1>1. CdcIInv /\ UNCHANGED cdcVars => CdcIInv'
  <2> SUFFICES ASSUME CdcIInv, UNCHANGED cdcVars PROVE CdcIInv'
    OBVIOUS
  <2> USE DEF cdcVars, lineVars, CdcIInv
  <2>1. CdcTypeOK' /\ LineAtBuffer' /\ Unmixed'
    BY DEF CdcTypeOK, LineAtBuffer, Unmixed
  <2>2. PendingUnsent'
    BY DEF PendingUnsent, Distinct, OnLine
  <2>3. HandedOnOnce'
    BY DEF HandedOnOnce, Distinct, Finished
  <2>4. PacketsOnce'
    BY DEF PacketsOnce, Distinct
  <2>5. Orderly'
    BY DEF Orderly, Ascending
  <2> QED
    BY <2>1, <2>2, <2>3, <2>4, <2>5
<1>2. ASSUME CdcIInv, CdcNext PROVE CdcIInv'
  <2>1. LineOK'
    BY <1>2, WriteKeeps, IrqKeeps, FinishKeeps DEF CdcNext
  <2>2. Orderly'
    BY <1>2, <2>1, WriteInOrder, IrqInOrder, FinishInOrder DEF CdcNext
  <2> QED
    BY <2>1, <2>2 DEF LineOK, CdcIInv
<1> QED
  BY <1>1, <1>2

-----------------------------------------------------------------------------
(* Pending buffers are unsent, the port holds the last one on the line,    *)
(* and finished ones are handed on once.                                   *)
THEOREM CdcInvariant == CdcSpec => []CdcIInv
BY CdcInitHolds, CdcNextKeeps, PTL DEF CdcSpec

(* The packets of a finished buffer are those taken and those withdrawn,   *)
(* each once, because each packet is on the line once.                     *)
LEMMA EveryPacket == CdcIInv => StreamWhole
<1> SUFFICES ASSUME CdcIInv PROVE StreamWhole
  OBVIOUS
<1>1. /\ stream \in Seq(Buffer \X Nat) /\ lost \subseteq 1 .. Len(stream) /\ size \in [Buffer -> Nat]
      /\ Unmixed /\ Orderly /\ PacketsOnce
      /\ \A k \in 1 .. Len(stream) : stream[k][2] > 0
  BY DEF CdcIInv, CdcTypeOK, LineAtBuffer
<1>2. ASSUME NEW b \in Buffer, Finished(b)
      PROVE  Taken(b) \cap Withdrawn(b) = {} /\ Taken(b) \cup Withdrawn(b) = 1 .. size[b]
  <2>1. PICK k \in 1 .. Len(stream) : stream[k] = <<b, size[b]>>
    BY <1>2 DEF Finished
  <2>2. ASSUME NEW x \in Taken(b), x \in Withdrawn(b) PROVE FALSE
    <3>1. PICK i \in 1 .. Len(stream) : i \notin lost /\ stream[i][1] = b /\ stream[i][2] = x
      BY <2>2 DEF Taken
    <3>2. PICK j \in lost : stream[j][1] = b /\ stream[j][2] = x
      BY <2>2 DEF Withdrawn
    <3>3. j \in 1 .. Len(stream) /\ stream[i] \in Buffer \X Nat /\ stream[j] \in Buffer \X Nat
      BY <1>1
    <3>4. stream[i] = stream[j]
      BY <3>1, <3>2, <3>3
    <3> QED
      BY <1>1, <3>1, <3>3, <3>4 DEF PacketsOnce, Distinct
  <2>3. ASSUME NEW j \in 1 .. Len(stream), stream[j][1] = b PROVE stream[j][2] \in 1 .. size[b]
    <3>1. stream[j][2] \in Nat /\ stream[j][2] > 0 /\ stream[j][2] <= size[b] /\ size[b] \in Nat
      BY <1>1, <2>3 DEF PacketsOnce
    <3> QED
      BY <3>1
  <2>4. \A x \in Taken(b) \cup Withdrawn(b) : x \in 1 .. size[b]
    BY <1>1, <2>3 DEF Taken, Withdrawn
  <2>5. ASSUME NEW x \in 1 .. size[b] PROVE x \in Taken(b) \cup Withdrawn(b)
    <3>1. PICK j \in 1 .. Len(stream) : stream[j] = <<b, x>>
      <4>1. stream[k][1] = b /\ stream[k][2] = size[b]
        BY <2>1
      <4>2. \A i \in 1 .. stream[k][2] : \E j \in 1 .. Len(stream) : stream[j] = <<stream[k][1], i>>
        BY <1>1 DEF PacketsOnce
      <4> QED
        BY <2>5, <4>1, <4>2
    <3>2. stream[j][1] = b /\ stream[j][2] = x
      BY <3>1
    <3>3. CASE j \in lost
      BY <3>2, <3>3 DEF Withdrawn
    <3>4. CASE j \notin lost
      BY <3>2, <3>4 DEF Taken
    <3> QED
      BY <3>3, <3>4
  <2> QED
    BY <2>2, <2>4, <2>5
<1> QED
  BY <1>1, <1>2 DEF StreamWhole, Orderly

(* Buffers go out once and unmixed; the host misses of a finished one the  *)
(* packets that were withdrawn and no other; and they go out in the order  *)
(* they were written unless the application writes to the free port before *)
(* the task of the last transfer has run.                                  *)
THEOREM Whole == CdcSpec => []StreamWhole
BY EveryPacket, CdcInvariant, PTL

(* What has been freed was finished, and nothing is handed on twice. *)
LEMMA FreedLast == CdcIInv => FreedOnceAfterSent
<1> SUFFICES ASSUME CdcIInv, NEW k \in 1 .. Len(freed)
             PROVE  /\ \E i \in 1 .. Len(stream) : stream[i] = <<freed[k], size[freed[k]]>>
                    /\ \A j \in 1 .. k - 1 : freed[j] # freed[k]
  BY DEF FreedOnceAfterSent
<1>1. \E i \in 1 .. Len(stream) : stream[i] = <<freed[k], size[freed[k]]>>
  BY DEF CdcIInv, HandedOnOnce, Finished
<1>2. \A j \in 1 .. k - 1 : j \in 1 .. Len(freed) /\ j # k
  BY DEF CdcIInv, CdcTypeOK
<1> QED
  BY <1>1, <1>2 DEF CdcIInv, HandedOnOnce, Distinct

(* A buffer is given back once, after its last packet.                     *)
THEOREM FreedOnce == CdcSpec => []FreedOnceAfterSent
BY FreedLast, CdcInvariant, PTL

-----------------------------------------------------------------------------
(* The HID devices.  usb_fifo is a ring like those of ys_uart.c, with      *)
(* other operators around the same arithmetic.                             *)
Ring == INSTANCE MyFifo_proof WITH Num <- FifoNum

HidReports == [id : {"normal", "sys", "media", "mouse"}, says : Keys \cup {Up, Down} \cup 0 .. 1]

(* The entries between the counters are the reports that wait, oldest      *)
(* first, and never more than there are slots.                             *)
FifoOK ==
  /\ fifo \in [0 .. FifoNum - 1 -> HidReports \cup {NoReport}]
  /\ fr \in Ring!Ptr /\ fw \in Ring!Ptr
  /\ waiting \in Seq(HidReports) /\ Len(waiting) <= FifoNum
  /\ Ring!Count(fw, fr) = Len(waiting)
  /\ \A k \in 0 .. Len(waiting) - 1 : fifo[Ring!EntrySlot(fr, k)] = waiting[k + 1]

(* The toggle that is used next is the one the host waits for, or the      *)
(* other one when a report with that toggle is still in the endpoint; a    *)
(* host that has reset the bus begins with 0.                              *)
Agreed(e) ==
  IF hidEp[e] = NoReport THEN expects[e] = toggle[e]
  ELSE expects[e] = sentAs[e] /\ toggle[e] = 1 - sentAs[e]

TogglesOK ==
  /\ hidEp \in [Endpoints -> HidReports \cup {NoReport}]
  /\ toggle \in [Endpoints -> {0, 1}] /\ sentAs \in [Endpoints -> {0, 1}]
  /\ expects \in [Endpoints -> {0, 1}] /\ resetting \in BOOLEAN
  /\ "cancelled" \notin mishaps =>
       \A e \in Endpoints : IF resetting THEN expects[e] = 0 ELSE Agreed(e)

(* A frame stays in its ring while it is being reported. *)
RingsOK ==
  /\ kbRing \in Seq(KbData \cup {Malformed}) /\ mouseRing \in Seq(0 .. 1)
  /\ pc \in {"sys", "media"} => kbRing # << >>

HidIInv == FifoOK /\ TogglesOK /\ RingsOK

LEMMA RingAssumption == Ring!NumAssumption
<1>1. PtrMod = (2 * FifoNum) * (PtrMod \div (2 * FifoNum)) /\ PtrMod \div (2 * FifoNum) \in Int
  BY HidAssumption
<1> DEFINE d == PtrMod \div (2 * FifoNum)
<1> HIDE DEF d
<1>2. d \in Int /\ PtrMod = (2 * FifoNum) * d /\ PtrMod \in Nat /\ PtrMod > 0 /\ FifoNum \in Nat /\ FifoNum > 1
  BY <1>1, HidAssumption DEF d
<1>3. d >= 1
  <2>1. CASE d <= 0
    <3>1. (2 * FifoNum) * d <= 0
      BY <1>2, <2>1
    <3> QED
      BY <1>2, <3>1
  <2> QED
    BY <1>2, <2>1
<1>4. PtrMod = (2 * d) * FifoNum /\ 2 * d <= PtrMod
  <2>1. (2 * FifoNum) * d = (2 * d) * FifoNum
    BY <1>2
  <2>2. (2 * d) * FifoNum >= 2 * d
    BY <1>2, <1>3
  <2> QED
    BY <1>2, <2>1, <2>2
<1>5. 2 * d \in 2 .. PtrMod
  BY <1>2, <1>3, <1>4
<1> QED
  BY <1>2, <1>4, <1>5 DEF Ring!NumAssumption

(* The counters, taken modulo twice the depth as usbkb.c does. *)
LEMMA RingFacts ==
  /\ FifoNum \in Nat /\ FifoNum > 1 /\ PtrMod \in Nat /\ PtrMod >= 2 * FifoNum
  /\ \A w, r \in Ring!Ptr :
       (w - r) % (2 * FifoNum) = Ring!Count(w, r) % (2 * FifoNum)
  /\ \A r \in Ring!Ptr, k \in Int : (r + k) % FifoNum = Ring!EntrySlot(r, k)
<1>1. FifoNum \in Nat /\ FifoNum > 1 /\ PtrMod \in Nat
  BY HidAssumption
<1>2. PtrMod >= 2 * FifoNum
  BY RingAssumption, Ring!PtrModFacts
<1>3. \E h \in Nat : h > 0 /\ PtrMod = h * (2 * FifoNum)
  <2> DEFINE m == 2 * FifoNum
  <2>1. m \in Nat /\ m > 0 /\ PtrMod % m = 0
    BY HidAssumption
  <2> HIDE DEF m
  <2>2. PtrMod = m * (PtrMod \div m) + (PtrMod % m) /\ PtrMod \div m \in Int
    BY <2>1, <1>1
  <2> DEFINE h == PtrMod \div m
  <2> HIDE DEF h
  <2>3. h \in Int /\ PtrMod = m * h
    BY <1>1, <2>1, <2>2 DEF h
  <2>4. h > 0
    <3>1. CASE h <= 0
      <4>1. m * h <= 0
        BY <2>1, <2>3, <3>1
      <4> QED
        BY <1>1, <1>2, <2>3, <4>1
    <3> QED
      BY <2>3, <3>1
  <2>5. PtrMod = h * m
    BY <2>1, <2>3
  <2> QED
    BY <2>3, <2>4, <2>5 DEF m
<1>4. PICK h \in Nat : h > 0 /\ PtrMod = h * (2 * FifoNum)
  BY <1>3
<1>5. ASSUME NEW w \in Ring!Ptr, NEW r \in Ring!Ptr
      PROVE  (w - r) % (2 * FifoNum) = Ring!Count(w, r) % (2 * FifoNum)
  <2>1. 2 * FifoNum \in Nat /\ 2 * FifoNum > 0 /\ w - r \in Int
    BY <1>1 DEF Ring!Ptr
  <2>2. ((w - r) % (h * (2 * FifoNum))) % (2 * FifoNum) = (w - r) % (2 * FifoNum)
    BY <2>1, <1>4, Ring!ModOfMod, RingAssumption
  <2> QED
    BY <2>2, <1>4 DEF Ring!Count
<1>6. ASSUME NEW r \in Ring!Ptr, NEW k \in Int
      PROVE  (r + k) % FifoNum = Ring!EntrySlot(r, k)
  <2>1. r + k \in Int /\ 2 * h \in Nat /\ 2 * h > 0 /\ FifoNum > 0
    BY <1>1, <1>4 DEF Ring!Ptr
  <2>2. h * (2 * FifoNum) = (2 * h) * FifoNum
    BY <1>1, <1>4
  <2>3. ((r + k) % ((2 * h) * FifoNum)) % FifoNum = (r + k) % FifoNum
    BY <2>1, <1>1, Ring!ModOfMod, RingAssumption
  <2> QED
    BY <2>2, <2>3, <1>4 DEF Ring!EntrySlot, Ring!SlotOf, Ring!Nth
<1> QED
  BY <1>1, <1>2, <1>5, <1>6

(* What a step of one counter does to their distance. *)
LEMMA RingCounters ==
  ASSUME NEW w \in Ring!Ptr, NEW r \in Ring!Ptr
  PROVE  /\ Ring!Bump(w) \in Ring!Ptr
         /\ Ring!Count(w, r) \in Nat
         /\ w # r <=> Ring!Count(w, r) # 0
         /\ Ring!Count(w, r) < PtrMod - 1 => Ring!Count(Ring!Bump(w), r) = Ring!Count(w, r) + 1
         /\ w # r => Ring!Count(w, Ring!Bump(r)) = Ring!Count(w, r) - 1
<1>1. Ring!Bump(w) \in Ring!Ptr
  BY RingAssumption, Ring!BumpCases
<1>2. Ring!Count(w, r) \in Nat
  BY RingAssumption, Ring!CountCases
<1>3. w # r <=> Ring!Count(w, r) # 0
  BY RingAssumption, Ring!CountZero DEF Ring!IsEmpty
<1>4. ASSUME Ring!Count(w, r) < PtrMod - 1 PROVE Ring!Count(Ring!Bump(w), r) = Ring!Count(w, r) + 1
  BY <1>4, RingAssumption, Ring!CountHandedOver
<1>5. ASSUME w # r PROVE Ring!Count(w, Ring!Bump(r)) = Ring!Count(w, r) - 1
  BY <1>5, RingAssumption, Ring!CountReleased DEF Ring!IsEmpty
<1> QED
  BY <1>1, <1>2, <1>3, <1>4, <1>5

(* One lap further is the same slot. *)
LEMMA OneLap ==
  ASSUME NEW r \in Nat
  PROVE  (r + FifoNum) % FifoNum = r % FifoNum
<1> DEFINE q == r \div FifoNum
<1> DEFINE b == r % FifoNum
<1>0. FifoNum \in Nat /\ FifoNum > 0
  BY RingFacts
<1>1. q \in Int /\ b \in 0 .. FifoNum - 1 /\ r = FifoNum * q + b
  BY <1>0
<1> HIDE DEF q, b
<1>2. r + FifoNum = (q + 1) * FifoNum + b
  BY <1>0, <1>1
<1>3. /\ r + FifoNum \in Int /\ q + 1 \in Int
  BY <1>0, <1>1
<1>4. (r + FifoNum) % FifoNum = b
  BY <1>0, <1>1, <1>2, <1>3, Ring!ModUnique, RingAssumption
<1> QED
  BY <1>4 DEF b

(* A report joins the ring.  While there is room it is one entry more; a   *)
(* full ring gives up its oldest entry, whose slot the newest one takes.   *)
LEMMA EnqueueKeeps ==
  ASSUME FifoOK, NEW rep \in HidReports, Enqueue(rep)
  PROVE  FifoOK'
<1> DEFINE n == Len(waiting)
<1> DEFINE slot == Ring!SlotOf(fw)
<1>0. /\ FifoNum \in Nat /\ FifoNum > 1 /\ PtrMod \in Nat /\ PtrMod >= 2 * FifoNum
      /\ fr \in Ring!Ptr /\ fw \in Ring!Ptr /\ n \in 0 .. FifoNum
      /\ waiting \in Seq(HidReports) /\ Ring!Count(fw, fr) = n
      /\ fifo \in [0 .. FifoNum - 1 -> HidReports \cup {NoReport}]
      /\ \A k \in 0 .. n - 1 : fifo[Ring!EntrySlot(fr, k)] = waiting[k + 1]
  BY RingFacts DEF FifoOK
<1> HIDE DEF n
<1>1. fw % FifoNum = slot /\ slot \in 0 .. FifoNum - 1
  BY <1>0, RingAssumption, Ring!SlotOfInSlot DEF Ring!SlotOf, Ring!Slot, Ring!Ptr
<1> HIDE DEF slot
<1>2. /\ fifo' = [fifo EXCEPT ![slot] = rep] /\ fw' = Ring!Bump(fw) /\ fw' \in Ring!Ptr
      /\ fr' = IF (fw' - fr) % (2 * FifoNum) > FifoNum THEN Ring!Bump(fr) ELSE fr
      /\ waiting' = IF n = FifoNum THEN Append(Tail(waiting), rep) ELSE Append(waiting, rep)
  BY <1>0, <1>1, RingAssumption, Ring!BumpCases DEF Enqueue, Ring!Bump, n
<1>3. /\ fifo' \in [0 .. FifoNum - 1 -> HidReports \cup {NoReport}]
      /\ fifo'[slot] = rep
      /\ \A s \in 0 .. FifoNum - 1 : s # slot => fifo'[s] = fifo[s]
  BY <1>0, <1>1, <1>2
<1>4. Ring!Count(fw', fr) = n + 1
  <2>1. Ring!Count(fw, fr) < PtrMod - 1
    BY <1>0
  <2> QED
    BY <1>0, <1>2, <2>1, RingCounters
<1>5. (fw' - fr) % (2 * FifoNum) = n + 1
  <2>1. (fw' - fr) % (2 * FifoNum) = (n + 1) % (2 * FifoNum)
    BY <1>0, <1>2, <1>4, RingFacts
  <2> DEFINE m == 2 * FifoNum
  <2>2. m \in Nat /\ m > 0 /\ n + 1 \in 0 .. m - 1
    BY <1>0
  <2> HIDE DEF m
  <2>3. (n + 1) % m = n + 1
    BY <2>2
  <2> QED
    BY <2>1, <2>3 DEF m
<1>6. ASSUME NEW i \in 0 .. FifoNum - 1, NEW j \in 0 .. FifoNum - 1, i # j
      PROVE  /\ Ring!EntrySlot(fr, i) # Ring!EntrySlot(fr, j)
             /\ Ring!EntrySlot(fr, i) \in 0 .. FifoNum - 1
  <2>1. i \in Ring!Ptr
    BY <1>0 DEF Ring!Ptr
  <2> QED
    BY <1>0, <1>6, <2>1, RingAssumption, Ring!EntrySlotDistinct, Ring!EntrySlotInSlot DEF Ring!Slot
<1>7. Ring!EntrySlot(fr, n) = slot
  BY <1>0, RingAssumption, Ring!EntryOpen DEF slot
<1>8. CASE n < FifoNum
  <2>1. fr' = fr /\ waiting' = Append(waiting, rep)
    BY <1>0, <1>2, <1>5, <1>8
  <2>2. /\ waiting' \in Seq(HidReports) /\ Len(waiting') = n + 1 /\ waiting'[n + 1] = rep
        /\ \A i \in 1 .. n : waiting'[i] = waiting[i]
    BY <1>0, <2>1 DEF n
  <2>3. ASSUME NEW k \in 0 .. n
        PROVE  fifo'[Ring!EntrySlot(fr, k)] = waiting'[k + 1]
    <3>1. CASE k = n
      BY <3>1, <1>3, <1>7, <2>2
    <3>2. CASE k # n
      <4>1. k \in 0 .. n - 1 /\ k + 1 \in 1 .. n /\ k \in 0 .. FifoNum - 1 /\ n \in 0 .. FifoNum - 1
        BY <1>0, <1>8, <3>2
      <4>2. Ring!EntrySlot(fr, k) # slot /\ Ring!EntrySlot(fr, k) \in 0 .. FifoNum - 1
        BY <4>1, <3>2, <1>6, <1>7
      <4> QED
        BY <4>1, <4>2, <1>0, <1>3, <2>2
    <3> QED
      BY <3>1, <3>2
  <2>4. Len(waiting') - 1 = n /\ Len(waiting') <= FifoNum
    BY <1>0, <1>8, <2>2
  <2> QED
    BY <1>0, <1>2, <1>3, <1>4, <2>1, <2>2, <2>3, <2>4 DEF FifoOK
<1>9. CASE n = FifoNum
  <2>1. fr' = Ring!Bump(fr) /\ waiting' = Append(Tail(waiting), rep)
    BY <1>0, <1>2, <1>5, <1>9
  <2>2. /\ waiting' \in Seq(HidReports) /\ Len(waiting') = n /\ waiting'[n] = rep
        /\ \A i \in 1 .. n - 1 : waiting'[i] = waiting[i + 1]
    <3>1. waiting # << >>
      BY <1>0, <1>9 DEF n
    <3> DEFINE t == Tail(waiting)
    <3>2. t \in Seq(HidReports) /\ Len(t) = n - 1 /\ \A i \in 1 .. n - 1 : t[i] = waiting[i + 1]
      BY <1>0, <3>1, Rest DEF n
    <3> HIDE DEF t
    <3>3. /\ Append(t, rep) \in Seq(HidReports) /\ Len(Append(t, rep)) = n
          /\ Append(t, rep)[n] = rep
          /\ \A i \in 1 .. n - 1 : Append(t, rep)[i] = t[i]
      BY <1>0, <3>2
    <3> QED
      BY <2>1, <3>2, <3>3 DEF t
  <2>3. fr' \in Ring!Ptr /\ Ring!Count(fw', fr') = n
    <3>1. fw' # fr
      BY <1>0, <1>2, <1>4, RingCounters
    <3>2. Ring!Bump(fr) \in Ring!Ptr
      BY <1>0, RingCounters
    <3>3. Ring!Count(fw', Ring!Bump(fr)) = Ring!Count(fw', fr) - 1
      BY <1>0, <1>2, <3>1, RingCounters
    <3> QED
      BY <1>0, <1>4, <2>1, <3>2, <3>3
  <2>4. \A k \in 0 .. n - 1 : Ring!EntrySlot(fr', k) = Ring!EntrySlot(fr, k + 1)
    <3>1. \A k \in 0 .. n - 1 : k \in 0 .. PtrMod - 2
      BY <1>0
    <3> QED
      BY <1>0, <2>1, <3>1, RingAssumption, Ring!EntryShift
  <2>5. slot = Ring!EntrySlot(fr, 0)
    <3>1. (fr + FifoNum) % FifoNum = (fr + 0) % FifoNum
      <4>1. fr \in Nat
        BY <1>0 DEF Ring!Ptr
      <4> QED
        BY <4>1, OneLap
    <3> QED
      BY <1>0, <1>7, <1>9, <3>1, RingFacts
  <2>6. ASSUME NEW k \in 0 .. n - 1
        PROVE  fifo'[Ring!EntrySlot(fr', k)] = waiting'[k + 1]
    <3>1. CASE k = n - 1
      <4>1. Ring!EntrySlot(fr', k) = slot /\ k + 1 = n
        BY <1>0, <1>7, <2>4, <3>1
      <4> QED
        BY <4>1, <1>3, <2>2
    <3>2. CASE k # n - 1
      <4>1. /\ k + 1 \in 1 .. n - 1 /\ k + 1 \in 0 .. FifoNum - 1 /\ 0 \in 0 .. FifoNum - 1 /\ k + 1 # 0
            /\ k + 1 \in 0 .. n - 1
        BY <1>0, <1>9, <3>2
      <4>2. Ring!EntrySlot(fr, k + 1) # slot /\ Ring!EntrySlot(fr, k + 1) \in 0 .. FifoNum - 1
        BY <4>1, <1>6, <2>5
      <4>3. fifo'[Ring!EntrySlot(fr, k + 1)] = waiting[(k + 1) + 1]
        BY <4>1, <4>2, <1>0, <1>3
      <4> QED
        BY <4>1, <4>3, <2>2, <2>4
    <3> QED
      BY <3>1, <3>2
  <2> QED
    BY <1>0, <1>2, <1>3, <1>9, <2>2, <2>3, <2>6 DEF FifoOK
<1> QED
  BY <1>0, <1>8, <1>9

(* The oldest entry of the ring that is not empty is the first report that *)
(* waits, and the rest of the ring is the rest of them.                    *)
LEMMA HeadOfRing ==
  ASSUME FifoOK, fr # fw
  PROVE  waiting # << >> /\ fifo[fr % FifoNum] = Head(waiting) /\ fifo[fr % FifoNum] \in HidReports
<1>1. fr \in Ring!Ptr /\ fw \in Ring!Ptr /\ Ring!Count(fw, fr) = Len(waiting)
  BY DEF FifoOK
<1>2. Len(waiting) # 0 /\ Len(waiting) \in Nat
  <2>1. (fw # fr <=> Ring!Count(fw, fr) # 0) /\ Ring!Count(fw, fr) \in Nat
    BY <1>1, RingCounters
  <2> HIDE DEF FifoOK
  <2> QED
    BY <1>1, <2>1
<1>3. waiting # << >> /\ Head(waiting) = waiting[1] /\ Head(waiting) \in HidReports
  BY <1>2, Rest DEF FifoOK
<1>4. fifo[Ring!EntrySlot(fr, 0)] = waiting[1]
  BY <1>2 DEF FifoOK
<1>5. Ring!EntrySlot(fr, 0) = fr % FifoNum
  BY RingAssumption, Ring!EntryHead DEF FifoOK, Ring!SlotOf
<1> QED
  BY <1>3, <1>4, <1>5

LEMMA DequeueKeeps ==
  ASSUME FifoOK, fr # fw, fr' = (fr + 1) % PtrMod, waiting' = Tail(waiting),
         UNCHANGED <<fifo, fw>>
  PROVE  FifoOK'
<1>1. /\ fr \in Ring!Ptr /\ fw \in Ring!Ptr /\ fr' = Ring!Bump(fr)
      /\ Ring!Count(fw, fr) = Len(waiting)
  BY DEF FifoOK, Ring!Bump
<1>2. fr' \in Ring!Ptr /\ Ring!Count(fw, fr') = Len(waiting) - 1
  BY <1>1, RingCounters
<1>3. /\ waiting' \in Seq(HidReports) /\ Len(waiting') = Len(waiting) - 1 /\ Len(waiting) \in Nat
      /\ Len(waiting) > 0
      /\ \A i \in 1 .. Len(waiting) - 1 : waiting'[i] = waiting[i + 1]
  BY HeadOfRing, Rest DEF FifoOK
<1>4. ASSUME NEW k \in 0 .. Len(waiting') - 1
      PROVE  fifo[Ring!EntrySlot(fr', k)] = waiting'[k + 1]
  <2>1. k \in 0 .. PtrMod - 2 /\ k + 1 \in 0 .. Len(waiting) - 1 /\ k + 1 \in 1 .. Len(waiting) - 1
    BY <1>3, RingFacts DEF FifoOK
  <2>2. Ring!EntrySlot(fr', k) = Ring!EntrySlot(fr, k + 1)
    BY <1>1, <2>1, RingAssumption, Ring!EntryShift
  <2>3. fifo[Ring!EntrySlot(fr, k + 1)] = waiting[(k + 1) + 1]
    BY <2>1 DEF FifoOK
  <2> QED
    BY <1>3, <2>1, <2>2, <2>3
<1>5. UNCHANGED <<fifo, fw>> /\ Len(waiting') <= FifoNum
  BY <1>3, RingFacts DEF FifoOK
<1>6. fifo \in [0 .. FifoNum - 1 -> HidReports \cup {NoReport}]
  BY DEF FifoOK
<1> QED
  BY <1>1, <1>2, <1>3, <1>4, <1>5, <1>6 DEF FifoOK

LEMMA EndpointTyped == \A rep : EndpointOf(rep) \in Endpoints
  BY DEF EndpointOf, Endpoints

(* A report put into a free endpoint carries the toggle the host waits     *)
(* for, and leaves the other one for the next.                             *)
LEMMA TransmitKeeps ==
  ASSUME TogglesOK, NEW rep \in HidReports, ~Busy(rep), Transmit(rep),
         UNCHANGED <<expects, resetting, mishaps>>
  PROVE  TogglesOK'
<1> DEFINE e == EndpointOf(rep)
<1>1. e \in Endpoints /\ hidEp[e] = NoReport /\ rep # NoReport
  BY EndpointTyped DEF Busy, HidReports, NoReport, Report
<1>2. /\ hidEp' = [hidEp EXCEPT ![e] = rep]
      /\ sentAs' = [sentAs EXCEPT ![e] = toggle[e]]
      /\ toggle' = [toggle EXCEPT ![e] = 1 - toggle[e]]
  BY DEF Transmit
<1> HIDE DEF e
<1>3. /\ hidEp' \in [Endpoints -> HidReports \cup {NoReport}]
      /\ toggle' \in [Endpoints -> {0, 1}] /\ sentAs' \in [Endpoints -> {0, 1}]
  BY <1>1, <1>2 DEF TogglesOK
<1>4. /\ hidEp'[e] = rep /\ sentAs'[e] = toggle[e] /\ toggle'[e] = 1 - toggle[e]
      /\ \A x \in Endpoints : x # e => /\ hidEp'[x] = hidEp[x] /\ sentAs'[x] = sentAs[x]
                                       /\ toggle'[x] = toggle[x]
  BY <1>1, <1>2 DEF TogglesOK
<1>5. ASSUME "cancelled" \notin mishaps', NEW x \in Endpoints
      PROVE  IF resetting' THEN expects'[x] = 0 ELSE Agreed(x)'
  <2>1. IF resetting THEN expects[x] = 0 ELSE Agreed(x)
    BY <1>5 DEF TogglesOK
  <2> QED
    BY <1>1, <1>4, <2>1 DEF Agreed
<1> QED
  BY <1>3, <1>5 DEF TogglesOK

(* Reporting, whichever way it goes. *)
LEMMA ReportKeeps ==
  ASSUME FifoOK, TogglesOK, NEW rep \in HidReports, HidReport(rep), UNCHANGED hostVars
  PROVE  FifoOK' /\ TogglesOK'
<1>1. CASE Busy(rep) /\ Enqueue(rep)
  <2>1. FifoOK'
    BY <1>1, EnqueueKeeps
  <2>2. TogglesOK'
    BY <1>1 DEF Enqueue, epVars, hostVars, TogglesOK, Agreed
  <2> QED
    BY <2>1, <2>2
<1>2. CASE ~Busy(rep) /\ Transmit(rep) /\ UNCHANGED <<fifoVars, mishaps>>
  <2>1. FifoOK'
    BY <1>2 DEF fifoVars, FifoOK
  <2>2. TogglesOK'
    BY <1>2, TransmitKeeps DEF hostVars
  <2> QED
    BY <2>1, <2>2
<1> QED
  BY <1>1, <1>2 DEF HidReport

LEMMA KeysKeep ==
  ASSUME FifoOK, TogglesOK, NEW id \in {"normal", "sys", "media"}, NEW says \in Keys \cup {Up, Down},
         ReportKeys(id, says), UNCHANGED hostVars
  PROVE  FifoOK' /\ TogglesOK'
<1>1. Report(id, says) \in HidReports
  BY DEF Report, HidReports
<1>2. CASE HidReport(Report(id, says))
  BY <1>1, <1>2, ReportKeeps
<1>3. CASE UNCHANGED <<fifoVars, epVars, mishaps>>
  BY <1>3 DEF fifoVars, epVars, hostVars, FifoOK, TogglesOK, Agreed
<1> QED
  BY <1>2, <1>3 DEF ReportKeys

LEMMA HidInitHolds == HidInit => HidIInv
<1> SUFFICES ASSUME HidInit PROVE HidIInv
  OBVIOUS
<1>1. 0 \in Ring!Ptr /\ Ring!Count(0, 0) = 0
  <2>1. 0 \in Ring!Ptr
    BY RingFacts DEF Ring!Ptr
  <2> QED
    BY <2>1, RingCounters
<1>2. << >> \in Seq(HidReports) /\ Len(<< >>) = 0 /\ 0 <= FifoNum
  BY RingFacts
<1>3. FifoOK
  BY <1>1, <1>2 DEF HidInit, FifoOK
<1>4. TogglesOK
  BY DEF HidInit, TogglesOK, Agreed
<1>5. RingsOK
  BY DEF HidInit, RingsOK
<1> QED
  BY <1>3, <1>4, <1>5 DEF HidIInv

(* A ring of frames from the radio *)
LEMMA RingTyped ==
  ASSUME NEW S, NEW ring \in Seq(S), NEW x \in S
  PROVE  AddTo(ring, x) \in Seq(S)
BY DEF AddTo

LEMMA AddKeeps ==
  ASSUME HidIInv,
         \/ \E d \in KbData \cup {Malformed}, more \in BOOLEAN : AddKbPacket(d, more)
         \/ \E m \in 0 .. 1 : AddMouseFrame(m)
  PROVE  HidIInv'
<1>1. ASSUME NEW d \in KbData \cup {Malformed}, NEW more \in BOOLEAN, AddKbPacket(d, more)
      PROVE  HidIInv'
  <2>1. FifoOK' /\ TogglesOK'
    BY <1>1 DEF AddKbPacket, fifoVars, epVars, hostVars, HidIInv, FifoOK, TogglesOK, Agreed
  <2>2. kbRing' \in Seq(KbData \cup {Malformed})
    BY <1>1, RingTyped DEF AddKbPacket, HidIInv, RingsOK
  <2> QED
    BY <1>1, <2>1, <2>2 DEF AddKbPacket, HidIInv, RingsOK
<1>2. ASSUME NEW m \in 0 .. 1, AddMouseFrame(m)
      PROVE  HidIInv'
  <2>1. FifoOK' /\ TogglesOK'
    BY <1>2 DEF AddMouseFrame, fifoVars, epVars, hostVars, HidIInv, FifoOK, TogglesOK, Agreed
  <2>2. mouseRing' \in Seq(0 .. 1)
    BY <1>2, RingTyped DEF AddMouseFrame, HidIInv, RingsOK
  <2> QED
    BY <1>2, <2>1, <2>2 DEF AddMouseFrame, HidIInv, RingsOK
<1> QED
  BY <1>1, <1>2

(* The stages of usb_handle_irq *)
LEMMA HidIrqKeeps == HidIInv /\ Irq => HidIInv'
<1> SUFFICES ASSUME HidIInv, Irq PROVE HidIInv'
  OBVIOUS
<1>0. FifoOK /\ TogglesOK /\ RingsOK
  BY DEF HidIInv
<1>1. CASE IrqStart
  <2>1. FifoOK' /\ RingsOK'
    BY <1>0, <1>1 DEF IrqStart, deviceVars, fifoVars, FifoOK, RingsOK
  <2>2. UNCHANGED <<sentAs, expects, mishaps>>
    BY <1>1 DEF IrqStart
  <2>3. resetting' = FALSE
    <3>1. resetting \in BOOLEAN
      BY <1>0 DEF TogglesOK
    <3>2. ~resetting'
      BY <1>1 DEF IrqStart
    <3>3. resetting' = FALSE \/ resetting' = resetting
      BY <1>1 DEF IrqStart
    <3> QED
      BY <3>1, <3>2, <3>3, Zenon
  <2>4. /\ hidEp' \in [Endpoints -> HidReports \cup {NoReport}] /\ toggle' \in [Endpoints -> {0, 1}]
        /\ "cancelled" \notin mishaps => \A e \in Endpoints : Agreed(e)'
    <3>1. CASE resetting
      <4>1. hidEp' = [e \in Endpoints |-> NoReport] /\ toggle' = [e \in Endpoints |-> 0]
        BY <1>1, <3>1 DEF IrqStart
      <4>2. "cancelled" \notin mishaps => \A e \in Endpoints : expects[e] = 0
        BY <1>0, <3>1 DEF TogglesOK
      <4> QED
        BY <2>2, <4>1, <4>2 DEF Agreed
    <3>2. CASE ~resetting
      <4>1. UNCHANGED <<hidEp, toggle>>
        BY <1>1, <3>2 DEF IrqStart
      <4>2. "cancelled" \notin mishaps => \A e \in Endpoints : Agreed(e)
        BY <1>0, <3>2 DEF TogglesOK
      <4> QED
        BY <1>0, <2>2, <4>1, <4>2 DEF TogglesOK, Agreed
    <3> QED
      BY <3>1, <3>2
  <2>5. TogglesOK'
    BY <1>0, <2>2, <2>3, <2>4 DEF TogglesOK
  <2> QED
    BY <2>1, <2>5 DEF HidIInv
<1>2. CASE MouseReportFrame
  <2>1. CASE mouseRing = << >>
    BY <1>0, <1>2, <2>1
    DEF MouseReportFrame, fifoVars, epVars, hostVars, HidIInv, FifoOK, TogglesOK, Agreed, RingsOK
  <2>2. CASE mouseRing # << >>
    <3> DEFINE rep == Report("mouse", Head(mouseRing))
    <3>1. /\ Head(mouseRing) \in 0 .. 1 /\ Tail(mouseRing) \in Seq(0 .. 1)
      BY <1>0, <2>2, Rest DEF RingsOK
    <3>2. rep \in HidReports
      BY <3>1 DEF Report, HidReports
    <3>3. HidReport(rep) /\ UNCHANGED <<kbRing, hostVars>> /\ mouseRing' \in {mouseRing, Tail(mouseRing)}
          /\ pc' = "kb"
      BY <1>2, <2>2 DEF MouseReportFrame
    <3> HIDE DEF rep
    <3>4. FifoOK' /\ TogglesOK'
      BY <1>0, <3>2, <3>3, ReportKeeps
    <3> QED
      BY <1>0, <3>1, <3>3, <3>4 DEF HidIInv, RingsOK
  <2> QED
    BY <2>1, <2>2
<1>3. CASE KbReportFrame
  <2>1. CASE kbRing = << >>
    BY <1>0, <1>3, <2>1
    DEF KbReportFrame, fifoVars, epVars, hostVars, HidIInv, FifoOK, TogglesOK, Agreed, RingsOK
  <2>2. CASE kbRing # << >> /\ HeldBack(Head(kbRing))
    <3>1. Tail(kbRing) \in Seq(KbData \cup {Malformed})
      BY <1>0, <2>2, Rest DEF RingsOK
    <3> QED
      BY <1>0, <1>3, <2>2, <3>1
      DEF KbReportFrame, fifoVars, epVars, hostVars, HidIInv, FifoOK, TogglesOK, Agreed, RingsOK
  <2>3. CASE kbRing # << >> /\ ~HeldBack(Head(kbRing))
    <3>1. Head(kbRing) \in KbData
      BY <1>0, <2>3, Rest DEF RingsOK, HeldBack
    <3>2. Head(kbRing).key \in Keys \cup {Up, Down}
      BY <3>1 DEF KbData
    <3>3. ReportKeys("normal", Head(kbRing).key) /\ UNCHANGED <<kbRing, mouseRing, hostVars>>
      BY <1>3, <2>3 DEF KbReportFrame
    <3>4. FifoOK' /\ TogglesOK'
      BY <1>0, <3>2, <3>3, KeysKeep
    <3> QED
      BY <1>0, <2>3, <3>3, <3>4 DEF HidIInv, RingsOK
  <2> QED
    BY <2>1, <2>2, <2>3
<1>4. CASE KbReportSys
  <2>1. /\ ReportKeys("sys", IfPressed("sys")) /\ IfPressed("sys") \in Keys \cup {Up, Down}
        /\ UNCHANGED <<kbRing, mouseRing, hostVars>> /\ pc = "sys" /\ pc' = "media"
    BY <1>4 DEF KbReportSys, IfPressed
  <2>2. FifoOK' /\ TogglesOK'
    BY <1>0, <2>1, KeysKeep
  <2> QED
    BY <1>0, <2>1, <2>2 DEF HidIInv, RingsOK
<1>5. CASE KbReportMedia
  <2>1. /\ ReportKeys("media", IfPressed("media")) /\ IfPressed("media") \in Keys \cup {Up, Down}
        /\ UNCHANGED <<mouseRing, hostVars>> /\ pc = "media" /\ pc' = "fifo" /\ kbRing' = Tail(kbRing)
    BY <1>5 DEF KbReportMedia, IfPressed
  <2>2. FifoOK' /\ TogglesOK'
    BY <1>0, <2>1, KeysKeep
  <2>3. Tail(kbRing) \in Seq(KbData \cup {Malformed})
    BY <1>0, <2>1, Rest DEF RingsOK
  <2> QED
    BY <1>0, <2>1, <2>2, <2>3 DEF HidIInv, RingsOK
<1>6. CASE FifoProc
  <2> DEFINE rep == fifo[fr % FifoNum]
  <2>1. /\ UNCHANGED <<fifo, fw, mishaps, kbRing, mouseRing>> /\ UNCHANGED hostVars /\ pc' = "idle"
        /\ \/ /\ fr # fw /\ ~Busy(rep)
              /\ Transmit(rep)
              /\ fr' = (fr + 1) % PtrMod
              /\ waiting' = Tail(waiting)
           \/ UNCHANGED <<epVars, fr, waiting>>
    BY <1>6 DEF FifoProc, deviceVars
  <2>2. RingsOK'
    BY <1>0, <2>1 DEF RingsOK
  <2>3. CASE UNCHANGED <<epVars, fr, waiting>>
    BY <1>0, <2>1, <2>2, <2>3 DEF epVars, hostVars, HidIInv, FifoOK, TogglesOK, Agreed
  <2>4. CASE /\ fr # fw /\ ~Busy(rep)
             /\ Transmit(rep)
             /\ fr' = (fr + 1) % PtrMod
             /\ waiting' = Tail(waiting)
    <3>1. FifoOK'
      BY <1>0, <2>1, <2>4, DequeueKeeps
    <3>2. rep \in HidReports
      BY <1>0, <2>4, HeadOfRing
    <3> HIDE DEF rep
    <3>3. TogglesOK'
      BY <1>0, <2>1, <2>4, <3>2, TransmitKeeps DEF hostVars
    <3> QED
      BY <2>2, <3>1, <3>3 DEF HidIInv
  <2> QED
    BY <2>1, <2>3, <2>4
<1> QED
  BY <1>1, <1>2, <1>3, <1>4, <1>5, <1>6 DEF Irq

(* The host, and SET_PROTOCOL, which only a host that has not reset the    *)
(* bus sends                                                               *)
LEMMA HostSideKeeps ==
  ASSUME HidIInv, SetProtocol \/ HostResets \/ \E e \in Endpoints : HostPolls(e)
  PROVE  HidIInv'
<1>0. FifoOK /\ TogglesOK /\ RingsOK
  BY DEF HidIInv
<1>1. FifoOK' /\ RingsOK'
  BY <1>0 DEF SetProtocol, HostResets, HostPolls, deviceVars, fifoVars, FifoOK, RingsOK
<1>2. CASE SetProtocol
  <2>1. hidEp' \in [Endpoints -> HidReports \cup {NoReport}]
    BY <1>0, <1>2 DEF SetProtocol, TogglesOK
  <2>2. CASE hidEp["mouse"] = NoReport
    <3>1. hidEp' = hidEp
      BY <1>0, <1>2, <2>2 DEF SetProtocol, TogglesOK, Endpoints
    <3> QED
      BY <1>0, <1>1, <1>2, <2>2, <3>1 DEF SetProtocol, hostVars, HidIInv, TogglesOK, Agreed
  <2>3. CASE hidEp["mouse"] # NoReport
    BY <1>0, <1>1, <1>2, <2>1, <2>3 DEF SetProtocol, hostVars, HidIInv, TogglesOK
  <2> QED
    BY <2>2, <2>3
<1>3. CASE HostResets
  BY <1>0, <1>1, <1>3 DEF HostResets, epVars, HidIInv, TogglesOK
<1>4. ASSUME NEW e \in Endpoints, HostPolls(e)
      PROVE  HidIInv'
  <2>1. /\ hidEp[e] # NoReport /\ ~resetting /\ UNCHANGED <<toggle, sentAs, resetting, mishaps>>
        /\ hidEp' = [hidEp EXCEPT ![e] = NoReport]
        /\ \/ sentAs[e] = expects[e] /\ expects' = [expects EXCEPT ![e] = 1 - expects[e]]
           \/ sentAs[e] # expects[e] /\ expects' = expects
    BY <1>4 DEF HostPolls
  <2>2. /\ hidEp' \in [Endpoints -> HidReports \cup {NoReport}]
        /\ expects' \in [Endpoints -> {0, 1}]
        /\ hidEp'[e] = NoReport
        /\ \A x \in Endpoints : x # e => hidEp'[x] = hidEp[x] /\ expects'[x] = expects[x]
        /\ sentAs[e] = expects[e] => expects'[e] = 1 - expects[e]
    BY <1>0, <2>1 DEF TogglesOK
  <2>3. TogglesOK'
    BY <1>0, <2>1, <2>2 DEF TogglesOK, Agreed
  <2> QED
    BY <1>1, <2>3 DEF HidIInv
<1> QED
  BY <1>2, <1>3, <1>4

LEMMA HidNextKeeps == HidIInv /\ [HidNext]_hidVars => HidIInv'
<1>1. HidIInv /\ UNCHANGED hidVars => HidIInv'
  BY DEF hidVars, deviceVars, fifoVars, epVars, hostVars, HidIInv, FifoOK, TogglesOK, Agreed, RingsOK
<1> QED
  BY <1>1, AddKeeps, HidIrqKeeps, HostSideKeeps DEF HidNext

(* The ring, the toggles and the rings of frames in every reachable state  *)
THEOREM HidInvariant == HidSpec => []HidIInv
BY HidInitHolds, HidNextKeeps, PTL DEF HidSpec

(* Twice the depth is enough to tell the distance of the counters. *)
LEMMA RingNewest == HidIInv => FifoKeepsNewest
<1> SUFFICES ASSUME FifoOK PROVE FifoKeepsNewest
  BY DEF HidIInv
<1> DEFINE n == Len(waiting)
<1> DEFINE m == 2 * FifoNum
<1>1. /\ FifoNum \in Nat /\ FifoNum > 1 /\ n \in 0 .. FifoNum /\ Ring!Count(fw, fr) = n
      /\ fr \in Ring!Ptr /\ fw \in Ring!Ptr /\ fr \in Int
      /\ \A k \in 0 .. n - 1 : fifo[Ring!EntrySlot(fr, k)] = waiting[k + 1]
  BY RingFacts DEF FifoOK, Ring!Ptr
<1>2. m \in Nat /\ m > 0 /\ n \in 0 .. m - 1
  BY <1>1
<1>3. (fw - fr) % m = n % m
  BY <1>1, RingFacts
<1> HIDE DEF m, n
<1>4. (fw - fr) % m = n
  BY <1>2, <1>3
<1>5. ASSUME NEW k \in 1 .. n
      PROVE  fifo[(fr + k - 1) % FifoNum] = waiting[k]
  <2>1. k - 1 \in 0 .. n - 1 /\ k - 1 \in Int /\ fr + k - 1 = fr + (k - 1) /\ (k - 1) + 1 = k
    BY <1>1
  <2>2. (fr + (k - 1)) % FifoNum = Ring!EntrySlot(fr, k - 1)
    BY <1>1, <2>1, RingFacts
  <2> QED
    BY <1>1, <2>1, <2>2
<1> QED
  BY <1>4, <1>5 DEF FifoKeepsNewest, m, n

(* An overflow of usb_fifo costs the oldest report and nothing else, for   *)
(* every depth and wherever the counters wrap.                             *)
THEOREM NewestKept == HidSpec => []FifoKeepsNewest
BY RingNewest, HidInvariant, PTL

LEMMA TogglesFollow == HidIInv => TogglesAgree
  BY DEF HidIInv, TogglesOK, Agreed, TogglesAgree

(* Host and device never lose each other's toggle, across bus resets at    *)
(* any moment, unless SET_PROTOCOL takes a report back.                    *)
THEOREM TogglesKept == HidSpec => []TogglesAgree
BY TogglesFollow, HidInvariant, PTL

=============================================================================
