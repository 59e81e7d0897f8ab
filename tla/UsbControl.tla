----------------------------- MODULE UsbControl -----------------------------
(***************************************************************************)
(* Control transfers on endpoint 0, proj/drivers/usb.c: a SETUP prepares a *)
(* reply, every DATA interrupt sends its next packet, and STATUS repeats   *)
(* whether the request was refused.  g_response and g_response_len outlive *)
(* a transfer the host gives up; nothing resets them but the next request  *)
(* that prepares a reply of its own.                                       *)
(*                                                                         *)
(* The host is modelled from how the driver uses the endpoint registers.   *)
(* It gives up between packets, never while an interrupt is pending: the   *)
(* main loop polls usb_handle_irq far more often than a host loses its     *)
(* patience.                                                               *)
(***************************************************************************)
EXTENDS Integers, Sequences

CONSTANTS
  Packet,   \* bytes of a control packet, 8
  Descs,    \* the descriptors the device has
  Size,     \* the length of each
  Lengths   \* the values of wLength the host uses

(* What a request asks for, besides a descriptor:                          *)
(*   unknown    a descriptor type or string the device does not have       *)
(*   unreport   the report descriptor of an interface that has none        *)
(*   nowhere    the HID or physical descriptor of such an interface        *)
(*   getbyte    HID_REQ_GetIdle, HID_REQ_GetProtocol                       *)
(*   setbyte    HID_REQ_SetIdle, HID_REQ_SetProtocol                       *)
(*   badclass   a class request to the device's interface it does not know *)
Refusable == {"unknown", "unreport", "badclass"}
NoData == {"setbyte", "badclass"}
Others == Refusable \cup NoData \cup {"nowhere", "getbyte"}

ASSUME UsbControlAssumption ==
  /\ Packet \in Nat \ {0} /\ Size \in [Descs -> Nat \ {0}]
  /\ Lengths \subseteq Nat \ {0}
  /\ Descs \cap (Others \cup {"null"}) = {}

VARIABLES
  req,      \* control_request: what is asked and wLength
  resp,     \* g_response: the descriptor pointed into and the offset
  respLen,  \* g_response_len
  stall,    \* g_stall
  irq,      \* reg_ctrl_ep_irq_sta: "none", "setup", "data", "status"
  ep,       \* what the endpoint answers: "nak", "data", "stall", "ack"
  packet,   \* the bytes in its buffer
  phase,    \* the host: "idle", "in", "status", "done", "refused"
  got,      \* the bytes it has been sent
  givenUp   \* history: the descriptors it asked for and gave up on

vars == <<req, resp, respLen, stall, irq, ep, packet, phase, got, givenUp>>
device == <<req, resp, respLen, stall>>

Null == [of |-> "null", at |-> 0]
Requests == [what : Descs \cup Others, len : Lengths]

Init ==
  /\ req = [what |-> "unknown", len |-> 0]
  /\ resp = Null /\ respLen = 0 /\ stall = FALSE
  /\ irq = "none" /\ ep = "nak" /\ packet = << >>
  /\ phase = "idle" /\ got = << >> /\ givenUp = {}

Lesser(a, b) == IF a < b THEN a ELSE b

-----------------------------------------------------------------------------
(* Whether the request is answered from g_response *)
ByResponse(what) == what \in Descs \cup {"unknown", "unreport", "nowhere"}

(* Wrong on purpose: the pointer is reset and the length is not. *)
PreparedKeepingLength(what, len) ==
  LET p == IF what \in Descs THEN [at |-> [of |-> what, at |-> 0], len |-> Size[what]]
           ELSE IF what = "unknown" THEN [at |-> Null, len |-> respLen]
           ELSE [at |-> resp, len |-> respLen]
  IN [p EXCEPT !.len = Lesser(len, @)]

(* usb_prepare_desc_data and usb_handle_std_intf_req: the latter leaves    *)
(* the pointer and the length of the last reply when it has no answer.     *)
Prepared(what, len) ==
  LET p == IF what \in Descs THEN [at |-> [of |-> what, at |-> 0], len |-> Size[what]]
           ELSE IF what = "unknown" THEN [at |-> Null, len |-> 0]
           ELSE [at |-> resp, len |-> respLen]
  IN [p EXCEPT !.len = Lesser(len, @)]

(* Wrong on purpose: a full packet carries a byte too few. *)
SendResponseShort(p) ==
  LET n == IF p.len < Packet THEN p.len ELSE Packet - 1
  IN /\ packet' = [i \in 1 .. n |-> <<p.at.of, p.at.at + i>>]
     /\ resp' = [p.at EXCEPT !.at = @ + n]
     /\ respLen' = p.len - n

(* usb_send_response: the next packet of the reply that starts at p.at *)
SendResponse(p) ==
  LET n == Lesser(p.len, Packet)
  IN /\ packet' = [i \in 1 .. n |-> <<p.at.of, p.at.at + i>>]
     /\ resp' = [p.at EXCEPT !.at = @ + n]
     /\ respLen' = p.len - n

(* usb_handle_request, with the class requests to an interface; p is the   *)
(* reply a descriptor is sent from.                                        *)
HandleRequest(r, p) ==
  /\ stall' = (r.what \in Refusable)
  /\ ep' = IF stall' THEN "stall" ELSE "data"
  /\ \/ ByResponse(r.what) /\ SendResponse(p)
     \/ ~ByResponse(r.what) /\ UNCHANGED <<resp, respLen>>
        /\ packet' = IF r.what = "getbyte" THEN <<<<r.what, 1>>>> ELSE << >>

(* usb_handle_ctl_ep_setup; the request is in req already, as the bytes of *)
(* the SETUP packet lie in the endpoint's buffer.                          *)
EpSetup ==
  /\ irq = "setup" /\ irq' = "none"
  /\ HandleRequest(req, Prepared(req.what, req.len))
  /\ UNCHANGED <<req, phase, got, givenUp>>

(* Wrong on purpose: the reply is prepared again for every packet. *)
EpDataAfresh ==
  /\ irq = "data" /\ irq' = "none"
  /\ HandleRequest(req, Prepared(req.what, req.len))
  /\ UNCHANGED <<req, phase, got, givenUp>>

(* Wrong on purpose: nothing is acknowledged when nothing is left. *)
EpDataSilent ==
  /\ irq = "data" /\ irq' = "none"
  /\ IF respLen # 0 THEN HandleRequest(req, [at |-> resp, len |-> respLen])
     ELSE UNCHANGED <<resp, respLen, stall, ep, packet>>
  /\ UNCHANGED <<req, phase, got, givenUp>>

(* usb_handle_ctl_ep_data *)
EpData ==
  /\ irq = "data" /\ irq' = "none"
  /\ HandleRequest(req, [at |-> resp, len |-> respLen])
  /\ UNCHANGED <<req, phase, got, givenUp>>

(* usb_handle_ctl_ep_status *)
EpStatus ==
  /\ irq = "status" /\ irq' = "none"
  /\ ep' = IF stall THEN "stall" ELSE "ack"
  /\ packet' = << >>
  /\ UNCHANGED <<device, phase, got, givenUp>>

-----------------------------------------------------------------------------
Setup(r) ==
  /\ phase \in {"idle", "done", "refused"}
  /\ req' = r /\ irq' = "setup" /\ ep' = "nak" /\ packet' = << >>
  /\ phase' = "in" /\ got' = << >>
  /\ UNCHANGED <<resp, respLen, stall, givenUp>>

(* The host takes a packet.  A short one or the last byte it asked for     *)
(* ends the data stage.                                                    *)
TakePacket ==
  /\ phase = "in" /\ irq = "none" /\ ep = "data" /\ req.what \notin NoData
  /\ got' = got \o packet /\ ep' = "nak" /\ packet' = << >>
  /\ IF Len(packet) < Packet \/ Len(got') = req.len
     THEN phase' = "status" /\ irq' = "status"
     ELSE phase' = "in" /\ irq' = "data"
  /\ UNCHANGED <<device, givenUp>>

(* A request without data goes to its status stage whatever the endpoint   *)
(* has been told about the data stage.                                     *)
StartStatus ==
  /\ phase = "in" /\ irq = "none" /\ ep # "nak" /\ req.what \in NoData
  /\ phase' = "status" /\ irq' = "status" /\ ep' = "nak" /\ packet' = << >>
  /\ UNCHANGED <<device, got, givenUp>>

TakeAnswer ==
  /\ irq = "none"
  /\ \/ /\ phase = "status" \/ (phase = "in" /\ req.what \notin NoData)
        /\ ep = "stall" /\ phase' = "refused"
     \/ phase = "status" /\ ep = "ack" /\ phase' = "done"
  /\ UNCHANGED <<device, irq, ep, packet, got, givenUp>>

GiveUp ==
  /\ phase = "in" /\ irq = "none"
  /\ phase' = "idle" /\ ep' = "nak" /\ packet' = << >> /\ got' = << >>
  /\ givenUp' = givenUp \cup ({req.what} \cap Descs)
  /\ UNCHANGED <<device, irq>>

HandleIrq == EpSetup \/ EpData \/ EpStatus

HostStep == TakePacket \/ StartStatus \/ TakeAnswer

Next == HandleIrq \/ (\E r \in Requests : Setup(r)) \/ HostStep \/ GiveUp

(* The loop polls the device and the host goes on with a transfer.         *)
Spec == Init /\ [][Next]_vars /\ WF_vars(HandleIrq) /\ WF_vars(HostStep)

-----------------------------------------------------------------------------
(* Types.  An item of a reply is the descriptor it comes from and its      *)
(* place in it.                                                            *)
Replies == Descs \cup {"null"}
Item == (Replies \cup {"getbyte"}) \X Nat
TypeOK ==
  /\ req \in [what : Descs \cup Others, len : Nat]
  /\ resp \in [of : Replies, at : Nat] /\ respLen \in Nat
  /\ stall \in BOOLEAN
  /\ irq \in {"none", "setup", "data", "status"}
  /\ ep \in {"nak", "data", "stall", "ack"}
  /\ packet \in Seq(Item) /\ got \in Seq(Item)
  /\ phase \in {"idle", "in", "status", "done", "refused"}
  /\ givenUp \subseteq Descs

(* What keeps replies sound: an interrupt belongs to the stage the host is *)
(* in; between the packets of a descriptor the reply pointer stands behind *)
(* what has been sent and the rest is counted; the status stage follows    *)
(* the last byte; a refused request never has data waiting.                *)
Stages ==
  /\ irq \in {"setup", "data"} => phase = "in" /\ packet = << >>
  /\ irq = "setup" => got = << >>
  /\ irq = "status" => phase = "status" /\ packet = << >>
  /\ phase = "in" /\ irq = "none" => ep # "ack"

Underway ==
  phase = "in" /\ irq # "setup" /\ req.what \in Descs =>
    LET sent == Len(got) + Len(packet)
    IN /\ resp = [of |-> req.what, at |-> sent]
       /\ sent + respLen = Lesser(Size[req.what], req.len)
       /\ \A i \in 1 .. Len(packet) : packet[i] = <<req.what, Len(got) + i>>
       /\ irq = "none" /\ ep = "data" /\ Len(packet) < Packet => respLen = 0

Complete ==
  phase = "status" /\ req.what \in Descs => Len(got) = Lesser(Size[req.what], req.len)

Stalled ==
  req.what \in Refusable /\ phase \in {"in", "status"} /\ irq # "setup" =>
    stall /\ irq # "data" /\ ep \in {"nak", "stall"}

(* What is left of a reply lies within its descriptor, and outside its own *)
(* transfer there is something left only if that was given up.             *)
Remainder ==
  /\ resp.of = "null" => respLen = 0
  /\ resp.of \in Descs => resp.at + respLen <= Size[resp.of]
  /\ respLen > 0 => \/ resp.of \in givenUp
                    \/ phase = "in" /\ irq # "setup" /\ req.what = resp.of
  /\ phase = "in" /\ req.what \in Descs => ep # "stall"

(* A request without an answer that is not refused either takes bytes of   *)
(* it from there on.                                                       *)
Leaking ==
  req.what = "nowhere" /\ irq # "setup" =>
    LET sent == Len(got) + Len(packet)
    IN /\ sent <= resp.at /\ sent <= req.len /\ (phase = "in" => sent + respLen <= req.len)
       /\ sent > 0 => resp.of \in givenUp
       /\ \A i \in 1 .. Len(got) : got[i] = <<resp.of, resp.at - sent + i>>
       /\ \A i \in 1 .. Len(packet) : packet[i] = <<resp.of, resp.at - sent + Len(got) + i>>

(* Whatever was given up before, the host is sent the descriptor it asks   *)
(* for from its first byte on, and never more than it asked for.           *)
ReplyIsPrefix ==
  (phase \in {"in", "status", "done"} /\ req.what \in Descs)
    => Len(got) <= req.len /\ \A i \in 1 .. Len(got) : got[i] = <<req.what, i>>

(* A transfer that ends well has carried the whole descriptor, or as much  *)
(* of it as was asked for: no packet is lost at a multiple of the packet   *)
(* size.                                                                   *)
ReplyIsWhole ==
  (phase = "done" /\ req.what \in Descs) => Len(got) = Lesser(Size[req.what], req.len)

(* A stale reply: bytes of one descriptor that the host gave up on, from   *)
(* any place of it on, in order, and never past its end.                   *)
Stale(bytes) ==
  \E d \in givenUp : \E o \in 0 .. Size[d] :
    o + Len(bytes) <= Size[d] /\ \A i \in 1 .. Len(bytes) : bytes[i] = <<d, o + i>>

(* A request that is not supported brings the host no byte and is refused  *)
(* in the stage it has left.  The exception is the HID or physical         *)
(* descriptor of an interface that has none: nothing is prepared for it    *)
(* and nothing refused, so that it is answered with what a transfer given  *)
(* up has left of its reply, but with nothing else: with nothing at all if *)
(* no transfer was given up, never with what lies behind the descriptor or *)
(* at the null pointer, and never with more than was asked for.            *)
Refused ==
  irq # "setup" =>
    /\ req.what \in Refusable => phase # "done" /\ got = << >>
    /\ req.what = "nowhere" => Len(got) <= req.len /\ (got = << >> \/ Stale(got))

IInv ==
  /\ TypeOK /\ Stages /\ Underway /\ Complete /\ Stalled /\ Remainder /\ Leaking
  /\ ReplyIsPrefix /\ ReplyIsWhole /\ Refused

(* Every transfer ends: also a reply that fills its last packet, which the *)
(* host knows to be the last only from the empty one after it.             *)
TransfersEnd == phase = "in" ~> phase \in {"idle", "done", "refused"}
=============================================================================
