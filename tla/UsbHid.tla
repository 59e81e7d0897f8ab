------------------------------- MODULE UsbHid -------------------------------
(***************************************************************************)
(* The HID devices of proj/app/usbkb.c and usbmouse.c, driven by           *)
(* usb_handle_irq of proj/drivers/usb.c.  Frames from the radio wait in    *)
(* two rings.  Each pass of usb_handle_irq reports one mouse frame and one *)
(* keyboard frame; a report whose endpoint is busy goes into usb_fifo,     *)
(* which both endpoints share, and one report of usb_fifo is tried last.   *)
(* System and media keys travel on the mouse endpoint.                     *)
(*                                                                         *)
(* The host fetches a report at any moment, also between two reports of    *)
(* one frame.  Frames are added between two passes.                        *)
(***************************************************************************)
EXTENDS Integers, Sequences

CONSTANTS
  Keys,       \* ordinary keys
  RingNum,    \* USBKB_BUFF_DATA_NUM, USBMOUSE_BUFF_DATA_NUM
  FifoNum,    \* USB_FIFO_NUM
  PtrMod,     \* what the u8 counters of usb_fifo wrap at: 256 in the code
  MaxEvents   \* bound: packets from the radio, bus resets and SET_PROTOCOLs

ASSUME HidAssumption ==
  /\ RingNum \in Nat \ {0} /\ FifoNum \in Nat /\ FifoNum > 1
  /\ PtrMod \in Nat \ {0} /\ PtrMod % (2 * FifoNum) = 0
  /\ MaxEvents \in Nat

Endpoints == {"kb", "mouse"}
Up == "up"      \* what a report says when nothing is pressed
Down == "down"

(* kb_data_t: the ordinary keys and modifiers, taken as one key, and the   *)
(* last extended key code, which names a system or a media key.            *)
KbData == [key : Keys \cup {Up}, ext : {"none", "sys", "media"}]
Released == [key |-> Up, ext |-> "none"]
Malformed == [key |-> "too many", ext |-> "none"]

(* A report: "normal" goes to the keyboard endpoint, the rest to the mouse *)
Report(id, says) == [id |-> id, says |-> says]
NoReport == Report("none", Up)
EndpointOf(rep) == IF rep.id = "normal" THEN "kb" ELSE "mouse"

VARIABLES
  pc,         \* "idle", then the stages of usb_handle_irq
  kbRing,     \* kb_dat_buff between usbkb_rptr and usbkb_wptr
  mouseRing,  \* mouse_dat_buff likewise
  fifo,       \* usb_fifo
  fr,         \* usb_ff_rptr
  fw,         \* usb_ff_wptr
  hidEp,      \* the report in each endpoint; busy unless NoReport
  toggle,     \* edp_toggle
  sentAs,     \* the data toggle the report in each endpoint carries
  notReleased,\* usbkb_not_released
  last,       \* last_data of usbkb_check_repeat_and_save
  resetting,  \* the bus has been reset and the device has not noticed yet
  host,       \* the host: the last report it has seen under each id
  expects,    \* the host: the data toggle it waits for
  moves,      \* history: motions added, and motions the host has seen
  wants,      \* history: the last frame the radio delivered in good order
  waiting,    \* history: the reports put into usb_fifo and not sent, in order
  mishaps,    \* history: "cancelled" when SET_PROTOCOL has taken a report
              \* back, "disturbed" after that and when a report had to wait, a
              \* ring was overrun, a packet cut short or the bus reset
  events      \* how many events there have been

deviceVars == <<kbRing, mouseRing, notReleased, last>>
fifoVars   == <<fifo, fr, fw, waiting>>
epVars     == <<hidEp, toggle, sentAs>>
hostVars   == <<host, expects, resetting>>
history    == <<moves, wants, events>>
hidVars    == <<pc, deviceVars, fifoVars, epVars, hostVars, history, mishaps>>

HidInit ==
  /\ pc = "idle"
  /\ kbRing = << >> /\ mouseRing = << >>
  /\ fifo = [s \in 0 .. FifoNum - 1 |-> NoReport] /\ fr = 0 /\ fw = 0 /\ waiting = << >>
  /\ hidEp = [e \in Endpoints |-> NoReport]
  /\ toggle = [e \in Endpoints |-> 0] /\ sentAs = toggle
  /\ notReleased = {} /\ last = Released
  /\ host = [id \in {"normal", "sys", "media"} |-> Up] /\ expects = toggle
  /\ resetting = FALSE
  /\ moves = [added |-> 0, seen |-> 0] /\ wants = Released
  /\ mishaps = {}
  /\ events = 0

-----------------------------------------------------------------------------
(* Reporting: usbkb_hid_report_normal and usbmouse_hid_report              *)

Busy(rep) == hidEp[EndpointOf(rep)] # NoReport

(* Wrong on purpose: the newest report is dropped, not the oldest. *)
EnqueueDroppingNew(rep) ==
  /\ IF (fw - fr) % (2 * FifoNum) = FifoNum
     THEN UNCHANGED <<fifo, fw, fr>>
     ELSE /\ fifo' = [fifo EXCEPT ![fw % FifoNum] = rep]
          /\ fw' = (fw + 1) % PtrMod
          /\ fr' = fr
  /\ waiting' = IF Len(waiting) = FifoNum THEN Append(Tail(waiting), rep)
                ELSE Append(waiting, rep)
  /\ mishaps' = mishaps \cup {"disturbed"}
  /\ UNCHANGED epVars

(* The endpoint is busy: the report goes into usb_fifo, over the oldest    *)
(* one when there is no room, and the caller is told 0.                    *)
Enqueue(rep) ==
  /\ fifo' = [fifo EXCEPT ![fw % FifoNum] = rep]
  /\ fw' = (fw + 1) % PtrMod
  /\ fr' = IF (fw' - fr) % (2 * FifoNum) > FifoNum THEN (fr + 1) % PtrMod ELSE fr
  /\ waiting' = IF Len(waiting) = FifoNum THEN Append(Tail(waiting), rep)
                ELSE Append(waiting, rep)
  /\ mishaps' = mishaps \cup {"disturbed"}
  /\ UNCHANGED epVars

(* It is not: the report is in the endpoint, and the caller is told 1. *)
Transmit(rep) ==
  LET e == EndpointOf(rep)
  IN /\ hidEp' = [hidEp EXCEPT ![e] = rep]
     /\ sentAs' = [sentAs EXCEPT ![e] = toggle[e]]
     /\ toggle' = [toggle EXCEPT ![e] = 1 - @]

HidReport(rep) ==
  \/ Busy(rep) /\ Enqueue(rep)
  \/ ~Busy(rep) /\ Transmit(rep) /\ UNCHANGED <<fifoVars, mishaps>>

(* Press or release the keys of one id.  Only an accepted report changes   *)
(* usbkb_not_released, and only keys that are marked there are released.   *)
ReportKeys(id, says) ==
  LET rep == Report(id, says)
  IN \/ /\ says # Up
        /\ HidReport(rep)
        /\ notReleased' = IF Busy(rep) THEN notReleased ELSE notReleased \cup {id}
     \/ /\ says = Up /\ id \in notReleased
        /\ HidReport(rep)
        /\ notReleased' = IF Busy(rep) THEN notReleased ELSE notReleased \ {id}
     \/ /\ says = Up /\ id \notin notReleased
        /\ UNCHANGED <<notReleased, fifoVars, epVars, mishaps>>

-----------------------------------------------------------------------------
(* Frames from the radio.  A ring that becomes full looks empty again:     *)
(* usbkb_add_frame does not look, usbmouse_add_frame stops.                *)

AddTo(ring, data) == IF Len(ring) = RingNum - 1 THEN << >> ELSE Append(ring, data)

(* One more packet, bus reset or SET_PROTOCOL. *)
Event == events < MaxEvents /\ events' = events + 1

(* usbkb_add_frame: the loop over the frames of a packet ends after the    *)
(* first, d, because usbkb_wptr is compared with itself; more says whether *)
(* there were others.                                                      *)
AddKbPacket(d, more) ==
  /\ pc = "idle" /\ Event
  /\ kbRing' = AddTo(kbRing, d)
  /\ wants' = IF d = Malformed THEN wants ELSE d
  /\ mishaps' = IF more \/ kbRing' = << >> THEN mishaps \cup {"disturbed"} ELSE mishaps
  /\ UNCHANGED <<pc, mouseRing, notReleased, last, fifoVars, epVars, hostVars, moves>>

(* usbmouse_add_frame; a frame says how far the mouse moved, 0 or 1 *)
AddMouseFrame(m) ==
  /\ pc = "idle" /\ Event
  /\ mouseRing' = AddTo(mouseRing, m)
  /\ moves' = [moves EXCEPT !.added = @ + m]
  /\ mishaps' = IF mouseRing' = << >> THEN mishaps \cup {"disturbed"} ELSE mishaps
  /\ UNCHANGED <<pc, kbRing, notReleased, last, fifoVars, epVars, hostVars, wants>>

-----------------------------------------------------------------------------
(* usb_handle_irq, stage by stage *)

(* Wrong on purpose: a bus reset leaves the toggles as they are. *)
IrqStartKeepingToggle ==
  /\ pc = "idle"
  /\ pc' = "mouse"
  /\ hidEp' = IF resetting THEN [e \in Endpoints |-> NoReport] ELSE hidEp
  /\ resetting' = FALSE
  /\ UNCHANGED <<deviceVars, fifoVars, toggle, sentAs, host, expects, history, mishaps>>

(* Notice a bus reset. *)
IrqStart ==
  /\ pc = "idle"
  /\ pc' = "mouse"
  /\ \/ /\ resetting
        /\ hidEp' = [e \in Endpoints |-> NoReport]
        /\ toggle' = [e \in Endpoints |-> 0]
        /\ resetting' = FALSE
     \/ ~resetting /\ UNCHANGED <<hidEp, toggle, resetting>>
  /\ UNCHANGED <<deviceVars, fifoVars, sentAs, host, expects, history, mishaps>>

(* usbmouse_report_frame: the frame stays in the ring if it was queued *)
MouseReportFrame ==
  /\ pc = "mouse"
  /\ pc' = "kb"
  /\ \/ LET rep == Report("mouse", Head(mouseRing))
        IN /\ mouseRing # << >>
           /\ HidReport(rep)
           /\ mouseRing' = IF Busy(rep) THEN mouseRing ELSE Tail(mouseRing)
     \/ mouseRing = << >> /\ UNCHANGED <<mouseRing, fifoVars, epVars, mishaps>>
  /\ UNCHANGED <<kbRing, notReleased, last, hostVars, history>>

(* Wrong on purpose: a repeated press is held back whatever was released. *)
HeldBackAlways(d) == d = Malformed \/ (d # Released /\ d = last)

(* usbkb_hid_report returns at once for a malformed frame, and for a frame *)
(* that repeats the last one with keys as long as something is pressed.    *)
HeldBack(d) ==
  \/ d = Malformed
  \/ d # Released /\ d = last /\ notReleased # {}

(* usbkb_report_frame as far as usbkb_report_normal_key; a frame that is   *)
(* held back leaves the ring at once.                                      *)
KbReportFrame ==
  /\ pc = "kb"
  /\ \/ /\ kbRing = << >>
        /\ pc' = "fifo"
        /\ UNCHANGED <<kbRing, notReleased, last, fifoVars, epVars, mishaps>>
     \/ /\ kbRing # << >> /\ HeldBack(Head(kbRing))
        /\ pc' = "fifo" /\ kbRing' = Tail(kbRing)
        /\ UNCHANGED <<notReleased, last, fifoVars, epVars, mishaps>>
     \/ /\ kbRing # << >> /\ ~HeldBack(Head(kbRing))
        /\ last' = IF Head(kbRing) = Released THEN last ELSE Head(kbRing)
        /\ ReportKeys("normal", Head(kbRing).key)
        /\ pc' = "sys" /\ kbRing' = kbRing
  /\ UNCHANGED <<mouseRing, hostVars, history>>

IfPressed(id) == IF Head(kbRing).ext = id THEN Down ELSE Up

(* usbkb_report_sys_key *)
KbReportSys ==
  /\ pc = "sys"
  /\ pc' = "media"
  /\ ReportKeys("sys", IfPressed("sys"))
  /\ UNCHANGED <<kbRing, mouseRing, last, hostVars, history>>

(* usbkb_report_media_key, and the frame is done with *)
KbReportMedia ==
  /\ pc = "media"
  /\ pc' = "fifo"
  /\ ReportKeys("media", IfPressed("media"))
  /\ kbRing' = Tail(kbRing)
  /\ UNCHANGED <<mouseRing, last, hostVars, history>>

(* usb_hid_report_fifo_proc *)
FifoProc ==
  /\ pc = "fifo"
  /\ pc' = "idle"
  /\ LET rep == fifo[fr % FifoNum]
     IN \/ /\ fr # fw /\ ~Busy(rep)
           /\ Transmit(rep)
           /\ fr' = (fr + 1) % PtrMod
           /\ waiting' = Tail(waiting)
        \/ /\ fr = fw \/ Busy(rep)
           /\ UNCHANGED <<epVars, fr, waiting>>
  /\ UNCHANGED <<deviceVars, fifo, fw, hostVars, history, mishaps>>

(* SET_PROTOCOL in usb_handle_out_class_intf_req takes the pending report  *)
(* out of the mouse endpoint; its toggle stays used.                       *)
SetProtocol ==
  /\ pc = "idle" /\ ~resetting /\ Event
  /\ hidEp' = [hidEp EXCEPT !["mouse"] = NoReport]
  /\ mishaps' = IF hidEp["mouse"] # NoReport THEN {"cancelled", "disturbed"} ELSE mishaps
  /\ UNCHANGED <<pc, deviceVars, fifoVars, toggle, sentAs, hostVars, moves, wants>>

-----------------------------------------------------------------------------
(* The host *)

(* More motions than there can be are one too many, however many. *)
Capped(n) == IF n > MaxEvents THEN MaxEvents + 1 ELSE n

(* It fetches a report, and takes one with the wrong toggle for a repeat.  *)
HostPolls(e) ==
  /\ hidEp[e] # NoReport /\ ~resetting
  /\ hidEp' = [hidEp EXCEPT ![e] = NoReport]
  /\ LET rep == hidEp[e] IN
     \/ /\ sentAs[e] = expects[e]
        /\ expects' = [expects EXCEPT ![e] = 1 - @]
        /\ IF rep.id = "mouse"
           THEN moves' = [moves EXCEPT !.seen = Capped(@ + rep.says)] /\ UNCHANGED host
           ELSE host' = [host EXCEPT ![rep.id] = rep.says] /\ UNCHANGED moves
     \/ /\ sentAs[e] # expects[e]
        /\ UNCHANGED <<expects, host, moves>>
  /\ UNCHANGED <<pc, deviceVars, fifoVars, toggle, sentAs, resetting, wants,
                 events, mishaps>>

(* It resets the bus, and does not poll before the device has answered. *)
HostResets ==
  /\ Event
  /\ resetting' = TRUE
  /\ expects' = [e \in Endpoints |-> 0]
  /\ mishaps' = mishaps \cup {"disturbed"}
  /\ UNCHANGED <<pc, deviceVars, fifoVars, epVars, host, moves, wants>>

Irq ==
  \/ IrqStart \/ MouseReportFrame \/ KbReportFrame \/ KbReportSys
  \/ KbReportMedia \/ FifoProc

HidNext ==
  \/ Irq \/ SetProtocol \/ HostResets
  \/ \E d \in KbData \cup {Malformed}, more \in BOOLEAN : AddKbPacket(d, more)
  \/ \E m \in 0 .. 1 : AddMouseFrame(m)
  \/ \E e \in Endpoints : HostPolls(e)

HidSpec == HidInit /\ [][HidNext]_hidVars

HidFairSpec == HidSpec /\ WF_hidVars(Irq) /\ \A e \in Endpoints : WF_hidVars(HostPolls(e))

-----------------------------------------------------------------------------
(* usb_fifo, with its counters that wrap at 256 and are compared modulo    *)
(* twice its size, holds the newest reports that could not be sent, in     *)
(* their order: an overflow costs the oldest one and nothing else.         *)
FifoKeepsNewest ==
  LET used == (fw - fr) % (2 * FifoNum)
  IN /\ used = Len(waiting)
     /\ \A k \in 1 .. used : fifo[(fr + k - 1) % FifoNum] = waiting[k]

(* As long as no report was taken back by SET_PROTOCOL, host and device    *)
(* agree on the data toggle of either endpoint, across bus resets at any   *)
(* moment: otherwise the host takes a new report for a repeat and drops it.*)
TogglesAgree ==
  "cancelled" \notin mishaps /\ ~resetting =>
    \A e \in Endpoints :
      expects[e] = IF hidEp[e] = NoReport THEN toggle[e] ELSE sentAs[e]

(* What the host believes to be pressed when all has been reported. *)
HostAgrees ==
  /\ host.normal = wants.key
  /\ \A id \in {"sys", "media"} : host[id] = Down <=> wants.ext = id

(* When no report had to wait and no ring was overrun, the host ends up    *)
(* with exactly the keys of the last frame pressed, whatever was held      *)
(* back as a repeat and whichever keys share an endpoint, and it has seen  *)
(* every motion of the mouse once.                                         *)
HostFollows ==
  <>[](mishaps = {} => HostAgrees /\ moves.seen = moves.added)
=============================================================================
