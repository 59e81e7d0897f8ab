------------------------------ MODULE Ser2Hid -------------------------------
(***************************************************************************)
(* The application of vendor/826x_ser2hid: frames from the UART and the    *)
(* configuration key both become HID reports for the central, and the key  *)
(* held for 3 s drops the connection and all pairings.                     *)
(*                                                                         *)
(* The stack may have no buffer for a report; the code never looks at the  *)
(* result.  Reports are states, so the central keeps the last one it got.  *)
(***************************************************************************)
EXTENDS YsSwitch

CONSTANTS
  Keys,        \* keys that frames from the UART press
  MaxLosses    \* bound: how often the stack has no buffer in a behaviour

ASSUME HidAssumption == Keys # {} /\ MaxLosses \in Nat

VARIABLES
  pc,        \* where main() stands: "stack", "frame", "process", "scan"
  keyTick,   \* key_tick: "off", or "running" and, after 3 s, "expired"
  link,      \* the stack: "adv", "conn", "closing" (told to terminate)
  paired,    \* the stack holds pairing information
  kb,        \* the keyboard report the central goes by
  media,     \* the consumer or system key the central goes by, 0 for none
  steady,    \* history: how many samples in a row have agreed, up to Bits
  held,      \* history: frames have pressed something and not released it
  lost,      \* history: a report has been lost in this connection
  losses     \* how often that happened

contact == <<pin, filter, value, steady>>
keyVars == <<contact, keyTick>>
hostVars == <<kb, media, lost, losses>>
vars == <<pc, keyVars, link, paired, hostVars, held>>

None == "none"
Magic == "A5"
PayloadLen == "length"
CfgKey == "key 04"

(* A keyboard report: modifier byte and the key array without its zeros.   *)
NoKeys == [mods |-> None, keys |-> {}]
(* what ble_send_keyboard makes of a frame: its first eight bytes, of      *)
(* which the first three are the header                                    *)
FirstEight(k) == [mods |-> Magic, keys |-> {PayloadLen, k}]

Connected == link \in {"conn", "closing"}

(* ble_send_keyboard and ble_send_consumer / ble_send_system: sent when    *)
(* there is a connection, and lost when there is no buffer or the          *)
(* connection is being terminated                                          *)
Send(report, code) ==
  \/ Connected /\ kb' = report /\ media' = code /\ UNCHANGED <<lost, losses>>
  \/ /\ Connected
     /\ \/ link = "closing" /\ UNCHANGED losses
        \/ link = "conn" /\ losses < MaxLosses /\ losses' = losses + 1
     /\ kb' \in {kb, report} /\ media' \in {media, code}
     /\ lost' = TRUE
  \/ ~Connected /\ UNCHANGED hostVars

Init ==
  /\ pc = "stack"
  /\ pin \in Level /\ value = pin /\ filter = [k \in 1 .. Bits |-> pin] /\ steady = Bits
  /\ keyTick = "off"
  /\ link = "adv" /\ paired \in BOOLEAN
  /\ kb = NoKeys /\ media = 0 /\ held = FALSE
  /\ lost = FALSE /\ losses = 0

(* blt_sdk_main_loop without a call back *)
StackQuiet ==
  /\ pc = "stack" /\ pc' = "frame"
  /\ UNCHANGED <<keyVars, link, paired, hostVars, held>>

-----------------------------------------------------------------------------
(* ys_uart_recv_handler by type of frame.  A frame that is too short, does *)
(* not begin with the magic byte or gives another length changes nothing.  *)

NoFrame ==
  /\ pc = "frame" /\ pc' = "process"
  /\ UNCHANGED <<keyVars, link, paired, hostVars, held>>

(* 0x71; mouse (0x72) and n-key (0x76) frames are sent in the same way *)
KeyboardFrame(k) ==
  /\ pc = "frame" /\ pc' = "process"
  /\ held' = TRUE
  /\ Send(FirstEight(k), media)
  /\ UNCHANGED <<keyVars, link, paired>>

(* 0x73, 0x74: a system or a consumer key *)
MediaFrame ==
  /\ pc = "frame" /\ pc' = "process"
  /\ held' = TRUE
  /\ Send(kb, 1)
  /\ UNCHANGED <<keyVars, link, paired>>

(* Wrong on purpose: the consumer key is forgotten. *)
ReleaseFrameKeyboard ==
  /\ pc = "frame" /\ pc' = "process"
  /\ held' = FALSE
  /\ Send(NoKeys, media)
  /\ UNCHANGED <<keyVars, link, paired>>

(* 0x7F: one report of zeros for each of the five *)
ReleaseFrame ==
  /\ pc = "frame" /\ pc' = "process"
  /\ held' = FALSE
  /\ Send(NoKeys, 0)
  /\ UNCHANGED <<keyVars, link, paired>>

-----------------------------------------------------------------------------
(* ser2hid_cfg_key_handler *)

KeyDown ==
  /\ keyTick' = "running"
  /\ Send([NoKeys EXCEPT !.keys = {CfgKey}], media)

KeyUp ==
  /\ keyTick' = "off"
  /\ IF keyTick # "off" THEN Send(NoKeys, media) ELSE UNCHANGED hostVars

(* Wrong on purpose: without a connection the pairings stay. *)
ProcessPairingKept ==
  /\ pc = "process" /\ pc' = "scan"
  /\ IF keyTick = "expired"
     THEN /\ KeyUp
          /\ IF link = "conn" THEN link' = "closing" /\ paired' = FALSE ELSE UNCHANGED <<link, paired>>
     ELSE UNCHANGED <<keyTick, hostVars, link, paired>>
  /\ UNCHANGED <<contact, held>>

(* ser2hid_process after the UART: the key held for 3 s *)
Process ==
  /\ pc = "process" /\ pc' = "scan"
  /\ IF keyTick = "expired"
     THEN /\ KeyUp
          /\ link' = IF link = "conn" THEN "closing" ELSE link
          /\ paired' = FALSE
     ELSE UNCHANGED <<keyTick, hostVars, link, paired>>
  /\ UNCHANGED <<contact, held>>

(* ys_switch_scan calls the handler with the new value. *)
Scan ==
  /\ pc = "scan" /\ pc' = "stack"
  /\ SwitchScan
  /\ steady' = IF pin # filter[Bits] THEN 1 ELSE IF steady < Bits THEN steady + 1 ELSE Bits
  /\ \/ value' = value /\ UNCHANGED <<keyTick, hostVars>>
     \/ value' # value /\ value' = 0 /\ KeyDown
     \/ value' # value /\ value' = 1 /\ KeyUp
  /\ UNCHANGED <<pin, link, paired, held>>

-----------------------------------------------------------------------------
KeyMove == PinMove /\ UNCHANGED <<steady, pc, keyTick, link, paired, hostVars, held>>

TickElapse ==
  /\ keyTick = "running" /\ keyTick' = "expired"
  /\ UNCHANGED <<contact, pc, link, paired, hostVars, held>>

(* The stack calls back only from its own place in the main loop. *)
Connect ==
  /\ pc = "stack" /\ link = "adv"
  /\ link' = "conn" /\ paired' = TRUE
  /\ UNCHANGED <<pc, keyVars, hostVars, held>>

(* The central takes all keys as released when the connection is gone. *)
LinkDown ==
  /\ pc = "stack" /\ Connected
  /\ link' = "adv"
  /\ kb' = NoKeys /\ media' = 0 /\ lost' = FALSE
  /\ UNCHANGED <<pc, keyVars, paired, losses, held>>

MainStep ==
  \/ StackQuiet \/ NoFrame \/ (\E k \in Keys : KeyboardFrame(k)) \/ MediaFrame \/ ReleaseFrame
  \/ Process \/ Scan

Next == MainStep \/ KeyMove \/ TickElapse \/ Connect \/ LinkDown

Spec ==
  /\ Init /\ [][Next]_vars
  /\ WF_vars(MainStep) /\ WF_vars(TickElapse)
  /\ SF_vars(link = "closing" /\ LinkDown)

-----------------------------------------------------------------------------
(* No key stays down at the central: with the key up and everything that   *)
(* the UART pressed released, the central holds nothing, whatever the two  *)
(* sources did to each other's reports and however often the connection    *)
(* went and came - unless a report was lost for want of a buffer.          *)
NothingStuck ==
  keyTick = "off" /\ ~held /\ ~lost => kb = NoKeys /\ media = 0

(* A key held for 3 s takes the pairings with it, connected or not, unless *)
(* it is let go in the very last moment.                                   *)
LongPressUnpairs == keyTick = "expired" ~> ~paired \/ value = 1

(* The value of the switch changes exactly when Bits samples in a row have *)
(* disagreed with it: a shorter bounce is swallowed, a longer press is not *)
(* missed.                                                                 *)
Debounced ==
  [][value' # value <=> steady' = Bits /\ pin # value]_<<filter, value, steady>>
=============================================================================
