------------------------------- MODULE BleDrv -------------------------------
(***************************************************************************)
(* vendor/common/ble_drv.c: the address of the device and its place in     *)
(* flash, advertising - directed to the last bonded central at first, open *)
(* to everyone later - and the callbacks of the stack that set up the LED. *)
(* The stack and the centrals are the environment.                         *)
(***************************************************************************)
EXTENDS BltLed, Sequences

CONSTANTS
  MacLen,      \* sizeof(tbl_mac), 6
  WordLen,     \* bytes of the word that tells whether an address is there, 4
  Half,        \* the 500 ms of led_cfg[LED_SHINE_SLOW], in ticks
  MaxLosses    \* bound: how often power is lost in a behaviour

ASSUME MacAssumption ==
  MacLen \in Nat /\ WordLen \in 1 .. MacLen /\ Half \in Nat \ {0} /\ MaxLosses \in Nat

VARIABLES
  pc,        \* "mac", "write", "start" while booting, then "loop"
  flash,     \* the bytes at CFG_ADR_MAC
  addr,      \* tbl_mac, which the stack is initialised with
  link,      \* the stack: "off", "adv", "idle" (advertising ended), "conn", "closing"
  advTo,     \* who may connect: "peer" or "all"
  lasting,   \* bls_ll_setAdvDuration has been set and has not run out
  bonded,    \* flash of the security manager: somebody is bonded
  used,      \* history: the address the device first went on air with
  losses     \* how often power has been lost

driverVars == <<pc, flash, addr, link, advTo, lasting, bonded, used, losses>>
vars == <<driverVars, clockVars, ledVars>>

-----------------------------------------------------------------------------
(* A byte is what is left of its bits: all of them when erased.  One bit   *)
(* tells apart what matters; programming only ever clears bits.            *)
Erased == {1}
Byte == SUBSET Erased
Mac == [1 .. MacLen -> Byte]
NoMac == [k \in 1 .. MacLen |-> Erased]
WordBlank(m) == \A k \in 1 .. WordLen : m[k] = Erased
Programmed(m, new, n) == [k \in 1 .. MacLen |-> IF k <= n THEN m[k] \cap new[k] ELSE m[k]]

(* generateRandomNum; its first word is taken not to be the erased one *)
Drawn == {m \in Mac : ~WordBlank(m)}

LongOn == Config(1, 0, Steady)
ShineSlow == Config(Half, Half, 1)

Init ==
  /\ LedInit
  /\ pc = "mac" /\ flash = NoMac /\ addr = NoMac
  /\ link = "off" /\ advTo = "all" /\ lasting = FALSE
  /\ bonded \in BOOLEAN
  /\ used = NoMac /\ losses = 0

(* Wrong on purpose: the address drawn is not kept. *)
InitMacUnsaved ==
  /\ pc = "mac"
  /\ addr' \in (IF WordBlank(flash) THEN Drawn ELSE {flash})
  /\ pc' = "start"
  /\ UNCHANGED <<flash, link, advTo, lasting, bonded, used, losses, clockVars, ledVars>>

(* ble_drv_init: read the address, or draw one to be written *)
InitMac ==
  /\ pc = "mac"
  /\ \/ WordBlank(flash) /\ addr' \in Drawn /\ pc' = "write"
     \/ ~WordBlank(flash) /\ addr' = flash /\ pc' = "start"
  /\ UNCHANGED <<flash, link, advTo, lasting, bonded, used, losses, clockVars, ledVars>>

WriteMac ==
  /\ pc = "write"
  /\ flash' = Programmed(flash, addr, MacLen)
  /\ pc' = "start"
  /\ UNCHANGED <<addr, link, advTo, lasting, bonded, used, losses, clockVars, ledVars>>

(* ble_start_advertis *)
StartAdvertis ==
  /\ pc = "start"
  /\ advTo' = IF bonded THEN "peer" ELSE "all"
  /\ lasting' = bonded
  /\ link' = "adv" /\ pc' = "loop"
  /\ used' = IF used = NoMac THEN addr ELSE used
  /\ LedSetup(ShineSlow)
  /\ UNCHANGED <<flash, addr, bonded, losses, clockVars>>

(* The stack ends advertising when its duration has run out ... *)
AdvEnds ==
  /\ pc = "loop" /\ link = "adv" /\ lasting
  /\ lasting' = FALSE /\ link' = "idle"
  /\ UNCHANGED <<pc, flash, addr, advTo, bonded, used, losses, clockVars, ledVars>>

(* Wrong on purpose: advertising is not enabled again. *)
AdvDurationTimeoutCbDisabled ==
  /\ link = "idle"
  /\ advTo' = "all" /\ link' = "off"
  /\ UNCHANGED <<pc, flash, addr, lasting, bonded, used, losses, clockVars, ledVars>>

(* ... and calls ble_adv_duration_timeout_cb. *)
AdvDurationTimeoutCb ==
  /\ link = "idle"
  /\ advTo' = "all" /\ link' = "adv"
  /\ UNCHANGED <<pc, flash, addr, lasting, bonded, used, losses, clockVars, ledVars>>

(* A central connects, the bonded one or, with open advertising, any; it   *)
(* may bond.  The stack calls ble_connect_cb.                              *)
ConnectCb ==
  /\ pc = "loop" /\ link = "adv"
  /\ advTo = "all" \/ bonded
  /\ bonded' \in {bonded, TRUE}
  /\ link' = "conn"
  /\ LedSetup(LongOn)
  /\ UNCHANGED <<pc, flash, addr, advTo, lasting, used, losses, clockVars>>

(* ble_disconnect *)
Disconnect ==
  /\ link = "conn"
  /\ link' = "closing"
  /\ UNCHANGED <<pc, flash, addr, advTo, lasting, bonded, used, losses, clockVars, ledVars>>

(* Wrong on purpose: the LED is left as it is. *)
TerminateCbDark ==
  /\ link \in {"conn", "closing"}
  /\ link' = "adv"
  /\ UNCHANGED <<pc, flash, addr, advTo, lasting, bonded, used, losses, clockVars, ledVars>>

(* The connection is over: ble_terminate_cb; the stack advertises again.   *)
TerminateCb ==
  /\ link \in {"conn", "closing"}
  /\ link' = "adv"
  /\ LedSetup(ShineSlow)
  /\ UNCHANGED <<pc, flash, addr, advTo, lasting, bonded, used, losses, clockVars>>

(* The main loop, and the clock beside it *)
LedPass == pc = "loop" /\ LedProcess /\ UNCHANGED driverVars
Clock == pc = "loop" /\ Tick /\ UNCHANGED driverVars

(* Power is lost; an address being written is left cut short. *)
PowerLoss ==
  /\ losses < MaxLosses
  /\ losses' = losses + 1
  /\ \/ pc = "write" /\ \E n \in 0 .. MacLen : flash' = Programmed(flash, addr, n)
     \/ pc # "write" /\ UNCHANGED flash
  /\ pc' = "mac" /\ addr' = NoMac
  /\ link' = "off" /\ advTo' = "all" /\ lasting' = FALSE
  /\ isOn' = FALSE /\ onTime' = 0 /\ offTime' = 0 /\ repeatCount' = 0
  /\ startTick' = clock /\ epoch' = clock
  /\ late' = 0
  /\ UNCHANGED <<clock, bonded, used>>

Boot == InitMac \/ WriteMac \/ StartAdvertis
Stack == AdvEnds \/ AdvDurationTimeoutCb
Next ==
  \/ Boot \/ Stack \/ ConnectCb \/ Disconnect \/ TerminateCb
  \/ LedPass \/ Clock \/ PowerLoss

Spec ==
  /\ Init /\ [][Next]_vars
  /\ WF_vars(Boot) /\ WF_vars(AdvEnds) /\ WF_vars(AdvDurationTimeoutCb)
  /\ WF_vars(link = "closing" /\ TerminateCb)
  /\ WF_vars(LedPass) /\ WF_vars(Clock)

-----------------------------------------------------------------------------
(* The device goes on air with one address for ever, wherever power was    *)
(* lost, also in the middle of writing it: an address cut short was never  *)
(* used, and a used one is whole in flash.                                 *)
AddressKept == pc = "loop" => addr = used

(* The LED tells whether a central is connected: steadily on, or blinking. *)
(* No pass of the main loop turns the steady LED off.                      *)
LedShowsLink ==
  pc = "loop" => IF link \in {"conn", "closing"} THEN isOn /\ repeatCount = 0 ELSE repeatCount # 0

(* Why the address is kept: a word that is blank means that nothing has    *)
(* been programmed, as the address is drawn with a first word that is not; *)
(* and what was on air is what is in flash.                                *)
AddressSound ==
  /\ flash \in Mac /\ addr \in Mac /\ used \in Mac
  /\ WordBlank(flash) => flash = NoMac
  /\ used # NoMac => flash = used
  /\ pc = "write" => flash = NoMac /\ addr \in Drawn
  /\ pc \in {"start", "loop"} => addr = flash /\ flash # NoMac
  /\ pc = "loop" => used = addr

(* Why the LED shows the link: the callbacks that change the link also set *)
(* up the LED, and a blinking LED has both its phases.                     *)
LedSound ==
  /\ pc \in {"mac", "write", "start", "loop"}
  /\ link \in {"off", "adv", "idle", "conn", "closing"}
  /\ link = "off" <=> pc # "loop"
  /\ pc = "loop" => IF link \in {"conn", "closing"} THEN isOn /\ repeatCount = 0
                    ELSE repeatCount = 1 /\ onTime = Half /\ offTime = Half

IInv == AddressSound /\ LedSound

(* The blinking does not drift, however late the passes come and wherever  *)
(* the clock wraps: a phase starts a whole number of half periods after    *)
(* the LED was set up, an even number of them when the LED is lit.         *)
InPhase ==
  repeatCount # 0 =>
    \E n \in 0 .. 2 * Wrap - 1 :
      /\ startTick = (epoch + n * Half) % Wrap
      /\ isOn <=> n % 2 = 0

(* Unless somebody is connected the LED keeps blinking. *)
Blinks == <>[](link \in {"adv", "idle"}) => []<>isOn /\ []<>~isOn

(* Directed advertising locks nobody out for good: again and again the     *)
(* device is connected or open to every central.                           *)
OpensUp == []<>(link \in {"conn", "closing"} \/ (link = "adv" /\ advTo = "all"))
=============================================================================
