------------------------------ MODULE Ser2Ble -------------------------------
(***************************************************************************)
(* The application of vendor/826x_ser2ble around its two byte streams:     *)
(* booting, the speed of the UART with its copies in RAM, in flash, in the *)
(* UART and on three LEDs, the key that steps it or drops the connection,  *)
(* the command from the central that sets it, and power that may be lost   *)
(* between any two steps.                                                  *)
(*                                                                         *)
(* main.c runs one loop; pc says where it stands.  "erase" and "write" are *)
(* the two halves of a save, ret where the saving function returns to.     *)
(* Interrupts are off within each half, so nothing else moves there.       *)
(***************************************************************************)
EXTENDS YsRom, YsSwitch

CONSTANT MaxLosses   \* bound: how often power is lost in a behaviour

ASSUME LossAssumption == MaxLosses \in Nat

VARIABLES
  pc,        \* where main() stands
  ret,       \* where the save in progress returns to
  rom,       \* the configuration in flash
  cfg,       \* device_config
  uart,      \* the speed the UART runs at, FF when it is off
  leds,      \* the speed shown by the LEDs, FF when they are dark
  keyTick,   \* key_tick: "off", or "running" and, after 3 s, "expired"
  link,      \* the stack: "adv", "conn", "closing" (told to terminate)
  losses,    \* how often power has been lost
  acts,      \* history: what the last press has caused so far, 1 at power-on
  wanted     \* history: the speeds the device may come up with

keyVars == <<pin, filter, value, keyTick, acts>>
saveVars == <<rom, cfg, uart, leds>>
vars == <<pc, ret, saveVars, keyVars, link, losses, wanted>>

InLoop == pc \in {"stack", "show", "process", "scan"}

Init ==
  /\ pc = "load" /\ ret = "stack"
  /\ rom \in {Blank} \cup [name : {"whole"}, power : {FullPower}, baud : Bauds]
  /\ wanted = IF rom = Blank THEN {DefaultBaud} ELSE {rom.baud}
  /\ cfg = Blank /\ uart = FF /\ leds = FF
  /\ pin \in Level /\ value = 0 /\ filter = [k \in 1 .. Bits |-> 0]
  /\ keyTick = "off" /\ acts = 1
  /\ link = "adv" /\ losses = 0

-----------------------------------------------------------------------------
(* Saving.  The erase leaves the sector blank, the page write fills it.    *)

SaveThen(next) == pc' = "erase" /\ ret' = next

Erase ==
  /\ pc = "erase"
  /\ rom' = Blank
  /\ pc' = "write"
  /\ UNCHANGED <<ret, cfg, uart, leds, keyVars, link, losses, wanted>>

Write ==
  /\ pc = "write"
  /\ rom' = cfg
  /\ pc' = ret
  /\ UNCHANGED <<ret, cfg, uart, leds, keyVars, link, losses, wanted>>

(* Wrong on purpose: a damaged configuration is repaired in RAM only. *)
LoadWithoutSave ==
  /\ pc = "load"
  /\ cfg' = Recovered(rom)
  /\ pc' = "init"
  /\ UNCHANGED <<ret, rom, uart, leds, keyVars, link, losses, wanted>>

(* Booting: load, repair if need be, ys_switch_init and ser2ble_init *)

Load ==
  /\ pc = "load"
  /\ cfg' = Recovered(rom)
  /\ IF Damaged(rom) THEN SaveThen("init") ELSE pc' = "init" /\ UNCHANGED ret
  /\ UNCHANGED <<rom, uart, leds, keyVars, link, losses, wanted>>

Start ==
  /\ pc = "init"
  /\ uart' = cfg.baud /\ leds' = cfg.baud
  /\ SwitchRegister
  /\ wanted' = {cfg.baud}
  /\ pc' = "stack"
  /\ UNCHANGED <<ret, rom, cfg, pin, keyTick, acts, link, losses>>

-----------------------------------------------------------------------------
(* blt_sdk_main_loop: it has nothing for the application, or it delivers a *)
(* write to the command characteristic.  Malformed commands and speeds     *)
(* above MaxBaud are dropped without a trace.                              *)

StackQuiet ==
  /\ pc = "stack"
  /\ pc' = "process"
  /\ UNCHANGED <<ret, saveVars, keyVars, link, losses, wanted>>

(* Wrong on purpose: the new speed is not saved. *)
CommandForgetting(b) ==
  /\ pc = "stack" /\ link # "adv"
  /\ uart' = b
  /\ cfg' = [cfg EXCEPT !.baud = b]
  /\ leds' = b /\ wanted' = {b}
  /\ pc' = "process"
  /\ UNCHANGED <<ret, rom, keyVars, link, losses>>

(* ble_nus_cmd_handler *)
Command(b) ==
  /\ pc = "stack" /\ link # "adv"
  /\ uart' = b
  /\ \/ /\ cfg.baud # b
        /\ cfg' = [cfg EXCEPT !.baud = b]
        /\ SaveThen("show")
        /\ wanted' = {b}
     \/ /\ cfg.baud = b
        /\ pc' = "show"
        /\ UNCHANGED <<cfg, ret, wanted>>
  /\ UNCHANGED <<rom, leds, keyVars, link, losses>>

Show ==
  /\ pc = "show"
  /\ leds' = cfg.baud
  /\ pc' = "process"
  /\ UNCHANGED <<ret, rom, cfg, uart, keyVars, link, losses, wanted>>

(* Wrong on purpose: the long press is not forgotten once it has acted. *)
ProcessKeepingTick ==
  /\ pc = "process"
  /\ \/ keyTick = "expired" /\ acts' = acts + 1 /\ link' = (IF link = "conn" THEN "closing" ELSE link)
     \/ keyTick # "expired" /\ UNCHANGED <<acts, link>>
  /\ pc' = "scan"
  /\ UNCHANGED <<ret, saveVars, pin, filter, value, keyTick, losses, wanted>>

(* Wrong on purpose: a long press does nothing. *)
ProcessIgnoring ==
  /\ pc = "process"
  /\ pc' = "scan"
  /\ UNCHANGED <<ret, saveVars, keyVars, link, losses, wanted>>

(* ser2ble_process, with ble_disconnect *)
Process ==
  /\ pc = "process"
  /\ \/ /\ keyTick = "expired"
        /\ keyTick' = "off"
        /\ link' = IF link = "conn" THEN "closing" ELSE link
        /\ acts' = acts + 1
     \/ keyTick # "expired" /\ UNCHANGED <<keyTick, link, acts>>
  /\ pc' = "scan"
  /\ UNCHANGED <<ret, saveVars, pin, filter, value, losses, wanted>>

-----------------------------------------------------------------------------
(* ser2ble_cfg_key_handler, called by ys_switch_scan when the value moves *)

NextBaud == IF cfg.baud + 1 > MaxBaud THEN 0 ELSE cfg.baud + 1

KeyDown ==
  /\ keyTick' = "running" /\ acts' = 0
  /\ pc' = "stack"
  /\ UNCHANGED <<ret, saveVars, wanted>>

KeyUp ==
  /\ keyTick' = "off"
  /\ IF keyTick # "off"
     THEN /\ acts' = acts + 1
          /\ cfg' = [cfg EXCEPT !.baud = NextBaud]
          /\ uart' = NextBaud /\ leds' = NextBaud /\ wanted' = {NextBaud}
          /\ SaveThen("stack")
          /\ UNCHANGED rom
     ELSE pc' = "stack" /\ UNCHANGED <<ret, saveVars, acts, wanted>>

Scan ==
  /\ pc = "scan"
  /\ SwitchScan
  /\ \/ value' # value /\ value' = 0 /\ KeyDown
     \/ value' # value /\ value' = 1 /\ KeyUp
     \/ value' = value /\ pc' = "stack" /\ UNCHANGED <<ret, saveVars, keyTick, acts, wanted>>
  /\ UNCHANGED <<pin, link, losses>>

-----------------------------------------------------------------------------
(* The world: the key, the clock, the central, the supply *)

KeyMove == PinMove /\ UNCHANGED <<pc, ret, saveVars, keyTick, acts, link, losses, wanted>>

TickElapse ==
  /\ keyTick = "running"
  /\ keyTick' = "expired"
  /\ UNCHANGED <<pc, ret, saveVars, pin, filter, value, acts, link, losses, wanted>>

Connect ==
  /\ InLoop /\ link = "adv"
  /\ link' = "conn"
  /\ UNCHANGED <<pc, ret, saveVars, keyVars, losses, wanted>>

LinkDown ==
  /\ InLoop /\ link \in {"conn", "closing"}
  /\ link' = "adv"
  /\ UNCHANGED <<pc, ret, saveVars, keyVars, losses, wanted>>

(* Power is lost, and is back. *)
PowerLoss ==
  /\ losses < MaxLosses
  /\ losses' = losses + 1
  /\ CASE pc = "erase" -> rom' \in {rom, Blank}
       [] pc = "write" -> rom' \in Torn(cfg)
       [] OTHER        -> rom' = rom
  /\ wanted' = IF pc \in {"erase", "write"}
               THEN wanted \cup {DefaultBaud} \cup (IF pc = "erase" THEN {rom.baud} \cap Bauds ELSE {})
               ELSE wanted
  /\ pc' = "load" /\ ret' = "stack"
  /\ cfg' = Blank /\ uart' = FF /\ leds' = FF
  /\ SwitchInit /\ keyTick' = "off" /\ acts' = 1
  /\ link' = "adv"
  /\ UNCHANGED pin

MainStep ==
  \/ Load \/ Start \/ Erase \/ Write
  \/ StackQuiet \/ (\E b \in Bauds : Command(b)) \/ Show
  \/ Process \/ Scan

Next == MainStep \/ KeyMove \/ TickElapse \/ Connect \/ LinkDown \/ PowerLoss

Fairness ==
  /\ WF_vars(MainStep)
  /\ WF_vars(TickElapse)
  /\ SF_vars(link = "closing" /\ LinkDown)

Spec == Init /\ [][Next]_vars /\ Fairness

-----------------------------------------------------------------------------
Pcs == {"load", "init", "erase", "write", "stack", "show", "process", "scan"}

(* The values every variable may take. *)
TypeOK ==
  /\ pc \in Pcs /\ ret \in {"init", "stack", "show"}
  /\ rom \in Config /\ cfg \in Config
  /\ uart \in Bauds \cup {FF} /\ leds \in Bauds \cup {FF}
  /\ pin \in Level /\ value \in Level /\ filter \in [1 .. Bits -> Level]
  /\ keyTick \in {"off", "running", "expired"}
  /\ link \in {"adv", "conn", "closing"}
  /\ losses \in 0 .. MaxLosses
  /\ acts \in {0, 1} /\ wanted \subseteq Bauds

(* The four copies of the speed never drift apart: whenever no handler is  *)
(* at work, flash holds what RAM holds, both are sound, and the UART runs  *)
(* at the speed that the LEDs show and the next power-on will restore.     *)
Settled ==
  pc \in {"stack", "process", "scan"} =>
    /\ ~Damaged(cfg) /\ rom = cfg
    /\ uart = cfg.baud /\ leds = cfg.baud

(* Losing power keeps the speed last chosen, and one lost in the middle of *)
(* a save brings back the speed before or the default, never another one.  *)
SpeedKept == pc \in {"init", "stack", "process", "scan"} => cfg.baud \in wanted

(* A press is answered once, by a step on release or by a disconnect while *)
(* held, never by both and never by none: key_tick is what tells them      *)
(* apart, and two places of the loop clear it.                             *)
PressActsOnce ==
  /\ acts = IF keyTick = "off" THEN 1 ELSE 0
  /\ value = 1 => acts = 1

(* The inductive strengthening.  A boot never meets a running key; what is *)
(* to be loaded, written or used is always a speed the history allows.     *)
Booting ==
  \/ pc \in {"load", "init"}
  \/ pc \in {"erase", "write"} /\ ret = "init"

KeyIdleAtBoot == Booting => keyTick = "off"

Loadable == pc = "load" => Recovered(rom).baud \in wanted

Saving ==
  pc \in {"erase", "write"} =>
    /\ ~Damaged(cfg) /\ cfg.baud \in wanted
    /\ ret # "init" => uart = cfg.baud
    /\ ret = "stack" => leds = cfg.baud

Saved ==
  pc \notin {"load", "erase", "write"} =>
    ~Damaged(cfg) /\ rom = cfg /\ cfg.baud \in wanted

Showing == pc = "show" => uart = cfg.baud

(* All of it together, an invariant that every step preserves by itself. *)
IInv ==
  /\ TypeOK /\ Settled /\ PressActsOnce
  /\ KeyIdleAtBoot /\ Loadable /\ Saving /\ Saved /\ Showing

(* A key held long enough ends the connection, unless power is lost, the   *)
(* key is let go first, or the link ends by itself.                        *)
LongPressDisconnects ==
  keyTick = "running" /\ link = "conn" ~> link = "adv" \/ value = 1

(* The name that a repaired configuration advertises fits the bytes that   *)
(* ble_app_init has for it, the four digits of the address included.       *)
AdvDeviceNameMaxLen == 18

NameFits == pc \in {"init"} \cup {"stack", "process", "scan"} =>
  NameLen(cfg.name) + 4 <= AdvDeviceNameMaxLen
=============================================================================
