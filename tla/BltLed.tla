------------------------------- MODULE BltLed -------------------------------
(***************************************************************************)
(* vendor/common/blt_led.c: the status LED, steady or blinking against a   *)
(* clock that wraps around.  Whoever composes this module says when the    *)
(* LED is set up.                                                          *)
(***************************************************************************)
EXTENDS Integers

CONSTANTS
  Wrap,   \* 2^32: the clock counts modulo this
  Gap     \* bound: ticks between two passes of the main loop

ASSUME LedAssumption == Wrap \in Nat \ {0} /\ Gap \in Nat

VARIABLES
  clock,   \* clock_time()
  late,    \* ticks since device_led_process last ran
  isOn, onTime, offTime, repeatCount, startTick,   \* device_led
  epoch    \* history: the tick at which the LED was last set up

ledVars == <<isOn, onTime, offTime, repeatCount, startTick, epoch>>
clockVars == <<clock, late>>

(* led_cfg_t; a repeat count of 255 means steady *)
Steady == 255
Config(on, off, count) == [on |-> on, off |-> off, count |-> count]
Exceeded(d) == (clock - startTick) % Wrap > d

(* device_led_init *)
LedInit ==
  /\ clock \in 0 .. Wrap - 1 /\ late = 0
  /\ isOn = FALSE /\ onTime = 0 /\ offTime = 0 /\ repeatCount = 0
  /\ startTick = clock /\ epoch = clock

(* device_led_setup: a phase of length 0 becomes one long other phase *)
LedSetup(c) ==
  LET steady == c.count = Steady
      once == ~steady /\ (c.on = 0 \/ c.off = 0)
  IN /\ onTime' = IF once THEN c.on * c.count ELSE c.on
     /\ offTime' = IF once THEN c.off * c.count ELSE c.off
     /\ repeatCount' = IF steady THEN 0 ELSE IF once THEN 1 ELSE c.count
     /\ startTick' = clock /\ epoch' = clock
     /\ isOn' = (c.on # 0)

(* Wrong on purpose: the next phase is counted from when it was noticed. *)
LedProcessDrifting ==
  /\ late' = 0
  /\ UNCHANGED <<clock, onTime, offTime, epoch>>
  /\ \/ /\ repeatCount # 0 /\ Exceeded(IF isOn THEN onTime ELSE offTime)
        /\ isOn' = ~isOn /\ startTick' = clock /\ UNCHANGED repeatCount
     \/ /\ ~(repeatCount # 0 /\ Exceeded(IF isOn THEN onTime ELSE offTime))
        /\ UNCHANGED <<isOn, startTick, repeatCount>>

(* Wrong on purpose: the repetitions are counted down. *)
LedProcessCounting ==
  /\ late' = 0
  /\ UNCHANGED <<clock, onTime, offTime, epoch>>
  /\ IF repeatCount # 0 /\ Exceeded(IF isOn THEN onTime ELSE offTime)
     THEN /\ isOn' = ~isOn /\ startTick' = (startTick + IF isOn THEN onTime ELSE offTime) % Wrap
          /\ repeatCount' = IF isOn THEN repeatCount - 1 ELSE repeatCount
     ELSE UNCHANGED <<isOn, startTick, repeatCount>>

(* device_led_process and led_proc: repeatCount is never counted down, so  *)
(* a blinking LED blinks until it is set up again                          *)
LedProcess ==
  /\ late' = 0
  /\ UNCHANGED <<clock, onTime, offTime, epoch>>
  /\ \/ /\ repeatCount # 0 /\ isOn /\ Exceeded(onTime)
        /\ isOn' = FALSE
        /\ IF offTime # 0 THEN startTick' = (startTick + onTime) % Wrap /\ UNCHANGED repeatCount
           ELSE repeatCount' = 0 /\ UNCHANGED startTick
     \/ /\ repeatCount # 0 /\ ~isOn /\ Exceeded(offTime)
        /\ isOn' = TRUE
        /\ startTick' = (startTick + offTime) % Wrap
        /\ UNCHANGED repeatCount
     \/ /\ repeatCount = 0 \/ ~Exceeded(IF isOn THEN onTime ELSE offTime)
        /\ UNCHANGED <<isOn, startTick, repeatCount>>

Tick ==
  /\ late < Gap
  /\ clock' = (clock + 1) % Wrap
  /\ late' = late + 1
  /\ UNCHANGED ledVars
=============================================================================
