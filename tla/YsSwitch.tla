------------------------------ MODULE YsSwitch ------------------------------
(***************************************************************************)
(* vendor/common/ys_switch.c for one switch: every pass of the main loop   *)
(* shifts a sample of the pin into a filter, and the value of the switch   *)
(* follows the pin only when the whole filter agrees.  A pressed switch    *)
(* reads 0.  Whoever composes this module adds the callback, which is      *)
(* called when a scan changes the value.                                   *)
(***************************************************************************)
EXTENDS Integers

CONSTANT Bits   \* samples that must agree: 8 in the code (filter & 0xFF)

ASSUME BitsAssumption == Bits \in Nat \ {0}

VARIABLES
  pin,     \* what the contact reads at the moment
  filter,  \* sw_tbl[i].filter: the last Bits samples, the latest at the end
  value    \* sw_tbl[i].value; pre_value is its value before the scan

switchVars == <<filter, value>>

Level == {0, 1}
Steady(f, v) == \A k \in 1 .. Bits : f[k] = v
Shifted == [k \in 1 .. Bits |-> IF k < Bits THEN filter[k + 1] ELSE pin]

(* ys_switch_init: all of sw_tbl is zero *)
SwitchInit ==
  /\ value' = 0
  /\ filter' = [k \in 1 .. Bits |-> 0]

(* ys_switch_register: the switch starts out as the pin is *)
SwitchRegister ==
  /\ value' = pin
  /\ filter' = [k \in 1 .. Bits |-> pin]

(* Wrong on purpose: one sample is enough. *)
ScanUnfiltered ==
  /\ filter' = Shifted
  /\ value' = pin

(* ys_switch_scan, one switch *)
SwitchScan ==
  /\ filter' = Shifted
  /\ \/ \E v \in Level : Steady(filter', v) /\ value' = v
     \/ ~(\E v \in Level : Steady(filter', v)) /\ value' = value

(* The contact moves, and bounces, between any two samples. *)
PinMove == pin' = 1 - pin /\ UNCHANGED switchVars
=============================================================================
