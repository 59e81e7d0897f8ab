------------------------------- MODULE YsRom --------------------------------
(***************************************************************************)
(* vendor/common/ys_rom.c: the configuration of the device as it lies in   *)
(* one flash sector, what loading makes of a damaged one, and what a loss  *)
(* of power in the middle of programming leaves behind.                    *)
(*                                                                         *)
(* Bytes of an erased sector read 0xFF, and a page is programmed byte by   *)
(* byte in the order of device_cfg_t: the name first, the speed last.  Of  *)
(* the name the code tells apart only whether its first byte is 0xFF and   *)
(* where its terminator is.                                                *)
(***************************************************************************)
EXTENDS Integers

CONSTANTS
  MaxBaud,      \* UART_BAUD_230400, the last of the speeds: 5 in the code
  DefaultBaud   \* UART_BAUD_115200: 4 in the code

ASSUME BaudAssumption == MaxBaud \in Nat /\ DefaultBaud \in 0 .. MaxBaud

Bauds == 0 .. MaxBaud
FF == MaxBaud + 1          \* an erased byte, larger than any speed
FullPower == 0             \* RF_POWER_8dBm

(* "whole": terminated.  "cut": programmed in part, no terminator.         *)
Names == {"erased", "cut", "whole"}

Config == [name : Names, power : {FullPower, FF}, baud : Bauds \cup {FF}]

Blank == [name |-> "erased", power |-> FF, baud |-> FF]

Damaged(c) == c.name = "erased" \/ c.power > FullPower \/ c.baud > MaxBaud

(* ys_rom_load_device_config: what it makes of the bytes it has read *)
Recovered(c) ==
  [name  |-> IF c.name = "erased" THEN "whole" ELSE c.name,
   power |-> FullPower,
   baud  |-> IF c.baud > MaxBaud THEN DefaultBaud ELSE c.baud]

(* flash_write_page(c) into an erased sector, stopped after any byte *)
Torn(c) ==
  {[Blank EXCEPT !.name = n] : n \in {"erased", "cut", c.name}}
    \cup {[c EXCEPT !.baud = FF], c}

(* strlen(dev_name): a cut name ends at tx_power, which is 0 by then *)
NameLen(n) == IF n = "cut" THEN 20 ELSE 7
=============================================================================
