--------------------------- MODULE Ser2Ble_proof ----------------------------
(***************************************************************************)
(* Proofs about Ser2Ble, for every number of speeds, every length of the   *)
(* filter and every number of power losses.                                *)
(***************************************************************************)
EXTENDS Ser2Ble, TLAPS

USE BaudAssumption, BitsAssumption, LossAssumption

(* Repairing a configuration gives a sound one, and leaves a sound one as  *)
(* it is.                                                                  *)
LEMMA RecoveredSound ==
  ASSUME NEW c \in Config
  PROVE  /\ Recovered(c) \in Config
         /\ ~Damaged(Recovered(c))
         /\ Recovered(c).baud \in Bauds
         /\ ~Damaged(c) => Recovered(c) = c
  BY DEF Config, Recovered, Damaged, Bauds, FF, FullPower, Names

(* What an interrupted page write leaves is a configuration, and the speed *)
(* it is repaired to is the one written or the default.                    *)
LEMMA TornSound ==
  ASSUME NEW c \in Config, c.baud \in Bauds, NEW t \in Torn(c)
  PROVE  t \in Config /\ Recovered(t).baud \in {c.baud, DefaultBaud}
<1>1. CASE t = c
  BY <1>1 DEF Recovered, Config, Bauds, FF
<1>2. CASE t = [c EXCEPT !.baud = FF]
  BY <1>2 DEF Recovered, Config, Bauds, FF
<1>3. CASE \E n \in {"erased", "cut", c.name} : t = [Blank EXCEPT !.name = n]
  BY <1>3 DEF Recovered, Config, Bauds, FF, Blank, Names
<1>. QED  BY <1>1, <1>2, <1>3 DEF Torn

LEMMA BlankSound == Blank \in Config /\ Recovered(Blank).baud = DefaultBaud
  BY DEF Blank, Config, Recovered, Names, Bauds, FF

(* A scan of the switch keeps its variables in their types. *)
LEMMA ScanTypes ==
  ASSUME value \in Level, pin \in Level, filter \in [1 .. Bits -> Level], SwitchScan
  PROVE  value' \in Level /\ filter' \in [1 .. Bits -> Level]
<1>1. filter' \in [1 .. Bits -> Level]
  BY DEF SwitchScan, Shifted, Level
<1>2. value' \in Level
  BY DEF SwitchScan
<1>. QED  BY <1>1, <1>2

-----------------------------------------------------------------------------
LEMMA InitHolds == Init => IInv
<1>. SUFFICES ASSUME Init PROVE IInv
  OBVIOUS
<1>1. rom \in Config /\ Recovered(rom).baud \in wanted /\ wanted \subseteq Bauds
  <2>1. CASE rom = Blank
    BY <2>1, BlankSound DEF Init, Bauds
  <2>2. CASE rom # Blank
    BY <2>2 DEF Init, Config, Names, Recovered, Bauds, FF, FullPower
  <2>. QED  BY <2>1, <2>2
<1>2. TypeOK
  BY <1>1, BlankSound DEF Init, TypeOK, Pcs, Bauds, FF, Level
<1>. QED
  BY <1>1, <1>2 DEF Init, IInv, Settled, PressActsOnce, KeyIdleAtBoot, Booting,
     Loadable, Saving, Saved, Showing, Level

(* The parts of IInv that do not speak of the key, and those that do. *)
SpeedParts == Settled /\ Loadable /\ Saving /\ Saved /\ Showing
KeyParts == PressActsOnce /\ KeyIdleAtBoot

LEMMA Parts == IInv <=> TypeOK /\ SpeedParts /\ KeyParts
  BY DEF IInv, SpeedParts, KeyParts

LEMMA EraseKeeps == ASSUME IInv, Erase PROVE IInv'
<1>1. TypeOK'
  BY BlankSound DEF IInv, TypeOK, Erase, saveVars, keyVars, Pcs
<1>2. SpeedParts'
  BY DEF IInv, Erase, SpeedParts, Settled, Loadable, Saving, Saved, Showing, Damaged
<1>3. KeyParts'
  BY DEF IInv, Erase, keyVars, KeyParts, PressActsOnce, KeyIdleAtBoot, Booting
<1>. QED  BY <1>1, <1>2, <1>3, Parts DEF IInv, SpeedParts, KeyParts

LEMMA WriteKeeps == ASSUME IInv, Write PROVE IInv'
<1>1. TypeOK'
  BY DEF IInv, TypeOK, Write, keyVars, Pcs
<1>2. SpeedParts'
  BY DEF IInv, TypeOK, Write, SpeedParts, Settled, Loadable, Saving, Saved, Showing, Damaged
<1>3. KeyParts'
  BY DEF IInv, TypeOK, Write, keyVars, KeyParts, PressActsOnce, KeyIdleAtBoot, Booting
<1>. QED  BY <1>1, <1>2, <1>3 DEF IInv, SpeedParts, KeyParts

LEMMA LoadKeeps == ASSUME IInv, Load PROVE IInv'
<1>0. /\ cfg' \in Config /\ ~Damaged(cfg') /\ cfg'.baud \in wanted
      /\ ~Damaged(rom) => rom = cfg'
  BY RecoveredSound DEF IInv, TypeOK, Loadable, Load
<1>1. TypeOK'
  BY <1>0 DEF IInv, TypeOK, Load, SaveThen, keyVars, Pcs
<1>2. SpeedParts'
  BY <1>0 DEF IInv, Load, SaveThen, SpeedParts, Settled, Loadable, Saving, Saved, Showing, Damaged
<1>3. KeyParts'
  BY DEF IInv, Load, SaveThen, keyVars, KeyParts, PressActsOnce, KeyIdleAtBoot, Booting
<1>. QED  BY <1>1, <1>2, <1>3 DEF IInv, SpeedParts, KeyParts

LEMMA StartKeeps == ASSUME IInv, Start PROVE IInv'
<1>0. cfg.baud \in Bauds
  BY DEF IInv, TypeOK, Start, Saved, Damaged, Config, Bauds, FF
<1>1. TypeOK'
  BY <1>0 DEF IInv, TypeOK, Start, SwitchRegister, Pcs
<1>2. SpeedParts'
  BY DEF IInv, Start, SpeedParts, Settled, Loadable, Saving, Saved, Showing, Damaged
<1>3. KeyParts'
  BY DEF IInv, Start, KeyParts, PressActsOnce, KeyIdleAtBoot, Booting
<1>. QED  BY <1>1, <1>2, <1>3 DEF IInv, SpeedParts, KeyParts

LEMMA QuietKeeps == ASSUME IInv, StackQuiet PROVE IInv'
<1>1. TypeOK'
  BY DEF IInv, TypeOK, StackQuiet, saveVars, keyVars, Pcs
<1>2. SpeedParts'
  BY DEF IInv, StackQuiet, saveVars, SpeedParts, Settled, Loadable, Saving, Saved, Showing, Damaged
<1>3. KeyParts'
  BY DEF IInv, StackQuiet, keyVars, KeyParts, PressActsOnce, KeyIdleAtBoot, Booting
<1>. QED  BY <1>1, <1>2, <1>3 DEF IInv, SpeedParts, KeyParts

LEMMA CommandKeeps == ASSUME IInv, NEW b \in Bauds, Command(b) PROVE IInv'
<1>0. /\ cfg' \in Config /\ cfg'.baud = b /\ ~Damaged(cfg')
      /\ pc' = "show" => cfg' = cfg
  BY DEF IInv, TypeOK, Saved, Command, Config, Damaged, SaveThen, Bauds, FF
<1>1. TypeOK'
  BY <1>0 DEF IInv, TypeOK, Command, SaveThen, keyVars, Pcs
<1>2. SpeedParts'
  BY <1>0 DEF IInv, Command, SaveThen, SpeedParts, Settled, Loadable, Saving, Saved, Showing, Damaged
<1>3. KeyParts'
  BY DEF IInv, Command, SaveThen, keyVars, KeyParts, PressActsOnce, KeyIdleAtBoot, Booting
<1>. QED  BY <1>1, <1>2, <1>3 DEF IInv, SpeedParts, KeyParts

LEMMA ShowKeeps == ASSUME IInv, Show PROVE IInv'
<1>0. cfg.baud \in Bauds
  BY DEF IInv, TypeOK, Show, Saved, Damaged, Config, Bauds, FF
<1>1. TypeOK'
  BY <1>0 DEF IInv, TypeOK, Show, keyVars, Pcs
<1>2. SpeedParts'
  BY DEF IInv, Show, SpeedParts, Settled, Loadable, Saving, Saved, Showing, Damaged
<1>3. KeyParts'
  BY DEF IInv, Show, keyVars, KeyParts, PressActsOnce, KeyIdleAtBoot, Booting
<1>. QED  BY <1>1, <1>2, <1>3 DEF IInv, SpeedParts, KeyParts

LEMMA ProcessKeeps == ASSUME IInv, Process PROVE IInv'
<1>1. TypeOK'
  BY DEF IInv, TypeOK, PressActsOnce, Process, saveVars, Pcs
<1>2. SpeedParts'
  BY DEF IInv, Process, saveVars, SpeedParts, Settled, Loadable, Saving, Saved, Showing, Damaged
<1>3. KeyParts'
  BY DEF IInv, TypeOK, Process, KeyParts, PressActsOnce, KeyIdleAtBoot, Booting
<1>. QED  BY <1>1, <1>2, <1>3 DEF IInv, SpeedParts, KeyParts

(* The callback of the scan: a step of the speed, or the start of a press. *)
LEMMA ScanKeeps == ASSUME IInv, Scan PROVE IInv'
<1>0. value' \in Level /\ filter' \in [1 .. Bits -> Level]
  BY ScanTypes DEF IInv, TypeOK, Scan
<1>1. CASE KeyDown /\ value' = 0
  <2>1. TypeOK'
    BY <1>0, <1>1 DEF IInv, TypeOK, Scan, KeyDown, saveVars, Pcs
  <2>2. SpeedParts'
    BY <1>1 DEF IInv, Scan, KeyDown, saveVars, SpeedParts, Settled, Loadable, Saving, Saved, Showing, Damaged
  <2>3. KeyParts'
    BY <1>1 DEF IInv, Scan, KeyDown, KeyParts, PressActsOnce, KeyIdleAtBoot, Booting
  <2>. QED  BY <2>1, <2>2, <2>3 DEF IInv, SpeedParts, KeyParts
<1>2. CASE KeyUp /\ keyTick # "off"
  <2>0. /\ NextBaud \in Bauds
        /\ cfg' \in Config /\ cfg'.baud = NextBaud /\ ~Damaged(cfg')
    BY <1>2 DEF IInv, TypeOK, Scan, Saved, KeyUp, NextBaud, Config, Damaged, Bauds, FF
  <2>1. TypeOK'
    BY <1>0, <1>2, <2>0 DEF IInv, TypeOK, PressActsOnce, Scan, KeyUp, SaveThen, Pcs
  <2>2. SpeedParts'
    BY <1>2, <2>0 DEF IInv, Scan, KeyUp, SaveThen, SpeedParts, Settled, Loadable, Saving, Saved, Showing, Damaged
  <2>3. KeyParts'
    BY <1>2 DEF IInv, Scan, KeyUp, SaveThen, KeyParts, PressActsOnce, KeyIdleAtBoot, Booting
  <2>. QED  BY <2>1, <2>2, <2>3 DEF IInv, SpeedParts, KeyParts
<1>3. CASE KeyUp /\ keyTick = "off"
  <2>1. TypeOK'
    BY <1>0, <1>3 DEF IInv, TypeOK, Scan, KeyUp, saveVars, Pcs
  <2>2. SpeedParts'
    BY <1>3 DEF IInv, Scan, KeyUp, saveVars, SpeedParts, Settled, Loadable, Saving, Saved, Showing, Damaged
  <2>3. KeyParts'
    BY <1>3 DEF IInv, Scan, KeyUp, saveVars, KeyParts, PressActsOnce, KeyIdleAtBoot, Booting
  <2>. QED  BY <2>1, <2>2, <2>3 DEF IInv, SpeedParts, KeyParts
<1>4. CASE value' = value /\ pc' = "stack" /\ UNCHANGED <<ret, saveVars, keyTick, acts, wanted>>
  <2>1. TypeOK'
    BY <1>0, <1>4 DEF IInv, TypeOK, Scan, saveVars, Pcs
  <2>2. SpeedParts'
    BY <1>4 DEF IInv, Scan, saveVars, SpeedParts, Settled, Loadable, Saving, Saved, Showing, Damaged
  <2>3. KeyParts'
    BY <1>4 DEF IInv, Scan, KeyParts, PressActsOnce, KeyIdleAtBoot, Booting
  <2>. QED  BY <2>1, <2>2, <2>3 DEF IInv, SpeedParts, KeyParts
<1>. QED  BY <1>1, <1>2, <1>3, <1>4 DEF Scan

(* The world leaves pc and every copy of the speed alone. *)
LEMMA WorldKeeps ==
  ASSUME IInv, KeyMove \/ TickElapse \/ Connect \/ LinkDown
  PROVE  IInv'
<1>1. TypeOK'
  BY DEF IInv, TypeOK, KeyMove, PinMove, switchVars, TickElapse, Connect, LinkDown,
     saveVars, keyVars, Level
<1>2. SpeedParts'
  BY DEF IInv, KeyMove, TickElapse, Connect, LinkDown, saveVars, SpeedParts,
     Settled, Loadable, Saving, Saved, Showing, Damaged
<1>3. KeyParts'
  BY DEF IInv, KeyMove, PinMove, switchVars, TickElapse, Connect, LinkDown, keyVars,
     KeyParts, PressActsOnce, KeyIdleAtBoot, Booting
<1>. QED  BY <1>1, <1>2, <1>3 DEF IInv, SpeedParts, KeyParts

(* Power lost anywhere leaves a sector that loads to an allowed speed. *)
LEMMA PowerLossKeeps == ASSUME IInv, PowerLoss PROVE IInv'
<1>0. /\ rom' \in Config /\ Recovered(rom').baud \in wanted'
      /\ wanted' \subseteq Bauds
  <2>1. CASE pc = "erase"
    <3>1. rom' \in {rom, Blank} /\ wanted' = wanted \cup {DefaultBaud} \cup ({rom.baud} \cap Bauds)
      BY <2>1 DEF PowerLoss
    <3>2. Recovered(rom).baud = DefaultBaud \/ Recovered(rom).baud \in {rom.baud} \cap Bauds
      BY DEF IInv, TypeOK, Config, Recovered, Bauds, FF
    <3>. QED  BY <3>1, <3>2, BlankSound DEF IInv, TypeOK, Bauds
  <2>2. CASE pc = "write"
    <3>1. rom' \in Torn(cfg) /\ wanted' = wanted \cup {DefaultBaud}
      BY <2>2 DEF PowerLoss
    <3>2. cfg \in Config /\ cfg.baud \in wanted /\ wanted \subseteq Bauds
      BY <2>2 DEF IInv, TypeOK, Saving
    <3>. QED  BY <3>1, <3>2, TornSound DEF Bauds
  <2>3. CASE pc \notin {"erase", "write"}
    <3>1. rom' = rom /\ wanted' = wanted
      BY <2>3 DEF PowerLoss
    <3>2. Recovered(rom).baud \in wanted
      BY <2>3, RecoveredSound DEF IInv, TypeOK, Loadable, Saved
    <3>. QED  BY <3>1, <3>2 DEF IInv, TypeOK
  <2>. QED  BY <2>1, <2>2, <2>3
<1>1. TypeOK'
  BY <1>0, BlankSound DEF IInv, TypeOK, PowerLoss, SwitchInit, Level, FF, Pcs
<1>2. SpeedParts'
  BY <1>0 DEF PowerLoss, SpeedParts, Settled, Loadable, Saving, Saved, Showing
<1>3. KeyParts'
  BY DEF PowerLoss, SwitchInit, KeyParts, PressActsOnce, KeyIdleAtBoot
<1>. QED  BY <1>1, <1>2, <1>3 DEF IInv, SpeedParts, KeyParts

-----------------------------------------------------------------------------
LEMMA NextKeeps == ASSUME IInv, [Next]_vars PROVE IInv'
<1>1. CASE UNCHANGED vars
  <2>1. TypeOK'
    BY <1>1 DEF IInv, TypeOK, vars, saveVars, keyVars
  <2>2. SpeedParts'
    BY <1>1 DEF IInv, vars, saveVars, SpeedParts, Settled, Loadable, Saving, Saved, Showing, Damaged
  <2>3. KeyParts'
    BY <1>1 DEF IInv, vars, keyVars, KeyParts, PressActsOnce, KeyIdleAtBoot, Booting
  <2>. QED  BY <2>1, <2>2, <2>3 DEF IInv, SpeedParts, KeyParts
<1>2. CASE MainStep
  BY <1>2, LoadKeeps, StartKeeps, EraseKeeps, WriteKeeps, QuietKeeps, CommandKeeps,
     ShowKeeps, ProcessKeeps, ScanKeeps DEF MainStep
<1>3. CASE KeyMove \/ TickElapse \/ Connect \/ LinkDown
  BY <1>3, WorldKeeps
<1>4. CASE PowerLoss
  BY <1>4, PowerLossKeeps
<1>. QED  BY <1>1, <1>2, <1>3, <1>4 DEF Next

(* The strengthened invariant holds in every reachable state. *)
THEOREM Invariant == Spec => []IInv
<1>1. Init => IInv
  BY InitHolds
<1>2. IInv /\ [Next]_vars => IInv'
  BY NextKeeps
<1>. QED  BY <1>1, <1>2, PTL DEF Spec

(* Every variable keeps its type. *)
THEOREM TypeCorrect == Spec => []TypeOK
<1>1. IInv => TypeOK
  BY DEF IInv
<1>. QED  BY <1>1, Invariant, PTL

(* Flash, RAM, the UART and the LEDs agree on the speed whenever no        *)
(* handler is at work, however often power was lost before.                *)
THEOREM CopiesAgree == Spec => []Settled
<1>1. IInv => Settled
  BY DEF IInv
<1>. QED  BY <1>1, Invariant, PTL

(* The speed in use is the one last chosen or, after a save cut short, the *)
(* one before it or the default.                                           *)
THEOREM SpeedSurvives == Spec => []SpeedKept
<1>1. IInv => SpeedKept
  BY DEF IInv, SpeedKept, Saved
<1>. QED  BY <1>1, Invariant, PTL

(* No press of the key is answered twice, and none is forgotten. *)
THEOREM PressAnswered == Spec => []PressActsOnce
<1>1. IInv => PressActsOnce
  BY DEF IInv
<1>. QED  BY <1>1, Invariant, PTL
=============================================================================
