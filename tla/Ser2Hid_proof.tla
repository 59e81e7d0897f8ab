--------------------------- MODULE Ser2Hid_proof ----------------------------
(***************************************************************************)
(* The HID application, for every width of the filter and every set of     *)
(* keys: the debounced value of the key changes exactly when the filter    *)
(* has seen as many equal samples as it is wide, and no key stays down at  *)
(* the central.                                                            *)
(***************************************************************************)
EXTENDS Ser2Hid, TLAPS

(* The filter ends in exactly `steady` equal samples: the one before them, *)
(* if the filter is wider, is another level.                               *)
SwitchInv ==
  /\ pin \in Level /\ filter \in [1 .. Bits -> Level] /\ value \in Level
  /\ steady \in 1 .. Bits
  /\ \A k \in 1 .. Bits : k > Bits - steady => filter[k] = filter[Bits]
  /\ steady < Bits => filter[Bits - steady] # filter[Bits]

(* What the central goes by, when no report has been lost: no media key    *)
(* unless a frame pressed one, and no key at all unless a frame or the     *)
(* configuration key pressed one.  A central without a connection goes by  *)
(* nothing.                                                                *)
ReportsInv ==
  /\ link \in {"adv", "conn", "closing"} /\ lost \in BOOLEAN /\ held \in BOOLEAN
  /\ link = "adv" => kb = NoKeys /\ media = 0
  /\ ~lost /\ ~held => media = 0
  /\ ~lost /\ ~held /\ keyTick = "off" => kb = NoKeys

-----------------------------------------------------------------------------
(* The switch *)

LEMMA ScanKeeps ==
  ASSUME SwitchInv, Scan
  PROVE  SwitchInv' /\ (value' # value <=> steady' = Bits /\ pin # value)
<1>0. Bits \in Nat /\ Bits > 0 /\ Bits \in 1 .. Bits
  BY BitsAssumption
<1>1. /\ pin \in Level /\ filter \in [1 .. Bits -> Level] /\ value \in Level /\ steady \in 1 .. Bits
      /\ \A k \in 1 .. Bits : k > Bits - steady => filter[k] = filter[Bits]
      /\ steady < Bits => filter[Bits - steady] # filter[Bits]
  BY DEF SwitchInv
<1>2. /\ filter' = [k \in 1 .. Bits |-> IF k < Bits THEN filter[k + 1] ELSE pin]
      /\ steady' = IF pin # filter[Bits] THEN 1 ELSE IF steady < Bits THEN steady + 1 ELSE Bits
      /\ pin' = pin
      /\ \/ \E v \in Level : Steady(filter', v) /\ value' = v
         \/ ~(\E v \in Level : Steady(filter', v)) /\ value' = value
  BY DEF Scan, SwitchScan, Shifted
<1>3. /\ filter' \in [1 .. Bits -> Level]
      /\ filter'[Bits] = pin
      /\ \A k \in 1 .. Bits - 1 : filter'[k] = filter[k + 1] /\ k + 1 \in 1 .. Bits
  <2>1. \A k \in 1 .. Bits : (IF k < Bits THEN filter[k + 1] ELSE pin) \in Level
    BY <1>0, <1>1
  <2> QED
    BY <1>0, <1>1, <1>2, <2>1
<1>4. steady' \in 1 .. Bits
  BY <1>0, <1>1, <1>2
<1>5. ASSUME NEW k \in 1 .. Bits, k > Bits - steady'
      PROVE  filter'[k] = filter'[Bits]
  <2>1. CASE k = Bits
    BY <2>1
  <2>2. CASE k # Bits
    <3>1. pin = filter[Bits] /\ k \in 1 .. Bits - 1
      BY <1>0, <1>2, <1>5, <2>2
    <3>2. k + 1 \in 1 .. Bits /\ k + 1 > Bits - steady
      BY <1>0, <1>1, <1>2, <1>5, <3>1
    <3>3. filter[k + 1] = filter[Bits]
      BY <1>1, <3>2
    <3> QED
      BY <1>3, <3>1, <3>3
  <2> QED
    BY <2>1, <2>2
<1>6. ASSUME steady' < Bits
      PROVE  filter'[Bits - steady'] # filter'[Bits]
  <2>1. Bits - steady' \in 1 .. Bits - 1
    <3>1. \A n \in 1 .. Bits : n < Bits => Bits - n \in 1 .. Bits - 1
      BY <1>0
    <3> QED
      BY <1>4, <1>6, <3>1
  <2>2. filter'[Bits - steady'] = filter[Bits - steady' + 1]
    BY <1>3, <2>1
  <2>3. CASE pin # filter[Bits]
    <3>1. Bits - steady' + 1 = Bits
      BY <1>0, <1>2, <2>3
    <3> QED
      BY <1>3, <2>2, <2>3, <3>1
  <2>4. CASE pin = filter[Bits]
    <3>1. steady < Bits /\ Bits - steady' + 1 = Bits - steady
      BY <1>0, <1>1, <1>2, <1>6, <2>4
    <3> QED
      BY <1>1, <1>3, <2>2, <2>4, <3>1
  <2> QED
    BY <2>3, <2>4
<1>7. value' \in Level
  BY <1>1, <1>2
<1>8. ASSUME NEW v \in Level
      PROVE  Steady(filter', v) <=> v = pin /\ steady' = Bits
  <2>1. ASSUME Steady(filter', v) PROVE v = pin /\ steady' = Bits
    <3>1. \A k \in 1 .. Bits : filter'[k] = v
      BY <2>1 DEF Steady
    <3>2. ~(steady' < Bits)
      <4>0. \A n \in 1 .. Bits : n < Bits => Bits - n \in 1 .. Bits
        BY <1>0
      <4>1. steady' < Bits => Bits - steady' \in 1 .. Bits
        BY <1>4, <4>0
      <4> QED
        BY <1>0, <1>6, <3>1, <4>1
    <3> QED
      BY <1>0, <1>3, <1>4, <3>1, <3>2
  <2>2. ASSUME v = pin, steady' = Bits PROVE Steady(filter', v)
    <3>1. \A k \in 1 .. Bits : k > Bits - steady'
      BY <1>0, <2>2
    <3> QED
      BY <1>3, <1>5, <2>2, <3>1 DEF Steady
  <2> QED
    BY <2>1, <2>2
<1>9. value' # value <=> steady' = Bits /\ pin # value
  BY <1>1, <1>2, <1>8
<1> QED
  BY <1>1, <1>2, <1>3, <1>4, <1>5, <1>6, <1>7, <1>9 DEF SwitchInv

LEMMA SwitchStep ==
  ASSUME SwitchInv, [Next]_vars
  PROVE  /\ SwitchInv'
         /\ \/ value' # value <=> steady' = Bits /\ pin # value
            \/ UNCHANGED <<filter, value, steady>>
<1>1. CASE Scan
  BY <1>1, ScanKeeps
<1>2. CASE KeyMove
  <2>1. pin' \in Level
    BY <1>2 DEF KeyMove, PinMove, SwitchInv, Level
  <2> QED
    BY <1>2, <2>1 DEF KeyMove, PinMove, switchVars, SwitchInv
<1>3. CASE UNCHANGED contact
  BY <1>3 DEF contact, SwitchInv
<1>4. CASE ~Scan /\ ~KeyMove
  <2>1. UNCHANGED contact
    BY <1>4 DEF Next, MainStep, StackQuiet, NoFrame, KeyboardFrame, MediaFrame, ReleaseFrame, Process,
                TickElapse, Connect, LinkDown, vars, keyVars
  <2> QED
    BY <1>3, <2>1
<1> QED
  BY <1>1, <1>2, <1>4

LEMMA SwitchInit0 == Init => SwitchInv
<1> SUFFICES ASSUME Init PROVE SwitchInv
  OBVIOUS
<1>1. Bits \in Nat /\ Bits > 0 /\ Bits \in 1 .. Bits
  BY BitsAssumption
<1> QED
  BY <1>1 DEF Init, SwitchInv

(* The value of the switch changes exactly when as many samples in a row   *)
(* as the filter is wide have disagreed with it, for every width.          *)
THEOREM KeyDebounced == Spec => Debounced
<1>1. SwitchInv /\ [Next]_vars => SwitchInv'
  BY SwitchStep
<1>2. SwitchInv /\ [Next]_vars =>
        [value' # value <=> steady' = Bits /\ pin # value]_<<filter, value, steady>>
  BY SwitchStep
<1> QED  BY <1>1, <1>2, SwitchInit0, PTL DEF Spec, Debounced

-----------------------------------------------------------------------------
(* The reports *)

(* What sending does: the central goes by the new report, or the report is *)
(* lost and that is noted, or there is no central.                         *)
LEMMA Sent ==
  ASSUME NEW report, NEW code, Send(report, code), ReportsInv
  PROVE  /\ lost' \in BOOLEAN
         /\ ~lost' => /\ ~lost
                      /\ \/ kb' = report /\ media' = code /\ link # "adv"
                         \/ UNCHANGED <<kb, media>> /\ link = "adv"
         /\ link = "adv" => UNCHANGED hostVars
BY DEF Send, Connected, ReportsInv, hostVars

LEMMA KeyUpKeeps ==
  ASSUME ReportsInv, KeyUp, UNCHANGED held, link' \in {"adv", "conn", "closing"},
         link' = "adv" <=> link = "adv"
  PROVE  ReportsInv'
<1>1. CASE keyTick # "off"
  <2>1. Send(NoKeys, media)
    BY <1>1 DEF KeyUp
  <2> QED
    BY <2>1, Sent DEF ReportsInv, hostVars
<1>2. CASE keyTick = "off"
  BY <1>2 DEF KeyUp, ReportsInv, hostVars
<1> QED
  BY <1>1, <1>2

LEMMA ReportsStep ==
  ASSUME ReportsInv, [Next]_vars
  PROVE  ReportsInv'
<1>1. CASE \E k \in Keys : KeyboardFrame(k)
  <2>1. PICK k \in Keys : KeyboardFrame(k)
    BY <1>1
  <2>2. Send(FirstEight(k), media) /\ held' = TRUE /\ UNCHANGED <<keyTick, link>>
    BY <2>1 DEF KeyboardFrame, keyVars
  <2> QED
    BY <2>2, Sent DEF ReportsInv, hostVars
<1>2. CASE MediaFrame
  <2>1. Send(kb, 1) /\ held' = TRUE /\ UNCHANGED <<keyTick, link>>
    BY <1>2 DEF MediaFrame, keyVars
  <2> QED
    BY <2>1, Sent DEF ReportsInv, hostVars
<1>3. CASE ReleaseFrame
  <2>1. Send(NoKeys, 0) /\ held' = FALSE /\ UNCHANGED <<keyTick, link>>
    BY <1>3 DEF ReleaseFrame, keyVars
  <2> QED
    BY <2>1, Sent DEF ReportsInv, hostVars
<1>4. CASE Process
  <2>1. CASE keyTick = "expired"
    <3>1. KeyUp /\ UNCHANGED held /\ link' = IF link = "conn" THEN "closing" ELSE link
      BY <1>4, <2>1 DEF Process
    <3>2. link' \in {"adv", "conn", "closing"} /\ (link' = "adv" <=> link = "adv")
      BY <3>1 DEF ReportsInv
    <3> QED
      BY <3>1, <3>2, KeyUpKeeps
  <2>2. CASE keyTick # "expired"
    BY <1>4, <2>2 DEF Process, ReportsInv, hostVars
  <2> QED
    BY <2>1, <2>2
<1>5. CASE Scan
  <2>1. UNCHANGED <<link, held>>
    BY <1>5 DEF Scan
  <2>2. CASE UNCHANGED <<keyTick, hostVars>>
    BY <2>1, <2>2 DEF ReportsInv, hostVars
  <2>3. CASE KeyDown
    <3>1. keyTick' = "running" /\ Send([NoKeys EXCEPT !.keys = {CfgKey}], media)
      BY <2>3 DEF KeyDown
    <3> QED
      BY <2>1, <3>1, Sent DEF ReportsInv, hostVars
  <2>4. CASE KeyUp
    <3>1. link' \in {"adv", "conn", "closing"} /\ (link' = "adv" <=> link = "adv")
      BY <2>1 DEF ReportsInv
    <3> QED
      BY <2>1, <2>4, <3>1, KeyUpKeeps
  <2> QED
    BY <1>5, <2>2, <2>3, <2>4 DEF Scan
<1>6. CASE StackQuiet \/ NoFrame \/ KeyMove
  BY <1>6 DEF StackQuiet, NoFrame, KeyMove, keyVars, hostVars, ReportsInv
<1>7. CASE TickElapse
  BY <1>7 DEF TickElapse, hostVars, ReportsInv
<1>8. CASE Connect
  BY <1>8 DEF Connect, keyVars, hostVars, ReportsInv
<1>9. CASE LinkDown
  BY <1>9 DEF LinkDown, keyVars, ReportsInv
<1>10. CASE UNCHANGED vars
  BY <1>10 DEF vars, keyVars, hostVars, ReportsInv
<1> QED
  BY <1>1, <1>2, <1>3, <1>4, <1>5, <1>6, <1>7, <1>8, <1>9, <1>10 DEF Next, MainStep

(* With the key up and everything released that frames have pressed, the   *)
(* central holds nothing, unless a report was lost for want of a buffer.   *)
THEOREM NoneStuck == Spec => []NothingStuck
<1>1. Init => ReportsInv
  BY DEF Init, ReportsInv
<1>2. ReportsInv /\ [Next]_vars => ReportsInv'
  BY ReportsStep
<1>3. ReportsInv => NothingStuck
  BY DEF ReportsInv, NothingStuck
<1> QED  BY <1>1, <1>2, <1>3, PTL DEF Spec
=============================================================================
