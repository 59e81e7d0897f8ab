----------------------------- MODULE BleDrv_proof -----------------------------
(***************************************************************************)
(* The address of the device and its LED, for every length of an address   *)
(* and of the word that marks it, and every number of losses of power.     *)
(***************************************************************************)
EXTENDS BleDrv, TLAPS

(* What programming leaves of an erased address: all of the new one, or,   *)
(* cut short, something that begins with a blank word only if it is blank  *)
(* altogether.                                                             *)
LEMMA Programming ==
  ASSUME NEW m \in Drawn, NEW n \in 0 .. MacLen
  PROVE  /\ Programmed(NoMac, m, n) \in Mac
         /\ n = MacLen => Programmed(NoMac, m, n) = m
         /\ WordBlank(Programmed(NoMac, m, n)) => Programmed(NoMac, m, n) = NoMac
<1> DEFINE p == Programmed(NoMac, m, n)
<1>1. m \in [1 .. MacLen -> Byte] /\ ~WordBlank(m) /\ MacLen \in Nat /\ WordLen \in 1 .. MacLen
  BY MacAssumption DEF Drawn, Mac
<1>2. \A k \in 1 .. MacLen : Erased \cap m[k] = m[k]
  BY <1>1 DEF Byte
<1>3. p = [k \in 1 .. MacLen |-> IF k <= n THEN m[k] ELSE Erased]
  BY <1>2 DEF Programmed, NoMac
<1>4. p \in Mac
  BY <1>1, <1>3 DEF Mac, Byte
<1>5. n = MacLen => p = m
  BY <1>1, <1>3
<1>6. ASSUME WordBlank(p) PROVE p = NoMac
  <2>1. PICK k \in 1 .. WordLen : m[k] # Erased
    BY <1>1 DEF WordBlank
  <2>2. k \in 1 .. MacLen /\ p[k] = Erased
    BY <1>1, <1>6, <2>1 DEF WordBlank
  <2>3. ~(k <= n)
    BY <1>3, <2>1, <2>2
  <2>4. \A j \in 1 .. n : j \in 1 .. WordLen
    BY <1>1, <2>1, <2>3
  <2>5. \A j \in 1 .. MacLen : p[j] = Erased
    BY <1>3, <1>6, <2>4 DEF WordBlank
  <2> QED
    BY <1>3, <2>5 DEF NoMac
<1> QED
  BY <1>4, <1>5, <1>6

LEMMA NoMacBlank == NoMac \in Mac /\ WordBlank(NoMac)
  BY MacAssumption DEF NoMac, Mac, Byte, WordBlank

LEMMA InitHolds == Init => IInv
  BY NoMacBlank DEF Init, IInv, AddressSound, LedSound

(* The boot reads the address or draws one, writes it, and goes on air.    *)
LEMMA BootKeeps == IInv /\ Boot => AddressSound'
<1> SUFFICES ASSUME IInv, Boot PROVE AddressSound'
  OBVIOUS
<1>1. CASE InitMac
  <2>1. Drawn \subseteq Mac
    BY DEF Drawn
  <2>2. UNCHANGED <<flash, used>>
    BY <1>1 DEF InitMac
  <2>3. CASE WordBlank(flash) /\ addr' \in Drawn /\ pc' = "write"
    BY <2>1, <2>2, <2>3 DEF IInv, AddressSound
  <2>4. CASE ~WordBlank(flash) /\ addr' = flash /\ pc' = "start"
    BY <2>2, <2>4, NoMacBlank DEF IInv, AddressSound
  <2> QED
    BY <1>1, <2>3, <2>4 DEF InitMac
<1>2. CASE WriteMac
  <2>1. flash = NoMac /\ addr \in Drawn /\ MacLen \in 0 .. MacLen
    BY <1>2, MacAssumption DEF WriteMac, IInv, AddressSound
  <2>2. flash' = addr /\ UNCHANGED <<addr, used>> /\ pc' = "start"
    BY <1>2, <2>1, Programming DEF WriteMac
  <2>3. used = NoMac
    BY <2>1 DEF IInv, AddressSound
  <2>4. ~WordBlank(addr)
    BY <2>1 DEF Drawn
  <2> QED
    BY <2>2, <2>3, <2>4, NoMacBlank DEF IInv, AddressSound
<1>3. CASE StartAdvertis
  BY <1>3 DEF StartAdvertis, IInv, AddressSound
<1> QED
  BY <1>1, <1>2, <1>3 DEF Boot

LEMMA BootLed == IInv /\ Boot => LedSound'
<1> SUFFICES ASSUME IInv, Boot PROVE LedSound'
  OBVIOUS
<1>1. CASE InitMac \/ WriteMac
  BY <1>1 DEF InitMac, WriteMac, ledVars, IInv, LedSound
<1>2. CASE StartAdvertis
  <2>1. /\ link' = "adv" /\ pc' = "loop"
        /\ repeatCount' = 1 /\ onTime' = Half /\ offTime' = Half
    BY <1>2, MacAssumption DEF StartAdvertis, LedSetup, ShineSlow, Config, Steady
  <2> QED
    BY <2>1 DEF LedSound
<1> QED
  BY <1>1, <1>2 DEF Boot

(* Whatever part of the address has been programmed when power is lost.    *)
LEMMA LossKeeps == IInv /\ PowerLoss => IInv'
<1> SUFFICES ASSUME IInv, PowerLoss PROVE IInv'
  OBVIOUS
<1>1. pc' = "mac" /\ addr' = NoMac /\ link' = "off" /\ used' = used
  BY DEF PowerLoss
<1>2. LedSound'
  BY <1>1 DEF LedSound
<1>3. AddressSound'
  <2>1. CASE pc = "write"
    <3>1. flash = NoMac /\ addr \in Drawn /\ used = NoMac
      BY <2>1 DEF IInv, AddressSound
    <3>2. PICK n \in 0 .. MacLen : flash' = Programmed(flash, addr, n)
      BY <2>1 DEF PowerLoss
    <3>3. flash' \in Mac /\ (WordBlank(flash') => flash' = NoMac)
      BY <3>1, <3>2, Programming
    <3> QED
      BY <1>1, <3>1, <3>3, NoMacBlank DEF AddressSound
  <2>2. CASE pc # "write"
    BY <1>1, <2>2, NoMacBlank DEF PowerLoss, IInv, AddressSound
  <2> QED
    BY <2>1, <2>2
<1> QED
  BY <1>2, <1>3 DEF IInv

(* The callbacks of the stack *)
LEMMA StackKeeps == IInv /\ (Stack \/ ConnectCb \/ Disconnect \/ TerminateCb) => IInv'
<1> SUFFICES ASSUME IInv, Stack \/ ConnectCb \/ Disconnect \/ TerminateCb PROVE IInv'
  OBVIOUS
<1> USE DEF IInv
<1>1. UNCHANGED <<pc, flash, addr, used>>
  BY DEF Stack, AdvEnds, AdvDurationTimeoutCb, ConnectCb, Disconnect, TerminateCb
<1>2. AddressSound'
  BY <1>1 DEF AddressSound
<1>3. CASE Stack \/ Disconnect
  BY <1>2, <1>3 DEF Stack, AdvEnds, AdvDurationTimeoutCb, Disconnect, ledVars, LedSound
<1>4. CASE ConnectCb
  <2>1. pc' = "loop" /\ link' = "conn"
    BY <1>4 DEF ConnectCb
  <2>2. LedSetup([on |-> 1, off |-> 0, count |-> 255])
    BY <1>4 DEF ConnectCb, LongOn, Config, Steady
  <2>3. repeatCount' = 0 /\ isOn' = (1 # 0)
    BY <2>2 DEF LedSetup, Steady
  <2>4. 1 # 0
    OBVIOUS
  <2>5. isOn'
    BY <2>3, <2>4
  <2> QED
    BY <1>2, <2>1, <2>3, <2>5 DEF LedSound
<1>5. CASE TerminateCb
  <2>1. pc' = "loop"
    BY <1>1, <1>5 DEF TerminateCb, LedSound
  <2>2. link' = "adv" /\ repeatCount' = 1 /\ onTime' = Half /\ offTime' = Half
    BY <1>5, MacAssumption DEF TerminateCb, LedSetup, ShineSlow, Config, Steady
  <2> QED
    BY <1>2, <2>1, <2>2 DEF LedSound
<1> QED
  BY <1>3, <1>4, <1>5

(* A pass of led_proc leaves a steady LED alone and a blinking one         *)
(* blinking.                                                               *)
LEMMA LoopKeeps == IInv /\ (LedPass \/ Clock \/ UNCHANGED vars) => IInv'
<1> SUFFICES ASSUME IInv, LedPass \/ Clock \/ UNCHANGED vars PROVE IInv'
  OBVIOUS
<1> USE DEF IInv
<1>1. UNCHANGED driverVars
  BY DEF LedPass, Clock, vars
<1>2. AddressSound'
  BY <1>1 DEF driverVars, AddressSound
<1>3. CASE Clock \/ UNCHANGED vars
  BY <1>2, <1>3 DEF Clock, Tick, vars, driverVars, ledVars, LedSound
<1>4. CASE LedPass
  <2>1. pc = "loop" /\ UNCHANGED <<pc, link, onTime, offTime>>
    BY <1>1, <1>4 DEF LedPass, LedProcess, driverVars
  <2>2. CASE link \in {"conn", "closing"}
    <3>1. repeatCount = 0 /\ isOn
      BY <2>1, <2>2 DEF LedSound
    <3>2. UNCHANGED <<isOn, repeatCount>>
      BY <1>4, <3>1 DEF LedPass, LedProcess
    <3> QED
      BY <1>2, <2>1, <3>2 DEF LedSound
  <2>3. CASE link \notin {"conn", "closing"}
    <3>1. repeatCount = 1 /\ onTime = Half /\ offTime = Half
      BY <2>1, <2>3 DEF LedSound
    <3>2. UNCHANGED repeatCount
      BY <1>4, <3>1, MacAssumption DEF LedPass, LedProcess
    <3> QED
      BY <1>2, <2>1, <2>3, <3>1, <3>2 DEF LedSound
  <2> QED
    BY <2>2, <2>3
<1> QED
  BY <1>3, <1>4

-----------------------------------------------------------------------------
(* The address in flash and the state of the LED hold what the two         *)
(* properties need, in every reachable state.                              *)
THEOREM Invariant == Spec => []IInv
<1>1. Init => IInv
  BY InitHolds
<1>2. IInv /\ [Next]_vars => IInv'
  <2> SUFFICES ASSUME IInv, [Next]_vars PROVE IInv'
    OBVIOUS
  <2>1. CASE Boot
    BY <2>1, BootKeeps, BootLed DEF IInv
  <2> QED
    BY <2>1, LossKeeps, StackKeeps, LoopKeeps DEF Next
<1> QED  BY <1>1, <1>2, PTL DEF Spec

(* The device goes on air with one address for ever, wherever power was    *)
(* lost, also in the middle of writing it, for every length of an address. *)
THEOREM AddressNeverChanges == Spec => []AddressKept
<1>1. IInv => AddressKept
  BY DEF IInv, AddressSound, AddressKept
<1> QED  BY <1>1, Invariant, PTL

(* The LED tells whether a central is connected, for every clock and every *)
(* period.                                                                 *)
THEOREM LinkShown == Spec => []LedShowsLink
<1>1. IInv => LedShowsLink
  BY DEF IInv, LedSound, LedShowsLink
<1> QED  BY <1>1, Invariant, PTL

-----------------------------------------------------------------------------
(* Remainders: a number that wrapped may be added to as if it had not, and *)
(* whole turns of the clock are not seen.                                  *)
LEMMA ModUnique ==
  ASSUME NEW m \in Nat, m > 0, NEW a \in Int, NEW k \in Int, NEW b \in 0 .. m - 1,
         a = k * m + b
  PROVE  a % m = b
<1>1. a % m \in 0 .. m - 1 /\ a = m * (a \div m) + (a % m) /\ a \div m \in Int
  OBVIOUS
<1> DEFINE d == k - a \div m
<1>2. d \in Int
  BY <1>1
<1>3. d * m = (a % m) - b
  BY <1>1, <1>2
<1>4. d = 0
  <2>1. CASE d >= 1
    <3>1. d * m >= m
      BY <2>1, <1>2
    <3> QED BY <3>1, <1>3, <1>1
  <2>2. CASE d <= -1
    <3>1. d * m <= -m
      BY <2>2, <1>2
    <3> QED BY <3>1, <1>3, <1>1
  <2> QED BY <2>1, <2>2, <1>2
<1> QED BY <1>3, <1>4, <1>1

LEMMA ModTurns ==
  ASSUME NEW m \in Nat, m > 0, NEW a \in Int, NEW t \in Int
  PROVE  (a + t * m) % m = a % m
<1>1. PICK q \in Int, r \in 0 .. m - 1 : a = q * m + r
  <2>1. a % m \in 0 .. m - 1 /\ a = m * (a \div m) + (a % m) /\ a \div m \in Int
    OBVIOUS
  <2> QED BY <2>1
<1>2. a % m = r
  BY <1>1, ModUnique
<1>3. a + t * m = (q + t) * m + r /\ q + t \in Int /\ a + t * m \in Int
  BY <1>1
<1>4. (a + t * m) % m = r
  BY <1>3, <1>1, ModUnique
<1> QED
  BY <1>2, <1>4

LEMMA ModPlus ==
  ASSUME NEW m \in Nat, m > 0, NEW a \in Int, NEW b \in Int
  PROVE  ((a % m) + b) % m = (a + b) % m
<1> DEFINE q == a \div m
           r == a % m
<1>1. q \in Int /\ r \in Int /\ a = m * q + r
  OBVIOUS
<1> HIDE DEF q, r
<1>2. a + b = (r + b) + q * m /\ r + b \in Int
  BY <1>1
<1>3. ((r + b) + q * m) % m = (r + b) % m
  BY <1>1, <1>2, ModTurns
<1> QED
  BY <1>2, <1>3 DEF r

(* The phase that begins half a period later. *)
LEMMA NextPhase ==
  ASSUME NEW e \in Int, NEW n \in 0 .. 2 * Wrap - 1,
         NEW t, t = (e + n * Half) % Wrap
  PROVE  \E k \in 0 .. 2 * Wrap - 1 :
           /\ (t + Half) % Wrap = (e + k * Half) % Wrap
           /\ k % 2 = 0 <=> n % 2 # 0
<1>1. Wrap \in Nat /\ Wrap > 0 /\ Half \in Nat /\ Half \in Int
  BY LedAssumption, MacAssumption
<1> DEFINE x == n * Half
<1>2. x \in Int /\ e + x \in Int /\ (n + 1) * Half = x + Half
  BY <1>1
<1> HIDE DEF x
<1>3. (((e + x) % Wrap) + Half) % Wrap = (e + x + Half) % Wrap
  <2>1. \A a \in Int : ((a % Wrap) + Half) % Wrap = (a + Half) % Wrap
    BY <1>1, ModPlus, Zenon
  <2> QED
    BY <1>2, <2>1
<1>4. CASE n < 2 * Wrap - 1
  <2>1. n + 1 \in 0 .. 2 * Wrap - 1 /\ ((n + 1) % 2 = 0 <=> n % 2 # 0)
    BY <1>1, <1>4
  <2>2. e + x + Half = e + (n + 1) * Half
    BY <1>1, <1>2
  <2> QED
    BY <1>3, <2>1, <2>2 DEF x
<1>5. CASE n = 2 * Wrap - 1
  <2>1. 0 \in 0 .. 2 * Wrap - 1 /\ 0 % 2 = 0 /\ n % 2 # 0
    BY <1>1, <1>5
  <2>2. e + x + Half = e + (2 * Half) * Wrap
    <3>1. (n + 1) * Half = (2 * Wrap) * Half
      BY <1>1, <1>5
    <3>2. (2 * Wrap) * Half = (2 * Half) * Wrap
      BY <1>1
    <3> QED
      BY <1>1, <1>2, <3>1, <3>2
  <2>3. (e + (2 * Half) * Wrap) % Wrap = e % Wrap
    BY <1>1, ModTurns, 2 * Half \in Int
  <2>4. e + 0 * Half = e
    BY <1>1
  <2> QED
    BY <1>3, <2>1, <2>2, <2>3, <2>4 DEF x
<1> QED
  BY <1>1, <1>4, <1>5

(* The LED was set up at a tick of the clock. *)
PhaseInv == clock \in 0 .. Wrap - 1 /\ epoch \in Int /\ InPhase

(* Setting up the LED starts a phase that is lit. *)
LEMMA SetupInPhase ==
  ASSUME PhaseInv, LedSetup(ShineSlow)
  PROVE  epoch' \in Int /\ InPhase'
<1>1. Wrap \in Nat /\ Wrap > 0 /\ Half \in Nat /\ Half # 0
  BY LedAssumption, MacAssumption
<1>2. startTick' = clock /\ epoch' = clock /\ isOn' = (Half # 0)
  BY <1>1 DEF LedSetup, ShineSlow, Config, Steady
<1>3. isOn'
  BY <1>1, <1>2
<1>4. clock \in Int /\ 0 * Half = 0 /\ clock = (clock + 0 * Half) % Wrap
  <2>1. clock % Wrap = clock
    BY <1>1, ModUnique, clock = 0 * Wrap + clock DEF PhaseInv
  <2> QED
    BY <1>1, <2>1 DEF PhaseInv
<1>5. 0 \in 0 .. 2 * Wrap - 1 /\ 0 % 2 = 0
  BY <1>1
<1> QED
  BY <1>2, <1>3, <1>4, <1>5 DEF InPhase

LEMMA PassInPhase ==
  ASSUME IInv, PhaseInv, LedPass
  PROVE  InPhase'
<1>1. pc = "loop" /\ epoch' = epoch
  BY DEF LedPass, LedProcess
<1> SUFFICES ASSUME repeatCount' # 0
             PROVE  \E k \in 0 .. 2 * Wrap - 1 :
                      /\ startTick' = (epoch + k * Half) % Wrap
                      /\ isOn' <=> k % 2 = 0
  BY <1>1 DEF InPhase
<1>2. repeatCount # 0
  BY DEF LedPass, LedProcess
<1>3. onTime = Half /\ offTime = Half /\ Half # 0
  BY <1>1, <1>2, MacAssumption DEF IInv, LedSound
<1>4. PICK n \in 0 .. 2 * Wrap - 1 : startTick = (epoch + n * Half) % Wrap /\ (isOn <=> n % 2 = 0)
  BY <1>2 DEF PhaseInv, InPhase
<1>5. CASE UNCHANGED <<isOn, startTick>>
  BY <1>4, <1>5
<1>6. CASE startTick' = (startTick + Half) % Wrap /\ (isOn' <=> ~isOn)
  <2>1. PICK k \in 0 .. 2 * Wrap - 1 :
          /\ (startTick + Half) % Wrap = (epoch + k * Half) % Wrap
          /\ k % 2 = 0 <=> n % 2 # 0
    <3>1. epoch \in Int
      BY DEF PhaseInv
    <3>2. n \in 0 .. 2 * Wrap - 1 /\ startTick = (epoch + n * Half) % Wrap
      BY <1>4
    <3> QED
      BY <3>1, <3>2, NextPhase, ZenonT(90)
  <2>2. startTick' = (epoch + k * Half) % Wrap
    BY <1>6, <2>1
  <2>3. isOn' <=> k % 2 = 0
    BY <1>4, <1>6, <2>1
  <2> QED
    BY <2>2, <2>3
<1>7. LedProcess
  BY DEF LedPass
<1>8. CASE isOn /\ isOn' = FALSE /\ offTime # 0 /\ startTick' = (startTick + onTime) % Wrap
  BY <1>3, <1>6, <1>8
<1>9. CASE ~isOn /\ isOn' = TRUE /\ startTick' = (startTick + offTime) % Wrap
  BY <1>3, <1>6, <1>9
<1> QED
  BY <1>3, <1>5, <1>7, <1>8, <1>9 DEF LedProcess

LEMMA PhaseStep == IInv /\ PhaseInv /\ [Next]_vars => PhaseInv'
<1> SUFFICES ASSUME IInv, PhaseInv, [Next]_vars PROVE PhaseInv'
  OBVIOUS
<1>1. Wrap \in Nat /\ Wrap > 0
  BY LedAssumption
<1>2. CASE InitMac \/ WriteMac \/ Stack \/ Disconnect \/ UNCHANGED vars
  BY <1>2 DEF InitMac, WriteMac, Stack, AdvEnds, AdvDurationTimeoutCb, Disconnect, vars, clockVars,
     ledVars, PhaseInv, InPhase
<1>3. CASE StartAdvertis \/ TerminateCb
  BY <1>3, SetupInPhase DEF StartAdvertis, TerminateCb, clockVars, PhaseInv
<1>4. CASE ConnectCb
  BY <1>4 DEF ConnectCb, LedSetup, LongOn, Config, Steady, clockVars, PhaseInv, InPhase
<1>5. CASE LedPass
  BY <1>5, PassInPhase DEF LedPass, LedProcess, PhaseInv
<1>6. CASE Clock
  <2>1. (clock + 1) % Wrap \in 0 .. Wrap - 1
    BY <1>1 DEF PhaseInv
  <2> QED
    BY <1>6, <2>1 DEF Clock, Tick, ledVars, PhaseInv, InPhase
<1>7. CASE PowerLoss
  BY <1>7 DEF PowerLoss, PhaseInv, InPhase
<1> QED
  BY <1>2, <1>3, <1>4, <1>5, <1>6, <1>7 DEF Next, Boot

(* The blinking does not drift, for every range of the clock, whether or   *)
(* not it is a multiple of the period.                                     *)
THEOREM NoDrift == Spec => []InPhase
<1>1. Init => PhaseInv
  BY LedAssumption DEF Init, LedInit, PhaseInv, InPhase
<1>2. IInv /\ PhaseInv /\ [Next]_vars => PhaseInv'
  BY PhaseStep
<1>3. PhaseInv => InPhase
  BY DEF PhaseInv
<1> QED  BY <1>1, <1>2, <1>3, Invariant, PTL DEF Spec
=============================================================================
