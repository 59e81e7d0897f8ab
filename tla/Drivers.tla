------------------------------ MODULE Drivers -------------------------------
(***************************************************************************)
(* Two parts of the tree that neither firmware calls: the soft timers of   *)
(* vendor/common and the key matrix of proj/drivers.  They have nothing in *)
(* common; a behaviour is one of one part, and the other stays as it is    *)
(* initially.  The key matrix comes three times: with a caller that reads, *)
(* holds back and discards at will and with one that goes on reading,      *)
(* where only a few contacts move, and with all contacts moving and nobody *)
(* scanning, for the ghost keys.                                           *)
(***************************************************************************)
EXTENDS Integers, FiniteSets

CONSTANTS
  Callbacks, Intervals, MaxTimers, Wrap, Quarter, Pre, Post, Near, Far, Gap,  \* of BltSoftTimer
  Drives, Scans, Fn, MaxKeys, Linger, BufNum, Modes, MaxChanges,              \* of Keyboard
  Bouncing,    \* bound: the contacts that move while a caller scans,
  MaxBounces   \* and how often

VARIABLES
  part,   \* which part is looked at
  clock, timer, wake, pc, i, now, changed, late, missed,
  closed, releaseCnt, retLast, pre, last, buff, wptr, rptr, event, unread, changes

Timer == INSTANCE BltSoftTimer
Matrix == INSTANCE Keyboard

ASSUME DriversAssumption ==
  /\ Timer!TimerAssumption /\ Matrix!KeyboardAssumption
  /\ Bouncing \subseteq Matrix!Position /\ MaxBounces \in Nat

Parts == {"timers", "keys", "reader", "contacts"}
timerVars == <<clock, timer, wake, pc, i, now, changed, late, missed>>
keyVars == <<closed, releaseCnt, retLast, pre, last, buff, wptr, rptr, event, unread, changes>>
vars == <<part, timerVars, keyVars>>

Init == part \in Parts /\ Timer!Init /\ Matrix!Init /\ (part # "timers" => clock = 0)

TimerStep(A) == part = "timers" /\ A /\ UNCHANGED <<part, keyVars>>
KeyStep(A) == part # "timers" /\ A /\ UNCHANGED <<part, timerVars>>

Few == closed' \subseteq Bouncing /\ changes' <= MaxBounces

(* A caller that filters, and reads whenever it scans. *)
Reads == part = "reader" /\ KeyStep(Matrix!ScanKey("read", TRUE))
Next ==
  \/ TimerStep(Timer!Next)
  \/ part = "keys" /\ KeyStep(Matrix!Next /\ Few)
  \/ part = "reader" /\ KeyStep((\E p \in Matrix!Position : Matrix!KeyMove(p)) /\ Few)
  \/ Reads
  \/ part = "contacts" /\ KeyStep(\E p \in Matrix!Position : Matrix!KeyMove(p))

Spec == Init /\ [][Next]_vars /\ WF_vars(Reads)

-----------------------------------------------------------------------------
(* The timers are triggered in the order of time, and a wake-up is the     *)
(* head's.                                                                 *)
TriggeredSequentially == Timer!TriggeredSequentially

(* An entry that is stepped over is served soon after. *)
SkipsBounded == Timer!SkipsBounded

(* A deadline that has passed is not forgotten, and no call ends in an error loop. *)
NeverForgotten == Timer!NeverForgotten

(* Ghost keys, and no other, are removed from every set of closed contacts *)
(* with all the ways current finds through them.                           *)
GhostsExact == part = "contacts" => Matrix!GhostsExact

(* No key is reported that nobody pressed. *)
NoPhantom == Matrix!NoPhantom

(* The buffer of scan results holds the newest changes in order. *)
BufferKeepsNewest == Matrix!BufferKeepsNewest

(* When the keys come to rest, the last event is what is pressed. *)
KeysFollow == part = "reader" => Matrix!KeysFollow

(* Fn in the middle of the matrix, and contacts around it: current finds a *)
(* way from each of the three lines to the others.                         *)
MiddleFn == <<1, 1>>
Stairs == {<<0, 0>>, <<1, 0>>, <<1, 1>>, <<2, 1>>, <<2, 2>>}
=============================================================================
