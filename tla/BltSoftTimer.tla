---------------------------- MODULE BltSoftTimer ----------------------------
(***************************************************************************)
(* vendor/common/blt_soft_timer.c: a table of callbacks sorted by the tick *)
(* they are due at, on a 32-bit clock that wraps around.  The main loop    *)
(* polls the table; a pass fires what is due and then sets the wake-up of  *)
(* the stack from the head.  Callbacks take time, so a pass is a loop of   *)
(* steps (pc, i) that works with the tick it read at its start (now).      *)
(***************************************************************************)
EXTENDS Integers, SequencesExt

CONSTANTS
  Callbacks,   \* the callbacks of the application
  Intervals,   \* bound: the intervals they ask for, in ticks
  MaxTimers,   \* MAX_TIMER_NUM
  Wrap,        \* 2^32: the clock counts modulo this
  Quarter,     \* BIT(30) of TIME_COMPARE_BIG
  Pre, Post,   \* BLT_TIMER_SAFE_MARGIN_PRE and _POST
  Near, Far,   \* 3000 and 8000 ms: how far ahead a wake-up is set
  Gap          \* bound: ticks between the starts of two passes

(* Assumption; stated where this module is instantiated.  The passes come  *)
(* so often that a timer still counts as due when it was passed over once  *)
(* for each of the others, and intervals are longer than the margin and,   *)
(* with what a timer may be late, below a quarter of the clock's range:    *)
(* beyond it the comparison of ticks says nothing.                         *)
TimerAssumption ==
  /\ MaxTimers \in Nat \ {0} /\ Wrap \in Nat \ {0}
  /\ Quarter \in Nat /\ Pre \in Nat /\ Post \in Nat /\ Near \in Nat /\ Far \in Nat /\ Gap \in Nat
  /\ 4 * Quarter <= Wrap /\ Post <= Quarter
  /\ (MaxTimers + 1) * Gap <= Post
  /\ Intervals \subseteq Pre + 1 .. Quarter - 1
  /\ \A d \in Intervals : d + (MaxTimers + 1) * Gap <= Quarter + Pre

VARIABLES
  clock,    \* clock_time()
  timer,    \* blt_timer: timer[0 .. currentNum-1]
  wake,     \* the tick given to bls_pm_setAppWakeupLowPower, Off when disabled
  pc,       \* "idle", "fire" within a pass, "hung" in a while(1) of an error
  i, now, changed,   \* locals of blt_soft_timer_process, i from 1
  late,     \* ticks since the last pass began
  missed    \* history: passes in a row that left a callback unfired though due

vars == <<clock, timer, wake, pc, i, now, changed, late, missed>>

Off == -1
Ticks == 0 .. Wrap - 1
Entry == [cb : Callbacks, t : Ticks, interval : Intervals]

Until(t, from) == (t - from) % Wrap
Expired(t, at) == (at + Pre - t) % Wrap < Post
InTable(c) == \E k \in 1 .. Len(timer) : timer[k].cb = c
Armed(e, at, d) == [cb |-> e, t |-> (at + d) % Wrap, interval |-> d]

-----------------------------------------------------------------------------
(* blt_soft_timer_sort: bubble sort by the circular order *)

(* Wrong on purpose: ticks are compared as if the clock never wrapped. *)
BigUnsigned(t1, t2) == t1 >= t2

Big(t1, t2) == (t1 - t2) % Wrap < Quarter

Bubble(s, j) ==
  IF Big(s[j].t, s[j + 1].t) THEN [s EXCEPT ![j] = s[j + 1], ![j + 1] = s[j]] ELSE s

(* The first m comparisons of the inner loop, and then the outer one.      *)
Sweep(s, m) ==
  LET after[j \in 0 .. m] == IF j = 0 THEN s ELSE Bubble(after[j - 1], j)
  IN after[m]

Sort(s) ==
  LET swept[k \in 0 .. Len(s) - 1] == IF k = 0 THEN s ELSE Sweep(swept[k - 1], Len(s) - k)
  IN swept[Len(s) - 1]

SortHangs(s) == Len(s) \notin 1 .. MaxTimers

Init ==
  /\ clock \in Ticks /\ timer = <<>> /\ wake = Off
  /\ pc = "idle" /\ i = 1 /\ now = clock /\ changed = FALSE
  /\ late = 0 /\ missed = [c \in Callbacks |-> 0]

Tick ==
  /\ pc # "hung" /\ late < Gap
  /\ clock' = (clock + 1) % Wrap
  /\ late' = late + 1
  /\ UNCHANGED <<timer, wake, pc, i, now, changed, missed>>

(* blt_soft_timer_add; a full table is left alone *)
Add(c, d) ==
  /\ pc = "idle" /\ ~InTable(c) /\ Len(timer) < MaxTimers
  /\ LET more == Append(timer, Armed(c, clock, d))
     IN IF SortHangs(more) THEN pc' = "hung" /\ UNCHANGED <<timer, wake>>
        ELSE timer' = Sort(more) /\ wake' = timer'[1].t /\ UNCHANGED pc
  /\ UNCHANGED <<clock, i, now, changed, late, missed>>

(* blt_soft_timer_delete: when the head goes the wake-up follows the new   *)
(* one.  An emptied table leaves its last entry in slot 0, and that is     *)
(* what the wake-up is then set from.                                      *)
Delete(c) ==
  /\ pc = "idle" /\ InTable(c)
  /\ LET k == CHOOSE k \in 1 .. Len(timer) : timer[k].cb = c
         head == IF Len(timer) > 1 THEN timer[2].t ELSE timer[1].t
     IN /\ timer' = RemoveAt(timer, k)
        /\ wake' = IF k # 1 THEN wake ELSE IF Until(head, clock) < Near THEN head ELSE Off
  /\ missed' = [missed EXCEPT ![c] = 0]
  /\ UNCHANGED <<clock, pc, i, now, changed, late>>

-----------------------------------------------------------------------------
(* blt_soft_timer_process *)

(* what the pass that ends with table s leaves unfired, counted up to MaxTimers *)
Counted(s, at) ==
  [c \in Callbacks |->
     IF ~\E k \in 1 .. Len(s) : s[k].cb = c /\ Expired(s[k].t, at) THEN 0
     ELSE IF missed[c] < MaxTimers THEN missed[c] + 1 ELSE MaxTimers]

Begin ==
  /\ pc = "idle"
  /\ late' = 0 /\ now' = clock
  /\ \/ /\ timer = <<>>
        /\ wake' = Off
        /\ UNCHANGED <<pc, i, changed, missed>>
     \/ /\ timer # <<>> /\ ~Expired(timer[1].t, clock)
        /\ missed' = Counted(timer, clock)
        /\ UNCHANGED <<pc, i, changed, wake>>
     \/ /\ timer # <<>> /\ Expired(timer[1].t, clock)
        /\ pc' = "fire" /\ i' = 1 /\ changed' = FALSE
        /\ UNCHANGED <<wake, missed>>
  /\ UNCHANGED <<clock, timer>>

InPass == pc = "fire" /\ i <= Len(timer)

Pass ==
  /\ InPass /\ ~Expired(timer[i].t, now)
  /\ i' = i + 1
  /\ UNCHANGED <<clock, timer, wake, pc, now, changed, late, missed>>

(* The callback returns d: 0 to go on as before, or a new interval. *)
FireAgain(d) ==
  /\ InPass /\ Expired(timer[i].t, now)
  /\ timer' = [timer EXCEPT ![i] = Armed(@.cb, now, IF d = 0 THEN @.interval ELSE d)]
  /\ changed' = TRUE
  /\ i' = i + 1
  /\ UNCHANGED <<clock, wake, pc, now, late, missed>>

(* Wrong on purpose: a removal ends the loop. *)
FireLastStops ==
  /\ InPass /\ Expired(timer[i].t, now)
  /\ timer' = RemoveAt(timer, i)
  /\ i' = Len(timer) + 1
  /\ UNCHANGED <<clock, wake, pc, now, changed, late, missed>>

(* The callback returns a negative number: its entry goes, the next one    *)
(* moves into slot i and is stepped over.                                  *)
FireLast ==
  /\ InPass /\ Expired(timer[i].t, now)
  /\ timer' = RemoveAt(timer, i)
  /\ i' = i + 1
  /\ UNCHANGED <<clock, wake, pc, now, changed, late, missed>>

(* Wrong on purpose: the table is not sorted after a pass. *)
FinishUnsorted ==
  /\ pc = "fire" /\ i > Len(timer)
  /\ wake' = IF timer # <<>> /\ Until(timer[1].t, now) < Far THEN timer[1].t ELSE Off
  /\ pc' = "idle"
  /\ missed' = Counted(timer, now)
  /\ UNCHANGED <<clock, timer, i, now, changed, late>>

Finish ==
  /\ pc = "fire" /\ i > Len(timer)
  /\ timer' = IF timer # <<>> /\ changed THEN Sort(timer) ELSE timer
  /\ wake' = IF timer' # <<>> /\ Until(timer'[1].t, now) < Far THEN timer'[1].t ELSE Off
  /\ pc' = "idle"
  /\ missed' = Counted(timer, now)
  /\ UNCHANGED <<clock, i, now, changed, late>>

Process == Begin \/ Pass \/ FireLast \/ Finish \/ \E d \in {0} \cup Intervals : FireAgain(d)

Next ==
  \/ Tick \/ Process
  \/ \E c \in Callbacks : Delete(c) \/ \E d \in Intervals : Add(c, d)

Spec == Init /\ [][Next]_vars

-----------------------------------------------------------------------------
(* The comment on the sort: timers are triggered in the order of time.     *)
(* Nothing is due while the head, the only one a pass looks at first, is   *)
(* not - although the clock wraps around underneath - and a wake-up that   *)
(* is set is the head's, never one of a deadline that is gone.             *)
TriggeredSequentially ==
  pc = "idle" =>
    /\ \A k \in 1 .. Len(timer) : Expired(timer[k].t, clock) => Expired(timer[1].t, clock)
    /\ timer # <<>> => wake \in {Off, timer[1].t}

PowerOf2[m \in 0 .. MaxTimers] == IF m = 0 THEN 1 ELSE 2 * PowerOf2[m - 1]

(* An entry stepped over because the one before it was removed is not      *)
(* passed over for ever: each pass fires at least half of what is due.     *)
SkipsBounded == \A c \in Callbacks : PowerOf2[missed[c]] <= MaxTimers

(* A deadline that has passed is not forgotten: it does not fall out of    *)
(* the eight seconds in which it counts as due, to come up again only when *)
(* the clock has gone all the way round.  And no call ends in one of the   *)
(* endless loops of the error checks.                                      *)
NeverForgotten ==
  pc # "hung" /\ \A k \in 1 .. Len(timer) : Expired(timer[k].t, clock) \/ Until(timer[k].t, clock) < Quarter
=============================================================================
