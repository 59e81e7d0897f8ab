------------------------------ MODULE Keyboard ------------------------------
(***************************************************************************)
(* The key matrix of proj/drivers/keyboard.c: kb_scan_key looks for a      *)
(* closed contact on all drive lines at once and, while there is one and a *)
(* few calls longer, scans line by line, removes ghost keys, debounces,    *)
(* and puts every change into a small buffer that is read one entry per    *)
(* call.  The build has KB_RM_GHOST_KEY_EN and KEY_MATRIX_BUFFER_ENABLE.   *)
(* Which key code a position has, and with which map, is left out.         *)
(*                                                                         *)
(* The matrix has no diodes: current takes every way through closed        *)
(* contacts.  A contact does not move while a call samples it, which takes *)
(* microseconds; it may bounce between any two calls.                      *)
(***************************************************************************)
EXTENDS Integers, FiniteSets, Sequences

CONSTANTS
  Drives,      \* number of drive lines, ARRAY_SIZE(drive_pins)
  Scans,       \* number of scan lines, the bits of an entry of a u32 matrix
  Fn,          \* the position of VK_FN
  MaxKeys,     \* KB_RETURN_KEY_MAX
  Linger,      \* release_cnt: how long scanning goes on
  BufNum,      \* slots of matrix_buff, 4
  Modes,       \* what the caller may ask for: "read", "hold" (read_key is 0),
               \* "invalid" (KB_NUMLOCK_STATUS_INVALID)
  MaxChanges   \* bound: how often a contact opens or closes

Drive == 0 .. Drives - 1
Scan == 0 .. Scans - 1
Position == {<<d, s>> : d \in Drive, s \in Scan}

(* Assumption; stated where this module is instantiated. *)
KeyboardAssumption ==
  /\ Drives \in Nat \ {0} /\ Scans \in 1 .. 32 /\ Fn \in Position
  /\ MaxKeys \in Nat /\ Linger \in Nat \ {0} /\ BufNum \in Nat /\ BufNum > 1
  /\ Modes \subseteq {"read", "hold", "invalid"} /\ MaxChanges \in Nat

VARIABLES
  closed,     \* the contacts that are closed
  releaseCnt, \* release_cnt
  retLast,    \* ret_last: the scan lines with a closed contact
  pre,        \* mtrx_pre
  last,       \* mtrx_last
  buff,       \* matrix_buff
  wptr, rptr, \* matrix_wptr, matrix_rptr
  event,      \* the keys of kb_event when last returned
  unread,     \* history: the changes not read yet and not overwritten
  changes     \* counter for the bound

vars == <<closed, releaseCnt, retLast, pre, last, buff, wptr, rptr, event, unread, changes>>

Init ==
  /\ closed = {} /\ releaseCnt = 0 /\ retLast = {}
  /\ pre = {} /\ last = {}
  /\ buff = [s \in 0 .. BufNum - 1 |-> {}] /\ wptr = 0 /\ rptr = 0
  /\ event = {} /\ unread = << >> /\ changes = 0

-----------------------------------------------------------------------------
Row(m, d) == {s \in Scan : <<d, s>> \in m}

(* Lines that share no scan line with the others: no current leaves them. *)
Island(c, L) == \A x \in L, y \in Drive \ L : Row(c, x) \cap Row(c, y) = {}

(* kb_scan_row for the lines in need: a scan line carries a level unless   *)
(* an island around the driven line has no contact to it, however long the *)
(* way through other lines is.                                             *)
ScanMatrix(c, need) ==
  {p \in Position : p[2] \in need /\
     \A L \in SUBSET Drive : p[1] \in L => (\E e \in L : <<e, p[2]>> \in c) \/ ~Island(c, L)}

(* Two lines share keys that may be ghosts, unless both are the same       *)
(* single key.                                                             *)
Conflict(a, b) == a \cap b # {} /\ (Cardinality(a \cap b) > 1 \/ a # b)

(* Wrong on purpose: the shared lines are not collected. *)
RmvGhostKeyOnce(m) ==
  {p \in m : \A e \in p[1] + 1 .. Drives - 1 :
     Conflict(Row(m, p[1]), Row(m, e)) => p[2] \notin Row(m, e)}

(* kb_rmv_ghost_key compares each line with the later ones and collects    *)
(* the scan lines they share; it clears a line of what has been collected  *)
(* so far.                                                                 *)
Mixed(m, d) ==
  {s \in Scan : \E x \in 0 .. d : \E y \in x + 1 .. Drives - 1 :
     s \in Row(m, x) \cap Row(m, y) /\ Conflict(Row(m, x), Row(m, y))}
RmvGhostKey(m) == {p \in m : p[2] \notin Mixed(m, p[1])}

(* Wrong on purpose: one sample is enough to press a key, two samples old. *)
FilteredPre(m) == pre \cup (last \cap (pre \cup m))

(* key_debounce_filter: a key changes when two samples agree against it *)
Filtered(m) == ((pre \cap m) \ last) \cup (last \cap (pre \cup m))

(* kb_remap_key_code: the first MaxKeys keys, line by line; Fn itself does *)
(* not count.                                                              *)
Before(p, q) == p[1] < q[1] \/ (p[1] = q[1] /\ p[2] < q[2])
Remapped(m) ==
  {p \in m \ {Fn} : Cardinality({q \in m \ {Fn} : Before(q, p)}) < MaxKeys}

-----------------------------------------------------------------------------
KeyMove(p) ==
  /\ changes < MaxChanges
  /\ changes' = changes + 1
  /\ closed' = IF p \in closed THEN closed \ {p} ELSE closed \cup {p}
  /\ UNCHANGED <<releaseCnt, retLast, pre, last, buff, wptr, rptr, event, unread>>

Lines == {p[2] : p \in closed}

(* Wrong on purpose: scanning stops with the last key. *)
LingerNot == IF Lines # {} THEN 1 ELSE releaseCnt

(* What kb_key_pressed makes of release_cnt before it counts it down. *)
LingerFrom == IF Lines # {} THEN Linger ELSE releaseCnt

(* What kb_key_pressed returns: scan_pin_need *)
Needed == IF LingerFrom = 0 THEN {} ELSE IF Lines # {} THEN Lines ELSE retLast

(* Wrong on purpose: an overflow costs two entries. *)
PushedLosingTwo(w) == IF (w - rptr) % (2 * BufNum) > BufNum
                      THEN (w - BufNum + 1) % (2 * BufNum) ELSE rptr

(* Where reading goes on when the counter has moved to w: on overflow the  *)
(* oldest entry has been overwritten.                                      *)
Pushed(w) == IF (w - rptr) % (2 * BufNum) > BufNum
             THEN (w - BufNum) % (2 * BufNum) ELSE rptr

(* The buffer after the change to cur, if it is one, has been put into it. *)
Push(cur) ==
  IF cur = last
  THEN [b |-> buff, w |-> wptr, r |-> rptr, u |-> unread]
  ELSE LET w == (wptr + 1) % (2 * BufNum)
       IN [b |-> [buff EXCEPT ![wptr % BufNum] = cur], w |-> w, r |-> Pushed(w),
           u |-> Append(IF Len(unread) = BufNum THEN Tail(unread) ELSE unread, cur)]

(* The matrix m goes through the filter, if it is asked for, and into the  *)
(* buffer; an entry of the buffer is read.                                 *)
Scanned(m, mode, filter) ==
  LET cur == IF filter THEN Filtered(m) ELSE m
      p   == Push(cur)
  IN /\ pre' = m /\ last' = cur
     /\ buff' = p.b /\ wptr' = p.w
     /\ \/ /\ mode = "invalid"
           /\ event' = {}
           /\ rptr' = p.r /\ unread' = p.u
        \/ /\ mode = "hold" \/ (mode = "read" /\ p.w = p.r)
           /\ rptr' = p.r /\ unread' = p.u /\ event' = event
        \/ /\ mode = "read" /\ p.w # p.r
           /\ event' = Remapped(p.b[p.r % BufNum])
           /\ rptr' = (p.r + 1) % (2 * BufNum) /\ unread' = Tail(p.u)

(* kb_scan_key_value, with the filter or, at power-on, without it *)
ScanKeyValue(mode, filter) ==
  /\ Needed # {}
  /\ \E read \in {ScanMatrix(closed, Needed)} : \E m \in {RmvGhostKey(read)} :
       Scanned(m, mode, filter)

(* kb_scan_key: with no line needed nothing is scanned and 0 is returned *)
ScanKey(mode, filter) ==
  /\ releaseCnt' = IF LingerFrom > 0 THEN LingerFrom - 1 ELSE 0
  /\ retLast' = IF Lines # {} THEN Lines ELSE retLast
  /\ \/ ScanKeyValue(mode, filter)
     \/ Needed = {} /\ UNCHANGED <<pre, last, buff, wptr, rptr, event, unread>>
  /\ UNCHANGED <<closed, changes>>

Next ==
  \/ \E p \in Position : KeyMove(p)
  \/ \E mode \in Modes, filter \in BOOLEAN : ScanKey(mode, filter)

Spec == Init /\ [][Next]_vars

-----------------------------------------------------------------------------
(* Keys that could be ghosts: three corners of a rectangle or more. *)
Ambiguous(m) ==
  {p \in m : \E d \in Drive \ {p[1]} :
     <<d, p[2]>> \in m /\ \E s \in Scan \ {p[2]} : <<p[1], s>> \in m \/ <<d, s>> \in m}

(* "four or three key at # is pressed at the same time, should remove      *)
(* ghost key": although kb_rmv_ghost_key clears the lines one by one while *)
(* it still compares, it removes from a scan exactly the keys that are     *)
(* corners of such a rectangle.  What remains is closed, and is every      *)
(* contact whose drive line shares no scan line with another, or whose     *)
(* currents reach no other scan line, and no more.                         *)
GhostsExact ==
  LET m == ScanMatrix(closed, Lines)
  IN /\ RmvGhostKey(m) = m \ Ambiguous(m)
     /\ RmvGhostKey(m) =
          {p \in closed : Island(closed, {p[1]}) \/ Row(m, p[1]) = {p[2]}}

(* No key is reported that nobody pressed, whatever current flows through  *)
(* the matrix and however contacts bounce: a key that turns up has a       *)
(* closed contact.                                                         *)
NoPhantom == [][last' \ last \subseteq closed]_vars

(* The buffer, whose counters wrap at twice its size, holds the newest     *)
(* changes in their order; an overflow costs the oldest and no other.      *)
BufferKeepsNewest ==
  LET used == (wptr - rptr) % (2 * BufNum)
  IN /\ used = Len(unread)
     /\ \A k \in 1 .. used : buff[(rptr + k - 1) % BufNum] = unread[k]

(* When the keys come to rest, the last event is what is pressed: a press  *)
(* is debounced and read, and after the last release scanning lingers long *)
(* enough for the filter and for every change still in the buffer.  (For a *)
(* caller that goes on scanning and reading.)                              *)
Shown(K) == Fn \notin K /\ Ambiguous(K) = {} /\ Cardinality(K) <= MaxKeys
KeysFollow == <>[](Shown(closed) => event = closed)
=============================================================================
