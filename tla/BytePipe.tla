------------------------------ MODULE BytePipe ------------------------------
(***************************************************************************)
(* What a receiver promises: the bytes of the line, numbered from 1, reach *)
(* the consumer in runs, in order, each exactly once.  The promise is off  *)
(* from the moment the pipe breaks, which for the UART receiver is when    *)
(* its fifo first fills up.                                                *)
(***************************************************************************)
EXTENDS Integers, Sequences

VARIABLES
  sent,    \* how many bytes have entered the pipe
  got,     \* the bytes that have come out, in order
  broken   \* has the pipe overflowed?

pipeVars == <<sent, got, broken>>

Init == sent = 0 /\ got = << >> /\ broken = FALSE

(* A byte enters, and may be the one that breaks the pipe. *)
Enter ==
  /\ sent' = sent + 1
  /\ got' = got
  /\ broken' \in {broken, TRUE}

(* The next n bytes come out together. *)
Leave(n) ==
  /\ ~broken
  /\ got' = [k \in 1 .. Len(got) + n |-> k]
  /\ UNCHANGED <<sent, broken>>

Deliver == \E n \in 1 .. sent - Len(got) : Leave(n)

(* Closing a run that is not yet complete can break the pipe as well. *)
Break == broken' = TRUE /\ UNCHANGED <<sent, got>>

(* Nothing is promised of a broken pipe, except that it stays broken. *)
Broken == broken /\ broken'

Next == Enter \/ Deliver \/ Break \/ Broken

Spec == Init /\ [][Next]_pipeVars

FairSpec == Spec /\ WF_pipeVars(Deliver)
=============================================================================
