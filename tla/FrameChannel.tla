----------------------------- MODULE FrameChannel -----------------------------
(***************************************************************************)
(* What the threads on the two sides of an r_blocking_q may rely on: items *)
(* are delivered in the order they were sent, each at most once.  Items    *)
(* are numbered in the order of their sends; pending items may be lost.    *)
(***************************************************************************)
EXTENDS Naturals

VARIABLES
  sent,      \* number of items sent so far
  pending,   \* items sent, neither delivered nor lost
  last       \* the item delivered last, 0 before the first

Init == sent = 0 /\ pending = {} /\ last = 0

\* Sending takes effect or loses an item, which may be the one being sent.
Send == /\ sent' = sent + 1
        /\ pending' \subseteq pending \cup {sent + 1}
        /\ UNCHANGED last

Deliver == /\ last' \in pending
           /\ \A i \in pending : last' <= i
           /\ pending' = pending \ {last'}
           /\ UNCHANGED sent

Lose == /\ pending' \subseteq pending
        /\ UNCHANGED <<sent, last>>

Next == Send \/ Deliver \/ Lose

Spec == Init /\ [][Next]_<<sent, pending, last>>
=============================================================================
