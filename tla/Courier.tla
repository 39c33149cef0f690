------------------------------ MODULE Courier ------------------------------
(***************************************************************************)
(* What the two application layers promise their user: every item handed   *)
(* to the sending side is handed out by the receiving side whole, once and *)
(* in the order of sending.  An item is a text or a named file.            *)
(***************************************************************************)
EXTENDS Naturals, Sequences

CONSTANT Item

VARIABLES posted,      \* the items the sender was given, in order
          delivered    \* the items the receiver handed out, in order

vars == <<posted, delivered>>

Init == posted = <<>> /\ delivered = <<>>

Post ==
    /\ \E item \in Item : posted' = Append(posted, item)
    /\ UNCHANGED delivered

Deliver ==
    /\ Len(delivered) < Len(posted)
    /\ delivered' = Append(delivered, posted[Len(delivered) + 1])
    /\ UNCHANGED posted

Next == Post \/ Deliver

Spec == Init /\ [][Next]_vars /\ WF_vars(Deliver)
=============================================================================
