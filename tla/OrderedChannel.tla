-------------------------- MODULE OrderedChannel ---------------------------
(***************************************************************************)
(* What one direction of the tunnel promises when datagrams may be lost:   *)
(* the receiver is given stretches of what was sent, each of them behind   *)
(* the one before.  Nothing is invented, repeated or reordered; anything   *)
(* may be missing.  The units of data are numbered as they are sent.       *)
(***************************************************************************)
EXTENDS Naturals, Sequences

VARIABLES
    sent,       \* number of units sent
    delivered   \* the numbers of the units delivered, in the order of delivery

Init == sent = 0 /\ delivered = <<>>

Last == IF delivered = <<>> THEN 0 ELSE delivered[Len(delivered)]

\* More units are sent.
Send ==
    /\ sent' > sent
    /\ UNCHANGED delivered

\* The units from lo to hi are delivered, those between Last and lo never will be.
Deliver ==
    /\ \E lo \in Last + 1 .. sent, hi \in Last + 1 .. sent :
        delivered' = delivered \o [i \in 1..hi + 1 - lo |-> lo + i - 1]
    /\ UNCHANGED sent

Next == Send \/ Deliver

Spec == Init /\ [][Next]_<<sent, delivered>>

-----------------------------------------------------------------------------
(* Two such channels one behind the other, with somebody between them who reads and *)
(* writes: what lies on both sides of a gap may arrive together.                    *)

DeliverSome ==
    /\ delivered' # delivered
    /\ SubSeq(delivered', 1, Len(delivered)) = delivered
    /\ \A i \in Len(delivered) + 1 .. Len(delivered') :
          delivered'[i] \in 1..sent /\ (i = 1 \/ delivered'[i - 1] < delivered'[i])
    /\ UNCHANGED sent

RelaySpec == Init /\ [][Send \/ DeliverSome]_<<sent, delivered>>
=============================================================================
