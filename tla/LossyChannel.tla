---------------------------- MODULE LossyChannel ----------------------------
(***************************************************************************)
(* What one CAN bus gets of the frames of another through the leader: some *)
(* of them may be missing, but none comes twice and none overtakes another.*)
(* A frame is known by its number in the order of arrival.                 *)
(***************************************************************************)
EXTENDS Naturals, FiniteSetsExt

VARIABLES arrived,     (* number of the last frame to arrive               *)
          inFlight,    (* frames that may still be delivered               *)
          delivered    (* number of the last frame delivered, 0 for none   *)

vars == <<arrived, inFlight, delivered>>

Init == arrived = 0 /\ inFlight = {} /\ delivered = 0

Arrive ==
  /\ arrived' = arrived + 1
  /\ inFlight' \in SUBSET (inFlight \union {arrived'})
  /\ UNCHANGED delivered

Lose ==
  /\ inFlight' \in SUBSET inFlight
  /\ UNCHANGED <<arrived, delivered>>

Deliver ==
  /\ inFlight # {}
  /\ delivered' = Min(inFlight)
  /\ inFlight' = inFlight \ {delivered'}
  /\ UNCHANGED arrived

Next == Arrive \/ Lose \/ Deliver

Spec == Init /\ [][Next]_vars
=============================================================================
