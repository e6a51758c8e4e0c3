-------------------------- MODULE TransceiverOrder --------------------------
(***************************************************************************)
(* What a satellite promises of the transceiver of each direction: one     *)
(* generation of the link transmits at a time, and the generations use it  *)
(* in the order of their rematches.  front is the oldest generation that   *)
(* may still transmit; once it has moved on, an older one never does.      *)
(***************************************************************************)
EXTENDS Integers

CONSTANTS Dirs, None

VARIABLES front, onAir

Init ==
  /\ front \in [Dirs -> Nat]
  /\ onAir = [d \in Dirs |-> None]

\* A generation starts, goes on, stops, or leaves the transceiver to younger
\* ones; a rematch may do so in several directions at once.
Next ==
  /\ front' \in [Dirs -> Nat]
  /\ onAir' \in [Dirs -> Nat \cup {None}]
  /\ \A d \in Dirs : /\ front'[d] >= front[d]
                     /\ onAir'[d] \in {None, front'[d]}

Spec == Init /\ [][Next]_<<front, onAir>>

=============================================================================
