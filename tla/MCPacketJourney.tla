-------------------------- MODULE MCPacketJourney --------------------------
(***************************************************************************)
(* Instances of PacketJourney: three satellites whose links are rematched. *)
(***************************************************************************)
EXTENDS PacketJourney

CONSTANTS s1, s2, s3, n, p1, p2

\* A line that may be reversed, and one that loses a link.
Line == [s \in Sats |-> [d \in Dirs |-> IF s = s1 THEN s2 ELSE IF s = s2 THEN s3 ELSE s2]]
Bent == [s \in Sats |-> [d \in Dirs |-> IF s = s1 THEN s3 ELSE IF s = s2 THEN s1 ELSE None]]
Rewired == {Line, Bent}

LastOnly == {{s3}, {}}

Deadlines == [p \in Packets |-> IF p = p1 THEN Horizon - 1 ELSE Horizon - 2]
=============================================================================
