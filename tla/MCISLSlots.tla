----------------------------- MODULE MCISLSlots -----------------------------
(***************************************************************************)
(* Instances of ISLSlots: one or two directions and two or three peers.    *)
(***************************************************************************)
EXTENDS ISLSlots

CONSTANTS n, e, a, b, p1, p2, k1, k2

AllWirings == [Dirs -> Peers \cup {None}]
OneDirection == {[d \in Dirs |-> a], [d \in Dirs |-> b], [d \in Dirs |-> None]}

Everything == Dirs \X Peers
\* The links to a come and go; those to b stay.
Flicker == {Everything, Dirs \X {b}}
AlwaysUp == {Everything}

\* One data packet with a deadline inside the run, one without, and one
\* control packet of each kind.
Expiries == [p \in Packets |-> IF p = p1 THEN 3 ELSE IF p = k1 THEN 3 ELSE Horizon + 1]

\* The loops of the deques, executed: what remains of a queue is the queue with
\* the other packets filtered out, and the queues of a rematch are chained in
\* one order of the links or another.
AllQueues == UNION {SetToSeqs(S) : S \in SUBSET Packets}
ASSUME RemainsFilters ==
  \A q \in AllQueues, S \in SUBSET Packets :
    Remains(q, S) = {SelectSeq(q, LAMBDA p : p \in S)}
ASSUME ChainedConcatenates ==
  \A q, r, s \in AllQueues :
    (Range(q) \cap Range(r)) \cup (Range(r) \cap Range(s)) \cup (Range(q) \cap Range(s)) = {} =>
      Chained({q, r, s}) = {q \o r \o s, q \o s \o r, r \o q \o s, r \o s \o q, s \o q \o r, s \o r \o q}

=============================================================================
