------------------------------- MODULE Queues -------------------------------
(***************************************************************************)
(* The packet queues of the simulator (deques of the kernel).  A loop that *)
(* moves or drops several packets is stated by what it leaves: the set of  *)
(* queues that keep the right packets in the right order.  Queues hold a   *)
(* packet at most once.                                                    *)
(***************************************************************************)
EXTENDS Integers, Sequences, FiniteSets, Functions, SequencesExt, FiniteSetsExt

\* How often p is in the queue q.
Count(q, p) == Cardinality({i \in DOMAIN q : q[i] = p})

\* The queue r has the packets it shares with q in the order of q.
KeepsOrder(r, q) ==
  \A i, j \in DOMAIN r : \A k, l \in DOMAIN q : i < j /\ r[i] = q[k] /\ r[j] = q[l] => k < l

\* What remains of the queue q when only the packets of S stay, in its order.
Remains(q, S) == {r \in SetToSeqs(Range(q) \cap S) : KeepsOrder(r, q)}

\* The packets of the queues in Q, queue after queue.
Chained(Q) ==
  {r \in SetToSeqs(UNION {Range(q) : q \in Q}) :
     \A q \in Q : /\ KeepsOrder(r, q)
                  /\ \A i, k \in DOMAIN r : {r[i], r[k]} \subseteq Range(q) =>
                       \A j \in i .. k : r[j] \in Range(q)}

=============================================================================
