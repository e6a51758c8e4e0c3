------------------------------ MODULE JointPlan ------------------------------
(***************************************************************************)
(* Joint plans: a planner takes a snapshot of the kernel, and the kernel    *)
(* validates and applies its plan later (validate_joint_plan and            *)
(* apply_joint_plan).  The version of the state, bumped by every event,     *)
(* ties the plan to the snapshot.                                           *)
(*                                                                          *)
(* Packets have one size; the rooms count packets.  Only pending packets    *)
(* can be planned, so a packet in service or in flight counts as elsewhere. *)
(***************************************************************************)
EXTENDS Naturals, FiniteSets

CONSTANTS
  PlanSats, PlanDirs,
  PlanPackets,
  Neighbour,        \* [PlanSats \X PlanDirs -> satellite at the other end]
  IslRoom,          \* isl_queue_bits, in packets
  DownlinkRoom,     \* downlink_queue_bits
  HoldingRoom,      \* capacity of the holding queue of a satellite
  MaxVersion        \* versions of the state, in this instance

ASSUME PlanAssumption ==
  /\ Neighbour \in [PlanSats \X PlanDirs -> PlanSats]
  /\ IsFiniteSet(PlanPackets)
  /\ IslRoom \in Nat /\ DownlinkRoom \in Nat /\ HoldingRoom \in Nat \ {0}

VARIABLES
  place,       \* where each data packet is
  serves,      \* satellites with an active, visible link to the destination
  stateVersion,
  snapshot     \* what the planner has seen: version, place and serves

planVars == <<place, serves, stateVersion, snapshot>>

Pending(s) == [queue |-> "pending", sat |-> s, dir |-> 0]
Isl(s, d) == [queue |-> "isl", sat |-> s, dir |-> d]
Downlink(s) == [queue |-> "downlink", sat |-> s, dir |-> 0]
Elsewhere == [queue |-> "elsewhere", sat |-> 0, dir |-> 0]
Dropped == [queue |-> "dropped", sat |-> 0, dir |-> 0]

Occupants(at, p) == {k \in PlanPackets : p[k] = at}
Occupancy(at, p) == Cardinality(Occupants(at, p))

-----------------------------------------------------------------------------
(* Plans: at most one action per packet *)

Forward(s, d) == [kind |-> "forward", sat |-> s, dir |-> d]
Deliver(s) == [kind |-> "deliver", sat |-> s, dir |-> 0]
Wait(s) == [kind |-> "wait", sat |-> s, dir |-> 0]

Actions == {Forward(s, d) : s \in PlanSats, d \in PlanDirs}
             \cup {Deliver(s) : s \in PlanSats} \cup {Wait(s) : s \in PlanSats}
Plans == UNION {[K -> Actions] : K \in SUBSET PlanPackets}

\* One action, on its own.  The satellite of a delivery is not compared with
\* the one that holds the packet.
HeldByMutant(k, a) == TRUE
HeldBy(k, a) == place[k].sat = a.sat

Admissible(k, a) ==
  /\ place[k].queue = "pending"
  /\ CASE a.kind = "forward" -> HeldBy(k, a)
       [] a.kind = "deliver" -> a.sat \in serves
                                /\ Occupancy(Downlink(a.sat), place) < DownlinkRoom
       [] OTHER -> HeldBy(k, a) /\ Occupancy(Pending(a.sat), place) =< HoldingRoom

\* All of them together: what the plan adds to a queue fits behind what is there.
Added(plan, a) == Cardinality({k \in DOMAIN plan : plan[k] = a})

IslFits(plan, a) == Occupancy(Isl(a.sat, a.dir), place) + Added(plan, a) =< IslRoom

DownlinkFits(plan, a) ==
  Occupancy(Downlink(a.sat), place) + Added(plan, a) =< DownlinkRoom

Valid(plan) ==
  /\ snapshot.version = stateVersion
  /\ \A k \in DOMAIN plan :
       /\ Admissible(k, plan[k])
       /\ plan[k].kind = "forward" => IslFits(plan, plan[k])
       /\ plan[k].kind = "deliver" => DownlinkFits(plan, plan[k])

\* The packets of a valid plan leave the holding queues first; one that waits
\* is held again, if there is room.
Resting(plan, s, k) ==
  LET others == {j \in PlanPackets \ DOMAIN plan : place[j] = Pending(s)}
  IN  IF Cardinality(others) + Added(plan, Wait(s)) =< HoldingRoom THEN Pending(s)
      ELSE Dropped

Target(plan, k) ==
  CASE plan[k].kind = "forward" -> Isl(plan[k].sat, plan[k].dir)
    [] plan[k].kind = "deliver" -> Downlink(plan[k].sat)
    [] OTHER -> Resting(plan, plan[k].sat, k)

ApplyPlan(plan) ==
  /\ stateVersion < MaxVersion
  /\ DOMAIN plan # {}
  /\ Valid(plan)
  /\ place' = [k \in PlanPackets |->
                 IF k \in DOMAIN plan THEN Target(plan, k) ELSE place[k]]
  /\ stateVersion' = stateVersion + 1
  /\ UNCHANGED <<serves, snapshot>>

-----------------------------------------------------------------------------
(* The rest of the kernel: every event step counts as one version *)

TakeSnapshot ==
  /\ snapshot.version # stateVersion
  /\ snapshot' = [version |-> stateVersion, place |-> place, serves |-> serves]
  /\ UNCHANGED <<place, serves, stateVersion>>

Bumped == stateVersion + 1

\* A packet moves on by its own: into a queue that has room, or out of one.
MayMove(k, to) ==
  CASE to.queue = "isl" -> /\ place[k] = Pending(to.sat)
                           /\ Occupancy(to, place) < IslRoom
    [] to.queue = "downlink" -> /\ place[k] = Pending(to.sat) /\ to.sat \in serves
                                /\ Occupancy(to, place) < DownlinkRoom
    [] to.queue = "pending" -> /\ place[k] = Elsewhere
                               /\ Occupancy(to, place) < HoldingRoom
    [] OTHER -> place[k].queue \in {"isl", "downlink"}

Destinations ==
  {Pending(s) : s \in PlanSats} \cup {Downlink(s) : s \in PlanSats}
    \cup {Isl(s, d) : s \in PlanSats, d \in PlanDirs} \cup {Elsewhere}

PacketEvent(k, to) ==
  /\ stateVersion < MaxVersion
  /\ MayMove(k, to)
  /\ place' = [place EXCEPT ![k] = to]
  /\ stateVersion' = Bumped
  /\ UNCHANGED <<serves, snapshot>>

ServingEvent(S) ==
  /\ stateVersion < MaxVersion
  /\ serves' = S
  /\ stateVersion' = Bumped
  /\ UNCHANGED <<place, snapshot>>

PlanInit ==
  /\ place = [k \in PlanPackets |-> Elsewhere]
  /\ serves = PlanSats
  /\ stateVersion = 0
  /\ snapshot = [version |-> 0, place |-> place, serves |-> serves]

PlanNext ==
  \/ TakeSnapshot
  \/ \E plan \in Plans : ApplyPlan(plan)
  \/ \E k \in PlanPackets, to \in Destinations : PacketEvent(k, to)
  \/ \E S \in SUBSET PlanSats : ServingEvent(S)

PlanSpec == PlanInit /\ [][PlanNext]_planVars

-----------------------------------------------------------------------------
(* Properties *)

\* A plan whose version is current was made from the state it will change: no
\* event since the snapshot kept the version.
PlanSeesCurrentState ==
  snapshot.version = stateVersion => snapshot.place = place /\ snapshot.serves = serves

\* However many packets a plan sends to one queue, no queue exceeds its room.
QueuesFit ==
  \A s \in PlanSats :
    /\ \A d \in PlanDirs : Occupancy(Isl(s, d), place) =< IslRoom
    /\ Occupancy(Downlink(s), place) =< DownlinkRoom
    /\ Occupancy(Pending(s), place) =< HoldingRoom

\* A valid plan costs no packet: one told to wait finds its own room again.
NothingDropped == \A k \in PlanPackets : place[k] # Dropped

\* A joint plan acts on the state it was made from, within every queue's room
\* and at no packet's cost.
PlansAreSafe == PlanSeesCurrentState /\ QueuesFit /\ NothingDropped

=============================================================================
