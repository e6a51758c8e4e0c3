--------------------------- MODULE MCInformation ---------------------------
(***************************************************************************)
(* Instances of the three components by which information reaches a        *)
(* decision: advertisements (ControlFlood), asynchronous tables            *)
(* (AsyncSchedule) and joint plans (JointPlan).  They share no state, so   *)
(* the behaviours of each are explored with the other two at rest.         *)
(***************************************************************************)
EXTENDS ControlFlood, AsyncSchedule, JointPlan

VARIABLE part       \* the component that runs in this behaviour
infoVars == <<floodVars, asyncVars, planVars, part>>

\* Two topologies between which the trees of satellite 0 change most: a path
\* that ends out of its reach, and a fork whose longer arm visits the same
\* satellites in another order.
Joining(edges) == [s \in FloodSats |-> {t \in FloodSats \ {s} : {s, t} \in edges}]
Path == Joining({{0, 1}, {1, 3}, {3, 2}, {2, 4}})
Fork == Joining({{0, 1}, {0, 2}, {2, 3}, {2, 4}})
PathAndFork == {Path, Fork}

Opposite == [e \in PlanSats \X PlanDirs |-> 3 - e[1]]

InfoInit ==
  /\ part \in {"flood", "async", "plan"}
  /\ FloodInit /\ wiring = Path
  /\ AsyncInit
  /\ PlanInit

InfoNext ==
  \/ part = "flood" /\ FloodNext /\ UNCHANGED <<asyncVars, planVars, part>>
  \/ part = "async" /\ AsyncNext /\ UNCHANGED <<floodVars, planVars, part>>
  \/ part = "plan" /\ PlanNext /\ UNCHANGED <<floodVars, asyncVars, part>>

InfoSpec == InfoInit /\ [][InfoNext]_infoVars
=============================================================================
