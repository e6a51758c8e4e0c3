--------------------------- MODULE PacketJourney ---------------------------
(***************************************************************************)
(* The journey of data packets from satellite to satellite when routing    *)
(* decisions take simulated time (compute_delay_s > 0): a packet arrives,  *)
(* queues for its satellite's compute pool, and the decision commits when  *)
(* the computation lands - in refresh mode against the state of that       *)
(* moment, in frozen mode the action inferred when it was requested, if it *)
(* is still legal.  Meanwhile the topology is rematched, ground            *)
(* associations come and go, and deadlines pass.                           *)
(*                                                                         *)
(* A packet is in one place, pk[p].where:                                  *)
(*   ground   not yet received by a satellite                              *)
(*   flying   propagates to the satellite sat, arrives at until            *)
(*   asking   taken out of a holding queue, its decision process starts    *)
(*   job      waits for the compute pool (until = None) or computes        *)
(*   held     in the holding queue of sat                                  *)
(*   egress   in the queue of a link of sat      down  in sat's downlink   *)
(*   landing  propagates to the ground           gone  has its fate        *)
(*                                                                         *)
(* Links transmit the head of their queue at any time (a backlog of other  *)
(* traffic may delay it); ISLSlots models the server itself.               *)
(***************************************************************************)
EXTENDS Queues

CONSTANTS Packets, Deadline,
          Sats, Dirs,
          Topologies,       \* sets of [Sats -> [Dirs -> Sats \cup {None}]]
          Servings,         \* the sets of satellites that serve the ground cell
          Modes,            \* decision_observation_mode: subset of {"refresh", "frozen"}
          ComputeDelay, Servers, Propagation,
          MaxHops, Room, DownRoom, HoldRoom,
          TimeStep, Interval, Horizon,
          None

ASSUME SizesAssumption ==
  /\ ComputeDelay \in Nat /\ Servers \in Nat \ {0} /\ Propagation \in Nat \ {0}
  /\ MaxHops \in Nat /\ Room \in Nat /\ DownRoom \in Nat /\ HoldRoom \in Nat
  /\ TimeStep \in Nat \ {0} /\ Interval \in Nat \ {0} /\ Horizon \in Nat
ASSUME TopologiesAssumption == Topologies \subseteq [Sats -> [Dirs -> Sats \cup {None}]]
ASSUME DeadlineAssumption == Deadline \in [Packets -> Nat]
ASSUME DirsAssumption == IsFiniteSet(Dirs)          \* N, S, E and W
ASSUME NoneAssumption == None \notin Sats \cup Dirs \cup Packets \cup Nat

VARIABLES
  now, mode,
  topo,      \* the topology, and the peer of each link
  serving,   \* satellites with an active link to the destination cell
  w,         \* where the packets are: see Start
  due,       \* tickers still to run at this instant: satellites, or "topology"
  crashed,   \* an exception the event loop does not catch ended the run
  stopped

vars == <<now, mode, topo, serving, w, due, crashed, stopped>>

NoObs == [kind |-> "none", dir |-> None]
Observations == [kind : {"none", "deliver", "hold"}, dir : {None}] \cup [kind : {"forward"}, dir : Dirs]
Fates == {"none", "DELIVERED", "DATA_DEADLINE_EXPIRED", "NO_ROUTE", "ISL_QUEUE_OVERFLOW",
          "ACCESS_QUEUE_OVERFLOW", "HOLDING_QUEUE_OVERFLOW", "IN_SYSTEM_AT_STOP"}
Places == {"ground", "flying", "asking", "job", "held", "egress", "down", "landing", "gone"}

Start ==
  [pk |-> [p \in Packets |-> [where |-> "ground", sat |-> None, path |-> <<>>, until |-> None,
                              obs |-> NoObs, armed |-> FALSE, fate |-> "none"]],
   egress |-> [s \in Sats |-> [d \in Dirs |-> <<>>]],   \* ISL data queues
   down |-> [s \in Sats |-> <<>>],                      \* downlink queues
   hold |-> [s \in Sats |-> <<>>],                      \* holding queues (pending)
   jobs |-> [s \in Sats |-> <<>>],                      \* compute pool: the first Servers run
   wake |-> [s \in Sats |-> None],                      \* _pending_wake
   wakes |-> [s \in Sats |-> {}]]                       \* scheduled _pending_wake_once

TypeOK ==
  /\ now \in 0 .. Horizon /\ mode \in Modes /\ topo \in Topologies /\ serving \in Servings
  /\ \A p \in Packets :
       /\ w.pk[p].where \in Places /\ w.pk[p].fate \in Fates /\ w.pk[p].obs \in Observations
       /\ w.pk[p].sat \in Sats \cup {None} /\ w.pk[p].path \in Seq(Sats)
       /\ w.pk[p].until \in Nat \cup {None} /\ w.pk[p].armed \in BOOLEAN
  /\ \A s \in Sats :
       /\ \A d \in Dirs : w.egress[s][d] \in Seq(Packets) /\ Len(w.egress[s][d]) =< Room
       /\ w.down[s] \in Seq(Packets) /\ Len(w.down[s]) =< DownRoom
       /\ w.hold[s] \in Seq(Packets) /\ Len(w.hold[s]) =< HoldRoom
       /\ w.jobs[s] \in Seq(Packets) /\ w.wake[s] \in Nat \cup {None} /\ w.wakes[s] \subseteq Nat
  /\ due \subseteq Sats \cup {"topology"} /\ crashed \in BOOLEAN /\ stopped \in BOOLEAN

-----------------------------------------------------------------------------
(* Elementary moves, as functions of the places record.                    *)

Late(p) == now >= Deadline[p]

\* _fail, and delivery: the packet gets its fate.
Ended(v, p, f) == [v EXCEPT !.pk[p].where = "gone", !.pk[p].fate = f]

\* _hold_packet: admit the packet to the holding queue, or fail it.
Held(v, s, p) ==
  IF Len(v.hold[s]) < HoldRoom
  THEN [v EXCEPT !.hold[s] = Append(@, p), !.pk[p].where = "held", !.pk[p].sat = s,
                 !.pk[p].armed = FALSE]
  ELSE Ended(v, p, "HOLDING_QUEUE_OVERFLOW")
\* The packets of qs[s], in turn, at every satellite s: the first ones fit.
Fitting(v, s, q) ==
  LET room == HoldRoom - Len(v.hold[s]) IN SubSeq(q, 1, IF Len(q) =< room THEN Len(q) ELSE room)
HeldAll(v, qs) ==
  [v EXCEPT !.hold = [s \in Sats |-> v.hold[s] \o Fitting(v, s, qs[s])],
            !.pk = [p \in Packets |->
     IF \A s \in Sats : p \notin Range(qs[s]) THEN v.pk[p]
     ELSE IF \E s \in Sats : p \in Range(Fitting(v, s, qs[s]))
          THEN [v.pk[p] EXCEPT !.where = "held", !.armed = FALSE]
          ELSE [v.pk[p] EXCEPT !.where = "gone", !.fate = "HOLDING_QUEUE_OVERFLOW"]]]

\* Mutant: a wake that is set is never brought forward.
ArmedMutant(v, s, at) ==
  IF at > now /\ at < Horizon /\ v.wake[s] = None
  THEN [v EXCEPT !.wake[s] = at, !.wakes[s] = @ \cup {at}] ELSE v
\* _schedule_pending_wake: only an earlier wake replaces the one that is set.
Armed(v, s, at) ==
  IF at > now /\ at < Horizon /\ (v.wake[s] = None \/ at < v.wake[s])
  THEN [v EXCEPT !.wake[s] = at, !.wakes[s] = @ \cup {at}] ELSE v

\* A decision parks its packet until its deadline at most.
Parked(v, s, p) ==
  LET u == Held(Armed(v, s, Deadline[p]), s, p)
  IN  IF u.pk[p].where = "held" THEN [u EXCEPT !.pk[p].armed = TRUE] ELSE u

\* Mutant: the packets stay in the holding queue while they are re-decided.
RedecidedMutant(v, s) ==
  [v EXCEPT !.pk = [p \in Packets |-> IF p \in Range(v.hold[s])
                                      THEN [v.pk[p] EXCEPT !.where = "asking"] ELSE v.pk[p]]]
\* _redecide_pending: a decision process for every packet of the queue.
Redecided(v, s) ==
  [v EXCEPT !.pk = [p \in Packets |-> IF p \in Range(v.hold[s])
                                      THEN [v.pk[p] EXCEPT !.where = "asking"] ELSE v.pk[p]],
            !.hold[s] = <<>>]

\* The packets of S have expired.
Swept(v, S) ==
  [v EXCEPT !.pk = [p \in Packets |->
     IF p \in S THEN [v.pk[p] EXCEPT !.where = "gone", !.fate = "DATA_DEADLINE_EXPIRED"]
     ELSE v.pk[p]]]

-----------------------------------------------------------------------------
(* Deciding.                                                               *)

Directions(s) == {d \in Dirs : topo[s][d] # None}
\* "never forward back onto a satellite already visited"
LoopFreeDirs(p, s, cands) == {d \in cands : topo[s][d] \notin Range(w.pk[p].path)}
HasRoom(v, s, d) == Len(v.egress[s][d]) < Room
DeliverLegal(v, s) == s \in serving /\ Len(v.down[s]) < DownRoom

ToEgress(v, s, d, p) == [v EXCEPT !.egress[s][d] = Append(@, p), !.pk[p].where = "egress"]
ToDown(v, s, p) == [v EXCEPT !.down[s] = Append(@, p), !.pk[p].where = "down"]

\* _observe_preferred_action: what a frozen decision may infer for a packet
\* whose path is known, cands being the routing policy's candidates.
Inferred(p, s, path) ==
  IF DeliverLegal(w, s) THEN {[kind |-> "deliver", dir |-> None]}
  ELSE UNION {LET legal == {d \in cands : topo[s][d] \notin Range(path) /\ HasRoom(w, s, d)}
              IN  IF legal = {} THEN {[kind |-> "hold", dir |-> None]}
                  ELSE [kind : {"forward"}, dir : legal] : cands \in SUBSET Directions(s)}

\* decide_deferred up to its first wait: observe, and ask for a compute server.
Requested(v, p, s, path, obs) ==
  [v EXCEPT !.jobs[s] = Append(@, p),
            !.pk[p] = [@ EXCEPT !.where = "job", !.sat = s, !.path = path, !.obs = obs,
                                !.until = IF Len(v.jobs[s]) < Servers THEN now + ComputeDelay
                                          ELSE None]]

Request(v, p, s, path) ==
  \E obs \in IF mode = "frozen" THEN Inferred(p, s, path) ELSE {NoObs} :
    w' = Requested(v, p, s, path, obs)

\* A computation ends and frees its server for the next request.
Computed(v, p, s) ==
  LET rest == RemoveAt(v.jobs[s], CHOOSE i \in DOMAIN v.jobs[s] : v.jobs[s][i] = p)
      u == [v EXCEPT !.jobs[s] = rest, !.pk[p].until = None]
  IN  IF Len(rest) >= Servers THEN [u EXCEPT !.pk[rest[Servers]].until = now + ComputeDelay] ELSE u

\* _decide, refresh mode: choose against the state of this moment.
DecideRefreshed(v, p, s) ==
  \/ w' = Parked(v, s, p)          \* a link is unavailable, or no routing information
  \/ /\ s \in serving
     /\ w' = IF DeliverLegal(v, s) THEN ToDown(v, s, p) ELSE Ended(v, p, "ACCESS_QUEUE_OVERFLOW")
  \/ /\ s \notin serving
     /\ \/ w' = Ended(v, p, "NO_ROUTE")          \* no policy route
        \/ \E cands \in SUBSET Directions(s) \ {{}} :
             LET free == LoopFreeDirs(p, s, cands)
                 legal == {d \in free : HasRoom(v, s, d)}
             IN  \/ \E d \in legal : w' = ToEgress(v, s, d, p)
                 \/ /\ legal = {}
                    /\ w' = Ended(v, p, IF free = {} THEN "NO_ROUTE" ELSE "ISL_QUEUE_OVERFLOW")

\* _decide_from_frozen_observation: commit the inferred action if it is still
\* legal, else (no room, no association, the link unavailable) park the packet.
\* The link of the inferred direction is looked up without asking whether the
\* direction still exists.
DecideFrozen(v, p, s, obs) ==
  \/ /\ obs.kind = "forward" /\ obs.dir \notin Directions(s)
     /\ crashed' = TRUE /\ w' = w
  \/ /\ obs.kind # "forward" \/ obs.dir \in Directions(s)
     /\ UNCHANGED crashed
     /\ \/ w' = Parked(v, s, p)
        \/ obs.kind = "deliver" /\ DeliverLegal(v, s) /\ w' = ToDown(v, s, p)
        \/ obs.kind = "forward" /\ HasRoom(v, s, obs.dir) /\ w' = ToEgress(v, s, obs.dir, p)

Running == ~ crashed /\ ~ stopped
JobDue(p) == w.pk[p].where = "job" /\ w.pk[p].until = now

\* A decision commits when its computation lands.
Commit(p) ==
  LET s == w.pk[p].sat
      v == Computed(w, p, s)
  IN  /\ Running /\ JobDue(p)
      /\ \/ /\ Late(p) \/ Len(w.pk[p].path) > MaxHops
            /\ w' = Ended(v, p, IF Late(p) THEN "DATA_DEADLINE_EXPIRED" ELSE "NO_ROUTE")
            /\ UNCHANGED crashed
         \/ /\ ~ Late(p) /\ Len(w.pk[p].path) =< MaxHops /\ mode = "refresh"
            /\ DecideRefreshed(v, p, s) /\ UNCHANGED crashed
         \/ /\ ~ Late(p) /\ Len(w.pk[p].path) =< MaxHops /\ mode = "frozen"
            /\ DecideFrozen(v, p, s, w.pk[p].obs)
      /\ UNCHANGED <<now, mode, topo, serving, due, stopped>>

-----------------------------------------------------------------------------
(* Arrivals, links, tickers.                                               *)

\* The uplink of a packet completes; it propagates to the satellite.
Uplink(p, s) ==
  /\ Running /\ w.pk[p].where = "ground" /\ now < Horizon
  /\ w' = [w EXCEPT !.pk[p].where = "flying", !.pk[p].sat = s, !.pk[p].until = now + Propagation]
  /\ UNCHANGED <<now, mode, topo, serving, due, crashed, stopped>>

\* _ingress_after_prop and _isl_arrive_after_prop.
Arrive(p) ==
  LET s == w.pk[p].sat
  IN  /\ Running /\ w.pk[p].where = "flying" /\ w.pk[p].until = now
      /\ \/ now > Deadline[p] /\ w' = Ended(w, p, "DATA_DEADLINE_EXPIRED")
         \/ now =< Deadline[p] /\ Request(w, p, s, Append(w.pk[p].path, s))
      /\ UNCHANGED <<now, mode, topo, serving, due, crashed, stopped>>

\* A decision process started by _redecide_pending.
Ask(p) ==
  /\ Running /\ w.pk[p].where = "asking"
  /\ Request(w, p, w.pk[p].sat, w.pk[p].path)
  /\ UNCHANGED <<now, mode, topo, serving, due, crashed, stopped>>

\* A link takes the head of its queue: an expired packet fails, another one
\* is transmitted to the peer of the link.
Transmit(s, d) ==
  /\ Running /\ w.egress[s][d] # <<>> /\ now < Horizon
  /\ LET p == Head(w.egress[s][d])
         v == [w EXCEPT !.egress[s][d] = Tail(@)]
     IN  w' = IF Late(p) THEN Ended(v, p, "DATA_DEADLINE_EXPIRED")
              ELSE [v EXCEPT !.pk[p].where = "flying", !.pk[p].sat = topo[s][d],
                             !.pk[p].until = now + Propagation]
  /\ UNCHANGED <<now, mode, topo, serving, due, crashed, stopped>>

Downlink(s) ==
  /\ Running /\ w.down[s] # <<>> /\ s \in serving /\ now < Horizon
  /\ LET p == Head(w.down[s])
         v == [w EXCEPT !.down[s] = Tail(@)]
     IN  w' = IF Late(p) THEN Ended(v, p, "DATA_DEADLINE_EXPIRED")
              ELSE [v EXCEPT !.pk[p].where = "landing", !.pk[p].until = now + Propagation]
  /\ UNCHANGED <<now, mode, topo, serving, due, crashed, stopped>>

\* The association is lost: the whole downlink queue goes back to holding.
DrainDown(s) ==
  /\ Running /\ w.down[s] # <<>> /\ s \notin serving
  /\ w' = HeldAll([w EXCEPT !.down[s] = <<>>], [r \in Sats |-> IF r = s THEN w.down[s] ELSE <<>>])
  /\ UNCHANGED <<now, mode, topo, serving, due, crashed, stopped>>

\* _deliver_after_prop.
Land(p) ==
  /\ Running /\ w.pk[p].where = "landing" /\ w.pk[p].until = now
  /\ w' = Ended(w, p, IF Late(p) THEN "DATA_DEADLINE_EXPIRED" ELSE "DELIVERED")
  /\ UNCHANGED <<now, mode, topo, serving, due, crashed, stopped>>

Outlived == {p \in Packets : now > Deadline[p]}   \* the holding queue keeps a packet until
Overdue == {p \in Packets : Late(p)}               \* after its deadline, other queues do not

\* Mutant: the expired packets stay in the holding queue.
SweptHoldMutant(v, s) == {Swept(v, Range(v.hold[s]) \cap Outlived)}
\* sweep_expired of the holding queue.
SweptHold(v, s) ==
  {[Swept(v, Range(v.hold[s]) \cap Outlived) EXCEPT !.hold[s] = q] :
     q \in Remains(v.hold[s], Packets \ Outlived)}
\* _sweep_downlink_queues.
SweptDown(v, s) ==
  {[Swept(v, Range(v.down[s]) \cap Overdue) EXCEPT !.down[s] = q] :
     q \in Remains(v.down[s], Packets \ Overdue)}

\* _pending_ticker: expire, re-decide, sweep the downlink queue.
PendingTick(s) ==
  /\ Running /\ s \in due /\ due' = due \ {s}
  /\ \E v \in SweptHold(w, s) : w' \in SweptDown(Redecided(v, s), s)
  /\ UNCHANGED <<now, mode, topo, serving, crashed, stopped>>

\* _pending_wake_once: only the wake that is still set re-decides.
PendingWake(s) ==
  /\ Running /\ now \in w.wakes[s]
  /\ LET v == [w EXCEPT !.wakes[s] = @ \ {now}]
     IN  w' = IF w.wake[s] = now THEN Redecided([v EXCEPT !.wake[s] = None], s) ELSE v
  /\ UNCHANGED <<now, mode, topo, serving, due, crashed, stopped>>

\* Mutant: a replaced link takes its queue over to its new peer.
ReplacedMutant(t, s) == {d \in Dirs : t[s][d] # topo[s][d] /\ t[s][d] = None}
Replaced(t, s) == {d \in Dirs : t[s][d] # topo[s][d]}

\* The data queued on the replaced links of s, link after link.
Drains(t, s) == Chained({w.egress[s][d] : d \in Replaced(t, s)})

\* _recompute_topology: data queued on replaced links goes back to holding.
Rematch(t) ==
  LET emptied == [w EXCEPT !.egress = [s \in Sats |-> [d \in Dirs |->
                    IF d \in Replaced(t, s) THEN <<>> ELSE w.egress[s][d]]]]
  IN  /\ Running /\ "topology" \in due /\ due' = due \ {"topology"}
      /\ \E qs \in [Sats -> UNION {Drains(t, s) : s \in Sats}] :
           /\ \A s \in Sats : qs[s] \in Drains(t, s)
           /\ w' = HeldAll(emptied, qs)
      /\ topo' = t
      /\ UNCHANGED <<now, mode, serving, crashed, stopped>>

\* Everything due at this instant has run.
Settled ==
  /\ due = {}
  /\ \A p \in Packets : /\ w.pk[p].where # "asking" /\ ~ JobDue(p)
                        /\ ~ (w.pk[p].where \in {"flying", "landing"} /\ w.pk[p].until = now)
  /\ \A s \in Sats : now \notin w.wakes[s] /\ (w.down[s] # <<>> => s \in serving)

Advance(a) ==
  /\ Running /\ now < Horizon /\ Settled
  /\ now' = now + 1 /\ serving' = a
  /\ due' = (IF (now + 1) % TimeStep = 0 THEN Sats ELSE {})
            \cup (IF (now + 1) % Interval = 0 /\ now + 1 < Horizon THEN {"topology"} ELSE {})
  /\ UNCHANGED <<mode, topo, w, crashed, stopped>>

Queued(p) == w.pk[p].where \in {"held", "egress", "down"}

\* The end of run(): the expired packets of the queues fail, all others are
\* still in the system.
Stop ==
  /\ Running /\ now = Horizon /\ Settled /\ stopped' = TRUE
  /\ w' = [w EXCEPT !.pk = [p \in Packets |->
             IF w.pk[p].where \in {"ground", "gone"} THEN w.pk[p]
             ELSE [w.pk[p] EXCEPT !.where = "gone",
                    !.fate = IF Queued(p) /\ Late(p) THEN "DATA_DEADLINE_EXPIRED"
                             ELSE "IN_SYSTEM_AT_STOP"]],
           !.hold = Start.hold, !.down = Start.down, !.egress = Start.egress, !.jobs = Start.jobs]
  /\ UNCHANGED <<now, mode, topo, serving, due, crashed>>

Over == ~ Running /\ UNCHANGED vars

Init ==
  /\ now = 0 /\ mode \in Modes /\ topo \in Topologies /\ serving \in Servings
  /\ w = Start /\ due = {} /\ crashed = FALSE /\ stopped = FALSE

Next ==
  \/ \E p \in Packets : Commit(p) \/ Arrive(p) \/ Ask(p) \/ Land(p)
  \/ \E p \in Packets, s \in Sats : Uplink(p, s)
  \/ \E s \in Sats, d \in Dirs : Transmit(s, d)
  \/ \E s \in Sats : Downlink(s) \/ DrainDown(s) \/ PendingTick(s) \/ PendingWake(s)
  \/ \E t \in Topologies : Rematch(t)
  \/ \E a \in Servings : Advance(a)
  \/ Stop
  \/ Over

Spec == Init /\ [][Next]_vars

-----------------------------------------------------------------------------
(* Properties.                                                             *)

\* A packet is in exactly the queue its place names, once, and in no other:
\* re-decisions, rematches and lost associations neither lose nor copy one.
PacketAccounted ==
  \A p \in Packets : \A s \in Sats :
    LET here(place) == IF w.pk[p].where = place /\ w.pk[p].sat = s THEN 1 ELSE 0
    IN  /\ Count(w.hold[s], p) = here("held")
        /\ Count(w.down[s], p) = here("down")
        /\ Count(w.jobs[s], p) = here("job")
        /\ Cardinality({x \in UNION {{d} \X DOMAIN w.egress[s][d] : d \in Dirs} :
                          w.egress[s][x[1]][x[2]] = p}) = here("egress")

\* In refresh mode no packet visits a satellite twice, although the topology
\* changes between its decision and its transmission.
NoRevisit ==
  mode = "refresh" => \A p \in Packets : IsInjective(w.pk[p].path)

\* A compute pool never idles while a request waits, and runs what was asked
\* first: exactly the first Servers requests have an end.
PoolIsBusy ==
  \A s \in Sats : \A i \in DOMAIN w.jobs[s] : w.pk[w.jobs[s][i]].until # None <=> i =< Servers

\* Every packet is in one place, and the queues and pools keep their shape.
PacketsAreTracked == TypeOK /\ PacketAccounted /\ PoolIsBusy

\* "expiry and recovery are exact instead of degraded to polling": a wake no
\* later than its deadline is set for every packet that a decision parked,
\* whatever wakes were set, replaced or fired since.
DeadlineIsArmed ==
  \A s \in Sats : \A p \in Range(w.hold[s]) :
    w.pk[p].armed /\ ~ Late(p) /\ Deadline[p] < Horizon /\ ~ stopped =>
      w.wake[s] \in w.wakes[s] /\ w.wake[s] =< Deadline[p]

\* The fate of a packet is final, and when the run stops every packet that a
\* satellite received has one: nothing dead is still sent or decided upon.
FateIsFinal ==
  [][\A p \in Packets : /\ w.pk[p].fate # "none" => w'.pk[p] = w.pk[p]
                        /\ stopped' => w'.pk[p].where \in {"ground", "gone"}]_vars

\* The frozen mode's promise: a rejected action parks the packet.
NoCrash == ~ crashed

=============================================================================
