---------------------------- MODULE ControlFlood ----------------------------
(***************************************************************************)
(* The control plane of the kernel: advertisements are generated on a      *)
(* periodic grid, once at start-up and on changes of the serving set, and  *)
(* relayed hop by hop along one shortest-path tree per origin, which a     *)
(* rematch of the topology replaces while copies are on the way.           *)
(*                                                                         *)
(* Satellites are numbered as in the kernel: the tree breaks ties by peer. *)
(* A link is the pair of its ends; what a copy meets on a link (queueing,  *)
(* transmission, propagation, a full queue) is chosen from Fates.  What an *)
(* advertisement says is the serving set of its origin, counted by the     *)
(* changes it has seen.                                                    *)
(***************************************************************************)
EXTENDS Integers, Sequences, FiniteSets, FiniteSetsExt

CONSTANTS
  Horizon,          \* duration_s
  FloodSats,        \* satellites, a set of numbers
  Origins,          \* those that advertise in this instance
  Wirings,          \* topologies: [FloodSats -> SUBSET FloodSats], symmetric
  VisK,             \* vis_k, the hop limit; nothing is advertised when it is 0
  Ttl,              \* ttl_s
  AdvertInterval,   \* advertise_interval_s
  EventInterval,    \* event_advert_min_interval_s
  Burst,            \* initial_sync_burst_s, or Never
  Delays,           \* instants a copy may need from one satellite to the next
  RematchInterval,  \* period of the topology ticker
  MaxTroubles,      \* serving-set changes and lost copies, in this instance
  TroubleInstants   \* when they can happen

Overflow == -1      \* a copy that found no room
Never == -1         \* no such instant
Outcomes == Delays \cup {Overflow}

\* No delay is negative, and max(0, initial_sync_burst_s) is the instant used.
ASSUME FloodAssumption ==
  /\ FloodSats \subseteq Nat /\ IsFiniteSet(FloodSats) /\ Origins \subseteq FloodSats
  /\ VisK \in Nat \ {0} /\ Ttl \in Nat \ {0} /\ AdvertInterval \in Nat \ {0}
  /\ EventInterval \in Nat \ {0} /\ Burst \in Nat \cup {Never}
  /\ Delays \subseteq Nat /\ IsFiniteSet(Delays) /\ Delays # {}
  /\ Wirings \subseteq [FloodSats -> SUBSET FloodSats]
  /\ \A w \in Wirings : \A s \in FloodSats :
       s \notin w[s] /\ \A t \in w[s] : s \in w[t]

VARIABLES
  now,        \* simulated time, in whole units
  wiring,     \* the current topology, and with it the relay trees
  serving,    \* [Origins -> number of changes of the serving set]
  seq,        \* ctrl_seq
  flight,     \* copies on a link, from registration to arrival
  heard,      \* seen_ctrl: per satellite, the advertisements accepted
  cache,      \* per satellite and origin, the entry routing may read
  periodic,   \* instant of the next periodic report
  burst,      \* instant of the pending initial report, or Never
  lastEvent,  \* _last_event_advert_at, or Never
  deferred,   \* instant of the deferred event report, or Never
  rematch,    \* instant of the next recompute of the topology
  lost,       \* copies that found no room
  said,       \* history: what the last report of a satellite said
  calm        \* history: the last change, loss, overflow or expiry

floodVars == <<now, wiring, serving, seq, flight, heard, cache, periodic, burst,
               lastEvent, deferred, rematch, lost, said, calm>>

NoEntry == [seq |-> 0, gen |-> -1, says |-> 0, hops |-> 0]

-----------------------------------------------------------------------------
(* Relay trees: breadth first, peers in increasing order, at most VisK deep *)

\* The search goes on below a satellite less than vis_k deep.
ExpandsMutant(node) == node.depth + 1 < VisK
Expands(node) == node.depth < VisK

\* The queue of the search is a sequence of reached satellites; the next one
\* is the least new neighbour of the earliest satellite that has one.
Reached(w, o) ==
  LET Frontier(q) == {e \in (DOMAIN q) \X FloodSats :
                        /\ Expands(q[e[1]])
                        /\ e[2] \in w[q[e[1]].sat]
                        /\ \A j \in DOMAIN q : q[j].sat # e[2]}
      First(q) == CHOOSE e \in Frontier(q) : \A f \in Frontier(q) :
                    e[1] < f[1] \/ (e[1] = f[1] /\ e[2] =< f[2])
      Grown(q) == IF Frontier(q) = {} THEN q
                  ELSE Append(q, [sat |-> First(q)[2], parent |-> q[First(q)[1]].sat,
                                  depth |-> q[First(q)[1]].depth + 1])
      grow[k \in Nat] == IF k = 0 THEN <<[sat |-> o, parent |-> o, depth |-> 0]>>
                         ELSE Grown(grow[k - 1])
  IN  grow[Cardinality(FloodSats) - 1]

\* _build_routing_structures keeps the trees of every topology in use.
ControlChildren ==
  [w \in Wirings |-> [o \in FloodSats |->
     LET q == Reached(w, o)
     IN  [s \in FloodSats |-> {q[i].sat : i \in {j \in DOMAIN q : j > 1 /\ q[j].parent = s}}]]]

-----------------------------------------------------------------------------
(* One advertisement and its copies *)

Copies(ad, from, to, hops, fate) ==
  {[origin |-> ad.origin, seq |-> ad.seq, gen |-> ad.gen, says |-> ad.says,
    from |-> from, to |-> t, left |-> hops, due |-> now + fate[t]] :
     t \in {u \in to : fate[u] # Overflow}}

\* A link serves its control queue in order.
InOrder(from, to, fate) ==
  \A t \in to : \A m \in flight :
    m.from = from /\ m.to = t /\ fate[t] # Overflow => now + fate[t] >= m.due

\* What has disturbed this instance so far.
Troubles == lost + MapThenSumSet(LAMBDA s : serving[s], Origins)

\* A copy that finds no room is lost at once.
Losing(to, fate) ==
  /\ lost' = lost + Cardinality({t \in to : fate[t] = Overflow})
  /\ lost' # lost => now \in TroubleInstants /\ lost' - lost + Troubles =< MaxTroubles

PutMutant(entry, m) ==
  [seq |-> m.seq, gen |-> m.gen, says |-> m.says, hops |-> VisK - m.left + 1]

\* generated_at decides which entry is kept; at equal instants the old one is.
Put(entry, m) ==
  IF entry.gen >= m.gen THEN entry
  ELSE [seq |-> m.seq, gen |-> m.gen, says |-> m.says, hops |-> VisK - m.left + 1]

\* _advertise at s, whose serving set is now `says`: it numbers the report,
\* marks it as its own and queues one copy per child.
Advertise(s, says) ==
  LET kids == ControlChildren[wiring][s][s]
      ad   == [origin |-> s, seq |-> seq + 1, gen |-> now, says |-> says]
  IN  \E fate \in [kids -> Outcomes] :
        /\ InOrder(s, kids, fate)
        /\ seq' = seq + 1
        /\ heard' = [heard EXCEPT ![s] = @ \cup {<<s, seq + 1>>}]
        /\ flight' = flight \cup Copies(ad, s, kids, VisK, fate)
        /\ Losing(kids, fate)
        /\ said' = [said EXCEPT ![s] = says]
        /\ calm' = IF lost' # lost \/ says # serving[s] THEN now ELSE calm

PeriodicDue(s) ==
  periodic[s] = now /\ (burst[s] = Never \/ burst[s] > periodic[s])

PeriodicReport(s) ==
  /\ PeriodicDue(s)
  /\ Advertise(s, serving[s])
  /\ periodic' = [periodic EXCEPT ![s] = @ + AdvertInterval]
  /\ UNCHANGED <<now, wiring, serving, cache, burst, lastEvent, deferred, rematch>>

\* The initial report has its own schedule and never moves the grid; it waits
\* for the periodic reports before its instant.
BurstDue(s) == burst[s] # Never /\ burst[s] =< periodic[s] /\ burst[s] = now

InitialReport(s) ==
  /\ BurstDue(s)
  /\ Advertise(s, serving[s])
  /\ burst' = [burst EXCEPT ![s] = Never]
  /\ UNCHANGED <<now, wiring, serving, cache, periodic, lastEvent, deferred, rematch>>

-----------------------------------------------------------------------------
(* Reports on a change of the serving set, at most one per interval *)

WindowOpen(s) == lastEvent[s] = Never \/ now - lastEvent[s] >= EventInterval

\* Changes inside the interval share one report at its end.
DeferredToMutant(s) == deferred[s]
DeferredTo(s) == IF deferred[s] # Never THEN deferred[s] ELSE lastEvent[s] + EventInterval

\* _serving_changed: report at once, or defer one report to the end of the
\* running interval.
ServingChanged(s) ==
  /\ Troubles < MaxTroubles /\ now \in TroubleInstants
  /\ serving' = [serving EXCEPT ![s] = @ + 1]
  /\ \/ /\ WindowOpen(s)
        /\ Advertise(s, serving[s] + 1)
        /\ lastEvent' = [lastEvent EXCEPT ![s] = now]
        /\ UNCHANGED deferred
     \/ /\ ~ WindowOpen(s)
        /\ deferred' = [deferred EXCEPT ![s] = DeferredTo(s)]
        /\ calm' = now
        /\ UNCHANGED <<seq, heard, flight, lost, said, lastEvent>>
  /\ UNCHANGED <<now, wiring, cache, periodic, burst, rematch>>

DeferredReport(s) ==
  /\ deferred[s] = now
  /\ Advertise(s, serving[s])
  /\ deferred' = [deferred EXCEPT ![s] = Never]
  /\ lastEvent' = [lastEvent EXCEPT ![s] = now]
  /\ UNCHANGED <<now, wiring, serving, cache, periodic, burst, rematch>>

-----------------------------------------------------------------------------
(* Arrival *)

FirstOnLink(m) == \A o \in flight :
  <<o.from, o.to, o.origin, o.due>> = <<m.from, m.to, m.origin, m.due>> => m.seq =< o.seq

Stale(m) == now - m.gen > Ttl
Duplicate(m) == m.origin = m.to \/ <<m.origin, m.seq>> \in heard[m.to]
MayRelayMutant(m) == m.left >= 1
MayRelay(m) == m.left > 1

\* _ctrl_arrive_after_prop: expired, duplicate, or accepted, cached and
\* relayed along the tree of the topology of this instant.
Arrive(m) ==
  /\ m.due = now /\ FirstOnLink(m)
  /\ \/ /\ Stale(m)
        /\ calm' = now
        /\ flight' = flight \ {m}
        /\ UNCHANGED <<heard, cache, lost>>
     \/ /\ ~ Stale(m) /\ Duplicate(m)
        /\ flight' = flight \ {m}
        /\ UNCHANGED <<heard, cache, lost, calm>>
     \/ /\ ~ Stale(m) /\ ~ Duplicate(m)
        /\ heard' = [heard EXCEPT ![m.to] = @ \cup {<<m.origin, m.seq>>}]
        /\ cache' = [cache EXCEPT ![m.to][m.origin] = Put(@, m)]
        /\ LET kids == IF MayRelay(m) THEN ControlChildren[wiring][m.origin][m.to]
                       ELSE {}
           IN  \E fate \in [kids -> Outcomes] :
                 /\ InOrder(m.to, kids, fate)
                 /\ flight' = (flight \ {m}) \cup Copies(m, m.to, kids, m.left - 1, fate)
                 /\ Losing(kids, fate)
                 /\ calm' = IF lost' # lost THEN now ELSE calm
  /\ UNCHANGED <<now, wiring, serving, seq, periodic, burst, lastEvent, deferred, rematch,
                 said>>

\* A rematch replaces the topology and every relay tree in one step; copies on
\* replaced links still arrive at the old peer.
Rewire(w) ==
  /\ rematch = now
  /\ rematch' = now + RematchInterval
  /\ wiring' = w
  /\ calm' = IF w = wiring THEN calm ELSE now
  /\ UNCHANGED <<now, serving, seq, flight, heard, cache, periodic, burst,
                 lastEvent, deferred, lost, said>>

FloodDue ==
  \/ rematch = now
  \/ \E m \in flight : m.due = now
  \/ \E s \in Origins : PeriodicDue(s) \/ BurstDue(s) \/ deferred[s] = now

FloodAdvance ==
  /\ now < Horizon /\ ~ FloodDue
  /\ now' = now + 1
  /\ UNCHANGED <<wiring, serving, seq, flight, heard, cache, periodic, burst,
                 lastEvent, deferred, rematch, lost, said, calm>>

FloodInit ==
  /\ now = 0
  /\ wiring \in Wirings
  /\ serving = [s \in Origins |-> 0]
  /\ seq = 0
  /\ flight = {}
  /\ heard = [s \in FloodSats |-> {}]
  /\ cache = [s \in FloodSats |-> [o \in Origins |-> NoEntry]]
  /\ periodic = [s \in Origins |-> 0]
  /\ burst = [s \in Origins |-> Burst]
  /\ lastEvent = [s \in Origins |-> Never]
  /\ deferred = [s \in Origins |-> Never]
  /\ rematch = RematchInterval
  /\ lost = 0
  /\ said = [s \in Origins |-> 0]
  /\ calm = 0

FloodNext ==
  \/ \E s \in Origins :
       PeriodicReport(s) \/ InitialReport(s) \/ ServingChanged(s) \/ DeferredReport(s)
  \/ \E m \in flight : Arrive(m)
  \/ \E w \in Wirings : Rewire(w)
  \/ FloodAdvance

FloodSpec == FloodInit /\ [][FloodNext]_floodVars

-----------------------------------------------------------------------------
(* Properties *)

\* An advertisement is accepted at most vis_k hops from its origin, also when
\* the trees were rebuilt while it travelled.
WithinReach ==
  \A s \in FloodSats, o \in Origins : cache[s][o].hops =< VisK

\* A satellite sends copies of an advertisement only in the step in which it
\* generates or first accepts it, so a rematch never starts a second flood.
RelayedOnce ==
  \A m \in flight' \ flight : <<m.origin, m.seq>> \notin heard[m.from]

\* What a satellite believes of another one's serving set never goes back to
\* an earlier set, whatever overtakes what on the way.
KnowledgeNeverAges ==
  \A s \in FloodSats, o \in Origins :
     cache'[s][o].says >= cache[s][o].says

\* A change of the serving set that the last report does not say has a report
\* scheduled within the minimum interval.
ChangeIsReported ==
  \A s \in Origins :
    said[s] # serving[s] => deferred[s] \in now .. (now + EventInterval)

\* Once nothing changes and nothing is lost, a report interval, a
\* lifetime and a hop later every satellite within vis_k hops knows the serving set.
Hops(o) ==
  LET ring[k \in Nat] == IF k = 0 THEN {o}
                         ELSE ring[k - 1] \cup UNION {wiring[s] : s \in ring[k - 1]}
  IN  ring[VisK]

KnowledgeConverges ==
  now > calm + AdvertInterval + Ttl + Max(Delays) =>
    \A o \in Origins : \A s \in Hops(o) \ {o} :
      cache[s][o].gen > Never /\ cache[s][o].says = serving[o]

\* Old news stays old: a flood is relayed once and never undoes a later one.
FloodsAreOnce == [][RelayedOnce /\ KnowledgeNeverAges]_floodVars

=============================================================================
