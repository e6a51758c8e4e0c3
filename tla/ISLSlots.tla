------------------------------ MODULE ISLSlots ------------------------------
(***************************************************************************)
(* The inter-satellite egress of one satellite.  Each direction is one     *)
(* physical transceiver; a topology rematch replaces the link object on it *)
(* by a new generation, while the retired one keeps serving its control    *)
(* packets and the packet in service.  A generation transmits only once    *)
(* every older one of its direction has drained.                           *)
(*                                                                         *)
(* Every generation has a server process (_run).  An action RunServer is   *)
(* one stretch of it between two yields; what it waits for is its phase:   *)
(*   run   just created, about to look at its queues                       *)
(*   wake  waits for its wake event only                                   *)
(*   gate  waits for older generations to drain, an expiry or a wake       *)
(*   down  waits for the link's recovery, an expiry or a wake              *)
(*   tx    transmits;   ended  the process returned;   unborn  not created *)
(*                                                                         *)
(* The environment offers data and control packets, moves the geometry     *)
(* (reach) and chooses each rematch.  Queues count packets of one size;    *)
(* the rate model and the outage process are part of reach.                *)
(***************************************************************************)
EXTENDS Queues

CONSTANTS Dirs, Peers,
          Data, Ctrl,       \* data packets and control packet instances
          Expiry,           \* deadline of a data packet, TTL of a control one
          Wirings,          \* the topologies: [Dirs -> Peers \cup {None}]
          Reaches,          \* the geometries: sets of <<direction, peer>>
          LastGen,          \* bound: generations are 0 .. LastGen
          Room,             \* isl_queue_bits, in packets
          HoldRoom,         \* holding_queue_bits, in packets
          MaxEntities, MaxEndpoints,
          TxTime, Interval, Horizon,
          None

Gens == 0 .. LastGen
Packets == Data \cup Ctrl

ASSUME SizesAssumption ==
  /\ LastGen \in Nat /\ Room \in Nat /\ HoldRoom \in Nat
  /\ MaxEntities \in Nat /\ MaxEndpoints \in Nat
  /\ TxTime \in Nat \ {0} /\ Interval \in Nat \ {0} /\ Horizon \in Nat
ASSUME WiringsAssumption == Wirings \subseteq [Dirs -> Peers \cup {None}] /\ IsFiniteSet(Dirs)
ASSUME PacketsAssumption == Data \cap Ctrl = {} /\ Expiry \in [Packets -> Nat]
ASSUME NoneAssumption == None \notin Dirs \cup Peers \cup Packets \cup Nat

VARIABLES
  now, reach,
  link,      \* the generations: [Gens -> record]
  isls,      \* the current generation of each direction, or None
  retired,   \* _retired_isls
  seq,       \* _isl_gen_seq
  drains,    \* _isl_dyn_drained
  endpoints, \* how many ground endpoints exist
  hold,      \* the satellite's holding queue
  fate,      \* what became of a packet that left
  raised,    \* CapExceeded ended the run
  due        \* the topology ticker is due at this instant

vars == <<now, reach, link, isls, retired, seq, drains, endpoints, hold, fate, raised, due>>

Phases == {"unborn", "run", "wake", "gate", "down", "tx", "ended"}
Unborn == [dir |-> None, peer |-> None, retired |-> FALSE, data |-> <<>>, ctrl |-> <<>>,
 air |-> None, until |-> 0, poked |-> FALSE, blockers |-> {}, phase |-> "unborn"]

TypeOK ==
  /\ now \in 0 .. Horizon /\ reach \in Reaches
  /\ \A g \in Gens :
       /\ link[g].dir \in Dirs \cup {None} /\ link[g].peer \in Peers \cup {None}
       /\ link[g].retired \in BOOLEAN /\ link[g].poked \in BOOLEAN
       /\ link[g].data \in Seq(Data) /\ link[g].ctrl \in Seq(Ctrl)
       /\ link[g].air \in Packets \cup {None} /\ link[g].until \in Nat \cup {None}
       /\ link[g].blockers \subseteq Gens /\ link[g].phase \in Phases
  /\ isls \in [Dirs -> Gens \cup {None}] /\ retired \subseteq Gens
  /\ seq \in 0 .. LastGen + 1 /\ drains \in Nat /\ endpoints \in 0 .. MaxEndpoints
  /\ hold \in Seq(Data)
  /\ fate \in [Packets -> {"new", "live", "sent", "lost", "expired", "overflow"}]
  /\ raised \in BOOLEAN /\ due \in BOOLEAN

-----------------------------------------------------------------------------
\* Mutant: the packet in service is forgotten.
DrainedMutant(l) == l.data = <<>> /\ l.ctrl = <<>>
\* _is_drained: nothing queued, nothing in service.
Drained(l) == l.data = <<>> /\ l.ctrl = <<>> /\ l.air = None

Live == {isls[d] : d \in Dirs} \ {None}
Used(l) == Len(l.data) + Len(l.ctrl)
HasRoom(l) == Used(l) < Room
Available(l) == <<l.dir, l.peer>> \in reach
Expired(p) == now >= Expiry[p]

\* Mutant: a retired server does not wait for an older retired one.
OlderBusyMutant(g) ==
  {h \in retired : link[h].dir = link[g].dir /\ h < g /\ ~ Drained(link[h]) /\ ~ link[g].retired}
\* One transceiver per direction: the older generations still at work on it.
OlderBusy(g) == {h \in retired : link[h].dir = link[g].dir /\ h < g /\ ~ Drained(link[h])}

\* base entities + endpoints + dynamic generations created - drained.
LiveEntities == seq + endpoints - drains

-----------------------------------------------------------------------------
(* The server process of a generation.                                     *)

Queued(l) == Range(l.data) \cup Range(l.ctrl)

\* Mutant: the expiries of the data packets are not waited for.
NextExpiryMutant(l) ==
  LET at == {Expiry[p] : p \in Range(l.ctrl)} \cap (now + 1 .. Horizon)
  IN  IF at = {} THEN None ELSE Min(at)
\* The first expiry of a queued packet, or None up to the horizon.
NextExpiry(l) ==
  LET at == {Expiry[p] : p \in Queued(l)} \cap (now + 1 .. Horizon)
  IN  IF at = {} THEN None ELSE Min(at)

\* The race of the packet in service: completion beats loss beats expiry.
ServiceDue(l) == now >= l.until \/ ~ Available(l) \/ Expired(l.air)
ServiceFate(l) == IF now >= l.until THEN "sent" ELSE IF ~ Available(l) THEN "lost" ELSE "expired"

\* The process is scheduled at this instant.  The drained event of a
\* generation fires when the generation leaves _retired_isls.
Resumable(g) ==
  LET l == link[g]
  IN  \/ l.phase = "run"
      \/ l.phase = "tx" /\ ServiceDue(l)
      \/ l.phase \in {"wake", "gate", "down"} /\ l.poked
      \/ l.phase \in {"gate", "down"} /\ l.until = now
      \/ l.phase = "gate" /\ l.blockers \cap retired = {}
      \/ l.phase = "down" /\ Available(l)

Outlived == {p \in Packets : Expired(p)}

\* The server is resumed with the queues it keeps: the packet in service
\* leaves, a wake event that ended the wait is renewed.
Resumed(l, data, ctrl) ==
  [l EXCEPT !.data = data,
            !.ctrl = ctrl,
            !.air = None,
            !.poked = @ /\ l.phase \in {"run", "tx"}]

\* Then it looks at its queues, up to its next wait.
Served(g, l) ==
  IF Queued(l) = {} THEN [l EXCEPT !.phase = IF l.retired THEN "ended" ELSE "wake"]
  ELSE IF OlderBusy(g) # {}
       THEN [l EXCEPT !.phase = "gate", !.blockers = OlderBusy(g), !.until = NextExpiry(l)]
  ELSE IF ~ Available(l) THEN [l EXCEPT !.phase = "down", !.until = NextExpiry(l)]
  ELSE IF l.ctrl # <<>>
       THEN [l EXCEPT !.phase = "tx", !.air = Head(l.ctrl), !.ctrl = Tail(@), !.until = now + TxTime]
  ELSE [l EXCEPT !.phase = "tx", !.air = Head(l.data), !.data = Tail(@), !.until = now + TxTime]

\* The server reclaims drained generations when it leaves a gate or ends.
Purges(g) == link[g].phase = "gate" \/ link'[g].phase = "ended"

\* Mutant: a reclaimed generation stays in the count.
PurgeMutant ==
  LET gone == {h \in retired : Drained(link'[h])}
  IN  retired' = retired \ gone /\ UNCHANGED drains
\* _purge_drained_retired, on the links as they are now.
Purge ==
  LET gone == {h \in retired : Drained(link'[h])}
  IN  retired' = retired \ gone /\ drains' = drains + Cardinality(gone)

RunServer(g) ==
  /\ ~ raised /\ Resumable(g)
  /\ LET l == link[g]
     IN  /\ \E data \in Remains(l.data, Packets \ Outlived), ctrl \in Remains(l.ctrl, Packets \ Outlived) :
              link' = [link EXCEPT ![g] = Served(g, Resumed(l, data, ctrl))]
         /\ fate' = [p \in Packets |->
                       IF p = l.air THEN ServiceFate(l)
                       ELSE IF p \in Queued(l) /\ Expired(p) THEN "expired" ELSE fate[p]]
  /\ IF Purges(g) THEN Purge ELSE UNCHANGED <<retired, drains>>
  /\ UNCHANGED <<now, reach, isls, seq, endpoints, hold, raised, due>>

-----------------------------------------------------------------------------
(* Packets offered by the routing decisions and the control plane.         *)

\* Mutant: the server is not woken for a control packet.
PokedMutant(l) == [l EXCEPT !.poked = @ \/ l.ctrl = <<>>]
\* A sleeping server is woken.
Poked(l) == [l EXCEPT !.poked = TRUE]

WithCtrl(l, p) == Poked([l EXCEPT !.ctrl = Append(@, p)])
WithData(l, p) == Poked([l EXCEPT !.data = Append(@, p)])

PutCtrl(d, p) ==
  /\ ~ raised /\ p \in Ctrl /\ fate[p] = "new" /\ now =< Expiry[p] /\ isls[d] # None
  /\ IF HasRoom(link[isls[d]])
     THEN /\ link' = [link EXCEPT ![isls[d]] = WithCtrl(link[isls[d]], p)]
          /\ fate' = [fate EXCEPT ![p] = "live"]
     ELSE fate' = [fate EXCEPT ![p] = "overflow"] /\ UNCHANGED link
  /\ UNCHANGED <<now, reach, isls, retired, seq, drains, endpoints, hold, raised, due>>

\* The directions of a routing decision that are up, and those with room too.
Up(cands) == {d \in cands : Available(link[isls[d]])}
Legal(cands) == {d \in Up(cands) : HasRoom(link[isls[d]])}

\* A routing decision on a data packet that arrives or is held: forward it in
\* a legal direction, else hold it while a candidate is down (or there is
\* none), else fail it.
Decide(p, cands) ==
  /\ ~ raised /\ p \in Data /\ cands \subseteq {d \in Dirs : isls[d] # None}
  /\ fate[p] = "new" \/ p \in Range(hold)
  /\ \E rest \in Remains(hold, Packets \ {p}) :
       \/ /\ Expired(p) \/ (Legal(cands) = {} /\ Up(cands) = cands /\ cands # {})
          /\ fate' = [fate EXCEPT ![p] = IF Expired(p) THEN "expired" ELSE "overflow"]
          /\ hold' = rest /\ UNCHANGED link
       \/ \E d \in Legal(cands) :
            /\ ~ Expired(p)
            /\ link' = [link EXCEPT ![isls[d]] = WithData(link[isls[d]], p)]
            /\ fate' = [fate EXCEPT ![p] = "live"]
            /\ hold' = rest
       \/ /\ ~ Expired(p) /\ Legal(cands) = {} /\ (Up(cands) # cands \/ cands = {})
          /\ IF Len(rest) < HoldRoom
             THEN hold' = Append(rest, p) /\ fate' = [fate EXCEPT ![p] = "live"]
             ELSE hold' = rest /\ fate' = [fate EXCEPT ![p] = "overflow"]
          /\ UNCHANGED link
  /\ UNCHANGED <<now, reach, isls, retired, seq, drains, endpoints, raised, due>>

-----------------------------------------------------------------------------
(* Rematch, entities, clock.                                               *)

\* The cap of max_entities, on the drained generations already reclaimed.
Fits(new) ==
  LiveEntities - Cardinality({g \in retired : Drained(link[g])}) + Cardinality(new) =< MaxEntities

Retire(l) == Poked([l EXCEPT !.retired = TRUE, !.data = <<>>])

\* The ways to number the new links of the directions new.
Numberings(new, first) ==
  {f \in [new -> first .. first + Cardinality(new) - 1] : IsInjective(f)}

\* The link numbered g, and its server process, about to start.
Created(g, gen, w) ==
  LET d == CHOOSE e \in DOMAIN gen : gen[e] = g
  IN  [Unborn EXCEPT !.dir = d, !.peer = w[d], !.phase = "run"]

Fresh(w) == {d \in Dirs : w[d] # None /\ (isls[d] = None \/ link[isls[d]].peer # w[d])}
Stale(w) == {isls[d] : d \in {e \in Dirs : isls[e] # None /\ link[isls[e]].peer # w[e]}}

\* _hold_packet, one packet after the other: the first HoldRoom are kept.
Admitted(q) == SubSeq(q, 1, Min({Len(q), HoldRoom}))

Rematch(w, gen) ==
  LET old == Stale(w)
      new == Fresh(w)
      wired == [g \in Gens |-> IF g \in old THEN Retire(link[g])
                               ELSE IF g \in Range(gen) THEN Created(g, gen, w)
                               ELSE link[g]]
      gone == {g \in retired \cup old : Drained(wired[g])}
  IN  /\ ~ raised /\ due /\ due' = FALSE
      /\ seq + Cardinality(new) =< LastGen + 1
      /\ IF Fits(new)
         THEN /\ link' = wired
              /\ isls' = [d \in Dirs |-> IF d \in new THEN gen[d]
                                         ELSE IF w[d] = None THEN None ELSE isls[d]]
              /\ seq' = seq + Cardinality(new)
              /\ \E freed \in Chained({link[g].data : g \in old}) :
                   /\ hold' = Admitted(hold \o freed)
                   /\ fate' = [p \in Packets |->
                                 IF p \in Range(hold \o freed) \ Range(hold') THEN "overflow" ELSE fate[p]]
              /\ retired' = (retired \cup old) \ gone
              /\ drains' = drains + Cardinality(gone)
              /\ UNCHANGED raised
         ELSE raised' = TRUE /\ UNCHANGED <<link, isls, seq, hold, fate, retired, drains>>
      /\ UNCHANGED <<now, reach, endpoints>>

\* A trace cell becomes active.
EnsureEndpoint ==
  /\ ~ raised /\ endpoints < MaxEndpoints
  /\ IF LiveEntities >= MaxEntities THEN raised' = TRUE /\ UNCHANGED endpoints
     ELSE endpoints' = endpoints + 1 /\ UNCHANGED raised
  /\ UNCHANGED <<now, reach, link, isls, retired, seq, drains, hold, fate, due>>

Settled == ~ due /\ \A g \in Gens : ~ Resumable(g)

Advance(r) ==
  /\ ~ raised /\ now < Horizon /\ Settled
  /\ now' = now + 1
  /\ reach' = r
  /\ due' = ((now + 1) % Interval = 0 /\ now + 1 < Horizon)
  /\ UNCHANGED <<link, isls, retired, seq, drains, endpoints, hold, fate, raised>>

\* The horizon, or the cap, ends the run.
Stopped == (raised \/ (now = Horizon /\ Settled)) /\ UNCHANGED vars

Init ==
  /\ now = 0 /\ reach \in Reaches /\ due = FALSE /\ raised = FALSE
  /\ \E w \in Wirings :
       LET new == {d \in Dirs : w[d] # None}
       IN  \E gen \in Numberings(new, 0) :
             /\ Cardinality(new) =< MaxEntities /\ Cardinality(new) =< LastGen + 1
             /\ seq = Cardinality(new)
             /\ link = [g \in Gens |-> IF g \in Range(gen) THEN Created(g, gen, w) ELSE Unborn]
             /\ isls = [d \in Dirs |-> IF d \in new THEN gen[d] ELSE None]
  /\ retired = {} /\ drains = 0 /\ endpoints = 0
  /\ hold = <<>> /\ fate = [p \in Packets |-> "new"]

Next ==
  \/ \E g \in Gens : RunServer(g)
  \/ \E d \in Dirs, p \in Ctrl : PutCtrl(d, p)
  \/ \E p \in Data, cands \in SUBSET Dirs : Decide(p, cands)
  \/ \E w \in Wirings : \E gen \in Numberings(Fresh(w), seq) : Rematch(w, gen)
  \/ EnsureEndpoint
  \/ \E r \in Reaches : Advance(r)
  \/ Stopped

Spec == Init /\ [][Next]_vars

-----------------------------------------------------------------------------
(* Properties.                                                             *)

OnAir(d) == {g \in Gens : link[g].dir = d /\ link[g].air # None}

\* One transceiver per direction: two generations never transmit at once,
\* even when a gated successor is itself retired by a second rematch.
OneTransceiver == \A d \in Dirs : \A g, h \in OnAir(d) : g = h

\* A packet that entered the satellite's egress is in one queue, in service,
\* held, or has its fate: a rematch neither loses nor duplicates one.
PacketOnce ==
  \A p \in Packets :
    Cardinality({x \in Gens \X (1 .. Room) :
                   \/ x[2] \in DOMAIN link[x[1]].data /\ link[x[1]].data[x[2]] = p
                   \/ x[2] \in DOMAIN link[x[1]].ctrl /\ link[x[1]].ctrl[x[2]] = p})
    + Cardinality({g \in Gens : link[g].air = p})
    + Cardinality({i \in DOMAIN hold : hold[i] = p})
    = IF fate[p] = "live" THEN 1 ELSE 0

\* The counters of _live_entity_count agree with the links that exist.
EntitiesExact ==
  LiveEntities = endpoints + Cardinality(Live) + Cardinality(retired)

\* Lazy endpoints and rematches together never exceed max_entities.
EntityCap == LiveEntities =< MaxEntities

\* The bit caps of the egress queues and of the holding queue.
QueuesFit == Len(hold) =< HoldRoom /\ \A g \in Gens : Used(link[g]) =< Room

\* No operation breaks the books: the types, one place for each packet, queues
\* within their bounds, and a count of entities that is exact and capped.
BooksBalance == TypeOK /\ PacketOnce /\ QueuesFit /\ EntitiesExact /\ EntityCap

\* "every queued packet expires at its own deadline/TTL": when the clock
\* moves, only a server that is transmitting may hold an expired packet.
ExpiresInTime ==
  [][now' # now => \A g \in Gens : \A p \in Queued(link[g]) :
       Expired(p) => link[g].phase = "tx"]_vars

\* When the clock moves, a generation that has something to send, its link up
\* and the transceiver to itself is transmitting: no wake-up is lost.
NoIdleTransceiver ==
  [][now' # now => \A g \in Gens :
       Queued(link[g]) # {} /\ Available(link[g]) /\ OlderBusy(g) = {} => link[g].phase = "tx"]_vars

\* The transceiver of each direction serves its generations one at a time and
\* in the order of their rematches.
Serving(d) == {g \in Gens : link[g].dir = d /\ (g = isls[d] \/ ~ Drained(link[g]))}
Oldest(d) == Min(Serving(d) \cup {seq})
Ordered == INSTANCE TransceiverOrder WITH
  front <- [d \in Dirs |-> Oldest(d)],
  onAir <- [d \in Dirs |-> IF OnAir(d) = {} THEN None ELSE CHOOSE g \in OnAir(d) : TRUE]
GenerationsInOrder == Ordered!Spec

=============================================================================
