----------------------------- MODULE FairAccess -----------------------------
(***************************************************************************)
(* Finite fair access of the kernel: which endpoints hold the K slots of   *)
(* each satellite, who waits for one, how a holder rotates out (lease,     *)
(* idle release, make-before-break or break-before-make handover) and how  *)
(* the shared uplink server serves the endpoints' queues meanwhile.        *)
(*                                                                         *)
(* The kernel is one SimPy event loop: a handler runs from one yield to    *)
(* the next without interruption, and handlers due at the same instant run *)
(* in an order that depends on when each was scheduled.  An action below   *)
(* is one such uninterrupted stretch; the order at one instant is left     *)
(* open.  Time is counted in integer units and moves only when nothing is  *)
(* left to do at the current instant.  A handler that chains helpers is a  *)
(* composition of operators on the record acc of the access state.         *)
(*                                                                         *)
(* Left to the environment: geometry (sky, any of Skies at every instant), *)
(* the hysteresis comparison, the DRR choice among servable endpoints, and *)
(* the routing side, which gives and takes a satellite's downlink traffic. *)
(***************************************************************************)
EXTENDS Integers, Sequences, FiniteSets, Functions, SequencesExt

CONSTANTS Cells,         \* endpoints; their numbers order the grid cells
          DownCells,     \* the endpoints downlink traffic may be destined to
          Sats, Packets,
          Skies,         \* visible satellites per cell, best elevation first
          Slots, QueueMax,
          Acquisition, Lease, IdleRelease, MinDwell, RetireDelay,
          RetiringLimit, TimeStep, TxTime,
          Mbb, Reject,   \* association = "mbb", unavailable_policy = "reject"
          Horizon,
          None

ASSUME CellsAssumption == Cells \subseteq Nat /\ IsFiniteSet(Cells) /\ DownCells \subseteq Cells
ASSUME PacketsAssumption == Packets \subseteq Nat
ASSUME SkiesAssumption == IsFiniteSet(Sats) /\ Skies \subseteq [Cells -> Seq(Sats)]
\* load_config refuses any other values.
ASSUME ConfigAssumption ==
  /\ Slots \in Nat \ {0} /\ QueueMax \in Nat /\ RetiringLimit \in Nat
  /\ Acquisition \in Nat /\ MinDwell \in Nat
  /\ Lease \in Nat \ {0} /\ IdleRelease \in Nat \ {0}
  /\ RetireDelay \in Nat \ {0} /\ TimeStep \in Nat \ {0} /\ TxTime \in Nat \ {0}
  /\ Mbb \in BOOLEAN /\ Reject \in BOOLEAN /\ (Mbb => RetiringLimit > 0)
  /\ Horizon \in Nat
ASSUME NoneAssumption == None \notin Sats \cup Cells \cup Nat /\ Sats \cap Cells = {}

VARIABLES
  now,      \* env.now
  sky,      \* the visible satellites of each cell, best elevation first
  acc,      \* the access state: links, slots, access_wait, queues, wakes
  up,       \* the uplink service each satellite is giving, or None
  down,     \* the downlink service each satellite is giving, or None
  held,     \* the cells each satellite holds (pending or queued) packets for
  busy,     \* access_last_busy
  born,     \* when the endpoint was created, None before
  due,      \* the endpoint and satellite tickers still to run at this instant
  sent,     \* the packets emitted so far
  fate      \* what became of a packet that left the endpoint queues

vars == <<now, sky, acc, up, down, held, busy, born, due, sent, fate>>

Times == 0 .. Horizon + Acquisition + RetireDelay + TxTime
Links == [state : {"none", "acquiring", "active", "retiring"}, since : Nat, due : Nat]
Requests == [t : Nat, n : Nat]
Services == [cell : Cells, pkt : Packets, since : Times,
             retire : Times \cup {None}, ends : Times]
ASSUME ServicesAssumption == None \notin Services
NoLink == [state |-> "none", since |-> 0, due |-> 0]

\* The clock and the part of the access state that grants slots.
AccessTypeOK ==
  /\ now \in Nat
  /\ sky \in Skies
  /\ DOMAIN acc = {"links", "slots", "wait", "requests",
                   "queue", "assigned", "asleep", "watch"}
  /\ acc.links \in [Cells -> [Sats -> Links]]
  /\ acc.slots \in [Sats -> SUBSET Cells]
  /\ acc.wait \in [Sats -> [Cells -> Requests \cup {None}]]
  /\ acc.requests \in Nat

TypeOK ==
  /\ AccessTypeOK /\ now =< Horizon
  /\ \A c \in Cells : acc.queue[c] \in Seq(Packets)
  /\ acc.assigned \in [Packets -> Sats \cup {None}]
  /\ acc.asleep \in [Sats -> BOOLEAN] /\ acc.watch \in [Sats -> SUBSET Cells]
  /\ up \in [Sats -> Services \cup {None}]
  /\ down \in [Sats -> [cell : Cells, since : Times,
                        retire : Times \cup {None}, ends : Times] \cup {None}]
  /\ held \in [Sats -> SUBSET DownCells]
  /\ busy \in [Cells -> Times] /\ born \in [Cells -> Times \cup {None}]
  /\ due \subseteq Cells \cup Sats
  /\ sent \subseteq Packets
  /\ fate \in [Packets -> {"none", "ingress", "rejected", "overflow", "lost"}]

-----------------------------------------------------------------------------
(* Reading the access state.                                               *)

Linked(a, c) == {s \in Sats : a.links[c][s].state # "none"}
Retiring(a, c) == {s \in Sats : a.links[c][s].state = "retiring"}
Primaries(a, c) == {s \in Sats : a.links[c][s].state \in {"acquiring", "active"}}
Primary(a, c) == CHOOSE s \in Primaries(a, c) :
                   \A r \in Primaries(a, c) : a.links[c][r].since =< a.links[c][s].since

Visible(c) == Range(sky[c])
\* Mutant: one endpoint too many.
FreeMutant(a, s) == Cardinality(a.slots[s]) =< Slots
Free(a, s) == Cardinality(a.slots[s]) < Slots
\* access_wait is a dict: a request has its time t and its insertion rank n.
Waiters(a, s) == {c \in Cells : a.wait[s][c] # None}

InService(c, s) == \/ up[s] # None /\ up[s].cell = c
                   \/ down[s] # None /\ down[s].cell = c

DownlinkDemandSats(c) == {s \in Sats : c \in held[s]}
Demand(a, c) == a.queue[c] # <<>> \/ DownlinkDemandSats(c) # {}

Higher(c, r, s) == \E i, j \in DOMAIN sky[c] : i < j /\ sky[c][i] = r /\ sky[c][j] = s
Highest(c, S) == CHOOSE s \in S : \A r \in S \ {s} : Higher(c, s, r)

\* The candidate order: satellites already holding the endpoint's downlink
\* traffic first, then by elevation.
FirstCandidate(c, S) ==
  LET serving == S \cap DownlinkDemandSats(c)
  IN  Highest(c, IF serving # {} THEN serving ELSE S)

\* Mutant: any waiter takes the slot, in the order of the tickers.
IsOldestMutant(a, s, c) == c \in Waiters(a, s)
\* c is min(waiters.items(), key = (request time, cell)).
IsOldest(a, s, c) ==
  /\ c \in Waiters(a, s)
  /\ \A d \in Waiters(a, s) :
       \/ a.wait[s][c].t < a.wait[s][d].t
       \/ a.wait[s][c].t = a.wait[s][d].t /\ c =< d

-----------------------------------------------------------------------------
(* Steps on the access state, shared by the handlers.                      *)

Poked(a, S) == [a EXCEPT !.asleep = [s \in Sats |-> @[s] /\ s \notin S]]

Associated(a, c, s) ==
  LET link == [state |-> IF Acquisition = 0 THEN "active" ELSE "acquiring",
               since |-> now, due |-> now + Acquisition]
      b == [a EXCEPT !.links[c][s] = link, !.slots[s] = @ \cup {c}]
  IN  IF Acquisition = 0 THEN Poked(b, {s}) ELSE b

Released(a, c, s) == [a EXCEPT !.links[c][s] = NoLink, !.slots[s] = @ \ {c}]

Retired(a, c, s) ==
  [a EXCEPT !.links[c][s].state = "retiring", !.links[c][s].due = now + RetireDelay]

\* Every queued packet of c assigned to s becomes free for a later association.
Unassigned(a, c, s) ==
  [a EXCEPT !.assigned =
     [p \in Packets |-> IF p \in Range(a.queue[c]) /\ @[p] = s THEN None ELSE @[p]]]

\* A free slot, and on a contended satellite the turn of c.
Grantable(a, c) ==
  {s \in Visible(c) : Free(a, s) /\ (Waiters(a, s) # {} => IsOldest(a, s, c))}

\* A grant ends the presence of c in every wait queue.
Granted(a, c, s) ==
  Associated([a EXCEPT !.wait = [r \in Sats |-> [@[r] EXCEPT ![c] = None]]], c, s)

TryGrant(a, c) ==
  IF Grantable(a, c) = {} THEN a ELSE Granted(a, c, FirstCandidate(c, Grantable(a, c)))

RequestOrGrant(a, c) ==
  IF Grantable(a, c) # {} THEN TryGrant(a, c)
  ELSE IF Visible(c) = {} THEN a
  ELSE LET s == FirstCandidate(c, Visible(c))
       IN  IF c \in Waiters(a, s) THEN a
           ELSE [a EXCEPT !.wait[s][c] = [t |-> now, n |-> a.requests],
                          !.requests = @ + 1]

-----------------------------------------------------------------------------
(* The endpoint ticker: access tick, then handover.                        *)

Idle(a, c) == ~ Demand(a, c) /\ \A s \in Linked(a, c) : ~ InService(c, s)

LeaseOver(a, c, s) == now - a.links[c][s].since >= Lease

\* Leases rotate and idle holders leave only while somebody waits there.
RotateOrLeave(a, c) ==
  LET contended == {s \in Sats : a.links[c][s].state = "active" /\ Waiters(a, s) # {}}
      rotate == {s \in contended : LeaseOver(a, c, s)}
      leave == IF Idle(a, c) /\ now - busy[c] >= IdleRelease
               THEN contended \ rotate ELSE {}
  IN  [a EXCEPT
         !.links[c] = [s \in Sats |->
            IF s \in rotate
            THEN [@[s] EXCEPT !.state = "retiring", !.due = now + RetireDelay]
            ELSE IF s \in leave THEN NoLink ELSE @[s]],
         !.slots = [s \in Sats |-> IF s \in leave THEN @[s] \ {c} ELSE @[s]]]

AccessTickEndpoint(a, c) ==
  LET b == RotateOrLeave(a, c)
  IN  IF Linked(b, c) # {} THEN b
      ELSE IF Demand(b, c) THEN RequestOrGrant(b, c)
      ELSE IF \A s \in Sats : Waiters(b, s) = {} THEN TryGrant(b, c)
      ELSE b

\* Mutant: the slot is not given back.
SettleRetiringMutant(a, c) ==
  LET gone == {s \in Retiring(a, c) : ~ InService(c, s)}
  IN  [a EXCEPT !.links[c] = [s \in Sats |-> IF s \in gone THEN NoLink ELSE @[s]]]
\* Retiring links that are drained, or past their deadline, and not in service.
SettleRetiring(a, c) ==
  LET drained(s) == \A p \in Range(a.queue[c]) : a.assigned[p] # s
      gone == {s \in Retiring(a, c) :
                 ~ InService(c, s) /\ (drained(s) \/ now >= a.links[c][s].due)}
  IN  [a EXCEPT
         !.links[c] = [s \in Sats |-> IF s \in gone THEN NoLink ELSE @[s]],
         !.slots = [s \in Sats |-> IF s \in gone THEN @[s] \ {c} ELSE @[s]],
         !.assigned = [p \in Packets |->
            IF p \in Range(a.queue[c]) /\ @[p] \in gone THEN None ELSE @[p]]]

\* steep: the best elevation exceeds the current one by the hysteresis.
WantsSwitch(a, c, steep) ==
  LET cur == Primary(a, c)
  IN  \/ cur \notin Visible(c)
      \/ /\ Highest(c, Visible(c)) # cur /\ steep
         /\ now - a.links[c][cur].since >= MinDwell

\* Mutant: break-before-make does not wait for the service in flight.
SwitchToMutant(a, c, cur, target) == Associated(Released(a, c, cur), c, target)
SwitchTo(a, c, cur, target) ==
  IF Mbb /\ cur \in Visible(c) /\ Cardinality(Retiring(a, c)) < RetiringLimit
  THEN LET b == [Retired(a, c, cur) EXCEPT !.assigned =
                   [p \in Packets |-> IF p \in Range(a.queue[c]) /\ @[p] = None
                                      THEN cur ELSE @[p]]]
       IN  Associated(b, c, target)
  ELSE IF InService(c, cur) THEN a
  ELSE Associated(Released(a, c, cur), c, target)

EvaluateHandover(a, c, steep) ==
  LET b == SettleRetiring(a, c)
      cur == Primary(b, c)
      targets == {s \in Visible(c) \ {cur} : Free(b, s)}
  IN  IF Primaries(b, c) = {} \/ ~ WantsSwitch(b, c, steep) THEN b
      ELSE IF targets # {} THEN SwitchTo(b, c, cur, Highest(c, targets))
      ELSE IF cur \notin Visible(c) THEN Released(b, c, cur) ELSE b

\* Mutant: the deadline is read once, when the service starts.
WithDeadlinesMutant(services, a) == services
\* A service carries the Link object it started on: when that link enters
\* retiring, the service sees the retirement deadline.
WithDeadlines(services, a) ==
  [s \in Sats |->
     IF services[s] = None THEN None
     ELSE LET link == a.links[services[s].cell][s]
          IN  IF link.state = "retiring" /\ link.since = services[s].since
              THEN [services[s] EXCEPT !.retire = link.due] ELSE services[s]]

EndpointTick(c, steep) ==
  /\ c \in due
  /\ due' = due \ {c}
  /\ acc' = EvaluateHandover(AccessTickEndpoint(acc, c), c, steep)
  /\ up' = WithDeadlines(up, acc') /\ down' = WithDeadlines(down, acc')
  /\ UNCHANGED <<now, sky, held, busy, born, sent, fate>>

-----------------------------------------------------------------------------
(* The satellite ticker grants freed slots in request order.               *)

\* Mutant: a request of an endpoint granted elsewhere is still served.
StaleRequestMutant(a, c) == ~ Demand(a, c)
StaleRequest(a, c) == Primaries(a, c) # {} \/ ~ Demand(a, c)

AccessTickSat(a, s) ==
  LET ahead(c) == {d \in Waiters(a, s) : a.wait[s][d].n < a.wait[s][c].n}
      stale(c) == StaleRequest(a, c)
      wanted == {c \in Waiters(a, s) : ~ stale(c) /\ s \in Visible(c)}
      room(c) == Cardinality(a.slots[s] \cup (ahead(c) \cap wanted)) < Slots
      \* the loop breaks at the first live request it meets with no slot left
      reached(c) == \A d \in ahead(c) : stale(d) \/ room(d)
      granted == {c \in wanted : reached(c) /\ room(c)}
      dropped == {c \in Waiters(a, s) : reached(c) /\ stale(c)}
      link == [state |-> IF Acquisition = 0 THEN "active" ELSE "acquiring",
               since |-> now, due |-> now + Acquisition]
      b == [a EXCEPT
              !.links = [c \in Cells |-> IF c \in granted THEN [@[c] EXCEPT ![s] = link] ELSE @[c]],
              !.slots[s] = @ \cup granted,
              !.wait[s] = [c \in Cells |-> IF c \in granted \cup dropped THEN None ELSE @[c]]]
  IN  IF granted # {} /\ Acquisition = 0 THEN Poked(b, {s}) ELSE b

SatTick(s) ==
  /\ s \in due
  /\ due' = due \ {s}
  /\ acc' = AccessTickSat(acc, s)
  /\ UNCHANGED <<now, sky, up, down, held, busy, born, sent, fate>>

-----------------------------------------------------------------------------
(* Link processes: the end of an acquisition, the retirement interrupt.    *)

ActivationDue(c, s) == acc.links[c][s].state = "acquiring" /\ now >= acc.links[c][s].due

ActivateAfterDelay(c, s) ==
  /\ ActivationDue(c, s)
  /\ acc' = Poked([acc EXCEPT !.links[c][s].state = "active"], {s})
  /\ UNCHANGED <<now, sky, up, down, held, busy, born, due, sent, fate>>

\* A service in flight retires the link itself, when it ends.
InterruptDue(c, s) == /\ acc.links[c][s].state = "retiring" /\ now >= acc.links[c][s].due
                      /\ ~ InService(c, s)

FireInterrupt(c, s) ==
  /\ InterruptDue(c, s)
  /\ acc' = Released(Unassigned(acc, c, s), c, s)
  /\ UNCHANGED <<now, sky, up, down, held, busy, born, due, sent, fate>>

OnLinkRetired(a, c, s) ==
  IF a.links[c][s].state = "retiring" /\ now >= a.links[c][s].due
  THEN Released(Unassigned(a, c, s), c, s) ELSE a

-----------------------------------------------------------------------------
(* The emitter of a cell.                                                  *)

Created(c) == /\ born' = [born EXCEPT ![c] = IF @ = None THEN now ELSE @]
              /\ due' = IF born[c] = None THEN due \cup {c} ELSE due

Enqueued(a, c, p) ==
  LET prim == Primaries(a, c)
      sat == IF prim # {} /\ a.links[c][Primary(a, c)].state = "active"
             THEN Primary(a, c) ELSE None
      b == [a EXCEPT !.assigned[p] = sat, !.queue[c] = Append(@, p)]
      d == IF prim = {} THEN RequestOrGrant(b, c) ELSE b
  IN  Poked(d, Linked(d, c))

Emit(c, p) ==
  /\ p \notin sent /\ \A r \in Packets : r < p => r \in sent
  /\ sent' = sent \cup {p}
  /\ Created(c)
  /\ \/ /\ Primaries(acc, c) = {} /\ Visible(c) = {} /\ Reject
        /\ fate' = [fate EXCEPT ![p] = "rejected"]
        /\ UNCHANGED <<acc, busy>>
     \/ /\ Primaries(acc, c) # {} \/ Visible(c) # {} \/ ~ Reject
        /\ Len(acc.queue[c]) >= QueueMax
        /\ fate' = [fate EXCEPT ![p] = "overflow"]
        /\ UNCHANGED <<acc, busy>>
     \/ /\ Primaries(acc, c) # {} \/ Visible(c) # {} \/ ~ Reject
        /\ Len(acc.queue[c]) < QueueMax
        /\ acc' = Enqueued(acc, c, p)
        /\ busy' = [busy EXCEPT ![c] = now]
        /\ UNCHANGED fate
  /\ UNCHANGED <<now, sky, up, down, held>>

-----------------------------------------------------------------------------
(* The uplink server of a satellite.                                       *)

Open(c, s) == /\ s \in Visible(c)
              /\ \/ acc.links[c][s].state = "active"
                 \/ acc.links[c][s].state = "retiring" /\ now < acc.links[c][s].due

\* A retiring link drains what is assigned to it; an active one also serves
\* what is assigned to nobody.
MayServe(c, s, p) ==
  acc.assigned[p] \in IF acc.links[c][s].state = "retiring" THEN {s} ELSE {None, s}

Serves(c, s) == Open(c, s) /\ \E p \in Range(acc.queue[c]) : MayServe(c, s, p)
\* Position i is that of the first packet the satellite may serve.
Pick(c, s, i) == /\ MayServe(c, s, acc.queue[c][i])
                 /\ \A j \in 1 .. i - 1 : ~ MayServe(c, s, acc.queue[c][j])

Service(c, s) == [cell |-> c, since |-> acc.links[c][s].since,
                  retire |-> IF acc.links[c][s].state = "retiring"
                             THEN acc.links[c][s].due ELSE None,
                  ends |-> now + TxTime]

StartUplink(c, s) ==
  /\ up[s] = None /\ ~ acc.asleep[s] /\ Serves(c, s)
  /\ \E i \in DOMAIN acc.queue[c] :
       LET p == acc.queue[c][i]
           sv == Service(c, s)
       IN  /\ Pick(c, s, i)
           /\ up' = [up EXCEPT ![s] = [cell |-> c, pkt |-> p, since |-> sv.since,
                                       retire |-> sv.retire, ends |-> sv.ends]]
           /\ acc' = [acc EXCEPT !.queue[c] = RemoveAt(@, i), !.assigned[p] = s]
  /\ busy' = [busy EXCEPT ![c] = now]
  /\ UNCHANGED <<now, sky, down, held, born, due, sent, fate>>

\* Mutant: the server keeps polling at the same instant.
PollUplinkMutant(s) ==
  /\ up[s] = None /\ ~ acc.asleep[s] /\ \A c \in Cells : ~ Serves(c, s)
  /\ UNCHANGED vars
\* Mutant: no timer for the recovery of a queued cell's geometry.
SleepUplinkMutant(s) ==
  /\ up[s] = None /\ ~ acc.asleep[s] /\ \A c \in Cells : ~ Serves(c, s)
  /\ acc' = [acc EXCEPT !.asleep[s] = TRUE, !.watch[s] = {}]
  /\ UNCHANGED <<now, sky, up, down, held, busy, born, due, sent, fate>>
\* Nothing to serve: wait for a poke, or for a geometry change of a cell
\* that has packets queued now.
SleepUplink(s) ==
  /\ up[s] = None /\ ~ acc.asleep[s] /\ \A c \in Cells : ~ Serves(c, s)
  /\ acc' = [acc EXCEPT !.asleep[s] = TRUE,
                        !.watch[s] = {c \in Cells : acc.queue[c] # <<>>}]
  /\ UNCHANGED <<now, sky, up, down, held, busy, born, due, sent, fate>>

\* The race of a service: retirement wins every tie, completion beats loss.
RetireWins(sv) == sv # None /\ sv.retire # None /\ now >= sv.retire
Completes(sv) == sv # None /\ ~ RetireWins(sv) /\ now >= sv.ends
Lost(sv, s) == sv # None /\ ~ RetireWins(sv) /\ now < sv.ends /\ s \notin Visible(sv.cell)
ServiceDue(sv, s) == RetireWins(sv) \/ Completes(sv) \/ Lost(sv, s)

\* Mutant: the partial transmission is taken for a completed one.
RequeuedMutant(a, c, p) == [a EXCEPT !.assigned[p] = None]
Requeued(a, c, p) == [a EXCEPT !.assigned[p] = None, !.queue[c] = <<p>> \o @]

UplinkRetired(s) ==
  /\ RetireWins(up[s])
  /\ LET c == up[s].cell
         d == OnLinkRetired(Requeued(acc, c, up[s].pkt), c, s)
     IN  /\ acc' = Poked(d, Linked(d, c))
         /\ busy' = [busy EXCEPT ![c] = now]
  /\ up' = [up EXCEPT ![s] = None]
  /\ UNCHANGED <<now, sky, down, held, born, due, sent, fate>>

UplinkEnds(s) ==
  /\ \/ Completes(up[s]) /\ fate' = [fate EXCEPT ![up[s].pkt] = "ingress"]
     \/ Lost(up[s], s) /\ fate' = [fate EXCEPT ![up[s].pkt] = "lost"]
  /\ up' = [up EXCEPT ![s] = None]
  /\ UNCHANGED <<now, sky, acc, down, held, busy, born, due, sent>>

-----------------------------------------------------------------------------
(* Downlink traffic of a satellite, as the access manager sees it.         *)

DemandArrives(c, s) ==
  /\ c \in DownCells \ held[s]
  /\ held' = [held EXCEPT ![s] = @ \cup {c}]
  /\ busy' = [busy EXCEPT ![c] = now]
  /\ Created(c)
  /\ UNCHANGED <<now, sky, acc, up, down, sent, fate>>

DemandLeaves(c, s) ==
  /\ c \in held[s]
  /\ held' = [held EXCEPT ![s] = @ \ {c}]
  /\ UNCHANGED <<now, sky, acc, up, down, busy, born, due, sent, fate>>

StartDownlink(c, s) ==
  /\ down[s] = None /\ c \in held[s] /\ Open(c, s)
  /\ down' = [down EXCEPT ![s] = Service(c, s)]
  /\ \/ held' = [held EXCEPT ![s] = @ \ {c}]
     \/ UNCHANGED held
  /\ UNCHANGED <<now, sky, acc, up, busy, born, due, sent, fate>>

\* The packet goes back to the satellite's holding queue, if it has room.
DownlinkRetired(s) ==
  /\ RetireWins(down[s])
  /\ \/ /\ held' = [held EXCEPT ![s] = @ \cup {down[s].cell}]
        /\ busy' = [busy EXCEPT ![down[s].cell] = now]
     \/ UNCHANGED <<held, busy>>
  /\ acc' = OnLinkRetired(acc, down[s].cell, s)
  /\ down' = [down EXCEPT ![s] = None]
  /\ UNCHANGED <<now, sky, up, born, due, sent, fate>>

DownlinkEnds(s) ==
  /\ Completes(down[s]) \/ Lost(down[s], s)
  /\ down' = [down EXCEPT ![s] = None]
  /\ UNCHANGED <<now, sky, acc, up, held, busy, born, due, sent, fate>>

-----------------------------------------------------------------------------
(* The clock.                                                              *)

Settled ==
  /\ due = {}
  /\ \A s \in Sats : /\ ~ ServiceDue(up[s], s) /\ ~ ServiceDue(down[s], s)
                     /\ up[s] = None => acc.asleep[s]
  /\ \A c \in Cells, s \in Sats : ~ ActivationDue(c, s) /\ ~ InterruptDue(c, s)

TickersDue(t) ==
  {c \in Cells : born[c] # None /\ (t - born[c]) % TimeStep = 0}
  \cup {s \in Sats : t % TimeStep = 0}

Advance(sky2) ==
  /\ now < Horizon /\ Settled
  /\ now' = now + 1
  /\ sky' = sky2
  /\ due' = TickersDue(now + 1)
  /\ acc' = Poked(acc, {s \in Sats : \E c \in acc.watch[s] :
                          (s \in Range(sky[c])) # (s \in Range(sky2[c]))})
  /\ UNCHANGED <<up, down, held, busy, born, sent, fate>>

\* The horizon closes the run.
Closed == now = Horizon /\ Settled /\ UNCHANGED vars

Init ==
  /\ now = 0
  /\ sky \in Skies
  /\ acc = [links |-> [c \in Cells |-> [s \in Sats |-> NoLink]],
            slots |-> [s \in Sats |-> {}],
            wait |-> [s \in Sats |-> [c \in Cells |-> None]],
            requests |-> 0,
            queue |-> [c \in Cells |-> <<>>],
            assigned |-> [p \in Packets |-> None],
            asleep |-> [s \in Sats |-> FALSE],
            watch |-> [s \in Sats |-> {}]]
  /\ up = [s \in Sats |-> None]
  /\ down = [s \in Sats |-> None]
  /\ held = [s \in Sats |-> {}]
  /\ busy = [c \in Cells |-> 0]
  /\ born = [c \in Cells |-> None]
  /\ due = {}
  /\ sent = {}
  /\ fate = [p \in Packets |-> "none"]

EndpointStep(c) ==
  \/ \E steep \in BOOLEAN : EndpointTick(c, steep)
  \/ \E s \in Sats : \/ ActivateAfterDelay(c, s)
                     \/ FireInterrupt(c, s)
                     \/ StartUplink(c, s)

SatStep(s) ==
  \/ SatTick(s)
  \/ SleepUplink(s)
  \/ UplinkRetired(s)
  \/ UplinkEnds(s)
  \/ DownlinkRetired(s)
  \/ DownlinkEnds(s)

Environment ==
  \/ \E c \in Cells, p \in Packets : Emit(c, p)
  \/ \E c \in Cells, s \in Sats : \/ DemandArrives(c, s)
                                  \/ DemandLeaves(c, s)
                                  \/ StartDownlink(c, s)

Next ==
  \/ \E c \in Cells : EndpointStep(c)
  \/ \E s \in Sats : SatStep(s)
  \/ Environment
  \/ \E sky2 \in Skies : Advance(sky2)
  \/ Closed

Spec == Init /\ [][Next]_vars

\* The event loop runs whatever is scheduled: every due step of a process is
\* taken, and the clock moves on once nothing is due.
Fairness ==
  /\ \A c \in Cells : WF_vars(EndpointStep(c))
  /\ \A s \in Sats : WF_vars(SatStep(s))
  /\ WF_vars(\E sky2 \in Skies : Advance(sky2))

FairSpec == Spec /\ Fairness

-----------------------------------------------------------------------------
(* Properties.                                                             *)

\* A satellite's slot set is exactly the endpoints that have a link to it:
\* no release, rotation or handover forgets one side (slots and ep.links).
SlotsAreLinks ==
  \A s \in Sats, c \in Cells : c \in acc.slots[s] <=> s \in Linked(acc, c)

\* No satellite ever holds more than K endpoints (slots_per_satellite),
\* whichever of the five grant paths was taken.
SlotCapacity == \A s \in Sats : Cardinality(acc.slots[s]) =< Slots

\* primary_link() never has to choose: the access manager and the handover
\* never leave an endpoint with two non-retiring links.
AtMostOnePrimary == \A c \in Cells : Cardinality(Primaries(acc, c)) =< 1

\* A satellite serves only an endpoint that holds one of its slots, except
\* for a service that ends at this very instant (it is due to retire, or
\* geometry has just taken the link away): no release preempts a service.
ServiceHoldsSlot ==
  \A s \in Sats, sv \in {up, down} :
    sv[s] # None => sv[s].cell \in acc.slots[s] \/ ServiceDue(sv[s], s)

\* A packet that was emitted is in one endpoint queue once, or in one uplink
\* service, or has its fate: a requeue after retirement neither duplicates
\* nor loses it.
PacketInOnePlace ==
  \A p \in Packets :
    Cardinality({x \in UNION {{c} \X DOMAIN acc.queue[c] : c \in Cells} :
                   acc.queue[x[1]][x[2]] = p})
    + Cardinality({s \in Sats : up[s] # None /\ up[s].pkt = p})
    + (IF fate[p] # "none" THEN 1 ELSE 0)
    = IF p \in sent THEN 1 ELSE 0

\* Every packet is kept, in a well-formed state: the types hold and nothing
\* that handles an endpoint queue duplicates or loses a packet.
PacketsAreKept == TypeOK /\ PacketInOnePlace

\* "never used past retire_at": the deadline is exact.  A retiring link is gone
\* by then, not a ticker period later, and a service on it has ended, also when
\* the link entered retiring in mid-service (_transmit, _on_link_retired).
RetirementIsPrompt ==
  \A c \in Cells, s \in Sats :
    acc.links[c][s].state = "retiring" => now =< acc.links[c][s].due

\* The new links of b pass no older request for the same satellite.
FairGrants(a, b) ==
  \A s \in Sats, c \in Cells :
    s \in Linked(b, c) \ Linked(a, c) /\ Primaries(a, c) = {} =>
      \A d \in Waiters(a, s) \ {c} :
        \/ s \notin Visible(d) \/ Primaries(a, d) # {} \/ ~ Demand(a, d)
        \/ d \in b.slots[s]
        \/ c \in Waiters(a, s) /\ a.wait[s][c].t =< a.wait[s][d].t

\* While somebody waits at a satellite, a slot it grants goes to the oldest
\* request whose endpoint it sees and that still wants a link.  A handover
\* (of an endpoint that has a link already) takes a free slot without asking.
FifoGrants == [][FairGrants(acc, acc')]_vars

\* A retirement of a link of c ends that has packets bound to it (assigned_sat).
RetirementEnds(c) ==
  \E p \in Range(acc.queue[c]) : acc.assigned[p] \in Retiring(acc, c) \ Retiring(acc', c)

\* The link began to retire before it was ever active.
NeverActive(link) ==
  link.state = "retiring" /\ link.due =< link.since + Acquisition + RetireDelay

\* Whatever lets a sleeping uplink server serve an endpoint wakes it: an
\* activation, an emission, a requeue, a recovery of geometry.  The code has
\* two gaps, and only these.
NoLostWakeup ==
  [][\A s \in Sats, c \in Cells :
       acc.asleep[s] /\ acc'.asleep[s] /\ ~ Serves(c, s) /\ Serves(c, s)' =>
         RetirementEnds(c) \/ NeverActive(acc'.links[c][s])]_vars

\* The event loop always reaches the horizon: no server or ticker keeps
\* rescheduling itself at one instant.
ReachesHorizon == <>(now = Horizon)

=============================================================================
