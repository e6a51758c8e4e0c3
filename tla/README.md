# Formal models of the LEO experiment platform

This directory is the verification project of the platform in `src/`: TLA+
modules that model its state machines, TLC configurations that check them on
small instances, and TLAPS proofs for every value of the constants. The code is
the reference; where a comment or a document says something else, the models
follow the code and a run shows the difference.

Read this file top to bottom once: the inventory of the system, the plan, then
one section per module (correspondence with the code, runs, bounds, fairness,
proofs, what is left out).

## 1. Inventory of the system

The repository is a Python platform that compiles a demand trace, simulates a
LEO constellation on it packet by packet under several routing algorithms,
and carries the results through a fail-closed chain of release, launch,
pullback and analysis. `CHARTER.md` asks five things of a run: replayable,
traceable, intervenable, attributable, cost-quantifiable.

### 1.1 The simulation kernel (`CODE/leo_sim/kernel.py` and its helpers)

One SimPy event loop: a single thread, processes that run from one `yield` to
the next without interruption, and events of one instant processed in the order
they were scheduled. All the kernel's concurrency is the interleaving of those
stretches.

| component | state | operations | talks to |
|---|---|---|---|
| fair access (`_access_tick_*`, `_try_grant`, `_evaluate_handover`, `_fire_interrupt`) | `slots[sat]`, `access_wait[sat]`, `ep.links`, `access_last_busy` | request, grant, rotate after a lease, idle release, make/break handover, retirement deadline | endpoint queues, uplink/downlink servers, geometry |
| endpoint queue and uplink/downlink servers (`UplinkServer`, `DownlinkServer`, `DRR`) | `queue`, `assigned_sat`, DRR deficits, the packet in service, wake events | enqueue, pick, transmit, requeue after retirement, drop | access (links and deadlines), satellites' decisions, downlink demand |
| inter-satellite links (`ISLLink`, `_recompute_topology`, `_purge_drained_retired`) | per directed link: data and control queues, `retired`, `drained`, the packet on air; generation per (sat, dir); live entity count | put, transmit, expire, retire and drain a generation, start the next, purge | routing decisions, holding queues, control plane |
| packet lifecycle (`_node_process`, `_decide`, `_redecide_pending`, holding queues, `_fail`, `run`'s stop settlement, `fates.py`) | where each live packet is, its deadline, the fate ledger | decide, forward, hold, redecide, deliver, expire, settle at stop | every queue of the kernel |
| control plane (`control.py`, `_advertise`, `_ctrl_arrive_after_prop`) | per satellite cache of neighbour state, serial generator, TTL, per-domain flood | generate, forward, absorb, expire by age | ISL control queues, routing observations |
| deferred (asynchronous) decisions (`decide_deferred`, `_decide_from_frozen_observation`) | frozen observation, query service queue, pending installs | observe, compute, install or refuse | async schedule manager, caches |
| async schedule manager (`async_routing.py`) | `computing`, `pending`, the installed version | trigger, merge, finish, install or refuse | kernel glue `_async_trigger`, `_async_compute` |
| joint plan (`q0.py`, `validate_joint_plan`, `apply_joint_plan`) | plan id, steps, serving changes | validate, apply all or nothing | access, routing tables |
| learning (`learning.py`, `inference.py`, `deadline_objective.py`) | open transitions per decision, replay buffer, online and target network | open, close, sample, train, copy target | decisions, fates |
| routing policies (`routing.py`, `bp_heuristic.py`) | none (pure scoring), route caches per flow | rank candidates | caches, geometry |
| outage and link budget (`outage.py`, `link_budget.py`) | Gilbert-Elliott state per link | step, rate for a distance | ISL and access transmissions |
| geometry and traffic (`model.py`, `grid.py`, `population.py`, `rng.py`, `trace*.py`, `coverage.py`) | none after compilation | compile a trace, positions at t | the kernel's inputs |
| ledgers and metrics (`decision_ledger.py`, `metrics*.py`, `recompute.py`, `receipt.py`, `scene_check.py`) | JSON artifacts | fold, recompute independently, verify | artifacts of a run |

### 1.2 The experiment platform (`CODE/experiment_platform`)

| component | state | operations |
|---|---|---|
| T1 suite (`t1_suite.py`, `t1_development.py`, `t1_tasks.py`) | on disk: plan, per-run directories, receipts, progress | compile, validate, run, resume, report |
| compile and authorise (`compile_experiment.py`, `authorize_experiment.py`, `v2_serial_gate.py`, `launch_manifest.py`) | immutable plans, authorisations bound to hashes, the predecessor's acceptance | compile, authorise, re-verify, refuse |
| code pointer and identity (`code_pointer.py`, `artifact_identity.py`) | the one mutable pointer; hashes | read, advance, verify |
| replay storage (`replay_sidecar.py`, `replay_codec.py`) | line-delimited sidecar | append, close, read back |
| accounting (`run_with_accounting.py`, `fold_decision_ledger.py`) | wall-clock ledgers | run a child, account |
| design selection and statistics (`design_selection.py`, `t1_stats.py`, `outcome_metrics.py`, `v2_analysis.py`, `ANALYSIS/paired_analysis.py`) | none (pure) | select, freeze, summarise |
| diagnostics (probes, calibrations, reports, figures) | none | read artifacts, write reports |

### 1.3 Deployment and remote runs (`CODE/scripts`)

| component | state | operations |
|---|---|---|
| deployment guard (`deployment_guard.py`) | workspace `CODE`, its `Results`, backup, receipt | build, install, verify |
| release protocol (`release_protocol.py`) | `incoming`, `releases`, `quarantine`, run directories and manifests, resource locks, deployment index | prepare, install, quarantine, run, verify, pull back, index |
| remote launch (`remote_job.py`, `run-remote.sh`, `status-remote.sh`) | per-run status JSON, `current_status.json`, a tmux session | prepare, run, fail, read |
| pullback (`pull-results-remote.sh`, `safe_extract_results.py`, `leo_sim/pullback.py`, `verify-pulled-run.py`) | staged tar, admitted results | stage, verify, admit |
| run index and maintenance (`index_runs.py`, `maintenance_check.py`, `three_end_check.py`) | none (read only) | scan, compare |

### 1.4 What is hard here

* **Interleavings at one instant.** Handlers of different processes are due at
  the same simulated time (tickers with a common period, a retirement deadline
  and a completion, a topology change and an arrival). Unit tests fix one order.
* **Objects that outlive their table entry.** A service keeps its `Link`, a
  retired ISL generation keeps draining while the next one is live, a frozen
  observation is used after its decision instant.
* **Two records of one fact.** `slots` and `ep.links`, a packet and its
  `assigned_sat`, the fate ledger and the queues, the live-entity count and the
  sets it counts, `status.json` and `current_status.json`.
* **Wake-ups.** Servers sleep on events that other handlers must remember to fire.
* **Crashes and concurrent operators** around the release, install and launch
  scripts: rename-based commits, receipts written last, locks, partial moves.

### 1.5 What makes each part correct

* Fair access: slots agree with links, never more than K, one primary link per
  endpoint, retirement deadlines are hard, no service loses its slot, requests
  are served first come first served.
* Queues and packets: every emitted packet is in exactly one place until its one
  fate; a deadline is honoured wherever it waits; no servable packet sleeps.
* ISL generations: one transceiver per direction, no packet is lost or
  duplicated by a topology change, the entity count is exact and stays bounded.
* Control plane: knowledge never ages, a flood ends within `vis_k` hops and is relayed
  once per satellite, a change is reported, and what is reported arrives.
* Async schedules: one update per scope is on its way, none is forgotten, a table
  answers no longer than planned.
* Joint plans: a plan acts on the state it was made from, within every queue's room.
* Learning: every decision closes exactly once, with a reward that was earned;
  a chain of runs trains as one run would.
* T1 suite: a success is on disk and accounted for, evidence is not overwritten,
  what is settled is not run again.
* Releases and runs: a published release is complete and immutable, a run id is
  used once, a receipt is final, evidence is indexed only when whole.
* Deployment and launch: results survive a redeployment, cells succeed in order
  under one deployment, one success per cell, two status files that agree.

## 2. Plan

The order puts the behaviour that every experiment depends on first: who may
transmit (slots), what the links do with a packet when the topology changes
under them, and where a packet is until its one fate. Then how information reaches
the decisions and what learners make of them, then the chain that carries code out
and results back.

| # | module | models | composes / refines | status |
|---|---|---|---|---|
| 1 | `FairAccess` | slots, wait queues, handover, endpoint queues, access servers | - | done, 9 theorems |
| 2 | `ISLSlots` | ISL generations of one satellite, expiry, entity cap | refines `TransceiverOrder` | done, 6 theorems (one the refinement) |
|   | `Queues` | what a loop over a queue leaves | used by 2 and 3 | done, lemmas in `QueueProofs` |
| 3 | `PacketJourney` | deferred decisions, compute pool, holding, rematch, stop | the path of a packet over 1 and 2, whose servers it abstracts | done, 4 theorems |
| 4 | `ControlFlood` | advertisements, relay trees, caches | composed in `MCInformation` | done, 4 theorems |
| 5 | `AsyncSchedule` | background schedules: request, compute, install | composed in `MCInformation` | done, 1 theorem |
| 6 | `JointPlan` | snapshot, validate and apply a plan | composed in `MCInformation` | done, 1 theorem |
| 7 | `LearningEpisodes` | transitions, rewards, episode watches, the learner over several runs | the places of a packet of 3 | done, 5 theorems |
| 8 | `CallLedger`, `SuiteRun` | the T1 suite and its children | `SuiteRun` extends `CallLedger` | done, 5 theorems |
| 9 | `ReleaseStore`, `RunRelease`, `EvidencePull` | publish, run, pull back | chained in `MCReleaseChain` | done, 6 theorems |
| 10 | `DeploymentInstall`, `RemoteLaunch` | installations under formal launches, the serial gate | `RemoteLaunch` extends `DeploymentInstall` | done, 5 theorems |

Every invariant and every action property that a run checks is proved; what stays with TLC
is liveness (section 11). What is left of the plan are further parts of the system: the planners behind `JointPlan`, the scopes of
the T1 tasks, and the receipts that fold a finished run.

Conventions: one action is one uninterrupted stretch of a SimPy process, or the
steps of a script between two file-system calls that another process can observe;
helpers of the code are operators on a record of the state they change, so that an
action is the composition the handler is. Time is a natural number that moves
only when nothing is due. A definition whose name ends in `Mutant` is a
plausible bug in the definition after it; every property is broken by one.


## 3. FairAccess: slots, handover and the access servers

`FairAccess` models the constant-rate access path of `kernel.py` for any number
of endpoints, satellites and slots. `MCFairAccess` gives the instances.

### Correspondence

| model | code |
|---|---|
| `acc.links[c][s]` | `ep.links`, a `Link` with `state`, `since`, and one `due` for `active_at` or `retire_at` |
| `acc.slots`, `acc.wait`, `acc.requests` | `slots`, `access_wait` (a dict: time and insertion rank) |
| `acc.queue`, `acc.assigned` | `ep.queue`, `assigned_sat` |
| `acc.asleep`, `acc.watch` | an `UplinkServer` waiting on its wake event, and the endpoints whose geometry it watches |
| `up[s]`, `down[s]` | the service of `_transmit`: its cell, packet, link (by `since`), the retirement deadline it races, its end |
| `EndpointTick` | `_endpoint_ticker`: `_access_tick_endpoint`, then `_evaluate_handover` |
| `SatTick` | `_pending_ticker`: `_access_tick_sat` |
| `ActivateAfterDelay`, `FireInterrupt` | the processes of those names |
| `StartUplink`, `SleepUplink`, `UplinkRetired`, `UplinkEnds` | `UplinkServer._run` between its yields |
| `StartDownlink`, `DownlinkRetired`, `DownlinkEnds` | `DownlinkServer._run` |
| `Emit` | `_emitter`, with the lazy creation of the endpoint |
| `DemandArrives`, `DemandLeaves` | a satellite begins or stops to hold packets for a cell (`held`) |
| `Advance` | the clock of `run()`; the sky may change |

Chosen freely: the sky (any of `Skies` at each instant), whether the
elevation difference passes the hysteresis, and which servable endpoint the
deficit round robin picks.

### Runs

| run | instance | what it shows |
|---|---|---|
| `access_mbb` | 2 endpoints, 2 satellites of 1 slot, make-before-break, `MovingSkies` | slots and links agree, one primary link, retirement deadlines hold for links and services, packets are neither lost nor doubled, a sleeping uplink server is woken |
| `access_bbm` | break-before-make, `reject` policy, queue of 1, coverage gaps, uplink and downlink demand | no service without a slot |
| `access_fifo` | 3 endpoints on 1 satellite, `FairSpec` | the slot bound; the oldest request is granted first; the clock reaches the horizon |

`PacketsAreKept` is the type invariant together with `PacketInOnePlace`.
`NoLostWakeup` says that a step which lets a sleeping uplink server serve an endpoint
wakes it, with two gaps that the code has in both handover modes. Where a retirement ends
(`_fire_interrupt`, the settling in `_evaluate_handover`, `_on_link_retired` of either
server), the packets bound to that satellite are freed and another server that holds a link
may now pick them; only the server that ends its own service looks again. And a link that
begins to retire before it was active has never poked its server. In both the server sleeps
until the next poke (an emission, another link); the packets wait that long. Without either
exception the property fails in `access_mbb`. `FifoGrants` is about endpoints that had no
link: a handover takes a free slot directly and passes the waiters.

Three habits of the code are in the model and stated by no property. A
break-before-make switch, and the loss of geometry without a candidate, release the
link and leave `assigned_sat` of the queued packets at the satellite that was
left, where `_on_link_retired` unassigns them; no other server may pick such a packet. A
grant by a satellite's ticker removes the endpoint from that satellite's queue only,
so others look contended until their tickers find the request stale. With an
acquisition delay above `min_dwell_s`, a link may retire while it is still acquiring and then
serve what is assigned to it.

Bounds: two endpoints and one slot is the least contention, three endpoints the
least in which the queue order matters. `Horizon` 6 to 7 with a lease of 1 or
2 and tickers every 2 lets a slot change hands twice. `Packets` bounds the traffic;
`QueueMax` 1 makes the overflow and reject paths fire.

Fairness: `FairSpec` says that the event loop takes every due step of an endpoint
or satellite process and moves the clock when nothing is due. That is what
`env.step()` in `run()` does. Nothing is assumed of the environment (emission,
demand). It matters only for `ReachesHorizon`, which fails when a server polls at
one instant (`PollUplinkMutant`).

### Proofs (`FairAccessProofs`)

For every number of cells, satellites and slots, from the named assumptions:
`AccessTypes`, `SlotsAreLinksAlways`, `SlotCapacityAlways`,
`AtMostOnePrimaryAlways` come first. The inductive invariant is `AccessInv`: the clock and
the sky have their types and the access record is `Good`, that is typed, slots match links,
within `Slots`, one primary link, and waiting requests of one satellite have
distinct ranks. The last conjunct is what makes the order of grants total; without
it `IsOldest` could hold for two waiters, and a pass of `SatTick` over its grant
sequence could exceed the free slots. `Good` is a predicate on a record, not on the
variables, so each helper has its own lemma (`AssociatedGood`,
`ReleasedGood`, `TryGrantGood`, `SwitchToGood`, ...) and a handler's lemma composes them as
the handler composes the helpers. Operators that only shrink the state go
through `Weaker`. `GrantsFit` bounds the number of grants of one pass.

Four further invariants rest on `AccessInv`.

`ServiceInv` gives `RetirementIsPromptAlways` and `ServiceHoldsSlotAlways`. A service
remembers the link object it started on; `Safe` says that it is due now, or its
endpoint has a link there that is this object, or a later one granted no earlier
than the service may end. Whatever a handler does to a link is one of four moves
(keep, drop, make, retire), `Calm` collects the ones that cannot hurt a service, and
one lemma per helper shows which moves it makes. Only `_fire_interrupt` and the
settling of a due retirement drop a link under a service, and then the service is due.

`QueueOrder` gives `FifoGrantsAlways`: the wait queues are dicts, served in insertion
order by the satellite's ticker and by request time in `_try_grant`, and the two
orders agree. The theorem assumes `MinDwell > 0`: with `min_dwell_s` of zero an endpoint may get a
link and hand over within one ticker step, so the second link is not the
one it was granted.

`KeepInv` gives `PacketsAreKeptAlways`: queues hold packets once and across cells,
a packet served is in no queue, and exactly the packets sent and without fate are in
one of the two. The lemmas on queues (`AddedToQueue`, `TakenFromQueue`) say what an append,
a requeue at the head and a removal from the middle do to the set of members.

`WakeInv` gives `NoLostWakeupAlways`, for both handover modes. It has two parts: an acquisition
ends in time, and a server that sleeps watches the geometry of every endpoint with queued
packets to which it has a link it knows of (active, or retiring after it was active). `Changes` lists
the six things a handler may do to a link, and in the one that makes it active the server has to be
told; `Wakes` says so of all links, composes (`WakesChain`), and there is again one lemma per helper.
`Rebound` lists what may happen to the binding of a packet. A packet that becomes servable
was freed by the end of a retirement, which is the first gap, or was bound to a satellite by a handover, whose
server then knew the link already. The watched geometry covers `Advance`; what appends to
a queue (`Emit`, a requeue) is handled in the steps, because there the poke depends on the links.

Only model-checked: `ReachesHorizon` (liveness).

Left out: the MCS rate mode and its certified waits, Gilbert-Elliott outage on the
access link (a service may end `lost` at its end), packet sizes (the queue counts
packets), deadlines of packets in endpoint queues (`PacketJourney` has the
deadlines), the DRR deficits.

## 4. ISLSlots: one transceiver, many generations

`ISLSlots` models the inter-satellite egress of one satellite; `TransceiverOrder`
is what it promises.

### Correspondence

| model | code |
|---|---|
| `link[g]` | an `ISLLink` object with generation `g`: queues, `retired`, packet in service, wake event (`poked`), and `phase`, the yield its server waits at |
| `isls`, `retired`, `seq`, `drains` | `isls[sat]`, `_retired_isls`, `_isl_gen_seq`, `_isl_dyn_drained` |
| `RunServer(g)` | `ISLLink._run` from one yield to the next, `_transmit` and `_expire_waiting` included |
| `PutCtrl` | `put_ctrl`, after the room test of its callers |
| `Decide` | the forward branch of `_decide`: choose a legal direction or fail or hold |
| `Rematch` | `_recompute_topology`: cap check, retire and move data to holding, new generations, purge |
| `EnsureEndpoint` | `_ensure_endpoint` under the same entity cap |
| `hold`, `fate` | the holding queue and the ledger |
| `Admitted` | `_hold_packet`, once per packet a rematch moves |

The topology after a rematch (`Wirings`), the geometry at each instant
(`Reaches`) and the policy's candidate directions are free choices. Packets have
one size. A loop that drops or moves several packets is stated by what it leaves (`Queues`,
shared with `PacketJourney`): the packets that stay, in their order (`Remains`), the
data of the replaced links, link after link (`Chained`). The rate model and the outage process are part of reach; geometry
loss is on. The order in which one rematch numbers its links is free. A packet
interrupted by the horizon itself is not modelled. The neighbours are not
modelled: `PacketJourney` has several satellites.

### Runs

`isl`: one direction whose link to peer `a` flickers, two data packets and one
control packet, a holding queue of one packet, one data and the control packet
expiring inside the run, three generations (`LastGen` 2) and a cap of two live entities that lazy endpoints
share with links. Three generations on one direction is the least in which a gated
successor is itself retired; at the cap, rematches and endpoints are refused while
a retired generation drains. At most one generation transmits; generations transmit
in order (the refinement); expiry is on time except in a server that is
transmitting; the transceiver never idles over a packet it could send.
`BooksBalance` is the type invariant, one place per packet, queues within their bounds,
and a count of live entities that equals the links that exist and never exceeds the cap. The run uses
no fairness: its "in time" properties say what must have happened when the clock
moves, which it does only when nothing is due.

### Proofs (`ISLSlotsProofs`)

`OneTransceiverAlways` and `TransceiversInOrder` (the refinement `Spec => Ordered!Spec`,
with `front` the oldest undrained generation of the direction and `onAir` the one that transmits) for every set of
directions, peers, packets and every bound. The invariant `Sound`: generations
that exist are below `seq` (`Numbered`), the current generation of a direction
is its newest (`CurrentIsNewest`), every other undrained one is in `retired`
(`OthersRetired`), and a generation transmits only when all older ones of its direction
have drained (`OldersDrained`). `OldersDrained` alone is not inductive: a server looks for older
generations among `retired` only, so one needs to know that nothing
undrained is missing there. Every action is shown to lead `Forward`: it preserves
`Sound`, a drained generation stays drained, and numbers only grow; the refinement
step follows from `Forward`.

The second invariant, `Slots`, is about the packets. None of `BooksBalance`,
`ExpiresInTime` and `NoIdleTransceiver` is inductive; `Slots` joins to `Sound`

* `Apart` and `LiveAre`: every queue is injective, the generations and the holding queue share
  no packet, and their packets are exactly the live ones. A rematch moves whole queues between
  them, and only from disjointness does one place per packet follow;
* `Standing`: current generations are not retired, every member of `retired` still has a
  packet, and numbers not yet given are unborn. A purge then takes exactly the drained members out,
  and the count of entities moves by the links a rematch creates minus those;
* `Waits`: the timer of a server that sleeps is no later than any deadline it waits with
  (`Covered`) unless it has been poked, one that waits for its wake event only has no packet,
  and its `blockers` are older generations of its own direction. `ExpiresInTime`
  and `NoIdleTransceiver` follow when nothing is due.

One lemma per action shows that it keeps `Slots` (`RunServerSlots`, `DecideSlots`,
`RematchSlots`, ...); `ServedFine` follows one server from yield to yield, `ApartMoves` is
the moving of packets between places, `RematchCounts` the arithmetic of the cap. The
theorems: `SlotsInvariant`, `BooksBalanceAlways`, `ExpiresInTimeAlways`,
`NoIdleTransceiverAlways`, for every set of directions, peers, packets and deadlines, every
sequence of topologies and geometries and every bound.

`QueueProofs` has the lemmas about queues that these proofs and those of `PacketJourney` share:
members, length and injectivity under append, head, join, prefix, `Remains` and `Chained`.
That these two sets are what the loops of the code leave - the queue filtered, the queues of the
links concatenated in some order - is an induction over the queue and left to TLC;
`RemainsFilters` and `ChainedConcatenates` state it in `MCISLSlots`, and TLC evaluates
them for every queue of the instance.

Nothing of `ISLSlots` is left to model checking alone.

## 5. PacketJourney: decisions that take time

`PacketJourney` follows data packets among several satellites when
`compute_delay_s > 0`, in both observation modes.

### Correspondence

| model | code |
|---|---|
| `w.pk[p]` | a `DataPacket`: where it is, at which satellite, `path`, when its timeout ends, its frozen observation, its fate |
| `w.jobs[s]` | `_compute_pool[sat]`: the first `Servers` requests hold a server |
| `w.hold[s]`, `w.wake[s]`, `w.wakes[s]` | `pending[sat]`, `_pending_wake[sat]`, the `_pending_wake_once` processes under way |
| `Uplink`, `Arrive` | `_ingress_after_prop`, `_isl_arrive_after_prop`, then `decide_deferred` up to its first wait |
| `Commit` | the rest of `decide_deferred`: free the server, `_decide`, or `_decide_from_frozen_observation` |
| `Ask` | the decision process `_redecide_pending` starts for a held packet |
| `Transmit`, `Downlink`, `DrainDown`, `Land` | the link servers at the level of one packet; `_deliver_after_prop` |
| `PendingTick`, `PendingWake` | `_pending_ticker`, `_pending_wake_once` |
| `Rematch` | `_recompute_topology`, the part that touches data packets |
| `Stop` | the settlement at the end of `run()` |
| `crashed` | a `KeyError` leaves the event loop (`run` catches `CapExceeded` and `FateError` only) |

Free choices: the topology of every rematch, which satellites serve the ground
cell, the policy's candidates, whether a link is unavailable at the moment of a
decision (the packet is parked), how long a packet waits in a link's queue.
Where the code loops over a queue and holds, fails or drops its packets one by one,
the model states the result: `HeldAll` admits the first that fit, `Remains` of `Queues` keeps the others
in their order, `Drains` is the data of the replaced links (`Chained`), link after link in
any order of the links.
Abstracted: one data packet is one queue unit; one destination cell; per-packet
execution (no query service, no table lookups); explicit WAIT actions of
learners are left out. The satellite's access ticker at the end of `_pending_ticker`
is in `FairAccess`.

### Runs

`journey`: three satellites with one link each that a rematch may turn
from a line into its bent form (one link disappears, one changes its peer),
two packets with different deadlines, every queue one packet long, one compute server,
decision and propagation of one unit, ticker period 3, rematch period 2, horizon 6. Two rematches are the
least in which a packet decided under one topology is displaced, decided again and
forwarded under another; the bounds make the overflow of the holding queue, the
expired arrival and the lost association all happen.

* `PacketsAreTracked`: the queue a packet says it is in holds it once, no other does;
  the compute pool runs the oldest requests and never idles over one; the types hold.
* `NoRevisit` (refresh mode): displaced data is re-decided, so a rematch cannot
  send a packet to a satellite it has visited.
* `DeadlineIsArmed`: for every packet a decision parked, a wake no later than its
  deadline is under way, although one wake stands for all of a satellite's packets.
* `FateIsFinal`: a fate never changes, and the stop leaves no packet without one.

`journey_crash` (violation): in frozen mode a rematch between observation and
commit may remove the direction; `_forward_legal_now` indexes the new link table with
it and the run ends with a `KeyError`, where the comment promises that
a rejected action parks the packet.

`DeadlineIsArmed` speaks of packets parked by a decision. A packet that a rematch or
a lost association returns to the holding queue sets no wake; it expires at the next
tick, up to one `time_step` late. In frozen mode a direction that still exists but
leads to another peer after a rematch is legal at commit, so a packet may revisit a satellite
there; `NoRevisit` is therefore stated for refresh mode.

No fairness is used: the properties are invariants and step properties.

### Proofs (`PacketJourneyProofs`)

All four properties are theorems for every number of satellites, directions,
packets, compute servers and queue places, every set of topologies and every delay:
`PacketsAreTrackedAlways`, `NoRevisitAlways`, `DeadlineIsArmedAlways`, `FateIsFinalAlways`.

The inductive invariant `JInv` rests on `Good(v, H, t)`, a predicate on a
places record `v`, a topology `t`, and the packets `H` that a handler has in its hands.
None of the four properties is inductive alone; `Good` adds what they lack:

* every queue is injective and its members are exactly the packets outside `H` whose
  place and satellite say so, and no packet is on two links (`Single`, `Placed`).
  Counting a packet once follows, and without it a move could take out one copy and leave another;
* a packet has a fate exactly when it is gone (`Fated`), so that no move applies to one with a fate;
* a packet in the queue of a link has not been at the link's peer, nor one in flight
  at its destination (`Looped`). This is what a rematch must keep: `EmptiedGood` shows that the
  queues that remain belong to links whose peer is the same in the new topology;
* the wake that is set is scheduled, and is no later than any armed deadline ahead (`Woken`).

The argument has three layers above the lemmas of `QueueProofs`. `PutGood` is the one lemma about putting a packet down; `Ended`,
`Parked`, `ToEgress`, `ToDown`, `Requested` and a transmission are instances of it, and
`TakeUp`, `TakeEgress`, `TakeDown`, `ComputedGood` (the request that moves up starts in
the same instant) take a packet into the hands. `HeldAllGood`, `RedecidedGood`, `SweptHoldGood` and
`SweptDownGood` do the same for a whole queue. Every action is a chain of such moves
(`CommitGood`, `RematchGood`, `PendingTickGood`, ...) that starts and ends with empty hands.
`PendingWakeGood` is the one that cannot be chained: between clearing the wake and emptying
the queue the parked packets are unguarded, so the two are taken together.
`Final` says that a move changes no packet with a fate, and composes along the chain.

The proofs assume the named `ASSUME`s of the module: sizes are natural numbers,
propagation takes time, there are finitely many directions (N, S, E and W in the code).
## 6. ControlFlood, AsyncSchedule, JointPlan: how information reaches a decision

`MCInformation` puts three components into one run. They share no state in the code, so
in each behaviour one of them moves and the other two stay at their initial state.

### ControlFlood

| model | code |
|---|---|
| `PeriodicReport`, `InitialReport`, `DeferredReport` | the grid, the start-up burst and the deferred report of `_control_adv_process` and `_serving_changed` |
| `ServingChanged` | `_serving_changed`: report now, or defer one report to the end of the interval |
| `Arrive` | `_ctrl_arrive_after_prop`: expired, duplicate, or accept, cache and relay |
| `Reached`, `ControlChildren` | the breadth-first trees of `_build_routing_structures`, to depth `vis_k` |
| `Put` | `ControlCache.put`: the later `generated_at` wins |
| `Rewire` | the part of `_recompute_topology` that replaces the trees |

What a copy meets on a link (queue, transmission, propagation, a full queue) is
chosen: it arrives after one of `Delays`, in order per link, or is lost. The
payload is the serving set, counted by its changes. The instance has five
satellites and one origin, because floods of different origins touch different
cache entries, and two topologies that reorder the satellites a tree visits: it starts on the
path, and the rematch at instant 3 keeps it or moves to the fork. At most three changes or
losses, at instants 0 or 3, so that a change falls before, in and after the minimum
interval; ages up to the lifetime.

* `FloodsAreOnce`: a satellite sends copies only when it first accepts an advertisement, and
  what it believes of an origin never goes back, in spite of overtaking, loss and rematch.
* `WithinReach`: nothing is accepted more than `vis_k` hops from its origin, also when a copy
  changes trees on the way.
* `ChangeIsReported`: an unreported change has a report scheduled inside the interval.
* `KnowledgeConverges`: a report interval, a lifetime and a hop after the last change, loss or
  rematch, every satellite within `vis_k` hops knows the serving set. It is stated with the
  clock (a bound), so no fairness is needed, and it is proved as an invariant.

Two things the code does not promise and the model shows: two reports of one
instant leave the earlier one in the caches (`put` drops a report of equal age), and
the periodic report does not count as a report for the minimum interval.

### AsyncSchedule

The tables of one satellite: `Query` and `TickScopes` request an update,
`StartJob` and `FinishJob` are the compute pool it shares with packet decisions
(`Decide`), `Install` is the end of the install delay. A table is its bins, laid
out from the predicted install instant, and the window that starts at the actual
one. `TablesAreTimely`: a scope that counts as computing has exactly one update under
way and no other has one; and a late install does not stretch the prediction.
`finish_compute` moves the expiry with the install instant, so a table that is late
is installed all the same; it answers again at the last instant of its window
(`bin_for` takes the last bin there). The order of a satellite's candidates inside a bin is
left out (`lookup_schedule`).

### JointPlan

`TakeSnapshot`, `Valid`, `ApplyPlan` are the planner's view, `validate_joint_plan`
and `apply_joint_plan`; `PacketEvent` and `ServingEvent` are everything else in
the event loop, each of which counts as one version. `PlansAreSafe`: a plan with a
current version was made from the state it acts on; whatever number of packets a
plan sends to one queue, the queue's room holds; no packet is dropped by a plan. The
satellite of a delivery is not compared with the one that holds the packet,
in the code as in the model. Serving changes inside a plan are left out.

### Proofs (`InformationProofs`)

`NothingBeyondReach` and `OldNewsStaysOld` hold for any satellites, topologies, delays,
intervals and losses. `Sound`, their invariant, never looks at the relay trees. A copy under way carries a
hop budget of at most `vis_k` and what a satellite has accepted was within it, which gives the
reach. Reports of one origin are ordered by age wherever two of them are, under way or in
a cache: one of an earlier instant never says more than one of a later instant
(`CopiesOrdered`, `CachesOrdered`). Only with that does `Put`, which compares instants,
keep a satellite's belief from going back. `HeardIsNumbered` makes a new serial number unheard.

`ChangesAreReported` adds `Reported`: the last report on a change is not in the future, and
a report is deferred to an instant of the running interval or not at all. Every other kind of
report settles the change, so what it leaves deferred is harmless.

`KnowledgeAlwaysConverges` holds for any finite set of satellites, any depth, and any
pattern of changes, losses and rematches. It has three parts.

* The trees. `Reached` and `Hops` are functions defined by recursion over the naturals; `Recursion`
  gives such a definition its meaning, by `SetInduction`. `SearchTree` is the loop invariant of the
  breadth-first search: every node but the root has an earlier parent and is one deeper, depths
  do not decrease and differ by at most one layer from what is still to be expanded, and
  no node is deeper than a neighbour allows. Each round adds a satellite or nothing, so after as
  many rounds as there are satellites the search is over, and with `Shortest` it holds
  what `Hops` holds (`RingReached`).
* The flood of one report. `Flooded` says that the copies of report `n` run along the current
  tree with the hops that are left (`Carried`), that a satellite which accepted it has passed it
  to each child, as a copy under way or accepted (`Passed`), and that its cache is
  as new (`Kept`). With no copy left, the whole tree has accepted it (`Converged`, by
  induction along the search order).
* The invariant `Settled`. Since the last trouble (`calm`), what is younger says what is served
  (`UpToDate`), nothing is overdue (`OnTime`), and once the grid of an origin has passed a report
  interval without trouble a report of that interval is `Flooded` (`Renewed`). A trouble
  moves `calm`, which makes `Renewed` hold trivially until the next interval is over, so it is enough to
  show that a calm step keeps a flood. A later report does not disturb it, and one that is in
  a cache already is younger, which `Kept` allows.

A report lives at most `Ttl`, and its last copy one hop more; so a report interval, a
lifetime and a hop after the last trouble no copy of that report is left. The theorem assumes
finitely many satellites and delays, and of a topology that links join satellites of the set in both directions.

`TablesAlwaysTimely` holds for any number of scopes, servers and decisions and any durations.
`Tracked` follows an update through its three stations (waiting for the pool, on a
server, in its install delay): it is the only one of its scope in all three (`Apart`), and its
version is what the scope counts as computing (`Counted`). An install then always clears
the mark it finds. That a late table is not stretched is the arithmetic of
`TablesPlanned`: the start of its bins is fixed by the instant it was asked at. The order in
which the ticker asks is any strictly increasing listing of the scopes (`Sorted`), so that no
fact about sorting is needed.

`JointPlansAreSafe` holds for any number of directions, packets and rooms. `Safe`:
versions only grow, so a snapshot of the current version is the current state
(`PlanSeesCurrentState`); every packet is in one place (`Placed`), so a packet a plan leaves
waiting finds its own room again; and queues fit.
## 7. LearningEpisodes: what a learner gets to see

| model | code |
|---|---|
| `e[p]`, `open` | the `learning_*` fields of a packet, `_learning_open` |
| `DecideQueue`, `DecideDeadline`, `DecideClosed` | `_learning_action` with either reward, and for a packet whose episode is over |
| `FinishedQueue`, `FinishedDeadline` | `_finish_learning_transition`, `_finish_deadline_transition` |
| `StartService` | the queue reward that `_transmit` realises |
| `Rematch`, `Discarded` | the discard of open transitions in `_recompute_topology`, one packet of the drain per step |
| `Deliver`, `Fail`, `Watch` | `_deliver_after_prop`, `_fail`, `_research_deadline_watch` |
| `learner`, `Trained`, `Remembered` | counters, replay buffer and training rhythm of `DDQNLearner` and `TabularQLearner` |
| `StopBegin`, `Expire`, `StopEnd` | the end of `run()`: the last sweep, one packet per step, then `_close_learning_at_stop` and `save_resume_and_verify` |
| `Die`, `NextRun`, `bundle` | a crash, a run that starts afresh or resumes |

A rematch drains all queues, and the last sweep all waiting packets, without a pause. Here each
packet is a step of its own; other handlers may come between two of them, which adds behaviours
and takes none away.

Where a packet is, is reduced to what the episode depends on; `PacketJourney` has
its movement. Two packets, a batch of 2, a replay buffer of 3, three decisions per run and two
runs are the least in which training begins, the buffer is full, and a resumed run goes on
from a partly filled buffer. Both rewards and both learners are initial states of one run.

* `EpisodeEndsOnce`: however watch, delivery, failure and next decision are ordered, an episode has
  at most one terminal transition and nothing after it.
* `RewardsAreTrue`: a reward that is remembered was obtained, and no packet comes back with an
  open, unserved forward (the next decision would raise).
* `LearningIsAccounted`: decisions are transitions, discards, open ones and the decisions for
  closed episodes; the books agree with the packets.
* `TrainingIsExact`: any chain of runs, crashes and resumes has trained, and copied the target
  network, exactly as one run over the same transitions.

`learning_receipt` (violation): the receipt asks that decisions minus transitions be
the discards. Under `deadline_loss_v1` a packet that is routed after its research
deadline makes decisions that open nothing, and the receipt of the run is refused.
A run that resumes a learner which had discarded something is refused as well,
because the counters are of all runs and the discards of the last.

After a rematch has discarded the transition of a packet, an episode whose deadline
passes has no transition to close: the learner never sees that loss. Left out: the evaluation
mode, weights and state vectors.

### Proofs (`LearningEpisodesProofs`)

For any packets, buffer sizes, research deadline and chain of runs: `EpisodeEndsOnceAlways`,
`RewardsAreTrueAlways`, `LearningIsAccountedAlways` and `TrainingIsExactAlways`, all four
properties of the run, from `LearntAlways`.

None of the four is inductive. That a reward was earned needs where the packet is: in a link
queue only a forward can be open, on the way down only a deliver, and a forward that has
left its link queue carries its reward (`OpenSound`). That the episode ends once needs that a
terminal row leaves nothing open and nothing that could open again (`Over`, in `ToldSound`): under
the deadline reward the episode is closed, under the queue reward the packet has its fate. That a
resumed run trains exactly needs the same of the saved bundle, and that the replay
buffer holds as many rows as it was ever fed, up to its bound (`Exact`). `Booked` is the balance of
decisions.

The handlers are compositions of helpers on the record `State`; so are the proofs. `Settled`
says what `_finish_learning_transition` and `_finish_deadline_transition` leave, `QueueIsSound`,
`DeadlineIsSound`, `FailedIsSound`, `ChosenIsSound` and `DiscardedIsSound` that each helper keeps
`Booked` and leaves its packet `Sound`, and `PacketStep` that a step which touches one packet then
keeps the invariant.
## 8. CallLedger and SuiteRun: the T1 suite

`CallLedger` is one launch of one cell, a child process with its launch ledger and its
call ledger; `SuiteRun` extends it with the commands of the suite.

| model | code |
|---|---|
| `disk[c]` | the cell directory: result, summary, call ledger, results moved aside |
| `launch[l]` | a launch ledger and the child it was issued to |
| `Claim`, `CheckOut`, `Reserve`, `BeginCall`, `EndCall`, `PublishSummary`, `PublishBegin`, `PublishEnd`, `CloseLaunch` | `t1_tasks.main`: claim, `call_guard`, the kernel's call events, `publish`, the finally clause |
| `doc` | `run.json`, written by rename |
| `RunBegin`, `AppendBegin`, `RunNext`, `RunRecord`, `RunEnd` | `run_bundle`, whole, as a pilot, as an append |
| `ResumeBegin`, `ResumeNext`, `ResumeRecord`, `ResumeEnd` | `resume_run` |
| `StartChild`, `CellTimesOut`, `Reconcile`, `Verdict` | `_execute_cell`, `_finalize_simulator_call_ledger`, `_inspect_result` |
| `SuiteDies`, `ChildDies`, `Disturb` | a killed suite whose child goes on, a killed child, a result lost or edited between commands |

Two cells, one of them controlled, three launches, one fault: a run, a kill or an edit, and
a resume, with an orphan of the first launch beside the second. More launches repeat what a second
resume does; a second fault leaves three launches no room to recover.

* `ReportIsEvidence`: a run reported ok has, for each cell, a good result on disk by a launch of
  that cell.
* `CallsAreAccounted`: an ok controlled cell was closed by its own child and its calls are
  that child's; the records are well formed.
* `EvidenceSurvives`: a recorded result leaves its place only to be kept aside, unless somebody
  removes it or an orphan is at work in the cell.
* `SettledIsNotRerun`: a resume executes no cell whose result stands, and nothing after a smoke
  failure is in the status. The gate's verdict is recorded before the status; a suite that
  dies between the two leaves a run that may be resumed.

`_execute_cell` moves aside the result and the call ledger and leaves the summary of the
earlier launch. `publish` refuses an existing destination, so a network cell whose
launch got as far as its summary cannot become ok in a later one. In the model this is
`PublishSummary` after `StartChild`; such a cell stays recorded as an error.

Left out: the compilation of plans, the predicates of cells, admission, development reports.

### Proofs (`SuiteRunProofs`)

For any tier with a cell in it, any number of arms, launches, kills and edits:
`ReportIsEvidenceAlways`, `CallsAreAccountedAlways`, `EvidenceSurvivesAlways` and
`SettledIsNotRerunAlways`, all four properties of the run, from `AccountedAlways`.

None of them is inductive. A report is about what lies on disk, a record about what lay
there when the cell was judged, and an orphan may write between the two. The invariant
`Accounted` says where each result comes from (`Placed`: nowhere, or a launch of the cell
that has published), that a record is `Truthful` of its cell whether it is in `run.json` or
only in the memory of a resume, and that while the suite works on a cell the result there is
not the recorded one (`AtWork`), since `StartChild` moved it aside. An orphan
cannot restore it: no record names a launch that has not published.

For the calls, `ChildBalance` relates what a child tried, reserved and began at each
of its steps. An arm that is refused or fails leaves `failed`, so a return code 0
means all were made. `Intact` compares the reservations with the begins found in the call ledger,
which an orphan may share; the theorem shows that a child that returned 0 began as many as are
counted, so that none of an orphan's is counted with them. The count itself needs that a well-formed ledger begins no call
twice (`CallsAreFew`, by an injection into the call numbers), and that the terminals `Reconcile`
adds begin none (`PutRight`).

One lemma per kind of step: `ChildKeeps` for a child, `Booked` for a step of the suite alone,
`Launching`, `Reconciling` and `Disturbing` for those that touch files.
## 9. ReleaseStore, RunRelease, EvidencePull: from a commit to indexed evidence

`MCReleaseChain` chains them: publishers of one release; runners, from one plain
publication; pulls, from the end of one run. A run reads of the store only that the
release can be used, a pull only the run's directory, so nothing is lost by
letting one part move at a time; without it the product is out of reach.

| model | code |
|---|---|
| `store`, `pub` | `incoming`, `releases`, `quarantine` of one id; a run of `publish-release-remote.sh` |
| `CheckCleanCheckout` ... `SealRelease`, `CleanupIncoming` | `build_release`, `prepare_incoming`, the upload, `install_release`, `cleanup_incoming`, one action per file-system call that others can see |
| `QuarantineIncoming`, `QuarantineBootstrap` | `quarantine_incoming`, by an operator at any moment |
| `runner`, `dir`, `lock` | `run_release`: the run directory, the manifest and receipt in it, the flock of the resource group |
| `ChildWrites`, `ChildDetaches`, `RunTimeout`, `RunDrainFails` | `_drain_child`, the child in its own session |
| `puller`, `partial`, `final`, `kept`, `rows` | `pull-release-results-remote.sh`, `pullback_run`, `append_deployment_index` |

Every process may die between any two steps; a publisher may start again. Two of each actor
is the least in which they race, two attempts, two run ids and three pulls the least in which
one is left over. Hashing is what it decides: a bundle, a tree or evidence is whole or not.

* `PublishedIsCommit`: what is visible is the tree of the commit, in spite of edits of the
  checkout and torn uploads by another publisher.
* `RunsAreSound`: one live child per resource group except a dropped one; a run id is taken only by an
  attempt that had the group; a receipt describes the files; types.
* `IndexedIsVerified`: an index line names evidence that is there, whole, and what the receipt says.
* `HistoryIsKept`: releases, upload attempts, receipts, evidence and partial pulls are not taken back.

What does not hold, and no property claims: a crash between the rename and the removal
of the write permission leaves a release that can be neither used nor replaced;
`pullback_run` verifies the partial directory and renames it by path, so a second pull
that quarantines it in between makes the first publish an incomplete directory (it is
never indexed); a child that closes both pipes is under no timeout.

### Proofs (`RemoteProofs`, first part)

For any number of publishers, runners, run ids, pulls and archive members:
`RunsOfAGroup` and `ReceiptsAreFinal` of `RunSpec`; `ChainIsSound`,
`ReleasesAreCommits`, `IndexNamesEvidence` and `HistoryOfTheChain` of `ChainSpec`, which are
the four properties of the run.

`Orderly` is the invariant of the runs. An invocation is inside the group exactly
while it has the lock (`LockHeld`), and a child outlives its drain only if it was
dropped (`ChildDrained`); together they give `GroupRunsAlone`. That a receipt is final
needs more: a directory is made once, so two invocations that use one directory are
one (`UsersApart`), and while an invocation owns a directory it has no receipt
(`ReceiptIsLast`). Steps that neither make a directory nor write files or a
receipt go through one lemma, `PlainStep`.

The chain adds `Genuine` (a publisher between the archive and the upload carries the tree
of the commit, and only a whole upload is staged), the types of the pulls with what a pull
knows in each phase, and `Received` (whatever has a member has a receipt with it).
`IndexNamesEvidence` then holds because verified evidence has a member and a
receipt: the first keeps a second pull from renaming over it, the second is final.
## 10. DeploymentInstall and RemoteLaunch: the workspace and its formal runs

| model | code |
|---|---|
| `tree`, `results`, `receipt`, `backups` | `CODE` and the rest of the workspace, `CODE/Results`, `deployment.json`, `deploy-backups` |
| `Unpack` ... `RemoveBackup`, `InstallDies` | `deployment_guard.install`, one action per move |
| `attempt`, `current`, `LookAtCurrent`, `WriteCurrent` | `launches/<nonce>.json`, `current_status.json`, `persist_status` |
| `GateOpen`, `Accepted` | `v2_serial_gate` over the evidence of the earlier cells |
| `Launch`, `PrepareOk`, `RunChecks`, `RunStart`, `Govern`, `Conclude` | `remote_job.py` `prepare` and `run` |
| `ChildChecks` ... `ChildWitness` | `python -m CODE.leo_sim run`, the steps that touch the run directory |

Two launches, two cells, two commits, one installer that installs twice. One installation
under a run and one after it is the least in which evidence must survive, and two launches the
least that race for a cell or for the current status.

* `CellsInOrder`: a success has behind it a success of every earlier cell, under the very
  same deployment, whose child had checked that it ran that deployment's code; and the
  sources recorded by a receipt of that cell are that code.
* `OneSuccessPerCell`: two launches of a cell do not both succeed, unless an installation took
  the first one's Results away between them.
* `StatusFilesAgree`: what `current_status.json` says of a launch is what its own file says.
  The status of a launch that was replaced may come back (the look and the write are two steps).
* `ResultsAreKept`: wherever installers die, evidence is in Results or in a backup. An
  installation that dies before it has moved Results back leaves it in the backup only, and the next
  one starts from an empty Results.

Left out: tmux, the status reader, the mirror of Results, the pilot gate.

### Proofs (`RemoteProofs`, second part)

For any number of installers whose installations overlap, launches, cells and commits:
`StatusFilesAgreeAlways`, `CellsInOrderAlways`, `OneSuccessPerCellAlways` and
`ResultsAreKeptAlways`, all four properties of the run, from `LaunchedInvariant`.

The invariant `Launched` has three parts. `Preserved` is about the files: an installation
under way has a number and a backup of its own, empty where it is about to be filled
(`Numbered`, `BackupsUsed`, `BackupWhole`); the marks in a run directory name launches of its
cell that wrote them (`Evident`); and the log of a launch that may still succeed is in
Results or in a backup (`Logged`). `Underway` is about the launches: a launch past the gate, or
successful, has a success and a receipt of every earlier cell behind it (`Gated`, `Behind`).
`Agreed` is about the status files. The argument is that the gate reads files while
the properties speak of launches: at the gate, `Evident` turns what the files say into
facts about launches, and these stay true however the files are moved afterwards. Every
move of an installation goes through one lemma, `CarriedKeeps`: no run directory is lost or made up.

`CellsInOrder` cannot ask more: that the successful launch of the earlier cell also wrote the
receipt is false, on the bounded instance too. When launches share a run directory, the witness
and the receipt of the accepted run may be by two launches of the cell, so the property names both.
## 11. What is proved and what is only checked

| result | every constant (TLAPS) | instance (TLC) |
|---|---|---|
| types of the access state, slots = links, slot bound, one primary | yes | yes |
| retirement deadlines, services on their slots, FIFO grants, packets in one place | yes | yes |
| wake-ups of sleeping servers, in both handover modes | yes | yes |
| reaching the horizon | - | yes |
| one transceiver, generations in order (refinement) | yes | yes |
| ISL expiry, idle transceivers, packets in one place, entity cap and counts | yes | yes |
| packet accounting, loop freedom, compute pool, deadline wakes, final fates | yes | yes |
| floods once and within reach, changes reported, floods converge | yes | yes |
| timely tables, joint plans | yes | yes |
| learning episodes, rewards, learning accounts, exact resume | yes | yes |
| suite reports, call accounts, kept evidence, resume | yes | yes |
| releases, runs, evidence: all four properties of the chain | yes | yes |
| deployment, serial gate, status files | yes | yes |

Liveness under fairness stays with TLC, because the prover has no rule for it
here. The library's induction theorems take an operator, which the provers here cannot
instantiate; where `KnowledgeConverges` needs induction (over the levels of a relay tree and
along its paths) it is done with sets of naturals instead (`SetInduction`, from a least
counterexample). The theorems assume only the named `ASSUME`s of the modules, which state
what `load_config` enforces and that names of different kinds differ; TLC
evaluates them in every run.

## 12. Not modelled

See the notes in `PROJECT.json`. In short: the numeric layers (geometry,
rates, policies, statistics, metrics) appear in the models as sets of choices; what
folds finished artifacts (receipts beyond the learning tally, replays, selections, probes, reports)
has no state that others change; of the suite and the launch chain the compilation of
documents and the mirror of Results are left out.

This is most of the code by lines: what remains of `kernel.py` builds
numeric snapshots, audits and metrics; `receipt.py`, `t1_tasks.py`,
`outcome_metrics.py` and `design_selection.py` fold finished files into a verdict or a
number. Such a function has one caller and no interleaving, so a model would repeat
it line by line and check nothing that a unit test does not.

## 13. Running the checks

    tlc -config Access_mbb.cfg MCFairAccess.tla
    tlc -config Isl.cfg MCISLSlots.tla
    tlc -config Journey.cfg MCPacketJourney.tla
    tlc -config Information.cfg MCInformation.tla
    tlc -config Learning.cfg MCLearningEpisodes.tla
    tlc -config Suite.cfg SuiteRun.tla
    tlc -config Release_chain.cfg MCReleaseChain.tla
    tlc -config Remote_chain.cfg MCRemoteLaunch.tla
    tlapm FairAccessProofs.tla
    tlapm QueueProofs.tla
    tlapm ISLSlotsProofs.tla
    tlapm PacketJourneyProofs.tla
    tlapm InformationProofs.tla
    tlapm LearningEpisodesProofs.tla
    tlapm SuiteRunProofs.tla
    tlapm RemoteProofs.tla

Every configuration is named after its run in `PROJECT.json`.
