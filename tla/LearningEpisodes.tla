-------------------------- MODULE LearningEpisodes --------------------------
(***************************************************************************)
(* What a learner gets to see of a packet's journey (kernel.py,            *)
(* learning.py, deadline_objective.py).  A decision opens a transition on  *)
(* its packet; the next decision, the delivery or the failure of the       *)
(* packet closes it with the reward realised until then, and a rematch or  *)
(* the end of the run discards it.  Under deadline_loss_v1 the episode of  *)
(* a packet also ends at its research deadline, while the packet goes on.  *)
(* A run saves the whole learner; a later run may continue from there.     *)
(*                                                                         *)
(* Where a packet is, and when it moves, is PacketJourney's subject: here  *)
(* it may move whenever its place allows it, and fail at any time.         *)
(*   ground  not emitted       held  in a holding queue, or just arrived   *)
(*   isl     in a link queue   sent  in service on a link, or flying       *)
(*   down    in a downlink queue or service   landing  flying to the cell  *)
(***************************************************************************)
EXTENDS Integers, Sequences, FiniteSets

CONSTANTS Packets,
          Rewards,         \* learning.reward: subset of {"queue", "deadline_loss_v1"}
          Algorithms,      \* learning.algorithm: subset of {"ddqn", "qlearning"}
          BatchSize, ReplaySize, TargetInterval,
          ResearchDeadline,   \* the instant at which an episode ends
          Horizon,
          MaxChoices,      \* bound on the decisions of one run
          MaxRuns          \* bound on the runs that are made one after another

ASSUME LearningAssumption ==
  /\ IsFiniteSet(Packets)
  /\ Rewards \subseteq {"queue", "deadline_loss_v1"}
  /\ Algorithms \subseteq {"ddqn", "qlearning"}
  /\ BatchSize \in Nat \ {0} /\ ReplaySize \in Nat /\ BatchSize =< ReplaySize
  /\ TargetInterval \in Nat \ {0}
  /\ ResearchDeadline \in Nat /\ Horizon \in Nat
  /\ MaxChoices \in Nat /\ MaxRuns \in Nat \ {0}

VARIABLES
  now, runs,
  setup,      \* the resolved configuration: reward and algorithm
  phase,      \* of the run
  place,      \* of each packet
  watches,    \* the _research_deadline_watch processes that have not fired
  e,          \* the learning fields of each packet
  open,       \* _learning_open
  learner,    \* decisions, transitions, train_steps, the replay buffer's length
  loaded,     \* the learner as it was when the run began
  bundle,     \* the resume bundle of the last run that saved one
  mech,       \* learning_discarded_at_stop and _at_rematch
  told        \* ghost: what remember was called with, and the choices of closed episodes

vars == <<now, runs, setup, phase, place, watches, e, open, learner, loaded, bundle, mech, told>>

NewEpisode == [action |-> "none", reward |-> "none", closed |-> FALSE]
NewLearner == [decisions |-> 0, transitions |-> 0, steps |-> 0, replay |-> 0, target |-> 0]
Places == {"ground", "held", "isl", "sent", "down", "landing", "delivered", "failed"}
ByDeadline == setup.reward = "deadline_loss_v1"

\* The state that one handler reads and writes, so that a handler may settle
\* several packets one after another.
State == [e |-> e, open |-> open, learner |-> learner, place |-> place, mech |-> mech, told |-> told]
Become(v) ==
  /\ e' = v.e /\ open' = v.open /\ learner' = v.learner /\ place' = v.place
  /\ mech' = v.mech /\ told' = v.told

-----------------------------------------------------------------------------
(* The learner.                                                            *)

\* _train_once, from a full batch on; the tabular learner updates at once.
Trained(l) ==
  LET least == IF setup.algorithm = "ddqn" THEN BatchSize ELSE 0
      synced == IF (l.steps + 1) % TargetInterval = 0 THEN l.steps + 1 ELSE l.target
  IN  IF l.replay >= least
      THEN [l EXCEPT !.steps = @ + 1, !.target = IF setup.algorithm = "ddqn" THEN synced ELSE 0]
      ELSE l

AtMost(n, bound) == IF n =< bound THEN n ELSE bound

\* remember: replay is a deque of bounded length.
Remembered(v, p, reward, done) ==
  LET kept == IF setup.algorithm = "ddqn" THEN AtMost(v.learner.replay + 1, ReplaySize) ELSE 0
      row == [action |-> v.e[p].action, reward |-> reward, done |-> done]
      fed == [v.learner EXCEPT !.transitions = @ + 1, !.replay = kept]
  IN  [v EXCEPT !.learner = Trained(fed), !.told.rows[p] = Append(@, row)]

Cleared(v, p) ==
  [v EXCEPT !.e[p].action = "none", !.e[p].reward = "none", !.open = @ \ {p}]

\* choose, and the fields that open a transition.
Chosen(v, p, a) ==
  [v EXCEPT !.learner.decisions = @ + 1,
            !.e[p] = [@ EXCEPT !.action = a, !.reward = "none"], !.open = @ \cup {p}]

-----------------------------------------------------------------------------
(* Settling a transition.                                                  *)

\* _finish_learning_transition, with the reward to use.
FinishedQueue(v, p, reward, done) ==
  IF v.e[p].action = "none" THEN v ELSE Cleared(Remembered(v, p, reward, done), p)

\* deadline_loss_v1: minus the share of the deadline that was used; a packet
\* that is not there in time used all of it.
DeadlineLoss(outcome) ==
  CASE outcome = "intermediate" -> "zero"
    [] outcome = "delivered" -> "timely"
    [] outcome \in {"failed", "deadline_expired"} -> "loss"

\* Mutant: a terminal transition does not end the episode.
FinishedDeadlineMutant(v, p, outcome) ==
  IF v.e[p].closed THEN v
  ELSE LET terminal == outcome # "intermediate"
           told1 == IF v.e[p].action = "none" THEN v
                    ELSE Remembered(v, p, DeadlineLoss(outcome), terminal)
       IN  Cleared(told1, p)
\* _finish_deadline_transition with the reward of deadline_loss_v1: nothing is
\* remembered for a packet without an open transition.
FinishedDeadline(v, p, outcome) ==
  IF v.e[p].closed THEN v
  ELSE LET terminal == outcome # "intermediate"
           told1 == IF v.e[p].action = "none" THEN v
                    ELSE Remembered(v, p, DeadlineLoss(outcome), terminal)
       IN  Cleared([told1 EXCEPT !.e[p].closed = terminal], p)

\* _fail: a reward that was realised is kept, otherwise there is none.
Failed(v, p) ==
  LET realised == IF v.e[p].reward # "none" THEN v.e[p].reward ELSE "zero"
      settled == IF ByDeadline THEN FinishedDeadline(v, p, "failed")
                 ELSE FinishedQueue(v, p, realised, TRUE)
  IN  [settled EXCEPT !.place[p] = "failed"]

\* The reward of a deliver whose packet came back.
UnrealisedDeliver == "zero"

-----------------------------------------------------------------------------
(* Handlers of the kernel.                                                 *)

Running == phase = "running"
Same == UNCHANGED <<runs, setup, loaded, bundle>>
Still == Running /\ Same /\ UNCHANGED <<now, phase, watches>>

\* _emitter: a watch for the research deadline; the packet may be refused.
Emit(p) ==
  /\ Running /\ place[p] = "ground" /\ now < Horizon
  /\ watches' = IF ByDeadline THEN watches \cup {p} ELSE watches
  /\ \/ Become([State EXCEPT !.place[p] = "held"])
     \/ Become(Failed(State, p))
  /\ Same /\ UNCHANGED <<now, phase>>

\* The action is followed by the packet.
Placed(v, p, a) == [v EXCEPT !.place[p] = IF a = "deliver" THEN "down" ELSE "isl"]

\* "unsettled non-deliver learning transition": _learning_action raises.
Unrealised(p) == ~ByDeadline /\ e[p].action = "forward" /\ e[p].reward = "none"

MayChoose(p) ==
  Still /\ place[p] = "held" /\ learner.decisions - loaded.decisions < MaxChoices

\* The episode is over: the learner is asked, and nothing is opened.
DecideClosed(p, a) ==
  /\ MayChoose(p) /\ ByDeadline /\ e[p].closed
  /\ Become(Placed([State EXCEPT !.learner.decisions = @ + 1, !.told.late = @ + 1], p, a))

DecideDeadline(p, a) ==
  /\ MayChoose(p) /\ ByDeadline /\ ~e[p].closed
  /\ LET settled == IF e[p].action = "none" THEN State ELSE FinishedDeadline(State, p, "intermediate")
     IN  Become(Placed(Chosen(settled, p, a), p, a))

DecideQueue(p, a) ==
  /\ MayChoose(p) /\ ~ByDeadline /\ ~Unrealised(p)
  /\ LET reward == IF e[p].reward = "none" THEN UnrealisedDeliver ELSE e[p].reward
     IN  Become(Placed(Chosen(FinishedQueue(State, p, reward, FALSE), p, a), p, a))

\* _transmit on a link settles the queue reward as the service starts.
StartService(p) ==
  /\ Still /\ place[p] = "isl"
  /\ Become([State EXCEPT !.place[p] = "sent",
                          !.e[p].reward = IF ~ByDeadline /\ e[p].action # "none" THEN "forward" ELSE @])

Arrive(p) == Still /\ place[p] = "sent" /\ Become([State EXCEPT !.place[p] = "held"])

\* Mutant: a rematch leaves the open transition of a queued packet.
DiscardedMutant(v, p) == v
\* _recompute_topology for one queued packet: its action will never happen.
Discarded(v, p) ==
  IF p \in v.open THEN Cleared([v EXCEPT !.mech.rematch = @ + 1], p) ELSE v

\* One packet of the drain in _recompute_topology returns to holding, or fails
\* for want of room.  Any number of packets may be drained, each by a step.
Rematch(p) ==
  /\ Still /\ place[p] = "isl"
  /\ LET d == Discarded(State, p)
     IN  \/ Become([d EXCEPT !.place[p] = "held"])
         \/ Become(Failed(d, p))

\* The downlink loses its association or retires during the service.
Bounce(p) == Still /\ place[p] = "down" /\ Become([State EXCEPT !.place[p] = "held"])
Downlink(p) == Still /\ place[p] = "down" /\ Become([State EXCEPT !.place[p] = "landing"])

Timely == now < ResearchDeadline

\* _deliver_after_prop.
Deliver(p) ==
  /\ Still /\ place[p] = "landing"
  /\ LET settled == IF ByDeadline
                    THEN FinishedDeadline(State, p, IF Timely THEN "delivered" ELSE "deadline_expired")
                    ELSE FinishedQueue(State, p, "arrive", TRUE)
     IN  Become([settled EXCEPT !.place[p] = "delivered"])

\* _fail, from any place: deadline, overflow, no route, outage.
Fail(p) == Still /\ place[p] \notin {"ground", "delivered", "failed"} /\ Become(Failed(State, p))

\* _research_deadline_watch.
Watch(p) ==
  /\ Running /\ p \in watches /\ now >= ResearchDeadline
  /\ watches' = watches \ {p}
  /\ Become(IF e[p].closed THEN State ELSE FinishedDeadline(State, p, "deadline_expired"))
  /\ Same /\ UNCHANGED <<now, phase>>

Tick ==
  /\ Running /\ now < Horizon
  /\ watches # {} => now < ResearchDeadline
  /\ now' = now + 1
  /\ Same /\ UNCHANGED <<phase, place, watches, e, open, learner, mech, told>>

-----------------------------------------------------------------------------
(* The end of a run, and the next one.                                     *)

\* Mutant: transitions that are open at the end vanish.
ClosedAtStopMutant(v) ==
  [v EXCEPT !.open = {}, !.e = [p \in Packets |-> [v.e[p] EXCEPT !.action = "none", !.reward = "none"]]]
\* _close_learning_at_stop.
ClosedAtStop(v) ==
  [v EXCEPT !.mech.stop = @ + Cardinality(v.open), !.open = {},
            !.e = [p \in Packets |-> IF p \in v.open
                     THEN [v.e[p] EXCEPT !.action = "none", !.reward = "none"] ELSE v.e[p]]]

\* save_resume_and_verify: weights, replay, counters, under one manifest.
SaveResume == bundle' = learner'

\* The end of run(), at the horizon or when a cap is exceeded: queued packets
\* whose deadline has passed fail, then open transitions are discarded and the
\* learner is saved.  No process of the simulation runs any more.
StopBegin == Running /\ phase' = "stopping" /\ Same /\ UNCHANGED <<now, place, watches, e, open, learner, mech, told>>
Expire(p) ==
  /\ phase = "stopping" /\ place[p] \in {"held", "isl", "down"}
  /\ Become(Failed(State, p))
  /\ Same /\ UNCHANGED <<now, phase, watches>>
StopEnd ==
  /\ phase = "stopping" /\ phase' = "stopped"
  /\ Become(ClosedAtStop(State))
  /\ SaveResume
  /\ UNCHANGED <<now, runs, setup, watches, loaded>>

\* The process dies, before the bundle has its manifest.
Die ==
  /\ phase \in {"running", "stopping"} /\ phase' = "dead"
  /\ Same /\ UNCHANGED <<now, place, watches, e, open, learner, mech, told>>

\* Mutant: the replay buffer is not part of the bundle.
RestoredMutant == [bundle EXCEPT !.replay = 0]
\* _load_resume_bundle.
Restored == bundle

\* _learning_transition_accounting of the receipt.
TallyAccepted == learner.decisions - learner.transitions = mech.stop + mech.rematch

\* A run that starts afresh or resumes.
NextRun(l) ==
  /\ phase \in {"stopped", "dead"} /\ runs < MaxRuns
  /\ l \in {NewLearner, Restored}
  /\ runs' = runs + 1 /\ now' = 0 /\ phase' = "running"
  /\ learner' = l /\ loaded' = l
  /\ place' = [p \in Packets |-> "ground"] /\ watches' = {} /\ open' = {}
  /\ e' = [p \in Packets |-> NewEpisode]
  /\ mech' = [stop |-> 0, rematch |-> 0]
  /\ told' = [rows |-> [p \in Packets |-> <<>>], late |-> 0]
  /\ UNCHANGED <<setup, bundle>>

Init ==
  /\ now = 0 /\ runs = 1 /\ phase = "running"
  /\ setup \in [reward : Rewards, algorithm : Algorithms]
  /\ place = [p \in Packets |-> "ground"] /\ watches = {} /\ open = {}
  /\ e = [p \in Packets |-> NewEpisode]
  /\ learner = NewLearner /\ loaded = NewLearner /\ bundle = NewLearner
  /\ mech = [stop |-> 0, rematch |-> 0]
  /\ told = [rows |-> [p \in Packets |-> <<>>], late |-> 0]

Next ==
  \/ \E p \in Packets :
       \/ Emit(p) \/ StartService(p) \/ Arrive(p) \/ Bounce(p) \/ Downlink(p)
       \/ Deliver(p) \/ Fail(p) \/ Watch(p) \/ Rematch(p) \/ Expire(p)
  \/ \E p \in Packets, a \in {"forward", "deliver"} :
       DecideClosed(p, a) \/ DecideDeadline(p, a) \/ DecideQueue(p, a)
  \/ StopBegin \/ StopEnd \/ Tick \/ Die
  \/ \E l \in {NewLearner, Restored} : NextRun(l)

Spec == Init /\ [][Next]_vars

-----------------------------------------------------------------------------
(* Properties.                                                             *)

\* Types; _learning_open holds exactly the packets with an open transition,
\* and no packet that has its fate is among them.
TypeOK ==
  /\ now \in 0..Horizon /\ runs \in 1..MaxRuns
  /\ phase \in {"running", "stopping", "stopped", "dead"}
  /\ place \in [Packets -> Places] /\ watches \subseteq Packets
  /\ e \in [Packets -> [action : {"none", "forward", "deliver"},
                        reward : {"none", "forward"}, closed : BOOLEAN]]
  /\ open = {p \in Packets : e[p].action # "none"}
  /\ \A p \in open : place[p] \notin {"ground", "delivered", "failed"} /\ ~e[p].closed
  /\ learner.replay =< ReplaySize

\* However the watch, the delivery, the failure and the next decision of a
\* packet are ordered, its episode has one terminal transition at most, and
\* nothing is learnt from the packet after it.
EpisodeEndsOnce ==
  \A p \in Packets : \A i \in DOMAIN told.rows[p] :
    told.rows[p][i].done => i = Len(told.rows[p])

\* Rewards are earned: the arrival reward by a deliver that reached the cell,
\* the reward of a delivery in time by one before the research deadline, the
\* loss by nothing else, and the queue reward by a forward that was served.
RewardsAreEarned ==
  \A p \in Packets : \A i \in DOMAIN told.rows[p] :
    LET r == told.rows[p][i] IN
    /\ r.reward = "arrive" => r.action = "deliver" /\ r.done /\ place[p] = "delivered"
    /\ r.reward = "forward" => r.action = "forward"
    /\ r.reward \in {"arrive", "timely"} => place[p] = "delivered"

\* No decision ends the run: a rematch, a lost association and a retirement
\* never hand a packet back whose forward is open and was never served.
RewardsAreRealised == \A p \in Packets : place[p] = "held" => ~Unrealised(p)

\* A remembered reward was really obtained, and an unobtained one never
\* surfaces again.
RewardsAreTrue == RewardsAreEarned /\ RewardsAreRealised

\* Every transition that was opened is remembered, discarded and counted, or
\* still open; the rest of the decisions were made for closed episodes.
DecisionsAreAccounted ==
  learner.decisions - loaded.decisions =
    (learner.transitions - loaded.transitions) + mech.stop + mech.rematch
      + Cardinality(open) + told.late

\* The books of the learning episodes are well formed and balance.
LearningIsAccounted == TypeOK /\ DecisionsAreAccounted

\* Exact resume: over any chain of runs and crashes the learner has trained
\* exactly as often, and copied its target network exactly when, one
\* uninterrupted run over the same transitions would have.
TrainingIsExact ==
  /\ learner.steps = IF setup.algorithm = "ddqn"
                     THEN IF learner.transitions < BatchSize THEN 0
                          ELSE learner.transitions - BatchSize + 1
                     ELSE learner.transitions
  /\ setup.algorithm = "ddqn" => learner.target = learner.steps - (learner.steps % TargetInterval)

\* What the receipt asks of a finished run: "Every learning decision opens
\* exactly one transition".
ReceiptAccepts == phase = "stopped" => TallyAccepted

=============================================================================
