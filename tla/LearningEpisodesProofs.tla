---------------------- MODULE LearningEpisodesProofs ----------------------
(***************************************************************************)
(* For any packets, rewards, buffer sizes and chain of runs: what the      *)
(* learner is told of a packet is true and ends with its episode, every    *)
(* decision is accounted for, and the training is that of one run.         *)
(*                                                                         *)
(* The handlers compute the next state from a record of the fields they    *)
(* settle, so the invariant is stated of such a record: Booked says that   *)
(* its books balance, Sound what it says of one packet.  A packet's place  *)
(* bounds its open transition (OpenSound: in a link queue only a forward   *)
(* is open, on the way down only a deliver, and a forward that left its    *)
(* link queue has its reward), and the rows told of it were earned and     *)
(* end where the episode does (ToldSound).  Each helper is shown to keep   *)
(* Booked and to leave Sound the packet it is given; a step that touches   *)
(* one packet then keeps the whole (PacketStep).                           *)
(***************************************************************************)
EXTENDS LearningEpisodes, FiniteSetTheorems, TLAPS

-----------------------------------------------------------------------------
(* The inductive invariant.                                                *)

Fates == {"delivered", "failed"}
Actions == {"forward", "deliver"}
Values == {"zero", "timely", "loss", "forward", "arrive"}
Episodes == [action : {"none"} \cup Actions, reward : {"none", "forward"}, closed : BOOLEAN]
Rows == [action : Actions, reward : Values, done : BOOLEAN]
Learners == [decisions : Nat, transitions : Nat, steps : Nat, replay : Nat, target : Nat]
Settings == [reward : {"queue", "deadline_loss_v1"}, algorithm : {"ddqn", "qlearning"}]
States ==
  [e : [Packets -> Episodes], open : SUBSET Packets, learner : Learners,
   place : [Packets -> Places], mech : [stop : Nat, rematch : Nat],
   told : [rows : [Packets -> Seq(Rows)], late : Nat]]

\* The learner trained as one run over its transitions does.
Exact(l) ==
  /\ l.steps = IF setup.algorithm = "ddqn"
               THEN IF l.transitions < BatchSize THEN 0 ELSE l.transitions - BatchSize + 1
               ELSE l.transitions
  /\ setup.algorithm = "ddqn" => /\ l.replay = AtMost(l.transitions, ReplaySize)
                                 /\ l.target = l.steps - (l.steps % TargetInterval)
  /\ l.replay =< ReplaySize

\* The books of the state v balance.
Booked(v) ==
  /\ v.open = {p \in Packets : v.e[p].action # "none"}
  /\ Exact(v.learner)
  /\ v.learner.decisions - loaded.decisions =
       (v.learner.transitions - loaded.transitions) + v.mech.stop + v.mech.rematch
         + Cardinality(v.open) + v.told.late

\* What an open transition x says of where its packet is, and of its reward.
OpenSound(x, w) ==
  /\ x.closed => ByDeadline
  /\ x.action # "none" => w \notin {"ground"} \cup Fates /\ ~ x.closed
  /\ x.action # "none" /\ w \in {"isl", "sent"} => x.action = "forward"
  /\ x.action # "none" /\ w \in {"down", "landing"} => x.action = "deliver"
  /\ x.reward # "none" => ~ ByDeadline /\ x.action = "forward"
  /\ x.action = "forward" /\ ~ ByDeadline /\ w # "isl" => x.reward = "forward"

\* What the learner was told of a packet in place w was earned, and ends with the episode.
Over(x, w) == x.action = "none" /\ IF ByDeadline THEN x.closed ELSE w \in Fates
Earned(row, w) ==
  /\ row.reward = "arrive" => row.action = "deliver" /\ row.done
  /\ row.reward = "forward" => row.action = "forward"
  /\ row.reward \in {"arrive", "timely"} => w = "delivered"
ToldSound(x, w, rows) ==
  /\ \A i \in DOMAIN rows : Earned(rows[i], w) /\ (rows[i].done => i = Len(rows))
  /\ (\E i \in DOMAIN rows : rows[i].done) => Over(x, w)

Sound(v, p) == OpenSound(v.e[p], v.place[p]) /\ ToldSound(v.e[p], v.place[p], v.told.rows[p])

Learnt ==
  /\ now \in 0..Horizon /\ runs \in 1..MaxRuns
  /\ phase \in {"running", "stopping", "stopped", "dead"}
  /\ setup \in Settings /\ watches \in SUBSET Packets /\ (~ ByDeadline => watches = {})
  /\ loaded \in Learners /\ bundle \in Learners /\ Exact(bundle)
  /\ State \in States /\ Booked(State)
  /\ \A p \in Packets : Sound(State, p)

-----------------------------------------------------------------------------
(* The learner.                                                            *)

LEMMA Remainder ==
  ASSUME NEW n \in Nat, NEW k \in Nat \ {0}, NEW q \in Nat, NEW r \in 0 .. (k - 1), n = k * q + r
  PROVE  n % k = r
OBVIOUS

LEMMA ModStep ==
  ASSUME NEW n \in Nat, NEW k \in Nat \ {0}
  PROVE  /\ n % k \in 0 .. (k - 1) /\ (n - (n % k)) \in Nat
         /\ (n + 1) % k = IF n % k = k - 1 THEN 0 ELSE (n % k) + 1
<1>1. PICK r \in 0 .. (k - 1) : r = n % k
  OBVIOUS
<1>2. PICK q \in Nat : n = k * q + r
  <2>1. n = k * (n \div k) + (n % k) /\ n \div k \in Nat
    OBVIOUS
  <2> QED
    BY <1>1, <2>1
<1>3. n - r \in Nat
  BY <1>2
<1>4. CASE r = k - 1
  <2>1. n + 1 = k * (q + 1) + 0
    BY <1>2, <1>4
  <2>2. q + 1 \in Nat /\ 0 \in 0 .. (k - 1) /\ n + 1 \in Nat
    OBVIOUS
  <2>3. (n + 1) % k = 0
    BY <2>1, <2>2, Remainder
  <2> QED
    BY <1>1, <1>3, <1>4, <2>3
<1>5. CASE r # k - 1
  <2>1. n + 1 = k * q + (r + 1) /\ r + 1 \in 0 .. (k - 1) /\ n + 1 \in Nat
    BY <1>2, <1>5
  <2>2. (n + 1) % k = r + 1
    BY <2>1, Remainder
  <2> QED
    BY <1>1, <1>3, <1>5, <2>2
<1> QED
  BY <1>4, <1>5

LEMMA Training ==
  ASSUME NEW l \in Learners, Exact(l), setup \in Settings, NEW kept,
         kept = IF setup.algorithm = "ddqn" THEN AtMost(l.replay + 1, ReplaySize) ELSE 0,
         NEW m, m = Trained([l EXCEPT !.transitions = @ + 1, !.replay = kept])
  PROVE  /\ m \in Learners /\ Exact(m)
         /\ m.decisions = l.decisions /\ m.transitions = l.transitions + 1
<1>0. /\ BatchSize \in Nat /\ BatchSize > 0 /\ ReplaySize \in Nat /\ BatchSize =< ReplaySize
      /\ TargetInterval \in Nat \ {0}
  BY LearningAssumption
<1>1. /\ l.transitions \in Nat /\ l.steps \in Nat /\ l.replay \in Nat /\ l.target \in Nat /\ l.decisions \in Nat
      /\ l.transitions + 1 \in Nat /\ l.steps + 1 \in Nat
  BY DEF Learners
<1>2. kept \in Nat
  BY <1>0, <1>1 DEF AtMost
<1>3. PICK l1 : l1 = [l EXCEPT !.transitions = l.transitions + 1, !.replay = kept]
  OBVIOUS
<1>4. /\ l1 \in Learners /\ l1.transitions = l.transitions + 1 /\ l1.replay = kept
      /\ l1.steps = l.steps /\ l1.target = l.target /\ l1.decisions = l.decisions
  BY <1>1, <1>2, <1>3 DEF Learners
<1>5. CASE setup.algorithm = "ddqn"
  <2>1. /\ kept = AtMost(l.transitions + 1, ReplaySize)
        /\ kept >= BatchSize <=> l.transitions + 1 >= BatchSize
    BY <1>0, <1>1, <1>5 DEF Exact, AtMost
  <2>2. CASE kept >= BatchSize
    <3>1. PICK target : target = IF (l.steps + 1) % TargetInterval = 0 THEN l.steps + 1 ELSE l.target
      OBVIOUS
    <3>2. m = [l1 EXCEPT !.steps = l1.steps + 1, !.target = target]
      BY <1>3, <1>4, <1>5, <2>2, <3>1 DEF Trained
    <3>3. target = (l.steps + 1) - ((l.steps + 1) % TargetInterval)
      <4>1. l.target = l.steps - (l.steps % TargetInterval)
        BY <1>5 DEF Exact
      <4>2. PICK n \in Nat, k \in Nat \ {0} : n = l.steps /\ k = TargetInterval
        BY <1>0, <1>1
      <4>3. PICK r, t : r = n % k /\ t = (n + 1) % k
        OBVIOUS
      <4>4. r \in 0 .. (k - 1) /\ t = IF r = k - 1 THEN 0 ELSE r + 1
        BY <4>3, ModStep
      <4>5. target = (n + 1) - t
        <5>1. target = IF t = 0 THEN n + 1 ELSE n - r
          BY <3>1, <4>1, <4>2, <4>3
        <5> QED
          BY <4>4, <5>1
      <4> QED
        BY <4>2, <4>3, <4>5
    <3>4. target \in Nat
      BY <1>0, <1>1, <3>3, ModStep
    <3>5. /\ m \in Learners /\ m.steps = l.steps + 1 /\ m.target = target /\ m.replay = kept
          /\ m.transitions = l.transitions + 1 /\ m.decisions = l.decisions
      BY <1>1, <1>4, <3>2, <3>4 DEF Learners
    <3>6. l.steps + 1 = (l.transitions + 1) - BatchSize + 1
      BY <1>0, <1>1, <1>5, <2>1, <2>2 DEF Exact
    <3>7. kept =< ReplaySize
      BY <1>0, <1>1, <2>1 DEF AtMost
    <3> QED
      BY <1>0, <1>1, <1>5, <2>1, <2>2, <3>3, <3>5, <3>6, <3>7 DEF Exact
  <2>3. CASE ~ (kept >= BatchSize)
    <3>1. m = l1
      BY <1>3, <1>4, <1>5, <2>3 DEF Trained
    <3>2. kept =< ReplaySize /\ l.transitions + 1 < BatchSize /\ l.steps = 0
      BY <1>0, <1>1, <1>2, <1>5, <2>1, <2>3 DEF AtMost, Exact
    <3> QED
      BY <1>4, <1>5, <2>1, <3>1, <3>2 DEF Exact
  <2> QED
    BY <2>2, <2>3
<1>6. CASE setup.algorithm # "ddqn"
  <2>1. kept = 0 /\ m = [l1 EXCEPT !.steps = l1.steps + 1, !.target = 0]
    BY <1>2, <1>3, <1>4, <1>6 DEF Trained
  <2>2. /\ m \in Learners /\ m.steps = l.steps + 1 /\ m.replay = 0
        /\ m.transitions = l.transitions + 1 /\ m.decisions = l.decisions
    BY <1>1, <1>4, <2>1 DEF Learners
  <2> QED
    BY <1>0, <1>1, <1>6, <2>2 DEF Exact
<1> QED
  BY <1>5, <1>6

-----------------------------------------------------------------------------
(* Settling a transition.                                                  *)

LEMMA Typing ==
  ASSUME NEW v \in States
  PROVE  /\ v.e \in [Packets -> Episodes] /\ v.open \in SUBSET Packets /\ v.learner \in Learners
         /\ v.place \in [Packets -> Places] /\ v.mech \in [stop : Nat, rematch : Nat]
         /\ v.told \in [rows : [Packets -> Seq(Rows)], late : Nat]
         /\ v.told.rows \in [Packets -> Seq(Rows)] /\ v.told.late \in Nat
BY DEF States

LEMMA OpenIsFinite ==
  ASSUME NEW S \in SUBSET Packets
  PROVE  /\ IsFiniteSet(S) /\ Cardinality(S) \in Nat
         /\ \A p \in Packets : /\ Cardinality(S \ {p}) = IF p \in S THEN Cardinality(S) - 1 ELSE Cardinality(S)
                               /\ Cardinality(S \cup {p}) = IF p \in S THEN Cardinality(S) ELSE Cardinality(S) + 1
<1>1. IsFiniteSet(S)
  BY LearningAssumption, FS_Subset
<1>2. Cardinality(S) \in Nat
  BY <1>1, FS_CardinalityType
<1> QED
  BY <1>1, <1>2, FS_AddElement, FS_RemoveElement

LEMMA Remembering ==
  ASSUME NEW v \in States, NEW p \in Packets, NEW reward \in Values, NEW done \in BOOLEAN,
         v.e[p].action # "none", Exact(v.learner), setup \in Settings,
         NEW r, r = Remembered(v, p, reward, done),
         NEW row, row = [action |-> v.e[p].action, reward |-> reward, done |-> done]
  PROVE  /\ r \in States /\ r.e = v.e /\ r.open = v.open /\ r.place = v.place /\ r.mech = v.mech
         /\ r.told.late = v.told.late
         /\ \A q \in Packets : q # p => r.told.rows[q] = v.told.rows[q]
         /\ r.told.rows[p] = Append(v.told.rows[p], row) /\ row \in Rows
         /\ r.learner.decisions = v.learner.decisions
         /\ r.learner.transitions = v.learner.transitions + 1 /\ Exact(r.learner)
<1>0. /\ v.e \in [Packets -> Episodes] /\ v.learner \in Learners
      /\ v.told.rows \in [Packets -> Seq(Rows)] /\ v.told.late \in Nat
      /\ v.told \in [rows : [Packets -> Seq(Rows)], late : Nat]
  BY Typing
<1>1. row \in Rows
  <2>1. v.e[p].action \in Actions
    BY <1>0 DEF Episodes
  <2> QED
    BY <2>1 DEF Rows
<1>2. PICK kept : kept = IF setup.algorithm = "ddqn" THEN AtMost(v.learner.replay + 1, ReplaySize) ELSE 0
  OBVIOUS
<1>3. PICK m : m = Trained([v.learner EXCEPT !.transitions = @ + 1, !.replay = kept])
  OBVIOUS
<1>4. /\ m \in Learners /\ Exact(m) /\ m.decisions = v.learner.decisions
      /\ m.transitions = v.learner.transitions + 1
  BY <1>0, <1>2, <1>3, Training
<1>5. PICK told1 : told1 = [v.told EXCEPT !.rows[p] = Append(@, row)]
  OBVIOUS
<1>6. r = [v EXCEPT !.learner = m, !.told = told1]
  <2>1. r = [v EXCEPT !.learner = m, !.told.rows[p] = Append(@, row)]
    BY <1>2, <1>3 DEF Remembered
  <2>2. [v EXCEPT !.learner = m, !.told.rows[p] = Append(@, row)] = [v EXCEPT !.learner = m, !.told = told1]
    BY <1>5 DEF States
  <2> QED
    BY <2>1, <2>2
<1>7. PICK rows : rows = [v.told.rows EXCEPT ![p] = Append(v.told.rows[p], row)]
  OBVIOUS
<1>8. /\ rows \in [Packets -> Seq(Rows)] /\ rows[p] = Append(v.told.rows[p], row)
      /\ \A q \in Packets : q # p => rows[q] = v.told.rows[q]
  BY <1>0, <1>1, <1>7
<1>9. told1 = [v.told EXCEPT !.rows = rows]
  BY <1>0, <1>5, <1>7
<1>10. /\ told1 \in [rows : [Packets -> Seq(Rows)], late : Nat] /\ told1.rows = rows
       /\ told1.late = v.told.late
  BY <1>0, <1>8, <1>9
<1>11. /\ r \in States /\ r.e = v.e /\ r.open = v.open /\ r.place = v.place /\ r.mech = v.mech
       /\ r.told = told1 /\ r.learner = m
  BY <1>4, <1>6, <1>10 DEF States
<1> QED
  BY <1>1, <1>4, <1>8, <1>10, <1>11

\* c is v without the open transition of p.
IsCleared(v, p, c) ==
  /\ c \in States /\ c.open = v.open \ {p} /\ c.place = v.place /\ c.mech = v.mech
  /\ c.told = v.told /\ c.learner = v.learner
  /\ \A q \in Packets : q # p => c.e[q] = v.e[q]
  /\ c.e[p].action = "none" /\ c.e[p].reward = "none" /\ c.e[p].closed = v.e[p].closed

LEMMA Clearing ==
  ASSUME NEW v \in States, NEW p \in Packets
  PROVE  IsCleared(v, p, Cleared(v, p))
<1>0. PICK c : c = Cleared(v, p)
  OBVIOUS
<1>1. PICK x : x = [v.e[p] EXCEPT !.action = "none", !.reward = "none"]
  OBVIOUS
<1>2. x \in Episodes /\ x.action = "none" /\ x.reward = "none" /\ x.closed = v.e[p].closed
  <2>1. PICK x0 \in Episodes : x0 = v.e[p]
    BY Typing
  <2> QED
    BY <1>1, <2>1 DEF Episodes
<1>3. PICK x1 : x1 = [v.e EXCEPT ![p] = x]
  OBVIOUS
<1>4. x1 \in [Packets -> Episodes] /\ x1[p] = x /\ \A q \in Packets : q # p => x1[q] = v.e[q]
  BY <1>2, <1>3, Typing
<1>5. c = [v EXCEPT !.e = x1, !.open = v.open \ {p}]
  <2>1. [v.e EXCEPT ![p].action = "none"][p] = [v.e[p] EXCEPT !.action = "none"]
    BY Typing
  <2> QED
    BY <1>0, <1>1, <1>3, Typing DEF Cleared, States
<1>6. /\ c \in States /\ c.e = x1 /\ c.open = v.open \ {p} /\ c.place = v.place /\ c.mech = v.mech
      /\ c.told = v.told /\ c.learner = v.learner
  BY <1>4, <1>5 DEF States
<1> QED
  BY <1>0, <1>2, <1>4, <1>6 DEF IsCleared

\* The transition of p is settled in r: the learner is told, and p has none open.
Settled(v, r, p, reward, done, closed) ==
  /\ r \in States /\ Booked(r) /\ r.place = v.place /\ p \notin r.open
  /\ \A q \in Packets : q # p => r.e[q] = v.e[q] /\ r.told.rows[q] = v.told.rows[q]
  /\ r.e[p].action = "none" /\ r.e[p].reward = "none" /\ r.e[p].closed = closed
  /\ r.told.rows[p] = IF v.e[p].action = "none" THEN v.told.rows[p]
                      ELSE Append(v.told.rows[p], [action |-> v.e[p].action, reward |-> reward, done |-> done])

\* An open transition that is remembered and cleared is one less in the books.
LEMMA Told ==
  ASSUME NEW v \in States, NEW p \in Packets, NEW reward \in Values, NEW done \in BOOLEAN,
         v.e[p].action # "none", Booked(v), setup \in Settings, loaded \in Learners,
         NEW r, r = Remembered(v, p, reward, done)
  PROVE  /\ r \in States /\ r.e = v.e /\ r.place = v.place
         /\ \A c : c = Cleared(r, p) => Settled(v, c, p, reward, done, v.e[p].closed)
<1>1. PICK row : row = [action |-> v.e[p].action, reward |-> reward, done |-> done]
  OBVIOUS
<1>2. Exact(v.learner)
  BY DEF Booked
<1>3. /\ r \in States /\ r.e = v.e /\ r.open = v.open /\ r.place = v.place /\ r.mech = v.mech
      /\ r.told.late = v.told.late
      /\ \A q \in Packets : q # p => r.told.rows[q] = v.told.rows[q]
      /\ r.told.rows[p] = Append(v.told.rows[p], row)
      /\ r.learner.decisions = v.learner.decisions
      /\ r.learner.transitions = v.learner.transitions + 1 /\ Exact(r.learner)
  BY <1>1, <1>2, Remembering
<1>4. ASSUME NEW c, c = Cleared(r, p) PROVE Settled(v, c, p, reward, done, v.e[p].closed)
  <2>0. r \in States
    BY <1>3
  <2>1. /\ c \in States /\ c.open = r.open \ {p} /\ c.place = r.place /\ c.mech = r.mech
        /\ c.told = r.told /\ c.learner = r.learner
        /\ \A q \in Packets : q # p => c.e[q] = r.e[q]
        /\ c.e[p].action = "none" /\ c.e[p].reward = "none" /\ c.e[p].closed = r.e[p].closed
    BY <2>0, <1>4, Clearing DEF IsCleared
  <2>2. Booked(c)
    <3>1. c.open = {q \in Packets : c.e[q].action # "none"}
      BY <1>3, <2>1 DEF Booked
    <3>2. Cardinality(c.open) = Cardinality(v.open) - 1 /\ Cardinality(v.open) \in Nat
      <4>1. p \in v.open /\ v.open \in SUBSET Packets
        BY DEF Booked
      <4> QED
        BY <1>3, <2>1, <4>1, OpenIsFinite
    <3>3. c.learner.decisions - loaded.decisions =
            (c.learner.transitions - loaded.transitions) + c.mech.stop + c.mech.rematch
              + Cardinality(c.open) + c.told.late
      <4>1. /\ v.learner.decisions \in Nat /\ v.learner.transitions \in Nat /\ v.mech.stop \in Nat
            /\ v.mech.rematch \in Nat /\ v.told.late \in Nat /\ loaded.decisions \in Nat
            /\ loaded.transitions \in Nat
        BY Typing DEF Learners
      <4>2. v.learner.decisions - loaded.decisions =
              (v.learner.transitions - loaded.transitions) + v.mech.stop + v.mech.rematch
                + Cardinality(v.open) + v.told.late
        BY DEF Booked
      <4>3. /\ c.learner.decisions = v.learner.decisions /\ c.mech = v.mech
            /\ c.learner.transitions = v.learner.transitions + 1 /\ c.told.late = v.told.late
        BY <1>3, <2>1
      <4> QED
        BY <3>2, <4>1, <4>2, <4>3
    <3> QED
      BY <1>3, <2>1, <3>1, <3>3 DEF Booked
  <2> QED
    BY <1>1, <1>3, <2>1, <2>2 DEF Settled
<1> QED
  BY <1>3, <1>4

LEMMA SettledQueue ==
  ASSUME NEW v \in States, NEW p \in Packets, NEW reward \in Values, NEW done \in BOOLEAN,
         Booked(v), setup \in Settings, loaded \in Learners, v.e[p].action = "none" => v.e[p].reward = "none",
         NEW r, r = FinishedQueue(v, p, reward, done)
  PROVE  Settled(v, r, p, reward, done, v.e[p].closed)
<1>1. CASE v.e[p].action = "none"
  <2>1. r = v
    BY <1>1 DEF FinishedQueue
  <2> QED
    BY <1>1, <2>1 DEF Settled, Booked
<1>2. CASE v.e[p].action # "none"
  <2>1. PICK r1 : r1 = Remembered(v, p, reward, done)
    OBVIOUS
  <2>2. r = Cleared(r1, p)
    BY <1>2, <2>1 DEF FinishedQueue
  <2> QED
    BY <1>2, <2>1, <2>2, Told
<1> QED
  BY <1>1, <1>2

LEMMA SettledDeadline ==
  ASSUME NEW v \in States, NEW p \in Packets, NEW outcome \in {"intermediate", "delivered", "failed", "deadline_expired"},
         Booked(v), setup \in Settings, loaded \in Learners, ~ v.e[p].closed,
         NEW r, r = FinishedDeadline(v, p, outcome)
  PROVE  /\ Settled(v, r, p, DeadlineLoss(outcome), outcome # "intermediate", outcome # "intermediate")
         /\ DeadlineLoss(outcome) \in {"zero", "timely", "loss"}
         /\ DeadlineLoss(outcome) = "timely" <=> outcome = "delivered"
<1>0. /\ DeadlineLoss(outcome) \in {"zero", "timely", "loss"}
      /\ DeadlineLoss(outcome) = "timely" <=> outcome = "delivered"
  BY DEF DeadlineLoss
<1>1. PICK terminal \in BOOLEAN : terminal = (outcome # "intermediate")
  OBVIOUS
<1>2. PICK reward \in Values : reward = DeadlineLoss(outcome)
  BY <1>0 DEF Values
<1>3. PICK r1 : r1 = IF v.e[p].action = "none" THEN v ELSE Remembered(v, p, reward, terminal)
  OBVIOUS
<1>4. PICK r2 : r2 = [r1 EXCEPT !.e[p].closed = terminal]
  OBVIOUS
<1>5. r = Cleared(r2, p)
  BY <1>1, <1>2, <1>3, <1>4 DEF FinishedDeadline
<1>6. r1 \in States /\ r1.e = v.e /\ r1.place = v.place
  BY <1>3, Told
\* Closing the episode commutes with clearing it.
<1>7. PICK c : c = Cleared(r1, p)
  OBVIOUS
<1>8. PICK x \in Episodes : x = [v.e[p] EXCEPT !.closed = terminal]
  <2>1. PICK x0 \in Episodes : x0 = v.e[p]
    BY Typing
  <2> QED
    BY <2>1 DEF Episodes
<1>9. r2 = [r1 EXCEPT !.e = [v.e EXCEPT ![p] = x]]
  BY <1>4, <1>6, <1>8 DEF States
<1>10. /\ r2 \in States /\ r2.e = [v.e EXCEPT ![p] = x] /\ r2.open = r1.open /\ r2.place = r1.place
       /\ r2.mech = r1.mech /\ r2.told = r1.told /\ r2.learner = r1.learner
  <2>1. [v.e EXCEPT ![p] = x] \in [Packets -> Episodes]
    BY Typing
  <2> QED
    BY <1>6, <1>9, <2>1 DEF States
<1>11. /\ r \in States /\ r.open = c.open /\ r.place = c.place /\ r.mech = c.mech
       /\ r.told = c.told /\ r.learner = c.learner
       /\ \A q \in Packets : q # p => r.e[q] = v.e[q] /\ c.e[q] = v.e[q]
       /\ r.e[p].action = "none" /\ r.e[p].reward = "none" /\ r.e[p].closed = terminal
       /\ c.e[p].action = "none"
  <2>1. r2.e[p] = x /\ x.closed = terminal /\ \A q \in Packets : q # p => r2.e[q] = v.e[q]
    BY <1>8, <1>10, Typing DEF Episodes
  <2>2. /\ c.open = r1.open \ {p} /\ c.place = r1.place /\ c.mech = r1.mech
        /\ c.told = r1.told /\ c.learner = r1.learner /\ c.e[p].action = "none"
        /\ \A q \in Packets : q # p => c.e[q] = v.e[q]
    BY <1>6, <1>7, Clearing DEF IsCleared
  <2>3. /\ r \in States /\ r.open = r2.open \ {p} /\ r.place = r2.place /\ r.mech = r2.mech
        /\ r.told = r2.told /\ r.learner = r2.learner
        /\ \A q \in Packets : q # p => r.e[q] = r2.e[q]
        /\ r.e[p].action = "none" /\ r.e[p].reward = "none" /\ r.e[p].closed = r2.e[p].closed
    <3>1. r2 \in States
      BY <1>10
    <3>2. IsCleared(r2, p, r)
      BY <1>5, <3>1, Clearing
    <3> QED
      BY <3>2 DEF IsCleared
  <2> QED
    BY <1>10, <2>1, <2>2, <2>3
<1>12. Booked(c) /\ c.place = v.place /\ p \notin c.open
       /\ (\A q \in Packets : q # p => c.told.rows[q] = v.told.rows[q])
       /\ c.told.rows[p] = IF v.e[p].action = "none" THEN v.told.rows[p]
             ELSE Append(v.told.rows[p], [action |-> v.e[p].action, reward |-> reward, done |-> terminal])
  <2>1. CASE v.e[p].action = "none"
    <3>1. r1 = v /\ p \notin v.open
      BY <1>3, <2>1 DEF Booked
    <3>2. /\ c.open = v.open /\ c.place = v.place /\ c.mech = v.mech /\ c.told = v.told
          /\ c.learner = v.learner
      <4>1. IsCleared(v, p, c)
        BY <1>7, <3>1, Clearing
      <4> QED
        BY <3>1, <4>1 DEF IsCleared
    <3>3. Booked(c)
      BY <1>11, <2>1, <3>2 DEF Booked
    <3> QED
      BY <2>1, <3>1, <3>2, <3>3
  <2>2. CASE v.e[p].action # "none"
    <3>1. Settled(v, c, p, reward, terminal, v.e[p].closed)
      BY <1>3, <1>7, <2>2, Told
    <3> QED
      BY <2>2, <3>1 DEF Settled
  <2> QED
    BY <2>1, <2>2
<1>13. Booked(r)
  BY <1>11, <1>12 DEF Booked
<1> QED
  BY <1>0, <1>1, <1>2, <1>11, <1>12, <1>13 DEF Settled

-----------------------------------------------------------------------------
(* One packet is touched.                                                  *)

\* r differs from v in the packet p alone, and its books are right.
Stepped(v, r, p) ==
  /\ r \in States /\ Booked(r) /\ Sound(r, p)
  /\ \A q \in Packets : q # p => /\ r.e[q] = v.e[q] /\ r.place[q] = v.place[q]
                                 /\ r.told.rows[q] = v.told.rows[q]

\* What was earned stays earned, unless the packet leaves its cell.
LEMMA SameRows ==
  ASSUME NEW x, NEW y, NEW w, NEW u, NEW rows, ToldSound(x, w, rows),
         w = u \/ w # "delivered", Over(x, w) => Over(y, u)
  PROVE  ToldSound(y, u, rows)
<1>1. \A row : Earned(row, w) => Earned(row, u)
  BY DEF Earned
<1> QED
  BY <1>1 DEF ToldSound

\* One more row, while the episode is not over.
LEMMA MoreRows ==
  ASSUME NEW x, NEW y, NEW w, NEW u, NEW rows \in Seq(Rows), NEW row \in Rows, ToldSound(x, w, rows),
         ~ Over(x, w), w = u \/ w # "delivered", Earned(row, u), row.done => Over(y, u)
  PROVE  ToldSound(y, u, Append(rows, row))
<1>1. PICK more : more = Append(rows, row)
  OBVIOUS
<1>2. /\ Len(rows) \in Nat /\ Len(more) = Len(rows) + 1 /\ DOMAIN more = 1 .. (Len(rows) + 1)
      /\ DOMAIN rows = 1 .. Len(rows)
      /\ more[Len(rows) + 1] = row /\ \A i \in 1 .. Len(rows) : more[i] = rows[i]
  BY <1>1
<1>3. \A i \in 1 .. Len(rows) : Earned(rows[i], u) /\ ~ rows[i].done
  <2>1. \A i \in 1 .. Len(rows) : Earned(rows[i], w) /\ ~ rows[i].done
    BY <1>2 DEF ToldSound
  <2> QED
    BY <2>1 DEF Earned
<1>4. \A i \in DOMAIN more : i = Len(rows) + 1 \/ i \in 1 .. Len(rows)
  BY <1>2
<1>5. \A i \in DOMAIN more : Earned(more[i], u) /\ (more[i].done => i = Len(more))
  BY <1>2, <1>3, <1>4
<1>6. (\E i \in DOMAIN more : more[i].done) => Over(y, u)
  BY <1>2, <1>3, <1>4
<1> QED
  BY <1>1, <1>5, <1>6 DEF ToldSound

\* A packet whose transition is settled is sound where it goes.
LEMMA SettledIsSound ==
  ASSUME NEW v \in States, NEW p \in Packets, NEW reward \in Values, NEW done \in BOOLEAN,
         NEW closed \in BOOLEAN, NEW u \in Places, NEW s, Settled(v, s, p, reward, done, closed),
         Sound(v, p), u = v.place[p] \/ v.place[p] \notin Fates, closed => ByDeadline,
         ByDeadline /\ v.e[p].closed => closed,
         done => IF ByDeadline THEN closed ELSE u \in Fates,
         \A row \in Rows : row.action = v.e[p].action /\ row.reward = reward /\ row.done = done => Earned(row, u)
  PROVE  OpenSound(s.e[p], u) /\ ToldSound(s.e[p], u, s.told.rows[p])
<1>1. s.e[p].action = "none" /\ s.e[p].reward = "none" /\ s.e[p].closed = closed
  BY DEF Settled
<1>2. OpenSound(s.e[p], u)
  BY <1>1 DEF OpenSound
<1>3. OpenSound(v.e[p], v.place[p]) /\ ToldSound(v.e[p], v.place[p], v.told.rows[p])
  BY DEF Sound
<1>4. u = v.place[p] \/ v.place[p] # "delivered"
  BY DEF Fates
<1>5. CASE v.e[p].action = "none"
  <2>1. s.told.rows[p] = v.told.rows[p]
    BY <1>5 DEF Settled
  <2>2. Over(v.e[p], v.place[p]) => Over(s.e[p], u)
    BY <1>1 DEF Over
  <2> QED
    BY <1>2, <1>3, <1>4, <2>1, <2>2, SameRows
<1>6. CASE v.e[p].action # "none"
  <2>1. PICK row : row = [action |-> v.e[p].action, reward |-> reward, done |-> done]
    OBVIOUS
  <2>2. v.e[p].action \in Actions
    BY <1>6, Typing DEF Episodes
  <2>3. row \in Rows /\ row.action = v.e[p].action /\ row.reward = reward /\ row.done = done
    BY <2>1, <2>2 DEF Rows
  <2>4. Earned(row, u)
    BY <2>3
  <2>5. s.told.rows[p] = Append(v.told.rows[p], row) /\ v.told.rows[p] \in Seq(Rows)
    BY <1>6, <2>1, Typing DEF Settled
  <2>6. ~ Over(v.e[p], v.place[p])
    BY <1>6 DEF Over
  <2>7. row.done => Over(s.e[p], u)
    BY <1>1, <2>3 DEF Over
  <2> QED
    BY <1>2, <1>3, <1>4, <2>3, <2>4, <2>5, <2>6, <2>7, MoreRows
<1> QED
  BY <1>5, <1>6

LEMMA Moving ==
  ASSUME NEW v \in States, NEW p \in Packets, NEW u \in Places, Booked(v),
         OpenSound(v.e[p], u), ToldSound(v.e[p], u, v.told.rows[p])
  PROVE  Stepped(v, [v EXCEPT !.place[p] = u], p)
<1>1. PICK r, w : r = [v EXCEPT !.place[p] = u] /\ w = [v.place EXCEPT ![p] = u]
  OBVIOUS
<1>2. w \in [Packets -> Places] /\ w[p] = u /\ \A q \in Packets : q # p => w[q] = v.place[q]
  BY <1>1, Typing
<1>3. r = [v EXCEPT !.place = w]
  BY <1>1 DEF States
<1>4. /\ r \in States /\ r.e = v.e /\ r.open = v.open /\ r.learner = v.learner /\ r.mech = v.mech
      /\ r.told = v.told /\ r.place = w
  BY <1>2, <1>3 DEF States
<1>5. Booked(r)
  BY <1>4 DEF Booked
<1>6. Sound(r, p)
  BY <1>2, <1>4 DEF Sound
<1> QED
  BY <1>1, <1>2, <1>4, <1>5, <1>6 DEF Stepped

\* s differs from v in the transition of p alone, and its books are right.
Touched(v, s, p) ==
  /\ s \in States /\ Booked(s)
  /\ \A q \in Packets : q # p => /\ s.e[q] = v.e[q] /\ s.place[q] = v.place[q]
                                 /\ s.told.rows[q] = v.told.rows[q]

LEMMA Composed ==
  ASSUME NEW v, NEW s, NEW r, NEW p, Touched(v, s, p), Stepped(s, r, p)
  PROVE  Stepped(v, r, p)
BY DEF Stepped, Touched

\* The transition of p is settled, and p goes to u.
LEMMA TouchedAndMoved ==
  ASSUME NEW v \in States, NEW p \in Packets, NEW u \in Places, NEW s, Touched(v, s, p),
         OpenSound(s.e[p], u), ToldSound(s.e[p], u, s.told.rows[p]), NEW r, r = [s EXCEPT !.place[p] = u]
  PROVE  Stepped(v, r, p)
<1>1. s \in States /\ Booked(s)
  BY DEF Touched
<1>2. Stepped(s, r, p)
  BY <1>1, Moving
<1> QED
  BY <1>2, Composed

\* _finish_learning_transition leaves a packet sound where it goes.
LEMMA QueueIsSound ==
  ASSUME NEW v \in States, NEW p \in Packets, NEW reward \in Values, NEW done \in BOOLEAN, NEW u \in Places,
         Booked(v), Sound(v, p), setup \in Settings, loaded \in Learners, ~ ByDeadline,
         u = v.place[p] \/ v.place[p] \notin Fates, done => u \in Fates,
         \A row \in Rows : row.action = v.e[p].action /\ row.reward = reward /\ row.done = done => Earned(row, u),
         NEW s, s = FinishedQueue(v, p, reward, done)
  PROVE  /\ Touched(v, s, p) /\ OpenSound(s.e[p], u) /\ ToldSound(s.e[p], u, s.told.rows[p])
         /\ s.e[p].action = "none" /\ s.e[p].reward = "none" /\ s.place = v.place
<1>1. OpenSound(v.e[p], v.place[p])
  BY DEF Sound
<1>2. v.e[p].action = "none" => v.e[p].reward = "none"
  BY <1>1 DEF OpenSound
<1>3. v.e[p].closed \in BOOLEAN
  BY Typing DEF Episodes
<1>4. v.e[p].closed = FALSE
  BY <1>1, <1>3 DEF OpenSound
<1>5. Settled(v, s, p, reward, done, FALSE)
  <2>1. Settled(v, s, p, reward, done, v.e[p].closed)
    BY <1>2, SettledQueue
  <2> QED
    BY <1>4, <2>1
<1>6. OpenSound(s.e[p], u) /\ ToldSound(s.e[p], u, s.told.rows[p])
  <2>1. PICK closed \in BOOLEAN : closed = FALSE
    OBVIOUS
  <2>2. /\ closed => ByDeadline
        /\ ByDeadline /\ v.e[p].closed => closed
        /\ done => IF ByDeadline THEN closed ELSE u \in Fates
    BY <2>1
  <2>3. Settled(v, s, p, reward, done, closed)
    BY <1>5, <2>1
  <2> QED
    BY <2>2, <2>3, SettledIsSound
<1>7. /\ Touched(v, s, p)
      /\ s.e[p].action = "none" /\ s.e[p].reward = "none" /\ s.place = v.place
  BY <1>5 DEF Settled, Touched
<1> QED
  BY <1>6, <1>7

\* _finish_deadline_transition leaves a packet sound where it goes.
LEMMA DeadlineIsSound ==
  ASSUME NEW v \in States, NEW p \in Packets, NEW u \in Places,
         NEW outcome \in {"intermediate", "delivered", "failed", "deadline_expired"},
         Booked(v), Sound(v, p), setup \in Settings, loaded \in Learners, ByDeadline,
         u = v.place[p] \/ v.place[p] \notin Fates, outcome = "delivered" => u = "delivered",
         NEW s, s = FinishedDeadline(v, p, outcome)
  PROVE  /\ Touched(v, s, p) /\ OpenSound(s.e[p], u) /\ ToldSound(s.e[p], u, s.told.rows[p])
         /\ s.e[p].action = "none" /\ s.e[p].reward = "none" /\ s.place = v.place
         /\ ~ v.e[p].closed => s.e[p].closed = (outcome # "intermediate")
<1>1. OpenSound(v.e[p], v.place[p]) /\ ToldSound(v.e[p], v.place[p], v.told.rows[p])
  BY DEF Sound
<1>2. CASE v.e[p].closed
  <2>1. s = v
    BY <1>2 DEF FinishedDeadline
  <2>2. v.e[p].action = "none" /\ v.e[p].reward = "none"
    BY <1>1, <1>2 DEF OpenSound
  <2>3. OpenSound(v.e[p], u)
    BY <2>2 DEF OpenSound
  <2>4. Over(v.e[p], u) /\ (u = v.place[p] \/ v.place[p] # "delivered")
    BY <1>2, <2>2 DEF Over, Fates
  <2>5. ToldSound(v.e[p], u, v.told.rows[p])
    BY <1>1, <2>4, SameRows
  <2> QED
    BY <1>2, <2>1, <2>2, <2>3, <2>5 DEF Touched
<1>3. CASE ~ v.e[p].closed
  <2>1. /\ Settled(v, s, p, DeadlineLoss(outcome), outcome # "intermediate", outcome # "intermediate")
        /\ DeadlineLoss(outcome) \in {"zero", "timely", "loss"}
        /\ DeadlineLoss(outcome) = "timely" <=> outcome = "delivered"
    BY <1>3, SettledDeadline
  <2>2. PICK reward \in Values : reward = DeadlineLoss(outcome)
    BY <2>1 DEF Values
  <2>3. PICK done \in BOOLEAN : done = (outcome # "intermediate")
    OBVIOUS
  <2>4. /\ Settled(v, s, p, reward, done, done) /\ reward \in {"zero", "timely", "loss"}
        /\ reward = "timely" => outcome = "delivered"
    BY <2>1, <2>2, <2>3
  <2>5. \A row \in Rows : row.action = v.e[p].action /\ row.reward = reward /\ row.done = done => Earned(row, u)
    BY <2>4 DEF Earned
  <2>6. OpenSound(s.e[p], u) /\ ToldSound(s.e[p], u, s.told.rows[p])
    BY <1>3, <2>4, <2>5, SettledIsSound
  <2>7. /\ Touched(v, s, p)
        /\ s.e[p].action = "none" /\ s.e[p].reward = "none" /\ s.e[p].closed = done /\ s.place = v.place
    BY <2>4 DEF Settled, Touched
  <2> QED
    BY <2>3, <2>6, <2>7
<1> QED
  BY <1>2, <1>3

LEMMA FailedIsSound ==
  ASSUME NEW v \in States, NEW p \in Packets, Booked(v), Sound(v, p), v.place[p] \notin Fates,
         setup \in Settings, loaded \in Learners
  PROVE  Stepped(v, Failed(v, p), p)
<1>0. "failed" \in Places /\ "failed" \in Fates /\ TRUE \in BOOLEAN
  BY DEF Places, Fates
<1>1. CASE ~ ByDeadline
  <2>1. PICK realised : realised = IF v.e[p].reward # "none" THEN v.e[p].reward ELSE "zero"
    OBVIOUS
  <2>2. v.e[p].reward \in {"none", "forward"} /\ OpenSound(v.e[p], v.place[p])
    BY Typing DEF Episodes, Sound
  <2>3. realised \in Values /\ realised \in {"forward", "zero"} /\ (realised = "forward" => v.e[p].action = "forward")
    BY <2>1, <2>2 DEF Values, OpenSound
  <2>4. PICK s : s = FinishedQueue(v, p, realised, TRUE)
    OBVIOUS
  <2>5. \A row \in Rows : row.action = v.e[p].action /\ row.reward = realised /\ row.done = TRUE => Earned(row, "failed")
    BY <2>3 DEF Earned
  <2>6. Touched(v, s, p) /\ OpenSound(s.e[p], "failed") /\ ToldSound(s.e[p], "failed", s.told.rows[p])
    BY <1>0, <1>1, <2>3, <2>4, <2>5, QueueIsSound
  <2>7. Failed(v, p) = [s EXCEPT !.place[p] = "failed"]
    BY <1>1, <2>1, <2>4 DEF Failed
  <2> QED
    BY <1>0, <2>6, <2>7, TouchedAndMoved
<1>2. CASE ByDeadline
  <2>1. PICK s : s = FinishedDeadline(v, p, "failed")
    OBVIOUS
  <2>2. Touched(v, s, p) /\ OpenSound(s.e[p], "failed") /\ ToldSound(s.e[p], "failed", s.told.rows[p])
    BY <1>0, <1>2, <2>1, DeadlineIsSound
  <2>3. Failed(v, p) = [s EXCEPT !.place[p] = "failed"]
    BY <1>2, <2>1 DEF Failed
  <2> QED
    BY <1>0, <2>2, <2>3, TouchedAndMoved
<1> QED
  BY <1>1, <1>2

\* A decision opens the transition of a packet that has none.
LEMMA ChosenIsSound ==
  ASSUME NEW v \in States, NEW p \in Packets, NEW a \in Actions, Booked(v), loaded \in Learners,
         setup \in Settings,
         v.e[p].action = "none", v.e[p].reward = "none", ~ v.e[p].closed, v.place[p] = "held",
         ToldSound(v.e[p], "held", v.told.rows[p])
  PROVE  Stepped(v, Placed(Chosen(v, p, a), p, a), p)
<1>1. PICK x0 \in Episodes : x0 = v.e[p]
  BY Typing
<1>2. PICK x : x = [x0 EXCEPT !.action = a, !.reward = "none"]
  OBVIOUS
<1>3. x \in Episodes /\ x.action = a /\ x.reward = "none" /\ ~ x.closed
  BY <1>1, <1>2 DEF Episodes
<1>4. PICK x1 : x1 = [v.e EXCEPT ![p] = x]
  OBVIOUS
<1>5. x1 \in [Packets -> Episodes] /\ x1[p] = x /\ \A q \in Packets : q # p => x1[q] = v.e[q]
  BY <1>3, <1>4, Typing
<1>6. PICK l0 \in Learners : l0 = v.learner
  BY Typing
<1>7. PICK l : l = [l0 EXCEPT !.decisions = l0.decisions + 1]
  OBVIOUS
<1>8. /\ l \in Learners /\ l.decisions = v.learner.decisions + 1 /\ l.transitions = v.learner.transitions
      /\ l.steps = v.learner.steps /\ l.replay = v.learner.replay /\ l.target = v.learner.target
  BY <1>6, <1>7 DEF Learners
<1>9. PICK s : s = [v EXCEPT !.learner = l, !.e = x1, !.open = v.open \cup {p}]
  OBVIOUS
<1>10. s = Chosen(v, p, a)
  <2>1. [v EXCEPT !.learner.decisions = @ + 1] = [v EXCEPT !.learner = l]
    BY <1>6, <1>7 DEF States
  <2>2. [v EXCEPT !.e[p] = [@ EXCEPT !.action = a, !.reward = "none"]] = [v EXCEPT !.e = x1]
    BY <1>1, <1>2, <1>4 DEF States
  <2> QED
    BY <1>1, <1>2, <1>4, <1>6, <1>7, <1>9, <2>1, <2>2 DEF Chosen, States
<1>11. /\ s \in States /\ s.e = x1 /\ s.open = v.open \cup {p} /\ s.learner = l /\ s.place = v.place
       /\ s.mech = v.mech /\ s.told = v.told
  BY <1>5, <1>8, <1>9 DEF States
<1>12. Booked(s)
  <2>1. s.open = {q \in Packets : s.e[q].action # "none"}
    <3>1. x.action # "none"
      BY <1>3 DEF Actions
    <3> QED
      BY <1>5, <1>11, <3>1 DEF Booked
  <2>2. Cardinality(s.open) = Cardinality(v.open) + 1 /\ Cardinality(v.open) \in Nat
    <3>1. p \notin v.open /\ v.open \in SUBSET Packets
      BY DEF Booked
    <3> QED
      BY <1>11, <3>1, OpenIsFinite
  <2>3. Exact(s.learner)
    BY <1>8, <1>11 DEF Booked, Exact
  <2>4. s.learner.decisions - loaded.decisions =
          (s.learner.transitions - loaded.transitions) + s.mech.stop + s.mech.rematch
            + Cardinality(s.open) + s.told.late
    <3>1. /\ v.learner.decisions \in Nat /\ v.learner.transitions \in Nat /\ v.mech.stop \in Nat
          /\ v.mech.rematch \in Nat /\ v.told.late \in Nat /\ loaded.decisions \in Nat
          /\ loaded.transitions \in Nat
      BY Typing DEF Learners
    <3>2. v.learner.decisions - loaded.decisions =
            (v.learner.transitions - loaded.transitions) + v.mech.stop + v.mech.rematch
              + Cardinality(v.open) + v.told.late
      BY DEF Booked
    <3> QED
      BY <1>8, <1>11, <2>2, <3>1, <3>2
  <2> QED
    BY <2>1, <2>3, <2>4 DEF Booked
<1>13. PICK u \in Places : u = IF a = "deliver" THEN "down" ELSE "isl"
  BY DEF Places
<1>14. s.e[p] = x /\ s.told.rows[p] = v.told.rows[p]
  BY <1>5, <1>11
<1>15. OpenSound(x, u)
  BY <1>3, <1>13 DEF OpenSound, Fates, Actions
<1>16. ToldSound(x, u, v.told.rows[p])
  <2>1. ~ Over(v.e[p], "held")
    BY DEF Over, Fates
  <2> QED
    BY <2>1, SameRows
<1>17. Touched(v, s, p)
  BY <1>5, <1>11, <1>12 DEF Touched
<1>18. Placed(Chosen(v, p, a), p, a) = [s EXCEPT !.place[p] = u]
  BY <1>10, <1>13 DEF Placed
<1> QED
  BY <1>14, <1>15, <1>16, <1>17, <1>18, TouchedAndMoved

\* A rematch discards the open transition of a queued packet, and counts it.
LEMMA DiscardedIsSound ==
  ASSUME NEW v \in States, NEW p \in Packets, Booked(v), Sound(v, p), loaded \in Learners,
         setup \in Settings, v.place[p] = "isl", NEW d, d = Discarded(v, p)
  PROVE  /\ Touched(v, d, p) /\ Sound(d, p) /\ d.place = v.place
         /\ d.e[p].action = "none" /\ d.e[p].reward = "none"
<1>1. OpenSound(v.e[p], "isl") /\ ToldSound(v.e[p], "isl", v.told.rows[p])
  BY DEF Sound
<1>2. p \in v.open <=> v.e[p].action # "none"
  BY DEF Booked
<1>3. CASE p \notin v.open
  <2>1. d = v /\ v.e[p].action = "none"
    BY <1>2, <1>3 DEF Discarded
  <2>2. v.e[p].reward = "none"
    BY <1>1, <2>1 DEF OpenSound
  <2> QED
    BY <2>1, <2>2 DEF Touched
<1>4. CASE p \in v.open
  <2>1. PICK m0 \in [stop : Nat, rematch : Nat] : m0 = v.mech
    BY Typing
  <2>2. PICK m : m = [m0 EXCEPT !.rematch = m0.rematch + 1]
    OBVIOUS
  <2>3. m \in [stop : Nat, rematch : Nat] /\ m.stop = v.mech.stop /\ m.rematch = v.mech.rematch + 1
    BY <2>1, <2>2
  <2>4. PICK c : c = [v EXCEPT !.mech = m]
    OBVIOUS
  <2>5. c = [v EXCEPT !.mech.rematch = @ + 1]
    BY <2>1, <2>2, <2>4 DEF States
  <2>6. /\ c \in States /\ c.e = v.e /\ c.open = v.open /\ c.learner = v.learner /\ c.place = v.place
        /\ c.mech = m /\ c.told = v.told
    BY <2>3, <2>4 DEF States
  <2>7. d = Cleared(c, p)
    BY <1>4, <2>5 DEF Discarded
  <2>8. IsCleared(c, p, d)
    BY <2>6, <2>7, Clearing
  <2>9. /\ d \in States /\ d.open = v.open \ {p} /\ d.place = v.place /\ d.mech = m
        /\ d.told = v.told /\ d.learner = v.learner
        /\ \A q \in Packets : q # p => d.e[q] = v.e[q]
        /\ d.e[p].action = "none" /\ d.e[p].reward = "none" /\ d.e[p].closed = v.e[p].closed
    BY <2>6, <2>8 DEF IsCleared
  <2>10. Booked(d)
    <3>1. d.open = {q \in Packets : d.e[q].action # "none"}
      BY <2>9 DEF Booked
    <3>2. Cardinality(d.open) = Cardinality(v.open) - 1 /\ Cardinality(v.open) \in Nat
      <4>1. v.open \in SUBSET Packets
        BY Typing
      <4> QED
        BY <1>4, <2>9, <4>1, OpenIsFinite
    <3>3. d.learner.decisions - loaded.decisions =
            (d.learner.transitions - loaded.transitions) + d.mech.stop + d.mech.rematch
              + Cardinality(d.open) + d.told.late
      <4>1. /\ v.learner.decisions \in Nat /\ v.learner.transitions \in Nat /\ v.mech.stop \in Nat
            /\ v.mech.rematch \in Nat /\ v.told.late \in Nat /\ loaded.decisions \in Nat
            /\ loaded.transitions \in Nat
        BY Typing DEF Learners
      <4>2. v.learner.decisions - loaded.decisions =
              (v.learner.transitions - loaded.transitions) + v.mech.stop + v.mech.rematch
                + Cardinality(v.open) + v.told.late
        BY DEF Booked
      <4> QED
        BY <2>3, <2>9, <3>2, <4>1, <4>2
    <3>4. Exact(d.learner)
      BY <2>9 DEF Booked
    <3> QED
      BY <3>1, <3>3, <3>4 DEF Booked
  <2>11. OpenSound(d.e[p], "isl")
    BY <1>1, <2>9 DEF OpenSound
  <2>12. ToldSound(d.e[p], "isl", d.told.rows[p])
    <3>1. ~ Over(v.e[p], "isl")
      BY <1>2, <1>4 DEF Over
    <3> QED
      BY <1>1, <2>9, <3>1, SameRows
  <2> QED
    BY <2>9, <2>10, <2>11, <2>12 DEF Touched, Sound
<1> QED
  BY <1>3, <1>4

-----------------------------------------------------------------------------
(* A step that touches one packet keeps the invariant.                     *)

LEMMA PacketStep ==
  ASSUME Learnt, NEW p \in Packets, NEW r, Stepped(State, r, p), Become(r),
         UNCHANGED <<now, runs, phase, setup, loaded, bundle>>,
         watches' \in SUBSET Packets, ~ ByDeadline => watches' = {}
  PROVE  Learnt'
<1>1. r \in States /\ Booked(r) /\ Sound(r, p)
  BY DEF Stepped
<1>2. State' = r
  BY <1>1 DEF State, Become, States
<1>3. ByDeadline' = ByDeadline /\ \A l : Exact(l)' = Exact(l)
  BY DEF ByDeadline, Exact, AtMost
<1>4. Booked(r)' = Booked(r)
  BY <1>3 DEF Booked
<1>5. \A q \in Packets : Sound(r, q)' = Sound(r, q)
  BY <1>3 DEF Sound, OpenSound, ToldSound, Earned, Over
<1>6. \A q \in Packets : Sound(r, q)
  <2>1. SUFFICES ASSUME NEW q \in Packets, q # p PROVE Sound(r, q)
    BY <1>1
  <2>2. Sound(State, q) /\ r.e[q] = State.e[q] /\ r.place[q] = State.place[q] /\ r.told.rows[q] = State.told.rows[q]
    BY <2>1 DEF Learnt, Stepped
  <2> QED
    BY <2>2 DEF Sound
<1> QED
  BY <1>1, <1>2, <1>3, <1>4, <1>5, <1>6 DEF Learnt

\* What the invariant says of a packet in a step of the kernel.
LEMMA Facts ==
  ASSUME Learnt, NEW p \in Packets
  PROVE  /\ State \in States /\ Booked(State) /\ Sound(State, p) /\ setup \in Settings /\ loaded \in Learners
         /\ State.e = e /\ State.open = open /\ State.place = place /\ State.learner = learner
         /\ State.mech = mech /\ State.told = told
         /\ OpenSound(e[p], place[p]) /\ ToldSound(e[p], place[p], told.rows[p])
         /\ e[p] \in Episodes
         /\ watches \in SUBSET Packets /\ (~ ByDeadline => watches = {})
BY Typing DEF Learnt, Sound, State

LEMMA StillStep ==
  ASSUME Learnt, NEW p \in Packets, NEW r, Stepped(State, r, p), Become(r), Still
  PROVE  Learnt'
<1>1. UNCHANGED <<now, runs, phase, setup, loaded, bundle>> /\ watches' = watches
  BY DEF Still, Same
<1>2. watches' \in SUBSET Packets /\ (~ ByDeadline => watches' = {})
  BY <1>1, Facts
<1> QED
  BY <1>1, <1>2, PacketStep

LEMMA EmitStep == ASSUME Learnt, NEW p \in Packets, Emit(p) PROVE Learnt'
<1>1. UNCHANGED <<now, runs, phase, setup, loaded, bundle>>
  BY DEF Emit, Same
<1>2. watches' \in SUBSET Packets /\ (~ ByDeadline => watches' = {})
  BY Facts DEF Emit
<1>3. State.place[p] = "ground" /\ "ground" \notin Fates /\ "held" \notin Fates /\ "held" \in Places
  BY Facts DEF Emit, Fates, Places
<1>4. e[p].action = "none" /\ e[p].reward = "none"
  BY <1>3, Facts DEF OpenSound
<1>5. PICK v : v = State
  OBVIOUS
<1>6. Stepped(v, [v EXCEPT !.place[p] = "held"], p)
  <2>1. OpenSound(v.e[p], "held")
    BY <1>4, <1>5, Facts DEF OpenSound
  <2>2. ToldSound(v.e[p], "held", v.told.rows[p])
    <3>1. Over(e[p], "ground") => Over(e[p], "held")
      BY DEF Over, Fates
    <3> QED
      BY <1>3, <1>5, <3>1, Facts, SameRows
  <2> QED
    BY <1>3, <1>5, <2>1, <2>2, Facts, Moving
<1>7. Stepped(v, Failed(v, p), p)
  BY <1>3, <1>5, Facts, FailedIsSound
<1>8. Become([v EXCEPT !.place[p] = "held"]) \/ Become(Failed(v, p))
  BY <1>5 DEF Emit
<1> QED
  BY <1>1, <1>2, <1>5, <1>6, <1>7, <1>8, PacketStep

\* A packet that moves without a change of its episode.
LEMMA MovedStep ==
  ASSUME Learnt, NEW p \in Packets, NEW u \in Places, Still,
         place[p] \notin Fates, u \notin Fates, OpenSound(e[p], u),
         Become([State EXCEPT !.place[p] = u])
  PROVE  Learnt'
<1>1. PICK v : v = State
  OBVIOUS
<1>2. v.e = e /\ v.place = place /\ v.told = told /\ v \in States /\ Booked(v)
  BY <1>1, Facts
<1>3. ToldSound(e[p], u, told.rows[p])
  <2>1. place[p] # "delivered" /\ (Over(e[p], place[p]) => Over(e[p], u))
    BY DEF Over, Fates
  <2> QED
    BY <2>1, Facts, SameRows
<1>4. Stepped(v, [v EXCEPT !.place[p] = u], p)
  BY <1>2, <1>3, Moving
<1> QED
  BY <1>1, <1>4, StillStep

LEMMA ArriveStep == ASSUME Learnt, NEW p \in Packets, Arrive(p) PROVE Learnt'
<1>1. place[p] = "sent" /\ "sent" \notin Fates /\ "held" \notin Fates /\ "held" \in Places
  BY DEF Arrive, Fates, Places
<1>2. OpenSound(e[p], "held")
  BY <1>1, Facts DEF OpenSound, Fates
<1> QED
  BY <1>1, <1>2, MovedStep DEF Arrive

LEMMA BounceStep == ASSUME Learnt, NEW p \in Packets, Bounce(p) PROVE Learnt'
<1>1. place[p] = "down" /\ "down" \notin Fates /\ "held" \notin Fates /\ "held" \in Places
  BY DEF Bounce, Fates, Places
<1>2. OpenSound(e[p], "held")
  BY <1>1, Facts DEF OpenSound, Fates
<1> QED
  BY <1>1, <1>2, MovedStep DEF Bounce

LEMMA DownlinkStep == ASSUME Learnt, NEW p \in Packets, Downlink(p) PROVE Learnt'
<1>1. place[p] = "down" /\ "down" \notin Fates /\ "landing" \notin Fates /\ "landing" \in Places
  BY DEF Downlink, Fates, Places
<1>2. OpenSound(e[p], "landing")
  BY <1>1, Facts DEF OpenSound, Fates
<1> QED
  BY <1>1, <1>2, MovedStep DEF Downlink

\* The service realises the reward of the queue.
LEMMA StartServiceStep == ASSUME Learnt, NEW p \in Packets, StartService(p) PROVE Learnt'
<1>1. place[p] = "isl"
  BY DEF StartService
<1>2. PICK v : v = State
  OBVIOUS
<1>3. v.e = e /\ v.place = place /\ v.told = told /\ v \in States /\ Booked(v)
  BY <1>2, Facts
<1>4. PICK reward : reward = IF ~ ByDeadline /\ e[p].action # "none" THEN "forward" ELSE e[p].reward
  OBVIOUS
<1>5. PICK x0 \in Episodes : x0 = e[p]
  BY Facts
<1>6. PICK x : x = [x0 EXCEPT !.reward = reward]
  OBVIOUS
<1>7. x \in Episodes /\ x.action = e[p].action /\ x.closed = e[p].closed /\ x.reward = reward
  BY <1>4, <1>5, <1>6 DEF Episodes
<1>8. PICK x1 : x1 = [v.e EXCEPT ![p] = x]
  OBVIOUS
<1>9. x1 \in [Packets -> Episodes] /\ x1[p] = x /\ \A q \in Packets : q # p => x1[q] = v.e[q]
  BY <1>3, <1>7, <1>8, Typing
<1>10. PICK s : s = [v EXCEPT !.e = x1]
  OBVIOUS
<1>11. /\ s \in States /\ s.e = x1 /\ s.open = v.open /\ s.learner = v.learner /\ s.place = v.place
       /\ s.mech = v.mech /\ s.told = v.told
  BY <1>3, <1>9, <1>10 DEF States
<1>12. Booked(s)
  <2>1. s.open = {q \in Packets : s.e[q].action # "none"}
    BY <1>3, <1>7, <1>9, <1>11 DEF Booked
  <2> QED
    BY <1>3, <1>11, <2>1 DEF Booked
<1>13. Touched(v, s, p)
  BY <1>9, <1>11, <1>12 DEF Touched
<1>14. OpenSound(s.e[p], "sent")
  <2>1. OpenSound(x, "sent")
    BY <1>1, <1>4, <1>7, Facts DEF OpenSound, Fates
  <2> QED
    BY <1>9, <1>11, <2>1
<1>15. ToldSound(s.e[p], "sent", s.told.rows[p])
  <2>1. Over(e[p], "isl") => Over(x, "sent")
    BY <1>7 DEF Over, Fates
  <2> QED
    BY <1>1, <1>3, <1>9, <1>11, <2>1, Facts, SameRows
<1>16. PICK r : r = [s EXCEPT !.place[p] = "sent"]
  OBVIOUS
<1>17. Stepped(v, r, p)
  BY <1>3, <1>13, <1>14, <1>15, <1>16, TouchedAndMoved DEF Places
<1>18. r = [v EXCEPT !.place[p] = "sent", !.e[p].reward = IF ~ ByDeadline /\ e[p].action # "none" THEN "forward" ELSE @]
  BY <1>3, <1>4, <1>5, <1>6, <1>8, <1>10, <1>16 DEF States
<1>19. Become(r) /\ Still
  BY <1>2, <1>18 DEF StartService
<1> QED
  BY <1>2, <1>17, <1>19, StillStep

\* The learner is asked once more, and nothing is opened.
LEMMA DecideClosedStep == ASSUME Learnt, NEW p \in Packets, NEW a \in Actions, DecideClosed(p, a) PROVE Learnt'
<1>1. Still /\ place[p] = "held" /\ ByDeadline /\ e[p].closed
  BY DEF DecideClosed, MayChoose
<1>2. PICK v : v = State
  OBVIOUS
<1>3. v.e = e /\ v.place = place /\ v.told = told /\ v.learner = learner /\ v \in States /\ Booked(v)
  BY <1>2, Facts
<1>4. PICK l0 \in Learners : l0 = v.learner
  BY <1>3, Typing
<1>5. PICK l : l = [l0 EXCEPT !.decisions = l0.decisions + 1]
  OBVIOUS
<1>6. /\ l \in Learners /\ l.decisions = v.learner.decisions + 1 /\ l.transitions = v.learner.transitions
      /\ l.steps = v.learner.steps /\ l.replay = v.learner.replay /\ l.target = v.learner.target
  BY <1>4, <1>5 DEF Learners
<1>7. PICK t0 \in [rows : [Packets -> Seq(Rows)], late : Nat] : t0 = v.told
  BY <1>3, Typing
<1>8. PICK t : t = [t0 EXCEPT !.late = t0.late + 1]
  OBVIOUS
<1>9. /\ t \in [rows : [Packets -> Seq(Rows)], late : Nat] /\ t.rows = v.told.rows
      /\ t.late = v.told.late + 1
  BY <1>7, <1>8
<1>10. PICK s : s = [v EXCEPT !.learner = l, !.told = t]
  OBVIOUS
<1>11. /\ s \in States /\ s.e = v.e /\ s.open = v.open /\ s.learner = l /\ s.place = v.place
       /\ s.mech = v.mech /\ s.told = t
  BY <1>3, <1>6, <1>9, <1>10 DEF States
<1>12. s = [v EXCEPT !.learner.decisions = @ + 1, !.told.late = @ + 1]
  BY <1>3, <1>4, <1>5, <1>7, <1>8, <1>10 DEF States
<1>13. Booked(s)
  <2>1. s.open = {q \in Packets : s.e[q].action # "none"} /\ Exact(s.learner)
    BY <1>3, <1>6, <1>11 DEF Booked, Exact
  <2>2. /\ v.learner.decisions \in Nat /\ v.learner.transitions \in Nat /\ v.mech.stop \in Nat
        /\ v.mech.rematch \in Nat /\ v.told.late \in Nat /\ loaded.decisions \in Nat
        /\ loaded.transitions \in Nat /\ Cardinality(v.open) \in Nat
    BY <1>3, Facts, Typing, OpenIsFinite DEF Learners
  <2>3. v.learner.decisions - loaded.decisions =
          (v.learner.transitions - loaded.transitions) + v.mech.stop + v.mech.rematch
            + Cardinality(v.open) + v.told.late
    BY <1>3 DEF Booked
  <2>4. s.learner.decisions - loaded.decisions =
          (s.learner.transitions - loaded.transitions) + s.mech.stop + s.mech.rematch
            + Cardinality(s.open) + s.told.late
    <3>1. /\ s.learner.decisions = v.learner.decisions + 1 /\ s.learner.transitions = v.learner.transitions
          /\ s.mech = v.mech /\ s.open = v.open /\ s.told.late = v.told.late + 1
      BY <1>6, <1>9, <1>11
    <3>2. PICK n \in Nat, d \in Nat, m \in Nat, d0 \in Nat, m0 \in Nat, i \in Nat, j \in Nat, k \in Nat :
            /\ n = Cardinality(v.open) /\ d = v.learner.decisions /\ m = v.learner.transitions
            /\ d0 = loaded.decisions /\ m0 = loaded.transitions
            /\ i = v.mech.stop /\ j = v.mech.rematch /\ k = v.told.late
      BY <2>2
    <3>3. d - d0 = (m - m0) + i + j + n + k
      BY <2>3, <3>2
    <3>4. (d + 1) - d0 = (m - m0) + i + j + n + (k + 1)
      BY <3>3
    <3> QED
      BY <3>1, <3>2, <3>4
  <2> QED
    BY <2>1, <2>4 DEF Booked
<1>14. Touched(v, s, p)
  BY <1>9, <1>11, <1>13 DEF Touched
<1>15. PICK u \in Places : u = (IF a = "deliver" THEN "down" ELSE "isl") /\ u \notin Fates
  BY DEF Places, Fates
<1>16. OpenSound(s.e[p], u)
  BY <1>1, <1>3, <1>11, Facts DEF OpenSound
<1>17. ToldSound(s.e[p], u, s.told.rows[p])
  <2>1. (Over(e[p], "held") => Over(e[p], u)) /\ "held" # "delivered"
    BY <1>1 DEF Over
  <2> QED
    BY <1>1, <1>3, <1>9, <1>11, <2>1, Facts, SameRows
<1>18. PICK r : r = [s EXCEPT !.place[p] = u]
  OBVIOUS
<1>19. Stepped(v, r, p)
  BY <1>3, <1>14, <1>16, <1>17, <1>18, TouchedAndMoved
<1>20. r = Placed(s, p, a)
  BY <1>15, <1>18 DEF Placed
<1>21. Become(r)
  BY <1>2, <1>12, <1>20 DEF DecideClosed
<1> QED
  BY <1>1, <1>2, <1>19, <1>21, StillStep

LEMMA DecideDeadlineStep == ASSUME Learnt, NEW p \in Packets, NEW a \in Actions, DecideDeadline(p, a) PROVE Learnt'
<1>1. Still /\ place[p] = "held" /\ ByDeadline /\ ~ e[p].closed
  BY DEF DecideDeadline, MayChoose
<1>2. PICK v : v = State
  OBVIOUS
<1>3. v.e = e /\ v.place = place /\ v.told = told /\ v \in States /\ Booked(v) /\ Sound(v, p)
  BY <1>2, Facts
<1>4. PICK s : s = IF e[p].action = "none" THEN v ELSE FinishedDeadline(v, p, "intermediate")
  OBVIOUS
<1>5. /\ Touched(v, s, p) /\ ToldSound(s.e[p], "held", s.told.rows[p])
      /\ s.e[p].action = "none" /\ s.e[p].reward = "none" /\ s.place = v.place /\ ~ s.e[p].closed
  <2>1. CASE e[p].action = "none"
    <3>1. s = v /\ e[p].reward = "none"
      BY <1>4, <2>1, Facts DEF OpenSound
    <3> QED
      BY <1>1, <1>3, <2>1, <3>1 DEF Touched, Sound
  <2>2. CASE e[p].action # "none"
    <3>1. s = FinishedDeadline(v, p, "intermediate") /\ "held" \in Places
      BY <1>4, <2>2 DEF Places
    <3>2. /\ Touched(v, s, p) /\ ToldSound(s.e[p], "held", s.told.rows[p])
          /\ s.e[p].action = "none" /\ s.e[p].reward = "none" /\ s.place = v.place
          /\ ~ v.e[p].closed => s.e[p].closed = ("intermediate" # "intermediate")
      BY <1>1, <1>3, <3>1, Facts, DeadlineIsSound
    <3> QED
      BY <1>1, <1>3, <3>2
  <2> QED
    BY <2>1, <2>2
<1>6. PICK r : r = Placed(Chosen(s, p, a), p, a)
  OBVIOUS
<1>7. Stepped(s, r, p)
  <2>1. s \in States /\ Booked(s) /\ s.place[p] = "held"
    BY <1>1, <1>3, <1>5 DEF Touched
  <2> QED
    BY <1>5, <1>6, <2>1, Facts, ChosenIsSound
<1>8. Stepped(v, r, p)
  BY <1>5, <1>7, Composed
<1>9. Become(r)
  BY <1>2, <1>4, <1>6 DEF DecideDeadline
<1> QED
  BY <1>1, <1>2, <1>8, <1>9, StillStep

LEMMA DecideQueueStep == ASSUME Learnt, NEW p \in Packets, NEW a \in Actions, DecideQueue(p, a) PROVE Learnt'
<1>1. Still /\ place[p] = "held" /\ ~ ByDeadline /\ ~ Unrealised(p)
  BY DEF DecideQueue, MayChoose
<1>2. PICK v : v = State
  OBVIOUS
<1>3. v.e = e /\ v.place = place /\ v.told = told /\ v \in States /\ Booked(v) /\ Sound(v, p)
  BY <1>2, Facts
<1>4. PICK reward : reward = IF e[p].reward = "none" THEN "zero" ELSE e[p].reward
  OBVIOUS
<1>5. reward \in Values /\ reward \in {"zero", "forward"} /\ (reward = "forward" => e[p].action = "forward")
  BY <1>4, Facts DEF Values, Episodes, OpenSound
<1>6. PICK s : s = FinishedQueue(v, p, reward, FALSE)
  OBVIOUS
<1>7. PICK done \in BOOLEAN : done = FALSE
  OBVIOUS
<1>8. \A row \in Rows : row.action = v.e[p].action /\ row.reward = reward /\ row.done = done => Earned(row, "held")
  BY <1>3, <1>5 DEF Earned
<1>9. /\ Touched(v, s, p) /\ OpenSound(s.e[p], "held") /\ ToldSound(s.e[p], "held", s.told.rows[p])
      /\ s.e[p].action = "none" /\ s.e[p].reward = "none" /\ s.place = v.place
  <2>1. s = FinishedQueue(v, p, reward, done) /\ "held" \in Places /\ v.place[p] = "held"
    BY <1>1, <1>3, <1>6, <1>7 DEF Places
  <2> QED
    BY <1>1, <1>3, <1>5, <1>7, <1>8, <2>1, Facts, QueueIsSound
<1>10. PICK r : r = Placed(Chosen(s, p, a), p, a)
  OBVIOUS
<1>11. Stepped(s, r, p)
  <2>1. s \in States /\ Booked(s) /\ s.place[p] = "held"
    BY <1>1, <1>3, <1>9 DEF Touched
  <2>2. ~ s.e[p].closed
    BY <1>1, <1>9 DEF OpenSound
  <2> QED
    BY <1>9, <1>10, <2>1, <2>2, Facts, ChosenIsSound
<1>12. Stepped(v, r, p)
  BY <1>9, <1>11, Composed
<1>13. Become(r)
  BY <1>2, <1>4, <1>6, <1>10 DEF DecideQueue, UnrealisedDeliver
<1> QED
  BY <1>1, <1>2, <1>12, <1>13, StillStep

LEMMA RematchStep == ASSUME Learnt, NEW p \in Packets, Rematch(p) PROVE Learnt'
<1>1. Still /\ place[p] = "isl"
  BY DEF Rematch
<1>2. PICK v : v = State
  OBVIOUS
<1>3. v.e = e /\ v.place = place /\ v.told = told /\ v \in States /\ Booked(v) /\ Sound(v, p)
  BY <1>2, Facts
<1>4. PICK d : d = Discarded(v, p)
  OBVIOUS
<1>5. /\ Touched(v, d, p) /\ Sound(d, p) /\ d.place = v.place
      /\ d.e[p].action = "none" /\ d.e[p].reward = "none"
  BY <1>1, <1>3, <1>4, Facts, DiscardedIsSound
<1>6. d \in States /\ Booked(d) /\ d.place[p] = "isl" /\ "isl" \notin Fates /\ "held" \in Places
  BY <1>1, <1>3, <1>5 DEF Touched, Fates, Places
<1>7. Stepped(d, Failed(d, p), p)
  BY <1>5, <1>6, Facts, FailedIsSound
<1>8. Stepped(d, [d EXCEPT !.place[p] = "held"], p)
  <2>1. OpenSound(d.e[p], "held")
    BY <1>5 DEF OpenSound, Sound
  <2>2. ToldSound(d.e[p], "held", d.told.rows[p])
    <3>1. Over(d.e[p], "isl") => Over(d.e[p], "held")
      BY DEF Over, Fates
    <3> QED
      BY <1>5, <1>6, <3>1, SameRows DEF Sound
  <2> QED
    BY <1>6, <2>1, <2>2, Moving
<1>9. PICK r : Become(r) /\ (r = [d EXCEPT !.place[p] = "held"] \/ r = Failed(d, p))
  BY <1>2, <1>4 DEF Rematch
<1>10. Stepped(v, r, p)
  BY <1>5, <1>7, <1>8, <1>9, Composed
<1> QED
  BY <1>1, <1>2, <1>9, <1>10, StillStep

LEMMA DeliverStep == ASSUME Learnt, NEW p \in Packets, Deliver(p) PROVE Learnt'
<1>1. Still /\ place[p] = "landing" /\ "landing" \notin Fates /\ "delivered" \in Fates /\ "delivered" \in Places
  BY DEF Deliver, Fates, Places
<1>2. PICK v : v = State
  OBVIOUS
<1>3. v.e = e /\ v.place = place /\ v.told = told /\ v \in States /\ Booked(v) /\ Sound(v, p)
  BY <1>2, Facts
<1>4. PICK outcome \in {"intermediate", "delivered", "failed", "deadline_expired"} :
        outcome = IF Timely THEN "delivered" ELSE "deadline_expired"
  OBVIOUS
<1>5. PICK s : s = IF ByDeadline THEN FinishedDeadline(v, p, outcome) ELSE FinishedQueue(v, p, "arrive", TRUE)
  OBVIOUS
<1>6. Touched(v, s, p) /\ OpenSound(s.e[p], "delivered") /\ ToldSound(s.e[p], "delivered", s.told.rows[p])
  <2>1. CASE ByDeadline
    BY <1>1, <1>3, <1>5, <2>1, Facts, DeadlineIsSound
  <2>2. CASE ~ ByDeadline
    <3>1. PICK done \in BOOLEAN : done = TRUE
      OBVIOUS
    <3>2. s = FinishedQueue(v, p, "arrive", done) /\ "arrive" \in Values
      BY <1>5, <2>2, <3>1 DEF Values
    <3>3. \A row \in Rows : row.action = v.e[p].action /\ row.reward = "arrive" /\ row.done = done => Earned(row, "delivered")
      <4>1. \A row \in Rows : row.action = v.e[p].action => row.action = "deliver"
        BY <1>1, <1>3, Facts DEF OpenSound, Rows, Actions
      <4> QED
        BY <3>1, <4>1 DEF Earned
    <3> QED
      BY <1>1, <1>3, <2>2, <3>2, <3>3, Facts, QueueIsSound
  <2> QED
    BY <2>1, <2>2
<1>7. PICK r : r = [s EXCEPT !.place[p] = "delivered"]
  OBVIOUS
<1>8. Stepped(v, r, p)
  BY <1>1, <1>3, <1>6, <1>7, TouchedAndMoved
<1>9. Become(r)
  BY <1>2, <1>4, <1>5, <1>7 DEF Deliver
<1> QED
  BY <1>1, <1>2, <1>8, <1>9, StillStep

LEMMA FailStep == ASSUME Learnt, NEW p \in Packets, Fail(p) PROVE Learnt'
<1>1. Still /\ place[p] \notin Fates /\ Become(Failed(State, p))
  BY DEF Fail, Fates
<1>2. Stepped(State, Failed(State, p), p)
  <2>1. PICK v : v = State
    OBVIOUS
  <2> QED
    BY <1>1, <2>1, Facts, FailedIsSound
<1> QED
  BY <1>1, <1>2, StillStep

LEMMA ExpireStep == ASSUME Learnt, NEW p \in Packets, Expire(p) PROVE Learnt'
<1>1. place[p] \notin Fates /\ Become(Failed(State, p))
  BY DEF Expire, Fates
<1>2. Stepped(State, Failed(State, p), p)
  <2>1. PICK v : v = State
    OBVIOUS
  <2> QED
    BY <1>1, <2>1, Facts, FailedIsSound
<1>3. UNCHANGED <<now, runs, phase, setup, loaded, bundle>> /\ watches' = watches
  BY DEF Expire, Same
<1> QED
  BY <1>1, <1>2, <1>3, Facts, PacketStep

LEMMA WatchStep == ASSUME Learnt, NEW p \in Packets, Watch(p) PROVE Learnt'
<1>1. ByDeadline /\ UNCHANGED <<now, runs, phase, setup, loaded, bundle>>
  BY Facts DEF Watch, Same
<1>2. watches' \in SUBSET Packets
  BY Facts DEF Watch
<1>3. PICK v : v = State
  OBVIOUS
<1>4. v.e = e /\ v.place = place /\ v.told = told /\ v \in States /\ Booked(v) /\ Sound(v, p)
  BY <1>3, Facts
<1>5. PICK r : r = IF e[p].closed THEN v ELSE FinishedDeadline(v, p, "deadline_expired")
  OBVIOUS
<1>6. Stepped(v, r, p)
  <2>1. CASE e[p].closed
    BY <1>4, <1>5, <2>1 DEF Stepped
  <2>2. CASE ~ e[p].closed
    <3>1. PICK u \in Places : u = v.place[p]
      BY <1>4, Typing
    <3>2. r = FinishedDeadline(v, p, "deadline_expired")
      BY <1>5, <2>2
    <3>3. /\ Touched(v, r, p) /\ OpenSound(r.e[p], u) /\ ToldSound(r.e[p], u, r.told.rows[p])
          /\ r.place = v.place
      BY <1>1, <1>4, <3>1, <3>2, Facts, DeadlineIsSound
    <3> QED
      BY <3>1, <3>3 DEF Touched, Stepped, Sound
  <2> QED
    BY <2>1, <2>2
<1>7. Become(r)
  BY <1>3, <1>5 DEF Watch
<1> QED
  BY <1>1, <1>2, <1>3, <1>6, <1>7, PacketStep

-----------------------------------------------------------------------------
(* Steps that touch no single packet.                                      *)

\* The learner, its books and the packets are left alone.
LEMMA QuietStep ==
  ASSUME Learnt, UNCHANGED <<runs, setup, loaded, bundle, place, watches, e, open, learner, mech, told>>,
         now' \in 0..Horizon, phase' \in {"running", "stopping", "stopped", "dead"}
  PROVE  Learnt'
<1>1. PICK v : v = State
  OBVIOUS
<1>2. State' = v /\ v \in States /\ Booked(v) /\ \A q \in Packets : Sound(v, q)
  BY <1>1 DEF State, Learnt
<1>3. ByDeadline' = ByDeadline /\ \A l : Exact(l)' = Exact(l)
  BY DEF ByDeadline, Exact, AtMost
<1>4. Booked(v)' = Booked(v)
  BY <1>3 DEF Booked
<1>5. \A q \in Packets : Sound(v, q)' = Sound(v, q)
  BY <1>3 DEF Sound, OpenSound, ToldSound, Earned, Over
<1> QED
  BY <1>2, <1>3, <1>4, <1>5 DEF Learnt

LEMMA TickStep == ASSUME Learnt, Tick PROVE Learnt'
<1>1. now' \in 0..Horizon
  BY LearningAssumption DEF Tick, Learnt
<1> QED
  BY <1>1, QuietStep DEF Tick, Same, Learnt

LEMMA StopBeginStep == ASSUME Learnt, StopBegin PROVE Learnt'
BY QuietStep DEF StopBegin, Same, Learnt

LEMMA DieStep == ASSUME Learnt, Die PROVE Learnt'
BY QuietStep DEF Die, Same, Learnt

\* The end of the run discards every open transition, counts it, and saves.
LEMMA StopEndStep == ASSUME Learnt, StopEnd PROVE Learnt'
<1>0. UNCHANGED <<now, runs, setup, watches, loaded>> /\ phase' = "stopped" /\ bundle' = learner'
  BY DEF StopEnd, SaveResume
<1>1. PICK v : v = State
  OBVIOUS
<1>2. /\ v.e = e /\ v.place = place /\ v.told = told /\ v.open = open /\ v.learner = learner /\ v.mech = mech
      /\ v \in States /\ Booked(v) /\ \A q \in Packets : Sound(v, q)
  BY <1>1 DEF Learnt, State
<1>3. PICK n \in Nat : n = Cardinality(v.open)
  BY <1>2, Typing, OpenIsFinite
<1>4. PICK m0 \in [stop : Nat, rematch : Nat] : m0 = v.mech
  BY <1>2, Typing
<1>5. PICK m : m = [m0 EXCEPT !.stop = m0.stop + n]
  OBVIOUS
<1>6. m \in [stop : Nat, rematch : Nat] /\ m.stop = m0.stop + n /\ m.rematch = m0.rematch
  BY <1>4, <1>5
<1>7. PICK x1 : x1 = [q \in Packets |-> IF q \in v.open
                        THEN [v.e[q] EXCEPT !.action = "none", !.reward = "none"] ELSE v.e[q]]
  OBVIOUS
<1>8. \A q \in Packets :
        /\ x1[q] \in Episodes /\ x1[q].action = "none" /\ x1[q].closed = v.e[q].closed
        /\ x1[q].reward = IF q \in v.open THEN "none" ELSE v.e[q].reward
        /\ q \notin v.open => x1[q] = v.e[q]
  <2>1. SUFFICES ASSUME NEW q \in Packets
                 PROVE  /\ x1[q] \in Episodes /\ x1[q].action = "none" /\ x1[q].closed = v.e[q].closed
                        /\ x1[q].reward = IF q \in v.open THEN "none" ELSE v.e[q].reward
                        /\ q \notin v.open => x1[q] = v.e[q]
    OBVIOUS
  <2>2. PICK y \in Episodes : y = v.e[q]
    BY <1>2, Typing
  <2>3. x1[q] = IF q \in v.open THEN [y EXCEPT !.action = "none", !.reward = "none"] ELSE y
    BY <1>7, <2>2
  <2>4. q \notin v.open => y.action = "none"
    BY <1>2, <2>2 DEF Booked
  <2> QED
    BY <2>2, <2>3, <2>4 DEF Episodes
<1>9. x1 \in [Packets -> Episodes]
  BY <1>7, <1>8
<1>10. PICK r : r = [v EXCEPT !.mech = m, !.open = {}, !.e = x1]
  OBVIOUS
<1>11. /\ r \in States /\ r.e = x1 /\ r.open = {} /\ r.learner = v.learner /\ r.place = v.place
       /\ r.mech = m /\ r.told = v.told
  BY <1>2, <1>6, <1>9, <1>10 DEF States
<1>12. r = ClosedAtStop(v)
  BY <1>2, <1>3, <1>4, <1>5, <1>7, <1>10 DEF ClosedAtStop, States
<1>13. State' = r
  BY <1>1, <1>11, <1>12 DEF StopEnd, Become, State, States
<1>14. ByDeadline' = ByDeadline /\ \A l : Exact(l)' = Exact(l)
  BY <1>0 DEF ByDeadline, Exact, AtMost
<1>15. Exact(r.learner) /\ r.open = {q \in Packets : r.e[q].action # "none"}
  BY <1>2, <1>8, <1>11 DEF Booked
<1>16. r.learner.decisions - loaded.decisions =
         (r.learner.transitions - loaded.transitions) + r.mech.stop + r.mech.rematch
           + Cardinality(r.open) + r.told.late
  <2>1. PICK d \in Nat, t \in Nat, d0 \in Nat, t0 \in Nat, i \in Nat, j \in Nat, k \in Nat :
          /\ d = v.learner.decisions /\ t = v.learner.transitions
          /\ d0 = loaded.decisions /\ t0 = loaded.transitions
          /\ i = v.mech.stop /\ j = v.mech.rematch /\ k = v.told.late
    BY <1>2, Typing DEF Learners, Learnt
  <2>2. d - d0 = (t - t0) + i + j + n + k
    BY <1>2, <1>3, <2>1 DEF Booked
  <2>3. r.mech.stop = i + n /\ r.mech.rematch = j /\ Cardinality(r.open) = 0
    BY <1>4, <1>6, <1>11, <2>1, FS_EmptySet
  <2>4. d - d0 = (t - t0) + (i + n) + j + 0 + k
    BY <2>2
  <2> QED
    BY <1>11, <2>1, <2>3, <2>4
<1>17. Booked(r)'
  BY <1>0, <1>14, <1>15, <1>16 DEF Booked
<1>18. \A q \in Packets : Sound(r, q)
  <2>1. SUFFICES ASSUME NEW q \in Packets PROVE Sound(r, q)
    OBVIOUS
  <2>2. OpenSound(v.e[q], v.place[q]) /\ ToldSound(v.e[q], v.place[q], v.told.rows[q])
    BY <1>2 DEF Sound
  <2>3. OpenSound(x1[q], v.place[q])
    <3>1. q \notin v.open => v.e[q].reward = "none"
      BY <1>2, <2>2 DEF Booked, OpenSound
    <3> QED
      BY <1>8, <2>2, <3>1 DEF OpenSound
  <2>4. Over(v.e[q], v.place[q]) => Over(x1[q], v.place[q])
    BY <1>8 DEF Over
  <2>5. ToldSound(x1[q], v.place[q], v.told.rows[q])
    BY <2>2, <2>4, SameRows
  <2> QED
    BY <1>11, <2>3, <2>5 DEF Sound
<1>19. \A q \in Packets : Sound(r, q)'
  BY <1>14, <1>18 DEF Sound, OpenSound, ToldSound, Earned, Over
<1>20. bundle' \in Learners /\ Exact(bundle)'
  <2>1. bundle' = v.learner
    BY <1>0, <1>11, <1>13 DEF State
  <2>2. v.learner \in Learners /\ Exact(v.learner)
    BY <1>2, Typing DEF Booked
  <2>3. Exact(bundle)' = Exact(v.learner)'
    BY <2>1 DEF Exact
  <2> QED
    BY <1>14, <2>1, <2>2, <2>3
<1> QED
  BY <1>0, <1>11, <1>13, <1>14, <1>17, <1>19, <1>20 DEF Learnt

\* A learner begins a run: one that has learnt nothing, or one that is exact.
LEMMA Fresh ==
  ASSUME NEW l \in Learners, Exact(l), NEW v,
         v = [e |-> [p \in Packets |-> NewEpisode], open |-> {}, learner |-> l,
              place |-> [p \in Packets |-> "ground"], mech |-> [stop |-> 0, rematch |-> 0],
              told |-> [rows |-> [p \in Packets |-> <<>>], late |-> 0]]
  PROVE  /\ v \in States /\ \A p \in Packets : Sound(v, p)
         /\ v.open = {p \in Packets : v.e[p].action # "none"} /\ v.learner = l
         /\ v.learner.decisions - l.decisions =
              (v.learner.transitions - l.transitions) + v.mech.stop + v.mech.rematch
                + Cardinality(v.open) + v.told.late
<1>1. NewEpisode \in Episodes /\ NewEpisode.action = "none" /\ NewEpisode.reward = "none" /\ ~ NewEpisode.closed
  BY DEF NewEpisode, Episodes
<1>2. /\ [p \in Packets |-> NewEpisode] \in [Packets -> Episodes]
      /\ [p \in Packets |-> "ground"] \in [Packets -> Places]
      /\ [stop |-> 0, rematch |-> 0] \in [stop : Nat, rematch : Nat]
      /\ [rows |-> [p \in Packets |-> <<>>], late |-> 0] \in [rows : [Packets -> Seq(Rows)], late : Nat]
  BY <1>1 DEF Places
<1>3. v \in States
  BY <1>2 DEF States
<1>4. /\ v.open = {} /\ v.learner = l /\ v.mech.stop = 0 /\ v.mech.rematch = 0 /\ v.told.late = 0
      /\ \A p \in Packets : v.e[p] = NewEpisode /\ v.place[p] = "ground" /\ v.told.rows[p] = <<>>
  OBVIOUS
<1>5. v.learner.decisions - l.decisions =
        (v.learner.transitions - l.transitions) + v.mech.stop + v.mech.rematch
          + Cardinality(v.open) + v.told.late
  <2>1. Cardinality(v.open) = 0
    BY <1>4, FS_EmptySet
  <2>2. PICK d \in Nat, m \in Nat : d = l.decisions /\ m = l.transitions
    BY DEF Learners
  <2>3. d - d = (m - m) + 0 + 0 + 0 + 0
    OBVIOUS
  <2> QED
    BY <1>4, <2>1, <2>2, <2>3
<1>7. v.open = {p \in Packets : v.e[p].action # "none"}
  BY <1>1, <1>4
<1>6. ASSUME NEW p \in Packets PROVE Sound(v, p)
  <2>1. OpenSound(v.e[p], v.place[p])
    BY <1>1, <1>4 DEF OpenSound
  <2>2. ToldSound(v.e[p], v.place[p], v.told.rows[p])
    BY <1>4 DEF ToldSound
  <2> QED
    BY <2>1, <2>2 DEF Sound
<1> QED
  BY <1>3, <1>4, <1>5, <1>6, <1>7

LEMMA NewIsExact == NewLearner \in Learners /\ Exact(NewLearner)
<1>1. NewLearner \in Learners
  BY DEF NewLearner, Learners
<1>2. 0 % TargetInterval = 0
  BY LearningAssumption
<1>3. /\ NewLearner.transitions = 0 /\ NewLearner.steps = 0 /\ NewLearner.replay = 0 /\ NewLearner.target = 0
      /\ BatchSize \in Nat \ {0} /\ ReplaySize \in Nat
  BY LearningAssumption DEF NewLearner
<1> QED
  BY <1>1, <1>2, <1>3 DEF Exact, AtMost

LEMMA NextRunStep == ASSUME Learnt, NEW l \in {NewLearner, Restored}, NextRun(l) PROVE Learnt'
<1>1. l \in Learners /\ Exact(l)
  BY NewIsExact DEF Restored, Learnt
<1>2. UNCHANGED <<setup, bundle>> /\ loaded' = l
  BY DEF NextRun
<1>3. ByDeadline' = ByDeadline /\ \A x : Exact(x)' = Exact(x)
  BY <1>2 DEF ByDeadline, Exact, AtMost
<1>4. State' \in States /\ Booked(State)' /\ \A p \in Packets : Sound(State, p)'
  <2>1. PICK v : v = [e |-> [p \in Packets |-> NewEpisode], open |-> {}, learner |-> l,
                      place |-> [p \in Packets |-> "ground"], mech |-> [stop |-> 0, rematch |-> 0],
                      told |-> [rows |-> [p \in Packets |-> <<>>], late |-> 0]]
    OBVIOUS
  <2>2. State' = v
    BY <2>1 DEF NextRun, State
  <2>3. /\ v \in States /\ \A p \in Packets : Sound(v, p)
        /\ v.open = {p \in Packets : v.e[p].action # "none"} /\ v.learner = l
        /\ v.learner.decisions - l.decisions =
             (v.learner.transitions - l.transitions) + v.mech.stop + v.mech.rematch
               + Cardinality(v.open) + v.told.late
    BY <1>1, <2>1, Fresh
  <2>4. Booked(v)'
    BY <1>1, <1>2, <1>3, <2>3 DEF Booked
  <2>5. \A p \in Packets : Sound(v, p)' = Sound(v, p)
    BY <1>3 DEF Sound, OpenSound, ToldSound, Earned, Over
  <2> QED
    BY <2>2, <2>3, <2>4, <2>5
<1>5. /\ now' \in 0..Horizon /\ runs' \in 1..MaxRuns /\ phase' = "running"
      /\ watches' = {}
  BY LearningAssumption DEF NextRun, Learnt
<1> QED
  BY <1>1, <1>2, <1>3, <1>4, <1>5 DEF Learnt

LEMMA LearntInit == ASSUME Init PROVE Learnt
<1>1. State \in States /\ Booked(State) /\ \A p \in Packets : Sound(State, p)
  <2>1. PICK v, l : v = State /\ l = NewLearner
    OBVIOUS
  <2>2. /\ v = [e |-> [p \in Packets |-> NewEpisode], open |-> {}, learner |-> l,
                place |-> [p \in Packets |-> "ground"], mech |-> [stop |-> 0, rematch |-> 0],
                told |-> [rows |-> [p \in Packets |-> <<>>], late |-> 0]]
        /\ loaded = l /\ l \in Learners /\ Exact(l)
    BY <2>1, NewIsExact DEF Init, State
  <2>3. /\ v \in States /\ \A p \in Packets : Sound(v, p)
        /\ v.open = {p \in Packets : v.e[p].action # "none"} /\ v.learner = l
        /\ v.learner.decisions - l.decisions =
             (v.learner.transitions - l.transitions) + v.mech.stop + v.mech.rematch
               + Cardinality(v.open) + v.told.late
    BY <2>2, Fresh
  <2>4. Booked(v)
    BY <2>2, <2>3 DEF Booked
  <2> QED
    BY <2>1, <2>3, <2>4
<1>2. setup \in Settings
  BY LearningAssumption DEF Init, Settings
<1>3. now \in 0..Horizon /\ runs \in 1..MaxRuns
  BY LearningAssumption DEF Init
<1> QED
  BY <1>1, <1>2, <1>3, NewIsExact DEF Init, Learnt

LEMMA LearntStep == ASSUME Learnt, [Next]_vars PROVE Learnt'
<1>1. CASE \E p \in Packets :
             \/ Emit(p) \/ StartService(p) \/ Arrive(p) \/ Bounce(p) \/ Downlink(p)
             \/ Deliver(p) \/ Fail(p) \/ Watch(p) \/ Rematch(p) \/ Expire(p)
  BY <1>1, EmitStep, StartServiceStep, ArriveStep, BounceStep, DownlinkStep, DeliverStep, FailStep, WatchStep,
     RematchStep, ExpireStep
<1>2. CASE \E p \in Packets, a \in {"forward", "deliver"} :
             DecideClosed(p, a) \/ DecideDeadline(p, a) \/ DecideQueue(p, a)
  BY <1>2, DecideClosedStep, DecideDeadlineStep, DecideQueueStep DEF Actions
<1>3. CASE StopBegin \/ StopEnd \/ Tick \/ Die
  BY <1>3, StopBeginStep, StopEndStep, TickStep, DieStep
<1>4. CASE \E l \in {NewLearner, Restored} : NextRun(l)
  BY <1>4, NextRunStep
<1>5. CASE UNCHANGED vars
  BY <1>5, QuietStep DEF vars, Learnt
<1> QED
  BY <1>1, <1>2, <1>3, <1>4, <1>5 DEF Next

\* In every reachable state the books of the learning episodes are right.
THEOREM LearntAlways == Spec => []Learnt
<1>1. Init => Learnt
  BY LearntInit
<1>2. Learnt /\ [Next]_vars => Learnt'
  BY LearntStep
<1> QED
  BY <1>1, <1>2, PTL DEF Spec

-----------------------------------------------------------------------------
(* What the invariant promises.                                            *)

\* Whatever the order of watch, delivery, failure and decision, an episode has
\* one terminal transition at most, and it is the last that is learnt from it.
THEOREM EpisodeEndsOnceAlways == Spec => []EpisodeEndsOnce
<1>1. Learnt => EpisodeEndsOnce
  BY Facts DEF EpisodeEndsOnce, ToldSound
<1> QED
  BY <1>1, LearntAlways, PTL

\* Every reward the learner was given was obtained, and no packet that is to be
\* routed carries a forward whose reward never came.
THEOREM RewardsAreTrueAlways == Spec => []RewardsAreTrue
<1>1. ASSUME Learnt PROVE RewardsAreTrue
  <2>1. ASSUME NEW p \in Packets, NEW i \in DOMAIN told.rows[p]
        PROVE  LET r == told.rows[p][i] IN
                 /\ r.reward = "arrive" => r.action = "deliver" /\ r.done /\ place[p] = "delivered"
                 /\ r.reward = "forward" => r.action = "forward"
                 /\ r.reward \in {"arrive", "timely"} => place[p] = "delivered"
    <3>1. Earned(told.rows[p][i], place[p])
      BY <1>1, Facts DEF ToldSound
    <3> QED
      BY <3>1 DEF Earned
  <2>2. ASSUME NEW p \in Packets, place[p] = "held" PROVE ~ Unrealised(p)
    BY <1>1, <2>2, Facts DEF OpenSound, Unrealised
  <2> QED
    BY <2>1, <2>2 DEF RewardsAreTrue, RewardsAreEarned, RewardsAreRealised
<1> QED
  BY <1>1, LearntAlways, PTL

\* Every decision of a run is remembered, discarded and counted, still open, or
\* was made for an episode that is over.
THEOREM LearningIsAccountedAlways == Spec => []LearningIsAccounted
<1>1. ASSUME Learnt PROVE LearningIsAccounted
  <2>1. /\ State \in States /\ Booked(State) /\ State.e = e /\ State.open = open /\ State.place = place
        /\ State.learner = learner /\ State.mech = mech /\ State.told = told
    BY <1>1 DEF Learnt, State
  <2>2. DecisionsAreAccounted
    BY <2>1 DEF Booked, DecisionsAreAccounted
  <2>3. e \in [Packets -> Episodes] /\ place \in [Packets -> Places]
    BY <2>1, Typing
  <2>4. open = {p \in Packets : e[p].action # "none"} /\ learner.replay =< ReplaySize
    BY <2>1 DEF Booked, Exact
  <2>5. \A p \in open : place[p] \notin {"ground", "delivered", "failed"} /\ ~ e[p].closed
    BY <1>1, <2>4, Facts DEF OpenSound, Fates
  <2>6. [Packets -> Episodes] = [Packets -> [action : {"none", "forward", "deliver"},
                                             reward : {"none", "forward"}, closed : BOOLEAN]]
    <3>1. {"none"} \cup Actions = {"none", "forward", "deliver"}
      BY DEF Actions
    <3> QED
      BY <3>1 DEF Episodes
  <2>7. now \in 0..Horizon /\ runs \in 1..MaxRuns /\ watches \subseteq Packets
        /\ phase \in {"running", "stopping", "stopped", "dead"}
    BY <1>1 DEF Learnt
  <2> QED
    BY <2>2, <2>3, <2>4, <2>5, <2>6, <2>7 DEF LearningIsAccounted, TypeOK
<1> QED
  BY <1>1, LearntAlways, PTL

\* Over any chain of runs, resumes and crashes the learner has trained, and
\* copied its target network, exactly as one run over its transitions would have.
THEOREM TrainingIsExactAlways == Spec => []TrainingIsExact
<1>1. ASSUME Learnt PROVE TrainingIsExact
  <2>1. Exact(learner)
    BY <1>1 DEF Learnt, Booked, State
  <2> QED
    BY <2>1 DEF Exact, TrainingIsExact
<1> QED
  BY <1>1, LearntAlways, PTL

=============================================================================
