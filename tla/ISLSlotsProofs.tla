--------------------------- MODULE ISLSlotsProofs ---------------------------
(***************************************************************************)
(* For every number of directions, peers, packets and generations, the     *)
(* transceiver of a direction is used by one generation at a time, in the  *)
(* order of the rematches: ISLSlots implements TransceiverOrder.           *)
(*                                                                         *)
(* OneTransceiver is not inductive: a server only looks at the retired     *)
(* links, so the invariant Sound adds that the current generation of a     *)
(* direction is its newest, that one which is not current and not drained  *)
(* is retired, and that all generations older than a transmitting one have *)
(* drained - not merely stopped transmitting.                              *)
(*                                                                         *)
(* The second part is about the packets.  Slots joins to Sound that the    *)
(* queues, the transmissions and the holding queue share no packet and     *)
(* have exactly the live ones, that the count of entities moves with the   *)
(* generations a rematch creates and those that drain, and that the timer  *)
(* of a sleeping server covers every packet it waits with: the books then  *)
(* balance, packets expire in time and no usable transceiver stays idle.   *)
(***************************************************************************)
EXTENDS ISLSlots, QueueProofs

Fields == {"dir", "peer", "retired", "data", "ctrl", "air", "until", "poked", "blockers", "phase"}

Shaped == DOMAIN link = Gens /\ \A g \in Gens : DOMAIN link[g] = Fields
Numbered ==
  /\ isls \in [Dirs -> Gens \cup {None}] /\ retired \subseteq Gens /\ seq \in Nat
  /\ \A g \in Gens : g >= seq => link[g].dir = None
CurrentIsNewest ==
  \A d \in Dirs : isls[d] # None =>
    /\ isls[d] < seq /\ link[isls[d]].dir = d /\ link[isls[d]].peer # None
    /\ \A g \in Gens : link[g].dir = d => g =< isls[d]
OthersRetired ==
  \A g \in Gens, d \in Dirs :
    link[g].dir = d /\ ~ Drained(link[g]) => g = isls[d] \/ g \in retired
OldersDrained ==
  \A g, h \in Gens, d \in Dirs :
    h < g /\ link[g].dir = d /\ link[h].dir = d /\ link[g].air # None => Drained(link[h])

Sound == Shaped /\ Numbered /\ CurrentIsNewest /\ OthersRetired /\ OldersDrained

\* What a step may do: keep Sound, and let nothing but a new generation join
\* those that serve a direction.
Forward ==
  /\ Sound' /\ seq' >= seq
  /\ \A d \in Dirs : \A g \in Serving(d)' : g >= seq \/ g \in Serving(d)

-----------------------------------------------------------------------------
\* Steps that change one generation and reclaim drained ones: it transmits
\* only if all older ones have drained, and only the current one fills up.
LEMMA OneLinkChanges ==
  ASSUME Sound, NEW g \in Gens, NEW l,
         DOMAIN l = Fields, l.dir = link[g].dir, l.peer = link[g].peer,
         link' = [link EXCEPT ![g] = l], isls' = isls, seq' = seq,
         retired' \subseteq retired, \A h \in retired \ retired' : Drained(link'[h]),
         Drained(l) \/ ~ Drained(link[g]) \/ \E d \in Dirs : g = isls[d],
         l.air # None /\ link[g].dir \in Dirs =>
           \A h \in Gens : h < g /\ link[h].dir = link[g].dir => Drained(link[h])
  PROVE  Forward
<1>1. \A h \in Gens : link'[h] = IF h = g THEN l ELSE link[h]
  BY DEF Sound, Shaped
<1>2. \A h \in Gens : link'[h].dir = link[h].dir /\ link'[h].peer = link[h].peer
  BY <1>1
<1>3. Shaped'
  BY <1>1 DEF Sound, Shaped
<1>4. Numbered'
  BY <1>2 DEF Sound, Numbered
<1>5. CurrentIsNewest'
  BY <1>2 DEF Sound, CurrentIsNewest, Numbered
<1>6. \A d \in Dirs : g = isls[d] => link[g].dir = d
  BY NoneAssumption DEF Sound, CurrentIsNewest, Gens
<1>7. OthersRetired'
  <2> SUFFICES ASSUME NEW h \in Gens, NEW d \in Dirs, link'[h].dir = d, ~ Drained(link'[h])
               PROVE  h = isls[d] \/ h \in retired'
    BY DEF OthersRetired
  <2>1. h = isls[d] \/ h \in retired
    BY <1>1, <1>2, <1>6 DEF Sound, OthersRetired
  <2> QED
    BY <2>1
<1>8. OldersDrained'
  <2> SUFFICES ASSUME NEW k \in Gens, NEW h \in Gens, NEW d \in Dirs,
                      h < k, link'[k].dir = d, link'[h].dir = d, link'[k].air # None
               PROVE  Drained(link'[h])
    BY DEF OldersDrained
  <2>1. CASE k = g
    BY <1>1, <1>2, <2>1 DEF Gens
  <2>2. CASE k # g
    <3>1. Drained(link[h])
      BY <1>1, <1>2, <2>2 DEF Sound, OldersDrained
    <3>2. CASE h # g
      BY <1>1, <3>1, <3>2
    <3>3. CASE h = g
      <4>1. g # isls[d]
        BY <1>2, <3>3, NoneAssumption DEF Sound, CurrentIsNewest, Gens
      <4>2. \A e \in Dirs : g # isls[e]
        BY <4>1, <1>2, <1>6, <3>3
      <4> QED
        BY <4>2, <3>1, <3>3, <1>1
    <3> QED
      BY <3>2, <3>3
  <2> QED
    BY <2>1, <2>2
<1>9. \A d \in Dirs : \A h \in Serving(d)' : h \in Serving(d)
  <2> SUFFICES ASSUME NEW d \in Dirs, NEW h \in Serving(d)' PROVE h \in Serving(d)
    OBVIOUS
  <2>1. h \in Gens /\ link[h].dir = d /\ (h = isls[d] \/ ~ Drained(link'[h]))
    BY <1>2 DEF Serving
  <2>2. h = isls[d] \/ ~ Drained(link[h])
    BY <2>1, <1>1, <1>6
  <2> QED
    BY <2>1, <2>2 DEF Serving
<1> QED
  BY <1>3, <1>4, <1>5, <1>7, <1>8, <1>9 DEF Forward, Sound, Numbered

\* The server keeps the identity of its generation, cannot fill it, and
\* starts a transmission only when no older generation is busy.
LEMMA ServedKeeps ==
  ASSUME NEW g \in Gens, NEW l, DOMAIN l = Fields, NEW K,
         NEW data \in Remains(l.data, K), NEW ctrl \in Remains(l.ctrl, K)
  PROVE  LET m == Served(g, Resumed(l, data, ctrl))
         IN  /\ DOMAIN m = Fields /\ m.dir = l.dir /\ m.peer = l.peer
             /\ Drained(l) => Drained(m)
             /\ m.air # None => OlderBusy(g) = {}
<1> DEFINE r == Resumed(l, data, ctrl)
<1>1. DOMAIN r = Fields /\ r.dir = l.dir /\ r.peer = l.peer /\ r.air = None
      /\ r.data = data /\ r.ctrl = ctrl
  BY DEF Resumed, Fields
<1>2. Drained(l) => r.data = <<>> /\ r.ctrl = <<>>
  BY <1>1, NothingRemains DEF Drained
<1>3. r.data = <<>> /\ r.ctrl = <<>> => Queued(r) = {}
  BY DEF Queued, Range
<1> HIDE DEF r
<1>4. CASE Queued(r) = {}
  <2>1. Served(g, r) = [r EXCEPT !.phase = IF r.retired THEN "ended" ELSE "wake"]
    BY <1>4 DEF Served
  <2> QED
    BY <2>1, <1>1, <1>2 DEF Drained, Fields, r
<1>5. CASE Queued(r) # {}
  <2>1. ~ Drained(l)
    BY <1>2, <1>3, <1>5
  <2>2. LET m == Served(g, r)
        IN /\ DOMAIN m = Fields /\ m.dir = r.dir /\ m.peer = r.peer
           /\ m.air # None => OlderBusy(g) = {}
    BY <1>1, <1>5 DEF Served, Fields
  <2> QED
    BY <2>1, <2>2, <1>1 DEF r
<1> QED
  BY <1>4, <1>5

LEMMA RunServerForward == ASSUME Sound, NEW g \in Gens, RunServer(g) PROVE Forward
<1>0. PICK data \in Remains(link[g].data, Packets \ Outlived),
           ctrl \in Remains(link[g].ctrl, Packets \ Outlived) :
        link' = [link EXCEPT ![g] = Served(g, Resumed(link[g], data, ctrl))]
  BY DEF RunServer
<1> DEFINE m == Served(g, Resumed(link[g], data, ctrl))
<1>1. DOMAIN m = Fields /\ m.dir = link[g].dir /\ m.peer = link[g].peer
      /\ (Drained(link[g]) => Drained(m)) /\ (m.air # None => OlderBusy(g) = {})
  BY ServedKeeps DEF Sound, Shaped
<1>2. link' = [link EXCEPT ![g] = m] /\ isls' = isls /\ seq' = seq
  BY <1>0 DEF RunServer
<1>3. retired' \subseteq retired /\ \A h \in retired \ retired' : Drained(link'[h])
  BY DEF RunServer, Purge
<1> HIDE DEF m
<1>4. m.air # None /\ link[g].dir \in Dirs =>
        \A h \in Gens : h < g /\ link[h].dir = link[g].dir => Drained(link[h])
  <2> SUFFICES ASSUME m.air # None, link[g].dir \in Dirs, NEW h \in Gens, h < g, link[h].dir = link[g].dir,
                      ~ Drained(link[h])
               PROVE  FALSE
    OBVIOUS
  <2>1. h \notin retired
    BY <1>1 DEF OlderBusy
  <2>2. h = isls[link[g].dir]
    BY <2>1 DEF Sound, OthersRetired
  <2>3. g =< h
    BY <2>2, NoneAssumption DEF Sound, CurrentIsNewest, Gens
  <2> QED
    BY <2>3 DEF Gens
<1> QED
  BY <1>1, <1>2, <1>3, <1>4, OneLinkChanges

\* A packet joins the current generation of a direction: no older one
\* fills up, and nothing starts to transmit.
LEMMA PutForward ==
  ASSUME Sound, NEW d \in Dirs, isls[d] # None, NEW l,
         DOMAIN l = Fields, l.dir = link[isls[d]].dir, l.peer = link[isls[d]].peer,
         l.air = link[isls[d]].air, link' = [link EXCEPT ![isls[d]] = l],
         UNCHANGED <<isls, seq, retired>>
  PROVE  Forward
<1>1. isls[d] \in Gens
  BY DEF Sound, Numbered
<1>2. l.air # None /\ link[isls[d]].dir \in Dirs =>
        \A h \in Gens : h < isls[d] /\ link[h].dir = link[isls[d]].dir => Drained(link[h])
  BY <1>1 DEF Sound, OldersDrained
<1> QED
  BY <1>1, <1>2, OneLinkChanges

\* A step that leaves the generations alone.
LEMMA OtherForward == ASSUME Sound, UNCHANGED <<link, isls, seq, retired>> PROVE Forward
BY DEF Forward, Sound, Shaped, Numbered, CurrentIsNewest, OthersRetired, OldersDrained, Serving

LEMMA PutCtrlForward == ASSUME Sound, NEW d \in Dirs, NEW p, PutCtrl(d, p) PROVE Forward
<1>1. isls[d] # None /\ isls[d] \in Gens /\ DOMAIN link[isls[d]] = Fields
  BY DEF PutCtrl, Sound, Numbered, Shaped
<1>2. CASE UNCHANGED link
  BY <1>2, OtherForward DEF PutCtrl
<1>3. CASE link' = [link EXCEPT ![isls[d]] = WithCtrl(link[isls[d]], p)]
  <2> DEFINE l == WithCtrl(link[isls[d]], p)
  <2>1. /\ DOMAIN l = Fields /\ l.dir = link[isls[d]].dir /\ l.peer = link[isls[d]].peer
        /\ l.air = link[isls[d]].air
    BY <1>1 DEF WithCtrl, Poked, Fields
  <2>2. link' = [link EXCEPT ![isls[d]] = l]
    BY <1>3, <1>1, Zenon
  <2> HIDE DEF l
  <2> QED
    BY <1>1, <2>1, <2>2, PutForward DEF PutCtrl
<1> QED
  BY <1>2, <1>3 DEF PutCtrl

LEMMA DecideForward == ASSUME Sound, NEW p, NEW cands, Decide(p, cands) PROVE Forward
<1>1. CASE UNCHANGED link
  BY <1>1, OtherForward DEF Decide
<1>2. ASSUME NEW d \in Legal(cands),
             link' = [link EXCEPT ![isls[d]] = WithData(link[isls[d]], p)]
      PROVE  Forward
  <2>1. d \in Dirs /\ isls[d] # None
    BY DEF Decide, Legal, Up
  <2>2. isls[d] \in Gens /\ DOMAIN link[isls[d]] = Fields
    BY <2>1 DEF Sound, Numbered, Shaped
  <2> DEFINE l == WithData(link[isls[d]], p)
  <2>3. /\ DOMAIN l = Fields /\ l.dir = link[isls[d]].dir /\ l.peer = link[isls[d]].peer
        /\ l.air = link[isls[d]].air
    BY <2>2 DEF WithData, Poked, Fields
  <2>4. link' = [link EXCEPT ![isls[d]] = l]
    BY <1>2, <2>2, Zenon
  <2> HIDE DEF l
  <2> QED
    BY <2>1, <2>3, <2>4, PutForward DEF Decide
<1> QED
  BY <1>1, <1>2 DEF Decide

-----------------------------------------------------------------------------
\* The link numbered gen[d] is the new one of direction d, and idle.
LEMMA CreatedIs ==
  ASSUME NEW new, NEW n, NEW gen \in Numberings(new, n), NEW w, NEW d \in new
  PROVE  /\ DOMAIN Created(gen[d], gen, w) = Fields
         /\ Created(gen[d], gen, w).dir = d /\ Created(gen[d], gen, w).peer = w[d]
         /\ Created(gen[d], gen, w).air = None /\ Drained(Created(gen[d], gen, w))
<1>1. DOMAIN gen = new /\ \A e \in new : gen[e] = gen[d] => e = d
  BY DEF Numberings, IsInjective
<1>2. (CHOOSE e \in DOMAIN gen : gen[e] = gen[d]) = d
  BY <1>1
<1>3. Created(gen[d], gen, w) = [Unborn EXCEPT !.dir = d, !.peer = w[d], !.phase = "run"]
  BY <1>2 DEF Created
<1> QED
  BY <1>3 DEF Unborn, Fields, Drained

\* There are finitely many directions to number.
LEMMA NumberingsBounded ==
  ASSUME NEW new, new \subseteq Dirs, NEW n \in Nat, NEW gen \in Numberings(new, n)
  PROVE  /\ Cardinality(new) \in Nat
         /\ \A d \in new : gen[d] \in Nat /\ n =< gen[d] /\ gen[d] < n + Cardinality(new)
<1>1. Cardinality(new) \in Nat
  BY WiringsAssumption, FS_Subset, FS_CardinalityType
<1> QED
  BY <1>1 DEF Numberings

\* Retiring a link empties its data queue and interrupts nothing.
LEMMA RetireIs ==
  ASSUME NEW l, DOMAIN l = Fields
  PROVE  /\ DOMAIN Retire(l) = Fields /\ Retire(l).dir = l.dir /\ Retire(l).peer = l.peer
         /\ Retire(l).air = l.air /\ (Drained(l) => Drained(Retire(l)))
BY DEF Retire, Poked, Fields, Drained

LEMMA RematchForward ==
  ASSUME Sound, NEW w \in Wirings, NEW gen \in Numberings(Fresh(w), seq), Rematch(w, gen)
  PROVE  Forward
<1> DEFINE old == Stale(w)
           new == Fresh(w)
           wired == [g \in Gens |-> IF g \in old THEN Retire(link[g])
                                   ELSE IF g \in Range(gen) THEN Created(g, gen, w)
                                   ELSE link[g]]
<1>1. CASE ~ Fits(new)
  BY <1>1, OtherForward DEF Rematch
<1>2. CASE Fits(new)
  <2>1. /\ link' = wired /\ seq' = seq + Cardinality(new)
        /\ isls' = [d \in Dirs |-> IF d \in new THEN gen[d]
                                   ELSE IF w[d] = None THEN None ELSE isls[d]]
        /\ retired' = (retired \cup old) \ {g \in retired \cup old : Drained(wired[g])}
        /\ seq + Cardinality(new) =< LastGen + 1
    BY <1>2 DEF Rematch
  <2>2. new \subseteq Dirs /\ seq \in Nat /\ LastGen \in Nat
    BY SizesAssumption DEF Fresh, Sound, Numbered
  <2>3. /\ Cardinality(new) \in Nat
        /\ \A d \in new : gen[d] \in Nat /\ seq =< gen[d] /\ gen[d] < seq + Cardinality(new)
    BY <2>2, NumberingsBounded
  <2>4. \A d \in new : gen[d] \in Gens
    BY <2>1, <2>2, <2>3 DEF Gens
  <2>5. Range(gen) = {gen[d] : d \in new}
    BY DEF Range, Numberings
  <2>6. \A g \in old : g \in Gens /\ g < seq /\ \E d \in Dirs : g = isls[d]
    BY DEF Stale, Sound, Numbered, CurrentIsNewest
  \* The generations that existed keep their identity and get no new work.
  <2>7. \A g \in Gens : g < seq =>
          /\ DOMAIN link'[g] = Fields /\ link'[g].dir = link[g].dir
          /\ link'[g].peer = link[g].peer /\ link'[g].air = link[g].air
          /\ Drained(link[g]) => Drained(link'[g])
    <3> SUFFICES ASSUME NEW g \in Gens, g < seq
                 PROVE  /\ DOMAIN link'[g] = Fields /\ link'[g].dir = link[g].dir
                        /\ link'[g].peer = link[g].peer /\ link'[g].air = link[g].air
                        /\ Drained(link[g]) => Drained(link'[g])
      OBVIOUS
    <3>1. DOMAIN link[g] = Fields
      BY DEF Sound, Shaped
    <3>2. g \notin Range(gen)
      BY <2>3, <2>5, <2>2 DEF Gens
    <3>3. link'[g] = IF g \in old THEN Retire(link[g]) ELSE link[g]
      BY <2>1, <3>2
    <3>4. CASE g \in old
      <4>1. link'[g] = Retire(link[g])
        BY <3>3, <3>4
      <4> QED
        BY <3>1, <4>1, RetireIs
    <3>5. CASE g \notin old
      <4>1. link'[g] = link[g]
        BY <3>3, <3>5
      <4> QED
        BY <3>1, <4>1
    <3> QED
      BY <3>4, <3>5
  \* The others are the new links, or still to be created.
  <2>8. \A d \in new : /\ DOMAIN link'[gen[d]] = Fields /\ link'[gen[d]].dir = d
                       /\ link'[gen[d]].peer = w[d] /\ link'[gen[d]].air = None
                       /\ Drained(link'[gen[d]])
    <3> SUFFICES ASSUME NEW d \in new
                 PROVE  link'[gen[d]] = Created(gen[d], gen, w)
      BY CreatedIs
    <3>1. gen[d] \notin old
      BY <2>3, <2>6, <2>2 DEF Gens
    <3> QED
      BY <2>1, <2>4, <2>5, <3>1
  <2>9. \A g \in Gens : g >= seq /\ g \notin Range(gen) => link'[g] = link[g] /\ link[g].dir = None
    <3> SUFFICES ASSUME NEW g \in Gens, g >= seq, g \notin Range(gen)
                 PROVE  link'[g] = link[g] /\ link[g].dir = None
      OBVIOUS
    <3>1. g \notin old
      BY <2>6, <2>2 DEF Gens
    <3> QED
      BY <2>1, <3>1 DEF Sound, Numbered
  <2> HIDE DEF wired
  <2>10. \A g \in Gens, d \in Dirs : g >= seq /\ link'[g].dir = d => d \in new /\ g = gen[d]
    BY <2>8, <2>9, <2>5, NoneAssumption
  <2>11. Shaped'
    <3>1. DOMAIN link' = Gens
      BY <2>1 DEF wired
    <3>2. \A g \in Gens : g < seq \/ g >= seq
      BY <2>2 DEF Gens
    <3> QED
      BY <3>1, <3>2, <2>5, <2>7, <2>8, <2>9 DEF Shaped, Sound
  <2>12. Numbered'
    <3>1. isls' \in [Dirs -> Gens \cup {None}]
      BY <2>1, <2>4 DEF Sound, Numbered
    <3>2. retired' \subseteq Gens
      BY <2>1, <2>6 DEF Sound, Numbered
    <3>3. seq' \in Nat
      BY <2>1, <2>2, <2>3
    <3>4. \A g \in Gens : g >= seq' => link'[g].dir = None
      <4> SUFFICES ASSUME NEW g \in Gens, g >= seq' PROVE link'[g].dir = None
        OBVIOUS
      <4>1. g >= seq /\ g \notin Range(gen)
        BY <2>1, <2>2, <2>3, <2>5 DEF Gens
      <4> QED
        BY <4>1, <2>9
    <3> QED
      BY <3>1, <3>2, <3>3, <3>4 DEF Numbered
  \* A direction without a new link keeps its current one, on the same peer.
  <2>13. \A d \in Dirs : d \notin new /\ w[d] # None =>
           /\ isls[d] # None /\ isls'[d] = isls[d] /\ isls[d] \in Gens /\ isls[d] < seq
    BY <2>1 DEF Fresh, Sound, Numbered, CurrentIsNewest
  <2>14. CurrentIsNewest'
    <3> SUFFICES ASSUME NEW d \in Dirs, isls'[d] # None
                 PROVE  /\ isls'[d] < seq' /\ link'[isls'[d]].dir = d
                        /\ link'[isls'[d]].peer # None
                        /\ \A g \in Gens : link'[g].dir = d => g =< isls'[d]
      BY DEF CurrentIsNewest
    <3>1. CASE d \in new
      <4>1. isls'[d] = gen[d] /\ w[d] # None
        BY <3>1, <2>1 DEF Fresh
      <4>2. \A g \in Gens : link'[g].dir = d => g =< gen[d]
        BY <3>1, <2>2, <2>3, <2>10 DEF Gens
      <4> QED
        BY <3>1, <4>1, <4>2, <2>1, <2>2, <2>3, <2>8
    <3>2. CASE d \notin new
      <4>1. w[d] # None
        BY <3>2, <2>1
      <4>2. isls'[d] = isls[d] /\ isls[d] # None /\ isls[d] \in Gens /\ isls[d] < seq
        BY <3>2, <4>1, <2>13
      <4>3. link[isls[d]].dir = d /\ link[isls[d]].peer # None
            /\ \A g \in Gens : link[g].dir = d => g =< isls[d]
        BY <4>2 DEF Sound, CurrentIsNewest
      <4>4. \A g \in Gens : link'[g].dir = d => g < seq /\ link[g].dir = d
        BY <3>2, <2>2, <2>7, <2>10 DEF Gens
      <4>5. isls[d] < seq'
        BY <4>2, <2>1, <2>2, <2>3 DEF Gens
      <4> QED
        BY <4>2, <4>3, <4>4, <4>5, <2>7
    <3> QED
      BY <3>1, <3>2
  <2>15. \A g \in Gens, d \in Dirs : link'[g].dir = d /\ ~ Drained(link'[g]) =>
           g < seq /\ link[g].dir = d /\ ~ Drained(link[g])
    BY <2>2, <2>7, <2>8, <2>10 DEF Gens
  <2>16. OthersRetired'
    <3> SUFFICES ASSUME NEW g \in Gens, NEW d \in Dirs, link'[g].dir = d, ~ Drained(link'[g]),
                        g # isls'[d]
                 PROVE  g \in retired'
      BY DEF OthersRetired
    <3>1. link[g].dir = d /\ (g = isls[d] \/ g \in retired)
      BY <2>15 DEF Sound, OthersRetired
    <3>2. ~ Drained(wired[g])
      BY <2>1
    <3>3. CASE g \in retired
      BY <3>2, <3>3, <2>1
    <3>4. CASE g = isls[d]
      <4>1. isls[d] # None /\ link[isls[d]].peer # None
        BY <3>4, NoneAssumption DEF Gens, Sound, CurrentIsNewest
      <4>2. link[isls[d]].peer # w[d]
        BY <3>4, <4>1, <2>1 DEF Fresh
      <4>3. g \in old
        BY <3>4, <4>1, <4>2 DEF Stale
      <4> QED
        BY <4>3, <3>2, <2>1
    <3> QED
      BY <3>1, <3>3, <3>4
  <2>17. OldersDrained'
    <3> SUFFICES ASSUME NEW g \in Gens, NEW h \in Gens, NEW d \in Dirs, h < g,
                        link'[g].dir = d, link'[h].dir = d, link'[g].air # None
                 PROVE  Drained(link'[h])
      BY DEF OldersDrained
    <3>1. g < seq
      BY <2>2, <2>8, <2>10 DEF Gens
    <3>2. h < seq
      BY <3>1, <2>2 DEF Gens
    <3>3. Drained(link[h])
      BY <3>1, <3>2, <2>7 DEF Sound, OldersDrained
    <3> QED
      BY <3>2, <3>3, <2>7
  <2>18. \A d \in Dirs : \A g \in Serving(d)' : g >= seq \/ g \in Serving(d)
    <3> SUFFICES ASSUME NEW d \in Dirs, NEW g \in Serving(d)', g < seq
                 PROVE  g \in Serving(d)
      BY <2>2 DEF Serving, Gens
    <3>1. g \in Gens /\ link'[g].dir = d /\ (g = isls'[d] \/ ~ Drained(link'[g]))
      BY DEF Serving
    <3>2. link[g].dir = d
      BY <3>1, <2>7
    <3>3. CASE g = isls'[d]
      <4>1. d \notin new
        BY <3>3, <2>1, <2>2, <2>3 DEF Gens
      <4>2. g = isls[d]
        BY <4>1, <3>1, <3>3, <2>1, NoneAssumption DEF Gens
      <4> QED
        BY <4>2, <3>1, <3>2 DEF Serving
    <3>4. CASE ~ Drained(link'[g])
      BY <3>1, <3>2, <3>4, <2>15 DEF Serving
    <3> QED
      BY <3>1, <3>3, <3>4
  <2>19. seq' >= seq
    BY <2>1, <2>2, <2>3
  <2> QED
    BY <2>11, <2>12, <2>14, <2>16, <2>17, <2>18, <2>19 DEF Forward, Sound
<1> QED
  BY <1>1, <1>2

-----------------------------------------------------------------------------
\* A new system: every generation that exists is current, and idle.
LEMMA InitSound == Init => Sound /\ \A d \in Dirs : OnAir(d) = {}
<1> SUFFICES ASSUME Init PROVE Sound /\ \A d \in Dirs : OnAir(d) = {}
  OBVIOUS
<1>1. PICK w \in Wirings :
        \E gen \in Numberings({d \in Dirs : w[d] # None}, 0) :
          /\ Cardinality({d \in Dirs : w[d] # None}) =< LastGen + 1
          /\ seq = Cardinality({d \in Dirs : w[d] # None})
          /\ link = [g \in Gens |-> IF g \in Range(gen) THEN Created(g, gen, w) ELSE Unborn]
          /\ isls = [d \in Dirs |-> IF d \in {e \in Dirs : w[e] # None} THEN gen[d] ELSE None]
  BY DEF Init
<1> DEFINE new == {d \in Dirs : w[d] # None}
<1>2. PICK gen \in Numberings(new, 0) :
        /\ Cardinality(new) =< LastGen + 1 /\ seq = Cardinality(new)
        /\ link = [g \in Gens |-> IF g \in Range(gen) THEN Created(g, gen, w) ELSE Unborn]
        /\ isls = [d \in Dirs |-> IF d \in new THEN gen[d] ELSE None]
  BY <1>1
<1>3. /\ Cardinality(new) \in Nat
      /\ \A d \in new : gen[d] \in Nat /\ gen[d] < seq
  <2>1. new \subseteq Dirs /\ 0 \in Nat
    OBVIOUS
  <2>2. Cardinality(new) \in Nat
    BY <2>1, NumberingsBounded
  <2>3. \A d \in new : gen[d] \in Nat /\ gen[d] < 0 + Cardinality(new)
    BY <2>1, NumberingsBounded
  <2> QED
    BY <1>2, <2>2, <2>3
<1>4. \A d \in new : gen[d] \in Gens
  BY <1>2, <1>3, SizesAssumption DEF Gens
<1>5. Range(gen) = {gen[d] : d \in new}
  BY DEF Range, Numberings
<1>6. \A d \in new : /\ DOMAIN link[gen[d]] = Fields /\ link[gen[d]].dir = d
                     /\ link[gen[d]].peer = w[d] /\ link[gen[d]].air = None
                     /\ Drained(link[gen[d]])
  BY <1>2, <1>4, <1>5, CreatedIs
<1>7. \A g \in Gens : g \notin Range(gen) => link[g] = Unborn
  BY <1>2
<1>8. DOMAIN Unborn = Fields /\ Unborn.dir = None /\ Unborn.air = None /\ Drained(Unborn)
  BY DEF Unborn, Fields, Drained
<1>9. \A g \in Gens : DOMAIN link[g] = Fields /\ link[g].air = None /\ Drained(link[g])
  BY <1>5, <1>6, <1>7, <1>8
<1>10. \A g \in Gens, d \in Dirs : link[g].dir = d => d \in new /\ g = gen[d]
  BY <1>5, <1>6, <1>7, <1>8, NoneAssumption
<1>11. Shaped
  BY <1>2, <1>9 DEF Shaped
<1>12. Numbered
  <2>1. isls \in [Dirs -> Gens \cup {None}]
    BY <1>2, <1>4
  <2>2. \A g \in Gens : g >= seq => g \notin Range(gen)
    BY <1>2, <1>3, <1>5 DEF Gens
  <2> QED
    BY <1>2, <1>3, <1>7, <1>8, <2>1, <2>2 DEF Numbered, Init
<1>13. CurrentIsNewest
  <2> SUFFICES ASSUME NEW d \in Dirs, isls[d] # None
               PROVE  /\ isls[d] < seq /\ link[isls[d]].dir = d /\ link[isls[d]].peer # None
                      /\ \A g \in Gens : link[g].dir = d => g =< isls[d]
    BY DEF CurrentIsNewest
  <2>1. d \in new /\ isls[d] = gen[d]
    BY <1>2
  <2> QED
    BY <2>1, <1>3, <1>6, <1>10 DEF Gens
<1> QED
  BY <1>9, <1>11, <1>12, <1>13 DEF Sound, OthersRetired, OldersDrained, OnAir

\* Every step keeps Sound and moves the transceivers forward.
LEMMA StepForward == Sound /\ [Next]_vars => Forward
<1> SUFFICES ASSUME Sound, [Next]_vars PROVE Forward
  OBVIOUS
<1>1. ASSUME NEW g \in Gens, RunServer(g) PROVE Forward
  BY <1>1, RunServerForward
<1>2. ASSUME NEW d \in Dirs, NEW p \in Ctrl, PutCtrl(d, p) PROVE Forward
  BY <1>2, PutCtrlForward
<1>3. ASSUME NEW p \in Data, NEW cands \in SUBSET Dirs, Decide(p, cands) PROVE Forward
  BY <1>3, DecideForward
<1>4. ASSUME NEW w \in Wirings, NEW gen \in Numberings(Fresh(w), seq), Rematch(w, gen)
      PROVE  Forward
  BY <1>4, RematchForward
<1>5. CASE EnsureEndpoint
  BY <1>5, OtherForward DEF EnsureEndpoint
<1>6. ASSUME NEW r \in Reaches, Advance(r) PROVE Forward
  BY <1>6, OtherForward DEF Advance
<1>7. CASE UNCHANGED vars
  BY <1>7, OtherForward DEF vars
<1>8. CASE Stopped
  BY <1>7, <1>8 DEF Stopped
<1> QED
  BY <1>1, <1>2, <1>3, <1>4, <1>5, <1>6, <1>7, <1>8 DEF Next

\* Two generations on the air of one direction would be an older, drained one
\* and a newer one.
LEMMA SoundIsSafe == Sound => OneTransceiver
<1> SUFFICES ASSUME Sound, NEW d \in Dirs, NEW g \in OnAir(d), NEW h \in OnAir(d)
             PROVE  g = h
  BY DEF OneTransceiver
<1>1. g \in Gens /\ link[g].dir = d /\ link[g].air # None /\ ~ Drained(link[g])
  BY DEF OnAir, Drained
<1>2. h \in Gens /\ link[h].dir = d /\ link[h].air # None /\ ~ Drained(link[h])
  BY DEF OnAir, Drained
<1>3. ~ h < g /\ ~ g < h
  BY <1>1, <1>2 DEF Sound, OldersDrained
<1> QED
  BY <1>1, <1>2, <1>3 DEF Gens

\* Two generations of one direction never transmit at the same time, for any
\* number of rematches, directions and packets (ISLLink._run).
THEOREM OneTransceiverAlways == Spec => []OneTransceiver
<1>1. Init => Sound
  BY InitSound
<1>2. Sound /\ [Next]_vars => Sound'
  BY StepForward DEF Forward
<1> QED
  BY <1>1, <1>2, SoundIsSafe, PTL DEF Spec

-----------------------------------------------------------------------------
(* The order in which the generations of a direction serve.                *)

\* Oldest(d) serves the direction, or is the next number; none is before it.
LEMMA OldestIs ==
  ASSUME Sound, NEW d \in Dirs
  PROVE  /\ Oldest(d) \in Nat /\ Oldest(d) \in Serving(d) \cup {seq}
         /\ Oldest(d) =< seq /\ \A g \in Serving(d) : Oldest(d) =< g
<1>1. Serving(d) \cup {seq} \subseteq Nat
  BY SizesAssumption DEF Serving, Gens, Sound, Numbered
<1> QED
  BY <1>1, MinIsLeast DEF Oldest

\* A generation on the air is the oldest that serves its direction.
OnAirIsOldest == \A d \in Dirs : \A g \in OnAir(d) : g = Oldest(d)

LEMMA SoundIsOrdered == Sound => OnAirIsOldest
<1> SUFFICES ASSUME Sound, NEW d \in Dirs, NEW g \in OnAir(d) PROVE g = Oldest(d)
  BY DEF OnAirIsOldest
<1>1. g \in Gens /\ link[g].dir = d /\ link[g].air # None /\ g \in Serving(d)
  BY DEF OnAir, Serving, Drained
<1>2. Oldest(d) \in Nat /\ Oldest(d) =< g /\ Oldest(d) \in Serving(d) \cup {seq}
  BY <1>1, OldestIs
<1>3. CASE Oldest(d) = seq
  BY <1>1, <1>2, <1>3, NoneAssumption DEF Sound, Numbered, Gens
<1>4. CASE Oldest(d) \in Serving(d) /\ Oldest(d) < g
  <2>1. Oldest(d) \in Gens /\ link[Oldest(d)].dir = d
        /\ (Oldest(d) = isls[d] \/ ~ Drained(link[Oldest(d)]))
    BY <1>4 DEF Serving
  <2>2. Drained(link[Oldest(d)])
    BY <1>1, <1>4, <2>1 DEF Sound, OldersDrained
  <2>3. g =< Oldest(d)
    BY <1>1, <2>1, <2>2, NoneAssumption DEF Sound, CurrentIsNewest, Gens
  <2> QED
    BY <1>1, <1>2, <1>4, <2>3 DEF Gens
<1> QED
  BY <1>1, <1>2, <1>3, <1>4 DEF Gens

-----------------------------------------------------------------------------
\* The oldest serving generation of a direction never gets older.
LEMMA OldestAdvances ==
  ASSUME Sound, Forward, NEW d \in Dirs PROVE Oldest(d)' \in Nat /\ Oldest(d)' >= Oldest(d)
<1>1. /\ Oldest(d) \in Nat /\ Oldest(d) =< seq /\ \A g \in Serving(d) : Oldest(d) =< g
  BY OldestIs
<1>2. Sound'
  BY DEF Forward
<1>3. Serving(d)' \cup {seq'} \subseteq Nat
  BY <1>2, SizesAssumption DEF Serving, Gens, Sound, Numbered
<1>4. Oldest(d)' \in Nat /\ Oldest(d)' \in Serving(d)' \cup {seq'}
  BY <1>3, MinIsLeast DEF Oldest
<1>5. seq \in Nat /\ seq' \in Nat /\ seq' >= seq
  BY <1>2 DEF Forward, Sound, Numbered
<1> QED
  BY <1>1, <1>4, <1>5 DEF Forward

LEMMA StepOrdered == Sound /\ [Next]_vars => Ordered!Next
<1> SUFFICES ASSUME Sound, Forward PROVE Ordered!Next
  BY StepForward
<1> DEFINE air == [d \in Dirs |-> IF OnAir(d) = {} THEN None ELSE CHOOSE g \in OnAir(d) : TRUE]
<1>1. ASSUME NEW d \in Dirs
      PROVE  Oldest(d)' \in Nat /\ Oldest(d)' >= Oldest(d)
  BY OldestAdvances
<1>2. OnAirIsOldest'
  <2>1. (Sound => OnAirIsOldest)'
    BY SoundIsOrdered, PTL
  <2> QED
    BY <2>1 DEF Forward
<1>3. ASSUME NEW d \in Dirs PROVE air'[d] \in {None, Oldest(d)'}
  <2>1. \A g \in OnAir(d)' : g = Oldest(d)'
    BY <1>2 DEF OnAirIsOldest
  <2>2. air'[d] = IF OnAir(d)' = {} THEN None ELSE CHOOSE g \in OnAir(d)' : TRUE
    OBVIOUS
  <2> QED
    BY <2>1, <2>2
<1> HIDE DEF air
<1>4. [d \in Dirs |-> Oldest(d)]' \in [Dirs -> Nat]
  BY <1>1
<1>5. air' \in [Dirs -> Nat \cup {None}]
  BY <1>1, <1>3 DEF air
<1> QED
  BY <1>1, <1>3, <1>4, <1>5 DEF Ordered!Next, air

\* The transceivers of a satellite implement their promise: one generation at
\* a time, in the order of the rematches (ISLLink._run, _recompute_topology).
THEOREM TransceiversInOrder == Spec => GenerationsInOrder
<1>1. Init => Sound /\ Ordered!Init
  BY InitSound, OldestIs DEF Ordered!Init
<1>2. Sound /\ [Next]_vars => Sound'
  BY StepForward DEF Forward
<1>3. Sound /\ [Next]_vars => Ordered!Next
  BY StepOrdered
<1> QED
  BY <1>1, <1>2, <1>3, PTL DEF Spec, GenerationsInOrder, Ordered!Spec

-----------------------------------------------------------------------------
(* The packets of a satellite, its count of entities, its waiting servers. *)

Links ==
  [dir : Dirs \cup {None}, peer : Peers \cup {None}, retired : BOOLEAN,
   data : Seq(Data), ctrl : Seq(Ctrl), air : Packets \cup {None}, until : Nat \cup {None},
   poked : BOOLEAN, blockers : SUBSET Gens, phase : Phases]
Typed ==
  /\ now \in 0 .. Horizon /\ reach \in Reaches
  /\ link \in [Gens -> Links] /\ hold \in Seq(Data)
  /\ seq \in 0 .. LastGen + 1 /\ drains \in Nat /\ endpoints \in 0 .. MaxEndpoints
  /\ fate \in [Packets -> {"new", "live", "sent", "lost", "expired", "overflow"}]
  /\ raised \in BOOLEAN /\ due \in BOOLEAN

\* The packets a generation has, queued or in service.
Own(l) == Queued(l) \cup ({l.air} \ {None})
\* A generation has each of them once, within its bound.
Fine(l) ==
  /\ l \in Links
  /\ IsInjective(l.data) /\ IsInjective(l.ctrl) /\ l.air \notin Queued(l) /\ Used(l) =< Room

\* The live packets are those of the holding queue and of the generations,
\* which share none.
Apart ==
  /\ IsInjective(hold) /\ Len(hold) =< HoldRoom
  /\ \A g \in Gens : Fine(link[g]) /\ Own(link[g]) \cap Range(hold) = {}
  /\ \A g, h \in Gens : g # h => Own(link[g]) \cap Own(link[h]) = {}
LiveAre ==
  \A p \in Packets :
    fate[p] = "live" <=> p \in Range(hold) \/ \E g \in Gens : p \in Own(link[g])

\* Only the current generations are not retired, and a retired one is counted
\* as long as it has a packet.
Standing ==
  /\ \A d \in Dirs : isls[d] # None =>
       ~ link[isls[d]].retired /\ link[isls[d]].phase \notin {"unborn", "ended"}
  /\ \A g \in retired : link[g].retired /\ link[g].dir \in Dirs /\ ~ Drained(link[g])
  /\ \A g \in Gens : g >= seq => link[g] = Unborn

\* The timer of a waiting server covers the packets it waits with.
Covered(l) ==
  /\ l.until # None => now =< l.until
  /\ \A p \in Queued(l) : Expiry[p] > Horizon \/ (l.until # None /\ l.until =< Expiry[p])
\* A server that sleeps has nothing to do that something will not wake it for.
Waiting(g, l) ==
  /\ l.phase \in {"unborn", "ended"} => Queued(l) = {}
  /\ l.phase = "wake" => l.poked \/ Queued(l) = {}
  /\ l.phase \in {"gate", "down"} => l.poked \/ Covered(l)
  /\ l.phase = "gate" =>
       \A h \in l.blockers : h < g /\ link[h].dir = l.dir /\ l.dir \in Dirs
Waits == \A g \in Gens : Waiting(g, link[g])

Slots ==
  Sound /\ Typed /\ Apart /\ LiveAre /\ Standing /\ Waits /\ EntitiesExact /\ EntityCap

-----------------------------------------------------------------------------
(* One generation at a time.                                               *)

LEMMA LinkFields ==
  ASSUME NEW l \in Links
  PROVE  /\ DOMAIN l = Fields
         /\ l.dir \in Dirs \cup {None} /\ l.peer \in Peers \cup {None} /\ l.retired \in BOOLEAN
         /\ l.data \in Seq(Data) /\ l.ctrl \in Seq(Ctrl) /\ l.air \in Packets \cup {None}
         /\ l.until \in Nat \cup {None} /\ l.poked \in BOOLEAN /\ l.blockers \in SUBSET Gens
         /\ l.phase \in Phases
BY DEF Links, Fields

LEMMA OwnIs ==
  ASSUME NEW l \in Links
  PROVE  /\ Queued(l) \subseteq Packets /\ Own(l) \subseteq Packets /\ None \notin Packets
         /\ Queued(l) = {} => l.data = <<>> /\ l.ctrl = <<>>
         /\ Drained(l) <=> Own(l) = {}
<1>1. l.data \in Seq(Data) /\ l.ctrl \in Seq(Ctrl) /\ l.air \in Packets \cup {None}
  BY LinkFields
<1>2. Range(l.data) \subseteq Data /\ Range(l.ctrl) \subseteq Ctrl
  BY <1>1, Members
<1>3. None \notin Packets
  BY NoneAssumption
<1>4. Queued(l) = {} => l.data = <<>> /\ l.ctrl = <<>>
  BY <1>1, NonEmpty DEF Queued
<1>5. l.data = <<>> /\ l.ctrl = <<>> => Queued(l) = {}
  BY EmptyQueue DEF Queued
<1> QED
  BY <1>1, <1>2, <1>3, <1>4, <1>5 DEF Own, Queued, Drained, Packets

LEMMA UnbornIs == Unborn \in Links /\ Fine(Unborn) /\ Own(Unborn) = {} /\ Unborn.dir = None
<1>1. <<>> \in Seq(Data) /\ <<>> \in Seq(Ctrl) /\ Len(<<>>) = 0 /\ Range(<<>>) = {} /\ IsInjective(<<>>)
  BY EmptyQueue
<1>2. Unborn \in Links
  BY <1>1 DEF Unborn, Links, Phases
<1>3. Queued(Unborn) = {} /\ Used(Unborn) = 0
  BY <1>1 DEF Unborn, Queued, Used
<1>4. Room \in Nat
  BY SizesAssumption
<1>5. Used(Unborn) =< Room
  BY <1>3, <1>4
<1> QED
  BY <1>1, <1>2, <1>3, <1>5 DEF Unborn, Fine, Own

\* A packet that the satellite does not have joins a queue with room.
LEMMA WithCtrlFine ==
  ASSUME NEW l, Fine(l), NEW p \in Ctrl, p \notin Own(l), HasRoom(l)
  PROVE  LET m == WithCtrl(l, p)
         IN  /\ Fine(m) /\ Own(m) = Own(l) \cup {p} /\ m.poked
             /\ m.dir = l.dir /\ m.peer = l.peer /\ m.retired = l.retired /\ m.phase = l.phase
             /\ m.air = l.air /\ m.blockers = l.blockers
<1> DEFINE m == WithCtrl(l, p)
<1>1. /\ l \in Links /\ l.data \in Seq(Data) /\ l.ctrl \in Seq(Ctrl) /\ l.air \in Packets \cup {None}
      /\ IsInjective(l.data) /\ IsInjective(l.ctrl) /\ l.air \notin Queued(l)
  BY LinkFields DEF Fine
<1>2. m = [l EXCEPT !.ctrl = Append(l.ctrl, p), !.poked = TRUE]
  BY <1>1 DEF WithCtrl, Poked, Links
<1>3. p \notin Range(l.ctrl) /\ p # l.air /\ p # None
  BY NoneAssumption DEF Own, Queued, Packets
<1>4. /\ Append(l.ctrl, p) \in Seq(Ctrl) /\ IsInjective(Append(l.ctrl, p))
      /\ Range(Append(l.ctrl, p)) = Range(l.ctrl) \cup {p}
      /\ Len(Append(l.ctrl, p)) = Len(l.ctrl) + 1
  BY <1>1, <1>3, Appended
<1> DEFINE c == Append(l.ctrl, p)
<1> HIDE DEF c
<1>5. /\ m \in Links /\ m.data = l.data /\ m.ctrl = c /\ m.poked /\ m.dir = l.dir /\ m.peer = l.peer
      /\ m.retired = l.retired /\ m.phase = l.phase /\ m.air = l.air /\ m.blockers = l.blockers
  BY <1>1, <1>2, <1>4 DEF Links, c
<1> HIDE DEF m
<1>6. Queued(m) = Queued(l) \cup {p}
  BY <1>4, <1>5 DEF Queued, c
<1>7. Len(l.data) \in Nat /\ Len(l.ctrl) \in Nat
  BY <1>1, LenProperties
<1>8. Used(m) =< Room
  <2> DEFINE x == Len(l.data)
             y == Len(l.ctrl)
  <2>1. Used(l) = x + y /\ Used(m) = x + (y + 1)
    BY <1>4, <1>5 DEF Used, c
  <2>2. x \in Nat /\ y \in Nat /\ Room \in Nat /\ Used(l) < Room
    BY <1>7, SizesAssumption DEF HasRoom
  <2> HIDE DEF x, y
  <2> QED
    BY <2>1, <2>2
<1>9. Fine(m) /\ Own(m) = Own(l) \cup {p}
  BY <1>1, <1>3, <1>4, <1>5, <1>6, <1>8 DEF Fine, Own, c
<1> QED
  BY <1>5, <1>9 DEF m

LEMMA WithDataFine ==
  ASSUME NEW l, Fine(l), NEW p \in Data, p \notin Own(l), HasRoom(l)
  PROVE  LET m == WithData(l, p)
         IN  /\ Fine(m) /\ Own(m) = Own(l) \cup {p} /\ m.poked
             /\ m.dir = l.dir /\ m.peer = l.peer /\ m.retired = l.retired /\ m.phase = l.phase
             /\ m.air = l.air /\ m.blockers = l.blockers
<1> DEFINE m == WithData(l, p)
<1>1. /\ l \in Links /\ l.data \in Seq(Data) /\ l.ctrl \in Seq(Ctrl) /\ l.air \in Packets \cup {None}
      /\ IsInjective(l.data) /\ IsInjective(l.ctrl) /\ l.air \notin Queued(l)
  BY LinkFields DEF Fine
<1>2. m = [l EXCEPT !.data = Append(l.data, p), !.poked = TRUE]
  BY <1>1 DEF WithData, Poked, Links
<1>3. p \notin Range(l.data) /\ p # l.air /\ p # None
  BY NoneAssumption DEF Own, Queued, Packets
<1>4. /\ Append(l.data, p) \in Seq(Data) /\ IsInjective(Append(l.data, p))
      /\ Range(Append(l.data, p)) = Range(l.data) \cup {p}
      /\ Len(Append(l.data, p)) = Len(l.data) + 1
  BY <1>1, <1>3, Appended
<1> DEFINE c == Append(l.data, p)
<1> HIDE DEF c
<1>5. /\ m \in Links /\ m.ctrl = l.ctrl /\ m.data = c /\ m.poked /\ m.dir = l.dir /\ m.peer = l.peer
      /\ m.retired = l.retired /\ m.phase = l.phase /\ m.air = l.air /\ m.blockers = l.blockers
  BY <1>1, <1>2, <1>4 DEF Links, c
<1> HIDE DEF m
<1>6. Queued(m) = Queued(l) \cup {p}
  BY <1>4, <1>5 DEF Queued, c
<1>7. Len(l.data) \in Nat /\ Len(l.ctrl) \in Nat
  BY <1>1, LenProperties
<1>8. Used(m) =< Room
  <2> DEFINE x == Len(l.data)
             y == Len(l.ctrl)
  <2>1. Used(l) = x + y /\ Used(m) = (x + 1) + y
    BY <1>4, <1>5 DEF Used, c
  <2>2. x \in Nat /\ y \in Nat /\ Room \in Nat /\ Used(l) < Room
    BY <1>7, SizesAssumption DEF HasRoom
  <2> HIDE DEF x, y
  <2> QED
    BY <2>1, <2>2
<1>9. Fine(m) /\ Own(m) = Own(l) \cup {p}
  BY <1>1, <1>3, <1>4, <1>5, <1>6, <1>8 DEF Fine, Own, c
<1> QED
  BY <1>5, <1>9 DEF m

\* Retiring takes the data away and wakes the server.
LEMMA RetireFine ==
  ASSUME NEW l, Fine(l)
  PROVE  LET m == Retire(l)
         IN  /\ Fine(m) /\ Own(m) \subseteq Own(l)
             /\ \A p \in Own(l) : p \in Own(m) <=> p \notin Range(l.data)
             /\ m.poked /\ m.retired /\ m.dir = l.dir /\ m.phase = l.phase /\ m.blockers = l.blockers
<1> DEFINE m == Retire(l)
<1>1. /\ l \in Links /\ l.data \in Seq(Data) /\ l.ctrl \in Seq(Ctrl) /\ l.air \in Packets \cup {None}
      /\ IsInjective(l.data) /\ IsInjective(l.ctrl) /\ l.air \notin Queued(l)
  BY LinkFields DEF Fine
<1>2. /\ <<>> \in Seq(Data) /\ Range(<<>>) = {} /\ Len(<<>>) = 0 /\ IsInjective(<<>>)
  BY EmptyQueue
<1>3. m = [l EXCEPT !.retired = TRUE, !.data = <<>>, !.poked = TRUE]
  BY <1>1 DEF Retire, Poked, Links
<1>4. /\ m \in Links /\ m.data = <<>> /\ m.ctrl = l.ctrl /\ m.poked /\ m.dir = l.dir
      /\ m.retired /\ m.phase = l.phase /\ m.air = l.air /\ m.blockers = l.blockers
  BY <1>1, <1>2, <1>3 DEF Links
<1> HIDE DEF m
<1>5. Queued(m) = Range(l.ctrl)
  BY <1>2, <1>4 DEF Queued
<1>6. Range(l.data) \cap Range(l.ctrl) = {}
  BY <1>1, Members, PacketsAssumption
<1>7. Len(l.data) \in Nat /\ Len(l.ctrl) \in Nat
  BY <1>1, LenProperties
<1>8. Used(m) =< Room
  <2> DEFINE x == Len(l.data)
             y == Len(l.ctrl)
  <2>1. Used(l) = x + y /\ Used(m) = 0 + y
    BY <1>2, <1>4 DEF Used
  <2>2. x \in Nat /\ y \in Nat /\ Room \in Nat /\ Used(l) =< Room
    BY <1>7, SizesAssumption DEF Fine
  <2> HIDE DEF x, y
  <2> QED
    BY <2>1, <2>2
<1>9. Fine(m)
  BY <1>1, <1>2, <1>4, <1>5, <1>8 DEF Fine, Queued
<1>10. Own(m) \subseteq Own(l) /\ \A p \in Own(l) : p \in Own(m) <=> p \notin Range(l.data)
  BY <1>1, <1>4, <1>5, <1>6 DEF Own, Queued
<1> QED
  BY <1>4, <1>9, <1>10 DEF m

\* The timer is set for the first packet that expires before the horizon.
LEMMA NextExpiryIs ==
  ASSUME now \in Nat, NEW l \in Links, \A p \in Queued(l) : ~ Expired(p)
  PROVE  /\ NextExpiry(l) \in Nat \cup {None}
         /\ NextExpiry(l) # None => now =< NextExpiry(l)
         /\ \A p \in Queued(l) :
              Expiry[p] > Horizon \/ (NextExpiry(l) # None /\ NextExpiry(l) =< Expiry[p])
<1> DEFINE at == {Expiry[p] : p \in Queued(l)} \cap (now + 1 .. Horizon)
<1>1. \A p \in Queued(l) : Expiry[p] \in Nat /\ Expiry[p] > now
  BY OwnIs, PacketsAssumption DEF Expired
<1>2. Horizon \in Nat
  BY SizesAssumption
<1>3. \A p \in Queued(l) : Expiry[p] > Horizon \/ Expiry[p] \in at
  BY <1>1, <1>2
<1>4. at \subseteq Nat /\ \A x \in at : now =< x
  BY <1>2
<1>5. NextExpiry(l) = IF at = {} THEN None ELSE Min(at)
  BY DEF NextExpiry
<1> HIDE DEF at
<1>6. CASE at = {}
  BY <1>3, <1>5, <1>6
<1>7. CASE at # {}
  <2>1. Min(at) \in at /\ \A y \in at : Min(at) =< y
    BY <1>4, <1>7, MinIsLeast
  <2>2. NextExpiry(l) = Min(at) /\ NextExpiry(l) \in Nat /\ NextExpiry(l) # None
    BY <1>4, <1>5, <1>7, <2>1, NoneAssumption
  <2> QED
    BY <1>3, <1>4, <2>1, <2>2
<1> QED
  BY <1>6, <1>7

\* A server that is resumed keeps what has not expired.
LEMMA ResumedFine ==
  ASSUME NEW l, Fine(l), NEW data \in Remains(l.data, Packets \ Outlived),
         NEW ctrl \in Remains(l.ctrl, Packets \ Outlived)
  PROVE  LET r == Resumed(l, data, ctrl)
         IN  /\ Fine(r) /\ Queued(r) = Queued(l) \ Outlived /\ r.air = None
             /\ r.dir = l.dir /\ r.peer = l.peer /\ r.retired = l.retired
<1> DEFINE r == Resumed(l, data, ctrl)
<1>1. /\ l \in Links /\ l.data \in Seq(Data) /\ l.ctrl \in Seq(Ctrl) /\ l.poked \in BOOLEAN
  BY LinkFields DEF Fine
<1>2. /\ data \in Seq(Data) /\ Len(data) =< Len(l.data) /\ IsInjective(data)
      /\ Range(data) = Range(l.data) \cap (Packets \ Outlived)
  BY <1>1, Remaining
<1>3. /\ ctrl \in Seq(Ctrl) /\ Len(ctrl) =< Len(l.ctrl) /\ IsInjective(ctrl)
      /\ Range(ctrl) = Range(l.ctrl) \cap (Packets \ Outlived)
  BY <1>1, Remaining
<1> DEFINE b == l.poked /\ l.phase \in {"run", "tx"}
<1>4. b \in BOOLEAN
  OBVIOUS
<1>5. r = [l EXCEPT !.data = data, !.ctrl = ctrl, !.air = None, !.poked = b]
  BY <1>1 DEF Resumed, Links
<1> HIDE DEF b, r
<1>6. /\ r \in Links /\ r.data = data /\ r.ctrl = ctrl /\ r.air = None
      /\ r.dir = l.dir /\ r.peer = l.peer /\ r.retired = l.retired
  BY <1>1, <1>2, <1>3, <1>4, <1>5 DEF Links
<1>7. Queued(r) = Queued(l) \ Outlived
  <2>1. Queued(l) \subseteq Packets
    BY <1>1, OwnIs
  <2> QED
    BY <1>2, <1>3, <1>6, <2>1 DEF Queued
<1>8. Used(r) =< Room
  <2> DEFINE x == Len(l.data)
             y == Len(l.ctrl)
             u == Len(data)
             v == Len(ctrl)
  <2>1. x \in Nat /\ y \in Nat /\ u \in Nat /\ v \in Nat /\ u =< x /\ v =< y
    BY <1>1, <1>2, <1>3, LenProperties
  <2>2. Used(l) = x + y /\ Used(r) = u + v /\ Used(l) =< Room /\ Room \in Nat
    BY <1>6, SizesAssumption DEF Used, Fine
  <2> HIDE DEF x, y, u, v
  <2> QED
    BY <2>1, <2>2
<1>9. r.air \notin Queued(r)
  BY <1>6, OwnIs
<1> QED
  BY <1>2, <1>3, <1>6, <1>7, <1>8, <1>9 DEF Fine, r

\* What the server does then: it ends or sleeps on empty queues, waits with a
\* timer for its packets, or takes the next one into service.
LEMMA ServedFine ==
  ASSUME now \in Nat, retired \subseteq Gens, NEW g \in Gens, NEW r, Fine(r), r.air = None,
         \A p \in Queued(r) : ~ Expired(p)
  PROVE  LET m == Served(g, r)
         IN  /\ Fine(m) /\ Own(m) = Queued(r)
             /\ m.dir = r.dir /\ m.peer = r.peer /\ m.retired = r.retired
             /\ m.phase \in {"ended", "wake", "gate", "down", "tx"}
             /\ m.phase = "ended" => r.retired
             /\ Queued(r) = {} /\ r.retired => m.phase = "ended"
             /\ m.phase \in {"ended", "wake"} => Queued(m) = {}
             /\ m.phase \in {"gate", "down"} => Covered(m)
             /\ m.phase = "gate" => m.blockers = OlderBusy(g)
<1> DEFINE m == Served(g, r)
<1>0. /\ r \in Links /\ r.data \in Seq(Data) /\ r.ctrl \in Seq(Ctrl) /\ r.retired \in BOOLEAN
      /\ IsInjective(r.data) /\ IsInjective(r.ctrl) /\ Used(r) =< Room
      /\ r.until \in Nat \cup {None} /\ r.blockers \in SUBSET Gens
  BY LinkFields DEF Fine
<1>1. Own(r) = Queued(r) /\ (Queued(r) = {} => r.data = <<>> /\ r.ctrl = <<>>)
      /\ Queued(r) \subseteq Packets /\ None \notin Packets
  BY <1>0, OwnIs DEF Own
<1>2. /\ NextExpiry(r) \in Nat \cup {None}
      /\ NextExpiry(r) # None => now =< NextExpiry(r)
      /\ \A p \in Queued(r) :
           Expiry[p] > Horizon \/ (NextExpiry(r) # None /\ NextExpiry(r) =< Expiry[p])
  BY <1>0, NextExpiryIs
\* Only the fields that say what it waits for change.
<1>3. ASSUME NEW n \in Links, n.data = r.data, n.ctrl = r.ctrl, n.air = None
      PROVE  Fine(n) /\ Own(n) = Queued(r) /\ Queued(n) = Queued(r)
  <2>1. Queued(n) = Queued(r) /\ Used(n) = Used(r)
    BY <1>3 DEF Queued, Used
  <2> QED
    BY <1>0, <1>1, <1>3, <2>1 DEF Fine, Own
<1>4. CASE Queued(r) = {}
  <2> DEFINE f == IF r.retired THEN "ended" ELSE "wake"
  <2>1. m = [r EXCEPT !.phase = f]
    BY <1>4 DEF Served
  <2>2. f \in Phases
    BY DEF Phases
  <2> HIDE DEF m, f
  <2>3. /\ m \in Links /\ m.data = r.data /\ m.ctrl = r.ctrl /\ m.air = None /\ m.phase = f
        /\ m.dir = r.dir /\ m.peer = r.peer /\ m.retired = r.retired
    BY <1>0, <2>1, <2>2 DEF Links
  <2>4. Fine(m) /\ Own(m) = Queued(r) /\ Queued(m) = Queued(r)
    BY <1>3, <2>3
  <2> QED
    BY <1>4, <2>3, <2>4 DEF f, m
<1>5. CASE Queued(r) # {} /\ OlderBusy(g) # {}
  <2>1. m = [r EXCEPT !.phase = "gate", !.blockers = OlderBusy(g), !.until = NextExpiry(r)]
    BY <1>5 DEF Served
  <2>2. OlderBusy(g) \in SUBSET Gens /\ "gate" \in Phases
    BY DEF OlderBusy, Phases, Sound, Numbered
  <2> HIDE DEF m
  <2>3. /\ m \in Links /\ m.data = r.data /\ m.ctrl = r.ctrl /\ m.air = None /\ m.phase = "gate"
        /\ m.dir = r.dir /\ m.peer = r.peer /\ m.retired = r.retired
        /\ m.until = NextExpiry(r) /\ m.blockers = OlderBusy(g)
    BY <1>0, <1>2, <2>1, <2>2 DEF Links
  <2>4. Fine(m) /\ Own(m) = Queued(r) /\ Queued(m) = Queued(r)
    BY <1>3, <2>3
  <2>5. Covered(m)
    BY <1>2, <2>3, <2>4 DEF Covered
  <2> QED
    BY <1>5, <2>3, <2>4, <2>5 DEF m
<1>6. CASE Queued(r) # {} /\ OlderBusy(g) = {} /\ ~ Available(r)
  <2>1. m = [r EXCEPT !.phase = "down", !.until = NextExpiry(r)]
    BY <1>6 DEF Served
  <2>2. "down" \in Phases
    BY DEF Phases
  <2> HIDE DEF m
  <2>3. /\ m \in Links /\ m.data = r.data /\ m.ctrl = r.ctrl /\ m.air = None /\ m.phase = "down"
        /\ m.dir = r.dir /\ m.peer = r.peer /\ m.retired = r.retired /\ m.until = NextExpiry(r)
    BY <1>0, <1>2, <2>1, <2>2 DEF Links
  <2>4. Fine(m) /\ Own(m) = Queued(r) /\ Queued(m) = Queued(r)
    BY <1>3, <2>3
  <2>5. Covered(m)
    BY <1>2, <2>3, <2>4 DEF Covered
  <2> QED
    BY <1>6, <2>3, <2>4, <2>5 DEF m
<1>7. now + TxTime \in Nat \cup {None} /\ "tx" \in Phases
  BY SizesAssumption DEF Phases
<1>8. Range(r.data) \cap Range(r.ctrl) = {}
  BY <1>0, Members, PacketsAssumption
<1>9. CASE Queued(r) # {} /\ OlderBusy(g) = {} /\ Available(r) /\ r.ctrl # <<>>
  <2> DEFINE p == Head(r.ctrl)
             c == Tail(r.ctrl)
             t == now + TxTime
  <2>1. m = [r EXCEPT !.phase = "tx", !.air = p, !.ctrl = c, !.until = t]
    BY <1>9 DEF Served
  <2>2. /\ c \in Seq(Ctrl) /\ Len(c) = Len(r.ctrl) - 1 /\ p \in Ctrl /\ p \in Range(r.ctrl)
        /\ IsInjective(c) /\ Range(c) = Range(r.ctrl) \ {p}
    BY <1>0, <1>9, TakenHead
  <2> HIDE DEF m, p, c, t
  <2>3. p \in Packets /\ t \in Nat \cup {None}
    BY <2>2, <1>7 DEF Packets, t
  <2>4. /\ m \in Links /\ m.data = r.data /\ m.ctrl = c /\ m.air = p /\ m.phase = "tx"
        /\ m.dir = r.dir /\ m.peer = r.peer /\ m.retired = r.retired
    BY <1>0, <1>7, <2>1, <2>2, <2>3 DEF Links
  <2>5. Queued(m) = Queued(r) \ {p}
    BY <1>8, <2>2, <2>4 DEF Queued
  <2>6. Used(m) =< Room
    <3> DEFINE x == Len(r.data)
               y == Len(r.ctrl)
    <3>1. x \in Nat /\ y \in Nat
      BY <1>0, LenProperties
    <3>2. Used(r) = x + y /\ Used(m) = x + (y - 1) /\ Used(r) =< Room /\ Room \in Nat
      BY <1>0, <2>2, <2>4, SizesAssumption DEF Used
    <3> HIDE DEF x, y
    <3> QED
      BY <3>1, <3>2
  <2>7. Fine(m) /\ Own(m) = Queued(r)
    <3>1. p # None /\ p \in Queued(r)
      BY <1>1, <2>2, <2>3 DEF Queued
    <3> QED
      BY <1>0, <2>2, <2>4, <2>5, <2>6, <3>1 DEF Fine, Own
  <2> QED
    BY <1>9, <2>4, <2>7 DEF m
<1>10. CASE Queued(r) # {} /\ OlderBusy(g) = {} /\ Available(r) /\ r.ctrl = <<>>
  <2> DEFINE p == Head(r.data)
             c == Tail(r.data)
             t == now + TxTime
  <2>1. m = [r EXCEPT !.phase = "tx", !.air = p, !.data = c, !.until = t]
    BY <1>10 DEF Served
  <2>0. r.data # <<>>
    <3>1. Range(<<>>) = {}
      BY EmptyQueue
    <3> QED
      BY <3>1, <1>10 DEF Queued
  <2>2. /\ c \in Seq(Data) /\ Len(c) = Len(r.data) - 1 /\ p \in Data /\ p \in Range(r.data)
        /\ IsInjective(c) /\ Range(c) = Range(r.data) \ {p}
    BY <1>0, <2>0, TakenHead
  <2> HIDE DEF m, p, c, t
  <2>3. p \in Packets /\ t \in Nat \cup {None}
    BY <2>2, <1>7 DEF Packets, t
  <2>4. /\ m \in Links /\ m.data = c /\ m.ctrl = r.ctrl /\ m.air = p /\ m.phase = "tx"
        /\ m.dir = r.dir /\ m.peer = r.peer /\ m.retired = r.retired
    BY <1>0, <1>7, <2>1, <2>2, <2>3 DEF Links
  <2>5. Queued(m) = Queued(r) \ {p}
    BY <1>8, <2>2, <2>4 DEF Queued
  <2>6. Used(m) =< Room
    <3> DEFINE x == Len(r.data)
               y == Len(r.ctrl)
    <3>1. x \in Nat /\ y \in Nat
      BY <1>0, LenProperties
    <3>2. Used(r) = x + y /\ Used(m) = (x - 1) + y /\ Used(r) =< Room /\ Room \in Nat
      BY <1>0, <2>2, <2>4, SizesAssumption DEF Used
    <3> HIDE DEF x, y
    <3> QED
      BY <3>1, <3>2
  <2>7. Fine(m) /\ Own(m) = Queued(r)
    <3>1. p # None /\ p \in Queued(r)
      BY <1>1, <2>2, <2>3 DEF Queued
    <3> QED
      BY <1>0, <2>2, <2>4, <2>5, <2>6, <3>1 DEF Fine, Own
  <2> QED
    BY <1>10, <2>4, <2>7 DEF m
<1> QED
  BY <1>4, <1>5, <1>6, <1>9, <1>10

-----------------------------------------------------------------------------
(* Steps that change one generation, and the holding queue with it.        *)

\* Packets move between the generation g, the holding queue and the outside.
LEMMA ApartMoves ==
  ASSUME Typed, Apart, LiveAre, NEW g \in Gens, NEW l, Fine(l),
         link' = [link EXCEPT ![g] = l],
         IsInjective(hold'), Len(hold') =< HoldRoom, Own(l) \cap Range(hold') = {},
         \A p \in Own(l) \cup Range(hold') :
           p \in Own(link[g]) \/ p \in Range(hold) \/ (p \in Packets /\ fate[p] # "live"),
         \A p \in Packets : fate'[p] = "live" <=>
           \/ p \in Own(l) \/ p \in Range(hold')
           \/ fate[p] = "live" /\ p \notin Own(link[g]) /\ p \notin Range(hold)
  PROVE  Apart' /\ LiveAre'
<1>1. \A h \in Gens : link'[h] = IF h = g THEN l ELSE link[h]
  BY DEF Typed
<1>2. \A h \in Gens : Own(link[h]) \subseteq Packets
  BY OwnIs DEF Apart, Fine
<1>3. ASSUME NEW h \in Gens, h # g
      PROVE  Own(link[h]) \cap Own(l) = {} /\ Own(link[h]) \cap Range(hold') = {}
  <2> SUFFICES ASSUME NEW p \in Own(link[h]) PROVE p \notin Own(l) /\ p \notin Range(hold')
    OBVIOUS
  <2>1. p \notin Own(link[g]) /\ p \notin Range(hold)
    BY <1>3 DEF Apart
  <2>2. p \in Packets /\ fate[p] = "live"
    BY <1>2 DEF LiveAre
  <2> QED
    BY <2>1, <2>2
<1>4. Apart'
  <2>1. ASSUME NEW h \in Gens
        PROVE  Fine(link'[h]) /\ Own(link'[h]) \cap Range(hold') = {}
    BY <1>1, <1>3 DEF Apart
  <2>2. ASSUME NEW h \in Gens, NEW k \in Gens, h # k
        PROVE  Own(link'[h]) \cap Own(link'[k]) = {}
    <3>1. CASE h = g
      BY <1>1, <1>3, <2>2, <3>1
    <3>2. CASE k = g
      BY <1>1, <1>3, <2>2, <3>2
    <3>3. CASE h # g /\ k # g
      BY <1>1, <2>2, <3>3 DEF Apart
    <3> QED
      BY <3>1, <3>2, <3>3
  <2>3. \A h \in Gens : Fine(link'[h]) <=> Fine(link[h])'
    BY DEF Fine, Queued, Used
  <2>4. \A h \in Gens : Own(link'[h]) = Own(link[h])'
    BY DEF Own, Queued
  <2> QED
    BY <2>1, <2>2, <2>3, <2>4 DEF Apart
<1>5. LiveAre'
  <2> SUFFICES ASSUME NEW p \in Packets
               PROVE  fate'[p] = "live" <=>
                        p \in Range(hold') \/ \E h \in Gens : p \in Own(link'[h])
    BY DEF LiveAre, Own, Queued
  <2>1. fate[p] = "live" <=> p \in Range(hold) \/ \E h \in Gens : p \in Own(link[h])
    BY DEF LiveAre
  <2>2. (\E h \in Gens : p \in Own(link'[h])) <=>
           p \in Own(l) \/ \E h \in Gens : h # g /\ p \in Own(link[h])
    BY <1>1
  <2>3. \A h \in Gens : h # g /\ p \in Own(link[h]) => p \notin Own(link[g]) /\ p \notin Range(hold)
    BY DEF Apart
  <2> QED
    BY <2>1, <2>2, <2>3
<1> QED
  BY <1>4, <1>5

LEMMA StandsMoves ==
  ASSUME Numbered, Typed, Standing, Waits, UNCHANGED <<now, isls, seq>>, retired' \subseteq retired,
         NEW g \in Gens, ~ (g >= seq), NEW l \in Links, link' = [link EXCEPT ![g] = l],
         l.dir = link[g].dir, l.retired = link[g].retired,
         g \in retired' => ~ Drained(l),
         l.phase \in {"unborn", "ended"} => l.retired,
         Waiting(g, l)
  PROVE  Standing' /\ Waits'
<1>1. \A h \in Gens : link'[h] = IF h = g THEN l ELSE link[h]
  BY DEF Typed
<1>2. \A h \in Gens : link'[h].dir = link[h].dir /\ link'[h].retired = link[h].retired
  BY <1>1
<1>3. Standing'
  <2>1. ASSUME NEW d \in Dirs, isls'[d] # None, isls[d] \in Gens
        PROVE  ~ link'[isls'[d]].retired /\ link'[isls'[d]].phase \notin {"unborn", "ended"}
    BY <1>1, <1>2, <2>1 DEF Standing
  <2>2. ASSUME NEW h \in retired', h \in Gens
        PROVE  link'[h].retired /\ link'[h].dir \in Dirs /\ ~ Drained(link'[h])
    BY <1>1, <1>2, <2>2 DEF Standing
  <2>3. ASSUME NEW h \in Gens, h >= seq'
        PROVE  link'[h] = Unborn
    BY <1>1, <2>3 DEF Standing
  <2>4. \A d \in Dirs : isls[d] # None => isls[d] \in Gens
    BY DEF Numbered
  <2> QED
    BY <2>1, <2>2, <2>3, <2>4 DEF Standing, Drained
<1>4. Waits'
  <2> SUFFICES ASSUME NEW h \in Gens PROVE Waiting(h, link[h])'
    BY DEF Waits
  <2>1. Waiting(h, link'[h])
    BY <1>1 DEF Waits
  <2>2. link'[h] \in Links
    BY <1>1 DEF Typed
  <2>3. \A k \in link'[h].blockers : link'[k].dir = link[k].dir
    BY <1>2, <2>2, LinkFields
  <2> QED
    BY <2>1, <2>3 DEF Waiting, Covered, Queued
<1> QED
  BY <1>3, <1>4

\* Steps that leave the links, the packets, the clock and the lists alone.
LEMMA SlotsStay ==
  ASSUME Apart, LiveAre, Standing, Waits, UNCHANGED <<now, link, isls, seq, retired, hold, fate>>
  PROVE  Apart' /\ LiveAre' /\ Standing' /\ Waits'
<1>1. Apart' /\ LiveAre'
  BY DEF Apart, LiveAre, Fine, Own, Queued, Used
<1>2. Standing' /\ Waits'
  BY DEF Standing, Waits, Waiting, Covered, Queued, Drained
<1> QED
  BY <1>1, <1>2

LEMMA CountsAreNatural ==
  ASSUME Numbered
  PROVE  /\ IsFiniteSet(Gens) /\ Live \subseteq Gens /\ IsFiniteSet(Live) /\ IsFiniteSet(retired)
         /\ Cardinality(Live) \in Nat /\ Cardinality(retired) \in Nat
<1>1. IsFiniteSet(Gens)
  BY SizesAssumption, FS_Interval DEF Gens
<1>2. Live \in SUBSET Gens /\ retired \in SUBSET Gens
  BY DEF Live, Numbered
<1>3. IsFiniteSet(Live) /\ IsFiniteSet(retired)
  BY <1>1, <1>2, FS_Subset
<1> QED
  BY <1>1, <1>2, <1>3, FS_CardinalityType

\* Reclaiming keeps the count exact.
LEMMA PurgeCounts ==
  ASSUME Numbered, drains \in Nat, endpoints \in Nat,
         EntitiesExact, EntityCap, UNCHANGED <<isls, seq, endpoints>>,
         Purge \/ UNCHANGED <<retired, drains>>
  PROVE  drains' \in Nat /\ EntitiesExact' /\ EntityCap'
<1>1. CASE UNCHANGED <<retired, drains>>
  BY <1>1 DEF EntitiesExact, EntityCap, LiveEntities, Live
<1>2. CASE Purge
  <2> DEFINE gone == {h \in retired : Drained(link'[h])}
  <2>1. retired' = retired \ gone /\ drains' = drains + Cardinality(gone)
    BY <1>2 DEF Purge
  <2>2. IsFiniteSet(retired) /\ gone \in SUBSET retired /\ retired \cap gone = gone
    BY CountsAreNatural
  <2> HIDE DEF gone
  <2>3. /\ Cardinality(retired) \in Nat /\ Cardinality(gone) \in Nat
        /\ Cardinality(retired \ gone) = Cardinality(retired) - Cardinality(gone)
    <3>1. IsFiniteSet(gone)
      BY <2>2, FS_Subset
    <3> QED
      BY <2>2, <3>1, FS_CardinalityType, FS_Difference
  <2>4. Live' = Live
    BY DEF Live
  <2>5. MaxEntities \in Nat
    BY SizesAssumption
  <2> DEFINE a == Cardinality(retired)
             b == Cardinality(gone)
             c == Cardinality(Live)
  <2>6. /\ seq + endpoints - drains = endpoints + c + a
        /\ seq + endpoints - drains =< MaxEntities
    BY DEF EntitiesExact, EntityCap, LiveEntities
  <2>7. /\ Cardinality(retired') = a - b /\ drains' = drains + b /\ Cardinality(Live') = c
        /\ a \in Nat /\ b \in Nat
    BY <2>1, <2>3, <2>4
  <2> HIDE DEF a, b, c
  <2>8. c \in Nat /\ seq \in Nat
    BY CountsAreNatural DEF c, Numbered
  <2>9. drains' \in Nat
    BY <2>7
  <2>10. seq + endpoints - (drains + b) = endpoints + c + (a - b)
    BY <2>6, <2>7, <2>8
  <2>11. seq + endpoints - (drains + b) =< MaxEntities
    BY <2>5, <2>6, <2>7, <2>8
  <2> QED
    BY <2>7, <2>9, <2>10, <2>11 DEF EntitiesExact, EntityCap, LiveEntities
<1> QED
  BY <1>1, <1>2

\* The process of a generation runs: its packets leave or stay its own.
LEMMA RunServerSlots == ASSUME Slots, NEW g \in Gens, RunServer(g), Sound' PROVE Slots'
<1>1. Numbered /\ Typed /\ Apart /\ LiveAre /\ Standing /\ Waits
  BY DEF Slots, Sound
<1>2. /\ now \in Nat /\ retired \subseteq Gens /\ link[g] \in Links /\ Fine(link[g])
      /\ seq \in Nat /\ drains \in Nat /\ endpoints \in Nat
  BY <1>1, SizesAssumption DEF Typed, Apart, Numbered
<1>3. PICK data \in Remains(link[g].data, Packets \ Outlived),
           ctrl \in Remains(link[g].ctrl, Packets \ Outlived) :
        link' = [link EXCEPT ![g] = Served(g, Resumed(link[g], data, ctrl))]
  BY DEF RunServer
<1> DEFINE r == Resumed(link[g], data, ctrl)
           m == Served(g, r)
<1>4. /\ Fine(r) /\ Queued(r) = Queued(link[g]) \ Outlived /\ r.air = None
      /\ r.dir = link[g].dir /\ r.retired = link[g].retired
  BY <1>2, ResumedFine
<1>5. \A p \in Queued(r) : ~ Expired(p)
  BY <1>2, <1>4, OwnIs DEF Outlived
<1> HIDE DEF r
<1>6. /\ Fine(m) /\ Own(m) = Queued(r)
      /\ m.dir = r.dir /\ m.retired = r.retired
      /\ m.phase \in {"ended", "wake", "gate", "down", "tx"}
      /\ m.phase = "ended" => r.retired
      /\ Queued(r) = {} /\ r.retired => m.phase = "ended"
      /\ m.phase \in {"ended", "wake"} => Queued(m) = {}
      /\ m.phase \in {"gate", "down"} => Covered(m)
      /\ m.phase = "gate" => m.blockers = OlderBusy(g)
  BY <1>2, <1>4, <1>5, ServedFine
<1>7. link' = [link EXCEPT ![g] = m]
  BY <1>3 DEF r
<1> HIDE DEF m
<1>8. m \in Links /\ Own(link[g]) \subseteq Packets /\ None \notin Packets
  BY <1>2, <1>6, OwnIs DEF Fine
<1>9. /\ UNCHANGED <<now, reach, isls, seq, endpoints, hold, raised, due>>
      /\ fate' = [p \in Packets |->
                    IF p = link[g].air THEN ServiceFate(link[g])
                    ELSE IF p \in Queued(link[g]) /\ Expired(p) THEN "expired" ELSE fate[p]]
      /\ IF Purges(g) THEN Purge ELSE UNCHANGED <<retired, drains>>
  BY DEF RunServer
<1>10. ServiceFate(link[g]) \in {"sent", "lost", "expired"}
  BY DEF ServiceFate
<1>11. Apart' /\ LiveAre'
  <2>1. \A p \in Packets : p \in Own(m) <=> p \in Queued(link[g]) /\ ~ Expired(p)
    BY <1>4, <1>6 DEF Outlived
  <2>2. Own(m) \subseteq Own(link[g])
    BY <1>4, <1>6 DEF Own
  <2>3. IsInjective(hold') /\ Len(hold') =< HoldRoom /\ Own(m) \cap Range(hold') = {}
    BY <1>1, <1>9, <2>2 DEF Apart
  <2>4. link[g].air \notin Queued(link[g])
    BY <1>2 DEF Fine
  <2>5. ASSUME NEW p \in Packets
        PROVE  fate'[p] = "live" <=>
                 \/ p \in Own(m) \/ p \in Range(hold')
                 \/ fate[p] = "live" /\ p \notin Own(link[g]) /\ p \notin Range(hold)
    <3>1. fate'[p] = IF p = link[g].air THEN ServiceFate(link[g])
                     ELSE IF p \in Queued(link[g]) /\ Expired(p) THEN "expired" ELSE fate[p]
      BY <1>9
    <3>2. fate[p] = "live" <=> p \in Range(hold) \/ \E h \in Gens : p \in Own(link[h])
      BY <1>1 DEF LiveAre
    <3>3. p \in Own(link[g]) <=> p \in Queued(link[g]) \/ p = link[g].air
      BY <1>8 DEF Own
    <3>4. p \in Own(link[g]) => p \notin Range(hold)
      BY <1>1 DEF Apart
    <3>5. p \in Range(hold') <=> p \in Range(hold)
      BY <1>9
    <3> QED
      BY <3>1, <3>2, <3>3, <3>4, <3>5, <2>1, <2>4, <1>10
  <2>6. \A p \in Own(m) \cup Range(hold') : p \in Own(link[g]) \/ p \in Range(hold)
    BY <2>2, <1>9
  <2> QED
    BY <1>1, <1>6, <1>7, <2>3, <2>5, <2>6, ApartMoves
<1>12. Standing' /\ Waits'
  <2>1. ~ (g >= seq)
    <3>1. Unborn.phase = "unborn"
      BY DEF Unborn
    <3>2. link[g].phase # "unborn"
      BY DEF RunServer, Resumable
    <3> QED
      BY <1>1, <3>1, <3>2 DEF Standing
  <2>2. retired' \subseteq retired
    BY <1>9 DEF Purge
  <2>3. ASSUME g \in retired' PROVE ~ Drained(m)
    <3>1. SUFFICES ASSUME Drained(m) PROVE FALSE
      OBVIOUS
    <3>2. Queued(r) = {}
      BY <1>6, <1>8, <3>1, OwnIs
    <3>3. r.retired
      BY <1>1, <1>4, <2>2, <2>3 DEF Standing
    <3>4. link'[g] = m
      BY <1>1, <1>7 DEF Typed
    <3>5. link'[g].phase = "ended"
      BY <1>6, <3>2, <3>3, <3>4
    <3>6. Purge
      BY <1>9, <3>5 DEF Purges
    <3> QED
      BY <2>3, <3>1, <3>4, <3>6 DEF Purge
  <2>4. Waiting(g, m)
    <3>1. ASSUME m.phase = "gate", NEW h \in m.blockers
          PROVE  h < g /\ link[h].dir = m.dir /\ m.dir \in Dirs
      BY <1>1, <1>4, <1>6, <3>1 DEF OlderBusy, Standing
    <3> QED
      BY <1>6, <3>1 DEF Waiting
  <2> QED
    BY <1>1, <1>4, <1>6, <1>7, <1>8, <1>9, <2>1, <2>2, <2>3, <2>4, StandsMoves
<1>13. drains' \in Nat /\ EntitiesExact' /\ EntityCap'
  BY <1>1, <1>2, <1>9, PurgeCounts DEF Slots
<1>14. Typed'
  <2>1. link' \in [Gens -> Links]
    BY <1>1, <1>7, <1>8 DEF Typed
  <2>2. fate' \in [Packets -> {"new", "live", "sent", "lost", "expired", "overflow"}]
    BY <1>1, <1>9, <1>10 DEF Typed
  <2> QED
    BY <1>1, <1>9, <1>13, <2>1, <2>2 DEF Typed
<1> QED
  BY <1>11, <1>12, <1>13, <1>14 DEF Slots

\* A control packet that is offered is queued and wakes the server, or is lost.
LEMMA PutCtrlSlots ==
  ASSUME Slots, NEW d \in Dirs, NEW p \in Ctrl, PutCtrl(d, p), Sound' PROVE Slots'
<1> DEFINE g == isls[d]
           m == WithCtrl(link[g], p)
<1>1. Numbered /\ Typed /\ Apart /\ LiveAre /\ Standing /\ Waits /\ CurrentIsNewest
  BY DEF Slots, Sound
<1>2. g \in Gens /\ ~ (g >= seq) /\ g # None
  <2>1. isls[d] # None /\ isls[d] \in Gens /\ isls[d] < seq /\ seq \in Nat
    BY <1>1 DEF PutCtrl, Numbered, CurrentIsNewest
  <2>2. isls[d] \in Nat
    BY <2>1, SizesAssumption DEF Gens
  <2> QED
    BY <2>1, <2>2
<1> HIDE DEF g
<1>3. Fine(link[g]) /\ link[g] \in Links /\ Waiting(g, link[g])
  BY <1>1, <1>2 DEF Apart, Fine, Waits
<1>4. p \in Packets /\ fate[p] = "new"
  BY DEF Packets, PutCtrl
<1>5. p \notin Range(hold) /\ \A h \in Gens : p \notin Own(link[h])
  BY <1>1, <1>4 DEF LiveAre
<1>6. fate \in [Packets -> {"new", "live", "sent", "lost", "expired", "overflow"}]
  BY <1>1 DEF Typed
<1>7. CASE link' = link /\ fate' = [fate EXCEPT ![p] = "overflow"]
  <2>1. Apart' /\ LiveAre'
    <3>1. Apart'
      BY <1>1, <1>7 DEF Apart, Fine, Own, Queued, Used, PutCtrl
    <3>2. \A q \in Packets : fate'[q] = "live" <=> fate[q] = "live"
      BY <1>4, <1>6, <1>7
    <3> QED
      BY <1>1, <1>7, <3>1, <3>2 DEF LiveAre, Own, Queued, PutCtrl
  <2>2. Standing' /\ Waits'
    BY <1>1, <1>7 DEF Standing, Waits, Waiting, Covered, Queued, Drained, PutCtrl
  <2>3. Typed' /\ EntitiesExact' /\ EntityCap'
    <3>1. fate' \in [Packets -> {"new", "live", "sent", "lost", "expired", "overflow"}]
      BY <1>6, <1>7
    <3> QED
      BY <1>1, <1>7, <3>1
      DEF Typed, Slots, EntitiesExact, EntityCap, LiveEntities, Live, PutCtrl
  <2> QED
    BY <2>1, <2>2, <2>3 DEF Slots
<1>8. CASE HasRoom(link[g]) /\ link' = [link EXCEPT ![g] = m] /\ fate' = [fate EXCEPT ![p] = "live"]
  <2>1. /\ Fine(m) /\ Own(m) = Own(link[g]) \cup {p} /\ m.poked
        /\ m.dir = link[g].dir /\ m.peer = link[g].peer /\ m.retired = link[g].retired
        /\ m.phase = link[g].phase /\ m.air = link[g].air /\ m.blockers = link[g].blockers
    BY <1>2, <1>3, <1>5, <1>8, WithCtrlFine
  <2> HIDE DEF m
  <2>2. m \in Links
    BY <2>1 DEF Fine
  <2>3. UNCHANGED <<now, reach, isls, retired, seq, drains, endpoints, hold, raised, due>>
    BY DEF PutCtrl
  <2>4. Apart' /\ LiveAre'
    <3>1. IsInjective(hold') /\ Len(hold') =< HoldRoom /\ Own(m) \cap Range(hold') = {}
      BY <1>1, <1>2, <1>5, <2>1, <2>3 DEF Apart
    <3>2. ASSUME NEW q \in Packets
          PROVE  fate'[q] = "live" <=>
                   \/ q \in Own(m) \/ q \in Range(hold')
                   \/ fate[q] = "live" /\ q \notin Own(link[g]) /\ q \notin Range(hold)
      <4>1. fate'[q] = IF q = p THEN "live" ELSE fate[q]
        BY <1>6, <1>8
      <4>2. fate[q] = "live" <=> q \in Range(hold) \/ \E h \in Gens : q \in Own(link[h])
        BY <1>1 DEF LiveAre
      <4> QED
        BY <1>2, <2>1, <2>3, <4>1, <4>2
    <3>3. \A q \in Own(m) \cup Range(hold') :
            q \in Own(link[g]) \/ q \in Range(hold) \/ (q \in Packets /\ fate[q] # "live")
      BY <1>4, <2>1, <2>3
    <3> QED
      BY <1>1, <1>2, <1>8, <2>1, <3>1, <3>2, <3>3, ApartMoves
  <2>5. Standing' /\ Waits'
    <3>1. m.phase \notin {"unborn", "ended"}
      BY <1>1, <2>1, <1>2 DEF Standing, g
    <3>2. g \in retired => ~ Drained(m)
      BY <1>5, <2>1, <2>2, OwnIs
    <3>3. Waiting(g, m)
      BY <1>3, <2>1, <3>1 DEF Waiting
    <3> QED
      BY <1>1, <1>2, <1>8, <2>1, <2>2, <2>3, <3>1, <3>2, <3>3, StandsMoves
  <2>6. Typed' /\ EntitiesExact' /\ EntityCap'
    <3>1. fate' \in [Packets -> {"new", "live", "sent", "lost", "expired", "overflow"}]
      BY <1>6, <1>8
    <3>2. link' \in [Gens -> Links]
      BY <1>1, <1>8, <2>2 DEF Typed
    <3> QED
      BY <1>1, <2>3, <3>1, <3>2
      DEF Typed, Slots, EntitiesExact, EntityCap, LiveEntities, Live
  <2> QED
    BY <2>4, <2>5, <2>6 DEF Slots
<1> QED
  BY <1>7, <1>8 DEF PutCtrl, g

\* Steps that leave the links alone and change the holding queue and a fate.
LEMMA HoldSlots ==
  ASSUME Slots, UNCHANGED <<now, reach, link, isls, retired, seq, drains, endpoints, raised, due>>,
         hold' \in Seq(Data), IsInjective(hold'), Len(hold') =< HoldRoom,
         fate' \in [Packets -> {"new", "live", "sent", "lost", "expired", "overflow"}],
         \A p \in Range(hold') : p \in Range(hold) \/ (p \in Packets /\ fate[p] # "live"),
         \A p \in Packets : fate'[p] = "live" <=>
           p \in Range(hold') \/ (fate[p] = "live" /\ p \notin Range(hold)),
         Sound'
  PROVE  Slots'
<1>1. Typed /\ Apart /\ LiveAre /\ Standing /\ Waits
  BY DEF Slots
<1>2. 0 \in Gens
  BY SizesAssumption DEF Gens
<1>3. Fine(link[0]) /\ link' = [link EXCEPT ![0] = link[0]]
  BY <1>1, <1>2 DEF Apart, Typed
<1>4. Own(link[0]) \cap Range(hold') = {}
  BY <1>1, <1>2, OwnIs DEF Apart, LiveAre, Fine
<1>5. \A p \in Packets : p \in Own(link[0]) => fate[p] = "live"
  BY <1>1, <1>2 DEF LiveAre
<1>6. \A p \in Own(link[0]) : p \notin Range(hold)
  BY <1>1, <1>2 DEF Apart
<1>7. Apart' /\ LiveAre'
  <2>1. ASSUME NEW p \in Packets
        PROVE  fate'[p] = "live" <=>
                 \/ p \in Own(link[0]) \/ p \in Range(hold')
                 \/ fate[p] = "live" /\ p \notin Own(link[0]) /\ p \notin Range(hold)
    BY <1>5, <1>6
  <2>2. \A p \in Own(link[0]) \cup Range(hold') :
          p \in Own(link[0]) \/ p \in Range(hold) \/ (p \in Packets /\ fate[p] # "live")
    OBVIOUS
  <2> QED
    BY <1>1, <1>2, <1>3, <1>4, <2>1, <2>2, ApartMoves
<1>8. Standing' /\ Waits'
  BY <1>1 DEF Standing, Waits, Waiting, Covered, Queued, Drained
<1>9. Typed' /\ EntitiesExact' /\ EntityCap'
  BY <1>1 DEF Typed, Slots, EntitiesExact, EntityCap, LiveEntities, Live
<1> QED
  BY <1>7, <1>8, <1>9 DEF Slots

\* A data packet that arrives or is held is forwarded, held or failed.
LEMMA DecideSlots ==
  ASSUME Slots, NEW p \in Data, NEW cands, Decide(p, cands), Sound' PROVE Slots'
<1>1. Numbered /\ Typed /\ Apart /\ LiveAre /\ Standing /\ Waits /\ CurrentIsNewest
  BY DEF Slots, Sound
<1>2. PICK rest \in Remains(hold, Packets \ {p}) :
        \/ /\ fate' = [fate EXCEPT ![p] = IF Expired(p) THEN "expired" ELSE "overflow"]
           /\ hold' = rest /\ UNCHANGED link
        \/ \E d \in Legal(cands) :
             /\ link' = [link EXCEPT ![isls[d]] = WithData(link[isls[d]], p)]
             /\ fate' = [fate EXCEPT ![p] = "live"]
             /\ hold' = rest
        \/ /\ IF Len(rest) < HoldRoom
              THEN hold' = Append(rest, p) /\ fate' = [fate EXCEPT ![p] = "live"]
              ELSE hold' = rest /\ fate' = [fate EXCEPT ![p] = "overflow"]
           /\ UNCHANGED link
  <2> HIDE DEF Legal, Up, Expired, WithData
  <2> QED
    BY Zenon DEF Decide
<1>3. UNCHANGED <<now, reach, isls, retired, seq, drains, endpoints, raised, due>>
  BY DEF Decide
<1>4. /\ hold \in Seq(Data) /\ Len(hold) \in Nat /\ Range(hold) \subseteq Data
      /\ fate \in [Packets -> {"new", "live", "sent", "lost", "expired", "overflow"}]
      /\ IsInjective(hold) /\ Len(hold) =< HoldRoom /\ HoldRoom \in Nat
  BY <1>1, Members, SizesAssumption DEF Typed, Apart
<1>5. p \in Packets /\ Data \subseteq Packets
  BY DEF Packets
<1>6. /\ rest \in Seq(Data) /\ Len(rest) =< Len(hold) /\ IsInjective(rest)
      /\ Len(rest) \in Nat /\ Range(rest) = Range(hold) \ {p}
  <2>1. /\ rest \in Seq(Data) /\ Len(rest) =< Len(hold) /\ IsInjective(rest)
        /\ Range(rest) = Range(hold) \cap (Packets \ {p})
    BY <1>4, Remaining
  <2> QED
    BY <1>4, <1>5, <2>1, LenProperties
<1>7. Len(rest) =< HoldRoom
  BY <1>4, <1>6
\* The packet is nowhere else.
<1>8. (fate[p] = "new" \/ p \in Range(hold)) /\ \A h \in Gens : p \notin Own(link[h])
  <2>1. fate[p] = "new" \/ p \in Range(hold)
    BY DEF Decide
  <2> QED
    BY <1>1, <1>5, <2>1 DEF Apart, LiveAre
<1>9. ASSUME NEW f \in {"expired", "overflow"},
             fate' = [fate EXCEPT ![p] = f], hold' = rest, UNCHANGED link
      PROVE  Slots'
  <2>1. \A q \in Packets : fate'[q] = IF q = p THEN f ELSE fate[q]
    BY <1>4, <1>9
  <2>2. fate' \in [Packets -> {"new", "live", "sent", "lost", "expired", "overflow"}]
    BY <1>4, <1>9
  <2>3. \A q \in Range(hold) : q \in Packets /\ fate[q] = "live"
    BY <1>1, <1>4, <1>5 DEF LiveAre
  <2>4. ASSUME NEW q \in Packets
        PROVE  fate'[q] = "live" <=> q \in Range(hold') \/ (fate[q] = "live" /\ q \notin Range(hold))
    <3>1. CASE q = p
      BY <1>6, <1>8, <1>9, <2>1, <3>1
    <3>2. CASE q # p
      BY <1>6, <1>9, <2>1, <2>3, <3>2
    <3> QED
      BY <3>1, <3>2
  <2>5. \A q \in Range(hold') : q \in Range(hold)
    BY <1>6, <1>9
  <2> QED
    BY <1>3, <1>6, <1>7, <1>9, <2>2, <2>4, <2>5, HoldSlots
<1>10. ASSUME fate' = [fate EXCEPT ![p] = "live"], hold' = Append(rest, p), Len(rest) < HoldRoom,
              UNCHANGED link
       PROVE  Slots'
  <2>1. \A q \in Packets : fate'[q] = IF q = p THEN "live" ELSE fate[q]
    BY <1>4, <1>10
  <2>2. fate' \in [Packets -> {"new", "live", "sent", "lost", "expired", "overflow"}]
    BY <1>4, <1>10
  <2>3. /\ hold' \in Seq(Data) /\ Len(hold') = Len(rest) + 1 /\ Range(hold') = Range(rest) \cup {p}
        /\ IsInjective(hold')
    BY <1>6, <1>10, Appended
  <2>4. Len(hold') =< HoldRoom
    BY <1>4, <1>6, <1>10, <2>3
  <2>5. \A q \in Range(hold) : q \in Packets /\ fate[q] = "live"
    BY <1>1, <1>4, <1>5 DEF LiveAre
  <2>6. ASSUME NEW q \in Packets
        PROVE  fate'[q] = "live" <=> q \in Range(hold') \/ (fate[q] = "live" /\ q \notin Range(hold))
    <3>1. CASE q = p
      BY <2>1, <2>3, <3>1
    <3>2. CASE q # p
      BY <1>6, <2>1, <2>3, <2>5, <3>2
    <3> QED
      BY <3>1, <3>2
  <2>7. \A q \in Range(hold') : q \in Range(hold) \/ (q \in Packets /\ fate[q] # "live")
    BY <1>5, <1>6, <1>8, <2>3
  <2> QED
    BY <1>3, <1>10, <2>2, <2>3, <2>4, <2>6, <2>7, HoldSlots
<1>11. ASSUME NEW d \in Legal(cands), hold' = rest, fate' = [fate EXCEPT ![p] = "live"],
              link' = [link EXCEPT ![isls[d]] = WithData(link[isls[d]], p)]
       PROVE  Slots'
  <2> DEFINE g == isls[d]
             m == WithData(link[g], p)
  <2>1. d \in Dirs /\ isls[d] # None /\ HasRoom(link[g])
    BY DEF Legal, Up, Decide
  <2>2. g \in Gens /\ ~ (g >= seq)
    <3>1. isls[d] \in Gens /\ isls[d] < seq /\ seq \in Nat
      BY <1>1, <2>1 DEF Numbered, CurrentIsNewest
    <3>2. isls[d] \in Nat
      BY <3>1, SizesAssumption DEF Gens
    <3> QED
      BY <3>1, <3>2
  <2>3. ~ link[g].retired /\ link[g].phase \notin {"unborn", "ended"}
    BY <1>1, <2>1 DEF Standing
  <2>4. link' = [link EXCEPT ![g] = m]
    BY <1>11
  <2> HIDE DEF g
  <2>5. Fine(link[g]) /\ link[g] \in Links /\ Waiting(g, link[g])
    BY <1>1, <2>2 DEF Apart, Fine, Waits
  <2>6. /\ Fine(m) /\ Own(m) = Own(link[g]) \cup {p} /\ m.poked
        /\ m.dir = link[g].dir /\ m.peer = link[g].peer /\ m.retired = link[g].retired
        /\ m.phase = link[g].phase /\ m.air = link[g].air /\ m.blockers = link[g].blockers
    BY <1>8, <2>1, <2>2, <2>5, WithDataFine
  <2> HIDE DEF m
  <2>7. m \in Links
    BY <2>6 DEF Fine
  <2>8. Apart' /\ LiveAre'
    <3>1. IsInjective(hold') /\ Len(hold') =< HoldRoom /\ Own(m) \cap Range(hold') = {}
      BY <1>1, <1>6, <1>7, <1>11, <2>2, <2>6 DEF Apart
    <3>2. ASSUME NEW q \in Packets
          PROVE  fate'[q] = "live" <=>
                   \/ q \in Own(m) \/ q \in Range(hold')
                   \/ fate[q] = "live" /\ q \notin Own(link[g]) /\ q \notin Range(hold)
      <4>1. fate'[q] = IF q = p THEN "live" ELSE fate[q]
        BY <1>4, <1>11
      <4>2. fate[q] = "live" <=> q \in Range(hold) \/ \E h \in Gens : q \in Own(link[h])
        BY <1>1 DEF LiveAre
      <4> QED
        BY <1>6, <1>11, <2>2, <2>6, <4>1, <4>2
    <3>3. \A q \in Own(m) \cup Range(hold') :
            q \in Own(link[g]) \/ q \in Range(hold) \/ (q \in Packets /\ fate[q] # "live")
      BY <1>5, <1>6, <1>8, <1>11, <2>6
    <3> QED
      BY <1>1, <2>2, <2>4, <2>6, <3>1, <3>2, <3>3, ApartMoves
  <2>9. Standing' /\ Waits'
    <3>1. g \in retired => ~ Drained(m)
      BY <2>6, <2>7, OwnIs
    <3>2. Waiting(g, m)
      BY <2>3, <2>5, <2>6 DEF Waiting
    <3> QED
      BY <1>1, <1>3, <2>2, <2>3, <2>4, <2>6, <2>7, <3>1, <3>2, StandsMoves
  <2>10. Typed' /\ EntitiesExact' /\ EntityCap'
    <3>1. fate' \in [Packets -> {"new", "live", "sent", "lost", "expired", "overflow"}]
      BY <1>4, <1>11
    <3>2. link' \in [Gens -> Links]
      BY <1>1, <2>4, <2>7 DEF Typed
    <3>3. hold' \in Seq(Data)
      BY <1>6, <1>11
    <3> QED
      BY <1>1, <1>3, <3>1, <3>2, <3>3
      DEF Typed, Slots, EntitiesExact, EntityCap, LiveEntities, Live
  <2> QED
    BY <2>8, <2>9, <2>10 DEF Slots
<1>12. (IF Expired(p) THEN "expired" ELSE "overflow") \in {"expired", "overflow"}
  OBVIOUS
<1> QED
  BY <1>2, <1>9, <1>10, <1>11, <1>12

\* An endpoint is created while the cap allows it.
LEMMA EnsureEndpointSlots == ASSUME Slots, EnsureEndpoint, Sound' PROVE Slots'
<1>1. /\ UNCHANGED <<now, reach, link, isls, retired, seq, drains, hold, fate, due>>
      /\ endpoints < MaxEndpoints
      /\ \/ raised' = TRUE /\ endpoints' = endpoints
         \/ ~ (LiveEntities >= MaxEntities) /\ endpoints' = endpoints + 1 /\ raised' = raised
  BY DEF EnsureEndpoint
<1>2. Typed /\ Apart /\ LiveAre /\ Standing /\ Waits /\ Numbered
  BY DEF Slots, Sound
<1>3. Apart' /\ LiveAre' /\ Standing' /\ Waits'
  BY <1>1, <1>2, SlotsStay
<1>4. endpoints \in Nat /\ seq \in Nat /\ drains \in Nat /\ MaxEntities \in Nat /\ MaxEndpoints \in Nat
  BY <1>2, SizesAssumption DEF Typed, Numbered
<1>5. endpoints' \in 0 .. MaxEndpoints
  BY <1>1, <1>2, <1>4 DEF Typed
<1>6. Typed'
  BY <1>1, <1>2, <1>5 DEF Typed
<1>7. Cardinality(Live) \in Nat /\ Cardinality(retired) \in Nat
  BY <1>2, CountsAreNatural
<1>8. Live' = Live /\ retired' = retired
  BY <1>1 DEF Live
<1>9. EntitiesExact' /\ EntityCap'
  <2> DEFINE a == Cardinality(Live)
             b == Cardinality(retired)
  <2>1. /\ seq + endpoints - drains = endpoints + a + b
        /\ seq + endpoints - drains =< MaxEntities
    BY DEF EntitiesExact, EntityCap, LiveEntities, Slots
  <2>2. a \in Nat /\ b \in Nat /\ Cardinality(Live') = a /\ Cardinality(retired') = b
    BY <1>7, <1>8
  <2> HIDE DEF a, b
  <2>3. CASE endpoints' = endpoints
    BY <1>1, <2>1, <2>2, <2>3 DEF EntitiesExact, EntityCap, LiveEntities
  <2>4. CASE ~ (LiveEntities >= MaxEntities) /\ endpoints' = endpoints + 1
    <3>1. /\ seq + endpoints' - drains = endpoints' + a + b
          /\ seq + endpoints' - drains =< MaxEntities
      BY <1>4, <2>1, <2>2, <2>4 DEF LiveEntities
    <3> QED
      BY <1>1, <2>2, <3>1 DEF EntitiesExact, EntityCap, LiveEntities
  <2> QED
    BY <1>1, <2>3, <2>4
<1> QED
  BY <1>3, <1>6, <1>9 DEF Slots

\* When no server is scheduled, the clock does not reach a timer it missed.
LEMMA AdvanceSlots == ASSUME Slots, NEW r \in Reaches, Advance(r), Sound' PROVE Slots'
<1>1. /\ UNCHANGED <<link, isls, retired, seq, drains, endpoints, hold, fate, raised>>
      /\ now' = now + 1 /\ now < Horizon /\ reach' = r /\ due' \in BOOLEAN
      /\ \A g \in Gens : ~ Resumable(g)
  BY DEF Advance, Settled
<1>2. Typed /\ Apart /\ LiveAre /\ Standing /\ Waits
  BY DEF Slots
<1>3. now \in Nat /\ Horizon \in Nat /\ now' \in 0 .. Horizon
  BY <1>1, <1>2, SizesAssumption DEF Typed
<1>4. Typed' /\ EntitiesExact' /\ EntityCap'
  BY <1>1, <1>2, <1>3 DEF Typed, Slots, EntitiesExact, EntityCap, LiveEntities, Live
<1>5. Apart' /\ LiveAre' /\ Standing'
  BY <1>1, <1>2 DEF Apart, LiveAre, Standing, Fine, Own, Queued, Used, Drained
<1>6. Waits'
  <2> SUFFICES ASSUME NEW g \in Gens PROVE Waiting(g, link[g])'
    BY DEF Waits
  <2>1. Waiting(g, link[g]) /\ link[g] \in Links
    BY <1>2 DEF Waits, Typed
  <2>2. ASSUME link[g].phase \in {"gate", "down"}
        PROVE  ~ link[g].poked /\ link[g].until # now
    BY <1>1, <2>2 DEF Resumable
  <2>3. link[g].until \in Nat \cup {None}
    BY <2>1, LinkFields
  <2>4. link[g].phase \in {"gate", "down"} => Covered(link[g])'
    BY <1>1, <1>3, <2>1, <2>2, <2>3 DEF Waiting, Covered, Queued
  <2> QED
    BY <1>1, <2>1, <2>4 DEF Waiting, Queued
<1> QED
  BY <1>4, <1>5, <1>6 DEF Slots

-----------------------------------------------------------------------------
(* A rematch.                                                              *)

\* The link of a new direction, and its process about to start.
NewLink(d, w) == [Unborn EXCEPT !.dir = d, !.peer = w[d], !.phase = "run"]

LEMMA NewLinkIs ==
  ASSUME NEW w \in Wirings, NEW d \in Dirs
  PROVE  LET l == NewLink(d, w)
         IN  /\ Fine(l) /\ l \in Links /\ Own(l) = {} /\ Queued(l) = {} /\ Drained(l)
             /\ l.dir = d /\ l.peer = w[d] /\ ~ l.retired /\ l.phase = "run"
<1> DEFINE l == NewLink(d, w)
<1>1. <<>> \in Seq(Data) /\ <<>> \in Seq(Ctrl) /\ Len(<<>>) = 0 /\ Range(<<>>) = {} /\ IsInjective(<<>>)
  BY EmptyQueue
<1>2. w[d] \in Peers \cup {None}
  BY WiringsAssumption
<1>3. /\ l.dir = d /\ l.peer = w[d] /\ l.retired = FALSE /\ l.data = <<>> /\ l.ctrl = <<>>
      /\ l.air = None /\ l.phase = "run"
  BY DEF NewLink, Unborn
<1>4. l \in Links
  BY <1>1, <1>2 DEF NewLink, Unborn, Links, Phases
<1> HIDE DEF l
<1>5. Queued(l) = {} /\ Used(l) = 0 /\ Room \in Nat
  BY <1>1, <1>3, SizesAssumption DEF Queued, Used
<1>6. Used(l) =< Room
  BY <1>5
<1> QED
  BY <1>1, <1>3, <1>4, <1>5, <1>6 DEF l, Fine, Own, Drained

\* What a rematch to the wiring w does to the generations.
Rewired(w, gen) ==
  /\ seq' = seq + Cardinality(Fresh(w)) /\ Cardinality(Fresh(w)) \in Nat
  /\ IsFiniteSet(Fresh(w)) /\ seq' \in 0 .. LastGen + 1
  /\ \A g \in Stale(w) : g \in Live /\ g \in Gens /\ ~ (g >= seq)
  /\ \A d \in Fresh(w) :
       /\ d \in Dirs /\ w[d] # None /\ gen[d] \in Gens /\ gen[d] >= seq /\ ~ (gen[d] >= seq')
       /\ link'[gen[d]] = NewLink(d, w) /\ isls'[d] = gen[d]
       /\ \A e \in Fresh(w) : gen[d] = gen[e] => d = e
  /\ link' \in [Gens -> {link'[g] : g \in Gens}]
  /\ \A g \in Gens :
       \/ g \in Stale(w) /\ link'[g] = Retire(link[g])
       \/ \E d \in Fresh(w) : g = gen[d]
       \/ g \notin Stale(w) /\ (\A d \in Fresh(w) : g # gen[d]) /\ link'[g] = link[g]
  /\ \A d \in Dirs : d \notin Fresh(w) => isls'[d] = IF w[d] = None THEN None ELSE isls[d]
  /\ retired' = {g \in retired \cup Stale(w) : ~ Drained(link'[g])}
  /\ drains' = drains + Cardinality({g \in retired \cup Stale(w) : Drained(link'[g])})

LEMMA RematchIs ==
  ASSUME Sound, NEW w \in Wirings, NEW gen \in Numberings(Fresh(w), seq),
         Rematch(w, gen), Fits(Fresh(w))
  PROVE  Rewired(w, gen)
<1> DEFINE old == Stale(w)
           new == Fresh(w)
           wired == [g \in Gens |-> IF g \in old THEN Retire(link[g])
                                   ELSE IF g \in Range(gen) THEN Created(g, gen, w)
                                   ELSE link[g]]
<1>1. /\ link' = wired /\ seq' = seq + Cardinality(new)
      /\ isls' = [d \in Dirs |-> IF d \in new THEN gen[d]
                                 ELSE IF w[d] = None THEN None ELSE isls[d]]
      /\ retired' = (retired \cup old) \ {g \in retired \cup old : Drained(wired[g])}
      /\ drains' = drains + Cardinality({g \in retired \cup old : Drained(wired[g])})
      /\ seq + Cardinality(new) =< LastGen + 1
  BY DEF Rematch
<1>2. new \subseteq Dirs /\ seq \in Nat /\ LastGen \in Nat
  BY SizesAssumption DEF Fresh, Sound, Numbered
<1>3. /\ Cardinality(new) \in Nat /\ IsFiniteSet(new)
      /\ \A d \in new : gen[d] \in Nat /\ seq =< gen[d] /\ gen[d] < seq + Cardinality(new)
  BY <1>2, NumberingsBounded, WiringsAssumption, FS_Subset
<1>4. \A d \in new : gen[d] \in Gens
  BY <1>1, <1>2, <1>3 DEF Gens
<1>5. Range(gen) = {gen[d] : d \in new} /\ \A d, e \in new : gen[d] = gen[e] => d = e
  BY DEF Range, Numberings, IsInjective
<1>6. \A g \in old : g \in Live /\ g \in Gens /\ g < seq
  BY DEF Stale, Live, Sound, Numbered, CurrentIsNewest
<1>7. \A g \in old : ~ (g >= seq)
  BY <1>2, <1>6, SizesAssumption DEF Gens
<1>8. ASSUME NEW d \in new
      PROVE  /\ link'[gen[d]] = NewLink(d, w) /\ isls'[d] = gen[d]
             /\ gen[d] >= seq /\ ~ (gen[d] >= seq') /\ d \in Dirs /\ w[d] # None
  <2>1. gen[d] >= seq /\ ~ (gen[d] >= seq') /\ gen[d] \notin old
    BY <1>1, <1>2, <1>3, <1>7
  <2>2. (CHOOSE e \in DOMAIN gen : gen[e] = gen[d]) = d
    BY <1>5 DEF Numberings
  <2>3. Created(gen[d], gen, w) = NewLink(d, w)
    BY <2>2 DEF Created, NewLink
  <2>4. link'[gen[d]] = Created(gen[d], gen, w)
    BY <1>1, <1>4, <1>5, <2>1
  <2> QED
    BY <1>1, <1>2, <2>1, <2>3, <2>4 DEF Fresh
<1>9. ASSUME NEW g \in Gens
      PROVE  \/ g \in old /\ link'[g] = Retire(link[g])
             \/ \E d \in new : g = gen[d]
             \/ g \notin old /\ (\A d \in new : g # gen[d]) /\ link'[g] = link[g]
  BY <1>1, <1>5
<1>10. \A g \in retired \cup old : wired[g] = link'[g]
  BY <1>1
<1>11. link' \in [Gens -> {link'[g] : g \in Gens}]
  BY <1>1
<1>12. seq' \in 0 .. LastGen + 1
  BY <1>1, <1>2, <1>3
<1>13. \A d \in Dirs : d \notin new => isls'[d] = IF w[d] = None THEN None ELSE isls[d]
  BY <1>1
<1>14. {g \in retired \cup old : Drained(wired[g])} = {g \in retired \cup old : Drained(link'[g])}
  BY <1>10
<1> HIDE DEF wired, old, new
<1> QED
  BY <1>1, <1>3, <1>4, <1>5, <1>6, <1>7, <1>8, <1>9, <1>11, <1>12, <1>13, <1>14 DEF old, new, Rewired

\* The holding queue keeps the first packets that fit.
LEMMA AdmittedIs ==
  ASSUME NEW q \in Seq(Data)
  PROVE  /\ Admitted(q) \in Seq(Data) /\ Len(Admitted(q)) =< HoldRoom
         /\ Range(Admitted(q)) \subseteq Range(q)
         /\ IsInjective(q) => IsInjective(Admitted(q))
<1> DEFINE k == Min({Len(q), HoldRoom})
           n == Len(q)
<1>1. n \in Nat /\ HoldRoom \in Nat
  BY LenProperties, SizesAssumption
<1>2. k \in {n, HoldRoom} /\ \A y \in {n, HoldRoom} : k =< y
  BY <1>1, MinIsLeast
<1> HIDE DEF k, n
<1>3. k \in 0 .. n /\ k =< HoldRoom
  BY <1>1, <1>2
<1>4. k \in 0 .. Len(q)
  BY <1>3 DEF n
<1>5. Admitted(q) = SubSeq(q, 1, k)
  BY DEF Admitted, k
<1> QED
  BY <1>3, <1>4, <1>5, Prefix

\* A rematch moves the data of the links it retires to the holding queue.
LEMMA RematchApart ==
  ASSUME Slots, NEW w \in Wirings, NEW gen \in Numberings(Fresh(w), seq),
         Rematch(w, gen), Fits(Fresh(w))
  PROVE  Apart' /\ LiveAre' /\ link' \in [Gens -> Links] /\ hold' \in Seq(Data)
         /\ fate' \in [Packets -> {"new", "live", "sent", "lost", "expired", "overflow"}]
<1>1. Sound /\ Numbered /\ Typed /\ Apart /\ LiveAre /\ Standing
  BY DEF Slots, Sound
<1> DEFINE old == Stale(w)
           new == Fresh(w)
<1>2. /\ \A g \in old : g \in Gens /\ ~ (g >= seq)
      /\ \A d \in new : d \in Dirs /\ gen[d] \in Gens /\ gen[d] >= seq /\ link'[gen[d]] = NewLink(d, w)
      /\ \A g \in Gens :
              \/ g \in old /\ link'[g] = Retire(link[g])
              \/ \E d \in new : g = gen[d]
              \/ g \notin old /\ (\A d \in new : g # gen[d]) /\ link'[g] = link[g]
      /\ link' \in [Gens -> {link'[g] : g \in Gens}]
  <2>1. Rewired(w, gen)
    BY <1>1, RematchIs
  <2> QED
    BY <2>1 DEF Rewired
<1>3. PICK freed \in Chained({link[g].data : g \in old}) :
        /\ hold' = Admitted(hold \o freed)
        /\ fate' = [p \in Packets |->
                      IF p \in Range(hold \o freed) \ Range(hold') THEN "overflow" ELSE fate[p]]
  <2> HIDE DEF new
  <2> QED
    BY DEF Rematch
<1> HIDE DEF old, new
\* Every generation loses exactly the data it had if it is retired.
<1>4. ASSUME NEW g \in Gens
      PROVE  /\ Fine(link'[g]) /\ Own(link'[g]) \subseteq Own(link[g]) /\ Own(link[g]) \subseteq Packets
             /\ \A p \in Own(link[g]) :
                  p \in Own(link'[g]) <=> ~ (g \in old /\ p \in Range(link[g].data))
  <2>1. Fine(link[g]) /\ Own(link[g]) \subseteq Packets
    BY <1>1, OwnIs DEF Apart, Fine
  <2>2. CASE g \in old /\ link'[g] = Retire(link[g])
    BY <2>1, <2>2, RetireFine
  <2>3. CASE \E d \in new : g = gen[d]
    <3>1. PICK d \in new : g = gen[d]
      BY <2>3
    <3>2. Fine(link'[g]) /\ Own(link'[g]) = {}
      BY <1>2, <3>1, NewLinkIs
    <3>3. link[g] = Unborn
      BY <1>1, <1>2, <3>1 DEF Standing
    <3> QED
      BY <3>2, <3>3, UnbornIs
  <2>4. CASE g \notin old /\ link'[g] = link[g]
    BY <2>1, <2>4
  <2> QED
    BY <1>2, <2>2, <2>3, <2>4
<1>5. /\ freed \in Seq(Data) /\ IsInjective(freed)
      /\ Range(freed) = UNION {Range(link[g].data) : g \in old}
  <2> DEFINE Q == {link[g].data : g \in old}
             f == [g \in old |-> link[g].data]
  <2>1. f \in Surjection(old, Q)
    BY DEF Surjection
  <2>2. IsFiniteSet(old)
    <3>1. old \in SUBSET Gens
      BY <1>2
    <3> QED
      BY <1>1, <3>1, CountsAreNatural, FS_Subset
  <2>3. Q \subseteq Seq(Data)
    BY <1>1, <1>2, LinkFields DEF Typed
  <2>4. IsFiniteSet(Q)
    <3> HIDE DEF f, Q
    <3> QED
      BY <2>1, <2>2, FS_Surjection
  <2>5. UNION {Range(q) : q \in Q} = UNION {Range(link[g].data) : g \in old}
    OBVIOUS
  <2>6. freed \in Chained(Q)
    OBVIOUS
  <2> HIDE DEF Q
  <2> QED
    BY <2>3, <2>4, <2>5, <2>6, ChainedIs
<1>6. \A p : p \in Range(freed) <=> \E g \in old : p \in Range(link[g].data)
  BY <1>5
<1>7. \A g \in Gens : Range(link[g].data) \subseteq Own(link[g])
  BY DEF Own, Queued
<1>8. Range(hold) \cap Range(freed) = {}
  BY <1>1, <1>2, <1>6, <1>7 DEF Apart
<1> DEFINE moved == hold \o freed
<1>9. moved \in Seq(Data) /\ IsInjective(moved) /\ Range(moved) = Range(hold) \cup Range(freed)
  BY <1>1, <1>5, <1>8, Joined DEF Typed, Apart
<1>10. /\ hold' \in Seq(Data) /\ Len(hold') =< HoldRoom /\ IsInjective(hold')
       /\ Range(hold') \subseteq Range(hold) \cup Range(freed)
  <2> HIDE DEF moved
  <2>1. hold' = Admitted(moved)
    BY <1>3 DEF moved
  <2> QED
    BY <1>9, <2>1, AdmittedIs
<1>11. \A p \in Packets :
         fate'[p] = IF (p \in Range(hold) \/ p \in Range(freed)) /\ p \notin Range(hold')
                    THEN "overflow" ELSE fate[p]
  BY <1>3, <1>9
<1> HIDE DEF moved
<1>12. Apart'
  <2>1. ASSUME NEW g \in Gens, NEW p \in Own(link'[g])
        PROVE  p \notin Range(hold) /\ p \notin Range(freed)
    <3>1. p \in Own(link[g]) /\ ~ (g \in old /\ p \in Range(link[g].data))
      BY <1>4
    <3>2. p \notin Range(hold)
      BY <1>1, <3>1 DEF Apart
    <3>3. \A h \in old : h # g => p \notin Range(link[h].data)
      BY <1>1, <1>2, <1>7, <3>1 DEF Apart
    <3> QED
      BY <1>6, <3>1, <3>2, <3>3
  <2>2. ASSUME NEW g \in Gens
        PROVE  Fine(link'[g]) /\ Own(link'[g]) \cap Range(hold') = {}
    BY <1>4, <1>10, <2>1
  <2>3. ASSUME NEW g \in Gens, NEW h \in Gens, g # h
        PROVE  Own(link'[g]) \cap Own(link'[h]) = {}
    BY <1>1, <1>4, <2>3 DEF Apart
  <2>4. \A g \in Gens : /\ Fine(link'[g]) <=> Fine(link[g])'
                        /\ Own(link'[g]) = Own(link[g])'
    BY DEF Fine, Own, Queued, Used
  <2> QED
    BY <1>10, <2>2, <2>3, <2>4 DEF Apart
<1>13. LiveAre'
  <2> SUFFICES ASSUME NEW p \in Packets
               PROVE  fate'[p] = "live" <=>
                        p \in Range(hold') \/ \E g \in Gens : p \in Own(link'[g])
    BY DEF LiveAre, Own, Queued
  <2>1. fate[p] = "live" <=> p \in Range(hold) \/ \E g \in Gens : p \in Own(link[g])
    BY <1>1 DEF LiveAre
  <2>2. CASE p \in Range(hold) \/ p \in Range(freed)
    <3>1. fate[p] = "live"
      BY <1>2, <1>6, <1>7, <2>1, <2>2
    <3>2. \A g \in Gens : p \notin Own(link'[g])
      <4> SUFFICES ASSUME NEW g \in Gens, p \in Own(link'[g]) PROVE FALSE
        OBVIOUS
      <4>1. p \in Own(link[g]) /\ ~ (g \in old /\ p \in Range(link[g].data))
        BY <1>4
      <4>2. CASE p \in Range(hold)
        BY <1>1, <4>1, <4>2 DEF Apart
      <4>3. CASE \E h \in old : p \in Range(link[h].data)
        <5>1. PICK h \in old : p \in Range(link[h].data)
          BY <4>3
        <5>2. h \in Gens /\ p \in Own(link[h]) /\ h # g
          BY <1>2, <1>7, <4>1, <5>1
        <5> QED
          BY <1>1, <4>1, <5>2 DEF Apart
      <4> QED
        BY <1>6, <2>2, <4>2, <4>3
    <3> QED
      BY <1>11, <2>2, <3>1, <3>2
  <2>3. CASE ~ (p \in Range(hold) \/ p \in Range(freed))
    <3>1. fate'[p] = fate[p] /\ p \notin Range(hold')
      BY <1>10, <1>11, <2>3
    <3>2. \A g \in Gens : p \in Own(link'[g]) <=> p \in Own(link[g])
      BY <1>4, <1>6, <2>3
    <3> QED
      BY <2>1, <2>3, <3>1, <3>2
  <2> QED
    BY <2>2, <2>3
<1>14. link' \in [Gens -> Links]
  BY <1>2, <1>4 DEF Fine
<1>15. fate' \in [Packets -> {"new", "live", "sent", "lost", "expired", "overflow"}]
  BY <1>1, <1>3 DEF Typed
<1> QED
  BY <1>10, <1>12, <1>13, <1>14, <1>15

\* A direction that gets no new link and keeps its peer keeps its generation;
\* the retired links, and only they, stop being current.
LEMMA RematchCurrent ==
  ASSUME Sound, NEW w \in Wirings, NEW gen \in Numberings(Fresh(w), seq), Rewired(w, gen)
  PROVE  /\ \A d \in Dirs : d \notin Fresh(w) /\ isls'[d] # None =>
              /\ isls'[d] = isls[d] /\ isls[d] # None /\ isls[d] \in Gens /\ isls[d] \notin Stale(w)
              /\ link'[isls[d]] = link[isls[d]]
         /\ Live' = (Live \ Stale(w)) \cup {gen[d] : d \in Fresh(w)}
<1>1. /\ isls \in [Dirs -> Gens \cup {None}] /\ CurrentIsNewest
      /\ \A d \in Dirs : isls[d] # None =>
           isls[d] \in Gens /\ isls[d] < seq /\ link[isls[d]].dir = d /\ link[isls[d]].peer # None
  BY DEF Sound, Numbered, CurrentIsNewest
<1>2. \A d \in Dirs : isls[d] # None => ~ (isls[d] >= seq)
  <2> SUFFICES ASSUME NEW d \in Dirs, isls[d] # None PROVE ~ (isls[d] >= seq)
    OBVIOUS
  <2>1. isls[d] \in Nat /\ isls[d] < seq /\ seq \in Nat
    BY <1>1, SizesAssumption DEF Gens, Sound, Numbered
  <2> QED
    BY <2>1
<1>3. ASSUME NEW d \in Dirs, isls[d] # None
      PROVE  isls[d] \in Stale(w) <=> link[isls[d]].peer # w[d]
  <2>1. \A e \in Dirs : isls[e] # None /\ isls[e] = isls[d] => e = d
    BY <1>1, <1>3
  <2>2. isls[d] \in Stale(w) <=> \E e \in Dirs : isls[e] # None /\ link[isls[e]].peer # w[e] /\ isls[e] = isls[d]
    BY DEF Stale
  <2> QED
    BY <1>3, <2>1, <2>2
<1>4. ASSUME NEW d \in Dirs, d \notin Fresh(w), isls'[d] # None
      PROVE  /\ isls'[d] = isls[d] /\ isls[d] # None /\ isls[d] \in Gens /\ isls[d] \notin Stale(w)
             /\ link'[isls[d]] = link[isls[d]]
  <2>1. isls'[d] = isls[d] /\ w[d] # None
    BY <1>4 DEF Rewired
  <2>2. isls[d] # None /\ link[isls[d]].peer = w[d]
    BY <1>4, <2>1 DEF Fresh
  <2>3. isls[d] \in Gens /\ isls[d] \notin Stale(w) /\ ~ (isls[d] >= seq)
    BY <1>1, <1>2, <1>3, <2>2
  <2>4. \A e \in Fresh(w) : isls[d] # gen[e]
    BY <2>3 DEF Rewired
  <2>5. link'[isls[d]] = link[isls[d]]
    BY <2>3, <2>4 DEF Rewired
  <2> QED
    BY <2>1, <2>2, <2>3, <2>5
<1>5. ASSUME NEW d \in Dirs, isls[d] # None, isls[d] \notin Stale(w)
      PROVE  isls'[d] = isls[d]
  <2>1. link[isls[d]].peer = w[d] /\ w[d] # None
    BY <1>1, <1>3, <1>5
  <2>2. d \notin Fresh(w)
    BY <1>5, <2>1 DEF Fresh
  <2> QED
    BY <2>1, <2>2 DEF Rewired
<1>6. \A d \in Fresh(w) : d \in Dirs /\ isls'[d] = gen[d] /\ gen[d] # None
  BY NoneAssumption, SizesAssumption DEF Rewired, Gens
<1>7. ASSUME NEW g
      PROVE  g \in Live' <=> (g \in Live /\ g \notin Stale(w)) \/ \E d \in Fresh(w) : g = gen[d]
  <2>1. g \in Live' <=> g # None /\ \E d \in Dirs : g = isls'[d]
    BY DEF Live
  <2>2. g \in Live <=> g # None /\ \E d \in Dirs : g = isls[d]
    BY DEF Live
  <2>3. g \in Live' => (g \in Live /\ g \notin Stale(w)) \/ \E d \in Fresh(w) : g = gen[d]
    BY <2>1, <2>2, <1>4, <1>6
  <2>4. (g \in Live /\ g \notin Stale(w)) => g \in Live'
    BY <2>1, <2>2, <1>5
  <2>5. (\E d \in Fresh(w) : g = gen[d]) => g \in Live'
    BY <2>1, <1>6
  <2> QED
    BY <2>3, <2>4, <2>5
<1> QED
  BY <1>4, <1>7

LEMMA RematchStands ==
  ASSUME Slots, NEW w \in Wirings, NEW gen \in Numberings(Fresh(w), seq), Rewired(w, gen),
         now' = now, Sound'
  PROVE  Standing' /\ Waits'
<1>1. Sound /\ Numbered /\ Typed /\ Apart /\ LiveAre /\ Standing /\ Waits
  BY DEF Slots, Sound
<1>2. \A g \in Stale(w) : g \in Gens /\ ~ (g >= seq) /\ link[g].phase \notin {"unborn", "ended"}
  BY <1>1 DEF Rewired, Live, Standing
<1>3. ASSUME NEW g \in Gens
      PROVE  \/ /\ g \in Stale(w) /\ link'[g] = Retire(link[g])
                /\ link'[g].dir = link[g].dir /\ link'[g].retired /\ link'[g].poked
                /\ link'[g].phase = link[g].phase /\ link'[g].blockers = link[g].blockers
             \/ \E d \in Fresh(w) :
                  /\ g = gen[d] /\ d \in Dirs /\ g >= seq /\ ~ (g >= seq')
                  /\ link'[g].dir = d /\ ~ link'[g].retired /\ link'[g].phase = "run"
                  /\ Queued(link'[g]) = {} /\ Drained(link'[g])
             \/ g \notin Stale(w) /\ link'[g] = link[g]
  <2>1. \/ g \in Stale(w) /\ link'[g] = Retire(link[g])
        \/ \E d \in Fresh(w) : g = gen[d]
        \/ g \notin Stale(w) /\ link'[g] = link[g]
    BY DEF Rewired
  <2>2. Fine(link[g])
    BY <1>1 DEF Apart
  <2>3. CASE g \in Stale(w) /\ link'[g] = Retire(link[g])
    BY <2>2, <2>3, RetireFine
  <2>4. CASE \E d \in Fresh(w) : g = gen[d]
    <3>1. PICK d \in Fresh(w) : g = gen[d]
      BY <2>4
    <3>2. d \in Dirs /\ g >= seq /\ ~ (g >= seq') /\ link'[g] = NewLink(d, w)
      BY <3>1 DEF Rewired
    <3>3. /\ link'[g].dir = d /\ ~ link'[g].retired /\ link'[g].phase = "run"
          /\ Queued(link'[g]) = {} /\ Drained(link'[g])
      BY <3>2, NewLinkIs
    <3> QED
      BY <3>1, <3>2, <3>3
  <2> QED
    BY <2>1, <2>3, <2>4
\* A generation that existed keeps its direction.
<1>4. ASSUME NEW g \in Gens, link[g].dir \in Dirs
      PROVE  link'[g].dir = link[g].dir
  <2>1. ~ (g >= seq)
    <3>1. link[g] # Unborn
      BY <1>4, UnbornIs, NoneAssumption
    <3> QED
      BY <1>1, <3>1 DEF Standing
  <2> QED
    BY <1>3, <2>1
<1>5. Standing'
  <2>1. ASSUME NEW d \in Dirs, isls'[d] # None
        PROVE  ~ link'[isls'[d]].retired /\ link'[isls'[d]].phase \notin {"unborn", "ended"}
    <3>1. CASE d \in Fresh(w)
      <4>1. isls'[d] = gen[d] /\ link'[gen[d]] = NewLink(d, w)
        BY <3>1 DEF Rewired
      <4> QED
        BY <4>1, NewLinkIs
    <3>2. CASE d \notin Fresh(w)
      <4>1. isls'[d] = isls[d] /\ isls[d] # None /\ link'[isls[d]] = link[isls[d]]
        BY <1>1, <2>1, <3>2, RematchCurrent
      <4> QED
        BY <1>1, <4>1 DEF Standing
    <3> QED
      BY <3>1, <3>2
  <2>2. ASSUME NEW g \in retired'
        PROVE  link'[g].retired /\ link'[g].dir \in Dirs /\ ~ Drained(link'[g])
    <3>1. (g \in retired \/ g \in Stale(w)) /\ ~ Drained(link'[g]) /\ g \in Gens
      BY <1>1, <1>2 DEF Rewired, Numbered
    <3>2. link[g].dir \in Dirs
      <4>1. CASE g \in retired
        BY <1>1, <4>1 DEF Standing
      <4>2. CASE g \in Stale(w)
        BY <1>1, <4>2 DEF Stale, Sound, CurrentIsNewest
      <4> QED
        BY <3>1, <4>1, <4>2
    <3>3. link'[g].retired
      BY <1>1, <1>3, <3>1 DEF Standing
    <3> QED
      BY <1>4, <3>1, <3>2, <3>3
  <2>3. ASSUME NEW g \in Gens, g >= seq'
        PROVE  link'[g] = Unborn
    <3>1. seq \in Nat /\ seq' \in Nat /\ seq' >= seq /\ g \in Nat
      BY <1>1, SizesAssumption DEF Rewired, Numbered, Gens
    <3>2. g >= seq
      BY <2>3, <3>1
    <3> QED
      BY <1>1, <1>2, <1>3, <2>3, <3>2 DEF Standing
  <2> QED
    BY <2>1, <2>2, <2>3 DEF Standing, Drained
<1>6. Waits'
  <2> SUFFICES ASSUME NEW g \in Gens PROVE Waiting(g, link[g])'
    BY DEF Waits
  <2>1. Waiting(g, link[g]) /\ link[g] \in Links
    BY <1>1 DEF Waits, Typed
  <2>2. \A h \in link[g].blockers : h \in Gens
    BY <2>1, LinkFields
  <2>3. link[g].phase = "gate" =>
          \A h \in link[g].blockers : h < g /\ link'[h].dir = link[g].dir /\ link[g].dir \in Dirs
    BY <2>1, <2>2, <1>4 DEF Waiting
  <2>4. CASE /\ g \in Stale(w) /\ link'[g].dir = link[g].dir /\ link'[g].poked
             /\ link'[g].phase = link[g].phase /\ link'[g].blockers = link[g].blockers
    BY <1>2, <2>3, <2>4 DEF Waiting
  <2>5. CASE link'[g].phase = "run"
    BY <2>5 DEF Waiting
  <2>6. CASE link'[g] = link[g]
    BY <2>1, <2>3, <2>6 DEF Waiting, Covered, Queued
  <2> QED
    BY <1>3, <2>4, <2>5, <2>6
<1> QED
  BY <1>5, <1>6

\* Numbering the members of a finite set without repetition keeps their number.
LEMMA RenamingCounts ==
  ASSUME NEW S, IsFiniteSet(S), NEW g, \A d, e \in S : g[d] = g[e] => d = e
  PROVE  IsFiniteSet({g[d] : d \in S}) /\ Cardinality({g[d] : d \in S}) = Cardinality(S)
<1> DEFINE T == {g[d] : d \in S}
           f == [d \in S |-> g[d]]
<1>1. f \in [S -> T] /\ \A d \in S : f[d] = g[d]
  OBVIOUS
<1>2. \A t \in T : \E d \in S : f[d] = t
  OBVIOUS
<1> HIDE DEF f, T
<1>3. f \in Surjection(S, T)
  BY <1>1, <1>2 DEF Surjection
<1>4. \A d, e \in S : f[d] = f[e] => d = e
  BY <1>1
<1>5. f \in Injection(S, T)
  BY <1>1, <1>4 DEF Injection, IsInjective
<1>6. IsFiniteSet(T) /\ Cardinality(T) = Cardinality(S)
  BY <1>3, <1>5, FS_Surjection
<1> QED
  BY <1>6 DEF T

\* The links created and retired are exactly those the count moves by.
LEMMA RematchCounts ==
  ASSUME Slots, NEW w \in Wirings, NEW gen \in Numberings(Fresh(w), seq), Rewired(w, gen),
         Fits(Fresh(w)), endpoints' = endpoints
  PROVE  drains' \in Nat /\ EntitiesExact' /\ EntityCap'
<1> DEFINE old == Stale(w)
           new == Fresh(w)
           made == {gen[d] : d \in new}
           all == retired \cup old
           gone == {g \in all : Drained(link'[g])}
           kept == {g \in all : ~ Drained(link'[g])}
<1>1. Sound /\ Numbered /\ Typed /\ Standing
  BY DEF Slots, Sound
<1>2. /\ seq' = seq + Cardinality(new) /\ Cardinality(new) \in Nat /\ IsFiniteSet(new)
      /\ retired' = kept /\ drains' = drains + Cardinality(gone)
      /\ \A g \in old : g \in Live
      /\ \A d \in new : gen[d] >= seq /\ \A e \in new : gen[d] = gen[e] => d = e
  <2> HIDE DEF new, old
  <2> QED
    BY DEF Rewired, new, old
<1>3. /\ IsFiniteSet(Gens) /\ Live \subseteq Gens /\ IsFiniteSet(Live) /\ IsFiniteSet(retired)
      /\ Cardinality(Live) \in Nat /\ Cardinality(retired) \in Nat
  BY <1>1, CountsAreNatural
<1>4. Live' = (Live \ old) \cup made
  BY <1>1, RematchCurrent
<1>5. \A g \in Live : ~ (g >= seq) /\ g \notin retired
  <2> SUFFICES ASSUME NEW d \in Dirs, isls[d] # None PROVE ~ (isls[d] >= seq) /\ isls[d] \notin retired
    BY DEF Live
  <2>1. isls[d] \in Gens /\ isls[d] < seq /\ seq \in Nat
    BY <1>1 DEF Sound, Numbered, CurrentIsNewest
  <2>2. isls[d] \in Nat
    BY <2>1, SizesAssumption DEF Gens
  <2> QED
    BY <1>1, <2>1, <2>2 DEF Standing
\* Cardinalities.
<1>6. IsFiniteSet(made) /\ Cardinality(made) = Cardinality(new)
  <2> HIDE DEF new
  <2> QED
    BY <1>2, RenamingCounts
<1>7. old \in SUBSET Live /\ old \cap retired = {} /\ Live \cap old = old /\ (Live \ old) \cap made = {}
  BY <1>2, <1>5
<1>8. IsFiniteSet(old) /\ Cardinality(old) \in Nat
  <2> HIDE DEF old
  <2> QED
    BY <1>3, <1>7, FS_Subset, FS_CardinalityType
<1> DEFINE a == Cardinality(Live)
           b == Cardinality(retired)
           c == Cardinality(old)
           n == Cardinality(new)
           k == Cardinality(gone)
<1>9. Cardinality(Live') = (a - c) + n
  <2> HIDE DEF old, made, new
  <2>1. IsFiniteSet(Live \ old) /\ Cardinality(Live \ old) = a - c
    BY <1>3, <1>7, FS_Difference
  <2>2. Cardinality((Live \ old) \cup made) = (a - c) + n - Cardinality((Live \ old) \cap made)
    BY <1>6, <2>1, FS_Union
  <2>3. Cardinality((Live \ old) \cap made) = 0
    BY <1>7, FS_EmptySet
  <2> QED
    BY <1>2, <1>3, <1>4, <1>8, <2>2, <2>3
<1>10. IsFiniteSet(all) /\ Cardinality(all) = b + c
  <2> HIDE DEF old
  <2>1. IsFiniteSet(retired \cup old) /\ Cardinality(retired \cup old) = b + c - Cardinality(retired \cap old)
    BY <1>3, <1>8, FS_Union
  <2>2. retired \cap old = {}
    BY <1>7
  <2> QED
    BY <1>3, <1>8, <2>1, <2>2, FS_EmptySet
<1>11. k \in Nat /\ Cardinality(kept) = (b + c) - k
  <2>1. kept = all \ gone /\ all \cap gone = gone /\ gone \in SUBSET all
    OBVIOUS
  <2> HIDE DEF all, gone, kept
  <2>2. IsFiniteSet(gone)
    BY <1>10, <2>1, FS_Subset
  <2>3. k \in Nat
    BY <2>2, FS_CardinalityType
  <2>4. Cardinality(all \ gone) = Cardinality(all) - Cardinality(all \cap gone)
    BY <1>10, FS_Difference
  <2> QED
    BY <1>10, <2>1, <2>3, <2>4
<1>12. {g \in retired : Drained(link[g])} = {}
  BY <1>1 DEF Standing
<1>13. /\ seq \in Nat /\ endpoints \in Nat /\ drains \in Nat /\ MaxEntities \in Nat
       /\ seq + endpoints - drains = endpoints + a + b
       /\ seq + endpoints - drains - 0 + n =< MaxEntities
  <2>1. LiveEntities - Cardinality({g \in retired : Drained(link[g])}) + n =< MaxEntities
    BY DEF Fits
  <2>2. Cardinality({g \in retired : Drained(link[g])}) = 0
    BY <1>12, FS_EmptySet
  <2> HIDE DEF a, b, n
  <2> QED
    BY <1>1, <2>1, <2>2, SizesAssumption
    DEF LiveEntities, Typed, Numbered, Slots, EntitiesExact, a, b, n
<1>14. a \in Nat /\ b \in Nat /\ c \in Nat /\ n \in Nat /\ k \in Nat
  BY <1>2, <1>3, <1>8, <1>11
<1>15. /\ seq' = seq + n /\ drains' = drains + k /\ Cardinality(Live') = (a - c) + n
       /\ Cardinality(retired') = (b + c) - k
  BY <1>2, <1>9, <1>11
<1> HIDE DEF a, b, c, n, k
<1>16. drains' \in Nat
  BY <1>13, <1>14, <1>15
<1>17. seq' + endpoints' - drains' = endpoints' + Cardinality(Live') + Cardinality(retired')
  BY <1>13, <1>14, <1>15
<1>18. seq' + endpoints' - drains' =< MaxEntities
  BY <1>13, <1>14, <1>15
<1> QED
  BY <1>16, <1>17, <1>18 DEF EntitiesExact, EntityCap, LiveEntities

LEMMA RematchSlots ==
  ASSUME Slots, NEW w \in Wirings, NEW gen \in Numberings(Fresh(w), seq), Rematch(w, gen), Sound'
  PROVE  Slots'
<1>1. Sound /\ Typed /\ Apart /\ LiveAre /\ Standing /\ Waits
  BY DEF Slots
<1>2. UNCHANGED <<now, reach, endpoints>> /\ due' = FALSE
  BY DEF Rematch
<1>3. CASE ~ Fits(Fresh(w))
  <2>1. raised' = TRUE /\ UNCHANGED <<link, isls, seq, hold, fate, retired, drains>>
    BY <1>3 DEF Rematch
  <2>2. Apart' /\ LiveAre' /\ Standing' /\ Waits'
    BY <1>1, <1>2, <2>1, SlotsStay
  <2>3. Typed' /\ EntitiesExact' /\ EntityCap'
    BY <1>1, <1>2, <2>1 DEF Typed, Slots, EntitiesExact, EntityCap, LiveEntities, Live
  <2> QED
    BY <2>2, <2>3 DEF Slots
<1>4. CASE Fits(Fresh(w))
  <2>1. Rewired(w, gen)
    BY <1>1, <1>4, RematchIs
  <2>2. /\ Apart' /\ LiveAre' /\ link' \in [Gens -> Links] /\ hold' \in Seq(Data)
        /\ fate' \in [Packets -> {"new", "live", "sent", "lost", "expired", "overflow"}]
    BY <1>4, RematchApart
  <2>3. Standing' /\ Waits'
    BY <1>2, <2>1, RematchStands
  <2>4. drains' \in Nat /\ EntitiesExact' /\ EntityCap'
    BY <1>2, <1>4, <2>1, RematchCounts
  <2>5. seq' \in 0 .. LastGen + 1 /\ raised' = raised
    BY <1>4, <2>1 DEF Rewired, Rematch
  <2>6. Typed'
    BY <1>1, <1>2, <2>2, <2>4, <2>5 DEF Typed
  <2> QED
    BY <2>2, <2>3, <2>4, <2>6 DEF Slots
<1> QED
  BY <1>3, <1>4

-----------------------------------------------------------------------------
(* Every state, every step.                                                *)

LEMMA InitSlots == Init => Slots
<1> SUFFICES ASSUME Init PROVE Slots
  OBVIOUS
<1> DEFINE wired(w) == {d \in Dirs : w[d] # None}
<1>1. PICK w \in Wirings : \E gen \in Numberings(wired(w), 0) :
        /\ Cardinality(wired(w)) =< MaxEntities /\ Cardinality(wired(w)) =< LastGen + 1
        /\ seq = Cardinality(wired(w))
        /\ link = [g \in Gens |-> IF g \in Range(gen) THEN Created(g, gen, w) ELSE Unborn]
        /\ isls = [d \in Dirs |-> IF d \in wired(w) THEN gen[d] ELSE None]
  BY DEF Init
<1> DEFINE new == wired(w)
<1>2. PICK gen \in Numberings(new, 0) :
        /\ Cardinality(new) =< MaxEntities /\ Cardinality(new) =< LastGen + 1
        /\ seq = Cardinality(new)
        /\ link = [g \in Gens |-> IF g \in Range(gen) THEN Created(g, gen, w) ELSE Unborn]
        /\ isls = [d \in Dirs |-> IF d \in new THEN gen[d] ELSE None]
  BY <1>1
<1>3. /\ now = 0 /\ reach \in Reaches /\ due = FALSE /\ raised = FALSE
      /\ retired = {} /\ drains = 0 /\ endpoints = 0 /\ hold = <<>>
      /\ fate = [p \in Packets |-> "new"]
  BY DEF Init
<1>4. Sound
  BY InitSound
<1>5. /\ new \subseteq Dirs /\ IsFiniteSet(new) /\ Cardinality(new) \in Nat
      /\ \A d \in new : gen[d] \in Nat /\ gen[d] < seq
  <2>1. new \subseteq Dirs /\ 0 \in Nat
    OBVIOUS
  <2>0. gen \in Numberings(new, 0) /\ seq = Cardinality(new)
    BY <1>2
  <2> HIDE DEF new, wired
  <2>2. IsFiniteSet(new)
    BY <2>1, WiringsAssumption, FS_Subset
  <2>3. /\ Cardinality(new) \in Nat
        /\ \A d \in new : gen[d] \in Nat /\ gen[d] < 0 + Cardinality(new)
    BY <2>0, <2>1, NumberingsBounded
  <2> DEFINE n == Cardinality(new)
  <2>4. seq = n /\ n \in Nat /\ \A d \in new : gen[d] \in Nat /\ gen[d] < 0 + n
    BY <2>0, <2>3
  <2> HIDE DEF n
  <2>5. \A d \in new : gen[d] \in Nat /\ gen[d] < seq
    BY <2>4
  <2> QED
    BY <2>1, <2>2, <2>3, <2>5
<1>6. /\ DOMAIN gen = new /\ Range(gen) = {gen[d] : d \in new}
      /\ \A d, e \in new : gen[d] = gen[e] => d = e
  BY DEF Range, Numberings, IsInjective
<1>7. \A d \in new : gen[d] \in Gens
  BY <1>2, <1>5, SizesAssumption DEF Gens
<1>8. ASSUME NEW d \in new PROVE link[gen[d]] = NewLink(d, w)
  <2>1. (CHOOSE e \in DOMAIN gen : gen[e] = gen[d]) = d
    BY <1>6
  <2>2. Created(gen[d], gen, w) = NewLink(d, w)
    BY <2>1 DEF Created, NewLink
  <2> QED
    BY <1>2, <1>6, <1>7, <2>2
<1>9. ASSUME NEW g \in Gens
      PROVE  (\E d \in new : g = gen[d]) \/ link[g] = Unborn
  BY <1>2, <1>6
<1> HIDE DEF new, wired
<1>10. ASSUME NEW g \in Gens
       PROVE  /\ Fine(link[g]) /\ link[g] \in Links /\ Own(link[g]) = {} /\ Queued(link[g]) = {}
              /\ link[g].phase \in {"unborn", "run"}
  <2>1. CASE \E d \in new : g = gen[d]
    <3>1. PICK d \in new : g = gen[d]
      BY <2>1
    <3>2. link[g] = NewLink(d, w) /\ d \in Dirs
      BY <1>5, <1>8, <3>1
    <3> QED
      BY <3>2, NewLinkIs
  <2>2. CASE link[g] = Unborn
    <3>1. Queued(Unborn) = {} /\ Unborn.phase = "unborn"
      BY UnbornIs DEF Own, Unborn
    <3> QED
      BY <2>2, <3>1, UnbornIs
  <2> QED
    BY <1>9, <2>1, <2>2
<1>11. <<>> \in Seq(Data) /\ Len(<<>>) = 0 /\ Range(<<>>) = {} /\ IsInjective(<<>>)
  BY EmptyQueue
<1>12. Typed
  <2>1. link \in [Gens -> Links]
    BY <1>2, <1>10
  <2>2. seq \in 0 .. LastGen + 1
    BY <1>2, <1>5, SizesAssumption
  <2>3. 0 \in 0 .. Horizon /\ 0 \in 0 .. MaxEndpoints
    BY SizesAssumption
  <2> QED
    BY <1>3, <1>11, <2>1, <2>2, <2>3 DEF Typed
<1>13. Apart
  <2>1. Len(hold) =< HoldRoom
    BY <1>3, <1>11, SizesAssumption
  <2> QED
    BY <1>3, <1>10, <1>11, <2>1 DEF Apart
<1>14. LiveAre
  BY <1>3, <1>10, <1>11 DEF LiveAre
<1>15. Standing
  <2>1. ASSUME NEW d \in Dirs, isls[d] # None
        PROVE  ~ link[isls[d]].retired /\ link[isls[d]].phase \notin {"unborn", "ended"}
    <3>1. d \in new /\ isls[d] = gen[d]
      BY <1>2, <2>1
    <3>2. link[isls[d]] = NewLink(d, w)
      BY <1>8, <3>1
    <3> QED
      BY <3>2, NewLinkIs
  <2>2. ASSUME NEW g \in Gens, g >= seq
        PROVE  link[g] = Unborn
    <3>1. \A d \in new : g # gen[d]
      BY <1>2, <1>5, <2>2
    <3> QED
      BY <1>9, <3>1
  <2> QED
    BY <1>3, <2>1, <2>2 DEF Standing
<1>16. Waits
  BY <1>10 DEF Waits, Waiting
<1>17. EntitiesExact /\ EntityCap
  <2> DEFINE made == {gen[d] : d \in new}
  <2>1. IsFiniteSet(made) /\ Cardinality(made) = Cardinality(new)
    BY <1>5, <1>6, RenamingCounts
  <2>2. \A d \in new : gen[d] # None
    BY <1>5, NoneAssumption
  <2>3. Live = made
    BY <1>2, <1>5, <2>2 DEF Live
  <2> HIDE DEF made
  <2>4. Cardinality(Live) = seq /\ seq \in Nat /\ seq =< MaxEntities
    BY <1>2, <1>5, <2>1, <2>3
  <2>5. Cardinality(retired) = 0
    BY <1>3, FS_EmptySet
  <2>6. LiveEntities = seq /\ MaxEntities \in Nat
    BY <1>3, <2>4, SizesAssumption DEF LiveEntities
  <2> QED
    BY <1>3, <2>4, <2>5, <2>6 DEF EntitiesExact, EntityCap
<1> QED
  BY <1>4, <1>12, <1>13, <1>14, <1>15, <1>16, <1>17 DEF Slots

LEMMA StepSlots == Slots /\ [Next]_vars => Slots'
<1> SUFFICES ASSUME Slots, [Next]_vars PROVE Slots'
  OBVIOUS
<1>0. Sound'
  BY StepForward DEF Slots, Forward
<1>1. ASSUME NEW g \in Gens, RunServer(g) PROVE Slots'
  BY <1>0, <1>1, RunServerSlots
<1>2. ASSUME NEW d \in Dirs, NEW p \in Ctrl, PutCtrl(d, p) PROVE Slots'
  BY <1>0, <1>2, PutCtrlSlots
<1>3. ASSUME NEW p \in Data, NEW cands \in SUBSET Dirs, Decide(p, cands) PROVE Slots'
  BY <1>0, <1>3, DecideSlots
<1>4. ASSUME NEW w \in Wirings, NEW gen \in Numberings(Fresh(w), seq), Rematch(w, gen)
      PROVE  Slots'
  BY <1>0, <1>4, RematchSlots
<1>5. CASE EnsureEndpoint
  BY <1>0, <1>5, EnsureEndpointSlots
<1>6. ASSUME NEW r \in Reaches, Advance(r) PROVE Slots'
  BY <1>0, <1>6, AdvanceSlots
<1>7. CASE UNCHANGED vars
  <2>1. Apart' /\ LiveAre' /\ Standing' /\ Waits'
    BY <1>7, SlotsStay DEF vars, Slots
  <2>2. Typed' /\ EntitiesExact' /\ EntityCap'
    BY <1>7 DEF vars, Slots, Typed, EntitiesExact, EntityCap, LiveEntities, Live
  <2> QED
    BY <1>0, <2>1, <2>2 DEF Slots
<1>8. CASE Stopped
  BY <1>7, <1>8 DEF Stopped
<1> QED
  BY <1>1, <1>2, <1>3, <1>4, <1>5, <1>6, <1>7, <1>8 DEF Next

\* The inductive invariant: the packets of a satellite are in one place each,
\* its entities are counted, and no server sleeps on work (ISLLink, Kernel).
THEOREM SlotsInvariant == Spec => []Slots
<1>1. Init => Slots
  BY InitSlots
<1>2. Slots /\ [Next]_vars => Slots'
  BY StepSlots
<1> QED
  BY <1>1, <1>2, PTL DEF Spec

-----------------------------------------------------------------------------
(* What the runs check, for every satellite.                               *)

\* A packet is counted where it is.
LEMMA PacketCounted ==
  ASSUME Slots, NEW p \in Packets
  PROVE  /\ Cardinality({x \in Gens \X (1 .. Room) :
                 \/ x[2] \in DOMAIN link[x[1]].data /\ link[x[1]].data[x[2]] = p
                 \/ x[2] \in DOMAIN link[x[1]].ctrl /\ link[x[1]].ctrl[x[2]] = p})
             = IF \E g \in Gens : p \in Queued(link[g]) THEN 1 ELSE 0
         /\ Cardinality({g \in Gens : link[g].air = p})
             = IF \E g \in Gens : link[g].air = p THEN 1 ELSE 0
         /\ Cardinality({i \in DOMAIN hold : hold[i] = p}) = IF p \in Range(hold) THEN 1 ELSE 0
<1> DEFINE At(g, i) == \/ i \in DOMAIN link[g].data /\ link[g].data[i] = p
                       \/ i \in DOMAIN link[g].ctrl /\ link[g].ctrl[i] = p
           X == {x \in Gens \X (1 .. Room) : At(x[1], x[2])}
           Y == {g \in Gens : link[g].air = p}
<1>1. Typed /\ Apart /\ p # None
  BY NoneAssumption DEF Slots
<1>2. ASSUME NEW g \in Gens
      PROVE  /\ (p \in Queued(link[g]) <=> \E i \in 1 .. Room : At(g, i))
             /\ \A i, j : At(g, i) /\ At(g, j) => i = j
             /\ p \in Queued(link[g]) => p \in Own(link[g])
             /\ link[g].air = p => p \in Own(link[g])
  <2> DEFINE x == Len(link[g].data)
             y == Len(link[g].ctrl)
  <2>1. /\ link[g].data \in Seq(Data) /\ link[g].ctrl \in Seq(Ctrl)
        /\ IsInjective(link[g].data) /\ IsInjective(link[g].ctrl) /\ Used(link[g]) =< Room
    BY <1>1, LinkFields DEF Apart, Fine
  <2>2. /\ DOMAIN link[g].data = 1 .. x /\ DOMAIN link[g].ctrl = 1 .. y
        /\ x \in Nat /\ y \in Nat /\ x + y =< Room /\ Room \in Nat
    BY <2>1, LenProperties, SizesAssumption DEF Used
  <2> HIDE DEF x, y
  <2>3. DOMAIN link[g].data \subseteq 1 .. Room /\ DOMAIN link[g].ctrl \subseteq 1 .. Room
    BY <2>2
  <2>4. p \in Queued(link[g]) <=> \E i \in 1 .. Room : At(g, i)
    BY <2>3 DEF Queued, Range
  <2>5. Range(link[g].data) \subseteq Data /\ Range(link[g].ctrl) \subseteq Ctrl
    BY <2>1, Members
  <2>6. ASSUME NEW i, NEW j, At(g, i), At(g, j) PROVE i = j
    <3>1. ~ (p \in Range(link[g].data) /\ p \in Range(link[g].ctrl))
      BY <2>5, PacketsAssumption
    <3>2. CASE i \in DOMAIN link[g].data /\ link[g].data[i] = p
      <4>1. j \in DOMAIN link[g].data /\ link[g].data[j] = p
        BY <2>6, <3>1, <3>2 DEF Range
      <4> QED
        BY <2>1, <3>2, <4>1 DEF IsInjective
    <3>3. CASE i \in DOMAIN link[g].ctrl /\ link[g].ctrl[i] = p
      <4>1. j \in DOMAIN link[g].ctrl /\ link[g].ctrl[j] = p
        BY <2>6, <3>1, <3>3 DEF Range
      <4> QED
        BY <2>1, <3>3, <4>1 DEF IsInjective
    <3> QED
      BY <2>6, <3>2, <3>3
  <2> QED
    BY <1>1, <2>4, <2>6 DEF Own
<1>3. \A g, h \in Gens : p \in Own(link[g]) /\ p \in Own(link[h]) => g = h
  BY <1>1 DEF Apart
<1> HIDE DEF At
<1>4. Cardinality(X) = IF \E g \in Gens : p \in Queued(link[g]) THEN 1 ELSE 0
  <2>1. CASE \E g \in Gens : p \in Queued(link[g])
    <3>1. PICK g \in Gens : p \in Queued(link[g])
      BY <2>1
    <3>2. PICK i \in 1 .. Room : At(g, i)
      BY <1>2, <3>1
    <3>3. \A h \in Gens, j \in 1 .. Room : At(h, j) => h = g /\ j = i
      BY <1>2, <1>3, <3>1, <3>2
    <3>4. X = {<<g, i>>}
      BY <3>2, <3>3
    <3> QED
      BY <2>1, <3>4, FS_Singleton
  <2>2. CASE ~ \E g \in Gens : p \in Queued(link[g])
    <3>1. X = {}
      BY <1>2, <2>2
    <3> QED
      BY <2>2, <3>1, FS_EmptySet
  <2> QED
    BY <2>1, <2>2
<1>5. Cardinality(Y) = IF \E g \in Gens : link[g].air = p THEN 1 ELSE 0
  <2>1. CASE \E g \in Gens : link[g].air = p
    <3>1. PICK g \in Gens : link[g].air = p
      BY <2>1
    <3>2. Y = {g}
      BY <1>2, <1>3, <3>1
    <3> QED
      BY <2>1, <3>2, FS_Singleton
  <2>2. CASE ~ \E g \in Gens : link[g].air = p
    <3>1. Y = {}
      BY <2>2
    <3> QED
      BY <2>2, <3>1, FS_EmptySet
  <2> QED
    BY <2>1, <2>2
<1>6. Cardinality({i \in DOMAIN hold : hold[i] = p}) = IF p \in Range(hold) THEN 1 ELSE 0
  BY <1>1, CountInQueue DEF Count, Typed, Apart
<1> QED
  BY <1>4, <1>5, <1>6 DEF At

LEMMA SlotsBalance == Slots => BooksBalance
<1> SUFFICES ASSUME Slots PROVE BooksBalance
  OBVIOUS
<1>1. Typed /\ Apart /\ LiveAre /\ Numbered /\ EntitiesExact /\ EntityCap
  BY DEF Slots, Sound
<1>2. TypeOK
  <2>1. ASSUME NEW g \in Gens
        PROVE  /\ link[g].dir \in Dirs \cup {None} /\ link[g].peer \in Peers \cup {None}
               /\ link[g].retired \in BOOLEAN /\ link[g].poked \in BOOLEAN
               /\ link[g].data \in Seq(Data) /\ link[g].ctrl \in Seq(Ctrl)
               /\ link[g].air \in Packets \cup {None} /\ link[g].until \in Nat \cup {None}
               /\ link[g].blockers \subseteq Gens /\ link[g].phase \in Phases
    BY <1>1, LinkFields DEF Typed
  <2> QED
    BY <1>1, <2>1 DEF TypeOK, Typed, Numbered
<1>3. PacketOnce
  <2> SUFFICES ASSUME NEW p \in Packets
               PROVE  Cardinality({x \in Gens \X (1 .. Room) :
                          \/ x[2] \in DOMAIN link[x[1]].data /\ link[x[1]].data[x[2]] = p
                          \/ x[2] \in DOMAIN link[x[1]].ctrl /\ link[x[1]].ctrl[x[2]] = p})
                      + Cardinality({g \in Gens : link[g].air = p})
                      + Cardinality({i \in DOMAIN hold : hold[i] = p})
                      = IF fate[p] = "live" THEN 1 ELSE 0
    BY DEF PacketOnce
  <2>1. p # None
    BY NoneAssumption
  <2>2. \A g \in Gens : p \in Own(link[g]) <=> p \in Queued(link[g]) \/ link[g].air = p
    BY <2>1 DEF Own
  <2>3. fate[p] = "live" <=> p \in Range(hold) \/ \E g \in Gens : p \in Own(link[g])
    BY <1>1 DEF LiveAre
  <2>4. \A g \in Gens : p \in Own(link[g]) =>
          /\ p \notin Range(hold) /\ ~ (p \in Queued(link[g]) /\ link[g].air = p)
          /\ \A h \in Gens : p \in Own(link[h]) => h = g
    BY <1>1 DEF Apart, Fine
  <2> DEFINE q == \E g \in Gens : p \in Queued(link[g])
             t == \E g \in Gens : link[g].air = p
             h == p \in Range(hold)
  <2>5. (fate[p] = "live" <=> q \/ t \/ h) /\ ~ (q /\ t) /\ ~ (q /\ h) /\ ~ (t /\ h)
    BY <2>2, <2>3, <2>4
  <2>6. (IF q THEN 1 ELSE 0) + (IF t THEN 1 ELSE 0) + (IF h THEN 1 ELSE 0)
        = IF fate[p] = "live" THEN 1 ELSE 0
    <3> HIDE DEF q, t, h
    <3> QED
      BY <2>5
  <2> QED
    BY <2>6, PacketCounted
<1>4. QueuesFit
  BY <1>1 DEF Apart, Fine, QueuesFit
<1> QED
  BY <1>1, <1>2, <1>3, <1>4 DEF BooksBalance

\* Decisions, rematches, expiries and reclaimed links keep the books: a packet
\* in the egress of a satellite is in one place, the queues are within their
\* bounds, and the count of live entities is exact and under max_entities.
THEOREM BooksBalanceAlways == Spec => []BooksBalance
BY SlotsInvariant, SlotsBalance, PTL

\* When the clock moves, every server that holds a packet past its deadline is
\* transmitting: the timers of the waiting ones miss no deadline or TTL.
THEOREM ExpiresInTimeAlways == Spec => ExpiresInTime
<1>1. ASSUME Slots, [Next]_vars
      PROVE  [now' # now => \A g \in Gens : \A p \in Queued(link[g]) :
                Expired(p) => link[g].phase = "tx"]_vars
  <2> SUFFICES ASSUME Next, now' # now, NEW g \in Gens, NEW p \in Queued(link[g]), Expired(p),
                      link[g].phase # "tx"
               PROVE  FALSE
    BY <1>1 DEF vars
  <2>1. Typed /\ Waiting(g, link[g]) /\ link[g] \in Links
    BY <1>1 DEF Slots, Waits, Typed
  <2>2. now < Horizon /\ ~ Resumable(g)
    BY DEF Next, RunServer, PutCtrl, Decide, Rematch, EnsureEndpoint, Advance, Settled, Stopped, vars
  <2>3. now \in Nat /\ Horizon \in Nat /\ Expiry[p] \in Nat /\ now >= Expiry[p]
    BY <2>1, OwnIs, PacketsAssumption, SizesAssumption DEF Typed, Expired
  <2>4. link[g].phase \in Phases /\ link[g].until \in Nat \cup {None}
    BY <2>1, LinkFields
  <2>5. link[g].phase \in {"gate", "down"} /\ Covered(link[g]) /\ link[g].until # now
    BY <2>1, <2>2, <2>4 DEF Resumable, Waiting, Phases
  <2> QED
    BY <2>2, <2>3, <2>4, <2>5 DEF Covered
<1> QED
  BY <1>1, SlotsInvariant, PTL DEF Spec, ExpiresInTime

\* When the clock moves, a generation with packets, its link up and its
\* transceiver free is transmitting: no wake-up is ever lost.
THEOREM NoIdleTransceiverAlways == Spec => NoIdleTransceiver
<1>1. ASSUME Slots, [Next]_vars
      PROVE  [now' # now => \A g \in Gens :
                Queued(link[g]) # {} /\ Available(link[g]) /\ OlderBusy(g) = {} => link[g].phase = "tx"]_vars
  <2> SUFFICES ASSUME Next, now' # now, NEW g \in Gens, Queued(link[g]) # {}, Available(link[g]),
                      OlderBusy(g) = {}, link[g].phase # "tx"
               PROVE  FALSE
    BY <1>1 DEF vars
  <2>1. Typed /\ Standing /\ Waiting(g, link[g]) /\ link[g] \in Links
    BY <1>1 DEF Slots, Waits, Typed
  <2>2. ~ Resumable(g)
    BY DEF Next, RunServer, PutCtrl, Decide, Rematch, EnsureEndpoint, Advance, Settled, Stopped, vars
  <2>3. link[g].phase \in Phases
    BY <2>1, LinkFields
  <2>4. link[g].phase = "gate" /\ link[g].blockers \cap retired # {}
    BY <2>1, <2>2, <2>3 DEF Resumable, Waiting, Phases
  <2>5. PICK h \in link[g].blockers : h \in retired
    BY <2>4
  <2>6. link[h].dir = link[g].dir /\ h < g /\ ~ Drained(link[h])
    BY <2>1, <2>4, <2>5 DEF Waiting, Standing
  <2> QED
    BY <2>5, <2>6 DEF OlderBusy
<1> QED
  BY <1>1, SlotsInvariant, PTL DEF Spec, NoIdleTransceiver

=============================================================================
