-------------------------- MODULE FairAccessProofs --------------------------
(***************************************************************************)
(* The slot bookkeeping of FairAccess is right for every number of         *)
(* endpoints, satellites and slots: a satellite's slots are its links, it  *)
(* never has more than K, and no endpoint has two non-retiring links.      *)
(*                                                                         *)
(* Good(a) is the inductive invariant, on the access state alone: every    *)
(* handler is a composition of a few operators, and there is one lemma per *)
(* operator.  Beyond the three properties it needs the insertion ranks of  *)
(* a wait queue to be distinct, or the loop of AccessTickSat could grant   *)
(* two endpoints of one rank in the last free slot.                        *)
(*                                                                         *)
(* Four parts follow, each with an invariant that rests on this one: the   *)
(* services and the retirement of their links (ServiceInv), the order of   *)
(* grants (QueueOrder), where the packets are (KeepInv), and the waking of *)
(* the uplink servers (WakeInv).                                           *)
(***************************************************************************)
EXTENDS FairAccess, FiniteSetTheorems, SequenceTheorems, TLAPS

Fields == {"links", "slots", "wait", "requests", "queue", "assigned", "asleep", "watch"}

Typed(a) ==
  /\ DOMAIN a = Fields
  /\ a.links \in [Cells -> [Sats -> Links]]
  /\ a.slots \in [Sats -> SUBSET Cells]
  /\ a.wait \in [Sats -> [Cells -> Requests \cup {None}]]
  /\ a.requests \in Nat

SlotsMatch(a) == \A s \in Sats, c \in Cells : c \in a.slots[s] <=> s \in Linked(a, c)
WithinSlots(a) == \A s \in Sats : Cardinality(a.slots[s]) =< Slots
OnePrimary(a) == \A c \in Cells : \A r, s \in Primaries(a, c) : r = s
RanksDistinct(a) ==
  \A s \in Sats : \A c \in Waiters(a, s) :
    /\ a.wait[s][c].n < a.requests
    /\ \A d \in Waiters(a, s) : a.wait[s][d].n = a.wait[s][c].n => d = c

Good(a) == Typed(a) /\ SlotsMatch(a) /\ WithinSlots(a) /\ OnePrimary(a) /\ RanksDistinct(a)

-----------------------------------------------------------------------------
\* A state that differs in the queues and the wakes only is as good.
LEMMA SameLinks ==
  ASSUME NEW a, NEW b, Good(a), DOMAIN b = Fields, b.links = a.links,
         b.slots = a.slots, b.wait = a.wait, b.requests = a.requests
  PROVE  Good(b)
BY DEF Good, Typed, SlotsMatch, WithinSlots, OnePrimary, RanksDistinct, Linked,
       Primaries, Waiters

\* Waking servers touches no link.
LEMMA PokedGood == ASSUME NEW a, NEW S, Good(a) PROVE Good(Poked(a, S))
<1>1. DOMAIN a = Fields
  BY DEF Good, Typed
<1> QED
  BY <1>1, SameLinks DEF Poked, Fields

\* Unassigning packets touches no link.
LEMMA UnassignedGood ==
  ASSUME NEW a, NEW c, NEW s, Good(a) PROVE Good(Unassigned(a, c, s))
<1>1. DOMAIN a = Fields
  BY DEF Good, Typed
<1> QED
  BY <1>1, SameLinks DEF Unassigned, Fields

\* Every slot set is finite.
LEMMA SlotsFinite ==
  ASSUME NEW a, Typed(a), NEW s \in Sats
  PROVE  IsFiniteSet(a.slots[s]) /\ Cardinality(a.slots[s]) \in Nat
<1>1. a.slots[s] \in SUBSET Cells
  BY DEF Typed
<1> QED
  BY <1>1, CellsAssumption, FS_Subset, FS_CardinalityType

\* A new link of an endpoint without a non-retiring one, on a satellite with
\* a free slot, keeps the invariant.
LEMMA AssociatedGood ==
  ASSUME NEW a, NEW c \in Cells, NEW s \in Sats, Good(a), now \in Nat,
         Primaries(a, c) = {}, Free(a, s)
  PROVE  Good(Associated(a, c, s))
<1> DEFINE link == [state |-> IF Acquisition = 0 THEN "active" ELSE "acquiring",
                    since |-> now, due |-> now + Acquisition]
           b == [a EXCEPT !.links[c][s] = link, !.slots[s] = @ \cup {c}]
<1>1. link \in Links /\ link.state \in {"acquiring", "active"}
  BY ConfigAssumption DEF Links
<1>2. Typed(a) /\ Typed(b)
  BY <1>1 DEF Good, Typed, Fields
<1>3. b.links = [a.links EXCEPT ![c][s] = link] /\ b.slots = [a.slots EXCEPT ![s] = @ \cup {c}]
      /\ b.wait = a.wait /\ b.requests = a.requests
  BY <1>2 DEF Typed, Fields
<1> HIDE DEF link, b
<1>4. SlotsMatch(b)
  BY <1>1, <1>2, <1>3 DEF Good, Typed, SlotsMatch, Linked
<1>5. WithinSlots(b)
  <2> SUFFICES ASSUME NEW r \in Sats PROVE Cardinality(b.slots[r]) =< Slots
    BY DEF WithinSlots
  <2>1. CASE r = s
    <3>1. b.slots[s] = a.slots[s] \cup {c}
      BY <1>2, <1>3 DEF Typed
    <3>2. Cardinality(a.slots[s]) < Slots
      BY DEF Free
    <3>3. IsFiniteSet(a.slots[s]) /\ Cardinality(a.slots[s]) \in Nat
      BY <1>2, SlotsFinite
    <3>4. Cardinality(b.slots[s]) =< Cardinality(a.slots[s]) + 1
      BY <3>1, <3>3, FS_AddElement
    <3>5. Cardinality(b.slots[s]) \in Nat
      BY <1>2, SlotsFinite
    <3> QED
      BY <2>1, <3>2, <3>3, <3>4, <3>5, ConfigAssumption
  <2>2. CASE r # s
    BY <2>2, <1>2, <1>3 DEF Typed, Good, WithinSlots
  <2> QED
    BY <2>1, <2>2
<1>6. OnePrimary(b)
  <2> SUFFICES ASSUME NEW d \in Cells, NEW p \in Primaries(b, d), NEW q \in Primaries(b, d)
               PROVE  p = q
    BY DEF OnePrimary
  <2>1. CASE d = c
    <3>1. \A r \in Primaries(b, c) : r = s
      BY <1>2, <1>3 DEF Typed, Primaries
    <3> QED
      BY <2>1, <3>1
  <2>2. CASE d # c
    <3>1. Primaries(b, d) = Primaries(a, d)
      BY <2>2, <1>2, <1>3 DEF Typed, Primaries
    <3> QED
      BY <3>1 DEF Good, OnePrimary
  <2> QED
    BY <2>1, <2>2
<1>7. RanksDistinct(b)
  BY <1>3 DEF Good, RanksDistinct, Waiters
<1>8. Good(b)
  BY <1>2, <1>4, <1>5, <1>6, <1>7 DEF Good
<1> QED
  BY <1>8, PokedGood DEF Associated, b, link

\* What a handler may do to the links besides associating: keep a link,
\* drop it with its slot, retire it, activate it.
Weaker(a, b) ==
  \A c \in Cells, s \in Sats :
    \/ b.links[c][s].state = a.links[c][s].state /\ (c \in b.slots[s] <=> c \in a.slots[s])
    \/ b.links[c][s].state = "none" /\ c \notin b.slots[s]
    \/ a.links[c][s].state # "none" /\ b.links[c][s].state = "retiring" /\ c \in b.slots[s]
    \/ a.links[c][s].state = "acquiring" /\ b.links[c][s].state = "active" /\ c \in b.slots[s]

LEMMA WeakerGood ==
  ASSUME NEW a, NEW b, Good(a), Weaker(a, b), Typed(b), b.wait = a.wait,
         b.requests = a.requests
  PROVE  Good(b)
<1>1. Typed(a)
  BY DEF Good
<1>2. SlotsMatch(b)
  <2> SUFFICES ASSUME NEW s \in Sats, NEW c \in Cells
               PROVE  c \in b.slots[s] <=> s \in Linked(b, c)
    BY DEF SlotsMatch
  <2>1. c \in a.slots[s] <=> a.links[c][s].state # "none"
    BY DEF Good, SlotsMatch, Linked
  <2>2. c \in b.slots[s] <=> b.links[c][s].state # "none"
    BY <2>1 DEF Weaker
  <2> QED
    BY <2>2 DEF Linked
<1>3. WithinSlots(b)
  <2> SUFFICES ASSUME NEW s \in Sats PROVE Cardinality(b.slots[s]) =< Slots
    BY DEF WithinSlots
  <2>1. b.slots[s] \in SUBSET a.slots[s]
    BY <1>1 DEF Good, Typed, Weaker, SlotsMatch, Linked
  <2>2. Cardinality(b.slots[s]) =< Cardinality(a.slots[s])
    BY <1>1, <2>1, SlotsFinite, FS_Subset
  <2>3. Cardinality(b.slots[s]) \in Nat /\ Cardinality(a.slots[s]) \in Nat
    BY <1>1, SlotsFinite
  <2> QED
    BY <2>2, <2>3, ConfigAssumption DEF Good, WithinSlots
<1>4. OnePrimary(b)
  <2>1. ASSUME NEW c \in Cells PROVE Primaries(b, c) \subseteq Primaries(a, c)
    BY <2>1 DEF Weaker, Primaries
  <2> QED
    BY <2>1 DEF Good, OnePrimary
<1> QED
  BY <1>2, <1>3, <1>4 DEF Good, RanksDistinct, Waiters

LEMMA ReleasedGood ==
  ASSUME NEW a, NEW c \in Cells, NEW s \in Sats, Good(a)
  PROVE  Good(Released(a, c, s)) /\ Primaries(Released(a, c, s), c) = Primaries(a, c) \ {s}
<1> DEFINE b == Released(a, c, s)
<1>1. Typed(a)
  BY DEF Good
<1>2. b.links = [a.links EXCEPT ![c][s] = NoLink] /\ b.slots = [a.slots EXCEPT ![s] = @ \ {c}]
      /\ b.wait = a.wait /\ b.requests = a.requests /\ DOMAIN b = Fields
  BY <1>1 DEF Typed, Fields, Released
<1> HIDE DEF b
<1>3. Typed(b) /\ Weaker(a, b)
  BY <1>1, <1>2 DEF Typed, NoLink, Links, Weaker
<1>4. Primaries(b, c) = Primaries(a, c) \ {s}
  BY <1>1, <1>2 DEF Typed, Primaries, NoLink
<1>5. Good(b)
  BY <1>2, <1>3, WeakerGood
<1> QED
  BY <1>4, <1>5 DEF b

LEMMA RetiredGood ==
  ASSUME NEW a, NEW c \in Cells, NEW s \in Linked(a, c), Good(a), now \in Nat
  PROVE  Good(Retired(a, c, s)) /\ Primaries(Retired(a, c, s), c) = Primaries(a, c) \ {s}
<1> DEFINE b == Retired(a, c, s)
           link == [a.links[c][s] EXCEPT !.state = "retiring", !.due = now + RetireDelay]
<1>1. Typed(a) /\ s \in Sats
  BY DEF Good, Linked
<1>2. link \in Links /\ link.state = "retiring"
  <2>1. a.links[c][s] \in Links /\ now + RetireDelay \in Nat
    BY <1>1, ConfigAssumption DEF Typed
  <2> QED
    BY <2>1 DEF Links
<1>3. b.links = [a.links EXCEPT ![c][s] = link] /\ b.slots = a.slots /\ b.wait = a.wait
      /\ b.requests = a.requests /\ DOMAIN b = Fields
  BY <1>1 DEF Typed, Fields, Retired, Links
<1> HIDE DEF b, link
<1>4. Typed(b)
  BY <1>1, <1>2, <1>3 DEF Typed
<1>5. Weaker(a, b)
  BY <1>1, <1>2, <1>3 DEF Good, Typed, SlotsMatch, Linked, Weaker
<1>6. Primaries(b, c) = Primaries(a, c) \ {s}
  BY <1>1, <1>2, <1>3 DEF Typed, Primaries
<1>7. Good(b)
  BY <1>3, <1>4, <1>5, WeakerGood
<1> QED
  BY <1>6, <1>7 DEF b

-----------------------------------------------------------------------------
\* Some element of a finite set has the greatest rank.
LEMMA MaxRank ==
  ASSUME NEW G, IsFiniteSet(G), G # {}, NEW f \in [G -> Int]
  PROVE  \E m \in G : \A g \in G : f[g] =< f[m]
<1> DEFINE above(g) == {h \in G : f[h] > f[g]}
           T == {above(g) : g \in G}
<1>1. T \subseteq FiniteSubsetsOf(G) /\ T # {}
  <2>1. ASSUME NEW g \in G PROVE above(g) \in SUBSET G /\ IsFiniteSet(above(g))
    <3>1. above(g) \in SUBSET G
      OBVIOUS
    <3> QED
      BY <3>1, FS_Subset
  <2> HIDE DEF above
  <2>2. \A U \in T : U \in SUBSET G /\ IsFiniteSet(U)
    BY <2>1
  <2>3. T # {}
    OBVIOUS
  <2> QED
    BY <2>2, <2>3 DEF FiniteSubsetsOf
<1>2. PICK U \in T : \A V \in T : <<V, U>> \notin StrictSubsetOrdering(G)
  BY <1>1, WFMin, FS_StrictSubsetOrderingWellFounded
<1>3. PICK m \in G : U = above(m)
  OBVIOUS
<1>4. ASSUME NEW g \in G, f[g] > f[m] PROVE FALSE
  <2>1. above(g) \subseteq above(m) /\ above(g) # above(m)
    BY <1>4
  <2>2. <<above(g), above(m)>> \in StrictSubsetOrdering(G)
    BY <2>1 DEF StrictSubsetOrdering
  <2> QED
    BY <1>2, <1>3, <2>2
<1> QED
  BY <1>4

\* The best elevation among some visible satellites is one of them.
LEMMA HighestType ==
  ASSUME NEW c \in Cells, sky \in Skies, NEW S \in SUBSET Visible(c), S # {}
  PROVE  Highest(c, S) \in S
<1> DEFINE q == sky[c]
           at(s) == CHOOSE i \in DOMAIN q : q[i] = s
           f == [s \in S |-> -at(s)]
<1>1. q \in Seq(Sats) /\ DOMAIN q \subseteq Int
  BY SkiesAssumption
<1>2. \A s \in S : at(s) \in DOMAIN q /\ q[at(s)] = s
  BY DEF Visible, Range
<1> HIDE DEF at
<1>3. S \subseteq Sats /\ IsFiniteSet(S)
  <2>1. S \in SUBSET Sats
    <3>1. \A i \in DOMAIN q : q[i] \in Sats
      BY <1>1
    <3> QED
      BY <3>1, <1>2
  <2> QED
    BY <2>1, SkiesAssumption, FS_Subset
<1>4. f \in [S -> Int]
  BY <1>1, <1>2
<1>5. PICK m \in S : \A s \in S : f[s] =< f[m]
  <2> HIDE DEF f
  <2> QED
    BY <1>3, <1>4, MaxRank
<1>6. \A r \in S \ {m} : Higher(c, m, r)
  <2> SUFFICES ASSUME NEW r \in S \ {m} PROVE Higher(c, m, r)
    OBVIOUS
  <2>1. at(m) \in Int /\ at(r) \in Int /\ -at(r) =< -at(m)
    BY <1>1, <1>2, <1>5
  <2>2. at(m) # at(r)
    BY <1>2
  <2>3. at(m) < at(r)
    BY <2>1, <2>2
  <2> QED
    BY <1>2, <2>3 DEF Higher
<1> QED
  BY <1>6 DEF Highest

LEMMA FirstCandidateType ==
  ASSUME NEW c \in Cells, sky \in Skies, NEW S \in SUBSET Visible(c), S # {}
  PROVE  FirstCandidate(c, S) \in S
<1>1. S \cap DownlinkDemandSats(c) \in SUBSET Visible(c)
  OBVIOUS
<1> QED
  BY <1>1, HighestType DEF FirstCandidate

LEMMA VisibleType ==
  ASSUME NEW c \in Cells, sky \in Skies PROVE Visible(c) \subseteq Sats
BY SkiesAssumption DEF Visible, Range

-----------------------------------------------------------------------------
(* Requests and grants.                                                    *)

\* Requests only disappear.
LEMMA WithdrawnGood ==
  ASSUME NEW a, NEW b, Good(a), DOMAIN b = Fields, b.links = a.links, b.slots = a.slots,
         b.requests = a.requests, b.wait \in [Sats -> [Cells -> Requests \cup {None}]],
         \A s \in Sats, c \in Cells : b.wait[s][c] \in {None, a.wait[s][c]}
  PROVE  Good(b)
<1>1. RanksDistinct(b)
  BY DEF Good, RanksDistinct, Waiters
<1> QED
  BY <1>1 DEF Good, Typed, SlotsMatch, WithinSlots, OnePrimary, Linked, Primaries

LEMMA TryGrantGood ==
  ASSUME NEW a, NEW c \in Cells, Good(a), now \in Nat, sky \in Skies, Primaries(a, c) = {}
  PROVE  Good(TryGrant(a, c))
<1>1. CASE Grantable(a, c) = {}
  BY <1>1 DEF TryGrant
<1>2. CASE Grantable(a, c) # {}
  <2> DEFINE s == FirstCandidate(c, Grantable(a, c))
             b == [a EXCEPT !.wait = [r \in Sats |-> [@[r] EXCEPT ![c] = None]]]
  <2>1. s \in Sats /\ Free(a, s)
    <3>1. Grantable(a, c) \in SUBSET Visible(c)
      BY DEF Grantable
    <3>2. s \in Grantable(a, c)
      BY <1>2, <3>1, FirstCandidateType
    <3> QED
      BY <3>2, VisibleType DEF Grantable
  <2>2. b.links = a.links /\ b.slots = a.slots /\ b.requests = a.requests /\ DOMAIN b = Fields
        /\ b.wait = [r \in Sats |-> [a.wait[r] EXCEPT ![c] = None]]
    BY DEF Good, Typed, Fields
  <2>3. Good(b) /\ Free(b, s) /\ Primaries(b, c) = {}
    <3> HIDE DEF b, s
    <3>1. b.wait \in [Sats -> [Cells -> Requests \cup {None}]]
      BY <2>2 DEF Good, Typed
    <3>2. \A r \in Sats, d \in Cells : b.wait[r][d] \in {None, a.wait[r][d]}
      BY <2>2 DEF Good, Typed
    <3>3. Good(b)
      BY <2>2, <3>1, <3>2, WithdrawnGood
    <3> QED
      BY <2>1, <2>2, <3>3 DEF Free, Primaries
  <2> HIDE DEF b, s
  <2>4. Good(Associated(b, c, s))
    BY <2>1, <2>3, AssociatedGood
  <2> QED
    BY <1>2, <2>4 DEF TryGrant, Granted, b, s
<1> QED
  BY <1>1, <1>2

LEMMA RequestOrGrantGood ==
  ASSUME NEW a, NEW c \in Cells, Good(a), now \in Nat, sky \in Skies, Primaries(a, c) = {}
  PROVE  Good(RequestOrGrant(a, c))
<1>1. CASE Grantable(a, c) # {}
  BY <1>1, TryGrantGood DEF RequestOrGrant
<1>2. CASE Grantable(a, c) = {}
  <2> DEFINE s == FirstCandidate(c, Visible(c))
             b == [a EXCEPT !.wait[s][c] = [t |-> now, n |-> a.requests], !.requests = @ + 1]
  <2>1. CASE Visible(c) # {}
    <3>1. s \in Sats
      BY <2>1, FirstCandidateType, VisibleType
    <3>2. b.links = a.links /\ b.slots = a.slots /\ DOMAIN b = Fields
          /\ b.wait = [a.wait EXCEPT ![s][c] = [t |-> now, n |-> a.requests]]
          /\ b.requests = a.requests + 1
      BY DEF Good, Typed, Fields
    <3> HIDE DEF b, s
    <3>3. Typed(b)
      BY <3>1, <3>2 DEF Good, Typed, Requests
    <3>4. RanksDistinct(b)
      <4> SUFFICES ASSUME NEW r \in Sats, NEW d \in Waiters(b, r)
                   PROVE  /\ b.wait[r][d].n < b.requests
                          /\ \A e \in Waiters(b, r) : b.wait[r][e].n = b.wait[r][d].n => e = d
        BY DEF RanksDistinct
      <4>1. \A e \in Waiters(b, r) :
              \/ r = s /\ e = c /\ b.wait[r][e].n = a.requests
              \/ e \in Waiters(a, r) /\ b.wait[r][e] = a.wait[r][e] /\ ~ (r = s /\ e = c)
        BY <3>1, <3>2 DEF Good, Typed, Waiters
      <4>2. \A e \in Waiters(a, r) : a.wait[r][e].n \in Nat /\ a.wait[r][e].n < a.requests
        BY DEF Good, Typed, RanksDistinct, Waiters, Requests
      <4>3. a.requests \in Nat
        BY DEF Good, Typed
      <4> QED
        BY <3>2, <4>1, <4>2, <4>3 DEF Good, RanksDistinct
    <3>5. Good(b)
      BY <3>2, <3>3, <3>4 DEF Good, SlotsMatch, WithinSlots, OnePrimary, Linked, Primaries
    <3> QED
      BY <1>2, <2>1, <3>5 DEF RequestOrGrant, b, s
  <2> QED
    BY <1>2, <2>1 DEF RequestOrGrant
<1> QED
  BY <1>1, <1>2

-----------------------------------------------------------------------------
(* The endpoint ticker.                                                    *)

LEMMA RotateOrLeaveGood ==
  ASSUME NEW a, NEW c \in Cells, Good(a), now \in Nat
  PROVE  Good(RotateOrLeave(a, c))
<1> DEFINE contended == {s \in Sats : a.links[c][s].state = "active" /\ Waiters(a, s) # {}}
           rotate == {s \in contended : LeaseOver(a, c, s)}
           leave == IF Idle(a, c) /\ now - busy[c] >= IdleRelease
                    THEN contended \ rotate ELSE {}
           turned(s) == IF s \in rotate
                        THEN [a.links[c][s] EXCEPT !.state = "retiring", !.due = now + RetireDelay]
                        ELSE IF s \in leave THEN NoLink ELSE a.links[c][s]
           b == RotateOrLeave(a, c)
<1>1. Typed(a)
  BY DEF Good
<1>2. /\ DOMAIN b = Fields /\ b.wait = a.wait /\ b.requests = a.requests
      /\ b.links = [a.links EXCEPT ![c] = [s \in Sats |-> turned(s)]]
      /\ b.slots = [s \in Sats |-> IF s \in leave THEN a.slots[s] \ {c} ELSE a.slots[s]]
  BY <1>1 DEF Typed, Fields, RotateOrLeave
<1>3. ASSUME NEW s \in Sats
      PROVE  /\ turned(s) \in Links
             /\ \/ turned(s) = a.links[c][s] /\ s \notin leave
                \/ turned(s).state = "none" /\ s \in leave
                \/ a.links[c][s].state # "none" /\ turned(s).state = "retiring" /\ s \notin leave
  <2>1. a.links[c][s] \in Links /\ now + RetireDelay \in Nat
    BY <1>1, ConfigAssumption DEF Typed
  <2>2. rotate \cap leave = {} /\ \A r \in rotate : a.links[c][r].state # "none"
    OBVIOUS
  <2> HIDE DEF rotate, leave
  <2> QED
    BY <2>1, <2>2 DEF Links, NoLink
<1> HIDE DEF b, turned, leave
<1>4. Typed(b)
  BY <1>1, <1>2, <1>3 DEF Typed
<1>5. Weaker(a, b)
  <2> SUFFICES ASSUME NEW d \in Cells, NEW s \in Sats
               PROVE  \/ b.links[d][s].state = a.links[d][s].state
                         /\ (d \in b.slots[s] <=> d \in a.slots[s])
                      \/ b.links[d][s].state = "none" /\ d \notin b.slots[s]
                      \/ a.links[d][s].state # "none" /\ b.links[d][s].state = "retiring"
                         /\ d \in b.slots[s]
    BY DEF Weaker
  <2>1. CASE d # c
    BY <1>1, <1>2, <2>1 DEF Typed
  <2>2. CASE d = c
    <3>1. b.links[c][s] = turned(s)
      BY <1>1, <1>2 DEF Typed
    <3>2. c \in b.slots[s] <=> c \in a.slots[s] /\ s \notin leave
      BY <1>2
    <3>3. c \in a.slots[s] <=> a.links[c][s].state # "none"
      BY DEF Good, SlotsMatch, Linked
    <3> QED
      BY <1>3, <2>2, <3>1, <3>2, <3>3
  <2> QED
    BY <2>1, <2>2
<1>6. Good(b)
  BY <1>2, <1>4, <1>5, WeakerGood
<1> QED
  BY <1>6 DEF b

LEMMA AccessTickEndpointGood ==
  ASSUME NEW a, NEW c \in Cells, Good(a), now \in Nat, sky \in Skies
  PROVE  Good(AccessTickEndpoint(a, c))
<1> DEFINE b == RotateOrLeave(a, c)
<1>1. Good(b)
  BY RotateOrLeaveGood
<1> HIDE DEF b
<1>2. Linked(b, c) = {} => Primaries(b, c) = {}
  BY DEF Linked, Primaries
<1>3. Linked(b, c) = {} => Good(RequestOrGrant(b, c)) /\ Good(TryGrant(b, c))
  BY <1>1, <1>2, RequestOrGrantGood, TryGrantGood
<1> QED
  BY <1>1, <1>3 DEF AccessTickEndpoint, b

LEMMA SettleRetiringGood ==
  ASSUME NEW a, NEW c \in Cells, Good(a)
  PROVE  Good(SettleRetiring(a, c))
<1> DEFINE drained(s) == \A p \in Range(a.queue[c]) : a.assigned[p] # s
           gone == {s \in Retiring(a, c) :
                      ~ InService(c, s) /\ (drained(s) \/ now >= a.links[c][s].due)}
           b == SettleRetiring(a, c)
<1>1. Typed(a)
  BY DEF Good
<1>2. /\ DOMAIN b = Fields /\ b.wait = a.wait /\ b.requests = a.requests
      /\ b.links = [a.links EXCEPT ![c] = [s \in Sats |-> IF s \in gone THEN NoLink ELSE @[s]]]
      /\ b.slots = [s \in Sats |-> IF s \in gone THEN a.slots[s] \ {c} ELSE a.slots[s]]
  BY <1>1 DEF Typed, Fields, SettleRetiring
<1> HIDE DEF b, gone
<1>3. Typed(b)
  BY <1>1, <1>2 DEF Typed, NoLink, Links
<1>4. Weaker(a, b)
  <2> SUFFICES ASSUME NEW d \in Cells, NEW s \in Sats
               PROVE  \/ b.links[d][s].state = a.links[d][s].state
                         /\ (d \in b.slots[s] <=> d \in a.slots[s])
                      \/ b.links[d][s].state = "none" /\ d \notin b.slots[s]
    BY DEF Weaker
  <2>1. b.slots[s] = IF s \in gone THEN a.slots[s] \ {c} ELSE a.slots[s]
    BY <1>2
  <2>2. b.links[d][s] = IF d = c /\ s \in gone THEN NoLink ELSE a.links[d][s]
    BY <1>1, <1>2 DEF Typed
  <2> QED
    BY <2>1, <2>2 DEF NoLink
<1>5. Good(b)
  BY <1>2, <1>3, <1>4, WeakerGood
<1> QED
  BY <1>5 DEF b

\* primary_link() is a non-retiring link, whenever there is one.
LEMMA PrimaryType ==
  ASSUME NEW a, NEW c \in Cells, Good(a), Primaries(a, c) # {}
  PROVE  Primary(a, c) \in Primaries(a, c) /\ Primaries(a, c) = {Primary(a, c)}
<1>1. PICK s \in Primaries(a, c) : TRUE
  OBVIOUS
<1>2. Primaries(a, c) = {s} /\ s \in Sats
  BY DEF Good, OnePrimary, Primaries
<1>3. a.links[c][s].since \in Nat
  BY <1>2 DEF Good, Typed, Links
<1>4. \A r \in Primaries(a, c) : a.links[c][r].since =< a.links[c][s].since
  BY <1>2, <1>3
<1>5. Primary(a, c) \in Primaries(a, c)
  BY <1>4 DEF Primary
<1> QED
  BY <1>2, <1>5

LEMMA SwitchToGood ==
  ASSUME NEW a, NEW c \in Cells, NEW target \in Sats, Good(a), now \in Nat,
         Primaries(a, c) # {}, target # Primary(a, c), Free(a, target)
  PROVE  Good(SwitchTo(a, c, Primary(a, c), target))
<1> DEFINE cur == Primary(a, c)
           d == Retired(a, c, cur)
           b == [d EXCEPT !.assigned =
                   [p \in Packets |-> IF p \in Range(a.queue[c]) /\ @[p] = None
                                      THEN cur ELSE @[p]]]
           e == Released(a, c, cur)
<1>1. cur \in Linked(a, c) /\ Primaries(a, c) = {cur} /\ cur \in Sats /\ Typed(a)
  BY PrimaryType DEF Primaries, Linked, Good
<1>2. Good(d) /\ Primaries(d, c) = {} /\ Good(e) /\ Primaries(e, c) = {}
  BY <1>1, RetiredGood, ReleasedGood
<1>3. d.slots = a.slots /\ e.slots = [a.slots EXCEPT ![cur] = @ \ {c}]
  BY <1>1 DEF Typed, Fields, Retired, Released
<1>4. Good(Associated(b, c, target))
  <2>1. /\ DOMAIN b = Fields /\ b.links = d.links /\ b.slots = d.slots
        /\ b.wait = d.wait /\ b.requests = d.requests
    BY <1>2 DEF Good, Typed, Fields
  <2> HIDE DEF b, d
  <2>2. Good(b)
    BY <1>2, <2>1, SameLinks
  <2>3. Primaries(b, c) = {} /\ Free(b, target)
    BY <1>2, <1>3, <2>1 DEF Primaries, Free
  <2> QED
    BY <2>2, <2>3, AssociatedGood
<1>5. Good(Associated(e, c, target))
  <2>1. e.slots[target] = a.slots[target]
    BY <1>1, <1>3 DEF Typed
  <2> HIDE DEF e
  <2>2. Free(e, target)
    BY <2>1 DEF Free
  <2> QED
    BY <1>2, <2>2, AssociatedGood
<1> QED
  BY <1>4, <1>5 DEF SwitchTo

LEMMA EvaluateHandoverGood ==
  ASSUME NEW a, NEW c \in Cells, NEW steep, Good(a), now \in Nat, sky \in Skies
  PROVE  Good(EvaluateHandover(a, c, steep))
<1> DEFINE b == SettleRetiring(a, c)
           cur == Primary(b, c)
           targets == {s \in Visible(c) \ {cur} : Free(b, s)}
<1>1. Good(b)
  BY SettleRetiringGood
<1> HIDE DEF b
<1>2. CASE Primaries(b, c) = {} \/ ~ WantsSwitch(b, c, steep)
  BY <1>1, <1>2 DEF EvaluateHandover, b
<1>3. CASE Primaries(b, c) # {}
  <2>1. cur \in Sats
    BY <1>1, <1>3, PrimaryType DEF Primaries
  <2>2. Good(Released(b, c, cur))
    BY <1>1, <2>1, ReleasedGood
  <2>3. targets # {} => Good(SwitchTo(b, c, cur, Highest(c, targets)))
    <3>1. targets \in SUBSET Visible(c)
      OBVIOUS
    <3>2. targets # {} => Highest(c, targets) \in targets
      BY <3>1, HighestType
    <3> QED
      BY <1>1, <1>3, <3>2, VisibleType, SwitchToGood
  <2> QED
    BY <1>1, <2>2, <2>3 DEF EvaluateHandover, b
<1> QED
  BY <1>2, <1>3

-----------------------------------------------------------------------------
(* The satellite ticker.                                                   *)

\* The endpoints one pass grants fit in the slots: all but the last to be
\* granted are ahead of it and wanted, and it saw room left for itself.
LEMMA GrantsFit ==
  ASSUME NEW a, NEW s \in Sats, Good(a),
         NEW wanted \in SUBSET Waiters(a, s), NEW granted \in SUBSET wanted,
         \A c \in granted :
           Cardinality(a.slots[s] \cup ({d \in Waiters(a, s) :
               a.wait[s][d].n < a.wait[s][c].n} \cap wanted)) < Slots
  PROVE  Cardinality(a.slots[s] \cup granted) =< Slots
<1>1. CASE granted = {}
  <2>1. a.slots[s] \cup granted = a.slots[s]
    BY <1>1
  <2> QED
    BY <2>1 DEF Good, WithinSlots
<1>2. CASE granted # {}
  <2> DEFINE f == [c \in granted |-> a.wait[s][c].n]
  <2>1. Waiters(a, s) \subseteq Cells /\ \A c \in Waiters(a, s) : a.wait[s][c] \in Requests
    BY DEF Waiters, Good, Typed
  <2>2. IsFiniteSet(granted)
    BY <2>1, CellsAssumption, FS_Subset
  <2>3. f \in [granted -> Int]
    BY <2>1 DEF Requests
  <2>4. PICK m \in granted : \A g \in granted : f[g] =< f[m]
    <3> HIDE DEF f
    <3> QED
      BY <1>2, <2>2, <2>3, MaxRank
  <2> DEFINE ahead == {d \in Waiters(a, s) : a.wait[s][d].n < a.wait[s][m].n}
             base == a.slots[s] \cup (ahead \cap wanted)
  <2>5. a.slots[s] \cup granted \in SUBSET (base \cup {m})
    <3>1. ASSUME NEW g \in granted, g # m PROVE g \in ahead
      <4>1. a.wait[s][g].n =< a.wait[s][m].n
        BY <2>4
      <4>2. a.wait[s][g].n # a.wait[s][m].n
        BY <3>1 DEF Good, RanksDistinct
      <4>3. a.wait[s][g].n \in Nat /\ a.wait[s][m].n \in Nat
        BY <2>1 DEF Requests
      <4> QED
        BY <4>1, <4>2, <4>3
    <3> QED
      BY <3>1
  <2>6. IsFiniteSet(base) /\ Cardinality(base) \in Nat /\ Cardinality(base) < Slots
    <3>1. a.slots[s] \in SUBSET Cells
      BY DEF Good, Typed
    <3>2. base \in SUBSET Cells
      BY <2>1, <3>1
    <3> HIDE DEF base
    <3>3. IsFiniteSet(base) /\ Cardinality(base) \in Nat
      BY <3>2, CellsAssumption, FS_Subset, FS_CardinalityType
    <3> QED
      BY <3>3 DEF base
  <2> HIDE DEF base, ahead
  <2>7. IsFiniteSet(base \cup {m}) /\ Cardinality(base \cup {m}) =< Cardinality(base) + 1
        /\ Cardinality(base \cup {m}) \in Nat
    <3>1. IsFiniteSet(base \cup {m})
      BY <2>6, FS_AddElement
    <3>2. Cardinality(base \cup {m}) \in Nat
      BY <3>1, FS_CardinalityType
    <3>3. Cardinality(base \cup {m}) = IF m \in base THEN Cardinality(base)
                                       ELSE Cardinality(base) + 1
      BY <2>6, FS_AddElement
    <3> QED
      BY <2>6, <3>1, <3>2, <3>3
  <2>8. Cardinality(a.slots[s] \cup granted) =< Cardinality(base \cup {m})
        /\ Cardinality(a.slots[s] \cup granted) \in Nat
    BY <2>5, <2>7, FS_Subset, FS_CardinalityType
  <2> QED
    BY <2>6, <2>7, <2>8, ConfigAssumption
<1> QED
  BY <1>1, <1>2

LEMMA AccessTickSatGood ==
  ASSUME NEW a, NEW s \in Sats, Good(a), now \in Nat
  PROVE  Good(AccessTickSat(a, s))
<1> DEFINE ahead(c) == {d \in Waiters(a, s) : a.wait[s][d].n < a.wait[s][c].n}
           stale(c) == StaleRequest(a, c)
           wanted == {c \in Waiters(a, s) : ~ stale(c) /\ s \in Visible(c)}
           room(c) == Cardinality(a.slots[s] \cup (ahead(c) \cap wanted)) < Slots
           reached(c) == \A d \in ahead(c) : stale(d) \/ room(d)
           granted == {c \in wanted : reached(c) /\ room(c)}
           dropped == {c \in Waiters(a, s) : reached(c) /\ stale(c)}
           link == [state |-> IF Acquisition = 0 THEN "active" ELSE "acquiring",
                    since |-> now, due |-> now + Acquisition]
           b == [a EXCEPT
                   !.links = [c \in Cells |-> IF c \in granted
                                              THEN [@[c] EXCEPT ![s] = link] ELSE @[c]],
                   !.slots[s] = @ \cup granted,
                   !.wait[s] = [c \in Cells |-> IF c \in granted \cup dropped
                                                THEN None ELSE @[c]]]
<1>1. Typed(a) /\ link \in Links /\ link.state \in {"acquiring", "active"}
  BY ConfigAssumption DEF Good, Links
<1>2. /\ DOMAIN b = Fields /\ b.requests = a.requests
      /\ b.links = [c \in Cells |-> IF c \in granted THEN [a.links[c] EXCEPT ![s] = link]
                                    ELSE a.links[c]]
      /\ b.slots = [a.slots EXCEPT ![s] = @ \cup granted]
      /\ b.wait = [a.wait EXCEPT ![s] = [c \in Cells |-> IF c \in granted \cup dropped
                                                         THEN None ELSE @[c]]]
  <2> HIDE DEF granted, dropped, link
  <2> QED
    BY <1>1 DEF Typed, Fields
<1>3. Cardinality(a.slots[s] \cup granted) =< Slots
  <2>1. wanted \in SUBSET Waiters(a, s) /\ granted \in SUBSET wanted
    OBVIOUS
  <2>2. \A c \in granted : room(c)
    OBVIOUS
  <2> HIDE DEF wanted, granted, reached
  <2> QED
    BY <2>1, <2>2, GrantsFit
<1>4. granted \in SUBSET Cells /\ \A c \in granted : Primaries(a, c) = {}
  BY DEF Waiters, StaleRequest
<1> HIDE DEF granted, dropped, link, b
<1>5. Typed(b)
  BY <1>1, <1>2, <1>4 DEF Typed
<1>6. SlotsMatch(b)
  <2> SUFFICES ASSUME NEW r \in Sats, NEW c \in Cells
               PROVE  c \in b.slots[r] <=> b.links[c][r].state # "none"
    BY DEF SlotsMatch, Linked
  <2>1. c \in a.slots[r] <=> a.links[c][r].state # "none"
    BY DEF Good, SlotsMatch, Linked
  <2>2. b.slots[r] = IF r = s THEN a.slots[r] \cup granted ELSE a.slots[r]
    BY <1>1, <1>2 DEF Typed
  <2>3. b.links[c][r] = IF r = s /\ c \in granted THEN link ELSE a.links[c][r]
    BY <1>1, <1>2 DEF Typed
  <2> QED
    BY <1>1, <2>1, <2>2, <2>3
<1>7. WithinSlots(b)
  <2> SUFFICES ASSUME NEW r \in Sats PROVE Cardinality(b.slots[r]) =< Slots
    BY DEF WithinSlots
  <2>1. b.slots[r] = IF r = s THEN a.slots[r] \cup granted ELSE a.slots[r]
    BY <1>1, <1>2 DEF Typed
  <2> QED
    BY <1>3, <2>1 DEF Good, WithinSlots
<1>8. OnePrimary(b)
  <2> SUFFICES ASSUME NEW c \in Cells, NEW p \in Primaries(b, c), NEW q \in Primaries(b, c)
               PROVE  p = q
    BY DEF OnePrimary
  <2>1. CASE c \in granted
    <3>1. \A r \in Primaries(b, c) : r = s
      <4>1. \A r \in Sats : r # s => b.links[c][r] = a.links[c][r]
        BY <1>1, <1>2, <2>1 DEF Typed
      <4> QED
        BY <1>4, <2>1, <4>1 DEF Primaries
    <3> QED
      BY <3>1
  <2>2. CASE c \notin granted
    <3>1. Primaries(b, c) = Primaries(a, c)
      BY <1>2, <2>2 DEF Primaries
    <3> QED
      BY <3>1 DEF Good, OnePrimary
  <2> QED
    BY <2>1, <2>2
<1>9. RanksDistinct(b)
  <2>1. \A r \in Sats : \A c \in Waiters(b, r) :
          c \in Waiters(a, r) /\ b.wait[r][c] = a.wait[r][c]
    BY <1>1, <1>2 DEF Typed, Waiters
  <2> QED
    BY <1>2, <2>1 DEF Good, RanksDistinct
<1>10. Good(b)
  BY <1>5, <1>6, <1>7, <1>8, <1>9 DEF Good
<1> QED
  BY <1>10, PokedGood DEF AccessTickSat, b, granted, dropped, link

-----------------------------------------------------------------------------
(* The other handlers.                                                     *)

LEMMA ActivatedGood ==
  ASSUME NEW a, NEW c \in Cells, NEW s \in Sats, Good(a), a.links[c][s].state = "acquiring"
  PROVE  Good(Poked([a EXCEPT !.links[c][s].state = "active"], {s}))
<1> DEFINE b == [a EXCEPT !.links[c][s].state = "active"]
           link == [a.links[c][s] EXCEPT !.state = "active"]
<1>1. Typed(a)
  BY DEF Good
<1>2. /\ DOMAIN b = Fields /\ b.wait = a.wait /\ b.requests = a.requests /\ b.slots = a.slots
      /\ b.links = [a.links EXCEPT ![c][s] = link]
  BY <1>1 DEF Typed, Fields
<1>3. link \in Links /\ link.state = "active"
  <2>1. a.links[c][s] \in Links
    BY <1>1 DEF Typed
  <2> QED
    BY <2>1 DEF Links
<1> HIDE DEF b, link
<1>4. Typed(b)
  BY <1>1, <1>2, <1>3 DEF Typed
<1>5. Weaker(a, b)
  BY <1>1, <1>2, <1>3 DEF Good, Typed, SlotsMatch, Linked, Weaker
<1>6. Good(b)
  BY <1>2, <1>4, <1>5, WeakerGood
<1> QED
  BY <1>6, PokedGood DEF b

\* Also for a cell the model does not know: nothing is released then.
LEMMA OnLinkRetiredGood ==
  ASSUME NEW a, NEW c, NEW s \in Sats, Good(a)
  PROVE  Good(OnLinkRetired(a, c, s)) /\ Good(Released(Unassigned(a, c, s), c, s))
<1> DEFINE b == Unassigned(a, c, s)
<1>1. Good(b)
  BY UnassignedGood
<1> HIDE DEF b
<1>2. ASSUME c \notin Cells PROVE Good(Released(b, c, s))
  <2> DEFINE d == Released(b, c, s)
  <2>1. /\ DOMAIN d = Fields /\ d.links = b.links /\ d.slots = b.slots
        /\ d.wait = b.wait /\ d.requests = b.requests
    <3>1. Typed(b)
      BY <1>1 DEF Good
    <3>2. [b.links EXCEPT ![c][s] = NoLink] = b.links
      BY <1>2, <3>1 DEF Typed
    <3>3. c \notin b.slots[s]
      BY <1>2, <3>1 DEF Typed
    <3>4. [b.slots EXCEPT ![s] = @ \ {c}] = b.slots
      BY <3>1, <3>3 DEF Typed
    <3> QED
      BY <3>1, <3>2, <3>4 DEF Typed, Fields, Released
  <2> HIDE DEF d
  <2>2. Good(d)
    BY <1>1, <2>1, SameLinks
  <2> QED
    BY <2>2 DEF d
<1>3. Good(Released(b, c, s))
  BY <1>1, <1>2, ReleasedGood
<1> QED
  BY <1>3 DEF OnLinkRetired, b

LEMMA EnqueuedGood ==
  ASSUME NEW a, NEW c \in Cells, NEW p, Good(a), now \in Nat, sky \in Skies
  PROVE  Good(Enqueued(a, c, p))
<1> DEFINE sat == IF Primaries(a, c) # {} /\ a.links[c][Primary(a, c)].state = "active"
                  THEN Primary(a, c) ELSE None
           b == [a EXCEPT !.assigned[p] = sat, !.queue[c] = Append(@, p)]
<1>1. /\ DOMAIN b = Fields /\ b.links = a.links /\ b.slots = a.slots
      /\ b.wait = a.wait /\ b.requests = a.requests
  <2> HIDE DEF sat
  <2> QED
    BY DEF Good, Typed, Fields
<1> HIDE DEF b
<1>2. Good(b) /\ Primaries(b, c) = Primaries(a, c)
  BY <1>1, SameLinks DEF Primaries
<1>3. Primaries(a, c) = {} => Good(RequestOrGrant(b, c))
  BY <1>2, RequestOrGrantGood
<1> QED
  BY <1>2, <1>3, PokedGood DEF Enqueued, b, sat

-----------------------------------------------------------------------------
(* The invariant of the specification.                                     *)

AccessInv == now \in Nat /\ sky \in Skies /\ Good(acc)

\* What holds of the value of acc' holds of acc in the next state.
LEMMA GoodNext == ASSUME NEW x, Good(x), acc' = x PROVE Good(acc)'
BY DEF Good, Typed, SlotsMatch, WithinSlots, OnePrimary, RanksDistinct, Linked,
       Primaries, Waiters

LEMMA InitGood == Init => AccessInv
<1> SUFFICES ASSUME Init PROVE AccessInv
  OBVIOUS
<1>1. now \in Nat /\ sky \in Skies
  BY DEF Init
<1>2. /\ DOMAIN acc = Fields /\ acc.links = [c \in Cells |-> [s \in Sats |-> NoLink]]
      /\ acc.slots = [s \in Sats |-> {}] /\ acc.requests = 0
      /\ acc.wait = [s \in Sats |-> [c \in Cells |-> None]]
  BY DEF Init, Fields
<1>3. Typed(acc)
  BY <1>2 DEF Typed, NoLink, Links
<1>4. SlotsMatch(acc) /\ OnePrimary(acc) /\ RanksDistinct(acc)
  BY <1>2 DEF SlotsMatch, Linked, OnePrimary, Primaries, RanksDistinct, Waiters, NoLink
<1>5. WithinSlots(acc)
  BY <1>2, FS_EmptySet, ConfigAssumption DEF WithinSlots
<1> QED
  BY <1>1, <1>3, <1>4, <1>5 DEF AccessInv, Good

LEMMA EndpointStepGood ==
  ASSUME AccessInv, NEW c \in Cells, EndpointStep(c) PROVE AccessInv'
<1>1. ASSUME NEW steep \in BOOLEAN, EndpointTick(c, steep) PROVE AccessInv'
  <2>1. Good(EvaluateHandover(AccessTickEndpoint(acc, c), c, steep))
    BY AccessTickEndpointGood, EvaluateHandoverGood DEF AccessInv
  <2> QED
    BY <1>1, <2>1, GoodNext DEF EndpointTick, AccessInv
<1>2. ASSUME NEW s \in Sats, ActivateAfterDelay(c, s) PROVE AccessInv'
  <2>1. Good(Poked([acc EXCEPT !.links[c][s].state = "active"], {s}))
    BY <1>2, ActivatedGood DEF AccessInv, ActivateAfterDelay, ActivationDue
  <2> QED
    BY <1>2, <2>1, GoodNext DEF ActivateAfterDelay, AccessInv
<1>3. ASSUME NEW s \in Sats, FireInterrupt(c, s) PROVE AccessInv'
  <2>1. Good(Released(Unassigned(acc, c, s), c, s))
    BY OnLinkRetiredGood DEF AccessInv
  <2> QED
    BY <1>3, <2>1, GoodNext DEF FireInterrupt, AccessInv
<1>4. ASSUME NEW s \in Sats, StartUplink(c, s) PROVE AccessInv'
  <2>0. PICK i, p : acc' = [acc EXCEPT !.queue[c] = RemoveAt(@, i), !.assigned[p] = s]
    BY <1>4 DEF StartUplink
  <2> DEFINE b == [acc EXCEPT !.queue[c] = RemoveAt(@, i), !.assigned[p] = s]
  <2>1. /\ DOMAIN b = Fields /\ b.links = acc.links /\ b.slots = acc.slots
        /\ b.wait = acc.wait /\ b.requests = acc.requests
    BY DEF AccessInv, Good, Typed, Fields
  <2>2. acc' = b
    BY <2>0
  <2> HIDE DEF b
  <2>3. Good(b)
    BY <2>1, SameLinks DEF AccessInv
  <2> QED
    BY <1>4, <2>2, <2>3, GoodNext DEF StartUplink, AccessInv
<1> QED
  BY <1>1, <1>2, <1>3, <1>4 DEF EndpointStep

LEMMA SatStepGood ==
  ASSUME AccessInv, NEW s \in Sats, SatStep(s) PROVE AccessInv'
<1>1. CASE SatTick(s)
  <2>1. Good(AccessTickSat(acc, s))
    BY AccessTickSatGood DEF AccessInv
  <2> QED
    BY <1>1, <2>1, GoodNext DEF SatTick, AccessInv
<1>2. CASE SleepUplink(s)
  <2> DEFINE b == [acc EXCEPT !.asleep[s] = TRUE,
                              !.watch[s] = {c \in Cells : acc.queue[c] # <<>>}]
  <2>1. /\ DOMAIN b = Fields /\ b.links = acc.links /\ b.slots = acc.slots
        /\ b.wait = acc.wait /\ b.requests = acc.requests
    BY DEF AccessInv, Good, Typed, Fields
  <2>2. acc' = b
    BY <1>2 DEF SleepUplink
  <2> HIDE DEF b
  <2>3. Good(b)
    BY <2>1, SameLinks DEF AccessInv
  <2> QED
    BY <1>2, <2>2, <2>3, GoodNext DEF SleepUplink, AccessInv
<1>3. CASE UplinkRetired(s)
  <2> DEFINE c == up[s].cell
             b == Requeued(acc, c, up[s].pkt)
             d == OnLinkRetired(b, c, s)
  <2>1. /\ DOMAIN b = Fields /\ b.links = acc.links /\ b.slots = acc.slots
        /\ b.wait = acc.wait /\ b.requests = acc.requests
    BY DEF AccessInv, Good, Typed, Fields, Requeued
  <2>2. acc' = Poked(d, Linked(d, c))
    BY <1>3 DEF UplinkRetired
  <2> HIDE DEF b, c
  <2>3. Good(b)
    BY <2>1, SameLinks DEF AccessInv
  <2>4. Good(d)
    BY <2>3, OnLinkRetiredGood
  <2> HIDE DEF d
  <2>5. Good(Poked(d, Linked(d, c)))
    BY <2>4, PokedGood
  <2> QED
    BY <1>3, <2>2, <2>5, GoodNext DEF UplinkRetired, AccessInv
<1>4. CASE DownlinkRetired(s)
  <2>1. Good(OnLinkRetired(acc, down[s].cell, s))
    BY OnLinkRetiredGood DEF AccessInv
  <2> QED
    BY <1>4, <2>1, GoodNext DEF DownlinkRetired, AccessInv
<1>5. CASE UplinkEnds(s) \/ DownlinkEnds(s)
  BY <1>5, GoodNext DEF UplinkEnds, DownlinkEnds, AccessInv
<1> QED
  BY <1>1, <1>2, <1>3, <1>4, <1>5 DEF SatStep

LEMMA EnvironmentGood ==
  ASSUME AccessInv, Environment PROVE AccessInv'
<1>1. ASSUME NEW c \in Cells, NEW p \in Packets, Emit(c, p) PROVE AccessInv'
  <2>1. Good(Enqueued(acc, c, p))
    BY EnqueuedGood DEF AccessInv
  <2>2. acc' \in {acc, Enqueued(acc, c, p)}
    BY <1>1 DEF Emit
  <2> QED
    BY <1>1, <2>1, <2>2, GoodNext DEF Emit, AccessInv
<1>2. ASSUME NEW c \in Cells, NEW s \in Sats,
             DemandArrives(c, s) \/ DemandLeaves(c, s) \/ StartDownlink(c, s)
      PROVE  AccessInv'
  BY <1>2, GoodNext DEF DemandArrives, DemandLeaves, StartDownlink, AccessInv
<1> QED
  BY <1>1, <1>2 DEF Environment

LEMMA AdvanceGood ==
  ASSUME AccessInv, NEW sky2 \in Skies, Advance(sky2) PROVE AccessInv'
<1>1. \A S : Good(Poked(acc, S))
  BY PokedGood DEF AccessInv
<1>2. now' \in Nat /\ sky' \in Skies /\ \E S : acc' = Poked(acc, S)
  BY DEF Advance, AccessInv
<1> QED
  BY <1>1, <1>2, GoodNext DEF AccessInv

LEMMA AccessStep == ASSUME AccessInv, [Next]_vars PROVE AccessInv'
<1>1. CASE UNCHANGED vars \/ Closed
  BY <1>1, GoodNext DEF vars, Closed, AccessInv
<1> QED
  BY <1>1, EndpointStepGood, SatStepGood, EnvironmentGood, AdvanceGood DEF Next

LEMMA AccessInvariant == Spec => []AccessInv
<1>1. AccessInv /\ [Next]_vars => AccessInv'
  BY AccessStep
<1> QED
  BY <1>1, InitGood, PTL DEF Spec

-----------------------------------------------------------------------------
\* The clock, the links, the slot sets and the wait queues keep their types,
\* whatever the number of endpoints, satellites and slots: no handler of the
\* access manager makes a record of another shape.
THEOREM AccessTypes == Spec => []AccessTypeOK
<1>1. AccessInv => AccessTypeOK
  BY DEF AccessInv, Good, Typed, Fields, AccessTypeOK
<1> QED
  BY <1>1, AccessInvariant, PTL

\* slots and ep.links never disagree: every grant, release, rotation,
\* handover and retirement keeps the two tables in step.
THEOREM SlotsAreLinksAlways == Spec => []SlotsAreLinks
<1>1. AccessInv => SlotsAreLinks
  BY DEF AccessInv, Good, SlotsMatch, SlotsAreLinks
<1> QED
  BY <1>1, AccessInvariant, PTL

\* No satellite exceeds slots_per_satellite, also when one pass of the
\* satellite ticker grants several waiters at once.
THEOREM SlotCapacityAlways == Spec => []SlotCapacity
<1>1. AccessInv => SlotCapacity
  BY DEF AccessInv, Good, WithinSlots, SlotCapacity
<1> QED
  BY <1>1, AccessInvariant, PTL

\* No endpoint ever has two non-retiring links, so primary_link() is
\* unambiguous and a make-before-break handover has one old and one new link.
THEOREM AtMostOnePrimaryAlways == Spec => []AtMostOnePrimary
<1>1. AccessInv => AtMostOnePrimary
  <2> SUFFICES ASSUME AccessInv, NEW c \in Cells PROVE Cardinality(Primaries(acc, c)) =< 1
    BY DEF AtMostOnePrimary
  <2>1. CASE Primaries(acc, c) = {}
    BY <2>1, FS_EmptySet
  <2>2. CASE Primaries(acc, c) # {}
    <3>1. PICK s : Primaries(acc, c) = {s}
      BY <2>2, PrimaryType DEF AccessInv
    <3>2. Cardinality({s}) = 1
      BY FS_Singleton
    <3> QED
      BY <3>1, <3>2
  <2> QED
    BY <2>1, <2>2
<1> QED
  BY <1>1, AccessInvariant, PTL

-----------------------------------------------------------------------------
(* Services and retirement.                                                *)
(*                                                                         *)
(* A service stays on the link object it started on, so it is Safe when it *)
(* is due, or when its endpoint has a link there that is that very object  *)
(* or a later one, made after the retirement of the first; the service     *)
(* then ends no later than the link may retire.  What a handler does to a  *)
(* link is one of four moves; a move keeps every service safe.             *)

ServicesOf(s) == {up[s], down[s]} \ {None}

ServiceTyped(sv) ==
  /\ {"cell", "since", "retire", "ends"} \subseteq DOMAIN sv
  /\ sv.cell \in Cells /\ sv.since \in Nat /\ sv.ends \in Nat /\ sv.retire \in Nat \cup {None}

\* The service ends before the link can have retired.
EndsBefore(sv, link) ==
  /\ sv.retire # None
  /\ sv.retire =< IF link.state = "retiring" THEN link.due ELSE now + RetireDelay

OnLink(a, sv, s) ==
  LET link == a.links[sv.cell][s]
  IN  link.state # "none" /\ (sv.since = link.since \/ EndsBefore(sv, link))

Safe(a, sv, s) == ServiceDue(sv, s) \/ OnLink(a, sv, s)

\* The services on a retiring link have seen its deadline.
ToldAt(a, c, s) ==
  \A sv \in ServicesOf(s) :
    sv.cell = c /\ a.links[c][s].state = "retiring" /\ a.links[c][s].since = sv.since
      => sv.retire = a.links[c][s].due

AllSafe(a) == \A s \in Sats : \A sv \in ServicesOf(s) : Safe(a, sv, s)
AllTold(a) == \A c \in Cells, s \in Sats : ToldAt(a, c, s)
RetireTimes(a) ==
  \A c \in Cells, s \in Sats :
    /\ a.links[c][s].since =< now
    /\ a.links[c][s].state = "retiring" =>
         now =< a.links[c][s].due /\ a.links[c][s].due =< now + RetireDelay
AllTyped == /\ DOMAIN up = Sats /\ DOMAIN down = Sats
            /\ \A s \in Sats : \A sv \in ServicesOf(s) : ServiceTyped(sv)

ServiceInv == AllTyped /\ AllSafe(acc) /\ AllTold(acc) /\ RetireTimes(acc)

KeepsLink(x, y) ==
  \/ y = x
  \/ x.state = "acquiring" /\ y.state = "active" /\ y.since = x.since

DropsLink(a, c, s, y) ==
  /\ y = NoLink
  /\ \/ ~ InService(c, s)
     \/ s \notin Visible(c)
     \/ a.links[c][s].state = "retiring" /\ a.links[c][s].due =< now /\ ToldAt(a, c, s)

MakesLink(a, c, s, y) ==
  /\ y.state \in {"acquiring", "active"} /\ y.since = now
  /\ a.links[c][s].state \in {"none", "retiring"} /\ ToldAt(a, c, s)

RetiresLink(x, y) ==
  /\ x.state \in {"acquiring", "active"} /\ y.state = "retiring"
  /\ y.since = x.since /\ y.due = now + RetireDelay

CalmAt(a, b, c, s) ==
  \/ KeepsLink(a.links[c][s], b.links[c][s])
  \/ DropsLink(a, c, s, b.links[c][s])
  \/ MakesLink(a, c, s, b.links[c][s])

Calm(a, b) == \A c \in Cells, s \in Sats : CalmAt(a, b, c, s)
Moves(a, b) ==
  \A c \in Cells, s \in Sats :
    CalmAt(a, b, c, s) \/ RetiresLink(a.links[c][s], b.links[c][s])

\* A move leaves every service safe, and a retiring link its time.
LEMMA MovesSafe ==
  ASSUME NEW a, NEW b, Typed(a), Typed(b), Moves(a, b), now \in Nat,
         AllTyped, AllSafe(a), RetireTimes(a)
  PROVE  AllSafe(b) /\ RetireTimes(b)
<1>1. ASSUME NEW c \in Cells, NEW s \in Sats
      PROVE  a.links[c][s] \in Links /\ b.links[c][s] \in Links
  BY DEF Typed
<1>2. RetireTimes(b)
  <2> SUFFICES ASSUME NEW c \in Cells, NEW s \in Sats
               PROVE  /\ b.links[c][s].since =< now
                      /\ b.links[c][s].state = "retiring" =>
                           now =< b.links[c][s].due /\ b.links[c][s].due =< now + RetireDelay
    BY DEF RetireTimes
  <2> QED
    BY ConfigAssumption DEF Moves, CalmAt, KeepsLink, DropsLink, MakesLink, RetiresLink,
       RetireTimes, NoLink
<1>3. AllSafe(b)
  <2> SUFFICES ASSUME NEW s \in Sats, NEW sv \in ServicesOf(s), ~ ServiceDue(sv, s)
               PROVE  OnLink(b, sv, s)
    BY DEF AllSafe, Safe
  <2> DEFINE c == sv.cell
             x == a.links[c][s]
             y == b.links[c][s]
  <2>1. ServiceTyped(sv) /\ c \in Cells /\ sv # None /\ sv \in {up[s], down[s]}
    BY DEF AllTyped, ServiceTyped, ServicesOf
  <2>2. x \in Links /\ y \in Links
    BY <1>1, <2>1
  <2>3. x.state # "none" /\ (sv.since = x.since \/ EndsBefore(sv, x))
    BY DEF AllSafe, Safe, OnLink
  <2>4. x.state = "retiring" => now =< x.due /\ x.due =< now + RetireDelay
    BY <2>1 DEF RetireTimes
  <2>5. InService(c, s)
    BY <2>1 DEF InService
  <2>7. sv.retire = None \/ now < sv.retire
    BY <2>1, NoneAssumption DEF ServiceDue, RetireWins, ServiceTyped
  <2>8. s \in Visible(c)
    BY <2>1, <2>7 DEF ServiceDue, Completes, RetireWins, ServiceTyped, Lost
  <2>9. ToldAt(a, c, s) /\ x.state = "retiring"
          => sv.retire # None /\ sv.retire =< x.due
    <3> SUFFICES ASSUME ToldAt(a, c, s), x.state = "retiring"
                 PROVE  sv.retire # None /\ sv.retire =< x.due
      OBVIOUS
    <3>1. sv.since = x.since => sv.retire = x.due
      BY DEF ToldAt
    <3>2. x.due \in Nat
      BY <2>2 DEF Links
    <3> QED
      BY <2>3, <3>1, <3>2, NoneAssumption DEF EndsBefore
  <2>10. CASE KeepsLink(x, y)
    BY <2>3, <2>10 DEF KeepsLink, OnLink, EndsBefore
  <2>11. ~ DropsLink(a, c, s, y)
    BY <2>2, <2>5, <2>7, <2>8, <2>9, <2>1 DEF DropsLink, ServiceTyped, Links
  <2>12. CASE MakesLink(a, c, s, y)
    <3>1. sv.retire # None /\ sv.retire =< x.due /\ x.due =< now + RetireDelay
      BY <2>3, <2>4, <2>9, <2>12 DEF MakesLink
    <3>2. sv.retire =< now + RetireDelay
      BY <3>1, <2>1, <2>2, ConfigAssumption DEF ServiceTyped, Links
    <3> QED
      BY <3>1, <3>2, <2>12 DEF MakesLink, OnLink, EndsBefore
  <2>13. CASE RetiresLink(x, y)
    BY <2>3, <2>13 DEF RetiresLink, OnLink, EndsBefore
  <2> HIDE DEF c, x, y
  <2> QED
    BY <2>1, <2>10, <2>11, <2>12, <2>13 DEF Moves, CalmAt, c, x, y
<1> QED
  BY <1>2, <1>3

\* Calm handlers retire nothing, so nobody has a new deadline to hear of.
LEMMA CalmTold ==
  ASSUME NEW a, NEW b, Calm(a, b), AllTold(a), AllTyped, AllSafe(a), Typed(a), now \in Nat
  PROVE  AllTold(b)
<1> SUFFICES ASSUME NEW c \in Cells, NEW s \in Sats, NEW sv \in ServicesOf(s), sv.cell = c,
                    b.links[c][s].state = "retiring", b.links[c][s].since = sv.since
             PROVE  sv.retire = b.links[c][s].due
  BY DEF AllTold, ToldAt
<1>1. KeepsLink(a.links[c][s], b.links[c][s])
  BY DEF Calm, CalmAt, DropsLink, MakesLink, NoLink
<1>2. b.links[c][s] = a.links[c][s]
  BY <1>1 DEF KeepsLink
<1> QED
  BY <1>2 DEF AllTold, ToldAt

LEMMA SameLinksCalm == ASSUME NEW a, NEW b, b.links = a.links PROVE Calm(a, b)
BY DEF Calm, CalmAt, KeepsLink

\* Told(c): no retiring link of c keeps its deadline from a service.
Told(a, c) == \A s \in Sats : ToldAt(a, c, s)

NewLink == [state |-> IF Acquisition = 0 THEN "active" ELSE "acquiring",
            since |-> now, due |-> now + Acquisition]

LEMMA AssociatedMakes ==
  ASSUME NEW a, NEW c \in Cells, NEW s \in Sats, Typed(a)
  PROVE  Associated(a, c, s).links = [a.links EXCEPT ![c][s] = NewLink]
<1> DEFINE b == [a EXCEPT !.links[c][s] = NewLink, !.slots[s] = @ \cup {c}]
<1>1. b.links = [a.links EXCEPT ![c][s] = NewLink] /\ Poked(b, {s}).links = b.links
  BY DEF Typed, Fields, Poked
<1> QED
  BY <1>1 DEF Associated, NewLink

LEMMA MakesCalm ==
  ASSUME NEW a, NEW b, NEW c \in Cells, NEW s \in Sats, Typed(a),
         b.links = [a.links EXCEPT ![c][s] = NewLink], ToldAt(a, c, s), Primaries(a, c) = {}
  PROVE  Calm(a, b)
<1>1. a.links[c][s].state \in {"none", "retiring"}
  BY DEF Typed, Links, Primaries
<1>2. NewLink.state \in {"acquiring", "active"} /\ NewLink.since = now
  BY DEF NewLink
<1> SUFFICES ASSUME NEW d \in Cells, NEW r \in Sats PROVE CalmAt(a, b, d, r)
  BY DEF Calm
<1>3. CASE d = c /\ r = s
  <2>1. b.links[d][r] = NewLink
    BY <1>3 DEF Typed
  <2> QED
    BY <1>1, <1>2, <1>3, <2>1 DEF CalmAt, MakesLink
<1>4. CASE ~ (d = c /\ r = s)
  <2>1. b.links[d][r] = a.links[d][r]
    BY <1>4 DEF Typed
  <2> QED
    BY <2>1 DEF CalmAt, KeepsLink
<1> QED
  BY <1>3, <1>4

LEMMA TryGrantCalm ==
  ASSUME NEW a, NEW c \in Cells, Good(a), sky \in Skies, Primaries(a, c) = {}, Told(a, c)
  PROVE  Calm(a, TryGrant(a, c))
<1>1. CASE Grantable(a, c) = {}
  BY <1>1, SameLinksCalm DEF TryGrant
<1>2. CASE Grantable(a, c) # {}
  <2> DEFINE s == FirstCandidate(c, Grantable(a, c))
             b == [a EXCEPT !.wait = [r \in Sats |-> [@[r] EXCEPT ![c] = None]]]
  <2>1. s \in Sats
    <3>1. Grantable(a, c) \in SUBSET Visible(c)
      BY DEF Grantable
    <3>2. s \in Grantable(a, c)
      BY <1>2, <3>1, FirstCandidateType
    <3> QED
      BY <3>2, VisibleType DEF Grantable
  <2>2. b.links = a.links /\ b.slots = a.slots /\ b.requests = a.requests /\ DOMAIN b = Fields
        /\ b.wait = [r \in Sats |-> [a.wait[r] EXCEPT ![c] = None]]
    BY DEF Good, Typed, Fields
  <2> HIDE DEF b, s
  <2>3. Typed(a) /\ Typed(b)
    BY <2>2 DEF Good, Typed
  <2>4. Calm(a, Associated(b, c, s))
    <3>1. Associated(b, c, s).links = [b.links EXCEPT ![c][s] = NewLink]
      BY <2>1, <2>3, AssociatedMakes
    <3>2. Associated(b, c, s).links = [a.links EXCEPT ![c][s] = NewLink]
      BY <2>2, <3>1
    <3>3. ToldAt(a, c, s)
      BY <2>1 DEF Told
    <3> QED
      BY <2>1, <2>3, <3>2, <3>3, MakesCalm
  <2> QED
    BY <1>2, <2>4 DEF TryGrant, Granted, b, s
<1> QED
  BY <1>1, <1>2

LEMMA RequestOrGrantCalm ==
  ASSUME NEW a, NEW c \in Cells, Good(a), sky \in Skies, Primaries(a, c) = {}, Told(a, c)
  PROVE  Calm(a, RequestOrGrant(a, c))
<1>1. Calm(a, TryGrant(a, c)) /\ Calm(a, a)
  BY TryGrantCalm, SameLinksCalm
<1>2. \A s : Calm(a, [a EXCEPT !.wait[s][c] = [t |-> now, n |-> a.requests], !.requests = @ + 1])
  <2> SUFFICES ASSUME NEW s
               PROVE  Calm(a, [a EXCEPT !.wait[s][c] = [t |-> now, n |-> a.requests],
                                        !.requests = @ + 1])
    OBVIOUS
  <2>1. [a EXCEPT !.wait[s][c] = [t |-> now, n |-> a.requests],
                  !.requests = @ + 1].links = a.links
    BY DEF Good, Typed, Fields
  <2> QED
    BY <2>1, SameLinksCalm
<1> QED
  BY <1>1, <1>2 DEF RequestOrGrant

\* A rotation retires the one primary link of the endpoint, so that either
\* nothing was retired or no handover follows in the same tick.
LEMMA RotateOrLeaveMoves ==
  ASSUME NEW a, NEW c \in Cells, Good(a), Told(a, c), now \in Nat
  PROVE  LET b == RotateOrLeave(a, c)
         IN  Moves(a, b) /\ (Primaries(b, c) = {} \/ Told(b, c))
<1> DEFINE contended == {s \in Sats : a.links[c][s].state = "active" /\ Waiters(a, s) # {}}
           rotate == {s \in contended : LeaseOver(a, c, s)}
           leave == IF Idle(a, c) /\ now - busy[c] >= IdleRelease
                    THEN contended \ rotate ELSE {}
           turned(s) == IF s \in rotate
                        THEN [a.links[c][s] EXCEPT !.state = "retiring", !.due = now + RetireDelay]
                        ELSE IF s \in leave THEN NoLink ELSE a.links[c][s]
           b == RotateOrLeave(a, c)
<1>1. Typed(a)
  BY DEF Good
<1>2. b.links = [a.links EXCEPT ![c] = [s \in Sats |-> turned(s)]]
  BY <1>1 DEF Typed, Fields, RotateOrLeave
<1>3. \A s \in leave : ~ InService(c, s)
  BY DEF Idle, Linked
<1>4. ASSUME NEW s \in Sats
      PROVE  /\ s \in rotate => RetiresLink(a.links[c][s], turned(s))
             /\ s \notin rotate /\ s \in leave => turned(s) = NoLink
             /\ s \notin rotate /\ s \notin leave => turned(s) = a.links[c][s]
  <2>1. a.links[c][s] \in Links /\ (s \in rotate => a.links[c][s].state = "active")
    BY <1>1 DEF Typed
  <2> HIDE DEF rotate, leave
  <2> QED
    BY <2>1 DEF Links, RetiresLink
<1>5. \A s \in rotate : Primaries(a, c) = {s}
  BY DEF Good, OnePrimary, Primaries
<1> HIDE DEF b, turned, leave, rotate
<1>6. \A d \in Cells, s \in Sats : b.links[d][s] = IF d = c THEN turned(s) ELSE a.links[d][s]
  BY <1>1, <1>2 DEF Typed
<1>7. Moves(a, b)
  <2> SUFFICES ASSUME NEW d \in Cells, NEW s \in Sats
               PROVE  CalmAt(a, b, d, s) \/ RetiresLink(a.links[d][s], b.links[d][s])
    BY DEF Moves
  <2> QED
    BY <1>3, <1>4, <1>6 DEF CalmAt, KeepsLink, DropsLink
<1>8. CASE \E r \in rotate : TRUE
  <2>1. \A s \in Sats : s \notin rotate => s \notin Primaries(a, c)
    BY <1>5, <1>8
  <2>2. \A s \in Sats : turned(s).state \notin {"acquiring", "active"}
    BY <1>4, <2>1 DEF Primaries, RetiresLink, NoLink
  <2>3. Primaries(b, c) = {}
    BY <1>6, <2>2 DEF Primaries
  <2> QED
    BY <1>7, <2>3 DEF b
<1>9. CASE \A r \in rotate : FALSE
  <2>1. \A s \in Sats : turned(s) \in {NoLink, a.links[c][s]}
    BY <1>4, <1>9
  <2>2. Told(b, c)
    BY <1>6, <2>1 DEF Told, ToldAt, NoLink
  <2> QED
    BY <1>7, <2>2 DEF b
<1> QED
  BY <1>8, <1>9

LEMMA AccessTickEndpointSafe ==
  ASSUME NEW a, NEW c \in Cells, Good(a), now \in Nat, sky \in Skies,
         AllTyped, AllSafe(a), AllTold(a), RetireTimes(a)
  PROVE  LET b == AccessTickEndpoint(a, c)
         IN  AllSafe(b) /\ RetireTimes(b) /\ (Primaries(b, c) = {} \/ Told(b, c))
<1> DEFINE b == RotateOrLeave(a, c)
           d == AccessTickEndpoint(a, c)
<1>1. Told(a, c)
  BY DEF AllTold, Told
<1>2. Good(b) /\ Moves(a, b) /\ (Primaries(b, c) = {} \/ Told(b, c))
  BY <1>1, RotateOrLeaveGood, RotateOrLeaveMoves
<1> HIDE DEF b
<1>3. AllSafe(b) /\ RetireTimes(b)
  BY <1>2, MovesSafe DEF Good
<1>4. CASE d = b
  BY <1>2, <1>3, <1>4
<1>5. CASE d # b
  <2>1. Linked(b, c) = {} /\ d \in {RequestOrGrant(b, c), TryGrant(b, c)}
    BY <1>5 DEF AccessTickEndpoint, b
  <2>2. Primaries(b, c) = {} /\ Told(b, c)
    BY <2>1 DEF Linked, Primaries, Told, ToldAt
  <2>3. Good(d) /\ Calm(b, d)
    BY <1>2, <2>1, <2>2, RequestOrGrantGood, RequestOrGrantCalm, TryGrantGood, TryGrantCalm
  <2> HIDE DEF d
  <2>4. AllSafe(d) /\ RetireTimes(d)
    BY <1>2, <1>3, <2>3, MovesSafe DEF Good, Calm, Moves
  <2>5. \A s \in Sats : d.links[c][s].state # "retiring"
    BY <2>1, <2>3 DEF Calm, CalmAt, KeepsLink, DropsLink, MakesLink, NoLink, Linked
  <2> QED
    BY <2>4, <2>5 DEF Told, ToldAt, d
<1> QED
  BY <1>4, <1>5

LEMMA SettleRetiringCalm ==
  ASSUME NEW a, NEW c \in Cells, Good(a)
  PROVE  LET b == SettleRetiring(a, c)
         IN  Calm(a, b) /\ Primaries(b, c) = Primaries(a, c) /\ (Told(a, c) => Told(b, c))
<1> DEFINE drained(s) == \A p \in Range(a.queue[c]) : a.assigned[p] # s
           gone == {s \in Retiring(a, c) :
                      ~ InService(c, s) /\ (drained(s) \/ now >= a.links[c][s].due)}
           b == SettleRetiring(a, c)
<1>1. Typed(a)
  BY DEF Good
<1>2. b.links = [a.links EXCEPT ![c] = [s \in Sats |-> IF s \in gone THEN NoLink ELSE @[s]]]
  BY <1>1 DEF Typed, Fields, SettleRetiring
<1>3. \A s \in gone : ~ InService(c, s) /\ a.links[c][s].state = "retiring"
  BY DEF Retiring
<1> HIDE DEF b, gone
<1>4. \A d \in Cells, s \in Sats :
        b.links[d][s] = IF d = c /\ s \in gone THEN NoLink ELSE a.links[d][s]
  BY <1>1, <1>2 DEF Typed
<1>5. Calm(a, b)
  BY <1>3, <1>4 DEF Calm, CalmAt, KeepsLink, DropsLink
<1>6. Primaries(b, c) = Primaries(a, c)
  BY <1>3, <1>4 DEF Primaries, NoLink
<1>7. Told(a, c) => Told(b, c)
  BY <1>4 DEF Told, ToldAt, NoLink
<1> QED
  BY <1>5, <1>6, <1>7 DEF b

\* The old link is retired, or dropped outside a service; the target gets a
\* new link.
LEMMA SwitchToMoves ==
  ASSUME NEW a, NEW c \in Cells, NEW target \in Sats, Good(a), now \in Nat,
         Primaries(a, c) # {}, target # Primary(a, c), Told(a, c)
  PROVE  Moves(a, SwitchTo(a, c, Primary(a, c), target))
<1> DEFINE cur == Primary(a, c)
           d == Retired(a, c, cur)
           b == [d EXCEPT !.assigned =
                   [p \in Packets |-> IF p \in Range(a.queue[c]) /\ @[p] = None
                                      THEN cur ELSE @[p]]]
           e == Released(a, c, cur)
           x == a.links[c][cur]
           y == [x EXCEPT !.state = "retiring", !.due = now + RetireDelay]
<1>1. cur \in Linked(a, c) /\ Primaries(a, c) = {cur} /\ cur \in Sats /\ Typed(a)
      /\ cur \in Primaries(a, c)
  BY PrimaryType DEF Primaries, Linked, Good
<1>2. Good(d) /\ Good(e)
  BY <1>1, RetiredGood, ReleasedGood
<1>3. RetiresLink(x, y) /\ d.links = [a.links EXCEPT ![c][cur] = y]
      /\ e.links = [a.links EXCEPT ![c][cur] = NoLink]
  <2>1. x \in Links /\ x.state \in {"acquiring", "active"}
    BY <1>1 DEF Typed, Primaries
  <2>2. RetiresLink(x, y)
    BY <2>1 DEF Links, RetiresLink
  <2>3. e.links = [a.links EXCEPT ![c][cur] = NoLink]
    BY <1>1 DEF Typed, Fields, Released
  <2>4. d.links = [a.links EXCEPT ![c][cur] = y]
    BY <1>1, <2>1 DEF Typed, Fields, Retired, Links
  <2> QED
    BY <2>2, <2>3, <2>4
<1>4. a.links[c][target].state \in {"none", "retiring"} /\ ToldAt(a, c, target)
  BY <1>1 DEF Typed, Links, Primaries, Told
<1>5. ASSUME NEW u, Typed(u), NEW z, u.links = [a.links EXCEPT ![c][cur] = z],
             RetiresLink(x, z) \/ DropsLink(a, c, cur, z)
      PROVE  Moves(a, Associated(u, c, target))
  <2>1. /\ Associated(u, c, target).links = [u.links EXCEPT ![c][target] = NewLink]
        /\ NewLink.state \in {"acquiring", "active"} /\ NewLink.since = now
    BY <1>5, AssociatedMakes DEF NewLink
  <2> DEFINE v == Associated(u, c, target)
  <2> HIDE DEF v, cur
  <2>2. \A g \in Cells, s \in Sats :
          v.links[g][s] = IF g = c /\ s = target THEN NewLink
                          ELSE IF g = c /\ s = cur THEN z ELSE a.links[g][s]
    BY <1>1, <1>5, <2>1 DEF Typed, v
  <2>3. ASSUME NEW g \in Cells, NEW s \in Sats
        PROVE  CalmAt(a, v, g, s) \/ RetiresLink(a.links[g][s], v.links[g][s])
    <3>1. CASE g = c /\ s = target
      BY <1>4, <2>1, <2>2, <3>1 DEF CalmAt, MakesLink
    <3>2. CASE g = c /\ s = cur /\ s # target
      BY <1>5, <2>2, <3>2 DEF CalmAt
    <3>3. CASE ~ (g = c /\ s = target) /\ ~ (g = c /\ s = cur)
      BY <2>2, <3>3 DEF CalmAt, KeepsLink
    <3> QED
      BY <3>1, <3>2, <3>3
  <2> QED
    BY <2>3 DEF Moves, v
<1>6. Moves(a, Associated(b, c, target))
  <2>1. /\ b.links = d.links /\ Typed(b)
    <3>1. b.links = d.links /\ DOMAIN b = Fields /\ b.slots = d.slots
          /\ b.wait = d.wait /\ b.requests = d.requests
      BY <1>2 DEF Good, Typed, Fields
    <3> HIDE DEF b, d
    <3> QED
      BY <1>2, <3>1 DEF Good, Typed
  <2> HIDE DEF b, d, y
  <2> QED
    BY <1>3, <1>5, <2>1
<1>7. ~ InService(c, cur) => Moves(a, Associated(e, c, target))
  <2>1. ~ InService(c, cur) => DropsLink(a, c, cur, NoLink)
    BY DEF DropsLink
  <2> HIDE DEF e, x, y, d
  <2> QED
    BY <1>2, <1>3, <1>5, <2>1 DEF Good
<1>8. Moves(a, a)
  BY SameLinksCalm DEF Calm, Moves
<1> QED
  BY <1>6, <1>7, <1>8 DEF SwitchTo

LEMMA EvaluateHandoverSafe ==
  ASSUME NEW a, NEW c \in Cells, NEW steep, Good(a), now \in Nat, sky \in Skies,
         AllTyped, AllSafe(a), RetireTimes(a), Primaries(a, c) = {} \/ Told(a, c)
  PROVE  LET b == EvaluateHandover(a, c, steep) IN AllSafe(b) /\ RetireTimes(b)
<1> DEFINE b == SettleRetiring(a, c)
           cur == Primary(b, c)
           targets == {s \in Visible(c) \ {cur} : Free(b, s)}
           d == EvaluateHandover(a, c, steep)
<1>1. Good(b) /\ Calm(a, b) /\ (Primaries(b, c) = {} \/ Told(b, c))
  BY SettleRetiringGood, SettleRetiringCalm
<1> HIDE DEF b
<1>2. AllSafe(b) /\ RetireTimes(b)
  BY <1>1, MovesSafe DEF Good, Calm, Moves
<1>3. CASE d = b
  BY <1>2, <1>3
<1>4. CASE d # b
  <2>1. Primaries(b, c) # {} /\ Told(b, c)
    BY <1>1, <1>4 DEF EvaluateHandover, b
  <2>2. cur \in Sats
    BY <1>1, <2>1, PrimaryType DEF Primaries
  <2>3. CASE targets # {}
    <3>1. targets \in SUBSET Visible(c)
      OBVIOUS
    <3>2. Highest(c, targets) \in targets /\ Highest(c, targets) \in Sats
      BY <2>3, <3>1, HighestType, VisibleType
    <3>3. Moves(b, SwitchTo(b, c, cur, Highest(c, targets)))
      BY <1>1, <2>1, <3>2, SwitchToMoves
    <3>4. Good(SwitchTo(b, c, cur, Highest(c, targets)))
      BY <1>1, <2>1, <3>2, SwitchToGood
    <3>5. d = SwitchTo(b, c, cur, Highest(c, targets))
      BY <1>4, <2>3 DEF EvaluateHandover, b
    <3> HIDE DEF d, cur, targets
    <3> QED
      BY <1>1, <1>2, <3>3, <3>4, <3>5, MovesSafe DEF Good, d
  <2>4. CASE targets = {}
    <3>1. d = Released(b, c, cur) /\ cur \notin Visible(c)
      BY <1>4, <2>4 DEF EvaluateHandover, b
    <3>2. Good(Released(b, c, cur))
      BY <1>1, <2>2, ReleasedGood
    <3>3. Released(b, c, cur).links = [b.links EXCEPT ![c][cur] = NoLink]
      BY <1>1 DEF Good, Typed, Fields, Released
    <3> DEFINE e == Released(b, c, cur)
    <3> HIDE DEF e, cur, d
    <3>4. Moves(b, e)
      <4> SUFFICES ASSUME NEW g \in Cells, NEW s \in Sats PROVE CalmAt(b, e, g, s)
        BY DEF Moves
      <4>1. e.links[g][s] = IF g = c /\ s = cur THEN NoLink ELSE b.links[g][s]
        BY <1>1, <2>2, <3>3 DEF e, Good, Typed
      <4> QED
        BY <4>1, <3>1 DEF CalmAt, DropsLink, KeepsLink
    <3> QED
      BY <1>1, <1>2, <3>1, <3>2, <3>4, MovesSafe DEF Good, d, e
  <2> QED
    BY <2>3, <2>4
<1> QED
  BY <1>3, <1>4

LEMMA AccessTickSatCalm ==
  ASSUME NEW a, NEW s \in Sats, Good(a), AllTold(a)
  PROVE  Calm(a, AccessTickSat(a, s))
<1> DEFINE ahead(c) == {d \in Waiters(a, s) : a.wait[s][d].n < a.wait[s][c].n}
           stale(c) == StaleRequest(a, c)
           wanted == {c \in Waiters(a, s) : ~ stale(c) /\ s \in Visible(c)}
           room(c) == Cardinality(a.slots[s] \cup (ahead(c) \cap wanted)) < Slots
           reached(c) == \A d \in ahead(c) : stale(d) \/ room(d)
           granted == {c \in wanted : reached(c) /\ room(c)}
           dropped == {c \in Waiters(a, s) : reached(c) /\ stale(c)}
           b == [a EXCEPT
                   !.links = [c \in Cells |-> IF c \in granted
                                              THEN [@[c] EXCEPT ![s] = NewLink] ELSE @[c]],
                   !.slots[s] = @ \cup granted,
                   !.wait[s] = [c \in Cells |-> IF c \in granted \cup dropped
                                                THEN None ELSE @[c]]]
<1>1. granted \in SUBSET Cells /\ \A c \in granted : Primaries(a, c) = {}
  BY DEF Waiters, StaleRequest
<1>2. AccessTickSat(a, s) \in {b, Poked(b, {s})}
  BY DEF AccessTickSat, NewLink
<1> HIDE DEF granted, dropped
<1>3. b.links = [c \in Cells |-> IF c \in granted THEN [a.links[c] EXCEPT ![s] = NewLink]
                                 ELSE a.links[c]]
      /\ Poked(b, {s}).links = b.links
  BY DEF Good, Typed, Fields, Poked
<1> DEFINE d == AccessTickSat(a, s)
<1> HIDE DEF b
<1>4. d.links = b.links
  BY <1>2, <1>3
<1> HIDE DEF d
<1> SUFFICES ASSUME NEW c \in Cells, NEW r \in Sats PROVE CalmAt(a, d, c, r)
  BY DEF Calm, d
<1>5. d.links[c][r] = IF c \in granted /\ r = s THEN NewLink ELSE a.links[c][r]
  BY <1>3, <1>4 DEF Good, Typed
<1>6. CASE c \in granted /\ r = s
  <2>1. a.links[c][r].state \in {"none", "retiring"}
    BY <1>1, <1>6 DEF Good, Typed, Links, Primaries
  <2> QED
    BY <1>5, <1>6, <2>1 DEF CalmAt, MakesLink, NewLink, AllTold
<1> QED
  BY <1>5, <1>6 DEF CalmAt, KeepsLink

LEMMA OnLinkRetiredCalm ==
  ASSUME NEW a, NEW c \in Cells, NEW s \in Sats, Good(a), AllTold(a)
  PROVE  Calm(a, OnLinkRetired(a, c, s))
<1> DEFINE b == Unassigned(a, c, s)
           d == Released(b, c, s)
<1>1. Typed(a) /\ a.links[c][s] \in Links
  BY DEF Good, Typed
<1>2. d.links = [a.links EXCEPT ![c][s] = NoLink]
  BY <1>1 DEF Typed, Fields, Released, Unassigned
<1>3. CASE a.links[c][s].state = "retiring" /\ now >= a.links[c][s].due
  <2> DEFINE e == OnLinkRetired(a, c, s)
  <2>1. e = d
    BY <1>3 DEF OnLinkRetired
  <2> HIDE DEF d, e
  <2> SUFFICES ASSUME NEW g \in Cells, NEW r \in Sats PROVE CalmAt(a, e, g, r)
    BY DEF Calm, e
  <2>2. e.links[g][r] = IF g = c /\ r = s THEN NoLink ELSE a.links[g][r]
    BY <1>1, <1>2, <2>1 DEF Typed
  <2>3. now >= a.links[c][s].due => a.links[c][s].due =< now
    OBVIOUS
  <2> QED
    BY <1>3, <2>2, <2>3 DEF CalmAt, KeepsLink, DropsLink, AllTold
<1>4. CASE ~ (a.links[c][s].state = "retiring" /\ now >= a.links[c][s].due)
  BY <1>4, SameLinksCalm DEF OnLinkRetired
<1> QED
  BY <1>3, <1>4

LEMMA EnqueuedCalm ==
  ASSUME NEW a, NEW c \in Cells, NEW p, Good(a), now \in Nat, sky \in Skies, Told(a, c)
  PROVE  Calm(a, Enqueued(a, c, p))
<1> DEFINE sat == IF Primaries(a, c) # {} /\ a.links[c][Primary(a, c)].state = "active"
                  THEN Primary(a, c) ELSE None
           b == [a EXCEPT !.assigned[p] = sat, !.queue[c] = Append(@, p)]
           d == IF Primaries(a, c) = {} THEN RequestOrGrant(b, c) ELSE b
<1>1. /\ DOMAIN b = Fields /\ b.links = a.links /\ b.slots = a.slots
      /\ b.wait = a.wait /\ b.requests = a.requests
  <2> HIDE DEF sat
  <2> QED
    BY DEF Good, Typed, Fields
<1>2. Enqueued(a, c, p) = Poked(d, Linked(d, c))
  BY DEF Enqueued
<1> HIDE DEF b
<1>3. Good(b) /\ Primaries(b, c) = Primaries(a, c) /\ Told(b, c)
  BY <1>1, SameLinks DEF Primaries, Told, ToldAt
<1>4. Good(d) /\ Calm(b, d)
  <2>1. CASE Primaries(a, c) = {}
    BY <1>3, <2>1, RequestOrGrantGood, RequestOrGrantCalm
  <2>2. CASE Primaries(a, c) # {}
    BY <1>3, <2>2, SameLinksCalm
  <2> QED
    BY <2>1, <2>2
<1> HIDE DEF d
<1>5. Poked(d, Linked(d, c)).links = d.links
  BY <1>4 DEF Good, Typed, Fields, Poked
<1> DEFINE e == Enqueued(a, c, p)
<1>6. e.links = d.links
  BY <1>2, <1>5
<1> HIDE DEF e
<1>7. Calm(a, e)
  <2> SUFFICES ASSUME NEW g \in Cells, NEW s \in Sats PROVE CalmAt(a, e, g, s)
    BY DEF Calm
  <2>1. CalmAt(b, d, g, s)
    BY <1>4 DEF Calm
  <2> QED
    BY <2>1, <1>1, <1>6 DEF CalmAt, KeepsLink, DropsLink, MakesLink, ToldAt
<1> QED
  BY <1>7 DEF e

-----------------------------------------------------------------------------
(* The services over a step.                                               *)

FineAt(a, sv, s) ==
  /\ ServiceTyped(sv)
  /\ Safe(a, sv, s)
  /\ a.links[sv.cell][s].state = "retiring" /\ a.links[sv.cell][s].since = sv.since
       => sv.retire = a.links[sv.cell][s].due

\* What holds of the values at the end of a handler holds in the next state.
LEMMA NextServices ==
  ASSUME NEW x, acc' = x, now' = now, sky' = sky, DOMAIN up' = Sats, DOMAIN down' = Sats,
         RetireTimes(x),
         \A s \in Sats : \A sv \in {up'[s], down'[s]} \ {None} : FineAt(x, sv, s)
  PROVE  ServiceInv'
<1>1. AllTyped'
  BY DEF AllTyped, ServicesOf, FineAt, ServiceTyped
<1>2. AllSafe(acc)'
  <2> SUFFICES ASSUME NEW s \in Sats, NEW sv \in ServicesOf(s)' PROVE Safe(acc, sv, s)'
    BY DEF AllSafe
  <2>1. Safe(x, sv, s)
    BY DEF ServicesOf, FineAt
  <2> QED
    BY <2>1 DEF Safe, OnLink, EndsBefore, ServiceDue, RetireWins, Completes, Lost, Visible
<1>3. AllTold(acc)'
  BY DEF AllTold, ToldAt, ServicesOf, FineAt
<1>4. RetireTimes(acc)'
  BY DEF RetireTimes
<1> QED
  BY <1>1, <1>2, <1>3, <1>4 DEF ServiceInv

LEMMA ServicesFine ==
  ASSUME NEW a, AllTyped, AllSafe(a), AllTold(a), NEW s \in Sats, NEW sv \in ServicesOf(s)
  PROVE  FineAt(a, sv, s)
<1>1. ServiceTyped(sv) /\ sv.cell \in Cells
  BY DEF AllTyped, ServiceTyped
<1> QED
  BY <1>1 DEF FineAt, AllSafe, AllTold, ToldAt

\* A calm handler may end services and start none.
LEMMA CalmStep ==
  ASSUME AccessInv, ServiceInv, NEW x, Good(x), Calm(acc, x), acc' = x,
         now' = now, sky' = sky, DOMAIN up' = Sats, DOMAIN down' = Sats,
         \A s \in Sats : {up'[s], down'[s]} \ {None} \subseteq ServicesOf(s)
  PROVE  ServiceInv'
<1>1. Typed(acc) /\ Typed(x) /\ now \in Nat
  BY DEF AccessInv, Good
<1>2. Moves(acc, x)
  BY DEF Calm, Moves
<1>3. AllSafe(x) /\ RetireTimes(x)
  BY <1>1, <1>2, MovesSafe DEF ServiceInv
<1>4. AllTold(x)
  BY <1>1, CalmTold DEF ServiceInv
<1>5. \A s \in Sats : \A sv \in ServicesOf(s) : FineAt(x, sv, s)
  BY <1>3, <1>4, ServicesFine DEF ServiceInv
<1>6. \A s \in Sats : \A sv \in {up'[s], down'[s]} \ {None} : FineAt(x, sv, s)
  BY <1>5
<1> QED
  BY <1>3, <1>6, NextServices

\* Services that neither start nor change.
LEMMA QuietStep ==
  ASSUME AccessInv, ServiceInv, NEW x, Good(x), Calm(acc, x), acc' = x,
         UNCHANGED <<now, sky, up, down>>
  PROVE  ServiceInv'
<1>1. DOMAIN up' = Sats /\ DOMAIN down' = Sats
  BY DEF ServiceInv, AllTyped
<1>2. \A s \in Sats : {up'[s], down'[s]} \ {None} \subseteq ServicesOf(s)
  BY DEF ServicesOf
<1> QED
  BY <1>1, <1>2, CalmStep

LEMMA EndpointTickServices ==
  ASSUME AccessInv, ServiceInv, NEW c \in Cells, NEW steep \in BOOLEAN, EndpointTick(c, steep)
  PROVE  ServiceInv'
<1> DEFINE a == AccessTickEndpoint(acc, c)
           b == EvaluateHandover(a, c, steep)
<1>1. Good(acc) /\ now \in Nat /\ sky \in Skies
  BY DEF AccessInv
<1>2. Good(a)
  BY <1>1, AccessTickEndpointGood
<1>3. AllSafe(a) /\ RetireTimes(a) /\ (Primaries(a, c) = {} \/ Told(a, c))
  BY <1>1, AccessTickEndpointSafe DEF ServiceInv
<1> HIDE DEF a
<1>4. AllSafe(b) /\ RetireTimes(b) /\ Good(b)
  BY <1>1, <1>2, <1>3, EvaluateHandoverSafe, EvaluateHandoverGood DEF ServiceInv
<1>5. /\ acc' = b /\ now' = now /\ sky' = sky
      /\ up' = WithDeadlines(up, b) /\ down' = WithDeadlines(down, b)
  BY DEF EndpointTick, a
<1> HIDE DEF b
<1>6. ASSUME NEW s \in Sats, NEW services, services \in {up, down},
             NEW sv, sv = WithDeadlines(services, b)[s], sv # None
      PROVE  FineAt(b, sv, s)
  <2> DEFINE old == services[s]
             link == b.links[old.cell][s]
  <2>1. old # None /\ old \in ServicesOf(s)
    BY <1>6 DEF WithDeadlines, ServicesOf
  <2>2. ServiceTyped(old) /\ Safe(b, old, s) /\ old.cell \in Cells
    BY <1>4, <2>1 DEF ServiceInv, AllTyped, AllSafe, ServiceTyped
  <2>3. link \in Links /\ link.due \in Nat /\ link.since \in Nat
    BY <1>4, <2>2 DEF Good, Typed, Links
  <2>4. sv = IF link.state = "retiring" /\ link.since = old.since
             THEN [old EXCEPT !.retire = link.due] ELSE old
    BY <1>6, <2>1 DEF WithDeadlines
  <2> HIDE DEF old, link
  <2>5. CASE link.state = "retiring" /\ link.since = old.since
    <3>1. /\ sv.cell = old.cell /\ sv.since = old.since /\ sv.ends = old.ends
          /\ sv.retire = link.due /\ DOMAIN sv = DOMAIN old
      BY <2>2, <2>4, <2>5 DEF ServiceTyped
    <3> QED
      BY <2>2, <2>3, <2>5, <3>1 DEF FineAt, ServiceTyped, Safe, OnLink, link
  <2>6. CASE ~ (link.state = "retiring" /\ link.since = old.since)
    BY <2>2, <2>4, <2>6 DEF FineAt, link
  <2> QED
    BY <2>5, <2>6
<1>7. \A s \in Sats : \A sv \in {up'[s], down'[s]} \ {None} : FineAt(b, sv, s)
  BY <1>5, <1>6
<1>8. DOMAIN up' = Sats /\ DOMAIN down' = Sats
  BY <1>5 DEF WithDeadlines
<1> QED
  BY <1>4, <1>5, <1>7, <1>8, NextServices

\* A service starts on an open link, with the deadline the link has.
LEMMA ServiceFine ==
  ASSUME AccessInv, NEW c \in Cells, NEW s \in Sats, Open(c, s),
         NEW sv, {"cell", "since", "retire", "ends"} \subseteq DOMAIN sv,
         sv.cell = c, sv.since = Service(c, s).since, sv.ends = Service(c, s).ends,
         sv.retire = Service(c, s).retire
  PROVE  FineAt(acc, sv, s)
<1>1. acc.links[c][s] \in Links /\ now \in Nat
  BY DEF AccessInv, Good, Typed
<1>2. /\ acc.links[c][s].since \in Nat /\ acc.links[c][s].due \in Nat
      /\ acc.links[c][s].state \in {"active", "retiring"}
  BY <1>1 DEF Links, Open
<1>3. /\ sv.since = acc.links[c][s].since /\ sv.ends = now + TxTime
      /\ sv.retire = IF acc.links[c][s].state = "retiring" THEN acc.links[c][s].due ELSE None
  BY DEF Service
<1>4. ServiceTyped(sv)
  BY <1>1, <1>2, <1>3, ConfigAssumption DEF ServiceTyped
<1> QED
  BY <1>2, <1>3, <1>4 DEF FineAt, Safe, OnLink

LEMMA StartUplinkServices ==
  ASSUME AccessInv, ServiceInv, NEW c \in Cells, NEW s \in Sats, StartUplink(c, s)
  PROVE  ServiceInv'
<1>0. PICK i \in DOMAIN acc.queue[c] :
        LET p == acc.queue[c][i]
            sv == Service(c, s)
        IN  /\ up' = [up EXCEPT ![s] = [cell |-> c, pkt |-> p, since |-> sv.since,
                                        retire |-> sv.retire, ends |-> sv.ends]]
            /\ acc' = [acc EXCEPT !.queue[c] = RemoveAt(@, i), !.assigned[p] = s]
  BY DEF StartUplink
<1> DEFINE p == acc.queue[c][i]
           sv == [cell |-> c, pkt |-> p, since |-> Service(c, s).since,
                  retire |-> Service(c, s).retire, ends |-> Service(c, s).ends]
           b == [acc EXCEPT !.queue[c] = RemoveAt(@, i), !.assigned[p] = s]
<1>1. /\ acc' = b /\ up' = [up EXCEPT ![s] = sv] /\ down' = down /\ now' = now /\ sky' = sky
      /\ Open(c, s)
  BY <1>0 DEF StartUplink, Serves
<1> HIDE DEF p
<1>2. b.links = acc.links
  BY DEF AccessInv, Good, Typed, Fields
<1>3. /\ DOMAIN sv = {"pkt", "cell", "since", "retire", "ends"} /\ sv.cell = c
      /\ sv.since = Service(c, s).since /\ sv.ends = Service(c, s).ends
      /\ sv.retire = Service(c, s).retire
  OBVIOUS
<1> HIDE DEF b, sv
<1>4. FineAt(acc, sv, s)
  BY <1>1, <1>3, ServiceFine
<1>5. \A r \in Sats : \A x \in {up'[r], down'[r]} \ {None} : (x = sv /\ r = s) \/ x \in ServicesOf(r)
  BY <1>1 DEF ServiceInv, AllTyped, ServicesOf
<1>6. \A r \in Sats : \A x \in {up'[r], down'[r]} \ {None} : FineAt(acc, x, r)
  BY <1>4, <1>5, ServicesFine DEF ServiceInv
<1>7. \A r \in Sats : \A x \in {up'[r], down'[r]} \ {None} : FineAt(b, x, r)
  BY <1>2, <1>6 DEF FineAt, Safe, OnLink
<1>8. RetireTimes(b)
  BY <1>2 DEF ServiceInv, RetireTimes
<1>9. DOMAIN up' = Sats /\ DOMAIN down' = Sats
  BY <1>1 DEF ServiceInv, AllTyped
<1> QED
  BY <1>1, <1>7, <1>8, <1>9, NextServices

LEMMA StartDownlinkServices ==
  ASSUME AccessInv, ServiceInv, NEW c \in Cells, NEW s \in Sats, StartDownlink(c, s)
  PROVE  ServiceInv'
<1> DEFINE sv == Service(c, s)
<1>1. /\ acc' = acc /\ down' = [down EXCEPT ![s] = sv] /\ up' = up /\ now' = now /\ sky' = sky
      /\ Open(c, s)
  BY DEF StartDownlink
<1>2. DOMAIN sv = {"cell", "since", "retire", "ends"} /\ sv.cell = c
  BY DEF Service
<1> HIDE DEF sv
<1>3. FineAt(acc, sv, s)
  BY <1>1, <1>2, ServiceFine DEF sv
<1>4. \A r \in Sats : \A x \in {up'[r], down'[r]} \ {None} : (x = sv /\ r = s) \/ x \in ServicesOf(r)
  BY <1>1 DEF ServiceInv, AllTyped, ServicesOf
<1>5. \A r \in Sats : \A x \in {up'[r], down'[r]} \ {None} : FineAt(acc, x, r)
  BY <1>3, <1>4, ServicesFine DEF ServiceInv
<1>6. DOMAIN up' = Sats /\ DOMAIN down' = Sats
  BY <1>1 DEF ServiceInv, AllTyped
<1> QED
  BY <1>1, <1>5, <1>6, NextServices DEF ServiceInv

\* The clock moves past no retirement: a link whose time has come is being
\* served, by a service that has then to end first.
LEMMA AdvanceServices ==
  ASSUME AccessInv, ServiceInv, NEW sky2 \in Skies, Advance(sky2)
  PROVE  ServiceInv'
<1>1. /\ acc'.links = acc.links /\ now' = now + 1 /\ up' = up /\ down' = down
      /\ Settled /\ now \in Nat
  BY DEF Advance, AccessInv, Good, Typed, Fields, Poked
<1>2. AllTyped' /\ AllTold(acc)'
  BY <1>1 DEF ServiceInv, AllTyped, AllTold, ToldAt, ServicesOf, ServiceTyped
<1>3. ASSUME NEW s \in Sats, NEW sv \in ServicesOf(s)
      PROVE  ServiceTyped(sv) /\ OnLink(acc, sv, s) /\ ~ RetireWins(sv)
  <2>1. ~ ServiceDue(sv, s)
    BY <1>1 DEF Settled, ServicesOf
  <2> QED
    BY <2>1 DEF ServiceInv, AllTyped, AllSafe, Safe, ServiceDue
<1>4. AllSafe(acc)'
  <2> SUFFICES ASSUME NEW s \in Sats, NEW sv \in ServicesOf(s)' PROVE OnLink(acc, sv, s)'
    BY DEF AllSafe, Safe
  <2>1. sv \in ServicesOf(s)
    BY <1>1 DEF ServicesOf
  <2>2. ServiceTyped(sv) /\ OnLink(acc, sv, s) /\ sv.cell \in Cells
    BY <1>3, <2>1 DEF ServiceTyped
  <2>3. sv.retire # None => sv.retire \in Nat
    BY <2>2 DEF ServiceTyped
  <2> QED
    BY <1>1, <2>2, <2>3, ConfigAssumption DEF OnLink, EndsBefore
<1>5. RetireTimes(acc)'
  <2>0. \A c \in Cells, s \in Sats : acc.links[c][s].since =< now + 1
    BY <1>1 DEF AccessInv, Good, Typed, Links, ServiceInv, RetireTimes
  <2> SUFFICES ASSUME NEW c \in Cells, NEW s \in Sats, acc.links[c][s].state = "retiring"
               PROVE  now + 1 =< acc.links[c][s].due
                      /\ acc.links[c][s].due =< now + 1 + RetireDelay
    BY <1>1, <2>0 DEF RetireTimes
  <2> DEFINE link == acc.links[c][s]
  <2>1. link.due \in Nat /\ now =< link.due /\ link.due =< now + RetireDelay
    BY DEF AccessInv, Good, Typed, Links, ServiceInv, RetireTimes
  <2>2. ~ (now >= link.due)
    <3> SUFFICES ASSUME now >= link.due PROVE FALSE
      OBVIOUS
    <3>1. InService(c, s)
      BY <1>1 DEF Settled, InterruptDue
    <3>2. PICK sv \in ServicesOf(s) : sv.cell = c
      BY <3>1 DEF InService, ServicesOf
    <3>3. ServiceTyped(sv) /\ OnLink(acc, sv, s) /\ ~ RetireWins(sv) /\ sv # None
      BY <1>3 DEF ServicesOf
    <3>4. sv.since = link.since => sv.retire = link.due
      BY <3>2 DEF ServiceInv, AllTold, ToldAt
    <3>5. sv.retire # None /\ sv.retire =< link.due
      <4>1. CASE sv.since = link.since
        BY <2>1, <3>4, <4>1, NoneAssumption
      <4>2. CASE EndsBefore(sv, link)
        BY <4>2 DEF EndsBefore
      <4> QED
        BY <3>2, <3>3, <4>1, <4>2 DEF OnLink
    <3>6. sv.retire \in Nat
      BY <3>3, <3>5 DEF ServiceTyped
    <3> QED
      BY <1>1, <2>1, <3>3, <3>5, <3>6 DEF RetireWins
  <2> QED
    BY <1>1, <2>1, <2>2, ConfigAssumption
<1> QED
  BY <1>2, <1>4, <1>5 DEF ServiceInv

LEMMA EndpointStepServices ==
  ASSUME AccessInv, ServiceInv, NEW c \in Cells, EndpointStep(c) PROVE ServiceInv'
<1>1. ASSUME NEW s \in Sats, ActivateAfterDelay(c, s) PROVE ServiceInv'
  <2> DEFINE b == [acc EXCEPT !.links[c][s].state = "active"]
             d == Poked(b, {s})
  <2>1. acc.links[c][s].state = "acquiring" /\ acc' = d /\ UNCHANGED <<now, sky, up, down>>
    BY <1>1 DEF ActivateAfterDelay, ActivationDue
  <2>2. Good(d)
    BY <2>1, ActivatedGood DEF AccessInv
  <2>3. acc.links[c][s] \in Links
    BY DEF AccessInv, Good, Typed
  <2>4. /\ b.links = [acc.links EXCEPT ![c][s] = [@ EXCEPT !.state = "active"]]
        /\ d.links = b.links
    BY DEF AccessInv, Good, Typed, Fields, Poked
  <2> HIDE DEF b, d
  <2>5. Calm(acc, d)
    <3> SUFFICES ASSUME NEW g \in Cells, NEW r \in Sats PROVE CalmAt(acc, d, g, r)
      BY DEF Calm
    <3>1. d.links[g][r] = IF g = c /\ r = s THEN [acc.links[c][s] EXCEPT !.state = "active"]
                          ELSE acc.links[g][r]
      BY <2>4 DEF AccessInv, Good, Typed
    <3> QED
      BY <2>1, <2>3, <3>1 DEF CalmAt, KeepsLink, Links
  <2> QED
    BY <2>1, <2>2, <2>5, QuietStep
<1>2. ASSUME NEW s \in Sats, FireInterrupt(c, s) PROVE ServiceInv'
  <2> DEFINE d == OnLinkRetired(acc, c, s)
  <2>1. acc' = d /\ UNCHANGED <<now, sky, up, down>>
    BY <1>2 DEF FireInterrupt, InterruptDue, OnLinkRetired
  <2>2. Good(d) /\ Calm(acc, d)
    BY OnLinkRetiredGood, OnLinkRetiredCalm DEF AccessInv, ServiceInv
  <2> HIDE DEF d
  <2> QED
    BY <2>1, <2>2, QuietStep
<1> QED
  BY <1>1, <1>2, EndpointTickServices, StartUplinkServices DEF EndpointStep

LEMMA SatStepServices ==
  ASSUME AccessInv, ServiceInv, NEW s \in Sats, SatStep(s) PROVE ServiceInv'
<1>0. DOMAIN up = Sats /\ DOMAIN down = Sats /\ Good(acc) /\ AllTold(acc)
  BY DEF ServiceInv, AllTyped, AccessInv
<1>1. CASE SatTick(s)
  <2> DEFINE b == AccessTickSat(acc, s)
  <2>1. acc' = b /\ UNCHANGED <<now, sky, up, down>>
    BY <1>1 DEF SatTick
  <2>2. Good(b) /\ Calm(acc, b)
    BY <1>0, AccessTickSatGood, AccessTickSatCalm DEF AccessInv
  <2> HIDE DEF b
  <2> QED
    BY <2>1, <2>2, QuietStep
<1>2. CASE SleepUplink(s)
  <2> DEFINE b == [acc EXCEPT !.asleep[s] = TRUE,
                              !.watch[s] = {c \in Cells : acc.queue[c] # <<>>}]
  <2>1. /\ DOMAIN b = Fields /\ b.links = acc.links /\ b.slots = acc.slots
        /\ b.wait = acc.wait /\ b.requests = acc.requests
    BY DEF AccessInv, Good, Typed, Fields
  <2>2. acc' = b /\ UNCHANGED <<now, sky, up, down>>
    BY <1>2 DEF SleepUplink
  <2> HIDE DEF b
  <2>3. Good(b) /\ Calm(acc, b)
    BY <1>0, <2>1, SameLinks, SameLinksCalm
  <2> QED
    BY <2>2, <2>3, QuietStep
<1>3. CASE UplinkRetired(s)
  <2> DEFINE c == up[s].cell
             b == Requeued(acc, c, up[s].pkt)
             d == OnLinkRetired(b, c, s)
             e == Poked(d, Linked(d, c))
  <2>1. /\ DOMAIN b = Fields /\ b.links = acc.links /\ b.slots = acc.slots
        /\ b.wait = acc.wait /\ b.requests = acc.requests
    BY DEF AccessInv, Good, Typed, Fields, Requeued
  <2>2. /\ acc' = e /\ up' = [up EXCEPT ![s] = None]
        /\ UNCHANGED <<now, sky, down>> /\ up[s] # None
    BY <1>3 DEF UplinkRetired, RetireWins
  <2>3. c \in Cells
    BY <2>2 DEF ServiceInv, AllTyped, ServicesOf, ServiceTyped
  <2> HIDE DEF b, c
  <2>4. Good(b) /\ AllTold(b)
    BY <1>0, <2>1, SameLinks DEF AllTold, ToldAt
  <2>5. Good(d) /\ Calm(b, d)
    BY <2>3, <2>4, OnLinkRetiredGood, OnLinkRetiredCalm
  <2> HIDE DEF d
  <2>6. Good(e) /\ e.links = d.links
    BY <2>5, PokedGood DEF Good, Typed, Fields, Poked
  <2> HIDE DEF e
  <2>7. Calm(acc, e)
    <3> SUFFICES ASSUME NEW g \in Cells, NEW r \in Sats PROVE CalmAt(acc, e, g, r)
      BY DEF Calm
    <3>1. CalmAt(b, d, g, r)
      BY <2>5 DEF Calm
    <3> QED
      BY <2>1, <2>6, <3>1 DEF CalmAt, KeepsLink, DropsLink, MakesLink, ToldAt
  <2>8. \A r \in Sats : {up'[r], down'[r]} \ {None} \subseteq ServicesOf(r)
    BY <1>0, <2>2 DEF ServicesOf
  <2> QED
    BY <1>0, <2>2, <2>6, <2>7, <2>8, CalmStep
<1>4. CASE DownlinkRetired(s)
  <2> DEFINE c == down[s].cell
             d == OnLinkRetired(acc, c, s)
  <2>1. /\ acc' = d /\ down' = [down EXCEPT ![s] = None]
        /\ UNCHANGED <<now, sky, up>> /\ down[s] # None
    BY <1>4 DEF DownlinkRetired, RetireWins
  <2>2. c \in Cells
    BY <2>1 DEF ServiceInv, AllTyped, ServicesOf, ServiceTyped
  <2> HIDE DEF c
  <2>3. Good(d) /\ Calm(acc, d)
    BY <1>0, <2>2, OnLinkRetiredGood, OnLinkRetiredCalm
  <2> HIDE DEF d
  <2>4. \A r \in Sats : {up'[r], down'[r]} \ {None} \subseteq ServicesOf(r)
    BY <1>0, <2>1 DEF ServicesOf
  <2> QED
    BY <1>0, <2>1, <2>3, <2>4, CalmStep
<1>5. CASE UplinkEnds(s) \/ DownlinkEnds(s)
  <2>1. /\ acc' = acc /\ now' = now /\ sky' = sky
        /\ \/ up' = [up EXCEPT ![s] = None] /\ down' = down
           \/ down' = [down EXCEPT ![s] = None] /\ up' = up
    BY <1>5 DEF UplinkEnds, DownlinkEnds
  <2>2. \A r \in Sats : {up'[r], down'[r]} \ {None} \subseteq ServicesOf(r)
    BY <1>0, <2>1 DEF ServicesOf
  <2> QED
    BY <1>0, <2>1, <2>2, CalmStep, SameLinksCalm
<1> QED
  BY <1>1, <1>2, <1>3, <1>4, <1>5 DEF SatStep

LEMMA EnvironmentServices ==
  ASSUME AccessInv, ServiceInv, Environment PROVE ServiceInv'
<1>0. Good(acc) /\ Calm(acc, acc)
  BY SameLinksCalm DEF AccessInv
<1>1. ASSUME NEW c \in Cells, NEW p \in Packets, Emit(c, p) PROVE ServiceInv'
  <2>1. Good(Enqueued(acc, c, p)) /\ Calm(acc, Enqueued(acc, c, p))
    BY EnqueuedGood, EnqueuedCalm DEF AccessInv, ServiceInv, AllTold, Told
  <2>2. acc' \in {acc, Enqueued(acc, c, p)} /\ UNCHANGED <<now, sky, up, down>>
    BY <1>1 DEF Emit
  <2> QED
    BY <1>0, <2>1, <2>2, QuietStep
<1>2. ASSUME NEW c \in Cells, NEW s \in Sats, DemandArrives(c, s) \/ DemandLeaves(c, s)
      PROVE  ServiceInv'
  <2>1. acc' = acc /\ UNCHANGED <<now, sky, up, down>>
    BY <1>2 DEF DemandArrives, DemandLeaves
  <2> QED
    BY <1>0, <2>1, QuietStep
<1> QED
  BY <1>1, <1>2, StartDownlinkServices DEF Environment

LEMMA InitServices == Init => ServiceInv
<1> SUFFICES ASSUME Init PROVE ServiceInv
  OBVIOUS
<1>1. /\ now = 0 /\ up = [s \in Sats |-> None] /\ down = [s \in Sats |-> None]
      /\ acc.links = [c \in Cells |-> [s \in Sats |-> NoLink]]
  BY DEF Init
<1>2. \A s \in Sats : ServicesOf(s) = {}
  BY <1>1 DEF ServicesOf
<1> QED
  BY <1>1, <1>2 DEF ServiceInv, AllTyped, AllSafe, AllTold, ToldAt, RetireTimes, NoLink

LEMMA ServiceInvariant == Spec => [](AccessInv /\ ServiceInv)
<1>1. AccessInv /\ ServiceInv /\ [Next]_vars => ServiceInv'
  <2> SUFFICES ASSUME AccessInv, ServiceInv, [Next]_vars PROVE ServiceInv'
    OBVIOUS
  <2>1. CASE UNCHANGED vars \/ Closed
    <3>1. acc' = acc /\ UNCHANGED <<now, sky, up, down>>
      BY <2>1 DEF vars, Closed
    <3> QED
      BY <3>1, SameLinksCalm, QuietStep DEF AccessInv
  <2> QED
    BY <2>1, EndpointStepServices, SatStepServices, EnvironmentServices, AdvanceServices
    DEF Next
<1> QED
  BY <1>1, AccessInvariant, InitServices, PTL DEF Spec

\* A retiring link is gone by its deadline, for every delay, load and order
\* of the handlers of one instant: whoever closes it (the ticker, the
\* interrupt, the service that ran on it) has done so before time passes.
THEOREM RetirementIsPromptAlways == Spec => []RetirementIsPrompt
<1>1. ServiceInv => RetirementIsPrompt
  BY DEF ServiceInv, RetireTimes, RetirementIsPrompt
<1> QED
  BY <1>1, ServiceInvariant, PTL

\* No release, rotation, handover or retirement takes the slot of an endpoint
\* from under a service, unless that service ends at this very instant.
THEOREM ServiceHoldsSlotAlways == Spec => []ServiceHoldsSlot
<1>1. AccessInv /\ ServiceInv => ServiceHoldsSlot
  <2> SUFFICES ASSUME AccessInv, ServiceInv, NEW s \in Sats, NEW sv \in {up, down},
                      sv[s] # None, ~ ServiceDue(sv[s], s)
               PROVE  sv[s].cell \in acc.slots[s]
    BY DEF ServiceHoldsSlot
  <2>1. sv[s] \in ServicesOf(s)
    BY DEF ServicesOf
  <2>2. sv[s].cell \in Cells /\ OnLink(acc, sv[s], s)
    BY <2>1 DEF ServiceInv, AllTyped, ServiceTyped, AllSafe, Safe
  <2> QED
    BY <2>2 DEF OnLink, AccessInv, Good, SlotsMatch, Linked
<1> QED
  BY <1>1, ServiceInvariant, PTL


-----------------------------------------------------------------------------
(* The order of grants.                                                    *)
(*                                                                         *)
(* A wait queue is a dict, and the satellite's ticker serves it by rank of *)
(* insertion while an endpoint's own grant compares request times: the two *)
(* orders agree, since requests are inserted as time passes.               *)

QueueOrder(a) ==
  \A s \in Sats : \A c \in Waiters(a, s) :
    /\ a.wait[s][c].t =< now
    /\ \A d \in Waiters(a, s) :
         a.wait[s][c].n < a.wait[s][d].n => a.wait[s][c].t =< a.wait[s][d].t

\* A handler only withdraws requests and adds new ones with the next rank.
WaitMoves(a, b) ==
  \A s \in Sats, c \in Cells :
    \/ b.wait[s][c] \in {None, a.wait[s][c]}
    \/ b.wait[s][c].t = now /\ b.wait[s][c].n = a.requests

LEMMA WaitMovesOrder ==
  ASSUME NEW a, NEW b, Good(a), QueueOrder(a), WaitMoves(a, b), now \in Nat
  PROVE  QueueOrder(b)
<1> SUFFICES ASSUME NEW s \in Sats, NEW c \in Waiters(b, s)
             PROVE  /\ b.wait[s][c].t =< now
                    /\ \A d \in Waiters(b, s) :
                         b.wait[s][c].n < b.wait[s][d].n => b.wait[s][c].t =< b.wait[s][d].t
  BY DEF QueueOrder
<1>1. ASSUME NEW d \in Waiters(b, s)
      PROVE  \/ d \in Waiters(a, s) /\ b.wait[s][d] = a.wait[s][d]
             \/ b.wait[s][d].t = now /\ b.wait[s][d].n = a.requests
  BY DEF WaitMoves, Waiters
<1>2. ASSUME NEW d \in Waiters(a, s)
      PROVE  /\ a.wait[s][d].t \in Nat /\ a.wait[s][d].n \in Nat
             /\ a.wait[s][d].n < a.requests /\ a.wait[s][d].t =< now
  BY DEF Good, Typed, RanksDistinct, QueueOrder, Waiters, Requests
<1>3. a.requests \in Nat
  BY DEF Good, Typed
<1> SUFFICES ASSUME NEW d \in Waiters(b, s), b.wait[s][c].n < b.wait[s][d].n
             PROVE  b.wait[s][c].t =< b.wait[s][d].t
  BY <1>1, <1>2
<1> QED
  BY <1>1, <1>2, <1>3 DEF QueueOrder

\* No endpoint is linked that was not, and no request is touched.
NoneNew(a, b) ==
  /\ \A c \in Cells : Linked(b, c) \subseteq Linked(a, c)
  /\ b.wait = a.wait

LEMMA NoneNewFair ==
  ASSUME NEW a, NEW b, NoneNew(a, b) PROVE FairGrants(a, b) /\ WaitMoves(a, b)
BY DEF NoneNew, FairGrants, WaitMoves

LEMMA PokedFields ==
  ASSUME NEW a, NEW S, DOMAIN a = Fields
  PROVE  /\ Poked(a, S).links = a.links /\ Poked(a, S).slots = a.slots
         /\ Poked(a, S).wait = a.wait /\ Poked(a, S).requests = a.requests
BY DEF Fields, Poked

LEMMA AssociatedWait ==
  ASSUME NEW a, NEW c \in Cells, NEW s \in Sats, Typed(a)
  PROVE  Associated(a, c, s).wait = a.wait
<1> DEFINE b == [a EXCEPT !.links[c][s] = NewLink, !.slots[s] = @ \cup {c}]
<1>1. b.wait = a.wait /\ Poked(b, {s}).wait = b.wait
  BY DEF Typed, Fields, Poked
<1> QED
  BY <1>1 DEF Associated, NewLink

\* A grant gives the endpoint one new link, where it is the oldest waiter.
LEMMA TryGrantFair ==
  ASSUME NEW a, NEW c \in Cells, Good(a), sky \in Skies, now \in Nat, TryGrant(a, c) # a
  PROVE  /\ WaitMoves(a, TryGrant(a, c))
         /\ \E s \in Visible(c) \cap Sats :
              /\ TryGrant(a, c).links = [a.links EXCEPT ![c][s] = NewLink]
              /\ Waiters(a, s) # {} => IsOldest(a, s, c)
<1> DEFINE s == FirstCandidate(c, Grantable(a, c))
           b == [a EXCEPT !.wait = [r \in Sats |-> [@[r] EXCEPT ![c] = None]]]
           d == Associated(b, c, s)
<1>0. Grantable(a, c) # {} /\ TryGrant(a, c) = d
  BY DEF TryGrant, Granted
<1>1. s \in Sats /\ s \in Visible(c) /\ (Waiters(a, s) # {} => IsOldest(a, s, c))
  <2>1. Grantable(a, c) \in SUBSET Visible(c)
    BY DEF Grantable
  <2>2. s \in Grantable(a, c)
    BY <1>0, <2>1, FirstCandidateType
  <2> QED
    BY <2>2, VisibleType DEF Grantable
<1>2. b.links = a.links /\ b.slots = a.slots /\ b.requests = a.requests /\ DOMAIN b = Fields
      /\ b.wait = [r \in Sats |-> [a.wait[r] EXCEPT ![c] = None]]
  BY DEF Good, Typed, Fields
<1> HIDE DEF b, s
<1>3. Typed(b)
  BY <1>2 DEF Good, Typed
<1>4. d.links = [b.links EXCEPT ![c][s] = NewLink] /\ d.wait = b.wait
  BY <1>1, <1>3, AssociatedMakes, AssociatedWait
<1> HIDE DEF d
<1>5. WaitMoves(a, d)
  BY <1>2, <1>4 DEF WaitMoves, Good, Typed
<1> QED
  BY <1>0, <1>1, <1>2, <1>4, <1>5

LEMMA RequestOrGrantFair ==
  ASSUME NEW a, NEW c \in Cells, Good(a), sky \in Skies, now \in Nat
  PROVE  LET b == RequestOrGrant(a, c)
         IN  \/ b = TryGrant(a, c)
             \/ b.links = a.links /\ WaitMoves(a, b)
<1>1. CASE Grantable(a, c) # {} \/ RequestOrGrant(a, c) = a
  BY <1>1 DEF RequestOrGrant, WaitMoves
<1>2. CASE Grantable(a, c) = {} /\ RequestOrGrant(a, c) # a
  <2> DEFINE s == FirstCandidate(c, Visible(c))
             b == [a EXCEPT !.wait[s][c] = [t |-> now, n |-> a.requests], !.requests = @ + 1]
  <2>1. s \in Sats
    BY <1>2, FirstCandidateType, VisibleType DEF RequestOrGrant
  <2>2. RequestOrGrant(a, c) = b
    BY <1>2 DEF RequestOrGrant
  <2>3. b.links = a.links /\ b.wait = [a.wait EXCEPT ![s][c] = [t |-> now, n |-> a.requests]]
    BY DEF Good, Typed, Fields
  <2> HIDE DEF b, s
  <2>4. WaitMoves(a, b)
    BY <2>1, <2>3 DEF WaitMoves, Good, Typed
  <2> QED
    BY <2>2, <2>3, <2>4
<1> QED
  BY <1>1, <1>2

\* One new link of an endpoint that is the oldest waiter there is fair.
LEMMA OneLinkFair ==
  ASSUME NEW a, NEW b, NEW c \in Cells, NEW s \in Sats, Good(a),
         b.links = [a.links EXCEPT ![c][s] = NewLink], Waiters(a, s) # {} => IsOldest(a, s, c)
  PROVE  FairGrants(a, b)
<1> SUFFICES ASSUME NEW r \in Sats, NEW e \in Cells, r \in Linked(b, e) \ Linked(a, e),
                    NEW d \in Waiters(a, r) \ {e}
             PROVE  e \in Waiters(a, r) /\ a.wait[r][e].t =< a.wait[r][d].t
  BY DEF FairGrants
<1>1. r = s /\ e = c
  BY DEF Good, Typed, Linked
<1>2. IsOldest(a, s, c)
  BY <1>1
<1>3. a.wait[s][c].t \in Nat /\ a.wait[s][d].t \in Nat
  BY <1>1, <1>2 DEF IsOldest, Waiters, Good, Typed, Requests
<1> QED
  BY <1>1, <1>2, <1>3 DEF IsOldest

LEMMA EnqueuedFair ==
  ASSUME NEW a, NEW c \in Cells, NEW p, Good(a), now \in Nat, sky \in Skies
  PROVE  FairGrants(a, Enqueued(a, c, p)) /\ WaitMoves(a, Enqueued(a, c, p))
<1> DEFINE sat == IF Primaries(a, c) # {} /\ a.links[c][Primary(a, c)].state = "active"
                  THEN Primary(a, c) ELSE None
           b == [a EXCEPT !.assigned[p] = sat, !.queue[c] = Append(@, p)]
           d == IF Primaries(a, c) = {} THEN RequestOrGrant(b, c) ELSE b
           e == Enqueued(a, c, p)
<1>1. /\ DOMAIN b = Fields /\ b.links = a.links /\ b.slots = a.slots
      /\ b.wait = a.wait /\ b.requests = a.requests
  <2> HIDE DEF sat
  <2> QED
    BY DEF Good, Typed, Fields
<1>2. e = Poked(d, Linked(d, c))
  BY DEF Enqueued
<1> HIDE DEF b
<1>3. Good(b) /\ Primaries(b, c) = Primaries(a, c)
  BY <1>1, SameLinks DEF Primaries
<1>4. Good(d)
  BY <1>3, RequestOrGrantGood
<1>5. d = b \/ d = TryGrant(b, c) \/ (d.links = b.links /\ WaitMoves(b, d))
  BY <1>3, RequestOrGrantFair
<1> HIDE DEF d, e
<1>6. e.links = d.links /\ e.wait = d.wait
  <2>1. DOMAIN d = Fields
    BY <1>4 DEF Good, Typed
  <2> QED
    BY <1>2, <2>1, PokedFields
<1>10. WaitMoves(b, d) => WaitMoves(a, e)
  BY <1>1, <1>6 DEF WaitMoves
<1>7. CASE d.links = b.links /\ WaitMoves(b, d)
  <2>1. e.links = a.links
    BY <1>1, <1>6, <1>7
  <2>2. FairGrants(a, e)
    BY <2>1 DEF FairGrants, Linked
  <2> QED
    BY <1>7, <1>10, <2>2 DEF e
<1>8. CASE d = b
  <2>1. e.links = a.links /\ e.wait = a.wait
    BY <1>1, <1>6, <1>8
  <2> QED
    BY <2>1, NoneNewFair DEF NoneNew, Linked, e
<1>9. CASE d = TryGrant(b, c) /\ d # b
  <2>1. WaitMoves(b, d)
    BY <1>3, <1>9, TryGrantFair
  <2>2. PICK s \in Visible(c) \cap Sats :
          d.links = [b.links EXCEPT ![c][s] = NewLink]
          /\ (Waiters(b, s) # {} => IsOldest(b, s, c))
    BY <1>3, <1>9, TryGrantFair
  <2>3. Waiters(a, s) # {} => IsOldest(a, s, c)
    BY <1>1, <2>2 DEF Waiters, IsOldest
  <2>5. e.links = [a.links EXCEPT ![c][s] = NewLink] /\ s \in Sats
    BY <1>1, <1>6, <2>2
  <2>4. FairGrants(a, e)
    BY <2>3, <2>5, OneLinkFair
  <2> QED
    BY <1>10, <2>1, <2>4 DEF e
<1> QED
  BY <1>5, <1>7, <1>8, <1>9 DEF e

LEMMA RotateOrLeaveFields ==
  ASSUME NEW a, NEW c \in Cells, Good(a)
  PROVE  LET b == RotateOrLeave(a, c)
         IN  /\ b.wait = a.wait /\ b.requests = a.requests
             /\ \A d \in Cells : d # c => b.links[d] = a.links[d]
             /\ \A d \in Cells : Linked(b, d) \subseteq Linked(a, d)
             /\ Primaries(b, c) \subseteq Primaries(a, c)
             /\ Primaries(a, c) # {} => \/ Linked(b, c) # {}
                                        \/ ~ Demand(b, c) /\ \E s \in Sats : Waiters(b, s) # {}
<1> DEFINE contended == {s \in Sats : a.links[c][s].state = "active" /\ Waiters(a, s) # {}}
           rotate == {s \in contended : LeaseOver(a, c, s)}
           leave == IF Idle(a, c) /\ now - busy[c] >= IdleRelease
                    THEN contended \ rotate ELSE {}
           turned(s) == IF s \in rotate
                        THEN [a.links[c][s] EXCEPT !.state = "retiring", !.due = now + RetireDelay]
                        ELSE IF s \in leave THEN NoLink ELSE a.links[c][s]
           b == RotateOrLeave(a, c)
<1>1. b.links = [a.links EXCEPT ![c] = [s \in Sats |-> turned(s)]]
      /\ b.wait = a.wait /\ b.requests = a.requests /\ b.queue = a.queue
  BY DEF Good, Typed, Fields, RotateOrLeave
<1>2. ASSUME NEW s \in Sats
      PROVE  /\ turned(s).state # "none" => a.links[c][s].state # "none"
             /\ turned(s).state \in {"acquiring", "active"} => turned(s) = a.links[c][s]
             /\ turned(s).state = "none" /\ a.links[c][s].state # "none" =>
                  ~ Demand(a, c) /\ Waiters(a, s) # {}
  <2>1. a.links[c][s] \in Links /\ (s \in rotate => a.links[c][s].state = "active")
    BY DEF Good, Typed
  <2>2. s \in leave => ~ Demand(a, c) /\ Waiters(a, s) # {}
    BY DEF Idle
  <2> HIDE DEF rotate, leave
  <2> QED
    BY <2>1, <2>2 DEF Links, NoLink
<1> HIDE DEF b, turned
<1>3. \A d \in Cells, s \in Sats : b.links[d][s] = IF d = c THEN turned(s) ELSE a.links[d][s]
  BY <1>1 DEF Good, Typed
<1>4. \A d \in Cells : d # c => b.links[d] = a.links[d]
  BY <1>1 DEF Good, Typed
<1>5. \A d \in Cells : Linked(b, d) \subseteq Linked(a, d)
  BY <1>2, <1>3 DEF Linked
<1>7. Primaries(b, c) \subseteq Primaries(a, c)
  BY <1>2, <1>3 DEF Primaries
<1>6. ASSUME Primaries(a, c) # {}, Linked(b, c) = {}
      PROVE  ~ Demand(b, c) /\ \E s \in Sats : Waiters(b, s) # {}
  <2>1. PICK s \in Sats : a.links[c][s].state # "none"
    BY <1>6 DEF Primaries
  <2>2. turned(s).state = "none"
    BY <1>3, <1>6 DEF Linked
  <2>3. ~ Demand(a, c) /\ Waiters(a, s) # {}
    BY <1>2, <2>1, <2>2
  <2> QED
    BY <1>1, <2>3 DEF Demand, Waiters
<1> QED
  BY <1>1, <1>4, <1>5, <1>6, <1>7 DEF b

\* A handover of c changes the links of c only, and no wait queue.
LEMMA HandoverFields ==
  ASSUME NEW a, NEW c \in Cells, NEW steep, Good(a), now \in Nat, sky \in Skies
  PROVE  LET b == EvaluateHandover(a, c, steep)
         IN  /\ b.wait = a.wait
             /\ \A d \in Cells : d # c => Linked(b, d) = Linked(a, d)
             /\ Primaries(a, c) = {} => Linked(b, c) \subseteq Linked(a, c)
<1> DEFINE b == SettleRetiring(a, c)
           cur == Primary(b, c)
           targets == {s \in Visible(c) \ {cur} : Free(b, s)}
           e == EvaluateHandover(a, c, steep)
           d(u) == Associated(u, c, Highest(c, targets))
<1>1. Good(b) /\ Primaries(b, c) = Primaries(a, c)
  BY SettleRetiringGood, SettleRetiringCalm
<1>2. b.wait = a.wait /\ \A s \in Sats, g \in Cells :
        \/ b.links[g][s] = a.links[g][s]
        \/ g = c /\ b.links[g][s] = NoLink
  <2> DEFINE gone == {s \in Retiring(a, c) :
                 ~ InService(c, s) /\ (\/ \A p \in Range(a.queue[c]) : a.assigned[p] # s
                                       \/ now >= a.links[c][s].due)}
  <2>1. /\ b.links = [a.links EXCEPT ![c] = [s \in Sats |-> IF s \in gone THEN NoLink ELSE @[s]]]
        /\ b.wait = a.wait
    BY DEF Good, Typed, Fields, SettleRetiring
  <2> HIDE DEF gone, b
  <2> QED
    BY <2>1 DEF Good, Typed
<1> HIDE DEF b
<1>3. \A g \in Cells : /\ g # c => Linked(b, g) = Linked(a, g)
                       /\ Linked(b, g) \subseteq Linked(a, g)
  BY <1>2 DEF Linked, NoLink
<1>4. CASE e = b
  BY <1>2, <1>3, <1>4
<1>5. CASE e # b
  <2>1. Primaries(b, c) # {}
    BY <1>5 DEF EvaluateHandover, b
  <2>2. cur \in Sats /\ cur \in Linked(b, c)
    BY <1>1, <2>1, PrimaryType DEF Primaries, Linked
  <2>3. e = Released(b, c, cur) \/ (targets # {} /\ e = SwitchTo(b, c, cur, Highest(c, targets)))
    BY <1>5 DEF EvaluateHandover, b
  <2>4. \A s : s = cur => /\ Typed(Released(b, c, s)) /\ Released(b, c, s).wait = b.wait
                 /\ \A g \in Cells : g # c => Released(b, c, s).links[g] = b.links[g]
    <3> SUFFICES ASSUME NEW s, s = cur
                 PROVE /\ Typed(Released(b, c, s)) /\ Released(b, c, s).wait = b.wait
                       /\ \A g \in Cells : g # c => Released(b, c, s).links[g] = b.links[g]
      OBVIOUS
    <3>1. Good(Released(b, c, s)) /\ s \in Sats
      BY <1>1, <2>2, ReleasedGood
    <3> QED
      BY <1>1, <3>1 DEF Released, Good, Typed, Fields
  <2>5. CASE e = Released(b, c, cur)
    BY <1>1, <1>2, <1>3, <2>1, <2>4, <2>5 DEF Linked
  <2>6. CASE targets # {} /\ e = SwitchTo(b, c, cur, Highest(c, targets))
    <3> DEFINE t == Highest(c, targets)
    <3>1. t \in Sats
      <4>1. targets \in SUBSET Visible(c)
        OBVIOUS
      <4> QED
        BY <2>6, <4>1, HighestType, VisibleType
    <3> DEFINE f == [Retired(b, c, cur) EXCEPT !.assigned =
                       [p \in Packets |-> IF p \in Range(b.queue[c]) /\ @[p] = None
                                          THEN cur ELSE @[p]]]
    <3>2. e \in {b, Associated(f, c, t), Associated(Released(b, c, cur), c, t)}
      BY <2>6 DEF SwitchTo
    <3>3. Typed(f) /\ f.wait = b.wait /\ \A g \in Cells : g # c => f.links[g] = b.links[g]
      <4>1. Good(Retired(b, c, cur))
        BY <1>1, <2>2, RetiredGood
      <4>2. /\ f.links = Retired(b, c, cur).links /\ f.slots = Retired(b, c, cur).slots
            /\ f.wait = Retired(b, c, cur).wait /\ f.requests = Retired(b, c, cur).requests
            /\ DOMAIN f = Fields
        BY <4>1 DEF Good, Typed, Fields
      <4>3. Retired(b, c, cur).wait = b.wait
            /\ \A g \in Cells : g # c => Retired(b, c, cur).links[g] = b.links[g]
        BY <1>1 DEF Good, Typed, Fields, Retired
      <4> HIDE DEF f
      <4> QED
        BY <4>1, <4>2, <4>3 DEF Good, Typed
    <3> HIDE DEF f, t, e
    <3>4. ASSUME NEW u, Typed(u), u.wait = b.wait, \A g \in Cells : g # c => u.links[g] = b.links[g],
                 e = Associated(u, c, t)
          PROVE  e.wait = b.wait /\ \A g \in Cells : g # c => Linked(e, g) = Linked(b, g)
      <4>1. e.wait = u.wait /\ e.links = [u.links EXCEPT ![c][t] = NewLink]
        BY <3>1, <3>4, AssociatedMakes, AssociatedWait
      <4> QED
        BY <3>4, <4>1 DEF Typed, Linked
    <3>5. e.wait = b.wait /\ \A g \in Cells : g # c => Linked(e, g) = Linked(b, g)
      BY <2>4, <3>2, <3>3, <3>4
    <3> QED
      BY <1>1, <1>2, <1>3, <2>1, <3>5 DEF e
  <2> QED
    BY <2>3, <2>5, <2>6
<1> QED
  BY <1>4, <1>5

\* A link made in this tick is too young for a handover in the same tick.
LEMMA FreshStays ==
  ASSUME NEW a, NEW c \in Cells, NEW s \in Visible(c) \cap Sats, NEW steep, Good(a), now \in Nat,
         MinDwell > 0, a.links[c][s] = NewLink, \A r \in Sats \ {s} : a.links[c][r].state = "none"
  PROVE  EvaluateHandover(a, c, steep).links = a.links
<1> DEFINE b == SettleRetiring(a, c)
<1>1. NewLink.state \in {"acquiring", "active"} /\ NewLink.since = now
  BY DEF NewLink
<1>2. Retiring(a, c) = {}
  BY <1>1 DEF Retiring
<1>3. b.links = [a.links EXCEPT ![c] = [r \in Sats |-> a.links[c][r]]]
  BY <1>2 DEF Good, Typed, Fields, SettleRetiring
<1>4. b.links = a.links
  BY <1>3 DEF Good, Typed
<1>5. Primaries(b, c) = {s}
  BY <1>1, <1>4 DEF Primaries
<1>6. Primary(b, c) = s
  BY <1>5 DEF Primary
<1>7. ~ WantsSwitch(b, c, steep)
  BY <1>1, <1>4, <1>6, ConfigAssumption DEF WantsSwitch
<1> QED
  BY <1>4, <1>7 DEF EvaluateHandover

LEMMA EndpointTickFair ==
  ASSUME NEW a, NEW c \in Cells, NEW steep, Good(a), now \in Nat, sky \in Skies, MinDwell > 0
  PROVE  LET b == EvaluateHandover(AccessTickEndpoint(a, c), c, steep)
         IN  FairGrants(a, b) /\ WaitMoves(a, b)
<1> DEFINE b == RotateOrLeave(a, c)
           d == AccessTickEndpoint(a, c)
           e == EvaluateHandover(d, c, steep)
<1>1. Good(b) /\ Good(d)
  BY RotateOrLeaveGood, AccessTickEndpointGood
<1>2. /\ b.wait = a.wait /\ b.requests = a.requests
      /\ \A g \in Cells : g # c => b.links[g] = a.links[g]
      /\ \A g \in Cells : Linked(b, g) \subseteq Linked(a, g)
      /\ Primaries(b, c) \subseteq Primaries(a, c)
      /\ Primaries(a, c) # {} => \/ Linked(b, c) # {}
                                 \/ ~ Demand(b, c) /\ \E s \in Sats : Waiters(b, s) # {}
  BY RotateOrLeaveFields
<1>3. \/ d = b
      \/ /\ Linked(b, c) = {} /\ Demand(b, c) /\ d = RequestOrGrant(b, c)
      \/ /\ Linked(b, c) = {} /\ ~ Demand(b, c) /\ d = TryGrant(b, c)
         /\ \A s \in Sats : Waiters(b, s) = {}
  BY DEF AccessTickEndpoint
<1> HIDE DEF b
<1>4. \/ d.links = b.links /\ WaitMoves(b, d)
      \/ Linked(b, c) = {} /\ d = TryGrant(b, c) /\ d # b
  BY <1>1, <1>3, RequestOrGrantFair DEF WaitMoves
<1>5. d = b \/ Primaries(a, c) = {}
  BY <1>2, <1>3
<1> HIDE DEF d
<1>6. /\ e.wait = d.wait
      /\ \A g \in Cells : g # c => Linked(e, g) = Linked(d, g)
      /\ Primaries(d, c) = {} => Linked(e, c) \subseteq Linked(d, c)
  BY <1>1, HandoverFields
<1>7. CASE d.links = b.links /\ WaitMoves(b, d)
  <2>1. FairGrants(a, e)
    <3> SUFFICES ASSUME NEW s \in Sats, NEW g \in Cells, s \in Linked(e, g) \ Linked(a, g),
                        Primaries(a, g) = {}
                 PROVE  FALSE
      BY DEF FairGrants
    <3>1. s \notin Linked(d, g)
      BY <1>2, <1>7 DEF Linked
    <3>2. g = c
      BY <1>6, <3>1
    <3>3. Primaries(b, c) = {}
      BY <1>2, <3>2
    <3>4. Primaries(d, c) = {}
      BY <1>7, <3>3 DEF Primaries
    <3> QED
      BY <1>6, <3>1, <3>2, <3>4
  <2>2. WaitMoves(a, e)
    BY <1>2, <1>6, <1>7 DEF WaitMoves
  <2> QED
    BY <2>1, <2>2 DEF d
<1>8. CASE Linked(b, c) = {} /\ d = TryGrant(b, c) /\ d # b
  <2>1. WaitMoves(b, d)
    BY <1>1, <1>8, TryGrantFair
  <2>2. PICK s \in Visible(c) \cap Sats :
          d.links = [b.links EXCEPT ![c][s] = NewLink]
          /\ (Waiters(b, s) # {} => IsOldest(b, s, c))
    BY <1>1, <1>8, TryGrantFair
  <2>3. Waiters(a, s) # {} => IsOldest(a, s, c)
    BY <1>2, <2>2 DEF Waiters, IsOldest
  <2>4. /\ d.links[c][s] = NewLink /\ s \in Sats
        /\ \A r \in Sats \ {s} : d.links[c][r].state = "none"
    <3>1. b.links \in [Cells -> [Sats -> Links]] /\ \A r \in Sats : b.links[c][r].state = "none"
      BY <1>1, <1>8 DEF Good, Typed, Linked
    <3>2. s \in Sats
      OBVIOUS
    <3>3. \A r \in Sats : d.links[c][r] = IF r = s THEN NewLink ELSE b.links[c][r]
      BY <2>2, <3>1
    <3> QED
      BY <3>1, <3>2, <3>3
  <2>5. e.links = d.links
    BY <1>1, <2>4, FreshStays
  <2>6. FairGrants(a, e)
    <3> SUFFICES ASSUME NEW r \in Sats, NEW g \in Cells, r \in Linked(e, g) \ Linked(a, g),
                        NEW x \in Waiters(a, r) \ {g}
                 PROVE  g \in Waiters(a, r) /\ a.wait[r][g].t =< a.wait[r][x].t
      BY DEF FairGrants
    <3>1. r = s /\ g = c
      BY <1>1, <1>2, <2>2, <2>5 DEF Good, Typed, Linked
    <3>2. IsOldest(a, s, c)
      BY <2>3, <3>1
    <3>3. a.wait[s][c].t \in Nat /\ a.wait[s][x].t \in Nat
      BY <3>1, <3>2 DEF IsOldest, Waiters, Good, Typed, Requests
    <3> QED
      BY <3>1, <3>2, <3>3 DEF IsOldest
  <2>7. WaitMoves(a, e)
    BY <1>2, <1>6, <2>1 DEF WaitMoves
  <2> QED
    BY <2>6, <2>7 DEF d
<1> QED
  BY <1>4, <1>7, <1>8

\* One pass of the satellite's ticker serves the waiters by rank, and stops at
\* the first live request it has no slot for.
LEMMA AccessTickSatFair ==
  ASSUME NEW a, NEW s \in Sats, Good(a), QueueOrder(a)
  PROVE  FairGrants(a, AccessTickSat(a, s)) /\ WaitMoves(a, AccessTickSat(a, s))
<1> DEFINE ahead(c) == {d \in Waiters(a, s) : a.wait[s][d].n < a.wait[s][c].n}
           stale(c) == StaleRequest(a, c)
           wanted == {c \in Waiters(a, s) : ~ stale(c) /\ s \in Visible(c)}
           room(c) == Cardinality(a.slots[s] \cup (ahead(c) \cap wanted)) < Slots
           reached(c) == \A d \in ahead(c) : stale(d) \/ room(d)
           granted == {c \in wanted : reached(c) /\ room(c)}
           dropped == {c \in Waiters(a, s) : reached(c) /\ stale(c)}
           b == [a EXCEPT
                   !.links = [c \in Cells |-> IF c \in granted
                                              THEN [@[c] EXCEPT ![s] = NewLink] ELSE @[c]],
                   !.slots[s] = @ \cup granted,
                   !.wait[s] = [c \in Cells |-> IF c \in granted \cup dropped
                                                THEN None ELSE @[c]]]
           e == AccessTickSat(a, s)
<1>1. e \in {b, Poked(b, {s})}
  BY DEF AccessTickSat, NewLink
<1>2. ASSUME NEW c \in granted, NEW d \in Waiters(a, s) \ {c}, d \in wanted
      PROVE  d \in granted \/ a.wait[s][c].n < a.wait[s][d].n
  <2>0. c \in Waiters(a, s) /\ reached(c) /\ c \in Cells /\ d \in Cells
    BY DEF Waiters
  <2>1. /\ \A g \in Waiters(a, s) : a.wait[s][g].n \in Nat
        /\ a.wait[s][c].n # a.wait[s][d].n
    BY <2>0 DEF Good, Typed, RanksDistinct, Waiters, Requests
  <2>2. CASE a.wait[s][d].n < a.wait[s][c].n
    <3>1. d \in ahead(c) /\ ~ stale(d)
      BY <1>2, <2>2
    <3>2. room(d)
      BY <2>0, <3>1
    <3>3. ahead(d) \subseteq ahead(c)
      BY <2>0, <2>1, <2>2
    <3>4. reached(d)
      BY <2>0, <3>3
    <3> QED
      BY <1>2, <3>2, <3>4
  <2> HIDE DEF wanted, granted, reached
  <2> QED
    BY <2>0, <2>1, <2>2
<1>3. granted \subseteq Waiters(a, s)
  OBVIOUS
<1>6. \A d \in Waiters(a, s) : d \in wanted \/ s \notin Visible(d) \/ Primaries(a, d) # {} \/ ~ Demand(a, d)
  BY DEF StaleRequest
<1> HIDE DEF granted, dropped, wanted
<1>4. b.links = [c \in Cells |-> IF c \in granted THEN [a.links[c] EXCEPT ![s] = NewLink]
                                 ELSE a.links[c]]
      /\ b.slots = [a.slots EXCEPT ![s] = @ \cup granted]
      /\ b.wait = [a.wait EXCEPT ![s] = [c \in Cells |-> IF c \in granted \cup dropped
                                                         THEN None ELSE @[c]]]
      /\ DOMAIN b = Fields
  BY DEF Good, Typed, Fields
<1> HIDE DEF b, e
<1>5. e.links = b.links /\ e.slots = b.slots /\ e.wait = b.wait
  BY <1>1, <1>4, PokedFields
<1>7. WaitMoves(a, e)
  BY <1>4, <1>5 DEF WaitMoves, Good, Typed
<1>8. FairGrants(a, e)
  <2> SUFFICES ASSUME NEW r \in Sats, NEW c \in Cells, r \in Linked(e, c) \ Linked(a, c),
                      NEW d \in Waiters(a, r) \ {c}, d \notin e.slots[r],
                      r \in Visible(d), Primaries(a, d) = {}, Demand(a, d)
               PROVE  c \in Waiters(a, r) /\ a.wait[r][c].t =< a.wait[r][d].t
    BY DEF FairGrants
  <2>1. r = s /\ c \in granted
    BY <1>4, <1>5 DEF Good, Typed, Linked
  <2>2. d \notin granted
    BY <1>4, <1>5, <2>1 DEF Good, Typed
  <2>3. d \in wanted
    BY <1>6, <2>1
  <2>4. a.wait[s][c].n < a.wait[s][d].n
    BY <1>2, <2>1, <2>2, <2>3
  <2> QED
    BY <1>3, <2>1, <2>4 DEF QueueOrder
<1> QED
  BY <1>7, <1>8 DEF e

LEMMA OnLinkRetiredNone ==
  ASSUME NEW a, NEW c, NEW s \in Sats, Good(a)
  PROVE  NoneNew(a, OnLinkRetired(a, c, s))
<1> DEFINE b == Unassigned(a, c, s)
           d == Released(b, c, s)
<1>1. d.links = [a.links EXCEPT ![c][s] = NoLink] /\ d.wait = a.wait
  BY DEF Good, Typed, Fields, Released, Unassigned
<1> HIDE DEF d
<1>2. NoneNew(a, d) /\ NoneNew(a, a)
  BY <1>1 DEF NoneNew, Linked, NoLink, Good, Typed
<1> QED
  BY <1>2 DEF OnLinkRetired, d, b

\* Every step is fair and keeps the order of the queues.
LEMMA StepFair ==
  ASSUME AccessInv, QueueOrder(acc), MinDwell > 0, [Next]_vars
  PROVE  FairGrants(acc, acc') /\ WaitMoves(acc, acc')
<1>0. Good(acc) /\ now \in Nat /\ sky \in Skies
  BY DEF AccessInv
<1>1. ASSUME NoneNew(acc, acc') PROVE FairGrants(acc, acc') /\ WaitMoves(acc, acc')
  BY <1>1, NoneNewFair
<1>2. CASE acc' = acc
  BY <1>1, <1>2 DEF NoneNew
<1>3. ASSUME NEW S, acc' = Poked(acc, S) PROVE NoneNew(acc, acc')
  BY <1>0, <1>3, PokedFields DEF NoneNew, Good, Typed, Linked
<1>4. ASSUME NEW c \in Cells, NEW steep \in BOOLEAN, EndpointTick(c, steep)
      PROVE  FairGrants(acc, acc') /\ WaitMoves(acc, acc')
  BY <1>0, <1>4, EndpointTickFair DEF EndpointTick
<1>5. ASSUME NEW c \in Cells, NEW s \in Sats, ActivateAfterDelay(c, s)
      PROVE  NoneNew(acc, acc')
  <2> DEFINE b == [acc EXCEPT !.links[c][s].state = "active"]
  <2>1. /\ b.links = [acc.links EXCEPT ![c][s] = [@ EXCEPT !.state = "active"]]
        /\ b.wait = acc.wait /\ DOMAIN b = Fields
    BY <1>0 DEF Good, Typed, Fields
  <2>2. acc' = Poked(b, {s}) /\ acc.links[c][s].state = "acquiring"
    BY <1>5 DEF ActivateAfterDelay, ActivationDue
  <2> HIDE DEF b
  <2>3. acc'.links = b.links /\ acc'.wait = b.wait
    BY <2>1, <2>2, PokedFields
  <2>4. \A g \in Cells, r \in Sats :
          acc'.links[g][r].state # "none" => acc.links[g][r].state # "none"
    <3> SUFFICES ASSUME NEW g \in Cells, NEW r \in Sats, acc.links[g][r].state = "none"
                 PROVE  acc'.links[g][r] = acc.links[g][r]
      OBVIOUS
    <3>1. ~ (g = c /\ r = s)
      BY <2>2
    <3> QED
      BY <1>0, <2>1, <2>3, <3>1 DEF Good, Typed
  <2> QED
    BY <2>1, <2>3, <2>4 DEF NoneNew, Linked
<1>6. ASSUME NEW c \in Cells, NEW s \in Sats, FireInterrupt(c, s)
      PROVE  NoneNew(acc, acc')
  <2>1. acc' = OnLinkRetired(acc, c, s)
    BY <1>6 DEF FireInterrupt, InterruptDue, OnLinkRetired
  <2> QED
    BY <1>0, <2>1, OnLinkRetiredNone
<1>7. ASSUME NEW c \in Cells, NEW s \in Sats, StartUplink(c, s)
      PROVE  NoneNew(acc, acc')
  <2>1. \E i, p : acc' = [acc EXCEPT !.queue[c] = RemoveAt(@, i), !.assigned[p] = s]
    BY <1>7 DEF StartUplink
  <2> QED
    BY <1>0, <2>1 DEF NoneNew, Linked, Good, Typed, Fields
<1>8. ASSUME NEW s \in Sats, SatTick(s)
      PROVE  FairGrants(acc, acc') /\ WaitMoves(acc, acc')
  BY <1>0, <1>8, AccessTickSatFair DEF SatTick
<1>9. ASSUME NEW s \in Sats, SleepUplink(s) PROVE NoneNew(acc, acc')
  BY <1>0, <1>9 DEF SleepUplink, NoneNew, Linked, Good, Typed, Fields
<1>10. ASSUME NEW s \in Sats, UplinkRetired(s) PROVE NoneNew(acc, acc')
  <2> DEFINE c == up[s].cell
             b == Requeued(acc, c, up[s].pkt)
             d == OnLinkRetired(b, c, s)
  <2>1. /\ DOMAIN b = Fields /\ b.links = acc.links /\ b.slots = acc.slots
        /\ b.wait = acc.wait /\ b.requests = acc.requests
    BY <1>0 DEF Good, Typed, Fields, Requeued
  <2>2. acc' = Poked(d, Linked(d, c))
    BY <1>10 DEF UplinkRetired
  <2> HIDE DEF b, c
  <2>3. Good(b)
    BY <1>0, <2>1, SameLinks
  <2>4. NoneNew(b, d) /\ DOMAIN d = Fields
    BY <2>3, OnLinkRetiredNone, OnLinkRetiredGood DEF Good, Typed
  <2> HIDE DEF d
  <2>5. acc'.links = d.links /\ acc'.wait = d.wait
    BY <2>2, <2>4, PokedFields
  <2> QED
    BY <2>1, <2>4, <2>5 DEF NoneNew, Linked
<1>11. ASSUME NEW s \in Sats, DownlinkRetired(s) PROVE NoneNew(acc, acc')
  BY <1>0, <1>11, OnLinkRetiredNone DEF DownlinkRetired
<1>12. ASSUME NEW c \in Cells, NEW p \in Packets, Emit(c, p)
       PROVE  FairGrants(acc, acc') /\ WaitMoves(acc, acc')
  <2>1. acc' = acc \/ acc' = Enqueued(acc, c, p)
    BY <1>12 DEF Emit
  <2> QED
    BY <1>0, <1>2, <2>1, EnqueuedFair
<1>13. ASSUME NEW sky2 \in Skies, Advance(sky2) PROVE NoneNew(acc, acc')
  BY <1>3, <1>13 DEF Advance
<1>14. ASSUME NEW c \in Cells, NEW s \in Sats,
              DemandArrives(c, s) \/ DemandLeaves(c, s) \/ StartDownlink(c, s)
                \/ UplinkEnds(s) \/ DownlinkEnds(s) PROVE acc' = acc
  BY <1>14 DEF DemandArrives, DemandLeaves, StartDownlink, UplinkEnds, DownlinkEnds
<1>15. ASSUME NEW c \in Cells, EndpointStep(c)
       PROVE  FairGrants(acc, acc') /\ WaitMoves(acc, acc')
  BY <1>1, <1>4, <1>5, <1>6, <1>7, <1>15 DEF EndpointStep
<1>16. ASSUME NEW s \in Sats, UplinkEnds(s) \/ DownlinkEnds(s) PROVE acc' = acc
  BY <1>16 DEF UplinkEnds, DownlinkEnds
<1>17. ASSUME NEW s \in Sats, SatStep(s)
       PROVE  FairGrants(acc, acc') /\ WaitMoves(acc, acc')
  BY <1>1, <1>2, <1>8, <1>9, <1>10, <1>11, <1>16, <1>17 DEF SatStep
<1>18. CASE Environment
  BY <1>2, <1>12, <1>14, <1>18 DEF Environment
<1>19. CASE UNCHANGED vars \/ Closed
  BY <1>2, <1>19 DEF Closed, vars
<1> QED
  BY <1>1, <1>13, <1>15, <1>17, <1>18, <1>19 DEF Next

LEMMA QueueOrderNext ==
  ASSUME AccessInv, QueueOrder(acc), MinDwell > 0, [Next]_vars
  PROVE  QueueOrder(acc)'
<1>1. QueueOrder(acc')
  BY StepFair, WaitMovesOrder DEF AccessInv
<1>2. now' \in Nat /\ now \in Nat /\ now =< now'
  <2>1. now' = now \/ now' = now + 1
    BY DEF Next, vars, EndpointStep, SatStep, Environment, EndpointTick, ActivateAfterDelay,
       FireInterrupt, StartUplink, SatTick, SleepUplink, UplinkRetired, UplinkEnds,
       DownlinkRetired, DownlinkEnds, Emit, DemandArrives, DemandLeaves, StartDownlink,
       Advance, Closed
  <2> QED
    BY <2>1 DEF AccessInv
<1>3. Good(acc')
  <2>1. AccessInv'
    BY AccessStep
  <2> QED
    BY <2>1 DEF AccessInv, Good, Typed, SlotsMatch, WithinSlots, OnePrimary, RanksDistinct,
       Linked, Primaries, Waiters
<1> SUFFICES ASSUME NEW s \in Sats, NEW c \in Waiters(acc', s)
             PROVE  /\ acc'.wait[s][c].t =< now'
                    /\ \A d \in Waiters(acc', s) :
                         acc'.wait[s][c].n < acc'.wait[s][d].n
                           => acc'.wait[s][c].t =< acc'.wait[s][d].t
  BY DEF QueueOrder, Waiters
<1>4. acc'.wait[s][c].t \in Nat /\ acc'.wait[s][c].t =< now
  BY <1>1, <1>3 DEF QueueOrder, Waiters, Good, Typed, Requests
<1> QED
  BY <1>1, <1>2, <1>4 DEF QueueOrder

\* Grants follow the request times on every path but a handover, if a link
\* just granted may not be handed over in the same tick (min_dwell_s > 0).
THEOREM FifoGrantsAlways == ASSUME MinDwell > 0 PROVE Spec => FifoGrants
<1>1. Init => QueueOrder(acc)
  BY DEF Init, QueueOrder, Waiters
<1>2. AccessInv /\ QueueOrder(acc) /\ [Next]_vars => QueueOrder(acc)'
  BY QueueOrderNext
<1>3. AccessInv /\ QueueOrder(acc) /\ [Next]_vars => [FairGrants(acc, acc')]_vars
  BY StepFair
<1> QED
  BY <1>1, <1>2, <1>3, AccessInvariant, PTL DEF Spec, FifoGrants


-----------------------------------------------------------------------------
(* Where the packets are.                                                  *)

QueuesTyped(a) ==
  /\ a.queue \in [Cells -> Seq(Packets)]
  /\ a.assigned \in [Packets -> Sats \cup {None}]
  /\ a.asleep \in [Sats -> BOOLEAN] /\ a.watch \in [Sats -> SUBSET Cells]

\* Granting, rotating and retiring move no packet.
KeepsQueues(a, b) == b.queue = a.queue /\ (QueuesTyped(a) => QueuesTyped(b))

LEMMA PokedKeeps ==
  ASSUME NEW a, NEW S, DOMAIN a = Fields PROVE KeepsQueues(a, Poked(a, S))
<1> DEFINE b == Poked(a, S)
<1>1. /\ b.queue = a.queue /\ b.assigned = a.assigned /\ b.watch = a.watch
      /\ b.asleep = [s \in Sats |-> a.asleep[s] /\ s \notin S]
  BY DEF Poked, Fields
<1> HIDE DEF b
<1>2. QueuesTyped(a) => QueuesTyped(b)
  BY <1>1 DEF QueuesTyped
<1> QED
  BY <1>1, <1>2 DEF KeepsQueues, b

LEMMA AssociatedKeeps ==
  ASSUME NEW a, NEW c, NEW s, DOMAIN a = Fields
  PROVE  KeepsQueues(a, Associated(a, c, s)) /\ DOMAIN Associated(a, c, s) = Fields
<1> DEFINE b == [a EXCEPT !.links[c][s] = NewLink, !.slots[s] = @ \cup {c}]
<1>1. KeepsQueues(a, b) /\ DOMAIN b = Fields
  BY DEF KeepsQueues, QueuesTyped, Fields
<1>2. KeepsQueues(b, Poked(b, {s})) /\ DOMAIN Poked(b, {s}) = Fields
  BY <1>1, PokedKeeps DEF Poked
<1> QED
  BY <1>1, <1>2 DEF Associated, NewLink, KeepsQueues

LEMMA ReleasedKeeps ==
  ASSUME NEW a, NEW c, NEW s, DOMAIN a = Fields
  PROVE  KeepsQueues(a, Released(a, c, s)) /\ DOMAIN Released(a, c, s) = Fields
BY DEF KeepsQueues, QueuesTyped, Fields, Released

LEMMA TryGrantKeeps ==
  ASSUME NEW a, NEW c, DOMAIN a = Fields
  PROVE  KeepsQueues(a, TryGrant(a, c)) /\ KeepsQueues(a, RequestOrGrant(a, c))
<1>1. ASSUME NEW s
      PROVE  KeepsQueues(a, Granted(a, c, s))
  <2> DEFINE b == [a EXCEPT !.wait = [r \in Sats |-> [@[r] EXCEPT ![c] = None]]]
  <2>1. KeepsQueues(a, b) /\ DOMAIN b = Fields
    BY DEF KeepsQueues, QueuesTyped, Fields
  <2> HIDE DEF b
  <2>2. KeepsQueues(b, Associated(b, c, s))
    BY <2>1, AssociatedKeeps
  <2> QED
    BY <2>1, <2>2 DEF Granted, KeepsQueues, b
<1>2. KeepsQueues(a, a)
  BY DEF KeepsQueues
<1>3. KeepsQueues(a, TryGrant(a, c))
  BY <1>1, <1>2 DEF TryGrant
<1>4. \A s : KeepsQueues(a, [a EXCEPT !.wait[s][c] = [t |-> now, n |-> a.requests],
                                      !.requests = @ + 1])
  BY DEF KeepsQueues, QueuesTyped, Fields
<1>5. RequestOrGrant(a, c) \in {TryGrant(a, c), a}
      \/ \E s : RequestOrGrant(a, c) = [a EXCEPT !.wait[s][c] = [t |-> now, n |-> a.requests],
                                                 !.requests = @ + 1]
  BY DEF RequestOrGrant
<1> QED
  BY <1>2, <1>3, <1>4, <1>5

LEMMA AccessTickEndpointKeeps ==
  ASSUME NEW a, NEW c, DOMAIN a = Fields
  PROVE  KeepsQueues(a, AccessTickEndpoint(a, c))
<1> DEFINE b == RotateOrLeave(a, c)
<1>1. KeepsQueues(a, b) /\ DOMAIN b = Fields
  BY DEF KeepsQueues, QueuesTyped, Fields, RotateOrLeave
<1> HIDE DEF b
<1>2. KeepsQueues(b, TryGrant(b, c)) /\ KeepsQueues(b, RequestOrGrant(b, c))
  BY <1>1, TryGrantKeeps
<1>3. AccessTickEndpoint(a, c) \in {b, TryGrant(b, c), RequestOrGrant(b, c)}
  BY DEF AccessTickEndpoint, b
<1> QED
  BY <1>1, <1>2, <1>3 DEF KeepsQueues

LEMMA EvaluateHandoverKeeps ==
  ASSUME NEW a, NEW c \in Cells, NEW steep, Good(a), sky \in Skies
  PROVE  KeepsQueues(a, EvaluateHandover(a, c, steep))
<1> DEFINE b == SettleRetiring(a, c)
           cur == Primary(b, c)
           targets == {s \in Visible(c) \ {cur} : Free(b, s)}
           t == Highest(c, targets)
           d == Retired(b, c, cur)
           f == [d EXCEPT !.assigned = [p \in Packets |-> IF p \in Range(b.queue[c]) /\ @[p] = None
                                                          THEN cur ELSE @[p]]]
           e == EvaluateHandover(a, c, steep)
<1>1. KeepsQueues(a, b) /\ DOMAIN b = Fields
  <2> DEFINE gone == {s \in Retiring(a, c) :
                 ~ InService(c, s) /\ (\/ \A p \in Range(a.queue[c]) : a.assigned[p] # s
                                       \/ now >= a.links[c][s].due)}
  <2>1. /\ b.queue = a.queue /\ b.asleep = a.asleep /\ b.watch = a.watch
        /\ b.assigned = [p \in Packets |->
             IF p \in Range(a.queue[c]) /\ a.assigned[p] \in gone THEN None ELSE a.assigned[p]]
        /\ DOMAIN b = Fields
    BY DEF Good, Typed, Fields, SettleRetiring
  <2> HIDE DEF b, gone
  <2> QED
    BY <2>1 DEF KeepsQueues, QueuesTyped
<1>2. Good(b)
  BY SettleRetiringGood
<1>3. e \in {b, Released(b, c, cur)} \/ (Primaries(b, c) # {} /\ e = SwitchTo(b, c, cur, t))
  BY DEF EvaluateHandover
<1> HIDE DEF b, t, e
<1>4. KeepsQueues(b, Released(b, c, cur)) /\ DOMAIN Released(b, c, cur) = Fields
  BY <1>1, ReleasedKeeps
<1>5. Primaries(b, c) # {} => KeepsQueues(b, f) /\ DOMAIN f = Fields
  <2> SUFFICES ASSUME Primaries(b, c) # {} PROVE KeepsQueues(b, f) /\ DOMAIN f = Fields
    OBVIOUS
  <2>1. cur \in Sats
    BY <1>2, PrimaryType DEF Primaries
  <2>2. /\ f.queue = b.queue /\ f.asleep = b.asleep /\ f.watch = b.watch
        /\ f.assigned = [p \in Packets |->
             IF p \in Range(b.queue[c]) /\ b.assigned[p] = None THEN cur ELSE b.assigned[p]]
        /\ DOMAIN f = Fields
    BY <1>1 DEF Fields, Retired
  <2> HIDE DEF f, cur
  <2> QED
    BY <2>1, <2>2 DEF KeepsQueues, QueuesTyped
<1> HIDE DEF f, d, cur
<1>6. KeepsQueues(b, b)
  BY DEF KeepsQueues
<1>7. CASE Primaries(b, c) # {} /\ e = SwitchTo(b, c, cur, t)
  <2>1. e \in {b, Associated(f, c, t), Associated(Released(b, c, cur), c, t)}
    BY <1>7 DEF SwitchTo, f, d
  <2>2. KeepsQueues(f, Associated(f, c, t))
        /\ KeepsQueues(Released(b, c, cur), Associated(Released(b, c, cur), c, t))
    BY <1>4, <1>5, <1>7, AssociatedKeeps
  <2> QED
    BY <1>1, <1>4, <1>5, <1>7, <2>1, <2>2 DEF KeepsQueues, e
<1> QED
  BY <1>1, <1>3, <1>4, <1>6, <1>7 DEF KeepsQueues, e

LEMMA AccessTickSatKeeps ==
  ASSUME NEW a, NEW s, DOMAIN a = Fields PROVE KeepsQueues(a, AccessTickSat(a, s))
<1> DEFINE ahead(c) == {d \in Waiters(a, s) : a.wait[s][d].n < a.wait[s][c].n}
           stale(c) == StaleRequest(a, c)
           wanted == {c \in Waiters(a, s) : ~ stale(c) /\ s \in Visible(c)}
           room(c) == Cardinality(a.slots[s] \cup (ahead(c) \cap wanted)) < Slots
           reached(c) == \A d \in ahead(c) : stale(d) \/ room(d)
           granted == {c \in wanted : reached(c) /\ room(c)}
           dropped == {c \in Waiters(a, s) : reached(c) /\ stale(c)}
           b == [a EXCEPT
                   !.links = [c \in Cells |-> IF c \in granted
                                              THEN [@[c] EXCEPT ![s] = NewLink] ELSE @[c]],
                   !.slots[s] = @ \cup granted,
                   !.wait[s] = [c \in Cells |-> IF c \in granted \cup dropped
                                                THEN None ELSE @[c]]]
<1>1. AccessTickSat(a, s) \in {b, Poked(b, {s})}
  BY DEF AccessTickSat, NewLink
<1> HIDE DEF granted, dropped
<1>2. KeepsQueues(a, b) /\ DOMAIN b = Fields
  BY DEF KeepsQueues, QueuesTyped, Fields
<1> HIDE DEF b
<1>3. KeepsQueues(b, Poked(b, {s}))
  BY <1>2, PokedKeeps
<1> QED
  BY <1>1, <1>2, <1>3 DEF KeepsQueues

LEMMA OnLinkRetiredKeeps ==
  ASSUME NEW a, NEW c, NEW s, DOMAIN a = Fields PROVE KeepsQueues(a, OnLinkRetired(a, c, s))
<1> DEFINE b == Unassigned(a, c, s)
<1>1. /\ b.queue = a.queue /\ b.asleep = a.asleep /\ b.watch = a.watch
      /\ b.assigned = [p \in Packets |-> IF p \in Range(a.queue[c]) /\ a.assigned[p] = s
                                         THEN None ELSE a.assigned[p]]
      /\ DOMAIN b = Fields
  BY DEF Unassigned, Fields
<1> HIDE DEF b
<1>2. KeepsQueues(a, b)
  BY <1>1 DEF KeepsQueues, QueuesTyped
<1>3. KeepsQueues(b, Released(b, c, s))
  BY <1>1, ReleasedKeeps
<1> QED
  BY <1>2, <1>3 DEF OnLinkRetired, KeepsQueues, b

-----------------------------------------------------------------------------
(* The queues as places.                                                   *)

OnceQueued(Q) ==
  \A c, d \in Cells : \A i \in DOMAIN Q[c], j \in DOMAIN Q[d] :
    Q[c][i] = Q[d][j] => c = d /\ i = j
InQueue(Q, p) == \E c \in Cells : \E i \in DOMAIN Q[c] : Q[c][i] = p

LEMMA QueueTyped ==
  ASSUME NEW Q \in [Cells -> Seq(Packets)], NEW c \in Cells
  PROVE  Q[c] \in Seq(Packets) /\ Len(Q[c]) \in Nat /\ DOMAIN Q[c] = 1 .. Len(Q[c])
OBVIOUS

LEMMA AddedToQueue ==
  ASSUME NEW Q \in [Cells -> Seq(Packets)], OnceQueued(Q), NEW c \in Cells, NEW p \in Packets,
         ~ InQueue(Q, p), NEW R,
         R = [Q EXCEPT ![c] = Append(@, p)] \/ R = [Q EXCEPT ![c] = <<p>> \o @]
  PROVE  /\ R \in [Cells -> Seq(Packets)] /\ OnceQueued(R)
         /\ \A x : InQueue(R, x) <=> InQueue(Q, x) \/ x = p
<1> DEFINE n == Len(Q[c])
<1>1. Q[c] \in Seq(Packets) /\ n \in Nat /\ DOMAIN Q[c] = 1 .. n
  BY QueueTyped
<1>2. R \in [Cells -> Seq(Packets)] /\ \A d \in Cells \ {c} : R[d] = Q[d]
  <2>1. Append(Q[c], p) \in Seq(Packets) /\ <<p>> \o Q[c] \in Seq(Packets)
    BY <1>1
  <2> QED
    BY <2>1
<1>3. PICK k \in {0, 1} :
        /\ DOMAIN R[c] = 1 .. n + 1
        /\ R[c][IF k = 0 THEN n + 1 ELSE 1] = p
        /\ \A i \in 1 .. n : R[c][i + k] = Q[c][i]
  <2>1. CASE R = [Q EXCEPT ![c] = Append(@, p)]
    BY <1>1, <2>1
  <2>2. CASE R = [Q EXCEPT ![c] = <<p>> \o @]
    <3>1. R[c] = <<p>> \o Q[c]
      BY <2>2
    <3>2. /\ DOMAIN R[c] = 1 .. n + 1 /\ R[c][1] = p
          /\ \A i \in 1 .. n : R[c][i + 1] = Q[c][i]
      BY <1>1, <3>1
    <3> QED
      BY <3>2
  <2> QED
    BY <2>1, <2>2
<1> HIDE DEF n
<1>4. \A d \in Cells : \A i \in DOMAIN R[d] :
        \/ d = c /\ i = (IF k = 0 THEN n + 1 ELSE 1) /\ R[d][i] = p
        \/ d = c /\ i - k \in DOMAIN Q[c] /\ R[d][i] = Q[c][i - k]
        \/ d # c /\ i \in DOMAIN Q[d] /\ R[d][i] = Q[d][i]
  BY <1>1, <1>2, <1>3 DEF n
<1>5. OnceQueued(R)
  <2> SUFFICES ASSUME NEW d \in Cells, NEW e \in Cells, NEW i \in DOMAIN R[d], NEW j \in DOMAIN R[e],
                      R[d][i] = R[e][j]
               PROVE  d = e /\ i = j
    BY DEF OnceQueued
  <2>1. i \in Int /\ j \in Int /\ k \in Int
    BY <1>2
  <2>2. \A f \in Cells : \A m \in DOMAIN Q[f] : Q[f][m] # p
    BY DEF InQueue
  <2>3. CASE d = c /\ e = c
    BY <1>4, <2>1, <2>2, <2>3 DEF OnceQueued
  <2>4. CASE ~ (d = c /\ e = c)
    BY <1>4, <2>1, <2>2, <2>4 DEF OnceQueued
  <2> QED
    BY <2>3, <2>4
<1>6. ASSUME NEW x PROVE InQueue(R, x) <=> InQueue(Q, x) \/ x = p
  <2>1. InQueue(R, x) => InQueue(Q, x) \/ x = p
    BY <1>4 DEF InQueue
  <2>2. InQueue(R, p)
    BY <1>1, <1>3 DEF InQueue, n
  <2>3. ASSUME NEW d \in Cells, NEW i \in DOMAIN Q[d] PROVE InQueue(R, Q[d][i])
    <3>1. CASE d = c
      <4>1. i + k \in DOMAIN R[c] /\ R[c][i + k] = Q[c][i]
        BY <1>1, <1>3, <3>1 DEF n
      <4> QED
        BY <3>1, <4>1 DEF InQueue
    <3>2. CASE d # c
      BY <1>2, <3>2 DEF InQueue
    <3> QED
      BY <3>1, <3>2
  <2> QED
    BY <2>1, <2>2, <2>3 DEF InQueue
<1> QED
  BY <1>2, <1>5, <1>6

LEMMA RemovedAt ==
  ASSUME NEW S, NEW q \in Seq(S), NEW i \in 1 .. Len(q)
  PROVE  /\ RemoveAt(q, i) \in Seq(S) /\ DOMAIN RemoveAt(q, i) = 1 .. Len(q) - 1
         /\ \A j \in 1 .. Len(q) - 1 : RemoveAt(q, i)[j] = IF j < i THEN q[j] ELSE q[j + 1]
<1> DEFINE n == Len(q)
           x == SubSeq(q, 1, i - 1)
           y == SubSeq(q, i + 1, n)
<1>1. n \in Nat /\ i \in Int /\ 1 =< i /\ i =< n /\ \A j \in 1 .. n : q[j] \in S
  BY LenProperties, ElementOfSeq
<1>2. /\ x \in Seq(S) /\ Len(x) = i - 1
      /\ \A j \in 1 .. i - 1 : x[j] = q[j]
  <2>1. \A j \in 1 .. i - 1 : q[j] \in S
    BY <1>1
  <2>2. /\ x \in Seq(S) /\ Len(x) = IF 1 =< i - 1 THEN (i - 1) - 1 + 1 ELSE 0
        /\ \A j \in 1 .. (i - 1) - 1 + 1 : x[j] = q[1 + j - 1]
    BY <1>1, <2>1, SubSeqProperties
  <2> HIDE DEF x
  <2> QED
    BY <1>1, <2>2
<1>3. /\ y \in Seq(S) /\ Len(y) = n - i
      /\ \A j \in 1 .. n - i : y[j] = q[i + j]
  <2>1. \A j \in i + 1 .. n : q[j] \in S
    BY <1>1
  <2>2. /\ y \in Seq(S) /\ Len(y) = IF i + 1 =< n THEN n - (i + 1) + 1 ELSE 0
        /\ \A j \in 1 .. n - (i + 1) + 1 : y[j] = q[(i + 1) + j - 1]
    BY <1>1, <2>1, SubSeqProperties
  <2> HIDE DEF y
  <2> QED
    BY <1>1, <2>2
<1>4. RemoveAt(q, i) = x \o y
  BY DEF RemoveAt
<1> HIDE DEF x, y, n
<1>5. /\ x \o y \in Seq(S) /\ Len(x \o y) = Len(x) + Len(y)
      /\ \A j \in 1 .. Len(x) + Len(y) : (x \o y)[j] = IF j =< Len(x) THEN x[j] ELSE y[j - Len(x)]
  BY <1>2, <1>3, ConcatProperties
<1>6. Len(x) + Len(y) = n - 1 /\ DOMAIN (x \o y) = 1 .. n - 1
  BY <1>1, <1>2, <1>3, <1>5, LenProperties
<1>7. ASSUME NEW j \in 1 .. n - 1
      PROVE  (x \o y)[j] = IF j < i THEN q[j] ELSE q[j + 1]
  <2>1. CASE j < i
    BY <1>1, <1>2, <1>5, <1>6, <2>1
  <2>2. CASE ~ (j < i)
    <3>1. j - (i - 1) \in 1 .. n - i /\ i + (j - (i - 1)) = j + 1 /\ ~ (j =< i - 1)
      BY <1>1, <2>2
    <3> QED
      BY <1>2, <1>3, <1>5, <1>6, <2>2, <3>1
  <2> QED
    BY <2>1, <2>2
<1> QED
  BY <1>4, <1>5, <1>6, <1>7 DEF n

\* The queues after the packet at i is taken from the queue of c.
Without(Q, c, i) == [Q EXCEPT ![c] = RemoveAt(Q[c], i)]

LEMMA TakenFromQueue ==
  ASSUME NEW Q \in [Cells -> Seq(Packets)], OnceQueued(Q), NEW c \in Cells, NEW i \in DOMAIN Q[c]
  PROVE  /\ Without(Q, c, i) \in [Cells -> Seq(Packets)] /\ OnceQueued(Without(Q, c, i))
         /\ \A x : InQueue(Without(Q, c, i), x) <=> InQueue(Q, x) /\ x # Q[c][i]
<1> DEFINE n == Len(Q[c])
           R == Without(Q, c, i)
<1>1. Q[c] \in Seq(Packets) /\ n \in Nat /\ DOMAIN Q[c] = 1 .. n /\ i \in 1 .. n
  OBVIOUS
<1>2. R = [Q EXCEPT ![c] = RemoveAt(Q[c], i)] /\ R[c] = RemoveAt(Q[c], i)
  BY DEF Without
<1> HIDE DEF R
<1>3. /\ R[c] \in Seq(Packets) /\ DOMAIN R[c] = 1 .. n - 1
      /\ \A j \in 1 .. n - 1 : R[c][j] = IF j < i THEN Q[c][j] ELSE Q[c][j + 1]
  BY <1>1, <1>2, RemovedAt
<1> HIDE DEF n
<1>4. R \in [Cells -> Seq(Packets)] /\ \A d \in Cells \ {c} : R[d] = Q[d]
  BY <1>2, <1>3
<1>5. \A d \in Cells : \A j \in DOMAIN R[d] :
        \/ d = c /\ j < i /\ j \in DOMAIN Q[c] /\ R[d][j] = Q[c][j]
        \/ d = c /\ j >= i /\ j + 1 \in DOMAIN Q[c] /\ R[d][j] = Q[c][j + 1]
        \/ d # c /\ j \in DOMAIN Q[d] /\ R[d][j] = Q[d][j]
  BY <1>1, <1>3, <1>4
<1>6. OnceQueued(R)
  <2> SUFFICES ASSUME NEW d \in Cells, NEW e \in Cells, NEW j \in DOMAIN R[d], NEW k \in DOMAIN R[e],
                      R[d][j] = R[e][k]
               PROVE  d = e /\ j = k
    BY DEF OnceQueued
  <2>1. j \in Int /\ k \in Int /\ i \in Int
    BY <1>1, <1>3, <1>4
  <2> QED
    BY <1>5, <2>1 DEF OnceQueued
<1>7. ASSUME NEW x PROVE InQueue(R, x) <=> InQueue(Q, x) /\ x # Q[c][i]
  <2>1. ASSUME InQueue(R, x) PROVE InQueue(Q, x) /\ x # Q[c][i]
    <3>1. PICK d \in Cells : \E j \in DOMAIN R[d] : R[d][j] = x
      BY <2>1 DEF InQueue
    <3>2. PICK j \in DOMAIN R[d] : R[d][j] = x
      BY <3>1
    <3>3. j \in Int /\ i \in Int
      BY <1>1, <1>3, <1>4
    <3> QED
      BY <1>5, <3>2, <3>3 DEF InQueue, OnceQueued
  <2>2. ASSUME NEW d \in Cells, NEW j \in DOMAIN Q[d], Q[d][j] # Q[c][i] PROVE InQueue(R, Q[d][j])
    <3>1. CASE d # c
      BY <1>4, <3>1 DEF InQueue
    <3>2. CASE d = c /\ j < i
      <4>1. j \in DOMAIN R[c] /\ R[c][j] = Q[c][j]
        BY <1>1, <1>3, <1>4, <3>2
      <4> QED
        BY <3>2, <4>1 DEF InQueue
    <3>3. CASE d = c /\ j > i
      <4>1. j - 1 \in DOMAIN R[c] /\ R[c][j - 1] = Q[c][j]
        BY <1>1, <1>3, <1>4, <3>3
      <4> QED
        BY <3>3, <4>1 DEF InQueue
    <3> QED
      BY <1>1, <2>2, <3>1, <3>2, <3>3
  <2> QED
    BY <2>1, <2>2 DEF InQueue
<1> QED
  BY <1>4, <1>6, <1>7 DEF R

-----------------------------------------------------------------------------
(* The invariant of the packets.                                           *)

DownServices == [cell : DownCells, since : Times, retire : Times \cup {None}, ends : Times]

Served(u, p) == \E s \in Sats : u[s] # None /\ u[s].pkt = p
OnceServed(u) ==
  \A r, s \in Sats : u[r] # None /\ u[s] # None /\ u[r].pkt = u[s].pkt => r = s

RestTyped ==
  /\ now =< Horizon
  /\ up \in [Sats -> Services \cup {None}]
  /\ down \in [Sats -> DownServices \cup {None}]
  /\ held \in [Sats -> SUBSET DownCells]
  /\ busy \in [Cells -> Times] /\ born \in [Cells -> Times \cup {None}]
  /\ due \subseteq Cells \cup Sats
  /\ sent \subseteq Packets
  /\ fate \in [Packets -> {"none", "ingress", "rejected", "overflow", "lost"}]

Placed ==
  /\ OnceQueued(acc.queue) /\ OnceServed(up)
  /\ \A p \in Packets :
       /\ InQueue(acc.queue, p) => ~ Served(up, p)
       /\ InQueue(acc.queue, p) \/ Served(up, p) <=> p \in sent /\ fate[p] = "none"
       /\ p \notin sent => fate[p] = "none"

KeepInv == QueuesTyped(acc) /\ RestTyped /\ Placed

\* The moments a handler can note down.
LEMMA TimesNow ==
  ASSUME AccessInv, ServiceInv, KeepInv
  PROVE  /\ now \in Times /\ now + TxTime \in Times /\ now \in Nat
         /\ \A c \in Cells, s \in Sats :
              /\ acc.links[c][s].since \in Times
              /\ acc.links[c][s].state = "retiring" => acc.links[c][s].due \in Times
<1>1. now \in Nat /\ now =< Horizon
  BY DEF AccessInv, KeepInv, RestTyped
<1>2. ASSUME NEW c \in Cells, NEW s \in Sats
      PROVE  /\ acc.links[c][s].since \in Nat /\ acc.links[c][s].due \in Nat
             /\ acc.links[c][s].since =< now
             /\ acc.links[c][s].state = "retiring" => acc.links[c][s].due =< now + RetireDelay
  BY DEF AccessInv, Good, Typed, Links, ServiceInv, RetireTimes
<1> QED
  BY <1>1, <1>2, ConfigAssumption DEF Times

\* A step that moves no packet.
LEMMA QuietKeeps ==
  ASSUME KeepInv, KeepsQueues(acc, acc'), UNCHANGED <<up, sent, fate>>, RestTyped'
  PROVE  KeepInv'
<1>1. QueuesTyped(acc)'
  BY DEF KeepInv, KeepsQueues, QueuesTyped
<1>2. Placed'
  BY DEF KeepInv, KeepsQueues, Placed, OnceQueued, OnceServed, InQueue, Served
<1> QED
  BY <1>1, <1>2 DEF KeepInv

LEMMA WithDeadlinesTyped ==
  ASSUME AccessInv, ServiceInv, KeepInv, NEW a, Good(a), RetireTimes(a)
  PROVE  /\ WithDeadlines(up, a) \in [Sats -> Services \cup {None}]
         /\ WithDeadlines(down, a) \in [Sats -> DownServices \cup {None}]
         /\ \A s \in Sats : /\ WithDeadlines(up, a)[s] = None <=> up[s] = None
                            /\ up[s] # None => WithDeadlines(up, a)[s].pkt = up[s].pkt
<1>1. now \in Nat /\ now =< Horizon
  BY DEF AccessInv, KeepInv, RestTyped
<1>2. ASSUME NEW c \in Cells, NEW s \in Sats, a.links[c][s].state = "retiring"
      PROVE  a.links[c][s].due \in Times
  <2>1. a.links[c][s].due \in Nat /\ a.links[c][s].due =< now + RetireDelay
    BY <1>2 DEF Good, Typed, Links, RetireTimes
  <2> QED
    BY <1>1, <2>1, ConfigAssumption DEF Times
<1>3. ASSUME NEW s \in Sats
      PROVE  /\ WithDeadlines(up, a)[s] \in Services \cup {None}
             /\ WithDeadlines(up, a)[s] = None <=> up[s] = None
             /\ up[s] # None => WithDeadlines(up, a)[s].pkt = up[s].pkt
  <2>1. CASE up[s] = None
    BY <2>1 DEF WithDeadlines
  <2>2. CASE up[s] # None
    <3> DEFINE link == a.links[up[s].cell][s]
               sv == WithDeadlines(up, a)[s]
    <3>1. up[s] \in Services
      BY <2>2 DEF KeepInv, RestTyped
    <3>2. sv = IF link.state = "retiring" /\ link.since = up[s].since
               THEN [up[s] EXCEPT !.retire = link.due] ELSE up[s]
      BY <2>2 DEF WithDeadlines
    <3>3. link.state = "retiring" => link.due \in Times
      BY <1>2, <3>1 DEF Services
    <3> HIDE DEF sv, link
    <3>4. sv \in Services /\ sv.pkt = up[s].pkt
      BY <3>1, <3>2, <3>3 DEF Services
    <3> QED
      BY <2>2, <3>4, ServicesAssumption DEF sv
  <2> QED
    BY <2>1, <2>2
<1>4. ASSUME NEW s \in Sats PROVE WithDeadlines(down, a)[s] \in DownServices \cup {None}
  <2>1. CASE down[s] = None
    BY <2>1 DEF WithDeadlines
  <2>2. CASE down[s] # None
    <3> DEFINE link == a.links[down[s].cell][s]
               sv == WithDeadlines(down, a)[s]
    <3>1. down[s] \in DownServices /\ down[s].cell \in Cells
      BY <2>2, CellsAssumption DEF KeepInv, RestTyped, DownServices
    <3>2. sv = IF link.state = "retiring" /\ link.since = down[s].since
               THEN [down[s] EXCEPT !.retire = link.due] ELSE down[s]
      BY <2>2 DEF WithDeadlines
    <3>3. link.state = "retiring" => link.due \in Times
      BY <1>2, <3>1
    <3> HIDE DEF sv, link
    <3>4. sv \in DownServices
      BY <3>1, <3>2, <3>3 DEF DownServices
    <3> QED
      BY <3>4 DEF sv
  <2> QED
    BY <2>1, <2>2
<1> QED
  BY <1>3, <1>4 DEF WithDeadlines

LEMMA EndpointTickKeeps ==
  ASSUME AccessInv, ServiceInv, KeepInv, NEW c \in Cells, NEW steep \in BOOLEAN,
         EndpointTick(c, steep)
  PROVE  KeepInv'
<1> DEFINE a == AccessTickEndpoint(acc, c)
           b == EvaluateHandover(a, c, steep)
<1>1. Good(acc) /\ now \in Nat /\ sky \in Skies
  BY DEF AccessInv
<1>2. Good(a)
  BY <1>1, AccessTickEndpointGood
<1>3. AllSafe(a) /\ RetireTimes(a) /\ (Primaries(a, c) = {} \/ Told(a, c))
  BY <1>1, AccessTickEndpointSafe DEF ServiceInv
<1>4. KeepsQueues(acc, a)
  BY <1>1, AccessTickEndpointKeeps DEF Good, Typed
<1> HIDE DEF a
<1>5. RetireTimes(b) /\ Good(b) /\ KeepsQueues(a, b)
  BY <1>1, <1>2, <1>3, EvaluateHandoverSafe, EvaluateHandoverGood, EvaluateHandoverKeeps
  DEF ServiceInv
<1>6. /\ acc' = b /\ up' = WithDeadlines(up, b) /\ down' = WithDeadlines(down, b)
      /\ due' = due \ {c} /\ UNCHANGED <<now, held, busy, born, sent, fate>>
  BY DEF EndpointTick, a
<1> HIDE DEF b
<1>7. /\ up' \in [Sats -> Services \cup {None}] /\ down' \in [Sats -> DownServices \cup {None}]
      /\ \A s \in Sats : /\ up'[s] = None <=> up[s] = None
                         /\ up[s] # None => up'[s].pkt = up[s].pkt
  BY <1>5, <1>6, WithDeadlinesTyped
<1>8. RestTyped'
  BY <1>6, <1>7 DEF KeepInv, RestTyped
<1>9. QueuesTyped(acc)' /\ acc'.queue = acc.queue
  BY <1>4, <1>5, <1>6 DEF KeepInv, KeepsQueues, QueuesTyped
<1>10. OnceServed(up') /\ \A p : Served(up', p) <=> Served(up, p)
  BY <1>7 DEF KeepInv, Placed, OnceServed, Served
<1>11. Placed'
  <2>1. OnceQueued(acc.queue) /\ acc'.queue = acc.queue /\ fate' = fate /\ sent' = sent
    BY <1>6, <1>9 DEF KeepInv, Placed
  <2> QED
    BY <2>1, <1>10 DEF KeepInv, Placed
<1> QED
  BY <1>8, <1>9, <1>11 DEF KeepInv

LEMMA StartUplinkKeeps ==
  ASSUME AccessInv, ServiceInv, KeepInv, NEW c \in Cells, NEW s \in Sats, StartUplink(c, s)
  PROVE  KeepInv'
<1>0. PICK i \in DOMAIN acc.queue[c] :
        LET p == acc.queue[c][i]
            sv == Service(c, s)
        IN  /\ up' = [up EXCEPT ![s] = [cell |-> c, pkt |-> p, since |-> sv.since,
                                        retire |-> sv.retire, ends |-> sv.ends]]
            /\ acc' = [acc EXCEPT !.queue[c] = RemoveAt(@, i), !.assigned[p] = s]
  BY DEF StartUplink
<1> DEFINE Q == acc.queue
           p == Q[c][i]
           sv == [cell |-> c, pkt |-> p, since |-> Service(c, s).since,
                  retire |-> Service(c, s).retire, ends |-> Service(c, s).ends]
<1>1. /\ up[s] = None /\ busy' = [busy EXCEPT ![c] = now]
      /\ up' = [up EXCEPT ![s] = sv]
      /\ UNCHANGED <<now, down, held, born, due, sent, fate>>
  BY <1>0 DEF StartUplink
<1>2. /\ acc'.queue = [Q EXCEPT ![c] = RemoveAt(@, i)]
      /\ acc'.assigned = [acc.assigned EXCEPT ![p] = s]
      /\ acc'.asleep = acc.asleep /\ acc'.watch = acc.watch
  BY <1>0 DEF AccessInv, Good, Typed, Fields
<1>3. Q \in [Cells -> Seq(Packets)] /\ OnceQueued(Q) /\ i \in DOMAIN Q[c]
  BY <1>0 DEF KeepInv, QueuesTyped, Placed
<1>4. p \in Packets /\ InQueue(Q, p)
  <2>1. Q[c] \in Seq(Packets) /\ DOMAIN Q[c] = 1 .. Len(Q[c])
    BY <1>3, QueueTyped
  <2> QED
    BY <1>3, <2>1 DEF InQueue
<1>5. /\ acc'.queue \in [Cells -> Seq(Packets)] /\ OnceQueued(acc'.queue)
      /\ \A x : InQueue(acc'.queue, x) <=> InQueue(Q, x) /\ x # p
  <2> HIDE DEF Q, p
  <2>1. acc'.queue = Without(Q, c, i)
    BY <1>2 DEF Without
  <2> QED
    BY <1>3, <2>1, TakenFromQueue DEF p
<1>6. sv \in Services /\ sv # None
  <2>1. now \in Times /\ now + TxTime \in Times /\ acc.links[c][s].since \in Times
        /\ (acc.links[c][s].state = "retiring" => acc.links[c][s].due \in Times)
    BY TimesNow
  <2> HIDE DEF p
  <2> QED
    BY <1>4, <2>1, ServicesAssumption DEF Service, Services
<1> HIDE DEF sv, p, Q
<1>7. RestTyped'
  BY <1>1, <1>6, TimesNow DEF KeepInv, RestTyped
<1>8. QueuesTyped(acc)'
  BY <1>2, <1>5 DEF KeepInv, QueuesTyped
<1>9. /\ up'[s] = sv /\ \A r \in Sats \ {s} : up'[r] = up[r]
      /\ up[s] = None
  BY <1>1 DEF KeepInv, RestTyped
<1>10. ~ Served(up, p) /\ p \in sent /\ fate[p] = "none"
  BY <1>4 DEF KeepInv, Placed, Q
<1>11. sv.pkt = p
  BY DEF sv
<1>12. OnceServed(up') /\ \A x : Served(up', x) <=> Served(up, x) \/ x = p
  BY <1>6, <1>9, <1>10, <1>11 DEF KeepInv, Placed, OnceServed, Served
<1>13. Placed'
  BY <1>1, <1>5, <1>10, <1>12 DEF KeepInv, Placed, Q
<1> QED
  BY <1>7, <1>8, <1>13 DEF KeepInv

LEMMA UplinkRetiredKeeps ==
  ASSUME AccessInv, ServiceInv, KeepInv, NEW s \in Sats, UplinkRetired(s)
  PROVE  KeepInv'
<1> DEFINE c == up[s].cell
           p == up[s].pkt
           b == Requeued(acc, c, p)
           d == OnLinkRetired(b, c, s)
           e == Poked(d, Linked(d, c))
<1>1. /\ up[s] # None /\ up' = [up EXCEPT ![s] = None] /\ acc' = e
      /\ busy' = [busy EXCEPT ![c] = now]
      /\ UNCHANGED <<now, down, held, born, due, sent, fate>>
  BY DEF UplinkRetired, RetireWins
<1>2. up[s] \in Services /\ c \in Cells /\ p \in Packets
  BY <1>1 DEF KeepInv, RestTyped, Services
<1>3. /\ b.queue = [acc.queue EXCEPT ![c] = <<p>> \o @]
      /\ b.assigned = [acc.assigned EXCEPT ![p] = None]
      /\ b.asleep = acc.asleep /\ b.watch = acc.watch
      /\ b.links = acc.links /\ b.slots = acc.slots /\ b.wait = acc.wait
      /\ b.requests = acc.requests /\ DOMAIN b = Fields
  BY DEF AccessInv, Good, Typed, Fields, Requeued
<1> HIDE DEF b, c, p
<1>4. Good(b)
  BY <1>3, SameLinks DEF AccessInv
<1>5. KeepsQueues(b, d) /\ DOMAIN d = Fields
  BY <1>3, <1>4, OnLinkRetiredKeeps, OnLinkRetiredGood DEF Good, Typed
<1> HIDE DEF d
<1>6. KeepsQueues(d, e)
  BY <1>5, PokedKeeps
<1> HIDE DEF e
<1>7. Served(up, p)
  BY <1>1 DEF Served, p
<1>8. ~ InQueue(acc.queue, p) /\ p \in sent /\ fate[p] = "none"
  BY <1>2, <1>7 DEF KeepInv, Placed
<1>9. /\ b.queue \in [Cells -> Seq(Packets)] /\ OnceQueued(b.queue)
      /\ \A x : InQueue(b.queue, x) <=> InQueue(acc.queue, x) \/ x = p
  <2>1. acc.queue \in [Cells -> Seq(Packets)] /\ OnceQueued(acc.queue)
    BY DEF KeepInv, QueuesTyped, Placed
  <2>2. \/ b.queue = [acc.queue EXCEPT ![c] = Append(@, p)]
        \/ b.queue = [acc.queue EXCEPT ![c] = <<p>> \o @]
    BY <1>3
  <2> QED
    BY <1>2, <1>8, <2>1, <2>2, AddedToQueue
<1>10. acc'.queue = b.queue
  BY <1>1, <1>5, <1>6 DEF KeepsQueues
<1>11. QueuesTyped(acc)'
  <2>1. QueuesTyped(b)
    BY <1>2, <1>3, <1>9 DEF KeepInv, QueuesTyped
  <2> QED
    BY <1>1, <1>5, <1>6, <2>1 DEF KeepsQueues, QueuesTyped
<1>12. RestTyped'
  BY <1>1, TimesNow DEF KeepInv, RestTyped
<1>13. \A r \in Sats : up'[r] = IF r = s THEN None ELSE up[r]
  BY <1>1 DEF KeepInv, RestTyped
<1>14. OnceServed(up') /\ \A x : Served(up', x) <=> Served(up, x) /\ x # p
  BY <1>1, <1>13 DEF KeepInv, Placed, OnceServed, Served, p
<1>15. Placed'
  BY <1>1, <1>8, <1>9, <1>10, <1>14 DEF KeepInv, Placed
<1> QED
  BY <1>11, <1>12, <1>15 DEF KeepInv

LEMMA UplinkEndsKeeps ==
  ASSUME AccessInv, KeepInv, NEW s \in Sats, UplinkEnds(s)
  PROVE  KeepInv'
<1> DEFINE p == up[s].pkt
<1>1. /\ up[s] # None /\ up' = [up EXCEPT ![s] = None]
      /\ UNCHANGED <<now, acc, down, held, busy, born, due, sent>>
      /\ fate' \in {[fate EXCEPT ![p] = "ingress"], [fate EXCEPT ![p] = "lost"]}
  BY DEF UplinkEnds, Completes, Lost
<1>2. p \in Packets
  BY <1>1 DEF KeepInv, RestTyped, Services
<1> HIDE DEF p
<1>3. Served(up, p)
  BY <1>1 DEF Served, p
<1>4. ~ InQueue(acc.queue, p) /\ p \in sent /\ fate[p] = "none"
  BY <1>2, <1>3 DEF KeepInv, Placed
<1>5. RestTyped'
  BY <1>1 DEF KeepInv, RestTyped
<1>6. \A r \in Sats : up'[r] = IF r = s THEN None ELSE up[r]
  BY <1>1 DEF KeepInv, RestTyped
<1>7. OnceServed(up') /\ \A x : Served(up', x) <=> Served(up, x) /\ x # p
  BY <1>1, <1>6 DEF KeepInv, Placed, OnceServed, Served, p
<1>8. fate'[p] # "none" /\ \A x \in Packets \ {p} : fate'[x] = fate[x]
  BY <1>1, <1>2 DEF KeepInv, RestTyped
<1>9. Placed'
  BY <1>1, <1>4, <1>7, <1>8 DEF KeepInv, Placed
<1> QED
  BY <1>1, <1>5, <1>9 DEF KeepInv, QueuesTyped

LEMMA EmitKeeps ==
  ASSUME AccessInv, ServiceInv, KeepInv, NEW c \in Cells, NEW p \in Packets, Emit(c, p)
  PROVE  KeepInv'
<1>1. /\ p \notin sent /\ sent' = sent \cup {p} /\ UNCHANGED <<now, up, down, held>>
      /\ born' = [born EXCEPT ![c] = IF @ = None THEN now ELSE @]
      /\ due' = IF born[c] = None THEN due \cup {c} ELSE due
  BY DEF Emit, Created
<1>2. ~ InQueue(acc.queue, p) /\ ~ Served(up, p) /\ fate[p] = "none"
  BY <1>1 DEF KeepInv, Placed
<1>3. now \in Times
  BY TimesNow
<1>4. CASE acc' = acc /\ busy' = busy /\ fate' \in {[fate EXCEPT ![p] = "rejected"],
                                                    [fate EXCEPT ![p] = "overflow"]}
  <2>1. RestTyped'
    BY <1>1, <1>3, <1>4 DEF KeepInv, RestTyped
  <2>2. fate'[p] # "none" /\ \A x \in Packets \ {p} : fate'[x] = fate[x]
    BY <1>4 DEF KeepInv, RestTyped
  <2>3. Placed'
    BY <1>1, <1>2, <1>4, <2>2 DEF KeepInv, Placed
  <2> QED
    BY <1>4, <2>1, <2>3 DEF KeepInv, QueuesTyped
<1>5. CASE acc' = Enqueued(acc, c, p) /\ busy' = [busy EXCEPT ![c] = now] /\ fate' = fate
  <2> DEFINE sat == IF Primaries(acc, c) # {} /\ acc.links[c][Primary(acc, c)].state = "active"
                    THEN Primary(acc, c) ELSE None
             b == [acc EXCEPT !.assigned[p] = sat, !.queue[c] = Append(@, p)]
             d == IF Primaries(acc, c) = {} THEN RequestOrGrant(b, c) ELSE b
  <2>1. sat \in Sats \cup {None}
    BY PrimaryType DEF AccessInv, Primaries
  <2> HIDE DEF sat
  <2>2. /\ b.queue = [acc.queue EXCEPT ![c] = Append(@, p)]
        /\ b.assigned = [acc.assigned EXCEPT ![p] = sat]
        /\ b.asleep = acc.asleep /\ b.watch = acc.watch /\ DOMAIN b = Fields
        /\ b.links = acc.links /\ b.slots = acc.slots /\ b.wait = acc.wait
        /\ b.requests = acc.requests
    BY DEF AccessInv, Good, Typed, Fields
  <2>3. acc' = Poked(d, Linked(d, c))
    BY <1>5 DEF Enqueued, sat
  <2> HIDE DEF b
  <2>4. Good(b) /\ Primaries(b, c) = Primaries(acc, c)
    BY <2>2, SameLinks DEF AccessInv, Primaries
  <2>5. KeepsQueues(b, d) /\ Good(d)
    <3>1. KeepsQueues(b, RequestOrGrant(b, c)) /\ KeepsQueues(b, b)
      BY <2>2, TryGrantKeeps DEF KeepsQueues
    <3>2. Primaries(acc, c) = {} => Good(RequestOrGrant(b, c))
      BY <2>4, RequestOrGrantGood DEF AccessInv
    <3> QED
      BY <2>4, <3>1, <3>2
  <2> HIDE DEF d
  <2>6. KeepsQueues(d, acc')
    BY <2>3, <2>5, PokedKeeps DEF Good, Typed
  <2>7. /\ b.queue \in [Cells -> Seq(Packets)] /\ OnceQueued(b.queue)
        /\ \A x : InQueue(b.queue, x) <=> InQueue(acc.queue, x) \/ x = p
    <3>1. acc.queue \in [Cells -> Seq(Packets)] /\ OnceQueued(acc.queue)
      BY DEF KeepInv, QueuesTyped, Placed
    <3>2. \/ b.queue = [acc.queue EXCEPT ![c] = Append(@, p)]
          \/ b.queue = [acc.queue EXCEPT ![c] = <<p>> \o @]
      BY <2>2
    <3> QED
      BY <1>2, <3>1, <3>2, AddedToQueue
  <2>8. acc'.queue = b.queue
    BY <2>5, <2>6 DEF KeepsQueues
  <2>9. QueuesTyped(acc)'
    <3>1. QueuesTyped(b)
      BY <2>1, <2>2, <2>7 DEF KeepInv, QueuesTyped
    <3> QED
      BY <2>5, <2>6, <3>1 DEF KeepsQueues, QueuesTyped
  <2>10. RestTyped'
    BY <1>1, <1>3, <1>5 DEF KeepInv, RestTyped
  <2>11. Placed'
    BY <1>1, <1>2, <1>5, <2>7, <2>8 DEF KeepInv, Placed
  <2> QED
    BY <2>9, <2>10, <2>11 DEF KeepInv
<1> QED
  BY <1>4, <1>5 DEF Emit

LEMMA StepKeeps ==
  ASSUME AccessInv, ServiceInv, KeepInv, [Next]_vars PROVE KeepInv'
<1>0. DOMAIN acc = Fields /\ Good(acc) /\ now \in Times
  BY TimesNow DEF AccessInv, Good, Typed
<1>1. ASSUME NEW c \in Cells, EndpointStep(c) PROVE KeepInv'
  <2>1. ASSUME NEW s \in Sats, ActivateAfterDelay(c, s) \/ FireInterrupt(c, s) PROVE KeepInv'
    <3>1. UNCHANGED <<now, up, down, held, busy, born, due, sent, fate>>
      BY <2>1 DEF ActivateAfterDelay, FireInterrupt
    <3>2. KeepsQueues(acc, acc')
      <4>1. CASE ActivateAfterDelay(c, s)
        <5> DEFINE b == [acc EXCEPT !.links[c][s].state = "active"]
        <5>1. KeepsQueues(acc, b) /\ DOMAIN b = Fields
          BY <1>0 DEF KeepsQueues, QueuesTyped, Fields
        <5>2. acc' = Poked(b, {s})
          BY <4>1 DEF ActivateAfterDelay
        <5> HIDE DEF b
        <5>3. KeepsQueues(b, Poked(b, {s}))
          BY <5>1, PokedKeeps
        <5> QED
          BY <5>1, <5>2, <5>3 DEF KeepsQueues
      <4>2. CASE FireInterrupt(c, s)
        <5>1. acc' = OnLinkRetired(acc, c, s)
          BY <4>2 DEF FireInterrupt, InterruptDue, OnLinkRetired
        <5> QED
          BY <1>0, <5>1, OnLinkRetiredKeeps
      <4> QED
        BY <2>1, <4>1, <4>2
    <3>3. RestTyped'
      BY <3>1 DEF KeepInv, RestTyped
    <3> QED
      BY <3>1, <3>2, <3>3, QuietKeeps
  <2> QED
    BY <1>1, <2>1, EndpointTickKeeps, StartUplinkKeeps DEF EndpointStep
<1>2. ASSUME NEW s \in Sats, SatStep(s) PROVE KeepInv'
  <2>1. CASE SatTick(s)
    <3>1. KeepsQueues(acc, acc') /\ due' = due \ {s}
          /\ UNCHANGED <<now, up, down, held, busy, born, sent, fate>>
      BY <1>0, <2>1, AccessTickSatKeeps DEF SatTick
    <3>2. RestTyped'
      BY <3>1 DEF KeepInv, RestTyped
    <3> QED
      BY <3>1, <3>2, QuietKeeps
  <2>2. CASE SleepUplink(s)
    <3> DEFINE W == {c \in Cells : acc.queue[c] # <<>>}
    <3>0. /\ acc' = [acc EXCEPT !.asleep[s] = TRUE, !.watch[s] = W]
          /\ UNCHANGED <<now, up, down, held, busy, born, due, sent, fate>>
      BY <2>2 DEF SleepUplink
    <3>1. W \in SUBSET Cells
      OBVIOUS
    <3> HIDE DEF W
    <3>2. /\ acc'.queue = acc.queue /\ acc'.assigned = acc.assigned
          /\ acc'.asleep = [acc.asleep EXCEPT ![s] = TRUE]
          /\ acc'.watch = [acc.watch EXCEPT ![s] = W]
      BY <1>0, <3>0 DEF Fields
    <3>3. KeepsQueues(acc, acc')
      BY <3>1, <3>2 DEF KeepsQueues, QueuesTyped
    <3>4. RestTyped'
      BY <3>0 DEF KeepInv, RestTyped
    <3> QED
      BY <3>0, <3>3, <3>4, QuietKeeps
  <2>3. CASE DownlinkRetired(s)
    <3>1. /\ KeepsQueues(acc, acc') /\ down[s] # None /\ down' = [down EXCEPT ![s] = None]
          /\ \/ /\ held' = [held EXCEPT ![s] = @ \cup {down[s].cell}]
                /\ busy' = [busy EXCEPT ![down[s].cell] = now]
             \/ UNCHANGED <<held, busy>>
          /\ UNCHANGED <<now, up, born, due, sent, fate>>
      BY <1>0, <2>3, OnLinkRetiredKeeps DEF DownlinkRetired, RetireWins
    <3>2. down[s].cell \in DownCells
      BY <3>1 DEF KeepInv, RestTyped, DownServices
    <3>3. held' \in [Sats -> SUBSET DownCells] /\ busy' \in [Cells -> Times]
      BY <1>0, <3>1, <3>2 DEF KeepInv, RestTyped
    <3>4. RestTyped'
      BY <3>1, <3>3 DEF KeepInv, RestTyped
    <3> QED
      BY <3>1, <3>4, QuietKeeps
  <2>4. CASE DownlinkEnds(s)
    <3>1. /\ acc' = acc /\ down' = [down EXCEPT ![s] = None]
          /\ UNCHANGED <<now, up, held, busy, born, due, sent, fate>>
      BY <2>4 DEF DownlinkEnds
    <3>2. RestTyped' /\ KeepsQueues(acc, acc')
      BY <3>1 DEF KeepInv, RestTyped, KeepsQueues
    <3> QED
      BY <3>1, <3>2, QuietKeeps
  <2> QED
    BY <1>2, <2>1, <2>2, <2>3, <2>4, UplinkRetiredKeeps, UplinkEndsKeeps DEF SatStep
<1>3. CASE Environment
  <2>1. ASSUME NEW c \in Cells, NEW s \in Sats, DemandArrives(c, s) PROVE KeepInv'
    <3>1. /\ c \in DownCells /\ held' = [held EXCEPT ![s] = @ \cup {c}]
          /\ busy' = [busy EXCEPT ![c] = now]
          /\ born' = [born EXCEPT ![c] = IF @ = None THEN now ELSE @]
          /\ due' = IF born[c] = None THEN due \cup {c} ELSE due
          /\ UNCHANGED <<now, acc, up, down, sent, fate>>
      BY <2>1 DEF DemandArrives, Created
    <3>2. RestTyped' /\ KeepsQueues(acc, acc')
      BY <1>0, <3>1 DEF KeepInv, RestTyped, KeepsQueues
    <3> QED
      BY <3>1, <3>2, QuietKeeps
  <2>2. ASSUME NEW c \in Cells, NEW s \in Sats, DemandLeaves(c, s) PROVE KeepInv'
    <3>1. /\ held' = [held EXCEPT ![s] = @ \ {c}]
          /\ UNCHANGED <<now, acc, up, down, busy, born, due, sent, fate>>
      BY <2>2 DEF DemandLeaves
    <3>2. RestTyped' /\ KeepsQueues(acc, acc')
      BY <3>1 DEF KeepInv, RestTyped, KeepsQueues
    <3> QED
      BY <3>1, <3>2, QuietKeeps
  <2>3. ASSUME NEW c \in Cells, NEW s \in Sats, StartDownlink(c, s) PROVE KeepInv'
    <3>1. /\ c \in held[s] /\ down' = [down EXCEPT ![s] = Service(c, s)]
          /\ held' = [held EXCEPT ![s] = @ \ {c}] \/ held' = held
          /\ UNCHANGED <<now, acc, up, busy, born, due, sent, fate>>
      BY <2>3 DEF StartDownlink
    <3>2. c \in DownCells
      BY <3>1 DEF KeepInv, RestTyped
    <3>3. now + TxTime \in Times /\ acc.links[c][s].since \in Times
          /\ (acc.links[c][s].state = "retiring" => acc.links[c][s].due \in Times)
      BY TimesNow
    <3>4. Service(c, s) \in DownServices
      BY <3>2, <3>3 DEF Service, DownServices
    <3>5. RestTyped' /\ KeepsQueues(acc, acc')
      BY <3>1, <3>4 DEF KeepInv, RestTyped, KeepsQueues
    <3> QED
      BY <3>1, <3>5, QuietKeeps
  <2> QED
    BY <1>3, <2>1, <2>2, <2>3, EmitKeeps DEF Environment
<1>4. ASSUME NEW sky2 \in Skies, Advance(sky2) PROVE KeepInv'
  <2>1. /\ KeepsQueues(acc, acc') /\ now < Horizon /\ now' = now + 1 /\ due' = TickersDue(now + 1)
        /\ UNCHANGED <<up, down, held, busy, born, sent, fate>>
    BY <1>0, <1>4, PokedKeeps DEF Advance
  <2>2. now' =< Horizon /\ due' \subseteq Cells \cup Sats
    BY <2>1, ConfigAssumption DEF AccessInv, TickersDue
  <2>3. RestTyped'
    BY <2>1, <2>2 DEF KeepInv, RestTyped
  <2> QED
    BY <2>1, <2>3, QuietKeeps
<1>5. CASE UNCHANGED vars \/ Closed
  <2>1. UNCHANGED vars
    BY <1>5 DEF Closed
  <2>2. RestTyped' /\ KeepsQueues(acc, acc')
    BY <2>1 DEF vars, KeepInv, RestTyped, KeepsQueues
  <2> QED
    BY <2>1, <2>2, QuietKeeps DEF vars
<1> QED
  BY <1>1, <1>2, <1>3, <1>4, <1>5 DEF Next

LEMMA InitKeeps == Init => KeepInv
<1> SUFFICES ASSUME Init PROVE KeepInv
  OBVIOUS
<1>1. QueuesTyped(acc) /\ RestTyped
  BY ConfigAssumption DEF Init, QueuesTyped, RestTyped, Times
<1>2. acc.queue = [c \in Cells |-> <<>>] /\ up = [s \in Sats |-> None] /\ sent = {}
      /\ fate = [p \in Packets |-> "none"]
  BY DEF Init
<1>3. \A p : ~ InQueue(acc.queue, p) /\ ~ Served(up, p)
  BY <1>2 DEF InQueue, Served
<1>4. OnceQueued(acc.queue) /\ OnceServed(up)
  BY <1>2 DEF OnceQueued, OnceServed
<1> QED
  BY <1>1, <1>2, <1>3, <1>4 DEF KeepInv, Placed

LEMMA KeepInvariant == Spec => [](AccessInv /\ ServiceInv /\ KeepInv)
<1>1. AccessInv /\ ServiceInv /\ KeepInv /\ [Next]_vars => KeepInv'
  BY StepKeeps
<1> QED
  BY <1>1, InitKeeps, ServiceInvariant, PTL DEF Spec

\* Every packet that was emitted is in exactly one place: one position of one
\* endpoint queue, one uplink service, or its fate.  Retirement, loss and
\* handover, in any order, neither duplicate nor lose it; and the types hold.
THEOREM PacketsAreKeptAlways == Spec => []PacketsAreKept
<1>1. AccessInv /\ KeepInv => TypeOK
  <2> SUFFICES ASSUME AccessInv, KeepInv PROVE TypeOK
    OBVIOUS
  <2>1. AccessTypeOK
    BY DEF AccessInv, Good, Typed, Fields, AccessTypeOK
  <2>2. \A s \in Sats : down[s] = None \/ down[s] \in [cell : Cells, since : Times,
                          retire : Times \cup {None}, ends : Times]
    BY CellsAssumption DEF KeepInv, RestTyped, DownServices
  <2>3. down \in [Sats -> [cell : Cells, since : Times,
                           retire : Times \cup {None}, ends : Times] \cup {None}]
    BY <2>2 DEF KeepInv, RestTyped
  <2> QED
    BY <2>1, <2>3 DEF KeepInv, RestTyped, QueuesTyped, TypeOK
<1>2. KeepInv => PacketInOnePlace
  <2> SUFFICES ASSUME KeepInv, NEW p \in Packets
               PROVE  Cardinality({x \in UNION {{c} \X DOMAIN acc.queue[c] : c \in Cells} :
                                     acc.queue[x[1]][x[2]] = p})
                      + Cardinality({s \in Sats : up[s] # None /\ up[s].pkt = p})
                      + (IF fate[p] # "none" THEN 1 ELSE 0)
                      = IF p \in sent THEN 1 ELSE 0
    BY DEF PacketInOnePlace
  <2> DEFINE A == {x \in UNION {{c} \X DOMAIN acc.queue[c] : c \in Cells} :
                     acc.queue[x[1]][x[2]] = p}
             B == {s \in Sats : up[s] # None /\ up[s].pkt = p}
  <2>1. Cardinality(A) = IF InQueue(acc.queue, p) THEN 1 ELSE 0
    <3>1. CASE InQueue(acc.queue, p)
      <4>1. PICK c \in Cells : \E i \in DOMAIN acc.queue[c] : acc.queue[c][i] = p
        BY <3>1 DEF InQueue
      <4>2. PICK i \in DOMAIN acc.queue[c] : acc.queue[c][i] = p
        BY <4>1
      <4>3. \A x \in A : x = <<c, i>>
        BY <4>2 DEF KeepInv, Placed, OnceQueued
      <4>4. <<c, i>> \in A
        BY <4>2
      <4>5. A = {<<c, i>>}
        BY <4>3, <4>4
      <4> QED
        BY <3>1, <4>5, FS_Singleton
    <3>2. CASE ~ InQueue(acc.queue, p)
      <4>1. A = {}
        BY <3>2 DEF InQueue
      <4> QED
        BY <3>2, <4>1, FS_EmptySet
    <3> QED
      BY <3>1, <3>2
  <2>2. Cardinality(B) = IF Served(up, p) THEN 1 ELSE 0
    <3>1. CASE Served(up, p)
      <4>1. PICK s \in Sats : up[s] # None /\ up[s].pkt = p
        BY <3>1 DEF Served
      <4>2. B = {s}
        BY <4>1 DEF KeepInv, Placed, OnceServed
      <4> QED
        BY <3>1, <4>2, FS_Singleton
    <3>2. CASE ~ Served(up, p)
      <4>1. B = {}
        BY <3>2 DEF Served
      <4> QED
        BY <3>2, <4>1, FS_EmptySet
    <3> QED
      BY <3>1, <3>2
  <2> HIDE DEF A, B
  <2>3. /\ InQueue(acc.queue, p) => ~ Served(up, p)
        /\ InQueue(acc.queue, p) \/ Served(up, p) <=> p \in sent /\ fate[p] = "none"
        /\ p \notin sent => fate[p] = "none"
    BY DEF KeepInv, Placed
  <2>4. Cardinality(A) + Cardinality(B) + (IF fate[p] # "none" THEN 1 ELSE 0)
          = IF p \in sent THEN 1 ELSE 0
    BY <2>1, <2>2, <2>3
  <2> QED
    BY <2>4 DEF A, B
<1> QED
  BY <1>1, <1>2, KeepInvariant, PTL DEF PacketsAreKept

-----------------------------------------------------------------------------
(* Waking the uplink servers.                                              *)
(*                                                                         *)
(* A handler changes a link in one of six ways, and every way that could   *)
(* let a server serve an endpoint tells the server (it is not asleep any   *)
(* more), but for a link that retires before it was active.  So a server   *)
(* that sleeps has heard of each active or draining link, and it watches   *)
(* the geometry of every endpoint of those that has packets queued.        *)

\* An acquisition ends in time.
Acquiring(link) == /\ link.state = "acquiring"
                   /\ link.due = link.since + Acquisition /\ now =< link.due

\* What one handler makes of a link x; told says that the server is awake after.
Changes(x, y, told) ==
  \/ y = x
  \/ y.state = "none"
  \/ Acquiring(y)
  \/ y.state = "active" /\ now =< y.since + Acquisition /\ told
  \/ NeverActive(y) /\ now < y.due
  \/ x.state = "active" /\ RetiresLink(x, y)

\* From a to b no server falls asleep, and every link changes in those ways.
Wakes(a, b) ==
  /\ b.watch = a.watch
  /\ \A s \in Sats : b.asleep[s] => a.asleep[s]
  /\ \A c \in Cells, s \in Sats : Changes(a.links[c][s], b.links[c][s], ~ b.asleep[s])

\* The two parts of the invariant WakeInv.
AcquireTimes(a) ==
  \A c \in Cells, s \in Sats : a.links[c][s].state = "acquiring" => Acquiring(a.links[c][s])

\* The links a sleeping server knows it can serve.
Known(link) == link.state = "active" \/ (link.state = "retiring" /\ ~ NeverActive(link))

\* A sleeping server watches the endpoints it could serve on such a link.
Watching(a) ==
  \A c \in Cells, s \in Sats :
    a.asleep[s] /\ Known(a.links[c][s]) /\ a.queue[c] # <<>> => c \in a.watch[s]

LEMMA SameWakes ==
  ASSUME NEW a, NEW b, b.links = a.links, b.watch = a.watch,
         \A s \in Sats : b.asleep[s] => a.asleep[s]
  PROVE  Wakes(a, b)
BY DEF Wakes, Changes

\* One changed link.
LEMMA LinkWakes ==
  ASSUME NEW a, NEW b, NEW c \in Cells, NEW s \in Sats, NEW link,
         a.links \in [Cells -> [Sats -> Links]],
         b.links = [a.links EXCEPT ![c][s] = link], b.watch = a.watch,
         \A r \in Sats : b.asleep[r] => a.asleep[r],
         Changes(a.links[c][s], link, ~ b.asleep[s])
  PROVE  Wakes(a, b)
<1> SUFFICES ASSUME NEW d \in Cells, NEW r \in Sats
             PROVE  Changes(a.links[d][r], b.links[d][r], ~ b.asleep[r])
  BY DEF Wakes
<1>1. CASE d = c /\ r = s
  <2>1. b.links[d][r] = link
    BY <1>1
  <2> QED
    BY <1>1, <2>1
<1>2. CASE ~ (d = c /\ r = s)
  <2>1. b.links[d][r] = a.links[d][r]
    BY <1>2
  <2> QED
    BY <2>1 DEF Changes
<1> QED
  BY <1>1, <1>2

LEMMA ChangesChain ==
  ASSUME NEW x, NEW y, NEW z, NEW told \in BOOLEAN, NEW told2 \in BOOLEAN, told => told2,
         Changes(x, y, told), Changes(y, z, told2), y.since \in Nat, now \in Nat
  PROVE  Changes(x, z, told2)
<1>1. CASE z = y
  BY <1>1 DEF Changes
<1>2. CASE y.state = "active" /\ RetiresLink(y, z)
  <2>1. CASE y = x
    BY <1>2, <2>1 DEF Changes
  <2>2. CASE now =< y.since + Acquisition
    <3>1. z.state = "retiring" /\ z.due = now + RetireDelay /\ z.since = y.since
      BY <1>2 DEF RetiresLink
    <3>2. NeverActive(z) /\ now < z.due
      BY <2>2, <3>1, ConfigAssumption DEF NeverActive
    <3> QED
      BY <3>2 DEF Changes
  <2> QED
    BY <1>2, <2>1, <2>2 DEF Changes, Acquiring, NeverActive, RetiresLink
<1> QED
  BY <1>1, <1>2 DEF Changes

LEMMA WakesChain ==
  ASSUME NEW a, NEW b, NEW d, Wakes(a, b), Wakes(b, d), Typed(b), now \in Nat
  PROVE  Wakes(a, d)
<1>1. d.watch = a.watch /\ \A s \in Sats : d.asleep[s] => a.asleep[s]
  BY DEF Wakes
<1>2. ASSUME NEW c \in Cells, NEW s \in Sats
      PROVE  Changes(a.links[c][s], d.links[c][s], ~ d.asleep[s])
  <2>1. b.links[c][s].since \in Nat
    BY DEF Typed, Links
  <2>2. Changes(a.links[c][s], b.links[c][s], ~ b.asleep[s])
        /\ Changes(b.links[c][s], d.links[c][s], ~ d.asleep[s])
        /\ (~ b.asleep[s] => ~ d.asleep[s])
    BY DEF Wakes
  <2> QED
    BY <2>1, <2>2, ChangesChain
<1> QED
  BY <1>1, <1>2 DEF Wakes

\* What a handler leaves of the invariant.
LEMMA WakesKeep ==
  ASSUME NEW a, NEW b, Wakes(a, b), AcquireTimes(a)
  PROVE  AcquireTimes(b)
BY DEF Wakes, AcquireTimes, Changes, NeverActive, RetiresLink

LEMMA WakesWatch ==
  ASSUME NEW a, NEW b, NEW c \in Cells, NEW s \in Sats, Wakes(a, b), Watching(a),
         b.queue[c] # <<>> => a.queue[c] # <<>>,
         b.asleep[s], Known(b.links[c][s]), b.queue[c] # <<>>
  PROVE  c \in b.watch[s]
<1>1. Known(a.links[c][s])
  BY DEF Wakes, Changes, Known, Acquiring, RetiresLink, NeverActive
<1> QED
  BY <1>1 DEF Wakes, Watching

-----------------------------------------------------------------------------
\* A new link is being acquired, or its server is awake.
LEMMA AssociatedWakes ==
  ASSUME NEW a, NEW c \in Cells, NEW s \in Sats, Typed(a), now \in Nat
  PROVE  Wakes(a, Associated(a, c, s)) /\ Associated(a, c, s).assigned = a.assigned
<1> DEFINE b == [a EXCEPT !.links[c][s] = NewLink, !.slots[s] = @ \cup {c}]
           d == Associated(a, c, s)
<1>1. /\ b.links = [a.links EXCEPT ![c][s] = NewLink] /\ b.watch = a.watch
      /\ b.asleep = a.asleep /\ b.assigned = a.assigned /\ DOMAIN b = Fields
  BY DEF Typed, Fields
<1>2. d = IF Acquisition = 0 THEN Poked(b, {s}) ELSE b
  BY DEF Associated, NewLink
<1> HIDE DEF b
<1>3. /\ Poked(b, {s}).links = b.links /\ Poked(b, {s}).watch = b.watch
      /\ Poked(b, {s}).assigned = b.assigned
      /\ Poked(b, {s}).asleep = [r \in Sats |-> b.asleep[r] /\ r \notin {s}]
  BY <1>1 DEF Poked, Fields
<1> HIDE DEF d
<1>4. d.links = [a.links EXCEPT ![c][s] = NewLink] /\ d.watch = a.watch /\ d.assigned = a.assigned
      /\ \A r \in Sats : d.asleep[r] => a.asleep[r]
  BY <1>1, <1>2, <1>3
<1>5. Changes(a.links[c][s], NewLink, ~ d.asleep[s])
  <2>1. CASE Acquisition = 0
    <3>1. NewLink.state = "active" /\ NewLink.since = now
      BY <2>1 DEF NewLink
    <3>2. ~ d.asleep[s]
      BY <1>2, <1>3, <2>1
    <3> QED
      BY <2>1, <3>1, <3>2 DEF Changes
  <2>2. CASE Acquisition # 0
    <3>1. NewLink.state = "acquiring" /\ NewLink.since = now /\ NewLink.due = now + Acquisition
      BY <2>2 DEF NewLink
    <3>2. Acquiring(NewLink)
      BY <3>1, ConfigAssumption DEF Acquiring
    <3> QED
      BY <3>2 DEF Changes
  <2> QED
    BY <2>1, <2>2
<1>6. Wakes(a, d)
  BY <1>4, <1>5, LinkWakes DEF Typed
<1> QED
  BY <1>4, <1>6 DEF d

LEMMA ReleasedWakes ==
  ASSUME NEW a, NEW c \in Cells, NEW s \in Sats, Typed(a)
  PROVE  /\ Wakes(a, Released(a, c, s)) /\ Released(a, c, s).assigned = a.assigned
         /\ Released(a, c, s).links = [a.links EXCEPT ![c][s] = NoLink]
<1> DEFINE b == Released(a, c, s)
<1>1. /\ b.links = [a.links EXCEPT ![c][s] = NoLink] /\ b.watch = a.watch
      /\ b.asleep = a.asleep /\ b.assigned = a.assigned
  BY DEF Typed, Fields, Released
<1>2. \A told : Changes(a.links[c][s], NoLink, told)
  BY DEF Changes, NoLink
<1> HIDE DEF b
<1>3. Changes(a.links[c][s], NoLink, ~ b.asleep[s])
  BY <1>2
<1>4. Wakes(a, b)
  <2>1. \A r \in Sats : b.asleep[r] => a.asleep[r]
    BY <1>1
  <2> HIDE DEF NoLink
  <2> QED
    BY <1>1, <1>3, <2>1, LinkWakes DEF Typed
<1> QED
  BY <1>1, <1>4 DEF b

LEMMA TryGrantWakes ==
  ASSUME NEW a, NEW c \in Cells, Good(a), sky \in Skies, now \in Nat
  PROVE  Wakes(a, TryGrant(a, c)) /\ TryGrant(a, c).assigned = a.assigned
<1> DEFINE s == FirstCandidate(c, Grantable(a, c))
           b == [a EXCEPT !.wait = [r \in Sats |-> [@[r] EXCEPT ![c] = None]]]
<1>1. CASE Grantable(a, c) = {}
  BY <1>1, SameWakes DEF TryGrant
<1>2. CASE Grantable(a, c) # {}
  <2>1. s \in Sats
    <3>1. Grantable(a, c) \in SUBSET Visible(c)
      BY DEF Grantable
    <3>2. s \in Grantable(a, c)
      BY <1>2, <3>1, FirstCandidateType
    <3> QED
      BY <3>2, VisibleType DEF Grantable
  <2>2. /\ b.links = a.links /\ b.slots = a.slots /\ b.requests = a.requests
        /\ b.wait = [r \in Sats |-> [a.wait[r] EXCEPT ![c] = None]] /\ DOMAIN b = Fields
        /\ b.asleep = a.asleep /\ b.watch = a.watch /\ b.assigned = a.assigned
    BY DEF Good, Typed, Fields
  <2>3. TryGrant(a, c) = Associated(b, c, s)
    BY <1>2 DEF TryGrant, Granted
  <2> HIDE DEF b, s
  <2>4. Typed(b)
    BY <2>2 DEF Good, Typed
  <2>5. Wakes(b, Associated(b, c, s)) /\ Associated(b, c, s).assigned = b.assigned
    BY <2>1, <2>4, AssociatedWakes
  <2> QED
    BY <2>2, <2>3, <2>5 DEF Wakes
<1> QED
  BY <1>1, <1>2

LEMMA RequestOrGrantWakes ==
  ASSUME NEW a, NEW c \in Cells, Good(a), sky \in Skies, now \in Nat
  PROVE  Wakes(a, RequestOrGrant(a, c)) /\ RequestOrGrant(a, c).assigned = a.assigned
<1>1. \A s : LET b == [a EXCEPT !.wait[s][c] = [t |-> now, n |-> a.requests], !.requests = @ + 1]
            IN  b.links = a.links /\ b.watch = a.watch /\ b.asleep = a.asleep
                /\ b.assigned = a.assigned
  BY DEF Good, Typed, Fields
<1>2. \A s : LET b == [a EXCEPT !.wait[s][c] = [t |-> now, n |-> a.requests], !.requests = @ + 1]
            IN  Wakes(a, b) /\ b.assigned = a.assigned
  BY <1>1, SameWakes
<1>3. Wakes(a, a)
  BY SameWakes
<1> QED
  BY <1>2, <1>3, TryGrantWakes DEF RequestOrGrant

LEMMA RotateOrLeaveWakes ==
  ASSUME NEW a, NEW c \in Cells, Good(a), now \in Nat
  PROVE  Wakes(a, RotateOrLeave(a, c)) /\ RotateOrLeave(a, c).assigned = a.assigned
<1> DEFINE contended == {s \in Sats : a.links[c][s].state = "active" /\ Waiters(a, s) # {}}
           rotate == {s \in contended : LeaseOver(a, c, s)}
           leave == IF Idle(a, c) /\ now - busy[c] >= IdleRelease
                    THEN contended \ rotate ELSE {}
           turned(s) == IF s \in rotate
                        THEN [a.links[c][s] EXCEPT !.state = "retiring", !.due = now + RetireDelay]
                        ELSE IF s \in leave THEN NoLink ELSE a.links[c][s]
           b == RotateOrLeave(a, c)
<1>1. Typed(a)
  BY DEF Good
<1>2. /\ b.links = [a.links EXCEPT ![c] = [s \in Sats |-> turned(s)]]
      /\ b.watch = a.watch /\ b.asleep = a.asleep /\ b.assigned = a.assigned
  BY <1>1 DEF Typed, Fields, RotateOrLeave
<1>3. ASSUME NEW s \in Sats
      PROVE  \A told : Changes(a.links[c][s], turned(s), told)
  <2>1. a.links[c][s] \in Links /\ (s \in rotate => a.links[c][s].state = "active")
    BY <1>1 DEF Typed
  <2> HIDE DEF rotate, leave
  <2> QED
    BY <2>1 DEF Links, RetiresLink, Changes, NoLink
<1> HIDE DEF b, turned
<1>4. \A d \in Cells, s \in Sats : b.links[d][s] = IF d = c THEN turned(s) ELSE a.links[d][s]
  BY <1>1, <1>2 DEF Typed
<1>5. \A d \in Cells, s \in Sats : Changes(a.links[d][s], b.links[d][s], ~ b.asleep[s])
  <2> SUFFICES ASSUME NEW d \in Cells, NEW s \in Sats
               PROVE  Changes(a.links[d][s], b.links[d][s], ~ b.asleep[s])
    OBVIOUS
  <2>1. CASE d = c
    BY <1>3, <1>4, <2>1
  <2>2. CASE d # c
    BY <1>4, <2>2 DEF Changes
  <2> QED
    BY <2>1, <2>2
<1> QED
  BY <1>2, <1>5 DEF Wakes, b

LEMMA AccessTickEndpointWakes ==
  ASSUME NEW a, NEW c \in Cells, Good(a), sky \in Skies, now \in Nat
  PROVE  Wakes(a, AccessTickEndpoint(a, c)) /\ AccessTickEndpoint(a, c).assigned = a.assigned
<1> DEFINE b == RotateOrLeave(a, c)
<1>1. Wakes(a, b) /\ b.assigned = a.assigned /\ Good(b)
  BY RotateOrLeaveWakes, RotateOrLeaveGood
<1>2. AccessTickEndpoint(a, c) \in {b, TryGrant(b, c), RequestOrGrant(b, c)}
  BY DEF AccessTickEndpoint
<1> HIDE DEF b
<1>3. /\ Wakes(b, TryGrant(b, c)) /\ TryGrant(b, c).assigned = b.assigned
      /\ Wakes(b, RequestOrGrant(b, c)) /\ RequestOrGrant(b, c).assigned = b.assigned
  BY <1>1, TryGrantWakes, RequestOrGrantWakes
<1>4. Wakes(a, TryGrant(b, c)) /\ Wakes(a, RequestOrGrant(b, c))
  BY <1>1, <1>3, WakesChain DEF Good
<1> QED
  BY <1>1, <1>2, <1>3, <1>4

-----------------------------------------------------------------------------
\* A retirement that is over frees the packets bound to its satellite.
LEMMA SettleRetiringWakes ==
  ASSUME NEW a, NEW c \in Cells, Good(a), QueuesTyped(a), now \in Nat
  PROVE  LET b == SettleRetiring(a, c)
         IN  /\ Wakes(a, b) /\ b.queue = a.queue
             /\ \A s \in Sats : b.links[c][s] \in {a.links[c][s], NoLink}
             /\ \A p \in Range(a.queue[c]) :
                  \/ b.assigned[p] = a.assigned[p]
                  \/ /\ a.assigned[p] \in Retiring(a, c)
                     /\ a.links[c][a.assigned[p]].due =< now
                     /\ b.links[c][a.assigned[p]] = NoLink
<1> DEFINE drained(s) == \A p \in Range(a.queue[c]) : a.assigned[p] # s
           gone == {s \in Retiring(a, c) :
                      ~ InService(c, s) /\ (drained(s) \/ now >= a.links[c][s].due)}
           b == SettleRetiring(a, c)
<1>1. /\ b.links = [a.links EXCEPT ![c] = [s \in Sats |-> IF s \in gone THEN NoLink ELSE @[s]]]
      /\ b.watch = a.watch /\ b.asleep = a.asleep /\ b.queue = a.queue
      /\ b.assigned = [p \in Packets |-> IF p \in Range(a.queue[c]) /\ a.assigned[p] \in gone
                                         THEN None ELSE a.assigned[p]]
  BY DEF Good, Typed, Fields, SettleRetiring
<1>2. ASSUME NEW p \in Range(a.queue[c]), a.assigned[p] \in gone
      PROVE  a.assigned[p] \in Retiring(a, c) /\ a.links[c][a.assigned[p]].due =< now
  <2> DEFINE r == a.assigned[p]
  <2>1. r \in Retiring(a, c) /\ now >= a.links[c][r].due
    BY <1>2
  <2>2. a.links[c][r].due \in Nat
    BY <2>1 DEF Retiring, Good, Typed, Links
  <2> QED
    BY <2>1, <2>2
<1>3. gone \subseteq Sats
  BY DEF Retiring
<1> HIDE DEF b, gone
<1>4. \A d \in Cells, s \in Sats :
        b.links[d][s] = IF d = c /\ s \in gone THEN NoLink ELSE a.links[d][s]
  BY <1>1 DEF Good, Typed
<1>5. Wakes(a, b)
  BY <1>1, <1>4 DEF Wakes, Changes, NoLink
<1>6. ASSUME NEW p \in Range(a.queue[c])
      PROVE  \/ b.assigned[p] = a.assigned[p]
             \/ /\ a.assigned[p] \in Retiring(a, c)
                /\ a.links[c][a.assigned[p]].due =< now
                /\ b.links[c][a.assigned[p]] = NoLink
  <2>1. p \in Packets
    BY DEF QueuesTyped, Range
  <2>2. CASE a.assigned[p] \notin gone
    BY <1>1, <2>1, <2>2
  <2>3. CASE a.assigned[p] \in gone
    BY <1>2, <1>3, <1>4, <2>3
  <2> QED
    BY <2>2, <2>3
<1> QED
  BY <1>1, <1>4, <1>5, <1>6 DEF b

\* A switch binds the free packets to the link that it retires.
LEMMA SwitchToWakes ==
  ASSUME NEW a, NEW c \in Cells, NEW t \in Sats, Good(a), QueuesTyped(a), AcquireTimes(a),
         now \in Nat, Primaries(a, c) # {}, t # Primary(a, c)
  PROVE  LET e == SwitchTo(a, c, Primary(a, c), t)
         IN  /\ Wakes(a, e)
             /\ \A s \in Sats : a.links[c][s].state = "none" => e.links[c][s].state # "retiring"
             /\ \A p \in Range(a.queue[c]) :
                  \/ e.assigned[p] = a.assigned[p]
                  \/ /\ a.assigned[p] = None /\ e.assigned[p] \in Sats
                     /\ RetiresLink(a.links[c][e.assigned[p]], e.links[c][e.assigned[p]])
<1> DEFINE cur == Primary(a, c)
           d == Retired(a, c, cur)
           f == [d EXCEPT !.assigned =
                   [p \in Packets |-> IF p \in Range(a.queue[c]) /\ @[p] = None
                                      THEN cur ELSE @[p]]]
           g == Released(a, c, cur)
           x == a.links[c][cur]
           y == [x EXCEPT !.state = "retiring", !.due = now + RetireDelay]
<1>1. cur \in Primaries(a, c) /\ cur \in Sats /\ Typed(a) /\ Primaries(a, c) = {cur}
  BY PrimaryType DEF Primaries, Good
<1>2. Good(d) /\ Good(g)
  BY <1>1, RetiredGood, ReleasedGood DEF Linked, Primaries
<1>3. x \in Links /\ x.state \in {"acquiring", "active"}
  BY <1>1 DEF Typed, Primaries
<1>4. RetiresLink(x, y) /\ y.state = "retiring"
  BY <1>3 DEF Links, RetiresLink
<1>5. /\ f.links = [a.links EXCEPT ![c][cur] = y] /\ f.watch = a.watch /\ f.asleep = a.asleep
      /\ f.assigned = [p \in Packets |-> IF p \in Range(a.queue[c]) /\ a.assigned[p] = None
                                         THEN cur ELSE a.assigned[p]]
      /\ DOMAIN f = Fields /\ f.slots = d.slots /\ f.wait = d.wait /\ f.requests = d.requests
      /\ f.links = d.links
  BY <1>1, <1>3 DEF Typed, Fields, Retired, Links
<1>6. SwitchTo(a, c, cur, t) \in {a, Associated(f, c, t), Associated(g, c, t)}
  BY DEF SwitchTo
<1> HIDE DEF f, cur
<1>7. Typed(f)
  <2> HIDE DEF d
  <2> QED
    BY <1>2, <1>5 DEF Good, Typed
<1> HIDE DEF d
<1>8. \A told : Changes(x, y, told)
  <2>1. CASE x.state = "active"
    BY <1>4, <2>1 DEF Changes
  <2>2. CASE x.state = "acquiring"
    <3>1. Acquiring(x)
      BY <1>1, <2>2 DEF AcquireTimes
    <3>2. y.due = now + RetireDelay /\ y.since = x.since
      BY <1>4 DEF RetiresLink
    <3>3. x.since \in Nat /\ x.due \in Nat
      BY <1>3 DEF Links
    <3> HIDE DEF y, x
    <3>4. NeverActive(y) /\ now < y.due
      BY <1>4, <3>1, <3>2, <3>3, ConfigAssumption DEF Acquiring, NeverActive
    <3> QED
      BY <3>4 DEF Changes
  <2> QED
    BY <1>3, <2>1, <2>2
<1> HIDE DEF x, y
<1>9. Wakes(a, f)
  <2>1. Changes(a.links[c][cur], y, ~ f.asleep[cur])
    BY <1>8 DEF x
  <2> QED
    BY <1>1, <1>5, <2>1, LinkWakes DEF Typed
<1>10. CASE SwitchTo(a, c, cur, t) = a
  BY <1>10, SameWakes DEF cur
<1>11. CASE SwitchTo(a, c, cur, t) = Associated(f, c, t)
  <2> DEFINE e == Associated(f, c, t)
  <2>1. Wakes(f, e) /\ e.assigned = f.assigned /\ e.links = [f.links EXCEPT ![c][t] = NewLink]
    BY <1>7, AssociatedWakes, AssociatedMakes
  <2> HIDE DEF e
  <2>2. Wakes(a, e)
    BY <1>7, <1>9, <2>1, WakesChain
  <2>3. NewLink.state # "retiring"
    BY DEF NewLink
  <2>4. cur # t
    BY DEF cur
  <2>5. \A s \in Sats : e.links[c][s] = IF s = t THEN NewLink ELSE IF s = cur THEN y ELSE a.links[c][s]
    BY <1>1, <1>5, <1>7, <2>1 DEF Typed
  <2>6. \A s \in Sats : a.links[c][s].state = "none" => e.links[c][s].state # "retiring"
    BY <1>3, <2>3, <2>5 DEF x
  <2>7. ASSUME NEW p \in Range(a.queue[c])
        PROVE  \/ e.assigned[p] = a.assigned[p]
               \/ /\ a.assigned[p] = None /\ e.assigned[p] \in Sats
                  /\ RetiresLink(a.links[c][e.assigned[p]], e.links[c][e.assigned[p]])
    <3>1. p \in Packets
      BY DEF QueuesTyped, Range
    <3>2. e.assigned[p] = IF a.assigned[p] = None THEN cur ELSE a.assigned[p]
      BY <1>5, <2>1, <3>1
    <3>3. RetiresLink(a.links[c][cur], e.links[c][cur])
      BY <1>1, <1>4, <2>4, <2>5 DEF x
    <3> QED
      BY <1>1, <3>2, <3>3
  <2> QED
    BY <1>11, <2>2, <2>6, <2>7 DEF e, cur
<1>12. CASE SwitchTo(a, c, cur, t) = Associated(g, c, t)
  <2> DEFINE e == Associated(g, c, t)
  <2>1. Wakes(a, g) /\ g.assigned = a.assigned /\ g.links = [a.links EXCEPT ![c][cur] = NoLink]
    BY <1>1, ReleasedWakes
  <2>2. Typed(g)
    BY <1>2 DEF Good
  <2> HIDE DEF g
  <2>3. Wakes(g, e) /\ e.assigned = g.assigned /\ e.links = [g.links EXCEPT ![c][t] = NewLink]
    BY <2>2, AssociatedWakes, AssociatedMakes
  <2> HIDE DEF e
  <2>4. Wakes(a, e)
    BY <2>1, <2>2, <2>3, WakesChain
  <2>5. ASSUME NEW s \in Sats PROVE e.links[c][s] \in {NewLink, NoLink, a.links[c][s]}
    <3>1. e.links[c][s] = IF s = t THEN NewLink ELSE g.links[c][s]
      BY <2>2, <2>3 DEF Typed
    <3>2. g.links[c][s] = IF s = cur THEN NoLink ELSE a.links[c][s]
      BY <1>1, <2>1 DEF Typed
    <3> QED
      BY <3>1, <3>2
  <2>6. \A s \in Sats : a.links[c][s].state = "none" => e.links[c][s].state # "retiring"
    BY <2>5 DEF NewLink, NoLink
  <2> QED
    BY <1>12, <2>1, <2>3, <2>4, <2>6 DEF e, cur
<1> QED
  BY <1>6, <1>10, <1>11, <1>12

LEMMA EvaluateHandoverWakes ==
  ASSUME NEW a, NEW c \in Cells, NEW steep, Good(a), QueuesTyped(a), AcquireTimes(a),
         now \in Nat, sky \in Skies
  PROVE  LET e == EvaluateHandover(a, c, steep)
         IN  /\ Wakes(a, e)
             /\ \A p \in Range(a.queue[c]) :
                  \/ e.assigned[p] = a.assigned[p]
                  \/ /\ a.assigned[p] \in Retiring(a, c) \ Retiring(e, c)
                     /\ a.links[c][a.assigned[p]].due =< now
                  \/ /\ a.assigned[p] = None /\ e.assigned[p] \in Sats
                     /\ RetiresLink(a.links[c][e.assigned[p]], e.links[c][e.assigned[p]])
<1> DEFINE b == SettleRetiring(a, c)
           cur == Primary(b, c)
           targets == {s \in Visible(c) \ {cur} : Free(b, s)}
           t == Highest(c, targets)
           e == EvaluateHandover(a, c, steep)
<1>1. /\ Wakes(a, b) /\ b.queue = a.queue /\ Good(b)
      /\ \A s \in Sats : b.links[c][s] \in {a.links[c][s], NoLink}
      /\ \A p \in Range(a.queue[c]) :
           \/ b.assigned[p] = a.assigned[p]
           \/ /\ a.assigned[p] \in Retiring(a, c)
              /\ a.links[c][a.assigned[p]].due =< now
              /\ b.links[c][a.assigned[p]] = NoLink
  BY SettleRetiringWakes, SettleRetiringGood
<1>2. QueuesTyped(b) /\ AcquireTimes(b)
  <2>1. KeepsQueues(a, b)
    <3> DEFINE gone == {s \in Retiring(a, c) :
                 ~ InService(c, s) /\ (\/ \A p \in Range(a.queue[c]) : a.assigned[p] # s
                                       \/ now >= a.links[c][s].due)}
    <3>1. /\ b.queue = a.queue /\ b.asleep = a.asleep /\ b.watch = a.watch
          /\ b.assigned = [p \in Packets |->
               IF p \in Range(a.queue[c]) /\ a.assigned[p] \in gone THEN None ELSE a.assigned[p]]
      BY DEF Good, Typed, Fields, SettleRetiring
    <3> HIDE DEF b, gone
    <3> QED
      BY <3>1 DEF KeepsQueues, QueuesTyped
  <2> HIDE DEF b
  <2> QED
    BY <1>1, <2>1, WakesKeep DEF KeepsQueues
<1>3. e = b \/ (Primaries(b, c) # {} /\ (e = Released(b, c, cur) \/ (targets # {} /\ e = SwitchTo(b, c, cur, t))))
  BY DEF EvaluateHandover
<1> HIDE DEF b, e
<1>4. ASSUME /\ Wakes(b, e)
             /\ \A s \in Sats : b.links[c][s].state = "none" => e.links[c][s].state # "retiring"
             /\ \A p \in Range(b.queue[c]) :
                  \/ e.assigned[p] = b.assigned[p]
                  \/ /\ b.assigned[p] = None /\ e.assigned[p] \in Sats
                     /\ RetiresLink(b.links[c][e.assigned[p]], e.links[c][e.assigned[p]])
      PROVE  /\ Wakes(a, e)
             /\ \A p \in Range(a.queue[c]) :
                  \/ e.assigned[p] = a.assigned[p]
                  \/ /\ a.assigned[p] \in Retiring(a, c) \ Retiring(e, c)
                     /\ a.links[c][a.assigned[p]].due =< now
                  \/ /\ a.assigned[p] = None /\ e.assigned[p] \in Sats
                     /\ RetiresLink(a.links[c][e.assigned[p]], e.links[c][e.assigned[p]])
  <2>1. Wakes(a, e)
    BY <1>1, <1>4, WakesChain DEF Good
  <2> SUFFICES ASSUME NEW p \in Range(a.queue[c])
               PROVE  \/ e.assigned[p] = a.assigned[p]
                      \/ /\ a.assigned[p] \in Retiring(a, c) \ Retiring(e, c)
                         /\ a.links[c][a.assigned[p]].due =< now
                      \/ /\ a.assigned[p] = None /\ e.assigned[p] \in Sats
                         /\ RetiresLink(a.links[c][e.assigned[p]], e.links[c][e.assigned[p]])
    BY <2>1
  <2>2. CASE b.assigned[p] = a.assigned[p]
    <3>1. CASE e.assigned[p] = b.assigned[p]
      BY <2>2, <3>1
    <3>2. CASE b.assigned[p] = None /\ e.assigned[p] \in Sats
               /\ RetiresLink(b.links[c][e.assigned[p]], e.links[c][e.assigned[p]])
      <4>1. b.links[c][e.assigned[p]] = a.links[c][e.assigned[p]]
        BY <1>1, <3>2 DEF RetiresLink, NoLink
      <4> QED
        BY <2>2, <3>2, <4>1
    <3> QED
      BY <1>1, <1>4, <3>1, <3>2
  <2>3. CASE a.assigned[p] \in Retiring(a, c) /\ a.links[c][a.assigned[p]].due =< now
             /\ b.links[c][a.assigned[p]] = NoLink
    <3>1. a.assigned[p] \in Sats /\ e.links[c][a.assigned[p]].state # "retiring"
      BY <1>4, <2>3 DEF Retiring, NoLink
    <3> QED
      BY <2>3, <3>1 DEF Retiring
  <2> QED
    BY <1>1, <2>2, <2>3
<1>5. CASE e = b
  <2>1. Wakes(b, e) /\ \A s \in Sats : b.links[c][s].state = "none" => e.links[c][s].state # "retiring"
    BY <1>5, SameWakes
  <2> QED
    BY <1>4, <1>5, <2>1 DEF e
<1>6. CASE Primaries(b, c) # {} /\ e = Released(b, c, cur)
  <2>1. cur \in Sats
    BY <1>1, <1>6, PrimaryType DEF Primaries
  <2> HIDE DEF cur
  <2>2. Wakes(b, e) /\ e.assigned = b.assigned /\ e.links = [b.links EXCEPT ![c][cur] = NoLink]
    BY <1>1, <1>6, <2>1, ReleasedWakes DEF Good
  <2>3. \A s \in Sats : e.links[c][s] \in {NoLink, b.links[c][s]}
    BY <1>1, <2>1, <2>2 DEF Good, Typed
  <2>4. \A s \in Sats : b.links[c][s].state = "none" => e.links[c][s].state # "retiring"
    BY <2>3 DEF NoLink
  <2> QED
    BY <1>4, <2>2, <2>4 DEF e
<1>7. CASE Primaries(b, c) # {} /\ targets # {} /\ e = SwitchTo(b, c, cur, t)
  <2>1. t \in Sats /\ t # cur
    <3>1. targets \in SUBSET Visible(c)
      OBVIOUS
    <3>2. t \in targets
      BY <1>7, <3>1, HighestType
    <3> QED
      BY <3>2, VisibleType
  <2> HIDE DEF t, targets
  <2>2. /\ Wakes(b, e)
        /\ \A s \in Sats : b.links[c][s].state = "none" => e.links[c][s].state # "retiring"
        /\ \A p \in Range(b.queue[c]) :
             \/ e.assigned[p] = b.assigned[p]
             \/ /\ b.assigned[p] = None /\ e.assigned[p] \in Sats
                /\ RetiresLink(b.links[c][e.assigned[p]], e.links[c][e.assigned[p]])
    BY <1>1, <1>2, <1>7, <2>1, SwitchToWakes
  <2> QED
    BY <1>4, <2>2 DEF e
<1> QED
  BY <1>3, <1>5, <1>6, <1>7 DEF e

\* A handover of c binds and frees packets of c only.
LEMMA HandoverBinds ==
  ASSUME NEW a, NEW c \in Cells, NEW steep, Good(a), now \in Nat, sky \in Skies,
         NEW p \in Packets, p \notin Range(a.queue[c])
  PROVE  EvaluateHandover(a, c, steep).assigned[p] = a.assigned[p]
<1> DEFINE b == SettleRetiring(a, c)
           cur == Primary(b, c)
           targets == {s \in Visible(c) \ {cur} : Free(b, s)}
           t == Highest(c, targets)
           f == [Retired(b, c, cur) EXCEPT !.assigned =
                   [q \in Packets |-> IF q \in Range(b.queue[c]) /\ @[q] = None THEN cur ELSE @[q]]]
           e == EvaluateHandover(a, c, steep)
<1>1. b.assigned[p] = a.assigned[p] /\ b.queue = a.queue /\ DOMAIN b = Fields
  BY DEF Good, Typed, Fields, SettleRetiring
<1>2. \/ e = b \/ e = Released(b, c, cur)
      \/ e = Associated(f, c, t) \/ e = Associated(Released(b, c, cur), c, t)
  BY DEF EvaluateHandover, SwitchTo
<1> HIDE DEF b, e, t, cur
<1>3. Released(b, c, cur).assigned[p] = a.assigned[p] /\ DOMAIN Released(b, c, cur) = Fields
  BY <1>1 DEF Released, Fields
<1>4. f.assigned[p] = a.assigned[p] /\ DOMAIN f = Fields
  BY <1>1 DEF Retired, Fields
<1> HIDE DEF f
<1>5. ASSUME NEW u, DOMAIN u = Fields
      PROVE  Associated(u, c, t).assigned = u.assigned
  <2> DEFINE v == [u EXCEPT !.links[c][t] = NewLink, !.slots[t] = @ \cup {c}]
  <2>1. v.assigned = u.assigned /\ DOMAIN v = Fields
    BY <1>5 DEF Fields
  <2> HIDE DEF v
  <2>2. Poked(v, {t}).assigned = v.assigned
    BY <2>1 DEF Poked, Fields
  <2> QED
    BY <2>1, <2>2 DEF Associated, NewLink, v
<1>6. e.assigned[p] = a.assigned[p]
  BY <1>1, <1>2, <1>3, <1>4, <1>5
<1> QED
  BY <1>6 DEF e

LEMMA AccessTickSatWakes ==
  ASSUME NEW a, NEW s \in Sats, Good(a), now \in Nat
  PROVE  Wakes(a, AccessTickSat(a, s)) /\ AccessTickSat(a, s).assigned = a.assigned
<1> DEFINE ahead(c) == {d \in Waiters(a, s) : a.wait[s][d].n < a.wait[s][c].n}
           stale(c) == StaleRequest(a, c)
           wanted == {c \in Waiters(a, s) : ~ stale(c) /\ s \in Visible(c)}
           room(c) == Cardinality(a.slots[s] \cup (ahead(c) \cap wanted)) < Slots
           reached(c) == \A d \in ahead(c) : stale(d) \/ room(d)
           granted == {c \in wanted : reached(c) /\ room(c)}
           dropped == {c \in Waiters(a, s) : reached(c) /\ stale(c)}
           b == [a EXCEPT
                   !.links = [c \in Cells |-> IF c \in granted
                                              THEN [@[c] EXCEPT ![s] = NewLink] ELSE @[c]],
                   !.slots[s] = @ \cup granted,
                   !.wait[s] = [c \in Cells |-> IF c \in granted \cup dropped
                                                THEN None ELSE @[c]]]
           d == AccessTickSat(a, s)
<1>1. d = IF granted # {} /\ Acquisition = 0 THEN Poked(b, {s}) ELSE b
  BY DEF AccessTickSat, NewLink
<1> HIDE DEF granted, dropped, d
<1>2. /\ b.links = [c \in Cells |-> IF c \in granted THEN [a.links[c] EXCEPT ![s] = NewLink]
                                    ELSE a.links[c]]
      /\ b.watch = a.watch /\ b.asleep = a.asleep /\ b.assigned = a.assigned /\ DOMAIN b = Fields
  BY DEF Good, Typed, Fields
<1> HIDE DEF b
<1>3. /\ Poked(b, {s}).links = b.links /\ Poked(b, {s}).watch = b.watch
      /\ Poked(b, {s}).assigned = b.assigned
      /\ Poked(b, {s}).asleep = [r \in Sats |-> b.asleep[r] /\ r \notin {s}]
  BY <1>2 DEF Poked, Fields
<1>4. /\ d.links = b.links /\ d.watch = a.watch /\ d.assigned = a.assigned
      /\ \A r \in Sats : d.asleep[r] => a.asleep[r]
      /\ granted # {} /\ Acquisition = 0 => ~ d.asleep[s]
  BY <1>1, <1>2, <1>3
<1>5. ASSUME NEW c \in Cells, NEW r \in Sats
      PROVE  Changes(a.links[c][r], d.links[c][r], ~ d.asleep[r])
  <2>1. CASE c \in granted /\ r = s
    <3>1. d.links[c][r] = NewLink
      BY <1>2, <1>4, <2>1 DEF Good, Typed
    <3>2. CASE Acquisition = 0
      <4>1. NewLink.state = "active" /\ NewLink.since = now
        BY <3>2 DEF NewLink
      <4>2. ~ d.asleep[r]
        BY <1>4, <2>1, <3>2
      <4> QED
        BY <3>1, <3>2, <4>1, <4>2 DEF Changes
    <3>3. CASE Acquisition # 0
      <4>1. NewLink.state = "acquiring" /\ NewLink.since = now /\ NewLink.due = now + Acquisition
        BY <3>3 DEF NewLink
      <4>2. Acquiring(NewLink)
        BY <4>1, ConfigAssumption DEF Acquiring
      <4> QED
        BY <3>1, <4>2 DEF Changes
    <3> QED
      BY <3>2, <3>3
  <2>2. CASE ~ (c \in granted /\ r = s)
    <3>1. d.links[c][r] = a.links[c][r]
      BY <1>2, <1>4, <2>2 DEF Good, Typed
    <3> QED
      BY <3>1 DEF Changes
  <2> QED
    BY <2>1, <2>2
<1> QED
  BY <1>4, <1>5 DEF Wakes, d

LEMMA OnLinkRetiredWakes ==
  ASSUME NEW a, NEW c \in Cells, NEW s \in Sats, Good(a)
  PROVE  LET d == OnLinkRetired(a, c, s)
         IN  /\ Wakes(a, d)
             /\ \A p \in Packets :
                  \/ d.assigned[p] = a.assigned[p]
                  \/ p \in Range(a.queue[c]) /\ a.assigned[p] \in Retiring(a, c) \ Retiring(d, c)
<1> DEFINE b == Unassigned(a, c, s)
           d == Released(b, c, s)
<1>1. CASE ~ (a.links[c][s].state = "retiring" /\ now >= a.links[c][s].due)
  BY <1>1, SameWakes DEF OnLinkRetired
<1>2. CASE a.links[c][s].state = "retiring" /\ now >= a.links[c][s].due
  <2>1. /\ b.links = a.links /\ b.watch = a.watch /\ b.asleep = a.asleep
        /\ b.slots = a.slots /\ b.wait = a.wait /\ b.requests = a.requests /\ DOMAIN b = Fields
        /\ b.assigned = [p \in Packets |-> IF p \in Range(a.queue[c]) /\ a.assigned[p] = s
                                           THEN None ELSE a.assigned[p]]
    BY DEF Good, Typed, Fields, Unassigned
  <2> HIDE DEF b
  <2>2. Typed(b)
    BY <2>1 DEF Good, Typed
  <2>3. /\ Wakes(b, d) /\ d.assigned = b.assigned /\ d.links = [b.links EXCEPT ![c][s] = NoLink]
    BY <2>2, ReleasedWakes
  <2> HIDE DEF d
  <2>4. Wakes(a, d)
    BY <2>1, <2>3 DEF Wakes
  <2>5. d.links[c][s] = NoLink
    BY <2>2, <2>3 DEF Typed
  <2>6. s \in Retiring(a, c) \ Retiring(d, c)
    BY <1>2, <2>5 DEF Retiring, NoLink
  <2>7. OnLinkRetired(a, c, s) = d
    BY <1>2 DEF OnLinkRetired, d, b
  <2> QED
    BY <2>1, <2>3, <2>4, <2>6, <2>7
<1> QED
  BY <1>1, <1>2

-----------------------------------------------------------------------------
(* The invariant and the steps.                                            *)

WakeInv == AcquireTimes(acc) /\ Watching(acc)

\* What a step may do to the binding of a packet of c.
Rebound(a, b, c, p) ==
  \/ b.assigned[p] = a.assigned[p]
  \/ a.assigned[p] \in Retiring(a, c) \ Retiring(b, c)
  \/ /\ a.assigned[p] = None /\ b.assigned[p] \in Sats
     /\ LET r == b.assigned[p]
        IN  NeverActive(b.links[c][r]) \/ a.links[c][r].state = "active"

IsTold(c, s) ==
  acc.asleep[s] /\ acc'.asleep[s] /\ ~ Serves(c, s) /\ Serves(c, s)' =>
    RetirementEnds(c) \/ NeverActive(acc'.links[c][s])

\* A step that wakes and brings no packet lets no sleeping server serve more.
LEMMA WakesTell ==
  ASSUME NEW x, acc' = x, Wakes(acc, x), UNCHANGED <<now, sky>>, NEW c \in Cells, NEW s \in Sats,
         Range(x.queue[c]) \subseteq Range(acc.queue[c]),
         \A p \in Range(x.queue[c]) : Rebound(acc, x, c, p)
  PROVE  IsTold(c, s)
<1> SUFFICES ASSUME acc.asleep[s], x.asleep[s], ~ Serves(c, s), Serves(c, s)',
                    ~ RetirementEnds(c), ~ NeverActive(x.links[c][s])
             PROVE  FALSE
  BY DEF IsTold
<1> DEFINE y == x.links[c][s]
           w == acc.links[c][s]
<1>1. /\ s \in Visible(c)
      /\ y.state = "active" \/ (y.state = "retiring" /\ now < y.due)
  BY DEF Serves, Open, Visible
<1>2. PICK p \in Range(x.queue[c]) :
        x.assigned[p] \in IF y.state = "retiring" THEN {s} ELSE {None, s}
  BY DEF Serves, MayServe
<1>3. Changes(w, y, ~ x.asleep[s])
  BY DEF Wakes
<1> HIDE DEF y, w
<1>4. \/ y = w
      \/ w.state = "active" /\ y.state = "retiring"
  BY <1>1, <1>3 DEF Changes, Acquiring, RetiresLink, y
<1>5. Open(c, s)
  BY <1>1, <1>4 DEF Open, w
<1>6. ~ MayServe(c, s, p) /\ p \in Range(acc.queue[c])
  BY <1>5 DEF Serves
<1>7. Rebound(acc, x, c, p)
  OBVIOUS
<1>8. acc.assigned[p] \notin Retiring(acc, c) \ Retiring(x, c)
  BY <1>6 DEF RetirementEnds
<1>9. CASE x.assigned[p] = acc.assigned[p]
  BY <1>2, <1>4, <1>6, <1>9 DEF MayServe, w
<1>10. CASE acc.assigned[p] = None /\ x.assigned[p] \in Sats
            /\ (NeverActive(x.links[c][x.assigned[p]]) \/ acc.links[c][x.assigned[p]].state = "active")
  <2>1. x.assigned[p] = s
    BY <1>2, <1>10, NoneAssumption
  <2>2. w.state = "active"
    BY <1>10, <2>1 DEF y, w
  <2> QED
    BY <1>6, <1>10, <2>2 DEF MayServe, w
<1> QED
  BY <1>7, <1>8, <1>9, <1>10 DEF Rebound

\* The steps of one instant.  A cell whose linked servers are all awake may
\* also get packets.
LEMMA WakesStep ==
  ASSUME NEW x, acc' = x, Wakes(acc, x), UNCHANGED <<now, sky>>, WakeInv,
         \A c \in Cells :
           \/ /\ Range(x.queue[c]) \subseteq Range(acc.queue[c])
              /\ x.queue[c] # <<>> => acc.queue[c] # <<>>
              /\ \A p \in Range(x.queue[c]) : Rebound(acc, x, c, p)
           \/ \A s \in Linked(x, c) : ~ x.asleep[s]
  PROVE  WakeInv' /\ \A c \in Cells, s \in Sats : IsTold(c, s)
<1>1. AcquireTimes(acc)'
  <2>1. AcquireTimes(x)
    BY WakesKeep DEF WakeInv
  <2> QED
    BY <2>1 DEF AcquireTimes, Acquiring
<1>2. Watching(acc)'
  <2> SUFFICES ASSUME NEW c \in Cells, NEW s \in Sats,
                      x.asleep[s], Known(x.links[c][s]), x.queue[c] # <<>>
               PROVE  c \in x.watch[s]
    BY DEF Watching
  <2>1. s \in Linked(x, c)
    BY DEF Linked, Known
  <2>2. acc.queue[c] # <<>>
    BY <2>1
  <2> QED
    BY <2>2, WakesWatch DEF WakeInv
<1>3. ASSUME NEW c \in Cells, NEW s \in Sats PROVE IsTold(c, s)
  <2>1. CASE \A r \in Linked(x, c) : ~ x.asleep[r]
    BY <2>1 DEF IsTold, Serves, Open, Linked
  <2>2. CASE /\ Range(x.queue[c]) \subseteq Range(acc.queue[c])
             /\ \A p \in Range(x.queue[c]) : Rebound(acc, x, c, p)
    BY <2>2, WakesTell
  <2> QED
    BY <2>1, <2>2
<1> QED
  BY <1>1, <1>2, <1>3 DEF WakeInv

LEMMA OneQueue ==
  ASSUME NEW Q, OnceQueued(Q), NEW c \in Cells, NEW d \in Cells, NEW p,
         p \in Range(Q[c]), p \in Range(Q[d])
  PROVE  c = d
BY DEF OnceQueued, Range

\* A step that leaves the access state alone.
LEMMA IdleTold ==
  ASSUME WakeInv, UNCHANGED <<acc, now, sky>>
  PROVE  WakeInv' /\ \A c \in Cells, s \in Sats : IsTold(c, s)
<1>1. Wakes(acc, acc) /\ \A c \in Cells : \A p \in Range(acc.queue[c]) : Rebound(acc, acc, c, p)
  BY SameWakes DEF Rebound
<1> QED
  BY <1>1, WakesStep

LEMMA EndpointTickTold ==
  ASSUME AccessInv, KeepInv, WakeInv, NEW c \in Cells, NEW steep, EndpointTick(c, steep)
  PROVE  WakeInv' /\ \A d \in Cells, s \in Sats : IsTold(d, s)
<1> DEFINE a == AccessTickEndpoint(acc, c)
           e == EvaluateHandover(a, c, steep)
<1>0. Good(acc) /\ now \in Nat /\ sky \in Skies /\ QueuesTyped(acc) /\ OnceQueued(acc.queue)
  BY DEF AccessInv, KeepInv, Placed
<1>1. /\ Wakes(acc, a) /\ a.assigned = acc.assigned /\ Good(a) /\ KeepsQueues(acc, a)
  BY <1>0, AccessTickEndpointWakes, AccessTickEndpointGood, AccessTickEndpointKeeps DEF Good, Typed
<1>2. acc' = e /\ UNCHANGED <<now, sky>>
  BY DEF EndpointTick
<1> HIDE DEF a
<1>3. AcquireTimes(a) /\ QueuesTyped(a) /\ a.queue = acc.queue
  BY <1>0, <1>1, WakesKeep DEF WakeInv, KeepsQueues
<1>4. /\ Wakes(a, e)
      /\ \A p \in Range(a.queue[c]) :
           \/ e.assigned[p] = a.assigned[p]
           \/ /\ a.assigned[p] \in Retiring(a, c) \ Retiring(e, c)
              /\ a.links[c][a.assigned[p]].due =< now
           \/ /\ a.assigned[p] = None /\ e.assigned[p] \in Sats
              /\ RetiresLink(a.links[c][e.assigned[p]], e.links[c][e.assigned[p]])
      /\ KeepsQueues(a, e)
  BY <1>0, <1>1, <1>3, EvaluateHandoverWakes, EvaluateHandoverKeeps
<1>5. ASSUME NEW d \in Cells \ {c}, NEW p \in Range(acc.queue[d])
      PROVE  e.assigned[p] = acc.assigned[p]
  <2>1. p \in Packets
    BY <1>0 DEF QueuesTyped, Range
  <2>2. p \notin Range(a.queue[c])
    BY <1>0, <1>3, OneQueue
  <2>3. e.assigned[p] = a.assigned[p]
    BY <1>0, <1>1, <2>1, <2>2, HandoverBinds
  <2> QED
    BY <1>1, <2>3
<1> HIDE DEF e
<1>6. Wakes(acc, e) /\ e.queue = acc.queue
  BY <1>0, <1>1, <1>3, <1>4, WakesChain DEF Good, KeepsQueues
<1>7. ASSUME NEW p \in Range(acc.queue[c])
      PROVE  Rebound(acc, e, c, p)
  <2>1. CASE e.assigned[p] = a.assigned[p]
    BY <1>1, <2>1 DEF Rebound
  <2>2. CASE a.assigned[p] \in Retiring(a, c) \ Retiring(e, c) /\ a.links[c][a.assigned[p]].due =< now
    <3> DEFINE r == a.assigned[p]
    <3>1. r \in Sats /\ a.links[c][r].state = "retiring" /\ a.links[c][r].due =< now
      BY <2>2 DEF Retiring
    <3>2. a.links[c][r].due \in Nat
      BY <1>1, <3>1 DEF Good, Typed, Links
    <3>3. Changes(acc.links[c][r], a.links[c][r], ~ a.asleep[r])
      BY <1>1, <3>1 DEF Wakes
    <3> HIDE DEF r
    <3>4. a.links[c][r] = acc.links[c][r]
      BY <1>0, <3>1, <3>2, <3>3, ConfigAssumption DEF Changes, Acquiring, RetiresLink
    <3> QED
      BY <1>1, <2>2, <3>1, <3>4 DEF Rebound, Retiring, r
  <2>3. CASE a.assigned[p] = None /\ e.assigned[p] \in Sats
             /\ RetiresLink(a.links[c][e.assigned[p]], e.links[c][e.assigned[p]])
    <3> DEFINE r == e.assigned[p]
               x == acc.links[c][r]
               y == a.links[c][r]
               z == e.links[c][r]
    <3>1. r \in Sats /\ RetiresLink(y, z) /\ Changes(x, y, ~ a.asleep[r])
      BY <1>1, <2>3 DEF Wakes
    <3>2. y \in Links /\ (y.state = "acquiring" => Acquiring(y))
      BY <1>1, <1>3, <3>1 DEF Good, Typed, AcquireTimes
    <3>3. y.since \in Nat /\ y.due \in Nat
      BY <3>2 DEF Links
    <3> HIDE DEF r, x, y, z
    <3>4. NeverActive(z) \/ x.state = "active"
      <4>1. z.state = "retiring" /\ z.due = now + RetireDelay /\ z.since = y.since
            /\ y.state \in {"acquiring", "active"}
        BY <3>1 DEF RetiresLink
      <4>2. CASE now =< y.since + Acquisition
        BY <4>1, <4>2, ConfigAssumption, <1>0, <3>3 DEF NeverActive
      <4>3. CASE y.state = "acquiring"
        BY <3>2, <3>3, <4>2, <4>3 DEF Acquiring
      <4>4. CASE y.state = "active"
        BY <3>1, <4>2, <4>4 DEF Changes, Acquiring, RetiresLink, NeverActive
      <4> QED
        BY <4>1, <4>3, <4>4
    <3> QED
      BY <1>1, <2>3, <3>4 DEF Rebound, r, x, z
  <2> QED
    BY <1>3, <1>4, <2>1, <2>2, <2>3
<1>8. \A d \in Cells : \A p \in Range(e.queue[d]) : Rebound(acc, e, d, p)
  BY <1>5, <1>6, <1>7 DEF Rebound
<1> QED
  BY <1>2, <1>6, <1>8, WakesStep

LEMMA StartUplinkTold ==
  ASSUME AccessInv, KeepInv, WakeInv, NEW c \in Cells, NEW s \in Sats, StartUplink(c, s)
  PROVE  WakeInv' /\ \A d \in Cells, r \in Sats : IsTold(d, r)
<1> DEFINE Q == acc.queue
<1>1. PICK i \in DOMAIN Q[c] :
        acc' = [acc EXCEPT !.queue[c] = RemoveAt(@, i), !.assigned[Q[c][i]] = s]
  BY DEF StartUplink
<1>2. UNCHANGED <<now, sky>>
  BY DEF StartUplink
<1> DEFINE p == Q[c][i]
           x == [acc EXCEPT !.queue[c] = RemoveAt(@, i), !.assigned[p] = s]
<1>3. /\ x.queue = Without(Q, c, i) /\ x.assigned = [acc.assigned EXCEPT ![p] = s]
      /\ x.asleep = acc.asleep /\ x.watch = acc.watch /\ x.links = acc.links
  BY <1>1 DEF AccessInv, Good, Typed, Fields, Without
<1>4. Q \in [Cells -> Seq(Packets)] /\ OnceQueued(Q)
  BY DEF KeepInv, QueuesTyped, Placed
<1>5. acc' = x
  BY <1>1
<1> HIDE DEF p, x, Q
<1>6. /\ x.queue \in [Cells -> Seq(Packets)]
      /\ \A q : InQueue(x.queue, q) => InQueue(Q, q) /\ q # p
  BY <1>1, <1>3, <1>4, TakenFromQueue DEF p
<1>7. \A d \in Cells : d # c => x.queue[d] = Q[d]
  BY <1>3, <1>4 DEF Without
<1>8. x.queue[c] = RemoveAt(Q[c], i) /\ Q[c] \in Seq(Packets)
  BY <1>3, <1>4 DEF Without
<1>9. Range(x.queue[c]) \subseteq Range(Q[c])
  <2>1. /\ DOMAIN x.queue[c] = 1 .. Len(Q[c]) - 1 /\ DOMAIN Q[c] = 1 .. Len(Q[c])
        /\ \A j \in 1 .. Len(Q[c]) - 1 :
             x.queue[c][j] = IF j < i THEN Q[c][j] ELSE Q[c][j + 1]
    <3>1. i \in 1 .. Len(Q[c]) /\ DOMAIN Q[c] = 1 .. Len(Q[c])
      BY <1>1, <1>4, QueueTyped
    <3> QED
      BY <1>8, <3>1, RemovedAt
  <2>2. Len(Q[c]) \in Nat
    BY <1>8
  <2>3. ASSUME NEW q \in Range(x.queue[c]) PROVE q \in Range(Q[c])
    <3>1. PICK j \in DOMAIN x.queue[c] : q = x.queue[c][j]
      BY DEF Range
    <3>2. j \in 1 .. Len(Q[c]) - 1
      BY <2>1, <3>1
    <3>3. j \in DOMAIN Q[c] /\ j + 1 \in DOMAIN Q[c]
      BY <2>1, <2>2, <3>2
    <3>4. q \in {Q[c][j], Q[c][j + 1]}
      BY <2>1, <3>1, <3>2
    <3> QED
      BY <3>3, <3>4 DEF Range
  <2> QED
    BY <2>3
<1>10. ASSUME NEW d \in Cells
       PROVE  /\ Range(x.queue[d]) \subseteq Range(Q[d])
              /\ x.queue[d] # <<>> => Q[d] # <<>>
              /\ \A q \in Range(x.queue[d]) : Rebound(acc, x, d, q)
  <2>1. Range(x.queue[d]) \subseteq Range(Q[d])
    BY <1>7, <1>9
  <2>2. x.queue[d] # <<>> => Q[d] # <<>>
    <3>1. Q[c] # <<>>
      BY <1>1, <1>4, QueueTyped
    <3> QED
      BY <1>7, <3>1
  <2>3. ASSUME NEW q \in Range(x.queue[d])
        PROVE  Rebound(acc, x, d, q)
    <3>1. InQueue(x.queue, q)
      BY <2>3 DEF InQueue, Range
    <3>2. q # p
      BY <1>6, <3>1
    <3>3. x.assigned[q] = acc.assigned[q]
      BY <1>3, <3>2
    <3> QED
      BY <3>3 DEF Rebound
  <2> QED
    BY <2>1, <2>2, <2>3
<1>11. Wakes(acc, x)
  BY <1>3, SameWakes
<1> QED
  BY <1>2, <1>5, <1>10, <1>11, WakesStep DEF Q

\* A step on c that ends by waking every server c is linked to.
LEMMA PokesTold ==
  ASSUME NEW a, NEW b, NEW c \in Cells, acc' = Poked(b, Linked(b, c)), UNCHANGED <<now, sky>>,
         AccessInv, WakeInv, DOMAIN b = Fields, Typed(a), Wakes(a, b),
         a.links = acc.links, a.watch = acc.watch, a.asleep = acc.asleep,
         \A d \in Cells \ {c} : b.queue[d] = acc.queue[d],
         \A d \in Cells \ {c} : \A p \in Range(acc.queue[d]) : b.assigned[p] = acc.assigned[p]
  PROVE  WakeInv' /\ \A d \in Cells, r \in Sats : IsTold(d, r)
<1> DEFINE x == Poked(b, Linked(b, c))
<1>1. /\ x.links = b.links /\ x.watch = b.watch /\ x.queue = b.queue /\ x.assigned = b.assigned
      /\ x.asleep = [s \in Sats |-> b.asleep[s] /\ s \notin Linked(b, c)]
  BY DEF Poked, Fields
<1>2. acc' = x
  OBVIOUS
<1> HIDE DEF x
<1>3. Wakes(acc, x)
  <2>1. x.watch = acc.watch /\ \A s \in Sats : x.asleep[s] => b.asleep[s] /\ acc.asleep[s]
    BY <1>1 DEF Wakes
  <2>2. ASSUME NEW d \in Cells, NEW s \in Sats
        PROVE  Changes(acc.links[d][s], x.links[d][s], ~ x.asleep[s])
    <3>1. Changes(a.links[d][s], b.links[d][s], ~ b.asleep[s])
      BY DEF Wakes
    <3>2. acc.links[d][s] = a.links[d][s] /\ x.links[d][s] = b.links[d][s]
      BY <1>1
    <3> QED
      BY <2>1, <3>1, <3>2 DEF Changes
  <2> QED
    BY <2>1, <2>2 DEF Wakes
<1>4. \A s \in Linked(x, c) : ~ x.asleep[s]
  BY <1>1 DEF Linked
<1>5. \A d \in Cells \ {c} :
        /\ Range(x.queue[d]) \subseteq Range(acc.queue[d])
        /\ x.queue[d] # <<>> => acc.queue[d] # <<>>
        /\ \A p \in Range(x.queue[d]) : Rebound(acc, x, d, p)
  BY <1>1 DEF Rebound
<1> QED
  BY <1>2, <1>3, <1>4, <1>5, WakesStep

LEMMA EmitTold ==
  ASSUME AccessInv, KeepInv, WakeInv, NEW c \in Cells, NEW p \in Packets, Emit(c, p)
  PROVE  WakeInv' /\ \A d \in Cells, r \in Sats : IsTold(d, r)
<1>1. UNCHANGED <<now, sky>> /\ p \notin sent
  BY DEF Emit
<1>2. CASE acc' = acc
  BY <1>1, <1>2, IdleTold
<1>3. CASE acc' = Enqueued(acc, c, p)
  <2> DEFINE sat == IF Primaries(acc, c) # {} /\ acc.links[c][Primary(acc, c)].state = "active"
                    THEN Primary(acc, c) ELSE None
             b == [acc EXCEPT !.assigned[p] = sat, !.queue[c] = Append(@, p)]
             d == IF Primaries(acc, c) = {} THEN RequestOrGrant(b, c) ELSE b
  <2>1. acc' = Poked(d, Linked(d, c))
    BY <1>3 DEF Enqueued
  <2> HIDE DEF sat
  <2>2. /\ b.queue = [acc.queue EXCEPT ![c] = Append(@, p)]
        /\ b.assigned = [acc.assigned EXCEPT ![p] = sat]
        /\ b.asleep = acc.asleep /\ b.watch = acc.watch /\ DOMAIN b = Fields
        /\ b.links = acc.links /\ b.slots = acc.slots /\ b.wait = acc.wait
        /\ b.requests = acc.requests
    BY DEF AccessInv, Good, Typed, Fields
  <2> HIDE DEF b
  <2>3. Good(b) /\ sky \in Skies /\ now \in Nat
    BY <2>2, SameLinks DEF AccessInv
  <2>4. /\ Wakes(b, d) /\ d.assigned = b.assigned /\ d.queue = b.queue
        /\ DOMAIN d = Fields
    <3>1. CASE d = b
      BY <2>2, <3>1, SameWakes
    <3>2. CASE Primaries(acc, c) = {} /\ d = RequestOrGrant(b, c)
      <4>1. KeepsQueues(b, RequestOrGrant(b, c))
        BY <2>2, TryGrantKeeps
      <4>2. Primaries(b, c) = {}
        BY <2>2, <3>2 DEF Primaries
      <4>3. Good(RequestOrGrant(b, c))
        BY <2>3, <4>2, RequestOrGrantGood
      <4> QED
        BY <2>3, <3>2, <4>1, <4>3, RequestOrGrantWakes DEF KeepsQueues, Good, Typed
    <3> QED
      BY <3>1, <3>2
  <2> HIDE DEF d
  <2>5. acc.queue \in [Cells -> Seq(Packets)] /\ ~ InQueue(acc.queue, p)
    BY <1>1 DEF KeepInv, Placed, QueuesTyped
  <2>6. \A e \in Cells \ {c} : d.queue[e] = acc.queue[e]
    BY <2>2, <2>4, <2>5
  <2>7. ASSUME NEW e \in Cells, NEW q \in Range(acc.queue[e])
        PROVE  d.assigned[q] = acc.assigned[q]
    <3>1. q # p
      BY <2>5, <2>7 DEF InQueue, Range
    <3> QED
      BY <2>2, <2>4, <3>1
  <2>8. Typed(b)
    BY <2>3 DEF Good
  <2> QED
    BY <1>1, <2>1, <2>2, <2>4, <2>6, <2>7, <2>8, PokesTold
<1> QED
  BY <1>2, <1>3 DEF Emit

LEMMA UplinkRetiredTold ==
  ASSUME AccessInv, KeepInv, WakeInv, NEW s \in Sats, UplinkRetired(s)
  PROVE  WakeInv' /\ \A d \in Cells, r \in Sats : IsTold(d, r)
<1> DEFINE c == up[s].cell
           p == up[s].pkt
           b == Requeued(acc, c, p)
           d == OnLinkRetired(b, c, s)
<1>1. /\ up[s] # None /\ acc' = Poked(d, Linked(d, c)) /\ UNCHANGED <<now, sky>>
  BY DEF UplinkRetired, RetireWins
<1>2. c \in Cells /\ p \in Packets
  BY <1>1 DEF KeepInv, RestTyped, Services
<1>3. /\ b.queue = [acc.queue EXCEPT ![c] = <<p>> \o @]
      /\ b.assigned = [acc.assigned EXCEPT ![p] = None]
      /\ b.asleep = acc.asleep /\ b.watch = acc.watch
      /\ b.links = acc.links /\ b.slots = acc.slots /\ b.wait = acc.wait
      /\ b.requests = acc.requests /\ DOMAIN b = Fields
  BY DEF AccessInv, Good, Typed, Fields, Requeued
<1>4. Served(up, p)
  BY <1>1 DEF Served
<1> HIDE DEF b, c, p
<1>5. Good(b)
  BY <1>3, SameLinks DEF AccessInv
<1>6. ~ InQueue(acc.queue, p) /\ acc.queue \in [Cells -> Seq(Packets)] /\ OnceQueued(acc.queue)
  BY <1>2, <1>4 DEF KeepInv, Placed, QueuesTyped
<1>7. OnceQueued(b.queue)
  <2>1. \/ b.queue = [acc.queue EXCEPT ![c] = Append(@, p)]
        \/ b.queue = [acc.queue EXCEPT ![c] = <<p>> \o @]
    BY <1>3
  <2> QED
    BY <1>2, <1>6, <2>1, AddedToQueue
<1>8. /\ Wakes(b, d)
      /\ \A q \in Packets : d.assigned[q] = b.assigned[q] \/ q \in Range(b.queue[c])
  BY <1>2, <1>5, OnLinkRetiredWakes
<1>9. KeepsQueues(b, d) /\ DOMAIN d = Fields
  BY <1>2, <1>3, <1>5, OnLinkRetiredKeeps, OnLinkRetiredGood DEF Good, Typed
<1> HIDE DEF d
<1>10. \A e \in Cells \ {c} : b.queue[e] = acc.queue[e] /\ d.queue[e] = acc.queue[e]
  BY <1>2, <1>3, <1>6, <1>9 DEF KeepsQueues
<1>11. ASSUME NEW e \in Cells \ {c}, NEW q \in Range(acc.queue[e])
       PROVE  d.assigned[q] = acc.assigned[q]
  <2>1. q \in Packets
    BY <1>6 DEF Range
  <2>2. q # p
    BY <1>6 DEF InQueue, Range
  <2>3. q \notin Range(b.queue[c])
    BY <1>2, <1>7, <1>10, OneQueue
  <2> QED
    BY <1>3, <1>8, <2>1, <2>2, <2>3
<1>12. Typed(b)
  BY <1>5 DEF Good
<1> QED
  BY <1>1, <1>2, <1>3, <1>8, <1>9, <1>10, <1>11, <1>12, PokesTold

LEMMA SleepUplinkTold ==
  ASSUME AccessInv, WakeInv, KeepInv, NEW s \in Sats, SleepUplink(s)
  PROVE  WakeInv' /\ \A d \in Cells, r \in Sats : IsTold(d, r)
<1> DEFINE W == {c \in Cells : acc.queue[c] # <<>>}
           x == [acc EXCEPT !.asleep[s] = TRUE, !.watch[s] = W]
<1>1. acc' = x /\ UNCHANGED <<now, sky>> /\ ~ acc.asleep[s]
  BY DEF SleepUplink
<1>2. /\ x.links = acc.links /\ x.queue = acc.queue /\ x.assigned = acc.assigned
      /\ x.asleep = [acc.asleep EXCEPT ![s] = TRUE] /\ x.watch = [acc.watch EXCEPT ![s] = W]
  BY DEF AccessInv, Good, Typed, Fields
<1> HIDE DEF x
<1>3. AcquireTimes(acc)'
  BY <1>1, <1>2 DEF WakeInv, AcquireTimes, Acquiring
<1>4. Watching(acc)'
  <2> SUFFICES ASSUME NEW c \in Cells, NEW r \in Sats,
                      x.asleep[r], Known(x.links[c][r]), x.queue[c] # <<>>
               PROVE  c \in x.watch[r]
    BY <1>1 DEF Watching
  <2>1. CASE r = s
    BY <1>2, <2>1 DEF KeepInv, QueuesTyped
  <2>2. CASE r # s
    BY <1>2, <2>2 DEF KeepInv, QueuesTyped, WakeInv, Watching
  <2> QED
    BY <2>1, <2>2
<1>5. ASSUME NEW d \in Cells, NEW r \in Sats PROVE IsTold(d, r)
  <2>1. Serves(d, r)' => Serves(d, r)
    BY <1>1, <1>2 DEF Serves, Open, MayServe, Visible
  <2> QED
    BY <2>1 DEF IsTold
<1> QED
  BY <1>3, <1>4, <1>5 DEF WakeInv

\* Time moves and geometry changes: whoever watches is woken.
LEMMA AdvanceTold ==
  ASSUME AccessInv, WakeInv, KeepInv, NEW sky2 \in Skies, Advance(sky2)
  PROVE  WakeInv' /\ \A d \in Cells, r \in Sats : IsTold(d, r)
<1> DEFINE S == {s \in Sats : \E c \in acc.watch[s] :
                             (s \in Range(sky[c])) # (s \in Range(sky2[c]))}
           x == Poked(acc, S)
<1>1. acc' = x /\ now' = now + 1 /\ sky' = sky2 /\ Settled
  BY DEF Advance
<1>2. /\ x.links = acc.links /\ x.queue = acc.queue /\ x.assigned = acc.assigned
      /\ x.watch = acc.watch /\ x.asleep = [s \in Sats |-> acc.asleep[s] /\ s \notin S]
  BY DEF AccessInv, Good, Typed, Fields, Poked
<1> HIDE DEF x, S
<1>3. AcquireTimes(acc)'
  <2> SUFFICES ASSUME NEW c \in Cells, NEW s \in Sats, acc.links[c][s].state = "acquiring"
               PROVE  acc.links[c][s].due = acc.links[c][s].since + Acquisition
                      /\ now + 1 =< acc.links[c][s].due
    BY <1>1, <1>2 DEF AcquireTimes, Acquiring
  <2>1. acc.links[c][s].due = acc.links[c][s].since + Acquisition /\ now =< acc.links[c][s].due
    BY DEF WakeInv, AcquireTimes, Acquiring
  <2>2. ~ (now >= acc.links[c][s].due)
    BY <1>1 DEF Settled, ActivationDue
  <2>3. acc.links[c][s].due \in Nat /\ now \in Nat
    BY DEF AccessInv, Good, Typed, Links
  <2> QED
    BY <2>1, <2>2, <2>3
<1>4. Watching(acc)'
  BY <1>1, <1>2 DEF WakeInv, Watching
<1>5. ASSUME NEW c \in Cells, NEW s \in Sats PROVE IsTold(c, s)
  <2> SUFFICES ASSUME x.asleep[s], ~ Serves(c, s), Serves(c, s)',
                      ~ NeverActive(x.links[c][s])
               PROVE  FALSE
    BY <1>1 DEF IsTold
  <2> DEFINE link == acc.links[c][s]
  <2>1. /\ s \in Range(sky2[c])
        /\ link.state = "active" \/ (link.state = "retiring" /\ now + 1 < link.due)
    BY <1>1, <1>2 DEF Serves, Open, Visible
  <2>2. PICK p \in Range(acc.queue[c]) : MayServe(c, s, p)
    BY <1>1, <1>2 DEF Serves, MayServe
  <2>3. acc.queue[c] # <<>>
    BY <2>2 DEF Range
  <2>4. acc.asleep[s] /\ s \notin S
    BY <1>2
  <2>5. c \in acc.watch[s]
    BY <1>2, <2>1, <2>3, <2>4 DEF WakeInv, Watching, Known
  <2>6. s \in Range(sky[c])
    BY <2>1, <2>4, <2>5 DEF S
  <2>7. now \in Nat /\ link.due \in Nat
    BY DEF AccessInv, Good, Typed, Links
  <2> HIDE DEF link
  <2>8. link.state = "active" \/ (link.state = "retiring" /\ now < link.due)
    BY <2>1, <2>7
  <2> QED
    BY <2>2, <2>6, <2>8 DEF Serves, Open, Visible, link
<1> QED
  BY <1>3, <1>4, <1>5 DEF WakeInv

\* A step on the links and bindings of one cell.
LEMMA QuietTold ==
  ASSUME NEW x, acc' = x, Wakes(acc, x), UNCHANGED <<now, sky>>, WakeInv, x.queue = acc.queue,
         \A c \in Cells : \A p \in Range(acc.queue[c]) : Rebound(acc, x, c, p)
  PROVE  WakeInv' /\ \A d \in Cells, r \in Sats : IsTold(d, r)
BY WakesStep

LEMMA LinkRetiredTold ==
  ASSUME AccessInv, KeepInv, WakeInv, NEW c \in Cells, NEW s \in Sats,
         acc' = OnLinkRetired(acc, c, s), UNCHANGED <<now, sky>>
  PROVE  WakeInv' /\ \A d \in Cells, r \in Sats : IsTold(d, r)
<1> DEFINE x == OnLinkRetired(acc, c, s)
<1>1. /\ Wakes(acc, x)
      /\ \A p \in Packets :
           \/ x.assigned[p] = acc.assigned[p]
           \/ p \in Range(acc.queue[c]) /\ acc.assigned[p] \in Retiring(acc, c) \ Retiring(x, c)
  BY OnLinkRetiredWakes DEF AccessInv
<1>2. x.queue = acc.queue
  BY OnLinkRetiredKeeps DEF AccessInv, Good, Typed, KeepsQueues
<1>3. acc' = x
  OBVIOUS
<1> HIDE DEF x
<1>4. ASSUME NEW d \in Cells, NEW p \in Range(acc.queue[d])
      PROVE  Rebound(acc, x, d, p)
  <2>1. p \in Packets
    BY DEF KeepInv, QueuesTyped, Range
  <2>2. p \in Range(acc.queue[c]) => d = c
    BY OneQueue DEF KeepInv, Placed
  <2> QED
    BY <1>1, <2>1, <2>2 DEF Rebound
<1> QED
  BY <1>1, <1>2, <1>3, <1>4, QuietTold

LEMMA StepTold ==
  ASSUME AccessInv, KeepInv, WakeInv, [Next]_vars
  PROVE  WakeInv' /\ \A d \in Cells, r \in Sats : IsTold(d, r)
<1> DEFINE Goal == WakeInv' /\ \A d \in Cells, r \in Sats : IsTold(d, r)
<1>1. ASSUME UNCHANGED <<acc, now, sky>> PROVE Goal
  BY <1>1, IdleTold
<1>2. ASSUME NEW c \in Cells, EndpointStep(c) PROVE Goal
  <2>1. ASSUME NEW s \in Sats, ActivateAfterDelay(c, s) PROVE Goal
    <3> DEFINE b == [acc EXCEPT !.links[c][s].state = "active"]
               x == Poked(b, {s})
               link == [acc.links[c][s] EXCEPT !.state = "active"]
    <3>1. acc' = x /\ UNCHANGED <<now, sky>> /\ ActivationDue(c, s)
      BY <2>1 DEF ActivateAfterDelay
    <3>2. /\ b.links = [acc.links EXCEPT ![c][s] = link] /\ b.queue = acc.queue
          /\ b.assigned = acc.assigned /\ b.watch = acc.watch /\ b.asleep = acc.asleep
          /\ DOMAIN b = Fields
      BY DEF AccessInv, Good, Typed, Fields
    <3> HIDE DEF b
    <3>3. /\ x.links = b.links /\ x.queue = b.queue /\ x.assigned = b.assigned
          /\ x.watch = b.watch /\ x.asleep = [r \in Sats |-> b.asleep[r] /\ r \notin {s}]
      BY <3>2 DEF Poked, Fields
    <3> HIDE DEF x
    <3>4. link.state = "active" /\ now =< link.since + Acquisition
      <4>1. acc.links[c][s] \in Links /\ acc.links[c][s].state = "acquiring"
        BY <3>1 DEF ActivationDue, AccessInv, Good, Typed
      <4>2. Acquiring(acc.links[c][s])
        BY <4>1 DEF WakeInv, AcquireTimes
      <4> QED
        BY <4>1, <4>2 DEF Acquiring, Links
    <3> HIDE DEF link
    <3>5. Changes(acc.links[c][s], link, ~ x.asleep[s])
      BY <3>3, <3>4 DEF Changes
    <3>6. Wakes(acc, x)
      BY <3>2, <3>3, <3>5, LinkWakes DEF AccessInv, Good, Typed
    <3>7. \A d \in Cells : \A p \in Range(acc.queue[d]) : Rebound(acc, x, d, p)
      BY <3>2, <3>3 DEF Rebound
    <3> QED
      BY <3>1, <3>2, <3>3, <3>6, <3>7, QuietTold
  <2>2. ASSUME NEW s \in Sats, FireInterrupt(c, s) PROVE Goal
    <3>1. acc' = OnLinkRetired(acc, c, s) /\ UNCHANGED <<now, sky>>
      BY <2>2 DEF FireInterrupt, InterruptDue, OnLinkRetired
    <3> QED
      BY <3>1, LinkRetiredTold
  <2> QED
    BY <1>2, <2>1, <2>2, EndpointTickTold, StartUplinkTold DEF EndpointStep
<1>3. ASSUME NEW s \in Sats, SatStep(s) PROVE Goal
  <2>1. CASE SatTick(s)
    <3> DEFINE x == AccessTickSat(acc, s)
    <3>1. acc' = x /\ UNCHANGED <<now, sky>>
      BY <2>1 DEF SatTick
    <3>2. Wakes(acc, x) /\ x.assigned = acc.assigned /\ x.queue = acc.queue
      BY AccessTickSatWakes, AccessTickSatKeeps DEF AccessInv, Good, Typed, KeepsQueues
    <3> HIDE DEF x
    <3>3. \A d \in Cells : \A p \in Range(acc.queue[d]) : Rebound(acc, x, d, p)
      BY <3>2 DEF Rebound
    <3> QED
      BY <3>1, <3>2, <3>3, QuietTold
  <2>2. CASE DownlinkRetired(s)
    <3>1. /\ acc' = OnLinkRetired(acc, down[s].cell, s) /\ UNCHANGED <<now, sky>>
          /\ down[s] # None
      BY <2>2 DEF DownlinkRetired, RetireWins
    <3>2. down[s].cell \in Cells
      BY <3>1, CellsAssumption DEF KeepInv, RestTyped, DownServices
    <3> QED
      BY <3>1, <3>2, LinkRetiredTold
  <2>3. CASE UplinkEnds(s) \/ DownlinkEnds(s)
    BY <1>1, <2>3 DEF UplinkEnds, DownlinkEnds
  <2> QED
    BY <1>3, <2>1, <2>2, <2>3, SleepUplinkTold, UplinkRetiredTold DEF SatStep
<1>4. CASE Environment
  <2>1. ASSUME NEW c \in Cells, NEW s \in Sats,
               DemandArrives(c, s) \/ DemandLeaves(c, s) \/ StartDownlink(c, s)
        PROVE  Goal
    BY <1>1, <2>1 DEF DemandArrives, DemandLeaves, StartDownlink
  <2> QED
    BY <1>4, <2>1, EmitTold DEF Environment
<1>5. CASE UNCHANGED vars \/ Closed
  BY <1>1, <1>5 DEF Closed, vars
<1> QED
  BY <1>2, <1>3, <1>4, <1>5, AdvanceTold DEF Next

\* Whatever lets a sleeping server serve an endpoint wakes it: a new or ended
\* acquisition, an emission, a requeue, a change of geometry.  The two gaps of
\* the code that NoLostWakeup names are the only ones, in both handover modes.
THEOREM NoLostWakeupAlways == Spec => NoLostWakeup
<1>1. Init => WakeInv
  BY DEF Init, WakeInv, AcquireTimes, Watching, NoLink, Known
<1>2. AccessInv /\ KeepInv /\ WakeInv /\ [Next]_vars => WakeInv'
  BY StepTold
<1>3. AccessInv /\ KeepInv /\ WakeInv /\ [Next]_vars =>
        [\A s \in Sats, c \in Cells :
           acc.asleep[s] /\ acc'.asleep[s] /\ ~ Serves(c, s) /\ Serves(c, s)' =>
             RetirementEnds(c) \/ NeverActive(acc'.links[c][s])]_vars
  BY StepTold DEF IsTold
<1> QED
  BY <1>1, <1>2, <1>3, KeepInvariant, PTL DEF Spec, NoLostWakeup
=============================================================================
