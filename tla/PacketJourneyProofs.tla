------------------------ MODULE PacketJourneyProofs ------------------------
(***************************************************************************)
(* Proofs about PacketJourney, for every constellation, packet set, delay  *)
(* and queue bound.  One operator, Good, says what holds of the places     *)
(* record with the packets H in a handler's hands; every elementary move   *)
(* takes a packet up or puts one down and keeps Good, every bulk move      *)
(* keeps it for its whole queue, and an action is a chain of such moves.   *)
(***************************************************************************)
EXTENDS PacketJourney, QueueProofs

-----------------------------------------------------------------------------
(* The invariant of the places record.  H is the set of packets a handler  *)
(* has in its hands: taken out of a queue and not yet put anywhere.  t is  *)
(* the topology the egress queues belong to.                               *)

PacketStates == [where : Places, sat : Sats \cup {None}, path : Seq(Sats),
                 until : Nat \cup {None}, obs : Observations, armed : BOOLEAN, fate : Fates]
Typed(v) ==
  v \in [pk : [Packets -> PacketStates], egress : [Sats -> [Dirs -> Seq(Packets)]],
         down : [Sats -> Seq(Packets)], hold : [Sats -> Seq(Packets)],
         jobs : [Sats -> Seq(Packets)], wake : [Sats -> Nat \cup {None}],
         wakes : [Sats -> SUBSET Nat]]

Short(v) ==
  \A s \in Sats : /\ Len(v.hold[s]) =< HoldRoom /\ Len(v.down[s]) =< DownRoom
                  /\ \A d \in Dirs : Len(v.egress[s][d]) =< Room

Single(v) ==
  \A s \in Sats : /\ IsInjective(v.hold[s]) /\ IsInjective(v.down[s]) /\ IsInjective(v.jobs[s])
                  /\ \A d \in Dirs : IsInjective(v.egress[s][d])

\* The packets of a queue are those whose place it is.
At(v, H, p, place, s) == p \notin H /\ v.pk[p].where = place /\ v.pk[p].sat = s
Placed(v, H) ==
  \A p \in Packets, s \in Sats :
    /\ p \in Range(v.hold[s]) <=> At(v, H, p, "held", s)
    /\ p \in Range(v.down[s]) <=> At(v, H, p, "down", s)
    /\ p \in Range(v.jobs[s]) <=> At(v, H, p, "job", s)
    /\ (\E d \in Dirs : p \in Range(v.egress[s][d])) <=> At(v, H, p, "egress", s)
    /\ \A d, e \in Dirs : p \in Range(v.egress[s][d]) /\ p \in Range(v.egress[s][e]) => d = e

Fated(v, H) ==
  \A p \in Packets :
    /\ v.pk[p].fate = "none" <=> v.pk[p].where # "gone"
    /\ p \in H => v.pk[p].fate = "none"
    /\ v.pk[p].where \notin {"ground", "gone"} => v.pk[p].sat \in Sats

Pooled(v) ==
  \A s \in Sats : \A i \in DOMAIN v.jobs[s] : v.pk[v.jobs[s][i]].until # None <=> i =< Servers

\* A packet on its way to a satellite has not been there, and one that no
\* satellite received has been nowhere.
Looped(v, t) ==
  /\ \A s \in Sats, d \in Dirs : \A p \in Range(v.egress[s][d]) :
       /\ t[s][d] \in Sats
       /\ mode = "refresh" => t[s][d] \notin Range(v.pk[p].path)
  /\ \A p \in Packets : v.pk[p].where = "ground" => v.pk[p].path = <<>>
  /\ mode = "refresh" =>
       \A p \in Packets : /\ IsInjective(v.pk[p].path)
                          /\ v.pk[p].where = "flying" => v.pk[p].sat \notin Range(v.pk[p].path)

Awaited(v, p, s) ==
  v.pk[p].armed /\ now < Deadline[p] /\ Deadline[p] < Horizon =>
    v.wake[s] # None /\ v.wake[s] =< Deadline[p]
Woken(v) ==
  \A s \in Sats : /\ v.wake[s] # None => v.wake[s] \in v.wakes[s]
                  /\ \A p \in Range(v.hold[s]) : Awaited(v, p, s)

Good(v, H, t) ==
  /\ Typed(v) /\ Short(v) /\ Single(v) /\ Placed(v, H) /\ Fated(v, H)
  /\ Pooled(v) /\ Looped(v, t) /\ Woken(v)

\* From v to u no fate changes, and nothing of a packet that has one.
Final(v, u) == \A p \in Packets : v.pk[p].fate # "none" => u.pk[p] = v.pk[p]

LEMMA QueuesTyped ==
  ASSUME NEW v, Typed(v), NEW s \in Sats
  PROVE  /\ v.hold[s] \in Seq(Packets) /\ v.down[s] \in Seq(Packets) /\ v.jobs[s] \in Seq(Packets)
         /\ \A d \in Dirs : v.egress[s][d] \in Seq(Packets)
         /\ v.wake[s] \in Nat \cup {None} /\ v.wakes[s] \in SUBSET Nat
BY DEF Typed

-----------------------------------------------------------------------------
(* Putting a packet down, and taking one up.                               *)

\* u is v with p, from the hands of the handler, in the place u.pk[p] names.
PutDown(v, u, p, dir) ==
  /\ \A q \in Packets \ {p} : u.pk[q] = v.pk[q]
  /\ u.wake = v.wake /\ u.wakes = v.wakes
  /\ \A s \in Sats :
       LET here(place) == u.pk[p].where = place /\ u.pk[p].sat = s
       IN  /\ u.hold[s] = IF here("held") THEN Append(v.hold[s], p) ELSE v.hold[s]
           /\ u.down[s] = IF here("down") THEN Append(v.down[s], p) ELSE v.down[s]
           /\ u.jobs[s] = IF here("job") THEN Append(v.jobs[s], p) ELSE v.jobs[s]
           /\ \A d \in Dirs : u.egress[s][d] = IF here("egress") /\ d = dir
                                               THEN Append(v.egress[s][d], p) ELSE v.egress[s][d]

\* The new state of p is allowed where it was put.
Allowed(v, u, p, dir, t) ==
  LET k == u.pk[p]
  IN  /\ k.fate = "none" <=> k.where # "gone"
      /\ k.where # "ground" /\ (k.where # "gone" => k.sat \in Sats)
      /\ k.where = "held" => Len(v.hold[k.sat]) < HoldRoom /\ Awaited(u, p, k.sat)
      /\ k.where = "down" => Len(v.down[k.sat]) < DownRoom
      /\ k.where = "job" => (k.until # None <=> Len(v.jobs[k.sat]) < Servers)
      /\ k.where = "egress" => /\ dir \in Dirs /\ Len(v.egress[k.sat][dir]) < Room
                               /\ t[k.sat][dir] \in Sats
                               /\ mode = "refresh" => t[k.sat][dir] \notin Range(k.path)
      /\ mode = "refresh" => /\ IsInjective(k.path)
                             /\ k.where = "flying" => k.sat \notin Range(k.path)

LEMMA PutGood ==
  ASSUME NEW v, NEW u, NEW H, H \subseteq Packets, NEW t, NEW p \in H, NEW dir,
         Good(v, H, t), Typed(u), PutDown(v, u, p, dir), Allowed(v, u, p, dir, t)
  PROVE  Good(u, H \ {p}, t) /\ Final(v, u)
<1> DEFINE k == u.pk[p]
<1>1. Typed(v) /\ p \in Packets
  BY DEF Good
<1>2. ASSUME NEW s \in Sats
      PROVE  p \notin Range(v.hold[s]) \cup Range(v.down[s]) \cup Range(v.jobs[s])
             /\ \A d \in Dirs : p \notin Range(v.egress[s][d])
  BY <1>1 DEF Good, Placed, At
<1>3. ASSUME NEW s \in Sats
      PROVE  /\ \A x : x \in Range(u.hold[s]) <=>
               \/ x \in Range(v.hold[s])
               \/ x = p /\ k.where = "held" /\ k.sat = s
             /\ \A x : x \in Range(u.down[s]) <=>
               \/ x \in Range(v.down[s])
               \/ x = p /\ k.where = "down" /\ k.sat = s
             /\ \A x : x \in Range(u.jobs[s]) <=>
               \/ x \in Range(v.jobs[s])
               \/ x = p /\ k.where = "job" /\ k.sat = s
             /\ \A d \in Dirs : \A x : x \in Range(u.egress[s][d]) <=>
                    \/ x \in Range(v.egress[s][d])
                    \/ x = p /\ k.where = "egress" /\ k.sat = s /\ d = dir
             /\ IsInjective(u.hold[s]) /\ IsInjective(u.down[s]) /\ IsInjective(u.jobs[s])
             /\ \A d \in Dirs : IsInjective(u.egress[s][d])
             /\ Len(u.hold[s]) =< HoldRoom /\ Len(u.down[s]) =< DownRoom
             /\ \A d \in Dirs : Len(u.egress[s][d]) =< Room
  <2>1. /\ v.hold[s] \in Seq(Packets) /\ v.down[s] \in Seq(Packets) /\ v.jobs[s] \in Seq(Packets)
        /\ \A d \in Dirs : v.egress[s][d] \in Seq(Packets)
    BY <1>1, QueuesTyped
  <2>2. \A q \in Seq(Packets) : Len(q) \in Nat
    BY LenProperties
  <2>3. \A q \in Seq(Packets) :
          /\ Len(Append(q, p)) = Len(q) + 1 /\ Range(Append(q, p)) = Range(q) \cup {p}
          /\ IsInjective(q) /\ p \notin Range(q) => IsInjective(Append(q, p))
    BY <1>1, Appended
  <2>4. Short(v) /\ Single(v)
    BY DEF Good
  <2>5. /\ \A x : x \in Range(u.hold[s]) <=>
               \/ x \in Range(v.hold[s])
               \/ x = p /\ k.where = "held" /\ k.sat = s
        /\ IsInjective(u.hold[s]) /\ Len(u.hold[s]) =< HoldRoom
    <3>1. CASE k.where = "held" /\ k.sat = s
      <4>1. u.hold[s] = Append(v.hold[s], p) /\ Len(v.hold[s]) < HoldRoom
        BY <3>1 DEF PutDown, Allowed
      <4> QED
        BY <1>2, <2>1, <2>2, <2>3, <2>4, <3>1, <4>1, SizesAssumption DEF Single
    <3>2. CASE ~ (k.where = "held" /\ k.sat = s)
      <4>1. u.hold[s] = v.hold[s]
        BY <3>2 DEF PutDown
      <4> QED
        BY <2>4, <3>2, <4>1 DEF Single, Short
    <3> QED
      BY <3>1, <3>2
  <2>6. /\ \A x : x \in Range(u.down[s]) <=>
               \/ x \in Range(v.down[s])
               \/ x = p /\ k.where = "down" /\ k.sat = s
        /\ IsInjective(u.down[s]) /\ Len(u.down[s]) =< DownRoom
    <3>1. CASE k.where = "down" /\ k.sat = s
      <4>1. u.down[s] = Append(v.down[s], p) /\ Len(v.down[s]) < DownRoom
        BY <3>1 DEF PutDown, Allowed
      <4> QED
        BY <1>2, <2>1, <2>2, <2>3, <2>4, <3>1, <4>1, SizesAssumption DEF Single
    <3>2. CASE ~ (k.where = "down" /\ k.sat = s)
      <4>1. u.down[s] = v.down[s]
        BY <3>2 DEF PutDown
      <4> QED
        BY <2>4, <3>2, <4>1 DEF Single, Short
    <3> QED
      BY <3>1, <3>2
  <2>7. /\ \A x : x \in Range(u.jobs[s]) <=>
               \/ x \in Range(v.jobs[s])
               \/ x = p /\ k.where = "job" /\ k.sat = s
        /\ IsInjective(u.jobs[s])
    BY <1>2, <2>1, <2>2, <2>3, <2>4 DEF PutDown, Allowed, Single
  <2>8. ASSUME NEW d \in Dirs
        PROVE  /\ \A x : x \in Range(u.egress[s][d]) <=>
                    \/ x \in Range(v.egress[s][d])
                    \/ x = p /\ k.where = "egress" /\ k.sat = s /\ d = dir
               /\ IsInjective(u.egress[s][d]) /\ Len(u.egress[s][d]) =< Room
    <3>1. CASE k.where = "egress" /\ k.sat = s /\ d = dir
      <4>1. u.egress[s][d] = Append(v.egress[s][d], p) /\ Len(v.egress[s][d]) < Room
        BY <3>1 DEF PutDown, Allowed
      <4> QED
        BY <1>2, <2>1, <2>2, <2>3, <2>4, <3>1, <4>1, SizesAssumption DEF Single
    <3>2. CASE ~ (k.where = "egress" /\ k.sat = s /\ d = dir)
      <4>1. u.egress[s][d] = v.egress[s][d]
        BY <3>2 DEF PutDown
      <4> QED
        BY <2>4, <3>2, <4>1 DEF Single, Short
    <3> QED
      BY <3>1, <3>2
  <2> QED
    BY <2>5, <2>6, <2>7, <2>8
<1>4. Short(u) /\ Single(u)
  BY <1>3 DEF Short, Single
<1>5. \A q \in Packets \ {p} : u.pk[q] = v.pk[q]
  BY DEF PutDown
<1>6. Placed(u, H \ {p})
  <2> SUFFICES ASSUME NEW q \in Packets, NEW s \in Sats
               PROVE  /\ q \in Range(u.hold[s]) <=> At(u, H \ {p}, q, "held", s)
                      /\ q \in Range(u.down[s]) <=> At(u, H \ {p}, q, "down", s)
                      /\ q \in Range(u.jobs[s]) <=> At(u, H \ {p}, q, "job", s)
                      /\ (\E d \in Dirs : q \in Range(u.egress[s][d])) <=> At(u, H \ {p}, q, "egress", s)
                      /\ \A d, e \in Dirs :
                           q \in Range(u.egress[s][d]) /\ q \in Range(u.egress[s][e]) => d = e
    BY DEF Placed
  <2>1. CASE q = p
    <3>1. /\ p \notin H \ {p}
          /\ k.where = "egress" => dir \in Dirs
      BY DEF Allowed
    <3>2. /\ p \in Range(u.hold[s]) <=> k.where = "held" /\ k.sat = s
          /\ p \in Range(u.down[s]) <=> k.where = "down" /\ k.sat = s
          /\ p \in Range(u.jobs[s]) <=> k.where = "job" /\ k.sat = s
          /\ \A d \in Dirs : p \in Range(u.egress[s][d]) <=> k.where = "egress" /\ k.sat = s /\ d = dir
      BY <1>2, <1>3
    <3> HIDE DEF k
    <3> QED
      BY <2>1, <3>1, <3>2 DEF At, k
  <2>2. CASE q # p
    <3>1. Placed(v, H) /\ u.pk[q] = v.pk[q] /\ (q \in H \ {p} <=> q \in H)
      BY <1>5, <2>2 DEF Good
    <3>2. /\ q \in Range(u.hold[s]) <=> q \in Range(v.hold[s])
          /\ q \in Range(u.down[s]) <=> q \in Range(v.down[s])
          /\ q \in Range(u.jobs[s]) <=> q \in Range(v.jobs[s])
          /\ \A d \in Dirs : q \in Range(u.egress[s][d]) <=> q \in Range(v.egress[s][d])
      <4> HIDE DEF k
      <4> QED
        BY <1>3, <2>2
    <3> QED
      BY <3>1, <3>2 DEF Placed, At
  <2> QED
    BY <2>1, <2>2
<1>7. Fated(u, H \ {p}) /\ Final(v, u)
  BY <1>1, <1>5 DEF Good, Fated, Final, Allowed
<1>8. Pooled(u)
  <2> SUFFICES ASSUME NEW s \in Sats, NEW i \in DOMAIN u.jobs[s]
               PROVE  u.pk[u.jobs[s][i]].until # None <=> i =< Servers
    BY DEF Pooled
  <2> DEFINE n == Len(v.jobs[s])
  <2>1. v.jobs[s] \in Seq(Packets) /\ n \in Nat /\ DOMAIN v.jobs[s] = 1 .. n
        /\ u.jobs[s] \in Seq(Packets) /\ DOMAIN u.jobs[s] = 1 .. Len(u.jobs[s])
    BY <1>1, QueuesTyped, LenProperties
  <2>2. Pooled(v)
    BY DEF Good
  <2>3. ASSUME NEW j \in 1 .. n PROVE u.pk[v.jobs[s][j]] = v.pk[v.jobs[s][j]]
    <3>1. v.jobs[s][j] \in Packets \ {p}
      BY <1>2, <2>1 DEF Range
    <3> QED
      BY <1>5, <3>1
  <2>4. CASE k.where = "job" /\ k.sat = s
    <3>1. u.jobs[s] = Append(v.jobs[s], p)
      BY <2>4 DEF PutDown
    <3>2. /\ DOMAIN u.jobs[s] = 1 .. n + 1 /\ u.jobs[s][n + 1] = p
          /\ \A j \in 1 .. n : u.jobs[s][j] = v.jobs[s][j]
      BY <1>1, <2>1, <3>1, Appended, LenProperties
    <3>3. k.until # None <=> n < Servers
      BY <2>4 DEF Allowed
    <3>4. CASE i \in 1 .. n
      <4>1. v.pk[v.jobs[s][i]].until # None <=> i =< Servers
        BY <2>1, <2>2, <3>4 DEF Pooled
      <4> QED
        BY <2>3, <3>2, <3>4, <4>1
    <3>5. CASE i = n + 1
      BY <2>1, <3>2, <3>3, <3>5, SizesAssumption
    <3> QED
      BY <2>1, <3>2, <3>4, <3>5
  <2>5. CASE ~ (k.where = "job" /\ k.sat = s)
    <3>1. u.jobs[s] = v.jobs[s]
      BY <2>5 DEF PutDown
    <3> QED
      BY <2>1, <2>2, <2>3, <3>1 DEF Pooled
  <2> QED
    BY <2>4, <2>5
<1>9. Looped(u, t)
  <2>1. Looped(v, t)
    BY DEF Good
  <2>2. ASSUME NEW s \in Sats, NEW d \in Dirs, NEW q \in Range(u.egress[s][d])
        PROVE  t[s][d] \in Sats /\ (mode = "refresh" => t[s][d] \notin Range(u.pk[q].path))
    <3>1. CASE q = p
      <4>1. k.where = "egress" /\ k.sat = s /\ d = dir
        BY <1>2, <1>3, <3>1
      <4> QED
        BY <3>1, <4>1 DEF Allowed
    <3>2. CASE q # p
      <4>1. q \in Range(v.egress[s][d]) /\ q \in Packets
        <5>1. q \in Range(v.egress[s][d])
          BY <1>3, <3>2
        <5> QED
          BY <1>1, <5>1, QueuesTyped, Members
      <4> QED
        BY <1>5, <2>1, <3>2, <4>1 DEF Looped
    <3> QED
      BY <3>1, <3>2
  <2>3. ASSUME mode = "refresh", NEW q \in Packets
        PROVE  IsInjective(u.pk[q].path) /\ (u.pk[q].where = "flying" => u.pk[q].sat \notin Range(u.pk[q].path))
    BY <1>5, <2>1, <2>3 DEF Looped, Allowed
  <2>4. ASSUME NEW q \in Packets, u.pk[q].where = "ground" PROVE u.pk[q].path = <<>>
    BY <1>5, <2>1, <2>4 DEF Looped, Allowed
  <2> QED
    BY <2>2, <2>3, <2>4 DEF Looped
<1>10. Woken(u)
  <2> SUFFICES ASSUME NEW s \in Sats
               PROVE  /\ u.wake[s] # None => u.wake[s] \in u.wakes[s]
                      /\ \A q \in Range(u.hold[s]) : Awaited(u, q, s)
    BY DEF Woken
  <2>1. Woken(v) /\ u.wake = v.wake /\ u.wakes = v.wakes
    BY DEF Good, PutDown
  <2>2. ASSUME NEW q \in Range(u.hold[s]) PROVE Awaited(u, q, s)
    <3>1. CASE q = p
      <4>1. k.where = "held" /\ k.sat = s
        BY <1>2, <1>3, <3>1
      <4> QED
        BY <3>1, <4>1 DEF Allowed
    <3>2. CASE q # p
      <4>1. q \in Range(v.hold[s])
        BY <1>3, <3>2
      <4>2. q \in Packets
        BY <1>1, <4>1, QueuesTyped, Members
      <4> QED
        BY <1>5, <2>1, <3>2, <4>1, <4>2 DEF Woken, Awaited
    <3> QED
      BY <3>1, <3>2
  <2> QED
    BY <2>1, <2>2 DEF Woken
<1> QED
  BY <1>4, <1>6, <1>7, <1>8, <1>9, <1>10 DEF Good

\* Three parts of Good, for a step that touches neither the pool, nor a wake,
\* nor puts a packet on a link.
LEMMA SamePool ==
  ASSUME NEW v, NEW u, Typed(v), Pooled(v), u.jobs = v.jobs,
         \A s \in Sats : \A q \in Range(v.jobs[s]) : u.pk[q].until = v.pk[q].until
  PROVE  Pooled(u)
<1> SUFFICES ASSUME NEW s \in Sats, NEW i \in DOMAIN v.jobs[s]
             PROVE  u.pk[v.jobs[s][i]].until # None <=> i =< Servers
  BY DEF Pooled
<1>1. v.jobs[s][i] \in Range(v.jobs[s])
  BY DEF Range
<1> QED
  BY <1>1 DEF Pooled

LEMMA SameWakes ==
  ASSUME NEW v, NEW u, Woken(v), u.wake = v.wake, u.wakes = v.wakes,
         \A s \in Sats : \A q \in Range(u.hold[s]) :
           \/ u.pk[q].armed = FALSE
           \/ q \in Range(v.hold[s]) /\ u.pk[q].armed = v.pk[q].armed
  PROVE  Woken(u)
BY DEF Woken, Awaited

LEMMA SameLoops ==
  ASSUME NEW v, NEW u, NEW t, Typed(v), Looped(v, t),
         \A s \in Sats, d \in Dirs : Range(u.egress[s][d]) \subseteq Range(v.egress[s][d]),
         \A q \in Packets : /\ u.pk[q].path = v.pk[q].path
                            /\ u.pk[q].where \in {"ground", "flying"} => u.pk[q] = v.pk[q]
  PROVE  Looped(u, t)
<1>1. ASSUME NEW s \in Sats, NEW d \in Dirs, NEW q \in Range(u.egress[s][d])
      PROVE  t[s][d] \in Sats /\ (mode = "refresh" => t[s][d] \notin Range(u.pk[q].path))
  <2>1. q \in Range(v.egress[s][d])
    OBVIOUS
  <2>2. q \in Packets
    BY <2>1, QueuesTyped, Members
  <2> QED
    BY <2>1, <2>2 DEF Looped
<1> QED
  BY <1>1 DEF Looped

\* A packet in none of the queues may be taken up where it is.
LEMMA TakeUp ==
  ASSUME NEW v, NEW t, Good(v, {}, t), NEW p \in Packets,
         v.pk[p].where \in {"ground", "flying", "asking", "landing"}
  PROVE  Good(v, {p}, t)
<1>1. v.pk[p].fate = "none"
  BY DEF Good, Fated
<1>2. Fated(v, {p})
  BY <1>1 DEF Good, Fated
<1>3. Placed(v, {p})
  BY DEF Good, Placed, At
<1> QED
  BY <1>2, <1>3 DEF Good

LEMMA TakeEgress ==
  ASSUME NEW v, NEW t, Good(v, {}, t), NEW s \in Sats, NEW d \in Dirs, v.egress[s][d] # <<>>
  PROVE  LET p == Head(v.egress[s][d])
             u == [v EXCEPT !.egress[s][d] = Tail(@)]
         IN  /\ p \in Packets /\ Good(u, {p}, t) /\ u.pk = v.pk
             /\ t[s][d] \in Sats /\ (mode = "refresh" => t[s][d] \notin Range(v.pk[p].path))
<1> DEFINE p == Head(v.egress[s][d])
           u == [v EXCEPT !.egress[s][d] = Tail(v.egress[s][d])]
<1>1. Typed(v)
  BY DEF Good
<1>2. /\ u.pk = v.pk /\ u.hold = v.hold /\ u.down = v.down /\ u.jobs = v.jobs
      /\ u.wake = v.wake /\ u.wakes = v.wakes
      /\ u.egress[s][d] = Tail(v.egress[s][d])
      /\ \A r \in Sats, e \in Dirs : r # s \/ e # d => u.egress[r][e] = v.egress[r][e]
  BY <1>1 DEF Typed
<1>3. v.egress[s][d] \in Seq(Packets) /\ IsInjective(v.egress[s][d])
  BY <1>1, QueuesTyped DEF Good, Single
<1>4. /\ Tail(v.egress[s][d]) \in Seq(Packets) /\ Len(Tail(v.egress[s][d])) = Len(v.egress[s][d]) - 1
      /\ p \in Packets /\ p \in Range(v.egress[s][d]) /\ Len(v.egress[s][d]) \in Nat
      /\ IsInjective(Tail(v.egress[s][d])) /\ Range(Tail(v.egress[s][d])) = Range(v.egress[s][d]) \ {p}
  BY <1>3, TakenHead, LenProperties
<1>5. Typed(u)
  BY <1>1, <1>4 DEF Typed
<1> HIDE DEF u, p
<1>6. Short(u) /\ Single(u)
  <2>1. ASSUME NEW r \in Sats, NEW e \in Dirs
        PROVE  Len(u.egress[r][e]) =< Room /\ IsInjective(u.egress[r][e])
    <3>1. Len(v.egress[r][e]) =< Room /\ IsInjective(v.egress[r][e])
      BY DEF Good, Short, Single
    <3>2. CASE r = s /\ e = d
      <4>1. u.egress[r][e] = Tail(v.egress[s][d]) /\ Len(v.egress[s][d]) =< Room
        BY <1>2, <3>1, <3>2
      <4>2. Len(Tail(v.egress[s][d])) =< Room
        BY <1>4, <4>1, SizesAssumption
      <4> QED
        BY <1>4, <4>1, <4>2
    <3>3. CASE r # s \/ e # d
      BY <1>2, <3>1, <3>3
    <3> QED
      BY <3>2, <3>3
  <2> QED
    BY <1>2, <2>1 DEF Good, Short, Single
<1>7. At(v, {}, p, "egress", s) /\ \A r \in Sats, e \in Dirs : p \in Range(v.egress[r][e]) => r = s /\ e = d
  BY <1>4 DEF Good, Placed, At
<1>8. \A q \in Packets, r \in Sats, e \in Dirs :
        q \in Range(u.egress[r][e]) <=> q # p /\ q \in Range(v.egress[r][e])
  <2> SUFFICES ASSUME NEW q \in Packets, NEW r \in Sats, NEW e \in Dirs
               PROVE  q \in Range(u.egress[r][e]) <=> q # p /\ q \in Range(v.egress[r][e])
    OBVIOUS
  <2>1. CASE r = s /\ e = d
    BY <1>2, <1>4, <2>1
  <2>2. CASE r # s \/ e # d
    BY <1>2, <1>7, <2>2
  <2> QED
    BY <2>1, <2>2
<1>9. Placed(u, {p})
  BY <1>2, <1>4, <1>7, <1>8 DEF Good, Placed, At
<1>10. Fated(u, {p})
  BY <1>2, <1>7 DEF Good, Fated, At
<1>11. Pooled(u) /\ Woken(u)
  BY <1>1, <1>2, SamePool, SameWakes DEF Good
<1>12. Looped(u, t)
  <2>1. \A r \in Sats, e \in Dirs : Range(u.egress[r][e]) \subseteq Range(v.egress[r][e])
    <3> SUFFICES ASSUME NEW r \in Sats, NEW e \in Dirs
                 PROVE  Range(u.egress[r][e]) \subseteq Range(v.egress[r][e])
      OBVIOUS
    <3>1. CASE r = s /\ e = d
      BY <1>2, <1>4, <3>1
    <3>2. CASE r # s \/ e # d
      BY <1>2, <3>2
    <3> QED
      BY <3>1, <3>2
  <2> QED
    BY <1>1, <1>2, <2>1, SameLoops DEF Good
<1>13. t[s][d] \in Sats /\ (mode = "refresh" => t[s][d] \notin Range(v.pk[p].path))
  BY <1>4 DEF Good, Looped
<1> QED
  BY <1>2, <1>4, <1>5, <1>6, <1>9, <1>10, <1>11, <1>12, <1>13 DEF Good, u, p

LEMMA TakeDown ==
  ASSUME NEW v, NEW t, Good(v, {}, t), NEW s \in Sats, v.down[s] # <<>>
  PROVE  LET p == Head(v.down[s])
             u == [v EXCEPT !.down[s] = Tail(@)]
         IN  p \in Packets /\ Good(u, {p}, t) /\ u.pk = v.pk
<1> DEFINE p == Head(v.down[s])
           u == [v EXCEPT !.down[s] = Tail(v.down[s])]
<1>1. Typed(v)
  BY DEF Good
<1>2. /\ u.pk = v.pk /\ u.hold = v.hold /\ u.egress = v.egress /\ u.jobs = v.jobs
      /\ u.wake = v.wake /\ u.wakes = v.wakes
      /\ u.down[s] = Tail(v.down[s]) /\ \A r \in Sats \ {s} : u.down[r] = v.down[r]
  BY <1>1 DEF Typed
<1>3. v.down[s] \in Seq(Packets) /\ IsInjective(v.down[s])
  BY <1>1, QueuesTyped DEF Good, Single
<1>4. /\ Tail(v.down[s]) \in Seq(Packets) /\ Len(Tail(v.down[s])) = Len(v.down[s]) - 1
      /\ p \in Packets /\ p \in Range(v.down[s]) /\ Len(v.down[s]) \in Nat
      /\ IsInjective(Tail(v.down[s])) /\ Range(Tail(v.down[s])) = Range(v.down[s]) \ {p}
  BY <1>3, TakenHead, LenProperties
<1>5. Typed(u)
  BY <1>1, <1>4 DEF Typed
<1> HIDE DEF u, p
<1>6. Short(u) /\ Single(u)
  <2>1. ASSUME NEW r \in Sats PROVE Len(u.down[r]) =< DownRoom /\ IsInjective(u.down[r])
    <3>1. Len(v.down[r]) =< DownRoom /\ IsInjective(v.down[r])
      BY DEF Good, Short, Single
    <3>2. CASE r = s
      <4>1. u.down[r] = Tail(v.down[s]) /\ Len(v.down[s]) =< DownRoom
        BY <1>2, <3>1, <3>2
      <4>2. Len(Tail(v.down[s])) =< DownRoom
        BY <1>4, <4>1, SizesAssumption
      <4> QED
        BY <1>4, <4>1, <4>2
    <3>3. CASE r # s
      BY <1>2, <3>1, <3>3
    <3> QED
      BY <3>2, <3>3
  <2> QED
    BY <1>2, <2>1 DEF Good, Short, Single
<1>7. At(v, {}, p, "down", s)
  BY <1>4 DEF Good, Placed
<1>8. \A q \in Packets, r \in Sats : q \in Range(u.down[r]) <=> q # p /\ q \in Range(v.down[r])
  BY <1>2, <1>4, <1>7 DEF Good, Placed, At
<1>9. Placed(u, {p})
  BY <1>2, <1>4, <1>7, <1>8 DEF Good, Placed, At
<1>10. Fated(u, {p})
  BY <1>2, <1>7 DEF Good, Fated, At
<1>11. Pooled(u) /\ Woken(u) /\ Looped(u, t)
  BY <1>1, <1>2, SamePool, SameWakes, SameLoops DEF Good
<1> QED
  BY <1>2, <1>4, <1>5, <1>6, <1>9, <1>10, <1>11 DEF Good, u, p

\* A computation ends: its packet leaves the pool, and the request that moves
\* into the last server starts.
LEMMA ComputedGood ==
  ASSUME NEW v, NEW t, Good(v, {}, t), NEW s \in Sats, NEW p \in Packets, now \in Nat,
         v.pk[p].where = "job", v.pk[p].sat = s, v.pk[p].until # None
  PROVE  LET u == Computed(v, p, s)
         IN  /\ Good(u, {p}, t) /\ Final(v, u)
             /\ u.pk[p] = [v.pk[p] EXCEPT !.until = None]
<1> DEFINE q == v.jobs[s]
           i == CHOOSE j \in DOMAIN q : q[j] = p
           rest == RemoveAt(q, i)
           n == Len(q)
           x == [v EXCEPT !.jobs[s] = rest, !.pk[p].until = None]
           u == Computed(v, p, s)
<1>1. Typed(v) /\ Single(v) /\ Placed(v, {}) /\ Pooled(v)
  BY DEF Good
<1>2. q \in Seq(Packets) /\ n \in Nat /\ DOMAIN q = 1 .. n /\ IsInjective(q)
  BY <1>1, QueuesTyped, LenProperties DEF Single
<1>3. i \in 1 .. n /\ q[i] = p
  <2>1. p \in Range(q)
    BY <1>1 DEF Placed, At
  <2>2. \E j \in DOMAIN q : q[j] = p
    BY <2>1 DEF Range
  <2> QED
    BY <1>2, <2>2
<1>4. /\ rest \in Seq(Packets) /\ Len(rest) = n - 1 /\ DOMAIN rest = 1 .. n - 1
      /\ IsInjective(rest) /\ Range(rest) = Range(q) \ {p}
      /\ \A j \in 1 .. n - 1 : rest[j] = IF j < i THEN q[j] ELSE q[j + 1]
  <2> HIDE DEF q, i, n
  <2>1. i \in 1 .. Len(q) /\ n = Len(q)
    BY <1>3 DEF n
  <2>2. /\ rest \in Seq(Packets) /\ Len(rest) = n - 1
        /\ IsInjective(rest) /\ Range(rest) = Range(q) \ {p}
        /\ \A j \in 1 .. n - 1 : rest[j] = IF j < i THEN q[j] ELSE q[j + 1]
    BY <1>2, <1>3, <2>1, TakenAt
  <2> QED
    BY <2>2, LenProperties
<1>5. u = IF n - 1 >= Servers THEN [x EXCEPT !.pk[rest[Servers]].until = now + ComputeDelay] ELSE x
  BY <1>4 DEF Computed
<1> HIDE DEF q, i, rest, u
<1>6. /\ Typed(x) /\ x.hold = v.hold /\ x.down = v.down /\ x.egress = v.egress
      /\ x.wake = v.wake /\ x.wakes = v.wakes
      /\ x.jobs = [v.jobs EXCEPT ![s] = rest]
      /\ x.pk = [v.pk EXCEPT ![p] = [v.pk[p] EXCEPT !.until = None]]
  <2>1. v.pk[p] \in PacketStates /\ [v.pk[p] EXCEPT !.until = None] \in PacketStates
    BY <1>1 DEF Typed, PacketStates
  <2>2. [v.jobs EXCEPT ![s] = rest] \in [Sats -> Seq(Packets)]
    BY <1>1, <1>4 DEF Typed
  <2>3. [v.pk EXCEPT ![p] = [v.pk[p] EXCEPT !.until = None]] \in [Packets -> PacketStates]
    BY <1>1, <2>1 DEF Typed
  <2>4. x = [v EXCEPT !.jobs = [v.jobs EXCEPT ![s] = rest],
                      !.pk = [v.pk EXCEPT ![p] = [v.pk[p] EXCEPT !.until = None]]]
    OBVIOUS
  <2> HIDE DEF x
  <2> QED
    BY <1>1, <2>2, <2>3, <2>4 DEF Typed
<1> HIDE DEF x
<1>7. n - 1 >= Servers => /\ rest[Servers] \in Packets \ {p} /\ Servers \in 1 .. n - 1
                          /\ rest[Servers] \in Range(rest)
  <2> SUFFICES ASSUME n - 1 >= Servers
               PROVE  rest[Servers] \in Packets \ {p} /\ Servers \in 1 .. n - 1 /\ rest[Servers] \in Range(rest)
    OBVIOUS
  <2>1. Servers \in 1 .. n - 1
    BY <1>2, SizesAssumption
  <2>2. rest[Servers] \in Range(rest)
    BY <1>4, <2>1 DEF Range
  <2> QED
    BY <1>4, <2>1, <2>2, Members
<1>8. /\ Typed(u) /\ u.hold = v.hold /\ u.down = v.down /\ u.egress = v.egress
      /\ u.wake = v.wake /\ u.wakes = v.wakes
      /\ u.jobs[s] = rest /\ \A r \in Sats \ {s} : u.jobs[r] = v.jobs[r]
      /\ u.pk[p] = [v.pk[p] EXCEPT !.until = None]
      /\ \A z \in Packets \ {p} :
           u.pk[z] = IF n - 1 >= Servers /\ z = rest[Servers]
                     THEN [v.pk[z] EXCEPT !.until = now + ComputeDelay] ELSE v.pk[z]
  <2>1. CASE ~ (n - 1 >= Servers)
    BY <1>1, <1>5, <1>6, <2>1 DEF Typed
  <2>2. CASE n - 1 >= Servers
    <3>1. now + ComputeDelay \in Nat
      BY SizesAssumption
    <3>2. u.pk = [x.pk EXCEPT ![rest[Servers]] = [x.pk[rest[Servers]] EXCEPT !.until = now + ComputeDelay]]
          /\ u.hold = x.hold /\ u.down = x.down /\ u.egress = x.egress
          /\ u.wake = x.wake /\ u.wakes = x.wakes /\ u.jobs = x.jobs /\ Typed(u)
      <4> DEFINE z == rest[Servers]
                 k == [x.pk[z] EXCEPT !.until = now + ComputeDelay]
      <4>1. z \in Packets /\ x.pk[z] \in PacketStates
        BY <1>6, <1>7, <2>2 DEF Typed
      <4>2. k \in PacketStates
        BY <3>1, <4>1 DEF PacketStates
      <4>3. u = [x EXCEPT !.pk = [x.pk EXCEPT ![z] = k]]
        BY <1>5, <2>2
      <4> HIDE DEF k, z
      <4>4. [x.pk EXCEPT ![z] = k] \in [Packets -> PacketStates]
        BY <1>6, <4>1, <4>2 DEF Typed
      <4>5. u.pk = [x.pk EXCEPT ![z] = k]
            /\ u.hold = x.hold /\ u.down = x.down /\ u.egress = x.egress
            /\ u.wake = x.wake /\ u.wakes = x.wakes /\ u.jobs = x.jobs /\ Typed(u)
        BY <1>6, <4>3, <4>4 DEF Typed
      <4> QED
        BY <4>5 DEF k, z
    <3>3. /\ x.pk[p] = [v.pk[p] EXCEPT !.until = None]
          /\ \A z \in Packets \ {p} : x.pk[z] = v.pk[z]
      BY <1>1, <1>6 DEF Typed
    <3>4. /\ \A z \in Packets : z # rest[Servers] => u.pk[z] = x.pk[z]
          /\ u.pk[rest[Servers]] = [x.pk[rest[Servers]] EXCEPT !.until = now + ComputeDelay]
      BY <1>6, <1>7, <2>2, <3>2 DEF Typed
    <3>5. u.jobs[s] = rest /\ \A r \in Sats \ {s} : u.jobs[r] = v.jobs[r]
      BY <1>1, <1>6, <3>2 DEF Typed
    <3> QED
      BY <1>6, <1>7, <2>2, <3>2, <3>3, <3>4, <3>5
  <2> QED
    BY <2>1, <2>2
<1>9. \A z \in Packets : /\ u.pk[z].where = v.pk[z].where /\ u.pk[z].sat = v.pk[z].sat
                         /\ u.pk[z].path = v.pk[z].path /\ u.pk[z].fate = v.pk[z].fate
                         /\ u.pk[z].armed = v.pk[z].armed
                         /\ v.pk[z].where # "job" => u.pk[z] = v.pk[z]
  <2> SUFFICES ASSUME NEW z \in Packets
               PROVE  /\ u.pk[z].where = v.pk[z].where /\ u.pk[z].sat = v.pk[z].sat
                      /\ u.pk[z].path = v.pk[z].path /\ u.pk[z].fate = v.pk[z].fate
                      /\ u.pk[z].armed = v.pk[z].armed
                      /\ v.pk[z].where # "job" => u.pk[z] = v.pk[z]
    OBVIOUS
  <2>0. v.pk[z] \in PacketStates
    BY <1>1 DEF Typed
  <2>1. CASE z = p
    BY <1>8, <2>0, <2>1 DEF PacketStates
  <2>2. CASE z # p /\ n - 1 >= Servers /\ z = rest[Servers]
    <3>1. v.pk[z].where = "job"
      BY <1>1, <1>4, <1>7, <2>2 DEF Placed, At, q
    <3> QED
      BY <1>8, <2>0, <2>2, <3>1 DEF PacketStates
  <2>3. CASE z # p /\ ~ (n - 1 >= Servers /\ z = rest[Servers])
    BY <1>8, <2>3
  <2> QED
    BY <2>1, <2>2, <2>3
<1>10. Short(u) /\ Single(u)
  BY <1>4, <1>8 DEF Good, Short, Single
<1>11. Placed(u, {p})
  <2>1. \A z \in Packets, r \in Sats : z \in Range(u.jobs[r]) <=> z # p /\ z \in Range(v.jobs[r])
    BY <1>1, <1>4, <1>8 DEF Placed, At, q
  <2> QED
    BY <1>1, <1>8, <1>9, <2>1 DEF Placed, At
<1>12. Fated(u, {p}) /\ Final(v, u)
  BY <1>9 DEF Good, Fated, Final
<1>13. Pooled(u)
  <2>1. ASSUME NEW j \in 1 .. n - 1
        PROVE  u.pk[rest[j]].until # None <=> j =< Servers
    <3>1. /\ rest[j] = IF j < i THEN q[j] ELSE q[j + 1]
          /\ rest[j] \in Packets \ {p}
      BY <1>2, <1>4, Members
    <3>2. i =< Servers
      BY <1>1, <1>2, <1>3 DEF Pooled, q
    <3>3. \A k \in 1 .. n : v.pk[q[k]].until # None <=> k =< Servers
      BY <1>1, <1>2 DEF Pooled, q
    <3>4. CASE n - 1 >= Servers /\ j = Servers
      <4>1. u.pk[rest[j]].until = now + ComputeDelay
        <5>1. v.pk[rest[j]] \in PacketStates
          BY <1>1, <3>1 DEF Typed
        <5> QED
          BY <1>8, <3>1, <3>4, <5>1 DEF PacketStates
      <4> QED
        BY <3>4, <4>1, SizesAssumption, NoneAssumption
    <3>5. CASE j # Servers
      <4>1. rest[j] # rest[Servers] \/ ~ (n - 1 >= Servers)
        BY <1>4, <1>7, <3>5 DEF IsInjective
      <4>2. u.pk[rest[j]] = v.pk[rest[j]]
        BY <1>8, <3>1, <4>1
      <4>3. CASE j < i
        BY <1>2, <1>3, <3>1, <3>2, <3>3, <4>2, <4>3, SizesAssumption
      <4>4. CASE ~ (j < i)
        <5>1. j + 1 \in 1 .. n /\ rest[j] = q[j + 1]
          BY <1>2, <3>1, <4>4
        <5>2. v.pk[rest[j]].until # None <=> j + 1 =< Servers
          BY <3>3, <5>1
        <5>3. j \in Int /\ Servers \in Int
          BY <1>2, SizesAssumption
        <5> QED
          BY <3>5, <4>2, <5>2, <5>3
      <4> QED
        BY <4>3, <4>4
    <3> QED
      BY <1>2, <3>4, <3>5, SizesAssumption
  <2>2. ASSUME NEW r \in Sats \ {s}, NEW j \in DOMAIN v.jobs[r]
        PROVE  u.pk[v.jobs[r][j]].until # None <=> j =< Servers
    <3>1. v.jobs[r][j] \in Range(v.jobs[r]) /\ v.jobs[r][j] \in Packets
      <4>1. v.jobs[r][j] \in Range(v.jobs[r])
        BY DEF Range
      <4> QED
        BY <1>1, <4>1, QueuesTyped, Members
    <3>2. v.pk[v.jobs[r][j]].sat = r
      BY <1>1, <3>1 DEF Placed, At
    <3>3. v.jobs[r][j] # p /\ (n - 1 >= Servers => v.jobs[r][j] # rest[Servers])
      <4>1. n - 1 >= Servers => v.pk[rest[Servers]].sat = s
        BY <1>1, <1>4, <1>7 DEF Placed, At, q
      <4> QED
        BY <3>2, <4>1
    <3>4. u.pk[v.jobs[r][j]] = v.pk[v.jobs[r][j]]
      BY <1>8, <3>1, <3>3
    <3> QED
      BY <1>1, <3>4 DEF Pooled
  <2> QED
    BY <1>4, <1>8, <2>1, <2>2 DEF Pooled
<1>14. Looped(u, t)
  BY <1>1, <1>8, <1>9, SameLoops DEF Good
<1>15. Woken(u)
  <2>1. ASSUME NEW r \in Sats, NEW z \in Range(u.hold[r])
        PROVE  \/ u.pk[z].armed = FALSE
               \/ z \in Range(v.hold[r]) /\ u.pk[z].armed = v.pk[z].armed
    <3>1. z \in Range(v.hold[r]) /\ v.hold[r] \in Seq(Packets)
      BY <1>1, <1>8, QueuesTyped
    <3>2. z \in Packets
      BY <3>1, Members
    <3> QED
      BY <1>9, <3>1, <3>2
  <2> QED
    <3>1. Woken(v) /\ u.wake = v.wake /\ u.wakes = v.wakes
      BY <1>8 DEF Good
    <3> QED
      BY <2>1, <3>1, SameWakes
<1> QED
  BY <1>8, <1>10, <1>11, <1>12, <1>13, <1>14, <1>15 DEF Good, u

-----------------------------------------------------------------------------
(* Moving whole queues.                                                    *)

\* What a bulk operation makes of the state of one packet.
AsHeld(k) == [k EXCEPT !.where = "held", !.armed = FALSE]
AsAsking(k) == [k EXCEPT !.where = "asking"]
AsGone(k, f) == [k EXCEPT !.where = "gone", !.fate = f]

LEMMA StateUpdates ==
  ASSUME NEW k \in PacketStates
  PROVE  /\ AsHeld(k) \in PacketStates /\ AsHeld(k).where = "held" /\ AsHeld(k).armed = FALSE
         /\ AsHeld(k).sat = k.sat /\ AsHeld(k).path = k.path /\ AsHeld(k).fate = k.fate
         /\ AsAsking(k) \in PacketStates /\ AsAsking(k).where = "asking"
         /\ AsAsking(k).sat = k.sat /\ AsAsking(k).path = k.path /\ AsAsking(k).fate = k.fate
         /\ \A f \in Fates : /\ AsGone(k, f) \in PacketStates
                            /\ AsGone(k, f).where = "gone" /\ AsGone(k, f).fate = f
                            /\ AsGone(k, f).sat = k.sat /\ AsGone(k, f).path = k.path
<1>1. /\ AsHeld(k) \in PacketStates /\ AsHeld(k).where = "held" /\ AsHeld(k).armed = FALSE
      /\ AsHeld(k).sat = k.sat /\ AsHeld(k).path = k.path /\ AsHeld(k).fate = k.fate
  BY DEF PacketStates, AsHeld, Places
<1>2. /\ AsAsking(k) \in PacketStates /\ AsAsking(k).where = "asking"
      /\ AsAsking(k).sat = k.sat /\ AsAsking(k).path = k.path /\ AsAsking(k).fate = k.fate
  BY DEF PacketStates, AsAsking, Places
<1>3. ASSUME NEW f \in Fates
      PROVE  /\ AsGone(k, f) \in PacketStates
             /\ AsGone(k, f).where = "gone" /\ AsGone(k, f).fate = f
             /\ AsGone(k, f).sat = k.sat /\ AsGone(k, f).path = k.path
  BY DEF PacketStates, AsGone, Places
<1> QED
  BY <1>1, <1>2, <1>3

LEMMA DownDrained ==
  ASSUME NEW v, NEW t, Good(v, {}, t), NEW s \in Sats
  PROVE  LET u == [v EXCEPT !.down[s] = <<>>]
         IN  Good(u, Range(v.down[s]), t) /\ u.pk = v.pk
<1> DEFINE u == [v EXCEPT !.down[s] = <<>>]
           H == Range(v.down[s])
<1>1. Typed(v) /\ <<>> \in Seq(Packets) /\ Len(<<>>) = 0 /\ Range(<<>>) = {} /\ IsInjective(<<>>)
  BY EmptyQueue DEF Good
<1>2. /\ Typed(u) /\ u.pk = v.pk /\ u.hold = v.hold /\ u.egress = v.egress /\ u.jobs = v.jobs
      /\ u.wake = v.wake /\ u.wakes = v.wakes
      /\ u.down[s] = <<>> /\ \A r \in Sats \ {s} : u.down[r] = v.down[r]
  BY <1>1 DEF Typed
<1> HIDE DEF u
<1>3. ASSUME NEW r \in Sats
      PROVE  /\ Len(u.down[r]) =< DownRoom /\ IsInjective(u.down[r])
             /\ \A p : p \in Range(u.down[r]) <=> r # s /\ p \in Range(v.down[r])
  <2>1. CASE r = s
    BY <1>1, <1>2, <2>1, SizesAssumption
  <2>2. CASE r # s
    BY <1>2, <2>2 DEF Good, Short, Single
  <2> QED
    BY <2>1, <2>2
<1>4. Short(u) /\ Single(u)
  BY <1>2, <1>3 DEF Good, Short, Single
<1>5. Placed(v, {}) /\ Fated(v, {})
  BY DEF Good
<1>6. \A p \in Packets : p \in H <=> At(v, {}, p, "down", s)
  BY <1>5 DEF Placed
<1>7. Placed(u, H)
  BY <1>2, <1>3, <1>5, <1>6 DEF Placed, At
<1>8. Fated(u, H)
  BY <1>2, <1>5, <1>6 DEF Fated, At
<1>9. Pooled(u) /\ Woken(u) /\ Looped(u, t)
  BY <1>1, <1>2, SamePool, SameWakes, SameLoops DEF Good
<1> QED
  BY <1>2, <1>4, <1>7, <1>8, <1>9 DEF Good, u

\* The queues of the links that t replaces are emptied.
Emptied(t) ==
  [w EXCEPT !.egress = [s \in Sats |-> [d \in Dirs |->
     IF d \in Replaced(t, s) THEN <<>> ELSE w.egress[s][d]]]]
Removed(t) == UNION {UNION {Range(w.egress[s][d]) : d \in Replaced(t, s)} : s \in Sats}

LEMMA EmptiedGood ==
  ASSUME NEW t, Good(w, {}, topo)
  PROVE  /\ Good(Emptied(t), Removed(t), t) /\ Emptied(t).pk = w.pk
         /\ \A p \in Removed(t) : p \in Packets /\ w.pk[p].where = "egress"
<1> DEFINE u == Emptied(t)
           H == Removed(t)
<1>1. Typed(w) /\ <<>> \in Seq(Packets) /\ Len(<<>>) = 0 /\ Range(<<>>) = {} /\ IsInjective(<<>>)
  BY EmptyQueue DEF Good
<1>2. /\ Typed(u) /\ u.pk = w.pk /\ u.hold = w.hold /\ u.down = w.down /\ u.jobs = w.jobs
      /\ u.wake = w.wake /\ u.wakes = w.wakes
      /\ \A s \in Sats, d \in Dirs : u.egress[s][d] = IF d \in Replaced(t, s) THEN <<>> ELSE w.egress[s][d]
  <2> DEFINE e == [s \in Sats |-> [d \in Dirs |-> IF d \in Replaced(t, s) THEN <<>> ELSE w.egress[s][d]]]
  <2>1. /\ e \in [Sats -> [Dirs -> Seq(Packets)]]
        /\ \A s \in Sats, d \in Dirs : e[s][d] = IF d \in Replaced(t, s) THEN <<>> ELSE w.egress[s][d]
    BY <1>1 DEF Typed
  <2>2. u = [w EXCEPT !.egress = e]
    BY DEF Emptied
  <2> HIDE DEF e, u
  <2> QED
    BY <1>1, <2>1, <2>2 DEF Typed
<1> HIDE DEF u
<1>3. ASSUME NEW s \in Sats, NEW d \in Dirs
      PROVE  /\ Len(u.egress[s][d]) =< Room /\ IsInjective(u.egress[s][d])
             /\ \A p : p \in Range(u.egress[s][d]) <=> d \notin Replaced(t, s) /\ p \in Range(w.egress[s][d])
  <2>1. CASE d \in Replaced(t, s)
    BY <1>1, <1>2, <2>1, SizesAssumption
  <2>2. CASE d \notin Replaced(t, s)
    BY <1>2, <2>2 DEF Good, Short, Single
  <2> QED
    BY <2>1, <2>2
<1>4. Short(u) /\ Single(u)
  BY <1>2, <1>3 DEF Good, Short, Single
<1>5. Placed(w, {}) /\ Fated(w, {})
  BY DEF Good
<1>6. \A p : p \in H <=> \E s \in Sats : \E d \in Replaced(t, s) : p \in Range(w.egress[s][d])
  BY DEF Removed
<1>7. \A s \in Sats : Replaced(t, s) \subseteq Dirs
  BY DEF Replaced
<1>8. \A s \in Sats, d \in Dirs : \A p \in Range(w.egress[s][d]) : p \in Packets /\ At(w, {}, p, "egress", s)
  <2> SUFFICES ASSUME NEW s \in Sats, NEW d \in Dirs, NEW p \in Range(w.egress[s][d])
               PROVE  p \in Packets /\ At(w, {}, p, "egress", s)
    OBVIOUS
  <2>1. p \in Packets
    BY <1>1, QueuesTyped, Members
  <2> QED
    BY <1>5, <2>1 DEF Placed
<1>9. \A p \in H : p \in Packets /\ w.pk[p].where = "egress"
  BY <1>6, <1>7, <1>8 DEF At
<1>10. Fated(u, H)
  BY <1>2, <1>5, <1>9 DEF Fated
<1>11. ASSUME NEW p \in Packets, NEW s \in Sats
       PROVE  (\E d \in Dirs : p \in Range(u.egress[s][d])) <=> At(u, H, p, "egress", s)
  <2>1. ASSUME NEW d \in Dirs, p \in Range(u.egress[s][d]) PROVE At(u, H, p, "egress", s)
    <3>1. d \notin Replaced(t, s) /\ p \in Range(w.egress[s][d]) /\ At(w, {}, p, "egress", s)
      BY <1>3, <1>8, <2>1
    <3>2. p \notin H
      <4>1. SUFFICES ASSUME NEW r \in Sats, NEW e \in Replaced(t, r), p \in Range(w.egress[r][e])
                     PROVE  FALSE
        BY <1>6
      <4>2. e \in Dirs /\ At(w, {}, p, "egress", r)
        BY <1>7, <1>8, <4>1
      <4>3. r = s
        BY <3>1, <4>2 DEF At
      <4>4. d = e
        BY <1>5, <3>1, <4>1, <4>2, <4>3 DEF Placed
      <4> QED
        BY <3>1, <4>3, <4>4
    <3> QED
      BY <1>2, <3>1, <3>2 DEF At
  <2>2. ASSUME At(u, H, p, "egress", s) PROVE \E d \in Dirs : p \in Range(u.egress[s][d])
    <3>1. At(w, {}, p, "egress", s) /\ p \notin H
      BY <1>2, <2>2 DEF At
    <3>2. PICK d \in Dirs : p \in Range(w.egress[s][d])
      BY <1>5, <3>1 DEF Placed
    <3>3. d \notin Replaced(t, s)
      BY <1>6, <3>1, <3>2
    <3> QED
      BY <1>3, <3>2, <3>3
  <2> QED
    BY <2>1, <2>2
<1>12. Placed(u, H)
  <2> SUFFICES ASSUME NEW p \in Packets, NEW s \in Sats
               PROVE  /\ p \in Range(u.hold[s]) <=> At(u, H, p, "held", s)
                      /\ p \in Range(u.down[s]) <=> At(u, H, p, "down", s)
                      /\ p \in Range(u.jobs[s]) <=> At(u, H, p, "job", s)
                      /\ \A d, e \in Dirs : p \in Range(u.egress[s][d]) /\ p \in Range(u.egress[s][e]) => d = e
    BY <1>11 DEF Placed
  <2>1. p \in H => w.pk[p].where = "egress"
    BY <1>9
  <2>2. \A d, e \in Dirs : p \in Range(u.egress[s][d]) /\ p \in Range(u.egress[s][e]) => d = e
    BY <1>3, <1>5 DEF Placed
  <2> QED
    BY <1>2, <1>5, <2>1, <2>2 DEF Placed, At
<1>13. Pooled(u) /\ Woken(u)
  BY <1>1, <1>2, SamePool, SameWakes DEF Good
<1>14. Looped(u, t)
  <2>1. ASSUME NEW s \in Sats, NEW d \in Dirs, NEW p \in Range(u.egress[s][d])
        PROVE  t[s][d] \in Sats /\ (mode = "refresh" => t[s][d] \notin Range(u.pk[p].path))
    <3>1. t[s][d] = topo[s][d] /\ p \in Range(w.egress[s][d])
      BY <1>3 DEF Replaced
    <3> QED
      BY <1>2, <3>1 DEF Good, Looped
  <2> QED
    BY <1>2, <2>1 DEF Good, Looped
<1> QED
  BY <1>2, <1>4, <1>9, <1>10, <1>12, <1>13, <1>14 DEF Good, u

LEMMA FittingFacts ==
  ASSUME NEW v, NEW s \in Sats, Typed(v), Short(v), NEW q \in Seq(Packets), IsInjective(q)
  PROVE  /\ Fitting(v, s, q) \in Seq(Packets) /\ IsInjective(Fitting(v, s, q))
         /\ Range(Fitting(v, s, q)) \subseteq Range(q)
         /\ Len(v.hold[s]) + Len(Fitting(v, s, q)) =< HoldRoom
<1> DEFINE room == HoldRoom - Len(v.hold[s])
           k == IF Len(q) =< room THEN Len(q) ELSE room
<1>1. Len(v.hold[s]) \in Nat /\ Len(v.hold[s]) =< HoldRoom /\ Len(q) \in Nat
  BY QueuesTyped, LenProperties DEF Short
<1> HIDE DEF room
<1>2. room \in Nat /\ Len(v.hold[s]) + room = HoldRoom
  BY <1>1, SizesAssumption DEF room
<1>3. k \in 0 .. Len(q) /\ Len(v.hold[s]) + k =< HoldRoom
  <2>1. CASE Len(q) =< room
    BY <1>1, <1>2, <2>1, SizesAssumption
  <2>2. CASE ~ (Len(q) =< room)
    BY <1>1, <1>2, <2>2, SizesAssumption
  <2> QED
    BY <2>1, <2>2
<1>4. Fitting(v, s, q) = SubSeq(q, 1, k)
  BY DEF Fitting, room
<1> HIDE DEF k
<1> QED
  BY <1>3, <1>4, Prefix

LEMMA HeldAllGood ==
  ASSUME NEW v, NEW t, NEW H, Good(v, H, t), H \subseteq Packets,
         \A p \in H : v.pk[p].where \in {"egress", "down"},
         NEW qs \in [Sats -> Seq(Packets)],
         \A s \in Sats : /\ IsInjective(qs[s])
                         /\ \A p \in Packets : p \in Range(qs[s]) <=> p \in H /\ v.pk[p].sat = s
  PROVE  Good(HeldAll(v, qs), {}, t) /\ Final(v, HeldAll(v, qs))
<1> DEFINE u == HeldAll(v, qs)
           kept(s) == Fitting(v, s, qs[s])
           held(p) == \E s \in Sats : p \in Range(kept(s))
<1>1. Typed(v) /\ Short(v) /\ Single(v) /\ Placed(v, H) /\ Fated(v, H)
  BY DEF Good
<1>2. ASSUME NEW s \in Sats
      PROVE  /\ kept(s) \in Seq(Packets) /\ IsInjective(kept(s))
             /\ Range(kept(s)) \subseteq Range(qs[s])
             /\ Len(v.hold[s]) + Len(kept(s)) =< HoldRoom
  BY <1>1, FittingFacts
<1>3. \A p \in Packets : (\A s \in Sats : p \notin Range(qs[s])) <=> p \notin H
  BY <1>1 DEF Fated
<1>4. \A p \in Packets :
        u.pk[p] = IF p \notin H THEN v.pk[p]
                  ELSE IF held(p) THEN AsHeld(v.pk[p])
                  ELSE AsGone(v.pk[p], "HOLDING_QUEUE_OVERFLOW")
  BY <1>1, <1>3 DEF HeldAll, Typed, AsHeld, AsGone
<1>5. /\ u.down = v.down /\ u.egress = v.egress /\ u.jobs = v.jobs
      /\ u.wake = v.wake /\ u.wakes = v.wakes
      /\ \A s \in Sats : u.hold[s] = v.hold[s] \o kept(s)
  BY <1>1 DEF HeldAll, Typed
<1>6. ASSUME NEW s \in Sats
      PROVE  /\ u.hold[s] \in Seq(Packets) /\ Len(u.hold[s]) =< HoldRoom /\ IsInjective(u.hold[s])
             /\ Range(u.hold[s]) = Range(v.hold[s]) \cup Range(kept(s))
  <2>1. v.hold[s] \in Seq(Packets) /\ IsInjective(v.hold[s])
    BY <1>1, QueuesTyped DEF Single
  <2>2. Range(v.hold[s]) \cap Range(kept(s)) = {}
    <3>1. \A p \in Range(kept(s)) : p \in Packets /\ p \in H
      BY <1>2, Members
    <3>2. \A p \in Range(v.hold[s]) : p \in Packets => p \notin H
      BY <1>1 DEF Placed, At
    <3> QED
      BY <3>1, <3>2
  <2>3. u.hold[s] = v.hold[s] \o kept(s)
    BY <1>5
  <2> HIDE DEF kept, u
  <2> QED
    BY <1>2, <2>1, <2>2, <2>3, Joined
<1>7. Typed(u)
  <2>1. ASSUME NEW p \in Packets PROVE u.pk[p] \in PacketStates
    <3>1. v.pk[p] \in PacketStates
      BY <1>1 DEF Typed
    <3> QED
      <4>1. AsHeld(v.pk[p]) \in PacketStates /\ AsGone(v.pk[p], "HOLDING_QUEUE_OVERFLOW") \in PacketStates
        BY <3>1, StateUpdates DEF Fates
      <4>2. u.pk[p] \in {v.pk[p], AsHeld(v.pk[p]), AsGone(v.pk[p], "HOLDING_QUEUE_OVERFLOW")}
        BY <1>4
      <4> QED
        BY <3>1, <4>1, <4>2
  <2>2. [s \in Sats |-> v.hold[s] \o kept(s)] \in [Sats -> Seq(Packets)]
    BY <1>5, <1>6
  <2>3. u.pk \in [Packets -> PacketStates] /\ u.hold \in [Sats -> Seq(Packets)]
    <3>1. u.hold = [s \in Sats |-> v.hold[s] \o kept(s)]
      BY <1>1 DEF HeldAll, Typed
    <3>2. u.pk = [p \in Packets |-> u.pk[p]]
      BY <1>1 DEF HeldAll, Typed
    <3> QED
      BY <2>1, <2>2, <3>1, <3>2
  <2>4. u = [v EXCEPT !.hold = u.hold, !.pk = u.pk]
    BY <1>1 DEF HeldAll, Typed
  <2> HIDE DEF u
  <2> QED
    BY <1>1, <2>3, <2>4 DEF Typed
<1> HIDE DEF u, kept
<1>8. \A p \in Packets : p \notin H => u.pk[p] = v.pk[p]
  BY <1>4
<1>9. \A p \in Packets : p \in H =>
        /\ u.pk[p].sat = v.pk[p].sat /\ v.pk[p].sat \in Sats /\ u.pk[p].path = v.pk[p].path
        /\ v.pk[p].fate = "none"
        /\ held(p) => u.pk[p].where = "held" /\ u.pk[p].armed = FALSE /\ u.pk[p].fate = "none"
        /\ ~ held(p) => u.pk[p].where = "gone" /\ u.pk[p].fate = "HOLDING_QUEUE_OVERFLOW"
  <2> SUFFICES ASSUME NEW p \in Packets, p \in H
               PROVE  /\ u.pk[p].sat = v.pk[p].sat /\ v.pk[p].sat \in Sats /\ u.pk[p].path = v.pk[p].path
                      /\ v.pk[p].fate = "none"
                      /\ held(p) => u.pk[p].where = "held" /\ u.pk[p].armed = FALSE /\ u.pk[p].fate = "none"
                      /\ ~ held(p) => u.pk[p].where = "gone" /\ u.pk[p].fate = "HOLDING_QUEUE_OVERFLOW"
    OBVIOUS
  <2>1. v.pk[p] \in PacketStates /\ v.pk[p].fate = "none" /\ v.pk[p].sat \in Sats
    BY <1>1 DEF Typed, Fated
  <2> DEFINE k == v.pk[p]
  <2>2. /\ AsHeld(k).where = "held" /\ AsHeld(k).armed = FALSE
        /\ AsHeld(k).sat = k.sat /\ AsHeld(k).path = k.path /\ AsHeld(k).fate = k.fate
    BY <2>1, StateUpdates
  <2>3. LET z == AsGone(k, "HOLDING_QUEUE_OVERFLOW")
        IN  z.where = "gone" /\ z.fate = "HOLDING_QUEUE_OVERFLOW" /\ z.sat = k.sat /\ z.path = k.path
    BY <2>1, StateUpdates DEF Fates
  <2>4. u.pk[p] = IF held(p) THEN AsHeld(k) ELSE AsGone(k, "HOLDING_QUEUE_OVERFLOW")
    BY <1>4
  <2> HIDE DEF held
  <2>5. CASE held(p)
    BY <2>1, <2>2, <2>4, <2>5
  <2>6. CASE ~ held(p)
    BY <2>1, <2>3, <2>4, <2>6
  <2> QED
    BY <2>5, <2>6
<1>10. Short(u) /\ Single(u)
  BY <1>1, <1>5, <1>6 DEF Short, Single
<1>11. Fated(u, {}) /\ Final(v, u)
  BY <1>1, <1>8, <1>9 DEF Fated, Final
<1>12. Placed(u, {})
  <2> SUFFICES ASSUME NEW p \in Packets, NEW s \in Sats
               PROVE  /\ p \in Range(u.hold[s]) <=> At(u, {}, p, "held", s)
                      /\ p \in Range(u.down[s]) <=> At(u, {}, p, "down", s)
                      /\ p \in Range(u.jobs[s]) <=> At(u, {}, p, "job", s)
                      /\ (\E d \in Dirs : p \in Range(u.egress[s][d])) <=> At(u, {}, p, "egress", s)
                      /\ \A d, e \in Dirs : p \in Range(u.egress[s][d]) /\ p \in Range(u.egress[s][e]) => d = e
    BY DEF Placed
  <2>1. p \in Range(kept(s)) <=> p \in H /\ held(p) /\ v.pk[p].sat = s
    BY <1>2
  <2>2. CASE p \in H
    BY <1>1, <1>5, <1>6, <1>9, <2>1, <2>2 DEF Placed, At
  <2>3. CASE p \notin H
    BY <1>1, <1>5, <1>6, <1>8, <2>1, <2>3 DEF Placed, At
  <2> QED
    BY <2>2, <2>3
<1>13. Pooled(u)
  <2>1. \A s \in Sats : \A q \in Range(v.jobs[s]) : u.pk[q].until = v.pk[q].until
    <3> SUFFICES ASSUME NEW s \in Sats, NEW q \in Range(v.jobs[s]) PROVE u.pk[q].until = v.pk[q].until
      OBVIOUS
    <3>1. q \in Packets
      BY <1>1, QueuesTyped, Members
    <3>2. q \notin H
      BY <1>1, <3>1 DEF Placed, At
    <3> QED
      BY <1>8, <3>1, <3>2
  <2> QED
    BY <1>1, <1>5, <2>1, SamePool DEF Good
<1>14. Woken(u)
  <2>1. \A s \in Sats : \A q \in Range(u.hold[s]) :
          \/ u.pk[q].armed = FALSE
          \/ q \in Range(v.hold[s]) /\ u.pk[q].armed = v.pk[q].armed
    <3> SUFFICES ASSUME NEW s \in Sats, NEW q \in Range(u.hold[s])
                 PROVE  \/ u.pk[q].armed = FALSE
                        \/ q \in Range(v.hold[s]) /\ u.pk[q].armed = v.pk[q].armed
      OBVIOUS
    <3>1. q \in Packets
      BY <1>7, QueuesTyped, Members
    <3>2. CASE q \in Range(kept(s))
      BY <1>2, <1>9, <3>1, <3>2
    <3>3. CASE q \in Range(v.hold[s])
      <4>1. q \notin H
        BY <1>1, <3>1, <3>3 DEF Placed, At
      <4> QED
        BY <1>8, <3>1, <3>3, <4>1
    <3>4. q \in Range(v.hold[s]) \/ q \in Range(kept(s))
      BY <1>6
    <3> QED
      BY <3>2, <3>3, <3>4
  <2> QED
    BY <1>5, <2>1, SameWakes DEF Good
<1>15. Looped(u, t)
  <2>1. \A q \in Packets : u.pk[q].path = v.pk[q].path /\ (u.pk[q].where \in {"ground", "flying"} => u.pk[q] = v.pk[q])
    BY <1>8, <1>9
  <2> QED
    BY <1>1, <1>5, <2>1, SameLoops DEF Good
<1> QED
  BY <1>7, <1>10, <1>11, <1>12, <1>13, <1>14, <1>15 DEF Good, u

LEMMA RedecidedGood ==
  ASSUME NEW v, NEW t, Good(v, {}, t), NEW s \in Sats
  PROVE  Good(Redecided(v, s), {}, t) /\ Final(v, Redecided(v, s))
<1> DEFINE u == Redecided(v, s)
           S == Range(v.hold[s])
<1>1. Typed(v) /\ <<>> \in Seq(Packets) /\ Len(<<>>) = 0 /\ Range(<<>>) = {} /\ IsInjective(<<>>)
      /\ Placed(v, {}) /\ Fated(v, {}) /\ Short(v) /\ Single(v)
  BY EmptyQueue DEF Good
<1>2. /\ u.down = v.down /\ u.egress = v.egress /\ u.jobs = v.jobs
      /\ u.wake = v.wake /\ u.wakes = v.wakes
      /\ u.hold = [v.hold EXCEPT ![s] = <<>>]
      /\ u.pk = [p \in Packets |-> IF p \in S THEN AsAsking(v.pk[p]) ELSE v.pk[p]]
      /\ u = [v EXCEPT !.hold = u.hold, !.pk = u.pk]
  BY <1>1 DEF Redecided, Typed, AsAsking
<1> HIDE DEF u
<1>3. ASSUME NEW p \in Packets
      PROVE  /\ v.pk[p] \in PacketStates /\ u.pk[p] \in PacketStates
             /\ p \notin S => u.pk[p] = v.pk[p]
             /\ p \in S => /\ v.pk[p].where = "held" /\ v.pk[p].sat = s
                           /\ u.pk[p].where = "asking" /\ u.pk[p].sat = v.pk[p].sat
                           /\ u.pk[p].path = v.pk[p].path /\ u.pk[p].fate = v.pk[p].fate
  <2>1. v.pk[p] \in PacketStates /\ (p \in S => v.pk[p].where = "held" /\ v.pk[p].sat = s)
    BY <1>1 DEF Typed, Placed, At
  <2>2. /\ AsAsking(v.pk[p]) \in PacketStates /\ AsAsking(v.pk[p]).where = "asking"
        /\ AsAsking(v.pk[p]).sat = v.pk[p].sat /\ AsAsking(v.pk[p]).path = v.pk[p].path
        /\ AsAsking(v.pk[p]).fate = v.pk[p].fate
    BY <2>1, StateUpdates
  <2>3. u.pk[p] = IF p \in S THEN AsAsking(v.pk[p]) ELSE v.pk[p]
    BY <1>2
  <2> HIDE DEF S
  <2> QED
    BY <2>1, <2>2, <2>3
<1>4. u.hold[s] = <<>> /\ \A r \in Sats \ {s} : u.hold[r] = v.hold[r]
  BY <1>1, <1>2 DEF Typed
<1>5. Typed(u)
  <2>1. u.pk \in [Packets -> PacketStates]
    BY <1>2, <1>3
  <2>2. u.hold \in [Sats -> Seq(Packets)]
    BY <1>1, <1>2 DEF Typed
  <2> QED
    BY <1>1, <1>2, <2>1, <2>2 DEF Typed
<1>6. ASSUME NEW r \in Sats
      PROVE  /\ Len(u.hold[r]) =< HoldRoom /\ IsInjective(u.hold[r])
             /\ \A p : p \in Range(u.hold[r]) <=> r # s /\ p \in Range(v.hold[r])
  <2>1. CASE r = s
    BY <1>1, <1>4, <2>1, SizesAssumption
  <2>2. CASE r # s
    BY <1>1, <1>4, <2>2 DEF Short, Single
  <2> QED
    BY <2>1, <2>2
<1>7. Short(u) /\ Single(u)
  BY <1>1, <1>2, <1>6 DEF Short, Single
<1>8. Placed(u, {})
  <2> SUFFICES ASSUME NEW p \in Packets, NEW r \in Sats
               PROVE  /\ p \in Range(u.hold[r]) <=> At(u, {}, p, "held", r)
                      /\ p \in Range(u.down[r]) <=> At(u, {}, p, "down", r)
                      /\ p \in Range(u.jobs[r]) <=> At(u, {}, p, "job", r)
                      /\ (\E d \in Dirs : p \in Range(u.egress[r][d])) <=> At(u, {}, p, "egress", r)
                      /\ \A d, e \in Dirs : p \in Range(u.egress[r][d]) /\ p \in Range(u.egress[r][e]) => d = e
    BY DEF Placed
  <2>1. CASE p \in S
    BY <1>1, <1>2, <1>3, <1>6, <2>1 DEF Placed, At
  <2>2. CASE p \notin S
    BY <1>1, <1>2, <1>3, <1>6, <2>2 DEF Placed, At
  <2> QED
    BY <2>1, <2>2
<1>9. Fated(u, {}) /\ Final(v, u)
  BY <1>1, <1>3 DEF Fated, Final
<1>10. Pooled(u)
  <2>1. ASSUME NEW r \in Sats, NEW q \in Range(v.jobs[r]) PROVE u.pk[q].until = v.pk[q].until
    <3>1. q \in Packets
      BY <1>1, QueuesTyped, Members
    <3>2. q \notin S
      BY <1>1, <3>1 DEF Placed, At
    <3> QED
      BY <1>3, <3>1, <3>2
  <2> QED
    BY <1>1, <1>2, <2>1, SamePool DEF Good
<1>11. Woken(u)
  <2>1. ASSUME NEW r \in Sats, NEW q \in Range(u.hold[r])
        PROVE  \/ u.pk[q].armed = FALSE
               \/ q \in Range(v.hold[r]) /\ u.pk[q].armed = v.pk[q].armed
    <3>1. q \in Range(v.hold[r]) /\ r # s
      BY <1>6
    <3>2. q \in Packets
      BY <1>1, <3>1, QueuesTyped, Members
    <3>3. q \notin S
      BY <1>1, <3>1, <3>2 DEF Placed, At
    <3> QED
      BY <1>3, <3>1, <3>2, <3>3
  <2> QED
    BY <1>2, <2>1, SameWakes DEF Good
<1>12. Looped(u, t)
  <2>1. \A q \in Packets : u.pk[q].path = v.pk[q].path /\ (u.pk[q].where \in {"ground", "flying"} => u.pk[q] = v.pk[q])
    BY <1>3
  <2> QED
    BY <1>1, <1>2, <2>1, SameLoops DEF Good
<1> QED
  BY <1>5, <1>7, <1>8, <1>9, <1>10, <1>11, <1>12 DEF Good, u

\* A sweep of one holding or downlink queue: q remains of it.
LEMMA SweptHoldGood ==
  ASSUME NEW v, NEW t, Good(v, {}, t), NEW s \in Sats, NEW u \in SweptHold(v, s)
  PROVE  Good(u, {}, t) /\ Final(v, u)
<1> DEFINE S == Range(v.hold[s]) \cap Outlived
<1>1. Typed(v) /\ Placed(v, {}) /\ Fated(v, {}) /\ Short(v) /\ Single(v)
  BY DEF Good
<1>2. PICK q \in Remains(v.hold[s], Packets \ Outlived) : u = [Swept(v, S) EXCEPT !.hold[s] = q]
  BY DEF SweptHold
<1>3. /\ v.hold[s] \in Seq(Packets) /\ Range(v.hold[s]) \subseteq Packets /\ Len(v.hold[s]) \in Nat
      /\ q \in Seq(Packets) /\ Len(q) =< Len(v.hold[s]) /\ Len(q) \in Nat
      /\ Range(q) = Range(v.hold[s]) \cap (Packets \ Outlived) /\ IsInjective(q)
  BY <1>1, QueuesTyped, Members, Remaining
<1>4. /\ u.down = v.down /\ u.egress = v.egress /\ u.jobs = v.jobs
      /\ u.wake = v.wake /\ u.wakes = v.wakes
      /\ u.hold = [v.hold EXCEPT ![s] = q]
      /\ u.pk = [p \in Packets |-> IF p \in S THEN AsGone(v.pk[p], "DATA_DEADLINE_EXPIRED") ELSE v.pk[p]]
      /\ u = [v EXCEPT !.hold = u.hold, !.pk = u.pk]
  BY <1>1, <1>2 DEF Swept, Typed, AsGone
<1>5. ASSUME NEW p \in Packets
      PROVE  /\ v.pk[p] \in PacketStates /\ u.pk[p] \in PacketStates
             /\ p \notin S => u.pk[p] = v.pk[p]
             /\ p \in S => /\ v.pk[p].where = "held" /\ v.pk[p].sat = s /\ v.pk[p].fate = "none"
                           /\ u.pk[p].where = "gone" /\ u.pk[p].sat = v.pk[p].sat
                           /\ u.pk[p].path = v.pk[p].path /\ u.pk[p].fate = "DATA_DEADLINE_EXPIRED"
  <2>1. v.pk[p] \in PacketStates
        /\ (p \in S => v.pk[p].where = "held" /\ v.pk[p].sat = s /\ v.pk[p].fate = "none")
    BY <1>1 DEF Typed, Placed, At, Fated
  <2> DEFINE k == AsGone(v.pk[p], "DATA_DEADLINE_EXPIRED")
  <2>2. /\ k \in PacketStates /\ k.where = "gone" /\ k.sat = v.pk[p].sat
        /\ k.path = v.pk[p].path /\ k.fate = "DATA_DEADLINE_EXPIRED"
    BY <2>1, StateUpdates DEF Fates
  <2>3. u.pk[p] = IF p \in S THEN k ELSE v.pk[p]
    BY <1>4
  <2> HIDE DEF S, k
  <2> QED
    BY <2>1, <2>2, <2>3
<1>6. u.hold[s] = q /\ \A r \in Sats \ {s} : u.hold[r] = v.hold[r]
  BY <1>1, <1>4 DEF Typed
<1>7. Typed(u)
  <2>1. u.pk \in [Packets -> PacketStates]
    BY <1>4, <1>5
  <2>2. u.hold \in [Sats -> Seq(Packets)]
    BY <1>1, <1>3, <1>4 DEF Typed
  <2> QED
    BY <1>1, <1>4, <2>1, <2>2 DEF Typed
<1>8. ASSUME NEW r \in Sats
      PROVE  /\ Len(u.hold[r]) =< HoldRoom /\ IsInjective(u.hold[r])
             /\ \A p \in Packets : p \in Range(u.hold[r]) <=> p \in Range(v.hold[r]) /\ p \notin S
  <2>1. CASE r = s
    <3>1. Len(v.hold[s]) =< HoldRoom
      BY <1>1 DEF Short
    <3>2. Len(q) =< HoldRoom
      BY <1>3, <3>1, SizesAssumption
    <3> QED
      BY <1>3, <1>6, <2>1, <3>2
  <2>2. CASE r # s
    <3>1. \A p \in Packets : p \in Range(v.hold[r]) => p \notin S
      BY <1>1, <2>2 DEF Placed, At
    <3> QED
      BY <1>1, <1>6, <2>2, <3>1 DEF Short, Single
  <2> QED
    BY <2>1, <2>2
<1> HIDE DEF S
<1>9. Short(u) /\ Single(u)
  BY <1>1, <1>4, <1>8 DEF Short, Single
<1>10. Placed(u, {})
  <2> SUFFICES ASSUME NEW p \in Packets, NEW r \in Sats
               PROVE  /\ p \in Range(u.hold[r]) <=> At(u, {}, p, "held", r)
                      /\ p \in Range(u.down[r]) <=> At(u, {}, p, "down", r)
                      /\ p \in Range(u.jobs[r]) <=> At(u, {}, p, "job", r)
                      /\ (\E d \in Dirs : p \in Range(u.egress[r][d])) <=> At(u, {}, p, "egress", r)
                      /\ \A d, e \in Dirs : p \in Range(u.egress[r][d]) /\ p \in Range(u.egress[r][e]) => d = e
    BY DEF Placed
  <2>1. CASE p \in S
    BY <1>1, <1>4, <1>5, <1>8, <2>1 DEF Placed, At
  <2>2. CASE p \notin S
    BY <1>1, <1>4, <1>5, <1>8, <2>2 DEF Placed, At
  <2> QED
    BY <2>1, <2>2
<1>11. Fated(u, {}) /\ Final(v, u)
  BY <1>1, <1>5 DEF Fated, Final
<1>12. Pooled(u)
  <2>1. ASSUME NEW r \in Sats, NEW x \in Range(v.jobs[r]) PROVE u.pk[x].until = v.pk[x].until
    <3>1. x \in Packets
      BY <1>1, QueuesTyped, Members
    <3>2. x \notin S
      BY <1>1, <1>5, <3>1 DEF Placed, At
    <3> QED
      BY <1>5, <3>1, <3>2
  <2> QED
    BY <1>1, <1>4, <2>1, SamePool DEF Good
<1>13. Woken(u)
  <2>1. ASSUME NEW r \in Sats, NEW x \in Range(u.hold[r])
        PROVE  \/ u.pk[x].armed = FALSE
               \/ x \in Range(v.hold[r]) /\ u.pk[x].armed = v.pk[x].armed
    <3>1. x \in Packets
      BY <1>7, QueuesTyped, Members
    <3>2. x \in Range(v.hold[r]) /\ x \notin S
      BY <1>8, <3>1
    <3> QED
      BY <1>5, <3>1, <3>2
  <2> QED
    BY <1>4, <2>1, SameWakes DEF Good
<1>14. Looped(u, t)
  <2>1. \A x \in Packets : u.pk[x].path = v.pk[x].path /\ (u.pk[x].where \in {"ground", "flying"} => u.pk[x] = v.pk[x])
    BY <1>5
  <2> QED
    BY <1>1, <1>4, <2>1, SameLoops DEF Good
<1> QED
  BY <1>7, <1>9, <1>10, <1>11, <1>12, <1>13, <1>14 DEF Good

LEMMA SweptDownGood ==
  ASSUME NEW v, NEW t, Good(v, {}, t), NEW s \in Sats, NEW u \in SweptDown(v, s)
  PROVE  Good(u, {}, t) /\ Final(v, u)
<1> DEFINE S == Range(v.down[s]) \cap Overdue
<1>1. Typed(v) /\ Placed(v, {}) /\ Fated(v, {}) /\ Short(v) /\ Single(v)
  BY DEF Good
<1>2. PICK q \in Remains(v.down[s], Packets \ Overdue) : u = [Swept(v, S) EXCEPT !.down[s] = q]
  BY DEF SweptDown
<1>3. /\ v.down[s] \in Seq(Packets) /\ Range(v.down[s]) \subseteq Packets /\ Len(v.down[s]) \in Nat
      /\ q \in Seq(Packets) /\ Len(q) =< Len(v.down[s]) /\ Len(q) \in Nat
      /\ Range(q) = Range(v.down[s]) \cap (Packets \ Overdue) /\ IsInjective(q)
  BY <1>1, QueuesTyped, Members, Remaining
<1>4. /\ u.hold = v.hold /\ u.egress = v.egress /\ u.jobs = v.jobs
      /\ u.wake = v.wake /\ u.wakes = v.wakes
      /\ u.down = [v.down EXCEPT ![s] = q]
      /\ u.pk = [p \in Packets |-> IF p \in S THEN AsGone(v.pk[p], "DATA_DEADLINE_EXPIRED") ELSE v.pk[p]]
      /\ u = [v EXCEPT !.down = u.down, !.pk = u.pk]
  BY <1>1, <1>2 DEF Swept, Typed, AsGone
<1>5. ASSUME NEW p \in Packets
      PROVE  /\ v.pk[p] \in PacketStates /\ u.pk[p] \in PacketStates
             /\ p \notin S => u.pk[p] = v.pk[p]
             /\ p \in S => /\ v.pk[p].where = "down" /\ v.pk[p].sat = s /\ v.pk[p].fate = "none"
                           /\ u.pk[p].where = "gone" /\ u.pk[p].sat = v.pk[p].sat
                           /\ u.pk[p].path = v.pk[p].path /\ u.pk[p].fate = "DATA_DEADLINE_EXPIRED"
  <2>1. v.pk[p] \in PacketStates
        /\ (p \in S => v.pk[p].where = "down" /\ v.pk[p].sat = s /\ v.pk[p].fate = "none")
    BY <1>1 DEF Typed, Placed, At, Fated
  <2> DEFINE k == AsGone(v.pk[p], "DATA_DEADLINE_EXPIRED")
  <2>2. /\ k \in PacketStates /\ k.where = "gone" /\ k.sat = v.pk[p].sat
        /\ k.path = v.pk[p].path /\ k.fate = "DATA_DEADLINE_EXPIRED"
    BY <2>1, StateUpdates DEF Fates
  <2>3. u.pk[p] = IF p \in S THEN k ELSE v.pk[p]
    BY <1>4
  <2> HIDE DEF S, k
  <2> QED
    BY <2>1, <2>2, <2>3
<1>6. u.down[s] = q /\ \A r \in Sats \ {s} : u.down[r] = v.down[r]
  BY <1>1, <1>4 DEF Typed
<1>7. Typed(u)
  <2>1. u.pk \in [Packets -> PacketStates]
    BY <1>4, <1>5
  <2>2. u.down \in [Sats -> Seq(Packets)]
    BY <1>1, <1>3, <1>4 DEF Typed
  <2> QED
    BY <1>1, <1>4, <2>1, <2>2 DEF Typed
<1>8. ASSUME NEW r \in Sats
      PROVE  /\ Len(u.down[r]) =< DownRoom /\ IsInjective(u.down[r])
             /\ \A p \in Packets : p \in Range(u.down[r]) <=> p \in Range(v.down[r]) /\ p \notin S
  <2>1. CASE r = s
    <3>1. Len(v.down[s]) =< DownRoom
      BY <1>1 DEF Short
    <3>2. Len(q) =< DownRoom
      BY <1>3, <3>1, SizesAssumption
    <3> QED
      BY <1>3, <1>6, <2>1, <3>2
  <2>2. CASE r # s
    <3>1. \A p \in Packets : p \in Range(v.down[r]) => p \notin S
      BY <1>1, <2>2 DEF Placed, At
    <3> QED
      BY <1>1, <1>6, <2>2, <3>1 DEF Short, Single
  <2> QED
    BY <2>1, <2>2
<1> HIDE DEF S
<1>9. Short(u) /\ Single(u)
  BY <1>1, <1>4, <1>8 DEF Short, Single
<1>10. Placed(u, {})
  <2> SUFFICES ASSUME NEW p \in Packets, NEW r \in Sats
               PROVE  /\ p \in Range(u.hold[r]) <=> At(u, {}, p, "held", r)
                      /\ p \in Range(u.down[r]) <=> At(u, {}, p, "down", r)
                      /\ p \in Range(u.jobs[r]) <=> At(u, {}, p, "job", r)
                      /\ (\E d \in Dirs : p \in Range(u.egress[r][d])) <=> At(u, {}, p, "egress", r)
                      /\ \A d, e \in Dirs : p \in Range(u.egress[r][d]) /\ p \in Range(u.egress[r][e]) => d = e
    BY DEF Placed
  <2>1. CASE p \in S
    BY <1>1, <1>4, <1>5, <1>8, <2>1 DEF Placed, At
  <2>2. CASE p \notin S
    BY <1>1, <1>4, <1>5, <1>8, <2>2 DEF Placed, At
  <2> QED
    BY <2>1, <2>2
<1>11. Fated(u, {}) /\ Final(v, u)
  BY <1>1, <1>5 DEF Fated, Final
<1>12. Pooled(u)
  <2>1. ASSUME NEW r \in Sats, NEW x \in Range(v.jobs[r]) PROVE u.pk[x].until = v.pk[x].until
    <3>1. x \in Packets
      BY <1>1, QueuesTyped, Members
    <3>2. x \notin S
      BY <1>1, <1>5, <3>1 DEF Placed, At
    <3> QED
      BY <1>5, <3>1, <3>2
  <2> QED
    BY <1>1, <1>4, <2>1, SamePool DEF Good
<1>13. Woken(u)
  <2>1. ASSUME NEW r \in Sats, NEW x \in Range(u.hold[r])
        PROVE  \/ u.pk[x].armed = FALSE
               \/ x \in Range(v.hold[r]) /\ u.pk[x].armed = v.pk[x].armed
    <3>1. x \in Packets /\ x \in Range(v.hold[r])
      BY <1>1, <1>4, QueuesTyped, Members
    <3>2. x \notin S
      BY <1>1, <1>5, <3>1 DEF Placed, At
    <3> QED
      BY <1>5, <3>1, <3>2
  <2> QED
    BY <1>4, <2>1, SameWakes DEF Good
<1>14. Looped(u, t)
  <2>1. \A x \in Packets : u.pk[x].path = v.pk[x].path /\ (u.pk[x].where \in {"ground", "flying"} => u.pk[x] = v.pk[x])
    BY <1>5
  <2> QED
    BY <1>1, <1>4, <2>1, SameLoops DEF Good
<1> QED
  BY <1>7, <1>9, <1>10, <1>11, <1>12, <1>13, <1>14 DEF Good

-----------------------------------------------------------------------------
(* Where a handler puts the packet in its hands.                           *)

\* The same queues and packets, with a wake no later than at if at is ahead.
LEMMA ArmedGood ==
  ASSUME NEW v, NEW H, NEW t, Good(v, H, t), NEW s \in Sats, NEW at \in Nat, now \in Nat
  PROVE  LET u == Armed(v, s, at)
         IN  /\ Good(u, H, t) /\ u.pk = v.pk /\ u.hold = v.hold /\ u.down = v.down
             /\ u.jobs = v.jobs /\ u.egress = v.egress
             /\ now < at /\ at < Horizon => u.wake[s] # None /\ u.wake[s] =< at
<1> DEFINE u == Armed(v, s, at)
           set == at > now /\ at < Horizon /\ (v.wake[s] = None \/ at < v.wake[s])
<1>1. Typed(v) /\ Woken(v)
  BY DEF Good
<1>2. v.wake[s] \in Nat \cup {None} /\ None \notin Nat
  BY <1>1, NoneAssumption DEF Typed
<1>3. CASE ~ set
  <2>1. u = v
    BY <1>3 DEF Armed
  <2>2. now < at /\ at < Horizon => v.wake[s] # None /\ v.wake[s] =< at
    BY <1>2, <1>3, SizesAssumption
  <2> QED
    BY <2>1, <2>2
<1>4. CASE set
  <2>1. u = [v EXCEPT !.wake[s] = at, !.wakes[s] = v.wakes[s] \cup {at}]
    BY <1>4 DEF Armed
  <2> HIDE DEF u
  <2>2. /\ Typed(u) /\ u.pk = v.pk /\ u.hold = v.hold /\ u.down = v.down
        /\ u.jobs = v.jobs /\ u.egress = v.egress
        /\ u.wake[s] = at /\ u.wakes[s] = v.wakes[s] \cup {at}
        /\ \A r \in Sats \ {s} : u.wake[r] = v.wake[r] /\ u.wakes[r] = v.wakes[r]
    BY <1>1, <2>1 DEF Typed
  <2>3. ASSUME NEW r \in Sats
        PROVE  /\ u.wake[r] # None => u.wake[r] \in u.wakes[r]
               /\ \A p \in Range(v.hold[r]) : Awaited(u, p, r)
    <3>1. CASE r # s
      BY <1>1, <2>2, <3>1 DEF Woken, Awaited
    <3>2. CASE r = s
      <4>1. ASSUME NEW p \in Range(v.hold[s]) PROVE Awaited(u, p, s)
        <5>1. SUFFICES ASSUME v.pk[p].armed, now < Deadline[p], Deadline[p] < Horizon
                       PROVE  at # None /\ at =< Deadline[p]
          BY <2>2 DEF Awaited
        <5>2. v.wake[s] # None /\ v.wake[s] =< Deadline[p]
          BY <1>1, <5>1 DEF Woken, Awaited
        <5>3. p \in Packets
          BY <1>1, QueuesTyped, Members
        <5> QED
          BY <1>2, <1>4, <5>2, <5>3, DeadlineAssumption
      <4> QED
        BY <2>2, <3>2, <4>1
    <3> QED
      BY <3>1, <3>2
  <2>4. Woken(u)
    BY <2>2, <2>3 DEF Woken
  <2>5. Short(u) /\ Single(u) /\ Fated(u, H) /\ Pooled(u) /\ Looped(u, t)
    <3>1. Short(v) /\ Single(v) /\ Fated(v, H) /\ Pooled(v) /\ Looped(v, t)
      BY DEF Good
    <3>2. Short(u) /\ Single(u)
      BY <2>2, <3>1 DEF Short, Single
    <3>3. Fated(u, H) /\ Pooled(u)
      BY <2>2, <3>1 DEF Fated, Pooled
    <3>4. Looped(u, t)
      BY <2>2, <3>1 DEF Looped
    <3> QED
      BY <3>1, <3>2, <3>3, <3>4
  <2>6. Placed(u, H)
    <3>1. Placed(v, H)
      BY DEF Good
    <3> QED
      BY <2>2, <3>1 DEF Placed, At
  <2> QED
    BY <1>2, <2>2, <2>4, <2>5, <2>6 DEF Good, u
<1> QED
  BY <1>3, <1>4

LEMMA EndedGood ==
  ASSUME NEW v, NEW H, H \subseteq Packets, NEW t, Good(v, H, t), NEW p \in H,
         NEW f \in Fates \ {"none"}
  PROVE  LET u == Ended(v, p, f)
         IN  Good(u, H \ {p}, t) /\ Final(v, u)
<1> DEFINE u == Ended(v, p, f)
           k == AsGone(v.pk[p], f)
<1>1. Typed(v) /\ Looped(v, t) /\ p \in Packets
  BY DEF Good
<1>2. v.pk[p] \in PacketStates
  BY <1>1 DEF Typed
<1>3. k \in PacketStates /\ k.where = "gone" /\ k.fate = f /\ k.path = v.pk[p].path
  BY <1>2 DEF AsGone, PacketStates, Places
<1>4. u = [v EXCEPT !.pk = [v.pk EXCEPT ![p] = k]]
  BY <1>1, <1>2 DEF Ended, AsGone, Typed
<1> HIDE DEF u, k
<1>5. /\ Typed(u) /\ u.hold = v.hold /\ u.down = v.down /\ u.jobs = v.jobs
      /\ u.egress = v.egress /\ u.wake = v.wake /\ u.wakes = v.wakes
      /\ u.pk[p] = k /\ \A q \in Packets \ {p} : u.pk[q] = v.pk[q]
  BY <1>1, <1>3, <1>4 DEF Typed
<1>6. PutDown(v, u, p, None)
  BY <1>3, <1>5 DEF PutDown
<1>7. Allowed(v, u, p, None, t)
  BY <1>1, <1>3, <1>5 DEF Allowed, Looped
<1> QED
  BY <1>5, <1>6, <1>7, PutGood DEF u

LEMMA ParkedGood ==
  ASSUME NEW v, NEW H, H \subseteq Packets, NEW t, Good(v, H, t), NEW p \in H, NEW s \in Sats,
         now \in Nat
  PROVE  LET u == Parked(v, s, p)
         IN  Good(u, H \ {p}, t) /\ Final(v, u)
<1> DEFINE x == Armed(v, s, Deadline[p])
           k == [x.pk[p] EXCEPT !.where = "held", !.sat = s, !.armed = TRUE]
           y == [x EXCEPT !.hold[s] = Append(x.hold[s], p), !.pk[p] = k]
<1>1. p \in Packets /\ Deadline[p] \in Nat
  BY DeadlineAssumption
<1>2. /\ Good(x, H, t) /\ x.pk = v.pk
      /\ now < Deadline[p] /\ Deadline[p] < Horizon => x.wake[s] # None /\ x.wake[s] =< Deadline[p]
  BY <1>1, ArmedGood
<1>3. Parked(v, s, p) = IF Len(x.hold[s]) < HoldRoom THEN y
                        ELSE Ended(x, p, "HOLDING_QUEUE_OVERFLOW")
  <2> HIDE DEF x
  <2>0. Typed(x)
    BY <1>2 DEF Good
  <2>1. x.pk[p] \in PacketStates /\ p \in DOMAIN x.pk
    BY <1>1, <2>0 DEF Typed
  <2>2. CASE Len(x.hold[s]) < HoldRoom
    <3> DEFINE m == [x.pk[p] EXCEPT !.where = "held", !.sat = s, !.armed = FALSE]
               z == [x EXCEPT !.hold[s] = Append(x.hold[s], p), !.pk[p] = m]
    <3>1. Held(x, s, p) = z
      BY <2>0, <2>1, <2>2 DEF Held, Typed
    <3>2. m.where = "held" /\ k = [m EXCEPT !.armed = TRUE]
      BY <2>1 DEF PacketStates
    <3> HIDE DEF m, k
    <3>3. z.pk[p] = m
      BY <2>0, <2>1 DEF Typed
    <3>4. y = [z EXCEPT !.pk[p] = k]
      BY <2>0, <2>1 DEF Typed
    <3> HIDE DEF z
    <3>5. y = [z EXCEPT !.pk[p].armed = TRUE]
      BY <3>2, <3>3, <3>4
    <3> HIDE DEF y
    <3> QED
      BY <2>2, <3>1, <3>2, <3>3, <3>5 DEF Parked, x
  <2>3. CASE ~ (Len(x.hold[s]) < HoldRoom)
    <3> DEFINE z == Ended(x, p, "HOLDING_QUEUE_OVERFLOW")
    <3>1. Held(x, s, p) = z
      BY <2>3 DEF Held
    <3>2. z.pk[p].where = "gone"
      BY <2>0, <2>1 DEF Ended, Typed, PacketStates
    <3> HIDE DEF z
    <3> QED
      BY <2>3, <3>1, <3>2 DEF Parked, x, z
  <2> QED
    BY <2>2, <2>3
<1> HIDE DEF x
<1>4. CASE ~ (Len(x.hold[s]) < HoldRoom)
  <2>1. "HOLDING_QUEUE_OVERFLOW" \in Fates \ {"none"}
    BY DEF Fates
  <2>2. Good(Ended(x, p, "HOLDING_QUEUE_OVERFLOW"), H \ {p}, t)
        /\ Final(x, Ended(x, p, "HOLDING_QUEUE_OVERFLOW"))
    BY <1>2, <2>1, EndedGood
  <2> QED
    BY <1>2, <1>3, <1>4, <2>2 DEF Final
<1>5. CASE Len(x.hold[s]) < HoldRoom
  <2>1. Typed(x) /\ Looped(x, t)
    BY <1>2 DEF Good
  <2>2. x.pk[p] \in PacketStates /\ x.hold[s] \in Seq(Packets) /\ x.pk[p].fate = "none"
    BY <1>1, <1>2, <2>1 DEF Typed, Good, Fated
  <2>3. /\ k \in PacketStates /\ k.where = "held" /\ k.sat = s /\ k.armed = TRUE
        /\ k.path = x.pk[p].path /\ k.fate = "none"
    BY <2>2 DEF PacketStates, Places
  <2>4. y = [x EXCEPT !.hold = [x.hold EXCEPT ![s] = Append(x.hold[s], p)],
                      !.pk = [x.pk EXCEPT ![p] = k]]
    OBVIOUS
  <2>5. Append(x.hold[s], p) \in Seq(Packets)
    BY <1>1, <2>2, Appended
  <2> HIDE DEF y, k
  <2>6. /\ Typed(y) /\ y.down = x.down /\ y.jobs = x.jobs
        /\ y.egress = x.egress /\ y.wake = x.wake /\ y.wakes = x.wakes
        /\ y.pk[p] = k /\ \A q \in Packets \ {p} : y.pk[q] = x.pk[q]
        /\ y.hold[s] = Append(x.hold[s], p) /\ \A r \in Sats \ {s} : y.hold[r] = x.hold[r]
    BY <1>1, <2>1, <2>3, <2>4, <2>5 DEF Typed
  <2>7. PutDown(x, y, p, None)
    BY <2>3, <2>6 DEF PutDown
  <2>8. Allowed(x, y, p, None, t)
    <3>1. Awaited(y, p, s)
      BY <1>2, <2>6 DEF Awaited
    <3> QED
      BY <1>1, <1>5, <2>1, <2>3, <2>6, <3>1 DEF Allowed, Looped
  <2>9. Good(y, H \ {p}, t) /\ Final(x, y)
    BY <1>2, <2>6, <2>7, <2>8, PutGood
  <2> QED
    BY <1>2, <1>3, <1>5, <2>9 DEF Final
<1> QED
  BY <1>4, <1>5

\* A packet on a satellite joins the queue of one of its links.
LEMMA ToEgressGood ==
  ASSUME NEW v, NEW H, H \subseteq Packets, NEW t, Good(v, H, t), NEW p \in H, NEW s \in Sats,
         NEW d \in Dirs, v.pk[p].sat = s, HasRoom(v, s, d), t[s][d] \in Sats,
         mode = "refresh" => t[s][d] \notin Range(v.pk[p].path)
  PROVE  LET u == ToEgress(v, s, d, p)
         IN  Good(u, H \ {p}, t) /\ Final(v, u)
<1> DEFINE u == ToEgress(v, s, d, p)
           k == [v.pk[p] EXCEPT !.where = "egress"]
           e == [v.egress[s] EXCEPT ![d] = Append(v.egress[s][d], p)]
<1>1. Typed(v) /\ Looped(v, t) /\ p \in Packets
  BY DEF Good
<1>2. v.pk[p] \in PacketStates /\ v.pk[p].fate = "none" /\ v.egress[s][d] \in Seq(Packets)
      /\ v.egress[s] \in [Dirs -> Seq(Packets)]
  BY <1>1 DEF Typed, Good, Fated
<1>3. /\ k \in PacketStates /\ k.where = "egress" /\ k.sat = s
      /\ k.path = v.pk[p].path /\ k.fate = "none"
  BY <1>2 DEF PacketStates, Places
<1>4. Append(v.egress[s][d], p) \in Seq(Packets)
  BY <1>1, <1>2, Appended
<1>5. /\ e \in [Dirs -> Seq(Packets)] /\ e[d] = Append(v.egress[s][d], p)
      /\ \A c \in Dirs \ {d} : e[c] = v.egress[s][c]
  BY <1>2, <1>4
<1>6. u = [v EXCEPT !.egress = [v.egress EXCEPT ![s] = e], !.pk = [v.pk EXCEPT ![p] = k]]
  BY <1>1 DEF ToEgress, Typed
<1> HIDE DEF u, k, e
<1>7. /\ Typed(u) /\ u.hold = v.hold /\ u.down = v.down /\ u.jobs = v.jobs
      /\ u.wake = v.wake /\ u.wakes = v.wakes
      /\ u.pk[p] = k /\ \A q \in Packets \ {p} : u.pk[q] = v.pk[q]
      /\ u.egress[s] = e /\ \A r \in Sats \ {s} : u.egress[r] = v.egress[r]
  BY <1>1, <1>3, <1>5, <1>6 DEF Typed
<1>8. PutDown(v, u, p, d)
  BY <1>3, <1>5, <1>7 DEF PutDown
<1>9. Allowed(v, u, p, d, t)
  BY <1>1, <1>3, <1>7 DEF Allowed, Looped, HasRoom
<1> QED
  BY <1>7, <1>8, <1>9, PutGood DEF u

LEMMA ToDownGood ==
  ASSUME NEW v, NEW H, H \subseteq Packets, NEW t, Good(v, H, t), NEW p \in H, NEW s \in Sats,
         v.pk[p].sat = s, DeliverLegal(v, s)
  PROVE  LET u == ToDown(v, s, p)
         IN  Good(u, H \ {p}, t) /\ Final(v, u)
<1> DEFINE u == ToDown(v, s, p)
           k == [v.pk[p] EXCEPT !.where = "down"]
<1>1. Typed(v) /\ Looped(v, t) /\ p \in Packets
  BY DEF Good
<1>2. v.pk[p] \in PacketStates /\ v.pk[p].fate = "none" /\ v.down[s] \in Seq(Packets)
  BY <1>1 DEF Typed, Good, Fated
<1>3. /\ k \in PacketStates /\ k.where = "down" /\ k.sat = s
      /\ k.path = v.pk[p].path /\ k.fate = "none"
  BY <1>2 DEF PacketStates, Places
<1>4. Append(v.down[s], p) \in Seq(Packets)
  BY <1>1, <1>2, Appended
<1>5. u = [v EXCEPT !.down = [v.down EXCEPT ![s] = Append(v.down[s], p)],
                    !.pk = [v.pk EXCEPT ![p] = k]]
  BY <1>1 DEF ToDown, Typed
<1> HIDE DEF u, k
<1>6. /\ Typed(u) /\ u.hold = v.hold /\ u.egress = v.egress /\ u.jobs = v.jobs
      /\ u.wake = v.wake /\ u.wakes = v.wakes
      /\ u.pk[p] = k /\ \A q \in Packets \ {p} : u.pk[q] = v.pk[q]
      /\ u.down[s] = Append(v.down[s], p) /\ \A r \in Sats \ {s} : u.down[r] = v.down[r]
  BY <1>1, <1>3, <1>4, <1>5 DEF Typed
<1>7. PutDown(v, u, p, None)
  BY <1>3, <1>6 DEF PutDown
<1>8. Allowed(v, u, p, None, t)
  BY <1>1, <1>3, <1>6 DEF Allowed, Looped, DeliverLegal
<1> QED
  BY <1>6, <1>7, <1>8, PutGood DEF u

\* A decision process asks for a compute server.
LEMMA RequestedGood ==
  ASSUME NEW v, NEW H, H \subseteq Packets, NEW t, Good(v, H, t), NEW p \in H, NEW s \in Sats,
         NEW path \in Seq(Sats), NEW obs \in Observations, now \in Nat,
         mode = "refresh" => IsInjective(path)
  PROVE  LET u == Requested(v, p, s, path, obs)
         IN  Good(u, H \ {p}, t) /\ Final(v, u)
<1> DEFINE u == Requested(v, p, s, path, obs)
           end == IF Len(v.jobs[s]) < Servers THEN now + ComputeDelay ELSE None
           k == [v.pk[p] EXCEPT !.where = "job", !.sat = s, !.path = path, !.obs = obs,
                                !.until = end]
<1>1. Typed(v) /\ Looped(v, t) /\ p \in Packets
  BY DEF Good
<1>2. v.pk[p] \in PacketStates /\ v.pk[p].fate = "none" /\ v.jobs[s] \in Seq(Packets)
  BY <1>1 DEF Typed, Good, Fated
<1>3. end \in Nat \cup {None} /\ (end # None <=> Len(v.jobs[s]) < Servers)
  <2>1. now + ComputeDelay \in Nat
    BY SizesAssumption
  <2> QED
    BY <2>1, NoneAssumption
<1>4. u = [v EXCEPT !.jobs = [v.jobs EXCEPT ![s] = Append(v.jobs[s], p)],
                    !.pk = [v.pk EXCEPT ![p] = k]]
  BY <1>1 DEF Requested, Typed
<1> HIDE DEF end
<1>5. /\ k \in PacketStates /\ k.where = "job" /\ k.sat = s
      /\ k.path = path /\ k.fate = "none" /\ k.until = end
  BY <1>2, <1>3 DEF PacketStates, Places
<1>6. Append(v.jobs[s], p) \in Seq(Packets)
  BY <1>1, <1>2, Appended
<1> HIDE DEF u, k
<1>7. /\ Typed(u) /\ u.hold = v.hold /\ u.egress = v.egress /\ u.down = v.down
      /\ u.wake = v.wake /\ u.wakes = v.wakes
      /\ u.pk[p] = k /\ \A q \in Packets \ {p} : u.pk[q] = v.pk[q]
      /\ u.jobs[s] = Append(v.jobs[s], p) /\ \A r \in Sats \ {s} : u.jobs[r] = v.jobs[r]
  BY <1>1, <1>4, <1>5, <1>6 DEF Typed
<1>8. PutDown(v, u, p, None)
  BY <1>5, <1>7 DEF PutDown
<1>9. Allowed(v, u, p, None, t)
  BY <1>3, <1>5, <1>7 DEF Allowed
<1> QED
  BY <1>7, <1>8, <1>9, PutGood DEF u

\* A transmission: the packet propagates, to a satellite or to the ground.
LEMMA SentGood ==
  ASSUME NEW v, NEW H, H \subseteq Packets, NEW t, Good(v, H, t), NEW p \in H, now \in Nat,
         NEW u, NEW k, k \in PacketStates, u = [v EXCEPT !.pk = [v.pk EXCEPT ![p] = k]],
         k.where \in {"flying", "landing"}, k.sat \in Sats, k.fate = "none",
         k.path = v.pk[p].path,
         mode = "refresh" /\ k.where = "flying" => k.sat \notin Range(k.path)
  PROVE  Good(u, H \ {p}, t) /\ Final(v, u)
<1>1. Typed(v) /\ Looped(v, t) /\ p \in Packets
  BY DEF Good
<1>2. /\ Typed(u) /\ u.hold = v.hold /\ u.down = v.down /\ u.jobs = v.jobs
      /\ u.egress = v.egress /\ u.wake = v.wake /\ u.wakes = v.wakes
      /\ u.pk[p] = k /\ \A q \in Packets \ {p} : u.pk[q] = v.pk[q]
  BY <1>1 DEF Typed
<1>3. PutDown(v, u, p, None)
  BY <1>2 DEF PutDown
<1>4. Allowed(v, u, p, None, t)
  BY <1>1, <1>2 DEF Allowed, Looped
<1> QED
  BY <1>2, <1>3, <1>4, PutGood

-----------------------------------------------------------------------------
(* The inductive invariant, and what each action makes of the packets.     *)

JInv ==
  /\ Good(w, {}, topo)
  /\ now \in 0 .. Horizon /\ mode \in Modes /\ topo \in Topologies /\ serving \in Servings
  /\ due \subseteq Sats \cup {"topology"} /\ crashed \in BOOLEAN /\ stopped \in BOOLEAN
  /\ stopped => \A p \in Packets : w.pk[p].where \in {"ground", "gone"}

LEMMA Clock == ASSUME JInv PROVE now \in Nat
BY SizesAssumption DEF JInv

LEMMA FinalTrans ==
  ASSUME NEW u, NEW v, NEW x, Final(u, v), Final(v, x)
  PROVE  Final(u, x)
BY DEF Final

LEMMA InferredTyped ==
  ASSUME NEW p, NEW s, NEW path
  PROVE  Inferred(p, s, path) \subseteq Observations
<1> SUFFICES ASSUME NEW obs \in Inferred(p, s, path) PROVE obs \in Observations
  OBVIOUS
<1>1. CASE DeliverLegal(w, s)
  <2>1. obs = [kind |-> "deliver", dir |-> None]
    BY <1>1 DEF Inferred
  <2> QED
    BY <2>1 DEF Observations
<1>2. CASE ~ DeliverLegal(w, s)
  <2> DEFINE legal(cands) == {d \in cands : topo[s][d] \notin Range(path) /\ HasRoom(w, s, d)}
  <2>1. PICK cands \in SUBSET Directions(s) :
          obs \in IF legal(cands) = {} THEN {[kind |-> "hold", dir |-> None]}
                  ELSE [kind : {"forward"}, dir : legal(cands)]
    BY <1>2 DEF Inferred
  <2>2. legal(cands) \subseteq Dirs
    BY DEF Directions
  <2> HIDE DEF legal
  <2> QED
    BY <2>1, <2>2 DEF Observations
<1> QED
  BY <1>1, <1>2

\* A request for the compute pool, from a handler with the packet in its hands.
LEMMA RequestGood ==
  ASSUME JInv, NEW p \in Packets, Good(w, {p}, topo), NEW s \in Sats, NEW path \in Seq(Sats),
         mode = "refresh" => IsInjective(path), Request(w, p, s, path)
  PROVE  Good(w', {}, topo) /\ Final(w, w')
<1>1. PICK obs \in IF mode = "frozen" THEN Inferred(p, s, path) ELSE {NoObs} :
        w' = Requested(w, p, s, path, obs)
  BY DEF Request
<1>2. obs \in Observations
  BY <1>1, InferredTyped DEF NoObs, Observations
<1>3. now \in Nat /\ {p} \subseteq Packets /\ p \in {p} /\ {p} \ {p} = {}
  BY Clock
<1>4. LET u == Requested(w, p, s, path, obs)
      IN  Good(u, {p} \ {p}, topo) /\ Final(w, u)
  BY <1>2, <1>3, RequestedGood
<1> QED
  BY <1>1, <1>3, <1>4

LEMMA ArriveGood ==
  ASSUME JInv, NEW p \in Packets, Arrive(p)
  PROVE  Good(w', {}, topo) /\ Final(w, w')
<1> DEFINE s == w.pk[p].sat
<1>1. Good(w, {}, topo) /\ w.pk[p].where = "flying" /\ now \in Nat
  BY Clock DEF JInv, Arrive
<1>2. Good(w, {p}, topo) /\ {p} \subseteq Packets /\ p \in {p} /\ {p} \ {p} = {}
  BY <1>1, TakeUp
<1>3. s \in Sats /\ w.pk[p] \in PacketStates /\ Looped(w, topo)
  BY <1>1 DEF Good, Fated, Typed
<1>4. CASE w' = Ended(w, p, "DATA_DEADLINE_EXPIRED")
  <2>1. "DATA_DEADLINE_EXPIRED" \in Fates \ {"none"}
    BY DEF Fates
  <2>2. LET u == Ended(w, p, "DATA_DEADLINE_EXPIRED")
        IN  Good(u, {p} \ {p}, topo) /\ Final(w, u)
    BY <1>2, <2>1, EndedGood
  <2> QED
    BY <1>2, <1>4, <2>2
<1>5. CASE Request(w, p, s, Append(w.pk[p].path, s))
  <2>1. w.pk[p].path \in Seq(Sats)
    BY <1>3 DEF PacketStates
  <2>2. Append(w.pk[p].path, s) \in Seq(Sats)
    BY <1>3, <2>1, Appended
  <2>3. mode = "refresh" => IsInjective(w.pk[p].path) /\ s \notin Range(w.pk[p].path)
    BY <1>1, <1>3 DEF Looped
  <2>4. mode = "refresh" => IsInjective(Append(w.pk[p].path, s))
    BY <1>3, <2>1, <2>3, Appended
  <2> QED
    BY <1>2, <1>3, <1>5, <2>2, <2>4, RequestGood
<1> QED
  BY <1>4, <1>5 DEF Arrive

LEMMA AskGood ==
  ASSUME JInv, NEW p \in Packets, Ask(p)
  PROVE  Good(w', {}, topo) /\ Final(w, w')
<1> DEFINE s == w.pk[p].sat
<1>1. Good(w, {}, topo) /\ w.pk[p].where = "asking"
  BY DEF JInv, Ask
<1>2. Good(w, {p}, topo)
  BY <1>1, TakeUp
<1>3. s \in Sats /\ w.pk[p].path \in Seq(Sats) /\ (mode = "refresh" => IsInjective(w.pk[p].path))
  BY <1>1 DEF Good, Fated, Typed, PacketStates, Looped
<1>4. Request(w, p, s, w.pk[p].path)
  BY DEF Ask
<1> QED
  BY <1>2, <1>3, <1>4, RequestGood

LEMMA LandGood ==
  ASSUME JInv, NEW p \in Packets, Land(p)
  PROVE  Good(w', {}, topo) /\ Final(w, w')
<1> DEFINE f == IF Late(p) THEN "DATA_DEADLINE_EXPIRED" ELSE "DELIVERED"
<1>1. Good(w, {}, topo) /\ w.pk[p].where = "landing" /\ w' = Ended(w, p, f)
  BY DEF JInv, Land
<1>2. Good(w, {p}, topo) /\ {p} \subseteq Packets /\ p \in {p} /\ {p} \ {p} = {}
  BY <1>1, TakeUp
<1>3. f \in Fates \ {"none"}
  BY DEF Fates
<1> HIDE DEF f
<1>4. LET u == Ended(w, p, f) IN Good(u, {p} \ {p}, topo) /\ Final(w, u)
  BY <1>2, <1>3, EndedGood
<1> QED
  BY <1>1, <1>2, <1>4

LEMMA UplinkGood ==
  ASSUME JInv, NEW p \in Packets, NEW s \in Sats, Uplink(p, s)
  PROVE  Good(w', {}, topo) /\ Final(w, w')
<1> DEFINE k == [w.pk[p] EXCEPT !.where = "flying", !.sat = s, !.until = now + Propagation]
<1>1. Good(w, {}, topo) /\ w.pk[p].where = "ground" /\ now \in Nat
  BY Clock DEF JInv, Uplink
<1>2. Good(w, {p}, topo) /\ {p} \subseteq Packets /\ p \in {p} /\ {p} \ {p} = {}
  BY <1>1, TakeUp
<1>3. w.pk[p] \in PacketStates /\ w.pk[p].fate = "none" /\ w.pk[p].path = <<>> /\ Typed(w)
  BY <1>1 DEF Good, Fated, Typed, Looped
<1>4. now + Propagation \in Nat
  BY <1>1, SizesAssumption
<1>5. /\ k \in PacketStates /\ k.where = "flying" /\ k.sat = s
      /\ k.fate = "none" /\ k.path = w.pk[p].path
  BY <1>3, <1>4 DEF PacketStates, Places
<1>6. w' = [w EXCEPT !.pk = [w.pk EXCEPT ![p] = k]]
  BY <1>3 DEF Uplink, Typed
<1>7. s \notin Range(<<>>)
  BY EmptyQueue
<1> HIDE DEF k
<1>8. k.where \in {"flying", "landing"} /\ k.sat \in Sats
      /\ (mode = "refresh" /\ k.where = "flying" => k.sat \notin Range(k.path))
  BY <1>3, <1>5, <1>7
<1>9. Good(w', {p} \ {p}, topo) /\ Final(w, w')
  BY <1>1, <1>2, <1>5, <1>6, <1>8, SentGood
<1> QED
  BY <1>2, <1>9

\* A link takes the head of its queue, whose packet expired or is sent.
LEMMA TransmitGood ==
  ASSUME JInv, NEW s \in Sats, NEW d \in Dirs, Transmit(s, d)
  PROVE  Good(w', {}, topo) /\ Final(w, w')
<1> DEFINE p == Head(w.egress[s][d])
           v == [w EXCEPT !.egress[s][d] = Tail(w.egress[s][d])]
           k == [v.pk[p] EXCEPT !.where = "flying", !.sat = topo[s][d],
                                !.until = now + Propagation]
<1>1. Good(w, {}, topo) /\ w.egress[s][d] # <<>> /\ now \in Nat
  BY Clock DEF JInv, Transmit
<1>2. /\ p \in Packets /\ Good(v, {p}, topo) /\ v.pk = w.pk
      /\ topo[s][d] \in Sats /\ (mode = "refresh" => topo[s][d] \notin Range(w.pk[p].path))
  BY <1>1, TakeEgress
<1>3. {p} \subseteq Packets /\ p \in {p} /\ {p} \ {p} = {}
  BY <1>2
<1>4. w' = IF Late(p) THEN Ended(v, p, "DATA_DEADLINE_EXPIRED")
           ELSE [v EXCEPT !.pk[p].where = "flying", !.pk[p].sat = topo[s][d],
                          !.pk[p].until = now + Propagation]
  BY DEF Transmit
<1> HIDE DEF v, p
<1>5. Final(w, v)
  BY <1>2 DEF Final
<1>6. CASE Late(p)
  <2>1. "DATA_DEADLINE_EXPIRED" \in Fates \ {"none"}
    BY DEF Fates
  <2>2. LET u == Ended(v, p, "DATA_DEADLINE_EXPIRED")
        IN  Good(u, {p} \ {p}, topo) /\ Final(v, u)
    BY <1>2, <1>3, <2>1, EndedGood
  <2>3. Good(w', {}, topo) /\ Final(v, w')
    BY <1>3, <1>4, <1>6, <2>2
  <2> QED
    BY <1>5, <2>3, FinalTrans
<1>7. CASE ~ Late(p)
  <2>1. v.pk[p] \in PacketStates /\ v.pk[p].fate = "none" /\ Typed(v)
    BY <1>2 DEF Good, Fated, Typed
  <2>2. now + Propagation \in Nat
    BY <1>1, SizesAssumption
  <2>3. /\ k \in PacketStates /\ k.where = "flying" /\ k.sat = topo[s][d]
        /\ k.fate = "none" /\ k.path = v.pk[p].path
    BY <1>2, <2>1, <2>2 DEF PacketStates, Places
  <2>4. w' = [v EXCEPT !.pk = [v.pk EXCEPT ![p] = k]]
    BY <1>2, <1>4, <1>7, <2>1 DEF Typed
  <2> HIDE DEF k
  <2>5. k.where \in {"flying", "landing"} /\ k.sat \in Sats
        /\ (mode = "refresh" /\ k.where = "flying" => k.sat \notin Range(k.path))
    BY <1>2, <2>3
  <2>6. Good(w', {p} \ {p}, topo) /\ Final(v, w')
    BY <1>1, <1>2, <1>3, <2>3, <2>4, <2>5, SentGood
  <2>7. Good(w', {}, topo)
    BY <1>3, <2>6
  <2> QED
    BY <1>5, <2>6, <2>7, FinalTrans
<1> QED
  BY <1>6, <1>7

LEMMA DownlinkGood ==
  ASSUME JInv, NEW s \in Sats, Downlink(s)
  PROVE  Good(w', {}, topo) /\ Final(w, w')
<1> DEFINE p == Head(w.down[s])
           v == [w EXCEPT !.down[s] = Tail(w.down[s])]
           k == [v.pk[p] EXCEPT !.where = "landing", !.until = now + Propagation]
<1>1. Good(w, {}, topo) /\ w.down[s] # <<>> /\ now \in Nat
  BY Clock DEF JInv, Downlink
<1>2. p \in Packets /\ Good(v, {p}, topo) /\ v.pk = w.pk
  BY <1>1, TakeDown
<1>3. {p} \subseteq Packets /\ p \in {p} /\ {p} \ {p} = {}
  BY <1>2
<1>4. w' = IF Late(p) THEN Ended(v, p, "DATA_DEADLINE_EXPIRED")
           ELSE [v EXCEPT !.pk[p].where = "landing", !.pk[p].until = now + Propagation]
  BY DEF Downlink
<1>5. w.pk[p].where = "down" /\ w.pk[p].sat = s
  <2>1. w.down[s] \in Seq(Packets) /\ Placed(w, {})
    BY <1>1, QueuesTyped DEF Good
  <2>2. p \in Range(w.down[s])
    BY <1>1, <2>1, TakenHead
  <2> QED
    BY <1>2, <2>1, <2>2 DEF Placed, At
<1> HIDE DEF v, p
<1>6. Final(w, v)
  BY <1>2 DEF Final
<1>7. CASE Late(p)
  <2>1. "DATA_DEADLINE_EXPIRED" \in Fates \ {"none"}
    BY DEF Fates
  <2>2. LET u == Ended(v, p, "DATA_DEADLINE_EXPIRED")
        IN  Good(u, {p} \ {p}, topo) /\ Final(v, u)
    BY <1>2, <1>3, <2>1, EndedGood
  <2>3. Good(w', {}, topo) /\ Final(v, w')
    BY <1>3, <1>4, <1>7, <2>2
  <2> QED
    BY <1>6, <2>3, FinalTrans
<1>8. CASE ~ Late(p)
  <2>1. v.pk[p] \in PacketStates /\ v.pk[p].fate = "none" /\ v.pk[p].sat = s /\ Typed(v)
    BY <1>2, <1>5 DEF Good, Fated, Typed
  <2>2. now + Propagation \in Nat
    BY <1>1, SizesAssumption
  <2>3. /\ k \in PacketStates /\ k.where = "landing" /\ k.sat = s
        /\ k.fate = "none" /\ k.path = v.pk[p].path
    BY <1>2, <2>1, <2>2 DEF PacketStates, Places
  <2>4. w' = [v EXCEPT !.pk = [v.pk EXCEPT ![p] = k]]
    BY <1>2, <1>4, <1>8, <2>1 DEF Typed
  <2> HIDE DEF k
  <2>5. k.where \in {"flying", "landing"} /\ k.sat \in Sats
        /\ (mode = "refresh" /\ k.where = "flying" => k.sat \notin Range(k.path))
    BY <1>2, <2>3
  <2>6. Good(w', {p} \ {p}, topo) /\ Final(v, w')
    BY <1>1, <1>2, <1>3, <2>3, <2>4, <2>5, SentGood
  <2>7. Good(w', {}, topo)
    BY <1>3, <2>6
  <2> QED
    BY <1>6, <2>6, <2>7, FinalTrans
<1> QED
  BY <1>7, <1>8

\* A decision commits: every choice puts its packet somewhere it may be.
LEMMA CommitGood ==
  ASSUME JInv, NEW p \in Packets, Commit(p)
  PROVE  Good(w', {}, topo) /\ Final(w, w')
<1> DEFINE s == w.pk[p].sat
           v == Computed(w, p, s)
<1>1. Good(w, {}, topo) /\ w.pk[p].where = "job" /\ w.pk[p].until = now /\ now \in Nat
      /\ topo \in Topologies
  BY Clock DEF JInv, Commit, JobDue
<1>2. s \in Sats /\ w.pk[p].until # None /\ w.pk[p] \in PacketStates
  BY <1>1, NoneAssumption DEF Good, Fated, Typed
<1>3. Good(v, {p}, topo) /\ Final(w, v) /\ v.pk[p] = [w.pk[p] EXCEPT !.until = None]
  BY <1>1, <1>2, ComputedGood
<1>4. v.pk[p].sat = s /\ v.pk[p].path = w.pk[p].path
  BY <1>2, <1>3 DEF PacketStates
<1>5. {p} \subseteq Packets /\ p \in {p} /\ {p} \ {p} = {}
  OBVIOUS
<1> HIDE DEF v
<1>6. ASSUME NEW f \in Fates \ {"none"}, w' = Ended(v, p, f)
      PROVE  Good(w', {}, topo) /\ Final(v, w')
  <2>1. LET u == Ended(v, p, f) IN Good(u, {p} \ {p}, topo) /\ Final(v, u)
    BY <1>3, <1>5, EndedGood
  <2> QED
    BY <1>5, <1>6, <2>1
<1>7. ASSUME w' = Parked(v, s, p) PROVE Good(w', {}, topo) /\ Final(v, w')
  <2>1. LET u == Parked(v, s, p) IN Good(u, {p} \ {p}, topo) /\ Final(v, u)
    BY <1>1, <1>2, <1>3, <1>5, ParkedGood
  <2> QED
    BY <1>5, <1>7, <2>1
<1>8. ASSUME DeliverLegal(v, s), w' = ToDown(v, s, p) PROVE Good(w', {}, topo) /\ Final(v, w')
  <2>1. LET u == ToDown(v, s, p) IN Good(u, {p} \ {p}, topo) /\ Final(v, u)
    BY <1>2, <1>3, <1>4, <1>5, <1>8, ToDownGood
  <2> QED
    BY <1>5, <1>8, <2>1
<1>9. ASSUME NEW d \in Directions(s), HasRoom(v, s, d), w' = ToEgress(v, s, d, p),
             mode = "refresh" => topo[s][d] \notin Range(w.pk[p].path)
      PROVE  Good(w', {}, topo) /\ Final(v, w')
  <2>1. d \in Dirs /\ topo[s][d] \in Sats
    BY <1>1, <1>2, TopologiesAssumption DEF Directions
  <2>2. LET u == ToEgress(v, s, d, p) IN Good(u, {p} \ {p}, topo) /\ Final(v, u)
    BY <1>2, <1>3, <1>4, <1>5, <1>9, <2>1, ToEgressGood
  <2> QED
    BY <1>5, <1>9, <2>2
<1>10. ASSUME DecideRefreshed(v, p, s) PROVE Good(w', {}, topo) /\ Final(v, w')
  <2>1. CASE w' = Parked(v, s, p)
    BY <1>7, <2>1
  <2>2. CASE w' = IF DeliverLegal(v, s) THEN ToDown(v, s, p)
                  ELSE Ended(v, p, "ACCESS_QUEUE_OVERFLOW")
    <3>1. "ACCESS_QUEUE_OVERFLOW" \in Fates \ {"none"}
      BY DEF Fates
    <3> QED
      BY <1>6, <1>8, <2>2, <3>1
  <2>3. CASE w' = Ended(v, p, "NO_ROUTE")
    <3>1. "NO_ROUTE" \in Fates \ {"none"}
      BY DEF Fates
    <3> QED
      BY <1>6, <2>3, <3>1
  <2>4. ASSUME NEW cands \in SUBSET Directions(s), NEW d \in LoopFreeDirs(p, s, cands),
               HasRoom(v, s, d), w' = ToEgress(v, s, d, p)
        PROVE  Good(w', {}, topo) /\ Final(v, w')
    <3>1. d \in Directions(s) /\ topo[s][d] \notin Range(w.pk[p].path)
      BY DEF LoopFreeDirs
    <3> QED
      BY <1>9, <2>4, <3>1
  <2>5. ASSUME NEW f \in {"NO_ROUTE", "ISL_QUEUE_OVERFLOW"}, w' = Ended(v, p, f)
        PROVE  Good(w', {}, topo) /\ Final(v, w')
    <3>1. f \in Fates \ {"none"}
      BY DEF Fates
    <3> QED
      BY <1>6, <2>5, <3>1
  <2>6. \/ w' = Parked(v, s, p)
        \/ w' = IF DeliverLegal(v, s) THEN ToDown(v, s, p) ELSE Ended(v, p, "ACCESS_QUEUE_OVERFLOW")
        \/ w' = Ended(v, p, "NO_ROUTE")
        \/ \E cands \in SUBSET Directions(s) :
             \/ \E d \in LoopFreeDirs(p, s, cands) : HasRoom(v, s, d) /\ w' = ToEgress(v, s, d, p)
             \/ \E f \in {"NO_ROUTE", "ISL_QUEUE_OVERFLOW"} : w' = Ended(v, p, f)
    <3>1. ASSUME NEW cands \in SUBSET Directions(s) \ {{}},
                 LET free == LoopFreeDirs(p, s, cands)
                     legal == {d \in free : HasRoom(v, s, d)}
                 IN  \/ \E d \in legal : w' = ToEgress(v, s, d, p)
                     \/ /\ legal = {}
                        /\ w' = Ended(v, p, IF free = {} THEN "NO_ROUTE" ELSE "ISL_QUEUE_OVERFLOW")
          PROVE  \/ \E d \in LoopFreeDirs(p, s, cands) : HasRoom(v, s, d) /\ w' = ToEgress(v, s, d, p)
                 \/ \E f \in {"NO_ROUTE", "ISL_QUEUE_OVERFLOW"} : w' = Ended(v, p, f)
      BY <3>1
    <3> QED
      BY <1>10, <3>1 DEF DecideRefreshed
  <2> QED
    BY <2>1, <2>2, <2>3, <2>4, <2>5, <2>6
<1>11. CASE Late(p) \/ Len(w.pk[p].path) > MaxHops
  <2> DEFINE f == IF Late(p) THEN "DATA_DEADLINE_EXPIRED" ELSE "NO_ROUTE"
  <2>1. ASSUME w' = Ended(v, p, f) PROVE Good(w', {}, topo) /\ Final(v, w')
    <3>1. f \in Fates \ {"none"}
      BY DEF Fates
    <3> HIDE DEF f
    <3> QED
      BY <1>6, <2>1, <3>1
  <2>2. w.pk[p].path \in Seq(Sats) /\ MaxHops \in Nat
    BY <1>2, SizesAssumption DEF PacketStates
  <2>3. Len(w.pk[p].path) \in Nat
    BY <2>2, LenProperties
  <2>4. w' = Ended(v, p, f)
    BY <1>11, <2>2, <2>3 DEF Commit, v
  <2> QED
    BY <1>3, <2>1, <2>4, FinalTrans
<1>12. CASE DecideRefreshed(v, p, s)
  BY <1>3, <1>10, <1>12, FinalTrans
<1>13. CASE mode = "frozen" /\ DecideFrozen(v, p, s, w.pk[p].obs) /\ w' # w
  <2> DEFINE obs == w.pk[p].obs
  <2>1. \/ w' = Parked(v, s, p)
        \/ DeliverLegal(v, s) /\ w' = ToDown(v, s, p)
        \/ /\ obs.dir \in Directions(s) /\ HasRoom(v, s, obs.dir)
           /\ w' = ToEgress(v, s, obs.dir, p)
    BY <1>13 DEF DecideFrozen
  <2>2. Good(w', {}, topo) /\ Final(v, w')
    BY <1>7, <1>8, <1>9, <1>13, <2>1
  <2> QED
    BY <1>3, <2>2, FinalTrans
<1>14. CASE w' = w
  BY <1>1, <1>14 DEF Final
<1> QED
  BY <1>11, <1>12, <1>13, <1>14 DEF Commit, v

LEMMA DrainDownGood ==
  ASSUME JInv, NEW s \in Sats, DrainDown(s)
  PROVE  Good(w', {}, topo) /\ Final(w, w')
<1> DEFINE v == [w EXCEPT !.down[s] = <<>>]
           H == Range(w.down[s])
           qs == [r \in Sats |-> IF r = s THEN w.down[s] ELSE <<>>]
<1>1. Good(w, {}, topo) /\ w' = HeldAll(v, qs)
  BY DEF JInv, DrainDown
<1>2. Good(v, H, topo) /\ v.pk = w.pk
  BY <1>1, DownDrained
<1>3. /\ w.down[s] \in Seq(Packets) /\ H \subseteq Packets /\ IsInjective(w.down[s])
      /\ \A p \in H : w.pk[p].where = "down" /\ w.pk[p].sat = s
  <2>1. w.down[s] \in Seq(Packets) /\ IsInjective(w.down[s]) /\ Placed(w, {})
    BY <1>1, QueuesTyped DEF Good, Single
  <2>2. H \subseteq Packets
    BY <2>1, Members
  <2> QED
    BY <2>1, <2>2 DEF Placed, At
<1> HIDE DEF v, H
<1>4. <<>> \in Seq(Packets) /\ Range(<<>>) = {} /\ IsInjective(<<>>)
  BY EmptyQueue
<1>5. qs \in [Sats -> Seq(Packets)]
  BY <1>3, <1>4
<1>6. ASSUME NEW r \in Sats
      PROVE  /\ IsInjective(qs[r])
             /\ \A p \in Packets : p \in Range(qs[r]) <=> p \in H /\ v.pk[p].sat = r
  <2>1. CASE r = s
    BY <1>2, <1>3, <2>1 DEF H
  <2>2. CASE r # s
    <3>1. qs[r] = <<>>
      BY <2>2
    <3>2. \A p \in H : v.pk[p].sat # r
      BY <1>2, <1>3, <2>2
    <3> QED
      BY <1>4, <3>1, <3>2
  <2> QED
    BY <2>1, <2>2
<1>7. \A p \in H : v.pk[p].where \in {"egress", "down"}
  BY <1>2, <1>3
<1> HIDE DEF qs
<1>8. \A r \in Sats : /\ IsInjective(qs[r])
                      /\ \A p \in Packets : p \in Range(qs[r]) <=> p \in H /\ v.pk[p].sat = r
  BY <1>6
<1>9. Good(HeldAll(v, qs), {}, topo) /\ Final(v, HeldAll(v, qs))
  <2>1. H \subseteq Packets
    BY <1>3
  <2> QED
    BY <1>2, <1>5, <1>7, <1>8, <2>1, HeldAllGood
<1> QED
  BY <1>1, <1>2, <1>9 DEF Final

LEMMA RematchGood ==
  ASSUME JInv, NEW t \in Topologies, Rematch(t)
  PROVE  Good(w', {}, t) /\ Final(w, w')
<1> DEFINE H == Removed(t)
           gone(s) == {w.egress[s][d] : d \in Replaced(t, s)}
           All(s) == UNION {Range(q) : q \in gone(s)}
<1>1. Good(w, {}, topo) /\ Typed(w) /\ Placed(w, {})
  BY DEF JInv, Good
<1>2. /\ Good(Emptied(t), H, t) /\ Emptied(t).pk = w.pk
      /\ \A p \in H : p \in Packets /\ w.pk[p].where = "egress"
  BY <1>1, EmptiedGood
<1>3. PICK qs \in [Sats -> UNION {Drains(t, s) : s \in Sats}] :
        /\ \A s \in Sats : qs[s] \in Drains(t, s)
        /\ w' = HeldAll(Emptied(t), qs)
  BY DEF Rematch, Emptied
<1>4. ASSUME NEW s \in Sats
      PROVE  /\ qs[s] \in Seq(Packets) /\ IsInjective(qs[s])
             /\ \A p \in Packets : p \in Range(qs[s]) <=> p \in H /\ w.pk[p].sat = s
  <2>1. Replaced(t, s) \subseteq Dirs /\ IsFiniteSet(Replaced(t, s))
    <3>1. Replaced(t, s) \subseteq Dirs
      BY DEF Replaced
    <3> QED
      BY <3>1, DirsAssumption, FS_Subset
  <2> DEFINE f == [d \in Replaced(t, s) |-> w.egress[s][d]]
  <2>3. f \in Surjection(Replaced(t, s), gone(s))
    BY DEF Surjection
  <2>4. IsFiniteSet(gone(s))
    <3> HIDE DEF f, gone
    <3> QED
      BY <2>1, <2>3, FS_Surjection
  <2>5. gone(s) \subseteq Seq(Packets)
    BY <1>1, <2>1, QueuesTyped
  <2>6. All(s) = UNION {Range(w.egress[s][d]) : d \in Replaced(t, s)}
    OBVIOUS
  <2>7. qs[s] \in Chained(gone(s))
    BY <1>3 DEF Drains
  <2>8. qs[s] \in Seq(Packets) /\ Range(qs[s]) = All(s) /\ IsInjective(qs[s])
    <3> HIDE DEF gone
    <3> QED
      BY <2>4, <2>5, <2>7, ChainedIs
  <2> HIDE DEF All
  <2>9. ASSUME NEW p \in Packets
        PROVE  p \in All(s) <=> p \in H /\ w.pk[p].sat = s
    <3>1. p \in All(s) <=> \E d \in Replaced(t, s) : p \in Range(w.egress[s][d])
      BY <2>6
    <3>2. p \in H <=> \E r \in Sats : \E d \in Replaced(t, r) : p \in Range(w.egress[r][d])
      BY DEF Removed
    <3>3. \A r \in Sats : \A d \in Replaced(t, r) : p \in Range(w.egress[r][d]) => w.pk[p].sat = r
      BY <1>1 DEF Placed, At, Replaced
    <3> HIDE DEF H, gone
    <3> QED
      BY <3>1, <3>2, <3>3
  <2> QED
    BY <2>8, <2>9
<1>5. qs \in [Sats -> Seq(Packets)]
  BY <1>3, <1>4
<1>6. H \subseteq Packets /\ \A p \in H : Emptied(t).pk[p].where \in {"egress", "down"}
  BY <1>2
<1>7. \A s \in Sats : /\ IsInjective(qs[s])
                      /\ \A p \in Packets : p \in Range(qs[s]) <=> p \in H /\ Emptied(t).pk[p].sat = s
  BY <1>2, <1>4
<1>8. Good(HeldAll(Emptied(t), qs), {}, t) /\ Final(Emptied(t), HeldAll(Emptied(t), qs))
  <2> HIDE DEF H, gone, All
  <2> QED
    BY <1>2, <1>5, <1>6, <1>7, HeldAllGood
<1> QED
  BY <1>2, <1>3, <1>8 DEF Final

LEMMA PendingTickGood ==
  ASSUME JInv, NEW s \in Sats, PendingTick(s)
  PROVE  Good(w', {}, topo) /\ Final(w, w')
<1>1. PICK v \in SweptHold(w, s) : w' \in SweptDown(Redecided(v, s), s)
  BY DEF PendingTick
<1>2. Good(v, {}, topo) /\ Final(w, v)
  BY SweptHoldGood DEF JInv
<1>3. Good(Redecided(v, s), {}, topo) /\ Final(v, Redecided(v, s))
  BY <1>2, RedecidedGood
<1>4. Good(w', {}, topo) /\ Final(Redecided(v, s), w')
  BY <1>1, <1>3, SweptDownGood
<1>5. Final(w, Redecided(v, s))
  BY <1>2, <1>3, FinalTrans
<1> QED
  BY <1>4, <1>5, FinalTrans

\* The wake that is set fires: its packets leave the queue with it.
LEMMA PendingWakeGood ==
  ASSUME JInv, NEW s \in Sats, PendingWake(s)
  PROVE  Good(w', {}, topo) /\ Final(w, w')
<1> DEFINE v == [w EXCEPT !.wakes[s] = w.wakes[s] \ {now}]
           x == [v EXCEPT !.wake[s] = None]
           y == Redecided(w, s)
<1>1. Good(w, {}, topo) /\ Typed(w)
      /\ w' = IF w.wake[s] = now THEN Redecided(x, s) ELSE v
  BY DEF JInv, Good, PendingWake
<1>2. w.wakes[s] \ {now} \in SUBSET Nat
  BY <1>1 DEF Typed
<1>3. CASE w.wake[s] # now
  <2>1. /\ Typed(v) /\ v.pk = w.pk /\ v.hold = w.hold /\ v.down = w.down /\ v.jobs = w.jobs
        /\ v.egress = w.egress /\ v.wake = w.wake /\ v.wakes[s] = w.wakes[s] \ {now}
        /\ \A r \in Sats \ {s} : v.wakes[r] = w.wakes[r]
    BY <1>1, <1>2 DEF Typed
  <2> HIDE DEF v
  <2>2. Woken(v)
    BY <1>1, <1>3, <2>1 DEF Good, Woken, Awaited
  <2>3. Short(v) /\ Single(v) /\ Placed(v, {})
    BY <1>1, <2>1 DEF Good, Short, Single, Placed, At
  <2>4. Fated(v, {}) /\ Pooled(v) /\ Looped(v, topo)
    BY <1>1, <2>1 DEF Good, Fated, Pooled, Looped
  <2>5. w' = v
    BY <1>1, <1>3
  <2> QED
    BY <2>1, <2>2, <2>3, <2>4, <2>5 DEF Good, Final
<1>4. CASE w.wake[s] = now
  <2>1. Good(y, {}, topo) /\ Final(w, y) /\ Typed(y)
    <3>1. Good(y, {}, topo) /\ Final(w, y)
      BY <1>1, RedecidedGood
    <3> QED
      BY <3>1 DEF Good
  <2>2. /\ y.wake = w.wake /\ y.wakes = w.wakes /\ y.hold[s] = <<>>
    BY <1>1 DEF Redecided, Typed
  <2> DEFINE z == [y EXCEPT !.wakes = [y.wakes EXCEPT ![s] = w.wakes[s] \ {now}],
                            !.wake = [y.wake EXCEPT ![s] = None]]
  <2>3. Redecided(x, s) = z
    BY <1>1 DEF Redecided, Typed
  <2> HIDE DEF y
  <2>4. /\ Typed(z) /\ z.pk = y.pk /\ z.hold = y.hold /\ z.down = y.down /\ z.jobs = y.jobs
        /\ z.egress = y.egress /\ z.wake[s] = None
        /\ \A r \in Sats \ {s} : z.wakes[r] = y.wakes[r] /\ z.wake[r] = y.wake[r]
    BY <1>2, <2>1 DEF Typed
  <2> HIDE DEF z
  <2>5. Woken(z)
    <3> SUFFICES ASSUME NEW r \in Sats
                 PROVE  /\ z.wake[r] # None => z.wake[r] \in z.wakes[r]
                        /\ \A p \in Range(z.hold[r]) : Awaited(z, p, r)
      BY DEF Woken
    <3>1. CASE r = s
      BY <2>2, <2>4, <3>1, EmptyQueue
    <3>2. CASE r # s
      BY <2>1, <2>4, <3>2 DEF Good, Woken, Awaited
    <3> QED
      BY <3>1, <3>2
  <2>6. Short(z) /\ Single(z) /\ Placed(z, {})
    BY <2>1, <2>4 DEF Good, Short, Single, Placed, At
  <2>7. Fated(z, {}) /\ Pooled(z) /\ Looped(z, topo)
    BY <2>1, <2>4 DEF Good, Fated, Pooled, Looped
  <2>8. Good(z, {}, topo) /\ Final(w, z)
    BY <2>1, <2>4, <2>5, <2>6, <2>7 DEF Good, Final
  <2> QED
    BY <1>1, <1>4, <2>3, <2>8
<1> QED
  BY <1>3, <1>4

\* The end of the run: every packet that a satellite received has its fate.
LEMMA StopGood ==
  ASSUME JInv, Stop
  PROVE  /\ Good(w', {}, topo) /\ Final(w, w')
         /\ \A p \in Packets : w'.pk[p].where \in {"ground", "gone"}
<1> DEFINE over(p) == w.pk[p].where \in {"ground", "gone"}
           f(p) == IF Queued(p) /\ Late(p) THEN "DATA_DEADLINE_EXPIRED" ELSE "IN_SYSTEM_AT_STOP"
           K == [p \in Packets |-> IF over(p) THEN w.pk[p] ELSE AsGone(w.pk[p], f(p))]
           none == [s \in Sats |-> <<>>]
           nowhere == [s \in Sats |-> [d \in Dirs |-> <<>>]]
<1>1. Good(w, {}, topo) /\ Typed(w)
  BY DEF JInv, Good
<1>2. w' = [w EXCEPT !.pk = K, !.hold = none, !.down = none, !.egress = nowhere, !.jobs = none]
  BY DEF Stop, Start, AsGone
<1>3. /\ <<>> \in Seq(Packets) /\ Len(<<>>) = 0 /\ Range(<<>>) = {} /\ IsInjective(<<>>)
      /\ DOMAIN <<>> = {}
  BY EmptyQueue
<1>4. none \in [Sats -> Seq(Packets)] /\ nowhere \in [Sats -> [Dirs -> Seq(Packets)]]
  BY <1>3
<1>5. ASSUME NEW p \in Packets
      PROVE  /\ K[p] \in PacketStates /\ K[p].where \in {"ground", "gone"}
             /\ K[p].fate = "none" <=> K[p].where # "gone"
             /\ w.pk[p].fate # "none" => K[p] = w.pk[p]
             /\ K[p].path = w.pk[p].path /\ (K[p].where = "ground" => K[p] = w.pk[p])
  <2>1. w.pk[p] \in PacketStates /\ (w.pk[p].fate = "none" <=> w.pk[p].where # "gone")
    BY <1>1 DEF Good, Typed, Fated
  <2>2. f(p) \in Fates /\ f(p) # "none"
    BY DEF Fates
  <2> HIDE DEF f
  <2>3. LET k == AsGone(w.pk[p], f(p))
        IN  k \in PacketStates /\ k.where = "gone" /\ k.fate = f(p) /\ k.path = w.pk[p].path
    BY <2>1, <2>2 DEF AsGone, PacketStates, Places
  <2>4. K[p] = IF over(p) THEN w.pk[p] ELSE AsGone(w.pk[p], f(p))
    BY DEF f
  <2> HIDE DEF K
  <2> QED
    BY <2>1, <2>2, <2>3, <2>4
<1>6. K \in [Packets -> PacketStates]
  <2>1. \A p \in Packets : K[p] \in PacketStates
    BY <1>5
  <2>2. K = [p \in Packets |-> K[p]]
    OBVIOUS
  <2> HIDE DEF K
  <2> QED
    BY <2>1, <2>2
<1> HIDE DEF K
<1>7. /\ Typed(w') /\ w'.pk = K /\ w'.wake = w.wake /\ w'.wakes = w.wakes
      /\ \A s \in Sats : /\ w'.hold[s] = <<>> /\ w'.down[s] = <<>> /\ w'.jobs[s] = <<>>
                         /\ \A d \in Dirs : w'.egress[s][d] = <<>>
  BY <1>1, <1>2, <1>4, <1>6 DEF Typed
<1>8. Short(w') /\ Single(w')
  BY <1>3, <1>7, SizesAssumption DEF Short, Single
<1>9. Placed(w', {})
  BY <1>3, <1>5, <1>7 DEF Placed, At
<1>10. Fated(w', {})
  BY <1>5, <1>7 DEF Fated
<1>11. Pooled(w')
  BY <1>3, <1>7 DEF Pooled
<1>12. Looped(w', topo)
  BY <1>1, <1>3, <1>5, <1>7 DEF Looped, Good
<1>13. Woken(w')
  BY <1>1, <1>3, <1>7 DEF Woken, Good
<1> QED
  BY <1>5, <1>7, <1>8, <1>9, <1>10, <1>11, <1>12, <1>13 DEF Good, Final

-----------------------------------------------------------------------------
(* The invariant is inductive.                                             *)

\* Good speaks of now and mode as well; unless they change, it speaks of the
\* next packets and topology after the step.
LEMMA GoodNext ==
  ASSUME Good(w', {}, topo'), now' = now, mode' = mode
  PROVE  Good(w, {}, topo)'
<1>1. Typed(w)' /\ Short(w)' /\ Single(w)' /\ Placed(w, {})' /\ Fated(w, {})' /\ Pooled(w)'
  <2>1. Typed(w)' /\ Short(w)' /\ Single(w)'
    BY DEF Good, Typed, Short, Single
  <2>2. Placed(w, {})' /\ Fated(w, {})' /\ Pooled(w)'
    BY DEF Good, Placed, At, Fated, Pooled
  <2> QED
    BY <2>1, <2>2
<1>2. Looped(w, topo)'
  BY DEF Good, Looped
<1>3. Woken(w)'
  BY DEF Good, Woken, Awaited
<1> QED
  BY <1>1, <1>2, <1>3 DEF Good

\* Time that passes brings deadlines nearer, and no deadline ahead.
LEMMA AdvanceGood ==
  ASSUME JInv, NEW a \in Servings, Advance(a)
  PROVE  Good(w, {}, topo)' /\ Final(w, w')
<1>1. Good(w, {}, topo) /\ now \in Nat /\ now' = now + 1 /\ w' = w /\ topo' = topo /\ mode' = mode
  BY Clock DEF JInv, Advance
<1>2. Typed(w)' /\ Short(w)' /\ Single(w)' /\ Placed(w, {})' /\ Fated(w, {})' /\ Pooled(w)'
  <2>1. Typed(w)' /\ Short(w)' /\ Single(w)'
    BY <1>1 DEF Good, Typed, Short, Single
  <2>2. Placed(w, {})' /\ Fated(w, {})' /\ Pooled(w)'
    BY <1>1 DEF Good, Placed, At, Fated, Pooled
  <2> QED
    BY <2>1, <2>2
<1>3. Looped(w, topo)'
  BY <1>1 DEF Good, Looped
<1>4. Woken(w)'
  <2>1. ASSUME NEW s \in Sats, NEW p \in Range(w.hold[s])
        PROVE  w.pk[p].armed /\ now + 1 < Deadline[p] /\ Deadline[p] < Horizon =>
                 w.wake[s] # None /\ w.wake[s] =< Deadline[p]
    <3>1. p \in Packets
      BY <1>1, QueuesTyped, Members DEF Good
    <3>2. Deadline[p] \in Nat
      BY <3>1, DeadlineAssumption
    <3>3. Awaited(w, p, s)
      BY <1>1 DEF Good, Woken
    <3> QED
      BY <1>1, <3>2, <3>3 DEF Awaited
  <2> QED
    BY <1>1, <2>1 DEF Good, Woken, Awaited
<1> QED
  BY <1>1, <1>2, <1>3, <1>4 DEF Good, Final

LEMMA JourneyInit == Init => JInv
<1> SUFFICES ASSUME Init PROVE JInv
  OBVIOUS
<1> DEFINE k == [where |-> "ground", sat |-> None, path |-> <<>>, until |-> None,
                 obs |-> NoObs, armed |-> FALSE, fate |-> "none"]
<1>1. /\ <<>> \in Seq(Packets) /\ Len(<<>>) = 0 /\ Range(<<>>) = {} /\ IsInjective(<<>>)
      /\ DOMAIN <<>> = {} /\ <<>> \in Seq(Sats)
  <2>1. <<>> \in Seq(Packets) /\ Len(<<>>) = 0 /\ Range(<<>>) = {} /\ IsInjective(<<>>)
    BY EmptyQueue
  <2>2. <<>> \in Seq(Sats)
    BY EmptyQueue
  <2> QED
    BY <2>1, <2>2
<1>2. k \in PacketStates
  BY <1>1 DEF PacketStates, Places, Fates, NoObs, Observations
<1>3. w = Start
  BY DEF Init
<1>4. /\ Typed(w) /\ \A p \in Packets : w.pk[p] = k
      /\ \A s \in Sats : /\ w.hold[s] = <<>> /\ w.down[s] = <<>> /\ w.jobs[s] = <<>>
                         /\ w.wake[s] = None
                         /\ \A d \in Dirs : w.egress[s][d] = <<>>
  <2> HIDE DEF k
  <2>1. w = [pk |-> [p \in Packets |-> k], egress |-> [s \in Sats |-> [d \in Dirs |-> <<>>]],
             down |-> [s \in Sats |-> <<>>], hold |-> [s \in Sats |-> <<>>],
             jobs |-> [s \in Sats |-> <<>>], wake |-> [s \in Sats |-> None],
             wakes |-> [s \in Sats |-> {}]]
    BY <1>3 DEF Start, k
  <2> QED
    BY <1>1, <1>2, <2>1 DEF Typed
<1> HIDE DEF k
<1>5. k.where = "ground" /\ k.fate = "none" /\ k.path = <<>>
  BY DEF k
<1>6. Short(w) /\ Single(w)
  BY <1>1, <1>4, SizesAssumption DEF Short, Single
<1>7. Placed(w, {})
  BY <1>1, <1>4, <1>5 DEF Placed, At
<1>8. Fated(w, {})
  BY <1>4, <1>5 DEF Fated
<1>9. Pooled(w)
  BY <1>1, <1>4 DEF Pooled
<1>10. Looped(w, topo)
  BY <1>1, <1>4, <1>5 DEF Looped
<1>11. Woken(w)
  BY <1>1, <1>4 DEF Woken
<1>12. Good(w, {}, topo)
  BY <1>4, <1>6, <1>7, <1>8, <1>9, <1>10, <1>11 DEF Good
<1>13. /\ now \in 0 .. Horizon /\ mode \in Modes /\ topo \in Topologies /\ serving \in Servings
       /\ due \subseteq Sats \cup {"topology"} /\ crashed \in BOOLEAN /\ stopped \in BOOLEAN
       /\ ~ stopped
  <2>1. now \in 0 .. Horizon
    BY SizesAssumption DEF Init
  <2>2. /\ mode \in Modes /\ topo \in Topologies /\ serving \in Servings
        /\ due = {} /\ crashed = FALSE /\ stopped = FALSE
    BY DEF Init
  <2>3. due \subseteq Sats \cup {"topology"}
    BY <2>2
  <2> QED
    BY <2>1, <2>2, <2>3, Zenon
<1> QED
  BY <1>12, <1>13 DEF JInv

\* What every step of a run keeps besides the packets.
Frame ==
  /\ now' = now /\ mode' = mode /\ topo' = topo /\ serving' = serving /\ stopped' = stopped
  /\ ~ stopped /\ due' \subseteq Sats \cup {"topology"} /\ crashed' \in BOOLEAN

LEMMA FramedStep ==
  ASSUME JInv, Frame, Good(w', {}, topo)
  PROVE  JInv'
<1>1. Good(w', {}, topo') /\ now' = now /\ mode' = mode
  BY DEF Frame
<1>2. Good(w, {}, topo)'
  BY <1>1, GoodNext
<1>3. /\ now' \in 0 .. Horizon /\ mode' \in Modes /\ topo' \in Topologies /\ serving' \in Servings
      /\ due' \subseteq Sats \cup {"topology"} /\ crashed' \in BOOLEAN /\ stopped' \in BOOLEAN
      /\ ~ stopped'
  BY DEF JInv, Frame
<1> QED
  BY <1>2, <1>3 DEF JInv

LEMMA JourneyStep ==
  ASSUME JInv, [Next]_vars
  PROVE  JInv' /\ Final(w, w')
<1>1. ASSUME NEW p \in Packets, Commit(p) \/ Arrive(p) \/ Ask(p) \/ Land(p)
      PROVE  JInv' /\ Final(w, w')
  <2>1. Good(w', {}, topo) /\ Final(w, w')
    BY <1>1, CommitGood, ArriveGood, AskGood, LandGood
  <2>2. Frame
    <3>1. CASE Commit(p)
      BY <3>1 DEF Commit, DecideFrozen, Running, Frame, JInv
    <3>2. CASE Arrive(p) \/ Ask(p) \/ Land(p)
      BY <3>2 DEF Arrive, Ask, Land, Running, Frame, JInv
    <3> QED
      BY <1>1, <3>1, <3>2
  <2> QED
    BY <2>1, <2>2, FramedStep
<1>2. ASSUME NEW p \in Packets, NEW s \in Sats, Uplink(p, s) PROVE JInv' /\ Final(w, w')
  <2>1. Good(w', {}, topo) /\ Final(w, w')
    BY <1>2, UplinkGood
  <2>2. Frame
    BY <1>2 DEF Uplink, Running, Frame, JInv
  <2> QED
    BY <2>1, <2>2, FramedStep
<1>3. ASSUME NEW s \in Sats, NEW d \in Dirs, Transmit(s, d) PROVE JInv' /\ Final(w, w')
  <2>1. Good(w', {}, topo) /\ Final(w, w')
    BY <1>3, TransmitGood
  <2>2. Frame
    BY <1>3 DEF Transmit, Running, Frame, JInv
  <2> QED
    BY <2>1, <2>2, FramedStep
<1>4. ASSUME NEW s \in Sats, Downlink(s) \/ DrainDown(s) \/ PendingTick(s) \/ PendingWake(s)
      PROVE  JInv' /\ Final(w, w')
  <2>1. Good(w', {}, topo) /\ Final(w, w')
    BY <1>4, DownlinkGood, DrainDownGood, PendingTickGood, PendingWakeGood
  <2>2. Frame
    BY <1>4 DEF Downlink, DrainDown, PendingTick, PendingWake, Running, Frame, JInv
  <2> QED
    BY <2>1, <2>2, FramedStep
<1>5. ASSUME NEW t \in Topologies, Rematch(t) PROVE JInv' /\ Final(w, w')
  <2>1. Good(w', {}, t) /\ Final(w, w')
    BY <1>5, RematchGood
  <2>2. /\ topo' = t /\ now' = now /\ mode' = mode /\ serving' = serving /\ crashed' = crashed
        /\ stopped' = stopped /\ ~ stopped /\ due' \subseteq Sats \cup {"topology"}
    BY <1>5 DEF Rematch, Running, JInv
  <2>3. Good(w, {}, topo)'
    BY <2>1, <2>2, GoodNext
  <2> QED
    BY <2>1, <2>2, <2>3 DEF JInv
<1>6. ASSUME NEW a \in Servings, Advance(a) PROVE JInv' /\ Final(w, w')
  <2>1. Good(w, {}, topo)' /\ Final(w, w')
    BY <1>6, AdvanceGood
  <2>2. /\ now' = now + 1 /\ now < Horizon /\ serving' = a /\ mode' = mode /\ topo' = topo
        /\ crashed' = crashed /\ stopped' = stopped /\ ~ stopped
        /\ due' \subseteq Sats \cup {"topology"}
    BY <1>6 DEF Advance, Running
  <2>3. now' \in 0 .. Horizon
    BY <2>2, SizesAssumption DEF JInv
  <2> QED
    BY <2>1, <2>2, <2>3 DEF JInv
<1>7. CASE Stop
  <2>1. /\ Good(w', {}, topo) /\ Final(w, w')
        /\ \A p \in Packets : w'.pk[p].where \in {"ground", "gone"}
    BY <1>7, StopGood
  <2>2. /\ now' = now /\ mode' = mode /\ topo' = topo /\ serving' = serving /\ due' = due
        /\ crashed' = crashed /\ stopped' = TRUE
    BY <1>7 DEF Stop
  <2>3. Good(w, {}, topo)'
    BY <2>1, <2>2, GoodNext
  <2> QED
    BY <2>1, <2>2, <2>3 DEF JInv
<1>8. CASE UNCHANGED vars
  <2>1. /\ now' = now /\ mode' = mode /\ topo' = topo /\ serving' = serving /\ due' = due
        /\ crashed' = crashed /\ stopped' = stopped /\ w' = w
    BY <1>8 DEF vars
  <2>2. Good(w', {}, topo')
    BY <2>1 DEF JInv
  <2>3. Good(w, {}, topo)'
    BY <2>1, <2>2, GoodNext
  <2> QED
    BY <2>1, <2>3 DEF JInv, Final
<1> QED
  BY <1>1, <1>2, <1>3, <1>4, <1>5, <1>6, <1>7, <1>8 DEF Next, Over

\* The packets, queues, pools and wakes are always as the invariant says.
THEOREM JourneyInvariant == Spec => []JInv
<1>1. Init => JInv
  BY JourneyInit
<1>2. JInv /\ [Next]_vars => JInv'
  BY JourneyStep
<1> QED
  BY <1>1, <1>2, PTL DEF Spec

-----------------------------------------------------------------------------
(* What the runs check, for every constellation.                           *)

LEMMA CountOnLinks ==
  ASSUME NEW s \in Sats, NEW p \in Packets, Good(w, {}, topo)
  PROVE  Cardinality({x \in UNION {{d} \X DOMAIN w.egress[s][d] : d \in Dirs} :
                        w.egress[s][x[1]][x[2]] = p})
           = IF \E d \in Dirs : p \in Range(w.egress[s][d]) THEN 1 ELSE 0
<1> DEFINE X == {x \in UNION {{d} \X DOMAIN w.egress[s][d] : d \in Dirs} :
                   w.egress[s][x[1]][x[2]] = p}
<1>1. \A x : x \in X <=> \E d \in Dirs : \E i \in DOMAIN w.egress[s][d] :
                           x = <<d, i>> /\ w.egress[s][d][i] = p
  <2> SUFFICES ASSUME NEW x
               PROVE  x \in X <=> \E d \in Dirs : \E i \in DOMAIN w.egress[s][d] :
                                    x = <<d, i>> /\ w.egress[s][d][i] = p
    OBVIOUS
  <2>1. ASSUME x \in X PROVE \E d \in Dirs : \E i \in DOMAIN w.egress[s][d] :
                               x = <<d, i>> /\ w.egress[s][d][i] = p
    <3>1. PICK d \in Dirs : x \in {d} \X DOMAIN w.egress[s][d]
      BY <2>1
    <3>2. PICK i \in DOMAIN w.egress[s][d] : x = <<d, i>>
      BY <3>1
    <3>3. w.egress[s][d][i] = p
      BY <2>1, <3>2
    <3> QED
      BY <3>2, <3>3
  <2>2. ASSUME NEW d \in Dirs, NEW i \in DOMAIN w.egress[s][d], x = <<d, i>>,
               w.egress[s][d][i] = p
        PROVE  x \in X
    <3>1. x \in {d} \X DOMAIN w.egress[s][d] /\ x[1] = d /\ x[2] = i
      BY <2>2
    <3> QED
      BY <2>2, <3>1
  <2> QED
    BY <2>1, <2>2
<1> HIDE DEF X
<1>2. CASE \E d \in Dirs : p \in Range(w.egress[s][d])
  <2>1. PICK d \in Dirs : p \in Range(w.egress[s][d])
    BY <1>2
  <2>2. PICK i \in DOMAIN w.egress[s][d] : w.egress[s][d][i] = p
    BY <2>1 DEF Range
  <2>3. ASSUME NEW e \in Dirs, NEW j \in DOMAIN w.egress[s][e], w.egress[s][e][j] = p
        PROVE  e = d /\ j = i
    <3>1. p \in Range(w.egress[s][e])
      BY <2>3 DEF Range
    <3>2. e = d
      BY <2>1, <3>1 DEF Good, Placed
    <3> QED
      BY <2>2, <2>3, <3>2 DEF Good, Single, IsInjective
  <2>4. X = {<<d, i>>}
    BY <1>1, <2>2, <2>3
  <2> QED
    BY <1>2, <2>4, FS_Singleton DEF X
<1>3. CASE ~ \E d \in Dirs : p \in Range(w.egress[s][d])
  <2>1. X = {}
    BY <1>1, <1>3 DEF Range
  <2> QED
    BY <1>3, <2>1, FS_EmptySet DEF X
<1> QED
  BY <1>2, <1>3

LEMMA TrackedFromInvariant == JInv => PacketsAreTracked
<1> SUFFICES ASSUME JInv PROVE PacketsAreTracked
  OBVIOUS
<1>1. Good(w, {}, topo) /\ Typed(w) /\ Short(w) /\ Single(w) /\ Placed(w, {})
  BY DEF JInv, Good
<1>2. TypeOK
  <2>1. ASSUME NEW p \in Packets
        PROVE  /\ w.pk[p].where \in Places /\ w.pk[p].fate \in Fates /\ w.pk[p].obs \in Observations
               /\ w.pk[p].sat \in Sats \cup {None} /\ w.pk[p].path \in Seq(Sats)
               /\ w.pk[p].until \in Nat \cup {None} /\ w.pk[p].armed \in BOOLEAN
    <3>1. w.pk[p] \in PacketStates
      BY <1>1 DEF Typed
    <3> QED
      BY <3>1 DEF PacketStates
  <2>2. ASSUME NEW s \in Sats
        PROVE  /\ \A d \in Dirs : w.egress[s][d] \in Seq(Packets) /\ Len(w.egress[s][d]) =< Room
               /\ w.down[s] \in Seq(Packets) /\ Len(w.down[s]) =< DownRoom
               /\ w.hold[s] \in Seq(Packets) /\ Len(w.hold[s]) =< HoldRoom
               /\ w.jobs[s] \in Seq(Packets) /\ w.wake[s] \in Nat \cup {None}
               /\ w.wakes[s] \subseteq Nat
    BY <1>1, QueuesTyped DEF Short
  <2> QED
    BY <2>1, <2>2 DEF TypeOK, JInv
<1>3. PacketAccounted
  <2> SUFFICES ASSUME NEW p \in Packets, NEW s \in Sats
               PROVE  LET here(place) == IF w.pk[p].where = place /\ w.pk[p].sat = s THEN 1 ELSE 0
                      IN  /\ Count(w.hold[s], p) = here("held")
                          /\ Count(w.down[s], p) = here("down")
                          /\ Count(w.jobs[s], p) = here("job")
                          /\ Cardinality({x \in UNION {{d} \X DOMAIN w.egress[s][d] : d \in Dirs} :
                                            w.egress[s][x[1]][x[2]] = p}) = here("egress")
    BY DEF PacketAccounted
  <2>1. /\ Count(w.hold[s], p) = IF p \in Range(w.hold[s]) THEN 1 ELSE 0
        /\ Count(w.down[s], p) = IF p \in Range(w.down[s]) THEN 1 ELSE 0
        /\ Count(w.jobs[s], p) = IF p \in Range(w.jobs[s]) THEN 1 ELSE 0
    <3>1. /\ w.hold[s] \in Seq(Packets) /\ IsInjective(w.hold[s])
          /\ w.down[s] \in Seq(Packets) /\ IsInjective(w.down[s])
          /\ w.jobs[s] \in Seq(Packets) /\ IsInjective(w.jobs[s])
      BY <1>1, QueuesTyped DEF Single
    <3> QED
      BY <3>1, CountInQueue
  <2>2. Cardinality({x \in UNION {{d} \X DOMAIN w.egress[s][d] : d \in Dirs} :
                       w.egress[s][x[1]][x[2]] = p})
          = IF \E d \in Dirs : p \in Range(w.egress[s][d]) THEN 1 ELSE 0
    BY <1>1, CountOnLinks
  <2>3. /\ p \in Range(w.hold[s]) <=> w.pk[p].where = "held" /\ w.pk[p].sat = s
        /\ p \in Range(w.down[s]) <=> w.pk[p].where = "down" /\ w.pk[p].sat = s
        /\ p \in Range(w.jobs[s]) <=> w.pk[p].where = "job" /\ w.pk[p].sat = s
        /\ (\E d \in Dirs : p \in Range(w.egress[s][d])) <=> w.pk[p].where = "egress" /\ w.pk[p].sat = s
    BY <1>1 DEF Placed, At
  <2> QED
    BY <2>1, <2>2, <2>3
<1>4. PoolIsBusy
  BY <1>1 DEF Good, Pooled, PoolIsBusy
<1> QED
  BY <1>2, <1>3, <1>4 DEF PacketsAreTracked

\* Re-decisions, rematches, lost associations and expiries neither lose nor
\* copy a packet: it is in exactly the queue its place names, once; the queues
\* keep their bounds, and no compute server idles while a request waits.
THEOREM PacketsAreTrackedAlways == Spec => []PacketsAreTracked
BY JourneyInvariant, TrackedFromInvariant, PTL

\* In refresh mode the path of a packet visits no satellite twice, whatever
\* rematches happen between a decision and the transmission it led to.
THEOREM NoRevisitAlways == Spec => []NoRevisit
<1>1. JInv => NoRevisit
  BY DEF JInv, Good, Looped, NoRevisit
<1> QED
  BY <1>1, JourneyInvariant, PTL

\* A packet that a decision parked has a wake no later than its deadline that
\* is still scheduled: replacing or firing wakes never leaves it behind.
THEOREM DeadlineIsArmedAlways == Spec => []DeadlineIsArmed
<1>1. ASSUME JInv PROVE DeadlineIsArmed
  <2> SUFFICES ASSUME NEW s \in Sats, NEW p \in Range(w.hold[s]),
                      w.pk[p].armed, ~ Late(p), Deadline[p] < Horizon
               PROVE  w.wake[s] \in w.wakes[s] /\ w.wake[s] =< Deadline[p]
    BY DEF DeadlineIsArmed
  <2>1. Woken(w) /\ Typed(w)
    BY <1>1 DEF JInv, Good
  <2>2. p \in Packets
    BY <2>1, QueuesTyped, Members
  <2>3. now < Deadline[p]
    BY <2>2, Clock, <1>1, DeadlineAssumption DEF Late
  <2> QED
    BY <2>1, <2>3 DEF Woken, Awaited
<1> QED
  BY <1>1, JourneyInvariant, PTL

\* Nothing happens to a packet that has its fate, and a run that stops leaves
\* no packet that a satellite received without one.
THEOREM FateIsFinalAlways == Spec => FateIsFinal
<1>1. ASSUME JInv, [Next]_vars
      PROVE  [\A p \in Packets : /\ w.pk[p].fate # "none" => w'.pk[p] = w.pk[p]
                                 /\ stopped' => w'.pk[p].where \in {"ground", "gone"}]_vars
  BY <1>1, JourneyStep DEF Final, JInv
<1> QED
  BY <1>1, JourneyInvariant, PTL DEF Spec, FateIsFinal

=============================================================================
