-------------------------- MODULE InformationProofs --------------------------
(***************************************************************************)
(* The components by which information reaches a decision, for every value *)
(* of their constants.                                                     *)
(***************************************************************************)
EXTENDS MCInformation, FiniteSetTheorems, FunctionTheorems, SequenceTheorems,
        WellFoundedInduction, TLAPS

-----------------------------------------------------------------------------
(* Advertisements.  Old news stays old, and nothing is heard beyond vis_k  *)
(* hops, for every number of satellites, every sequence of topologies and  *)
(* any pattern of delay and loss.  The relay trees are never looked at:    *)
(* both facts rest on the age that cache entries are compared by and on    *)
(* the hop budget that a copy carries.                                     *)
(*                                                                         *)
(* Sound is the inductive invariant: a report of an earlier instant never  *)
(* says more than one of a later instant, wherever the two are.            *)

Entry == [seq : Nat, gen : Int, says : Nat, hops : Nat]

StateTyped ==
  /\ now \in Nat /\ seq \in Nat
  /\ serving \in [Origins -> Nat]
  /\ heard \in [FloodSats -> SUBSET (Origins \X Nat)]
  /\ cache \in [FloodSats -> [Origins -> Entry]]

CopiesSound ==
  \A m \in flight :
    /\ m.origin \in Origins /\ m.seq \in 1..seq /\ m.gen \in 0..now
    /\ m.says \in 0..serving[m.origin] /\ m.left \in 1..VisK

CachesSound ==
  \A s \in FloodSats, o \in Origins :
    cache[s][o].gen =< now /\ cache[s][o].says =< serving[o]

HeardIsNumbered == \A s \in FloodSats : \A h \in heard[s] : h[2] =< seq

CopiesOrdered ==
  \A m, n \in flight : m.origin = n.origin /\ m.gen < n.gen => m.says =< n.says

CachesOrdered ==
  \A s \in FloodSats : \A m \in flight :
    cache[s][m.origin].gen < m.gen => cache[s][m.origin].says =< m.says

Sound ==
  /\ StateTyped /\ CopiesSound /\ CachesSound /\ HeardIsNumbered
  /\ CopiesOrdered /\ CachesOrdered /\ WithinReach

-----------------------------------------------------------------------------
\* The start: nothing is on the way and nobody has heard anything.
LEMMA InitSound == FloodInit => Sound
BY FloodAssumption
   DEF FloodInit, Sound, StateTyped, CopiesSound, CachesSound, HeardIsNumbered,
       CopiesOrdered, CachesOrdered, WithinReach, Entry, NoEntry

\* A report of s: says is what it now serves, and the serving set only counts up.
LEMMA AdvertiseSound ==
  ASSUME Sound, NEW s \in Origins, NEW says \in Nat, Advertise(s, says),
         serving' \in [Origins -> Nat], serving'[s] = says,
         \A o \in Origins : serving[o] =< serving'[o],
         UNCHANGED <<now, cache>>
  PROVE  Sound' /\ RelayedOnce /\ KnowledgeNeverAges
<1> DEFINE ad == [origin |-> s, seq |-> seq + 1, gen |-> now, says |-> says]
<1> USE FloodAssumption
<1>1. PICK kids, fate : flight' = flight \cup Copies(ad, s, kids, VisK, fate)
  BY DEF Advertise
<1> DEFINE new == Copies(ad, s, kids, VisK, fate)
<1>2. \A m \in new : /\ m.origin = s /\ m.seq = seq + 1 /\ m.gen = now /\ m.says = says
                     /\ m.from = s /\ m.left = VisK
  BY DEF Copies
<1> HIDE DEF new
<1>3. flight' = flight \cup new
  BY <1>1 DEF new
<1>4. seq' = seq + 1 /\ heard' = [heard EXCEPT ![s] = @ \cup {<<s, seq + 1>>}]
  BY DEF Advertise
<1>5. StateTyped'
  <2>1. /\ now \in Nat /\ seq \in Nat /\ cache \in [FloodSats -> [Origins -> Entry]]
        /\ heard \in [FloodSats -> SUBSET (Origins \X Nat)] /\ <<s, seq + 1>> \in Origins \X Nat
    BY DEF Sound, StateTyped
  <2>2. heard' \in [FloodSats -> SUBSET (Origins \X Nat)]
    BY ONLY <1>4, <2>1
  <2>3. seq' \in Nat /\ now' = now /\ cache' = cache
    BY <1>4, <2>1
  <2> QED
    BY ONLY <2>1, <2>2, <2>3, serving' \in [Origins -> Nat] DEF StateTyped
<1>6. CopiesSound'
  <2>1. ASSUME NEW m \in flight
        PROVE  m.says \in 0..serving'[m.origin] /\ m.seq \in 1..seq'
    <3>1. /\ m.origin \in Origins /\ m.seq \in 1..seq /\ m.says \in 0..serving[m.origin]
      BY DEF Sound, CopiesSound
    <3>2. /\ serving[m.origin] \in Nat /\ serving'[m.origin] \in Nat /\ seq \in Nat
          /\ serving[m.origin] =< serving'[m.origin]
      BY <3>1 DEF Sound, StateTyped
    <3> QED
      BY <1>4, <3>1, <3>2
  <2>2. ASSUME NEW m \in new
        PROVE  m.says \in 0..serving'[m.origin] /\ m.seq \in 1..seq' /\ m.gen \in 0..now
    BY <1>2, <1>4 DEF Sound, StateTyped
  <2> QED
    BY <1>2, <1>3, <2>1, <2>2 DEF Sound, CopiesSound
<1>7. CachesSound'
  BY DEF Sound, CachesSound, StateTyped, Entry
<1>8. HeardIsNumbered'
  BY <1>4 DEF Sound, HeardIsNumbered, StateTyped
<1>9. CopiesOrdered'
  BY <1>2, <1>3 DEF Sound, CopiesOrdered, CopiesSound, StateTyped
<1>10. CachesOrdered'
  BY <1>2, <1>3 DEF Sound, CachesOrdered, CachesSound, StateTyped, Entry
<1>11. WithinReach'
  BY DEF Sound, WithinReach
<1>12. RelayedOnce
  <2>1. seq \in Nat /\ s \in FloodSats /\ \A h \in heard[s] : h[2] =< seq
    BY DEF Sound, HeardIsNumbered, StateTyped
  <2>2. <<s, seq + 1>>[2] = seq + 1 /\ ~(seq + 1 =< seq)
    BY ONLY <2>1
  <2>3. <<s, seq + 1>> \notin heard[s]
    BY ONLY <2>1, <2>2
  <2> QED
    BY <1>2, <1>3, <2>3 DEF RelayedOnce
<1>13. KnowledgeNeverAges
  <2>1. \A t \in FloodSats, o \in Origins : cache[t][o].says \in Nat
    BY DEF Sound, StateTyped, Entry
  <2> QED
    BY <2>1 DEF KnowledgeNeverAges
<1> QED
  BY <1>5, <1>6, <1>7, <1>8, <1>9, <1>10, <1>11, <1>12, <1>13 DEF Sound

\* What reports and rematches leave alone is as sound as before.
LEMMA QuietSound ==
  ASSUME Sound, UNCHANGED <<seq, heard, cache, flight>>, now' \in Nat, now =< now',
         serving' \in [Origins -> Nat], \A o \in Origins : serving[o] =< serving'[o]
  PROVE  Sound' /\ RelayedOnce /\ KnowledgeNeverAges
<1>1. StateTyped' /\ HeardIsNumbered' /\ CopiesOrdered' /\ CachesOrdered' /\ WithinReach'
  BY DEF Sound, StateTyped, HeardIsNumbered, CopiesOrdered, CachesOrdered, WithinReach
<1>2. CopiesSound'
  BY DEF Sound, StateTyped, CopiesSound
<1>3. CachesSound'
  BY DEF Sound, StateTyped, CachesSound, Entry
<1>4. RelayedOnce /\ KnowledgeNeverAges
  BY DEF RelayedOnce, KnowledgeNeverAges, Sound, StateTyped, Entry
<1> QED
  BY <1>1, <1>2, <1>3, <1>4 DEF Sound

\* A copy that is dropped on arrival, expired or a duplicate.
LEMMA DroppedSound ==
  ASSUME Sound, NEW m \in flight, flight' = flight \ {m},
         UNCHANGED <<now, serving, seq, heard, cache>>
  PROVE  Sound' /\ RelayedOnce /\ KnowledgeNeverAges
BY DEF Sound, StateTyped, CopiesSound, CachesSound, HeardIsNumbered, CopiesOrdered,
       CachesOrdered, WithinReach, RelayedOnce, KnowledgeNeverAges, Entry

\* Every entry of every cache is one.
LEMMA EntriesTyped ==
  ASSUME Sound, NEW s \in FloodSats, NEW o \in Origins
  PROVE  cache[s][o] \in Entry
BY DEF Sound, StateTyped

\* A copy that is accepted: it replaces an older entry only, and is passed on
\* with one hop less.
LEMMA AcceptedSound ==
  ASSUME Sound, NEW m \in flight, ~ Duplicate(m),
         heard' = [heard EXCEPT ![m.to] = @ \cup {<<m.origin, m.seq>>}],
         cache' = [cache EXCEPT ![m.to][m.origin] = Put(@, m)],
         NEW kids, NEW fate, kids # {} => MayRelay(m),
         flight' = (flight \ {m}) \cup Copies(m, m.to, kids, m.left - 1, fate),
         UNCHANGED <<now, serving, seq>>
  PROVE  Sound' /\ RelayedOnce /\ KnowledgeNeverAges
<1> USE FloodAssumption
<1> DEFINE new == Copies(m, m.to, kids, m.left - 1, fate)
<1>1. \A n \in new : /\ n.origin = m.origin /\ n.seq = m.seq /\ n.gen = m.gen
                     /\ n.says = m.says /\ n.from = m.to /\ n.left = m.left - 1
  BY DEF Copies
<1>2. new # {} => m.left > 1
  BY DEF Copies, MayRelay
<1> HIDE DEF new
<1>3. flight' = (flight \ {m}) \cup new
  BY DEF new
<1>4. /\ m.origin \in Origins /\ m.seq \in 1..seq /\ m.gen \in 0..now
      /\ m.says \in 0..serving[m.origin] /\ m.left \in 1..VisK
  BY DEF Sound, CopiesSound
<1>5. m.to \in FloodSats => Put(cache[m.to][m.origin], m) \in Entry
  <2>1. m.to \in FloodSats => cache[m.to][m.origin] \in Entry
    BY <1>4, EntriesTyped
  <2>2. VisK - m.left + 1 \in Nat /\ m.seq \in Nat /\ m.gen \in Int /\ m.says \in Nat
    BY <1>4 DEF Sound, StateTyped
  <2> QED
    BY <2>1, <2>2 DEF Put, Entry
<1>6. /\ StateTyped'
      /\ \A s \in FloodSats, o \in Origins :
           cache'[s][o] = IF s = m.to /\ o = m.origin THEN Put(cache[s][o], m) ELSE cache[s][o]
  <2>1. cache \in [FloodSats -> [Origins -> Entry]]
    BY DEF Sound, StateTyped
  <2>2. cache' \in [FloodSats -> [Origins -> Entry]]
    BY <1>4, <1>5, <2>1
  <2>3. heard' \in [FloodSats -> SUBSET (Origins \X Nat)]
    <3>1. <<m.origin, m.seq>> \in Origins \X Nat
      BY <1>4 DEF Sound, StateTyped
    <3>2. heard \in [FloodSats -> SUBSET (Origins \X Nat)]
      BY DEF Sound, StateTyped
    <3> QED
      BY <3>1, <3>2
  <2>4. StateTyped'
    BY <2>2, <2>3 DEF Sound, StateTyped
  <2> QED
    BY <1>4, <2>1, <2>4
<1>7. CopiesSound'
  BY <1>1, <1>2, <1>3, <1>4 DEF Sound, CopiesSound, StateTyped
<1>8. CachesSound'
  BY <1>4, <1>6 DEF Sound, CachesSound, StateTyped, Put, Entry
<1>9. HeardIsNumbered'
  BY <1>4 DEF Sound, HeardIsNumbered, StateTyped
<1>10. CopiesOrdered'
  BY <1>1, <1>3 DEF Sound, CopiesOrdered
<1>11. CachesOrdered'
  <2> SUFFICES ASSUME NEW s \in FloodSats, NEW n \in flight',
                      cache'[s][n.origin].gen < n.gen
               PROVE  cache'[s][n.origin].says =< n.says
    BY DEF CachesOrdered
  <2>1. PICK k \in flight : k.origin = n.origin /\ k.gen = n.gen /\ k.says = n.says
    BY <1>1, <1>3
  <2>2. /\ k.origin \in Origins /\ k.gen \in Nat /\ k.says \in Nat
        /\ cache[s][k.origin] \in Entry
    <3>1. k.origin \in Origins /\ k.gen \in 0..now /\ k.says \in 0..serving[k.origin]
      BY DEF Sound, CopiesSound
    <3>2. now \in Nat /\ serving[k.origin] \in Nat
      BY <3>1 DEF Sound, StateTyped
    <3>3. k.gen \in Nat /\ k.says \in Nat
      BY <3>1, <3>2
    <3>4. cache[s][k.origin] \in Entry
      BY <3>1, EntriesTyped
    <3> QED
      BY <3>1, <3>3, <3>4
  <2>3. cache[s][k.origin].gen < k.gen => cache[s][k.origin].says =< k.says
    BY DEF Sound, CachesOrdered
  <2>4. m.origin = k.origin /\ m.gen < k.gen => m.says =< k.says
    BY DEF Sound, CopiesOrdered
  <2>5. cache'[s][k.origin] =
          IF s = m.to /\ k.origin = m.origin THEN Put(cache[s][k.origin], m)
          ELSE cache[s][k.origin]
    BY <1>6, <2>2
  <2> QED
    BY <2>1, <2>2, <2>3, <2>4, <2>5 DEF Put, Entry
<1>12. WithinReach'
  BY <1>4, <1>6 DEF Sound, WithinReach, Put, StateTyped, Entry
<1>13. RelayedOnce
  BY <1>1, <1>3 DEF RelayedOnce, Duplicate
<1>14. KnowledgeNeverAges
  <2> SUFFICES ASSUME NEW s \in FloodSats, NEW o \in Origins
               PROVE  cache'[s][o].says >= cache[s][o].says
    BY DEF KnowledgeNeverAges
  <2>1. cache[s][o] \in Entry
    BY DEF Sound, StateTyped
  <2>2. o = m.origin /\ cache[s][o].gen < m.gen => cache[s][o].says =< m.says
    BY DEF Sound, CachesOrdered
  <2> QED
    BY <1>4, <1>6, <2>1, <2>2 DEF Put, Entry
<1> QED
  BY <1>6, <1>7, <1>8, <1>9, <1>10, <1>11, <1>12, <1>13, <1>14 DEF Sound

LEMMA ArriveSound ==
  ASSUME Sound, NEW m \in flight, Arrive(m)
  PROVE  Sound' /\ RelayedOnce /\ KnowledgeNeverAges
<1>1. UNCHANGED <<now, serving, seq>>
  BY DEF Arrive
<1>2. CASE flight' = flight \ {m} /\ UNCHANGED <<heard, cache>>
  BY <1>1, <1>2, DroppedSound
<1>3. CASE ~ (flight' = flight \ {m} /\ UNCHANGED <<heard, cache>>)
  <2> DEFINE kids == IF MayRelay(m) THEN ControlChildren[wiring][m.origin][m.to] ELSE {}
  <2>1. /\ ~ Duplicate(m)
        /\ heard' = [heard EXCEPT ![m.to] = @ \cup {<<m.origin, m.seq>>}]
        /\ cache' = [cache EXCEPT ![m.to][m.origin] = Put(@, m)]
        /\ \E fate : flight' = (flight \ {m}) \cup Copies(m, m.to, kids, m.left - 1, fate)
    BY <1>3 DEF Arrive
  <2>2. kids # {} => MayRelay(m)
    OBVIOUS
  <2> HIDE DEF kids
  <2> QED
    BY <1>1, <2>1, <2>2, AcceptedSound
<1> QED
  BY <1>2, <1>3

-----------------------------------------------------------------------------
LEMMA StepSound ==
  Sound /\ [FloodNext]_floodVars => Sound' /\ [RelayedOnce /\ KnowledgeNeverAges]_floodVars
<1> SUFFICES ASSUME Sound, [FloodNext]_floodVars
             PROVE  Sound' /\ RelayedOnce /\ KnowledgeNeverAges
  OBVIOUS
<1>0. now \in Nat /\ serving \in [Origins -> Nat] /\ \A o \in Origins : serving[o] \in Nat
  BY DEF Sound, StateTyped
<1>1. ASSUME NEW s \in Origins,
             PeriodicReport(s) \/ InitialReport(s) \/ DeferredReport(s)
      PROVE  Sound' /\ RelayedOnce /\ KnowledgeNeverAges
  BY <1>0, <1>1, AdvertiseSound DEF PeriodicReport, InitialReport, DeferredReport
<1>2. ASSUME NEW s \in Origins, ServingChanged(s)
      PROVE  Sound' /\ RelayedOnce /\ KnowledgeNeverAges
  <2>1. /\ serving' \in [Origins -> Nat] /\ serving'[s] = serving[s] + 1
        /\ \A o \in Origins : serving[o] =< serving'[o]
        /\ UNCHANGED <<now, cache>>
    BY <1>0, <1>2 DEF ServingChanged
  <2>2. CASE Advertise(s, serving[s] + 1)
    BY <1>0, <2>1, <2>2, AdvertiseSound
  <2>3. CASE UNCHANGED <<seq, heard, flight>>
    BY <1>0, <2>1, <2>3, QuietSound
  <2> QED
    BY <1>2, <2>2, <2>3 DEF ServingChanged
<1>3. ASSUME NEW m \in flight, Arrive(m)
      PROVE  Sound' /\ RelayedOnce /\ KnowledgeNeverAges
  BY <1>3, ArriveSound
<1>4. ASSUME NEW w \in Wirings, Rewire(w)
      PROVE  Sound' /\ RelayedOnce /\ KnowledgeNeverAges
  BY <1>0, <1>4, QuietSound DEF Rewire
<1>5. CASE FloodAdvance
  BY <1>0, <1>5, QuietSound DEF FloodAdvance
<1>6. CASE UNCHANGED floodVars
  BY <1>0, <1>6, QuietSound DEF floodVars
<1> QED
  BY <1>1, <1>2, <1>3, <1>4, <1>5, <1>6 DEF FloodNext

\* No satellite ever accepts an advertisement more than vis_k hops from its
\* origin, in whatever order rematches replace the trees (_ctrl_arrive_after_prop).
THEOREM NothingBeyondReach == FloodSpec => []WithinReach
<1>1. Sound => WithinReach
  BY DEF Sound
<1> QED
  BY <1>1, InitSound, StepSound, PTL DEF FloodSpec

\* A satellite passes an advertisement on once, and what it believes of another
\* one never goes back (ControlCache.put, seen_ctrl).
THEOREM OldNewsStaysOld == FloodSpec => FloodsAreOnce
BY InitSound, StepSound, PTL DEF FloodSpec, FloodsAreOnce
-----------------------------------------------------------------------------
(* Reports of changes.  A deferred report is never late, and there is one  *)
(* unless the last report said what is served.                             *)

ReportsTyped ==
  /\ said \in [Origins -> Nat] /\ lastEvent \in [Origins -> Int]
  /\ deferred \in [Origins -> Int]
ReportsInTime ==
  \A s \in Origins :
    /\ lastEvent[s] =< now
    /\ deferred[s] # Never => deferred[s] \in now .. (now + EventInterval)
    /\ said[s] # serving[s] => deferred[s] # Never
Reported == ReportsTyped /\ ReportsInTime

LEMMA InitReported == FloodInit => Reported
BY FloodAssumption DEF FloodInit, Reported, ReportsTyped, ReportsInTime, Never

\* A report of what s serves settles its changes, deferred or not.
LEMMA ReportSettles ==
  ASSUME Sound, Reported, NEW s \in Origins, NEW says \in Nat, Advertise(s, says),
         serving' = [serving EXCEPT ![s] = says], now' = now,
         deferred' = deferred \/ deferred' = [deferred EXCEPT ![s] = Never],
         lastEvent' = lastEvent \/ lastEvent' = [lastEvent EXCEPT ![s] = now]
  PROVE  Reported'
<1>1. said' = [said EXCEPT ![s] = says]
  BY DEF Advertise
<1>2. now \in Nat /\ serving \in [Origins -> Nat]
  BY DEF Sound, StateTyped
<1>3. ReportsTyped'
  BY <1>1, <1>2 DEF Reported, ReportsTyped, Never
<1>4. ASSUME NEW o \in Origins
      PROVE  /\ lastEvent'[o] =< now
             /\ deferred'[o] # Never => deferred'[o] \in now .. (now + EventInterval)
             /\ said'[o] # serving'[o] => deferred'[o] # Never
  BY <1>1, <1>2 DEF Reported, ReportsTyped, ReportsInTime
<1> QED
  BY <1>3, <1>4 DEF Reported, ReportsInTime

LEMMA StepReported == Sound /\ Reported /\ [FloodNext]_floodVars => Reported'
<1> SUFFICES ASSUME Sound, Reported, [FloodNext]_floodVars PROVE Reported'
  OBVIOUS
<1>0. /\ now \in Nat /\ serving \in [Origins -> Nat] /\ ReportsTyped
      /\ EventInterval \in Nat \ {0}
  BY FloodAssumption DEF Sound, StateTyped, Reported
<1>1. ASSUME NEW s \in Origins,
             PeriodicReport(s) \/ InitialReport(s) \/ DeferredReport(s)
      PROVE  Reported'
  <2>1. /\ Advertise(s, serving[s]) /\ serving' = serving /\ now' = now
        /\ deferred' = deferred \/ deferred' = [deferred EXCEPT ![s] = Never]
        /\ lastEvent' = lastEvent \/ lastEvent' = [lastEvent EXCEPT ![s] = now]
    BY <1>1 DEF PeriodicReport, InitialReport, DeferredReport
  <2>2. serving[s] \in Nat /\ serving' = [serving EXCEPT ![s] = serving[s]]
    BY <1>0, <2>1
  <2> QED
    BY <2>1, <2>2, ReportSettles
<1>2. ASSUME NEW s \in Origins, ServingChanged(s) PROVE Reported'
  <2>1. serving' = [serving EXCEPT ![s] = serving[s] + 1] /\ now' = now /\ serving[s] + 1 \in Nat
    BY <1>0, <1>2 DEF ServingChanged
  <2>2. CASE /\ Advertise(s, serving[s] + 1) /\ UNCHANGED deferred
             /\ lastEvent' = [lastEvent EXCEPT ![s] = now]
    BY <2>1, <2>2, ReportSettles
  <2>3. CASE /\ ~ WindowOpen(s) /\ deferred' = [deferred EXCEPT ![s] = DeferredTo(s)]
             /\ UNCHANGED <<said, lastEvent>>
    <3>1. DeferredTo(s) \in now .. (now + EventInterval) /\ DeferredTo(s) # Never
      BY <1>0, <2>3 DEF WindowOpen, DeferredTo, Reported, ReportsTyped, ReportsInTime, Never
    <3> HIDE DEF DeferredTo
    <3>2. ReportsTyped'
      BY <1>0, <2>3, <3>1 DEF ReportsTyped
    <3>3. ReportsInTime'
      BY <1>0, <2>1, <2>3, <3>1 DEF Reported, ReportsTyped, ReportsInTime
    <3> QED
      BY <3>2, <3>3 DEF Reported
  <2> QED
    BY <1>2, <2>2, <2>3 DEF ServingChanged
<1>3. CASE FloodAdvance
  <2>1. now' = now + 1 /\ UNCHANGED <<serving, lastEvent, deferred, said>>
    BY <1>3 DEF FloodAdvance
  <2>2. \A s \in Origins : deferred[s] # now
    BY <1>3 DEF FloodAdvance, FloodDue
  <2>3. ReportsInTime'
    BY <1>0, <2>1, <2>2 DEF Reported, ReportsTyped, ReportsInTime
  <2> QED
    BY <1>0, <2>1, <2>3 DEF Reported, ReportsTyped
<1>4. CASE \/ \E m \in flight : Arrive(m)
           \/ \E w \in Wirings : Rewire(w)
           \/ UNCHANGED floodVars
  <2>1. UNCHANGED <<now, serving, lastEvent, deferred, said>>
    BY <1>4 DEF Arrive, Rewire, floodVars
  <2> QED
    BY <2>1 DEF Reported, ReportsTyped, ReportsInTime
<1> QED
  BY <1>1, <1>2, <1>3, <1>4 DEF FloodNext

\* A change of the serving set that the last report does not say has a report
\* scheduled within the minimum interval, however changes and reports of every
\* kind follow on each other (_serving_changed, the deferred report).
THEOREM ChangesAreReported == FloodSpec => []ChangeIsReported
<1>1. Reported => ChangeIsReported
  BY DEF Reported, ReportsInTime, ChangeIsReported
<1>2. FloodSpec => [](Sound /\ Reported)
  BY InitSound, StepSound, InitReported, StepReported, PTL DEF FloodSpec
<1> QED
  BY <1>1, <1>2, PTL

-----------------------------------------------------------------------------
(* Knowledge converges.  The argument has three parts: definitions by      *)
(* recursion over the natural numbers mean what they say; the search of a  *)
(* relay tree ends with every satellite within vis_k hops in it, as near   *)
(* as it can be; and a report that meets no trouble is handed down that    *)
(* tree to the last satellite before its copies can have expired.          *)

\* A set of natural numbers has a least one.
LEMMA LeastNatural ==
  ASSUME NEW T, T \subseteq Nat, T # {}
  PROVE  \E x \in T : \A y \in T : x =< y
<1> DEFINE Under == {pair \in Nat \X Nat : pair[1] < pair[2]}
<1>1. IsWellFoundedOn(Under, Nat)
  BY NatLessThanWellFounded, Zenon DEF OpToRel
<1>2. PICK x \in T : \A y \in T : ~ (<<y, x>> \in Under)
  <2> HIDE DEF Under
  <2> QED
    BY <1>1, WFMin, Zenon
<1>3. ASSUME NEW y \in T PROVE x =< y
  <2>1. <<y, x>> \in Nat \X Nat /\ <<y, x>>[1] = y /\ <<y, x>>[2] = x
    OBVIOUS
  <2>2. ~ (y < x)
    BY <1>2, <2>1, Zenon
  <2> QED
    BY <2>2
<1> QED
  BY <1>3

\* Induction, for a set of natural numbers.
LEMMA SetInduction ==
  ASSUME NEW T, 0 \in T, \A n \in Nat : n \in T => n + 1 \in T
  PROVE  Nat \subseteq T
<1> SUFFICES ASSUME Nat \ T # {} PROVE FALSE
  OBVIOUS
<1>1. PICK x \in Nat \ T : \A y \in Nat \ T : x =< y
  BY LeastNatural
<1>2. x # 0 /\ x - 1 \in Nat
  BY <1>1
<1>3. x - 1 \in T
  BY <1>1, <1>2
<1> QED
  BY <1>1, <1>2, <1>3

\* A function may be defined by recursion over the natural numbers.
LEMMA Recursion ==
  ASSUME NEW S, NEW first \in S, NEW step \in [S -> S]
  PROVE  \E f \in [Nat -> S] :
           f = [k \in Nat |-> IF k = 0 THEN first ELSE step[f[k - 1]]]
<1> DEFINE Good(n, h) == h[0] = first /\ \A i \in 1..n : h[i] = step[h[i - 1]]
           T == {n \in Nat : \E h \in [0..n -> S] : Good(n, h)}
<1>1. 0 \in T
  <2>1. [i \in 0..0 |-> first] \in [0..0 -> S] /\ Good(0, [i \in 0..0 |-> first])
    OBVIOUS
  <2> QED
    BY <2>1
<1>2. ASSUME NEW n \in Nat, n \in T PROVE n + 1 \in T
  <2>1. PICK h \in [0..n -> S] : Good(n, h)
    BY <1>2
  <2> DEFINE g == [i \in 0..(n + 1) |-> IF i = n + 1 THEN step[h[n]] ELSE h[i]]
  <2>2. g \in [0..(n + 1) -> S]
    OBVIOUS
  <2>3. g[0] = first /\ \A i \in 1..n : g[i] = h[i] /\ g[i - 1] = h[i - 1]
    BY <2>1
  <2>4. g[n + 1] = step[g[n]]
    OBVIOUS
  <2>5. Good(n + 1, g)
    <3> HIDE DEF g
    <3> SUFFICES ASSUME NEW i \in 1..(n + 1) PROVE g[i] = step[g[i - 1]]
      BY <2>3
    <3>1. CASE i = n + 1
      <4>1. i - 1 = n
        BY <3>1
      <4> QED
        BY <3>1, <4>1, <2>4
    <3>2. CASE i \in 1..n
      <4>1. g[i] = h[i] /\ g[i - 1] = h[i - 1]
        BY <3>2, <2>3
      <4>2. h[i] = step[h[i - 1]]
        BY <3>2, <2>1
      <4> QED
        BY <4>1, <4>2
    <3> QED
      BY <3>1, <3>2
  <2> HIDE DEF g
  <2> QED
    BY <2>2, <2>5
<1>3. Nat \subseteq T
  <2> HIDE DEF T
  <2> QED
    BY <1>1, <1>2, SetInduction
<1>4. PICK G : \A n \in Nat : G[n] \in [0..n -> S] /\ Good(n, G[n])
  <2> DEFINE G == [n \in Nat |-> CHOOSE h \in [0..n -> S] : Good(n, h)]
  <2>1. \A n \in Nat : G[n] \in [0..n -> S] /\ Good(n, G[n])
    BY <1>3
  <2> HIDE DEF G
  <2> QED
    BY <2>1
<1>5. ASSUME NEW n \in Nat, NEW i \in 0..n PROVE G[n + 1][i] = G[n][i]
  <2> DEFINE U == {k \in Nat : k \in 0..n => G[n + 1][k] = G[n][k]}
  <2>1. PICK a, b : a = G[n + 1] /\ b = G[n]
    OBVIOUS
  <2>2. Good(n, b)
    BY <1>4, <2>1, Zenon
  <2>3. n + 1 \in Nat
    OBVIOUS
  <2>4. Good(n + 1, a)
    BY <1>4, <2>1, <2>3, Zenon
  <2>5. 0 \in U
    BY <2>1, <2>2, <2>4
  <2>6. ASSUME NEW k \in Nat, k \in U PROVE k + 1 \in U
    <3> SUFFICES ASSUME k + 1 \in 0..n PROVE a[k + 1] = b[k + 1]
      BY <2>1
    <3>1. a[k] = b[k]
      BY <2>6, <2>1
    <3>2. a[k + 1] = step[a[k + 1 - 1]] /\ b[k + 1] = step[b[k + 1 - 1]]
      BY <2>2, <2>4
    <3>3. k + 1 - 1 = k
      OBVIOUS
    <3> QED
      BY <3>1, <3>2, <3>3
  <2>7. Nat \subseteq U
    <3> HIDE DEF U
    <3> QED
      BY <2>5, <2>6, SetInduction
  <2> QED
    BY <2>7
<1> DEFINE f == [k \in Nat |-> G[k][k]]
<1>6. f \in [Nat -> S]
  <2> SUFFICES ASSUME NEW k \in Nat PROVE G[k][k] \in S
    OBVIOUS
  <2>1. G[k] \in [0..k -> S] /\ k \in 0..k
    BY <1>4
  <2> QED
    BY <2>1
<1>7. f[0] = first
  <2>1. Good(0, G[0])
    BY <1>4
  <2> QED
    BY <2>1
<1>8. ASSUME NEW k \in Nat PROVE f[k + 1] = step[f[k]]
  <2>1. PICK n \in Nat : n = k + 1
    OBVIOUS
  <2>2. Good(n, G[n])
    BY <1>4, Zenon
  <2>3. n \in 1..n /\ n - 1 = k
    BY <2>1
  <2>4. G[n][n] = step[G[n][k]]
    BY <2>2, <2>3
  <2>5. G[n][k] = G[k][k]
    BY <1>5, <2>1
  <2> QED
    BY <2>1, <2>4, <2>5
<1> HIDE DEF f
<1>9. f = [k \in Nat |-> IF k = 0 THEN first ELSE step[f[k - 1]]]
  <2>1. ASSUME NEW k \in Nat PROVE f[k] = IF k = 0 THEN first ELSE step[f[k - 1]]
    <3>1. CASE k = 0
      BY <3>1, <1>7
    <3>2. CASE k # 0
      <4>1. k - 1 \in Nat /\ k = (k - 1) + 1
        BY <3>2
      <4>2. f[(k - 1) + 1] = step[f[k - 1]]
        BY <4>1, <1>8
      <4> QED
        BY <3>2, <4>1, <4>2
    <3> QED
      BY <3>1, <3>2
  <2> QED
    BY <1>6, <2>1
<1> QED
  BY <1>6, <1>9

-----------------------------------------------------------------------------
(* Relay trees.  Growth is the search of Reached with its steps named: the *)
(* queue, its frontier of new neighbours and the one that comes first.     *)

Node == [sat : FloodSats, parent : FloodSats, depth : Nat]
Frontier(w, q) == {e \in (DOMAIN q) \X FloodSats :
                        /\ Expands(q[e[1]])
                        /\ e[2] \in w[q[e[1]].sat]
                        /\ \A j \in DOMAIN q : q[j].sat # e[2]}
First(w, q) == CHOOSE e \in Frontier(w, q) : \A f \in Frontier(w, q) :
                    e[1] < f[1] \/ (e[1] = f[1] /\ e[2] =< f[2])
Grown(w, q) == IF Frontier(w, q) = {} THEN q
                  ELSE Append(q, [sat |-> First(w, q)[2], parent |-> q[First(w, q)[1]].sat,
                                  depth |-> q[First(w, q)[1]].depth + 1])
Root(o) == <<[sat |-> o, parent |-> o, depth |-> 0]>>
Growth(w, o) ==
  CHOOSE grow : grow = [k \in Nat |-> IF k = 0 THEN Root(o) ELSE Grown(w, grow[k - 1])]

\* The queue that the kernel stops with.
LEMMA ReachedIsGrowth ==
  ASSUME NEW w, NEW o
  PROVE  Reached(w, o) = Growth(w, o)[Cardinality(FloodSats) - 1]
BY Zenon DEF Reached, Growth, Root, Grown, First, Frontier

\* What a choice of the earliest pair gives, when there is one.
LEMMA EarliestChosen ==
  ASSUME NEW A, NEW z,
         z = CHOOSE x \in A : \A y \in A : x[1] < y[1] \/ (x[1] = y[1] /\ x[2] =< y[2]),
         \E x \in A : \A y \in A : x[1] < y[1] \/ (x[1] = y[1] /\ x[2] =< y[2])
  PROVE  z \in A /\ \A y \in A : z[1] < y[1] \/ (z[1] = y[1] /\ z[2] =< y[2])
BY Zenon

\* The frontier has a first entry: the least neighbour of its earliest satellite.
LEMMA FirstOnFrontier ==
  ASSUME NEW w \in Wirings, NEW q \in Seq(Node), Frontier(w, q) # {}
  PROVE  /\ First(w, q) \in Frontier(w, q)
         /\ \A e \in Frontier(w, q) : First(w, q)[1] =< e[1]
<1> DEFINE F == Frontier(w, q)
           rows == {i \in Nat : \E e \in F : e[1] = i}
<1>1. \A e \in F : e[1] \in Nat /\ e[2] \in Nat
  <2>1. F \subseteq (1..Len(q)) \X FloodSats
    BY DEF Frontier
  <2> HIDE DEF F
  <2> QED
    BY <2>1, FloodAssumption
<1> HIDE DEF F
<1>2. rows # {} /\ rows \subseteq Nat
  BY <1>1 DEF F
<1> HIDE DEF rows
<1>3. PICK i \in rows : \A j \in rows : i =< j
  BY <1>2, LeastNatural
<1> DEFINE cols == {c \in Nat : \E e \in F : e[1] = i /\ e[2] = c}
<1>4. cols # {} /\ cols \subseteq Nat
  BY <1>1, <1>3 DEF rows
<1> HIDE DEF cols
<1>5. PICK c \in cols : \A d \in cols : c =< d
  BY <1>4, LeastNatural
<1>6. PICK e \in F : e[1] = i /\ e[2] = c
  BY <1>5 DEF cols
<1>7. ASSUME NEW f \in F PROVE e[1] < f[1] \/ (e[1] = f[1] /\ e[2] =< f[2])
  <2>1. f[1] \in rows
    BY <1>1 DEF rows
  <2>2. f[1] = i => f[2] \in cols
    BY <1>1 DEF cols
  <2>3. i =< f[1] /\ (f[1] = i => c =< f[2])
    BY <2>1, <2>2, <1>3, <1>5
  <2>4. i \in Nat /\ f[1] \in Nat
    BY <1>1, <1>2
  <2> QED
    BY <2>3, <2>4, <1>6
<1>8. \E z \in F : \A f \in F : z[1] < f[1] \/ (z[1] = f[1] /\ z[2] =< f[2])
  BY <1>6, <1>7
<1>9. PICK A, z : A = F /\ z = First(w, q)
  OBVIOUS
<1>10. z = CHOOSE x \in A : \A y \in A : x[1] < y[1] \/ (x[1] = y[1] /\ x[2] =< y[2])
  BY <1>9, Zenon DEF First, F
<1>11. z \in A /\ \A y \in A : z[1] < y[1] \/ (z[1] = y[1] /\ z[2] =< y[2])
  BY <1>8, <1>9, <1>10, EarliestChosen, Zenon
<1> QED
  BY <1>1, <1>9, <1>11 DEF F

\* One step of the search hangs a new satellite under the earliest with room.
LEMMA GrownNode ==
  ASSUME NEW w \in Wirings, NEW q \in Seq(Node), Frontier(w, q) # {}
  PROVE  \E p \in DOMAIN q, t \in FloodSats :
           /\ Grown(w, q) = Append(q, [sat |-> t, parent |-> q[p].sat, depth |-> q[p].depth + 1])
           /\ q[p].depth < VisK /\ t \in w[q[p].sat]
           /\ \A j \in DOMAIN q : q[j].sat # t
           /\ \A e \in Frontier(w, q) : p =< e[1]
<1>1. PICK e : e = First(w, q)
  OBVIOUS
<1>2. e \in Frontier(w, q) /\ \A f \in Frontier(w, q) : e[1] =< f[1]
  BY <1>1, FirstOnFrontier
<1>3. /\ e[1] \in DOMAIN q /\ e[2] \in FloodSats /\ e[2] \in w[q[e[1]].sat]
      /\ Expands(q[e[1]]) /\ \A j \in DOMAIN q : q[j].sat # e[2]
  BY <1>2 DEF Frontier
<1>4. Grown(w, q) = Append(q, [sat |-> e[2], parent |-> q[e[1]].sat,
                               depth |-> q[e[1]].depth + 1])
  BY <1>1 DEF Grown
<1> QED
  BY <1>2, <1>3, <1>4, Zenon DEF Expands

\* It leads from queues to queues.
LEMMA GrownTyped ==
  ASSUME NEW w \in Wirings, NEW q \in Seq(Node)
  PROVE  Grown(w, q) \in Seq(Node)
<1>1. CASE Frontier(w, q) = {}
  BY <1>1 DEF Grown
<1>2. CASE Frontier(w, q) # {}
  <2>1. PICK p \in DOMAIN q, t \in FloodSats :
          Grown(w, q) = Append(q, [sat |-> t, parent |-> q[p].sat, depth |-> q[p].depth + 1])
    BY <1>2, GrownNode
  <2>2. q[p].sat \in FloodSats /\ q[p].depth \in Nat
    <3>1. q[p] \in Node
      OBVIOUS
    <3> QED
      BY <3>1 DEF Node
  <2>3. [sat |-> t, parent |-> q[p].sat, depth |-> q[p].depth + 1] \in Node
    BY <2>2 DEF Node
  <2> QED
    BY <2>1, <2>3
<1> QED
  BY <1>1, <1>2

\* So the recursion that Reached is defined by has a solution, and takes these steps.
LEMMA GrowthStep ==
  ASSUME NEW w \in Wirings, NEW o \in FloodSats
  PROVE  /\ Growth(w, o)[0] = Root(o)
         /\ \A k \in Nat : Growth(w, o)[k + 1] = Grown(w, Growth(w, o)[k])
         /\ \A k \in Nat : Growth(w, o)[k] \in Seq(Node)
<1> DEFINE S == Seq(Node)
           step == [q \in S |-> Grown(w, q)]
           Body(f) == [k \in Nat |-> IF k = 0 THEN Root(o) ELSE Grown(w, f[k - 1])]
<1>1. Root(o) \in S
  BY DEF Root, Node
<1>2. step \in [S -> S]
  BY GrownTyped
<1>3. PICK f \in [Nat -> S] : f = [k \in Nat |-> IF k = 0 THEN Root(o) ELSE step[f[k - 1]]]
  <2> HIDE DEF S, step
  <2> QED
    BY <1>1, <1>2, Recursion
<1>4. f = Body(f)
  <2>1. ASSUME NEW k \in Nat PROVE f[k] = IF k = 0 THEN Root(o) ELSE Grown(w, f[k - 1])
    <3> HIDE DEF S, step
    <3>1. f[k] = IF k = 0 THEN Root(o) ELSE step[f[k - 1]]
      BY <1>3
    <3>2. CASE k # 0
      <4>1. k - 1 \in Nat
        BY <3>2
      <4>2. f[k - 1] \in S
        BY <1>3, <4>1
      <4>3. step[f[k - 1]] = Grown(w, f[k - 1])
        BY <4>2 DEF step
      <4> QED
        BY <3>1, <3>2, <4>3
    <3> QED
      BY <3>1, <3>2
  <2> QED
    BY <2>1
<1>5. PICK g : g = Growth(w, o)
  OBVIOUS
<1>6. g = Body(g)
  BY <1>4, <1>5, Zenon DEF Growth
<1>7. g[0] = Root(o) /\ \A k \in Nat : g[k + 1] = Grown(w, g[k])
  BY <1>6
<1>8. \A k \in Nat : g[k] \in S
  <2> DEFINE T == {k \in Nat : g[k] \in S}
  <2>1. 0 \in T
    BY <1>1, <1>7
  <2>2. ASSUME NEW k \in Nat, k \in T PROVE k + 1 \in T
    <3> HIDE DEF S
    <3>1. g[k + 1] = Grown(w, g[k]) /\ g[k] \in S
      BY <1>7, <2>2
    <3>2. Grown(w, g[k]) \in S
      BY <3>1, GrownTyped DEF S
    <3> QED
      BY <3>1, <3>2
  <2>3. Nat \subseteq T
    <3> HIDE DEF T
    <3> QED
      BY <2>1, <2>2, SetInduction
  <2> QED
    BY <2>3
<1> QED
  BY <1>5, <1>7, <1>8

\* The invariant of the search: its queue starts at the origin, holds nobody
\* twice and hangs everybody under an earlier neighbour; it is ordered by depth,
\* nobody is deeper than a neighbour below whom the search went on allows, and
\* what is still to be found belongs to the last layer or the next one.
Rooted(o, q) == q \in Seq(Node) /\ Len(q) >= 1 /\ q[1].sat = o /\ q[1].depth = 0

Distinct(q) == \A i, j \in 1..Len(q) : q[i].sat = q[j].sat => i = j

Hangs(w, q, i, p) ==
  /\ q[i].parent = q[p].sat /\ q[i].depth = q[p].depth + 1
  /\ q[p].depth < VisK /\ q[i].sat \in w[q[p].sat]

Parented(w, q) == \A i \in 2..Len(q) : \E p \in 1..(i - 1) : Hangs(w, q, i, p)

Layered(q) == \A i, j \in 1..Len(q) : i =< j => q[i].depth =< q[j].depth

Shortest(w, q) ==
  \A i, j \in 1..Len(q) :
    Expands(q[i]) /\ q[j].sat \in w[q[i].sat] => q[j].depth =< q[i].depth + 1

LastLayer(w, q) == \A e \in Frontier(w, q) : q[Len(q)].depth =< q[e[1]].depth + 1

SearchTree(w, o, q) ==
  /\ Rooted(o, q) /\ Distinct(q) /\ Parented(w, q)
  /\ Layered(q) /\ Shortest(w, q) /\ LastLayer(w, q)

\* The search starts so.
LEMMA RootTree ==
  ASSUME NEW w \in Wirings, NEW o \in FloodSats
  PROVE  SearchTree(w, o, Root(o))
<1>1. PICK q : q = Root(o)
  OBVIOUS
<1>2. q \in Seq(Node) /\ Len(q) = 1 /\ q[1].sat = o /\ q[1].depth = 0
  BY <1>1 DEF Root, Node
<1>3. o \notin w[o]
  BY FloodAssumption
<1>4. Rooted(o, q) /\ Distinct(q) /\ Parented(w, q) /\ Layered(q)
  BY <1>2 DEF Rooted, Distinct, Parented, Layered
<1>5. Shortest(w, q)
  BY <1>2, <1>3 DEF Shortest
<1>6. LastLayer(w, q)
  BY <1>2 DEF LastLayer, Frontier
<1> QED
  BY <1>1, <1>4, <1>5, <1>6 DEF SearchTree

\* The entries of a queue are nodes.
LEMMA NodeFields ==
  ASSUME NEW q \in Seq(Node), NEW i \in 1..Len(q)
  PROVE  q[i] \in Node /\ q[i].sat \in FloodSats /\ q[i].depth \in Nat
<1>1. q[i] \in Node
  OBVIOUS
<1> QED
  BY <1>1 DEF Node

\* Every step of it keeps this.
LEMMA GrownTree ==
  ASSUME NEW w \in Wirings, NEW o \in FloodSats, NEW q, SearchTree(w, o, q)
  PROVE  SearchTree(w, o, Grown(w, q))
<1>1. q \in Seq(Node) /\ Len(q) >= 1 /\ q[1].sat = o /\ q[1].depth = 0
  BY DEF SearchTree, Rooted
<1>2. CASE Frontier(w, q) = {}
  BY <1>2 DEF Grown
<1>3. CASE Frontier(w, q) # {}
  <2>1. PICK p \in DOMAIN q, t \in FloodSats :
           /\ Grown(w, q) = Append(q, [sat |-> t, parent |-> q[p].sat, depth |-> q[p].depth + 1])
           /\ q[p].depth < VisK /\ t \in w[q[p].sat]
           /\ \A j \in DOMAIN q : q[j].sat # t
           /\ \A e \in Frontier(w, q) : p =< e[1]
    BY <1>1, <1>3, GrownNode
  <2>2. PICK n : n = [sat |-> t, parent |-> q[p].sat, depth |-> q[p].depth + 1]
    OBVIOUS
  <2>3. PICK l \in Nat : l = Len(q)
    BY <1>1
  <2>4. l >= 1 /\ p \in 1..l
    BY <1>1, <2>3
  <2>5. n \in Node /\ n.sat = t /\ n.parent = q[p].sat /\ n.depth = q[p].depth + 1
    <3>1. q[p].sat \in FloodSats /\ q[p].depth \in Nat
      BY <1>1, <2>3, <2>4, NodeFields
    <3> QED
      BY <3>1, <2>2 DEF Node
  <2>6. PICK g : g = Append(q, n)
    OBVIOUS
  <2>7. /\ g \in Seq(Node) /\ Len(g) = l + 1 /\ g[l + 1] = n
        /\ \A i \in 1..l : g[i] = q[i]
    BY <1>1, <2>3, <2>5, <2>6
  <2>8. \A i \in 1..l : q[i].depth \in Nat /\ q[i].sat # t
    BY <1>1, <2>1, <2>3, NodeFields
  <2>9. <<p, t>> \in Frontier(w, q)
    BY <1>1, <2>1, <2>3, <2>4 DEF Frontier, Expands
  <2>10. q[l].depth =< q[p].depth + 1
    BY <2>9, <2>3 DEF SearchTree, LastLayer
  <2>11. Rooted(o, g)
    BY <1>1, <2>3, <2>4, <2>7 DEF Rooted
  <2>12. Distinct(g)
    <3> SUFFICES ASSUME NEW i \in 1..(l + 1), NEW j \in 1..(l + 1), g[i].sat = g[j].sat
                 PROVE  i = j
      BY <2>7 DEF Distinct
    <3>1. CASE i \in 1..l /\ j \in 1..l
      <4>1. q[i].sat = q[j].sat
        BY <3>1, <2>7
      <4> QED
        BY <4>1, <3>1, <2>3 DEF SearchTree, Distinct
    <3>2. CASE i = l + 1 /\ j \in 1..l
      BY <3>2, <2>5, <2>7, <2>8
    <3>3. CASE i \in 1..l /\ j = l + 1
      BY <3>3, <2>5, <2>7, <2>8
    <3> QED
      BY <3>1, <3>2, <3>3
  <2>13. Parented(w, g)
    <3> SUFFICES ASSUME NEW i \in 2..(l + 1) PROVE \E r \in 1..(i - 1) : Hangs(w, g, i, r)
      BY <2>7 DEF Parented
    <3>1. CASE i = l + 1
      <4>1. g[i] = n /\ g[p] = q[p] /\ p \in 1..(i - 1)
        BY <3>1, <2>4, <2>7
      <4>2. Hangs(w, g, i, p)
        BY <4>1, <2>1, <2>5 DEF Hangs
      <4> QED
        BY <4>1, <4>2
    <3>2. CASE i \in 2..l
      <4>1. PICK r \in 1..(i - 1) : Hangs(w, q, i, r)
        BY <3>2, <2>3 DEF SearchTree, Parented
      <4>2. g[i] = q[i] /\ g[r] = q[r]
        BY <3>2, <2>7
      <4>3. Hangs(w, g, i, r)
        BY <4>1, <4>2 DEF Hangs
      <4> QED
        BY <4>3
    <3> QED
      BY <3>1, <3>2
  <2>14. \A i \in 1..l : q[i].depth =< n.depth
    <3> SUFFICES ASSUME NEW i \in 1..l PROVE q[i].depth =< n.depth
      OBVIOUS
    <3>1. q[i].depth =< q[l].depth
      BY <2>3, <2>4 DEF SearchTree, Layered
    <3>2. q[i].depth \in Nat /\ q[l].depth \in Nat /\ q[p].depth \in Nat
      BY <2>4, <2>8
    <3> QED
      BY <3>1, <3>2, <2>5, <2>10
  <2>15. Layered(g)
    <3> SUFFICES ASSUME NEW i \in 1..(l + 1), NEW j \in 1..(l + 1), i =< j
                 PROVE  g[i].depth =< g[j].depth
      BY <2>7 DEF Layered
    <3>1. CASE j \in 1..l
      <4>1. g[i] = q[i] /\ g[j] = q[j] /\ i \in 1..l
        BY <3>1, <2>7
      <4> QED
        BY <4>1, <3>1, <2>3 DEF SearchTree, Layered
    <3>2. CASE i \in 1..l /\ j = l + 1
      BY <3>2, <2>7, <2>14
    <3>3. CASE i = l + 1 /\ j = l + 1
      <4>1. q[p].depth \in Nat
        BY <2>4, <2>8
      <4> QED
        BY <3>3, <4>1, <2>5, <2>7
    <3> QED
      BY <3>1, <3>2, <3>3
  <2>16. ASSUME NEW e \in Frontier(w, q) PROVE e[1] \in 1..l /\ n.depth =< q[e[1]].depth + 1
    <3>1. p =< e[1] /\ e[1] \in 1..l
      BY <2>1, <2>3, <1>1 DEF Frontier
    <3>2. q[p].depth =< q[e[1]].depth
      BY <3>1, <2>3, <2>4 DEF SearchTree, Layered
    <3>3. q[p].depth \in Nat /\ q[e[1]].depth \in Nat
      BY <3>1, <2>4, <2>8
    <3> QED
      BY <3>1, <3>2, <3>3, <2>5
  <2>17. Shortest(w, g)
    <3> SUFFICES ASSUME NEW i \in 1..(l + 1), NEW j \in 1..(l + 1),
                        Expands(g[i]), g[j].sat \in w[g[i].sat]
                 PROVE  g[j].depth =< g[i].depth + 1
      BY <2>7 DEF Shortest
    <3>1. CASE i \in 1..l /\ j \in 1..l
      <4>1. g[i] = q[i] /\ g[j] = q[j]
        BY <3>1, <2>7
      <4> QED
        BY <4>1, <3>1, <2>3 DEF SearchTree, Shortest
    <3>2. CASE i \in 1..l /\ j = l + 1
      <4>1. g[i] = q[i] /\ g[j] = n
        BY <3>2, <2>7
      <4>2. <<i, t>> \in Frontier(w, q)
        BY <4>1, <3>2, <2>5, <2>3, <2>8, <1>1 DEF Frontier
      <4> QED
        BY <4>1, <4>2, <2>16
    <3>3. CASE i = l + 1
      <4>1. g[j].depth =< g[i].depth
        BY <3>3, <2>15, <2>7 DEF Layered
      <4>2. g[j].depth \in Nat /\ g[i].depth \in Nat
        BY <2>7, NodeFields
      <4> QED
        BY <4>1, <4>2
    <3> QED
      BY <3>1, <3>2, <3>3
  <2>18. LastLayer(w, g)
    <3> SUFFICES ASSUME NEW e \in Frontier(w, g) PROVE n.depth =< g[e[1]].depth + 1
      BY <2>7 DEF LastLayer
    <3>1. /\ e[1] \in 1..(l + 1) /\ e[2] \in FloodSats /\ e = <<e[1], e[2]>>
          /\ Expands(g[e[1]]) /\ e[2] \in w[g[e[1]].sat]
          /\ \A j \in 1..(l + 1) : g[j].sat # e[2]
      BY <2>7 DEF Frontier
    <3>2. CASE e[1] = l + 1
      <4>1. q[p].depth \in Nat
        BY <2>4, <2>8
      <4> QED
        BY <3>2, <4>1, <2>5, <2>7
    <3>3. CASE e[1] \in 1..l
      <4>1. g[e[1]] = q[e[1]]
        BY <3>3, <2>7
      <4>2. \A j \in 1..l : q[j].sat # e[2]
        BY <3>1, <2>7
      <4>3. <<e[1], e[2]>> \in Frontier(w, q)
        BY <3>1, <3>3, <4>1, <4>2, <2>3, <1>1 DEF Frontier
      <4> QED
        BY <4>1, <4>3, <2>16
    <3> QED
      BY <3>1, <3>2, <3>3
  <2> QED
    BY <2>1, <2>2, <2>6, <2>11, <2>12, <2>13, <2>15, <2>17, <2>18 DEF SearchTree
<1> QED
  BY <1>2, <1>3

\* It does until nothing new is left, one satellite a step.
LEMMA GrowthTree ==
  ASSUME NEW w \in Wirings, NEW o \in FloodSats, NEW k \in Nat
  PROVE  /\ SearchTree(w, o, Growth(w, o)[k])
         /\ Frontier(w, Growth(w, o)[k]) # {} => Len(Growth(w, o)[k]) = k + 1
<1> DEFINE T == {i \in Nat : /\ SearchTree(w, o, Growth(w, o)[i])
                             /\ \/ Frontier(w, Growth(w, o)[i]) = {}
                                \/ Len(Growth(w, o)[i]) = i + 1}
<1>1. 0 \in T
  <2>1. Growth(w, o)[0] = Root(o) /\ Len(Root(o)) = 1
    BY GrowthStep DEF Root
  <2> QED
    BY <2>1, RootTree
<1>2. ASSUME NEW i \in Nat, i \in T PROVE i + 1 \in T
  <2>1. PICK q, g : q = Growth(w, o)[i] /\ g = Growth(w, o)[i + 1]
    OBVIOUS
  <2>2. g = Grown(w, q) /\ q \in Seq(Node) /\ SearchTree(w, o, q)
    BY <1>2, <2>1, GrowthStep
  <2>3. SearchTree(w, o, g)
    BY <2>2, GrownTree
  <2>4. CASE Frontier(w, q) = {}
    <3>1. g = q
      BY <2>2, <2>4 DEF Grown
    <3>2. Frontier(w, Growth(w, o)[i + 1]) = {}
      BY <2>1, <2>4, <3>1, Zenon
    <3>3. SearchTree(w, o, Growth(w, o)[i + 1])
      BY <2>1, <2>3, Zenon
    <3> QED
      BY <3>2, <3>3
  <2>5. CASE Frontier(w, q) # {}
    <3>1. Len(q) = i + 1
      BY <1>2, <2>1, <2>5
    <3>2. PICK n : g = Append(q, n)
      BY <2>2, <2>5 DEF Grown
    <3>3. Len(g) = i + 2
      BY <2>2, <3>1, <3>2
    <3> QED
      BY <2>1, <2>3, <3>3
  <2> QED
    BY <2>4, <2>5
<1>3. Nat \subseteq T
  <2> HIDE DEF T
  <2> QED
    BY <1>1, <1>2, SetInduction
<1> QED
  BY <1>3

\* As many steps as there are other satellites leave nothing to be found.
LEMMA ReachedTree ==
  ASSUME NEW w \in Wirings, NEW o \in FloodSats
  PROVE  SearchTree(w, o, Reached(w, o)) /\ Frontier(w, Reached(w, o)) = {}
<1>1. PICK c : c = Cardinality(FloodSats)
  OBVIOUS
<1>2. IsFiniteSet(FloodSats)
  BY FloodAssumption
<1>3. c \in Nat /\ c # 0
  BY <1>1, <1>2, FS_CardinalityType, FS_EmptySet
<1>4. PICK q : q = Growth(w, o)[c - 1]
  OBVIOUS
<1>5. c - 1 \in Nat
  BY <1>3
<1>6. SearchTree(w, o, q) /\ (Frontier(w, q) # {} => Len(q) = c)
  <2>1. PICK k \in Nat : k = c - 1
    BY <1>5
  <2>2. k + 1 = c
    BY <1>3, <2>1
  <2> QED
    BY <1>4, <2>1, <2>2, GrowthTree
<1>7. Reached(w, o) = q
  BY <1>1, <1>4, ReachedIsGrowth
<1>8. ASSUME Frontier(w, q) # {} PROVE FALSE
  <2>1. Len(q) = c /\ q \in Seq(Node) /\ Distinct(q)
    BY <1>6, <1>8 DEF SearchTree, Rooted
  <2> DEFINE f == [i \in 1..c |-> q[i].sat]
  <2>2. f \in [1..c -> FloodSats] /\ \A i, j \in 1..c : f[i] = f[j] => i = j
    BY <2>1, NodeFields DEF Distinct
  <2> HIDE DEF f
  <2>3. f \in Injection(1..c, FloodSats)
    BY <2>2, Fun_IsInj
  <2>4. IsFiniteSet(1..c) /\ Cardinality(1..c) = c
    BY <1>3, FS_Interval
  <2>5. f \in Surjection(1..c, FloodSats)
    BY <1>1, <1>2, <2>3, <2>4, FS_Injection
  <2>6. \A t \in FloodSats : \E i \in 1..c : q[i].sat = t
    BY <2>5 DEF Surjection, f
  <2>7. PICK e \in Frontier(w, q) : TRUE
    BY <1>8
  <2>8. e[2] \in FloodSats /\ \A j \in 1..c : q[j].sat # e[2]
    BY <2>1, <2>7 DEF Frontier
  <2> QED
    BY <2>6, <2>8
<1> QED
  BY <1>6, <1>7, <1>8

\* Hops, with its steps named.
Wider(w, r) == r \cup UNION {w[s] : s \in r}
Alone(o) == {o}
Ring(w, o) ==
  CHOOSE ring : ring = [k \in Nat |-> IF k = 0 THEN Alone(o) ELSE Wider(w, ring[k - 1])]

\* The ring of k hops grows by the neighbours of its satellites.
LEMMA RingStep ==
  ASSUME NEW w \in Wirings, NEW o \in FloodSats
  PROVE  Ring(w, o)[0] = {o} /\ \A k \in Nat : Ring(w, o)[k + 1] = Wider(w, Ring(w, o)[k])
<1> DEFINE S == SUBSET FloodSats
           step == [r \in S |-> Wider(w, r)]
           Body(f) == [k \in Nat |-> IF k = 0 THEN Alone(o) ELSE Wider(w, f[k - 1])]
<1>1. Alone(o) \in S /\ step \in [S -> S]
  <2>1. \A s \in FloodSats : w[s] \subseteq FloodSats
    BY FloodAssumption
  <2>2. \A r \in S : Wider(w, r) \in S
    BY <2>1 DEF Wider
  <2> QED
    BY <2>2 DEF Alone
<1>2. PICK f \in [Nat -> S] : f = [k \in Nat |-> IF k = 0 THEN Alone(o) ELSE step[f[k - 1]]]
  <2> HIDE DEF S, step
  <2> QED
    BY <1>1, Recursion
<1>3. f = Body(f)
  <2>1. ASSUME NEW k \in Nat PROVE f[k] = IF k = 0 THEN Alone(o) ELSE Wider(w, f[k - 1])
    <3> HIDE DEF S, step
    <3>1. f[k] = IF k = 0 THEN Alone(o) ELSE step[f[k - 1]]
      BY <1>2
    <3>2. CASE k # 0
      <4>1. k - 1 \in Nat
        BY <3>2
      <4>2. f[k - 1] \in S
        BY <1>2, <4>1
      <4>3. step[f[k - 1]] = Wider(w, f[k - 1])
        BY <4>2 DEF step
      <4> QED
        BY <3>1, <3>2, <4>3
    <3> QED
      BY <3>1, <3>2
  <2> QED
    BY <1>2, <2>1
<1>4. PICK g : g = Ring(w, o)
  OBVIOUS
<1>5. g = Body(g)
  BY <1>3, <1>4, Zenon DEF Ring
<1>6. g[0] = Alone(o) /\ \A k \in Nat : g[k + 1] = Wider(w, g[k])
  BY <1>5
<1> QED
  BY <1>4, <1>6 DEF Alone

\* Hops is the ring of vis_k hops.
LEMMA HopsIsRing ==
  ASSUME NEW o \in Origins
  PROVE  Hops(o) = Ring(wiring, o)[VisK]
BY Zenon DEF Hops, Ring, Wider, Alone

\* Everybody within vis_k hops is in the tree.
LEMMA RingReached ==
  ASSUME NEW w \in Wirings, NEW o \in FloodSats
  PROVE  \A s \in Ring(w, o)[VisK] :
           \E i \in 1..Len(Reached(w, o)) : Reached(w, o)[i].sat = s
<1>1. PICK q : q = Reached(w, o)
  OBVIOUS
<1>2. SearchTree(w, o, q) /\ Frontier(w, q) = {}
  BY <1>1, ReachedTree
<1>3. q \in Seq(Node) /\ Len(q) >= 1 /\ q[1].sat = o /\ q[1].depth = 0
  BY <1>2 DEF SearchTree, Rooted
<1> DEFINE Met(s, k) == \E i \in 1..Len(q) : q[i].sat = s /\ q[i].depth =< k
           T == {k \in Nat : k =< VisK => \A s \in Ring(w, o)[k] : Met(s, k)}
<1>4. 0 \in T
  <2>1. Ring(w, o)[0] = {o}
    BY RingStep
  <2> QED
    BY <2>1, <1>3
<1>5. ASSUME NEW k \in Nat, k \in T PROVE k + 1 \in T
  <2> SUFFICES ASSUME k + 1 =< VisK, NEW s \in Ring(w, o)[k + 1] PROVE Met(s, k + 1)
    OBVIOUS
  <2>1. VisK \in Nat /\ k =< VisK /\ k < VisK
    BY FloodAssumption
  <2>2. PICK r : r = Ring(w, o)[k]
    OBVIOUS
  <2>3. \A t \in r : Met(t, k)
    BY <1>5, <2>1, <2>2
  <2>4. s \in r \/ \E t \in r : s \in w[t]
    BY <2>2, RingStep DEF Wider
  <2>5. CASE s \in r
    <3>1. PICK i \in 1..Len(q) : q[i].sat = s /\ q[i].depth =< k
      BY <2>3, <2>5
    <3>2. q[i].depth \in Nat
      BY <1>3, NodeFields
    <3> QED
      BY <3>1, <3>2
  <2>6. CASE \E t \in r : s \in w[t]
    <3>1. PICK t \in r : s \in w[t]
      BY <2>6
    <3>2. PICK i \in 1..Len(q) : q[i].sat = t /\ q[i].depth =< k
      BY <2>3
    <3>3. q[i].depth \in Nat /\ t \in FloodSats
      BY <1>3, <3>2, NodeFields
    <3>4. Expands(q[i]) /\ s \in w[q[i].sat]
      BY <2>1, <3>1, <3>2, <3>3 DEF Expands
    <3>5. s \in FloodSats
      BY <3>1, <3>3, FloodAssumption
    <3>6. <<i, s>> \notin Frontier(w, q)
      BY <1>2
    <3>7. PICK j \in 1..Len(q) : q[j].sat = s
      <4>1. i \in DOMAIN q /\ DOMAIN q = 1..Len(q)
        BY <1>3
      <4> QED
        BY <3>4, <3>5, <3>6, <4>1 DEF Frontier
    <3>8. q[j].depth =< q[i].depth + 1
      BY <1>2, <3>4, <3>7 DEF SearchTree, Shortest
    <3>9. q[j].depth \in Nat
      BY <1>3, NodeFields
    <3> QED
      BY <3>2, <3>3, <3>7, <3>8, <3>9
  <2> QED
    BY <2>4, <2>5, <2>6
<1>6. Nat \subseteq T
  <2> HIDE DEF T
  <2> QED
    BY <1>4, <1>5, SetInduction
<1>7. VisK \in Nat /\ VisK =< VisK
  BY FloodAssumption
<1>8. \A s \in Ring(w, o)[VisK] : Met(s, VisK)
  BY <1>6, <1>7
<1> QED
  BY <1>1, <1>8

\* Children of a satellite are those that hang under it.
LEMMA ChildrenInTree ==
  ASSUME NEW w \in Wirings, NEW o \in FloodSats, NEW s \in FloodSats
  PROVE  /\ ControlChildren[w][o][s] \subseteq FloodSats
         /\ IsFiniteSet(ControlChildren[w][o][s])
         /\ \A t : t \in ControlChildren[w][o][s] <=>
              \E i \in 2..Len(Reached(w, o)) :
                Reached(w, o)[i].sat = t /\ Reached(w, o)[i].parent = s
<1>1. PICK q : q = Reached(w, o)
  OBVIOUS
<1>2. q \in Seq(Node)
  BY <1>1, ReachedTree DEF SearchTree, Rooted
<1>3. ControlChildren[w][o][s] =
        {Reached(w, o)[i].sat :
           i \in {j \in DOMAIN Reached(w, o) : j > 1 /\ Reached(w, o)[j].parent = s}}
  BY DEF ControlChildren
<1>4. PICK c : c = ControlChildren[w][o][s]
  BY Zenon
<1>5. c = {q[i].sat : i \in {j \in DOMAIN q : j > 1 /\ q[j].parent = s}}
  BY <1>1, <1>3, <1>4, Zenon
<1>6. \A t : t \in c <=> \E i \in 2..Len(q) : q[i].sat = t /\ q[i].parent = s
  BY <1>2, <1>5
<1>7. c \subseteq FloodSats
  BY <1>2, <1>6, NodeFields
<1>8. IsFiniteSet(c)
  BY <1>7, FS_Subset, FloodAssumption
<1> QED
  BY <1>1, <1>4, <1>6, <1>7, <1>8, Zenon

\* The delays of a hop have a greatest one.
LEMMA GreatestDelay ==
  /\ Max(Delays) \in Nat
  /\ \A d \in Delays : d =< Max(Delays)
<1>1. Delays \subseteq Nat /\ IsFiniteSet(Delays) /\ Delays # {}
  BY FloodAssumption
<1>2. PICK n : n = Cardinality(Delays)
  OBVIOUS
<1>3. n \in Nat /\ ExistsBijection(1..n, Delays)
  BY <1>1, <1>2, FS_CardinalityType
<1>4. PICK f \in [1..n -> Delays] : \A d \in Delays : \E i \in 1..n : f[i] = d
  BY <1>3 DEF ExistsBijection, Bijection, Surjection
<1>0. n \in Nat /\ \A i \in 1..n : f[i] \in Nat
  BY <1>1, <1>3, <1>4
<1> DEFINE T == {k \in Nat : k + 1 =< n =>
                   \E i \in 1..(k + 1) : \A j \in 1..(k + 1) : f[j] =< f[i]}
<1>5. 0 \in T
  <2> SUFFICES ASSUME 1 =< n PROVE f[1] =< f[1]
    BY <1>0
  <2>1. f[1] \in Nat
    BY <1>0
  <2> QED
    BY <2>1
<1>6. ASSUME NEW k \in Nat, k \in T PROVE k + 1 \in T
  <2> SUFFICES ASSUME k + 2 =< n
               PROVE  \E i \in 1..(k + 2) : \A j \in 1..(k + 2) : f[j] =< f[i]
    OBVIOUS
  <2>1. PICK i \in 1..(k + 1) : \A j \in 1..(k + 1) : f[j] =< f[i]
    <3>1. k + 1 =< n
      BY <1>0
    <3> QED
      BY <1>6, <3>1
  <2>2. \A j \in 1..(k + 2) : f[j] \in Nat
    BY <1>0
  <2>3. CASE f[k + 2] =< f[i]
    <3>1. \A j \in 1..(k + 2) : j \in 1..(k + 1) \/ j = k + 2
      OBVIOUS
    <3>2. \A j \in 1..(k + 2) : f[j] =< f[i]
      BY <2>1, <2>3, <3>1
    <3>3. i \in 1..(k + 2)
      OBVIOUS
    <3> QED
      BY <3>2, <3>3, Zenon
  <2>4. CASE f[i] =< f[k + 2]
    <3>1. ASSUME NEW j \in 1..(k + 2) PROVE f[j] =< f[k + 2]
      <4>1. f[j] \in Nat /\ f[i] \in Nat /\ f[k + 2] \in Nat
        BY <2>2
      <4>2. j = k + 2 \/ f[j] =< f[i]
        BY <2>1
      <4> QED
        BY <4>1, <4>2, <2>4
    <3> QED
      BY <3>1
  <2>5. f[i] \in Nat /\ f[k + 2] \in Nat
    BY <2>2
  <2>6. f[k + 2] =< f[i] \/ f[i] =< f[k + 2]
    BY <2>5
  <2> QED
    BY <2>3, <2>4, <2>6, Zenon
<1>7. Nat \subseteq T
  <2> HIDE DEF T
  <2> QED
    BY <1>5, <1>6, SetInduction
<1>8. n \in 1..n /\ n - 1 \in Nat
  <2>1. PICK i \in 1..n : TRUE
    BY <1>1, <1>4
  <2> QED
    BY <2>1, <1>0
<1>9. (n - 1) + 1 = n /\ n =< n
  BY <1>0
<1>10. \E i \in 1..n : \A j \in 1..n : f[j] =< f[i]
  BY <1>7, <1>8, <1>9, Zenon
<1>11. \E x \in Delays : \A y \in Delays : x >= y
  BY <1>1, <1>4, <1>10
<1>12. Max(Delays) \in Delays /\ \A y \in Delays : Max(Delays) >= y
  BY <1>11 DEF Max
<1> QED
  BY <1>1, <1>12

\* What relaying needs of a tree.
RelayTree(o, q) ==
  /\ q \in Seq(Node) /\ Len(q) >= 1 /\ q[1].sat = o /\ q[1].depth = 0
  /\ \A i \in 2..Len(q) : q[i].sat # o /\ \E p \in 1..(i - 1) : q[i].parent = q[p].sat
  /\ \A i \in 1..Len(q), j \in 2..Len(q) :
       q[j].parent = q[i].sat => q[j].depth = q[i].depth + 1 /\ q[i].depth < VisK

\* The trees of the kernel have it.
LEMMA ReachedRelays ==
  ASSUME NEW w \in Wirings, NEW o \in FloodSats
  PROVE  RelayTree(o, Reached(w, o))
<1>1. PICK q : q = Reached(w, o)
  OBVIOUS
<1>2. Rooted(o, q) /\ Distinct(q) /\ Parented(w, q)
  BY <1>1, ReachedTree DEF SearchTree
<1>3. q \in Seq(Node) /\ Len(q) >= 1 /\ q[1].sat = o /\ q[1].depth = 0
  BY <1>2 DEF Rooted
<1>4. ASSUME NEW i \in 2..Len(q)
      PROVE  q[i].sat # o /\ \E p \in 1..(i - 1) : Hangs(w, q, i, p)
  BY <1>2, <1>3 DEF Distinct, Parented
<1>5. ASSUME NEW i \in 1..Len(q), NEW j \in 2..Len(q), q[j].parent = q[i].sat
      PROVE  q[j].depth = q[i].depth + 1 /\ q[i].depth < VisK
  <2>1. PICK p \in 1..(j - 1) : Hangs(w, q, j, p)
    BY <1>4
  <2>2. q[p].sat = q[i].sat /\ p \in 1..Len(q)
    BY <1>3, <1>5, <2>1 DEF Hangs
  <2>3. p = i
    BY <1>2, <2>2 DEF Distinct
  <2> QED
    BY <2>1, <2>3 DEF Hangs
<1>6. \A i \in 2..Len(q) : q[i].sat # o /\ \E p \in 1..(i - 1) : q[i].parent = q[p].sat
  BY <1>4 DEF Hangs
<1> QED
  BY <1>1, <1>3, <1>5, <1>6 DEF RelayTree

-----------------------------------------------------------------------------
(* Floods.  Settled is the inductive invariant: instants that are due have *)
(* not passed, what is newer than the last trouble says what is served,    *)
(* and the grid of an origin that has gone on for an interval without      *)
(* trouble has a report of that interval under way, or over, in the whole  *)
(* tree.                                                                   *)

ClocksTyped ==
  /\ wiring \in Wirings /\ calm \in Nat /\ calm =< now /\ lost \in Nat
  /\ periodic \in [Origins -> Nat] /\ burst \in [Origins -> Int]

OnTime ==
  /\ \A s \in Origins :
       /\ now =< periodic[s] /\ periodic[s] =< now + AdvertInterval
       /\ burst[s] # Never => now =< burst[s]
  /\ \A m \in flight :
       /\ m.to \in FloodSats /\ m.due \in Nat
       /\ now =< m.due /\ m.due =< m.gen + Ttl + Max(Delays)

UpToDate ==
  /\ \A m \in flight : m.gen > calm => m.says = serving[m.origin]
  /\ \A s \in FloodSats, o \in Origins :
       cache[s][o].gen > calm => cache[s][o].says = serving[o]

\* A copy of the n-th report travels along the tree with the hops that are left.
Carried(o, n, g) ==
  \A m \in flight : m.origin = o /\ m.seq = n =>
    /\ m.gen = g
    /\ \E i \in 2..Len(Reached(wiring, o)) :
         /\ m.to = Reached(wiring, o)[i].sat
         /\ m.left = VisK - Reached(wiring, o)[i].depth + 1

\* Whoever heard it has passed it on to all its children.
Passed(o, n) ==
  \A i \in 2..Len(Reached(wiring, o)) :
    <<o, n>> \in heard[Reached(wiring, o)[i].parent] =>
      \/ <<o, n>> \in heard[Reached(wiring, o)[i].sat]
      \/ \E m \in flight : m.origin = o /\ m.seq = n /\ m.to = Reached(wiring, o)[i].sat

Kept(o, n, g) ==
  \A i \in 2..Len(Reached(wiring, o)) :
    <<o, n>> \in heard[Reached(wiring, o)[i].sat] =>
      cache[Reached(wiring, o)[i].sat][o].gen >= g

Flooded(o, n, g) ==
  /\ n \in 1..seq /\ <<o, n>> \in heard[o]
  /\ Carried(o, n, g) /\ Passed(o, n) /\ Kept(o, n, g)

\* When the grid of o has passed a report interval without trouble, a report
\* of that interval is on its way through the whole tree.
Renewed(o) ==
  periodic[o] > calm + AdvertInterval =>
    \E n \in Nat, g \in Nat : g > calm /\ g =< calm + AdvertInterval /\ Flooded(o, n, g)

Settled ==
  /\ ClocksTyped /\ OnTime /\ UpToDate
  /\ \A o \in Origins : Renewed(o)

\* The copies that are queued: one per child whose link has room.
LEMMA CopyOf ==
  ASSUME NEW ad, NEW s, NEW kids, NEW hops, NEW fate \in [kids -> Outcomes], now \in Nat
  PROVE  /\ \A m \in Copies(ad, s, kids, hops, fate) :
              /\ m.origin = ad.origin /\ m.seq = ad.seq /\ m.gen = ad.gen /\ m.says = ad.says
              /\ m.from = s /\ m.to \in kids /\ m.left = hops
              /\ m.due \in Nat /\ now =< m.due /\ m.due =< now + Max(Delays)
         /\ \A t \in kids : fate[t] # Overflow =>
              \E m \in Copies(ad, s, kids, hops, fate) :
                m.origin = ad.origin /\ m.seq = ad.seq /\ m.to = t
<1>1. ASSUME NEW m \in Copies(ad, s, kids, hops, fate)
      PROVE  /\ m.origin = ad.origin /\ m.seq = ad.seq /\ m.gen = ad.gen /\ m.says = ad.says
             /\ m.from = s /\ m.to \in kids /\ m.left = hops
             /\ m.due \in Nat /\ now =< m.due /\ m.due =< now + Max(Delays)
  <2>1. PICK t \in kids : /\ fate[t] # Overflow
                          /\ m = [origin |-> ad.origin, seq |-> ad.seq, gen |-> ad.gen,
                                  says |-> ad.says, from |-> s, to |-> t, left |-> hops,
                                  due |-> now + fate[t]]
    BY DEF Copies
  <2>2. PICK d : d = fate[t]
    OBVIOUS
  <2>3. d \in Delays
    BY <2>1, <2>2 DEF Outcomes
  <2>4. d \in Nat /\ d =< Max(Delays) /\ Max(Delays) \in Nat
    BY <2>3, GreatestDelay, FloodAssumption
  <2>5. m.due = now + d
    BY <2>1, <2>2
  <2>6. /\ m.origin = ad.origin /\ m.seq = ad.seq /\ m.gen = ad.gen /\ m.says = ad.says
        /\ m.from = s /\ m.to = t /\ m.left = hops
    BY <2>1
  <2>7. m.due \in Nat /\ now =< m.due /\ m.due =< now + Max(Delays)
    BY <2>4, <2>5
  <2> QED
    BY <2>6, <2>7
<1>2. ASSUME NEW t \in kids, fate[t] # Overflow
      PROVE  \E m \in Copies(ad, s, kids, hops, fate) :
               m.origin = ad.origin /\ m.seq = ad.seq /\ m.to = t
  <2> DEFINE m == [origin |-> ad.origin, seq |-> ad.seq, gen |-> ad.gen,
                   says |-> ad.says, from |-> s, to |-> t, left |-> hops,
                   due |-> now + fate[t]]
  <2>1. m \in Copies(ad, s, kids, hops, fate)
    BY <1>2 DEF Copies
  <2> QED
    BY <2>1
<1> QED
  BY <1>1, <1>2

\* When the count of lost copies stands still, every child had room.
LEMMA LossCounts ==
  ASSUME NEW kids, IsFiniteSet(kids), NEW fate \in [kids -> Outcomes], lost \in Nat,
         Losing(kids, fate)
  PROVE  lost' \in Nat /\ (lost' = lost => \A t \in kids : fate[t] # Overflow)
<1> DEFINE gone == {t \in kids : fate[t] = Overflow}
<1>1. gone \subseteq kids
  OBVIOUS
<1>2. lost' = lost + Cardinality(gone)
  BY DEF Losing
<1> HIDE DEF gone
<1>3. IsFiniteSet(gone)
  BY <1>1, FS_Subset
<1>4. Cardinality(gone) \in Nat /\ (Cardinality(gone) = 0 <=> gone = {})
  BY <1>3, FS_CardinalityType, FS_EmptySet
<1>5. lost' \in Nat /\ (lost' = lost => gone = {})
  BY <1>2, <1>4
<1> QED
  BY <1>5 DEF gone

\* At the start the grid is no further than the last trouble.
LEMMA InitSettled == FloodInit => Settled
<1> SUFFICES ASSUME FloodInit PROVE Settled
  OBVIOUS
<1> USE FloodAssumption DEF FloodInit
<1>1. ClocksTyped
  BY DEF ClocksTyped, Never
<1>2. OnTime
  BY DEF OnTime, Never
<1>3. UpToDate
  BY DEF UpToDate, NoEntry
<1>4. \A o \in Origins : Renewed(o)
  BY DEF Renewed
<1> QED
  BY <1>1, <1>2, <1>3, <1>4 DEF Settled

\* A lifetime and a hop after the interval no copy of that report is left, so
\* everybody in the tree has heard it, and has kept an entry at least as new.
LEMMA Converged ==
  ASSUME Sound, Settled
  PROVE  KnowledgeConverges
<1> SUFFICES ASSUME now > calm + AdvertInterval + Ttl + Max(Delays),
                    NEW o \in Origins, NEW s \in Hops(o) \ {o}
             PROVE  cache[s][o].gen > Never /\ cache[s][o].says = serving[o]
  BY DEF KnowledgeConverges
<1>1. /\ now \in Nat /\ calm \in Nat /\ AdvertInterval \in Nat /\ Ttl \in Nat
      /\ Max(Delays) \in Nat /\ wiring \in Wirings /\ o \in FloodSats
  BY GreatestDelay, FloodAssumption DEF Sound, StateTyped, Settled, ClocksTyped
<1>2. now =< periodic[o] /\ periodic[o] \in Nat
  BY DEF Settled, OnTime, ClocksTyped
<1>3. PICK n \in Nat, g \in Nat : g > calm /\ g =< calm + AdvertInterval /\ Flooded(o, n, g)
  <2>1. periodic[o] > calm + AdvertInterval
    BY <1>1, <1>2
  <2> QED
    BY <2>1 DEF Settled, Renewed
<1>4. ASSUME NEW m \in flight, m.origin = o, m.seq = n PROVE FALSE
  <2>1. m.gen = g
    BY <1>3, <1>4 DEF Flooded, Carried
  <2>2. m.due \in Nat /\ now =< m.due /\ m.due =< m.gen + Ttl + Max(Delays)
    BY DEF Settled, OnTime
  <2> QED
    BY <1>1, <1>3, <2>1, <2>2
<1>5. PICK q : q = Reached(wiring, o)
  OBVIOUS
<1>6. RelayTree(o, q)
  BY <1>1, <1>5, ReachedRelays
<1>7. /\ q \in Seq(Node) /\ Len(q) >= 1 /\ q[1].sat = o
      /\ \A i \in 2..Len(q) : \E p \in 1..(i - 1) : q[i].parent = q[p].sat
  BY <1>6 DEF RelayTree
<1>8. \A i \in 2..Len(q) : <<o, n>> \in heard[q[i].parent] => <<o, n>> \in heard[q[i].sat]
  BY <1>3, <1>4, <1>5 DEF Flooded, Passed
<1>9. <<o, n>> \in heard[o]
  BY <1>3 DEF Flooded
<1> DEFINE T == {i \in Nat : \A j \in 1..(i + 1) : j =< Len(q) => <<o, n>> \in heard[q[j].sat]}
<1>10. 0 \in T
  BY <1>7, <1>9
<1>11. ASSUME NEW i \in Nat, i \in T PROVE i + 1 \in T
  <2> SUFFICES ASSUME NEW j \in 1..(i + 2), j =< Len(q)
               PROVE  <<o, n>> \in heard[q[j].sat]
    OBVIOUS
  <2>1. CASE j \in 1..(i + 1)
    BY <1>11, <2>1
  <2>2. CASE j = i + 2
    <3>1. j \in 2..Len(q)
      BY <1>7, <2>2
    <3>2. PICK p \in 1..(j - 1) : q[j].parent = q[p].sat
      BY <1>7, <3>1
    <3>3. p \in 1..(i + 1) /\ p =< Len(q)
      BY <1>7, <2>2, <3>1
    <3>4. <<o, n>> \in heard[q[p].sat]
      BY <1>11, <3>3
    <3> QED
      BY <1>8, <3>1, <3>2, <3>4
  <2> QED
    BY <2>1, <2>2
<1>12. Nat \subseteq T
  <2> HIDE DEF T
  <2> QED
    BY <1>10, <1>11, SetInduction
<1>13. s \in Ring(wiring, o)[VisK] /\ s # o
  BY HopsIsRing, Zenon
<1>14. PICK i \in 1..Len(q) : q[i].sat = s
  BY <1>1, <1>5, <1>13, RingReached
<1>15. i \in 2..Len(q)
  BY <1>7, <1>13, <1>14
<1>16. <<o, n>> \in heard[s]
  <2>1. i \in Nat /\ i \in 1..(i + 1) /\ i =< Len(q)
    BY <1>7, <1>15
  <2> QED
    BY <1>12, <1>14, <2>1
<1>17. cache[s][o].gen >= g
  BY <1>3, <1>5, <1>14, <1>15, <1>16 DEF Flooded, Kept
<1>18. s \in FloodSats /\ cache[s][o].gen \in Int
  BY <1>7, <1>14, NodeFields DEF Sound, StateTyped, Entry
<1>19. cache[s][o].gen > calm /\ cache[s][o].gen > Never
  BY <1>1, <1>3, <1>17, <1>18 DEF Never
<1>20. cache[s][o].says = serving[o]
  BY <1>18, <1>19 DEF Settled, UpToDate
<1> QED
  BY <1>19, <1>20

\* A report of s: what its copies meet.
LEMMA AdvertiseFates ==
  ASSUME Sound, Settled, NEW s \in Origins, NEW says, Advertise(s, says)
  PROVE  \E fate \in [ControlChildren[wiring][s][s] -> Outcomes] :
           LET kids == ControlChildren[wiring][s][s]
               ad   == [origin |-> s, seq |-> seq + 1, gen |-> now, says |-> says]
           IN  /\ flight' = flight \cup Copies(ad, s, kids, VisK, fate)
               /\ lost' \in Nat
               /\ lost' = lost => \A t \in kids : fate[t] # Overflow
<1>1. /\ wiring \in Wirings /\ s \in FloodSats /\ lost \in Nat
  BY FloodAssumption DEF Settled, ClocksTyped
<1>2. PICK kids : kids = ControlChildren[wiring][s][s]
  OBVIOUS
<1>3. IsFiniteSet(kids)
  BY <1>1, <1>2, ChildrenInTree
<1>4. PICK fate \in [kids -> Outcomes] :
        /\ flight' = flight \cup Copies([origin |-> s, seq |-> seq + 1, gen |-> now,
                                         says |-> says], s, kids, VisK, fate)
        /\ Losing(kids, fate)
  BY <1>2 DEF Advertise
<1>5. lost' \in Nat /\ (lost' = lost => \A t \in kids : fate[t] # Overflow)
  BY <1>1, <1>3, <1>4, LossCounts
<1> QED
  BY <1>2, <1>4, <1>5

\* The same report: fresh are its copies.
LEMMA AdvertiseCopies ==
  ASSUME Sound, Settled, NEW s \in Origins, NEW says, Advertise(s, says)
  PROVE  \E fresh :
           /\ flight' = flight \cup fresh /\ lost' \in Nat
           /\ \A m \in fresh :
                /\ m.origin = s /\ m.seq = seq + 1 /\ m.gen = now /\ m.says = says
                /\ m.to \in ControlChildren[wiring][s][s] /\ m.left = VisK
                /\ m.due \in Nat /\ now =< m.due /\ m.due =< now + Max(Delays)
           /\ lost' = lost =>
                \A t \in ControlChildren[wiring][s][s] :
                  \E m \in fresh : m.origin = s /\ m.seq = seq + 1 /\ m.to = t
<1>1. PICK kids : kids = ControlChildren[wiring][s][s]
  OBVIOUS
<1>2. PICK ad : ad = [origin |-> s, seq |-> seq + 1, gen |-> now, says |-> says]
  OBVIOUS
<1>3. PICK fate \in [kids -> Outcomes] :
        /\ flight' = flight \cup Copies(ad, s, kids, VisK, fate) /\ lost' \in Nat
        /\ lost' = lost => \A t \in kids : fate[t] # Overflow
  BY <1>1, <1>2, AdvertiseFates
<1>4. PICK fresh : fresh = Copies(ad, s, kids, VisK, fate)
  OBVIOUS
<1>5. now \in Nat
  BY DEF Sound, StateTyped
<1>6. /\ \A m \in fresh :
           /\ m.origin = ad.origin /\ m.seq = ad.seq /\ m.gen = ad.gen /\ m.says = ad.says
           /\ m.to \in kids /\ m.left = VisK
           /\ m.due \in Nat /\ now =< m.due /\ m.due =< now + Max(Delays)
      /\ \A t \in kids : fate[t] # Overflow =>
           \E m \in fresh : m.origin = ad.origin /\ m.seq = ad.seq /\ m.to = t
  BY <1>3, <1>4, <1>5, CopyOf
<1>7. ad.origin = s /\ ad.seq = seq + 1 /\ ad.gen = now /\ ad.says = says
  BY <1>2
<1> QED
  BY <1>1, <1>3, <1>4, <1>6, <1>7

\* It keeps the instants in order and says what is served.
LEMMA AdvertiseClocks ==
  ASSUME Sound, Settled, NEW s \in Origins, NEW says \in Nat, Advertise(s, says),
         serving' = [serving EXCEPT ![s] = says], UNCHANGED <<now, wiring, cache>>,
         periodic' \in [Origins -> Nat], burst' \in [Origins -> Int],
         \A o \in Origins :
           /\ now =< periodic'[o] /\ periodic'[o] =< now + AdvertInterval
           /\ burst'[o] # Never => now =< burst'[o]
  PROVE  ClocksTyped' /\ OnTime' /\ UpToDate'
<1>1. PICK fresh :
        /\ flight' = flight \cup fresh /\ lost' \in Nat
        /\ \A m \in fresh :
             /\ m.origin = s /\ m.gen = now /\ m.says = says
             /\ m.to \in ControlChildren[wiring][s][s]
             /\ m.due \in Nat /\ now =< m.due /\ m.due =< now + Max(Delays)
  BY AdvertiseCopies
<1>2. /\ now \in Nat /\ calm \in Nat /\ calm =< now /\ wiring \in Wirings
      /\ s \in FloodSats /\ serving \in [Origins -> Nat]
      /\ Ttl \in Nat /\ Max(Delays) \in Nat
  BY GreatestDelay, FloodAssumption DEF Sound, StateTyped, Settled, ClocksTyped
<1>3. calm' = now \/ (calm' = calm /\ says = serving[s])
  BY DEF Advertise
<1>4. ClocksTyped'
  BY <1>1, <1>2, <1>3 DEF ClocksTyped
<1>5. OnTime'
  <2>1. ASSUME NEW m \in flight'
        PROVE  /\ m.to \in FloodSats /\ m.due \in Nat
               /\ now =< m.due /\ m.due =< m.gen + Ttl + Max(Delays)
    <3>1. CASE m \in flight
      BY <3>1 DEF Settled, OnTime
    <3>2. CASE m \in fresh
      <4>1. m.to \in FloodSats
        BY <1>1, <1>2, <3>2, ChildrenInTree
      <4>2. m.gen = now /\ m.due \in Nat /\ now =< m.due /\ m.due =< now + Max(Delays)
        BY <1>1, <3>2
      <4> QED
        BY <1>2, <4>1, <4>2
    <3> QED
      BY <1>1, <3>1, <3>2
  <2> QED
    BY <2>1 DEF OnTime
<1>6. ASSUME calm' = now PROVE UpToDate'
  <2>1. \A m \in flight' : ~ (m.gen > now)
    <3>1. ASSUME NEW m \in flight PROVE ~ (m.gen > now)
      BY <1>2 DEF Sound, CopiesSound
    <3> QED
      BY <1>1, <1>2, <3>1
  <2>2. ASSUME NEW t \in FloodSats, NEW o \in Origins PROVE ~ (cache[t][o].gen > now)
    <3>1. cache[t][o].gen =< now /\ cache[t][o].gen \in Int
      BY DEF Sound, CachesSound, StateTyped, Entry
    <3> QED
      BY <1>2, <3>1
  <2> QED
    BY <1>6, <2>1, <2>2 DEF UpToDate
<1>7. ASSUME calm' = calm, says = serving[s] PROVE UpToDate'
  <2>1. serving' = serving
    BY <1>2, <1>7
  <2>2. ASSUME NEW m \in flight', m.gen > calm PROVE m.says = serving[m.origin]
    BY <1>1, <1>7, <2>2 DEF Settled, UpToDate
  <2> QED
    BY <1>7, <2>1, <2>2 DEF Settled, UpToDate
<1> QED
  BY <1>3, <1>4, <1>5, <1>6, <1>7

\* A report leaves the floods of other reports as they were.
LEMMA AdvertiseKeeps ==
  ASSUME Sound, Settled, NEW s \in Origins, NEW says, Advertise(s, says),
         UNCHANGED <<wiring, cache>>,
         NEW o \in Origins, NEW n \in Nat, NEW g \in Nat, Flooded(o, n, g)
  PROVE  Flooded(o, n, g)'
<1>1. PICK fresh :
        /\ flight' = flight \cup fresh
        /\ \A m \in fresh : m.seq = seq + 1
  BY AdvertiseCopies
<1>2. seq' = seq + 1 /\ heard' = [heard EXCEPT ![s] = @ \cup {<<s, seq + 1>>}]
  BY DEF Advertise
<1>3. seq \in Nat /\ heard \in [FloodSats -> SUBSET (Origins \X Nat)] /\ n \in 1..seq
  BY DEF Sound, StateTyped, Flooded
<1>4. \A m \in fresh : m.seq # n
  BY <1>1, <1>3
<1>5. \A t \in FloodSats : <<o, n>> \in heard'[t] <=> <<o, n>> \in heard[t]
  <2>1. <<o, n>> # <<s, seq + 1>>
    BY <1>3
  <2> QED
    BY <1>2, <1>3, <2>1
<1>6. PICK q : q = Reached(wiring, o)
  OBVIOUS
<1>7. Reached(wiring', o) = q
  BY <1>6
<1>8. o \in FloodSats /\ RelayTree(o, q) /\ wiring \in Wirings
  BY <1>6, ReachedRelays, FloodAssumption DEF Settled, ClocksTyped
<1>9. ASSUME NEW i \in 2..Len(q) PROVE q[i].sat \in FloodSats /\ q[i].parent \in FloodSats
  <2>1. q \in Seq(Node)
    BY <1>8 DEF RelayTree
  <2>2. q[i] \in Node
    BY <2>1
  <2> QED
    BY <2>2 DEF Node
<1>10. n \in 1..seq' /\ <<o, n>> \in heard'[o]
  BY <1>2, <1>3, <1>5, <1>8 DEF Flooded
<1>11. Carried(o, n, g)'
  BY <1>1, <1>4, <1>6, <1>7 DEF Flooded, Carried
<1>12. Passed(o, n)'
  BY <1>1, <1>5, <1>6, <1>7, <1>9 DEF Flooded, Passed
<1>13. Kept(o, n, g)'
  BY <1>5, <1>6, <1>7, <1>9 DEF Flooded, Kept
<1> QED
  BY <1>10, <1>11, <1>12, <1>13 DEF Flooded

\* A report that loses no copy starts one.
LEMMA AdvertiseFloods ==
  ASSUME Sound, Settled, NEW s \in Origins, NEW says, Advertise(s, says),
         UNCHANGED <<now, wiring, cache>>, lost' = lost,
         NEW n \in Nat, n = seq + 1, NEW g \in Nat, g = now
  PROVE  Flooded(s, n, g)'
<1>1. PICK fresh :
        /\ flight' = flight \cup fresh
        /\ \A m \in fresh :
             /\ m.origin = s /\ m.seq = seq + 1 /\ m.gen = now
             /\ m.to \in ControlChildren[wiring][s][s] /\ m.left = VisK
        /\ \A t \in ControlChildren[wiring][s][s] :
             \E m \in fresh : m.origin = s /\ m.seq = seq + 1 /\ m.to = t
  BY AdvertiseCopies
<1>2. seq' = seq + 1 /\ heard' = [heard EXCEPT ![s] = @ \cup {<<s, seq + 1>>}]
  BY DEF Advertise
<1>3. /\ seq \in Nat /\ heard \in [FloodSats -> SUBSET (Origins \X Nat)] /\ now \in Nat
      /\ s \in FloodSats /\ wiring \in Wirings
  BY FloodAssumption DEF Sound, StateTyped, Settled, ClocksTyped
<1>4. n = seq + 1 /\ g = now
  OBVIOUS
<1>5. \A m \in flight : m.seq # n
  <2>1. \A m \in flight : m.seq \in 1..seq
    BY DEF Sound, CopiesSound
  <2> QED
    BY <1>3, <1>4, <2>1
<1>6. ASSUME NEW t \in FloodSats, <<s, n>> \in heard'[t] PROVE t = s
  <2> SUFFICES ASSUME t # s PROVE FALSE
    OBVIOUS
  <2>1. <<s, n>> \in heard[t]
    BY <1>2, <1>3, <1>6
  <2>2. <<s, n>>[2] =< seq
    BY <2>1 DEF Sound, HeardIsNumbered
  <2>3. <<s, n>>[2] = n
    OBVIOUS
  <2> QED
    BY <1>3, <1>4, <2>2, <2>3
<1>7. PICK q : q = Reached(wiring, s)
  OBVIOUS
<1>8. Reached(wiring', s) = q
  BY <1>7
<1>9. /\ q \in Seq(Node) /\ Len(q) >= 1 /\ q[1].sat = s /\ q[1].depth = 0
      /\ \A i \in 2..Len(q) : q[i].sat # s
      /\ \A j \in 2..Len(q) : q[j].parent = s => q[j].depth = 1
  <2>1. RelayTree(s, q)
    BY <1>3, <1>7, ReachedRelays
  <2> QED
    BY <2>1 DEF RelayTree
<1>10. ASSUME NEW i \in 2..Len(q) PROVE q[i].sat \in FloodSats /\ q[i].parent \in FloodSats
  <2>1. q[i] \in Node
    BY <1>9
  <2> QED
    BY <2>1 DEF Node
<1>11. \A t : t \in ControlChildren[wiring][s][s] <=>
                \E i \in 2..Len(q) : q[i].sat = t /\ q[i].parent = s
  BY <1>3, <1>7, ChildrenInTree
<1>12. n \in 1..seq' /\ <<s, n>> \in heard'[s]
  BY <1>2, <1>3, <1>4
<1>13. ASSUME NEW m \in flight', m.origin = s, m.seq = n
       PROVE  m.gen = g /\ \E i \in 2..Len(q) : m.to = q[i].sat /\ m.left = VisK - q[i].depth + 1
  <2>1. m \in fresh
    BY <1>1, <1>5, <1>13
  <2>2. PICK i \in 2..Len(q) : q[i].sat = m.to /\ q[i].parent = s
    BY <1>1, <1>11, <2>1
  <2>3. m.left = VisK - q[i].depth + 1
    BY <1>1, <1>9, <2>1, <2>2, FloodAssumption
  <2> QED
    BY <1>1, <2>1, <2>2, <2>3
<1>14. ASSUME NEW i \in 2..Len(q), <<s, n>> \in heard'[q[i].parent]
       PROVE  \E m \in flight' : m.origin = s /\ m.seq = n /\ m.to = q[i].sat
  <2>1. q[i].parent = s
    BY <1>6, <1>10, <1>14
  <2>2. q[i].sat \in ControlChildren[wiring][s][s]
    BY <1>11, <2>1
  <2> QED
    BY <1>1, <1>4, <2>2
<1>15. Carried(s, n, g)'
  BY <1>8, <1>13 DEF Carried
<1>16. Passed(s, n)'
  BY <1>8, <1>14 DEF Passed
<1>17. Kept(s, n, g)'
  BY <1>6, <1>8, <1>9, <1>10 DEF Kept
<1> QED
  BY <1>12, <1>15, <1>16, <1>17 DEF Flooded

\* When trouble has just struck, no grid has passed an interval since.
LEMMA TroubleRenews ==
  ASSUME ClocksTyped', OnTime', calm' = now', now' \in Nat
  PROVE  \A o \in Origins : Renewed(o)'
BY FloodAssumption DEF ClocksTyped, OnTime, Renewed

\* What the floods of a report of o rest on: the tree of o.
LEMMA TreeOf ==
  ASSUME Settled, NEW o \in Origins
  PROVE  \E q : /\ q = Reached(wiring, o) /\ RelayTree(o, q)
                /\ \A i \in 2..Len(q) : q[i].sat \in FloodSats /\ q[i].parent \in FloodSats
<1>1. PICK q : q = Reached(wiring, o)
  OBVIOUS
<1>2. RelayTree(o, q)
  BY <1>1, ReachedRelays, FloodAssumption DEF Settled, ClocksTyped
<1>3. ASSUME NEW i \in 2..Len(q) PROVE q[i].sat \in FloodSats /\ q[i].parent \in FloodSats
  <2>1. q[i] \in Node
    BY <1>2 DEF RelayTree
  <2> QED
    BY <2>1 DEF Node
<1> QED
  BY <1>1, <1>2, <1>3

\* A duplicate may go: whom it was for has heard it, and is not the origin.
LEMMA DuplicateKeeps ==
  ASSUME Sound, Settled, NEW m \in flight, Duplicate(m), flight' = flight \ {m},
         UNCHANGED <<wiring, seq, heard, cache>>,
         NEW o \in Origins, NEW n \in Nat, NEW g \in Nat, Flooded(o, n, g)
  PROVE  Flooded(o, n, g)'
<1>1. PICK q : /\ q = Reached(wiring, o) /\ RelayTree(o, q)
  BY TreeOf
<1>2. Reached(wiring', o) = q
  BY <1>1
<1>3. n \in 1..seq' /\ <<o, n>> \in heard'[o]
  BY DEF Flooded
<1>4. Carried(o, n, g)'
  BY <1>1, <1>2 DEF Flooded, Carried
<1>5. ASSUME NEW i \in 2..Len(q), <<o, n>> \in heard[q[i].parent]
      PROVE  \/ <<o, n>> \in heard[q[i].sat]
             \/ \E k \in flight' : k.origin = o /\ k.seq = n /\ k.to = q[i].sat
  <2>1. \/ <<o, n>> \in heard[q[i].sat]
        \/ \E k \in flight : k.origin = o /\ k.seq = n /\ k.to = q[i].sat
    BY <1>1, <1>5 DEF Flooded, Passed
  <2>2. CASE m.origin = o /\ m.seq = n /\ m.to = q[i].sat
    <3>1. q[i].sat # o
      BY <1>1 DEF RelayTree
    <3> QED
      BY <2>2, <3>1 DEF Duplicate
  <2> QED
    BY <2>1, <2>2
<1>6. Passed(o, n)'
  BY <1>2, <1>5 DEF Passed
<1>7. Kept(o, n, g)'
  BY <1>1, <1>2 DEF Flooded, Kept
<1> QED
  BY <1>3, <1>4, <1>6, <1>7 DEF Flooded

\* What accepting m changes: one more report heard at one satellite, one entry
\* of its cache, and its copies for those copies of m that follow.
HandsDown(m, fresh) ==
  /\ heard' = [heard EXCEPT ![m.to] = @ \cup {<<m.origin, m.seq>>}]
  /\ cache' = [cache EXCEPT ![m.to][m.origin] = Put(@, m)]
  /\ flight' = (flight \ {m}) \cup fresh
  /\ \A k \in fresh :
       /\ k.origin = m.origin /\ k.seq = m.seq /\ k.gen = m.gen /\ k.says = m.says
       /\ k.left = m.left - 1 /\ MayRelay(m)
       /\ k.to \in ControlChildren[wiring][m.origin][m.to]
       /\ k.due \in Nat /\ now =< k.due /\ k.due =< now + Max(Delays)
  /\ lost' \in Nat
  /\ lost' = lost /\ MayRelay(m) =>
       \A t \in ControlChildren[wiring][m.origin][m.to] :
         \E k \in fresh : k.origin = m.origin /\ k.seq = m.seq /\ k.to = t

\* An arrival in time that is no duplicate is such a step.
LEMMA ArriveAccepts ==
  ASSUME Sound, Settled, NEW m \in flight, Arrive(m), ~ Stale(m), ~ Duplicate(m)
  PROVE  \E fresh : HandsDown(m, fresh)
<1>1. PICK kids : kids = IF MayRelay(m) THEN ControlChildren[wiring][m.origin][m.to] ELSE {}
  OBVIOUS
<1>2. PICK fate \in [kids -> Outcomes] :
        /\ flight' = (flight \ {m}) \cup Copies(m, m.to, kids, m.left - 1, fate)
        /\ Losing(kids, fate)
  BY <1>1 DEF Arrive
<1>3. PICK fresh : fresh = Copies(m, m.to, kids, m.left - 1, fate)
  OBVIOUS
<1>4. now \in Nat /\ lost \in Nat /\ wiring \in Wirings
      /\ m.origin \in FloodSats /\ m.to \in FloodSats
  BY FloodAssumption DEF Sound, StateTyped, CopiesSound, Settled, ClocksTyped, OnTime
<1>5. IsFiniteSet(kids)
  <2>1. IsFiniteSet(ControlChildren[wiring][m.origin][m.to]) /\ IsFiniteSet({})
    BY <1>4, ChildrenInTree, FS_EmptySet
  <2> QED
    BY <1>1, <2>1
<1>6. lost' \in Nat /\ (lost' = lost => \A t \in kids : fate[t] # Overflow)
  BY <1>2, <1>4, <1>5, LossCounts
<1>7. /\ \A k \in fresh :
           /\ k.origin = m.origin /\ k.seq = m.seq /\ k.gen = m.gen /\ k.says = m.says
           /\ k.to \in kids /\ k.left = m.left - 1
           /\ k.due \in Nat /\ now =< k.due /\ k.due =< now + Max(Delays)
      /\ \A t \in kids : fate[t] # Overflow =>
           \E k \in fresh : k.origin = m.origin /\ k.seq = m.seq /\ k.to = t
  BY <1>2, <1>3, <1>4, CopyOf
<1>8. /\ heard' = [heard EXCEPT ![m.to] = @ \cup {<<m.origin, m.seq>>}]
      /\ cache' = [cache EXCEPT ![m.to][m.origin] = Put(@, m)]
  BY DEF Arrive
<1>9. HandsDown(m, fresh)
  BY <1>1, <1>2, <1>3, <1>6, <1>7, <1>8 DEF HandsDown
<1> QED
  BY <1>9

\* Entries are replaced by newer ones only, and one is at least as new as m.
LEMMA CacheAfter ==
  ASSUME Sound, Settled, NEW m \in flight, NEW fresh, HandsDown(m, fresh)
  PROVE  /\ m.to \in FloodSats /\ m.origin \in Origins /\ m.gen \in Nat
         /\ \A t \in FloodSats, o \in Origins :
              /\ cache[t][o].gen \in Int /\ cache'[t][o].gen >= cache[t][o].gen
              /\ \/ cache'[t][o] = cache[t][o]
                 \/ /\ t = m.to /\ o = m.origin
                    /\ cache'[t][o].gen = m.gen /\ cache'[t][o].says = m.says
         /\ cache'[m.to][m.origin].gen >= m.gen
<1>1. m.to \in FloodSats /\ m.origin \in Origins /\ m.gen \in Nat
  BY DEF Settled, OnTime, Sound, CopiesSound, StateTyped
<1>2. cache \in [FloodSats -> [Origins -> Entry]]
  BY DEF Sound, StateTyped
<1>3. ASSUME NEW t \in FloodSats, NEW o \in Origins
      PROVE  cache'[t][o] = IF t = m.to /\ o = m.origin THEN Put(cache[t][o], m) ELSE cache[t][o]
  BY <1>1, <1>2 DEF HandsDown
<1>4. ASSUME NEW t \in FloodSats, NEW o \in Origins
      PROVE  /\ cache[t][o].gen \in Int /\ cache'[t][o].gen >= cache[t][o].gen
             /\ \/ cache'[t][o] = cache[t][o]
                \/ /\ t = m.to /\ o = m.origin
                   /\ cache'[t][o].gen = m.gen /\ cache'[t][o].says = m.says
  <2>1. cache[t][o].gen \in Int
    BY <1>2 DEF Entry
  <2> QED
    BY <1>1, <1>3, <2>1 DEF Put
<1>5. cache'[m.to][m.origin].gen >= m.gen
  <2>1. cache[m.to][m.origin].gen \in Int
    BY <1>1, <1>2 DEF Entry
  <2>2. cache'[m.to][m.origin] = Put(cache[m.to][m.origin], m)
    BY <1>1, <1>3
  <2> QED
    BY <1>1, <2>1, <2>2 DEF Put
<1> QED
  BY <1>1, <1>4, <1>5

\* Accepting a copy of another report disturbs no flood.
LEMMA OtherAcceptedKeeps ==
  ASSUME Sound, Settled, NEW m \in flight, NEW fresh, HandsDown(m, fresh),
         UNCHANGED <<wiring, seq>>,
         NEW o \in Origins, NEW n \in Nat, NEW g \in Nat, Flooded(o, n, g),
         ~ (m.origin = o /\ m.seq = n)
  PROVE  Flooded(o, n, g)'
<1>1. PICK q : /\ q = Reached(wiring, o) /\ RelayTree(o, q)
               /\ \A i \in 2..Len(q) : q[i].sat \in FloodSats /\ q[i].parent \in FloodSats
  BY TreeOf
<1>2. Reached(wiring', o) = q
  BY <1>1
<1>3. heard \in [FloodSats -> SUBSET (Origins \X Nat)] /\ m.to \in FloodSats /\ o \in FloodSats
  BY FloodAssumption DEF Sound, StateTyped, Settled, OnTime
<1>4. \A t \in FloodSats : <<o, n>> \in heard'[t] <=> <<o, n>> \in heard[t]
  <2>1. <<o, n>> # <<m.origin, m.seq>>
    OBVIOUS
  <2> QED
    BY <1>3, <2>1 DEF HandsDown
<1>5. /\ flight' = (flight \ {m}) \cup fresh
      /\ \A k \in fresh : k.origin = m.origin /\ k.seq = m.seq
  BY DEF HandsDown
<1>6. n \in 1..seq' /\ <<o, n>> \in heard'[o]
  BY <1>3, <1>4 DEF Flooded
<1>7. Carried(o, n, g)'
  BY <1>1, <1>2, <1>5 DEF Flooded, Carried
<1>8. Passed(o, n)'
  <2> SUFFICES ASSUME NEW i \in 2..Len(q), <<o, n>> \in heard'[q[i].parent]
               PROVE  \/ <<o, n>> \in heard'[q[i].sat]
                      \/ \E k \in flight' : k.origin = o /\ k.seq = n /\ k.to = q[i].sat
    BY <1>2 DEF Passed
  <2>1. \/ <<o, n>> \in heard[q[i].sat]
        \/ \E k \in flight : k.origin = o /\ k.seq = n /\ k.to = q[i].sat
    BY <1>1, <1>4 DEF Flooded, Passed
  <2> QED
    BY <1>1, <1>4, <1>5, <2>1
<1>9. Kept(o, n, g)'
  <2> SUFFICES ASSUME NEW i \in 2..Len(q), <<o, n>> \in heard'[q[i].sat]
               PROVE  cache'[q[i].sat][o].gen >= g
    BY <1>2 DEF Kept
  <2>1. PICK t \in FloodSats : t = q[i].sat
    BY <1>1
  <2>2. cache[t][o].gen >= g
    BY <1>1, <1>4, <2>1 DEF Flooded, Kept
  <2>3. PICK a, b : a = cache[t][o].gen /\ b = cache'[t][o].gen
    OBVIOUS
  <2>4. a \in Int /\ b >= a
    BY <2>1, <2>3, CacheAfter
  <2>5. b \in Int
    <3>1. cache'[t][o].gen = cache[t][o].gen \/ cache'[t][o].gen = m.gen
      BY <2>1, CacheAfter
    <3>2. m.gen \in Int
      BY CacheAfter
    <3> QED
      BY <2>3, <2>4, <3>1, <3>2
  <2> QED
    BY <2>1, <2>2, <2>3, <2>4, <2>5
<1> QED
  BY <1>6, <1>7, <1>8, <1>9 DEF Flooded

\* Accepting a copy of the report itself hands it down to all children.
LEMMA FloodAcceptedKeeps ==
  ASSUME Sound, Settled, NEW m \in flight, NEW fresh, HandsDown(m, fresh), lost' = lost,
         UNCHANGED <<wiring, seq>>,
         NEW o \in Origins, NEW n \in Nat, NEW g \in Nat, Flooded(o, n, g),
         m.origin = o, m.seq = n
  PROVE  Flooded(o, n, g)'
<1>1. PICK q : /\ q = Reached(wiring, o) /\ RelayTree(o, q)
               /\ \A i \in 2..Len(q) : q[i].sat \in FloodSats /\ q[i].parent \in FloodSats
  BY TreeOf
<1>2. Reached(wiring', o) = q
  BY <1>1
<1>3. /\ heard \in [FloodSats -> SUBSET (Origins \X Nat)] /\ m.to \in FloodSats
      /\ o \in FloodSats /\ wiring \in Wirings /\ VisK \in Nat
  BY FloodAssumption DEF Sound, StateTyped, Settled, OnTime, ClocksTyped
<1>4. \A t \in FloodSats : <<o, n>> \in heard'[t] <=> <<o, n>> \in heard[t] \/ t = m.to
  BY <1>3 DEF HandsDown
<1>5. PICK i \in 2..Len(q) : m.to = q[i].sat /\ m.left = VisK - q[i].depth + 1
  BY <1>1 DEF Flooded, Carried
<1>6. m.gen = g
  BY DEF Flooded, Carried
<1>7. /\ flight' = (flight \ {m}) \cup fresh
      /\ \A k \in fresh :
           /\ k.origin = o /\ k.seq = n /\ k.gen = g /\ k.left = m.left - 1
           /\ k.to \in ControlChildren[wiring][o][m.to]
      /\ MayRelay(m) => \A t \in ControlChildren[wiring][o][m.to] :
           \E k \in fresh : k.origin = o /\ k.seq = n /\ k.to = t
  BY <1>6 DEF HandsDown
<1>8. \A t : t \in ControlChildren[wiring][o][m.to] <=>
               \E j \in 2..Len(q) : q[j].sat = t /\ q[j].parent = m.to
  BY <1>1, <1>3, ChildrenInTree
<1>9. /\ q \in Seq(Node) /\ i \in 1..Len(q)
      /\ \A j \in 2..Len(q) : q[j].parent = m.to =>
           q[j].depth = q[i].depth + 1 /\ q[i].depth < VisK
  BY <1>1, <1>5 DEF RelayTree
<1>10. q[i].depth \in Nat
  BY <1>9, NodeFields
<1>11. n \in 1..seq' /\ <<o, n>> \in heard'[o]
  BY <1>3, <1>4 DEF Flooded
<1>12. Carried(o, n, g)'
  <2> SUFFICES ASSUME NEW k \in flight', k.origin = o, k.seq = n
               PROVE  /\ k.gen = g
                      /\ \E j \in 2..Len(q) : k.to = q[j].sat /\ k.left = VisK - q[j].depth + 1
    BY <1>2 DEF Carried
  <2>1. CASE k \in flight
    BY <1>1, <2>1 DEF Flooded, Carried
  <2>2. CASE k \in fresh
    <3>1. PICK j \in 2..Len(q) : q[j].sat = k.to /\ q[j].parent = m.to
      BY <1>7, <1>8, <2>2
    <3>2. PICK d \in Nat : d = q[i].depth
      BY <1>10
    <3>3. q[j].depth = d + 1 /\ m.left = VisK - d + 1
      BY <1>5, <1>9, <3>1, <3>2
    <3>4. k.left = m.left - 1
      BY <1>7, <2>2
    <3>5. k.left = VisK - q[j].depth + 1
      BY <1>3, <3>3, <3>4
    <3> QED
      BY <1>7, <2>2, <3>1, <3>5
  <2> QED
    BY <1>7, <2>1, <2>2
<1>13. Passed(o, n)'
  <2> SUFFICES ASSUME NEW j \in 2..Len(q), <<o, n>> \in heard'[q[j].parent]
               PROVE  \/ <<o, n>> \in heard'[q[j].sat]
                      \/ \E k \in flight' : k.origin = o /\ k.seq = n /\ k.to = q[j].sat
    BY <1>2 DEF Passed
  <2>1. CASE q[j].parent = m.to
    <3>1. MayRelay(m)
      BY <1>3, <1>5, <1>9, <1>10, <2>1 DEF MayRelay
    <3>2. q[j].sat \in ControlChildren[wiring][o][m.to]
      BY <1>8, <2>1
    <3> QED
      BY <1>7, <3>1, <3>2
  <2>2. CASE <<o, n>> \in heard[q[j].parent]
    <3>1. \/ <<o, n>> \in heard[q[j].sat]
          \/ \E k \in flight : k.origin = o /\ k.seq = n /\ k.to = q[j].sat
      BY <1>1, <2>2 DEF Flooded, Passed
    <3> QED
      BY <1>1, <1>4, <1>7, <3>1
  <2> QED
    BY <1>1, <1>4, <2>1, <2>2
<1>14. Kept(o, n, g)'
  <2> SUFFICES ASSUME NEW j \in 2..Len(q), <<o, n>> \in heard'[q[j].sat]
               PROVE  cache'[q[j].sat][o].gen >= g
    BY <1>2 DEF Kept
  <2>1. CASE q[j].sat = m.to
    BY <1>6, <2>1, CacheAfter
  <2>2. CASE q[j].sat # m.to
    <3>1. PICK t \in FloodSats : t = q[j].sat
      BY <1>1
    <3>2. cache[t][o].gen >= g
      BY <1>1, <1>4, <2>2, <3>1 DEF Flooded, Kept
    <3>3. cache'[t][o] = cache[t][o]
      BY <2>2, <3>1, CacheAfter
    <3> QED
      BY <3>1, <3>2, <3>3
  <2> QED
    BY <2>1, <2>2
<1> QED
  BY <1>11, <1>12, <1>13, <1>14 DEF Flooded

\* A step that leaves the instance calm keeps the floods that renew a grid.
LEMMA RenewedKept ==
  ASSUME calm' = calm, NEW o \in Origins, Renewed(o), periodic'[o] = periodic[o],
         \A n, g \in Nat : Flooded(o, n, g) => Flooded(o, n, g)'
  PROVE  Renewed(o)'
BY DEF Renewed

\* A report on the grid renews it, any other keeps what there is.
LEMMA AdvertiseSettled ==
  ASSUME Sound, Settled, NEW s \in Origins, NEW says \in Nat, Advertise(s, says),
         serving' = [serving EXCEPT ![s] = says], UNCHANGED <<now, wiring, cache>>,
         periodic' = periodic
           \/ (periodic[s] = now /\ periodic' = [periodic EXCEPT ![s] = @ + AdvertInterval]),
         burst' = burst \/ burst' = [burst EXCEPT ![s] = Never]
  PROVE  Settled'
<1>1. /\ now \in Nat /\ calm \in Nat /\ calm =< now /\ seq \in Nat
      /\ periodic \in [Origins -> Nat] /\ burst \in [Origins -> Int]
      /\ AdvertInterval \in Nat
      /\ \A o \in Origins : /\ now =< periodic[o] /\ periodic[o] =< now + AdvertInterval
                            /\ burst[o] # Never => now =< burst[o]
  BY FloodAssumption DEF Sound, StateTyped, Settled, ClocksTyped, OnTime
<1>2. /\ periodic' \in [Origins -> Nat] /\ burst' \in [Origins -> Int]
      /\ \A o \in Origins : /\ now =< periodic'[o] /\ periodic'[o] =< now + AdvertInterval
                            /\ burst'[o] # Never => now =< burst'[o]
  BY <1>1 DEF Never
<1>3. ClocksTyped' /\ OnTime' /\ UpToDate'
  BY <1>2, AdvertiseClocks
<1>4. CASE calm' = now
  BY <1>1, <1>3, <1>4, TroubleRenews DEF Settled
<1>5. CASE calm' # now
  <2>1. calm' = calm /\ lost' = lost /\ calm < now
    BY <1>1, <1>5 DEF Advertise
  <2>2. \A o \in Origins : \A n, g \in Nat : Flooded(o, n, g) => Flooded(o, n, g)'
    BY AdvertiseKeeps
  <2>3. ASSUME NEW o \in Origins, periodic'[o] = periodic[o] PROVE Renewed(o)'
    BY <2>1, <2>2, <2>3, RenewedKept DEF Settled
  <2>4. ASSUME periodic[s] = now, periodic' = [periodic EXCEPT ![s] = @ + AdvertInterval]
        PROVE  Renewed(s)'
    <3> SUFFICES ASSUME periodic'[s] > calm' + AdvertInterval
                 PROVE  \E n \in Nat, g \in Nat :
                          g > calm' /\ g =< calm' + AdvertInterval /\ Flooded(s, n, g)'
      BY DEF Renewed
    <3>1. CASE now =< calm + AdvertInterval
      <4>1. PICK n \in Nat, g \in Nat : n = seq + 1 /\ g = now
        BY <1>1
      <4>2. Flooded(s, n, g)'
        BY <2>1, <4>1, AdvertiseFloods
      <4> QED
        BY <1>1, <2>1, <3>1, <4>1, <4>2
    <3>2. CASE now > calm + AdvertInterval
      <4>1. PICK n \in Nat, g \in Nat :
              g > calm /\ g =< calm + AdvertInterval /\ Flooded(s, n, g)
        BY <2>4, <3>2 DEF Settled, Renewed
      <4>2. Flooded(s, n, g)'
        BY <2>2, <4>1
      <4> QED
        BY <2>1, <4>1, <4>2
    <3> QED
      BY <1>1, <3>1, <3>2
  <2>5. ASSUME NEW o \in Origins PROVE Renewed(o)'
    <3>1. CASE periodic' = periodic
      BY <2>3, <3>1
    <3>2. CASE periodic[s] = now /\ periodic' = [periodic EXCEPT ![s] = @ + AdvertInterval]
      <4>1. CASE o = s
        BY <2>4, <3>2, <4>1
      <4>2. CASE o # s
        BY <1>1, <2>3, <3>2, <4>2
      <4> QED
        BY <4>1, <4>2
    <3> QED
      BY <3>1, <3>2
  <2> QED
    BY <1>3, <2>5 DEF Settled
<1> QED
  BY <1>4, <1>5

\* An arrival, expired, duplicate or accepted.
LEMMA ArriveSettled ==
  ASSUME Sound, Settled, NEW m \in flight, Arrive(m)
  PROVE  Settled'
<1>1. UNCHANGED <<now, wiring, serving, seq, periodic, burst>>
  BY DEF Arrive
<1>2. /\ now \in Nat /\ calm \in Nat /\ calm =< now /\ lost \in Nat
      /\ Ttl \in Nat /\ Max(Delays) \in Nat
      /\ ClocksTyped /\ OnTime /\ UpToDate
  BY GreatestDelay, FloodAssumption DEF Sound, StateTyped, Settled, ClocksTyped
<1>3. CASE Stale(m)
  <2>1. calm' = now /\ flight' = flight \ {m} /\ UNCHANGED <<heard, cache, lost>>
    BY <1>3 DEF Arrive
  <2>2. ClocksTyped' /\ OnTime'
    BY <1>1, <1>2, <2>1 DEF ClocksTyped, OnTime
  <2>3. UpToDate'
    <3>1. ASSUME NEW k \in flight PROVE ~ (k.gen > now)
      BY <1>2 DEF Sound, CopiesSound
    <3>2. ASSUME NEW t \in FloodSats, NEW o \in Origins PROVE ~ (cache[t][o].gen > now)
      <4>1. cache[t][o].gen =< now /\ cache[t][o].gen \in Int
        BY DEF Sound, CachesSound, StateTyped, Entry
      <4> QED
        BY <1>2, <4>1
    <3> QED
      BY <2>1, <3>1, <3>2 DEF UpToDate
  <2> QED
    BY <1>1, <1>2, <2>1, <2>2, <2>3, TroubleRenews DEF Settled
<1>4. CASE ~ Stale(m) /\ Duplicate(m)
  <2>1. flight' = flight \ {m} /\ UNCHANGED <<heard, cache, lost, calm>>
    BY <1>4 DEF Arrive
  <2>2. ClocksTyped' /\ OnTime' /\ UpToDate'
    BY <1>1, <1>2, <2>1 DEF ClocksTyped, OnTime, UpToDate
  <2>3. \A o \in Origins : \A n, g \in Nat : Flooded(o, n, g) => Flooded(o, n, g)'
    BY <1>1, <1>4, <2>1, DuplicateKeeps
  <2>4. \A o \in Origins : Renewed(o)'
    BY <1>1, <2>1, <2>3, RenewedKept DEF Settled
  <2> QED
    BY <2>2, <2>4 DEF Settled
<1>5. CASE ~ Stale(m) /\ ~ Duplicate(m)
  <2>1. PICK fresh : HandsDown(m, fresh)
    BY <1>5, ArriveAccepts
  <2>2. /\ flight' = (flight \ {m}) \cup fresh /\ lost' \in Nat
        /\ \A k \in fresh :
             /\ k.origin = m.origin /\ k.gen = m.gen /\ k.says = m.says
             /\ k.to \in ControlChildren[wiring][m.origin][m.to]
             /\ k.due \in Nat /\ now =< k.due /\ k.due =< now + Max(Delays)
    BY <2>1 DEF HandsDown
  <2>3. calm' = IF lost' # lost THEN now ELSE calm
    BY <1>5 DEF Arrive
  <2>4. ClocksTyped'
    BY <1>1, <1>2, <2>2, <2>3 DEF ClocksTyped
  <2>5. m.gen \in Nat /\ now - m.gen =< Ttl /\ m.gen =< now
    BY <1>2, <1>5 DEF Stale, Sound, CopiesSound
  <2>6. ASSUME NEW k \in flight'
        PROVE  /\ k.to \in FloodSats /\ k.due \in Nat
               /\ now =< k.due /\ k.due =< k.gen + Ttl + Max(Delays)
    <3>1. CASE k \in flight
      BY <1>2, <3>1 DEF OnTime
    <3>2. CASE k \in fresh
      <4>1. m.origin \in FloodSats /\ m.to \in FloodSats /\ wiring \in Wirings
        BY <1>2, FloodAssumption DEF Sound, CopiesSound, OnTime, ClocksTyped
      <4>2. k.to \in FloodSats
        BY <2>2, <3>2, <4>1, ChildrenInTree
      <4>3. k.due \in Nat /\ now =< k.due /\ k.due =< now + Max(Delays) /\ k.gen = m.gen
        BY <2>2, <3>2
      <4> QED
        BY <1>2, <2>5, <4>2, <4>3
    <3> QED
      BY <2>2, <3>1, <3>2
  <2>7. OnTime'
    BY <1>1, <1>2, <2>6 DEF OnTime
  <2>8. calm' >= calm /\ calm' \in Nat
    BY <1>2, <2>3
  <2>9. ASSUME NEW k \in flight', k.gen > calm' PROVE k.says = serving[k.origin]
    <3>1. PICK l \in flight : k.origin = l.origin /\ k.gen = l.gen /\ k.says = l.says
      BY <2>2
    <3>2. l.gen \in Nat
      BY <1>2 DEF Sound, CopiesSound
    <3>3. l.gen > calm
      BY <1>2, <2>8, <2>9, <3>1, <3>2
    <3> QED
      BY <1>2, <3>1, <3>3 DEF UpToDate
  <2>10. ASSUME NEW t \in FloodSats, NEW o \in Origins, cache'[t][o].gen > calm'
         PROVE  cache'[t][o].says = serving[o]
    <3>1. CASE cache'[t][o] = cache[t][o]
      <4>1. cache[t][o].gen \in Int
        BY <2>1, CacheAfter
      <4>2. cache[t][o].gen > calm
        BY <1>2, <2>8, <2>10, <3>1, <4>1
      <4> QED
        BY <1>2, <3>1, <4>2 DEF UpToDate
    <3>2. CASE o = m.origin /\ cache'[t][o].gen = m.gen /\ cache'[t][o].says = m.says
      <4>1. m.gen > calm
        BY <1>2, <2>5, <2>8, <2>10, <3>2
      <4> QED
        BY <1>2, <3>2, <4>1 DEF UpToDate
    <3> QED
      BY <2>1, <3>1, <3>2, CacheAfter
  <2>11. UpToDate'
    BY <1>1, <2>9, <2>10 DEF UpToDate
  <2>12. CASE lost' # lost
    BY <1>1, <1>2, <2>3, <2>4, <2>7, <2>11, <2>12, TroubleRenews DEF Settled
  <2>13. CASE lost' = lost
    <3>1. \A o \in Origins : \A n, g \in Nat : Flooded(o, n, g) => Flooded(o, n, g)'
      BY <1>1, <2>1, <2>13, OtherAcceptedKeeps, FloodAcceptedKeeps
    <3>2. calm' = calm
      BY <2>3, <2>13
    <3>3. \A o \in Origins : Renewed(o)'
      BY <1>1, <3>1, <3>2, RenewedKept DEF Settled
    <3> QED
      BY <2>4, <2>7, <2>11, <3>3 DEF Settled
  <2> QED
    BY <2>12, <2>13
<1> QED
  BY <1>3, <1>4, <1>5

\* Nothing is newer than an instant of trouble that is now.
LEMMA NothingNewer ==
  ASSUME Sound
  PROVE  /\ \A m \in flight : ~ (m.gen > now)
         /\ \A s \in FloodSats, o \in Origins : ~ (cache[s][o].gen > now)
<1>1. now \in Nat
  BY DEF Sound, StateTyped
<1>2. ASSUME NEW m \in flight PROVE ~ (m.gen > now)
  BY <1>1 DEF Sound, CopiesSound
<1>3. ASSUME NEW s \in FloodSats, NEW o \in Origins PROVE ~ (cache[s][o].gen > now)
  <2>1. cache[s][o].gen =< now /\ cache[s][o].gen \in Int
    BY DEF Sound, CachesSound, StateTyped, Entry
  <2> QED
    BY <1>1, <2>1
<1> QED
  BY <1>2, <1>3

\* Nothing happens to a flood while reports, copies and trees stay as they are.
LEMMA QuietRenews ==
  ASSUME Settled, UNCHANGED <<wiring, seq, flight, heard, cache, periodic, calm>>
  PROVE  \A o \in Origins : Renewed(o)'
<1>1. ASSUME NEW o \in Origins, NEW n \in Nat, NEW g \in Nat, Flooded(o, n, g)
      PROVE  Flooded(o, n, g)'
  <2>1. PICK q : q = Reached(wiring, o)
    OBVIOUS
  <2>2. Reached(wiring', o) = q
    BY <2>1
  <2>3. Carried(o, n, g)'
    BY <1>1, <2>1, <2>2 DEF Flooded, Carried
  <2>4. Passed(o, n)'
    BY <1>1, <2>1, <2>2 DEF Flooded, Passed
  <2>5. Kept(o, n, g)'
    BY <1>1, <2>1, <2>2 DEF Flooded, Kept
  <2> QED
    BY <1>1, <2>3, <2>4, <2>5 DEF Flooded
<1> QED
  BY <1>1, RenewedKept DEF Settled

\* Time passes only when nothing is due.
LEMMA AdvanceSettled == ASSUME Sound, Settled, FloodAdvance PROVE Settled'
<1>1. now' = now + 1 /\ ~ FloodDue
      /\ UNCHANGED <<wiring, serving, seq, flight, heard, cache, periodic, burst, lost, calm>>
  BY DEF FloodAdvance
<1>2. /\ now \in Nat /\ calm \in Nat /\ calm =< now
      /\ periodic \in [Origins -> Nat] /\ burst \in [Origins -> Int]
      /\ AdvertInterval \in Nat
  BY FloodAssumption DEF Sound, StateTyped, Settled, ClocksTyped
<1>3. ASSUME NEW s \in Origins
      PROVE  /\ now + 1 =< periodic[s] /\ periodic[s] =< now + 1 + AdvertInterval
             /\ burst[s] # Never => now + 1 =< burst[s]
  <2>1. /\ now =< periodic[s] /\ periodic[s] =< now + AdvertInterval
        /\ burst[s] # Never => now =< burst[s]
        /\ periodic[s] \in Nat /\ burst[s] \in Int
    BY <1>2 DEF Settled, OnTime
  <2>2. ~ PeriodicDue(s) /\ ~ BurstDue(s)
    BY <1>1 DEF FloodDue
  <2> QED
    BY <1>2, <2>1, <2>2 DEF PeriodicDue, BurstDue
<1>4. ASSUME NEW m \in flight
      PROVE  /\ m.to \in FloodSats /\ m.due \in Nat
             /\ now + 1 =< m.due /\ m.due =< m.gen + Ttl + Max(Delays)
  <2>1. /\ m.to \in FloodSats /\ m.due \in Nat
        /\ now =< m.due /\ m.due =< m.gen + Ttl + Max(Delays)
    BY DEF Settled, OnTime
  <2>2. m.due # now
    BY <1>1 DEF FloodDue
  <2> QED
    BY <1>2, <2>1, <2>2
<1>5. ClocksTyped'
  BY <1>1, <1>2 DEF Settled, ClocksTyped
<1>6. OnTime'
  BY <1>1, <1>3, <1>4 DEF OnTime
<1>7. UpToDate'
  BY <1>1 DEF Settled, UpToDate
<1>8. \A o \in Origins : Renewed(o)'
  BY <1>1, QuietRenews
<1> QED
  BY <1>5, <1>6, <1>7, <1>8 DEF Settled

\* Every step of the control plane.
LEMMA StepSettled == Sound /\ Settled /\ [FloodNext]_floodVars => Settled'
<1> SUFFICES ASSUME Sound, Settled, [FloodNext]_floodVars PROVE Settled'
  OBVIOUS
<1>0. now \in Nat /\ serving \in [Origins -> Nat] /\ calm \in Nat /\ calm =< now
  BY DEF Sound, StateTyped, Settled, ClocksTyped
<1>1. ASSUME NEW s \in Origins,
             PeriodicReport(s) \/ InitialReport(s) \/ DeferredReport(s)
      PROVE  Settled'
  <2>1. /\ Advertise(s, serving[s]) /\ UNCHANGED <<now, wiring, cache>>
        /\ serving' = serving
        /\ \/ periodic' = periodic
           \/ periodic[s] = now /\ periodic' = [periodic EXCEPT ![s] = @ + AdvertInterval]
        /\ burst' = burst \/ burst' = [burst EXCEPT ![s] = Never]
    BY <1>1 DEF PeriodicReport, InitialReport, DeferredReport, PeriodicDue
  <2>2. serving[s] \in Nat /\ serving' = [serving EXCEPT ![s] = serving[s]]
    BY <1>0, <2>1
  <2> QED
    BY <2>1, <2>2, AdvertiseSettled
<1>2. ASSUME NEW s \in Origins, ServingChanged(s) PROVE Settled'
  <2>1. /\ serving' = [serving EXCEPT ![s] = serving[s] + 1] /\ serving[s] + 1 \in Nat
        /\ UNCHANGED <<now, wiring, cache, periodic, burst>>
    BY <1>0, <1>2 DEF ServingChanged
  <2>2. CASE Advertise(s, serving[s] + 1)
    BY <2>1, <2>2, AdvertiseSettled
  <2>3. CASE calm' = now /\ UNCHANGED <<seq, heard, flight, lost>>
    <3>1. ClocksTyped' /\ OnTime'
      BY <1>0, <2>1, <2>3 DEF Settled, ClocksTyped, OnTime
    <3>2. UpToDate'
      BY <2>1, <2>3, NothingNewer DEF UpToDate
    <3> QED
      BY <1>0, <2>1, <2>3, <3>1, <3>2, TroubleRenews DEF Settled
  <2> QED
    BY <1>2, <2>2, <2>3 DEF ServingChanged
<1>3. ASSUME NEW m \in flight, Arrive(m) PROVE Settled'
  BY <1>3, ArriveSettled
<1>4. ASSUME NEW w \in Wirings, Rewire(w), w # wiring PROVE Settled'
  <2>1. /\ wiring' = w /\ calm' = now
        /\ UNCHANGED <<now, serving, seq, flight, heard, cache, periodic, burst, lost>>
    BY <1>4 DEF Rewire
  <2>2. ClocksTyped' /\ OnTime'
    BY <1>0, <2>1 DEF Settled, ClocksTyped, OnTime
  <2>3. UpToDate'
    BY <2>1, NothingNewer DEF UpToDate
  <2> QED
    BY <1>0, <2>1, <2>2, <2>3, TroubleRenews DEF Settled
<1>5. ASSUME \/ \E w \in Wirings : Rewire(w) /\ w = wiring
             \/ UNCHANGED floodVars
      PROVE  Settled'
  <2>1. UNCHANGED <<now, wiring, serving, seq, flight, heard, cache, periodic, burst, lost, calm>>
    BY <1>5 DEF Rewire, floodVars
  <2>2. ClocksTyped' /\ OnTime' /\ UpToDate'
    BY <2>1 DEF Settled, ClocksTyped, OnTime, UpToDate
  <2>3. \A o \in Origins : Renewed(o)'
    BY <2>1, QuietRenews
  <2> QED
    BY <2>2, <2>3 DEF Settled
<1>6. CASE FloodAdvance
  BY <1>6, AdvanceSettled
<1> QED
  BY <1>1, <1>2, <1>3, <1>4, <1>5, <1>6 DEF FloodNext

\* A report interval, a lifetime and a hop after the last change, loss, expiry or
\* rematch, every satellite within vis_k hops of an origin knows what it serves,
\* for every topology, every order of arrival and every grid (_control_advertiser,
\* _ctrl_arrive_after_prop, control_broadcast_children).
THEOREM KnowledgeAlwaysConverges == FloodSpec => []KnowledgeConverges
<1>1. Sound /\ Settled => KnowledgeConverges
  BY Converged
<1>2. FloodSpec => [](Sound /\ Settled)
  BY InitSound, StepSound, InitSettled, StepSettled, PTL DEF FloodSpec
<1> QED
  BY <1>1, <1>2, PTL

-----------------------------------------------------------------------------
(* Asynchronous tables, for any number of scopes, servers and decisions    *)
(* and any durations.  Counted says of every update in flight - waiting    *)
(* for the pool, on a server, or in its install delay - that its scope     *)
(* counts it as computing; Apart, that no other one is of its scope.       *)

Updates ==
  {k \in [scope : Scopes, version : Nat \ {0}, asked : Nat, start : Nat] :
     k.start = k.asked + Service + InstallDelay}
Decisions == [scope : {NoTable}, nr : Nat]
PoolJobs == Updates \cup Decisions

JobsTyped ==
  /\ clock \in Nat /\ version \in Nat /\ decisions \in Nat
  /\ computing \in [Scopes -> Nat]
  /\ waiting \in Seq(PoolJobs)
  /\ \A r \in running : r.job \in PoolJobs
  /\ \A x \in installing : x.job \in Updates

\* A table carries the instant its update was asked at and its planned start.
TablesPlanned ==
  /\ DOMAIN table = Scopes
  /\ \A sc \in Scopes : table[sc] # NoTable =>
       /\ table[sc].asked \in Nat /\ table[sc].installed \in Nat
       /\ table[sc].start = table[sc].asked + Service + InstallDelay

InFlight(k) ==
  \/ \E i \in DOMAIN waiting : waiting[i] = k
  \/ \E r \in running : r.job = k
  \/ \E x \in installing : x.job = k

Counted ==
  /\ \A k \in Updates : InFlight(k) => computing[k.scope] = k.version
  /\ \A sc \in Scopes : computing[sc] # 0 => \E k \in Updates : InFlight(k) /\ k.scope = sc

Clash(k, l) == k.scope = l.scope /\ k.scope # NoTable
Apart ==
  /\ \A i, j \in DOMAIN waiting : Clash(waiting[i], waiting[j]) => i = j
  /\ \A q, r \in running : Clash(q.job, r.job) => q = r
  /\ \A x, y \in installing : Clash(x.job, y.job) => x = y
  /\ \A i \in DOMAIN waiting, r \in running : ~ Clash(waiting[i], r.job)
  /\ \A i \in DOMAIN waiting, x \in installing : ~ Clash(waiting[i], x.job)
  /\ \A r \in running, x \in installing : ~ Clash(r.job, x.job)

Tracked == JobsTyped /\ TablesPlanned /\ Counted /\ Apart

\* An update is of a scope, a decision of none.
LEMMA JobKinds ==
  /\ \A k \in Updates : k.scope \in Scopes /\ k.scope # NoTable /\ k.version \in Nat \ {0}
  /\ \A k \in Decisions : k.scope = NoTable
  /\ \A k \in PoolJobs : k.scope # NoTable => k \in Updates
BY ScheduleAssumption DEF Updates, Decisions, PoolJobs

LEMMA InitTracked == AsyncInit => Tracked
<1> SUFFICES ASSUME AsyncInit PROVE Tracked
  OBVIOUS
<1>1. /\ clock = 0 /\ version = 0 /\ decisions = 0 /\ computing = [sc \in Scopes |-> 0]
      /\ waiting = <<>> /\ running = {} /\ installing = {}
      /\ table = [sc \in Scopes |-> NoTable]
  BY DEF AsyncInit
<1>2. JobsTyped
  BY <1>1 DEF JobsTyped
<1>3. TablesPlanned
  BY <1>1 DEF TablesPlanned
<1>4. DOMAIN waiting = {}
  BY <1>1
<1>5. Counted
  BY <1>1, <1>4 DEF Counted, InFlight
<1>6. Apart
  BY <1>1, <1>4 DEF Apart
<1> QED
  BY <1>2, <1>3, <1>5, <1>6 DEF Tracked

\* Requests of scopes that nothing is computed for, each in its place of todo.
LEMMA RequestTracked ==
  ASSUME Tracked, NEW todo \in Seq(Scopes), Requested(todo),
         \A i, j \in DOMAIN todo : todo[i] = todo[j] => i = j,
         \A i \in DOMAIN todo : computing[todo[i]] = 0,
         UNCHANGED <<clock, table, running, installing, decisions>>
  PROVE  Tracked'
<1>0. JobsTyped /\ TablesPlanned /\ Counted /\ Apart
  BY DEF Tracked
<1>n. PICK n : n = Len(waiting)
  OBVIOUS
<1>m. PICK m : m = Len(todo)
  OBVIOUS
<1>w. PICK new : new = [i \in DOMAIN todo |-> Update(todo[i], version + i)]
  OBVIOUS
<1>1. /\ n \in Nat /\ m \in Nat /\ DOMAIN waiting = 1..n /\ DOMAIN todo = 1..m
      /\ waiting \in Seq(PoolJobs) /\ clock \in Nat /\ version \in Nat
      /\ computing \in [Scopes -> Nat]
  BY <1>0, <1>n, <1>m DEF JobsTyped
<1>2. /\ version' = version + m /\ waiting' = waiting \o new
      /\ computing' = [sc \in Scopes |->
           IF \E i \in DOMAIN todo : todo[i] = sc
           THEN version + (CHOOSE i \in DOMAIN todo : todo[i] = sc) ELSE computing[sc]]
  BY <1>m, <1>w DEF Requested
<1>3. /\ \A i \in 1..m : /\ todo[i] \in Scopes /\ new[i] \in Updates /\ new[i].scope = todo[i]
                         /\ new[i].version = version + i
      /\ new \in Seq(PoolJobs) /\ Len(new) = m
  <2>1. ASSUME NEW i \in 1..m
        PROVE  /\ todo[i] \in Scopes /\ new[i] \in Updates /\ new[i].scope = todo[i]
               /\ new[i].version = version + i
    BY <1>1, <1>w, ScheduleAssumption DEF Update, Updates
  <2>2. new \in [1..m -> PoolJobs]
    BY <1>1, <1>w, <2>1 DEF PoolJobs
  <2> QED
    BY <1>1, <2>1, <2>2
<1>4. /\ waiting' \in Seq(PoolJobs) /\ DOMAIN waiting' = 1..(n + m)
      /\ \A i \in 1..n : waiting'[i] = waiting[i]
      /\ \A i \in 1..m : waiting'[n + i] = new[i]
      /\ \A i \in 1..(n + m) : i \in 1..n \/ (i - n \in 1..m /\ waiting'[i] = new[i - n])
  <2>1. /\ waiting' \in Seq(PoolJobs) /\ Len(waiting') = n + m
        /\ \A i \in 1..(n + m) :
             waiting'[i] = IF i =< n THEN waiting[i] ELSE new[i - n]
    <3>1. /\ waiting \o new \in Seq(PoolJobs)
          /\ Len(waiting \o new) = Len(waiting) + Len(new)
          /\ \A i \in 1..(Len(waiting) + Len(new)) :
               (waiting \o new)[i] = IF i =< Len(waiting) THEN waiting[i] ELSE new[i - Len(waiting)]
      BY ONLY <1>1, <1>3, ConcatProperties
    <3> QED
      BY ONLY <1>2, <1>3, <1>n, <3>1
  <2>2. DOMAIN waiting' = 1..(n + m)
    BY <2>1
  <2> QED
    BY <1>1, <2>1, <2>2
<1>5. \A i \in 1..m : computing'[todo[i]] = version + i
  BY <1>1, <1>2, <1>3
<1>6. \A sc \in Scopes : computing'[sc] = computing[sc] \/ \E i \in 1..m : todo[i] = sc
  BY <1>1, <1>2
<1>6a. \A sc \in Scopes : (\A i \in 1..m : todo[i] # sc) => computing'[sc] = computing[sc]
  BY <1>1, <1>2
<1>7. computing' \in [Scopes -> Nat]
  <2>1. \A sc \in Scopes : computing'[sc] \in Nat
    BY <1>1, <1>5, <1>6
  <2> QED
    BY <1>2, <2>1
<1>8. JobsTyped' /\ TablesPlanned'
  BY <1>0, <1>1, <1>2, <1>4, <1>7 DEF JobsTyped, TablesPlanned
<1>9. \A k \in Updates : InFlight(k) => /\ computing[k.scope] = k.version
                                        /\ \A i \in 1..m : todo[i] # k.scope
  <2> SUFFICES ASSUME NEW k \in Updates, InFlight(k)
               PROVE  computing[k.scope] = k.version /\ \A i \in 1..m : todo[i] # k.scope
    OBVIOUS
  <2>1. computing[k.scope] = k.version /\ k.version # 0
    BY <1>0, JobKinds DEF Counted
  <2>2. \A i \in 1..m : computing[todo[i]] = 0
    BY <1>1
  <2> QED
    BY <2>1, <2>2
<1>10. \A k : InFlight(k)' <=> InFlight(k) \/ \E i \in 1..m : k = new[i]
  <2>1. ASSUME NEW k, InFlight(k)' PROVE InFlight(k) \/ \E i \in 1..m : k = new[i]
    <3>1. ASSUME NEW i \in 1..(n + m), waiting'[i] = k
          PROVE  InFlight(k) \/ \E j \in 1..m : k = new[j]
      <4>1. CASE i \in 1..n
        BY <1>1, <1>4, <3>1, <4>1 DEF InFlight
      <4>2. CASE i - n \in 1..m /\ waiting'[i] = new[i - n]
        BY <3>1, <4>2
      <4> QED
        BY <1>4, <4>1, <4>2
    <3> QED
      BY <1>4, <2>1, <3>1 DEF InFlight
  <2>2. ASSUME NEW k, InFlight(k) PROVE InFlight(k)'
    <3>1. ASSUME NEW i \in 1..n, waiting[i] = k PROVE \E j \in DOMAIN waiting' : waiting'[j] = k
      <4>1. i \in 1..(n + m) /\ waiting'[i] = k
        BY <1>1, <1>4, <3>1
      <4> QED
        BY <1>4, <4>1
    <3> QED
      BY <1>1, <2>2, <3>1 DEF InFlight
  <2>3. ASSUME NEW i \in 1..m PROVE InFlight(new[i])'
    <3>1. n + i \in DOMAIN waiting' /\ waiting'[n + i] = new[i]
      BY <1>1, <1>4
    <3> QED
      BY <3>1 DEF InFlight
  <2> QED
    BY <2>1, <2>2, <2>3
<1>11. Counted'
  <2>1. ASSUME NEW k \in Updates, InFlight(k)' PROVE computing'[k.scope] = k.version
    <3>1. CASE InFlight(k)
      BY <1>6a, <1>9, <3>1, JobKinds
    <3>2. ASSUME NEW i \in 1..m, k = new[i] PROVE computing'[k.scope] = k.version
      BY <1>3, <1>5, <3>2
    <3> QED
      BY <1>10, <2>1, <3>1, <3>2
  <2>2. ASSUME NEW sc \in Scopes, computing'[sc] # 0
        PROVE  \E k \in Updates : InFlight(k)' /\ k.scope = sc
    <3>1. ASSUME NEW i \in 1..m, todo[i] = sc PROVE \E k \in Updates : InFlight(k)' /\ k.scope = sc
      BY <1>3, <1>10, <3>1
    <3>2. CASE computing'[sc] = computing[sc]
      BY <1>0, <1>10, <2>2, <3>2 DEF Counted
    <3> QED
      BY <1>6, <3>1, <3>2
  <2> QED
    BY <2>1, <2>2 DEF Counted
<1>12. ASSUME NEW k \in PoolJobs, InFlight(k), NEW i \in 1..m PROVE ~ Clash(k, new[i])
  BY <1>3, <1>9, <1>12, JobKinds DEF Clash
<1>13. ASSUME NEW i \in 1..n
       PROVE  waiting[i] \in PoolJobs /\ InFlight(waiting[i])
  BY <1>1 DEF InFlight
<1>14. /\ \A r \in running : r.job \in PoolJobs /\ InFlight(r.job)
       /\ \A x \in installing : x.job \in PoolJobs /\ InFlight(x.job)
  BY <1>0 DEF JobsTyped, InFlight, PoolJobs
<1>15. ASSUME NEW i \in DOMAIN waiting', NEW j \in DOMAIN waiting', Clash(waiting'[i], waiting'[j])
       PROVE  i = j
  <2>1. CASE i \in 1..n /\ j \in 1..n
    BY <1>0, <1>1, <1>4, <1>15, <2>1 DEF Apart
  <2>2. CASE i \in 1..n /\ j \notin 1..n
    BY <1>4, <1>12, <1>13, <1>15, <2>2
  <2>3. CASE i \notin 1..n /\ j \in 1..n
    BY <1>4, <1>12, <1>13, <1>15, <2>3 DEF Clash
  <2>4. CASE i \notin 1..n /\ j \notin 1..n
    <3>1. /\ i - n \in 1..m /\ waiting'[i] = new[i - n]
          /\ j - n \in 1..m /\ waiting'[j] = new[j - n]
      BY <1>4, <2>4
    <3>2. todo[i - n] = todo[j - n]
      BY <1>3, <1>15, <3>1 DEF Clash
    <3>3. i - n = j - n
      BY <1>1, <3>1, <3>2
    <3> QED
      BY <1>1, <1>4, <3>3
  <2> QED
    BY <2>1, <2>2, <2>3, <2>4
<1>16. ASSUME NEW i \in DOMAIN waiting'
       PROVE  /\ \A r \in running : ~ Clash(waiting'[i], r.job)
              /\ \A x \in installing : ~ Clash(waiting'[i], x.job)
  <2>1. CASE i \in 1..n
    BY <1>0, <1>1, <1>4, <2>1 DEF Apart
  <2>2. CASE i \notin 1..n
    BY <1>4, <1>12, <1>14, <2>2 DEF Clash
  <2> QED
    BY <2>1, <2>2
<1>17. Apart'
  BY <1>0, <1>15, <1>16 DEF Apart
<1> QED
  BY <1>8, <1>11, <1>17 DEF Tracked

\* Steps that move a job on, or add a decision, keep the updates in flight.
LEMMA MovedTracked ==
  ASSUME Tracked, JobsTyped', UNCHANGED <<computing, table>>, Apart',
         \A k \in Updates : InFlight(k)' <=> InFlight(k)
  PROVE  Tracked'
<1>1. Counted'
  BY DEF Tracked, Counted
<1> QED
  BY <1>1 DEF Tracked, TablesPlanned

LEMMA DecideTracked == ASSUME Tracked, Decide PROVE Tracked'
<1> DEFINE d == [scope |-> NoTable, nr |-> decisions + 1]
           n == Len(waiting)
<1>0. JobsTyped /\ Apart
  BY DEF Tracked
<1>1. /\ waiting' = Append(waiting, d) /\ decisions' = decisions + 1
      /\ UNCHANGED <<clock, table, computing, version, running, installing>>
  BY DEF Decide
<1>2. /\ waiting \in Seq(PoolJobs) /\ decisions \in Nat /\ DOMAIN waiting = 1..n /\ n \in Nat
  BY <1>0 DEF JobsTyped
<1>3. d \in PoolJobs /\ d \notin Updates /\ d.scope = NoTable
  <2>1. d \in Decisions /\ d.scope = NoTable
    BY <1>2 DEF Decisions
  <2> QED
    BY <2>1, JobKinds DEF PoolJobs
<1> HIDE DEF d
<1>4. /\ waiting' \in Seq(PoolJobs) /\ DOMAIN waiting' = 1..(n + 1)
      /\ \A i \in 1..n : waiting'[i] = waiting[i]
      /\ waiting'[n + 1] = d /\ \A i \in 1..(n + 1) : i \in 1..n \/ i = n + 1
  BY <1>1, <1>2, <1>3
<1>5. JobsTyped'
  BY <1>0, <1>1, <1>2, <1>4 DEF JobsTyped
<1> HIDE DEF n
<1>6. Apart'
  BY <1>0, <1>1, <1>2, <1>3, <1>4 DEF Apart, Clash
<1>7. \A k \in Updates : InFlight(k)' <=> InFlight(k)
  BY <1>1, <1>2, <1>3, <1>4 DEF InFlight
<1> QED
  BY <1>1, <1>5, <1>6, <1>7, MovedTracked

LEMMA StartTracked == ASSUME Tracked, StartJob PROVE Tracked'
<1> DEFINE r0 == [job |-> Head(waiting), ends |-> clock + Service]
           n == Len(waiting)
<1>0. JobsTyped /\ Apart
  BY DEF Tracked
<1>1. /\ waiting # <<>> /\ running' = running \cup {r0} /\ waiting' = Tail(waiting)
      /\ UNCHANGED <<clock, table, computing, version, installing, decisions>>
  BY DEF StartJob
<1>2. /\ waiting \in Seq(PoolJobs) /\ DOMAIN waiting = 1..n /\ n \in Nat /\ n # 0
      /\ r0.job = waiting[1]
  BY <1>0, <1>1 DEF JobsTyped
<1>3. waiting[1] \in PoolJobs
  BY <1>2
<1> HIDE DEF r0
<1>4. /\ waiting' \in Seq(PoolJobs) /\ DOMAIN waiting' = 1..(n - 1)
      /\ \A i \in 1..(n - 1) : waiting'[i] = waiting[i + 1]
      /\ \A i \in 1..n : i = 1 \/ i - 1 \in 1..(n - 1)
      /\ \A i \in 1..(n - 1) : i + 1 \in 1..n /\ i + 1 # 1
      /\ 1 \in 1..n
  BY <1>1, <1>2
<1>5. JobsTyped'
  BY <1>0, <1>1, <1>2, <1>3, <1>4 DEF JobsTyped
<1>6. \A k : InFlight(k)' <=> InFlight(k)
  <2>1. ASSUME NEW k, InFlight(k)' PROVE InFlight(k)
    BY <1>1, <1>2, <1>4, <2>1 DEF InFlight
  <2>2. ASSUME NEW k, NEW i \in 1..n, waiting[i] = k PROVE InFlight(k)'
    <3>1. CASE i = 1
      BY <1>1, <1>2, <2>2, <3>1 DEF InFlight
    <3>2. CASE i # 1
      <4>1. i - 1 \in 1..(n - 1) /\ waiting'[i - 1] = waiting[(i - 1) + 1] /\ (i - 1) + 1 = i
        BY <1>2, <1>4, <3>2
      <4> QED
        BY <1>4, <2>2, <4>1 DEF InFlight
    <3> QED
      BY <3>1, <3>2
  <2> QED
    BY <1>1, <1>2, <2>1, <2>2 DEF InFlight
<1> HIDE DEF n
<1>7. /\ \A i \in DOMAIN waiting' : ~ Clash(waiting'[i], waiting[1])
      /\ \A i, j \in DOMAIN waiting' : Clash(waiting'[i], waiting'[j]) => i = j
  <2>1. ASSUME NEW i \in DOMAIN waiting' PROVE ~ Clash(waiting'[i], waiting[1])
    BY <1>0, <1>2, <1>4 DEF Apart
  <2>2. ASSUME NEW i \in DOMAIN waiting', NEW j \in DOMAIN waiting', Clash(waiting'[i], waiting'[j])
        PROVE  i = j
    <3>1. i + 1 = j + 1
      BY <1>0, <1>2, <1>4, <2>2 DEF Apart
    <3> QED
      BY <1>2, <1>4, <3>1
  <2> QED
    BY <2>1, <2>2
<1>8. /\ \A i \in DOMAIN waiting', r \in running : ~ Clash(waiting'[i], r.job)
      /\ \A i \in DOMAIN waiting', x \in installing : ~ Clash(waiting'[i], x.job)
  BY <1>0, <1>2, <1>4 DEF Apart
<1>9. /\ \A r \in running : ~ Clash(waiting[1], r.job) /\ ~ Clash(r.job, waiting[1])
      /\ \A x \in installing : ~ Clash(waiting[1], x.job)
  BY <1>0, <1>2, <1>4 DEF Apart, Clash
<1>10. Apart'
  BY <1>0, <1>1, <1>2, <1>7, <1>8, <1>9 DEF Apart
<1> QED
  BY <1>1, <1>5, <1>6, <1>10, MovedTracked

LEMMA FinishTracked == ASSUME Tracked, NEW r0 \in running, FinishJob(r0) PROVE Tracked'
<1>0. JobsTyped /\ Apart
  BY DEF Tracked
<1>1. /\ running' = running \ {r0}
      /\ UNCHANGED <<clock, table, computing, version, waiting, decisions>>
  BY DEF FinishJob
<1>2. r0.job \in PoolJobs
  BY <1>0 DEF JobsTyped
<1>3. CASE r0.job.scope = NoTable
  <2>1. installing' = installing
    BY <1>3 DEF FinishJob
  <2>2. JobsTyped' /\ Apart'
    BY <1>0, <1>1, <2>1 DEF JobsTyped, Apart
  <2>3. \A k \in Updates : InFlight(k)' <=> InFlight(k)
    BY <1>1, <1>3, <2>1, JobKinds DEF InFlight
  <2> QED
    BY <1>1, <2>2, <2>3, MovedTracked
<1>4. CASE r0.job.scope # NoTable
  <2> DEFINE x0 == [job |-> r0.job, due |-> clock + InstallDelay]
  <2>1. installing' = installing \cup {x0} /\ x0.job = r0.job
    BY <1>4 DEF FinishJob
  <2> HIDE DEF x0
  <2>2. r0.job \in Updates
    BY <1>2, <1>4, JobKinds
  <2>3. JobsTyped'
    BY <1>0, <1>1, <2>1, <2>2 DEF JobsTyped
  <2>4. \A k : InFlight(k)' <=> InFlight(k)
    BY <1>1, <2>1 DEF InFlight
  <2>5. Apart'
    BY <1>0, <1>1, <2>1 DEF Apart, Clash
  <2> QED
    BY <1>1, <2>3, <2>4, <2>5, MovedTracked
<1> QED
  BY <1>3, <1>4

LEMMA InstallTracked == ASSUME Tracked, NEW x0 \in installing, Install(x0) PROVE Tracked'
<1>0. JobsTyped /\ TablesPlanned /\ Counted /\ Apart
  BY DEF Tracked
<1>1. /\ installing' = installing \ {x0}
      /\ UNCHANGED <<clock, version, waiting, running, decisions>>
  BY DEF Install
<1> DEFINE k0 == x0.job
           sc0 == x0.job.scope
<1>2. /\ k0 \in Updates /\ sc0 \in Scopes /\ sc0 # NoTable /\ InFlight(k0)
      /\ computing[sc0] = k0.version /\ clock \in Nat /\ computing \in [Scopes -> Nat]
  BY <1>0, JobKinds DEF JobsTyped, InFlight, Counted
<1>3. computing' = [computing EXCEPT ![sc0] = 0]
  BY <1>2 DEF Install, Clears
<1>4. JobsTyped'
  BY <1>0, <1>1, <1>2, <1>3 DEF JobsTyped
<1>5. TablesPlanned'
  <2>1. CASE table' = table
    BY <1>0, <2>1 DEF TablesPlanned
  <2>2. CASE table' = [table EXCEPT ![sc0] = [version |-> k0.version, asked |-> k0.asked,
                                              start |-> k0.start, installed |-> clock]]
    BY <1>0, <1>2, <2>2 DEF TablesPlanned, Updates
  <2> QED
    BY <2>1, <2>2 DEF Install
<1>6. Apart'
  BY <1>0, <1>1 DEF Apart
<1>7. \A k \in Updates : InFlight(k)' => k.scope # sc0
  <2> SUFFICES ASSUME NEW k \in Updates, InFlight(k)', k.scope = sc0 PROVE FALSE
    OBVIOUS
  <2>1. Clash(k, k0) /\ Clash(k0, k)
    BY <1>2 DEF Clash
  <2> QED
    BY <1>0, <1>1, <2>1 DEF InFlight, Apart, Clash
<1>8. \A k \in Updates : k.scope # sc0 => (InFlight(k)' <=> InFlight(k))
  BY <1>1 DEF InFlight
<1> HIDE DEF k0, sc0
<1>9. Counted'
  <2>1. ASSUME NEW k \in Updates, InFlight(k)' PROVE computing'[k.scope] = k.version
    <3>1. k.scope # sc0 /\ InFlight(k) /\ k.scope \in Scopes
      BY <1>7, <1>8, <2>1, JobKinds
    <3> QED
      BY <1>0, <1>2, <1>3, <3>1 DEF Counted
  <2>2. ASSUME NEW sc \in Scopes, computing'[sc] # 0
        PROVE  \E k \in Updates : InFlight(k)' /\ k.scope = sc
    <3>1. sc # sc0 /\ computing[sc] # 0
      BY <1>2, <1>3, <2>2
    <3> QED
      BY <1>0, <1>8, <3>1 DEF Counted
  <2> QED
    BY <2>1, <2>2 DEF Counted
<1> QED
  BY <1>4, <1>5, <1>6, <1>9 DEF Tracked

LEMMA StepTracked == Tracked /\ [AsyncNext]_asyncVars => Tracked'
<1> SUFFICES ASSUME Tracked, [AsyncNext]_asyncVars PROVE Tracked'
  OBVIOUS
<1>1. ASSUME NEW sc \in Scopes, NEW candidates \in BOOLEAN, Query(sc, candidates) PROVE Tracked'
  <2>1. CASE NeedsUpdate(sc) /\ candidates
    <3> DEFINE todo == <<sc>>
    <3>1. /\ Requested(todo) /\ computing[sc] = 0
          /\ UNCHANGED <<clock, table, running, installing, decisions>>
      BY <1>1, <2>1 DEF Query, NeedsUpdate
    <3>2. todo \in Seq(Scopes) /\ DOMAIN todo = {1} /\ todo[1] = sc
      OBVIOUS
    <3> HIDE DEF todo
    <3> QED
      BY <3>1, <3>2, RequestTracked
  <2>2. CASE ~ (NeedsUpdate(sc) /\ candidates)
    <3>1. UNCHANGED <<clock, table, computing, version, waiting, running, installing, decisions>>
      BY <1>1, <2>2 DEF Query
    <3> QED
      BY <3>1 DEF Tracked, JobsTyped, TablesPlanned, Counted, InFlight, Apart
  <2> QED
    BY <2>1, <2>2
<1>2. ASSUME NEW ready \in SUBSET Scopes, TickScopes(ready) PROVE Tracked'
  <2> DEFINE S == {sc \in known \cap ready : NeedsUpdate(sc)}
  <2>1. PICK todo \in Sorted(S) : Requested(todo)
    BY <1>2 DEF TickScopes
  <2>2. S \subseteq Scopes /\ IsFiniteSet(S) /\ Cardinality(S) \in Nat
    <3>1. S \in SUBSET Scopes
      OBVIOUS
    <3> QED
      BY <3>1, FS_Subset, FS_CardinalityType, ScheduleAssumption
  <2>3. \A sc \in S : computing[sc] = 0
    BY DEF NeedsUpdate
  <2> HIDE DEF S
  <2>4. /\ todo \in [1 .. Cardinality(S) -> S]
        /\ \A i, j \in DOMAIN todo : i < j => todo[i] < todo[j]
    BY <2>1 DEF Sorted
  <2>5. todo \in Seq(Scopes) /\ DOMAIN todo = 1 .. Cardinality(S)
    BY <2>2, <2>4
  <2>6. ASSUME NEW i \in DOMAIN todo, NEW j \in DOMAIN todo, todo[i] = todo[j] PROVE i = j
    <3>1. todo[i] \in Int /\ todo[j] \in Int /\ i \in Int /\ j \in Int
      <4>1. todo[i] \in Scopes /\ todo[j] \in Scopes
        BY <2>2, <2>4, <2>5
      <4>2. todo[i] \in Int /\ todo[j] \in Int
        <5>1. \A n \in Scopes : n \in Int
          BY ScheduleAssumption
        <5> QED
          BY ONLY <4>1, <5>1
      <4>3. i \in 1 .. Cardinality(S) /\ j \in 1 .. Cardinality(S)
        BY <2>5
      <4> QED
        BY <2>2, <4>2, <4>3
    <3>2. ~ (i < j) /\ ~ (j < i)
      BY <2>4, <2>6, <3>1
    <3> QED
      BY <3>1, <3>2
  <2>7. \A i \in DOMAIN todo : computing[todo[i]] = 0
    BY <2>3, <2>4
  <2>8. UNCHANGED <<clock, table, running, installing, decisions>>
    BY <1>2 DEF TickScopes
  <2> QED
    BY <2>1, <2>5, <2>6, <2>7, <2>8, RequestTracked
<1>3. CASE Decide
  BY <1>3, DecideTracked
<1>4. CASE StartJob
  BY <1>4, StartTracked
<1>5. ASSUME NEW r \in running, FinishJob(r) PROVE Tracked'
  BY <1>5, FinishTracked
<1>6. ASSUME NEW x \in installing, Install(x) PROVE Tracked'
  BY <1>6, InstallTracked
<1>7. CASE AsyncAdvance
  BY <1>7 DEF AsyncAdvance, Tracked, JobsTyped, TablesPlanned, Counted, InFlight, Apart
<1>8. CASE UNCHANGED asyncVars
  BY <1>8 DEF asyncVars, Tracked, JobsTyped, TablesPlanned, Counted, InFlight, Apart
<1> QED
  BY <1>1, <1>2, <1>3, <1>4, <1>5, <1>6, <1>7, <1>8 DEF AsyncNext

\* A scope has one update in flight exactly while it counts as computing, and
\* a table that is late does not answer past the plan of its snapshot
\* (request_update, finish_compute, install, bin_for).
THEOREM TablesAlwaysTimely == AsyncSpec => []TablesAreTimely
<1>1. ASSUME Tracked PROVE TablesAreTimely
  <2>0. JobsTyped /\ TablesPlanned /\ Counted /\ waiting \in Seq(PoolJobs)
    BY <1>1 DEF Tracked, JobsTyped
  <2>1. ASSUME NEW sc \in Scopes
        PROVE  UpdatesOf(sc) = IF computing[sc] = 0 THEN {} ELSE {computing[sc]}
    <3> DEFINE J == {k \in Range(waiting) \cup {r.job : r \in running}
                             \cup {x.job : x \in installing} : k.scope = sc}
    <3>1. sc # NoTable
      BY ScheduleAssumption
    <3>2. \A k : k \in J <=> InFlight(k) /\ k.scope = sc
      BY DEF InFlight, Range
    <3>3. \A k \in J : k \in Updates
      <4>1. \A k \in J : k \in PoolJobs
        BY <2>0 DEF Range, JobsTyped, PoolJobs
      <4> QED
        BY <3>1, <4>1, JobKinds
    <3>4. \A k \in J : k.version = computing[sc] /\ k.version # 0
      BY <2>0, <3>2, <3>3, JobKinds DEF Counted
    <3>5. computing[sc] # 0 => \E k : k \in J
      BY <2>0, <3>2 DEF Counted
    <3>6. UpdatesOf(sc) = {k.version : k \in J}
      BY DEF UpdatesOf
    <3> HIDE DEF J
    <3> QED
      BY <3>4, <3>5, <3>6
  <2>2. ASSUME NEW sc \in Scopes, Usable(sc), clock < Expires(table[sc])
        PROVE  clock - table[sc].asked < Service + InstallDelay + ValidWindow
    <3>1. /\ table[sc].asked \in Nat /\ table[sc].installed \in Nat /\ clock \in Nat
          /\ table[sc].start = table[sc].asked + Service + InstallDelay
          /\ Service \in Nat /\ InstallDelay \in Nat /\ ValidWindow \in Nat
      BY <2>0, <2>2, ScheduleAssumption DEF Usable, TablesPlanned, JobsTyped
    <3>2. clock < table[sc].start + ValidWindow
      BY <2>2, <3>1 DEF Usable, BinFor, Expires
    <3> QED
      BY <3>1, <3>2
  <2> QED
    BY <2>1, <2>2 DEF TablesAreTimely, OneUpdateInFlight, LateIsNotStretched
<1> QED
  BY <1>1, InitTracked, StepTracked, PTL DEF AsyncSpec

-----------------------------------------------------------------------------
(* Joint plans.  A joint plan acts on the state it was made from,          *)
(* overfills no queue and costs no packet, for every number of satellites, *)
(* directions and packets and every size of the queues.                    *)
(*                                                                         *)
(* Safe is the inductive invariant.  That versions only grow makes a       *)
(* current version mean an unchanged state; that every packet is at one of *)
(* the places of the system makes a packet that waits one of those its     *)
(* satellite already holds, so that it finds its own room again.           *)

VersionsGrow ==
  stateVersion \in Nat /\ snapshot.version \in Nat /\ snapshot.version =< stateVersion

Placed == place \in [PlanPackets -> Destinations]

Safe == VersionsGrow /\ Placed /\ PlanSeesCurrentState /\ QueuesFit

-----------------------------------------------------------------------------
\* Packets in one place are finitely many, and fewer packets need less room.
LEMMA FewerFit ==
  ASSUME NEW S, IsFiniteSet(S), NEW T \in SUBSET S
  PROVE  /\ IsFiniteSet(T) /\ Cardinality(T) \in Nat /\ Cardinality(S) \in Nat
         /\ Cardinality(T) =< Cardinality(S)
BY FS_Subset, FS_CardinalityType

\* Two groups together need at most the room of each.
LEMMA GroupsFit ==
  ASSUME NEW S, IsFiniteSet(S), NEW A \in SUBSET S, NEW B \in SUBSET S,
         NEW T \in SUBSET (A \cup B)
  PROVE  Cardinality(T) =< Cardinality(A) + Cardinality(B)
<1>1. /\ IsFiniteSet(A) /\ IsFiniteSet(B)
      /\ Cardinality(A) \in Nat /\ Cardinality(B) \in Nat
  BY FewerFit
<1>2. /\ IsFiniteSet(A \cup B)
      /\ Cardinality(A \cup B) = Cardinality(A) + Cardinality(B) - Cardinality(A \cap B)
  BY <1>1, FS_Union
<1>3. Cardinality(A \cap B) \in Nat
  BY <1>1, FewerFit
<1>4. /\ Cardinality(T) \in Nat /\ Cardinality(A \cup B) \in Nat
      /\ Cardinality(T) =< Cardinality(A \cup B)
  BY <1>2, FewerFit
<1> QED
  BY <1>1, <1>2, <1>3, <1>4

LEMMA OccupantsFinite ==
  ASSUME NEW at, NEW p
  PROVE  /\ Occupants(at, p) \in SUBSET PlanPackets
         /\ IsFiniteSet(Occupants(at, p)) /\ Occupancy(at, p) \in Nat
BY PlanAssumption, FewerFit DEF Occupants, Occupancy

\* Places of different queues, satellites or directions differ.
LEMMA PlacesDiffer ==
  ASSUME NEW s, NEW d
  PROVE  /\ Isl(s, d).queue = "isl" /\ Isl(s, d).sat = s /\ Isl(s, d).dir = d
         /\ Downlink(s).queue = "downlink" /\ Downlink(s).sat = s
         /\ Pending(s).queue = "pending" /\ Pending(s).sat = s
         /\ Elsewhere.queue = "elsewhere" /\ Dropped.queue = "dropped"
BY DEF Isl, Downlink, Pending, Elsewhere, Dropped

\* The start: every packet is elsewhere, so every queue is empty.
LEMMA InitSafe == PlanInit => Safe
<1> SUFFICES ASSUME PlanInit PROVE Safe
  OBVIOUS
<1>1. VersionsGrow /\ Placed /\ PlanSeesCurrentState
  BY DEF PlanInit, VersionsGrow, Placed, PlanSeesCurrentState, Destinations
<1>2. ASSUME NEW at, at.queue # "elsewhere" PROVE Occupancy(at, place) = 0
  <2>1. Occupants(at, place) = {}
    BY <1>2, PlacesDiffer DEF PlanInit, Occupants
  <2> QED
    BY <2>1, FS_EmptySet DEF Occupancy
<1>3. QueuesFit
  BY <1>2, PlacesDiffer, PlanAssumption DEF QueuesFit
<1> QED
  BY <1>1, <1>3 DEF Safe

\* A packet that moves on by its own fits where it goes.
LEMMA PacketEventSafe ==
  ASSUME Safe, NEW k \in PlanPackets, NEW to \in Destinations, PacketEvent(k, to)
  PROVE  Safe'
<1>1. place' = [place EXCEPT ![k] = to]
  BY DEF PacketEvent
<1>2. VersionsGrow' /\ PlanSeesCurrentState'
  BY DEF PacketEvent, Bumped, Safe, VersionsGrow, PlanSeesCurrentState
<1>3. Placed'
  BY <1>1 DEF Safe, Placed, Destinations, Isl, Downlink, Pending, Elsewhere
<1>4. ASSUME NEW at, at # to PROVE Occupancy(at, place') =< Occupancy(at, place)
  <2>1. Occupants(at, place') \in SUBSET Occupants(at, place)
    BY <1>1, <1>4 DEF Occupants, Safe, Placed
  <2> QED
    BY <2>1, FewerFit, OccupantsFinite DEF Occupancy
<1>5. Occupancy(to, place') =< Occupancy(to, place) + 1
  <2>1. Occupants(to, place') \in SUBSET (Occupants(to, place) \cup {k})
    BY <1>1 DEF Occupants, Safe, Placed
  <2>2. Cardinality({k}) = 1
    BY FS_Singleton
  <2> QED
    BY <2>1, <2>2, GroupsFit, OccupantsFinite, PlanAssumption DEF Occupancy
<1>6. MayMove(k, to)
  BY DEF PacketEvent
<1>7. ASSUME NEW s \in PlanSats, NEW d \in PlanDirs
      PROVE  Occupancy(Isl(s, d), place') =< IslRoom
  <2>1. Occupancy(Isl(s, d), place) =< IslRoom
    BY DEF Safe, QueuesFit
  <2>2. Isl(s, d) = to => Occupancy(Isl(s, d), place) < IslRoom
    BY <1>6, PlacesDiffer DEF MayMove
  <2> QED
    BY <1>4, <1>5, <2>1, <2>2, OccupantsFinite, PlanAssumption
<1>8. ASSUME NEW s \in PlanSats
      PROVE  Occupancy(Downlink(s), place') =< DownlinkRoom
  <2>1. Occupancy(Downlink(s), place) =< DownlinkRoom
    BY DEF Safe, QueuesFit
  <2>2. Downlink(s) = to => Occupancy(Downlink(s), place) < DownlinkRoom
    BY <1>6, PlacesDiffer DEF MayMove
  <2> QED
    BY <1>4, <1>5, <2>1, <2>2, OccupantsFinite, PlanAssumption
<1>9. ASSUME NEW s \in PlanSats
      PROVE  Occupancy(Pending(s), place') =< HoldingRoom
  <2>1. Occupancy(Pending(s), place) =< HoldingRoom
    BY DEF Safe, QueuesFit
  <2>2. Pending(s) = to => Occupancy(Pending(s), place) < HoldingRoom
    BY <1>6, PlacesDiffer DEF MayMove
  <2> QED
    BY <1>4, <1>5, <2>1, <2>2, OccupantsFinite, PlanAssumption
<1>10. QueuesFit'
  BY <1>7, <1>8, <1>9 DEF QueuesFit
<1> QED
  BY <1>2, <1>3, <1>10 DEF Safe

-----------------------------------------------------------------------------
(* A valid plan *)

\* The packets a plan treats alike.
Alike(plan, a) == {k \in DOMAIN plan : plan[k] = a}

LEMMA AlikeFinite ==
  ASSUME NEW plan, NEW a, DOMAIN plan \in SUBSET PlanPackets
  PROVE  /\ Alike(plan, a) \in SUBSET PlanPackets /\ IsFiniteSet(Alike(plan, a))
         /\ Added(plan, a) = Cardinality(Alike(plan, a)) /\ Added(plan, a) \in Nat
<1>1. Alike(plan, a) \in SUBSET PlanPackets /\ Added(plan, a) = Cardinality(Alike(plan, a))
  BY DEF Alike, Added
<1> QED
  BY <1>1, PlanAssumption, FewerFit

LEMMA ActionsDiffer ==
  ASSUME NEW s, NEW d
  PROVE  /\ Forward(s, d).kind = "forward" /\ Forward(s, d).sat = s /\ Forward(s, d).dir = d
         /\ Deliver(s).kind = "deliver" /\ Deliver(s).sat = s
         /\ Wait(s).kind = "wait" /\ Wait(s).sat = s
BY DEF Forward, Deliver, Wait

\* What a plan adds to a place is what was there and what the plan sends there.
LEMMA ReachedBy ==
  ASSUME NEW plan, NEW at, NEW a, DOMAIN plan \in SUBSET PlanPackets,
         place' = [k \in PlanPackets |->
                     IF k \in DOMAIN plan THEN Target(plan, k) ELSE place[k]],
         \A k \in DOMAIN plan : Target(plan, k) = at => plan[k] = a
  PROVE  Occupancy(at, place') =< Occupancy(at, place) + Added(plan, a)
<1>1. Occupants(at, place') \in SUBSET (Occupants(at, place) \cup Alike(plan, a))
  BY DEF Occupants, Alike
<1> QED
  BY <1>1, GroupsFit, OccupantsFinite, AlikeFinite, PlanAssumption DEF Occupancy

\* A packet that waits finds room: its satellite held it before.
LEMMA WaitersFit ==
  ASSUME Safe, NEW plan \in Plans, Valid(plan), NEW s \in PlanSats
  PROVE  LET others == {j \in PlanPackets \ DOMAIN plan : place[j] = Pending(s)}
         IN  /\ others \in SUBSET PlanPackets
             /\ Cardinality(others) \in Nat /\ Added(plan, Wait(s)) \in Nat
             /\ Cardinality(others) + Added(plan, Wait(s)) =< HoldingRoom
<1> DEFINE others == {j \in PlanPackets \ DOMAIN plan : place[j] = Pending(s)}
<1> DEFINE waiters == Alike(plan, Wait(s))
<1>1. DOMAIN plan \in SUBSET PlanPackets
  BY DEF Plans
<1>2. ASSUME NEW k \in waiters PROVE k \in PlanPackets /\ place[k] = Pending(s)
  <2>1. k \in DOMAIN plan /\ plan[k] = Wait(s) /\ k \in PlanPackets
    BY <1>1 DEF Alike
  <2>2. place[k].queue = "pending" /\ place[k].sat = s
    BY <2>1, ActionsDiffer DEF Valid, Admissible, HeldBy
  <2>3. place[k] \in Destinations
    BY <2>1 DEF Safe, Placed
  <2> QED
    BY <2>1, <2>2, <2>3, PlacesDiffer DEF Destinations
<1>3. others \cup waiters \in SUBSET Occupants(Pending(s), place)
  BY <1>2 DEF Occupants
<1>4. others \cap waiters = {}
  BY DEF Alike
<1>5. /\ IsFiniteSet(others) /\ Cardinality(others) \in Nat
      /\ IsFiniteSet(waiters) /\ Cardinality(waiters) = Added(plan, Wait(s))
      /\ Added(plan, Wait(s)) \in Nat
  BY <1>1, AlikeFinite, FewerFit, PlanAssumption
<1> HIDE DEF others, waiters
<1>6. Cardinality(others \cup waiters) = Cardinality(others) + Cardinality(waiters)
  <2>1. Cardinality(others \cup waiters)
          = Cardinality(others) + Cardinality(waiters) - Cardinality(others \cap waiters)
    BY <1>5, FS_Union
  <2>2. Cardinality(others \cap waiters) = 0
    BY <1>4, FS_EmptySet
  <2> QED
    BY <1>5, <2>1, <2>2
<1>7. /\ Cardinality(others \cup waiters) \in Nat
      /\ Cardinality(others \cup waiters) =< Occupancy(Pending(s), place)
  BY <1>3, FewerFit, OccupantsFinite DEF Occupancy
<1>8. Occupancy(Pending(s), place) =< HoldingRoom /\ Occupancy(Pending(s), place) \in Nat
  BY OccupantsFinite DEF Safe, QueuesFit
<1> QED
  BY <1>5, <1>6, <1>7, <1>8, PlanAssumption DEF others

LEMMA ApplyPlanSafe ==
  ASSUME Safe, NEW plan \in Plans, ApplyPlan(plan)
  PROVE  Safe'
<1>1. /\ Valid(plan)
      /\ place' = [k \in PlanPackets |->
                     IF k \in DOMAIN plan THEN Target(plan, k) ELSE place[k]]
  BY DEF ApplyPlan
<1>2. DOMAIN plan \in SUBSET PlanPackets /\ \A k \in DOMAIN plan : plan[k] \in Actions
  BY DEF Plans
<1>3. VersionsGrow' /\ PlanSeesCurrentState'
  BY DEF ApplyPlan, Safe, VersionsGrow, PlanSeesCurrentState
<1>4. ASSUME NEW k \in DOMAIN plan
      PROVE  \/ \E s \in PlanSats, d \in PlanDirs :
                  plan[k] = Forward(s, d) /\ Target(plan, k) = Isl(s, d)
             \/ \E s \in PlanSats : plan[k] = Deliver(s) /\ Target(plan, k) = Downlink(s)
             \/ \E s \in PlanSats : plan[k] = Wait(s) /\ Target(plan, k) = Pending(s)
  <2>1. CASE \E s \in PlanSats, d \in PlanDirs : plan[k] = Forward(s, d)
    BY <2>1, ActionsDiffer DEF Target
  <2>2. CASE \E s \in PlanSats : plan[k] = Deliver(s)
    BY <2>2, ActionsDiffer DEF Target
  <2>3. ASSUME NEW s \in PlanSats, plan[k] = Wait(s) PROVE Target(plan, k) = Pending(s)
    <3>1. Target(plan, k) = Resting(plan, s, k)
      BY <2>3, ActionsDiffer DEF Target
    <3> QED
      BY <1>1, <3>1, WaitersFit DEF Resting
  <2> QED
    BY <1>2, <2>1, <2>2, <2>3 DEF Actions
<1>5. Placed'
  <2>1. ASSUME NEW k \in PlanPackets PROVE place'[k] \in Destinations
    <3>1. CASE k \in DOMAIN plan
      BY <1>1, <1>4, <3>1 DEF Destinations
    <3>2. CASE k \notin DOMAIN plan
      BY <1>1, <3>2 DEF Safe, Placed
    <3> QED
      BY <3>1, <3>2
  <2> QED
    BY <1>1, <2>1 DEF Placed
<1>6. ASSUME NEW s \in PlanSats, NEW d \in PlanDirs
      PROVE  Occupancy(Isl(s, d), place') =< IslRoom
  <2>1. \A k \in DOMAIN plan : Target(plan, k) = Isl(s, d) => plan[k] = Forward(s, d)
    BY <1>4, PlacesDiffer
  <2>2. Occupancy(Isl(s, d), place') =< Occupancy(Isl(s, d), place) + Added(plan, Forward(s, d))
    BY <1>1, <1>2, <2>1, ReachedBy
  <2>3. CASE Alike(plan, Forward(s, d)) = {}
    <3>1. Added(plan, Forward(s, d)) = 0
      BY <1>2, <2>3, AlikeFinite, FS_EmptySet
    <3>2. Occupancy(Isl(s, d), place) =< IslRoom
      BY DEF Safe, QueuesFit
    <3> QED
      BY <2>2, <3>1, <3>2, OccupantsFinite, PlanAssumption
  <2>4. CASE Alike(plan, Forward(s, d)) # {}
    <3>1. IslFits(plan, Forward(s, d))
      BY <1>1, <2>4, ActionsDiffer DEF Alike, Valid
    <3> QED
      BY <1>2, <2>2, <3>1, ActionsDiffer, OccupantsFinite, AlikeFinite, PlanAssumption
         DEF IslFits
  <2> QED
    BY <2>3, <2>4
<1>7. ASSUME NEW s \in PlanSats
      PROVE  Occupancy(Downlink(s), place') =< DownlinkRoom
  <2>1. \A k \in DOMAIN plan : Target(plan, k) = Downlink(s) => plan[k] = Deliver(s)
    BY <1>4 DEF Isl, Downlink, Pending
  <2>2. Occupancy(Downlink(s), place') =< Occupancy(Downlink(s), place) + Added(plan, Deliver(s))
    BY <1>1, <1>2, <2>1, ReachedBy
  <2>3. CASE Alike(plan, Deliver(s)) = {}
    <3>1. Added(plan, Deliver(s)) = 0
      BY <1>2, <2>3, AlikeFinite, FS_EmptySet
    <3>2. Occupancy(Downlink(s), place) =< DownlinkRoom
      BY DEF Safe, QueuesFit
    <3> QED
      BY <2>2, <3>1, <3>2, OccupantsFinite, PlanAssumption
  <2>4. CASE Alike(plan, Deliver(s)) # {}
    <3>1. DownlinkFits(plan, Deliver(s))
      BY <1>1, <2>4, ActionsDiffer DEF Alike, Valid
    <3> QED
      BY <1>2, <2>2, <3>1, ActionsDiffer, OccupantsFinite, AlikeFinite, PlanAssumption
         DEF DownlinkFits
  <2> QED
    BY <2>3, <2>4
<1>8. ASSUME NEW s \in PlanSats
      PROVE  Occupancy(Pending(s), place') =< HoldingRoom
  <2> DEFINE others == {j \in PlanPackets \ DOMAIN plan : place[j] = Pending(s)}
  <2>1. \A k \in DOMAIN plan : Target(plan, k) = Pending(s) => plan[k] = Wait(s)
    BY <1>4, PlacesDiffer
  <2>2. Occupants(Pending(s), place') \in SUBSET (others \cup Alike(plan, Wait(s)))
    BY <1>1, <2>1 DEF Occupants, Alike
  <2>3. /\ others \in SUBSET PlanPackets
        /\ Cardinality(others) \in Nat /\ Added(plan, Wait(s)) \in Nat
        /\ Cardinality(others) + Added(plan, Wait(s)) =< HoldingRoom
    BY <1>1, WaitersFit
  <2>4. /\ Alike(plan, Wait(s)) \in SUBSET PlanPackets
        /\ Added(plan, Wait(s)) = Cardinality(Alike(plan, Wait(s)))
    BY <1>2, AlikeFinite
  <2> HIDE DEF others
  <2>5. Occupancy(Pending(s), place') =< Cardinality(others) + Added(plan, Wait(s))
    BY <2>2, <2>3, <2>4, GroupsFit, PlanAssumption DEF Occupancy
  <2>6. Occupancy(Pending(s), place') \in Nat
    BY OccupantsFinite
  <2> QED
    BY <2>3, <2>5, <2>6, PlanAssumption
<1>9. QueuesFit'
  BY <1>6, <1>7, <1>8 DEF QueuesFit
<1> QED
  BY <1>3, <1>5, <1>9 DEF Safe

-----------------------------------------------------------------------------
LEMMA StepSafe == Safe /\ [PlanNext]_planVars => Safe'
<1> SUFFICES ASSUME Safe, [PlanNext]_planVars PROVE Safe'
  OBVIOUS
<1>1. CASE TakeSnapshot
  BY <1>1 DEF TakeSnapshot, Safe, VersionsGrow, Placed, PlanSeesCurrentState, QueuesFit
<1>2. ASSUME NEW plan \in Plans, ApplyPlan(plan) PROVE Safe'
  BY <1>2, ApplyPlanSafe
<1>3. ASSUME NEW k \in PlanPackets, NEW to \in Destinations, PacketEvent(k, to) PROVE Safe'
  BY <1>3, PacketEventSafe
<1>4. ASSUME NEW S \in SUBSET PlanSats, ServingEvent(S) PROVE Safe'
  BY <1>4 DEF ServingEvent, Bumped, Safe, VersionsGrow, Placed, PlanSeesCurrentState, QueuesFit
<1>5. CASE UNCHANGED planVars
  BY <1>5 DEF planVars, Safe, VersionsGrow, Placed, PlanSeesCurrentState, QueuesFit
<1> QED
  BY <1>1, <1>2, <1>3, <1>4, <1>5 DEF PlanNext

\* validate_joint_plan accepts a plan only on the state it was made from, and
\* apply_joint_plan then overfills no queue and drops no packet.
THEOREM JointPlansAreSafe == PlanSpec => []PlansAreSafe
<1>1. Safe => PlansAreSafe
  <2> SUFFICES ASSUME Safe, NEW k \in PlanPackets PROVE place[k] # Dropped
    BY DEF PlansAreSafe, Safe, NothingDropped
  <2>1. place[k] \in Destinations
    BY DEF Safe, Placed
  <2> QED
    BY <2>1, PlacesDiffer DEF Destinations
<1> QED
  BY <1>1, InitSafe, StepSafe, PTL DEF PlanSpec
=============================================================================
