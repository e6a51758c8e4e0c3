---------------------------- MODULE AsyncSchedule ----------------------------
(***************************************************************************)
(* Asynchronous route schedules of one satellite: the update manager       *)
(* (async_routing.py) driven by the kernel.  A scope's table is computed   *)
(* by a job of the satellite's compute pool, which packet decisions share, *)
(* and installed a fixed delay after the job ends.                         *)
(*                                                                         *)
(* A table is its bins, laid out from the predicted install instant, and   *)
(* the window that starts at the actual one.  The bins tile one interval,  *)
(* so only its ends matter.  The ticket of an update is its pool job.      *)
(***************************************************************************)
EXTENDS Integers, Sequences, FiniteSets, SequencesExt

CONSTANTS
  LastInstant,      \* duration_s
  Scopes,           \* (satellite, destination) pairs, numbered in the ticker's order
  Servers,          \* compute_servers
  Service,          \* compute_delay_s, of updates and of decisions
  InstallDelay,     \* install_delay_s
  ValidWindow,      \* valid_window_s
  TickInterval,     \* period of _async_ticker
  MaxDecisions,     \* packet decisions that use the pool, in this instance
  NoTable

ASSUME ScheduleAssumption ==
  /\ Scopes \subseteq Nat /\ IsFiniteSet(Scopes) /\ NoTable \notin Scopes
  /\ Servers \in Nat \ {0}
  /\ Service \in Nat \ {0} /\ InstallDelay \in Nat \ {0}
  /\ ValidWindow \in Nat \ {0} /\ TickInterval \in Nat \ {0} /\ MaxDecisions \in Nat

VARIABLES
  clock,       \* simulated time, in whole units
  known,       \* _async_scopes
  table,       \* [Scopes -> installed schedule or NoTable]
  computing,   \* [Scopes -> version of the update in flight, or 0]
  version,     \* _version_seq
  waiting,     \* jobs waiting for the pool, first come first served
  running,     \* jobs on a server
  installing,  \* finished updates in their install delay
  decisions,   \* decisions that have used the pool
  tick         \* instant of the next tick

asyncVars == <<clock, known, table, computing, version, waiting, running, installing,
               decisions, tick>>

-----------------------------------------------------------------------------
(* Tables *)

Expires(t) == t.installed + ValidWindow

\* bin_for: inside the window and inside a bin, or at its last instant.
BinForMutant(t, at) ==
  /\ t.installed =< at /\ at =< Expires(t)
BinFor(t, at) ==
  /\ t.installed =< at /\ at =< Expires(t)
  /\ (t.start =< at /\ at < t.start + ValidWindow) \/ at = Expires(t)

Usable(sc) == table[sc] # NoTable /\ BinFor(table[sc], clock)

NeedsUpdate(sc) == ~ Usable(sc) /\ computing[sc] = 0

-----------------------------------------------------------------------------
(* Requests *)

\* The bins of an update are fixed when it is requested.
Update(sc, v) ==
  [scope |-> sc, version |-> v, asked |-> clock,
   start |-> clock + Service + InstallDelay]

\* request_update for the scopes in the order of todo, each with the next
\* version; their jobs join the pool in that order.
Requested(todo) ==
  /\ version' = version + Len(todo)
  /\ computing' = [sc \in Scopes |->
       IF \E i \in DOMAIN todo : todo[i] = sc
       THEN version + (CHOOSE i \in DOMAIN todo : todo[i] = sc) ELSE computing[sc]]
  /\ waiting' = waiting \o [i \in DOMAIN todo |-> Update(todo[i], version + i)]

\* A packet is ordered by its scope's table.  A scope is registered with its
\* first packet; without a usable table the update is requested, if there is
\* a candidate to rank.
Query(sc, candidates) ==
  /\ known' = known \cup {sc}
  /\ IF NeedsUpdate(sc) /\ candidates THEN Requested(<<sc>>)
     ELSE UNCHANGED <<version, computing, waiting>>
  /\ UNCHANGED <<clock, table, running, installing, decisions, tick>>

\* The scopes of S in the ticker's order.
Sorted(S) ==
  {todo \in [1 .. Cardinality(S) -> S] :
     \A i, j \in DOMAIN todo : i < j => todo[i] < todo[j]}

\* The ticker renews every registered scope that needs it and has candidates.
TickScopes(ready) ==
  /\ tick = clock
  /\ tick' = clock + TickInterval
  /\ \E todo \in Sorted({sc \in known \cap ready : NeedsUpdate(sc)}) : Requested(todo)
  /\ UNCHANGED <<clock, known, table, running, installing, decisions>>

-----------------------------------------------------------------------------
(* The shared pool *)

\* A packet decision takes a server like an update does.
Decide ==
  /\ decisions < MaxDecisions
  /\ decisions' = decisions + 1
  /\ waiting' = Append(waiting, [scope |-> NoTable, nr |-> decisions'])
  /\ UNCHANGED <<clock, known, table, computing, version, running, installing, tick>>

StartJob ==
  /\ waiting # <<>> /\ Cardinality(running) < Servers
  /\ running' = running \cup {[job |-> Head(waiting), ends |-> clock + Service]}
  /\ waiting' = Tail(waiting)
  /\ UNCHANGED <<clock, known, table, computing, version, installing, decisions, tick>>

\* finish_compute fixes the install instant.
FinishJob(r) ==
  /\ r.ends = clock
  /\ running' = running \ {r}
  /\ installing' = IF r.job.scope = NoTable THEN installing
                   ELSE installing \cup {[job |-> r.job, due |-> clock + InstallDelay]}
  /\ UNCHANGED <<clock, known, table, computing, version, waiting, decisions, tick>>

\* The expiry that install compares with was moved by finish_compute to the
\* actual install instant.
Accepts(i) ==
  /\ table[i.job.scope] = NoTable \/ i.job.version > table[i.job.scope].version
  /\ clock =< i.due + ValidWindow

Clears(i) == computing[i.job.scope] = i.job.version

Install(i) ==
  /\ i.due = clock
  /\ installing' = installing \ {i}
  /\ table' = IF ~ Accepts(i) THEN table
              ELSE [table EXCEPT ![i.job.scope] =
                      [version |-> i.job.version, asked |-> i.job.asked,
                       start |-> i.job.start, installed |-> clock]]
  /\ computing' = IF Clears(i) THEN [computing EXCEPT ![i.job.scope] = 0]
                  ELSE computing
  /\ UNCHANGED <<clock, known, version, waiting, running, decisions, tick>>

AsyncDue ==
  \/ tick = clock
  \/ waiting # <<>> /\ Cardinality(running) < Servers
  \/ \E r \in running : r.ends = clock
  \/ \E i \in installing : i.due = clock

AsyncAdvance ==
  /\ clock < LastInstant /\ ~ AsyncDue
  /\ clock' = clock + 1
  /\ UNCHANGED <<known, table, computing, version, waiting, running, installing,
                 decisions, tick>>

AsyncInit ==
  /\ clock = 0
  /\ known = {}
  /\ table = [sc \in Scopes |-> NoTable]
  /\ computing = [sc \in Scopes |-> 0]
  /\ version = 0
  /\ waiting = <<>>
  /\ running = {}
  /\ installing = {}
  /\ decisions = 0
  /\ tick = TickInterval

AsyncNext ==
  \/ \E sc \in Scopes, candidates \in BOOLEAN : Query(sc, candidates)
  \/ \E ready \in SUBSET Scopes : TickScopes(ready)
  \/ Decide
  \/ StartJob
  \/ \E r \in running : FinishJob(r)
  \/ \E i \in installing : Install(i)
  \/ AsyncAdvance

AsyncSpec == AsyncInit /\ [][AsyncNext]_asyncVars

-----------------------------------------------------------------------------
(* Properties *)

UpdatesOf(sc) ==
  {j.version : j \in {k \in Range(waiting) \cup {r.job : r \in running}
                             \cup {i.job : i \in installing} : k.scope = sc}}

\* A scope that counts as computing has exactly one update on its way, and no
\* other scope has one: none is started twice, and none is given up and still
\* waited for.
OneUpdateInFlight ==
  \A sc \in Scopes : UpdatesOf(sc) = IF computing[sc] = 0 THEN {} ELSE {computing[sc]}

\* A late install does not stretch a prediction: before the last instant of its
\* window, a table answers only while its snapshot is as recent as planned.
LateIsNotStretched ==
  \A sc \in Scopes :
    Usable(sc) /\ clock < Expires(table[sc]) =>
      clock - table[sc].asked < Service + InstallDelay + ValidWindow

\* One table is on its way at most, and it does not answer past its plan.
TablesAreTimely == OneUpdateInFlight /\ LateIsNotStretched

=============================================================================
