----------------------------- MODULE CallLedger -----------------------------
(***************************************************************************)
(* One cell of the T1 suite is executed by a child process (t1_tasks),     *)
(* which keeps account of its simulator calls: it claims the launch ledger *)
(* it was issued, reserves each call there, and the kernel writes the      *)
(* edges of the call to the call ledger of the cell.                       *)
(*                                                                         *)
(* A launch ledger belongs to one launch and is part of the launch's       *)
(* record; the call ledger, the summary and the result have one path per   *)
(* cell.  A child that has lost its suite goes on and uses the same paths. *)
(* Cells that are not controlled run another task: no launch ledger, no    *)
(* summary.                                                                *)
(***************************************************************************)
EXTENDS Integers, Sequences, FiniteSets, Functions

CONSTANTS
  Cells,        \* the cells of the tier, numbered in its order
  Controlled,   \* those with a launch ledger
  Arms,         \* simulator calls of one cell, its static estimate
  LastLaunch    \* bound on the launches

\* run_bundle refuses a tier without cells.
ASSUME LedgerAssumption ==
  /\ Cells = 1 .. Cardinality(Cells) /\ 1 \in Cells /\ Controlled \subseteq Cells
  /\ Arms \in Nat \ {0} /\ LastLaunch \in Nat

VARIABLES
  disk,     \* per cell: result, summary, calls, and the results moved aside
  launch    \* per launch: its launch ledger and its child

ledgerVars == <<disk, launch>>

\* What a result says is who wrote it and whether the cell's predicate holds.
NoFile == [by |-> 0, good |-> FALSE]
Terminal == {"end", "fail", "timeout", "interrupted"}

Unissued == [cell |-> 0, phase |-> "none", ledger |-> "none", reserved |-> 0,
             arm |-> 0, calls |-> 0, failed |-> FALSE, rc |-> 0]

Killed == -1        \* ended by a signal
TimedOut == -2      \* ended by the suite at cell_wall_s

Live(l) == launch[l].phase \notin {"none", "exited"}

-----------------------------------------------------------------------------
(* The call ledger *)

Begins(log) == {i \in DOMAIN log : log[i].event = "begin"}
Open(log) == {i \in Begins(log) : \A j \in DOMAIN log : log[j].id = log[i].id => j =< i}

\* Every reader refuses a second begin of a call, a second terminal, and a
\* terminal without a begin.
WellFormed(log) ==
  \A i \in DOMAIN log :
    Cardinality({j \in 1 .. (i - 1) : log[j].id = log[i].id})
      = IF log[i].event = "begin" THEN 0 ELSE 1

\* What was reserved has begun and ended.
AccountsMatch(l) ==
  LET log == disk[launch[l].cell].calls
  IN  /\ WellFormed(log) /\ Open(log) = {}
      /\ Cardinality(Begins(log)) = launch[l].reserved

Logged(l, event) ==
  disk' = [disk EXCEPT ![launch[l].cell].calls =
             Append(@, [id |-> launch'[l].calls, event |-> event, by |-> l])]

-----------------------------------------------------------------------------
(* The child *)

Goes(l, phase) == launch' = [launch EXCEPT ![l].phase = phase]
Refused(l) == launch' = [launch EXCEPT ![l].phase = "closing", ![l].rc = 2]

IsControlled(l) == launch[l].cell \in Controlled
HasResult(l) == disk[launch[l].cell].result # NoFile

\* _claim_suite_launch_ledger: only a ledger nobody has claimed.
Claim(l) ==
  /\ launch[l].phase = "start"
  /\ IF IsControlled(l)
     THEN /\ launch[l].ledger = "issued"
          /\ launch' = [launch EXCEPT ![l].phase = "claimed", ![l].ledger = "active"]
     ELSE Goes(l, "running")
  /\ UNCHANGED disk

\* A destination that exists is refused before anything is simulated.
CheckOut(l) ==
  /\ launch[l].phase = "claimed"
  /\ IF HasResult(l) THEN Refused(l) ELSE Goes(l, "running")
  /\ UNCHANGED disk

\* A call is refused unless all that was reserved before has begun and ended.
MayCall(l) ==
  launch[l].ledger = "active" /\ AccountsMatch(l) /\ launch[l].reserved < Arms

\* call_guard of the next arm.  An arm whose reservation is refused counts as
\* failed, and the next arm is tried.
Reserve(l) ==
  /\ launch[l].phase = "running" /\ IsControlled(l) /\ launch[l].arm < Arms
  /\ IF MayCall(l)
     THEN launch' = [launch EXCEPT ![l].phase = "reserved", ![l].arm = @ + 1,
                                   ![l].reserved = @ + 1]
     ELSE launch' = [launch EXCEPT ![l].arm = @ + 1, ![l].failed = TRUE]
  /\ UNCHANGED disk

\* run_simulation: the begin event is on disk before the kernel starts.
BeginCall(l) ==
  /\ \/ /\ launch[l].phase = "reserved"
        /\ launch' = [launch EXCEPT ![l].phase = "calling", ![l].calls = @ + 1]
     \/ /\ launch[l].phase = "running" /\ ~ IsControlled(l) /\ launch[l].arm < Arms
        /\ launch' = [launch EXCEPT ![l].phase = "calling", ![l].calls = @ + 1,
                                    ![l].arm = @ + 1]
  /\ Logged(l, "begin")

EndCall(l, event) ==
  /\ launch[l].phase = "calling" /\ event \in {"end", "fail"}
  /\ launch' = [launch EXCEPT ![l].phase = "running", ![l].failed = @ \/ event = "fail"]
  /\ Logged(l, event)

\* publish of the summary: refused when the result or a summary is there.
PublishSummary(l) ==
  /\ launch[l].phase = "running" /\ IsControlled(l) /\ launch[l].arm = Arms
  /\ IF HasResult(l) \/ disk[launch[l].cell].summary # 0
     THEN Refused(l) /\ UNCHANGED disk
     ELSE /\ Goes(l, "summarised")
          /\ disk' = [disk EXCEPT ![launch[l].cell].summary = l]

\* publish of the result: it looks for a result, writes a temporary file and
\* renames it.
PublishBegin(l) ==
  /\ \/ launch[l].phase = "summarised"
     \/ launch[l].phase = "running" /\ ~ IsControlled(l) /\ launch[l].arm = Arms
  /\ IF HasResult(l) THEN Refused(l) ELSE Goes(l, "writing")
  /\ UNCHANGED disk

PublishEnd(l, good) ==
  /\ launch[l].phase = "writing"
  /\ disk' = [disk EXCEPT ![launch[l].cell].result = [by |-> l, good |-> good]]
  /\ launch' = [launch EXCEPT ![l].phase = "closing",
                              ![l].rc = IF launch[l].failed THEN 3 ELSE 0]

\* An error outside the arms ends the task; its launch is still closed.
TaskFails(l) ==
  /\ launch[l].phase \in {"claimed", "running", "summarised", "writing"}
  /\ launch' = [launch EXCEPT ![l].phase = "closing", ![l].rc = 1]
  /\ UNCHANGED disk

\* _close_suite_launch_ledger, in the finally of main.
CloseLaunch(l) ==
  /\ launch[l].phase = "closing"
  /\ launch' = [launch EXCEPT
       ![l].phase = "exited",
       ![l].ledger = IF IsControlled(l) /\ AccountsMatch(l) THEN "closed" ELSE @,
       ![l].rc = IF IsControlled(l) /\ ~ AccountsMatch(l) THEN 2 ELSE @]
  /\ UNCHANGED disk

ChildDies(l) ==
  /\ Live(l)
  /\ launch' = [launch EXCEPT ![l].phase = "exited", ![l].rc = Killed]
  /\ UNCHANGED disk

ChildNext(l) ==
  \/ Claim(l) \/ CheckOut(l) \/ Reserve(l) \/ BeginCall(l)
  \/ \E event \in {"end", "fail"} : EndCall(l, event)
  \/ PublishSummary(l) \/ PublishBegin(l)
  \/ \E good \in BOOLEAN : PublishEnd(l, good)
  \/ TaskFails(l) \/ CloseLaunch(l) \/ ChildDies(l)

-----------------------------------------------------------------------------
(* What the suite does around a child *)

Issued == {l \in 1 .. LastLaunch : launch[l].phase # "none"}
NextLaunch == Cardinality(Issued) + 1

\* _execute_cell up to the start of the child: an earlier result and call
\* ledger are moved aside, and a new launch ledger is issued.
MovedAsideMutant(c) == disk[c].aside
MovedAside(c) ==
  disk[c].aside \cup (IF disk[c].result = NoFile THEN {} ELSE {disk[c].result})

StartChild(c) ==
  /\ NextLaunch =< LastLaunch
  /\ disk' = [disk EXCEPT ![c] = [result |-> NoFile, summary |-> disk[c].summary,
                                  calls |-> <<>>, aside |-> MovedAside(c)]]
  /\ launch' = [launch EXCEPT ![NextLaunch] =
                  [Unissued EXCEPT !.cell = c, !.phase = "start",
                     !.ledger = IF c \in Controlled THEN "issued" ELSE "none"]]

\* _finalize_simulator_call_ledger: the calls a dead child left open get the
\* terminal it could not write, in the order of their begins.
InOrder(S) ==
  {q \in [1 .. Cardinality(S) -> S] : \A i, j \in DOMAIN q : i < j => q[i] < q[j]}
Written(log, i, event) == [id |-> log[i].id, by |-> log[i].by, event |-> event]
Reconciled(log, rc) ==
  IF rc = 0 THEN {log}
  ELSE {log \o [k \in DOMAIN q |->
                  Written(log, q[k], IF rc = TimedOut THEN "timeout" ELSE "interrupted")] :
          q \in InOrder(Open(log))}

\* The launch was closed by its child, and what it reserved is what began.
Intact(l, started) ==
  IsControlled(l) =>
    /\ launch[l].ledger = "closed"
    /\ launch[l].reserved = started

LedgerInit ==
  /\ disk = [c \in Cells |-> [result |-> NoFile, summary |-> 0, calls |-> <<>>, aside |-> {}]]
  /\ launch = [l \in 1 .. LastLaunch |-> Unissued]
=============================================================================
