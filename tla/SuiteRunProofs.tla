--------------------------- MODULE SuiteRunProofs ---------------------------
(***************************************************************************)
(* For any tier, any number of launches, kills and edits: what a run       *)
(* reports is on disk and accounted for, recorded evidence is kept, and    *)
(* what is settled is not run again.                                       *)
(*                                                                         *)
(* The properties are about run.json, the files of a cell and the launches *)
(* that wrote them.  Accounted ties the three together.  Every result on   *)
(* disk or in a record names a launch of its cell that has published, or   *)
(* was edited (Placed, Truthful); while the suite works on a cell, what    *)
(* lies there is not what run.json says, for it was moved aside (AtWork).  *)
(* A child's tried, reserved and begun calls agree at every step of it, so *)
(* that the return code 0 says they all were made (ChildBalance).  The     *)
(* command under way fixes what run.json can be (Commanded).               *)
(***************************************************************************)
EXTENDS SuiteRun, FiniteSetTheorems, SequenceTheorems, TLAPS

-----------------------------------------------------------------------------
(* The inductive invariant.                                                *)

Phases == {"none", "start", "claimed", "running", "reserved", "calling", "summarised", "writing",
           "closing", "exited"}
Published == {"closing", "exited"}
Launches == 1 .. LastLaunch
LaunchRecs ==
  [cell : Cells \cup {0}, phase : Phases, ledger : {"none", "issued", "active", "closed"},
   reserved : 0 .. Arms, arm : 0 .. Arms, calls : 0 .. Arms, failed : BOOLEAN, rc : Int]
Results == [by : Int, good : BOOLEAN]
Events == [id : 1 .. Arms, event : Terminal \cup {"begin"}, by : Int]
DiskRecs == [result : Results, summary : Int, calls : Seq(Events), aside : SUBSET Results]
CellStatuses == {"none", "ok", "timeout", "error", "predicate_failed", "invalidated"}
CellRecords == [status : CellStatuses, result : Results, launch : 0 .. LastLaunch, started : 0 .. Arms]
RunStatuses == {"INCOMPLETE", "ok", "FAILED_CELLS", "SMOKE_FAILED", "BUDGET_EXCEEDED"}
Smokes == {"none", "passed", "failed"}
Docs == [made : BOOLEAN, written : BOOLEAN, status : RunStatuses, smoke : Smokes,
         records : [Cells -> CellRecords]]
SuiteRecs ==
  [command : {"none", "run", "resume"}, step : {"none", "next", "wait", "judge", "end"},
   todo : SUBSET Cells, launch : 0 .. LastLaunch, started : Nat, unresolved : Nat,
   status : RunStatuses, gated : BOOLEAN, stop : BOOLEAN,
   smoke : Smokes, records : [Cells -> CellRecords]]

Typed ==
  /\ launch \in [Launches -> LaunchRecs]
  /\ disk \in [Cells -> DiskRecs]
  /\ doc \in Docs /\ suite \in SuiteRecs /\ faults \in Nat

\* Launches are issued one after the other.
Issuing == \E n \in 0 .. LastLaunch : Issued = 1 .. n

\* What a child reserved, tried and called, and what its return code says of it.
ChildBalance(r) ==
  /\ r.phase # "none" => r.cell \in Cells
  /\ r.reserved =< r.arm
  /\ r.phase = "calling" => r.calls # 0
  /\ r.cell \in Controlled =>
       /\ r.phase = "reserved" => r.calls + 1 = r.reserved
       /\ r.phase \in {"none", "start", "claimed", "running", "calling", "summarised", "writing"} =>
            r.calls = r.reserved
       /\ ~ r.failed => r.arm = r.reserved
       /\ r.phase \in Published /\ r.rc = 0 => ~ r.failed /\ r.calls = r.reserved
  /\ r.cell \notin Controlled => r.calls = r.arm
  /\ r.phase \in {"reserved", "claimed", "summarised"} => r.cell \in Controlled
Balanced == \A l \in Launches : ChildBalance(launch[l])

\* The result x was written by a launch of c.
By(x, c) == x.by \in Launches /\ launch[x.by].cell = c /\ launch[x.by].phase \in Published
Placed(x, c) == x = NoFile \/ By(x, c)

\* What a record says of its cell.
Truthful(r, c) ==
  /\ Placed(r.result, c)
  /\ r.status = "ok" =>
       /\ r.result # NoFile /\ r.result.good
       /\ c \in Controlled => /\ r.launch \in Launches
                              /\ launch[r.launch].phase = "exited"
                              /\ launch[r.launch].ledger = "closed"
                              /\ launch[r.launch].calls = r.started
                              /\ launch[r.launch].reserved = r.started
Recorded ==
  \A c \in Cells :
    /\ Placed(disk[c].result, c) \/ disk[c].result = Edited
    /\ Truthful(doc.records[c], c) /\ Truthful(suite.records[c], c)

\* The suite waits for a launch of a cell from which it took the result away:
\* what is there now was not there when run.json was written.
AtWork ==
  /\ suite.launch # 0 <=> suite.step \in {"wait", "judge"}
  /\ suite.launch # 0 =>
       LET c == launch[suite.launch].cell
       IN  /\ c \in Cells /\ launch[suite.launch].phase # "none"
           /\ Placed(disk[c].result, c)
           /\ disk[c].result = doc.records[c].result => disk[c].result = NoFile
  /\ suite.step = "judge" => suite.started \in 0 .. Arms /\ launch[suite.launch].phase = "exited"

\* What a command may still do with what run.json says.
Commanded ==
  /\ suite.command = "none" <=> suite = Off
  /\ ~ doc.made => doc.status = "INCOMPLETE"
  /\ suite.command = "run" => doc.made /\ doc.status = "INCOMPLETE"
  /\ suite.command = "resume" =>
       /\ doc.status # "SMOKE_FAILED" /\ doc.made
       /\ \A c \in suite.todo : ~ Verified(c, doc.records[c])
  /\ doc.written => doc.made

Accounted == Typed /\ Issuing /\ Balanced /\ Recorded /\ AtWork /\ Commanded

\* What a step may never do.
Allowed == EvidenceStays /\ VerifiedIsNotRepeated /\ SmokeVerdictIsFinal

-----------------------------------------------------------------------------
(* The child.                                                              *)

LEMMA Fields ==
  ASSUME Typed
  PROVE  /\ \A l \in Launches : launch[l] \in LaunchRecs
         /\ \A c \in Cells : disk[c] \in DiskRecs
         /\ doc \in Docs /\ suite \in SuiteRecs
         /\ \A c \in Cells : doc.records[c] \in CellRecords /\ suite.records[c] \in CellRecords
BY DEF Typed, Docs, SuiteRecs

LEMMA IssuedAre == Issued \in SUBSET Launches /\ \A l \in Launches : l \in Issued <=> launch[l].phase # "none"
BY DEF Issued, Launches

\* What is published stays attributed, whatever a child does next.
LEMMA TruthStays ==
  ASSUME NEW r, NEW c, Truthful(r, c),
         \A l \in Launches : launch[l].phase \in Published =>
           /\ launch'[l].cell = launch[l].cell /\ launch'[l].phase \in Published
           /\ launch[l].phase = "exited" => launch'[l] = launch[l]
  PROVE  Truthful(r, c)'
BY DEF Truthful, Placed, By, Published

\* A step of the live child of l: it may publish, and touches no more than
\* the files of its cell.
LEMMA ChildKeeps ==
  ASSUME Accounted, NEW l \in Launches, NEW rec \in LaunchRecs,
         launch[l].phase \notin {"none", "exited"}, launch' = [launch EXCEPT ![l] = rec],
         rec.cell = launch[l].cell, rec.phase # "none",
         launch[l].phase = "closing" => rec.phase = "exited", ChildBalance(rec),
         UNCHANGED <<doc, suite, faults>>, disk' \in [Cells -> DiskRecs],
         \A c \in Cells : disk'[c].aside = disk[c].aside,
         \A c \in Cells :
           \/ disk'[c].result = disk[c].result
           \/ /\ c = launch[l].cell /\ disk'[c].result.by = l
              /\ launch[l].phase = "writing" /\ rec.phase = "closing"
  PROVE  Accounted' /\ Allowed
<1>0. Typed /\ Issuing /\ Balanced /\ Recorded /\ AtWork /\ Commanded
  BY DEF Accounted
<1>1. /\ launch \in [Launches -> LaunchRecs] /\ launch'[l] = rec
      /\ \A m \in Launches : m # l => launch'[m] = launch[m]
  BY <1>0 DEF Typed
<1>2. Typed'
  BY <1>0, <1>1 DEF Typed
<1>3. Issued' = Issued
  BY <1>1 DEF Issued, Launches
<1>4. Issuing' /\ Balanced'
  BY <1>0, <1>1, <1>3 DEF Issuing, Balanced
<1>5. \A m \in Launches : launch[m].phase \in Published =>
        /\ launch'[m].cell = launch[m].cell /\ launch'[m].phase \in Published
        /\ launch[m].phase = "exited" => launch'[m] = launch[m]
  BY <1>1 DEF Published
<1>6. \A c : \A x : Placed(x, c) => Placed(x, c)'
  BY <1>5 DEF Placed, By
<1>7. \A y : \A c \in Cells : y = disk'[c].result =>
        \/ y = disk[c].result
        \/ y # NoFile /\ y.by = l /\ By(y, c)' /\ c = launch[l].cell
  <2> SUFFICES ASSUME NEW y, NEW c \in Cells, y = disk'[c].result, y # disk[c].result
               PROVE  y # NoFile /\ y.by = l /\ By(y, c)' /\ c = launch[l].cell
    OBVIOUS
  <2>1. c = launch[l].cell /\ y.by = l /\ rec.phase = "closing"
    OBVIOUS
  <2>2. l \in Int /\ l # 0
    BY DEF Launches
  <2>3. y # NoFile
    BY <2>1, <2>2 DEF NoFile
  <2> QED
    BY <1>1, <2>1, <2>3 DEF By, Published
<1>8. Recorded'
  <2> SUFFICES ASSUME NEW c \in Cells
               PROVE  /\ Placed(disk[c].result, c)' \/ disk'[c].result = Edited
                      /\ Truthful(doc.records[c], c)' /\ Truthful(suite.records[c], c)'
    BY DEF Recorded, Edited
  <2>1. Truthful(doc.records[c], c) /\ Truthful(suite.records[c], c)
    BY <1>0 DEF Recorded
  <2>2. Truthful(doc.records[c], c)'
    <3>1. PICK r : r = doc.records[c]
      OBVIOUS
    <3>2. Truthful(r, c)'
      BY <1>5, <2>1, <3>1, TruthStays
    <3> QED
      BY <3>1, <3>2 DEF Truthful, Placed, By
  <2>3. Truthful(suite.records[c], c)'
    <3>1. PICK r : r = suite.records[c]
      OBVIOUS
    <3>2. Truthful(r, c)'
      BY <1>5, <2>1, <3>1, TruthStays
    <3> QED
      BY <3>1, <3>2 DEF Truthful, Placed, By
  <2>4. Placed(disk[c].result, c)' \/ disk'[c].result = Edited
    <3>1. PICK y : y = disk'[c].result
      OBVIOUS
    <3>2. Placed(y, c)' \/ y = Edited
      BY <1>0, <1>6, <1>7, <3>1 DEF Recorded, Placed
    <3> QED
      BY <3>1, <3>2 DEF Placed, By
  <2> QED
    BY <2>2, <2>3, <2>4
\* No record of run.json names l before it has published.
<1>9. ASSUME NEW c \in Cells, disk'[c].result # disk[c].result
      PROVE  disk'[c].result # doc.records[c].result /\ disk'[c].result # NoFile
  <2>1. launch[l].phase = "writing" /\ disk'[c].result.by = l /\ disk'[c].result # NoFile
    BY <1>7, <1>9
  <2>2. Placed(doc.records[c].result, c)
    BY <1>0 DEF Recorded, Truthful
  <2> QED
    BY <2>1, <2>2 DEF Placed, By, Published
<1>10. AtWork'
  <2>0. suite.launch # 0 => suite.launch \in Launches
    BY <1>0 DEF Typed, SuiteRecs, Launches
  <2>1. suite.step = "judge" => suite.launch \in Launches /\ suite.launch # l
    BY <1>0, <2>0 DEF AtWork
  <2>2. PICK c0 : c0 = launch[suite.launch].cell
    OBVIOUS
  <2>3. suite.launch # 0 => /\ launch'[suite.launch].cell = c0 /\ launch'[suite.launch].phase # "none"
                            /\ c0 \in Cells /\ Placed(disk[c0].result, c0)
                            /\ disk[c0].result = doc.records[c0].result => disk[c0].result = NoFile
    BY <1>0, <1>1, <2>0, <2>2 DEF AtWork
  <2>4. PICK y : y = disk'[c0].result
    OBVIOUS
  <2>5. suite.launch # 0 => Placed(y, c0)' /\ (y = doc.records[c0].result => y = NoFile)
    BY <1>6, <1>7, <1>9, <2>3, <2>4 DEF Placed
  <2>6. suite.launch # 0 => /\ Placed(disk[c0].result, c0)'
                            /\ disk'[c0].result = doc.records[c0].result => disk'[c0].result = NoFile
    BY <2>4, <2>5 DEF Placed, By
  <2>7. suite.step = "judge" => launch'[suite.launch].phase = "exited"
    BY <1>0, <1>1, <2>1 DEF AtWork
  <2> QED
    BY <1>0, <2>3, <2>6, <2>7 DEF AtWork
<1>11. Commanded'
  <2>1. suite.command = "resume" => \A c \in suite.todo : ~ Verified(c, doc.records[c])'
    <3> SUFFICES ASSUME suite.command = "resume", NEW c \in suite.todo PROVE ~ Verified(c, doc.records[c])'
      OBVIOUS
    <3>1. c \in Cells /\ ~ Verified(c, doc.records[c])
      BY <1>0 DEF Commanded, Typed, SuiteRecs
    <3> QED
      BY <1>9, <3>1 DEF Verified
  <2> QED
    BY <1>0, <2>1 DEF Commanded
<1>12. EvidenceStays
  <2> SUFFICES ASSUME NEW c \in Cells, Leaves(c), ~ Orphaned(c)
               PROVE  disk[c].result = NoFile
    BY DEF EvidenceStays
  <2>1. disk[c].result = doc.records[c].result /\ disk'[c].result # disk[c].result
    BY DEF Leaves
  <2>2. launch[l].cell = c /\ launch[l].phase = "writing"
    BY <2>1
  <2>3. l = suite.launch /\ l # 0
    BY <2>2, IssuedAre DEF Orphaned, Live, Launches
  <2> QED
    BY <1>0, <2>1, <2>2, <2>3 DEF AtWork
<1>13. VerifiedIsNotRepeated /\ SmokeVerdictIsFinal
  BY <1>3 DEF VerifiedIsNotRepeated, SmokeVerdictIsFinal
<1> QED
  BY <1>2, <1>4, <1>8, <1>10, <1>11, <1>12, <1>13 DEF Accounted, Allowed

\* A step of a child that writes nothing but, at most, its summary or its calls.
LEMMA QuietChild ==
  ASSUME Accounted, NEW l \in Launches, NEW rec \in LaunchRecs,
         launch[l].phase \notin {"none", "exited"}, launch' = [launch EXCEPT ![l] = rec],
         rec.cell = launch[l].cell, rec.phase # "none",
         launch[l].phase = "closing" => rec.phase = "exited", ChildBalance(rec),
         UNCHANGED <<doc, suite, faults, disk>>
  PROVE  Accounted' /\ Allowed
<1>1. disk' \in [Cells -> DiskRecs]
  BY DEF Accounted, Typed
<1> QED
  BY <1>1, ChildKeeps

LEMMA ChildSteps ==
  ASSUME Accounted, NEW l \in Issued, ChildNext(l), UNCHANGED <<doc, suite, faults>>
  PROVE  Accounted' /\ Allowed
<1>0. /\ Typed /\ Balanced /\ l \in Launches /\ launch[l].phase # "none"
      /\ launch \in [Launches -> LaunchRecs] /\ launch[l] \in LaunchRecs /\ ChildBalance(launch[l])
      /\ launch[l].cell \in Cells /\ disk \in [Cells -> DiskRecs] /\ disk[launch[l].cell] \in DiskRecs
      /\ Arms \in Nat
  BY IssuedAre, LedgerAssumption DEF Accounted, Typed, Balanced, ChildBalance
<1> DEFINE c == launch[l].cell
\* A step that only changes the launch.
<1>1. ASSUME launch[l].phase # "exited", NEW rec \in LaunchRecs, launch' = [launch EXCEPT ![l] = rec],
             rec.cell = launch[l].cell, rec.phase # "none",
             launch[l].phase = "closing" => rec.phase = "exited", ChildBalance(rec), disk' = disk
      PROVE  Accounted' /\ Allowed
  BY <1>0, <1>1, QuietChild
\* A refusal, an error or a kill.
<1>2. ASSUME NEW p \in Published, NEW n \in Int, n # 0, launch[l].phase # "exited",
             launch[l].phase = "closing" => p = "exited",
             launch' = [launch EXCEPT ![l].phase = p, ![l].rc = n], disk' = disk
      PROVE  Accounted' /\ Allowed
  <2> DEFINE rec == [launch[l] EXCEPT !.phase = p, !.rc = n]
  <2>1. launch' = [launch EXCEPT ![l] = rec]
    BY <1>0, <1>2
  <2>2. /\ rec \in LaunchRecs /\ rec.cell = launch[l].cell /\ rec.phase = p /\ rec.phase # "none"
        /\ ChildBalance(rec)
    BY <1>0, <1>2 DEF LaunchRecs, Phases, Published, ChildBalance
  <2> HIDE DEF rec
  <2> QED
    BY <1>1, <1>2, <2>1, <2>2
\* A step into another phase.
<1>3. ASSUME NEW p \in Phases \ ({"none"} \cup Published), Goes(l, p), disk' = disk,
             launch[l].phase \notin Published,
             ChildBalance([launch[l] EXCEPT !.phase = p])
      PROVE  Accounted' /\ Allowed
  <2> DEFINE rec == [launch[l] EXCEPT !.phase = p]
  <2>1. launch' = [launch EXCEPT ![l] = rec]
    BY <1>0, <1>3 DEF Goes
  <2>2. rec \in LaunchRecs /\ rec.cell = launch[l].cell /\ rec.phase # "none"
    BY <1>0, <1>3 DEF LaunchRecs
  <2>3. ChildBalance(rec)
    BY <1>3
  <2> HIDE DEF rec
  <2> QED
    BY <1>1, <1>3, <2>1, <2>2, <2>3 DEF Published
<1>4. CASE Claim(l)
  <2>1. CASE IsControlled(l)
    <3> DEFINE rec == [launch[l] EXCEPT !.phase = "claimed", !.ledger = "active"]
    <3>1. launch' = [launch EXCEPT ![l] = rec] /\ disk' = disk /\ launch[l].phase = "start"
      BY <1>0, <1>4, <2>1 DEF Claim
    <3>2. /\ rec \in LaunchRecs /\ rec.cell = launch[l].cell /\ rec.phase = "claimed"
          /\ ChildBalance(rec)
      BY <1>0, <2>1, <3>1 DEF LaunchRecs, Phases, Published, ChildBalance, IsControlled
    <3> HIDE DEF rec
    <3> QED
      BY <1>1, <3>1, <3>2
  <2>2. CASE ~ IsControlled(l)
    <3>1. Goes(l, "running") /\ disk' = disk /\ launch[l].phase = "start"
      BY <1>4, <2>2 DEF Claim
    <3>2. ChildBalance([launch[l] EXCEPT !.phase = "running"])
      BY <1>0, <2>2, <3>1 DEF LaunchRecs, Published, ChildBalance, IsControlled
    <3> QED
      BY <1>3, <3>1, <3>2 DEF Phases, Published
  <2> QED
    BY <2>1, <2>2
<1>5. CASE CheckOut(l)
  <2>1. CASE HasResult(l)
    BY <1>2, <1>5, <2>1 DEF CheckOut, Refused, Published
  <2>2. CASE ~ HasResult(l)
    <3>1. Goes(l, "running") /\ disk' = disk /\ launch[l].phase = "claimed"
      BY <1>5, <2>2 DEF CheckOut
    <3>2. ChildBalance([launch[l] EXCEPT !.phase = "running"])
      BY <1>0, <3>1 DEF LaunchRecs, Published, ChildBalance
    <3> QED
      BY <1>3, <3>1, <3>2 DEF Phases, Published
  <2> QED
    BY <2>1, <2>2
<1>6. CASE Reserve(l)
  <2>0. PICK r \in LaunchRecs : r = launch[l]
    BY <1>0
  <2>1. r.phase = "running" /\ r.cell \in Controlled /\ r.arm < Arms /\ disk' = disk
    BY <1>6, <2>0 DEF Reserve, IsControlled
  <2>2. CASE MayCall(l)
    <3> DEFINE rec == [r EXCEPT !.phase = "reserved", !.arm = r.arm + 1, !.reserved = r.reserved + 1]
    <3>1. launch' = [launch EXCEPT ![l] = rec]
      BY <1>0, <1>6, <2>0, <2>2 DEF Reserve
    <3>2. r.reserved < Arms
      BY <2>0, <2>2 DEF MayCall
    <3>3. rec \in LaunchRecs
      <4>1. r.arm + 1 \in 0 .. Arms /\ r.reserved + 1 \in 0 .. Arms
        BY <1>0, <2>1, <3>2 DEF LaunchRecs
      <4> QED
        BY <4>1 DEF LaunchRecs, Phases
    <3>4. /\ rec.cell = r.cell /\ rec.phase = "reserved" /\ rec.arm = r.arm + 1
          /\ rec.reserved = r.reserved + 1 /\ rec.calls = r.calls /\ rec.failed = r.failed
      BY DEF LaunchRecs
    <3> HIDE DEF rec
    <3>5. ChildBalance(rec)
      BY <1>0, <2>0, <2>1, <3>4 DEF LaunchRecs, Published, ChildBalance
    <3> QED
      BY <1>1, <2>0, <2>1, <3>1, <3>3, <3>4, <3>5
  <2>3. CASE ~ MayCall(l)
    <3> DEFINE rec == [r EXCEPT !.arm = r.arm + 1, !.failed = TRUE]
    <3>1. launch' = [launch EXCEPT ![l] = rec]
      BY <1>0, <1>6, <2>0, <2>3 DEF Reserve
    <3>3. rec \in LaunchRecs
      <4>1. r.arm + 1 \in 0 .. Arms
        BY <1>0, <2>1 DEF LaunchRecs
      <4> QED
        BY <4>1 DEF LaunchRecs
    <3>4. /\ rec.cell = r.cell /\ rec.phase = "running" /\ rec.arm = r.arm + 1
          /\ rec.reserved = r.reserved /\ rec.calls = r.calls /\ rec.failed
      BY <2>1 DEF LaunchRecs
    <3> HIDE DEF rec
    <3>5. ChildBalance(rec)
      BY <1>0, <2>0, <2>1, <3>4 DEF LaunchRecs, Published, ChildBalance
    <3> QED
      BY <1>1, <2>0, <2>1, <3>1, <3>3, <3>4, <3>5
  <2> QED
    BY <2>2, <2>3
\* The calls of the cell grow by one event.
<1>7. ASSUME NEW event \in Terminal \cup {"begin"}, NEW rec \in LaunchRecs,
             launch' = [launch EXCEPT ![l] = rec], rec.phase \in {"calling", "running"},
             rec.cell = launch[l].cell, launch[l].phase \notin Published, ChildBalance(rec), rec.calls # 0,
             Logged(l, event)
      PROVE  Accounted' /\ Allowed
  <2>1. PICK ev : ev = [id |-> launch'[l].calls, event |-> event, by |-> l]
    OBVIOUS
  <2>2. PICK d0 \in Cells : d0 = launch[l].cell
    BY <1>0
  <2>3. PICK r0 \in DiskRecs : r0 = disk[d0]
    BY <1>0
  <2>4. launch'[l].calls \in 1 .. Arms /\ l \in Int
    BY <1>0, <1>7 DEF LaunchRecs, Launches
  <2>5. ev \in Events
    BY <2>1, <2>4 DEF Events
  <2>6. PICK calls \in Seq(Events) : calls = Append(r0.calls, ev)
    <3>1. r0.calls \in Seq(Events)
      BY DEF DiskRecs
    <3>2. Append(r0.calls, ev) \in Seq(Events)
      BY <2>5, <3>1
    <3> QED
      BY <3>2
  <2>7. PICK r1 : r1 = [r0 EXCEPT !.calls = calls]
    OBVIOUS
  <2>8. r1 \in DiskRecs /\ r1.aside = r0.aside /\ r1.result = r0.result
    BY <2>6, <2>7 DEF DiskRecs
  <2>9. disk' = [disk EXCEPT ![d0] = r1]
    BY <1>7, <2>1, <2>2, <2>3, <2>6, <2>7 DEF Logged
  <2>10. /\ disk' \in [Cells -> DiskRecs]
         /\ \A d \in Cells : disk'[d].aside = disk[d].aside /\ disk'[d].result = disk[d].result
    BY <1>0, <2>3, <2>8, <2>9
  <2> QED
    BY <1>0, <1>7, <2>10, ChildKeeps DEF Published
<1>8. CASE BeginCall(l)
  <2>1. CASE launch[l].phase = "reserved" /\ launch' = [launch EXCEPT ![l].phase = "calling", ![l].calls = @ + 1]
    <3> DEFINE rec == [launch[l] EXCEPT !.phase = "calling", !.calls = @ + 1]
    <3>1. launch' = [launch EXCEPT ![l] = rec]
      BY <1>0, <2>1
    <3>2. rec.cell = launch[l].cell /\ rec.phase = "calling" /\ c \in Controlled
      BY <1>0, <2>1 DEF LaunchRecs, ChildBalance
    <3>3. launch[l].calls + 1 = launch[l].reserved
      BY <1>0, <2>1, <3>2 DEF ChildBalance
    <3>4. rec \in LaunchRecs
      BY <1>0, <3>3 DEF LaunchRecs, Phases
    <3>5. ChildBalance(rec) /\ rec.calls # 0
      BY <1>0, <3>2, <3>3, <2>1 DEF LaunchRecs, Published, ChildBalance
    <3> HIDE DEF rec
    <3> QED
      BY <1>7, <1>8, <2>1, <3>1, <3>2, <3>4, <3>5 DEF BeginCall, Published
  <2>2. CASE /\ launch[l].phase = "running" /\ ~ IsControlled(l) /\ launch[l].arm < Arms
             /\ launch' = [launch EXCEPT ![l].phase = "calling", ![l].calls = @ + 1, ![l].arm = @ + 1]
    <3> DEFINE rec == [launch[l] EXCEPT !.phase = "calling", !.calls = @ + 1, !.arm = @ + 1]
    <3>1. launch' = [launch EXCEPT ![l] = rec]
      BY <1>0, <2>2
    <3>2. rec.cell = launch[l].cell /\ rec.phase = "calling" /\ c \notin Controlled
      BY <1>0, <2>2 DEF LaunchRecs, IsControlled
    <3>3. launch[l].calls = launch[l].arm
      BY <1>0, <3>2 DEF ChildBalance
    <3>4. rec \in LaunchRecs
      BY <1>0, <2>2, <3>3 DEF LaunchRecs, Phases
    <3>5. ChildBalance(rec) /\ rec.calls # 0
      BY <1>0, <3>2, <3>3, <2>2 DEF LaunchRecs, Published, ChildBalance
    <3> HIDE DEF rec
    <3> QED
      BY <1>7, <1>8, <2>2, <3>1, <3>2, <3>4, <3>5 DEF BeginCall, Published
  <2> QED
    BY <1>8, <2>1, <2>2 DEF BeginCall
<1>9. ASSUME NEW event \in {"end", "fail"}, EndCall(l, event) PROVE Accounted' /\ Allowed
  <2> DEFINE rec == [launch[l] EXCEPT !.phase = "running", !.failed = @ \/ event = "fail"]
  <2>1. launch[l].phase = "calling" /\ Logged(l, event) /\ event \in Terminal \cup {"begin"}
    BY <1>9 DEF EndCall, Terminal
  <2>2. launch' = [launch EXCEPT ![l] = rec]
    BY <1>0, <1>9 DEF EndCall
  <2>3. rec.cell = launch[l].cell /\ rec.phase = "running"
    BY <1>0 DEF LaunchRecs
  <2>4. rec \in LaunchRecs
    BY <1>0 DEF LaunchRecs, Phases
  <2>5. ChildBalance(rec) /\ rec.calls # 0
    BY <1>0, <2>1 DEF LaunchRecs, Published, ChildBalance
  <2> HIDE DEF rec
  <2> QED
    BY <1>7, <2>1, <2>2, <2>3, <2>4, <2>5 DEF Published
<1>10. CASE PublishSummary(l)
  <2>1. launch[l].phase = "running" /\ c \in Controlled
    BY <1>10 DEF PublishSummary, IsControlled
  <2>2. CASE Refused(l) /\ disk' = disk
    <3>1. launch' = [launch EXCEPT ![l].phase = "closing", ![l].rc = 2]
      BY <2>2 DEF Refused
    <3>2. "closing" \in Published /\ 2 \in Int /\ 2 # 0
      BY DEF Published
    <3> QED
      BY <1>2, <2>1, <2>2, <3>1, <3>2
  <2>3. CASE Goes(l, "summarised") /\ disk' = [disk EXCEPT ![launch[l].cell].summary = l]
    <3> DEFINE rec == [launch[l] EXCEPT !.phase = "summarised"]
    <3>1. launch' = [launch EXCEPT ![l] = rec]
      BY <1>0, <2>3 DEF Goes
    <3>2. rec \in LaunchRecs /\ rec.cell = launch[l].cell /\ rec.phase = "summarised"
      BY <1>0 DEF LaunchRecs, Phases
    <3>3. ChildBalance(rec)
      BY <1>0, <2>1 DEF LaunchRecs, Published, ChildBalance
    <3>4. \A d \in Cells : disk'[d].aside = disk[d].aside /\ disk'[d].result = disk[d].result
      BY <1>0, <2>3 DEF DiskRecs
    <3>5. disk' \in [Cells -> DiskRecs]
      <4>1. [disk[launch[l].cell] EXCEPT !.summary = l] \in DiskRecs
        <5>1. l \in Int
          BY <1>0 DEF Launches
        <5> QED
          BY <1>0, <5>1 DEF DiskRecs
      <4> QED
        BY <1>0, <2>3, <4>1
    <3> HIDE DEF rec
    <3> QED
      BY <1>0, <2>1, <3>1, <3>2, <3>3, <3>4, <3>5, ChildKeeps
  <2> QED
    BY <1>10, <2>2, <2>3 DEF PublishSummary
<1>11. CASE PublishBegin(l)
  <2>1. /\ launch[l].phase = "summarised" \/ (launch[l].phase = "running" /\ c \notin Controlled)
        /\ disk' = disk
    BY <1>11 DEF PublishBegin, IsControlled
  <2>2. CASE HasResult(l)
    BY <1>2, <1>11, <2>1, <2>2 DEF PublishBegin, Refused, Published
  <2>3. CASE ~ HasResult(l)
    <3>1. Goes(l, "writing")
      BY <1>11, <2>3 DEF PublishBegin
    <3>2. ChildBalance([launch[l] EXCEPT !.phase = "writing"])
      BY <1>0, <2>1 DEF LaunchRecs, Published, ChildBalance
    <3> QED
      BY <1>3, <2>1, <3>1, <3>2 DEF Phases, Published
  <2> QED
    BY <2>2, <2>3
<1>12. ASSUME NEW good \in BOOLEAN, PublishEnd(l, good) PROVE Accounted' /\ Allowed
  <2>0. PICK r \in LaunchRecs : r = launch[l]
    BY <1>0
  <2>1. PICK n \in Int : n = (IF r.failed THEN 3 ELSE 0)
    OBVIOUS
  <2>2. PICK x : x = [by |-> l, good |-> good]
    OBVIOUS
  <2> DEFINE rec == [r EXCEPT !.phase = "closing", !.rc = n]
  <2>3. /\ launch[l].phase = "writing" /\ launch' = [launch EXCEPT ![l] = rec]
        /\ disk' = [disk EXCEPT ![launch[l].cell].result = x]
    BY <1>0, <1>12, <2>0, <2>1, <2>2 DEF PublishEnd
  <2>4. rec \in LaunchRecs
    BY <1>0 DEF LaunchRecs, Phases
  <2>5. /\ rec.cell = r.cell /\ rec.phase = "closing" /\ rec.arm = r.arm /\ rec.rc = n
        /\ rec.reserved = r.reserved /\ rec.calls = r.calls /\ rec.failed = r.failed
    BY DEF LaunchRecs
  <2> HIDE DEF rec
  <2>6. ChildBalance(rec)
    BY <1>0, <2>0, <2>1, <2>3, <2>5 DEF LaunchRecs, Published, ChildBalance
  <2>7. x \in Results /\ x.by = l
    BY <1>0, <2>2 DEF Results, Launches
  <2>8. \A d \in Cells : /\ disk'[d].aside = disk[d].aside
                         /\ disk'[d].result = disk[d].result \/ (d = launch[l].cell /\ disk'[d].result = x)
    BY <1>0, <2>3 DEF DiskRecs
  <2>9. disk' \in [Cells -> DiskRecs]
    <3>1. [disk[launch[l].cell] EXCEPT !.result = x] \in DiskRecs
      BY <1>0, <2>7 DEF DiskRecs
    <3> QED
      BY <1>0, <2>3, <3>1
  <2> QED
    BY <1>0, <2>0, <2>3, <2>4, <2>5, <2>6, <2>7, <2>8, <2>9, ChildKeeps
<1>13. CASE TaskFails(l)
  <2>1. /\ launch[l].phase \notin {"closing", "exited"} /\ disk' = disk
        /\ launch' = [launch EXCEPT ![l].phase = "closing", ![l].rc = 1]
    BY <1>13 DEF TaskFails
  <2>2. "closing" \in Published /\ 1 \in Int /\ 1 # 0
    BY DEF Published
  <2> QED
    BY <1>2, <2>1, <2>2
<1>14. CASE CloseLaunch(l)
  <2>0. PICK r \in LaunchRecs : r = launch[l]
    BY <1>0
  <2>1. PICK k \in {"none", "issued", "active", "closed"} :
          k = IF IsControlled(l) /\ AccountsMatch(l) THEN "closed" ELSE r.ledger
    BY DEF LaunchRecs
  <2>2. PICK n \in Int : n = IF IsControlled(l) /\ ~ AccountsMatch(l) THEN 2 ELSE r.rc
    BY DEF LaunchRecs
  <2> DEFINE rec == [r EXCEPT !.phase = "exited", !.ledger = k, !.rc = n]
  <2>3. launch[l].phase = "closing" /\ disk' = disk
    BY <1>14 DEF CloseLaunch
  <2>4. launch' = [launch EXCEPT ![l] = rec]
    BY <1>0, <1>14, <2>0, <2>1, <2>2 DEF CloseLaunch
  <2>5. rec \in LaunchRecs
    BY <1>0 DEF LaunchRecs, Phases
  <2>6. /\ rec.cell = r.cell /\ rec.phase = "exited" /\ rec.arm = r.arm /\ rec.rc = n
        /\ rec.reserved = r.reserved /\ rec.calls = r.calls /\ rec.failed = r.failed
    BY DEF LaunchRecs
  <2> HIDE DEF rec
  <2>7. n = 0 => r.rc = 0
    BY <2>2
  <2>8. ChildBalance(rec)
    BY <1>0, <2>0, <2>3, <2>6, <2>7 DEF LaunchRecs, Published, ChildBalance
  <2> QED
    BY <1>1, <2>0, <2>3, <2>4, <2>5, <2>6, <2>8
<1>15. CASE ChildDies(l)
  <2>1. /\ launch[l].phase # "exited" /\ disk' = disk
        /\ launch' = [launch EXCEPT ![l].phase = "exited", ![l].rc = Killed]
    BY <1>15 DEF ChildDies, Live
  <2>2. "exited" \in Published /\ Killed \in Int /\ Killed # 0
    BY DEF Published, Killed
  <2> QED
    BY <1>2, <2>1, <2>2
<1> QED
  BY <1>4, <1>5, <1>6, <1>8, <1>9, <1>10, <1>11, <1>12, <1>13, <1>14, <1>15 DEF ChildNext

-----------------------------------------------------------------------------
(* The suite.                                                              *)

\* The next launch is the first that was not issued.
LEMMA NextIsFresh ==
  ASSUME Typed, Issuing, NextLaunch =< LastLaunch
  PROVE  /\ NextLaunch \in Launches /\ launch[NextLaunch].phase = "none"
         /\ Issued = 1 .. (NextLaunch - 1)
<1>1. PICK n \in 0 .. LastLaunch : Issued = 1 .. n
  BY DEF Issuing
<1>2. n \in Nat /\ LastLaunch \in Nat
  BY LedgerAssumption
<1>3. Cardinality(1 .. n) = n
  BY <1>2, FS_Interval
<1>4. NextLaunch = n + 1
  BY <1>1, <1>3 DEF NextLaunch
<1>5. n + 1 \in Launches /\ n + 1 \notin Issued
  BY <1>1, <1>2, <1>4 DEF Launches
<1> QED
  BY <1>1, <1>2, <1>4, <1>5, IssuedAre

LEMMA Launching ==
  ASSUME Accounted, NEW c \in Cells, LaunchCell(c), UNCHANGED <<doc, faults>>,
         suite.command # "none", suite.command = "resume" => c \in suite.todo
  PROVE  Accounted' /\ Allowed
<1>0. Typed /\ Issuing /\ Balanced /\ Recorded /\ AtWork /\ Commanded
  BY DEF Accounted
<1>1. PICK k \in Launches : k = NextLaunch /\ launch[k].phase = "none" /\ Issued = 1 .. (k - 1)
  BY <1>0, NextIsFresh DEF LaunchCell, StartChild
<1>a. PICK state \in {"none", "issued", "active", "closed"} :
        state = IF c \in Controlled THEN "issued" ELSE "none"
  OBVIOUS
<1> DEFINE rec == [Unissued EXCEPT !.cell = c, !.phase = "start", !.ledger = state]
<1>2. /\ launch' = [launch EXCEPT ![k] = rec]
      /\ suite' = [suite EXCEPT !.step = "wait", !.launch = k]
  BY <1>1, <1>a DEF LaunchCell, StartChild
<1>3. /\ rec.cell = c /\ rec.phase = "start" /\ rec.reserved = 0 /\ rec.arm = 0
      /\ rec.calls = 0 /\ rec.failed = FALSE /\ rec.rc = 0
  BY DEF Unissued
<1>4. rec \in LaunchRecs
  <2>1. 0 \in 0 .. Arms
    BY LedgerAssumption
  <2>2. Unissued \in LaunchRecs
    <3>1. 0 \in Cells \cup {0} /\ "none" \in Phases /\ 0 \in Int
      BY DEF Phases
    <3> QED
      BY <2>1, <3>1 DEF Unissued, LaunchRecs
  <2>3. \A u \in LaunchRecs :
          [u EXCEPT !.cell = c, !.phase = "start", !.ledger = state] \in LaunchRecs
    BY DEF LaunchRecs, Phases
  <2> QED
    BY <2>2, <2>3
<1> HIDE DEF rec
<1>5. PICK moved : moved = MovedAside(c)
  OBVIOUS
<1>6. disk[c].aside \subseteq moved /\ (disk[c].result \in moved \/ disk[c].result = NoFile) /\ moved \in SUBSET Results
  BY <1>0, <1>5 DEF MovedAside, Typed, DiskRecs
<1>7. PICK dr : dr = [result |-> NoFile, summary |-> disk[c].summary, calls |-> <<>>, aside |-> moved]
  OBVIOUS
<1>8. disk' = [disk EXCEPT ![c] = dr]
  BY <1>5, <1>7 DEF LaunchCell, StartChild
<1>9. dr \in DiskRecs /\ dr.result = NoFile /\ dr.aside = moved
  <2>1. NoFile \in Results /\ disk[c].summary \in Int /\ <<>> \in Seq(Events)
    BY <1>0 DEF Typed, DiskRecs, NoFile, Results
  <2> QED
    BY <1>6, <1>7, <2>1 DEF DiskRecs
<1>10. /\ launch'[k] = rec /\ \A m \in Launches : m # k => launch'[m] = launch[m]
       /\ disk'[c] = dr /\ \A d \in Cells : d # c => disk'[d] = disk[d]
  BY <1>0, <1>2, <1>8 DEF Typed
<1>11. /\ suite'.launch = k /\ suite'.step = "wait" /\ suite'.command = suite.command
       /\ suite'.records = suite.records /\ suite'.todo = suite.todo
  BY <1>0, <1>2 DEF Typed, SuiteRecs
<1>12. Typed'
  <2>1. suite' \in SuiteRecs
    <3>1. k \in 0 .. LastLaunch /\ "wait" \in {"none", "next", "wait", "judge", "end"}
      BY DEF Launches
    <3>2. PICK s \in SuiteRecs : s = suite
      BY <1>0 DEF Typed
    <3>3. [s EXCEPT !.step = "wait", !.launch = k] \in SuiteRecs
      BY <3>1 DEF SuiteRecs
    <3> QED
      BY <1>2, <3>2, <3>3
  <2> QED
    BY <1>0, <1>2, <1>4, <1>8, <1>9, <2>1 DEF Typed
<1>13. Issued' = 1 .. k
  <2>1. \A m \in Launches : launch'[m].phase # "none" <=> m \in Issued \/ m = k
    BY <1>3, <1>10, IssuedAre
  <2>2. \A m : m \in Issued' <=> m \in Launches /\ launch'[m].phase # "none"
    BY DEF Issued, Launches
  <2>3. k \in Nat /\ k =< LastLaunch /\ LastLaunch \in Nat
    BY LedgerAssumption DEF Launches
  <2>4. \A m \in Int : m \in 1 .. k <=> m \in 1 .. (k - 1) \/ m = k
    BY <2>3, k >= 1 DEF Launches
  <2>5. \A m \in 1 .. k : m \in Launches
    BY <2>3 DEF Launches
  <2>6. \A m : m \in Launches \/ m \in 1 .. k => m \in Int
    BY DEF Launches
  <2>7. \A m : m \in Issued' <=> m \in 1 .. k
    BY <1>1, <2>1, <2>2, <2>4, <2>5, <2>6
  <2> QED
    BY <2>7
<1>14. Issuing'
  BY <1>13 DEF Issuing, Launches
<1>15. ChildBalance(rec)
  BY <1>3 DEF ChildBalance, Published
<1>16. Balanced'
  BY <1>0, <1>10, <1>15 DEF Balanced
<1>17. \A m \in Launches : launch[m].phase \in Published =>
         /\ launch'[m].cell = launch[m].cell /\ launch'[m].phase \in Published
         /\ launch[m].phase = "exited" => launch'[m] = launch[m]
  BY <1>1, <1>10 DEF Published
<1>18. Recorded'
  <2> SUFFICES ASSUME NEW d \in Cells
               PROVE  /\ Placed(disk[d].result, d)' \/ disk'[d].result = Edited
                      /\ Truthful(doc.records[d], d)' /\ Truthful(suite.records[d], d)'
    BY DEF Recorded, Edited
  <2>1. /\ Truthful(doc.records[d], d) /\ Truthful(suite.records[d], d)
        /\ Placed(disk[d].result, d) \/ disk[d].result = Edited
    BY <1>0 DEF Recorded
  <2>2. Truthful(doc.records[d], d)'
    <3>1. PICK r : r = doc.records[d]
      OBVIOUS
    <3>2. Truthful(r, d)'
      BY <1>17, <2>1, <3>1, TruthStays
    <3> QED
      BY <3>1, <3>2 DEF Truthful, Placed, By
  <2>3. Truthful(suite.records[d], d)'
    <3>1. PICK r : r = suite.records[d]
      OBVIOUS
    <3>2. Truthful(r, d)'
      BY <1>17, <2>1, <3>1, TruthStays
    <3> QED
      BY <1>11, <3>1, <3>2 DEF Truthful, Placed, By
  <2>4. Placed(disk[d].result, d)' \/ disk'[d].result = Edited
    BY <1>9, <1>10, <1>17, <2>1 DEF Placed, By
  <2> QED
    BY <2>2, <2>3, <2>4
<1>19. AtWork'
  <2>1. k # 0
    BY DEF Launches
  <2> QED
    BY <1>3, <1>9, <1>10, <1>11, <2>1 DEF AtWork, Placed
<1>20. Commanded'
  <2>1. suite' # Off
    BY <1>11 DEF Off
  <2>2. ASSUME suite.command = "resume", NEW d \in suite.todo PROVE ~ Verified(d, doc.records[d])'
    <3>1. d \in Cells /\ ~ Verified(d, doc.records[d]) /\ Truthful(doc.records[d], d)
      BY <1>0, <2>2 DEF Commanded, Typed, SuiteRecs, Recorded
    <3> QED
      BY <1>9, <1>10, <3>1 DEF Verified, Truthful
  <2> QED
    BY <1>0, <1>11, <2>1, <2>2 DEF Commanded
<1>21. EvidenceStays
  BY <1>6, <1>9, <1>10 DEF EvidenceStays, Leaves
<1>22. VerifiedIsNotRepeated
  BY <1>0, <1>1, <1>3, <1>10 DEF VerifiedIsNotRepeated, Commanded
<1>23. SmokeVerdictIsFinal
  BY <1>0 DEF SmokeVerdictIsFinal, Commanded, Typed, SuiteRecs
<1> QED
  BY <1>12, <1>14, <1>16, <1>18, <1>19, <1>20, <1>21, <1>22, <1>23 DEF Accounted, Allowed

\* A step that only changes what run.json or the suite says.
LEMMA Booked ==
  ASSUME Accounted, UNCHANGED <<disk, launch>>, doc' \in Docs, suite' \in SuiteRecs, faults' \in Nat,
         \A c \in Cells : Truthful(doc'.records[c], c) /\ Truthful(suite'.records[c], c),
         suite'.launch = 0, suite'.step \notin {"wait", "judge"}, Commanded',
         doc.status = "SMOKE_FAILED" => doc' = doc
  PROVE  Accounted' /\ Allowed
<1>1. Typed' /\ Issuing' /\ Balanced'
  BY DEF Accounted, Typed, Issuing, Issued, Balanced
<1>2. Recorded'
  <2> SUFFICES ASSUME NEW c \in Cells
               PROVE  /\ Placed(disk[c].result, c)' \/ disk'[c].result = Edited
                      /\ Truthful(doc.records[c], c)' /\ Truthful(suite.records[c], c)'
    BY DEF Recorded, Edited
  <2>1. Placed(disk[c].result, c) \/ disk[c].result = Edited
    BY DEF Accounted, Recorded
  <2> QED
    BY <2>1 DEF Truthful, Placed, By
<1>3. AtWork'
  BY DEF AtWork
<1>4. EvidenceStays /\ VerifiedIsNotRepeated /\ SmokeVerdictIsFinal
  BY DEF EvidenceStays, Leaves, VerifiedIsNotRepeated, SmokeVerdictIsFinal, Issued
<1> QED
  BY <1>1, <1>2, <1>3, <1>4 DEF Accounted, Allowed

LEMMA OffIs ==
  /\ Off \in SuiteRecs /\ Off.command = "none" /\ Off.step = "none" /\ Off.launch = 0
  /\ Off.status = "ok" /\ Off.smoke = "none"
  /\ \A c \in Cells : Truthful(Off.records[c], c)
<1>1. NoRecord \in CellRecords /\ \A c : Truthful(NoRecord, c)
  <2>1. NoFile \in Results /\ 0 \in 0 .. Arms /\ 0 \in 0 .. LastLaunch
    BY LedgerAssumption DEF NoFile, Results
  <2> QED
    BY <2>1 DEF NoRecord, CellRecords, CellStatuses, Truthful, Placed
<1>2. [c \in Cells |-> NoRecord] \in [Cells -> CellRecords]
  BY <1>1
<1>3. 0 \in 0 .. LastLaunch
  BY LedgerAssumption
<1> QED
  BY <1>1, <1>2, <1>3 DEF Off, SuiteRecs, RunStatuses, Smokes

\* The suite stops, or is killed.
LEMMA SuiteStops ==
  ASSUME Accounted, UNCHANGED <<disk, launch>>, doc' \in Docs, suite' = Off, faults' \in Nat,
         \A c \in Cells : Truthful(doc'.records[c], c),
         doc'.made = doc.made, doc'.written => doc.made, doc.made \/ doc'.status = doc.status,
         doc.status = "SMOKE_FAILED" => doc' = doc
  PROVE  Accounted' /\ Allowed
<1>1. Commanded'
  BY OffIs DEF Accounted, Commanded
<1> QED
  BY <1>1, OffIs, Booked

\* The suite goes on, with the records it had or with more of them.
LEMMA SuiteGoesOn ==
  ASSUME Accounted, UNCHANGED <<disk, launch, faults>>, doc' \in Docs, suite' \in SuiteRecs,
         \A c \in Cells : Truthful(doc'.records[c], c) /\ Truthful(suite'.records[c], c),
         suite'.launch = 0, suite'.step \in {"next", "end"}, suite'.command \in {"run", "resume"},
         suite'.command = "run" => doc'.status = "INCOMPLETE" /\ doc'.made /\ doc.status = "INCOMPLETE",
         suite'.command = "resume" =>
           /\ doc' = doc /\ doc.made /\ doc.status # "SMOKE_FAILED"
           /\ \A c \in suite'.todo : ~ Verified(c, doc.records[c])
  PROVE  Accounted' /\ Allowed
<1>1. suite' # Off
  BY OffIs
<1>2. Commanded'
  <2>1. suite'.command = "resume" => \A c \in suite'.todo : ~ Verified(c, doc.records[c])'
    BY DEF Verified
  <2>2. ~ doc'.made => doc'.status = "INCOMPLETE"
    BY DEF Accounted, Commanded
  <2>3. doc'.written => doc'.made
    BY DEF Accounted, Commanded
  <2>4. suite'.command # "none"
    OBVIOUS
  <2> QED
    BY <1>1, <2>1, <2>2, <2>3, <2>4 DEF Commanded
<1>3. faults' \in Nat
  BY DEF Accounted, Typed
<1>4. doc.status = "SMOKE_FAILED" => doc' = doc
  OBVIOUS
<1> QED
  BY <1>2, <1>3, <1>4, Booked

LEMMA Begin ==
  ASSUME Accounted, (\E caller \in Callers : RunBegin(caller)) \/ AppendBegin \/ ResumeBegin
  PROVE  Accounted' /\ Allowed
<1>0. /\ Typed /\ Recorded /\ Commanded /\ doc \in Docs /\ UNCHANGED <<disk, launch, faults>>
      /\ \A c \in Cells : Truthful(doc.records[c], c) /\ doc.records[c] \in CellRecords
      /\ doc.records \in [Cells -> CellRecords]
  BY Fields DEF Accounted, Recorded, RunBegin, AppendBegin, ResumeBegin, Typed, Docs
<1>1. PICK off \in SuiteRecs :
        off = Off /\ \A c \in Cells : Truthful(off.records[c], c)
  BY OffIs
<1>f. off.launch = 0 /\ off.status = "ok" /\ off.smoke = "none"
  BY <1>1, OffIs
<1>2. ASSUME NEW caller \in Callers, RunBegin(caller) PROVE Accounted' /\ Allowed
  <2>1. ~ doc.made /\ doc.status = "INCOMPLETE" /\ UNCHANGED faults
    BY <1>0, <1>2 DEF RunBegin, Commanded
  <2>2. doc' = [doc EXCEPT !.made = TRUE]
    BY <1>2 DEF RunBegin
  <2>3. /\ doc' \in Docs /\ doc'.status = "INCOMPLETE" /\ doc'.made /\ doc'.records = doc.records
    BY <1>0, <2>1, <2>2 DEF Docs
  <2>4. /\ caller.todo \in SUBSET Cells /\ caller.gated \in BOOLEAN /\ caller.stop \in BOOLEAN
    <3>1. /\ caller.todo = Cells \/ caller.todo = Pilot
          /\ caller.gated \in BOOLEAN /\ caller.stop \in BOOLEAN
      <4>1. PICK todo \in {Cells, Pilot}, gated \in BOOLEAN, stop \in BOOLEAN :
              caller = [todo |-> todo, gated |-> gated, stop |-> stop]
        BY <1>2, Zenon DEF Callers
      <4> QED
        BY <4>1
    <3>2. \A c \in Pilot : c \in Cells
      BY LedgerAssumption DEF Pilot
    <3> QED
      BY <3>1, <3>2
  <2>5. suite' = [off EXCEPT !.command = "run", !.step = "next", !.todo = caller.todo,
                             !.gated = caller.gated, !.stop = caller.stop]
    BY <1>1, <1>2 DEF RunBegin
  <2>6. /\ suite' \in SuiteRecs /\ suite'.command = "run" /\ suite'.step = "next"
        /\ suite'.launch = off.launch /\ suite'.records = off.records
    BY <2>4, <2>5 DEF SuiteRecs
  <2> QED
    BY <1>0, <1>1, <1>f, <2>1, <2>3, <2>6, SuiteGoesOn
<1>3. CASE AppendBegin
  <2>1. doc.made /\ doc.status = "INCOMPLETE" /\ doc' = doc
    BY <1>0, <1>3 DEF AppendBegin, MayAppend, Commanded
  <2>2. PICK todo \in SUBSET Cells : todo = Cells \ Executed(doc.records)
    OBVIOUS
  <2>3. suite' = [off EXCEPT !.command = "run", !.step = "next", !.todo = todo,
                             !.smoke = doc.smoke, !.records = doc.records]
    BY <1>1, <1>3, <2>2 DEF AppendBegin
  <2>4. doc.smoke \in Smokes
    BY <1>0 DEF Docs
  <2>5. /\ suite' \in SuiteRecs /\ suite'.command = "run" /\ suite'.step = "next"
        /\ suite'.launch = off.launch /\ suite'.records = doc.records
    BY <1>0, <2>3, <2>4 DEF SuiteRecs
  <2> QED
    BY <1>0, <1>f, <2>1, <2>5, SuiteGoesOn
<1>4. CASE ResumeBegin
  <2>1. doc.made /\ doc.status # "SMOKE_FAILED" /\ doc' = doc
    BY <1>0, <1>4 DEF ResumeBegin, MayResume, Commanded
  <2>2. PICK records : records = Revalidated(doc.records)
    OBVIOUS
  <2>3. ASSUME NEW c \in Cells
        PROVE  /\ records[c] \in CellRecords /\ Truthful(records[c], c)
               /\ records[c].status # "ok" => ~ Verified(c, doc.records[c])
    <3>1. PICK r \in CellRecords : r = doc.records[c]
      BY <1>0
    <3>2. [r EXCEPT !.status = "invalidated"] \in CellRecords
      BY DEF CellRecords, CellStatuses
    <3>3. [r EXCEPT !.status = "invalidated"].result = r.result
          /\ [r EXCEPT !.status = "invalidated"].status = "invalidated"
      BY DEF CellRecords
    <3>4. PICK i : i = [r EXCEPT !.status = "invalidated"]
      OBVIOUS
    <3>5. records[c] = IF r.status = "ok" /\ ~ Verified(c, r) THEN i ELSE r
      BY <2>2, <3>1, <3>4 DEF Revalidated
    <3>6. Truthful(r, c)
      BY <1>0, <3>1
    <3>7. Truthful(i, c)
      BY <3>3, <3>4, <3>6 DEF Truthful
    <3> QED
      BY <3>1, <3>2, <3>3, <3>4, <3>5, <3>6, <3>7 DEF Verified
  <2>4. records \in [Cells -> CellRecords]
    <3>1. records = [c \in Cells |-> records[c]]
      BY <2>2 DEF Revalidated
    <3> QED
      BY <2>3, <3>1
  <2>5. PICK todo \in SUBSET Cells : todo = NotOk(records)
    BY DEF NotOk
  <2>6. suite' = [off EXCEPT !.command = "resume", !.step = "next", !.todo = todo,
                             !.status = doc.status, !.smoke = doc.smoke, !.records = records]
    BY <1>1, <1>4, <2>2, <2>5 DEF ResumeBegin
  <2>7. doc.smoke \in Smokes /\ doc.status \in RunStatuses
    BY <1>0 DEF Docs
  <2>8. /\ suite' \in SuiteRecs /\ suite'.command = "resume" /\ suite'.step = "next"
        /\ suite'.launch = off.launch /\ suite'.records = records /\ suite'.todo = todo
    BY <2>4, <2>6, <2>7 DEF SuiteRecs
  <2>9. \A c \in todo : ~ Verified(c, doc.records[c])
    BY <2>3, <2>5 DEF NotOk
  <2> QED
    BY <1>0, <1>f, <2>1, <2>3, <2>8, <2>9, SuiteGoesOn
<1> QED
  BY <1>2, <1>3, <1>4

LEMMA Going ==
  ASSUME Accounted, RunNext \/ ResumeNext
  PROVE  Accounted' /\ Allowed
<1>0. /\ Typed /\ Recorded /\ Commanded /\ AtWork /\ doc \in Docs /\ suite \in SuiteRecs /\ doc' = doc
      /\ \A c \in Cells : Truthful(doc.records[c], c) /\ Truthful(suite.records[c], c)
      /\ suite.step = "next" /\ suite.launch = 0 /\ suite.command \in {"run", "resume"}
      /\ suite.command = "run" => doc.made /\ doc.status = "INCOMPLETE"
      /\ suite.command = "resume" => /\ doc.status # "SMOKE_FAILED" /\ doc.made
                                     /\ \A c \in suite.todo : ~ Verified(c, doc.records[c])
      /\ suite.todo \in SUBSET Cells
  BY DEF Accounted, Recorded, RunNext, ResumeNext, Typed, AtWork, Commanded, SuiteRecs
<1>1. ASSUME NEW c \in suite.todo, LaunchCell(c), faults' = faults PROVE Accounted' /\ Allowed
  <2>1. c \in Cells /\ suite.command # "none" /\ UNCHANGED <<doc, faults>>
    BY <1>0, <1>1
  <2> QED
    BY <1>1, <2>1, Launching
<1>2. ASSUME NEW status \in RunStatuses, suite' = [suite EXCEPT !.step = "end", !.status = status],
             UNCHANGED <<disk, launch, faults>>
      PROVE  Accounted' /\ Allowed
  <2>1. PICK s \in SuiteRecs : s = suite
    BY <1>0
  <2>2. PICK t \in SuiteRecs : t = [s EXCEPT !.step = "end", !.status = status]
    <3>1. [s EXCEPT !.step = "end", !.status = status] \in SuiteRecs
      BY DEF SuiteRecs
    <3> QED
      BY <3>1
  <2>3. t.step = "end" /\ t.launch = s.launch /\ t.records = s.records /\ t.todo = s.todo /\ t.command = s.command
    BY <2>2 DEF SuiteRecs
  <2>4. suite' = t
    BY <1>2, <2>1, <2>2
  <2> QED
    BY <1>0, <1>2, <2>1, <2>3, <2>4, SuiteGoesOn
<1>3. suite.status \in RunStatuses /\ "BUDGET_EXCEEDED" \in RunStatuses
  BY <1>0 DEF SuiteRecs, RunStatuses
<1>4. ASSUME suite' = [suite EXCEPT !.step = "end"]
      PROVE  suite' = [suite EXCEPT !.step = "end", !.status = suite.status]
  BY <1>0, <1>4 DEF SuiteRecs
<1>5. faults' = faults
  BY DEF RunNext, ResumeNext
<1>6. CASE RunNext
  <2>1. CASE \E c \in Left : IsFirst(c, Left) /\ LaunchCell(c)
    BY <1>1, <1>5, <2>1 DEF Left
  <2>2. CASE suite' = [suite EXCEPT !.step = "end", !.status = "BUDGET_EXCEEDED"] /\ UNCHANGED <<disk, launch>>
    BY <1>2, <1>3, <1>5, <2>2
  <2>3. CASE suite' = [suite EXCEPT !.step = "end"] /\ UNCHANGED <<disk, launch>>
    BY <1>2, <1>3, <1>4, <1>5, <2>3
  <2> QED
    BY <1>6, <2>1, <2>2, <2>3 DEF RunNext
<1>7. CASE ResumeNext
  <2>1. CASE \E c \in suite.todo : IsFirst(c, suite.todo) /\ LaunchCell(c)
    BY <1>1, <1>5, <2>1
  <2>2. CASE suite' = [suite EXCEPT !.step = "end", !.status = "BUDGET_EXCEEDED"] /\ UNCHANGED <<disk, launch>>
    BY <1>2, <1>3, <1>5, <2>2
  <2>3. CASE suite' = [suite EXCEPT !.step = "end"] /\ UNCHANGED <<disk, launch>>
    BY <1>2, <1>3, <1>4, <1>5, <2>3
  <2> QED
    BY <1>7, <2>1, <2>2, <2>3 DEF ResumeNext
<1> QED
  BY <1>6, <1>7

\* The record of a cell says what its launch did and left.
LEMMA TrueRecord ==
  ASSUME Accounted, suite.step = "judge"
  PROVE  /\ launch[suite.launch].cell \in Cells
         /\ RecordOf(suite.launch) \in CellRecords
         /\ Truthful(RecordOf(suite.launch), launch[suite.launch].cell)
<1>1. PICK l \in Launches : l = suite.launch
  BY DEF Accounted, Typed, AtWork, SuiteRecs, Launches
<1>2. PICK c : c = launch[l].cell
  OBVIOUS
<1>3. /\ c \in Cells /\ launch[l].phase = "exited" /\ Placed(disk[c].result, c)
      /\ suite.started \in 0 .. Arms /\ launch[l] \in LaunchRecs /\ disk[c] \in DiskRecs
      /\ ChildBalance(launch[l])
  BY <1>1, <1>2, Fields DEF Accounted, AtWork, Balanced, Launches
<1>4. PICK r : r = RecordOf(l)
  OBVIOUS
<1>5. r.result = disk[c].result /\ r.launch = l /\ r.started = suite.started /\ r.status = Verdict(l)
  BY <1>2, <1>4 DEF RecordOf
<1>6. Verdict(l) \in {"ok", "timeout", "error", "predicate_failed"}
  BY DEF Verdict
<1>7. Verdict(l) = "ok" => /\ launch[l].rc = 0 /\ Intact(l, suite.started)
                           /\ disk[c].result # NoFile /\ disk[c].result.good
  BY <1>2, <1>3 DEF Verdict, DiskRecs, Results
<1>8. r \in CellRecords
  <2>1. disk[c].result \in Results /\ l \in 0 .. LastLaunch
    BY <1>3 DEF DiskRecs, Launches
  <2>2. Verdict(l) \in CellStatuses
    BY <1>6 DEF CellStatuses
  <2> QED
    BY <1>2, <1>3, <1>4, <2>1, <2>2 DEF RecordOf, CellRecords
<1>9. Truthful(r, c)
  <2>1. Verdict(l) = "ok" /\ c \in Controlled =>
          launch[l].ledger = "closed" /\ launch[l].calls = suite.started /\ launch[l].reserved = suite.started
    BY <1>2, <1>3, <1>7 DEF Intact, IsControlled, ChildBalance, Published
  <2> QED
    BY <1>3, <1>5, <1>7, <2>1 DEF Truthful
<1> QED
  BY <1>1, <1>2, <1>3, <1>4, <1>8, <1>9

LEMMA Recording ==
  ASSUME Accounted, RunRecord \/ ResumeRecord
  PROVE  Accounted' /\ Allowed
<1>0. /\ Typed /\ Recorded /\ Commanded /\ doc \in Docs /\ suite \in SuiteRecs
      /\ \A d \in Cells : Truthful(doc.records[d], d) /\ Truthful(suite.records[d], d)
      /\ suite.step = "judge" /\ UNCHANGED <<disk, launch, faults>>
      /\ suite.records \in [Cells -> CellRecords]
  BY DEF Accounted, Recorded, RunRecord, ResumeRecord, Typed, SuiteRecs
<1>1. PICK c \in Cells : c = launch[suite.launch].cell
  BY <1>0, TrueRecord
<1>2. PICK r \in CellRecords : r = RecordOf(suite.launch) /\ Truthful(r, c)
  BY <1>0, <1>1, TrueRecord
<1>3. PICK records \in [Cells -> CellRecords] : records = [suite.records EXCEPT ![c] = r]
  BY <1>0
<1>4. \A d \in Cells : Truthful(records[d], d)
  BY <1>0, <1>2, <1>3
<1>5. PICK s \in SuiteRecs : s = suite
  BY <1>0
<1>6. CASE RunRecord
  <2>1. suite.command = "run" /\ doc.made /\ doc.status = "INCOMPLETE"
    BY <1>0, <1>6 DEF RunRecord, Commanded
  <2>2. PICK smoke \in Smokes, status \in RunStatuses, step \in {"next", "end"} :
          /\ doc' = [doc EXCEPT !.written = TRUE, !.records = records, !.smoke = smoke]
          /\ suite' = [suite EXCEPT !.records = records, !.smoke = smoke, !.status = status,
                                    !.launch = 0, !.step = step]
    <3>1. PICK smoke \in SmokeOutcomes(r) :
            LET status == CASE smoke = "failed" -> "SMOKE_FAILED"
                            [] smoke # "failed" /\ suite.stop /\ r.status # "ok" -> "FAILED_CELLS"
                            [] OTHER -> suite.status
            IN  /\ doc' = [doc EXCEPT !.written = TRUE, !.records = records, !.smoke = smoke]
                /\ suite' = [suite EXCEPT !.records = records, !.smoke = smoke, !.status = status,
                               !.launch = 0, !.step = IF status = suite.status THEN "next" ELSE "end"]
      BY <1>1, <1>2, <1>3, <1>6 DEF RunRecord
    <3>2. smoke \in Smokes
      BY <1>0, <3>1 DEF SmokeOutcomes, SuiteRecs, Smokes
    <3>3. PICK status : status = CASE smoke = "failed" -> "SMOKE_FAILED"
                                   [] smoke # "failed" /\ suite.stop /\ r.status # "ok" -> "FAILED_CELLS"
                                   [] OTHER -> suite.status
      OBVIOUS
    <3>4. status \in RunStatuses
      BY <1>0, <3>3 DEF SuiteRecs, RunStatuses
    <3>5. PICK step \in {"next", "end"} : step = IF status = suite.status THEN "next" ELSE "end"
      OBVIOUS
    <3> QED
      BY <3>1, <3>2, <3>3, <3>4, <3>5
  <2>3. /\ doc' \in Docs /\ doc'.status = doc.status /\ doc'.made = doc.made /\ doc'.records = records
    BY <1>0, <2>2 DEF Docs
  <2>4. 0 \in 0 .. LastLaunch
    BY LedgerAssumption
  <2>5. PICK t : t = [s EXCEPT !.records = records, !.smoke = smoke, !.status = status,
                               !.launch = 0, !.step = step]
    OBVIOUS
  <2>6. /\ t \in SuiteRecs /\ t.command = s.command /\ t.step = step
        /\ t.launch = 0 /\ t.records = records
    BY <2>4, <2>5 DEF SuiteRecs
  <2>7. suite' = t
    BY <1>5, <2>2, <2>5
  <2> QED
    BY <1>0, <1>4, <1>5, <2>1, <2>3, <2>6, <2>7, SuiteGoesOn
<1>7. CASE ResumeRecord
  <2>1. /\ suite.command = "resume" /\ doc' = doc
        /\ suite' = [suite EXCEPT !.records = records, !.todo = suite.todo \ {c},
                                  !.launch = 0, !.step = "next"]
    BY <1>0, <1>1, <1>2, <1>3, <1>7 DEF ResumeRecord, SuiteRecs
  <2>2. /\ doc.made /\ doc.status # "SMOKE_FAILED"
        /\ \A d \in suite.todo : ~ Verified(d, doc.records[d])
    BY <1>0, <2>1 DEF Commanded
  <2>3. PICK todo \in SUBSET Cells : todo = suite.todo \ {c}
    BY <1>0 DEF SuiteRecs
  <2>4. 0 \in 0 .. LastLaunch
    BY LedgerAssumption
  <2>5. PICK t : t = [s EXCEPT !.records = records, !.todo = todo, !.launch = 0, !.step = "next"]
    OBVIOUS
  <2>6. /\ t \in SuiteRecs /\ t.command = s.command /\ t.step = "next"
        /\ t.launch = 0 /\ t.records = records /\ t.todo = todo
    BY <2>4, <2>5 DEF SuiteRecs
  <2>7. suite' = t
    BY <1>5, <2>1, <2>3, <2>5
  <2> QED
    BY <1>0, <1>4, <1>5, <2>1, <2>2, <2>3, <2>6, <2>7, SuiteGoesOn
<1> QED
  BY <1>6, <1>7

LEMMA Ending ==
  ASSUME Accounted, RunEnd \/ ResumeEnd \/ SuiteDies
  PROVE  Accounted' /\ Allowed
<1>0. /\ Typed /\ Recorded /\ Commanded /\ doc \in Docs /\ suite \in SuiteRecs
      /\ \A c \in Cells : Truthful(doc.records[c], c) /\ Truthful(suite.records[c], c)
      /\ suite.records \in [Cells -> CellRecords] /\ suite.smoke \in Smokes /\ faults \in Nat
      /\ UNCHANGED <<disk, launch>> /\ suite' = Off /\ faults' \in Nat
  BY DEF Accounted, Recorded, RunEnd, ResumeEnd, SuiteDies, Typed, SuiteRecs
<1>1. CASE RunEnd
  <2>1. doc.made /\ doc.status = "INCOMPLETE"
    BY <1>0, <1>1 DEF RunEnd, Commanded
  <2>2. RunStatus \in RunStatuses
    BY DEF RunStatus, RunStatuses
  <2>3. /\ doc' \in Docs /\ doc'.made = doc.made /\ doc'.records = suite.records
    BY <1>0, <1>1, <2>2 DEF RunEnd, Docs
  <2> QED
    BY <1>0, <2>1, <2>3, SuiteStops
<1>2. CASE ResumeEnd
  <2>1. doc.made /\ doc.status # "SMOKE_FAILED"
    BY <1>0, <1>2 DEF ResumeEnd, Commanded
  <2>2. PICK status \in RunStatuses : status =
          IF NotOk(suite.records) # {} THEN "FAILED_CELLS"
          ELSE IF suite.status = "BUDGET_EXCEEDED" THEN suite.status ELSE "ok"
    BY DEF RunStatuses
  <2>3. doc' = [doc EXCEPT !.records = suite.records, !.status = status]
    BY <1>2, <2>2 DEF ResumeEnd
  <2>4. /\ doc' \in Docs /\ doc'.made = doc.made /\ doc'.records = suite.records
    BY <1>0, <2>3 DEF Docs
  <2> QED
    BY <1>0, <2>1, <2>4, SuiteStops
<1>3. CASE SuiteDies
  <2>1. doc' = doc /\ (doc.written => doc.made)
    BY <1>0, <1>3 DEF SuiteDies, Commanded
  <2> QED
    BY <1>0, <2>1, SuiteStops
<1> QED
  BY <1>1, <1>2, <1>3

\* The suite ends its own child.
LEMMA Waiting ==
  ASSUME Accounted, CellTimesOut
  PROVE  Accounted' /\ Allowed
<1>1. PICK l \in Launches : l = suite.launch
  BY DEF Accounted, Typed, AtWork, CellTimesOut, SuiteRecs, Launches
<1>2. PICK r \in LaunchRecs : r = launch[l]
  BY Fields DEF Accounted
<1>3. /\ r.phase \notin {"none", "exited"} /\ UNCHANGED <<disk, doc, suite, faults>>
      /\ launch' = [launch EXCEPT ![l].phase = "exited", ![l].rc = TimedOut]
  BY <1>1, <1>2 DEF CellTimesOut, Live
<1> DEFINE rec == [r EXCEPT !.phase = "exited", !.rc = TimedOut]
<1>4. launch' = [launch EXCEPT ![l] = rec]
  BY <1>2, <1>3 DEF Accounted, Typed
<1>t. TimedOut \in Int /\ TimedOut # 0
  BY DEF TimedOut
<1>5. rec \in LaunchRecs
  BY <1>t DEF LaunchRecs, Phases
<1>6. /\ rec.cell = r.cell /\ rec.phase = "exited" /\ rec.rc # 0 /\ rec.arm = r.arm
      /\ rec.reserved = r.reserved /\ rec.calls = r.calls /\ rec.failed = r.failed
  BY <1>t DEF LaunchRecs
<1> HIDE DEF rec
<1>7. ChildBalance(r)
  BY <1>2 DEF Accounted, Balanced
<1>8. ChildBalance(rec)
  BY <1>3, <1>6, <1>7 DEF ChildBalance, Published
<1> QED
  BY <1>2, <1>3, <1>4, <1>5, <1>6, <1>8, QuietChild

\* A well-formed log begins no call twice: no more calls than arms.
LEMMA CallsAreFew ==
  ASSUME NEW log \in Seq(Events), WellFormed(log), NEW B \in SUBSET Begins(log)
  PROVE  IsFiniteSet(B) /\ Cardinality(B) \in 0 .. Arms
<1>0. Len(log) \in Nat /\ DOMAIN log = 1 .. Len(log) /\ \A i \in DOMAIN log : log[i] \in Events
  OBVIOUS
<1>1. B \in SUBSET DOMAIN log /\ \A i \in B : log[i].event = "begin"
  BY DEF Begins
<1>2. ASSUME NEW i \in B, NEW j \in B, i < j PROVE log[i].id # log[j].id
  <2>1. i \in Int /\ j \in Int /\ i \in 1 .. (j - 1) /\ j \in DOMAIN log
    BY <1>0, <1>1, <1>2
  <2>2. PICK E : E = {k \in 1 .. (j - 1) : log[k].id = log[j].id}
    OBVIOUS
  <2>3. Cardinality(E) = 0
    BY <1>1, <2>1, <2>2 DEF WellFormed
  <2>4. IsFiniteSet(1 .. (j - 1))
    BY <2>1, FS_Interval
  <2>5. IsFiniteSet(E)
    BY <2>2, <2>4, FS_Subset
  <2>6. E = {}
    BY <2>3, <2>5, FS_EmptySet
  <2> QED
    BY <2>1, <2>2, <2>6
<1>3. \A i, j \in B : log[i].id = log[j].id => i = j
  <2> SUFFICES ASSUME NEW i \in B, NEW j \in B, log[i].id = log[j].id, i # j PROVE FALSE
    OBVIOUS
  <2>1. i \in Int /\ j \in Int
    BY <1>0, <1>1
  <2>2. i < j \/ j < i
    BY <2>1
  <2> QED
    BY <1>2, <2>2
<1>4. Arms \in Nat
  BY LedgerAssumption
<1>5. PICK f : f = [i \in B |-> log[i].id]
  OBVIOUS
<1>6. \A i \in B : f[i] = log[i].id /\ f[i] \in 1 .. Arms
  BY <1>0, <1>1, <1>5 DEF Events
<1>7. f \in [B -> 1 .. Arms]
  BY <1>5, <1>6
<1>8. f \in Injection(B, 1 .. Arms)
  BY <1>3, <1>6, <1>7 DEF Injection, IsInjective
<1>9. IsFiniteSet(1 .. Arms) /\ Cardinality(1 .. Arms) = Arms
  BY <1>4, FS_Interval
<1>10. IsFiniteSet(B) /\ Cardinality(B) =< Arms
  BY <1>8, <1>9, FS_Injection
<1>11. Cardinality(B) \in Nat
  BY <1>10, FS_CardinalityType
<1> QED
  BY <1>4, <1>10, <1>11

\* The account that is put right has the same calls.
LEMMA PutRight ==
  ASSUME NEW log \in Seq(Events), WellFormed(log), NEW rc, NEW new \in Reconciled(log, rc)
  PROVE  /\ new \in Seq(Events) /\ Cardinality(Begins(new)) \in 0 .. Arms
         /\ Cardinality(Open(new)) \in Nat
<1>1. CASE new = log
  <2>1. Begins(log) \in SUBSET Begins(log) /\ Open(log) \in SUBSET Begins(log)
    BY DEF Open
  <2> QED
    BY <1>1, <2>1, CallsAreFew
<1>2. ASSUME new # log PROVE new \in Seq(Events) /\ Begins(new) \in SUBSET Begins(log)
  <2>1. PICK q \in InOrder(Open(log)), event \in {"timeout", "interrupted"} :
          new = log \o [k \in DOMAIN q |-> Written(log, q[k], event)]
    <3>1. PICK event \in {"timeout", "interrupted"} :
            event = IF rc = TimedOut THEN "timeout" ELSE "interrupted"
      OBVIOUS
    <3> QED
      BY <1>2, <3>1 DEF Reconciled
  <2>2. Open(log) \in SUBSET Begins(log) /\ Open(log) \in SUBSET DOMAIN log
    BY DEF Open, Begins
  <2>3. PICK m \in Nat : m = Cardinality(Open(log))
    BY <2>2, CallsAreFew
  <2>4. q \in [1 .. m -> Open(log)]
    BY <2>3 DEF InOrder
  <2>5. PICK tail : tail = [k \in 1 .. m |-> Written(log, q[k], event)]
    OBVIOUS
  <2>6. \A k \in 1 .. m : tail[k] \in Events /\ tail[k].event # "begin"
    <3> SUFFICES ASSUME NEW k \in 1 .. m PROVE tail[k] \in Events /\ tail[k].event # "begin"
      OBVIOUS
    <3>1. q[k] \in DOMAIN log
      BY <2>2, <2>4
    <3>2. log[q[k]] \in Events
      BY <3>1
    <3>3. tail[k] = [id |-> log[q[k]].id, by |-> log[q[k]].by, event |-> event]
      BY <2>5 DEF Written
    <3> QED
      BY <3>2, <3>3 DEF Events, Terminal
  <2>7. tail \in Seq(Events) /\ Len(tail) = m
    BY <2>5, <2>6
  <2>8. new = log \o tail
    BY <2>1, <2>4, <2>5
  <2>9. /\ new \in Seq(Events) /\ Len(new) = Len(log) + m
        /\ \A i \in 1 .. (Len(log) + m) : new[i] = IF i =< Len(log) THEN log[i] ELSE tail[i - Len(log)]
    BY <2>7, <2>8, ConcatProperties
  <2>10. ASSUME NEW i \in Begins(new) PROVE i \in Begins(log)
    <3>1. i \in 1 .. (Len(log) + m) /\ new[i].event = "begin" /\ Len(log) \in Nat
      BY <2>9, <2>10 DEF Begins
    <3>2. i =< Len(log)
      <4> SUFFICES ASSUME ~ (i =< Len(log)) PROVE FALSE
        OBVIOUS
      <4>1. i - Len(log) \in 1 .. m
        BY <3>1
      <4>2. new[i] = tail[i - Len(log)]
        BY <2>9, <3>1
      <4> QED
        BY <2>6, <3>1, <4>1, <4>2
    <3>3. new[i] = log[i] /\ i \in DOMAIN log
      BY <2>9, <3>1, <3>2
    <3> QED
      BY <3>1, <3>3 DEF Begins
  <2> QED
    BY <2>9, <2>10
<1>3. ASSUME new # log
      PROVE  /\ IsFiniteSet(Begins(new)) /\ Cardinality(Begins(new)) \in 0 .. Arms
             /\ Cardinality(Open(new)) \in Nat
  <2>1. Begins(new) \in SUBSET Begins(log)
    BY <1>2, <1>3
  <2>2. Open(new) \in SUBSET Begins(log)
    BY <2>1 DEF Open
  <2> QED
    BY <2>1, <2>2, CallsAreFew
<1> QED
  BY <1>1, <1>2, <1>3

\* The account of the calls is put right, or the command stops.
LEMMA Reconciling ==
  ASSUME Accounted, Reconcile
  PROVE  Accounted' /\ Allowed
<1>0. /\ Typed /\ Issuing /\ Balanced /\ Recorded /\ AtWork /\ Commanded
      /\ suite.step = "wait" /\ UNCHANGED <<launch, doc, faults>>
  BY DEF Accounted, Reconcile
<1>1. PICK l \in Launches : l = suite.launch
  BY <1>0 DEF Typed, AtWork, SuiteRecs, Launches
<1>2. PICK c \in Cells : c = launch[l].cell
  BY <1>0, <1>1 DEF AtWork, Launches
<1>3. PICK dr \in DiskRecs : dr = disk[c]
  BY <1>0 DEF Typed
<1>4. launch[l].phase = "exited"
  BY <1>0, <1>1 DEF AtWork, Reconcile, Live, Launches
<1>5. CASE ~ WellFormed(dr.calls)
  <2>1. suite' = Off /\ disk' = disk
    BY <1>1, <1>2, <1>3, <1>5 DEF Reconcile
  <2> QED
    BY <1>0, <2>1, SuiteStops DEF Commanded, Recorded, Typed
<1>6. CASE WellFormed(dr.calls)
  <2>1. PICK log \in Reconciled(dr.calls, launch[l].rc) :
          /\ disk' = [disk EXCEPT ![c].calls = log]
          /\ suite' = [suite EXCEPT !.step = "judge", !.started = Cardinality(Begins(log)),
                                    !.unresolved = Cardinality(Open(log))]
    BY <1>1, <1>2, <1>3, <1>6 DEF Reconcile
  <2>2. /\ log \in Seq(Events) /\ Cardinality(Begins(log)) \in 0 .. Arms
        /\ Cardinality(Open(log)) \in Nat
    <3>1. dr.calls \in Seq(Events)
      BY DEF DiskRecs
    <3> QED
      BY <1>6, <2>1, <3>1, PutRight
  <2>3. PICK started \in 0 .. Arms, unresolved \in Nat :
          started = Cardinality(Begins(log)) /\ unresolved = Cardinality(Open(log))
    BY <2>2
  <2>4. PICK s \in SuiteRecs : s = suite
    BY <1>0 DEF Typed
  <2>5. suite' = [s EXCEPT !.step = "judge", !.started = started, !.unresolved = unresolved]
    BY <2>1, <2>3, <2>4
  <2>6. /\ suite' \in SuiteRecs /\ suite'.launch = s.launch /\ suite'.step = "judge"
        /\ suite'.started = started /\ suite'.records = s.records
        /\ suite'.command = s.command /\ suite'.todo = s.todo
    <3>1. started \in Nat
      BY LedgerAssumption
    <3> QED
      BY <2>5, <3>1 DEF SuiteRecs
  <2>7. PICK dn : dn = [dr EXCEPT !.calls = log]
    OBVIOUS
  <2>8. dn \in DiskRecs /\ dn.result = dr.result /\ dn.aside = dr.aside
    BY <2>2, <2>7 DEF DiskRecs
  <2>9. disk' = [disk EXCEPT ![c] = dn]
    BY <1>3, <2>1, <2>7
  <2>10. /\ disk' \in [Cells -> DiskRecs]
         /\ \A d \in Cells : disk'[d].result = disk[d].result /\ disk'[d].aside = disk[d].aside
    BY <1>0, <1>3, <2>8, <2>9 DEF Typed
  <2>11. Typed' /\ Issuing' /\ Balanced'
    BY <1>0, <2>6, <2>10 DEF Typed, Issuing, Issued, Balanced
  <2>12. Recorded'
    <3> SUFFICES ASSUME NEW d \in Cells
                 PROVE  /\ Placed(disk[d].result, d)' \/ disk'[d].result = Edited
                        /\ Truthful(doc.records[d], d)' /\ Truthful(suite.records[d], d)'
      BY DEF Recorded, Edited
    <3>1. /\ Truthful(doc.records[d], d) /\ Truthful(suite.records[d], d)
          /\ Placed(disk[d].result, d) \/ disk[d].result = Edited
      BY <1>0 DEF Recorded
    <3> QED
      BY <1>0, <2>4, <2>6, <2>10, <3>1 DEF Truthful, Placed, By
  <2>13. AtWork'
    <3>1. /\ Placed(disk[c].result, c) /\ launch[l].phase # "none" /\ l # 0
          /\ disk[c].result = doc.records[c].result => disk[c].result = NoFile
      BY <1>0, <1>1, <1>2 DEF AtWork, Launches
    <3> QED
      BY <1>0, <1>1, <1>2, <1>4, <2>3, <2>4, <2>6, <2>10, <3>1 DEF AtWork, Placed, By
  <2>14. Commanded'
    <3>1. suite' # Off /\ suite # Off
      BY <1>0, <2>6, OffIs
    <3>2. s.command = "resume" => \A d \in s.todo : ~ Verified(d, doc.records[d])'
      <4> SUFFICES ASSUME s.command = "resume", NEW d \in s.todo PROVE ~ Verified(d, doc.records[d])'
        OBVIOUS
      <4>1. d \in Cells /\ ~ Verified(d, doc.records[d])
        BY <1>0, <2>4 DEF Commanded, SuiteRecs
      <4> QED
        BY <1>0, <2>10, <4>1 DEF Verified
    <3> QED
      BY <1>0, <2>4, <2>6, <3>1, <3>2 DEF Commanded
  <2>15. EvidenceStays /\ VerifiedIsNotRepeated /\ SmokeVerdictIsFinal
    BY <1>0, <2>10 DEF EvidenceStays, Leaves, VerifiedIsNotRepeated, SmokeVerdictIsFinal, Issued
  <2> QED
    BY <2>11, <2>12, <2>13, <2>14, <2>15 DEF Accounted, Allowed
<1> QED
  BY <1>5, <1>6

\* A result is lost or edited between two commands.
LEMMA Disturbing ==
  ASSUME Accounted, NEW c \in Cells, NEW content \in {NoFile, Edited}, Disturb(c, content)
  PROVE  Accounted' /\ Allowed
<1>0. /\ Typed /\ Issuing /\ Balanced /\ Recorded /\ AtWork /\ Commanded
      /\ suite = Off /\ UNCHANGED <<launch, doc, suite>> /\ faults' = faults + 1 /\ faults \in Nat
  BY DEF Accounted, Disturb, Typed
<1>1. PICK dr \in DiskRecs : dr = disk[c]
  BY <1>0 DEF Typed
<1>2. content \in Results
  <2>1. 0 \in Int /\ -1 \in Int
    OBVIOUS
  <2>2. NoFile \in Results
    BY <2>1 DEF NoFile, Results
  <2>3. Edited \in Results
    BY <2>1 DEF Edited, Results
  <2> QED
    BY <2>2, <2>3
<1>3. PICK dn : dn = [dr EXCEPT !.result = content]
  OBVIOUS
<1>4. dn \in DiskRecs /\ dn.result = content /\ dn.aside = dr.aside
  BY <1>2, <1>3 DEF DiskRecs
<1>5. disk' = [disk EXCEPT ![c] = dn]
  BY <1>1, <1>3 DEF Disturb
<1>6. /\ disk' \in [Cells -> DiskRecs] /\ disk'[c].result = content
      /\ \A d \in Cells : disk'[d].aside = disk[d].aside /\ (d # c => disk'[d] = disk[d])
  BY <1>0, <1>1, <1>4, <1>5 DEF Typed
<1>7. Typed' /\ Issuing' /\ Balanced'
  BY <1>0, <1>6 DEF Typed, Issuing, Issued, Balanced
<1>8. Recorded'
  <2> SUFFICES ASSUME NEW d \in Cells
               PROVE  /\ Placed(disk[d].result, d)' \/ disk'[d].result = Edited
                      /\ Truthful(doc.records[d], d)' /\ Truthful(suite.records[d], d)'
    BY DEF Recorded, Edited
  <2>1. /\ Truthful(doc.records[d], d) /\ Truthful(suite.records[d], d)
        /\ Placed(disk[d].result, d) \/ disk[d].result = Edited
    BY <1>0 DEF Recorded
  <2>2. Truthful(doc.records[d], d)' /\ Truthful(suite.records[d], d)'
    BY <1>0, <2>1 DEF Truthful, Placed, By
  <2>3. Placed(disk[d].result, d)' \/ disk'[d].result = Edited
    BY <1>0, <1>6, <2>1 DEF Placed, By
  <2> QED
    BY <2>2, <2>3
<1>9. AtWork'
  BY <1>0, OffIs DEF AtWork
<1>10. Commanded'
  BY <1>0, OffIs DEF Commanded
<1>11. EvidenceStays
  BY <1>0, <1>6 DEF EvidenceStays
<1>12. VerifiedIsNotRepeated /\ SmokeVerdictIsFinal
  BY <1>0 DEF VerifiedIsNotRepeated, SmokeVerdictIsFinal, Issued
<1> QED
  BY <1>7, <1>8, <1>9, <1>10, <1>11, <1>12 DEF Accounted, Allowed

LEMMA InitiallyAccounted == ASSUME SuiteInit PROVE Accounted
<1>0. Arms \in Nat /\ LastLaunch \in Nat /\ NoFile \in Results
  BY LedgerAssumption DEF NoFile, Results
<1>1. /\ disk = [c \in Cells |-> [result |-> NoFile, summary |-> 0, calls |-> <<>>, aside |-> {}]]
      /\ launch = [l \in Launches |-> Unissued]
      /\ doc = Unwritten /\ suite = Off /\ faults = 0
  BY DEF SuiteInit, LedgerInit, Launches
<1>2. Unissued \in LaunchRecs /\ Unissued.phase = "none" /\ ChildBalance(Unissued)
  <2>1. 0 \in 0 .. Arms /\ 0 \in Cells \cup {0} /\ "none" \in Phases
    BY <1>0 DEF Phases
  <2>2. Unissued \in LaunchRecs
    BY <2>1 DEF Unissued, LaunchRecs
  <2>3. ChildBalance(Unissued)
    BY DEF Unissued, ChildBalance, Published
  <2> QED
    BY <2>2, <2>3 DEF Unissued
<1>3. /\ NoRecord \in CellRecords /\ \A c : Truthful(NoRecord, c)
  <2>1. 0 \in 0 .. Arms /\ 0 \in 0 .. LastLaunch
    BY <1>0
  <2> QED
    BY <1>0, <2>1 DEF NoRecord, CellRecords, CellStatuses, Truthful, Placed
<1>4. /\ Unwritten \in Docs /\ ~ Unwritten.made /\ ~ Unwritten.written
      /\ Unwritten.status = "INCOMPLETE" /\ \A c \in Cells : Unwritten.records[c] = NoRecord
  <2>1. [c \in Cells |-> NoRecord] \in [Cells -> CellRecords]
    BY <1>3
  <2> QED
    BY <2>1 DEF Unwritten, Docs, RunStatuses, Smokes
<1>5. Typed
  <2>1. [result |-> NoFile, summary |-> 0, calls |-> <<>>, aside |-> {}] \in DiskRecs
    BY <1>0 DEF DiskRecs
  <2> QED
    BY <1>1, <1>2, <1>4, <2>1, OffIs DEF Typed
<1>6. Issuing
  <2>1. Issued = {}
    BY <1>1, <1>2 DEF Issued, Launches
  <2>2. 0 \in 0 .. LastLaunch /\ 1 .. 0 = {}
    BY <1>0
  <2> QED
    BY <2>1, <2>2 DEF Issuing
<1>7. Balanced
  BY <1>1, <1>2 DEF Balanced
<1>8. Recorded
  BY <1>1, <1>3, <1>4, OffIs DEF Recorded, Placed
<1>9. AtWork
  BY <1>1, OffIs DEF AtWork
<1>10. Commanded
  BY <1>1, <1>4, OffIs DEF Commanded
<1> QED
  BY <1>5, <1>6, <1>7, <1>8, <1>9, <1>10 DEF Accounted

LEMMA Step == ASSUME Accounted, SuiteNext PROVE Accounted' /\ Allowed
<1>1. CASE SuiteStep
  BY <1>1, Begin, Going, Recording, Ending, Waiting, Reconciling DEF SuiteStep
<1>2. ASSUME NEW l \in Issued, ChildNext(l), UNCHANGED <<doc, suite, faults>> PROVE Accounted' /\ Allowed
  BY <1>2, ChildSteps
<1>3. CASE SuiteDies
  BY <1>3, Ending
<1>4. ASSUME NEW c \in Cells, NEW content \in {NoFile, Edited}, Disturb(c, content) PROVE Accounted' /\ Allowed
  BY <1>4, Disturbing
<1> QED
  BY <1>1, <1>2, <1>3, <1>4 DEF SuiteNext

LEMMA Stutter == ASSUME Accounted, UNCHANGED suiteVars PROVE Accounted'
BY DEF suiteVars, Accounted, Typed, Issuing, Issued, Balanced, Recorded, Truthful, Placed, By, AtWork,
       Commanded, Verified

-----------------------------------------------------------------------------
(* The theorems.                                                           *)

\* run.json, the cells' files, the launches and the command under way agree in
\* the sense of Accounted, across orphans, kills, time-outs, edits and resumes.
THEOREM AccountedAlways == SuiteSpec => []Accounted
<1>1. SuiteInit => Accounted
  BY InitiallyAccounted
<1>2. Accounted /\ [SuiteNext]_suiteVars => Accounted'
  BY Step, Stutter
<1> QED
  BY <1>1, <1>2, PTL DEF SuiteSpec

\* report_run calls a run a success only when each cell has on disk a good result
\* that a launch of that cell published.
THEOREM ReportIsEvidenceAlways == SuiteSpec => []ReportIsEvidence
<1>1. Accounted => ReportIsEvidence
  <2> SUFFICES ASSUME Accounted, ReportsOk, NEW c \in Cells
               PROVE  /\ disk[c].result.by \in Issued /\ launch[disk[c].result.by].cell = c
                      /\ disk[c].result.good
    BY DEF ReportIsEvidence
  <2>1. Verified(c, doc.records[c]) /\ Truthful(doc.records[c], c)
    BY DEF ReportsOk, Accounted, Recorded
  <2>2. By(disk[c].result, c) /\ disk[c].result.good
    BY <2>1 DEF Verified, Truthful, Placed
  <2> QED
    BY <2>2, IssuedAre DEF By, Published
<1> QED
  BY <1>1, AccountedAlways, PTL

\* A controlled cell recorded ok was closed by its child, and as many calls were
\* counted for it in the shared call ledger as that child reserved and began.
THEOREM CallsAreAccountedAlways == SuiteSpec => []CallsAreAccounted
<1>1. Accounted => SuiteTypeOK
  <2> SUFFICES ASSUME Accounted PROVE SuiteTypeOK
    OBVIOUS
  <2>1. \A l \in Launches : /\ launch[l].ledger \in {"none", "issued", "active", "closed"}
                            /\ launch[l].reserved \in 0 .. Arms /\ launch[l].calls \in 0 .. Arms
    BY Fields DEF Accounted, LaunchRecs
  <2>2. doc.status \in RunStatuses
    BY Fields DEF Accounted, Docs
  <2>3. \A c \in Cells : doc.records[c].started \in 0 .. Arms
    BY Fields DEF Accounted, CellRecords
  <2> QED
    BY <2>1, <2>2, <2>3 DEF SuiteTypeOK, Launches, RunStatuses
<1>2. Accounted => OkIsAccounted
  <2>1. \A c \in Controlled : c \in Cells
    BY LedgerAssumption
  <2> QED
    BY <2>1 DEF Accounted, Recorded, OkIsAccounted, Truthful
<1> QED
  BY <1>1, <1>2, AccountedAlways, PTL DEF CallsAreAccounted

\* _execute_cell and the children replace a recorded result only after it was
\* moved aside, unless an orphan is at work in the cell.
THEOREM EvidenceSurvivesAlways == SuiteSpec => EvidenceSurvives
<1>1. Accounted /\ [SuiteNext]_suiteVars => [EvidenceStays]_suiteVars
  BY Step DEF Allowed
<1> QED
  BY <1>1, AccountedAlways, PTL DEF SuiteSpec, EvidenceSurvives

\* resume_run executes no cell whose recorded result stands, and nothing of a run
\* whose smoke gate failed is executed again.
THEOREM SettledIsNotRerunAlways == SuiteSpec => SettledIsNotRerun
<1>1. Accounted /\ [SuiteNext]_suiteVars => [VerifiedIsNotRepeated /\ SmokeVerdictIsFinal]_suiteVars
  BY Step DEF Allowed
<1> QED
  BY <1>1, AccountedAlways, PTL DEF SuiteSpec, SettledIsNotRerun
=============================================================================
