------------------------------ MODULE SuiteRun ------------------------------
(***************************************************************************)
(* The T1 suite runs the cells of a tier one after the other (run_bundle), *)
(* in one phase or in a pilot phase and an append, and resumes a run that  *)
(* failed or was killed (resume_run).  run.json is written by rename: what *)
(* it says is what the next command starts from.                           *)
(*                                                                         *)
(* The suite may be killed between any two steps; the child it was waiting *)
(* for is not.  Between commands a result may be lost or edited.           *)
(***************************************************************************)
EXTENDS CallLedger

CONSTANTS
  CallCap,        \* simulator_call_budget
  LastFault       \* times the suite dies or a result is lost or edited, in this instance

VARIABLES
  doc,        \* run.json
  suite,      \* the process: its command, its step and its variables
  faults      \* so far

suiteVars == <<disk, launch, doc, suite, faults>>

NoRecord == [status |-> "none", result |-> NoFile, launch |-> 0, started |-> 0]
Unwritten == [made |-> FALSE, written |-> FALSE, status |-> "INCOMPLETE",
              smoke |-> "none", records |-> [c \in Cells |-> NoRecord]]
Off == [command |-> "none", step |-> "none", todo |-> {}, launch |-> 0,
        started |-> 0, unresolved |-> 0,
        status |-> "ok", gated |-> FALSE, stop |-> FALSE,
        smoke |-> "none", records |-> [c \in Cells |-> NoRecord]]

Edited == [by |-> -1, good |-> TRUE]
NotOk(records) == {c \in Cells : records[c].status # "ok"}
Executed(records) == {c \in Cells : records[c].status # "none"}
IsFirst(c, S) == \A d \in S : c =< d
Started(records) == FoldFunction(LAMBDA r, n : n + r.started, 0, records)

-----------------------------------------------------------------------------
(* One cell *)

\* _inspect_result and the order of the verdicts in _execute_cell.
VerdictMutant(l) ==
  CASE launch[l].rc = TimedOut -> "timeout"
    [] launch[l].rc # TimedOut /\ disk[launch[l].cell].result = NoFile -> "error"
    [] OTHER -> IF suite.unresolved = 0 THEN "ok" ELSE "error"
Verdict(l) ==
  LET c == launch[l].cell  result == disk[c].result
  IN  CASE launch[l].rc = TimedOut -> "timeout"
        [] launch[l].rc # 0 \/ ~ Intact(l, suite.started) -> "error"
        [] result = NoFile -> "error"
        [] launch[l].rc = 0 /\ Intact(l, suite.started) /\ result # NoFile /\ ~ result.good
             -> "predicate_failed"
        [] OTHER -> IF suite.unresolved = 0 THEN "ok" ELSE "error"

RecordOf(l) ==
  [status |-> Verdict(l), result |-> disk[launch[l].cell].result, launch |-> l,
   started |-> suite.started]

LaunchCell(c) ==
  /\ StartChild(c)
  /\ suite' = [suite EXCEPT !.step = "wait", !.launch = NextLaunch]

\* subprocess.run kills its child at the end of cell_wall_s.
CellTimesOut ==
  /\ suite.step = "wait" /\ Live(suite.launch)
  /\ launch' = [launch EXCEPT ![suite.launch].phase = "exited",
                              ![suite.launch].rc = TimedOut]
  /\ UNCHANGED <<disk, doc, suite, faults>>

\* A ledger that is not well-formed ends the command with an error.  The calls
\* are counted once, here.
Reconcile ==
  /\ suite.step = "wait" /\ ~ Live(suite.launch)
  /\ LET c == launch[suite.launch].cell
     IN  IF WellFormed(disk[c].calls)
         THEN \E log \in Reconciled(disk[c].calls, launch[suite.launch].rc) :
                /\ disk' = [disk EXCEPT ![c].calls = log]
                /\ suite' = [suite EXCEPT !.step = "judge",
                               !.started = Cardinality(Begins(log)),
                               !.unresolved = Cardinality(Open(log))]
         ELSE suite' = Off /\ UNCHANGED disk
  /\ UNCHANGED <<launch, doc, faults>>

-----------------------------------------------------------------------------
(* run_bundle *)

\* The command line runs a whole tier; the development driver has a smoke
\* validator, and runs its pilot cells, if any, first and until one fails.
Pilot == {1}
Callers == {[todo |-> Cells, gated |-> FALSE, stop |-> FALSE],
            [todo |-> Cells, gated |-> TRUE, stop |-> FALSE],
            [todo |-> Pilot, gated |-> TRUE, stop |-> TRUE]}

\* The run directory must be new.
RunBegin(caller) ==
  /\ suite = Off /\ ~ doc.made
  /\ Cardinality(Cells) * Arms =< CallCap
  /\ doc' = [doc EXCEPT !.made = TRUE]
  /\ suite' = [Off EXCEPT !.command = "run", !.step = "next", !.todo = caller.todo,
                          !.gated = caller.gated, !.stop = caller.stop]
  /\ UNCHANGED <<disk, launch, faults>>

MayAppend(d) ==
  d.status = "INCOMPLETE" /\ \A c \in Executed(d.records) : d.records[c].status = "ok"

AppendBegin ==
  /\ suite = Off /\ doc.written
  /\ MayAppend(doc)
  /\ suite' = [Off EXCEPT !.command = "run", !.step = "next",
                          !.todo = Cells \ Executed(doc.records),
                          !.smoke = doc.smoke, !.records = doc.records]
  /\ UNCHANGED <<disk, launch, doc, faults>>

Left == suite.todo \ Executed(suite.records)

OverBudget ==
  Started(suite.records) + Arms * Cardinality(Cells \ Executed(suite.records)) > CallCap

\* The wall budget counts the seconds of the calls made so far.
RunNext ==
  /\ suite.command = "run" /\ suite.step = "next"
  /\ \/ /\ ~ OverBudget
        /\ \E c \in Left : IsFirst(c, Left) /\ LaunchCell(c)
     \/ /\ Left # {} /\ (OverBudget \/ Started(suite.records) > 0)
        /\ suite' = [suite EXCEPT !.step = "end", !.status = "BUDGET_EXCEEDED"]
        /\ UNCHANGED <<disk, launch>>
     \/ /\ Left = {}
        /\ suite' = [suite EXCEPT !.step = "end"]
        /\ UNCHANGED <<disk, launch>>
  /\ UNCHANGED <<doc, faults>>

\* The first record of a run is put to the smoke validator, which wants an ok
\* cell at least.
SmokeOutcomes(record) ==
  IF Executed(suite.records) # {} \/ ~ suite.gated THEN {suite.smoke}
  ELSE IF record.status = "ok" THEN {"passed", "failed"} ELSE {"failed"}

\* The record and the smoke verdict are in run.json before the status is.
RunRecord ==
  /\ suite.command = "run" /\ suite.step = "judge"
  /\ LET r == RecordOf(suite.launch)
         records == [suite.records EXCEPT ![launch[suite.launch].cell] = r]
     IN  \E smoke \in SmokeOutcomes(r) :
           LET status == CASE smoke = "failed" -> "SMOKE_FAILED"
                           [] smoke # "failed" /\ suite.stop /\ r.status # "ok"
                                -> "FAILED_CELLS"
                           [] OTHER -> suite.status
           IN  /\ doc' = [doc EXCEPT !.written = TRUE, !.records = records,
                                     !.smoke = smoke]
               /\ suite' = [suite EXCEPT !.records = records, !.smoke = smoke,
                              !.status = status, !.launch = 0,
                              !.step = IF status = suite.status THEN "next" ELSE "end"]
  /\ UNCHANGED <<disk, launch, faults>>

RunStatus ==
  CASE suite.status \in {"BUDGET_EXCEEDED", "SMOKE_FAILED"} -> suite.status
    [] suite.status \notin {"BUDGET_EXCEEDED", "SMOKE_FAILED"}
         /\ \E c \in Executed(suite.records) : suite.records[c].status # "ok"
         -> "FAILED_CELLS"
    [] OTHER -> IF Executed(suite.records) = Cells THEN "ok" ELSE "INCOMPLETE"

RunEnd ==
  /\ suite.command = "run" /\ suite.step = "end"
  /\ doc' = [doc EXCEPT !.written = TRUE, !.status = RunStatus,
                        !.records = suite.records, !.smoke = suite.smoke]
  /\ suite' = Off
  /\ UNCHANGED <<disk, launch, faults>>

-----------------------------------------------------------------------------
(* resume_run *)

\* _verify_recorded_result: an ok record is one whose result is still there.
VerifiedMutant(c, record) == record.status = "ok" /\ disk[c].result # NoFile
Verified(c, record) == record.status = "ok" /\ disk[c].result = record.result

RevalidatedMutant(records) ==
  [c \in Cells |-> IF records[c].status = "ok"
                   THEN [records[c] EXCEPT !.status = "invalidated"] ELSE records[c]]
Revalidated(records) ==
  [c \in Cells |-> IF records[c].status = "ok" /\ ~ Verified(c, records[c])
                   THEN [records[c] EXCEPT !.status = "invalidated"] ELSE records[c]]

MayResume(d) == d.status # "SMOKE_FAILED"

ResumeBegin ==
  /\ suite = Off /\ doc.written
  /\ MayResume(doc)
  /\ suite' = [Off EXCEPT !.command = "resume", !.step = "next",
                          !.todo = NotOk(Revalidated(doc.records)),
                          !.status = doc.status, !.smoke = doc.smoke,
                          !.records = Revalidated(doc.records)]
  /\ UNCHANGED <<disk, launch, doc, faults>>

\* The wall budget of a resume is its own running time.
ResumeNext ==
  /\ suite.command = "resume" /\ suite.step = "next"
  /\ \/ \E c \in suite.todo : IsFirst(c, suite.todo) /\ LaunchCell(c)
     \/ /\ suite.todo # {}
        /\ suite' = [suite EXCEPT !.step = "end", !.status = "BUDGET_EXCEEDED"]
        /\ UNCHANGED <<disk, launch>>
     \/ /\ suite.todo = {}
        /\ suite' = [suite EXCEPT !.step = "end"]
        /\ UNCHANGED <<disk, launch>>
  /\ UNCHANGED <<doc, faults>>

\* A resumed cell's record stays in memory until the end of the resume.
ResumeRecord ==
  /\ suite.command = "resume" /\ suite.step = "judge"
  /\ LET c == launch[suite.launch].cell
     IN  suite' = [suite EXCEPT !.records[c] = RecordOf(suite.launch),
                                !.todo = @ \ {c}, !.launch = 0, !.step = "next"]
  /\ UNCHANGED <<disk, launch, doc, faults>>

ResumeEnd ==
  /\ suite.command = "resume" /\ suite.step = "end"
  /\ doc' = [doc EXCEPT !.records = suite.records,
               !.status = IF NotOk(suite.records) # {} THEN "FAILED_CELLS"
                          ELSE IF suite.status = "BUDGET_EXCEEDED" THEN suite.status ELSE "ok"]
  /\ suite' = Off
  /\ UNCHANGED <<disk, launch, faults>>

-----------------------------------------------------------------------------
(* The environment *)

SuiteDies ==
  /\ suite # Off /\ faults < LastFault
  /\ suite' = Off
  /\ faults' = faults + 1
  /\ UNCHANGED <<disk, launch, doc>>

Disturb(c, content) ==
  /\ suite = Off /\ faults < LastFault /\ disk[c].result # NoFile
  /\ disk' = [disk EXCEPT ![c].result = content]
  /\ faults' = faults + 1
  /\ UNCHANGED <<launch, doc, suite>>

SuiteInit ==
  /\ LedgerInit
  /\ doc = Unwritten /\ suite = Off /\ faults = 0

SuiteStep ==
  \/ \E caller \in Callers : RunBegin(caller)
  \/ AppendBegin
  \/ RunNext \/ RunRecord \/ RunEnd
  \/ ResumeBegin \/ ResumeNext \/ ResumeRecord \/ ResumeEnd
  \/ CellTimesOut \/ Reconcile

SuiteNext ==
  \/ SuiteStep
  \/ \E l \in Issued : ChildNext(l) /\ UNCHANGED <<doc, suite, faults>>
  \/ SuiteDies
  \/ \E c \in Cells, content \in {NoFile, Edited} : Disturb(c, content)

SuiteSpec == SuiteInit /\ [][SuiteNext]_suiteVars

-----------------------------------------------------------------------------
(* Properties *)

\* No reservation exceeds the budget of its launch, and run.json counts only
\* launches and statuses that exist.
SuiteTypeOK ==
  /\ \A l \in 1 .. LastLaunch :
       /\ launch[l].ledger \in {"none", "issued", "active", "closed"}
       /\ launch[l].reserved \in 0 .. Arms /\ launch[l].calls \in 0 .. Arms
  /\ doc.status \in {"INCOMPLETE", "ok", "FAILED_CELLS", "SMOKE_FAILED", "BUDGET_EXCEEDED"}
  /\ \A c \in Cells : doc.records[c].started \in 0 .. Arms

\* report_run calls the run a success.
ReportsOk ==
  doc.written /\ doc.status = "ok" /\ \A c \in Cells : Verified(c, doc.records[c])

\* A run reported as a success has, for every cell of its tier, a result on
\* disk that a launch of that cell wrote and whose predicate holds, whatever
\* was edited, superseded by a killed resume, or written by an orphan.
ReportIsEvidence ==
  ReportsOk => \A c \in Cells :
    LET result == disk[c].result
    IN  result.by \in Issued /\ launch[result.by].cell = c /\ result.good

\* A controlled cell is recorded ok only by a launch that its own child closed,
\* and the calls counted for it are that child's, each reserved before: an
\* orphan in the same ledger is never counted as somebody's call.
OkIsAccounted ==
  \A c \in Controlled :
    LET r == doc.records[c]
    IN  r.status = "ok" => /\ launch[r.launch].ledger = "closed"
                           /\ launch[r.launch].calls = r.started
                           /\ launch[r.launch].reserved = r.started

\* The records of the launches are well formed and account for every call.
CallsAreAccounted == SuiteTypeOK /\ OkIsAccounted

\* Old evidence is never overwritten: a result that run.json records leaves its
\* place only to be kept aside, unless somebody removes it or an orphan is at
\* work in the cell.
Orphaned(c) == \E l \in Issued : Live(l) /\ launch[l].cell = c /\ l # suite.launch
Leaves(c) == disk[c].result = doc.records[c].result /\ disk'[c].result # disk[c].result

EvidenceStays ==
  \A c \in Cells :
    /\ disk[c].aside \subseteq disk'[c].aside
    /\ Leaves(c) /\ faults' = faults /\ ~ Orphaned(c)
         => disk[c].result \in disk'[c].aside \cup {NoFile}

EvidenceSurvives == [][EvidenceStays]_suiteVars

\* A resume executes no cell whose recorded result still stands, however often
\* it was killed and started again.
VerifiedIsNotRepeated ==
  suite.command = "resume" /\ Issued' # Issued =>
     LET c == launch'[NextLaunch].cell IN ~ Verified(c, doc.records[c])

\* Once the status says that the smoke gate failed, nothing of the run is
\* executed again.
SmokeVerdictIsFinal ==
  doc.status = "SMOKE_FAILED" => Issued' = Issued /\ doc' = doc

\* No resume runs again what is settled, by success or by a failed smoke gate.
SettledIsNotRerun == [][VerifiedIsNotRepeated /\ SmokeVerdictIsFinal]_suiteVars

=============================================================================
