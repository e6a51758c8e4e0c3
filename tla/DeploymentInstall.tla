-------------------------- MODULE DeploymentInstall --------------------------
(***************************************************************************)
(* Replacing the canonical workspace of the VM by a clean commit           *)
(* (deployment_guard.install, push-remote.sh).  The receipt goes first and *)
(* comes back last; between the two the owned directories move to a backup *)
(* and the staged ones move in.  Results lives inside CODE and travels     *)
(* with it.  Installers may overlap, and each may die at any step.         *)
(***************************************************************************)
EXTENDS Naturals

CONSTANTS
  Installers,
  Commits,
  LastInstall,   \* bound on the installations ever begun
  LastCell,      \* the runs of the experiment, in the order of the matrix
  Launches,      \* launch nonces
  None           \* no commit, no launch

ASSUME DeploymentAssumption ==
  LastInstall \in Nat /\ LastCell \in Nat \ {0} /\ None \notin Commits \cup Launches

VARIABLES
  tree,       \* the commit that CODE, and the rest of the workspace, holds
  results,    \* CODE/Results
  receipt,    \* .remote_runtime/deployment.json
  backups,    \* .remote_runtime/deploy-backups
  installer,  \* the phase of each installation under way
  installs    \* installations begun so far

deployVars == <<tree, results, receipt, backups, installer, installs>>

Cells == 1..LastCell

\* A run directory of Results: the launches with an unpublished decision log
\* in it, whose log was published, and who wrote which evidence file.
NoMark == [by |-> None, code |-> None]
NoDeployment == [commit |-> None, nr |-> 0]
NoGovernance == [by |-> None, dep |-> NoDeployment, eligible |-> FALSE]
NoRun == [there |-> FALSE, trace |-> FALSE, open |-> {}, log |-> None,
          receipt |-> NoMark, formal |-> NoMark, gov |-> NoGovernance]

NoResults == [there |-> FALSE, pointers |-> {}, runs |-> [c \in Cells |-> NoRun]]
EmptyResults == [NoResults EXCEPT !.there = TRUE]

NoBackup == [code |-> None, rest |-> None, results |-> NoResults]
Nowhere == [phase |-> "idle", commit |-> None, nr |-> 0]

Step(i, phase) == installer' = [installer EXCEPT ![i].phase = phase]

-----------------------------------------------------------------------------
\* A staged commit whose manifest and file hashes hold.
Unpack(i, c) ==
  /\ installer[i].phase = "idle"
  /\ installer' = [installer EXCEPT ![i] = [Nowhere EXCEPT !.phase = "unlink", !.commit = c]]
  /\ UNCHANGED <<tree, results, receipt, backups, installs>>

\* "fail closed before any canonical source mutation"
Unlink(i) ==
  /\ installer[i].phase = "unlink"
  /\ installs < LastInstall
  /\ receipt' = NoDeployment
  /\ installs' = installs + 1
  /\ installer' = [installer EXCEPT ![i] = [@ EXCEPT !.phase = "outCode", !.nr = installs + 1]]
  /\ UNCHANGED <<tree, results, backups>>

MoveOutCode(i) ==
  /\ installer[i].phase = "outCode"
  /\ LET b == installer[i].nr IN
     backups' = [backups EXCEPT ![b] = [@ EXCEPT !.code = tree.code, !.results = results]]
  /\ tree' = [tree EXCEPT !.code = None]
  /\ results' = NoResults
  /\ Step(i, "outRest")
  /\ UNCHANGED <<receipt, installs>>

MoveOutRest(i) ==
  /\ installer[i].phase = "outRest"
  /\ backups' = [backups EXCEPT ![installer[i].nr].rest = tree.rest]
  /\ tree' = [tree EXCEPT !.rest = None]
  /\ Step(i, "inCode")
  /\ UNCHANGED <<results, receipt, installs>>

\* os.replace moves a directory over nothing, or over an empty directory.
CodeIsFree == tree.code = None /\ ~results.there

MoveInCode(i) ==
  /\ installer[i].phase = "inCode"
  /\ CodeIsFree
  /\ tree' = [tree EXCEPT !.code = installer[i].commit]
  /\ Step(i, "inRest")
  /\ UNCHANGED <<results, receipt, backups, installs>>

MoveInRest(i) ==
  /\ installer[i].phase = "inRest"
  /\ tree.rest = None
  /\ tree' = [tree EXCEPT !.rest = installer[i].commit]
  /\ Step(i, "restore")
  /\ UNCHANGED <<results, receipt, backups, installs>>

\* Without the move, the mkdir of the other branch.
RestoreResultsMutant(i) ==
  /\ installer[i].phase = "restore"
  /\ results' = [results EXCEPT !.there = TRUE]
  /\ Step(i, "validate")
  /\ UNCHANGED <<tree, receipt, backups, installs>>

RestoreResults(i) ==
  /\ installer[i].phase = "restore"
  /\ LET b == installer[i].nr IN
     IF backups[b].results.there
     THEN /\ tree.code # None /\ results \in {NoResults, EmptyResults}
          /\ results' = backups[b].results
          /\ backups' = [backups EXCEPT ![b].results = NoResults]
     ELSE /\ results' = [results EXCEPT !.there = TRUE]
          /\ UNCHANGED backups
  /\ Step(i, "validate")
  /\ UNCHANGED <<tree, receipt, installs>>

Holds(c) == tree = [code |-> c, rest |-> c]

ValidateTree(i) ==
  /\ installer[i].phase = "validate"
  /\ Holds(installer[i].commit)
  /\ Step(i, "receipt")
  /\ UNCHANGED <<tree, results, receipt, backups, installs>>

WriteReceipt(i) ==
  /\ installer[i].phase = "receipt"
  /\ receipt' = [commit |-> installer[i].commit, nr |-> installer[i].nr]
  /\ Step(i, "clean")
  /\ UNCHANGED <<tree, results, backups, installs>>

RemoveBackup(i) ==
  /\ installer[i].phase = "clean"
  /\ backups' = [backups EXCEPT ![installer[i].nr] = NoBackup]
  /\ Step(i, "idle")
  /\ UNCHANGED <<tree, results, receipt, installs>>

\* A move meets an occupied target, a check fails, the connection is lost.
InstallDies(i) ==
  /\ installer[i].phase # "idle"
  /\ Step(i, "idle")
  /\ UNCHANGED <<tree, results, receipt, backups, installs>>

-----------------------------------------------------------------------------
DeployInit ==
  /\ tree = [code |-> None, rest |-> None]
  /\ results = NoResults
  /\ receipt = NoDeployment
  /\ backups = [b \in 1..LastInstall |-> NoBackup]
  /\ installer = [i \in Installers |-> Nowhere]
  /\ installs = 0

Install(i) ==
  \/ \E c \in Commits : Unpack(i, c)
  \/ Unlink(i) \/ MoveOutCode(i) \/ MoveOutRest(i) \/ MoveInCode(i) \/ MoveInRest(i)
  \/ RestoreResults(i) \/ ValidateTree(i) \/ WriteReceipt(i) \/ RemoveBackup(i)
  \/ InstallDies(i)

DeployNext == \E i \in Installers : Install(i)

\* verify_receipt: the receipt, the whole tree against it, and Results there.
DeploymentVerified == receipt # NoDeployment /\ Holds(receipt.commit) /\ results.there

-----------------------------------------------------------------------------
(* Properties.                                                             *)

Directories ==
  LET By == [by : Launches \cup {None}, code : Commits \cup {None}]
      Deployment == [commit : Commits \cup {None}, nr : 0..LastInstall] IN
  [there : BOOLEAN, pointers : SUBSET Launches,
   runs : [Cells -> [there : BOOLEAN, trace : BOOLEAN, open : SUBSET Launches,
                     log : Launches \cup {None}, receipt : By, formal : By,
                     gov : [by : Launches \cup {None}, dep : Deployment, eligible : BOOLEAN]]]]

\* Types.
DeployTypeOK ==
  /\ tree \in [code : Commits \cup {None}, rest : Commits \cup {None}]
  /\ results \in Directories
  /\ receipt \in [commit : Commits \cup {None}, nr : 0..LastInstall]
  /\ \A b \in 1..LastInstall :
       /\ backups[b].code \in Commits \cup {None} /\ backups[b].rest \in Commits \cup {None}
       /\ backups[b].results \in Directories
  /\ installer \in [Installers ->
       [phase : {"idle", "unlink", "outCode", "outRest", "inCode", "inRest", "restore",
                 "validate", "receipt", "clean"},
        commit : Commits \cup {None}, nr : 0..LastInstall]]
  /\ installs \in 0..LastInstall

Kept == {results} \cup {backups[b].results : b \in 1..LastInstall}
Evidence(c) == {r.runs[c].formal : r \in Kept} \ {NoMark}

\* "Results are persistent data, not deployed source": whatever the installers
\* do and wherever they die, the formal witness of a run is in Results or in
\* a backup.
ResultsAreKept ==
  [][installer' # installer => \A c \in Cells : Evidence(c) \subseteq Evidence(c)']_deployVars

=============================================================================
