---------------------------- MODULE RemoteLaunch ----------------------------
(***************************************************************************)
(* Formal runs on the VM (remote_job.py, run-remote.sh, the run command of *)
(* leo_sim, v2_serial_gate.py).  A launch has a nonce; its status is kept  *)
(* in launches/<nonce>.json, and in current_status.json while it is the    *)
(* current launch.  Runs are admitted in the order of the matrix, each     *)
(* after the evidence of its predecessors.  An installation may begin at   *)
(* any moment; a launch may die at any step.                               *)
(***************************************************************************)
EXTENDS DeploymentInstall

VARIABLES
  attempt,   \* launches/<nonce>.json
  current,   \* current_status.json
  job        \* the process of each launch

launchVars == <<attempt, current, job>>
remoteVars == <<deployVars, launchVars>>

Ended == {"success", "failed"}
Idle == [phase |-> "new", cell |-> 0, dep |-> NoDeployment, code |-> None, wrote |-> None,
         ok |-> FALSE, persist |-> "none"]

Cell(n) == job[n].cell
At(n, phase) == job[n].phase = phase /\ job[n].persist = "none"

-----------------------------------------------------------------------------
(* persist_status: the attempt file, a look at the current file, and the   *)
(* current file.                                                           *)

\* The process goes on to phase once both files are written.
Persist(n, status, how, phase) ==
  /\ attempt' = [attempt EXCEPT ![n] = status]
  /\ job' = [job EXCEPT ![n] = [@ EXCEPT !.persist = how, !.phase = phase, !.ok = FALSE]]

BelongsMutant(n) == current.nonce = None
Belongs(n) == current.nonce \in {None, n}

LookAtCurrent(n) ==
  /\ job[n].persist = "look"
  /\ job' = [job EXCEPT ![n].persist = IF Belongs(n) THEN "write" ELSE "none"]
  /\ UNCHANGED <<deployVars, attempt, current>>

WriteCurrent(n) ==
  /\ job[n].persist = "write"
  /\ current' = [nonce |-> n, status |-> attempt[n]]
  /\ job' = [job EXCEPT ![n].persist = "none"]
  /\ UNCHANGED <<deployVars, attempt>>

-----------------------------------------------------------------------------
(* The gate: every earlier cell of the matrix has its evidence, written    *)
(* under the deployment that is installed.                                 *)

WitnessedMutant(n) == TRUE
Witnessed(n) == attempt[n] = "success"

Accepted(c) ==
  LET r == results.runs[c] IN
  /\ r.formal.by # None /\ r.formal.code = tree.rest
  /\ r.gov.eligible /\ r.gov.by = r.formal.by /\ r.gov.dep = receipt
  /\ r.receipt.code = tree.rest
  /\ Witnessed(r.formal.by)

GateOpen(c) == \A p \in 1..(c - 1) : Accepted(p)

-----------------------------------------------------------------------------
(* prepare, fail, and the checks of run.                                   *)

Launch(n, c) ==
  /\ At(n, "new")
  /\ attempt' = [attempt EXCEPT ![n] = "launching"]
  /\ job' = [job EXCEPT ![n] = [@ EXCEPT !.persist = "write", !.phase = "prepare", !.cell = c]]
  /\ UNCHANGED <<deployVars, current>>

PrepareOk(n) ==
  /\ At(n, "prepare")
  /\ DeploymentVerified /\ GateOpen(Cell(n))
  /\ Persist(n, "prepared", "look", "session")
  /\ UNCHANGED <<deployVars, current>>

\* prepare's checks, tmux, or the checks that run repeats.
LaunchFails(n) ==
  /\ At(n, "prepare") \/ At(n, "session")
  /\ Persist(n, "failed", "look", "end")
  /\ UNCHANGED <<deployVars, current>>

RunChecks(n) ==
  /\ At(n, "session")
  /\ DeploymentVerified /\ GateOpen(Cell(n)) /\ attempt[n] = "prepared"
  /\ job' = [job EXCEPT ![n] = [@ EXCEPT !.phase = "start", !.dep = receipt]]
  /\ UNCHANGED <<deployVars, attempt, current>>

\* The output directory is made, empty, and the status says running.
RunStart(n) ==
  /\ At(n, "start")
  /\ results' = [results EXCEPT !.there = TRUE, !.runs[Cell(n)].there = TRUE]
  /\ Persist(n, "running", "look", "child")
  /\ UNCHANGED <<tree, receipt, backups, installer, installs, current>>

-----------------------------------------------------------------------------
(* The child: python -m CODE.leo_sim run.                                  *)

MovesTo(n, phase) == job' = [job EXCEPT ![n].phase = phase]
Vacant(c) == LET r == results.runs[c] IN r \in {NoRun, [NoRun EXCEPT !.there = TRUE]}

\* The authorization holds for the code that is there, and out_dir is empty.
ChildChecks(n) ==
  /\ At(n, "child")
  /\ tree.code # None /\ tree.rest = tree.code
  /\ Vacant(Cell(n))
  /\ job' = [job EXCEPT ![n] = [@ EXCEPT !.phase = "open", !.code = tree.code]]
  /\ UNCHANGED <<deployVars, attempt, current>>

OnRun(n, r) == results' = [results EXCEPT !.there = TRUE, !.runs[Cell(n)] = r]
Run(n) == [results.runs[Cell(n)] EXCEPT !.there = TRUE]

\* The log writer puts its temporary file into the directory.
ChildOpens(n) ==
  /\ At(n, "open")
  /\ results.runs[Cell(n)].there /\ results.runs[Cell(n)].log = None
  /\ OnRun(n, [Run(n) EXCEPT !.open = @ \cup {n}])
  /\ MovesTo(n, "compile")
  /\ UNCHANGED <<tree, receipt, backups, installer, installs, attempt, current>>

\* os.makedirs: the directory is made again should it have moved away.
ChildCompiles(n) ==
  /\ At(n, "compile")
  /\ OnRun(n, [Run(n) EXCEPT !.trace = TRUE])
  /\ MovesTo(n, "close")
  /\ UNCHANGED <<tree, receipt, backups, installer, installs, attempt, current>>

\* os.link never replaces a log.
LogFreeMutant(r) == TRUE
LogFree(r) == r.log = None

ChildCloses(n) ==
  /\ At(n, "close")
  /\ n \in Run(n).open /\ LogFree(Run(n))
  /\ OnRun(n, [Run(n) EXCEPT !.open = @ \ {n}, !.log = n])
  /\ MovesTo(n, "write")
  /\ UNCHANGED <<tree, receipt, backups, installer, installs, attempt, current>>

\* write_run hashes the sources that are there now.
ChildSaves(n) ==
  /\ At(n, "write")
  /\ OnRun(n, [Run(n) EXCEPT !.receipt = [by |-> n, code |-> tree.code]])
  /\ job' = [job EXCEPT ![n] = [@ EXCEPT !.phase = "witness", !.wrote = tree.code]]
  /\ UNCHANGED <<tree, receipt, backups, installer, installs, attempt, current>>

\* The formal witness and the launch's result pointer.
ChildWitness(n) ==
  /\ At(n, "witness")
  /\ results.runs[Cell(n)].receipt.by # None
  /\ results.runs[Cell(n)].receipt.code = tree.code
  /\ results' = [results EXCEPT !.pointers = @ \cup {n},
                                !.runs[Cell(n)].formal = [by |-> n, code |-> job[n].code]]
  /\ job' = [job EXCEPT ![n] = [@ EXCEPT !.phase = "govern", !.ok = TRUE]]
  /\ UNCHANGED <<tree, receipt, backups, installer, installs, attempt, current>>

\* The child ends with an error; its writers remove their temporary files.
ChildFails(n) ==
  /\ \E p \in {"child", "open", "compile", "close", "write", "witness"} : At(n, p)
  /\ results' = IF results.there
                THEN [results EXCEPT !.runs[Cell(n)].open = @ \ {n}] ELSE results
  /\ MovesTo(n, "govern")
  /\ UNCHANGED <<tree, receipt, backups, installer, installs, attempt, current>>

-----------------------------------------------------------------------------
(* run_formal after the child.                                             *)

Result(n) == results.runs[Cell(n)]
Mine(n) == n \in results.pointers /\ Result(n).formal.by = n

\* verify_v2_formal_result runs the code, and hashes it, as it is by now.
Govern(n) ==
  /\ At(n, "govern")
  /\ job[n].ok /\ Mine(n)
  /\ LET good == Result(n).receipt.code = tree.code IN
     /\ OnRun(n, [Run(n) EXCEPT !.gov = [by |-> n, dep |-> job[n].dep, eligible |-> good]])
     /\ job' = [job EXCEPT ![n] = [@ EXCEPT !.phase = "conclude", !.ok = good]]
  /\ UNCHANGED <<tree, receipt, backups, installer, installs, attempt, current>>

Conclude(n) ==
  /\ At(n, "conclude") /\ job[n].ok
  /\ Persist(n, "success", "look", "end")
  /\ UNCHANGED <<deployVars, current>>

RunFails(n) ==
  /\ At(n, "start") \/ At(n, "govern") \/ At(n, "conclude")
  /\ Persist(n, "failed", "look", "end")
  /\ UNCHANGED <<deployVars, current>>

LaunchDies(n) ==
  /\ job[n].phase \notin {"new", "end"} \/ job[n].persist # "none"
  /\ job' = [job EXCEPT ![n] = [@ EXCEPT !.phase = "end", !.persist = "dead", !.ok = FALSE]]
  /\ UNCHANGED <<deployVars, attempt, current>>

-----------------------------------------------------------------------------
LaunchInit ==
  /\ attempt = [n \in Launches |-> "none"]
  /\ current = [nonce |-> None, status |-> "none"]
  /\ job = [n \in Launches |-> Idle]

LaunchNext ==
  \E n \in Launches :
    \/ \E c \in Cells : Launch(n, c)
    \/ LookAtCurrent(n) \/ WriteCurrent(n)
    \/ PrepareOk(n) \/ LaunchFails(n) \/ RunChecks(n) \/ RunStart(n)
    \/ ChildChecks(n) \/ ChildOpens(n) \/ ChildCompiles(n) \/ ChildCloses(n)
    \/ ChildSaves(n) \/ ChildWitness(n) \/ ChildFails(n)
    \/ Govern(n) \/ Conclude(n) \/ RunFails(n) \/ LaunchDies(n)

RemoteInit == DeployInit /\ LaunchInit
RemoteNext == (DeployNext /\ UNCHANGED launchVars) \/ LaunchNext
RemoteSpec == RemoteInit /\ [][RemoteNext]_remoteVars

-----------------------------------------------------------------------------
(* Properties.                                                             *)

\* Types.
LaunchTypeOK ==
  LET Status == {"none", "launching", "prepared", "running"} \cup Ended IN
  /\ DeployTypeOK
  /\ attempt \in [Launches -> Status]
  /\ current \in [nonce : Launches \cup {None}, status : Status]
  /\ current.nonce = None <=> current.status = "none"
  /\ job \in [Launches ->
       [phase : {"new", "prepare", "session", "start", "child", "open", "compile", "close",
                 "write", "witness", "govern", "conclude", "end"},
        cell : 0..LastCell, dep : [commit : Commits \cup {None}, nr : 0..LastInstall],
        code : Commits \cup {None}, wrote : Commits \cup {None}, ok : BOOLEAN,
        persist : {"none", "look", "write", "dead"}]]

\* The serial gate, under redeployments, races and crashes: the success of a
\* cell has behind it a success of every earlier cell, under the very same
\* deployment, whose child checked that it ran that deployment's code; and the
\* sources a receipt of that cell records are that code.
CellsInOrder ==
  \A n \in Launches : attempt[n] = "success" =>
    \A p \in 1..(Cell(n) - 1) :
      /\ \E m \in Launches :
           /\ attempt[m] = "success" /\ Cell(m) = p
           /\ job[m].dep = job[n].dep /\ job[m].code = job[n].dep.commit
      /\ \E k \in Launches : Cell(k) = p /\ job[k].wrote = job[n].dep.commit

\* Two launches of one cell do not both succeed, unless an installation took
\* the Results of the first away between them.
OneSuccessPerCell ==
  \A m, n \in Launches :
    m # n /\ attempt[m] = "success" /\ attempt[n] = "success" /\ Cell(m) = Cell(n) =>
      \E b \in 1..LastInstall : backups[b].results.runs[Cell(n)].log \in {m, n}

\* What current_status.json says of a launch is what the file of the launch
\* says, once the launch is not in the middle of writing the two.
CurrentFollowsAttempt ==
  \A n \in Launches : current.nonce = n /\ job[n].persist = "none" => current.status = attempt[n]

\* The two status files of the launches are well formed and agree.
StatusFilesAgree == LaunchTypeOK /\ CurrentFollowsAttempt

=============================================================================
