----------------------------- MODULE RunRelease -----------------------------
(***************************************************************************)
(* Runs of a published release (release_protocol.run_release): a run       *)
(* directory is made once, a resource group is locked while its run lasts, *)
(* the child is drained under a timeout, and the receipt comes last.  A    *)
(* runner may die at any step; its child, in a session of its own, lives.  *)
(***************************************************************************)
EXTENDS Naturals

CONSTANTS
  Runners,    \* invocations of run_release, all of one resource group
  RunIds,
  LastWrite,  \* bound on the writes of a child that are told apart
  Nobody      \* no holder of the lock, no run id

ASSUME RunAssumption == LastWrite \in Nat /\ Nobody \notin Runners \cup RunIds

VARIABLES
  dir,      \* the run directories
  runner,   \* the phase of each runner, its run id and its child
  lock      \* who holds the flock of the resource group

runVars == <<dir, runner, lock>>

Terminal == {"completed", "failed", "timed_out"}
NoReceipt == [status |-> "none", files |-> 0]
NoDir == [made |-> FALSE, manifest |-> "none", files |-> 0, receipt |-> NoReceipt]

Alive(w) == runner[w].child \in {"running", "detached"}
Owned == {"snapshot", "spawn", "drain", "settle", "receipt"}
Holding == {"mkdir"} \cup Owned

\* The end of run_release, error paths included: the finally clause unlocks.
Unlocked(w) == IF lock = w THEN Nobody ELSE lock

Leave(w, phase) ==
  /\ runner' = [runner EXCEPT ![w].phase = phase]
  /\ lock' = Unlocked(w)

-----------------------------------------------------------------------------
(* Admission.                                                              *)

\* The release and the runtime contract hold, and the run id looks new.
RunAdmit(w, i) ==
  /\ runner[w].phase = "start"
  /\ ~dir[i].made
  /\ runner' = [runner EXCEPT ![w] = [@ EXCEPT !.phase = "lock", !.id = i]]
  /\ UNCHANGED <<dir, lock>>

LockFree == lock = Nobody

RunLock(w) ==
  /\ runner[w].phase = "lock"
  /\ IF LockFree
     THEN /\ lock' = w
          /\ runner' = [runner EXCEPT ![w].phase = "mkdir"]
     ELSE Leave(w, "refused")
  /\ UNCHANGED dir

\* mkdir without exist_ok decides between two runners of one id.
IdUnusedMutant(i) == TRUE
IdUnused(i) == ~dir[i].made

RunMkdir(w) ==
  /\ runner[w].phase = "mkdir"
  /\ LET i == runner[w].id IN
     IF IdUnused(i)
     THEN /\ dir' = [dir EXCEPT ![i].made = TRUE]
          /\ runner' = [runner EXCEPT ![w].phase = "snapshot"]
          /\ UNCHANGED lock
     ELSE Leave(w, "refused") /\ UNCHANGED dir

RunSnapshot(w) ==
  /\ runner[w].phase = "snapshot"
  /\ dir' = [dir EXCEPT ![runner[w].id].manifest = "running"]
  /\ runner' = [runner EXCEPT ![w].phase = "spawn"]
  /\ UNCHANGED lock

\* An input that changes while it is copied ends the attempt; the directory
\* stays, so the id is used up.
InputChanges(w) ==
  /\ runner[w].phase = "snapshot"
  /\ Leave(w, "failed")
  /\ UNCHANGED dir

-----------------------------------------------------------------------------
(* _drain_child.                                                           *)

RunSpawn(w) ==
  /\ runner[w].phase = "spawn"
  /\ \/ runner' = [runner EXCEPT ![w] = [@ EXCEPT !.phase = "drain", !.child = "running"]]
     \/ runner' = [runner EXCEPT ![w] = [@ EXCEPT !.phase = "settle", !.status = "failed"]]
  /\ UNCHANGED <<dir, lock>>

ChildWrites(w) ==
  /\ Alive(w)
  /\ dir[runner[w].id].files < LastWrite
  /\ dir' = [dir EXCEPT ![runner[w].id].files = @ + 1]
  /\ UNCHANGED <<runner, lock>>

\* A child that closes both pipes is no longer under the timeout: the loop
\* ends with its map of open pipes and wait() has no limit.
ChildDetaches(w) ==
  /\ runner[w].child = "running" /\ runner[w].phase = "drain"
  /\ runner' = [runner EXCEPT ![w].child = "detached"]
  /\ UNCHANGED <<dir, lock>>

ChildExits(w) ==
  /\ Alive(w)
  /\ \E status \in {"completed", "failed"} :
       runner' = [runner EXCEPT ![w] =
                    [@ EXCEPT !.child = "exited",
                              !.status = IF runner[w].status = "timed_out" THEN "timed_out" ELSE status]]
  /\ UNCHANGED <<dir, lock>>

\* SIGTERM first, SIGKILL five seconds later if the pipes are still open.
RunTimeout(w) ==
  /\ runner[w].phase = "drain" /\ runner[w].child = "running"
  /\ runner' = [runner EXCEPT ![w] =
                  IF @.status = "timed_out" THEN [@ EXCEPT !.child = "exited"]
                  ELSE [@ EXCEPT !.status = "timed_out"]]
  /\ UNCHANGED <<dir, lock>>

DrainedMutant(w) == runner[w].child # "running"
Drained(w) == runner[w].child = "exited"

RunDrained(w) ==
  /\ runner[w].phase = "drain"
  /\ Drained(w)
  /\ runner' = [runner EXCEPT ![w].phase = "settle"]
  /\ UNCHANGED <<dir, lock>>

\* An error of the runner itself, for instance a full disk under its log: the
\* child is not killed.
RunDrainFails(w) ==
  /\ runner[w].phase = "drain"
  /\ runner' = [runner EXCEPT ![w] = [@ EXCEPT !.phase = "settle", !.status = "failed",
                                               !.dropped = Alive(w)]]
  /\ UNCHANGED <<dir, lock>>

-----------------------------------------------------------------------------
(* The terminal manifest, then the receipt over all files.                 *)

RunSettle(w) ==
  /\ runner[w].phase = "settle"
  /\ dir' = [dir EXCEPT ![runner[w].id].manifest = runner[w].status]
  /\ runner' = [runner EXCEPT ![w].phase = "receipt"]
  /\ UNCHANGED lock

RunReceipt(w) ==
  /\ runner[w].phase = "receipt"
  /\ LET i == runner[w].id IN
     dir' = [dir EXCEPT ![i].receipt = [status |-> runner[w].status, files |-> dir[i].files]]
  /\ Leave(w, "done")

\* The runner is killed: the kernel drops its flock.
RunCrash(w) ==
  /\ runner[w].phase \in {"lock"} \cup Holding
  /\ runner' = [runner EXCEPT ![w] = [@ EXCEPT !.phase = "crashed", !.dropped = Alive(w)]]
  /\ lock' = Unlocked(w)
  /\ UNCHANGED dir

-----------------------------------------------------------------------------
RunInit ==
  /\ dir = [i \in RunIds |-> NoDir]
  /\ runner = [w \in Runners |-> [phase |-> "start", id |-> Nobody, child |-> "none",
                                  status |-> "none", dropped |-> FALSE]]
  /\ lock = Nobody

RunNext ==
  \E w \in Runners :
    \/ \E i \in RunIds : RunAdmit(w, i)
    \/ RunLock(w) \/ RunMkdir(w) \/ RunSnapshot(w) \/ InputChanges(w) \/ RunSpawn(w)
    \/ RunTimeout(w) \/ RunDrained(w) \/ RunSettle(w) \/ RunReceipt(w)
    \/ ChildWrites(w) \/ ChildDetaches(w) \/ ChildExits(w)
    \/ RunDrainFails(w) \/ RunCrash(w)

RunSpec == RunInit /\ [][RunNext]_runVars

-----------------------------------------------------------------------------
(* Properties.                                                             *)

\* Types.
RunTypeOK ==
  /\ dir \in [RunIds -> [made : BOOLEAN, manifest : {"none", "running"} \cup Terminal,
                         files : 0..LastWrite,
                         receipt : [status : {"none"} \cup Terminal, files : 0..LastWrite]]]
  /\ runner \in [Runners ->
       [phase : {"start", "lock", "refused", "failed", "done", "crashed"} \cup Holding,
        id : RunIds \cup {Nobody}, child : {"none", "running", "detached", "exited"},
        status : {"none"} \cup Terminal, dropped : BOOLEAN]]
  /\ lock \in Runners \cup {Nobody}

\* A receipt is the last word on a run id: no later attempt changes it or the
\* manifest under it ("IDs are never reused").
ReceiptIsFinal ==
  \A i \in RunIds : dir[i].receipt # NoReceipt =>
     /\ dir'[i].receipt = dir[i].receipt
     /\ dir'[i].manifest = dir[i].manifest

\* The children of one resource group run one at a time, except for a child
\* its runner has dropped, by dying or by an error while draining it.
GroupRunsAlone ==
  \A v, w \in Runners : v # w /\ Alive(v) /\ Alive(w) => runner[v].dropped \/ runner[w].dropped

\* A receipt describes the files as they are, unless the runner dropped the
\* child and it went on writing.
ReceiptMatchesFiles ==
  \A w \in Runners : runner[w].phase = "done" /\ ~runner[w].dropped =>
    LET d == dir[runner[w].id] IN d.receipt.files = d.files

\* Only an attempt that holds, or held, the resource group uses up a run id:
\* one that is turned away by a busy group leaves the id to a later attempt.
IdsAreUsedByRuns ==
  \A i \in RunIds : dir[i].made =>
    \E w \in Runners : runner[w].id = i /\ runner[w].phase \notin {"start", "lock", "refused"}

=============================================================================
