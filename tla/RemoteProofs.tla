---------------------------- MODULE RemoteProofs ----------------------------
(***************************************************************************)
(* What runs on the remote machine, proved for any number of processes.    *)
(*                                                                         *)
(* A release from its publication to the evidence of its runs: for any     *)
(* number of publishers, runners, run ids and pulls the books of the chain *)
(* are sound, and what was published, received or recorded is not taken    *)
(* back.  First the runs of one resource group.  Orderly is the inductive  *)
(* invariant: an invocation is inside the group exactly while it has the   *)
(* lock; a child outlives its drain only if it was dropped; and since a    *)
(* run directory is made once, two invocations that use a directory are    *)
(* one.  Then the types of the store and of the evidence are added, and    *)
(* the promises that the steps of publishers, operator and pulls keep.     *)
(*                                                                         *)
(* A deployed suite: for any number of overlapping installations,          *)
(* launches, serially gated cells and commits, with every process dying    *)
(* anywhere, the two status files agree, cells succeed in order under one  *)
(* deployment, no cell succeeds twice from one Results, and no formal      *)
(* witness is lost.  The gate reads files, the properties are about        *)
(* launches.  Launched ties the two together: the marks in a run directory *)
(* name launches of its cell that were past the write of it (Evident),     *)
(* wherever installations have carried the directory (Carried); what the   *)
(* gate read therefore stays true of the launches when the files are moved *)
(* away (Gated), and the log of a launch that may still succeed is         *)
(* somewhere (Logged).  Of the installations this needs only that one      *)
(* under way has a backup of its own, empty where it is about to be filled *)
(* (Numbered, BackupsUsed).                                                *)
(***************************************************************************)
EXTENDS MCReleaseChain, RemoteLaunch, TLAPS

-----------------------------------------------------------------------------
(* The release chain: the runs of one resource group.                      *)

RunPhases == {"start", "lock", "refused", "failed", "done", "crashed"} \cup Holding
Children == {"none", "running", "detached", "exited"}
RunEnded == {"failed", "done", "crashed"}

RunnerRecs == [phase : RunPhases, id : RunIds \cup {Nobody}, child : Children,
               status : {"none"} \cup Terminal, dropped : BOOLEAN]
DirRecs == [made : BOOLEAN, manifest : {"none", "running"} \cup Terminal,
            files : 0..LastWrite, receipt : [status : {"none"} \cup Terminal, files : 0..LastWrite]]

Uses(w) == runner[w].child # "none" \/ runner[w].phase \in Owned \cup {"done"}

LockHeld == \A w \in Runners : runner[w].phase \in Holding <=> lock = w
IdKnown == \A w \in Runners : runner[w].phase # "start" => runner[w].id \in RunIds
ChildKnown ==
  \A w \in Runners : runner[w].child # "none" =>
    runner[w].phase \in {"drain", "settle", "receipt"} \cup RunEnded
ChildDrained == \A w \in Runners : Alive(w) /\ ~runner[w].dropped => runner[w].phase = "drain"
UsedIsMade == \A w \in Runners : Uses(w) => dir[runner[w].id].made
UsersApart == \A v, w \in Runners : Uses(v) /\ Uses(w) /\ runner[v].id = runner[w].id => v = w
ReceiptIsLast ==
  /\ \A w \in Runners : runner[w].phase \in Owned => dir[runner[w].id].receipt = NoReceipt
  /\ \A i \in RunIds : dir[i].receipt # NoReceipt => dir[i].made
MadeByRun ==
  \A i \in RunIds : dir[i].made =>
    \E w \in Runners : runner[w].id = i /\ runner[w].phase \in Owned \cup RunEnded

Orderly ==
  /\ RunTypeOK /\ LockHeld /\ IdKnown /\ ChildKnown /\ ChildDrained
  /\ UsedIsMade /\ UsersApart /\ ReceiptIsLast /\ MadeByRun /\ ReceiptMatchesFiles

-----------------------------------------------------------------------------
\* The start: no directory, no child, a free lock.
LEMMA InitOrderly == RunInit => Orderly
BY RunAssumption
   DEF RunInit, Orderly, RunTypeOK, LockHeld, IdKnown, ChildKnown, ChildDrained, UsedIsMade,
       UsersApart, ReceiptIsLast, MadeByRun, ReceiptMatchesFiles, Uses, Alive, Holding, Owned,
       NoDir, NoReceipt, Terminal

-----------------------------------------------------------------------------
(* Steps that neither make a directory nor write files or a receipt *)

\* What such a step of w may do: nobody else is affected, w comes to use no
\* directory, and the lock goes with the phase.
Others(w) ==
  \A v \in Runners : v # w => runner'[v] = runner[v] /\ (lock' = v <=> lock = v)

OwnPhase(w) ==
  /\ runner'[w].phase \in Holding <=> lock' = w
  /\ runner'[w].phase # "start" => runner'[w].id \in RunIds
  /\ runner'[w].child # "none" =>
       runner'[w].phase \in {"drain", "settle", "receipt"} \cup RunEnded
  /\ Alive(w)' /\ ~runner'[w].dropped => runner'[w].phase = "drain"

OwnRun(w) ==
  /\ Uses(w)' => Uses(w) /\ runner'[w].id = runner[w].id
  /\ runner'[w].phase \in Owned => runner[w].phase \in Owned
  /\ runner[w].phase \in Owned \cup RunEnded =>
       runner'[w].phase \in Owned \cup RunEnded /\ runner'[w].id = runner[w].id
  /\ runner'[w].phase = "done" /\ ~runner'[w].dropped =>
       runner[w].phase = "done" /\ ~runner[w].dropped

SameDirs ==
  \A i \in RunIds :
    /\ dir'[i].made = dir[i].made /\ dir'[i].files = dir[i].files
    /\ dir'[i].receipt = dir[i].receipt
    /\ dir[i].receipt # NoReceipt => dir'[i].manifest = dir[i].manifest

LEMMA PlainStep ==
  ASSUME Orderly, NEW w \in Runners, RunTypeOK', Others(w), OwnPhase(w), OwnRun(w), SameDirs
  PROVE  Orderly' /\ ReceiptIsFinal
<1> USE DEF Others
<1>1. LockHeld' /\ IdKnown' /\ ChildKnown'
  BY DEF Orderly, OwnPhase, LockHeld, IdKnown, ChildKnown
<1>2. ChildDrained'
  BY DEF Orderly, OwnPhase, ChildDrained, Alive
<1>3. \A v \in Runners : Uses(v)' => Uses(v) /\ runner'[v].id = runner[v].id
  BY DEF OwnRun, Uses
<1>4. \A v \in Runners : Uses(v) => runner[v].id \in RunIds
  BY DEF Orderly, IdKnown, ChildKnown, Uses, Owned, RunEnded
<1>5. UsedIsMade' /\ UsersApart'
  BY <1>3, <1>4 DEF Orderly, UsedIsMade, UsersApart, SameDirs
<1>6. ReceiptIsLast'
  <2>1. \A v \in Runners : runner'[v].phase \in Owned => runner[v].phase \in Owned /\ Uses(v)'
    BY DEF OwnRun, Uses
  <2> QED
    BY <1>3, <1>4, <2>1 DEF Orderly, ReceiptIsLast, SameDirs
<1>7. MadeByRun'
  BY DEF Orderly, MadeByRun, OwnRun, SameDirs
<1>8. ReceiptMatchesFiles'
  <2>1. \A v \in Runners : runner'[v].phase = "done" /\ ~runner'[v].dropped =>
          runner[v].phase = "done" /\ ~runner[v].dropped /\ Uses(v)'
    BY DEF OwnRun, Uses
  <2> QED
    BY <1>3, <1>4, <2>1 DEF Orderly, ReceiptMatchesFiles, SameDirs
<1>9. ReceiptIsFinal
  BY DEF ReceiptIsFinal, SameDirs
<1> QED
  BY <1>1, <1>2, <1>5, <1>6, <1>7, <1>8, <1>9 DEF Orderly

\* Whether the child is alive is a truth value.
LEMMA AliveIsBoolean == ASSUME NEW w PROVE Alive(w) \in BOOLEAN
BY DEF Alive

\* What a runner's record becomes when a step changes some of its fields.
LEMMA Changed ==
  ASSUME NEW r \in RunnerRecs
  PROVE  /\ \A ph \in RunPhases, c \in Children :
              [r EXCEPT !.phase = ph, !.child = c] \in RunnerRecs
         /\ \A ph \in RunPhases, st \in {"none"} \cup Terminal :
              [r EXCEPT !.phase = ph, !.status = st] \in RunnerRecs
         /\ \A c \in Children, st \in {"none"} \cup Terminal :
              [r EXCEPT !.child = c, !.status = st] \in RunnerRecs
         /\ \A ph \in RunPhases, b \in BOOLEAN :
              [r EXCEPT !.phase = ph, !.dropped = b] \in RunnerRecs
         /\ \A ph \in RunPhases, st \in {"none"} \cup Terminal, b \in BOOLEAN :
              [r EXCEPT !.phase = ph, !.status = st, !.dropped = b] \in RunnerRecs
BY DEF RunnerRecs

\* Each of the plain steps is one.
LEMMA AdmitPlain ==
  ASSUME Orderly, NEW w \in Runners, NEW i \in RunIds, RunAdmit(w, i)
  PROVE  RunTypeOK' /\ Others(w) /\ OwnPhase(w) /\ OwnRun(w) /\ SameDirs
<1> USE RunAssumption DEF RunAdmit, Holding, Owned
<1>1. RunTypeOK'
  <2>1. runner \in [Runners -> RunnerRecs]
    BY DEF Orderly, RunTypeOK, RunnerRecs, RunPhases, Children
  <2>2. runner'[w] \in RunnerRecs
    BY <2>1 DEF RunnerRecs, RunPhases, Children, Terminal, Alive
  <2>3. runner' \in [Runners -> RunnerRecs]
    BY <2>1, <2>2
  <2> QED
    BY <2>3 DEF Orderly, RunTypeOK, RunnerRecs, RunPhases, Children
<1>2. Others(w)
  BY DEF Orderly, RunTypeOK, LockHeld, Others
<1>3. OwnPhase(w)
  BY DEF Orderly, RunTypeOK, LockHeld, IdKnown, ChildKnown, ChildDrained, OwnPhase, Alive, RunEnded
<1>4. OwnRun(w)
  BY DEF Orderly, RunTypeOK, ChildKnown, OwnRun, Uses, Alive, RunEnded
<1>5. SameDirs
  BY DEF Orderly, RunTypeOK, IdKnown, ReceiptIsLast, SameDirs
<1> QED
  BY <1>1, <1>2, <1>3, <1>4, <1>5

LEMMA LockPlain ==
  ASSUME Orderly, NEW w \in Runners, RunLock(w)
  PROVE  RunTypeOK' /\ Others(w) /\ OwnPhase(w) /\ OwnRun(w) /\ SameDirs
<1> USE RunAssumption DEF RunLock, LockFree, Leave, Unlocked, Holding, Owned
<1>1. RunTypeOK'
  BY DEF Orderly, RunTypeOK, Terminal
<1>2. Others(w)
  BY DEF Orderly, RunTypeOK, LockHeld, Others
<1>3. OwnPhase(w)
  BY DEF Orderly, RunTypeOK, LockHeld, IdKnown, ChildKnown, ChildDrained, OwnPhase, Alive, RunEnded
<1>4. OwnRun(w)
  BY DEF Orderly, RunTypeOK, ChildKnown, OwnRun, Uses, Alive, RunEnded
<1>5. SameDirs
  BY DEF Orderly, RunTypeOK, IdKnown, ReceiptIsLast, SameDirs
<1> QED
  BY <1>1, <1>2, <1>3, <1>4, <1>5

LEMMA RefusePlain ==
  ASSUME Orderly, NEW w \in Runners, RunMkdir(w), ~IdUnused(runner[w].id)
  PROVE  RunTypeOK' /\ Others(w) /\ OwnPhase(w) /\ OwnRun(w) /\ SameDirs
<1> USE RunAssumption DEF RunMkdir, Leave, Unlocked, Holding, Owned
<1>1. RunTypeOK'
  BY DEF Orderly, RunTypeOK, Terminal
<1>2. Others(w)
  BY DEF Orderly, RunTypeOK, LockHeld, Others
<1>3. OwnPhase(w)
  BY DEF Orderly, RunTypeOK, LockHeld, IdKnown, ChildKnown, ChildDrained, OwnPhase, Alive, RunEnded
<1>4. OwnRun(w)
  BY DEF Orderly, RunTypeOK, ChildKnown, OwnRun, Uses, Alive, RunEnded
<1>5. SameDirs
  BY DEF Orderly, RunTypeOK, IdKnown, ReceiptIsLast, SameDirs
<1> QED
  BY <1>1, <1>2, <1>3, <1>4, <1>5

LEMMA SnapshotPlain ==
  ASSUME Orderly, NEW w \in Runners, RunSnapshot(w)
  PROVE  RunTypeOK' /\ Others(w) /\ OwnPhase(w) /\ OwnRun(w) /\ SameDirs
<1> USE RunAssumption DEF RunSnapshot, Holding, Owned
<1>1. RunTypeOK'
  <2>1. runner \in [Runners -> RunnerRecs] /\ dir \in [RunIds -> DirRecs] /\ runner[w].id \in RunIds
    BY DEF Orderly, RunTypeOK, IdKnown, RunnerRecs, DirRecs, RunPhases, Children
  <2>2. runner'[w] \in RunnerRecs
    BY <2>1 DEF RunnerRecs, RunPhases, Children
  <2>3. runner' \in [Runners -> RunnerRecs]
    BY <2>1, <2>2
  <2>4. dir'[runner[w].id] \in DirRecs
    BY <2>1 DEF DirRecs, RunnerRecs
  <2>5. dir' \in [RunIds -> DirRecs]
    BY <2>1, <2>4
  <2> QED
    BY <2>3, <2>5 DEF Orderly, RunTypeOK, RunnerRecs, DirRecs, RunPhases, Children
<1>2. Others(w)
  BY DEF Orderly, RunTypeOK, LockHeld, Others
<1>3. OwnPhase(w)
  BY DEF Orderly, RunTypeOK, LockHeld, IdKnown, ChildKnown, ChildDrained, OwnPhase, Alive, RunEnded
<1>4. OwnRun(w)
  BY DEF Orderly, RunTypeOK, ChildKnown, OwnRun, Uses, Alive, RunEnded
<1>5. SameDirs
  BY DEF Orderly, RunTypeOK, IdKnown, ReceiptIsLast, SameDirs
<1> QED
  BY <1>1, <1>2, <1>3, <1>4, <1>5

LEMMA InputChangesPlain ==
  ASSUME Orderly, NEW w \in Runners, InputChanges(w)
  PROVE  RunTypeOK' /\ Others(w) /\ OwnPhase(w) /\ OwnRun(w) /\ SameDirs
<1> USE RunAssumption DEF InputChanges, Leave, Unlocked, Holding, Owned
<1>1. RunTypeOK'
  BY DEF Orderly, RunTypeOK, Terminal
<1>2. Others(w)
  BY DEF Orderly, RunTypeOK, LockHeld, Others
<1>3. OwnPhase(w)
  BY DEF Orderly, RunTypeOK, LockHeld, IdKnown, ChildKnown, ChildDrained, OwnPhase, Alive, RunEnded
<1>4. OwnRun(w)
  BY DEF Orderly, RunTypeOK, ChildKnown, OwnRun, Uses, Alive, RunEnded
<1>5. SameDirs
  BY DEF Orderly, RunTypeOK, IdKnown, ReceiptIsLast, SameDirs
<1> QED
  BY <1>1, <1>2, <1>3, <1>4, <1>5

LEMMA SpawnPlain ==
  ASSUME Orderly, NEW w \in Runners, RunSpawn(w)
  PROVE  RunTypeOK' /\ Others(w) /\ OwnPhase(w) /\ OwnRun(w) /\ SameDirs
<1> USE RunAssumption DEF RunSpawn, Holding, Owned
<1>0. /\ runner'[w].phase \in {"drain", "settle"} /\ runner'[w].id = runner[w].id
      /\ runner'[w].child \in {"running", runner[w].child}
      /\ runner'[w].child = "running" => runner'[w].phase = "drain" \/ runner[w].child = "running"
      /\ runner[w].phase = "spawn"
  <2>1. runner \in [Runners -> RunnerRecs]
    BY DEF Orderly, RunTypeOK, RunnerRecs, RunPhases, Children
  <2>2. \/ runner'[w] = [runner[w] EXCEPT !.phase = "drain", !.child = "running"]
        \/ runner'[w] = [runner[w] EXCEPT !.phase = "settle", !.status = "failed"]
    BY <2>1
  <2>3. runner[w] \in RunnerRecs
    BY <2>1
  <2>4. CASE runner'[w] = [runner[w] EXCEPT !.phase = "drain", !.child = "running"]
    BY <2>3, <2>4 DEF RunnerRecs
  <2>5. CASE runner'[w] = [runner[w] EXCEPT !.phase = "settle", !.status = "failed"]
    BY <2>3, <2>5 DEF RunnerRecs
  <2> QED
    BY <2>2, <2>4, <2>5
<1>1. RunTypeOK'
  <2>1. runner \in [Runners -> RunnerRecs]
    BY DEF Orderly, RunTypeOK, RunnerRecs, RunPhases, Children
  <2>2. runner'[w] \in RunnerRecs
    <3>1. \/ runner'[w] = [runner[w] EXCEPT !.phase = "drain", !.child = "running"]
          \/ runner'[w] = [runner[w] EXCEPT !.phase = "settle", !.status = "failed"]
      BY <2>1
    <3>2. /\ {"drain", "settle"} \subseteq RunPhases /\ "running" \in Children
          /\ "failed" \in {"none"} \cup Terminal
      BY DEF RunPhases, Children, Terminal
    <3>3. runner[w] \in RunnerRecs
      BY <2>1
    <3>4. /\ [runner[w] EXCEPT !.phase = "drain", !.child = "running"] \in RunnerRecs
          /\ [runner[w] EXCEPT !.phase = "settle", !.status = "failed"] \in RunnerRecs
      BY ONLY <3>2, <3>3, Changed
    <3> QED
      BY ONLY <3>1, <3>4
  <2>3. runner' \in [Runners -> RunnerRecs]
    BY <2>1, <2>2
  <2> QED
    BY <2>3 DEF Orderly, RunTypeOK, RunnerRecs, RunPhases, Children
<1>2. Others(w)
  BY DEF Orderly, RunTypeOK, LockHeld, Others
<1>3. OwnPhase(w)
  <2>1. runner[w].child = "none"
    BY <1>0 DEF Orderly, ChildKnown, RunEnded
  <2> QED
    BY <1>0, <2>1 DEF Orderly, LockHeld, IdKnown, OwnPhase, Alive
<1>4. OwnRun(w)
  BY <1>0 DEF OwnRun, Uses
<1>5. SameDirs
  BY DEF Orderly, RunTypeOK, IdKnown, ReceiptIsLast, SameDirs
<1> QED
  BY <1>1, <1>2, <1>3, <1>4, <1>5

LEMMA DetachPlain ==
  ASSUME Orderly, NEW w \in Runners, ChildDetaches(w)
  PROVE  RunTypeOK' /\ Others(w) /\ OwnPhase(w) /\ OwnRun(w) /\ SameDirs
<1> USE RunAssumption DEF ChildDetaches, Holding, Owned
<1>1. RunTypeOK'
  BY DEF Orderly, RunTypeOK, Terminal
<1>2. Others(w)
  BY DEF Orderly, RunTypeOK, LockHeld, Others
<1>3. OwnPhase(w)
  BY DEF Orderly, RunTypeOK, LockHeld, IdKnown, ChildKnown, ChildDrained, OwnPhase, Alive, RunEnded
<1>4. OwnRun(w)
  BY DEF Orderly, RunTypeOK, ChildKnown, OwnRun, Uses, Alive, RunEnded
<1>5. SameDirs
  BY DEF Orderly, RunTypeOK, IdKnown, ReceiptIsLast, SameDirs
<1> QED
  BY <1>1, <1>2, <1>3, <1>4, <1>5

LEMMA ExitPlain ==
  ASSUME Orderly, NEW w \in Runners, ChildExits(w)
  PROVE  RunTypeOK' /\ Others(w) /\ OwnPhase(w) /\ OwnRun(w) /\ SameDirs
<1> USE RunAssumption DEF ChildExits, Holding, Owned
<1>1. RunTypeOK'
  <2>1. runner \in [Runners -> RunnerRecs]
    BY DEF Orderly, RunTypeOK, RunnerRecs, RunPhases, Children
  <2>2. runner'[w] \in RunnerRecs
    <3>1. PICK st \in {"completed", "failed", "timed_out"} :
            runner'[w] = [runner[w] EXCEPT !.child = "exited", !.status = st]
      BY <2>1
    <3>2. "exited" \in Children /\ st \in {"none"} \cup Terminal
      BY DEF Children, Terminal
    <3>3. runner[w] \in RunnerRecs
      BY <2>1
    <3>4. [runner[w] EXCEPT !.child = "exited", !.status = st] \in RunnerRecs
      BY ONLY <3>2, <3>3, Changed
    <3> QED
      BY ONLY <3>1, <3>4
  <2>3. runner' \in [Runners -> RunnerRecs]
    BY <2>1, <2>2
  <2> QED
    BY <2>3 DEF Orderly, RunTypeOK, RunnerRecs, RunPhases, Children
<1>2. Others(w)
  BY DEF Orderly, RunTypeOK, LockHeld, Others
<1>3. OwnPhase(w)
  BY DEF Orderly, RunTypeOK, LockHeld, IdKnown, ChildKnown, ChildDrained, OwnPhase, Alive, RunEnded
<1>4. OwnRun(w)
  BY DEF Orderly, RunTypeOK, ChildKnown, OwnRun, Uses, Alive, RunEnded
<1>5. SameDirs
  BY DEF Orderly, RunTypeOK, IdKnown, ReceiptIsLast, SameDirs
<1> QED
  BY <1>1, <1>2, <1>3, <1>4, <1>5

LEMMA TimeoutPlain ==
  ASSUME Orderly, NEW w \in Runners, RunTimeout(w)
  PROVE  RunTypeOK' /\ Others(w) /\ OwnPhase(w) /\ OwnRun(w) /\ SameDirs
<1> USE RunAssumption DEF RunTimeout, Holding, Owned
<1>1. RunTypeOK'
  BY DEF Orderly, RunTypeOK, Terminal
<1>2. Others(w)
  BY DEF Orderly, RunTypeOK, LockHeld, Others
<1>3. OwnPhase(w)
  BY DEF Orderly, RunTypeOK, LockHeld, IdKnown, ChildKnown, ChildDrained, OwnPhase, Alive, RunEnded
<1>4. OwnRun(w)
  BY DEF Orderly, RunTypeOK, ChildKnown, OwnRun, Uses, Alive, RunEnded
<1>5. SameDirs
  BY DEF Orderly, RunTypeOK, IdKnown, ReceiptIsLast, SameDirs
<1> QED
  BY <1>1, <1>2, <1>3, <1>4, <1>5

LEMMA DrainedPlain ==
  ASSUME Orderly, NEW w \in Runners, RunDrained(w)
  PROVE  RunTypeOK' /\ Others(w) /\ OwnPhase(w) /\ OwnRun(w) /\ SameDirs
<1> USE RunAssumption DEF RunDrained, Drained, Holding, Owned
<1>1. RunTypeOK'
  BY DEF Orderly, RunTypeOK, Terminal
<1>2. Others(w)
  BY DEF Orderly, RunTypeOK, LockHeld, Others
<1>3. OwnPhase(w)
  BY DEF Orderly, RunTypeOK, LockHeld, IdKnown, ChildKnown, ChildDrained, OwnPhase, Alive, RunEnded
<1>4. OwnRun(w)
  BY DEF Orderly, RunTypeOK, ChildKnown, OwnRun, Uses, Alive, RunEnded
<1>5. SameDirs
  BY DEF Orderly, RunTypeOK, IdKnown, ReceiptIsLast, SameDirs
<1> QED
  BY <1>1, <1>2, <1>3, <1>4, <1>5

LEMMA DrainFailsPlain ==
  ASSUME Orderly, NEW w \in Runners, RunDrainFails(w)
  PROVE  RunTypeOK' /\ Others(w) /\ OwnPhase(w) /\ OwnRun(w) /\ SameDirs
<1> USE RunAssumption DEF RunDrainFails, Holding, Owned
<1>1. RunTypeOK'
  <2>1. runner \in [Runners -> RunnerRecs]
    BY DEF Orderly, RunTypeOK, RunnerRecs, RunPhases, Children
  <2>2. runner'[w] \in RunnerRecs
    <3>1. runner'[w] = [runner[w] EXCEPT !.phase = "settle", !.status = "failed",
                                         !.dropped = Alive(w)]
      BY <2>1
    <3>2. "settle" \in RunPhases /\ "failed" \in {"none"} \cup Terminal
      BY DEF RunPhases, Terminal
    <3> QED
      BY <2>1, <3>1, <3>2, Changed, AliveIsBoolean
  <2>3. runner' \in [Runners -> RunnerRecs]
    BY <2>1, <2>2
  <2> QED
    BY <2>3 DEF Orderly, RunTypeOK, RunnerRecs, RunPhases, Children
<1>2. Others(w)
  BY DEF Orderly, RunTypeOK, LockHeld, Others
<1>3. OwnPhase(w)
  <2>1. /\ runner'[w].phase = "settle" /\ runner'[w].child = runner[w].child
        /\ runner'[w].id = runner[w].id /\ runner'[w].dropped = Alive(w)
    BY DEF Orderly, RunTypeOK
  <2>2. Alive(w)' <=> Alive(w)
    BY <2>1 DEF Alive
  <2>3. /\ lock' = w <=> runner'[w].phase \in Holding
        /\ runner[w].phase # "start" /\ runner[w].id \in RunIds
    BY <2>1, RunAssumption DEF Orderly, RunTypeOK, LockHeld, IdKnown
  <2> QED
    BY <2>1, <2>2, <2>3 DEF OwnPhase, RunEnded
<1>4. OwnRun(w)
  BY DEF Orderly, RunTypeOK, ChildKnown, OwnRun, Uses, Alive, RunEnded
<1>5. SameDirs
  BY DEF Orderly, RunTypeOK, IdKnown, ReceiptIsLast, SameDirs
<1> QED
  BY <1>1, <1>2, <1>3, <1>4, <1>5

LEMMA SettlePlain ==
  ASSUME Orderly, NEW w \in Runners, RunSettle(w)
  PROVE  RunTypeOK' /\ Others(w) /\ OwnPhase(w) /\ OwnRun(w) /\ SameDirs
<1> USE RunAssumption DEF RunSettle, Holding, Owned
<1>1. RunTypeOK'
  <2>1. runner \in [Runners -> RunnerRecs] /\ dir \in [RunIds -> DirRecs] /\ runner[w].id \in RunIds
    BY DEF Orderly, RunTypeOK, IdKnown, RunnerRecs, DirRecs, RunPhases, Children
  <2>2. runner'[w] \in RunnerRecs
    BY <2>1 DEF RunnerRecs, RunPhases, Children
  <2>3. runner' \in [Runners -> RunnerRecs]
    BY <2>1, <2>2
  <2>4. dir'[runner[w].id] \in DirRecs
    BY <2>1 DEF DirRecs, RunnerRecs, Orderly
  <2>5. dir' \in [RunIds -> DirRecs]
    BY <2>1, <2>4
  <2> QED
    BY <2>3, <2>5 DEF Orderly, RunTypeOK, RunnerRecs, DirRecs, RunPhases, Children
<1>2. Others(w)
  BY DEF Orderly, RunTypeOK, LockHeld, Others
<1>3. OwnPhase(w)
  BY DEF Orderly, RunTypeOK, LockHeld, IdKnown, ChildKnown, ChildDrained, OwnPhase, Alive, RunEnded
<1>4. OwnRun(w)
  BY DEF Orderly, RunTypeOK, ChildKnown, OwnRun, Uses, Alive, RunEnded
<1>5. SameDirs
  BY DEF Orderly, RunTypeOK, IdKnown, ReceiptIsLast, SameDirs
<1> QED
  BY <1>1, <1>2, <1>3, <1>4, <1>5

LEMMA CrashPlain ==
  ASSUME Orderly, NEW w \in Runners, RunCrash(w)
  PROVE  RunTypeOK' /\ Others(w) /\ OwnPhase(w) /\ OwnRun(w) /\ SameDirs
<1> USE RunAssumption DEF RunCrash, Unlocked, Holding, Owned
<1>1. RunTypeOK'
  <2>1. runner \in [Runners -> RunnerRecs]
    BY DEF Orderly, RunTypeOK, RunnerRecs, RunPhases, Children
  <2>2. runner'[w] \in RunnerRecs
    <3>1. runner'[w] = [runner[w] EXCEPT !.phase = "crashed", !.dropped = Alive(w)]
      BY <2>1
    <3>2. "crashed" \in RunPhases
      BY DEF RunPhases
    <3> QED
      BY <2>1, <3>1, <3>2, Changed, AliveIsBoolean
  <2>3. runner' \in [Runners -> RunnerRecs]
    BY <2>1, <2>2
  <2> QED
    BY <2>3 DEF Orderly, RunTypeOK, RunnerRecs, RunPhases, Children
<1>2. Others(w)
  BY DEF Orderly, RunTypeOK, LockHeld, Others
<1>3. OwnPhase(w)
  <2>1. /\ runner'[w].phase = "crashed" /\ runner'[w].child = runner[w].child
        /\ runner'[w].id = runner[w].id /\ runner'[w].dropped = Alive(w)
    BY DEF Orderly, RunTypeOK
  <2>2. Alive(w)' <=> Alive(w)
    BY <2>1 DEF Alive
  <2>3. /\ lock' = w <=> runner'[w].phase \in Holding
        /\ runner[w].phase # "start" /\ runner[w].id \in RunIds
    BY <2>1, RunAssumption DEF Orderly, RunTypeOK, LockHeld, IdKnown
  <2> QED
    BY <2>1, <2>2, <2>3 DEF OwnPhase, RunEnded
<1>4. OwnRun(w)
  BY DEF Orderly, RunTypeOK, ChildKnown, OwnRun, Uses, Alive, RunEnded
<1>5. SameDirs
  BY DEF Orderly, RunTypeOK, IdKnown, ReceiptIsLast, SameDirs
<1> QED
  BY <1>1, <1>2, <1>3, <1>4, <1>5

-----------------------------------------------------------------------------
(* Steps that make a directory, write a file or write the receipt *)

\* A directory is made by one run only: nobody used the id before.
LEMMA MkdirOrderly ==
  ASSUME Orderly, NEW w \in Runners, RunMkdir(w), IdUnused(runner[w].id)
  PROVE  Orderly' /\ ReceiptIsFinal
<1> DEFINE i == runner[w].id
<1>1. i \in RunIds /\ ~dir[i].made /\ runner[w].phase = "mkdir" /\ runner[w].child = "none"
  BY DEF RunMkdir, IdUnused, Orderly, IdKnown, ChildKnown, RunEnded
<1>2. /\ dir' = [dir EXCEPT ![i].made = TRUE]
      /\ runner' = [runner EXCEPT ![w].phase = "snapshot"] /\ lock' = lock
  BY DEF RunMkdir
<1>3. /\ dir \in [RunIds -> DirRecs] /\ runner \in [Runners -> RunnerRecs]
  BY DEF Orderly, RunTypeOK, DirRecs, RunnerRecs, RunPhases, Children
<1>4. /\ \A v \in Runners : v # w => runner'[v] = runner[v]
      /\ runner'[w].phase = "snapshot" /\ runner'[w].id = i /\ runner'[w].child = "none"
      /\ \A j \in RunIds : /\ j # i => dir'[j] = dir[j]
                          /\ dir'[j].receipt = dir[j].receipt /\ dir'[j].files = dir[j].files
                          /\ dir'[j].manifest = dir[j].manifest
      /\ dir'[i].made
  BY <1>1, <1>2, <1>3 DEF DirRecs, RunnerRecs
<1>5. RunTypeOK'
  <2>1. runner' \in [Runners -> RunnerRecs]
    BY <1>2, <1>3 DEF RunnerRecs, RunPhases, Holding, Owned
  <2>2. dir' \in [RunIds -> DirRecs]
    BY <1>1, <1>2, <1>3 DEF DirRecs
  <2>3. lock' \in Runners \cup {Nobody}
    BY <1>2 DEF Orderly, RunTypeOK
  <2> QED
    BY <2>1, <2>2, <2>3 DEF RunTypeOK, DirRecs, RunnerRecs, RunPhases, Children
<1>6. LockHeld' /\ IdKnown' /\ ChildKnown' /\ ChildDrained'
  BY <1>1, <1>2, <1>4
     DEF Orderly, LockHeld, IdKnown, ChildKnown, ChildDrained, Alive, Holding, Owned
<1>7. \A v \in Runners : Uses(v)' => v = w \/ (Uses(v) /\ runner'[v].id # i)
  BY <1>1, <1>4 DEF Orderly, UsedIsMade, Uses
<1>8. UsedIsMade' /\ UsersApart'
  <2>1. \A v \in Runners : Uses(v) => runner[v].id \in RunIds
    BY DEF Orderly, IdKnown, ChildKnown, Uses, Owned, RunEnded
  <2> QED
    BY <1>4, <1>7, <2>1 DEF Orderly, UsedIsMade, UsersApart
<1>9. ReceiptIsLast'
  <2>1. dir[i].receipt = NoReceipt
    BY <1>1 DEF Orderly, ReceiptIsLast
  <2>2. \A v \in Runners : runner[v].phase \in Owned => runner[v].id \in RunIds
    BY DEF Orderly, IdKnown, Owned
  <2>3. \A j \in RunIds : dir[j].made => dir'[j].made
    BY <1>4
  <2> QED
    BY <1>1, <1>4, <2>1, <2>2, <2>3 DEF Orderly, ReceiptIsLast
<1>10. MadeByRun'
  <2> SUFFICES ASSUME NEW j \in RunIds, dir'[j].made
               PROVE  \E v \in Runners : runner'[v].id = j /\ runner'[v].phase \in Owned \cup RunEnded
    BY DEF MadeByRun
  <2>1. CASE j = i
    BY <1>4, <2>1 DEF Owned
  <2>2. CASE j # i
    <3>1. PICK v \in Runners : runner[v].id = j /\ runner[v].phase \in Owned \cup RunEnded
      BY <1>4, <2>2 DEF Orderly, MadeByRun
    <3> QED
      BY <1>4, <2>2, <3>1
  <2> QED
    BY <2>1, <2>2
<1>11. ReceiptMatchesFiles'
  <2>1. \A v \in Runners : runner[v].phase = "done" => runner[v].id \in RunIds
    BY DEF Orderly, IdKnown
  <2> QED
    BY <1>4, <2>1 DEF Orderly, ReceiptMatchesFiles
<1>12. ReceiptIsFinal
  BY <1>4 DEF ReceiptIsFinal
<1> QED
  BY <1>5, <1>6, <1>8, <1>9, <1>10, <1>11, <1>12 DEF Orderly

\* A child writes into the directory of its own run, whose receipt, if any, is
\* that of a runner which dropped it.
LEMMA WriteOrderly ==
  ASSUME Orderly, NEW w \in Runners, ChildWrites(w)
  PROVE  Orderly' /\ ReceiptIsFinal
<1> DEFINE i == runner[w].id
<1>1. Uses(w) /\ i \in RunIds /\ Alive(w)
  BY DEF ChildWrites, Alive, Uses, Orderly, IdKnown, ChildKnown, RunEnded
<1>2. /\ dir' = [dir EXCEPT ![i].files = @ + 1] /\ dir[i].files < LastWrite
      /\ UNCHANGED <<runner, lock>>
  BY DEF ChildWrites
<1>3. dir \in [RunIds -> DirRecs]
  BY DEF Orderly, RunTypeOK, DirRecs
<1>4. \A j \in RunIds : /\ j # i => dir'[j] = dir[j]
                       /\ dir'[j].receipt = dir[j].receipt /\ dir'[j].made = dir[j].made
                       /\ dir'[j].manifest = dir[j].manifest
  BY <1>2, <1>3 DEF DirRecs
<1>5. RunTypeOK'
  <2>1. dir[i].files + 1 \in 0..LastWrite
    BY <1>1, <1>2, <1>3, RunAssumption DEF DirRecs
  <2>2. dir' \in [RunIds -> DirRecs]
    BY <1>1, <1>2, <1>3, <2>1 DEF DirRecs
  <2> QED
    BY <1>2, <2>2 DEF Orderly, RunTypeOK, DirRecs
<1>6. LockHeld' /\ IdKnown' /\ ChildKnown' /\ ChildDrained' /\ UsersApart'
  BY <1>2 DEF Orderly, LockHeld, IdKnown, ChildKnown, ChildDrained, Alive, UsersApart, Uses
<1>7. \A v \in Runners : Uses(v) => runner[v].id \in RunIds
  BY DEF Orderly, IdKnown, ChildKnown, Uses, Owned, RunEnded
<1>8. UsedIsMade' /\ ReceiptIsLast' /\ MadeByRun'
  <2>1. UsedIsMade'
    BY <1>2, <1>4, <1>7 DEF Orderly, UsedIsMade, Uses
  <2>2. ReceiptIsLast'
    BY <1>2, <1>4, <1>7 DEF Orderly, ReceiptIsLast, Uses
  <2>3. MadeByRun'
    BY <1>2, <1>4 DEF Orderly, MadeByRun
  <2> QED
    BY <2>1, <2>2, <2>3
<1>9. ReceiptMatchesFiles'
  <2> SUFFICES ASSUME NEW v \in Runners, runner[v].phase = "done", ~runner[v].dropped
               PROVE  dir'[runner[v].id].receipt.files = dir'[runner[v].id].files
    BY <1>2 DEF ReceiptMatchesFiles
  <2>1. Uses(v)
    BY DEF Uses
  <2>2. v # w
    BY <1>1 DEF Orderly, ChildDrained
  <2>3. runner[v].id # i
    BY <1>1, <2>1, <2>2 DEF Orderly, UsersApart
  <2>4. dir[runner[v].id].receipt.files = dir[runner[v].id].files
    BY DEF Orderly, ReceiptMatchesFiles
  <2> QED
    BY <1>4, <1>7, <2>1, <2>3, <2>4
<1>10. ReceiptIsFinal
  BY <1>4 DEF ReceiptIsFinal
<1> QED
  BY <1>5, <1>6, <1>8, <1>9, <1>10 DEF Orderly

\* The receipt describes the files of its moment; the child is gone or dropped.
LEMMA ReceiptOrderly ==
  ASSUME Orderly, NEW w \in Runners, RunReceipt(w)
  PROVE  Orderly' /\ ReceiptIsFinal
<1> DEFINE i == runner[w].id
<1>1. i \in RunIds /\ runner[w].phase = "receipt" /\ Uses(w) /\ lock = w
  BY DEF RunReceipt, Uses, Orderly, IdKnown, LockHeld, Owned, Holding
<1>2. /\ dir' = [dir EXCEPT ![i].receipt = [status |-> runner[w].status, files |-> dir[i].files]]
      /\ runner' = [runner EXCEPT ![w].phase = "done"]
      /\ lock' = Nobody
  BY <1>1 DEF RunReceipt, Leave, Unlocked
<1>3. /\ dir \in [RunIds -> DirRecs] /\ runner \in [Runners -> RunnerRecs]
  BY DEF Orderly, RunTypeOK, DirRecs, RunnerRecs, RunPhases, Children
<1>4. /\ \A v \in Runners : v # w => runner'[v] = runner[v]
      /\ runner'[w].phase = "done" /\ runner'[w].id = i /\ runner'[w].child = runner[w].child
      /\ \A j \in RunIds : /\ j # i => dir'[j] = dir[j]
                          /\ dir'[j].made = dir[j].made /\ dir'[j].files = dir[j].files
                          /\ dir'[j].manifest = dir[j].manifest
      /\ dir'[i].receipt.files = dir[i].files
      /\ runner'[w].dropped = runner[w].dropped
  BY <1>1, <1>2, <1>3 DEF DirRecs, RunnerRecs
<1>5. RunTypeOK'
  <2>1. runner' \in [Runners -> RunnerRecs]
    BY <1>1, <1>2, <1>3 DEF RunnerRecs, RunPhases
  <2>2. [status |-> runner[w].status, files |-> dir[i].files]
          \in [status : {"none"} \cup Terminal, files : 0..LastWrite]
    BY <1>1, <1>3 DEF DirRecs, RunnerRecs
  <2>3. dir' \in [RunIds -> DirRecs]
    BY <1>1, <1>2, <1>3, <2>2 DEF DirRecs
  <2> QED
    BY <1>2, <2>1, <2>3 DEF RunTypeOK, DirRecs, RunnerRecs, RunPhases, Children
<1>6. LockHeld'
  BY <1>1, <1>2, <1>4, RunAssumption DEF Orderly, LockHeld, Holding, Owned
<1>7. IdKnown' /\ ChildKnown'
  BY <1>1, <1>4 DEF Orderly, IdKnown, ChildKnown, RunEnded
<1>8. Alive(w) => runner[w].dropped
  BY <1>1 DEF Orderly, ChildDrained
<1>9. ChildDrained'
  BY <1>4, <1>8 DEF Orderly, ChildDrained, Alive
<1>10. \A v \in Runners :
         Uses(v)' => Uses(v) /\ runner'[v].id = runner[v].id /\ runner[v].id \in RunIds
  BY <1>1, <1>4 DEF Orderly, IdKnown, ChildKnown, Uses, Owned, RunEnded
<1>11. UsedIsMade' /\ UsersApart'
  BY <1>4, <1>10 DEF Orderly, UsedIsMade, UsersApart
<1>12. dir[i].made /\ dir[i].receipt = NoReceipt
  BY <1>1 DEF Orderly, UsedIsMade, ReceiptIsLast, Owned
<1>13. ReceiptIsLast'
  <2>1. \A v \in Runners : runner'[v].phase \in Owned =>
          v # w /\ runner[v].id # i /\ runner[v].id \in RunIds
    BY <1>1, <1>4 DEF Orderly, UsersApart, Uses, IdKnown, Owned
  <2> QED
    BY <1>4, <1>12, <2>1 DEF Orderly, ReceiptIsLast
<1>14. MadeByRun'
  BY <1>1, <1>4 DEF Orderly, MadeByRun, RunEnded, Owned
<1>15. ReceiptMatchesFiles'
  <2> SUFFICES ASSUME NEW v \in Runners, runner'[v].phase = "done", ~runner'[v].dropped
               PROVE  dir'[runner'[v].id].receipt.files = dir'[runner'[v].id].files
    BY DEF ReceiptMatchesFiles
  <2>1. CASE v = w
    BY <1>1, <1>4, <2>1
  <2>2. CASE v # w
    <3>1. Uses(v) /\ runner[v].id # i /\ runner[v].id \in RunIds
      BY <1>1, <1>4, <2>2 DEF Orderly, UsersApart, Uses, IdKnown
    <3> QED
      BY <1>4, <2>2, <3>1 DEF Orderly, ReceiptMatchesFiles
  <2> QED
    BY <2>1, <2>2
<1>16. ReceiptIsFinal
  BY <1>4, <1>12 DEF ReceiptIsFinal
<1> QED
  BY <1>5, <1>6, <1>7, <1>9, <1>11, <1>13, <1>14, <1>15, <1>16 DEF Orderly

-----------------------------------------------------------------------------
LEMMA StepOrderly == Orderly /\ [RunNext]_runVars => Orderly' /\ [ReceiptIsFinal]_runVars
<1> SUFFICES ASSUME Orderly, [RunNext]_runVars PROVE Orderly' /\ [ReceiptIsFinal]_runVars
  OBVIOUS
<1>1. ASSUME NEW w \in Runners, NEW i \in RunIds, RunAdmit(w, i)
      PROVE  Orderly' /\ ReceiptIsFinal
  BY <1>1, AdmitPlain, PlainStep
<1>2. ASSUME NEW w \in Runners,
             \/ RunLock(w) \/ RunSnapshot(w) \/ InputChanges(w) \/ RunSpawn(w)
             \/ RunTimeout(w) \/ RunDrained(w) \/ RunSettle(w) \/ ChildDetaches(w)
             \/ ChildExits(w) \/ RunDrainFails(w) \/ RunCrash(w)
      PROVE  Orderly' /\ ReceiptIsFinal
  BY <1>2, PlainStep, LockPlain, SnapshotPlain, InputChangesPlain, SpawnPlain, TimeoutPlain,
     DrainedPlain, SettlePlain, DetachPlain, ExitPlain, DrainFailsPlain, CrashPlain
<1>3. ASSUME NEW w \in Runners, RunMkdir(w)
      PROVE  Orderly' /\ ReceiptIsFinal
  BY <1>3, MkdirOrderly, RefusePlain, PlainStep
<1>4. ASSUME NEW w \in Runners, RunReceipt(w) \/ ChildWrites(w)
      PROVE  Orderly' /\ ReceiptIsFinal
  BY <1>4, ReceiptOrderly, WriteOrderly
<1>5. CASE UNCHANGED runVars
  BY <1>5 DEF runVars, Orderly, RunTypeOK, LockHeld, IdKnown, ChildKnown, ChildDrained,
              UsedIsMade, UsersApart, ReceiptIsLast, MadeByRun, ReceiptMatchesFiles, Uses, Alive
<1> QED
  BY <1>1, <1>2, <1>3, <1>4, <1>5 DEF RunNext

\* The runs of one resource group never overlap, but for a child its runner
\* dropped; a receipt describes the files; a used id was used by a run that held
\* the group (the flock, the mkdir and the receipt of run_release).
THEOREM RunsOfAGroup == RunSpec => [](GroupRunsAlone /\ ReceiptMatchesFiles /\ IdsAreUsedByRuns)
<1>1. Orderly => GroupRunsAlone
  BY DEF Orderly, ChildDrained, LockHeld, GroupRunsAlone, Holding, Owned
<1>2. Orderly => IdsAreUsedByRuns
  BY DEF Orderly, MadeByRun, IdsAreUsedByRuns, Owned, RunEnded
<1>3. Orderly => ReceiptMatchesFiles
  BY DEF Orderly
<1> QED
  BY <1>1, <1>2, <1>3, InitOrderly, StepOrderly, PTL DEF RunSpec

\* A receipt, and the manifest under it, are never changed (run_release makes
\* the run directory without exist_ok before it writes anything).
THEOREM ReceiptsAreFinal == RunSpec => [][ReceiptIsFinal]_runVars
BY InitOrderly, StepOrderly, PTL DEF RunSpec

-----------------------------------------------------------------------------
(* The chain: the store, the runs, the evidence.                           *)

StoreRecs == [bootstrap : BOOLEAN, incoming : 0..LastAttempt, attempts : 0..LastAttempt,
              upload : Contents, writer : Publishers \cup {NoWriter},
              final : {"absent", "writable", "readonly"}, tree : Contents,
              kept : SUBSET (1..LastAttempt)]
PubRecs == [phase : Phases, bundle : Contents, staged : Contents, attempt : 0..LastAttempt]

StoreTyped ==
  /\ checkout \in {"clean", "edited"} /\ store \in StoreRecs
  /\ pub \in [Publishers -> PubRecs] /\ operator \in {"idle", "bootstrap"}

LEMMA StoreTypes == ReleaseTypeOK <=> StoreTyped
BY DEF ReleaseTypeOK, StoreTyped, StoreRecs, PubRecs

-----------------------------------------------------------------------------
(* The store *)

LEMMA InitStore == ReleaseInit => StoreTyped
BY ReleaseAssumption
   DEF ReleaseInit, StoreTyped, StoreRecs, PubRecs, NoWork, Contents, Phases

\* A step of a publisher keeps types, releases and attempts.
LEMMA PublisherStep ==
  ASSUME StoreTyped, NEW p \in Publishers, Publish(p)
  PROVE  StoreTyped' /\ PublishedForever /\ AttemptsArePreserved
<1> USE ReleaseAssumption
<1>0. store \in StoreRecs /\ pub \in [Publishers -> PubRecs] /\ pub[p] \in PubRecs
  BY DEF StoreTyped
<1>1. ASSUME NEW ph \in Phases, pub' = Phase(p, ph) PROVE pub' \in [Publishers -> PubRecs]
  BY <1>0, <1>1 DEF Phase, PubRecs
<1>2. CASE CheckCleanCheckout(p) \/ VerifyBundle(p) \/ AlreadyPublished(p) \/ Abandon(p)
  BY <1>0, <1>1, <1>2
     DEF CheckCleanCheckout, VerifyBundle, AlreadyPublished, Abandon, StoreTyped, Phases,
         PublishedForever, AttemptsArePreserved
<1>3. CASE BuildRelease(p)
  <2>1. pub' \in [Publishers -> PubRecs]
    BY <1>0, <1>3 DEF BuildRelease, Archived, PubRecs, Phases, Contents
  <2> QED
    BY <1>3, <2>1 DEF BuildRelease, StoreTyped, PublishedForever, AttemptsArePreserved
<1>4. CASE StageRelease(p)
  <2>1. pub' \in [Publishers -> PubRecs]
    BY <1>0, <1>4 DEF StageRelease, PubRecs, StoreRecs, Phases
  <2> QED
    BY <1>4, <2>1 DEF StageRelease, StoreTyped, PublishedForever, AttemptsArePreserved
<1>5. CASE Retry(p)
  <2>1. pub' \in [Publishers -> PubRecs]
    BY <1>0, <1>5 DEF Retry, NoWork, PubRecs, Phases, Contents
  <2> QED
    BY <1>5, <2>1 DEF Retry, StoreTyped, PublishedForever, AttemptsArePreserved
<1>6. CASE MakeBootstrap(p)
  <2>1. store' \in StoreRecs
    BY <1>0, <1>6 DEF MakeBootstrap, StoreRecs
  <2> QED
    BY <1>0, <1>1, <1>6, <2>1
       DEF MakeBootstrap, StoreTyped, StoreRecs, PublishedForever, AttemptsArePreserved, Phases
<1>7. CASE PrepareIncoming(p)
  <2>1. store' \in StoreRecs
    <3>1. store.attempts + 1 \in 0..LastAttempt /\ "none" \in Contents
      BY <1>0, <1>7 DEF PrepareIncoming, StoreRecs, Contents
    <3>2. store' = [store EXCEPT !.incoming = store.attempts + 1,
                                 !.attempts = store.attempts + 1, !.upload = "none"]
      BY <1>7 DEF PrepareIncoming
    <3> QED
      BY ONLY <1>0, <3>1, <3>2 DEF StoreRecs
  <2> QED
    BY <1>0, <1>1, <1>7, <2>1
       DEF PrepareIncoming, AttemptFree, StoreTyped, StoreRecs, PublishedForever,
           AttemptsArePreserved, Phases
<1>8. CASE OpenUpload(p)
  <2>1. store' \in StoreRecs
    BY <1>0, <1>8 DEF OpenUpload, StoreRecs, Contents
  <2>2. pub' \in [Publishers -> PubRecs]
    BY <1>0, <1>8 DEF OpenUpload, StoreRecs, PubRecs, Phases
  <2> QED
    BY <1>0, <1>8, <2>1, <2>2
       DEF OpenUpload, StoreTyped, StoreRecs, PublishedForever, AttemptsArePreserved
<1>9. CASE CloseUpload(p)
  <2>1. store' \in StoreRecs
    BY <1>0, <1>9 DEF CloseUpload, StoreRecs, PubRecs
  <2> QED
    BY <1>0, <1>1, <1>9, <2>1
       DEF CloseUpload, StoreTyped, StoreRecs, PublishedForever, AttemptsArePreserved, Phases
<1>10. CASE PublishRelease(p)
  <2>1. store' \in StoreRecs
    BY <1>0, <1>10 DEF PublishRelease, StoreRecs, PubRecs
  <2> QED
    BY <1>0, <1>1, <1>10, <2>1
       DEF PublishRelease, TargetFree, StoreTyped, StoreRecs, PublishedForever,
           AttemptsArePreserved, Phases
<1>11. CASE SealRelease(p)
  <2>1. store' \in StoreRecs
    BY <1>0, <1>11 DEF SealRelease, StoreRecs
  <2> QED
    BY <1>0, <1>1, <1>11, <2>1
       DEF SealRelease, StoreTyped, StoreRecs, PublishedForever, AttemptsArePreserved, Phases
<1>12. CASE CleanupIncoming(p)
  <2>1. store' \in StoreRecs
    <3>1. 0 \in 0..LastAttempt /\ "none" \in Contents
      BY DEF Contents
    <3>2. store' = [store EXCEPT !.incoming = 0, !.upload = "none"]
      BY <1>12 DEF CleanupIncoming
    <3> QED
      BY ONLY <1>0, <3>1, <3>2 DEF StoreRecs
  <2> QED
    BY <1>0, <1>1, <1>12, <2>1
       DEF CleanupIncoming, StoreTyped, StoreRecs, PublishedForever, AttemptsArePreserved, Phases
<1>13. CASE CleanupBootstrap(p)
  <2>1. store' \in StoreRecs
    BY <1>0, <1>13 DEF CleanupBootstrap, StoreRecs
  <2> QED
    BY <1>0, <1>1, <1>13, <2>1
       DEF CleanupBootstrap, StoreTyped, StoreRecs, PublishedForever, AttemptsArePreserved, Phases
<1> QED
  BY <1>2, <1>3, <1>4, <1>5, <1>6, <1>7, <1>8, <1>9, <1>10, <1>11, <1>12, <1>13 DEF Publish

\* So do an edit of the checkout and the operator's quarantine.
LEMMA StoreStep ==
  ASSUME StoreTyped, [ReleaseNext]_releaseVars
  PROVE  StoreTyped' /\ PublishedForever /\ AttemptsArePreserved
<1>1. ASSUME NEW p \in Publishers, Publish(p)
      PROVE  StoreTyped' /\ PublishedForever /\ AttemptsArePreserved
  BY <1>1, PublisherStep
<1>2. CASE Edit \/ QuarantineFails \/ UNCHANGED releaseVars
  BY <1>2 DEF Edit, QuarantineFails, releaseVars, StoreTyped, PublishedForever,
              AttemptsArePreserved
<1>3. CASE QuarantineIncoming
  <2>1. store' \in StoreRecs
    <3>1. store \in StoreRecs
      BY DEF StoreTyped
    <3>2. /\ store.kept \cup {store.incoming} \in SUBSET (1..LastAttempt)
          /\ 0 \in 0..LastAttempt /\ "none" \in Contents
      BY <1>3, <3>1, ReleaseAssumption DEF QuarantineIncoming, AttemptThere, StoreRecs, Contents
    <3>3. store' = [store EXCEPT !.incoming = 0, !.upload = "none",
                                 !.kept = store.kept \cup {store.incoming}]
      BY <1>3 DEF QuarantineIncoming
    <3> QED
      BY ONLY <3>1, <3>2, <3>3 DEF StoreRecs
  <2> QED
    BY <1>3, <2>1
       DEF QuarantineIncoming, StoreTyped, StoreRecs, PublishedForever, AttemptsArePreserved
<1>4. CASE QuarantineBootstrap
  <2>1. store' \in StoreRecs
    BY <1>4 DEF QuarantineBootstrap, StoreTyped, StoreRecs
  <2> QED
    BY <1>4, <2>1
       DEF QuarantineBootstrap, StoreTyped, StoreRecs, PublishedForever, AttemptsArePreserved
<1> QED
  BY <1>1, <1>2, <1>3, <1>4 DEF ReleaseNext

-----------------------------------------------------------------------------
(* What is published *)

\* Between the archive and the upload a publisher carries the tree of the
\* commit, and only a whole upload is staged.
Carries == {"bootstrap", "prepare", "upload", "send"}

Genuine ==
  /\ \A p \in Publishers : pub[p].phase \in Carries => pub[p].bundle = "commit"
  /\ \A p \in Publishers : pub[p].phase = "publish" => pub[p].staged = "commit"
  /\ \A p \in Publishers : pub[p].phase = "seal" => store.final # "absent"
  /\ store.upload # "edited"
  /\ PublishedIsCommit

LEMMA InitGenuine == ReleaseInit => Genuine
BY DEF ReleaseInit, Genuine, NoWork, Carries, PublishedIsCommit

LEMMA PublisherGenuine ==
  ASSUME StoreTyped, Genuine, NEW p \in Publishers, Publish(p)
  PROVE  Genuine'
<1>0. store \in StoreRecs /\ pub \in [Publishers -> PubRecs] /\ pub[p] \in PubRecs
  BY DEF StoreTyped
<1> USE DEF Genuine, Carries, PublishedIsCommit
<1>1. CASE CheckCleanCheckout(p) \/ VerifyBundle(p) \/ AlreadyPublished(p) \/ Abandon(p)
  BY <1>0, <1>1
     DEF CheckCleanCheckout, VerifyBundle, AlreadyPublished, Abandon, Phase, PubRecs
<1>2. CASE BuildRelease(p)
  BY <1>0, <1>2 DEF BuildRelease, Archived, PubRecs
<1>3. CASE StageRelease(p)
  BY <1>0, <1>3 DEF StageRelease, StageVerified, Whole, PubRecs
<1>4. CASE Retry(p)
  BY <1>0, <1>4 DEF Retry, NoWork, PubRecs
<1>5. CASE MakeBootstrap(p) \/ PrepareIncoming(p)
  <2>1. /\ store'.upload # "edited" /\ store'.final = store.final /\ store'.tree = store.tree
        /\ pub[p].phase \in Carries
    BY ONLY <1>0, <1>5, Genuine DEF MakeBootstrap, PrepareIncoming, StoreRecs, Genuine, Carries
  <2>2. PICK ph \in Carries : pub' = Phase(p, ph)
    BY <1>5 DEF MakeBootstrap, PrepareIncoming
  <2> QED
    BY <1>0, <2>1, <2>2 DEF Phase, PubRecs
<1>6. CASE OpenUpload(p)
  BY <1>0, <1>6 DEF OpenUpload, PubRecs, StoreRecs
<1>7. CASE CloseUpload(p)
  BY <1>0, <1>7 DEF CloseUpload, Phase, PubRecs, StoreRecs
<1>8. CASE PublishRelease(p)
  BY <1>0, <1>8 DEF PublishRelease, Phase, PubRecs, StoreRecs
<1>9. CASE SealRelease(p)
  BY <1>0, <1>9 DEF SealRelease, Phase, PubRecs, StoreRecs
<1>10. CASE CleanupIncoming(p) \/ CleanupBootstrap(p)
  <2>1. store'.upload # "edited" /\ store'.final = store.final /\ store'.tree = store.tree
    BY ONLY <1>0, <1>10, Genuine DEF CleanupIncoming, CleanupBootstrap, StoreRecs, Genuine
  <2>2. PICK ph \in {"cleanupBootstrap", "end"} : pub' = Phase(p, ph)
    BY <1>10 DEF CleanupIncoming, CleanupBootstrap
  <2> QED
    BY <1>0, <2>1, <2>2 DEF Phase, PubRecs
<1> QED
  BY <1>1, <1>2, <1>3, <1>4, <1>5, <1>6, <1>7, <1>8, <1>9, <1>10 DEF Publish

LEMMA StoreGenuine ==
  ASSUME StoreTyped, Genuine, [ReleaseNext]_releaseVars
  PROVE  Genuine'
<1>1. ASSUME NEW p \in Publishers, Publish(p) PROVE Genuine'
  BY <1>1, PublisherGenuine
<1>2. CASE Edit \/ QuarantineFails \/ UNCHANGED releaseVars
  BY <1>2 DEF Edit, QuarantineFails, releaseVars, Genuine, PublishedIsCommit
<1>3. CASE QuarantineIncoming \/ QuarantineBootstrap
  BY <1>3 DEF QuarantineIncoming, QuarantineBootstrap, StoreTyped, StoreRecs, Genuine,
              PublishedIsCommit
<1> QED
  BY <1>1, <1>2, <1>3 DEF ReleaseNext

-----------------------------------------------------------------------------
(* The evidence *)

PullDirs == [there : BOOLEAN, name : 0..LastPull, has : SUBSET Members,
                copy : [status : {"none"} \cup Terminal, files : 0..LastWrite]]
Streams == [status : {"none"} \cup Terminal, files : 0..LastWrite]
PullPhases == {"start", "tar", "begin", "extract", "verify", "publish", "index", "end"}
PullRecs == [phase : PullPhases, id : RunIds \cup {Nobody}, next : 1..(LastMember + 1),
             stream : Streams]

\* A pull that has begun knows its run; until the last member is written there
\* is a next one.
PullerKnown(r) ==
  /\ r.phase \notin {"start", "end"} => r.id \in RunIds
  /\ r.phase \in {"tar", "begin", "extract"} => r.next \in Members

PullsTyped ==
  /\ partial \in [RunIds -> PullDirs] /\ final \in [RunIds -> PullDirs]
  /\ kept \subseteq PullDirs /\ puller \in [Pullers -> PullRecs] /\ pulls \in 0..LastPull
  /\ \A u \in Pullers : PullerKnown(puller[u])

LEMMA PullTypes == PullsTyped => PullTypeOK
BY DEF PullsTyped, PullTypeOK, PullDirs, Streams, PullPhases, PullRecs

LEMMA FreshTyped == Missing \in PullDirs /\ Fresh \in PullDirs
<1>1. NoReceipt \in Streams /\ 0 \in 0..LastPull
  BY PullAssumption, RunAssumption DEF Streams, NoReceipt
<1>2. Missing \in PullDirs
  BY <1>1 DEF Missing, PullDirs, Streams
<1> QED
  BY ONLY <1>2 DEF Fresh, PullDirs

LEMMA InitPulls == PullInit => PullsTyped
<1> SUFFICES ASSUME PullInit PROVE PullsTyped
  OBVIOUS
<1> USE PullAssumption, RunAssumption
<1>1. Missing \in PullDirs
  BY FreshTyped
<1>2. NoStream \in PullRecs
  BY DEF NoStream, PullRecs, PullPhases, Streams, NoReceipt, Terminal
<1> QED
  BY <1>1, <1>2 DEF PullInit, PullsTyped, PullerKnown, NoStream

\* What tar is about to send is a run with its receipt.
SendsRecorded ==
  \A u \in Pullers : puller[u].phase = "tar" =>
    /\ dir[puller[u].id].receipt # NoReceipt
    /\ dir[puller[u].id].manifest \in {"none"} \cup Terminal

Pulls == PullsTyped /\ SendsRecorded

\* The promises that every step of a pull keeps.
Keeps == EvidenceIsKept /\ PartialsAreKept

LEMMA DirsTyped == Orderly => dir \in [RunIds -> DirRecs]
BY DEF Orderly, RunTypeOK, DirRecs

\* Steps that only change the phase of a pull.
LEMMA PhaseStep ==
  ASSUME Pulls, NEW u \in Pullers, NEW ph \in PullPhases \ {"tar", "begin", "extract"}, Go(u, ph),
         ph \notin {"start", "end"} => puller[u].phase \notin {"start", "end"},
         UNCHANGED <<partial, final, kept, pulls, dir>>
  PROVE  Pulls' /\ Keeps
<1>1. /\ puller \in [Pullers -> PullRecs]
      /\ puller' = [puller EXCEPT ![u] = [puller[u] EXCEPT !.phase = ph]]
  BY DEF Go, Pulls, PullsTyped
<1>2. /\ puller'[u] \in PullRecs /\ puller'[u].phase = ph /\ puller'[u].id = puller[u].id
      /\ \A v \in Pullers \ {u} : puller'[v] = puller[v]
  BY ONLY <1>1, u \in Pullers, ph \in PullPhases DEF PullRecs
<1>3. puller' \in [Pullers -> PullRecs]
  BY <1>1, <1>2
<1>4. PullsTyped'
  BY <1>2, <1>3 DEF Pulls, PullsTyped, PullerKnown
<1>5. SendsRecorded'
  BY <1>2 DEF Pulls, SendsRecorded
<1>6. Keeps
  BY DEF Keeps, EvidenceIsKept, PartialsAreKept, Pulls, PullsTyped
<1> QED
  BY <1>4, <1>5, <1>6 DEF Pulls

LEMMA VerifyRemoteKeeps ==
  ASSUME Orderly, Pulls, NEW u \in Pullers, NEW i \in RunIds, VerifyRemote(u, i), UNCHANGED dir
  PROVE  Pulls' /\ Keeps
<1>1. puller \in [Pullers -> PullRecs] /\ dir[i] \in DirRecs
  BY DirsTyped DEF Pulls, PullsTyped
<1>2. /\ puller'[u] = [phase |-> IF RunVerified(i) THEN "tar" ELSE "begin", id |-> i,
                       stream |-> NoReceipt, next |-> 1]
      /\ \A v \in Pullers \ {u} : puller'[v] = puller[v]
  BY <1>1 DEF VerifyRemote, NoStream
<1>3. puller'[u] \in PullRecs
  BY <1>2, PullAssumption, RunAssumption DEF PullRecs, PullPhases, Streams, NoReceipt
<1>4. puller' \in [Pullers -> PullRecs]
  BY <1>1, <1>3 DEF VerifyRemote
<1>5. PullsTyped'
  <2>1. PullerKnown(puller'[u])
    BY <1>2, PullAssumption DEF PullerKnown, Members
  <2> QED
    BY <1>2, <1>4, <2>1 DEF Pulls, PullsTyped, PullerKnown, VerifyRemote
<1>6. SendsRecorded'
  <2>1. RunVerified(i) => dir[i].receipt # NoReceipt /\ dir[i].manifest \in {"none"} \cup Terminal
    BY <1>1 DEF RunVerified, DirRecs
  <2> QED
    BY <1>2, <2>1 DEF Pulls, SendsRecorded
<1>7. Keeps
  BY DEF VerifyRemote, Keeps, EvidenceIsKept, PartialsAreKept, Pulls, PullsTyped
<1> QED
  BY <1>5, <1>6, <1>7 DEF Pulls

LEMMA SendArchiveKeeps ==
  ASSUME Orderly, Pulls, NEW u \in Pullers, SendArchive(u), UNCHANGED dir
  PROVE  Pulls' /\ Keeps
<1> DEFINE d == dir[puller[u].id]
<1>1. /\ puller \in [Pullers -> PullRecs] /\ puller[u].phase = "tar" /\ puller[u].id \in RunIds
      /\ d \in DirRecs /\ d.manifest \in {"none"} \cup Terminal
  BY DirsTyped DEF Pulls, PullsTyped, PullerKnown, SendsRecorded, SendArchive
<1>2. puller' = [puller EXCEPT ![u] = [puller[u] EXCEPT !.phase = "begin",
                    !.stream = [status |-> d.manifest, files |-> d.files]]]
  BY DEF SendArchive
<1>3. [status |-> d.manifest, files |-> d.files] \in Streams
  BY <1>1 DEF DirRecs, Streams
<1> HIDE DEF d
<1>4. /\ puller'[u] \in PullRecs /\ puller'[u].phase = "begin" /\ puller'[u].id = puller[u].id
      /\ puller'[u].next = puller[u].next
      /\ \A v \in Pullers \ {u} : puller'[v] = puller[v]
  BY ONLY <1>1, <1>2, <1>3, u \in Pullers DEF PullRecs, PullPhases
<1>5. puller' \in [Pullers -> PullRecs]
  BY <1>1, <1>2, <1>4
<1>6. PullsTyped'
  BY <1>1, <1>4, <1>5 DEF Pulls, PullsTyped, PullerKnown, SendArchive
<1>7. SendsRecorded'
  BY <1>4 DEF Pulls, SendsRecorded
<1>8. Keeps
  BY DEF SendArchive, Keeps, EvidenceIsKept, PartialsAreKept, Pulls, PullsTyped
<1> QED
  BY <1>6, <1>7, <1>8 DEF Pulls

LEMMA BeginKeeps ==
  ASSUME Pulls, NEW u \in Pullers, PullBegin(u), UNCHANGED dir
  PROVE  Pulls' /\ Keeps
<1> DEFINE i == puller[u].id
<1> DEFINE new == [Fresh EXCEPT !.name = pulls + 1]
<1>1. /\ puller \in [Pullers -> PullRecs] /\ puller[u].phase = "begin"
      /\ i \in RunIds /\ puller[u].next \in Members /\ pulls \in 0..LastPull
      /\ partial \in [RunIds -> PullDirs] /\ final \in [RunIds -> PullDirs]
      /\ kept \subseteq PullDirs
  BY DEF Pulls, PullsTyped, PullerKnown, PullBegin
<1>2. /\ pulls < LastPull /\ pulls' = pulls + 1 /\ final' = final
      /\ kept' = Quarantined(i) /\ partial' = [partial EXCEPT ![i] = new]
  BY DEF PullBegin
<1>3. pulls + 1 \in 0..LastPull
  BY <1>1, <1>2, PullAssumption
<1>4. new \in PullDirs
  <2>1. Fresh \in PullDirs
    BY FreshTyped
  <2> QED
    BY ONLY <1>3, <2>1 DEF PullDirs
<1> HIDE DEF new
<1>5. puller' = [puller EXCEPT ![u] = [puller[u] EXCEPT !.phase = "extract"]]
  BY DEF PullBegin, Go
<1>6. /\ puller'[u] \in PullRecs /\ puller'[u].phase = "extract" /\ puller'[u].id = i
      /\ puller'[u].next = puller[u].next /\ \A v \in Pullers \ {u} : puller'[v] = puller[v]
  BY ONLY <1>1, <1>5, u \in Pullers DEF PullRecs, PullPhases
<1>7. puller' \in [Pullers -> PullRecs]
  BY <1>1, <1>5, <1>6
<1>8. PullsTyped'
  <2>1. partial' \in [RunIds -> PullDirs] /\ kept' \subseteq PullDirs
    BY <1>1, <1>2, <1>4 DEF Quarantined
  <2>2. \A v \in Pullers : PullerKnown(puller[v])'
    BY <1>1, <1>6 DEF Pulls, PullsTyped, PullerKnown
  <2> QED
    BY <1>1, <1>2, <1>3, <1>7, <2>1, <2>2 DEF PullsTyped, PullerKnown
<1>9. SendsRecorded'
  BY <1>6 DEF Pulls, SendsRecorded
<1>10. Keeps
  BY <1>1, <1>2 DEF Keeps, EvidenceIsKept, PartialsAreKept, Quarantined
<1> QED
  BY <1>8, <1>9, <1>10 DEF Pulls

LEMMA MemberKeeps ==
  ASSUME Pulls, NEW u \in Pullers, PullMember(u), UNCHANGED dir
  PROVE  Pulls' /\ Keeps
<1> DEFINE i == puller[u].id
<1> DEFINE m == puller[u].next
<1> DEFINE new == [Fresh EXCEPT !.name = pulls + 1]
<1> DEFINE into == IF partial[i].there THEN partial[i] ELSE new
<1> DEFINE filled == [into EXCEPT !.has = into.has \cup {m}, !.copy = puller[u].stream]
<1> DEFINE ph == IF m = LastMember THEN "verify" ELSE "extract"
<1>1. /\ puller \in [Pullers -> PullRecs] /\ puller[u].phase = "extract"
      /\ puller[u] \in PullRecs /\ i \in RunIds /\ m \in Members /\ pulls \in 0..LastPull
      /\ partial \in [RunIds -> PullDirs] /\ final \in [RunIds -> PullDirs]
      /\ kept \subseteq PullDirs
  BY DEF Pulls, PullsTyped, PullerKnown, PullMember
<1>2. /\ partial[i].there \/ pulls < LastPull
      /\ pulls' = IF partial[i].there THEN pulls ELSE pulls + 1
      /\ final' = final /\ kept' = kept /\ partial' = [partial EXCEPT ![i] = filled]
  BY DEF PullMember
<1>3. pulls' \in 0..LastPull
  BY <1>1, <1>2, PullAssumption
<1>4. into \in PullDirs
  <2>1. Fresh \in PullDirs
    BY FreshTyped
  <2>2. CASE partial[i].there
    BY <1>1, <2>2
  <2>3. CASE ~partial[i].there
    <3>1. pulls + 1 \in 0..LastPull
      BY <1>2, <1>3, <2>3
    <3>2. new \in PullDirs
      BY ONLY <2>1, <3>1 DEF PullDirs
    <3> QED
      BY <2>3, <3>2
  <2> QED
    BY <2>2, <2>3
<1>5. partial[i].there => into = partial[i]
  OBVIOUS
<1> HIDE DEF into
<1>6. filled \in PullDirs /\ filled.name = into.name
  <2>1. puller[u].stream \in Streams
    BY <1>1 DEF PullRecs
  <2> QED
    BY ONLY <1>1, <1>4, <2>1 DEF PullDirs, Streams
<1> HIDE DEF filled
<1>7. /\ ph \in PullPhases /\ m + 1 \in 1..(LastMember + 1)
      /\ ph = "extract" => m + 1 \in Members
      /\ ph \notin {"tar", "begin", "start", "end"}
  BY <1>1, PullAssumption DEF PullPhases, Members
<1>8. puller' = [puller EXCEPT ![u] = [puller[u] EXCEPT !.next = m + 1, !.phase = ph]]
  BY DEF PullMember
<1> HIDE DEF ph
<1>9. /\ puller'[u] \in PullRecs /\ puller'[u].phase = ph /\ puller'[u].id = i
      /\ puller'[u].next = m + 1 /\ \A v \in Pullers \ {u} : puller'[v] = puller[v]
  BY ONLY <1>1, <1>7, <1>8, u \in Pullers DEF PullRecs
<1>10. puller' \in [Pullers -> PullRecs]
  BY <1>1, <1>8, <1>9
<1>11. PullsTyped'
  <2>1. partial' \in [RunIds -> PullDirs]
    BY <1>1, <1>2, <1>6
  <2>2. \A v \in Pullers : PullerKnown(puller[v])'
    BY <1>1, <1>7, <1>9 DEF Pulls, PullsTyped, PullerKnown
  <2> QED
    BY <1>1, <1>2, <1>3, <1>10, <2>1, <2>2 DEF PullsTyped, PullerKnown
<1>12. SendsRecorded'
  BY <1>7, <1>9 DEF Pulls, SendsRecorded
<1>13. Keeps
  BY <1>1, <1>2, <1>5, <1>6 DEF Keeps, EvidenceIsKept, PartialsAreKept
<1> QED
  BY <1>11, <1>12, <1>13 DEF Pulls

LEMMA PublishKeeps ==
  ASSUME Pulls, NEW u \in Pullers, PullPublish(u), UNCHANGED dir
  PROVE  Pulls' /\ Keeps
<1> DEFINE i == puller[u].id
<1>1. /\ puller \in [Pullers -> PullRecs] /\ puller[u].phase = "publish"
      /\ i \in RunIds /\ pulls \in 0..LastPull
      /\ partial \in [RunIds -> PullDirs] /\ final \in [RunIds -> PullDirs]
      /\ kept \subseteq PullDirs
  BY DEF Pulls, PullsTyped, PullerKnown, PullPublish
<1>2. /\ final[i].has = {} /\ final' = [final EXCEPT ![i] = partial[i]]
      /\ partial' = [partial EXCEPT ![i] = Missing] /\ kept' = kept /\ pulls' = pulls
  BY DEF PullPublish, Replaceable
<1>3. Missing \in PullDirs
  BY FreshTyped
<1>4. puller' = [puller EXCEPT ![u] = [puller[u] EXCEPT !.phase = "index"]]
  BY DEF PullPublish, Go
<1>5. /\ puller'[u] \in PullRecs /\ puller'[u].phase = "index" /\ puller'[u].id = i
      /\ \A v \in Pullers \ {u} : puller'[v] = puller[v]
  BY ONLY <1>1, <1>4, u \in Pullers DEF PullRecs, PullPhases
<1>6. puller' \in [Pullers -> PullRecs]
  BY <1>1, <1>4, <1>5
<1>7. PullsTyped'
  <2>1. partial' \in [RunIds -> PullDirs] /\ final' \in [RunIds -> PullDirs]
    BY <1>1, <1>2, <1>3
  <2>2. \A v \in Pullers : PullerKnown(puller[v])'
    BY <1>1, <1>5 DEF Pulls, PullsTyped, PullerKnown
  <2> QED
    BY <1>1, <1>2, <1>6, <2>1, <2>2 DEF PullsTyped, PullerKnown
<1>8. SendsRecorded'
  BY <1>5 DEF Pulls, SendsRecorded
<1>9. Keeps
  BY <1>1, <1>2 DEF Keeps, EvidenceIsKept, PartialsAreKept
<1> QED
  BY <1>7, <1>8, <1>9 DEF Pulls

\* The index is no part of the types of the pulls.
LEMMA AppendKeeps ==
  ASSUME Pulls, NEW u \in Pullers, AppendIndex(u), UNCHANGED dir
  PROVE  Pulls' /\ Keeps
<1>1. Go(u, "end") /\ UNCHANGED <<partial, final, kept, pulls>>
  BY DEF AppendIndex
<1> QED
  BY <1>1, PhaseStep DEF PullPhases

LEMMA PullStep ==
  ASSUME Orderly, Pulls, PullNext, UNCHANGED dir
  PROVE  Pulls' /\ Keeps
<1>1. PICK u \in Pullers :
        \/ \E i \in RunIds : VerifyRemote(u, i)
        \/ SendArchive(u) \/ PullAgain(u) \/ PullBegin(u) \/ PullMember(u) \/ PullVerify(u)
        \/ PullPublish(u) \/ AppendIndex(u) \/ PullAbandon(u) \/ PullRetry(u)
  BY DEF PullNext
<1>2. CASE \E i \in RunIds : VerifyRemote(u, i)
  BY <1>2, VerifyRemoteKeeps
<1>3. CASE SendArchive(u) \/ PullBegin(u) \/ PullMember(u) \/ PullPublish(u) \/ AppendIndex(u)
  BY <1>3, SendArchiveKeeps, BeginKeeps, MemberKeeps, PublishKeeps, AppendKeeps
<1>4. CASE PullAgain(u)
  <2>1. PICK ph \in {"index", "end"} : Go(u, ph)
    BY <1>4 DEF PullAgain
  <2> QED
    BY <1>4, <2>1, PhaseStep DEF PullAgain, PullPhases
<1>5. CASE PullVerify(u)
  BY <1>5, PhaseStep DEF PullVerify, PullPhases
<1>6. CASE PullAbandon(u)
  BY <1>6, PhaseStep DEF PullAbandon, PullPhases
<1>7. CASE PullRetry(u)
  BY <1>7, PhaseStep DEF PullRetry, PullPhases
<1> QED
  BY <1>1, <1>2, <1>3, <1>4, <1>5, <1>6, <1>7

-----------------------------------------------------------------------------
(* The index *)

\* Whatever has a member has a receipt with it, and a line of the index names
\* verified evidence.
Received == \A i \in RunIds :
  /\ partial[i].has # {} => partial[i].copy # NoReceipt
  /\ final[i].has # {} => final[i].copy # NoReceipt

Indexed == (\A r \in rows : r.run \in RunIds) /\ IndexedIsVerified

LEMMA InitReceived == PullInit => Received /\ Indexed
BY DEF PullInit, Received, Indexed, IndexedIsVerified, Missing

\* Evidence that was verified had members and a receipt: neither can change.
LEMMA IndexStays ==
  ASSUME Received, Indexed, rows' = rows, ReceiptIsFinal,
         \A i \in RunIds : final[i].has # {} => final'[i] = final[i]
  PROVE  Indexed'
<1>1. Members # {}
  <2>1. 1 \in Members
    BY PullAssumption DEF Members
  <2> QED
    BY <2>1
<1>2. ASSUME NEW r \in rows
      PROVE  Verified(r.run, final[r.run])' /\ r.receipt = dir'[r.run].receipt
  <2>1. /\ r.run \in RunIds /\ final[r.run].there /\ final[r.run].has = Members
        /\ final[r.run].copy = dir[r.run].receipt /\ r.receipt = dir[r.run].receipt
    BY <1>2 DEF Indexed, IndexedIsVerified, Verified, Complete
  <2>2. final'[r.run] = final[r.run] /\ dir[r.run].receipt # NoReceipt
    BY <1>1, <2>1 DEF Received
  <2> QED
    BY <2>1, <2>2 DEF ReceiptIsFinal, Verified, Complete
<1> QED
  BY <1>2 DEF Indexed, IndexedIsVerified

LEMMA PullReceived ==
  ASSUME Pulls, Received, Indexed, PullNext, UNCHANGED dir
  PROVE  Received' /\ Indexed'
<1>0. ReceiptIsFinal
  BY DEF ReceiptIsFinal
<1>1. PICK u \in Pullers :
        \/ \E i \in RunIds : VerifyRemote(u, i)
        \/ SendArchive(u) \/ PullAgain(u) \/ PullBegin(u) \/ PullMember(u) \/ PullVerify(u)
        \/ PullPublish(u) \/ AppendIndex(u) \/ PullAbandon(u) \/ PullRetry(u)
  BY DEF PullNext
<1> DEFINE i == puller[u].id
<1>2. /\ partial \in [RunIds -> PullDirs] /\ final \in [RunIds -> PullDirs]
      /\ puller[u].phase \notin {"start", "end"} => i \in RunIds
  BY DEF Pulls, PullsTyped, PullerKnown
<1>3. CASE UNCHANGED <<partial, final, rows>>
  BY <1>0, <1>3, IndexStays DEF Received
<1>4. CASE PullBegin(u)
  <2>1. /\ i \in RunIds /\ rows' = rows /\ final' = final
        /\ partial' = [partial EXCEPT ![i] = [Fresh EXCEPT !.name = pulls + 1]]
    BY <1>2, <1>4 DEF PullBegin
  <2>2. partial'[i].has = {} /\ \A j \in RunIds \ {i} : partial'[j] = partial[j]
    BY <1>2, <2>1 DEF Fresh, Missing
  <2> QED
    BY <1>0, <2>1, <2>2, IndexStays DEF Received
<1>5. CASE PullMember(u)
  <2>1. i \in RunIds /\ rows' = rows /\ final' = final /\ puller[u].stream # NoReceipt
    BY <1>2, <1>5 DEF PullMember
  <2>2. PICK into \in PullDirs, has \in SUBSET Members :
          partial' = [partial EXCEPT ![i] = [into EXCEPT !.has = has, !.copy = puller[u].stream]]
    <3> DEFINE d == IF partial[i].there THEN partial[i] ELSE [Fresh EXCEPT !.name = pulls + 1]
    <3>1. partial' = [partial EXCEPT ![i] = [d EXCEPT !.has = d.has \cup {puller[u].next},
                                                     !.copy = puller[u].stream]]
      BY <1>5 DEF PullMember
    <3>2. d \in PullDirs
      <4>1. ~partial[i].there => pulls + 1 \in 0..LastPull
        BY <1>5, PullAssumption DEF PullMember, Pulls, PullsTyped
      <4>2. ~partial[i].there => [Fresh EXCEPT !.name = pulls + 1] \in PullDirs
        BY ONLY <4>1, FreshTyped DEF PullDirs
      <4> QED
        BY <1>2, <2>1, <4>2
    <3>3. d.has \cup {puller[u].next} \in SUBSET Members
      <4>1. puller[u].next \in Members
        BY <1>5 DEF PullMember, Pulls, PullsTyped, PullerKnown
      <4>2. d.has \in SUBSET Members
        BY ONLY <3>2 DEF PullDirs
      <4> QED
        BY ONLY <4>1, <4>2
    <3> HIDE DEF d
    <3> QED
      BY ONLY <3>1, <3>2, <3>3
  <2>3. /\ partial'[i].copy = puller[u].stream
        /\ \A j \in RunIds \ {i} : partial'[j] = partial[j]
    BY <1>2, <2>1, <2>2 DEF PullDirs
  <2> QED
    BY <1>0, <2>1, <2>3, IndexStays DEF Received
<1>6. CASE PullPublish(u)
  <2>1. /\ i \in RunIds /\ rows' = rows /\ final[i].has = {}
        /\ final' = [final EXCEPT ![i] = partial[i]]
        /\ partial' = [partial EXCEPT ![i] = Missing]
    BY <1>2, <1>6 DEF PullPublish, Replaceable
  <2>2. Received'
    BY <1>2, <2>1 DEF Received, Missing
  <2> QED
    BY <1>0, <1>2, <2>1, <2>2, IndexStays
<1>7. CASE AppendIndex(u)
  <2>1. /\ i \in RunIds /\ UNCHANGED <<partial, final>>
        /\ Verified(i, final[i]) /\ rows' = rows \cup {[run |-> i, receipt |-> final[i].copy]}
    BY <1>2, <1>7 DEF AppendIndex, Indexable
  <2> QED
    BY <2>1 DEF Received, Indexed, IndexedIsVerified, Verified, Complete
<1> QED
  BY <1>1, <1>3, <1>4, <1>5, <1>6, <1>7
     DEF VerifyRemote, SendArchive, PullAgain, PullVerify, PullAbandon, PullRetry

-----------------------------------------------------------------------------
(* The chain *)

ChainBooks == StoreTyped /\ Genuine /\ Orderly /\ Pulls /\ Received /\ Indexed

ChainKept ==
  /\ PublishedForever /\ AttemptsArePreserved /\ ReceiptIsFinal
  /\ EvidenceIsKept /\ PartialsAreKept

LEMMA InitChain == ChainInit => ChainBooks
<1> SUFFICES ASSUME ChainInit PROVE ChainBooks
  OBVIOUS
<1>1. SendsRecorded
  BY DEF ChainInit, PullInit, NoStream, SendsRecorded
<1> QED
  BY <1>1, InitStore, InitGenuine, InitOrderly, InitPulls, InitReceived
     DEF ChainInit, ChainBooks, Pulls

\* What does not move stays typed and is kept.
LEMMA SameStore ==
  StoreTyped /\ Genuine /\ UNCHANGED releaseVars =>
    StoreTyped' /\ Genuine' /\ PublishedForever /\ AttemptsArePreserved
BY StoreStep, StoreGenuine

LEMMA SameRuns == Orderly /\ UNCHANGED runVars => Orderly' /\ ReceiptIsFinal
<1> SUFFICES ASSUME Orderly, UNCHANGED runVars PROVE Orderly' /\ ReceiptIsFinal
  OBVIOUS
<1>1. Orderly'
  BY StepOrderly
<1> QED
  BY <1>1 DEF runVars, ReceiptIsFinal

LEMMA RunStep == Orderly /\ RunNext => Orderly' /\ ReceiptIsFinal
<1> SUFFICES ASSUME Orderly, RunNext PROVE Orderly' /\ ReceiptIsFinal
  OBVIOUS
<1>1. Orderly' /\ [ReceiptIsFinal]_runVars
  BY StepOrderly
<1> QED
  BY <1>1, SameRuns

\* A receipt that is final leaves what is about to be sent as it was.
LEMMA SamePulls ==
  ASSUME Pulls, Received, Indexed, UNCHANGED pullVars, ReceiptIsFinal
  PROVE  Pulls' /\ Received' /\ Indexed' /\ Keeps
<1>1. PullsTyped'
  BY DEF pullVars, Pulls, PullsTyped, PullerKnown
<1>2. SendsRecorded'
  BY DEF pullVars, Pulls, PullsTyped, PullerKnown, SendsRecorded, ReceiptIsFinal
<1>3. Keeps
  BY DEF pullVars, Keeps, EvidenceIsKept, PartialsAreKept
<1>4. Received' /\ Indexed'
  BY IndexStays DEF pullVars, Received
<1> QED
  BY <1>1, <1>2, <1>3, <1>4 DEF Pulls

LEMMA ChainStep == ChainBooks /\ [ChainNext]_chainVars => ChainBooks' /\ ChainKept
<1> SUFFICES ASSUME ChainBooks, [ChainNext]_chainVars PROVE ChainBooks' /\ ChainKept
  OBVIOUS
<1> USE DEF ChainBooks, ChainKept, Keeps
<1>1. CASE Publishing
  <2>1. StoreTyped' /\ Genuine' /\ PublishedForever /\ AttemptsArePreserved
    BY <1>1, StoreStep, StoreGenuine DEF Publishing
  <2>2. Orderly' /\ ReceiptIsFinal
    BY <1>1, SameRuns DEF Publishing
  <2> QED
    BY <1>1, <2>1, <2>2, SamePulls DEF Publishing
<1>2. CASE Running
  <2>1. Orderly' /\ ReceiptIsFinal
    BY <1>2, RunStep DEF Running
  <2> QED
    BY <1>2, <2>1, SameStore, SamePulls DEF Running
<1>3. CASE Pulling
  <2>1. CASE PullNext /\ UNCHANGED runVars
    <3>1. UNCHANGED dir
      BY <2>1 DEF runVars
    <3> QED
      BY <1>3, <2>1, <3>1, SameStore, SameRuns, PullStep, PullReceived DEF Pulling
  <2>2. CASE (\E w \in Runners : ChildWrites(w)) /\ UNCHANGED pullVars
    <3>1. RunNext
      BY <2>2 DEF RunNext
    <3> QED
      BY <1>3, <2>2, <3>1, SameStore, RunStep, SamePulls DEF Pulling
  <2> QED
    BY <1>3, <2>1, <2>2 DEF Pulling
<1>4. CASE UNCHANGED chainVars
  BY <1>4, SameStore, SameRuns, SamePulls DEF chainVars
<1> QED
  BY <1>1, <1>2, <1>3, <1>4 DEF ChainNext

\* Along the chain the states are well-formed, the runs of a group do not
\* overlap, ids are taken by runs and receipts describe the files
\* (release_protocol.install_release, run_release, pullback_run).
THEOREM ChainIsSound == ChainSpec => []RunsAreSound
<1>1. ChainBooks => RunsAreSound
  <2>1. Orderly => RunTypeOK /\ ReceiptMatchesFiles
    BY DEF Orderly
  <2>2. Orderly => GroupRunsAlone
    BY DEF Orderly, ChildDrained, LockHeld, GroupRunsAlone, Holding, Owned
  <2>3. Orderly => IdsAreUsedByRuns
    BY DEF Orderly, MadeByRun, IdsAreUsedByRuns, Owned, RunEnded
  <2> QED
    BY <2>1, <2>2, <2>3, StoreTypes, PullTypes DEF ChainBooks, Pulls, RunsAreSound
<1> QED
  BY <1>1, InitChain, ChainStep, PTL DEF ChainSpec

\* Whatever is visible under a release id is the tree of the commit
\* (build_release, install_release).
THEOREM ReleasesAreCommits == ChainSpec => []PublishedIsCommit
<1>1. ChainBooks => PublishedIsCommit
  BY DEF ChainBooks, Genuine
<1> QED
  BY <1>1, InitChain, ChainStep, PTL DEF ChainSpec

\* A line of the index names whole evidence with the receipt of its run,
\* however many pulls race for one run (pullback_run,
\* append_deployment_index).
THEOREM IndexNamesEvidence == ChainSpec => []IndexedIsVerified
<1>1. ChainBooks => IndexedIsVerified
  BY DEF ChainBooks, Indexed
<1> QED
  BY <1>1, InitChain, ChainStep, PTL DEF ChainSpec

\* Releases, upload attempts, receipts, evidence in place and partial pulls
\* are never taken back, by however many publishers, runners and pulls
\* (install_release, prepare_incoming, run_release, pullback_run).
THEOREM HistoryOfTheChain == ChainSpec => HistoryIsKept
<1>1. ChainBooks /\ [ChainNext]_chainVars => [ChainKept]_chainVars
  BY ChainStep
<1> QED
  BY <1>1, InitChain, ChainStep, PTL DEF ChainSpec, HistoryIsKept, ChainKept

-----------------------------------------------------------------------------
(* A deployed suite: the inductive invariant.                              *)

Marks == [by : Launches \cup {None}, code : Commits \cup {None}]
Deployments == [commit : Commits \cup {None}, nr : 0..LastInstall]
Governances == [by : Launches \cup {None}, dep : Deployments, eligible : BOOLEAN]
RunDirs == [there : BOOLEAN, trace : BOOLEAN, open : SUBSET Launches, log : Launches \cup {None},
            receipt : Marks, formal : Marks, gov : Governances]
ResultDirs == [there : BOOLEAN, pointers : SUBSET Launches, runs : [Cells -> RunDirs]]
BackupDirs == [code : Commits \cup {None}, rest : Commits \cup {None}, results : ResultDirs]
InstallPhases ==
  {"idle", "unlink", "outCode", "outRest", "inCode", "inRest", "restore", "validate", "receipt", "clean"}
InstallerRecs == [phase : InstallPhases, commit : Commits \cup {None}, nr : 0..LastInstall]
JobPhases ==
  {"new", "prepare", "session", "start", "child", "open", "compile", "close", "write", "witness",
   "govern", "conclude", "end"}
JobRecs == [phase : JobPhases, cell : 0..LastCell, dep : Deployments, code : Commits \cup {None},
            wrote : Commits \cup {None}, ok : BOOLEAN, persist : {"none", "look", "write", "dead"}]
Statuses == {"none", "launching", "prepared", "running", "success", "failed"}

DeployTyped ==
  /\ tree \in [code : Commits \cup {None}, rest : Commits \cup {None}]
  /\ results \in ResultDirs /\ receipt \in Deployments
  /\ backups \in [1..LastInstall -> BackupDirs]
  /\ installer \in [Installers -> InstallerRecs] /\ installs \in 0..LastInstall
LaunchTyped ==
  /\ attempt \in [Launches -> Statuses] /\ job \in [Launches -> JobRecs]
  /\ current \in [nonce : Launches \cup {None}, status : Statuses]

\* Where Results may be: in CODE, or in the backup of an installation.
Places == 0..LastInstall
Runs(b) == IF b = 0 THEN results.runs ELSE backups[b].results.runs
NoRuns == [c \in Cells |-> NoRun]

\* An installation under way has a number, and a backup, of its own.
Moving == InstallPhases \ {"idle", "unlink"}
Numbered ==
  /\ \A i \in Installers :
       /\ installer[i].phase # "idle" => installer[i].commit \in Commits
       /\ installer[i].phase \in Moving => installer[i].nr \in 1..installs
  /\ \A i, j \in Installers :
       i # j /\ installer[i].phase \in Moving /\ installer[j].phase \in Moving =>
         installer[i].nr # installer[j].nr
\* Its backup is empty before it moves Results out and after it has put them back.
BackupsUsed ==
  /\ \A b \in 1..LastInstall : b > installs => backups[b].results = NoResults
  /\ \A i \in Installers :
       /\ installer[i].phase = "outCode" => backups[installer[i].nr].results = NoResults
       /\ installer[i].phase \in {"validate", "receipt", "clean"} =>
            ~ backups[installer[i].nr].results.there
BackupWhole ==
  /\ ~ results.there => results.runs = NoRuns
  /\ \A b \in 1..LastInstall : ~ backups[b].results.there => backups[b].results.runs = NoRuns
ReceiptKnown == receipt # NoDeployment => receipt.commit \in Commits
Installing == DeployTyped /\ Numbered /\ BackupsUsed /\ BackupWhole /\ ReceiptKnown

\* A launch begins with its status, and its success is its end.
Begun ==
  \A n \in Launches :
    /\ job[n].phase = "new" => job[n].persist = "none"
    /\ job[n].phase # "new" => job[n].cell \in Cells /\ attempt[n] # "none"
    /\ attempt[n] = "success" => job[n].phase = "end"
    /\ job[n].ok => job[n].phase \in {"govern", "conclude"}

\* The launch m of the cell c is past writing.
Past(m, c, phases) == job[m].cell = c /\ job[m].phase \in phases \cup {"end"}
\* The evidence files of a run name launches of its cell that wrote them.
Marked(r, c) ==
  /\ r.gov.by # None => Past(r.gov.by, c, {"conclude"}) /\ job[r.gov.by].dep = r.gov.dep
  /\ r.formal.by # None =>
       Past(r.formal.by, c, {"govern", "conclude"}) /\ job[r.formal.by].code = r.formal.code
  /\ r.receipt.by # None =>
       /\ Past(r.receipt.by, c, {"witness", "govern", "conclude"})
       /\ job[r.receipt.by].wrote = r.receipt.code
  /\ r.receipt.by = None => r.receipt.code = None
Evident == \A b \in Places, c \in Cells : Marked(Runs(b)[c], c)

\* The successes and sources behind the cell p under the deployment dep.
Behind(p, dep) ==
  /\ \E m \in Launches :
       attempt[m] = "success" /\ Past(m, p, {}) /\ job[m].dep = dep /\ job[m].code = dep.commit
  /\ \E k \in Launches :
       Past(k, p, {"witness", "govern", "conclude"}) /\ job[k].wrote = dep.commit
AfterGate == {"start", "child", "open", "compile", "close", "write", "witness", "govern", "conclude"}
Gated ==
  \A n \in Launches : job[n].phase \in AfterGate \/ attempt[n] = "success" =>
    \A p \in 1..(Cell(n) - 1) : Behind(p, job[n].dep)

\* The log of a launch that may still succeed is somewhere.
Published(n) == job[n].phase \in {"write", "witness"} \/ job[n].ok \/ attempt[n] = "success"
LogAt(c, n) == \E b \in Places : Runs(b)[c].log = n
Logged == \A n \in Launches : Published(n) => LogAt(Cell(n), n)

Agreed ==
  /\ current.nonce = None <=> current.status = "none"
  /\ CurrentFollowsAttempt

Preserved == Installing /\ Evident /\ Logged
Underway == LaunchTyped /\ Begun /\ Gated
Launched == Preserved /\ Underway /\ Agreed

-----------------------------------------------------------------------------
(* Installations.                                                          *)

\* An installation loses no run directory and makes none up.
Carried ==
  /\ \A b \in Places : Runs(b) = NoRuns \/ \E a \in Places : Runs(a)' = Runs(b)
  /\ \A a \in Places : Runs(a)' = NoRuns \/ \E b \in Places : Runs(b) = Runs(a)'

LEMMA EmptyOnes ==
  /\ NoRun \in RunDirs /\ NoResults \in ResultDirs /\ EmptyResults \in ResultDirs
  /\ NoResults.runs = NoRuns /\ EmptyResults.runs = NoRuns /\ ~ NoResults.there
  /\ NoBackup \in BackupDirs /\ NoBackup.results = NoResults
  /\ NoDeployment \in Deployments /\ 0 \in Places
  /\ \A b \in 1..LastInstall : b \in Places /\ b # 0
  /\ \A b \in Places : b = 0 \/ b \in 1..LastInstall
<1>1. NoRun \in RunDirs
  BY DeploymentAssumption DEF NoRun, RunDirs, NoMark, Marks, NoGovernance, Governances, NoDeployment, Deployments
<1>2. NoRuns \in [Cells -> RunDirs]
  BY <1>1 DEF NoRuns
<1>3. NoResults \in ResultDirs /\ NoResults.runs = NoRuns /\ ~ NoResults.there
  BY <1>2 DEF NoResults, NoRuns, ResultDirs
<1>4. EmptyResults \in ResultDirs /\ EmptyResults.runs = NoRuns
  BY <1>2 DEF NoResults, EmptyResults, NoRuns, ResultDirs
<1>5. NoBackup \in BackupDirs /\ NoBackup.results = NoResults
  BY <1>3 DEF NoBackup, BackupDirs
<1> QED
  BY <1>1, <1>3, <1>4, <1>5, DeploymentAssumption DEF Places, NoDeployment, Deployments

\* An installer that takes a step keeps its number, or ends.
LEMMA NumberedStays ==
  ASSUME Installing, NEW i \in Installers, NEW rec \in InstallerRecs,
         installer' = [installer EXCEPT ![i] = rec], installs' = installs,
         rec.phase # "idle" => rec.commit \in Commits,
         rec.phase \in Moving => installer[i].phase \in Moving /\ rec.nr = installer[i].nr
  PROVE  installer' \in [Installers -> InstallerRecs] /\ Numbered'
<1>1. installer \in [Installers -> InstallerRecs] /\ Numbered
  BY DEF Installing, DeployTyped
<1>2. installer' \in [Installers -> InstallerRecs]
  BY <1>1
<1>3. installer'[i] = rec /\ \A j \in Installers \ {i} : installer'[j] = installer[j]
  BY <1>1
<1>4. Numbered'
  BY <1>1, <1>3 DEF Numbered
<1> QED
  BY <1>2, <1>4

LEMMA SteppingKeeps ==
  ASSUME Installing, NEW i \in Installers, NEW ph \in InstallPhases, Step(i, ph),
         installer[i].phase # "idle", ph \in Moving => installer[i].phase \in Moving, installs' = installs
  PROVE  /\ installer' \in [Installers -> InstallerRecs] /\ Numbered'
         /\ installer'[i].phase = ph /\ installer'[i].nr = installer[i].nr
         /\ \A j \in Installers \ {i} : installer'[j] = installer[j]
<1> DEFINE rec == [installer[i] EXCEPT !.phase = ph]
<1>1. installer \in [Installers -> InstallerRecs] /\ Numbered
  BY DEF Installing, DeployTyped
<1>2. installer[i] \in InstallerRecs /\ installer[i].commit \in Commits
  BY <1>1 DEF Numbered
<1>3. rec \in InstallerRecs /\ rec.phase = ph /\ rec.commit = installer[i].commit /\ rec.nr = installer[i].nr
  BY <1>2 DEF InstallerRecs
<1>4. installer' = [installer EXCEPT ![i] = rec]
  BY DEF Step
<1> HIDE DEF rec
<1>5. installer' \in [Installers -> InstallerRecs] /\ Numbered'
  BY <1>2, <1>3, <1>4, NumberedStays
<1> QED
  BY <1>1, <1>3, <1>4, <1>5

\* The steps that leave Results and the backups of them alone.
LEMMA StillKeeps ==
  ASSUME Installing, NEW i \in Installers, results' = results,
         \A b \in 1..LastInstall : backups'[b].results = backups[b].results,
         installs' = installs \/ installs' = installs + 1,
         \A j \in Installers \ {i} : installer'[j] = installer[j],
         installer'[i].phase = "outCode" => installer'[i].nr \in 1..LastInstall /\ installer'[i].nr > installs,
         installer'[i].phase \in {"validate", "receipt", "clean"} =>
           installer[i].phase \in {"validate", "receipt", "clean"} /\ installer'[i].nr = installer[i].nr,
         DeployTyped', Numbered'
  PROVE  BackupsUsed' /\ BackupWhole' /\ Carried
<1>1. installs \in Nat /\ BackupsUsed /\ BackupWhole /\ DeployTyped /\ LastInstall \in Nat
  BY DeploymentAssumption DEF Installing, DeployTyped
<1>2. \A b \in Places : Runs(b)' = Runs(b)
  BY EmptyOnes DEF Runs
<1>3. Carried
  BY <1>2 DEF Carried
<1>4. BackupWhole'
  BY <1>1 DEF BackupWhole
<1>5. \A b \in 1..LastInstall : b > installs' => backups'[b].results = NoResults
  BY <1>1 DEF BackupsUsed
<1>6. \A j \in Installers : installer'[j].phase \in Moving => installer'[j].nr \in 1..LastInstall
  BY DeploymentAssumption DEF Numbered, DeployTyped
<1>7. ASSUME NEW j \in Installers, installer'[j].phase = "outCode"
      PROVE  backups'[installer'[j].nr].results = NoResults
  <2>1. CASE j = i
    BY <1>1, <1>7, <2>1 DEF BackupsUsed
  <2>2. CASE j # i
    BY <1>1, <1>6, <1>7, <2>2 DEF BackupsUsed, Moving, InstallPhases
  <2> QED
    BY <2>1, <2>2
<1>8. ASSUME NEW j \in Installers, installer'[j].phase \in {"validate", "receipt", "clean"}
      PROVE  ~ backups'[installer'[j].nr].results.there
  <2>1. installer[j].phase \in {"validate", "receipt", "clean"} /\ installer'[j].nr = installer[j].nr
    BY <1>8
  <2> QED
    BY <1>1, <1>6, <1>8, <2>1 DEF BackupsUsed, Moving, InstallPhases
<1> QED
  BY <1>3, <1>4, <1>5, <1>7, <1>8 DEF BackupsUsed

\* One installer takes a step: what is true of the installations stays true,
\* and every run directory goes where Results goes.
LEMMA UnpackKeeps ==
  ASSUME Installing, NEW i \in Installers, NEW c \in Commits, Unpack(i, c)
  PROVE  Installing' /\ Carried
<1> DEFINE rec == [Nowhere EXCEPT !.phase = "unlink", !.commit = c]
<1>1. DeployTyped /\ ReceiptKnown
  BY DEF Installing
<1>2. rec \in InstallerRecs /\ rec.phase = "unlink" /\ rec.commit = c /\ "unlink" \notin Moving
  <2>1. 0 \in 0..LastInstall
    BY DeploymentAssumption
  <2>2. Nowhere \in InstallerRecs
    BY <2>1 DEF Nowhere, InstallerRecs, InstallPhases
  <2> QED
    BY <2>2 DEF InstallerRecs, InstallPhases, Moving
<1>3. /\ installer' = [installer EXCEPT ![i] = rec]
      /\ UNCHANGED <<tree, results, receipt, backups, installs>>
  BY DEF Unpack
<1> HIDE DEF rec
<1>4. installer' \in [Installers -> InstallerRecs] /\ Numbered'
  BY <1>2, <1>3, NumberedStays
<1>5. DeployTyped' /\ ReceiptKnown'
  BY <1>1, <1>3, <1>4 DEF DeployTyped, ReceiptKnown
<1>6. installer'[i].phase = "unlink" /\ \A j \in Installers \ {i} : installer'[j] = installer[j]
  BY <1>1, <1>2, <1>3 DEF DeployTyped
<1>7. BackupsUsed' /\ BackupWhole' /\ Carried
  BY <1>3, <1>4, <1>5, <1>6, StillKeeps
<1> QED
  BY <1>4, <1>5, <1>7 DEF Installing

LEMMA UnlinkKeeps ==
  ASSUME Installing, NEW i \in Installers, Unlink(i)
  PROVE  Installing' /\ Carried
<1> DEFINE rec == [installer[i] EXCEPT !.phase = "outCode", !.nr = installs + 1]
<1>1. DeployTyped /\ Numbered /\ installer[i] \in InstallerRecs
  BY DEF Installing, DeployTyped
<1>2. /\ installer[i].phase = "unlink" /\ installs < LastInstall /\ receipt' = NoDeployment
      /\ installs' = installs + 1 /\ installer' = [installer EXCEPT ![i] = rec]
      /\ UNCHANGED <<tree, results, backups>>
  BY DEF Unlink
<1>3. installs \in Nat /\ installs + 1 \in 0..LastInstall /\ installs + 1 \in 1..LastInstall
      /\ installs + 1 > installs /\ installs + 1 \in 1..(installs + 1)
  BY <1>1, <1>2, DeploymentAssumption DEF DeployTyped
<1>4. rec \in InstallerRecs /\ rec.phase = "outCode" /\ rec.commit \in Commits /\ rec.nr = installs + 1
  BY <1>1, <1>2, <1>3 DEF InstallerRecs, InstallPhases, Numbered
<1> HIDE DEF rec
<1>5. installer' \in [Installers -> InstallerRecs] /\ installer'[i] = rec
      /\ \A j \in Installers \ {i} : installer'[j] = installer[j]
  BY <1>1, <1>2, <1>4 DEF DeployTyped
<1>6. Numbered'
  <2>1. ASSUME NEW j \in Installers \ {i}, installer'[j].phase \in Moving
        PROVE  installer'[j].nr \in 1..installs /\ installer'[j].nr \in 1..installs' /\ installer'[j].nr # rec.nr
    <3>1. installer'[j].nr \in 1..installs
      BY <1>1, <1>5, <2>1 DEF Numbered
    <3> QED
      BY <1>2, <1>3, <1>4, <3>1
  <2>2. \A j \in Installers : installer'[j].phase # "idle" => installer'[j].commit \in Commits
    BY <1>1, <1>4, <1>5 DEF Numbered
  <2>3. \A j \in Installers : installer'[j].phase \in Moving => installer'[j].nr \in 1..installs'
    BY <1>2, <1>3, <1>4, <1>5, <2>1
  <2>4. ASSUME NEW j \in Installers, NEW k \in Installers, j # k,
               installer'[j].phase \in Moving, installer'[k].phase \in Moving
        PROVE  installer'[j].nr # installer'[k].nr
    <3>1. CASE j = i \/ k = i
      BY <1>5, <2>1, <2>4, <3>1
    <3>2. CASE j # i /\ k # i
      BY <1>1, <1>5, <2>4, <3>2 DEF Numbered
    <3> QED
      BY <3>1, <3>2
  <2> QED
    BY <2>2, <2>3, <2>4 DEF Numbered
<1>7. DeployTyped' /\ ReceiptKnown'
  BY <1>1, <1>2, <1>3, <1>5, EmptyOnes DEF DeployTyped, ReceiptKnown
<1>8. BackupsUsed' /\ BackupWhole' /\ Carried
  BY <1>2, <1>3, <1>4, <1>5, <1>6, <1>7, StillKeeps
<1> QED
  BY <1>6, <1>7, <1>8 DEF Installing

\* The steps that touch neither Results nor a backup of them.
LEMMA QuietKeeps ==
  ASSUME Installing, NEW i \in Installers,
         \/ MoveOutRest(i) \/ MoveInCode(i) \/ MoveInRest(i) \/ ValidateTree(i)
         \/ WriteReceipt(i) \/ InstallDies(i)
  PROVE  Installing' /\ Carried
<1>1. DeployTyped /\ Numbered /\ ReceiptKnown /\ installer[i] \in InstallerRecs
  BY DEF Installing, DeployTyped
<1>2. PICK ph \in InstallPhases :
        /\ Step(i, ph) /\ installer[i].phase # "idle" /\ (ph \in Moving => installer[i].phase \in Moving)
        /\ ph # "outCode"
        /\ ph \in {"validate", "receipt", "clean"} => installer[i].phase \in {"validate", "receipt", "clean"}
        /\ installs' = installs /\ results' = results
  BY DEF MoveOutRest, MoveInCode, MoveInRest, ValidateTree, WriteReceipt, InstallDies, InstallPhases, Moving
<1>3. /\ installer' \in [Installers -> InstallerRecs] /\ Numbered'
      /\ installer'[i].phase = ph /\ installer'[i].nr = installer[i].nr
      /\ \A j \in Installers \ {i} : installer'[j] = installer[j]
  BY <1>2, SteppingKeeps
<1>4. backups' \in [1..LastInstall -> BackupDirs]
      /\ \A b \in 1..LastInstall : backups'[b].results = backups[b].results
  <2>1. CASE UNCHANGED backups
    BY <1>1, <2>1 DEF DeployTyped
  <2>2. CASE MoveOutRest(i)
    <3> DEFINE nr == installer[i].nr
    <3>1. backups' = [backups EXCEPT ![nr].rest = tree.rest]
      BY <2>2 DEF MoveOutRest
    <3>2. tree.rest \in Commits \cup {None} /\ backups \in [1..LastInstall -> BackupDirs]
      BY <1>1 DEF DeployTyped
    <3> HIDE DEF nr
    <3> QED
      BY <3>1, <3>2 DEF BackupDirs
  <2> QED
    BY <2>1, <2>2 DEF MoveInCode, MoveInRest, ValidateTree, WriteReceipt, InstallDies
<1>5. tree' \in [code : Commits \cup {None}, rest : Commits \cup {None}]
  BY <1>1 DEF DeployTyped, InstallerRecs, MoveOutRest, MoveInCode, MoveInRest, ValidateTree, WriteReceipt, InstallDies
<1>6. receipt' \in Deployments /\ ReceiptKnown'
  <2>1. CASE WriteReceipt(i)
    BY <1>1, <2>1 DEF WriteReceipt, Deployments, InstallerRecs, ReceiptKnown, Numbered
  <2>2. CASE receipt' = receipt
    BY <1>1, <2>2 DEF ReceiptKnown, DeployTyped
  <2> QED
    BY <2>1, <2>2 DEF MoveOutRest, MoveInCode, MoveInRest, ValidateTree, InstallDies
<1>7. DeployTyped'
  BY <1>1, <1>2, <1>3, <1>4, <1>5, <1>6 DEF DeployTyped
<1>8. BackupsUsed' /\ BackupWhole' /\ Carried
  BY <1>2, <1>3, <1>4, <1>7, StillKeeps
<1> QED
  BY <1>3, <1>6, <1>7, <1>8 DEF Installing

LEMMA MoveOutCodeKeeps ==
  ASSUME Installing, NEW i \in Installers, MoveOutCode(i)
  PROVE  Installing' /\ Carried
<1>0. PICK nr : nr = installer[i].nr
  OBVIOUS
<1>1. /\ DeployTyped /\ Numbered /\ BackupsUsed /\ BackupWhole /\ ReceiptKnown /\ installer[i] \in InstallerRecs
      /\ installs \in Nat
  BY DEF Installing, DeployTyped
<1>2. /\ installer[i].phase = "outCode" /\ Step(i, "outRest")
      /\ backups' = [backups EXCEPT ![nr] = [@ EXCEPT !.code = tree.code, !.results = results]]
      /\ tree' = [tree EXCEPT !.code = None] /\ results' = NoResults
      /\ UNCHANGED <<receipt, installs>>
  BY <1>0 DEF MoveOutCode
<1>3. /\ installer' \in [Installers -> InstallerRecs] /\ Numbered'
      /\ installer'[i].phase = "outRest" /\ installer'[i].nr = nr
      /\ \A j \in Installers \ {i} : installer'[j] = installer[j]
  BY <1>0, <1>2, SteppingKeeps DEF InstallPhases, Moving
<1>4. nr \in 1..installs /\ nr \in 1..LastInstall /\ backups[nr].results = NoResults
  BY <1>0, <1>1, <1>2, DeploymentAssumption DEF Numbered, Moving, InstallPhases, DeployTyped, BackupsUsed
<1>5. \A j \in Installers \ {i} : installer'[j].phase \in Moving => installer'[j].nr # nr /\ installer'[j].nr \in 1..LastInstall
  BY <1>0, <1>1, <1>2, <1>3, DeploymentAssumption DEF Numbered, Moving, InstallPhases, DeployTyped
<1>6. backups[nr] \in BackupDirs /\ tree.code \in Commits \cup {None} /\ results \in ResultDirs
      /\ backups \in [1..LastInstall -> BackupDirs]
  BY <1>1, <1>4 DEF DeployTyped
<1>7. /\ backups' \in [1..LastInstall -> BackupDirs] /\ backups'[nr].results = results
      /\ \A b \in 1..LastInstall : b # nr => backups'[b] = backups[b]
  <2> DEFINE bk == [backups[nr] EXCEPT !.code = tree.code, !.results = results]
  <2>1. bk \in BackupDirs /\ bk.results = results
    BY <1>6 DEF BackupDirs
  <2>2. backups' = [backups EXCEPT ![nr] = bk]
    BY <1>2
  <2> HIDE DEF bk
  <2> QED
    BY <1>4, <1>6, <2>1, <2>2
<1>8. DeployTyped' /\ ReceiptKnown'
  BY <1>1, <1>2, <1>3, <1>7, EmptyOnes DEF DeployTyped, ReceiptKnown
<1>9. BackupsUsed'
  <2>1. \A b \in 1..LastInstall : b > installs' => backups'[b].results = NoResults
    BY <1>1, <1>2, <1>4, <1>7 DEF BackupsUsed
  <2>2. ASSUME NEW j \in Installers, installer'[j].phase \in {"outCode", "validate", "receipt", "clean"}
        PROVE  j # i /\ backups'[installer'[j].nr] = backups[installer[j].nr] /\ installer'[j] = installer[j]
    BY <1>3, <1>5, <1>7, <2>2 DEF Moving, InstallPhases
  <2> QED
    BY <1>1, <2>1, <2>2 DEF BackupsUsed
<1>10. BackupWhole'
  BY <1>1, <1>2, <1>7, EmptyOnes DEF BackupWhole
<1>11. /\ Runs(0)' = NoRuns /\ Runs(nr)' = Runs(0) /\ Runs(nr) = NoRuns
       /\ \A b \in Places \ {0, nr} : Runs(b)' = Runs(b)
  BY <1>2, <1>4, <1>7, EmptyOnes DEF Runs
<1>12. Carried
  BY <1>4, <1>11, EmptyOnes DEF Carried
<1> QED
  BY <1>3, <1>8, <1>9, <1>10, <1>12 DEF Installing

LEMMA RestoreResultsKeeps ==
  ASSUME Installing, NEW i \in Installers, RestoreResults(i)
  PROVE  Installing' /\ Carried
<1>0. PICK nr : nr = installer[i].nr
  OBVIOUS
<1>1. /\ DeployTyped /\ Numbered /\ BackupsUsed /\ BackupWhole /\ ReceiptKnown /\ installer[i] \in InstallerRecs
      /\ installs \in Nat
  BY DEF Installing, DeployTyped
<1>2. /\ installer[i].phase = "restore" /\ Step(i, "validate") /\ UNCHANGED <<tree, receipt, installs>>
      /\ \/ /\ backups[nr].results.there /\ results \in {NoResults, EmptyResults}
            /\ results' = backups[nr].results
            /\ backups' = [backups EXCEPT ![nr].results = NoResults]
         \/ /\ ~ backups[nr].results.there /\ results' = [results EXCEPT !.there = TRUE]
            /\ UNCHANGED backups
  BY <1>0 DEF RestoreResults
<1>3. /\ installer' \in [Installers -> InstallerRecs] /\ Numbered'
      /\ installer'[i].phase = "validate" /\ installer'[i].nr = nr
      /\ \A j \in Installers \ {i} : installer'[j] = installer[j]
  BY <1>0, <1>2, SteppingKeeps DEF InstallPhases, Moving
<1>4. nr \in 1..installs /\ nr \in 1..LastInstall
  BY <1>0, <1>1, <1>2, DeploymentAssumption DEF Numbered, Moving, InstallPhases, DeployTyped
<1>5. \A j \in Installers \ {i} : installer'[j].phase \in Moving => installer'[j].nr # nr /\ installer'[j].nr \in 1..LastInstall
  BY <1>0, <1>1, <1>2, <1>3, DeploymentAssumption DEF Numbered, Moving, InstallPhases, DeployTyped
<1>6. backups[nr] \in BackupDirs /\ results \in ResultDirs /\ backups \in [1..LastInstall -> BackupDirs]
      /\ backups[nr].results \in ResultDirs
  BY <1>1, <1>4 DEF DeployTyped, BackupDirs
<1>7. /\ results' \in ResultDirs /\ results'.there
      /\ backups' \in [1..LastInstall -> BackupDirs] /\ ~ backups'[nr].results.there
      /\ backups'[nr].results.runs = NoRuns
      /\ \A b \in 1..LastInstall : b # nr => backups'[b] = backups[b]
      /\ \/ results'.runs = results.runs /\ backups[nr].results.runs = NoRuns
         \/ results'.runs = backups[nr].results.runs /\ results.runs = NoRuns
  <2>1. CASE UNCHANGED backups
    <3>1. ~ backups[nr].results.there => backups[nr].results.runs = NoRuns
      BY <1>1, <1>4 DEF BackupWhole
    <3>2. CASE ~ backups[nr].results.there /\ results' = [results EXCEPT !.there = TRUE]
      <4>1. results' \in ResultDirs /\ results'.there /\ results'.runs = results.runs
        BY <1>6, <3>2 DEF ResultDirs
      <4> QED
        BY <1>6, <2>1, <3>1, <3>2, <4>1
    <3>3. CASE backups[nr].results.there /\ backups' = [backups EXCEPT ![nr].results = NoResults]
      <4>1. backups'[nr].results = NoResults
        BY <1>4, <1>6, <3>3 DEF BackupDirs
      <4> QED
        BY <2>1, <3>3, <4>1, EmptyOnes
    <3> QED
      BY <1>2, <3>2, <3>3
  <2>2. CASE /\ backups[nr].results.there /\ results \in {NoResults, EmptyResults}
             /\ results' = backups[nr].results
             /\ backups' = [backups EXCEPT ![nr].results = NoResults]
    <3> DEFINE bk == [backups[nr] EXCEPT !.results = NoResults]
    <3>1. bk \in BackupDirs /\ bk.results = NoResults
      BY <1>6, EmptyOnes DEF BackupDirs
    <3>2. backups' = [backups EXCEPT ![nr] = bk]
      BY <2>2
    <3> HIDE DEF bk
    <3>3. /\ backups' \in [1..LastInstall -> BackupDirs] /\ backups'[nr].results = NoResults
          /\ \A b \in 1..LastInstall : b # nr => backups'[b] = backups[b]
      BY <1>4, <1>6, <3>1, <3>2
    <3> QED
      BY <1>6, <2>2, <3>3, EmptyOnes
  <2> QED
    BY <1>2, <2>1, <2>2
<1>8. DeployTyped' /\ ReceiptKnown'
  BY <1>1, <1>2, <1>3, <1>7 DEF DeployTyped, ReceiptKnown
<1>9. BackupsUsed'
  <2>1. \A b \in 1..LastInstall : b > installs' => backups'[b].results = NoResults
    BY <1>1, <1>2, <1>4, <1>7 DEF BackupsUsed
  <2>2. ASSUME NEW j \in Installers \ {i}, installer'[j].phase \in {"outCode", "validate", "receipt", "clean"}
        PROVE  backups'[installer'[j].nr] = backups[installer[j].nr] /\ installer'[j] = installer[j]
    BY <1>3, <1>5, <1>7, <2>2 DEF Moving, InstallPhases
  <2>3. \A j \in Installers : installer'[j].phase = "outCode" => backups'[installer'[j].nr].results = NoResults
    BY <1>1, <1>3, <2>2 DEF BackupsUsed
  <2>4. \A j \in Installers : installer'[j].phase \in {"validate", "receipt", "clean"} =>
          ~ backups'[installer'[j].nr].results.there
    BY <1>1, <1>3, <1>7, <2>2 DEF BackupsUsed
  <2> QED
    BY <2>1, <2>3, <2>4 DEF BackupsUsed
<1>10. BackupWhole'
  BY <1>1, <1>7 DEF BackupWhole
<1>11. /\ Runs(nr)' = NoRuns /\ \A b \in Places \ {0, nr} : Runs(b)' = Runs(b)
       /\ \/ Runs(0)' = Runs(0) /\ Runs(nr) = NoRuns
          \/ Runs(0)' = Runs(nr) /\ Runs(0) = NoRuns
  BY <1>4, <1>7, EmptyOnes DEF Runs
<1>12. Carried
  BY <1>4, <1>11, EmptyOnes DEF Carried
<1> QED
  BY <1>3, <1>8, <1>9, <1>10, <1>12 DEF Installing

LEMMA RemoveBackupKeeps ==
  ASSUME Installing, NEW i \in Installers, RemoveBackup(i)
  PROVE  Installing' /\ Carried
<1>0. PICK nr : nr = installer[i].nr
  OBVIOUS
<1>1. /\ DeployTyped /\ Numbered /\ BackupsUsed /\ BackupWhole /\ ReceiptKnown /\ installer[i] \in InstallerRecs
      /\ installs \in Nat
  BY DEF Installing, DeployTyped
<1>2. /\ installer[i].phase = "clean" /\ Step(i, "idle") /\ UNCHANGED <<tree, results, receipt, installs>>
      /\ backups' = [backups EXCEPT ![nr] = NoBackup]
  BY <1>0 DEF RemoveBackup
<1>3. /\ installer' \in [Installers -> InstallerRecs] /\ Numbered'
      /\ installer'[i].phase = "idle"
      /\ \A j \in Installers \ {i} : installer'[j] = installer[j]
  BY <1>0, <1>2, SteppingKeeps DEF InstallPhases, Moving
<1>4. nr \in 1..LastInstall /\ ~ backups[nr].results.there /\ backups[nr].results.runs = NoRuns
  BY <1>0, <1>1, <1>2, DeploymentAssumption DEF Numbered, Moving, InstallPhases, DeployTyped, BackupsUsed, BackupWhole
<1>5. \A j \in Installers \ {i} : installer'[j].phase \in Moving => installer'[j].nr # nr /\ installer'[j].nr \in 1..LastInstall
  BY <1>0, <1>1, <1>2, <1>3, DeploymentAssumption DEF Numbered, Moving, InstallPhases, DeployTyped
<1>6. /\ backups' \in [1..LastInstall -> BackupDirs] /\ backups'[nr] = NoBackup
      /\ \A b \in 1..LastInstall : b # nr => backups'[b] = backups[b]
  BY <1>1, <1>2, <1>4, EmptyOnes DEF DeployTyped
<1>7. DeployTyped' /\ ReceiptKnown'
  BY <1>1, <1>2, <1>3, <1>6 DEF DeployTyped, ReceiptKnown
<1>8. BackupsUsed'
  <2>1. \A b \in 1..LastInstall : b > installs' => backups'[b].results = NoResults
    BY <1>1, <1>2, <1>4, <1>6, EmptyOnes DEF BackupsUsed
  <2>2. ASSUME NEW j \in Installers, installer'[j].phase \in {"outCode", "validate", "receipt", "clean"}
        PROVE  backups'[installer'[j].nr] = backups[installer[j].nr] /\ installer'[j] = installer[j]
    BY <1>3, <1>5, <1>6, <2>2 DEF Moving, InstallPhases
  <2> QED
    BY <1>1, <2>1, <2>2 DEF BackupsUsed
<1>9. BackupWhole'
  BY <1>1, <1>2, <1>6, EmptyOnes DEF BackupWhole
<1>10. Runs(nr)' = NoRuns /\ Runs(nr) = NoRuns /\ \A b \in Places \ {nr} : Runs(b)' = Runs(b)
  BY <1>2, <1>4, <1>6, EmptyOnes DEF Runs
<1>11. Carried
  BY <1>4, <1>10, EmptyOnes DEF Carried
<1> QED
  BY <1>3, <1>7, <1>8, <1>9, <1>11 DEF Installing

LEMMA InstallKeeps ==
  ASSUME Installing, DeployNext
  PROVE  Installing' /\ Carried
<1>1. PICK i \in Installers : Install(i)
  BY DEF DeployNext
<1> QED
  BY <1>1, UnpackKeeps, UnlinkKeeps, QuietKeeps, MoveOutCodeKeeps, RestoreResultsKeeps, RemoveBackupKeeps
     DEF Install

LEMMA InstallInit == DeployInit => Installing
<1> SUFFICES ASSUME DeployInit PROVE Installing
  OBVIOUS
<1>1. DeployTyped
  BY DeploymentAssumption, EmptyOnes DEF DeployInit, DeployTyped, Nowhere, InstallerRecs, InstallPhases
<1>2. Numbered /\ BackupsUsed /\ ReceiptKnown
  BY EmptyOnes DEF DeployInit, Numbered, BackupsUsed, ReceiptKnown, Nowhere, Moving
<1>3. BackupWhole
  BY EmptyOnes DEF DeployInit, BackupWhole
<1> QED
  BY <1>1, <1>2, <1>3 DEF Installing

-----------------------------------------------------------------------------
(* A launch moves.                                                         *)

Late == {"witness", "govern", "conclude", "end"}
\* What is written stays written, and phases go one way.
Onward(old, new) ==
  old.phase \in Late =>
    /\ new.cell = old.cell /\ new.dep = old.dep /\ new.code = old.code /\ new.wrote = old.wrote
    /\ \/ new.phase \in {old.phase, "end"}
       \/ old.phase = "witness" /\ new.phase = "govern"
       \/ old.phase = "govern" /\ new.phase = "conclude"
Grows ==
  \A k \in Launches :
    Onward(job[k], job'[k]) /\ (attempt[k] = "success" => attempt'[k] = "success")

\* The launch n goes on as rec, with the status s.
Lawful(n, rec, s) ==
  /\ rec.phase # "new" /\ rec.cell \in Cells /\ s # "none"
  /\ s = "success" => rec.phase = "end"
  /\ rec.ok => rec.phase \in {"govern", "conclude"}
  /\ attempt[n] = "success" => s = "success"
  /\ Onward(job[n], rec)
  /\ rec.phase \in AfterGate \/ s = "success" =>
       \/ /\ job[n].phase \in AfterGate \/ attempt[n] = "success"
          /\ rec.dep = job[n].dep /\ rec.cell = job[n].cell
       \/ \A p \in 1..(rec.cell - 1) : Behind(p, rec.dep)
\* It claims no log it did not have.
Unclaiming(n, rec, s) ==
  rec.phase \in {"write", "witness"} \/ rec.ok \/ s = "success" =>
    Published(n) /\ rec.cell = job[n].cell
Moves(n, rec, s) == job' = [job EXCEPT ![n] = rec] /\ attempt' = [attempt EXCEPT ![n] = s]

LEMMA BehindStays ==
  ASSUME Grows, NEW p, NEW dep, Behind(p, dep)
  PROVE  Behind(p, dep)'
<1>1. PICK m \in Launches :
        attempt[m] = "success" /\ Past(m, p, {}) /\ job[m].dep = dep /\ job[m].code = dep.commit
  BY DEF Behind
<1>2. PICK k \in Launches :
        Past(k, p, {"witness", "govern", "conclude"}) /\ job[k].wrote = dep.commit
  BY DEF Behind
<1>3. attempt'[m] = "success" /\ Past(m, p, {})' /\ job'[m].dep = dep /\ job'[m].code = dep.commit
  BY <1>1 DEF Grows, Onward, Past, Late
<1>4. Past(k, p, {"witness", "govern", "conclude"})' /\ job'[k].wrote = dep.commit
  BY <1>2 DEF Grows, Onward, Past, Late
<1> QED
  BY <1>3, <1>4 DEF Behind

LEMMA MarksStay ==
  ASSUME Grows, NEW r \in RunDirs, NEW c, Marked(r, c)
  PROVE  Marked(r, c)'
<1>1. r.gov.by \in Launches \cup {None} /\ r.formal.by \in Launches \cup {None} /\ r.receipt.by \in Launches \cup {None}
  BY DEF RunDirs, Governances, Marks
<1>2. ASSUME r.gov.by # None
      PROVE  Past(r.gov.by, c, {"conclude"})' /\ job'[r.gov.by].dep = r.gov.dep
  BY <1>1, <1>2 DEF Marked, Past, Grows, Onward, Late
<1>3. ASSUME r.formal.by # None
      PROVE  Past(r.formal.by, c, {"govern", "conclude"})' /\ job'[r.formal.by].code = r.formal.code
  BY <1>1, <1>3 DEF Marked, Past, Grows, Onward, Late
<1>4. ASSUME r.receipt.by # None
      PROVE  /\ Past(r.receipt.by, c, {"witness", "govern", "conclude"})'
             /\ job'[r.receipt.by].wrote = r.receipt.code
  BY <1>1, <1>4 DEF Marked, Past, Grows, Onward, Late
<1> QED
  BY <1>2, <1>3, <1>4 DEF Marked

LEMMA MoveKeeps ==
  ASSUME Underway, NEW n \in Launches, NEW rec \in JobRecs, NEW s \in Statuses,
         Moves(n, rec, s), Lawful(n, rec, s),
         current' \in [nonce : Launches \cup {None}, status : Statuses]
  PROVE  Underway' /\ Grows
<1>1. LaunchTyped /\ Begun /\ Gated
  BY DEF Underway
<1>2. /\ job' \in [Launches -> JobRecs] /\ attempt' \in [Launches -> Statuses]
      /\ job'[n] = rec /\ attempt'[n] = s
      /\ \A k \in Launches \ {n} : job'[k] = job[k] /\ attempt'[k] = attempt[k]
  BY <1>1 DEF Moves, LaunchTyped
<1>3. LaunchTyped'
  BY <1>2 DEF LaunchTyped
<1>4. Begun'
  BY <1>1, <1>2 DEF Begun, Lawful
<1>5. Grows
  <2>1. \A k \in Launches : Onward(job[k], job[k])
    BY DEF Onward
  <2> QED
    BY <1>2, <2>1 DEF Grows, Lawful
<1>6. Gated'
  <2> SUFFICES ASSUME NEW k \in Launches, job'[k].phase \in AfterGate \/ attempt'[k] = "success",
                      NEW p \in 1..(job'[k].cell - 1), NEW dep, dep = job'[k].dep
               PROVE  Behind(p, dep)'
    BY DEF Gated, Cell, Behind, Past
  <2>1. Behind(p, dep)
    <3>1. CASE k # n
      BY <1>1, <1>2, <3>1 DEF Gated, Cell
    <3>2. CASE k = n /\ (job[n].phase \in AfterGate \/ attempt[n] = "success")
                     /\ rec.dep = job[n].dep /\ rec.cell = job[n].cell
      BY <1>1, <1>2, <3>2 DEF Gated, Cell
    <3>3. CASE k = n /\ \A q \in 1..(rec.cell - 1) : Behind(q, rec.dep)
      BY <1>2, <3>3
    <3> QED
      BY <1>2, <3>1, <3>2, <3>3 DEF Lawful
  <2> QED
    BY <1>5, <2>1, BehindStays
<1> QED
  BY <1>3, <1>4, <1>5, <1>6 DEF Underway

-----------------------------------------------------------------------------
(* What a launch leaves in its run directory.                              *)

\* In CODE/Results the directory of the cell c becomes r.
Rewrites(c, r) ==
  /\ results' \in ResultDirs /\ results'.there
  /\ results'.runs = [results.runs EXCEPT ![c] = r]
  /\ UNCHANGED <<tree, receipt, backups, installer, installs>>
\* The logs that matter are those that mattered; n may claim the one of r.
Claims(n, r) ==
  \A k \in Launches : Published(k)' =>
    /\ Cell(k)' = Cell(k) /\ Cell(k) \in Cells
    /\ Published(k) \/ (k = n /\ r.log = n)

LEMMA RewriteKeeps ==
  ASSUME Preserved, Grows, NEW n \in Launches, NEW r \in RunDirs, Cell(n) \in Cells, Rewrites(Cell(n), r),
         Marked(r, Cell(n))', Cell(n)' = Cell(n),
         results.runs[Cell(n)].log # None => r.log = results.runs[Cell(n)].log,
         Claims(n, r)
  PROVE  Preserved'
<1>0. PICK c \in Cells : c = Cell(n)
  OBVIOUS
<1>1. /\ DeployTyped /\ Numbered /\ BackupsUsed /\ BackupWhole /\ ReceiptKnown /\ Evident /\ Logged
      /\ UNCHANGED <<tree, receipt, backups, installer, installs>>
      /\ results' \in ResultDirs /\ results'.there /\ results'.runs = [results.runs EXCEPT ![c] = r]
  BY <1>0 DEF Preserved, Installing, Rewrites
<1>2. Installing'
  <2>1. DeployTyped'
    BY <1>1 DEF DeployTyped
  <2>2. Numbered' /\ ReceiptKnown'
    BY <1>1 DEF Numbered, ReceiptKnown
  <2>3. BackupsUsed' /\ BackupWhole'
    BY <1>1 DEF BackupsUsed, BackupWhole
  <2> QED
    BY <2>1, <2>2, <2>3 DEF Installing
<1>3. results.runs \in [Cells -> RunDirs] /\ \A b \in 1..LastInstall : backups[b].results.runs \in [Cells -> RunDirs]
  BY <1>1 DEF DeployTyped, ResultDirs, BackupDirs
<1>4. /\ \A b \in Places : Runs(b) \in [Cells -> RunDirs]
      /\ \A b \in Places \ {0} : Runs(b)' = Runs(b)
      /\ Runs(0) = results.runs /\ Runs(0)' = [results.runs EXCEPT ![c] = r]
  BY <1>1, <1>3, EmptyOnes DEF Runs
<1>5. Runs(0)'[c] = r /\ \A d \in Cells \ {c} : Runs(0)'[d] = Runs(0)[d]
  BY <1>3, <1>4
<1>6. ASSUME NEW b \in Places, NEW d \in Cells
      PROVE  Marked(Runs(b)[d], d)'
  <2>1. CASE b = 0 /\ d = c
    <3>1. PICK rr : rr = Runs(b)'[d]
      OBVIOUS
    <3>2. rr = r /\ Marked(r, c)'
      BY <1>0, <1>5, <2>1, <3>1 DEF Cell, Marked, Past
    <3> QED
      BY <2>1, <3>1, <3>2 DEF Marked, Past
  <2>2. CASE ~ (b = 0 /\ d = c)
    <3>1. PICK rr : rr = Runs(b)[d]
      OBVIOUS
    <3>2. rr \in RunDirs /\ Marked(rr, d) /\ Runs(b)'[d] = rr
      BY <1>1, <1>4, <1>5, <2>2, <3>1 DEF Evident
    <3>3. Marked(rr, d)'
      BY <3>2, MarksStay
    <3> QED
      BY <3>2, <3>3 DEF Marked, Past
  <2> QED
    BY <2>1, <2>2
<1>7. Evident'
  BY <1>6 DEF Evident, Places
<1>8. ASSUME NEW d \in Cells, NEW k \in Launches, LogAt(d, k)
      PROVE  \E b \in Places : Runs(b)'[d].log = k
  <2>1. PICK b \in Places : Runs(b)[d].log = k
    BY <1>8 DEF LogAt
  <2>2. Runs(b)'[d].log = k
    <3>1. CASE b = 0 /\ d = c
      <4>1. k # None
        BY DeploymentAssumption
      <4> QED
        BY <1>0, <1>4, <1>5, <2>1, <3>1, <4>1
    <3>2. CASE ~ (b = 0 /\ d = c)
      BY <1>4, <1>5, <2>1, <3>2
    <3> QED
      BY <3>1, <3>2
  <2> QED
    BY <2>2
<1>9. Logged'
  <2> SUFFICES ASSUME NEW k \in Launches, Published(k)'
               PROVE  \E b \in Places : Runs(b)'[job'[k].cell].log = k
    BY DEF Logged, LogAt, Cell, Places
  <2>1. PICK d \in Cells : d = Cell(k) /\ job'[k].cell = d
    BY DEF Claims, Cell
  <2>2. CASE Published(k)
    <3>1. LogAt(d, k)
      BY <1>1, <2>1, <2>2 DEF Logged
    <3> QED
      BY <1>8, <2>1, <3>1
  <2>3. CASE k = n /\ r.log = n
    <3>1. d = c /\ Runs(0)'[d].log = k
      BY <1>0, <1>5, <2>1, <2>3
    <3> QED
      BY <2>1, <3>1, EmptyOnes
  <2> QED
    BY <2>2, <2>3 DEF Claims
<1> QED
  BY <1>2, <1>7, <1>9 DEF Preserved

LEMMA NoRewriteKeeps ==
  ASSUME Preserved, Grows, UNCHANGED deployVars,
         \A k \in Launches : Published(k)' => Cell(k)' = Cell(k) /\ Published(k)
  PROVE  Preserved'
<1>1. /\ DeployTyped /\ Numbered /\ BackupsUsed /\ BackupWhole /\ ReceiptKnown /\ Evident /\ Logged
      /\ UNCHANGED <<tree, results, receipt, backups, installer, installs>>
  BY DEF Preserved, Installing, deployVars
<1>2. Installing'
  <2>1. DeployTyped' /\ Numbered' /\ ReceiptKnown'
    BY <1>1 DEF DeployTyped, Numbered, ReceiptKnown
  <2>2. BackupsUsed' /\ BackupWhole'
    BY <1>1 DEF BackupsUsed, BackupWhole
  <2> QED
    BY <2>1, <2>2 DEF Installing
<1>3. \A b \in Places : Runs(b)' = Runs(b) /\ Runs(b) \in [Cells -> RunDirs]
  BY <1>1, EmptyOnes DEF Runs, DeployTyped, ResultDirs, BackupDirs
<1>4. Evident'
  <2> SUFFICES ASSUME NEW b \in Places, NEW d \in Cells PROVE Marked(Runs(b)[d], d)'
    BY DEF Evident, Places
  <2>1. PICK rr : rr = Runs(b)[d]
    OBVIOUS
  <2>2. rr \in RunDirs /\ Marked(rr, d) /\ Runs(b)'[d] = rr
    BY <1>1, <1>3, <2>1 DEF Evident
  <2>3. Marked(rr, d)'
    BY <2>2, MarksStay
  <2> QED
    BY <2>2, <2>3 DEF Marked, Past
<1>5. Logged'
  <2> SUFFICES ASSUME NEW k \in Launches, Published(k)'
               PROVE  \E b \in Places : Runs(b)'[job'[k].cell].log = k
    BY DEF Logged, LogAt, Cell, Places
  <2>1. LogAt(Cell(k), k) /\ job'[k].cell = Cell(k)
    BY <1>1 DEF Logged, Cell
  <2> QED
    BY <1>3, <2>1 DEF LogAt
<1> QED
  BY <1>2, <1>4, <1>5 DEF Preserved

\* An installation carries evidence and logs along.
LEMMA CarriedKeeps ==
  ASSUME Preserved, LaunchTyped, Begun, Carried, Installing', UNCHANGED launchVars
  PROVE  Preserved'
<1>1. Evident /\ Logged /\ UNCHANGED <<attempt, current, job>>
  BY DEF Preserved, launchVars
<1>2. \A r, c : Marked(r, c)' <=> Marked(r, c)
  BY <1>1 DEF Marked, Past
<1>3. \A c \in Cells : NoRuns[c] = NoRun /\ NoRun.log = None /\ Marked(NoRun, c)
  BY DEF NoRuns, NoRun, NoMark, NoGovernance, Marked
<1>4. Evident'
  <2> SUFFICES ASSUME NEW b \in Places, NEW d \in Cells PROVE Marked(Runs(b)[d], d)'
    BY DEF Evident, Places
  <2>1. PICK rr : rr = Runs(b)'[d]
    OBVIOUS
  <2>2. Marked(rr, d)
    BY <1>1, <1>3, <2>1 DEF Carried, Evident
  <2> QED
    BY <1>1, <2>1, <2>2 DEF Marked, Past
<1>5. Logged'
  <2> SUFFICES ASSUME NEW k \in Launches, Published(k)'
               PROVE  \E b \in Places : Runs(b)'[job'[k].cell].log = k
    BY DEF Logged, LogAt, Cell, Places
  <2>1. Published(k) /\ job'[k].cell = Cell(k)
    BY <1>1 DEF Published, Cell
  <2>2. Cell(k) \in Cells
    <3>1. job[k].phase # "new"
      BY <2>1 DEF Begun, Published
    <3> QED
      BY <3>1 DEF Begun, Cell
  <2>3. PICK b \in Places : Runs(b)[Cell(k)].log = k
    BY <1>1, <2>1 DEF Logged, LogAt
  <2>4. Runs(b) # NoRuns
    BY <1>3, <2>2, <2>3, DeploymentAssumption
  <2> QED
    BY <2>1, <2>3, <2>4 DEF Carried
<1> QED
  BY <1>4, <1>5 DEF Preserved

\* The current status: n has more to write, is not the current launch, or
\* leaves its status as it is.
Reported(n, rec, s) ==
  /\ current' = current
  /\ rec.persist # "none" \/ current.nonce # n \/ (job[n].persist = "none" /\ s = attempt[n])

LEMMA AgreedStays ==
  ASSUME LaunchTyped, Agreed, NEW n \in Launches, NEW rec, NEW s, Moves(n, rec, s), Reported(n, rec, s)
  PROVE  Agreed'
<1>1. /\ job'[n] = rec /\ attempt'[n] = s
      /\ \A k \in Launches \ {n} : job'[k] = job[k] /\ attempt'[k] = attempt[k]
  BY DEF Moves, LaunchTyped
<1>2. ASSUME NEW k \in Launches, current'.nonce = k, job'[k].persist = "none"
      PROVE  current'.status = attempt'[k]
  <2>1. CASE k = n
    BY <1>1, <1>2, <2>1 DEF Agreed, CurrentFollowsAttempt, Reported
  <2>2. CASE k # n
    BY <1>1, <1>2, <2>2 DEF Agreed, CurrentFollowsAttempt, Reported
  <2> QED
    BY <2>1, <2>2
<1> QED
  BY <1>2 DEF Agreed, CurrentFollowsAttempt, Reported

LEMMA ClaimsIs ==
  ASSUME LaunchTyped, Begun, NEW n \in Launches, NEW rec \in JobRecs, NEW s \in Statuses, Moves(n, rec, s),
         NEW r, Unclaiming(n, rec, s) \/ (r.log = n /\ rec.cell = job[n].cell /\ rec.cell \in Cells)
  PROVE  Claims(n, r)
<1> SUFFICES ASSUME NEW k \in Launches, Published(k)'
             PROVE  Cell(k)' = Cell(k) /\ Cell(k) \in Cells /\ (Published(k) \/ (k = n /\ r.log = n))
  BY DEF Claims
<1>1. /\ job'[n] = rec /\ attempt'[n] = s
      /\ \A j \in Launches \ {n} : job'[j] = job[j] /\ attempt'[j] = attempt[j]
  BY DEF Moves, LaunchTyped
<1>2. \A j \in Launches : Published(j) => Cell(j) \in Cells
  <2> SUFFICES ASSUME NEW j \in Launches, Published(j) PROVE Cell(j) \in Cells
    OBVIOUS
  <2>1. job[j].phase # "new"
    BY DEF Begun, Published
  <2> QED
    BY <2>1 DEF Begun, Cell
<1>3. CASE k # n
  <2>1. Published(k) /\ Cell(k)' = Cell(k)
    BY <1>1, <1>3 DEF Published, Cell
  <2> QED
    BY <1>2, <2>1
<1>4. CASE k = n /\ Unclaiming(n, rec, s)
  <2>1. rec.phase \in {"write", "witness"} \/ rec.ok \/ s = "success"
    BY <1>1, <1>4 DEF Published
  <2>2. Published(n) /\ rec.cell = job[n].cell
    BY <1>4, <2>1 DEF Unclaiming
  <2> QED
    BY <1>1, <1>2, <1>4, <2>2 DEF Cell
<1>5. CASE k = n /\ r.log = n /\ rec.cell = job[n].cell /\ rec.cell \in Cells
  BY <1>1, <1>5 DEF Cell
<1> QED
  BY <1>3, <1>4, <1>5

\* A launch that writes nothing in Results.
LEMMA QuietMove ==
  ASSUME Launched, NEW n \in Launches, NEW rec \in JobRecs, NEW s \in Statuses, Moves(n, rec, s),
         Lawful(n, rec, s), Unclaiming(n, rec, s), Reported(n, rec, s), UNCHANGED deployVars
  PROVE  Launched'
<1>1. Preserved /\ Underway /\ Agreed /\ LaunchTyped /\ Begun /\ current' = current
  BY DEF Launched, Underway, Reported
<1>2. current' \in [nonce : Launches \cup {None}, status : Statuses]
  BY <1>1 DEF LaunchTyped
<1>3. Underway' /\ Grows
  BY <1>1, <1>2, MoveKeeps
<1>4. Agreed'
  BY <1>1, AgreedStays
<1> DEFINE r == [log |-> None]
<1>5. r.log # n
  BY DeploymentAssumption
<1> HIDE DEF r
<1>6. Claims(n, r)
  BY <1>1, ClaimsIs
<1>7. \A k \in Launches : Published(k)' => Cell(k)' = Cell(k) /\ Published(k)
  BY <1>5, <1>6 DEF Claims
<1>8. Preserved'
  BY <1>1, <1>3, <1>7, NoRewriteKeeps
<1> QED
  BY <1>3, <1>4, <1>8 DEF Launched

\* A launch that makes r of its run directory.
LEMMA WritingMove ==
  ASSUME Launched, NEW n \in Launches, NEW rec \in JobRecs, NEW s \in Statuses, Moves(n, rec, s),
         Lawful(n, rec, s), Reported(n, rec, s), rec.cell = job[n].cell,
         NEW r \in RunDirs, Rewrites(Cell(n), r), Grows => Marked(r, Cell(n))',
         results.runs[Cell(n)].log # None => r.log = results.runs[Cell(n)].log,
         Unclaiming(n, rec, s) \/ r.log = n
  PROVE  Launched'
<1>1. Preserved /\ Underway /\ Agreed /\ LaunchTyped /\ Begun /\ current' = current
  BY DEF Launched, Underway, Reported
<1>2. current' \in [nonce : Launches \cup {None}, status : Statuses]
  BY <1>1 DEF LaunchTyped
<1>3. Underway' /\ Grows
  BY <1>1, <1>2, MoveKeeps
<1>4. Agreed'
  BY <1>1, AgreedStays
<1>5. Cell(n) \in Cells /\ Cell(n)' = Cell(n) /\ rec.cell \in Cells
  BY <1>1 DEF Lawful, Cell, Moves, LaunchTyped
<1>6. Claims(n, r)
  BY <1>1, <1>5, ClaimsIs
<1>7. Preserved'
  BY <1>1, <1>3, <1>5, <1>6, RewriteKeeps
<1> QED
  BY <1>3, <1>4, <1>7 DEF Launched

-----------------------------------------------------------------------------
(* The steps of a launch.                                                  *)

LEMMA JobIs ==
  ASSUME Launched, NEW n \in Launches
  PROVE  /\ LaunchTyped /\ Installing /\ job[n] \in JobRecs /\ attempt[n] \in Statuses
         /\ job[n].phase \in JobPhases /\ job[n].cell \in 0..LastCell /\ job[n].dep \in Deployments
         /\ job[n].code \in Commits \cup {None} /\ job[n].wrote \in Commits \cup {None}
         /\ job[n].ok \in BOOLEAN /\ job[n].persist \in {"none", "look", "write", "dead"}
         /\ job[n].phase = "new" => job[n].persist = "none"
         /\ job[n].phase # "new" => job[n].cell \in Cells /\ attempt[n] # "none"
         /\ attempt[n] = "success" => job[n].phase = "end"
         /\ job[n].ok => job[n].phase \in {"govern", "conclude"}
         /\ attempt = [attempt EXCEPT ![n] = attempt[n]]
<1>1. LaunchTyped /\ Begun /\ Installing
  BY DEF Launched, Underway, Preserved
<1>2. job[n] \in JobRecs /\ attempt[n] \in Statuses /\ attempt = [attempt EXCEPT ![n] = attempt[n]]
  BY <1>1 DEF LaunchTyped
<1> QED
  BY <1>1, <1>2 DEF Begun, JobRecs

LEMMA LaunchKeeps ==
  ASSUME Launched, NEW n \in Launches, NEW c \in Cells, Launch(n, c)
  PROVE  Launched'
<1> DEFINE rec == [job[n] EXCEPT !.persist = "write", !.phase = "prepare", !.cell = c]
<1>1. /\ job[n].phase = "new" /\ attempt' = [attempt EXCEPT ![n] = "launching"]
      /\ job' = [job EXCEPT ![n] = rec] /\ UNCHANGED deployVars /\ current' = current
  BY DEF Launch, At
<1>2. c \in 0..LastCell
  BY DeploymentAssumption DEF Cells
<1>3. rec \in JobRecs /\ rec.persist = "write" /\ rec.phase = "prepare" /\ rec.cell = c /\ ~ rec.ok
  BY <1>1, <1>2, JobIs DEF JobRecs, JobPhases
<1> HIDE DEF rec
<1>4. Moves(n, rec, "launching") /\ "launching" \in Statuses
  BY <1>1 DEF Moves, Statuses
<1>5. Lawful(n, rec, "launching") /\ Unclaiming(n, rec, "launching") /\ Reported(n, rec, "launching")
  BY <1>1, <1>3, JobIs DEF Lawful, Unclaiming, Reported, Onward, Late, AfterGate
<1> QED
  BY <1>1, <1>3, <1>4, <1>5, QuietMove

LEMMA LookKeeps ==
  ASSUME Launched, NEW n \in Launches, LookAtCurrent(n)
  PROVE  Launched'
<1> DEFINE go == IF Belongs(n) THEN "write" ELSE "none"
           rec == [job[n] EXCEPT !.persist = go]
<1>1. /\ job[n].persist = "look" /\ UNCHANGED <<deployVars, attempt, current>>
      /\ job' = [job EXCEPT ![n] = rec]
  BY DEF LookAtCurrent
<1>2. go \in {"write", "none"} /\ (go = "none" => current.nonce # n)
  BY DEF Belongs
<1> HIDE DEF go
<1>3. rec \in JobRecs /\ rec.persist = go /\ rec.phase = job[n].phase /\ rec.cell = job[n].cell
      /\ rec.dep = job[n].dep /\ rec.code = job[n].code /\ rec.wrote = job[n].wrote /\ rec.ok = job[n].ok
  BY <1>2, JobIs DEF JobRecs
<1> HIDE DEF rec
<1>4. Moves(n, rec, attempt[n])
  BY <1>1, JobIs DEF Moves
<1>5. Lawful(n, rec, attempt[n])
  BY <1>1, <1>3, JobIs DEF Lawful, Onward
<1>6. Unclaiming(n, rec, attempt[n]) /\ Reported(n, rec, attempt[n])
  BY <1>1, <1>2, <1>3 DEF Unclaiming, Reported, Published
<1> QED
  BY <1>1, <1>3, <1>4, <1>5, <1>6, JobIs, QuietMove

LEMMA WriteCurrentKeeps ==
  ASSUME Launched, NEW n \in Launches, WriteCurrent(n)
  PROVE  Launched'
<1> DEFINE rec == [job[n] EXCEPT !.persist = "none"]
<1>0. Preserved /\ Underway /\ Agreed
  BY DEF Launched
<1>1. /\ job[n].persist = "write" /\ UNCHANGED <<deployVars, attempt>>
      /\ current' = [nonce |-> n, status |-> attempt[n]] /\ job' = [job EXCEPT ![n] = rec]
  BY DEF WriteCurrent
<1>2. rec \in JobRecs /\ rec.persist = "none" /\ rec.phase = job[n].phase /\ rec.cell = job[n].cell
      /\ rec.dep = job[n].dep /\ rec.code = job[n].code /\ rec.wrote = job[n].wrote /\ rec.ok = job[n].ok
  BY JobIs DEF JobRecs
<1> HIDE DEF rec
<1>3. Moves(n, rec, attempt[n])
  BY <1>1, JobIs DEF Moves
<1>4. Lawful(n, rec, attempt[n])
  BY <1>1, <1>2, JobIs DEF Lawful, Onward
<1>5. current' \in [nonce : Launches \cup {None}, status : Statuses]
  BY <1>1, JobIs
<1>6. Underway' /\ Grows
  BY <1>0, <1>2, <1>3, <1>4, <1>5, JobIs, MoveKeeps
<1>7. \A k \in Launches : Published(k)' => Cell(k)' = Cell(k) /\ Published(k)
  BY <1>1, <1>2, JobIs DEF Published, Cell, LaunchTyped
<1>8. Preserved'
  BY <1>0, <1>1, <1>6, <1>7, NoRewriteKeeps
<1>9. Agreed'
  BY <1>1, JobIs, DeploymentAssumption DEF Agreed, CurrentFollowsAttempt
<1> QED
  BY <1>6, <1>8, <1>9 DEF Launched

\* A launch writes its status, to go on with another phase.
LEMMA PersistMoves ==
  ASSUME Launched, NEW n \in Launches, NEW s \in Statuses, NEW ph \in JobPhases,
         Persist(n, s, "look", ph)
  PROVE  \E rec \in JobRecs :
           /\ Moves(n, rec, s) /\ rec.persist = "look" /\ rec.phase = ph /\ ~ rec.ok
           /\ rec.cell = job[n].cell /\ rec.dep = job[n].dep /\ rec.code = job[n].code
           /\ rec.wrote = job[n].wrote
<1> DEFINE rec == [job[n] EXCEPT !.persist = "look", !.phase = ph, !.ok = FALSE]
<1>1. rec \in JobRecs /\ rec.persist = "look" /\ rec.phase = ph /\ ~ rec.ok
      /\ rec.cell = job[n].cell /\ rec.dep = job[n].dep /\ rec.code = job[n].code
      /\ rec.wrote = job[n].wrote
  BY JobIs DEF JobRecs
<1>2. Moves(n, rec, s)
  BY DEF Persist, Moves
<1> HIDE DEF rec
<1> QED
  BY <1>1, <1>2

LEMMA StatusKeeps ==
  ASSUME Launched, NEW n \in Launches,
         PrepareOk(n) \/ LaunchFails(n) \/ RunFails(n) \/ Conclude(n)
  PROVE  Launched'
<1>1. UNCHANGED deployVars /\ current' = current /\ job[n].persist = "none"
  BY DEF PrepareOk, LaunchFails, RunFails, Conclude, At
<1>2. PICK s \in {"prepared", "failed", "success"}, ph \in {"session", "end"} :
        /\ Persist(n, s, "look", ph) /\ job[n].phase \notin {"new", "end"}
        /\ s = "success" => ph = "end" /\ job[n].phase = "conclude" /\ job[n].ok
        /\ ph = "session" => job[n].phase = "prepare"
  BY DEF PrepareOk, LaunchFails, RunFails, Conclude, At
<1>3. s \in Statuses /\ ph \in JobPhases
  BY DEF Statuses, JobPhases
<1>4. PICK rec \in JobRecs :
        /\ Moves(n, rec, s) /\ rec.persist = "look" /\ rec.phase = ph /\ ~ rec.ok
        /\ rec.cell = job[n].cell /\ rec.dep = job[n].dep /\ rec.code = job[n].code
        /\ rec.wrote = job[n].wrote
  BY <1>2, <1>3, PersistMoves
<1>5. Lawful(n, rec, s)
  BY <1>2, <1>4, JobIs DEF Lawful, Onward, Late, AfterGate
<1>6. Unclaiming(n, rec, s) /\ Reported(n, rec, s)
  BY <1>1, <1>2, <1>4 DEF Unclaiming, Reported, Published
<1> QED
  BY <1>1, <1>3, <1>4, <1>5, <1>6, QuietMove

\* The gate is open: the evidence of every earlier cell is a launch's.
LEMMA GateIs ==
  ASSUME Launched, NEW c \in Cells, GateOpen(c), DeploymentVerified, NEW p \in 1..(c - 1)
  PROVE  Behind(p, receipt)
<1>1. Installing /\ Evident /\ DeployTyped /\ ReceiptKnown
  BY DEF Launched, Preserved, Installing
<1>2. p \in Cells
  BY DeploymentAssumption DEF Cells
<1> DEFINE r == results.runs[p]
<1>3. r \in RunDirs /\ Marked(r, p)
  <2>1. Runs(0) = results.runs /\ results.runs \in [Cells -> RunDirs]
    BY <1>1 DEF Runs, DeployTyped, ResultDirs
  <2> QED
    BY <1>1, <1>2, <2>1, EmptyOnes DEF Evident
<1>4. /\ r.formal.by # None /\ r.formal.code = tree.rest
      /\ r.gov.by = r.formal.by /\ r.gov.dep = receipt
      /\ r.receipt.code = tree.rest /\ attempt[r.formal.by] = "success"
  BY DEF GateOpen, Accepted, Witnessed
<1>5. receipt.commit \in Commits /\ tree.rest = receipt.commit /\ receipt.commit # None
  BY <1>1, DeploymentAssumption DEF DeploymentVerified, Holds, ReceiptKnown
<1> HIDE DEF r
<1>6. r.formal.by \in Launches /\ r.receipt.by \in Launches \cup {None}
  BY <1>3, <1>4 DEF RunDirs, Marks
<1>7. PICK m \in Launches : m = r.formal.by
  BY <1>6
<1>8. Past(m, p, {"conclude"}) /\ job[m].dep = receipt /\ job[m].code = receipt.commit
  BY <1>3, <1>4, <1>5, <1>7 DEF Marked
<1>9. Past(m, p, {}) /\ attempt[m] = "success"
  <2>1. attempt[m] = "success"
    BY <1>4, <1>7
  <2>2. job[m].phase = "end"
    BY <2>1, JobIs
  <2> QED
    BY <1>8, <2>1, <2>2 DEF Past
<1>10. r.receipt.by # None
  BY <1>3, <1>4, <1>5 DEF Marked
<1>11. PICK k \in Launches : k = r.receipt.by
  BY <1>6, <1>10
<1>12. Past(k, p, {"witness", "govern", "conclude"}) /\ job[k].wrote = receipt.commit
  BY <1>3, <1>4, <1>5, <1>10, <1>11 DEF Marked
<1> QED
  BY <1>8, <1>9, <1>12 DEF Behind

LEMMA RunChecksKeeps ==
  ASSUME Launched, NEW n \in Launches, RunChecks(n)
  PROVE  Launched'
<1> DEFINE rec == [job[n] EXCEPT !.phase = "start", !.dep = receipt]
<1>1. /\ job[n].phase = "session" /\ job[n].persist = "none" /\ attempt[n] = "prepared"
      /\ DeploymentVerified /\ GateOpen(job[n].cell)
      /\ job' = [job EXCEPT ![n] = rec] /\ UNCHANGED <<deployVars, attempt, current>>
  BY DEF RunChecks, At, Cell
<1>2. receipt \in Deployments
  BY JobIs DEF Installing, DeployTyped
<1>3. rec \in JobRecs /\ rec.persist = "none" /\ rec.phase = "start" /\ rec.cell = job[n].cell
      /\ rec.dep = receipt /\ ~ rec.ok
  BY <1>1, <1>2, JobIs DEF JobRecs, JobPhases
<1> HIDE DEF rec
<1>4. \A p \in 1..(rec.cell - 1) : Behind(p, rec.dep)
  BY <1>1, <1>3, JobIs, GateIs
<1>5. Moves(n, rec, attempt[n])
  BY <1>1, JobIs DEF Moves
<1>6. Lawful(n, rec, attempt[n])
  BY <1>1, <1>3, <1>4, JobIs DEF Lawful, Onward, Late
<1>7. Unclaiming(n, rec, attempt[n]) /\ Reported(n, rec, attempt[n])
  BY <1>1, <1>3 DEF Unclaiming, Reported
<1> QED
  BY <1>1, <1>3, <1>5, <1>6, <1>7, JobIs, QuietMove

LEMMA ChildChecksKeeps ==
  ASSUME Launched, NEW n \in Launches, ChildChecks(n)
  PROVE  Launched'
<1> DEFINE rec == [job[n] EXCEPT !.phase = "open", !.code = tree.code]
<1>1. /\ job[n].phase = "child" /\ job[n].persist = "none"
      /\ job' = [job EXCEPT ![n] = rec] /\ UNCHANGED <<deployVars, attempt, current>>
  BY DEF ChildChecks, At
<1>2. tree.code \in Commits \cup {None}
  BY JobIs DEF Installing, DeployTyped
<1>3. rec \in JobRecs /\ rec.persist = "none" /\ rec.phase = "open" /\ rec.cell = job[n].cell
      /\ rec.dep = job[n].dep /\ ~ rec.ok
  BY <1>1, <1>2, JobIs DEF JobRecs, JobPhases
<1> HIDE DEF rec
<1>4. Moves(n, rec, attempt[n])
  BY <1>1, JobIs DEF Moves
<1>5. Lawful(n, rec, attempt[n])
  BY <1>1, <1>3, JobIs DEF Lawful, Onward, Late, AfterGate
<1>6. Unclaiming(n, rec, attempt[n]) /\ Reported(n, rec, attempt[n])
  BY <1>1, <1>3, JobIs DEF Unclaiming, Reported
<1> QED
  BY <1>1, <1>3, <1>4, <1>5, <1>6, JobIs, QuietMove

LEMMA DiesKeeps ==
  ASSUME Launched, NEW n \in Launches, LaunchDies(n)
  PROVE  Launched'
<1> DEFINE rec == [job[n] EXCEPT !.phase = "end", !.persist = "dead", !.ok = FALSE]
<1>1. /\ job[n].phase # "new"
      /\ job' = [job EXCEPT ![n] = rec] /\ UNCHANGED <<deployVars, attempt, current>>
  BY JobIs DEF LaunchDies
<1>2. rec \in JobRecs /\ rec.persist = "dead" /\ rec.phase = "end" /\ rec.cell = job[n].cell
      /\ rec.dep = job[n].dep /\ ~ rec.ok /\ rec.code = job[n].code /\ rec.wrote = job[n].wrote
  BY JobIs DEF JobRecs, JobPhases
<1> HIDE DEF rec
<1>3. Moves(n, rec, attempt[n])
  BY <1>1, JobIs DEF Moves
<1>4. Lawful(n, rec, attempt[n])
  BY <1>1, <1>2, JobIs DEF Lawful, Onward, AfterGate
<1>5. Unclaiming(n, rec, attempt[n]) /\ Reported(n, rec, attempt[n])
  BY <1>1, <1>2 DEF Unclaiming, Reported, Published
<1> QED
  BY <1>1, <1>2, <1>3, <1>4, <1>5, JobIs, QuietMove

LEMMA RunIs ==
  ASSUME Launched, NEW n \in Launches, job[n].phase # "new"
  PROVE  /\ Cell(n) \in Cells /\ results \in ResultDirs /\ results.runs[Cell(n)] \in RunDirs
         /\ Marked(results.runs[Cell(n)], Cell(n))
         /\ Run(n) \in RunDirs /\ Run(n).gov = Result(n).gov /\ Run(n).formal = Result(n).formal
         /\ Run(n).receipt = Result(n).receipt /\ Run(n).log = Result(n).log
<1>1. DeployTyped /\ Evident /\ Cell(n) \in Cells
  BY JobIs DEF Launched, Preserved, Installing, Cell
<1>2. results \in ResultDirs /\ results.runs \in [Cells -> RunDirs] /\ Runs(0) = results.runs
  BY <1>1 DEF DeployTyped, ResultDirs, Runs
<1>3. results.runs[Cell(n)] \in RunDirs /\ Marked(results.runs[Cell(n)], Cell(n))
  BY <1>1, <1>2, EmptyOnes DEF Evident
<1> QED
  BY <1>1, <1>2, <1>3 DEF Run, Result, RunDirs

LEMMA OnRunRewrites ==
  ASSUME Launched, NEW n \in Launches, job[n].phase # "new", NEW r \in RunDirs, OnRun(n, r),
         UNCHANGED <<tree, receipt, backups, installer, installs>>
  PROVE  Rewrites(Cell(n), r)
<1>1. results \in ResultDirs /\ Cell(n) \in Cells
  BY RunIs
<1>2. results' = [results EXCEPT !.there = TRUE, !.runs[Cell(n)] = r]
  BY DEF OnRun
<1>3. results' \in ResultDirs /\ results'.there /\ results'.runs = [results.runs EXCEPT ![Cell(n)] = r]
  BY <1>1, <1>2 DEF ResultDirs
<1> QED
  BY <1>3 DEF Rewrites

LEMMA SameMarks ==
  ASSUME Launched, NEW n \in Launches, job[n].phase # "new", NEW r \in RunDirs, Grows,
         r.gov = Result(n).gov, r.formal = Result(n).formal, r.receipt = Result(n).receipt,
         Cell(n)' = Cell(n)
  PROVE  Marked(r, Cell(n))'
<1>1. PICK c \in Cells : c = Cell(n) /\ Marked(r, c)
  BY RunIs DEF Marked, Result
<1>2. Marked(r, c)'
  BY <1>1, MarksStay
<1> QED
  BY <1>1, <1>2 DEF Marked, Past

\* The steps that leave the evidence alone: the directory is made, the log is
\* opened, the trace written.
LEMMA PlainKeeps ==
  ASSUME Launched, NEW n \in Launches, RunStart(n) \/ ChildOpens(n) \/ ChildCompiles(n)
  PROVE  Launched'
<1>1. job[n].phase \in {"start", "open", "compile"} /\ job[n].persist = "none"
      /\ UNCHANGED <<tree, receipt, backups, installer, installs, current>>
  BY DEF RunStart, ChildOpens, ChildCompiles, At
<1>2. /\ Cell(n) \in Cells /\ results \in ResultDirs /\ Result(n) \in RunDirs /\ Run(n) \in RunDirs
      /\ Run(n).gov = Result(n).gov /\ Run(n).formal = Result(n).formal
      /\ Run(n).receipt = Result(n).receipt /\ Run(n).log = Result(n).log
  BY <1>1, RunIs DEF Result
<1>3. PICK r \in RunDirs :
        /\ OnRun(n, r) /\ r.log = Result(n).log
        /\ r.gov = Result(n).gov /\ r.formal = Result(n).formal /\ r.receipt = Result(n).receipt
  <2>1. CASE RunStart(n)
    <3>1. OnRun(n, Run(n))
      BY <1>2, <2>1 DEF RunStart, OnRun, Run, ResultDirs
    <3> QED
      BY <1>2, <3>1
  <2>2. CASE ChildOpens(n)
    <3> DEFINE r == [Run(n) EXCEPT !.open = @ \cup {n}]
    <3>1. r \in RunDirs /\ r.log = Run(n).log /\ r.gov = Run(n).gov /\ r.formal = Run(n).formal
          /\ r.receipt = Run(n).receipt
      BY <1>2 DEF RunDirs
    <3>2. OnRun(n, r)
      BY <2>2 DEF ChildOpens
    <3> HIDE DEF r
    <3> QED
      BY <1>2, <3>1, <3>2
  <2>3. CASE ChildCompiles(n)
    <3> DEFINE r == [Run(n) EXCEPT !.trace = TRUE]
    <3>1. r \in RunDirs /\ r.log = Run(n).log /\ r.gov = Run(n).gov /\ r.formal = Run(n).formal
          /\ r.receipt = Run(n).receipt
      BY <1>2 DEF RunDirs
    <3>2. OnRun(n, r)
      BY <2>3 DEF ChildCompiles
    <3> HIDE DEF r
    <3> QED
      BY <1>2, <3>1, <3>2
  <2> QED
    BY <2>1, <2>2, <2>3
<1>4. PICK s \in Statuses, rec \in JobRecs :
        /\ Moves(n, rec, s) /\ rec.phase \in {"child", "compile", "close"} /\ ~ rec.ok
        /\ s # "none" /\ s # "success" /\ attempt[n] # "success" /\ Reported(n, rec, s)
        /\ rec.cell = job[n].cell /\ rec.dep = job[n].dep
  <2>1. CASE RunStart(n)
    <3>1. Persist(n, "running", "look", "child") /\ "running" \in Statuses /\ "child" \in JobPhases
      BY <2>1 DEF RunStart, Statuses, JobPhases
    <3>2. PICK rec \in JobRecs :
           /\ Moves(n, rec, "running") /\ rec.persist = "look" /\ rec.phase = "child" /\ ~ rec.ok
           /\ rec.cell = job[n].cell /\ rec.dep = job[n].dep
      BY <3>1, PersistMoves
    <3> QED
      BY <1>1, <3>1, <3>2, JobIs DEF Reported
  <2>2. CASE ChildOpens(n) \/ ChildCompiles(n)
    <3>1. PICK ph \in {"compile", "close"} : job' = [job EXCEPT ![n].phase = ph] /\ attempt' = attempt
      BY <2>2 DEF ChildOpens, ChildCompiles, MovesTo
    <3> DEFINE rec == [job[n] EXCEPT !.phase = ph]
    <3>2. rec \in JobRecs /\ rec.phase = ph /\ ~ rec.ok /\ rec.cell = job[n].cell
          /\ rec.dep = job[n].dep /\ rec.persist = "none"
      BY <1>1, JobIs DEF JobRecs, JobPhases
    <3>3. job' = [job EXCEPT ![n] = rec]
      BY <3>1
    <3> HIDE DEF rec
    <3>4. Moves(n, rec, attempt[n]) /\ Reported(n, rec, attempt[n])
      BY <1>1, <3>1, <3>3, JobIs DEF Moves, Reported
    <3> QED
      BY <1>1, <3>2, <3>4, JobIs
  <2> QED
    BY <2>1, <2>2
<1>5. Lawful(n, rec, s)
  BY <1>1, <1>4, JobIs DEF Lawful, Onward, Late, AfterGate
<1>6. Unclaiming(n, rec, s)
  BY <1>4 DEF Unclaiming
<1>7. Rewrites(Cell(n), r)
  BY <1>1, <1>3, OnRunRewrites
<1>8. Cell(n)' = Cell(n)
  BY <1>4, JobIs DEF Cell, Moves, LaunchTyped
<1>9. Grows => Marked(r, Cell(n))'
  BY <1>1, <1>3, <1>8, SameMarks
<1> QED
  BY <1>3, <1>4, <1>5, <1>6, <1>7, <1>9, WritingMove DEF Result

\* os.link publishes the log: where there was none, and then it is n's.
LEMMA ClosesKeeps ==
  ASSUME Launched, NEW n \in Launches, ChildCloses(n)
  PROVE  Launched'
<1> DEFINE rec == [job[n] EXCEPT !.phase = "write"]
<1>0. PICK r : r = [Run(n) EXCEPT !.open = @ \ {n}, !.log = n]
  OBVIOUS
<1>1. /\ job[n].phase = "close" /\ job[n].persist = "none" /\ Run(n).log = None /\ OnRun(n, r)
      /\ job' = [job EXCEPT ![n] = rec]
      /\ UNCHANGED <<tree, receipt, backups, installer, installs, attempt, current>>
  BY <1>0 DEF ChildCloses, At, LogFree, MovesTo
<1>2. /\ Run(n) \in RunDirs /\ Run(n).gov = Result(n).gov /\ Run(n).formal = Result(n).formal
      /\ Run(n).receipt = Result(n).receipt /\ Run(n).log = Result(n).log
  BY <1>1, RunIs
<1>3. r \in RunDirs /\ r.log = n /\ r.gov = Result(n).gov /\ r.formal = Result(n).formal
      /\ r.receipt = Result(n).receipt
  BY <1>0, <1>2 DEF RunDirs
<1>4. rec \in JobRecs /\ rec.phase = "write" /\ ~ rec.ok /\ rec.cell = job[n].cell
      /\ rec.dep = job[n].dep /\ rec.persist = "none"
  BY <1>1, JobIs DEF JobRecs, JobPhases
<1> HIDE DEF rec
<1>5. Moves(n, rec, attempt[n]) /\ Reported(n, rec, attempt[n])
  BY <1>1, JobIs DEF Moves, Reported
<1>6. Lawful(n, rec, attempt[n])
  BY <1>1, <1>4, JobIs DEF Lawful, Onward, Late, AfterGate
<1>7. Rewrites(Cell(n), r)
  BY <1>1, <1>3, OnRunRewrites
<1>8. Cell(n)' = Cell(n)
  BY <1>4, <1>5, JobIs DEF Cell, Moves, LaunchTyped
<1>9. Grows => Marked(r, Cell(n))'
  BY <1>1, <1>3, <1>8, SameMarks
<1> QED
  BY <1>1, <1>2, <1>3, <1>4, <1>5, <1>6, <1>7, <1>9, JobIs, WritingMove DEF Result

\* The sources are hashed as they are by now.
LEMMA SavesKeeps ==
  ASSUME Launched, NEW n \in Launches, ChildSaves(n)
  PROVE  Launched'
<1> DEFINE rec == [job[n] EXCEPT !.phase = "witness", !.wrote = tree.code]
<1>0. PICK r : r = [Run(n) EXCEPT !.receipt = [by |-> n, code |-> tree.code]]
  OBVIOUS
<1>1. /\ job[n].phase = "write" /\ job[n].persist = "none" /\ OnRun(n, r)
      /\ job' = [job EXCEPT ![n] = rec]
      /\ UNCHANGED <<tree, receipt, backups, installer, installs, attempt, current>>
  BY <1>0 DEF ChildSaves, At
<1>2. /\ Run(n) \in RunDirs /\ Run(n).gov = Result(n).gov /\ Run(n).formal = Result(n).formal
      /\ Run(n).log = Result(n).log /\ Marked(Result(n), Cell(n)) /\ Result(n) \in RunDirs
  BY <1>1, RunIs DEF Result
<1>3. tree.code \in Commits \cup {None}
  BY JobIs DEF Installing, DeployTyped
<1>4. r \in RunDirs /\ r.log = Result(n).log /\ r.gov = Result(n).gov /\ r.formal = Result(n).formal
      /\ r.receipt.by = n /\ r.receipt.code = tree.code
  BY <1>0, <1>2, <1>3 DEF RunDirs, Marks
<1>5. rec \in JobRecs /\ rec.phase = "witness" /\ ~ rec.ok /\ rec.cell = job[n].cell
      /\ rec.dep = job[n].dep /\ rec.persist = "none" /\ rec.wrote = tree.code
  BY <1>1, <1>3, JobIs DEF JobRecs, JobPhases
<1> HIDE DEF rec
<1>6. Moves(n, rec, attempt[n]) /\ Reported(n, rec, attempt[n])
  BY <1>1, JobIs DEF Moves, Reported
<1>7. Lawful(n, rec, attempt[n]) /\ Unclaiming(n, rec, attempt[n])
  BY <1>1, <1>5, JobIs DEF Lawful, Unclaiming, Published, Onward, Late, AfterGate
<1>8. Rewrites(Cell(n), r)
  BY <1>1, <1>4, OnRunRewrites
<1>9. ASSUME Grows PROVE Marked(r, Cell(n))'
  <2>1. PICK c \in Cells : c = Cell(n)
    BY <1>1, RunIs
  <2>2. PICK old \in RunDirs : old = Result(n)
    BY <1>2
  <2>3. Marked(old, c)'
    BY <1>2, <1>9, <2>1, <2>2, MarksStay
  <2>4. job'[n] = rec /\ job'[n].cell = c
    BY <1>5, <1>6, <2>1, JobIs DEF Moves, LaunchTyped, Cell
  <2>5. /\ r.gov = old.gov /\ r.formal = old.formal /\ r.receipt.by = n /\ n # None
        /\ r.receipt.code = rec.wrote
    BY <1>4, <1>5, <2>2, DeploymentAssumption
  <2>6. Marked(r, c)'
    BY <1>5, <2>3, <2>4, <2>5 DEF Marked, Past
  <2> QED
    BY <2>4, <2>6 DEF Marked, Past, Cell
<1> QED
  BY <1>4, <1>5, <1>6, <1>7, <1>8, <1>9, JobIs, WritingMove DEF Result

\* The formal witness of the launch, and its pointer.
LEMMA WitnessKeeps ==
  ASSUME Launched, NEW n \in Launches, ChildWitness(n)
  PROVE  Launched'
<1> DEFINE rec == [job[n] EXCEPT !.phase = "govern", !.ok = TRUE]
<1>1. /\ job[n].phase = "witness" /\ job[n].persist = "none"
      /\ results' = [results EXCEPT !.pointers = @ \cup {n},
                       !.runs[Cell(n)].formal = [by |-> n, code |-> job[n].code]]
      /\ results.runs[Cell(n)].receipt.by # None
      /\ job' = [job EXCEPT ![n] = rec]
      /\ UNCHANGED <<tree, receipt, backups, installer, installs, attempt, current>>
  BY DEF ChildWitness, At
<1>2. /\ Cell(n) \in Cells /\ results \in ResultDirs
      /\ Marked(Result(n), Cell(n)) /\ Result(n) \in RunDirs
  BY <1>1, RunIs DEF Result
<1>3. PICK r : r = [Result(n) EXCEPT !.formal = [by |-> n, code |-> job[n].code]]
  OBVIOUS
<1>4. r \in RunDirs /\ r.log = Result(n).log /\ r.gov = Result(n).gov /\ r.receipt = Result(n).receipt
      /\ r.formal.by = n /\ r.formal.code = job[n].code
  BY <1>2, <1>3, JobIs DEF RunDirs, Marks
<1>5. rec \in JobRecs /\ rec.phase = "govern" /\ rec.ok /\ rec.cell = job[n].cell
      /\ rec.dep = job[n].dep /\ rec.persist = "none" /\ rec.wrote = job[n].wrote
      /\ rec.code = job[n].code
  BY <1>1, JobIs DEF JobRecs, JobPhases
<1> HIDE DEF rec
<1>6. Moves(n, rec, attempt[n]) /\ Reported(n, rec, attempt[n])
  BY <1>1, JobIs DEF Moves, Reported
<1>7. Lawful(n, rec, attempt[n]) /\ Unclaiming(n, rec, attempt[n])
  BY <1>1, <1>5, JobIs DEF Lawful, Unclaiming, Published, Onward, Late, AfterGate
<1>8. Rewrites(Cell(n), r)
  <2>1. results.there
    <3>1. ~ results.there => results.runs = NoRuns
      BY DEF Launched, Preserved, Installing, BackupWhole
    <3>2. NoRuns[Cell(n)].receipt.by = None
      BY <1>2 DEF NoRuns, NoRun, NoMark
    <3> QED
      BY <1>1, <3>1, <3>2
  <2>2. /\ results'.there = results.there /\ results'.pointers = results.pointers \cup {n}
        /\ results'.runs = [results.runs EXCEPT ![Cell(n)] = r]
        /\ results' \in [there : BOOLEAN, pointers : SUBSET Launches, runs : [Cells -> RunDirs]]
    BY <1>1, <1>2, <1>3, <1>4 DEF ResultDirs, Result
  <2> QED
    BY <1>1, <2>1, <2>2 DEF Rewrites, ResultDirs
<1>9. ASSUME Grows PROVE Marked(r, Cell(n))'
  <2>1. PICK c \in Cells : c = Cell(n)
    BY <1>2
  <2>2. PICK old \in RunDirs : old = Result(n)
    BY <1>2
  <2>3. Marked(old, c)'
    BY <1>2, <1>9, <2>1, <2>2, MarksStay
  <2>4. job'[n] = rec /\ job'[n].cell = c
    BY <1>5, <1>6, <2>1, JobIs DEF Moves, LaunchTyped, Cell
  <2>5. r.gov = old.gov /\ r.receipt = old.receipt /\ r.formal.by = n /\ r.formal.code = rec.code
    BY <1>4, <1>5, <2>2
  <2>6. Marked(r, c)'
    BY <1>5, <2>3, <2>4, <2>5 DEF Marked, Past
  <2> QED
    BY <2>4, <2>6 DEF Marked, Past, Cell
<1> QED
  BY <1>4, <1>5, <1>6, <1>7, <1>8, <1>9, JobIs, WritingMove DEF Result

\* A child that ends with an error takes its temporary file along.
LEMMA ChildFailsKeeps ==
  ASSUME Launched, NEW n \in Launches, ChildFails(n)
  PROVE  Launched'
<1> DEFINE rec == [job[n] EXCEPT !.phase = "govern"]
<1>1. /\ job[n].phase \in {"child", "open", "compile", "close", "write", "witness"}
      /\ job[n].persist = "none" /\ job' = [job EXCEPT ![n] = rec]
      /\ UNCHANGED <<tree, receipt, backups, installer, installs, attempt, current>>
      /\ results' = IF results.there
                    THEN [results EXCEPT !.runs[Cell(n)].open = @ \ {n}] ELSE results
  BY DEF ChildFails, At, MovesTo
<1>2. /\ Cell(n) \in Cells /\ results \in ResultDirs /\ Result(n) \in RunDirs
  BY <1>1, RunIs DEF Result
<1>3. rec \in JobRecs /\ rec.phase = "govern" /\ ~ rec.ok /\ rec.cell = job[n].cell
      /\ rec.dep = job[n].dep /\ rec.persist = "none" /\ rec.wrote = job[n].wrote
      /\ rec.code = job[n].code
  BY <1>1, JobIs DEF JobRecs, JobPhases
<1> HIDE DEF rec
<1>4. Moves(n, rec, attempt[n]) /\ Reported(n, rec, attempt[n])
  BY <1>1, JobIs DEF Moves, Reported
<1>5. Lawful(n, rec, attempt[n]) /\ Unclaiming(n, rec, attempt[n])
  BY <1>1, <1>3, JobIs DEF Lawful, Unclaiming, Onward, Late, AfterGate
<1>6. CASE ~ results.there
  <2>1. UNCHANGED deployVars
    BY <1>1, <1>6 DEF deployVars
  <2> QED
    BY <1>3, <1>4, <1>5, <2>1, JobIs, QuietMove
<1>7. CASE results.there
  <2>1. PICK r : r = [Result(n) EXCEPT !.open = @ \ {n}]
    OBVIOUS
  <2>2. r \in RunDirs /\ r.log = Result(n).log /\ r.gov = Result(n).gov
        /\ r.formal = Result(n).formal /\ r.receipt = Result(n).receipt
    BY <1>2, <2>1 DEF RunDirs
  <2>3. Rewrites(Cell(n), r)
    <3>1. /\ results'.there /\ results'.runs = [results.runs EXCEPT ![Cell(n)] = r]
          /\ results' \in ResultDirs
      BY <1>1, <1>2, <1>7, <2>1, <2>2 DEF ResultDirs, Result
    <3> QED
      BY <1>1, <3>1 DEF Rewrites
  <2>4. Cell(n)' = Cell(n)
    BY <1>3, <1>4, JobIs DEF Cell, Moves, LaunchTyped
  <2>5. Grows => Marked(r, Cell(n))'
    BY <1>1, <2>2, <2>4, SameMarks
  <2> QED
    BY <1>3, <1>4, <1>5, <2>2, <2>3, <2>5, JobIs, WritingMove DEF Result
<1> QED
  BY <1>6, <1>7

LEMMA GovernKeeps ==
  ASSUME Launched, NEW n \in Launches, Govern(n)
  PROVE  Launched'
<1> DEFINE good == Result(n).receipt.code = tree.code
           rec == [job[n] EXCEPT !.phase = "conclude", !.ok = good]
<1>0. PICK r : r = [Run(n) EXCEPT !.gov = [by |-> n, dep |-> job[n].dep, eligible |-> good]]
  OBVIOUS
<1>1. /\ job[n].phase = "govern" /\ job[n].persist = "none" /\ job[n].ok /\ OnRun(n, r)
      /\ job' = [job EXCEPT ![n] = rec]
      /\ UNCHANGED <<tree, receipt, backups, installer, installs, attempt, current>>
  BY <1>0 DEF Govern, At
<1>2. /\ Run(n) \in RunDirs /\ Run(n).receipt = Result(n).receipt /\ Run(n).formal = Result(n).formal
      /\ Run(n).log = Result(n).log /\ Marked(Result(n), Cell(n)) /\ Result(n) \in RunDirs
  BY <1>1, RunIs DEF Result
<1>3. good \in BOOLEAN
  OBVIOUS
<1> HIDE DEF good
<1>4. r \in RunDirs /\ r.log = Result(n).log /\ r.receipt = Result(n).receipt /\ r.formal = Result(n).formal
      /\ r.gov.by = n /\ r.gov.dep = job[n].dep
  BY <1>0, <1>2, <1>3, JobIs DEF RunDirs, Governances
<1>5. rec \in JobRecs /\ rec.phase = "conclude" /\ rec.cell = job[n].cell
      /\ rec.dep = job[n].dep /\ rec.persist = "none" /\ rec.wrote = job[n].wrote
      /\ rec.code = job[n].code
  BY <1>1, <1>3, JobIs DEF JobRecs, JobPhases
<1> HIDE DEF rec
<1>6. Moves(n, rec, attempt[n]) /\ Reported(n, rec, attempt[n])
  BY <1>1, JobIs DEF Moves, Reported
<1>7. Lawful(n, rec, attempt[n]) /\ Unclaiming(n, rec, attempt[n])
  BY <1>1, <1>5, JobIs DEF Lawful, Unclaiming, Published, Onward, Late, AfterGate
<1>8. Rewrites(Cell(n), r)
  BY <1>1, <1>4, OnRunRewrites
<1>9. ASSUME Grows PROVE Marked(r, Cell(n))'
  <2>1. PICK c \in Cells : c = Cell(n)
    BY <1>1, RunIs
  <2>2. PICK old \in RunDirs : old = Result(n)
    BY <1>2
  <2>3. Marked(old, c)'
    BY <1>2, <1>9, <2>1, <2>2, MarksStay
  <2>4. job'[n] = rec /\ job'[n].cell = c
    BY <1>5, <1>6, <2>1, JobIs DEF Moves, LaunchTyped, Cell
  <2>5. r.formal = old.formal /\ r.receipt = old.receipt /\ r.gov.by = n /\ r.gov.dep = rec.dep
    BY <1>4, <1>5, <2>2
  <2>6. Marked(r, c)'
    BY <1>5, <2>3, <2>4, <2>5 DEF Marked, Past
  <2> QED
    BY <2>4, <2>6 DEF Marked, Past, Cell
<1> QED
  BY <1>4, <1>5, <1>6, <1>7, <1>8, <1>9, JobIs, WritingMove DEF Result

-----------------------------------------------------------------------------
(* Every state, every step.                                                *)

LEMMA InitLaunched == RemoteInit => Launched
<1> SUFFICES ASSUME RemoteInit PROVE Launched
  OBVIOUS
<1>1. Installing /\ results = NoResults /\ backups = [b \in 1..LastInstall |-> NoBackup]
  BY InstallInit DEF RemoteInit, DeployInit
<1>2. attempt = [n \in Launches |-> "none"] /\ current = [nonce |-> None, status |-> "none"]
      /\ job = [n \in Launches |-> Idle]
  BY DEF RemoteInit, LaunchInit
<1>3. Idle \in JobRecs /\ Idle.phase = "new" /\ ~ Idle.ok /\ Idle.persist = "none"
  BY EmptyOnes, DeploymentAssumption DEF Idle, JobRecs, JobPhases
<1>4. LaunchTyped
  BY <1>2, <1>3 DEF LaunchTyped, Statuses
<1>5. Begun /\ Gated /\ Logged
  BY <1>2, <1>3 DEF Begun, Gated, Logged, Published, AfterGate
<1>6. Agreed
  BY <1>2, DeploymentAssumption DEF Agreed, CurrentFollowsAttempt
<1>7. Evident
  <2>1. \A b \in Places : Runs(b) = NoRuns
    BY <1>1, EmptyOnes DEF Runs
  <2>2. \A c \in Cells : Marked(NoRun, c) /\ NoRuns[c] = NoRun
    BY DEF NoRuns, NoRun, NoMark, NoGovernance, Marked
  <2> QED
    BY <2>1, <2>2 DEF Evident
<1> QED
  BY <1>1, <1>4, <1>5, <1>6, <1>7 DEF Launched, Preserved, Underway

LEMMA StepLaunched == Launched /\ [RemoteNext]_remoteVars => Launched'
<1> SUFFICES ASSUME Launched, [RemoteNext]_remoteVars PROVE Launched'
  OBVIOUS
<1>1. ASSUME Installing', Carried, UNCHANGED launchVars PROVE Launched'
  <2>1. Preserved'
    BY <1>1, CarriedKeeps DEF Launched, Preserved, Underway
  <2>2. Underway' /\ Agreed'
    <3>1. UNCHANGED <<attempt, current, job>> /\ Underway /\ Agreed
      BY <1>1 DEF launchVars, Launched
    <3>2. LaunchTyped' /\ Begun' /\ Agreed'
      BY <3>1 DEF Underway, LaunchTyped, Begun, Agreed, CurrentFollowsAttempt
    <3>3. Gated'
      BY <3>1 DEF Underway, Gated, Behind, Past, Cell
    <3> QED
      BY <3>2, <3>3 DEF Underway
  <2> QED
    BY <2>1, <2>2 DEF Launched
<1>2. ASSUME NEW n \in Launches,
             \/ \E c \in Cells : Launch(n, c)
             \/ LookAtCurrent(n) \/ WriteCurrent(n) \/ LaunchDies(n)
      PROVE  Launched'
  BY <1>2, LaunchKeeps, LookKeeps, WriteCurrentKeeps, DiesKeeps
<1>3. ASSUME NEW n \in Launches,
             PrepareOk(n) \/ LaunchFails(n) \/ RunChecks(n) \/ RunStart(n) \/ Conclude(n) \/ RunFails(n)
      PROVE  Launched'
  BY <1>3, StatusKeeps, RunChecksKeeps, PlainKeeps
<1>4. ASSUME NEW n \in Launches,
             \/ ChildChecks(n) \/ ChildOpens(n) \/ ChildCompiles(n) \/ ChildCloses(n)
             \/ ChildSaves(n) \/ ChildWitness(n) \/ ChildFails(n) \/ Govern(n)
      PROVE  Launched'
  BY <1>4, ChildChecksKeeps, PlainKeeps, ClosesKeeps, SavesKeeps, WitnessKeeps, ChildFailsKeeps, GovernKeeps
<1>5. CASE UNCHANGED remoteVars
  <2>1. UNCHANGED <<tree, results, receipt, backups, installer, installs>> /\ UNCHANGED launchVars
    BY <1>5 DEF remoteVars, deployVars
  <2>2. Installing'
    BY <2>1 DEF Launched, Preserved, Installing, DeployTyped, Numbered, BackupsUsed, BackupWhole, ReceiptKnown
  <2>3. Carried
    BY <2>1 DEF Carried, Runs
  <2> QED
    BY <1>1, <2>1, <2>2, <2>3
<1>6. ASSUME DeployNext, UNCHANGED launchVars PROVE Launched'
  BY <1>1, <1>6, InstallKeeps DEF Launched, Preserved
<1> QED
  BY <1>2, <1>3, <1>4, <1>5, <1>6 DEF RemoteNext, LaunchNext

\* The inductive invariant: installations carry every run directory along,
\* evidence names launches of its cell that wrote it, a launch past the gate
\* has the successes of the earlier cells behind it.
THEOREM LaunchedInvariant == RemoteSpec => []Launched
BY InitLaunched, StepLaunched, PTL DEF RemoteSpec

\* The two status files: what current_status.json says of a launch that is not
\* between its two writes is what the file of the launch says.
THEOREM StatusFilesAgreeAlways == RemoteSpec => []StatusFilesAgree
<1>1. Launched => StatusFilesAgree
  <2> SUFFICES ASSUME Launched PROVE StatusFilesAgree
    OBVIOUS
  <2>1. DeployTyped /\ LaunchTyped /\ Agreed
    BY DEF Launched, Preserved, Underway, Installing
  <2>2. DeployTypeOK
    BY <2>1 DEF DeployTyped, DeployTypeOK, Directories, ResultDirs, RunDirs, Marks, Governances, Deployments,
                BackupDirs, InstallerRecs, InstallPhases
  <2>3. LaunchTypeOK
    BY <2>1, <2>2 DEF LaunchTyped, LaunchTypeOK, JobRecs, JobPhases, Deployments, Statuses, Ended, Agreed
  <2> QED
    BY <2>1, <2>3 DEF StatusFilesAgree, Agreed
<1> QED
  BY <1>1, LaunchedInvariant, PTL

\* The serial gate: whatever redeployments, races and crashes, the success of
\* a cell has a success of every earlier cell behind it, under the same
\* deployment and with that deployment's code.
THEOREM CellsInOrderAlways == RemoteSpec => []CellsInOrder
<1>1. Launched => CellsInOrder
  <2> SUFFICES ASSUME Launched, NEW n \in Launches, attempt[n] = "success", NEW p \in 1..(Cell(n) - 1)
               PROVE  /\ \E m \in Launches :
                           /\ attempt[m] = "success" /\ Cell(m) = p
                           /\ job[m].dep = job[n].dep /\ job[m].code = job[n].dep.commit
                      /\ \E k \in Launches : Cell(k) = p /\ job[k].wrote = job[n].dep.commit
    BY DEF CellsInOrder
  <2>1. Behind(p, job[n].dep)
    BY DEF Launched, Underway, Gated
  <2> QED
    BY <2>1 DEF Behind, Past, Cell
<1> QED
  BY <1>1, LaunchedInvariant, PTL

\* Two launches of a cell succeed only if an installation moved the log of one
\* of them into a backup.
THEOREM OneSuccessPerCellAlways == RemoteSpec => []OneSuccessPerCell
<1>1. Launched => OneSuccessPerCell
  <2> SUFFICES ASSUME Launched, NEW m \in Launches, NEW n \in Launches, m # n,
                      attempt[m] = "success", attempt[n] = "success", Cell(m) = Cell(n)
               PROVE  \E b \in 1..LastInstall : backups[b].results.runs[Cell(n)].log \in {m, n}
    BY DEF OneSuccessPerCell
  <2>1. LogAt(Cell(n), m) /\ LogAt(Cell(n), n)
    BY DEF Launched, Preserved, Logged, Published
  <2>2. PICK a \in Places : Runs(a)[Cell(n)].log = m
    BY <2>1 DEF LogAt
  <2>3. PICK b \in Places : Runs(b)[Cell(n)].log = n
    BY <2>1 DEF LogAt
  <2>4. a # b /\ (a # 0 \/ b # 0)
    BY <2>2, <2>3
  <2>5. CASE a # 0
    BY <2>2, <2>5, EmptyOnes DEF Runs
  <2>6. CASE b # 0
    BY <2>3, <2>6, EmptyOnes DEF Runs
  <2> QED
    BY <2>4, <2>5, <2>6
<1> QED
  BY <1>1, LaunchedInvariant, PTL

\* Installations, overlapping or cut short at any step, lose no formal witness:
\* it is in Results or in a backup.
THEOREM ResultsAreKeptAlways == RemoteSpec => ResultsAreKept
<1>1. ASSUME Launched, [RemoteNext]_remoteVars
      PROVE  [installer' # installer => \A c \in Cells : Evidence(c) \subseteq Evidence(c)']_deployVars
  <2> SUFFICES ASSUME RemoteNext, installer' # installer, NEW c \in Cells, NEW e \in Evidence(c)
               PROVE  e \in Evidence(c)'
    BY <1>1 DEF remoteVars, deployVars
  <2>1. DeployNext
    BY DEF RemoteNext, LaunchNext, deployVars, Launch, LookAtCurrent, WriteCurrent, PrepareOk, LaunchFails,
           RunChecks, RunStart, ChildChecks, ChildOpens, ChildCompiles, ChildCloses, ChildSaves, ChildWitness,
           ChildFails, Govern, Conclude, RunFails, LaunchDies
  <2>2. Carried
    BY <1>1, <2>1, InstallKeeps DEF Launched, Preserved
  <2>3. PICK b \in Places : Runs(b)[c].formal = e /\ e # NoMark
    BY EmptyOnes DEF Evidence, Kept, Runs
  <2>4. Runs(b) # NoRuns
    BY <2>3 DEF NoRuns, NoRun
  <2>5. PICK a \in Places : Runs(a)' = Runs(b)
    BY <2>2, <2>4 DEF Carried
  <2>6. Runs(a)'[c].formal = e
    BY <2>3, <2>5
  <2> QED
    BY <2>3, <2>6, EmptyOnes DEF Evidence, Kept, Runs
<1> QED
  BY <1>1, LaunchedInvariant, PTL DEF RemoteSpec, ResultsAreKept

=============================================================================
