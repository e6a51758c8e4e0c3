---------------------------- MODULE EvidencePull ----------------------------
(***************************************************************************)
(* Pulling a finished run back (pull-release-results-remote.sh,            *)
(* release_protocol.pullback_run, append_deployment_index).  The archive   *)
(* is unpacked into a partial directory, verified, renamed to its final    *)
(* place, verified again and indexed; another pull of the same run may be  *)
(* under way, and each may die at any step.                                *)
(***************************************************************************)
EXTENDS RunRelease

CONSTANTS
  Pullers,
  LastMember,  \* members of a run archive
  LastPull     \* bound on the partial directories ever created

ASSUME PullAssumption == LastMember \in Nat \ {0} /\ LastPull \in Nat

VARIABLES
  partial,   \* run id -> the directory .incoming/<run>.partial
  final,     \* run id -> the directory <run>
  kept,      \* the partial directories moved to .quarantine
  rows,      \* the lines of DEPLOYMENT-INDEX.jsonl
  puller,    \* the phase of each pull
  pulls      \* partial directories made so far

pullVars == <<partial, final, kept, rows, puller, pulls>>

Members == 1..LastMember
Missing == [there |-> FALSE, name |-> 0, has |-> {}, copy |-> NoReceipt]
Fresh == [Missing EXCEPT !.there = TRUE]

\* verify_run_directory on the VM: the receipt is there and describes the files.
RunVerified(i) ==
  /\ dir[i].receipt # NoReceipt
  /\ dir[i].receipt = [status |-> dir[i].manifest, files |-> dir[i].files]

\* The same on received files: all members, and those of the receipt.
Complete(d) == d.there /\ d.has = Members
Verified(i, d) == Complete(d) /\ d.copy = dir[i].receipt

Go(u, phase) == puller' = [puller EXCEPT ![u].phase = phase]

-----------------------------------------------------------------------------
\* "verify-run > /dev/null && tar": an unverified run sends nothing, a
\* verified one what its files are by then.
NoStream == [phase |-> "start", id |-> Nobody, stream |-> NoReceipt, next |-> 1]

VerifyRemote(u, i) ==
  /\ puller[u].phase = "start"
  /\ puller' = [puller EXCEPT ![u] = [NoStream EXCEPT !.phase = IF RunVerified(i) THEN "tar" ELSE "begin",
                                                     !.id = i]]
  /\ UNCHANGED <<partial, final, kept, rows, pulls>>

SendArchive(u) ==
  /\ puller[u].phase = "tar"
  /\ LET d == dir[puller[u].id] IN
     puller' = [puller EXCEPT ![u] = [@ EXCEPT !.phase = "begin",
                                              !.stream = [status |-> d.manifest, files |-> d.files]]]
  /\ UNCHANGED <<partial, final, kept, rows, pulls>>

PullAgain(u) ==
  /\ puller[u].phase = "begin"
  /\ LET i == puller[u].id IN
     /\ final[i].there
     /\ Go(u, IF Verified(i, final[i]) THEN "index" ELSE "end")
  /\ UNCHANGED <<partial, final, kept, rows, pulls>>

Quarantined(i) == IF partial[i].there THEN kept \cup {partial[i]} ELSE kept

\* An earlier partial is moved away, whoever is still filling it.
PullBegin(u) ==
  /\ puller[u].phase = "begin"
  /\ LET i == puller[u].id IN
     /\ ~final[i].there
     /\ pulls < LastPull
     /\ kept' = Quarantined(i)
     /\ partial' = [partial EXCEPT ![i] = [Fresh EXCEPT !.name = pulls + 1]]
     /\ pulls' = pulls + 1
  /\ Go(u, "extract")
  /\ UNCHANGED <<final, rows>>

\* Members are opened by path and exclusively; parents are made if missing.
PullMember(u) ==
  /\ puller[u].phase = "extract"
  /\ puller[u].stream # NoReceipt
  /\ LET i == puller[u].id
         m == puller[u].next
         into == IF partial[i].there THEN partial[i] ELSE [Fresh EXCEPT !.name = pulls + 1] IN
     /\ m \notin into.has
     /\ partial[i].there \/ pulls < LastPull
     /\ partial' = [partial EXCEPT ![i] = [into EXCEPT !.has = @ \cup {m}, !.copy = puller[u].stream]]
     /\ pulls' = IF partial[i].there THEN pulls ELSE pulls + 1
     /\ puller' = [puller EXCEPT ![u] = [@ EXCEPT !.next = m + 1,
                                                  !.phase = IF m = LastMember THEN "verify" ELSE "extract"]]
  /\ UNCHANGED <<final, kept, rows>>

PullVerify(u) ==
  /\ puller[u].phase = "verify"
  /\ Verified(puller[u].id, partial[puller[u].id])
  /\ Go(u, "publish")
  /\ UNCHANGED <<partial, final, kept, rows, pulls>>

\* rename() replaces nothing or an empty directory.
Replaceable(d) == d.has = {}

PullPublish(u) ==
  /\ puller[u].phase = "publish"
  /\ LET i == puller[u].id IN
     /\ partial[i].there /\ Replaceable(final[i])
     /\ final' = [final EXCEPT ![i] = partial[i]]
     /\ partial' = [partial EXCEPT ![i] = Missing]
  /\ Go(u, "index")
  /\ UNCHANGED <<kept, rows, pulls>>

\* main verifies the final directory again; the append holds a lock and
\* refuses a second, different line of one run.
IndexableMutant(i) == final[i].there
Indexable(i) == Verified(i, final[i])

AppendIndex(u) ==
  /\ puller[u].phase = "index"
  /\ LET i == puller[u].id
         row == [run |-> i, receipt |-> final[i].copy] IN
     /\ Indexable(i)
     /\ \A r \in rows : r.run = i => r = row
     /\ rows' = rows \cup {row}
  /\ Go(u, "end")
  /\ UNCHANGED <<partial, final, kept, pulls>>

\* A check fails, the stream is empty or short, or the process dies.
PullAbandon(u) ==
  /\ puller[u].phase \notin {"start", "end"}
  /\ Go(u, "end")
  /\ UNCHANGED <<partial, final, kept, rows, pulls>>

PullRetry(u) ==
  /\ puller[u].phase = "end"
  /\ Go(u, "start")
  /\ UNCHANGED <<partial, final, kept, rows, pulls>>

-----------------------------------------------------------------------------
PullInit ==
  /\ partial = [i \in RunIds |-> Missing]
  /\ final = [i \in RunIds |-> Missing]
  /\ kept = {} /\ rows = {} /\ pulls = 0
  /\ puller = [u \in Pullers |-> NoStream]

PullNext ==
  \E u \in Pullers :
    \/ \E i \in RunIds : VerifyRemote(u, i)
    \/ SendArchive(u) \/ PullAgain(u) \/ PullBegin(u) \/ PullMember(u) \/ PullVerify(u) \/ PullPublish(u)
    \/ AppendIndex(u) \/ PullAbandon(u) \/ PullRetry(u)

-----------------------------------------------------------------------------
(* Properties.                                                             *)

\* Types.
PullTypeOK ==
  LET Directory == [there : BOOLEAN, name : 0..LastPull, has : SUBSET Members,
                    copy : [status : {"none"} \cup Terminal, files : 0..LastWrite]] IN
  /\ partial \in [RunIds -> Directory] /\ final \in [RunIds -> Directory]
  /\ \A d \in kept : d \in Directory
  /\ puller \in [Pullers -> [phase : {"start", "tar", "begin", "extract", "verify", "publish", "index", "end"},
                             id : RunIds \cup {Nobody}, next : 1..(LastMember + 1),
                             stream : [status : {"none"} \cup Terminal, files : 0..LastWrite]]]
  /\ pulls \in 0..LastPull

\* A line of the index names evidence that is there, whole, and what the run
\* on the VM recorded in its receipt.
IndexedIsVerified == \A r \in rows : Verified(r.run, final[r.run]) /\ r.receipt = dir[r.run].receipt

\* Evidence in its final place with any content is never replaced.
EvidenceIsKept ==
  \A i \in RunIds : final[i].has # {} => final'[i].name = final[i].name

\* Files received in a partial directory are moved to the final place or to
\* the quarantine, never dropped, by however many pulls.
PartialsAreKept ==
  \A i \in RunIds :
     partial[i].there /\ partial'[i].name # partial[i].name =>
       partial[i] \in kept' \/ final'[i] = partial[i]

=============================================================================
