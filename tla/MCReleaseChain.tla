--------------------------- MODULE MCReleaseChain ---------------------------
(***************************************************************************)
(* A release is published, run and pulled back.  A run reads of the store  *)
(* only that the release can be used, a pull only the directory of its     *)
(* run: the runs start from one plain publication, and the pulls from the  *)
(* end of one run, whose child may have outlived it.                       *)
(***************************************************************************)
EXTENDS ReleaseStore, EvidencePull, FiniteSets, TLC

chainVars == <<releaseVars, runVars, pullVars>>

Publishing ==
  /\ RunInit
  /\ ReleaseNext /\ UNCHANGED <<runVars, pullVars>>

PlainlyPublished ==
  /\ Usable /\ checkout = "clean" /\ operator = "idle"
  /\ store.attempts = 1 /\ store.kept = {} /\ store.incoming = 0 /\ ~store.bootstrap
  /\ \A p \in Publishers : pub[p] = NoWork

Running ==
  /\ PullInit
  /\ PlainlyPublished
  /\ RunNext /\ UNCHANGED <<releaseVars, pullVars>>

OneRunEnded ==
  /\ Cardinality({w \in Runners : runner[w].phase # "start"}) = 1
  /\ Cardinality({i \in RunIds : dir[i].made}) = 1
  /\ \A w \in Runners : runner[w].phase \notin {"lock"} \cup Holding

Pulling ==
  /\ OneRunEnded
  /\ \/ PullNext /\ UNCHANGED runVars
     \/ \E w \in Runners : ChildWrites(w) /\ UNCHANGED pullVars
  /\ UNCHANGED releaseVars

Interchangeable ==
  Permutations(Publishers) \cup Permutations(Runners) \cup Permutations(RunIds) \cup Permutations(Pullers)

ChainInit == ReleaseInit /\ RunInit /\ PullInit
ChainNext == Publishing \/ Running \/ Pulling
ChainSpec == ChainInit /\ [][ChainNext]_chainVars

\* The books of the chain: well-formed states, one live run per resource group,
\* a run id taken only by an attempt that had the group, and receipts that
\* describe the files of their run.
RunsAreSound ==
  /\ ReleaseTypeOK /\ RunTypeOK /\ PullTypeOK
  /\ GroupRunsAlone /\ IdsAreUsedByRuns /\ ReceiptMatchesFiles

\* Nothing that was published, received or recorded is taken back: releases,
\* upload attempts, receipts, evidence in place, and partial pulls.
HistoryIsKept ==
  [][ /\ PublishedForever /\ AttemptsArePreserved /\ ReceiptIsFinal
      /\ EvidenceIsKept /\ PartialsAreKept]_chainVars

=============================================================================
