---------------------------- MODULE ReleaseStore ----------------------------
(***************************************************************************)
(* Publication of one immutable release (release_protocol.py, driven by    *)
(* publish-release-remote.sh).  Every path is named after the release id,  *)
(* so releases do not meet; several publishers of one id, a crash of any   *)
(* of them between two file-system calls, and an operator who quarantines  *)
(* an attempt that still runs, do.                                         *)
(***************************************************************************)
EXTENDS Naturals

CONSTANTS
  Publishers,   \* invocations of the publish script that are for one id
  LastAttempt,  \* bound on the incoming directories ever created
  NoWriter        \* no publisher has written the upload

ASSUME ReleaseAssumption == LastAttempt \in Nat /\ NoWriter \notin Publishers

VARIABLES
  checkout,   \* the publisher's worktree: "clean" or "edited"
  store,      \* the directories below releases/
  pub,        \* the phase of each publisher
  operator    \* "bootstrap" between the two moves of quarantine-incoming

releaseVars == <<checkout, store, pub, operator>>

\* What a file may hold: nothing, a part of an upload, the tree of the
\* commit, the worktree instead.
Contents == {"none", "torn", "commit", "edited"}
Whole == {"commit", "edited"}

Phases == {"start", "archive", "bootstrap", "prepare", "upload", "send", "verify",
           "stage", "publish", "seal", "cleanup", "cleanupBootstrap", "end"}

-----------------------------------------------------------------------------
(* Building the bundle from Git objects.                                   *)

Phase(p, next) == [pub EXCEPT ![p].phase = next]

CheckCleanCheckout(p) ==
  /\ pub[p].phase = "start"
  /\ checkout = "clean"
  /\ pub' = Phase(p, "archive")
  /\ UNCHANGED <<checkout, store, operator>>

\* git archive reads the commit, so an edit after the check changes nothing.
Archived(worktree) == "commit"

BuildRelease(p) ==
  /\ pub[p].phase = "archive"
  /\ pub' = [pub EXCEPT ![p] = [@ EXCEPT !.phase = "bootstrap", !.bundle = Archived(checkout)]]
  /\ UNCHANGED <<checkout, store, operator>>

Edit ==
  /\ checkout' = IF checkout = "clean" THEN "edited" ELSE "clean"
  /\ UNCHANGED <<store, pub, operator>>

-----------------------------------------------------------------------------
(* Uploading.  Both directories are created with an exclusive mkdir.       *)

MakeBootstrap(p) ==
  /\ pub[p].phase = "bootstrap"
  /\ ~store.bootstrap
  /\ store' = [store EXCEPT !.bootstrap = TRUE]
  /\ pub' = Phase(p, "prepare")
  /\ UNCHANGED <<checkout, operator>>

AttemptFree == store.incoming = 0

PrepareIncoming(p) ==
  /\ pub[p].phase = "prepare"
  /\ store.bootstrap /\ AttemptFree /\ store.attempts < LastAttempt
  /\ store' = [store EXCEPT !.incoming = store.attempts + 1, !.attempts = @ + 1,
                            !.upload = "none"]
  /\ pub' = Phase(p, "upload")
  /\ UNCHANGED <<checkout, operator>>

\* "cat > file" truncates whatever another publisher has written there ...
OpenUpload(p) ==
  /\ pub[p].phase = "upload"
  /\ store.incoming # 0
  /\ store' = [store EXCEPT !.upload = "torn", !.writer = p]
  /\ pub' = [pub EXCEPT ![p] = [@ EXCEPT !.phase = "send", !.attempt = store.incoming]]
  /\ UNCHANGED <<checkout, operator>>

\* ... and completes the file it opened, wherever the directory is by now.
CloseUpload(p) ==
  /\ pub[p].phase = "send"
  /\ store' = IF store.incoming = pub[p].attempt /\ store.writer = p
              THEN [store EXCEPT !.upload = pub[p].bundle] ELSE store
  /\ pub' = Phase(p, "verify")
  /\ UNCHANGED <<checkout, operator>>

-----------------------------------------------------------------------------
(* install_release.                                                        *)

Usable == store.final = "readonly"

BundleVerified == store.incoming # 0 /\ store.upload \in Whole

VerifyBundle(p) ==
  /\ pub[p].phase = "verify"
  /\ BundleVerified
  /\ \/ store.final = "absent" /\ pub' = Phase(p, "stage")
     \/ Usable /\ store.upload = store.tree /\ pub' = Phase(p, "cleanup")
  /\ UNCHANGED <<checkout, store, operator>>

\* The archive is opened a second time; the extracted tree is verified again.
StageVerifiedMutant == store.incoming # 0
StageVerified == store.incoming # 0 /\ store.upload \in Whole

StageRelease(p) ==
  /\ pub[p].phase = "stage"
  /\ StageVerified
  /\ pub' = [pub EXCEPT ![p] = [@ EXCEPT !.phase = "publish", !.staged = store.upload]]
  /\ UNCHANGED <<checkout, store, operator>>

TargetFree == store.final = "absent"

\* os.replace of the staged tree; it fails over a directory that has files.
PublishRelease(p) ==
  /\ pub[p].phase = "publish"
  /\ TargetFree
  /\ store' = [store EXCEPT !.final = "writable", !.tree = pub[p].staged]
  /\ pub' = Phase(p, "seal")
  /\ UNCHANGED <<checkout, operator>>

AlreadyPublished(p) ==
  /\ pub[p].phase = "publish"
  /\ Usable /\ store.tree = pub[p].staged
  /\ pub' = Phase(p, "cleanup")
  /\ UNCHANGED <<checkout, store, operator>>

SealRelease(p) ==
  /\ pub[p].phase = "seal"
  /\ store' = [store EXCEPT !.final = "readonly"]
  /\ pub' = Phase(p, "cleanup")
  /\ UNCHANGED <<checkout, operator>>

-----------------------------------------------------------------------------
(* cleanup_incoming removes the attempt, then the bootstrap.               *)

CleanupIncoming(p) ==
  /\ pub[p].phase = "cleanup"
  /\ Usable /\ store.incoming # 0
  /\ store' = [store EXCEPT !.incoming = 0, !.upload = "none"]
  /\ pub' = Phase(p, "cleanupBootstrap")
  /\ UNCHANGED <<checkout, operator>>

CleanupBootstrap(p) ==
  /\ pub[p].phase = "cleanupBootstrap"
  /\ store' = [store EXCEPT !.bootstrap = FALSE]
  /\ pub' = Phase(p, "end")
  /\ UNCHANGED <<checkout, operator>>

-----------------------------------------------------------------------------
(* A check that fails, a signal and a lost connection all end the script   *)
(* where it is; the operator may start it again.                           *)

Abandon(p) ==
  /\ pub[p].phase \notin {"start", "end"}
  /\ pub' = Phase(p, "end")
  /\ UNCHANGED <<checkout, store, operator>>

NoWork == [phase |-> "start", bundle |-> "none", staged |-> "none", attempt |-> 0]

Retry(p) ==
  /\ pub[p].phase = "end"
  /\ pub' = [pub EXCEPT ![p] = NoWork]
  /\ UNCHANGED <<checkout, store, operator>>

AttemptThere == store.incoming # 0

\* quarantine_incoming moves the attempt and then the bootstrap.
QuarantineIncoming ==
  /\ operator = "idle"
  /\ AttemptThere
  /\ store' = [store EXCEPT !.incoming = 0, !.upload = "none", !.kept = @ \cup {store.incoming}]
  /\ operator' = IF store.bootstrap THEN "bootstrap" ELSE "idle"
  /\ UNCHANGED <<checkout, pub>>

QuarantineBootstrap ==
  /\ store.bootstrap
  /\ operator = "bootstrap" \/ store.incoming = 0
  /\ store' = [store EXCEPT !.bootstrap = FALSE]
  /\ operator' = "idle"
  /\ UNCHANGED <<checkout, pub>>

QuarantineFails ==
  /\ operator = "bootstrap"
  /\ operator' = "idle"
  /\ UNCHANGED <<checkout, store, pub>>

-----------------------------------------------------------------------------
ReleaseInit ==
  /\ checkout = "clean"
  /\ store = [bootstrap |-> FALSE, incoming |-> 0, attempts |-> 0, upload |-> "none",
              writer |-> NoWriter,
              final |-> "absent", tree |-> "none", kept |-> {}]
  /\ pub = [p \in Publishers |-> NoWork]
  /\ operator = "idle"

Publish(p) ==
  \/ CheckCleanCheckout(p) \/ BuildRelease(p)
  \/ MakeBootstrap(p) \/ PrepareIncoming(p) \/ OpenUpload(p) \/ CloseUpload(p)
  \/ VerifyBundle(p) \/ StageRelease(p) \/ PublishRelease(p) \/ AlreadyPublished(p)
  \/ SealRelease(p) \/ CleanupIncoming(p) \/ CleanupBootstrap(p)
  \/ Abandon(p) \/ Retry(p)

ReleaseNext ==
  \/ \E p \in Publishers : Publish(p)
  \/ Edit \/ QuarantineIncoming \/ QuarantineBootstrap \/ QuarantineFails

ReleaseSpec == ReleaseInit /\ [][ReleaseNext]_releaseVars

-----------------------------------------------------------------------------
(* Properties.                                                             *)

\* Types.
ReleaseTypeOK ==
  /\ checkout \in {"clean", "edited"}
  /\ store \in [bootstrap : BOOLEAN, incoming : 0..LastAttempt, attempts : 0..LastAttempt,
                upload : Contents, writer : Publishers \cup {NoWriter},
                final : {"absent", "writable", "readonly"}, tree : Contents,
                kept : SUBSET (1..LastAttempt)]
  /\ pub \in [Publishers -> [phase : Phases, bundle : Contents, staged : Contents,
                             attempt : 0..LastAttempt]]
  /\ operator \in {"idle", "bootstrap"}

\* Whatever is visible under the release id is the whole tree of the commit:
\* neither an edit of the checkout nor another publisher's torn upload
\* reaches it (build_release, install_release).
PublishedIsCommit == store.final # "absent" => store.tree = "commit"

\* A published release is never replaced, withdrawn or made writable again,
\* whoever installs the same id a second time (install_release).
PublishedForever ==
  store.final # "absent" =>
     /\ store'.final # "absent" /\ store'.tree = store.tree
     /\ store.final = "readonly" => store'.final = "readonly"

\* An incoming attempt gives way only to a move into the quarantine, or to a
\* cleanup once the release can be used (prepare_incoming's "preserve it for
\* inspection", cleanup_incoming).
AttemptsArePreserved ==
  store.incoming \notin {0, store'.incoming} =>
     Usable \/ store.incoming \in store'.kept

=============================================================================
