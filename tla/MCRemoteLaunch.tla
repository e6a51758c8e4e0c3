--------------------------- MODULE MCRemoteLaunch ---------------------------
(***************************************************************************)
(* Launches and installations, with nonces and installers interchangeable. *)
(***************************************************************************)
EXTENDS RemoteLaunch, TLC

Interchangeable == Permutations(Launches) \cup Permutations(Installers) \cup Permutations(Commits)
=============================================================================
