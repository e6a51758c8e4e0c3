------------------------- MODULE MCLearningEpisodes -------------------------
(***************************************************************************)
(* Instances of LearningEpisodes, with interchangeable packets.            *)
(***************************************************************************)
EXTENDS LearningEpisodes, TLC

Alike == Permutations(Packets)
=============================================================================
