---------------------------- MODULE MCConfigTree ----------------------------
(* Small instances of ConfigTree for TLC; the .cfg files give the constants. *)
EXTENDS ConfigTree, TLC

(* The worker threads are interchangeable, and so are the volume servers whose
   process is not started. *)
TreeSymmetry == Permutations(Workers) \cup Permutations(VolumeServers \ Started)
=============================================================================
