---------------------------- MODULE MCPBElection ----------------------------
(* Small instances of PBElection for TLC; the .cfg files give the constants. *)
EXTENDS PBElection
=============================================================================
