------------------------------ MODULE MCPBGroup ------------------------------
(* Small instances of PBGroup for TLC. *)
EXTENDS PBGroup, TLC

(* Clients' writes are interchangeable. *)
WriteSymmetry == Permutations(Writes)
=============================================================================
