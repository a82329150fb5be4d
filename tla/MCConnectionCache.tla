------------------------- MODULE MCConnectionCache -------------------------
(* Small instances of ConnectionCache for TLC; the .cfg files give the constants. *)
EXTENDS ConnectionCache
=============================================================================
