-------------------------- MODULE ReplicatedWrites --------------------------
(***************************************************************************)
(* What a primary/backup group promises to the clients of its writes.      *)
(* A write is applied by one member after another, never undone, and       *)
(* answered once: "ok" only when a quorum has applied it.  "error" promises *)
(* nothing, the write may be applied then or later.                        *)
(***************************************************************************)
EXTENDS Naturals, FiniteSets

CONSTANTS Members, Quorum, Writes

VARIABLES
  applied,   \* the members that have applied each write
  answer     \* what the client of each write was told

absVars == <<applied, answer>>

AbsInit ==
  /\ applied = [w \in Writes |-> {}]
  /\ answer = [w \in Writes |-> "none"]

Apply(w, m) ==
  /\ applied' = [applied EXCEPT ![w] = @ \cup {m}]
  /\ UNCHANGED answer

Succeed(w) ==
  /\ answer[w] = "none"
  /\ Cardinality(applied[w]) >= Quorum
  /\ answer' = [answer EXCEPT ![w] = "ok"]
  /\ UNCHANGED applied

Fail(w) ==
  /\ answer[w] = "none"
  /\ answer' = [answer EXCEPT ![w] = "error"]
  /\ UNCHANGED applied

AbsNext ==
  \E w \in Writes : Succeed(w) \/ Fail(w) \/ \E m \in Members : Apply(w, m)

AbsSpec == AbsInit /\ [][AbsNext]_absVars
=============================================================================
