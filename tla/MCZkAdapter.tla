---------------------------- MODULE MCZkAdapter ----------------------------
(* Small instances of ZkAdapter for TLC. *)
EXTENDS ZkAdapter

CONSTANTS t1, t2, l1

(* A node and its child; they are there at the start or not. *)
TwoPaths == {<<1>>, <<1, 1>>}
TwoTrees == {{}, TwoPaths}

(* A call about the node that may watch and may leave a context. *)
Read(op, l, context) == [op |-> op, path |-> <<1>>, listener |-> l, context |-> context]

(* t1 creates the child and, if need be, the node, creates a sequence node next to
   the child, deletes the node and what is below it, changes its data, or leaves a
   context without watching. *)
Writer ==
  {[op |-> "createNode", path |-> <<1, 1>>, createAncestors |-> TRUE],
   [op |-> "createSequence", path |-> <<1, 1>>, createAncestors |-> FALSE],
   [op |-> "deleteNode", path |-> <<1>>, recursive |-> TRUE],
   [op |-> "setNodeData", path |-> <<1>>, version |-> 0],
   Read("nodeExists", NULL, TRUE)}

(* t2 watches the node with a context. *)
Watcher == {Read("nodeExists", l1, TRUE), Read("getNodeData", l1, TRUE)}

MixedInputs == [t \in {t1, t2} |-> IF t = t1 THEN Writer ELSE Watcher]
=============================================================================
