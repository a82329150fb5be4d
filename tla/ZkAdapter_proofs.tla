-------------------------- MODULE ZkAdapter_proofs --------------------------
(***************************************************************************)
(* Proofs about ZkAdapter, for any number of callers, listeners and calls, *)
(* any paths, and any number of lost connections and expired sessions.     *)
(***************************************************************************)
EXTENDS ZkAdapter, SequenceTheorems, TLAPS

Busy(t) == call[t].at # "idle"

-----------------------------------------------------------------------------
(* The inductive invariant. *)

(* The phases each operation goes through, and the time left of a wait. *)
PhasesOf(c) ==
  CASE c.args.op \in {"createNode", "createSequence"} -> {"first", "ancestor", "final"}
    [] c.args.op = "deleteNode" -> {"first", "list", "child", "final"}
    [] OTHER -> {"first"}
CallOK(c) ==
  /\ c.phase \in PhasesOf(c)
  /\ c.phase = "child" => c.todo # {}
  /\ c.toWait <= c.timeout
CallsOK == \A t \in Threads : Busy(t) => CallOK(call[t])

(* A request that is out belongs to the session of the handle; an answer and a
   context to some session there was. *)
OwnSession(c) ==
  /\ c.session <= sessions
  /\ c.at = "sent" => c.session = handle /\ handle # 0 /\ conn # "expired"
  /\ c.at = "back" /\ c.rc \in {"ok", "nonode"} => c.session > 0
SessionsOK ==
  /\ handle <= sessions
  /\ conn = "none" <=> handle = 0
  /\ \A t \in Threads : Busy(t) => OwnSession(call[t])
  /\ \A x \in contexts : x.session \in 1 .. sessions

(* A caller that will leave a context holds m_zkContextsMutex over its request. *)
MutexHeld ==
  \A t \in Threads : call[t].at \in {"sent", "back"} /\ WithContext(call[t]) => mutex = t

(* The watch is set, or its event is on the way to handleEvent. *)
Backed(method, path) ==
  \/ <<method, path>> \in watches
  \/ \E e \in Range(events \o userEvents) :
       e.type # "SESSION" /\ method \in LookedUp(e) /\ path = e.path

(* Contexts that are about to be registered are backed, too. *)
Registers(c) ==
  /\ c.at = "back" /\ WithContext(c)
  /\ c.rc = "ok" \/ (c.rc = "nonode" /\ c.args.op = "nodeExists")
PendingBacked ==
  \A t \in Threads :
    /\ Registers(call[t])
    /\ call[t].session = handle /\ conn # "expired"
    /\ call[t].args.op # "getNodeChildren" /\ call[t].args.listener # NULL
    => Backed(MethodOf(call[t].args.op), call[t].args.path)

(* The request that is answered created or deleted the call's own node. *)
DidIt(c) == c.at = "back" /\ c.rc = "ok" /\ c.phase \in {"first", "final"}
MadeOK(c) ==
  c.args.op \in Writes \ {"setNodeData"} =>
    /\ DidIt(c) => c.made > 0
    /\ ~c.lossy => c.rc # "connectionloss" /\ c.made = IF DidIt(c) THEN 1 ELSE 0
MadeCounts == \A t \in Threads : Busy(t) => MadeOK(call[t])

-----------------------------------------------------------------------------
(* Types. *)

(* A call is idle or busy, told apart by at. *)
LEMMA CallKinds ==
  ASSUME NEW c \in Calls
  PROVE  /\ c.at = "idle" <=> c \in IdleCalls
         /\ c.at # "idle" <=> c \in BusyCalls
BY DEF Calls, IdleCalls, BusyCalls

(* What a call that ends leaves behind. *)
LEMMA DoneType ==
  ASSUME NEW r \in {"none", "true", "false", "done", "throw"}
  PROVE  Done(r) \in Calls /\ Done(r).at = "idle" /\ Done(r).result = r
BY DEF Done, Calls, IdleCalls

(* The arguments of the operations. *)
LEMMA OpKinds ==
  ASSUME NEW a \in Ops
  PROVE  /\ a.path \in Paths /\ a.path \in Seq(Nat)
         /\ a.op \in Writes \cup {"nodeExists", "getNodeChildren", "getNodeData"}
         /\ a.op \notin Writes => /\ a.context \in BOOLEAN
                                  /\ a.listener \in Listeners \cup {NULL}
<1>1. a.path \in Paths
  BY DEF Ops, Creates, Deletes, Sets, Reads
<1>2. a.path \in Seq(Nat)
  BY <1>1, AdapterAssumption
<1>3. /\ a.op \in Writes \cup {"nodeExists", "getNodeChildren", "getNodeData"}
      /\ a.op \notin Writes => a \in Reads
  BY DEF Ops, Creates, Deletes, Sets, Reads, Writes
<1>4. a \in Reads => a.context \in BOOLEAN /\ a.listener \in Listeners \cup {NULL}
  BY DEF Reads
<1> QED
  BY <1>1, <1>2, <1>3, <1>4

(* A call whose request is over: nothing else about it changes. *)
LEMMA BackType ==
  ASSUME NEW c \in BusyCalls, NEW rc \in Codes, NEW lossy \in BOOLEAN
  PROVE  LET d == [c EXCEPT !.at = "back", !.rc = rc, !.lossy = lossy]
         IN  /\ d \in BusyCalls
             /\ d.at = "back" /\ d.rc = rc /\ d.lossy = lossy
             /\ d.args = c.args /\ d.phase = c.phase /\ d.todo = c.todo /\ d.made = c.made
             /\ d.session = c.session /\ d.timeout = c.timeout /\ d.toWait = c.toWait
             /\ d.retries = c.retries
BY DEF BusyCalls

(* Ended ends the requests that are out and leaves the other calls alone. *)
LEMMA EndedCalls ==
  ASSUME call \in [Threads -> Calls], NEW rc \in Codes
  PROVE  /\ Ended(rc) \in [Threads -> Calls]
         /\ \A u \in Threads : call[u].at # "sent" => Ended(rc)[u] = call[u]
         /\ \A u \in Threads : call[u].at = "sent" =>
              /\ call[u] \in BusyCalls /\ Ended(rc)[u] \in BusyCalls
              /\ Ended(rc)[u].at = "back" /\ Ended(rc)[u].rc = rc /\ Ended(rc)[u].lossy = TRUE
              /\ Ended(rc)[u].args = call[u].args /\ Ended(rc)[u].phase = call[u].phase
              /\ Ended(rc)[u].todo = call[u].todo /\ Ended(rc)[u].made = call[u].made
              /\ Ended(rc)[u].session = call[u].session
              /\ Ended(rc)[u].timeout = call[u].timeout /\ Ended(rc)[u].toWait = call[u].toWait
<1> DEFINE E(u) == [call[u] EXCEPT !.at = "back", !.rc = rc, !.lossy = TRUE]
<1>1. /\ Ended(rc) = [u \in Threads |-> IF call[u].at = "sent" THEN E(u) ELSE call[u]]
  BY DEF Ended
<1>2. ASSUME NEW u \in Threads, call[u].at = "sent"
      PROVE  /\ call[u] \in BusyCalls /\ E(u) \in BusyCalls
             /\ E(u).at = "back" /\ E(u).rc = rc /\ E(u).lossy = TRUE
             /\ E(u).args = call[u].args /\ E(u).phase = call[u].phase
             /\ E(u).todo = call[u].todo /\ E(u).made = call[u].made
             /\ E(u).session = call[u].session
             /\ E(u).timeout = call[u].timeout /\ E(u).toWait = call[u].toWait
  <2>1. call[u] \in BusyCalls
    BY <1>2, CallKinds
  <2> QED
    BY <2>1 DEF BusyCalls
<1> HIDE DEF E
<1>3. Ended(rc) \in [Threads -> Calls]
  BY <1>1, <1>2 DEF Calls
<1>4. \A u \in Threads : Ended(rc)[u] = IF call[u].at = "sent" THEN E(u) ELSE call[u]
  BY <1>1
<1> QED
  BY <1>2, <1>3, <1>4

(* The types, and the invariant they rest on. *)
TypeInv == TypeOK /\ CallsOK

(* The constants' types. *)
LEMMA ConstantTypes ==
  /\ ConnectTimeout \in Nat /\ ConnectTimeout > 0 /\ MaxCalls \in Nat
  /\ AutoReconnect \in BOOLEAN /\ Retries \in 0 .. 2
BY AdapterAssumption DEF Retries

(* notify wakes waiters, never the caller itself. *)
LEMMA NotifyType ==
  ASSUME NEW t, NEW n, NEW S \in notify(t, n)
  PROVE  \A u \in S : u # t /\ (u \in signalled \/ (u \in Threads /\ call[u].at = "wait"))
BY DEF notify

(* reconnect, up to the calls. *)
LEMMA ReconnectType ==
  ASSUME TypeOK, NEW t, NEW ok \in BOOLEAN, reconnect(t, ok)
  PROVE  /\ handle' \in Nat /\ sessions' \in Nat
         /\ conn' \in {"none", "connecting", "connected", "reconnecting", "expired"}
         /\ watches' \subseteq WatchableMethod \X Paths
         /\ state' \in AdapterState
         /\ remaining' \in Int /\ remaining' <= ConnectTimeout
         /\ \A u \in signalled' : u # t /\ u \in Threads /\ call[u].at = "wait"
<1>1. /\ handle' \in {0, sessions + 1} /\ sessions' \in {sessions, sessions + 1}
      /\ conn' \in {"connecting", "none"} /\ watches' = {}
      /\ state' \in {"CONNECTING", "DISCONNECTED", state} /\ remaining' = ConnectTimeout
      /\ \E n : signalled' \in notify(t, n)
  BY DEF reconnect
<1>2. \A u \in signalled' : u # t /\ u \in Threads /\ call[u].at = "wait"
  BY <1>1, NotifyType DEF TypeOK
<1> QED
  BY <1>1, <1>2, ConstantTypes DEF TypeOK, AdapterState

(* The last name taken off a path. *)
LEMMA FrontType ==
  ASSUME NEW p \in Seq(Nat)
  PROVE  Front(p) \in Seq(Nat)
<1>1. Len(p) \in Nat
  BY LenProperties
<1>2. CASE Len(p) = 0
  <2>1. SubSeq(p, 1, Len(p) - 1) = <<>>
    BY <1>2, SubSeqEmpty
  <2> QED
    BY <2>1 DEF Front
<1>3. CASE Len(p) > 0
  <2>1. 1 \in 1 .. Len(p) + 1 /\ Len(p) - 1 \in 1 - 1 .. Len(p)
    BY <1>1, <1>3
  <2> QED
    BY <2>1, SubSeqProperties DEF Front
<1> QED
  BY <1>1, <1>2, <1>3

(* What a call asks for, and of which node. *)
LEMMA RequestType ==
  ASSUME NEW c \in BusyCalls, CallOK(c)
  PROVE  /\ RequestOf(c) \in Writes \cup {"nodeExists", "getNodeChildren", "getNodeData"}
         /\ c.phase = "first" => RequestOf(c) = c.args.op /\ TargetOf(c) = c.args.path
         /\ TargetOf(c) \in Seq(Nat)
         /\ Front(TargetOf(c)) \in Seq(Nat)
<1>1. /\ c.args \in Ops /\ c.todo \in SUBSET Seq(Nat)
      /\ c.phase \in {"first", "ancestor", "list", "child", "final"}
  BY DEF BusyCalls
<1>2. c.args.path \in Seq(Nat) /\ Front(c.args.path) \in Seq(Nat)
  BY <1>1, OpKinds, FrontType
<1>3. c.phase = "child" => (CHOOSE p \in c.todo : TRUE) \in Seq(Nat)
  BY <1>1 DEF CallOK
<1>4. TargetOf(c) \in Seq(Nat)
  BY <1>1, <1>2, <1>3 DEF TargetOf
<1>5. RequestOf(c) \in Writes \cup {"nodeExists", "getNodeChildren", "getNodeData"}
  BY <1>1, OpKinds DEF RequestOf, Writes
<1>6. c.phase = "first" => RequestOf(c) = c.args.op /\ TargetOf(c) = c.args.path
  BY DEF RequestOf, TargetOf
<1> QED
  BY <1>4, <1>5, <1>6, FrontType

(* The node a request creates. *)
LEMMA CreatedType ==
  ASSUME NEW c \in BusyCalls, CallOK(c), sequence \in Nat
  PROVE  CreatedPath(c) \in Seq(Nat) /\ Front(CreatedPath(c)) \in Seq(Nat)
<1>1. TargetOf(c) \in Seq(Nat) /\ Front(TargetOf(c)) \in Seq(Nat)
  BY RequestType
<1>2. 100 + sequence + 1 \in Nat
  OBVIOUS
<1>3. Append(Front(TargetOf(c)), 100 + sequence + 1) \in Seq(Nat)
  BY <1>1, <1>2, AppendProperties
<1> QED
  BY <1>1, <1>3, FrontType DEF CreatedPath

(* What the server may answer. *)
Answers == {"ok", "nonode", "nodeexists", "notempty", "badversion"}
(* The server answers every request with one of them. *)
LEMMA AnswerType == \A c : Answer(c) \in Answers
BY DEF Answer, Answers

(* The events of a change are watch events. *)
LEMMA EventsType ==
  ASSUME NEW c \in BusyCalls, CallOK(c), sequence \in Nat
  PROVE  /\ EventsOf(c) \in Seq(WatchEvents)
         /\ \A i \in DOMAIN EventsOf(c) : i \in {1, 2} /\ EventsOf(c)[i] \in WatchEvents
<1>1. /\ TargetOf(c) \in Seq(Nat) /\ Front(TargetOf(c)) \in Seq(Nat)
      /\ CreatedPath(c) \in Seq(Nat) /\ Front(CreatedPath(c)) \in Seq(Nat)
  BY RequestType, CreatedType
<1>2. \A p \in Seq(Nat) : \A y \in {"CREATED", "DELETED", "CHANGED", "CHILD"} :
        [type |-> y, path |-> p] \in WatchEvents
  BY DEF WatchEvents
<1>3. \A e, f \in WatchEvents :
        /\ <<>> \in Seq(WatchEvents) /\ DOMAIN <<>> = {}
        /\ <<e>> \in Seq(WatchEvents) /\ DOMAIN <<e>> = {1} /\ <<e>>[1] = e
        /\ <<e, f>> \in Seq(WatchEvents) /\ DOMAIN <<e, f>> = {1, 2}
        /\ <<e, f>>[1] = e /\ <<e, f>>[2] = f
  OBVIOUS
<1>4. \/ EventsOf(c) = <<>>
      \/ \E e \in WatchEvents : EventsOf(c) = <<e>>
      \/ \E e, f \in WatchEvents : EventsOf(c) = <<e, f>>
  <2>1. CASE RequestOf(c) \in {"createNode", "createSequence"}
    <3>1. EventsOf(c) = <<[type |-> "CREATED", path |-> CreatedPath(c)],
                          [type |-> "CHILD", path |-> Front(CreatedPath(c))]>>
      BY <2>1 DEF EventsOf
    <3> QED
      BY <1>1, <1>2, <3>1
  <2>2. CASE RequestOf(c) = "deleteNode"
    <3>1. EventsOf(c) = <<[type |-> "DELETED", path |-> TargetOf(c)],
                          [type |-> "CHILD", path |-> Front(TargetOf(c))]>>
      BY <2>2 DEF EventsOf
    <3> QED
      BY <1>1, <1>2, <3>1
  <2>3. CASE RequestOf(c) = "setNodeData"
    <3>1. EventsOf(c) = <<[type |-> "CHANGED", path |-> TargetOf(c)]>>
      BY <2>3 DEF EventsOf
    <3> QED
      BY <1>1, <1>2, <3>1
  <2>4. CASE RequestOf(c) \notin {"createNode", "createSequence", "deleteNode", "setNodeData"}
    BY <2>4 DEF EventsOf
  <2> QED
    BY <2>1, <2>2, <2>3, <2>4
<1>5. CASE EventsOf(c) = <<>>
  BY <1>3, <1>5
<1>6. ASSUME NEW e \in WatchEvents, EventsOf(c) = <<e>>
      PROVE  /\ EventsOf(c) \in Seq(WatchEvents)
             /\ \A i \in DOMAIN EventsOf(c) : i \in {1, 2} /\ EventsOf(c)[i] \in WatchEvents
  BY <1>6
<1>7. ASSUME NEW e \in WatchEvents, NEW f \in WatchEvents, EventsOf(c) = <<e, f>>
      PROVE  /\ EventsOf(c) \in Seq(WatchEvents)
             /\ \A i \in DOMAIN EventsOf(c) : i \in {1, 2} /\ EventsOf(c)[i] \in WatchEvents
  BY <1>7
<1> QED
  BY <1>4, <1>5, <1>6, <1>7

(* The tree after a request. *)
LEMMA TreeType ==
  ASSUME TypeOK, NEW c \in BusyCalls, CallOK(c), Answer(c) = "ok"
  PROVE  DOMAIN TreeAfter(c) \subseteq Seq(Nat) /\ TreeAfter(c) \in [DOMAIN TreeAfter(c) -> Nat]
<1>1. /\ TargetOf(c) \in Seq(Nat) /\ CreatedPath(c) \in Seq(Nat)
      /\ DOMAIN tree \subseteq Seq(Nat) /\ tree \in [DOMAIN tree -> Nat]
  BY RequestType, CreatedType DEF TypeOK
<1>2. CASE RequestOf(c) \in {"createNode", "createSequence"}
  <2>1. TreeAfter(c) = [p \in DOMAIN tree \cup {CreatedPath(c)} |-> IF Exists(p) THEN tree[p] ELSE 0]
    BY <1>2 DEF TreeAfter
  <2>2. ~Exists(CreatedPath(c))
    BY <1>2 DEF Answer
  <2>3. \A p \in DOMAIN tree \cup {CreatedPath(c)} : (IF Exists(p) THEN tree[p] ELSE 0) \in Nat
    BY <1>1, <2>2 DEF Exists
  <2> QED
    BY <1>1, <2>1, <2>3
<1>3. CASE RequestOf(c) = "deleteNode"
  <2>1. TreeAfter(c) = [p \in DOMAIN tree \ {TargetOf(c)} |-> tree[p]]
    BY <1>3 DEF TreeAfter
  <2> QED
    BY <1>1, <2>1
<1>4. CASE RequestOf(c) = "setNodeData"
  <2>1. TreeAfter(c) = [tree EXCEPT ![TargetOf(c)] = @ + 1]
    BY <1>4 DEF TreeAfter
  <2> DEFINE p == TargetOf(c)
             D == DOMAIN tree
  <2>2. [tree EXCEPT ![p] = @ + 1] = [q \in D |-> IF q = p THEN tree[q] + 1 ELSE tree[q]]
    BY Zenon
  <2>3. \A q \in D : (IF q = p THEN tree[q] + 1 ELSE tree[q]) \in Nat
    BY <1>1
  <2> HIDE DEF p, D
  <2>4. [q \in D |-> IF q = p THEN tree[q] + 1 ELSE tree[q]] \in [D -> Nat]
    BY <2>3
  <2>5. TreeAfter(c) \in [D -> Nat]
    BY <2>1, <2>2, <2>4 DEF p
  <2> QED
    BY <1>1, <2>5 DEF D
<1>5. CASE RequestOf(c) \notin {"createNode", "createSequence", "deleteNode", "setNodeData"}
  BY <1>1, <1>5 DEF TreeAfter
<1> QED
  BY <1>2, <1>3, <1>4, <1>5

(* CarryOut, part by part: the events a change leaves, the watches it ends and the
   one it sets. *)
Watching(c) ==
  /\ c.phase = "first" /\ RequestOf(c) \notin Writes
  /\ c.args.listener # NULL
  /\ Answer(c) = "ok" \/ (Answer(c) = "nonode" /\ RequestOf(c) = "nodeExists")
ChangesOf(c) == IF Answer(c) = "ok" THEN EventsOf(c) ELSE <<>>
(* Every watch of the session is kept or its event is enqueued; a watching call has
   its own watch after it. *)
LEMMA CarryOutType ==
  ASSUME TypeOK, NEW c \in BusyCalls, CallOK(c),
         NEW broken \in Seq(SessionEvents), CarryOut(c, broken)
  PROVE  /\ sequence' \in Nat
         /\ DOMAIN tree' \subseteq Seq(Nat) /\ tree' \in [DOMAIN tree' -> Nat]
         /\ watches' \subseteq WatchableMethod \X Paths
         /\ \E told \in Seq(WatchEvents) :
              /\ events' = events \o (told \o broken)
              /\ \A i \in DOMAIN ChangesOf(c) :
                   EndedBy(ChangesOf(c)[i]) \cap watches # {} =>
                     ChangesOf(c)[i] \in {told[j] : j \in DOMAIN told}
         /\ \A x \in watches : x \in watches' \/ \E i \in DOMAIN ChangesOf(c) : x \in EndedBy(ChangesOf(c)[i])
         /\ Watching(c) => <<MethodOf(c.args.op), c.args.path>> \in watches'
         /\ events' \in Seq(SessionEvents \cup WatchEvents)
<1> DEFINE done == ChangesOf(c)
           told(i) == IF i \in DOMAIN done /\ EndedBy(done[i]) \cap watches # {}
                      THEN <<done[i]>> ELSE <<>>
           kept == watches \ UNION {EndedBy(done[i]) : i \in DOMAIN done}
<1>1. /\ sequence \in Nat /\ events \in Seq(SessionEvents \cup WatchEvents)
      /\ watches \subseteq WatchableMethod \X Paths
      /\ DOMAIN tree \subseteq Seq(Nat) /\ tree \in [DOMAIN tree -> Nat]
  BY DEF TypeOK
<1>2. /\ tree' = IF Answer(c) = "ok" THEN TreeAfter(c) ELSE tree
      /\ sequence' \in {sequence, sequence + 1}
      /\ watches' = IF Watching(c) THEN kept \cup {<<MethodOf(RequestOf(c)), TargetOf(c)>>} ELSE kept
      /\ events' = events \o (told(1) \o told(2) \o broken)
  BY DEF CarryOut, ChangesOf, Watching, enqueueEvent
<1>3. \A i \in DOMAIN done : i \in {1, 2} /\ done[i] \in WatchEvents
  BY <1>1, EventsType DEF ChangesOf
<1> HIDE DEF done
<1>4. told(1) \in Seq(WatchEvents) /\ told(2) \in Seq(WatchEvents)
  BY <1>3
<1>5. told(1) \o told(2) \in Seq(WatchEvents)
  BY <1>4, ConcatProperties
<1>6. \A i \in DOMAIN done : EndedBy(done[i]) \cap watches # {} =>
        done[i] \in {(told(1) \o told(2))[j] : j \in DOMAIN (told(1) \o told(2))}
  <2> SUFFICES ASSUME NEW i \in DOMAIN done, EndedBy(done[i]) \cap watches # {}
               PROVE  \E j \in DOMAIN (told(1) \o told(2)) : (told(1) \o told(2))[j] = done[i]
    OBVIOUS
  <2>1. told(i) = <<done[i]>> /\ i \in {1, 2}
    BY <1>3
  <2> HIDE DEF told
  <2>2. CASE i = 1
    <3>1. Len(told(1)) = 1 /\ told(1)[1] = done[1] /\ Len(told(2)) \in Nat
      BY <1>4, <2>1, <2>2, LenProperties
    <3>2. 1 \in 1 .. Len(told(1) \o told(2)) /\ (told(1) \o told(2))[1] = done[1]
      BY <1>4, <3>1, ConcatProperties
    <3> QED
      BY <1>5, <2>2, <3>2, LenProperties
  <2>3. CASE i = 2
    <3> DEFINE n == Len(told(1))
    <3>1. Len(told(2)) = 1 /\ told(2)[1] = done[2] /\ n \in Nat
      BY <1>4, <2>1, <2>3, LenProperties
    <3>2. n + 1 \in 1 .. Len(told(1) \o told(2)) /\ (told(1) \o told(2))[n + 1] = done[2]
      BY <1>4, <3>1, ConcatProperties
    <3> QED
      BY <1>5, <2>3, <3>2, LenProperties
  <2> QED
    BY <2>1, <2>2, <2>3
<1>7. tree' \in [DOMAIN tree' -> Nat] /\ DOMAIN tree' \subseteq Seq(Nat)
  BY <1>1, <1>2, TreeType
<1>8. Watching(c) => /\ MethodOf(RequestOf(c)) = MethodOf(c.args.op) /\ TargetOf(c) = c.args.path
                     /\ MethodOf(c.args.op) \in WatchableMethod /\ c.args.path \in Paths
  <2>1. c.args \in Ops
    BY DEF BusyCalls
  <2>2. c.phase = "first" => RequestOf(c) = c.args.op /\ TargetOf(c) = c.args.path
    BY RequestType
  <2>3. \A o \in {"nodeExists", "getNodeChildren", "getNodeData"} : MethodOf(o) \in WatchableMethod
    BY DEF MethodOf, WatchableMethod
  <2> QED
    BY <2>1, <2>2, <2>3, OpKinds DEF Watching
<1>9. watches' \subseteq WatchableMethod \X Paths
  BY <1>1, <1>2, <1>8
<1> HIDE DEF told, kept
<1>10. events' \in Seq(SessionEvents \cup WatchEvents)
  <2>1. told(1) \o told(2) \o broken \in Seq(SessionEvents \cup WatchEvents)
    BY <1>5, ConcatProperties
  <2> QED
    BY <1>1, <1>2, <2>1, ConcatProperties
<1>11. \E tolds \in Seq(WatchEvents) :
         /\ events' = events \o (tolds \o broken)
         /\ \A i \in DOMAIN done : EndedBy(done[i]) \cap watches # {} =>
              done[i] \in {tolds[j] : j \in DOMAIN tolds}
  BY <1>2, <1>5, <1>6
<1>12. \A x \in watches : x \in watches' \/ \E i \in DOMAIN done : x \in EndedBy(done[i])
  BY <1>2 DEF kept
<1>13. Watching(c) => <<MethodOf(c.args.op), c.args.path>> \in watches'
  BY <1>2, <1>8
<1>14. sequence' \in Nat
  BY <1>1, <1>2
<1> QED
  BY <1>7, <1>9, <1>10, <1>11, <1>12, <1>13, <1>14 DEF done

-----------------------------------------------------------------------------
(* What a step does to a call. *)

(* d is c with a request of the same kind for the same node. *)
Same(c, d) ==
  /\ d.args = c.args /\ d.phase = c.phase /\ d.session = c.session
  /\ d.made = c.made /\ d.rc = c.rc /\ d.lossy = c.lossy

(* verifyConnection and the wait go on; the call takes the handle; its answer is
   lost; it is answered; what is next for a call that is back. *)
Moves(c, d) == c.at \in {"verify", "wait"} /\ d.at \in {"wait", "begin"} /\ Same(c, d)
Begins(c, d) ==
  /\ c.at = "begin" /\ d.args = c.args /\ d.phase = c.phase /\ d.made = c.made /\ d.lossy = c.lossy
  /\ \/ d.at = "back" /\ d.rc \in {"badarguments", "invalidstate"} /\ d.session = c.session
     \/ /\ d.at = "sent" /\ d.rc = c.rc /\ d.session = handle
        /\ handle # 0 /\ conn # "expired"
Loses(c, d) ==
  /\ c.at = "sent" /\ d.at = "back" /\ d.lossy /\ d.rc \in {"connectionloss", "expired", "closing"}
  /\ d.args = c.args /\ d.phase = c.phase /\ d.session = c.session
IsAnswered(c, d) ==
  /\ c.at = "sent" /\ d.at = "back" /\ d.rc = Answer(c) /\ d.made = Made(c) /\ d.lossy = c.lossy
  /\ d.args = c.args /\ d.phase = c.phase /\ d.session = c.session
GoesOn(c, d) ==
  /\ c.at = "back" /\ d.at = "verify" /\ d.rc = "none" /\ d.session = 0
  /\ d.args = c.args /\ d.made = c.made /\ d.lossy = c.lossy
  /\ c.args.op \in Writes \ {"setNodeData"} => ~DidIt(c)
Returns(c, d) ==
  /\ c.at = "back" /\ d.at = "idle"
  /\ c.args.op \in Writes \ {"setNodeData"} => (d.result = "true" <=> DidIt(c))
Starts(c, d) ==
  /\ c.at = "idle" /\ d.at = "verify" /\ d.phase = "first" /\ d.session = 0 /\ d.rc = "none"
  /\ d.made = 0 /\ ~d.lossy
CallStep(c, d) ==
  \/ d = c
  \/ c.at \in {"idle", "verify", "wait"} /\ d.at = "idle"
  \/ Starts(c, d) \/ Moves(c, d) \/ Begins(c, d) \/ Loses(c, d) \/ IsAnswered(c, d)
  \/ GoesOn(c, d) \/ Returns(c, d)

(* CallOK looks at a few fields. *)
LEMMA SameCallOK ==
  ASSUME NEW c, NEW d, CallOK(c), d.args = c.args, d.phase = c.phase,
         d.phase = "child" => d.todo = c.todo, d.toWait <= d.timeout
  PROVE  CallOK(d)
BY DEF CallOK, PhasesOf

(* The call begins to wait, waits again, and the wait is over. *)
LEMMA WaitingCall ==
  ASSUME NEW c \in BusyCalls, CallOK(c), c.at = "verify", NEW n \in Nat
  PROVE  LET d == [c EXCEPT !.at = "wait", !.timeout = n, !.toWait = n]
         IN  d \in BusyCalls /\ CallOK(d) /\ d.at = "wait" /\ CallStep(c, d)
<1> DEFINE d == [c EXCEPT !.at = "wait", !.timeout = n, !.toWait = n]
<1>1. d \in BusyCalls
  <2>1. ASSUME NEW m \in Int, NEW k \in Nat
        PROVE  [c EXCEPT !.at = "wait", !.timeout = m, !.toWait = k] \in BusyCalls
    BY DEF BusyCalls
  <2>2. n \in Int
    OBVIOUS
  <2> QED
    BY <2>1, <2>2, Zenon
<1>2. d.at = "wait" /\ d.todo = c.todo /\ d.toWait = n /\ d.timeout = n /\ Same(c, d)
  BY <1>1 DEF BusyCalls, Same
<1> HIDE DEF d
<1>3. CallOK(d)
  BY <1>2, SameCallOK DEF Same
<1> QED
  BY <1>1, <1>2, <1>3 DEF d, CallStep, Moves

(* waitUntilConnected waits again, with what is left of the time. *)
LEMMA WaitsAgain ==
  ASSUME NEW c \in BusyCalls, CallOK(c), c.at = "wait", NEW left \in 1 .. c.toWait
  PROVE  LET d == [c EXCEPT !.toWait = left]
         IN  d \in BusyCalls /\ CallOK(d) /\ d.at = "wait" /\ CallStep(c, d)
<1> DEFINE d == [c EXCEPT !.toWait = left]
<1>1. c.toWait \in Nat /\ c.timeout \in Int /\ c.toWait <= c.timeout /\ left \in Nat /\ left <= c.timeout
  BY DEF BusyCalls, CallOK
<1>2. /\ d \in BusyCalls /\ d.at = "wait" /\ d.todo = c.todo
      /\ d.toWait = left /\ d.timeout = c.timeout /\ Same(c, d)
  BY <1>1 DEF BusyCalls, Same
<1> HIDE DEF d
<1>3. CallOK(d)
  BY <1>1, <1>2, SameCallOK DEF Same
<1> QED
  BY <1>2, <1>3 DEF d, CallStep, Moves

(* The connection is there, at once or after a wait. *)
LEMMA WaitedCall ==
  ASSUME NEW c \in BusyCalls, CallOK(c)
  PROVE  /\ c.at = "verify" =>
              LET d == [c EXCEPT !.at = "begin"]
              IN  d \in BusyCalls /\ CallOK(d) /\ CallStep(c, d)
         /\ c.at = "wait" =>
              LET d == [c EXCEPT !.at = "begin", !.timeout = 0, !.toWait = 0]
              IN  d \in BusyCalls /\ CallOK(d) /\ CallStep(c, d)
<1>1. ASSUME c.at = "verify"
      PROVE  LET d == [c EXCEPT !.at = "begin"] IN d \in BusyCalls /\ CallOK(d) /\ CallStep(c, d)
  <2> DEFINE d == [c EXCEPT !.at = "begin"]
  <2>1. /\ d \in BusyCalls /\ d.at = "begin" /\ d.todo = c.todo
        /\ d.toWait = c.toWait /\ d.timeout = c.timeout /\ Same(c, d)
    BY DEF BusyCalls, Same
  <2>2. c.toWait <= c.timeout
    BY DEF CallOK
  <2> HIDE DEF d
  <2>3. CallOK(d)
    BY <2>1, <2>2, SameCallOK DEF Same
  <2> QED
    BY <1>1, <2>1, <2>3 DEF d, CallStep, Moves
<1>2. ASSUME c.at = "wait"
      PROVE  LET d == [c EXCEPT !.at = "begin", !.timeout = 0, !.toWait = 0]
             IN d \in BusyCalls /\ CallOK(d) /\ CallStep(c, d)
  <2> DEFINE d == [c EXCEPT !.at = "begin", !.timeout = 0, !.toWait = 0]
  <2>1. d \in BusyCalls
    <3>1. ASSUME NEW m \in Int, NEW k \in Nat
          PROVE  [c EXCEPT !.at = "begin", !.timeout = m, !.toWait = k] \in BusyCalls
      BY DEF BusyCalls
    <3>2. 0 \in Int /\ 0 \in Nat
      OBVIOUS
    <3> QED
      BY <3>1, <3>2, Zenon
  <2>2. d.at = "begin" /\ d.todo = c.todo /\ d.toWait = 0 /\ d.timeout = 0 /\ Same(c, d)
    BY <2>1 DEF BusyCalls, Same
  <2> HIDE DEF d
  <2>3. CallOK(d)
    BY <2>2, SameCallOK DEF Same
  <2> QED
    BY <1>2, <2>1, <2>2, <2>3 DEF d, CallStep, Moves
<1> QED
  BY <1>1, <1>2

(* The call takes the handle. *)
Begun(c) ==
  CASE handle = 0 -> [c EXCEPT !.at = "back", !.rc = "badarguments"]
    [] handle # 0 /\ conn = "expired" -> [c EXCEPT !.at = "back", !.rc = "invalidstate"]
    [] OTHER -> [c EXCEPT !.at = "sent", !.session = handle]
(* Taking the handle is one step of a call (Begins). *)
LEMMA BegunCall ==
  ASSUME NEW c \in BusyCalls, CallOK(c), c.at = "begin", handle \in Nat
  PROVE  Begun(c) \in BusyCalls /\ CallOK(Begun(c)) /\ Begins(c, Begun(c))
<1>1. /\ Begun(c) \in BusyCalls
      /\ Begun(c).todo = c.todo /\ Begun(c).toWait = c.toWait /\ Begun(c).timeout = c.timeout
      /\ Begins(c, Begun(c))
  <2>1. CASE handle = 0
    <3>1. Begun(c) = [c EXCEPT !.at = "back", !.rc = "badarguments"]
      BY <2>1 DEF Begun
    <3> QED
      BY <3>1 DEF BusyCalls, Begins, Codes
  <2>2. CASE handle # 0 /\ conn = "expired"
    <3>1. Begun(c) = [c EXCEPT !.at = "back", !.rc = "invalidstate"]
      BY <2>2 DEF Begun
    <3> QED
      BY <3>1 DEF BusyCalls, Begins, Codes
  <2>3. CASE handle # 0 /\ conn # "expired"
    <3>1. Begun(c) = [c EXCEPT !.at = "sent", !.session = handle]
      BY <2>3 DEF Begun
    <3> QED
      BY <2>3, <3>1 DEF BusyCalls, Begins
  <2> QED
    BY <2>1, <2>2, <2>3
<1>2. c.toWait <= c.timeout
  BY DEF CallOK
<1> QED
  BY <1>1, <1>2, SameCallOK DEF Begins

(* The answer comes back. *)
LEMMA AnsweredCall ==
  ASSUME TypeOK, NEW c \in BusyCalls, CallOK(c), c.at = "sent"
  PROVE  Answered(c) \in BusyCalls /\ CallOK(Answered(c)) /\ IsAnswered(c, Answered(c))
<1>1. Answer(c) \in Codes
  BY AnswerType DEF Answers, Codes
<1>2. Made(c) \in Nat
  BY DEF Made, BusyCalls
<1>3. ChildrenOf(TargetOf(c)) \subseteq Seq(Nat)
  BY DEF ChildrenOf, TypeOK
<1>4. /\ Answered(c) \in BusyCalls
      /\ Answered(c).phase = "child" => Answered(c).todo = c.todo
      /\ Answered(c).toWait = c.toWait /\ Answered(c).timeout = c.timeout
      /\ IsAnswered(c, Answered(c))
  BY <1>1, <1>2, <1>3 DEF Answered, BusyCalls, IsAnswered
<1>5. c.toWait <= c.timeout
  BY DEF CallOK
<1> QED
  BY <1>4, <1>5, SameCallOK DEF IsAnswered

(* The next request of a call. *)
LEMMA AgainCall ==
  ASSUME NEW c \in BusyCalls, CallOK(c), NEW phase \in PhasesOf(c), NEW todo \in SUBSET Seq(Nat),
         phase = "child" => todo # {}
  PROVE  LET d == Again(c, phase, todo)
         IN  /\ d \in BusyCalls /\ CallOK(d) /\ d.at = "verify" /\ d.rc = "none" /\ d.session = 0
             /\ d.args = c.args /\ d.made = c.made /\ d.lossy = c.lossy
<1> DEFINE d == Again(c, phase, todo)
<1>1. PhasesOf(c) \subseteq {"first", "ancestor", "list", "child", "final"}
  BY DEF PhasesOf
<1>2. Retries \in 0 .. 2 /\ "none" \in Codes
  BY ConstantTypes DEF Codes
<1>3. d \in BusyCalls
  BY <1>1, <1>2 DEF Again, BusyCalls
<1>4. /\ d.at = "verify" /\ d.rc = "none" /\ d.session = 0 /\ d.phase = phase /\ d.todo = todo
      /\ d.args = c.args /\ d.made = c.made /\ d.lossy = c.lossy
      /\ d.timeout = c.timeout /\ d.toWait = c.toWait
  BY DEF Again, BusyCalls
<1> HIDE DEF d
<1>5. CallOK(d)
  BY <1>4 DEF CallOK, PhasesOf
<1> QED
  BY <1>3, <1>4, <1>5 DEF d

(* RetryHandler: the same request again, with one retry less. *)
LEMMA RetriedCall ==
  ASSUME NEW c \in BusyCalls, CallOK(c), c.at = "back", handleRC(c)
  PROVE  LET d == [Again(c, c.phase, c.todo) EXCEPT !.retries = c.retries - 1]
         IN  d \in BusyCalls /\ CallOK(d) /\ GoesOn(c, d)
<1> DEFINE a == Again(c, c.phase, c.todo)
           d == [a EXCEPT !.retries = c.retries - 1]
<1>1. c.phase \in PhasesOf(c) /\ c.todo \in SUBSET Seq(Nat) /\ (c.phase = "child" => c.todo # {})
  BY DEF CallOK, BusyCalls
<1>2. /\ a \in BusyCalls /\ CallOK(a) /\ a.at = "verify" /\ a.rc = "none" /\ a.session = 0
      /\ a.args = c.args /\ a.made = c.made /\ a.lossy = c.lossy
  BY <1>1, AgainCall
<1>3. c.retries - 1 \in 0 .. 2 /\ ~DidIt(c)
  BY DEF handleRC, BusyCalls, DidIt
<1> HIDE DEF a
<1>4. d \in BusyCalls
  BY <1>2, <1>3 DEF BusyCalls
<1>5. /\ d.at = a.at /\ d.rc = a.rc /\ d.session = a.session /\ d.args = a.args /\ d.made = a.made
      /\ d.lossy = a.lossy /\ d.phase = a.phase /\ d.todo = a.todo
      /\ d.toWait = a.toWait /\ d.timeout = a.timeout
  BY <1>2 DEF BusyCalls
<1> HIDE DEF d
<1>6. CallOK(d)
  BY <1>2, <1>5 DEF CallOK, PhasesOf
<1> QED
  BY <1>2, <1>3, <1>4, <1>5, <1>6 DEF d, a, GoesOn

(* What is next for a call that is back and not retried: its next request or its result. *)
EndsOrGoesOn(c, d) ==
  /\ d \in Calls
  /\ \/ d.at = "idle" /\ Returns(c, d)
     \/ d \in BusyCalls /\ CallOK(d) /\ GoesOn(c, d)

(* createNode reports true exactly when its own request created the node. *)
LEMMA AfterCreate ==
  ASSUME NEW c \in BusyCalls, CallOK(c), c.at = "back",
         c.args.op \in {"createNode", "createSequence"}
  PROVE  EndsOrGoesOn(c, afterCreate(c))
<1>1. PhasesOf(c) = {"first", "ancestor", "final"} /\ c.phase \in {"first", "ancestor", "final"}
  BY DEF PhasesOf, CallOK
<1>2. \A phase \in {"ancestor", "final"} :
        LET d == Again(c, phase, {})
        IN  /\ d \in BusyCalls /\ CallOK(d)
            /\ ~DidIt(c) => GoesOn(c, d)
  BY <1>1, AgainCall DEF GoesOn
<1>3. CASE c.rc = "ok" /\ c.phase # "ancestor"
  <2>1. afterCreate(c) = Done("true")
    BY <1>3 DEF afterCreate
  <2>2. DidIt(c)
    BY <1>1, <1>3 DEF DidIt
  <2> QED
    BY <2>1, <2>2, DoneType DEF EndsOrGoesOn, Returns
<1>4. CASE c.rc = "nodeexists" /\ c.phase # "ancestor"
  <2>1. afterCreate(c) = Done("false")
    BY <1>4 DEF afterCreate
  <2>2. ~DidIt(c)
    BY <1>4 DEF DidIt
  <2> QED
    BY <2>1, <2>2, DoneType DEF EndsOrGoesOn, Returns
<1>5. CASE c.rc \in {"ok", "nodeexists"} /\ c.phase = "ancestor"
  <2>1. afterCreate(c) = Again(c, "final", {})
    BY <1>5 DEF afterCreate
  <2>2. ~DidIt(c)
    BY <1>5 DEF DidIt
  <2> QED
    BY <1>2, <2>1, <2>2 DEF EndsOrGoesOn, Calls
<1>6. CASE c.rc = "nonode" /\ c.phase = "first" /\ c.args.createAncestors
  <2>1. afterCreate(c) = Again(c, "ancestor", {})
    BY <1>6 DEF afterCreate
  <2>2. ~DidIt(c)
    BY <1>6 DEF DidIt
  <2> QED
    BY <1>2, <2>1, <2>2 DEF EndsOrGoesOn, Calls
<1>7. CASE /\ ~(c.rc = "ok" /\ c.phase # "ancestor")
           /\ ~(c.rc = "nodeexists" /\ c.phase # "ancestor")
           /\ ~(c.rc \in {"ok", "nodeexists"} /\ c.phase = "ancestor")
           /\ ~(c.rc = "nonode" /\ c.phase = "first" /\ c.args.createAncestors)
  <2>1. afterCreate(c) = Done("throw")
    BY <1>7 DEF afterCreate
  <2>2. ~DidIt(c)
    BY <1>7 DEF DidIt
  <2> QED
    BY <2>1, <2>2, DoneType DEF EndsOrGoesOn, Returns
<1> QED
  BY <1>3, <1>4, <1>5, <1>6, <1>7

(* deleteNode reports true exactly when its own request deleted the node. *)
LEMMA AfterDelete ==
  ASSUME NEW c \in BusyCalls, CallOK(c), c.at = "back", c.args.op = "deleteNode"
  PROVE  EndsOrGoesOn(c, afterDelete(c))
<1> DEFINE next(todo) == Again(c, IF todo = {} THEN "final" ELSE "child", todo)
<1>1. /\ PhasesOf(c) = {"first", "list", "child", "final"}
      /\ c.phase \in {"first", "list", "child", "final"} /\ c.todo \in SUBSET Seq(Nat)
  BY DEF PhasesOf, CallOK, BusyCalls
<1>2. ASSUME NEW todo \in SUBSET Seq(Nat), ~DidIt(c)
      PROVE  next(todo) \in BusyCalls /\ CallOK(next(todo)) /\ GoesOn(c, next(todo))
  <2> DEFINE phase == IF todo = {} THEN "final" ELSE "child"
  <2>1. phase \in PhasesOf(c) /\ (phase = "child" => todo # {})
    BY <1>1
  <2> HIDE DEF phase
  <2>2. LET d == Again(c, phase, todo)
        IN  /\ d \in BusyCalls /\ CallOK(d) /\ d.at = "verify" /\ d.rc = "none" /\ d.session = 0
            /\ d.args = c.args /\ d.made = c.made /\ d.lossy = c.lossy
    BY <2>1, AgainCall
  <2> QED
    BY <1>2, <2>2 DEF GoesOn, phase
<1>3. ASSUME ~DidIt(c)
      PROVE  LET d == Again(c, "list", {}) IN d \in BusyCalls /\ CallOK(d) /\ GoesOn(c, d)
  <2>1. "list" \in PhasesOf(c) /\ "list" # "child" /\ {} \in SUBSET Seq(Nat)
    BY <1>1
  <2>2. LET d == Again(c, "list", {})
        IN  /\ d \in BusyCalls /\ CallOK(d) /\ d.at = "verify" /\ d.rc = "none" /\ d.session = 0
            /\ d.args = c.args /\ d.made = c.made /\ d.lossy = c.lossy
    BY <2>1, AgainCall
  <2> QED
    BY <1>3, <2>2 DEF GoesOn
<1>4. CASE c.rc = "ok" /\ c.phase \in {"first", "final"}
  <2>1. afterDelete(c) = Done("true")
    BY <1>4 DEF afterDelete
  <2>2. DidIt(c)
    BY <1>4 DEF DidIt
  <2> QED
    BY <2>1, <2>2, DoneType DEF EndsOrGoesOn, Returns
<1>5. CASE c.rc = "nonode" /\ c.phase \in {"first", "final"}
  <2>1. afterDelete(c) = Done("false")
    BY <1>5 DEF afterDelete
  <2>2. ~DidIt(c)
    BY <1>5 DEF DidIt
  <2> QED
    BY <2>1, <2>2, DoneType DEF EndsOrGoesOn, Returns
<1>6. CASE c.rc = "notempty" /\ c.phase = "first" /\ c.args.recursive
  <2>1. afterDelete(c) = Again(c, "list", {})
    BY <1>6 DEF afterDelete
  <2>2. ~DidIt(c)
    BY <1>6 DEF DidIt
  <2> QED
    BY <1>3, <2>1, <2>2 DEF EndsOrGoesOn, Calls
<1>7. CASE c.rc = "ok" /\ c.phase = "list"
  <2>1. afterDelete(c) = next(c.todo)
    BY <1>7 DEF afterDelete
  <2>2. ~DidIt(c)
    BY <1>7 DEF DidIt
  <2> QED
    BY <1>1, <1>2, <2>1, <2>2 DEF EndsOrGoesOn, Calls
<1>8. CASE c.rc \in {"ok", "nonode"} /\ c.phase = "child"
  <2>1. afterDelete(c) = next(c.todo \ {TargetOf(c)})
    BY <1>8 DEF afterDelete
  <2>2. ~DidIt(c)
    BY <1>8 DEF DidIt
  <2>3. c.todo \ {TargetOf(c)} \in SUBSET Seq(Nat)
    BY <1>1
  <2> QED
    BY <1>2, <2>1, <2>2, <2>3 DEF EndsOrGoesOn, Calls
<1>9. CASE /\ ~(c.rc = "ok" /\ c.phase \in {"first", "final"})
           /\ ~(c.rc = "nonode" /\ c.phase \in {"first", "final"})
           /\ ~(c.rc = "notempty" /\ c.phase = "first" /\ c.args.recursive)
           /\ ~(c.rc = "ok" /\ c.phase = "list")
           /\ ~(c.rc \in {"ok", "nonode"} /\ c.phase = "child")
  <2>1. afterDelete(c) = Done("throw")
    BY <1>9 DEF afterDelete
  <2>2. ~DidIt(c)
    BY <1>9 DEF DidIt
  <2> QED
    BY <2>1, <2>2, DoneType DEF EndsOrGoesOn, Returns
<1> QED
  BY <1>4, <1>5, <1>6, <1>7, <1>8, <1>9

(* What Return makes of a call. *)
Returned(c) ==
  IF handleRC(c) THEN [Again(c, c.phase, c.todo) EXCEPT !.retries = c.retries - 1]
  ELSE CASE c.args.op \in {"createNode", "createSequence"} -> afterCreate(c)
         [] c.args.op = "deleteNode" -> afterDelete(c)
         [] c.args.op = "nodeExists" -> afterExists(c)
         [] c.args.op = "getNodeChildren" -> afterChildren(c)
         [] c.args.op = "getNodeData" -> afterData(c)
         [] c.args.op = "setNodeData" -> afterSet(c)
(* What Return makes of a call: its next request or its result. *)
LEMMA ReturnedCall ==
  ASSUME NEW c \in BusyCalls, CallOK(c), c.at = "back"
  PROVE  EndsOrGoesOn(c, Returned(c))
<1>1. CASE handleRC(c)
  <2>1. Returned(c) = [Again(c, c.phase, c.todo) EXCEPT !.retries = c.retries - 1]
    BY <1>1 DEF Returned
  <2> QED
    BY <1>1, <2>1, RetriedCall DEF EndsOrGoesOn, Calls
<1>2. CASE ~handleRC(c)
  <2>1. c.args.op \in Writes \cup {"nodeExists", "getNodeChildren", "getNodeData"}
    BY OpKinds DEF BusyCalls
  <2>2. CASE c.args.op \in {"createNode", "createSequence"}
    <3>1. Returned(c) = afterCreate(c)
      BY <1>2, <2>2 DEF Returned
    <3> QED
      BY <2>2, <3>1, AfterCreate
  <2>3. CASE c.args.op = "deleteNode"
    <3>1. Returned(c) = afterDelete(c)
      BY <1>2, <2>3 DEF Returned
    <3> QED
      BY <2>3, <3>1, AfterDelete
  <2>4. CASE c.args.op \in {"nodeExists", "getNodeChildren", "getNodeData", "setNodeData"}
    <3>1. Returned(c) \in {Done("true"), Done("false"), Done("done"), Done("throw")}
      BY <1>2, <2>4 DEF Returned, afterExists, afterChildren, afterData, afterSet, OkOrThrow
    <3>2. c.args.op \notin Writes \ {"setNodeData"}
      BY <2>4 DEF Writes
    <3> QED
      BY <3>1, <3>2, DoneType DEF EndsOrGoesOn, Returns
  <2> QED
    BY <2>1, <2>2, <2>3, <2>4 DEF Writes
<1> QED
  BY <1>1, <1>2

-----------------------------------------------------------------------------
(* Every step of the system takes each call one step on, and wakes only callers
   that wait. *)

(* The caller itself takes the handle and goes on when its request is back; what
   happens to a request that is out is up to the library. *)
Acts(u, v) ==
  /\ call[u].at = "begin" => v = call[u] \/ Begin(u)
  /\ call[u].at = "back" => v = call[u] \/ Return(u)
  /\ call[u].at = "sent" => v = call[u] \/ Loses(call[u], v) \/ Serve(u)
GoodFor(u, v) ==
  v \in Calls /\ (v.at # "idle" => CallOK(v)) /\ CallStep(call[u], v) /\ Acts(u, v)
GoodCalls(f) == f \in [Threads -> Calls] /\ \A u \in Threads : GoodFor(u, f[u])
CallsStep ==
  /\ GoodCalls(call')
  /\ signalled' \subseteq {u \in Threads : call'[u].at = "wait"}

(* Calls that stand still are good. *)
LEMMA CallsStand ==
  ASSUME TypeInv
  PROVE  GoodCalls(call)
BY DEF TypeInv, TypeOK, CallsOK, Busy, GoodCalls, GoodFor, CallStep, Acts

(* Ended takes each call a step on: its answer is lost, or it stands still. *)
LEMMA EndedStep ==
  ASSUME TypeInv, NEW rc \in {"connectionloss", "expired", "closing"}
  PROVE  /\ GoodCalls(Ended(rc))
         /\ \A u \in Threads : call[u].at # "sent" => Ended(rc)[u] = call[u]
<1>1. rc \in Codes /\ call \in [Threads -> Calls]
  BY DEF Codes, TypeInv, TypeOK
<1>2. \A u \in Threads : call[u].at = "sent" =>
              /\ call[u] \in BusyCalls /\ Ended(rc)[u] \in BusyCalls
              /\ Ended(rc)[u].at = "back" /\ Ended(rc)[u].rc = rc /\ Ended(rc)[u].lossy = TRUE
              /\ Ended(rc)[u].args = call[u].args /\ Ended(rc)[u].phase = call[u].phase
              /\ Ended(rc)[u].todo = call[u].todo /\ Ended(rc)[u].made = call[u].made
              /\ Ended(rc)[u].session = call[u].session
              /\ Ended(rc)[u].timeout = call[u].timeout /\ Ended(rc)[u].toWait = call[u].toWait
  BY <1>1, EndedCalls, Zenon
<1>3. ASSUME NEW u \in Threads PROVE GoodFor(u, Ended(rc)[u])
  <2>1. CASE call[u].at # "sent"
    BY <1>1, <2>1, EndedCalls, CallsStand DEF GoodCalls
  <2>2. CASE call[u].at = "sent"
    <3> DEFINE d == Ended(rc)[u]
    <3>1. /\ d \in BusyCalls /\ d.at = "back" /\ d.rc = rc /\ d.lossy = TRUE
          /\ d.args = call[u].args /\ d.phase = call[u].phase /\ d.todo = call[u].todo
          /\ d.session = call[u].session
          /\ d.timeout = call[u].timeout /\ d.toWait = call[u].toWait
      BY <2>2, <1>2
    <3> HIDE DEF d
    <3>2. CallOK(call[u])
      BY <2>2 DEF TypeInv, CallsOK, Busy
    <3>3. CallOK(d)
      BY <3>1, <3>2 DEF CallOK, PhasesOf
    <3>4. Loses(call[u], d)
      BY <2>2, <3>1 DEF Loses
    <3> QED
      BY <2>2, <3>1, <3>3, <3>4 DEF GoodFor, CallStep, Acts, Calls, d
  <2> QED
    BY <2>1, <2>2
<1> QED
  BY <1>1, <1>3, EndedCalls DEF GoodCalls

(* One call is set, on top of calls that are good. *)
LEMMA OneCallSet ==
  ASSUME NEW f, GoodCalls(f), NEW t \in Threads, NEW v, GoodFor(t, v),
         NEW g, g = [f EXCEPT ![t] = v]
  PROVE  GoodCalls(g) /\ g[t] = v /\ \A u \in Threads : u # t => g[u] = f[u]
<1>1. f \in [Threads -> Calls] /\ v \in Calls
  BY DEF GoodCalls, GoodFor
<1>2. g \in [Threads -> Calls] /\ g[t] = v /\ \A u \in Threads : u # t => g[u] = f[u]
  BY <1>1
<1>3. \A u \in Threads : GoodFor(u, g[u])
  BY <1>2 DEF GoodCalls
<1> QED
  BY <1>2, <1>3 DEF GoodCalls

(* A call that is idle, verifies or waits may end. *)
LEMMA DoneGood ==
  ASSUME NEW t \in Threads, call[t].at \in {"idle", "verify", "wait"},
         NEW r \in {"none", "true", "false", "done", "throw"}
  PROVE  GoodFor(t, Done(r))
BY DoneType DEF GoodFor, CallStep, Acts

(* A call that is busy after the step. *)
LEMMA BusyGood ==
  ASSUME NEW t \in Threads, NEW d \in BusyCalls, CallOK(d), CallStep(call[t], d),
         call[t].at \in {"idle", "verify", "wait"} \/ Acts(t, d)
  PROVE  GoodFor(t, d)
BY DEF GoodFor, Acts, Calls

(* disconnect() by the user. *)
LEMMA DisconnectCalls ==
  ASSUME TypeInv, NEW t \in Threads, Disconnect(t)
  PROVE  CallsStep
<1>1. call' = Ended("closing") /\ \E n : signalled' \in notify(t, n)
  BY DEF Disconnect, disconnect, setState
<1>2. GoodCalls(call') /\ \A u \in Threads : call[u].at # "sent" => call'[u] = call[u]
  BY <1>1, EndedStep
<1>3. \A u \in signalled' : u \in Threads /\ call[u].at = "wait"
  BY <1>1, NotifyType DEF TypeInv, TypeOK
<1> QED
  BY <1>2, <1>3 DEF CallsStep

(* A step that calls reconnect() and sets the call of the caller. *)
LEMMA ReconnectCalls ==
  ASSUME TypeInv, NEW t \in Threads, NEW ok \in BOOLEAN, reconnect(t, ok), call[t].at # "sent",
         NEW v, GoodFor(t, v), call' = [Ended("closing") EXCEPT ![t] = v]
  PROVE  CallsStep
<1>1. /\ GoodCalls(Ended("closing"))
      /\ \A u \in Threads : call[u].at # "sent" => Ended("closing")[u] = call[u]
  BY EndedStep
<1>2. GoodCalls(call') /\ \A u \in Threads : u # t => call'[u] = Ended("closing")[u]
  BY <1>1, OneCallSet
<1>3. \A u \in signalled' : u # t /\ u \in Threads /\ call[u].at = "wait"
  BY ReconnectType DEF TypeInv
<1> QED
  BY <1>1, <1>2, <1>3 DEF CallsStep

(* A caller's own step, when nobody is woken. *)
LEMMA OwnStep ==
  ASSUME TypeInv, NEW t \in Threads, NEW v, GoodFor(t, v), call' = [call EXCEPT ![t] = v],
         signalled' = signalled \ {t} \/ (signalled' = signalled /\ call[t].at # "wait")
  PROVE  CallsStep /\ call'[t] = v /\ \A u \in Threads : u # t => call'[u] = call[u]
<1>1. GoodCalls(call') /\ call'[t] = v /\ \A u \in Threads : u # t => call'[u] = call[u]
  <2>1. GoodCalls(call)
    BY CallsStand
  <2>2. call \in [Threads -> Calls] /\ v \in Calls
    BY <2>1 DEF GoodCalls, GoodFor
  <2>3. call' \in [Threads -> Calls] /\ call'[t] = v /\ \A u \in Threads : u # t => call'[u] = call[u]
    BY <2>2
  <2>4. \A u \in Threads : GoodFor(u, call'[u])
    BY <2>1, <2>3 DEF GoodCalls
  <2> QED
    BY <2>3, <2>4 DEF GoodCalls
<1>2. \A u \in signalled : u \in Threads /\ call[u].at = "wait"
  BY DEF TypeInv, TypeOK
<1> QED
  BY <1>1, <1>2 DEF CallsStep

(* reconnect() by the user, and verifyConnection. *)
LEMMA VerifyCalls ==
  ASSUME TypeInv, NEW t \in Threads
  PROVE  /\ Reconnect(t) => CallsStep
         /\ verifyConnection(t) => CallsStep
         /\ verifyExpired(t) => CallsStep
<1>1. ASSUME Reconnect(t) PROVE CallsStep
  <2>1. PICK ok \in BOOLEAN : reconnect(t, ok) /\
             call' = [Ended("closing") EXCEPT ![t] = Done(IF ok THEN "done" ELSE "throw")]
    BY <1>1 DEF Reconnect
  <2>2. call[t].at = "idle"
    BY <1>1 DEF Reconnect, Idle
  <2>3. GoodFor(t, Done(IF ok THEN "done" ELSE "throw"))
    BY <2>2, DoneGood
  <2> QED
    BY <2>1, <2>2, <2>3, ReconnectCalls
<1>2. ASSUME verifyConnection(t) PROVE CallsStep
  <2> DEFINE v == IF state = "CONNECTED" THEN [call[t] EXCEPT !.at = "begin"]
                  ELSE IF state = "CONNECTING" /\ remaining > 0
                       THEN [call[t] EXCEPT !.at = "wait", !.timeout = remaining, !.toWait = remaining]
                       ELSE Done("throw")
  <2>1. call[t].at = "verify" /\ call' = [call EXCEPT ![t] = v] /\ signalled' = signalled
    BY <1>2 DEF verifyConnection
  <2>2. call[t] \in BusyCalls /\ CallOK(call[t])
    BY <2>1, CallKinds DEF TypeInv, TypeOK, CallsOK, Busy
  <2>3. GoodFor(t, v)
    <3>1. CASE state = "CONNECTED"
      BY <2>1, <2>2, <3>1, WaitedCall, BusyGood
    <3>2. CASE state # "CONNECTED" /\ state = "CONNECTING" /\ remaining > 0
      <4>1. remaining \in Nat
        BY <3>2 DEF TypeInv, TypeOK
      <4> QED
        BY <2>1, <2>2, <3>2, <4>1, WaitingCall, BusyGood
    <3>3. CASE state # "CONNECTED" /\ ~(state = "CONNECTING" /\ remaining > 0)
      BY <2>1, <3>3, DoneGood
    <3> QED
      BY <3>1, <3>2, <3>3
  <2> HIDE DEF v
  <2> QED
    BY <2>1, <2>3, OwnStep
<1>3. ASSUME verifyExpired(t) PROVE CallsStep
  <2>1. call[t].at = "verify"
    BY <1>3 DEF verifyExpired
  <2>2. /\ call[t] \in BusyCalls /\ CallOK(call[t])
        /\ Ended("closing")[t] = call[t]
    BY <2>1, CallKinds, EndedStep DEF TypeInv, TypeOK, CallsOK, Busy
  <2> DEFINE v(ok) ==
               IF ok THEN [call[t] EXCEPT !.at = "wait", !.timeout = ConnectTimeout, !.toWait = ConnectTimeout]
               ELSE Done("throw")
  <2>3. PICK ok \in BOOLEAN : reconnect(t, ok) /\
             call' = [Ended("closing") EXCEPT ![t] =
                        IF ok THEN [@ EXCEPT !.at = "wait", !.timeout = ConnectTimeout, !.toWait = ConnectTimeout]
                        ELSE Done("throw")]
    BY <1>3 DEF verifyExpired
  <2>4. call' = [Ended("closing") EXCEPT ![t] = v(ok)]
    BY <2>2, <2>3
  <2>5. GoodFor(t, v(ok))
    BY <2>1, <2>2, WaitingCall, BusyGood, DoneGood, ConstantTypes
  <2> HIDE DEF v
  <2> QED
    BY <2>1, <2>3, <2>4, <2>5, ReconnectCalls
<1> QED
  BY <1>1, <1>2, <1>3

(* waitUntilConnected. *)
LEMMA WaitCalls ==
  ASSUME TypeInv, NEW t \in Threads
  PROVE  /\ waitUntilConnected(t) => CallsStep
         /\ waitAgain(t) => CallsStep
<1>0. call[t].at = "wait" => call[t] \in BusyCalls /\ CallOK(call[t]) /\ Ended("closing")[t] = call[t]
  BY CallKinds, EndedStep DEF TypeInv, TypeOK, CallsOK, Busy
<1>1. ASSUME waitUntilConnected(t) PROVE CallsStep
  <2> DEFINE v == IF state = "CONNECTED" THEN [call[t] EXCEPT !.at = "begin", !.timeout = 0, !.toWait = 0]
                  ELSE Done("throw")
  <2>1. call[t].at = "wait" /\ call' = [call EXCEPT ![t] = v] /\ signalled' = signalled \ {t}
    BY <1>1 DEF waitUntilConnected
  <2>2. GoodFor(t, v)
    BY <1>0, <2>1, WaitedCall, BusyGood, DoneGood
  <2> HIDE DEF v
  <2> QED
    BY <2>1, <2>2, OwnStep
<1>2. ASSUME waitAgain(t) PROVE CallsStep
  <2>1. call[t].at = "wait"
    BY <1>2 DEF waitAgain
  <2>2. PICK left \in 1 .. call[t].toWait :
          \/ \E ok \in BOOLEAN :
               /\ reconnect(t, ok)
               /\ call' = [Ended("closing") EXCEPT ![t] =
                             IF ok THEN [@ EXCEPT !.toWait = left] ELSE Done("throw")]
          \/ signalled' = signalled \ {t} /\ call' = [call EXCEPT ![t].toWait = left]
    BY <1>2 DEF waitAgain
  <2> DEFINE w == [call[t] EXCEPT !.toWait = left]
  <2>3. GoodFor(t, w) /\ GoodFor(t, Done("throw"))
    BY <1>0, <2>1, WaitsAgain, BusyGood, DoneGood
  <2>4. CASE signalled' = signalled \ {t} /\ call' = [call EXCEPT ![t].toWait = left]
    <3>1. call' = [call EXCEPT ![t] = w]
      BY <2>4
    <3> HIDE DEF w
    <3> QED
      BY <2>3, <2>4, <3>1, OwnStep
  <2>5. ASSUME NEW ok \in BOOLEAN, reconnect(t, ok),
               call' = [Ended("closing") EXCEPT ![t] =
                          IF ok THEN [@ EXCEPT !.toWait = left] ELSE Done("throw")]
        PROVE  CallsStep
    <3> DEFINE v == IF ok THEN w ELSE Done("throw")
    <3>1. call' = [Ended("closing") EXCEPT ![t] = v]
      BY <1>0, <2>1, <2>5
    <3>2. GoodFor(t, v)
      BY <2>3
    <3> HIDE DEF v
    <3> QED
      BY <2>1, <2>5, <3>1, <3>2, ReconnectCalls
  <2> QED
    BY <2>2, <2>4, <2>5
<1> QED
  BY <1>1, <1>2

(* A call starts, takes the handle, is answered or given up, and comes back. *)
LEMMA RequestCalls ==
  ASSUME TypeInv, NEW t \in Threads
  PROVE  /\ \A args \in Inputs[t] : Call(t, args) => CallsStep
         /\ Begin(t) => CallsStep
         /\ Serve(t) => CallsStep
         /\ GiveUp(t) => CallsStep
         /\ Return(t) => CallsStep
<1>0. /\ call[t].at # "idle" => call[t] \in BusyCalls /\ CallOK(call[t])
      /\ handle \in Nat /\ TypeOK
  BY CallKinds DEF TypeInv, TypeOK, CallsOK, Busy
<1>1. ASSUME NEW args \in Inputs[t], Call(t, args) PROVE CallsStep
  <2> DEFINE v == [at |-> "verify", args |-> args, phase |-> "first", todo |-> {}, retries |-> Retries,
                   timeout |-> 0, toWait |-> 0, session |-> 0, rc |-> "none", made |-> 0, lossy |-> FALSE]
  <2>1. call[t].at = "idle" /\ call' = [call EXCEPT ![t] = v] /\ signalled' = signalled
    BY <1>1 DEF Call, Idle
  <2>2. args \in Ops /\ Retries \in 0 .. 2 /\ "none" \in Codes
    BY InputsAssumption, ConstantTypes DEF Codes
  <2>3. v \in BusyCalls /\ CallOK(v) /\ Starts(call[t], v)
    BY <2>1, <2>2 DEF BusyCalls, CallOK, PhasesOf, Starts
  <2> HIDE DEF v
  <2>4. GoodFor(t, v)
    BY <2>1, <2>3, BusyGood DEF CallStep
  <2> QED
    BY <2>1, <2>4, OwnStep
<1>2. ASSUME Begin(t) PROVE CallsStep
  <2>1. call[t].at = "begin" /\ call' = [call EXCEPT ![t] = Begun(call[t])] /\ signalled' = signalled
    BY <1>2 DEF Begin, Begun
  <2>2. GoodFor(t, Begun(call[t]))
    BY <1>0, <1>2, <2>1, BegunCall, BusyGood DEF CallStep, Acts
  <2> QED
    BY <2>1, <2>2, OwnStep
<1>3. ASSUME Serve(t) PROVE CallsStep
  <2>1. call[t].at = "sent" /\ call' = [call EXCEPT ![t] = Answered(call[t])] /\ signalled' = signalled
    BY <1>3 DEF Serve
  <2>2. GoodFor(t, Answered(call[t]))
    BY <1>0, <1>3, <2>1, AnsweredCall, BusyGood DEF CallStep, Acts
  <2> QED
    BY <2>1, <2>2, OwnStep
<1>4. ASSUME GiveUp(t) PROVE CallsStep
  <2> DEFINE v == [call[t] EXCEPT !.at = "back", !.rc = "connectionloss", !.lossy = TRUE]
  <2>1. /\ call[t].at = "sent" /\ signalled' = signalled
        /\ call' = [call EXCEPT ![t].at = "back", ![t].rc = "connectionloss", ![t].lossy = TRUE]
    BY <1>4 DEF GiveUp
  <2>2. call' = [call EXCEPT ![t] = v]
    <3>1. call \in [Threads -> Calls]
      BY <1>0 DEF TypeOK
    <3> QED
      BY <2>1, <3>1
  <2>3. "connectionloss" \in Codes
    BY DEF Codes
  <2>4. /\ v \in BusyCalls /\ v.at = "back" /\ v.rc = "connectionloss" /\ v.lossy = TRUE
        /\ v.args = call[t].args /\ v.phase = call[t].phase /\ v.todo = call[t].todo
        /\ v.session = call[t].session /\ v.timeout = call[t].timeout /\ v.toWait = call[t].toWait
    BY <1>0, <2>1, <2>3, BackType
  <2> HIDE DEF v
  <2>5. CallOK(v) /\ Loses(call[t], v)
    BY <1>0, <2>1, <2>4 DEF CallOK, PhasesOf, Loses
  <2>6. GoodFor(t, v)
    BY <2>1, <2>4, <2>5, BusyGood DEF CallStep, Acts
  <2> QED
    BY <2>1, <2>2, <2>6, OwnStep
<1>5. ASSUME Return(t) PROVE CallsStep
  <2>1. call[t].at = "back" /\ call' = [call EXCEPT ![t] = Returned(call[t])] /\ signalled' = signalled
    BY <1>5 DEF Return, Returned
  <2>2. EndsOrGoesOn(call[t], Returned(call[t]))
    BY <1>0, <2>1, ReturnedCall
  <2>3. GoodFor(t, Returned(call[t]))
    BY <1>5, <2>1, <2>2, BusyGood DEF CallStep, EndsOrGoesOn, GoodFor, Acts
  <2> QED
    BY <2>1, <2>3, OwnStep
<1> QED
  BY <1>1, <1>2, <1>3, <1>4, <1>5

(* The library and the server. *)
LEMMA LibraryCalls ==
  ASSUME TypeInv
  PROVE  /\ \A t \in Threads : LoseAnswer(t) => CallsStep
         /\ Connected \/ Drop \/ Expire => CallsStep
<1>0. call \in [Threads -> Calls] /\ \A u \in signalled : u \in Threads /\ call[u].at = "wait"
  BY DEF TypeInv, TypeOK
<1>1. ASSUME NEW t \in Threads, LoseAnswer(t) PROVE CallsStep
  <2> DEFINE f == Ended("connectionloss")
             v == [f[t] EXCEPT !.made = Made(call[t])]
  <2>1. /\ call[t].at = "sent" /\ signalled' = signalled
        /\ call' = [f EXCEPT ![t].made = Made(call[t])]
    BY <1>1 DEF LoseAnswer
  <2>2. GoodCalls(f) /\ \A u \in Threads : call[u].at # "sent" => f[u] = call[u]
    BY EndedStep
  <2>3. /\ call[t] \in BusyCalls /\ f[t] \in BusyCalls
        /\ f[t].at = "back" /\ f[t].rc = "connectionloss" /\ f[t].lossy = TRUE
        /\ f[t].args = call[t].args /\ f[t].phase = call[t].phase /\ f[t].todo = call[t].todo
        /\ f[t].session = call[t].session
        /\ f[t].timeout = call[t].timeout /\ f[t].toWait = call[t].toWait
    <3>1. "connectionloss" \in Codes
      BY DEF Codes
    <3>2. \A u \in Threads : call[u].at = "sent" =>
            /\ call[u] \in BusyCalls /\ f[u] \in BusyCalls
            /\ f[u].at = "back" /\ f[u].rc = "connectionloss" /\ f[u].lossy = TRUE
            /\ f[u].args = call[u].args /\ f[u].phase = call[u].phase
            /\ f[u].todo = call[u].todo /\ f[u].made = call[u].made
            /\ f[u].session = call[u].session
            /\ f[u].timeout = call[u].timeout /\ f[u].toWait = call[u].toWait
      BY <1>0, <3>1, EndedCalls, Zenon
    <3> QED
      BY <2>1, <3>2
  <2>4. Made(call[t]) \in Nat
    BY <2>3 DEF Made, BusyCalls
  <2> HIDE DEF f
  <2>5. call' = [f EXCEPT ![t] = v]
    BY <2>1
  <2>6. v \in BusyCalls
    BY <2>3, <2>4 DEF BusyCalls
  <2>7. /\ v.at = f[t].at /\ v.rc = f[t].rc /\ v.lossy = f[t].lossy /\ v.args = f[t].args
        /\ v.phase = f[t].phase /\ v.todo = f[t].todo /\ v.session = f[t].session
        /\ v.timeout = f[t].timeout /\ v.toWait = f[t].toWait
    BY <2>3 DEF BusyCalls
  <2> HIDE DEF v
  <2>8. CallOK(call[t])
    BY <2>1 DEF TypeInv, CallsOK, Busy
  <2>9. CallOK(v) /\ Loses(call[t], v)
    BY <2>1, <2>3, <2>7, <2>8 DEF CallOK, PhasesOf, Loses
  <2>10. GoodFor(t, v)
    BY <2>1, <2>6, <2>9, BusyGood DEF CallStep, Acts
  <2>11. GoodCalls(call') /\ \A u \in Threads : u # t => call'[u] = f[u]
    <3>1. f \in [Threads -> Calls] /\ v \in Calls
      BY <2>2, <2>10 DEF GoodCalls, GoodFor
    <3>2. call' \in [Threads -> Calls] /\ call'[t] = v /\ \A u \in Threads : u # t => call'[u] = f[u]
      BY <2>5, <3>1
    <3>3. \A u \in Threads : GoodFor(u, call'[u])
      BY <2>2, <2>10, <3>2 DEF GoodCalls
    <3> QED
      BY <3>2, <3>3 DEF GoodCalls
  <2> QED
    BY <1>0, <2>1, <2>2, <2>11 DEF CallsStep
<1>2. ASSUME Connected PROVE CallsStep
  <2>1. call' = call /\ signalled' = signalled
    BY <1>2 DEF Connected, SessionEvent
  <2> QED
    BY <1>0, <2>1, CallsStand DEF CallsStep
<1>3. ASSUME Drop \/ Expire PROVE CallsStep
  <2>1. signalled' = signalled /\ (call' = Ended("connectionloss") \/ call' = Ended("expired"))
    BY <1>3 DEF Drop, Expire, SessionEvent
  <2>2. GoodCalls(call') /\ \A u \in Threads : call[u].at # "sent" => call'[u] = call[u]
    BY <2>1, EndedStep
  <2> QED
    BY <1>0, <2>1, <2>2 DEF CallsStep
<1> QED
  BY <1>1, <1>2, <1>3

(* The dispatchers and the destructor leave the calls alone. *)
LEMMA OtherCalls ==
  ASSUME TypeInv,
         \/ processEvents \/ processUserEvents \/ Destroy \/ UNCHANGED vars
         \/ \E d \in {"processEvents", "processUserEvents"} : TakeTimesOut(d)
  PROVE  CallsStep /\ call' = call
<1>1. call' = call
  BY DEF processEvents, processUserEvents, Destroy, TakeTimesOut, vars
<1>2. signalled' = signalled \/ \E n : signalled' \in notify(NULL, n)
  BY DEF processEvents, processUserEvents, Destroy, TakeTimesOut, vars, setState, disconnect
<1>3. \A u \in signalled : u \in Threads /\ call[u].at = "wait"
  BY DEF TypeInv, TypeOK
<1>4. \A u \in signalled' : u \in Threads /\ call[u].at = "wait"
  BY <1>2, <1>3, NotifyType
<1> QED
  BY <1>1, <1>4, CallsStand DEF CallsStep

(* Every step is one of these. *)
LEMMA NextCalls ==
  ASSUME TypeInv, [Next]_vars
  PROVE  CallsStep
BY DisconnectCalls, VerifyCalls, WaitCalls, RequestCalls, LibraryCalls, OtherCalls DEF Next

-----------------------------------------------------------------------------
(* The rest of the types. *)

(* The context a call registers. *)
NewContext(c, t) ==
  [method |-> MethodOf(RequestOf(c)), path |-> TargetOf(c), listener |-> c.args.listener,
   by |-> t, session |-> c.session]
(* registerContext adds that context, a well-typed one, and nothing else. *)
LEMMA RegisterType ==
  ASSUME TypeInv, NEW t \in Threads, call[t].at = "back", WithContext(call[t])
  PROVE  /\ NewContext(call[t], t) \in Contexts
         /\ NewContext(call[t], t).method = MethodOf(call[t].args.op)
         /\ NewContext(call[t], t).path = call[t].args.path
         /\ NewContext(call[t], t).session = call[t].session
         /\ NewContext(call[t], t).listener = call[t].args.listener
         /\ registerContext(call[t], t) \subseteq contexts \cup {NewContext(call[t], t)}
         /\ registerContext(call[t], t) \subseteq Contexts
<1> DEFINE c == call[t]
<1>1. c \in BusyCalls /\ CallOK(c) /\ contexts \subseteq Contexts
  BY CallKinds DEF TypeInv, TypeOK, CallsOK, Busy
<1>2. c.phase = "first" /\ RequestOf(c) \notin Writes /\ c.args.context
  BY DEF WithContext
<1> HIDE DEF c
<1>3. RequestOf(c) = c.args.op /\ TargetOf(c) = c.args.path
  BY <1>1, <1>2, RequestType
<1>4. c.args \in Ops /\ c.session \in Nat
  BY <1>1 DEF BusyCalls
<1>5. /\ c.args.listener \in Listeners \cup {NULL} /\ c.args.path \in Paths
      /\ c.args.op \in {"nodeExists", "getNodeChildren", "getNodeData"}
  BY <1>2, <1>3, <1>4, OpKinds
<1>6. MethodOf(c.args.op) \in WatchableMethod
  BY <1>5 DEF MethodOf, WatchableMethod
<1>7. NewContext(c, t) \in Contexts
  BY <1>3, <1>4, <1>5, <1>6 DEF NewContext, Contexts
<1>8. registerContext(c, t) \subseteq contexts \cup {NewContext(c, t)}
  BY DEF registerContext, NewContext
<1>9. /\ NewContext(c, t).method = MethodOf(c.args.op) /\ NewContext(c, t).path = c.args.path
      /\ NewContext(c, t).session = c.session /\ NewContext(c, t).listener = c.args.listener
  BY <1>3 DEF NewContext
<1> QED
  BY <1>1, <1>7, <1>8, <1>9 DEF c

(* The types and the phases are inductive: one step per action. *)
LEMMA NextTypeInv ==
  ASSUME TypeInv, [Next]_vars
  PROVE  TypeInv'
<1> DEFINE Lib == /\ handle' \in Nat /\ sessions' \in Nat
                  /\ conn' \in {"none", "connecting", "connected", "reconnecting", "expired"}
                  /\ watches' \subseteq WatchableMethod \X Paths
                  /\ state' \in AdapterState
                  /\ remaining' \in Int /\ remaining' <= ConnectTimeout
           Tree == /\ sequence' \in Nat
                   /\ DOMAIN tree' \subseteq Seq(Nat) /\ tree' \in [DOMAIN tree' -> Nat]
           Queues == /\ events' \in Seq(SessionEvents \cup WatchEvents)
                     /\ userEvents' \in Seq(WatchEvents)
                     /\ dispatching' \subseteq {"processEvents", "processUserEvents"}
                     /\ terminating' \in BOOLEAN
           Ctx == /\ contexts' \subseteq Contexts
                  /\ mutex' \in Threads \cup {NULL}
                  /\ fired' \subseteq Firings
           Bound == /\ drops' \in Nat /\ expiries' \in Nat
                    /\ calls' \in [Threads -> 0 .. MaxCalls]
<1>1. CallsStep
  BY NextCalls
<1>2. /\ call' \in [Threads -> Calls]
      /\ signalled' \subseteq {u \in Threads : call'[u].at = "wait"}
      /\ CallsOK'
  BY <1>1 DEF CallsStep, GoodCalls, GoodFor, CallsOK, Busy
<1> DEFINE Rest == Lib /\ Tree /\ Queues /\ Ctx /\ Bound
<1>3. /\ {handle, sessions, sequence, drops, expiries} \subseteq Nat
      /\ calls \in [Threads -> 0 .. MaxCalls] /\ MaxCalls \in Nat
      /\ conn \in {"none", "connecting", "connected", "reconnecting", "expired"}
      /\ DOMAIN tree \subseteq Seq(Nat) /\ tree \in [DOMAIN tree -> Nat]
      /\ watches \subseteq WatchableMethod \X Paths
      /\ state \in AdapterState
      /\ remaining \in Int /\ remaining <= ConnectTimeout /\ ConnectTimeout \in Nat
      /\ events \in Seq(SessionEvents \cup WatchEvents)
      /\ userEvents \in Seq(WatchEvents)
      /\ contexts \subseteq Contexts
      /\ mutex \in Threads \cup {NULL}
      /\ fired \subseteq Firings
      /\ terminating \in BOOLEAN
      /\ dispatching \subseteq {"processEvents", "processUserEvents"}
  BY ConstantTypes DEF TypeInv, TypeOK
<1>4. ASSUME NEW t \in Threads PROVE calls[t] < MaxCalls =>
        [calls EXCEPT ![t] = @ + 1] \in [Threads -> 0 .. MaxCalls]
  BY <1>3
<1>5. ASSUME NEW t \in Threads, Disconnect(t) PROVE Rest
  BY <1>3, <1>4, <1>5 DEF Disconnect, disconnect, setState, AdapterState
<1>6. ASSUME NEW t \in Threads, Reconnect(t) PROVE Rest
  <2>1. PICK ok \in BOOLEAN : reconnect(t, ok)
    BY <1>6 DEF Reconnect
  <2>2. Lib
    BY <2>1, ReconnectType DEF TypeInv
  <2> HIDE DEF Lib
  <2> QED
    BY <1>3, <1>4, <1>6, <2>2 DEF Reconnect
<1>7. ASSUME NEW t \in Threads, NEW args \in Inputs[t], Call(t, args) PROVE Rest
  BY <1>3, <1>4, <1>7 DEF Call, library
<1>8. ASSUME NEW t \in Threads, verifyConnection(t) PROVE Rest
  BY <1>3, <1>8 DEF verifyConnection, library, bounds
<1>9. ASSUME NEW t \in Threads, verifyExpired(t) PROVE Rest
  <2>1. PICK ok \in BOOLEAN : reconnect(t, ok)
    BY <1>9 DEF verifyExpired
  <2>2. Lib
    BY <2>1, ReconnectType DEF TypeInv
  <2> HIDE DEF Lib
  <2> QED
    BY <1>3, <1>9, <2>2 DEF verifyExpired, bounds
<1>10. ASSUME NEW t \in Threads, waitUntilConnected(t) PROVE Rest
  <2>1. PICK left \in 0 .. call[t].toWait : remaining' = remaining - (call[t].timeout - left)
    BY <1>10 DEF waitUntilConnected
  <2>2. call[t] \in BusyCalls /\ CallOK(call[t])
    BY <1>10, CallKinds DEF waitUntilConnected, TypeInv, TypeOK, CallsOK, Busy
  <2>3. call[t].toWait \in Nat /\ call[t].timeout \in Int /\ call[t].toWait <= call[t].timeout
    BY <2>2 DEF BusyCalls, CallOK
  <2>4. remaining' \in Int /\ remaining' <= ConnectTimeout
    <3>1. \A k, m, r \in Int : \A l \in 0 .. k :
            k <= m /\ r <= ConnectTimeout => r - (m - l) \in Int /\ r - (m - l) <= ConnectTimeout
      BY <1>3
    <3>2. call[t].toWait \in Int /\ remaining \in Int /\ remaining <= ConnectTimeout
      BY <1>3, <2>3
    <3> QED
      BY <2>1, <2>3, <3>1, <3>2
  <2> QED
    BY <1>3, <1>10, <2>4 DEF waitUntilConnected, library, bounds
<1>11. ASSUME NEW t \in Threads, waitAgain(t) PROVE Rest
  <2>1. \/ \E ok \in BOOLEAN : reconnect(t, ok)
        \/ UNCHANGED <<handle, sessions, conn, watches, state, remaining>>
    BY <1>11 DEF waitAgain
  <2>2. Lib
    BY <1>3, <2>1, ReconnectType DEF TypeInv
  <2> HIDE DEF Lib
  <2> QED
    BY <1>3, <1>11, <2>2 DEF waitAgain, bounds
<1>12. ASSUME NEW t \in Threads, Begin(t) PROVE Rest
  BY <1>3, <1>12 DEF Begin, library, bounds
<1>13. \A t \in Threads : call[t].at = "sent" => call[t] \in BusyCalls /\ CallOK(call[t])
  BY CallKinds DEF TypeInv, TypeOK, CallsOK, Busy
<1>14. ASSUME NEW t \in Threads, NEW broken \in Seq(SessionEvents), call[t].at = "sent",
              CarryOut(call[t], broken)
       PROVE  Tree /\ watches' \subseteq WatchableMethod \X Paths
                /\ events' \in Seq(SessionEvents \cup WatchEvents)
  BY <1>13, <1>14, CarryOutType DEF TypeInv
<1>15. ASSUME NEW t \in Threads, Serve(t) PROVE Rest
  <2>1. <<>> \in Seq(SessionEvents)
    OBVIOUS
  <2>2. Tree /\ watches' \subseteq WatchableMethod \X Paths
          /\ events' \in Seq(SessionEvents \cup WatchEvents)
    BY <1>14, <1>15, <2>1 DEF Serve
  <2> HIDE DEF Tree
  <2> QED
    BY <1>3, <1>15, <2>2 DEF Serve, bounds
<1>16. ASSUME NEW t \in Threads, LoseAnswer(t) PROVE Rest
  <2>1. <<[type |-> "SESSION", state |-> "CONNECTING"]>> \in Seq(SessionEvents)
    BY DEF SessionEvents
  <2>2. Tree /\ watches' \subseteq WatchableMethod \X Paths
          /\ events' \in Seq(SessionEvents \cup WatchEvents)
    BY <1>14, <1>16, <2>1 DEF LoseAnswer
  <2> HIDE DEF Tree
  <2> QED
    BY <1>3, <1>16, <2>2 DEF LoseAnswer
<1>17. ASSUME NEW t \in Threads, GiveUp(t) PROVE Rest
  BY <1>3, <1>17 DEF GiveUp, library, bounds
<1>18. ASSUME NEW t \in Threads, Return(t) PROVE Rest
  <2>1. contexts' \subseteq Contexts
    BY <1>3, <1>18, RegisterType DEF Return, TypeInv
  <2>2. mutex' \in Threads \cup {NULL}
    BY <1>3, <1>18 DEF Return
  <2>3. UNCHANGED <<library, state, remaining, events, userEvents, fired, terminating, dispatching, bounds>>
    BY <1>18 DEF Return
  <2> QED
    BY <1>3, <2>1, <2>2, <2>3 DEF library, bounds
<1>19. ASSUME Connected \/ Drop \/ Expire PROVE Rest
  <2>1. \E told \in {"CONNECTED", "CONNECTING", "EXPIRED"} :
          events' = events \o <<[type |-> "SESSION", state |-> told]>>
    BY <1>19 DEF Connected, Drop, Expire, SessionEvent, enqueueEvent
  <2>2. events' \in Seq(SessionEvents \cup WatchEvents)
    <3>1. \A told \in {"CONNECTED", "CONNECTING", "EXPIRED"} :
            [type |-> "SESSION", state |-> told] \in SessionEvents
      BY DEF SessionEvents
    <3>2. \A e \in SessionEvents : <<e>> \in Seq(SessionEvents \cup WatchEvents)
      OBVIOUS
    <3> QED
      BY <1>3, <2>1, <3>1, <3>2, ConcatProperties
  <2> QED
    BY <1>3, <1>19, <2>2 DEF Connected, Drop, Expire, SessionEvent
<1>20. ASSUME processEvents PROVE Rest
  <2> DEFINE e == Head(events)
  <2>1. events # <<>> /\ e \in SessionEvents \cup WatchEvents
        /\ Tail(events) \in Seq(SessionEvents \cup WatchEvents)
    BY <1>3, <1>20, HeadTailProperties DEF processEvents
  <2>2. e.type = "SESSION" => e.state \in {"CONNECTED", "CONNECTING", "EXPIRED"}
    BY <2>1 DEF SessionEvents, WatchEvents
  <2>3. e.type # "SESSION" => e \in WatchEvents
    BY <2>1 DEF SessionEvents, WatchEvents
  <2>4. /\ UNCHANGED <<library, contexts, mutex, call, fired, terminating, bounds>>
        /\ events' = Tail(events) /\ dispatching' \subseteq dispatching
        /\ e.type = "SESSION" =>
             /\ state' = IF e.state = "EXPIRED" THEN "SESSION_EXPIRED" ELSE e.state
             /\ remaining' \in {ConnectTimeout, remaining} /\ userEvents' = userEvents
        /\ e.type # "SESSION" =>
             userEvents' = Append(userEvents, e) /\ state' = state /\ remaining' = remaining
    BY <1>20 DEF processEvents, setState, LoopEnd
  <2> HIDE DEF e
  <2>5. userEvents' \in Seq(WatchEvents)
    <3>1. CASE e.type = "SESSION"
      BY <1>3, <2>4, <3>1
    <3>2. CASE e.type # "SESSION"
      <4>1. userEvents' = Append(userEvents, e) /\ e \in WatchEvents
        BY <2>3, <2>4, <3>2
      <4> QED
        BY <1>3, <4>1, AppendProperties
    <3> QED
      BY <3>1, <3>2
  <2>6. state' \in AdapterState /\ remaining' \in Int /\ remaining' <= ConnectTimeout
    BY <1>3, <2>2, <2>4 DEF AdapterState
  <2> QED
    BY <1>3, <2>1, <2>4, <2>5, <2>6 DEF library, bounds
<1>21. ASSUME processUserEvents PROVE Rest
  <2>1. Tail(userEvents) \in Seq(WatchEvents)
    BY <1>3, <1>21, HeadTailProperties DEF processUserEvents
  <2>2. /\ userEvents' = Tail(userEvents) /\ contexts' \subseteq contexts
        /\ fired' \subseteq fired \cup Firings
        /\ dispatching' \subseteq dispatching
        /\ UNCHANGED <<library, state, remaining, events, mutex, signalled, call, terminating, bounds>>
    BY <1>21 DEF processUserEvents, handleEvent, fireEvent, LoopEnd
  <2> QED
    BY <1>3, <2>1, <2>2 DEF library, bounds
<1>22. ASSUME NEW d \in {"processEvents", "processUserEvents"}, TakeTimesOut(d) PROVE Rest
  BY <1>3, <1>22 DEF TakeTimesOut, library, bounds
<1>23. ASSUME Destroy PROVE Rest
  BY <1>3, <1>23 DEF Destroy, disconnect, setState, AdapterState, bounds
<1>24. ASSUME UNCHANGED vars PROVE Rest
  BY <1>3, <1>24 DEF vars, library, bounds
<1>25. Rest
  BY <1>5, <1>6, <1>7, <1>8, <1>9, <1>10, <1>11, <1>12, <1>15, <1>16, <1>17, <1>18, <1>19,
     <1>20, <1>21, <1>22, <1>23, <1>24 DEF Next
<1> QED
  BY <1>2, <1>25 DEF TypeInv, TypeOK

(* The constructor. *)
LEMMA InitTypeInv ==
  ASSUME Init
  PROVE  TypeInv
<1>1. /\ call = [t \in Threads |-> Done("none")] /\ Done("none") \in Calls /\ Done("none").at = "idle"
  BY DoneType DEF Init
<1>2. call \in [Threads -> Calls] /\ CallsOK
  BY <1>1 DEF CallsOK, Busy
<1>3. DOMAIN tree \subseteq Seq(Nat) /\ tree \in [DOMAIN tree -> Nat]
  <2>1. PICK nodes \in Trees : tree = [p \in nodes |-> 0]
    BY DEF Init
  <2>2. nodes \subseteq Seq(Nat)
    BY AdapterAssumption
  <2> QED
    BY <2>1, <2>2
<1>4. calls \in [Threads -> 0 .. MaxCalls]
  BY ConstantTypes DEF Init
<1>5. /\ {handle, sessions, sequence, drops, expiries} \subseteq Nat
      /\ conn \in {"none", "connecting", "connected", "reconnecting", "expired"}
      /\ watches = {} /\ contexts = {} /\ mutex = NULL /\ signalled = {} /\ fired = {}
      /\ state \in AdapterState /\ terminating = FALSE
      /\ events = <<>> /\ userEvents = <<>>
      /\ dispatching = {"processEvents", "processUserEvents"}
  BY DEF Init, AdapterState
<1>6. remaining \in Int /\ remaining <= ConnectTimeout
  BY ConstantTypes DEF Init
<1>7. events \in Seq(SessionEvents \cup WatchEvents) /\ userEvents \in Seq(WatchEvents)
  BY <1>5
<1> QED
  BY <1>2, <1>3, <1>4, <1>5, <1>6, <1>7 DEF TypeInv, TypeOK

(* The variables keep their types: no caller waits with a negative timeout, the
   queue of user events holds watch events only, and whoever was notified waits
   (zkadapter.cc, waitUntilConnected, processEvents). *)
THEOREM TypeCorrect == Spec => []TypeOK
<1>1. Init => TypeInv
  BY InitTypeInv
<1>2. TypeInv /\ [Next]_vars => TypeInv'
  BY NextTypeInv
<1>3. TypeInv => TypeOK
  BY DEF TypeInv
<1> QED
  BY <1>1, <1>2, <1>3, PTL DEF Spec

-----------------------------------------------------------------------------
(* What a call reports of its own node. *)

(* A request of a call that is on its own node is the operation itself. *)
LEMMA OwnRequest ==
  ASSUME NEW c \in BusyCalls, CallOK(c), c.args.op \in Writes \ {"setNodeData"}
  PROVE  RequestOf(c) \in Writes \ {"setNodeData"} /\ c.phase \notin {"ancestor", "child"}
           <=> c.phase \in {"first", "final"}
<1>1. c.phase \in {"first", "ancestor", "list", "child", "final"}
  BY DEF BusyCalls
<1>2. c.phase \in {"first", "final"} => RequestOf(c) = c.args.op
  BY DEF RequestOf
<1>3. c.phase = "list" => RequestOf(c) = "getNodeChildren"
  BY DEF RequestOf
<1> QED
  BY <1>1, <1>2, <1>3 DEF Writes

(* The count of nodes made goes with the answers, step by step of a call. *)
LEMMA NextMade ==
  ASSUME TypeInv, MadeCounts, [Next]_vars
  PROVE  MadeCounts'
<1>1. GoodCalls(call')
  BY NextCalls DEF CallsStep
<1> SUFFICES ASSUME NEW t \in Threads, call'[t].at # "idle"
             PROVE  MadeOK(call'[t])
  BY DEF MadeCounts, Busy
<1> DEFINE c == call[t]
           d == call'[t]
<1>2. CallStep(c, d) /\ d \in Calls
  BY <1>1 DEF GoodCalls, GoodFor
<1>3. c.at # "idle" => c \in BusyCalls /\ CallOK(c) /\ MadeOK(c)
  BY CallKinds DEF TypeInv, TypeOK, CallsOK, Busy, MadeCounts
<1>4. d \in BusyCalls /\ d.at # "idle"
  BY <1>2, CallKinds
<1>5. d.made \in Nat
  BY <1>4 DEF BusyCalls
<1> HIDE DEF c, d
<1>6. CASE d = c
  BY <1>3, <1>4, <1>6 DEF d
<1>7. CASE Starts(c, d)
  BY <1>7 DEF Starts, MadeOK, DidIt, d
<1>8. CASE Moves(c, d)
  BY <1>3, <1>8 DEF Moves, Same, MadeOK, DidIt, d
<1>9. CASE Begins(c, d)
  BY <1>3, <1>9 DEF Begins, MadeOK, DidIt, d
<1>10. CASE Loses(c, d)
  BY <1>10 DEF Loses, MadeOK, DidIt, d
<1>11. CASE IsAnswered(c, d)
  <2>1. /\ c \in BusyCalls /\ CallOK(c) /\ MadeOK(c) /\ c.at = "sent" /\ ~DidIt(c)
    BY <1>3, <1>11 DEF IsAnswered, DidIt
  <2>2. c.made \in Nat /\ Answer(c) # "connectionloss"
    BY <2>1, AnswerType DEF BusyCalls, Answers
  <2>3. /\ d.args = c.args /\ d.lossy = c.lossy /\ d.rc = Answer(c) /\ d.made = Made(c)
        /\ d.at = "back" /\ d.phase = c.phase
    BY <1>11 DEF IsAnswered
  <2> SUFFICES ASSUME d.args.op \in Writes \ {"setNodeData"}
               PROVE  /\ DidIt(d) => d.made > 0
                      /\ ~d.lossy => d.rc # "connectionloss" /\ d.made = IF DidIt(d) THEN 1 ELSE 0
    BY DEF MadeOK, d
  <2>4. ~c.lossy => c.made = 0
    BY <2>1, <2>3 DEF MadeOK
  <2>5. RequestOf(c) \in Writes \ {"setNodeData"} /\ c.phase \notin {"ancestor", "child"}
          <=> c.phase \in {"first", "final"}
    BY <2>1, <2>3, OwnRequest
  <2>6. d.made = IF DidIt(d) THEN c.made + 1 ELSE c.made
    BY <2>3, <2>5 DEF Made, DidIt
  <2> QED
    BY <2>2, <2>3, <2>4, <2>6
<1>12. CASE GoesOn(c, d)
  BY <1>3, <1>12 DEF GoesOn, MadeOK, DidIt, d
<1> QED
  BY <1>2, <1>4, <1>6, <1>7, <1>8, <1>9, <1>10, <1>11, <1>12 DEF CallStep, Returns

(* A call reports true only if one of its requests created or deleted the node,
   and false although one did only if an answer was lost, over all its retries,
   the ancestor it creates first and the children it deletes first (createNode,
   deleteNode, RetryHandler). *)
THEOREM ResultsCorrect == Spec => ResultsReported
<1> DEFINE MadeInv == TypeInv /\ MadeCounts
           Reported == \A t \in Threads :
             LET c == call[t] IN
             c.at = "back" /\ call'[t].at = "idle" /\ c.args.op \in Writes \ {"setNodeData"} =>
               /\ call'[t].result = "true" => c.made > 0
               /\ ~c.lossy => c.made = IF call'[t].result = "true" THEN 1 ELSE 0
<1>1. Init => MadeInv
  <2> SUFFICES ASSUME Init PROVE MadeInv
    OBVIOUS
  <2>1. \A t \in Threads : call[t].at = "idle"
    BY DoneType DEF Init
  <2> QED
    BY <2>1, InitTypeInv DEF MadeCounts, Busy
<1>2. MadeInv /\ [Next]_vars => MadeInv'
  BY NextTypeInv, NextMade
<1>3. MadeInv /\ [Next]_vars => [Reported]_vars
  <2> SUFFICES ASSUME MadeInv, [Next]_vars, NEW t \in Threads,
                      call[t].at = "back", call'[t].at = "idle",
                      call[t].args.op \in Writes \ {"setNodeData"}
               PROVE  /\ call'[t].result = "true" => call[t].made > 0
                      /\ ~call[t].lossy => call[t].made = IF call'[t].result = "true" THEN 1 ELSE 0
    OBVIOUS
  <2>1. CallStep(call[t], call'[t])
    BY NextCalls DEF CallsStep, GoodCalls, GoodFor
  <2>2. Returns(call[t], call'[t])
    BY <2>1 DEF CallStep, Starts, Moves, Begins, Loses, IsAnswered, GoesOn
  <2>3. MadeOK(call[t])
    BY DEF MadeCounts, Busy
  <2> QED
    BY <2>2, <2>3 DEF Returns, MadeOK
<1> QED
  BY <1>1, <1>2, <1>3, PTL DEF Spec, ResultsReported

-----------------------------------------------------------------------------
(* The session of the handle, and the contexts' mutex. *)

(* Who changes the handle, the contexts and the mutex. *)
NewHandle == handle' = 0 \/ (handle' = sessions + 1 /\ sessions' = sessions + 1)
(* A new handle is a new session, and leaves no request of the old one behind. *)
LEMMA SessionStep ==
  ASSUME TypeInv, SessionsOK, [Next]_vars
  PROVE  /\ sessions' \in {sessions, sessions + 1} /\ handle' <= sessions'
         /\ conn' = "none" <=> handle' = 0
         /\ conn = "expired" => conn' = "expired" \/ NewHandle
         /\ \/ handle' = handle /\ (conn' = "expired" => conn = "expired")
            \/ (NewHandle \/ conn' = "expired") /\ \A u \in Threads : call'[u].at # "sent"
<1> DEFINE Same4 == handle' = handle /\ sessions' = sessions /\ conn' = conn
           Goal == /\ sessions' \in {sessions, sessions + 1} /\ handle' <= sessions'
                   /\ conn' = "none" <=> handle' = 0
                   /\ conn = "expired" => conn' = "expired" \/ NewHandle
                   /\ \/ handle' = handle /\ (conn' = "expired" => conn = "expired")
                      \/ (NewHandle \/ conn' = "expired") /\ \A u \in Threads : call'[u].at # "sent"
<1>1. /\ handle \in Nat /\ sessions \in Nat /\ handle <= sessions /\ (conn = "none" <=> handle = 0)
      /\ call \in [Threads -> Calls]
  BY DEF TypeInv, TypeOK, SessionsOK
<1>2. ASSUME NEW rc \in {"connectionloss", "expired", "closing"}, NEW u \in Threads
      PROVE  Ended(rc)[u].at # "sent" /\ Ended(rc) \in [Threads -> Calls]
  <2>1. /\ GoodCalls(Ended(rc))
        /\ call[u].at # "sent" => Ended(rc)[u] = call[u]
    BY EndedStep
  <2>2. call[u].at = "sent" => Ended(rc)[u].at = "back"
    <3>1. call[u].at = "sent" => call[u] \in BusyCalls
      BY <1>1, CallKinds
    <3> QED
      BY <3>1 DEF Ended, BusyCalls
  <2> QED
    BY <2>1, <2>2 DEF GoodCalls
<1>3. Same4 => Goal
  BY <1>1
<1>4. ASSUME NEW t \in Threads, NEW ok \in BOOLEAN, reconnect(t, ok), NEW v, v.at # "sent",
             call' = [Ended("closing") EXCEPT ![t] = v]
      PROVE  Goal
  <2>1. \A u \in Threads : call'[u].at # "sent"
    BY <1>2, <1>4
  <2>2. \/ handle' = sessions + 1 /\ sessions' = sessions + 1 /\ conn' = "connecting"
        \/ handle' = 0 /\ sessions' = sessions /\ conn' = "none"
    BY <1>4 DEF reconnect
  <2> QED
    BY <1>1, <2>1, <2>2 DEF NewHandle
<1>5. ASSUME NEW t \in Threads, Disconnect(t) PROVE Goal
  <2>1. handle' = 0 /\ conn' = "none" /\ sessions' = sessions /\ call' = Ended("closing")
    BY <1>5 DEF Disconnect, disconnect
  <2> QED
    BY <1>1, <1>2, <2>1 DEF NewHandle
<1>6. ASSUME NEW t \in Threads, Reconnect(t) PROVE Goal
  <2>1. \E ok \in BOOLEAN : reconnect(t, ok) /\
             call' = [Ended("closing") EXCEPT ![t] = Done(IF ok THEN "done" ELSE "throw")]
    BY <1>6 DEF Reconnect
  <2>2. \A ok \in BOOLEAN : Done(IF ok THEN "done" ELSE "throw").at # "sent"
    BY DEF Done
  <2> QED
    BY <1>4, <2>1, <2>2
<1>7. ASSUME NEW t \in Threads, verifyExpired(t) PROVE Goal
  <2>1. call[t].at = "verify" /\ call[t] \in BusyCalls /\ Ended("closing")[t] = call[t]
    BY <1>7, CallKinds, EndedStep DEF verifyExpired, TypeInv, TypeOK
  <2> DEFINE w == [call[t] EXCEPT !.at = "wait", !.timeout = ConnectTimeout, !.toWait = ConnectTimeout]
             v(ok) == IF ok THEN w ELSE Done("throw")
  <2>2. PICK ok \in BOOLEAN : reconnect(t, ok) /\ call' = [Ended("closing") EXCEPT ![t] = v(ok)]
    BY <1>7, <2>1 DEF verifyExpired
  <2>3. w.at = "wait" /\ Done("throw").at = "idle"
    BY <2>1 DEF BusyCalls, Done
  <2>4. v(ok).at # "sent"
    BY <2>3
  <2> HIDE DEF v
  <2> QED
    BY <1>4, <2>2, <2>4
<1>8. ASSUME NEW t \in Threads, waitAgain(t) PROVE Goal
  <2>1. call[t].at = "wait" /\ call[t] \in BusyCalls /\ Ended("closing")[t] = call[t]
    BY <1>8, CallKinds, EndedStep DEF waitAgain, TypeInv, TypeOK
  <2>2. \/ \E left \in 1 .. call[t].toWait : \E ok \in BOOLEAN :
             /\ reconnect(t, ok)
             /\ call' = [Ended("closing") EXCEPT ![t] =
                           IF ok THEN [@ EXCEPT !.toWait = left] ELSE Done("throw")]
        \/ Same4
    BY <1>8 DEF waitAgain
  <2>3. ASSUME NEW left \in 1 .. call[t].toWait, NEW ok \in BOOLEAN, reconnect(t, ok),
               call' = [Ended("closing") EXCEPT ![t] =
                          IF ok THEN [@ EXCEPT !.toWait = left] ELSE Done("throw")]
        PROVE  Goal
    <3> DEFINE w == [call[t] EXCEPT !.toWait = left]
               v == IF ok THEN w ELSE Done("throw")
    <3>1. call' = [Ended("closing") EXCEPT ![t] = v]
      BY <2>1, <2>3
    <3>2. w.at = "wait" /\ Done("throw").at = "idle"
      BY <2>1 DEF BusyCalls, Done
    <3>3. v.at # "sent"
      BY <3>2
    <3> HIDE DEF v
    <3> QED
      BY <1>4, <2>3, <3>1, <3>3
  <2> QED
    BY <1>3, <2>2, <2>3
<1>9. ASSUME NEW t \in Threads, LoseAnswer(t) \/ Serve(t) PROVE Goal
  <2>1. /\ handle' = handle /\ sessions' = sessions /\ conn = "connected"
        /\ conn' \in {conn, "reconnecting"}
    BY <1>9 DEF LoseAnswer, Serve
  <2> QED
    BY <1>1, <2>1
<1>10. ASSUME Connected \/ Drop PROVE Goal
  <2>1. /\ handle' = handle /\ sessions' = sessions /\ conn \in {"connecting", "reconnecting", "connected"}
        /\ conn' \in {"connected", "reconnecting"}
    BY <1>10 DEF Connected, Drop, SessionEvent
  <2> QED
    BY <1>1, <2>1
<1>11. ASSUME Expire PROVE Goal
  <2>1. /\ handle' = handle /\ sessions' = sessions /\ conn = "reconnecting"
        /\ conn' = "expired" /\ call' = Ended("expired")
    BY <1>11 DEF Expire, SessionEvent
  <2> QED
    BY <1>1, <1>2, <2>1
<1>12. ASSUME Destroy PROVE Goal
  <2>1. /\ handle' = 0 /\ sessions' = sessions /\ conn' = "none" /\ call' = call
        /\ \A u \in Threads : call[u].at = "idle"
    BY <1>12 DEF Destroy, disconnect, Idle
  <2> QED
    BY <1>1, <2>1 DEF NewHandle
<1>13. ASSUME NEW t \in Threads,
              \/ \E args \in Inputs[t] : Call(t, args)
              \/ verifyConnection(t) \/ waitUntilConnected(t) \/ Begin(t) \/ GiveUp(t) \/ Return(t)
       PROVE  Goal
  <2>1. Same4
    BY <1>13 DEF Call, verifyConnection, waitUntilConnected, Begin, GiveUp, Return, library
  <2> QED
    BY <1>3, <2>1
<1>14. ASSUME \/ processEvents \/ processUserEvents \/ UNCHANGED vars
              \/ \E d \in {"processEvents", "processUserEvents"} : TakeTimesOut(d)
       PROVE  Goal
  <2>1. Same4
    BY <1>14 DEF processEvents, processUserEvents, TakeTimesOut, vars, library
  <2> QED
    BY <1>3, <2>1
<1> HIDE DEF Goal
<1>15. Goal
  BY <1>5, <1>6, <1>7, <1>8, <1>9, <1>10, <1>11, <1>12, <1>13, <1>14 DEF Next
<1> QED
  BY <1>15 DEF Goal

(* Only Begin, Return and processUserEvents touch the contexts or their mutex. *)
LEMMA ContextStep ==
  ASSUME [Next]_vars
  PROVE  \/ \E t \in Threads : Begin(t)
         \/ \E t \in Threads : Return(t)
         \/ processUserEvents
         \/ UNCHANGED <<contexts, mutex>>
<1>1. ASSUME NEW t \in Threads,
             \/ Disconnect(t) \/ Reconnect(t) \/ verifyExpired(t) \/ waitAgain(t)
             \/ \E args \in Inputs[t] : Call(t, args)
             \/ verifyConnection(t) \/ waitUntilConnected(t) \/ GiveUp(t)
      PROVE  UNCHANGED <<contexts, mutex>>
  BY <1>1 DEF Disconnect, Reconnect, verifyExpired, waitAgain, Call, verifyConnection,
              waitUntilConnected, GiveUp
<1>2. ASSUME NEW t \in Threads, Serve(t) \/ LoseAnswer(t)
      PROVE  UNCHANGED <<contexts, mutex>>
  BY <1>2 DEF Serve, LoseAnswer
<1>3. ASSUME Connected \/ Drop \/ Expire \/ processEvents \/ Destroy \/ UNCHANGED vars
      PROVE  UNCHANGED <<contexts, mutex>>
  BY <1>3 DEF Connected, Drop, Expire, SessionEvent, processEvents, Destroy, vars
<1>4. ASSUME \E d \in {"processEvents", "processUserEvents"} : TakeTimesOut(d)
      PROVE  UNCHANGED <<contexts, mutex>>
  BY <1>4 DEF TakeTimesOut
<1> QED
  BY <1>1, <1>2, <1>3, <1>4 DEF Next

(* Return registers a context only for an answer that says where the node is. *)
LEMMA RegisterStep ==
  ASSUME TypeInv, NEW t \in Threads, Return(t)
  PROVE  /\ \/ contexts' \subseteq contexts
            \/ Registers(call[t]) /\ contexts' \subseteq contexts \cup {NewContext(call[t], t)}
         /\ mutex' = IF mutex = t THEN NULL ELSE mutex
         /\ call'[t].at \in {"idle", "verify"}
         /\ UNCHANGED <<library, events, userEvents>>
<1>1. /\ call[t].at = "back" /\ call' = [call EXCEPT ![t] = Returned(call[t])]
      /\ mutex' = IF mutex = t THEN NULL ELSE mutex
      /\ contexts' = IF Registers(call[t]) THEN registerContext(call[t], t) ELSE contexts
      /\ UNCHANGED <<library, events, userEvents>>
  BY DEF Return, Returned, Registers
<1>2. call[t] \in BusyCalls /\ CallOK(call[t]) /\ call \in [Threads -> Calls]
  BY <1>1, CallKinds DEF TypeInv, TypeOK, CallsOK, Busy
<1>3. EndsOrGoesOn(call[t], Returned(call[t]))
  BY <1>1, <1>2, ReturnedCall
<1>4. call'[t].at \in {"idle", "verify"}
  BY <1>1, <1>2, <1>3 DEF EndsOrGoesOn, GoesOn
<1>5. Registers(call[t]) => registerContext(call[t], t) \subseteq contexts \cup {NewContext(call[t], t)}
  BY <1>1, RegisterType DEF Registers
<1> QED
  BY <1>1, <1>4, <1>5

(* Requests, answers and contexts stay with the session they were made in. *)
LEMMA NextSessions ==
  ASSUME TypeInv, SessionsOK, [Next]_vars
  PROVE  SessionsOK'
<1>1. /\ sessions' \in {sessions, sessions + 1} /\ handle' <= sessions'
      /\ conn' = "none" <=> handle' = 0
      /\ \/ handle' = handle /\ (conn' = "expired" => conn = "expired")
         \/ (NewHandle \/ conn' = "expired") /\ \A u \in Threads : call'[u].at # "sent"
  BY SessionStep
<1>2. handle \in Nat /\ sessions \in Nat /\ handle <= sessions
  BY DEF TypeInv, TypeOK, SessionsOK
<1>3. GoodCalls(call')
  BY NextCalls DEF CallsStep
<1>4. ASSUME NEW t \in Threads, call'[t].at # "idle" PROVE OwnSession(call[t])' 
  <2> DEFINE c == call[t]
             d == call'[t]
  <2>1. CallStep(c, d) /\ d \in Calls
    BY <1>3 DEF GoodCalls, GoodFor
  <2>2. d \in BusyCalls /\ d.session \in Nat
    BY <1>4, <2>1, CallKinds DEF BusyCalls
  <2>3. c.at # "idle" => /\ c.session \in Nat /\ c.session <= sessions
                         /\ c.at = "sent" => c.session = handle /\ handle # 0 /\ conn # "expired"
                         /\ c.at = "back" /\ c.rc \in {"ok", "nonode"} => c.session > 0
    <3>1. c.at # "idle" => c \in BusyCalls /\ OwnSession(c)
      BY CallKinds DEF TypeInv, TypeOK, SessionsOK, Busy
    <3> QED
      BY <3>1 DEF BusyCalls, OwnSession
  <2> SUFFICES /\ d.session <= sessions'
               /\ d.at = "sent" => d.session = handle' /\ handle' # 0 /\ conn' # "expired"
               /\ d.at = "back" /\ d.rc \in {"ok", "nonode"} => d.session > 0
    BY DEF OwnSession
  <2>4. d.at # "idle" /\ (d.at = "sent" => handle' = handle /\ (conn' = "expired" => conn = "expired"))
    BY <1>1, <1>4
  <2> HIDE DEF c, d
  <2>5. CASE d = c
    BY <1>1, <1>2, <2>3, <2>4, <2>5
  <2>6. CASE Starts(c, d) \/ GoesOn(c, d)
    BY <1>1, <1>2, <2>6 DEF Starts, GoesOn
  <2>7. CASE Moves(c, d)
    BY <1>1, <1>2, <2>2, <2>3, <2>7 DEF Moves, Same
  <2>8. CASE Begins(c, d)
    BY <1>1, <1>2, <2>2, <2>3, <2>4, <2>8 DEF Begins
  <2>9. CASE Loses(c, d)
    BY <1>1, <1>2, <2>2, <2>3, <2>9 DEF Loses
  <2>10. CASE IsAnswered(c, d)
    BY <1>1, <1>2, <2>2, <2>3, <2>10 DEF IsAnswered
  <2> QED
    BY <2>1, <2>4, <2>5, <2>6, <2>7, <2>8, <2>9, <2>10 DEF CallStep, Returns
<1>5. ASSUME NEW x \in contexts' PROVE x.session \in 1 .. sessions'
  <2>1. CASE x \in contexts
    BY <1>1, <1>2, <2>1 DEF SessionsOK
  <2>2. CASE x \notin contexts
    <3>1. PICK t \in Threads : Return(t)
      BY <1>5, <2>2, ContextStep DEF Begin, processUserEvents, handleEvent
    <3>2. Registers(call[t]) /\ x = NewContext(call[t], t)
      BY <1>5, <2>2, <3>1, RegisterStep
    <3>3. /\ call[t].at = "back" /\ call[t].rc \in {"ok", "nonode"} /\ WithContext(call[t])
          /\ x.session = call[t].session /\ call[t].session \in Nat
      BY <3>2, RegisterType, CallKinds DEF Registers, TypeInv, TypeOK, BusyCalls
    <3>4. OwnSession(call[t])
      BY <3>3 DEF SessionsOK, Busy
    <3> QED
      BY <1>1, <1>2, <3>3, <3>4 DEF OwnSession
  <2> QED
    BY <2>1, <2>2
<1> QED
  BY <1>1, <1>4, <1>5 DEF SessionsOK, Busy

(* The mutex stays with its caller until Return. *)
LEMMA NextMutex ==
  ASSUME TypeInv, MutexHeld, [Next]_vars
  PROVE  MutexHeld'
<1> SUFFICES ASSUME NEW t \in Threads, call'[t].at \in {"sent", "back"}, WithContext(call'[t])
             PROVE  mutex' = t
  BY DEF MutexHeld, WithContext, RequestOf
<1> DEFINE c == call[t]
           d == call'[t]
<1>1. CallStep(c, d) /\ Acts(t, d)
  BY NextCalls DEF CallsStep, GoodCalls, GoodFor
<1>2. CASE c.at \in {"sent", "back"} /\ WithContext(c)
  <2>1. mutex = t /\ t # NULL
    BY <1>2, AdapterAssumption DEF MutexHeld
  <2>2. ASSUME NEW u \in Threads, Begin(u) PROVE mutex' = t
    BY <2>1, <2>2 DEF Begin
  <2>3. ASSUME NEW u \in Threads, Return(u) PROVE mutex' = t
    <3>1. u # t
      BY <2>3, RegisterStep
    <3> QED
      BY <2>1, <2>3, <3>1, RegisterStep
  <2>4. ASSUME processUserEvents PROVE mutex' = t
    BY <2>1, <2>4 DEF processUserEvents
  <2> QED
    BY <2>1, <2>2, <2>3, <2>4, ContextStep
<1>3. CASE d = c
  BY <1>2, <1>3
<1>4. CASE Loses(c, d) \/ IsAnswered(c, d)
  <2>1. c.at = "sent" /\ d.args = c.args /\ d.phase = c.phase
    BY <1>4 DEF Loses, IsAnswered
  <2>2. WithContext(c)
    BY <2>1 DEF WithContext, RequestOf
  <2> QED
    BY <1>2, <2>1, <2>2
<1>5. CASE Begins(c, d)
  <2>1. c.at = "begin" /\ d.args = c.args /\ d.phase = c.phase /\ d # c
    BY <1>5 DEF Begins
  <2>2. WithContext(c)
    BY <2>1 DEF WithContext, RequestOf
  <2>3. Begin(t)
    BY <1>1, <2>1 DEF Acts
  <2> QED
    BY <2>2, <2>3 DEF Begin
<1> QED
  BY <1>1, <1>3, <1>4, <1>5 DEF CallStep, Starts, Moves, GoesOn, Returns

-----------------------------------------------------------------------------
(* The contexts. *)

(* An event that leads handleEvent to the contexts of a method and a path. *)
Leads(e, method, path) == e.type # "SESSION" /\ method \in LookedUp(e) /\ path = e.path
Queued(q, method, path) == \E i \in 1 .. Len(q) : Leads(q[i], method, path)

(* Leading events of a queue, of two queues in a row, and of their ranges. *)
LEMMA RangeQueued ==
  ASSUME NEW S, NEW q \in Seq(S), NEW r \in Seq(S), NEW m, NEW p
  PROVE  /\ Queued(q \o r, m, p) <=> Queued(q, m, p) \/ Queued(r, m, p)
         /\ (\E e \in Range(q) : Leads(e, m, p)) <=> Queued(q, m, p)
<1>1. /\ Len(q) \in Nat /\ Len(r) \in Nat /\ DOMAIN q = 1 .. Len(q) /\ Len(q \o r) = Len(q) + Len(r)
      /\ \A i \in 1 .. Len(q) + Len(r) : (q \o r)[i] = IF i <= Len(q) THEN q[i] ELSE r[i - Len(q)]
  BY ConcatProperties, LenProperties
<1>2. ASSUME Queued(q, m, p) PROVE Queued(q \o r, m, p)
  <2>1. PICK i \in 1 .. Len(q) : Leads(q[i], m, p)
    BY <1>2 DEF Queued
  <2>2. i \in 1 .. Len(q \o r) /\ (q \o r)[i] = q[i]
    BY <1>1
  <2> QED
    BY <2>1, <2>2 DEF Queued
<1>3. ASSUME Queued(r, m, p) PROVE Queued(q \o r, m, p)
  <2>1. PICK i \in 1 .. Len(r) : Leads(r[i], m, p)
    BY <1>3 DEF Queued
  <2>2. i + Len(q) \in 1 .. Len(q \o r) /\ (q \o r)[i + Len(q)] = r[i]
    BY <1>1
  <2> QED
    BY <2>1, <2>2 DEF Queued
<1>4. ASSUME Queued(q \o r, m, p) PROVE Queued(q, m, p) \/ Queued(r, m, p)
  <2>1. PICK i \in 1 .. Len(q \o r) : Leads((q \o r)[i], m, p)
    BY <1>4 DEF Queued
  <2>2. \/ i \in 1 .. Len(q) /\ (q \o r)[i] = q[i]
        \/ i - Len(q) \in 1 .. Len(r) /\ (q \o r)[i] = r[i - Len(q)]
    BY <1>1
  <2> QED
    BY <2>1, <2>2 DEF Queued
<1>5. (\E e \in Range(q) : Leads(e, m, p)) <=> Queued(q, m, p)
  BY <1>1 DEF Queued, Range
<1> QED
  BY <1>2, <1>3, <1>4, <1>5

(* An event is at the head of its queue or in what is left of it. *)
LEMMA TailQueued ==
  ASSUME NEW S, NEW q \in Seq(S), q # <<>>, NEW m, NEW p, Queued(q, m, p)
  PROVE  Leads(Head(q), m, p) \/ Queued(Tail(q), m, p)
<1>1. /\ Len(q) \in Nat /\ Len(Tail(q)) = Len(q) - 1 /\ Head(q) = q[1]
      /\ \A i \in 1 .. Len(Tail(q)) : Tail(q)[i] = q[i + 1]
  BY HeadTailProperties, LenProperties
<1>2. PICK i \in 1 .. Len(q) : Leads(q[i], m, p)
  BY DEF Queued
<1>3. CASE i # 1
  <2>1. i - 1 \in 1 .. Len(Tail(q)) /\ Tail(q)[i - 1] = q[i]
    BY <1>1, <1>3
  <2> QED
    BY <1>2, <2>1 DEF Queued
<1> QED
  BY <1>1, <1>2, <1>3

(* Backed, queue by queue. *)
LEMMA BackedQueued ==
  ASSUME TypeOK, NEW m, NEW p
  PROVE  Backed(m, p) <=> <<m, p>> \in watches \/ Queued(events, m, p) \/ Queued(userEvents, m, p)
<1>1. events \in Seq(SessionEvents \cup WatchEvents) /\ userEvents \in Seq(SessionEvents \cup WatchEvents)
  <2>1. userEvents \in Seq(WatchEvents) /\ events \in Seq(SessionEvents \cup WatchEvents)
    BY DEF TypeOK
  <2> QED
    BY <2>1
<1>2. events \o userEvents \in Seq(SessionEvents \cup WatchEvents)
  BY <1>1, ConcatProperties
<1>3. (\E e \in Range(events \o userEvents) : Leads(e, m, p)) <=> Queued(events \o userEvents, m, p)
  BY <1>2, RangeQueued
<1>4. Queued(events \o userEvents, m, p) <=> Queued(events, m, p) \/ Queued(userEvents, m, p)
  BY <1>1, RangeQueued
<1> QED
  BY <1>3, <1>4 DEF Backed, Leads

(* A watch that a change ends is looked up when its event is handled. *)
LEMMA EndedLeads ==
  ASSUME NEW e \in WatchEvents, NEW m \in {"NODE_EXISTS", "GET_NODE_DATA"}, NEW p,
         <<m, p>> \in EndedBy(e)
  PROVE  Leads(e, m, p)
<1>1. e.type \in {"CREATED", "DELETED", "CHANGED", "CHILD"}
  BY DEF WatchEvents
<1>2. CASE e.type = "CREATED"
  BY <1>2 DEF EndedBy, LookedUp, Leads
<1>3. CASE e.type = "DELETED"
  BY <1>3 DEF EndedBy, LookedUp, Leads
<1>4. CASE e.type = "CHANGED"
  BY <1>4 DEF EndedBy, LookedUp, Leads
<1>5. CASE e.type = "CHILD"
  BY <1>5 DEF EndedBy, LookedUp, Leads
<1> QED
  BY <1>1, <1>2, <1>3, <1>4, <1>5

(* What was backed stays so in the session, except that handleEvent takes its
   event. *)
LEMMA StaysBacked ==
  ASSUME TypeInv, SessionsOK, [Next]_vars,
         NEW m \in {"NODE_EXISTS", "GET_NODE_DATA"}, NEW p, NEW s \in 1 .. sessions,
         s = handle /\ conn # "expired" => Backed(m, p),
         ~(processUserEvents /\ Leads(Head(userEvents), m, p)),
         s = handle', conn' # "expired"
  PROVE  Backed(m, p)'
<1> DEFINE E == SessionEvents \cup WatchEvents
           Goal == <<m, p>> \in watches' \/ Queued(events', m, p) \/ Queued(userEvents', m, p)
<1>1. TypeOK /\ TypeOK'
  BY NextTypeInv DEF TypeInv
<1>2. /\ events \in Seq(E) /\ userEvents \in Seq(E)
      /\ events' \in Seq(E) /\ userEvents' \in Seq(E) /\ userEvents \in Seq(WatchEvents)
  <2>1. /\ events \in Seq(E) /\ userEvents \in Seq(WatchEvents)
        /\ events' \in Seq(E) /\ userEvents' \in Seq(WatchEvents)
    BY <1>1 DEF TypeOK
  <2> QED
    BY <2>1
<1>3. SUFFICES Goal
  <2>1. events' \o userEvents' \in Seq(E)
    BY <1>2, ConcatProperties
  <2>2. Queued(events', m, p) \/ Queued(userEvents', m, p) => Queued(events' \o userEvents', m, p)
    BY <1>2, RangeQueued
  <2>3. Queued(events' \o userEvents', m, p) => \E e \in Range(events' \o userEvents') : Leads(e, m, p)
    BY <2>1, RangeQueued
  <2> QED
    BY <2>2, <2>3 DEF Backed, Leads
<1> HIDE DEF E
<1>4. handle' = handle /\ conn # "expired"
  <2>1. /\ sessions \in Nat
        /\ conn = "expired" => conn' = "expired" \/ NewHandle
        /\ handle' = handle \/ NewHandle \/ conn' = "expired"
    BY SessionStep DEF TypeInv, TypeOK
  <2>2. ~NewHandle
    BY <2>1 DEF NewHandle
  <2> QED
    BY <2>1, <2>2
<1>5. <<m, p>> \in watches \/ Queued(events, m, p) \/ Queued(userEvents, m, p)
  BY <1>1, <1>4, BackedQueued
<1>6. ASSUME watches' = watches, NEW es \in Seq(E), events' = events \o es, userEvents' = userEvents
      PROVE  Goal
  BY <1>2, <1>5, <1>6, RangeQueued
<1>7. ASSUME UNCHANGED <<watches, events, userEvents>>
      PROVE  Goal
  BY <1>5, <1>7
<1>8. ASSUME NEW t \in Threads, NEW broken \in Seq(SessionEvents), call[t].at = "sent",
             CarryOut(call[t], broken), userEvents' = userEvents
      PROVE  Goal
  <2>1. call[t] \in BusyCalls /\ CallOK(call[t])
    BY <1>8, CallKinds DEF TypeInv, TypeOK, CallsOK, Busy
  <2>2. PICK told \in Seq(WatchEvents) :
          /\ events' = events \o (told \o broken)
          /\ \A i \in DOMAIN ChangesOf(call[t]) :
               EndedBy(ChangesOf(call[t])[i]) \cap watches # {} =>
                 ChangesOf(call[t])[i] \in {told[j] : j \in DOMAIN told}
    BY <1>1, <1>8, <2>1, CarryOutType
  <2>3. \A x \in watches : x \in watches' \/
          \E i \in DOMAIN ChangesOf(call[t]) : x \in EndedBy(ChangesOf(call[t])[i])
    BY <1>1, <1>8, <2>1, CarryOutType
  <2>4. told \in Seq(E) /\ broken \in Seq(E) /\ told \o broken \in Seq(E)
    <3>1. told \in Seq(E) /\ broken \in Seq(E)
      BY <1>8, <2>2 DEF E
    <3> QED
      BY <3>1, ConcatProperties
  <2>5. CASE Queued(events, m, p) \/ Queued(userEvents, m, p)
    BY <1>2, <1>8, <2>2, <2>4, <2>5, RangeQueued
  <2>6. CASE <<m, p>> \in watches /\ <<m, p>> \notin watches'
    <3>1. PICK i \in DOMAIN ChangesOf(call[t]) : <<m, p>> \in EndedBy(ChangesOf(call[t])[i])
      BY <2>3, <2>6
    <3>2. PICK j \in DOMAIN told : told[j] = ChangesOf(call[t])[i]
      BY <2>2, <2>6, <3>1
    <3>3. j \in 1 .. Len(told) /\ told[j] \in WatchEvents
      BY <3>2, LenProperties, ElementOfSeq
    <3>4. Leads(told[j], m, p)
      BY <3>1, <3>2, <3>3, EndedLeads
    <3>5. Queued(told, m, p)
      BY <3>3, <3>4 DEF Queued
    <3>6. Queued(told \o broken, m, p)
      BY <2>4, <3>5, RangeQueued
    <3>7. Queued(events', m, p)
      BY <1>2, <2>2, <2>4, <3>6, RangeQueued
    <3> QED
      BY <3>7
  <2> QED
    BY <1>5, <2>5, <2>6
<1>9. ASSUME NEW t \in Threads, Serve(t) PROVE Goal
  <2>1. <<>> \in Seq(SessionEvents)
    OBVIOUS
  <2> QED
    BY <1>8, <1>9, <2>1 DEF Serve
<1>10. ASSUME NEW t \in Threads, LoseAnswer(t) PROVE Goal
  <2>1. <<[type |-> "SESSION", state |-> "CONNECTING"]>> \in Seq(SessionEvents)
    BY DEF SessionEvents
  <2> QED
    BY <1>8, <1>10, <2>1 DEF LoseAnswer
<1>11. ASSUME Connected \/ Drop PROVE Goal
  <2>1. PICK told \in {"CONNECTED", "CONNECTING"} :
          /\ events' = events \o <<[type |-> "SESSION", state |-> told]>>
          /\ watches' = watches /\ userEvents' = userEvents
    BY <1>11 DEF Connected, Drop, SessionEvent, enqueueEvent
  <2>2. [type |-> "SESSION", state |-> told] \in E
    BY DEF SessionEvents, E
  <2>3. <<[type |-> "SESSION", state |-> told]>> \in Seq(E)
    BY <2>2
  <2> QED
    BY <1>6, <2>1, <2>3
<1>12. ASSUME processEvents PROVE Goal
  <2>1. /\ events # <<>> /\ events' = Tail(events) /\ watches' = watches
        /\ Head(events).type = "SESSION" => userEvents' = userEvents
        /\ Head(events).type # "SESSION" => userEvents' = Append(userEvents, Head(events))
    BY <1>12 DEF processEvents, library
  <2>2. CASE <<m, p>> \in watches
    BY <2>1, <2>2
  <2>3. CASE Queued(userEvents, m, p)
    <3>1. CASE Head(events).type = "SESSION"
      BY <2>1, <2>3, <3>1
    <3>2. CASE Head(events).type # "SESSION"
      <4>1. Head(events) \in E
        BY <1>2, <2>1, HeadTailProperties
      <4>2. userEvents' = userEvents \o <<Head(events)>> /\ <<Head(events)>> \in Seq(E)
        BY <1>2, <2>1, <3>2, <4>1, AppendIsConcat
      <4> QED
        BY <1>2, <2>3, <4>2, RangeQueued
    <3> QED
      BY <3>1, <3>2
  <2>4. CASE Queued(events, m, p)
    <3>1. Leads(Head(events), m, p) \/ Queued(events', m, p)
      BY <1>2, <2>1, <2>4, TailQueued
    <3>2. ASSUME Leads(Head(events), m, p) PROVE Queued(userEvents', m, p)
      <4>1. userEvents' = Append(userEvents, Head(events))
        BY <2>1, <3>2 DEF Leads
      <4>2. /\ Len(userEvents) \in Nat /\ Len(userEvents') = Len(userEvents) + 1
            /\ userEvents'[Len(userEvents) + 1] = Head(events)
        BY <1>2, <2>1, <4>1, HeadTailProperties, AppendProperties, LenProperties
      <4>3. Len(userEvents) + 1 \in 1 .. Len(userEvents')
        BY <4>2
      <4> QED
        BY <3>2, <4>2, <4>3 DEF Queued
    <3> QED
      BY <3>1, <3>2
  <2> QED
    BY <1>5, <2>2, <2>3, <2>4
<1>13. ASSUME processUserEvents PROVE Goal
  <2>1. /\ userEvents # <<>> /\ userEvents' = Tail(userEvents)
        /\ watches' = watches /\ events' = events
    BY <1>13 DEF processUserEvents, library
  <2>2. Queued(userEvents, m, p) => Queued(userEvents', m, p)
    BY <1>2, <1>13, <2>1, TailQueued
  <2> QED
    BY <1>5, <2>1, <2>2
<1>14. ASSUME NEW t \in Threads, Disconnect(t) \/ Reconnect(t) \/ verifyExpired(t) PROVE Goal
  <2>1. handle' = 0 \/ handle' = sessions + 1
    BY <1>14 DEF Disconnect, Reconnect, verifyExpired, disconnect, reconnect
  <2>2. sessions \in Nat
    BY <1>1 DEF TypeOK
  <2> QED
    BY <2>1, <2>2
<1>15. ASSUME NEW t \in Threads, waitAgain(t) PROVE Goal
  <2>1. \/ handle' = 0 \/ handle' = sessions + 1
        \/ UNCHANGED <<watches, events, userEvents>>
    BY <1>15 DEF waitAgain, reconnect
  <2>2. sessions \in Nat
    BY <1>1 DEF TypeOK
  <2> QED
    BY <1>7, <2>1, <2>2
<1>16. ASSUME Destroy PROVE Goal
  BY <1>16 DEF Destroy, disconnect
<1>17. ASSUME Expire PROVE Goal
  BY <1>17 DEF Expire, SessionEvent
<1>18. ASSUME NEW t \in Threads,
              \/ \E args \in Inputs[t] : Call(t, args)
              \/ verifyConnection(t) \/ waitUntilConnected(t) \/ Begin(t) \/ GiveUp(t) \/ Return(t)
       PROVE  Goal
  <2>1. UNCHANGED <<watches, events, userEvents>>
    BY <1>18 DEF Call, verifyConnection, waitUntilConnected, Begin, GiveUp, Return, library
  <2> QED
    BY <1>7, <2>1
<1>19. ASSUME \/ UNCHANGED vars
              \/ \E d \in {"processEvents", "processUserEvents"} : TakeTimesOut(d)
       PROVE  Goal
  <2>1. UNCHANGED <<watches, events, userEvents>>
    BY <1>19 DEF TakeTimesOut, vars, library
  <2> QED
    BY <1>7, <2>1
<1> HIDE DEF Goal
<1> QED
  BY <1>9, <1>10, <1>11, <1>12, <1>13, <1>14, <1>15, <1>16, <1>17, <1>18, <1>19 DEF Next

(* ContextsBacked in terms of Backed. *)
LEMMA ContextIsBacked ==
  ASSUME NEW x \in contexts
  PROVE  IsBacked(x) <=> Backed(x.method, x.path)
BY DEF IsBacked, FoundFor, Backed

(* The methods of the operations whose contexts the events lead to. *)
LEMMA MethodNames ==
  ASSUME TypeInv, NEW t \in Threads, call[t].at = "back", WithContext(call[t])
  PROVE  /\ call[t].args.op \in {"nodeExists", "getNodeChildren", "getNodeData"}
         /\ call[t].args.op # "getNodeChildren" =>
              MethodOf(call[t].args.op) \in {"NODE_EXISTS", "GET_NODE_DATA"}
         /\ MethodOf(call[t].args.op) # "GET_NODE_CHILDREN" => call[t].args.op # "getNodeChildren"
         /\ RequestOf(call[t]) = call[t].args.op
<1> DEFINE c == call[t]
<1>1. c \in BusyCalls /\ CallOK(c)
  BY CallKinds DEF TypeInv, TypeOK, CallsOK, Busy
<1>2. c.phase = "first" /\ RequestOf(c) \notin Writes /\ c.args.context
  BY DEF WithContext
<1>3. RequestOf(c) = c.args.op /\ c.args \in Ops
  BY <1>1, <1>2, RequestType DEF BusyCalls
<1>4. c.args.op \in {"nodeExists", "getNodeChildren", "getNodeData"}
  BY <1>2, <1>3, OpKinds
<1> QED
  BY <1>3, <1>4 DEF MethodOf

(* Contexts stay backed, and those that Return registers were pending and backed. *)
LEMMA NextContextsBacked ==
  ASSUME TypeInv, SessionsOK, ContextsBacked, PendingBacked, [Next]_vars
  PROVE  ContextsBacked'
<1> SUFFICES ASSUME NEW x \in contexts',
                    x.session = handle', conn' # "expired", x.method # "GET_NODE_CHILDREN",
                    x.listener # NULL
             PROVE  Backed(x.method, x.path)'
  BY DEF ContextsBacked, IsBacked, FoundFor, Backed
<1>1. CASE x \in contexts
  <2>1. x.method \in {"NODE_EXISTS", "GET_NODE_DATA"} /\ x.session \in 1 .. sessions
    BY <1>1 DEF TypeInv, TypeOK, Contexts, WatchableMethod, SessionsOK
  <2>2. x.session = handle /\ conn # "expired" => Backed(x.method, x.path)
    BY <1>1, ContextIsBacked DEF ContextsBacked
  <2>3. ~(processUserEvents /\ Leads(Head(userEvents), x.method, x.path))
    <3> SUFFICES ASSUME processUserEvents, Leads(Head(userEvents), x.method, x.path)
                 PROVE  FALSE
      OBVIOUS
    <3>1. x \notin FoundFor(Head(userEvents))
      BY DEF processUserEvents, handleEvent
    <3> QED
      BY <1>1, <3>1 DEF FoundFor, Leads
  <2> QED
    BY <2>1, <2>2, <2>3, StaysBacked
<1>2. CASE x \notin contexts
  <2>1. PICK t \in Threads : Return(t)
    BY <1>2, ContextStep DEF Begin, processUserEvents, handleEvent
  <2>2. /\ Registers(call[t]) /\ x = NewContext(call[t], t)
        /\ UNCHANGED <<library, events, userEvents>>
    BY <1>2, <2>1, RegisterStep
  <2>3. call[t].at = "back" /\ WithContext(call[t])
    BY <2>2 DEF Registers
  <2>4. /\ x.session = call[t].session /\ x.method = MethodOf(call[t].args.op)
        /\ x.path = call[t].args.path /\ call[t].args.op # "getNodeChildren"
        /\ x.listener = call[t].args.listener
    BY <2>2, <2>3, RegisterType, MethodNames
  <2>5. handle' = handle /\ conn' = conn /\ watches' = watches /\ events' = events /\ userEvents' = userEvents
    BY <2>2 DEF library
  <2>6. Backed(x.method, x.path)
    BY <2>2, <2>4, <2>5 DEF PendingBacked
  <2> QED
    BY <2>5, <2>6 DEF Backed
<1> QED
  BY <1>1, <1>2

(* A pending registration stays backed: handleEvent waits for its mutex. *)
LEMMA NextPendingBacked ==
  ASSUME TypeInv, SessionsOK, MutexHeld, PendingBacked, [Next]_vars
  PROVE  PendingBacked'
<1> SUFFICES ASSUME NEW t \in Threads, Registers(call[t])', call'[t].session = handle',
                    conn' # "expired", call'[t].args.op # "getNodeChildren",
                    call'[t].args.listener # NULL
             PROVE  Backed(MethodOf(call[t].args.op), call[t].args.path)'
  BY DEF PendingBacked
<1> DEFINE c == call[t]
           d == call'[t]
           m == MethodOf(d.args.op)
<1>1. /\ d.at = "back" /\ d.phase = "first" /\ d.args.context
      /\ d.rc \in {"ok", "nonode"} /\ (d.rc = "ok" \/ d.args.op = "nodeExists")
  BY DEF Registers, WithContext, RequestOf
<1>2. CallStep(c, d) /\ Acts(t, d)
  BY NextCalls DEF CallsStep, GoodCalls, GoodFor
<1>3. CASE d = c
  <2>1. Registers(c)
    BY <1>3 DEF Registers, WithContext, RequestOf
  <2>2. c.at = "back" /\ WithContext(c) /\ c.rc \in {"ok", "nonode"}
    BY <2>1 DEF Registers
  <2>3. m \in {"NODE_EXISTS", "GET_NODE_DATA"}
    BY <1>3, <2>2, MethodNames
  <2>4. c.session \in 1 .. sessions
    <3>1. OwnSession(c) /\ c \in BusyCalls
      BY <2>2, CallKinds DEF SessionsOK, Busy, TypeInv, TypeOK
    <3> QED
      BY <2>2, <3>1 DEF OwnSession, BusyCalls, TypeInv, TypeOK
  <2>5. c.session = handle /\ conn # "expired" => Backed(m, c.args.path)
    BY <1>3, <2>1 DEF PendingBacked
  <2>6. ~processUserEvents
    <3>1. mutex = t /\ t # NULL
      BY <2>2, AdapterAssumption DEF MutexHeld
    <3> QED
      BY <3>1 DEF processUserEvents, handleEvent
  <2> HIDE DEF m
  <2>7. ASSUME NEW p, p = c.args.path, NEW o, o = m PROVE Backed(o, p)'
    BY <1>3, <2>3, <2>4, <2>5, <2>6, <2>7, StaysBacked
  <2> QED
    BY <1>3, <2>7 DEF Backed, m
<1>4. CASE IsAnswered(c, d)
  <2>1. /\ c.at = "sent" /\ d.rc = Answer(c) /\ d.args = c.args /\ d.phase = c.phase /\ d # c
        /\ ~Loses(c, d)
    BY <1>1, <1>4 DEF IsAnswered, Loses
  <2>2. Serve(t)
    BY <1>2, <2>1 DEF Acts
  <2>3. c \in BusyCalls /\ CallOK(c) /\ c.args \in Ops
    BY <2>1, CallKinds DEF TypeInv, TypeOK, CallsOK, Busy, BusyCalls
  <2>4. RequestOf(c) = c.args.op /\ c.args.op \notin Writes
    <3>1. RequestOf(c) = RequestOf(d)
      BY <2>1 DEF RequestOf
    <3>2. RequestOf(d) \notin Writes
      BY DEF Registers, WithContext, RequestOf
    <3> QED
      BY <1>1, <2>1, <2>3, <3>1, <3>2, RequestType
  <2>5. c.args.listener # NULL
    BY <2>1
  <2>6. Watching(c)
    BY <1>1, <2>1, <2>4, <2>5 DEF Watching
  <2>7. <<>> \in Seq(SessionEvents) /\ CarryOut(c, <<>>) /\ TypeOK
    BY <2>2 DEF Serve, TypeInv
  <2>8. <<MethodOf(c.args.op), c.args.path>> \in watches'
    BY <2>3, <2>6, <2>7, CarryOutType
  <2> QED
    BY <2>1, <2>8 DEF Backed
<1> QED
  BY <1>1, <1>2, <1>3, <1>4 DEF CallStep, Starts, Moves, Begins, Loses, GoesOn, Returns

(* A context that nodeExists or getNodeData registered with a listener in the
   current session has its watch, or an event that finds it is on its way to
   handleEvent, whatever contexts others leave without a listener: m_zkContextsMutex, held over the request,
   keeps the event from being handled before the context is registered
   (zkadapter.cc, registerContext, handleEvent). *)
THEOREM ContextsCorrect == Spec => []ContextsBacked
<1> DEFINE BackedInv == TypeInv /\ SessionsOK /\ MutexHeld /\ ContextsBacked /\ PendingBacked
<1>1. Init => BackedInv
  <2> SUFFICES ASSUME Init PROVE BackedInv
    OBVIOUS
  <2>1. \A t \in Threads : call[t].at = "idle"
    BY DoneType DEF Init
  <2>2. contexts = {} /\ handle \in {0, 1} /\ sessions = handle /\ (conn = "none" <=> handle = 0)
    BY DEF Init
  <2> QED
    BY <2>1, <2>2, InitTypeInv DEF SessionsOK, MutexHeld, ContextsBacked, PendingBacked, Registers, Busy
<1>2. BackedInv /\ [Next]_vars => BackedInv'
  BY NextTypeInv, NextSessions, NextMutex, NextContextsBacked, NextPendingBacked
<1> QED
  BY <1>1, <1>2, PTL DEF Spec
=============================================================================
