------------------------------ MODULE ZkAdapter ------------------------------
(***************************************************************************)
(* The synchronous ZooKeeper adapter (infra/zk/zkadapter.cc): callers that *)
(* block in a node operation, retry it and wait for the connection, the    *)
(* event dispatcher that follows the session, and the user event           *)
(* dispatcher that hands watch events to listeners with their contexts.    *)
(*                                                                         *)
(* What a thread does under m_stateLock until it unlocks or waits is one   *)
(* step, so the lock needs no variable; m_zkContextsMutex is held across a *)
(* request and has one.  The ZooKeeper client library and its server are   *)
(* external: requests of the current handle are served one at a time, the  *)
(* connection may drop, the session may expire.                            *)
(***************************************************************************)
EXTENDS Integers, Sequences, SequencesExt, FiniteSets

CONSTANTS
  Threads,         \* the adapter's callers
  Listeners,       \* the ZKEventListeners added to the adapter; callers pass one or NULL
  Paths,           \* paths callers use, as sequences of names (numbers)
  Trees,           \* the sets of nodes the server may hold at the start
  Inputs,          \* the operations each caller asks for, of Ops below
  AutoReconnect,   \* ZooKeeperConfig::m_autoReconnect
  ConnectTimeout,  \* m_connectTimeout, in units of time
  MaxCalls,        \* bound: calls of each caller
  MaxDrops,        \* bound: lost connections
  MaxExpiries,     \* bound: expired sessions
  InitFaults       \* may zookeeper_init return NULL?

NULL == "NULL"

ASSUME AdapterAssumption ==
  /\ Paths # {}
  /\ \A p \in Paths : p \in Seq(Nat) /\ Len(p) \in 1 .. 2 /\ (Len(p) = 2 => Front(p) \in Paths)
  /\ \A nodes \in Trees : nodes \subseteq Paths /\ \A p \in nodes : Len(p) = 2 => Front(p) \in nodes
  /\ {AutoReconnect, InitFaults} \subseteq BOOLEAN
  /\ ConnectTimeout > 0
  /\ {ConnectTimeout, MaxCalls, MaxDrops, MaxExpiries} \subseteq Nat
  /\ NULL \notin Threads \cup Listeners

VARIABLES
  \* The client library and the server.
  handle,       \* mp_zkHandle: number of the session, 0 for NULL
  sessions,     \* sessions so far
  conn,         \* state of the handle
  tree,         \* the nodes: path -> data version
  sequence,     \* last number the server gave to a sequence node
  watches,      \* watches of the session: <<method, path>>
  \* The adapter.
  state,        \* m_state
  remaining,    \* m_remainingConnectTimeout
  events,       \* m_events
  userEvents,   \* m_userEvents
  contexts,     \* m_zkContexts
  mutex,        \* owner of m_zkContextsMutex
  signalled,    \* callers in m_stateLock.wait that were notified
  call,         \* the operation each caller is in
  fired,        \* <<listener told, caller, listener the caller passed>>: the contexts
                \* listeners were given, ever
  terminating,  \* m_terminating
  dispatching,  \* threads of processEvents and processUserEvents that run
  \* Bounds.
  calls,        \* calls each caller made
  drops, expiries

library == <<handle, sessions, conn, tree, sequence, watches>>
bounds == <<calls, drops, expiries>>
vars == <<library, state, remaining, events, userEvents, contexts, mutex, signalled, call,
          fired, terminating, dispatching, bounds>>

-----------------------------------------------------------------------------
(* Types *)

AdapterState == {"DISCONNECTED", "CONNECTING", "CONNECTED", "SESSION_EXPIRED"}
WatchableMethod == {"NODE_EXISTS", "GET_NODE_CHILDREN", "GET_NODE_DATA"}

(* The session events that processEvents tells apart, and the watch events. *)
SessionEvents == [type : {"SESSION"}, state : {"CONNECTED", "CONNECTING", "EXPIRED"}]
WatchEvents == [type : {"CREATED", "DELETED", "CHANGED", "CHILD"}, path : Seq(Nat)]

(* Calls; Inputs gives each caller some of them.  A reading call may pass a
   listener, which sets a watch, and a context, each with or without the other. *)
Creates == [op : {"createNode", "createSequence"}, path : Paths, createAncestors : BOOLEAN]
Deletes == [op : {"deleteNode"}, path : Paths, recursive : BOOLEAN]
Sets == [op : {"setNodeData"}, path : Paths, version : {-1, 0}]
Reads == [op : {"nodeExists", "getNodeChildren", "getNodeData"}, path : Paths,
          listener : Listeners \cup {NULL}, context : BOOLEAN]
Ops == Creates \cup Deletes \cup Sets \cup Reads
ASSUME InputsAssumption == \A t \in Threads : Inputs[t] \subseteq Ops

(* A context a caller registered: who, for what, and in which session. *)
Contexts == [method : WatchableMethod, path : Paths, listener : Listeners \cup {NULL},
             by : Threads, session : Nat]
Firings == Listeners \X Threads \X (Listeners \cup {NULL})

(* How far a call is: its arguments, its phase (the nested createNode of an
   ancestor, the listing and the children of a recursive deleteNode, and the
   final attempt after them), the retries left of the current RetryHandler, the
   wait it is in, the session and the answer of its request.  made counts the
   nodes it created or deleted at its own path, lossy tells whether an answer to
   it was lost; the code knows neither. *)
Codes == {"none", "ok", "nonode", "nodeexists", "notempty", "badversion",
          "connectionloss", "expired", "closing", "badarguments", "invalidstate"}
IdleCalls == [at : {"idle"}, result : {"none", "true", "false", "done", "throw"}]
BusyCalls ==
  [at : {"verify", "wait", "begin", "sent", "back"}, args : Ops,
   phase : {"first", "ancestor", "list", "child", "final"}, todo : SUBSET Seq(Nat),
   retries : 0 .. 2, timeout : Int, toWait : Nat, session : Nat, rc : Codes,
   made : Nat, lossy : BOOLEAN]
Calls == IdleCalls \cup BusyCalls

Idle(t) == call[t].at = "idle"
Done(result) == [at |-> "idle", result |-> result]

TypeOK ==
  /\ {handle, sessions, sequence, drops, expiries} \subseteq Nat
  /\ calls \in [Threads -> 0 .. MaxCalls]
  /\ conn \in {"none", "connecting", "connected", "reconnecting", "expired"}
  /\ DOMAIN tree \subseteq Seq(Nat) /\ tree \in [DOMAIN tree -> Nat]
  /\ watches \subseteq WatchableMethod \X Paths
  /\ state \in AdapterState
  /\ remaining \in Int /\ remaining <= ConnectTimeout
  /\ events \in Seq(SessionEvents \cup WatchEvents)
  /\ userEvents \in Seq(WatchEvents)
  /\ contexts \subseteq Contexts
  /\ mutex \in Threads \cup {NULL}
  /\ signalled \subseteq {t \in Threads : call[t].at = "wait"}
  /\ call \in [Threads -> Calls]
  /\ fired \subseteq Firings
  /\ terminating \in BOOLEAN
  /\ dispatching \subseteq {"processEvents", "processUserEvents"}

-----------------------------------------------------------------------------
(* The constructor, with or without establishConnection.  An adapter whose
   constructor throws, because its reconnect() got no handle, is not modelled. *)
Init ==
  /\ \/ handle = 1 /\ conn = "connecting" /\ state = "CONNECTING"
     \/ handle = 0 /\ conn = "none" /\ state = "DISCONNECTED"
  /\ sessions = handle
  /\ \E nodes \in Trees : tree = [p \in nodes |-> 0]
  /\ sequence = 0
  /\ watches = {}
  /\ remaining = ConnectTimeout
  /\ events = <<>>
  /\ userEvents = <<>>
  /\ contexts = {}
  /\ mutex = NULL
  /\ signalled = {}
  /\ call = [t \in Threads |-> Done("none")]
  /\ fired = {}
  /\ terminating = FALSE
  /\ dispatching = {"processEvents", "processUserEvents"}
  /\ calls = [t \in Threads |-> 0]
  /\ drops = 0
  /\ expiries = 0

-----------------------------------------------------------------------------
(* The connection *)

(* m_stateLock.notify(), n times, by thread t: pthread_cond_signal wakes one
   waiter each. *)
notify(t, n) ==
  LET asleep == {u \in Threads : call[u].at = "wait"} \ (signalled \cup {t})
      woken == {W \in SUBSET asleep :
                  Cardinality(W) = IF n < Cardinality(asleep) THEN n ELSE Cardinality(asleep)}
  IN  {(signalled \ {t}) \cup W : W \in woken}

(* Waiters hear of a state only when it changes. *)
setState(t, new) ==
  /\ state' = new
  /\ signalled' \in notify(t, IF new = state THEN 0 ELSE 1)

(* zookeeper_close and the requests that are out end with rc. *)
Ended(rc) ==
  [t \in Threads |-> IF call[t].at = "sent"
                     THEN [call[t] EXCEPT !.at = "back", !.rc = rc, !.lossy = TRUE]
                     ELSE call[t]]

(* disconnect(), by thread t. *)
disconnect(t) ==
  /\ handle' = 0
  /\ conn' = "none"
  /\ watches' = {}
  /\ setState(t, IF handle = 0 THEN state ELSE "DISCONNECTED")

(* reconnect(): close, zookeeper_init, reset the timeout.  ok: a handle came back. *)
reconnect(t, ok) ==
  LET closed == IF handle = 0 THEN state ELSE "DISCONNECTED"
      changes == {<<state, closed>>, <<closed, IF ok THEN "CONNECTING" ELSE closed>>}
  IN  /\ ok \/ InitFaults
      /\ handle' = IF ok THEN sessions + 1 ELSE 0
      /\ sessions' = IF ok THEN sessions + 1 ELSE sessions
      /\ conn' = IF ok THEN "connecting" ELSE "none"
      /\ watches' = {}
      /\ state' = IF ok THEN "CONNECTING" ELSE closed
      /\ remaining' = ConnectTimeout
      /\ signalled' \in notify(t, Cardinality({c \in changes : c[1] # c[2]}))

(* disconnect() and reconnect() called by the user. *)
Disconnect(t) ==
  /\ Idle(t) /\ ~terminating /\ calls[t] < MaxCalls
  /\ calls' = [calls EXCEPT ![t] = @ + 1]
  /\ disconnect(t)
  /\ call' = Ended("closing")
  /\ UNCHANGED <<sessions, tree, sequence, remaining, events, userEvents, contexts, mutex, fired,
                 terminating, dispatching, drops, expiries>>

Reconnect(t) ==
  /\ Idle(t) /\ ~terminating /\ calls[t] < MaxCalls
  /\ calls' = [calls EXCEPT ![t] = @ + 1]
  /\ \E ok \in BOOLEAN :
       /\ reconnect(t, ok)
       /\ call' = [Ended("closing") EXCEPT ![t] = Done(IF ok THEN "done" ELSE "throw")]
  /\ UNCHANGED <<tree, sequence, events, userEvents, contexts, mutex, fired, terminating,
                 dispatching, drops, expiries>>

(* verifyConnection() up to the point where the call may go on, throws, or begins
   to wait with what is left of the connect timeout (waitUntilConnected). *)
verifyConnection(t) ==
  /\ call[t].at = "verify"
  /\ state # "SESSION_EXPIRED" \/ ~AutoReconnect
  /\ call' = [call EXCEPT ![t] =
       IF state = "CONNECTED" THEN [@ EXCEPT !.at = "begin"]
       ELSE IF state = "CONNECTING" /\ remaining > 0
            THEN [@ EXCEPT !.at = "wait", !.timeout = remaining, !.toWait = remaining]
            ELSE Done("throw")]
  /\ UNCHANGED <<library, state, remaining, events, userEvents, contexts, mutex, signalled, fired,
                 terminating, dispatching, bounds>>

(* The session expired: reconnect() first. *)
verifyExpired(t) ==
  /\ call[t].at = "verify"
  /\ state = "SESSION_EXPIRED" /\ AutoReconnect
  /\ \E ok \in BOOLEAN :
       /\ reconnect(t, ok)
       /\ call' = [Ended("closing") EXCEPT ![t] =
            IF ok THEN [@ EXCEPT !.at = "wait", !.timeout = ConnectTimeout, !.toWait = ConnectTimeout]
            ELSE Done("throw")]
  /\ UNCHANGED <<tree, sequence, events, userEvents, contexts, mutex, fired, terminating,
                 dispatching, bounds>>

(* Mutant: the time waited is given back instead of taken off. *)
waitedGivesBack(t) ==
  /\ call[t].at = "wait"
  /\ \E left \in 0 .. call[t].toWait :
       /\ t \in signalled \/ left = 0
       /\ state = "CONNECTED" \/ left = 0
       /\ remaining' = remaining + (call[t].timeout - left)
       /\ call' = [call EXCEPT ![t] =
            IF state = "CONNECTED" THEN [@ EXCEPT !.at = "begin", !.timeout = 0, !.toWait = 0]
            ELSE Done("throw")]
  /\ signalled' = signalled \ {t}
  /\ UNCHANGED <<library, state, events, userEvents, contexts, mutex, fired, terminating,
                 dispatching, bounds>>

(* Mutant: wait() instead of wait(toWait). *)
waitForever(t) ==
  /\ call[t].at = "wait"
  /\ \E left \in 0 .. call[t].toWait :
       /\ t \in signalled
       /\ state = "CONNECTED" \/ left = 0
       /\ remaining' = remaining - (call[t].timeout - left)
       /\ call' = [call EXCEPT ![t] =
            IF state = "CONNECTED" THEN [@ EXCEPT !.at = "begin", !.timeout = 0, !.toWait = 0]
            ELSE Done("throw")]
  /\ signalled' = signalled \ {t}
  /\ UNCHANGED <<library, state, events, userEvents, contexts, mutex, fired, terminating,
                 dispatching, bounds>>

(* m_stateLock.wait(toWait) returns after some of the time when the caller was
   notified, after all of it otherwise; the loop of waitUntilConnected ends. *)
waitUntilConnected(t) ==
  /\ call[t].at = "wait"
  /\ \E left \in 0 .. call[t].toWait :
       /\ t \in signalled \/ left = 0
       /\ state = "CONNECTED" \/ left = 0
       /\ remaining' = remaining - (call[t].timeout - left)
       /\ call' = [call EXCEPT ![t] =
            IF state = "CONNECTED" THEN [@ EXCEPT !.at = "begin", !.timeout = 0, !.toWait = 0]
            ELSE Done("throw")]
  /\ signalled' = signalled \ {t}
  /\ UNCHANGED <<library, state, events, userEvents, contexts, mutex, fired, terminating,
                 dispatching, bounds>>

(* The loop goes on, reconnecting first if the session expired meanwhile. *)
waitAgain(t) ==
  /\ call[t].at = "wait" /\ t \in signalled /\ state # "CONNECTED"
  /\ \E left \in 1 .. call[t].toWait :
       \/ /\ state = "SESSION_EXPIRED"
          /\ \E ok \in BOOLEAN :
               /\ reconnect(t, ok)
               /\ call' = [Ended("closing") EXCEPT ![t] =
                             IF ok THEN [@ EXCEPT !.toWait = left] ELSE Done("throw")]
       \/ /\ state # "SESSION_EXPIRED"
          /\ signalled' = signalled \ {t}
          /\ call' = [call EXCEPT ![t].toWait = left]
          /\ UNCHANGED <<handle, sessions, conn, watches, state, remaining>>
  /\ UNCHANGED <<tree, sequence, events, userEvents, contexts, mutex, fired, terminating,
                 dispatching, bounds>>

-----------------------------------------------------------------------------
(* The client library and the server *)

MethodOf(op) ==
  CASE op = "nodeExists" -> "NODE_EXISTS"
    [] op = "getNodeChildren" -> "GET_NODE_CHILDREN"
    [] op = "getNodeData" -> "GET_NODE_DATA"

(* What call c asks the server for now, and of which node. *)
RequestOf(c) ==
  CASE c.phase = "ancestor" -> "createNode"
    [] c.phase = "list" -> "getNodeChildren"
    [] OTHER -> c.args.op

TargetOf(c) ==
  CASE c.phase = "ancestor" -> Front(c.args.path)
    [] c.phase = "child" -> CHOOSE p \in c.todo : TRUE
    [] OTHER -> c.args.path

Writes == {"createNode", "createSequence", "deleteNode", "setNodeData"}

Exists(p) == p = <<>> \/ p \in DOMAIN tree
ChildrenOf(p) == {q \in DOMAIN tree : Front(q) = p}

(* The node a request creates: with ZOO_SEQUENCE its name ends in the number. *)
CreatedPath(c) ==
  IF RequestOf(c) = "createSequence" THEN Append(Front(TargetOf(c)), 100 + sequence + 1)
  ELSE TargetOf(c)

Answer(c) ==
  LET p == TargetOf(c) IN
    CASE RequestOf(c) \in {"createNode", "createSequence"} ->
           (IF Exists(CreatedPath(c)) THEN "nodeexists"
            ELSE IF Exists(Front(p)) THEN "ok" ELSE "nonode")
      [] ~Exists(p) -> "nonode"
      [] RequestOf(c) = "deleteNode" /\ ChildrenOf(p) # {} -> "notempty"
      [] RequestOf(c) = "setNodeData" /\ c.args.version \notin {-1, tree[p]} -> "badversion"
      [] OTHER -> "ok"

(* The tree after the request of call c was carried out. *)
TreeAfter(c) ==
  CASE RequestOf(c) \in {"createNode", "createSequence"} ->
         [p \in DOMAIN tree \cup {CreatedPath(c)} |-> IF Exists(p) THEN tree[p] ELSE 0]
    [] RequestOf(c) = "deleteNode" -> [p \in DOMAIN tree \ {TargetOf(c)} |-> tree[p]]
    [] RequestOf(c) = "setNodeData" -> [tree EXCEPT ![TargetOf(c)] = @ + 1]
    [] OTHER -> tree

(* zkWatcher is called on a thread of the library and only puts the event in m_events. *)
enqueueEvent(es) == events' = events \o es

(* The watches an event ends, and the events of a change in their order. *)
EndedBy(e) ==
  LET methods == CASE e.type = "CREATED" -> {"NODE_EXISTS"}
                   [] e.type = "CHANGED" -> {"NODE_EXISTS", "GET_NODE_DATA"}
                   [] e.type = "DELETED" -> WatchableMethod
                   [] e.type = "CHILD" -> {"GET_NODE_CHILDREN"}
  IN  {<<m, e.path>> : m \in methods}

EventsOf(c) ==
  CASE RequestOf(c) \in {"createNode", "createSequence"} ->
         <<[type |-> "CREATED", path |-> CreatedPath(c)],
           [type |-> "CHILD", path |-> Front(CreatedPath(c))]>>
    [] RequestOf(c) = "deleteNode" ->
         <<[type |-> "DELETED", path |-> TargetOf(c)],
           [type |-> "CHILD", path |-> Front(TargetOf(c))]>>
    [] RequestOf(c) = "setNodeData" -> <<[type |-> "CHANGED", path |-> TargetOf(c)]>>
    [] OTHER -> <<>>

(* The request is carried out; zkWatcher gets an event for each watch it ends, and
   one of the session when the connection broke after it. *)
CarryOut(c, broken) ==
  LET done == IF Answer(c) = "ok" THEN EventsOf(c) ELSE <<>>
      watching == /\ c.phase = "first" /\ RequestOf(c) \notin Writes
                  /\ c.args.listener # NULL
                  /\ Answer(c) = "ok" \/ (Answer(c) = "nonode" /\ RequestOf(c) = "nodeExists")
      \* The event of a change at i, if it ends a watch.
      told(i) == IF i \in DOMAIN done /\ EndedBy(done[i]) \cap watches # {}
                 THEN <<done[i]>> ELSE <<>>
      kept == watches \ UNION {EndedBy(done[i]) : i \in DOMAIN done}
  IN  /\ tree' = IF Answer(c) = "ok" THEN TreeAfter(c) ELSE tree
      /\ sequence' = IF Answer(c) = "ok" /\ RequestOf(c) = "createSequence"
                     THEN sequence + 1 ELSE sequence
      /\ watches' = IF watching THEN kept \cup {<<MethodOf(RequestOf(c)), TargetOf(c)>>} ELSE kept
      /\ enqueueEvent(told(1) \o told(2) \o broken)

(* made: the request created or deleted the node the call is about. *)
Made(c) ==
  IF Answer(c) = "ok" /\ RequestOf(c) \in Writes \ {"setNodeData"}
     /\ c.phase \notin {"ancestor", "child"}
  THEN c.made + 1 ELSE c.made

(* Call c after its request was carried out; a listing brings the children. *)
Answered(c) ==
  [c EXCEPT !.at = "back", !.rc = Answer(c), !.made = Made(c),
            !.todo = IF c.phase = "list" /\ Answer(c) = "ok" THEN ChildrenOf(TargetOf(c)) ELSE @]

(* The server carries out the request of t and the answer comes back. *)
Serve(t) ==
  /\ call[t].at = "sent" /\ conn = "connected"
  /\ CarryOut(call[t], <<>>)
  /\ call' = [call EXCEPT ![t] = Answered(call[t])]
  /\ UNCHANGED <<handle, sessions, conn, state, remaining, userEvents, contexts, mutex, signalled,
                 fired, terminating, dispatching, bounds>>

(* The request is carried out and the connection breaks before the answer. *)
LoseAnswer(t) ==
  /\ call[t].at = "sent" /\ conn = "connected" /\ drops < MaxDrops
  /\ RequestOf(call[t]) \in Writes
  /\ CarryOut(call[t], <<[type |-> "SESSION", state |-> "CONNECTING"]>>)
  /\ conn' = "reconnecting"
  /\ drops' = drops + 1
  /\ call' = [Ended("connectionloss") EXCEPT ![t].made = Made(call[t])]
  /\ UNCHANGED <<handle, sessions, state, remaining, userEvents, contexts, mutex, signalled,
                 fired, terminating, dispatching, calls, expiries>>

(* The session of the handle is connected, loses its connection, expires.  The
   library tells zkWatcher. *)
SessionEvent(to, told) ==
  /\ conn' = to
  /\ enqueueEvent(<<[type |-> "SESSION", state |-> told]>>)
  /\ UNCHANGED <<handle, sessions, tree, sequence, state, remaining, userEvents, contexts, mutex,
                 signalled, fired, terminating, dispatching, calls>>

Connected ==
  /\ conn \in {"connecting", "reconnecting"}
  /\ SessionEvent("connected", "CONNECTED")
  /\ UNCHANGED <<watches, call, drops, expiries>>

Drop ==
  /\ conn = "connected" /\ drops < MaxDrops
  /\ SessionEvent("reconnecting", "CONNECTING")
  /\ drops' = drops + 1
  /\ call' = Ended("connectionloss")
  /\ UNCHANGED <<watches, expiries>>

Expire ==
  /\ conn = "reconnecting" /\ expiries < MaxExpiries
  /\ SessionEvent("expired", "EXPIRED")
  /\ expiries' = expiries + 1
  /\ call' = Ended("expired")
  /\ watches' = {}
  /\ UNCHANGED drops

(* A request made while there is no connection is given up by the library. *)
GiveUp(t) ==
  /\ call[t].at = "sent" /\ conn \in {"connecting", "reconnecting"}
  /\ call' = [call EXCEPT ![t].at = "back", ![t].rc = "connectionloss", ![t].lossy = TRUE]
  /\ UNCHANGED <<library, state, remaining, events, userEvents, contexts, mutex, signalled, fired,
                 terminating, dispatching, bounds>>

-----------------------------------------------------------------------------
(* The node operations: createNode, createSequence, deleteNode, nodeExists,
   getNodeChildren, getNodeData and setNodeData. *)

(* RetryHandler *)
Retries == IF AutoReconnect THEN 2 ELSE 0
handleRC(c) == c.rc = "connectionloss" /\ c.retries > 0

Call(t, args) ==
  /\ Idle(t) /\ ~terminating /\ calls[t] < MaxCalls
  /\ calls' = [calls EXCEPT ![t] = @ + 1]
  /\ call' = [call EXCEPT ![t] =
       [at |-> "verify", args |-> args, phase |-> "first", todo |-> {}, retries |-> Retries,
        timeout |-> 0, toWait |-> 0, session |-> 0, rc |-> "none", made |-> 0, lossy |-> FALSE]]
  /\ UNCHANGED <<library, state, remaining, events, userEvents, contexts, mutex, signalled, fired,
                 terminating, dispatching, drops, expiries>>

(* A reading call with a context holds m_zkContextsMutex over the request. *)
WithContext(c) == c.phase = "first" /\ RequestOf(c) \notin Writes /\ c.args.context

(* Mutant: m_zkContextsMutex is not acquired. *)
BeginUnlocked(t) ==
  /\ call[t].at = "begin"
  /\ call' = [call EXCEPT ![t] =
       CASE handle = 0 -> [@ EXCEPT !.at = "back", !.rc = "badarguments"]
         [] handle # 0 /\ conn = "expired" -> [@ EXCEPT !.at = "back", !.rc = "invalidstate"]
         [] OTHER -> [@ EXCEPT !.at = "sent", !.session = handle]]
  /\ UNCHANGED <<library, state, remaining, events, userEvents, contexts, mutex, signalled,
                 fired, terminating, dispatching, bounds>>

(* zoo_create and the like take mp_zkHandle, outside m_stateLock.  That the handle
   is closed between its being read and the library using it is not modelled. *)
Begin(t) ==
  /\ call[t].at = "begin"
  /\ WithContext(call[t]) => mutex \in {NULL, t}
  /\ mutex' = IF WithContext(call[t]) THEN t ELSE mutex
  /\ call' = [call EXCEPT ![t] =
       CASE handle = 0 -> [@ EXCEPT !.at = "back", !.rc = "badarguments"]
         [] handle # 0 /\ conn = "expired" -> [@ EXCEPT !.at = "back", !.rc = "invalidstate"]
         [] OTHER -> [@ EXCEPT !.at = "sent", !.session = handle]]
  /\ UNCHANGED <<library, state, remaining, events, userEvents, contexts, signalled, fired,
                 terminating, dispatching, bounds>>

(* registerContext: one context per method, path and listener, which may be NULL:
   such a context is kept although its request sets no watch. *)
registerContext(c, t) ==
  LET x == [method |-> MethodOf(RequestOf(c)), path |-> TargetOf(c), listener |-> c.args.listener,
            by |-> t, session |-> c.session]
  IN  {y \in contexts : <<y.method, y.path, y.listener>> # <<x.method, x.path, x.listener>>} \cup {x}

(* The next request of the call, with a RetryHandler of its own. *)
Again(c, phase, todo) ==
  [c EXCEPT !.at = "verify", !.rc = "none", !.session = 0, !.phase = phase, !.todo = todo,
            !.retries = Retries]

(* Mutant: ZNODEEXISTS counts as created. *)
createdIfExists(c) ==
  CASE c.rc \in {"ok", "nodeexists"} /\ c.phase # "ancestor" -> Done("true")
    [] c.rc \in {"ok", "nodeexists"} /\ c.phase = "ancestor" -> Again(c, "final", {})
    [] c.rc = "nonode" /\ c.phase = "first" /\ c.args.createAncestors -> Again(c, "ancestor", {})
    [] OTHER -> Done("throw")

(* createNode; a missing ancestor is created first, then the node without
   createAncestors. *)
afterCreate(c) ==
  CASE c.rc = "ok" /\ c.phase # "ancestor" -> Done("true")
    [] c.rc = "nodeexists" /\ c.phase # "ancestor" -> Done("false")
    [] c.rc \in {"ok", "nodeexists"} /\ c.phase = "ancestor" -> Again(c, "final", {})
    [] c.rc = "nonode" /\ c.phase = "first" /\ c.args.createAncestors -> Again(c, "ancestor", {})
    [] OTHER -> Done("throw")

(* deleteNode; recursive: list the children, delete each, then the node again. *)
afterDelete(c) ==
  LET next(todo) == Again(c, IF todo = {} THEN "final" ELSE "child", todo) IN
    CASE c.rc = "ok" /\ c.phase \in {"first", "final"} -> Done("true")
      [] c.rc = "nonode" /\ c.phase \in {"first", "final"} -> Done("false")
      [] c.rc = "notempty" /\ c.phase = "first" /\ c.args.recursive -> Again(c, "list", {})
      [] c.rc = "ok" /\ c.phase = "list" -> next(c.todo)
      [] c.rc \in {"ok", "nonode"} /\ c.phase = "child" -> next(c.todo \ {TargetOf(c)})
      [] OTHER -> Done("throw")

(* nodeExists knows a missing node from an error. *)
afterExists(c) ==
  CASE c.rc = "ok" -> Done("true")
    [] c.rc = "nonode" -> Done("false")
    [] OTHER -> Done("throw")

(* getNodeChildren, getNodeData and setNodeData do not. *)
OkOrThrow(c) == Done(IF c.rc = "ok" THEN "done" ELSE "throw")
afterChildren(c) == OkOrThrow(c)
afterData(c) == OkOrThrow(c)
afterSet(c) == OkOrThrow(c)

(* The request came back: register the context, retry, or go on. *)
Return(t) ==
  LET c == call[t] IN
  /\ c.at = "back"
  /\ contexts' = IF WithContext(c) /\ (c.rc = "ok" \/ (c.rc = "nonode" /\ c.args.op = "nodeExists"))
                 THEN registerContext(c, t) ELSE contexts
  /\ mutex' = IF mutex = t THEN NULL ELSE mutex
  /\ call' = [call EXCEPT ![t] =
       IF handleRC(c) THEN [Again(c, c.phase, c.todo) EXCEPT !.retries = c.retries - 1]
       ELSE CASE c.args.op \in {"createNode", "createSequence"} -> afterCreate(c)
              [] c.args.op = "deleteNode" -> afterDelete(c)
              [] c.args.op = "nodeExists" -> afterExists(c)
              [] c.args.op = "getNodeChildren" -> afterChildren(c)
              [] c.args.op = "getNodeData" -> afterData(c)
              [] c.args.op = "setNodeData" -> afterSet(c)]
  /\ UNCHANGED <<library, state, remaining, events, userEvents, signalled, fired, terminating,
                 dispatching, bounds>>

-----------------------------------------------------------------------------
(* The dispatchers *)

(* The loop of a dispatcher looks at m_terminating before it takes again. *)
LoopEnd(d) == dispatching' = IF terminating THEN dispatching \ {d} ELSE dispatching

(* processEvents follows the session and passes every event on.  A session event
   only ever reaches the listeners without a context: it is not kept. *)
processEvents ==
  /\ "processEvents" \in dispatching /\ events # <<>>
  /\ LET e == Head(events) IN
       /\ IF e.type = "SESSION"
          THEN /\ setState(NULL, IF e.state = "EXPIRED" THEN "SESSION_EXPIRED" ELSE e.state)
               /\ remaining' = IF e.state = "CONNECTED" THEN ConnectTimeout ELSE remaining
               /\ UNCHANGED userEvents
          ELSE /\ userEvents' = Append(userEvents, e)
               /\ UNCHANGED <<state, remaining, signalled>>
  /\ events' = Tail(events)
  /\ LoopEnd("processEvents")
  /\ UNCHANGED <<library, contexts, mutex, call, fired, terminating, bounds>>

(* findAndRemoveListenerContext, and the methods an event is looked up under. *)
LookedUp(e) ==
  CASE e.type \in {"CHANGED", "DELETED"} -> {"GET_NODE_DATA", "NODE_EXISTS"}
    [] e.type = "CHILD" -> {"GET_NODE_CHILDREN"}
    [] e.type = "CREATED" -> {"NODE_EXISTS"}
FoundFor(e) == {x \in contexts : x.method \in LookedUp(e) /\ x.path = e.path}

(* The listeners of the contexts found are told; a context without a listener is
   given to every listener. *)
fireEvent(found) ==
  fired' = fired \cup {f \in Firings : \E x \in found : /\ f[2] = x.by /\ f[3] = x.listener
                                                      /\ x.listener \in {f[1], NULL}}

(* Mutant: what a change or a deletion found for nodeExists is not handed on. *)
handleFirstContext(e) ==
  /\ mutex = NULL
  /\ contexts' = contexts \ FoundFor(e)
  /\ fireEvent({x \in FoundFor(e) : e.type = "CREATED" \/ x.method # "NODE_EXISTS"})

(* handleEvent: the contexts found are removed and their listeners told; without
   any, every listener of the event source is told, with no context, which leaves
   nothing behind here. *)
handleEvent(e) ==
  /\ mutex = NULL
  /\ contexts' = contexts \ FoundFor(e)
  /\ fireEvent(FoundFor(e))

processUserEvents ==
  /\ "processUserEvents" \in dispatching /\ userEvents # <<>>
  /\ handleEvent(Head(userEvents))
  /\ userEvents' = Tail(userEvents)
  /\ LoopEnd("processUserEvents")
  /\ UNCHANGED <<library, state, remaining, events, mutex, signalled, call, terminating, bounds>>

(* Mutant: processUserEvents takes without a timeout. *)
TakeUntimed(d) ==
  /\ d = "processEvents" /\ d \in dispatching /\ terminating /\ events = <<>>
  /\ dispatching' = dispatching \ {d}
  /\ UNCHANGED <<library, state, remaining, events, userEvents, contexts, mutex, signalled, call,
                 fired, terminating, bounds>>

(* take(100, &timedOut) times out on an empty queue. *)
TakeTimesOut(d) ==
  /\ d \in dispatching /\ terminating
  /\ (IF d = "processEvents" THEN events ELSE userEvents) = <<>>
  /\ dispatching' = dispatching \ {d}
  /\ UNCHANGED <<library, state, remaining, events, userEvents, contexts, mutex, signalled, call,
                 fired, terminating, bounds>>

(* ~ZooKeeperAdapter, when nobody is in a call. *)
Destroy ==
  /\ ~terminating /\ \A t \in Threads : Idle(t)
  /\ disconnect(NULL)
  /\ terminating' = TRUE
  /\ UNCHANGED <<sessions, tree, sequence, remaining, events, userEvents, contexts, mutex, call,
                 fired, dispatching, bounds>>

-----------------------------------------------------------------------------
Next ==
  \/ \E t \in Threads :
       \/ Disconnect(t) \/ Reconnect(t)
       \/ \E args \in Inputs[t] : Call(t, args)
       \/ verifyConnection(t) \/ verifyExpired(t) \/ waitUntilConnected(t) \/ waitAgain(t)
       \/ Begin(t) \/ Serve(t) \/ LoseAnswer(t) \/ GiveUp(t) \/ Return(t)
  \/ Connected \/ Drop \/ Expire
  \/ processEvents \/ processUserEvents
  \/ \E d \in {"processEvents", "processUserEvents"} : TakeTimesOut(d)
  \/ Destroy

Spec == Init /\ [][Next]_vars

(* Threads run and every wait is timed; the library answers, gives up or loses
   every request.  Nothing makes the connection come back or anybody call. *)
ThreadStep(t) ==
  \/ verifyConnection(t) \/ verifyExpired(t)
  \/ waitUntilConnected(t) \/ waitAgain(t)
  \/ Begin(t) \/ Return(t)

Fairness ==
  /\ \A t \in Threads : WF_vars(ThreadStep(t)) /\ WF_vars(Serve(t) \/ GiveUp(t))
  /\ WF_vars(processEvents \/ TakeTimesOut("processEvents"))
  /\ WF_vars(processUserEvents \/ TakeTimesOut("processUserEvents"))

FairSpec == Spec /\ Fairness

-----------------------------------------------------------------------------
(* Properties *)

(* Something will come for context x: its watch is set, or an event that finds the
   context is still on its way through m_events and m_userEvents. *)
IsBacked(x) ==
  \/ <<x.method, x.path>> \in watches
  \/ \E e \in Range(events \o userEvents) : e.type # "SESSION" /\ x \in FoundFor(e)

(* A context that nodeExists or getNodeData registered together with a listener in
   the current session is backed.  m_zkContextsMutex is what keeps the event of a
   watch from being handled before the call that set the watch has registered the
   context.  Two kinds of context are left out because the code does leave them
   behind: those of getNodeChildren, whose watch a deletion ends with an event that
   is not looked up under GET_NODE_CHILDREN (handleEvent), and those passed without
   a listener, which are registered though no watch is set (registerContext). *)
ContextsBacked ==
  \A x \in contexts :
    x.session = handle /\ conn # "expired" /\ x.method # "GET_NODE_CHILDREN" /\ x.listener # NULL
      => IsBacked(x)

(* What a call reports of its own node, over all its retries: true only if one of
   its requests created or deleted the node, and only one did unless an answer
   was lost; false although one did only if an answer was lost. *)
ResultsReported ==
  [][\A t \in Threads :
       LET c == call[t] IN
       c.at = "back" /\ call'[t].at = "idle" /\ c.args.op \in Writes \ {"setNodeData"} =>
         /\ call'[t].result = "true" => c.made > 0
         /\ ~c.lossy => c.made = IF call'[t].result = "true" THEN 1 ELSE 0]_vars

(* Every operation returns or throws: no wait on the connection, on the contexts'
   mutex or on an answer lasts for ever, though nothing promises a connection. *)
CallsReturn == \A t \in Threads : ~Idle(t) ~> Idle(t)

(* A listener whose watch has gone off is given the context it left, unless the
   session is given up first (handleEvent, processUserEvents).  Contexts of
   getNodeChildren are left out: the deletion of the node leaves them behind. *)
WatchNotified ==
  \A l \in Listeners :
    (\E x \in contexts : /\ x.listener = l /\ x.session = handle
                         /\ x.method # "GET_NODE_CHILDREN"
                         /\ <<x.method, x.path>> \notin watches)
    ~> (\E t \in Threads : <<l, t, l>> \in fired) \/ sessions > 1 \/ conn \in {"none", "expired"}

(* The destructor's joins return: both dispatchers see m_terminating. *)
JoinsReturn == terminating ~> dispatching = {}
=============================================================================
