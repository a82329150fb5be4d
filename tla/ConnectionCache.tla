-------------------------- MODULE ConnectionCache --------------------------
(***************************************************************************)
(* One process reaching a service through its connection cache             *)
(* (infra/ConnectionCache.cpp) while that service starts, stops and starts *)
(* again (infra/Service.cpp).  The service writes its address to its node  *)
(* in ZooKeeper and announces it on TOPIC_SERVICES; the cache fetches the  *)
(* node on a miss and follows the topic from then on.                      *)
(*                                                                         *)
(* Threads: Callers, the ZooKeeper completion thread, the Kafka consume    *)
(* thread and the event base eb_ of the one ConnectionItem.  An event base *)
(* has two queues: what other threads give it with via() goes to its       *)
(* notification queue, what is given on its own thread to the callbacks of *)
(* its loop.  Each queue is served in order, neither before the other.     *)
(***************************************************************************)
EXTENDS Integers, Sequences

Nobody == "nobody"  \* no caller waits for an announcement's update

CONSTANTS
  Callers,     \* threads that send messages to the service
  Local,       \* the callers that run on the item's event base (the io thread pool)
  Addrs,       \* addresses (ip and port) the service may be started with
  MaxStarts,   \* bound: starts of the service
  ZkFaults,    \* may ZooKeeper's client fail a request?
  KafkaFaults  \* may the announcement be lost on its way to the topic?

ASSUME CacheAssumption ==
  /\ MaxStarts \in Nat
  /\ Local \subseteq Callers
  /\ {ZkFaults, KafkaFaults} \subseteq BOOLEAN
  /\ Nobody \notin Callers

VARIABLES
  node,     \* version and payload of the service's node, version -1: no node
  svc,      \* the service's process
  topic,    \* TOPIC_SERVICES, from the position of this process's consumer
  gets,     \* gets sent to ZooKeeper, in order, not yet served
  answers,  \* their results, in order, on the way to the completion thread
  early,    \* results that came before the caller gave get() its continuation
  cached,   \* does connections_ have an item for the service?
  channel,  \* channel_ of that item
  tasks,    \* the queues of the item's event base
  call      \* the getHeaderClientChannel or send each caller is in

service == <<node, svc, topic>>
cache == <<cached, channel, tasks>>
fetches == <<gets, answers, early>>
vars == <<service, fetches, cache, call>>

-----------------------------------------------------------------------------
(* Types *)

(* A ServiceInfo with the version of the node it was written as; every start of
   the service writes the node once at most. *)
Infos == [version : -1 .. MaxStarts, addr : Addrs]
Tasks == [op : {"update"}, info : Infos, by : Callers \cup {Nobody}]
           \cup [op : {"getChannel"}, by : Callers]
Answers == [by : Callers, rc : {"ok", "nonode", "lost"}, info : Infos]
Queues == {"notified", "loop"}

(* A channel_: to which address, and what became of the connection.  peer is the
   start of the service that accepted it, 0 when the connection was refused. *)
NoChannel == [state |-> "null"]
Channels == {NoChannel}
              \cup [state : {"connecting"}, addr : Addrs]
              \cup [state : {"done"}, addr : Addrs, peer : 0 .. MaxStarts]

(* What a caller does or holds: it has sent a get and not given it a continuation
   yet ("asking"), waits for the promise, or holds the item's channel ("open"), a
   channel that update closed under it, an item's channel that is null, the null of
   a miss, or an exception. *)
CallStates == {"idle", "asking", "waiting", "open", "closed", "null", "miss", "exception"}

TypeOK ==
  /\ node \in Infos
  /\ svc \in [at : {"down", "init", "member", "set", "ready", "up"}, addr : Addrs,
              start : 0 .. MaxStarts, version : -1 .. MaxStarts]
  /\ topic \in Seq(Infos)
  /\ gets \in Seq(Callers)
  /\ answers \in Seq(Answers)
  /\ early \subseteq Answers
  /\ cached \in BOOLEAN
  /\ channel \in Channels
  /\ tasks \in [Queues -> Seq(Tasks)]
  /\ call \in [Callers -> CallStates]

(* Mutant: the item is made with version 0. *)
versionZero == 0

(* The item is made with version_(-1), and update never assigns it. *)
version_ == -1

Init ==
  /\ \E a \in Addrs :
       /\ node = [version |-> -1, addr |-> a]
       /\ svc = [at |-> "down", addr |-> a, start |-> 0, version |-> -1]
  /\ topic = <<>>
  /\ gets = <<>>
  /\ answers = <<>>
  /\ early = {}
  /\ cached = FALSE
  /\ channel = NoChannel
  /\ tasks = [q \in Queues |-> <<>>]
  /\ call = [c \in Callers |-> "idle"]

-----------------------------------------------------------------------------
(* The service *)

(* ConfigService::addService has created the service's node. *)
addService ==
  /\ node.version = -1
  /\ node' = [node EXCEPT !.version = 0]
  /\ UNCHANGED <<svc, topic, fetches, cache, call>>

(* A new process: Service::Service with a ServiceInfo, then init. *)
StartService(a) ==
  /\ svc.at = "down"
  /\ svc.start < MaxStarts
  /\ svc' = [at |-> "init", addr |-> a, start |-> svc.start + 1, version |-> -1]
  /\ UNCHANGED <<node, topic, fetches, cache, call>>

(* Throws out of init when the node is missing or cannot be read. *)
ensureDatasphereMembership_ ==
  /\ svc.at = "init"
  /\ \/ node.version # -1 /\ svc' = [svc EXCEPT !.at = "member"]
     \/ (node.version = -1 \/ ZkFaults) /\ svc' = [svc EXCEPT !.at = "down"]
  /\ UNCHANGED <<node, topic, fetches, cache, call>>

(* Mutant: a lost connection is met by setting again. *)
SetAgain ==
  /\ svc.at = "member"
  /\ node' = [version |-> node.version + 1, addr |-> svc.addr]
  /\ \/ svc' = [svc EXCEPT !.at = "set", !.version = node.version + 1]
     \/ ZkFaults /\ svc' = svc
  /\ UNCHANGED <<topic, fetches, cache, call>>

(* publishServiceInfomation_, first half: set with version -1 and wait.  A lost
   connection, after the set or before it, is rethrown and ends init. *)
SetServiceInfo ==
  /\ svc.at = "member"
  /\ \/ /\ node' = [version |-> node.version + 1, addr |-> svc.addr]
        /\ svc' = [svc EXCEPT !.at = "set", !.version = node.version + 1]
     \/ /\ ZkFaults
        /\ node' \in {node, [version |-> node.version + 1, addr |-> svc.addr]}
        /\ svc' = [svc EXCEPT !.at = "down"]
  /\ UNCHANGED <<topic, fetches, cache, call>>

(* Second half: announce what was set.  The status of publishMessage is not
   looked at, and the server does not listen yet. *)
publishServiceInfomation_ ==
  /\ svc.at = "set"
  /\ \/ topic' = Append(topic, [version |-> svc.version, addr |-> svc.addr])
     \/ KafkaFaults /\ topic' = topic
  /\ svc' = [svc EXCEPT !.at = "ready"]
  /\ UNCHANGED <<node, fetches, cache, call>>

(* server_->start(): from here the service accepts connections. *)
run ==
  /\ svc.at = "ready"
  /\ svc' = [svc EXCEPT !.at = "up"]
  /\ UNCHANGED <<node, topic, fetches, cache, call>>

(* The process is shut down or killed; nothing of it is withdrawn. *)
shutdown ==
  /\ svc.at # "down"
  /\ svc' = [svc EXCEPT !.at = "down"]
  /\ UNCHANGED <<node, topic, fetches, cache, call>>

-----------------------------------------------------------------------------
(* The connection cache *)

(* What a caller gets that is answered with channel x. *)
Given(x) == IF x = NoChannel THEN "null" ELSE "open"

(* Work given to the event base by caller c, and by any other thread. *)
QueueOf(c) == IF c \in Local THEN "loop" ELSE "notified"
via(q, t)  == tasks' = [tasks EXCEPT ![q] = Append(@, t)]

(* The event base is not inside getHeaderClientChannel, called on its own thread. *)
LoopFree   == \A c \in Local : call[c] # "asking"
MayCall(c) == call[c] = "idle" /\ (c \in Local => LoopFree)

(* A hit runs on the item's event base, a miss asks ZooKeeper. *)
getHeaderClientChannel(c) ==
  /\ MayCall(c)
  /\ \/ /\ cached
        /\ via(QueueOf(c), [op |-> "getChannel", by |-> c])
        /\ call' = [call EXCEPT ![c] = "waiting"]
        /\ gets' = gets
     \/ /\ ~cached
        /\ gets' = Append(gets, c)
        /\ call' = [call EXCEPT ![c] = "asking"]
        /\ tasks' = tasks
  /\ UNCHANGED <<service, answers, early, cached, channel>>

(* Never asks ZooKeeper: a miss is a null channel. *)
getHeaderClientChannelFromCache(c) ==
  /\ MayCall(c)
  /\ \/ /\ cached
        /\ via(QueueOf(c), [op |-> "getChannel", by |-> c])
        /\ call' = [call EXCEPT ![c] = "waiting"]
     \/ /\ ~cached
        /\ call' = [call EXCEPT ![c] = "miss"]
        /\ tasks' = tasks
  /\ UNCHANGED <<service, fetches, cached, channel>>

(* ZooKeeper serves the oldest get, or its client gives it up. *)
ServeGet ==
  /\ gets # <<>>
  /\ \E rc \in {IF node.version = -1 THEN "nonode" ELSE "ok"}
                 \cup IF ZkFaults THEN {"lost"} ELSE {} :
       answers' = Append(answers, [by |-> Head(gets), rc |-> rc, info |-> node])
  /\ gets' = Tail(gets)
  /\ UNCHANGED <<service, early, cache, call>>

(* Under connectionsMutex_: make the item if asked to, and give its event base
   the update. *)
updateConnection_(info, createIfMissing, by, q) ==
  /\ cached \/ createIfMissing
  /\ cached' = TRUE
  /\ via(q, [op |-> "update", info |-> info, by |-> by])

(* Mutant: a failed get is logged and not answered. *)
dropError(a, q) ==
  /\ \/ a.rc = "ok" /\ updateConnection_(a.info, TRUE, a.by, q)
     \/ a.rc # "ok" /\ UNCHANGED <<cached, tasks>>
  /\ call' = [call EXCEPT ![a.by] = "waiting"]

(* The continuation of get, on a thread whose work for the event base goes to q. *)
Fetched(a, q) ==
  \/ /\ a.rc = "ok"
     /\ updateConnection_(a.info, TRUE, a.by, q)
     /\ call' = [call EXCEPT ![a.by] = "waiting"]
  \/ /\ a.rc # "ok"
     /\ call' = [call EXCEPT ![a.by] = "exception"]
     /\ UNCHANGED <<cached, tasks>>

(* dataCompletionCb fulfils the promise of get; a continuation that is there runs
   on the completion thread. *)
dataCompletionCb ==
  /\ answers # <<>>
  /\ answers' = Tail(answers)
  /\ LET a == Head(answers) IN
       \/ /\ call[a.by] = "asking"
          /\ early' = early \cup {a}
          /\ UNCHANGED <<cached, tasks, call>>
       \/ /\ call[a.by] # "asking"
          /\ Fetched(a, "notified")
          /\ early' = early
  /\ UNCHANGED <<service, gets, channel>>

(* Mutant: a result that is there already is used and not taken. *)
thenKeepsResult(c) ==
  /\ call[c] = "asking"
  /\ \/ \E a \in early : a.by = c /\ Fetched(a, QueueOf(c))
     \/ /\ \A a \in early : a.by # c
        /\ call' = [call EXCEPT ![c] = "waiting"]
        /\ UNCHANGED <<cached, tasks>>
  /\ UNCHANGED <<service, fetches, channel>>

(* get(...).then(...): the caller gives the continuation and returns; a result that
   is there already runs it on the caller's own thread. *)
then(c) ==
  /\ call[c] = "asking"
  /\ \/ \E a \in early :
          /\ a.by = c
          /\ Fetched(a, QueueOf(c))
          /\ early' = early \ {a}
     \/ /\ \A a \in early : a.by # c
        /\ call' = [call EXCEPT ![c] = "waiting"]
        /\ UNCHANGED <<early, cached, tasks>>
  /\ UNCHANGED <<service, gets, answers, channel>>

(* Mutant: an announcement is ignored when there is an item already. *)
keepItem ==
  /\ topic # <<>>
  /\ topic' = Tail(topic)
  /\ UNCHANGED <<node, svc, fetches, cache, call>>

(* The callback init() subscribes to TOPIC_SERVICES. *)
receiveUpdate ==
  /\ topic # <<>>
  /\ topic' = Tail(topic)
  /\ \/ updateConnection_(Head(topic), FALSE, Nobody, "notified")
     \/ ~cached /\ UNCHANGED <<cached, tasks>>
  /\ UNCHANGED <<node, svc, fetches, channel, call>>

(* The event base takes the oldest task of one of its queues. *)
Takes(q, op) ==
  /\ LoopFree
  /\ tasks[q] # <<>>
  /\ Head(tasks[q]).op = op
  /\ tasks' = [tasks EXCEPT ![q] = Tail(@)]

(* ConnectionItem::update, on the event base. *)
update(q) ==
  /\ Takes(q, "update")
  /\ LET t     == Head(tasks[q])
         newer == t.info.version > version_
     IN  /\ channel' = IF newer THEN [state |-> "connecting", addr |-> t.info.addr] ELSE channel
         /\ call' = [c \in Callers |->
                       IF c = t.by THEN Given(channel')
                       ELSE IF newer /\ call[c] = "open" THEN "closed" ELSE call[c]]
  /\ UNCHANGED <<service, fetches, cached>>

(* ConnectionItem::getChannel, on the event base. *)
getChannel(q) ==
  /\ Takes(q, "getChannel")
  /\ call' = [call EXCEPT ![Head(tasks[q]).by] = Given(channel)]
  /\ UNCHANGED <<service, fetches, cached, channel>>

(* The outcome of the connect that newSocket started: the service listens at the
   address, or the connection is refused, and nothing connects again. *)
Connect ==
  /\ channel.state = "connecting"
  /\ channel' = [state |-> "done", addr |-> channel.addr,
                 peer |-> IF svc.at = "up" /\ svc.addr = channel.addr THEN svc.start ELSE 0]
  /\ UNCHANGED <<service, fetches, cached, tasks, call>>

(* The item's channel is a connection to the running service. *)
Reaches ==
  channel.state = "done" /\ channel.peer = svc.start /\ svc.at = "up"

(* getAsyncClient and the caller's one message over what it was given; the
   message, its answer or the exception end the call. *)
sendKVBMessage(c) ==
  /\ call[c] \notin {"idle", "asking", "waiting"}
  /\ call[c] = "open" => channel.state = "done"
  /\ call' = [call EXCEPT ![c] = "idle"]
  /\ UNCHANGED <<service, fetches, cache>>

-----------------------------------------------------------------------------
Next ==
  \/ addService
  \/ \E a \in Addrs : StartService(a)
  \/ ensureDatasphereMembership_
  \/ SetServiceInfo
  \/ publishServiceInfomation_
  \/ run
  \/ shutdown
  \/ \E c \in Callers :
       \/ getHeaderClientChannel(c)
       \/ then(c)
       \/ getHeaderClientChannelFromCache(c)
       \/ sendKVBMessage(c)
  \/ ServeGet
  \/ dataCompletionCb
  \/ receiveUpdate
  \/ \E q \in Queues : update(q) \/ getChannel(q)
  \/ Connect

Spec == Init /\ [][Next]_vars

(* The threads of the process run, the event base serves both its queues in every
   round of its loop, ZooKeeper's client answers or fails every get, and a connect
   ends within CONNECTION_TIMEOUT_MS.  Nothing makes the service start, stop or go
   on, and no caller has to call. *)
Fairness ==
  /\ WF_vars(ServeGet)
  /\ WF_vars(dataCompletionCb)
  /\ WF_vars(receiveUpdate)
  /\ \A c \in Callers : WF_vars(then(c))
  /\ \A q \in Queues : WF_vars(update(q) \/ getChannel(q))
  /\ WF_vars(Connect)

FairSpec == Spec /\ Fairness

-----------------------------------------------------------------------------
(* Properties *)

(* ServiceTest::connectioncache, "connCache1 should have service2": whoever finds the
   service in connections_ is given a channel of it (insert and update are one
   critical section, and getChannel and update run on the item's event base). *)
NoNullChannel == \A c \in Callers : call[c] # "null"

(* A call for a channel is under way. *)
Pending(c) == call[c] \in {"asking", "waiting"}

(* The caller's call went to ZooKeeper: its get, the answer, or the update made of
   the answer is on its way. *)
Fetching(c) ==
  \/ \E i \in DOMAIN gets : gets[i] = c
  \/ \E i \in DOMAIN answers : answers[i].by = c
  \/ \E a \in early : a.by = c
  \/ \E q \in Queues : \E i \in DOMAIN tasks[q] :
       tasks[q][i].op = "update" /\ tasks[q][i].by = c

(* A caller that missed and fetched the node is given an open channel or the
   exception of its get, never null, whatever others fetch, announce and put into
   the event base's queues meanwhile: every info it can have fetched is newer than
   version_, and nothing but its own update answers it (getHeaderClientChannel,
   updateConnection_, update). *)
FetchGivesChannel ==
  [][\A c \in Callers :
       Fetching(c) /\ Pending(c) /\ ~Pending(c)' => call'[c] \in {"open", "exception"}]_vars

(* Where a call for a channel is: a get, its answer, or a task of the event base. *)
Places(c) ==
  {<<"get", i>> : i \in {k \in DOMAIN gets : gets[k] = c}}
    \cup {<<"answer", i>> : i \in {k \in DOMAIN answers : answers[k].by = c}}
    \cup {<<"early", a>> : a \in {b \in early : b.by = c}}
    \cup UNION {{<<q, i>> : i \in {k \in DOMAIN tasks[q] : tasks[q][k].by = c}} : q \in Queues}

(* Every promise is fulfilled once: a caller with a call under way is in one place,
   so that no path loses it, and nobody else is in any, so that no promise is set
   twice (getHeaderClientChannel, the continuation of get, update and getChannel). *)
OnePromiseEach ==
  \A c \in Callers :
    IF Pending(c) THEN \E x \in Places(c) : Places(c) = {x} ELSE Places(c) = {}

(* Every call for a channel is answered, with a channel or an exception, whatever
   the gets, announcements and updates of the others do (getHeaderClientChannel). *)
CallsAnswered == \A c \in Callers : Pending(c) ~> ~Pending(c)

(* A service that comes back is reached again: an announcement that finds the
   item, the service listening and no fetch on its way makes the item's channel a
   connection to the running process (updateConnection_, update). *)
AnnouncementReconnects ==
  /\ cached
  /\ svc.at = "up"
  /\ gets = <<>> /\ answers = <<>> /\ early = {}
  /\ \A i \in DOMAIN tasks["loop"] : tasks["loop"][i].op # "update"
  /\ \E i \in DOMAIN topic : topic[i].version = svc.version
  ~> Reaches \/ svc.at # "up"
=============================================================================
