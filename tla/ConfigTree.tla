----------------------------- MODULE ConfigTree -----------------------------
(***************************************************************************)
(* Configuration of one data sphere: the configuration service             *)
(* (configservice/ConfigService.cpp), the ZooKeeper tree it writes, the    *)
(* Kafka topic it announces volumes on, and the resource manager of every  *)
(* volume server (infra/PBResourceMgr.tcc), which reads the tree and then  *)
(* subscribes to the topic.                                                *)
(*                                                                         *)
(* The service's RPCs run on Workers, threads that block in Future::get.   *)
(* Rings and volumes are managed on one event base (eb_): what runs there  *)
(* is one atomic action.  createIncludingAncestors is one request to the   *)
(* tree; of its ancestors only the root of the rings can be told apart.    *)
(***************************************************************************)
EXTENDS Integers, Sequences, FiniteSets

CONSTANTS
  Services,       \* ids of services that may be added
  VolumeServers,  \* the services of type VOLUME_SERVER
  Started,        \* bound: the volume servers whose process is ever started
  Names,          \* names of volumes
  Workers,        \* threads of the service's ThreadManager
  ReplicaFactor,  \* replicaFactor_
  MaxCalls,       \* bound: RPCs to the configuration service
  MaxCrashes,     \* bound: processes killed from outside
  MaxLosses,      \* bound: lost connections between the service and ZooKeeper
  KafkaFaults     \* may a message be lost on its way to the topic?

ASSUME ServicesAssumption == Started \subseteq VolumeServers /\ VolumeServers \subseteq Services
ASSUME ReplicaAssumption == ReplicaFactor \in Nat \ {0}
ASSUME TreeBoundsAssumption ==
  /\ {MaxCalls, MaxCrashes, MaxLosses} \subseteq Nat
  /\ KafkaFaults \in BOOLEAN

VARIABLES
  \* ZooKeeper and Kafka.
  treeSphere,      \* does the sphere's node exist?
  treeServices,    \* ids of the service nodes
  ringsRoot,       \* does the parent node of the rings exist?
  treeRings,       \* the ring nodes
  treeVolumes,     \* the resource nodes, as created
  erased,          \* ids of the resource nodes whose payload is gone
  topic,           \* TOPIC_PB_SPHERE_RESOURCES: volumes in the order announced
  \* The configuration service: one process, its tables in memory only.
  sphere,          \* is the sphere in datasphereTable_?
  serviceCache,    \* serviceCache_
  pendingServices, \* pendingServices_
  rings,           \* rings_
  nextAddRingId,   \* nextAddRingId_
  resources,       \* resources_
  nextResourceId,  \* nextResourceId_
  call,            \* the RPC each worker is in
  reqs,            \* creates of rings and volumes on their way to the tree
  conts,           \* their results, queued on eb_
  \* The volume servers.
  server,          \* where a server's start is
  ringTable,       \* ringTable_
  resourceTable,   \* keys of resourceTable_
  offset,          \* position of the consumer in the topic
  committed,       \* committed position of the consumer group, or -1
  \* Bounds.
  calls, crashes, losses

tree == <<treeSphere, treeServices, ringsRoot, treeRings, treeVolumes, erased>>
tables == <<sphere, serviceCache, pendingServices, rings, nextAddRingId, resources,
            nextResourceId>>
servers == <<server, ringTable, resourceTable, offset, committed>>
vars == <<tree, topic, tables, call, reqs, conts, servers, calls, crashes, losses>>

-----------------------------------------------------------------------------
(* Types *)

Rings == [id : Nat, memberIds : Seq(VolumeServers)]
Volumes == [id : Nat, name : Names, ringId : Nat]

Codes == {"ok", "exists", "lost"}

Idle == [op |-> "none"]

Calls ==
  {Idle}
    \cup [op : {"addDataSphere"}, at : {"create"} \cup Codes]
    \cup [op : {"addService"}, arg : Services, at : {"create", "eb", "ring"} \cup Codes]
    \cup [op : {"addVolume"}, arg : Names, at : {"eb", "volume"}]

(* A create that the event base issues, and the RPC that waits for it. *)
Requests ==
  [kind : {"ring"}, node : Rings, by : Workers] \cup [kind : {"volume"}, node : Volumes, by : Workers]

Results ==
  [kind : {"ring"}, node : Rings, by : Workers, rc : Codes]
    \cup [kind : {"volume"}, node : Volumes, by : Workers, rc : Codes]

Members(ring) == {ring.memberIds[i] : i \in DOMAIN ring.memberIds}

HasId(S, id) == \E x \in S : x.id = id

(* table[x.id] = x *)
Put(table, x) == {y \in table : y.id # x.id} \cup {x}

(* isRingMember(ringTable_[ringId], s): operator[] makes an empty ring of an
   unknown id, and nobody is a member of it. *)
isRingMember(table, ringId, s) == \E r \in table : r.id = ringId /\ s \in Members(r)

-----------------------------------------------------------------------------
Init ==
  /\ treeSphere = FALSE
  /\ treeServices = {}
  /\ ringsRoot = FALSE
  /\ treeRings = {}
  /\ treeVolumes = {}
  /\ erased = {}
  /\ topic = <<>>
  /\ sphere = FALSE
  /\ serviceCache = {}
  /\ pendingServices = <<>>
  /\ rings = {}
  /\ nextAddRingId = 0
  /\ resources = {}
  /\ nextResourceId = 0
  /\ call = [t \in Workers |-> Idle]
  /\ reqs = <<>>
  /\ conts = <<>>
  /\ server = [s \in Started |-> "down"]
  /\ ringTable = [s \in Started |-> {}]
  /\ resourceTable = [s \in Started |-> {}]
  /\ offset = [s \in Started |-> 0]
  /\ committed = [s \in Started |-> -1]
  /\ calls = 0
  /\ crashes = 0
  /\ losses = 0

-----------------------------------------------------------------------------
(* The tree *)

(* The workers whose thread waits for its own create. *)
Creating == {t \in Workers : call[t] # Idle /\ call[t].at = "create"}

(* The creates of the workers T take effect. *)
CreateFor(T) ==
  /\ treeSphere' = (treeSphere \/ \E t \in T : call[t].op = "addDataSphere")
  /\ treeServices' = treeServices
       \cup {s \in Services : \E t \in T : call[t].op = "addService" /\ call[t].arg = s}

(* The first n creates of the event base take effect; a node that exists is
   left alone.  A ring is created under the root its ancestors' creates left. *)
CreateNodes(n) ==
  LET done == {reqs[i] : i \in 1 .. n} IN
  /\ \A r \in done : r.kind = "ring" => ringsRoot
  /\ treeRings' = treeRings
       \cup {r.node : r \in {q \in done : q.kind = "ring" /\ ~HasId(treeRings, q.node.id)}}
  /\ treeVolumes' = treeVolumes
       \cup {r.node : r \in {q \in done : q.kind = "volume" /\ ~HasId(treeVolumes, q.node.id)}}

(* What a create that reaches the tree returns. *)
Code(r) ==
  IF HasId(IF r.kind = "ring" THEN treeRings ELSE treeVolumes, r.node.id) THEN "exists" ELSE "ok"

Answer(r, rc) == [kind |-> r.kind, node |-> r.node, by |-> r.by, rc |-> rc]

(* The node of a sphere or of a service is created for the worker that waits
   in f.get(). *)
ServeWorker(t) ==
  LET c == call[t]
      exists == IF c.op = "addDataSphere" THEN treeSphere ELSE c.arg \in treeServices
  IN
  /\ t \in Creating
  /\ CreateFor({t})
  /\ call' = [call EXCEPT ![t].at = IF exists THEN "exists" ELSE "ok"]
  /\ UNCHANGED <<ringsRoot, treeRings, treeVolumes, erased, topic, tables, reqs, conts, servers,
                 calls, crashes, losses>>

(* createIncludingAncestors has come as far as the parent of the rings. *)
CreateRingsRoot ==
  /\ ~ringsRoot
  /\ \E i \in DOMAIN reqs : reqs[i].kind = "ring"
  /\ ringsRoot' = TRUE
  /\ UNCHANGED <<treeSphere, treeServices, treeRings, treeVolumes, erased, topic, tables, call,
                 reqs, conts, servers, calls, crashes, losses>>

(* Requests of one session are served, and their completions run, in order:
   the chains of creates of all rings and volumes have the same length, so
   none overtakes another. *)
ServeCreate ==
  /\ reqs # <<>>
  /\ CreateNodes(1)
  /\ conts' = Append(conts, Answer(Head(reqs), Code(Head(reqs))))
  /\ reqs' = Tail(reqs)
  /\ UNCHANGED <<treeSphere, treeServices, ringsRoot, erased, topic, tables, call, servers, calls,
                 crashes, losses>>

(* A lost connection fails every outstanding request, also the first n and
   those of T, which have taken effect.  toStatusException makes it
   STATUS_INVALID. *)
LoseConnection(n, T) ==
  /\ losses < MaxLosses
  /\ reqs # <<>> \/ Creating # {}
  /\ CreateFor(T)
  /\ CreateNodes(n)
  /\ call' = [t \in Workers |-> IF t \in Creating THEN [call[t] EXCEPT !.at = "lost"] ELSE call[t]]
  /\ conts' = conts \o [i \in DOMAIN reqs |-> Answer(reqs[i], "lost")]
  /\ reqs' = <<>>
  /\ losses' = losses + 1
  /\ UNCHANGED <<ringsRoot, erased, topic, tables, servers, calls, crashes>>

-----------------------------------------------------------------------------
(* The configuration service: RPCs *)

(* A worker takes an RPC. *)
Begin(t, c) ==
  /\ call[t] = Idle
  /\ calls < MaxCalls
  /\ calls' = calls + 1
  /\ call' = [call EXCEPT ![t] = c]
  /\ UNCHANGED <<tree, topic, tables, reqs, conts, servers, crashes, losses>>

addDataSphere(t) == Begin(t, [op |-> "addDataSphere", at |-> "create"])

(* A call for a sphere that is not in memory is rejected and changes nothing. *)
getDatasphereOrThrow == sphere

addService(t, s) ==
  getDatasphereOrThrow /\ Begin(t, [op |-> "addService", arg |-> s, at |-> "create"])

addVolume(t, name) ==
  getDatasphereOrThrow /\ Begin(t, [op |-> "addVolume", arg |-> name, at |-> "eb"])

(* f.get() throws what the tree answered: nothing else happens, the client has
   an error. *)
CreateFailed(t) ==
  /\ call[t] # Idle
  /\ call[t].at \in {"exists", "lost"}
  /\ call' = [call EXCEPT ![t] = Idle]
  /\ UNCHANGED <<tree, topic, tables, reqs, conts, servers, calls, crashes, losses>>

(* A new DatasphereConfigMgr and its PBVolumeConfigMgr. *)
NewManager ==
  /\ serviceCache' = {}
  /\ pendingServices' = <<>>
  /\ rings' = {}
  /\ nextAddRingId' = 0
  /\ resources' = {}
  /\ nextResourceId' = 0

(* Mutant: a sphere whose node exists already is taken over with the tables and
   counters this process has, which are empty after a restart. *)
DataSphereAddedAgain(t) ==
  /\ call[t].op = "addDataSphere"
  /\ call[t].at \in {"ok", "exists"}
  /\ sphere' = TRUE
  /\ call' = [call EXCEPT ![t] = Idle]
  /\ UNCHANGED <<tree, topic, serviceCache, pendingServices, rings, nextAddRingId, resources,
                 nextResourceId, reqs, conts, servers, calls, crashes, losses>>

(* addDataSphere once f.get() returns. *)
DataSphereAdded(t) ==
  /\ call[t] = [op |-> "addDataSphere", at |-> "ok"]
  /\ sphere' = TRUE
  /\ NewManager
  /\ call' = [call EXCEPT ![t] = Idle]
  /\ UNCHANGED <<tree, topic, reqs, conts, servers, calls, crashes, losses>>

(* Mutant: a service whose node exists already is added all the same. *)
ServiceAddedAgain(t) ==
  /\ call[t].op = "addService"
  /\ call[t].at \in {"ok", "exists"}
  /\ serviceCache' = serviceCache \cup {call[t].arg}
  /\ call' = [call EXCEPT ![t].at = "eb"]
  /\ UNCHANGED <<tree, topic, sphere, pendingServices, rings, nextAddRingId, resources,
                 nextResourceId, reqs, conts, servers, calls, crashes, losses>>

(* DatasphereConfigMgr::addService once f.get() returns: the cache, and for a
   volume server the rings. *)
ServiceAdded(t) ==
  /\ call[t].op = "addService"
  /\ call[t].at = "ok"
  /\ serviceCache' = serviceCache \cup {call[t].arg}
  /\ call' = [call EXCEPT ![t] = IF call[t].arg \in VolumeServers THEN [call[t] EXCEPT !.at = "eb"]
                                                                  ELSE Idle]
  /\ UNCHANGED <<tree, topic, sphere, pendingServices, rings, nextAddRingId, resources,
                 nextResourceId, reqs, conts, servers, calls, crashes, losses>>

-----------------------------------------------------------------------------
(* The configuration service: on eb_ *)

(* Mutant: the id of a ring is ++nextAddRingId_. *)
addServiceInEbPreIncrement(t) ==
  LET pending == Append(pendingServices, call[t].arg)
      ring == [id |-> nextAddRingId + 1, memberIds |-> pending]
  IN
  /\ call[t].op = "addService"
  /\ call[t].at = "eb"
  /\ \/ /\ Len(pending) < ReplicaFactor
        /\ pendingServices' = pending
        /\ call' = [call EXCEPT ![t] = Idle]
        /\ UNCHANGED <<nextAddRingId, reqs>>
     \/ /\ Len(pending) >= ReplicaFactor
        /\ pendingServices' = <<>>
        /\ nextAddRingId' = nextAddRingId + 1
        /\ reqs' = Append(reqs, [kind |-> "ring", node |-> ring, by |-> t])
        /\ call' = [call EXCEPT ![t].at = "ring"]
  /\ UNCHANGED <<tree, topic, sphere, serviceCache, rings, resources, nextResourceId, conts,
                 servers, calls, crashes, losses>>

(* PBResourceSphereConfigMgr::addService: the service waits for others, or
   completes a ring (the CHECK on the size is RingsWellFormed). *)
addServiceInEb(t) ==
  LET pending == Append(pendingServices, call[t].arg)
      ring == [id |-> nextAddRingId, memberIds |-> pending]
  IN
  /\ call[t].op = "addService"
  /\ call[t].at = "eb"
  /\ \/ /\ Len(pending) < ReplicaFactor
        /\ pendingServices' = pending
        /\ call' = [call EXCEPT ![t] = Idle]
        /\ UNCHANGED <<nextAddRingId, reqs>>
     \/ /\ Len(pending) >= ReplicaFactor
        /\ pendingServices' = <<>>
        /\ nextAddRingId' = nextAddRingId + 1
        /\ reqs' = Append(reqs, [kind |-> "ring", node |-> ring, by |-> t])
        /\ call' = [call EXCEPT ![t].at = "ring"]
  /\ UNCHANGED <<tree, topic, sphere, serviceCache, rings, resources, nextResourceId, conts,
                 servers, calls, crashes, losses>>

(* throwOnPreAddResourceCheckFailures_ of PBVolumeConfigMgr does not throw. *)
NameFree(name) == \A v \in resources : v.name # name

(* addResource: without rings, or with a name that is taken, the RPC fails;
   otherwise the volume gets the next id and the ring that id falls on. *)
addResource(t) ==
  LET volume == [id |-> nextResourceId, name |-> call[t].arg,
                 ringId |-> nextResourceId % Cardinality(rings)]
  IN
  /\ call[t].op = "addVolume"
  /\ call[t].at = "eb"
  /\ \/ /\ rings = {} \/ ~NameFree(call[t].arg)
        /\ call' = [call EXCEPT ![t] = Idle]
        /\ UNCHANGED <<nextResourceId, reqs>>
     \/ /\ rings # {} /\ NameFree(call[t].arg)
        /\ nextResourceId' = nextResourceId + 1
        /\ reqs' = Append(reqs, [kind |-> "volume", node |-> volume, by |-> t])
        /\ call' = [call EXCEPT ![t].at = "volume"]
  /\ UNCHANGED <<tree, topic, sphere, serviceCache, pendingServices, rings, nextAddRingId,
                 resources, conts, servers, calls, crashes, losses>>

(* The continuation of a create runs: its RPC is answered. *)
Continue(kind, rcs) ==
  /\ conts # <<>>
  /\ Head(conts).kind = kind
  /\ Head(conts).rc \in rcs
  /\ conts' = Tail(conts)
  /\ call' = [call EXCEPT ![Head(conts).by] = Idle]

(* addRing_: the ring can take volumes. *)
RingAdded ==
  /\ Continue("ring", {"ok"})
  /\ rings' = Put(rings, Head(conts).node)
  /\ UNCHANGED <<tree, topic, sphere, serviceCache, pendingServices, nextAddRingId, resources,
                 nextResourceId, reqs, servers, calls, crashes, losses>>

(* Mutant: the continuation does not look at the error. *)
ResourceAddedAnyway ==
  /\ Continue("volume", Codes)
  /\ resources' = Put(resources, Head(conts).node)
  /\ topic' = Append(topic, Head(conts).node)
  /\ UNCHANGED <<tree, sphere, serviceCache, pendingServices, rings, nextAddRingId,
                 nextResourceId, reqs, servers, calls, crashes, losses>>

(* produce takes the message for the broker, or fails; one that was taken may
   still be lost. *)
publishMessage(volume, published) ==
  \/ published /\ topic' = Append(topic, volume)
  \/ ~published /\ KafkaFaults /\ topic' = topic

(* What publishMessage returns is ignored. *)
publishResourceInfo(volume) == \E published \in BOOLEAN : publishMessage(volume, published)

(* addResource: the volume is in memory and announced. *)
ResourceAdded ==
  /\ Continue("volume", {"ok"})
  /\ resources' = Put(resources, Head(conts).node)
  /\ publishResourceInfo(Head(conts).node)
  /\ UNCHANGED <<tree, sphere, serviceCache, pendingServices, rings, nextAddRingId,
                 nextResourceId, reqs, servers, calls, crashes, losses>>

(* Mutant: the error is dropped and the promise left open. *)
ResourceFailedSilently ==
  /\ conts # <<>>
  /\ Head(conts).kind = "volume"
  /\ Head(conts).rc # "ok"
  /\ conts' = Tail(conts)
  /\ UNCHANGED <<tree, topic, tables, call, reqs, servers, calls, crashes, losses>>

(* addResource: the error of the create goes to the client. *)
ResourceFailed ==
  /\ Continue("volume", {"exists", "lost"})
  /\ UNCHANGED <<tree, topic, tables, reqs, servers, calls, crashes, losses>>

(* The process ends and is started again: init reads nothing back from the
   tree.  What it had sent may still take effect. *)
EndProcess ==
  /\ \E n \in 0 .. Len(reqs), T \in SUBSET Creating : CreateFor(T) /\ CreateNodes(n)
  /\ sphere' = FALSE
  /\ NewManager
  /\ call' = [t \in Workers |-> Idle]
  /\ reqs' = <<>>
  /\ conts' = <<>>
  /\ UNCHANGED <<ringsRoot, erased, topic, servers, calls, losses>>

(* CHECK(!"Failed to add...") of addService. *)
RingFailed ==
  /\ conts # <<>>
  /\ Head(conts).kind = "ring"
  /\ Head(conts).rc # "ok"
  /\ EndProcess
  /\ UNCHANGED crashes

Crash ==
  /\ crashes < MaxCrashes
  /\ crashes' = crashes + 1
  /\ EndProcess

-----------------------------------------------------------------------------
(* A volume server *)

(* The service's own node exists, otherwise init throws. *)
ensureDatasphereMembership(s) == s \in treeServices

(* Service::init. *)
StartServer(s) ==
  /\ server[s] \in {"down", "aborted"}
  /\ ensureDatasphereMembership(s)
  /\ server' = [server EXCEPT ![s] = "rings"]
  /\ UNCHANGED <<tree, topic, tables, call, reqs, conts, ringTable, resourceTable, offset,
                 committed, calls, crashes, losses>>

(* pullResourceConfigTable_: without the root of the rings getChildrenSync
   throws, and with it init. *)
PullRings(s) ==
  /\ server[s] = "rings"
  /\ \/ /\ ~ringsRoot
        /\ server' = [server EXCEPT ![s] = "down"]
        /\ UNCHANGED ringTable
     \/ /\ ringsRoot
        /\ server' = [server EXCEPT ![s] = "resources"]
        /\ ringTable' = [ringTable EXCEPT ![s] = treeRings]
  /\ UNCHANGED <<tree, topic, tables, call, reqs, conts, resourceTable, offset, committed,
                 calls, crashes, losses>>

(* Mutant: the member of one ring takes the volumes of all. *)
OwnedByAnyRing(s, V) == {v.id : v \in {w \in V : \E r \in ringTable[s] : s \in Members(r)}}

(* addResourceReplicaIfOwned_ for each of the volumes V. *)
Owned(s, V) == {v.id : v \in {w \in V : isRingMember(ringTable[s], w.ringId, s)}}

(* pullResourceConfigTable_: the volumes there are; a missing root is no error. *)
PullResources(s) ==
  /\ server[s] = "resources"
  /\ erased = {}
  /\ server' = [server EXCEPT ![s] = "subscribe"]
  /\ resourceTable' = [resourceTable EXCEPT ![s] = Owned(s, treeVolumes)]
  /\ UNCHANGED <<tree, topic, tables, call, reqs, conts, ringTable, offset, committed, calls,
                 crashes, losses>>

(* The process of a server ends: its tables are in memory. *)
EndServer(s, how) ==
  /\ server' = [server EXCEPT ![s] = how]
  /\ ringTable' = [ringTable EXCEPT ![s] = {}]
  /\ resourceTable' = [resourceTable EXCEPT ![s] = {}]
  /\ offset' = [offset EXCEPT ![s] = 0]
  /\ UNCHANGED <<tree, topic, tables, call, reqs, conts, committed, calls, losses>>

(* pullResourceConfigTable_: an empty payload cannot be deserialized, and init
   throws. *)
PullResourcesFails(s) ==
  /\ server[s] = "resources"
  /\ erased # {}
  /\ EndServer(s, "down")
  /\ UNCHANGED crashes

(* Mutant: the committed position is used without a look whether there is one. *)
SubscribeAtCommitted(s) ==
  /\ server[s] = "subscribe"
  /\ server' = [server EXCEPT ![s] = "up"]
  /\ offset' = [offset EXCEPT ![s] = committed[s]]
  /\ UNCHANGED <<tree, topic, tables, call, reqs, conts, ringTable, resourceTable, committed,
                 calls, crashes, losses>>

(* subscribeToTopic takes effect: the broker assigns the partition, from the
   committed position of the group (the service's id) or else from the end. *)
Subscribe(s) ==
  /\ server[s] = "subscribe"
  /\ server' = [server EXCEPT ![s] = "up"]
  /\ offset' = [offset EXCEPT ![s] = IF committed[s] = -1 THEN Len(topic) ELSE committed[s]]
  /\ UNCHANGED <<tree, topic, tables, call, reqs, conts, ringTable, resourceTable, committed,
                 calls, crashes, losses>>

(* A replica of the server becomes elector (PBElection): the version of the
   resource's node is the term, and increaseTerm_ writes "" to get the next. *)
increaseTerm(s, id) ==
  /\ id \in resourceTable[s]
  /\ erased' = erased \cup {id}
  /\ UNCHANGED <<treeSphere, treeServices, ringsRoot, treeRings, treeVolumes, topic, tables,
                 call, reqs, conts, servers, calls, crashes, losses>>

(* The consumer's thread has a message for the callback. *)
consumeMessage(s) == server[s] = "up" /\ offset[s] < Len(topic)

(* Mutant: an unknown volume is ignored. *)
handleNewResourceIgnored(s) ==
  /\ consumeMessage(s)
  /\ offset' = [offset EXCEPT ![s] = @ + 1]
  /\ UNCHANGED <<tree, topic, tables, call, reqs, conts, server, ringTable, resourceTable,
                 committed, calls, crashes, losses>>

(* handleResourceConfigTableUpdate_ for a volume the server does not have. *)
handleNewResource(s) ==
  LET volume == topic[offset[s] + 1] IN
  /\ consumeMessage(s)
  /\ volume.id \notin resourceTable[s]
  /\ resourceTable' = [resourceTable EXCEPT ![s] = @ \cup Owned(s, {volume})]
  /\ offset' = [offset EXCEPT ![s] = @ + 1]
  /\ UNCHANGED <<tree, topic, tables, call, reqs, conts, server, ringTable, committed, calls,
                 crashes, losses>>

(* handleResourceConfigTableUpdate_ for one it has: the DCHECK of
   applyResourceUpdate ends the process. *)
applyResourceUpdate(s) ==
  /\ consumeMessage(s)
  /\ topic[offset[s] + 1].id \in resourceTable[s]
  /\ EndServer(s, "aborted")
  /\ UNCHANGED crashes

(* The consumer commits its position from time to time. *)
CommitOffset(s) ==
  /\ server[s] = "up"
  /\ committed[s] # offset[s]
  /\ committed' = [committed EXCEPT ![s] = offset[s]]
  /\ UNCHANGED <<tree, topic, tables, call, reqs, conts, server, ringTable, resourceTable,
                 offset, calls, crashes, losses>>

CrashServer(s) ==
  /\ crashes < MaxCrashes
  /\ server[s] \notin {"down", "aborted"}
  /\ crashes' = crashes + 1
  /\ EndServer(s, "down")

-----------------------------------------------------------------------------
WorkerStep(t) ==
  \/ ServeWorker(t)
  \/ CreateFailed(t)
  \/ DataSphereAdded(t)
  \/ ServiceAdded(t)
  \/ addServiceInEb(t)
  \/ addResource(t)

EbStep == RingAdded \/ ResourceAdded \/ ResourceFailed \/ RingFailed

(* The steps of a server's start.  One that failed to start is started again. *)
Boot(s) ==
  \/ StartServer(s)
  \/ PullRings(s)
  \/ PullResources(s)
  \/ PullResourcesFails(s)
  \/ Subscribe(s)

ServerStep(s) ==
  \/ Boot(s)
  \/ handleNewResource(s)
  \/ applyResourceUpdate(s)
  \/ CommitOffset(s)
  \/ \E id \in resourceTable[s] : increaseTerm(s, id)
  \/ CrashServer(s)

Next ==
  \/ \E t \in Workers : WorkerStep(t)
  \/ \E t \in Workers : addDataSphere(t)
  \/ \E t \in Workers, s \in Services : addService(t, s)
  \/ \E t \in Workers, name \in Names : addVolume(t, name)
  \/ CreateRingsRoot
  \/ ServeCreate
  \/ \E n \in 0 .. Len(reqs), T \in SUBSET Creating : LoseConnection(n, T)
  \/ EbStep
  \/ Crash
  \/ \E s \in Started : ServerStep(s)

Spec == Init /\ [][Next]_vars

(* ZooKeeper answers, workers and the event base run, servers start, and their
   consumers deliver what is in the topic. *)
FairSpec ==
  /\ Spec
  /\ \A t \in Workers : WF_vars(WorkerStep(t))
  /\ WF_vars(CreateRingsRoot)
  /\ WF_vars(ServeCreate)
  /\ WF_vars(EbStep)
  /\ \A s \in Started : WF_vars(Boot(s))
  /\ \A s \in Started : WF_vars(handleNewResource(s) \/ applyResourceUpdate(s))

-----------------------------------------------------------------------------
(* Properties *)

(* Every variable holds a value of its type. *)
TypeOK ==
  /\ treeSphere \in BOOLEAN /\ ringsRoot \in BOOLEAN /\ sphere \in BOOLEAN
  /\ treeServices \subseteq Services /\ serviceCache \subseteq Services
  /\ treeRings \subseteq Rings /\ rings \subseteq Rings
  /\ treeVolumes \subseteq Volumes /\ resources \subseteq Volumes
  /\ erased \subseteq Nat
  /\ topic \in Seq(Volumes)
  /\ pendingServices \in Seq(VolumeServers)
  /\ nextAddRingId \in Nat /\ nextResourceId \in Nat
  /\ call \in [Workers -> Calls]
  /\ reqs \in Seq(Requests)
  /\ conts \in Seq(Results)
  /\ server \in [Started -> {"down", "rings", "resources", "subscribe", "up", "aborted"}]
  /\ ringTable \in [Started -> SUBSET Rings]
  /\ resourceTable \in [Started -> SUBSET Nat]
  /\ offset \in [Started -> Nat]
  /\ committed \in [Started -> Nat \cup {-1}]
  /\ {calls, crashes, losses} \subseteq Nat

(* Rings partition the volume servers: a ring of the tree has ReplicaFactor
   different members, each with a service node, and no server is on two rings
   or on a ring and pending.  It takes the rejection of a service that is added
   again, also after an answer that was lost (DatasphereConfigMgr::addService),
   and the clearing of pendingServices_, whose CHECK is the third conjunct. *)
RingsWellFormed ==
  /\ \A r \in treeRings :
       /\ Len(r.memberIds) = ReplicaFactor
       /\ Cardinality(Members(r)) = ReplicaFactor
       /\ Members(r) \subseteq treeServices
       /\ \A i \in DOMAIN pendingServices : pendingServices[i] \notin Members(r)
  /\ \A r, q \in treeRings : r # q => r.id # q.id /\ Members(r) \cap Members(q) = {}
  /\ Len(pendingServices) < ReplicaFactor

(* A volume is placed on a ring that the tree has: ringId is an id modulo the
   number of rings in memory, so it names a ring only because rings_ is filled
   in the order of the ids and after the tree (addResource, addRing_). *)
VolumesOnRings == \A v \in treeVolumes : HasId(treeRings, v.ringId)

(* The service lists, and announces on the topic, only what the tree has: the
   tables and the topic are written by the continuations of the creates. *)
TreeFirst ==
  /\ serviceCache \subseteq treeServices
  /\ rings \subseteq treeRings
  /\ resources \subseteq treeVolumes
  /\ \A i \in DOMAIN topic : topic[i] \in treeVolumes

(* The ids the service hands out are new to the tree, so the CHECK of a ring
   that could not be added, and the error of a volume, stem from a lost
   connection only: in memory the counters start from 0 again after a restart,
   but then the sphere cannot be added a second time (addDataSphere). *)
IdsFresh == \A i \in DOMAIN conts : conts[i].rc # "exists"

(* A server runs replicas only of volumes whose ring, as the tree has it, it is
   a member of, although it looks rings up in a table read once, at start, and
   volumes in the tree or on the topic (addResourceReplicaIfOwned_). *)
ReplicasOwned ==
  \A s \in Started : \A id \in resourceTable[s] :
    \E v \in treeVolumes : v.id = id /\ isRingMember(treeRings, v.ringId, s)

(* Every RPC is answered or ends with the process: a worker blocked in get()
   on a create, or on the event base, is released by each error path. *)
CallsReturn == \A t \in Workers : call[t] # Idle ~> call[t] = Idle

(* A subscribed server gets a replica of each volume that is announced from then
   on and lies on a ring of the server's table (handleResourceConfigTableUpdate_). *)
AnnouncedReplicated ==
  \A s \in Started, i \in 1 .. MaxCalls :
    /\ server[s] = "up"
    /\ offset[s] < i
    /\ i <= Len(topic)
    /\ isRingMember(ringTable[s], topic[i].ringId, s)
    ~> server[s] # "up" \/ (i \in DOMAIN topic /\ topic[i].id \in resourceTable[s])

(* "Bootup: Load the db, Start PBMember bootup sequence" (design.md): a server
   that starts, and finds the rings, comes up with its replicas. *)
ServersComeUp == \A s \in Started : server[s] = "resources" ~> server[s] = "up"
=============================================================================
