-------------------------- MODULE ConfigTree_proofs --------------------------
(***************************************************************************)
(* Proofs about ConfigTree, for every set of services, workers and names,  *)
(* every replica factor and every bound.                                   *)
(***************************************************************************)
EXTENDS ConfigTree, FiniteSetTheorems, FunctionTheorems, SequenceTheorems, TLAPS

-----------------------------------------------------------------------------
(* The inductive invariant, in parts. *)

(* Only volume servers go on to the rings. *)
EbServices ==
  \A t \in Workers : call[t].op = "addService" /\ call[t].at = "eb" => call[t].arg \in VolumeServers

(* The RPC found no sphere node and made it; its f.get() has not returned. *)
SphereMade(t) == call[t].op = "addDataSphere" /\ call[t].at = "ok"

(* A sphere is added once in the life of the tree, and until it is there are no
   other RPCs and no nodes.  After a restart it is never added again. *)
SphereOnce ==
  /\ ~sphere => /\ serviceCache = {} /\ pendingServices = <<>>
                /\ rings = {} /\ nextAddRingId = 0
                /\ resources = {} /\ nextResourceId = 0
                /\ reqs = <<>> /\ conts = <<>>
                /\ \A t \in Workers : call[t].op \in {"none", "addDataSphere"}
  /\ ~treeSphere \/ (\E t \in Workers : SphereMade(t)) =>
       /\ ~sphere /\ treeServices = {} /\ treeRings = {} /\ treeVolumes = {}
  /\ (\E t \in Workers : SphereMade(t)) => treeSphere
  /\ \A t, u \in Workers : SphereMade(t) /\ SphereMade(u) => t = u

(* The creates of rings and volumes whose continuation has not run, oldest first. *)
Item(x) == [kind |-> x.kind, node |-> x.node]
Flight ==
  [i \in 1 .. (Len(conts) + Len(reqs)) |->
     IF i <= Len(conts) THEN Item(conts[i]) ELSE Item(reqs[i - Len(conts)])]

(* F are creates in the order of their ids, those of rings from k up to n - 1 without a
   gap, those of volumes below v. *)
InOrder(F, N, k, n, v) ==
  /\ \A i, j \in 1 .. N : i < j /\ F[i].kind = F[j].kind => F[i].node.id < F[j].node.id
  /\ \A i \in 1 .. N : F[i].kind = "ring" => k <= F[i].node.id /\ F[i].node.id < n
  /\ \A id \in k .. (n - 1) : \E i \in 1 .. N : F[i].kind = "ring" /\ F[i].node.id = id
  /\ \A i \in 1 .. N : F[i].kind = "volume" => F[i].node.id < v

(* rings_ holds the rings 0 .. k - 1, and the creates in flight go on from k. *)
RingsInOrder ==
  /\ IsFiniteSet(rings) /\ Cardinality(rings) <= nextAddRingId
  /\ \A r \in rings : r.id < Cardinality(rings)
  /\ \A id \in 0 .. (Cardinality(rings) - 1) : HasId(rings, id)
  /\ InOrder(Flight, Len(conts) + Len(reqs), Cardinality(rings), nextAddRingId, nextResourceId)

(* The ids the service hands out are above those of the tree, and what waits to be
   created is not in the tree. *)
NewIds ==
  /\ sphere => /\ \A r \in treeRings : r.id < nextAddRingId
               /\ \A v \in treeVolumes : v.id < nextResourceId
  /\ \A i \in 1 .. Len(reqs) :
       /\ reqs[i].kind = "ring" => ~HasId(treeRings, reqs[i].node.id)
       /\ reqs[i].kind = "volume" => ~HasId(treeVolumes, reqs[i].node.id)

(* The node of a create that succeeded is in the tree, and none finds its node there. *)
AnswersTrue ==
  \A i \in 1 .. Len(conts) :
    /\ conts[i].rc # "exists"
    /\ conts[i].rc = "ok" /\ conts[i].kind = "ring" => conts[i].node \in treeRings
    /\ conts[i].rc = "ok" /\ conts[i].kind = "volume" => conts[i].node \in treeVolumes

(* The rings of the tree and those on their way to it; the same for volumes. *)
Requested(kind) == {reqs[i].node : i \in {j \in 1 .. Len(reqs) : reqs[j].kind = kind}}
AllRings   == treeRings \cup Requested("ring")
AllVolumes == treeVolumes \cup Requested("volume")

Pending == {pendingServices[i] : i \in 1 .. Len(pendingServices)}

(* The RPC made the node of its service, which is in no ring and not pending yet. *)
Adding(t) == call[t].op = "addService" /\ call[t].at \in {"ok", "eb"}

(* A service with a node is being added, or pending, or in one ring, or in none. *)
ServicesApart ==
  /\ Len(pendingServices) < ReplicaFactor
  /\ \A i, j \in 1 .. Len(pendingServices) : pendingServices[i] = pendingServices[j] => i = j
  /\ Pending \subseteq treeServices
  /\ \A t \in Workers : Adding(t) => call[t].arg \in treeServices \ Pending
  /\ \A t, u \in Workers : Adding(t) /\ Adding(u) /\ call[t].arg = call[u].arg => t = u
  /\ \A r \in AllRings :
       /\ Len(r.memberIds) = ReplicaFactor /\ Cardinality(Members(r)) = ReplicaFactor
       /\ Members(r) \subseteq treeServices \ Pending
       /\ \A t \in Workers : Adding(t) => call[t].arg \notin Members(r)
  /\ \A r, q \in AllRings : r # q => r.id # q.id /\ Members(r) \cap Members(q) = {}

(* A volume is given a ring of the tree. *)
VolumesPlaced == \A v \in AllVolumes : HasId(treeRings, v.ringId)

(* A server's table of rings is what the tree had. *)
RingsRead == \A s \in Started : ringTable[s] \subseteq treeRings

(* All of it. *)
Inv ==
  /\ TypeOK /\ EbServices /\ SphereOnce /\ RingsInOrder /\ NewIds /\ AnswersTrue
  /\ TreeFirst /\ ServicesApart /\ VolumesPlaced /\ RingsRead /\ ReplicasOwned

-----------------------------------------------------------------------------
(* Types. *)

Ats == {"create", "eb", "ring"} \cup Codes

(* The kinds of RPC and what each carries. *)
LEMMA CallKinds ==
  ASSUME NEW c \in Calls
  PROVE  /\ c = Idle <=> c.op = "none"
         /\ c.op \in {"none", "addDataSphere", "addService", "addVolume"}
         /\ c.op = "addDataSphere" => c \in [op : {"addDataSphere"}, at : {"create"} \cup Codes]
         /\ c.op = "addService" => c \in [op : {"addService"}, arg : Services, at : Ats]
         /\ c.op = "addVolume" => c \in [op : {"addVolume"}, arg : Names, at : {"eb", "volume"}]
BY DEF Calls, Idle, Ats

(* An RPC that goes on keeps its operation and its argument. *)
LEMMA CallMoves ==
  ASSUME NEW c \in Calls, NEW x,
         \/ c.op = "addDataSphere" /\ x \in {"create"} \cup Codes
         \/ c.op = "addService" /\ x \in Ats
         \/ c.op = "addVolume" /\ x \in {"eb", "volume"}
  PROVE  LET d == [c EXCEPT !.at = x]
         IN  /\ d \in Calls /\ d.op = c.op /\ d.at = x
             /\ c.op \in {"addService", "addVolume"} => d.arg = c.arg
<1>1. CASE c.op = "addDataSphere" /\ x \in {"create"} \cup Codes
  BY <1>1, CallKinds DEF Calls
<1>2. CASE c.op = "addService" /\ x \in Ats
  BY <1>2, CallKinds DEF Calls, Ats
<1>3. CASE c.op = "addVolume" /\ x \in {"eb", "volume"}
  BY <1>3, CallKinds DEF Calls
<1> QED BY <1>1, <1>2, <1>3

(* A worker that waits for its own create adds a sphere or a service. *)
LEMMA CreatingKinds ==
  ASSUME TypeOK, NEW t \in Creating
  PROVE  t \in Workers /\ call[t].op \in {"addDataSphere", "addService"} /\ call[t].at = "create"
<1>1. t \in Workers /\ call[t] # Idle /\ call[t].at = "create" /\ call[t] \in Calls
  BY DEF Creating, TypeOK
<1> QED
  BY <1>1, CallKinds

(* A request to the tree has the type of its kind. *)
LEMMA RequestKinds ==
  ASSUME TypeOK, NEW i \in 1 .. Len(reqs)
  PROVE  /\ reqs[i] \in Requests /\ reqs[i].kind \in {"ring", "volume"} /\ reqs[i].by \in Workers
         /\ reqs[i].kind = "ring" => reqs[i].node \in Rings
         /\ reqs[i].kind = "volume" => reqs[i].node \in Volumes
<1>1. reqs[i] \in Requests
  BY ElementOfSeq DEF TypeOK
<1> QED
  BY <1>1 DEF Requests

(* A result has the type of its kind. *)
LEMMA ResultKinds ==
  ASSUME TypeOK, NEW i \in 1 .. Len(conts)
  PROVE  /\ conts[i] \in Results /\ conts[i].kind \in {"ring", "volume"} /\ conts[i].by \in Workers
         /\ conts[i].kind = "ring" => conts[i].node \in Rings
         /\ conts[i].kind = "volume" => conts[i].node \in Volumes
         /\ conts[i].rc \in Codes
<1>1. conts[i] \in Results
  BY ElementOfSeq DEF TypeOK
<1> QED
  BY <1>1 DEF Results

(* The answer to a request is a result. *)
LEMMA AnswerType ==
  ASSUME NEW r \in Requests, NEW rc \in Codes
  PROVE  /\ Answer(r, rc) \in Results
         /\ Answer(r, rc).kind = r.kind /\ Answer(r, rc).node = r.node
         /\ Answer(r, rc).by = r.by /\ Answer(r, rc).rc = rc
BY DEF Answer, Requests, Results

(* What a create adds to the tree comes from a request. *)
LEMMA CreateNodesAdds ==
  ASSUME TypeOK, NEW n \in 0 .. Len(reqs), CreateNodes(n)
  PROVE  /\ treeRings \subseteq treeRings' /\ treeVolumes \subseteq treeVolumes'
         /\ \A r \in treeRings' \ treeRings : \E i \in 1 .. n :
              reqs[i].kind = "ring" /\ r = reqs[i].node
         /\ \A v \in treeVolumes' \ treeVolumes : \E i \in 1 .. n :
              reqs[i].kind = "volume" /\ v = reqs[i].node
         /\ treeRings' \subseteq Rings /\ treeVolumes' \subseteq Volumes
<1>1. \A i \in 1 .. n : i \in 1 .. Len(reqs)
  BY DEF TypeOK
<1>2. /\ treeRings \subseteq treeRings' /\ treeVolumes \subseteq treeVolumes'
      /\ \A r \in treeRings' \ treeRings : \E i \in 1 .. n :
           reqs[i].kind = "ring" /\ r = reqs[i].node
      /\ \A v \in treeVolumes' \ treeVolumes : \E i \in 1 .. n :
           reqs[i].kind = "volume" /\ v = reqs[i].node
  <2> DEFINE done == {reqs[i] : i \in 1 .. n}
             newRings == {q \in done : q.kind = "ring" /\ ~HasId(treeRings, q.node.id)}
             newVolumes == {q \in done : q.kind = "volume" /\ ~HasId(treeVolumes, q.node.id)}
  <2>1. /\ treeRings' = treeRings \cup {r.node : r \in newRings}
        /\ treeVolumes' = treeVolumes \cup {r.node : r \in newVolumes}
    BY DEF CreateNodes
  <2>2. /\ \A q \in newRings : \E i \in 1 .. n : reqs[i].kind = "ring" /\ q = reqs[i]
        /\ \A q \in newVolumes : \E i \in 1 .. n : reqs[i].kind = "volume" /\ q = reqs[i]
    OBVIOUS
  <2> HIDE DEF done, newRings, newVolumes
  <2>3. \A r \in treeRings' \ treeRings : \E q \in newRings : r = q.node
    BY <2>1
  <2>4. \A v \in treeVolumes' \ treeVolumes : \E q \in newVolumes : v = q.node
    BY <2>1
  <2> QED BY <2>1, <2>2, <2>3, <2>4
<1>3. \A i \in 1 .. n :
        /\ reqs[i].kind = "ring" => reqs[i].node \in Rings
        /\ reqs[i].kind = "volume" => reqs[i].node \in Volumes
  BY <1>1, RequestKinds
<1>4. treeRings \subseteq Rings /\ treeVolumes \subseteq Volumes
  BY DEF TypeOK
<1>5. treeRings' \subseteq Rings
  <2> SUFFICES ASSUME NEW x \in treeRings', x \notin treeRings PROVE x \in Rings
    BY <1>4
  <2>1. PICK i \in 1 .. n : reqs[i].kind = "ring" /\ x = reqs[i].node
    BY <1>2
  <2> QED BY <2>1, <1>3
<1>6. treeVolumes' \subseteq Volumes
  <2> SUFFICES ASSUME NEW x \in treeVolumes', x \notin treeVolumes PROVE x \in Volumes
    BY <1>4
  <2>1. PICK i \in 1 .. n : reqs[i].kind = "volume" /\ x = reqs[i].node
    BY <1>2
  <2> QED BY <2>1, <1>3
<1> QED
  BY <1>2, <1>5, <1>6

(* A worker's create adds its own node. *)
LEMMA CreateForAdds ==
  ASSUME TypeOK, NEW T \in SUBSET Creating, CreateFor(T)
  PROVE  /\ treeServices \subseteq treeServices' /\ treeServices' \subseteq Services
         /\ treeSphere' \in BOOLEAN /\ (treeSphere => treeSphere')
         /\ \A s \in treeServices' \ treeServices : \E t \in T :
              call[t].op = "addService" /\ call[t].arg = s
BY DEF CreateFor, TypeOK

(* The end of the process leaves typed, empty tables. *)
LEMMA EndProcessType ==
  ASSUME TypeOK, EndProcess, crashes' \in Nat
  PROVE  TypeOK' /\ EbServices'
<1>1. PICK n \in 0 .. Len(reqs), T \in SUBSET Creating : CreateFor(T) /\ CreateNodes(n)
  BY DEF EndProcess
<1>2. /\ treeServices' \subseteq Services /\ treeSphere' \in BOOLEAN
      /\ treeRings' \subseteq Rings /\ treeVolumes' \subseteq Volumes
  BY <1>1, CreateNodesAdds, CreateForAdds
<1>3. call' \in [Workers -> Calls] /\ \A t \in Workers : call'[t].op = "none"
  BY DEF EndProcess, Calls, Idle
<1>4. /\ sphere' = FALSE /\ serviceCache' = {} /\ pendingServices' = <<>> /\ rings' = {}
      /\ nextAddRingId' = 0 /\ resources' = {} /\ nextResourceId' = 0
      /\ reqs' = <<>> /\ conts' = <<>>
      /\ UNCHANGED <<ringsRoot, erased, topic, servers, calls, losses>>
  BY DEF EndProcess, NewManager
<1>5. /\ pendingServices' \in Seq(VolumeServers) /\ reqs' \in Seq(Requests)
      /\ conts' \in Seq(Results)
  BY <1>4
<1>6. EbServices'
  BY <1>3 DEF EbServices
<1> QED
  BY <1>2, <1>3, <1>4, <1>5, <1>6 DEF TypeOK, servers

(* The end of a server leaves typed, empty tables. *)
LEMMA EndServerType ==
  ASSUME TypeOK, NEW s \in Started, NEW how \in {"down", "aborted"}, EndServer(s, how), crashes' \in Nat
  PROVE  TypeOK'
BY DEF TypeOK, EndServer, tree, tables

(* A step of one RPC. *)
LEMMA CallStep ==
  ASSUME TypeOK, EbServices, NEW t \in Workers, NEW d \in Calls,
         call' = [call EXCEPT ![t] = d],
         d.op = "addService" /\ d.at = "eb" => d.arg \in VolumeServers
  PROVE  /\ call' \in [Workers -> Calls] /\ EbServices'
         /\ call'[t] = d /\ \A u \in Workers \ {t} : call'[u] = call[u]
BY DEF TypeOK, EbServices

(* An idle worker is not in any RPC. *)
LEMMA IdleCall == Idle \in Calls /\ Idle.op = "none"
BY DEF Calls, Idle

(* The effect of each step of a worker on its RPC. *)
LEMMA WorkerCall ==
  ASSUME TypeOK, EbServices, NEW t \in Workers, WorkerStep(t)
  PROVE  \E d \in Calls :
           /\ call' = [call EXCEPT ![t] = d]
           /\ d.op = "addService" /\ d.at = "eb" => d.arg \in VolumeServers
<1>1. call[t] \in Calls
  BY DEF TypeOK
<1>2. CASE ServeWorker(t)
  <2>1. PICK x \in {"exists", "ok"} : call' = [call EXCEPT ![t] = [call[t] EXCEPT !.at = x]]
    BY <1>2 DEF ServeWorker
  <2>2. call[t].op \in {"addDataSphere", "addService"}
    BY <1>2, CreatingKinds DEF ServeWorker
  <2>3. x \in Codes /\ x \in Ats /\ x # "eb"
    BY DEF Codes, Ats
  <2>4. [call[t] EXCEPT !.at = x] \in Calls /\ [call[t] EXCEPT !.at = x].at = x
    BY <1>1, <2>2, <2>3, CallMoves
  <2> QED BY <2>1, <2>3, <2>4
<1>3. CASE CreateFailed(t) \/ DataSphereAdded(t)
  BY <1>3, IdleCall DEF CreateFailed, DataSphereAdded
<1>4. CASE ServiceAdded(t)
  <2> DEFINE d == [call[t] EXCEPT !.at = "eb"]
  <2>1. /\ call[t].op = "addService"
        /\ \/ call' = [call EXCEPT ![t] = Idle]
           \/ call[t].arg \in VolumeServers /\ call' = [call EXCEPT ![t] = d]
    BY <1>4 DEF ServiceAdded
  <2>2. d \in Calls /\ d.arg = call[t].arg
    BY <1>1, <2>1, CallMoves DEF Ats
  <2> HIDE DEF d
  <2> QED BY <2>1, <2>2, IdleCall
<1>5. CASE addServiceInEb(t)
  <2> DEFINE d == [call[t] EXCEPT !.at = "ring"]
  <2>1. /\ call[t].op = "addService"
        /\ \/ call' = [call EXCEPT ![t] = Idle]
           \/ call' = [call EXCEPT ![t] = d]
    BY <1>5 DEF addServiceInEb
  <2>2. d \in Calls /\ d.at = "ring"
    BY <1>1, <2>1, CallMoves DEF Ats
  <2> HIDE DEF d
  <2> QED BY <2>1, <2>2, IdleCall
<1>6. CASE addResource(t)
  <2> DEFINE d == [call[t] EXCEPT !.at = "volume"]
  <2>1. /\ call[t].op = "addVolume"
        /\ \/ call' = [call EXCEPT ![t] = Idle]
           \/ call' = [call EXCEPT ![t] = d]
    BY <1>6 DEF addResource
  <2>2. d \in Calls /\ d.at = "volume"
    BY <1>1, <2>1, CallMoves
  <2> HIDE DEF d
  <2> QED BY <2>1, <2>2, IdleCall
<1> QED
  BY <1>2, <1>3, <1>4, <1>5, <1>6 DEF WorkerStep

(* A lost connection fails the RPCs that wait for their own create, and no other. *)
LEMMA LostCall ==
  ASSUME TypeOK, NEW n, NEW T, LoseConnection(n, T), NEW t \in Workers
  PROVE  \/ t \notin Creating /\ call'[t] = call[t]
         \/ t \in Creating /\ call'[t].op = call[t].op /\ call'[t].at = "lost"
<1>1. call' = [u \in Workers |-> IF u \in Creating THEN [call[u] EXCEPT !.at = "lost"] ELSE call[u]]
  BY DEF LoseConnection
<1>2. CASE t \in Creating
  <2>1. call[t] \in Calls /\ call[t].op \in {"addDataSphere", "addService"}
    BY <1>2, CreatingKinds DEF TypeOK
  <2>2. [call[t] EXCEPT !.at = "lost"].op = call[t].op /\ [call[t] EXCEPT !.at = "lost"].at = "lost"
    BY <2>1, CallMoves DEF Ats, Codes
  <2>3. call'[t] = [call[t] EXCEPT !.at = "lost"]
    BY <1>1, <1>2
  <2> QED BY <1>2, <2>2, <2>3
<1>3. CASE t \notin Creating
  BY <1>1, <1>3
<1> QED BY <1>2, <1>3

(* A worker's create is answered in its RPC. *)
LEMMA ServedCall ==
  ASSUME TypeOK, NEW t \in Workers, ServeWorker(t)
  PROVE  /\ call[t].op \in {"addDataSphere", "addService"} /\ call'[t].op = call[t].op
         /\ call[t].op = "addService" => call'[t].arg = call[t].arg
         /\ call'[t].at = IF (IF call[t].op = "addDataSphere" THEN treeSphere
                                                            ELSE call[t].arg \in treeServices)
                          THEN "exists" ELSE "ok"
         /\ \A u \in Workers \ {t} : call'[u] = call[u]
<1> DEFINE x == IF (IF call[t].op = "addDataSphere" THEN treeSphere ELSE call[t].arg \in treeServices)
                THEN "exists" ELSE "ok"
           d == [call[t] EXCEPT !.at = x]
<1>1. call' = [call EXCEPT ![t] = d] /\ t \in Creating
  BY DEF ServeWorker
<1>2. call[t] \in Calls /\ call[t].op \in {"addDataSphere", "addService"} /\ x \in {"exists", "ok"}
  BY <1>1, CreatingKinds DEF TypeOK
<1> HIDE DEF x
<1>3. d.op = call[t].op /\ d.at = x /\ (call[t].op = "addService" => d.arg = call[t].arg)
  BY <1>2, CallMoves DEF Ats, Codes
<1> HIDE DEF d
<1>4. call'[t] = d /\ \A u \in Workers \ {t} : call'[u] = call[u]
  BY <1>1 DEF TypeOK
<1> QED BY <1>2, <1>3, <1>4 DEF x

(* An RPC that goes on to, or on, the event base ends or waits there. *)
LEMMA EbCall ==
  ASSUME TypeOK, NEW t \in Workers, ServiceAdded(t) \/ addServiceInEb(t) \/ addResource(t)
  PROVE  /\ call[t].op \in {"addService", "addVolume"}
         /\ \/ call'[t] = Idle
            \/ /\ call'[t].op = call[t].op /\ call'[t].arg = call[t].arg
               /\ call'[t].at = "eb" => ServiceAdded(t)
         /\ \A u \in Workers \ {t} : call'[u] = call[u]
<1>1. /\ call \in [Workers -> Calls] /\ call[t] \in Calls
      /\ {"eb", "ring"} \subseteq Ats
  BY DEF TypeOK, Ats
<1>2. CASE ServiceAdded(t)
  <2> DEFINE d == [call[t] EXCEPT !.at = "eb"]
  <2>1. /\ call[t].op = "addService"
        /\ call' = [call EXCEPT ![t] = Idle] \/ call' = [call EXCEPT ![t] = d]
    BY <1>2 DEF ServiceAdded
  <2>2. d.op = call[t].op /\ d.arg = call[t].arg
    BY <1>1, <2>1, CallMoves
  <2> HIDE DEF d
  <2> QED BY <1>1, <1>2, <2>1, <2>2
<1>3. CASE addServiceInEb(t)
  <2> DEFINE d == [call[t] EXCEPT !.at = "ring"]
  <2>1. /\ call[t].op = "addService"
        /\ call' = [call EXCEPT ![t] = Idle] \/ call' = [call EXCEPT ![t] = d]
    BY <1>3 DEF addServiceInEb
  <2>2. d.op = call[t].op /\ d.arg = call[t].arg /\ d.at = "ring"
    BY <1>1, <2>1, CallMoves
  <2> HIDE DEF d
  <2> QED BY <1>1, <2>1, <2>2
<1>4. CASE addResource(t)
  <2> DEFINE d == [call[t] EXCEPT !.at = "volume"]
  <2>1. /\ call[t].op = "addVolume"
        /\ call' = [call EXCEPT ![t] = Idle] \/ call' = [call EXCEPT ![t] = d]
    BY <1>4 DEF addResource
  <2>2. d.op = call[t].op /\ d.arg = call[t].arg /\ d.at = "volume"
    BY <1>1, <2>1, CallMoves
  <2> HIDE DEF d
  <2> QED BY <1>1, <2>1, <2>2
<1> QED BY <1>2, <1>3, <1>4

(* The ring that a service completes, and the request for it. *)
LEMMA RingType ==
  ASSUME TypeOK, EbServices, NEW t \in Workers, call[t].op = "addService", call[t].at = "eb"
  PROVE  LET pending == Append(pendingServices, call[t].arg)
             ring == [id |-> nextAddRingId, memberIds |-> pending]
         IN  /\ pending \in Seq(VolumeServers) /\ ring \in Rings
             /\ [kind |-> "ring", node |-> ring, by |-> t] \in Requests
<1>1. call[t].arg \in VolumeServers
  BY DEF EbServices
<1>2. Append(pendingServices, call[t].arg) \in Seq(VolumeServers)
  BY <1>1, AppendProperties DEF TypeOK
<1> QED
  BY <1>2 DEF TypeOK, Rings, Requests

(* The volume of an RPC, once there is a ring, and the request for it. *)
LEMMA VolumeType ==
  ASSUME TypeOK, NEW t \in Workers, call[t].op = "addVolume", IsFiniteSet(rings), rings # {}
  PROVE  LET k == Cardinality(rings)
             volume == [id |-> nextResourceId, name |-> call[t].arg, ringId |-> nextResourceId % k]
         IN  /\ k \in Nat \ {0} /\ nextResourceId % k \in 0 .. (k - 1)
             /\ volume \in Volumes
             /\ [kind |-> "volume", node |-> volume, by |-> t] \in Requests
<1>1. Cardinality(rings) \in Nat \ {0}
  BY FS_CardinalityType, FS_EmptySet
<1>2. nextResourceId % Cardinality(rings) \in 0 .. (Cardinality(rings) - 1)
  BY <1>1 DEF TypeOK
<1>3. call[t].arg \in Names
  BY CallKinds DEF TypeOK
<1>4. nextResourceId % Cardinality(rings) \in Nat
  BY <1>1, <1>2
<1>5. [id |-> nextResourceId, name |-> call[t].arg, ringId |-> nextResourceId % Cardinality(rings)] \in Volumes
  BY <1>3, <1>4 DEF TypeOK, Volumes
<1> QED
  BY <1>1, <1>2, <1>5 DEF Requests

(* The oldest result and the rest. *)
LEMMA HeadCont ==
  ASSUME TypeOK, NEW kind, NEW rcs, Continue(kind, rcs)
  PROVE  /\ Head(conts) = conts[1] /\ 1 \in 1 .. Len(conts)
         /\ conts[1].kind = kind /\ conts[1].rc \in rcs
         /\ conts' = Tail(conts) /\ conts' \in Seq(Results)
         /\ conts[1].by \in Workers /\ call' = [call EXCEPT ![conts[1].by] = Idle]
         /\ kind = "ring" => conts[1].node \in Rings
         /\ kind = "volume" => conts[1].node \in Volumes
<1>1. /\ conts # <<>> /\ conts \in Seq(Results) /\ conts' = Tail(conts)
      /\ Head(conts).kind = kind /\ Head(conts).rc \in rcs
      /\ call' = [call EXCEPT ![Head(conts).by] = Idle]
  BY DEF Continue, TypeOK
<1>2. Head(conts) = conts[1] /\ 1 \in 1 .. Len(conts) /\ conts' \in Seq(Results)
  BY <1>1, HeadTailProperties, LenProperties, EmptySeq
<1> QED
  BY <1>1, <1>2, ResultKinds

(* The oldest request and the rest. *)
LEMMA HeadReq ==
  ASSUME TypeOK, reqs # <<>>
  PROVE  /\ Head(reqs) = reqs[1] /\ 1 \in 1 .. Len(reqs) /\ 1 \in 0 .. Len(reqs)
         /\ Tail(reqs) \in Seq(Requests) /\ Len(Tail(reqs)) = Len(reqs) - 1
         /\ \A i \in 1 .. Len(Tail(reqs)) : Tail(reqs)[i] = reqs[i + 1] /\ i + 1 \in 1 .. Len(reqs)
         /\ Code(Head(reqs)) \in {"ok", "exists"}
<1>1. reqs \in Seq(Requests)
  BY DEF TypeOK
<1>2. /\ Head(reqs) = reqs[1] /\ Tail(reqs) \in Seq(Requests) /\ Len(Tail(reqs)) = Len(reqs) - 1
      /\ \A i \in 1 .. Len(Tail(reqs)) : Tail(reqs)[i] = reqs[i + 1]
      /\ Len(reqs) \in Nat \ {0}
  BY <1>1, HeadTailProperties, LenProperties, EmptySeq
<1>3. Code(Head(reqs)) \in {"ok", "exists"}
  BY DEF Code
<1> QED
  BY <1>2, <1>3

(* A function on 1 .. n is a sequence of length n. *)
LEMMA FunctionIsSeq ==
  ASSUME NEW S, NEW n \in Nat, NEW f \in [1 .. n -> S]
  PROVE  f \in Seq(S) /\ Len(f) = n
<1>1. f = [i \in 1 .. n |-> f[i]]
  OBVIOUS
<1>2. [i \in 1 .. n |-> f[i]] \in Seq(S)
  OBVIOUS
<1>3. Len([i \in 1 .. n |-> f[i]]) = n
  OBVIOUS
<1> QED
  BY <1>1, <1>2, <1>3

(* A lost connection answers every request in order. *)
LEMMA LostAnswers ==
  ASSUME TypeOK, NEW n, NEW T, LoseConnection(n, T)
  PROVE  /\ conts' \in Seq(Results) /\ Len(conts') = Len(conts) + Len(reqs)
         /\ \A i \in 1 .. Len(conts) : i \in 1 .. Len(conts') /\ conts'[i] = conts[i]
         /\ \A i \in 1 .. Len(conts') : i \notin 1 .. Len(conts) =>
              i - Len(conts) \in 1 .. Len(reqs) /\ conts'[i] = Answer(reqs[i - Len(conts)], "lost")
<1> DEFINE lost == [i \in DOMAIN reqs |-> Answer(reqs[i], "lost")]
<1>1. /\ reqs \in Seq(Requests) /\ conts \in Seq(Results) /\ conts' = conts \o lost
      /\ Len(reqs) \in Nat /\ Len(conts) \in Nat /\ DOMAIN reqs = 1 .. Len(reqs)
  BY LenProperties DEF TypeOK, LoseConnection
<1>2. \A i \in 1 .. Len(reqs) : Answer(reqs[i], "lost") \in Results
  BY RequestKinds, AnswerType DEF Codes
<1>3. /\ lost \in Seq(Results) /\ Len(lost) = Len(reqs)
      /\ \A i \in 1 .. Len(reqs) : lost[i] = Answer(reqs[i], "lost")
  <2>1. /\ lost \in [1 .. Len(reqs) -> Results]
        /\ \A i \in 1 .. Len(reqs) : lost[i] = Answer(reqs[i], "lost")
    BY <1>1, <1>2
  <2> HIDE DEF lost
  <2> QED BY <1>1, <2>1, FunctionIsSeq
<1> HIDE DEF lost
<1>4. /\ conts' \in Seq(Results) /\ Len(conts') = Len(conts) + Len(reqs)
      /\ \A i \in 1 .. Len(conts) + Len(lost) :
           conts'[i] = IF i <= Len(conts) THEN conts[i] ELSE lost[i - Len(conts)]
  <2>1. /\ conts \o lost \in Seq(Results) /\ Len(conts \o lost) = Len(conts) + Len(lost)
        /\ \A i \in 1 .. Len(conts) + Len(lost) :
             (conts \o lost)[i] = IF i <= Len(conts) THEN conts[i] ELSE lost[i - Len(conts)]
    BY <1>1, <1>3, ConcatProperties, Zenon
  <2> QED BY <1>1, <1>3, <2>1, Zenon
<1> QED
  BY <1>1, <1>3, <1>4

(* A step of a volume server leaves the service, the topic and the nodes of the tree
   alone. *)
LEMMA ServerFrame ==
  ASSUME NEW s \in Started, ServerStep(s)
  PROVE  UNCHANGED <<treeSphere, treeServices, ringsRoot, treeRings, treeVolumes, topic, sphere,
                     serviceCache, pendingServices, rings, nextAddRingId, resources,
                     nextResourceId, call, reqs, conts, calls, losses>>
BY DEF ServerStep, Boot, StartServer, PullRings, PullResources, PullResourcesFails, Subscribe,
   handleNewResource, applyResourceUpdate, CommitOffset, increaseTerm, CrashServer, EndServer,
   tree, tables

(* Every action of a server keeps the types. *)
LEMMA ServerType ==
  ASSUME TypeOK, NEW s \in Started, ServerStep(s)
  PROVE  TypeOK'
<1>1. CASE StartServer(s)
  BY <1>1 DEF TypeOK, StartServer, tree, tables
<1>2. CASE PullRings(s)
  BY <1>2 DEF TypeOK, PullRings, tree, tables
<1>3. ASSUME NEW V \in SUBSET Volumes PROVE Owned(s, V) \subseteq Nat
  BY DEF Owned, Volumes
<1>4. CASE PullResources(s)
  <2>1. Owned(s, treeVolumes) \subseteq Nat
    BY <1>3 DEF TypeOK
  <2> QED BY <1>4, <2>1 DEF TypeOK, PullResources, tree, tables
<1>5. CASE PullResourcesFails(s) \/ applyResourceUpdate(s) \/ CrashServer(s)
  <2>1. crashes' \in Nat /\ (EndServer(s, "down") \/ EndServer(s, "aborted"))
    BY <1>5 DEF TypeOK, PullResourcesFails, applyResourceUpdate, CrashServer
  <2> QED BY <2>1, EndServerType
<1>6. CASE Subscribe(s)
  <2>1. Len(topic) \in Nat
    BY LenProperties DEF TypeOK
  <2> QED BY <1>6, <2>1 DEF TypeOK, Subscribe, tree, tables
<1>7. CASE handleNewResource(s)
  <2>1. topic[offset[s] + 1] \in Volumes
    BY <1>7, ElementOfSeq DEF TypeOK, handleNewResource, consumeMessage
  <2>2. Owned(s, {topic[offset[s] + 1]}) \subseteq Nat
    BY <1>3, <2>1
  <2> DEFINE O == Owned(s, {topic[offset[s] + 1]})
  <2>3. /\ resourceTable' = [resourceTable EXCEPT ![s] = @ \cup O]
        /\ offset' = [offset EXCEPT ![s] = @ + 1]
        /\ UNCHANGED <<tree, topic, tables, call, reqs, conts, server, ringTable, committed, calls,
                       crashes, losses>>
    BY <1>7 DEF handleNewResource
  <2> HIDE DEF O
  <2>4. O \subseteq Nat
    BY <2>2 DEF O
  <2>5. resourceTable[s] \cup O \in SUBSET Nat
    BY <2>4 DEF TypeOK
  <2>6. resourceTable' \in [Started -> SUBSET Nat] /\ offset' \in [Started -> Nat]
    BY <2>3, <2>5 DEF TypeOK
  <2> QED BY <2>3, <2>6 DEF TypeOK, tree, tables
<1>8. CASE CommitOffset(s)
  BY <1>8 DEF TypeOK, CommitOffset, tree, tables
<1>9. ASSUME NEW id \in resourceTable[s], increaseTerm(s, id) PROVE TypeOK'
  BY <1>9 DEF TypeOK, increaseTerm, tables, servers
<1> QED
  BY <1>1, <1>2, <1>4, <1>5, <1>6, <1>7, <1>8, <1>9 DEF ServerStep, Boot

(* Every action keeps the types: one step per action of Next. *)
LEMMA NextType ==
  ASSUME TypeOK, EbServices, IsFiniteSet(rings), [Next]_vars
  PROVE  TypeOK' /\ EbServices'
<1>1. ASSUME NEW t \in Workers, WorkerStep(t)
      PROVE  call' \in [Workers -> Calls] /\ EbServices'
  BY <1>1, WorkerCall, CallStep
<1>2. ASSUME NEW t \in Workers, ServeWorker(t) PROVE TypeOK'
  <2>1. treeServices' \subseteq Services /\ treeSphere' \in BOOLEAN
    BY <1>2, CreateForAdds DEF ServeWorker
  <2>2. call' \in [Workers -> Calls]
    BY <1>1, <1>2 DEF WorkerStep
  <2> QED BY <1>2, <2>1, <2>2 DEF TypeOK, ServeWorker, tables, servers
<1>3. ASSUME NEW t \in Workers, CreateFailed(t) PROVE TypeOK'
  <2>1. call' \in [Workers -> Calls]
    BY <1>1, <1>3 DEF WorkerStep
  <2> QED BY <1>3, <2>1 DEF TypeOK, CreateFailed, tree, tables, servers
<1>4. ASSUME NEW t \in Workers, DataSphereAdded(t) PROVE TypeOK'
  <2>1. call' \in [Workers -> Calls]
    BY <1>1, <1>4 DEF WorkerStep
  <2>2. NewManager /\ sphere' = TRUE
        /\ UNCHANGED <<tree, topic, reqs, conts, servers, calls, crashes, losses>>
    BY <1>4 DEF DataSphereAdded
  <2>3. pendingServices' \in Seq(VolumeServers)
    BY <2>2 DEF NewManager
  <2> QED BY <2>1, <2>2, <2>3 DEF TypeOK, NewManager, tree, servers
<1>5. ASSUME NEW t \in Workers, ServiceAdded(t) PROVE TypeOK'
  <2>1. call' \in [Workers -> Calls]
    BY <1>1, <1>5 DEF WorkerStep
  <2>2. call[t].arg \in Services
    BY <1>5, CallKinds DEF ServiceAdded, TypeOK
  <2> QED BY <1>5, <2>1, <2>2 DEF TypeOK, ServiceAdded, tree, servers
<1>6. ASSUME NEW t \in Workers, addServiceInEb(t) PROVE TypeOK'
  <2>1. call' \in [Workers -> Calls]
    BY <1>1, <1>6 DEF WorkerStep
  <2> DEFINE pending == Append(pendingServices, call[t].arg)
             ring == [id |-> nextAddRingId, memberIds |-> pending]
             q == [kind |-> "ring", node |-> ring, by |-> t]
  <2>2. pending \in Seq(VolumeServers) /\ q \in Requests
    BY <1>6, RingType DEF addServiceInEb
  <2>3. /\ \/ pendingServices' = pending /\ nextAddRingId' = nextAddRingId /\ reqs' = reqs
           \/ pendingServices' = <<>> /\ nextAddRingId' = nextAddRingId + 1 /\ reqs' = Append(reqs, q)
        /\ UNCHANGED <<tree, topic, sphere, serviceCache, rings, resources, nextResourceId, conts,
                       servers, calls, crashes, losses>>
    BY <1>6 DEF addServiceInEb
  <2> HIDE DEF pending, q
  <2>4. pendingServices' \in Seq(VolumeServers) /\ reqs' \in Seq(Requests) /\ nextAddRingId' \in Nat
    <3>1. reqs \in Seq(Requests) /\ nextAddRingId \in Nat
      BY DEF TypeOK
    <3>2. Append(reqs, q) \in Seq(Requests) /\ <<>> \in Seq(VolumeServers)
      BY <2>2, <3>1, AppendProperties, EmptySeq
    <3>3. CASE pendingServices' = pending /\ nextAddRingId' = nextAddRingId /\ reqs' = reqs
      BY <2>2, <3>1, <3>3
    <3>4. CASE pendingServices' = <<>> /\ nextAddRingId' = nextAddRingId + 1 /\ reqs' = Append(reqs, q)
      BY <3>1, <3>2, <3>4
    <3> QED BY <2>3, <3>3, <3>4
  <2> QED BY <2>1, <2>3, <2>4 DEF TypeOK, tree, servers
<1>7. ASSUME NEW t \in Workers, addResource(t) PROVE TypeOK'
  <2>1. call' \in [Workers -> Calls]
    BY <1>1, <1>7 DEF WorkerStep
  <2> DEFINE volume == [id |-> nextResourceId, name |-> call[t].arg,
                        ringId |-> nextResourceId % Cardinality(rings)]
             q == [kind |-> "volume", node |-> volume, by |-> t]
  <2>2. /\ \/ nextResourceId' = nextResourceId /\ reqs' = reqs
           \/ /\ call[t].op = "addVolume" /\ rings # {}
              /\ nextResourceId' = nextResourceId + 1 /\ reqs' = Append(reqs, q)
        /\ UNCHANGED <<tree, topic, sphere, serviceCache, pendingServices, rings, nextAddRingId,
                       resources, conts, servers, calls, crashes, losses>>
    BY <1>7 DEF addResource
  <2>3. call[t].op = "addVolume" /\ rings # {} => q \in Requests
    BY VolumeType
  <2> HIDE DEF q
  <2>4. reqs' \in Seq(Requests) /\ nextResourceId' \in Nat
    <3>1. reqs \in Seq(Requests) /\ nextResourceId \in Nat
      BY DEF TypeOK
    <3>2. q \in Requests => Append(reqs, q) \in Seq(Requests)
      BY <3>1, AppendProperties
    <3> QED BY <2>2, <2>3, <3>1, <3>2
  <2> QED BY <2>1, <2>2, <2>4 DEF TypeOK, tree, servers
<1>8. ASSUME NEW t \in Workers, NEW c \in Calls, c.at = "create" \/ c.op = "addVolume", Begin(t, c)
      PROVE  TypeOK' /\ EbServices'
  <2>1. call' \in [Workers -> Calls] /\ EbServices'
    BY <1>8, CallStep DEF Begin
  <2> QED BY <1>8, <2>1 DEF TypeOK, Begin, tree, tables, servers
<1>9. ASSUME NEW t \in Workers, addDataSphere(t) PROVE TypeOK' /\ EbServices'
  BY <1>8, <1>9 DEF addDataSphere, Calls
<1>10. ASSUME NEW t \in Workers, NEW s \in Services, addService(t, s) PROVE TypeOK' /\ EbServices'
  BY <1>8, <1>10 DEF addService, Calls
<1>11. ASSUME NEW t \in Workers, NEW name \in Names, addVolume(t, name) PROVE TypeOK' /\ EbServices'
  BY <1>8, <1>11 DEF addVolume, Calls
<1>12. ASSUME CreateRingsRoot PROVE TypeOK' /\ EbServices'
  BY <1>12 DEF TypeOK, EbServices, CreateRingsRoot, tables, servers
<1>13. ASSUME ServeCreate PROVE TypeOK' /\ EbServices'
  <2>1. /\ reqs # <<>> /\ CreateNodes(1) /\ reqs' = Tail(reqs)
        /\ conts' = Append(conts, Answer(Head(reqs), Code(Head(reqs))))
        /\ UNCHANGED <<treeSphere, treeServices, ringsRoot, erased, topic, tables, call, servers,
                       calls, crashes, losses>>
    BY <1>13 DEF ServeCreate
  <2>2. reqs' \in Seq(Requests) /\ Head(reqs) \in Requests /\ Code(Head(reqs)) \in Codes
    BY <2>1, HeadReq, RequestKinds DEF Codes
  <2>3. conts' \in Seq(Results)
    BY <2>1, <2>2, AnswerType, AppendProperties DEF TypeOK
  <2>4. treeRings' \subseteq Rings /\ treeVolumes' \subseteq Volumes
    BY <2>1, HeadReq, CreateNodesAdds
  <2>5. EbServices'
    BY <2>1 DEF EbServices
  <2> QED BY <2>1, <2>2, <2>3, <2>4, <2>5 DEF TypeOK, tables, servers
<1>14. ASSUME NEW n \in 0 .. Len(reqs), NEW T \in SUBSET Creating, LoseConnection(n, T)
       PROVE  TypeOK' /\ EbServices'
  <2>1. /\ CreateFor(T) /\ CreateNodes(n) /\ reqs' = <<>> /\ losses' = losses + 1
        /\ UNCHANGED <<ringsRoot, erased, topic, tables, servers, calls, crashes>>
        /\ call' = [t \in Workers |-> IF t \in Creating THEN [call[t] EXCEPT !.at = "lost"] ELSE call[t]]
    BY <1>14 DEF LoseConnection
  <2>2. /\ treeRings' \subseteq Rings /\ treeVolumes' \subseteq Volumes
        /\ treeServices' \subseteq Services /\ treeSphere' \in BOOLEAN
    BY <2>1, CreateNodesAdds, CreateForAdds
  <2>3. conts' \in Seq(Results) /\ reqs' \in Seq(Requests)
    BY <1>14, <2>1, LostAnswers
  <2>4. ASSUME NEW t \in Creating
        PROVE  [call[t] EXCEPT !.at = "lost"] \in Calls /\ [call[t] EXCEPT !.at = "lost"].at = "lost"
    <3>1. t \in Workers /\ call[t].op \in {"addDataSphere", "addService"}
      BY CreatingKinds
    <3> QED BY <3>1, CallMoves DEF TypeOK, Ats, Codes
  <2>5. call' \in [Workers -> Calls]
    BY <2>1, <2>4 DEF TypeOK
  <2>6. \A t \in Workers : call'[t] = call[t] \/ call'[t].at = "lost"
    BY <2>1, <2>4
  <2>7. EbServices'
    BY <2>6 DEF EbServices
  <2> QED BY <2>1, <2>2, <2>3, <2>5, <2>7 DEF TypeOK, tables, servers
<1>15. ASSUME NEW kind, NEW rcs, Continue(kind, rcs)
       PROVE  conts' \in Seq(Results) /\ call' \in [Workers -> Calls] /\ EbServices'
  <2>1. /\ conts' \in Seq(Results) /\ conts[1].by \in Workers
        /\ call' = [call EXCEPT ![conts[1].by] = Idle]
    BY <1>15, HeadCont
  <2> QED BY <2>1, IdleCall, CallStep
<1>16. ASSUME RingAdded PROVE TypeOK' /\ EbServices'
  <2>1. Continue("ring", {"ok"}) /\ rings' = Put(rings, Head(conts).node)
    BY <1>16 DEF RingAdded
  <2>2. rings' \subseteq Rings
    BY <2>1, HeadCont DEF Put, TypeOK
  <2> QED BY <1>15, <1>16, <2>1, <2>2 DEF TypeOK, RingAdded, tree, servers
<1>17. ASSUME ResourceAdded PROVE TypeOK' /\ EbServices'
  <2>1. /\ Continue("volume", {"ok"}) /\ resources' = Put(resources, Head(conts).node)
        /\ topic' = topic \/ topic' = Append(topic, Head(conts).node)
    BY <1>17 DEF ResourceAdded, publishResourceInfo, publishMessage
  <2>2. Head(conts).node \in Volumes
    BY <2>1, HeadCont
  <2>3. resources' \subseteq Volumes
    BY <2>1, <2>2 DEF Put, TypeOK
  <2>4. topic' \in Seq(Volumes)
    <3>1. topic \in Seq(Volumes) /\ Append(topic, Head(conts).node) \in Seq(Volumes)
      BY <2>2, AppendProperties DEF TypeOK
    <3> QED BY <2>1, <3>1
  <2> QED BY <1>15, <1>17, <2>1, <2>3, <2>4 DEF TypeOK, ResourceAdded, tree, servers
<1>18. ASSUME ResourceFailed PROVE TypeOK' /\ EbServices'
  <2>1. conts' \in Seq(Results) /\ call' \in [Workers -> Calls] /\ EbServices'
    BY <1>15, <1>18 DEF ResourceFailed
  <2> QED BY <1>18, <2>1 DEF TypeOK, ResourceFailed, tree, tables, servers
<1>19. ASSUME RingFailed \/ Crash PROVE TypeOK' /\ EbServices'
  <2>1. EndProcess /\ crashes' \in {crashes, crashes + 1}
    BY <1>19 DEF RingFailed, Crash
  <2>2. crashes' \in Nat
    BY <2>1 DEF TypeOK
  <2> QED BY <2>1, <2>2, EndProcessType
<1>20. ASSUME NEW s \in Started, ServerStep(s) PROVE TypeOK' /\ EbServices'
  BY <1>20, ServerType, ServerFrame DEF EbServices
<1>21. CASE UNCHANGED vars
  BY <1>21 DEF TypeOK, EbServices, vars, tree, tables, servers
<1>22. ASSUME NEW t \in Workers, WorkerStep(t) PROVE TypeOK' /\ EbServices'
  BY <1>1, <1>2, <1>3, <1>4, <1>5, <1>6, <1>7, <1>22 DEF WorkerStep
<1> QED
  BY <1>9, <1>10, <1>11, <1>12, <1>13, <1>14, <1>16, <1>17, <1>18, <1>19, <1>20, <1>21, <1>22
     DEF Next, EbStep

-----------------------------------------------------------------------------
(* The sphere is added once. *)

(* While the sphere is in memory, its node exists and no RPC has just made it. *)
LEMMA SphereInMemory ==
  ASSUME SphereOnce, sphere
  PROVE  treeSphere /\ \A t \in Workers : ~SphereMade(t)
BY DEF SphereOnce

(* RPCs for services and volumes, and creates, exist only while it is in memory. *)
LEMMA InSphere ==
  ASSUME SphereOnce,
         \/ \E t \in Workers : call[t].op \in {"addService", "addVolume"}
         \/ reqs # <<>> \/ conts # <<>>
  PROVE  sphere
BY DEF SphereOnce

(* A step inside the sphere. *)
LEMMA StepInSphere ==
  ASSUME SphereOnce, sphere, sphere' = sphere, treeSphere => treeSphere',
         \A t \in Workers : SphereMade(t)' => SphereMade(t)
  PROVE  SphereOnce'
BY SphereInMemory DEF SphereOnce

(* A step of one RPC that makes no sphere. *)
LEMMA NoSphereMade ==
  ASSUME NEW t \in Workers, NEW d, call'[t] = d, \A u \in Workers \ {t} : call'[u] = call[u],
         ~(d.op = "addDataSphere" /\ d.at = "ok")
  PROVE  \A u \in Workers : SphereMade(u)' => SphereMade(u) /\ u # t
BY DEF SphereMade

(* Outside the sphere no node of a service, ring or volume is created. *)
LEMMA NothingCreated ==
  ASSUME TypeOK, SphereOnce, ~sphere, NEW n \in 0 .. Len(reqs), NEW T \in SUBSET Creating,
         CreateFor(T), CreateNodes(n)
  PROVE  UNCHANGED <<treeServices, treeRings, treeVolumes>>
<1>1. reqs = <<>> /\ \A t \in Workers : call[t].op # "addService"
  BY DEF SphereOnce
<1>2. n = 0 /\ \A i \in 1 .. n : FALSE
  BY <1>1
<1>3. treeRings' = treeRings
  BY <1>2, CreateNodesAdds
<1>4. treeVolumes' = treeVolumes
  BY <1>2, CreateNodesAdds
<1>5. \A t \in T : t \in Workers
  BY DEF Creating
<1>6. treeServices' = treeServices
  BY <1>1, <1>5, CreateForAdds
<1> QED
  BY <1>3, <1>4, <1>6

(* The end of the process: the sphere is not in memory, and stays so if it exists. *)
LEMMA EndProcessSphere ==
  ASSUME TypeOK, SphereOnce, EndProcess
  PROVE  SphereOnce'
<1>1. PICK n \in 0 .. Len(reqs), T \in SUBSET Creating : CreateFor(T) /\ CreateNodes(n)
  BY DEF EndProcess
<1>2. /\ sphere' = FALSE /\ serviceCache' = {} /\ pendingServices' = <<>> /\ rings' = {}
      /\ nextAddRingId' = 0 /\ resources' = {} /\ nextResourceId' = 0
      /\ reqs' = <<>> /\ conts' = <<>> /\ \A t \in Workers : call'[t].op = "none"
  BY DEF EndProcess, NewManager, Idle
<1>3. \A t \in Workers : ~SphereMade(t)'
  BY <1>2 DEF SphereMade
<1>4. ~treeSphere' => treeServices' = {} /\ treeRings' = {} /\ treeVolumes' = {}
  <2>1. SUFFICES ASSUME ~treeSphere' PROVE treeServices' = {} /\ treeRings' = {} /\ treeVolumes' = {}
    OBVIOUS
  <2>2. ~treeSphere
    BY <1>1, <2>1, CreateForAdds
  <2>3. ~sphere /\ treeServices = {} /\ treeRings = {} /\ treeVolumes = {}
    BY <2>2 DEF SphereOnce
  <2> QED BY <1>1, <2>3, NothingCreated
<1> QED
  BY <1>2, <1>3, <1>4 DEF SphereOnce

(* Every step keeps the sphere single. *)
LEMMA NextSphere ==
  ASSUME TypeOK, EbServices, SphereOnce, [Next]_vars
  PROVE  SphereOnce'
<1>1. ASSUME NEW t \in Workers, ServeWorker(t), call[t].op = "addService" PROVE SphereOnce'
  <2>1. sphere
    BY <1>1, InSphere
  <2>2. t \in Creating /\ CreateFor({t}) /\ sphere' = sphere
    BY <1>1 DEF ServeWorker, tables
  <2>3. \A u \in Workers : SphereMade(u)' => SphereMade(u)
    <3>1. PICK x : call' = [call EXCEPT ![t] = [call[t] EXCEPT !.at = x]]
      BY <1>1 DEF ServeWorker
    <3>2. call'[t].op = "addService" /\ \A u \in Workers \ {t} : call'[u] = call[u]
      <4>1. call[t] \in [op : {"addService"}, arg : Services, at : Ats]
        BY <1>1, CallKinds DEF TypeOK
      <4> QED BY <3>1, <4>1 DEF TypeOK
    <3> QED BY <3>2 DEF SphereMade
  <2> QED BY <2>1, <2>2, <2>3, CreateForAdds, StepInSphere
<1>2. ASSUME NEW t \in Workers, ServeWorker(t), call[t].op = "addDataSphere" PROVE SphereOnce'
  <2> DEFINE x == IF treeSphere THEN "exists" ELSE "ok"
             d == [call[t] EXCEPT !.at = x]
  <2>1. /\ t \in Creating /\ CreateFor({t})
        /\ call' = [call EXCEPT ![t] = d]
        /\ UNCHANGED <<treeRings, treeVolumes, tables, reqs, conts>>
    BY <1>2 DEF ServeWorker
  <2>2. d.op = "addDataSphere" /\ d.at = x
    BY <1>2, CallMoves DEF TypeOK, Codes
  <2>3. treeSphere' = TRUE /\ treeServices' = treeServices
    BY <1>2, <2>1 DEF CreateFor
  <2> HIDE DEF d
  <2>4. call'[t] = d /\ \A u \in Workers \ {t} : call'[u] = call[u]
    BY <2>1 DEF TypeOK
  <2>5. CASE treeSphere
    <3>1. \A u \in Workers : SphereMade(u)' => SphereMade(u) /\ u # t
      BY <2>2, <2>4, <2>5, NoSphereMade
    <3>2. ~sphere => \A u \in Workers : call'[u].op \in {"none", "addDataSphere"}
      BY <2>2, <2>4 DEF SphereOnce
    <3> QED BY <2>1, <2>3, <3>1, <3>2 DEF SphereOnce, tables
  <2>6. CASE ~treeSphere
    <3>1. ~sphere /\ \A u \in Workers : ~SphereMade(u)
      BY <2>6 DEF SphereOnce
    <3>2. \A u \in Workers : SphereMade(u)' => u = t
      BY <2>4, <3>1 DEF SphereMade
    <3>3. \A u \in Workers : call'[u].op \in {"none", "addDataSphere"}
      BY <2>2, <2>4, <3>1 DEF SphereOnce
    <3> QED BY <2>1, <2>3, <2>6, <3>1, <3>2, <3>3 DEF SphereOnce, tables
  <2> QED BY <2>5, <2>6
<1>3. ASSUME NEW t \in Workers, NEW d \in Calls, call' = [call EXCEPT ![t] = d],
             ~(d.op = "addDataSphere" /\ d.at = "ok"),
             sphere \/ d.op \in {"none", "addDataSphere"},
             UNCHANGED <<treeSphere, treeServices, treeRings, treeVolumes, tables, reqs, conts>>
      PROVE  SphereOnce'
  <2>1. call'[t] = d /\ \A u \in Workers \ {t} : call'[u] = call[u]
    BY <1>3 DEF TypeOK
  <2>2. \A u \in Workers : SphereMade(u)' => SphereMade(u) /\ u # t
    BY <1>3, <2>1, NoSphereMade
  <2>3. ~sphere => \A u \in Workers : call'[u].op \in {"none", "addDataSphere"}
    BY <1>3, <2>1 DEF SphereOnce
  <2> QED BY <1>3, <2>2, <2>3 DEF SphereOnce, tables
<1>4. ASSUME NEW t \in Workers, CreateFailed(t) PROVE SphereOnce'
  BY <1>3, <1>4, IdleCall DEF CreateFailed, tree
<1>5. ASSUME NEW t \in Workers, DataSphereAdded(t) PROVE SphereOnce'
  <2>1. /\ SphereMade(t) /\ sphere' = TRUE /\ call' = [call EXCEPT ![t] = Idle]
        /\ treeSphere' = treeSphere
    BY <1>5 DEF DataSphereAdded, SphereMade, tree
  <2>2. call'[t] = Idle /\ \A u \in Workers \ {t} : call'[u] = call[u]
    BY <2>1 DEF TypeOK
  <2>3. \A u \in Workers : SphereMade(u)' => SphereMade(u) /\ u # t
    BY <2>2, IdleCall, NoSphereMade
  <2>4. treeSphere' /\ \A u \in Workers : ~SphereMade(u)'
    BY <2>1, <2>3 DEF SphereOnce
  <2> QED BY <2>1, <2>4 DEF SphereOnce
<1>6. ASSUME NEW t \in Workers, ServiceAdded(t) \/ addServiceInEb(t) \/ addResource(t)
      PROVE  SphereOnce'
  <2>1. /\ call[t].op \in {"addService", "addVolume"}
        /\ UNCHANGED <<sphere, treeSphere>>
    BY <1>6 DEF ServiceAdded, addServiceInEb, addResource, tree
  <2>2. sphere
    BY <2>1, InSphere
  <2>5. /\ call'[t].op \in {"none", "addService", "addVolume"}
        /\ \A u \in Workers \ {t} : call'[u] = call[u]
    BY <1>6, EbCall, IdleCall
  <2>6. \A u \in Workers : SphereMade(u)' => SphereMade(u) /\ u # t
    BY <2>5, NoSphereMade
  <2> QED BY <2>1, <2>2, <2>6, StepInSphere
<1>7. ASSUME NEW t \in Workers, addDataSphere(t) PROVE SphereOnce'
  <2> DEFINE d == [op |-> "addDataSphere", at |-> "create"]
  <2>1. d \in Calls /\ d.op = "addDataSphere" /\ d.at = "create"
    BY DEF Calls
  <2>2. call' = [call EXCEPT ![t] = d]
        /\ UNCHANGED <<treeSphere, treeServices, treeRings, treeVolumes, tables, reqs, conts>>
    BY <1>7 DEF addDataSphere, Begin, tree
  <2> HIDE DEF d
  <2> QED BY <1>3, <2>1, <2>2
<1>8. ASSUME NEW t \in Workers, NEW s \in Services, addService(t, s) PROVE SphereOnce'
  <2> DEFINE d == [op |-> "addService", arg |-> s, at |-> "create"]
  <2>1. d \in Calls /\ d.op = "addService"
    BY DEF Calls
  <2>2. sphere /\ call' = [call EXCEPT ![t] = d]
        /\ UNCHANGED <<treeSphere, treeServices, treeRings, treeVolumes, tables, reqs, conts>>
    BY <1>8 DEF addService, Begin, getDatasphereOrThrow, tree
  <2> HIDE DEF d
  <2> QED BY <1>3, <2>1, <2>2
<1>9. ASSUME NEW t \in Workers, NEW name \in Names, addVolume(t, name) PROVE SphereOnce'
  <2> DEFINE d == [op |-> "addVolume", arg |-> name, at |-> "eb"]
  <2>1. d \in Calls /\ d.op = "addVolume"
    BY DEF Calls
  <2>2. sphere /\ call' = [call EXCEPT ![t] = d]
        /\ UNCHANGED <<treeSphere, treeServices, treeRings, treeVolumes, tables, reqs, conts>>
    BY <1>9 DEF addVolume, Begin, getDatasphereOrThrow, tree
  <2> HIDE DEF d
  <2> QED BY <1>3, <2>1, <2>2
<1>10. ASSUME ServeCreate PROVE SphereOnce'
  <2>1. reqs # <<>> /\ UNCHANGED <<sphere, treeSphere, call>>
    BY <1>10 DEF ServeCreate, tables
  <2> QED BY <2>1, InSphere, StepInSphere DEF SphereMade
<1>11. ASSUME NEW n \in 0 .. Len(reqs), NEW T \in SUBSET Creating, LoseConnection(n, T)
       PROVE  SphereOnce'
  <2>1. /\ CreateFor(T) /\ CreateNodes(n) /\ reqs' = <<>> /\ UNCHANGED tables
        /\ call' = [t \in Workers |-> IF t \in Creating THEN [call[t] EXCEPT !.at = "lost"] ELSE call[t]]
    BY <1>11 DEF LoseConnection
  <2>2. ASSUME NEW t \in Workers
        PROVE  call'[t] = call[t] \/ (call'[t].op = call[t].op /\ call'[t].at = "lost")
    BY <1>11, LostCall
  <2>3. \A t \in Workers : SphereMade(t)' => SphereMade(t)
    BY <2>2 DEF SphereMade
  <2>4. treeSphere => treeSphere'
    BY <2>1, CreateForAdds
  <2>5. CASE sphere
    BY <2>1, <2>3, <2>4, <2>5, StepInSphere DEF tables
  <2>6. CASE ~sphere
    <3>1. UNCHANGED <<treeServices, treeRings, treeVolumes>>
      BY <2>1, <2>6, NothingCreated
    <3>2. reqs = <<>> /\ conts = <<>>
      BY <2>6 DEF SphereOnce
    <3>3. conts' = <<>>
      <4>1. Len(conts') = 0 /\ conts' \in Seq(Results)
        BY <1>11, <3>2, LostAnswers
      <4> QED BY <4>1, EmptySeq
    <3>4. \A t \in Workers : call'[t].op \in {"none", "addDataSphere"}
      BY <2>2, <2>6 DEF SphereOnce
    <3> QED BY <2>1, <2>3, <2>4, <2>6, <3>1, <3>3, <3>4 DEF SphereOnce, tables
  <2> QED BY <2>5, <2>6
<1>12. ASSUME RingAdded \/ ResourceAdded \/ ResourceFailed PROVE SphereOnce'
  <2>1. /\ conts # <<>> /\ UNCHANGED <<sphere, treeSphere>>
        /\ conts[1].by \in Workers /\ call' = [call EXCEPT ![conts[1].by] = Idle]
    <3>1. PICK kind, rcs : Continue(kind, rcs)
      BY <1>12 DEF RingAdded, ResourceAdded, ResourceFailed
    <3>2. conts[1].by \in Workers /\ call' = [call EXCEPT ![conts[1].by] = Idle] /\ conts # <<>>
      BY <3>1, HeadCont DEF Continue
    <3> QED BY <1>12, <3>2 DEF RingAdded, ResourceAdded, ResourceFailed, tree, tables
  <2>2. \A u \in Workers : call'[u] = Idle \/ call'[u] = call[u]
    BY <2>1 DEF TypeOK
  <2>3. \A u \in Workers : SphereMade(u)' => SphereMade(u)
    BY <2>2, IdleCall DEF SphereMade
  <2> QED BY <2>1, <2>3, InSphere, StepInSphere
<1>13. ASSUME RingFailed \/ Crash PROVE SphereOnce'
  BY <1>13, EndProcessSphere DEF RingFailed, Crash
<1>14. ASSUME \/ CreateRingsRoot \/ (\E s \in Started : ServerStep(s)) \/ UNCHANGED vars
       PROVE  SphereOnce'
  <2>1. UNCHANGED <<treeSphere, treeServices, treeRings, treeVolumes, sphere,
                    serviceCache, pendingServices, rings, nextAddRingId, resources,
                    nextResourceId, call, reqs, conts>>
    BY <1>14, ServerFrame DEF CreateRingsRoot, vars, tree, tables
  <2> QED BY <2>1 DEF SphereOnce, SphereMade
<1>15. ASSUME NEW t \in Workers, WorkerStep(t) PROVE SphereOnce'
  <2>1. ServeWorker(t) => call[t].op \in {"addDataSphere", "addService"}
    BY CreatingKinds DEF ServeWorker
  <2> QED BY <1>1, <1>2, <1>4, <1>5, <1>6, <1>15, <2>1 DEF WorkerStep
<1> QED
  BY <1>7, <1>8, <1>9, <1>10, <1>11, <1>12, <1>13, <1>14, <1>15 DEF Next, EbStep

-----------------------------------------------------------------------------
(* Creates in flight are in the order of their ids. *)

(* The order depends on the entries only. *)
LEMMA InOrderSame ==
  ASSUME NEW N \in Nat, NEW F, NEW G, NEW k, NEW n, NEW v, \A i \in 1 .. N : G[i] = F[i],
         InOrder(F, N, k, n, v)
  PROVE  InOrder(G, N, k, n, v)
BY DEF InOrder

(* A new ring goes to the end. *)
LEMMA InOrderRing ==
  ASSUME NEW N \in Nat, NEW F, NEW G, NEW k \in Nat, NEW n \in Nat, NEW v \in Nat, k <= n,
         \A i \in 1 .. N : F[i].node.id \in Nat /\ G[i] = F[i],
         G[N + 1].kind = "ring", G[N + 1].node.id = n, InOrder(F, N, k, n, v)
  PROVE  InOrder(G, N + 1, k, n + 1, v)
<1>1. \A i \in 1 .. (N + 1) : i \in 1 .. N \/ i = N + 1
  OBVIOUS
<1>2. ASSUME NEW i \in 1 .. (N + 1), NEW j \in 1 .. (N + 1), i < j, G[i].kind = G[j].kind
      PROVE  G[i].node.id < G[j].node.id
  <2>1. i \in 1 .. N
    BY <1>2
  <2>2. CASE j \in 1 .. N
    BY <1>2, <2>1, <2>2 DEF InOrder
  <2>3. CASE j = N + 1
    BY <1>2, <2>1, <2>3 DEF InOrder
  <2> QED BY <1>1, <2>2, <2>3
<1>3. ASSUME NEW i \in 1 .. (N + 1), G[i].kind = "ring"
      PROVE  k <= G[i].node.id /\ G[i].node.id < n + 1
  <2>1. CASE i \in 1 .. N
    BY <1>3, <2>1 DEF InOrder
  <2>2. CASE i = N + 1
    BY <1>3, <2>2
  <2> QED BY <1>1, <2>1, <2>2
<1>4. ASSUME NEW id \in k .. n
      PROVE  \E i \in 1 .. (N + 1) : G[i].kind = "ring" /\ G[i].node.id = id
  <2>1. CASE id = n
    BY <2>1
  <2>2. CASE id \in k .. (n - 1)
    <3>1. PICK i \in 1 .. N : F[i].kind = "ring" /\ F[i].node.id = id
      BY <2>2 DEF InOrder
    <3>2. i \in 1 .. (N + 1) /\ G[i] = F[i]
      OBVIOUS
    <3> QED BY <3>1, <3>2
  <2> QED BY <2>1, <2>2
<1>5. ASSUME NEW i \in 1 .. (N + 1), G[i].kind = "volume" PROVE G[i].node.id < v
  BY <1>1, <1>5 DEF InOrder
<1>6. n + 1 - 1 = n
  OBVIOUS
<1> QED
  BY <1>2, <1>3, <1>4, <1>5, <1>6 DEF InOrder

(* So does a new volume. *)
LEMMA InOrderVolume ==
  ASSUME NEW N \in Nat, NEW F, NEW G, NEW k \in Nat, NEW n \in Nat, NEW v \in Nat,
         \A i \in 1 .. N : F[i].node.id \in Nat /\ F[i].kind \in {"ring", "volume"} /\ G[i] = F[i],
         G[N + 1].kind = "volume", G[N + 1].node.id = v, InOrder(F, N, k, n, v)
  PROVE  InOrder(G, N + 1, k, n, v + 1)
<1>1. \A i \in 1 .. (N + 1) : i \in 1 .. N \/ i = N + 1
  OBVIOUS
<1>2. ASSUME NEW i \in 1 .. (N + 1), NEW j \in 1 .. (N + 1), i < j, G[i].kind = G[j].kind
      PROVE  G[i].node.id < G[j].node.id
  <2>1. i \in 1 .. N
    BY <1>2
  <2>2. CASE j \in 1 .. N
    BY <1>2, <2>1, <2>2 DEF InOrder
  <2>3. CASE j = N + 1
    BY <1>2, <2>1, <2>3 DEF InOrder
  <2> QED BY <1>1, <2>2, <2>3
<1>3. ASSUME NEW i \in 1 .. (N + 1), G[i].kind = "ring"
      PROVE  k <= G[i].node.id /\ G[i].node.id < n
  BY <1>1, <1>3 DEF InOrder
<1>4. ASSUME NEW id \in k .. (n - 1)
      PROVE  \E i \in 1 .. (N + 1) : G[i].kind = "ring" /\ G[i].node.id = id
  <2>1. PICK i \in 1 .. N : F[i].kind = "ring" /\ F[i].node.id = id
    BY DEF InOrder
  <2>2. i \in 1 .. (N + 1) /\ G[i] = F[i]
    OBVIOUS
  <2> QED BY <2>1, <2>2
<1>5. ASSUME NEW i \in 1 .. (N + 1), G[i].kind = "volume" PROVE G[i].node.id < v + 1
  <2>1. CASE i \in 1 .. N
    BY <1>5, <2>1 DEF InOrder
  <2>2. CASE i = N + 1
    BY <1>5, <2>2
  <2> QED BY <1>1, <2>1, <2>2
<1> QED
  BY <1>2, <1>3, <1>4, <1>5 DEF InOrder

(* The oldest ring in flight is the next of rings_. *)
LEMMA InOrderTailRing ==
  ASSUME NEW N \in Nat \ {0}, NEW F, NEW G, NEW k \in Nat, NEW n \in Nat, NEW v \in Nat,
         \A i \in 1 .. N : F[i].node.id \in Nat,
         \A i \in 1 .. (N - 1) : G[i] = F[i + 1],
         F[1].kind = "ring", InOrder(F, N, k, n, v)
  PROVE  F[1].node.id = k /\ k + 1 <= n /\ InOrder(G, N - 1, k + 1, n, v)
<1>1. 1 \in 1 .. N /\ \A i \in 1 .. (N - 1) : i + 1 \in 1 .. N /\ 1 < i + 1
  OBVIOUS
<1>2. k <= F[1].node.id /\ F[1].node.id < n /\ F[1].node.id \in Nat
  BY <1>1 DEF InOrder
<1>3. F[1].node.id = k
  <2>1. PICK j \in 1 .. N : F[j].kind = "ring" /\ F[j].node.id = k
    BY <1>2 DEF InOrder
  <2>2. CASE j = 1
    BY <2>1, <2>2
  <2>3. CASE 1 < j
    <3>1. F[1].node.id < F[j].node.id
      BY <1>1, <2>1, <2>3 DEF InOrder
    <3> QED BY <1>2, <2>1, <3>1
  <2> QED BY <2>2, <2>3
<1>4. ASSUME NEW i \in 1 .. (N - 1), NEW j \in 1 .. (N - 1), i < j, G[i].kind = G[j].kind
      PROVE  G[i].node.id < G[j].node.id
  <2>1. i + 1 \in 1 .. N /\ j + 1 \in 1 .. N /\ i + 1 < j + 1 /\ G[i] = F[i + 1] /\ G[j] = F[j + 1]
    BY <1>4
  <2> QED BY <1>4, <2>1 DEF InOrder
<1>5. ASSUME NEW i \in 1 .. (N - 1), G[i].kind = "ring"
      PROVE  k + 1 <= G[i].node.id /\ G[i].node.id < n
  <2>1. F[i + 1].kind = "ring" /\ G[i].node.id = F[i + 1].node.id
    BY <1>5
  <2>2. F[1].node.id < F[i + 1].node.id /\ F[i + 1].node.id < n
    BY <1>1, <2>1 DEF InOrder
  <2> QED BY <1>1, <1>3, <2>1, <2>2
<1>6. ASSUME NEW id \in (k + 1) .. (n - 1)
      PROVE  \E i \in 1 .. (N - 1) : G[i].kind = "ring" /\ G[i].node.id = id
  <2>1. PICK j \in 1 .. N : F[j].kind = "ring" /\ F[j].node.id = id
    BY DEF InOrder
  <2>2. j # 1
    BY <1>3, <2>1
  <2>3. j - 1 \in 1 .. (N - 1) /\ G[j - 1] = F[j]
    BY <2>2
  <2> QED BY <2>1, <2>3
<1>7. ASSUME NEW i \in 1 .. (N - 1), G[i].kind = "volume" PROVE G[i].node.id < v
  BY <1>1, <1>7 DEF InOrder
<1> QED
  BY <1>2, <1>3, <1>4, <1>5, <1>6, <1>7 DEF InOrder

(* When the oldest is a volume, the rings stay. *)
LEMMA InOrderTailVolume ==
  ASSUME NEW N \in Nat \ {0}, NEW F, NEW G, NEW k \in Nat, NEW n \in Nat, NEW v \in Nat,
         \A i \in 1 .. (N - 1) : G[i] = F[i + 1],
         F[1].kind = "volume", InOrder(F, N, k, n, v)
  PROVE  InOrder(G, N - 1, k, n, v)
<1>1. \A i \in 1 .. (N - 1) : i + 1 \in 1 .. N
  OBVIOUS
<1>2. ASSUME NEW i \in 1 .. (N - 1), NEW j \in 1 .. (N - 1), i < j, G[i].kind = G[j].kind
      PROVE  G[i].node.id < G[j].node.id
  <2>1. i + 1 \in 1 .. N /\ j + 1 \in 1 .. N /\ i + 1 < j + 1 /\ G[i] = F[i + 1] /\ G[j] = F[j + 1]
    BY <1>2
  <2> QED BY <1>2, <2>1 DEF InOrder
<1>3. ASSUME NEW i \in 1 .. (N - 1), G[i].kind = "ring"
      PROVE  k <= G[i].node.id /\ G[i].node.id < n
  BY <1>1, <1>3 DEF InOrder
<1>4. ASSUME NEW id \in k .. (n - 1)
      PROVE  \E i \in 1 .. (N - 1) : G[i].kind = "ring" /\ G[i].node.id = id
  <2>1. PICK j \in 1 .. N : F[j].kind = "ring" /\ F[j].node.id = id
    BY DEF InOrder
  <2>2. j # 1
    BY <2>1
  <2>3. j - 1 \in 1 .. (N - 1) /\ G[j - 1] = F[j]
    BY <2>2
  <2> QED BY <2>1, <2>3
<1>5. ASSUME NEW i \in 1 .. (N - 1), G[i].kind = "volume" PROVE G[i].node.id < v
  BY <1>1, <1>5 DEF InOrder
<1> QED
  BY <1>2, <1>3, <1>4, <1>5 DEF InOrder

(* What is in flight. *)
LEMMA FlightEntries ==
  ASSUME TypeOK
  PROVE  /\ Len(conts) \in Nat /\ Len(reqs) \in Nat /\ Len(conts) + Len(reqs) \in Nat
         /\ \A i \in 1 .. Len(conts) : Flight[i] = Item(conts[i])
         /\ \A i \in 1 .. Len(reqs) : Flight[Len(conts) + i] = Item(reqs[i])
         /\ \A i \in 1 .. (Len(conts) + Len(reqs)) :
              \/ i \in 1 .. Len(conts)
              \/ i - Len(conts) \in 1 .. Len(reqs) /\ i = Len(conts) + (i - Len(conts))
<1>1. Len(conts) \in Nat /\ Len(reqs) \in Nat
  BY LenProperties DEF TypeOK
<1> QED
  BY <1>1 DEF Flight

(* An entry has the kind and the id of its create. *)
LEMMA FlightType ==
  ASSUME TypeOK, NEW i \in 1 .. (Len(conts) + Len(reqs))
  PROVE  Flight[i].kind \in {"ring", "volume"} /\ Flight[i].node.id \in Nat
<1>1. CASE i \in 1 .. Len(conts)
  <2>1. Flight[i] = Item(conts[i])
    BY <1>1, FlightEntries
  <2> QED BY <1>1, <2>1, ResultKinds DEF Item, Rings, Volumes
<1>2. CASE i - Len(conts) \in 1 .. Len(reqs) /\ i = Len(conts) + (i - Len(conts))
  <2>1. Flight[i] = Item(reqs[i - Len(conts)])
    BY <1>2, FlightEntries
  <2> QED BY <1>2, <2>1, RequestKinds DEF Item, Rings, Volumes
<1> QED
  BY <1>1, <1>2, FlightEntries

(* An answered create stays in its place: it moves from the requests to the results. *)
LEMMA FlightStays ==
  ASSUME TypeOK, TypeOK', ServeCreate \/ (\E n, T : LoseConnection(n, T))
  PROVE  /\ Len(conts') + Len(reqs') = Len(conts) + Len(reqs)
         /\ \A i \in 1 .. (Len(conts) + Len(reqs)) : Flight'[i] = Flight[i]
<1>1. /\ Len(conts) \in Nat /\ Len(reqs) \in Nat /\ Len(conts') \in Nat /\ Len(reqs') \in Nat
      /\ \A i \in 1 .. Len(conts') : Flight'[i] = Item(conts'[i])
      /\ \A i \in 1 .. Len(reqs') : Flight'[Len(conts') + i] = Item(reqs'[i])
  <2>1. Len(conts') \in Nat /\ Len(reqs') \in Nat
    BY LenProperties DEF TypeOK
  <2> QED BY <2>1, FlightEntries DEF Flight, Item
<1>2. CASE ServeCreate
  <2> DEFINE a == Answer(Head(reqs), Code(Head(reqs)))
  <2>1. reqs # <<>> /\ reqs' = Tail(reqs) /\ conts' = Append(conts, a)
    BY <1>2 DEF ServeCreate
  <2>2. /\ Head(reqs) = reqs[1] /\ 1 \in 1 .. Len(reqs) /\ Len(reqs') = Len(reqs) - 1
        /\ \A i \in 1 .. Len(reqs') : reqs'[i] = reqs[i + 1] /\ i + 1 \in 1 .. Len(reqs)
    BY <2>1, HeadReq
  <2>3. Item(a) = Item(reqs[1])
    BY <2>2 DEF Answer, Item
  <2> HIDE DEF a
  <2>4. /\ Len(conts') = Len(conts) + 1 /\ conts'[Len(conts) + 1] = a
        /\ \A i \in 1 .. Len(conts) : conts'[i] = conts[i] /\ i \in 1 .. Len(conts')
    <3>1. conts \in Seq(Results)
      BY DEF TypeOK
    <3> QED BY <1>1, <2>1, <3>1
  <2>5. ASSUME NEW i \in 1 .. (Len(conts) + Len(reqs)) PROVE Flight'[i] = Flight[i]
    <3>1. CASE i \in 1 .. Len(conts)
      BY <1>1, <2>4, <3>1, FlightEntries
    <3>2. CASE i = Len(conts) + 1
      <4>1. Flight[i] = Item(reqs[1])
        BY <2>2, <3>2, FlightEntries
      <4>2. Flight'[i] = Item(a)
        BY <1>1, <2>4, <3>2
      <4> QED BY <2>3, <4>1, <4>2
    <3>3. CASE i > Len(conts) + 1
      <4> DEFINE j == i - (Len(conts) + 1)
      <4>1. j \in 1 .. Len(reqs') /\ i = Len(conts') + j /\ i = Len(conts) + (j + 1)
        BY <1>1, <2>2, <2>4, <3>3
      <4> HIDE DEF j
      <4>2. Flight'[i] = Item(reqs'[j]) /\ Flight[i] = Item(reqs[j + 1])
        BY <1>1, <2>2, <4>1, FlightEntries
      <4> QED BY <2>2, <4>1, <4>2
    <3> QED BY <1>1, <3>1, <3>2, <3>3
  <2> QED BY <1>1, <2>2, <2>4, <2>5
<1>3. ASSUME NEW n, NEW T, LoseConnection(n, T)
      PROVE  /\ Len(conts') + Len(reqs') = Len(conts) + Len(reqs)
             /\ \A i \in 1 .. (Len(conts) + Len(reqs)) : Flight'[i] = Flight[i]
  <2>1. Len(reqs') = 0 /\ Len(conts') = Len(conts) + Len(reqs)
    BY <1>3, LostAnswers DEF LoseConnection
  <2>2. ASSUME NEW i \in 1 .. (Len(conts) + Len(reqs)) PROVE Flight'[i] = Flight[i]
    <3>1. i \in 1 .. Len(conts') /\ Flight'[i] = Item(conts'[i])
      BY <1>1, <2>1
    <3>2. CASE i \in 1 .. Len(conts)
      BY <1>3, <3>1, <3>2, LostAnswers, FlightEntries
    <3>3. CASE i \notin 1 .. Len(conts)
      <4> DEFINE j == i - Len(conts)
      <4>1. j \in 1 .. Len(reqs) /\ conts'[i] = Answer(reqs[j], "lost") /\ i = Len(conts) + j
        BY <1>1, <1>3, <3>1, <3>3, LostAnswers
      <4> HIDE DEF j
      <4>2. Item(Answer(reqs[j], "lost")) = Item(reqs[j])
        BY DEF Answer, Item
      <4> QED BY <3>1, <4>1, <4>2, FlightEntries
    <3> QED BY <3>2, <3>3
  <2> QED BY <1>1, <2>1, <2>2
<1> QED
  BY <1>2, <1>3

(* A request the event base issues is the youngest in flight. *)
LEMMA FlightGrows ==
  ASSUME TypeOK, NEW q, reqs' = Append(reqs, q), conts' = conts
  PROVE  /\ Len(conts') + Len(reqs') = Len(conts) + Len(reqs) + 1
         /\ \A i \in 1 .. (Len(conts) + Len(reqs)) : Flight'[i] = Flight[i]
         /\ Flight'[Len(conts) + Len(reqs) + 1] = Item(q)
<1>1. Len(conts) \in Nat /\ Len(reqs) \in Nat
  BY FlightEntries
<1>2. /\ Len(reqs') = Len(reqs) + 1 /\ reqs'[Len(reqs) + 1] = q
      /\ \A i \in 1 .. Len(reqs) : reqs'[i] = reqs[i]
  BY DEF TypeOK
<1> QED
  BY <1>1, <1>2 DEF Flight, Item

(* A continuation takes the oldest. *)
LEMMA FlightShrinks ==
  ASSUME TypeOK, NEW kind, NEW rcs, Continue(kind, rcs), reqs' = reqs
  PROVE  /\ Len(conts) + Len(reqs) \in Nat \ {0}
         /\ Len(conts') + Len(reqs') = Len(conts) + Len(reqs) - 1
         /\ \A i \in 1 .. (Len(conts) + Len(reqs) - 1) : Flight'[i] = Flight[i + 1]
         /\ Flight[1] = Item(conts[1])
<1>1. Len(conts) \in Nat /\ Len(reqs) \in Nat /\ 1 \in 1 .. Len(conts) /\ Flight[1] = Item(conts[1])
  BY FlightEntries, HeadCont
<1>2. Len(conts') = Len(conts) - 1 /\ \A i \in 1 .. Len(conts') : conts'[i] = conts[i + 1]
  <2>1. conts \in Seq(Results) /\ conts # <<>> /\ conts' = Tail(conts)
    BY DEF TypeOK, Continue
  <2> QED BY <2>1, HeadTailProperties
<1>3. ASSUME NEW i \in 1 .. (Len(conts) + Len(reqs) - 1) PROVE Flight'[i] = Flight[i + 1]
  <2>1. CASE i \in 1 .. Len(conts')
    <3>1. Flight'[i] = Item(conts'[i])
      BY <1>1, <1>2, <2>1 DEF Flight, Item
    <3>2. i + 1 \in 1 .. Len(conts)
      BY <1>1, <1>2, <2>1
    <3> QED BY <1>2, <2>1, <3>1, <3>2, FlightEntries
  <2>2. CASE i \notin 1 .. Len(conts')
    <3>1. i - Len(conts') \in 1 .. Len(reqs) /\ i + 1 = Len(conts) + (i - Len(conts'))
      BY <1>1, <1>2, <2>2
    <3>2. Flight'[i] = Item(reqs[i - Len(conts')])
      BY <1>1, <1>2, <2>2 DEF Flight, Item
    <3> QED BY <3>1, <3>2, FlightEntries
  <2> QED BY <2>1, <2>2
<1> QED
  BY <1>1, <1>2, <1>3

(* With nothing in flight and no ring everything is in order. *)
LEMMA NothingInFlight ==
  ASSUME rings' = {}, nextAddRingId' = 0, reqs' = <<>>, conts' = <<>>
  PROVE  RingsInOrder'
<1>1. Len(conts') = 0 /\ Len(reqs') = 0
  OBVIOUS
<1>2. IsFiniteSet(rings') /\ Cardinality(rings') = 0
  BY FS_EmptySet
<1> QED
  BY <1>1, <1>2 DEF RingsInOrder, InOrder, HasId

(* The end of the process empties the tables and what is on its way. *)
LEMMA EndProcessFrame ==
  ASSUME RingFailed \/ Crash
  PROVE  /\ sphere' = FALSE /\ serviceCache' = {} /\ pendingServices' = <<>> /\ rings' = {}
         /\ nextAddRingId' = 0 /\ resources' = {} /\ nextResourceId' = 0
         /\ reqs' = <<>> /\ conts' = <<>>
         /\ (\A t \in Workers : call'[t] = Idle)
         /\ UNCHANGED <<topic, ringTable, resourceTable>>
         /\ \E n \in 0 .. Len(reqs), T \in SUBSET Creating : CreateFor(T) /\ CreateNodes(n)
BY DEF RingFailed, Crash, EndProcess, NewManager, servers

(* A new manager replaces an empty one: the sphere was not in memory. *)
LEMMA SphereAddedFrame ==
  ASSUME SphereOnce, NEW t \in Workers, DataSphereAdded(t)
  PROVE  /\ UNCHANGED <<serviceCache, pendingServices, rings, nextAddRingId, resources,
                        nextResourceId, treeServices, treeRings, treeVolumes, topic, reqs,
                        conts, ringTable, resourceTable>>
         /\ ~sphere /\ reqs = <<>> /\ conts = <<>> /\ treeRings = {} /\ treeVolumes = {}
<1>1. SphereMade(t)
  BY DEF DataSphereAdded, SphereMade
<1>2. ~sphere /\ treeRings = {} /\ treeVolumes = {}
  BY <1>1 DEF SphereOnce
<1>3. /\ serviceCache = {} /\ pendingServices = <<>> /\ rings = {} /\ nextAddRingId = 0
      /\ resources = {} /\ nextResourceId = 0 /\ reqs = <<>> /\ conts = <<>>
  BY <1>2 DEF SphereOnce
<1> QED
  BY <1>2, <1>3 DEF DataSphereAdded, NewManager, tree, servers

(* What a ring adds: a service waits, or the ring is requested. *)
LEMMA RingRequested ==
  ASSUME NEW t \in Workers, addServiceInEb(t)
  PROVE  LET pending == Append(pendingServices, call[t].arg)
             ring == [id |-> nextAddRingId, memberIds |-> pending]
         IN  /\ \/ /\ Len(pending) < ReplicaFactor /\ pendingServices' = pending
                   /\ UNCHANGED <<nextAddRingId, reqs>>
                \/ /\ Len(pending) >= ReplicaFactor /\ pendingServices' = <<>>
                   /\ nextAddRingId' = nextAddRingId + 1
                   /\ reqs' = Append(reqs, [kind |-> "ring", node |-> ring, by |-> t])
             /\ call[t].op = "addService" /\ call[t].at = "eb"
             /\ UNCHANGED <<treeSphere, treeServices, treeRings, treeVolumes, topic, sphere,
                            serviceCache, rings, resources, nextResourceId, conts, ringTable,
                            resourceTable>>
BY DEF addServiceInEb, tree, servers

(* What a volume adds: nothing, or the volume is requested. *)
LEMMA VolumeRequested ==
  ASSUME NEW t \in Workers, addResource(t)
  PROVE  LET volume == [id |-> nextResourceId, name |-> call[t].arg,
                        ringId |-> nextResourceId % Cardinality(rings)]
         IN  /\ \/ UNCHANGED <<nextResourceId, reqs>>
                \/ /\ rings # {} /\ nextResourceId' = nextResourceId + 1
                   /\ reqs' = Append(reqs, [kind |-> "volume", node |-> volume, by |-> t])
             /\ call[t].op = "addVolume"
             /\ UNCHANGED <<treeSphere, treeServices, treeRings, treeVolumes, topic, sphere,
                            serviceCache, pendingServices, rings, nextAddRingId, resources,
                            conts, ringTable, resourceTable>>
BY DEF addResource, tree, servers

(* Every step keeps rings_ and the creates in flight in order. *)
LEMMA NextRings ==
  ASSUME TypeOK, TypeOK', SphereOnce, RingsInOrder, [Next]_vars
  PROVE  RingsInOrder'
<1> DEFINE N == Len(conts) + Len(reqs)
           k == Cardinality(rings)
<1>1. /\ IsFiniteSet(rings) /\ k \in Nat /\ k <= nextAddRingId /\ N \in Nat
      /\ nextAddRingId \in Nat /\ nextResourceId \in Nat
      /\ InOrder(Flight, N, k, nextAddRingId, nextResourceId)
      /\ (\A i \in 1 .. N : Flight[i].kind \in {"ring", "volume"} /\ Flight[i].node.id \in Nat)
      /\ (\A r \in rings : r.id < k) /\ (\A id \in 0 .. (k - 1) : HasId(rings, id))
  BY FlightEntries, FlightType, FS_CardinalityType DEF RingsInOrder, TypeOK
<1>2. ASSUME UNCHANGED <<rings, nextAddRingId, nextResourceId, reqs, conts>> PROVE RingsInOrder'
  <2>1. Flight' = Flight
    BY <1>2 DEF Flight, Item
  <2> QED BY <1>2, <2>1 DEF RingsInOrder
<1>3. ASSUME ServeCreate \/ (\E n, T : LoseConnection(n, T)) PROVE RingsInOrder'
  <2>1. UNCHANGED <<rings, nextAddRingId, nextResourceId>>
    BY <1>3 DEF ServeCreate, LoseConnection, tables
  <2>2. Len(conts') + Len(reqs') = N /\ \A i \in 1 .. N : Flight'[i] = Flight[i]
    BY <1>3, FlightStays
  <2>3. InOrder(Flight', N, k, nextAddRingId, nextResourceId)
    BY <1>1, <2>2, InOrderSame
  <2> QED BY <1>1, <2>1, <2>2, <2>3 DEF RingsInOrder
<1>4. ASSUME NEW t \in Workers, addServiceInEb(t) PROVE RingsInOrder'
  <2> DEFINE ring == [id |-> nextAddRingId, memberIds |-> Append(pendingServices, call[t].arg)]
             q == [kind |-> "ring", node |-> ring, by |-> t]
  <2>1. CASE reqs' = reqs /\ nextAddRingId' = nextAddRingId
    BY <1>2, <1>4, <2>1, RingRequested
  <2>2. CASE reqs' = Append(reqs, q) /\ nextAddRingId' = nextAddRingId + 1
    <3>1. Item(q).kind = "ring" /\ Item(q).node.id = nextAddRingId
      BY DEF Item
    <3>2. UNCHANGED <<rings, nextResourceId, conts>>
      BY <1>4, RingRequested
    <3> HIDE DEF q
    <3>3. /\ Len(conts') + Len(reqs') = N + 1 /\ \A i \in 1 .. N : Flight'[i] = Flight[i]
          /\ Flight'[N + 1] = Item(q)
      BY <2>2, <3>2, FlightGrows
    <3>4. InOrder(Flight', N + 1, k, nextAddRingId + 1, nextResourceId)
      BY <1>1, <3>1, <3>3, InOrderRing
    <3> QED BY <1>1, <2>2, <3>2, <3>3, <3>4 DEF RingsInOrder
  <2> QED BY <1>4, <2>1, <2>2, RingRequested
<1>5. ASSUME NEW t \in Workers, addResource(t) PROVE RingsInOrder'
  <2> DEFINE volume == [id |-> nextResourceId, name |-> call[t].arg,
                        ringId |-> nextResourceId % Cardinality(rings)]
             q == [kind |-> "volume", node |-> volume, by |-> t]
  <2>1. CASE reqs' = reqs /\ nextResourceId' = nextResourceId
    BY <1>2, <1>5, <2>1, VolumeRequested
  <2>2. CASE reqs' = Append(reqs, q) /\ nextResourceId' = nextResourceId + 1
    <3>1. Item(q).kind = "volume" /\ Item(q).node.id = nextResourceId
      BY DEF Item
    <3>2. UNCHANGED <<rings, nextAddRingId, conts>>
      BY <1>5, VolumeRequested
    <3> HIDE DEF q
    <3>3. /\ Len(conts') + Len(reqs') = N + 1 /\ \A i \in 1 .. N : Flight'[i] = Flight[i]
          /\ Flight'[N + 1] = Item(q)
      BY <2>2, <3>2, FlightGrows
    <3>4. InOrder(Flight', N + 1, k, nextAddRingId, nextResourceId + 1)
      BY <1>1, <3>1, <3>3, InOrderVolume
    <3> QED BY <1>1, <2>2, <3>2, <3>3, <3>4 DEF RingsInOrder
  <2> QED BY <1>5, <2>1, <2>2, VolumeRequested
<1>6. ASSUME RingAdded PROVE RingsInOrder'
  <2>1. /\ Continue("ring", {"ok"}) /\ rings' = Put(rings, Head(conts).node)
        /\ UNCHANGED <<nextAddRingId, nextResourceId, reqs>>
    BY <1>6 DEF RingAdded
  <2> DEFINE x == conts[1].node
  <2>2. Head(conts).node = x /\ conts[1].kind = "ring" /\ x \in Rings
    BY <2>1, HeadCont
  <2>3. /\ N \in Nat \ {0} /\ Len(conts') + Len(reqs') = N - 1
        /\ \A i \in 1 .. (N - 1) : Flight'[i] = Flight[i + 1]
        /\ Flight[1].kind = "ring" /\ Flight[1].node = x
    BY <2>1, <2>2, FlightShrinks DEF Item
  <2>4. Flight[1].node.id = k /\ k + 1 <= nextAddRingId
        /\ InOrder(Flight', N - 1, k + 1, nextAddRingId, nextResourceId)
    BY <1>1, <2>3, InOrderTailRing
  <2> HIDE DEF x
  <2>5. x.id = k /\ x \notin rings
    BY <1>1, <2>3, <2>4
  <2>6. rings' = rings \cup {x}
    BY <1>1, <2>1, <2>2, <2>5 DEF Put, TypeOK, Rings
  <2>7. IsFiniteSet(rings') /\ Cardinality(rings') = k + 1
    BY <1>1, <2>5, <2>6, FS_AddElement
  <2>8. \A r \in rings' : r.id < k + 1
    <3>1. \A r \in rings : r.id \in Nat
      BY DEF TypeOK, Rings
    <3> QED BY <1>1, <2>5, <2>6, <3>1
  <2>9. \A id \in 0 .. k : HasId(rings', id)
    BY <1>1, <2>5, <2>6 DEF HasId
  <2>10. InOrder(Flight', Len(conts') + Len(reqs'), Cardinality(rings'), nextAddRingId', nextResourceId')
    BY <2>1, <2>3, <2>4, <2>7
  <2>11. /\ Cardinality(rings') <= nextAddRingId' /\ \A r \in rings' : r.id < Cardinality(rings')
         /\ \A id \in 0 .. (Cardinality(rings') - 1) : HasId(rings', id)
    <3>1. nextAddRingId' = nextAddRingId /\ Cardinality(rings') - 1 = k
      <4>1. k \in Nat /\ Cardinality(rings') = k + 1
        BY <1>1, <2>7
      <4> HIDE DEF k
      <4> QED BY <2>1, <4>1
    <3>2. \A id \in 0 .. (Cardinality(rings') - 1) : HasId(rings', id)
      BY <2>9, <3>1
    <3>3. \A r \in rings' : r.id < Cardinality(rings')
      BY <2>7, <2>8
    <3> QED BY <2>4, <2>7, <3>1, <3>2, <3>3
  <2> QED BY <2>7, <2>10, <2>11 DEF RingsInOrder
<1>7. ASSUME ResourceAdded \/ ResourceFailed PROVE RingsInOrder'
  <2>1. PICK rcs : Continue("volume", rcs)
    BY <1>7 DEF ResourceAdded, ResourceFailed
  <2>2. UNCHANGED <<rings, nextAddRingId, nextResourceId, reqs>>
    BY <1>7 DEF ResourceAdded, ResourceFailed, tables
  <2>3. conts[1].kind = "volume"
    BY <2>1, HeadCont
  <2>4. /\ N \in Nat \ {0} /\ Len(conts') + Len(reqs') = N - 1
        /\ \A i \in 1 .. (N - 1) : Flight'[i] = Flight[i + 1]
        /\ Flight[1].kind = "volume"
    BY <2>1, <2>2, <2>3, FlightShrinks DEF Item
  <2>5. InOrder(Flight', N - 1, k, nextAddRingId, nextResourceId)
    BY <1>1, <2>4, InOrderTailVolume
  <2> QED BY <1>1, <2>2, <2>4, <2>5 DEF RingsInOrder
<1>8. ASSUME RingFailed \/ Crash PROVE RingsInOrder'
  BY <1>8, EndProcessFrame, NothingInFlight
<1>9. ASSUME NEW t \in Workers, WorkerStep(t) PROVE RingsInOrder'
  <2>1. CASE ServeWorker(t) \/ CreateFailed(t) \/ ServiceAdded(t)
    BY <1>2, <2>1 DEF ServeWorker, CreateFailed, ServiceAdded, tables
  <2>2. CASE DataSphereAdded(t)
    BY <1>2, <2>2, SphereAddedFrame
  <2> QED BY <1>4, <1>5, <1>9, <2>1, <2>2 DEF WorkerStep
<1>10. ASSUME \/ CreateRingsRoot \/ (\E s \in Started : ServerStep(s)) \/ UNCHANGED vars
              \/ \E t \in Workers : \E c : Begin(t, c)
       PROVE  RingsInOrder'
  BY <1>2, <1>10, ServerFrame DEF CreateRingsRoot, Begin, vars, tables
<1> QED
  BY <1>3, <1>6, <1>7, <1>8, <1>9, <1>10 DEF Next, EbStep, addDataSphere, addService, addVolume

-----------------------------------------------------------------------------
(* Creates find their node free, and the tree comes before the tables. *)

(* The requests are in the order of their ids, below the next ids. *)
LEMMA ReqsInOrder ==
  ASSUME TypeOK, RingsInOrder, NEW i \in 1 .. Len(reqs)
  PROVE  /\ reqs[i].kind = "ring" => reqs[i].node.id < nextAddRingId
         /\ reqs[i].kind = "volume" => reqs[i].node.id < nextResourceId
         /\ \A j \in 1 .. Len(reqs) :
              i < j /\ reqs[i].kind = reqs[j].kind => reqs[i].node.id < reqs[j].node.id
<1> DEFINE N == Len(conts) + Len(reqs)
<1>1. /\ Len(conts) \in Nat /\ Len(reqs) \in Nat
      /\ InOrder(Flight, N, Cardinality(rings), nextAddRingId, nextResourceId)
  BY FlightEntries DEF RingsInOrder
<1>2. \A j \in 1 .. Len(reqs) : /\ Len(conts) + j \in 1 .. N
                                /\ Flight[Len(conts) + j].kind = reqs[j].kind
                                /\ Flight[Len(conts) + j].node = reqs[j].node
  <2> SUFFICES ASSUME NEW j \in 1 .. Len(reqs)
               PROVE  /\ Len(conts) + j \in 1 .. N
                      /\ Flight[Len(conts) + j].kind = reqs[j].kind
                      /\ Flight[Len(conts) + j].node = reqs[j].node
    OBVIOUS
  <2>1. Len(conts) + j \in 1 .. N
    BY <1>1
  <2>2. Flight[Len(conts) + j] = Item(reqs[j])
    BY FlightEntries
  <2> QED BY <2>1, <2>2 DEF Item
<1>3. /\ reqs[i].kind = "ring" => reqs[i].node.id < nextAddRingId
      /\ reqs[i].kind = "volume" => reqs[i].node.id < nextResourceId
  <2> DEFINE j == Len(conts) + i
  <2>1. j \in 1 .. N /\ Flight[j].kind = reqs[i].kind /\ Flight[j].node = reqs[i].node
    BY <1>2
  <2> HIDE DEF j, N
  <2>2. /\ Flight[j].kind = "ring" => Flight[j].node.id < nextAddRingId
        /\ Flight[j].kind = "volume" => Flight[j].node.id < nextResourceId
    BY <1>1, <2>1 DEF InOrder
  <2> QED BY <2>1, <2>2
<1>4. ASSUME NEW j \in 1 .. Len(reqs), i < j, reqs[i].kind = reqs[j].kind
      PROVE  reqs[i].node.id < reqs[j].node.id
  <2>1. Len(conts) + i < Len(conts) + j
    BY <1>1, <1>4
  <2> QED BY <1>1, <1>2, <1>4, <2>1 DEF InOrder
<1> QED
  BY <1>3, <1>4

(* What the requests create is below the next ids. *)
LEMMA CreatedBelow ==
  ASSUME TypeOK, RingsInOrder, NEW n \in 0 .. Len(reqs), CreateNodes(n)
  PROVE  /\ \A r \in treeRings' \ treeRings : r.id < nextAddRingId
         /\ \A v \in treeVolumes' \ treeVolumes : v.id < nextResourceId
<1>1. \A i \in 1 .. n : i \in 1 .. Len(reqs)
  BY FlightEntries
<1>2. ASSUME NEW r \in treeRings' \ treeRings PROVE r.id < nextAddRingId
  <2>1. PICK i \in 1 .. n : reqs[i].kind = "ring" /\ r = reqs[i].node
    BY CreateNodesAdds
  <2> QED BY <1>1, <2>1, ReqsInOrder
<1>3. ASSUME NEW v \in treeVolumes' \ treeVolumes PROVE v.id < nextResourceId
  <2>1. PICK i \in 1 .. n : reqs[i].kind = "volume" /\ v = reqs[i].node
    BY CreateNodesAdds
  <2> QED BY <1>1, <2>1, ReqsInOrder
<1> QED
  BY <1>2, <1>3

(* The oldest request finds its id free and makes its node. *)
LEMMA FirstCreated ==
  ASSUME TypeOK, NewIds, reqs # <<>>, CreateNodes(1)
  PROVE  /\ Code(reqs[1]) = "ok"
         /\ reqs[1].kind = "ring" => treeRings' = treeRings \cup {reqs[1].node}
         /\ reqs[1].kind = "ring" => treeVolumes' = treeVolumes
         /\ reqs[1].kind = "volume" => treeVolumes' = treeVolumes \cup {reqs[1].node}
         /\ reqs[1].kind = "volume" => treeRings' = treeRings
<1>1. 1 \in 1 .. Len(reqs) /\ reqs[1].kind \in {"ring", "volume"}
  BY HeadReq, RequestKinds
<1>2. /\ reqs[1].kind = "ring" => ~HasId(treeRings, reqs[1].node.id)
      /\ reqs[1].kind = "volume" => ~HasId(treeVolumes, reqs[1].node.id)
  BY <1>1 DEF NewIds
<1>3. Code(reqs[1]) = "ok"
  BY <1>1, <1>2 DEF Code
<1> DEFINE done == {reqs[i] : i \in 1 .. 1}
           newRings == {q \in done : q.kind = "ring" /\ ~HasId(treeRings, q.node.id)}
           newVolumes == {q \in done : q.kind = "volume" /\ ~HasId(treeVolumes, q.node.id)}
<1>4. /\ treeRings' = treeRings \cup {r.node : r \in newRings}
      /\ treeVolumes' = treeVolumes \cup {r.node : r \in newVolumes}
  BY DEF CreateNodes
<1>5. /\ newRings = IF reqs[1].kind = "ring" THEN {reqs[1]} ELSE {}
      /\ newVolumes = IF reqs[1].kind = "volume" THEN {reqs[1]} ELSE {}
  <2>1. done = {reqs[1]}
    OBVIOUS
  <2> HIDE DEF done
  <2> QED BY <1>2, <2>1
<1> HIDE DEF newRings, newVolumes
<1>6. /\ reqs[1].kind = "ring" => newRings = {reqs[1]} /\ newVolumes = {}
      /\ reqs[1].kind = "volume" => newVolumes = {reqs[1]} /\ newRings = {}
  BY <1>5
<1>7. CASE reqs[1].kind = "ring"
  BY <1>3, <1>4, <1>6, <1>7
<1>8. CASE reqs[1].kind = "volume"
  BY <1>3, <1>4, <1>6, <1>8
<1> QED
  BY <1>1, <1>7, <1>8

(* Every step keeps the ids new. *)
LEMMA NextNewIds ==
  ASSUME TypeOK, SphereOnce, RingsInOrder, NewIds, [Next]_vars
  PROVE  NewIds'
<1>1. ASSUME UNCHANGED <<sphere, treeRings, treeVolumes, nextAddRingId, nextResourceId, reqs>>
      PROVE  NewIds'
  BY <1>1 DEF NewIds
<1>2. ASSUME ServeCreate PROVE NewIds'
  <2>1. /\ reqs # <<>> /\ CreateNodes(1) /\ reqs' = Tail(reqs)
        /\ UNCHANGED <<sphere, nextAddRingId, nextResourceId>>
    BY <1>2 DEF ServeCreate, tables
  <2>2. sphere => /\ \A r \in treeRings' : r.id < nextAddRingId
                  /\ \A v \in treeVolumes' : v.id < nextResourceId
    <3>1. 1 \in 0 .. Len(reqs)
      BY <2>1, HeadReq
    <3> QED BY <2>1, <3>1, CreatedBelow DEF NewIds
  <2>3. ASSUME NEW i \in 1 .. Len(reqs')
        PROVE  /\ reqs'[i].kind = "ring" => ~HasId(treeRings', reqs'[i].node.id)
               /\ reqs'[i].kind = "volume" => ~HasId(treeVolumes', reqs'[i].node.id)
    <3>1. /\ reqs'[i] = reqs[i + 1] /\ i + 1 \in 1 .. Len(reqs) /\ 1 < i + 1
          /\ 1 \in 1 .. Len(reqs) /\ reqs[1].kind \in {"ring", "volume"} /\ reqs[1].node.id \in Nat
      <4>1. 1 \in 1 .. Len(reqs) /\ reqs'[i] = reqs[i + 1] /\ i + 1 \in 1 .. Len(reqs)
        BY <2>1, HeadReq
      <4>2. reqs[1].kind \in {"ring", "volume"} /\ reqs[1].node.id \in Nat
        BY <4>1, RequestKinds DEF Rings, Volumes
      <4> QED BY <4>1, <4>2
    <3>2. reqs[1].kind = reqs[i + 1].kind => reqs[1].node.id < reqs[i + 1].node.id
      BY <3>1, ReqsInOrder
    <3>3. reqs[1].kind = reqs[i + 1].kind => reqs[1].node.id # reqs[i + 1].node.id
      BY <3>1, <3>2
    <3>4. /\ reqs[i + 1].kind = "ring" => ~HasId(treeRings, reqs[i + 1].node.id)
          /\ reqs[i + 1].kind = "volume" => ~HasId(treeVolumes, reqs[i + 1].node.id)
      BY <3>1 DEF NewIds
    <3>5. CASE reqs[1].kind = "ring"
      <4>1. treeRings' = treeRings \cup {reqs[1].node} /\ treeVolumes' = treeVolumes
        BY <2>1, <3>5, FirstCreated
      <4> QED BY <3>1, <3>3, <3>4, <3>5, <4>1 DEF HasId
    <3>6. CASE reqs[1].kind = "volume"
      <4>1. treeVolumes' = treeVolumes \cup {reqs[1].node} /\ treeRings' = treeRings
        BY <2>1, <3>6, FirstCreated
      <4> QED BY <3>1, <3>3, <3>4, <3>6, <4>1 DEF HasId
    <3> QED BY <3>1, <3>5, <3>6
  <2> QED BY <2>1, <2>2, <2>3 DEF NewIds
<1>3. ASSUME NEW n \in 0 .. Len(reqs), NEW T \in SUBSET Creating, LoseConnection(n, T)
      PROVE  NewIds'
  <2>1. CreateNodes(n) /\ reqs' = <<>> /\ UNCHANGED <<sphere, nextAddRingId, nextResourceId>>
    BY <1>3 DEF LoseConnection, tables
  <2>2. sphere => /\ \A r \in treeRings' : r.id < nextAddRingId
                  /\ \A v \in treeVolumes' : v.id < nextResourceId
    BY <2>1, CreatedBelow DEF NewIds
  <2> QED BY <2>1, <2>2 DEF NewIds
<1>4. ASSUME NEW q, reqs' = Append(reqs, q), UNCHANGED <<sphere, treeRings, treeVolumes>>, sphere,
             \/ /\ q.kind = "ring" /\ q.node.id = nextAddRingId
                /\ nextAddRingId' = nextAddRingId + 1 /\ nextResourceId' = nextResourceId
             \/ /\ q.kind = "volume" /\ q.node.id = nextResourceId
                /\ nextResourceId' = nextResourceId + 1 /\ nextAddRingId' = nextAddRingId
      PROVE  NewIds'
  <2>1. /\ \A r \in treeRings : r.id \in Nat /\ r.id < nextAddRingId
        /\ \A v \in treeVolumes : v.id \in Nat /\ v.id < nextResourceId
        /\ nextAddRingId \in Nat /\ nextResourceId \in Nat
    BY <1>4 DEF NewIds, TypeOK, Rings, Volumes
  <2>2. /\ q.kind = "ring" => ~HasId(treeRings, q.node.id)
        /\ q.kind = "volume" => ~HasId(treeVolumes, q.node.id)
    BY <1>4, <2>1 DEF HasId
  <2>3. /\ \A r \in treeRings : r.id < nextAddRingId'
        /\ \A v \in treeVolumes : v.id < nextResourceId'
    BY <1>4, <2>1
  <2>4. \A i \in 1 .. Len(reqs') : reqs'[i] = q \/ (i \in 1 .. Len(reqs) /\ reqs'[i] = reqs[i])
    BY <1>4 DEF TypeOK
  <2>5. ASSUME NEW i \in 1 .. Len(reqs')
        PROVE  /\ reqs'[i].kind = "ring" => ~HasId(treeRings, reqs'[i].node.id)
               /\ reqs'[i].kind = "volume" => ~HasId(treeVolumes, reqs'[i].node.id)
    BY <2>2, <2>4 DEF NewIds
  <2> QED BY <1>4, <2>3, <2>5 DEF NewIds
<1>5. ASSUME NEW t \in Workers, addServiceInEb(t) PROVE NewIds'
  <2> DEFINE ring == [id |-> nextAddRingId, memberIds |-> Append(pendingServices, call[t].arg)]
             q == [kind |-> "ring", node |-> ring, by |-> t]
  <2>1. /\ sphere /\ UNCHANGED <<sphere, treeRings, treeVolumes, nextResourceId>>
        /\ q.kind = "ring" /\ q.node.id = nextAddRingId
    BY <1>5, RingRequested, InSphere
  <2>2. \/ UNCHANGED <<nextAddRingId, reqs>>
        \/ nextAddRingId' = nextAddRingId + 1 /\ reqs' = Append(reqs, q)
    BY <1>5, RingRequested
  <2> HIDE DEF q
  <2> QED BY <1>1, <1>4, <2>1, <2>2
<1>6. ASSUME NEW t \in Workers, addResource(t) PROVE NewIds'
  <2> DEFINE volume == [id |-> nextResourceId, name |-> call[t].arg,
                        ringId |-> nextResourceId % Cardinality(rings)]
             q == [kind |-> "volume", node |-> volume, by |-> t]
  <2>1. /\ sphere /\ UNCHANGED <<sphere, treeRings, treeVolumes, nextAddRingId>>
        /\ q.kind = "volume" /\ q.node.id = nextResourceId
    BY <1>6, VolumeRequested, InSphere
  <2>2. \/ UNCHANGED <<nextResourceId, reqs>>
        \/ nextResourceId' = nextResourceId + 1 /\ reqs' = Append(reqs, q)
    BY <1>6, VolumeRequested
  <2> HIDE DEF q
  <2> QED BY <1>1, <1>4, <2>1, <2>2
<1>7. ASSUME RingFailed \/ Crash PROVE NewIds'
  <2>1. sphere' = FALSE /\ reqs' = <<>>
    BY <1>7, EndProcessFrame
  <2>2. \A i \in 1 .. Len(reqs') : FALSE
    BY <2>1
  <2> QED BY <2>1, <2>2 DEF NewIds
<1>8. ASSUME NEW t \in Workers, WorkerStep(t) PROVE NewIds'
  <2>1. CASE ServeWorker(t) \/ CreateFailed(t) \/ ServiceAdded(t)
    BY <1>1, <2>1 DEF ServeWorker, CreateFailed, ServiceAdded, tree, tables
  <2>2. CASE DataSphereAdded(t)
    BY <2>2, SphereAddedFrame DEF NewIds
  <2> QED BY <1>5, <1>6, <1>8, <2>1, <2>2 DEF WorkerStep
<1>9. ASSUME \/ RingAdded \/ ResourceAdded \/ ResourceFailed
             \/ CreateRingsRoot \/ (\E s \in Started : ServerStep(s)) \/ UNCHANGED vars
             \/ \E t \in Workers : \E c : Begin(t, c)
      PROVE  NewIds'
  <2>1. CASE RingAdded \/ ResourceAdded \/ ResourceFailed
    BY <1>1, <2>1 DEF RingAdded, ResourceAdded, ResourceFailed, tree, tables
  <2>2. CASE CreateRingsRoot \/ UNCHANGED vars \/ \E t \in Workers : \E c : Begin(t, c)
    BY <1>1, <2>2 DEF CreateRingsRoot, Begin, vars, tree, tables
  <2> QED BY <1>1, <1>9, <2>1, <2>2, ServerFrame
<1> QED
  BY <1>2, <1>3, <1>7, <1>8, <1>9 DEF Next, EbStep, addDataSphere, addService, addVolume

(* The tree only grows. *)
LEMMA TreeGrows ==
  ASSUME TypeOK, [Next]_vars
  PROVE  /\ treeServices \subseteq treeServices' /\ treeRings \subseteq treeRings'
         /\ treeVolumes \subseteq treeVolumes'
<1>1. ASSUME NEW n \in 0 .. Len(reqs), NEW T \in SUBSET Creating, CreateFor(T), CreateNodes(n)
      PROVE  /\ treeServices \subseteq treeServices' /\ treeRings \subseteq treeRings'
             /\ treeVolumes \subseteq treeVolumes'
  BY <1>1, CreateForAdds, CreateNodesAdds
<1>2. ASSUME ServeCreate
      PROVE  /\ treeServices \subseteq treeServices' /\ treeRings \subseteq treeRings'
             /\ treeVolumes \subseteq treeVolumes'
  <2>1. reqs # <<>> /\ CreateNodes(1) /\ treeServices' = treeServices
    BY <1>2 DEF ServeCreate
  <2>2. 1 \in 0 .. Len(reqs)
    BY <2>1, HeadReq
  <2> QED BY <2>1, <2>2, CreateNodesAdds
<1>3. ASSUME NEW n \in 0 .. Len(reqs), NEW T \in SUBSET Creating, LoseConnection(n, T)
      PROVE  /\ treeServices \subseteq treeServices' /\ treeRings \subseteq treeRings'
             /\ treeVolumes \subseteq treeVolumes'
  BY <1>1, <1>3 DEF LoseConnection
<1>4. ASSUME RingFailed \/ Crash
      PROVE  /\ treeServices \subseteq treeServices' /\ treeRings \subseteq treeRings'
             /\ treeVolumes \subseteq treeVolumes'
  BY <1>1, <1>4 DEF RingFailed, Crash, EndProcess
<1>5. ASSUME NEW t \in Workers, ServeWorker(t)
      PROVE  /\ treeServices \subseteq treeServices' /\ treeRings \subseteq treeRings'
             /\ treeVolumes \subseteq treeVolumes'
  BY <1>5 DEF ServeWorker, CreateFor
<1>6. ASSUME NEW t \in Workers,
             \/ CreateFailed(t) \/ DataSphereAdded(t) \/ ServiceAdded(t) \/ addServiceInEb(t)
             \/ addResource(t)
      PROVE  UNCHANGED <<treeServices, treeRings, treeVolumes>>
  BY <1>6 DEF CreateFailed, DataSphereAdded, ServiceAdded, addServiceInEb, addResource, tree
<1>7. ASSUME \/ RingAdded \/ ResourceAdded \/ ResourceFailed \/ CreateRingsRoot
             \/ UNCHANGED vars \/ \E t \in Workers : \E c : Begin(t, c)
      PROVE  UNCHANGED <<treeServices, treeRings, treeVolumes>>
  BY <1>7 DEF RingAdded, ResourceAdded, ResourceFailed, CreateRingsRoot, vars, Begin, tree
<1> QED
  BY <1>2, <1>3, <1>4, <1>5, <1>6, <1>7, ServerFrame
     DEF Next, WorkerStep, EbStep, addDataSphere, addService, addVolume

(* Every step keeps the results true. *)
LEMMA NextAnswers ==
  ASSUME TypeOK, NewIds, AnswersTrue, SphereOnce, [Next]_vars
  PROVE  AnswersTrue'
<1>1. treeRings \subseteq treeRings' /\ treeVolumes \subseteq treeVolumes'
  BY TreeGrows
<1>2. ASSUME \A i \in 1 .. Len(conts') :
               \/ conts'[i].rc = "lost"
               \/ \E j \in 1 .. Len(conts) : conts'[i] = conts[j]
               \/ /\ conts'[i].rc = "ok"
                  /\ conts'[i].kind = "ring" => conts'[i].node \in treeRings'
                  /\ conts'[i].kind = "volume" => conts'[i].node \in treeVolumes'
      PROVE  AnswersTrue'
  <2> SUFFICES ASSUME NEW i \in 1 .. Len(conts')
               PROVE  /\ conts'[i].rc # "exists"
                      /\ conts'[i].rc = "ok" /\ conts'[i].kind = "ring" => conts'[i].node \in treeRings'
                      /\ conts'[i].rc = "ok" /\ conts'[i].kind = "volume" => conts'[i].node \in treeVolumes'
    BY DEF AnswersTrue
  <2>1. CASE \E j \in 1 .. Len(conts) : conts'[i] = conts[j]
    BY <1>1, <2>1 DEF AnswersTrue
  <2> QED BY <1>2, <2>1
<1>3. ASSUME conts' = conts PROVE AnswersTrue'
  BY <1>2, <1>3
<1>4. ASSUME ServeCreate PROVE AnswersTrue'
  <2> DEFINE a == Answer(Head(reqs), Code(Head(reqs)))
  <2>1. reqs # <<>> /\ CreateNodes(1) /\ conts' = Append(conts, a)
    BY <1>4 DEF ServeCreate
  <2>2. Head(reqs) = reqs[1] /\ reqs[1].kind \in {"ring", "volume"}
    BY <2>1, HeadReq, RequestKinds
  <2>3. /\ a.rc = "ok" /\ a.kind = reqs[1].kind /\ a.node = reqs[1].node
    BY <2>1, <2>2, FirstCreated DEF Answer
  <2>4. a.kind = "ring" => a.node \in treeRings'
    BY <2>1, <2>3, FirstCreated
  <2>5. a.kind = "volume" => a.node \in treeVolumes'
    BY <2>1, <2>3, FirstCreated
  <2> HIDE DEF a
  <2>6. \A i \in 1 .. Len(conts') : conts'[i] = a \/ (i \in 1 .. Len(conts) /\ conts'[i] = conts[i])
    BY <2>1 DEF TypeOK
  <2> QED BY <1>2, <2>3, <2>4, <2>5, <2>6
<1>5. ASSUME NEW n, NEW T, LoseConnection(n, T) PROVE AnswersTrue'
  <2>1. ASSUME NEW i \in 1 .. Len(conts')
        PROVE  conts'[i].rc = "lost" \/ (i \in 1 .. Len(conts) /\ conts'[i] = conts[i])
    <3>1. CASE i \in 1 .. Len(conts)
      BY <1>5, <3>1, LostAnswers
    <3>2. CASE i \notin 1 .. Len(conts)
      <4>1. conts'[i] = Answer(reqs[i - Len(conts)], "lost")
        BY <1>5, <3>2, LostAnswers
      <4> QED BY <4>1 DEF Answer
    <3> QED BY <3>1, <3>2
  <2> QED BY <1>2, <2>1
<1>6. ASSUME NEW kind, NEW rcs, Continue(kind, rcs) PROVE AnswersTrue'
  <2>1. conts \in Seq(Results) /\ conts # <<>> /\ conts' = Tail(conts)
    BY <1>6 DEF TypeOK, Continue
  <2>2. \A i \in 1 .. Len(conts') : i + 1 \in 1 .. Len(conts) /\ conts'[i] = conts[i + 1]
    BY <2>1
  <2> QED BY <1>2, <2>2
<1>7. ASSUME RingAdded \/ ResourceAdded \/ ResourceFailed PROVE AnswersTrue'
  BY <1>6, <1>7 DEF RingAdded, ResourceAdded, ResourceFailed
<1>8. ASSUME RingFailed \/ Crash PROVE AnswersTrue'
  <2>1. conts' = <<>>
    BY <1>8, EndProcessFrame
  <2>2. \A i \in 1 .. Len(conts') : FALSE
    BY <2>1
  <2> QED BY <1>2, <2>2
<1>9. ASSUME NEW t \in Workers, WorkerStep(t) PROVE AnswersTrue'
  BY <1>3, <1>9 DEF WorkerStep, ServeWorker, CreateFailed, DataSphereAdded, ServiceAdded,
                    addServiceInEb, addResource
<1>10. ASSUME \/ CreateRingsRoot \/ UNCHANGED vars \/ \E t \in Workers : \E c : Begin(t, c)
       PROVE AnswersTrue'
  BY <1>3, <1>10 DEF CreateRingsRoot, vars, Begin
<1> QED
  BY <1>3, <1>4, <1>5, <1>7, <1>8, <1>9, <1>10, ServerFrame
     DEF Next, EbStep, addDataSphere, addService, addVolume

(* Every step writes the tables and the topic after the tree. *)
LEMMA NextTreeFirst ==
  ASSUME TypeOK, SphereOnce, AnswersTrue, ServicesApart, TreeFirst, [Next]_vars
  PROVE  TreeFirst'
<1>1. /\ treeServices \subseteq treeServices' /\ treeRings \subseteq treeRings'
      /\ treeVolumes \subseteq treeVolumes' /\ topic \in Seq(Volumes)
      /\ DOMAIN topic = 1 .. Len(topic)
  BY TreeGrows, LenProperties DEF TypeOK
<1>2. ASSUME serviceCache' \subseteq treeServices', rings' \subseteq treeRings',
             resources' \subseteq treeVolumes', topic' = topic
      PROVE  TreeFirst'
  BY <1>1, <1>2 DEF TreeFirst
<1>3. ASSUME UNCHANGED <<serviceCache, rings, resources, topic>> PROVE TreeFirst'
  BY <1>1, <1>2, <1>3 DEF TreeFirst
<1>4. ASSUME NEW t \in Workers, ServiceAdded(t) PROVE TreeFirst'
  <2>1. /\ Adding(t) /\ serviceCache' = serviceCache \cup {call[t].arg}
        /\ UNCHANGED <<rings, resources, topic>>
    BY <1>4 DEF ServiceAdded, Adding
  <2>2. call[t].arg \in treeServices
    BY <2>1 DEF ServicesApart
  <2> QED BY <1>1, <1>2, <2>1, <2>2 DEF TreeFirst
<1>5. ASSUME NEW x, Continue("ring", {"ok"}) \/ Continue("volume", {"ok"}), x = Head(conts)
      PROVE  /\ x.kind = "ring" => x.node \in treeRings
             /\ x.kind = "volume" => x.node \in treeVolumes
  <2>1. x = conts[1] /\ 1 \in 1 .. Len(conts) /\ conts[1].rc = "ok"
    BY <1>5, HeadCont
  <2> QED BY <2>1 DEF AnswersTrue
<1>6. ASSUME RingAdded PROVE TreeFirst'
  <2>1. /\ Continue("ring", {"ok"}) /\ rings' = Put(rings, Head(conts).node)
        /\ UNCHANGED <<serviceCache, resources, topic>> /\ Head(conts).kind = "ring"
    BY <1>6 DEF RingAdded, Continue
  <2>2. rings' \subseteq treeRings
    BY <1>5, <2>1 DEF Put, TreeFirst
  <2> QED BY <1>1, <1>2, <2>1, <2>2 DEF TreeFirst
<1>7. ASSUME ResourceAdded PROVE TreeFirst'
  <2> DEFINE v == Head(conts).node
  <2>1. /\ Continue("volume", {"ok"}) /\ resources' = Put(resources, v) /\ Head(conts).kind = "volume"
        /\ topic' = topic \/ topic' = Append(topic, v)
        /\ UNCHANGED <<serviceCache, rings, treeServices, treeRings, treeVolumes>>
    BY <1>7 DEF ResourceAdded, Continue, publishResourceInfo, publishMessage, tree
  <2>2. v \in treeVolumes
    BY <1>5, <2>1
  <2> HIDE DEF v
  <2>3. resources' \subseteq treeVolumes
    BY <2>1, <2>2 DEF Put, TreeFirst
  <2>4. CASE topic' = topic
    BY <1>2, <2>1, <2>3, <2>4 DEF TreeFirst
  <2>5. CASE topic' = Append(topic, v)
    <3>1. \A i \in DOMAIN topic' : topic'[i] = v \/ (i \in DOMAIN topic /\ topic'[i] = topic[i])
      BY <1>1, <2>5
    <3>2. \A i \in DOMAIN topic' : topic'[i] \in treeVolumes
      BY <2>2, <3>1 DEF TreeFirst
    <3> QED BY <2>1, <2>3, <3>2 DEF TreeFirst
  <2> QED BY <2>1, <2>4, <2>5
<1>8. ASSUME RingFailed \/ Crash PROVE TreeFirst'
  BY <1>2, <1>8, EndProcessFrame
<1>9. ASSUME NEW t \in Workers, WorkerStep(t) PROVE TreeFirst'
  <2>1. CASE ServeWorker(t) \/ CreateFailed(t) \/ addServiceInEb(t) \/ addResource(t)
    BY <1>3, <2>1 DEF ServeWorker, CreateFailed, addServiceInEb, addResource, tables
  <2>2. CASE DataSphereAdded(t)
    BY <1>3, <2>2, SphereAddedFrame
  <2> QED BY <1>4, <1>9, <2>1, <2>2 DEF WorkerStep
<1>10. ASSUME \/ CreateRingsRoot \/ UNCHANGED vars \/ ResourceFailed \/ ServeCreate
              \/ (\E n, T : LoseConnection(n, T)) \/ \E t \in Workers : \E c : Begin(t, c)
       PROVE TreeFirst'
  BY <1>3, <1>10 DEF CreateRingsRoot, vars, ResourceFailed, ServeCreate, LoseConnection, Begin, tables
<1> QED
  BY <1>3, <1>6, <1>7, <1>8, <1>9, <1>10, ServerFrame
     DEF Next, EbStep, addDataSphere, addService, addVolume

-----------------------------------------------------------------------------
(* The volume servers' tables come from the tree. *)

(* Only the servers write their tables. *)
LEMMA ServiceFrame ==
  ASSUME [Next]_vars
  PROVE  UNCHANGED <<ringTable, resourceTable>> \/ \E s \in Started : ServerStep(s)
<1>1. ASSUME NEW t \in Workers, WorkerStep(t) PROVE UNCHANGED <<ringTable, resourceTable>>
  BY <1>1 DEF WorkerStep, ServeWorker, CreateFailed, DataSphereAdded, ServiceAdded,
              addServiceInEb, addResource, servers
<1>2. ASSUME \/ \E t \in Workers : \E c : Begin(t, c)
             \/ CreateRingsRoot \/ ServeCreate \/ \E n, T : LoseConnection(n, T)
             \/ UNCHANGED vars
      PROVE  UNCHANGED <<ringTable, resourceTable>>
  BY <1>2 DEF Begin, CreateRingsRoot, ServeCreate, LoseConnection, vars, servers
<1>3. ASSUME EbStep \/ Crash PROVE UNCHANGED <<ringTable, resourceTable>>
  <2>1. CASE RingAdded \/ ResourceAdded \/ ResourceFailed
    BY <2>1 DEF RingAdded, ResourceAdded, ResourceFailed, servers
  <2>2. CASE RingFailed \/ Crash
    BY <2>2, EndProcessFrame
  <2> QED BY <1>3, <2>1, <2>2 DEF EbStep
<1> QED
  BY <1>1, <1>2, <1>3 DEF Next, addDataSphere, addService, addVolume

(* A server's table of rings is read from the tree at once, or dropped. *)
LEMMA NextRingsRead ==
  ASSUME TypeOK, RingsRead, [Next]_vars
  PROVE  RingsRead'
<1>1. treeRings \subseteq treeRings'
  BY TreeGrows
<1>2. CASE ringTable' = ringTable
  BY <1>1, <1>2 DEF RingsRead
<1>3. ASSUME NEW s \in Started, ServerStep(s) PROVE RingsRead'
  <2>1. ASSUME NEW R, R \subseteq treeRings, ringTable' = [ringTable EXCEPT ![s] = R]
        PROVE  RingsRead'
    BY <1>1, <2>1 DEF RingsRead, TypeOK
  <2>2. CASE PullRings(s)
    BY <1>2, <2>1, <2>2 DEF PullRings
  <2>3. CASE PullResourcesFails(s) \/ applyResourceUpdate(s) \/ CrashServer(s)
    <3>1. PICK R : R = {} /\ ringTable' = [ringTable EXCEPT ![s] = R]
      BY <2>3 DEF PullResourcesFails, applyResourceUpdate, CrashServer, EndServer
    <3>2. R \subseteq treeRings
      BY <3>1
    <3> QED BY <2>1, <3>1, <3>2
  <2>4. CASE \/ StartServer(s) \/ PullResources(s) \/ Subscribe(s) \/ handleNewResource(s)
             \/ CommitOffset(s) \/ \E id \in resourceTable[s] : increaseTerm(s, id)
    BY <1>2, <2>4 DEF StartServer, PullResources, Subscribe, handleNewResource, CommitOffset,
                      increaseTerm, servers
  <2> QED BY <1>3, <2>2, <2>3, <2>4 DEF ServerStep, Boot
<1> QED
  BY <1>2, <1>3, ServiceFrame

(* A replica is of a volume of the tree, on a ring of the tree that has the server. *)
Owns(s, id) == \E v \in treeVolumes : v.id = id /\ isRingMember(treeRings, v.ringId, s)

(* What a server takes, it owns. *)
LEMMA OwnedOwns ==
  ASSUME RingsRead, NEW s \in Started, NEW V, V \subseteq treeVolumes, NEW id \in Owned(s, V)
  PROVE  Owns(s, id)
<1>1. PICK v \in V : v.id = id /\ isRingMember(ringTable[s], v.ringId, s)
  BY DEF Owned
<1>2. ringTable[s] \subseteq treeRings
  BY DEF RingsRead
<1> QED
  BY <1>1, <1>2 DEF Owns, isRingMember

(* A server takes only volumes it owns, from the tree or from the topic. *)
LEMMA NextReplicas ==
  ASSUME TypeOK, TreeFirst, RingsRead, ReplicasOwned, [Next]_vars
  PROVE  ReplicasOwned'
<1>1. treeRings \subseteq treeRings' /\ treeVolumes \subseteq treeVolumes'
  BY TreeGrows
<1>2. ASSUME NEW s, NEW id, Owns(s, id) PROVE Owns(s, id)'
  BY <1>1, <1>2 DEF Owns, isRingMember
<1>3. \A s \in Started : \A id \in resourceTable[s] : Owns(s, id)
  BY DEF ReplicasOwned, Owns
<1>4. ASSUME \A s \in Started : \A id \in resourceTable'[s] : Owns(s, id) PROVE ReplicasOwned'
  <2>1. \A s \in Started : \A id \in resourceTable'[s] : Owns(s, id)'
    BY <1>2, <1>4
  <2> QED BY <2>1 DEF ReplicasOwned, Owns
<1>5. CASE resourceTable' = resourceTable
  BY <1>3, <1>4, <1>5
<1>6. ASSUME NEW s \in Started, ServerStep(s) PROVE ReplicasOwned'
  <2>1. ASSUME NEW R, \A id \in R : Owns(s, id), resourceTable' = [resourceTable EXCEPT ![s] = R]
        PROVE  ReplicasOwned'
    <3>1. resourceTable'[s] = R /\ \A u \in Started \ {s} : resourceTable'[u] = resourceTable[u]
      BY <2>1 DEF TypeOK
    <3> QED BY <1>3, <1>4, <2>1, <3>1
  <2>2. CASE PullResources(s)
    <3>1. resourceTable' = [resourceTable EXCEPT ![s] = Owned(s, treeVolumes)]
      BY <2>2 DEF PullResources
    <3>2. \A id \in Owned(s, treeVolumes) : Owns(s, id)
      BY OwnedOwns
    <3> QED BY <2>1, <3>1, <3>2
  <2>3. CASE handleNewResource(s)
    <3> DEFINE v == topic[offset[s] + 1]
               R == resourceTable[s] \cup Owned(s, {v})
    <3>1. resourceTable' = [resourceTable EXCEPT ![s] = R]
      BY <2>3 DEF handleNewResource
    <3>2. v \in treeVolumes
      <4>1. /\ offset[s] \in Nat /\ topic \in Seq(Volumes) /\ Len(topic) \in Nat
            /\ DOMAIN topic = 1 .. Len(topic) /\ offset[s] < Len(topic)
        BY <2>3, LenProperties DEF TypeOK, handleNewResource, consumeMessage
      <4>2. offset[s] + 1 \in DOMAIN topic
        BY <4>1
      <4> QED BY <4>2 DEF TreeFirst
    <3>3. \A id \in Owned(s, {v}) : Owns(s, id)
      BY <3>2, OwnedOwns
    <3>4. \A id \in R : Owns(s, id)
      BY <1>3, <3>3
    <3> HIDE DEF R
    <3> QED BY <2>1, <3>1, <3>4
  <2>4. CASE PullResourcesFails(s) \/ applyResourceUpdate(s) \/ CrashServer(s)
    <3>1. PICK R : R = {} /\ resourceTable' = [resourceTable EXCEPT ![s] = R]
      BY <2>4 DEF PullResourcesFails, applyResourceUpdate, CrashServer, EndServer
    <3>2. \A id \in R : Owns(s, id)
      BY <3>1
    <3> QED BY <2>1, <3>1, <3>2
  <2>5. CASE \/ StartServer(s) \/ PullRings(s) \/ Subscribe(s)
             \/ CommitOffset(s) \/ \E id \in resourceTable[s] : increaseTerm(s, id)
    BY <1>5, <2>5 DEF StartServer, PullRings, Subscribe, CommitOffset, increaseTerm, servers
  <2> QED BY <1>6, <2>2, <2>3, <2>4, <2>5 DEF ServerStep, Boot
<1> QED
  BY <1>5, <1>6, ServiceFrame

-----------------------------------------------------------------------------
(* Services are apart, volumes are placed. *)

(* A sequence without repetitions has as many members as entries. *)
LEMMA DistinctMembers ==
  ASSUME NEW S, NEW s \in Seq(S), \A i, j \in 1 .. Len(s) : s[i] = s[j] => i = j
  PROVE  Cardinality({s[i] : i \in 1 .. Len(s)}) = Len(s)
<1> DEFINE R == {s[i] : i \in 1 .. Len(s)}
<1>1. Len(s) \in Nat /\ s \in [1 .. Len(s) -> R] /\ \A r \in R : \E i \in 1 .. Len(s) : s[i] = r
  BY LenProperties
<1> HIDE DEF R
<1>2. s \in Bijection(1 .. Len(s), R)
  BY <1>1, Fun_IsBij
<1>3. ExistsBijection(1 .. Len(s), R)
  BY <1>2, Fun_ExistsBij
<1>4. Cardinality(R) = Len(s)
  BY <1>1, <1>3, FS_CountingElements
<1> QED
  BY <1>4 DEF R

(* A create that reaches the tree, or is given up, adds nothing to the nodes of the
   tree and those on their way. *)
LEMMA AllShrink ==
  ASSUME TypeOK, NEW n \in 0 .. Len(reqs),
         CreateNodes(n) \/ UNCHANGED <<treeRings, treeVolumes>>,
         \A i \in 1 .. Len(reqs') : \E j \in 1 .. Len(reqs) : reqs'[i] = reqs[j]
  PROVE  AllRings' \subseteq AllRings /\ AllVolumes' \subseteq AllVolumes
<1>1. \A i \in 1 .. n : i \in 1 .. Len(reqs)
  BY FlightEntries
<1>2. /\ \A r \in treeRings' \ treeRings : \E i \in 1 .. Len(reqs) : reqs[i].kind = "ring" /\ r = reqs[i].node
      /\ \A v \in treeVolumes' \ treeVolumes : \E i \in 1 .. Len(reqs) : reqs[i].kind = "volume" /\ v = reqs[i].node
  <2>1. CASE CreateNodes(n)
    BY <1>1, <2>1, CreateNodesAdds
  <2>2. CASE UNCHANGED <<treeRings, treeVolumes>>
    BY <2>2
  <2> QED BY <2>1, <2>2
<1>3. ASSUME NEW r \in AllRings' PROVE r \in AllRings
  <2>1. r \in treeRings' \/ \E i \in 1 .. Len(reqs') : reqs'[i].kind = "ring" /\ r = reqs'[i].node
    BY DEF AllRings, Requested
  <2>2. r \in treeRings \/ \E i \in 1 .. Len(reqs) : reqs[i].kind = "ring" /\ r = reqs[i].node
    BY <1>2, <2>1
  <2> QED BY <2>2 DEF AllRings, Requested
<1>4. ASSUME NEW v \in AllVolumes' PROVE v \in AllVolumes
  <2>1. v \in treeVolumes' \/ \E i \in 1 .. Len(reqs') : reqs'[i].kind = "volume" /\ v = reqs'[i].node
    BY DEF AllVolumes, Requested
  <2>2. v \in treeVolumes \/ \E i \in 1 .. Len(reqs) : reqs[i].kind = "volume" /\ v = reqs[i].node
    BY <1>2, <2>1
  <2> QED BY <2>2 DEF AllVolumes, Requested
<1> QED
  BY <1>3, <1>4

(* A request adds its node to them. *)
LEMMA AllGrow ==
  ASSUME TypeOK, NEW q, reqs' = Append(reqs, q), UNCHANGED <<treeRings, treeVolumes>>
  PROVE  /\ \A r \in AllRings' : r \in AllRings \/ (q.kind = "ring" /\ r = q.node)
         /\ \A v \in AllVolumes' : v \in AllVolumes \/ (q.kind = "volume" /\ v = q.node)
<1>1. \A i \in 1 .. Len(reqs') : reqs'[i] = q \/ (i \in 1 .. Len(reqs) /\ reqs'[i] = reqs[i])
  BY DEF TypeOK
<1>2. ASSUME NEW r \in AllRings' PROVE r \in AllRings \/ (q.kind = "ring" /\ r = q.node)
  <2>1. r \in treeRings \/ \E i \in 1 .. Len(reqs') : reqs'[i].kind = "ring" /\ r = reqs'[i].node
    BY DEF AllRings, Requested
  <2>2. \/ r \in treeRings \/ (q.kind = "ring" /\ r = q.node)
        \/ \E i \in 1 .. Len(reqs) : reqs[i].kind = "ring" /\ r = reqs[i].node
    BY <1>1, <2>1
  <2> QED BY <2>2 DEF AllRings, Requested
<1>3. ASSUME NEW v \in AllVolumes' PROVE v \in AllVolumes \/ (q.kind = "volume" /\ v = q.node)
  <2>1. v \in treeVolumes \/ \E i \in 1 .. Len(reqs') : reqs'[i].kind = "volume" /\ v = reqs'[i].node
    BY DEF AllVolumes, Requested
  <2>2. \/ v \in treeVolumes \/ (q.kind = "volume" /\ v = q.node)
        \/ \E i \in 1 .. Len(reqs) : reqs[i].kind = "volume" /\ v = reqs[i].node
    BY <1>1, <2>1
  <2> QED BY <2>2 DEF AllVolumes, Requested
<1> QED
  BY <1>2, <1>3

(* Except for the two RPCs that ask for a node, no step adds to them. *)
LEMMA NextAll ==
  ASSUME TypeOK, [Next]_vars
  PROVE  \/ AllRings' \subseteq AllRings /\ AllVolumes' \subseteq AllVolumes
         \/ \E t \in Workers : addServiceInEb(t) \/ addResource(t)
<1>1. ASSUME reqs' = <<>>, NEW n \in 0 .. Len(reqs), CreateNodes(n)
      PROVE  AllRings' \subseteq AllRings /\ AllVolumes' \subseteq AllVolumes
  <2>1. \A i \in 1 .. Len(reqs') : FALSE
    BY <1>1
  <2> QED BY <1>1, <2>1, AllShrink
<1>2. ASSUME UNCHANGED <<reqs, treeRings, treeVolumes>>
      PROVE  AllRings' \subseteq AllRings /\ AllVolumes' \subseteq AllVolumes
  BY <1>2 DEF AllRings, AllVolumes, Requested
<1>3. ASSUME ServeCreate PROVE AllRings' \subseteq AllRings /\ AllVolumes' \subseteq AllVolumes
  <2>1. /\ CreateNodes(1) /\ 1 \in 0 .. Len(reqs)
        /\ \A i \in 1 .. Len(reqs') : \E j \in 1 .. Len(reqs) : reqs'[i] = reqs[j]
    BY <1>3, HeadReq DEF ServeCreate
  <2> QED BY <2>1, AllShrink
<1>4. ASSUME NEW n \in 0 .. Len(reqs), NEW T, LoseConnection(n, T)
      PROVE  AllRings' \subseteq AllRings /\ AllVolumes' \subseteq AllVolumes
  BY <1>1, <1>4 DEF LoseConnection
<1>5. ASSUME RingFailed \/ Crash
      PROVE  AllRings' \subseteq AllRings /\ AllVolumes' \subseteq AllVolumes
  BY <1>1, <1>5, EndProcessFrame
<1>6. ASSUME NEW t \in Workers,
             ServeWorker(t) \/ CreateFailed(t) \/ DataSphereAdded(t) \/ ServiceAdded(t)
      PROVE  AllRings' \subseteq AllRings /\ AllVolumes' \subseteq AllVolumes
  BY <1>2, <1>6 DEF ServeWorker, CreateFailed, DataSphereAdded, ServiceAdded, tree
<1>7. ASSUME \/ RingAdded \/ ResourceAdded \/ ResourceFailed \/ CreateRingsRoot
             \/ UNCHANGED vars \/ \E t \in Workers : \E c : Begin(t, c)
      PROVE  AllRings' \subseteq AllRings /\ AllVolumes' \subseteq AllVolumes
  BY <1>2, <1>7 DEF RingAdded, ResourceAdded, ResourceFailed, CreateRingsRoot, vars, Begin, tree
<1>8. ASSUME NEW s \in Started, ServerStep(s)
      PROVE  AllRings' \subseteq AllRings /\ AllVolumes' \subseteq AllVolumes
  BY <1>2, <1>8, ServerFrame
<1> QED
  BY <1>3, <1>4, <1>5, <1>6, <1>7, <1>8
     DEF Next, WorkerStep, EbStep, addDataSphere, addService, addVolume

(* A step that adds no ring, and starts no service, keeps the services apart. *)
LEMMA ApartShrinks ==
  ASSUME ServicesApart, pendingServices' = pendingServices \/ pendingServices' = <<>>,
         treeServices \subseteq treeServices', AllRings' \subseteq AllRings,
         \A t \in Workers : Adding(t)' => Adding(t) /\ call'[t].arg = call[t].arg
  PROVE  ServicesApart'
<1>1. /\ Len(pendingServices') < ReplicaFactor
      /\ \A i, j \in 1 .. Len(pendingServices') : pendingServices'[i] = pendingServices'[j] => i = j
      /\ Pending' \subseteq Pending
  <2>1. CASE pendingServices' = pendingServices
    BY <2>1 DEF ServicesApart, Pending
  <2>2. CASE pendingServices' = <<>>
    <3>1. Len(pendingServices') = 0
      BY <2>2
    <3> QED BY <3>1, ReplicaAssumption DEF Pending
  <2> QED BY <2>1, <2>2
<1>2. Pending' \subseteq treeServices'
  BY <1>1 DEF ServicesApart
<1>3. \A t \in Workers : Adding(t)' => call'[t].arg \in treeServices' \ Pending'
  BY <1>1 DEF ServicesApart
<1>4. \A t, u \in Workers : Adding(t)' /\ Adding(u)' /\ call'[t].arg = call'[u].arg => t = u
  BY DEF ServicesApart
<1>5. ASSUME NEW r \in AllRings'
      PROVE  /\ Len(r.memberIds) = ReplicaFactor /\ Cardinality(Members(r)) = ReplicaFactor
             /\ Members(r) \subseteq treeServices' \ Pending'
             /\ \A t \in Workers : Adding(t)' => call'[t].arg \notin Members(r)
  <2>1. /\ Len(r.memberIds) = ReplicaFactor /\ Cardinality(Members(r)) = ReplicaFactor
        /\ Members(r) \subseteq treeServices \ Pending
        /\ \A t \in Workers : Adding(t) => call[t].arg \notin Members(r)
    BY DEF ServicesApart
  <2> QED BY <1>1, <2>1
<1>6. \A r, q \in AllRings' : r # q => r.id # q.id /\ Members(r) \cap Members(q) = {}
  BY DEF ServicesApart
<1> QED
  BY <1>1, <1>2, <1>3, <1>4, <1>5, <1>6 DEF ServicesApart

(* A service whose node was made is new: it is nowhere else. *)
LEMMA ApartMade ==
  ASSUME TypeOK, ServicesApart, NEW t \in Workers, ServeWorker(t)
  PROVE  ServicesApart'
<1>1. /\ UNCHANGED <<pendingServices, reqs, treeRings, treeVolumes>>
      /\ treeServices \subseteq treeServices'
  BY DEF ServeWorker, CreateFor, tables
<1>2. AllRings' = AllRings /\ Pending' = Pending
  BY <1>1 DEF AllRings, Requested, Pending
<1>3. /\ call'[t].op = call[t].op /\ \A u \in Workers \ {t} : call'[u] = call[u]
      /\ call[t].op \in {"addDataSphere", "addService"}
      /\ call[t].op = "addService" => call'[t].arg = call[t].arg
      /\ call[t].op = "addService" /\ call[t].arg \in treeServices => call'[t].at = "exists"
  BY ServedCall
<1>4. \A u \in Workers \ {t} : (Adding(u)' <=> Adding(u)) /\ call'[u].arg = call[u].arg
  BY <1>3 DEF Adding
<1>5. CASE ~Adding(t)'
  <2>1. \A u \in Workers : Adding(u)' => Adding(u) /\ call'[u].arg = call[u].arg
    BY <1>4, <1>5
  <2> QED BY <1>1, <1>2, <2>1, ApartShrinks
<1>6. CASE Adding(t)'
  <2> DEFINE s == call[t].arg
  <2>1. call[t].op = "addService" /\ call'[t].arg = s /\ s \notin treeServices
    BY <1>3, <1>6 DEF Adding
  <2>2. s \in treeServices'
    <3>1. call[t].arg \in Services
      BY <2>1, CallKinds DEF TypeOK
    <3> QED BY <2>1, <3>1 DEF ServeWorker, CreateFor
  <2> HIDE DEF s
  <2>3. \A u \in Workers : Adding(u)' => call'[u].arg \in treeServices' \ Pending'
    BY <1>1, <1>2, <1>4, <2>1, <2>2 DEF ServicesApart
  <2>4. \A u \in Workers \ {t} : Adding(u)' => call'[u].arg # s
    BY <1>4, <2>1 DEF ServicesApart
  <2>5. \A u, w \in Workers : Adding(u)' /\ Adding(w)' /\ call'[u].arg = call'[w].arg => u = w
    BY <1>4, <2>1, <2>4 DEF ServicesApart
  <2>6. ASSUME NEW r \in AllRings'
        PROVE  /\ Len(r.memberIds) = ReplicaFactor /\ Cardinality(Members(r)) = ReplicaFactor
               /\ Members(r) \subseteq treeServices' \ Pending'
               /\ \A u \in Workers : Adding(u)' => call'[u].arg \notin Members(r)
    <3>1. /\ Len(r.memberIds) = ReplicaFactor /\ Cardinality(Members(r)) = ReplicaFactor
          /\ Members(r) \subseteq treeServices \ Pending
          /\ \A u \in Workers : Adding(u) => call[u].arg \notin Members(r)
      BY <1>2 DEF ServicesApart
    <3>2. ASSUME NEW u \in Workers, Adding(u)' PROVE call'[u].arg \notin Members(r)
      BY <1>4, <2>1, <3>1, <3>2
    <3> QED BY <1>1, <1>2, <3>1, <3>2
  <2>7. /\ Len(pendingServices') < ReplicaFactor
        /\ \A i, j \in 1 .. Len(pendingServices') : pendingServices'[i] = pendingServices'[j] => i = j
        /\ Pending' \subseteq treeServices'
        /\ \A r, q \in AllRings' : r # q => r.id # q.id /\ Members(r) \cap Members(q) = {}
    BY <1>1, <1>2 DEF ServicesApart
  <2> QED BY <2>3, <2>5, <2>6, <2>7 DEF ServicesApart
<1> QED
  BY <1>5, <1>6

(* A service joins the pending ones, or completes a ring with them. *)
LEMMA ApartJoined ==
  ASSUME TypeOK, EbServices, SphereOnce, RingsInOrder, NewIds, ServicesApart, NEW t \in Workers, addServiceInEb(t)
  PROVE  ServicesApart'
<1> DEFINE s == call[t].arg
           pending == Append(pendingServices, s)
           ring == [id |-> nextAddRingId, memberIds |-> pending]
           q == [kind |-> "ring", node |-> ring, by |-> t]
<1>1. /\ call[t].op = "addService" /\ call[t].at = "eb"
      /\ UNCHANGED <<treeServices, treeRings, treeVolumes>>
      /\ \/ Len(pending) < ReplicaFactor /\ pendingServices' = pending /\ reqs' = reqs
         \/ Len(pending) >= ReplicaFactor /\ pendingServices' = <<>> /\ reqs' = Append(reqs, q)
  BY RingRequested
<1>2. Adding(t) /\ s \in treeServices \ Pending
  BY <1>1 DEF Adding, ServicesApart
<1>3. ~Adding(t)' /\ \A u \in Workers \ {t} : (Adding(u)' <=> Adding(u)) /\ call'[u].arg = call[u].arg
  <2>1. ~ServiceAdded(t)
    BY <1>1 DEF ServiceAdded
  <2>2. /\ \A u \in Workers \ {t} : call'[u] = call[u]
        /\ call'[t].op = "none" \/ call'[t].at \notin {"ok", "eb"}
    <3>1. \/ call' = [call EXCEPT ![t] = Idle]
          \/ call' = [call EXCEPT ![t] = [call[t] EXCEPT !.at = "ring"]]
      BY DEF addServiceInEb
    <3>2. [call[t] EXCEPT !.at = "ring"].at = "ring"
      BY <1>1, CallMoves DEF TypeOK, Ats
    <3>3. CASE call' = [call EXCEPT ![t] = Idle]
      BY <3>3, IdleCall DEF TypeOK
    <3>4. CASE call' = [call EXCEPT ![t] = [call[t] EXCEPT !.at = "ring"]]
      <4> DEFINE d == [call[t] EXCEPT !.at = "ring"]
      <4>1. call' = [call EXCEPT ![t] = d] /\ d.at = "ring"
        BY <3>2, <3>4
      <4> HIDE DEF d
      <4> QED BY <4>1 DEF TypeOK
    <3> QED BY <3>1, <3>3, <3>4
  <2> QED BY <2>2 DEF Adding
<1>4. /\ pending \in Seq(VolumeServers) /\ Len(pending) = Len(pendingServices) + 1
      /\ Len(pendingServices) \in Nat
      /\ \A i \in 1 .. Len(pending) :
           \/ i \in 1 .. Len(pendingServices) /\ pending[i] = pendingServices[i]
           \/ i = Len(pending) /\ pending[i] = s
  <2>1. pendingServices \in Seq(VolumeServers) /\ s \in VolumeServers
    BY <1>1 DEF TypeOK, EbServices
  <2> HIDE DEF s
  <2> QED BY <2>1
<1> HIDE DEF pending
<1>5. {pending[i] : i \in 1 .. Len(pending)} \subseteq Pending \cup {s}
  BY <1>4 DEF Pending
<1>6. \A i, j \in 1 .. Len(pending) : pending[i] = pending[j] => i = j
  <2> SUFFICES ASSUME NEW i \in 1 .. Len(pending), NEW j \in 1 .. Len(pending), pending[i] = pending[j]
               PROVE  i = j
    OBVIOUS
  <2>1. \A m \in 1 .. Len(pendingServices) : pendingServices[m] # s
    BY <1>2 DEF Pending
  <2> QED BY <1>4, <2>1 DEF ServicesApart
<1>7. CASE Len(pending) < ReplicaFactor /\ pendingServices' = pending /\ reqs' = reqs
  <2>1. AllRings' = AllRings
    BY <1>1, <1>7 DEF AllRings, Requested
  <2>2. Pending' \subseteq Pending \cup {s}
    BY <1>5, <1>7 DEF Pending
  <2>3. Pending' \subseteq treeServices'
    BY <1>1, <1>2, <2>2 DEF ServicesApart
  <2>4. ASSUME NEW u \in Workers, Adding(u)' PROVE call'[u].arg \in treeServices' \ Pending'
    <3>1. u # t /\ Adding(u) /\ call'[u].arg = call[u].arg
      BY <1>3, <2>4
    <3>2. call[u].arg \in treeServices \ Pending /\ call[u].arg # s
      BY <1>2, <3>1 DEF ServicesApart
    <3> QED BY <1>1, <2>2, <3>1, <3>2
  <2>5. \A u, w \in Workers : Adding(u)' /\ Adding(w)' /\ call'[u].arg = call'[w].arg => u = w
    BY <1>3 DEF ServicesApart
  <2>6. ASSUME NEW r \in AllRings'
        PROVE  /\ Len(r.memberIds) = ReplicaFactor /\ Cardinality(Members(r)) = ReplicaFactor
               /\ Members(r) \subseteq treeServices' \ Pending'
               /\ \A u \in Workers : Adding(u)' => call'[u].arg \notin Members(r)
    <3>1. /\ Len(r.memberIds) = ReplicaFactor /\ Cardinality(Members(r)) = ReplicaFactor
          /\ Members(r) \subseteq treeServices \ Pending
          /\ \A u \in Workers : Adding(u) => call[u].arg \notin Members(r)
      BY <2>1 DEF ServicesApart
    <3>2. s \notin Members(r)
      BY <1>2, <3>1
    <3>3. Members(r) \subseteq treeServices' \ Pending'
      BY <1>1, <2>2, <3>1, <3>2
    <3>4. \A u \in Workers : Adding(u)' => call'[u].arg \notin Members(r)
      BY <1>3, <3>1
    <3> QED BY <3>1, <3>3, <3>4
  <2>7. \A r, p \in AllRings' : r # p => r.id # p.id /\ Members(r) \cap Members(p) = {}
    BY <2>1 DEF ServicesApart
  <2> QED BY <1>6, <1>7, <2>3, <2>4, <2>5, <2>6, <2>7 DEF ServicesApart
<1>8. CASE Len(pending) >= ReplicaFactor /\ pendingServices' = <<>> /\ reqs' = Append(reqs, q)
  <2>1. /\ Len(pendingServices') = 0 /\ Pending' = {}
    BY <1>8 DEF Pending
  <2>2. Len(pending) = ReplicaFactor
    BY <1>4, <1>8, ReplicaAssumption DEF ServicesApart
  <2>3. ring.id = nextAddRingId /\ ring.memberIds = pending /\ q.kind = "ring" /\ q.node = ring
    OBVIOUS
  <2> HIDE DEF ring, q
  <2>4. Members(ring) = {pending[i] : i \in 1 .. Len(pending)}
    <3>1. DOMAIN pending = 1 .. Len(pending)
      BY <1>4, LenProperties
    <3> QED BY <2>3, <3>1 DEF Members
  <2>5. Members(ring) \subseteq Pending \cup {s} /\ Cardinality(Members(ring)) = ReplicaFactor
    <3>1. Cardinality({pending[i] : i \in 1 .. Len(pending)}) = Len(pending)
      BY <1>4, <1>6, DistinctMembers
    <3> QED BY <1>5, <2>2, <2>4, <3>1
  <2>6. \A r \in AllRings' : r \in AllRings \/ r = ring
    BY <1>1, <1>8, <2>3, AllGrow
  <2>7. ASSUME NEW r \in AllRings PROVE r.id # ring.id /\ Members(r) \cap Members(ring) = {}
    <3>1. Members(r) \subseteq treeServices \ Pending /\ s \notin Members(r)
      BY <1>2 DEF ServicesApart
    <3>2. r.id < nextAddRingId
      <4>1. CASE r \in treeRings
        <5>1. sphere
          BY <1>1, InSphere
        <5> QED BY <4>1, <5>1 DEF NewIds
      <4>2. CASE r \in Requested("ring")
        <5>1. PICK i \in 1 .. Len(reqs) : reqs[i].kind = "ring" /\ r = reqs[i].node
          BY <4>2 DEF Requested
        <5> QED BY <5>1, ReqsInOrder
      <4> QED BY <4>1, <4>2 DEF AllRings
    <3>3. r.id # nextAddRingId
      <4>1. nextAddRingId \in Nat
        BY DEF TypeOK
      <4> QED BY <3>2, <4>1
    <3> QED BY <2>3, <2>5, <3>1, <3>3
  <2>8. \A r, p \in AllRings' : r # p => r.id # p.id /\ Members(r) \cap Members(p) = {}
    <3> SUFFICES ASSUME NEW r \in AllRings', NEW p \in AllRings', r # p
                 PROVE  r.id # p.id /\ Members(r) \cap Members(p) = {}
      OBVIOUS
    <3>1. CASE r \in AllRings /\ p \in AllRings
      BY <3>1 DEF ServicesApart
    <3>2. CASE r = ring /\ p \in AllRings
      BY <2>7, <3>2
    <3>3. CASE p = ring /\ r \in AllRings
      BY <2>7, <3>3
    <3> QED BY <2>6, <3>1, <3>2, <3>3
  <2>9. ASSUME NEW u \in Workers, Adding(u)'
        PROVE  /\ Adding(u) /\ u # t /\ call'[u].arg = call[u].arg
               /\ call[u].arg \in treeServices \ Pending /\ call[u].arg # s
    BY <1>2, <1>3, <2>9 DEF ServicesApart
  <2>10. ASSUME NEW r \in AllRings'
         PROVE  /\ Len(r.memberIds) = ReplicaFactor /\ Cardinality(Members(r)) = ReplicaFactor
                /\ Members(r) \subseteq treeServices' \ Pending'
                /\ \A u \in Workers : Adding(u)' => call'[u].arg \notin Members(r)
    <3>1. CASE r \in AllRings
      <4>1. /\ Len(r.memberIds) = ReplicaFactor /\ Cardinality(Members(r)) = ReplicaFactor
            /\ Members(r) \subseteq treeServices
            /\ \A u \in Workers : Adding(u) => call[u].arg \notin Members(r)
        BY <3>1 DEF ServicesApart
      <4> QED BY <1>1, <2>1, <2>9, <4>1
    <3>2. CASE r = ring
      <4>1. Members(r) \subseteq treeServices
        BY <1>2, <2>5, <3>2 DEF ServicesApart
      <4> QED BY <1>1, <2>1, <2>2, <2>3, <2>5, <2>9, <3>2, <4>1
    <3> QED BY <2>6, <3>1, <3>2
  <2>11. \A u \in Workers : Adding(u)' => call'[u].arg \in treeServices' \ Pending'
    BY <1>1, <2>1, <2>9
  <2>12. \A u, w \in Workers : Adding(u)' /\ Adding(w)' /\ call'[u].arg = call'[w].arg => u = w
    BY <2>9 DEF ServicesApart
  <2>13. /\ Len(pendingServices') < ReplicaFactor /\ Pending' \subseteq treeServices'
         /\ \A i, j \in 1 .. Len(pendingServices') : pendingServices'[i] = pendingServices'[j] => i = j
    BY <2>1, ReplicaAssumption
  <2> QED BY <2>8, <2>10, <2>11, <2>12, <2>13 DEF ServicesApart
<1> QED
  BY <1>1, <1>7, <1>8

(* Every step keeps the services apart. *)
LEMMA NextApart ==
  ASSUME TypeOK, EbServices, SphereOnce, RingsInOrder, NewIds, ServicesApart, [Next]_vars
  PROVE  ServicesApart'
<1>1. treeServices \subseteq treeServices'
  BY TreeGrows
<1>2. ASSUME \A t \in Workers : \/ call'[t] = call[t] \/ call'[t] = Idle
                                \/ call'[t].at \in {"create", "lost"} \/ call'[t].op = "addVolume",
             pendingServices' = pendingServices \/ pendingServices' = <<>>,
             AllRings' \subseteq AllRings
      PROVE  ServicesApart'
  <2>1. ASSUME NEW t \in Workers, Adding(t)' PROVE Adding(t) /\ call'[t].arg = call[t].arg
    BY <1>2, <2>1, IdleCall DEF Adding
  <2> QED BY <1>1, <1>2, <2>1, ApartShrinks
<1>3. (\E t \in Workers : addServiceInEb(t) \/ addResource(t)) \/ AllRings' \subseteq AllRings
  BY NextAll
<1>4. ASSUME NEW t \in Workers, CreateFailed(t) \/ DataSphereAdded(t) PROVE ServicesApart'
  <2>1. call' = [call EXCEPT ![t] = Idle] /\ UNCHANGED <<treeRings, reqs>>
    BY <1>4 DEF CreateFailed, DataSphereAdded, tree
  <2>2. pendingServices' = pendingServices
    BY <1>4, SphereAddedFrame DEF CreateFailed, tables
  <2>3. \A u \in Workers : call'[u] = call[u] \/ call'[u] = Idle
    BY <2>1 DEF TypeOK
  <2>4. AllRings' \subseteq AllRings
    BY <2>1 DEF AllRings, Requested
  <2> QED BY <1>2, <2>2, <2>3, <2>4
<1>5. ASSUME NEW t \in Workers, ServiceAdded(t) PROVE ServicesApart'
  <2>1. /\ Adding(t) /\ UNCHANGED <<pendingServices, treeRings, reqs>>
    BY <1>5 DEF ServiceAdded, Adding, tree
  <2>2. /\ call'[t] = Idle \/ call'[t].arg = call[t].arg
        /\ \A u \in Workers \ {t} : call'[u] = call[u]
    BY <1>5, EbCall
  <2>3. \A u \in Workers : Adding(u)' => Adding(u) /\ call'[u].arg = call[u].arg
    BY <2>1, <2>2, IdleCall DEF Adding
  <2>4. AllRings' \subseteq AllRings
    BY <2>1 DEF AllRings, Requested
  <2> QED BY <1>1, <2>1, <2>3, <2>4, ApartShrinks
<1>6. ASSUME NEW t \in Workers, addResource(t) PROVE ServicesApart'
  <2> DEFINE volume == [id |-> nextResourceId, name |-> call[t].arg,
                        ringId |-> nextResourceId % Cardinality(rings)]
             q == [kind |-> "volume", node |-> volume, by |-> t]
  <2>1. /\ reqs' = reqs \/ reqs' = Append(reqs, q)
        /\ call[t].op = "addVolume" /\ UNCHANGED <<pendingServices, treeRings, treeVolumes>>
    BY <1>6, VolumeRequested
  <2>2. q.kind = "volume"
    OBVIOUS
  <2> HIDE DEF q
  <2>3. AllRings' \subseteq AllRings
    <3>1. CASE reqs' = reqs
      BY <2>1, <3>1 DEF AllRings, Requested
    <3>2. CASE reqs' = Append(reqs, q)
      BY <2>1, <2>2, <3>2, AllGrow
    <3> QED BY <2>1, <3>1, <3>2
  <2>4. \A u \in Workers : call'[u] = call[u] \/ call'[u] = Idle \/ call'[u].op = "addVolume"
    BY <1>6, <2>1, EbCall
  <2> QED BY <1>2, <2>1, <2>3, <2>4
<1>7. ASSUME NEW t \in Workers, WorkerStep(t) PROVE ServicesApart'
  BY <1>4, <1>5, <1>6, <1>7, ApartMade, ApartJoined DEF WorkerStep
<1>8. ASSUME NEW t \in Workers, NEW c, c.at = "create" \/ c.op = "addVolume", Begin(t, c)
      PROVE  ServicesApart'
  <2>1. call' = [call EXCEPT ![t] = c] /\ UNCHANGED <<pendingServices, treeRings, reqs>>
    BY <1>8 DEF Begin, tree, tables
  <2>2. \A u \in Workers : call'[u] = call[u] \/ call'[u].at = "create" \/ call'[u].op = "addVolume"
    BY <1>8, <2>1 DEF TypeOK
  <2>3. AllRings' \subseteq AllRings
    BY <2>1 DEF AllRings, Requested
  <2> QED BY <1>2, <2>1, <2>2, <2>3
<1>9. ASSUME NEW t \in Workers,
             addDataSphere(t) \/ (\E s \in Services : addService(t, s)) \/ \E m \in Names : addVolume(t, m)
      PROVE  ServicesApart'
  <2>1. CASE addDataSphere(t)
    BY <1>8, <2>1 DEF addDataSphere
  <2>2. CASE \E s \in Services : addService(t, s)
    BY <1>8, <2>2 DEF addService
  <2>3. CASE \E m \in Names : addVolume(t, m)
    BY <1>8, <2>3 DEF addVolume
  <2> QED BY <1>9, <2>1, <2>2, <2>3
<1>10. ASSUME RingAdded \/ ResourceAdded \/ ResourceFailed PROVE ServicesApart'
  <2>1. PICK kind, rcs : Continue(kind, rcs)
    BY <1>10 DEF RingAdded, ResourceAdded, ResourceFailed
  <2>2. UNCHANGED <<pendingServices, treeRings, reqs>>
    BY <1>10 DEF RingAdded, ResourceAdded, ResourceFailed, tree, tables
  <2>3. \A u \in Workers : call'[u] = call[u] \/ call'[u] = Idle
    BY <2>1, HeadCont DEF TypeOK
  <2>4. AllRings' \subseteq AllRings
    BY <2>2 DEF AllRings, Requested
  <2> QED BY <1>2, <2>2, <2>3, <2>4
<1>11. ASSUME NEW n \in 0 .. Len(reqs), NEW T \in SUBSET Creating, LoseConnection(n, T)
       PROVE  ServicesApart'
  <2>1. CreateNodes(n) /\ reqs' = <<>> /\ UNCHANGED pendingServices
    BY <1>11 DEF LoseConnection, tables
  <2>2. AllRings' \subseteq AllRings
    <3>1. \A i \in 1 .. Len(reqs') : FALSE
      BY <2>1
    <3> QED BY <2>1, <3>1, AllShrink
  <2>3. \A t \in Workers : call'[t] = call[t] \/ call'[t].at = "lost"
    BY <1>11, LostCall
  <2> QED BY <1>2, <2>1, <2>2, <2>3
<1>12. ASSUME RingFailed \/ Crash PROVE ServicesApart'
  <2>1. PICK n \in 0 .. Len(reqs) : CreateNodes(n)
    BY <1>12, EndProcessFrame
  <2>2. reqs' = <<>> /\ pendingServices' = <<>> /\ \A t \in Workers : call'[t] = Idle
    BY <1>12, EndProcessFrame
  <2>3. AllRings' \subseteq AllRings
    <3>1. \A i \in 1 .. Len(reqs') : FALSE
      BY <2>2
    <3> QED BY <2>1, <3>1, AllShrink
  <2> QED BY <1>2, <2>2, <2>3
<1>13. ASSUME ServeCreate PROVE ServicesApart'
  <2>1. /\ CreateNodes(1) /\ 1 \in 0 .. Len(reqs) /\ UNCHANGED <<pendingServices, call>>
        /\ \A i \in 1 .. Len(reqs') : \E j \in 1 .. Len(reqs) : reqs'[i] = reqs[j]
    BY <1>13, HeadReq DEF ServeCreate, tables
  <2>2. AllRings' \subseteq AllRings
    BY <2>1, AllShrink
  <2> QED BY <1>2, <2>1, <2>2
<1>14. ASSUME CreateRingsRoot \/ UNCHANGED vars \/ \E s \in Started : ServerStep(s)
       PROVE  ServicesApart'
  <2>1. UNCHANGED <<pendingServices, call, treeRings, reqs>>
    BY <1>14, ServerFrame DEF CreateRingsRoot, vars, tree, tables
  <2>2. AllRings' \subseteq AllRings
    BY <2>1 DEF AllRings, Requested
  <2> QED BY <1>2, <2>1, <2>2
<1> QED
  BY <1>7, <1>9, <1>10, <1>11, <1>12, <1>13, <1>14 DEF Next, EbStep

(* A volume is requested for a ring in memory, which is in the tree. *)
LEMMA NextPlaced ==
  ASSUME TypeOK, RingsInOrder, TreeFirst, VolumesPlaced, [Next]_vars
  PROVE  VolumesPlaced'
<1>1. ASSUME NEW id, HasId(treeRings, id) PROVE HasId(treeRings', id)
  BY <1>1, TreeGrows DEF HasId
<1>2. ASSUME AllVolumes' \subseteq AllVolumes PROVE VolumesPlaced'
  BY <1>1, <1>2 DEF VolumesPlaced
<1>3. ASSUME NEW t \in Workers, addServiceInEb(t) PROVE VolumesPlaced'
  <2> DEFINE ring == [id |-> nextAddRingId, memberIds |-> Append(pendingServices, call[t].arg)]
             q == [kind |-> "ring", node |-> ring, by |-> t]
  <2>1. /\ reqs' = reqs \/ reqs' = Append(reqs, q)
        /\ UNCHANGED <<treeRings, treeVolumes>>
    BY <1>3, RingRequested
  <2>2. q.kind = "ring"
    OBVIOUS
  <2> HIDE DEF q
  <2>3. CASE reqs' = reqs
    BY <1>2, <2>1, <2>3 DEF AllVolumes, Requested
  <2>4. CASE reqs' = Append(reqs, q)
    BY <1>2, <2>1, <2>2, <2>4, AllGrow
  <2> QED BY <2>1, <2>3, <2>4
<1>4. ASSUME NEW t \in Workers, addResource(t) PROVE VolumesPlaced'
  <2> DEFINE k == Cardinality(rings)
             volume == [id |-> nextResourceId, name |-> call[t].arg, ringId |-> nextResourceId % k]
             q == [kind |-> "volume", node |-> volume, by |-> t]
  <2>1. /\ reqs' = reqs \/ (rings # {} /\ reqs' = Append(reqs, q))
        /\ call[t].op = "addVolume" /\ UNCHANGED <<treeRings, treeVolumes>>
    BY <1>4, VolumeRequested
  <2>2. CASE reqs' = reqs
    BY <1>2, <2>1, <2>2 DEF AllVolumes, Requested
  <2>3. CASE rings # {} /\ reqs' = Append(reqs, q)
    <3>1. nextResourceId % k \in 0 .. (k - 1)
      BY <2>1, <2>3, VolumeType DEF RingsInOrder
    <3>2. HasId(rings, nextResourceId % k)
      BY <3>1 DEF RingsInOrder
    <3>3. HasId(treeRings, nextResourceId % k)
      BY <3>2 DEF HasId, TreeFirst
    <3>4. q.node.ringId = nextResourceId % k
      OBVIOUS
    <3> HIDE DEF q, k
    <3>5. ASSUME NEW v \in AllVolumes' PROVE v \in AllVolumes \/ v = q.node
      BY <2>1, <2>3, AllGrow
    <3>6. ASSUME NEW v \in AllVolumes' PROVE HasId(treeRings', v.ringId)
      BY <1>1, <3>3, <3>4, <3>5 DEF VolumesPlaced
    <3> QED BY <3>6 DEF VolumesPlaced
  <2> QED BY <2>1, <2>2, <2>3
<1> QED
  BY <1>2, <1>3, <1>4, NextAll

-----------------------------------------------------------------------------
(* The theorems. *)

(* The first state. *)
LEMMA InitInv == Init => Inv
<1> SUFFICES ASSUME Init PROVE Inv
  OBVIOUS
<1>1. /\ call \in [Workers -> Calls] /\ \A t \in Workers : call[t].op = "none"
  BY IdleCall DEF Init
<1>2. TypeOK
  <2>1. topic \in Seq(Volumes) /\ pendingServices \in Seq(VolumeServers) /\ reqs \in Seq(Requests)
        /\ conts \in Seq(Results)
    BY DEF Init
  <2>2. /\ server \in [Started -> {"down", "rings", "resources", "subscribe", "up", "aborted"}]
        /\ ringTable \in [Started -> SUBSET Rings] /\ resourceTable \in [Started -> SUBSET Nat]
    BY DEF Init
  <2>3. offset \in [Started -> Nat] /\ committed \in [Started -> Nat \cup {-1}]
    BY DEF Init
  <2>4. {calls, crashes, losses} \subseteq Nat /\ nextAddRingId \in Nat /\ nextResourceId \in Nat
    BY DEF Init
  <2>5. /\ treeSphere \in BOOLEAN /\ ringsRoot \in BOOLEAN /\ sphere \in BOOLEAN
        /\ treeServices = {} /\ serviceCache = {} /\ treeRings = {} /\ rings = {}
        /\ treeVolumes = {} /\ resources = {} /\ erased = {}
    BY DEF Init
  <2> QED BY <1>1, <2>1, <2>2, <2>3, <2>4, <2>5 DEF TypeOK
<1>3. EbServices
  BY <1>1 DEF EbServices
<1>4. Len(reqs) = 0 /\ Len(conts) = 0 /\ Len(pendingServices) = 0 /\ topic = <<>>
  BY DEF Init
<1>5. SphereOnce
  BY <1>1 DEF Init, SphereOnce, SphereMade
<1>6. RingsInOrder
  <2>1. IsFiniteSet(rings) /\ Cardinality(rings) = 0
    BY FS_EmptySet DEF Init
  <2> QED BY <1>4, <2>1 DEF RingsInOrder, InOrder, HasId, Init
<1>7. NewIds /\ AnswersTrue /\ TreeFirst
  BY <1>4 DEF NewIds, AnswersTrue, TreeFirst, Init
<1>8. AllRings = {} /\ AllVolumes = {} /\ Pending = {} /\ \A t \in Workers : ~Adding(t)
  BY <1>1, <1>4 DEF AllRings, AllVolumes, Requested, Pending, Adding, Init
<1>9. ServicesApart
  BY <1>4, <1>8, ReplicaAssumption DEF ServicesApart
<1>10. VolumesPlaced /\ RingsRead /\ ReplicasOwned
  BY <1>8 DEF VolumesPlaced, RingsRead, ReplicasOwned, Init
<1> QED
  BY <1>2, <1>3, <1>5, <1>6, <1>7, <1>9, <1>10 DEF Inv

(* Every reachable state satisfies the inductive invariant: the sphere is added once, so
   the counters of ids that restart from 0 in memory never meet an older tree. *)
THEOREM InvCorrect == Spec => []Inv
<1>1. Inv /\ [Next]_vars => Inv'
  <2> SUFFICES ASSUME Inv, [Next]_vars PROVE Inv'
    OBVIOUS
  <2>1. /\ TypeOK /\ EbServices /\ SphereOnce /\ RingsInOrder /\ NewIds /\ AnswersTrue
        /\ TreeFirst /\ ServicesApart /\ VolumesPlaced /\ RingsRead /\ ReplicasOwned
    BY DEF Inv
  <2>2. IsFiniteSet(rings)
    BY <2>1 DEF RingsInOrder
  <2>3. TypeOK' /\ EbServices'
    BY <2>1, <2>2, NextType
  <2>4. SphereOnce'
    BY <2>1, NextSphere
  <2>5. RingsInOrder'
    BY <2>1, <2>3, NextRings
  <2>6. NewIds'
    BY <2>1, NextNewIds
  <2>7. AnswersTrue'
    BY <2>1, NextAnswers
  <2>8. TreeFirst'
    BY <2>1, NextTreeFirst
  <2>9. ServicesApart'
    BY <2>1, NextApart
  <2>10. VolumesPlaced'
    BY <2>1, NextPlaced
  <2>11. RingsRead' /\ ReplicasOwned'
    BY <2>1, NextRingsRead, NextReplicas
  <2> QED BY <2>3, <2>4, <2>5, <2>6, <2>7, <2>8, <2>9, <2>10, <2>11 DEF Inv
<1> QED
  BY InitInv, <1>1, PTL DEF Spec

(* Every variable keeps its type, for every instance of ConfigTree. *)
THEOREM TypeCorrect == Spec => []TypeOK
<1>1. Inv => TypeOK
  BY DEF Inv
<1> QED BY InvCorrect, <1>1, PTL

(* Rings partition the volume servers that are in one (DatasphereConfigMgr::addService,
   PBResourceSphereConfigMgr::addService). *)
THEOREM RingsCorrect == Spec => []RingsWellFormed
<1>1. Inv => RingsWellFormed
  <2> SUFFICES ASSUME Inv PROVE RingsWellFormed
    OBVIOUS
  <2>1. ServicesApart /\ pendingServices \in Seq(VolumeServers)
    BY DEF Inv, TypeOK
  <2>2. treeRings \subseteq AllRings /\ DOMAIN pendingServices = 1 .. Len(pendingServices)
    BY <2>1, LenProperties DEF AllRings
  <2>3. ASSUME NEW r \in treeRings
        PROVE  /\ Len(r.memberIds) = ReplicaFactor /\ Cardinality(Members(r)) = ReplicaFactor
               /\ Members(r) \subseteq treeServices
               /\ \A i \in DOMAIN pendingServices : pendingServices[i] \notin Members(r)
    <3>1. /\ Len(r.memberIds) = ReplicaFactor /\ Cardinality(Members(r)) = ReplicaFactor
          /\ Members(r) \subseteq treeServices \ Pending
      BY <2>1, <2>2 DEF ServicesApart
    <3>2. \A i \in DOMAIN pendingServices : pendingServices[i] \in Pending
      BY <2>2 DEF Pending
    <3> QED BY <3>1, <3>2
  <2>4. /\ \A r, q \in treeRings : r # q => r.id # q.id /\ Members(r) \cap Members(q) = {}
        /\ Len(pendingServices) < ReplicaFactor
    BY <2>1, <2>2 DEF ServicesApart
  <2> QED BY <2>3, <2>4 DEF RingsWellFormed
<1> QED BY InvCorrect, <1>1, PTL

(* Every volume of the tree is on a ring of the tree (PBResourceSphereConfigMgr::addResource). *)
THEOREM PlacementCorrect == Spec => []VolumesOnRings
<1>1. Inv => VolumesOnRings
  BY DEF Inv, VolumesPlaced, AllVolumes, VolumesOnRings
<1> QED BY InvCorrect, <1>1, PTL

(* Tables and topic are written after the tree (the continuations of the creates). *)
THEOREM TreeFirstCorrect == Spec => []TreeFirst
<1>1. Inv => TreeFirst
  BY DEF Inv
<1> QED BY InvCorrect, <1>1, PTL

(* No create of a ring or a volume meets an id that is taken, across every restart
   (addDataSphere rejects the sphere then). *)
THEOREM IdsCorrect == Spec => []IdsFresh
<1>1. Inv => IdsFresh
  <2> SUFFICES ASSUME Inv PROVE IdsFresh
    OBVIOUS
  <2>1. AnswersTrue /\ DOMAIN conts = 1 .. Len(conts)
    BY LenProperties DEF Inv, TypeOK
  <2> QED BY <2>1 DEF AnswersTrue, IdsFresh
<1> QED BY InvCorrect, <1>1, PTL

(* A server has replicas only of volumes it owns (addResourceReplicaIfOwned_). *)
THEOREM ReplicasCorrect == Spec => []ReplicasOwned
<1>1. Inv => ReplicasOwned
  BY DEF Inv
<1> QED BY InvCorrect, <1>1, PTL
=============================================================================
