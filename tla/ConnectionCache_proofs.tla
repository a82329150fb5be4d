----------------------- MODULE ConnectionCache_proofs -----------------------
(***************************************************************************)
(* Proofs about ConnectionCache, for any callers, addresses and number of  *)
(* starts of the service, with and without faults.                         *)
(***************************************************************************)
EXTENDS ConnectionCache, SequenceTheorems, TLAPS

-----------------------------------------------------------------------------
(* The inductive invariant. *)

(* Every start of the service sets its node once: a start that has not come to it
   finds a version below its own number. *)
VersionsFollowStarts ==
  /\ svc.at # "down" => svc.start > 0
  /\ node.version <= svc.start
  /\ svc.at \in {"init", "member"} => node.version < svc.start

(* What is announced, fetched or given to the event base is a ServiceInfo that was
   written: only the info of a node that does not exist has version -1. *)
Written(a)      == a.rc = "ok" => a.info.version >= 0
TasksWritten(p) == \A i \in 1 .. Len(p) : p[i].op = "update" => p[i].info.version >= 0

InfosWritten ==
  /\ svc.at = "set" => svc.version >= 0
  /\ \A i \in 1 .. Len(topic) : topic[i].version >= 0
  /\ \A i \in 1 .. Len(answers) : Written(answers[i])
  /\ \A a \in early : Written(a)
  /\ \A q \in Queues : TasksWritten(tasks[q])

Inv == TypeOK /\ VersionsFollowStarts /\ InfosWritten

-----------------------------------------------------------------------------
(* Types. *)

(* The two kinds of task, told apart by op. *)
LEMMA TaskKinds ==
  ASSUME NEW t \in Tasks
  PROVE  /\ t.op = "update" => t.info \in Infos /\ t.by \in Callers \cup {Nobody}
         /\ t.op = "getChannel" => t.by \in Callers
         /\ t.op \in {"update", "getChannel"}
BY DEF Tasks

(* Initially the service is down, the cache empty and nobody calls. *)
LEMMA InitInv == Init => Inv
<1> SUFFICES ASSUME Init PROVE Inv
  OBVIOUS
<1>1. PICK a \in Addrs :
        /\ node = [version |-> -1, addr |-> a]
        /\ svc = [at |-> "down", addr |-> a, start |-> 0, version |-> -1]
  BY DEF Init
<1>2. MaxStarts \in Nat
  BY CacheAssumption
<1>3. TypeOK
  <2>1. node \in Infos
    BY <1>1, <1>2 DEF Infos
  <2>2. svc \in [at : {"down", "init", "member", "set", "ready", "up"}, addr : Addrs,
                start : 0 .. MaxStarts, version : -1 .. MaxStarts]
    BY <1>1, <1>2
  <2>3. topic \in Seq(Infos) /\ gets \in Seq(Callers) /\ tasks \in [Queues -> Seq(Tasks)]
    BY EmptySeq DEF Init
  <2>4. answers \in Seq(Answers)
    BY EmptySeq DEF Init
  <2> QED
    BY <2>1, <2>2, <2>3, <2>4 DEF Init, TypeOK, Channels, CallStates
<1> QED
  BY <1>1, <1>3 DEF Init, Inv, VersionsFollowStarts, InfosWritten, TasksWritten

(* The steps of the service change its node, its process and the topic only. *)
LEMMA ServiceInv ==
  ASSUME Inv,
         \/ addService
         \/ \E a \in Addrs : StartService(a)
         \/ ensureDatasphereMembership_
         \/ SetServiceInfo
         \/ publishServiceInfomation_
         \/ run
         \/ shutdown
  PROVE  Inv'
<1>1. MaxStarts \in Nat
  BY CacheAssumption
<1>2. /\ node \in Infos /\ node.version \in -1 .. MaxStarts /\ node.addr \in Addrs
      /\ svc.addr \in Addrs /\ svc.start \in 0 .. MaxStarts /\ svc.version \in -1 .. MaxStarts
      /\ topic \in Seq(Infos)
  BY DEF Inv, TypeOK, Infos
<1>3. UNCHANGED <<gets, answers, early, cached, channel, tasks, call>>
  BY DEF addService, StartService, ensureDatasphereMembership_, SetServiceInfo,
         publishServiceInfomation_, run, shutdown, fetches, cache
<1>4. node' \in Infos /\ VersionsFollowStarts'
  <2>1. CASE addService
    <3>1. node' = [node EXCEPT !.version = 0] /\ svc' = svc
      BY <2>1 DEF addService
    <3>2. node' \in Infos /\ node'.version = 0
      BY <1>1, <1>2, <3>1 DEF Infos
    <3> QED
      BY <1>2, <3>1, <3>2 DEF Inv, VersionsFollowStarts
  <2>2. CASE \E a \in Addrs : StartService(a)
    BY <1>1, <1>2, <2>2 DEF StartService, Inv, TypeOK, VersionsFollowStarts
  <2>3. CASE ensureDatasphereMembership_
    BY <1>1, <1>2, <2>3 DEF ensureDatasphereMembership_, Inv, TypeOK, VersionsFollowStarts
  <2>4. CASE SetServiceInfo
    <3>1. svc.at = "member" /\ node.version + 1 <= svc.start
      BY <1>2, <2>4 DEF SetServiceInfo, Inv, VersionsFollowStarts
    <3>2. [version |-> node.version + 1, addr |-> svc.addr] \in Infos
      BY <1>1, <1>2, <3>1 DEF Infos
    <3>3. node' = node \/ node' = [version |-> node.version + 1, addr |-> svc.addr]
      BY <2>4 DEF SetServiceInfo
    <3>4. svc'.start = svc.start /\ svc'.at \in {"set", "down"}
      BY <2>4 DEF SetServiceInfo, Inv, TypeOK
    <3> QED
      BY <1>2, <3>1, <3>2, <3>3, <3>4 DEF Inv, VersionsFollowStarts
  <2>5. CASE publishServiceInfomation_ \/ run \/ shutdown
    BY <1>1, <1>2, <2>5
       DEF publishServiceInfomation_, run, shutdown, Inv, TypeOK, VersionsFollowStarts
  <2> QED
    BY <2>1, <2>2, <2>3, <2>4, <2>5
<1>5. /\ svc' \in [at : {"down", "init", "member", "set", "ready", "up"}, addr : Addrs,
                   start : 0 .. MaxStarts, version : -1 .. MaxStarts]
      /\ svc'.at = "set" => svc'.version >= 0
  <2>1. CASE addService \/ (\E a \in Addrs : StartService(a)) \/ ensureDatasphereMembership_
    <3>1. /\ svc \in [at : {"down", "init", "member", "set", "ready", "up"}, addr : Addrs,
                     start : 0 .. MaxStarts, version : -1 .. MaxStarts]
          /\ svc.at = "set" => svc.version >= 0
      BY DEF Inv, TypeOK, InfosWritten
    <3> QED
      BY <1>1, <1>2, <2>1, <3>1 DEF addService, StartService, ensureDatasphereMembership_
  <2>2. CASE SetServiceInfo
    <3> DEFINE v == node.version + 1
    <3>1. v \in -1 .. MaxStarts /\ v >= 0
      BY <1>1, <1>2, <2>2 DEF SetServiceInfo, Inv, VersionsFollowStarts
    <3>2. \/ svc' = [svc EXCEPT !.at = "set", !.version = v]
          \/ svc' = [svc EXCEPT !.at = "down"]
      BY <2>2 DEF SetServiceInfo
    <3>3. svc \in [at : {"down", "init", "member", "set", "ready", "up"}, addr : Addrs,
                  start : 0 .. MaxStarts, version : -1 .. MaxStarts]
      BY DEF Inv, TypeOK
    <3> HIDE DEF v
    <3> QED
      BY <3>1, <3>2, <3>3
  <2>3. CASE publishServiceInfomation_ \/ run \/ shutdown
    BY <1>1, <1>2, <2>3 DEF publishServiceInfomation_, run, shutdown, Inv, TypeOK
  <2> QED
    BY <2>1, <2>2, <2>3
<1>6. topic' \in Seq(Infos) /\ \A i \in 1 .. Len(topic') : topic'[i].version >= 0
  <2>1. CASE topic' = topic
    BY <2>1 DEF Inv, TypeOK, InfosWritten
  <2>2. CASE publishServiceInfomation_ /\ topic' # topic
    <3> DEFINE info == [version |-> svc.version, addr |-> svc.addr]
    <3>1. topic' = Append(topic, info) /\ svc.at = "set"
      BY <2>2 DEF publishServiceInfomation_
    <3>2. info \in Infos /\ info.version >= 0
      BY <1>2, <3>1 DEF Inv, InfosWritten, Infos
    <3> HIDE DEF info
    <3>3. /\ Append(topic, info) \in Seq(Infos)
          /\ Len(Append(topic, info)) = Len(topic) + 1 /\ Len(topic) \in Nat
          /\ \A i \in 1 .. Len(topic) : Append(topic, info)[i] = topic[i]
          /\ Append(topic, info)[Len(topic) + 1] = info
      BY <1>2, <3>2, AppendProperties, LenProperties
    <3>4. \A i \in 1 .. Len(topic) + 1 : i \in 1 .. Len(topic) \/ i = Len(topic) + 1
      BY <3>3
    <3> QED
      BY <3>1, <3>2, <3>3, <3>4 DEF Inv, InfosWritten
  <2> QED
    BY <2>1, <2>2
       DEF addService, StartService, ensureDatasphereMembership_, SetServiceInfo, run, shutdown
<1> QED
  BY <1>3, <1>4, <1>5, <1>6 DEF Inv, TypeOK, InfosWritten

-----------------------------------------------------------------------------
(* A task at the end of one of the event base's queues. *)
LEMMA TaskGiven ==
  ASSUME Inv, NEW q \in Queues, NEW t \in Tasks, t.op = "update" => t.info.version >= 0,
         via(q, t)
  PROVE  /\ tasks' \in [Queues -> Seq(Tasks)]
         /\ \A r \in Queues : TasksWritten(tasks'[r])
<1>1. tasks \in [Queues -> Seq(Tasks)]
  BY DEF Inv, TypeOK
<1>2. tasks' = [tasks EXCEPT ![q] = Append(tasks[q], t)]
  BY DEF via
<1> DEFINE p == tasks[q]
<1>3. p \in Seq(Tasks) /\ TasksWritten(p)
  BY <1>1 DEF Inv, InfosWritten
<1> HIDE DEF p
<1>4. /\ Append(p, t) \in Seq(Tasks)
      /\ Len(Append(p, t)) = Len(p) + 1 /\ Len(p) \in Nat
      /\ \A i \in 1 .. Len(p) : Append(p, t)[i] = p[i]
      /\ Append(p, t)[Len(p) + 1] = t
  BY <1>3, AppendProperties, LenProperties
<1>5. \A i \in 1 .. Len(p) + 1 : i \in 1 .. Len(p) \/ i = Len(p) + 1
  BY <1>4
<1>6. TasksWritten(Append(p, t))
  BY <1>3, <1>4, <1>5 DEF TasksWritten
<1>7. \A r \in Queues : tasks'[r] = IF r = q THEN Append(p, t) ELSE tasks[r]
  BY <1>1, <1>2 DEF p
<1>8. tasks' \in [Queues -> Seq(Tasks)]
  BY <1>1, <1>2, <1>4 DEF p
<1> QED
  BY <1>6, <1>7, <1>8 DEF Inv, InfosWritten

(* A task taken from one of the event base's queues. *)
LEMMA TaskTaken ==
  ASSUME Inv, NEW q \in Queues, NEW op, Takes(q, op)
  PROVE  /\ Head(tasks[q]) \in Tasks /\ Head(tasks[q]).op = op
         /\ op = "update" => Head(tasks[q]).info.version >= 0
         /\ tasks' \in [Queues -> Seq(Tasks)]
         /\ \A r \in Queues : TasksWritten(tasks'[r])
<1>1. tasks \in [Queues -> Seq(Tasks)]
  BY DEF Inv, TypeOK
<1>2. tasks[q] # <<>> /\ Head(tasks[q]).op = op /\ tasks' = [tasks EXCEPT ![q] = Tail(tasks[q])]
  BY DEF Takes
<1> DEFINE p == tasks[q]
<1>3. p \in Seq(Tasks) /\ p # <<>> /\ TasksWritten(p)
  BY <1>1, <1>2 DEF Inv, InfosWritten
<1> HIDE DEF p
<1>4. /\ Head(p) \in Tasks /\ Tail(p) \in Seq(Tasks)
      /\ Len(p) \in Nat \ {0} /\ Len(Tail(p)) = Len(p) - 1
      /\ \A i \in 1 .. Len(Tail(p)) : Tail(p)[i] = p[i + 1]
      /\ Head(p) = p[1]
  BY <1>3, HeadTailProperties, EmptySeq
<1>5. 1 \in 1 .. Len(p) /\ \A i \in 1 .. Len(Tail(p)) : i + 1 \in 1 .. Len(p)
  BY <1>4
<1>6. TasksWritten(Tail(p)) /\ (Head(p).op = "update" => Head(p).info.version >= 0)
  BY <1>3, <1>4, <1>5 DEF TasksWritten
<1>7. \A r \in Queues : tasks'[r] = IF r = q THEN Tail(p) ELSE tasks[r]
  BY <1>1, <1>2 DEF p
<1>8. tasks' \in [Queues -> Seq(Tasks)]
  BY <1>1, <1>2, <1>4 DEF p
<1>9. \A r \in Queues : TasksWritten(tasks'[r])
  BY <1>6, <1>7 DEF Inv, InfosWritten
<1> QED
  BY <1>2, <1>4, <1>6, <1>8, <1>9 DEF p

(* A caller's task is one of the event base's. *)
LEMMA CallerTask ==
  ASSUME NEW c \in Callers
  PROVE  /\ [op |-> "getChannel", by |-> c] \in Tasks
         /\ QueueOf(c) \in Queues
BY DEF Tasks, QueueOf, Queues

(* updateConnection_ gives a new item, or the one there is, an update. *)
LEMMA UpdateGiven ==
  ASSUME Inv, NEW info \in Infos, info.version >= 0, NEW createIfMissing,
         NEW by \in Callers \cup {Nobody}, NEW q \in Queues,
         updateConnection_(info, createIfMissing, by, q)
  PROVE  /\ cached' \in BOOLEAN
         /\ tasks' \in [Queues -> Seq(Tasks)]
         /\ \A r \in Queues : TasksWritten(tasks'[r])
<1> DEFINE t == [op |-> "update", info |-> info, by |-> by]
<1>1. t \in Tasks /\ t.op = "update" /\ t.info.version >= 0
  BY DEF Tasks
<1>2. cached' = TRUE /\ via(q, t)
  BY DEF updateConnection_
<1> HIDE DEF t
<1> QED
  BY <1>1, <1>2, TaskGiven

(* The continuation of get, on whichever thread it runs. *)
LEMMA FetchedInv ==
  ASSUME Inv, NEW a \in Answers, Written(a), NEW q \in Queues, Fetched(a, q)
  PROVE  /\ cached' \in BOOLEAN
         /\ tasks' \in [Queues -> Seq(Tasks)]
         /\ \A r \in Queues : TasksWritten(tasks'[r])
         /\ call' \in [Callers -> CallStates]
<1>1. a.by \in Callers /\ a.info \in Infos
  BY DEF Answers
<1>2. \E x \in {"waiting", "exception"} : call' = [call EXCEPT ![a.by] = x]
  BY DEF Fetched
<1>3. call' \in [Callers -> CallStates]
  BY <1>1, <1>2 DEF Inv, TypeOK, CallStates
<1>4. CASE a.rc = "ok" /\ updateConnection_(a.info, TRUE, a.by, q)
  BY <1>1, <1>3, <1>4, UpdateGiven DEF Written
<1>5. CASE UNCHANGED <<cached, tasks>>
  BY <1>3, <1>5 DEF Inv, TypeOK, InfosWritten
<1> QED
  BY <1>4, <1>5 DEF Fetched

(* The calls, the gets and their answers. *)
LEMMA CallersInv ==
  ASSUME Inv,
         \/ \E c \in Callers : getHeaderClientChannel(c) \/ getHeaderClientChannelFromCache(c)
                                 \/ sendKVBMessage(c)
         \/ ServeGet
  PROVE  Inv'
<1>1. UNCHANGED <<node, svc, topic, early, cached, channel>>
  BY DEF getHeaderClientChannel, getHeaderClientChannelFromCache, sendKVBMessage, ServeGet,
         service, cache, fetches
<1>2. /\ tasks' \in [Queues -> Seq(Tasks)]
      /\ \A r \in Queues : TasksWritten(tasks'[r])
  <2>1. CASE tasks' = tasks
    BY <2>1 DEF Inv, TypeOK, InfosWritten
  <2>2. ASSUME NEW c \in Callers, via(QueueOf(c), [op |-> "getChannel", by |-> c])
        PROVE  <1>2!1 /\ <1>2!2
    <3> DEFINE t == [op |-> "getChannel", by |-> c]
    <3>1. t \in Tasks /\ t.op # "update" /\ QueueOf(c) \in Queues
      BY CallerTask
    <3> HIDE DEF t
    <3>2. via(QueueOf(c), t)
      BY <2>2 DEF t
    <3> QED
      BY <3>1, <3>2, TaskGiven
  <2> QED
    BY <2>1, <2>2 DEF getHeaderClientChannel, getHeaderClientChannelFromCache, sendKVBMessage,
                      ServeGet, cache
<1>3. call' \in [Callers -> CallStates]
  <2>1. \/ call' = call
        \/ \E c \in Callers, x \in {"asking", "waiting", "miss", "idle"} :
             call' = [call EXCEPT ![c] = x]
    BY DEF getHeaderClientChannel, getHeaderClientChannelFromCache, sendKVBMessage, ServeGet
  <2> QED
    BY <2>1 DEF Inv, TypeOK, CallStates
<1>4. gets' \in Seq(Callers)
  <2>1. \/ gets' = gets
        \/ \E c \in Callers : gets' = Append(gets, c)
        \/ gets # <<>> /\ gets' = Tail(gets)
    BY DEF getHeaderClientChannel, getHeaderClientChannelFromCache, sendKVBMessage, ServeGet,
           fetches
  <2>2. gets \in Seq(Callers)
    BY DEF Inv, TypeOK
  <2> QED
    BY <2>1, <2>2, AppendProperties, HeadTailProperties
<1>5. /\ answers' \in Seq(Answers)
      /\ \A i \in 1 .. Len(answers') : Written(answers'[i])
  <2>1. CASE answers' = answers
    BY <2>1 DEF Inv, TypeOK, InfosWritten
  <2>2. CASE ServeGet
    <3>1. PICK rc \in {"ok", "nonode", "lost"} :
            /\ answers' = Append(answers, [by |-> Head(gets), rc |-> rc, info |-> node])
            /\ rc = "ok" => node.version # -1
      BY <2>2 DEF ServeGet
    <3> DEFINE a == [by |-> Head(gets), rc |-> rc, info |-> node]
    <3>2. a \in Answers /\ Written(a)
      <4>1. Head(gets) \in Callers /\ node \in Infos
        BY <2>2, HeadTailProperties DEF ServeGet, Inv, TypeOK
      <4>2. rc = "ok" => node.version >= 0
        BY <3>1, <4>1, CacheAssumption DEF Infos
      <4> QED
        BY <3>1, <4>1, <4>2 DEF Answers, Written
    <3> HIDE DEF a
    <3>3. answers \in Seq(Answers) /\ answers' = Append(answers, a)
      BY <3>1 DEF Inv, TypeOK, a
    <3>4. /\ Append(answers, a) \in Seq(Answers)
          /\ Len(Append(answers, a)) = Len(answers) + 1 /\ Len(answers) \in Nat
          /\ \A i \in 1 .. Len(answers) : Append(answers, a)[i] = answers[i]
          /\ Append(answers, a)[Len(answers) + 1] = a
      BY <3>2, <3>3, AppendProperties, LenProperties
    <3>5. \A i \in 1 .. Len(answers) + 1 : i \in 1 .. Len(answers) \/ i = Len(answers) + 1
      BY <3>4
    <3> QED
      BY <3>2, <3>3, <3>4, <3>5 DEF Inv, InfosWritten
  <2> QED
    BY <2>1, <2>2 DEF getHeaderClientChannel, getHeaderClientChannelFromCache, sendKVBMessage,
                      fetches
<1> QED
  BY <1>1, <1>2, <1>3, <1>4, <1>5 DEF Inv, TypeOK, VersionsFollowStarts, InfosWritten

(* The oldest answer, and those after it. *)
LEMMA AnswerTaken ==
  ASSUME Inv, answers # <<>>
  PROVE  /\ Head(answers) \in Answers /\ Written(Head(answers))
         /\ Tail(answers) \in Seq(Answers)
         /\ \A i \in 1 .. Len(Tail(answers)) : Written(Tail(answers)[i])
<1>1. answers \in Seq(Answers)
  BY DEF Inv, TypeOK
<1>2. /\ Head(answers) \in Answers /\ Tail(answers) \in Seq(Answers)
      /\ Len(answers) \in Nat \ {0} /\ Len(Tail(answers)) = Len(answers) - 1
      /\ \A i \in 1 .. Len(Tail(answers)) : Tail(answers)[i] = answers[i + 1]
      /\ Head(answers) = answers[1]
  BY <1>1, HeadTailProperties, EmptySeq
<1>3. 1 \in 1 .. Len(answers) /\ \A i \in 1 .. Len(Tail(answers)) : i + 1 \in 1 .. Len(answers)
  BY <1>2
<1> QED
  BY <1>2, <1>3 DEF Inv, InfosWritten

(* The ZooKeeper completion thread, the callers' continuations and the Kafka
   consume thread. *)
LEMMA CallbacksInv ==
  ASSUME Inv, dataCompletionCb \/ (\E c \in Callers : then(c)) \/ receiveUpdate
  PROVE  Inv'
<1>1. CASE dataCompletionCb
  <2> DEFINE a == Head(answers)
  <2>1. answers # <<>> /\ answers' = Tail(answers) /\ UNCHANGED <<node, svc, topic, gets, channel>>
    BY <1>1 DEF dataCompletionCb, service
  <2>2. /\ a \in Answers /\ Written(a)
        /\ Tail(answers) \in Seq(Answers)
        /\ \A i \in 1 .. Len(Tail(answers)) : Written(Tail(answers)[i])
    BY <2>1, AnswerTaken
  <2>3. \/ early' = early \cup {a} /\ UNCHANGED <<cached, tasks, call>>
        \/ early' = early /\ Fetched(a, "notified")
    BY <1>1 DEF dataCompletionCb
  <2> HIDE DEF a
  <2>4. CASE early' = early \cup {a} /\ UNCHANGED <<cached, tasks, call>>
    BY <2>1, <2>2, <2>4 DEF Inv, TypeOK, VersionsFollowStarts, InfosWritten
  <2>5. CASE early' = early /\ Fetched(a, "notified")
    <3>1. "notified" \in Queues
      BY DEF Queues
    <3>2. /\ cached' \in BOOLEAN /\ tasks' \in [Queues -> Seq(Tasks)]
          /\ \A r \in Queues : TasksWritten(tasks'[r])
          /\ call' \in [Callers -> CallStates]
      BY <2>2, <2>5, <3>1, FetchedInv
    <3> QED
      BY <2>1, <2>2, <2>5, <3>2 DEF Inv, TypeOK, VersionsFollowStarts, InfosWritten
  <2> QED
    BY <2>3, <2>4, <2>5
<1>2. ASSUME NEW c \in Callers, then(c) PROVE Inv'
  <2>1. UNCHANGED <<node, svc, topic, gets, answers, channel>>
    BY <1>2 DEF then, service
  <2>2. ASSUME NEW a \in early, Fetched(a, QueueOf(c)), early' = early \ {a}
        PROVE  Inv'
    <3>1. a \in Answers /\ Written(a) /\ QueueOf(c) \in Queues
      BY CallerTask DEF Inv, TypeOK, InfosWritten
    <3>2. /\ cached' \in BOOLEAN /\ tasks' \in [Queues -> Seq(Tasks)]
          /\ \A r \in Queues : TasksWritten(tasks'[r])
          /\ call' \in [Callers -> CallStates]
      BY <2>2, <3>1, FetchedInv
    <3> QED
      BY <2>1, <2>2, <3>2 DEF Inv, TypeOK, VersionsFollowStarts, InfosWritten
  <2>3. CASE call' = [call EXCEPT ![c] = "waiting"] /\ UNCHANGED <<early, cached, tasks>>
    <3>1. call' \in [Callers -> CallStates]
      BY <2>3 DEF Inv, TypeOK, CallStates
    <3> QED
      BY <2>1, <2>3, <3>1 DEF Inv, TypeOK, VersionsFollowStarts, InfosWritten
  <2> QED
    BY <1>2, <2>2, <2>3 DEF then
<1>3. CASE receiveUpdate
  <2>1. topic \in Seq(Infos) /\ topic # <<>> /\ topic' = Tail(topic)
    BY <1>3 DEF receiveUpdate, Inv, TypeOK
  <2>2. UNCHANGED <<node, svc, gets, answers, early, channel, call>>
    BY <1>3 DEF receiveUpdate, fetches
  <2>3. /\ Head(topic) \in Infos /\ Tail(topic) \in Seq(Infos)
        /\ Len(topic) \in Nat \ {0} /\ Len(Tail(topic)) = Len(topic) - 1
        /\ \A i \in 1 .. Len(Tail(topic)) : Tail(topic)[i] = topic[i + 1]
        /\ Head(topic) = topic[1]
    BY <2>1, HeadTailProperties, EmptySeq
  <2>4. \A i \in 1 .. Len(Tail(topic)) : i + 1 \in 1 .. Len(topic)
    BY <2>3
  <2>5. /\ \A i \in 1 .. Len(topic') : topic'[i].version >= 0
        /\ Head(topic).version >= 0
    BY <2>1, <2>3, <2>4 DEF Inv, InfosWritten
  <2>6. /\ cached' \in BOOLEAN /\ tasks' \in [Queues -> Seq(Tasks)]
        /\ \A r \in Queues : TasksWritten(tasks'[r])
    <3>1. CASE updateConnection_(Head(topic), FALSE, Nobody, "notified")
      BY <2>3, <2>5, <3>1, UpdateGiven DEF Queues
    <3>2. CASE UNCHANGED <<cached, tasks>>
      BY <3>2 DEF Inv, TypeOK, InfosWritten
    <3> QED
      BY <1>3, <3>1, <3>2 DEF receiveUpdate
  <2> QED
    BY <2>1, <2>2, <2>3, <2>5, <2>6
       DEF Inv, TypeOK, VersionsFollowStarts, InfosWritten
<1> QED
  BY <1>1, <1>2, <1>3

(* An update is newer than version_ and leaves the item with a channel. *)
LEMMA UpdateConnects ==
  ASSUME Inv, NEW q \in Queues, update(q)
  PROVE  /\ channel' \in Channels /\ channel' # NoChannel
         /\ Given(channel') = "open"
<1> DEFINE t == Head(tasks[q])
<1>1. t.info \in Infos /\ t.info.version >= 0
  BY TaskTaken, TaskKinds DEF update
<1>2. t.info.version > version_ /\ t.info.addr \in Addrs
  BY <1>1 DEF version_, Infos
<1>3. channel' = [state |-> "connecting", addr |-> t.info.addr]
  BY <1>2 DEF update
<1>4. channel' \in [state : {"connecting"}, addr : Addrs] /\ channel'.state = "connecting"
  BY <1>2, <1>3
<1> QED
  BY <1>4 DEF Channels, NoChannel, Given

(* The event base. *)
LEMMA EventBaseInv ==
  ASSUME Inv, NEW q \in Queues, update(q) \/ getChannel(q)
  PROVE  Inv'
<1> DEFINE t == Head(tasks[q])
<1>1. /\ UNCHANGED <<node, svc, topic, gets, answers, early, cached>>
      /\ t \in Tasks
      /\ tasks' \in [Queues -> Seq(Tasks)]
      /\ \A r \in Queues : TasksWritten(tasks'[r])
  BY TaskTaken DEF update, getChannel, service, fetches
<1>2. CASE update(q)
  <2>1. channel' \in Channels
    BY <1>2, UpdateConnects
  <2>2. \A c \in Callers : call'[c] \in {"open", "null", "closed", call[c]}
    BY <1>2 DEF update, Given
  <2>3. call' = [c \in Callers |-> call'[c]]
    BY <1>2 DEF update
  <2>4. \A c \in Callers : call'[c] \in CallStates
    BY <2>2 DEF Inv, TypeOK, CallStates
  <2> QED
    BY <1>1, <2>1, <2>3, <2>4 DEF Inv, TypeOK, VersionsFollowStarts, InfosWritten
<1>3. CASE getChannel(q)
  <2>1. t.by \in Callers
    BY <1>3, TaskTaken, TaskKinds DEF getChannel
  <2>2. channel' = channel /\ \E x \in {"open", "null"} : call' = [call EXCEPT ![t.by] = x]
    BY <1>3 DEF getChannel, Given
  <2>3. call' \in [Callers -> CallStates]
    BY <2>1, <2>2 DEF Inv, TypeOK, CallStates
  <2> QED
    BY <1>1, <2>2, <2>3 DEF Inv, TypeOK, VersionsFollowStarts, InfosWritten
<1> QED
  BY <1>2, <1>3

(* A connection attempt ends. *)
LEMMA ConnectInv ==
  ASSUME Inv, Connect
  PROVE  Inv' /\ channel' # NoChannel
<1>1. UNCHANGED <<node, svc, topic, gets, answers, early, cached, tasks, call>>
  BY DEF Connect, service, fetches
<1>2. channel \in [state : {"connecting"}, addr : Addrs]
  BY DEF Connect, Inv, TypeOK, Channels, NoChannel
<1>3. svc.start \in 0 .. MaxStarts /\ 0 \in 0 .. MaxStarts
  BY CacheAssumption DEF Inv, TypeOK
<1>4. channel' \in [state : {"done"}, addr : Addrs, peer : 0 .. MaxStarts]
  BY <1>2, <1>3 DEF Connect
<1>5. channel' # NoChannel
  BY <1>4 DEF NoChannel
<1> QED
  BY <1>1, <1>4, <1>5
     DEF Inv, TypeOK, VersionsFollowStarts, InfosWritten, Channels

(* Every step keeps the invariant. *)
LEMMA NextInv ==
  ASSUME Inv, [Next]_vars
  PROVE  Inv'
<1>1. CASE UNCHANGED vars
  BY <1>1 DEF vars, service, cache, fetches, Inv, TypeOK, VersionsFollowStarts, InfosWritten
<1> QED
  BY <1>1, ServiceInv, CallersInv, CallbacksInv, EventBaseInv, ConnectInv DEF Next

-----------------------------------------------------------------------------
(* Inv is inductive. *)
THEOREM InvCorrect == Spec => []Inv
<1>1. Init => Inv
  BY InitInv
<1>2. Inv /\ [Next]_vars => Inv'
  BY NextInv
<1> QED
  BY <1>1, <1>2, PTL DEF Spec

(* Every variable of the cache and of the service keeps its type; in particular
   no node has a version above the number of starts. *)
THEOREM TypeCorrect == Spec => []TypeOK
<1>1. Inv => TypeOK
  BY DEF Inv
<1> QED
  BY <1>1, InvCorrect, PTL

-----------------------------------------------------------------------------
(* Every promise is fulfilled once. *)

(* Caller c occurs in a queue of callers, or in one of records, and once only. *)
Has(q, c)    == \E i \in 1 .. Len(q) : q[i] = c
Once(q, c)   == \A i, j \in 1 .. Len(q) : q[i] = c /\ q[j] = c => i = j
HasBy(q, c)  == \E i \in 1 .. Len(q) : q[i].by = c
OnceBy(q, c) == \A i, j \in 1 .. Len(q) : q[i].by = c /\ q[j].by = c => i = j

HasEarly(c)  == \E a \in early : a.by = c
HasTask(c)   == \E q \in Queues : HasBy(tasks[q], c)

(* A caller is in one place at most, once, and in one exactly when it has a call
   under way. *)
PlacedOnce(c) ==
  /\ Once(gets, c) /\ OnceBy(answers, c) /\ \A q \in Queues : OnceBy(tasks[q], c)
  /\ \A a, b \in early : a.by = c /\ b.by = c => a = b
  /\ \A q, r \in Queues : HasBy(tasks[q], c) /\ HasBy(tasks[r], c) => q = r
  /\ Has(gets, c) => ~HasBy(answers, c) /\ ~HasEarly(c) /\ ~HasTask(c)
  /\ HasBy(answers, c) => ~HasEarly(c) /\ ~HasTask(c)
  /\ HasEarly(c) => ~HasTask(c)
  /\ Pending(c) <=> Has(gets, c) \/ HasBy(answers, c) \/ HasEarly(c) \/ HasTask(c)

(* A caller at the end of a queue. *)
LEMMA AppendHas ==
  ASSUME NEW S, NEW q \in Seq(S), NEW e \in S, NEW c
  PROVE  /\ Has(Append(q, e), c) <=> Has(q, c) \/ e = c
         /\ Once(q, c) /\ (e = c => ~Has(q, c)) => Once(Append(q, e), c)
<1> DEFINE a == Append(q, e)
<1>1. /\ Len(q) \in Nat /\ Len(a) = Len(q) + 1
      /\ \A i \in 1 .. Len(q) : a[i] = q[i]
      /\ a[Len(q) + 1] = e
  BY AppendProperties, LenProperties
<1>2. /\ \A i \in 1 .. Len(a) : i \in 1 .. Len(q) \/ i = Len(q) + 1
      /\ \A i \in 1 .. Len(q) : i \in 1 .. Len(a) /\ i # Len(q) + 1
      /\ Len(q) + 1 \in 1 .. Len(a)
  BY <1>1
<1> HIDE DEF a
<1> QED
  BY <1>1, <1>2 DEF Has, Once, a

(* A record at the end of a queue. *)
LEMMA AppendHasBy ==
  ASSUME NEW S, NEW q \in Seq(S), NEW e \in S, NEW c
  PROVE  /\ HasBy(Append(q, e), c) <=> HasBy(q, c) \/ e.by = c
         /\ OnceBy(q, c) /\ (e.by = c => ~HasBy(q, c)) => OnceBy(Append(q, e), c)
<1> DEFINE a == Append(q, e)
<1>1. /\ Len(q) \in Nat /\ Len(a) = Len(q) + 1
      /\ \A i \in 1 .. Len(q) : a[i] = q[i]
      /\ a[Len(q) + 1] = e
  BY AppendProperties, LenProperties
<1>2. /\ \A i \in 1 .. Len(a) : i \in 1 .. Len(q) \/ i = Len(q) + 1
      /\ \A i \in 1 .. Len(q) : i \in 1 .. Len(a) /\ i # Len(q) + 1
      /\ Len(q) + 1 \in 1 .. Len(a)
  BY <1>1
<1> HIDE DEF a
<1> QED
  BY <1>1, <1>2 DEF HasBy, OnceBy, a

(* The head of a queue of callers is taken. *)
LEMMA TailHas ==
  ASSUME NEW S, NEW q \in Seq(S), q # <<>>, NEW c, Once(q, c)
  PROVE  /\ Has(Tail(q), c) <=> Has(q, c) /\ Head(q) # c
         /\ Head(q) = c => Has(q, c)
         /\ Once(Tail(q), c)
<1> DEFINE t == Tail(q)
<1>1. /\ Len(q) \in Nat \ {0} /\ Len(t) = Len(q) - 1
      /\ \A i \in 1 .. Len(t) : t[i] = q[i + 1]
      /\ Head(q) = q[1]
  BY HeadTailProperties, EmptySeq
<1>2. /\ \A i \in 1 .. Len(t) : i + 1 \in 1 .. Len(q) /\ i + 1 # 1
      /\ \A i, j \in 1 .. Len(t) : i + 1 = j + 1 => i = j
      /\ \A i \in 1 .. Len(q) : i = 1 \/ (i - 1 \in 1 .. Len(t) /\ (i - 1) + 1 = i)
      /\ 1 \in 1 .. Len(q)
  BY <1>1
<1> HIDE DEF t
<1>3. Once(t, c)
  BY <1>1, <1>2 DEF Once
<1>4. Head(q) = c => Has(q, c)
  BY <1>1, <1>2 DEF Has
<1>5. ASSUME Has(t, c) PROVE Has(q, c) /\ Head(q) # c
  <2>1. PICK i \in 1 .. Len(t) : t[i] = c
    BY <1>5 DEF Has
  <2>2. i + 1 \in 1 .. Len(q) /\ q[i + 1] = c /\ i + 1 # 1
    BY <1>1, <1>2, <2>1
  <2> QED
    BY <1>1, <1>2, <2>2 DEF Has, Once
<1>6. ASSUME Has(q, c), Head(q) # c PROVE Has(t, c)
  <2>1. PICK i \in 1 .. Len(q) : q[i] = c
    BY <1>6 DEF Has
  <2>2. i - 1 \in 1 .. Len(t) /\ t[i - 1] = c
    BY <1>1, <1>2, <1>6, <2>1
  <2> QED
    BY <2>2 DEF Has
<1> QED
  BY <1>3, <1>4, <1>5, <1>6 DEF t

(* The head of a queue of records is taken. *)
LEMMA TailHasBy ==
  ASSUME NEW S, NEW q \in Seq(S), q # <<>>, NEW c, OnceBy(q, c)
  PROVE  /\ HasBy(Tail(q), c) <=> HasBy(q, c) /\ Head(q).by # c
         /\ Head(q).by = c => HasBy(q, c)
         /\ OnceBy(Tail(q), c)
<1> DEFINE t == Tail(q)
<1>1. /\ Len(q) \in Nat \ {0} /\ Len(t) = Len(q) - 1
      /\ \A i \in 1 .. Len(t) : t[i] = q[i + 1]
      /\ Head(q) = q[1]
  BY HeadTailProperties, EmptySeq
<1>2. /\ \A i \in 1 .. Len(t) : i + 1 \in 1 .. Len(q) /\ i + 1 # 1
      /\ \A i, j \in 1 .. Len(t) : i + 1 = j + 1 => i = j
      /\ \A i \in 1 .. Len(q) : i = 1 \/ (i - 1 \in 1 .. Len(t) /\ (i - 1) + 1 = i)
      /\ 1 \in 1 .. Len(q)
  BY <1>1
<1> HIDE DEF t
<1>3. OnceBy(t, c)
  BY <1>1, <1>2 DEF OnceBy
<1>4. Head(q).by = c => HasBy(q, c)
  BY <1>1, <1>2 DEF HasBy
<1>5. ASSUME HasBy(t, c) PROVE HasBy(q, c) /\ Head(q).by # c
  <2>1. PICK i \in 1 .. Len(t) : t[i].by = c
    BY <1>5 DEF HasBy
  <2>2. i + 1 \in 1 .. Len(q) /\ q[i + 1].by = c /\ i + 1 # 1
    BY <1>1, <1>2, <2>1
  <2> QED
    BY <1>1, <1>2, <2>2 DEF HasBy, OnceBy
<1>6. ASSUME HasBy(q, c), Head(q).by # c PROVE HasBy(t, c)
  <2>1. PICK i \in 1 .. Len(q) : q[i].by = c
    BY <1>6 DEF HasBy
  <2>2. i - 1 \in 1 .. Len(t) /\ t[i - 1].by = c
    BY <1>1, <1>2, <1>6, <2>1
  <2> QED
    BY <2>2 DEF HasBy
<1> QED
  BY <1>3, <1>4, <1>5, <1>6 DEF t

(* The queues, for the lemmas above. *)
LEMMA QueueTypes ==
  ASSUME Inv
  PROVE  /\ gets \in Seq(Callers)
         /\ answers \in Seq(Answers)
         /\ tasks \in [Queues -> Seq(Tasks)]
         /\ DOMAIN call = Callers
BY DEF Inv, TypeOK

(* Who has a task once one is given to the event base. *)
LEMMA GivenHas ==
  ASSUME Inv, NEW q \in Queues, NEW t \in Tasks, via(q, t), NEW c
  PROVE  /\ \A r \in Queues : HasBy(tasks'[r], c) <=> HasBy(tasks[r], c) \/ (r = q /\ t.by = c)
         /\ \A r \in Queues : OnceBy(tasks[r], c) /\ (t.by = c => ~HasTask(c)) => OnceBy(tasks'[r], c)
         /\ HasTask(c)' <=> HasTask(c) \/ t.by = c
<1>1. tasks \in [Queues -> Seq(Tasks)] /\ tasks[q] \in Seq(Tasks)
  BY QueueTypes
<1>2. \A r \in Queues : tasks'[r] = IF r = q THEN Append(tasks[q], t) ELSE tasks[r]
  BY <1>1 DEF via
<1>3. /\ HasBy(Append(tasks[q], t), c) <=> HasBy(tasks[q], c) \/ t.by = c
      /\ OnceBy(tasks[q], c) /\ (t.by = c => ~HasBy(tasks[q], c)) => OnceBy(Append(tasks[q], t), c)
  BY <1>1, AppendHasBy
<1>4. \A r \in Queues : HasBy(tasks'[r], c) <=> HasBy(tasks[r], c) \/ (r = q /\ t.by = c)
  BY <1>2, <1>3
<1>5. \A r \in Queues : OnceBy(tasks[r], c) /\ (t.by = c => ~HasTask(c)) => OnceBy(tasks'[r], c)
  BY <1>2, <1>3 DEF HasTask
<1> QED
  BY <1>4, <1>5 DEF HasTask

(* Who has a task once the event base has taken one. *)
LEMMA TakenHas ==
  ASSUME Inv, NEW q \in Queues, NEW op, Takes(q, op), NEW c, PlacedOnce(c)
  PROVE  /\ \A r \in Queues :
              HasBy(tasks'[r], c) <=> HasBy(tasks[r], c) /\ ~(r = q /\ Head(tasks[q]).by = c)
         /\ \A r \in Queues : OnceBy(tasks'[r], c)
         /\ Head(tasks[q]).by = c => HasBy(tasks[q], c)
         /\ HasTask(c)' <=> HasTask(c) /\ Head(tasks[q]).by # c
<1>1. tasks \in [Queues -> Seq(Tasks)] /\ tasks[q] \in Seq(Tasks) /\ tasks[q] # <<>>
  BY QueueTypes DEF Takes
<1>2. \A r \in Queues : tasks'[r] = IF r = q THEN Tail(tasks[q]) ELSE tasks[r]
  BY <1>1 DEF Takes
<1>3. \A r \in Queues : OnceBy(tasks[r], c)
  BY DEF PlacedOnce
<1>4. /\ HasBy(Tail(tasks[q]), c) <=> HasBy(tasks[q], c) /\ Head(tasks[q]).by # c
      /\ Head(tasks[q]).by = c => HasBy(tasks[q], c)
      /\ OnceBy(Tail(tasks[q]), c)
  BY <1>1, <1>3, TailHasBy
<1>5. \A r \in Queues :
        HasBy(tasks'[r], c) <=> HasBy(tasks[r], c) /\ ~(r = q /\ Head(tasks[q]).by = c)
  BY <1>2, <1>4
<1>6. \A r \in Queues : OnceBy(tasks'[r], c)
  BY <1>2, <1>3, <1>4
<1>7. \A r \in Queues : HasBy(tasks[r], c) /\ HasBy(tasks[q], c) => r = q
  BY DEF PlacedOnce
<1>8. HasTask(c)' <=> HasTask(c) /\ Head(tasks[q]).by # c
  BY <1>4, <1>5, <1>7 DEF HasTask
<1> QED
  BY <1>4, <1>5, <1>6, <1>8

(* A call begins, for a caller that is nowhere, at the end of one queue or nowhere;
   a call that is over ends. *)
LEMMA CallersPlaced ==
  ASSUME Inv, NEW c \in Callers, \A d \in Callers : PlacedOnce(d),
         getHeaderClientChannel(c) \/ getHeaderClientChannelFromCache(c) \/ sendKVBMessage(c),
         NEW d \in Callers
  PROVE  PlacedOnce(d)'
<1> DEFINE t == [op |-> "getChannel", by |-> c]
<1>1. t \in Tasks /\ t.by = c /\ QueueOf(c) \in Queues
  BY CallerTask
<1> HIDE DEF t
<1>2. ~Pending(c) /\ PlacedOnce(d) /\ PlacedOnce(c)
  BY DEF getHeaderClientChannel, getHeaderClientChannelFromCache, sendKVBMessage, MayCall, Pending
<1>3. ~Has(gets, c) /\ ~HasBy(answers, c) /\ ~HasEarly(c) /\ ~HasTask(c)
  BY <1>2 DEF PlacedOnce
<1>4. UNCHANGED <<answers, early>>
  BY DEF getHeaderClientChannel, getHeaderClientChannelFromCache, sendKVBMessage, fetches
<1>5. HasEarly(d)' <=> HasEarly(d)
  BY <1>4 DEF HasEarly
<1>6. CASE via(QueueOf(c), t) /\ gets' = gets /\ call' = [call EXCEPT ![c] = "waiting"]
  <2>1. Pending(d)' <=> Pending(d) \/ d = c
    BY <1>6, QueueTypes DEF Pending
  <2>2. /\ \A r \in Queues : HasBy(tasks'[r], d) <=> HasBy(tasks[r], d) \/ (r = QueueOf(c) /\ c = d)
        /\ \A r \in Queues : OnceBy(tasks[r], d) /\ (c = d => ~HasTask(d)) => OnceBy(tasks'[r], d)
        /\ HasTask(d)' <=> HasTask(d) \/ c = d
    BY <1>1, <1>6, GivenHas
  <2>3. \A r \in Queues : OnceBy(tasks'[r], d)
    BY <1>2, <1>3, <2>2 DEF PlacedOnce
  <2>4. \A q, r \in Queues : HasBy(tasks'[q], d) /\ HasBy(tasks'[r], d) => q = r
    BY <1>2, <1>3, <2>2 DEF PlacedOnce, HasTask
  <2> QED
    BY <1>2, <1>3, <1>4, <1>5, <1>6, <2>1, <2>2, <2>3, <2>4 DEF PlacedOnce
<1>7. CASE tasks' = tasks /\ gets' = Append(gets, c) /\ call' = [call EXCEPT ![c] = "asking"]
  <2>1. Pending(d)' <=> Pending(d) \/ d = c
    BY <1>7, QueueTypes DEF Pending
  <2>2. HasTask(d)' <=> HasTask(d)
    BY <1>7 DEF HasTask
  <2>3. /\ Has(gets', d) <=> Has(gets, d) \/ c = d
        /\ Once(gets, d) /\ (c = d => ~Has(gets, d)) => Once(gets', d)
    BY <1>7, QueueTypes, AppendHas
  <2> QED
    BY <1>2, <1>3, <1>4, <1>5, <1>7, <2>1, <2>2, <2>3 DEF PlacedOnce
<1>8. CASE /\ UNCHANGED <<gets, tasks>>
           /\ call' = [call EXCEPT ![c] = "miss"] \/ call' = [call EXCEPT ![c] = "idle"]
  <2>1. Pending(d)' <=> Pending(d)
    BY <1>2, <1>8, QueueTypes DEF Pending
  <2>2. HasTask(d)' <=> HasTask(d)
    BY <1>8 DEF HasTask
  <2> QED
    BY <1>2, <1>4, <1>5, <1>8, <2>1, <2>2 DEF PlacedOnce
<1> QED
  BY <1>6, <1>7, <1>8
     DEF getHeaderClientChannel, getHeaderClientChannelFromCache, sendKVBMessage, fetches, cache, t

(* A get becomes an answer. *)
LEMMA ServePlaced ==
  ASSUME Inv, \A d \in Callers : PlacedOnce(d), ServeGet, NEW d \in Callers
  PROVE  PlacedOnce(d)'
<1>1. PICK rc \in {"ok", "nonode", "lost"} :
        answers' = Append(answers, [by |-> Head(gets), rc |-> rc, info |-> node])
  BY DEF ServeGet
<1> DEFINE a == [by |-> Head(gets), rc |-> rc, info |-> node]
<1>2. gets # <<>> /\ gets' = Tail(gets) /\ UNCHANGED <<early, tasks, call>>
  BY DEF ServeGet, cache
<1>3. a \in Answers /\ a.by = Head(gets) /\ answers' = Append(answers, a)
  BY <1>1, <1>2, QueueTypes, HeadTailProperties DEF Inv, TypeOK, Answers
<1> HIDE DEF a
<1>4. PlacedOnce(d)
  OBVIOUS
<1>5. /\ Has(gets', d) <=> Has(gets, d) /\ Head(gets) # d
      /\ Head(gets) = d => Has(gets, d)
      /\ Once(gets', d)
  BY <1>2, <1>4, QueueTypes, TailHas DEF PlacedOnce
<1>6. /\ HasBy(answers', d) <=> HasBy(answers, d) \/ a.by = d
      /\ OnceBy(answers, d) /\ (a.by = d => ~HasBy(answers, d)) => OnceBy(answers', d)
  BY <1>3, QueueTypes, AppendHasBy
<1>7. /\ HasEarly(d)' <=> HasEarly(d)
      /\ HasTask(d)' <=> HasTask(d)
      /\ Pending(d)' <=> Pending(d)
  BY <1>2 DEF HasEarly, HasTask, Pending
<1> QED
  BY <1>2, <1>3, <1>4, <1>5, <1>6, <1>7 DEF PlacedOnce

(* The continuation of get: the caller has a task, or its call is over. *)
LEMMA FetchedPlaced ==
  ASSUME Inv, NEW a \in Answers, NEW q \in Queues, Fetched(a, q), NEW d \in Callers,
         PlacedOnce(d), Pending(a.by), a.by = d => ~HasTask(d)
  PROVE  /\ \A r \in Queues : OnceBy(tasks'[r], d)
         /\ \A r, p \in Queues : HasBy(tasks'[p], d) /\ HasBy(tasks'[r], d) => p = r
         /\ d # a.by => (HasTask(d)' <=> HasTask(d)) /\ (Pending(d)' <=> Pending(d))
         /\ d = a.by => (HasTask(d)' <=> Pending(d)')
<1>1. a.by \in Callers /\ a.info \in Infos
  BY DEF Answers
<1>2. CASE updateConnection_(a.info, TRUE, a.by, q) /\ call' = [call EXCEPT ![a.by] = "waiting"]
  <2> DEFINE t == [op |-> "update", info |-> a.info, by |-> a.by]
  <2>1. t \in Tasks /\ t.by = a.by /\ via(q, t)
    BY <1>1, <1>2 DEF Tasks, updateConnection_
  <2> HIDE DEF t
  <2>2. /\ \A r \in Queues : HasBy(tasks'[r], d) <=> HasBy(tasks[r], d) \/ (r = q /\ a.by = d)
        /\ \A r \in Queues : OnceBy(tasks[r], d) /\ (a.by = d => ~HasTask(d)) => OnceBy(tasks'[r], d)
        /\ HasTask(d)' <=> HasTask(d) \/ a.by = d
    BY <2>1, GivenHas
  <2>3. \A r \in Queues : OnceBy(tasks'[r], d)
    BY <2>2 DEF PlacedOnce
  <2>4. \A r, p \in Queues : HasBy(tasks'[p], d) /\ HasBy(tasks'[r], d) => p = r
    BY <2>2 DEF PlacedOnce, HasTask
  <2>5. /\ d # a.by => (Pending(d)' <=> Pending(d))
        /\ d = a.by => Pending(d)'
    BY <1>1, <1>2, QueueTypes DEF Pending
  <2> QED
    BY <2>2, <2>3, <2>4, <2>5
<1>3. CASE tasks' = tasks /\ call' = [call EXCEPT ![a.by] = "exception"]
  <2>1. /\ d # a.by => (Pending(d)' <=> Pending(d))
        /\ d = a.by => ~Pending(d)'
    BY <1>1, <1>3, QueueTypes DEF Pending
  <2>2. HasTask(d)' <=> HasTask(d)
    BY <1>3 DEF HasTask
  <2> QED
    BY <1>3, <2>1, <2>2 DEF PlacedOnce
<1> QED
  BY <1>2, <1>3 DEF Fetched

(* An answer is kept, or becomes a task or the end of the call. *)
LEMMA CompletionPlaced ==
  ASSUME Inv, \A d \in Callers : PlacedOnce(d), dataCompletionCb, NEW d \in Callers
  PROVE  PlacedOnce(d)'
<1> DEFINE a == Head(answers)
<1>1. /\ answers # <<>> /\ answers' = Tail(answers) /\ gets' = gets
      /\ \/ early' = early \cup {a} /\ UNCHANGED <<tasks, call>>
         \/ early' = early /\ Fetched(a, "notified")
  BY DEF dataCompletionCb
<1>2. a \in Answers /\ a.by \in Callers
  BY <1>1, AnswerTaken DEF Answers
<1>3. \A e \in Callers : PlacedOnce(e) => /\ HasBy(answers', e) <=> HasBy(answers, e) /\ a.by # e
                                          /\ a.by = e => HasBy(answers, e)
                                          /\ OnceBy(answers', e)
  BY <1>1, QueueTypes, TailHasBy DEF PlacedOnce
<1>4. PlacedOnce(d) /\ PlacedOnce(a.by)
  BY <1>2
<1>5. HasBy(answers, a.by) /\ Pending(a.by) /\ (a.by = d => ~HasTask(d) /\ ~HasEarly(d) /\ ~Has(gets, d))
  BY <1>2, <1>3, <1>4 DEF PlacedOnce
<1> HIDE DEF a
<1>6. CASE early' = early \cup {a} /\ UNCHANGED <<tasks, call>>
  <2>1. /\ HasTask(d)' <=> HasTask(d)
        /\ Pending(d)' <=> Pending(d)
        /\ HasEarly(d)' <=> HasEarly(d) \/ a.by = d
    BY <1>6 DEF HasTask, Pending, HasEarly
  <2>2. \A b, e \in early' : b.by = d /\ e.by = d => b = e
    BY <1>4, <1>5, <1>6 DEF PlacedOnce, HasEarly
  <2> QED
    BY <1>1, <1>3, <1>4, <1>5, <1>6, <2>1, <2>2 DEF PlacedOnce
<1>7. CASE early' = early /\ Fetched(a, "notified")
  <2>1. "notified" \in Queues
    BY DEF Queues
  <2>2. HasEarly(d)' <=> HasEarly(d)
    BY <1>7 DEF HasEarly
  <2>3. /\ \A r \in Queues : OnceBy(tasks'[r], d)
        /\ \A r, p \in Queues : HasBy(tasks'[p], d) /\ HasBy(tasks'[r], d) => p = r
        /\ d # a.by => (HasTask(d)' <=> HasTask(d)) /\ (Pending(d)' <=> Pending(d))
        /\ d = a.by => (HasTask(d)' <=> Pending(d)')
    BY <1>2, <1>4, <1>5, <1>7, <2>1, FetchedPlaced
  <2> QED
    BY <1>1, <1>3, <1>4, <1>5, <1>7, <2>2, <2>3 DEF PlacedOnce
<1> QED
  BY <1>1, <1>6, <1>7

(* A kept answer becomes a task or the end of the call. *)
LEMMA ThenPlaced ==
  ASSUME Inv, \A d \in Callers : PlacedOnce(d), NEW c \in Callers, then(c), NEW d \in Callers
  PROVE  PlacedOnce(d)'
<1>1. UNCHANGED <<gets, answers>> /\ Pending(c) /\ PlacedOnce(d) /\ PlacedOnce(c)
  BY DEF then, Pending
<1>2. ASSUME NEW a \in early, a.by = c, Fetched(a, QueueOf(c)), early' = early \ {a}
      PROVE  PlacedOnce(d)'
  <2>1. a \in Answers /\ QueueOf(c) \in Queues
    BY CallerTask DEF Inv, TypeOK
  <2>2. HasEarly(c) /\ ~HasTask(c) /\ ~Has(gets, c) /\ ~HasBy(answers, c)
    BY <1>1, <1>2 DEF PlacedOnce, HasEarly
  <2>3. /\ HasEarly(d)' <=> HasEarly(d) /\ d # c
        /\ \A b, e \in early' : b.by = d /\ e.by = d => b = e
    BY <1>1, <1>2 DEF PlacedOnce, HasEarly
  <2>4. /\ \A r \in Queues : OnceBy(tasks'[r], d)
        /\ \A r, p \in Queues : HasBy(tasks'[p], d) /\ HasBy(tasks'[r], d) => p = r
        /\ d # a.by => (HasTask(d)' <=> HasTask(d)) /\ (Pending(d)' <=> Pending(d))
        /\ d = a.by => (HasTask(d)' <=> Pending(d)')
    BY <1>1, <1>2, <2>1, <2>2, FetchedPlaced
  <2> QED
    BY <1>1, <1>2, <2>2, <2>3, <2>4 DEF PlacedOnce
<1>3. CASE call' = [call EXCEPT ![c] = "waiting"] /\ UNCHANGED <<early, tasks>>
  <2>1. Pending(d)' <=> Pending(d)
    BY <1>1, <1>3, QueueTypes DEF Pending
  <2>2. (HasEarly(d)' <=> HasEarly(d)) /\ (HasTask(d)' <=> HasTask(d))
    BY <1>3 DEF HasEarly, HasTask
  <2> QED
    BY <1>1, <1>3, <2>1, <2>2 DEF PlacedOnce
<1> QED
  BY <1>2, <1>3 DEF then

(* An announcement's update is nobody's. *)
LEMMA AnnouncementPlaced ==
  ASSUME Inv, \A d \in Callers : PlacedOnce(d), receiveUpdate, NEW d \in Callers
  PROVE  PlacedOnce(d)'
<1>1. UNCHANGED <<gets, answers, early, call>> /\ PlacedOnce(d)
  BY DEF receiveUpdate, fetches
<1>2. (HasEarly(d)' <=> HasEarly(d)) /\ (Pending(d)' <=> Pending(d))
  BY <1>1 DEF HasEarly, Pending
<1>3. CASE updateConnection_(Head(topic), FALSE, Nobody, "notified")
  <2> DEFINE t == [op |-> "update", info |-> Head(topic), by |-> Nobody]
  <2>1. t \in Tasks /\ t.by # d /\ "notified" \in Queues
    <3>1. Head(topic) \in Infos
      BY HeadTailProperties DEF receiveUpdate, Inv, TypeOK
    <3> QED
      BY <3>1, CacheAssumption DEF Tasks, Queues
  <2>2. via("notified", t)
    BY <1>3 DEF updateConnection_
  <2> HIDE DEF t
  <2>3. /\ \A r \in Queues : HasBy(tasks'[r], d) <=> HasBy(tasks[r], d)
        /\ \A r \in Queues : OnceBy(tasks[r], d) => OnceBy(tasks'[r], d)
        /\ HasTask(d)' <=> HasTask(d)
    BY <2>1, <2>2, GivenHas
  <2> QED
    BY <1>1, <1>2, <2>3 DEF PlacedOnce
<1>4. CASE tasks' = tasks
  <2>1. HasTask(d)' <=> HasTask(d)
    BY <1>4 DEF HasTask
  <2> QED
    BY <1>1, <1>2, <1>4, <2>1 DEF PlacedOnce
<1> QED
  BY <1>3, <1>4 DEF receiveUpdate

(* A task is the end of the call of the caller that has it. *)
LEMMA EventBasePlaced ==
  ASSUME Inv, \A d \in Callers : PlacedOnce(d), NEW q \in Queues, update(q) \/ getChannel(q),
         NEW d \in Callers
  PROVE  PlacedOnce(d)'
<1> DEFINE t == Head(tasks[q])
<1>1. UNCHANGED <<gets, answers, early>> /\ PlacedOnce(d)
  BY DEF update, getChannel, fetches
<1>2. PICK op : Takes(q, op)
  BY DEF update, getChannel
<1>3. /\ \A r \in Queues : HasBy(tasks'[r], d) <=> HasBy(tasks[r], d) /\ ~(r = q /\ t.by = d)
      /\ \A r \in Queues : OnceBy(tasks'[r], d)
      /\ t.by = d => HasBy(tasks[q], d)
      /\ HasTask(d)' <=> HasTask(d) /\ t.by # d
  BY <1>1, <1>2, TakenHas
<1>4. HasEarly(d)' <=> HasEarly(d)
  BY <1>1 DEF HasEarly
<1>5. /\ d = t.by => ~Pending(d)'
      /\ d # t.by => (Pending(d)' <=> Pending(d))
  <2>1. CASE update(q)
    BY <2>1 DEF update, Given, Pending
  <2>2. CASE getChannel(q)
    BY <2>2, QueueTypes DEF getChannel, Given, Pending
  <2> QED
    BY <2>1, <2>2
<1>6. t.by = d => HasTask(d)
  BY <1>3 DEF HasTask
<1> QED
  BY <1>1, <1>3, <1>4, <1>5, <1>6 DEF PlacedOnce

(* Initially no queue has anybody; every step keeps the callers placed. *)
LEMMA InitPlaced == Init => \A c \in Callers : PlacedOnce(c)
BY DEF Init, PlacedOnce, Has, Once, HasBy, OnceBy, HasEarly, HasTask, Pending

(* Whatever a thread does, every caller is in one place afterwards. *)
LEMMA NextPlaced ==
  ASSUME Inv, \A c \in Callers : PlacedOnce(c), [Next]_vars, NEW d \in Callers
  PROVE  PlacedOnce(d)'
<1>1. CASE \/ addService
           \/ \E a \in Addrs : StartService(a)
           \/ ensureDatasphereMembership_
           \/ SetServiceInfo
           \/ publishServiceInfomation_
           \/ run
           \/ shutdown
           \/ Connect
           \/ UNCHANGED vars
  <2>1. UNCHANGED <<gets, answers, early, tasks, call>>
    BY <1>1 DEF addService, StartService, ensureDatasphereMembership_, SetServiceInfo,
                publishServiceInfomation_, run, shutdown, Connect, vars, fetches, cache
  <2> QED
    BY <2>1 DEF PlacedOnce, HasEarly, HasTask, Pending
<1> QED
  BY <1>1, CallersPlaced, ServePlaced, CompletionPlaced, ThenPlaced, AnnouncementPlaced,
     EventBasePlaced DEF Next

(* PlacedOnce is OnePromiseEach, index by index. *)
LEMMA PlacedOnePromise ==
  ASSUME Inv, \A c \in Callers : PlacedOnce(c)
  PROVE  OnePromiseEach
<1> SUFFICES ASSUME NEW c \in Callers
             PROVE  IF Pending(c) THEN \E x \in Places(c) : Places(c) = {x}
                    ELSE Places(c) = {}
  BY DEF OnePromiseEach
<1>1. /\ DOMAIN gets = 1 .. Len(gets) /\ DOMAIN answers = 1 .. Len(answers)
      /\ \A q \in Queues : DOMAIN tasks[q] = 1 .. Len(tasks[q])
  BY QueueTypes, LenProperties
<1>2. PlacedOnce(c)
  OBVIOUS
<1>3. \A x \in Places(c) :
        \/ \E i \in 1 .. Len(gets) : gets[i] = c /\ x = <<"get", i>>
        \/ \E i \in 1 .. Len(answers) : answers[i].by = c /\ x = <<"answer", i>>
        \/ \E a \in early : a.by = c /\ x = <<"early", a>>
        \/ \E q \in Queues : \E i \in 1 .. Len(tasks[q]) : tasks[q][i].by = c /\ x = <<q, i>>
  BY <1>1 DEF Places
<1>4. /\ \A i \in 1 .. Len(gets) : gets[i] = c => <<"get", i>> \in Places(c)
      /\ \A i \in 1 .. Len(answers) : answers[i].by = c => <<"answer", i>> \in Places(c)
      /\ \A a \in early : a.by = c => <<"early", a>> \in Places(c)
      /\ \A q \in Queues : \A i \in 1 .. Len(tasks[q]) : tasks[q][i].by = c => <<q, i>> \in Places(c)
  BY <1>1 DEF Places
<1>5. Places(c) # {} <=> Has(gets, c) \/ HasBy(answers, c) \/ HasEarly(c) \/ HasTask(c)
  BY <1>3, <1>4 DEF Has, HasBy, HasEarly, HasTask
<1>6. ASSUME NEW x \in Places(c), NEW y \in Places(c) PROVE x = y
  <2> DEFINE G(z) == \E i \in 1 .. Len(gets) : gets[i] = c /\ z = <<"get", i>>
             A(z) == \E i \in 1 .. Len(answers) : answers[i].by = c /\ z = <<"answer", i>>
             E(z) == \E a \in early : a.by = c /\ z = <<"early", a>>
             T(z) == \E q \in Queues : \E i \in 1 .. Len(tasks[q]) : tasks[q][i].by = c /\ z = <<q, i>>
  <2>1. \A z : /\ G(z) => Has(gets, c)
               /\ A(z) => HasBy(answers, c)
               /\ E(z) => HasEarly(c)
               /\ T(z) => HasTask(c)
    BY DEF Has, HasBy, HasEarly, HasTask
  <2>2. G(x) /\ G(y) => x = y
    BY <1>2 DEF PlacedOnce, Once
  <2>3. A(x) /\ A(y) => x = y
    BY <1>2 DEF PlacedOnce, OnceBy
  <2>4. E(x) /\ E(y) => x = y
    BY <1>2 DEF PlacedOnce
  <2>5. T(x) /\ T(y) => x = y
    <3> SUFFICES ASSUME T(x), T(y) PROVE x = y
      OBVIOUS
    <3>1. PICK q \in Queues : \E i \in 1 .. Len(tasks[q]) : tasks[q][i].by = c /\ x = <<q, i>>
      OBVIOUS
    <3>2. PICK r \in Queues : \E j \in 1 .. Len(tasks[r]) : tasks[r][j].by = c /\ y = <<r, j>>
      OBVIOUS
    <3>3. HasBy(tasks[q], c) /\ HasBy(tasks[r], c)
      BY <3>1, <3>2 DEF HasBy
    <3>4. q = r
      BY <1>2, <3>3 DEF PlacedOnce
    <3> QED
      BY <1>2, <3>1, <3>2, <3>4 DEF PlacedOnce, OnceBy
  <2>6. (G(x) \/ A(x) \/ E(x) \/ T(x)) /\ (G(y) \/ A(y) \/ E(y) \/ T(y))
    BY <1>3, <1>6
  <2> HIDE DEF G, A, E, T
  <2> QED
    BY <1>2, <2>1, <2>2, <2>3, <2>4, <2>5, <2>6 DEF PlacedOnce
<1> QED
  BY <1>2, <1>5, <1>6 DEF PlacedOnce

(* Initially and after every step every caller is in one place. *)
LEMMA PlacedAlways == Spec => [](\A c \in Callers : PlacedOnce(c))
<1> DEFINE Placed == \A c \in Callers : PlacedOnce(c)
<1>1. Init => Placed
  BY InitPlaced
<1>2. Inv /\ Placed /\ [Next]_vars => Placed'
  BY NextPlaced
<1> QED
  BY <1>1, <1>2, InvCorrect, PTL DEF Spec

(* Every call waits in one place and is answered once, whoever else calls, on the
   item's event base or off it, and whatever is announced or fails meanwhile. *)
THEOREM PromisesKept == Spec => []OnePromiseEach
<1> DEFINE Placed == \A c \in Callers : PlacedOnce(c)
<1>1. Inv /\ Placed => OnePromiseEach
  BY PlacedOnePromise
<1> QED
  BY <1>1, PlacedAlways, InvCorrect, PTL

-----------------------------------------------------------------------------
(* What a fetch gives. *)

(* A step that ends the call of a caller that fetched the node. *)
LEMMA FetchEnds ==
  ASSUME Inv, \A d \in Callers : PlacedOnce(d), Next, NEW c \in Callers,
         Fetching(c), Pending(c), ~Pending(c)'
  PROVE  call'[c] \in {"open", "exception"}
<1>1. /\ DOMAIN gets = 1 .. Len(gets) /\ DOMAIN answers = 1 .. Len(answers)
      /\ \A q \in Queues : DOMAIN tasks[q] = 1 .. Len(tasks[q])
  BY QueueTypes, LenProperties
<1>2. PlacedOnce(c)
  OBVIOUS
<1>3. \/ Has(gets, c) \/ HasBy(answers, c) \/ HasEarly(c)
      \/ \E q \in Queues : \E i \in 1 .. Len(tasks[q]) : tasks[q][i].op = "update" /\ tasks[q][i].by = c
  BY <1>1 DEF Fetching, Has, HasBy, HasEarly
(* A getChannel is no task of the caller's. *)
<1>4. ASSUME NEW q \in Queues, NEW i \in 1 .. Len(tasks[q]), tasks[q][i].by = c
      PROVE  tasks[q][i].op = "update"
  <2>1. HasBy(tasks[q], c) /\ HasTask(c)
    BY <1>4 DEF HasBy, HasTask
  <2>2. PICK r \in Queues : \E j \in 1 .. Len(tasks[r]) :
          tasks[r][j].op = "update" /\ tasks[r][j].by = c
    BY <1>2, <1>3, <2>1 DEF PlacedOnce
  <2>3. HasBy(tasks[r], c)
    BY <2>2 DEF HasBy
  <2>4. r = q
    BY <1>2, <2>1, <2>3 DEF PlacedOnce
  <2> QED
    BY <1>2, <1>4, <2>2, <2>4 DEF PlacedOnce, OnceBy
<1>5. CASE \/ addService \/ (\E a \in Addrs : StartService(a)) \/ ensureDatasphereMembership_
           \/ SetServiceInfo \/ publishServiceInfomation_ \/ run \/ shutdown \/ Connect
           \/ ServeGet \/ receiveUpdate
  <2>1. call' = call
    BY <1>5 DEF addService, StartService, ensureDatasphereMembership_, SetServiceInfo,
                publishServiceInfomation_, run, shutdown, Connect, ServeGet, receiveUpdate
  <2> QED
    BY <2>1 DEF Pending
<1>6. ASSUME NEW d \in Callers,
             getHeaderClientChannel(d) \/ getHeaderClientChannelFromCache(d) \/ sendKVBMessage(d)
      PROVE  FALSE
  <2>1. ~Pending(d) /\ \E x \in CallStates : call' = [call EXCEPT ![d] = x]
    BY <1>6 DEF getHeaderClientChannel, getHeaderClientChannelFromCache, sendKVBMessage, MayCall,
                Pending, CallStates
  <2> QED
    BY <2>1, QueueTypes DEF Pending
<1>7. ASSUME NEW d \in Callers, NEW x \in {"waiting", "exception"}, call' = [call EXCEPT ![d] = x]
      PROVE  call'[c] \in {"open", "exception"}
  BY <1>7, QueueTypes DEF Pending
<1>8. ASSUME NEW a \in Answers, NEW q, Fetched(a, q)
      PROVE  call'[c] \in {"open", "exception"}
  BY <1>7, <1>8 DEF Fetched, Answers
<1>9. CASE dataCompletionCb
  <2>1. Head(answers) \in Answers
    BY <1>9, AnswerTaken DEF dataCompletionCb
  <2>2. call' = call \/ Fetched(Head(answers), "notified")
    BY <1>9 DEF dataCompletionCb
  <2> QED
    BY <1>8, <2>1, <2>2 DEF Pending
<1>10. ASSUME NEW d \in Callers, then(d) PROVE call'[c] \in {"open", "exception"}
  <2>1. early \subseteq Answers
    BY DEF Inv, TypeOK
  <2> QED
    BY <1>7, <1>8, <1>10, <2>1 DEF then
<1>11. ASSUME NEW q \in Queues, update(q) PROVE call'[c] \in {"open", "exception"}
  <2>1. \/ call'[c] = Given(channel')
        \/ call'[c] = "closed" /\ call[c] = "open"
        \/ call'[c] = call[c]
    BY <1>11 DEF update
  <2> QED
    BY <1>11, <2>1, UpdateConnects DEF Pending
<1>12. ASSUME NEW q \in Queues, getChannel(q) PROVE FALSE
  <2>1. tasks[q] \in Seq(Tasks) /\ tasks[q] # <<>> /\ Head(tasks[q]).op = "getChannel"
    BY <1>12, QueueTypes DEF getChannel, Takes
  <2>2. Head(tasks[q]) = tasks[q][1] /\ 1 \in 1 .. Len(tasks[q])
    BY <2>1, HeadTailProperties, EmptySeq
  <2>3. Head(tasks[q]).by # c
    BY <1>4, <2>1, <2>2
  <2> QED
    BY <1>12, <2>3, QueueTypes DEF getChannel, Pending
<1> QED
  BY <1>5, <1>6, <1>9, <1>10, <1>11, <1>12 DEF Next

(* A caller that missed and fetched is given an open channel or the exception of its
   get, for any callers, on the item's event base or off it, any starts of the
   service and any order of gets, announcements and tasks. *)
THEOREM FetchesGiven == Spec => FetchGivesChannel
<1> DEFINE Placed == \A c \in Callers : PlacedOnce(c)
           Gives == \A c \in Callers :
                      Fetching(c) /\ Pending(c) /\ ~Pending(c)' => call'[c] \in {"open", "exception"}
<1>1. Inv /\ Placed /\ [Next]_vars => [Gives]_vars
  BY FetchEnds
<1> HIDE DEF Placed, Gives
<1>2. Spec => []Inv /\ []Placed /\ [][Next]_vars
  BY InvCorrect, PlacedAlways, PTL DEF Spec, Placed
<1>3. Spec => [][Gives]_vars
  BY <1>1, <1>2, PTL
<1> QED
  BY <1>3 DEF FetchGivesChannel, Gives

-----------------------------------------------------------------------------
(* A process none of whose callers runs on the item's event base. *)

(* An item that has no channel yet has its first update at the head of the only
   queue that is used. *)
ItemBegins ==
  /\ tasks["loop"] = <<>>
  /\ ~cached => tasks["notified"] = <<>>
  /\ cached /\ channel = NoChannel =>
       tasks["notified"] # <<>> /\ Head(tasks["notified"]).op = "update"

OffLoop == ItemBegins /\ NoNullChannel

(* A task at the end of the notification queue leaves the first one first. *)
LEMMA NotifiedLater ==
  ASSUME Inv, NEW t \in Tasks, via("notified", t)
  PROVE  /\ tasks'["loop"] = tasks["loop"] /\ tasks'["notified"] # <<>>
         /\ Head(tasks'["notified"]) = IF tasks["notified"] = <<>> THEN t ELSE Head(tasks["notified"])
<1>1. /\ tasks \in [Queues -> Seq(Tasks)] /\ tasks["notified"] \in Seq(Tasks)
      /\ {"loop", "notified"} \subseteq Queues
  BY QueueTypes DEF Queues
<1>2. tasks'["loop"] = tasks["loop"] /\ tasks'["notified"] = Append(tasks["notified"], t)
  BY <1>1 DEF via
<1> QED
  BY <1>1, <1>2, HeadTailAppend, AppendProperties

(* The continuation of get gives an item its first update before any other task. *)
LEMMA FetchedOffLoop ==
  ASSUME Inv, OffLoop, NEW a \in Answers, Fetched(a, "notified"), channel' = channel
  PROVE  OffLoop'
<1>1. a.by \in Callers /\ a.info \in Infos
  BY DEF Answers
<1>2. NoNullChannel'
  <2>1. \E x \in {"waiting", "exception"} : call' = [call EXCEPT ![a.by] = x]
    BY DEF Fetched
  <2> QED
    BY <1>1, <2>1, QueueTypes DEF OffLoop, NoNullChannel
<1>3. CASE updateConnection_(a.info, TRUE, a.by, "notified")
  <2> DEFINE t == [op |-> "update", info |-> a.info, by |-> a.by]
  <2>1. t \in Tasks /\ t.op = "update" /\ cached' = TRUE /\ via("notified", t)
    BY <1>1, <1>3 DEF Tasks, updateConnection_
  <2> HIDE DEF t
  <2> QED
    BY <1>2, <2>1, NotifiedLater DEF OffLoop, ItemBegins
<1>4. CASE UNCHANGED <<cached, tasks>>
  BY <1>2, <1>4 DEF OffLoop, ItemBegins
<1> QED
  BY <1>3, <1>4 DEF Fetched

(* Every step, when no caller's work goes to the callbacks of the loop. *)
LEMMA NextOffLoop ==
  ASSUME Local = {}, Inv, OffLoop, [Next]_vars
  PROVE  OffLoop'
<1>1. \A c : QueueOf(c) = "notified"
  BY DEF QueueOf
<1>2. CASE \/ addService \/ (\E a \in Addrs : StartService(a)) \/ ensureDatasphereMembership_
           \/ SetServiceInfo \/ publishServiceInfomation_ \/ run \/ shutdown
           \/ ServeGet \/ UNCHANGED vars
  BY <1>2 DEF addService, StartService, ensureDatasphereMembership_, SetServiceInfo,
              publishServiceInfomation_, run, shutdown, ServeGet, vars, cache,
              OffLoop, ItemBegins, NoNullChannel
<1>3. CASE Connect
  <2>1. channel' # NoChannel /\ UNCHANGED <<cached, tasks, call>>
    BY <1>3, ConnectInv DEF Connect
  <2> QED
    BY <2>1 DEF OffLoop, ItemBegins, NoNullChannel
<1>4. ASSUME NEW c \in Callers,
             getHeaderClientChannel(c) \/ getHeaderClientChannelFromCache(c) \/ sendKVBMessage(c)
      PROVE  OffLoop'
  <2> DEFINE t == [op |-> "getChannel", by |-> c]
  <2>1. t \in Tasks
    BY CallerTask
  <2> HIDE DEF t
  <2>2. /\ UNCHANGED <<cached, channel>>
        /\ tasks' = tasks \/ (cached /\ via("notified", t))
        /\ \E x \in {"waiting", "asking", "miss", "idle"} : call' = [call EXCEPT ![c] = x]
    BY <1>1, <1>4 DEF getHeaderClientChannel, getHeaderClientChannelFromCache, sendKVBMessage, cache, t
  <2>3. NoNullChannel'
    BY <2>2, QueueTypes DEF OffLoop, NoNullChannel
  <2>4. CASE tasks' = tasks
    BY <2>2, <2>3, <2>4 DEF OffLoop, ItemBegins
  <2>5. CASE cached /\ via("notified", t)
    BY <2>1, <2>2, <2>3, <2>5, NotifiedLater DEF OffLoop, ItemBegins
  <2> QED
    BY <2>2, <2>4, <2>5
<1>5. CASE dataCompletionCb
  <2>1. Head(answers) \in Answers /\ channel' = channel
    BY <1>5, AnswerTaken DEF dataCompletionCb
  <2>2. CASE UNCHANGED <<cached, tasks, call>>
    BY <2>1, <2>2 DEF OffLoop, ItemBegins, NoNullChannel
  <2> QED
    BY <1>5, <2>1, <2>2, FetchedOffLoop DEF dataCompletionCb
<1>6. ASSUME NEW c \in Callers, then(c) PROVE OffLoop'
  <2>1. early \subseteq Answers /\ channel' = channel
    BY <1>6 DEF Inv, TypeOK, then
  <2>2. CASE call' = [call EXCEPT ![c] = "waiting"] /\ UNCHANGED <<cached, tasks>>
    <3>1. NoNullChannel'
      BY <2>2, QueueTypes DEF OffLoop, NoNullChannel
    <3> QED
      BY <2>1, <2>2, <3>1 DEF OffLoop, ItemBegins
  <2>3. ASSUME NEW a \in early, Fetched(a, QueueOf(c)) PROVE OffLoop'
    BY <1>1, <2>1, <2>3, FetchedOffLoop
  <2> QED
    BY <1>6, <2>2, <2>3 DEF then
<1>7. CASE receiveUpdate
  <2>1. UNCHANGED <<channel, call>>
    BY <1>7 DEF receiveUpdate
  <2>2. CASE UNCHANGED <<cached, tasks>>
    BY <2>1, <2>2 DEF OffLoop, ItemBegins, NoNullChannel
  <2>3. CASE updateConnection_(Head(topic), FALSE, Nobody, "notified")
    <3> DEFINE t == [op |-> "update", info |-> Head(topic), by |-> Nobody]
    <3>1. Head(topic) \in Infos
      BY <1>7, HeadTailProperties DEF receiveUpdate, Inv, TypeOK
    <3>2. t \in Tasks /\ cached /\ cached' = TRUE /\ via("notified", t)
      BY <2>3, <3>1 DEF Tasks, updateConnection_
    <3> HIDE DEF t
    <3> QED
      BY <2>1, <3>2, NotifiedLater DEF OffLoop, ItemBegins, NoNullChannel
  <2> QED
    BY <1>7, <2>2, <2>3 DEF receiveUpdate
<1>8. ASSUME NEW q \in Queues, update(q) \/ getChannel(q) PROVE OffLoop'
  <2>1. PICK op : Takes(q, op) /\ cached' = cached
    BY <1>8 DEF update, getChannel
  <2>2. q = "notified" /\ cached
    BY <2>1 DEF Takes, OffLoop, ItemBegins, Queues
  <2>3. tasks'["loop"] = <<>>
    BY <2>1, <2>2, QueueTypes DEF Takes, OffLoop, ItemBegins, Queues
  <2>4. CASE update(q)
    <3>1. channel' # NoChannel /\ Given(channel') = "open"
      BY <2>4, UpdateConnects
    <3>2. \A c \in Callers : call'[c] \in {Given(channel'), "closed", call[c]}
      BY <2>4 DEF update
    <3>3. NoNullChannel'
      BY <3>1, <3>2 DEF OffLoop, NoNullChannel
    <3> QED
      BY <2>1, <2>2, <2>3, <3>1, <3>3 DEF OffLoop, ItemBegins
  <2>5. CASE getChannel(q)
    <3>1. channel # NoChannel /\ channel' = channel
      BY <2>2, <2>5 DEF getChannel, Takes, OffLoop, ItemBegins
    <3>2. call' = [call EXCEPT ![Head(tasks[q]).by] = "open"]
      BY <2>5, <3>1 DEF getChannel, Given
    <3>3. NoNullChannel'
      BY <3>2, QueueTypes DEF OffLoop, NoNullChannel
    <3> QED
      BY <2>1, <2>2, <2>3, <3>1, <3>3 DEF OffLoop, ItemBegins
  <2> QED
    BY <1>8, <2>4, <2>5
<1> QED
  BY <1>2, <1>3, <1>4, <1>5, <1>6, <1>7, <1>8 DEF Next

(* When no caller runs on the item's event base, whoever finds the service's item in
   connections_ is given a channel of it, for any number of callers and however
   gets, announcements and updates interleave: only work that was given to the event
   base on its own thread can overtake an item's first update. *)
THEOREM ChannelsGiven ==
  ASSUME Local = {}
  PROVE  Spec => []NoNullChannel
<1>1. Init => OffLoop
  BY DEF Init, OffLoop, ItemBegins, NoNullChannel, Queues
<1>2. Inv /\ OffLoop /\ [Next]_vars => OffLoop'
  BY NextOffLoop
<1>3. OffLoop => NoNullChannel
  BY DEF OffLoop
<1> QED
  BY <1>1, <1>2, <1>3, InvCorrect, PTL DEF Spec
=============================================================================
