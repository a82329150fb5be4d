# datom: TLA+ specifications, model checking and proofs

datom is a small distributed object store in C++. A *data sphere* runs a
configuration service and a set of volume servers; volumes are placed on *rings*
of servers, and the servers of a ring form a *primary/backup group* for each
volume. This directory specifies the parts of it that are hard to test: the
election of a group's leader through ZooKeeper, the replication of writes, the
configuration of a sphere's rings and volumes with their placement on servers, the
connections between services, and the synchronous ZooKeeper adapter.

All source paths below are relative to the repository's `src/` directory (so
`infra/PBMember.cpp` is `src/src/infra/PBMember.cpp` from the top).

## 1. Inventory

| Component | State | Operations | Interacts with | What is hard |
|---|---|---|---|---|
| **PBMember**, elector role (`infra/PBMember.cpp`) | `state_`, `termId_`, `lastElectionTimepoint_`, timers | `init`, `watchCb_`, `handleGroupWatchEvent`, `acquireLock_`, `increaseTerm_`, `issueElectionRequest_`, `handleElectionResponse`, `removeLock_`, `sendBecomeLeaderMsg_` | ZooKeeper (children, LOCK, version of the group's key), the other members (GetMemberState, BecomeLeader) | chains of continuations over several round trips, watches on another thread, expired sessions, late messages, retries |
| **PBMember**, leader role | `leaderCtx_` (peers with state and version, `opId`, `commitId`), `state_` | `handleBecomeLeaderMsg`, `groupWriteInEb_`, `writeToPeers`, `changePeerState_`, `handleAddToGroupMsg` | peers' `handleMetadataWrite`, the client of the write | answers in any order, failures that are late successes, versions that are never initialized |
| **VolumeReplica** (`volumeserver/VolumeServer.cpp`) | journal (memory), database (disk), `leaderId_`, `version_` | `updateBlobMeta`, `handleMetadataWrite`, `handleGroupInfoUpdateMsg`, `runSyncProtocol`, `pullJournalEntries_`, `notifyLeader_` | the leader (AddToGroup, PullJournalEntries) | journal and database fail separately; a sync that completes in another role |
| **Journal** (`infra/Journal.cpp`) | list of entries | `addEntry`, `removeLastEntry`, `retrieveEntries` | VolumeReplica | gaps, order |
| **VolumeMetaDb** (`volumeserver/VolumeMetaDb.cpp`) | RocksDB keys `blob:offset` | `applyUpdate`, `getBlobMeta` | VolumeReplica | order of encoded keys |
| **PBResourceMgr** (`infra/PBResourceMgr.tcc`) | ring and resource tables | pull tables, subscribe, create replicas | ZooKeeper, Kafka | what is published between the pull and the subscription |
| **ConfigService** (`configservice/ConfigService.cpp`) | spheres, services, rings, volumes, in memory and in ZooKeeper | `createDatom`, `addDataSphere`, `addService`, `addVolume`, the list calls; `init` reads nothing back | ZooKeeper, Kafka | checks before and insertions after a round trip; partial writes and restarts |
| **ConnectionCache** (`infra/ConnectionCache.cpp`) | service id to channel | `getHeaderClientChannel`, `updateConnection_`, `ConnectionItem::update` | ZooKeeper, Kafka, every sender | fetches racing updates; the version guard; a service that announces itself before it listens |
| **ZooKafkaClient**, **KafkaClient** (`infra/`) | sessions, watches, subscriptions | `create*`, `set`, `del`, `get*`, `publishMessage`, `subscribeToTopic` | everything above | callbacks on other threads |
| **ZooKeeperAdapter** (`infra/zk/zkadapter.cc`; in the repository, linked by no target yet) | session handle, `m_state`, remaining connect timeout, event queues, contexts of watches | the node operations with their retries, `verifyConnection`, `reconnect`, two dispatcher threads | the ZooKeeper C client, callers, listeners | retries of what was done, waits without a connection, watches that go off before their context is registered, events of closed sessions |
| **Service**, **MessageUtils** (`infra/`) | modules of a process, handler table | `init`, `shutdown`, dispatch of `KVBuffer` messages | everything above | order of start-up |

What makes each correct, as far as the repository says it:

- *Election*: at most one member coordinates a group; the lock that guarantees it
  is neither taken from its holder nor leaked; terms number elections; a group
  whose members run gets a leader.
- *Replication*: a write is acknowledged only when a quorum has it, and answered
  once; the leader writes exactly while it has a quorum; peers' journals are
  gapless copies of the leader's; a member that joins catches up first.
- *Configuration, placement*: names and ids are unique; what is persisted, held
  in memory and published agree; every server ends up with the replicas of its
  rings.
- *Connections*: a sender gets a channel or an exception, never nothing, and ends
  up with the address the running service published.
- *Adapter*: an operation returns or throws, and reports what the server did; a
  listener is told of its watch with the context it left.

`PROJECT.json` lists every component with its status and, under `hazards`, the
lines where these things could go wrong.

## 2. Modules

| Module | Models | Proofs |
|---|---|---|
| `PBElection` | the elector role and the hand-over to the leader, with the ZooKeeper group they share | `PBElection_proofs`, `PBElectionTerms_proofs` |
| `PBGroup` | the leader role, writes, journals, databases and the join protocol | `PBGroup_proofs`, `PBGroupTerm_proofs` |
| `ReplicatedWrites` | what a group promises its clients: the abstract specification `PBGroup` implements | (refinement in `PBGroup_proofs`) |
| `ConfigTree` | the configuration service, the ZooKeeper tree, the topic of volumes and the resource managers of the servers | `ConfigTree_proofs` |
| `ConnectionCache` | one process's cache of the connection to a service, and that service's starts and stops | `ConnectionCache_proofs` |
| `ZkAdapter` | the ZooKeeper adapter with its callers, dispatchers, the client library and the server | `ZkAdapter_proofs` |
| `MC*` | instances of these for TLC | |

`PBGroup` takes the election as one step, `ElectLeader`, with the effect
`PBElection` describes in many: an elector in FOLLOWER_WAIT_TO_JOIN_GROUP, a set of
at least `Quorum` responders, the first of them leader, LOCK free before.

### PBElection

One member is one VolumeReplica on one event base (`eb_`), so a handler or a
continuation is one atomic action. What interleaves is explicit:

- `req[m]`, `resp[m]`: the member's ZooKeeper requests and their results. ZooKeeper
  serves a session's requests in order (`Serve*` actions) and the event base
  handles results in that order (`*Result` actions). A chain such as
  LOCK → term → children in `handleGroupWatchEvent` is a result that issues the
  next request.
- `watch[m]`, `rereads[m]`: registered watchers and calls of `watchCb_` that are
  due. `watchCb_` runs on the ZooKeeper client's thread; its read may be served
  before or after the requests in `req[m]`. The init read of the children registers
  a watch and its result is ignored, as in the code. The timer of
  `scheduleGroupWatchEvent_` adds a call, and with it a further watcher.
- `votes[e]`: the GetMemberState round of elector `e`; every member answers, fails
  or is still asked. `msgs`: BecomeLeaderMsgs.
- `alive`, `lock`, `nodes`, `version`: ZooKeeper's side. A session expires when its
  process is gone or, with `SessionLoss`, under a running one; its ephemeral nodes
  go in the same step. `termId_` is the version of the group's key.
- `cooling[m]`: less than GROUPWATCH_INTERVAL_MS since `lastElectionTimepoint_`.

`Children(m)` abstracts the list of child names to what the handlers ask of it.
`handleError_` is `CHECK(!"Unimplemented")`: `Die`, after which the process may be
started again with a new session. Errors of the service other than an existing or
missing LOCK and a lost session are not modelled. Followers take over a leader's term
from GroupInfoUpdateMsg (`handleGroupInfoUpdateMsg`); that handler is in `PBGroup`, and
`UniqueTerms` says nothing of followers' terms.

### PBGroup

`writes[w]` is the WriteCtx of a write with what its client knows; `out[w][p]` what
the leader waits for; `inbox` the requests a peer may still handle. They are
separate because `ConnectionItem::update` replaces the channel to a peer at any
time: the leader sees a failure while the request, already at the peer, is applied
later, and two requests to one peer may overtake each other. `version_` is never
initialized, so it is any member of `Versions`. `commitId_` is only assigned by the
constructor: the sync protocol compares -1 with -1, and the branch of
`pullJournalEntries_` that sends requests is not reachable (not modelled). The sync
protocol's continuation has no `via(eb_)`: it runs on the event base of the
connection, and if that is not the member's the DCHECK in `pullJournalEntries_`
ends the process (`SyncOffEventBase`), as a failing AddToGroup does
(`CHECK(false)`). Nothing in the repository sends GroupInfoUpdateMsg; the model
takes it as `pbapi.thrift` describes it, from a current leader and possibly stale.
Writes to a member that is not a functional leader are rejected without any change
and are not actions. The last DCHECK of `changePeerState_` (`PBMember.cpp:604`) is
`QuorumStateExact` while the member is in a leader state; a member that lost that state
to a completing sync would fail it in a debug build and goes on in
the model.

The journal lives in memory (a `std::list`), the database on disk: a restart keeps
`db` and loses `journal`.

### ConfigTree

Three kinds of process share the tree. The *configuration service* answers RPCs on
the two `Workers` of its thread manager (`ServiceServer::start`), which block in
`Future::get`; `call[t].at` is where a worker is: waiting for its own create, for
`eb_`, or for the create `eb_` issued for it. Rings and volumes live on one event
base, so `addServiceInEb`, `addResource` and each continuation are one step.
`reqs` and `conts` are the creates on their way and their results; both are FIFO,
because a session is served in order and all chains of `createIncludingAncestors`
for rings and volumes have the same length. The ancestors' creates are left out
except the rings' parent, whose absence makes a starting server fail.
`LoseConnection` fails all outstanding requests, of which any prefix (and any of
the workers' own creates) took effect. A crash, or the `CHECK` on a ring that could
not be added, is `EndProcess`: tables are lost and nothing is read back.

A *server* checks its own node (`StartServer`), pulls rings, then resources, then
subscribes. `Subscribe` is the moment the broker assigns the partition: the
consumer starts from the committed position of its group (the service's id) or,
for a new group, from the end (librdkafka's default, which the code keeps);
positions are committed from time to time, so a restarted server sees some
messages again. The topic has one partition. A message for a known volume runs
into `DCHECK(!"unimplemented")`: the process ends. `increaseTerm` is the one step
of `PBElection` that matters here: it erases the payload of the resource's node,
which the pull of a later start cannot deserialize (Thrift's JSON reader throws on
an empty buffer; external).

Abstractions: one data sphere, after createDatom; ids of services and names of
volumes are model values; a `ServiceInfo` is its id. The list calls read only.

### ConnectionCache

One process (callers, the ZooKeeper completion thread, the Kafka consume thread and
the event base of the item) and the one service it reaches. `call[c]` is where a
caller is and what it holds; `gets` and `answers` are its fetches on the way to
ZooKeeper and back, FIFO as one session is; `topic` is what TOPIC_SERVICES still
holds for this process.

`tasks` are the two queues of the item's event base. folly puts work that another
thread gives with `via` into the notification queue and work given on the event base's
own thread into the callbacks of its loop; each is served in order and neither before
the other. `Local` are the callers on that thread: a service's PBMembers and its
connection items take their event bases from one pool of two (`Service.cpp:198`). A
fetch's continuation runs on the completion thread, or on the caller's own when the
answer is there before `then` is called (`early`), so its update too may go into either
queue. A caller on the event base occupies it until it has given its continuation
(`LoopFree`).

Insertion into `connections_` and the call of `update` are one critical section, so
`updateConnection_` is one step that leaves a task behind. `version_` is -1 for
ever: the guard of `update` admits everything. `svc` is the service's process:
`init` (membership, set, publish) and `run` are separate steps in the code's order,
each of which may fail or be the last; `start` numbers its processes, and a channel
remembers which of them accepted it (`peer`, 0: refused). A socket connects once,
when it is made, and nothing connects it again (`Connect`). The promise of a caller
travels with its fetch, the fetch's answer and the task on the event base:
`OnePromiseEach` says that it is always in exactly one of these places. What a caller
sends over the channel is one step that ends the call (`sendKVBMessage`).

### ZkAdapter

`call[t]` is the operation a caller is in: which request of it (`phase`: the first
attempt, the nested create of an ancestor, the listing and the children of a
recursive delete, the final attempt), the retries left of its RetryHandler, and how
far that request is: `verify` and `wait` in verifyConnection, `begin` before the
library is called with `mp_zkHandle` (outside the lock, so that the session may be
replaced in between), `sent`, `back`. `m_stateLock` is held for one step at a time
and given up by `wait`, whose waiters `notify` wakes one by one (pthread_cond_signal);
`m_zkContextsMutex` is held over a request and is a variable. `made` and `lossy`
are history: what the requests did to the call's own node, and whether an answer
was lost. The library and the server are external: a tree with versions, one-time
watches, a session that connects, loses its connection and expires. Abstractions:
paths have at most two names; `deleteNode` takes version -1, its default; a session
event is handed to listeners without a context and is not kept in `m_userEvents`;
listeners are added to the adapter at the start and do nothing; malformed paths are not
passed (`validatePath`). A caller may pass a context with or without a listener: without
one the code sets no watch and still registers it, under NULL. `fired` remembers who was
given whose context and with which listener it was left. Two things are left out: a
constructor whose `reconnect()` throws (`zkadapter.cc:171`), with both dispatchers
already running over an object that is never destroyed properly, and a handle that
another thread closes between its being read and used (`zkadapter.cc:227` against 538);
in the model both are one step (`Begin`).

## 3. Runs

| Run | Instance | Shows |
|---|---|---|
| `election_safety` | 2 members, 2 terms, 2 sessions each, 1 result queued; sessions expire, messages fail | types, `LockClaims`, `ExclusiveCoordinator`, `DchecksHold`, `UniqueTerms`, `LockTakenFromNobody` |
| `election_live` | 2 members, 2 terms, one kill, restarts | `LockIsUsed`, `ElectionsEnd`; `EventuallyLed` when nobody is killed |
| `election_stuck` | 2 members, 1 term, messages fail | `QuorumStartsElection` **violated**: an election that lacks one answer is never retried |
| `group` | 3 members, 1 write, a leader, a crash, a join, `version_` 0 or above, messages and databases fail | types, `QuorumStateExact`, `AckedOnQuorum`, `ImplementsPromise`, `EveryWriteAnswered`, `SyncEnds` |
| `group_term` | 3 members, 3 writes, 1 leader, a crash, messages fail | `FunctionalPeersCurrent`, `JournalsFollowLeader` |
| `latest_state` | 3 members, 1 write, 2 leaders, a crash | `LeaderHasLatestState` **violated**: an acknowledged write is missing in the next leader |
| `config_safety` | 4 volume servers, one of them started, rings of 2, 2 workers, 7 RPCs, a crash, a lost connection, lost announcements | types, `RingsWellFormed`, `VolumesOnRings`, `TreeFirst`, `IdsFresh`, `ReplicasOwned` |
| `config_live` | 1 volume server and another service, rings of 1, 2 workers, 4 RPCs, the same faults | `CallsReturn`, `AnnouncedReplicated` |
| `server_start` | 2 volume servers, a ring of 2, no faults | `ServersComeUp` **violated**: after an election for a volume no server can start |
| `connections` | 2 callers, one of them on the item's event base, 2 addresses, 2 starts of the service; ZooKeeper requests fail, announcements are lost | types, `OnePromiseEach`, `FetchGivesChannel`, `CallsAnswered`, `AnnouncementReconnects` |
| `null_channel` | the same callers, 1 address, 1 start, no faults | `NoNullChannel` **violated**: a caller on the event base overtakes the item's first update |
| `zk_adapter` | a writer and a watcher, one call each, both may leave a context; a node and its child there or not, a lost connection, an expired session, failing reconnects | types, `ContextsBacked`, `ResultsReported`, `CallsReturn`, `WatchNotified`, `JoinsReturn` |

Deadlock is not checked: a group that is led and has no request is quiescent, and so
are a configured sphere, an idle cache and an adapter whose callers are done.

*Bounds.* Two members are the smallest group in which an elector, its successor
and a late leader compete; two terms let a message of the first election meet the
second; two sessions let a restarted member meet its own lingering node (the code
counts it twice); `MaxLag = 1` still lets a result wait on the event base while the
service serves the next request (with `MaxLag = 2` the run also passes, in a few
minutes). Three members are the smallest group in which the quorum of 2 (the
constant in `PBResourceMgr.tcc`) can lose a peer. Three writes are enough for a
gap and a reordering in one journal; two elections (`latest_state`)
for a write of an old leader to be applied under a new one. Seven RPCs are the sphere, four services on two rings
and two volumes, one of each ring; rings of 2 stand for the code's 3, so that a
service can be pending. Two starts are what it takes for a cached channel to lead to
a process that is gone, at the same address or another; two callers for a fetch to
come back behind an announcement or another fetch, and, one of them on the item's
event base, for its two queues to race. In `zk_adapter` each caller has
one call of several requests, and both may want `m_zkContextsMutex`; one drop and one expiry, together with user calls of
`disconnect` and `reconnect`, let a retry meet its own first attempt, a waiter meet
an expired session and an event outlive its session. `ConnectTimeout` is one unit:
a wait ends with some of it left or none. The safety properties that matter most are also
proved for every bound (section 4).

*Symmetry.* Writes are interchangeable (`group_term`), and so are the workers and the servers that are
not started (`config_safety`). Members are not: the order
of `memberIds_` picks the leader.

*Fairness.* Weak fairness of: serving a connected client's requests and watch
reads; the event base running what is queued on it; timers; an RPC being answered
or failing; the expiry of a dead process's session; the restart of an ended
process. Crashes, lost messages and expiry of a live session are never owed.
`TimelyLeader` makes the 10 s interval longer than the hand-over; without it the
retry races the new leader, and the loser's process ends (`handleError_`), so
`EventuallyLed` would depend on how often that happens. For writes: a request
reaches a running peer, and an answer or a failure reaches the leader. For the
configuration: ZooKeeper answers, workers and the event base run, a server that is
not up is started again, and a consumer delivers what its topic holds. RPCs,
elections, commits and faults are never owed. For the cache: its threads run,
the event base serves both its queues in every round of its loop, ZooKeeper's client answers or fails a get, a connect ends (CONNECTION_TIMEOUT_MS);
the service owes nothing. For the adapter: threads run, timed waits end, and the
library answers or gives up every request; a connection is never owed, nor a call.

*What the properties do not say.* `UniqueTerms` numbers elections, not members: a
follower may hold the term of its leader or of an election that is over. Nor do
members do what `pbapi.thrift:44` asks on an election with a higher term, to increase
their own and wait to join: `handleGetMemberStateMsg` only answers, so that a member
still takes the BecomeLeaderMsg of an older election and asks for LOCK beside the
elector it has answered; `ExclusiveCoordinator` holds because LOCK has one owner. `ExclusiveCoordinator` is about members whose
session is alive. A process cut off from ZooKeeper keeps its role until its client
learns of the expiry, beside its successor. "error" promises nothing about a
write: a failed write may be applied by some members, then or later.
`FunctionalPeersCurrent` and `JournalsFollowLeader` hold within one leader's term:
across terms commit ids start again from 0 and journals of old terms stay. The
former also needs that nobody joins, since a member that joins pulls nothing before it
calls itself functional, where `pbapi.thrift:147` says that it syncs up to
`syncCommitId`. Nor is there a property that a leader keeps its role: the continuation
of `runSyncProtocol` (`VolumeServer.cpp:89`) makes a follower of a member that was
elected while it synchronized, with LOCK in its hands. The model has that step; it takes
a GroupInfoUpdateMsg that nothing in the repository sends yet.
`AnnouncementReconnects` asks that the service listens when its announcement is
handled and that no fetch is on its way. Both are real limits: the service announces
itself in `init` and listens in `run`, and a cache that connects in between is
refused for good; a fetch sent before the service's new start and answered after its
announcement puts the old address back, since `update` never assigns `version_`, where
`design.md:25` says that cached sockets follow the updates. `FetchGivesChannel` is about callers
that missed; one that hits may be given null (`null_channel`). `ResultsReported` says nothing of calls that lost an answer
except that true is never reported without effect: a repeated create or delete
meets its own work and reports false, where `zkadapter.h:358` says that false means
not created, and a repeated createSequence may make a second node. `ContextsBacked` leaves out the two kinds of context the adapter
does leave behind: those of getNodeChildren, whose watch the deletion of the node ends
with an event `handleEvent` does not look up under GET_NODE_CHILDREN
(`zkadapter.cc:274`), and those passed without a listener, which are kept under NULL
though no watch is set and then given to every listener with the event of somebody
else's watch (`zkadapter.cc:708` and 316; `zkadapter.h:413` says they are not used). `WatchNotified` leaves them out too, and owes nothing once a
second session has begun. A failed local write of a leader consumes its
commit id, so that its journal refuses every later write (`addEntryOk`): such writes
are answered with an error, which is all `EveryWriteAnswered` asks.
`AnnouncedReplicated` is about servers that have subscribed: a volume announced
between a server's pull and its subscription is missed until the next start, as is
one whose ring was formed after the server read the rings. `IdsFresh` has a price:
after a restart of the configuration service its sphere rejects every call, since
the sphere is not in memory and its node cannot be created again.

## 4. Proofs

Seven modules of proofs, `PBElection_proofs`, `PBElectionTerms_proofs`,
`PBGroup_proofs`, `PBGroupTerm_proofs`, `ConfigTree_proofs`,
`ConnectionCache_proofs` and `ZkAdapter_proofs`, are checked by TLAPS. They hold for
every value of the constants that satisfies the named assumptions of the modules: any
finite group (any set of numbers in `PBElection`) and quorum of at least 1, any
servers, workers, volumes, callers, listeners and paths, and every bound on faults,
calls and queues. Each inductive invariant was checked by TLC on the runs' instances
before it was proved.

*Election.* `TypeCorrect` (TypeOK is inductive; it says that only live sessions own
LOCK and member nodes). `ExclusiveCoordinator` is not inductive: between acquiring
LOCK and acting on it a member has only a request in flight. The inductive
invariant is `TypeOK /\ LockClaims`: a *claim* is being a coordinator, a request
that only the holder of LOCK issues (increaseTerm, electorChildren, removeLock), or
an unhandled result that says LOCK was acquired or the chain goes on. A live
member with a claim owns LOCK and has only one; a process that ended has none.
Lemmas say how appending to and popping a queue moves claims; each action then moves
a claim from one place to the next. From it follow `ClaimsCorrect`, `Exclusivity`
(LOCK has one owner) and the action property `LockKept`: `del(LOCK, -1)` deletes
whoever's node it finds, yet it always finds the sender's own.

*Chains and terms* (`PBElectionTerms_proofs`). A DCHECK in a continuation is about the
state several round trips after the request, so `DchecksHold` needs `Chains`, which
holds together with `LockClaims`: a member's election is in one place at a time (one
*token* among its requests, its results and its votes), the member is in
the state in which that request or result is out, one that got LOCK as leader has no
election of its own left, and children read since an elector took LOCK show LOCK.
`UniqueTerms` needs `Terms`: a term is on its way to one elector, or that of one open
election, or in one BecomeLeaderMsg, and never above the version of the group's key.
What members carry outside an open election is not part of it.

*Replication.* `TypeCorrect` needs `LeadersKnown` (a member that synchronizes knows
its leader, so the second `notifyLeader_` has an address) and `WaitsForPeers` (the
leader waits only for other members' answers to its own writes).
`QuorumStateCorrect`: every action that changes peers counts again, and a new leader
starts with `|S| - 1 >= Quorum - 1` functional peers. `AckedCorrect` rests on
`Accounted(w)`: the holder of the context has the write, an "applied" answer means
the peer has it, and `nSuccess` is at most the number of peers that have the write
and whose answer has been handled, so `Quorum - 1` successes and the leader make a
quorum; databases only grow. `PromiseKept` is the refinement: with
`applied[w]` the members whose database has `w` and `answer[w]` what the client was
told, every step is one `Apply`, `Succeed`, `Fail` or a stutter, under crashes,
re-elections and joins.

*The first term* (`PBGroupTerm_proofs`). `JournalsCorrect` states
`term <= 1 => JournalsFollowLeader`: `Gapless` (commit ids in a journal are
consecutive), `UsedOnly` (a write that was not made is nowhere), `BeforeTerm` (before
the first leader nothing is written) and `FirstTerm` (in its term there is one leader,
and whatever is in a journal or on its way to one is in the leader's). Two journals
without gaps, one within the other, run side by side. `PeersCorrect`
states `term <= 1 /\ joins = 0 => FunctionalPeersCurrent`; its invariant
`PeersFollow` says of every write of the leader and every functional peer that the
peer has it or that the leader still waits for its answer. The antecedents are the
terms the property is about, not assumptions: the violated run `latest_state` shows
why nothing like it holds across terms.

*Configuration* (`ConfigTree_proofs`). All six invariants follow from one, `Inv`. Its
key is that a sphere is added once in the life of the tree: a service that restarts
has counters from 0 but no sphere in memory, rejects every call, and so never creates
a ring or a volume beside older ones. While it has the sphere, ring ids are dense: the
ids of `rings`, then of the results and then of the requests are consecutive, in order,
and end at `nextAddRingId`, which is why `id % |rings|` always names a ring in memory
and in the tree; volumes' ids are in order and below `nextResourceId`. Services in rings, in results, in requests and
pending are pairwise apart, which makes the rings a partition.

*Connections* (`ConnectionCache_proofs`). `OnePromiseEach` is inductive with the types:
each step moves a caller from one place to the next. `FetchesGiven` (the action
property `FetchGivesChannel`) needs that every answer and update carries an info that
was written, of version 0 or more and so above `version_`: the caller's own update makes
a channel whatever ran before it. Both hold for callers on any thread. `ChannelsGiven`
(`NoNullChannel`) is proved under `Local = {}`: then everything goes through the
notification queue, and while `channel` is null and the item is cached the first task
of that queue is an update. `null_channel` shows that the assumption is needed.

*Adapter* (`ZkAdapter_proofs`). `CallStep` says what any step of the system may do to
a call; every action takes every call one such step (`NextCalls`). `TypeCorrect` adds
the phases an operation can be in and that a wait's time is never more than its
timeout, so `m_remainingConnectTimeout` never grows by waiting. `ResultsCorrect` rests
on `MadeCounts`: without a lost answer the count of nodes made is 1 exactly when the
answer to the call's own request is "ok". `ContextsCorrect` needs three more facts: a
request that is out belongs to the handle's session and every context to a session
there was (`SessionsOK`, so a reconnect leaves no old context with the new handle); a
caller that will register a context holds `m_zkContextsMutex` from Begin to Return
(`MutexHeld`); and a context about to be registered is backed already
(`PendingBacked`), since `handleEvent` cannot take its event while the mutex is held. The theorem is about
contexts of nodeExists and getNodeData left with a listener; callers may leave others
beside them.

*Assumptions.* Only the named ones of the modules, which the code justifies:
constants have their types, the quorum is positive, ids are numbers, `NULL` is no
caller or listener, callers pass operations of the interface and, in `ZkAdapter`,
paths have one or two names. TLC evaluates them in every run.

*Only model-checked*: everything temporal. Liveness under fairness and ENABLED are out
of the prover's reach: `EventuallyLed`, `LockIsUsed`, `ElectionsEnd`,
`EveryWriteAnswered`, `SyncEnds`, both `CallsReturn`, `AnnouncedReplicated`,
`CallsAnswered`, `AnnouncementReconnects`, `WatchNotified`, `JoinsReturn`; and the
violated properties, each by a counterexample.

## 5. Not modelled

The pull branch of the sync protocol (not reachable, see above); opaque payloads,
serialization and logging; the generic Timer and asynchronous wrappers of
`infra/zk/event.h` (the adapter does not use them), `infra/temp`, `replica/` and
`RedundantVolumeConfigMgr` (not built or stubs), the Python command line, test
helpers, tools and examples. `VolumeMetaDb::getBlobMeta` has no handler: only a test
calls it. `ZooKafkaClient::init` loops until it is connected, before anything else
of the process runs.

## 6. Plan

1. *Done*: `PBElection`, `PBGroup`, `ReplicatedWrites`, `ConfigTree`,
   `ConnectionCache`, `ZkAdapter`, model-checked; every safety property of a passing
   run proved.
2. Volume names: two concurrent addVolume calls with one name; announcements that
   reach a server twice.
3. `PBGroup` with expiring leader sessions: an old leader that still writes beside
   its successor, and what peers without a term check make of it.
4. `JournalsFollowLeader` for a later leader whose group was restarted in between:
   which journals a term may inherit.
