----------------------------- MODULE PBElection -----------------------------
(***************************************************************************)
(* Leader election of one primary/backup group (infra/PBMember.cpp).       *)
(*                                                                         *)
(* The members of a group share a znode, groupKey_.  Its children are one  *)
(* ephemeral sequential node per running member and at most one ephemeral  *)
(* LOCK; its version is the term.  The member with the lowest sequence     *)
(* number takes LOCK as elector, asks every member for its state, gives    *)
(* LOCK back and tells the first responder to become leader, which takes   *)
(* LOCK again.                                                             *)
(*                                                                         *)
(* A member runs on one event base, so each handler is one atomic action.  *)
(* What interleaves is the traffic: coordination requests are pipelined    *)
(* (req[m], served in order by the coordination service; resp[m], their    *)
(* results, handled in the same order by the event base), watch callbacks  *)
(* run on the coordination client's own thread, GetMemberState and         *)
(* BecomeLeader messages take any time, processes die and sessions expire. *)
(***************************************************************************)
EXTENDS Integers, Sequences, FiniteSets

CONSTANTS
  Members,       \* memberIds_, as numbers: the list order is the number order
  Quorum,        \* quorum_
  NoOwner,       \* owner of LOCK when the node does not exist
  MaxTerm,       \* bound: no member becomes elector once the term is MaxTerm
  MaxSessions,   \* bound: a member process is started at most MaxSessions times
  MaxCrashes,    \* bound: at most MaxCrashes processes are killed from outside
  MaxLag,        \* bound: re-reads are served while fewer than MaxLag results wait
  SessionLoss,   \* may a session expire while its process still runs?
  RpcFaults,     \* may a message to a running member fail or be lost?
  TimelyLeader   \* is the 10 s interval longer than the handover to the leader?

INVALID_VALUE == -1

ASSUME MembersAssumption == Members \subseteq Nat
ASSUME QuorumAssumption == Quorum \in Nat \ {0}
ASSUME NoOwnerAssumption == NoOwner \notin Members \X Nat
ASSUME BoundsAssumption ==
  /\ MaxTerm \in Nat
  /\ MaxSessions \in Nat
  /\ MaxCrashes \in Nat
  /\ MaxLag \in Nat
  /\ {SessionLoss, RpcFaults, TimelyLeader} \subseteq BOOLEAN

VARIABLES
  \* The member processes.
  crashes,   \* processes killed so far
  up,        \* is the process running?
  sess,      \* number of the process's latest coordination session, 0 if none
  state,     \* state_
  termId,    \* termId_
  cooling,   \* less than GROUPWATCH_INTERVAL_MS since lastElectionTimepoint_?
  timers,    \* manual group watch events scheduled and not yet run
  votes,     \* the election request in progress: each member's answer
  \* Between the members and the coordination service.
  req,       \* coordination requests not yet served, oldest first
  resp,      \* results not yet handled by the event base, oldest first
  watch,     \* watchers registered on the children of groupKey_
  rereads,   \* calls of watchCb_ due or made whose getChildren is not served yet
  msgs,      \* BecomeLeaderMsgs in flight
  \* The coordination service.
  alive,     \* sessions that have not expired
  lock,      \* the session owning the LOCK node
  nodes,     \* the members' sequential nodes
  nextSeq,   \* next sequence number below groupKey_
  version    \* version of groupKey_

procVars == <<crashes, up, sess, state, termId, cooling, timers, votes>>
netVars  == <<req, resp, watch, rereads, msgs>>
zkVars   == <<alive, lock, nodes, nextSeq, version>>
vars     == <<procVars, netVars, zkVars>>

-----------------------------------------------------------------------------
(* Member states and roles. *)

FollowerStates == {"FOLLOWER_WAIT_TO_JOIN_GROUP"}
ElectorStates  == {"EC_ACQUIRE_LOCK", "EC_WAITING_FOR_QUORUM", "EC_ELECTION_IN_PROGRESS"}
LeaderStates   == {"LEADER_WAITING_FOR_QUORUM", "LEADER_FUNCTIONAL"}
MemberStates   == {"UNINITIALIZED"} \cup FollowerStates \cup ElectorStates \cup LeaderStates

Sessions   == Members \X Nat
Session(m) == <<m, sess[m]>>
Live(m)    == up[m] /\ Session(m) \in alive

(* What the handlers of m tell apart in the children of groupKey_: is LOCK
   there, is the first sequential node m's own, are there Quorum of them?
   parseMembers_ keys the nodes by sequence number, so a restarted member counts
   twice while the node of its previous session lingers. *)
Views  == [hasLock : BOOLEAN, firstIsMe : BOOLEAN, quorum : BOOLEAN]
NoView == [hasLock |-> FALSE, firstIsMe |-> FALSE, quorum |-> FALSE]
Children(m) ==
  [hasLock   |-> lock # NoOwner,
   firstIsMe |-> \E n \in nodes : n.owner[1] = m /\ \A k \in nodes : n.seq <= k.seq,
   quorum    |-> Cardinality(nodes) >= Quorum]

(* Requests to the coordination service and their results.  who is the
   functionalMembers captured by the request's continuation. *)
Ops == {"initChildren", "createMember", "electorChildren", "acquireElector",
        "acquireLeader", "increaseTerm", "removeLock"}
Requests == [op : Ops, who : SUBSET Members]
Results  == [op : Ops \cup {"watchChildren"}, who : SUBSET Members, ok : BOOLEAN,
             view : Views, ver : Nat]

Request(o, who) == [op |-> o, who |-> who]
Result(r, isOk, view, ver) ==
  [op |-> r.op, who |-> r.who, ok |-> isOk, view |-> view, ver |-> ver]

Idle    == [m \in Members |-> "none"]
Asked   == [m \in Members |-> "pending"]
Answers == [Members -> {"none", "pending", "ok", "fail"}]

BecomeLeaderMsgs == [to : Members, termId : Int, functionalMembers : SUBSET Members]

-----------------------------------------------------------------------------
(* Predicates the handlers test. *)

hasLock(children) == children.hasLock

canIBeElector(m, children) == ~cooling[m] /\ children.firstIsMe

hasQuorumMemberCount(children) == children.quorum

throwIfInvalidTerm(m, t) == t < termId[m]

(* commitId_ is set by the constructor and never assigned again. *)
CommitId(m) == INVALID_VALUE

(* values.begin() of the responses bucketed by commit id. *)
ElectionBucket(responders) ==
  {m \in responders : \A n \in responders : CommitId(m) <= CommitId(n)}

(* functionalMembers[0]: responses are collected in memberIds_ order. *)
isFirst(m, S) == \A n \in S : m <= n

-----------------------------------------------------------------------------
(* The coordination service and its client. *)

Init ==
  /\ crashes = 0
  /\ up = [m \in Members |-> FALSE]
  /\ sess = [m \in Members |-> 0]
  /\ state = [m \in Members |-> "UNINITIALIZED"]
  /\ termId = [m \in Members |-> INVALID_VALUE]
  /\ cooling = [m \in Members |-> FALSE]
  /\ timers = [m \in Members |-> 0]
  /\ votes = [m \in Members |-> Idle]
  /\ req = [m \in Members |-> <<>>]
  /\ resp = [m \in Members |-> <<>>]
  /\ watch = [m \in Members |-> 0]
  /\ rereads = [m \in Members |-> 0]
  /\ msgs = {}
  /\ alive = {}
  /\ lock = NoOwner
  /\ nodes = {}
  /\ nextSeq = 0
  /\ version = 0

(* Every registered watcher of the group fires once. *)
NotifyWatchers ==
  /\ rereads' = [m \in Members |-> rereads[m] + watch[m]]
  /\ watch' = [m \in Members |-> 0]

(* The oldest unserved request of m is an op. *)
Serves(m, ops) ==
  /\ Live(m)
  /\ req[m] # <<>>
  /\ Head(req[m]).op \in ops
  /\ req' = [req EXCEPT ![m] = Tail(@)]

Reply(m, isOk, view, ver) ==
  resp' = [resp EXCEPT ![m] = Append(@, Result(Head(req[m]), isOk, view, ver))]

(* init() ignores the children it reads and the name of the node it creates:
   their results are not kept. *)
ServeInitChildren(m) ==
  /\ Serves(m, {"initChildren"})
  /\ watch' = [watch EXCEPT ![m] = @ + 1]
  /\ UNCHANGED <<procVars, resp, rereads, msgs, zkVars>>

ServeCreateMember(m) ==
  /\ Serves(m, {"createMember"})
  /\ nodes' = nodes \cup {[seq |-> nextSeq, owner |-> Session(m)]}
  /\ nextSeq' = nextSeq + 1
  /\ NotifyWatchers
  /\ UNCHANGED <<procVars, resp, msgs, alive, lock, version>>

ServeElectorChildren(m) ==
  /\ Serves(m, {"electorChildren"})
  /\ Reply(m, TRUE, Children(m), 0)
  /\ UNCHANGED <<procVars, watch, rereads, msgs, zkVars>>

(* Mutant: watchCb_ reads the children without registering the watch again. *)
ServeWatchCbOnce(m) ==
  /\ Live(m)
  /\ rereads[m] > 0
  /\ Len(resp[m]) < MaxLag
  /\ rereads' = [rereads EXCEPT ![m] = @ - 1]
  /\ resp' = [resp EXCEPT ![m] = Append(@, Result([op |-> "watchChildren", who |-> {}],
                                                 TRUE, Children(m), 0))]
  /\ UNCHANGED <<procVars, req, watch, msgs, zkVars>>

(* watchCb_ reads the children again and registers the watch again.  It runs on
   the client's thread, at any point between two requests of the event base: its
   read may be served before or after those that wait in req[m]. *)
ServeWatchCb(m) ==
  /\ Live(m)
  /\ rereads[m] > 0
  /\ Len(resp[m]) < MaxLag
  /\ rereads' = [rereads EXCEPT ![m] = @ - 1]
  /\ watch' = [watch EXCEPT ![m] = @ + 1]
  /\ resp' = [resp EXCEPT ![m] = Append(@, Result([op |-> "watchChildren", who |-> {}],
                                                 TRUE, Children(m), 0))]
  /\ UNCHANGED <<procVars, req, msgs, zkVars>>

ServeAcquireLock(m) ==
  /\ Serves(m, {"acquireElector", "acquireLeader"})
  /\ \/ /\ lock = NoOwner
        /\ lock' = Session(m)
        /\ Reply(m, TRUE, NoView, 0)
        /\ NotifyWatchers
     \/ /\ lock # NoOwner
        /\ Reply(m, FALSE, NoView, 0)
        /\ UNCHANGED <<lock, watch, rereads>>
  /\ UNCHANGED <<procVars, msgs, alive, nodes, nextSeq, version>>

(* Mutant: the term is read and not increased. *)
ServeIncreaseTermReadsOnly(m) ==
  /\ Serves(m, {"increaseTerm"})
  /\ Reply(m, TRUE, NoView, version)
  /\ UNCHANGED <<procVars, watch, rereads, msgs, zkVars>>

ServeIncreaseTerm(m) ==
  /\ Serves(m, {"increaseTerm"})
  /\ version' = version + 1
  /\ Reply(m, TRUE, NoView, version + 1)
  /\ UNCHANGED <<procVars, watch, rereads, msgs, alive, lock, nodes, nextSeq>>

(* del(LOCK, -1): whoever owns the node. *)
ServeRemoveLock(m) ==
  /\ Serves(m, {"removeLock"})
  /\ lock' = NoOwner
  /\ Reply(m, lock # NoOwner, NoView, 0)
  /\ IF lock # NoOwner THEN NotifyWatchers ELSE UNCHANGED <<watch, rereads>>
  /\ UNCHANGED <<procVars, msgs, alive, nodes, nextSeq, version>>

(* No running process uses the session. *)
Abandoned(s) == up[s[1]] => Session(s[1]) # s

(* Mutant: the ephemeral LOCK outlives its session. *)
ExpireSessionKeepsLock(s) ==
  /\ s \in alive
  /\ SessionLoss \/ Abandoned(s)
  /\ alive' = alive \ {s}
  /\ nodes' = {n \in nodes : n.owner # s}
  /\ NotifyWatchers
  /\ UNCHANGED <<procVars, req, resp, msgs, lock, nextSeq, version>>

(* A session times out: of a dead process, or of one cut off from the service.
   Its ephemeral nodes go in one transaction. *)
ExpireSession(s) ==
  /\ s \in alive
  /\ SessionLoss \/ Abandoned(s)
  /\ alive' = alive \ {s}
  /\ lock' = IF lock = s THEN NoOwner ELSE lock
  /\ nodes' = {n \in nodes : n.owner # s}
  /\ IF lock = s \/ nodes' # nodes THEN NotifyWatchers ELSE UNCHANGED <<watch, rereads>>
  /\ UNCHANGED <<procVars, req, resp, msgs, nextSeq, version>>

-----------------------------------------------------------------------------
(* A member process. *)

(* Constructor and init(). *)
StartMember(m) ==
  /\ ~up[m]
  /\ sess[m] < MaxSessions
  /\ up' = [up EXCEPT ![m] = TRUE]
  /\ sess' = [sess EXCEPT ![m] = @ + 1]
  /\ alive' = alive \cup {<<m, sess[m] + 1>>}
  /\ state' = [state EXCEPT ![m] = "FOLLOWER_WAIT_TO_JOIN_GROUP"]
  /\ req' = [req EXCEPT ![m] = <<Request("initChildren", {}), Request("createMember", {})>>]
  /\ UNCHANGED <<crashes, resp, termId, cooling, timers, votes, watch, rereads, msgs,
                 lock, nodes, nextSeq, version>>

(* The process ends: killed, or aborted by CHECK in handleError_.  Requests
   the service has not served are lost with it. *)
Die(m) ==
  /\ up' = [up EXCEPT ![m] = FALSE]
  /\ state' = [state EXCEPT ![m] = "UNINITIALIZED"]
  /\ termId' = [termId EXCEPT ![m] = INVALID_VALUE]
  /\ cooling' = [cooling EXCEPT ![m] = FALSE]
  /\ timers' = [timers EXCEPT ![m] = 0]
  /\ votes' = [votes EXCEPT ![m] = Idle]
  /\ req' = [req EXCEPT ![m] = <<>>]
  /\ resp' = [resp EXCEPT ![m] = <<>>]
  /\ watch' = [watch EXCEPT ![m] = 0]
  /\ rereads' = [rereads EXCEPT ![m] = 0]
  /\ UNCHANGED <<sess, msgs, zkVars>>

Crash(m) ==
  /\ up[m]
  /\ crashes < MaxCrashes
  /\ crashes' = crashes + 1
  /\ Die(m)

(* The session event runs watchCb_, whose getChildren fails: handleError_. *)
AbortOnExpiry(m) ==
  /\ up[m]
  /\ Session(m) \notin alive
  /\ Die(m)
  /\ UNCHANGED crashes

(* scheduleGroupWatchEvent_'s timer.  It is scheduled after
   lastElectionTimepoint_ is taken and runs one interval later, so the latest
   timer never runs while the member is still cooling down. *)
GroupWatchTimer(m) ==
  /\ up[m]
  /\ timers[m] > (IF cooling[m] THEN 1 ELSE 0)
  /\ timers' = [timers EXCEPT ![m] = @ - 1]
  /\ rereads' = [rereads EXCEPT ![m] = @ + 1]
  /\ UNCHANGED <<crashes, up, sess, state, termId, cooling, votes, req, resp, watch, msgs, zkVars>>

HandoverPending ==
  \/ msgs # {}
  \/ \E m \in Members :
       \/ \E i \in 1..Len(req[m]) : req[m][i].op \in {"removeLock", "acquireLeader"}
       \/ \E i \in 1..Len(resp[m]) : resp[m][i].op \in {"removeLock", "acquireLeader"}

(* GROUPWATCH_INTERVAL_MS have passed since lastElectionTimepoint_. *)
CoolDown(m) ==
  /\ cooling[m]
  /\ TimelyLeader => ~HandoverPending /\ resp[m] = <<>> /\ rereads[m] = 0
  /\ cooling' = [cooling EXCEPT ![m] = FALSE]
  /\ UNCHANGED <<crashes, up, sess, state, termId, timers, votes, netVars, zkVars>>

-----------------------------------------------------------------------------
(* Election requests. *)

handleGetMemberStateMsg(e, m) ==
  /\ up[e] /\ up[m]
  /\ votes[e][m] = "pending"
  /\ votes' = [votes EXCEPT ![e][m] = IF throwIfInvalidTerm(m, termId[e]) THEN "fail" ELSE "ok"]
  /\ UNCHANGED <<crashes, up, sess, state, termId, cooling, timers, netVars, zkVars>>

(* No connection, a transport error, or the answer is lost. *)
GetMemberStateFails(e, m) ==
  /\ up[e]
  /\ votes[e][m] = "pending"
  /\ RpcFaults \/ ~up[m]
  /\ votes' = [votes EXCEPT ![e][m] = "fail"]
  /\ UNCHANGED <<crashes, up, sess, state, termId, cooling, timers, netVars, zkVars>>

(* Mutant: the request stays open and completes a second time. *)
handleElectionResponseTwice(e) ==
  /\ up[e]
  /\ state[e] = "EC_ELECTION_IN_PROGRESS"
  /\ \A m \in Members : votes[e][m] \in {"ok", "fail"}
  /\ LET bucket == ElectionBucket({m \in Members : votes[e][m] = "ok"})
     IN  /\ Cardinality(bucket) >= Quorum
         /\ cooling' = [cooling EXCEPT ![e] = TRUE]
         /\ req' = [req EXCEPT ![e] = Append(@, Request("removeLock", bucket))]
  /\ UNCHANGED <<crashes, up, sess, state, termId, timers, votes, resp, watch, rereads, msgs, zkVars>>

(* Mutant: an election without a quorum does not go back to waiting. *)
handleElectionResponseNoWait(e) ==
  /\ up[e]
  /\ state[e] = "EC_ELECTION_IN_PROGRESS"
  /\ \A m \in Members : votes[e][m] \in {"ok", "fail"}
  /\ LET bucket == ElectionBucket({m \in Members : votes[e][m] = "ok"})
     IN  IF Cardinality(bucket) >= Quorum
         THEN /\ cooling' = [cooling EXCEPT ![e] = TRUE]
              /\ req' = [req EXCEPT ![e] = Append(@, Request("removeLock", bucket))]
         ELSE UNCHANGED <<cooling, req>>
  /\ votes' = [votes EXCEPT ![e] = Idle]
  /\ UNCHANGED <<crashes, up, sess, state, termId, timers, resp, watch, rereads, msgs, zkVars>>

(* collectAll is complete. *)
handleElectionResponse(e) ==
  /\ up[e]
  /\ state[e] = "EC_ELECTION_IN_PROGRESS"
  /\ \A m \in Members : votes[e][m] \in {"ok", "fail"}
  /\ LET bucket == ElectionBucket({m \in Members : votes[e][m] = "ok"})
     IN  \/ /\ Cardinality(bucket) >= Quorum
            /\ cooling' = [cooling EXCEPT ![e] = TRUE]
            /\ req' = [req EXCEPT ![e] = Append(@, Request("removeLock", bucket))]
            /\ UNCHANGED state
         \/ /\ Cardinality(bucket) < Quorum
            /\ state' = [state EXCEPT ![e] = "EC_WAITING_FOR_QUORUM"]
            /\ UNCHANGED <<cooling, req>>
  /\ votes' = [votes EXCEPT ![e] = Idle]
  /\ UNCHANGED <<crashes, up, sess, termId, timers, resp, watch, rereads, msgs, zkVars>>

(* An old term is rejected; otherwise LOCK is requested, whatever state the
   member is in. *)
handleBecomeLeaderMsg(msg) ==
  /\ msg \in msgs
  /\ up[msg.to]
  /\ msgs' = msgs \ {msg}
  /\ req' = IF throwIfInvalidTerm(msg.to, msg.termId) THEN req
            ELSE [req EXCEPT ![msg.to] =
                    Append(@, Request("acquireLeader", msg.functionalMembers))]
  /\ UNCHANGED <<procVars, resp, watch, rereads, zkVars>>

BecomeLeaderMsgLost(msg) ==
  /\ msg \in msgs
  /\ RpcFaults \/ ~up[msg.to]
  /\ msgs' = msgs \ {msg}
  /\ UNCHANGED <<procVars, req, resp, watch, rereads, zkVars>>

-----------------------------------------------------------------------------
(* Continuations run on the event base with the oldest result. *)

Handles(m, op) ==
  /\ up[m]
  /\ resp[m] # <<>>
  /\ Head(resp[m]).op = op

Pop(m)      == resp' = [resp EXCEPT ![m] = Tail(@)]
Issue(m, o) == req' = [req EXCEPT ![m] = Append(@, Request(o, {}))]

handleGroupWatchEvent(m) ==
  /\ Handles(m, "watchChildren")
  /\ Pop(m)
  /\ LET children == Head(resp[m]).view
         becomesElector == /\ state[m] = "FOLLOWER_WAIT_TO_JOIN_GROUP"
                           /\ ~hasLock(children) /\ canIBeElector(m, children)
                           /\ version < MaxTerm
         startsElection == /\ state[m] = "EC_WAITING_FOR_QUORUM"
                           /\ hasQuorumMemberCount(children)
     IN  \/ /\ becomesElector
            /\ state' = [state EXCEPT ![m] = "EC_ACQUIRE_LOCK"]
            /\ Issue(m, "acquireElector")
            /\ UNCHANGED votes
         \/ /\ startsElection
            /\ state' = [state EXCEPT ![m] = "EC_ELECTION_IN_PROGRESS"]
            /\ votes' = [votes EXCEPT ![m] = Asked]
            /\ UNCHANGED req
         \/ /\ ~becomesElector /\ ~startsElection
            /\ UNCHANGED <<state, votes, req>>
  /\ UNCHANGED <<crashes, up, sess, termId, cooling, timers, watch, rereads, msgs, zkVars>>

(* Mutant: the elector goes on although LOCK was taken by another. *)
AcquireElectorResultIgnored(m) ==
  /\ Handles(m, "acquireElector")
  /\ Pop(m)
  /\ Issue(m, "increaseTerm")
  /\ UNCHANGED <<procVars, watch, rereads, msgs, zkVars>>

(* Mutant: the elector waits for a quorum before its chain is complete. *)
AcquireElectorResultEarly(m) ==
  /\ Handles(m, "acquireElector")
  /\ \/ /\ Head(resp[m]).ok
        /\ Pop(m)
        /\ Issue(m, "increaseTerm")
        /\ state' = [state EXCEPT ![m] = "EC_WAITING_FOR_QUORUM"]
        /\ UNCHANGED <<crashes, up, sess, termId, cooling, timers, votes, watch, rereads, msgs, zkVars>>
     \/ /\ ~Head(resp[m]).ok
        /\ Die(m)
        /\ UNCHANGED crashes

(* The elector's chain: LOCK, then the term, then the children. *)
AcquireElectorResult(m) ==
  /\ Handles(m, "acquireElector")
  /\ \/ /\ Head(resp[m]).ok
        /\ Pop(m)
        /\ Issue(m, "increaseTerm")
        /\ UNCHANGED <<procVars, watch, rereads, msgs, zkVars>>
     \/ /\ ~Head(resp[m]).ok
        /\ Die(m)
        /\ UNCHANGED crashes

(* Mutant: the chain stops once the term is known. *)
IncreaseTermResultStops(m) ==
  /\ Handles(m, "increaseTerm")
  /\ Pop(m)
  /\ termId' = [termId EXCEPT ![m] = Head(resp[m]).ver]
  /\ UNCHANGED <<crashes, up, sess, state, cooling, timers, votes, req, watch, rereads, msgs, zkVars>>

IncreaseTermResult(m) ==
  /\ Handles(m, "increaseTerm")
  /\ Pop(m)
  /\ termId' = [termId EXCEPT ![m] = Head(resp[m]).ver]
  /\ Issue(m, "electorChildren")
  /\ UNCHANGED <<crashes, up, sess, state, cooling, timers, votes, watch, rereads, msgs, zkVars>>

ElectorChildrenResult(m) ==
  /\ Handles(m, "electorChildren")
  /\ Pop(m)
  /\ \/ /\ hasQuorumMemberCount(Head(resp[m]).view)
        /\ state' = [state EXCEPT ![m] = "EC_ELECTION_IN_PROGRESS"]
        /\ votes' = [votes EXCEPT ![m] = Asked]
     \/ /\ ~hasQuorumMemberCount(Head(resp[m]).view)
        /\ state' = [state EXCEPT ![m] = "EC_WAITING_FOR_QUORUM"]
        /\ UNCHANGED votes
  /\ UNCHANGED <<crashes, up, sess, termId, cooling, timers, req, watch, rereads, msgs, zkVars>>

(* LOCK is free: step back, tell the leader and schedule the retry. *)
RemoveLockResult(m) ==
  /\ Handles(m, "removeLock")
  /\ IF Head(resp[m]).ok
     THEN /\ Pop(m)
          /\ state' = [state EXCEPT ![m] = "FOLLOWER_WAIT_TO_JOIN_GROUP"]
          /\ \E first \in Head(resp[m]).who :
               /\ isFirst(first, Head(resp[m]).who)
               /\ msgs' = msgs \cup {[to |-> first, termId |-> termId[m],
                                      functionalMembers |-> Head(resp[m]).who]}
          /\ timers' = [timers EXCEPT ![m] = @ + 1]
          /\ UNCHANGED <<crashes, up, sess, termId, cooling, votes, req, watch, rereads, zkVars>>
     ELSE Die(m) /\ UNCHANGED crashes

(* Mutant: the member leads whether it got LOCK or not. *)
AcquireLeaderResultIgnored(m) ==
  /\ Handles(m, "acquireLeader")
  /\ Pop(m)
  /\ state' = [state EXCEPT ![m] = "LEADER_FUNCTIONAL"]
  /\ UNCHANGED <<crashes, up, sess, termId, cooling, timers, votes, req, watch, rereads, msgs, zkVars>>

AcquireLeaderResult(m) ==
  /\ Handles(m, "acquireLeader")
  /\ \/ /\ Head(resp[m]).ok
        /\ Pop(m)
        /\ state' = [state EXCEPT ![m] =
             IF Cardinality(Head(resp[m]).who) >= Quorum THEN "LEADER_FUNCTIONAL"
             ELSE "LEADER_WAITING_FOR_QUORUM"]
        /\ UNCHANGED <<crashes, up, sess, termId, cooling, timers, votes, req, watch, rereads, msgs, zkVars>>
     \/ /\ ~Head(resp[m]).ok
        /\ Die(m)
        /\ UNCHANGED crashes

-----------------------------------------------------------------------------
Serve(m) ==
  \/ ServeInitChildren(m) \/ ServeCreateMember(m) \/ ServeElectorChildren(m)
  \/ ServeWatchCb(m) \/ ServeAcquireLock(m) \/ ServeIncreaseTerm(m) \/ ServeRemoveLock(m)

Continue(m) ==
  \/ handleGroupWatchEvent(m) \/ AcquireElectorResult(m) \/ IncreaseTermResult(m)
  \/ ElectorChildrenResult(m) \/ RemoveLockResult(m) \/ AcquireLeaderResult(m)
  \/ handleElectionResponse(m)

Next ==
  \/ \E m \in Members :
       \/ Serve(m) \/ Continue(m) \/ StartMember(m) \/ Crash(m) \/ AbortOnExpiry(m)
       \/ GroupWatchTimer(m) \/ CoolDown(m)
       \/ \E n \in Members : handleGetMemberStateMsg(m, n) \/ GetMemberStateFails(m, n)
  \/ \E msg \in msgs : handleBecomeLeaderMsg(msg) \/ BecomeLeaderMsgLost(msg)
  \/ \E s \in alive : ExpireSession(s)

Spec == Init /\ [][Next]_vars

(* What the runtime guarantees: a connected client's requests are served, the
   event base runs what is queued on it, timers run, an RPC is answered or
   fails, a dead process's session expires, and a process that ended is
   restarted.  A crash, a lost message or an expiring live session is never
   owed. *)
Fairness ==
  \A m \in Members :
    /\ WF_vars(ServeWatchCb(m))
    /\ WF_vars(Serve(m))
    /\ WF_vars(Continue(m))
    /\ WF_vars(handleElectionResponse(m))
    /\ WF_vars(StartMember(m))
    /\ WF_vars(AbortOnExpiry(m))
    /\ WF_vars(CoolDown(m))
    /\ WF_vars(GroupWatchTimer(m))
    /\ \A n \in Members : WF_vars(handleGetMemberStateMsg(m, n) \/ GetMemberStateFails(m, n))
    /\ WF_vars(\E msg \in msgs : msg.to = m /\ (handleBecomeLeaderMsg(msg) \/ BecomeLeaderMsgLost(msg)))
    /\ WF_vars(\E s \in alive : s[1] = m /\ Abandoned(s) /\ ExpireSession(s))

FairSpec == Spec /\ Fairness

-----------------------------------------------------------------------------
(* Properties. *)

TypeOK ==
  /\ crashes \in Nat
  /\ up \in [Members -> BOOLEAN]
  /\ sess \in [Members -> Nat]
  /\ state \in [Members -> MemberStates]
  /\ termId \in [Members -> Int]
  /\ cooling \in [Members -> BOOLEAN]
  /\ timers \in [Members -> Nat]
  /\ votes \in [Members -> Answers]
  /\ req \in [Members -> Seq(Requests)]
  /\ resp \in [Members -> Seq(Results)]
  /\ watch \in [Members -> Nat]
  /\ rereads \in [Members -> Nat]
  /\ msgs \subseteq BecomeLeaderMsgs
  /\ alive \subseteq Sessions
  /\ lock \in alive \cup {NoOwner}
  /\ nodes \subseteq [seq : Nat, owner : alive]
  /\ nextSeq \in Nat
  /\ version \in Nat

(* The member acts as the group's coordinator: it leads, or it is the elector
   and has not asked for LOCK to be removed yet. *)
Leads(m) == state[m] \in LeaderStates
Coordinates(m) ==
  \/ Leads(m)
  \/ state[m] = "EC_WAITING_FOR_QUORUM"
  \/ state[m] = "EC_ELECTION_IN_PROGRESS" /\ votes[m] # Idle

(* At most one member with a live session coordinates the group: never two
   electors, two leaders, or an elector beside a leader ("coordinated via
   coordination lock to gaurantee exclusivity", PBMember.h). *)
ExclusiveCoordinator ==
  \A m, n \in Members :
    Live(m) /\ Live(n) /\ Coordinates(m) /\ Coordinates(n) => m = n

(* A request, or an unhandled result, that a member has only because it took
   LOCK and did not give it back. *)
IsReqClaim(r)  == r.op \in {"increaseTerm", "electorChildren", "removeLock"}
IsRespClaim(r) == \/ r.op \in {"increaseTerm", "electorChildren"}
                  \/ r.op \in {"acquireElector", "acquireLeader"} /\ r.ok
NoReqClaim(q)   == \A i \in 1..Len(q) : ~IsReqClaim(q[i])
NoRespClaim(q)  == \A i \in 1..Len(q) : ~IsRespClaim(q[i])
OneReqClaim(q)  == \A i, j \in 1..Len(q) : IsReqClaim(q[i]) /\ IsReqClaim(q[j]) => i = j
OneRespClaim(q) == \A i, j \in 1..Len(q) : IsRespClaim(q[i]) /\ IsRespClaim(q[j]) => i = j

(* The invariant behind ExclusiveCoordinator.  A member with a live session that
   coordinates, or has such a request or result, owns LOCK; and it has one of
   the three at most, so that removeLock_ (which deletes LOCK whoever owns it)
   takes it from nobody else. *)
ClaimsOf(m) ==
  Live(m) =>
    /\ OneReqClaim(req[m]) /\ OneRespClaim(resp[m])
    /\ Coordinates(m) => lock = Session(m) /\ NoReqClaim(req[m]) /\ NoRespClaim(resp[m])
    /\ ~NoReqClaim(req[m]) => lock = Session(m) /\ NoRespClaim(resp[m])
    /\ ~NoRespClaim(resp[m]) => lock = Session(m)
DownOf(m) ==
  ~up[m] => req[m] = <<>> /\ resp[m] = <<>> /\ votes[m] = Idle
LockClaims == \A m \in Members : ClaimsOf(m) /\ DownOf(m)

(* A member with a live session keeps LOCK until it removes it itself at the end
   of an election it ran: del(LOCK, -1) of another elector never takes it. *)
LockTakenFromNobody ==
  [][\A m \in Members :
       Live(m) /\ lock = Session(m) /\ lock' # lock =>
         \/ Session(m) \notin alive'
         \/ /\ req[m] # <<>> /\ Head(req[m]).op = "removeLock"
            /\ req'[m] = Tail(req[m])]_vars

(* The DCHECKs of the elector's continuations.  The chain runs in
   EC_ACQUIRE_LOCK, collectAll completes in EC_ELECTION_IN_PROGRESS, and no
   children read before LOCK was taken are handled in EC_WAITING_FOR_QUORUM. *)
DchecksHold ==
  \A m \in Members : up[m] =>
    /\ resp[m] # <<>> =>
         LET r == Head(resp[m])
         IN  /\ \/ r.op = "acquireElector" /\ r.ok
                \/ r.op \in {"increaseTerm", "electorChildren"}
                => state[m] = "EC_ACQUIRE_LOCK"
             /\ \/ r.op = "electorChildren"
                \/ r.op = "watchChildren" /\ state[m] = "EC_WAITING_FOR_QUORUM"
                => hasLock(r.view)
    /\ votes[m] # Idle => state[m] = "EC_ELECTION_IN_PROGRESS"

(* The member's election is open: it has the election's term and has not sent the
   BecomeLeaderMsg that ends the election. *)
Voting(st, v) == st = "EC_WAITING_FOR_QUORUM" \/ v # Idle
IsOpen(r)     == r.op \in {"electorChildren", "removeLock"}
HasOpen(q)    == \E i \in 1..Len(q) : IsOpen(q[i])
Electing(m)   == Voting(state[m], votes[m]) \/ HasOpen(req[m]) \/ HasOpen(resp[m])

(* The version of groupKey_ numbers the elections: no two open elections have the
   same term, no two BecomeLeaderMsgs in flight do, and no open election has the
   term of a message in flight (increaseTerm_, handleElectionResponse).  Nothing is
   said of followers: a member may hold the term of an election of its own that is
   over, or one it took over from a leader (PBMember::handleGroupInfoUpdateMsg). *)
UniqueTerms ==
  /\ \A m, n \in Members : Electing(m) /\ Electing(n) /\ termId[m] = termId[n] => m = n
  /\ \A a, b \in msgs : a.termId = b.termId => a = b
  /\ \A m \in Members, a \in msgs : Electing(m) => a.termId # termId[m]

(* When no process is killed, every one answers, and the handover fits the
   interval, the group ends up with one leader for good. *)
EventuallyLed ==
  [](crashes = 0) => <>[](\E m \in Members : Live(m) /\ Leads(m))

(* LOCK is never leaked: a member with a live session that owns it comes to
   coordinate the group or gives it up. *)
LockIsUsed ==
  \A m \in Members :
    (Live(m) /\ lock = Session(m)) ~> (Coordinates(m) \/ ~Live(m) \/ lock # Session(m))

(* An elector finds a leader or waits for more members: no election stays open. *)
ElectionsEnd ==
  \A m \in Members : (state[m] = "EC_ELECTION_IN_PROGRESS") ~> (state[m] # "EC_ELECTION_IN_PROGRESS")

(* pbapi.thrift: an elector stays in EC_WAITING_FOR_QUORUM to "wait for quorum # of
   members to be available before doing the actual election": while a quorum of
   member nodes is there, it does not wait for ever. *)
QuorumStartsElection ==
  \A m \in Members :
    (Live(m) /\ state[m] = "EC_WAITING_FOR_QUORUM" /\ Cardinality(nodes) >= Quorum)
      ~> (~Live(m) \/ state[m] # "EC_WAITING_FOR_QUORUM" \/ Cardinality(nodes) < Quorum)

=============================================================================
