------------------------- MODULE PBElection_proofs -------------------------
(***************************************************************************)
(* Proofs about PBElection, for every group, quorum and bound.             *)
(***************************************************************************)
EXTENDS PBElection, SequenceTheorems, TLAPS

-----------------------------------------------------------------------------
(* Types of the records that travel between a member and the service. *)
LEMMA RequestType ==
  ASSUME NEW o \in Ops, NEW who \in SUBSET Members
  PROVE  Request(o, who) \in Requests
BY DEF Request, Requests

(* A result carries the request it answers and what the service found. *)
LEMMA ResultType ==
  ASSUME NEW o \in Ops \cup {"watchChildren"}, NEW who \in SUBSET Members,
         NEW r, r.op = o, r.who = who,
         NEW isOk \in BOOLEAN, NEW view \in Views, NEW ver \in Nat
  PROVE  Result(r, isOk, view, ver) \in Results
BY DEF Result, Results

(* What the handlers read of the children of groupKey_ is a view. *)
LEMMA ViewType == NoView \in Views /\ \A m : Children(m) \in Views
BY DEF NoView, Views, Children

(* Serving a request shortens req[m]; a reply lengthens resp[m]. *)
LEMMA ServeType ==
  ASSUME TypeOK, NEW m \in Members, NEW ops, Serves(m, ops)
  PROVE  /\ req' \in [Members -> Seq(Requests)]
         /\ Head(req[m]) \in Requests
BY HeadTailProperties DEF TypeOK, Serves

(* The reply to a served request is a result. *)
LEMMA ReplyType ==
  ASSUME TypeOK, NEW m \in Members, NEW ops, Serves(m, ops),
         NEW isOk \in BOOLEAN, NEW view \in Views, NEW ver \in Nat,
         Reply(m, isOk, view, ver)
  PROVE  resp' \in [Members -> Seq(Results)]
<1>1. Head(req[m]) \in Requests
  BY ServeType
<1>2. Result(Head(req[m]), isOk, view, ver) \in Results
  BY <1>1, ResultType DEF Requests
<1> QED
  BY <1>2, AppendProperties DEF TypeOK, Reply

(* Firing the watchers keeps the counts of watchers and of re-reads natural. *)
LEMMA NotifyType ==
  ASSUME TypeOK, NotifyWatchers
  PROVE  watch' \in [Members -> Nat] /\ rereads' \in [Members -> Nat]
BY DEF TypeOK, NotifyWatchers

(* What a continuation is given is a result. *)
LEMMA HeadType ==
  ASSUME TypeOK, NEW m \in Members, NEW op, Handles(m, op)
  PROVE  Head(resp[m]) \in Results
BY HeadTailProperties DEF TypeOK, Handles

(* A continuation consumes its result. *)
LEMMA PopType ==
  ASSUME TypeOK, NEW m \in Members, NEW op, Handles(m, op), Pop(m)
  PROVE  resp' \in [Members -> Seq(Results)]
BY HeadTailProperties DEF TypeOK, Handles, Pop

(* A continuation may issue the next request of its chain. *)
LEMMA IssueType ==
  ASSUME TypeOK, NEW m \in Members, NEW o \in Ops, Issue(m, o)
  PROVE  req' \in [Members -> Seq(Requests)]
<1>1. Request(o, {}) \in Requests
  BY RequestType
<1> QED
  BY <1>1, AppendProperties DEF TypeOK, Issue

(* The end of a process leaves typed, empty state behind. *)
LEMMA DieType ==
  ASSUME TypeOK, NEW m \in Members, Die(m), crashes' \in Nat
  PROVE  TypeOK'
<1>1. Idle \in Answers
  BY DEF Idle, Answers
<1>2. "UNINITIALIZED" \in MemberStates /\ INVALID_VALUE \in Int
  BY DEF MemberStates, INVALID_VALUE
<1> QED
  BY <1>1, <1>2 DEF TypeOK, Die, zkVars

(* The states the handlers assign are the states of pbapi.thrift. *)
LEMMA StateNames ==
  {"UNINITIALIZED", "FOLLOWER_WAIT_TO_JOIN_GROUP", "EC_ACQUIRE_LOCK",
   "EC_WAITING_FOR_QUORUM", "EC_ELECTION_IN_PROGRESS",
   "LEADER_WAITING_FOR_QUORUM", "LEADER_FUNCTIONAL"} \subseteq MemberStates
BY DEF MemberStates, FollowerStates, ElectorStates, LeaderStates

(* Before any process runs, every variable has its type. *)
LEMMA InitTypeOK == Init => TypeOK
BY StateNames DEF Init, TypeOK, Idle, Answers, INVALID_VALUE

(* Every action keeps the types: one step per action of Next. *)
LEMMA NextTypeOK ==
  ASSUME TypeOK, [Next]_vars
  PROVE  TypeOK'
<1> USE StateNames, ViewType
<1>a. Idle \in Answers /\ Asked \in Answers
  BY DEF Idle, Asked, Answers
<1>1. ASSUME NEW m \in Members, ServeInitChildren(m) PROVE TypeOK'
  BY <1>1, ServeType DEF TypeOK, ServeInitChildren, procVars, zkVars
<1>2. ASSUME NEW m \in Members, ServeCreateMember(m) PROVE TypeOK'
  <2>1. req' \in [Members -> Seq(Requests)]
    BY <1>2, ServeType DEF ServeCreateMember
  <2>2. watch' \in [Members -> Nat] /\ rereads' \in [Members -> Nat]
    BY <1>2, NotifyType DEF ServeCreateMember
  <2>3. nodes' \subseteq [seq : Nat, owner : alive'] /\ nextSeq' \in Nat
    BY <1>2 DEF TypeOK, ServeCreateMember, Serves, Live
  <2> QED
    BY <1>2, <2>1, <2>2, <2>3 DEF TypeOK, ServeCreateMember, procVars
<1>3. ASSUME NEW m \in Members, ServeElectorChildren(m) PROVE TypeOK'
  <2>1. resp' \in [Members -> Seq(Results)]
    BY <1>3, ReplyType DEF ServeElectorChildren
  <2> QED
    BY <1>3, <2>1, ServeType DEF TypeOK, ServeElectorChildren, procVars, zkVars
<1>4. ASSUME NEW m \in Members, ServeWatchCb(m) PROVE TypeOK'
  <2>1. Result([op |-> "watchChildren", who |-> {}], TRUE, Children(m), 0) \in Results
    BY ResultType
  <2>2. resp' \in [Members -> Seq(Results)]
    BY <1>4, <2>1, AppendProperties DEF TypeOK, ServeWatchCb
  <2>3. rereads[m] \in Nat /\ rereads[m] > 0
    BY <1>4 DEF TypeOK, ServeWatchCb
  <2>4. rereads' \in [Members -> Nat] /\ watch' \in [Members -> Nat]
    BY <1>4, <2>3 DEF TypeOK, ServeWatchCb
  <2> QED
    BY <1>4, <2>2, <2>4 DEF TypeOK, ServeWatchCb, procVars, zkVars
<1>5. ASSUME NEW m \in Members, ServeAcquireLock(m) PROVE TypeOK'
  <2>1. resp' \in [Members -> Seq(Results)]
    BY <1>5, ReplyType DEF ServeAcquireLock
  <2>2. lock' \in alive' \cup {NoOwner}
    BY <1>5 DEF TypeOK, ServeAcquireLock, Serves, Live
  <2>3. watch' \in [Members -> Nat] /\ rereads' \in [Members -> Nat]
    BY <1>5, NotifyType DEF TypeOK, ServeAcquireLock
  <2> QED
    BY <1>5, <2>1, <2>2, <2>3, ServeType DEF TypeOK, ServeAcquireLock, procVars
<1>6. ASSUME NEW m \in Members, ServeIncreaseTerm(m) PROVE TypeOK'
  <2>1. version + 1 \in Nat
    BY DEF TypeOK
  <2>2. resp' \in [Members -> Seq(Results)]
    BY <1>6, <2>1, ReplyType DEF ServeIncreaseTerm
  <2> QED
    BY <1>6, <2>1, <2>2, ServeType DEF TypeOK, ServeIncreaseTerm, procVars
<1>7. ASSUME NEW m \in Members, ServeRemoveLock(m) PROVE TypeOK'
  <2>1. resp' \in [Members -> Seq(Results)]
    BY <1>7, ReplyType DEF ServeRemoveLock
  <2>2. watch' \in [Members -> Nat] /\ rereads' \in [Members -> Nat]
    BY <1>7, NotifyType DEF TypeOK, ServeRemoveLock
  <2> QED
    BY <1>7, <2>1, <2>2, ServeType DEF TypeOK, ServeRemoveLock, procVars
<1>8. ASSUME NEW s \in alive, ExpireSession(s) PROVE TypeOK'
  <2>1. watch' \in [Members -> Nat] /\ rereads' \in [Members -> Nat]
    BY <1>8, NotifyType DEF TypeOK, ExpireSession
  <2> QED
    BY <1>8, <2>1 DEF TypeOK, ExpireSession, procVars
<1>9. ASSUME NEW m \in Members, StartMember(m) PROVE TypeOK'
  <2>1. /\ Request("initChildren", {}) \in Requests
        /\ Request("createMember", {}) \in Requests
    BY RequestType DEF Ops
  <2>2. req' \in [Members -> Seq(Requests)]
    BY <1>9, <2>1 DEF TypeOK, StartMember
  <2>3. alive' \subseteq Sessions
    BY <1>9 DEF TypeOK, StartMember, Sessions
  <2> QED
    BY <1>9, <2>2, <2>3 DEF TypeOK, StartMember
<1>10. ASSUME NEW m \in Members, Crash(m) \/ AbortOnExpiry(m) PROVE TypeOK'
  <2>1. Die(m) /\ crashes' \in Nat
    BY <1>10 DEF Crash, AbortOnExpiry, TypeOK
  <2> QED
    BY <2>1, DieType
<1>11. ASSUME NEW m \in Members, GroupWatchTimer(m) PROVE TypeOK'
  BY <1>11 DEF TypeOK, GroupWatchTimer, zkVars
<1>12. ASSUME NEW m \in Members, CoolDown(m) PROVE TypeOK'
  BY <1>12 DEF TypeOK, CoolDown, netVars, zkVars
<1>13. ASSUME NEW e \in Members, NEW m \in Members, handleGetMemberStateMsg(e, m) PROVE TypeOK'
  BY <1>13 DEF TypeOK, handleGetMemberStateMsg, Answers, netVars, zkVars
<1>14. ASSUME NEW e \in Members, NEW m \in Members, GetMemberStateFails(e, m) PROVE TypeOK'
  BY <1>14 DEF TypeOK, GetMemberStateFails, Answers, netVars, zkVars
<1>15. ASSUME NEW e \in Members, handleElectionResponse(e) PROVE TypeOK'
  <2> DEFINE bucket == ElectionBucket({m \in Members : votes[e][m] = "ok"})
  <2>1. Request("removeLock", bucket) \in Requests
    BY RequestType DEF Ops, ElectionBucket
  <2>2. req' \in [Members -> Seq(Requests)]
    <3>1. Append(req[e], Request("removeLock", bucket)) \in Seq(Requests)
      BY <2>1, AppendProperties DEF TypeOK
    <3>2. \/ req' = [req EXCEPT ![e] = Append(@, Request("removeLock", bucket))]
          \/ req' = req
      BY <1>15 DEF handleElectionResponse
    <3> QED
      BY <3>1, <3>2 DEF TypeOK
  <2> QED
    BY <1>15, <1>a, <2>2 DEF TypeOK, handleElectionResponse, zkVars
<1>16. ASSUME NEW msg \in msgs, handleBecomeLeaderMsg(msg) PROVE TypeOK'
  <2>1. /\ msg.to \in Members
        /\ Request("acquireLeader", msg.functionalMembers) \in Requests
    BY RequestType DEF TypeOK, BecomeLeaderMsgs, Ops
  <2>2. req' \in [Members -> Seq(Requests)]
    BY <1>16, <2>1, AppendProperties DEF TypeOK, handleBecomeLeaderMsg
  <2> QED
    BY <1>16, <2>2 DEF TypeOK, handleBecomeLeaderMsg, procVars, zkVars
<1>17. ASSUME NEW msg \in msgs, BecomeLeaderMsgLost(msg) PROVE TypeOK'
  BY <1>17 DEF TypeOK, BecomeLeaderMsgLost, procVars, zkVars
<1>18. ASSUME NEW m \in Members, handleGroupWatchEvent(m) PROVE TypeOK'
  <2>1. resp' \in [Members -> Seq(Results)]
    BY <1>18, PopType DEF handleGroupWatchEvent
  <2>2. req' \in [Members -> Seq(Requests)]
    BY <1>18, IssueType DEF handleGroupWatchEvent, Ops, TypeOK
  <2>3. state' \in [Members -> MemberStates] /\ votes' \in [Members -> Answers]
    BY <1>18, <1>a DEF handleGroupWatchEvent, TypeOK
  <2> QED
    BY <1>18, <2>1, <2>2, <2>3 DEF TypeOK, handleGroupWatchEvent, zkVars
<1>19. ASSUME NEW m \in Members, AcquireElectorResult(m) PROVE TypeOK'
  <2>1. CASE Head(resp[m]).ok
    <3>1. req' \in [Members -> Seq(Requests)] /\ resp' \in [Members -> Seq(Results)]
      BY <1>19, <2>1, PopType, IssueType DEF AcquireElectorResult, Ops
    <3> QED
      BY <1>19, <2>1, <3>1 DEF TypeOK, AcquireElectorResult, procVars, zkVars
  <2>2. CASE ~Head(resp[m]).ok
    BY <1>19, <2>2, DieType DEF AcquireElectorResult, TypeOK
  <2> QED
    BY <2>1, <2>2
<1>20. ASSUME NEW m \in Members, IncreaseTermResult(m) PROVE TypeOK'
  <2>1. req' \in [Members -> Seq(Requests)] /\ resp' \in [Members -> Seq(Results)]
    BY <1>20, PopType, IssueType DEF IncreaseTermResult, Ops
  <2>2. Head(resp[m]).ver \in Int
    BY <1>20, HeadType DEF IncreaseTermResult, Results
  <2> QED
    BY <1>20, <2>1, <2>2 DEF TypeOK, IncreaseTermResult, zkVars
<1>21. ASSUME NEW m \in Members, ElectorChildrenResult(m) PROVE TypeOK'
  <2>1. resp' \in [Members -> Seq(Results)]
    BY <1>21, PopType DEF ElectorChildrenResult
  <2> QED
    BY <1>21, <1>a, <2>1 DEF TypeOK, ElectorChildrenResult, zkVars
<1>22. ASSUME NEW m \in Members, RemoveLockResult(m) PROVE TypeOK'
  <2>1. CASE Head(resp[m]).ok
    <3>1. resp' \in [Members -> Seq(Results)]
      BY <1>22, <2>1, PopType DEF RemoveLockResult
    <3>2. Head(resp[m]).who \in SUBSET Members
      BY <1>22, HeadType DEF RemoveLockResult, Results
    <3>3. msgs' \subseteq BecomeLeaderMsgs
      BY <1>22, <2>1, <3>2 DEF RemoveLockResult, TypeOK, BecomeLeaderMsgs
    <3>4. /\ timers' = [timers EXCEPT ![m] = @ + 1]
          /\ state' = [state EXCEPT ![m] = "FOLLOWER_WAIT_TO_JOIN_GROUP"]
          /\ UNCHANGED <<crashes, up, sess, termId, cooling, votes, req, watch, rereads, zkVars>>
      BY <1>22, <2>1 DEF RemoveLockResult
    <3> QED
      BY <3>1, <3>3, <3>4 DEF TypeOK, zkVars
  <2>2. CASE ~Head(resp[m]).ok
    BY <1>22, <2>2, DieType DEF RemoveLockResult, TypeOK
  <2> QED
    BY <2>1, <2>2
<1>23. ASSUME NEW m \in Members, AcquireLeaderResult(m) PROVE TypeOK'
  <2>1. CASE Head(resp[m]).ok
    <3>1. resp' \in [Members -> Seq(Results)]
      BY <1>23, <2>1, PopType DEF AcquireLeaderResult
    <3> QED
      BY <1>23, <2>1, <3>1 DEF TypeOK, AcquireLeaderResult, zkVars
  <2>2. CASE ~Head(resp[m]).ok
    BY <1>23, <2>2, DieType DEF AcquireLeaderResult, TypeOK
  <2> QED
    BY <2>1, <2>2
<1>24. CASE UNCHANGED vars
  BY <1>24 DEF TypeOK, vars, procVars, netVars, zkVars
<1> QED
  BY <1>1, <1>2, <1>3, <1>4, <1>5, <1>6, <1>7, <1>8, <1>9, <1>10, <1>11, <1>12,
     <1>13, <1>14, <1>15, <1>16, <1>17, <1>18, <1>19, <1>20, <1>21, <1>22, <1>23, <1>24
     DEF Next, Serve, Continue

(* TypeOK holds in every reachable state of the election protocol. *)
THEOREM TypeCorrect == Spec => []TypeOK
<1>1. Init => TypeOK
  BY InitTypeOK
<1>2. TypeOK /\ [Next]_vars => TypeOK'
  BY NextTypeOK
<1> QED
  BY <1>1, <1>2, PTL DEF Spec

-----------------------------------------------------------------------------
(* Claims in the queues. *)

(* A request appended to req[m] adds a claim only if it is one. *)
LEMMA AppendReqClaim ==
  ASSUME NEW q \in Seq(Requests), NEW r \in Requests
  PROVE  /\ ~IsReqClaim(r) => /\ NoReqClaim(Append(q, r)) <=> NoReqClaim(q)
                              /\ OneReqClaim(q) => OneReqClaim(Append(q, r))
         /\ NoReqClaim(q) => OneReqClaim(Append(q, r))
<1> DEFINE a == Append(q, r)
<1>1. /\ Len(q) \in Nat
      /\ Len(a) = Len(q) + 1
      /\ \A i \in 1..Len(q) : a[i] = q[i]
      /\ a[Len(q) + 1] = r
  BY AppendProperties, LenProperties
<1>2. \A i \in 1..Len(a) : i \in 1..Len(q) \/ i = Len(q) + 1
  BY <1>1
<1>3. \A i \in 1..Len(q) : i \in 1..Len(a)
  BY <1>1
<1> HIDE DEF a
<1> QED
  BY <1>1, <1>2, <1>3 DEF NoReqClaim, OneReqClaim, a

(* A result appended to resp[m] adds a claim only if it is one. *)
LEMMA AppendRespClaim ==
  ASSUME NEW q \in Seq(Results), NEW r \in Results
  PROVE  /\ ~IsRespClaim(r) => /\ NoRespClaim(Append(q, r)) <=> NoRespClaim(q)
                               /\ OneRespClaim(q) => OneRespClaim(Append(q, r))
         /\ NoRespClaim(q) => OneRespClaim(Append(q, r))
<1> DEFINE a == Append(q, r)
<1>1. /\ Len(q) \in Nat
      /\ Len(a) = Len(q) + 1
      /\ \A i \in 1..Len(q) : a[i] = q[i]
      /\ a[Len(q) + 1] = r
  BY AppendProperties, LenProperties
<1>2. \A i \in 1..Len(a) : i \in 1..Len(q) \/ i = Len(q) + 1
  BY <1>1
<1>3. \A i \in 1..Len(q) : i \in 1..Len(a)
  BY <1>1
<1> HIDE DEF a
<1> QED
  BY <1>1, <1>2, <1>3 DEF NoRespClaim, OneRespClaim, a

(* Serving the oldest request removes its claim, and no other. *)
LEMMA TailReqClaim ==
  ASSUME NEW q \in Seq(Requests), q # <<>>
  PROVE  /\ IsReqClaim(Head(q)) => ~NoReqClaim(q)
         /\ NoReqClaim(q) => NoReqClaim(Tail(q))
         /\ OneReqClaim(q) => OneReqClaim(Tail(q))
         /\ OneReqClaim(q) /\ IsReqClaim(Head(q)) => NoReqClaim(Tail(q))
<1> DEFINE t == Tail(q)
<1>1. /\ Len(q) \in Nat \ {0}
      /\ Head(q) = q[1]
      /\ Len(t) = Len(q) - 1
      /\ \A i \in 1..Len(t) : t[i] = q[i + 1]
  BY HeadTailProperties, LenProperties, EmptySeq
<1>2. 1 \in 1..Len(q) /\ \A i \in 1..Len(t) : i + 1 \in 1..Len(q) /\ i + 1 # 1
  BY <1>1
<1>3. \A i, j \in 1..Len(t) : i + 1 = j + 1 => i = j
  BY <1>1
<1> HIDE DEF t
<1> QED
  BY <1>1, <1>2, <1>3 DEF NoReqClaim, OneReqClaim, t

(* Handling the oldest result removes its claim, and no other. *)
LEMMA TailRespClaim ==
  ASSUME NEW q \in Seq(Results), q # <<>>
  PROVE  /\ IsRespClaim(Head(q)) => ~NoRespClaim(q)
         /\ NoRespClaim(q) => NoRespClaim(Tail(q))
         /\ OneRespClaim(q) => OneRespClaim(Tail(q))
         /\ OneRespClaim(q) /\ IsRespClaim(Head(q)) => NoRespClaim(Tail(q))
<1> DEFINE t == Tail(q)
<1>1. /\ Len(q) \in Nat \ {0}
      /\ Head(q) = q[1]
      /\ Len(t) = Len(q) - 1
      /\ \A i \in 1..Len(t) : t[i] = q[i + 1]
  BY HeadTailProperties, LenProperties, EmptySeq
<1>2. 1 \in 1..Len(q) /\ \A i \in 1..Len(t) : i + 1 \in 1..Len(q) /\ i + 1 # 1
  BY <1>1
<1>3. \A i, j \in 1..Len(t) : i + 1 = j + 1 => i = j
  BY <1>1
<1> HIDE DEF t
<1> QED
  BY <1>1, <1>2, <1>3 DEF NoRespClaim, OneRespClaim, t

(* Empty queues hold no claim. *)
LEMMA EmptyClaims ==
  /\ NoReqClaim(<<>>) /\ OneReqClaim(<<>>)
  /\ NoRespClaim(<<>>) /\ OneRespClaim(<<>>)
BY DEF NoReqClaim, OneReqClaim, NoRespClaim, OneRespClaim

(* A member none of whose own state a step changes keeps its claims, provided
   the step does not take LOCK from its live session. *)
LEMMA ClaimsFrame ==
  ASSUME NEW n \in Members, ClaimsOf(n), DownOf(n),
         up'[n] = up[n], sess'[n] = sess[n], state'[n] = state[n], votes'[n] = votes[n],
         req'[n] = req[n], resp'[n] = resp[n],
         Session(n) \in alive' => Session(n) \in alive,
         Session(n) \in alive' /\ lock = Session(n) => lock' = lock
  PROVE  ClaimsOf(n)' /\ DownOf(n)'
BY DEF ClaimsOf, DownOf, Live, Session, Coordinates, Leads

(* LOCK has one owner, and NoOwner is no session. *)
LEMMA SessionsDiffer ==
  ASSUME TypeOK
  PROVE  /\ \A m \in Members : Session(m) # NoOwner
         /\ \A m, n \in Members : Session(m) = Session(n) => m = n
BY NoOwnerAssumption DEF TypeOK, Session

(* The end of a process drops its claims. *)
LEMMA DieClaims ==
  ASSUME TypeOK, LockClaims, NEW m \in Members, Die(m)
  PROVE  LockClaims'
<1>1. ClaimsOf(m)' /\ DownOf(m)'
  BY DEF TypeOK, Die, ClaimsOf, DownOf, Live
<1>2. ASSUME NEW n \in Members, n # m PROVE ClaimsOf(n)' /\ DownOf(n)'
  <2>1. /\ up'[n] = up[n] /\ sess'[n] = sess[n] /\ state'[n] = state[n] /\ votes'[n] = votes[n]
        /\ req'[n] = req[n] /\ resp'[n] = resp[n]
        /\ alive' = alive /\ lock' = lock
    BY <1>2 DEF TypeOK, Die, zkVars
  <2> QED
    BY <2>1, ClaimsFrame DEF LockClaims
<1> QED
  BY <1>1, <1>2 DEF LockClaims

(* No process runs at the start, so nobody claims LOCK. *)
LEMMA InitClaims == Init => LockClaims
BY DEF Init, LockClaims, ClaimsOf, DownOf, Live

(* Every action keeps the claims on LOCK: one step per group of actions that
   move a claim the same way. *)
LEMMA NextClaims ==
  ASSUME TypeOK, LockClaims, [Next]_vars
  PROVE  LockClaims'
<1> USE DEF LockClaims
(* Actions that leave every member's claims and LOCK alone. *)
<1>1. ASSUME UNCHANGED <<up, sess, state, votes, req, resp, alive, lock>> PROVE LockClaims'
  BY <1>1 DEF ClaimsOf, DownOf, Live, Session, Coordinates, Leads
<1>2. ASSUME NEW m \in Members, NEW n \in Members, n # m,
             up'[n] = up[n], sess'[n] = sess[n], state'[n] = state[n], votes'[n] = votes[n],
             req'[n] = req[n], resp'[n] = resp[n], alive' = alive, lock' = lock
      PROVE  ClaimsOf(n)' /\ DownOf(n)'
  BY <1>2, ClaimsFrame
<1>3. ASSUME NEW m \in Members, ServeInitChildren(m) \/ ServeCreateMember(m) PROVE LockClaims'
  <2>1. /\ Live(m) /\ req[m] # <<>> /\ ~IsReqClaim(Head(req[m]))
        /\ req' = [req EXCEPT ![m] = Tail(@)]
        /\ UNCHANGED <<up, sess, state, votes, resp, alive, lock>>
    BY <1>3 DEF ServeInitChildren, ServeCreateMember, Serves, IsReqClaim, procVars, zkVars
  <2>2. req[m] \in Seq(Requests) /\ req'[m] = Tail(req[m])
    BY <2>1 DEF TypeOK
  <2>3. ClaimsOf(m)' /\ DownOf(m)'
    BY <2>1, <2>2, TailReqClaim DEF ClaimsOf, DownOf, Live, Session, Coordinates, Leads
  <2>4. ASSUME NEW n \in Members, n # m PROVE ClaimsOf(n)' /\ DownOf(n)'
    BY <2>1, <2>4, <1>2 DEF TypeOK
  <2> QED
    BY <2>3, <2>4
<1>4. ASSUME NEW m \in Members, ServeElectorChildren(m) \/ ServeIncreaseTerm(m) PROVE LockClaims'
  <2>1. /\ Live(m) /\ req[m] # <<>> /\ IsReqClaim(Head(req[m]))
        /\ req' = [req EXCEPT ![m] = Tail(@)]
        /\ UNCHANGED <<up, sess, state, votes, alive, lock>>
    BY <1>4 DEF ServeElectorChildren, ServeIncreaseTerm, Serves, IsReqClaim, procVars, zkVars
  <2>2. PICK r \in Results : resp' = [resp EXCEPT ![m] = Append(@, r)]
    <3>1. Head(req[m]) \in Requests /\ version + 1 \in Nat
      BY <2>1, HeadTailProperties DEF TypeOK
    <3>2. /\ Result(Head(req[m]), TRUE, Children(m), 0) \in Results
          /\ Result(Head(req[m]), TRUE, NoView, version + 1) \in Results
      BY <3>1, ResultType, ViewType DEF Requests
    <3> QED
      BY <1>4, <3>2 DEF ServeElectorChildren, ServeIncreaseTerm, Reply
  <2>3. /\ req[m] \in Seq(Requests) /\ req'[m] = Tail(req[m])
        /\ resp[m] \in Seq(Results) /\ resp'[m] = Append(resp[m], r)
    BY <2>1, <2>2 DEF TypeOK
  <2>4. ~NoReqClaim(req[m]) /\ NoReqClaim(req'[m]) /\ OneReqClaim(req'[m])
    BY <2>1, <2>3, TailReqClaim DEF ClaimsOf
  <2>5. NoRespClaim(resp[m]) /\ OneRespClaim(resp'[m])
    BY <2>1, <2>3, <2>4, AppendRespClaim DEF ClaimsOf
  <2>6. ClaimsOf(m)' /\ DownOf(m)'
    BY <2>1, <2>4, <2>5 DEF ClaimsOf, DownOf, Live, Session, Coordinates, Leads
  <2>7. ASSUME NEW n \in Members, n # m PROVE ClaimsOf(n)' /\ DownOf(n)'
    BY <2>1, <2>2, <2>7, <1>2 DEF TypeOK
  <2> QED
    BY <2>6, <2>7
<1>5. ASSUME NEW m \in Members, ServeWatchCb(m) PROVE LockClaims'
  <2> DEFINE r == Result([op |-> "watchChildren", who |-> {}], TRUE, Children(m), 0)
  <2>1. r \in Results /\ ~IsRespClaim(r)
    BY ResultType, ViewType DEF Result, IsRespClaim
  <2> HIDE DEF r
  <2>2. /\ Live(m)
        /\ resp' = [resp EXCEPT ![m] = Append(@, r)]
        /\ UNCHANGED <<up, sess, state, votes, req, alive, lock>>
    BY <1>5 DEF ServeWatchCb, procVars, zkVars, r
  <2>3. resp[m] \in Seq(Results) /\ resp'[m] = Append(resp[m], r)
    BY <2>2 DEF TypeOK
  <2>4. ClaimsOf(m)' /\ DownOf(m)'
    BY <2>1, <2>2, <2>3, AppendRespClaim DEF ClaimsOf, DownOf, Live, Session, Coordinates, Leads
  <2>5. ASSUME NEW n \in Members, n # m PROVE ClaimsOf(n)' /\ DownOf(n)'
    BY <2>2, <2>5, <1>2 DEF TypeOK
  <2> QED
    BY <2>4, <2>5
<1>6. ASSUME NEW m \in Members, ServeAcquireLock(m) PROVE LockClaims'
  <2>1. /\ Live(m) /\ req[m] # <<>> /\ ~IsReqClaim(Head(req[m]))
        /\ req' = [req EXCEPT ![m] = Tail(@)]
        /\ UNCHANGED <<up, sess, state, votes, alive>>
    BY <1>6 DEF ServeAcquireLock, Serves, IsReqClaim, procVars
  <2>2. req[m] \in Seq(Requests) /\ req'[m] = Tail(req[m])
    BY <2>1 DEF TypeOK
  <2>3. Head(req[m]) \in Requests /\ Head(req[m]).op \in {"acquireElector", "acquireLeader"}
    BY <1>6, <2>1, HeadTailProperties DEF TypeOK, ServeAcquireLock, Serves
  <2>4. CASE lock = NoOwner
    <3>1. lock' = Session(m)
      BY <1>6, <2>4 DEF ServeAcquireLock
    <3>2. PICK r \in Results : resp' = [resp EXCEPT ![m] = Append(@, r)]
      <4>1. Result(Head(req[m]), TRUE, NoView, 0) \in Results
        BY <2>3, ResultType, ViewType DEF Requests
      <4> QED
        BY <1>6, <2>4, <4>1 DEF ServeAcquireLock, Reply
    <3>3. resp[m] \in Seq(Results) /\ resp'[m] = Append(resp[m], r)
      BY <3>2 DEF TypeOK
    <3>4. NoReqClaim(req[m]) /\ NoRespClaim(resp[m]) /\ ~Coordinates(m)
      BY <2>1, <2>4, SessionsDiffer DEF ClaimsOf
    <3>5. /\ NoReqClaim(req'[m]) /\ OneReqClaim(req'[m]) /\ OneRespClaim(resp'[m])
      BY <2>1, <2>2, <3>3, <3>4, TailReqClaim, AppendRespClaim DEF ClaimsOf
    <3>6. ClaimsOf(m)' /\ DownOf(m)'
      BY <2>1, <3>1, <3>4, <3>5 DEF ClaimsOf, DownOf, Live, Session, Coordinates, Leads
    <3>7. ASSUME NEW n \in Members, n # m PROVE ClaimsOf(n)' /\ DownOf(n)'
      <4>1. /\ up'[n] = up[n] /\ sess'[n] = sess[n] /\ state'[n] = state[n]
            /\ votes'[n] = votes[n] /\ req'[n] = req[n] /\ resp'[n] = resp[n]
        BY <2>1, <3>2, <3>7 DEF TypeOK
      <4>2. lock # Session(n)
        BY <2>4, SessionsDiffer
      <4> QED
        BY <2>1, <4>1, <4>2, ClaimsFrame
    <3> QED
      BY <3>6, <3>7
  <2>5. CASE lock # NoOwner
    <3> DEFINE r == Result(Head(req[m]), FALSE, NoView, 0)
    <3>1. r \in Results
      BY <2>3, ResultType, ViewType DEF Requests
    <3>2. ~IsRespClaim(r)
      BY <2>3 DEF Result, IsRespClaim
    <3>3. lock' = lock /\ resp' = [resp EXCEPT ![m] = Append(@, r)]
      BY <1>6, <2>5 DEF ServeAcquireLock, Reply
    <3> HIDE DEF r
    <3>4. resp[m] \in Seq(Results) /\ resp'[m] = Append(resp[m], r)
      BY <3>3 DEF TypeOK
    <3>5. ClaimsOf(m)' /\ DownOf(m)'
      BY <2>1, <2>2, <3>1, <3>2, <3>3, <3>4, TailReqClaim, AppendRespClaim
         DEF ClaimsOf, DownOf, Live, Session, Coordinates, Leads
    <3>6. ASSUME NEW n \in Members, n # m PROVE ClaimsOf(n)' /\ DownOf(n)'
      BY <2>1, <3>3, <3>6, <1>2 DEF TypeOK
    <3> QED
      BY <3>5, <3>6
  <2> QED
    BY <2>4, <2>5
(* removeLock_ deletes the LOCK of the elector that asked. *)
<1>7. ASSUME NEW m \in Members, ServeRemoveLock(m) PROVE LockClaims'
  <2>1. /\ Live(m) /\ req[m] # <<>> /\ Head(req[m]).op = "removeLock"
        /\ req' = [req EXCEPT ![m] = Tail(@)]
        /\ UNCHANGED <<up, sess, state, votes, alive>>
    BY <1>7 DEF ServeRemoveLock, Serves, procVars
  <2>2. IsReqClaim(Head(req[m]))
    BY <2>1 DEF IsReqClaim
  <2> DEFINE r == Result(Head(req[m]), lock # NoOwner, NoView, 0)
  <2>3. r \in Results
    <3>1. Head(req[m]) \in Requests
      BY <2>1, HeadTailProperties DEF TypeOK
    <3> QED
      BY <3>1, ResultType, ViewType DEF Requests
  <2>4. ~IsRespClaim(r)
    BY <2>1 DEF Result, IsRespClaim
  <2>5. resp' = [resp EXCEPT ![m] = Append(@, r)]
    BY <1>7 DEF ServeRemoveLock, Reply
  <2> HIDE DEF r
  <2>6. /\ req[m] \in Seq(Requests) /\ req'[m] = Tail(req[m])
        /\ resp[m] \in Seq(Results) /\ resp'[m] = Append(resp[m], r)
    BY <2>1, <2>5 DEF TypeOK
  <2>7. ~NoReqClaim(req[m]) /\ NoReqClaim(req'[m]) /\ OneReqClaim(req'[m])
    BY <2>1, <2>2, <2>6, TailReqClaim DEF ClaimsOf
  <2>8. lock = Session(m) /\ ~Coordinates(m) /\ NoRespClaim(resp[m])
    BY <2>1, <2>7 DEF ClaimsOf
  <2>9. NoRespClaim(resp'[m]) /\ OneRespClaim(resp'[m])
    BY <2>3, <2>4, <2>6, <2>8, AppendRespClaim
  <2>10. ClaimsOf(m)' /\ DownOf(m)'
    BY <2>1, <2>7, <2>8, <2>9 DEF ClaimsOf, DownOf, Live, Session, Coordinates, Leads
  <2>11. ASSUME NEW n \in Members, n # m PROVE ClaimsOf(n)' /\ DownOf(n)'
    <3>1. /\ up'[n] = up[n] /\ sess'[n] = sess[n] /\ state'[n] = state[n]
          /\ votes'[n] = votes[n] /\ req'[n] = req[n] /\ resp'[n] = resp[n]
      BY <2>1, <2>5, <2>11 DEF TypeOK
    <3>2. lock # Session(n)
      BY <2>8, <2>11, SessionsDiffer
    <3> QED
      BY <2>1, <3>1, <3>2, ClaimsFrame
  <2> QED
    BY <2>10, <2>11
<1>8. ASSUME NEW s \in alive, ExpireSession(s) PROVE LockClaims'
  <2>1. ASSUME NEW n \in Members PROVE ClaimsOf(n)' /\ DownOf(n)'
    <3>1. /\ alive' = alive \ {s}
          /\ lock' = IF lock = s THEN NoOwner ELSE lock
          /\ UNCHANGED <<up, sess, state, votes, req, resp>>
      BY <1>8 DEF ExpireSession, procVars
    <3> QED
      BY <3>1, ClaimsFrame
  <2> QED
    BY <2>1
<1>9. ASSUME NEW m \in Members, StartMember(m) PROVE LockClaims'
  <2> DEFINE q == <<Request("initChildren", {}), Request("createMember", {})>>
  <2>1. NoReqClaim(q) /\ OneReqClaim(q)
    BY DEF Request, NoReqClaim, OneReqClaim, IsReqClaim
  <2> HIDE DEF q
  <2>2. /\ req'[m] = q /\ resp'[m] = <<>> /\ votes'[m] = Idle
        /\ state'[m] = "FOLLOWER_WAIT_TO_JOIN_GROUP" /\ up'[m] = TRUE
    BY <1>9 DEF StartMember, DownOf, TypeOK, q
  <2>3. ClaimsOf(m)' /\ DownOf(m)'
    BY <2>1, <2>2, EmptyClaims DEF ClaimsOf, DownOf, Coordinates, Leads, LeaderStates
  <2>4. ASSUME NEW n \in Members, n # m PROVE ClaimsOf(n)' /\ DownOf(n)'
    <3>1. /\ up'[n] = up[n] /\ sess'[n] = sess[n] /\ state'[n] = state[n]
          /\ votes'[n] = votes[n] /\ req'[n] = req[n] /\ resp'[n] = resp[n] /\ lock' = lock
      BY <1>9, <2>4 DEF TypeOK, StartMember
    <3>2. Session(n) \in alive' => Session(n) \in alive
      BY <1>9, <2>4 DEF StartMember, Session
    <3> QED
      BY <3>1, <3>2, ClaimsFrame
  <2> QED
    BY <2>3, <2>4
<1>10. ASSUME NEW m \in Members, Crash(m) \/ AbortOnExpiry(m) PROVE LockClaims'
  BY <1>10, DieClaims DEF Crash, AbortOnExpiry
<1>11. ASSUME NEW m \in Members, GroupWatchTimer(m) \/ CoolDown(m) PROVE LockClaims'
  BY <1>11, <1>1 DEF GroupWatchTimer, CoolDown, netVars, zkVars
<1>12. ASSUME NEW e \in Members, NEW m \in Members,
              handleGetMemberStateMsg(e, m) \/ GetMemberStateFails(e, m)
       PROVE  LockClaims'
  <2>1. /\ up[e] /\ votes[e][m] = "pending"
        /\ UNCHANGED <<up, sess, state, req, resp, alive, lock>>
        /\ \A n \in Members \ {e} : votes'[n] = votes[n]
    BY <1>12 DEF handleGetMemberStateMsg, GetMemberStateFails, netVars, zkVars, TypeOK
  <2>2. votes[e] # Idle
    BY <2>1 DEF Idle
  <2>3. ClaimsOf(e)' /\ DownOf(e)'
    BY <2>1, <2>2 DEF ClaimsOf, DownOf, Live, Session, Coordinates, Leads
  <2>4. ASSUME NEW n \in Members, n # e PROVE ClaimsOf(n)' /\ DownOf(n)'
    BY <2>1, <2>4, <1>2
  <2> QED
    BY <2>3, <2>4
<1>13. ASSUME NEW e \in Members, handleElectionResponse(e) PROVE LockClaims'
  <2> DEFINE bucket == ElectionBucket({m \in Members : votes[e][m] = "ok"})
             r == Request("removeLock", bucket)
  <2>1. r \in Requests
    BY RequestType DEF Ops, ElectionBucket
  <2>2. /\ up[e] /\ state[e] = "EC_ELECTION_IN_PROGRESS" /\ votes[e][e] \in {"ok", "fail"}
        /\ votes' = [votes EXCEPT ![e] = Idle]
        /\ UNCHANGED <<up, sess, resp, alive, lock>>
    BY <1>13 DEF handleElectionResponse, zkVars
  <2>3. \/ /\ req' = [req EXCEPT ![e] = Append(@, r)]
           /\ state' = state
        \/ /\ req' = req
           /\ state' = [state EXCEPT ![e] = "EC_WAITING_FOR_QUORUM"]
    BY <1>13 DEF handleElectionResponse
  <2> HIDE DEF r
  <2>4. votes[e] # Idle
    BY <2>2 DEF Idle
  <2>5. Live(e) => NoReqClaim(req[e]) /\ NoRespClaim(resp[e]) /\ lock = Session(e)
    BY <2>2, <2>4 DEF ClaimsOf, Coordinates
  <2>6. Live(e) => OneReqClaim(Append(req[e], r))
    BY <2>1, <2>5, AppendReqClaim DEF TypeOK
  <2>7. votes'[e] = Idle
    BY <2>2 DEF TypeOK
  <2>8. ClaimsOf(e)' /\ DownOf(e)'
    <3>1. CASE req' = [req EXCEPT ![e] = Append(@, r)] /\ state' = state
      <4>1. req'[e] = Append(req[e], r)
        BY <3>1 DEF TypeOK
      <4>2. ~Coordinates(e)'
        BY <2>2, <2>7, <3>1 DEF Coordinates, Leads, LeaderStates
      <4> QED
        BY <2>2, <2>5, <2>6, <4>1, <4>2 DEF ClaimsOf, DownOf, Live, Session
    <3>2. CASE req' = req /\ state' = [state EXCEPT ![e] = "EC_WAITING_FOR_QUORUM"]
      BY <2>2, <2>5, <3>2 DEF ClaimsOf, DownOf, Live, Session
    <3> QED
      BY <2>3, <3>1, <3>2
  <2>9. ASSUME NEW n \in Members, n # e PROVE ClaimsOf(n)' /\ DownOf(n)'
    <3>1. req'[n] = req[n] /\ state'[n] = state[n] /\ votes'[n] = votes[n]
      BY <2>2, <2>3, <2>9 DEF TypeOK
    <3> QED
      BY <2>2, <2>9, <3>1, <1>2
  <2> QED
    BY <2>8, <2>9
<1>14. ASSUME NEW msg \in msgs, handleBecomeLeaderMsg(msg) PROVE LockClaims'
  <2> DEFINE m == msg.to
             r == Request("acquireLeader", msg.functionalMembers)
  <2>1. m \in Members /\ r \in Requests
    BY RequestType DEF TypeOK, BecomeLeaderMsgs, Ops
  <2>2. ~IsReqClaim(r)
    BY DEF Request, IsReqClaim
  <2>3. /\ up[m]
        /\ req' = req \/ req' = [req EXCEPT ![m] = Append(@, r)]
        /\ UNCHANGED <<up, sess, state, votes, resp, alive, lock>>
    BY <1>14 DEF handleBecomeLeaderMsg, procVars, zkVars
  <2> HIDE DEF r, m
  <2>4. CASE req' = req
    BY <2>3, <2>4, <1>1
  <2>5. CASE req' = [req EXCEPT ![m] = Append(@, r)]
    <3>1. req[m] \in Seq(Requests) /\ req'[m] = Append(req[m], r)
      BY <2>1, <2>5 DEF TypeOK
    <3>2. ClaimsOf(m)' /\ DownOf(m)'
      BY <2>1, <2>2, <2>3, <3>1, AppendReqClaim DEF ClaimsOf, DownOf, Live, Session, Coordinates, Leads
    <3>3. ASSUME NEW n \in Members, n # m PROVE ClaimsOf(n)' /\ DownOf(n)'
      <4>1. req'[n] = req[n]
        BY <2>5, <3>3 DEF TypeOK
      <4> QED
        BY <2>1, <2>3, <3>3, <4>1, <1>2
    <3> QED
      BY <3>2, <3>3
  <2> QED
    BY <2>3, <2>4, <2>5
<1>15. ASSUME NEW msg \in msgs, BecomeLeaderMsgLost(msg) PROVE LockClaims'
  BY <1>15, <1>1 DEF BecomeLeaderMsgLost, procVars, zkVars
(* Handling a result that proves nothing about LOCK. *)
<1>16. ASSUME NEW m \in Members, handleGroupWatchEvent(m) PROVE LockClaims'
  <2>1. /\ up[m] /\ resp[m] # <<>> /\ ~IsRespClaim(Head(resp[m]))
        /\ resp' = [resp EXCEPT ![m] = Tail(@)]
        /\ UNCHANGED <<up, sess, alive, lock>>
    BY <1>16 DEF handleGroupWatchEvent, Handles, Pop, IsRespClaim, zkVars
  <2> DEFINE r == Request("acquireElector", {})
  <2>2. r \in Requests /\ ~IsReqClaim(r)
    BY RequestType DEF Ops, Request, IsReqClaim
  <2>3. \/ /\ state[m] = "FOLLOWER_WAIT_TO_JOIN_GROUP"
           /\ state' = [state EXCEPT ![m] = "EC_ACQUIRE_LOCK"]
           /\ req' = [req EXCEPT ![m] = Append(@, r)]
           /\ votes' = votes
        \/ /\ state[m] = "EC_WAITING_FOR_QUORUM"
           /\ state' = [state EXCEPT ![m] = "EC_ELECTION_IN_PROGRESS"]
           /\ votes' = [votes EXCEPT ![m] = Asked]
           /\ req' = req
        \/ UNCHANGED <<state, votes, req>>
    BY <1>16 DEF handleGroupWatchEvent, Issue
  <2> HIDE DEF r
  <2>4. /\ resp[m] \in Seq(Results) /\ resp'[m] = Tail(resp[m]) /\ req[m] \in Seq(Requests)
    BY <2>1 DEF TypeOK
  <2>5. /\ OneRespClaim(resp[m]) => OneRespClaim(resp'[m])
        /\ NoRespClaim(resp[m]) => NoRespClaim(resp'[m])
    BY <2>1, <2>4, TailRespClaim
  <2>6. /\ OneReqClaim(req[m]) => OneReqClaim(req'[m])
        /\ NoReqClaim(req[m]) <=> NoReqClaim(req'[m])
    <3>1. \/ req'[m] = Append(req[m], r)
          \/ req'[m] = req[m]
      BY <2>3 DEF TypeOK
    <3> QED
      BY <2>2, <2>4, <3>1, AppendReqClaim
  <2>7. Coordinates(m)' => Coordinates(m)
    BY <2>3 DEF TypeOK, Coordinates, Leads, LeaderStates
  <2>8. ClaimsOf(m)' /\ DownOf(m)'
    BY <2>1, <2>5, <2>6, <2>7 DEF ClaimsOf, DownOf, Live, Session
  <2>9. ASSUME NEW n \in Members, n # m PROVE ClaimsOf(n)' /\ DownOf(n)'
    <3>1. /\ req'[n] = req[n] /\ resp'[n] = resp[n]
          /\ state'[n] = state[n] /\ votes'[n] = votes[n]
      BY <2>1, <2>3, <2>9 DEF TypeOK
    <3> QED
      BY <2>1, <2>9, <3>1, <1>2
  <2> QED
    BY <2>8, <2>9
(* A claim in resp[m] becomes one in req[m]. *)
<1>17. ASSUME NEW m \in Members, NEW r \in Requests, up[m], resp[m] # <<>>,
              IsRespClaim(Head(resp[m])),
              resp' = [resp EXCEPT ![m] = Tail(@)],
              req' = [req EXCEPT ![m] = Append(@, r)],
              UNCHANGED <<up, sess, state, votes, alive, lock>>
       PROVE  LockClaims'
  <2>1. /\ resp[m] \in Seq(Results) /\ resp'[m] = Tail(resp[m])
        /\ req[m] \in Seq(Requests) /\ req'[m] = Append(req[m], r)
    BY <1>17 DEF TypeOK
  <2>2. Live(m) => /\ ~NoRespClaim(resp[m]) /\ lock = Session(m)
                   /\ NoRespClaim(resp'[m]) /\ OneRespClaim(resp'[m])
                   /\ NoReqClaim(req[m]) /\ ~Coordinates(m)
    BY <1>17, <2>1, TailRespClaim DEF ClaimsOf
  <2>3. Live(m) => OneReqClaim(req'[m])
    BY <2>1, <2>2, AppendReqClaim
  <2>4. ClaimsOf(m)' /\ DownOf(m)'
    BY <1>17, <2>2, <2>3 DEF ClaimsOf, DownOf, Live, Session, Coordinates, Leads
  <2>5. ASSUME NEW n \in Members, n # m PROVE ClaimsOf(n)' /\ DownOf(n)'
    <3>1. req'[n] = req[n] /\ resp'[n] = resp[n]
      BY <1>17, <2>5 DEF TypeOK
    <3> QED
      BY <1>17, <2>5, <3>1, <1>2
  <2> QED
    BY <2>4, <2>5
<1>18. ASSUME NEW m \in Members, AcquireElectorResult(m) PROVE LockClaims'
  <2>1. CASE Head(resp[m]).ok
    <3>1. Request("increaseTerm", {}) \in Requests
      BY RequestType DEF Ops
    <3>2. IsRespClaim(Head(resp[m]))
      BY <1>18, <2>1 DEF AcquireElectorResult, Handles, IsRespClaim
    <3> QED
      BY <1>18, <2>1, <3>1, <3>2, <1>17 DEF AcquireElectorResult, Handles, Pop, Issue, procVars, zkVars
  <2>2. CASE ~Head(resp[m]).ok
    BY <1>18, <2>2, DieClaims DEF AcquireElectorResult
  <2> QED
    BY <2>1, <2>2
<1>19. ASSUME NEW m \in Members, IncreaseTermResult(m) PROVE LockClaims'
  <2>1. Request("electorChildren", {}) \in Requests
    BY RequestType DEF Ops
  <2>2. IsRespClaim(Head(resp[m]))
    BY <1>19 DEF IncreaseTermResult, Handles, IsRespClaim
  <2> QED
    BY <1>19, <2>1, <2>2, <1>17 DEF IncreaseTermResult, Handles, Pop, Issue, zkVars
(* A claim in resp[m] becomes the member's role. *)
<1>20. ASSUME NEW m \in Members, up[m], resp[m] # <<>>,
              IsRespClaim(Head(resp[m])),
              resp' = [resp EXCEPT ![m] = Tail(@)],
              \A n \in Members \ {m} : state'[n] = state[n] /\ votes'[n] = votes[n],
              UNCHANGED <<up, sess, req, alive, lock>>
       PROVE  LockClaims'
  <2>1. resp[m] \in Seq(Results) /\ resp'[m] = Tail(resp[m])
    BY <1>20 DEF TypeOK
  <2>2. Live(m) => /\ lock = Session(m)
                   /\ NoRespClaim(resp'[m]) /\ OneRespClaim(resp'[m])
                   /\ NoReqClaim(req[m]) /\ OneReqClaim(req[m])
    BY <1>20, <2>1, TailRespClaim DEF ClaimsOf
  <2>3. ClaimsOf(m)' /\ DownOf(m)'
    BY <1>20, <2>2 DEF ClaimsOf, DownOf, Live, Session
  <2>4. ASSUME NEW n \in Members, n # m PROVE ClaimsOf(n)' /\ DownOf(n)'
    <3>1. resp'[n] = resp[n]
      BY <1>20, <2>4 DEF TypeOK
    <3> QED
      BY <1>20, <2>4, <3>1, <1>2
  <2> QED
    BY <2>3, <2>4
<1>21. ASSUME NEW m \in Members, ElectorChildrenResult(m) PROVE LockClaims'
  <2>1. IsRespClaim(Head(resp[m]))
    BY <1>21 DEF ElectorChildrenResult, Handles, IsRespClaim
  <2>2. \A n \in Members \ {m} : state'[n] = state[n] /\ votes'[n] = votes[n]
    BY <1>21 DEF ElectorChildrenResult, TypeOK
  <2> QED
    BY <1>21, <2>1, <2>2, <1>20 DEF ElectorChildrenResult, Handles, Pop, zkVars
<1>22. ASSUME NEW m \in Members, AcquireLeaderResult(m) PROVE LockClaims'
  <2>1. CASE Head(resp[m]).ok
    <3>1. IsRespClaim(Head(resp[m]))
      BY <1>22, <2>1 DEF AcquireLeaderResult, Handles, IsRespClaim
    <3>2. \A n \in Members \ {m} : state'[n] = state[n] /\ votes'[n] = votes[n]
      BY <1>22, <2>1 DEF AcquireLeaderResult, TypeOK
    <3> QED
      BY <1>22, <2>1, <3>1, <3>2, <1>20 DEF AcquireLeaderResult, Handles, Pop, zkVars
  <2>2. CASE ~Head(resp[m]).ok
    BY <1>22, <2>2, DieClaims DEF AcquireLeaderResult
  <2> QED
    BY <2>1, <2>2
<1>23. ASSUME NEW m \in Members, RemoveLockResult(m) PROVE LockClaims'
  <2>1. CASE Head(resp[m]).ok
    <3>1. /\ up[m] /\ resp[m] # <<>>
          /\ resp' = [resp EXCEPT ![m] = Tail(@)]
          /\ state' = [state EXCEPT ![m] = "FOLLOWER_WAIT_TO_JOIN_GROUP"]
          /\ UNCHANGED <<up, sess, votes, req, alive, lock>>
      BY <1>23, <2>1 DEF RemoveLockResult, Handles, Pop, zkVars
    <3>2. resp[m] \in Seq(Results) /\ resp'[m] = Tail(resp[m])
      BY <3>1 DEF TypeOK
    <3>3. ~Coordinates(m)'
      BY <3>1 DEF TypeOK, Coordinates, Leads, LeaderStates
    <3>4. /\ OneRespClaim(resp[m]) => OneRespClaim(resp'[m])
          /\ NoRespClaim(resp[m]) => NoRespClaim(resp'[m])
      BY <3>1, <3>2, TailRespClaim
    <3>5. ClaimsOf(m)' /\ DownOf(m)'
      BY <3>1, <3>3, <3>4 DEF ClaimsOf, DownOf, Live, Session
    <3>6. ASSUME NEW n \in Members, n # m PROVE ClaimsOf(n)' /\ DownOf(n)'
      <4>1. resp'[n] = resp[n] /\ state'[n] = state[n]
        BY <3>1, <3>6 DEF TypeOK
      <4> QED
        BY <3>1, <3>6, <4>1, <1>2
    <3> QED
      BY <3>5, <3>6
  <2>2. CASE ~Head(resp[m]).ok
    BY <1>23, <2>2, DieClaims DEF RemoveLockResult
  <2> QED
    BY <2>1, <2>2
<1>24. CASE UNCHANGED vars
  BY <1>24, <1>1 DEF vars, procVars, netVars, zkVars
<1> QED
  BY <1>3, <1>4, <1>5, <1>6, <1>7, <1>8, <1>9, <1>10, <1>11, <1>12, <1>13, <1>14, <1>15,
     <1>16, <1>18, <1>19, <1>21, <1>22, <1>23, <1>24
     DEF Next, Serve, Continue

(* LockClaims is inductive: a member with a live session that coordinates the
   group, or that has a request or a result of a coordinator, owns LOCK. *)
THEOREM ClaimsCorrect == Spec => []LockClaims
<1>1. Init => LockClaims
  BY InitClaims
<1>2. TypeOK /\ LockClaims /\ [Next]_vars => LockClaims'
  BY NextClaims
<1> QED
  BY <1>1, <1>2, TypeCorrect, PTL DEF Spec

(* Two members with live sessions never coordinate the group at the same time,
   however many members there are and however requests, watches, messages,
   crashes and expiring sessions interleave. *)
THEOREM Exclusivity == Spec => []ExclusiveCoordinator
<1>1. TypeOK /\ LockClaims => ExclusiveCoordinator
  BY SessionsDiffer DEF LockClaims, ClaimsOf, ExclusiveCoordinator
<1> QED
  BY <1>1, TypeCorrect, ClaimsCorrect, PTL

(* The steps that may change LOCK. *)
LEMMA LockChanges ==
  ASSUME [Next]_vars, lock' # lock
  PROVE  \/ \E n \in Members : ServeAcquireLock(n) \/ ServeRemoveLock(n)
         \/ \E s \in alive : ExpireSession(s)
<1>1. ASSUME NEW n \in Members, Die(n) PROVE FALSE
  BY <1>1 DEF Die, zkVars
<1>2. ASSUME NEW n \in Members,
             \/ ServeInitChildren(n) \/ ServeCreateMember(n) \/ ServeElectorChildren(n)
             \/ ServeWatchCb(n) \/ ServeIncreaseTerm(n)
      PROVE  FALSE
  BY <1>2 DEF ServeInitChildren, ServeCreateMember, ServeElectorChildren, ServeWatchCb,
              ServeIncreaseTerm, zkVars
<1>3. ASSUME NEW n \in Members, Continue(n) PROVE FALSE
  BY <1>1, <1>3 DEF Continue, handleGroupWatchEvent, AcquireElectorResult, IncreaseTermResult,
     ElectorChildrenResult, RemoveLockResult, AcquireLeaderResult, handleElectionResponse, zkVars
<1>4. ASSUME NEW n \in Members,
             \/ StartMember(n) \/ Crash(n) \/ AbortOnExpiry(n) \/ GroupWatchTimer(n) \/ CoolDown(n)
             \/ \E k \in Members : handleGetMemberStateMsg(n, k) \/ GetMemberStateFails(n, k)
      PROVE  FALSE
  BY <1>1, <1>4 DEF StartMember, Crash, AbortOnExpiry, GroupWatchTimer, CoolDown,
     handleGetMemberStateMsg, GetMemberStateFails, zkVars
<1>5. ASSUME NEW msg \in msgs, handleBecomeLeaderMsg(msg) \/ BecomeLeaderMsgLost(msg) PROVE FALSE
  BY <1>5 DEF handleBecomeLeaderMsg, BecomeLeaderMsgLost, zkVars
<1>6. ~UNCHANGED vars
  BY DEF vars, zkVars
<1> QED
  BY <1>2, <1>3, <1>4, <1>5, <1>6 DEF Next, Serve

(* A member with a live session loses LOCK only to its own removeLock_. *)
THEOREM LockKept == Spec => LockTakenFromNobody
<1> DEFINE Kept ==
      \A m \in Members :
        Live(m) /\ lock = Session(m) /\ lock' # lock =>
          \/ Session(m) \notin alive'
          \/ /\ req[m] # <<>> /\ Head(req[m]).op = "removeLock"
             /\ req'[m] = Tail(req[m])
<1>1. TypeOK /\ LockClaims /\ [Next]_vars => [Kept]_vars
  <2> SUFFICES ASSUME TypeOK, LockClaims, [Next]_vars, NEW m \in Members,
                      Live(m), lock = Session(m), lock' # lock, Session(m) \in alive'
               PROVE  /\ req[m] # <<>> /\ Head(req[m]).op = "removeLock"
                      /\ req'[m] = Tail(req[m])
    OBVIOUS
  <2>1. ASSUME NEW n \in Members, ServeAcquireLock(n) PROVE FALSE
    BY <2>1, SessionsDiffer DEF ServeAcquireLock
  <2>2. ASSUME NEW s \in alive, ExpireSession(s) PROVE FALSE
    BY <2>2 DEF ExpireSession
  <2>3. ASSUME NEW n \in Members, ServeRemoveLock(n)
        PROVE  /\ req[m] # <<>> /\ Head(req[m]).op = "removeLock"
               /\ req'[m] = Tail(req[m])
    <3>1. /\ Live(n) /\ req[n] # <<>> /\ Head(req[n]).op = "removeLock"
          /\ req' = [req EXCEPT ![n] = Tail(@)]
      BY <2>3 DEF ServeRemoveLock, Serves
    <3>2. IsReqClaim(Head(req[n])) /\ req[n] \in Seq(Requests)
      BY <3>1 DEF IsReqClaim, TypeOK
    <3>3. lock = Session(n)
      BY <3>1, <3>2, TailReqClaim DEF LockClaims, ClaimsOf
    <3>4. n = m
      BY <3>3, SessionsDiffer
    <3> QED
      BY <3>1, <3>4 DEF TypeOK
  <2> QED
    BY <2>1, <2>2, <2>3, LockChanges
<1> QED
  BY <1>1, TypeCorrect, ClaimsCorrect, PTL DEF Spec, LockTakenFromNobody
=============================================================================
